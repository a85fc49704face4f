----------------------------- MODULE MCMachines -----------------------------
(***************************************************************************)
(* Doors, buttons, scripted sequences and trains: what a level sets going  *)
(* and what must come to an end.  The four do not share state; component   *)
(* says which of them a behaviour is about, and the others stay as they    *)
(* are.                                                                    *)
(***************************************************************************)
EXTENDS Doors, Buttons, Scripted, Tracks, TLC

VARIABLE component

DoorOf(targetname, autoReturn, useOnly, returns, small, target, fast) ==
    [targetname |-> targetname, autoReturn |-> autoReturn, useOnly |-> useOnly,
     returns |-> returns, small |-> small, target |-> target, fast |-> fast]
MCDoorConf ==
    "left"   :> DoorOf("gate", TRUE, FALSE, TRUE, TRUE, TRUE, FALSE) @@
    "right"  :> DoorOf("gate", TRUE, FALSE, TRUE, FALSE, FALSE, FALSE) @@
    "toggle" :> DoorOf("lift", FALSE, TRUE, TRUE, TRUE, FALSE, FALSE) @@
    "stays"  :> DoorOf("gate", TRUE, FALSE, FALSE, FALSE, TRUE, FALSE) @@
    "fast"   :> DoorOf("none", TRUE, FALSE, TRUE, FALSE, FALSE, TRUE)

ButtonOf(target, master, toggle, touchOnly, stays, health, delay) ==
    [target |-> target, master |-> master, toggle |-> toggle, touchOnly |-> touchOnly,
     stays |-> stays, health |-> health, delay |-> delay]
MCButtonOrder == <<"push", "stay", "tog", "locked", "late">>
MCButtonConf ==
    "push"   :> ButtonOf("s", "none", FALSE, TRUE, FALSE, FALSE, FALSE) @@
    "stay"   :> ButtonOf("s", "none", FALSE, FALSE, TRUE, TRUE, FALSE) @@
    "tog"    :> ButtonOf("g", "s", TRUE, TRUE, FALSE, FALSE, FALSE) @@
    "locked" :> ButtonOf("s2", "s", FALSE, TRUE, FALSE, FALSE, FALSE) @@
    "late"   :> ButtonOf("b", "none", FALSE, FALSE, FALSE, TRUE, TRUE)
MCSourceConf == "s"  :> [target |-> "b", globalstate |-> "none"] @@
                "s2" :> [target |-> "g", globalstate |-> "G"]
MCEnvConf == "e" :> [triggermode |-> 3, globalstate |-> "G"]
MCNamedEntities == "b" :> <<"stay", "late">> @@ "g" :> <<"e">> @@
                   "s" :> <<"s">> @@ "s2" :> <<"s2">>

\* w1 and w2 walk and wait for each other; wa fires them, and w1 fires wa;
\* wb teleports its monster; ai is an aiscripted_sequence of the name of w1.
ScriptOf(name, class, moveTo, entity, target, flags, events) ==
    [name |-> name, class |-> class, moveTo |-> moveTo, entity |-> entity, target |-> target,
     idle |-> "idle" \in flags, play |-> "play" \in flags, repeatable |-> "repeatable" \in flags,
     noInterrupt |-> "noInterrupt" \in flags, override |-> FALSE, byName |-> TRUE,
     ambush |-> "ambush" \in flags, events |-> events]
AllEvents == {"dead", "not_dead", "nointerrupt", "caninterrupt"}
MCScriptConf ==
    "w1" :> ScriptOf("s", "scripted_sequence", 1, <<"a">>, "next", {"play", "repeatable"}, {}) @@
    "w2" :> ScriptOf("s", "scripted_sequence", 1, <<"b", "a">>, "none", {"play"}, {}) @@
    "wa" :> ScriptOf("next", "scripted_sequence", 0, <<"a">>, "s", {"play"}, AllEvents) @@
    "wb" :> ScriptOf("next", "scripted_sequence", 4, <<"b">>, "none",
                     {"play", "idle", "noInterrupt"}, {}) @@
    "ai" :> ScriptOf("s", "aiscripted_sequence", 1, <<"a">>, "none", {"repeatable", "ambush"}, {})
MCScenes == {{"w1", "w2"}, {"w1", "wa"}, {"wb"}, {"w1", "ai"}}

\* Two lines that a trackchange joins; the train starts on the upper one, and
\* where the lower one ends at the trackchange, a train that stops fires it.
MCLines == {<<"a1", "a2", "top", "c1">>, <<"b1", "bot", "b2">>}

machineVars == <<component, doorVars, buttonVars, scriptedVars, trackVars>>
InDoors == component = "doors" /\ UNCHANGED <<component, buttonVars, scriptedVars, trackVars>>
InButtons == component = "buttons" /\ UNCHANGED <<component, doorVars, scriptedVars, trackVars>>
InScripts == component = "scripts" /\ UNCHANGED <<component, doorVars, buttonVars, trackVars>>
InTracks == component = "tracks" /\ UNCHANGED <<component, doorVars, buttonVars, scriptedVars>>

MachinesInit ==
    /\ component \in {"doors", "buttons", "scripts", "tracks"}
    /\ DoorInit /\ ButtonInit /\ ScriptedInit /\ TracksInit
    /\ component # "scripts" => Scripts = {"w1", "ai"}
    /\ component # "tracks" => plat.to = "top"
MachinesNext == \/ InDoors /\ DoorNext
                \/ InButtons /\ ButtonNext
                \/ InScripts /\ ScriptedNext
                \/ InTracks /\ TracksNext
MachinesSpec ==
    /\ MachinesInit /\ [][MachinesNext]_machineVars
    /\ \A d \in DoorSet : WF_machineVars(InDoors /\ DoorThink(d))
    /\ \A b \in Buttons : WF_machineVars(InButtons /\ ButtonThink(b))
    /\ \A a \in AllActors : WF_machineVars(InScripts /\ SequenceEnds(a))

\* Doors, buttons, scripts, monsters and trains have the fields and values
\* their code gives them: a button's think is one its toggle state knows, and a
\* monster in the state dead is dead, to stay so.
MachinesTypeOK == DoorTypeOK /\ ButtonTypeOK /\ ScriptedTypeOK /\ TracksTypeOK
=============================================================================
