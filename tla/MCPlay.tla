------------------------------- MODULE MCPlay -------------------------------
(***************************************************************************)
(* The cooperative campaign, without the reconnect hack and with it, the   *)
(* weapons of a player, the entities that fire each other, the guns that   *)
(* players hold and the pool of sounds.  They do not share state:          *)
(* component says which of them a behaviour is about, and the others stay  *)
(* as they are.                                                            *)
(***************************************************************************)
EXTENDS CoopCampaign, Weapons, Targets, Tanks, SoundPool, TLC

VARIABLE component

\* Three maps of a campaign and one of the cycle, on a line: where the world
\* of each is, and where its landmarks are.
MCMaps == {"c0", "c1", "c2", "x"}
MCOrigin == "c0" :> 0 @@ "c1" :> 3 @@ "c2" :> 7 @@ "x" :> 0
MCPlace == "l01" :> 4 @@ "l12" :> 9 @@ "bad" :> 1
MCInMaps == "l01" :> {"c0", "c1"} @@ "l12" :> {"c1", "c2"} @@ "bad" :> {"c0"}
ChangeOf(from, to, landmark) ==
    [from |-> from, to |-> to, landmark |-> landmark, spawnSaved |-> landmark \in {"l12", "bad"}]
MCChanges == {ChangeOf("c0", "c1", "l01"), ChangeOf("c1", "c0", "l01"), ChangeOf("c1", "c2", "l12"),
              ChangeOf("c2", "c1", "l12"), ChangeOf("c0", "c2", "bad")}
MCStartsWith == {<<m, m>> : m \in MCMaps}

\* Weapons with small clips and belts, and what a level has of them.
WeaponOf(kind, slot, ammo, max, clip, give, weight) ==
    [kind |-> kind, slot |-> slot, ammo |-> ammo, max |-> max, clip |-> clip, give |-> give,
     weight |-> weight]
MCWeaponInfo ==
    [crowbar |-> WeaponOf("melee", 1, "none", -1, -1, 0, 0),
     glock   |-> WeaponOf("gun", 2, "9mm", 3, 2, 2, 10),
     grenade |-> WeaponOf("grenade", 3, "grenades", 1, -1, 1, 5),
     satchel |-> WeaponOf("satchel", 3, "satchels", 1, -1, 1, -10)]
MCItemClass ==
    [c1 |-> "crowbar", g1 |-> "glock", g2 |-> "glock", g3 |-> "glock", g4 |-> "glock",
     n1 |-> "grenade", n2 |-> "grenade", s1 |-> "satchel", s2 |-> "satchel"]
MCCasts == {{"c1", "g1", "g2"}, {"c1", "g3", "g4"}, {"g1", "n1", "n2"},
            {"c1", "s1", "s2"}, {"g1", "s1"}}

\* A trigger fires a manager, which fires a threaded one, a maker and itself;
\* the threaded one counts down to a relay that fires the makers.
RelayOf(target, killtarget, delay) ==
    [kind |-> "trigger_relay", target |-> target, killtarget |-> killtarget, delay |-> delay,
     useType |-> "TOGGLE", once |-> TRUE]
CounterOf(target, count, master) ==
    [kind |-> "trigger_counter", target |-> target, killtarget |-> "none", delay |-> 0, wait |-> -1,
     master |-> master, count |-> count]
ManagerOf(list, thread) == [kind |-> "multi_manager", list |-> list, thread |-> thread]
MakerOf(target, cyclic, startOn, count) ==
    [kind |-> "monstermaker", target |-> target, cyclic |-> cyclic, startOn |-> startOn,
     max |-> 1, count |-> count, delay |-> 1]
After(target, delay) == [target |-> target, delay |-> delay]
MCTargetConf ==
    [touch  |-> [kind |-> "trigger_multiple", target |-> "man", killtarget |-> "none", delay |-> 0,
                 wait |-> 1, master |-> FALSE],
     man    |-> ManagerOf(<<After("thread", 0), After("maker", 1), After("man", 1)>>, FALSE),
     thread |-> ManagerOf(<<After("count", 0), After("locked", 1)>>, TRUE),
     relay  |-> RelayOf("maker", "touch", 1),
     count  |-> CounterOf("relay", 2, FALSE),
     locked |-> CounterOf("count", 2, TRUE),
     maker  |-> MakerOf("locked", FALSE, FALSE, 2),
     cyclic |-> MakerOf("none", TRUE, TRUE, -1)]
MCTargetname ==
    [man |-> <<"man">>, thread |-> <<"thread">>, relay |-> <<"relay">>, count |-> <<"count">>,
     maker |-> <<"maker", "cyclic">>, touch |-> <<"touch">>, locked |-> <<"locked">>]

\* The campaign of the hack: commands queue up while a change of level waits.
\* Nothing is saved or loaded.
Reconnect == INSTANCE CoopCampaign
    WITH mp_coop_reconnect_hack <- TRUE, MaxQueue <- 2, SaveMaps <- {}

playVars == <<component, campaignVars, weaponVars, targetVars, tankVars, vars>>
InCampaign == component = "campaign" /\ UNCHANGED <<component, weaponVars, targetVars, tankVars, vars>>
InReconnect ==
    /\ component = "reconnect" /\ afterLoad' = Never
    /\ UNCHANGED <<component, weaponVars, targetVars, tankVars, vars>>
InWeapons == component = "weapons" /\ UNCHANGED <<component, campaignVars, targetVars, tankVars, vars>>
InTargets == component = "targets" /\ UNCHANGED <<component, campaignVars, weaponVars, tankVars, vars>>
InTanks == component = "tanks" /\ UNCHANGED <<component, campaignVars, weaponVars, targetVars, vars>>
InSounds == component = "sounds" /\ UNCHANGED <<component, campaignVars, weaponVars, targetVars, tankVars>>

PlayInit ==
    /\ component \in {"campaign", "reconnect", "weapons", "targets", "tanks", "sounds"}
    /\ CampaignInit /\ WeaponInit /\ TargetInit /\ TanksInit /\ Init
    /\ component # "weapons" => Items = {"g1", "s1"}
PlayNext == \/ InCampaign /\ CampaignNext
            \/ InReconnect /\ Reconnect!CampaignNext
            \/ InWeapons /\ WeaponNext
            \/ InTargets /\ TargetNext
            \/ InTanks /\ TanksNext
            \/ InSounds /\ Next
PlaySpec == PlayInit /\ [][PlayNext]_playVars

\* The campaign, the weapons, the targets, the tanks and the pool of sounds have
\* their types: the current map is known, no clip or pack holds more than it
\* takes, and a run of a manager is at one of its targets.
PlayTypeOK == CampaignTypeOK /\ WeaponTypeOK /\ TargetTypeOK /\ TanksTypeOK /\ TypeOK
=============================================================================
