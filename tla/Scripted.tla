------------------------------ MODULE Scripted ------------------------------
(***************************************************************************)
(* Scripted sequences (dlls/scripted.cpp) and the monsters they take over  *)
(* (dlls/schedule.cpp, dlls/monsterstate.cpp): a script finds a monster,   *)
(* makes it walk to its mark, waits for the other scripts of its name,     *)
(* plays its sequence and lets the monster go; damage, players and scripts *)
(* that find no one break it off.                                          *)
(*                                                                         *)
(* Monsters and scripts think in any order.  Of a schedule only the task   *)
(* it has reached is kept, and all that is not a script's is "other".      *)
(***************************************************************************)
EXTENDS Integers, FiniteSets, SequencesExt

CONSTANTS ScriptConf,     \* script -> its fields in the map
          Talkers,        \* the talking monsters, which follow players
          Scenes,         \* sets of scripts; a map has one of them
          MaxDelayStart,  \* bound: m_iDelay of a script
          MaxIncidents    \* bound: blows, uses and invitations in a run

Name(c) == ScriptConf[c].name
IsAI(c) == ScriptConf[c].class = "aiscripted_sequence"
Walks(c) == ScriptConf[c].moveTo = 1
ScriptTasks == {"walk", "wait", "started", "play"}
NoScript == "none"
NoActor == "none"

\* What a level says of its scripts; nothing is called "none".
ASSUME ScriptedAssumption ==
    /\ IsFiniteSet(DOMAIN ScriptConf)
    /\ \A scene \in Scenes : scene \subseteq DOMAIN ScriptConf /\ NoScript \notin scene
    /\ \A c \in DOMAIN ScriptConf :
          /\ ScriptConf[c].entity \in Seq(Range(ScriptConf[c].entity))
          /\ NoActor \notin Range(ScriptConf[c].entity)
          /\ {ScriptConf[c].idle, ScriptConf[c].noInterrupt} \subseteq BOOLEAN
    /\ MaxDelayStart \in Nat

VARIABLES script,   \* script -> [gone, target, think, m_iDelay, start, interruptable]
          incidents,\* how many there have been
          actor     \* monster -> [gone, state, ideal, cine, scriptState, task, ...]

scriptedVars == <<script, actor, incidents>>
Scripts == DOMAIN script
Actors == DOMAIN actor
Now == [script |-> script, actor |-> actor]
ScriptedBecome(next) ==
    \E s \in {next} :
        /\ \A c \in Scripts : s.script[c].m_iDelay \in -MaxDelayStart .. MaxDelayStart
        /\ script' = s.script
        /\ actor' = s.actor
ScriptIs(s, c, r) == [s EXCEPT !.script = [s.script EXCEPT ![c] = r]]
ActorIs(s, a, m) == [s EXCEPT !.actor = [s.actor EXCEPT ![a] = m]]

\* CCineMonster::Spawn.  start: whether m_startTime has come, comes 0.05 s
\* from now, or is 1E6 seconds away.
ScriptedInit ==
    /\ incidents = 0
    /\ \E scene \in Scenes :
      /\ script = [c \in scene |->
             LET thinks == Name(c) = "none" \/ ScriptConf[c].idle
             IN  [gone |-> FALSE, target |-> NoActor, m_iDelay |-> 0,
                  think |-> IF thinks THEN "CineThink" ELSE "none",
                  start |-> IF thinks /\ Name(c) # "none" THEN "never" ELSE "due",
                  interruptable |-> ~ScriptConf[c].noInterrupt]]
      /\ actor = [a \in UNION {Range(ScriptConf[c].entity) : c \in scene} |->
           [gone |-> FALSE, state |-> "idle", ideal |-> "idle", cine |-> NoScript,
            scriptState |-> "none", task |-> "other", failed |-> FALSE, hurt |-> FALSE,
            well |-> TRUE, killed |-> FALSE, deadflag |-> "no"]]

-----------------------------------------------------------------------------
(* The scripts *)

IsAlive(s, a) == ~s.actor[a].gone /\ s.actor[a].deadflag = "no" /\ s.actor[a].well

\* The scripts that have c's targetname: an unnamed script has itself alone.
Group(c) == IF Name(c) = "none" THEN {c}
            ELSE {d \in Scripts : Name(d) = Name(c) /\ ~script[d].gone}

\* CBaseMonster::CanPlaySequence
CanPlaySequence(s, a, c) ==
    LET m == s.actor[a]
    IN  /\ m.cine = NoScript /\ IsAlive(s, a)
        /\ \/ IsAI(c) \/ ScriptConf[c].override
           \/ m.state = "idle" \/ m.ideal = "idle"
           \/ m.state = "alert" /\ ScriptConf[c].byName

Delayed(r, more) ==
    [r EXCEPT !.m_iDelay = IF more THEN r.m_iDelay + 1 ELSE r.m_iDelay - 1,
              !.start = IF ~more /\ r.m_iDelay <= 1 THEN "soon" ELSE r.start]

\* A bug: the other scripts of the name are not told.
DelayStartAlone(s, c, more) ==
    ScriptIs(s, c, Delayed(s.script[c], more))
\* CCineMonster::DelayStart
DelayStart(s, c, more) ==
    [s EXCEPT !.script = [d \in Scripts |->
        IF d \in Group(c) /\ ~IsAI(d) THEN Delayed(s.script[d], more) ELSE s.script[d]]]

\* GetScheduleOfType of SCHED_AISCRIPT and ChangeSchedule
ScriptSchedule(s, a, c) ==
    ActorIs(s, a, [s.actor[a] EXCEPT !.task = IF Walks(c) THEN "walk" ELSE "wait",
                                     !.failed = FALSE, !.hurt = FALSE])

\* PossessEntity of CCineMonster and of CCineAI, which does not count walkers
\* and gives a monster that is in a script already its schedule at once.  A
\* scripted monster that has been teleported waits for a second use.
PossessEntity(s, c, a) ==
    LET r == [s.script[c] EXCEPT !.target = a,
                     !.start = IF ScriptConf[c].moveTo = 4 THEN "never" ELSE s.script[c].start]
        m == [s.actor[a] EXCEPT !.cine = c, !.ideal = "script",
                                !.scriptState = IF Walks(c) THEN "walk" ELSE "wait"]
        taken == ActorIs(ScriptIs(s, c, r), a, m)
    IN  IF IsAI(c) THEN IF s.actor[a].state = "script" THEN ScriptSchedule(taken, a, c) ELSE taken
        ELSE IF Walks(c) THEN DelayStart(taken, c, TRUE) ELSE taken

\* CineCleanup of the monsters A.  m_scriptState is not read again before
\* PossessEntity sets it.  One whose script has killed it is a corpse
\* at once; one that was hit to death in it dies now.
Cleaned(m) ==
    LET free == [m EXCEPT !.cine = NoScript, !.scriptState = "none"]
    IN  IF m.deadflag = "dying"
        THEN [free EXCEPT !.well = FALSE, !.state = "dead", !.ideal = "dead",
                          !.deadflag = "dead", !.task = "die"]
        ELSE IF m.well THEN [free EXCEPT !.ideal = "idle"]
        ELSE [free EXCEPT !.ideal = "dead", !.hurt = TRUE]
CineCleanup(s, A) ==
    [script |-> [c \in Scripts |-> IF \E a \in A : s.actor[a].cine = c
                                   THEN [s.script[c] EXCEPT !.target = NoActor]
                                   ELSE s.script[c]],
     actor |-> [a \in Actors |-> IF a \in A THEN Cleaned(s.actor[a]) ELSE s.actor[a]]]

\* CancelScript and ScriptEntityCancel.  Only scripts of the class
\* scripted_sequence are cancelled.
CancelScript(s, c) ==
    LET playing == {a \in Actors : /\ \E d \in Group(c) : ~IsAI(d) /\ s.script[d].target = a
                                   /\ "script" \in {s.actor[a].state, s.actor[a].ideal}}
    IN  CineCleanup(s, playing)

\* CCineMonster::Use of each script of that name
UseScripts(s, name) ==
    [s EXCEPT !.script = [c \in Scripts |->
        IF name = "none" \/ Name(c) # name \/ s.script[c].gone THEN s.script[c]
        ELSE IF s.script[c].target = NoActor THEN [s.script[c] EXCEPT !.think = "CineThink"]
        ELSE IF s.actor[s.script[c].target].scriptState = "playing" THEN s.script[c]
        ELSE [s.script[c] EXCEPT !.start = "soon"]]]

\* A bug: the monster is not let go before the targets fire.
SequenceDoneKeeps(s, c, a) ==
    LET over == IF ScriptConf[c].repeatable THEN s
                ELSE ScriptIs(s, c, [s.script[c] EXCEPT !.think = "SUB_Remove"])
    IN  UseScripts(ActorIs(over, a, [over.actor[a] EXCEPT !.task = "none"]), ScriptConf[c].target)
\* SequenceDone and FixScriptMonsterSchedule
SequenceDone(s, c, a) ==
    LET over == IF ScriptConf[c].repeatable THEN s
                ELSE ScriptIs(s, c, [s.script[c] EXCEPT !.think = "SUB_Remove"])
        free == CineCleanup(over, {a})
        m == free.actor[a]
        fixed == IF m.state = "dead" THEN free
                 ELSE IF IsAI(c) /\ ScriptConf[c].ambush
                 THEN ActorIs(free, a, [m EXCEPT !.task = "ambush", !.hurt = FALSE, !.failed = FALSE])
                 ELSE ActorIs(free, a, [m EXCEPT !.task = "none"])
    IN  UseScripts(fixed, ScriptConf[c].target)

CanInterrupt(s, c) ==
    s.script[c].interruptable /\ \E a \in Actors : /\ s.script[c].target = a
                                                   /\ s.actor[a].deadflag = "no"

-----------------------------------------------------------------------------
(* MaintainSchedule of a monster, the ten rounds of it at once *)

\* RunAI: a monster no player can see keeps the conditions its script ignores.
Ignored(s, a, pvs) ==
    LET m == s.actor[a]
    IN  IF pvs /\ m.state = "script" /\ m.cine # NoScript /\ ~CanInterrupt(s, m.cine)
        THEN ActorIs(s, a, [m EXCEPT !.hurt = FALSE]) ELSE s

\* FScheduleValid, and the monster is in the state it should be in.  A blow is in
\* the masks of the idle schedules; that of another state makes way for another.
StillValid(m, done) ==
    /\ m.task # "none" /\ ~m.failed /\ ~done /\ m.state = m.ideal
    /\ ~(m.hurt /\ m.task \in ScriptTasks \cup {"other"})

\* GetIdealState and ExitScriptedSequence
GetIdealState(s, a) ==
    LET m == s.actor[a]
    IN  IF ~m.hurt \/ m.task \notin ScriptTasks \cup {"other"} THEN s
        ELSE IF m.state = "idle" THEN ActorIs(s, a, [m EXCEPT !.ideal = "alert"])
        ELSE IF m.state # "script" THEN s
        ELSE IF m.deadflag = "dying" THEN ActorIs(s, a, [m EXCEPT !.ideal = "dead"])
        ELSE IF m.cine # NoScript THEN CancelScript(s, m.cine)
        ELSE s

\* SetState, GetSchedule and ChangeSchedule.  SCHED_DIE makes a corpse, here at
\* once, that does nothing more.
SetStateUndying(s, a) ==    \* a bug: a monster that dies is not dying
    ActorIs(s, a, [s.actor[a] EXCEPT !.state = s.actor[a].ideal, !.task = "other",
                                     !.failed = FALSE, !.hurt = FALSE])
SetState(s, a) ==
    LET m == [s.actor[a] EXCEPT !.state = s.actor[a].ideal, !.failed = FALSE, !.hurt = FALSE]
        calm == ActorIs(s, a, m)
        free == CineCleanup(calm, {a})
    IN  CASE m.ideal = "dead" -> ActorIs(s, a, [m EXCEPT !.task = "die", !.deadflag = "dying"])
          [] m.ideal = "script" /\ m.cine # NoScript -> ScriptSchedule(calm, a, m.cine)
          [] m.ideal = "script" /\ m.cine = NoScript ->
                 ActorIs(free, a, [free.actor[a] EXCEPT !.task = "other"])
          [] OTHER -> ActorIs(s, a, [m EXCEPT !.task = "other"])

\* The block that changes the schedule.  A walk that fails in a script is
\* tried again after slFail.
ChangeSchedule(s, a, done) ==
    LET m == s.actor[a]
        asks == /\ m.ideal # "dead" /\ (m.ideal = "script" => m.state = "script")
                /\ (m.hurt \/ m.failed) /\ ~done
        t == IF asks THEN GetIdealState(s, a) ELSE s
    IN  IF t.actor[a].failed /\ t.actor[a].state = t.actor[a].ideal
        THEN ActorIs(t, a, [t.actor[a] EXCEPT !.task = "fail", !.failed = FALSE, !.hurt = FALSE])
        ELSE SetState(t, a)

Maintained(s, a, finished) ==
    LET done == finished /\ s.actor[a].task \in {"other", "fail", "ambush"}
    IN  IF StillValid(s.actor[a], done) THEN s ELSE ChangeSchedule(s, a, done)

\* The tasks up to TASK_WAIT_FOR_SCRIPT once the monster is at its mark, with
\* TASK_ENABLE_SCRIPT, and the start of TASK_PLAY_SCRIPT
StartTask(s, a, way) ==
    LET m == s.actor[a]
    IN  IF m.task = "started"
        THEN ActorIs(s, a, [m EXCEPT !.task = "play", !.scriptState = "playing"])
        ELSE IF m.task # "walk" \/ m.cine = NoScript \/ way = "away" THEN s
        ELSE IF way = "fails" THEN ActorIs(s, a, [m EXCEPT !.failed = TRUE])
        ELSE DelayStart(ActorIs(s, a, [m EXCEPT !.task = "wait"]), m.cine, FALSE)

\* RunTask of TASK_WAIT_FOR_SCRIPT and of TASK_PLAY_SCRIPT.  A script without
\* a sequence is done when it starts.
RunTask(s, a, finished) ==
    LET m == s.actor[a]
        c == m.cine
    IN  IF c = NoScript THEN s
        ELSE IF m.task = "wait" /\ s.script[c].m_iDelay <= 0 /\ s.script[c].start = "due"
        THEN IF ScriptConf[c].play THEN ActorIs(s, a, [m EXCEPT !.task = "started"])
             ELSE SequenceDone(s, c, a)
        ELSE IF m.task = "play" /\ finished THEN SequenceDone(s, c, a)
        ELSE s

\* The events of the sequence that plays
Events(s, a) ==
    LET m == s.actor[a]
    IN  IF m.task \in {"started", "play"} /\ m.cine # NoScript /\ m.state = "script"
        THEN ScriptConf[m.cine].events ELSE {}

\* HandleAnimEvent of the events of a script's sequence
HandleAnimEvent(s, a, event) ==
    LET m == s.actor[a]
        r == s.script[m.cine]
    IN  CASE event = "dead" -> ActorIs(s, a, [m EXCEPT !.deadflag = "dying", !.well = FALSE])
          [] event = "not_dead" -> ActorIs(s, a, [m EXCEPT !.deadflag = "no", !.well = TRUE])
          [] event \in {"nointerrupt", "caninterrupt"} /\ ~ScriptConf[m.cine].noInterrupt ->
                 ScriptIs(s, m.cine, [r EXCEPT !.interruptable = event = "caninterrupt"])
          [] OTHER -> s

-----------------------------------------------------------------------------
(* The steps *)

\* A script is fired by something of the map.
ScriptUse(c) ==
    /\ ~script[c].gone /\ Name(c) # "none"
    /\ ScriptedBecome(UseScripts(Now, Name(c)))

\* FindEntity: the first monster of that name that can play
Found(c) ==
    LET entity == ScriptConf[c].entity
        fit == {i \in DOMAIN entity : CanPlaySequence(Now, entity[i], c)}
    IN  IF fit = {} THEN NoActor ELSE entity[CHOOSE i \in fit : \A j \in fit : i <= j]

\* A script that finds no one cancels the scripts of its name and looks again
\* a second later.
CineThink(c) ==
    /\ ~script[c].gone /\ script[c].think = "CineThink"
    /\ LET s == ScriptIs(Now, c, [script[c] EXCEPT !.think = "none", !.target = NoActor])
           t == CancelScript(s, c)
       IN  IF Found(c) # NoActor THEN ScriptedBecome(PossessEntity(s, c, Found(c)))
           ELSE ScriptedBecome(ScriptIs(t, c, [t.script[c] EXCEPT !.think = "CineThink"]))

SUB_Remove(c) ==
    /\ ~script[c].gone /\ script[c].think = "SUB_Remove"
    /\ ScriptedBecome(ScriptIs(Now, c, [script[c] EXCEPT !.gone = TRUE, !.think = "none"]))

\* The 0.05 s before m_startTime pass.
StartTimeComes(c) ==
    /\ script[c].start = "soon"
    /\ ScriptedBecome(ScriptIs(Now, c, [script[c] EXCEPT !.start = "due"]))

\* MonsterThink: RunAI, then the events of the animation.  way: how the walk
\* to the mark goes; finished: the animation, or a schedule that is not a
\* script's, ends.
MonsterThink(a, finished) ==
    /\ ~actor[a].gone /\ actor[a].task # "die"
    /\ finished => actor[a].task \notin {"walk", "wait"}
    /\ \E pvs \in IF actor[a].hurt THEN BOOLEAN ELSE {TRUE},
          way \in {"away", "there", "fails"} :
       \E s \in {Maintained(Ignored(Now, a, pvs), a, finished)} :
       \E t \in {RunTask(StartTask(s, a, way), a, finished)} :
       \E ran \in {ActorIs(t, a, [t.actor[a] EXCEPT !.hurt = FALSE])} :
       \E event \in {"none"} \cup Events(ran, a) :
           ScriptedBecome(HandleAnimEvent(ran, a, event))

Incident == incidents < MaxIncidents /\ incidents' = incidents + 1

\* CBaseMonster::TakeDamage and Killed.  A monster in a script is not killed;
\* BecomeDead gives a corpse health, so that it is alive until it thinks.
TakeDamage(a, kills) ==
    /\ IsAlive(Now, a) /\ Incident
    /\ LET m == [actor[a] EXCEPT !.well = ~kills, !.hurt = TRUE]
           n == IF m.state = "script" \/ ~kills THEN m
                ELSE IF m.killed THEN [m EXCEPT !.hurt = actor[a].hurt]
                ELSE [m EXCEPT !.killed = TRUE, !.ideal = "dead", !.well = TRUE]
       IN  ScriptedBecome(ActorIs(Now, a, n))

\* CBaseMonster::MonsterUse: something fires the monster's targetname.
MonsterUse(a) ==
    /\ ~actor[a].gone /\ a \notin Talkers /\ actor[a].state = "idle" /\ Incident
    /\ ScriptedBecome(ActorIs(Now, a, [actor[a] EXCEPT !.ideal = "alert"]))

\* FollowerUse and StartFollowing: a player asks a talking monster along.
\* enemy: it has one.
StartFollowing(a, enemy) ==
    /\ a \in Talkers /\ IsAlive(Now, a) /\ Incident
    /\ actor[a].state = "script" => actor[a].cine # NoScript /\ CanInterrupt(Now, actor[a].cine)
    /\ LET s == IF actor[a].cine # NoScript THEN CancelScript(Now, actor[a].cine) ELSE Now
           m == s.actor[a]
       IN  ScriptedBecome(ActorIs(s, a, [m EXCEPT !.task = "none",
                                                  !.ideal = IF enemy THEN "alert" ELSE m.ideal]))

\* The corpse is gibbed or fades; the handles to it are NULL from then on.
ActorRemoved(a) ==
    /\ ~actor[a].gone /\ actor[a].ideal = "dead"
    /\ LET s == [Now EXCEPT !.script = [c \in Scripts |->
                    IF script[c].target = a THEN [script[c] EXCEPT !.target = NoActor]
                    ELSE script[c]]]
       IN  ScriptedBecome(ActorIs(s, a, [actor[a] EXCEPT !.gone = TRUE]))

ScriptedNext ==
    \/ /\ \/ \E c \in Scripts : ScriptUse(c) \/ CineThink(c) \/ SUB_Remove(c) \/ StartTimeComes(c)
          \/ \E a \in Actors : \/ ActorRemoved(a)
                               \/ \E finished \in BOOLEAN : MonsterThink(a, finished)
       /\ UNCHANGED incidents
    \/ \E a \in Actors : \/ MonsterUse(a)
                         \/ \E b \in BOOLEAN : TakeDamage(a, b) \/ StartFollowing(a, b)
AllActors == UNION {Range(ScriptConf[c].entity) : c \in DOMAIN ScriptConf}
\* Monsters think ten times a second, and animations end.
SequenceEnds(a) ==
    /\ a \in Actors /\ actor[a].task = "play"
    /\ MonsterThink(a, TRUE) /\ UNCHANGED incidents
ScriptedSpec ==
    /\ ScriptedInit /\ [][ScriptedNext]_scriptedVars
    /\ \A a \in AllActors : WF_scriptedVars(SequenceEnds(a))

-----------------------------------------------------------------------------
(* What should hold *)

\* Scripts and monsters have the fields and values their code gives them, and
\* a monster in the state dead is dead, to stay so.
ScriptedTypeOK ==
    /\ \A c \in Scripts : script[c] \in
         [gone : BOOLEAN, target : Actors \cup {NoActor},
          think : {"none", "CineThink", "SUB_Remove"}, m_iDelay : -MaxDelayStart .. MaxDelayStart,
          start : {"due", "soon", "never"}, interruptable : BOOLEAN]
    /\ \A a \in Actors : actor[a] \in
         [gone : BOOLEAN, state : {"idle", "alert", "script", "dead"},
          ideal : {"idle", "alert", "script", "dead"}, cine : Scripts \cup {NoScript},
          scriptState : {"none", "wait", "walk", "playing"},
          task : ScriptTasks \cup {"none", "other", "fail", "ambush", "die"},
          failed : BOOLEAN, hurt : BOOLEAN, well : BOOLEAN, killed : BOOLEAN,
          deadflag : {"no", "dying", "dead"}]
    /\ \A a \in Actors : actor[a].state = "dead" =>
           actor[a].ideal = "dead" /\ actor[a].deadflag # "no" /\ actor[a].task = "die"

\* StartTask and RunTask use m_pCine without a look whether it is NULL: a
\* monster that is to be in a script, whatever has happened to its script,
\* has one.
ScriptStateHasScript ==
    \A a \in Actors : actor[a].ideal = "script" /\ ~actor[a].gone => actor[a].cine # NoScript

\* m_pCine of a monster and m_hTargetEnt of a script are set and cleared
\* together by PossessEntity and CineCleanup: the script of a monster is not
\* removed under it (m_pCine is a plain pointer), and its m_hTargetEnt is no
\* other monster, so that no monster is left in a script that forgot it,
\* and who is to be in a script has one.
ScriptsAndActorsAgree ==
    /\ \A a \in Actors : ~actor[a].gone /\ actor[a].cine # NoScript =>
           ~script[actor[a].cine].gone /\ script[actor[a].cine].target = a
    /\ \A c \in Scripts : script[c].target # NoActor => actor[script[c].target].cine = c
    /\ ScriptStateHasScript

\* "find all the cinematic entities with my targetname and tell them to wait
\* before starting": m_iDelay counts at least the monsters that are still on
\* their way to a mark of that name, so that none starts without them.  An
\* aiscripted_sequence of the same name takes one off it has never put on, and
\* so does a script without a walk whose monster is in the middle of another's.
Walking(c) ==
    \E a \in Actors : /\ ~actor[a].gone /\ actor[a].cine = c /\ actor[a].scriptState = "walk"
                      /\ actor[a].task \notin {"wait", "started", "play"}
\* All scripts of c's name, the removed ones too: what they did to the count
\* remains.
Namesakes(c) == IF Name(c) = "none" THEN {c} ELSE {d \in Scripts : Name(d) = Name(c)}
Proper(c) == \A d \in Namesakes(c) : ~IsAI(d) /\ Walks(d)
WalkersAreWaitedFor ==
    \A c \in Scripts : Proper(c) /\ ~script[c].gone =>
        script[c].m_iDelay >= Cardinality({d \in Group(c) : Walking(d)})

\* A scripted_sequence that plays lets its monster go in the end, whoever is
\* hurt, and whatever other script has its eye on it.  (An aiscripted_sequence
\* cannot be cancelled: a blow makes the monster walk to its mark again, which
\* it may never reach.)
PlaysSequence(a) ==
    /\ a \in Actors /\ actor[a].task = "play"
    /\ actor[a].cine # NoScript /\ ~IsAI(actor[a].cine)
SequencesEnd ==
    \A a \in AllActors : PlaysSequence(a) ~> (a \in Actors => actor[a].cine = NoScript)

\* "DEAD & SCRIPT are not suggestions, they are commands!" (schedule.cpp:205):
\* a monster that is to die dies.
DeadIsACommand ==
    [][\A a \in Actors : actor[a].ideal = "dead" => actor'[a].ideal = "dead"]_scriptedVars
=============================================================================
