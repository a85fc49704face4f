------------------------------ MODULE Targets ------------------------------
(***************************************************************************)
(* The entities that fire others (dlls/triggers.cpp, dlls/subs.cpp) and    *)
(* the monstermakers they fire (dlls/monstermaker.cpp): relays, counters,  *)
(* trigger_multiple and trigger_once, multi_managers with the clones of a  *)
(* threaded one, and delayed firings.                                      *)
(*                                                                         *)
(* Time is in steps; all times are relative (how long until nextthink, how *)
(* long since m_startTime), and it passes when no think is due.  A firing  *)
(* runs through all the entities it reaches at once, so that a step of the *)
(* model is one call of the engine.  Such a call fires inside firings,     *)
(* MaxNesting deep at most: fire is how firings are done one level deeper. *)
(***************************************************************************)
EXTENDS Integers, Sequences, FiniteSets

CONSTANTS TargetConf,     \* entity -> its fields, with its kind
          Targetname,     \* targetname -> its entities, in the order of edicts
          FiredNames,     \* names that something else of the map fires
          Clones,         \* bound: running clones of threaded managers
          MaxNesting,     \* bound: firings inside firings, whose code recurses
          MaxDelayed,     \* bound: delayed firings that wait
          MaxLost         \* bound: living children removed without a notice

Entities == DOMAIN TargetConf
Names == DOMAIN Targetname \cup {"none"}
UseTypes == {"TOGGLE", "ON", "OFF"}
Kind(k) == {e \in Entities : TargetConf[e].kind = k}
Managers == Kind("multi_manager")
Makers == Kind("monstermaker")
Triggers == Kind("trigger_counter") \cup Kind("trigger_multiple")
Idle == [man |-> "none", m_index |-> 0, elapsed |-> 0]
NoThink == -1
List(m) == TargetConf[m].list

\* What a map may say of its entities: CMultiManager::KeyValue,
\* CMonsterMaker::KeyValue, CBaseTrigger::Spawn (a counter of none counts to 2).
ASSUME TargetAssumption ==
    /\ "none" \notin Entities /\ "none" \notin DOMAIN Targetname
    /\ IsFiniteSet(Managers \cup Clones)
    /\ MaxNesting \in Nat
    /\ \A name \in DOMAIN Targetname : Targetname[name] \in Seq(Entities)
    /\ \A m \in Managers : /\ List(m) \in Seq([target : Names, delay : Nat]) /\ List(m) # <<>>
                           /\ TargetConf[m].thread \in BOOLEAN
    /\ \A e \in Makers \cup Kind("trigger_counter") : TargetConf[e].count \in {-1} \cup (Nat \ {0})
    /\ \A m \in Makers :
          /\ TargetConf[m].target \in Names
          /\ TargetConf[m].max \in Int /\ TargetConf[m].delay \in Nat
          /\ TargetConf[m].startOn \in BOOLEAN /\ TargetConf[m].cyclic \in BOOLEAN
    /\ \A e \in Triggers \cup Kind("trigger_relay") :
          /\ TargetConf[e].target \in Names /\ TargetConf[e].killtarget \in Names
          /\ TargetConf[e].delay \in Nat
    /\ \A e \in Triggers : TargetConf[e].wait \in Int /\ TargetConf[e].master \in BOOLEAN
    /\ \A e \in Kind("trigger_relay") :
          TargetConf[e].useType \in UseTypes /\ TargetConf[e].once \in BOOLEAN
    /\ FiredNames \subseteq Names

VARIABLES ent,        \* entity -> [gone, next, left, active, live]
          runs,       \* manager or clone -> what it does
          delayed,    \* the DelayedUse entities
          masterOn,   \* whether the master of the triggers lets them fire
          owed,       \* history: manager -> target -> firings it still owes
          children    \* history: maker -> [alive, lost]

targetVars == <<ent, runs, delayed, masterOn, owed, children>>

\* The state in the middle of a call.  clear: no one stands under the makers;
\* full: a bound is passed.
EntType == [gone : BOOLEAN, active : BOOLEAN, next : Int, left : Int, live : Int]
RunType == [man : Managers \cup {"none"}, m_index : Nat, elapsed : Nat]
FiringType == [from : Entities, useType : UseTypes, next : Int]
OwedType == {o \in [Managers -> Seq(Int)] : \A m \in Managers : DOMAIN o[m] = DOMAIN List(m)}
TargetStates ==
    [ent : [Entities -> EntType], runs : [Managers \cup Clones -> RunType],
     delayed : Seq(FiringType), owed : OwedType,
     children : [Makers -> [alive : Int, lost : Int]], clear : BOOLEAN, full : BOOLEAN]
Calls == [state : TargetStates, name : Names, useType : UseTypes]
Call(s, name, useType) == [state |-> s, name |-> name, useType |-> useType]
Now(clear) == [ent |-> ent, runs |-> runs, delayed |-> delayed, owed |-> owed,
               children |-> children, clear |-> clear, full |-> FALSE]
TargetsBecome(next) ==
    \E s \in {next} :
        /\ ~s.full /\ Len(s.delayed) <= MaxDelayed
        /\ ent' = s.ent /\ runs' = s.runs /\ delayed' = s.delayed
        /\ owed' = s.owed /\ children' = s.children

\* CMonsterMaker::Spawn of a named maker: one that starts on gets a think
\* function but no time to think at.
TargetInit ==
    /\ ent = [e \in Entities |->
                 [gone |-> FALSE, next |-> NoThink, live |-> 0,
                  left |-> IF e \in Makers \cup Kind("trigger_counter")
                           THEN TargetConf[e].count ELSE 0,
                  active |-> e \in Makers /\ TargetConf[e].startOn]]
    /\ runs = [r \in Managers \cup Clones |-> Idle]
    /\ delayed = <<>>
    /\ masterOn = TRUE
    /\ owed = [m \in Managers |-> [i \in DOMAIN List(m) |-> 0]]
    /\ children = [m \in Makers |-> [alive |-> 0, lost |-> 0]]

-----------------------------------------------------------------------------
(* Firing *)

\* UTIL_Remove of every entity of that name.  The clones of a manager have its
\* name too.
Kill(s, name) ==
    LET dead == IF name = "none" THEN {} ELSE {Targetname[name][i] : i \in DOMAIN Targetname[name]}
    IN  [s EXCEPT !.ent = [e \in Entities |-> IF e \in dead THEN [s.ent[e] EXCEPT !.gone = TRUE]
                                              ELSE s.ent[e]],
                  !.runs = [r \in DOMAIN s.runs |-> IF s.runs[r].man \in dead THEN Idle
                                              ELSE s.runs[r]]]

\* CBaseDelay::SUB_UseTargets
SUB_UseTargets(fire, s, e, useType) ==
    LET c == TargetConf[e]
    IN  IF c.target = "none" /\ c.killtarget = "none" THEN s
        ELSE IF c.delay # 0
        THEN [s EXCEPT !.delayed = Append(@, [from |-> e, useType |-> useType, next |-> c.delay])]
        ELSE fire[Call(Kill(s, c.killtarget), c.target, useType)]

\* CBaseTrigger::ActivateMultiTrigger; a trigger that does not wait is removed
\* by a think that is due soon.
ActivateMultiTrigger(fire, s, e) ==
    IF s.ent[e].next > 0 \/ (TargetConf[e].master /\ ~masterOn) THEN s
    ELSE [SUB_UseTargets(fire, s, e, "TOGGLE") EXCEPT
             !.ent[e].next = IF TargetConf[e].wait > 0 THEN TargetConf[e].wait ELSE 1,
             !.ent[e].active = TRUE]

\* CBaseTrigger::CounterUse
CounterUse(fire, s, e) ==
    LET t == [s EXCEPT !.ent[e].left = IF @ < 0 THEN @ ELSE @ - 1]
    IN  IF t.ent[e].left = 0 THEN ActivateMultiTrigger(fire, t, e) ELSE t

\* CMultiManager::ManagerUse, of a threaded manager in a new clone.  A manager
\* that runs has no use function.
Start(s, m, r) ==
    [s EXCEPT !.runs[r] = [man |-> m, m_index |-> 1, elapsed |-> 0],
              !.owed[m] = [i \in DOMAIN List(m) |-> @[i] + 1]]
\* A bug: the use function stays.
ManagerUseAgain(s, m) == Start(s, m, m)
ManagerUse(s, m) ==
    IF TargetConf[m].thread
    THEN LET free == {c \in Clones : s.runs[c] = Idle}
         IN  IF free = {} THEN [s EXCEPT !.full = TRUE] ELSE Start(s, m, CHOOSE c \in free : TRUE)
    ELSE IF s.runs[m] # Idle THEN s ELSE Start(s, m, m)

\* A bug: the limit is passed by one.
RoomTooMuch(s, m) == TargetConf[m].max <= 0 \/ s.ent[m].live <= TargetConf[m].max
RoomForChild(s, m) == TargetConf[m].max <= 0 \/ s.ent[m].live < TargetConf[m].max
\* CMonsterMaker::MakeMonster.  A maker whose own firing made its last monster
\* makes one more, and stays disabled: left is 0 for that too.
MakeMonster(fire, s, m) ==
    IF ~RoomForChild(s, m) \/ ~s.clear THEN s
    ELSE LET t == fire[Call(s, TargetConf[m].target, "TOGGLE")]
             left == IF t.ent[m].left <= 0 THEN t.ent[m].left ELSE t.ent[m].left - 1
             maker == [t.ent[m] EXCEPT !.live = @ + 1, !.left = left,
                                       !.next = IF left = 0 THEN NoThink ELSE @]
         IN  [t EXCEPT !.ent[m] = maker, !.children[m].alive = @ + 1]

\* CMonsterMaker::ToggleUse, CMonsterMaker::CyclicUse; a maker that made all its
\* monsters has no use function.
MakerUse(fire, s, m, useType) ==
    IF s.ent[m].left = 0 THEN s
    ELSE IF TargetConf[m].cyclic THEN MakeMonster(fire, s, m)
    ELSE CASE s.ent[m].active /\ useType # "ON" ->
                  [s EXCEPT !.ent[m].active = FALSE, !.ent[m].next = NoThink]
           [] ~s.ent[m].active /\ useType # "OFF" ->
                  [s EXCEPT !.ent[m].active = TRUE, !.ent[m].next = 0]
           [] OTHER -> s

\* CTriggerRelay::Use
RelayUse(fire, s, e) ==
    LET t == SUB_UseTargets(fire, s, e, TargetConf[e].useType)
    IN  IF TargetConf[e].once THEN [t EXCEPT !.ent[e].gone = TRUE] ELSE t

Use(fire, s, e, useType) ==
    IF s.ent[e].gone THEN s
    ELSE CASE TargetConf[e].kind = "trigger_relay" -> RelayUse(fire, s, e)
           [] TargetConf[e].kind = "trigger_counter" -> CounterUse(fire, s, e)
           [] TargetConf[e].kind = "multi_manager" -> ManagerUse(s, e)
           [] TargetConf[e].kind = "monstermaker" -> MakerUse(fire, s, e, useType)
           [] OTHER -> s

\* The loop of FireTargets over the entities of that name
UseEach(fire, s, name, useType) ==
    LET es == Targetname[name]
        after[i \in 0..Len(es)] == IF i = 0 THEN s ELSE Use(fire, after[i - 1], es[i], useType)
    IN  after[Len(es)]

\* FireTargets with n levels of firings below it
Fire[n \in 0..MaxNesting] ==
    [c \in Calls |-> IF c.name = "none" THEN c.state
                     ELSE IF n = 0 THEN [c.state EXCEPT !.full = TRUE]
                     ELSE UseEach(Fire[n - 1], c.state, c.name, c.useType)]
FireTargets(s, name, useType) == Fire[MaxNesting][Call(s, name, useType)]

-----------------------------------------------------------------------------
(* Actions *)

\* A player touches a trigger_multiple (CBaseTrigger::MultiTouch).
TouchTrigger(e, clear) ==
    /\ TargetConf[e].kind = "trigger_multiple"
    /\ ~ent[e].gone /\ (TargetConf[e].wait > 0 \/ ~ent[e].active)
    /\ TargetsBecome(ActivateMultiTrigger(Fire[MaxNesting], Now(clear), e))
    /\ UNCHANGED masterOn

\* Something else of the map, a button or a script, fires a name; as bounds,
\* while one clone runs at most.
FireName(name, clear) ==
    /\ Cardinality({c \in Clones : runs[c] # Idle}) <= 1
    /\ TargetsBecome(FireTargets(Now(clear), name, "TOGGLE"))
    /\ UNCHANGED masterOn

\* The think of a trigger: MultiWaitOver or SUB_Remove.
TriggerThink(e) ==
    /\ e \in Triggers /\ ~ent[e].gone /\ ent[e].next = 0
    /\ ent' = [ent EXCEPT ![e].next = NoThink, ![e].gone = TargetConf[e].wait <= 0]
    /\ UNCHANGED <<runs, delayed, masterOn, owed, children>>

\* CMonsterMaker::MakerThink
MakerThink(m, clear) ==
    /\ ~ent[m].gone /\ ent[m].next = 0
    /\ TargetsBecome(MakeMonster(Fire[MaxNesting],
                                 [Now(clear) EXCEPT !.ent[m].next = TargetConf[m].delay], m))
    /\ UNCHANGED masterOn

Due(run) == run # Idle /\ List(run.man)[run.m_index].delay <= run.elapsed
Ended(run, i) == i > Len(List(run.man))

\* Where the while loop of ManagerThink ends: at the first target that is not due.
NotDue(run) == CHOOSE i \in run.m_index..Len(List(run.man)) + 1 :
    /\ Ended(run, i) \/ List(run.man)[i].delay > run.elapsed
    /\ \A j \in run.m_index..i - 1 : List(run.man)[j].delay <= run.elapsed

\* The while loop of ManagerThink
FireDue(s, run) ==
    LET at(k) == run.m_index + k - 1
        fired[k \in 0..NotDue(run) - run.m_index] ==
            IF k = 0 THEN s
            ELSE FireTargets([fired[k - 1] EXCEPT !.owed[run.man][at(k)] = @ - 1],
                             List(run.man)[at(k)].target, "TOGGLE")
    IN  fired[NotDue(run) - run.m_index]

\* CMultiManager::ManagerThink of a manager or of a clone.  One that was removed
\* meanwhile has left its place.
ManagerThink(r, clear) ==
    /\ Due(runs[r])
    /\ LET i == NotDue(runs[r])
       IN  TargetsBecome([FireDue(Now(clear), runs[r]) EXCEPT !.runs[r] =
                             IF @.man # runs[r].man THEN @
                             ELSE IF Ended(runs[r], i) THEN Idle
                             ELSE [@ EXCEPT !.m_index = i]])
    /\ UNCHANGED masterOn

\* CBaseDelay::DelayThink
DelayThink(i, clear) ==
    /\ delayed[i].next = 0
    /\ LET d == delayed[i]
           rest == [j \in 1..Len(delayed) - 1 |-> IF j < i THEN delayed[j] ELSE delayed[j + 1]]
       IN  TargetsBecome(FireTargets(Kill([Now(clear) EXCEPT !.delayed = rest],
                                          TargetConf[d.from].killtarget),
                                     TargetConf[d.from].target, d.useType))
    /\ UNCHANGED masterOn

\* Nothing is due: time passes.
Tick ==
    /\ \A e \in Entities : ent[e].gone \/ ent[e].next # 0
    /\ \A r \in DOMAIN runs : ~Due(runs[r])
    /\ \A i \in DOMAIN delayed : delayed[i].next # 0
    /\ ent' = [e \in Entities |-> IF ent[e].gone \/ ent[e].next = NoThink THEN ent[e]
                                  ELSE [ent[e] EXCEPT !.next = @ - 1]]
    /\ runs' = [r \in DOMAIN runs |-> IF runs[r] = Idle THEN Idle
                                      ELSE [runs[r] EXCEPT !.elapsed = @ + 1]]
    /\ delayed' = [i \in DOMAIN delayed |-> [delayed[i] EXCEPT !.next = @ - 1]]
    /\ UNCHANGED <<masterOn, owed, children>>

SwitchMaster == masterOn' = ~masterOn /\ UNCHANGED <<ent, runs, delayed, owed, children>>

\* A child is killed: CBaseMonster::Killed tells its owner, once.
ChildKilled(m) ==
    /\ children[m].alive > 0
    /\ children' = [children EXCEPT ![m].alive = @ - 1]
    /\ ent' = [ent EXCEPT ![m].live = @ - 1]
    /\ UNCHANGED <<runs, delayed, masterOn, owed>>

\* A living child is removed by a killtarget: nobody is told.
ChildRemoved(m) ==
    /\ children[m].alive > 0 /\ children[m].lost < MaxLost
    /\ children' = [children EXCEPT ![m].alive = @ - 1, ![m].lost = @ + 1]
    /\ UNCHANGED <<ent, runs, delayed, masterOn, owed>>

TargetThink == \E clear \in BOOLEAN :
    \/ \E e \in Entities : TriggerThink(e)
    \/ \E m \in Makers : MakerThink(m, clear)
    \/ \E r \in DOMAIN runs : ManagerThink(r, clear)
    \/ \E i \in DOMAIN delayed : DelayThink(i, clear)

TargetNext ==
    \/ TargetThink \/ Tick \/ SwitchMaster
    \/ \E clear \in BOOLEAN :
          \/ \E e \in Entities : TouchTrigger(e, clear)
          \/ \E name \in FiredNames : FireName(name, clear)
    \/ \E m \in Makers : ChildKilled(m) \/ ChildRemoved(m)

TargetSpec == TargetInit /\ [][TargetNext]_targetVars

-----------------------------------------------------------------------------
(* Properties *)

\* Entities, runs and delayed firings have their types.
TargetTypeOK ==
    /\ \A e \in Entities :
          /\ ent[e].gone \in BOOLEAN /\ ent[e].active \in BOOLEAN
          /\ ent[e].next >= NoThink /\ ent[e].left >= -1 /\ ent[e].live \in Nat
    /\ \A r \in DOMAIN runs : runs[r] = Idle \/
          /\ runs[r].man \in Managers /\ (r \in Clones \/ runs[r].man = r)
          /\ runs[r].m_index \in DOMAIN List(runs[r].man)
    /\ \A i \in DOMAIN delayed : delayed[i].from \in Entities /\ delayed[i].next \in Nat
    /\ masterOn \in BOOLEAN

\* The runs of m that have target i ahead
Ahead(rs, m, i) == {r \in DOMAIN rs : rs[r].man = m /\ rs[r].m_index <= i}
\* Every activation of a manager fires each of its targets once, though the
\* manager is fired again while it runs, or by its own targets: what it still
\* owes is what is ahead of its runs.
ManagersFireAll ==
    \A m \in Managers : ent[m].gone \/
        \A i \in DOMAIN List(m) : owed[m][i] = Cardinality(Ahead(runs, m, i))

\* The names that e fires at once, within the call that reaches it.
FiresAtOnce(e) ==
    IF e \in Makers \/ (e \in Triggers \cup Kind("trigger_relay") /\ TargetConf[e].delay = 0)
    THEN {TargetConf[e].target} \ {"none"} ELSE {}
\* A set of names that firings at once do not leave, and the entities they reach
FireWithin(N) == \A name \in N : \A i \in DOMAIN Targetname[name] :
                     FiresAtOnce(Targetname[name][i]) \subseteq N
Reached(N) == UNION {{Targetname[name][i] : i \in DOMAIN Targetname[name]} : name \in N}
\* A maker fires its target before it counts its child: one that is reached by
\* its own firing makes a child within another.
FiresOthers(m) == \E N \in SUBSET DOMAIN Targetname :
                      FiresAtOnce(m) \subseteq N /\ FireWithin(N) /\ m \notin Reached(N)
Limited == {m \in Makers : TargetConf[m].max > 0 /\ FiresOthers(m)}

\* The children a maker counts are those that live and those that were removed
\* unnoticed, and never more live than it may have out at a time.
ChildrenCounted ==
    \A m \in Makers :
        /\ ent[m].live = children[m].alive + children[m].lost
        /\ m \in Limited => children[m].alive <= TargetConf[m].max
=============================================================================
