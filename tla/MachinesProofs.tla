---------------------------- MODULE MachinesProofs ----------------------------
(***************************************************************************)
(* The machines of a map, for any level: doors, whose moves have the think *)
(* that ends them and which answer when they rest; buttons and the inputs  *)
(* of multisources that follow them; a train and the plat that carries it; *)
(* scripts, the monsters they take over and the count of those that walk;  *)
(* and the four side by side, as in a level.                               *)
(***************************************************************************)
EXTENDS MCMachines, DataLemmas, FiniteSetTheorems

-----------------------------------------------------------------------------
(* Doors *)

DoorType == [toggle_state : {"AT_BOTTOM", "GOING_UP", "AT_TOP", "GOING_DOWN"},
             at : {"pos1", "between", "pos2"},
             think : {"none", "LinearMoveDone", "DoorGoDown"},
             moveDone : {"none", "DoorHitTop", "DoorHitBottom"},
             touch : {"none", "DoorTouch", "CoopTouch"},
             fActivated : BOOLEAN, target : BOOLEAN, savedtarget : BOOLEAN]

\* What the invariant says of one door.  That an open door does not move is
\* the part that DoorsKeepThinking leaves open.
Thinks(d, r) ==
    /\ r.toggle_state \in {"GOING_UP", "GOING_DOWN"} =>
          r.think = "LinearMoveDone" /\ r.at = "between"
    /\ r.toggle_state = "GOING_UP" => r.moveDone = "DoorHitTop"
    /\ r.toggle_state = "GOING_DOWN" => r.moveDone = "DoorHitBottom"
    /\ r.toggle_state = "AT_TOP" =>
          /\ r.at = "pos2"
          /\ r.think = IF DoorConf[d].autoReturn /\ DoorConf[d].returns THEN "DoorGoDown"
                       ELSE "none"
    /\ r.toggle_state = "AT_BOTTOM" => r.at = "pos1" /\ r.think = "none"
Answers(d, r) ==
    \/ r.toggle_state = "AT_BOTTOM" \/ (Toggles(d) /\ r.toggle_state = "AT_TOP")
         => r.touch = TouchAtRest(d)
    \/ Toggles(d) /\ DoorConf[d].fast
GoodDoor(d) == {r \in DoorType : Thinks(d, r) /\ Answers(d, r)}

DoorIInv ==
    /\ disturbed \in 0..MaxDisturb
    /\ door = [d \in DoorSet |-> door[d]]
    /\ \A d \in DoorSet : door[d] \in GoodDoor(d)

LEMMA ConfFlags ==
    ASSUME NEW d \in DoorSet
    PROVE  /\ DoorConf[d].autoReturn \in BOOLEAN /\ DoorConf[d].useOnly \in BOOLEAN
           /\ DoorConf[d].returns \in BOOLEAN /\ DoorConf[d].target \in BOOLEAN
           /\ DoorConf[d].small \in BOOLEAN /\ DoorConf[d].fast \in BOOLEAN
           /\ TouchAtRest(d) \in {"none", "DoorTouch", "CoopTouch"}
  BY DoorAssumption, Zenon DEF TouchAtRest

\* Arrived at an end, a door is in order whatever it was before.
LEMMA HitGood ==
    ASSUME NEW d \in DoorSet, NEW r \in DoorType
    PROVE  DoorHitTop(d, r) \in GoodDoor(d) /\ DoorHitBottom(d, r) \in GoodDoor(d)
<1> DEFINE top == DoorHitTop(d, r)
           rests == IF Toggles(d) THEN TouchAtRest(d) ELSE r.touch
           waits == IF ~Toggles(d) /\ DoorConf[d].returns THEN "DoorGoDown" ELSE "none"
<1>1. rests \in {"none", "DoorTouch", "CoopTouch"} /\ waits \in {"none", "DoorGoDown"}
  BY ConfFlags DEF DoorType
<1>2. /\ top = [r EXCEPT !.toggle_state = "AT_TOP", !.at = "pos2", !.touch = rests,
                        !.think = waits]
      /\ Toggles(d) => rests = TouchAtRest(d)
      /\ waits = IF DoorConf[d].autoReturn /\ DoorConf[d].returns THEN "DoorGoDown" ELSE "none"
  BY ConfFlags DEF DoorHitTop, Toggles
<1> HIDE DEF rests, waits
<1>3. top \in GoodDoor(d)
  BY <1>1, <1>2 DEF GoodDoor, DoorType, Thinks, Answers
<1>4. DoorHitBottom(d, r) \in GoodDoor(d)
  BY ConfFlags DEF DoorHitBottom, GoodDoor, DoorType, Thinks, Answers
<1> QED
  BY <1>3, <1>4

\* So is one that has been started, even if it arrives at once.
LEMMA GoGood ==
    ASSUME NEW d \in DoorSet, NEW r \in DoorType
    PROVE  DoorGoUp(d, r) \in GoodDoor(d) /\ DoorGoDown(d, r) \in GoodDoor(d)
<1> DEFINE up == [r EXCEPT !.toggle_state = "GOING_UP", !.moveDone = "DoorHitTop"]
           down == [r EXCEPT !.toggle_state = "GOING_DOWN", !.moveDone = "DoorHitBottom"]
<1>1. up \in DoorType /\ up.moveDone = "DoorHitTop" /\ up.toggle_state = "GOING_UP"
  BY DEF DoorType
<1>2. down \in DoorType /\ down.moveDone = "DoorHitBottom" /\ down.toggle_state = "GOING_DOWN"
  BY DEF DoorType
<1> HIDE DEF up, down
<1>3. MoveDone(d, up) \in GoodDoor(d) /\ MoveDone(d, down) \in GoodDoor(d)
  BY <1>1, <1>2, HitGood DEF MoveDone
<1>4. [up EXCEPT !.think = "LinearMoveDone", !.at = "between"] \in GoodDoor(d)
  BY <1>1 DEF GoodDoor, DoorType, Thinks, Answers
<1>5. [down EXCEPT !.think = "LinearMoveDone", !.at = "between"] \in GoodDoor(d)
  BY <1>2 DEF GoodDoor, DoorType, Thinks, Answers
<1>6. DoorGoUp(d, r) = LinearMove(d, up, "pos2") /\ DoorGoDown(d, r) = LinearMove(d, down, "pos1")
  BY DEF DoorGoUp, DoorGoDown, up, down
<1> QED
  BY <1>3, <1>4, <1>5, <1>6 DEF LinearMove

LEMMA ActivateGood ==
    ASSUME NEW d \in DoorSet, NEW r \in DoorType
    PROVE  DoorActivate(d, r) \in GoodDoor(d)
  BY GoGood DEF DoorActivate

\* A door that DoorTouch starts is on its way, or was there at once; either
\* way it may do without its touch function.
LEMMA TouchedGood ==
    ASSUME NEW d \in DoorSet, NEW r \in GoodDoor(d)
    PROVE  [DoorActivate(d, r) EXCEPT !.touch = "none"] \in GoodDoor(d)
<1> DEFINE n == DoorActivate(d, r)
<1> SUFFICES [n EXCEPT !.touch = "none"] \in GoodDoor(d)
  OBVIOUS
<1>1. n \in GoodDoor(d) /\ r \in DoorType
  BY ActivateGood DEF GoodDoor
<1>2. CASE Toggles(d) /\ DoorConf[d].fast
  <2> HIDE DEF n
  <2> QED
    BY <1>1, <1>2 DEF GoodDoor, DoorType, Thinks, Answers
<1>3. CASE ~(Toggles(d) /\ DoorConf[d].fast)
  <2>1. n.toggle_state # "AT_BOTTOM" /\ ~(Toggles(d) /\ n.toggle_state = "AT_TOP")
    <3>1. CASE Toggles(d) /\ r.toggle_state = "AT_TOP"
      BY <1>1, <1>3, <3>1 DEF DoorActivate, DoorGoDown, LinearMove, GoodDoor, DoorType, Thinks
    <3>2. CASE ~(Toggles(d) /\ r.toggle_state = "AT_TOP") /\ Toggles(d)
      BY <1>1, <1>3, <3>2 DEF DoorActivate, DoorGoUp, LinearMove, GoodDoor, DoorType, Thinks
    <3>3. CASE ~Toggles(d)
      BY <1>1, <3>3 DEF DoorActivate, DoorGoUp, LinearMove, MoveDone, DoorHitTop,
                        GoodDoor, DoorType
    <3> QED
      BY <3>1, <3>2, <3>3
  <2> HIDE DEF n
  <2> QED
    BY <1>1, <2>1 DEF GoodDoor, DoorType, Thinks, Answers
<1> QED
  BY <1>2, <1>3

LEMMA CoopTouchedGood ==
    ASSUME NEW d \in DoorSet, NEW r \in GoodDoor(d)
    PROVE  CoopTouched(d, r) \in GoodDoor(d)
<1>1. [r EXCEPT !.target = FALSE, !.savedtarget = IF r.target THEN FALSE ELSE r.savedtarget]
          \in DoorType
  BY DEF GoodDoor, DoorType
<1> QED
  BY <1>1, ActivateGood DEF CoopTouched

LEMMA UsedGood ==
    ASSUME NEW d \in DoorSet, NEW r \in GoodDoor(d)
    PROVE  Used(d, r) \in GoodDoor(d)
<1>1. [r EXCEPT !.fActivated = r.fActivated \/ (DoorCoop /\ DoorConf[d].small),
                !.target = r.target \/ (DoorCoop /\ r.savedtarget),
                !.savedtarget = r.savedtarget /\ (r.target \/ ~DoorCoop)] \in DoorType
  BY DEF GoodDoor, DoorType
<1> QED
  BY <1>1, ActivateGood DEF Used

LEMMA ReversedGood ==
    ASSUME NEW d \in DoorSet, NEW r \in GoodDoor(d)
    PROVE  Reversed(d, r) \in GoodDoor(d)
  BY GoGood DEF Reversed, GoodDoor

\* A door whose think ends its move arrives where its state says.
LEMMA ThinkGood ==
    ASSUME NEW d \in DoorSet, NEW r \in GoodDoor(d)
    PROVE  MoveDone(d, r) \in GoodDoor(d) /\ DoorGoDown(d, r) \in GoodDoor(d)
  BY GoGood, HitGood DEF MoveDone, GoodDoor

LEMMA DoorInitIInv == DoorInit => DoorIInv
<1> SUFFICES ASSUME DoorInit PROVE DoorIInv
  OBVIOUS
<1>1. \A d \in DoorSet : door[d] \in GoodDoor(d)
  BY ConfFlags DEF DoorInit, GoodDoor, DoorType, Thinks, Answers
<1> QED
  BY <1>1, DoorAssumption DEF DoorInit, DoorIInv

LEMMA DoorNextIInv == DoorIInv /\ [DoorNext]_doorVars => DoorIInv'
<1> SUFFICES ASSUME DoorIInv, [DoorNext]_doorVars PROVE DoorIInv'
  OBVIOUS
<1>1. \A d \in DoorSet : door[d] \in GoodDoor(d)
  BY DEF DoorIInv
<1>2. ASSUME Disturb PROVE (disturbed \in 0..MaxDisturb)'
  BY <1>2, DoorAssumption DEF Disturb, DoorIInv
<1>3. ASSUME NEW d \in DoorSet, TouchDoor(d) PROVE DoorIInv'
  BY <1>1, <1>2, <1>3, CoopTouchedGood, TouchedGood DEF TouchDoor, DoorIInv
<1>4. ASSUME NEW d \in DoorSet, BlockDoor(d) PROVE DoorIInv'
  BY <1>1, <1>2, <1>4, ReversedGood DEF BlockDoor, DoorIInv
<1>5. ASSUME NEW d \in DoorSet, DoorThink(d) PROVE DoorIInv'
  BY <1>1, <1>5, ThinkGood DEF DoorThink, DoorIInv
<1>6. ASSUME NEW D, UseDoors(D) PROVE DoorIInv'
  BY <1>1, <1>2, <1>6, UsedGood DEF UseDoors, DoorIInv
<1>7. ASSUME UNCHANGED doorVars PROVE DoorIInv'
  BY <1>7 DEF doorVars, DoorIInv
<1> QED
  BY <1>3, <1>4, <1>5, <1>6, <1>7 DEF DoorNext

LEMMA DoorSpecIInv == DoorSpec => []DoorIInv
  BY DoorInitIInv, DoorNextIInv, PTL DEF DoorSpec

\* The fields of doors keep their types (CBaseDoor and CBaseToggle).
THEOREM DoorTypes == DoorSpec => []DoorTypeOK
<1>1. DoorIInv => DoorTypeOK
  BY DEF DoorIInv, GoodDoor, DoorType, DoorTypeOK
<1> QED
  BY DoorSpecIInv, <1>1, PTL

\* Whatever touches, uses and blocks doors and the pieces of their name: the
\* next step of each is due, or it is at rest and answers to a touch
\* (CBaseDoor::Blocked, Use, DoorTouch and CoopTouch among the callbacks of a
\* move), for any number of doors, of every kind.
THEOREM DoorsKeepOnWorking == DoorSpec => []DoorsKeepWorking
<1>1. ASSUME DoorIInv, NEW d \in DoorSet
      PROVE  (door[d].think = "DoorGoDown") = (DoorConf[d].autoReturn /\ DoorConf[d].returns)
                 \/ door[d].toggle_state # "AT_TOP"
  BY <1>1, ConfFlags DEF DoorIInv, GoodDoor, Thinks
<1>2. DoorIInv => DoorsKeepWorking
  BY <1>1 DEF DoorIInv, GoodDoor, Thinks, Answers, DoorsKeepWorking, DoorsKeepThinking,
              DoorsStayTouchable
<1> QED
  BY DoorSpecIInv, <1>2, PTL
-----------------------------------------------------------------------------
(* Buttons: the state that a call works on *)

ButtonRecord ==
    [toggle_state : {"AT_BOTTOM", "GOING_UP", "AT_TOP", "GOING_DOWN"},
     think : {"none", "TriggerAndWait", "ButtonReturn", "ButtonBackHome"},
     touch : {"none", "ButtonTouch"}]
ThinkFits(r) ==
    r.think \in CASE r.toggle_state = "AT_BOTTOM" -> {"none"}
                  [] r.toggle_state = "GOING_UP" -> {"none", "TriggerAndWait"}
                  [] r.toggle_state = "AT_TOP" -> {"none", "ButtonReturn"}
                  [] r.toggle_state = "GOING_DOWN" -> {"ButtonBackHome"}
ButtonType == {r \in ButtonRecord : ThinkFits(r)}
TriggeredType ==
    {f \in [Sources -> UNION {[Inputs(m) -> BOOLEAN] : m \in Sources}] :
        \A m \in Sources : f[m] \in [Inputs(m) -> BOOLEAN]}
GlobalType == [GlobalStates -> {"absent", "OFF", "ON", "DEAD"}]
Later == {b \in Buttons : ButtonConf[b].delay}
ButtonStates ==
    [button : [Buttons -> ButtonType], m_rgTriggered : TriggeredType,
     gGlobalState : GlobalType, delayed : SUBSET Later]

\* A button is in, as its multisources see it.
IsIn(s, b) == s.button[b].toggle_state \in {"AT_TOP", "GOING_DOWN"}

\* What firing does to all but the inputs of multisources: no button goes in or
\* out at once but one that toggles.
Fired(s, t) ==
    /\ t \in ButtonStates
    /\ \A b \in Buttons : ~ButtonConf[b].toggle => (IsIn(t, b) <=> IsIn(s, b))

LEMMA ButtonRecordFits ==
    /\ \A touch \in {"none", "ButtonTouch"} :
          /\ [toggle_state |-> "AT_BOTTOM", think |-> "none", touch |-> touch] \in ButtonType
          /\ \A r \in ButtonRecord :
                /\ [r EXCEPT !.toggle_state = "GOING_UP", !.think = "TriggerAndWait"] \in ButtonType
                /\ [r EXCEPT !.toggle_state = "GOING_DOWN", !.think = "ButtonBackHome"] \in ButtonType
                /\ [r EXCEPT !.toggle_state = "AT_BOTTOM", !.think = "none", !.touch = touch]
                      \in ButtonType
  BY SMTT(20), ZenonT(40) DEF ButtonType, ButtonRecord, ThinkFits

LEMMA TouchOfType == \A b : TouchOf(b) \in {"none", "ButtonTouch"}
  BY DEF TouchOf

\* One button gets another record.
LEMMA SetButton ==
    ASSUME NEW s \in ButtonStates, NEW b \in Buttons, NEW r \in ButtonType
    PROVE  /\ [s EXCEPT !.button[b] = r] \in ButtonStates
           /\ [s EXCEPT !.button[b] = r].button[b] = r
           /\ \A c \in Buttons \ {b} : [s EXCEPT !.button[b] = r].button[c] = s.button[c]
           /\ [s EXCEPT !.button[b] = r].m_rgTriggered = s.m_rgTriggered
           /\ [s EXCEPT !.button[b] = r].gGlobalState = s.gGlobalState
           /\ [s EXCEPT !.button[b] = r].delayed = s.delayed
  BY DEF ButtonStates

LEMMA OneButton ==
    ASSUME NEW s \in ButtonStates, NEW b \in Buttons
    PROVE  s.button[b] \in ButtonType /\ s.button[b] \in ButtonRecord /\ ThinkFits(s.button[b])
  BY DEF ButtonStates, ButtonType

LEMMA ButtonReturnFires ==
    ASSUME NEW s \in ButtonStates, NEW b \in Buttons
    PROVE  /\ ButtonReturn(s, b) \in ButtonStates /\ IsIn(ButtonReturn(s, b), b)
           /\ \A c \in Buttons \ {b} : ButtonReturn(s, b).button[c] = s.button[c]
           /\ ButtonReturn(s, b).m_rgTriggered = s.m_rgTriggered
<1> DEFINE r == [s.button[b] EXCEPT !.toggle_state = "GOING_DOWN", !.think = "ButtonBackHome"]
           t == [s EXCEPT !.button[b] = r]
<1>1. s.button[b] \in ButtonRecord
  BY OneButton
<1>2. r \in ButtonType /\ r.toggle_state = "GOING_DOWN"
  BY <1>1, ButtonRecordFits DEF ButtonRecord
<1>3. ButtonReturn(s, b) = t
  BY DEF ButtonReturn, ButtonStates
<1> HIDE DEF r
<1> QED
  BY <1>2, <1>3, SetButton DEF IsIn

LEMMA ButtonActivateFires ==
    ASSUME NEW s \in ButtonStates, NEW b \in Buttons, ~IsIn(s, b)
    PROVE  /\ Fired(s, ButtonActivate(s, b))
           /\ ButtonActivate(s, b).m_rgTriggered = s.m_rgTriggered
<1> DEFINE r == [s.button[b] EXCEPT !.toggle_state = "GOING_UP", !.think = "TriggerAndWait"]
           t == [s EXCEPT !.button[b] = r]
<1>1. s.button[b] \in ButtonRecord
  BY OneButton
<1>2. r \in ButtonType /\ r.toggle_state = "GOING_UP"
  BY <1>1, ButtonRecordFits DEF ButtonRecord
<1>3. CASE MasterLets(s, b)
  <2>1. ButtonActivate(s, b) = t
    BY <1>3 DEF ButtonActivate, ButtonStates
  <2> HIDE DEF r
  <2>2. /\ t \in ButtonStates /\ t.button[b] = r /\ t.m_rgTriggered = s.m_rgTriggered
        /\ \A c \in Buttons \ {b} : t.button[c] = s.button[c]
    BY <1>2, SetButton
  <2> HIDE DEF t
  <2> QED
    BY <1>2, <2>1, <2>2 DEF Fired, IsIn
<1>4. CASE ~MasterLets(s, b)
  BY <1>4 DEF ButtonActivate, Fired
<1> QED
  BY <1>3, <1>4

LEMMA ButtonUseFires ==
    ASSUME NEW s \in ButtonStates, NEW b \in Buttons
    PROVE  Fired(s, ButtonUse(s, b)) /\ ButtonUse(s, b).m_rgTriggered = s.m_rgTriggered
<1>1. CASE ButtonConf[b].touchOnly
  BY <1>1 DEF ButtonUse, Fired
<1>2. CASE ~ButtonConf[b].touchOnly /\ s.button[b].toggle_state = "AT_BOTTOM"
  <2>1. ~IsIn(s, b) /\ ButtonUse(s, b) = ButtonActivate(s, b)
    BY <1>2 DEF ButtonUse, IsIn
  <2> QED
    BY <2>1, ButtonActivateFires
<1>3. CASE ~ButtonConf[b].touchOnly /\ s.button[b].toggle_state = "AT_TOP" /\ ~ButtonConf[b].stays
           /\ ButtonConf[b].toggle
  <2>1. ButtonUse(s, b) = ButtonReturn(s, b)
    BY <1>3 DEF ButtonUse
  <2> QED
    BY <1>3, <2>1, ButtonReturnFires DEF Fired, IsIn
<1>4. CASE /\ ~ButtonConf[b].touchOnly /\ s.button[b].toggle_state # "AT_BOTTOM"
           /\ ~(s.button[b].toggle_state = "AT_TOP" /\ ~ButtonConf[b].stays /\ ButtonConf[b].toggle)
  BY <1>4 DEF ButtonUse, Fired
<1> QED
  BY <1>1, <1>2, <1>3, <1>4

LEMMA EnvUseFires ==
    ASSUME NEW s \in ButtonStates, NEW e \in Envs
    PROVE  Fired(s, EnvUse(s, e)) /\ EnvUse(s, e).m_rgTriggered = s.m_rgTriggered
<1> DEFINE g == EnvConf[e].globalstate
           v == NewGlobal(e, s.gGlobalState[g])
<1>1. g \in GlobalStates
  BY DEF GlobalStates
<1>2. s.gGlobalState \in GlobalType /\ s.gGlobalState[g] \in {"absent", "OFF", "ON", "DEAD"}
  BY <1>1 DEF ButtonStates, GlobalType
<1>3. v \in {"absent", "OFF", "ON", "DEAD"}
  BY <1>2 DEF NewGlobal
<1>4. EnvUse(s, e) = [s EXCEPT !.gGlobalState[g] = v]
  BY DEF EnvUse, ButtonStates
<1> HIDE DEF v
<1>5. [s.gGlobalState EXCEPT ![g] = v] \in GlobalType
  BY <1>1, <1>2, <1>3 DEF GlobalType
<1> QED
  BY <1>4, <1>5 DEF ButtonStates, Fired, IsIn

LEMMA UseSimpleFires ==
    ASSUME NEW s \in ButtonStates, NEW e \in Buttons \cup Envs
    PROVE  Fired(s, UseSimple(s, e)) /\ UseSimple(s, e).m_rgTriggered = s.m_rgTriggered
  BY ButtonUseFires, EnvUseFires DEF UseSimple

LEMMA FiredTwice ==
    ASSUME NEW s, NEW t, NEW u, Fired(s, t), Fired(t, u)
    PROVE  Fired(s, u)
  BY DEF Fired

-----------------------------------------------------------------------------
(* Multisources *)

LEMMA SourceTargets ==
    \A m \in Sources :
        /\ SourceConf[m].target \in DOMAIN NamedEntities
        /\ NamedEntities[SourceConf[m].target] \in Seq(Buttons \cup Envs)
<1> SUFFICES ASSUME NEW m \in Sources
             PROVE  /\ SourceConf[m].target \in DOMAIN NamedEntities
                    /\ NamedEntities[SourceConf[m].target] \in Seq(Buttons \cup Envs)
  OBVIOUS
<1> DEFINE es == NamedEntities[SourceConf[m].target]
<1>1. /\ SourceConf[m].target \in DOMAIN NamedEntities
      /\ es \in Seq(Buttons \cup Sources \cup Envs) /\ Range(es) \cap Sources = {}
  BY ButtonAssumption
<1> HIDE DEF es
<1>2. \A n \in 1..Len(es) : es[n] \in Buttons \cup Envs
  <2> TAKE n \in 1..Len(es)
  <2>1. n \in DOMAIN es /\ es[n] \in Buttons \cup Sources \cup Envs
    BY <1>1
  <2>2. es[n] \in Range(es)
    BY <2>1 DEF Range
  <2> QED
    BY <1>1, <2>1, <2>2
<1>3. es \in Seq(Buttons \cup Envs)
  BY <1>1, <1>2
<1> QED
  BY <1>1, <1>3 DEF es

\* What is fired by a multisource leaves the inputs alone.
LEMMA UseAllSimple ==
    ASSUME NEW s \in ButtonStates, NEW es \in Seq(Buttons \cup Envs)
    PROVE  /\ Fired(s, UseAll(UseSimple, s, es))
           /\ UseAll(UseSimple, s, es).m_rgTriggered = s.m_rgTriggered
<1> DEFINE N == Len(es)
           ok == {x \in ButtonStates : Fired(s, x) /\ x.m_rgTriggered = s.m_rgTriggered}
           inv == [n \in 0..N |-> ok]
           step == [n \in 1..N |-> [x \in ok |-> UseSimple(x, es[n])]]
           Is(f) == f = [n \in 0..N |-> IF n = 0 THEN s ELSE UseSimple(f[n - 1], es[n])]
           given == CHOOSE f : Is(f)
<1>1. N \in Nat /\ \A n \in 1..N : es[n] \in Buttons \cup Envs
  OBVIOUS
<1>2. UseAll(UseSimple, s, es) = given[N]
  BY DEF UseAll
<1> HIDE DEF N
<1>3. s \in ok
  BY DEF Fired
<1>4. ASSUME NEW n \in 1..N, NEW x \in ok PROVE UseSimple(x, es[n]) \in ok
  <2>1. Fired(x, UseSimple(x, es[n])) /\ UseSimple(x, es[n]).m_rgTriggered = x.m_rgTriggered
    BY <1>1, UseSimpleFires
  <2> HIDE DEF UseSimple
  <2>2. Fired(s, UseSimple(x, es[n]))
    BY <2>1, FiredTwice
  <2> QED
    BY <2>1, <2>2 DEF Fired
<1> HIDE DEF ok
<1>5. 0 \in 0..N /\ \A n \in 1..N : n \in 0..N /\ n - 1 \in 0..N /\ n # 0
  BY <1>1
<1>6. s \in inv[0] /\ Leads(N, inv, step)
  BY <1>3, <1>4, <1>5 DEF Leads
<1>7. PICK f : Loops(f, N, inv, s, step)
  <2> HIDE DEF inv, step
  <2> QED
    BY <1>1, <1>6, LoopExists
<1>8. \A n \in 1..N : f[n] = UseSimple(f[n - 1], es[n])
  BY <1>5, <1>7 DEF Loops
<1>9. ASSUME NEW n \in 0..N PROVE f[n] = IF n = 0 THEN s ELSE UseSimple(f[n - 1], es[n])
  <2>1. n = 0 \/ n \in 1..N
    BY <1>1
  <2> QED
    BY <1>7, <1>8, <2>1 DEF Loops
<1>10. Is(given)
  <2>1. Is(f)
    <3>1. [n \in 0..N |-> f[n]]
            = [n \in 0..N |-> IF n = 0 THEN s ELSE UseSimple(f[n - 1], es[n])]
      BY <1>9
    <3> QED
      BY <1>7, <3>1 DEF Loops
  <2> QED
    BY <2>1
<1> HIDE DEF given
<1>11. \A n \in 0..N : given[n] = IF n = 0 THEN s ELSE UseSimple(given[n - 1], es[n])
  BY <1>10
<1> DEFINE T == {n \in 0..N : given[n] \in ok}
<1>12. 0 \in T
  BY <1>3, <1>5, <1>11
<1>13. \A n \in 1..N : n - 1 \in T => n \in T
  BY <1>4, <1>5, <1>11
<1>14. N \in T
  <2>1. N \in 0..N
    BY <1>1
  <2> HIDE DEF T
  <2> QED
    BY <1>1, <1>12, <1>13, <2>1, Induct
<1> QED
  BY <1>2, <1>14 DEF ok

LEMMA LastInputIsOne ==
    ASSUME NEW m, Inputs(m) # {}
    PROVE  LastInput(m) \in Inputs(m)
<1> DEFINE N == Len(ButtonOrder)
           T == {n \in DOMAIN ButtonOrder : ButtonConf[ButtonOrder[n]].target = m}
           v == [n \in 1..N |-> n]
<1>1. ButtonOrder \in Seq(DOMAIN ButtonConf)
  BY ButtonAssumption
<1>2. N \in Nat /\ DOMAIN ButtonOrder = 1..N /\ T \in SUBSET (1..N)
  BY <1>1
<1>3. T # {}
  BY DEF Inputs, Buttons, Range
<1>4. v \in [1..N -> Int]
  BY <1>2
<1>5. PICK n \in T : \A k \in T : v[k] <= v[n]
  <2> HIDE DEF N, T, v
  <2> QED
    BY <1>2, <1>3, <1>4, LargestOf
<1>6. \A k \in T : n >= k
  BY <1>2, <1>5
<1>7. Max(T) \in T
  BY <1>6 DEF Max
<1> QED
  BY <1>7 DEF LastInput, Inputs, Buttons, Range

\* One multisource is used: only the input of the caller changes, if it is one.
Sourced(s, t, m, c) ==
    /\ Fired(s, t)
    /\ \A k \in Sources \ {m} : t.m_rgTriggered[k] = s.m_rgTriggered[k]
    /\ c \in Inputs(m) =>
          \A b \in Inputs(m) :
              t.m_rgTriggered[m][b] = IF b = c THEN ~s.m_rgTriggered[m][b]
                                      ELSE s.m_rgTriggered[m][b]

LEMMA SourceUseFires ==
    ASSUME NEW s \in ButtonStates, NEW m \in Sources, NEW c
    PROVE  Sourced(s, SourceUse(s, m, c), m, c)
<1> DEFINE i == Input(m, c)
           on == [s EXCEPT !.m_rgTriggered[m][i] = ~@]
           t == IF Inputs(m) = {} THEN s ELSE on
           u == UseAll(UseSimple, t, NamedEntities[SourceConf[m].target])
<1>1. /\ s.m_rgTriggered \in TriggeredType
      /\ s.m_rgTriggered \in [Sources -> UNION {[Inputs(k) -> BOOLEAN] : k \in Sources}]
      /\ \A k \in Sources : s.m_rgTriggered[k] \in [Inputs(k) -> BOOLEAN]
  BY DEF ButtonStates, TriggeredType
<1>2. Sourced(s, t, m, c)
  <2>1. CASE Inputs(m) = {}
    BY <2>1 DEF Sourced, Fired
  <2>2. CASE Inputs(m) # {}
    <3>1. i \in Inputs(m) /\ (c \in Inputs(m) => i = c)
      BY <2>2, LastInputIsOne DEF Input
    <3> HIDE DEF i
    <3> DEFINE row == [s.m_rgTriggered[m] EXCEPT ![i] = ~s.m_rgTriggered[m][i]]
               rows == [s.m_rgTriggered EXCEPT ![m] = row]
    <3>2. row \in [Inputs(m) -> BOOLEAN]
      BY <1>1, <3>1
    <3>3. rows \in TriggeredType
      <4> HIDE DEF row
      <4> QED
        BY <1>1, <3>2 DEF TriggeredType
    <3>4. on = [s EXCEPT !.m_rgTriggered = rows]
      BY <1>1 DEF ButtonStates
    <3>5. rows[m] = row /\ \A k \in Sources \ {m} : rows[k] = s.m_rgTriggered[k]
      BY <1>1
    <3>6. \A b \in Inputs(m) : row[b] = IF b = i THEN ~s.m_rgTriggered[m][b]
                                        ELSE s.m_rgTriggered[m][b]
      BY <1>1
    <3> HIDE DEF row, rows
    <3>7. /\ on \in ButtonStates /\ on.m_rgTriggered = rows /\ on.button = s.button
      BY <3>3, <3>4 DEF ButtonStates
    <3> HIDE DEF on
    <3>8. Fired(s, on)
      BY <3>7 DEF Fired, IsIn
    <3>9. Sourced(s, on, m, c)
      BY <3>1, <3>5, <3>6, <3>7, <3>8 DEF Sourced
    <3> QED
      BY <2>2, <3>9
  <2> QED
    BY <2>1, <2>2
<1>3. SourceUse(s, m, c) = IF IsTriggered(t, m) THEN u ELSE t
  BY DEF SourceUse
<1> HIDE DEF t
<1>4. t \in ButtonStates
  BY <1>2 DEF Sourced, Fired
<1>5. Fired(t, u) /\ u.m_rgTriggered = t.m_rgTriggered
  BY <1>4, SourceTargets, UseAllSimple
<1> HIDE DEF u
<1>6. Sourced(s, u, m, c)
  <2>1. Fired(s, u)
    BY <1>2, <1>5, FiredTwice DEF Sourced
  <2> QED
    BY <1>2, <1>5, <2>1 DEF Sourced
<1> QED
  BY <1>2, <1>3, <1>6

\* The entities of a name are called: of the multisources only the one of that
\* name hears it, and hears it once.
Negated(s, t, m, c) ==
    \A b \in Inputs(m) :
        t.m_rgTriggered[m][b] = IF b = c THEN ~s.m_rgTriggered[m][b] ELSE s.m_rgTriggered[m][b]
Others(s, t, name) == \A m \in Sources \ {name} : t.m_rgTriggered[m] = s.m_rgTriggered[m]
Called(s, t, name, c) ==
    /\ Fired(s, t) /\ Others(s, t, name)
    /\ name \in Sources /\ c \in Inputs(name) => Negated(s, t, name, c)

Lists(es, N, name, c) ==
    /\ \A n \in 1..N : es[n] \in Sources => es[n] = name
    /\ \A m, n \in 1..N : es[m] = es[n] => m = n
    /\ name \in Sources /\ c \in Inputs(name) => \E n \in 1..N : es[n] = name
Uses(use, es, N, c) ==
    \A n \in 1..N : \A x \in ButtonStates :
        /\ es[n] \in Sources => Sourced(x, use[n][x], es[n], c)
        /\ es[n] \notin Sources =>
              Fired(x, use[n][x]) /\ use[n][x].m_rgTriggered = x.m_rgTriggered

LEMMA SolvedCalls ==
    ASSUME NEW s \in ButtonStates, NEW name, NEW c, NEW N \in Nat, NEW es, Lists(es, N, name, c),
           NEW use, Uses(use, es, N, c),
           NEW f, f[0] = s, \A n \in 1..N : f[n] = use[n][f[n - 1]]
    PROVE  Called(s, f[N], name, c)
<1> USE DEF Lists, Uses
<1> DEFINE mine == name \in Sources /\ c \in Inputs(name)
           Upto(n) == /\ Fired(s, f[n]) /\ Others(s, f[n], name)
                      /\ mine => IF \E k \in 1..n : es[k] = name THEN Negated(s, f[n], name, c)
                                 ELSE f[n].m_rgTriggered[name] = s.m_rgTriggered[name]
           T == {n \in 0..N : Upto(n)}
<1>1. 0 \in T
  <2>1. Fired(s, s) /\ Others(s, s, name) /\ ~(\E k \in 1..0 : es[k] = name) /\ 0 \in 0..N
    BY DEF Fired, Others
  <2> QED
    BY <2>1
<1>2. ASSUME NEW n \in 1..N, n - 1 \in T PROVE n \in T
  <2> DEFINE x == f[n - 1]
             y == f[n]
  <2>1. Upto(n - 1) /\ y = use[n][x] /\ n \in 0..N
    BY <1>2
  <2>2. /\ Fired(s, x) /\ Others(s, x, name)
        /\ mine => IF \E k \in 1..n - 1 : es[k] = name THEN Negated(s, x, name, c)
                   ELSE x.m_rgTriggered[name] = s.m_rgTriggered[name]
    BY <2>1
  <2>3. x \in ButtonStates
    BY <2>2 DEF Fired
  <2>4. /\ es[n] \in Sources => Sourced(x, y, es[n], c)
        /\ es[n] \notin Sources => Fired(x, y) /\ y.m_rgTriggered = x.m_rgTriggered
    BY <2>1, <2>3
  <2>5. 1..n = (1..n - 1) \cup {n} /\ \A k \in 1..n - 1 : k \in 1..N /\ k # n
    OBVIOUS
  <2> HIDE DEF x, y
  <2>6. Fired(s, y)
    <3>1. Fired(x, y)
      BY <2>4 DEF Sourced
    <3> QED
      BY <2>2, <3>1, FiredTwice
  <2>7. CASE es[n] \in Sources
    <3>1. es[n] = name /\ Sourced(x, y, name, c)
      BY <2>4, <2>7
    <3>2. \A k \in 1..n - 1 : es[k] # name
      BY <2>5, <3>1
    <3>3. \E k \in 1..n : es[k] = name
      BY <2>5, <3>1
    <3>4. Others(s, y, name)
      BY <2>2, <3>1 DEF Others, Sourced
    <3>5. mine => Negated(s, y, name, c)
      <4>1. mine => x.m_rgTriggered[name] = s.m_rgTriggered[name]
        BY <2>2, <3>2
      <4> QED
        BY <3>1, <4>1 DEF Sourced, Negated
    <3>6. Upto(n)
      BY <2>6, <3>3, <3>4, <3>5 DEF y
    <3> QED
      BY <2>1, <3>6
  <2>8. CASE es[n] \notin Sources
    <3>1. y.m_rgTriggered = x.m_rgTriggered
      BY <2>4, <2>8
    <3>2. mine => ((\E k \in 1..n : es[k] = name) <=> (\E k \in 1..n - 1 : es[k] = name))
      BY <2>5, <2>8
    <3>3. Others(s, y, name)
      BY <2>2, <3>1 DEF Others
    <3>4. mine => IF \E k \in 1..n : es[k] = name THEN Negated(s, y, name, c)
                  ELSE y.m_rgTriggered[name] = s.m_rgTriggered[name]
      BY <2>2, <3>1, <3>2 DEF Negated
    <3>5. Upto(n)
      BY <2>6, <3>3, <3>4 DEF y
    <3> QED
      BY <2>1, <3>5
  <2> QED
    BY <2>7, <2>8
<1>3. N \in T
  <2>1. N \in 0..N
    OBVIOUS
  <2> HIDE DEF T
  <2> QED
    BY <1>1, <1>2, <2>1, Induct
<1> QED
  BY <1>3 DEF Called

\* What a name of the level leads to.
LEMMA NamedFacts ==
    ASSUME NEW name \in DOMAIN NamedEntities
    PROVE  /\ Len(NamedEntities[name]) \in Nat
           /\ \A n \in 1..Len(NamedEntities[name]) :
                 /\ NamedEntities[name][n] \in Buttons \cup Sources \cup Envs
                 /\ NamedEntities[name][n] \in Sources => NamedEntities[name][n] = name
           /\ \A m, n \in 1..Len(NamedEntities[name]) :
                 NamedEntities[name][m] = NamedEntities[name][n] => m = n
           /\ name \in Sources => \E n \in 1..Len(NamedEntities[name]) : NamedEntities[name][n] = name
<1> DEFINE es == NamedEntities[name]
<1>1. /\ es \in Seq(Buttons \cup Sources \cup Envs) /\ IsInjective(es)
      /\ \A e \in Range(es) : e \in Sources => e = name
      /\ name \in Sources => name \in Range(es)
  BY ButtonAssumption
<1> HIDE DEF es
<1>2. /\ Len(es) \in Nat /\ DOMAIN es = 1..Len(es)
      /\ \A n \in 1..Len(es) : es[n] \in Buttons \cup Sources \cup Envs
  BY <1>1
<1>3. \A n \in 1..Len(es) : es[n] \in Range(es)
  BY <1>2 DEF Range
<1>4. \A m, n \in 1..Len(es) : es[m] = es[n] => m = n
  BY <1>1, <1>2 DEF IsInjective
<1>5. name \in Range(es) => \E n \in 1..Len(es) : es[n] = name
  BY <1>2 DEF Range
<1> QED
  BY <1>1, <1>2, <1>3, <1>4, <1>5 DEF es

LEMMA FireTargetsCalls ==
    ASSUME NEW s \in ButtonStates, NEW name \in DOMAIN NamedEntities, NEW c
    PROVE  Called(s, FireTargets(s, name, c), name, c)
<1> DEFINE es == NamedEntities[name]
           N == Len(es)
           Hears(x, e) == IF e \in Sources THEN SourceUse(x, e, c) ELSE UseSimple(x, e)
           use == [n \in 1..N |-> [x \in ButtonStates |-> Hears(x, es[n])]]
           Is(f) == f = [n \in 0..N |-> IF n = 0 THEN s ELSE Hears(f[n - 1], es[n])]
           given == CHOOSE f : Is(f)
<1>1. FireTargets(s, name, c) = given[N]
  BY DEF FireTargets, UseAll
<1>2. /\ N \in Nat
      /\ \A n \in 1..N : es[n] \in Buttons \cup Sources \cup Envs
                         /\ (es[n] \in Sources => es[n] = name)
      /\ \A m, n \in 1..N : es[m] = es[n] => m = n
      /\ name \in Sources => \E n \in 1..N : es[n] = name
  BY NamedFacts
<1> HIDE DEF N, es
<1>3. ASSUME NEW n \in 1..N, NEW x \in ButtonStates
      PROVE  /\ es[n] \in Sources => Sourced(x, Hears(x, es[n]), es[n], c)
             /\ es[n] \notin Sources => Fired(x, Hears(x, es[n]))
                                        /\ Hears(x, es[n]).m_rgTriggered = x.m_rgTriggered
             /\ Hears(x, es[n]) \in ButtonStates
  <2>1. CASE es[n] \in Sources
    <3>1. Sourced(x, SourceUse(x, es[n], c), es[n], c)
      BY <2>1, SourceUseFires
    <3> QED
      BY <2>1, <3>1 DEF Sourced, Fired
  <2>2. CASE es[n] \notin Sources
    <3>1. es[n] \in Buttons \cup Envs
      BY <1>2, <2>2
    <3>2. Fired(x, UseSimple(x, es[n])) /\ UseSimple(x, es[n]).m_rgTriggered = x.m_rgTriggered
      BY <3>1, UseSimpleFires
    <3> QED
      BY <2>2, <3>2 DEF Fired
  <2> QED
    BY <2>1, <2>2
<1> HIDE DEF Hears
<1>4. /\ use \in [1..N -> [ButtonStates -> ButtonStates]]
      /\ \A n \in 1..N : \A x \in ButtonStates : use[n][x] = Hears(x, es[n])
  BY <1>3
<1> HIDE DEF use
<1>5. PICK f : Solves(f, N, ButtonStates, s, use)
  BY <1>2, <1>4, RecursionExists
<1>6. /\ f \in [0..N -> ButtonStates] /\ f[0] = s /\ \A n \in 1..N : f[n] = use[n][f[n - 1]]
  BY <1>5 DEF Solves
<1>7. 0 \in 0..N /\ \A n \in 1..N : n \in 0..N /\ n - 1 \in 0..N /\ n # 0
  BY <1>2
<1>8. ASSUME NEW n \in 0..N PROVE f[n] = IF n = 0 THEN s ELSE Hears(f[n - 1], es[n])
  <2>1. CASE n = 0
    BY <1>6, <2>1
  <2>2. CASE n # 0
    <3>1. n \in 1..N /\ n - 1 \in 0..N
      BY <1>2, <2>2
    <3>2. f[n - 1] \in ButtonStates /\ f[n] = use[n][f[n - 1]]
      BY <1>6, <3>1
    <3> QED
      BY <1>4, <2>2, <3>1, <3>2
  <2> QED
    BY <2>1, <2>2
<1>9. Is(given)
  <2>1. f = [n \in 0..N |-> f[n]]
    BY <1>6
  <2>2. [n \in 0..N |-> f[n]] = [n \in 0..N |-> IF n = 0 THEN s ELSE Hears(f[n - 1], es[n])]
    BY <1>8
  <2>3. Is(f)
    BY <2>1, <2>2
  <2> QED
    BY <2>3
<1> HIDE DEF given
<1>10. \A n \in 0..N : given[n] = IF n = 0 THEN s ELSE Hears(given[n - 1], es[n])
  BY <1>9
<1> DEFINE T == {n \in 0..N : given[n] = f[n]}
<1>11. 0 \in T
  BY <1>6, <1>7, <1>10
<1>12. \A n \in 1..N : n - 1 \in T => n \in T
  BY <1>7, <1>8, <1>10
<1>13. N \in T
  <2>1. N \in 0..N
    BY <1>2
  <2> HIDE DEF T
  <2> QED
    BY <1>2, <1>11, <1>12, <2>1, Induct
<1>14. Called(s, f[N], name, c)
  <2>1. Uses(use, es, N, c)
    BY <1>3, <1>4 DEF Uses
  <2>2. Lists(es, N, name, c)
    BY <1>2 DEF Lists
  <2>3. N \in Nat /\ f[0] = s /\ \A n \in 1..N : f[n] = use[n][f[n - 1]]
    BY <1>2, <1>6
  <2> QED
    BY <2>1, <2>2, <2>3, SolvedCalls
<1> QED
  BY <1>1, <1>13, <1>14

\* The second telling calls nothing but the multisource.
LEMMA TellSourcesCalls ==
    ASSUME NEW s \in ButtonStates, NEW c \in Buttons
    PROVE  Called(s, TellSources(s, c), ButtonConf[c].target, c)
<1> DEFINE name == ButtonConf[c].target
           es == NamedEntities[name]
           N == Len(es)
           Hears(x, e) == IF e \in Sources THEN SourceUse(x, e, c) ELSE x
           use == [n \in 1..N |-> [x \in ButtonStates |-> Hears(x, es[n])]]
           Is(f) == f = [n \in 0..N |-> IF n = 0 THEN s ELSE Hears(f[n - 1], es[n])]
           given == CHOOSE f : Is(f)
<1>1. TellSources(s, c) = given[N]
  BY DEF TellSources, UseAll
<1>2. /\ N \in Nat
      /\ \A n \in 1..N : es[n] \in Buttons \cup Sources \cup Envs
                         /\ (es[n] \in Sources => es[n] = name)
      /\ \A m, n \in 1..N : es[m] = es[n] => m = n
      /\ name \in Sources => \E n \in 1..N : es[n] = name
  <2>1. name \in DOMAIN NamedEntities
    BY ButtonAssumption
  <2> HIDE DEF name
  <2> QED
    BY <2>1, NamedFacts
<1> HIDE DEF N, es, name
<1>3. ASSUME NEW n \in 1..N, NEW x \in ButtonStates
      PROVE  /\ es[n] \in Sources => Sourced(x, Hears(x, es[n]), es[n], c)
             /\ es[n] \notin Sources => Fired(x, Hears(x, es[n]))
                                        /\ Hears(x, es[n]).m_rgTriggered = x.m_rgTriggered
             /\ Hears(x, es[n]) \in ButtonStates
  <2>1. CASE es[n] \in Sources
    <3>1. Sourced(x, SourceUse(x, es[n], c), es[n], c)
      BY <2>1, SourceUseFires
    <3> QED
      BY <2>1, <3>1 DEF Sourced, Fired
  <2>2. CASE es[n] \notin Sources
    BY <2>2 DEF Fired
  <2> QED
    BY <2>1, <2>2
<1> HIDE DEF Hears
<1>4. /\ use \in [1..N -> [ButtonStates -> ButtonStates]]
      /\ \A n \in 1..N : \A x \in ButtonStates : use[n][x] = Hears(x, es[n])
  BY <1>3
<1> HIDE DEF use
<1>5. PICK f : Solves(f, N, ButtonStates, s, use)
  BY <1>2, <1>4, RecursionExists
<1>6. /\ f \in [0..N -> ButtonStates] /\ f[0] = s /\ \A n \in 1..N : f[n] = use[n][f[n - 1]]
  BY <1>5 DEF Solves
<1>7. 0 \in 0..N /\ \A n \in 1..N : n \in 0..N /\ n - 1 \in 0..N /\ n # 0
  BY <1>2
<1>8. ASSUME NEW n \in 0..N PROVE f[n] = IF n = 0 THEN s ELSE Hears(f[n - 1], es[n])
  <2>1. CASE n = 0
    BY <1>6, <2>1
  <2>2. CASE n # 0
    <3>1. n \in 1..N /\ n - 1 \in 0..N
      BY <1>2, <2>2
    <3>2. f[n - 1] \in ButtonStates /\ f[n] = use[n][f[n - 1]]
      BY <1>6, <3>1
    <3> QED
      BY <1>4, <2>2, <3>1, <3>2
  <2> QED
    BY <2>1, <2>2
<1>9. Is(given)
  <2>1. f = [n \in 0..N |-> f[n]]
    BY <1>6
  <2>2. [n \in 0..N |-> f[n]] = [n \in 0..N |-> IF n = 0 THEN s ELSE Hears(f[n - 1], es[n])]
    BY <1>8
  <2>3. Is(f)
    BY <2>1, <2>2
  <2> QED
    BY <2>3
<1> HIDE DEF given
<1>10. \A n \in 0..N : given[n] = IF n = 0 THEN s ELSE Hears(given[n - 1], es[n])
  BY <1>9
<1> DEFINE T == {n \in 0..N : given[n] = f[n]}
<1>11. 0 \in T
  BY <1>6, <1>7, <1>10
<1>12. \A n \in 1..N : n - 1 \in T => n \in T
  BY <1>7, <1>8, <1>10
<1>13. N \in T
  <2>1. N \in 0..N
    BY <1>2
  <2> HIDE DEF T
  <2> QED
    BY <1>2, <1>11, <1>12, <2>1, Induct
<1>14. Called(s, f[N], name, c)
  <2>1. Uses(use, es, N, c)
    BY <1>3, <1>4 DEF Uses
  <2>2. Lists(es, N, name, c)
    BY <1>2 DEF Lists
  <2>3. N \in Nat /\ f[0] = s /\ \A n \in 1..N : f[n] = use[n][f[n - 1]]
    BY <1>2, <1>6
  <2> QED
    BY <2>1, <2>2, <2>3, SolvedCalls
<1> QED
  BY <1>1, <1>13, <1>14 DEF name

-----------------------------------------------------------------------------
(* The inputs follow the buttons *)

\* What InputsFollowButtons says of a state, and what it becomes when the button
\* c has gone in or out and nobody has been told.
Prompt(m) == \A b \in Inputs(m) : ~ButtonConf[b].delay
Follows(s) ==
    \A m \in Sources : Prompt(m) =>
        \A b \in Inputs(m) : ~ButtonConf[b].toggle => (s.m_rgTriggered[m][b] <=> IsIn(s, b))
Untold(s, c) ==
    \A m \in Sources : Prompt(m) =>
        \A b \in Inputs(m) : ~ButtonConf[b].toggle =>
            (s.m_rgTriggered[m][b] <=> IF b = c THEN ~IsIn(s, b) ELSE IsIn(s, b))
InStep(s) == s \in ButtonStates /\ Follows(s)

\* A delayed firing waits only for a button that has a delay, and a button's
\* think fits its toggle state.
ButtonIInv == InStep(ButtonState)

LEMMA InputIsButton ==
    \A m : \A b \in Inputs(m) : b \in Buttons /\ ButtonConf[b].target = m
  BY DEF Inputs

LEMMA FiredFollows ==
    ASSUME NEW s, NEW t, InStep(s), Fired(s, t), t.m_rgTriggered = s.m_rgTriggered
    PROVE  InStep(t)
<1>1. Follows(t)
  BY InputIsButton DEF InStep, Fired, Follows
<1> QED
  BY <1>1 DEF InStep, Fired

\* A toggle button's inputs are not looked at, nor are those of a multisource with
\* a delayed input.
LEMMA UntoldFollows ==
    ASSUME NEW s, NEW c \in Buttons, ButtonConf[c].toggle \/ ButtonConf[c].delay
    PROVE  Untold(s, c) <=> Follows(s)
<1>1. \A m \in Sources : Prompt(m) => \A b \in Inputs(m) : ~ButtonConf[b].toggle => b # c
  BY DEF Prompt
<1> QED
  BY <1>1 DEF Untold, Follows

\* Called by the button that has gone in or out, its multisource knows again.
LEMMA CalledFollows ==
    ASSUME NEW s, NEW c \in Buttons, Untold(s, c),
           NEW t, Called(s, t, ButtonConf[c].target, c)
    PROVE  InStep(t)
<1> DEFINE name == ButtonConf[c].target
<1>1. /\ t \in ButtonStates /\ Others(s, t, name) /\ Fired(s, t)
      /\ name \in Sources /\ c \in Inputs(name) => Negated(s, t, name, c)
  BY DEF Called, Fired
<1>2. ASSUME NEW m \in Sources, Prompt(m), NEW b \in Inputs(m), ~ButtonConf[b].toggle
      PROVE  t.m_rgTriggered[m][b] <=> IsIn(t, b)
  <2>1. /\ b \in Buttons /\ (IsIn(t, b) <=> IsIn(s, b))
        /\ s.m_rgTriggered[m][b] <=> IF b = c THEN ~IsIn(s, b) ELSE IsIn(s, b)
    BY <1>1, <1>2, InputIsButton DEF Untold, Fired
  <2>2. CASE m = name
    <3>1. c \in Inputs(m) /\ Negated(s, t, m, c)
      BY <1>1, <2>2 DEF Inputs
    <3>2. t.m_rgTriggered[m][b] = IF b = c THEN ~s.m_rgTriggered[m][b] ELSE s.m_rgTriggered[m][b]
      BY <3>1 DEF Negated
    <3> QED
      BY <2>1, <3>2
  <2>3. CASE m # name
    <3>1. b # c /\ t.m_rgTriggered[m] = s.m_rgTriggered[m]
      BY <1>1, <2>3, InputIsButton DEF Others
    <3> QED
      BY <2>1, <3>1
  <2> QED
    BY <2>2, <2>3
<1> QED
  BY <1>1, <1>2 DEF InStep, Follows

\* A temporary entity calls for a button whose multisource is not looked at.
LEMMA DelayedFollows ==
    ASSUME NEW s, NEW c \in Later, Follows(s),
           NEW u, NEW t, Called(s, t, ButtonConf[c].target, u)
    PROVE  InStep(t)
<1>1. t \in ButtonStates /\ Others(s, t, ButtonConf[c].target) /\ Fired(s, t)
  BY DEF Called, Fired
<1>2. \A m \in Sources : Prompt(m) => m # ButtonConf[c].target
  BY DEF Prompt, Inputs, Later
<1>3. Follows(t)
  BY <1>1, <1>2, InputIsButton DEF Others, Follows, Fired
<1> QED
  BY <1>1, <1>3 DEF InStep

LEMMA TargetNamed == \A b \in Buttons : ButtonConf[b].target \in DOMAIN NamedEntities
  BY ButtonAssumption

\* CBaseDelay::SUB_UseTargets by the button that has gone in or out.
LEMMA UseTargetsFollows ==
    ASSUME NEW s \in ButtonStates, NEW b \in Buttons, Untold(s, b)
    PROVE  /\ InStep(SUB_UseTargets(s, b))
           /\ Fired(s, SUB_UseTargets(s, b))
<1>1. CASE ButtonConf[b].delay
  <2> DEFINE t == [s EXCEPT !.delayed = s.delayed \cup {b}]
  <2>1. SUB_UseTargets(s, b) = t
    BY <1>1 DEF SUB_UseTargets, ButtonStates
  <2>2. s.delayed \cup {b} \in SUBSET Later
    BY <1>1 DEF ButtonStates, Later
  <2>3. t \in ButtonStates /\ t.button = s.button /\ t.m_rgTriggered = s.m_rgTriggered
    BY <2>2 DEF ButtonStates
  <2> HIDE DEF t
  <2>4. Follows(s) /\ Fired(s, t)
    BY <1>1, <2>3, UntoldFollows DEF Fired, IsIn
  <2> QED
    BY <2>1, <2>3, <2>4, FiredFollows DEF InStep
<1>2. CASE ~ButtonConf[b].delay
  <2> DEFINE t == FireTargets(s, ButtonConf[b].target, b)
  <2>1. SUB_UseTargets(s, b) = t
    BY <1>2 DEF SUB_UseTargets
  <2>2. Called(s, t, ButtonConf[b].target, b)
    BY TargetNamed, FireTargetsCalls
  <2> HIDE DEF t
  <2> QED
    BY <2>1, <2>2, CalledFollows DEF Called
<1> QED
  BY <1>1, <1>2

-----------------------------------------------------------------------------
(* The steps of a button *)

\* The touch function goes, or the think.
LEMMA LoseTouch ==
    ASSUME NEW s, NEW b \in Buttons, InStep(s)
    PROVE  /\ InStep([s EXCEPT !.button[b].touch = "none"])
           /\ [s EXCEPT !.button[b].touch = "none"].button[b].toggle_state
                 = s.button[b].toggle_state
<1> DEFINE r == [s.button[b] EXCEPT !.touch = "none"]
           t == [s EXCEPT !.button[b] = r]
<1>1. s \in ButtonStates /\ s.button[b] \in ButtonRecord /\ ThinkFits(s.button[b])
  BY OneButton DEF InStep
<1>2. r \in ButtonType /\ r.toggle_state = s.button[b].toggle_state
  BY <1>1 DEF ButtonRecord, ButtonType, ThinkFits
<1>3. [s EXCEPT !.button[b].touch = "none"] = t
  BY <1>1 DEF ButtonStates
<1> HIDE DEF r
<1>4. /\ t \in ButtonStates /\ t.button[b] = r /\ t.m_rgTriggered = s.m_rgTriggered
      /\ \A c \in Buttons \ {b} : t.button[c] = s.button[c]
  BY <1>1, <1>2, SetButton
<1> HIDE DEF t
<1>5. Fired(s, t)
  BY <1>2, <1>4 DEF Fired, IsIn
<1> QED
  BY <1>2, <1>3, <1>4, <1>5, FiredFollows

LEMMA ButtonActivateGood ==
    ASSUME NEW s, NEW b \in Buttons, InStep(s), s.button[b].toggle_state = "AT_BOTTOM"
    PROVE  InStep(ButtonActivate(s, b))
<1>1. ~IsIn(s, b) /\ s \in ButtonStates
  BY DEF IsIn, InStep
<1> QED
  BY <1>1, ButtonActivateFires, FiredFollows

\* A button that begins to come out is still in.
LEMMA ReturnGood ==
    ASSUME NEW s, NEW b \in Buttons, InStep(s),
           ButtonConf[b].toggle \/ s.button[b].toggle_state = "AT_TOP"
    PROVE  InStep(ButtonReturn(s, b))
<1> DEFINE t == ButtonReturn(s, b)
<1>1. /\ t \in ButtonStates /\ IsIn(t, b) /\ t.m_rgTriggered = s.m_rgTriggered
      /\ \A c \in Buttons \ {b} : t.button[c] = s.button[c]
  BY ButtonReturnFires DEF InStep
<1> HIDE DEF t
<1>2. Fired(s, t)
  BY <1>1 DEF Fired, IsIn
<1> QED
  BY <1>1, <1>2, FiredFollows DEF t

LEMMA Response ==
    ASSUME NEW b \in Buttons
    PROVE  /\ ResponseToTouch(b) = "RETURN" =>
                 ButtonConf[b].toggle /\ button[b].toggle_state = "AT_TOP"
           /\ ResponseToTouch(b) = "ACTIVATE" => button[b].toggle_state = "AT_BOTTOM"
  BY DEF ResponseToTouch

LEMMA BecomeGood ==
    ASSUME NEW x, InStep(x), ButtonsBecome(x)
    PROVE  ButtonIInv'
<1>1. /\ button' = x.button /\ m_rgTriggered' = x.m_rgTriggered
      /\ gGlobalState' = x.gGlobalState /\ delayed' = x.delayed
  BY DEF ButtonsBecome
<1>2. ButtonState' = x
  BY <1>1 DEF ButtonState, InStep, ButtonStates
<1> QED
  BY <1>2 DEF ButtonIInv

LEMMA UseGood ==
    ASSUME ButtonIInv, NEW b \in Buttons, UseButton(b)
    PROVE  ButtonIInv'
<1>1. InStep(ButtonUse(ButtonState, b))
  BY ButtonUseFires, FiredFollows DEF ButtonIInv, InStep
<1> QED
  BY <1>1, BecomeGood DEF UseButton

LEMMA TouchGood ==
    ASSUME ButtonIInv, NEW b \in Buttons, TouchButton(b)
    PROVE  ButtonIInv'
<1> DEFINE s == [ButtonState EXCEPT !.button[b].touch = "none"]
<1>1. InStep(s) /\ s.button[b].toggle_state = button[b].toggle_state
  BY LoseTouch DEF ButtonIInv, ButtonState
<1> HIDE DEF s
<1>2. ASSUME ResponseToTouch(b) = "RETURN" PROVE InStep(ButtonReturn(SUB_UseTargets(s, b), b))
  <2>1. ButtonConf[b].toggle
    BY <1>2, Response
  <2>2. Untold(s, b)
    BY <1>1, <2>1, UntoldFollows DEF InStep
  <2>3. InStep(SUB_UseTargets(s, b))
    BY <1>1, <2>2, UseTargetsFollows DEF InStep
  <2> QED
    BY <2>1, <2>3, ReturnGood
<1>3. ASSUME ResponseToTouch(b) = "ACTIVATE" PROVE InStep(ButtonActivate(s, b))
  BY <1>1, <1>3, Response, ButtonActivateGood
<1> QED
  BY <1>2, <1>3, BecomeGood DEF TouchButton, s

LEMMA ShootGood ==
    ASSUME ButtonIInv, NEW b \in Buttons, ShootButton(b)
    PROVE  ButtonIInv'
<1> DEFINE s == [ButtonState EXCEPT !.button[b].touch = "none"]
<1>1. InStep(s) /\ s.button[b].toggle_state = button[b].toggle_state
  BY LoseTouch DEF ButtonIInv, ButtonState
<1> HIDE DEF s
<1>2. ASSUME ResponseToTouch(b) = "RETURN" PROVE InStep(ButtonReturn(s, b))
  BY <1>1, <1>2, Response, ReturnGood
<1>3. ASSUME ResponseToTouch(b) = "ACTIVATE" PROVE InStep(ButtonActivate(s, b))
  BY <1>1, <1>3, Response, ButtonActivateGood
<1> QED
  BY <1>1, <1>2, <1>3, BecomeGood DEF ShootButton, s

\* In or out: button b gets a record with another toggle state, and nobody is told.
LEMMA MovedUntold ==
    ASSUME NEW s, InStep(s), NEW b \in Buttons, NEW r \in ButtonType,
           r.toggle_state \in {"AT_TOP", "GOING_DOWN"} <=> ~IsIn(s, b)
    PROVE  [s EXCEPT !.button[b] = r] \in ButtonStates /\ Untold([s EXCEPT !.button[b] = r], b)
<1> DEFINE t == [s EXCEPT !.button[b] = r]
<1>1. /\ t \in ButtonStates /\ t.button[b] = r /\ t.m_rgTriggered = s.m_rgTriggered
      /\ \A c \in Buttons \ {b} : t.button[c] = s.button[c]
  BY SetButton DEF InStep
<1> HIDE DEF t
<1>2. IsIn(t, b) <=> ~IsIn(s, b)
  BY <1>1 DEF IsIn
<1>3. \A c \in Buttons \ {b} : IsIn(t, c) <=> IsIn(s, c)
  BY <1>1 DEF IsIn
<1>4. Untold(t, b)
  BY <1>1, <1>2, <1>3, InputIsButton DEF InStep, Follows, Untold
<1> QED
  BY <1>1, <1>4 DEF t

LEMMA TriggerGood ==
    ASSUME ButtonIInv, NEW b \in Buttons, TriggerAndWait(b)
    PROVE  ButtonIInv'
<1> DEFINE o == ButtonState.button[b]
           q == [o EXCEPT !.think = "none"]
           s == [ButtonState EXCEPT !.button[b] = q]
           stays == ButtonConf[b].stays \/ ButtonConf[b].toggle
           r == [o EXCEPT !.toggle_state = "AT_TOP",
                          !.think = IF stays THEN "none" ELSE "ButtonReturn",
                          !.touch = IF stays THEN TouchOf(b) ELSE o.touch]
<1>1. /\ InStep(ButtonState) /\ ButtonState \in ButtonStates /\ o \in ButtonRecord
      /\ o.toggle_state = "GOING_UP" /\ ~IsIn(ButtonState, b)
  <2>1. InStep(ButtonState) /\ ButtonState \in ButtonStates /\ o \in ButtonRecord /\ ThinkFits(o)
    BY OneButton DEF ButtonIInv, InStep
  <2>2. o = button[b] /\ o.think = "TriggerAndWait"
    BY DEF TriggerAndWait, ButtonState
  <2>3. o.toggle_state = "GOING_UP"
    BY <2>1, <2>2 DEF ThinkFits, ButtonRecord
  <2> QED
    BY <2>1, <2>3 DEF IsIn
<1>2. /\ q \in ButtonType /\ q.toggle_state = "GOING_UP"
      /\ r \in ButtonType /\ r.toggle_state = "AT_TOP"
  BY <1>1, TouchOfType DEF ButtonRecord, ButtonType, ThinkFits
<1>3. [ButtonState EXCEPT !.button[b].think = "none"] = s
  BY <1>1 DEF ButtonStates
<1>4. Wait(s, b) = [ButtonState EXCEPT !.button[b] = r]
  <2>1. s.button[b] = q
    BY <1>1 DEF ButtonStates
  <2>2. Wait(s, b) = [s EXCEPT !.button[b] =
            IF stays THEN [s.button[b] EXCEPT !.toggle_state = "AT_TOP", !.touch = TouchOf(b)]
            ELSE [s.button[b] EXCEPT !.toggle_state = "AT_TOP", !.think = "ButtonReturn"]]
    BY SMTT(20), ZenonT(40) DEF Wait
  <2>3. r = IF stays THEN [q EXCEPT !.toggle_state = "AT_TOP", !.touch = TouchOf(b)]
            ELSE [q EXCEPT !.toggle_state = "AT_TOP", !.think = "ButtonReturn"]
    BY <1>1 DEF ButtonRecord
  <2> HIDE DEF q, r, stays
  <2>4. Wait(s, b) = [s EXCEPT !.button[b] = r]
    BY <2>1, <2>2, <2>3
  <2> QED
    BY <1>1, <2>4 DEF ButtonStates
<1> HIDE DEF q, r
<1>5. InStep(s)
  <2>1. /\ s \in ButtonStates /\ s.button[b] = q /\ s.m_rgTriggered = ButtonState.m_rgTriggered
        /\ \A c \in Buttons \ {b} : s.button[c] = ButtonState.button[c]
    BY <1>1, <1>2, SetButton
  <2> HIDE DEF s
  <2>2. Fired(ButtonState, s)
    BY <1>1, <1>2, <2>1 DEF Fired, IsIn
  <2> QED
    BY <1>1, <2>1, <2>2, FiredFollows
<1>6. InStep(SUB_UseTargets(Wait(s, b), b))
  <2>1. Wait(s, b) \in ButtonStates /\ Untold(Wait(s, b), b)
    BY <1>1, <1>2, <1>4, MovedUntold
  <2> QED
    BY <2>1, UseTargetsFollows
<1>7. ButtonsBecome(IF MasterLets(s, b) THEN SUB_UseTargets(Wait(s, b), b) ELSE s)
  BY <1>3 DEF TriggerAndWait
<1> HIDE DEF s
<1> QED
  BY <1>5, <1>6, <1>7, BecomeGood

LEMMA ReturnThinkGood ==
    ASSUME ButtonIInv, NEW b \in Buttons, Return(b)
    PROVE  ButtonIInv'
<1>1. /\ InStep(ButtonState) /\ ButtonState.button[b] \in ButtonRecord
      /\ ThinkFits(ButtonState.button[b]) /\ ButtonState.button[b].think = "ButtonReturn"
  BY OneButton DEF ButtonIInv, InStep, Return, ButtonState
<1>2. ButtonState.button[b].toggle_state = "AT_TOP"
  BY <1>1 DEF ThinkFits, ButtonRecord
<1> QED
  BY <1>1, <1>2, ReturnGood, BecomeGood DEF Return

LEMMA HomeGood ==
    ASSUME ButtonIInv, NEW b \in Buttons, ButtonBackHome(b)
    PROVE  ButtonIInv'
<1> DEFINE o == ButtonState.button[b]
           r == [o EXCEPT !.toggle_state = "AT_BOTTOM", !.think = "none", !.touch = TouchOf(b)]
           s == Home(ButtonState, b)
           fired == IF ButtonConf[b].toggle THEN SUB_UseTargets(s, b) ELSE s
<1>1. /\ InStep(ButtonState) /\ ButtonState \in ButtonStates /\ o \in ButtonRecord
      /\ IsIn(ButtonState, b)
  <2>1. InStep(ButtonState) /\ ButtonState \in ButtonStates /\ o \in ButtonRecord /\ ThinkFits(o)
    BY OneButton DEF ButtonIInv, InStep
  <2>2. o.think = "ButtonBackHome"
    BY DEF ButtonBackHome, ButtonState
  <2>3. o.toggle_state = "GOING_DOWN"
    BY <2>1, <2>2 DEF ThinkFits, ButtonRecord
  <2> QED
    BY <2>1, <2>3 DEF IsIn
<1>2. r \in ButtonType /\ r.toggle_state = "AT_BOTTOM"
  BY <1>1, TouchOfType, ButtonRecordFits DEF ButtonRecord
<1>3. s = [ButtonState EXCEPT !.button[b] = r]
  BY <1>1 DEF Home, ButtonStates
<1> HIDE DEF r
<1>4. s \in ButtonStates /\ Untold(s, b)
  BY <1>1, <1>2, <1>3, MovedUntold
<1> HIDE DEF s
<1>5. fired \in ButtonStates /\ Untold(fired, b)
  <2>1. CASE ButtonConf[b].toggle
    BY <1>4, <2>1, UseTargetsFollows, UntoldFollows DEF InStep
  <2>2. CASE ~ButtonConf[b].toggle
    BY <1>4, <2>2
  <2> QED
    BY <2>1, <2>2
<1>6. ButtonsBecome(TellSources(fired, b))
  BY DEF ButtonBackHome, s
<1> HIDE DEF fired
<1> QED
  BY <1>5, <1>6, TellSourcesCalls, CalledFollows, BecomeGood

LEMMA DelayGood ==
    ASSUME ButtonIInv, NEW b \in Buttons, DelayThink(b)
    PROVE  ButtonIInv'
<1> DEFINE s == [ButtonState EXCEPT !.delayed = @ \ {b}]
           t == FireTargets(s, ButtonConf[b].target, "DelayedUse")
<1>1. InStep(ButtonState) /\ b \in Later /\ b \in ButtonState.delayed
  BY DEF ButtonIInv, InStep, ButtonStates, DelayThink, ButtonState
<1>2. s \in ButtonStates /\ s.button = ButtonState.button
      /\ s.m_rgTriggered = ButtonState.m_rgTriggered
  BY <1>1 DEF InStep, ButtonStates
<1> HIDE DEF s
<1>3. Follows(s)
  <2>1. Fired(ButtonState, s)
    BY <1>2 DEF Fired, IsIn
  <2> QED
    BY <1>1, <1>2, <2>1, FiredFollows DEF InStep
<1>4. Called(s, t, ButtonConf[b].target, "DelayedUse")
  BY <1>2, TargetNamed, FireTargetsCalls
<1>5. ButtonsBecome(t)
  BY DEF DelayThink, s
<1> HIDE DEF t
<1> QED
  BY <1>1, <1>3, <1>4, <1>5, DelayedFollows, BecomeGood

LEMMA ButtonInitGood == ButtonInit => ButtonIInv
<1> SUFFICES ASSUME ButtonInit PROVE ButtonIInv
  OBVIOUS
<1>1. button \in [Buttons -> ButtonType]
  BY TouchOfType DEF ButtonInit, ButtonType, ButtonRecord, ThinkFits
<1>2. m_rgTriggered \in TriggeredType
  <2>1. /\ m_rgTriggered = [m \in Sources |-> m_rgTriggered[m]]
        /\ \A m \in Sources : m_rgTriggered[m] \in [Inputs(m) -> BOOLEAN]
    BY DEF ButtonInit
  <2> QED
    BY <2>1 DEF TriggeredType
<1>3. gGlobalState \in GlobalType /\ delayed \in SUBSET Later
  BY DEF ButtonInit, GlobalType
<1>4. ButtonState \in ButtonStates
  BY <1>1, <1>2, <1>3 DEF ButtonState, ButtonStates
<1>5. Follows(ButtonState)
  BY InputIsButton DEF ButtonInit, Follows, IsIn, ButtonState
<1> QED
  BY <1>4, <1>5 DEF ButtonIInv, InStep

LEMMA ButtonNextGood == ButtonIInv /\ [ButtonNext]_buttonVars => ButtonIInv'
<1> SUFFICES ASSUME ButtonIInv, [ButtonNext]_buttonVars PROVE ButtonIInv'
  OBVIOUS
<1>1. ASSUME UNCHANGED buttonVars PROVE ButtonIInv'
  <2>1. ButtonState' = ButtonState
    BY <1>1 DEF buttonVars, ButtonState
  <2> QED
    BY <2>1 DEF ButtonIInv
<1>2. ASSUME NEW b \in Buttons,
             UseButton(b) \/ TouchButton(b) \/ ShootButton(b) \/ ButtonThink(b) \/ DelayThink(b)
      PROVE  ButtonIInv'
  <2>1. CASE UseButton(b)
    BY <2>1, UseGood
  <2>2. CASE TouchButton(b)
    BY <2>2, TouchGood
  <2>3. CASE ShootButton(b)
    BY <2>3, ShootGood
  <2>4. CASE TriggerAndWait(b)
    BY <2>4, TriggerGood
  <2>5. CASE Return(b)
    BY <2>5, ReturnThinkGood
  <2>6. CASE ButtonBackHome(b)
    BY <2>6, HomeGood
  <2>7. CASE DelayThink(b)
    BY <2>7, DelayGood
  <2> QED
    BY <1>2, <2>1, <2>2, <2>3, <2>4, <2>5, <2>6, <2>7 DEF ButtonThink
<1> QED
  BY <1>1, <1>2 DEF ButtonNext

LEMMA ButtonAlways == ButtonSpec => []ButtonIInv
  BY ButtonInitGood, ButtonNextGood, PTL DEF ButtonSpec

\* What the invariant says of the variables.
LEMMA ButtonIInvType == ButtonIInv => ButtonTypeOK
<1> SUFFICES ASSUME ButtonIInv PROVE ButtonTypeOK
  OBVIOUS
<1>1. /\ button \in [Buttons -> ButtonType] /\ m_rgTriggered \in TriggeredType
      /\ gGlobalState \in GlobalType /\ delayed \in SUBSET Later
  BY DEF ButtonIInv, InStep, ButtonStates, ButtonState
<1>2. \A b \in Buttons : button[b] \in ButtonRecord /\ ThinkFits(button[b])
  BY <1>1 DEF ButtonType
<1>3. button \in [Buttons -> ButtonRecord]
  BY <1>1, <1>2
<1> QED
  BY <1>1, <1>2, <1>3 DEF ButtonTypeOK, ButtonRecord, ThinkFits, TriggeredType, GlobalType, Later

\* Buttons, multisources, globals and delayed firings are of their types, and a button's
\* think is one its toggle state knows, for any level.
THEOREM ButtonsAreTyped == ButtonSpec => []ButtonTypeOK
  BY ButtonAlways, ButtonIInvType, PTL

LEMMA ButtonIInvFollows == ButtonIInv => InputsFollowButtons
<1> SUFFICES ASSUME ButtonIInv, NEW m \in Sources, Prompt(m),
                    NEW b \in Inputs(m), ~ButtonConf[b].toggle
             PROVE  m_rgTriggered[m][b] = (button[b].toggle_state \in {"AT_TOP", "GOING_DOWN"})
  BY DEF InputsFollowButtons, Prompt
<1>1. m_rgTriggered[m][b] <=> button[b].toggle_state \in {"AT_TOP", "GOING_DOWN"}
  BY DEF ButtonIInv, InStep, Follows, IsIn, ButtonState
<1>2. m_rgTriggered[m] \in [Inputs(m) -> BOOLEAN]
  BY DEF ButtonIInv, InStep, ButtonStates, ButtonState, TriggeredType
<1>3. m_rgTriggered[m][b] \in BOOLEAN
  BY <1>2
<1> QED
  BY <1>1, <1>3

\* In any level an input of a multisource is on exactly while its button is in,
\* however the buttons, their masters and the globals interleave: CMultiSource::Use
\* toggles (buttons.cpp), and TriggerAndWait and ButtonBackHome toggle in pairs.
THEOREM InputsAlwaysFollow == ButtonSpec => []InputsFollowButtons
  BY ButtonAlways, ButtonIInvFollows, PTL

-----------------------------------------------------------------------------
(* A train and its trackchange *)

TrainType == [m_ppath : PathTracks \cup {NoTrack}, place : PathTracks \X BOOLEAN,
              speed : -1..1, m_oldSpeed : -1..1, think : {"none", "Next", "DeadEnd"},
              due : BOOLEAN]
PlatType == [to : Ends, rests : BOOLEAN, pos : Ends \cup {"between"},
             m_code : {"SAFE", "BLOCKING", "FOLLOWING"}]

\* A train is at its track, on the way to the next one or, at a dead end, there.
NearItsTrack(t) ==
    t.m_ppath # NoTrack =>
        t.place \in {<<t.m_ppath, FALSE>>, <<t.m_ppath, TRUE>>, <<m_pnext[t.m_ppath], FALSE>>}

\* Where the plat is: at the track of the train, if that is one of the plat's
\* or the train stands at one of the plat's.
OnThePlat(t, p) ==
    t.m_ppath # NoTrack => \A end \in Ends :
        TrackOf(end) = t.m_ppath \/ <<TrackOf(end), FALSE>> = t.place => p.rests /\ p.to = end

Carried(t, p) == ~p.rests /\ p.m_code = "FOLLOWING" => t.m_ppath = NoTrack

\* Only the track at which the plat rests is a valid path.
PlatDisables(p, d) == \A end \in Ends : TrackOf(end) \notin d => p.rests /\ p.to = end

\* The inductive invariant, of the state as a record.
TracksState == [t : TrainType, p : PlatType, d : SUBSET PathTracks]
GoodTracks ==
    {s \in TracksState :
        /\ s.p.rests => s.p.pos = s.p.to
        /\ NearItsTrack(s.t) /\ OnThePlat(s.t, s.p) /\ Carried(s.t, s.p)
        /\ PlatDisables(s.p, s.d)}
TracksIInv == TracksNow \in GoodTracks

LEMMA TrackFacts ==
    /\ \A end \in Ends : TrackOf(end) \in PathTracks
    /\ TrackOf("top") # TrackOf("bottom")
    /\ \A end \in Ends : TrackOf(end) # FirstTrack /\ TrackOf(end) \notin Switched
    /\ \A end \in Ends : Other(end) \in Ends
  BY TracksAssumption DEF Ends, TrackOf, Other

\* CPathTrack::Link leads to tracks.
LEMMA NextIsTrack ==
    /\ \A n \in PathTracks \cup {NoTrack} : m_pnext[n] \in PathTracks \cup {NoTrack}
    /\ \A n \in PathTracks \cup {NoTrack} : m_pprevious[n] \in PathTracks \cup {NoTrack}
<1>1. ASSUME NEW n \in PathTracks \cup {NoTrack}
      PROVE  m_pnext[n] \in PathTracks \cup {NoTrack}
  <2> DEFINE after == UNION {{l[i] : i \in {j \in 2..Len(l) : l[j - 1] = n}} : l \in Lines}
  <2>1. after \subseteq PathTracks
    <3>1. ASSUME NEW l \in Lines, NEW i \in 2..Len(l) PROVE l[i] \in PathTracks
      <4>1. l \in Seq(PathTracks)
        BY TracksAssumption
      <4> HIDE DEF after
      <4> QED
        BY <3>1, <4>1, ElementOfSeq, LenProperties
    <3> QED
      BY <3>1
  <2>2. m_pnext[n] = IF after = {} THEN NoTrack ELSE CHOOSE m \in after : TRUE
    BY DEF m_pnext
  <2> HIDE DEF after
  <2> QED
    BY <2>1, <2>2
<1>2. ASSUME NEW n \in PathTracks \cup {NoTrack}
      PROVE  m_pprevious[n] \in PathTracks \cup {NoTrack}
  <2> DEFINE before == {m \in PathTracks : m_pnext[m] = n /\ n # NoTrack}
  <2>1. m_pprevious[n] = IF before = {} THEN NoTrack ELSE CHOOSE m \in before : TRUE
    BY DEF m_pprevious
  <2>2. before \subseteq PathTracks
    OBVIOUS
  <2> HIDE DEF before
  <2> QED
    BY <2>1, <2>2
<1> QED
  BY <1>1, <1>2

\* Tracks of the plat are disabled while it moves and but for one when it rests.
LEMMA AutoTargets ==
    ASSUME NEW s, s.d \subseteq PathTracks, NEW state \in Ends \cup {"going"},
           NEW t, NEW p, s = [t |-> t, p |-> p, d |-> s.d]
    PROVE  \E d \in SUBSET PathTracks :
              /\ UpdateAutoTargets(s, state) = [t |-> t, p |-> p, d |-> d]
              /\ \A end \in Ends : TrackOf(end) \notin d => end = state
<1> DEFINE d == (s.d \cup {TrackTop, TrackBottom}) \ {TrackOf(end) : end \in Ends \cap {state}}
<1>1. UpdateAutoTargets(s, state) = [t |-> t, p |-> p, d |-> d]
  BY DEF UpdateAutoTargets
<1>2. d \in SUBSET PathTracks
  BY TracksAssumption
<1>3. \A end \in Ends : TrackOf(end) \notin d => end = state
  BY TracksAssumption DEF TrackOf, Ends
<1> QED
  BY <1>1, <1>2, <1>3

\* What CFuncTrackChange::HitTop and HitBottom leave behind.
LEMMA HitGives ==
    ASSUME NEW s \in TracksState, NEW end \in Ends, s.p.to = end
    PROVE  \E t \in TrainType, p \in PlatType, d \in SUBSET PathTracks :
              /\ Hit(s, end) = [t |-> t, p |-> p, d |-> d]
              /\ p = [s.p EXCEPT !.rests = TRUE, !.pos = end]
              /\ PlatDisables(p, d)
              /\ s.p.m_code = "FOLLOWING" =>
                    t.m_ppath = TrackOf(end) /\ t.place = <<TrackOf(end), FALSE>>
              /\ s.p.m_code # "FOLLOWING" => t = s.t
<1> DEFINE n == TrackOf(end)
           p == [s.p EXCEPT !.rests = TRUE, !.pos = end]
           back == [s.t EXCEPT !.m_ppath = n, !.place = <<n, FALSE>>]
           arrived == [s EXCEPT !.p = p]
<1>1. n \in PathTracks
  BY TrackFacts
<1>2. p \in PlatType /\ p.rests /\ p.to = end
  BY DEF TracksState, PlatType
<1>3. back \in TrainType /\ back.m_ppath = n /\ back.place = <<n, FALSE>>
  BY <1>1 DEF TracksState, TrainType
<1>4. Hit(s, end) = IF s.p.m_code = "FOLLOWING"
                    THEN [UpdateAutoTargets(arrived, end) EXCEPT !.t = back]
                    ELSE UpdateAutoTargets(arrived, end)
  BY DEF Hit
<1> HIDE DEF n, p, back
<1>5. arrived = [t |-> s.t, p |-> p, d |-> arrived.d] /\ arrived.d \subseteq PathTracks
  BY DEF TracksState
<1> HIDE DEF arrived
<1>6. PICK d \in SUBSET PathTracks :
         /\ UpdateAutoTargets(arrived, end) = [t |-> s.t, p |-> p, d |-> d]
         /\ \A e \in Ends : TrackOf(e) \notin d => e = end
  BY <1>5, AutoTargets
<1>7. PlatDisables(p, d)
  BY <1>2, <1>6 DEF PlatDisables
<1>8. CASE s.p.m_code = "FOLLOWING"
  <2>1. Hit(s, end) = [t |-> back, p |-> p, d |-> d]
    BY <1>4, <1>6, <1>8
  <2> QED
    BY <1>2, <1>3, <1>7, <1>8, <2>1 DEF n, p
<1>9. CASE s.p.m_code # "FOLLOWING"
  <2>1. Hit(s, end) = [t |-> s.t, p |-> p, d |-> d] /\ s.t \in TrainType
    BY <1>4, <1>6, <1>9 DEF TracksState
  <2> QED
    BY <1>2, <1>7, <1>9, <2>1 DEF p
<1> QED
  BY <1>8, <1>9

\* A train that the plat may leave: neither at one of its tracks nor standing
\* there.
Away(t) == t.m_ppath # NoTrack => \A end \in Ends : TrackOf(end) # t.m_ppath
                                                /\ <<TrackOf(end), FALSE>> # t.place

\* GoUp and GoDown, whatever the plat did before.
LEMMA PlatGoGood ==
    ASSUME NEW s \in TracksState, NEW end \in Ends,
           s.p.m_code = "BLOCKING" => s \in GoodTracks,
           s.p.m_code = "SAFE" => NearItsTrack(s.t) /\ Away(s.t)
    PROVE  Go(s, end) \in GoodTracks
<1> DEFINE p == [s.p EXCEPT !.to = end, !.rests = FALSE]
           starts == [s EXCEPT !.p = p]
           going == UpdateAutoTargets(starts, "going")
           moved == IF s.p.pos = end THEN Hit(going, end) ELSE going
           lost == [moved EXCEPT !.t = [moved.t EXCEPT !.m_ppath = NoTrack, !.due = TRUE]]
<1>1. p \in PlatType /\ ~p.rests /\ p.to = end /\ p.m_code = s.p.m_code /\ p.pos = s.p.pos
  BY DEF TracksState, PlatType
<1>2. Go(s, end) = CASE s.p.m_code = "BLOCKING" -> s
                     [] s.p.m_code = "SAFE" -> moved
                     [] s.p.m_code = "FOLLOWING" -> lost
  BY DEF Go
<1>3. starts = [t |-> s.t, p |-> p, d |-> starts.d] /\ starts.d \subseteq PathTracks
  BY DEF TracksState
<1>4. PICK d \in SUBSET PathTracks :
         /\ going = [t |-> s.t, p |-> p, d |-> d]
         /\ \A e \in Ends : TrackOf(e) \notin d => e = "going"
  <2> HIDE DEF starts, p
  <2> QED
    BY <1>3, AutoTargets
<1>5. \A e \in Ends : TrackOf(e) \in d
  BY <1>4 DEF Ends
<1>6. going \in TracksState /\ going.t = s.t /\ going.p = p
  <2> HIDE DEF going, p
  <2> QED
    BY <1>1, <1>4 DEF TracksState
<1>7. \E t \in TrainType, q \in PlatType, e \in SUBSET PathTracks :
         /\ moved = [t |-> t, p |-> q, d |-> e]
         /\ q.rests => q.pos = q.to
         /\ PlatDisables(q, e)
         /\ s.p.m_code = "SAFE" => t = s.t
         /\ q.m_code = s.p.m_code
  <2> HIDE DEF going, p
  <2>1. CASE s.p.pos = end
    <3>1. PICK t \in TrainType, q \in PlatType, e \in SUBSET PathTracks :
             /\ Hit(going, end) = [t |-> t, p |-> q, d |-> e]
             /\ q = [p EXCEPT !.rests = TRUE, !.pos = end]
             /\ PlatDisables(q, e)
             /\ p.m_code # "FOLLOWING" => t = s.t
      BY SMTT(20), ZenonT(40), <1>1, <1>6, HitGives
    <3>2. q.m_code = s.p.m_code /\ (q.rests => q.pos = q.to)
      BY <1>1, <3>1 DEF PlatType
    <3> QED
      BY <1>1, <2>1, <3>1, <3>2
  <2>2. CASE s.p.pos # end
    <3>1. PlatDisables(p, d) /\ moved = [t |-> s.t, p |-> p, d |-> d] /\ s.t \in TrainType
      BY <1>4, <1>5, <2>2 DEF PlatDisables, TracksState
    <3> QED
      BY <1>1, <3>1
  <2> QED
    BY <2>1, <2>2
<1>8. PICK t \in TrainType, q \in PlatType, e \in SUBSET PathTracks :
         /\ moved = [t |-> t, p |-> q, d |-> e]
         /\ q.rests => q.pos = q.to
         /\ PlatDisables(q, e)
         /\ s.p.m_code = "SAFE" => t = s.t
         /\ q.m_code = s.p.m_code
  BY <1>7
<1>9. CASE s.p.m_code = "SAFE"
  <2>1. Go(s, end) = [t |-> t, p |-> q, d |-> e]
    <3> HIDE DEF moved, lost
    <3> QED
      BY <1>2, <1>8, <1>9
  <2>2. NearItsTrack(t) /\ OnThePlat(t, q) /\ Carried(t, q)
    BY <1>8, <1>9 DEF Away, OnThePlat, Carried
  <2> QED
    BY <1>8, <2>1, <2>2 DEF GoodTracks, TracksState
<1>10. CASE s.p.m_code = "FOLLOWING"
  <2> DEFINE u == [t EXCEPT !.m_ppath = NoTrack, !.due = TRUE]
  <2>1. Go(s, end) = [t |-> u, p |-> q, d |-> e]
    <3>1. lost = [t |-> u, p |-> q, d |-> e]
      <4> HIDE DEF moved
      <4> QED
        BY <1>8
    <3> HIDE DEF moved, lost
    <3> QED
      BY <1>2, <1>10, <3>1
  <2>2. u \in TrainType /\ u.m_ppath = NoTrack
    BY DEF TrainType
  <2> HIDE DEF u
  <2>3. NearItsTrack(u) /\ OnThePlat(u, q) /\ Carried(u, q)
    BY <2>2 DEF NearItsTrack, OnThePlat, Carried
  <2> QED
    BY <1>8, <2>1, <2>2, <2>3 DEF GoodTracks, TracksState
<1>11. CASE s.p.m_code = "BLOCKING"
  <2> HIDE DEF moved, lost
  <2> QED
    BY <1>2, <1>11
<1> QED
  BY <1>9, <1>10, <1>11 DEF TracksState, PlatType

LEMMA Places ==
    ASSUME NEW m, NEW n, NEW b, NEW c
    PROVE  /\ <<m, b>> = <<n, c>> <=> m = n /\ b = c
           /\ <<m, b>>[1] = m /\ <<m, b>>[2] = b
<1>1. <<m, b>>[1] = m /\ <<m, b>>[2] = b /\ <<n, c>>[1] = n /\ <<n, c>>[2] = c
  OBVIOUS
<1> QED
  BY <1>1, Zenon

\* EvaluateTrain counts no train as safe that is near the track of the plat,
\* if the way behind the plat is short.
LEMMA SafeIsAway ==
    ASSUME ~LongExit, NEW s \in GoodTracks, s.p.rests,
           "SAFE" \in EvaluateTrain(s, TrackOf(s.p.to))
    PROVE  Away(s.t)
<1> DEFINE n == TrackOf(s.p.to)
<1>1. s.t.m_ppath \in PathTracks \cup {NoTrack} /\ s.p.to \in Ends
  BY DEF GoodTracks, TracksState, TrainType, PlatType
<1> SUFFICES ASSUME s.t.m_ppath # NoTrack, NEW end \in Ends,
                    TrackOf(end) = s.t.m_ppath \/ <<TrackOf(end), FALSE>> = s.t.place
             PROVE  FALSE
  BY DEF Away
<1>2. end = s.p.to
  BY DEF GoodTracks, OnThePlat
<1>3. s.t.place \in {<<s.t.m_ppath, FALSE>>, <<s.t.m_ppath, TRUE>>, <<m_pnext[s.t.m_ppath], FALSE>>}
  BY DEF GoodTracks, NearItsTrack
<1>4. s.t.m_ppath \in {n, m_pprevious[n]}
  <2>1. CASE n = s.t.m_ppath
    BY <2>1
  <2>2. CASE n # s.t.m_ppath
    <3>1. <<n, FALSE>> = s.t.place
      BY <1>2, <2>2
    <3> HIDE DEF n
    <3>2. <<n, FALSE>> # <<s.t.m_ppath, FALSE>> /\ <<n, FALSE>> # <<s.t.m_ppath, TRUE>>
      BY <2>2, Places
    <3>3. <<n, FALSE>> = <<m_pnext[s.t.m_ppath], FALSE>>
      BY <1>3, <3>1, <3>2, Zenon
    <3>4. m_pnext[s.t.m_ppath] = n
      BY <3>3, Places
    <3> QED
      BY <1>1, <1>2, <3>4, TracksAssumption DEF n
  <2> QED
    BY <2>1, <2>2
<1>5. "SAFE" \in Distances(s, n)
  BY <1>4 DEF EvaluateTrain
<1>6. s.t.place # <<n, FALSE>> /\ s.t.place # <<n, TRUE>> /\ s.t.place # <<m_pnext[n], FALSE>>
  BY <1>5, Zenon DEF Distances
<1> QED
  BY <1>2, <1>3, <1>6

\* CFuncTrackChange::Use, of a player or in the middle of the train's own call.
LEMMA PlatUsedGood ==
    ASSUME ~LongExit, NEW s \in GoodTracks, NEW r \in PlatUsed(s)
    PROVE  r \in GoodTracks
<1>1. CASE ~s.p.rests
  BY <1>1 DEF PlatUsed
<1>2. CASE s.p.rests
  <2>1. PICK code \in EvaluateTrain(s, TrackOf(s.p.to)) :
           r = Go([s EXCEPT !.p = [s.p EXCEPT !.m_code = code]],
                  IF code = "BLOCKING" THEN s.p.to ELSE Other(s.p.to))
    BY <1>2 DEF PlatUsed
  <2>2. code \in {"SAFE", "BLOCKING", "FOLLOWING"}
    BY <2>1 DEF EvaluateTrain, Distances
  <2> DEFINE q == [s EXCEPT !.p = [s.p EXCEPT !.m_code = code]]
  <2>3. s.p.to \in Ends /\ Other(s.p.to) \in Ends
    BY TrackFacts DEF GoodTracks, TracksState, PlatType
  <2>4. q \in TracksState /\ q.p.m_code = code /\ q.t = s.t
    BY <2>2 DEF GoodTracks, TracksState, PlatType
  <2>5. code = "BLOCKING" => q \in GoodTracks
    BY <1>2, <2>2, <2>4
       DEF GoodTracks, TracksState, PlatType, OnThePlat, Carried, PlatDisables
  <2>6. code = "SAFE" => NearItsTrack(q.t) /\ Away(q.t)
    BY <1>2, <2>1, <2>4, SafeIsAway DEF GoodTracks
  <2>7. r = Go(q, IF code = "BLOCKING" THEN s.p.to ELSE Other(s.p.to))
    BY <2>1
  <2> HIDE DEF q
  <2>8. Go(q, s.p.to) \in GoodTracks /\ Go(q, Other(s.p.to)) \in GoodTracks
    BY <2>3, <2>4, <2>5, <2>6, PlatGoGood
  <2> QED
    BY <2>7, <2>8
<1> QED
  BY <1>1, <1>2

LEMMA DeadEndGood ==
    ASSUME ~LongExit, NEW s \in GoodTracks, NEW r \in DeadEnd(s)
    PROVE  r \in GoodTracks
  BY PlatUsedGood DEF DeadEnd

\* A train looks ahead to a track that is valid, but for the one it backs up
\* to, which it has not left.
LEMMA AheadGood ==
    ASSUME NEW s \in GoodTracks, s.t.m_ppath # NoTrack, NEW x \in LookAhead(s),
           NEW t, t = [s.t EXCEPT !.m_ppath = IF x[1] = NoTrack THEN s.t.m_ppath ELSE x[1],
                                  !.place = x[2]]
    PROVE  t \in TrainType /\ NearItsTrack(t) /\ OnThePlat(t, s.p) /\ t.m_ppath # NoTrack
<1> DEFINE n == s.t.m_ppath
           g == m_pnext[n]
           back == m_pprevious[n]
<1>1. /\ n \in PathTracks /\ g \in PathTracks \cup {NoTrack} /\ back \in PathTracks \cup {NoTrack}
      /\ s.t.place \in PathTracks \X BOOLEAN
  BY NextIsTrack DEF GoodTracks, TracksState, TrainType
<1>2. /\ \A end \in Ends : TrackOf(end) \notin s.d => s.p.rests /\ s.p.to = end
      /\ \A end \in Ends : TrackOf(end) = n => s.p.rests /\ s.p.to = end
      /\ \A end \in Ends : <<TrackOf(end), FALSE>> = s.t.place => s.p.rests /\ s.p.to = end
      /\ s.t.place \in {<<n, FALSE>>, <<n, TRUE>>, <<g, FALSE>>}
  BY DEF GoodTracks, PlatDisables, OnThePlat, NearItsTrack
<1>3. \/ x = <<NoTrack, s.t.place>>
      \/ x = <<n, <<n, TRUE>>>>
      \/ ValidPath(s, g) /\ x = <<g, <<g, FALSE>>>>
      \/ ValidPath(s, g) /\ x = <<g, <<g, TRUE>>>>
      \/ ValidPath(s, g) /\ x = <<NoTrack, <<g, FALSE>>>>
      \/ ValidPath(s, back) /\ x = <<back, <<back, TRUE>>>>
      \/ x = <<NoTrack, <<n, FALSE>>>>
  <2>1. CASE x \in Forward(s)
    BY <2>1 DEF Forward
  <2>2. CASE x \in Backward(s)
    BY <2>2 DEF Backward
  <2> QED
    BY <2>1, <2>2 DEF LookAhead
<1>4. s.t \in TrainType
  BY DEF GoodTracks, TracksState
<1>5. ASSUME NEW m \in PathTracks, NEW w \in PathTracks \X BOOLEAN,
             t.m_ppath = m, t.place = w, t \in TrainType,
             w \in {<<m, FALSE>>, <<m, TRUE>>, <<m_pnext[m], FALSE>>},
             \A end \in Ends : TrackOf(end) = m => s.p.rests /\ s.p.to = end,
             \A end \in Ends : <<TrackOf(end), FALSE>> = w => s.p.rests /\ s.p.to = end
      PROVE  t \in TrainType /\ NearItsTrack(t) /\ OnThePlat(t, s.p) /\ t.m_ppath # NoTrack
  BY <1>5, TracksAssumption DEF NearItsTrack, OnThePlat
<1>6. ASSUME NEW m \in PathTracks \cup {NoTrack}, NEW w \in PathTracks \X BOOLEAN, x = <<m, w>>
      PROVE  t \in TrainType /\ t.m_ppath = (IF m = NoTrack THEN n ELSE m) /\ t.place = w
  BY <1>1, <1>4, <1>6 DEF TrainType
<1>7. NoTrack \notin PathTracks
  BY TracksAssumption
<1> HIDE DEF n, g, back
<1>8. CASE x = <<NoTrack, s.t.place>>
  <2>1. t \in TrainType /\ t.m_ppath = n /\ t.place = s.t.place
    BY <1>1, <1>6, <1>8
  <2> QED
    BY <1>1, <1>2, <1>5, <2>1 DEF n, g
<1>9. CASE x = <<n, <<n, TRUE>>>>
  <2>1. t \in TrainType /\ t.m_ppath = n /\ t.place = <<n, TRUE>>
    BY <1>1, <1>6, <1>7, <1>9
  <2>2. \A end \in Ends : <<TrackOf(end), FALSE>> # <<n, TRUE>>
    BY Places
  <2> QED
    BY <1>1, <1>2, <1>5, <2>1, <2>2
<1>10. CASE x = <<NoTrack, <<n, FALSE>>>>
  <2>1. t \in TrainType /\ t.m_ppath = n /\ t.place = <<n, FALSE>>
    BY <1>1, <1>6, <1>7, <1>10
  <2>2. \A end \in Ends : <<TrackOf(end), FALSE>> = <<n, FALSE>> => TrackOf(end) = n
    BY Places
  <2> QED
    BY <1>1, <1>2, <1>5, <2>1, <2>2
<1>11. ASSUME NEW m \in {g, back}, ValidPath(s, m)
       PROVE  m \in PathTracks /\ \A end \in Ends : TrackOf(end) = m => s.p.rests /\ s.p.to = end
  BY <1>1, <1>2, <1>11 DEF ValidPath
<1>12. CASE ValidPath(s, g) /\ x = <<NoTrack, <<g, FALSE>>>>
  <2>1. t \in TrainType /\ t.m_ppath = n /\ t.place = <<g, FALSE>> /\ g \in PathTracks
    BY <1>1, <1>6, <1>7, <1>11, <1>12
  <2>2. \A end \in Ends : <<TrackOf(end), FALSE>> = <<g, FALSE>> => TrackOf(end) = g
    BY Places
  <2> QED
    BY SMTT(20), ZenonT(40), <1>1, <1>2, <1>5, <1>11, <1>12, <2>1, <2>2 DEF g
<1>13. ASSUME NEW m \in {g, back}, ValidPath(s, m), NEW b \in BOOLEAN, x = <<m, <<m, b>>>>
       PROVE  t \in TrainType /\ NearItsTrack(t) /\ OnThePlat(t, s.p) /\ t.m_ppath # NoTrack
  <2>1. t \in TrainType /\ t.m_ppath = m /\ t.place = <<m, b>> /\ m \in PathTracks
    BY <1>6, <1>7, <1>11, <1>13
  <2>2. \A end \in Ends : <<TrackOf(end), FALSE>> = <<m, b>> => TrackOf(end) = m
    BY Places
  <2>3. <<m, b>> \in {<<m, FALSE>>, <<m, TRUE>>, <<m_pnext[m], FALSE>>}
    OBVIOUS
  <2> QED
    BY SMTT(20), ZenonT(40), <1>5, <1>11, <1>13, <2>1, <2>2, <2>3
<1> QED
  BY <1>3, <1>8, <1>9, <1>10, <1>12, <1>13

\* A train whose fields other than its track and place change is as good.
LEMMA TrainRunsGood ==
    ASSUME NEW s \in GoodTracks, NEW t \in TrainType,
           t.m_ppath = s.t.m_ppath, t.place = s.t.place
    PROVE  [s EXCEPT !.t = t] \in GoodTracks
  BY DEF GoodTracks, TracksState, NearItsTrack, OnThePlat, Carried

LEMMA Speeds == {-1, 0, 1} \subseteq -1..1
  OBVIOUS

LEMMA TrainNextGood ==
    ASSUME ~LongExit, NEW s \in GoodTracks, NEW r \in TrainNext(s)
    PROVE  r \in GoodTracks
<1>1. CASE r = s
  BY <1>1
<1>2. CASE r \in WaitForPlayer(s)
  <2>1. s.t \in TrainType /\ r = [s EXCEPT !.t = [s.t EXCEPT !.due = TRUE]]
    BY <1>2 DEF WaitForPlayer, GoodTracks, TracksState
  <2>2. [s.t EXCEPT !.due = TRUE] \in TrainType
    BY <2>1 DEF TrainType
  <2> QED
    BY <2>1, <2>2, TrainRunsGood DEF TrainType
<1>3. CASE r # s /\ r \notin WaitForPlayer(s)
  <2>1. s.t.m_ppath # NoTrack
    BY <1>3 DEF TrainNext
  <2> DEFINE on(x) == [s.t EXCEPT !.m_ppath = x[1], !.place = x[2], !.think = "Next", !.due = TRUE]
             stop(x) == [s.t EXCEPT !.place = x[2], !.m_oldSpeed = s.t.speed, !.speed = 0]
             rolls(x) == [stop(x) EXCEPT !.think = "DeadEnd", !.due = TRUE]
  <2>2. PICK x \in LookAhead(s) :
           r \in IF x[1] # NoTrack THEN {[s EXCEPT !.t = on(x)]}
                 ELSE DeadEnd([s EXCEPT !.t = stop(x)]) \cup {[s EXCEPT !.t = rolls(x)]}
    BY <1>3 DEF TrainNext, PassTrack, StopAtDeadEnd
  <2>3. s.t \in TrainType /\ s.p \in PlatType /\ s.d \in SUBSET PathTracks
    BY DEF GoodTracks, TracksState
  <2> DEFINE u == [s.t EXCEPT !.m_ppath = IF x[1] = NoTrack THEN s.t.m_ppath ELSE x[1],
                              !.place = x[2]]
  <2>4. u \in TrainType /\ NearItsTrack(u) /\ OnThePlat(u, s.p) /\ u.m_ppath # NoTrack
    <3>1. u = [s.t EXCEPT !.m_ppath = IF x[1] = NoTrack THEN s.t.m_ppath ELSE x[1],
                          !.place = x[2]]
      OBVIOUS
    <3>2. s.t.m_ppath # NoTrack
      BY <2>1
    <3> HIDE DEF u
    <3> QED
      BY <2>2, <3>1, <3>2, AheadGood
  <2>5. x[2] \in PathTracks \X BOOLEAN /\ u.place = x[2]
        /\ u.m_ppath = (IF x[1] = NoTrack THEN s.t.m_ppath ELSE x[1])
    <3>1. u.place = x[2] /\ u.m_ppath = (IF x[1] = NoTrack THEN s.t.m_ppath ELSE x[1])
      BY <2>3 DEF TrainType
    <3> HIDE DEF u
    <3> QED
      BY <2>4, <3>1 DEF TrainType
  <2>6. ASSUME NEW t \in TrainType, t.m_ppath = u.m_ppath, t.place = u.place
        PROVE  [s EXCEPT !.t = t] \in GoodTracks
    <3> HIDE DEF u
    <3> QED
      BY <2>3, <2>4, <2>6, <2>1
         DEF GoodTracks, TracksState, NearItsTrack, OnThePlat, Carried
  <2>7. CASE x[1] # NoTrack
    <3>1. on(x) \in TrainType /\ on(x).m_ppath = u.m_ppath /\ on(x).place = u.place
      BY <2>3, <2>4, <2>7 DEF TrainType
    <3> HIDE DEF on, u
    <3> QED
      BY <2>2, <2>6, <2>7, <3>1
  <2>8. CASE x[1] = NoTrack
    <3> HIDE DEF u
    <3>1. stop(x) \in TrainType /\ stop(x).m_ppath = u.m_ppath /\ stop(x).place = u.place
      BY <2>3, <2>5, <2>8, Speeds DEF TrainType
    <3>2. rolls(x) \in TrainType /\ rolls(x).m_ppath = u.m_ppath /\ rolls(x).place = u.place
      <4> HIDE DEF stop
      <4> QED
        BY <3>1 DEF TrainType
    <3> HIDE DEF stop, rolls
    <3>3. [s EXCEPT !.t = stop(x)] \in GoodTracks /\ [s EXCEPT !.t = rolls(x)] \in GoodTracks
      BY <2>6, <3>1, <3>2
    <3> QED
      BY <2>2, <2>8, <3>3, DeadEndGood
  <2> QED
    BY <2>7, <2>8
<1> QED
  BY <1>1, <1>2, <1>3

LEMMA AtSpeedGood ==
    ASSUME NEW s \in GoodTracks, NEW v \in -1..1
    PROVE  AtSpeed(s, v) \in GoodTracks
<1>1. [s.t EXCEPT !.speed = v] \in TrainType
  BY DEF GoodTracks, TracksState, TrainType
<1> QED
  BY <1>1, TrainRunsGood DEF AtSpeed, GoodTracks, TracksState, TrainType

LEMMA TrainUsedGood ==
    ASSUME ~LongExit, NEW s \in GoodTracks, NEW r \in TrainUsed(s)
    PROVE  r \in GoodTracks
<1>1. CASE s.t.speed = 0
  BY <1>1, AtSpeedGood, TrainNextGood DEF TrainUsed
<1>2. CASE s.t.speed # 0
  <2> DEFINE t == [s.t EXCEPT !.speed = 0, !.think = "none"]
  <2>1. s.t \in TrainType
    BY DEF GoodTracks, TracksState
  <2>2. t \in TrainType /\ t.m_ppath = s.t.m_ppath /\ t.place = s.t.place
    BY <2>1, Speeds DEF TrainType
  <2>3. r = [s EXCEPT !.t = t]
    BY <1>2 DEF TrainUsed
  <2> HIDE DEF t
  <2> QED
    BY <2>2, <2>3, TrainRunsGood
<1> QED
  BY <1>1, <1>2

LEMMA TrainSetGood ==
    ASSUME ~LongExit, NEW s \in GoodTracks, NEW gear \in {-1, 1}, NEW r \in TrainSet(s, gear)
    PROVE  r \in GoodTracks
<1>1. PICK v \in (IF s.t.speed = -gear THEN {-gear, 0} ELSE {gear}) : r \in TrainNext(AtSpeed(s, v))
  BY DEF TrainSet
<1>2. v \in -1..1
  BY <1>1
<1> QED
  BY <1>1, <1>2, AtSpeedGood, TrainNextGood

LEMMA TracksBecomeGood ==
    ASSUME NEW s \in GoodTracks, TracksBecome(s)
    PROVE  TracksIInv'
<1>1. TracksNow' = s
  BY DEF TracksNow, TracksBecome, GoodTracks, TracksState
<1> QED
  BY <1>1 DEF TracksIInv, GoodTracks, TracksState, TrainType, PlatType,
              NearItsTrack, OnThePlat, Carried, PlatDisables

LEMMA TracksInitIInv == TracksInit => TracksIInv
<1> SUFFICES ASSUME TracksInit PROVE TracksIInv
  OBVIOUS
<1>1. /\ train.m_ppath = FirstTrack /\ train.place = <<FirstTrack, FALSE>>
      /\ train \in TrainType
  BY TracksAssumption, Speeds DEF TracksInit, TrainType
<1>2. PICK e \in Ends :
         /\ plat = [to |-> e, rests |-> TRUE, pos |-> e, m_code |-> "SAFE"]
         /\ pathDisabled = {TrackTop, TrackBottom} \ {TrackOf(e)}
  BY DEF TracksInit
<1>3. plat \in PlatType /\ (plat.rests => plat.pos = plat.to)
  BY <1>2 DEF PlatType
<1>4. pathDisabled \in SUBSET PathTracks /\ PlatDisables(plat, pathDisabled)
  BY <1>2, TracksAssumption DEF PlatDisables, TrackOf, Ends
<1>5. NearItsTrack(train) /\ Carried(train, plat)
  BY <1>1, <1>2 DEF NearItsTrack, Carried
<1>6. OnThePlat(train, plat)
  <2>1. \A end \in Ends : TrackOf(end) # FirstTrack /\ <<TrackOf(end), FALSE>> # <<FirstTrack, FALSE>>
    BY TrackFacts, Places
  <2> QED
    BY <1>1, <2>1 DEF OnThePlat
<1> QED
  BY <1>1, <1>3, <1>4, <1>5, <1>6 DEF TracksIInv, GoodTracks, TracksState, TracksNow

LEMMA TrainThinkStep ==
    ASSUME ~LongExit, TracksIInv, TrainThink
    PROVE  TracksIInv'
<1> DEFINE s == [TracksNow EXCEPT !.t = [train EXCEPT !.due = FALSE]]
<1>1. PICK r \in (IF train.think = "Next" THEN TrainNext(s) ELSE DeadEnd(s)) : TracksBecome(r)
  BY DEF TrainThink
<1>2. train \in TrainType /\ TracksNow \in GoodTracks /\ TracksNow.t = train
  BY DEF TracksIInv, GoodTracks, TracksState, TracksNow
<1>3. /\ [train EXCEPT !.due = FALSE] \in TrainType
      /\ [train EXCEPT !.due = FALSE].m_ppath = train.m_ppath
      /\ [train EXCEPT !.due = FALSE].place = train.place
  BY <1>2 DEF TrainType
<1>4. s \in GoodTracks
  BY <1>2, <1>3, TrainRunsGood
<1> HIDE DEF s
<1> QED
  BY <1>1, <1>4, TrainNextGood, DeadEndGood, TracksBecomeGood

\* The plat arrives, and the train that it carries has a track again.
LEMMA PlatMovesStep ==
    ASSUME TracksIInv, PlatMoves
    PROVE  TracksIInv'
<1> DEFINE s == TracksNow
           at(place) == [s EXCEPT !.p = [plat EXCEPT !.pos = place]]
<1>1. /\ s \in GoodTracks /\ s \in TracksState /\ s.t = train /\ s.p = plat /\ s.d = pathDisabled
      /\ plat \in PlatType /\ train \in TrainType /\ ~plat.rests /\ plat.to \in Ends
  BY DEF TracksIInv, GoodTracks, TracksState, TracksNow, PlatType, PlatMoves
<1>2. NearItsTrack(train) /\ OnThePlat(train, plat) /\ Carried(train, plat)
      /\ PlatDisables(plat, pathDisabled)
  BY <1>1 DEF GoodTracks
<1>3. Hit(s, plat.to) \in GoodTracks
  <2> HIDE DEF s
  <2>1. PICK t \in TrainType, p \in PlatType, d \in SUBSET PathTracks :
           /\ Hit(s, plat.to) = [t |-> t, p |-> p, d |-> d]
           /\ p = [plat EXCEPT !.rests = TRUE, !.pos = plat.to]
           /\ PlatDisables(p, d)
           /\ plat.m_code = "FOLLOWING" =>
                 t.m_ppath = TrackOf(plat.to) /\ t.place = <<TrackOf(plat.to), FALSE>>
           /\ plat.m_code # "FOLLOWING" => t = train
    BY SMTT(20), ZenonT(40), <1>1, HitGives
  <2>2. p.rests /\ p.pos = p.to /\ p.to = plat.to
    BY <1>1, <2>1 DEF PlatType
  <2>3. NearItsTrack(t) /\ Carried(t, p)
    BY <1>2, <2>1, <2>2 DEF NearItsTrack, Carried
  <2>4. OnThePlat(t, p)
    <3>1. CASE plat.m_code = "FOLLOWING"
      <4>1. \A end \in Ends : TrackOf(end) = TrackOf(plat.to) => end = plat.to
        BY <1>1, TrackFacts DEF Ends
      <4>2. \A end \in Ends : <<TrackOf(end), FALSE>> = <<TrackOf(plat.to), FALSE>>
                                => TrackOf(end) = TrackOf(plat.to)
        BY Places
      <4> QED
        BY <2>1, <2>2, <3>1, <4>1, <4>2 DEF OnThePlat
    <3>2. CASE plat.m_code # "FOLLOWING"
      BY <1>1, <1>2, <2>1, <2>2, <3>2 DEF OnThePlat
    <3> QED
      BY <3>1, <3>2
  <2>5. [t |-> t, p |-> p, d |-> d] \in GoodTracks
    BY <2>1, <2>2, <2>3, <2>4, Zenon DEF GoodTracks, TracksState
  <2> QED
    BY <2>1, <2>5
<1>4. ASSUME NEW place \in Ends \cup {"between"} PROVE at(place) \in GoodTracks
  <2> DEFINE p == [plat EXCEPT !.pos = place]
  <2>1. p \in PlatType /\ ~p.rests /\ p.m_code = plat.m_code
    BY <1>1 DEF PlatType
  <2>2. at(place) = [t |-> train, p |-> p, d |-> pathDisabled]
    BY DEF TracksNow
  <2>3. pathDisabled \in SUBSET PathTracks
    BY <1>1 DEF TracksState
  <2> HIDE DEF p, at
  <2>4. NearItsTrack(train) /\ OnThePlat(train, p) /\ Carried(train, p) /\ PlatDisables(p, pathDisabled)
    BY <1>1, <1>2, <2>1 DEF OnThePlat, Carried, PlatDisables
  <2> QED
    BY <1>1, <2>1, <2>2, <2>3, <2>4 DEF GoodTracks, TracksState
<1>5. \/ TracksBecome(Hit(s, plat.to)) \/ TracksBecome(at(plat.to)) \/ TracksBecome(at("between"))
  BY DEF PlatMoves
<1> HIDE DEF s, at
<1> QED
  BY <1>1, <1>3, <1>4, <1>5, TracksBecomeGood

LEMMA BlockPlatStep ==
    ASSUME TracksIInv, BlockPlat
    PROVE  TracksIInv'
<1>1. /\ TracksNow \in GoodTracks /\ TracksNow \in TracksState /\ ~TracksNow.p.rests
      /\ plat.to \in Ends
  BY DEF TracksIInv, GoodTracks, TracksState, TracksNow, PlatType, BlockPlat
<1>2. NearItsTrack(TracksNow.t) /\ Away(TracksNow.t)
  BY <1>1 DEF GoodTracks, OnThePlat, Away
<1>3. Go(TracksNow, Other(plat.to)) \in GoodTracks
  BY <1>1, <1>2, TrackFacts, PlatGoGood
<1> QED
  BY <1>3, TracksBecomeGood DEF BlockPlat

LEMMA UsePathStep ==
    ASSUME TracksIInv, NEW n \in Switched, UsePath(n)
    PROVE  TracksIInv'
<1>1. pathDisabled' \subseteq PathTracks
  BY TracksAssumption DEF UsePath, TracksIInv, GoodTracks, TracksState, TracksNow
<1>2. \A end \in Ends : TrackOf(end) \notin pathDisabled' => TrackOf(end) \notin pathDisabled
  BY TrackFacts DEF UsePath
<1>3. PICK d : d = pathDisabled'
  OBVIOUS
<1> DEFINE s == [t |-> train, p |-> plat, d |-> d]
<1>4. TracksBecome(s)
  BY <1>3 DEF TracksBecome, UsePath
<1>5. s \in GoodTracks
  BY <1>1, <1>2, <1>3 DEF TracksIInv, GoodTracks, TracksState, TracksNow, PlatDisables
<1> HIDE DEF s
<1> QED
  BY <1>4, <1>5, TracksBecomeGood

LEMMA TracksNextIInv ==
    ASSUME ~LongExit
    PROVE  TracksIInv /\ [TracksNext]_trackVars => TracksIInv'
<1> SUFFICES ASSUME TracksIInv, [TracksNext]_trackVars PROVE TracksIInv'
  OBVIOUS
<1>1. CASE UsePlat
  BY <1>1, PlatUsedGood, TracksBecomeGood DEF UsePlat, TracksIInv
<1>2. CASE UseTrain
  BY <1>2, TrainUsedGood, TracksBecomeGood DEF UseTrain, TracksIInv
<1>3. ASSUME NEW gear \in {-1, 1}, DriveTrain(gear) PROVE TracksIInv'
  BY <1>3, TrainSetGood, TracksBecomeGood DEF DriveTrain, TracksIInv
<1>4. CASE UNCHANGED trackVars
  BY <1>4 DEF trackVars, TracksIInv, TracksNow, GoodTracks, TracksState, TrainType, PlatType,
              NearItsTrack, OnThePlat, Carried, PlatDisables
<1> QED
  BY <1>1, <1>2, <1>3, <1>4, TrainThinkStep, PlatMovesStep, BlockPlatStep, UsePathStep
     DEF TracksNext

LEMMA TracksSpecIInv ==
    ASSUME ~LongExit
    PROVE  TracksSpec => []TracksIInv
  BY TracksInitIInv, TracksNextIInv, PTL DEF TracksSpec

\* The train, the trackchange and the tracks have the fields of their code, and
\* a trackchange that rests is at the end it was going to
\* (CFuncTrackTrain, CFuncTrackChange).
THEOREM TracksTypes ==
    ASSUME ~LongExit
    PROVE  TracksSpec => []TracksTypeOK
<1>1. TracksIInv => TracksTypeOK
  BY DEF TracksIInv, GoodTracks, TracksState, TrainType, PlatType, TracksNow, TracksTypeOK
<1> QED
  BY TracksSpecIInv, <1>1, PTL

\* Whoever drives, stops, fires and blocks, a train that has its track is not
\* where the plat has left, and one that is carried has no track to drive away
\* on (CFuncTrackChange::EvaluateTrain, GoUp, GoDown and UpdateAutoTargets
\* against CPathTrack::LookAhead), for any lines, as long as the way behind the
\* plat is short.
THEOREM TrainsKeepOnThePlat ==
    ASSUME ~LongExit
    PROVE  TracksSpec => []TrainsKeepToThePlat
<1>1. TracksIInv => TrainsKeepToThePlat
  BY DEF TracksIInv, GoodTracks, OnThePlat, Carried, TracksNow, TrainsKeepToThePlat
<1> QED
  BY TracksSpecIInv, <1>1, PTL

-----------------------------------------------------------------------------
(* Scripts and their monsters *)

CineType == [gone : BOOLEAN, target : Actors \cup {NoActor},
             think : {"none", "CineThink", "SUB_Remove"}, m_iDelay : Int,
             start : {"due", "soon", "never"}, interruptable : BOOLEAN]
MonsterType == [gone : BOOLEAN, state : {"idle", "alert", "script", "dead"},
                ideal : {"idle", "alert", "script", "dead"}, cine : Scripts \cup {NoScript},
                scriptState : {"none", "wait", "walk", "playing"},
                task : ScriptTasks \cup {"none", "other", "fail", "ambush", "die"},
                failed : BOOLEAN, hurt : BOOLEAN, well : BOOLEAN, killed : BOOLEAN,
                deadflag : {"no", "dying", "dead"}]

\* What holds of each monster by itself.
GoodMonster ==
    {m \in MonsterType :
        /\ m.state = "dead" => m.ideal = "dead" /\ m.deadflag # "no" /\ m.task = "die"
        /\ m.ideal = "script" /\ ~m.gone => m.cine # NoScript}
ScriptedState == [script : [Scripts -> CineType], actor : [Actors -> GoodMonster]]

\* The two sides of a script and its monster.  A script that has one does not
\* look for another.
Linked(s) ==
    /\ \A a \in Actors : ~s.actor[a].gone /\ s.actor[a].cine # NoScript =>
          ~s.script[s.actor[a].cine].gone /\ s.script[s.actor[a].cine].target = a
    /\ \A c \in Scripts : s.script[c].target # NoActor =>
          /\ s.actor[s.script[c].target].cine = c /\ ~s.actor[s.script[c].target].gone
          /\ s.script[c].think # "CineThink"
LinkedStates == {s \in ScriptedState : Linked(s)}

\* A script that is about to go has let its monster go.
LetGo(s) == \A c \in Scripts : s.script[c].think = "SUB_Remove" => s.script[c].target = NoActor
GoodStates == {s \in LinkedStates : LetGo(s)}

\* Who can be there: the scripts of a scene and the monsters they look for.
Cast ==
    /\ Scripts \subseteq DOMAIN ScriptConf /\ NoScript \notin Scripts /\ NoActor \notin Actors
    /\ \A c \in Scripts : Range(ScriptConf[c].entity) \subseteq Actors

ScriptedIInv ==
    /\ Cast /\ Now \in GoodStates
    /\ \A c \in Scripts : script[c].m_iDelay \in -MaxDelayStart .. MaxDelayStart

LEMMA ActorIsLinked ==
    ASSUME NEW s \in LinkedStates, NEW a \in Actors, NEW m \in GoodMonster,
           m.gone = s.actor[a].gone, m.cine = s.actor[a].cine
    PROVE  /\ ActorIs(s, a, m) \in LinkedStates
           /\ ActorIs(s, a, m).actor[a] = m /\ ActorIs(s, a, m).script = s.script
<1> DEFINE r == ActorIs(s, a, m)
<1>1. r \in ScriptedState /\ r.script = s.script /\ r.actor = [s.actor EXCEPT ![a] = m]
  BY DEF ActorIs, LinkedStates, ScriptedState
<1>2. s.actor \in [Actors -> GoodMonster] /\ s.script \in [Scripts -> CineType]
  BY DEF LinkedStates, ScriptedState
<1>3. \A b \in Actors : r.actor[b].gone = s.actor[b].gone /\ r.actor[b].cine = s.actor[b].cine
  BY <1>1, <1>2
<1>4. \A c \in Scripts : s.script[c].target \in Actors \cup {NoActor}
  BY <1>2 DEF CineType
<1> HIDE DEF r
<1>5. Linked(r)
  BY SMTT(20), ZenonT(40), <1>1, <1>3, <1>4 DEF Linked, LinkedStates
<1> QED
  BY <1>1, <1>2, <1>5 DEF LinkedStates, r

LEMMA ActorIsGood ==
    ASSUME NEW s \in GoodStates, NEW a \in Actors, NEW m \in GoodMonster,
           m.gone = s.actor[a].gone, m.cine = s.actor[a].cine
    PROVE  /\ ActorIs(s, a, m) \in GoodStates
           /\ ActorIs(s, a, m).actor[a] = m /\ ActorIs(s, a, m).script = s.script
  BY ActorIsLinked DEF GoodStates, LetGo

\* Scripts of which neither the monster changes nor whether they are there.
LEMMA ScriptsRunOn ==
    ASSUME NEW s \in LinkedStates, NEW scripts \in [Scripts -> CineType],
           \A c \in Scripts : /\ scripts[c].target = s.script[c].target
                              /\ scripts[c].gone = s.script[c].gone
                              /\ scripts[c].think = "CineThink" => scripts[c].target = NoActor
                                                                  \/ s.script[c].think = "CineThink"
    PROVE  /\ [s EXCEPT !.script = scripts] \in LinkedStates
           /\ [s EXCEPT !.script = scripts].script = scripts
           /\ [s EXCEPT !.script = scripts].actor = s.actor
<1> DEFINE r == [s EXCEPT !.script = scripts]
<1>1. r \in ScriptedState /\ r.script = scripts /\ r.actor = s.actor
  BY DEF LinkedStates, ScriptedState
<1>2. \A a \in Actors : s.actor[a].cine \in Scripts \cup {NoScript}
  BY DEF LinkedStates, ScriptedState, GoodMonster, MonsterType
<1> HIDE DEF r
<1>3. Linked(s)
  BY DEF LinkedStates
<1>4. ASSUME NEW a \in Actors, ~s.actor[a].gone, s.actor[a].cine # NoScript
      PROVE  ~scripts[s.actor[a].cine].gone /\ scripts[s.actor[a].cine].target = a
  <2>1. s.actor[a].cine \in Scripts
    BY <1>2, <1>4
  <2>2. ~s.script[s.actor[a].cine].gone /\ s.script[s.actor[a].cine].target = a
    BY <1>3, <1>4 DEF Linked
  <2> QED
    BY <2>1, <2>2
<1>5. ASSUME NEW c \in Scripts, scripts[c].target # NoActor
      PROVE  /\ s.actor[scripts[c].target].cine = c /\ ~s.actor[scripts[c].target].gone
             /\ scripts[c].think # "CineThink"
  BY <1>3, <1>5 DEF Linked
<1>6. Linked(r)
  BY <1>1, <1>4, <1>5 DEF Linked
<1> QED
  BY <1>1, <1>6 DEF LinkedStates, r

LEMMA ScriptIsLinked ==
    ASSUME NEW s \in LinkedStates, NEW c \in Scripts, NEW r \in CineType,
           r.target = s.script[c].target, r.gone = s.script[c].gone,
           r.think = "CineThink" => r.target = NoActor
    PROVE  /\ ScriptIs(s, c, r) \in LinkedStates
           /\ ScriptIs(s, c, r).script = [s.script EXCEPT ![c] = r]
           /\ ScriptIs(s, c, r).actor = s.actor
<1> DEFINE scripts == [s.script EXCEPT ![c] = r]
<1>1. s.script \in [Scripts -> CineType]
  BY DEF LinkedStates, ScriptedState
<1>2. scripts \in [Scripts -> CineType] /\ scripts[c] = r
      /\ \A d \in Scripts : d # c => scripts[d] = s.script[d]
  BY <1>1
<1>3. ScriptIs(s, c, r) = [s EXCEPT !.script = scripts]
  BY DEF ScriptIs
<1> HIDE DEF scripts
<1>4. \A d \in Scripts : /\ scripts[d].target = s.script[d].target
                         /\ scripts[d].gone = s.script[d].gone
                         /\ scripts[d].think = "CineThink" => scripts[d].target = NoActor
                                                             \/ s.script[d].think = "CineThink"
  BY <1>2, Zenon
<1>5. [s EXCEPT !.script = scripts] \in LinkedStates /\ [s EXCEPT !.script = scripts].script = scripts
      /\ [s EXCEPT !.script = scripts].actor = s.actor
  BY <1>2, <1>4, ScriptsRunOn
<1> QED
  BY <1>3, <1>5 DEF scripts

LEMMA DelayStartGood ==
    ASSUME NEW s \in GoodStates, NEW c \in Scripts, NEW more \in BOOLEAN
    PROVE  DelayStart(s, c, more) \in GoodStates /\ DelayStart(s, c, more).actor = s.actor
<1> DEFINE scripts == [d \in Scripts |-> IF d \in Group(c) /\ ~IsAI(d) THEN Delayed(s.script[d], more)
                                        ELSE s.script[d]]
<1>1. s \in LinkedStates /\ s.script \in [Scripts -> CineType]
  BY DEF GoodStates, LinkedStates, ScriptedState
<1>2. ASSUME NEW r \in CineType
      PROVE  /\ Delayed(r, more) \in CineType /\ Delayed(r, more).target = r.target
             /\ Delayed(r, more).gone = r.gone /\ Delayed(r, more).think = r.think
  <2> DEFINE n == IF more THEN r.m_iDelay + 1 ELSE r.m_iDelay - 1
             st == IF ~more /\ r.m_iDelay <= 1 THEN "soon" ELSE r.start
  <2>1. n \in Int /\ st \in {"due", "soon", "never"}
    BY DEF CineType
  <2>2. Delayed(r, more) = [r EXCEPT !.m_iDelay = n, !.start = st]
    BY DEF Delayed
  <2> HIDE DEF n, st
  <2> QED
    BY <2>1, <2>2 DEF CineType
<1>3. ASSUME NEW d \in Scripts
      PROVE  /\ scripts[d] \in CineType /\ scripts[d].target = s.script[d].target
             /\ scripts[d].gone = s.script[d].gone /\ scripts[d].think = s.script[d].think
  BY <1>1, <1>2
<1>4. scripts \in [Scripts -> CineType]
  BY <1>3
<1>5. DelayStart(s, c, more) = [s EXCEPT !.script = scripts]
  BY DEF DelayStart
<1> HIDE DEF scripts
<1>6. [s EXCEPT !.script = scripts] \in LinkedStates /\ [s EXCEPT !.script = scripts].script = scripts
      /\ [s EXCEPT !.script = scripts].actor = s.actor
  BY <1>1, <1>3, <1>4, ScriptsRunOn
<1>7. LetGo([s EXCEPT !.script = scripts])
  BY <1>3, <1>6 DEF GoodStates, LetGo
<1> QED
  BY <1>5, <1>6, <1>7 DEF GoodStates

\* CCineMonster::Use asks only a script without a monster to look for one.
LEMMA UseScriptsGood ==
    ASSUME NEW s \in GoodStates, NEW name
    PROVE  UseScripts(s, name) \in GoodStates /\ UseScripts(s, name).actor = s.actor
<1> DEFINE used(c) ==
        IF name = "none" \/ Name(c) # name \/ s.script[c].gone THEN s.script[c]
        ELSE IF s.script[c].target = NoActor THEN [s.script[c] EXCEPT !.think = "CineThink"]
        ELSE IF s.actor[s.script[c].target].scriptState = "playing" THEN s.script[c]
        ELSE [s.script[c] EXCEPT !.start = "soon"]
           scripts == [c \in Scripts |-> used(c)]
<1>1. s \in LinkedStates /\ s.script \in [Scripts -> CineType] /\ LetGo(s)
  BY DEF GoodStates, LinkedStates, ScriptedState
<1>2. ASSUME NEW c \in Scripts
      PROVE  /\ used(c) \in CineType /\ used(c).target = s.script[c].target
             /\ used(c).gone = s.script[c].gone
             /\ used(c).think = s.script[c].think
                   \/ (used(c).think = "CineThink" /\ s.script[c].target = NoActor)
  <2>1. s.script[c] \in CineType
    BY <1>1
  <2>2. ASSUME NEW r \in CineType
        PROVE  /\ [r EXCEPT !.think = "CineThink"] \in CineType
               /\ [r EXCEPT !.think = "CineThink"].target = r.target
               /\ [r EXCEPT !.think = "CineThink"].gone = r.gone
               /\ [r EXCEPT !.think = "CineThink"].think = "CineThink"
               /\ [r EXCEPT !.start = "soon"] \in CineType
               /\ [r EXCEPT !.start = "soon"].target = r.target
               /\ [r EXCEPT !.start = "soon"].gone = r.gone
               /\ [r EXCEPT !.start = "soon"].think = r.think
    BY DEF CineType
  <2> DEFINE q == s.script[c]
             busy == s.actor[q.target].scriptState = "playing"
  <2>3. used(c) = IF name = "none" \/ Name(c) # name \/ q.gone THEN q
                  ELSE IF q.target = NoActor THEN [q EXCEPT !.think = "CineThink"]
                  ELSE IF busy THEN q ELSE [q EXCEPT !.start = "soon"]
    OBVIOUS
  <2> HIDE DEF used, q, busy
  <2>4. q \in CineType
    BY <2>1 DEF q
  <2>5. /\ used(c) \in CineType /\ used(c).target = q.target /\ used(c).gone = q.gone
        /\ used(c).think = q.think \/ (used(c).think = "CineThink" /\ q.target = NoActor)
    <3>1. used(c) = q \/ (used(c) = [q EXCEPT !.think = "CineThink"] /\ q.target = NoActor)
                     \/ used(c) = [q EXCEPT !.start = "soon"]
      BY <2>3, Zenon
    <3>2. CASE used(c) = q
      BY <2>4, <3>2
    <3>3. CASE used(c) = [q EXCEPT !.think = "CineThink"] /\ q.target = NoActor
      BY <2>2, <2>4, <3>3, Zenon
    <3>4. CASE used(c) = [q EXCEPT !.start = "soon"]
      BY <2>2, <2>4, <3>4, Zenon
    <3> QED
      BY <3>1, <3>2, <3>3, <3>4
  <2> QED
    BY <2>5 DEF q
<1>3. UseScripts(s, name) = [s EXCEPT !.script = scripts]
  BY DEF UseScripts
<1>4. \A c \in Scripts : scripts[c] = used(c)
  OBVIOUS
<1> HIDE DEF used
<1>5. scripts \in [Scripts -> CineType]
  BY <1>2
<1> HIDE DEF scripts
<1>6. [s EXCEPT !.script = scripts] \in LinkedStates /\ [s EXCEPT !.script = scripts].script = scripts
      /\ [s EXCEPT !.script = scripts].actor = s.actor
  BY <1>1, <1>2, <1>4, <1>5, ScriptsRunOn
<1>7. LetGo([s EXCEPT !.script = scripts])
  BY <1>1, <1>2, <1>4, <1>6 DEF LetGo
<1> QED
  BY <1>3, <1>6, <1>7 DEF GoodStates

\* A monster that is let go forgets its script; if it is dying it is a corpse.
LEMMA CleanedGood ==
    ASSUME NEW m \in GoodMonster
    PROVE  m.state # "dead" =>
                 /\ Cleaned(m) \in GoodMonster /\ Cleaned(m).cine = NoScript
                 /\ Cleaned(m).gone = m.gone
                 /\ m.deadflag # "dying" => Cleaned(m).state = m.state
<1> DEFINE free == [m EXCEPT !.cine = NoScript, !.scriptState = "none"]
<1>1. free \in MonsterType /\ free.cine = NoScript /\ free.gone = m.gone
      /\ free.state = m.state /\ free.deadflag = m.deadflag
  BY DEF GoodMonster, MonsterType
<1>2. Cleaned(m) =
        IF m.deadflag = "dying"
        THEN [free EXCEPT !.well = FALSE, !.state = "dead", !.ideal = "dead",
                          !.deadflag = "dead", !.task = "die"]
        ELSE IF m.well THEN [free EXCEPT !.ideal = "idle"]
        ELSE [free EXCEPT !.ideal = "dead", !.hurt = TRUE]
  BY DEF Cleaned
<1> HIDE DEF free
<1>3. CASE m.deadflag = "dying"
  <2>1. Cleaned(m) = [free EXCEPT !.well = FALSE, !.state = "dead", !.ideal = "dead",
                                  !.deadflag = "dead", !.task = "die"]
    BY <1>2, <1>3
  <2>2. /\ Cleaned(m) \in MonsterType /\ Cleaned(m).cine = NoScript /\ Cleaned(m).gone = m.gone
        /\ Cleaned(m).state = "dead" /\ Cleaned(m).ideal = "dead" /\ Cleaned(m).deadflag = "dead"
        /\ Cleaned(m).task = "die"
    BY <1>1, <2>1 DEF MonsterType
  <2> QED
    BY <1>3, <2>2 DEF GoodMonster
<1>4. CASE m.deadflag # "dying" /\ m.state # "dead"
  <2>1. Cleaned(m) \in {[free EXCEPT !.ideal = "idle"], [free EXCEPT !.ideal = "dead", !.hurt = TRUE]}
    BY <1>2, <1>4
  <2>2. CASE Cleaned(m) = [free EXCEPT !.ideal = "idle"]
    BY <1>1, <1>4, <2>2 DEF GoodMonster, MonsterType
  <2>3. CASE Cleaned(m) = [free EXCEPT !.ideal = "dead", !.hurt = TRUE]
    BY <1>1, <1>4, <2>3 DEF GoodMonster, MonsterType
  <2> QED
    BY <2>1, <2>2, <2>3
<1> QED
  BY <1>3, <1>4

\* CineCleanup of monsters that are there and not dead.
LEMMA CineCleanupGood ==
    ASSUME NEW s \in LinkedStates, NEW A \in SUBSET Actors,
           \A a \in A : ~s.actor[a].gone /\ s.actor[a].state # "dead"
    PROVE  LET r == CineCleanup(s, A)
           IN  /\ r \in LinkedStates
               /\ \A a \in A : r.actor[a] = Cleaned(s.actor[a])
               /\ \A a \in Actors : r.actor[a].gone = s.actor[a].gone
               /\ \A a \in Actors \ A : r.actor[a] = s.actor[a]
               /\ \A c \in Scripts : /\ r.script[c].think = s.script[c].think
                                     /\ r.script[c].target \in {s.script[c].target, NoActor}
               /\ \A a \in A : s.actor[a].cine # NoScript =>
                     r.script[s.actor[a].cine].target = NoActor
<1> DEFINE r == CineCleanup(s, A)
           lost(c) == \E a \in A : s.actor[a].cine = c
<1>1. /\ s.script \in [Scripts -> CineType] /\ s.actor \in [Actors -> GoodMonster] /\ Linked(s)
      /\ \A a \in Actors : s.actor[a].cine \in Scripts \cup {NoScript}
      /\ \A c \in Scripts : s.script[c].target \in Actors \cup {NoActor}
  BY DEF LinkedStates, ScriptedState, GoodMonster, MonsterType, CineType
<1>2. /\ r.script = [c \in Scripts |-> IF lost(c) THEN [s.script[c] EXCEPT !.target = NoActor]
                                       ELSE s.script[c]]
      /\ r.actor = [a \in Actors |-> IF a \in A THEN Cleaned(s.actor[a]) ELSE s.actor[a]]
      /\ r = [script |-> r.script, actor |-> r.actor]
  BY DEF CineCleanup
<1> HIDE DEF r
<1>3. ASSUME NEW c \in Scripts
      PROVE  /\ r.script[c] \in CineType /\ r.script[c].gone = s.script[c].gone
             /\ r.script[c].think = s.script[c].think
             /\ lost(c) => r.script[c].target = NoActor
             /\ ~lost(c) => r.script[c].target = s.script[c].target
  <2>1. s.script[c] \in CineType
    BY <1>1
  <2>2. r.script[c] = IF lost(c) THEN [s.script[c] EXCEPT !.target = NoActor] ELSE s.script[c]
    BY <1>2
  <2> HIDE DEF lost
  <2> QED
    BY <2>1, <2>2 DEF CineType
<1>4. \A a \in A : r.actor[a] = Cleaned(s.actor[a])
  BY <1>2
<1>5. \A a \in Actors \ A : r.actor[a] = s.actor[a]
  BY <1>2
<1>6. ASSUME NEW a \in A
      PROVE  r.actor[a] \in GoodMonster /\ r.actor[a].gone = s.actor[a].gone
             /\ r.actor[a].cine = NoScript
  BY <1>1, <1>4, CleanedGood
<1>7. \A a \in Actors : r.actor[a] \in GoodMonster /\ r.actor[a].gone = s.actor[a].gone
  BY <1>1, <1>5, <1>6
<1>8. r \in ScriptedState
  <2>1. r.script \in [Scripts -> CineType] /\ r.actor \in [Actors -> GoodMonster]
    BY <1>2, <1>3, <1>7
  <2> QED
    BY <1>2, <2>1 DEF ScriptedState
<1>9. ASSUME NEW a \in Actors, ~r.actor[a].gone, r.actor[a].cine # NoScript
      PROVE  ~r.script[r.actor[a].cine].gone /\ r.script[r.actor[a].cine].target = a
  <2>1. a \notin A /\ r.actor[a] = s.actor[a]
    BY <1>5, <1>6, <1>9
  <2>2. /\ s.actor[a].cine \in Scripts /\ ~s.script[s.actor[a].cine].gone
        /\ s.script[s.actor[a].cine].target = a
    BY <1>1, <1>9, <2>1 DEF Linked
  <2>3. ~lost(s.actor[a].cine)
    BY <1>1, <1>9, <2>1, <2>2 DEF Linked
  <2> HIDE DEF lost
  <2> QED
    BY <1>3, <2>1, <2>2, <2>3
<1>10. ASSUME NEW c \in Scripts, r.script[c].target # NoActor
       PROVE  /\ r.actor[r.script[c].target].cine = c /\ ~r.actor[r.script[c].target].gone
              /\ r.script[c].think # "CineThink"
  <2>1. ~lost(c) /\ r.script[c].target = s.script[c].target /\ r.script[c].think = s.script[c].think
    <3> HIDE DEF lost
    <3> QED
      BY <1>3, <1>10
  <2>2. /\ s.actor[s.script[c].target].cine = c /\ ~s.actor[s.script[c].target].gone
        /\ s.script[c].think # "CineThink" /\ s.script[c].target \in Actors
    BY <1>1, <1>10, <2>1 DEF Linked
  <2>3. s.script[c].target \notin A
    BY <2>1, <2>2
  <2> QED
    BY <1>5, <2>1, <2>2, <2>3
<1>11. r \in LinkedStates
  BY <1>8, <1>9, <1>10 DEF LinkedStates, Linked
<1>12. \A c \in Scripts : /\ r.script[c].think = s.script[c].think
                         /\ r.script[c].target \in {s.script[c].target, NoActor}
  <2> HIDE DEF lost
  <2> QED
    BY <1>3
<1>13. \A a \in A : s.actor[a].cine # NoScript => r.script[s.actor[a].cine].target = NoActor
  BY <1>1, <1>3
<1> QED
  BY <1>4, <1>5, <1>7, <1>11, <1>12, <1>13 DEF r

\* CancelScript and ScriptEntityCancel let only those go that play.
LEMMA CancelScriptGood ==
    ASSUME Cast, NEW s \in GoodStates, NEW c \in Scripts
    PROVE  /\ CancelScript(s, c) \in GoodStates
           /\ \A a \in Actors :
                 /\ CancelScript(s, c).actor[a].gone = s.actor[a].gone
                 /\ s.actor[a].state # "dead" /\ s.actor[a].deadflag # "dying" =>
                       CancelScript(s, c).actor[a].state = s.actor[a].state
           /\ \A d \in Scripts :
                 CancelScript(s, c).script[d].target \in {s.script[d].target, NoActor}
<1> DEFINE playing == {a \in Actors : /\ \E d \in Group(c) : ~IsAI(d) /\ s.script[d].target = a
                                      /\ "script" \in {s.actor[a].state, s.actor[a].ideal}}
           r == CineCleanup(s, playing)
<1>1. s \in LinkedStates /\ LetGo(s) /\ Linked(s) /\ s.actor \in [Actors -> GoodMonster]
  BY DEF GoodStates, LinkedStates, ScriptedState
<1>2. Group(c) \subseteq Scripts
  BY DEF Group
<1>3. ASSUME NEW a \in playing PROVE ~s.actor[a].gone /\ s.actor[a].state # "dead"
  <2>1. PICK d \in Scripts : s.script[d].target = a
    BY <1>2, <1>3
  <2>2. a \in Actors /\ s.actor[a] \in GoodMonster /\ a # NoActor
    BY <1>1, <1>3 DEF Cast
  <2>3. ~s.actor[a].gone
    BY <1>1, <2>1, <2>2 DEF Linked
  <2>4. "script" \in {s.actor[a].state, s.actor[a].ideal}
    BY <1>3
  <2> QED
    BY <2>2, <2>3, <2>4 DEF GoodMonster
<1>4. playing \in SUBSET Actors
  OBVIOUS
<1>5. CancelScript(s, c) = r
  BY DEF CancelScript
<1> HIDE DEF playing
<1>6. /\ r \in LinkedStates
      /\ \A a \in playing : r.actor[a] = Cleaned(s.actor[a])
      /\ \A a \in Actors : r.actor[a].gone = s.actor[a].gone
      /\ \A a \in Actors \ playing : r.actor[a] = s.actor[a]
      /\ \A d \in Scripts : /\ r.script[d].think = s.script[d].think
                            /\ r.script[d].target \in {s.script[d].target, NoActor}
  BY <1>1, <1>3, <1>4, CineCleanupGood
<1> HIDE DEF r
<1>7. r \in GoodStates
  BY <1>1, <1>6 DEF GoodStates, LetGo
<1>8. ASSUME NEW a \in Actors, s.actor[a].state # "dead", s.actor[a].deadflag # "dying"
      PROVE  r.actor[a].state = s.actor[a].state
  BY <1>1, <1>6, <1>8, CleanedGood
<1> QED
  BY <1>5, <1>6, <1>7, <1>8

LEMMA ScriptScheduleGood ==
    ASSUME NEW s \in GoodStates, NEW a \in Actors, NEW c, s.actor[a].state # "dead"
    PROVE  /\ ScriptSchedule(s, a, c) \in GoodStates
           /\ ScriptSchedule(s, a, c).actor[a].gone = s.actor[a].gone
           /\ ScriptSchedule(s, a, c).actor[a].state = s.actor[a].state
<1> DEFINE task == IF Walks(c) THEN "walk" ELSE "wait"
           m == [s.actor[a] EXCEPT !.task = task, !.failed = FALSE, !.hurt = FALSE]
<1>1. task \in ScriptTasks
  BY DEF ScriptTasks
<1>2. s.actor[a] \in GoodMonster
  BY DEF GoodStates, LinkedStates, ScriptedState
<1>3. ScriptSchedule(s, a, c) = ActorIs(s, a, m)
  BY DEF ScriptSchedule
<1> HIDE DEF task
<1>4. /\ m \in GoodMonster /\ m.gone = s.actor[a].gone /\ m.cine = s.actor[a].cine
      /\ m.state = s.actor[a].state
  BY SMTT(20), ZenonT(40), <1>1, <1>2 DEF GoodMonster, MonsterType
<1> HIDE DEF m
<1> QED
  BY <1>3, <1>4, ActorIsGood

\* SequenceDone lets the monster go before anything fires.
LEMMA SequenceDoneGood ==
    ASSUME Cast, NEW s \in GoodStates, NEW a \in Actors, NEW c \in Scripts,
           s.actor[a].cine = c, ~s.actor[a].gone, s.actor[a].state # "dead"
    PROVE  SequenceDone(s, c, a) \in GoodStates /\ ~SequenceDone(s, c, a).actor[a].gone
<1> DEFINE ends == [s.script[c] EXCEPT !.think = "SUB_Remove"]
           over == IF ScriptConf[c].repeatable THEN s ELSE ScriptIs(s, c, ends)
           free == CineCleanup(over, {a})
           m == free.actor[a]
           other == [m EXCEPT !.task = "ambush", !.hurt = FALSE, !.failed = FALSE]
           none == [m EXCEPT !.task = "none"]
           fixed == IF m.state = "dead" THEN free
                    ELSE IF IsAI(c) /\ ScriptConf[c].ambush THEN ActorIs(free, a, other)
                    ELSE ActorIs(free, a, none)
<1>1. s \in LinkedStates /\ LetGo(s) /\ s.actor \in [Actors -> GoodMonster]
      /\ s.script \in [Scripts -> CineType]
  BY DEF GoodStates, LinkedStates, ScriptedState
<1>2. ends \in CineType /\ ends.target = s.script[c].target /\ ends.gone = s.script[c].gone
      /\ ends.think = "SUB_Remove"
  BY <1>1 DEF CineType
<1>3. /\ over \in LinkedStates /\ over.actor = s.actor
      /\ \A d \in Scripts \ {c} : over.script[d] = s.script[d]
  <2> HIDE DEF ends
  <2>1. /\ ScriptIs(s, c, ends) \in LinkedStates
        /\ ScriptIs(s, c, ends).script = [s.script EXCEPT ![c] = ends]
        /\ ScriptIs(s, c, ends).actor = s.actor
    BY <1>1, <1>2, ScriptIsLinked
  <2>2. \A d \in Scripts \ {c} : ScriptIs(s, c, ends).script[d] = s.script[d]
    BY <1>1, <2>1
  <2> QED
    BY <1>1, <2>1, <2>2
<1>4. SequenceDone(s, c, a) = UseScripts(fixed, ScriptConf[c].target)
  BY DEF SequenceDone
<1> HIDE DEF over
<1>5. /\ free \in LinkedStates /\ m.gone = s.actor[a].gone
      /\ \A d \in Scripts : /\ free.script[d].think = over.script[d].think
                            /\ free.script[d].target \in {over.script[d].target, NoActor}
      /\ free.script[c].target = NoActor
  <2>1. \A b \in {a} : ~over.actor[b].gone /\ over.actor[b].state # "dead"
    BY <1>3
  <2>2. c # NoScript
    BY DEF Cast
  <2> QED
    BY <1>3, <2>1, <2>2, CineCleanupGood
<1> HIDE DEF free
<1>6. free \in GoodStates
  <2>1. LetGo(free)
    BY <1>1, <1>3, <1>5 DEF LetGo
  <2> QED
    BY <1>5, <2>1 DEF GoodStates
<1>7. m \in GoodMonster
  BY <1>6 DEF GoodStates, LinkedStates, ScriptedState
<1> HIDE DEF m
<1>8. m.state # "dead" =>
         /\ other \in GoodMonster /\ other.gone = m.gone /\ other.cine = m.cine
         /\ none \in GoodMonster /\ none.gone = m.gone /\ none.cine = m.cine
  BY <1>7 DEF GoodMonster, MonsterType
<1> HIDE DEF other, none
<1>9. fixed \in GoodStates /\ ~fixed.actor[a].gone
  BY <1>5, <1>6, <1>8, ActorIsGood DEF m
<1> HIDE DEF fixed
<1> QED
  BY <1>4, <1>9, UseScriptsGood

\* PossessEntity of a monster without a script by a script without a monster.
Free(s, c, a) ==
    /\ s.script[c].target = NoActor /\ s.script[c].think = "none" /\ ~s.script[c].gone
    /\ s.actor[a].cine = NoScript /\ ~s.actor[a].gone /\ s.actor[a].deadflag = "no"
Possessed(s, c, a, taken) ==
    /\ PossessEntity(s, c, a) =
         IF IsAI(c) THEN IF s.actor[a].state = "script" THEN ScriptSchedule(taken, a, c) ELSE taken
         ELSE IF Walks(c) THEN DelayStart(taken, c, TRUE) ELSE taken
    /\ \A d \in Scripts : /\ taken.script[d].gone = s.script[d].gone
                          /\ taken.script[d].m_iDelay = s.script[d].m_iDelay
    /\ \A b \in Actors \ {a} : taken.actor[b] = s.actor[b]
    /\ LET m == s.actor[a]
           n == taken.actor[a]
       IN  /\ n.cine = c /\ n.ideal = "script" /\ n.gone = m.gone /\ n.state = m.state
           /\ n.scriptState = IF Walks(c) THEN "walk" ELSE "wait"
           /\ n.task = m.task /\ n.failed = m.failed /\ n.hurt = m.hurt
           /\ n.deadflag = m.deadflag /\ n.state # "dead"
LEMMA TakenGood ==
    ASSUME Cast, NEW s \in GoodStates, NEW c \in Scripts, NEW a \in Actors, Free(s, c, a)
    PROVE  \E taken \in GoodStates : Possessed(s, c, a, taken)
<1> DEFINE start == IF ScriptConf[c].moveTo = 4 THEN "never" ELSE s.script[c].start
           way == IF Walks(c) THEN "walk" ELSE "wait"
           r == [s.script[c] EXCEPT !.target = a, !.start = start]
           m == [s.actor[a] EXCEPT !.cine = c, !.ideal = "script", !.scriptState = way]
           taken == ActorIs(ScriptIs(s, c, r), a, m)
<1>0. /\ s.script[c].target = NoActor /\ s.script[c].think = "none" /\ ~s.script[c].gone
      /\ s.actor[a].cine = NoScript /\ ~s.actor[a].gone /\ s.actor[a].deadflag = "no"
  BY DEF Free
<1>1. /\ s.actor \in [Actors -> GoodMonster] /\ s.script \in [Scripts -> CineType]
      /\ Linked(s) /\ LetGo(s) /\ NoActor \notin Actors /\ NoScript \notin Scripts
      /\ s = [script |-> s.script, actor |-> s.actor]
  BY DEF GoodStates, LinkedStates, ScriptedState, Cast
<1>2. start \in {"due", "soon", "never"} /\ way \in {"walk", "wait"}
  BY <1>1 DEF CineType
<1>3. PossessEntity(s, c, a) =
         IF IsAI(c) THEN IF s.actor[a].state = "script" THEN ScriptSchedule(taken, a, c) ELSE taken
         ELSE IF Walks(c) THEN DelayStart(taken, c, TRUE) ELSE taken
  BY DEF PossessEntity
<1> HIDE DEF start, way
<1>4. /\ r \in CineType /\ r.target = a /\ r.think = "none" /\ ~r.gone
      /\ r.gone = s.script[c].gone /\ r.m_iDelay = s.script[c].m_iDelay
  BY <1>0, <1>1, <1>2 DEF CineType
<1>5. /\ m \in GoodMonster /\ m.cine = c /\ ~m.gone /\ m.state = s.actor[a].state
      /\ m.state # "dead" /\ m.ideal = "script" /\ m.scriptState = way
      /\ m.gone = s.actor[a].gone /\ m.task = s.actor[a].task
      /\ m.failed = s.actor[a].failed /\ m.hurt = s.actor[a].hurt
      /\ m.deadflag = s.actor[a].deadflag
  <2>1. /\ s.actor[a] \in MonsterType /\ s.actor[a].state # "dead"
        /\ c # NoScript
    BY <1>0, <1>1 DEF GoodMonster
  <2>2. /\ m \in MonsterType /\ m.cine = c /\ m.gone = s.actor[a].gone
        /\ m.state = s.actor[a].state /\ m.ideal = "script" /\ m.scriptState = way
        /\ m.task = s.actor[a].task /\ m.failed = s.actor[a].failed
        /\ m.hurt = s.actor[a].hurt /\ m.deadflag = s.actor[a].deadflag
    BY <1>2, <2>1 DEF MonsterType
  <2> HIDE DEF m
  <2> QED
    BY <1>0, <2>1, <2>2 DEF GoodMonster
<1> HIDE DEF r, m
<1>6. taken = [script |-> [s.script EXCEPT ![c] = r], actor |-> [s.actor EXCEPT ![a] = m]]
  <2>1. ScriptIs(s, c, r) = [script |-> [s.script EXCEPT ![c] = r], actor |-> s.actor]
    BY <1>1 DEF ScriptIs
  <2> QED
    BY <2>1 DEF ActorIs
<1> HIDE DEF taken
<1>7. /\ taken \in ScriptedState
      /\ taken.script[c] = r /\ \A d \in Scripts \ {c} : taken.script[d] = s.script[d]
      /\ taken.actor[a] = m /\ \A b \in Actors \ {a} : taken.actor[b] = s.actor[b]
  BY <1>1, <1>4, <1>5, <1>6 DEF ScriptedState
<1>8. ASSUME NEW b \in Actors, ~taken.actor[b].gone, taken.actor[b].cine # NoScript
      PROVE  ~taken.script[taken.actor[b].cine].gone /\ taken.script[taken.actor[b].cine].target = b
  <2>1. CASE b = a
    BY <1>4, <1>5, <1>7, <2>1
  <2>2. CASE b # a
    <3>1. s.actor[b].cine \in Scripts \cup {NoScript} /\ taken.actor[b] = s.actor[b]
      BY <1>1, <1>7, <2>2 DEF GoodMonster, MonsterType
    <3>2. ~s.script[s.actor[b].cine].gone /\ s.script[s.actor[b].cine].target = b
      BY <1>1, <1>8, <3>1 DEF Linked
    <3>3. s.actor[b].cine # c
      BY <1>0, <1>1, <3>2
    <3> QED
      BY <1>7, <1>8, <3>1, <3>2, <3>3
  <2> QED
    BY <2>1, <2>2
<1>9. ASSUME NEW d \in Scripts, taken.script[d].target # NoActor
      PROVE  /\ taken.actor[taken.script[d].target].cine = d
             /\ ~taken.actor[taken.script[d].target].gone
             /\ taken.script[d].think # "CineThink"
  <2>1. CASE d = c
    BY <1>4, <1>5, <1>7, <2>1
  <2>2. CASE d # c
    <3>1. s.script[d].target \in Actors \cup {NoActor} /\ taken.script[d] = s.script[d]
      BY <1>1, <1>7, <2>2 DEF CineType
    <3>2. /\ s.actor[s.script[d].target].cine = d /\ ~s.actor[s.script[d].target].gone
          /\ s.script[d].think # "CineThink"
      BY <1>1, <1>9, <3>1 DEF Linked
    <3>3. s.script[d].target # a
      BY <1>0, <1>1, <3>2
    <3> QED
      BY <1>7, <1>9, <3>1, <3>2, <3>3
  <2> QED
    BY <2>1, <2>2
<1>10. LetGo(taken)
  BY <1>1, <1>4, <1>7 DEF LetGo
<1>11. taken \in GoodStates
  BY <1>7, <1>8, <1>9, <1>10 DEF GoodStates, LinkedStates, Linked
<1>12. \A d \in Scripts : /\ taken.script[d].gone = s.script[d].gone
                           /\ taken.script[d].m_iDelay = s.script[d].m_iDelay
  BY <1>4, <1>7
<1>13. Possessed(s, c, a, taken)
  BY <1>3, <1>5, <1>7, <1>12 DEF Possessed, way
<1> QED
  BY <1>11, <1>13

LEMMA PossessGood ==
    ASSUME Cast, NEW s \in GoodStates, NEW c \in Scripts, NEW a \in Actors, Free(s, c, a)
    PROVE  PossessEntity(s, c, a) \in GoodStates
<1>1. PICK taken \in GoodStates : Possessed(s, c, a, taken)
  BY TakenGood
<1>2. /\ PossessEntity(s, c, a) =
           IF IsAI(c) THEN IF s.actor[a].state = "script" THEN ScriptSchedule(taken, a, c) ELSE taken
           ELSE IF Walks(c) THEN DelayStart(taken, c, TRUE) ELSE taken
      /\ taken.actor[a].state # "dead"
  BY <1>1 DEF Possessed
<1>3. ScriptSchedule(taken, a, c) \in GoodStates
  BY <1>2, ScriptScheduleGood
<1>4. DelayStart(taken, c, TRUE) \in GoodStates
  BY DelayStartGood
<1> QED
  BY <1>2, <1>3, <1>4

\* A script that keeps its monster and what it is to think.
LEMMA ScriptIsGood ==
    ASSUME NEW s \in GoodStates, NEW c \in Scripts, NEW r \in CineType,
           r.target = s.script[c].target, r.gone = s.script[c].gone,
           r.think = s.script[c].think
    PROVE  ScriptIs(s, c, r) \in GoodStates
<1>1. s \in LinkedStates /\ LetGo(s) /\ Linked(s) /\ s.script \in [Scripts -> CineType]
  BY DEF GoodStates, LinkedStates, ScriptedState
<1>2. r.think = "CineThink" => r.target = NoActor
  BY <1>1 DEF Linked
<1>3. ScriptIs(s, c, r) \in LinkedStates /\ ScriptIs(s, c, r).script = [s.script EXCEPT ![c] = r]
  BY <1>1, <1>2, ScriptIsLinked
<1>4. \A d \in Scripts : /\ ScriptIs(s, c, r).script[d].think = s.script[d].think
                         /\ ScriptIs(s, c, r).script[d].target = s.script[d].target
  BY <1>1, <1>3
<1> QED
  BY <1>1, <1>3, <1>4 DEF GoodStates, LetGo

LEMMA OneMonster ==
    ASSUME NEW s \in GoodStates, NEW a \in Actors
    PROVE  /\ s.actor[a] \in GoodMonster /\ s.actor[a] \in MonsterType
           /\ s.actor[a].cine \in Scripts \cup {NoScript}
  BY DEF GoodStates, LinkedStates, ScriptedState, GoodMonster, MonsterType

\* Fields of a monster that may change without its script or its state.
LEMMA FieldsGood ==
    ASSUME NEW m \in GoodMonster, NEW failed \in BOOLEAN, NEW hurt \in BOOLEAN,
           NEW task \in ScriptTasks \cup {"none", "other", "fail", "ambush", "die"},
           m.state = "dead" => task = "die"
    PROVE  /\ LET n == [m EXCEPT !.hurt = hurt]
              IN  n \in GoodMonster /\ n.gone = m.gone /\ n.cine = m.cine /\ n.state = m.state
           /\ LET n == [m EXCEPT !.failed = failed]
              IN  n \in GoodMonster /\ n.gone = m.gone /\ n.cine = m.cine /\ n.state = m.state
           /\ LET n == [m EXCEPT !.task = task]
              IN  n \in GoodMonster /\ n.gone = m.gone /\ n.cine = m.cine /\ n.state = m.state
           /\ LET n == [m EXCEPT !.task = task, !.failed = failed, !.hurt = hurt]
              IN  n \in GoodMonster /\ n.gone = m.gone /\ n.cine = m.cine /\ n.state = m.state
<1>1. LET n == [m EXCEPT !.hurt = hurt]
      IN  n \in GoodMonster /\ n.gone = m.gone /\ n.cine = m.cine /\ n.state = m.state
  <2> DEFINE n == [m EXCEPT !.hurt = hurt]
  <2>1. /\ n \in MonsterType /\ n.gone = m.gone /\ n.cine = m.cine /\ n.state = m.state
        /\ n.ideal = m.ideal /\ n.deadflag = m.deadflag /\ n.task = m.task
    BY DEF GoodMonster, MonsterType
  <2> HIDE DEF n
  <2>2. n \in GoodMonster
    BY <2>1 DEF GoodMonster
  <2> QED
    BY <2>1, <2>2 DEF n
<1>2. LET n == [m EXCEPT !.failed = failed]
      IN  n \in GoodMonster /\ n.gone = m.gone /\ n.cine = m.cine /\ n.state = m.state
  <2> DEFINE n == [m EXCEPT !.failed = failed]
  <2>1. /\ n \in MonsterType /\ n.gone = m.gone /\ n.cine = m.cine /\ n.state = m.state
        /\ n.ideal = m.ideal /\ n.deadflag = m.deadflag /\ n.task = m.task
    BY DEF GoodMonster, MonsterType
  <2> HIDE DEF n
  <2>2. n \in GoodMonster
    BY <2>1 DEF GoodMonster
  <2> QED
    BY <2>1, <2>2 DEF n
<1>3. LET n == [m EXCEPT !.task = task]
      IN  n \in GoodMonster /\ n.gone = m.gone /\ n.cine = m.cine /\ n.state = m.state
  <2> DEFINE n == [m EXCEPT !.task = task]
  <2>1. /\ n \in MonsterType /\ n.gone = m.gone /\ n.cine = m.cine /\ n.state = m.state
        /\ n.ideal = m.ideal /\ n.deadflag = m.deadflag /\ n.task = task
    BY DEF GoodMonster, MonsterType
  <2> HIDE DEF n
  <2>2. n \in GoodMonster
    BY <2>1 DEF GoodMonster
  <2> QED
    BY <2>1, <2>2 DEF n
<1>4. LET n == [m EXCEPT !.task = task, !.failed = failed, !.hurt = hurt]
      IN  n \in GoodMonster /\ n.gone = m.gone /\ n.cine = m.cine /\ n.state = m.state
  <2> DEFINE n == [m EXCEPT !.task = task, !.failed = failed, !.hurt = hurt]
  <2>1. /\ n \in MonsterType /\ n.gone = m.gone /\ n.cine = m.cine /\ n.state = m.state
        /\ n.ideal = m.ideal /\ n.deadflag = m.deadflag /\ n.task = task
    BY SMTT(20), ZenonT(40) DEF GoodMonster, MonsterType
  <2> HIDE DEF n
  <2>2. n \in GoodMonster
    BY <2>1 DEF GoodMonster
  <2> QED
    BY <2>1, <2>2 DEF n
<1> QED
  BY <1>1, <1>2, <1>3, <1>4

\* The same for the values the code gives them.
LEMMA TasksGood ==
    ASSUME NEW m \in GoodMonster
    PROVE  /\ LET n == [m EXCEPT !.hurt = FALSE]
              IN  n \in GoodMonster /\ n.gone = m.gone /\ n.cine = m.cine /\ n.state = m.state
           /\ LET n == [m EXCEPT !.failed = TRUE]
              IN  n \in GoodMonster /\ n.gone = m.gone /\ n.cine = m.cine /\ n.state = m.state
           /\ m.state # "dead" =>
              LET n == [m EXCEPT !.task = "fail", !.failed = FALSE, !.hurt = FALSE]
              IN  n \in GoodMonster /\ n.gone = m.gone /\ n.cine = m.cine /\ n.state = m.state
<1>1. FALSE \in BOOLEAN /\ TRUE \in BOOLEAN
  OBVIOUS
<1>2. "fail" \in ScriptTasks \cup {"none", "other", "fail", "ambush", "die"}
  OBVIOUS
<1>3. m.task \in ScriptTasks \cup {"none", "other", "fail", "ambush", "die"}
      /\ m.state = "dead" => m.task = "die"
  BY DEF GoodMonster, MonsterType
<1>4. /\ LET n == [m EXCEPT !.hurt = FALSE]
         IN  n \in GoodMonster /\ n.gone = m.gone /\ n.cine = m.cine /\ n.state = m.state
      /\ LET n == [m EXCEPT !.failed = TRUE]
         IN  n \in GoodMonster /\ n.gone = m.gone /\ n.cine = m.cine /\ n.state = m.state
  BY <1>1, <1>3, FieldsGood, Zenon
<1>5. m.state # "dead" =>
         LET n == [m EXCEPT !.task = "fail", !.failed = FALSE, !.hurt = FALSE]
         IN  n \in GoodMonster /\ n.gone = m.gone /\ n.cine = m.cine /\ n.state = m.state
  BY <1>1, <1>2, FieldsGood, Zenon
<1> QED
  BY <1>4, <1>5

LEMMA IgnoredGood ==
    ASSUME NEW s \in GoodStates, NEW a \in Actors, NEW pvs \in BOOLEAN
    PROVE  /\ Ignored(s, a, pvs) \in GoodStates
           /\ Ignored(s, a, pvs).actor[a].gone = s.actor[a].gone
           /\ Ignored(s, a, pvs).actor[a].state = s.actor[a].state
<1> DEFINE m == [s.actor[a] EXCEPT !.hurt = FALSE]
<1>1. m \in GoodMonster /\ m.gone = s.actor[a].gone /\ m.cine = s.actor[a].cine
      /\ m.state = s.actor[a].state
  BY OneMonster, TasksGood
<1>2. Ignored(s, a, pvs) \in {s, ActorIs(s, a, m)}
  BY DEF Ignored
<1> HIDE DEF m
<1>3. ActorIs(s, a, m) \in GoodStates /\ ActorIs(s, a, m).actor[a] = m
  BY <1>1, ActorIsGood
<1> QED
  BY <1>1, <1>2, <1>3

\* ExitScriptedSequence leaves the monster in the state it is in.
LEMMA GetIdealStateGood ==
    ASSUME Cast, NEW s \in GoodStates, NEW a \in Actors, s.actor[a].state # "dead"
    PROVE  /\ GetIdealState(s, a) \in GoodStates
           /\ GetIdealState(s, a).actor[a].gone = s.actor[a].gone
           /\ GetIdealState(s, a).actor[a].state # "dead"
<1> DEFINE m == s.actor[a]
           alert == [m EXCEPT !.ideal = "alert"]
           dead == [m EXCEPT !.ideal = "dead"]
<1>1. /\ alert \in GoodMonster /\ alert.gone = m.gone /\ alert.cine = m.cine /\ alert.state = m.state
      /\ dead \in GoodMonster /\ dead.gone = m.gone /\ dead.cine = m.cine /\ dead.state = m.state
      /\ m.cine \in Scripts \cup {NoScript}
  BY OneMonster DEF GoodMonster, MonsterType
<1>2. GetIdealState(s, a) =
        IF ~m.hurt \/ m.task \notin ScriptTasks \cup {"other"} THEN s
        ELSE IF m.state = "idle" THEN ActorIs(s, a, alert)
        ELSE IF m.state # "script" THEN s
        ELSE IF m.deadflag = "dying" THEN ActorIs(s, a, dead)
        ELSE IF m.cine # NoScript THEN CancelScript(s, m.cine)
        ELSE s
  BY DEF GetIdealState
<1> HIDE DEF alert, dead
<1>3. /\ ActorIs(s, a, alert) \in GoodStates /\ ActorIs(s, a, alert).actor[a] = alert
      /\ ActorIs(s, a, dead) \in GoodStates /\ ActorIs(s, a, dead).actor[a] = dead
  BY <1>1, ActorIsGood
<1>4. m.cine # NoScript /\ m.deadflag # "dying" =>
         /\ CancelScript(s, m.cine) \in GoodStates
         /\ CancelScript(s, m.cine).actor[a].gone = m.gone
         /\ CancelScript(s, m.cine).actor[a].state = m.state
  BY <1>1, CancelScriptGood
<1> QED
  BY <1>1, <1>2, <1>3, <1>4

\* A monster that is to be in a script has one, so that SetState finds no
\* script to clean up.
LEMMA SetStateGood ==
    ASSUME NEW s \in GoodStates, NEW a \in Actors, ~s.actor[a].gone
    PROVE  SetState(s, a) \in GoodStates /\ ~SetState(s, a).actor[a].gone
<1> DEFINE m == [s.actor[a] EXCEPT !.state = s.actor[a].ideal, !.failed = FALSE, !.hurt = FALSE]
           dying == [m EXCEPT !.task = "die", !.deadflag = "dying"]
           other == [m EXCEPT !.task = "other"]
           calm == ActorIs(s, a, m)
           free == CineCleanup(calm, {a})
<1>1. s.actor[a] \in GoodMonster /\ s.actor[a] \in MonsterType
  BY OneMonster
<1>2. /\ m \in MonsterType /\ ~m.gone /\ m.cine = s.actor[a].cine /\ m.gone = s.actor[a].gone
      /\ m.state = s.actor[a].ideal /\ m.ideal = s.actor[a].ideal
  BY <1>1 DEF MonsterType
<1>3. /\ m.ideal = "dead" => dying \in GoodMonster /\ dying.gone = m.gone /\ dying.cine = m.cine
      /\ m.ideal # "dead" => /\ m \in GoodMonster
                             /\ other \in GoodMonster /\ other.gone = m.gone /\ other.cine = m.cine
  <2> HIDE DEF m
  <2>1. m.state = m.ideal /\ (m.ideal = "script" => m.cine # NoScript)
    BY <1>1, <1>2 DEF GoodMonster
  <2>2. /\ dying \in MonsterType /\ dying.gone = m.gone /\ dying.cine = m.cine
        /\ dying.state = m.state /\ dying.ideal = m.ideal /\ dying.deadflag = "dying"
        /\ dying.task = "die"
    BY <1>2 DEF MonsterType
  <2>3. /\ other \in MonsterType /\ other.gone = m.gone /\ other.cine = m.cine
        /\ other.state = m.state /\ other.ideal = m.ideal
    BY <1>2 DEF MonsterType
  <2> HIDE DEF dying, other
  <2> QED
    BY <1>2, <2>1, <2>2, <2>3 DEF GoodMonster
<1>4. m.ideal = "script" => m.cine # NoScript
  <2> HIDE DEF m
  <2> QED
    BY <1>1, <1>2 DEF GoodMonster
<1>5. SetState(s, a) =
        CASE m.ideal = "dead" -> ActorIs(s, a, dying)
          [] m.ideal = "script" /\ m.cine # NoScript -> ScriptSchedule(calm, a, m.cine)
          [] m.ideal = "script" /\ m.cine = NoScript ->
                 ActorIs(free, a, [free.actor[a] EXCEPT !.task = "other"])
          [] OTHER -> ActorIs(s, a, other)
  BY DEF SetState
<1> HIDE DEF m, dying, other, free
<1>6. CASE m.ideal = "dead"
  <2>1. ActorIs(s, a, dying) \in GoodStates /\ ActorIs(s, a, dying).actor[a] = dying
    BY <1>2, <1>3, <1>6, ActorIsGood
  <2>2. SetState(s, a) = ActorIs(s, a, dying)
    BY <1>5, <1>6
  <2> QED
    BY <1>2, <1>3, <1>6, <2>1, <2>2
<1>7. CASE m.ideal = "script"
  <2>1. calm \in GoodStates /\ calm.actor[a] = m
    BY <1>2, <1>3, <1>7, ActorIsGood
  <2>2. SetState(s, a) = ScriptSchedule(calm, a, m.cine)
    BY <1>4, <1>5, <1>7
  <2> HIDE DEF calm
  <2>3. calm.actor[a].state # "dead"
    BY <1>2, <1>7, <2>1
  <2> QED
    BY <1>2, <2>1, <2>2, <2>3, ScriptScheduleGood
<1>8. CASE m.ideal \notin {"dead", "script"}
  <2>1. ActorIs(s, a, other) \in GoodStates /\ ActorIs(s, a, other).actor[a] = other
    BY <1>2, <1>3, <1>8, ActorIsGood
  <2>2. SetState(s, a) = ActorIs(s, a, other)
    BY <1>5, <1>8
  <2> QED
    BY <1>2, <1>3, <1>8, <2>1, <2>2
<1> QED
  BY <1>6, <1>7, <1>8

LEMMA ChangeScheduleGood ==
    ASSUME Cast, NEW s \in GoodStates, NEW a \in Actors, NEW done \in BOOLEAN,
           ~s.actor[a].gone, s.actor[a].state # "dead"
    PROVE  ChangeSchedule(s, a, done) \in GoodStates /\ ~ChangeSchedule(s, a, done).actor[a].gone
<1> DEFINE asks == /\ s.actor[a].ideal # "dead"
                   /\ (s.actor[a].ideal = "script" => s.actor[a].state = "script")
                   /\ (s.actor[a].hurt \/ s.actor[a].failed) /\ ~done
           t == IF asks THEN GetIdealState(s, a) ELSE s
           fail == [t.actor[a] EXCEPT !.task = "fail", !.failed = FALSE, !.hurt = FALSE]
<1>1. ChangeSchedule(s, a, done) = IF t.actor[a].failed /\ t.actor[a].state = t.actor[a].ideal
                                   THEN ActorIs(t, a, fail) ELSE SetState(t, a)
  BY DEF ChangeSchedule
<1> HIDE DEF asks
<1>2. t \in GoodStates /\ ~t.actor[a].gone /\ t.actor[a].state # "dead"
  BY GetIdealStateGood
<1> HIDE DEF t
<1>3. fail \in GoodMonster /\ fail.gone = t.actor[a].gone /\ fail.cine = t.actor[a].cine
  <2>1. t.actor[a] \in GoodMonster
    BY <1>2, OneMonster
  <2> QED
    BY <1>2, <2>1, TasksGood, Zenon
<1> HIDE DEF fail
<1>4. ActorIs(t, a, fail) \in GoodStates /\ ActorIs(t, a, fail).actor[a] = fail
  BY <1>2, <1>3, ActorIsGood
<1>5. SetState(t, a) \in GoodStates /\ ~SetState(t, a).actor[a].gone
  BY <1>2, SetStateGood
<1> QED
  BY <1>1, <1>2, <1>3, <1>4, <1>5

LEMMA MaintainedGood ==
    ASSUME Cast, NEW s \in GoodStates, NEW a \in Actors, NEW finished \in BOOLEAN,
           ~s.actor[a].gone, s.actor[a].state # "dead"
    PROVE  Maintained(s, a, finished) \in GoodStates /\ ~Maintained(s, a, finished).actor[a].gone
<1> DEFINE done == finished /\ s.actor[a].task \in {"other", "fail", "ambush"}
<1>1. Maintained(s, a, finished) \in {s, ChangeSchedule(s, a, done)} /\ done \in BOOLEAN
  BY DEF Maintained
<1> HIDE DEF done
<1> QED
  BY <1>1, ChangeScheduleGood

LEMMA StartTaskGood ==
    ASSUME Cast, NEW s \in GoodStates, NEW a \in Actors, NEW way, ~s.actor[a].gone
    PROVE  StartTask(s, a, way) \in GoodStates /\ ~StartTask(s, a, way).actor[a].gone
<1> DEFINE m == s.actor[a]
           play == [m EXCEPT !.task = "play", !.scriptState = "playing"]
           failed == [m EXCEPT !.failed = TRUE]
           waits == [m EXCEPT !.task = "wait"]
           there == ActorIs(s, a, waits)
<1>1. m \in GoodMonster /\ m \in MonsterType /\ m.cine \in Scripts \cup {NoScript}
  BY OneMonster
<1>2. StartTask(s, a, way) =
        IF m.task = "started" THEN ActorIs(s, a, play)
        ELSE IF m.task # "walk" \/ m.cine = NoScript \/ way = "away" THEN s
        ELSE IF way = "fails" THEN ActorIs(s, a, failed)
        ELSE DelayStart(there, m.cine, FALSE)
  BY DEF StartTask
<1>3. m.task \in {"started", "walk"} =>
         /\ play \in GoodMonster /\ play.gone = m.gone /\ play.cine = m.cine
         /\ failed \in GoodMonster /\ failed.gone = m.gone /\ failed.cine = m.cine
         /\ waits \in GoodMonster /\ waits.gone = m.gone /\ waits.cine = m.cine
  <2>1. failed \in GoodMonster /\ failed.gone = m.gone /\ failed.cine = m.cine
    BY <1>1, TasksGood, Zenon
  <2> HIDE DEF failed
  <2>2. m.task \in {"started", "walk"} =>
           /\ play \in GoodMonster /\ play.gone = m.gone /\ play.cine = m.cine
           /\ waits \in GoodMonster /\ waits.gone = m.gone /\ waits.cine = m.cine
    BY <1>1 DEF GoodMonster, MonsterType, ScriptTasks
  <2> QED
    BY <2>1, <2>2
<1> HIDE DEF play, failed, waits
<1>4. m.task \in {"started", "walk"} =>
         /\ ActorIs(s, a, play) \in GoodStates /\ ActorIs(s, a, play).actor[a] = play
         /\ ActorIs(s, a, failed) \in GoodStates /\ ActorIs(s, a, failed).actor[a] = failed
         /\ there \in GoodStates /\ there.actor[a] = waits
  BY <1>3, ActorIsGood
<1> HIDE DEF there
<1>5. m.task = "walk" /\ m.cine # NoScript =>
         DelayStart(there, m.cine, FALSE) \in GoodStates
         /\ DelayStart(there, m.cine, FALSE).actor[a] = waits
  BY <1>1, <1>4, DelayStartGood
<1> QED
  BY <1>2, <1>3, <1>4, <1>5

LEMMA RunTaskGood ==
    ASSUME Cast, NEW s \in GoodStates, NEW a \in Actors, NEW finished, ~s.actor[a].gone
    PROVE  RunTask(s, a, finished) \in GoodStates /\ ~RunTask(s, a, finished).actor[a].gone
<1> DEFINE m == s.actor[a]
           started == [m EXCEPT !.task = "started"]
<1>1. m \in GoodMonster /\ m \in MonsterType /\ m.cine \in Scripts \cup {NoScript}
  BY OneMonster
<1>2. RunTask(s, a, finished) =
        IF m.cine = NoScript THEN s
        ELSE IF m.task = "wait" /\ s.script[m.cine].m_iDelay <= 0 /\ s.script[m.cine].start = "due"
        THEN IF ScriptConf[m.cine].play THEN ActorIs(s, a, started)
             ELSE SequenceDone(s, m.cine, a)
        ELSE IF m.task = "play" /\ finished THEN SequenceDone(s, m.cine, a)
        ELSE s
  BY DEF RunTask
<1>3. m.task \in {"wait", "play"} =>
         /\ m.state # "dead"
         /\ started \in GoodMonster /\ started.gone = m.gone /\ started.cine = m.cine
  BY <1>1 DEF GoodMonster, MonsterType, ScriptTasks
<1> HIDE DEF started
<1>4. m.task \in {"wait", "play"} =>
         ActorIs(s, a, started) \in GoodStates /\ ActorIs(s, a, started).actor[a] = started
  BY <1>3, ActorIsGood
<1>5. m.task \in {"wait", "play"} /\ m.cine # NoScript =>
         SequenceDone(s, m.cine, a) \in GoodStates /\ ~SequenceDone(s, m.cine, a).actor[a].gone
  BY <1>1, <1>3, SequenceDoneGood
<1> QED
  BY <1>2, <1>3, <1>4, <1>5

LEMMA HandleAnimEventGood ==
    ASSUME Cast, NEW s \in GoodStates, NEW a \in Actors,
           NEW event \in {"none"} \cup Events(s, a)
    PROVE  HandleAnimEvent(s, a, event) \in GoodStates
<1> DEFINE m == s.actor[a]
           r == s.script[m.cine]
           dead == [m EXCEPT !.deadflag = "dying", !.well = FALSE]
           well == [m EXCEPT !.deadflag = "no", !.well = TRUE]
           can == event = "caninterrupt"
           told == [r EXCEPT !.interruptable = can]
<1>1. m \in GoodMonster /\ m \in MonsterType /\ m.cine \in Scripts \cup {NoScript}
  BY OneMonster
<1>2. event = "none" \/ (m.cine # NoScript /\ m.state = "script")
  BY DEF Events
<1>3. HandleAnimEvent(s, a, event) =
        CASE event = "dead" -> ActorIs(s, a, dead)
          [] event = "not_dead" -> ActorIs(s, a, well)
          [] event \in {"nointerrupt", "caninterrupt"} /\ ~ScriptConf[m.cine].noInterrupt ->
                 ScriptIs(s, m.cine, told)
          [] OTHER -> s
  BY DEF HandleAnimEvent
<1> HIDE DEF can
<1>4. m.state = "script" =>
         /\ dead \in GoodMonster /\ dead.gone = m.gone /\ dead.cine = m.cine
         /\ well \in GoodMonster /\ well.gone = m.gone /\ well.cine = m.cine
  BY <1>1 DEF GoodMonster, MonsterType
<1>5. m.cine \in Scripts =>
         /\ told \in CineType /\ told.target = r.target /\ told.gone = r.gone
         /\ told.think = r.think
  <2>1. can \in BOOLEAN
    BY DEF can
  <2>2. m.cine \in Scripts => r \in CineType
    BY DEF GoodStates, LinkedStates, ScriptedState
  <2> QED
    BY <2>1, <2>2 DEF CineType
<1> HIDE DEF dead, well, told
<1>6. CASE event = "none"
  BY <1>3, <1>6
<1>7. CASE event # "none"
  <2>1. m.cine \in Scripts /\ m.state = "script"
    BY <1>1, <1>2, <1>7
  <2>2. ActorIs(s, a, dead) \in GoodStates /\ ActorIs(s, a, well) \in GoodStates
    BY <1>4, <2>1, ActorIsGood
  <2>3. ScriptIs(s, m.cine, told) \in GoodStates
    BY <1>5, <2>1, ScriptIsGood
  <2>4. HandleAnimEvent(s, a, event) \in {ActorIs(s, a, dead), ActorIs(s, a, well),
                                          ScriptIs(s, m.cine, told), s}
    BY <1>3
  <2> QED
    BY <2>2, <2>3, <2>4
<1> QED
  BY <1>6, <1>7

-----------------------------------------------------------------------------
(* The steps of scripts and monsters *)

LEMMA ScriptedBecomeKeeps ==
    ASSUME ScriptedIInv, NEW s \in GoodStates, ScriptedBecome(s)
    PROVE  ScriptedIInv'
<1>1. /\ script' = s.script /\ actor' = s.actor
      /\ \A c \in Scripts : s.script[c].m_iDelay \in -MaxDelayStart .. MaxDelayStart
  BY DEF ScriptedBecome
<1>2. /\ s.script \in [Scripts -> CineType] /\ s.actor \in [Actors -> GoodMonster]
      /\ s = [script |-> s.script, actor |-> s.actor]
  BY DEF GoodStates, LinkedStates, ScriptedState
<1>3. DOMAIN script' = Scripts /\ DOMAIN actor' = Actors
  BY <1>1, <1>2
<1>4. Scripts' = Scripts /\ Actors' = Actors
  BY <1>3 DEF Scripts, Actors
<1>5. GoodStates' = GoodStates
  BY <1>4 DEF GoodStates, LinkedStates, ScriptedState, Linked, LetGo, CineType, GoodMonster,
              MonsterType
<1>6. Now' = s
  BY <1>1, <1>2 DEF Now
<1>7. Cast'
  BY <1>4 DEF ScriptedIInv, Cast
<1> QED
  BY <1>1, <1>4, <1>5, <1>6, <1>7 DEF ScriptedIInv

\* What the invariant says of the variables.
LEMMA ScriptedFacts ==
    ASSUME ScriptedIInv
    PROVE  /\ Cast /\ Now \in GoodStates /\ Now \in LinkedStates /\ Linked(Now) /\ LetGo(Now)
           /\ Now.script = script /\ Now.actor = actor
           /\ script \in [Scripts -> CineType] /\ actor \in [Actors -> GoodMonster]
           /\ \A a \in Actors : actor[a].cine \in Scripts \cup {NoScript}
<1>1. /\ Cast /\ Now \in GoodStates /\ Now \in LinkedStates /\ Linked(Now) /\ LetGo(Now)
      /\ Now.script = script /\ Now.actor = actor
  BY DEF ScriptedIInv, GoodStates, LinkedStates, Now
<1>2. script \in [Scripts -> CineType] /\ actor \in [Actors -> GoodMonster]
  BY <1>1 DEF LinkedStates, ScriptedState
<1> QED
  BY <1>1, <1>2 DEF GoodMonster, MonsterType

LEMMA ScriptUseGood ==
    ASSUME ScriptedIInv, NEW c \in Scripts, ScriptUse(c)
    PROVE  ScriptedIInv'
<1>1. UseScripts(Now, Name(c)) \in GoodStates
  BY ScriptedFacts, UseScriptsGood
<1> QED
  BY <1>1, ScriptedBecomeKeeps DEF ScriptUse

\* The monster that is found has no script.
LEMMA FoundIsFree ==
    ASSUME Cast, NEW c \in Scripts, Found(c) # NoActor
    PROVE  Found(c) \in Actors /\ CanPlaySequence(Now, Found(c), c)
<1> DEFINE entity == ScriptConf[c].entity
           fit == {i \in DOMAIN entity : CanPlaySequence(Now, entity[i], c)}
           first == CHOOSE i \in fit : \A j \in fit : i <= j
<1>1. entity \in Seq(Range(entity)) /\ Range(entity) \subseteq Actors
  BY ScriptedAssumption DEF Cast
<1>2. Found(c) = IF fit = {} THEN NoActor ELSE entity[first]
  BY DEF Found
<1>3. fit # {} /\ fit \subseteq Nat
  BY <1>1, <1>2
<1> HIDE DEF fit
<1>4. \E i \in fit : \A j \in fit : i <= j
  BY <1>3, LeastOf
<1>5. first \in fit
  BY <1>4
<1> HIDE DEF first
<1>6. first \in DOMAIN entity /\ CanPlaySequence(Now, entity[first], c)
  BY <1>5 DEF fit
<1>7. entity[first] \in Range(entity)
  BY <1>6 DEF Range
<1> QED
  BY <1>1, <1>2, <1>3, <1>6, <1>7

LEMMA CineThinkGood ==
    ASSUME ScriptedIInv, NEW c \in Scripts, CineThink(c)
    PROVE  ScriptedIInv'
<1> DEFINE r == [script[c] EXCEPT !.think = "none", !.target = NoActor]
           s == ScriptIs(Now, c, r)
           t == CancelScript(s, c)
           again == [t.script[c] EXCEPT !.think = "CineThink"]
<1>1. script[c].think = "CineThink" /\ ~script[c].gone /\ script[c].target = NoActor
  BY ScriptedFacts DEF CineThink, Linked
<1>2. r \in CineType /\ r.target = NoActor /\ r.think = "none" /\ r.gone = script[c].gone
  BY <1>1, ScriptedFacts DEF CineType
<1>3. IF Found(c) # NoActor THEN ScriptedBecome(PossessEntity(s, c, Found(c)))
      ELSE ScriptedBecome(ScriptIs(t, c, again))
  BY DEF CineThink
<1> HIDE DEF r
<1>4. s \in LinkedStates /\ s.script = [script EXCEPT ![c] = r] /\ s.actor = actor
  <2>1. Now \in LinkedStates /\ Now.script = script /\ Now.actor = actor
    BY ScriptedFacts
  <2> QED
    BY <1>1, <1>2, <2>1, ScriptIsLinked
<1> HIDE DEF s
<1>5. s.script[c] = r /\ \A d \in Scripts \ {c} : s.script[d] = script[d]
  BY <1>4, ScriptedFacts
<1>6. s \in GoodStates
  <2>1. \A d \in Scripts : script[d].think = "SUB_Remove" => script[d].target = NoActor
    BY ScriptedFacts DEF LetGo
  <2>2. LetGo(s)
    BY <1>2, <1>5, <2>1 DEF LetGo
  <2> QED
    BY <1>4, <2>2 DEF GoodStates
<1>7. CASE Found(c) # NoActor
  <2> DEFINE a == Found(c)
  <2>1. a \in Actors /\ CanPlaySequence(Now, a, c)
    BY <1>7, FoundIsFree, ScriptedFacts
  <2>2. actor[a].cine = NoScript /\ ~actor[a].gone /\ actor[a].deadflag = "no"
    BY <2>1, ScriptedFacts DEF CanPlaySequence, IsAlive
  <2>3. ScriptedBecome(PossessEntity(s, c, a))
    BY <1>3, <1>7
  <2> HIDE DEF a
  <2>4. Free(s, c, a)
    BY <1>1, <1>2, <1>4, <1>5, <2>2 DEF Free
  <2>5. PossessEntity(s, c, a) \in GoodStates
    BY <1>6, <2>1, <2>4, ScriptedFacts, PossessGood
  <2> QED
    BY <2>3, <2>5, ScriptedBecomeKeeps
<1>8. CASE Found(c) = NoActor
  <2>1. t \in GoodStates /\ t.script[c].target = NoActor
    BY <1>2, <1>5, <1>6, ScriptedFacts, CancelScriptGood
  <2> HIDE DEF t
  <2>2. t \in LinkedStates /\ LetGo(t) /\ t.script \in [Scripts -> CineType]
    BY <2>1 DEF GoodStates, LinkedStates, ScriptedState
  <2>3. again \in CineType /\ again.target = t.script[c].target /\ again.gone = t.script[c].gone
        /\ again.think = "CineThink"
    BY <2>2 DEF CineType
  <2> HIDE DEF again
  <2>4. ScriptIs(t, c, again) \in LinkedStates
        /\ ScriptIs(t, c, again).script = [t.script EXCEPT ![c] = again]
    BY <2>1, <2>2, <2>3, ScriptIsLinked
  <2>5. \A d \in Scripts : /\ ScriptIs(t, c, again).script[d].target = t.script[d].target
                           /\ ScriptIs(t, c, again).script[d].think = "SUB_Remove" =>
                                 t.script[d].think = "SUB_Remove"
    BY <2>2, <2>3, <2>4
  <2>6. ScriptIs(t, c, again) \in GoodStates
    BY <2>2, <2>4, <2>5 DEF GoodStates, LetGo
  <2> QED
    BY <1>3, <1>8, <2>6, ScriptedBecomeKeeps
<1> QED
  BY <1>7, <1>8

\* A script that goes has no monster, and no monster has it.
LEMMA SUB_RemoveGood ==
    ASSUME ScriptedIInv, NEW c \in Scripts, SUB_Remove(c)
    PROVE  ScriptedIInv'
<1> DEFINE gone == TRUE
           r == [script[c] EXCEPT !.gone = gone, !.think = "none"]
           scripts == [script EXCEPT ![c] = r]
           s == [script |-> scripts, actor |-> actor]
<1>1. script[c].think = "SUB_Remove" /\ script[c].target = NoActor
  BY ScriptedFacts DEF SUB_Remove, LetGo
<1>2. gone \in BOOLEAN /\ ScriptIs(Now, c, r) = s
  BY DEF ScriptIs, Now
<1>3. ScriptedBecome(s)
  BY <1>2 DEF SUB_Remove
<1> HIDE DEF gone
<1>4. r \in CineType /\ r.target = NoActor /\ r.think = "none"
  BY <1>1, <1>2, ScriptedFacts DEF CineType
<1> HIDE DEF r
<1>5. /\ scripts \in [Scripts -> CineType] /\ scripts[c] = r
      /\ \A d \in Scripts \ {c} : scripts[d] = script[d]
  BY <1>4, ScriptedFacts
<1>6. s \in ScriptedState /\ s.script = scripts /\ s.actor = actor
  BY <1>5, ScriptedFacts DEF ScriptedState
<1> HIDE DEF scripts, s
<1>7. ASSUME NEW a \in Actors, ~actor[a].gone, actor[a].cine # NoScript
      PROVE  ~scripts[actor[a].cine].gone /\ scripts[actor[a].cine].target = a
  <2>1. /\ actor[a].cine \in Scripts
        /\ ~script[actor[a].cine].gone /\ script[actor[a].cine].target = a
    BY <1>7, ScriptedFacts DEF Linked
  <2>2. a # NoActor
    BY ScriptedFacts DEF Cast
  <2>3. actor[a].cine # c
    BY <1>1, <2>1, <2>2
  <2> QED
    BY <1>5, <2>1, <2>3
<1>8. ASSUME NEW d \in Scripts, scripts[d].target # NoActor
      PROVE  /\ actor[scripts[d].target].cine = d /\ ~actor[scripts[d].target].gone
             /\ scripts[d].think # "CineThink"
  <2>1. scripts[d] = script[d]
    BY <1>4, <1>5, <1>8
  <2> QED
    BY <1>8, <2>1, ScriptedFacts DEF Linked
<1>9. LetGo(s)
  BY <1>4, <1>5, <1>6, ScriptedFacts DEF LetGo
<1>10. s \in GoodStates
  BY <1>6, <1>7, <1>8, <1>9 DEF GoodStates, LinkedStates, Linked
<1> QED
  BY <1>3, <1>10, ScriptedBecomeKeeps

LEMMA StartTimeComesGood ==
    ASSUME ScriptedIInv, NEW c \in Scripts, StartTimeComes(c)
    PROVE  ScriptedIInv'
<1> DEFINE r == [script[c] EXCEPT !.start = "due"]
<1>1. r \in CineType /\ r.target = script[c].target /\ r.gone = script[c].gone
      /\ r.think = script[c].think
  BY ScriptedFacts DEF CineType
<1>2. ScriptedBecome(ScriptIs(Now, c, r))
  BY DEF StartTimeComes
<1> HIDE DEF r
<1>3. ScriptIs(Now, c, r) \in GoodStates
  BY <1>1, ScriptedFacts, ScriptIsGood
<1> QED
  BY <1>2, <1>3, ScriptedBecomeKeeps

LEMMA MonsterThinkGood ==
    ASSUME ScriptedIInv, NEW a \in Actors, NEW finished \in BOOLEAN, MonsterThink(a, finished)
    PROVE  ScriptedIInv'
<1>1. ~actor[a].gone /\ actor[a].state # "dead"
  BY ScriptedFacts DEF MonsterThink, GoodMonster
<1>2. PICK pvs \in BOOLEAN, way \in {"away", "there", "fails"} :
        \E s \in {Maintained(Ignored(Now, a, pvs), a, finished)} :
        \E t \in {RunTask(StartTask(s, a, way), a, finished)} :
        \E ran \in {ActorIs(t, a, [t.actor[a] EXCEPT !.hurt = FALSE])} :
        \E event \in {"none"} \cup Events(ran, a) :
            ScriptedBecome(HandleAnimEvent(ran, a, event))
  BY DEF MonsterThink
<1> DEFINE u == Ignored(Now, a, pvs)
           s == Maintained(u, a, finished)
           v == StartTask(s, a, way)
           t == RunTask(v, a, finished)
           m == [t.actor[a] EXCEPT !.hurt = FALSE]
           ran == ActorIs(t, a, m)
<1>3. PICK event \in {"none"} \cup Events(ran, a) : ScriptedBecome(HandleAnimEvent(ran, a, event))
  BY <1>2
<1>4. u \in GoodStates /\ ~u.actor[a].gone /\ u.actor[a].state # "dead"
  BY <1>1, ScriptedFacts, IgnoredGood
<1> HIDE DEF u
<1>5. s \in GoodStates /\ ~s.actor[a].gone
  BY <1>4, ScriptedFacts, MaintainedGood
<1> HIDE DEF s
<1>6. v \in GoodStates /\ ~v.actor[a].gone
  BY <1>5, ScriptedFacts, StartTaskGood
<1> HIDE DEF v
<1>7. t \in GoodStates /\ ~t.actor[a].gone
  BY <1>6, ScriptedFacts, RunTaskGood
<1> HIDE DEF t
<1>8. m \in GoodMonster /\ m.gone = t.actor[a].gone /\ m.cine = t.actor[a].cine
  BY <1>7, OneMonster, TasksGood
<1> HIDE DEF m
<1>9. ran \in GoodStates
  BY <1>7, <1>8, ActorIsGood
<1> HIDE DEF ran
<1>10. HandleAnimEvent(ran, a, event) \in GoodStates
  BY <1>3, <1>9, ScriptedFacts, HandleAnimEventGood
<1> QED
  BY <1>3, <1>10, ScriptedBecomeKeeps

LEMMA TakeDamageGood ==
    ASSUME ScriptedIInv, NEW a \in Actors, NEW kills \in BOOLEAN, TakeDamage(a, kills)
    PROVE  ScriptedIInv'
<1> DEFINE yes == TRUE
           well == ~kills
           q == actor[a]
           m == [q EXCEPT !.well = well, !.hurt = yes]
           calm == [m EXCEPT !.hurt = q.hurt]
           dead == [m EXCEPT !.killed = yes, !.ideal = "dead", !.well = yes]
           n == IF m.state = "script" \/ ~kills THEN m ELSE IF m.killed THEN calm ELSE dead
<1>1. q \in GoodMonster /\ ~q.gone /\ q.deadflag = "no" /\ yes \in BOOLEAN /\ well \in BOOLEAN
  BY ScriptedFacts DEF TakeDamage, IsAlive
<1>2. ScriptedBecome(ActorIs(Now, a, n))
  BY DEF TakeDamage
<1> HIDE DEF yes, well, q
<1>3. q.state # "dead" /\ q \in MonsterType
  BY <1>1 DEF GoodMonster
<1>4. m \in MonsterType /\ m.gone = q.gone /\ m.cine = q.cine /\ m.state = q.state
      /\ m.ideal = q.ideal
  BY <1>1, <1>3 DEF MonsterType
<1> HIDE DEF m
<1>5. /\ calm \in MonsterType /\ calm.gone = q.gone /\ calm.cine = q.cine /\ calm.state = q.state
      /\ calm.ideal = q.ideal
      /\ dead \in MonsterType /\ dead.gone = q.gone /\ dead.cine = q.cine /\ dead.state = q.state
      /\ dead.ideal = "dead"
  BY <1>1, <1>3, <1>4 DEF MonsterType
<1> HIDE DEF calm, dead
<1>6. m \in GoodMonster /\ calm \in GoodMonster /\ dead \in GoodMonster
  BY <1>1, <1>3, <1>4, <1>5 DEF GoodMonster
<1>7. n \in GoodMonster /\ n.gone = q.gone /\ n.cine = q.cine
  BY <1>4, <1>5, <1>6
<1> HIDE DEF n
<1>8. ActorIs(Now, a, n) \in GoodStates
  BY <1>7, ScriptedFacts, ActorIsGood DEF q
<1> QED
  BY <1>2, <1>8, ScriptedBecomeKeeps

LEMMA MonsterUseGood ==
    ASSUME ScriptedIInv, NEW a \in Actors, MonsterUse(a)
    PROVE  ScriptedIInv'
<1> DEFINE m == [actor[a] EXCEPT !.ideal = "alert"]
<1>1. m \in GoodMonster /\ m.gone = actor[a].gone /\ m.cine = actor[a].cine
  BY ScriptedFacts DEF MonsterUse, GoodMonster, MonsterType
<1>2. ScriptedBecome(ActorIs(Now, a, m))
  BY DEF MonsterUse
<1> HIDE DEF m
<1>3. ActorIs(Now, a, m) \in GoodStates
  BY <1>1, ScriptedFacts, ActorIsGood
<1> QED
  BY <1>2, <1>3, ScriptedBecomeKeeps

LEMMA StartFollowingGood ==
    ASSUME ScriptedIInv, NEW a \in Actors, NEW enemy \in BOOLEAN, StartFollowing(a, enemy)
    PROVE  ScriptedIInv'
<1> DEFINE s == IF actor[a].cine # NoScript THEN CancelScript(Now, actor[a].cine) ELSE Now
           ideal == IF enemy THEN "alert" ELSE s.actor[a].ideal
           m == [s.actor[a] EXCEPT !.task = "none", !.ideal = ideal]
<1>1. actor[a].deadflag = "no" /\ actor[a].state # "dead"
  BY ScriptedFacts DEF StartFollowing, IsAlive, GoodMonster
<1>2. ScriptedBecome(ActorIs(s, a, m))
  BY DEF StartFollowing
<1>3. s \in GoodStates /\ s.actor[a].state # "dead"
  BY <1>1, ScriptedFacts, CancelScriptGood
<1> HIDE DEF s
<1>4. s.actor[a] \in GoodMonster /\ s.actor[a] \in MonsterType
  BY <1>3, OneMonster
<1>5. ideal \in {"alert", s.actor[a].ideal}
  OBVIOUS
<1> HIDE DEF ideal
<1>6. m \in GoodMonster /\ m.gone = s.actor[a].gone /\ m.cine = s.actor[a].cine
  <2>1. /\ m \in MonsterType /\ m.gone = s.actor[a].gone /\ m.cine = s.actor[a].cine
        /\ m.state = s.actor[a].state /\ m.ideal = ideal
    BY <1>4, <1>5 DEF MonsterType
  <2> HIDE DEF m
  <2> QED
    BY <1>3, <1>4, <1>5, <2>1 DEF GoodMonster
<1> HIDE DEF m
<1>7. ActorIs(s, a, m) \in GoodStates
  BY <1>3, <1>6, ActorIsGood
<1> QED
  BY <1>2, <1>7, ScriptedBecomeKeeps

LEMMA ActorRemovedGood ==
    ASSUME ScriptedIInv, NEW a \in Actors, ActorRemoved(a)
    PROVE  ScriptedIInv'
<1> DEFINE gone == TRUE
           m == [actor[a] EXCEPT !.gone = gone]
           scripts == [c \in Scripts |-> IF script[c].target = a
                                         THEN [script[c] EXCEPT !.target = NoActor]
                                         ELSE script[c]]
           actors == [actor EXCEPT ![a] = m]
           s == [script |-> scripts, actor |-> actors]
<1>1. gone \in BOOLEAN /\ gone
  OBVIOUS
<1>2. ScriptedBecome(s)
  <2>1. ScriptedBecome(ActorIs([Now EXCEPT !.script = scripts], a, m))
    BY DEF ActorRemoved
  <2> HIDE DEF scripts, m
  <2>2. ActorIs([Now EXCEPT !.script = scripts], a, m) = s
    <3> DEFINE forgets == [Now EXCEPT !.script = scripts]
    <3>1. forgets = [script |-> scripts, actor |-> actor]
      BY DEF Now
    <3> HIDE DEF forgets
    <3>2. ActorIs(forgets, a, m) = s
      BY <3>1 DEF ActorIs
    <3> QED
      BY <3>2 DEF forgets
  <2> QED
    BY <2>1, <2>2
<1> HIDE DEF gone
<1>3. m \in GoodMonster /\ m.cine = actor[a].cine /\ m.gone
  <2>1. actor[a] \in GoodMonster /\ actor[a] \in MonsterType
    BY ScriptedFacts DEF GoodMonster
  <2>2. /\ m \in MonsterType /\ m.cine = actor[a].cine /\ m.gone = gone
        /\ m.state = actor[a].state /\ m.ideal = actor[a].ideal
        /\ m.deadflag = actor[a].deadflag /\ m.task = actor[a].task
    BY <1>1, <2>1 DEF MonsterType
  <2> HIDE DEF m
  <2> QED
    BY <1>1, <2>1, <2>2 DEF GoodMonster
<1> HIDE DEF m
<1>4. ASSUME NEW c \in Scripts
      PROVE  /\ scripts[c] \in CineType /\ scripts[c].gone = script[c].gone
             /\ scripts[c].think = script[c].think
             /\ script[c].target = a => scripts[c].target = NoActor
             /\ script[c].target # a => scripts[c].target = script[c].target
  <2>1. script[c] \in CineType
    BY ScriptedFacts
  <2> QED
    BY <2>1 DEF CineType
<1>5. /\ actors \in [Actors -> GoodMonster] /\ actors[a] = m
      /\ \A b \in Actors \ {a} : actors[b] = actor[b]
  BY <1>3, ScriptedFacts
<1>6. s \in ScriptedState /\ s.script = scripts /\ s.actor = actors
  <2>1. scripts \in [Scripts -> CineType]
    BY <1>4
  <2> QED
    BY <1>5, <2>1 DEF ScriptedState
<1> HIDE DEF scripts, actors, s
<1>7. ASSUME NEW b \in Actors, ~actors[b].gone, actors[b].cine # NoScript
      PROVE  ~scripts[actors[b].cine].gone /\ scripts[actors[b].cine].target = b
  <2>1. b # a /\ actors[b] = actor[b]
    BY <1>3, <1>5, <1>7
  <2>2. /\ actor[b].cine \in Scripts
        /\ ~script[actor[b].cine].gone /\ script[actor[b].cine].target = b
    BY <1>7, <2>1, ScriptedFacts DEF Linked
  <2> QED
    BY <1>4, <2>1, <2>2
<1>8. ASSUME NEW d \in Scripts, scripts[d].target # NoActor
      PROVE  /\ actors[scripts[d].target].cine = d /\ ~actors[scripts[d].target].gone
             /\ scripts[d].think # "CineThink"
  <2>1. script[d].target # a /\ scripts[d].target = script[d].target
        /\ scripts[d].think = script[d].think
    BY <1>4, <1>8
  <2>2. script[d].target \in Actors
    BY <1>8, <2>1, ScriptedFacts DEF CineType
  <2> QED
    BY <1>5, <1>8, <2>1, <2>2, ScriptedFacts DEF Linked
<1>9. LetGo(s)
  BY <1>4, <1>6, ScriptedFacts DEF LetGo
<1>10. s \in GoodStates
  BY <1>6, <1>7, <1>8, <1>9 DEF GoodStates, LinkedStates, Linked
<1> QED
  BY <1>2, <1>10, ScriptedBecomeKeeps

\* The scene of a map has its own scripts, and the monsters they name.
LEMMA ScriptedInitIInv ==
    ASSUME ScriptedInit
    PROVE  ScriptedIInv
<1>1. PICK scene \in Scenes :
      /\ script = [c \in scene |->
             LET thinks == Name(c) = "none" \/ ScriptConf[c].idle
             IN  [gone |-> FALSE, target |-> NoActor, m_iDelay |-> 0,
                  think |-> IF thinks THEN "CineThink" ELSE "none",
                  start |-> IF thinks /\ Name(c) # "none" THEN "never" ELSE "due",
                  interruptable |-> ~ScriptConf[c].noInterrupt]]
      /\ actor = [a \in UNION {Range(ScriptConf[c].entity) : c \in scene} |->
           [gone |-> FALSE, state |-> "idle", ideal |-> "idle", cine |-> NoScript,
            scriptState |-> "none", task |-> "other", failed |-> FALSE, hurt |-> FALSE,
            well |-> TRUE, killed |-> FALSE, deadflag |-> "no"]]
  BY DEF ScriptedInit
<1>2. scene = Scripts /\ Actors = UNION {Range(ScriptConf[c].entity) : c \in scene}
  BY <1>1 DEF Scripts, Actors
<1>3. Scripts \subseteq DOMAIN ScriptConf /\ NoScript \notin Scripts
  BY <1>2, ScriptedAssumption
<1>4. \A c \in Scripts : Range(ScriptConf[c].entity) \subseteq Actors
                         /\ NoActor \notin Range(ScriptConf[c].entity)
  BY <1>2, <1>3, ScriptedAssumption
<1>5. Cast
  BY <1>2, <1>3, <1>4 DEF Cast
<1>6. ASSUME NEW c \in Scripts
      PROVE  script[c] \in CineType /\ script[c].target = NoActor /\ script[c].think # "SUB_Remove"
             /\ script[c].m_iDelay = 0
  <2> DEFINE thinks == Name(c) = "none" \/ ScriptConf[c].idle
             think == IF thinks THEN "CineThink" ELSE "none"
             start == IF thinks /\ Name(c) # "none" THEN "never" ELSE "due"
             gone == FALSE
             open == ~ScriptConf[c].noInterrupt
  <2>1. script[c] = [gone |-> gone, target |-> NoActor, m_iDelay |-> 0, think |-> think,
                     start |-> start, interruptable |-> open]
    BY <1>1, <1>2
  <2>2. /\ think \in {"none", "CineThink"} /\ start \in {"due", "never"} /\ gone \in BOOLEAN
        /\ open \in BOOLEAN
    OBVIOUS
  <2> HIDE DEF think, start, gone, open
  <2> QED
    BY <2>1, <2>2 DEF CineType
<1>7. ASSUME NEW a \in Actors
      PROVE  actor[a] \in GoodMonster /\ actor[a].cine = NoScript
  <2> DEFINE no == FALSE
             yes == TRUE
  <2>1. actor[a] = [gone |-> no, state |-> "idle", ideal |-> "idle", cine |-> NoScript,
                    scriptState |-> "none", task |-> "other", failed |-> no, hurt |-> no,
                    well |-> yes, killed |-> no, deadflag |-> "no"]
    BY <1>1, <1>2
  <2>2. no \in BOOLEAN /\ yes \in BOOLEAN
    OBVIOUS
  <2> HIDE DEF no, yes
  <2>3. actor[a] \in MonsterType
    BY <2>1, <2>2 DEF MonsterType
  <2>4. actor[a].state = "idle" /\ actor[a].ideal = "idle" /\ actor[a].cine = NoScript
    BY <2>1
  <2> QED
    BY <2>3, <2>4 DEF GoodMonster
<1>8. script \in [Scripts -> CineType] /\ actor \in [Actors -> GoodMonster]
  BY <1>1, <1>2, <1>6, <1>7
<1>9. Now \in GoodStates
  <2>1. Now \in ScriptedState /\ Now.script = script /\ Now.actor = actor
    BY <1>8 DEF Now, ScriptedState
  <2> QED
    BY <1>6, <1>7, <2>1 DEF GoodStates, LinkedStates, Linked, LetGo
<1>10. \A c \in Scripts : script[c].m_iDelay \in -MaxDelayStart .. MaxDelayStart
  BY <1>6, ScriptedAssumption
<1> QED
  BY <1>5, <1>9, <1>10 DEF ScriptedIInv

LEMMA ScriptedNextIInv == ScriptedIInv /\ [ScriptedNext]_scriptedVars => ScriptedIInv'
<1> SUFFICES ASSUME ScriptedIInv, [ScriptedNext]_scriptedVars PROVE ScriptedIInv'
  OBVIOUS
<1>1. CASE \E c \in Scripts : ScriptUse(c) \/ CineThink(c) \/ SUB_Remove(c) \/ StartTimeComes(c)
  BY <1>1, ScriptUseGood, CineThinkGood, SUB_RemoveGood, StartTimeComesGood
<1>2. CASE \E a \in Actors : ActorRemoved(a) \/ \E finished \in BOOLEAN : MonsterThink(a, finished)
  BY <1>2, ActorRemovedGood, MonsterThinkGood
<1>3. CASE \E a \in Actors : \/ MonsterUse(a)
                             \/ \E b \in BOOLEAN : TakeDamage(a, b) \/ StartFollowing(a, b)
  BY <1>3, MonsterUseGood, TakeDamageGood, StartFollowingGood
<1>4. CASE UNCHANGED scriptedVars
  <2>1. script' = script /\ actor' = actor
    BY <1>4 DEF scriptedVars
  <2> QED
    BY <2>1 DEF ScriptedIInv, Cast, Now, Scripts, Actors, GoodStates, LinkedStates, ScriptedState,
                Linked, LetGo, CineType, GoodMonster, MonsterType
<1> QED
  BY <1>1, <1>2, <1>3, <1>4 DEF ScriptedNext

LEMMA ScriptedSpecIInv == ScriptedSpec => []ScriptedIInv
<1>1. ScriptedInit => ScriptedIInv
  BY ScriptedInitIInv
<1> QED
  BY <1>1, ScriptedNextIInv, PTL DEF ScriptedSpec

LEMMA ScriptedIInvType == ScriptedIInv => ScriptedTypeOK
<1> SUFFICES ASSUME ScriptedIInv PROVE ScriptedTypeOK
  OBVIOUS
<1>1. ASSUME NEW c \in Scripts
      PROVE  script[c] \in
         [gone : BOOLEAN, target : Actors \cup {NoActor},
          think : {"none", "CineThink", "SUB_Remove"}, m_iDelay : -MaxDelayStart .. MaxDelayStart,
          start : {"due", "soon", "never"}, interruptable : BOOLEAN]
  <2>1. script[c] \in CineType /\ script[c].m_iDelay \in -MaxDelayStart .. MaxDelayStart
    BY ScriptedFacts DEF ScriptedIInv
  <2> QED
    BY <2>1 DEF CineType
<1>2. ASSUME NEW a \in Actors
      PROVE  /\ actor[a] \in MonsterType
             /\ actor[a].state = "dead" =>
                   actor[a].ideal = "dead" /\ actor[a].deadflag # "no" /\ actor[a].task = "die"
  BY ScriptedFacts DEF GoodMonster
<1> QED
  BY <1>1, <1>2 DEF ScriptedTypeOK, MonsterType

\* Scripts and monsters have the fields and values of their code, and a
\* monster in the state dead is dead, to stay so (dlls/scripted.cpp,
\* dlls/monsterstate.cpp).
THEOREM ScriptedTypes == ScriptedSpec => []ScriptedTypeOK
  BY ScriptedSpecIInv, ScriptedIInvType, PTL

\* Whatever the scripts, and whoever is hurt, killed, invited or fired at: a
\* monster's m_pCine and a script's m_hTargetEnt point at each other, the
\* script of a monster is there, and a monster that is to be in a script has
\* one (CCineMonster::PossessEntity, CineCleanup, SequenceDone, CancelScript).
THEOREM ScriptsAgreeWithActors == ScriptedSpec => []ScriptsAndActorsAgree
<1>1. ScriptedIInv => ScriptsAndActorsAgree
  <2> SUFFICES ASSUME ScriptedIInv PROVE ScriptsAndActorsAgree
    OBVIOUS
  <2>1. /\ \A a \in Actors : ~actor[a].gone /\ actor[a].cine # NoScript =>
              ~script[actor[a].cine].gone /\ script[actor[a].cine].target = a
        /\ \A c \in Scripts : script[c].target # NoActor => actor[script[c].target].cine = c
    BY ScriptedFacts DEF Linked
  <2>2. ScriptStateHasScript
    BY ScriptedFacts DEF ScriptStateHasScript, GoodMonster
  <2> QED
    BY <2>1, <2>2 DEF ScriptsAndActorsAgree
<1> QED
  BY ScriptedSpecIInv, <1>1, PTL

-----------------------------------------------------------------------------
(* The count of walkers *)

Delivered == {"wait", "started", "play"}
Roams(m) == ~m.gone /\ m.scriptState = "walk" /\ m.task \notin Delivered
Walker(s, d) == \E a \in Actors : s.actor[a].cine = d /\ Roams(s.actor[a])
Walkers(s, c) == {d \in Group(c) : Walker(s, d)}
Counted(s) ==
    \A c \in Scripts : Proper(c) /\ ~script[c].gone =>
        s.script[c].m_iDelay >= Cardinality(Walkers(s, c))

\* A monster of a scripted_sequence that can be cancelled, and what else holds of
\* a monster at the end of each call: a script's task runs in the state of a
\* script, a script that is not left keeps its monster in it, a blow and a failed
\* walk are not left over from before, and one that plays has walked.
Led(m) == m.cine # NoScript /\ ~IsAI(m.cine)
Sane(m) ==
    /\ m.task \in ScriptTasks => m.state = "script"
    /\ m.state = "script" /\ Led(m) => m.ideal = "script"
    /\ m.hurt => m.deadflag # "dying"
    /\ m.failed => m.task \notin Delivered
    /\ Led(m) /\ m.scriptState = "playing" => m.task = "play"
    /\ Led(m) /\ Walks(m.cine) => m.scriptState \in {"walk", "playing"}
SaneAll(s) == \A a \in Actors : Sane(s.actor[a])

\* A call that puts nothing on a count or takes anything off, lets no script come or
\* go and sends no monster on a walk.
Steady(s, t) ==
    /\ \A c \in Scripts : /\ t.script[c].m_iDelay = s.script[c].m_iDelay
                          /\ t.script[c].gone = s.script[c].gone
    /\ \A d \in Scripts : ~IsAI(d) /\ Walker(t, d) => Walker(s, d)
SaneStates == {s \in GoodStates : SaneAll(s)}

LEMMA SteadyTwice ==
    ASSUME NEW s, NEW t, NEW u, Steady(s, t), Steady(t, u)
    PROVE  Steady(s, u)
  BY DEF Steady

LEMMA SteadySelf == \A s : Steady(s, s)
  BY DEF Steady

LEMMA GroupFacts ==
    ASSUME Cast, NEW c \in Scripts
    PROVE  /\ Group(c) \subseteq Scripts /\ IsFiniteSet(Group(c))
           /\ ~script[c].gone => c \in Group(c)
           /\ ~script[c].gone => Group(c) \subseteq Namesakes(c)
           /\ \A d \in Scripts : ~script[c].gone /\ ~script[d].gone => (d \in Group(c) <=> c \in Group(d))
<1>1. Group(c) \subseteq Scripts
  BY DEF Group
<1>2. IsFiniteSet(DOMAIN ScriptConf) /\ Group(c) \in SUBSET (DOMAIN ScriptConf)
  BY <1>1, ScriptedAssumption DEF Cast
<1>3. IsFiniteSet(Group(c))
  BY <1>2, FS_Subset
<1> QED
  BY <1>1, <1>3 DEF Group, Namesakes

LEMMA WalkerCount ==
    ASSUME Cast, NEW c \in Scripts, NEW s, NEW t, Walkers(t, c) \subseteq Walkers(s, c)
    PROVE  /\ Cardinality(Walkers(t, c)) \in Nat /\ Cardinality(Walkers(s, c)) \in Nat
           /\ Cardinality(Walkers(t, c)) <= Cardinality(Walkers(s, c))
<1>1. IsFiniteSet(Group(c)) /\ Walkers(s, c) \in SUBSET Group(c) /\ Walkers(t, c) \in SUBSET Group(c)
  BY GroupFacts DEF Walkers
<1>2. IsFiniteSet(Walkers(s, c)) /\ IsFiniteSet(Walkers(t, c))
  BY <1>1, FS_Subset
<1>3. Walkers(t, c) \in SUBSET Walkers(s, c)
  OBVIOUS
<1>4. Cardinality(Walkers(t, c)) <= Cardinality(Walkers(s, c))
  BY <1>2, <1>3, FS_Subset
<1> QED
  BY <1>2, <1>4, FS_CardinalityType

LEMMA SteadyCounts ==
    ASSUME Cast, NEW s, NEW t, Counted(s), Steady(s, t),
           \A c \in Scripts : s.script[c].m_iDelay \in Int
    PROVE  Counted(t)
<1> SUFFICES ASSUME NEW c \in Scripts, Proper(c), ~script[c].gone
             PROVE  t.script[c].m_iDelay >= Cardinality(Walkers(t, c))
  BY DEF Counted
<1>1. \A d \in Group(c) : d \in Scripts /\ ~IsAI(d)
  BY GroupFacts DEF Proper
<1>2. Walkers(t, c) \subseteq Walkers(s, c)
  BY <1>1 DEF Steady, Walkers
<1>3. s.script[c].m_iDelay >= Cardinality(Walkers(s, c)) /\ s.script[c].m_iDelay \in Int
      /\ t.script[c].m_iDelay = s.script[c].m_iDelay
  BY DEF Counted, Steady
<1> QED
  BY <1>2, <1>3, WalkerCount

\* One monster gets another record: it goes on a walk only if it was on one.
StillRoams(m, n) == Led(n) /\ Roams(n) => Roams(m) /\ m.cine = n.cine

LEMMA ActorSaneLinked ==
    ASSUME NEW s \in LinkedStates, SaneAll(s), NEW a \in Actors, NEW m,
           Sane(m), StillRoams(s.actor[a], m), NoScript \notin Scripts
    PROVE  /\ SaneAll(ActorIs(s, a, m)) /\ Steady(s, ActorIs(s, a, m))
           /\ ActorIs(s, a, m).actor[a] = m
<1> DEFINE t == ActorIs(s, a, m)
<1>1. /\ t.actor[a] = m /\ t.script = s.script
      /\ \A b \in Actors : b # a => t.actor[b] = s.actor[b]
  <2>1. s = [script |-> s.script, actor |-> s.actor] /\ DOMAIN s.actor = Actors
    BY DEF LinkedStates, ScriptedState
  <2>2. t.actor = [s.actor EXCEPT ![a] = m] /\ t.script = s.script
    BY <2>1 DEF ActorIs
  <2> QED
    BY <2>1, <2>2
<1> HIDE DEF t
<1>2. SaneAll(t)
  BY <1>1 DEF SaneAll
<1>3. ASSUME NEW d \in Scripts, ~IsAI(d), Walker(t, d) PROVE Walker(s, d)
  <2>1. PICK b \in Actors : t.actor[b].cine = d /\ Roams(t.actor[b])
    BY <1>3 DEF Walker
  <2>2. CASE b = a
    <3>1. Led(m) /\ Roams(m)
      BY <1>1, <1>3, <2>1, <2>2 DEF Led
    <3>2. s.actor[a].cine = d /\ Roams(s.actor[a])
      BY <1>1, <2>1, <2>2, <3>1 DEF StillRoams
    <3> QED
      BY <3>2 DEF Walker
  <2>3. CASE b # a
    BY <1>1, <2>1, <2>3 DEF Walker
  <2> QED
    BY <2>2, <2>3
<1> QED
  BY <1>1, <1>2, <1>3 DEF Steady, t

LEMMA ActorSane ==
    ASSUME NEW s \in SaneStates, NEW a \in Actors, NEW m, ActorIs(s, a, m) \in GoodStates,
           Sane(m), StillRoams(s.actor[a], m), NoScript \notin Scripts
    PROVE  /\ ActorIs(s, a, m) \in SaneStates /\ Steady(s, ActorIs(s, a, m))
           /\ ActorIs(s, a, m).actor[a] = m
<1>1. s \in LinkedStates /\ SaneAll(s)
  BY DEF SaneStates, GoodStates
<1>2. /\ SaneAll(ActorIs(s, a, m)) /\ Steady(s, ActorIs(s, a, m))
      /\ ActorIs(s, a, m).actor[a] = m
  BY <1>1, ActorSaneLinked
<1> QED
  BY <1>2 DEF SaneStates

\* Scripts change, but for their count, and monsters do not.
LEMMA ScriptsSteady ==
    ASSUME NEW s \in SaneStates, NEW t \in GoodStates, t.actor = s.actor,
           \A c \in Scripts : /\ t.script[c].m_iDelay = s.script[c].m_iDelay
                              /\ t.script[c].gone = s.script[c].gone
    PROVE  t \in SaneStates /\ Steady(s, t)
  BY DEF SaneStates, SaneAll, Steady, Walker

\* Monsters that are let go.
LEMMA CleanedSane ==
    ASSUME NEW m \in GoodMonster, Sane(m), NoScript \notin Scripts
    PROVE  Sane(Cleaned(m)) /\ ~Led(Cleaned(m))
<1> DEFINE n == Cleaned(m)
<1>1. /\ n.cine = NoScript /\ n.failed = m.failed
      /\ \/ n.task = "die"
         \/ n.task = m.task /\ n.state = m.state
      /\ n.hurt => n.deadflag # "dying"
  <2> DEFINE free == [m EXCEPT !.cine = NoScript, !.scriptState = "none"]
  <2>1. /\ free.cine = NoScript /\ free.failed = m.failed /\ free.task = m.task
        /\ free.state = m.state /\ free.hurt = m.hurt /\ free.deadflag = m.deadflag
        /\ free \in MonsterType
    BY DEF GoodMonster, MonsterType
  <2>2. n = IF m.deadflag = "dying"
            THEN [free EXCEPT !.well = FALSE, !.state = "dead", !.ideal = "dead",
                              !.deadflag = "dead", !.task = "die"]
            ELSE IF m.well THEN [free EXCEPT !.ideal = "idle"]
            ELSE [free EXCEPT !.ideal = "dead", !.hurt = TRUE]
    BY DEF Cleaned
  <2> HIDE DEF free, n
  <2>3. CASE m.deadflag = "dying"
    BY <2>1, <2>2, <2>3 DEF MonsterType
  <2>4. CASE m.deadflag # "dying"
    BY <2>1, <2>2, <2>4 DEF MonsterType
  <2> QED
    BY <2>3, <2>4
<1> HIDE DEF n
<1>2. Sane(n) /\ ~Led(n)
  BY <1>1 DEF Sane, Led, ScriptTasks, Delivered
<1> QED
  BY <1>2 DEF n

LEMMA CineCleanupSteady ==
    ASSUME NEW s \in LinkedStates, SaneAll(s), NEW A \in SUBSET Actors, NoScript \notin Scripts
    PROVE  /\ SaneAll(CineCleanup(s, A)) /\ Steady(s, CineCleanup(s, A))
           /\ \A a \in A : ~Led(CineCleanup(s, A).actor[a])
           /\ \A a \in A : CineCleanup(s, A).actor[a] = Cleaned(s.actor[a])
           /\ \A a \in Actors \ A : CineCleanup(s, A).actor[a] = s.actor[a]
<1> DEFINE t == CineCleanup(s, A)
           lost(c) == \E a \in A : s.actor[a].cine = c
<1>1. s.script \in [Scripts -> CineType] /\ s.actor \in [Actors -> GoodMonster]
  BY DEF LinkedStates, ScriptedState
<1>2. /\ t.script = [c \in Scripts |-> IF lost(c) THEN [s.script[c] EXCEPT !.target = NoActor]
                                       ELSE s.script[c]]
      /\ t.actor = [a \in Actors |-> IF a \in A THEN Cleaned(s.actor[a]) ELSE s.actor[a]]
  BY DEF CineCleanup
<1> HIDE DEF t, lost
<1>3. ASSUME NEW c \in Scripts
      PROVE  t.script[c].m_iDelay = s.script[c].m_iDelay /\ t.script[c].gone = s.script[c].gone
  <2>1. s.script[c] \in CineType
    BY <1>1
  <2>2. t.script[c] \in {s.script[c], [s.script[c] EXCEPT !.target = NoActor]}
    BY <1>2
  <2> QED
    BY <2>1, <2>2 DEF CineType
<1>4. ASSUME NEW a \in A PROVE t.actor[a] = Cleaned(s.actor[a]) /\ Sane(t.actor[a]) /\ ~Led(t.actor[a])
  <2>1. t.actor[a] = Cleaned(s.actor[a]) /\ s.actor[a] \in GoodMonster /\ Sane(s.actor[a])
    BY <1>1, <1>2 DEF SaneAll
  <2> QED
    BY <2>1, CleanedSane
<1>5. \A a \in Actors \ A : t.actor[a] = s.actor[a]
  BY <1>2
<1>6. SaneAll(t)
  BY <1>4, <1>5 DEF SaneAll
<1>7. ASSUME NEW d \in Scripts, ~IsAI(d), Walker(t, d) PROVE Walker(s, d)
  <2>1. PICK b \in Actors : t.actor[b].cine = d /\ Roams(t.actor[b])
    BY <1>7 DEF Walker
  <2>2. b \notin A
    BY <1>4, <1>7, <2>1 DEF Led
  <2> QED
    BY <1>5, <2>1, <2>2 DEF Walker
<1>8. Steady(s, t)
  BY <1>3, <1>7 DEF Steady
<1> QED
  BY <1>4, <1>5, <1>6, <1>8 DEF t

\* The states in which the count is right, with the scripts that are there now.
SameScripts(s) == \A d \in Scripts : s.script[d].gone = script[d].gone
FineStates == {s \in SaneStates : SameScripts(s) /\ Counted(s)}

LEMMA SteadyFine ==
    ASSUME Cast, NEW s \in FineStates, NEW t \in SaneStates, Steady(s, t)
    PROVE  t \in FineStates
<1>1. s \in SaneStates /\ SameScripts(s) /\ Counted(s)
  BY DEF FineStates
<1>2. s.script \in [Scripts -> CineType]
  BY <1>1 DEF SaneStates, GoodStates, LinkedStates, ScriptedState
<1>3. \A c \in Scripts : s.script[c].m_iDelay \in Int
  BY <1>2 DEF CineType
<1>4. Counted(t)
  BY <1>1, <1>3, SteadyCounts
<1>5. SameScripts(t)
  BY <1>1 DEF SameScripts, Steady
<1> QED
  BY <1>4, <1>5 DEF FineStates

LEMMA FineFacts ==
    ASSUME NEW s \in FineStates
    PROVE  s \in SaneStates /\ s \in GoodStates /\ SameScripts(s) /\ Counted(s)
           /\ \A a \in Actors : Sane(s.actor[a])
  BY DEF FineStates, SaneStates, SaneAll

\* CancelScript lets the monsters of its name go that play, or are to: the one of
\* the script itself, unless it is an aiscripted_sequence.
LEMMA CancelScriptSane ==
    ASSUME Cast, NEW s \in SaneStates, NEW c \in Scripts, SameScripts(s)
    PROVE  /\ CancelScript(s, c) \in SaneStates /\ Steady(s, CancelScript(s, c))
           /\ \A a \in Actors :
                 /\ CancelScript(s, c).actor[a] \in {s.actor[a], Cleaned(s.actor[a])}
                 /\ s.actor[a].cine = c /\ ~IsAI(c) /\ ~s.actor[a].gone
                    /\ "script" \in {s.actor[a].state, s.actor[a].ideal} =>
                       CancelScript(s, c).actor[a] = Cleaned(s.actor[a])
<1> DEFINE playing == {a \in Actors : /\ \E d \in Group(c) : ~IsAI(d) /\ s.script[d].target = a
                                      /\ "script" \in {s.actor[a].state, s.actor[a].ideal}}
           r == CineCleanup(s, playing)
<1>1. s \in GoodStates /\ s \in LinkedStates /\ Linked(s) /\ SaneAll(s) /\ NoScript \notin Scripts
  BY DEF SaneStates, GoodStates, LinkedStates, Cast
<1>2. CancelScript(s, c) = r
  BY DEF CancelScript
<1>3. playing \in SUBSET Actors
  OBVIOUS
<1>4. ASSUME NEW a \in Actors, s.actor[a].cine = c, ~IsAI(c), ~s.actor[a].gone,
             "script" \in {s.actor[a].state, s.actor[a].ideal}
      PROVE  a \in playing
  <2>1. ~s.script[c].gone /\ s.script[c].target = a
    BY <1>1, <1>4 DEF Linked
  <2>2. c \in Group(c)
    BY <2>1, GroupFacts DEF SameScripts
  <2> QED
    BY <1>4, <2>1, <2>2
<1>5. r \in GoodStates
  BY <1>1, <1>2, CancelScriptGood
<1> HIDE DEF playing
<1>6. /\ SaneAll(r) /\ Steady(s, r)
      /\ \A a \in playing : r.actor[a] = Cleaned(s.actor[a])
      /\ \A a \in Actors \ playing : r.actor[a] = s.actor[a]
  BY <1>1, <1>3, CineCleanupSteady
<1> HIDE DEF r
<1> QED
  BY <1>2, <1>4, <1>5, <1>6 DEF SaneStates

LEMMA SaneFacts ==
    ASSUME NEW s \in SaneStates, NEW a \in Actors
    PROVE  /\ s \in GoodStates /\ Sane(s.actor[a])
           /\ s.actor[a] \in GoodMonster /\ s.actor[a] \in MonsterType
           /\ s.actor[a].cine \in Scripts \cup {NoScript}
<1>1. s \in GoodStates /\ Sane(s.actor[a])
  BY DEF SaneStates, SaneAll
<1> QED
  BY <1>1, OneMonster

\* A monster of which only what is left over changes.
LEMMA CalmSane ==
    ASSUME NEW m \in MonsterType, Sane(m)
    PROVE  LET n == [m EXCEPT !.hurt = FALSE] IN Sane(n) /\ StillRoams(m, n)
<1> DEFINE n == [m EXCEPT !.hurt = FALSE]
<1>1. /\ n.gone = m.gone /\ n.state = m.state /\ n.ideal = m.ideal /\ n.cine = m.cine
      /\ n.scriptState = m.scriptState /\ n.task = m.task /\ n.failed = m.failed
      /\ n.deadflag = m.deadflag /\ ~n.hurt
  BY DEF MonsterType
<1> HIDE DEF n
<1>2. Sane(n) /\ StillRoams(m, n)
  BY <1>1 DEF Sane, StillRoams, Led, Roams
<1> QED
  BY <1>2 DEF n

LEMMA IgnoredSane ==
    ASSUME NEW s \in SaneStates, NEW a \in Actors, NEW pvs \in BOOLEAN, NoScript \notin Scripts
    PROVE  Ignored(s, a, pvs) \in SaneStates /\ Steady(s, Ignored(s, a, pvs))
<1> DEFINE n == [s.actor[a] EXCEPT !.hurt = FALSE]
<1>1. s \in GoodStates /\ s.actor[a] \in GoodMonster /\ s.actor[a] \in MonsterType
      /\ Sane(s.actor[a])
  BY SaneFacts
<1>2. Sane(n) /\ StillRoams(s.actor[a], n)
  BY <1>1, CalmSane
<1>3. n \in GoodMonster /\ n.gone = s.actor[a].gone /\ n.cine = s.actor[a].cine
  BY <1>1, TasksGood
<1>4. Ignored(s, a, pvs) \in {s, ActorIs(s, a, n)}
  BY DEF Ignored
<1> HIDE DEF n
<1>5. ActorIs(s, a, n) \in GoodStates
  BY <1>1, <1>3, ActorIsGood
<1>6. ActorIs(s, a, n) \in SaneStates /\ Steady(s, ActorIs(s, a, n))
  BY <1>2, <1>5, ActorSane
<1> QED
  BY <1>4, <1>6, SteadySelf

\* A new schedule in the state the monster is to be in.
Idles(m) == Led(m) => m.task \notin Delivered
LEMMA NextSane ==
    ASSUME NEW m \in GoodMonster, Sane(m), ~m.gone, Idles(m)
    PROVE  LET n == [m EXCEPT !.state = m.ideal, !.failed = FALSE, !.hurt = FALSE]
           IN  /\ LET o == [n EXCEPT !.task = "other"]
                  IN  m.ideal # "script" => Sane(o) /\ StillRoams(m, o)
               /\ LET o == [n EXCEPT !.task = "die", !.deadflag = "dying"]
                  IN  m.ideal = "dead" => Sane(o) /\ StillRoams(m, o)
               /\ \A c : LET o == [n EXCEPT !.task = IF Walks(c) THEN "walk" ELSE "wait",
                                            !.failed = FALSE, !.hurt = FALSE]
                         IN  m.ideal = "script" /\ c = m.cine => Sane(o) /\ StillRoams(m, o)
<1> DEFINE n == [m EXCEPT !.state = m.ideal, !.failed = FALSE, !.hurt = FALSE]
<1>1. m \in MonsterType /\ (m.ideal = "script" => m.cine # NoScript)
  BY DEF GoodMonster
<1>2. /\ n \in MonsterType
      /\ n.gone = m.gone /\ n.state = m.ideal /\ n.ideal = m.ideal /\ n.cine = m.cine
      /\ n.scriptState = m.scriptState /\ n.deadflag = m.deadflag /\ ~n.failed /\ ~n.hurt
  BY <1>1 DEF MonsterType
<1>3. /\ m.task \in ScriptTasks => m.state = "script"
      /\ m.state = "script" /\ Led(m) => m.ideal = "script"
      /\ Led(m) /\ m.scriptState = "playing" => m.task = "play"
      /\ Led(m) /\ Walks(m.cine) => m.scriptState \in {"walk", "playing"}
      /\ Led(m) => m.task \notin Delivered
  BY DEF Sane, Idles
<1> HIDE DEF n
<1>4. LET o == [n EXCEPT !.task = "other"]
      IN  m.ideal # "script" => Sane(o) /\ StillRoams(m, o)
  <2> DEFINE o == [n EXCEPT !.task = "other"]
  <2>1. /\ o.gone = m.gone /\ o.state = m.ideal /\ o.ideal = m.ideal /\ o.cine = m.cine
        /\ o.scriptState = m.scriptState /\ o.task = "other" /\ ~o.failed /\ ~o.hurt
    BY <1>2 DEF MonsterType
  <2> HIDE DEF o
  <2>2. m.ideal # "script" => Sane(o) /\ StillRoams(m, o)
    BY <1>3, <2>1 DEF Sane, StillRoams, Led, Roams, ScriptTasks, Delivered
  <2> QED
    BY <2>2 DEF o
<1>5. LET o == [n EXCEPT !.task = "die", !.deadflag = "dying"]
      IN  m.ideal = "dead" => Sane(o) /\ StillRoams(m, o)
  <2> DEFINE o == [n EXCEPT !.task = "die", !.deadflag = "dying"]
  <2>1. /\ o.gone = m.gone /\ o.state = m.ideal /\ o.ideal = m.ideal /\ o.cine = m.cine
        /\ o.scriptState = m.scriptState /\ o.task = "die" /\ ~o.failed /\ ~o.hurt
    BY <1>2 DEF MonsterType
  <2> HIDE DEF o
  <2>2. m.ideal = "dead" => Sane(o) /\ StillRoams(m, o)
    BY <1>3, <2>1 DEF Sane, StillRoams, Led, Roams, ScriptTasks, Delivered
  <2> QED
    BY <2>2 DEF o
<1>6. ASSUME NEW c, m.ideal = "script", c = m.cine
      PROVE  LET o == [n EXCEPT !.task = IF Walks(c) THEN "walk" ELSE "wait",
                                !.failed = FALSE, !.hurt = FALSE]
             IN  Sane(o) /\ StillRoams(m, o)
  <2> DEFINE task == IF Walks(c) THEN "walk" ELSE "wait"
             o == [n EXCEPT !.task = task, !.failed = FALSE, !.hurt = FALSE]
  <2>1. task \in {"walk", "wait"} /\ (Walks(m.cine) => task = "walk")
    BY <1>6
  <2> HIDE DEF task
  <2>2. /\ o.gone = m.gone /\ o.state = m.ideal /\ o.ideal = m.ideal /\ o.cine = m.cine
        /\ o.scriptState = m.scriptState /\ o.task = task /\ ~o.failed /\ ~o.hurt
    BY <1>2, <2>1 DEF MonsterType
  <2> HIDE DEF o
  <2>3. Led(o) => Led(m)
    BY <2>2 DEF Led
  <2>4. Led(m) => m.scriptState # "playing"
    BY <1>3 DEF Delivered
  <2>5. Sane(o)
    BY <1>3, <1>6, <2>2, <2>3, <2>4 DEF Sane
  <2>6. StillRoams(m, o)
    BY <1>3, <2>2, <2>3 DEF StillRoams, Roams
  <2> QED
    BY <2>5, <2>6 DEF o, task
<1> QED
  BY <1>4, <1>5, <1>6 DEF n

\* A blow takes a monster that can be cancelled out of what it plays.
LEMMA GetIdealStateSane ==
    ASSUME Cast, NEW s \in SaneStates, NEW a \in Actors, SameScripts(s), ~s.actor[a].gone
    PROVE  LET t == GetIdealState(s, a)
           IN  /\ t \in SaneStates /\ Steady(s, t)
               /\ Idles(s.actor[a]) \/ s.actor[a].hurt => Idles(t.actor[a])
<1> DEFINE m == s.actor[a]
           alert == [m EXCEPT !.ideal = "alert"]
           t == GetIdealState(s, a)
<1>0. NoScript \notin Scripts
  BY DEF Cast
<1>1. s \in GoodStates /\ Sane(m) /\ m \in GoodMonster /\ m \in MonsterType
      /\ m.cine \in Scripts \cup {NoScript}
  BY SaneFacts
<1>2. /\ m.task \in ScriptTasks => m.state = "script"
      /\ m.state = "script" /\ Led(m) => m.ideal = "script"
      /\ m.hurt => m.deadflag # "dying"
  BY <1>1 DEF Sane
<1>3. t = IF ~m.hurt \/ m.task \notin ScriptTasks \cup {"other"} THEN s
          ELSE IF m.state = "idle" THEN ActorIs(s, a, alert)
          ELSE IF m.state # "script" THEN s
          ELSE IF m.cine # NoScript THEN CancelScript(s, m.cine)
          ELSE s
  BY <1>2 DEF GetIdealState
<1> HIDE DEF t
<1>4. m.task \in Delivered => m.task \in ScriptTasks
  BY DEF Delivered, ScriptTasks
<1>5. CASE ~m.hurt \/ m.task \notin ScriptTasks \cup {"other"}
  <2>1. t = s
    BY <1>3, <1>5
  <2>2. m.task \notin ScriptTasks => Idles(m)
    BY <1>4 DEF Idles
  <2>3. Idles(m) \/ m.hurt => Idles(m)
    BY <1>5, <2>2
  <2> QED
    BY <2>1, <2>3, SteadySelf DEF t
<1>6. CASE m.hurt /\ m.task \in ScriptTasks \cup {"other"} /\ m.state = "idle"
  <2>1. /\ alert \in MonsterType /\ alert.gone = m.gone /\ alert.cine = m.cine
        /\ alert.state = "idle" /\ alert.task = m.task /\ alert.scriptState = m.scriptState
        /\ alert.hurt = m.hurt /\ alert.failed = m.failed /\ alert.deadflag = m.deadflag
        /\ alert.ideal = "alert"
    BY <1>1, <1>6 DEF MonsterType
  <2> HIDE DEF alert
  <2>2. alert \in GoodMonster
    BY <2>1 DEF GoodMonster
  <2>3. Sane(alert) /\ StillRoams(m, alert)
    BY <1>1, <1>6, <2>1 DEF Sane, StillRoams, Led, Roams
  <2>4. ActorIs(s, a, alert) \in GoodStates
    BY <1>1, <2>1, <2>2, ActorIsGood
  <2>5. ActorIs(s, a, alert) \in SaneStates /\ Steady(s, ActorIs(s, a, alert))
        /\ ActorIs(s, a, alert).actor[a] = alert
    BY <1>0, <2>3, <2>4, ActorSane
  <2>6. alert.task \notin Delivered
    BY <1>2, <1>4, <1>6, <2>1
  <2>7. t = ActorIs(s, a, alert)
    BY <1>3, <1>6
  <2> QED
    BY <2>5, <2>6, <2>7 DEF t, Idles
<1>7. CASE m.hurt /\ m.task \in ScriptTasks \cup {"other"} /\ m.state # "idle" /\ m.state # "script"
  <2>1. t = s
    BY <1>3, <1>7
  <2>2. Idles(m)
    BY <1>2, <1>4, <1>7 DEF Idles
  <2> QED
    BY <2>1, <2>2, SteadySelf DEF t
<1>8. CASE m.hurt /\ m.task \in ScriptTasks \cup {"other"} /\ m.state = "script" /\ m.cine = NoScript
  <2>1. t = s
    BY <1>3, <1>8
  <2>2. Idles(m)
    BY <1>8 DEF Idles, Led
  <2> QED
    BY <2>1, <2>2, SteadySelf DEF t
<1>9. CASE m.hurt /\ m.task \in ScriptTasks \cup {"other"} /\ m.state = "script" /\ m.cine # NoScript
  <2>1. t = CancelScript(s, m.cine) /\ m.cine \in Scripts
    BY <1>1, <1>3, <1>9
  <2>2. /\ t \in SaneStates /\ Steady(s, t)
        /\ t.actor[a] \in {m, Cleaned(m)}
        /\ ~IsAI(m.cine) => t.actor[a] = Cleaned(m)
    BY <1>9, <2>1, CancelScriptSane
  <2>3. ~Led(Cleaned(m))
    BY <1>0, <1>1, CleanedSane
  <2>4. IsAI(m.cine) => ~Led(m)
    BY DEF Led
  <2>5. Idles(t.actor[a])
    BY <2>2, <2>3, <2>4 DEF Idles
  <2> QED
    BY <2>2, <2>5 DEF t
<1> QED
  BY <1>5, <1>6, <1>7, <1>8, <1>9

LEMMA SetStateSane ==
    ASSUME Cast, NEW s \in SaneStates, NEW a \in Actors, ~s.actor[a].gone, Idles(s.actor[a])
    PROVE  LET t == SetState(s, a)
           IN  t \in SaneStates /\ Steady(s, t) /\ ~t.actor[a].failed
<1> DEFINE q == s.actor[a]
           m == [q EXCEPT !.state = q.ideal, !.failed = FALSE, !.hurt = FALSE]
           dying == [m EXCEPT !.task = "die", !.deadflag = "dying"]
           other == [m EXCEPT !.task = "other"]
           acts(c) == [m EXCEPT !.task = IF Walks(c) THEN "walk" ELSE "wait",
                                !.failed = FALSE, !.hurt = FALSE]
           calm == ActorIs(s, a, m)
           t == SetState(s, a)
<1>0. NoScript \notin Scripts
  BY DEF Cast
<1>1. s \in GoodStates /\ Sane(q) /\ q \in GoodMonster /\ q \in MonsterType
      /\ q.cine \in Scripts \cup {NoScript} /\ (q.ideal = "script" => q.cine # NoScript)
  BY SaneFacts DEF GoodMonster
<1>2. t \in GoodStates
  BY <1>1, SetStateGood
<1>3. /\ q.ideal # "script" => Sane(other) /\ StillRoams(q, other)
      /\ q.ideal = "dead" => Sane(dying) /\ StillRoams(q, dying)
      /\ q.ideal = "script" => Sane(acts(q.cine)) /\ StillRoams(q, acts(q.cine))
  BY <1>1, NextSane
<1>4. m.ideal = q.ideal /\ m.cine = q.cine /\ m \in MonsterType
  BY <1>1 DEF MonsterType
<1>5. /\ ~other.failed /\ ~dying.failed
      /\ \A c : ~acts(c).failed
  <2> HIDE DEF q
  <2>1. ~m.failed
    BY <1>1 DEF MonsterType
  <2> HIDE DEF m
  <2> QED
    BY <1>4, <2>1 DEF MonsterType
<1>6. t \in {ActorIs(s, a, dying), ActorIs(s, a, other), ScriptSchedule(calm, a, q.cine)}
      /\ (t = ActorIs(s, a, dying) \/ q.ideal # "dead")
      /\ (t = ScriptSchedule(calm, a, q.cine) \/ q.ideal # "script")
      /\ (q.ideal \notin {"dead", "script"} => t = ActorIs(s, a, other))
  <2>1. t = CASE m.ideal = "dead" -> ActorIs(s, a, dying)
              [] m.ideal = "script" /\ m.cine # NoScript -> ScriptSchedule(calm, a, m.cine)
              [] m.ideal = "script" /\ m.cine = NoScript ->
                   ActorIs(CineCleanup(calm, {a}), a, [CineCleanup(calm, {a}).actor[a] EXCEPT !.task = "other"])
              [] OTHER -> ActorIs(s, a, other)
    BY DEF SetState
  <2> HIDE DEF m, t, dying, other, calm
  <2> QED
    BY <1>1, <1>4, <2>1
<1>7. ScriptSchedule(calm, a, q.cine) = ActorIs(s, a, acts(q.cine))
  <2>1. s = [script |-> s.script, actor |-> s.actor] /\ s.actor \in [Actors -> GoodMonster]
    BY <1>1 DEF GoodStates, LinkedStates, ScriptedState
  <2> HIDE DEF m
  <2>2. calm = [script |-> s.script, actor |-> [s.actor EXCEPT ![a] = m]]
    BY <2>1 DEF ActorIs
  <2> HIDE DEF calm
  <2>3. calm.actor[a] = m /\ calm.actor = [s.actor EXCEPT ![a] = m] /\ calm.script = s.script
    BY <2>1, <2>2
  <2>4. ScriptSchedule(calm, a, q.cine) = ActorIs(calm, a, acts(q.cine))
    BY <2>3 DEF ScriptSchedule
  <2> HIDE DEF acts
  <2>5. ActorIs(calm, a, acts(q.cine)) = [script |-> s.script,
                                         actor |-> [calm.actor EXCEPT ![a] = acts(q.cine)]]
    BY <2>2, <2>3 DEF ActorIs
  <2>6. [calm.actor EXCEPT ![a] = acts(q.cine)] = [s.actor EXCEPT ![a] = acts(q.cine)]
    BY <2>1, <2>3
  <2>7. ActorIs(s, a, acts(q.cine)) = [script |-> s.script,
                                      actor |-> [s.actor EXCEPT ![a] = acts(q.cine)]]
    BY <2>1 DEF ActorIs
  <2> QED
    BY <2>4, <2>5, <2>6, <2>7
<1> HIDE DEF t, calm, dying, other, acts
<1>8. ASSUME NEW n, t = ActorIs(s, a, n), Sane(n), StillRoams(q, n), ~n.failed
      PROVE  t \in SaneStates /\ Steady(s, t) /\ ~t.actor[a].failed
  BY <1>0, <1>2, <1>8, ActorSane
<1>9. t \in SaneStates /\ Steady(s, t) /\ ~t.actor[a].failed
  BY <1>3, <1>5, <1>6, <1>7, <1>8
<1> QED
  BY <1>9 DEF t

LEMMA ChangeScheduleSane ==
    ASSUME Cast, NEW s \in SaneStates, NEW a \in Actors, SameScripts(s), NEW done \in BOOLEAN,
           ~s.actor[a].gone, s.actor[a].state # "dead",
           Idles(s.actor[a]) \/ (s.actor[a].hurt /\ ~done)
    PROVE  LET t == ChangeSchedule(s, a, done)
           IN  t \in SaneStates /\ Steady(s, t) /\ ~t.actor[a].failed
<1> DEFINE q == s.actor[a]
           asks == /\ q.ideal # "dead" /\ (q.ideal = "script" => q.state = "script")
                   /\ (q.hurt \/ q.failed) /\ ~done
           t == IF asks THEN GetIdealState(s, a) ELSE s
           fail == [t.actor[a] EXCEPT !.task = "fail", !.failed = FALSE, !.hurt = FALSE]
           u == ChangeSchedule(s, a, done)
<1>0. NoScript \notin Scripts
  BY DEF Cast
<1>1. u = IF t.actor[a].failed /\ t.actor[a].state = t.actor[a].ideal
          THEN ActorIs(t, a, fail) ELSE SetState(t, a)
  BY DEF ChangeSchedule
<1>2. s \in GoodStates /\ Sane(q)
  BY SaneFacts
<1>3. u \in GoodStates
  BY <1>2, ChangeScheduleGood
<1>4. ~asks => Idles(q)
  <2>1. ASSUME ~Idles(q) PROVE q.ideal = "script" /\ q.state = "script"
    BY <1>2, <2>1 DEF Sane, Idles, Delivered, ScriptTasks
  <2> QED
    BY <2>1
<1> HIDE DEF u
<1>5. t \in SaneStates /\ Steady(s, t) /\ Idles(t.actor[a]) /\ ~t.actor[a].gone
      /\ t.actor[a].state # "dead"
  <2>1. CASE asks
    <3>1. t = GetIdealState(s, a)
      BY <2>1
    <3>2. t \in SaneStates /\ Steady(s, t) /\ Idles(t.actor[a])
      BY <3>1, GetIdealStateSane
    <3>3. t.actor[a].gone = q.gone /\ t.actor[a].state # "dead"
      BY <1>2, <3>1, GetIdealStateGood
    <3> QED
      BY <3>2, <3>3
  <2>2. CASE ~asks
    BY <1>4, <2>2, SteadySelf
  <2> QED
    BY <2>1, <2>2
<1> HIDE DEF asks, t
<1>6. CASE t.actor[a].failed /\ t.actor[a].state = t.actor[a].ideal
  <2> DEFINE m == t.actor[a]
  <2>1. Sane(m) /\ m \in MonsterType
    BY <1>5, SaneFacts
  <2>2. /\ fail.gone = m.gone /\ fail.state = m.state /\ fail.ideal = m.ideal
        /\ fail.cine = m.cine /\ fail.scriptState = m.scriptState /\ fail.task = "fail"
        /\ ~fail.failed /\ ~fail.hurt
    BY <2>1 DEF MonsterType
  <2>3. u = ActorIs(t, a, fail)
    BY <1>1, <1>6
  <2> HIDE DEF fail, m
  <2>4. m.task \notin Delivered
    BY <1>6, <2>1 DEF Sane, m
  <2>5. Sane(fail)
    BY <2>1, <2>2, <2>4 DEF Sane, Led, ScriptTasks, Delivered
  <2>6. StillRoams(m, fail)
    BY <2>2, <2>4 DEF StillRoams, Roams
  <2>7. u \in SaneStates /\ Steady(t, u) /\ u.actor[a] = fail
    BY <1>0, <1>3, <1>5, <2>3, <2>5, <2>6, ActorSane DEF m
  <2>8. Steady(s, u)
    BY <1>5, <2>7, SteadyTwice
  <2> QED
    BY <2>2, <2>7, <2>8 DEF u
<1>7. CASE ~(t.actor[a].failed /\ t.actor[a].state = t.actor[a].ideal)
  <2>1. u = SetState(t, a)
    BY <1>1, <1>7
  <2>2. u \in SaneStates /\ Steady(t, u) /\ ~u.actor[a].failed
    BY <1>5, <2>1, SetStateSane
  <2>3. Steady(s, u)
    BY <1>5, <2>2, SteadyTwice
  <2> QED
    BY <2>2, <2>3 DEF u
<1> QED
  BY <1>6, <1>7

LEMMA MaintainedSane ==
    ASSUME Cast, NEW s \in SaneStates, NEW a \in Actors, SameScripts(s),
           NEW finished \in BOOLEAN, ~s.actor[a].gone, s.actor[a].state # "dead"
    PROVE  LET t == Maintained(s, a, finished)
           IN  t \in SaneStates /\ Steady(s, t) /\ ~t.actor[a].failed
<1> DEFINE m == s.actor[a]
           done == finished /\ m.task \in {"other", "fail", "ambush"}
<1>1. /\ StillValid(m, done) => Maintained(s, a, finished) = s
      /\ ~StillValid(m, done) => Maintained(s, a, finished) = ChangeSchedule(s, a, done)
      /\ done \in BOOLEAN
  BY DEF Maintained
<1>2. Sane(m)
  BY SaneFacts
<1>3. StillValid(m, done) => ~m.failed
  BY DEF StillValid
<1>4. done => m.task \notin Delivered
  BY DEF Delivered
<1> HIDE DEF done
<1>5. ASSUME ~StillValid(m, done), ~Idles(m) PROVE m.hurt /\ ~done
  <2>1. Led(m) /\ m.task \in Delivered
    BY <1>5 DEF Idles
  <2>2. m.state = "script" /\ m.ideal = "script" /\ ~m.failed /\ m.task # "none"
    BY <1>2, <2>1 DEF Sane, Delivered, ScriptTasks
  <2> QED
    BY <1>4, <1>5, <2>1, <2>2 DEF StillValid
<1>6. CASE StillValid(m, done)
  BY <1>1, <1>3, <1>6, SteadySelf
<1>7. CASE ~StillValid(m, done)
  <2>1. Idles(m) \/ (m.hurt /\ ~done)
    BY <1>5, <1>7
  <2>2. LET t == ChangeSchedule(s, a, done)
        IN  t \in SaneStates /\ Steady(s, t) /\ ~t.actor[a].failed
    BY <1>1, <2>1, ChangeScheduleSane
  <2> QED
    BY <1>1, <1>7, <2>2
<1> QED
  BY <1>6, <1>7

\* CCineMonster::Use puts nothing on a count.
LEMMA UseScriptsSteady ==
    ASSUME NEW s \in LinkedStates, NEW name
    PROVE  UseScripts(s, name).actor = s.actor /\ Steady(s, UseScripts(s, name))
<1> DEFINE used(c) ==
        IF name = "none" \/ Name(c) # name \/ s.script[c].gone THEN s.script[c]
        ELSE IF s.script[c].target = NoActor THEN [s.script[c] EXCEPT !.think = "CineThink"]
        ELSE IF s.actor[s.script[c].target].scriptState = "playing" THEN s.script[c]
        ELSE [s.script[c] EXCEPT !.start = "soon"]
           t == UseScripts(s, name)
<1>1. s.script \in [Scripts -> CineType] /\ s = [script |-> s.script, actor |-> s.actor]
  BY DEF LinkedStates, ScriptedState
<1>2. t = [s EXCEPT !.script = [c \in Scripts |-> used(c)]]
  BY DEF UseScripts
<1> HIDE DEF t
<1>3. ASSUME NEW c \in Scripts
      PROVE  used(c).m_iDelay = s.script[c].m_iDelay /\ used(c).gone = s.script[c].gone
  <2>1. s.script[c] \in CineType
    BY <1>1
  <2>2. used(c) \in {s.script[c], [s.script[c] EXCEPT !.think = "CineThink"],
                     [s.script[c] EXCEPT !.start = "soon"]}
    OBVIOUS
  <2> HIDE DEF used
  <2> QED
    BY <2>1, <2>2 DEF CineType
<1> HIDE DEF used
<1>4. t.actor = s.actor /\ \A c \in Scripts : t.script[c] = used(c)
  BY <1>1, <1>2
<1> QED
  BY <1>3, <1>4 DEF Steady, Walker, t

LEMMA SequenceDoneSane ==
    ASSUME Cast, NEW s \in SaneStates, NEW a \in Actors, NEW c \in Scripts,
           s.actor[a].cine = c, ~s.actor[a].gone, s.actor[a].state # "dead"
    PROVE  SequenceDone(s, c, a) \in SaneStates /\ Steady(s, SequenceDone(s, c, a))
<1> DEFINE ends == [s.script[c] EXCEPT !.think = "SUB_Remove"]
           over == IF ScriptConf[c].repeatable THEN s ELSE ScriptIs(s, c, ends)
           free == CineCleanup(over, {a})
           m == free.actor[a]
           other == [m EXCEPT !.task = "ambush", !.hurt = FALSE, !.failed = FALSE]
           none == [m EXCEPT !.task = "none"]
           fixed == IF m.state = "dead" THEN free
                    ELSE IF IsAI(c) /\ ScriptConf[c].ambush THEN ActorIs(free, a, other)
                    ELSE ActorIs(free, a, none)
           t == SequenceDone(s, c, a)
<1>0. NoScript \notin Scripts
  BY DEF Cast
<1>1. /\ s \in GoodStates /\ s \in LinkedStates /\ SaneAll(s)
      /\ s.actor \in [Actors -> GoodMonster] /\ s.script \in [Scripts -> CineType]
  BY DEF SaneStates, GoodStates, LinkedStates, ScriptedState
<1>2. t = UseScripts(fixed, ScriptConf[c].target)
  BY DEF SequenceDone
<1>3. t \in GoodStates
  BY <1>1, SequenceDoneGood
<1> HIDE DEF t
<1>4. over \in LinkedStates /\ over.actor = s.actor /\ Steady(s, over)
  <2>1. ends \in CineType /\ ends.target = s.script[c].target /\ ends.gone = s.script[c].gone
        /\ ends.think = "SUB_Remove" /\ ends.m_iDelay = s.script[c].m_iDelay
    BY <1>1 DEF CineType
  <2> HIDE DEF ends
  <2>2. /\ ScriptIs(s, c, ends) \in LinkedStates
        /\ ScriptIs(s, c, ends).script = [s.script EXCEPT ![c] = ends]
        /\ ScriptIs(s, c, ends).actor = s.actor
    BY <1>1, <2>1, ScriptIsLinked
  <2>3. \A d \in Scripts : /\ ScriptIs(s, c, ends).script[d].m_iDelay = s.script[d].m_iDelay
                           /\ ScriptIs(s, c, ends).script[d].gone = s.script[d].gone
    BY <1>1, <2>1, <2>2
  <2>4. Steady(s, ScriptIs(s, c, ends))
    BY <2>2, <2>3 DEF Steady, Walker
  <2> QED
    BY <1>1, <2>2, <2>4, SteadySelf
<1> HIDE DEF over
<1>5. SaneAll(over)
  BY <1>1, <1>4 DEF SaneAll
<1>6. free \in LinkedStates /\ SaneAll(free) /\ Steady(over, free) /\ ~Led(m)
  <2>1. \A b \in {a} : ~over.actor[b].gone /\ over.actor[b].state # "dead"
    BY <1>4
  <2>2. free \in LinkedStates
    BY <1>4, <2>1, CineCleanupGood
  <2>3. SaneAll(free) /\ Steady(over, free) /\ ~Led(m)
    BY <1>0, <1>4, <1>5, CineCleanupSteady
  <2> QED
    BY <2>2, <2>3
<1> HIDE DEF free
<1>7. m \in GoodMonster /\ m \in MonsterType /\ Sane(m)
  BY <1>6 DEF LinkedStates, ScriptedState, GoodMonster, SaneAll
<1>8. ASSUME m.state # "dead", NEW n \in {other, none}
      PROVE  /\ n \in GoodMonster /\ n.gone = m.gone /\ n.cine = m.cine
             /\ Sane(n) /\ StillRoams(m, n)
  <2> HIDE DEF m
  <2>1. /\ n \in MonsterType /\ n.gone = m.gone /\ n.cine = m.cine /\ n.state = m.state
        /\ n.ideal = m.ideal /\ n.deadflag = m.deadflag /\ n.task \notin ScriptTasks
        /\ n.task \notin Delivered /\ (n.hurt => m.hurt)
    BY <1>7, <1>8 DEF MonsterType, ScriptTasks, Delivered
  <2> HIDE DEF other, none
  <2>2. n \in GoodMonster
    BY <1>7, <1>8, <2>1 DEF GoodMonster
  <2>3. ~Led(n)
    BY <1>6, <2>1 DEF Led, m
  <2>4. Sane(n) /\ StillRoams(m, n)
    BY <1>7, <2>1, <2>3 DEF Sane, StillRoams
  <2> QED
    BY <2>1, <2>2, <2>4
<1> HIDE DEF other, none
<1>9. fixed \in LinkedStates /\ SaneAll(fixed) /\ Steady(free, fixed)
  <2>1. CASE m.state = "dead"
    BY <1>6, <2>1, SteadySelf
  <2>2. CASE m.state # "dead"
    <3>1. PICK n \in {other, none} : fixed = ActorIs(free, a, n)
      BY <2>2
    <3>2. n \in GoodMonster /\ n.gone = m.gone /\ n.cine = m.cine /\ Sane(n) /\ StillRoams(m, n)
      BY <1>8, <2>2
    <3>3. ActorIs(free, a, n) \in LinkedStates
      BY <1>6, <3>2, ActorIsLinked
    <3>4. SaneAll(ActorIs(free, a, n)) /\ Steady(free, ActorIs(free, a, n))
      BY <1>0, <1>6, <3>2, ActorSaneLinked
    <3> QED
      BY <3>1, <3>3, <3>4
  <2> QED
    BY <2>1, <2>2
<1> HIDE DEF fixed
<1>10. t.actor = fixed.actor /\ Steady(fixed, t)
  BY <1>2, <1>9, UseScriptsSteady
<1>11. SaneAll(t)
  BY <1>9, <1>10 DEF SaneAll
<1>12. Steady(s, t)
  BY <1>4, <1>6, <1>9, <1>10 DEF Steady
<1> QED
  BY <1>3, <1>11, <1>12 DEF SaneStates, t

LEMMA RunTaskSane ==
    ASSUME Cast, NEW s \in SaneStates, NEW a \in Actors, NEW finished, ~s.actor[a].gone
    PROVE  RunTask(s, a, finished) \in SaneStates /\ Steady(s, RunTask(s, a, finished))
<1> DEFINE m == s.actor[a]
           started == [m EXCEPT !.task = "started"]
           t == RunTask(s, a, finished)
<1>0. NoScript \notin Scripts
  BY DEF Cast
<1>1. /\ s \in GoodStates /\ Sane(m) /\ m \in GoodMonster /\ m \in MonsterType
      /\ m.cine \in Scripts \cup {NoScript}
  BY SaneFacts
<1>2. t = IF m.cine = NoScript THEN s
          ELSE IF m.task = "wait" /\ s.script[m.cine].m_iDelay <= 0 /\ s.script[m.cine].start = "due"
          THEN IF ScriptConf[m.cine].play THEN ActorIs(s, a, started)
               ELSE SequenceDone(s, m.cine, a)
          ELSE IF m.task = "play" /\ finished THEN SequenceDone(s, m.cine, a)
          ELSE s
  BY DEF RunTask
<1>3. t \in GoodStates
  BY <1>1, RunTaskGood
<1> HIDE DEF t
<1>4. /\ started.gone = m.gone /\ started.state = m.state /\ started.ideal = m.ideal
      /\ started.cine = m.cine /\ started.scriptState = m.scriptState /\ started.hurt = m.hurt
      /\ started.failed = m.failed /\ started.deadflag = m.deadflag /\ started.task = "started"
  BY <1>1 DEF MonsterType
<1> HIDE DEF started
<1>5. CASE t = s
  BY <1>5, SteadySelf DEF t
<1>6. CASE t = ActorIs(s, a, started) /\ m.task = "wait"
  <2>1. Sane(started) /\ StillRoams(m, started)
    BY <1>1, <1>4, <1>6 DEF Sane, StillRoams, Led, Roams, ScriptTasks, Delivered
  <2>2. t \in SaneStates /\ Steady(s, t)
    BY <1>0, <1>3, <1>6, <2>1, ActorSane
  <2> QED
    BY <2>2 DEF t
<1>7. CASE /\ t = SequenceDone(s, m.cine, a) /\ m.cine # NoScript
           /\ m.task \in {"wait", "play"}
  <2>1. m.cine \in Scripts /\ m.state # "dead"
    BY <1>1, <1>7 DEF GoodMonster
  <2>2. t \in SaneStates /\ Steady(s, t)
    BY <1>7, <2>1, SequenceDoneSane
  <2> QED
    BY <2>2 DEF t
<1>8. \/ t = s
      \/ t = ActorIs(s, a, started) /\ m.task = "wait"
      \/ /\ t = SequenceDone(s, m.cine, a) /\ m.cine # NoScript
         /\ m.task \in {"wait", "play"}
  <2> HIDE DEF m
  <2> QED
    BY <1>2
<1> QED
  BY <1>5, <1>6, <1>7, <1>8

LEMMA HandleAnimEventSane ==
    ASSUME Cast, NEW s \in SaneStates, NEW a \in Actors, ~s.actor[a].hurt,
           NEW event \in {"none"} \cup Events(s, a)
    PROVE  LET t == HandleAnimEvent(s, a, event) IN t \in SaneStates /\ Steady(s, t)
<1> DEFINE m == s.actor[a]
           r == s.script[m.cine]
           dead == [m EXCEPT !.deadflag = "dying", !.well = FALSE]
           well == [m EXCEPT !.deadflag = "no", !.well = TRUE]
           can == event = "caninterrupt"
           told == [r EXCEPT !.interruptable = can]
           t == HandleAnimEvent(s, a, event)
<1>0. NoScript \notin Scripts
  BY DEF Cast
<1>1. /\ s \in GoodStates /\ Sane(m) /\ m \in GoodMonster /\ m \in MonsterType
      /\ m.cine \in Scripts \cup {NoScript}
  BY SaneFacts
<1>2. event = "none" \/ (m.cine # NoScript /\ m.state = "script")
  BY DEF Events
<1>3. t = CASE event = "dead" -> ActorIs(s, a, dead)
            [] event = "not_dead" -> ActorIs(s, a, well)
            [] event \in {"nointerrupt", "caninterrupt"} /\ ~ScriptConf[m.cine].noInterrupt ->
                 ScriptIs(s, m.cine, told)
            [] OTHER -> s
  BY DEF HandleAnimEvent
<1>4. t \in GoodStates
  BY <1>1, HandleAnimEventGood
<1> HIDE DEF t, can
<1>5. ASSUME NEW n \in {dead, well} PROVE Sane(n) /\ StillRoams(m, n)
  <2>1. /\ n.gone = m.gone /\ n.state = m.state /\ n.ideal = m.ideal /\ n.cine = m.cine
        /\ n.scriptState = m.scriptState /\ n.task = m.task /\ n.failed = m.failed
        /\ n.hurt = m.hurt
    BY <1>1, <1>5 DEF MonsterType
  <2> HIDE DEF dead, well
  <2> QED
    BY <1>1, <2>1 DEF Sane, StillRoams, Led, Roams
<1> HIDE DEF dead, well
<1>6. CASE t \in {ActorIs(s, a, dead), ActorIs(s, a, well)}
  <2>1. PICK n \in {dead, well} : t = ActorIs(s, a, n)
    BY <1>6
  <2>2. t \in SaneStates /\ Steady(s, t)
    BY <1>0, <1>4, <1>5, <2>1, ActorSane
  <2> QED
    BY <2>2 DEF t
<1>7. CASE t = ScriptIs(s, m.cine, told) /\ event # "none"
  <2>1. m.cine \in Scripts /\ s.script \in [Scripts -> CineType]
        /\ s = [script |-> s.script, actor |-> s.actor]
    BY <1>1, <1>2, <1>7 DEF GoodStates, LinkedStates, ScriptedState
  <2>2. r \in CineType
    BY <2>1
  <2>3. told.m_iDelay = r.m_iDelay /\ told.gone = r.gone
    BY <2>2 DEF CineType
  <2> HIDE DEF told
  <2>4. t.actor = s.actor /\ t.script = [s.script EXCEPT ![m.cine] = told]
    BY <1>7, <2>1 DEF ScriptIs
  <2>5. \A c \in Scripts : /\ t.script[c].m_iDelay = s.script[c].m_iDelay
                           /\ t.script[c].gone = s.script[c].gone
    BY <2>1, <2>3, <2>4
  <2>6. t \in SaneStates /\ Steady(s, t)
    BY <1>4, <2>4, <2>5, ScriptsSteady
  <2> QED
    BY <2>6 DEF t
<1>8. CASE t = s
  BY <1>8, SteadySelf DEF t
<1>9. \/ t \in {ActorIs(s, a, dead), ActorIs(s, a, well)}
      \/ t = ScriptIs(s, m.cine, told) /\ event # "none"
      \/ t = s
  BY <1>3
<1> QED
  BY <1>6, <1>7, <1>8, <1>9

\* What DelayStart does to the counts.
LEMMA DelayStartCounts ==
    ASSUME NEW s \in GoodStates, NEW c \in Scripts, NEW more \in BOOLEAN
    PROVE  LET t == DelayStart(s, c, more)
           IN  /\ t \in GoodStates /\ t.actor = s.actor
               /\ \A d \in Scripts :
                    /\ t.script[d].gone = s.script[d].gone
                    /\ s.script[d].m_iDelay \in Int
                    /\ t.script[d].m_iDelay =
                         IF d \in Group(c) /\ ~IsAI(d)
                         THEN IF more THEN s.script[d].m_iDelay + 1 ELSE s.script[d].m_iDelay - 1
                         ELSE s.script[d].m_iDelay
<1> DEFINE t == DelayStart(s, c, more)
<1>1. /\ s.script \in [Scripts -> CineType] /\ s = [script |-> s.script, actor |-> s.actor]
  BY DEF GoodStates, LinkedStates, ScriptedState
<1>2. t \in GoodStates /\ t.actor = s.actor
  BY DelayStartGood
<1>3. t.script = [d \in Scripts |-> IF d \in Group(c) /\ ~IsAI(d) THEN Delayed(s.script[d], more)
                                    ELSE s.script[d]]
  BY <1>1 DEF DelayStart
<1>4. ASSUME NEW r \in CineType
      PROVE  /\ Delayed(r, more).gone = r.gone /\ r.m_iDelay \in Int
             /\ Delayed(r, more).m_iDelay = IF more THEN r.m_iDelay + 1 ELSE r.m_iDelay - 1
  BY DEF Delayed, CineType
<1> HIDE DEF t
<1>5. ASSUME NEW d \in Scripts
      PROVE  /\ t.script[d].gone = s.script[d].gone
             /\ s.script[d].m_iDelay \in Int
             /\ t.script[d].m_iDelay =
                  IF d \in Group(c) /\ ~IsAI(d)
                  THEN IF more THEN s.script[d].m_iDelay + 1 ELSE s.script[d].m_iDelay - 1
                  ELSE s.script[d].m_iDelay
  <2>1. s.script[d] \in CineType
    BY <1>1
  <2> QED
    BY <1>3, <1>4, <2>1
<1> QED
  BY <1>2, <1>5 DEF t

\* One walker more, or one less.
LEMMA WalkerJoins ==
    ASSUME Cast, NEW c \in Scripts, NEW s, NEW t, NEW d,
           Walkers(t, c) \subseteq Walkers(s, c) \cup {d}
    PROVE  /\ Cardinality(Walkers(t, c)) \in Nat /\ Cardinality(Walkers(s, c)) \in Nat
           /\ Cardinality(Walkers(t, c)) <= Cardinality(Walkers(s, c)) + 1
<1> DEFINE S == Walkers(s, c)
           T == Walkers(t, c)
<1>1. IsFiniteSet(Group(c)) /\ S \in SUBSET Group(c) /\ T \in SUBSET Group(c)
  BY GroupFacts DEF Walkers
<1>2. IsFiniteSet(S) /\ IsFiniteSet(T)
  BY <1>1, FS_Subset
<1> HIDE DEF S, T
<1>3. /\ IsFiniteSet(S \cup {d})
      /\ Cardinality(S \cup {d}) = IF d \in S THEN Cardinality(S) ELSE Cardinality(S) + 1
  BY <1>2, FS_AddElement
<1>4. T \in SUBSET (S \cup {d})
  BY DEF S, T
<1>5. Cardinality(T) <= Cardinality(S \cup {d})
  BY <1>3, <1>4, FS_Subset
<1>6. Cardinality(S) \in Nat /\ Cardinality(T) \in Nat
  BY <1>2, FS_CardinalityType
<1> QED
  BY <1>3, <1>5, <1>6 DEF S, T

LEMMA WalkerArrives ==
    ASSUME Cast, NEW c \in Scripts, NEW s, NEW t, NEW d \in Walkers(s, c), d \notin Walkers(t, c),
           Walkers(t, c) \subseteq Walkers(s, c)
    PROVE  /\ Cardinality(Walkers(t, c)) \in Nat /\ Cardinality(Walkers(s, c)) \in Nat
           /\ Cardinality(Walkers(t, c)) <= Cardinality(Walkers(s, c)) - 1
<1> DEFINE S == Walkers(s, c)
           T == Walkers(t, c)
<1>1. IsFiniteSet(Group(c)) /\ S \in SUBSET Group(c) /\ T \in SUBSET Group(c)
  BY GroupFacts DEF Walkers
<1>2. IsFiniteSet(S) /\ IsFiniteSet(T)
  BY <1>1, FS_Subset
<1>3. d \in S /\ T \in SUBSET (S \ {d})
  OBVIOUS
<1> HIDE DEF S, T
<1>4. IsFiniteSet(S \ {d}) /\ Cardinality(S \ {d}) = Cardinality(S) - 1
  BY <1>2, <1>3, FS_RemoveElement
<1>5. Cardinality(T) <= Cardinality(S \ {d})
  BY <1>3, <1>4, FS_Subset
<1>6. Cardinality(S) \in Nat /\ Cardinality(T) \in Nat
  BY <1>2, FS_CardinalityType
<1> QED
  BY <1>4, <1>5, <1>6 DEF S, T

\* Who is at the mark is no walker any more, and taken off each count: each script
\* of the name whose count is proper had counted it.
LEMMA StartTaskFine ==
    ASSUME Cast, NEW s \in FineStates, NEW a \in Actors, NEW way, ~s.actor[a].gone,
           ~s.actor[a].failed
    PROVE  StartTask(s, a, way) \in FineStates
<1> DEFINE m == s.actor[a]
           play == [m EXCEPT !.task = "play", !.scriptState = "playing"]
           failed == [m EXCEPT !.failed = TRUE]
           waits == [m EXCEPT !.task = "wait"]
           there == ActorIs(s, a, waits)
           t == StartTask(s, a, way)
<1>0. NoScript \notin Scripts /\ s \in SaneStates /\ SameScripts(s) /\ Counted(s)
  BY FineFacts DEF Cast
<1>1. /\ s \in GoodStates /\ Sane(m) /\ m \in GoodMonster /\ m \in MonsterType
      /\ m.cine \in Scripts \cup {NoScript}
  BY <1>0, SaneFacts
<1>2. t = IF m.task = "started" THEN ActorIs(s, a, play)
          ELSE IF m.task # "walk" \/ m.cine = NoScript \/ way = "away" THEN s
          ELSE IF way = "fails" THEN ActorIs(s, a, failed)
          ELSE DelayStart(there, m.cine, FALSE)
  BY DEF StartTask
<1>3. t \in GoodStates
  BY <1>1, StartTaskGood
<1> HIDE DEF t
<1>4. CASE m.task = "started"
  <2>1. /\ play.gone = m.gone /\ play.state = m.state /\ play.ideal = m.ideal
        /\ play.cine = m.cine /\ play.scriptState = "playing" /\ play.task = "play"
        /\ play.failed = m.failed /\ play.hurt = m.hurt /\ play.deadflag = m.deadflag
    BY <1>1 DEF MonsterType
  <2>2. t = ActorIs(s, a, play)
    BY <1>2, <1>4
  <2> HIDE DEF play
  <2>3. Sane(play) /\ StillRoams(m, play)
    BY <1>1, <1>4, <2>1 DEF Sane, StillRoams, Led, Roams, ScriptTasks, Delivered
  <2>4. t \in SaneStates /\ Steady(s, t)
    BY <1>0, <1>3, <2>2, <2>3, ActorSane
  <2> QED
    BY <2>4, SteadyFine DEF t
<1>5. CASE m.task # "started" /\ (m.task # "walk" \/ m.cine = NoScript \/ way = "away")
  BY <1>2, <1>5 DEF t
<1>6. CASE m.task = "walk" /\ m.cine # NoScript /\ way = "fails"
  <2>1. /\ failed.gone = m.gone /\ failed.state = m.state /\ failed.ideal = m.ideal
        /\ failed.cine = m.cine /\ failed.scriptState = m.scriptState /\ failed.task = m.task
        /\ failed.hurt = m.hurt /\ failed.deadflag = m.deadflag
    BY <1>1 DEF MonsterType
  <2>2. t = ActorIs(s, a, failed)
    BY <1>2, <1>6
  <2> HIDE DEF failed
  <2>3. Sane(failed) /\ StillRoams(m, failed)
    BY <1>1, <1>6, <2>1 DEF Sane, StillRoams, Led, Roams, ScriptTasks, Delivered
  <2>4. t \in SaneStates /\ Steady(s, t)
    BY <1>0, <1>3, <2>2, <2>3, ActorSane
  <2> QED
    BY <2>4, SteadyFine DEF t
<1>7. CASE m.task = "walk" /\ m.cine # NoScript /\ way \notin {"fails", "away"}
  <2> DEFINE d == m.cine
  <2>1. d \in Scripts /\ t = DelayStart(there, d, FALSE)
    BY <1>1, <1>2, <1>7
  <2>2. /\ waits \in GoodMonster /\ waits.gone = m.gone /\ waits.cine = m.cine
        /\ waits.state = m.state /\ waits.ideal = m.ideal /\ waits.task = "wait"
        /\ waits.scriptState = m.scriptState /\ waits.failed = m.failed /\ waits.hurt = m.hurt
        /\ waits.deadflag = m.deadflag
    BY <1>1, <1>7 DEF GoodMonster, MonsterType, ScriptTasks
  <2> HIDE DEF waits
  <2>3. Sane(waits) /\ StillRoams(m, waits)
    BY <1>1, <1>7, <2>2 DEF Sane, StillRoams, Led, Roams, ScriptTasks, Delivered
  <2>4. there \in GoodStates
    BY <1>1, <2>2, ActorIsGood
  <2>5. there \in SaneStates /\ Steady(s, there) /\ there.actor[a] = waits
    BY <1>0, <2>3, <2>4, ActorSane
  <2>6. there \in FineStates
    BY <2>5, SteadyFine
  <2> HIDE DEF there
  <2>7. /\ t \in GoodStates /\ t.actor = there.actor
        /\ \A c \in Scripts :
              /\ t.script[c].gone = there.script[c].gone
              /\ there.script[c].m_iDelay \in Int
              /\ t.script[c].m_iDelay = IF c \in Group(d) /\ ~IsAI(c)
                                        THEN there.script[c].m_iDelay - 1
                                        ELSE there.script[c].m_iDelay
    BY <2>1, <2>4, DelayStartCounts
  <2>8. t \in SaneStates /\ SameScripts(t)
    BY <2>5, <2>6, <2>7, FineFacts DEF SaneStates, SaneAll, SameScripts
  <2>9. ~script[d].gone /\ s.script[d].target = a
    BY <1>0, <1>1, <1>7, <2>1 DEF GoodStates, LinkedStates, Linked, SameScripts
  <2>10. ASSUME NEW c \in Scripts, Proper(c), ~script[c].gone
         PROVE  t.script[c].m_iDelay >= Cardinality(Walkers(t, c))
    <3>1. \A e \in Scripts : Walker(t, e) <=> Walker(there, e)
      BY <2>7 DEF Walker
    <3>2. Walkers(t, c) = Walkers(there, c)
      BY <3>1, GroupFacts DEF Walkers
    <3>3. CASE c \notin Group(d)
      <4>1. there.script[c].m_iDelay >= Cardinality(Walkers(there, c))
        BY <2>6, <2>10, FineFacts DEF Counted
      <4> QED
        BY <2>7, <3>2, <3>3, <4>1
    <3>4. CASE c \in Group(d)
      <4>1. d \in Group(c) /\ ~IsAI(d) /\ Walks(d)
        <5>1. d \in Group(c) /\ Group(c) \subseteq Namesakes(c)
          BY <2>1, <2>9, <2>10, <3>4, GroupFacts
        <5> QED
          BY <2>10, <5>1 DEF Proper
      <4>2. Led(m) /\ m.scriptState = "walk"
        BY <1>1, <1>7, <4>1 DEF Sane, Led
      <4>3. Walker(s, d)
        BY <1>7, <4>2 DEF Walker, Roams, Delivered
      <4>4. ~Walker(there, d)
        <5> SUFFICES ASSUME NEW b \in Actors, there.actor[b].cine = d, Roams(there.actor[b])
                     PROVE  FALSE
          BY DEF Walker
        <5>1. there.script[d].target = b /\ there.script[d].target = a
          <6>1. Linked(there) /\ ~waits.gone
            BY <2>2, <2>4 DEF GoodStates, LinkedStates
          <6> QED
            BY <1>0, <2>1, <2>2, <2>5, <6>1 DEF Linked, Roams
        <5>2. Roams(waits)
          BY <2>5, <5>1
        <5> QED
          BY <2>2, <5>2 DEF Roams, Delivered
      <4>5. Walkers(there, c) \subseteq Walkers(s, c)
        <5>1. \A e \in Group(c) : e \in Scripts /\ ~IsAI(e)
          BY <2>10, GroupFacts DEF Proper
        <5> QED
          BY <2>5, <5>1 DEF Steady, Walkers
      <4>6. d \in Walkers(s, c) /\ d \notin Walkers(there, c)
        BY <4>1, <4>3, <4>4 DEF Walkers
      <4>7. /\ Cardinality(Walkers(there, c)) \in Nat /\ Cardinality(Walkers(s, c)) \in Nat
            /\ Cardinality(Walkers(there, c)) <= Cardinality(Walkers(s, c)) - 1
        BY <4>5, <4>6, WalkerArrives
      <4>8. s.script[c].m_iDelay >= Cardinality(Walkers(s, c))
            /\ there.script[c].m_iDelay = s.script[c].m_iDelay
        BY <1>0, <2>5, <2>10 DEF Counted, Steady
      <4>9. ~IsAI(c)
        BY <2>10, GroupFacts DEF Proper
      <4> HIDE DEF d
      <4>10. t.script[c].m_iDelay = there.script[c].m_iDelay - 1
             /\ there.script[c].m_iDelay \in Int
        BY <2>7, <3>4, <4>9
      <4> QED
        BY <3>2, <4>7, <4>8, <4>10
    <3> QED
      BY <3>3, <3>4
  <2> QED
    BY <2>8, <2>10 DEF FineStates, Counted, t
<1> QED
  BY <1>4, <1>5, <1>6, <1>7

\* A monster that is sent on a walk is counted; one that is not, or that an
\* aiscripted_sequence takes, leaves the counts that are proper alone.
LEMMA PossessFine ==
    ASSUME Cast, NEW s \in FineStates, NEW c \in Scripts, NEW a \in Actors, Free(s, c, a)
    PROVE  PossessEntity(s, c, a) \in FineStates
<1>0. /\ NoScript \notin Scripts /\ s \in SaneStates /\ s \in GoodStates /\ SameScripts(s)
      /\ Counted(s) /\ \A b \in Actors : Sane(s.actor[b])
  BY FineFacts DEF Cast
<1>1. PICK taken \in GoodStates : Possessed(s, c, a, taken)
  BY <1>0, TakenGood
<1> DEFINE m == s.actor[a]
           n == taken.actor[a]
           t == PossessEntity(s, c, a)
<1>2. /\ t = IF IsAI(c) THEN IF m.state = "script" THEN ScriptSchedule(taken, a, c) ELSE taken
             ELSE IF Walks(c) THEN DelayStart(taken, c, TRUE) ELSE taken
      /\ \A d \in Scripts : /\ taken.script[d].gone = s.script[d].gone
                            /\ taken.script[d].m_iDelay = s.script[d].m_iDelay
      /\ \A b \in Actors \ {a} : taken.actor[b] = s.actor[b]
      /\ n.cine = c /\ n.ideal = "script" /\ n.gone = m.gone /\ n.state = m.state
      /\ n.scriptState = IF Walks(c) THEN "walk" ELSE "wait"
      /\ n.task = m.task /\ n.failed = m.failed /\ n.hurt = m.hurt
      /\ n.deadflag = m.deadflag /\ n.state # "dead"
  BY <1>1 DEF Possessed
<1>3. ~m.gone /\ ~s.script[c].gone
  BY DEF Free
<1> HIDE DEF t
<1>4. Sane(m)
  BY <1>0
<1>5. Sane(n)
  <2> HIDE DEF m, n
  <2> QED
    BY <1>2, <1>4 DEF Sane, Led
<1>6. taken \in SaneStates
  BY <1>0, <1>2, <1>5 DEF SaneStates, SaneAll
<1>7. ASSUME NEW d \in Scripts \ {c}, Walker(taken, d) PROVE Walker(s, d)
  BY <1>2, <1>7 DEF Walker
<1>8. CASE IsAI(c)
  <2>1. Steady(s, taken)
    BY <1>2, <1>7, <1>8 DEF Steady
  <2>2. CASE m.state = "script"
    <3> DEFINE task == IF Walks(c) THEN "walk" ELSE "wait"
               o == [n EXCEPT !.task = task, !.failed = FALSE, !.hurt = FALSE]
    <3>1. t = ActorIs(taken, a, o)
      BY <1>2, <1>8, <2>2 DEF ScriptSchedule
    <3>2. t \in GoodStates
      BY <1>2, <1>8, <2>2, ScriptScheduleGood
    <3>3. task \in ScriptTasks
      BY DEF ScriptTasks
    <3>4. n \in MonsterType
      BY <1>1, OneMonster
    <3> HIDE DEF task, n
    <3>5. /\ o.cine = c /\ o.state = n.state /\ ~o.failed /\ ~o.hurt
      BY <1>2, <3>3, <3>4 DEF MonsterType
    <3> HIDE DEF o
    <3>6. ~Led(o)
      BY <1>8, <3>5 DEF Led
    <3>7. Sane(o) /\ StillRoams(n, o)
      BY <1>2, <2>2, <3>5, <3>6 DEF Sane, StillRoams
    <3>8. t \in SaneStates /\ Steady(taken, t)
      BY <1>0, <1>6, <3>1, <3>2, <3>7, ActorSane DEF n
    <3>9. Steady(s, t)
      BY <2>1, <3>8, SteadyTwice
    <3> QED
      BY <3>8, <3>9, SteadyFine DEF t
  <2>3. CASE m.state # "script"
    <3>1. t = taken
      BY <1>2, <1>8, <2>3
    <3> QED
      BY <1>6, <2>1, <3>1, SteadyFine DEF t
  <2> QED
    BY <2>2, <2>3
<1>9. CASE ~IsAI(c) /\ ~Walks(c)
  <2>1. ASSUME Walker(taken, c) PROVE FALSE
    <3>1. PICK b \in Actors : taken.actor[b].cine = c /\ Roams(taken.actor[b])
      BY <2>1 DEF Walker
    <3>2. taken.script[c].target = b /\ taken.script[c].target = a
      BY SMTT(20), ZenonT(40), <1>0, <1>1, <1>2, <1>3, <3>1 DEF GoodStates, LinkedStates, Linked, Roams
    <3> QED
      BY <1>2, <1>9, <3>1, <3>2 DEF Roams
  <2>2. Steady(s, taken)
    BY <1>2, <1>7, <2>1 DEF Steady
  <2>3. t = taken
    BY <1>2, <1>9
  <2> QED
    BY <1>6, <2>2, <2>3, SteadyFine DEF t
<1>10. CASE ~IsAI(c) /\ Walks(c)
  <2>1. t = DelayStart(taken, c, TRUE)
    BY <1>2, <1>10
  <2>2. /\ t \in GoodStates /\ t.actor = taken.actor
        /\ \A d \in Scripts :
              /\ t.script[d].gone = taken.script[d].gone
              /\ taken.script[d].m_iDelay \in Int
              /\ t.script[d].m_iDelay = IF d \in Group(c) /\ ~IsAI(d)
                                        THEN taken.script[d].m_iDelay + 1
                                        ELSE taken.script[d].m_iDelay
    BY <2>1, DelayStartCounts
  <2>3. t \in SaneStates /\ SameScripts(t)
    <3>1. t \in SaneStates
      BY <1>6, <2>2 DEF SaneStates, SaneAll
    <3>2. \A d \in Scripts : t.script[d].gone = s.script[d].gone
      BY SMTT(20), ZenonT(40), <1>2, <2>2
    <3>3. SameScripts(t)
      BY <1>0, <3>2 DEF SameScripts
    <3> QED
      BY <3>1, <3>3
  <2>4. ~script[c].gone
    BY <1>0, <1>3 DEF SameScripts
  <2>5. ASSUME NEW d \in Scripts, Proper(d), ~script[d].gone
        PROVE  t.script[d].m_iDelay >= Cardinality(Walkers(t, d))
    <3>1. s.script[d].m_iDelay >= Cardinality(Walkers(s, d))
          /\ taken.script[d].m_iDelay = s.script[d].m_iDelay
      BY <1>0, <1>2, <2>5 DEF Counted
    <3>2. ~IsAI(d) /\ (d \in Group(c) <=> c \in Group(d))
      BY <2>4, <2>5, GroupFacts DEF Proper
    <3>3. \A e \in Scripts : Walker(t, e) <=> Walker(taken, e)
      BY <2>2 DEF Walker
    <3>4. \A e \in Scripts \ {c} : Walker(t, e) => Walker(s, e)
      BY <1>7, <3>3
    <3>5. CASE d \in Group(c)
      <4>1. Walkers(t, d) \subseteq Walkers(s, d) \cup {c}
        BY <3>4, GroupFacts DEF Walkers
      <4>2. /\ Cardinality(Walkers(t, d)) \in Nat /\ Cardinality(Walkers(s, d)) \in Nat
            /\ Cardinality(Walkers(t, d)) <= Cardinality(Walkers(s, d)) + 1
        BY <4>1, WalkerJoins
      <4>3. t.script[d].m_iDelay = taken.script[d].m_iDelay + 1 /\ taken.script[d].m_iDelay \in Int
        BY <2>2, <3>2, <3>5
      <4> QED
        BY <3>1, <4>2, <4>3
    <3>6. CASE d \notin Group(c)
      <4>1. Walkers(t, d) \subseteq Walkers(s, d)
        BY <3>2, <3>4, <3>6, GroupFacts DEF Walkers
      <4>2. /\ Cardinality(Walkers(t, d)) \in Nat /\ Cardinality(Walkers(s, d)) \in Nat
            /\ Cardinality(Walkers(t, d)) <= Cardinality(Walkers(s, d))
        BY <4>1, WalkerCount
      <4>3. t.script[d].m_iDelay = taken.script[d].m_iDelay /\ taken.script[d].m_iDelay \in Int
        BY <2>2, <3>6
      <4> QED
        BY <3>1, <4>2, <4>3
    <3> QED
      BY <3>5, <3>6
  <2> QED
    BY <2>3, <2>5 DEF FineStates, Counted, t
<1> QED
  BY <1>8, <1>9, <1>10

WalkIInv == ScriptedIInv /\ SaneAll(Now) /\ Counted(Now)

LEMMA WalkFacts ==
    ASSUME WalkIInv
    PROVE  /\ ScriptedIInv /\ Now \in FineStates /\ Now \in SaneStates /\ SameScripts(Now)
           /\ \A a \in Actors : Sane(actor[a])
<1>1. ScriptedIInv /\ SaneAll(Now) /\ Counted(Now)
  BY DEF WalkIInv
<1>2. Now \in GoodStates /\ Now.script = script /\ Now.actor = actor
  BY <1>1, ScriptedFacts
<1> QED
  BY <1>1, <1>2 DEF FineStates, SaneStates, SameScripts, SaneAll

\* A step after which the same scripts are there.
SameCast(s) == DOMAIN s.script = Scripts /\ DOMAIN s.actor = Actors
LEMMA WalkBecomes ==
    ASSUME ScriptedIInv', NEW s, ScriptedBecome(s), SameCast(s), SaneAll(s), Counted(s),
           SameScripts(s)
    PROVE  WalkIInv'
<1>1. script' = s.script /\ actor' = s.actor
  BY DEF ScriptedBecome
<1>2. Scripts' = Scripts /\ Actors' = Actors /\ Now'.actor = s.actor /\ Now'.script = s.script
  BY <1>1 DEF SameCast, Scripts, Actors, Now
<1>3. SaneAll(Now)'
  BY <1>2 DEF SaneAll
<1>4. ASSUME NEW c \in Scripts, Proper(c)', ~script'[c].gone
      PROVE  script'[c].m_iDelay >= Cardinality(Walkers(Now, c)')
  <2>1. Proper(c)
    BY <1>2, <1>4 DEF Proper, Namesakes
  <2>2. \A d \in Scripts : script'[d].gone = script[d].gone
    BY <1>1 DEF SameScripts
  <2>3. Group(c)' = Group(c)
    BY <1>2, <2>2 DEF Group
  <2>4. Walkers(Now, c)' = Walkers(s, c)
    BY <1>2, <2>3 DEF Walkers, Walker
  <2> QED
    BY <1>1, <1>4, <2>1, <2>2, <2>4 DEF Counted
<1>5. Counted(Now)'
  BY <1>1, <1>2, <1>4 DEF Counted
<1> QED
  BY <1>3, <1>5 DEF WalkIInv

LEMMA WalkSteady ==
    ASSUME WalkIInv, ScriptedIInv', NEW s, ScriptedBecome(s), SameCast(s), SaneAll(s),
           Steady(Now, s)
    PROVE  WalkIInv'
<1>1. Cast /\ script \in [Scripts -> CineType] /\ Now.script = script /\ Counted(Now)
  BY ScriptedFacts DEF WalkIInv
<1>2. \A c \in Scripts : Now.script[c].m_iDelay \in Int
  BY <1>1 DEF CineType
<1>3. Counted(s) /\ SameScripts(s)
  BY <1>1, <1>2, SteadyCounts DEF Steady, SameScripts
<1> QED
  BY <1>3, WalkBecomes

LEMMA WalkFine ==
    ASSUME ScriptedIInv', NEW s \in FineStates, ScriptedBecome(s)
    PROVE  WalkIInv'
<1>1. s \in GoodStates /\ SaneAll(s) /\ SameScripts(s) /\ Counted(s)
  BY DEF FineStates, SaneStates
<1>2. SameCast(s)
  BY <1>1 DEF GoodStates, LinkedStates, ScriptedState, SameCast
<1> QED
  BY <1>1, <1>2, WalkBecomes

-----------------------------------------------------------------------------
(* The steps and the count *)

LEMMA ScriptUseWalks ==
    ASSUME WalkIInv, ScriptedIInv', NEW c \in Scripts, ScriptUse(c)
    PROVE  WalkIInv'
<1> DEFINE s == UseScripts(Now, Name(c))
<1>1. Now \in LinkedStates /\ Now \in GoodStates /\ SaneAll(Now)
  BY ScriptedFacts DEF WalkIInv
<1>2. s.actor = Now.actor /\ Steady(Now, s)
  BY <1>1, UseScriptsSteady
<1>3. s \in GoodStates
  BY <1>1, UseScriptsGood
<1>4. ScriptedBecome(s)
  BY DEF ScriptUse
<1> HIDE DEF s
<1>5. SaneAll(s) /\ SameCast(s)
  BY <1>1, <1>2, <1>3 DEF SaneAll, GoodStates, LinkedStates, ScriptedState, SameCast
<1> QED
  BY <1>2, <1>4, <1>5, WalkSteady

\* A script looks for a monster: only what it thinks has changed.
LEMMA LooksFine ==
    ASSUME WalkIInv, NEW c \in Scripts, ~script[c].gone, script[c].think = "CineThink"
    PROVE  LET r == [script[c] EXCEPT !.think = "none", !.target = NoActor]
               s == ScriptIs(Now, c, r)
           IN  /\ s \in FineStates /\ Steady(Now, s) /\ s.actor = actor
               /\ s.script[c].target = NoActor /\ s.script[c].think = "none" /\ ~s.script[c].gone
<1> DEFINE r == [script[c] EXCEPT !.think = "none", !.target = NoActor]
           s == ScriptIs(Now, c, r)
<1>0. Now \in FineStates /\ Now \in SaneStates /\ ScriptedIInv
  BY WalkFacts
<1>1. script[c].target = NoActor
  BY <1>0, ScriptedFacts DEF Linked
<1>2. r \in CineType /\ r.target = NoActor /\ r.think = "none" /\ r.gone = script[c].gone
      /\ r.m_iDelay = script[c].m_iDelay
  BY <1>0, <1>1, ScriptedFacts DEF CineType
<1> HIDE DEF r
<1>3. s \in LinkedStates /\ s.script = [script EXCEPT ![c] = r] /\ s.actor = actor
  <2>1. Now \in LinkedStates /\ Now.script = script /\ Now.actor = actor
    BY <1>0, ScriptedFacts
  <2> QED
    BY <1>1, <1>2, <2>1, ScriptIsLinked
<1> HIDE DEF s
<1>4. s.script[c] = r /\ \A d \in Scripts \ {c} : s.script[d] = script[d]
  BY <1>0, <1>3, ScriptedFacts
<1>5. s \in GoodStates
  <2>1. \A d \in Scripts : script[d].think = "SUB_Remove" => script[d].target = NoActor
    BY <1>0, ScriptedFacts DEF LetGo
  <2>2. LetGo(s)
    BY <1>2, <1>4, <2>1 DEF LetGo
  <2> QED
    BY <1>3, <2>2 DEF GoodStates
<1>6. \A d \in Scripts : /\ s.script[d].m_iDelay = Now.script[d].m_iDelay
                         /\ s.script[d].gone = Now.script[d].gone
  BY <1>0, <1>2, <1>4, ScriptedFacts
<1>7. s \in SaneStates /\ Steady(Now, s)
  BY <1>0, <1>3, <1>5, <1>6, ScriptedFacts, ScriptsSteady
<1>8. s \in FineStates
  BY <1>0, <1>7, ScriptedFacts, SteadyFine
<1> QED
  BY <1>2, <1>3, <1>4, <1>7, <1>8 DEF r, s

LEMMA CineThinkWalks ==
    ASSUME WalkIInv, ScriptedIInv', NEW c \in Scripts, CineThink(c)
    PROVE  WalkIInv'
<1> DEFINE s == ScriptIs(Now, c, [script[c] EXCEPT !.think = "none", !.target = NoActor])
           t == CancelScript(s, c)
           again == [t.script[c] EXCEPT !.think = "CineThink"]
           u == ScriptIs(t, c, again)
<1>0. ScriptedIInv /\ Cast
  BY WalkFacts, ScriptedFacts
<1>1. ~script[c].gone /\ script[c].think = "CineThink"
  BY DEF CineThink
<1>2. /\ s \in FineStates /\ Steady(Now, s) /\ s.actor = actor
      /\ s.script[c].target = NoActor /\ s.script[c].think = "none" /\ ~s.script[c].gone
  BY <1>1, LooksFine
<1>3. IF Found(c) # NoActor THEN ScriptedBecome(PossessEntity(s, c, Found(c)))
      ELSE ScriptedBecome(u)
  BY DEF CineThink
<1> HIDE DEF s
<1>4. CASE Found(c) # NoActor
  <2> DEFINE a == Found(c)
  <2>1. a \in Actors /\ CanPlaySequence(Now, a, c)
    BY <1>0, <1>4, FoundIsFree
  <2>2. actor[a].cine = NoScript /\ ~actor[a].gone /\ actor[a].deadflag = "no"
    BY <1>0, <2>1, ScriptedFacts DEF CanPlaySequence, IsAlive
  <2>3. ScriptedBecome(PossessEntity(s, c, a))
    BY <1>3, <1>4
  <2> HIDE DEF a
  <2>4. Free(s, c, a)
    BY <1>2, <2>2 DEF Free
  <2>5. PossessEntity(s, c, a) \in FineStates
    BY <1>0, <1>2, <2>1, <2>4, PossessFine
  <2> QED
    BY <2>3, <2>5, WalkFine
<1>5. CASE Found(c) = NoActor
  <2>1. s \in SaneStates /\ SameScripts(s)
    BY <1>2, FineFacts
  <2>2. t \in SaneStates /\ Steady(s, t)
    BY <1>0, <2>1, CancelScriptSane
  <2>3. ScriptedBecome(u)
    BY <1>3, <1>5
  <2> HIDE DEF t
  <2>4. /\ t.script \in [Scripts -> CineType] /\ t.actor \in [Actors -> GoodMonster]
        /\ t = [script |-> t.script, actor |-> t.actor] /\ SaneAll(t)
    BY <2>2 DEF SaneStates, GoodStates, LinkedStates, ScriptedState
  <2>5. again.m_iDelay = t.script[c].m_iDelay /\ again.gone = t.script[c].gone
    BY <2>4 DEF CineType
  <2> HIDE DEF again
  <2>6. u.actor = t.actor /\ u.script = [t.script EXCEPT ![c] = again]
    BY <2>4 DEF ScriptIs
  <2> HIDE DEF u
  <2>7. \A d \in Scripts : /\ u.script[d].m_iDelay = t.script[d].m_iDelay
                           /\ u.script[d].gone = t.script[d].gone
    BY <2>4, <2>5, <2>6
  <2>8. SaneAll(u) /\ SameCast(u)
    BY <2>4, <2>6 DEF SaneAll, SameCast
  <2>9. Steady(t, u)
    BY <2>6, <2>7 DEF Steady, Walker
  <2>10. Steady(Now, u)
    BY <1>2, <2>2, <2>9 DEF Steady
  <2> QED
    BY <2>3, <2>8, <2>10, WalkSteady
<1> QED
  BY <1>4, <1>5

\* A script that goes was no walker's; the others of its name wait for fewer.
LEMMA SUB_RemoveWalks ==
    ASSUME WalkIInv, ScriptedIInv', NEW c \in Scripts, SUB_Remove(c)
    PROVE  WalkIInv'
<1> DEFINE r == [script[c] EXCEPT !.gone = TRUE, !.think = "none"]
<1>0. /\ ScriptedIInv /\ Cast /\ Now.script = script /\ Now.actor = actor
      /\ script \in [Scripts -> CineType] /\ SaneAll(Now) /\ Counted(Now)
  BY WalkFacts, ScriptedFacts DEF WalkIInv
<1>1. ScriptedBecome(ScriptIs(Now, c, r))
  BY DEF SUB_Remove
<1>2. r.gone /\ r.m_iDelay = script[c].m_iDelay
  <2> DEFINE gone == TRUE
  <2>1. gone /\ gone \in BOOLEAN /\ script[c] \in CineType
    BY <1>0
  <2>2. r = [script[c] EXCEPT !.gone = gone, !.think = "none"]
    OBVIOUS
  <2> HIDE DEF gone, r
  <2> QED
    BY <2>1, <2>2 DEF CineType
<1> HIDE DEF r
<1>3. script' = [script EXCEPT ![c] = r] /\ actor' = actor
  BY <1>0, <1>1 DEF ScriptedBecome, ScriptIs, Now
<1>4. /\ Scripts' = Scripts /\ Actors' = Actors /\ Now'.actor = actor /\ Now'.script = script'
      /\ \A d \in Scripts : /\ script'[d].m_iDelay = script[d].m_iDelay
                            /\ script[d].gone => script'[d].gone
  <2>1. Scripts' = Scripts /\ Actors' = Actors /\ Now'.actor = actor /\ Now'.script = script'
    BY <1>0, <1>3 DEF Scripts, Actors, Now
  <2>2. \A d \in Scripts : script'[d].m_iDelay = script[d].m_iDelay
    BY <1>0, <1>2, <1>3
  <2>3. \A d \in Scripts : script[d].gone => script'[d].gone
    BY <1>0, <1>2, <1>3
  <2> QED
    BY <2>1, <2>2, <2>3
<1>5. SaneAll(Now)'
  BY <1>0, <1>4 DEF SaneAll
<1>6. ASSUME NEW d \in Scripts, Proper(d)', ~script'[d].gone
      PROVE  script'[d].m_iDelay >= Cardinality(Walkers(Now, d)')
  <2>1. Proper(d) /\ ~script[d].gone
    BY <1>4, <1>6 DEF Proper, Namesakes
  <2>2. Group(d)' \subseteq Group(d)
    BY <1>4 DEF Group
  <2>3. Group(d)' = {e \in Group(d) : Name(d) = "none" \/ ~script'[e].gone}
    BY <1>4 DEF Group
  <2> DEFINE T == [script |-> script', actor |-> actor]
             less == {e \in Walkers(Now, d) : e \in Group(d)'}
  <2>4. Walkers(Now, d)' = less
    BY <1>0, <1>4, <2>2 DEF Walkers, Walker
  <2>5. less \in SUBSET Walkers(Now, d)
    OBVIOUS
  <2> HIDE DEF less
  <2>6. /\ IsFiniteSet(Walkers(Now, d)) /\ Cardinality(Walkers(Now, d)) \in Nat
        /\ Cardinality(less) \in Nat /\ Cardinality(less) <= Cardinality(Walkers(Now, d))
    <3>1. IsFiniteSet(Group(d)) /\ Walkers(Now, d) \in SUBSET Group(d)
      BY <1>0, GroupFacts DEF Walkers
    <3>2. IsFiniteSet(Walkers(Now, d))
      BY <3>1, FS_Subset
    <3>3. IsFiniteSet(less) /\ Cardinality(less) <= Cardinality(Walkers(Now, d))
      BY <2>5, <3>2, FS_Subset
    <3> QED
      BY <3>2, <3>3, FS_CardinalityType
  <2>7. script[d].m_iDelay >= Cardinality(Walkers(Now, d)) /\ script[d].m_iDelay \in Int
        /\ script'[d].m_iDelay = script[d].m_iDelay
    BY <1>0, <1>4, <2>1 DEF Counted, CineType
  <2> QED
    BY <2>4, <2>6, <2>7
<1>7. Counted(Now)'
  BY <1>4, <1>6 DEF Counted
<1> QED
  BY <1>5, <1>7 DEF WalkIInv

LEMMA StartTimeComesWalks ==
    ASSUME WalkIInv, ScriptedIInv', NEW c \in Scripts, StartTimeComes(c)
    PROVE  WalkIInv'
<1> DEFINE r == [script[c] EXCEPT !.start = "due"]
           s == ScriptIs(Now, c, r)
<1>0. /\ ScriptedIInv /\ Now \in SaneStates /\ Now.script = script /\ Now.actor = actor
      /\ script \in [Scripts -> CineType]
  BY WalkFacts, ScriptedFacts
<1>1. r \in CineType /\ r.target = script[c].target /\ r.gone = script[c].gone
      /\ r.think = script[c].think /\ r.m_iDelay = script[c].m_iDelay
  BY <1>0 DEF CineType
<1>2. ScriptedBecome(s)
  BY DEF StartTimeComes
<1> HIDE DEF r
<1>3. s.script = [script EXCEPT ![c] = r] /\ s.actor = actor
  BY <1>0 DEF ScriptIs, Now
<1>4. s \in GoodStates
  BY <1>0, <1>1, ScriptedFacts, ScriptIsGood
<1> HIDE DEF s
<1>5. \A d \in Scripts : /\ s.script[d].m_iDelay = Now.script[d].m_iDelay
                         /\ s.script[d].gone = Now.script[d].gone
  BY <1>0, <1>1, <1>3
<1>6. s \in SaneStates /\ Steady(Now, s)
  BY <1>0, <1>3, <1>4, <1>5, ScriptsSteady
<1>7. s \in FineStates
  BY <1>6, WalkFacts, ScriptedFacts, SteadyFine
<1> QED
  BY <1>2, <1>7, WalkFine

LEMMA MonsterThinkWalks ==
    ASSUME WalkIInv, ScriptedIInv', NEW a \in Actors, NEW finished \in BOOLEAN,
           MonsterThink(a, finished)
    PROVE  WalkIInv'
<1>0. /\ ScriptedIInv /\ Cast /\ NoScript \notin Scripts /\ Now \in FineStates
      /\ Now \in SaneStates /\ Now \in GoodStates /\ Now.actor = actor
  BY WalkFacts, ScriptedFacts DEF Cast
<1>1. ~actor[a].gone /\ actor[a].state # "dead"
  BY <1>0, ScriptedFacts DEF MonsterThink, GoodMonster
<1>2. PICK pvs \in BOOLEAN, way \in {"away", "there", "fails"} :
        \E s \in {Maintained(Ignored(Now, a, pvs), a, finished)} :
        \E t \in {RunTask(StartTask(s, a, way), a, finished)} :
        \E ran \in {ActorIs(t, a, [t.actor[a] EXCEPT !.hurt = FALSE])} :
        \E event \in {"none"} \cup Events(ran, a) :
            ScriptedBecome(HandleAnimEvent(ran, a, event))
  BY DEF MonsterThink
<1> DEFINE u == Ignored(Now, a, pvs)
           s == Maintained(u, a, finished)
           v == StartTask(s, a, way)
           t == RunTask(v, a, finished)
           m == [t.actor[a] EXCEPT !.hurt = FALSE]
           ran == ActorIs(t, a, m)
<1>3. PICK event \in {"none"} \cup Events(ran, a) : ScriptedBecome(HandleAnimEvent(ran, a, event))
  BY <1>2
<1>4. u \in SaneStates /\ u \in FineStates /\ ~u.actor[a].gone /\ u.actor[a].state # "dead"
  <2>1. u \in SaneStates /\ Steady(Now, u)
    BY <1>0, IgnoredSane
  <2>2. ~u.actor[a].gone /\ u.actor[a].state # "dead"
    BY <1>0, <1>1, IgnoredGood
  <2> HIDE DEF u
  <2> QED
    BY <1>0, <2>1, <2>2, SteadyFine
<1> HIDE DEF u
<1>5. s \in FineStates /\ ~s.actor[a].gone /\ ~s.actor[a].failed
  <2>1. SameScripts(u) /\ u \in GoodStates
    BY <1>4, FineFacts
  <2>2. s \in SaneStates /\ Steady(u, s) /\ ~s.actor[a].failed
    BY <1>0, <1>4, <2>1, MaintainedSane
  <2>3. ~s.actor[a].gone
    BY <1>0, <1>4, <2>1, MaintainedGood
  <2> HIDE DEF s
  <2> QED
    BY <1>0, <1>4, <2>2, <2>3, SteadyFine
<1> HIDE DEF s
<1>6. v \in FineStates /\ ~v.actor[a].gone
  <2>1. v \in FineStates
    BY <1>0, <1>5, StartTaskFine
  <2>2. ~v.actor[a].gone
    BY <1>0, <1>5, FineFacts, StartTaskGood
  <2> QED
    BY <2>1, <2>2
<1> HIDE DEF v
<1>7. t \in FineStates
  <2>1. v \in SaneStates
    BY <1>6, FineFacts
  <2>2. t \in SaneStates /\ Steady(v, t)
    BY <1>0, <1>6, <2>1, RunTaskSane
  <2> HIDE DEF t
  <2> QED
    BY <1>0, <1>6, <2>2, SteadyFine
<1> HIDE DEF t
<1>8. ran \in FineStates /\ ~ran.actor[a].hurt
  <2>1. t \in SaneStates /\ t \in GoodStates
    BY <1>7, FineFacts
  <2>2. t.actor[a] \in GoodMonster /\ t.actor[a] \in MonsterType /\ Sane(t.actor[a])
    BY <2>1, SaneFacts
  <2>3. m \in GoodMonster /\ m.gone = t.actor[a].gone /\ m.cine = t.actor[a].cine
    BY <2>2, TasksGood
  <2>4. Sane(m) /\ StillRoams(t.actor[a], m)
    BY <2>2, CalmSane
  <2>5. ~m.hurt
    BY <2>2 DEF MonsterType
  <2> HIDE DEF m
  <2>6. ran \in GoodStates
    BY <2>1, <2>3, ActorIsGood
  <2>7. ran \in SaneStates /\ Steady(t, ran) /\ ran.actor[a] = m
    BY <1>0, <2>1, <2>4, <2>6, ActorSane
  <2> HIDE DEF ran
  <2> QED
    BY <1>0, <1>7, <2>5, <2>7, SteadyFine
<1> HIDE DEF ran
<1>9. HandleAnimEvent(ran, a, event) \in FineStates
  <2> DEFINE x == HandleAnimEvent(ran, a, event)
  <2>1. ran \in SaneStates
    BY <1>8, FineFacts
  <2>2. x \in SaneStates /\ Steady(ran, x)
    BY <1>0, <1>3, <1>8, <2>1, HandleAnimEventSane
  <2> HIDE DEF x
  <2>3. x \in FineStates
    BY <1>0, <1>8, <2>2, SteadyFine
  <2> QED
    BY <2>3 DEF x
<1> QED
  BY <1>3, <1>9, WalkFine

\* A step of one monster that a player or the map brings about.
LEMMA OneWalks ==
    ASSUME WalkIInv, ScriptedIInv', NEW s \in SaneStates, Steady(Now, s),
           NEW a \in Actors, NEW m, ScriptedBecome(ActorIs(s, a, m)),
           Sane(m), StillRoams(s.actor[a], m)
    PROVE  WalkIInv'
<1> DEFINE t == ActorIs(s, a, m)
<1>1. NoScript \notin Scripts
  BY WalkFacts, ScriptedFacts DEF Cast
<1>2. s \in LinkedStates /\ SaneAll(s)
  BY DEF SaneStates, GoodStates
<1>3. SaneAll(t) /\ Steady(s, t)
  BY <1>1, <1>2, ActorSaneLinked
<1>4. SameCast(t)
  <2>1. s = [script |-> s.script, actor |-> s.actor] /\ DOMAIN s.actor = Actors
        /\ DOMAIN s.script = Scripts
    BY <1>2 DEF LinkedStates, ScriptedState
  <2>2. t.actor = [s.actor EXCEPT ![a] = m] /\ t.script = s.script
    BY <2>1 DEF ActorIs
  <2> QED
    BY <2>1, <2>2 DEF SameCast
<1>5. ScriptedBecome(t)
  OBVIOUS
<1> HIDE DEF t
<1>6. Steady(Now, t)
  BY <1>3, SteadyTwice
<1> QED
  BY <1>3, <1>4, <1>5, <1>6, WalkSteady

LEMMA TakeDamageWalks ==
    ASSUME WalkIInv, ScriptedIInv', NEW a \in Actors, NEW kills \in BOOLEAN, TakeDamage(a, kills)
    PROVE  WalkIInv'
<1> DEFINE yes == TRUE
           well == ~kills
           q == actor[a]
           m == [q EXCEPT !.well = well, !.hurt = yes]
           calm == [m EXCEPT !.hurt = q.hurt]
           dead == [m EXCEPT !.killed = yes, !.ideal = "dead", !.well = yes]
           n == IF m.state = "script" \/ ~kills THEN m ELSE IF m.killed THEN calm ELSE dead
<1>0. Now \in SaneStates /\ Now.actor = actor /\ Sane(q) /\ q \in MonsterType
  BY WalkFacts, ScriptedFacts DEF GoodMonster
<1>1. q.deadflag = "no" /\ yes \in BOOLEAN /\ well \in BOOLEAN
  BY <1>0 DEF TakeDamage, IsAlive
<1>2. ScriptedBecome(ActorIs(Now, a, n))
  BY DEF TakeDamage
<1> HIDE DEF yes, well, q
<1>3. m \in MonsterType /\ m.gone = q.gone /\ m.cine = q.cine /\ m.state = q.state
      /\ m.ideal = q.ideal /\ m.scriptState = q.scriptState /\ m.task = q.task
      /\ m.failed = q.failed /\ m.deadflag = q.deadflag
  BY <1>0, <1>1 DEF MonsterType
<1> HIDE DEF m
<1>4. /\ n.gone = q.gone /\ n.cine = q.cine /\ n.state = q.state
      /\ n.scriptState = q.scriptState /\ n.task = q.task
      /\ n.failed = q.failed /\ n.deadflag = q.deadflag
      /\ n.ideal = q.ideal \/ q.state # "script"
  <2>1. /\ calm.gone = q.gone /\ calm.cine = q.cine /\ calm.state = q.state
        /\ calm.ideal = q.ideal /\ calm.scriptState = q.scriptState /\ calm.task = q.task
        /\ calm.failed = q.failed /\ calm.deadflag = q.deadflag
    BY <1>0, <1>3 DEF MonsterType
  <2>2. /\ dead.gone = q.gone /\ dead.cine = q.cine /\ dead.state = q.state
        /\ dead.scriptState = q.scriptState /\ dead.task = q.task
        /\ dead.failed = q.failed /\ dead.deadflag = q.deadflag
    BY <1>0, <1>3 DEF MonsterType
  <2> HIDE DEF calm, dead
  <2>3. n = m \/ n = calm \/ (n = dead /\ m.state # "script")
    OBVIOUS
  <2> HIDE DEF n
  <2> QED
    BY <1>3, <2>1, <2>2, <2>3
<1> HIDE DEF n
<1>5. Sane(n) /\ StillRoams(q, n)
  BY <1>0, <1>1, <1>4 DEF Sane, StillRoams, Led, Roams
<1> QED
  BY <1>0, <1>2, <1>5, SteadySelf, OneWalks DEF q

LEMMA MonsterUseWalks ==
    ASSUME WalkIInv, ScriptedIInv', NEW a \in Actors, MonsterUse(a)
    PROVE  WalkIInv'
<1> DEFINE q == actor[a]
           m == [q EXCEPT !.ideal = "alert"]
<1>0. Now \in SaneStates /\ Now.actor = actor /\ Sane(q) /\ q \in MonsterType
  BY WalkFacts, ScriptedFacts DEF GoodMonster
<1>1. ScriptedBecome(ActorIs(Now, a, m)) /\ q.state = "idle"
  BY DEF MonsterUse
<1> HIDE DEF q
<1>2. m.gone = q.gone /\ m.cine = q.cine /\ m.state = q.state /\ m.hurt = q.hurt
      /\ m.scriptState = q.scriptState /\ m.task = q.task
      /\ m.failed = q.failed /\ m.deadflag = q.deadflag
  BY <1>0 DEF MonsterType
<1> HIDE DEF m
<1>3. Sane(m) /\ StillRoams(q, m)
  BY <1>0, <1>1, <1>2 DEF Sane, StillRoams, Led, Roams
<1> QED
  BY <1>0, <1>1, <1>3, SteadySelf, OneWalks DEF q

LEMMA StartFollowingWalks ==
    ASSUME WalkIInv, ScriptedIInv', NEW a \in Actors, NEW enemy \in BOOLEAN,
           StartFollowing(a, enemy)
    PROVE  WalkIInv'
<1> DEFINE c == actor[a].cine
           s == IF c # NoScript THEN CancelScript(Now, c) ELSE Now
           q == s.actor[a]
           ideal == IF enemy THEN "alert" ELSE q.ideal
           m == [q EXCEPT !.task = "none", !.ideal = ideal]
<1>0. /\ ScriptedIInv /\ Cast /\ NoScript \notin Scripts /\ Now \in SaneStates
      /\ SameScripts(Now) /\ Now.actor = actor /\ Sane(actor[a]) /\ actor[a] \in GoodMonster
      /\ c \in Scripts \cup {NoScript}
  BY WalkFacts, ScriptedFacts DEF Cast
<1>1. ScriptedBecome(ActorIs(s, a, m)) /\ ~actor[a].gone
  <2>1. ScriptedBecome(ActorIs(s, a, m)) /\ IsAlive(Now, a)
    BY DEF StartFollowing
  <2> QED
    BY <1>0, <2>1 DEF IsAlive
<1>2. /\ s \in SaneStates /\ Steady(Now, s)
      /\ Led(q) => q = actor[a] /\ q.state # "script"
  <2>1. CASE c = NoScript
    BY <1>0, <2>1, SteadySelf DEF Led
  <2>2. CASE c # NoScript
    <3>1. s = CancelScript(Now, c) /\ c \in Scripts
      BY <1>0, <2>2
    <3>2. /\ s \in SaneStates /\ Steady(Now, s)
          /\ q \in {actor[a], Cleaned(actor[a])}
          /\ ~IsAI(c) /\ actor[a].state = "script" => q = Cleaned(actor[a])
      BY <1>0, <1>1, <3>1, CancelScriptSane
    <3>3. ~Led(Cleaned(actor[a]))
      BY <1>0, CleanedSane
    <3> HIDE DEF s
    <3> QED
      BY <3>2, <3>3 DEF Led
  <2> QED
    BY <2>1, <2>2
<1> HIDE DEF s
<1>3. q \in MonsterType /\ Sane(q)
  BY <1>2, SaneFacts
<1>4. ideal \in {"alert", q.ideal}
  OBVIOUS
<1> HIDE DEF ideal, q
<1>5. m.gone = q.gone /\ m.cine = q.cine /\ m.state = q.state /\ m.hurt = q.hurt
      /\ m.scriptState = q.scriptState /\ m.task = "none"
      /\ m.failed = q.failed /\ m.deadflag = q.deadflag
  BY <1>3 DEF MonsterType
<1> HIDE DEF m
<1>6. Led(q) => q.state # "script" /\ q.task \notin ScriptTasks /\ q.scriptState # "playing"
  BY <1>2, <1>3 DEF Sane, ScriptTasks
<1>7. Led(m) => Led(q)
  BY <1>5 DEF Led
<1>8. q.task \in Delivered => q.task \in ScriptTasks
  BY DEF Delivered, ScriptTasks
<1>9. Sane(m)
  BY <1>3, <1>5, <1>6, <1>7 DEF Sane, ScriptTasks, Delivered
<1>10. StillRoams(q, m)
  BY <1>5, <1>6, <1>7, <1>8 DEF StillRoams, Roams
<1> QED
  BY <1>1, <1>2, <1>9, <1>10, OneWalks DEF q

LEMMA ActorRemovedWalks ==
    ASSUME WalkIInv, ScriptedIInv', NEW a \in Actors, ActorRemoved(a)
    PROVE  WalkIInv'
<1> DEFINE scripts == [c \in Scripts |-> IF script[c].target = a
                                         THEN [script[c] EXCEPT !.target = NoActor]
                                         ELSE script[c]]
           m == [actor[a] EXCEPT !.gone = TRUE]
           t == [Now EXCEPT !.script = scripts]
           s == ActorIs(t, a, m)
<1>0. /\ Now.script = script /\ Now.actor = actor /\ SaneAll(Now)
      /\ script \in [Scripts -> CineType] /\ actor \in [Actors -> GoodMonster]
      /\ actor[a] \in MonsterType
  BY WalkFacts, ScriptedFacts DEF WalkIInv, GoodMonster
<1>1. ScriptedBecome(s)
  BY DEF ActorRemoved
<1>2. \A c \in Scripts : scripts[c].m_iDelay = script[c].m_iDelay /\ scripts[c].gone = script[c].gone
  <2>1. ASSUME NEW c \in Scripts
        PROVE  scripts[c].m_iDelay = script[c].m_iDelay /\ scripts[c].gone = script[c].gone
    <3>1. script[c] \in CineType /\ scripts[c] \in {script[c], [script[c] EXCEPT !.target = NoActor]}
      BY <1>0
    <3> HIDE DEF scripts
    <3> QED
      BY <3>1 DEF CineType
  <2> QED
    BY <2>1
<1>3. DOMAIN scripts = Scripts
  OBVIOUS
<1>4. m.gone /\ m.cine = actor[a].cine /\ m.state = actor[a].state /\ m.hurt = actor[a].hurt
      /\ m.scriptState = actor[a].scriptState /\ m.task = actor[a].task
      /\ m.failed = actor[a].failed /\ m.deadflag = actor[a].deadflag /\ m.ideal = actor[a].ideal
  <2> DEFINE gone == TRUE
  <2>1. gone \in BOOLEAN /\ gone /\ m = [actor[a] EXCEPT !.gone = gone]
    OBVIOUS
  <2> HIDE DEF gone, m
  <2> QED
    BY <1>0, <2>1 DEF MonsterType
<1> HIDE DEF scripts, m
<1>5. t = [script |-> scripts, actor |-> actor]
  BY DEF Now
<1> HIDE DEF t
<1>6. s.script = scripts /\ s.actor = [actor EXCEPT ![a] = m]
  BY <1>5 DEF ActorIs
<1> HIDE DEF s
<1>7. s.actor[a] = m /\ \A b \in Actors : b # a => s.actor[b] = actor[b]
  BY <1>0, <1>6
<1>8. Sane(m)
  BY <1>0, <1>4 DEF SaneAll, Sane, Led
<1>9. SaneAll(s)
  BY <1>0, <1>7, <1>8 DEF SaneAll
<1>10. ASSUME NEW d \in Scripts, Walker(s, d) PROVE Walker(Now, d)
  <2>1. PICK b \in Actors : s.actor[b].cine = d /\ Roams(s.actor[b])
    BY <1>10 DEF Walker
  <2>2. b # a
    BY <1>4, <1>7, <2>1 DEF Roams
  <2> QED
    BY <1>0, <1>7, <2>1, <2>2 DEF Walker
<1>11. Steady(Now, s)
  BY <1>0, <1>2, <1>6, <1>10 DEF Steady
<1>12. SameCast(s)
  BY <1>0, <1>3, <1>6 DEF SameCast
<1> QED
  BY <1>1, <1>9, <1>11, <1>12, WalkSteady

LEMMA ScriptedInitWalks ==
    ASSUME ScriptedInit
    PROVE  WalkIInv
<1>0. ScriptedIInv
  BY ScriptedInitIInv
<1>1. PICK scene \in Scenes :
      /\ script = [c \in scene |->
             LET thinks == Name(c) = "none" \/ ScriptConf[c].idle
             IN  [gone |-> FALSE, target |-> NoActor, m_iDelay |-> 0,
                  think |-> IF thinks THEN "CineThink" ELSE "none",
                  start |-> IF thinks /\ Name(c) # "none" THEN "never" ELSE "due",
                  interruptable |-> ~ScriptConf[c].noInterrupt]]
      /\ actor = [a \in UNION {Range(ScriptConf[c].entity) : c \in scene} |->
           [gone |-> FALSE, state |-> "idle", ideal |-> "idle", cine |-> NoScript,
            scriptState |-> "none", task |-> "other", failed |-> FALSE, hurt |-> FALSE,
            well |-> TRUE, killed |-> FALSE, deadflag |-> "no"]]
  BY DEF ScriptedInit
<1>2. Cast /\ Now.script = script /\ Now.actor = actor /\ NoScript \notin Scripts
  BY <1>0, ScriptedFacts DEF Cast
<1>3. \A a \in Actors : /\ actor[a].state = "idle" /\ actor[a].cine = NoScript
                        /\ actor[a].task = "other" /\ ~actor[a].failed /\ ~actor[a].hurt
  BY <1>1 DEF Actors
<1>4. \A c \in Scripts : script[c].m_iDelay = 0
  BY <1>1 DEF Scripts
<1>5. SaneAll(Now)
  BY <1>2, <1>3 DEF SaneAll, Sane, Led, ScriptTasks
<1>6. ASSUME NEW c \in Scripts
      PROVE  Now.script[c].m_iDelay >= Cardinality(Walkers(Now, c))
  <2>1. Walkers(Now, c) = {}
    BY <1>2, <1>3, GroupFacts DEF Walkers, Walker
  <2>2. Cardinality(Walkers(Now, c)) = 0
    BY <2>1, FS_EmptySet
  <2> QED
    BY <1>2, <1>4, <2>2
<1> QED
  BY <1>0, <1>5, <1>6 DEF WalkIInv, Counted

LEMMA WalkNext == WalkIInv /\ [ScriptedNext]_scriptedVars => WalkIInv'
<1> SUFFICES ASSUME WalkIInv, [ScriptedNext]_scriptedVars PROVE WalkIInv'
  OBVIOUS
<1>0. ScriptedIInv'
  BY WalkFacts, ScriptedNextIInv
<1>1. CASE \E c \in Scripts : ScriptUse(c) \/ CineThink(c) \/ SUB_Remove(c) \/ StartTimeComes(c)
  BY <1>0, <1>1, ScriptUseWalks, CineThinkWalks, SUB_RemoveWalks, StartTimeComesWalks
<1>2. CASE \E a \in Actors : ActorRemoved(a) \/ \E finished \in BOOLEAN : MonsterThink(a, finished)
  BY <1>0, <1>2, ActorRemovedWalks, MonsterThinkWalks
<1>3. CASE \E a \in Actors : \/ MonsterUse(a)
                             \/ \E b \in BOOLEAN : TakeDamage(a, b) \/ StartFollowing(a, b)
  BY <1>0, <1>3, MonsterUseWalks, TakeDamageWalks, StartFollowingWalks
<1>4. CASE UNCHANGED scriptedVars
  <2>1. script' = script /\ actor' = actor
    BY <1>4 DEF scriptedVars
  <2>2. SaneAll(Now)'
    BY <2>1 DEF WalkIInv, SaneAll, Now, Actors
  <2>3. Counted(Now)'
    BY <2>1 DEF WalkIInv, Counted, Proper, Namesakes, Walkers, Walker, Group, Now, Actors, Scripts
  <2> QED
    BY <1>0, <2>2, <2>3 DEF WalkIInv
<1> QED
  BY <1>1, <1>2, <1>3, <1>4 DEF ScriptedNext

\* For any scene, whatever is hurt, cancelled, removed or used in between: m_iDelay
\* of a script counts at least the monsters that are still on their way to a mark
\* of its name, so that none of them starts without the others
\* (CCineMonster::DelayStart, PossessEntity and TASK_WALK_TO_SCRIPT), if all the
\* scripts the name ever had are scripted_sequences that walk.
THEOREM WalkersAlwaysWaitedFor == ScriptedSpec => []WalkersAreWaitedFor
<1>1. ScriptedInit => WalkIInv
  BY ScriptedInitWalks
<1>2. WalkIInv => WalkersAreWaitedFor
  <2> SUFFICES ASSUME WalkIInv, NEW c \in Scripts, Proper(c), ~script[c].gone
               PROVE  script[c].m_iDelay >= Cardinality({d \in Group(c) : Walking(d)})
    BY DEF WalkersAreWaitedFor
  <2>1. Now.script = script /\ Now.actor = actor /\ Counted(Now)
    BY WalkFacts, ScriptedFacts DEF WalkIInv
  <2>2. \A d \in Scripts : Walker(Now, d) <=> Walking(d)
    BY <2>1 DEF Walker, Walking, Roams, Delivered
  <2>3. {d \in Group(c) : Walking(d)} = Walkers(Now, c)
    BY <2>2, WalkFacts, ScriptedFacts, GroupFacts DEF Walkers
  <2> QED
    BY <2>1, <2>3 DEF Counted
<1> QED
  BY <1>1, <1>2, WalkNext, PTL DEF ScriptedSpec

-----------------------------------------------------------------------------
(* The machines of a level side by side *)

MachinesIInv == DoorIInv /\ ButtonIInv /\ TracksIInv /\ ScriptedIInv

LEMMA MachinesNextIInv ==
    ASSUME ~LongExit
    PROVE  MachinesIInv /\ [MachinesNext]_machineVars => MachinesIInv'
<1> SUFFICES ASSUME MachinesIInv, [MachinesNext]_machineVars PROVE MachinesIInv'
  OBVIOUS
<1>1. DoorIInv /\ ButtonIInv /\ TracksIInv /\ ScriptedIInv
  BY DEF MachinesIInv
<1>2. [DoorNext]_doorVars /\ [ButtonNext]_buttonVars /\ [TracksNext]_trackVars
      /\ [ScriptedNext]_scriptedVars
  <2>1. CASE InDoors /\ DoorNext
    BY <2>1 DEF InDoors
  <2>2. CASE InButtons /\ ButtonNext
    BY <2>2 DEF InButtons
  <2>3. CASE InScripts /\ ScriptedNext
    BY <2>3 DEF InScripts
  <2>4. CASE InTracks /\ TracksNext
    BY <2>4 DEF InTracks
  <2>5. CASE UNCHANGED machineVars
    BY <2>5 DEF machineVars
  <2> QED
    BY <2>1, <2>2, <2>3, <2>4, <2>5 DEF MachinesNext
<1> QED
  BY <1>1, <1>2, DoorNextIInv, ButtonNextGood, TracksNextIInv, ScriptedNextIInv DEF MachinesIInv

\* Doors, buttons, the train with its plat, scripts and monsters keep their types
\* together: no step of one touches the state of another.
THEOREM MachinesAreTyped ==
    ASSUME ~LongExit
    PROVE  MachinesSpec => []MachinesTypeOK
<1>1. MachinesInit => MachinesIInv
  BY DoorInitIInv, ButtonInitGood, TracksInitIInv, ScriptedInitIInv DEF MachinesInit, MachinesIInv
<1>2. MachinesIInv => DoorTypeOK
  BY DEF MachinesIInv, DoorIInv, GoodDoor, DoorType, DoorTypeOK
<1>3. MachinesIInv => ButtonTypeOK
  BY ButtonIInvType DEF MachinesIInv
<1>4. MachinesIInv => TracksTypeOK
  BY DEF MachinesIInv, TracksIInv, GoodTracks, TracksState, TrainType, PlatType, TracksNow,
         TracksTypeOK
<1>5. MachinesIInv => ScriptedTypeOK
  BY ScriptedIInvType DEF MachinesIInv
<1>6. MachinesIInv => MachinesTypeOK
  BY <1>2, <1>3, <1>4, <1>5 DEF MachinesTypeOK
<1> QED
  BY <1>1, <1>6, MachinesNextIInv, PTL DEF MachinesSpec

=============================================================================
