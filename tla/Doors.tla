------------------------------- MODULE Doors -------------------------------
(***************************************************************************)
(* Doors (dlls/doors.cpp, CBaseDoor, over the moves of CBaseToggle in      *)
(* dlls/subs.cpp): toggle states driven by one think and one move-done     *)
(* callback per door, started by touches, uses and blocking bodies, with   *)
(* the pieces of a door that share a targetname.  A door is between its    *)
(* two positions or at one of them; distances and angles are left out, but *)
(* for the move that is over at once (LinearMove below 0.05 seconds).      *)
(***************************************************************************)
EXTENDS Naturals, FiniteSets

CONSTANTS DoorSet,
          DoorConf,       \* door -> [targetname, autoReturn, useOnly, returns,
                          \*          small, target, fast]
          DoorCoop,       \* mp_coop
          MaxDisturb      \* bound: touches, uses and blocks of a behaviour

\* What a level says of a door are flags.
ASSUME DoorAssumption ==
    /\ \A d \in DoorSet : {DoorConf[d].autoReturn, DoorConf[d].useOnly, DoorConf[d].returns,
                           DoorConf[d].small, DoorConf[d].target, DoorConf[d].fast} \subseteq BOOLEAN
    /\ DoorCoop \in BOOLEAN
    /\ MaxDisturb \in Nat

VARIABLES door,           \* door -> its fields
          disturbed       \* how many touches, uses and blocks so far

doorVars == <<door, disturbed>>

Named(d) == DoorConf[d].targetname # "none"
Pieces(d) == {e \in DoorSet : Named(d) /\ DoorConf[e].targetname = DoorConf[d].targetname}
Toggles(d) == ~DoorConf[d].autoReturn     \* SF_DOOR_NO_AUTO_RETURN

\* The touch function of a door at rest: CoopTouch and DoorTouch by name.
TouchAtRest(d) ==
    IF ~DoorConf[d].useOnly THEN "DoorTouch"
    ELSE IF DoorCoop THEN "CoopTouch" ELSE "none"

DoorInit ==
    /\ door = [d \in DoorSet |->
                 [toggle_state |-> "AT_BOTTOM", at |-> "pos1", think |-> "none",
                  moveDone |-> "none", touch |-> TouchAtRest(d),
                  fActivated |-> FALSE, target |-> DoorConf[d].target,
                  savedtarget |-> FALSE]]
    /\ disturbed = 0

-----------------------------------------------------------------------------
(* Moving *)

\* Bugs: the wait at the top is not begun; the touch is not given back.
DoorHitTopForever(d, r) ==
    [r EXCEPT !.toggle_state = "AT_TOP", !.at = "pos2", !.think = "none"]
DoorHitBottomDeaf(d, r) ==
    [r EXCEPT !.toggle_state = "AT_BOTTOM", !.at = "pos1", !.think = "none"]

\* CBaseDoor::DoorHitTop: a toggling door waits for its next use, another one
\* for m_flWait seconds, or for ever.
DoorHitTop(d, r) ==
    [r EXCEPT !.toggle_state = "AT_TOP", !.at = "pos2",
              !.touch = IF Toggles(d) THEN TouchAtRest(d) ELSE r.touch,
              !.think = IF ~Toggles(d) /\ DoorConf[d].returns THEN "DoorGoDown" ELSE "none"]

\* CBaseDoor::DoorHitBottom
DoorHitBottom(d, r) ==
    [r EXCEPT !.toggle_state = "AT_BOTTOM", !.at = "pos1",
              !.touch = TouchAtRest(d), !.think = "none"]

\* CBaseToggle::LinearMoveDone and AngularMoveDone
MoveDone(d, r) ==
    IF r.moveDone = "DoorHitTop" THEN DoorHitTop(d, r) ELSE DoorHitBottom(d, r)

\* CBaseToggle::LinearMove: at once if the door is there or nearly so.
LinearMove(d, r, dest) ==
    IF r.at = dest \/ DoorConf[d].fast THEN MoveDone(d, r)
    ELSE [r EXCEPT !.think = "LinearMoveDone", !.at = "between"]

\* CBaseDoor::DoorGoUp and CBaseDoor::DoorGoDown
DoorGoUp(d, r) ==
    LinearMove(d, [r EXCEPT !.toggle_state = "GOING_UP", !.moveDone = "DoorHitTop"],
               "pos2")
DoorGoDown(d, r) ==
    LinearMove(d, [r EXCEPT !.toggle_state = "GOING_DOWN", !.moveDone = "DoorHitBottom"],
               "pos1")

\* CBaseDoor::DoorActivate of a door whose master lets it.
DoorActivate(d, r) ==
    IF Toggles(d) /\ r.toggle_state = "AT_TOP" THEN DoorGoDown(d, r) ELSE DoorGoUp(d, r)

-----------------------------------------------------------------------------
(* Actions *)

Disturb == disturbed < MaxDisturb /\ disturbed' = disturbed + 1

\* CBaseDoor::CoopTouch of a player who holds the use key.  The target is
\* cleared before it is saved.
CoopTouched(d, r) ==
    IF r.fActivated
    THEN DoorActivate(d, [r EXCEPT !.target = FALSE,
                                   !.savedtarget = IF r.target THEN FALSE ELSE @])
    ELSE r

\* A player touches a door (CBaseDoor::DoorTouch, CBaseDoor::CoopTouch).
TouchDoor(d) ==
    /\ Disturb
    /\ \/ /\ door[d].touch = "CoopTouch" \/ (door[d].touch = "DoorTouch" /\ Named(d) /\ DoorCoop)
          /\ door' = [door EXCEPT ![d] = CoopTouched(d, @)]
       \/ /\ door[d].touch = "DoorTouch" /\ ~Named(d)
          /\ door' = [door EXCEPT ![d] = [DoorActivate(d, @) EXCEPT !.touch = "none"]]

\* CBaseDoor::Use: only a door at rest takes it.
Used(d, r) ==
    IF r.toggle_state = "AT_BOTTOM" \/ (Toggles(d) /\ r.toggle_state = "AT_TOP")
    THEN DoorActivate(d, [r EXCEPT !.fActivated = @ \/ (DoorCoop /\ DoorConf[d].small),
                                   !.target = @ \/ (DoorCoop /\ r.savedtarget),
                                   !.savedtarget = @ /\ (r.target \/ ~DoorCoop)])
    ELSE r

\* FireTargets uses all pieces, a player's use key one door.
UseDoors(D) ==
    /\ Disturb
    /\ door' = [d \in DoorSet |-> IF d \in D THEN Used(d, door[d]) ELSE door[d]]

Reversed(d, r) ==
    IF r.toggle_state = "GOING_DOWN" THEN DoorGoUp(d, r) ELSE DoorGoDown(d, r)

\* CBaseDoor::Blocked while the door moves: it and every other piece that
\* returns on its own turn round, whatever that piece does.
BlockDoor(d) ==
    /\ Disturb
    /\ door[d].at = "between"
    /\ door' = [e \in DoorSet |->
                  IF (e = d \/ e \in Pieces(d)) /\ DoorConf[e].returns
                  THEN Reversed(e, door[e]) ELSE door[e]]

\* The think of a door is due.
DoorThink(d) ==
    /\ \/ /\ door[d].think = "LinearMoveDone"
          /\ door' = [door EXCEPT ![d] = MoveDone(d, @)]
       \/ /\ door[d].think = "DoorGoDown"
          /\ door' = [door EXCEPT ![d] = DoorGoDown(d, @)]
    /\ UNCHANGED disturbed

DoorNext ==
    \/ \E d \in DoorSet :
          \/ TouchDoor(d) \/ BlockDoor(d) \/ DoorThink(d)
          \/ DoorConf[d].useOnly /\ UseDoors({d})
          \/ Named(d) /\ UseDoors(Pieces(d))

DoorSpec == DoorInit /\ [][DoorNext]_doorVars

-----------------------------------------------------------------------------
(* Properties *)

\* Every door's fields have their types.
DoorTypeOK ==
    /\ disturbed \in 0..MaxDisturb
    /\ door \in [DoorSet ->
          [toggle_state : {"AT_BOTTOM", "GOING_UP", "AT_TOP", "GOING_DOWN"},
           at : {"pos1", "between", "pos2"},
           think : {"none", "LinearMoveDone", "DoorGoDown"},
           moveDone : {"none", "DoorHitTop", "DoorHitBottom"},
           touch : {"none", "DoorTouch", "CoopTouch"},
           fActivated : BOOLEAN, target : BOOLEAN, savedtarget : BOOLEAN]]

\* No touch, use or blocking body, in any order, makes a door forget that it
\* moves: one that moves has the think that ends its move, towards the end its
\* toggle state names, and an open one that returns has the think that closes it.
DoorsKeepThinking ==
    \A d \in DoorSet :
        LET r == door[d]
        IN  /\ r.toggle_state \in {"GOING_UP", "GOING_DOWN"} =>
                  r.think = "LinearMoveDone" /\ r.at = "between"
            /\ r.toggle_state = "GOING_UP" => r.moveDone = "DoorHitTop"
            /\ r.toggle_state = "GOING_DOWN" => r.moveDone = "DoorHitBottom"
            /\ r.toggle_state = "AT_TOP" =>
                  /\ r.at = "pos2"
                  /\ (r.think = "DoorGoDown") = (DoorConf[d].autoReturn /\ DoorConf[d].returns)
            /\ r.toggle_state = "AT_BOTTOM" => r.at = "pos1" /\ r.think = "none"

\* DoorTouch disables itself "until movement is finished": a closed door
\* has its touch function again, and so does an open one that toggles, unless
\* its move is over before DoorTouch takes the function away.
DoorsStayTouchable ==
    \A d \in DoorSet :
        \/ door[d].toggle_state = "AT_BOTTOM"
              \/ (Toggles(d) /\ door[d].toggle_state = "AT_TOP")
           => door[d].touch = TouchAtRest(d)
        \/ Toggles(d) /\ DoorConf[d].fast

\* Whatever touches, uses and blocks doors and the pieces of their name: the
\* next step of each is due, or it is at rest and answers to a touch.
DoorsKeepWorking == DoorsKeepThinking /\ DoorsStayTouchable

\* When the disturbances end, a door that returns on its own comes to rest
\* closed.
DoorsClose ==
    \A d \in DoorSet : DoorConf[d].autoReturn /\ DoorConf[d].returns =>
        (door[d].toggle_state # "AT_BOTTOM" ~> door[d].toggle_state = "AT_BOTTOM")
=============================================================================
