------------------------------- MODULE Tracks -------------------------------
(***************************************************************************)
(* A train on path_tracks and the trackchange that carries it from one     *)
(* line to another (dlls/plats.cpp: CFuncTrackTrain, CFuncTrackChange over *)
(* CFuncPlat; dlls/pathcorner.cpp: CPathTrack), with the player at the     *)
(* controls of the train and the entities that fire the three.             *)
(*                                                                         *)
(* A place is <<n, FALSE>> at track n or <<n, TRUE>> between n and the     *)
(* next track; a step of the train passes one track at most.  The level    *)
(* has been running for two seconds, so that the trackchange has found     *)
(* its tracks.  Alternate paths and the speeds of tracks are left out.     *)
(***************************************************************************)
EXTENDS Integers, Sequences, SequencesExt

CONSTANTS Lines,          \* sequences of path_tracks, each linked to the next
          TrackTop, TrackBottom,
          FirstTrack,     \* where the train starts
          FiresPlat,      \* tracks whose dead end fires the trackchange
          Switched,       \* tracks that something of the map disables and enables
          LongExit,       \* the way from a track of the plat to the next is longer
                          \* than the train by 150 units
          GlobalTrain     \* the train goes to other maps of a cooperative game

PathTracks == UNION {Range(l) : l \in Lines}
NoTrack == "no track"
Ends == {"top", "bottom"}
TrackOf(end) == IF end = "top" THEN TrackTop ELSE TrackBottom

VARIABLES train,          \* CFuncTrackTrain
          plat,           \* CFuncTrackChange
          pathDisabled    \* tracks with SF_PATH_DISABLED

trackVars == <<train, plat, pathDisabled>>

\* due: nextthink is set; the engine clears it when it calls the think.
\* pos: the end that is less than 0.05 seconds away; to: where the plat goes.
TracksInit ==
    /\ train = [m_ppath |-> FirstTrack, place |-> <<FirstTrack, FALSE>>, speed |-> 0,
                m_oldSpeed |-> 0, think |-> "Next", due |-> TRUE]
    /\ \E end \in Ends :
          /\ plat = [to |-> end, rests |-> TRUE, pos |-> end, m_code |-> "SAFE"]
          /\ pathDisabled = {TrackTop, TrackBottom} \ {TrackOf(end)}

\* The state in the middle of a call
TracksNow == [t |-> train, p |-> plat, d |-> pathDisabled]
TracksBecome(next) ==
    \E s \in {next} : train' = s.t /\ plat' = s.p /\ pathDisabled' = s.d

-----------------------------------------------------------------------------
(* Paths *)

\* CPathTrack::Link: m_pnext and m_pprevious
m_pnext == [n \in PathTracks \cup {NoTrack} |->
    LET after == UNION {{l[i] : i \in {j \in 2..Len(l) : l[j - 1] = n}} : l \in Lines}
    IN  IF after = {} THEN NoTrack ELSE CHOOSE m \in after : TRUE]
m_pprevious == [n \in PathTracks \cup {NoTrack} |->
    LET before == {m \in PathTracks : m_pnext[m] = n /\ n # NoTrack}
    IN  IF before = {} THEN NoTrack ELSE CHOOSE m \in before : TRUE]

\* CPathTrack::ValidPath
ValidPath(s, n) == n # NoTrack /\ n \notin s.d

\* CPathTrack::LookAhead from m_ppath: the track it returns and the place it
\* leads to.  The track the train comes from is not asked whether it is valid.
Forward(s) ==
    LET n == s.t.m_ppath
        g == m_pnext[n]
    IN  IF ~ValidPath(s, g) THEN {<<NoTrack, s.t.place>>}
        ELSE IF s.t.place = <<g, FALSE>>
        THEN IF ValidPath(s, m_pnext[g]) THEN {<<g, <<g, TRUE>>>>} ELSE {<<NoTrack, s.t.place>>}
        ELSE {<<n, <<n, TRUE>>>>, <<g, <<g, FALSE>>>>}
             \cup {IF ValidPath(s, m_pnext[g]) THEN <<g, <<g, TRUE>>>>
                   ELSE <<NoTrack, <<g, FALSE>>>>}
Backward(s) ==
    LET n == s.t.m_ppath
        back == m_pprevious[n]
        passed == IF ValidPath(s, back) THEN <<back, <<back, TRUE>>>> ELSE <<NoTrack, <<n, FALSE>>>>
    IN  IF s.t.place = <<n, FALSE>> THEN {passed} ELSE {<<n, <<n, TRUE>>>>, passed}
LookAhead(s) == IF s.t.speed > 0 THEN Forward(s) ELSE Backward(s)

\* The lines of a level: those that join do it elsewhere than at the tracks of
\* the plat, the train does not start there, and nothing else switches them.
ASSUME TracksAssumption ==
    /\ \A l \in Lines : l \in Seq(PathTracks)
    /\ NoTrack \notin PathTracks
    /\ {TrackTop, TrackBottom, FirstTrack} \cup Switched \subseteq PathTracks
    /\ TrackTop # TrackBottom
    /\ {TrackTop, TrackBottom} \cap ({FirstTrack} \cup Switched) = {}
    /\ \A m \in PathTracks, end \in Ends :
          m_pnext[m] = TrackOf(end) => m_pprevious[TrackOf(end)] = m

-----------------------------------------------------------------------------
(* The trackchange *)

\* Bug: the track that the plat leaves is disabled only when it has arrived.
UpdateAutoTargetsLate(s, state) ==
    IF state = "going" THEN s
    ELSE [s EXCEPT !.d = (@ \cup {TrackTop, TrackBottom}) \ {TrackOf(state)}]

\* CFuncTrackChange::UpdateAutoTargets
UpdateAutoTargets(s, state) ==
    [s EXCEPT !.d = (@ \cup {TrackTop, TrackBottom}) \ {TrackOf(end) : end \in Ends \cap {state}}]

\* CFuncTrackChange::HitTop and HitBottom.  CFuncTrackTrain::SetTrack takes the
\* nearest track, which is the plat's.
Hit(s, end) ==
    LET n == TrackOf(end)
        rested == UpdateAutoTargets([s EXCEPT !.p = [s.p EXCEPT !.rests = TRUE, !.pos = end]], end)
    IN  IF s.p.m_code = "FOLLOWING"
        THEN [rested EXCEPT !.t = [s.t EXCEPT !.m_ppath = n, !.place = <<n, FALSE>>]] ELSE rested

\* CFuncTrackChange::GoUp and GoDown, over CFuncPlat and CBaseToggle::LinearMove:
\* a plat that is less than 0.05 seconds away hits its end at once, and the
\* train that follows loses its track after that.
Go(s, end) ==
    LET going == UpdateAutoTargets([s EXCEPT !.p = [s.p EXCEPT !.to = end, !.rests = FALSE]], "going")
        moved == IF s.p.pos = end THEN Hit(going, end) ELSE going
    IN  CASE s.p.m_code = "BLOCKING" -> s
          [] s.p.m_code = "SAFE" -> moved
          [] s.p.m_code = "FOLLOWING" ->
                 [moved EXCEPT !.t = [moved.t EXCEPT !.m_ppath = NoTrack, !.due = TRUE]]

Other(end) == IF end = "top" THEN "bottom" ELSE "top"

\* How far from the plat, at track n, the train may be.  One that still rolls
\* to its dead end, or waits on the way, is short of its place.
Distances(s, n) ==
    LET rolls == s.t.think = "DeadEnd" /\ (s.t.due \/ GlobalTrain)
    IN  CASE s.t.place = <<n, FALSE>> ->
                 {"FOLLOWING"} \cup (IF rolls THEN {"BLOCKING"} ELSE {})
          [] s.t.place = <<n, TRUE>> ->
                 {"FOLLOWING", "BLOCKING"} \cup (IF LongExit THEN {"SAFE"} ELSE {})
          [] s.t.place = <<m_pnext[n], FALSE>> ->
                 {"BLOCKING"} \cup (IF LongExit THEN {"SAFE"} ELSE {})
          [] OTHER -> {"FOLLOWING", "BLOCKING", "SAFE"}

\* CFuncTrackChange::EvaluateTrain
EvaluateTrain(s, n) ==
    IF s.t.m_ppath # NoTrack /\ s.t.m_ppath \in {n, m_pnext[n], m_pprevious[n]}
    THEN IF s.t.speed # 0 THEN {"BLOCKING"} ELSE Distances(s, n)
    ELSE {"SAFE"}

\* CFuncTrackChange::Use: what may come of it
PlatUsed(s) ==
    IF ~s.p.rests THEN {s}
    ELSE {Go([s EXCEPT !.p = [s.p EXCEPT !.m_code = code]], IF code = "BLOCKING" THEN s.p.to ELSE Other(s.p.to)) :
             code \in EvaluateTrain(s, TrackOf(s.p.to))}

-----------------------------------------------------------------------------
(* The train *)

\* CFuncTrackTrain::DeadEnd: it stops, and the last track ahead fires its
\* netname.
LastAhead(s, n) ==
    LET step(m) == IF s.t.m_oldSpeed < 0 THEN m_pprevious[m] ELSE m_pnext[m]
        ahead[i \in 0..10] == IF i = 0 THEN n
                              ELSE IF ValidPath(s, step(ahead[i - 1])) THEN step(ahead[i - 1])
                              ELSE ahead[i - 1]
    IN  ahead[10]
DeadEnd(s) ==
    IF s.t.m_ppath # NoTrack /\ LastAhead(s, s.t.m_ppath) \in FiresPlat
    THEN PlatUsed(s) ELSE {s}

\* CFuncTrackTrain::Next past the track that LookAhead returns, or to the dead
\* end.  The speed is gone before the train has rolled there; it may be there
\* already, or still short of it.
PassTrack(s, x) ==
    {[s EXCEPT !.t = [s.t EXCEPT !.m_ppath = x[1], !.place = x[2], !.think = "Next", !.due = TRUE]]}
StopAtDeadEnd(s, x) ==
    LET t == [s.t EXCEPT !.place = x[2], !.m_oldSpeed = s.t.speed, !.speed = 0]
    IN  (IF x[2] = s.t.place THEN DeadEnd([s EXCEPT !.t = t]) ELSE {})
        \cup (IF x[2] # s.t.place \/ s.t.think = "DeadEnd"
              THEN {[s EXCEPT !.t = [t EXCEPT !.think = "DeadEnd", !.due = TRUE]]} ELSE {})

\* "prevent train without players going to other map": a think without a move.
WaitForPlayer(s) == IF GlobalTrain THEN {[s EXCEPT !.t = [s.t EXCEPT !.due = TRUE]]} ELSE {}

\* CFuncTrackTrain::Next
TrainNext(s) ==
    IF s.t.speed = 0 \/ s.t.m_ppath = NoTrack THEN {s}
    ELSE WaitForPlayer(s)
         \cup UNION {IF x[1] # NoTrack THEN PassTrack(s, x) ELSE StopAtDeadEnd(s, x)
                        : x \in LookAhead(s)}

AtSpeed(s, v) == [s EXCEPT !.t = [s.t EXCEPT !.speed = v]]

\* CFuncTrackTrain::Use of a button or a trigger: it starts and stops.
TrainUsed(s) ==
    IF s.t.speed = 0 THEN TrainNext(AtSpeed(s, 1))
    ELSE {[s EXCEPT !.t = [s.t EXCEPT !.speed = 0, !.think = "none"]]}

\* CFuncTrackTrain::Use of the player who drives: a gear up or down, of
\* four each way.
TrainSet(s, gear) ==
    UNION {TrainNext(AtSpeed(s, v)) : v \in IF s.t.speed = -gear THEN {-gear, 0} ELSE {gear}}

-----------------------------------------------------------------------------
(* Actions *)

UsePlat == \E s \in PlatUsed(TracksNow) : TracksBecome(s)
UseTrain == \E s \in TrainUsed(TracksNow) : TracksBecome(s)
DriveTrain(gear) == \E s \in TrainSet(TracksNow, gear) : TracksBecome(s)

\* The think of the train.  That of a train that follows is due when the plat
\* has come to its end; which of the two comes first is up to their edicts.
TrainThink ==
    /\ train.due /\ train.think # "none"
    /\ train.m_ppath = NoTrack => plat.pos = plat.to
    /\ LET s == [TracksNow EXCEPT !.t = [train EXCEPT !.due = FALSE]]
       IN  \E r \in IF train.think = "Next" THEN TrainNext(s) ELSE DeadEnd(s) : TracksBecome(r)

\* The plat moves on, or is where it was going to (LinearMoveDone).
PlatMoves ==
    /\ ~plat.rests
    /\ TracksBecome(CASE plat.pos = plat.to -> Hit(TracksNow, plat.to)
                      [] plat.pos = "between" ->
                             [TracksNow EXCEPT !.p = [plat EXCEPT !.pos = plat.to]]
                      [] OTHER -> [TracksNow EXCEPT !.p = [plat EXCEPT !.pos = "between"]])

\* CFuncPlat::Blocked
BlockPlat == ~plat.rests /\ TracksBecome(Go(TracksNow, Other(plat.to)))

\* CPathTrack::Use of a track without an alternate path
UsePath(n) ==
    /\ pathDisabled' = IF n \in pathDisabled THEN pathDisabled \ {n} ELSE pathDisabled \cup {n}
    /\ UNCHANGED <<train, plat>>

TracksNext ==
    \/ UsePlat \/ UseTrain \/ TrainThink \/ PlatMoves \/ BlockPlat
    \/ \E gear \in {-1, 1} : DriveTrain(gear)
    \/ \E n \in Switched : UsePath(n)

TracksSpec == TracksInit /\ [][TracksNext]_trackVars

-----------------------------------------------------------------------------
(* Properties *)

\* The train, the trackchange and the tracks have the fields of their code, and
\* a trackchange that rests is at the end it was going to.
TracksTypeOK ==
    /\ train \in [m_ppath : PathTracks \cup {NoTrack}, place : PathTracks \X BOOLEAN,
                  speed : -1..1, m_oldSpeed : -1..1, think : {"none", "Next", "DeadEnd"},
                  due : BOOLEAN]
    /\ plat \in [to : Ends, rests : BOOLEAN, pos : Ends \cup {"between"},
                 m_code : {"SAFE", "BLOCKING", "FOLLOWING"}]
    /\ plat.rests => plat.pos = plat.to
    /\ pathDisabled \subseteq PathTracks

\* A train that has its track and stands where the plat's track begins stands
\* on the plat: whoever drives, stops, fires and blocks, the train does not
\* enter the gap that the plat has left, and the plat does not leave under it.
\* While it is carried it has no track to drive away on.  (The way behind the
\* plat is short: a train that stands far down a long one counts as safe, and
\* LookAhead does not ask for the track it backs up to.)
TrainsKeepToThePlat ==
    /\ train.m_ppath # NoTrack =>
          \A end \in Ends : train.place = <<TrackOf(end), FALSE>> => plat.rests /\ plat.to = end
    /\ ~plat.rests /\ plat.m_code = "FOLLOWING" => train.m_ppath = NoTrack

\* "HitTop may get called during CFuncPlat::GoUp(), so set up for that before
\* you call GoUp();" (plats.cpp:1852): the train has a track again when the plat
\* has arrived.
TrainGetsTrackBack == train.m_ppath = NoTrack => ~plat.rests
=============================================================================
