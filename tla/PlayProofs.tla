----------------------------- MODULE PlayProofs -----------------------------
(***************************************************************************)
(* The campaign, the guns that players hold, the weapons they carry and    *)
(* the entities that fire each other, for any maps, landmarks, changes of  *)
(* level, players, guns, places, weapons, items and targets.               *)
(*                                                                         *)
(* The campaign.  The offsets are right after a change because the         *)
(* landmark was seen in the map that is left (LandmarkIsSeen), which is so *)
(* until a load: only then a level may begin without COOP_ServerActivate   *)
(* (LoadsAreCounted).  Two slots never lead to one file because the number *)
(* of the last automatic save alternates (AutoSavesAlternate).  Whatever   *)
(* else waits, the transition is that of the last change of level by a     *)
(* landmark (ChangeWaits): who touches a trigger prepares both, except     *)
(* while the engine changes the level, and then nobody is in the game.     *)
(*                                                                         *)
(* The guns.  The calls are functions of a record of players and guns, and *)
(* so is the invariant: what remains is that each function keeps it.  Only *)
(* in between, while a player who had a gun takes a second one, does the   *)
(* first gun know a player who does not have it.                           *)
(*                                                                         *)
(* The weapons.  An operation is a function of the state in the middle of  *)
(* a call.  Most lemmas say what one of them changes, by a relation of the *)
(* two states (Lost, Holstered, Changed, Took, Packed...), and that the    *)
(* invariant Sound(s, B) is kept while the items of B are out of reach in  *)
(* a box.  A weapon that takes itself away when it is put down (Holstered) *)
(* is the thread through all of them.  Good(s) is Sound with the player's  *)
(* own box and the bits of the client.                                     *)
(*                                                                         *)
(* What fires each other.  Both properties are about the middle of a call. *)
(* Did(s, t, e) says what all the firings of e between s and t may do: to  *)
(* the account of a manager nothing but what is ahead of its runs          *)
(* (Steady), and to a maker that they do not reach nothing (Beyond).  That *)
(* it holds of Fire at every depth is an induction (FireAnswers).          *)
(***************************************************************************)
EXTENDS MCPlay, SoundPoolProofs, FiniteSetTheorems, DataLemmas

-----------------------------------------------------------------------------
(* The campaign *)

Checkpoints == [0..NCHECKPOINTS - 1 -> Maps \cup {NoMap}]
TransitionType == [source : Maps \cup {NoMap}, target : Maps \cup {NoMap},
                   landmark : Landmarks \cup {NoLandmark}, vecLandmark : Int,
                   pos : Maps \cup {NoMap}, fLoading : BOOLEAN]
CoopPlayerType == [iState : {"uninitialized", "load_fix", "spectator_begin", "spawned"},
                   dead : {"no", "dead", "respawnable"}, menu : BOOLEAN]
Saving(n) == <<"ggm_save", n>>
ChangeTo(m, l) == <<"changelevel", m, l>>
Command == {Saving(n) : n \in SaveNames}
               \cup {ChangeTo(m, l) : m \in Maps, l \in Landmarks \cup {NoLandmark}}

MapsTypeOK ==
    /\ map \in Maps /\ pCurrentMap \in Known /\ Known \subseteq Maps
    /\ offset \in [Known -> Int]
    /\ checkpoints \in [Known -> Checkpoints]
    /\ fSaved \in Maps \cup {NoMap}
SavesTypeOK ==
    /\ slots \in [SlotNames -> SaveNames \cup {NoSave}]
    /\ iLastAutoSave \in {0, 1} /\ files \subseteq SaveNames
    /\ commands \in Seq(Command)
LevelTypeOK ==
    /\ transition \in TransitionType
    /\ afterLoad \in Never..MaxAfterLoad
    /\ g_flDupCheck \in BOOLEAN /\ g_fPause \in BOOLEAN /\ st_fSkipNext \in BOOLEAN
    /\ coopPlayer \in [CoopPlayers -> CoopPlayerType]

NoHole(c) ==
    /\ c[NCHECKPOINTS - 1] = NoMap
    /\ \A i \in 1..NCHECKPOINTS - 1 : c[i] # NoMap => c[i - 1] # NoMap

NoHoles == \A m \in Known : NoHole(checkpoints[m])

LoadsAreCounted == transition.fLoading \/ g_flDupCheck => afterLoad # Never

LandmarkIsSeen ==
    afterLoad = Never /\ transition.landmark # NoLandmark
        => transition.vecLandmark = Coordinate(transition.landmark, map)

PositionsKnown ==
    /\ \A m \in Known, i \in 0..NCHECKPOINTS - 1 : checkpoints[m][i] \in Known \cup {NoMap}
    /\ fSaved \in Known \cup {NoMap} /\ transition.pos \in Known \cup {NoMap}

AutoName(n) == IF n = 1 THEN "auto1" ELSE "auto0"

SlotKinds(s, n) ==
    /\ \A i \in {"START1", "START2"} : s[i] # NoSave => s[i][1] = "start"
    /\ \A i \in {"AUTO1", "AUTO2"} : s[i] # NoSave => s[i][1] # "start"
    /\ s["AUTO1"] # NoSave => s["AUTO1"][1] = AutoName(n)

AutoSavesAlternate == SlotKinds(slots, iLastAutoSave)

\* SlotsAreSaves of slots s, files f and commands c.
SlotFiles(s, f, c) ==
    /\ \A i \in SlotNames : s[i] # NoSave =>
          \/ s[i] \in f
          \/ \E j \in DOMAIN c : c[j] = Saving(s[i])
    /\ \A i, j \in SlotNames : i # j /\ s[i] # NoSave => s[i] # s[j]

\* The changes of level by a landmark that wait.
LandmarkChanges ==
    {i \in DOMAIN commands : commands[i][1] = "changelevel" /\ commands[i][3] \in Landmarks}

Prepared(i) == transition.target = commands[i][2] /\ transition.landmark = commands[i][3]

ChangeWaits ==
    /\ transition.landmark # NoLandmark =>
          \A i \in LandmarkChanges : (\A j \in LandmarkChanges : j <= i) => Prepared(i)
    /\ ~mp_coop_reconnect_hack /\ LandmarkChanges # {} =>
          \A p \in CoopPlayers : coopPlayer[p].iState # "spawned"

\* The inductive invariant.
CampaignIInv ==
    /\ MapsTypeOK /\ SavesTypeOK /\ LevelTypeOK
    /\ NoHoles
    /\ LoadsAreCounted /\ LandmarkIsSeen /\ OffsetsAgree
    /\ afterLoad = Never => PositionsKnown
    /\ AutoSavesAlternate /\ SlotFiles(slots, files, commands)
    /\ ChangeWaits

-----------------------------------------------------------------------------
(* Operators *)

\* A checkpoint goes in front, the last entry stays empty and no hole opens.
LEMMA PushCheckpointGood ==
    ASSUME NEW c \in Checkpoints, NoHole(c), NEW m \in Maps
    PROVE  /\ PushCheckpoint(c, m) \in Checkpoints
           /\ NoHole(PushCheckpoint(c, m))
           /\ \A i \in 0..NCHECKPOINTS - 1 :
                 \/ PushCheckpoint(c, m)[i] = m
                 \/ \E j \in 0..NCHECKPOINTS - 1 : PushCheckpoint(c, m)[i] = c[j]
<1> DEFINE d == PushCheckpoint(c, m)
<1>1. NCHECKPOINTS \in Nat /\ NCHECKPOINTS > 1 /\ m # NoMap
  BY CampaignAssumption, NamesAssumption
<1>2. DOMAIN c = 0..NCHECKPOINTS - 1
  BY DEF Checkpoints
<1>3. d = [i \in 0..NCHECKPOINTS - 1 |->
              IF i = 0 THEN m ELSE IF i <= NCHECKPOINTS - 2 THEN c[i - 1] ELSE c[i]]
  BY <1>2 DEF PushCheckpoint
<1>4. /\ d[0] = m /\ d[NCHECKPOINTS - 1] = c[NCHECKPOINTS - 1]
      /\ \A i \in 1..NCHECKPOINTS - 2 : i - 1 \in 0..NCHECKPOINTS - 1 /\ d[i] = c[i - 1]
  BY <1>1, <1>3
<1>5. \A i \in 0..NCHECKPOINTS - 1 : i = 0 \/ i = NCHECKPOINTS - 1 \/ i \in 1..NCHECKPOINTS - 2
  BY <1>1
<1>6. 0 \in 0..NCHECKPOINTS - 1 /\ NCHECKPOINTS - 1 \in 0..NCHECKPOINTS - 1
  BY <1>1
<1>7. \A i \in 0..NCHECKPOINTS - 1 : d[i] = m \/ \E j \in 0..NCHECKPOINTS - 1 : d[i] = c[j]
  BY <1>4, <1>5, <1>6
<1>8. d \in Checkpoints
  <2>1. \A i \in 0..NCHECKPOINTS - 1 : d[i] \in Maps \cup {NoMap}
    BY <1>7 DEF Checkpoints
  <2> QED
    BY <1>3, <2>1 DEF Checkpoints
<1>9. NoHole(d)
  <2>1. d[NCHECKPOINTS - 1] = NoMap
    BY <1>4 DEF NoHole
  <2>2. ASSUME NEW i \in 1..NCHECKPOINTS - 1, d[i] # NoMap
        PROVE  d[i - 1] # NoMap
    <3>1. i \in 1..NCHECKPOINTS - 2 /\ d[i] = c[i - 1]
      BY <1>1, <1>4, <1>5, <2>1, <2>2
    <3>2. CASE i = 1
      BY <1>1, <1>4, <3>2
    <3>3. CASE i # 1
      <4>1. /\ i - 1 \in 1..NCHECKPOINTS - 2 /\ i - 1 \in 1..NCHECKPOINTS - 1
            /\ i - 1 - 1 \in 0..NCHECKPOINTS - 1
        BY <1>1, <3>1, <3>3
      <4>2. d[i - 1] = c[i - 1 - 1]
        BY <1>4, <4>1
      <4>3. c[i - 1] # NoMap => c[i - 1 - 1] # NoMap
        BY <4>1 DEF NoHole
      <4> QED
        BY <2>2, <3>1, <4>2, <4>3
    <3> QED
      BY <3>2, <3>3
  <2> HIDE DEF d
  <2> QED
    BY <2>1, <2>2 DEF NoHole
<1> QED
  BY <1>7, <1>8, <1>9

LEMMA NoCheckpointsGood ==
    /\ NoCheckpoints \in Checkpoints /\ NoHole(NoCheckpoints)
    /\ \A i \in 0..NCHECKPOINTS - 1 : NoCheckpoints[i] = NoMap
<1>1. NCHECKPOINTS \in Nat /\ NCHECKPOINTS > 1
  BY CampaignAssumption
<1>2. \A i \in 1..NCHECKPOINTS - 1 : i \in 0..NCHECKPOINTS - 1
  BY <1>1
<1>3. NCHECKPOINTS - 1 \in 0..NCHECKPOINTS - 1
  BY <1>1
<1>4. /\ NoCheckpoints \in Checkpoints
      /\ \A i \in 0..NCHECKPOINTS - 1 : NoCheckpoints[i] = NoMap
  BY DEF NoCheckpoints, Checkpoints
<1> QED
  BY <1>2, <1>3, <1>4 DEF NoHole

\* What is in the command buffer.
LEMMA CommandFacts ==
    /\ \A n \in SaveNames : Saving(n) \in Command
    /\ \A m \in Maps, l \in Landmarks \cup {NoLandmark} : ChangeTo(m, l) \in Command
    /\ \A n : Saving(n)[1] = "ggm_save" /\ Saving(n)[2] = n
    /\ \A m, l : ChangeTo(m, l)[1] = "changelevel" /\ ChangeTo(m, l)[2] = m /\ ChangeTo(m, l)[3] = l
    /\ \A c \in Command : c[1] = "changelevel" =>
          c[2] \in Maps /\ c[3] \in Landmarks \cup {NoLandmark}
    /\ \A c \in Command : c[1] = "ggm_save" => c[2] \in SaveNames /\ c = Saving(c[2])
  BY DEF Saving, ChangeTo, Command

\* A command goes behind the others.
LEMMA AppendFacts ==
    ASSUME NEW S, NEW s \in Seq(S), NEW e \in S
    PROVE  /\ Append(s, e) \in Seq(S)
           /\ DOMAIN Append(s, e) = DOMAIN s \cup {Len(s) + 1}
           /\ Len(s) + 1 \notin DOMAIN s
           /\ Append(s, e)[Len(s) + 1] = e
           /\ \A i \in DOMAIN s : Append(s, e)[i] = s[i]
  BY LenProperties

\* The first command is taken.
LEMMA TailFacts ==
    ASSUME NEW S, NEW s \in Seq(S), s # <<>>
    PROVE  /\ Head(s) = s[1] /\ 1 \in DOMAIN s /\ Head(s) \in S
           /\ Tail(s) \in Seq(S)
           /\ \A i \in DOMAIN Tail(s) : i + 1 \in DOMAIN s /\ i + 1 # 1 /\ Tail(s)[i] = s[i + 1]
           /\ \A i \in DOMAIN s \ {1} : i - 1 \in DOMAIN Tail(s) /\ Tail(s)[i - 1] = s[i]
<1>1. Len(s) \in Nat /\ Len(s) > 0 /\ DOMAIN s = 1..Len(s)
  BY LenProperties, EmptySeq
<1>2. /\ Head(s) = s[1] /\ s[1] \in S
      /\ Tail(s) \in Seq(S) /\ Len(Tail(s)) = Len(s) - 1
      /\ \A i \in 1..Len(s) - 1 : Tail(s)[i] = s[i + 1]
  BY <1>1
<1>3. DOMAIN Tail(s) = 1..Len(s) - 1
  BY <1>2, LenProperties
<1>4. ASSUME NEW i \in DOMAIN s \ {1}
      PROVE  i - 1 \in 1..Len(s) - 1 /\ i - 1 + 1 = i
  BY <1>1
<1>5. \A i \in DOMAIN s \ {1} : i - 1 \in DOMAIN Tail(s) /\ Tail(s)[i - 1] = s[i]
  BY <1>2, <1>3, <1>4
<1>6. \A i \in DOMAIN Tail(s) : i + 1 \in DOMAIN s /\ i + 1 # 1 /\ Tail(s)[i] = s[i + 1]
  BY <1>1, <1>2, <1>3
<1> QED
  BY <1>1, <1>2, <1>5, <1>6

-----------------------------------------------------------------------------
(* A level begins *)

LEMMA ArriveMaps ==
    ASSUME CampaignIInv, NEW m \in Maps, Arrive(m)
    PROVE  /\ MapsTypeOK' /\ NoHoles' /\ OffsetsAgree'
           /\ afterLoad' = Never => PositionsKnown'
           /\ GoesOn(m) => Known \subseteq Known'
<1> DEFINE K == IF GoesOn(m) THEN Known \cup {m} ELSE {m}
           kept == IF GoesOn(m)
                   THEN [n \in Known \cup {m} |-> IF n \in Known THEN checkpoints[n] ELSE NoCheckpoints]
                   ELSE [n \in {m} |-> NoCheckpoints]
<1>1. MapsTypeOK /\ LevelTypeOK /\ NoHoles
  BY DEF CampaignIInv
<1>2. m \in K /\ K \subseteq Maps /\ (GoesOn(m) => Known \subseteq K)
  BY <1>1 DEF MapsTypeOK
<1>3. map' = m /\ offset' = ArrivedOffsets(m) /\ checkpoints' = ArrivedCheckpoints(m)
      /\ pCurrentMap' = m /\ fSaved' = ArrivedPos(m) /\ transition' = NoTransition
      /\ afterLoad' = IF afterLoad = Never THEN Never ELSE afterLoad + 1
  BY DEF Arrive, AfterLevel
<1>4. offset' \in [K -> Int]
  <2>1. CASE ~GoesOn(m)
    BY <1>3, <2>1 DEF ArrivedOffsets
  <2>2. CASE GoesOn(m) /\ transition.fLoading
    <3>1. m \in Known
      BY <2>2 DEF GoesOn
    <3> QED
      BY <1>1, <1>3, <2>2, <3>1 DEF ArrivedOffsets, MapsTypeOK
  <2>3. CASE GoesOn(m) /\ ~transition.fLoading
    <3>1. offset' = ShiftedOffsets(m)
      BY <1>3, <2>3 DEF ArrivedOffsets
    <3>2. transition.landmark \in Landmarks /\ transition.vecLandmark \in Int
      BY <1>1, <2>3 DEF GoesOn, LevelTypeOK, TransitionType
    <3>3. Coordinate(transition.landmark, m) \in Int
      BY <3>2, CampaignAssumption DEF Coordinate
    <3>4. \A n \in Known : offset[n] \in Int
      BY <1>1 DEF MapsTypeOK
    <3> QED
      BY <2>3, <3>1, <3>2, <3>3, <3>4 DEF ShiftedOffsets
  <2> QED
    BY <2>1, <2>2, <2>3
<1>5. Known' = K
  <2> HIDE DEF K
  <2> QED
    BY <1>4 DEF Known
<1>6. fSaved' \in Maps \cup {NoMap} /\ (GoesOn(m) \/ fSaved' = NoMap)
  BY <1>1, <1>3 DEF ArrivedPos, MapsTypeOK, LevelTypeOK, TransitionType
<1>7. kept \in [K -> Checkpoints] /\ \A n \in K : NoHole(kept[n])
  BY <1>1, NoCheckpointsGood DEF MapsTypeOK, NoHoles
<1>8. \A n \in K : \/ kept[n] = NoCheckpoints
                   \/ GoesOn(m) /\ n \in Known /\ kept[n] = checkpoints[n]
  <2>1. CASE GoesOn(m)
    <3>1. kept = [n \in Known \cup {m} |-> IF n \in Known THEN checkpoints[n] ELSE NoCheckpoints]
      BY <2>1
    <3>2. K = Known \cup {m}
      BY <2>1
    <3> HIDE DEF K, kept
    <3> QED
      BY <2>1, <3>1, <3>2
  <2>2. CASE ~GoesOn(m)
    <3>1. kept = [n \in {m} |-> NoCheckpoints] /\ K = {m}
      BY <2>2
    <3> HIDE DEF K, kept
    <3> QED
      BY <3>1
  <2> QED
    BY <2>1, <2>2
<1> HIDE DEF kept, K
<1>9. \/ checkpoints' = kept
      \/ fSaved' # NoMap /\ checkpoints' = [kept EXCEPT ![m] = PushCheckpoint(kept[m], fSaved')]
  BY <1>3 DEF ArrivedCheckpoints, kept
<1>10. fSaved' # NoMap =>
          /\ PushCheckpoint(kept[m], fSaved') \in Checkpoints
          /\ NoHole(PushCheckpoint(kept[m], fSaved'))
          /\ \A i \in 0..NCHECKPOINTS - 1 :
                \/ PushCheckpoint(kept[m], fSaved')[i] = fSaved'
                \/ \E j \in 0..NCHECKPOINTS - 1 : PushCheckpoint(kept[m], fSaved')[i] = kept[m][j]
  <2> DEFINE x == fSaved'
             c == kept[m]
  <2>1. c \in Checkpoints /\ NoHole(c)
    BY <1>2, <1>7
  <2>2. x # NoMap => x \in Maps
    BY <1>6
  <2> HIDE DEF x, c
  <2>3. x # NoMap =>
           /\ PushCheckpoint(c, x) \in Checkpoints
           /\ NoHole(PushCheckpoint(c, x))
           /\ \A i \in 0..NCHECKPOINTS - 1 :
                 \/ PushCheckpoint(c, x)[i] = x
                 \/ \E j \in 0..NCHECKPOINTS - 1 : PushCheckpoint(c, x)[i] = c[j]
    BY <2>1, <2>2, PushCheckpointGood
  <2> QED
    BY <2>3 DEF x, c
<1>11. checkpoints' \in [K -> Checkpoints] /\ \A n \in K : NoHole(checkpoints'[n])
  BY <1>2, <1>7, <1>9, <1>10
<1>12. \A n \in K, i \in 0..NCHECKPOINTS - 1 :
           \/ checkpoints'[n][i] = fSaved'
           \/ \E j \in 0..NCHECKPOINTS - 1 : checkpoints'[n][i] = kept[n][j]
  BY <1>2, <1>7, <1>9, <1>10
<1>13. MapsTypeOK'
  BY <1>2, <1>3, <1>4, <1>5, <1>6, <1>11 DEF MapsTypeOK
<1>14. NoHoles'
  BY <1>5, <1>11 DEF NoHoles
<1>15. OffsetsAgree'
  <2> SUFFICES ASSUME afterLoad = Never
               PROVE  \A n \in K : offset'[n] = Origin[n] - Origin[m]
    <3>1. afterLoad' = Never => afterLoad = Never
      BY <1>1, <1>3 DEF LevelTypeOK, Never, MaxAfterLoad
    <3> QED
      BY <1>3, <1>5, <3>1 DEF OffsetsAgree, OffsetsAreRelative
  <2>1. ~transition.fLoading
    BY DEF CampaignIInv, LoadsAreCounted
  <2>2. Origin \in [Maps -> Int]
    BY CampaignAssumption
  <2>3. CASE ~GoesOn(m)
    BY <1>3, <2>2, <2>3 DEF ArrivedOffsets, K
  <2>4. CASE GoesOn(m)
    <3>1. offset' = ShiftedOffsets(m)
      BY <1>3, <2>1, <2>4 DEF ArrivedOffsets
    <3>2. transition.landmark \in Landmarks
          /\ transition.vecLandmark = Place[transition.landmark] - Origin[map]
      BY <1>1, <2>1, <2>4 DEF GoesOn, LevelTypeOK, TransitionType, CampaignIInv, LandmarkIsSeen, Coordinate
    <3>3. Place[transition.landmark] \in Int /\ Origin[map] \in Int /\ Origin[m] \in Int
      BY <1>1, <3>2, CampaignAssumption DEF MapsTypeOK
    <3>4. \A n \in Known : offset[n] = Origin[n] - Origin[map] /\ Origin[n] \in Int
      BY <1>1, <2>2 DEF CampaignIInv, OffsetsAgree, OffsetsAreRelative, MapsTypeOK
    <3>5. \A n \in Known \cup {m} :
              offset'[n] = IF n = m THEN 0
                           ELSE offset[n] - transition.vecLandmark
                                + (Place[transition.landmark] - Origin[m])
      BY <3>1 DEF ShiftedOffsets, Coordinate
    <3> QED
      BY <2>4, <3>2, <3>3, <3>4, <3>5 DEF K
  <2> QED
    BY <2>3, <2>4
<1>16. ASSUME afterLoad' = Never PROVE PositionsKnown'
  <2>1. afterLoad = Never
    BY <1>1, <1>3, <1>16 DEF LevelTypeOK, Never, MaxAfterLoad
  <2>2. PositionsKnown /\ ~transition.fLoading
    BY <2>1 DEF CampaignIInv, LoadsAreCounted
  <2>3. fSaved' \in K \cup {NoMap}
    BY <1>2, <1>3, <1>6, <2>2 DEF ArrivedPos, PositionsKnown
  <2>4. \A n \in K, j \in 0..NCHECKPOINTS - 1 : kept[n][j] \in K \cup {NoMap}
    BY <1>2, <1>8, <2>2, NoCheckpointsGood DEF PositionsKnown
  <2>5. \A n \in K, i \in 0..NCHECKPOINTS - 1 : checkpoints'[n][i] \in K \cup {NoMap}
    BY <1>12, <2>3, <2>4
  <2>6. transition'.pos = NoMap
    BY <1>3 DEF NoTransition
  <2> QED
    BY <1>5, <2>3, <2>5, <2>6 DEF PositionsKnown
<1>17. GoesOn(m) => Known \subseteq Known'
  BY <1>2, <1>5
<1> QED
  BY <1>13, <1>14, <1>15, <1>16, <1>17

\* Names of saves, and no save.
LEMMA SaveFacts ==
    /\ NoSave \notin SaveNames /\ NoSave[1] = "no save"
    /\ \A m \in Maps : StartSave(m) \in SaveNames /\ StartSave(m)[1] = "start" /\ StartSave(m) # NoSave
  BY DEF SaveNames, NoSave, StartSave

\* The first command is a change of level: it goes, and a start save may come
\* behind the others.
LEMMA QueueFacts ==
    ASSUME SavesTypeOK, commands # <<>>, NEW m \in Maps,
           NEW q, q \in {Tail(commands) \o <<Saving(StartSave(m))>>, Tail(commands) \o <<>>}
    PROVE  /\ q \in Seq(Command)
           /\ \A i \in DOMAIN q : \/ q[i] = Saving(StartSave(m))
                                  \/ \E j \in DOMAIN commands \ {1} : j = i + 1 /\ q[i] = commands[j]
           /\ \A i \in DOMAIN commands \ {1} : \E j \in DOMAIN q : q[j] = commands[i]
           /\ q = Tail(commands) \o <<Saving(StartSave(m))>> =>
                 \E j \in DOMAIN q : q[j] = Saving(StartSave(m))
<1> DEFINE t == Tail(commands)
           e == Saving(StartSave(m))
<1>1. /\ t \in Seq(Command)
      /\ \A i \in DOMAIN t : i + 1 \in DOMAIN commands /\ i + 1 # 1 /\ t[i] = commands[i + 1]
      /\ \A i \in DOMAIN commands \ {1} : i - 1 \in DOMAIN t /\ t[i - 1] = commands[i]
  BY TailFacts DEF SavesTypeOK
<1>2. e \in Command
  BY SaveFacts, CommandFacts
<1> HIDE DEF t, e
<1>3. CASE q = Tail(commands) \o <<Saving(StartSave(m))>>
  <2>1. q = Append(t, e)
    BY <1>1, <1>2, <1>3, AppendIsConcat DEF t, e
  <2>2. /\ q \in Seq(Command) /\ DOMAIN q = DOMAIN t \cup {Len(t) + 1} /\ q[Len(t) + 1] = e
        /\ \A i \in DOMAIN t : q[i] = t[i]
    <3>1. /\ Append(t, e) \in Seq(Command) /\ DOMAIN Append(t, e) = DOMAIN t \cup {Len(t) + 1}
          /\ Append(t, e)[Len(t) + 1] = e
          /\ \A i \in DOMAIN t : Append(t, e)[i] = t[i]
      BY <1>1, <1>2, AppendFacts
    <3> QED
      BY <2>1, <3>1, Zenon
  <2> QED
    BY <1>1, <2>2 DEF e
<1>4. CASE q = Tail(commands) \o <<>> /\ q # Tail(commands) \o <<Saving(StartSave(m))>>
  <2>1. q = t
    BY <1>1, <1>4, ConcatEmptySeq DEF t
  <2> QED
    BY <1>1, <1>4, <2>1
<1> QED
  BY <1>3, <1>4

LEMMA ArriveFiles ==
    ASSUME CampaignIInv, NEW m \in Maps, commands # <<>>, Head(commands)[1] = "changelevel",
           ArriveSaves(m)
    PROVE  /\ SavesTypeOK' /\ AutoSavesAlternate' /\ SlotFiles(slots, files, commands)'
           /\ commands' \in Seq(Command)
           /\ \A i \in DOMAIN commands' :
                 \/ commands'[i] = Saving(StartSave(m))
                 \/ \E j \in DOMAIN commands \ {1} : j = i + 1 /\ commands'[i] = commands[j]
<1> DEFINE s == IF ~GoesOn(m) THEN [i \in SlotNames |-> NoSave]
                ELSE IF transition.fLoading THEN CheckSaveSlots(slots, files)
                ELSE slots
           starts == ~transition.fLoading /\ StartsSave(s, m)
<1>1. SavesTypeOK /\ LevelTypeOK /\ AutoSavesAlternate /\ SlotFiles(slots, files, commands)
  BY DEF CampaignIInv
<1>2. /\ files' = IF GoesOn(m) THEN files ELSE ClearSaves(files)
      /\ iLastAutoSave' = IF GoesOn(m) THEN iLastAutoSave ELSE 0
      /\ slots' = IF starts THEN MapStartSave(s, m) ELSE s
      /\ commands' = Tail(commands) \o (IF starts THEN <<Saving(StartSave(m))>> ELSE <<>>)
  BY DEF ArriveSaves, Saving
<1>4. /\ s \in [SlotNames -> SaveNames \cup {NoSave}] /\ SlotKinds(s, iLastAutoSave')
      /\ \A i \in SlotNames : s[i] # NoSave => GoesOn(m) /\ s[i] = slots[i]
  <2>1. CASE ~GoesOn(m)
    BY <2>1 DEF SlotKinds, SlotNames
  <2>2. CASE GoesOn(m)
    <3>1. \A i \in SlotNames : s[i] # NoSave => s[i] = slots[i]
      BY <1>1, <2>2 DEF SavesTypeOK, CheckSaveSlots
    <3>2. s \in [SlotNames -> SaveNames \cup {NoSave}]
      BY <1>1, <2>2 DEF SavesTypeOK, CheckSaveSlots
    <3> HIDE DEF s
    <3>3. SlotKinds(s, iLastAutoSave)
      BY <1>1, <3>1 DEF AutoSavesAlternate, SlotKinds, SlotNames
    <3> QED
      BY <1>2, <2>2, <3>1, <3>2, <3>3
  <2> QED
    BY <2>1, <2>2
<1> HIDE DEF s
<1>5. starts => s["START1"] # StartSave(m) /\ s["START2"] # StartSave(m)
  BY DEF StartsSave
<1> HIDE DEF starts
<1>6. /\ commands' \in Seq(Command)
      /\ \A i \in DOMAIN commands' :
            \/ commands'[i] = Saving(StartSave(m))
            \/ \E j \in DOMAIN commands \ {1} : j = i + 1 /\ commands'[i] = commands[j]
      /\ \A i \in DOMAIN commands \ {1} : \E j \in DOMAIN commands' : commands'[j] = commands[i]
      /\ starts => \E j \in DOMAIN commands' : commands'[j] = Saving(StartSave(m))
  <2> DEFINE q == commands'
  <2>1. /\ SavesTypeOK
        /\ starts => q = Tail(commands) \o <<Saving(StartSave(m))>>
        /\ ~starts => q = Tail(commands) \o <<>>
    BY <1>1, <1>2
  <2> HIDE DEF q
  <2>2. /\ q \in Seq(Command)
        /\ \A i \in DOMAIN q : \/ q[i] = Saving(StartSave(m))
                               \/ \E j \in DOMAIN commands \ {1} : j = i + 1 /\ q[i] = commands[j]
        /\ \A i \in DOMAIN commands \ {1} : \E j \in DOMAIN q : q[j] = commands[i]
        /\ q = Tail(commands) \o <<Saving(StartSave(m))>> =>
              \E j \in DOMAIN q : q[j] = Saving(StartSave(m))
    BY <2>1, QueueFacts
  <2> QED
    BY <2>1, <2>2, Zenon DEF q
<1>7. \A n : commands[1] # Saving(n)
  <2>1. Head(commands) = commands[1]
    BY <1>1, TailFacts DEF SavesTypeOK
  <2> QED
    BY <2>1, CommandFacts
<1>8. SlotFiles(s, files', commands')
  <2>1. ASSUME NEW i \in SlotNames, s[i] # NoSave
        PROVE  \/ s[i] \in files'
               \/ \E j \in DOMAIN commands' : commands'[j] = Saving(s[i])
    <3>1. s[i] = slots[i] /\ files' = files
      BY <1>2, <1>4, <2>1
    <3>2. s[i] \in files \/ \E j \in DOMAIN commands : commands[j] = Saving(s[i])
      BY <1>1, <2>1, <3>1 DEF SlotFiles
    <3> QED
      BY <1>6, <1>7, <3>1, <3>2
  <2>2. \A i, j \in SlotNames : i # j /\ s[i] # NoSave => s[i] # s[j]
    BY <1>1, <1>4 DEF SlotFiles
  <2> QED
    BY <2>1, <2>2 DEF SlotFiles
<1>9. CASE ~starts
  BY <1>1, <1>2, <1>4, <1>6, <1>8, <1>9 DEF SavesTypeOK, AutoSavesAlternate, ClearSaves
<1>10. CASE starts
  <2>1. /\ slots' \in [SlotNames -> SaveNames \cup {NoSave}]
        /\ slots'["START1"] = StartSave(m) /\ slots'["START2"] = s["START1"]
        /\ slots'["AUTO1"] = s["AUTO1"] /\ slots'["AUTO2"] = s["AUTO2"]
    BY <1>2, <1>4, <1>10, SaveFacts DEF MapStartSave, SlotNames
  <2>2. SlotKinds(slots', iLastAutoSave')
    BY <1>4, <2>1, SaveFacts DEF SlotKinds
  <2>3. SlotFiles(slots', files', commands')
    <3>1. \A i \in SlotNames : slots'[i] # NoSave =>
              \/ slots'[i] \in files'
              \/ \E j \in DOMAIN commands' : commands'[j] = Saving(slots'[i])
      BY <1>6, <1>8, <1>10, <2>1 DEF SlotFiles, SlotNames
    <3>2. StartSave(m) # s["START1"] /\ StartSave(m) # s["AUTO1"] /\ StartSave(m) # s["AUTO2"]
      BY <1>4, <1>5, <1>10, SaveFacts DEF SlotKinds
    <3>3. \A i, j \in {"START1", "AUTO1", "AUTO2"} : i # j /\ s[i] # NoSave => s[i] # s[j]
      BY <1>8 DEF SlotFiles, SlotNames
    <3>4. \A i, j \in SlotNames : i # j /\ slots'[i] # NoSave => slots'[i] # slots'[j]
      BY <2>1, <3>2, <3>3 DEF SlotNames
    <3> QED
      BY <3>1, <3>4 DEF SlotFiles
  <2> QED
    BY <1>1, <1>2, <1>6, <2>1, <2>2, <2>3 DEF SavesTypeOK, AutoSavesAlternate, ClearSaves
<1> QED
  BY <1>6, <1>9, <1>10

\* The first command is done, and no player comes or goes.
LEMMA CommandRuns ==
    ASSUME SavesTypeOK, ChangeWaits, commands # <<>>, commands' = Tail(commands),
           transition' = transition \/ transition'.landmark = NoLandmark,
           \/ coopPlayer' = coopPlayer
           \/ \A p \in CoopPlayers : coopPlayer'[p].iState # "spawned"
    PROVE  ChangeWaits'
<1>1. /\ \A i \in DOMAIN commands' : i + 1 \in DOMAIN commands /\ commands'[i] = commands[i + 1]
      /\ \A j \in DOMAIN commands \ {1} :
            j - 1 \in DOMAIN commands' /\ commands'[j - 1] = commands[j]
  BY TailFacts DEF SavesTypeOK
<1>2. DOMAIN commands \subseteq Nat /\ \A i \in DOMAIN commands' : i \in Nat /\ i >= 1
  <2>1. commands \in Seq(Command) /\ commands' \in Seq(Command)
    BY TailFacts DEF SavesTypeOK
  <2>2. DOMAIN commands = 1..Len(commands) /\ DOMAIN commands' = 1..Len(commands')
    BY <2>1, LenProperties
  <2> QED
    BY <2>1, <2>2, LenProperties
<1>3. /\ \A i \in LandmarkChanges' : i + 1 \in LandmarkChanges /\ commands'[i] = commands[i + 1]
      /\ \A j \in LandmarkChanges \ {1} : j - 1 \in LandmarkChanges'
  BY <1>1 DEF LandmarkChanges
<1>4. ASSUME transition'.landmark # NoLandmark, NEW i \in LandmarkChanges',
             \A j \in LandmarkChanges' : j <= i
      PROVE  Prepared(i)'
  <2>1. transition' = transition
    BY <1>4
  <2>2. ASSUME NEW j \in LandmarkChanges PROVE j <= i + 1
    <3>1. i \in Nat /\ i >= 1 /\ j \in Nat
      BY <1>2 DEF LandmarkChanges
    <3>2. j # 1 => j - 1 <= i
      BY <1>3, <1>4
    <3> QED
      BY <3>1, <3>2
  <2>3. Prepared(i + 1)
    BY <1>3, <1>4, <2>1, <2>2 DEF ChangeWaits
  <2> QED
    BY <1>3, <2>1, <2>3 DEF Prepared
<1>5. ASSUME ~mp_coop_reconnect_hack, LandmarkChanges' # {}, NEW p \in CoopPlayers
      PROVE  coopPlayer'[p].iState # "spawned"
  BY <1>3, <1>5 DEF ChangeWaits
<1> QED
  BY <1>4, <1>5 DEF ChangeWaits

\* A level begins with no transition and no player in the game.
LEMMA LevelBegins ==
    ASSUME transition'.landmark = NoLandmark, \A p \in CoopPlayers : coopPlayer'[p].iState # "spawned"
    PROVE  ChangeWaits'
  BY DEF ChangeWaits

LEMMA RunChangeLevelStep ==
    ASSUME CampaignIInv, RunChangeLevel, afterLoad < MaxAfterLoad
    PROVE  CampaignIInv'
<1> DEFINE m == Head(commands)[2]
<1>1. /\ commands # <<>> /\ Head(commands)[1] = "changelevel"
      /\ MapsTypeOK /\ SavesTypeOK /\ LevelTypeOK /\ ChangeWaits
  BY DEF RunChangeLevel, CampaignIInv
<1>2. m \in Maps
  BY <1>1, TailFacts, CommandFacts DEF SavesTypeOK
<1>3. Arrive(m) \/ ArriveTwice(m)
  BY DEF RunChangeLevel
<1> HIDE DEF m
<1>4. afterLoad' = IF afterLoad = Never THEN Never ELSE afterLoad + 1
  BY <1>3 DEF Arrive, ArriveTwice, AfterLevel
<1>5. afterLoad' \in Never..MaxAfterLoad /\ (afterLoad # Never => afterLoad' # Never)
      /\ (afterLoad' = Never => afterLoad = Never)
  BY <1>1, <1>4 DEF LevelTypeOK, Never, MaxAfterLoad
<1>6. CASE Arrive(m)
  <2>1. /\ MapsTypeOK' /\ NoHoles' /\ OffsetsAgree'
        /\ afterLoad' = Never => PositionsKnown'
    BY <1>2, <1>6, ArriveMaps
  <2>2. ArriveSaves(m)
    BY <1>6 DEF Arrive
  <2>3. /\ SavesTypeOK' /\ AutoSavesAlternate' /\ SlotFiles(slots, files, commands)'
        /\ \A i \in DOMAIN commands' :
              \/ commands'[i] = Saving(StartSave(m))
              \/ \E j \in DOMAIN commands \ {1} : j = i + 1 /\ commands'[i] = commands[j]
    BY <1>1, <1>2, <2>2, ArriveFiles
  <2>5. /\ g_flDupCheck' = (g_flDupCheck \/ transition.fLoading) /\ g_fPause' = mp_coop_pause
        /\ coopPlayer' = ResetPlayers /\ transition' = NoTransition
        /\ st_fSkipNext' = st_fSkipNext
    BY <1>6 DEF Arrive
  <2>6. transition' \in TransitionType /\ ~transition'.fLoading /\ transition'.landmark = NoLandmark
    BY <2>5 DEF NoTransition, TransitionType
  <2>7. coopPlayer' \in [CoopPlayers -> CoopPlayerType]
    BY <2>5 DEF ResetPlayers, NewPlayer, CoopPlayerType
  <2>4. ChangeWaits'
    <3>1. \A p \in CoopPlayers : coopPlayer'[p].iState # "spawned"
      BY <2>5 DEF ResetPlayers, NewPlayer
    <3> QED
      BY <2>6, <3>1, LevelBegins
  <2>8. g_flDupCheck' \in BOOLEAN /\ g_fPause' \in BOOLEAN /\ st_fSkipNext' \in BOOLEAN
    BY <1>1, <2>5, CampaignAssumption DEF LevelTypeOK, TransitionType
  <2>9. LevelTypeOK'
    BY <1>5, <2>6, <2>7, <2>8 DEF LevelTypeOK
  <2>10. LoadsAreCounted'
    BY <1>1, <1>5, <2>5, <2>6 DEF LoadsAreCounted, CampaignIInv
  <2>11. LandmarkIsSeen'
    BY <2>6 DEF LandmarkIsSeen
  <2> QED
    BY <2>1, <2>3, <2>4, <2>9, <2>10, <2>11 DEF CampaignIInv
<1>7. CASE ArriveTwice(m)
  <2>1. /\ g_flDupCheck /\ map' = m /\ g_flDupCheck' = FALSE /\ commands' = Tail(commands)
        /\ UNCHANGED <<offset, checkpoints, pCurrentMap, fSaved, slots, iLastAutoSave, files,
                       g_fPause, st_fSkipNext, coopPlayer, transition>>
    BY <1>7 DEF ArriveTwice, saveVars, playerVars
  <2>2. afterLoad' # Never
    BY <1>5, <2>1 DEF CampaignIInv, LoadsAreCounted
  <2>3. /\ commands' \in Seq(Command)
        /\ \A i \in DOMAIN commands' : i + 1 \in DOMAIN commands /\ i + 1 # 1 /\ commands'[i] = commands[i + 1]
        /\ \A i \in DOMAIN commands \ {1} : i - 1 \in DOMAIN commands' /\ commands'[i - 1] = commands[i]
        /\ commands[1][1] = "changelevel"
    BY <1>1, <2>1, TailFacts DEF SavesTypeOK
  <2>4. ChangeWaits'
    BY <1>1, <2>1, CommandRuns
  <2>5. SlotFiles(slots, files, commands)'
    <3>1. \A n : commands[1] # Saving(n)
      BY <2>3, CommandFacts
    <3>2. ASSUME NEW i \in SlotNames, slots[i] # NoSave, slots[i] \notin files
          PROVE  \E j \in DOMAIN commands' : commands'[j] = Saving(slots[i])
      <4>1. PICK j \in DOMAIN commands : commands[j] = Saving(slots[i])
        BY <3>2 DEF CampaignIInv, SlotFiles
      <4> QED
        BY <2>3, <3>1, <4>1
    <3> QED
      BY <2>1, <3>2 DEF CampaignIInv, SlotFiles
  <2>6. MapsTypeOK' /\ NoHoles'
    BY <1>1, <1>2, <2>1 DEF CampaignIInv, MapsTypeOK, NoHoles, Known
  <2>7. SavesTypeOK' /\ AutoSavesAlternate'
    BY <1>1, <2>1, <2>3 DEF CampaignIInv, SavesTypeOK, AutoSavesAlternate
  <2>8. LevelTypeOK'
    BY <1>1, <1>5, <2>1 DEF LevelTypeOK
  <2>9. LoadsAreCounted' /\ LandmarkIsSeen' /\ OffsetsAgree'
    BY <2>2 DEF LoadsAreCounted, LandmarkIsSeen, OffsetsAgree
  <2> QED
    BY <2>2, <2>4, <2>5, <2>6, <2>7, <2>8, <2>9 DEF CampaignIInv
<1> QED
  BY <1>3, <1>6, <1>7

-----------------------------------------------------------------------------
(* Saves and changes in the old map *)

\* Nothing about maps, levels and players changes.
MapsStay == UNCHANGED <<map, offset, checkpoints, pCurrentMap, fSaved>>
LevelStays == UNCHANGED <<transition, afterLoad, g_flDupCheck, g_fPause, st_fSkipNext, coopPlayer>>

LEMMA MapsStayGood ==
    ASSUME CampaignIInv, MapsStay, afterLoad' = Never => afterLoad = Never,
           \/ transition'.pos = transition.pos
           \/ transition'.pos = map
    PROVE  MapsTypeOK' /\ NoHoles' /\ OffsetsAgree' /\ (afterLoad' = Never => PositionsKnown')
<1>1. Known' = Known
  BY DEF MapsStay, Known
<1>2. MapsTypeOK' /\ NoHoles'
  BY <1>1 DEF CampaignIInv, MapsTypeOK, NoHoles, MapsStay
<1>3. OffsetsAgree'
  BY <1>1 DEF CampaignIInv, OffsetsAgree, OffsetsAreRelative, MapsStay
<1>4. ASSUME afterLoad' = Never PROVE PositionsKnown'
  <2>1. PositionsKnown /\ map \in Known
    BY <1>4 DEF CampaignIInv, MapsTypeOK, OffsetsAgree, OffsetsAreRelative
  <2> QED
    BY <1>1, <2>1 DEF PositionsKnown, MapsStay
<1> QED
  BY <1>2, <1>3, <1>4

LEMMA LevelStaysGood ==
    ASSUME CampaignIInv, LevelStays, map' = map
    PROVE  LevelTypeOK' /\ LoadsAreCounted' /\ LandmarkIsSeen' /\ (commands' = commands => ChangeWaits')
<1>1. LevelTypeOK' /\ LoadsAreCounted' /\ LandmarkIsSeen'
  BY DEF CampaignIInv, LevelStays, LevelTypeOK, LoadsAreCounted, LandmarkIsSeen
<1>2. commands' = commands => ChangeWaits'
  BY DEF CampaignIInv, LevelStays, ChangeWaits, LandmarkChanges, Prepared
<1> QED
  BY <1>1, <1>2

LEMMA RunSaveStep ==
    ASSUME CampaignIInv, RunSave
    PROVE  CampaignIInv'
<1> DEFINE n == Head(commands)[2]
<1>1. /\ commands # <<>> /\ Head(commands)[1] = "ggm_save" /\ files' = files \cup {n}
      /\ commands' = Tail(commands) /\ MapsStay /\ LevelStays
      /\ slots' = slots /\ iLastAutoSave' = iLastAutoSave
  BY DEF RunSave, MapsStay, LevelStays, mapVars, playerVars
<1>2. MapsTypeOK /\ SavesTypeOK /\ LevelTypeOK
  BY DEF CampaignIInv
<1>3. /\ 1 \in DOMAIN commands /\ commands[1] = Saving(n) /\ n \in SaveNames
      /\ commands' \in Seq(Command)
      /\ \A i \in DOMAIN commands' : i + 1 \in DOMAIN commands /\ commands'[i] = commands[i + 1]
      /\ \A i \in DOMAIN commands \ {1} : i - 1 \in DOMAIN commands' /\ commands'[i - 1] = commands[i]
  BY <1>1, <1>2, TailFacts, CommandFacts DEF SavesTypeOK
<1> HIDE DEF n
<1>4. MapsTypeOK' /\ NoHoles' /\ OffsetsAgree' /\ (afterLoad' = Never => PositionsKnown')
  BY <1>1, MapsStayGood DEF LevelStays
<1>5. LevelTypeOK' /\ LoadsAreCounted' /\ LandmarkIsSeen'
  BY <1>1, LevelStaysGood DEF MapsStay
<1>6. SavesTypeOK' /\ AutoSavesAlternate'
  BY <1>1, <1>2, <1>3 DEF CampaignIInv, SavesTypeOK, AutoSavesAlternate
<1>7. SlotFiles(slots, files, commands)'
  <2>1. \A i \in SlotNames : slots[i] # NoSave =>
            \/ slots[i] \in files'
            \/ \E j \in DOMAIN commands' : commands'[j] = Saving(slots[i])
    <3>1. ASSUME NEW i \in SlotNames, slots[i] # NoSave, slots[i] \notin files'
          PROVE  \E j \in DOMAIN commands' : commands'[j] = Saving(slots[i])
      <4>1. PICK j \in DOMAIN commands : commands[j] = Saving(slots[i])
        BY <1>1, <3>1 DEF CampaignIInv, SlotFiles
      <4>2. j # 1
        BY <1>1, <1>3, <3>1, <4>1, CommandFacts
      <4> QED
        BY <1>3, <4>1, <4>2
    <3> QED
      BY <3>1
  <2> QED
    BY <1>1, <2>1 DEF CampaignIInv, SlotFiles
<1>8. ChangeWaits'
  BY <1>1, <1>2, CommandRuns DEF CampaignIInv, LevelStays
<1> QED
  BY <1>4, <1>5, <1>6, <1>7, <1>8 DEF CampaignIInv

\* A change of level goes behind the other commands.
LEMMA ChangeQueued ==
    ASSUME CampaignIInv, NEW m \in Maps, NEW l \in Landmarks \cup {NoLandmark},
           commands' = Append(commands, ChangeTo(m, l)),
           UNCHANGED <<slots, iLastAutoSave, files>>
    PROVE  /\ SavesTypeOK' /\ AutoSavesAlternate' /\ SlotFiles(slots, files, commands)'
           /\ commands'[Len(commands) + 1] = ChangeTo(m, l)
           /\ LandmarkChanges' = IF l \in Landmarks THEN LandmarkChanges \cup {Len(commands) + 1}
                                 ELSE LandmarkChanges
           /\ \A i \in LandmarkChanges : /\ i \in Nat /\ i < Len(commands) + 1
                                         /\ commands'[i] = commands[i]
           /\ Len(commands) + 1 \in Nat
<1>1. SavesTypeOK /\ commands \in Seq(Command) /\ ChangeTo(m, l) \in Command
  BY CommandFacts DEF CampaignIInv, SavesTypeOK
<1>2. /\ commands' \in Seq(Command)
      /\ DOMAIN commands' = DOMAIN commands \cup {Len(commands) + 1}
      /\ commands'[Len(commands) + 1] = ChangeTo(m, l)
      /\ \A i \in DOMAIN commands : commands'[i] = commands[i]
  BY <1>1, AppendFacts
<1>3. SavesTypeOK' /\ AutoSavesAlternate'
  BY <1>1, <1>2 DEF CampaignIInv, SavesTypeOK, AutoSavesAlternate
<1>4. SlotFiles(slots, files, commands)'
  <2>1. ASSUME NEW i \in SlotNames, slots[i] # NoSave, slots[i] \notin files
        PROVE  \E j \in DOMAIN commands' : commands'[j] = Saving(slots[i])
    <3>1. PICK j \in DOMAIN commands : commands[j] = Saving(slots[i])
      BY <2>1 DEF CampaignIInv, SlotFiles
    <3> QED
      BY <1>2, <3>1
  <2> QED
    BY <2>1 DEF CampaignIInv, SlotFiles
<1>5. DOMAIN commands = 1..Len(commands) /\ Len(commands) \in Nat
  BY <1>1, LenProperties
<1>6. \A i \in LandmarkChanges : i \in Nat /\ i < Len(commands) + 1 /\ commands'[i] = commands[i]
  BY <1>2, <1>5 DEF LandmarkChanges
<1>7. ChangeTo(m, l)[1] = "changelevel" /\ ChangeTo(m, l)[3] = l
  BY CommandFacts
<1>8. LandmarkChanges' = IF l \in Landmarks THEN LandmarkChanges \cup {Len(commands) + 1}
                         ELSE LandmarkChanges
  BY <1>2, <1>7 DEF LandmarkChanges
<1>9. Len(commands) + 1 \in Nat
  BY <1>5
<1> QED
  BY <1>2, <1>3, <1>4, <1>6, <1>8, <1>9

\* The start of an action that leaves commands and files alone.
LEMMA SavesStay ==
    ASSUME CampaignIInv, UNCHANGED <<slots, iLastAutoSave, files, commands>>
    PROVE  SavesTypeOK' /\ AutoSavesAlternate' /\ SlotFiles(slots, files, commands)'
  BY DEF CampaignIInv, SavesTypeOK, AutoSavesAlternate, SlotFiles

LEMMA TouchChangeLevelStep ==
    ASSUME CampaignIInv, NEW p \in CoopPlayers, NEW c \in Changes, TouchChangeLevel(p, c)
    PROVE  CampaignIInv'
<1> DEFINE l == IF map \in InMaps[c.landmark] THEN c.landmark ELSE NoLandmark
           v == IF l = NoLandmark THEN transition.vecLandmark ELSE Coordinate(l, map)
           x == IF c.spawnSaved THEN map ELSE transition.pos
<1>1. MapsTypeOK /\ SavesTypeOK /\ LevelTypeOK /\ ChangeWaits
  BY DEF CampaignIInv
<1>2. c.to \in Maps /\ l \in Landmarks \cup {NoLandmark} /\ c.spawnSaved \in BOOLEAN
  BY CampaignAssumption
<1>3. /\ MapsStay /\ UNCHANGED <<slots, iLastAutoSave, files, st_fSkipNext, g_flDupCheck, afterLoad>>
      /\ coopPlayer' = [q \in CoopPlayers |-> NewPlayer] /\ g_fPause' = TRUE
      /\ transition' = [source |-> map, target |-> c.to, landmark |-> l, vecLandmark |-> v,
                        pos |-> x, fLoading |-> FALSE]
      /\ coopPlayer[p].iState = "spawned"
      /\ Changing => commands' = commands
      /\ ~Changing => commands' = Append(commands, ChangeTo(c.to, l))
  BY DEF TouchChangeLevel, MapsStay, mapVars, saveVars, ChangeTo
<1>4. /\ transition'.landmark = l /\ transition'.target = c.to /\ ~transition'.fLoading
      /\ transition'.pos = x /\ transition'.vecLandmark = v
  BY <1>3
<1>5. l # NoLandmark => v = Coordinate(l, map) /\ v \in Int
  BY <1>1, <1>2, CampaignAssumption DEF MapsTypeOK, Coordinate
<1>6. v \in Int /\ x \in Maps \cup {NoMap} /\ (x = transition.pos \/ x = map)
  BY <1>1, <1>5 DEF LevelTypeOK, MapsTypeOK, TransitionType
<1> HIDE DEF l, v, x
<1>7. transition' \in TransitionType
  BY <1>1, <1>2, <1>3, <1>6 DEF TransitionType, MapsTypeOK
<1>8. coopPlayer' \in [CoopPlayers -> CoopPlayerType] /\ \A q \in CoopPlayers : coopPlayer'[q].iState # "spawned"
  BY <1>3 DEF NewPlayer, CoopPlayerType
<1>9. LevelTypeOK'
  BY <1>1, <1>3, <1>7, <1>8 DEF LevelTypeOK
<1>10. LoadsAreCounted' /\ LandmarkIsSeen'
  BY <1>3, <1>4, <1>5 DEF CampaignIInv, LoadsAreCounted, LandmarkIsSeen, MapsStay
<1>11. MapsTypeOK' /\ NoHoles' /\ OffsetsAgree' /\ (afterLoad' = Never => PositionsKnown')
  BY <1>3, <1>4, <1>6, MapsStayGood
<1>12. CASE Changing
  <2>1. commands' = commands /\ LandmarkChanges' = LandmarkChanges
    BY <1>3, <1>12 DEF LandmarkChanges
  <2>2. LandmarkChanges = {}
    BY <1>1, <1>3, <1>12 DEF ChangeWaits, Changing
  <2>3. ChangeWaits'
    BY <2>1, <2>2 DEF ChangeWaits
  <2>4. SavesTypeOK' /\ AutoSavesAlternate' /\ SlotFiles(slots, files, commands)'
    BY <1>3, <2>1, SavesStay
  <2> QED
    BY <1>9, <1>10, <1>11, <2>3, <2>4 DEF CampaignIInv
<1>13. CASE ~Changing
  <2>1. PICK k \in Nat :
        /\ SavesTypeOK' /\ AutoSavesAlternate' /\ SlotFiles(slots, files, commands)'
        /\ commands'[k] = ChangeTo(c.to, l)
        /\ LandmarkChanges' = IF l \in Landmarks THEN LandmarkChanges \cup {k} ELSE LandmarkChanges
        /\ \A i \in LandmarkChanges : i \in Nat /\ i < k
    BY <1>2, <1>3, <1>13, ChangeQueued
  <2>2. ChangeWaits'
    <3>1. ChangeTo(c.to, l)[2] = c.to /\ ChangeTo(c.to, l)[3] = l
      BY CommandFacts
    <3>2. Prepared(k)'
      BY <1>4, <2>1, <3>1 DEF Prepared
    <3>3. ASSUME transition'.landmark # NoLandmark, NEW i \in LandmarkChanges',
                 \A j \in LandmarkChanges' : j <= i
          PROVE  i = k
      <4>1. k \in LandmarkChanges' /\ (i = k \/ i \in LandmarkChanges)
        BY <1>2, <1>4, <2>1, <3>3
      <4>2. k <= i
        BY <3>3, <4>1
      <4> QED
        BY <2>1, <4>1, <4>2
    <3> QED
      BY <1>8, <3>2, <3>3 DEF ChangeWaits
  <2> QED
    BY <1>9, <1>10, <1>11, <2>1, <2>2 DEF CampaignIInv
<1> QED
  BY <1>12, <1>13

LEMMA ChangeByCycleStep ==
    ASSUME CampaignIInv, NEW m \in Cycle, ChangeByCycle(m)
    PROVE  CampaignIInv'
<1>1. /\ MapsStay /\ LevelStays /\ UNCHANGED <<slots, iLastAutoSave, files>>
      /\ commands' = Append(commands, ChangeTo(m, NoLandmark)) /\ m \in Maps
  BY CampaignAssumption DEF ChangeByCycle, MapsStay, LevelStays, mapVars, saveVars, playerVars, ChangeTo
<1>2. MapsTypeOK' /\ NoHoles' /\ OffsetsAgree' /\ (afterLoad' = Never => PositionsKnown')
  BY <1>1, MapsStayGood DEF LevelStays
<1>3. LevelTypeOK' /\ LoadsAreCounted' /\ LandmarkIsSeen'
  BY <1>1, LevelStaysGood DEF MapsStay
<1>4. /\ SavesTypeOK' /\ AutoSavesAlternate' /\ SlotFiles(slots, files, commands)'
      /\ LandmarkChanges' = LandmarkChanges
      /\ \A i \in LandmarkChanges : commands'[i] = commands[i]
  BY <1>1, ChangeQueued, NamesAssumption
<1>5. ChangeWaits'
  BY <1>1, <1>4 DEF CampaignIInv, ChangeWaits, Prepared, LevelStays
<1> QED
  BY <1>2, <1>3, <1>4, <1>5 DEF CampaignIInv

\* A position of the current map becomes the newest checkpoint.
LEMMA CheckpointAdded ==
    ASSUME CampaignIInv, UNCHANGED <<map, offset, pCurrentMap, fSaved, transition, afterLoad>>,
           checkpoints' = [checkpoints EXCEPT ![pCurrentMap] =
                              PushCheckpoint(checkpoints[pCurrentMap], map)]
    PROVE  MapsTypeOK' /\ NoHoles' /\ OffsetsAgree' /\ (afterLoad' = Never => PositionsKnown')
<1> DEFINE c == checkpoints[pCurrentMap]
           d == PushCheckpoint(c, map)
<1>1. MapsTypeOK /\ Known' = Known /\ pCurrentMap \in Known /\ map \in Maps
  BY DEF CampaignIInv, MapsTypeOK, Known
<1>2. c \in Checkpoints /\ NoHole(c)
  BY <1>1 DEF CampaignIInv, MapsTypeOK, NoHoles
<1> HIDE DEF c
<1>3. /\ d \in Checkpoints /\ NoHole(d)
      /\ \A i \in 0..NCHECKPOINTS - 1 : d[i] = map \/ \E j \in 0..NCHECKPOINTS - 1 : d[i] = c[j]
  BY <1>1, <1>2, PushCheckpointGood
<1> HIDE DEF d
<1>4. /\ checkpoints' \in [Known -> Checkpoints] /\ checkpoints'[pCurrentMap] = d
      /\ \A m \in Known : m # pCurrentMap => checkpoints'[m] = checkpoints[m]
  BY <1>1, <1>3 DEF MapsTypeOK, c, d
<1>5. MapsTypeOK' /\ NoHoles'
  BY <1>1, <1>3, <1>4 DEF CampaignIInv, MapsTypeOK, NoHoles
<1>6. OffsetsAgree'
  BY <1>1 DEF CampaignIInv, OffsetsAgree, OffsetsAreRelative
<1>7. ASSUME afterLoad' = Never PROVE PositionsKnown'
  <2>1. PositionsKnown /\ map \in Known
    BY <1>7 DEF CampaignIInv, MapsTypeOK, OffsetsAgree, OffsetsAreRelative
  <2>2. \A m \in Known, i \in 0..NCHECKPOINTS - 1 : checkpoints'[m][i] \in Known \cup {NoMap}
    BY <1>1, <1>3, <1>4, <2>1 DEF PositionsKnown, c
  <2> QED
    BY <1>1, <2>1, <2>2 DEF PositionsKnown
<1> QED
  BY <1>5, <1>6, <1>7

LEMMA AutoSaveStep ==
    ASSUME CampaignIInv, NEW p \in CoopPlayers, AutoSave(p)
    PROVE  CampaignIInv'
<1> DEFINE n == 1 - iLastAutoSave
           name == <<IF n = 1 THEN "auto1" ELSE "auto0", map>>
<1>1. /\ slots' = [slots EXCEPT !["AUTO2"] = slots["AUTO1"], !["AUTO1"] = name]
      /\ iLastAutoSave' = n /\ files' = files \cup {name} /\ commands' = commands
      /\ checkpoints' = [checkpoints EXCEPT ![pCurrentMap] =
                            PushCheckpoint(checkpoints[pCurrentMap], map)]
      /\ UNCHANGED <<map, offset, pCurrentMap, fSaved, transition, afterLoad>> /\ LevelStays
  BY DEF AutoSave, LevelStays, playerVars
<1>2. MapsTypeOK' /\ NoHoles' /\ OffsetsAgree' /\ (afterLoad' = Never => PositionsKnown')
  BY <1>1, CheckpointAdded
<1>3. LevelTypeOK' /\ LoadsAreCounted' /\ LandmarkIsSeen' /\ ChangeWaits'
  BY <1>1, LevelStaysGood
<1>4. SavesTypeOK /\ AutoSavesAlternate /\ map \in Maps
  BY DEF CampaignIInv, MapsTypeOK
<1>5. n \in {0, 1} /\ AutoName(n) # AutoName(iLastAutoSave) /\ name[1] = AutoName(n)
  BY <1>4 DEF SavesTypeOK, AutoName
<1>6. name \in SaveNames /\ name # NoSave /\ name[1] # "start"
  BY <1>4 DEF SaveNames, NoSave
<1> HIDE DEF n, name
<1>7. /\ slots' \in [SlotNames -> SaveNames \cup {NoSave}]
      /\ slots'["AUTO1"] = name /\ slots'["AUTO2"] = slots["AUTO1"]
      /\ slots'["START1"] = slots["START1"] /\ slots'["START2"] = slots["START2"]
  BY <1>1, <1>4, <1>6 DEF SavesTypeOK, SlotNames
<1>8. SavesTypeOK'
  BY <1>1, <1>4, <1>5, <1>6, <1>7 DEF SavesTypeOK
<1>9. AutoSavesAlternate'
  BY <1>1, <1>4, <1>5, <1>6, <1>7 DEF AutoSavesAlternate, SlotKinds
<1>10. name # slots["AUTO1"] /\ name # slots["START1"] /\ name # slots["START2"]
  BY <1>4, <1>5, <1>6 DEF AutoSavesAlternate, SlotKinds
<1>11. SlotFiles(slots, files, commands)'
  <2>1. \A i, j \in {"START1", "START2", "AUTO1"} : i # j /\ slots[i] # NoSave => slots[i] # slots[j]
    BY DEF CampaignIInv, SlotFiles, SlotNames
  <2>2. \A i, j \in SlotNames : i # j /\ slots'[i] # NoSave => slots'[i] # slots'[j]
    BY <1>7, <1>10, <2>1 DEF SlotNames
  <2>3. \A i \in {"START1", "START2", "AUTO1"} : slots[i] # NoSave =>
            \/ slots[i] \in files
            \/ \E j \in DOMAIN commands : commands[j] = Saving(slots[i])
    BY DEF CampaignIInv, SlotFiles, SlotNames
  <2>4. \A i \in SlotNames : slots'[i] # NoSave =>
            \/ slots'[i] \in files'
            \/ \E j \in DOMAIN commands : commands[j] = Saving(slots'[i])
    BY <1>1, <1>7, <2>3 DEF SlotNames
  <2> QED
    BY <1>1, <2>2, <2>4 DEF SlotFiles
<1> QED
  BY <1>2, <1>3, <1>8, <1>9, <1>11 DEF CampaignIInv

LEMMA NewUnitStep ==
    ASSUME CampaignIInv, NewUnit
    PROVE  CampaignIInv'
<1>1. /\ files' = ClearSaves(files) /\ slots' = CheckSaveSlots(slots, files')
      /\ MapsStay /\ LevelStays /\ UNCHANGED <<iLastAutoSave, commands>>
  BY DEF NewUnit, MapsStay, LevelStays, mapVars, playerVars
<1>2. MapsTypeOK' /\ NoHoles' /\ OffsetsAgree' /\ (afterLoad' = Never => PositionsKnown')
  BY <1>1, MapsStayGood DEF LevelStays
<1>3. LevelTypeOK' /\ LoadsAreCounted' /\ LandmarkIsSeen' /\ ChangeWaits'
  BY <1>1, LevelStaysGood DEF MapsStay
<1>4. \A i \in SlotNames : slots'[i] # NoSave => slots'[i] = slots[i] /\ slots'[i] \in files'
  BY <1>1 DEF CheckSaveSlots
<1>5. files' \subseteq files
  BY <1>1 DEF ClearSaves
<1>6. SavesTypeOK'
  BY <1>1, <1>5 DEF CampaignIInv, SavesTypeOK, CheckSaveSlots
<1>7. AutoSavesAlternate'
  BY <1>1, <1>4 DEF CampaignIInv, AutoSavesAlternate, SlotKinds, SlotNames
<1>8. SlotFiles(slots, files, commands)'
  BY <1>4 DEF CampaignIInv, SlotFiles
<1> QED
  BY <1>2, <1>3, <1>6, <1>7, <1>8 DEF CampaignIInv

LEMMA LoadStep ==
    ASSUME CampaignIInv, NEW n \in files, Load(n), afterLoad < MaxAfterLoad
    PROVE  CampaignIInv'
<1>1. /\ transition' = [transition EXCEPT !.fLoading = TRUE]
      /\ afterLoad' = IF afterLoad = Never THEN 0 ELSE afterLoad
      /\ MapsStay /\ UNCHANGED <<slots, iLastAutoSave, files, commands>>
      /\ UNCHANGED <<g_flDupCheck, g_fPause, st_fSkipNext, coopPlayer>>
  BY DEF Load, MapsStay, mapVars, saveVars, playerVars
<1>2. LevelTypeOK
  BY DEF CampaignIInv
<1>3. afterLoad' \in Never..MaxAfterLoad /\ afterLoad' # Never
  BY <1>1, <1>2 DEF LevelTypeOK, Never, MaxAfterLoad
<1>4. /\ transition' \in TransitionType /\ transition'.pos = transition.pos
      /\ transition'.landmark = transition.landmark /\ transition'.target = transition.target
  BY <1>1, <1>2 DEF LevelTypeOK, TransitionType
<1>5. MapsTypeOK' /\ NoHoles' /\ OffsetsAgree' /\ (afterLoad' = Never => PositionsKnown')
  BY <1>1, <1>3, <1>4, MapsStayGood
<1>6. SavesTypeOK' /\ AutoSavesAlternate' /\ SlotFiles(slots, files, commands)'
  BY <1>1, SavesStay
<1>7. LevelTypeOK'
  BY <1>1, <1>2, <1>3, <1>4 DEF LevelTypeOK
<1>8. LoadsAreCounted' /\ LandmarkIsSeen'
  BY <1>3 DEF LoadsAreCounted, LandmarkIsSeen
<1>9. ChangeWaits'
  BY <1>1, <1>4 DEF CampaignIInv, ChangeWaits, LandmarkChanges, Prepared
<1> QED
  BY <1>5, <1>6, <1>7, <1>8, <1>9 DEF CampaignIInv

LEMMA NewCheckpointStep ==
    ASSUME CampaignIInv, NEW p \in CoopPlayers, NewCheckpoint(p)
    PROVE  CampaignIInv'
<1>1. /\ checkpoints' = [checkpoints EXCEPT ![pCurrentMap] =
                            PushCheckpoint(checkpoints[pCurrentMap], map)]
      /\ UNCHANGED <<map, offset, pCurrentMap, fSaved, transition, afterLoad>> /\ LevelStays
      /\ UNCHANGED <<slots, iLastAutoSave, files, commands>>
  BY DEF NewCheckpoint, LevelStays, playerVars, saveVars
<1> QED
  BY <1>1, CheckpointAdded, LevelStaysGood, SavesStay DEF CampaignIInv

\* What players do while no change of level waits.
LEMMA PlayerActs ==
    ASSUME CampaignIInv, ~Changing, NEW p \in CoopPlayers, NEW x \in CoopPlayerType,
           coopPlayer' = [coopPlayer EXCEPT ![p] = x],
           g_fPause' \in BOOLEAN, st_fSkipNext' \in BOOLEAN,
           g_flDupCheck' \in BOOLEAN, g_flDupCheck' => g_flDupCheck,
           MapsStay, UNCHANGED <<slots, iLastAutoSave, files, commands>>,
           UNCHANGED <<transition, afterLoad>>
    PROVE  CampaignIInv'
<1>1. MapsTypeOK' /\ NoHoles' /\ OffsetsAgree' /\ (afterLoad' = Never => PositionsKnown')
  BY MapsStayGood
<1>2. SavesTypeOK' /\ AutoSavesAlternate' /\ SlotFiles(slots, files, commands)'
  BY SavesStay
<1>3. coopPlayer' \in [CoopPlayers -> CoopPlayerType]
  BY DEF CampaignIInv, LevelTypeOK
<1>4. LevelTypeOK'
  BY <1>3 DEF CampaignIInv, LevelTypeOK
<1>5. LoadsAreCounted' /\ LandmarkIsSeen'
  BY DEF CampaignIInv, LoadsAreCounted, LandmarkIsSeen, MapsStay
<1>6. LandmarkChanges' = LandmarkChanges /\ (~mp_coop_reconnect_hack => LandmarkChanges = {})
  BY DEF Changing, LandmarkChanges
<1>7. ChangeWaits'
  BY <1>6 DEF CampaignIInv, ChangeWaits, Prepared
<1> QED
  BY <1>1, <1>2, <1>4, <1>5, <1>7 DEF CampaignIInv

LEMMA PressButtonStep ==
    ASSUME CampaignIInv, NEW p \in CoopPlayers, PressButton(p)
    PROVE  CampaignIInv'
<1>1. LevelTypeOK /\ coopPlayer[p] \in CoopPlayerType
  BY DEF CampaignIInv, LevelTypeOK
<1>2. /\ ~Changing /\ MapsStay
      /\ UNCHANGED <<slots, iLastAutoSave, files, commands, transition, afterLoad, g_fPause, st_fSkipNext>>
      /\ g_flDupCheck' \in {g_flDupCheck, g_flDupCheck /\ transition.fLoading}
  BY DEF PressButton, MapsStay, mapVars, saveVars
<1>3. PICK i \in {"uninitialized", "load_fix", "spectator_begin"} :
          coopPlayer' = [coopPlayer EXCEPT ![p].iState = i]
  BY DEF PressButton
<1> DEFINE x == [coopPlayer[p] EXCEPT !.iState = i]
<1>4. x \in CoopPlayerType /\ coopPlayer' = [coopPlayer EXCEPT ![p] = x]
  BY <1>1, <1>3 DEF CoopPlayerType
<1>5. g_flDupCheck' \in BOOLEAN /\ (g_flDupCheck' => g_flDupCheck)
  BY <1>1, <1>2 DEF LevelTypeOK, TransitionType
<1> HIDE DEF x
<1>6. g_fPause' \in BOOLEAN /\ st_fSkipNext' \in BOOLEAN
  BY <1>1, <1>2 DEF LevelTypeOK
<1> QED
  BY <1>2, <1>4, <1>5, <1>6, PlayerActs

LEMMA JoinOrRespawnStep ==
    ASSUME CampaignIInv, NEW p \in CoopPlayers, JoinOrRespawn(p)
    PROVE  CampaignIInv'
<1>1. LevelTypeOK
  BY DEF CampaignIInv
<1> DEFINE x == [NewPlayer EXCEPT !.iState = IF transition.fLoading THEN "load_fix" ELSE "spawned"]
<1>2. /\ ~Changing /\ MapsStay
      /\ UNCHANGED <<slots, iLastAutoSave, files, commands, transition, afterLoad, st_fSkipNext>>
      /\ coopPlayer' = [coopPlayer EXCEPT ![p] = x]
      /\ g_fPause' = (g_fPause /\ transition.fLoading)
      /\ g_flDupCheck' = (g_flDupCheck /\ transition.fLoading)
  BY DEF JoinOrRespawn, Spawned, MapsStay, mapVars, saveVars
<1>3. x \in CoopPlayerType
  BY DEF NewPlayer, CoopPlayerType
<1> HIDE DEF x
<1>4. /\ g_fPause' \in BOOLEAN /\ st_fSkipNext' \in BOOLEAN
      /\ g_flDupCheck' \in BOOLEAN /\ (g_flDupCheck' => g_flDupCheck)
  BY <1>1, <1>2 DEF LevelTypeOK, TransitionType
<1> QED
  BY <1>2, <1>3, <1>4, PlayerActs

LEMMA DieStep ==
    ASSUME CampaignIInv, NEW p \in CoopPlayers, Die(p)
    PROVE  CampaignIInv'
<1>1. LevelTypeOK /\ coopPlayer[p] \in CoopPlayerType
  BY DEF CampaignIInv, LevelTypeOK
<1> DEFINE x == [coopPlayer[p] EXCEPT !.dead = "dead"]
<1>2. /\ ~Changing /\ MapsStay
      /\ UNCHANGED <<slots, iLastAutoSave, files, commands, transition, afterLoad, g_fPause,
                     st_fSkipNext, g_flDupCheck>>
      /\ coopPlayer' = [coopPlayer EXCEPT ![p] = x]
  BY DEF Die, MapsStay, mapVars, saveVars
<1>3. x \in CoopPlayerType
  BY <1>1 DEF CoopPlayerType
<1> HIDE DEF x
<1>4. /\ g_fPause' \in BOOLEAN /\ st_fSkipNext' \in BOOLEAN
      /\ g_flDupCheck' \in BOOLEAN /\ (g_flDupCheck' => g_flDupCheck)
  BY <1>1, <1>2 DEF LevelTypeOK
<1> QED
  BY <1>2, <1>3, <1>4, PlayerActs

LEMMA PlayerDeathStep ==
    ASSUME CampaignIInv, NEW p \in CoopPlayers, PlayerDeath(p)
    PROVE  CampaignIInv'
<1>1. LevelTypeOK /\ coopPlayer[p] \in CoopPlayerType
  BY DEF CampaignIInv, LevelTypeOK
<1> DEFINE shows == ~st_fSkipNext /\ checkpoints[pCurrentMap][0] # NoMap
           x == [coopPlayer[p] EXCEPT
                    !.dead = IF shows THEN "dead" ELSE "respawnable",
                    !.menu = coopPlayer[p].menu \/ (shows /\ mp_coop_checkpoints)]
<1>2. /\ ~Changing /\ MapsStay
      /\ UNCHANGED <<slots, iLastAutoSave, files, commands, transition, afterLoad, g_fPause, g_flDupCheck>>
      /\ coopPlayer' = [coopPlayer EXCEPT ![p] = x]
      /\ st_fSkipNext' = shows
  BY DEF PlayerDeath, MapsStay, mapVars, saveVars
<1>3. shows \in BOOLEAN /\ (coopPlayer[p].menu \/ (shows /\ mp_coop_checkpoints)) \in BOOLEAN
  OBVIOUS
<1> HIDE DEF shows
<1>4. x \in CoopPlayerType
  BY <1>1, <1>3 DEF CoopPlayerType
<1> HIDE DEF x
<1>5. /\ g_fPause' \in BOOLEAN /\ st_fSkipNext' \in BOOLEAN
      /\ g_flDupCheck' \in BOOLEAN /\ (g_flDupCheck' => g_flDupCheck)
  BY <1>1, <1>2, <1>3 DEF LevelTypeOK
<1> QED
  BY <1>2, <1>4, <1>5, PlayerActs

-----------------------------------------------------------------------------
(* The invariant *)

LEMMA CampaignInitIInv == CampaignInit => CampaignIInv
<1> SUFFICES ASSUME CampaignInit PROVE CampaignIInv
  OBVIOUS
<1>1. /\ map = FirstMap /\ FirstMap \in Maps /\ pCurrentMap = map /\ fSaved = NoMap
      /\ offset = [m \in {map} |-> 0] /\ checkpoints = [m \in {map} |-> NoCheckpoints]
      /\ slots = [s \in SlotNames |-> IF s = "START1" THEN StartSave(map) ELSE NoSave]
      /\ iLastAutoSave = 0 /\ transition = NoTransition /\ g_flDupCheck = FALSE
      /\ g_fPause = mp_coop_pause /\ st_fSkipNext = FALSE /\ files = {}
      /\ commands = <<Saving(StartSave(map))>>
      /\ coopPlayer = [p \in CoopPlayers |-> NewPlayer] /\ afterLoad = Never
  BY CampaignAssumption DEF CampaignInit, StartSave, Saving
<1>2. Known = {map} /\ map \in Maps
  BY <1>1 DEF Known
<1>3. MapsTypeOK
  BY <1>1, <1>2, NoCheckpointsGood DEF MapsTypeOK
<1>4. Saving(StartSave(map)) \in Command
  BY <1>2, SaveFacts, CommandFacts
<1>5. commands \in Seq(Command) /\ DOMAIN commands = {1} /\ commands[1] = Saving(StartSave(map))
  <2> DEFINE e == Saving(StartSave(map))
  <2>1. commands = <<e>> /\ e \in Command
    BY <1>1, <1>4
  <2> HIDE DEF e
  <2>2. commands \in Seq(Command) /\ commands[1] = e /\ Len(commands) = 1
    BY <2>1
  <2>3. DOMAIN commands = 1..1
    BY <2>2, LenProperties
  <2> QED
    BY <2>2, <2>3 DEF e
<1>6. SavesTypeOK
  BY <1>1, <1>2, <1>5, SaveFacts DEF SavesTypeOK
<1>7. /\ transition \in TransitionType /\ transition.landmark = NoLandmark
      /\ transition.pos = NoMap /\ ~transition.fLoading
  BY <1>1 DEF NoTransition, TransitionType
<1>8. LevelTypeOK
  <2>1. coopPlayer \in [CoopPlayers -> CoopPlayerType]
    BY <1>1 DEF NewPlayer, CoopPlayerType
  <2>2. afterLoad \in Never..MaxAfterLoad
    BY <1>1 DEF Never, MaxAfterLoad
  <2>3. g_flDupCheck \in BOOLEAN /\ g_fPause \in BOOLEAN /\ st_fSkipNext \in BOOLEAN
    BY <1>1, CampaignAssumption
  <2> QED
    BY <1>7, <2>1, <2>2, <2>3 DEF LevelTypeOK
<1>9. NoHoles
  BY <1>1, <1>2, NoCheckpointsGood DEF NoHoles
<1>10. OffsetsAgree
  BY <1>1, <1>2, CampaignAssumption DEF OffsetsAgree, OffsetsAreRelative
<1>11. PositionsKnown
  BY <1>1, <1>2, <1>7, NoCheckpointsGood DEF PositionsKnown
<1>12. LoadsAreCounted /\ LandmarkIsSeen
  BY <1>1, <1>7 DEF LoadsAreCounted, LandmarkIsSeen
<1>13. AutoSavesAlternate
  BY <1>1, <1>2, SaveFacts DEF AutoSavesAlternate, SlotKinds, SlotNames
<1>14. SlotFiles(slots, files, commands)
  BY <1>1, <1>2, <1>5, SaveFacts DEF SlotFiles
<1>15. ChangeWaits
  BY <1>5, CommandFacts DEF ChangeWaits, LandmarkChanges
<1> QED
  BY <1>3, <1>6, <1>8, <1>9, <1>10, <1>11, <1>12, <1>13, <1>14, <1>15 DEF CampaignIInv

LEMMA StutterStep ==
    ASSUME CampaignIInv, UNCHANGED campaignVars
    PROVE  CampaignIInv'
<1>1. MapsStay /\ LevelStays /\ UNCHANGED <<slots, iLastAutoSave, files, commands>>
  BY DEF campaignVars, mapVars, saveVars, playerVars, MapsStay, LevelStays
<1>2. MapsTypeOK' /\ NoHoles' /\ OffsetsAgree' /\ (afterLoad' = Never => PositionsKnown')
  BY <1>1, MapsStayGood DEF LevelStays
<1> QED
  BY <1>1, <1>2, LevelStaysGood, SavesStay DEF CampaignIInv, MapsStay

LEMMA CampaignNextIInv == CampaignIInv /\ [CampaignNext]_campaignVars => CampaignIInv'
<1> SUFFICES ASSUME CampaignIInv, [CampaignNext]_campaignVars PROVE CampaignIInv'
  OBVIOUS
<1>1. CASE UNCHANGED campaignVars
  BY <1>1, StutterStep
<1>2. CASE CampaignNext
  <2>1. afterLoad < MaxAfterLoad
    BY <1>2 DEF CampaignNext
  <2>2. CASE RunChangeLevel \/ RunSave \/ NewUnit
    BY <2>1, <2>2, RunChangeLevelStep, RunSaveStep, NewUnitStep
  <2>3. ASSUME NEW m \in Cycle, ChangeByCycle(m) PROVE CampaignIInv'
    BY <2>3, ChangeByCycleStep
  <2>4. ASSUME NEW n \in files, Load(n) PROVE CampaignIInv'
    BY <2>1, <2>4, LoadStep
  <2>5. ASSUME NEW p \in CoopPlayers, NEW c \in Changes, TouchChangeLevel(p, c) PROVE CampaignIInv'
    BY <2>5, TouchChangeLevelStep
  <2>6. ASSUME NEW p \in CoopPlayers,
               \/ AutoSave(p) \/ PressButton(p) \/ JoinOrRespawn(p)
               \/ NewCheckpoint(p) \/ Die(p) \/ PlayerDeath(p)
        PROVE  CampaignIInv'
    BY <2>6, AutoSaveStep, PressButtonStep, JoinOrRespawnStep, NewCheckpointStep, DieStep,
       PlayerDeathStep
  <2> QED
    BY <1>2, <2>2, <2>3, <2>4, <2>5, <2>6 DEF CampaignNext
<1> QED
  BY <1>1, <1>2

LEMMA CampaignSpecIInv == CampaignSpec => []CampaignIInv
  BY CampaignInitIInv, CampaignNextIInv, PTL DEF CampaignSpec

-----------------------------------------------------------------------------
(* The campaign: theorems *)

LEMMA CampaignIInvTypes == CampaignIInv => CampaignTypeOK
  BY DEF CampaignIInv, MapsTypeOK, SavesTypeOK, LevelTypeOK, Checkpoints, TransitionType, CoopPlayerType,
         CampaignTypeOK

(***************************************************************************)
(* The campaign's state has its types: the current map is known, maps,     *)
(* landmarks and players are such.                                         *)
(***************************************************************************)
THEOREM CampaignTypes == CampaignSpec => []CampaignTypeOK
<1>1. CampaignIInv => CampaignTypeOK
  BY CampaignIInvTypes
<1> QED
  BY CampaignSpecIInv, <1>1, PTL

(***************************************************************************)
(* Every known map is where its offset says, seen from the current map,    *)
(* over all ways through any landmarks, until a load was tried.            *)
(***************************************************************************)
THEOREM CampaignOffsetsAgree == CampaignSpec => []OffsetsAgree
<1>1. CampaignIInv => OffsetsAgree
  BY DEF CampaignIInv
<1> QED
  BY CampaignSpecIInv, <1>1, PTL

(***************************************************************************)
(* Every position a player can be sent back to lies in a known map.        *)
(***************************************************************************)
THEOREM CampaignPositionsResolve == CampaignSpec => []PositionsResolve
<1>1. CampaignIInv => PositionsResolve
  BY DEF CampaignIInv, PositionsKnown, PositionsResolve
<1> QED
  BY CampaignSpecIInv, <1>1, PTL

(***************************************************************************)
(* The loop of the menu of checkpoints ends inside the array, whatever its *)
(* length, and shows every checkpoint there is.                            *)
(***************************************************************************)
THEOREM CampaignCheckpointMenuEnds == CampaignSpec => []CheckpointMenuEnds
<1>1. CampaignIInv => CheckpointMenuEnds
  BY DEF CampaignIInv, NoHoles, NoHole, CheckpointMenuEnds
<1> QED
  BY CampaignSpecIInv, <1>1, PTL

(***************************************************************************)
(* Slots lead to files, there or about to be written, no two to one file,  *)
(* over automatic saves, new units, changes and failed loads.              *)
(***************************************************************************)
THEOREM CampaignSlotsAreSaves == CampaignSpec => []SlotsAreSaves
<1>1. CampaignIInv => SlotsAreSaves
  BY DEF CampaignIInv, SlotFiles, Saving, SlotsAreSaves
<1> QED
  BY CampaignSpecIInv, <1>1, PTL

(***************************************************************************)
(* With the reconnect hack and without, a change of level by a landmark    *)
(* that both maps have forgets no map, whatever the map cycle, players and *)
(* administrators command and do while it waits, unless its transition was *)
(* prepared anew or used up.                                               *)
(***************************************************************************)
THEOREM CampaignIsKept == CampaignSpec => ChangeKeepsCampaign
<1>1. ASSUME CampaignIInv, CampaignNext PROVE RunChangeLevel \/ Known' = Known
  BY <1>1 DEF CampaignNext, RunSave, NewUnit, ChangeByCycle, Load, TouchChangeLevel, AutoSave,
              PressButton, JoinOrRespawn, NewCheckpoint, Die, PlayerDeath, mapVars, Known
<1>2. ASSUME CampaignIInv, RunChangeLevel, LandmarkChange(1), OnlyChangeByLandmark,
             transition.landmark # NoLandmark, afterLoad = Never
      PROVE  Known \subseteq Known'
  <2> DEFINE m == commands[1][2]
  <2>1. commands # <<>> /\ commands[1][1] = "changelevel" /\ SavesTypeOK /\ ChangeWaits
    BY <1>2 DEF RunChangeLevel, CampaignIInv, LandmarkChange
  <2>2. m \in Maps /\ 1 \in DOMAIN commands /\ Head(commands) = commands[1]
    BY <2>1, TailFacts, CommandFacts DEF SavesTypeOK
  <2>3. transition.target = m /\ transition.landmark = commands[1][3]
    <3>1. \A j \in DOMAIN commands : j \in Nat /\ (j = 1 \/ j \in 2..Len(commands))
      <4>1. DOMAIN commands = 1..Len(commands) /\ Len(commands) \in Nat
        BY <2>1, LenProperties DEF SavesTypeOK
      <4> QED
        BY <4>1
    <3>2. 1 \in LandmarkChanges /\ \A j \in LandmarkChanges : j = 1
      BY <1>2, <2>2, <3>1 DEF LandmarkChanges, LandmarkChange, OnlyChangeByLandmark
    <3>3. \A j \in LandmarkChanges : j <= 1
      BY <3>2
    <3> QED
      BY <1>2, <2>1, <3>2, <3>3 DEF ChangeWaits, Prepared
  <2>4. ~transition.fLoading
    BY <1>2 DEF CampaignIInv, LoadsAreCounted
  <2>5. GoesOn(m)
    BY <1>2, <2>3, <2>4, NamesAssumption DEF GoesOn, LandmarkChange
  <2>6. Arrive(m) \/ ArriveTwice(m)
    BY <1>2, <2>2 DEF RunChangeLevel
  <2>7. ArriveTwice(m) => Known' = Known
    BY DEF ArriveTwice, Known
  <2> HIDE DEF m
  <2> QED
    BY <1>2, <2>2, <2>5, <2>6, <2>7, ArriveMaps
<1>3. ASSUME CampaignIInv, CampaignNext PROVE KeepsKnownMaps
  BY <1>1, <1>2, <1>3 DEF KeepsKnownMaps
<1>4. ASSUME CampaignNext PROVE KeepsTransition
  <2>1. CASE RunChangeLevel
    BY <2>1 DEF RunChangeLevel, Arrive, ArriveTwice, KeepsTransition
  <2>2. CASE \E p \in CoopPlayers, c \in Changes : TouchChangeLevel(p, c)
    BY <2>2 DEF TouchChangeLevel, KeepsTransition
  <2>3. CASE transition'.landmark = transition.landmark
    BY <2>3 DEF KeepsTransition
  <2>4. ASSUME NEW n \in files, Load(n) PROVE transition'.landmark = transition.landmark
    BY <2>4 DEF Load
  <2> QED
    BY <1>4, <2>1, <2>2, <2>3, <2>4
       DEF CampaignNext, RunSave, NewUnit, ChangeByCycle, AutoSave, PressButton, JoinOrRespawn,
           NewCheckpoint, Die, PlayerDeath
<1>5. CampaignIInv /\ [CampaignNext]_campaignVars => [KeepsKnownMaps /\ KeepsTransition]_campaignVars
  BY <1>3, <1>4
<1> QED
  BY CampaignSpecIInv, <1>5, PTL DEF CampaignSpec, ChangeKeepsCampaign

-----------------------------------------------------------------------------
(* The guns *)

GunnerType == [state : {"playing", "dead", "watching"}, m_pTank : FuncTanks \cup {NoTank},
               spot : Spots, item : BOOLEAN, weaponmodel : BOOLEAN, hidden : BOOLEAN]
TankType == [gone : BOOLEAN, m_pController : Gunners \cup {Nobody}, usePos : Spots]
TanksState == [g : [Gunners -> GunnerType], t : [FuncTanks -> TankType]]

\* The two sides of a hold.
HoldsMatch(g, t) ==
    \A p \in Gunners : g[p].m_pTank # NoTank =>
        t[g[p].m_pTank].m_pController = p /\ g[p].hidden

\* The inductive invariant, of a record.
TanksGood(s) == s \in TanksState /\ HoldsMatch(s.g, s.t)

LEMMA StartGood ==
    ASSUME NEW s, TanksGood(s), NEW t \in FuncTanks, NEW p \in Gunners,
           s.t[t].m_pController = Nobody
    PROVE  TanksGood(StartControl(s, t, p))
<1>1. StartControl(s, t, p).g \in [Gunners -> GunnerType]
  BY ZenonT(60) DEF StartControl, TanksGood, TanksState, GunnerType
<1>2. StartControl(s, t, p).t \in [FuncTanks -> TankType]
  <2>1. s.g[p].spot \in Spots
    BY DEF TanksGood, TanksState, GunnerType
  <2>2. s.t \in [FuncTanks -> TankType] /\ s.t[t] \in TankType
    BY DEF TanksGood, TanksState
  <2>3. [s.t[t] EXCEPT !.m_pController = p, !.usePos = s.g[p].spot] \in TankType
    BY <2>1, <2>2 DEF TankType
  <2> QED
    BY <2>2, <2>3 DEF StartControl
<1>3. StartControl(s, t, p) \in TanksState
  BY <1>1, <1>2 DEF StartControl, TanksState
<1>4. ASSUME NEW q \in Gunners, StartControl(s, t, p).g[q].m_pTank # NoTank
      PROVE  /\ StartControl(s, t, p).t[StartControl(s, t, p).g[q].m_pTank].m_pController = q
             /\ StartControl(s, t, p).g[q].hidden
  <2>1. CASE q = p
    BY <2>1 DEF StartControl, TanksGood, TanksState, GunnerType, TankType
  <2>2. CASE q # p
    <3>1. StartControl(s, t, p).g[q] = s.g[q]
      BY <2>2 DEF StartControl, TanksGood, TanksState
    <3>2. /\ s.g[q].m_pTank \in FuncTanks 
          /\ s.t[s.g[q].m_pTank].m_pController = q /\ s.g[q].hidden
      BY <1>4, <3>1 DEF TanksGood, TanksState, HoldsMatch, GunnerType
    <3>3. s.g[q].m_pTank # t
      BY <3>2, TanksAssumption
    <3>4. StartControl(s, t, p).t[s.g[q].m_pTank] = s.t[s.g[q].m_pTank]
      BY <3>2, <3>3 DEF StartControl, TanksGood, TanksState
    <3> QED
      BY <3>1, <3>2, <3>4
  <2> QED
    BY <2>1, <2>2
<1> QED
  BY <1>3, <1>4 DEF TanksGood, HoldsMatch

LEMMA StopGood ==
    ASSUME NEW s, TanksGood(s), NEW t \in FuncTanks
    PROVE  TanksGood(StopControl(s, t))
<1> DEFINE c == s.t[t].m_pController
           n == StopControl(s, t)
<1>1. CASE c = Nobody
  BY <1>1 DEF StopControl
<1>2. CASE c # Nobody
  <2>1. c \in Gunners
    BY <1>2 DEF TanksGood, TanksState, TankType
  <2>2. [s.g[c] EXCEPT !.m_pTank = NoTank, !.hidden = FALSE,
                       !.weaponmodel = s.g[c].weaponmodel \/ s.g[c].item] \in GunnerType
    <3>1. s.g[c] \in GunnerType
      BY <2>1 DEF TanksGood, TanksState
    <3>2. (s.g[c].weaponmodel \/ s.g[c].item) \in BOOLEAN
      OBVIOUS
    <3> QED
      BY <3>1, <3>2 DEF GunnerType
  <2>3. [s.t EXCEPT ![t].m_pController = Nobody] \in [FuncTanks -> TankType]
    BY DEF TanksGood, TanksState, TankType
  <2>4. n \in TanksState
    BY <1>2, <2>1, <2>2, <2>3 DEF StopControl, TanksGood, TanksState
  <2>5. ASSUME NEW q \in Gunners, n.g[q].m_pTank # NoTank
        PROVE  n.t[n.g[q].m_pTank].m_pController = q /\ n.g[q].hidden
    <3>1. q # c
      BY <1>2, <2>1, <2>5 DEF StopControl, TanksGood, TanksState, GunnerType
    <3>2. n.g[q] = s.g[q]
      BY <1>2, <3>1 DEF StopControl, TanksGood, TanksState
    <3>3. /\ s.g[q].m_pTank \in FuncTanks
          /\ s.t[s.g[q].m_pTank].m_pController = q /\ s.g[q].hidden
      BY <2>5, <3>2 DEF TanksGood, TanksState, HoldsMatch, GunnerType
    <3>4. n.t[s.g[q].m_pTank] = s.t[s.g[q].m_pTank]
      BY <1>2, <3>1, <3>3 DEF StopControl, TanksGood, TanksState
    <3> QED
      BY <3>2, <3>3, <3>4
  <2> QED
    BY <2>4, <2>5 DEF TanksGood, HoldsMatch
<1> QED
  BY <1>1, <1>2

LEMMA LeaveGood ==
    ASSUME NEW s, TanksGood(s), NEW p \in Gunners
    PROVE  TanksGood(LeaveTank(s, p))
  BY StopGood DEF LeaveTank, TanksGood, TanksState, GunnerType

\* What a player has in hand, where it stands and whether it plays says
\* nothing about guns.
LEMMA SameHoldsGood ==
    ASSUME NEW s, TanksGood(s), NEW n \in TanksState, n.t = s.t,
           \A p \in Gunners : /\ n.g[p].m_pTank = s.g[p].m_pTank
                              /\ n.g[p].hidden = s.g[p].hidden
    PROVE  TanksGood(n)
  BY DEF TanksGood, HoldsMatch

LEMMA LoseGood ==
    ASSUME NEW s, TanksGood(s), NEW p \in Gunners
    PROVE  TanksGood(LoseAllItems(s, p))
<1> DEFINE a == [s EXCEPT !.g[p].item = FALSE]
           b == LeaveTank(a, p)
<1>1. a \in TanksState /\ TanksGood(a)
  <2>1. a \in TanksState
    BY ZenonT(60) DEF TanksGood, TanksState, GunnerType
  <2>2. a.t = s.t /\ \A q \in Gunners : /\ a.g[q].m_pTank = s.g[q].m_pTank
                                        /\ a.g[q].hidden = s.g[q].hidden
    BY DEF TanksGood, TanksState, GunnerType
  <2> QED
    BY <2>1, <2>2, SameHoldsGood
<1>2. TanksGood(b)
  BY <1>1, LeaveGood
<1> DEFINE n == [b EXCEPT !.g[p].weaponmodel = FALSE]
<1> HIDE DEF b
<1>3. n \in TanksState
  <2>1. b \in TanksState
    BY <1>2 DEF TanksGood
  <2> QED
    BY ZenonT(60), <2>1 DEF TanksState, GunnerType
<1>4. n.t = b.t /\ \A q \in Gunners : /\ n.g[q].m_pTank = b.g[q].m_pTank
                                      /\ n.g[q].hidden = b.g[q].hidden
  BY <1>2 DEF TanksGood, TanksState, GunnerType
<1>5. TanksGood(n)
  BY <1>2, <1>3, <1>4, SameHoldsGood
<1> QED
  BY <1>5 DEF LoseAllItems, b

LEMMA StateGood ==
    ASSUME NEW s, TanksGood(s), NEW p \in Gunners, NEW state \in {"playing", "dead", "watching"}
    PROVE  TanksGood([s EXCEPT !.g[p].state = state])
<1> DEFINE n == [s EXCEPT !.g[p].state = state]
<1>1. n \in TanksState
  BY SMTT(30) DEF TanksGood, TanksState, GunnerType
<1>2. n.t = s.t /\ \A q \in Gunners : /\ n.g[q].m_pTank = s.g[q].m_pTank
                                      /\ n.g[q].hidden = s.g[q].hidden
  BY DEF TanksGood, TanksState, GunnerType
<1> QED
  BY <1>1, <1>2, SameHoldsGood

LEMMA UseGood ==
    ASSUME NEW s, TanksGood(s), NEW t \in FuncTanks, NEW p \in Gunners, NEW off,
           NEW n \in TankUse(s, t, p, off)
    PROVE  TanksGood(n)
  BY StartGood, StopGood DEF TankUse

-----------------------------------------------------------------------------
(* The steps *)

\* The inductive invariant, of the variables.
TankIInv == TanksGood(TanksNow)

LEMMA TanksBecomeGood ==
    ASSUME NEW s, TanksGood(s), TanksBecome(s)
    PROVE  TankIInv'
<1>1. TanksNow' = s
  BY DEF TanksNow, TanksBecome, TanksGood, TanksState
<1> QED
  BY <1>1 DEF TankIInv, TanksGood, HoldsMatch, TanksState, GunnerType, TankType

LEMMA TankInitIInv == TanksInit => TankIInv
  BY TanksAssumption
     DEF TanksInit, TankIInv, TanksGood, TanksNow, TanksState, GunnerType, TankType, HoldsMatch

LEMMA TankNextIInv == TankIInv /\ [TanksNext]_tankVars => TankIInv'
<1> SUFFICES ASSUME TankIInv, [TanksNext]_tankVars PROVE TankIInv'
  OBVIOUS
<1> DEFINE now == TanksNow
<1>1. TanksGood(now)
  BY DEF TankIInv
<1>2. ASSUME NEW p \in Gunners, PressUse(p) PROVE TankIInv'
  BY <1>1, <1>2, LeaveGood, UseGood, TanksBecomeGood DEF PressUse
<1>3. ASSUME NEW p \in Gunners, TankPostThink(p) PROVE TankIInv'
  BY <1>1, <1>3, LeaveGood, TanksBecomeGood DEF TankPostThink
<1>4. ASSUME NEW p \in Gunners, TakeWeapon(p) PROVE TankIInv'
  <2>1. gunner' \in [Gunners -> GunnerType] /\ tank' = tank
    BY ZenonT(60), <1>1, <1>4 DEF TakeWeapon, TanksGood, TanksNow, TanksState, GunnerType
  <2>2. \A q \in Gunners : /\ gunner'[q].m_pTank = gunner[q].m_pTank
                           /\ gunner'[q].hidden = gunner[q].hidden
    BY <1>1, <1>4 DEF TakeWeapon, TanksGood, TanksNow, TanksState, GunnerType
  <2> QED
    BY <1>1, <2>1, <2>2 DEF TankIInv, TanksGood, TanksNow, TanksState, HoldsMatch
<1>5. ASSUME NEW p \in Gunners, StripGunner(p) \/ PackGunner(p) PROVE TankIInv'
  BY <1>1, <1>5, LoseGood, TanksBecomeGood DEF StripGunner, PackGunner
<1>6. ASSUME NEW p \in Gunners, GunnerKilled(p) PROVE TankIInv'
  <2>1. TanksGood([now EXCEPT !.g[p].state = "dead"])
    BY <1>1, StateGood
  <2> QED
    BY <1>6, <2>1, LeaveGood, TanksBecomeGood DEF GunnerKilled
<1>7. ASSUME NEW p \in Gunners, GunnerSpectates(p) PROVE TankIInv'
  <2>1. TanksGood([now EXCEPT !.g[p].state = "watching"])
    BY <1>1, StateGood
  <2> QED
    BY <1>7, <2>1, LoseGood, LeaveGood, TanksBecomeGood DEF GunnerSpectates
<1>8. ASSUME NEW p \in Gunners, GunnerSpawns(p) PROVE TankIInv'
  <2>1. gunner' \in [Gunners -> GunnerType] /\ tank' = tank
    <3>1. ASSUME NEW spot \in Spots
          PROVE  [gunner[p] EXCEPT !.state = "playing", !.spot = spot, !.item = TRUE,
                                   !.weaponmodel = TRUE] \in GunnerType
      <4>1. gunner[p] \in GunnerType
        BY <1>1 DEF TanksGood, TanksNow, TanksState
      <4> QED
        BY <4>1 DEF GunnerType
    <3> QED
      BY <1>1, <1>8, <3>1 DEF GunnerSpawns, TanksGood, TanksNow, TanksState
  <2>2. \A q \in Gunners : /\ gunner'[q].m_pTank = gunner[q].m_pTank
                           /\ gunner'[q].hidden = gunner[q].hidden
    BY <1>1, <1>8 DEF GunnerSpawns, TanksGood, TanksNow, TanksState, GunnerType
  <2> QED
    BY <1>1, <2>1, <2>2 DEF TankIInv, TanksGood, TanksNow, TanksState, HoldsMatch
<1>9. ASSUME NEW p \in Gunners, NEW spot \in Spots, WalkTo(p, spot) PROVE TankIInv'
  <2>1. gunner' \in [Gunners -> GunnerType] /\ tank' = tank
    BY <1>1, <1>9 DEF WalkTo, TanksGood, TanksNow, TanksState, GunnerType
  <2>2. \A q \in Gunners : /\ gunner'[q].m_pTank = gunner[q].m_pTank
                           /\ gunner'[q].hidden = gunner[q].hidden
    BY <1>1, <1>9 DEF WalkTo, TanksGood, TanksNow, TanksState, GunnerType
  <2> QED
    BY <1>1, <2>1, <2>2 DEF TankIInv, TanksGood, TanksNow, TanksState, HoldsMatch
<1>10. ASSUME NEW p \in Gunners, NEW t \in FuncTanks, NEW off \in BOOLEAN, FireTank(t, p, off)
       PROVE  TankIInv'
  BY <1>1, <1>10, UseGood, TanksBecomeGood DEF FireTank
<1>11. ASSUME NEW t \in FuncTanks, RemoveTank(t) PROVE TankIInv'
  <2>1. gunner' \in [Gunners -> GunnerType] /\ tank' \in [FuncTanks -> TankType]
    <3>1. \A q \in Gunners : [gunner[q] EXCEPT !.m_pTank = NoTank] \in GunnerType
      BY <1>1 DEF TanksGood, TanksNow, TanksState, GunnerType
    <3>2. [tank[t] EXCEPT !.gone = TRUE, !.m_pController = Nobody] \in TankType
      BY <1>1 DEF TanksGood, TanksNow, TanksState, TankType
    <3> QED
      BY <1>1, <1>11, <3>1, <3>2 DEF RemoveTank, TanksGood, TanksNow, TanksState
  <2>2. ASSUME NEW q \in Gunners, gunner'[q].m_pTank # NoTank
        PROVE  /\ gunner'[q] = gunner[q] /\ gunner[q].m_pTank \in FuncTanks
               /\ tank'[gunner[q].m_pTank] = tank[gunner[q].m_pTank]
    BY <1>1, <1>11, <2>2 DEF RemoveTank, TanksGood, TanksNow, TanksState, GunnerType
  <2> QED
    BY <1>1, <2>1, <2>2 DEF TankIInv, TanksGood, TanksNow, TanksState, HoldsMatch
<1>12. CASE UNCHANGED tankVars
  BY <1>12 DEF tankVars, TankIInv, TanksGood, TanksNow, HoldsMatch
<1> QED
  BY <1>2, <1>3, <1>4, <1>5, <1>6, <1>7, <1>8, <1>9, <1>10, <1>11, <1>12 DEF TanksNext

LEMMA TankSpecIInv == TanksSpec => []TankIInv
  BY TankInitIInv, TankNextIInv, PTL DEF TanksSpec

-----------------------------------------------------------------------------
(* The guns: theorems *)

LEMMA TankIInvTypes == TankIInv => TanksTypeOK
  BY DEF TankIInv, TanksGood, TanksNow, TanksState, GunnerType, TankType, TanksTypeOK

(***************************************************************************)
(* Handles lead to guns and players, whoever goes.                         *)
(***************************************************************************)
THEOREM TanksTypes == TanksSpec => []TanksTypeOK
<1>1. TankIInv => TanksTypeOK
  BY TankIInvTypes
<1> QED
  BY TankSpecIInv, <1>1, PTL

(***************************************************************************)
(* A player who has a gun is the one that the gun knows and its bar of     *)
(* weapons is hidden, for any number of players and guns: whoever uses the *)
(* gun, dies, watches, is stripped or given another gun.                   *)
(***************************************************************************)
THEOREM TanksKnowTheirPlayers == TanksSpec => []TankKnowsItsPlayer
<1>1. TankIInv => TankKnowsItsPlayer
  BY DEF TankIInv, TanksGood, TanksNow, HoldsMatch, TankKnowsItsPlayer
<1> QED
  BY TankSpecIInv, <1>1, PTL

-----------------------------------------------------------------------------
(* The weapons: types *)

ItemsKnown == Items \subseteq DOMAIN ItemClass

Clips(i) == IF Info(i).kind = "gun" THEN 0..Info(i).clip ELSE {NoClip, 0}
States(i) == CASE Info(i).kind = "grenade" -> {"idle", "primed"}
               [] Info(i).kind = "satchel" -> {"idle", "ready", "reload"}
               [] OTHER -> {"idle"}
Thinks == {"none", "SUB_Remove", "CreateThink", "Materialize"}
ItemType(i) ==
    [exists : BOOLEAN, touch : BOOLEAN, think : Thinks, clip : Clips(i), give : Nat,
     state : States(i), reload : IF Info(i).kind = "gun" THEN BOOLEAN ELSE {FALSE},
     norespawn : BOOLEAN]
ItemsType ==
    {f \in [Items -> UNION {ItemType(i) : i \in Items}] : \A i \in Items : f[i] \in ItemType(i)}
ChainType == [1..Slots -> Seq(Items)]
\* What the weapons of a type of ammunition agree on in the four kinds that are
\* modelled, and not in all of the program's.
SharedMax ==
    \A c, d \in Classes : WeaponInfo[c].ammo = WeaponInfo[d].ammo /\ WeaponInfo[c].ammo # "none"
                         => WeaponInfo[c].max = WeaponInfo[d].max
Within(ammo) == \A c \in Classes : WeaponInfo[c].ammo # "none" =>
                                   ammo[WeaponInfo[c].ammo] <= WeaponInfo[c].max
AmmoType == {ammo \in [AmmoTypes -> Nat] : SharedMax => Within(ammo)}
PlayerType ==
    [slots : ChainType, active : Items \cup {NoItem}, last : Items \cup {NoItem},
     ammo : AmmoType, weapons : SUBSET Classes, dead : BOOLEAN, crashed : BOOLEAN]
BoxType == [there : BOOLEAN, slots : ChainType, ammo : AmmoType, kill : BOOLEAN]
CarriedState == [p : PlayerType, i : ItemsType, b : BoxType, full : BOOLEAN]

Held(s) == {i \in Items : Holds(s.p.slots, i)}
Boxed(s) == {i \in Items : Holds(s.b.slots, i)}

Chained(chain) ==
    \A k \in 1..Slots :
        /\ \A m, n \in DOMAIN chain[k] : chain[k][m] = chain[k][n] => m = n
        /\ \A n \in DOMAIN chain[k] : Slot(chain[k][n]) = k

-----------------------------------------------------------------------------
(* What the level says of the items *)

LEMMA ItemFacts ==
    ASSUME ItemsKnown, NEW i \in Items
    PROVE  /\ i # NoItem
           /\ ItemClass[i] \in Classes
           /\ Slot(i) \in 1..Slots
           /\ Info(i).kind \in {"melee", "gun", "grenade", "satchel"}
           /\ Info(i).give \in Nat /\ Info(i).weight \in Int
           /\ Info(i).kind = "melee" <=> Info(i).ammo = "none"
           /\ Info(i).ammo # "none" => Info(i).ammo \in AmmoTypes /\ Info(i).max \in Nat
           /\ IF Info(i).kind = "gun" THEN Info(i).clip \in Nat \ {0} ELSE Info(i).clip = NoClip
           /\ Info(i).kind = "satchel" => Info(i).weight < 0
           /\ Info(i) = WeaponInfo[ItemClass[i]]
           /\ Exhaustible(ItemClass[i]) <=> Info(i).kind \in {"grenade", "satchel"}
<1>1. i \in DOMAIN ItemClass
  BY DEF ItemsKnown
<1>2. ItemClass[i] \in Classes /\ i # NoItem
  BY <1>1, WeaponsAssumption
<1>3. Info(i).ammo # "none" => Info(i).ammo \in AmmoTypes
  BY <1>2 DEF Info, AmmoTypes
<1> QED
  BY <1>2, <1>3, WeaponsAssumption DEF Info, Slot, Exhaustible

LEMMA InChain ==
    ASSUME ItemsKnown, NEW chain \in ChainType, Chained(chain), NEW i \in Items
    PROVE  /\ chain[Slot(i)] \in Seq(Items)
           /\ Holds(chain, i) <=> \E n \in DOMAIN chain[Slot(i)] : chain[Slot(i)][n] = i
<1>1. Slot(i) \in 1..Slots
  BY ItemFacts
<1>2. chain[Slot(i)] \in Seq(Items)
  BY <1>1 DEF ChainType
<1>3. ASSUME NEW k \in 1..Slots, i \in ToSet(chain[k])
      PROVE  \E n \in DOMAIN chain[Slot(i)] : chain[Slot(i)][n] = i
  <2>1. PICK n \in DOMAIN chain[k] : chain[k][n] = i
    BY <1>3 DEF ToSet
  <2>2. Slot(i) = k
    BY <2>1 DEF Chained
  <2> QED
    BY <2>1, <2>2
<1>4. ASSUME NEW n \in DOMAIN chain[Slot(i)], chain[Slot(i)][n] = i PROVE Holds(chain, i)
  BY <1>1, <1>4 DEF Holds, ToSet
<1> QED
  BY <1>2, <1>3, <1>4 DEF Holds

\* A new weapon at the head of the chain of its slot.
LEMMA PushedChain ==
    ASSUME ItemsKnown, NEW chain \in ChainType, Chained(chain), NEW i \in Items, ~Holds(chain, i)
    PROVE  /\ Pushed(chain, i) \in ChainType
           /\ Chained(Pushed(chain, i))
           /\ \A j \in Items : Holds(Pushed(chain, i), j) <=> Holds(chain, j) \/ j = i
<1> DEFINE old == chain[Slot(i)]
           new == <<i>> \o old
           all == Pushed(chain, i)
<1>1. Slot(i) \in 1..Slots
  BY ItemFacts
<1>2. old \in Seq(Items)
  BY <1>1 DEF ChainType
<1>3. /\ new \in Seq(Items) /\ DOMAIN new = 1 .. Len(old) + 1 /\ new[1] = i
      /\ \A n \in 1 .. Len(old) : new[n + 1] = old[n]
      /\ \A n \in 2 .. Len(old) + 1 : n - 1 \in DOMAIN old /\ new[n] = old[n - 1]
  BY <1>2, PushFacts
<1>4. all = [chain EXCEPT ![Slot(i)] = new]
  BY DEF Pushed
<1>5. all \in ChainType /\ all[Slot(i)] = new
      /\ \A k \in 1..Slots : k # Slot(i) => all[k] = chain[k]
  BY <1>1, <1>3, <1>4 DEF ChainType
<1>6. \A n \in DOMAIN old : old[n] # i
  BY InChain
<1>7. Len(old) \in Nat /\ DOMAIN old = 1 .. Len(old)
  BY <1>2
<1> HIDE DEF new, all, old
<1>8. \A m, n \in DOMAIN new : new[m] = new[n] => m = n
  <2> SUFFICES ASSUME NEW m \in DOMAIN new, NEW n \in DOMAIN new, new[m] = new[n] PROVE m = n
    OBVIOUS
  <2>1. \A a, b \in DOMAIN old : old[a] = old[b] => a = b
    BY <1>1 DEF Chained, old
  <2>2. CASE m = 1 \/ n = 1
    BY <1>3, <1>6, <1>7, <2>2
  <2>3. CASE m # 1 /\ n # 1
    <3>1. m \in 2 .. Len(old) + 1 /\ n \in 2 .. Len(old) + 1
      BY <1>3, <1>7, <2>3
    <3>2. old[m - 1] = old[n - 1] /\ m - 1 \in DOMAIN old /\ n - 1 \in DOMAIN old
      BY <1>3, <3>1
    <3>3. m - 1 = n - 1
      BY <2>1, <3>2
    <3> QED
      BY <3>1, <3>3
  <2> QED
    BY <2>2, <2>3
<1>9. \A n \in DOMAIN new : Slot(new[n]) = Slot(i)
  <2> TAKE n \in DOMAIN new
  <2>1. \A a \in DOMAIN old : Slot(old[a]) = Slot(i)
    BY <1>1 DEF Chained, old
  <2>2. n = 1 \/ n \in 2 .. Len(old) + 1
    BY <1>3, <1>7
  <2> QED
    BY <1>3, <2>1, <2>2
<1>10. Chained(all)
  <2> SUFFICES ASSUME NEW k \in 1..Slots
               PROVE  /\ \A m, n \in DOMAIN all[k] : all[k][m] = all[k][n] => m = n
                      /\ \A n \in DOMAIN all[k] : Slot(all[k][n]) = k
    BY DEF Chained
  <2>1. CASE k = Slot(i)
    BY <1>5, <1>8, <1>9, <2>1
  <2>2. CASE k # Slot(i)
    BY <1>5, <2>2 DEF Chained
  <2> QED
    BY <2>1, <2>2
<1>11. ASSUME NEW j \in Items PROVE Holds(all, j) <=> Holds(chain, j) \/ j = i
  <2>1. /\ Holds(all, j) <=> \E n \in DOMAIN all[Slot(j)] : all[Slot(j)][n] = j
        /\ Holds(chain, j) <=> \E n \in DOMAIN chain[Slot(j)] : chain[Slot(j)][n] = j
    BY <1>5, <1>10, InChain
  <2>2. CASE Slot(j) = Slot(i)
    <3>1. (\E n \in DOMAIN new : new[n] = j) <=> (\E n \in DOMAIN old : old[n] = j) \/ j = i
      <4>1. ASSUME NEW n \in DOMAIN new, new[n] = j PROVE (\E m \in DOMAIN old : old[m] = j) \/ j = i
        <5>1. n = 1 \/ n \in 2 .. Len(old) + 1
          BY <1>3, <1>7
        <5> QED
          BY <1>3, <4>1, <5>1
      <4>2. ASSUME NEW n \in DOMAIN old, old[n] = j PROVE \E m \in DOMAIN new : new[m] = j
        <5>1. n + 1 \in DOMAIN new
          BY <1>3, <1>7
        <5> QED
          BY <1>3, <1>7, <4>2, <5>1
      <4>3. 1 \in DOMAIN new
        BY <1>3, <1>7
      <4> QED
        BY <1>3, <4>1, <4>2, <4>3
    <3> QED
      BY <1>5, <2>1, <2>2, <3>1 DEF old
  <2>3. CASE Slot(j) # Slot(i)
    <3>1. Slot(j) \in 1..Slots
      BY ItemFacts
    <3> QED
      BY <1>5, <2>1, <2>3, <3>1
  <2> QED
    BY <2>2, <2>3
<1> QED
  BY <1>5, <1>10, <1>11 DEF all

\* A weapon out of the chain of its slot.
LEMMA TakenChain ==
    ASSUME ItemsKnown, NEW chain \in ChainType, Chained(chain), NEW i \in Items
    PROVE  /\ Taken(chain, i) \in ChainType
           /\ Chained(Taken(chain, i))
           /\ \A j \in Items : Holds(Taken(chain, i), j) <=> Holds(chain, j) /\ j # i
<1> DEFINE old == chain[Slot(i)]
           new == RemoveFirst(old, i)
           all == Taken(chain, i)
<1>1. Slot(i) \in 1..Slots
  BY ItemFacts
<1>2. old \in Seq(Items) /\ Len(old) \in Nat /\ DOMAIN old = 1 .. Len(old)
  BY <1>1 DEF ChainType
<1>3. /\ \A a, b \in DOMAIN old : old[a] = old[b] => a = b
      /\ \A a \in DOMAIN old : Slot(old[a]) = Slot(i)
  BY <1>1 DEF Chained
<1>4. all = [chain EXCEPT ![Slot(i)] = new]
  BY DEF Taken
<1> HIDE DEF old
<1>5. \/ new = old /\ \A n \in DOMAIN old : old[n] # i
      \/ \E k \in DOMAIN old : old[k] = i /\ new = RemoveAt(old, k)
  <2>1. CASE \E n \in 1 .. Len(old) : old[n] = i
    <3> DEFINE places == {n \in 1 .. Len(old) : old[n] = i}
    <3>1. places \in SUBSET Nat /\ places # {}
      BY <2>1
    <3>2. SelectInSeq(old, LAMBDA v : v = i) = Min(places)
      BY <3>1 DEF SelectInSeq
    <3> HIDE DEF places
    <3>3. Min(places) \in places
      BY <3>1, MinInSet
    <3>4. Min(places) \in DOMAIN old /\ old[Min(places)] = i
      BY <1>2, <3>3 DEF places
    <3> QED
      BY <2>1, <3>2, <3>4 DEF RemoveFirst
  <2>2. CASE ~\E n \in 1 .. Len(old) : old[n] = i
    BY <1>2, <2>2 DEF RemoveFirst
  <2> QED
    BY <2>1, <2>2
<1> HIDE DEF new
<1>6. /\ new \in Seq(Items)
      /\ \A n \in DOMAIN new : \E j \in DOMAIN old : new[n] = old[j] /\ old[j] # i
      /\ \A j \in DOMAIN old : old[j] # i => \E n \in DOMAIN new : new[n] = old[j]
      /\ \A m, n \in DOMAIN new : new[m] = new[n] => m = n
  <2>1. CASE new = old /\ \A n \in DOMAIN old : old[n] # i
    BY <1>2, <1>3, <2>1
  <2>2. ASSUME NEW k \in DOMAIN old, old[k] = i, new = RemoveAt(old, k)
        PROVE  <1>6!1 /\ <1>6!2 /\ <1>6!3 /\ <1>6!4
    <3>1. /\ new \in Seq(Items)
          /\ \A n \in DOMAIN new :
                LET j == IF n < k THEN n ELSE n + 1
                IN  j \in DOMAIN old /\ j # k /\ new[n] = old[j]
          /\ \A j \in DOMAIN old \ {k} :
                LET n == IF j < k THEN j ELSE j - 1
                IN  n \in DOMAIN new /\ new[n] = old[j]
      <4> DEFINE less == RemoveAt(old, k)
      <4>1. old \in Seq(Items)
        BY <1>2
      <4>2. less \in Seq(Items)
        BY <4>1, RemoveFacts
      <4>3. \A n \in DOMAIN less :
                  LET j == IF n < k THEN n ELSE n + 1
                  IN  j \in DOMAIN old /\ j # k /\ less[n] = old[j]
        BY <4>1, RemoveFacts
      <4>4. \A j \in DOMAIN old \ {k} :
                  LET n == IF j < k THEN j ELSE j - 1
                  IN  n \in DOMAIN less /\ less[n] = old[j]
        BY <4>1, RemoveFacts
      <4> HIDE DEF less
      <4>5. new = less
        BY <2>2 DEF less
      <4> QED
        BY <4>2, <4>3, <4>4, <4>5
    <3>2. \A n \in DOMAIN new : \E j \in DOMAIN old : new[n] = old[j] /\ old[j] # i
      BY <1>3, <2>2, <3>1
    <3>3. \A j \in DOMAIN old : old[j] # i => \E n \in DOMAIN new : new[n] = old[j]
      BY <2>2, <3>1
    <3>4. ASSUME NEW m \in DOMAIN new, NEW n \in DOMAIN new, new[m] = new[n] PROVE m = n
      <4> DEFINE up(x) == IF x < k THEN x ELSE x + 1
      <4>1. up(m) = up(n)
        BY <1>3, <3>1, <3>4
      <4>2. m \in Nat /\ n \in Nat /\ k \in Nat
        BY <1>2, <3>1
      <4> QED
        BY <4>1, <4>2
    <3> QED
      BY <3>1, <3>2, <3>3, <3>4
  <2> QED
    BY <1>5, <2>1, <2>2
<1>7. all \in ChainType /\ all[Slot(i)] = new
      /\ \A k \in 1..Slots : k # Slot(i) => all[k] = chain[k]
  BY <1>1, <1>4, <1>6 DEF ChainType
<1> HIDE DEF all
<1>8. Chained(all)
  <2> SUFFICES ASSUME NEW k \in 1..Slots
               PROVE  /\ \A m, n \in DOMAIN all[k] : all[k][m] = all[k][n] => m = n
                      /\ \A n \in DOMAIN all[k] : Slot(all[k][n]) = k
    BY DEF Chained
  <2>1. CASE k = Slot(i)
    BY <1>3, <1>6, <1>7, <2>1
  <2>2. CASE k # Slot(i)
    BY <1>7, <2>2 DEF Chained
  <2> QED
    BY <2>1, <2>2
<1>9. ASSUME NEW j \in Items PROVE Holds(all, j) <=> Holds(chain, j) /\ j # i
  <2>1. /\ Holds(all, j) <=> \E n \in DOMAIN all[Slot(j)] : all[Slot(j)][n] = j
        /\ Holds(chain, j) <=> \E n \in DOMAIN chain[Slot(j)] : chain[Slot(j)][n] = j
    BY <1>7, <1>8, InChain
  <2>2. CASE Slot(j) = Slot(i)
    <3>1. (\E n \in DOMAIN new : new[n] = j) <=> (\E n \in DOMAIN old : old[n] = j) /\ j # i
      BY <1>6
    <3> QED
      BY <1>7, <2>1, <2>2, <3>1 DEF old
  <2>3. CASE Slot(j) # Slot(i)
    <3>1. Slot(j) \in 1..Slots
      BY ItemFacts
    <3> QED
      BY <1>7, <2>1, <2>3, <3>1
  <2> QED
    BY <2>2, <2>3
<1> QED
  BY <1>7, <1>8, <1>9 DEF all
-----------------------------------------------------------------------------
(* The fields of a state *)

Same(s, t) ==
    /\ t.p.ammo = s.p.ammo /\ t.p.dead = s.p.dead /\ t.p.crashed = s.p.crashed
    /\ t.b = s.b /\ t.full = s.full

LEMMA ItemSet ==
    ASSUME NEW f \in ItemsType, NEW i \in Items, NEW r \in ItemType(i)
    PROVE  /\ [f EXCEPT ![i] = r] \in ItemsType
           /\ [f EXCEPT ![i] = r][i] = r
           /\ \A j \in Items : j # i => [f EXCEPT ![i] = r][j] = f[j]
<1> DEFINE g == [f EXCEPT ![i] = r]
           all == UNION {ItemType(j) : j \in Items}
<1>1. f \in [Items -> all] /\ \A j \in Items : f[j] \in ItemType(j)
  BY DEF ItemsType
<1>2. r \in all
  OBVIOUS
<1> HIDE DEF all
<1>3. g \in [Items -> all] /\ g[i] = r /\ \A j \in Items : j # i => g[j] = f[j]
  BY <1>1, <1>2
<1>4. \A j \in Items : g[j] \in ItemType(j)
  BY <1>1, <1>3
<1> HIDE DEF g
<1> QED
  BY <1>3, <1>4 DEF ItemsType, all, g

LEMMA ItemOf ==
    ASSUME NEW s \in CarriedState, NEW i \in Items
    PROVE  s.i \in ItemsType /\ s.i[i] \in ItemType(i)
  BY DEF CarriedState, ItemsType

\* A think: only that field of that item changes.
LEMMA ThinkFields ==
    ASSUME NEW s \in CarriedState, NEW i \in Items, NEW k \in Thinks
    PROVE  /\ Think(s, i, k) \in CarriedState
           /\ Think(s, i, k).p = s.p /\ Same(s, Think(s, i, k))
           /\ Think(s, i, k).i[i] = [s.i[i] EXCEPT !.think = k]
           /\ \A j \in Items : j # i => Think(s, i, k).i[j] = s.i[j]
<1> DEFINE r == [s.i[i] EXCEPT !.think = k]
           f == [s.i EXCEPT ![i] = r]
<1>1. s.i \in ItemsType /\ r \in ItemType(i)
  BY ItemOf DEF ItemType
<1>2. Think(s, i, k) = [s EXCEPT !.i = f]
  BY DEF Think
<1>3. f \in ItemsType /\ f[i] = r /\ \A j \in Items : j # i => f[j] = s.i[j]
  BY <1>1, ItemSet
<1> HIDE DEF r, f
<1> QED
  BY <1>2, <1>3 DEF CarriedState, Same, r

LEMMA RemoveLaterFields ==
    ASSUME NEW s \in CarriedState, NEW i \in Items
    PROVE  /\ RemoveLater(s, i) \in CarriedState
           /\ RemoveLater(s, i).p = s.p /\ Same(s, RemoveLater(s, i))
           /\ RemoveLater(s, i).i[i] = [s.i[i] EXCEPT !.touch = FALSE, !.think = "SUB_Remove"]
           /\ \A j \in Items : j # i => RemoveLater(s, i).i[j] = s.i[j]
<1> DEFINE r == [s.i[i] EXCEPT !.touch = FALSE, !.think = "SUB_Remove"]
           f == [s.i EXCEPT ![i] = r]
<1>1. s.i \in ItemsType /\ r \in ItemType(i)
  BY ItemOf DEF ItemType, Thinks
<1>2. RemoveLater(s, i) = [s EXCEPT !.i = f]
  BY <1>1 DEF RemoveLater, ItemsType
<1>3. f \in ItemsType /\ f[i] = r /\ \A j \in Items : j # i => f[j] = s.i[j]
  BY <1>1, ItemSet
<1> HIDE DEF r, f
<1> QED
  BY <1>2, <1>3 DEF CarriedState, Same, r

LEMMA UnlinkFields ==
    ASSUME ItemsKnown, NEW s \in CarriedState, Chained(s.p.slots), NEW i \in Items
    PROVE  LET t == Unlink(s, i)
           IN  /\ t \in CarriedState /\ Same(s, t) /\ t.i = s.i
               /\ t.p.weapons = s.p.weapons
               /\ t.p.active = IF s.p.active = i THEN NoItem ELSE s.p.active
               /\ t.p.last = IF s.p.last = i THEN NoItem ELSE s.p.last
               /\ Chained(t.p.slots)
               /\ Held(t) = Held(s) \ {i}
<1> DEFINE q == Taken(s.p.slots, i)
           t == Unlink(s, i)
<1>1. s.p \in PlayerType /\ s.p.slots \in ChainType
  BY DEF CarriedState, PlayerType
<1>2. q \in ChainType /\ Chained(q) /\ \A j \in Items : Holds(q, j) <=> Holds(s.p.slots, j) /\ j # i
  BY <1>1, TakenChain
<1>3. t = [s EXCEPT !.p = [s.p EXCEPT !.active = IF s.p.active = i THEN NoItem ELSE s.p.active,
                                      !.last = IF s.p.last = i THEN NoItem ELSE s.p.last,
                                      !.slots = q]]
  BY DEF Unlink, CarriedState, PlayerType
<1> HIDE DEF q, t
<1>4. /\ t \in CarriedState /\ Same(s, t) /\ t.i = s.i
      /\ t.p.weapons = s.p.weapons
      /\ t.p.active = IF s.p.active = i THEN NoItem ELSE s.p.active
      /\ t.p.last = IF s.p.last = i THEN NoItem ELSE s.p.last
      /\ t.p.slots = q
  BY <1>1, <1>2, <1>3 DEF CarriedState, PlayerType, Same
<1>5. Held(t) = Held(s) \ {i}
  BY <1>2, <1>4 DEF Held
<1> QED
  BY <1>2, <1>4, <1>5 DEF t

\* A weapon that destroys itself.
LEMMA DestroyItemFields ==
    ASSUME ItemsKnown, NEW s \in CarriedState, Chained(s.p.slots), NEW i \in Items
    PROVE  LET t == DestroyItem(s, i)
           IN  /\ t \in CarriedState /\ Same(s, t)
               /\ t.p.weapons = s.p.weapons
               /\ t.p.active = IF s.p.active = i THEN NoItem ELSE s.p.active
               /\ t.p.last = IF s.p.last = i THEN NoItem ELSE s.p.last
               /\ Chained(t.p.slots)
               /\ Held(t) = Held(s) \ {i}
               /\ t.i[i] = [s.i[i] EXCEPT !.touch = FALSE, !.think = "SUB_Remove"]
               /\ \A j \in Items : j # i => t.i[j] = s.i[j]
<1> DEFINE a == Think(s, i, "none")
           b == Unlink(a, i)
           t == RemoveLater(b, i)
<1>1. /\ a \in CarriedState /\ a.p = s.p /\ Same(s, a)
      /\ a.i[i] = [s.i[i] EXCEPT !.think = "none"]
      /\ \A j \in Items : j # i => a.i[j] = s.i[j]
  <2>1. "none" \in Thinks
    BY DEF Thinks
  <2> HIDE DEF Thinks
  <2> QED
    BY ONLY <2>1, s \in CarriedState, i \in Items, ItemsKnown, ThinkFields
<1>2. DestroyItem(s, i) = t
  BY DEF DestroyItem
<1> HIDE DEF a
<1>3. /\ b \in CarriedState /\ Same(a, b) /\ b.i = a.i
      /\ b.p.weapons = a.p.weapons
      /\ b.p.active = IF a.p.active = i THEN NoItem ELSE a.p.active
      /\ b.p.last = IF a.p.last = i THEN NoItem ELSE a.p.last
      /\ Chained(b.p.slots)
      /\ Held(b) = Held(a) \ {i}
  BY <1>1, UnlinkFields
<1> HIDE DEF b
<1>4. /\ t \in CarriedState /\ t.p = b.p /\ Same(b, t)
      /\ t.i[i] = [b.i[i] EXCEPT !.touch = FALSE, !.think = "SUB_Remove"]
      /\ \A j \in Items : j # i => t.i[j] = b.i[j]
  BY <1>3, RemoveLaterFields
<1> HIDE DEF t
<1>5. Held(a) = Held(s) /\ Held(t) = Held(b)
  BY <1>1, <1>4 DEF Held
<1>6. t.i[i] = [s.i[i] EXCEPT !.touch = FALSE, !.think = "SUB_Remove"]
  <2>1. s.i[i] \in ItemType(i)
    BY ItemOf
  <2>2. t.i[i] = [[s.i[i] EXCEPT !.think = "none"] EXCEPT !.touch = FALSE, !.think = "SUB_Remove"]
    BY <1>1, <1>3, <1>4
  <2> QED
    BY <2>1, <2>2 DEF ItemType
<1>7. Same(s, t)
  BY <1>1, <1>3, <1>4 DEF Same
<1>8. \A j \in Items : j # i => t.i[j] = s.i[j]
  BY <1>1, <1>3, <1>4
<1> QED
  BY <1>1, <1>2, <1>3, <1>4, <1>5, <1>6, <1>7, <1>8
-----------------------------------------------------------------------------
(* The invariant of the items, while those of B are in a box *)

\* The pointers of the player and the items of the chains.
Kept(s, B) ==
    /\ \A i \in {s.p.active, s.p.last} \ {NoItem} : i \in Held(s)
    /\ \A i, j \in Held(s) : ItemClass[i] = ItemClass[j] => i = j
    /\ Held(s) \cap B = {}
    /\ \A i \in Held(s) \cup B : s.i[i].exists

\* Nobody touches them, and none is to be removed.
Quiet(s, B) ==
    \A i \in Held(s) \cup B : ~s.i[i].touch /\ s.i[i].think \in {"none", "CreateThink"}

\* Who waits for a touch or a think.
Pending(s) ==
    \A i \in Items :
        /\ s.i[i].touch \/ s.i[i].think = "Materialize" => s.i[i].exists
        /\ s.i[i].think = "CreateThink" => i \in Held(s) /\ Info(i).kind = "melee"

\* A grenade whose pin is drawn is in hand, is there to be thrown, and no
\* crowbar takes the hand away.
Primed(s) ==
    \A i \in Items : s.i[i].state = "primed" =>
        /\ s.p.active = i /\ HasAmmo(s, i)
        /\ \A j \in Items : s.i[j].think # "CreateThink"
Unprimed(s) == \A i \in Items : s.i[i].state # "primed"

Sound(s, B) ==
    /\ ItemsKnown /\ s \in CarriedState /\ B \subseteq Items
    /\ Chained(s.p.slots) /\ Kept(s, B) /\ Pending(s) /\ Primed(s)

\* A weapon goes: out of the chains, and to be removed.
LEMMA LeaveSound ==
    ASSUME NEW s, NEW B, Sound(s, B), NEW i \in Items, NEW t \in CarriedState,
           Chained(t.p.slots), Held(t) = Held(s) \ {i}, t.p.ammo = s.p.ammo,
           t.p.active = IF s.p.active = i THEN NoItem ELSE s.p.active,
           t.p.last = IF s.p.last = i THEN NoItem ELSE s.p.last,
           \A j \in Items : j # i => t.i[j] = s.i[j],
           t.i[i].exists = s.i[i].exists, ~t.i[i].touch, i \notin B,
           t.i[i].think \in {"none", "SUB_Remove"},
           t.i[i].state = "primed" => t.p.active = i /\ s.i[i].state = "primed"
    PROVE  Sound(t, B)
<1>1. ItemsKnown /\ s \in CarriedState /\ B \subseteq Items /\ Kept(s, B) /\ Pending(s) /\ Primed(s)
  BY DEF Sound
<1>2. Kept(t, B)
  <2>1. \A j \in {t.p.active, t.p.last} \ {NoItem} : j \in Held(t)
    BY <1>1 DEF Kept
  <2>2. \A j, k \in Held(t) : ItemClass[j] = ItemClass[k] => j = k
    BY <1>1 DEF Kept
  <2>3. ASSUME NEW j \in Held(t) \cup B
        PROVE  t.i[j].exists
    <3>1. j \in Held(s) \cup B /\ j \in Items /\ j # i
      BY <1>1 DEF Held
    <3> QED
      BY <1>1, <3>1 DEF Kept
  <2>4. Held(t) \cap B = {}
    BY <1>1 DEF Kept
  <2> QED
    BY <2>1, <2>2, <2>3, <2>4 DEF Kept
<1>3. Pending(t)
  <2> SUFFICES ASSUME NEW j \in Items
               PROVE  /\ t.i[j].touch \/ t.i[j].think = "Materialize" => t.i[j].exists
                      /\ t.i[j].think = "CreateThink" => j \in Held(t) /\ Info(j).kind = "melee"
    BY DEF Pending
  <2>1. CASE j = i
    BY <2>1
  <2>2. CASE j # i
    BY <1>1, <2>2 DEF Pending
  <2> QED
    BY <2>1, <2>2
<1>4. Primed(t)
  <2> SUFFICES ASSUME NEW j \in Items, t.i[j].state = "primed"
               PROVE  /\ t.p.active = j /\ HasAmmo(t, j)
                      /\ \A k \in Items : t.i[k].think # "CreateThink"
    BY DEF Primed
  <2>1. s.i[j].state = "primed"
    OBVIOUS
  <2>2. s.p.active = j /\ HasAmmo(s, j) /\ \A k \in Items : s.i[k].think # "CreateThink"
    BY <1>1, <2>1 DEF Primed
  <2>3. HasAmmo(t, j)
    BY <2>2 DEF HasAmmo
  <2>4. t.p.active = j
    BY <2>2, <1>1, ItemFacts
  <2>5. \A k \in Items : t.i[k].think # "CreateThink"
    BY <2>2
  <2> QED
    BY <2>3, <2>4, <2>5
<1> QED
  BY <1>1, <1>2, <1>3, <1>4 DEF Sound

\* What a step leaves of an item that stays where it is.
Alike(x, y) == y.exists = x.exists /\ y.touch = x.touch /\ y.think = x.think

\* Nothing goes and nothing comes.
LEMMA StaySound ==
    ASSUME NEW s, NEW B, Sound(s, B), NEW t \in CarriedState,
           t.p.slots = s.p.slots, t.p.active = s.p.active, t.p.last = s.p.last,
           \A j \in Items : Alike(s.i[j], t.i[j]), Primed(t)
    PROVE  Sound(t, B) /\ Held(t) = Held(s)
<1>1. Held(t) = Held(s)
  BY DEF Held
<1>2. B \subseteq Items /\ Held(s) \subseteq Items
  BY DEF Sound, Held
<1>3. Kept(t, B)
  BY <1>1, <1>2 DEF Sound, Kept, Alike
<1>4. Pending(t)
  BY <1>1 DEF Sound, Pending, Alike
<1> QED
  BY <1>1, <1>3, <1>4 DEF Sound

\* No grenade is primed any more, and nothing else changes.
LEMMA UnprimedIsPrimed ==
    ASSUME NEW t, Unprimed(t)
    PROVE  Primed(t)
  BY DEF Unprimed, Primed

\* What a weapon that is put away loses: a chain, a bit and a think.
Lost(s, t, i) ==
    /\ Held(t) = Held(s) \ {i} /\ t.p.weapons = s.p.weapons \ {ItemClass[i]}
    /\ t.p.active = NoItem
    /\ t.p.last = IF s.p.last = i THEN NoItem ELSE s.p.last
    /\ ~HasAmmo(s, i)
    /\ \/ Info(i).kind = "grenade"
       \/ Info(i).kind = "satchel" /\ s.i[i].state # "ready"
Put(s, t) ==
    /\ Held(t) = Held(s) /\ t.p.weapons = s.p.weapons
    /\ t.p.active = s.p.active /\ t.p.last = s.p.last

\* The rounds of an item stay, unless it goes.
Rounded(x, y) ==
    /\ y.exists = x.exists /\ y.clip = x.clip /\ y.give = x.give
    /\ y.think = x.think \/ y.think = "SUB_Remove"
    /\ y.touch => x.touch

\* An exhausted weapon in hand goes, and with it the bit of its class.
Away(s, i) == DestroyItem([s EXCEPT !.p.weapons = @ \ {ItemClass[i]}], i)

Gone(s, i, t) ==
    /\ t \in CarriedState /\ Same(s, t)
    /\ t.p.weapons = s.p.weapons \ {ItemClass[i]}
    /\ t.p.active = NoItem
    /\ t.p.last = IF s.p.last = i THEN NoItem ELSE s.p.last
    /\ Chained(t.p.slots)
    /\ Held(t) = Held(s) \ {i}
    /\ t.i[i] = [s.i[i] EXCEPT !.touch = FALSE, !.think = "SUB_Remove"]
    /\ \A j \in Items : j # i => t.i[j] = s.i[j]

LEMMA AwayFields ==
    ASSUME NEW s, NEW B, Sound(s, B), NEW i \in Items, s.p.active = i
    PROVE  Gone(s, i, Away(s, i))
<1> DEFINE a == [s EXCEPT !.p.weapons = @ \ {ItemClass[i]}]
           t == DestroyItem(a, i)
<1>1. s \in CarriedState /\ ItemsKnown /\ Chained(s.p.slots)
  BY DEF Sound
<1>2. /\ a \in CarriedState /\ Same(s, a) /\ a.i = s.i
      /\ a.p.weapons = s.p.weapons \ {ItemClass[i]}
      /\ a.p.active = s.p.active /\ a.p.last = s.p.last /\ a.p.slots = s.p.slots
  BY <1>1 DEF CarriedState, PlayerType, Same
<1> HIDE DEF a
<1>3. /\ t \in CarriedState /\ Same(a, t)
      /\ t.p.weapons = a.p.weapons
      /\ t.p.active = IF a.p.active = i THEN NoItem ELSE a.p.active
      /\ t.p.last = IF a.p.last = i THEN NoItem ELSE a.p.last
      /\ Chained(t.p.slots)
      /\ Held(t) = Held(a) \ {i}
      /\ t.i[i] = [a.i[i] EXCEPT !.touch = FALSE, !.think = "SUB_Remove"]
      /\ \A j \in Items : j # i => t.i[j] = a.i[j]
  BY <1>1, <1>2, DestroyItemFields
<1> HIDE DEF t
<1>4. Held(a) = Held(s)
  BY <1>2 DEF Held
<1>5. Same(s, t)
  BY <1>2, <1>3 DEF Same
<1> QED
  BY <1>2, <1>3, <1>4, <1>5 DEF t, a, Away, Gone

\* One field of one item.
LEMMA StateFields ==
    ASSUME NEW s \in CarriedState, NEW i \in Items, NEW x \in States(i)
    PROVE  LET t == [s EXCEPT !.i[i].state = x]
           IN  /\ t \in CarriedState /\ t.p = s.p /\ Same(s, t)
               /\ t.i[i] = [s.i[i] EXCEPT !.state = x]
               /\ \A j \in Items : j # i => t.i[j] = s.i[j]
<1> DEFINE r == [s.i[i] EXCEPT !.state = x]
           f == [s.i EXCEPT ![i] = r]
<1>1. s.i \in ItemsType /\ r \in ItemType(i)
  BY ItemOf DEF ItemType
<1>2. f \in ItemsType /\ f[i] = r /\ \A j \in Items : j # i => f[j] = s.i[j]
  BY <1>1, ItemSet
<1> HIDE DEF r, f
<1>3. [s EXCEPT !.i = f] \in CarriedState /\ Same(s, [s EXCEPT !.i = f])
      /\ [s EXCEPT !.i = f].i = f /\ [s EXCEPT !.i = f].p = s.p
  BY <1>2 DEF CarriedState, Same
<1> QED
  BY <1>2, <1>3 DEF f, r

LEMMA ReloadFields ==
    ASSUME NEW s \in CarriedState, NEW i \in Items, Info(i).kind = "gun", NEW x \in BOOLEAN
    PROVE  LET t == [s EXCEPT !.i[i].reload = x]
           IN  /\ t \in CarriedState /\ t.p = s.p /\ Same(s, t)
               /\ t.i[i] = [s.i[i] EXCEPT !.reload = x]
               /\ \A j \in Items : j # i => t.i[j] = s.i[j]
<1> DEFINE r == [s.i[i] EXCEPT !.reload = x]
           f == [s.i EXCEPT ![i] = r]
<1>1. s.i \in ItemsType /\ r \in ItemType(i)
  BY ItemOf DEF ItemType
<1>2. f \in ItemsType /\ f[i] = r /\ \A j \in Items : j # i => f[j] = s.i[j]
  BY <1>1, ItemSet
<1> HIDE DEF r, f
<1>3. [s EXCEPT !.i = f] \in CarriedState /\ Same(s, [s EXCEPT !.i = f])
      /\ [s EXCEPT !.i = f].i = f /\ [s EXCEPT !.i = f].p = s.p
  BY <1>2 DEF CarriedState, Same
<1> QED
  BY <1>2, <1>3 DEF f, r

\* The weapon in hand is put away.
Holstered(s, B, i, t) ==
    /\ Sound(t, B) /\ Same(s, t) /\ Unprimed(t)
    /\ Put(s, t) \/ Lost(s, t, i)
    /\ \A j \in Held(t) \cup B : Alike(s.i[j], t.i[j])
    /\ \A j \in Items : j # i => t.i[j] = s.i[j]
    /\ Rounded(s.i[i], t.i[i])

LEMMA HolsterSound ==
    ASSUME NEW s, NEW B, Sound(s, B), NEW i \in Items, s.p.active = i
    PROVE  Holstered(s, B, i, Holster(s, i))
<1> DEFINE t == Holster(s, i)
           away == Away(s, i)
           empty == s.p.ammo[Info(i).ammo] = 0
<1>1. /\ s \in CarriedState /\ ItemsKnown /\ Chained(s.p.slots) /\ Kept(s, B) /\ Pending(s)
      /\ Primed(s) /\ s.i[i] \in ItemType(i) /\ i # NoItem /\ i \notin B
      /\ \A x : Held(x) \subseteq Items
  BY ItemOf, ItemFacts DEF Sound, Kept, Held
<1>2. /\ away \in CarriedState /\ Same(s, away)
      /\ away.p.weapons = s.p.weapons \ {ItemClass[i]}
      /\ away.p.active = NoItem
      /\ away.p.last = IF s.p.last = i THEN NoItem ELSE s.p.last
      /\ Chained(away.p.slots)
      /\ Held(away) = Held(s) \ {i}
      /\ away.i[i] = [s.i[i] EXCEPT !.touch = FALSE, !.think = "SUB_Remove"]
      /\ \A j \in Items : j # i => away.i[j] = s.i[j]
  <2>1. Gone(s, i, Away(s, i))
    BY AwayFields
  <2> QED
    BY <2>1 DEF Gone
<1>3. \A j \in Items : j # i => s.i[j].state # "primed"
  BY <1>1 DEF Primed
<1>4. empty => ~HasAmmo(s, i)
  BY DEF HasAmmo
<1> HIDE DEF away, empty
<1>5. CASE Info(i).kind = "melee"
  <2>1. t = s
    BY <1>5 DEF Holster
  <2>2. Unprimed(s)
    BY <1>1, <1>3, <1>5 DEF Unprimed, ItemType, States
  <2> HIDE DEF t
  <2> QED
    BY <2>1, <2>2 DEF Holstered, Same, Put, Rounded, Alike, t
<1>6. CASE Info(i).kind = "gun"
  <2>1. t = [s EXCEPT !.i[i].reload = FALSE]
    BY <1>6 DEF Holster
  <2> HIDE DEF t
  <2>2. /\ t \in CarriedState /\ t.p = s.p /\ Same(s, t)
        /\ t.i[i] = [s.i[i] EXCEPT !.reload = FALSE]
        /\ \A j \in Items : j # i => t.i[j] = s.i[j]
    <3>1. FALSE \in BOOLEAN /\ s \in CarriedState
      BY <1>1
    <3> QED
      BY ZenonT(60), <1>6, <2>1, <3>1, ReloadFields
  <2>3. Unprimed(t)
    BY <1>1, <1>3, <1>6, <2>2 DEF Unprimed, ItemType, States
  <2>4. \A j \in Items : Alike(s.i[j], t.i[j]) 
    BY ZenonT(60), <1>1, <2>2 DEF Alike, ItemType
  <2>5. Rounded(s.i[i], t.i[i])
    BY <1>1, <2>2 DEF Rounded, ItemType
  <2>6. Sound(t, B) /\ Held(t) = Held(s)
    BY <2>2, <2>3, <2>4, StaySound, UnprimedIsPrimed
  <2> QED
    BY <1>1, <2>2, <2>3, <2>4, <2>5, <2>6 DEF Holstered, Put, Sound, t
<1>7. CASE Info(i).kind = "grenade"
  <2> DEFINE u == IF empty THEN away ELSE s
  <2>1. t = [u EXCEPT !.i[i].state = "idle"]
    BY <1>7 DEF Holster, away, Away, empty
  <2>2. u \in CarriedState /\ "idle" \in States(i)
    BY <1>1, <1>2, <1>7 DEF States
  <2> HIDE DEF u
  <2>3. /\ t \in CarriedState /\ t.p = u.p /\ Same(u, t)
        /\ t.i[i] = [u.i[i] EXCEPT !.state = "idle"]
        /\ \A j \in Items : j # i => t.i[j] = u.i[j]
    BY <2>1, <2>2, StateFields
  <2> HIDE DEF t
  <2>4. CASE empty
    <3>1. u = away
      BY <2>4 DEF u
    <3>2. /\ Same(s, t) /\ Chained(t.p.slots) /\ Held(t) = Held(s) \ {i}
          /\ \A j \in Items : j # i => t.i[j] = s.i[j]
          /\ t \in CarriedState
          /\ t.p.active = NoItem
          /\ t.p.last = IF s.p.last = i THEN NoItem ELSE s.p.last
          /\ t.p.weapons = s.p.weapons \ {ItemClass[i]}
      BY <1>2, <2>3, <3>1 DEF Same, Held
    <3>3. t.i[i] = [s.i[i] EXCEPT !.touch = FALSE, !.think = "SUB_Remove", !.state = "idle"]
      BY <1>1, <1>2, <2>3, <3>1 DEF ItemType
    <3>4. t.i[i].exists = s.i[i].exists /\ ~t.i[i].touch /\ t.i[i].think = "SUB_Remove"
          /\ t.i[i].state = "idle" /\ Rounded(s.i[i], t.i[i])
      BY <1>1, <3>3 DEF ItemType, Rounded
    <3>5. Unprimed(t)
      BY <1>3, <3>2, <3>4 DEF Unprimed
    <3>6. t.p.ammo = s.p.ammo
      BY <3>2 DEF Same
    <3>7. Sound(t, B)
      BY <1>1, <3>2, <3>4, <3>6, LeaveSound
    <3>8. Lost(s, t, i)
      BY <1>4, <1>7, <2>4, <3>2 DEF Lost
    <3>9. \A j \in Held(t) \cup B : j \in Items /\ j # i
      BY <1>1, <3>2 DEF Held, Sound
    <3>10. \A j \in Held(t) \cup B : Alike(s.i[j], t.i[j])
      BY <3>2, <3>9 DEF Alike
    <3> QED
      BY <3>2, <3>4, <3>5, <3>7, <3>8, <3>10 DEF Holstered, t
  <2>5. CASE ~empty
    <3>1. u = s
      BY <2>5 DEF u
    <3>0. t.i[i] = [s.i[i] EXCEPT !.state = "idle"] /\ \A j \in Items : j # i => t.i[j] = s.i[j]
      BY <2>3, <3>1
    <3>2. \A j \in Items : Alike(s.i[j], t.i[j])
      BY ZenonT(60), <1>1, <3>0 DEF Alike, ItemType
    <3>3. Rounded(s.i[i], t.i[i]) /\ t.i[i].state = "idle"
      BY <1>1, <3>0 DEF Rounded, ItemType
    <3>4. Unprimed(t)
      BY <1>3, <2>3, <3>1, <3>3 DEF Unprimed
    <3>5. Sound(t, B) /\ Held(t) = Held(s)
      BY <2>3, <3>1, <3>2, <3>4, StaySound, UnprimedIsPrimed
    <3> QED
      BY <1>1, <2>3, <3>1, <3>2, <3>3, <3>4, <3>5 DEF Holstered, Put, Sound, t
  <2> QED
    BY <2>4, <2>5
<1>8. CASE Info(i).kind = "satchel"
  <2>1. Unprimed(s)
    BY <1>1, <1>3, <1>8 DEF Unprimed, ItemType, States
  <2>2. CASE empty /\ s.i[i].state # "ready"
    <3>1. t = away
      BY <1>8, <2>2 DEF Holster, away, Away, empty
    <3> HIDE DEF t
    <3>2. t.i[i].exists = s.i[i].exists /\ ~t.i[i].touch /\ t.i[i].think = "SUB_Remove"
          /\ t.i[i].state = s.i[i].state /\ Rounded(s.i[i], t.i[i])
      BY <1>1, <1>2, <3>1 DEF ItemType, Rounded
    <3>3. Unprimed(t)
      BY <2>1, <1>2, <3>1, <3>2 DEF Unprimed
    <3>4. t.p.ammo = s.p.ammo
      BY <1>2, <3>1 DEF Same
    <3>5. s.i[i].state # "primed"
      BY <2>1 DEF Unprimed
    <3>6. Sound(t, B)
      BY <1>1, <1>2, <3>1, <3>2, <3>4, <3>5, LeaveSound
    <3>7. \A j \in Held(t) \cup B : j \in Items /\ j # i
      BY <1>1, <1>2, <3>1 DEF Held, Sound
    <3>8. \A j \in Held(t) \cup B : Alike(s.i[j], t.i[j])
      BY <1>2, <3>1, <3>7 DEF Alike
    <3> QED
      BY <1>2, <1>4, <1>8, <2>2, <3>1, <3>2, <3>3, <3>6, <3>8 DEF Holstered, Lost, t
  <2>3. CASE ~(empty /\ s.i[i].state # "ready")
    <3>1. t = s
      BY <1>8, <2>3 DEF Holster, empty
    <3> HIDE DEF t
    <3> QED
      BY <2>1, <3>1 DEF Holstered, Same, Put, Rounded, Alike, t
  <2> QED
    BY <2>2, <2>3
<1> QED
  BY <1>1, <1>5, <1>6, <1>7, <1>8, ItemFacts
-----------------------------------------------------------------------------
(* Changing weapons *)

\* What may go when weapons change hands: weapons, and with them their bits.
Trim(s, t) ==
    /\ Held(t) \subseteq Held(s)
    /\ t.p.weapons = s.p.weapons \ {ItemClass[i] : i \in Held(s) \ Held(t)}
Handled(s, B, t) ==
    /\ Sound(t, B) /\ Same(s, t) /\ Unprimed(t) /\ Trim(s, t)
    /\ \A j \in Items : Rounded(s.i[j], t.i[j])
    /\ \A j \in Held(t) \cup B : Alike(s.i[j], t.i[j])

Hud(s) == s.p.weapons = {ItemClass[i] : i \in Held(s)}

LEMMA TrimHud ==
    ASSUME NEW s, NEW B, Sound(s, B), Hud(s), NEW t, Trim(s, t)
    PROVE  Hud(t)
  BY DEF Sound, Kept, Hud, Trim

LEMMA HolsteredHandled ==
    ASSUME NEW s, NEW B, Sound(s, B), NEW i \in Items, s.p.active = i, NEW t, Holstered(s, B, i, t)
    PROVE  Handled(s, B, t)
<1>1. Held(s) \subseteq Items /\ i \in Held(s)
  BY ItemFacts DEF Held, Sound, Kept
<1>2. Trim(s, t)
  <2>1. CASE Put(s, t)
    BY <2>1 DEF Put, Trim
  <2>2. CASE Lost(s, t, i)
    <3>1. Held(s) \ Held(t) = {i}
      BY <1>1, <2>2 DEF Lost
    <3> QED
      BY <2>2, <3>1 DEF Lost, Trim
  <2> QED
    BY <2>1, <2>2 DEF Holstered
<1>3. \A j \in Items : Rounded(s.i[j], t.i[j])
  BY DEF Holstered, Rounded
<1> QED
  BY <1>2, <1>3 DEF Holstered, Handled

LEMMA HolsterActiveHandled ==
    ASSUME NEW s, NEW B, Sound(s, B)
    PROVE  LET t == HolsterActive(s)
           IN  /\ Handled(s, B, t)
               /\ t.p.active \in {s.p.active, NoItem}
               /\ \A j \in Items : j # s.p.active => t.i[j] = s.i[j]
               /\ \A j \in Held(s) : j \notin Held(t) =>
                     /\ j = s.p.active /\ ~HasAmmo(s, j)
                     /\ Info(j).kind \in {"grenade", "satchel"}
<1> DEFINE t == HolsterActive(s)
           i == s.p.active
<1>1. s \in CarriedState /\ i \in Items \cup {NoItem} /\ ItemsKnown
  BY DEF Sound, CarriedState, PlayerType
<1>2. CASE i = NoItem
  <2>1. t = s
    BY <1>2 DEF HolsterActive
  <2>2. Unprimed(s)
    BY <1>1, <1>2, ItemFacts DEF Sound, Primed, Unprimed
  <2>3. Trim(s, s) /\ Same(s, s) /\ \A j : Rounded(s.i[j], s.i[j]) /\ Alike(s.i[j], s.i[j])
    BY DEF Trim, Same, Rounded, Alike
  <2> HIDE DEF t
  <2> QED
    BY <1>1, <2>1, <2>2, <2>3 DEF Handled, t
<1>3. CASE i \in Items
  <2>1. t = Holster(s, i)
    BY <1>1, <1>3, ItemFacts DEF HolsterActive
  <2>2. Holstered(s, B, i, Holster(s, i))
    BY <1>3, HolsterSound
  <2>3. Handled(s, B, Holster(s, i))
    BY <1>3, <2>2, HolsteredHandled
  <2>4. Put(s, Holster(s, i)) \/ Lost(s, Holster(s, i), i)
    BY <2>2 DEF Holstered
  <2>5. \A j \in Items : j # i => Holster(s, i).i[j] = s.i[j]
    BY <2>2 DEF Holstered
  <2> HIDE DEF t, i
  <2>6. \A j \in Held(s) : j \notin Held(t) =>
           j = i /\ ~HasAmmo(s, j) /\ Info(j).kind \in {"grenade", "satchel"}
    BY <2>1, <2>4 DEF Put, Lost
  <2>7. t.p.active \in {i, NoItem}
    BY <2>1, <2>4 DEF Put, Lost, i
  <2> QED
    BY <2>1, <2>3, <2>5, <2>6, <2>7 DEF t, i
<1> QED
  BY <1>1, <1>2, <1>3

\* The hand takes a weapon that is carried.
Chosen(s, B, i, j, t) ==
    /\ Sound(t, B) /\ Unprimed(t) /\ Held(t) = Held(s) /\ Same(s, t) /\ t.i = s.i
    /\ t.p.weapons = s.p.weapons /\ t.p.active = i /\ t.p.last = j

LEMMA ActiveFields ==
    ASSUME NEW s, NEW B, Sound(s, B), Unprimed(s), NEW i \in Held(s) \cup {NoItem},
           NEW j \in Held(s) \cup {NoItem}
    PROVE  Chosen(s, B, i, j, [s EXCEPT !.p.active = i, !.p.last = j])
<1> DEFINE t == [s EXCEPT !.p.active = i, !.p.last = j]
<1>1. s \in CarriedState /\ Held(s) \subseteq Items
  BY DEF Sound, Held
<1>2. /\ t \in CarriedState /\ Same(s, t) /\ t.i = s.i /\ t.p.slots = s.p.slots
      /\ t.p.weapons = s.p.weapons /\ t.p.active = i /\ t.p.last = j
  BY <1>1 DEF CarriedState, PlayerType, Same
<1> HIDE DEF t
<1>3. Held(t) = Held(s)
  BY <1>2 DEF Held
<1>4. Unprimed(t)
  BY <1>2 DEF Unprimed
<1>5. Kept(t, B)
  BY <1>2, <1>3 DEF Sound, Kept
<1>6. Pending(t)
  BY <1>2, <1>3 DEF Sound, Pending
<1>7. Sound(t, B)
  BY <1>2, <1>4, <1>5, <1>6, UnprimedIsPrimed DEF Sound
<1> QED
  BY <1>2, <1>3, <1>4, <1>7 DEF t, Chosen

\* A weapon that can be deployed does not destroy itself, if it is no satchel.
LEMMA DeployedStays ==
    ASSUME NEW s, NEW B, Sound(s, B), NEW i \in Held(s), CanDeploy(s, i),
           Info(i).kind # "satchel" \/ s.p.active # i
    PROVE  i \in Held(HolsterActive(s))
<1> SUFFICES ASSUME i \notin Held(HolsterActive(s)) PROVE FALSE
  OBVIOUS
<1>1. s.p.active = i /\ ~HasAmmo(s, i) /\ Info(i).kind \in {"grenade", "satchel"}
  BY HolsterActiveHandled
<1>2. Info(i).kind = "grenade" /\ i \in Items /\ s \in CarriedState /\ ItemsKnown
  BY <1>1 DEF Held, Sound
<1>3. s.i[i].clip > 0
  BY <1>1, <1>2 DEF CanDeploy
<1>4. s.i[i].clip \in {NoClip, 0}
  BY <1>2, ItemOf DEF ItemType, Clips
<1> QED
  BY <1>3, <1>4 DEF NoClip

LEMMA SwitchWeaponHandled ==
    ASSUME NEW s, NEW B, Sound(s, B), NEW i \in Held(s), CanDeploy(s, i),
           Info(i).kind # "satchel" \/ s.p.active # i
    PROVE  LET t == SwitchWeapon(s, i)
           IN  Handled(s, B, t) /\ t.p.active = i /\ i \in Held(t)
<1> DEFINE h == HolsterActive(s)
           t == [h EXCEPT !.p.active = i, !.p.last = h.p.last]
<1>1. Handled(s, B, h) /\ i \in Held(h)
  BY HolsterActiveHandled, DeployedStays
<1>2. h \in CarriedState /\ h.p.last \in Held(h) \cup {NoItem}
  BY <1>1 DEF Handled, Sound, Kept, CarriedState, PlayerType
<1> HIDE DEF h
<1>3. SwitchWeapon(s, i) = t
  BY <1>2 DEF SwitchWeapon, h, CarriedState, PlayerType
<1>4. Chosen(h, B, i, h.p.last, t)
  <2>1. Sound(h, B) /\ Unprimed(h) /\ i \in Held(h) \cup {NoItem}
    BY <1>1 DEF Handled
  <2> QED
    BY <1>2, <2>1, ActiveFields
<1> HIDE DEF t
<1>5. Handled(s, B, t)
  BY <1>1, <1>4 DEF Handled, Same, Trim, Chosen
<1> QED
  BY <1>1, <1>3, <1>4, <1>5 DEF Chosen
-----------------------------------------------------------------------------
(* The next best weapon *)

\* A sequence of the items of chains, each once.
InSequence(chain, q) ==
    q \in Seq(Items) /\ Once(q) /\ \A i \in Items : Occurs(q, i) <=> Holds(chain, i)

LEMMA InOrderFacts ==
    ASSUME ItemsKnown, NEW chain \in ChainType, Chained(chain)
    PROVE  InSequence(chain, InOrder(chain))
<1> DEFINE step == [k \in 1..Slots |-> [q \in Seq(Items) |-> q \o chain[k]]]
           Is(f) == f = [k \in 0..Slots |-> IF k = 0 THEN <<>> ELSE f[k - 1] \o chain[k]]
           upTo == CHOOSE f : Is(f)
           Part(k, q) == /\ q \in Seq(Items) /\ Once(q)
                         /\ \A i \in Items : Occurs(q, i) <=> \E l \in 1..k : i \in ToSet(chain[l])
           good == {k \in 0..Slots : Part(k, upTo[k])}
<1>1. Slots \in Nat /\ \A k \in 1..Slots : chain[k] \in Seq(Items)
  BY WeaponsAssumption DEF ChainType
<1>2. InOrder(chain) = upTo[Slots]
  BY DEF InOrder
<1>3. step \in [1..Slots -> [Seq(Items) -> Seq(Items)]]
  BY <1>1
<1>4. <<>> \in Seq(Items)
  OBVIOUS
<1>5. PICK f : Solves(f, Slots, Seq(Items), <<>>, step)
  <2> HIDE DEF step
  <2> QED
    BY <1>1, <1>3, <1>4, RecursionExists
<1>6. Is(f)
  <2>1. /\ f \in [0..Slots -> Seq(Items)] /\ f[0] = <<>>
        /\ \A k \in 1..Slots : f[k] = step[k][f[k - 1]]
    BY <1>5 DEF Solves
  <2>2. ASSUME NEW k \in 1..Slots PROVE f[k] = f[k - 1] \o chain[k]
    <3>1. f[k - 1] \in Seq(Items)
      BY <1>1, <2>1
    <3> QED
      BY <2>1, <3>1
  <2>3. ASSUME NEW k \in 0..Slots PROVE f[k] = IF k = 0 THEN <<>> ELSE f[k - 1] \o chain[k]
    <3>1. k = 0 \/ k \in 1..Slots
      BY <1>1
    <3> QED
      BY <1>1, <2>1, <2>2, <3>1
  <2>4. f = [k \in 0..Slots |-> f[k]]
    BY <2>1
  <2> QED
    BY <2>3, <2>4
<1>7. Is(upTo)
  BY <1>6
<1> HIDE DEF upTo, step
<1>8. upTo[0] = <<>> /\ \A k \in 1..Slots : upTo[k] = upTo[k - 1] \o chain[k]
  <2>1. \A k \in 0..Slots : upTo[k] = IF k = 0 THEN <<>> ELSE upTo[k - 1] \o chain[k]
    BY <1>7
  <2>2. 0 \in 0..Slots /\ \A k \in 1..Slots : k \in 0..Slots /\ k # 0
    BY <1>1
  <2> QED
    BY <2>1, <2>2
<1>9. 0 \in good
  <2>1. 0 \in 0..Slots
    BY <1>1
  <2>2. <<>> \in Seq(Items) /\ Once(<<>>) /\ \A i \in Items : ~Occurs(<<>>, i)
    BY DEF Once, Occurs
  <2>3. \A i \in Items : ~\E l \in 1..0 : i \in ToSet(chain[l])
    OBVIOUS
  <2> QED
    BY <1>8, <2>1, <2>2, <2>3
<1>10. ASSUME NEW k \in 1..Slots, k - 1 \in good PROVE k \in good
  <2> DEFINE q == upTo[k - 1]
             c == chain[k]
  <2>1. Part(k - 1, q)
    BY <1>10
  <2>2. c \in Seq(Items) /\ Once(c)
    BY <1>1 DEF Chained, Once
  <2>3. \A l \in 1..Slots : \A i \in Items : i \in ToSet(chain[l]) => Slot(i) = l
    BY DEF Chained, ToSet
  <2>4. \A i \in Items : Occurs(c, i) <=> i \in ToSet(c)
    BY DEF Occurs, ToSet
  <2>5. \A l \in 1..k - 1 : l \in 1..Slots /\ l # k
    BY <1>1
  <2>6. \A i \in Items : ~(Occurs(q, i) /\ Occurs(c, i))
    BY <2>1, <2>3, <2>4, <2>5
  <2>7. upTo[k] = q \o c
    BY <1>8
  <2> HIDE DEF q, c
  <2>8. /\ q \o c \in Seq(Items) /\ Once(q \o c)
        /\ \A i \in Items : Occurs(q \o c, i) <=> Occurs(q, i) \/ Occurs(c, i)
    BY <2>1, <2>2, <2>6, ConcatFacts
  <2>9. \A l : l \in 1..k <=> l \in 1..k - 1 \/ l = k
    BY <1>1
  <2>10. \A i \in Items : Occurs(q \o c, i) <=> \E l \in 1..k : i \in ToSet(chain[l])
    BY <2>1, <2>4, <2>8, <2>9 DEF c
  <2>11. k \in 0..Slots
    BY <1>1
  <2> QED
    BY <2>7, <2>8, <2>10, <2>11
<1>11. Slots \in good
  <2>1. Slots \in 0..Slots
    BY <1>1
  <2> HIDE DEF good
  <2> QED
    BY <1>1, <1>9, <1>10, <2>1, Induct
<1> QED
  BY <1>2, <1>11 DEF InSequence, Holds

LEMMA NextBestFacts ==
    ASSUME NEW s, NEW B, Sound(s, B), NEW cur \in Items, Candidates(s, cur) # {}
    PROVE  NextBest(s, cur) \in Candidates(s, cur)
<1> DEFINE could == Candidates(s, cur)
           best == Preferred(s, cur)
           q == Carried(s)
           T == {n \in DOMAIN q : q[n] \in could}
           v == [n \in 1 .. Len(q) |-> Info(q[n]).weight]
           U == {n \in DOMAIN q : q[n] \in best}
<1>1. s.p.slots \in ChainType /\ Chained(s.p.slots) /\ ItemsKnown
  BY DEF Sound, CarriedState, PlayerType
<1>2. InSequence(s.p.slots, q)
  BY <1>1, InOrderFacts DEF Carried
<1>3. could \subseteq Items /\ could # {} /\ \A i \in could : Holds(s.p.slots, i)
  BY DEF Candidates
<1> HIDE DEF q
<1>4. /\ Len(q) \in Nat /\ DOMAIN q = 1 .. Len(q) /\ \A n \in DOMAIN q : q[n] \in Items
      /\ \A i \in could : \E n \in DOMAIN q : q[n] = i
  BY <1>2, <1>3 DEF InSequence, Occurs
<1>5. best \subseteq could /\ best # {}
  <2> DEFINE same == {i \in could : Info(i).weight = Info(cur).weight}
  <2>1. best = IF same # {} THEN same
               ELSE {i \in could : \A j \in could : Info(j).weight <= Info(i).weight}
    BY DEF Preferred
  <2>2. CASE same # {}
    BY <2>1, <2>2
  <2>3. CASE same = {}
    <3>1. v \in [1 .. Len(q) -> Int]
      BY <1>1, <1>4, ItemFacts
    <3>2. T \in SUBSET (1 .. Len(q)) /\ T # {}
      BY <1>3, <1>4
    <3> HIDE DEF T
    <3>3. PICK n \in T : \A m \in T : v[m] <= v[n]
      <4> HIDE DEF v
      <4> QED
        BY <1>4, <3>1, <3>2, LargestOf
    <3>4. q[n] \in could
      BY <3>3 DEF T
    <3>5. ASSUME NEW j \in could PROVE Info(j).weight <= Info(q[n]).weight
      <4>1. PICK m \in DOMAIN q : q[m] = j
        BY <1>4
      <4>2. m \in T
        BY <4>1 DEF T
      <4>3. v[m] = Info(j).weight /\ v[n] = Info(q[n]).weight
        BY <1>4, <3>2, <4>1
      <4> QED
        BY <3>3, <4>2, <4>3
    <3> HIDE DEF could, v
    <3> QED
      BY <2>1, <2>3, <3>4, <3>5
  <2> QED
    BY <2>2, <2>3
<1> HIDE DEF best, could
<1>6. U \in SUBSET Nat /\ U # {}
  BY <1>4, <1>5
<1>7. NextBest(s, cur) = q[Min(U)]
  BY DEF NextBest, q, best
<1> HIDE DEF U
<1>8. Min(U) \in U
  BY <1>6, MinInSet
<1> QED
  BY <1>5, <1>7, <1>8 DEF U, could

\* The hand takes another weapon.
Changed(s, B, cur, t) ==
    Handled(s, B, t) /\ t.p.active \in Held(t) /\ t.p.active # cur

LEMMA NextBestHandled ==
    ASSUME NEW s, NEW B, Sound(s, B), NEW cur \in Items
    PROVE  LET next == GetNextBestWeapon(s, cur)
           IN  IF next.ok THEN Changed(s, B, cur, next.s) ELSE next.s = s
<1>1. CASE ~CanHolster(s, cur) \/ Candidates(s, cur) = {}
  BY <1>1 DEF GetNextBestWeapon
<1>2. CASE ~(~CanHolster(s, cur) \/ Candidates(s, cur) = {})
  <2> DEFINE i == NextBest(s, cur)
  <2>1. i \in Candidates(s, cur)
    BY <1>2, NextBestFacts
  <2> HIDE DEF i
  <2>2. i \in Items /\ i \in Held(s) /\ i # cur /\ CanDeploy(s, i) /\ Info(i).weight > -1
    BY <2>1 DEF Candidates, Held
  <2>3. Info(i).kind # "satchel"
    BY <2>2, ItemFacts DEF Sound
  <2>4. Handled(s, B, SwitchWeapon(s, i)) /\ SwitchWeapon(s, i).p.active = i
        /\ i \in Held(SwitchWeapon(s, i))
    BY <2>2, <2>3, SwitchWeaponHandled
  <2>5. GetNextBestWeapon(s, cur) = [ok |-> TRUE, s |-> SwitchWeapon(s, i)]
    BY <1>2 DEF GetNextBestWeapon, i
  <2> QED
    BY <2>2, <2>4, <2>5 DEF Changed
<1> QED
  BY <1>1, <1>2

LEMMA RetireWeaponHandled ==
    ASSUME NEW s, NEW B, Sound(s, B), Unprimed(s), NEW i \in Items
    PROVE  Handled(s, B, RetireWeapon(s, i))
<1> DEFINE next == GetNextBestWeapon(s, i)
<1>1. IF next.ok THEN Changed(s, B, i, next.s) ELSE next.s = s
  BY NextBestHandled
<1> HIDE DEF next
<1>2. CASE next.ok
  BY <1>1, <1>2 DEF RetireWeapon, Changed, next
<1>3. CASE ~next.ok /\ s.p.active = i
  <2> DEFINE h == Holster(s, i)
             t == [h EXCEPT !.p.active = NoItem, !.p.last = NoItem]
  <2>1. Handled(s, B, h)
    BY <1>3, HolsterSound, HolsteredHandled
  <2>2. RetireWeapon(s, i) = [h EXCEPT !.p.last = NoItem, !.p.active = NoItem]
    BY <1>3 DEF RetireWeapon, next
  <2> HIDE DEF h
  <2>3. h \in CarriedState /\ Sound(h, B) /\ Unprimed(h)
    BY <2>1 DEF Handled, Sound
  <2>4. RetireWeapon(s, i) = t
    BY <2>2, <2>3 DEF CarriedState, PlayerType
  <2>5. Chosen(h, B, NoItem, NoItem, t)
    <3>1. NoItem \in Held(h) \cup {NoItem}
      OBVIOUS
    <3> QED
      BY <2>3, <3>1, ActiveFields
  <2> HIDE DEF t
  <2> QED
    BY <2>1, <2>4, <2>5 DEF Handled, Chosen, Same, Trim
<1>4. CASE ~next.ok /\ s.p.active # i
  <2>1. RetireWeapon(s, i) = s
    BY <1>4 DEF RetireWeapon, next
  <2> QED
    BY <2>1 DEF Handled, Same, Trim, Rounded, Alike
<1> QED
  BY <1>2, <1>3, <1>4
-----------------------------------------------------------------------------
(* Ammunition *)

\* A step that gives a player ammunition out of an item.
Fed(s, t) ==
    /\ t \in CarriedState /\ t.b = s.b /\ t.full = s.full
    /\ t.p.slots = s.p.slots /\ t.p.active = s.p.active /\ t.p.last = s.p.last
    /\ t.p.weapons = s.p.weapons /\ t.p.dead = s.p.dead /\ t.p.crashed = s.p.crashed
    /\ \A a \in AmmoTypes : s.p.ammo[a] <= t.p.ammo[a]
    /\ \A j \in Items : Alike(s.i[j], t.i[j]) /\ t.i[j].state = s.i[j].state

LEMMA AmmoSet ==
    ASSUME NEW f \in AmmoType, NEW c \in Classes, WeaponInfo[c].ammo # "none",
           NEW n \in 0..WeaponInfo[c].max
    PROVE  /\ [f EXCEPT ![WeaponInfo[c].ammo] = n] \in AmmoType
           /\ [f EXCEPT ![WeaponInfo[c].ammo] = n][WeaponInfo[c].ammo] = n
           /\ \A a \in AmmoTypes : a # WeaponInfo[c].ammo =>
                 [f EXCEPT ![WeaponInfo[c].ammo] = n][a] = f[a]
<1> DEFINE a == WeaponInfo[c].ammo
           g == [f EXCEPT ![a] = n]
<1>1. a \in AmmoTypes /\ n \in Nat /\ f \in [AmmoTypes -> Nat]
  BY WeaponsAssumption DEF AmmoTypes, AmmoType
<1>2. g \in [AmmoTypes -> Nat] /\ g[a] = n /\ \A b \in AmmoTypes : b # a => g[b] = f[b]
  BY <1>1
<1> HIDE DEF g
<1>3. ASSUME SharedMax PROVE Within(g)
  <2> SUFFICES ASSUME NEW d \in Classes, WeaponInfo[d].ammo # "none"
               PROVE  g[WeaponInfo[d].ammo] <= WeaponInfo[d].max
    BY DEF Within
  <2>1. WeaponInfo[d].ammo \in AmmoTypes
    BY DEF AmmoTypes
  <2>2. CASE WeaponInfo[d].ammo = a
    <3>1. WeaponInfo[d].max = WeaponInfo[c].max /\ WeaponInfo[c].max \in Nat
      BY <1>3, <2>2, WeaponsAssumption DEF SharedMax
    <3> QED
      BY <1>2, <2>2, <3>1
  <2>3. CASE WeaponInfo[d].ammo # a
    BY <1>2, <1>3, <2>1, <2>3 DEF AmmoType, Within
  <2> QED
    BY <2>2, <2>3
<1> QED
  BY <1>2, <1>3 DEF AmmoType, g

LEMMA AmmoOf ==
    ASSUME NEW s \in CarriedState, NEW a \in AmmoTypes
    PROVE  /\ s.p.ammo \in AmmoType /\ s.p.ammo[a] \in Nat
           /\ s.b.ammo \in AmmoType /\ s.b.ammo[a] \in Nat
  BY DEF CarriedState, PlayerType, BoxType, AmmoType

LEMMA FedSelf ==
    ASSUME NEW s \in CarriedState
    PROVE  Fed(s, s)
  BY AmmoOf DEF Fed, Alike

LEMMA FedTwice ==
    ASSUME NEW s \in CarriedState, NEW t, Fed(s, t), NEW u, Fed(t, u)
    PROVE  Fed(s, u)
<1>1. t \in CarriedState /\ u \in CarriedState
  BY DEF Fed
<1>2. \A a \in AmmoTypes : s.p.ammo[a] <= u.p.ammo[a]
  <2> TAKE a \in AmmoTypes
  <2>1. s.p.ammo[a] \in Nat /\ t.p.ammo[a] \in Nat /\ u.p.ammo[a] \in Nat
    BY <1>1, AmmoOf
  <2>2. s.p.ammo[a] <= t.p.ammo[a] /\ t.p.ammo[a] <= u.p.ammo[a]
    BY DEF Fed
  <2> QED
    BY <2>1, <2>2
<1>3. \A j \in Items : Alike(s.i[j], u.i[j]) /\ u.i[j].state = s.i[j].state
  BY DEF Fed, Alike
<1> QED
  BY <1>2, <1>3 DEF Fed

\* An item with a new value.
ItemPut(s, i, r, t) ==
    /\ t \in CarriedState /\ t.p = s.p /\ Same(s, t) /\ t.i[i] = r
    /\ \A j \in Items : j # i => t.i[j] = s.i[j]

LEMMA ItemFields ==
    ASSUME NEW s \in CarriedState, NEW i \in Items, NEW r \in ItemType(i)
    PROVE  ItemPut(s, i, r, [s EXCEPT !.i[i] = r])
<1> DEFINE f == [s.i EXCEPT ![i] = r]
<1>1. s.i \in ItemsType
  BY ItemOf
<1>2. f \in ItemsType /\ f[i] = r /\ \A j \in Items : j # i => f[j] = s.i[j]
  BY <1>1, ItemSet
<1> HIDE DEF f
<1>3. [s EXCEPT !.i = f] \in CarriedState /\ Same(s, [s EXCEPT !.i = f])
      /\ [s EXCEPT !.i = f].i = f /\ [s EXCEPT !.i = f].p = s.p
  BY <1>2 DEF CarriedState, Same
<1> QED
  BY <1>2, <1>3 DEF f, ItemPut

LEMMA PutIsFed ==
    ASSUME NEW s \in CarriedState, NEW i \in Items, NEW r, NEW t, ItemPut(s, i, r, t),
           Alike(s.i[i], r), r.state = s.i[i].state
    PROVE  Fed(s, t)
<1>1. \A a \in AmmoTypes : s.p.ammo[a] <= t.p.ammo[a]
  <2> TAKE a \in AmmoTypes
  <2>1. s.p.ammo[a] \in Nat /\ t.p = s.p
    BY AmmoOf DEF ItemPut
  <2> QED
    BY <2>1
<1>2. \A j \in Items : Alike(s.i[j], t.i[j]) /\ t.i[j].state = s.i[j].state
  BY DEF ItemPut, Alike
<1> QED
  BY <1>1, <1>2 DEF Fed, ItemPut, Same

LEMMA GiveAmmoFed ==
    ASSUME NEW s \in CarriedState, NEW c \in Classes, NEW n \in Nat
    PROVE  Fed(s, GiveAmmo(s, c, n))
<1> DEFINE a == WeaponInfo[c].ammo
           m == Least(s.p.ammo[a] + n, WeaponInfo[c].max)
           f == [s.p.ammo EXCEPT ![a] = m]
           t == [s EXCEPT !.p.ammo = f]
<1>1. CASE ~CanHaveAmmo(s, c)
  BY <1>1, FedSelf DEF GiveAmmo
<1>2. CASE CanHaveAmmo(s, c)
  <2>1. a # "none" /\ a \in AmmoTypes /\ s.p.ammo[a] < WeaponInfo[c].max
    BY <1>2 DEF CanHaveAmmo, AmmoTypes
  <2>2. WeaponInfo[c].max \in Nat /\ s.p.ammo \in AmmoType /\ s.p.ammo[a] \in Nat
    BY <2>1, AmmoOf, WeaponsAssumption
  <2>3. m \in 0..WeaponInfo[c].max /\ s.p.ammo[a] <= m
    BY <2>1, <2>2 DEF Least
  <2>4. GiveAmmo(s, c, n) = t
    BY <1>2 DEF GiveAmmo
  <2> HIDE DEF m
  <2>5. f \in AmmoType /\ f[a] = m /\ \A b \in AmmoTypes : b # a => f[b] = s.p.ammo[b]
    BY <2>1, <2>2, <2>3, AmmoSet
  <2> HIDE DEF f
  <2>6. /\ t \in CarriedState /\ t.b = s.b /\ t.full = s.full /\ t.i = s.i
        /\ t.p.slots = s.p.slots /\ t.p.active = s.p.active /\ t.p.last = s.p.last
        /\ t.p.weapons = s.p.weapons /\ t.p.dead = s.p.dead /\ t.p.crashed = s.p.crashed
        /\ t.p.ammo = f
    BY <2>5 DEF CarriedState, PlayerType
  <2> HIDE DEF t
  <2>7. ASSUME NEW b \in AmmoTypes PROVE s.p.ammo[b] <= f[b]
    <3>1. s.p.ammo[b] \in Nat
      BY AmmoOf
    <3> QED
      BY <2>3, <2>5, <3>1
  <2>8. Fed(s, t)
    BY <2>6, <2>7 DEF Fed, Alike
  <2> QED
    BY <2>4, <2>8
<1> QED
  BY <1>1, <1>2

LEMMA AddPrimaryAmmoFed ==
    ASSUME ItemsKnown, NEW s \in CarriedState, NEW i \in Items, NEW n \in Nat
    PROVE  Fed(s, AddPrimaryAmmo(s, i, n))
<1> DEFINE into == IF s.i[i].clip = 0 THEN Least(n, Info(i).clip) ELSE 0
           clip == IF Info(i).clip < 1 THEN NoClip ELSE s.i[i].clip + into
           left == IF Info(i).clip < 1 THEN n ELSE n - into
           r == [s.i[i] EXCEPT !.clip = clip]
           t == [s EXCEPT !.i[i] = r]
<1>1. s.i[i] \in ItemType(i) /\ ItemClass[i] \in Classes
  BY ItemOf, ItemFacts
<1>2. clip \in Clips(i) /\ left \in Nat
  <2>1. CASE Info(i).kind = "gun"
    <3>1. Info(i).clip \in Nat \ {0} /\ s.i[i].clip \in 0..Info(i).clip /\ ~(Info(i).clip < 1)
      BY <1>1, <2>1, ItemFacts DEF ItemType, Clips
    <3>2. into \in 0..n /\ s.i[i].clip + into \in 0..Info(i).clip
      BY <3>1 DEF Least
    <3> QED
      BY <2>1, <3>1, <3>2 DEF Clips
  <2>2. CASE Info(i).kind # "gun"
    <3>1. Info(i).clip < 1
      BY <2>2, ItemFacts DEF NoClip
    <3> QED
      BY <2>2, <3>1 DEF Clips
  <2> QED
    BY <2>1, <2>2
<1>3. AddPrimaryAmmo(s, i, n) = GiveAmmo(t, ItemClass[i], left)
  BY DEF AddPrimaryAmmo
<1> HIDE DEF into, clip, left
<1>4. r \in ItemType(i) /\ Alike(s.i[i], r) /\ r.state = s.i[i].state
  BY <1>1, <1>2 DEF ItemType, Alike
<1>5. ItemPut(s, i, r, t)
  <2> HIDE DEF r
  <2> QED
    BY <1>4, ItemFields
<1> HIDE DEF r, t
<1>6. Fed(s, t)
  BY <1>4, <1>5, PutIsFed
<1>7. Fed(t, GiveAmmo(t, ItemClass[i], left))
  BY <1>1, <1>2, <1>6, GiveAmmoFed DEF Fed
<1> QED
  BY <1>3, <1>6, <1>7, FedTwice

LEMMA ExtractAmmoFed ==
    ASSUME ItemsKnown, NEW s \in CarriedState, NEW i \in Items, NEW to \in Items
    PROVE  Fed(s, ExtractAmmo(s, i, to))
<1> DEFINE a == AddPrimaryAmmo(s, to, s.i[i].give)
           r == [a.i[i] EXCEPT !.give = 0]
           t == [a EXCEPT !.i[i] = r]
<1>1. CASE Info(i).ammo = "none"
  BY <1>1, FedSelf DEF ExtractAmmo
<1>2. CASE Info(i).ammo # "none"
  <2>1. s.i[i].give \in Nat
    BY ItemOf DEF ItemType
  <2>2. Fed(s, a)
    BY <2>1, AddPrimaryAmmoFed
  <2>3. ExtractAmmo(s, i, to) = t
    BY <1>2 DEF ExtractAmmo
  <2> HIDE DEF a
  <2>4. a \in CarriedState /\ a.i[i] \in ItemType(i)
    BY <2>2, ItemOf DEF Fed
  <2>5. r \in ItemType(i) /\ Alike(a.i[i], r) /\ r.state = a.i[i].state
    BY <2>4 DEF ItemType, Alike
  <2> HIDE DEF r
  <2>6. ItemPut(a, i, r, t)
    BY <2>4, <2>5, ItemFields
  <2> HIDE DEF t
  <2>7. Fed(a, t)
    BY <2>4, <2>5, <2>6, PutIsFed
  <2> QED
    BY <2>2, <2>3, <2>7, FedTwice
<1> QED
  BY <1>1, <1>2

LEMMA AddDuplicateFed ==
    ASSUME ItemsKnown, NEW s \in CarriedState, NEW i \in Items, NEW first \in Items
    PROVE  Fed(s, AddDuplicate(s, i, first).s)
<1>1. Fed(s, s) /\ Fed(s, ExtractAmmo(s, i, first))
  BY FedSelf, ExtractAmmoFed
<1> DEFINE n == IF s.i[i].clip = NoClip THEN 0 ELSE s.i[i].clip
<1>2. n \in Nat /\ ItemClass[i] \in Classes
  <2>1. s.i[i].clip \in Clips(i) /\ ItemClass[i] \in Classes
    BY ItemOf, ItemFacts DEF ItemType
  <2>2. Info(i).kind = "gun" => Info(i).clip \in Nat
    BY ItemFacts
  <2> QED
    BY <2>1, <2>2 DEF Clips, NoClip
<1> HIDE DEF n
<1>3. Fed(s, GiveAmmo(s, ItemClass[i], n))
  BY <1>2, GiveAmmoFed
<1>4. AddDuplicate(s, i, first).s \in {s, ExtractAmmo(s, i, first), GiveAmmo(s, ItemClass[i], n)}
  BY DEF AddDuplicate, n
<1> QED
  BY <1>1, <1>3, <1>4

LEMMA FedSound ==
    ASSUME NEW s, NEW B, Sound(s, B), NEW t, Fed(s, t)
    PROVE  /\ Sound(t, B) /\ Held(t) = Held(s)
           /\ Hud(s) => Hud(t)
           /\ Quiet(s, B) => Quiet(t, B)
<1>1. /\ s \in CarriedState /\ t \in CarriedState /\ ItemsKnown /\ B \subseteq Items
      /\ Held(s) \subseteq Items
  BY DEF Sound, Fed, Held
<1>2. Primed(t)
  <2> SUFFICES ASSUME NEW i \in Items, t.i[i].state = "primed"
               PROVE  /\ t.p.active = i /\ HasAmmo(t, i)
                      /\ \A j \in Items : t.i[j].think # "CreateThink"
    BY DEF Primed
  <2>1. s.i[i].state = "primed"
    BY DEF Fed
  <2>2. s.p.active = i /\ HasAmmo(s, i) /\ \A j \in Items : s.i[j].think # "CreateThink"
    BY <2>1 DEF Sound, Primed
  <2>3. Info(i).ammo \in AmmoTypes
    <3>1. s.i[i].state \in States(i)
      BY <1>1, ItemOf DEF ItemType
    <3>2. Info(i).kind = "grenade"
      BY <2>1, <3>1 DEF States
    <3> QED
      BY <1>1, <3>2, ItemFacts
  <2>4. HasAmmo(t, i)
    <3>1. s.p.ammo[Info(i).ammo] \in Nat /\ t.p.ammo[Info(i).ammo] \in Nat
      BY <1>1, <2>3, AmmoOf
    <3>2. s.p.ammo[Info(i).ammo] <= t.p.ammo[Info(i).ammo]
      BY <2>3 DEF Fed
    <3> QED
      BY <2>2, <3>1, <3>2 DEF HasAmmo
  <2>5. \A j \in Items : t.i[j].think # "CreateThink"
    BY <2>2 DEF Fed, Alike
  <2> QED
    BY <2>2, <2>4, <2>5 DEF Fed
<1>3. Sound(t, B) /\ Held(t) = Held(s)
  BY <1>1, <1>2, StaySound DEF Fed
<1>4. Hud(s) => Hud(t)
  BY <1>3 DEF Hud, Fed
<1>5. Quiet(s, B) => Quiet(t, B)
  BY <1>1, <1>3 DEF Quiet, Fed, Alike
<1> QED
  BY <1>3, <1>4, <1>5
-----------------------------------------------------------------------------
(* New items *)

\* An item that is neither touched nor waits for more than its removal.
LEMMA CalmSound ==
    ASSUME NEW s, NEW B, Sound(s, B), NEW i \in Items, NEW r, NEW t, ItemPut(s, i, r, t),
           r.exists = s.i[i].exists, r.state = s.i[i].state, ~r.touch,
           r.think \in {"none", "SUB_Remove"}
    PROVE  Sound(t, B) /\ Held(t) = Held(s)
<1>1. ItemsKnown /\ s \in CarriedState /\ B \subseteq Items /\ Kept(s, B) /\ Pending(s) /\ Primed(s)
      /\ t \in CarriedState /\ t.p = s.p /\ t.i[i] = r
      /\ (\A j \in Items : j # i => t.i[j] = s.i[j])
      /\ Chained(t.p.slots)
  BY DEF Sound, ItemPut
<1>2. Held(t) = Held(s) /\ Held(s) \subseteq Items
  BY <1>1 DEF Held
<1>3. Kept(t, B)
  BY <1>1, <1>2 DEF Kept
<1>4. Pending(t)
  BY <1>1, <1>2 DEF Pending
<1>5. Primed(t)
  <2>1. \A j \in Items : t.i[j].state = s.i[j].state
    BY <1>1
  <2>2. \A j \in Items : s.i[j].think # "CreateThink" => t.i[j].think # "CreateThink"
    BY <1>1
  <2> QED
    BY <1>1, <2>1, <2>2 DEF Primed, HasAmmo
<1> QED
  BY <1>1, <1>2, <1>3, <1>4, <1>5 DEF Sound

\* A new entity: nothing that was there changes.
Born(s, B, t) ==
    /\ Sound(t, B) /\ t.p = s.p /\ t.b = s.b /\ Held(t) = Held(s)
    /\ \A j \in Items : s.i[j].exists => t.i[j] = s.i[j]

LEMMA BornSound ==
    ASSUME NEW s, NEW B, Sound(s, B), NEW i \in Items, ~s.i[i].exists, NEW r, NEW t,
           ItemPut(s, i, r, t), r.exists, r.state = "idle", r.think \in {"none", "Materialize"}
    PROVE  Born(s, B, t)
<1>1. ItemsKnown /\ s \in CarriedState /\ B \subseteq Items /\ Kept(s, B) /\ Pending(s) /\ Primed(s)
      /\ t \in CarriedState /\ t.p = s.p /\ t.i[i] = r /\ t.b = s.b
      /\ (\A j \in Items : j # i => t.i[j] = s.i[j])
      /\ Chained(t.p.slots)
  BY DEF Sound, ItemPut, Same
<1>2. Held(t) = Held(s) /\ Held(s) \subseteq Items
  BY <1>1 DEF Held
<1>3. Kept(t, B)
  BY <1>1, <1>2 DEF Kept
<1>4. Pending(t)
  BY <1>1, <1>2 DEF Pending
<1>5. Primed(t)
  <2> SUFFICES ASSUME NEW j \in Items, t.i[j].state = "primed"
               PROVE  /\ t.p.active = j /\ HasAmmo(t, j)
                      /\ \A k \in Items : t.i[k].think # "CreateThink"
    BY DEF Primed
  <2>1. j # i /\ s.i[j].state = "primed"
    BY <1>1
  <2>2. s.p.active = j /\ HasAmmo(s, j) /\ \A k \in Items : s.i[k].think # "CreateThink"
    BY <1>1, <2>1 DEF Primed
  <2> QED
    BY <1>1, <2>2 DEF HasAmmo
<1>6. \A j \in Items : s.i[j].exists => t.i[j] = s.i[j]
  BY <1>1
<1> QED
  BY <1>1, <1>2, <1>3, <1>4, <1>5, <1>6 DEF Sound, Born

LEMMA PlacedType ==
    ASSUME ItemsKnown, NEW i \in Items, NEW norespawn \in BOOLEAN
    PROVE  /\ Placed(i, norespawn) \in ItemType(i)
           /\ Placed(i, norespawn).exists /\ Placed(i, norespawn).state = "idle"
           /\ Placed(i, norespawn).think = "none"
<1>1. /\ Placed(i, norespawn).exists /\ Placed(i, norespawn).state = "idle"
      /\ Placed(i, norespawn).think = "none"
  BY DEF Placed, Absent
<1>2. "idle" \in States(i)
  BY DEF States
<1>3. (IF Info(i).kind = "melee" THEN NoClip ELSE 0) \in Clips(i)
  BY ItemFacts DEF Clips
<1>4. Info(i).give \in Nat
  BY ItemFacts
<1>5. FALSE \in (IF Info(i).kind = "gun" THEN BOOLEAN ELSE {FALSE})
  OBVIOUS
<1> DEFINE clip == IF Info(i).kind = "melee" THEN NoClip ELSE 0
           give == Info(i).give
           p == [exists |-> TRUE, touch |-> TRUE, think |-> "none", clip |-> clip,
                 give |-> give, state |-> "idle", reload |-> FALSE, norespawn |-> norespawn]
<1>6. Placed(i, norespawn) = [Absent EXCEPT !.exists = TRUE, !.touch = TRUE, !.give = give,
                                            !.clip = clip, !.norespawn = norespawn]
  BY DEF Placed
<1> HIDE DEF clip, give
<1>7. Placed(i, norespawn) = p
  BY <1>6 DEF Absent
<1>8. p \in ItemType(i)
  BY <1>2, <1>3, <1>4, <1>5 DEF ItemType, Thinks, clip, give
<1> HIDE DEF p
<1> QED
  BY <1>1, <1>7, <1>8

LEMMA FullBorn ==
    ASSUME NEW s, NEW B, Sound(s, B)
    PROVE  Born(s, B, [s EXCEPT !.full = TRUE])
<1> DEFINE t == [s EXCEPT !.full = TRUE]
<1>1. t \in CarriedState /\ t.p = s.p /\ t.i = s.i /\ t.b = s.b
  BY DEF Sound, CarriedState
<1> HIDE DEF t
<1>2. Primed(t)
  BY <1>1 DEF Sound, Primed, HasAmmo
<1>3. Sound(t, B) /\ Held(t) = Held(s)
  BY <1>1, <1>2, StaySound DEF Alike
<1> QED
  BY <1>1, <1>3 DEF Born, t

\* With a new item i in place of an entity that is free.
Brought(s, B, i, t) == Born(s, B, t) /\ t.i[i].exists

LEMMA CreateBorn ==
    ASSUME NEW s, NEW B, Sound(s, B), NEW i \in Items, ~s.i[i].exists,
           NEW norespawn \in BOOLEAN, NEW give \in Nat
    PROVE  /\ Brought(s, B, i, [s EXCEPT !.i[i] = Placed(i, norespawn)])
           /\ Brought(s, B, i, [s EXCEPT !.i[i] = [Placed(i, norespawn) EXCEPT !.give = give]])
           /\ Brought(s, B, i, [s EXCEPT !.i[i] = [Placed(i, norespawn) EXCEPT
                                                    !.touch = FALSE, !.think = "Materialize"]])
<1> DEFINE p == Placed(i, norespawn)
           q == [p EXCEPT !.give = give]
           r == [p EXCEPT !.touch = FALSE, !.think = "Materialize"]
<1>1. s \in CarriedState /\ ItemsKnown
  BY DEF Sound
<1>2. p \in ItemType(i) /\ p.exists /\ p.state = "idle" /\ p.think = "none"
  BY <1>1, PlacedType
<1> HIDE DEF p
<1>3. q \in ItemType(i) /\ q.exists /\ q.state = "idle" /\ q.think = "none"
  BY <1>2 DEF ItemType
<1>4. r \in ItemType(i) /\ r.exists /\ r.state = "idle" /\ r.think = "Materialize"
  BY <1>2 DEF ItemType, Thinks
<1> HIDE DEF q, r
<1>5. ItemPut(s, i, p, [s EXCEPT !.i[i] = p])
  BY <1>1, <1>2, ItemFields
<1>6. ItemPut(s, i, q, [s EXCEPT !.i[i] = q])
  BY <1>1, <1>3, ItemFields
<1>7. ItemPut(s, i, r, [s EXCEPT !.i[i] = r])
  BY <1>1, <1>4, ItemFields
<1>8. /\ Born(s, B, [s EXCEPT !.i[i] = p]) /\ Born(s, B, [s EXCEPT !.i[i] = q])
      /\ Born(s, B, [s EXCEPT !.i[i] = r])
  BY <1>2, <1>3, <1>4, <1>5, <1>6, <1>7, BornSound
<1>9. /\ [s EXCEPT !.i[i] = p].i[i].exists /\ [s EXCEPT !.i[i] = q].i[i].exists
      /\ [s EXCEPT !.i[i] = r].i[i].exists
  BY <1>2, <1>3, <1>4, <1>5, <1>6, <1>7 DEF ItemPut
<1> QED
  BY <1>8, <1>9 DEF p, q, r, Brought

LEMMA CheckRespawnBorn ==
    ASSUME NEW s, NEW B, Sound(s, B), NEW i \in Items
    PROVE  Born(s, B, CheckRespawn(s, i))
<1>1. CASE s.i[i].norespawn
  BY <1>1 DEF CheckRespawn, Born
<1>2. CASE ~s.i[i].norespawn /\ Spare(s, ItemClass[i]) = {}
  BY <1>2, FullBorn DEF CheckRespawn
<1>3. CASE ~s.i[i].norespawn /\ Spare(s, ItemClass[i]) # {}
  <2> DEFINE n == CHOOSE n \in Spare(s, ItemClass[i]) : TRUE
  <2>1. n \in Spare(s, ItemClass[i])
    BY <1>3
  <2>2. CheckRespawn(s, i) =
          [s EXCEPT !.i[n] = [Placed(n, FALSE) EXCEPT !.touch = FALSE, !.think = "Materialize"]]
    BY <1>3 DEF CheckRespawn
  <2> HIDE DEF n
  <2>3. n \in Items /\ ~s.i[n].exists /\ FALSE \in BOOLEAN /\ 0 \in Nat
    BY <2>1 DEF Spare
  <2>4. Brought(s, B, n, [s EXCEPT !.i[n] = [Placed(n, FALSE) EXCEPT !.touch = FALSE,
                                                                    !.think = "Materialize"]])
    BY <2>3, CreateBorn
  <2> QED
    BY <2>2, <2>4 DEF Brought
<1> QED
  BY <1>1, <1>2, <1>3

\* A weapon of a class that the player has not got goes into a chain.
LEMMA PushSound ==
    ASSUME NEW s, NEW B, Sound(s, B), NEW i \in Items, i \notin Held(s), i \notin B,
           s.i[i].exists, \A j \in Held(s) : ItemClass[j] # ItemClass[i]
    PROVE  LET t == [s EXCEPT !.p.slots = Pushed(@, i)]
           IN  /\ Sound(t, B) /\ Held(t) = Held(s) \cup {i} /\ t.i = s.i /\ t.b = s.b
               /\ t.p.weapons = s.p.weapons /\ t.p.active = s.p.active
<1> DEFINE q == Pushed(s.p.slots, i)
           t == [s EXCEPT !.p.slots = q]
<1>1. ItemsKnown /\ s \in CarriedState /\ B \subseteq Items /\ Kept(s, B) /\ Pending(s) /\ Primed(s)
      /\ s.p.slots \in ChainType /\ Chained(s.p.slots)
  BY DEF Sound, CarriedState, PlayerType
<1>2. ~Holds(s.p.slots, i)
  BY DEF Held
<1>3. q \in ChainType /\ Chained(q) /\ \A j \in Items : Holds(q, j) <=> Holds(s.p.slots, j) \/ j = i
  BY <1>1, <1>2, PushedChain
<1> HIDE DEF q
<1>4. /\ t \in CarriedState /\ t.i = s.i /\ t.b = s.b /\ t.p.weapons = s.p.weapons
      /\ t.p.active = s.p.active /\ t.p.last = s.p.last /\ t.p.ammo = s.p.ammo
      /\ t.p.slots = q
  BY <1>1, <1>3 DEF CarriedState, PlayerType
<1> HIDE DEF t
<1>5. Held(t) = Held(s) \cup {i} /\ Held(s) \subseteq Items
  BY <1>3, <1>4 DEF Held
<1>6. Kept(t, B)
  <2>1. \A j \in {t.p.active, t.p.last} \ {NoItem} : j \in Held(t)
    BY <1>1, <1>4, <1>5 DEF Kept
  <2>2. \A j, k \in Held(t) : ItemClass[j] = ItemClass[k] => j = k
    BY <1>1, <1>5 DEF Kept
  <2>3. Held(t) \cap B = {}
    BY <1>1, <1>5 DEF Kept
  <2>4. \A j \in Held(t) \cup B : t.i[j].exists
    BY <1>1, <1>4, <1>5 DEF Kept
  <2> QED
    BY <2>1, <2>2, <2>3, <2>4 DEF Kept
<1>7. Pending(t)
  BY <1>1, <1>4, <1>5 DEF Pending
<1>8. Primed(t)
  BY <1>1, <1>4 DEF Primed, HasAmmo
<1>9. Sound(t, B)
  BY <1>1, <1>3, <1>4, <1>6, <1>7, <1>8 DEF Sound
<1> QED
  BY <1>4, <1>5, <1>9 DEF t, q
-----------------------------------------------------------------------------
(* Taking an item *)

\* A step after which the carried items are as they should be, if they were.
Took(s, B, t) ==
    /\ Sound(t, B) /\ t.b = s.b
    /\ Hud(s) => Hud(t)
    /\ Quiet(s, B) => Quiet(t, B)

LEMMA TookTwice ==
    ASSUME NEW s, NEW B, NEW t, Took(s, B, t), NEW u, Took(t, B, u)
    PROVE  Took(s, B, u)
  BY DEF Took

LEMMA BornTook ==
    ASSUME NEW s, NEW B, Sound(s, B), NEW t, Born(s, B, t)
    PROVE  Took(s, B, t)
<1>1. \A j \in Held(s) \cup B : s.i[j].exists /\ j \in Items
  BY DEF Sound, Kept, Held
<1>2. \A j \in Held(s) \cup B : t.i[j] = s.i[j]
  BY <1>1 DEF Born
<1>3. Quiet(s, B) => Quiet(t, B)
  BY <1>2 DEF Quiet, Born
<1> QED
  BY <1>3 DEF Born, Took, Hud

\* What Added does to the other items, and what it leaves for the end.
Joined(s, B, i, t) ==
    /\ Sound(t, B) /\ t.b = s.b
    /\ Hud(s) => Hud(t)
    /\ \A j \in Held(t) \cup B : j # i => j \in Held(s) \cup B /\ Alike(s.i[j], t.i[j])

LEMMA AddedSound ==
    ASSUME NEW s, NEW B, Sound(s, B), NEW i \in Items, i \notin Held(s), i \notin B,
           s.i[i].exists, CarriedOf(s.p.slots, ItemClass[i]) = {}
    PROVE  Joined(s, B, i, Added(s, i))
<1> DEFINE state == IF Info(i).kind = "satchel" THEN "idle" ELSE s.i[i].state
           r == [s.i[i] EXCEPT !.state = state]
           w == [s EXCEPT !.p.weapons = @ \cup {ItemClass[i]}]
           a == [w EXCEPT !.i[i] = r]
           mine == ExtractAmmo(a, i, i)
           c == CheckRespawn(mine, i)
           in == [c EXCEPT !.p.slots = Pushed(@, i)]
<1>1. /\ ItemsKnown /\ s \in CarriedState /\ B \subseteq Items /\ Kept(s, B) /\ Pending(s) /\ Primed(s)
      /\ Chained(s.p.slots) /\ ItemClass[i] \in Classes /\ s.i[i] \in ItemType(i)
      /\ Held(s) \subseteq Items
  BY ItemOf, ItemFacts DEF Sound, Held
<1>2. Added(s, i) = IF ShouldSwitch(in, i) THEN SwitchWeapon(in, i) ELSE in
  <2>1. a = [s EXCEPT !.p.weapons = @ \cup {ItemClass[i]},
                      !.i[i].state = IF Info(i).kind = "satchel" THEN "idle" ELSE @]
    BY <1>1 DEF CarriedState, ItemsType
  <2> HIDE DEF a
  <2> QED
    BY <2>1 DEF Added
<1>3. s.i[i].state # "primed"
  <2>1. s.p.active # i
    BY <1>1, ItemFacts DEF Kept
  <2> QED
    BY <1>1, <2>1 DEF Primed
<1>4. state \in States(i) /\ state # "primed"
  BY <1>1, <1>3 DEF ItemType, States
<1> HIDE DEF state
<1>5. r \in ItemType(i) /\ r.state = state /\ Alike(s.i[i], r)
  BY <1>1, <1>4 DEF ItemType, Alike
<1> HIDE DEF r
<1>6. /\ w \in CarriedState /\ w.i = s.i /\ w.b = s.b /\ w.p.slots = s.p.slots
      /\ w.p.weapons = s.p.weapons \cup {ItemClass[i]} /\ w.p.active = s.p.active
      /\ w.p.last = s.p.last /\ w.p.ammo = s.p.ammo
  BY <1>1 DEF CarriedState, PlayerType
<1> HIDE DEF w
<1>7. ItemPut(w, i, r, a)
  BY <1>5, <1>6, ItemFields
<1> HIDE DEF a
<1>8. /\ a \in CarriedState /\ a.b = s.b /\ a.p = w.p /\ a.i[i] = r
      /\ \A j \in Items : j # i => a.i[j] = s.i[j]
  BY <1>6, <1>7 DEF ItemPut, Same
<1>9. \A j \in Items : Alike(s.i[j], a.i[j])
  BY <1>5, <1>8 DEF Alike
<1>10. Primed(a)
  <2> SUFFICES ASSUME NEW j \in Items, a.i[j].state = "primed"
               PROVE  /\ a.p.active = j /\ HasAmmo(a, j)
                      /\ \A k \in Items : a.i[k].think # "CreateThink"
    BY DEF Primed
  <2>1. s.i[j].state = "primed"
    BY <1>4, <1>5, <1>8
  <2>2. s.p.active = j /\ HasAmmo(s, j) /\ \A k \in Items : s.i[k].think # "CreateThink"
    BY <1>1, <2>1 DEF Primed
  <2> QED
    BY <1>6, <1>8, <1>9, <2>2 DEF HasAmmo, Alike
<1>11. Sound(a, B) /\ Held(a) = Held(s)
  BY <1>6, <1>8, <1>9, <1>10, StaySound
<1>12. Fed(a, mine)
  BY <1>1, <1>8, ExtractAmmoFed
<1> HIDE DEF mine
<1>13. Sound(mine, B) /\ Held(mine) = Held(s)
  BY <1>11, <1>12, FedSound
<1>14. Born(mine, B, c)
  BY <1>13, CheckRespawnBorn
<1> HIDE DEF c
<1>15. \A j \in Items : s.i[j].exists => Alike(s.i[j], c.i[j])
  BY <1>9, <1>12, <1>14 DEF Born, Fed, Alike
<1>16. Sound(c, B) /\ Held(c) = Held(s) /\ c.b = s.b
       /\ c.p.weapons = s.p.weapons \cup {ItemClass[i]} /\ c.i[i].exists
  BY <1>6, <1>8, <1>12, <1>13, <1>14, <1>15 DEF Born, Fed, Alike
<1>17. \A j \in Held(c) : ItemClass[j] # ItemClass[i]
  BY <1>16 DEF CarriedOf, Held
<1>18. /\ Sound(in, B) /\ Held(in) = Held(c) \cup {i} /\ in.i = c.i /\ in.b = c.b
       /\ in.p.weapons = c.p.weapons /\ in.p.active = c.p.active
  BY <1>16, <1>17, PushSound
<1> HIDE DEF in
<1>19. \A j \in Held(in) \cup B : j # i => j \in Held(s) \cup B /\ Alike(s.i[j], in.i[j])
  BY <1>1, <1>15, <1>16, <1>18 DEF Kept
<1>20. Hud(s) => Hud(in)
  BY <1>16, <1>18 DEF Hud
<1>21. CASE ~ShouldSwitch(in, i)
  BY <1>2, <1>16, <1>18, <1>19, <1>20, <1>21 DEF Joined
<1>22. CASE ShouldSwitch(in, i)
  <2>1. CanDeploy(in, i) /\ i \in Held(in)
    BY <1>18, <1>22 DEF ShouldSwitch
  <2>2. in.p.active # i
    <3>1. c.p.active # i
      BY <1>16, ItemFacts DEF Sound, Kept
    <3> QED
      BY <1>18, <3>1
  <2> DEFINE t == SwitchWeapon(in, i)
  <2>3. Handled(in, B, t)
    BY <1>18, <2>1, <2>2, SwitchWeaponHandled
  <2>4. Added(s, i) = t
    BY <1>2, <1>22
  <2> HIDE DEF t
  <2>5. \A j \in Held(t) \cup B : j \in Held(in) \cup B /\ Alike(in.i[j], t.i[j])
    BY <2>3 DEF Handled, Trim
  <2>6. \A j \in Held(t) \cup B : j # i => j \in Held(s) \cup B /\ Alike(s.i[j], t.i[j])
    BY <1>19, <2>5 DEF Alike
  <2>7. Hud(s) => Hud(t)
    BY <1>18, <1>20, <2>3, TrimHud DEF Handled
  <2>8. t.b = s.b /\ Sound(t, B)
    BY <1>16, <1>18, <2>3 DEF Handled, Same
  <2> QED
    BY <2>4, <2>6, <2>7, <2>8 DEF Joined
<1> QED
  BY <1>21, <1>22

\* The calm one is out of the world or in a chain.
LEMMA CalmTook ==
    ASSUME NEW s, NEW B, NEW t, NEW i \in Items, i \notin B, Joined(s, B, i, t),
           NEW think \in {"none", "SUB_Remove"}, i \notin Held(t) \/ think = "none"
    PROVE  Took(s, B, [t EXCEPT !.i[i].touch = FALSE, !.i[i].think = think])
<1> DEFINE u == [t EXCEPT !.i[i].touch = FALSE, !.i[i].think = think]
           r == [t.i[i] EXCEPT !.touch = FALSE, !.think = think]
<1>1. Sound(t, B) /\ t \in CarriedState /\ t.i[i] \in ItemType(i) /\ think \in Thinks
  BY ItemOf DEF Joined, Sound, Thinks
<1>2. r \in ItemType(i) /\ r.exists = t.i[i].exists /\ r.state = t.i[i].state
      /\ ~r.touch /\ r.think = think
  BY <1>1 DEF ItemType
<1>3. u = [t EXCEPT !.i[i] = r]
  BY <1>1 DEF CarriedState, ItemsType
<1> HIDE DEF r, u
<1>4. ItemPut(t, i, r, u)
  <2>1. ItemPut(t, i, r, [t EXCEPT !.i[i] = r])
    BY <1>1, <1>2, ItemFields
  <2> QED
    BY <1>3, <2>1
<1>5. r.think \in {"none", "SUB_Remove"}
  BY <1>2
<1>6. Sound(u, B) /\ Held(u) = Held(t)
  BY <1>1, <1>2, <1>4, <1>5, CalmSound
<1>7. u.p = t.p /\ u.b = t.b /\ u.i[i] = r /\ \A j \in Items : j # i => u.i[j] = t.i[j]
  BY <1>4 DEF ItemPut, Same
<1>8. Hud(s) => Hud(u)
  BY <1>6, <1>7 DEF Joined, Hud
<1>9. ASSUME Quiet(s, B) PROVE Quiet(u, B)
  <2> SUFFICES ASSUME NEW j \in Held(u) \cup B
               PROVE  ~u.i[j].touch /\ u.i[j].think \in {"none", "CreateThink"}
    BY DEF Quiet
  <2>1. CASE j = i
    BY <1>2, <1>6, <1>7, <2>1
  <2>2. CASE j # i
    <3>1. j \in Held(s) \cup B /\ Alike(s.i[j], t.i[j]) /\ j \in Items
      BY <1>1, <1>6, <2>2 DEF Joined, Sound, Held
    <3> QED
      BY <1>7, <1>9, <2>2, <3>1 DEF Quiet, Alike
  <2> QED
    BY <2>1, <2>2
<1> QED
  BY <1>6, <1>7, <1>8, <1>9 DEF Took, Joined, u

LEMMA AddPlayerItemTook ==
    ASSUME NEW s, NEW B, Sound(s, B), NEW i \in Items, i \notin Held(s), i \notin B,
           s.i[i].exists
    PROVE  Took(s, B, AddPlayerItem(s, i))
<1> DEFINE first == CHOOSE j \in CarriedOf(s.p.slots, ItemClass[i]) : TRUE
           dup == AddDuplicate(s, i, first)
<1>1. CASE CarriedOf(s.p.slots, ItemClass[i]) = {}
  <2> DEFINE t == Added(s, i)
  <2>1. AddPlayerItem(s, i) = [t EXCEPT !.i[i].touch = FALSE, !.i[i].think = "none"]
    BY <1>1 DEF AddPlayerItem
  <2>2. Joined(s, B, i, t)
    BY <1>1, AddedSound
  <2> HIDE DEF t
  <2>3. Took(s, B, [t EXCEPT !.i[i].touch = FALSE, !.i[i].think = "none"])
    BY <2>2, CalmTook
  <2> QED
    BY <2>1, <2>3
<1>2. CASE CarriedOf(s.p.slots, ItemClass[i]) # {}
  <2>1. first \in Items
    BY <1>2 DEF CarriedOf
  <2>2. ItemsKnown /\ s \in CarriedState
    BY DEF Sound
  <2> HIDE DEF first
  <2>3. Fed(s, dup.s)
    BY <2>1, <2>2, AddDuplicateFed
  <2>4. AddPlayerItem(s, i) = IF dup.took THEN RemoveLater(CheckRespawn(dup.s, i), i) ELSE dup.s
    BY <1>2 DEF AddPlayerItem, first
  <2> HIDE DEF dup
  <2> DEFINE d == dup.s
             c == CheckRespawn(d, i)
  <2>5. Took(s, B, d) /\ Held(d) = Held(s)
    BY <2>3, FedSound DEF Took, Fed
  <2>6. CASE ~dup.took
    BY <2>4, <2>5, <2>6
  <2>7. CASE dup.took
    <3> HIDE DEF d
    <3>1. Born(d, B, c)
      BY <2>5, CheckRespawnBorn DEF Took
    <3> HIDE DEF c
    <3>2. Took(d, B, c) /\ Held(c) = Held(d)
      BY <2>5, <3>1, BornTook DEF Took, Born
    <3>3. Joined(c, B, i, c)
      BY <3>2 DEF Joined, Took, Alike
    <3>4. AddPlayerItem(s, i) = RemoveLater(c, i)
      BY <2>4, <2>7 DEF c, d
    <3>5. RemoveLater(c, i) = [c EXCEPT !.i[i].touch = FALSE, !.i[i].think = "SUB_Remove"]
      BY DEF RemoveLater
    <3>6. i \notin Held(c)
      BY <2>5, <3>2
    <3>7. Took(c, B, [c EXCEPT !.i[i].touch = FALSE, !.i[i].think = "SUB_Remove"])
      BY <3>3, <3>6, CalmTook
    <3> QED
      BY <2>5, <3>2, <3>4, <3>5, <3>7, TookTwice
  <2> QED
    BY <2>6, <2>7
<1> QED
  BY <1>1, <1>2

LEMMA DefaultTouchTook ==
    ASSUME NEW s, NEW B, Sound(s, B), NEW i \in Items, i \notin Held(s), i \notin B,
           s.i[i].exists
    PROVE  Took(s, B, DefaultTouch(s, i))
<1>1. Took(s, B, s)
  BY DEF Took
<1> QED
  BY <1>1, AddPlayerItemTook DEF DefaultTouch
-----------------------------------------------------------------------------
(* A box is taken *)

LEMMA NoBoxType ==
    /\ NoBox \in BoxType /\ NoBox.slots \in ChainType /\ NoBox.ammo \in AmmoType
    /\ Chained(NoBox.slots) /\ \A i : ~Holds(NoBox.slots, i)
    /\ NoBox.slots = [k \in 1..Slots |-> <<>>] /\ NoBox.ammo = [a \in AmmoTypes |-> 0]
<1> DEFINE none == [k \in 1..Slots |-> <<>>]
           zero == [a \in AmmoTypes |-> 0]
<1>1. none \in ChainType
  <2>1. <<>> \in Seq(Items)
    OBVIOUS
  <2> QED
    BY <2>1 DEF ChainType
<1>2. zero \in [AmmoTypes -> Nat]
  OBVIOUS
<1>3. \A c \in Classes : WeaponInfo[c].ammo # "none" =>
         zero[WeaponInfo[c].ammo] = 0 /\ WeaponInfo[c].max \in Nat
  BY WeaponsAssumption DEF AmmoTypes
<1>4. zero \in AmmoType
  <2>1. Within(zero)
    BY <1>3 DEF Within
  <2> HIDE DEF zero
  <2> QED
    BY <1>2, <2>1 DEF AmmoType
<1>5. NoBox.slots = none /\ NoBox.ammo = zero
      /\ NoBox = [there |-> FALSE, slots |-> none, ammo |-> zero, kill |-> FALSE]
  BY DEF NoBox
<1>6. \A k \in 1..Slots : none[k] = <<>> /\ DOMAIN none[k] = {}
  OBVIOUS
<1>7. Chained(none)
  BY <1>6 DEF Chained
<1>8. \A i : ~Holds(none, i)
  BY <1>6 DEF Holds, ToSet
<1> HIDE DEF none, zero
<1>9. NoBox \in BoxType
  BY <1>1, <1>4, <1>5 DEF BoxType
<1> QED
  BY <1>1, <1>4, <1>5, <1>7, <1>8, <1>9 DEF none, zero

\* Only the box changes.
LEMMA BoxPut ==
    ASSUME NEW s, NEW B, Sound(s, B), NEW b \in BoxType
    PROVE  LET t == [s EXCEPT !.b = b]
           IN  Sound(t, B) /\ Held(t) = Held(s) /\ t.p = s.p /\ t.i = s.i /\ t.b = b
<1> DEFINE t == [s EXCEPT !.b = b]
<1>1. t \in CarriedState /\ t.p = s.p /\ t.i = s.i /\ t.b = b
  BY DEF Sound, CarriedState
<1> HIDE DEF t
<1>2. Primed(t)
  BY <1>1 DEF Sound, Primed, HasAmmo
<1>3. Sound(t, B) /\ Held(t) = Held(s)
  BY <1>1, <1>2, StaySound DEF Alike
<1> QED
  BY <1>1, <1>3 DEF t

\* The items of the box are fewer.
LEMMA SoundLess ==
    ASSUME NEW s, NEW B, Sound(s, B), NEW C, C \subseteq B
    PROVE  Sound(s, C) /\ (Quiet(s, B) => Quiet(s, C))
  BY DEF Sound, Kept, Quiet

\* A step of the box: its chains stay.
Gave(s, B, t) ==
    /\ Sound(t, B) /\ t.b.slots = s.b.slots
    /\ Hud(s) => Hud(t)
    /\ Quiet(s, B) => Quiet(t, B)

LEMMA BoxWeaponTook ==
    ASSUME NEW s, NEW B, Sound(s, B), NEW c \in Classes
    PROVE  Took(s, B, BoxWeapon(s, c))
<1>1. CASE s.b.ammo[WeaponInfo[c].ammo] = 0 \/ CarriedOf(s.p.slots, c) # {}
  BY <1>1 DEF BoxWeapon, Took
<1>2. CASE /\ ~(s.b.ammo[WeaponInfo[c].ammo] = 0 \/ CarriedOf(s.p.slots, c) # {})
           /\ Spare(s, c) = {}
  <2>1. BoxWeapon(s, c) = [s EXCEPT !.full = TRUE]
    BY <1>2 DEF BoxWeapon
  <2>2. Took(s, B, [s EXCEPT !.full = TRUE])
    BY FullBorn, BornTook
  <2> QED
    BY <2>1, <2>2
<1>3. CASE /\ ~(s.b.ammo[WeaponInfo[c].ammo] = 0 \/ CarriedOf(s.p.slots, c) # {})
           /\ Spare(s, c) # {}
  <2> DEFINE i == CHOOSE i \in Spare(s, c) : TRUE
             t == [s EXCEPT !.i[i] = [Placed(i, TRUE) EXCEPT !.give = 0]]
  <2>1. i \in Spare(s, c)
    BY <1>3
  <2>2. BoxWeapon(s, c) = AddPlayerItem(t, i)
    BY <1>3 DEF BoxWeapon
  <2> HIDE DEF i
  <2>3. i \in Items /\ ~s.i[i].exists /\ TRUE \in BOOLEAN /\ 0 \in Nat
    BY <2>1 DEF Spare
  <2>4. Brought(s, B, i, t)
    BY <2>3, CreateBorn
  <2> HIDE DEF t
  <2>5. Took(s, B, t) /\ t.i[i].exists /\ Held(t) = Held(s)
    BY <2>4, BornTook DEF Brought, Born
  <2>6. i \notin Held(s) /\ i \notin B
    BY <2>3 DEF Sound, Kept
  <2>7. Took(t, B, AddPlayerItem(t, i))
    BY <2>3, <2>5, <2>6, AddPlayerItemTook DEF Took
  <2> QED
    BY <2>2, <2>5, <2>7, TookTwice
<1> QED
  BY <1>1, <1>2, <1>3

LEMMA BoxAmmoGave ==
    ASSUME NEW s, NEW B, Sound(s, B), NEW c \in Classes, WeaponInfo[c].ammo # "none"
    PROVE  Gave(s, B, BoxAmmo(s, c))
<1> DEFINE a == WeaponInfo[c].ammo
           made == IF Exhaustible(c) THEN BoxWeapon(s, c) ELSE s
           fed == GiveAmmo(made, c, s.b.ammo[a])
<1>1. Took(s, B, made)
  BY BoxWeaponTook DEF Took
<1>2. CASE s.b.ammo[a] = 0
  BY <1>2 DEF BoxAmmo, Gave
<1>3. CASE s.b.ammo[a] # 0
  <2>1. BoxAmmo(s, c) = [fed EXCEPT !.b.ammo[a] = 0]
    BY <1>3 DEF BoxAmmo
  <2> HIDE DEF made
  <2>2. s.b.ammo[a] \in Nat /\ made \in CarriedState
    BY <1>1, AmmoOf DEF AmmoTypes, Sound, Took
  <2>3. Fed(made, fed)
    BY <2>2, GiveAmmoFed
  <2> HIDE DEF fed
  <2>4. /\ Sound(fed, B) /\ Held(fed) = Held(made) /\ fed.b = made.b
        /\ Hud(made) => Hud(fed)
        /\ Quiet(made, B) => Quiet(fed, B)
    BY <1>1, <2>3, FedSound DEF Took, Fed
  <2> DEFINE f == [fed.b.ammo EXCEPT ![a] = 0]
             b == [fed.b EXCEPT !.ammo = f]
  <2>5. fed.b \in BoxType /\ fed.b.ammo \in AmmoType
    BY <2>4 DEF Sound, CarriedState, BoxType
  <2>6. 0 \in 0..WeaponInfo[c].max
    BY WeaponsAssumption
  <2>7. f \in AmmoType
    BY <2>5, <2>6, AmmoSet
  <2>8. BoxAmmo(s, c) = [fed EXCEPT !.b = b]
    BY <2>1
  <2> HIDE DEF f
  <2>9. b \in BoxType /\ b.slots = fed.b.slots
    BY <2>5, <2>7 DEF BoxType
  <2> HIDE DEF b
  <2> DEFINE t == [fed EXCEPT !.b = b]
  <2>10. Sound(t, B) /\ Held(t) = Held(fed) /\ t.p = fed.p /\ t.i = fed.i /\ t.b = b
    BY <2>4, <2>9, BoxPut
  <2> HIDE DEF t
  <2>11. (Hud(fed) => Hud(t)) /\ (Quiet(fed, B) => Quiet(t, B))
    BY <2>10 DEF Hud, Quiet
  <2> QED
    BY <1>1, <2>4, <2>8, <2>9, <2>10, <2>11 DEF Gave, Took, t
<1> QED
  BY <1>2, <1>3

LEMMA BoxFeeds ==
    ASSUME NEW s, NEW B, Sound(s, B), NEW N \in Nat, NEW fed,
           \A n \in 1..N : fed[n] \in Classes /\ WeaponInfo[fed[n]].ammo # "none"
    PROVE  LET given[n \in 0..N] == IF n = 0 THEN s ELSE BoxAmmo(given[n - 1], fed[n])
           IN  Gave(s, B, given[N])
<1> DEFINE good == {t \in CarriedState : Gave(s, B, t)}
           inv == [n \in 0..N |-> good]
           step == [n \in 1..N |-> [t \in good |-> BoxAmmo(t, fed[n])]]
           Is(f) == f = [n \in 0..N |-> IF n = 0 THEN s ELSE BoxAmmo(f[n - 1], fed[n])]
           given == CHOOSE f : Is(f)
<1>1. s \in good
  BY DEF Gave, Sound
<1>2. ASSUME NEW n \in 1..N, NEW t \in good PROVE BoxAmmo(t, fed[n]) \in good
  <2>1. Sound(t, B) /\ Gave(s, B, t)
    BY DEF Gave
  <2>2. Gave(t, B, BoxAmmo(t, fed[n]))
    BY <2>1, BoxAmmoGave
  <2> QED
    BY <2>1, <2>2 DEF Gave, Sound
<1> HIDE DEF good
<1>3. 0 \in 0..N /\ \A n \in 1..N : n \in 0..N /\ n - 1 \in 0..N /\ n # 0
  OBVIOUS
<1>4. s \in inv[0] /\ Leads(N, inv, step)
  BY <1>1, <1>2, <1>3 DEF Leads
<1>5. PICK f : Loops(f, N, inv, s, step)
  <2> HIDE DEF inv, step
  <2> QED
    BY <1>4, LoopExists
<1>6. \A n \in 1..N : f[n] = BoxAmmo(f[n - 1], fed[n])
  BY <1>3, <1>5 DEF Loops
<1>7. ASSUME NEW n \in 0..N PROVE f[n] = IF n = 0 THEN s ELSE BoxAmmo(f[n - 1], fed[n])
  <2>1. n = 0 \/ n \in 1..N
    OBVIOUS
  <2> QED
    BY <1>5, <1>6, <2>1 DEF Loops
<1>8. Is(given)
  <2>1. Is(f)
    <3>1. [n \in 0..N |-> f[n]] = [n \in 0..N |-> IF n = 0 THEN s ELSE BoxAmmo(f[n - 1], fed[n])]
      BY <1>7
    <3> QED
      BY <1>5, <3>1 DEF Loops
  <2> QED
    BY <2>1
<1> HIDE DEF given
<1>9. \A n \in 0..N : given[n] = IF n = 0 THEN s ELSE BoxAmmo(given[n - 1], fed[n])
  BY <1>8
<1> DEFINE T == {n \in 0..N : given[n] \in good}
<1>10. 0 \in T
  BY <1>1, <1>3, <1>9
<1>11. \A n \in 1..N : n - 1 \in T => n \in T
  BY <1>2, <1>3, <1>9
<1>12. N \in T
  <2>1. N \in 0..N
    OBVIOUS
  <2> HIDE DEF T
  <2> QED
    BY <1>10, <1>11, <2>1, Induct
<1> QED
  BY <1>12 DEF good, given

\* The invariant.
Good(s) ==
    /\ Sound(s, Boxed(s)) /\ Quiet(s, Boxed(s)) /\ Chained(s.b.slots) /\ Hud(s)

LEMMA BoxWeaponsGood ==
    ASSUME NEW s, Good(s)
    PROVE  Good(BoxWeapons(s))
<1> DEFINE packed == InOrder(s.b.slots)
           N == Len(packed)
           Rest(n) == {packed[m] : m \in n + 1..N}
           Left(n) == {t \in CarriedState : Sound(t, Rest(n)) /\ Hud(t) /\ Quiet(t, Rest(n))}
           inv == [n \in 0..N |-> Left(n)]
           step == [n \in 1..N |-> [t \in Left(n - 1) |-> AddPlayerItem(t, packed[n])]]
           Is(f) == f = [n \in 0..N |-> IF n = 0 THEN s ELSE AddPlayerItem(f[n - 1], packed[n])]
           given == CHOOSE f : Is(f)
           t == [given[N] EXCEPT !.b = NoBox]
<1>1. /\ Sound(s, Boxed(s)) /\ Hud(s) /\ Quiet(s, Boxed(s)) /\ Chained(s.b.slots) /\ ItemsKnown
      /\ s \in CarriedState /\ s.b.slots \in ChainType
  BY DEF Good, Sound, CarriedState, BoxType
<1>2. InSequence(s.b.slots, packed)
  BY <1>1, InOrderFacts
<1>3. BoxWeapons(s) = t
  BY DEF BoxWeapons
<1> HIDE DEF packed
<1>4. /\ N \in Nat /\ DOMAIN packed = 1..N /\ \A n \in 1..N : packed[n] \in Items
      /\ \A m, n \in 1..N : packed[m] = packed[n] => m = n
      /\ \A i \in Items : i \in Boxed(s) <=> \E n \in 1..N : packed[n] = i
  <2>1. /\ packed \in Seq(Items) /\ Once(packed)
        /\ \A i \in Items : Occurs(packed, i) <=> Holds(s.b.slots, i)
    BY <1>2 DEF InSequence
  <2>2. N \in Nat /\ DOMAIN packed = 1..N /\ \A n \in 1..N : packed[n] \in Items
    BY <2>1
  <2> QED
    BY <2>1, <2>2 DEF Once, Occurs, Boxed
<1> HIDE DEF N
<1>5. Rest(0) = Boxed(s) /\ Rest(N) = {}
  <2>1. 0 + 1..N = 1..N /\ N + 1..N = {}
    BY <1>4
  <2> QED
    BY <1>4, <2>1 DEF Boxed
<1>6. ASSUME NEW n \in 1..N
      PROVE  /\ packed[n] \in Rest(n - 1) /\ packed[n] \notin Rest(n) /\ packed[n] \in Items
             /\ Rest(n) \subseteq Rest(n - 1)
  <2>1. n \in n - 1 + 1..N
    BY <1>4
  <2>2. \A m \in n + 1..N : m \in n - 1 + 1..N /\ m \in 1..N /\ m # n
    BY <1>4
  <2> QED
    BY <1>4, <2>1, <2>2
<1> HIDE DEF Rest
<1>7. s \in Left(0)
  BY <1>1, <1>5
<1>8. ASSUME NEW n \in 1..N, NEW x \in Left(n - 1)
      PROVE  AddPlayerItem(x, packed[n]) \in Left(n)
  <2> DEFINE i == packed[n]
             u == AddPlayerItem(x, i)
  <2>1. Sound(x, Rest(n - 1)) /\ Hud(x) /\ Quiet(x, Rest(n - 1))
    OBVIOUS
  <2>2. i \notin Held(x) /\ x.i[i].exists /\ i \in Items /\ i \notin Rest(n)
    BY <1>6, <2>1 DEF Sound, Kept
  <2>3. Sound(x, Rest(n)) /\ Quiet(x, Rest(n))
    BY <1>6, <2>1, SoundLess
  <2> HIDE DEF i
  <2>4. Took(x, Rest(n), u)
    BY <2>2, <2>3, AddPlayerItemTook
  <2> HIDE DEF u
  <2>5. Sound(u, Rest(n)) /\ Hud(u) /\ Quiet(u, Rest(n)) /\ u \in CarriedState
    BY <2>1, <2>3, <2>4 DEF Took, Sound
  <2> QED
    BY <2>5 DEF u, i
<1> HIDE DEF Left
<1>9. 0 \in 0..N /\ \A n \in 1..N : n \in 0..N /\ n - 1 \in 0..N /\ n # 0
  BY <1>4
<1>10. s \in inv[0] /\ Leads(N, inv, step)
  BY <1>7, <1>8, <1>9 DEF Leads
<1>11. PICK f : Loops(f, N, inv, s, step)
  <2> HIDE DEF inv, step
  <2> QED
    BY <1>4, <1>10, LoopExists
<1>12. \A n \in 1..N : f[n] = AddPlayerItem(f[n - 1], packed[n])
  BY <1>9, <1>11 DEF Loops
<1>13. ASSUME NEW n \in 0..N PROVE f[n] = IF n = 0 THEN s ELSE AddPlayerItem(f[n - 1], packed[n])
  <2>1. n = 0 \/ n \in 1..N
    BY <1>4
  <2> QED
    BY <1>11, <1>12, <2>1 DEF Loops
<1>14. Is(given)
  <2>1. Is(f)
    <3>1. [n \in 0..N |-> f[n]]
            = [n \in 0..N |-> IF n = 0 THEN s ELSE AddPlayerItem(f[n - 1], packed[n])]
      BY <1>13
    <3> QED
      BY <1>11, <3>1 DEF Loops
  <2> QED
    BY <2>1
<1> HIDE DEF given
<1>15. \A n \in 0..N : given[n] = IF n = 0 THEN s ELSE AddPlayerItem(given[n - 1], packed[n])
  BY <1>14
<1> DEFINE T == {n \in 0..N : given[n] \in Left(n)}
<1>16. 0 \in T
  BY <1>7, <1>9, <1>15
<1>17. \A n \in 1..N : n - 1 \in T => n \in T
  BY <1>8, <1>9, <1>15
<1>18. N \in T
  <2>1. N \in 0..N
    BY <1>4
  <2> HIDE DEF T
  <2> QED
    BY <1>4, <1>16, <1>17, <2>1, Induct
<1> DEFINE g == given[N]
<1>19. Sound(g, {}) /\ Hud(g) /\ Quiet(g, {})
  BY <1>5, <1>18 DEF Left
<1> HIDE DEF g
<1>20. Sound(t, {}) /\ Held(t) = Held(g) /\ t.p = g.p /\ t.i = g.i /\ t.b = NoBox
  <2>1. Sound([g EXCEPT !.b = NoBox], {}) /\ Held([g EXCEPT !.b = NoBox]) = Held(g)
        /\ [g EXCEPT !.b = NoBox].p = g.p /\ [g EXCEPT !.b = NoBox].i = g.i
        /\ [g EXCEPT !.b = NoBox].b = NoBox
    BY <1>19, NoBoxType, BoxPut
  <2> QED
    BY <2>1 DEF g
<1> HIDE DEF t
<1>21. Hud(t) /\ Quiet(t, {})
  BY <1>19, <1>20 DEF Hud, Quiet
<1>22. Boxed(t) = {} /\ Chained(t.b.slots)
  BY <1>20, NoBoxType DEF Boxed
<1> QED
  BY <1>3, <1>20, <1>21, <1>22 DEF Good

LEMMA FedSequence ==
    LET fed == SetToSeq({c \in Classes : WeaponInfo[c].ammo # "none"})
    IN  /\ Len(fed) \in Nat
        /\ \A n \in 1..Len(fed) : fed[n] \in Classes /\ WeaponInfo[fed[n]].ammo # "none"
<1> DEFINE S == {c \in Classes : WeaponInfo[c].ammo # "none"}
           fed == SetToSeq(S)
<1>1. IsFiniteSet(S)
  <2>1. S \subseteq Classes
    OBVIOUS
  <2> HIDE DEF S
  <2> QED
    BY <2>1, WeaponsAssumption, FS_Subset
<1> HIDE DEF S
<1>2. Cardinality(S) \in Nat /\ \E f \in [1..Cardinality(S) -> S] : IsInjective(f)
  BY <1>1, FS_CardinalityType DEF ExistsBijection, Bijection, Injection
<1>3. fed \in [1..Cardinality(S) -> S]
  BY <1>2 DEF SetToSeq
<1> HIDE DEF fed
<1>4. Len(fed) = Cardinality(S)
  BY <1>2, <1>3
<1>5. \A n \in 1..Len(fed) : fed[n] \in S
  BY <1>3, <1>4
<1> QED
  BY <1>2, <1>4, <1>5 DEF S, fed

\* What a touch of the box leaves.
LEMMA BoxTouchGood ==
    ASSUME NEW s, Good(s)
    PROVE  LET fed == SetToSeq({c \in Classes : WeaponInfo[c].ammo # "none"})
               given[n \in 0..Len(fed)] == IF n = 0 THEN s ELSE BoxAmmo(given[n - 1], fed[n])
           IN  Good(BoxWeapons(given[Len(fed)]))
<1> DEFINE fed == SetToSeq({c \in Classes : WeaponInfo[c].ammo # "none"})
           given == CHOOSE f : f = [n \in 0..Len(fed) |->
                                       IF n = 0 THEN s ELSE BoxAmmo(f[n - 1], fed[n])]
           g == given[Len(fed)]
<1>1. /\ Len(fed) \in Nat
      /\ \A n \in 1..Len(fed) : fed[n] \in Classes /\ WeaponInfo[fed[n]].ammo # "none"
  BY FedSequence
<1> HIDE DEF fed
<1>2. Sound(s, Boxed(s))
  BY DEF Good
<1>3. Gave(s, Boxed(s), g)
  BY <1>1, <1>2, BoxFeeds
<1> HIDE DEF given
<1>4. Boxed(g) = Boxed(s)
  BY <1>3 DEF Gave, Boxed
<1>5. Good(g)
  BY <1>3, <1>4 DEF Good, Gave
<1>6. Good(BoxWeapons(g))
  BY <1>5, BoxWeaponsGood
<1> QED
  BY <1>6 DEF given, fed
-----------------------------------------------------------------------------
(* Putting down *)

\* A new player, with the same chains, hands and ammunition.
PlayerPut(s, q, t) ==
    /\ t \in CarriedState /\ t.p = q /\ t.i = s.i /\ t.b = s.b /\ t.full = s.full

LEMMA PlayerFields ==
    ASSUME NEW s \in CarriedState, NEW q \in PlayerType
    PROVE  PlayerPut(s, q, [s EXCEPT !.p = q])
  BY DEF CarriedState, PlayerPut

LEMMA PlayerSound ==
    ASSUME NEW s, NEW B, Sound(s, B), NEW q, NEW t, PlayerPut(s, q, t),
           q.slots = s.p.slots, q.active = s.p.active, q.last = s.p.last, q.ammo = s.p.ammo
    PROVE  Sound(t, B) /\ Held(t) = Held(s) /\ (Quiet(s, B) => Quiet(t, B))
<1>1. Primed(t)
  BY DEF Sound, Primed, HasAmmo, PlayerPut
<1>2. Sound(t, B) /\ Held(t) = Held(s)
  BY <1>1, StaySound DEF PlayerPut, Alike
<1> QED
  BY <1>2 DEF Quiet, PlayerPut

\* What is left of a state when an item leaves the player.
Parted(s, B, i, u) ==
    /\ Sound(u, B) /\ Same(s, u) /\ Held(u) = Held(s) \ {i}
    /\ u.p.weapons \in {s.p.weapons, s.p.weapons \ {ItemClass[i]}}
    /\ \A j \in Items : j # i => u.i[j] = s.i[j]
    /\ u.i[i].exists = s.i[i].exists /\ ~u.i[i].touch
    /\ Unprimed(s) => Unprimed(u)

LEMMA UnlinkParted ==
    ASSUME NEW s, NEW B, Sound(s, B), NEW i \in Items, i \notin B, ~s.i[i].touch,
           s.i[i].think \in {"none", "SUB_Remove"}, s.i[i].state # "primed"
    PROVE  Parted(s, B, i, Unlink(s, i))
<1> DEFINE t == Unlink(s, i)
<1>1. ItemsKnown /\ s \in CarriedState /\ Chained(s.p.slots)
  BY DEF Sound
<1>2. /\ t \in CarriedState /\ Same(s, t) /\ t.i = s.i
      /\ t.p.weapons = s.p.weapons
      /\ t.p.active = IF s.p.active = i THEN NoItem ELSE s.p.active
      /\ t.p.last = IF s.p.last = i THEN NoItem ELSE s.p.last
      /\ Chained(t.p.slots)
      /\ Held(t) = Held(s) \ {i}
  BY <1>1, UnlinkFields
<1> HIDE DEF t
<1>3. t.p.ammo = s.p.ammo
  BY <1>2 DEF Same
<1>4. Sound(t, B)
  BY <1>2, <1>3, LeaveSound
<1> QED
  BY <1>2, <1>4 DEF Parted, Unprimed, t

LEMMA RemovePlayerItemParted ==
    ASSUME NEW s, NEW B, Sound(s, B), NEW i \in Items, i \notin B, ~s.i[i].touch
    PROVE  Parted(s, B, i, RemovePlayerItem(s, i))
<1> DEFINE r == [s.i[i] EXCEPT !.think = "none"]
           t == Think(s, i, "none")
           h == IF t.p.active = i THEN Holster(t, i) ELSE t
           u == Unlink(h, i)
<1>1. s \in CarriedState /\ s.i[i] \in ItemType(i) /\ Held(s) \subseteq Items
  BY ItemOf DEF Sound, Held
<1>2. r \in ItemType(i) /\ ~r.touch /\ r.exists = s.i[i].exists /\ r.state = s.i[i].state
      /\ r.think = "none"
  BY <1>1 DEF ItemType, Thinks
<1>3. t = [s EXCEPT !.i[i] = r]
  BY DEF Think
<1>4. RemovePlayerItem(s, i) = u
  BY DEF RemovePlayerItem
<1> HIDE DEF r, t
<1>5. ItemPut(s, i, r, t)
  <2>1. ItemPut(s, i, r, [s EXCEPT !.i[i] = r])
    BY <1>1, <1>2, ItemFields
  <2> QED
    BY <1>3, <2>1
<1>6. Sound(t, B) /\ Held(t) = Held(s)
  BY <1>2, <1>5, CalmSound
<1>7. /\ t.p = s.p /\ Same(s, t) /\ t.i[i] = r
      /\ \A j \in Items : j # i => t.i[j] = s.i[j]
  BY <1>5 DEF ItemPut
<1>8. /\ Sound(h, B) /\ Same(t, h) /\ h.i[i].state # "primed" /\ ~h.i[i].touch
      /\ h.i[i].exists = r.exists /\ h.i[i].think \in {"none", "SUB_Remove"}
      /\ Held(h) \ {i} = Held(t) \ {i}
      /\ h.p.weapons \in {t.p.weapons, t.p.weapons \ {ItemClass[i]}}
      /\ \A j \in Items : j # i => h.i[j] = t.i[j]
      /\ Unprimed(s) => Unprimed(h)
  <2>1. CASE t.p.active = i
    <3>1. Holstered(t, B, i, h)
      BY <1>6, <2>1, HolsterSound
    <3> HIDE DEF h
    <3>2. Put(t, h) \/ Lost(t, h, i)
      BY <3>1 DEF Holstered
    <3>3. Held(h) \ {i} = Held(t) \ {i}
          /\ h.p.weapons \in {t.p.weapons, t.p.weapons \ {ItemClass[i]}}
      BY <3>2 DEF Put, Lost
    <3>4. Rounded(t.i[i], h.i[i]) /\ Unprimed(h) /\ Sound(h, B) /\ Same(t, h)
          /\ \A j \in Items : j # i => h.i[j] = t.i[j]
      BY <3>1 DEF Holstered
    <3>5. h.i[i].exists = r.exists /\ h.i[i].think \in {"none", "SUB_Remove"} /\ ~h.i[i].touch
      BY <1>2, <1>7, <3>4 DEF Rounded
    <3>6. h.i[i].state # "primed"
      BY <3>4 DEF Unprimed
    <3> QED
      BY <3>3, <3>4, <3>5, <3>6
  <2>2. CASE t.p.active # i
    <3>1. h = t
      BY <2>2
    <3>2. t.i[i].state # "primed"
      BY <1>6, <2>2 DEF Sound, Primed
    <3>3. Unprimed(s) => Unprimed(t)
      BY <1>2, <1>7 DEF Unprimed
    <3> HIDE DEF h
    <3> QED
      BY <1>2, <1>6, <1>7, <3>1, <3>2, <3>3 DEF Same
  <2> QED
    BY <2>1, <2>2
<1> HIDE DEF h
<1>9. Parted(h, B, i, u)
  BY <1>8, UnlinkParted
<1> HIDE DEF u
<1>10. /\ Sound(u, B) /\ Same(h, u) /\ Held(u) = Held(h) \ {i}
       /\ u.p.weapons \in {h.p.weapons, h.p.weapons \ {ItemClass[i]}}
       /\ \A j \in Items : j # i => u.i[j] = h.i[j]
       /\ u.i[i].exists = h.i[i].exists /\ ~u.i[i].touch
       /\ Unprimed(h) => Unprimed(u)
  BY <1>9 DEF Parted
<1>11. Same(s, u)
  BY <1>7, <1>8, <1>10 DEF Same
<1>12. u.p.weapons \in {s.p.weapons, s.p.weapons \ {ItemClass[i]}}
  BY <1>7, <1>8, <1>10
<1>13. Held(u) = Held(s) \ {i}
  BY <1>6, <1>8, <1>10
<1>14. /\ \A j \in Items : j # i => u.i[j] = s.i[j]
       /\ u.i[i].exists = s.i[i].exists
       /\ Unprimed(s) => Unprimed(u)
  BY <1>2, <1>7, <1>8, <1>10
<1> QED
  BY <1>4, <1>10, <1>11, <1>12, <1>13, <1>14 DEF Parted

\* An item in an empty box, or gone before.
Packed(s, i, t) ==
    /\ Sound(t, Boxed(t)) /\ Chained(t.b.slots)
    /\ Held(t) = Held(s) \ {i} /\ Boxed(t) \subseteq {i}
    /\ t.p.weapons \in {s.p.weapons, s.p.weapons \ {ItemClass[i]}}
    /\ Quiet(s, {}) => Quiet(t, Boxed(t))
    /\ Unprimed(s) => Unprimed(t)

LEMMA PackWeaponPacked ==
    ASSUME NEW s, Sound(s, {}), NEW i \in Items, ~s.i[i].touch, s.b.slots = NoBox.slots
    PROVE  Packed(s, i, PackWeapon(s, i))
<1> DEFINE out == RemovePlayerItem(s, i)
           gone == IF s.p.active = i THEN ~Holds(Holster(s, i).p.slots, i) ELSE ~Holds(s.p.slots, i)
           r == [out.i[i] EXCEPT !.norespawn = TRUE, !.think = "none", !.touch = FALSE]
           q == Pushed(out.b.slots, i)
           b == [out.b EXCEPT !.slots = q]
           v == [out EXCEPT !.i[i] = r]
           t == [v EXCEPT !.b = b]
<1>1. Parted(s, {}, i, out)
  BY RemovePlayerItemParted
<1>2. CarriedOf(s.b.slots, ItemClass[i]) = {}
  BY NoBoxType DEF CarriedOf
<1>3. PackWeapon(s, i) = IF gone THEN out ELSE [out EXCEPT !.b.slots = Pushed(@, i),
              !.i[i].norespawn = TRUE, !.i[i].think = "none", !.i[i].touch = FALSE]
  BY <1>2 DEF PackWeapon
<1>4. ~gone => i \in Held(s)
  <2>1. ASSUME s.p.active = i, Holds(Holster(s, i).p.slots, i) PROVE i \in Held(s)
    <3>1. Held(Holster(s, i)) \subseteq Held(s)
      BY <2>1, HolsterSound, HolsteredHandled DEF Handled, Trim
    <3> QED
      BY <2>1, <3>1 DEF Held
  <2> QED
    BY <2>1 DEF Held
<1> HIDE DEF out, gone
<1>5. /\ Sound(out, {}) /\ Same(s, out) /\ Held(out) = Held(s) \ {i}
      /\ out.p.weapons \in {s.p.weapons, s.p.weapons \ {ItemClass[i]}}
      /\ \A j \in Items : j # i => out.i[j] = s.i[j]
      /\ out.i[i].exists = s.i[i].exists
      /\ Unprimed(s) => Unprimed(out)
  BY <1>1 DEF Parted
<1>6. out.b = s.b /\ out.b.slots = NoBox.slots /\ ItemsKnown /\ out \in CarriedState
  BY <1>5 DEF Same, Sound
<1>7. Quiet(s, {}) => Quiet(out, {})
  BY <1>5 DEF Quiet, Held
<1>8. CASE gone
  <2>1. Boxed(out) = {}
    BY <1>6, NoBoxType DEF Boxed
  <2>2. Chained(out.b.slots)
    BY <1>6, NoBoxType
  <2> QED
    BY <1>3, <1>5, <1>7, <1>8, <2>1, <2>2 DEF Packed
<1>9. CASE ~gone
  <2>1. out.i[i] \in ItemType(i) /\ out.i \in ItemsType /\ out.b \in BoxType
    BY <1>6, ItemOf DEF CarriedState
  <2>2. r \in ItemType(i) /\ r.think = "none" /\ ~r.touch /\ r.exists = out.i[i].exists
        /\ r.state = out.i[i].state
    BY <2>1 DEF ItemType, Thinks
  <2>3. PackWeapon(s, i) = t
    <3>1. PackWeapon(s, i) = [out EXCEPT !.b.slots = Pushed(@, i),
              !.i[i].norespawn = TRUE, !.i[i].think = "none", !.i[i].touch = FALSE]
      BY <1>3, <1>9
    <3>2. t = [out EXCEPT !.b.slots = Pushed(@, i),
              !.i[i].norespawn = TRUE, !.i[i].think = "none", !.i[i].touch = FALSE]
      BY <1>6, <2>1 DEF CarriedState, ItemsType
    <3> QED
      BY <3>1, <3>2
  <2> HIDE DEF r
  <2>4. ItemPut(out, i, r, v)
    BY <1>6, <2>2, ItemFields
  <2> HIDE DEF v
  <2>5. Sound(v, {}) /\ Held(v) = Held(out)
    BY <1>5, <2>2, <2>4, CalmSound
  <2>6. q \in ChainType /\ Chained(q) /\ \A j \in Items : Holds(q, j) <=> j = i
    BY <1>6, NoBoxType, PushedChain
  <2> HIDE DEF q
  <2>7. b \in BoxType /\ b.slots = q
    BY <2>1, <2>6 DEF BoxType
  <2> HIDE DEF b
  <2>8. Sound(t, {}) /\ Held(t) = Held(v) /\ t.p = v.p /\ t.i = v.i /\ t.b = b
    BY <2>5, <2>7, BoxPut
  <2> HIDE DEF t
  <2>9. /\ t.i[i] = r /\ \A j \in Items : j # i => t.i[j] = out.i[j]
        /\ t.p = out.p
    BY <2>4, <2>8 DEF ItemPut
  <2>10. Boxed(t) = {i} /\ Chained(t.b.slots)
    BY <2>6, <2>7, <2>8 DEF Boxed
  <2>11. s.i[i].exists /\ t.i[i].exists
    <3>1. s.i[i].exists
      BY <1>4, <1>9 DEF Sound, Kept
    <3> QED
      BY <1>5, <2>2, <2>9, <3>1
  <2>12. Sound(t, {i})
    <3>1. i \notin Held(t)
      BY <1>5, <2>5, <2>8
    <3>2. Kept(t, {i})
      BY <2>8, <2>11, <3>1 DEF Sound, Kept
    <3> QED
      BY <2>8, <3>2 DEF Sound
  <2>13. Quiet(s, {}) => Quiet(t, {i})
    BY <1>5, <1>7, <2>2, <2>5, <2>8, <2>9 DEF Quiet, Held
  <2>14. Unprimed(s) => Unprimed(t)
    BY <1>5, <2>2, <2>9 DEF Unprimed
  <2> QED
    BY <1>5, <2>3, <2>5, <2>8, <2>9, <2>10, <2>12, <2>13, <2>14 DEF Packed
<1> QED
  BY <1>8, <1>9

\* Less of a type of ammunition.
LEMMA AmmoLower ==
    ASSUME NEW f \in AmmoType, NEW a \in AmmoTypes, NEW n \in 0..f[a]
    PROVE  [f EXCEPT ![a] = n] \in AmmoType
<1> DEFINE g == [f EXCEPT ![a] = n]
<1>1. f \in [AmmoTypes -> Nat] /\ n \in Nat /\ f[a] \in Nat /\ n <= f[a]
  BY DEF AmmoType
<1>2. g \in [AmmoTypes -> Nat] /\ g[a] = n /\ \A b \in AmmoTypes : b # a => g[b] = f[b]
  BY <1>1
<1> HIDE DEF g
<1>3. ASSUME SharedMax PROVE Within(g)
  <2> SUFFICES ASSUME NEW d \in Classes, WeaponInfo[d].ammo # "none"
               PROVE  g[WeaponInfo[d].ammo] <= WeaponInfo[d].max
    BY DEF Within
  <2>1. WeaponInfo[d].ammo \in AmmoTypes /\ WeaponInfo[d].max \in Nat
    BY WeaponsAssumption DEF AmmoTypes
  <2>2. f[WeaponInfo[d].ammo] <= WeaponInfo[d].max /\ f[WeaponInfo[d].ammo] \in Nat
    BY <1>1, <1>3, <2>1 DEF AmmoType, Within
  <2> QED
    BY <1>1, <1>2, <2>1, <2>2
<1> QED
  BY <1>2, <1>3 DEF AmmoType, g

\* Only the ammunition in pack and box changes.
Loaded(s, t) ==
    /\ t \in CarriedState /\ t.i = s.i /\ t.b.slots = s.b.slots
    /\ t.p.slots = s.p.slots /\ t.p.active = s.p.active /\ t.p.last = s.p.last
    /\ t.p.weapons = s.p.weapons

LEMMA LoadedSound ==
    ASSUME NEW s, NEW B, Sound(s, B), NEW t, Loaded(s, t),
           Unprimed(s) \/ t.p.ammo = s.p.ammo
    PROVE  /\ Sound(t, B) /\ Held(t) = Held(s) /\ Boxed(t) = Boxed(s)
           /\ Hud(s) => Hud(t)
           /\ Quiet(s, B) => Quiet(t, B)
<1>1. Primed(t)
  BY DEF Sound, Primed, Unprimed, HasAmmo, Loaded
<1>2. Sound(t, B) /\ Held(t) = Held(s)
  BY <1>1, StaySound DEF Loaded, Alike
<1> QED
  BY <1>2 DEF Quiet, Hud, Boxed, Loaded

LEMMA PackAmmoLoaded ==
    ASSUME NEW s \in CarriedState, NEW c \in Classes, WeaponInfo[c].ammo # "none", NEW n \in Nat
    PROVE  Loaded(s, PackAmmo(s, c, n)) /\ PackAmmo(s, c, n).p = s.p
<1> DEFINE a == WeaponInfo[c].ammo
           m == Least(s.b.ammo[a] + n, WeaponInfo[c].max)
           f == [s.b.ammo EXCEPT ![a] = m]
           b == [s.b EXCEPT !.ammo = f]
           t == [s EXCEPT !.b = b]
<1>1. a \in AmmoTypes /\ WeaponInfo[c].max \in Nat /\ s.b \in BoxType
  BY WeaponsAssumption DEF AmmoTypes, CarriedState
<1>2. s.b.ammo \in AmmoType /\ s.b.ammo[a] \in Nat
  BY <1>1, AmmoOf
<1>3. m \in 0..WeaponInfo[c].max
  BY <1>1, <1>2 DEF Least
<1>4. PackAmmo(s, c, n) = t
  BY DEF PackAmmo
<1> HIDE DEF m
<1>5. f \in AmmoType
  BY <1>2, <1>3, AmmoSet
<1> HIDE DEF f
<1>6. b \in BoxType /\ b.slots = s.b.slots
  BY <1>1, <1>5 DEF BoxType
<1> HIDE DEF b
<1>7. t \in CarriedState /\ t.i = s.i /\ t.b = b /\ t.p = s.p
  BY <1>6 DEF CarriedState
<1> HIDE DEF t
<1> QED
  BY <1>4, <1>6, <1>7 DEF Loaded

LEMMA DropAmmoLoaded ==
    ASSUME NEW s \in CarriedState, NEW c \in Classes
    PROVE  Loaded(s, DropAmmo(s, c))
<1> DEFINE a == WeaponInfo[c].ammo
           n == s.p.ammo[a]
           part == IF Exhaustible(c) THEN n ELSE n \div 2
           left == IF Exhaustible(c) THEN 0 ELSE part
           t == PackAmmo(s, c, part)
           f == [t.p.ammo EXCEPT ![a] = left]
           q == [t.p EXCEPT !.ammo = f]
<1>1. CASE a = "none"
  BY <1>1 DEF DropAmmo, Loaded
<1>2. CASE a # "none"
  <2>1. a \in AmmoTypes /\ s.p.ammo \in AmmoType /\ n \in Nat
    BY <1>2, AmmoOf DEF AmmoTypes
  <2>2. part \in 0..n /\ left \in 0..n
    <3>1. n \div 2 \in 0..n
      BY <2>1
    <3> QED
      BY <2>1, <3>1
  <2>3. DropAmmo(s, c) = [t EXCEPT !.p = q]
    BY <1>2 DEF DropAmmo
  <2> HIDE DEF part, left
  <2>4. Loaded(s, t) /\ t.p = s.p
    BY <1>2, <2>1, <2>2, PackAmmoLoaded
  <2> HIDE DEF t
  <2>5. f \in AmmoType
    BY <2>1, <2>2, <2>4, AmmoLower
  <2> HIDE DEF f
  <2>6. q \in PlayerType /\ q.slots = s.p.slots /\ q.active = s.p.active /\ q.last = s.p.last
        /\ q.weapons = s.p.weapons
    BY <2>4, <2>5 DEF Loaded, CarriedState, PlayerType
  <2> HIDE DEF q
  <2>7. PlayerPut(t, q, [t EXCEPT !.p = q])
    BY <2>4, <2>6, PlayerFields DEF Loaded
  <2> DEFINE u == [t EXCEPT !.p = q]
  <2>8. DropAmmo(s, c) = u /\ PlayerPut(t, q, u)
    BY <2>3, <2>7
  <2> HIDE DEF u
  <2> QED
    BY <2>4, <2>6, <2>8 DEF Loaded, PlayerPut
<1> QED
  BY <1>1, <1>2

\* All that is carried goes.
Stripped(s, B, t) ==
    Sound(t, B) /\ Held(t) = {} /\ t.b = s.b /\ Hud(t) /\ (Quiet(s, B) => Quiet(t, B))

LEMMA RemoveAllItemsStripped ==
    ASSUME NEW s, NEW B, Sound(s, B)
    PROVE  Stripped(s, B, RemoveAllItems(s))
<1> DEFINE h == HolsterActive(s)
           f == [i \in Items |->
                   IF Holds(h.p.slots, i)
                   THEN [h.i[i] EXCEPT !.touch = FALSE, !.think = "SUB_Remove"] ELSE h.i[i]]
           q == [h.p EXCEPT !.slots = NoBox.slots, !.active = NoItem, !.last = NoItem,
                            !.ammo = NoBox.ammo, !.weapons = {}]
           t == [h EXCEPT !.i = f, !.p = q]
<1>1. Handled(s, B, h)
  BY HolsterActiveHandled
<1>2. RemoveAllItems(s) = t
  BY DEF RemoveAllItems
<1> HIDE DEF h
<1>3. h \in CarriedState /\ Sound(h, B) /\ Unprimed(h) /\ h.i \in ItemsType /\ h.p \in PlayerType
      /\ h.b = s.b
  BY <1>1 DEF Handled, Sound, CarriedState, Same
<1>4. ASSUME NEW i \in Items
      PROVE  /\ f[i] \in ItemType(i) /\ f[i].exists = h.i[i].exists /\ f[i].state = h.i[i].state
             /\ i \in Held(h) => ~f[i].touch /\ f[i].think = "SUB_Remove"
             /\ i \notin Held(h) => f[i] = h.i[i]
  <2>1. h.i[i] \in ItemType(i)
    BY <1>3 DEF ItemsType
  <2>2. CASE Holds(h.p.slots, i)
    BY <2>1, <2>2 DEF Held, ItemType, Thinks
  <2>3. CASE ~Holds(h.p.slots, i)
    BY <2>1, <2>3 DEF Held
  <2> QED
    BY <2>2, <2>3
<1>5. DOMAIN f = Items /\ f = [i \in Items |-> f[i]]
  OBVIOUS
<1> HIDE DEF f
<1>6. f \in ItemsType
  <2>1. f \in [Items -> UNION {ItemType(i) : i \in Items}]
    BY <1>4, <1>5
  <2> QED
    BY <1>4, <2>1 DEF ItemsType
<1>7. q \in PlayerType /\ q.slots = NoBox.slots /\ q.active = NoItem /\ q.last = NoItem
      /\ q.weapons = {}
  BY <1>3, NoBoxType DEF PlayerType
<1> HIDE DEF q
<1>8. t \in CarriedState /\ t.i = f /\ t.p = q /\ t.b = h.b
  BY <1>3, <1>6, <1>7 DEF CarriedState
<1> HIDE DEF t
<1>9. Held(t) = {} /\ Chained(t.p.slots)
  BY <1>7, <1>8, NoBoxType DEF Held
<1>10. \A i \in B : i \in Items /\ i \notin Held(h) /\ h.i[i].exists
  BY <1>3 DEF Sound, Kept
<1>11. Kept(t, B)
  BY <1>4, <1>7, <1>8, <1>9, <1>10 DEF Kept
<1>12. Pending(t)
  <2> SUFFICES ASSUME NEW i \in Items
               PROVE  /\ t.i[i].touch \/ t.i[i].think = "Materialize" => t.i[i].exists
                      /\ t.i[i].think = "CreateThink" => i \in Held(t) /\ Info(i).kind = "melee"
    BY DEF Pending
  <2>1. CASE i \in Held(h)
    BY <1>4, <1>8, <2>1
  <2>2. CASE i \notin Held(h)
    BY <1>3, <1>4, <1>8, <2>2 DEF Sound, Pending
  <2> QED
    BY <2>1, <2>2
<1>13. Primed(t)
  BY <1>3, <1>4, <1>8 DEF Unprimed, Primed
<1>14. Sound(t, B)
  BY <1>3, <1>8, <1>9, <1>11, <1>12, <1>13 DEF Sound
<1>15. Hud(t)
  BY <1>7, <1>8, <1>9 DEF Hud
<1>16. Quiet(s, B) => Quiet(t, B)
  <2>1. \A j \in B : Alike(s.i[j], h.i[j])
    BY <1>1 DEF Handled
  <2>2. \A j \in B : t.i[j] = h.i[j]
    BY <1>4, <1>8, <1>10
  <2> QED
    BY <1>9, <2>1, <2>2 DEF Quiet, Alike
<1> QED
  BY <1>2, <1>3, <1>8, <1>9, <1>14, <1>15, <1>16 DEF Stripped
-----------------------------------------------------------------------------
(* Steps that keep the invariant *)

LEMMA TookGood ==
    ASSUME NEW s, Good(s), NEW t, Took(s, Boxed(s), t)
    PROVE  Good(t)
<1>1. Boxed(t) = Boxed(s)
  BY DEF Took, Boxed
<1> QED
  BY <1>1 DEF Took, Good

LEMMA HandledGood ==
    ASSUME NEW s, Good(s), NEW t, Handled(s, Boxed(s), t)
    PROVE  Good(t)
<1>1. Boxed(t) = Boxed(s) /\ t.b = s.b
  BY DEF Handled, Same, Boxed
<1>2. Hud(t)
  BY TrimHud DEF Handled, Good
<1>3. Quiet(t, Boxed(t))
  <2>1. \A j \in Held(t) \cup Boxed(s) : j \in Held(s) \cup Boxed(s) /\ Alike(s.i[j], t.i[j])
    BY DEF Handled, Trim
  <2> QED
    BY <1>1, <2>1 DEF Good, Quiet, Alike
<1> QED
  BY <1>1, <1>2, <1>3 DEF Handled, Good

LEMMA StrippedGood ==
    ASSUME NEW s, Sound(s, Boxed(s)), Quiet(s, Boxed(s)), Chained(s.b.slots),
           NEW t, Stripped(s, Boxed(s), t)
    PROVE  Good(t)
<1>1. Boxed(t) = Boxed(s) /\ t.b = s.b
  BY DEF Stripped, Boxed
<1> QED
  BY <1>1 DEF Stripped, Good

\* An item in the world that materializes, or goes.
LEMMA WorldGood ==
    ASSUME NEW s, Good(s), NEW i \in Items, i \notin Held(s), i \notin Boxed(s),
           NEW r, NEW t, ItemPut(s, i, r, t), r.state = "idle" \/ r.state = s.i[i].state,
           r.touch => r.exists, r.think \in {"none", "SUB_Remove"}
    PROVE  Good(t)
<1> DEFINE B == Boxed(s)
<1>1. Sound(s, B) /\ Hud(s) /\ Quiet(s, B) /\ Chained(s.b.slots)
  BY DEF Good
<1>2. ItemsKnown /\ s \in CarriedState /\ B \subseteq Items /\ Kept(s, B) /\ Pending(s) /\ Primed(s)
      /\ t \in CarriedState /\ t.p = s.p /\ t.i[i] = r /\ t.b = s.b
      /\ (\A j \in Items : j # i => t.i[j] = s.i[j])
      /\ Chained(t.p.slots)
  BY <1>1 DEF Sound, ItemPut, Same
<1>3. Held(t) = Held(s) /\ Held(s) \subseteq Items /\ Boxed(t) = B
  BY <1>2 DEF Held, Boxed
<1>4. \A j \in Held(s) \cup B : t.i[j] = s.i[j]
  BY <1>2, <1>3
<1> HIDE DEF B
<1>5. Kept(t, B)
  BY <1>2, <1>3, <1>4 DEF Kept
<1>6. Pending(t)
  BY <1>2, <1>3 DEF Pending
<1>7. Primed(t)
  <2>1. \A j \in Items : t.i[j].state = "primed" => s.i[j].state = "primed"
    BY <1>2
  <2>2. \A j \in Items : s.i[j].think # "CreateThink" => t.i[j].think # "CreateThink"
    BY <1>2
  <2> QED
    BY <1>2, <2>1, <2>2 DEF Primed, HasAmmo
<1>8. Sound(t, B)
  BY <1>2, <1>3, <1>5, <1>6, <1>7 DEF Sound
<1>9. Hud(t) /\ Quiet(t, B)
  BY <1>1, <1>2, <1>3, <1>4 DEF Hud, Quiet
<1> QED
  BY <1>1, <1>2, <1>3, <1>8, <1>9 DEF Good

-----------------------------------------------------------------------------
(* The weapon in hand is used *)

Used(s, i, t) ==
    /\ t \in CarriedState /\ t.b = s.b
    /\ t.p.slots = s.p.slots /\ t.p.active = s.p.active /\ t.p.last = s.p.last
    /\ t.p.weapons = s.p.weapons
    /\ \A j \in Items : j # i => t.i[j] = s.i[j]
    /\ Alike(s.i[i], t.i[i])

LEMMA UsedGood ==
    ASSUME NEW s, Good(s), NEW i \in Items, s.p.active = i, NEW t, Used(s, i, t),
           t.i[i].state = "primed" =>
              HasAmmo(t, i) /\ \A j \in Items : s.i[j].think # "CreateThink"
    PROVE  Good(t) /\ t.p.active = i
<1> DEFINE B == Boxed(s)
<1>1. Sound(s, B) /\ Hud(s) /\ Quiet(s, B) /\ Chained(s.b.slots)
  BY DEF Good
<1>2. \A j \in Items : Alike(s.i[j], t.i[j])
  BY DEF Used, Alike
<1>3. Primed(t)
  <2> SUFFICES ASSUME NEW j \in Items, t.i[j].state = "primed"
               PROVE  /\ t.p.active = j /\ HasAmmo(t, j)
                      /\ \A k \in Items : t.i[k].think # "CreateThink"
    BY DEF Primed
  <2>1. j = i
    BY <1>1 DEF Sound, Primed, Used
  <2>2. \A k \in Items : t.i[k].think = s.i[k].think
    BY <1>2 DEF Alike
  <2> QED
    BY <2>1, <2>2 DEF Used
<1>4. Sound(t, B) /\ Held(t) = Held(s)
  BY <1>1, <1>2, <1>3, StaySound DEF Used
<1>5. Hud(t) /\ Boxed(t) = B /\ Chained(t.b.slots) /\ t.p.active = i
  BY <1>1, <1>4 DEF Used, Hud, Boxed
<1>6. Quiet(t, B)
  <2>1. \A j \in Held(s) \cup B : j \in Items
    BY DEF Held, Boxed
  <2> QED
    BY <1>1, <1>2, <1>4, <2>1 DEF Quiet, Alike
<1> QED
  BY <1>4, <1>5, <1>6 DEF Good

Using(s, i, r, t) == Used(s, i, t) /\ t.i[i] = r

LEMMA UsedFields ==
    ASSUME NEW s \in CarriedState, NEW i \in Items, NEW r \in ItemType(i), Alike(s.i[i], r),
           NEW f \in AmmoType
    PROVE  Using(s, i, r, [s EXCEPT !.i[i] = r, !.p.ammo = f])
<1> DEFINE v == [s EXCEPT !.i[i] = r]
           q == [s.p EXCEPT !.ammo = f]
           t == [v EXCEPT !.p = q]
<1>1. ItemPut(s, i, r, v)
  BY ItemFields
<1>2. q \in PlayerType /\ q.slots = s.p.slots /\ q.active = s.p.active /\ q.last = s.p.last
      /\ q.weapons = s.p.weapons /\ q.ammo = f
  BY DEF CarriedState, PlayerType
<1>3. [s EXCEPT !.i[i] = r, !.p.ammo = f] = t
  BY DEF CarriedState
<1> HIDE DEF v, q
<1>4. PlayerPut(v, q, t)
  BY <1>1, <1>2, PlayerFields DEF ItemPut
<1> HIDE DEF t
<1>5. Using(s, i, r, t)
  BY <1>1, <1>2, <1>4 DEF Using, Used, PlayerPut, ItemPut, Same
<1> QED
  BY <1>3, <1>5

\* What is taken from the pack.
LEMMA SpendAmmo ==
    ASSUME NEW s \in CarriedState, NEW a \in AmmoTypes, NEW n \in 0..s.p.ammo[a]
    PROVE  [s.p.ammo EXCEPT ![a] = @ - n] \in AmmoType
<1>1. s.p.ammo \in AmmoType /\ s.p.ammo[a] \in Nat
  BY AmmoOf
<1>2. s.p.ammo[a] - n \in 0..s.p.ammo[a]
  BY <1>1
<1> DEFINE m == s.p.ammo[a] - n
<1>3. [s.p.ammo EXCEPT ![a] = @ - n] = [s.p.ammo EXCEPT ![a] = m]
  OBVIOUS
<1> HIDE DEF m
<1>4. m \in 0..s.p.ammo[a]
  BY <1>2 DEF m
<1>5. [s.p.ammo EXCEPT ![a] = m] \in AmmoType
  BY <1>1, <1>4, AmmoLower
<1> QED
  BY <1>3, <1>5

LEMMA ReadyGood ==
    ASSUME NEW s, Good(s), NEW i \in Items, s.p.active = i
    PROVE  LET t == Ready(s, i)
           IN  /\ Good(t) /\ t.p.active = i
               /\ \A j \in Items : t.i[j].think = s.i[j].think
<1> DEFINE lacks == Info(i).clip - s.i[i].clip
           a == Info(i).ammo
           fits == Least(lacks, s.p.ammo[a])
           clip == s.i[i].clip + fits
           r == [s.i[i] EXCEPT !.reload = FALSE, !.clip = clip]
           f == [s.p.ammo EXCEPT ![a] = @ - fits]
           t == Ready(s, i)
<1>1. s \in CarriedState /\ s.i[i] \in ItemType(i) /\ ItemsKnown
  BY ItemOf DEF Good, Sound
<1>2. CASE ~s.i[i].reload
  BY <1>2 DEF Ready
<1>3. CASE s.i[i].reload
  <2>1. Info(i).kind = "gun"
    BY <1>1, <1>3 DEF ItemType
  <2>2. Info(i).clip \in Nat \ {0} /\ s.i[i].clip \in 0..Info(i).clip
        /\ s.i[i].state = "idle" /\ a \in AmmoTypes
    BY <1>1, <2>1, ItemFacts DEF ItemType, Clips, States
  <2>3. s.p.ammo[a] \in Nat
    BY <1>1, <2>2, AmmoOf
  <2>4. fits \in 0..s.p.ammo[a] /\ clip \in 0..Info(i).clip
    BY <2>2, <2>3 DEF Least
  <2>5. t = [s EXCEPT !.i[i] = r, !.p.ammo = f]
    <3>1. t = [s EXCEPT !.i[i].reload = FALSE, !.i[i].clip = @ + fits, !.p.ammo[a] = @ - fits]
      BY <1>3 DEF Ready
    <3> HIDE DEF t, fits
    <3>2. s.i \in [Items -> UNION {ItemType(j) : j \in Items}] /\ "p" \in DOMAIN s /\ "i" \in DOMAIN s
      BY <1>1 DEF CarriedState, ItemsType
    <3> QED
      BY <3>1, <3>2
  <2> HIDE DEF fits, clip, t
  <2>6. f \in AmmoType
    BY <1>1, <2>2, <2>4, SpendAmmo
  <2> HIDE DEF f
  <2>7. r \in ItemType(i) /\ Alike(s.i[i], r) /\ r.state = "idle"
    BY <1>1, <2>1, <2>2, <2>4 DEF ItemType, Clips, Alike
  <2> HIDE DEF r
  <2>8. Used(s, i, t) /\ t.i[i] = r
    <3> DEFINE u == [s EXCEPT !.i[i] = r, !.p.ammo = f]
    <3>1. Using(s, i, r, u)
      BY <1>1, <2>6, <2>7, UsedFields
    <3> HIDE DEF u
    <3>2. t = u
      BY <2>5 DEF u
    <3> QED
      BY <3>1, <3>2 DEF Using
  <2>9. Good(t) /\ t.p.active = i
    BY <2>7, <2>8, UsedGood
  <2>10. \A j \in Items : t.i[j].think = s.i[j].think
    BY <2>8 DEF Used, Alike
  <2> QED
    BY <2>9, <2>10 DEF t
<1> QED
  BY <1>2, <1>3

LEMMA ThrowGood ==
    ASSUME NEW s, Good(s), NEW i \in Items, s.p.active = i, Info(i).kind = "satchel"
    PROVE  Good(Throw(s, i))
<1> DEFINE a == Info(i).ammo
           r == [s.i[i] EXCEPT !.state = "ready"]
           f == [s.p.ammo EXCEPT ![a] = @ - 1]
           t == [s EXCEPT !.i[i] = r, !.p.ammo = f]
<1>1. s \in CarriedState /\ s.i[i] \in ItemType(i) /\ ItemsKnown
  BY ItemOf DEF Good, Sound
<1>2. CASE ~HasAmmo(s, i)
  BY <1>2 DEF Throw
<1>3. CASE HasAmmo(s, i)
  <2>1. a \in AmmoTypes
    BY <1>1, ItemFacts
  <2>2. s.p.ammo[a] \in Nat
    BY <1>1, <2>1, AmmoOf
  <2>3. 1 \in 0..s.p.ammo[a]
    BY <1>3, <2>2 DEF HasAmmo
  <2>4. f \in AmmoType
    BY <1>1, <2>1, <2>3, SpendAmmo
  <2>5. r \in ItemType(i) /\ Alike(s.i[i], r) /\ r.state = "ready"
    BY <1>1 DEF ItemType, States, Alike
  <2>6. Throw(s, i) = t
    BY <1>1, <1>3 DEF Throw, CarriedState, ItemsType, PlayerType
  <2> HIDE DEF r, f
  <2>7. Using(s, i, r, t)
    BY <1>1, <2>4, <2>5, UsedFields
  <2> HIDE DEF t
  <2>8. Good(t)
    BY <2>5, <2>7, UsedGood DEF Using
  <2> QED
    BY <2>6, <2>8
<1> QED
  BY <1>2, <1>3

LEMMA ReloadGood ==
    ASSUME NEW s, Good(s), NEW i \in Items, s.p.active = i
    PROVE  Good(Reload(s, i))
<1> DEFINE r == [s.i[i] EXCEPT !.reload = TRUE]
           t == [s EXCEPT !.i[i] = r, !.p.ammo = s.p.ammo]
           go == Info(i).kind = "gun" /\ HasAmmo(s, i) /\ s.i[i].clip # Info(i).clip
<1>1. s \in CarriedState /\ s.i[i] \in ItemType(i) /\ ItemsKnown /\ s.p.ammo \in AmmoType
  BY ItemOf DEF Good, Sound, CarriedState, PlayerType
<1>2. CASE ~go
  BY <1>2 DEF Reload
<1>3. CASE go
  <2>1. r \in ItemType(i) /\ Alike(s.i[i], r) /\ r.state = "idle"
    BY <1>1, <1>3 DEF ItemType, States, Alike
  <2>2. Reload(s, i) = t
    BY <1>1, <1>3 DEF Reload, CarriedState, ItemsType, PlayerType
  <2> HIDE DEF r
  <2>3. Using(s, i, r, t)
    BY <1>1, <2>1, UsedFields
  <2> HIDE DEF t
  <2>4. Good(t)
    BY <2>1, <2>3, UsedGood DEF Using
  <2> QED
    BY <2>2, <2>4
<1> QED
  BY <1>2, <1>3

LEMMA WeaponIdleGood ==
    ASSUME NEW s, Good(s), NEW i \in Items, s.p.active = i
    PROVE  Good(WeaponIdle(s, i))
<1> DEFINE a == Info(i).ammo
           r == [s.i[i] EXCEPT !.state = "idle"]
           f == [s.p.ammo EXCEPT ![a] = @ - 1]
           t == [s EXCEPT !.i[i] = r, !.p.ammo = f]
           u == [s EXCEPT !.i[i] = r, !.p.ammo = s.p.ammo]
<1>1. s \in CarriedState /\ s.i[i] \in ItemType(i) /\ ItemsKnown /\ s.p.ammo \in AmmoType
  BY ItemOf DEF Good, Sound, CarriedState, PlayerType
<1>2. r \in ItemType(i) /\ Alike(s.i[i], r) /\ r.state = "idle"
  BY <1>1 DEF ItemType, States, Alike
<1>3. CASE Info(i).kind = "grenade" /\ s.i[i].state = "primed"
  <2>1. a \in AmmoTypes /\ HasAmmo(s, i)
    BY <1>1, <1>3, ItemFacts DEF Good, Sound, Primed
  <2>2. s.p.ammo[a] \in Nat
    BY <1>1, <2>1, AmmoOf
  <2>3. 1 \in 0..s.p.ammo[a]
    BY <2>1, <2>2 DEF HasAmmo
  <2>4. f \in AmmoType
    BY <1>1, <2>1, <2>3, SpendAmmo
  <2>5. WeaponIdle(s, i) = t
    BY <1>1, <1>3 DEF WeaponIdle, CarriedState, ItemsType, PlayerType
  <2> HIDE DEF r, f
  <2>6. Using(s, i, r, t)
    BY <1>1, <1>2, <2>4, UsedFields
  <2> HIDE DEF t
  <2>7. Good(t)
    BY <1>2, <2>6, UsedGood DEF Using
  <2> QED
    BY <2>5, <2>7
<1>4. CASE Info(i).kind = "satchel" /\ s.i[i].state = "reload"
  <2>1. WeaponIdle(s, i) = IF HasAmmo(s, i) THEN u ELSE RetireWeapon(u, i)
    BY <1>1, <1>4 DEF WeaponIdle, CarriedState, ItemsType, PlayerType
  <2> HIDE DEF r
  <2>2. Using(s, i, r, u)
    BY <1>1, <1>2, UsedFields
  <2> HIDE DEF u
  <2>3. Good(u)
    BY <1>2, <2>2, UsedGood DEF Using
  <2>4. Unprimed(u)
    <3>1. \A j \in Items : j # i => s.i[j].state # "primed"
      BY DEF Good, Sound, Primed
    <3> QED
      BY <1>2, <2>2, <3>1 DEF Unprimed, Used, Using
  <2>5. Handled(u, Boxed(u), RetireWeapon(u, i))
    BY <2>3, <2>4, RetireWeaponHandled DEF Good
  <2>6. Good(RetireWeapon(u, i))
    BY <2>3, <2>5, HandledGood
  <2> QED
    BY <2>1, <2>3, <2>6
<1>5. CASE /\ ~(Info(i).kind = "grenade" /\ s.i[i].state = "primed")
           /\ ~(Info(i).kind = "satchel" /\ s.i[i].state = "reload")
  BY <1>5 DEF WeaponIdle
<1> QED
  BY <1>3, <1>4, <1>5

LEMMA PlayerPutGood ==
    ASSUME NEW s, Good(s), NEW q, NEW t, PlayerPut(s, q, t), q.weapons = s.p.weapons,
           q.slots = s.p.slots, q.active = s.p.active, q.last = s.p.last, q.ammo = s.p.ammo
    PROVE  Good(t)
<1>1. Sound(t, Boxed(s)) /\ Held(t) = Held(s) /\ Quiet(t, Boxed(s))
  BY PlayerSound DEF Good
<1>2. Boxed(t) = Boxed(s) /\ t.b = s.b /\ t.p = q
  BY DEF PlayerPut, Boxed
<1> QED
  BY <1>1, <1>2 DEF Good, Hud
-----------------------------------------------------------------------------
(* The operations *)

\* A step leads to the state that the operation returns.
LEMMA BecomeGood ==
    ASSUME NEW s, Good(s), CarriedBecome(s)
    PROVE  Good(NowCarried)'
<1>1. PICK t \in {s} : /\ ~t.full
                       /\ player' = t.p /\ item' = t.i /\ box' = t.b
  BY DEF CarriedBecome
<1>2. Good(t)
  BY <1>1
<1>3. t \in CarriedState
  BY <1>2 DEF Good, Sound
<1>4. DOMAIN t.i = DOMAIN item
  BY <1>3 DEF CarriedState, ItemsType, Items
<1>5. Items' = Items
  BY <1>1, <1>4 DEF Items
<1>6. NowCarried' = t
  BY <1>1, <1>3 DEF NowCarried, CarriedState
<1>7. CarriedState' = CarriedState
  BY <1>5 DEF CarriedState, PlayerType, BoxType, ChainType, ItemsType
<1>8. Held(NowCarried)' = Held(t)
  BY <1>5, <1>6 DEF Held
<1>9. Boxed(NowCarried)' = Boxed(t)
  BY <1>5, <1>6 DEF Boxed
<1>10. Kept(NowCarried, Boxed(NowCarried))'
  BY <1>2, <1>6, <1>8, <1>9 DEF Good, Sound, Kept
<1>11. Pending(NowCarried)'
  BY <1>2, <1>5, <1>6, <1>8 DEF Good, Sound, Pending
<1>12. Primed(NowCarried)'
  BY <1>2, <1>5, <1>6 DEF Good, Sound, Primed, HasAmmo
<1>13. Quiet(NowCarried, Boxed(NowCarried))' /\ Hud(NowCarried)'
  BY <1>2, <1>6, <1>8, <1>9 DEF Good, Quiet, Hud
<1>14. Chained(NowCarried.p.slots)' /\ Chained(NowCarried.b.slots)'
  BY <1>2, <1>6 DEF Good, Sound
<1>15. ItemsKnown'
  BY <1>2, <1>5 DEF Good, Sound, ItemsKnown
<1>16. Sound(NowCarried, Boxed(NowCarried))'
  BY <1>2, <1>3, <1>5, <1>6, <1>7, <1>9, <1>10, <1>11, <1>12, <1>14, <1>15 DEF Good, Sound
<1> QED
  BY <1>13, <1>14, <1>16 DEF Good

\* The state before a step.
LEMMA CarriedNow ==
    ASSUME Good(NowCarried)
    PROVE  /\ ItemsKnown /\ NowCarried \in CarriedState
           /\ Sound(NowCarried, Boxed(NowCarried)) /\ Sound(NowCarried, {})
           /\ NowCarried.p = player /\ NowCarried.i = item /\ NowCarried.b = box
           /\ \A i \in Held(NowCarried) \cup Boxed(NowCarried) :
                 i \in Items /\ ~item[i].touch /\ item[i].think \in {"none", "CreateThink"}
           /\ \A i \in Items : item[i].touch => item[i].exists
           /\ player.active \in Held(NowCarried) \cup {NoItem}
           /\ player.last \in Held(NowCarried) \cup {NoItem}
<1>1. NowCarried.p = player /\ NowCarried.i = item /\ NowCarried.b = box
  BY DEF NowCarried
<1> HIDE DEF NowCarried
<1>2. Sound(NowCarried, Boxed(NowCarried)) /\ Quiet(NowCarried, Boxed(NowCarried))
  BY DEF Good
<1>3. Sound(NowCarried, {})
  BY <1>2, SoundLess
<1>4. \A i \in Held(NowCarried) \cup Boxed(NowCarried) :
         i \in Items /\ ~item[i].touch /\ item[i].think \in {"none", "CreateThink"}
  BY <1>1, <1>2 DEF Quiet, Held, Boxed
<1>5. \A i \in Items : item[i].touch => item[i].exists
  BY <1>1, <1>2 DEF Sound, Pending
<1>6. /\ player.active \in Held(NowCarried) \cup {NoItem}
      /\ player.last \in Held(NowCarried) \cup {NoItem}
  BY <1>1, <1>2 DEF Sound, Kept
<1> QED
  BY <1>1, <1>2, <1>3, <1>4, <1>5, <1>6 DEF Sound

LEMMA TouchItemGood ==
    ASSUME Good(NowCarried), NEW i \in Items, TouchItem(i)
    PROVE  Good(NowCarried)'
<1> DEFINE t == DefaultTouch(NowCarried, i)
<1>1. item[i].touch /\ CarriedBecome(t)
  BY DEF TouchItem
<1>2. /\ i \notin Held(NowCarried) /\ i \notin Boxed(NowCarried) /\ NowCarried.i[i].exists
      /\ Sound(NowCarried, Boxed(NowCarried))
  BY <1>1, CarriedNow
<1>3. Took(NowCarried, Boxed(NowCarried), t)
  BY <1>2, DefaultTouchTook
<1> HIDE DEF t
<1>4. Good(t)
  BY <1>3, TookGood
<1> QED
  BY <1>1, <1>4, BecomeGood

LEMMA GiveNamedItemGood ==
    ASSUME Good(NowCarried), NEW c \in Classes, GiveNamedItem(c)
    PROVE  Good(NowCarried)'
<1> DEFINE i == CHOOSE i \in Spare(NowCarried, c) : TRUE
           B == Boxed(NowCarried)
           v == [NowCarried EXCEPT !.i[i] = Placed(i, TRUE)]
           t == DefaultTouch(v, i)
<1>1. Spare(NowCarried, c) # {} /\ CarriedBecome(DefaultTouch(Create(NowCarried, c, TRUE), i))
  BY DEF GiveNamedItem
<1>2. Create(NowCarried, c, TRUE) = v
  BY <1>1 DEF Create
<1>3. i \in Items /\ ~NowCarried.i[i].exists
  BY <1>1 DEF Spare
<1> HIDE DEF i
<1>4. Sound(NowCarried, B) /\ TRUE \in BOOLEAN /\ 0 \in Nat
  BY CarriedNow
<1>5. i \notin Held(NowCarried) /\ i \notin B
  BY <1>3, <1>4 DEF Sound, Kept
<1> HIDE DEF B
<1>6. Brought(NowCarried, B, i, v)
  BY <1>3, <1>4, CreateBorn
<1> HIDE DEF v
<1>7. Took(NowCarried, B, v) /\ Held(v) = Held(NowCarried) /\ v.i[i].exists
  BY <1>4, <1>6, BornTook DEF Brought, Born
<1>8. Took(v, B, t)
  BY <1>3, <1>5, <1>7, DefaultTouchTook DEF Took
<1> HIDE DEF t
<1>9. Took(NowCarried, B, t)
  BY <1>7, <1>8, TookTwice
<1>10. Good(t)
  BY <1>9, TookGood DEF B
<1>11. CarriedBecome(t)
  BY <1>1, <1>2 DEF t
<1> QED
  BY <1>10, <1>11, BecomeGood

\* The box that a drop or a death makes.
LEMMA NewBox ==
    ASSUME NEW s, Sound(s, {}), NEW kill \in BOOLEAN
    PROVE  LET t == [s EXCEPT !.b = [NoBox EXCEPT !.there = TRUE, !.kill = kill]]
           IN  /\ Sound(t, {}) /\ Held(t) = Held(s) /\ t.p = s.p /\ t.i = s.i
               /\ t.b.slots = NoBox.slots
<1> DEFINE b == [NoBox EXCEPT !.there = TRUE, !.kill = kill]
<1>1. b \in BoxType /\ b.slots = NoBox.slots
  BY NoBoxType DEF BoxType
<1> HIDE DEF b
<1> QED
  BY ZenonT(60), <1>1, BoxPut DEF b

LEMMA DropPlayerItemGood ==
    ASSUME Good(NowCarried), NEW i \in Items, DropPlayerItem(i)
    PROVE  Good(NowCarried)'
<1> DEFINE B == Boxed(NowCarried)
           next == GetNextBestWeapon(NowCarried, i)
           n == next.s
           b == [NoBox EXCEPT !.there = TRUE]
           q == [n.p EXCEPT !.weapons = @ \ {ItemClass[i]}]
           v == [n EXCEPT !.b = [NoBox EXCEPT !.there = TRUE, !.kill = FALSE]]
           s == [v EXCEPT !.p = q]
           t == PackWeapon(s, i)
           u == DropAmmo(t, ItemClass[i])
<1>1. Holds(player.slots, i) /\ next.ok
      /\ CarriedBecome(DropAmmo(PackWeapon([n EXCEPT !.p.weapons = @ \ {ItemClass[i]}, !.b = b], i),
                                ItemClass[i]))
  BY DEF DropPlayerItem
<1>2. Sound(NowCarried, B) /\ i \in Held(NowCarried) /\ ~NowCarried.i[i].touch /\ ItemsKnown
      /\ ItemClass[i] \in Classes /\ Quiet(NowCarried, B) /\ Hud(NowCarried)
  BY <1>1, CarriedNow, ItemFacts DEF Held, Good
<1>3. Changed(NowCarried, B, i, n)
  BY <1>1, <1>2, NextBestHandled
<1> HIDE DEF next
<1>4. /\ Sound(n, B) /\ Unprimed(n) /\ Held(n) \subseteq Held(NowCarried)
      /\ ~n.i[i].touch /\ Hud(n)
      /\ \A j \in Held(n) : Alike(NowCarried.i[j], n.i[j])
  BY <1>2, <1>3, TrimHud DEF Changed, Handled, Trim, Rounded
<1>5. Sound(n, {}) /\ n \in CarriedState
  BY <1>4, SoundLess DEF Sound
<1>6. [n EXCEPT !.p.weapons = @ \ {ItemClass[i]}, !.b = b] = s
  <2>1. b = [NoBox EXCEPT !.there = TRUE, !.kill = FALSE]
    <3>1. NoBox.kill = FALSE
      BY DEF NoBox
    <3> QED
      BY <3>1, NoBoxType DEF BoxType
  <2>2. [n EXCEPT !.p.weapons = @ \ {ItemClass[i]}, !.b = b] = [[n EXCEPT !.b = b] EXCEPT !.p = q]
    <3> HIDE DEF b, n
    <3> QED
      BY <1>5 DEF CarriedState
  <2> HIDE DEF b, n
  <2> QED
    BY <2>1, <2>2
<1> HIDE DEF n, b
<1>7. Sound(v, {}) /\ Held(v) = Held(n) /\ v.p = n.p /\ v.i = n.i /\ v.b.slots = NoBox.slots
      /\ v \in CarriedState
  BY <1>5, NewBox DEF Sound
<1> HIDE DEF v
<1>8. /\ q \in PlayerType /\ q.slots = v.p.slots /\ q.active = v.p.active /\ q.last = v.p.last
      /\ q.ammo = v.p.ammo /\ q.weapons = n.p.weapons \ {ItemClass[i]}
  BY <1>7 DEF CarriedState, PlayerType
<1> HIDE DEF q
<1>9. PlayerPut(v, q, s)
  BY <1>7, <1>8, PlayerFields
<1> HIDE DEF s
<1>10. Sound(s, {}) /\ Held(s) = Held(v)
  BY <1>7, <1>8, <1>9, PlayerSound
<1>11. /\ ~s.i[i].touch /\ s.b.slots = NoBox.slots /\ s.i = n.i
       /\ s.p.weapons = n.p.weapons \ {ItemClass[i]}
  BY <1>4, <1>7, <1>8, <1>9 DEF PlayerPut
<1>12. Packed(s, i, t)
  BY <1>10, <1>11, PackWeaponPacked
<1> HIDE DEF t
<1>13. Unprimed(s) /\ Quiet(s, {})
  <2>1. Unprimed(s)
    BY <1>4, <1>11 DEF Unprimed
  <2>2. Quiet(s, {})
    BY <1>2, <1>4, <1>7, <1>10, <1>11 DEF Quiet, Alike
  <2> QED
    BY <2>1, <2>2
<1>14. /\ Sound(t, Boxed(t)) /\ Chained(t.b.slots) /\ Quiet(t, Boxed(t)) /\ Unprimed(t)
       /\ Held(t) = Held(n) \ {i} /\ t.p.weapons = n.p.weapons \ {ItemClass[i]}
       /\ t \in CarriedState
  BY <1>7, <1>10, <1>11, <1>12, <1>13 DEF Packed, Sound
<1>15. Hud(t)
  <2>1. \A j \in Held(n) : ItemClass[j] = ItemClass[i] => j = i
    BY <1>2, <1>4 DEF Sound, Kept
  <2> QED
    BY <1>4, <1>14, <2>1 DEF Hud
<1>16. Loaded(t, u)
  BY <1>2, <1>14, DropAmmoLoaded
<1> HIDE DEF u
<1>17. /\ Sound(u, Boxed(t)) /\ Boxed(u) = Boxed(t) /\ Hud(u) /\ Quiet(u, Boxed(t))
  BY <1>14, <1>15, <1>16, LoadedSound
<1>18. Good(u)
  BY <1>14, <1>16, <1>17 DEF Good, Loaded
<1>19. CarriedBecome(u)
  BY <1>1, <1>6 DEF t, u
<1> QED
  BY <1>18, <1>19, BecomeGood

\* Another weapon in hand, and another one to come back to.
LEMMA ChosenGood ==
    ASSUME NEW s, Good(s), Unprimed(s), NEW i \in Held(s) \cup {NoItem},
           NEW j \in Held(s) \cup {NoItem}, NEW t, Chosen(s, Boxed(s), i, j, t)
    PROVE  Good(t)
<1>1. Boxed(t) = Boxed(s) /\ t.b = s.b
  BY DEF Chosen, Same, Boxed
<1> QED
  BY <1>1 DEF Chosen, Good, Hud, Quiet

LEMMA SelectItemGood ==
    ASSUME Good(NowCarried), NEW i \in Items, SelectItem(i)
    PROVE  Good(NowCarried)'
<1> DEFINE B == Boxed(NowCarried)
           s == HolsterActive(NowCarried)
           t == [s EXCEPT !.p.active = i, !.p.last = s.p.active]
<1>1. Holds(player.slots, i) /\ i # player.active
      /\ CarriedBecome([s EXCEPT !.p.last = s.p.active, !.p.active = i])
  BY DEF SelectItem
<1>2. Sound(NowCarried, B) /\ i \in Held(NowCarried) /\ i # NowCarried.p.active
  BY <1>1, CarriedNow DEF Held
<1>3. Handled(NowCarried, B, s) /\ i \in Held(s)
  BY <1>2, HolsterActiveHandled
<1> HIDE DEF s
<1>4. Good(s) /\ Unprimed(s)
  BY <1>3, HandledGood DEF Handled
<1>5. Sound(s, Boxed(s)) /\ s \in CarriedState /\ s.p.active \in Held(s) \cup {NoItem}
  BY <1>4 DEF Good, Sound, Kept
<1>6. [s EXCEPT !.p.last = s.p.active, !.p.active = i] = t
  BY <1>5 DEF CarriedState, PlayerType
<1>7. Chosen(s, Boxed(s), i, s.p.active, t)
  BY <1>3, <1>4, <1>5, ActiveFields
<1> HIDE DEF t
<1>8. Good(t)
  BY <1>3, <1>4, <1>5, <1>7, ChosenGood
<1> QED
  BY <1>1, <1>6, <1>8, BecomeGood

LEMMA SelectLastItemGood ==
    ASSUME Good(NowCarried), SelectLastItem
    PROVE  Good(NowCarried)'
<1> DEFINE B == Boxed(NowCarried)
           s == HolsterActive(NowCarried)
           t == [s EXCEPT !.p.active = s.p.last, !.p.last = s.p.active]
           q == [t.p EXCEPT !.crashed = s.p.last = NoItem]
           u == [t EXCEPT !.p = q]
<1>1. CarriedBecome([s EXCEPT !.p.active = s.p.last, !.p.last = s.p.active,
                              !.p.crashed = s.p.last = NoItem])
  BY DEF SelectLastItem
<1>2. Sound(NowCarried, B)
  BY CarriedNow
<1>3. Handled(NowCarried, B, s)
  BY <1>2, HolsterActiveHandled
<1> HIDE DEF s
<1>4. Good(s) /\ Unprimed(s)
  BY <1>3, HandledGood DEF Handled
<1>5. Sound(s, Boxed(s)) /\ s \in CarriedState /\ s.p.active \in Held(s) \cup {NoItem}
      /\ s.p.last \in Held(s) \cup {NoItem}
  BY <1>4 DEF Good, Sound, Kept
<1>6. [s EXCEPT !.p.active = s.p.last, !.p.last = s.p.active, !.p.crashed = s.p.last = NoItem] = u
  BY <1>5 DEF CarriedState, PlayerType
<1>7. Chosen(s, Boxed(s), s.p.last, s.p.active, t)
  BY <1>4, <1>5, ActiveFields
<1> HIDE DEF t
<1>8. Good(t)
  BY <1>4, <1>5, <1>7, ChosenGood
<1>9. Sound(t, Boxed(t)) /\ t \in CarriedState
  BY <1>8 DEF Good, Sound
<1>10. q \in PlayerType /\ q.slots = t.p.slots /\ q.active = t.p.active /\ q.last = t.p.last
       /\ q.ammo = t.p.ammo /\ q.weapons = t.p.weapons
  BY <1>9 DEF CarriedState, PlayerType
<1> HIDE DEF q
<1>11. PlayerPut(t, q, u)
  BY <1>9, <1>10, PlayerFields
<1> HIDE DEF u
<1>12. Good(u)
  BY <1>8, <1>10, <1>11, PlayerPutGood
<1> QED
  BY <1>1, <1>6, <1>12, BecomeGood

LEMMA PostFrameFacts ==
    ASSUME Good(NowCarried), NEW i \in Items, PostFrame(i)
    PROVE  /\ NowCarried.p.active = i /\ i \in Held(NowCarried)
           /\ \A j \in Items \ {i} : NowCarried.i[j].think # "CreateThink"
<1>1. player.active = i /\ \A j \in Items \ {i} : item[j].think # "CreateThink"
  BY DEF PostFrame
<1>2. ItemsKnown /\ i # NoItem
  BY CarriedNow, ItemFacts
<1> QED
  BY <1>1, <1>2, CarriedNow

\* The crowbar is swung, or is about to fly.
LEMMA CrowbarGood ==
    ASSUME NEW s, Good(s), NEW i \in Items, s.p.active = i, i \in Held(s), Info(i).kind = "melee",
           NEW k \in {"none", "CreateThink"}
    PROVE  Good(Think(s, i, k))
<1> DEFINE t == Think(s, i, k)
           B == Boxed(s)
<1>1. Sound(s, B) /\ Hud(s) /\ Quiet(s, B) /\ Chained(s.b.slots) /\ s \in CarriedState
      /\ k \in Thinks
  BY DEF Good, Sound, Thinks
<1>2. /\ t \in CarriedState /\ t.p = s.p /\ Same(s, t)
      /\ t.i[i] = [s.i[i] EXCEPT !.think = k]
      /\ \A j \in Items : j # i => t.i[j] = s.i[j]
  BY <1>1, ThinkFields
<1> HIDE DEF t
<1>3. s.i[i] \in ItemType(i)
  BY <1>1, ItemOf
<1>4. t.i[i].exists = s.i[i].exists /\ t.i[i].touch = s.i[i].touch
      /\ t.i[i].think = k /\ t.i[i].state = s.i[i].state
  BY <1>2, <1>3 DEF ItemType
<1>5. Held(t) = Held(s) /\ Boxed(t) = B /\ t.b = s.b /\ Held(s) \subseteq Items
  BY <1>2 DEF Held, Boxed, Same
<1>6. Kept(t, B)
  <2>1. \A j \in Held(s) \cup B : t.i[j].exists
    BY <1>1, <1>2, <1>4, <1>5 DEF Sound, Kept
  <2> QED
    BY <1>1, <1>2, <1>5, <2>1 DEF Sound, Kept
<1>7. Pending(t)
  BY ZenonT(60), <1>1, <1>2, <1>4, <1>5 DEF Sound, Pending
<1>8. Unprimed(t)
  <2>1. s.i[i].state # "primed"
    BY <1>3 DEF ItemType, States
  <2>2. \A j \in Items : j # i => s.i[j].state # "primed"
    BY <1>1 DEF Sound, Primed
  <2> QED
    BY <1>2, <1>4, <2>1, <2>2 DEF Unprimed
<1>9. Sound(t, B)
  BY <1>1, <1>2, <1>6, <1>7, <1>8, UnprimedIsPrimed DEF Sound
<1>10. Hud(t) /\ Quiet(t, B)
  <2>1. \A j \in Held(s) \cup B : ~t.i[j].touch /\ t.i[j].think \in {"none", "CreateThink"}
    BY <1>1, <1>2, <1>4, <1>5 DEF Quiet, Boxed
  <2> QED
    BY <1>1, <1>2, <1>5, <2>1 DEF Quiet, Hud
<1> QED
  BY <1>1, <1>5, <1>9, <1>10 DEF Good, t

LEMMA PrimaryAttackGood ==
    ASSUME Good(NowCarried), NEW i \in Items, PrimaryAttack(i)
    PROVE  Good(NowCarried)'
<1> DEFINE s == Ready(NowCarried, i)
           kind == Info(i).kind
           shot == IF s.i[i].clip > 0 THEN [s EXCEPT !.i[i].clip = @ - 1] ELSE s
           drawn == IF HasAmmo(s, i) THEN [s EXCEPT !.i[i].state = "primed"] ELSE s
           blast == CASE s.i[i].state = "idle" -> Throw(s, i)
                      [] s.i[i].state = "ready" -> [s EXCEPT !.i[i].state = "reload"]
                      [] OTHER -> s
           t == CASE kind = "melee" -> Think(s, i, "none")
                  [] kind = "gun" -> shot
                  [] kind = "grenade" -> drawn
                  [] kind = "satchel" -> blast
<1>1. CarriedBecome(t) /\ PostFrame(i)
  BY DEF PrimaryAttack
<1>2. Good(s) /\ s.p.active = i /\ \A j \in Items \ {i} : s.i[j].think # "CreateThink"
  BY <1>1, PostFrameFacts, ReadyGood
<1> HIDE DEF s
<1>3. s \in CarriedState /\ s.i[i] \in ItemType(i) /\ ItemsKnown /\ s.p.ammo \in AmmoType
      /\ Pending(s)
  BY <1>2, ItemOf DEF Good, Sound, CarriedState, PlayerType
<1>4. kind = "gun" => Good(shot)
  <2> SUFFICES ASSUME kind = "gun", s.i[i].clip > 0 PROVE Good([s EXCEPT !.i[i].clip = @ - 1])
    BY <1>2
  <2> DEFINE r == [s.i[i] EXCEPT !.clip = @ - 1]
             u == [s EXCEPT !.i[i] = r, !.p.ammo = s.p.ammo]
  <2>1. Info(i).clip \in Nat /\ s.i[i].clip \in 0..Info(i).clip
    BY <1>3, ItemFacts DEF ItemType, Clips
  <2>2. s.i[i].clip - 1 \in 0..Info(i).clip
    BY <2>1
  <2>3. r \in ItemType(i) /\ Alike(s.i[i], r) /\ r.state = "idle"
    BY <1>3, <2>2 DEF ItemType, Clips, States, Alike
  <2>4. [s EXCEPT !.i[i].clip = @ - 1] = u
    BY <1>3 DEF CarriedState, ItemsType, PlayerType
  <2> HIDE DEF r
  <2>5. Using(s, i, r, u)
    BY <1>3, <2>3, UsedFields
  <2> HIDE DEF u
  <2>6. Good(u)
    BY <1>2, <2>3, <2>5, UsedGood DEF Using
  <2> QED
    BY <2>4, <2>6
<1>5. kind = "grenade" => Good(drawn)
  <2> SUFFICES ASSUME kind = "grenade", HasAmmo(s, i)
               PROVE  Good([s EXCEPT !.i[i].state = "primed"])
    BY <1>2
  <2> DEFINE r == [s.i[i] EXCEPT !.state = "primed"]
             u == [s EXCEPT !.i[i] = r, !.p.ammo = s.p.ammo]
  <2>1. r \in ItemType(i) /\ Alike(s.i[i], r)
    BY <1>3 DEF ItemType, States, Alike
  <2>2. [s EXCEPT !.i[i].state = "primed"] = u
    BY <1>3 DEF CarriedState, ItemsType, PlayerType
  <2>3. u.p.ammo = s.p.ammo
    BY <1>3 DEF CarriedState, PlayerType
  <2> HIDE DEF r
  <2>4. Using(s, i, r, u)
    BY <1>3, <2>1, UsedFields
  <2> HIDE DEF u
  <2>5. HasAmmo(u, i)
    BY <2>3 DEF HasAmmo
  <2>6. \A j \in Items : s.i[j].think # "CreateThink"
    BY <1>2, <1>3 DEF Pending
  <2>7. Good(u)
    BY <1>2, <2>4, <2>5, <2>6, UsedGood DEF Using
  <2> QED
    BY <2>2, <2>7
<1>6. kind = "satchel" => Good(blast)
  <2> SUFFICES ASSUME kind = "satchel" PROVE Good(blast)
    OBVIOUS
  <2>1. Good(Throw(s, i))
    BY <1>2, ThrowGood
  <2>2. Good([s EXCEPT !.i[i].state = "reload"])
    <3> DEFINE r == [s.i[i] EXCEPT !.state = "reload"]
               u == [s EXCEPT !.i[i] = r, !.p.ammo = s.p.ammo]
    <3>1. r \in ItemType(i) /\ Alike(s.i[i], r) /\ r.state = "reload"
      BY <1>3 DEF ItemType, States, Alike
    <3>2. [s EXCEPT !.i[i].state = "reload"] = u
      BY <1>3 DEF CarriedState, ItemsType, PlayerType
    <3> HIDE DEF r
    <3>3. Using(s, i, r, u)
      BY <1>3, <3>1, UsedFields
    <3> HIDE DEF u
    <3>4. Good(u)
      BY <1>2, <3>1, <3>3, UsedGood DEF Using
    <3> QED
      BY <3>2, <3>4
  <2> QED
    BY <1>2, <2>1, <2>2
<1>7. kind = "melee" => Good(Think(s, i, "none"))
  <2>1. i \in Held(s)
    BY <1>2, <1>3, ItemFacts DEF Good, Sound, Kept
  <2> QED
    BY <1>2, <2>1, CrowbarGood
<1> HIDE DEF shot, drawn, blast
<1>8. Good(t)
  <2>1. kind \in {"melee", "gun", "grenade", "satchel"}
    BY <1>3, ItemFacts
  <2> HIDE DEF kind
  <2> QED
    BY <1>4, <1>5, <1>6, <1>7, <2>1
<1> HIDE DEF t
<1> QED
  BY <1>1, <1>8, BecomeGood

LEMMA SecondaryAttackGood ==
    ASSUME Good(NowCarried), NEW i \in Items, SecondaryAttack(i)
    PROVE  Good(NowCarried)'
<1>1. PostFrame(i)
  BY DEF SecondaryAttack
<1>2. NowCarried.p.active = i /\ i \in Held(NowCarried)
  BY <1>1, PostFrameFacts
<1>3. CASE Info(i).kind = "melee"
  <2>1. CarriedBecome(Think(NowCarried, i, "CreateThink"))
    BY <1>3 DEF SecondaryAttack
  <2>2. Good(Think(NowCarried, i, "CreateThink"))
    BY <1>2, <1>3, CrowbarGood
  <2> QED
    BY <2>1, <2>2, BecomeGood
<1>4. CASE Info(i).kind = "satchel"
  <2>1. CarriedBecome(Throw(NowCarried, i))
    BY <1>4 DEF SecondaryAttack
  <2>2. Good(Throw(NowCarried, i))
    BY <1>2, <1>4, ThrowGood
  <2> QED
    BY <2>1, <2>2, BecomeGood
<1>5. CASE Info(i).kind # "melee" /\ Info(i).kind # "satchel"
  BY <1>5 DEF SecondaryAttack
<1> QED
  BY <1>3, <1>4, <1>5

LEMMA ReloadButtonGood ==
    ASSUME Good(NowCarried), NEW i \in Items, ReloadButton(i)
    PROVE  Good(NowCarried)'
<1>1. PostFrame(i) /\ CarriedBecome(Reload(NowCarried, i))
  BY DEF ReloadButton
<1>2. Good(Reload(NowCarried, i))
  BY <1>1, PostFrameFacts, ReloadGood
<1> QED
  BY <1>1, <1>2, BecomeGood

LEMMA NoButtonGood ==
    ASSUME Good(NowCarried), NEW i \in Items, NoButton(i)
    PROVE  Good(NowCarried)'
<1> DEFINE s == Ready(NowCarried, i)
           next == GetNextBestWeapon(s, i)
           t == IF ~IsUseable(s, i)
                THEN IF next.ok THEN next.s ELSE WeaponIdle(s, i)
                ELSE IF s.i[i].clip = 0 THEN Reload(s, i) ELSE WeaponIdle(s, i)
<1>1. PostFrame(i) /\ CarriedBecome(t)
  BY DEF NoButton
<1>2. Good(s) /\ s.p.active = i
  BY <1>1, PostFrameFacts, ReadyGood
<1> HIDE DEF s
<1>3. next.ok => Changed(s, Boxed(s), i, next.s)
  BY <1>2, NextBestHandled DEF Good
<1> HIDE DEF next
<1>4. next.ok => Good(next.s)
  BY <1>2, <1>3, HandledGood DEF Changed
<1>5. Good(WeaponIdle(s, i)) /\ Good(Reload(s, i))
  BY <1>2, WeaponIdleGood, ReloadGood
<1>6. Good(t)
  BY <1>4, <1>5
<1> HIDE DEF t
<1> QED
  BY <1>1, <1>6, BecomeGood
-----------------------------------------------------------------------------
(* Thinks and deaths *)

LEMMA CreateThinkGood ==
    ASSUME NEW s, Good(s), NEW i \in Items, s.i[i].think = "CreateThink"
    PROVE  Good(CreateThink(s, i))
<1> DEFINE B == Boxed(s)
           w == [s EXCEPT !.p.weapons = @ \ {ItemClass[i]}]
           t == DestroyItem(w, i)
           u == [t EXCEPT !.p.active = NoItem, !.p.last = t.p.last]
           r == [u.i[i] EXCEPT !.think = "none"]
           v == [u EXCEPT !.i[i] = r]
<1>1. Sound(s, B) /\ Hud(s) /\ Quiet(s, B) /\ Chained(s.b.slots) /\ s \in CarriedState /\ ItemsKnown
      /\ Chained(s.p.slots)
  BY DEF Good, Sound
<1>2. i \in Held(s) /\ i \notin B
  BY <1>1 DEF Sound, Pending, Kept
<1>3. Unprimed(s)
  BY <1>1 DEF Sound, Primed, Unprimed
<1>4. /\ w \in CarriedState /\ Same(s, w) /\ w.i = s.i
      /\ w.p.weapons = s.p.weapons \ {ItemClass[i]}
      /\ w.p.active = s.p.active /\ w.p.last = s.p.last /\ w.p.slots = s.p.slots
  BY <1>1 DEF CarriedState, PlayerType, Same
<1>5. /\ ItemsKnown /\ w \in CarriedState /\ Chained(w.p.slots)
      /\ CreateThink(s, i) = Think([t EXCEPT !.p.active = NoItem], i, "none")
  BY <1>1, <1>4 DEF CreateThink
<1> HIDE DEF w
<1>6. /\ t \in CarriedState /\ Same(w, t)
      /\ t.p.weapons = w.p.weapons
      /\ t.p.active = IF w.p.active = i THEN NoItem ELSE w.p.active
      /\ t.p.last = IF w.p.last = i THEN NoItem ELSE w.p.last
      /\ Chained(t.p.slots)
      /\ Held(t) = Held(w) \ {i}
      /\ t.i[i] = [w.i[i] EXCEPT !.touch = FALSE, !.think = "SUB_Remove"]
      /\ \A j \in Items : j # i => t.i[j] = w.i[j]
  <2>1. ItemsKnown /\ w \in CarriedState /\ Chained(w.p.slots)
    BY <1>5
  <2> QED
    BY ZenonT(60), <2>1, DestroyItemFields
<1> HIDE DEF t
<1>7. s.i[i] \in ItemType(i)
  BY <1>1, ItemOf
<1>8. /\ t.i[i].exists = s.i[i].exists /\ ~t.i[i].touch /\ t.i[i].think = "SUB_Remove"
      /\ t.i[i].state = s.i[i].state
  BY <1>4, <1>6, <1>7 DEF ItemType
<1>9. Held(t) = Held(s) \ {i} /\ t.p.ammo = s.p.ammo /\ t.b = s.b
      /\ t.p.weapons = s.p.weapons \ {ItemClass[i]}
      /\ \A j \in Items : j # i => t.i[j] = s.i[j]
  BY <1>4, <1>6 DEF Held, Same
<1>10. t.i[i].state # "primed" /\ Unprimed(t)
  BY <1>3, <1>8, <1>9 DEF Unprimed
<1>11. Sound(t, B)
  <2>1. /\ t.p.active = IF s.p.active = i THEN NoItem ELSE s.p.active
        /\ t.p.last = IF s.p.last = i THEN NoItem ELSE s.p.last
    BY <1>4, <1>6
  <2>2. t.i[i].think \in {"none", "SUB_Remove"}
    BY <1>8
  <2> QED
    BY <1>1, <1>2, <1>6, <1>8, <1>9, <1>10, <2>1, <2>2, LeaveSound
<1>12. t.p.last \in Held(t) \cup {NoItem} /\ t \in CarriedState
  BY <1>11 DEF Sound, Kept
<1>13. Chosen(t, B, NoItem, t.p.last, u)
  <2>1. NoItem \in Held(t) \cup {NoItem}
    OBVIOUS
  <2> QED
    BY <1>10, <1>11, <1>12, <2>1, ActiveFields
<1>14. [t EXCEPT !.p.active = NoItem] = u
  BY <1>12 DEF CarriedState, PlayerType
<1> HIDE DEF u
<1>15. /\ Sound(u, B) /\ Unprimed(u) /\ Held(u) = Held(t) /\ u.i = t.i /\ u.b = t.b
       /\ u.p.weapons = t.p.weapons /\ u \in CarriedState
  BY <1>13 DEF Chosen, Same, Sound
<1>16. CreateThink(s, i) = v
  BY <1>5, <1>14 DEF Think
<1>17. u.i[i] \in ItemType(i)
  BY <1>15, ItemOf
<1>18. r \in ItemType(i) /\ r.exists = u.i[i].exists /\ r.state = u.i[i].state /\ ~r.touch
       /\ r.think = "none"
  BY <1>8, <1>15, <1>17 DEF ItemType, Thinks
<1> HIDE DEF r
<1>19. ItemPut(u, i, r, v)
  BY <1>15, <1>18, ItemFields
<1> HIDE DEF v
<1>20. Sound(v, B) /\ Held(v) = Held(u)
  <2>1. r.think \in {"none", "SUB_Remove"}
    BY <1>18
  <2> QED
    BY <1>15, <1>18, <1>19, <2>1, CalmSound
<1>21. v.p = u.p /\ v.b = s.b /\ \A j \in Items : j # i => v.i[j] = s.i[j]
  BY <1>9, <1>15, <1>19 DEF ItemPut, Same
<1>22. Hud(v)
  <2>1. Held(v) = Held(s) \ {i} /\ v.p.weapons = s.p.weapons \ {ItemClass[i]}
    BY <1>9, <1>15, <1>20, <1>21
  <2>2. \A j \in Held(s) : ItemClass[j] = ItemClass[i] => j = i
    BY <1>1, <1>2 DEF Sound, Kept
  <2> QED
    BY <1>1, <2>1, <2>2 DEF Hud
<1>23. Quiet(v, B)
  <2>1. \A j \in Held(v) \cup B : j \in Held(s) \cup B /\ j # i /\ j \in Items
    BY <1>2, <1>9, <1>15, <1>20 DEF Held, Boxed
  <2> QED
    BY <1>1, <1>21, <2>1 DEF Quiet
<1>24. Boxed(v) = B /\ Chained(v.b.slots)
  BY <1>1, <1>21 DEF Boxed
<1> QED
  BY <1>16, <1>20, <1>22, <1>23, <1>24 DEF Good

LEMMA AbsentType ==
    ASSUME ItemsKnown, NEW i \in Items
    PROVE  Absent \in ItemType(i) /\ Absent.state = "idle" /\ ~Absent.touch /\ Absent.think = "none"
<1>1. 0 \in Clips(i)
  <2>1. Info(i).kind = "gun" => Info(i).clip \in Nat
    BY ItemFacts
  <2> QED
    BY <2>1 DEF Clips
<1>2. "idle" \in States(i)
  BY DEF States
<1> QED
  BY <1>1, <1>2 DEF Absent, ItemType, Thinks

LEMMA ItemThinkGood ==
    ASSUME Good(NowCarried), NEW i \in Items, ItemThink(i)
    PROVE  Good(NowCarried)'
<1>1. NowCarried \in CarriedState /\ NowCarried.i = item /\ ItemsKnown
  BY CarriedNow
<1>2. item[i].think \in {"SUB_Remove", "Materialize"} =>
         i \notin Held(NowCarried) /\ i \notin Boxed(NowCarried)
  BY CarriedNow
<1>3. CASE item[i].think = "SUB_Remove"
  <2> DEFINE t == [NowCarried EXCEPT !.i[i] = Absent]
  <2>1. CarriedBecome(t)
    BY <1>3 DEF ItemThink
  <2>2. Absent \in ItemType(i) /\ Absent.state = "idle" /\ ~Absent.touch /\ Absent.think = "none"
    BY <1>1, AbsentType
  <2>3. ItemPut(NowCarried, i, Absent, t)
    BY <1>1, <2>2, ItemFields
  <2> HIDE DEF t
  <2>4. Good(t)
    BY <1>2, <1>3, <2>2, <2>3, WorldGood
  <2> QED
    BY <2>1, <2>4, BecomeGood
<1>4. CASE item[i].think = "CreateThink"
  <2>1. CarriedBecome(CreateThink(NowCarried, i))
    BY <1>4 DEF ItemThink
  <2>2. Good(CreateThink(NowCarried, i))
    BY <1>1, <1>4, CreateThinkGood
  <2> QED
    BY <2>1, <2>2, BecomeGood
<1>5. CASE item[i].think = "Materialize"
  <2> DEFINE r == [item[i] EXCEPT !.touch = TRUE, !.think = "none"]
             t == [NowCarried EXCEPT !.i[i] = r]
  <2>1. CarriedBecome([NowCarried EXCEPT !.i[i].touch = TRUE, !.i[i].think = "none"])
    BY <1>5 DEF ItemThink
  <2> HIDE DEF NowCarried
  <2>2. item[i] \in ItemType(i) /\ item \in ItemsType
    BY <1>1, ItemOf
  <2>3. item[i].exists
    BY <1>1, <1>5 DEF Good, Sound, Pending
  <2>4. r \in ItemType(i) /\ r.state = item[i].state /\ r.exists /\ r.think = "none"
    BY <2>2, <2>3 DEF ItemType, Thinks
  <2>5. [NowCarried EXCEPT !.i[i].touch = TRUE, !.i[i].think = "none"] = t
    BY <1>1, <2>2 DEF CarriedState, ItemsType
  <2> HIDE DEF r
  <2>6. ItemPut(NowCarried, i, r, t)
    BY <1>1, <2>4, ItemFields
  <2> HIDE DEF t
  <2>7. Good(t)
    BY <1>1, <1>2, <1>5, <2>4, <2>6, WorldGood
  <2> QED
    BY <2>1, <2>5, <2>7, BecomeGood
<1>6. CASE item[i].think \notin {"SUB_Remove", "CreateThink", "Materialize"}
  BY <1>6 DEF ItemThink
<1> QED
  BY <1>3, <1>4, <1>5, <1>6

LEMMA BoxTouchStepGood ==
    ASSUME Good(NowCarried), BoxTouch
    PROVE  Good(NowCarried)'
<1> DEFINE fed == SetToSeq({c \in Classes : WeaponInfo[c].ammo # "none"})
           given == CHOOSE f : f = [n \in 0..Len(fed) |->
                                       IF n = 0 THEN NowCarried ELSE BoxAmmo(f[n - 1], fed[n])]
           t == BoxWeapons(given[Len(fed)])
<1>1. CarriedBecome(t)
  BY DEF BoxTouch
<1>2. Good(t)
  BY BoxTouchGood
<1> HIDE DEF t
<1> QED
  BY <1>1, <1>2, BecomeGood

LEMMA BoxKillGood ==
    ASSUME Good(NowCarried), BoxKill
    PROVE  Good(NowCarried)'
<1> DEFINE s == NowCarried
           f == [i \in Items |-> IF Holds(box.slots, i) THEN [item[i] EXCEPT !.think = "SUB_Remove"]
                                 ELSE item[i]]
           t == [s EXCEPT !.i = f, !.b = NoBox]
<1>1. CarriedBecome(t)
  BY DEF BoxKill
<1>2. /\ Sound(s, {}) /\ s \in CarriedState /\ s.i = item /\ s.b = box /\ Hud(s)
      /\ s.i \in ItemsType /\ Held(s) \cap Boxed(s) = {} /\ Quiet(s, Boxed(s))
  BY CarriedNow DEF CarriedState, Good, Sound, Kept
<1> HIDE DEF s
<1>3. ASSUME NEW i \in Items
      PROVE  /\ f[i] \in ItemType(i) /\ f[i].exists = item[i].exists /\ f[i].state = item[i].state
             /\ f[i].touch = item[i].touch
             /\ f[i].think = item[i].think \/ f[i].think = "SUB_Remove"
             /\ i \notin Boxed(s) => f[i] = item[i]
  <2>1. item[i] \in ItemType(i)
    BY <1>2 DEF ItemsType
  <2>2. CASE Holds(box.slots, i)
    BY <1>2, <2>1, <2>2 DEF Boxed, ItemType, Thinks
  <2>3. CASE ~Holds(box.slots, i)
    BY <2>1, <2>3
  <2> QED
    BY <2>2, <2>3
<1>4. DOMAIN f = Items /\ f = [i \in Items |-> f[i]]
  OBVIOUS
<1> HIDE DEF f
<1>5. f \in ItemsType
  <2>1. f \in [Items -> UNION {ItemType(i) : i \in Items}]
    BY <1>3, <1>4
  <2> QED
    BY <1>3, <2>1 DEF ItemsType
<1>6. t \in CarriedState /\ t.i = f /\ t.p = s.p /\ t.b = NoBox
  BY <1>2, <1>5, NoBoxType DEF CarriedState
<1> HIDE DEF t
<1>7. Held(t) = Held(s) /\ Held(s) \subseteq Items
  BY <1>6 DEF Held
<1>8. \A i \in Held(s) : f[i] = item[i]
  BY <1>2, <1>3, <1>7
<1>9. Kept(t, {})
  BY <1>2, <1>6, <1>7, <1>8 DEF Sound, Kept
<1>10. Pending(t)
  <2> SUFFICES ASSUME NEW i \in Items
               PROVE  /\ t.i[i].touch \/ t.i[i].think = "Materialize" => t.i[i].exists
                      /\ t.i[i].think = "CreateThink" => i \in Held(t) /\ Info(i).kind = "melee"
    BY DEF Pending
  <2>1. /\ item[i].touch \/ item[i].think = "Materialize" => item[i].exists
        /\ item[i].think = "CreateThink" => i \in Held(s) /\ Info(i).kind = "melee"
    BY <1>2 DEF Sound, Pending
  <2> QED
    BY <1>3, <1>6, <1>7, <2>1
<1>11. Primed(t)
  <2>1. \A i \in Items : f[i].think = "CreateThink" => item[i].think = "CreateThink"
    BY <1>3
  <2> QED
    BY <1>2, <1>3, <1>6, <2>1 DEF Sound, Primed, HasAmmo
<1>12. Sound(t, {})
  BY <1>2, <1>6, <1>9, <1>10, <1>11 DEF Sound
<1>13. Boxed(t) = {} /\ Chained(t.b.slots)
  BY <1>6, NoBoxType DEF Boxed
<1>14. Hud(t) /\ Quiet(t, {})
  BY <1>2, <1>6, <1>7, <1>8 DEF Hud, Quiet
<1>15. Good(t)
  BY <1>12, <1>13, <1>14 DEF Good
<1> QED
  BY <1>1, <1>15, BecomeGood

LEMMA StripPlayerGood ==
    ASSUME Good(NowCarried), StripPlayer
    PROVE  Good(NowCarried)'
<1>1. CarriedBecome(RemoveAllItems(NowCarried))
  BY DEF StripPlayer
<1>2. Stripped(NowCarried, Boxed(NowCarried), RemoveAllItems(NowCarried))
  BY CarriedNow, RemoveAllItemsStripped
<1>3. Good(RemoveAllItems(NowCarried))
  BY <1>2, StrippedGood DEF Good
<1> QED
  BY <1>1, <1>3, BecomeGood

LEMMA KilledGood ==
    ASSUME Good(NowCarried), Killed
    PROVE  Good(NowCarried)'
<1> DEFINE s == HolsterActive(NowCarried)
           q == [s.p EXCEPT !.dead = TRUE]
           t == [s EXCEPT !.p = q]
<1>1. CarriedBecome([s EXCEPT !.p.dead = TRUE])
  BY DEF Killed
<1>2. Handled(NowCarried, Boxed(NowCarried), s)
  BY CarriedNow, HolsterActiveHandled
<1> HIDE DEF s
<1>3. Good(s) /\ s \in CarriedState
  BY <1>2, HandledGood DEF Handled, Sound
<1>4. q \in PlayerType /\ q.slots = s.p.slots /\ q.active = s.p.active /\ q.last = s.p.last
      /\ q.ammo = s.p.ammo /\ q.weapons = s.p.weapons
  BY <1>3 DEF CarriedState, PlayerType
<1>5. [s EXCEPT !.p.dead = TRUE] = t
  OBVIOUS
<1> HIDE DEF q
<1>6. PlayerPut(s, q, t)
  BY <1>3, <1>4, PlayerFields
<1> HIDE DEF t
<1>7. Good(t)
  BY <1>3, <1>4, <1>6, PlayerPutGood
<1> QED
  BY <1>1, <1>5, <1>7, BecomeGood

LEMMA PackDeadPlayerItemsGood ==
    ASSUME Good(NowCarried), PackDeadPlayerItems
    PROVE  Good(NowCarried)'
<1> DEFINE i == player.active
           b == [NoBox EXCEPT !.there = TRUE, !.kill = TRUE]
           s == [NowCarried EXCEPT !.b = b]
           fed == IF i # NoItem /\ Info(i).ammo # "none"
                  THEN PackAmmo(s, ItemClass[i], s.p.ammo[Info(i).ammo]) ELSE s
           t == IF i # NoItem THEN PackWeapon(fed, i) ELSE fed
<1>1. CarriedBecome(RemoveAllItems(t))
  BY DEF PackDeadPlayerItems
<1>2. /\ Sound(NowCarried, {}) /\ Quiet(NowCarried, {}) /\ NowCarried.i = item
      /\ i \in Held(NowCarried) \cup {NoItem} /\ TRUE \in BOOLEAN /\ ItemsKnown
      /\ i \in Held(NowCarried) => i \in Items /\ ~item[i].touch
  BY CarriedNow DEF Good, Quiet
<1> HIDE DEF i, t
<1>3. Sound(s, {}) /\ Held(s) = Held(NowCarried) /\ s.i = NowCarried.i /\ s.b.slots = NoBox.slots
  BY <1>2, NewBox
<1> HIDE DEF s, b
<1>4. Quiet(s, {}) /\ s \in CarriedState
  BY <1>2, <1>3 DEF Quiet, Sound
<1>5. /\ Sound(fed, {}) /\ Held(fed) = Held(s) /\ Quiet(fed, {}) /\ fed.i = s.i
      /\ fed.b.slots = NoBox.slots
  <2>1. CASE ~(i # NoItem /\ Info(i).ammo # "none")
    BY <1>3, <1>4, <2>1
  <2>2. CASE i # NoItem /\ Info(i).ammo # "none"
    <3>1. i \in Items /\ ItemClass[i] \in Classes /\ Info(i) = WeaponInfo[ItemClass[i]]
          /\ Info(i).ammo \in AmmoTypes
      BY <1>2, <2>2, ItemFacts
    <3>2. s.p.ammo[Info(i).ammo] \in Nat
      BY <1>4, <3>1, AmmoOf
    <3>3. Loaded(s, fed) /\ fed.p = s.p
      BY <1>4, <2>2, <3>1, <3>2, PackAmmoLoaded
    <3> HIDE DEF fed
    <3>4. Sound(fed, {}) /\ Held(fed) = Held(s) /\ (Quiet(s, {}) => Quiet(fed, {}))
      BY <1>3, <3>3, LoadedSound
    <3> QED
      BY <1>3, <1>4, <3>3, <3>4 DEF Loaded
  <2> QED
    BY <2>1, <2>2
<1> HIDE DEF fed
<1>6. Sound(t, Boxed(t)) /\ Quiet(t, Boxed(t)) /\ Chained(t.b.slots)
  <2>1. CASE i = NoItem
    <3>1. t = fed
      BY <2>1 DEF t
    <3>2. Boxed(fed) = {} /\ Chained(fed.b.slots)
      BY <1>5, NoBoxType DEF Boxed
    <3> QED
      BY <1>5, <3>1, <3>2
  <2>2. CASE i # NoItem
    <3>1. t = PackWeapon(fed, i) /\ i \in Items /\ ~fed.i[i].touch
      BY <1>2, <1>3, <1>5, <2>2 DEF t
    <3>2. Packed(fed, i, t)
      BY <1>5, <3>1, PackWeaponPacked
    <3> QED
      BY <1>5, <3>2 DEF Packed
  <2> QED
    BY <2>1, <2>2
<1>7. Stripped(t, Boxed(t), RemoveAllItems(t))
  BY <1>6, RemoveAllItemsStripped
<1>8. Good(RemoveAllItems(t))
  BY <1>6, <1>7, StrippedGood
<1> QED
  BY <1>1, <1>8, BecomeGood

LEMMA PlayerSpawnsGood ==
    ASSUME Good(NowCarried), PlayerSpawns
    PROVE  Good(NowCarried)'
<1> DEFINE s == NowCarried
           q == [s.p EXCEPT !.dead = FALSE, !.last = NoItem, !.ammo = NoBox.ammo]
           t == [s EXCEPT !.p = q]
<1>1. Carried(s) = <<>>
      /\ CarriedBecome([s EXCEPT !.p.dead = FALSE, !.p.last = NoItem, !.p.ammo = NoBox.ammo])
  BY DEF PlayerSpawns
<1>2. Sound(s, Boxed(s)) /\ s \in CarriedState /\ s.p \in PlayerType /\ ItemsKnown
      /\ s.p.slots \in ChainType /\ Chained(s.p.slots)
  BY CarriedNow DEF CarriedState, PlayerType, Sound
<1> HIDE DEF s
<1>3. Held(s) = {}
  <2>1. InSequence(s.p.slots, <<>>)
    BY <1>1, <1>2, InOrderFacts DEF Carried
  <2>2. \A i \in Items : ~Occurs(<<>>, i)
    BY DEF Occurs
  <2> QED
    BY <2>1, <2>2 DEF InSequence, Held
<1>4. Unprimed(s) /\ s.p.active = NoItem
  <2>1. s.p.active = NoItem
    BY <1>2, <1>3 DEF Sound, Kept
  <2>2. \A i \in Items : i # NoItem
    BY <1>2, ItemFacts
  <2> QED
    BY <1>2, <2>1, <2>2 DEF Sound, Primed, Unprimed
<1>5. q \in PlayerType /\ q.slots = s.p.slots /\ q.active = s.p.active /\ q.last = NoItem
      /\ q.weapons = s.p.weapons
  BY <1>2, NoBoxType DEF PlayerType
<1>6. [s EXCEPT !.p.dead = FALSE, !.p.last = NoItem, !.p.ammo = NoBox.ammo] = t
  BY <1>2 DEF CarriedState, PlayerType
<1> HIDE DEF q
<1>7. PlayerPut(s, q, t)
  BY <1>2, <1>5, PlayerFields
<1> HIDE DEF t
<1>8. t \in CarriedState /\ t.p = q /\ t.i = s.i /\ t.b = s.b
  BY <1>7 DEF PlayerPut
<1>9. Held(t) = {} /\ Boxed(t) = Boxed(s) /\ Unprimed(t)
  BY <1>3, <1>4, <1>5, <1>8 DEF Held, Boxed, Unprimed
<1>10. Kept(t, Boxed(s))
  BY <1>2, <1>3, <1>4, <1>5, <1>8, <1>9 DEF Sound, Kept
<1>11. Pending(t)
  BY <1>2, <1>3, <1>8, <1>9 DEF Sound, Pending
<1>12. Sound(t, Boxed(t))
  BY <1>2, <1>5, <1>8, <1>9, <1>10, <1>11, UnprimedIsPrimed DEF Sound
<1>13. Hud(t) /\ Quiet(t, Boxed(t)) /\ Chained(t.b.slots)
  BY <1>3, <1>5, <1>8, <1>9 DEF Good, Hud, Quiet, s
<1>14. Good(t)
  BY <1>12, <1>13 DEF Good
<1> QED
  BY <1>1, <1>6, <1>14, BecomeGood DEF s

-----------------------------------------------------------------------------
(* The weapons: theorems *)

LEMMA PlacedTouched ==
    ASSUME ItemsKnown, NEW i \in Items, NEW back \in BOOLEAN
    PROVE  /\ Placed(i, back) \in ItemType(i) /\ Placed(i, back).exists
           /\ Placed(i, back).state = "idle" /\ Placed(i, back).think = "none"
<1>1. Absent \in ItemType(i) /\ Absent.state = "idle" /\ Absent.think = "none"
  BY AbsentType
<1>2. Info(i).give \in Nat /\ (IF Info(i).kind = "melee" THEN NoClip ELSE 0) \in Clips(i)
  <2>1. Info(i).kind = "gun" => Info(i).clip \in Nat
    BY ItemFacts
  <2> QED
    BY <2>1, ItemFacts DEF Clips
<1> QED
  BY <1>1, <1>2 DEF Placed, ItemType, Absent

LEMMA WeaponInitGood ==
    ASSUME WeaponInit
    PROVE  Good(NowCarried)
<1> DEFINE s == NowCarried
<1>1. PICK cast \in Casts :
         item = [i \in cast |-> IF i \in InWorld THEN Placed(i, i \notin ComeBack) ELSE Absent]
  BY DEF WeaponInit
<1>2. Items = cast
  BY <1>1 DEF Items
<1>3. ItemsKnown
  BY <1>2, WeaponsAssumption DEF ItemsKnown
<1>4. /\ player = [slots |-> NoBox.slots, active |-> NoItem, last |-> NoItem, ammo |-> NoBox.ammo,
                   weapons |-> {}, dead |-> FALSE, crashed |-> FALSE]
      /\ box = NoBox
  BY NoBoxType DEF WeaponInit
<1>5. ASSUME NEW i \in Items
      PROVE  /\ item[i] \in ItemType(i) /\ item[i].state = "idle" /\ item[i].think = "none"
             /\ item[i].touch => item[i].exists
  <2>1. CASE i \in InWorld
    <3>1. item[i] = Placed(i, i \notin ComeBack) /\ (i \notin ComeBack) \in BOOLEAN
      BY <1>1, <1>2, <2>1
    <3> QED
      BY <1>3, <3>1, PlacedTouched
  <2>2. CASE i \notin InWorld
    <3>1. item[i] = Absent
      BY <1>1, <1>2, <2>2
    <3> QED
      BY <1>3, <3>1, AbsentType
  <2> QED
    BY <2>1, <2>2
<1>6. item \in ItemsType
  <2>1. item \in [Items -> UNION {ItemType(i) : i \in Items}]
    BY <1>1, <1>2, <1>5
  <2> QED
    BY <1>5, <2>1 DEF ItemsType
<1>7. player \in PlayerType
  BY <1>4, NoBoxType DEF PlayerType
<1>8. s.p = player /\ s.i = item /\ s.b = NoBox /\ s \in CarriedState
  BY <1>4, <1>6, <1>7, NoBoxType DEF NowCarried, CarriedState
<1> HIDE DEF s
<1>9. Held(s) = {} /\ Boxed(s) = {} /\ s.p.slots = NoBox.slots
  <2>1. s.p.slots = NoBox.slots /\ s.b.slots = NoBox.slots
    BY <1>4, <1>8
  <2>2. \A i : ~Holds(NoBox.slots, i)
    BY NoBoxType
  <2> QED
    BY <2>1, <2>2 DEF Held, Boxed
<1>10. Kept(s, {})
  BY <1>4, <1>8, <1>9 DEF Kept
<1>11. Pending(s)
  BY <1>5, <1>8 DEF Pending
<1>12. Primed(s)
  BY <1>5, <1>8 DEF Primed
<1>13. Sound(s, {})
  BY <1>3, <1>8, <1>9, <1>10, <1>11, <1>12, NoBoxType DEF Sound
<1>14. Hud(s) /\ Quiet(s, {})
  BY <1>4, <1>8, <1>9 DEF Hud, Quiet
<1>15. Chained(s.b.slots)
  BY <1>8, NoBoxType
<1> QED
  BY <1>9, <1>13, <1>14, <1>15 DEF Good, s

LEMMA WeaponsStutter ==
    ASSUME Good(NowCarried), UNCHANGED weaponVars
    PROVE  Good(NowCarried)'
<1>1. player' = player /\ item' = item /\ box' = box
  BY DEF weaponVars
<1>2. NowCarried \in CarriedState /\ NowCarried' = NowCarried /\ Items' = Items
  BY <1>1, CarriedNow DEF NowCarried, Items
<1>3. CarriedState' = CarriedState
  BY <1>2 DEF CarriedState, PlayerType, BoxType, ChainType, ItemsType
<1>4. Held(NowCarried)' = Held(NowCarried) /\ Boxed(NowCarried)' = Boxed(NowCarried)
  BY <1>2 DEF Held, Boxed
<1> HIDE DEF NowCarried
<1>5. Kept(NowCarried, Boxed(NowCarried))' /\ Quiet(NowCarried, Boxed(NowCarried))'
      /\ Hud(NowCarried)'
  BY <1>2, <1>4 DEF Good, Sound, Kept, Quiet, Hud
<1>6. Pending(NowCarried)' /\ Primed(NowCarried)' /\ ItemsKnown'
  BY <1>2, <1>4 DEF Good, Sound, Pending, Primed, HasAmmo, ItemsKnown
<1>7. Chained(NowCarried.p.slots)' /\ Chained(NowCarried.b.slots)'
  BY <1>2 DEF Good, Sound
<1>8. Sound(NowCarried, Boxed(NowCarried))'
  BY <1>2, <1>3, <1>4, <1>5, <1>6, <1>7 DEF Good, Sound
<1> QED
  BY <1>5, <1>7, <1>8 DEF Good

LEMMA WeaponNextGood ==
    ASSUME Good(NowCarried), [WeaponNext]_weaponVars
    PROVE  Good(NowCarried)'
<1>1. ASSUME NEW i \in Items, TouchItem(i) PROVE Good(NowCarried)'
  BY <1>1, TouchItemGood
<1>2. ASSUME NEW i \in Items, DropPlayerItem(i) PROVE Good(NowCarried)'
  BY <1>2, DropPlayerItemGood
<1>3. ASSUME NEW i \in Items, SelectItem(i) PROVE Good(NowCarried)'
  BY <1>3, SelectItemGood
<1>4. ASSUME NEW i \in Items, ItemThink(i) PROVE Good(NowCarried)'
  BY <1>4, ItemThinkGood
<1>5. ASSUME NEW i \in Items, PrimaryAttack(i) PROVE Good(NowCarried)'
  BY <1>5, PrimaryAttackGood
<1>6. ASSUME NEW i \in Items, SecondaryAttack(i) PROVE Good(NowCarried)'
  BY <1>6, SecondaryAttackGood
<1>7. ASSUME NEW i \in Items, ReloadButton(i) PROVE Good(NowCarried)'
  BY <1>7, ReloadButtonGood
<1>8. ASSUME NEW i \in Items, NoButton(i) PROVE Good(NowCarried)'
  BY <1>8, NoButtonGood
<1>9. ASSUME NEW c \in Classes, GiveNamedItem(c) PROVE Good(NowCarried)'
  BY <1>9, GiveNamedItemGood
<1>10. CASE SelectLastItem
  BY <1>10, SelectLastItemGood
<1>11. CASE BoxTouch
  BY <1>11, BoxTouchStepGood
<1>12. CASE BoxKill
  BY <1>12, BoxKillGood
<1>13. CASE StripPlayer
  BY <1>13, StripPlayerGood
<1>14. CASE Killed
  BY <1>14, KilledGood
<1>15. CASE PackDeadPlayerItems
  BY <1>15, PackDeadPlayerItemsGood
<1>16. CASE PlayerSpawns
  BY <1>16, PlayerSpawnsGood
<1>17. CASE UNCHANGED weaponVars
  BY <1>17, WeaponsStutter
<1> QED
  BY <1>1, <1>2, <1>3, <1>4, <1>5, <1>6, <1>7, <1>8, <1>9, <1>10, <1>11, <1>12, <1>13, <1>14,
     <1>15, <1>16, <1>17 DEF WeaponNext

LEMMA WeaponsStayGood == WeaponSpec => []Good(NowCarried)
<1>1. WeaponInit => Good(NowCarried)
  BY WeaponInitGood
<1>2. Good(NowCarried) /\ [WeaponNext]_weaponVars => Good(NowCarried)'
  BY WeaponNextGood
<1> QED
  BY <1>1, <1>2, PTL DEF WeaponSpec

\* What is in the chain of a slot is of the player or of the box.
LEMMA HeldOf ==
    ASSUME Good(NowCarried)
    PROVE  /\ Carried(NowCarried) \o InOrder(box.slots) \in Seq(Items)
           /\ Once(Carried(NowCarried) \o InOrder(box.slots))
           /\ \A i \in Items : Occurs(Carried(NowCarried) \o InOrder(box.slots), i)
                                 => i \in Held(NowCarried) \cup Boxed(NowCarried)
<1> DEFINE s == NowCarried
           mine == Carried(s)
           packed == InOrder(box.slots)
<1>1. Sound(s, Boxed(s)) /\ ItemsKnown /\ s \in CarriedState /\ s.b = box /\ Chained(s.b.slots)
  BY CarriedNow DEF Good
<1> HIDE DEF s
<1>2. /\ s.p.slots \in ChainType /\ Chained(s.p.slots)
      /\ s.b.slots \in ChainType /\ Held(s) \cap Boxed(s) = {}
  BY <1>1 DEF CarriedState, PlayerType, BoxType, Sound, Kept
<1>3. InSequence(s.p.slots, mine) /\ InSequence(s.b.slots, packed)
  BY <1>1, <1>2, InOrderFacts DEF Carried
<1> HIDE DEF mine, packed
<1>4. /\ mine \in Seq(Items) /\ Once(mine) /\ packed \in Seq(Items) /\ Once(packed)
      /\ \A i \in Items : Occurs(mine, i) <=> i \in Held(s)
      /\ \A i \in Items : Occurs(packed, i) <=> i \in Boxed(s)
  BY <1>3 DEF InSequence, Held, Boxed
<1>5. \A i \in Items : ~(Occurs(mine, i) /\ Occurs(packed, i))
  BY <1>2, <1>4
<1>6. /\ mine \o packed \in Seq(Items) /\ Once(mine \o packed)
      /\ \A i \in Items : Occurs(mine \o packed, i) <=> Occurs(mine, i) \/ Occurs(packed, i)
  BY <1>4, <1>5, ConcatFacts
<1>7. \A i \in Items : Occurs(mine \o packed, i) => i \in Held(s) \cup Boxed(s)
  BY <1>4, <1>6
<1> QED
  BY <1>6, <1>7 DEF mine, packed, s

\* None of the pointers of a player, an item or a box dangles, for every set of
\* weapons and of items: RemovePlayerItem, RetireWeapon, PackWeapon and
\* CWeaponBox::Touch leave each item in one chain at most, and the weapon in hand
\* and the last one in a chain of the player.
THEOREM ChainsStaySound == WeaponSpec => []ChainsAreSound
<1>1. ASSUME Good(NowCarried) PROVE ChainsAreSound
  <2> DEFINE all == Carried(NowCarried) \o InOrder(box.slots)
  <2>1. /\ ItemsKnown /\ NowCarried.p = player /\ NowCarried.i = item
        /\ Sound(NowCarried, Boxed(NowCarried)) /\ Quiet(NowCarried, Boxed(NowCarried))
    BY <1>1, CarriedNow DEF Good
  <2>2. /\ all \in Seq(Items) /\ Once(all)
        /\ \A i \in Items : Occurs(all, i) => i \in Held(NowCarried) \cup Boxed(NowCarried)
    BY <1>1, HeldOf
  <2> HIDE DEF all, NowCarried
  <2>3. \A i \in {player.active, player.last} \ {NoItem} : Holds(player.slots, i)
    BY <2>1 DEF Sound, Kept, Held
  <2>4. \A m, n \in DOMAIN all : m # n => all[m] # all[n]
    BY <2>2 DEF Once
  <2>5. ASSUME NEW i \in ToSet(all)
        PROVE  item[i].exists /\ ~item[i].touch /\ item[i].think # "SUB_Remove"
    <3>1. i \in Items /\ Occurs(all, i)
      BY <2>2 DEF ToSet, Occurs
    <3>2. i \in Held(NowCarried) \cup Boxed(NowCarried)
      BY <2>2, <3>1
    <3> QED
      BY <2>1, <3>2 DEF Sound, Kept, Quiet
  <2>6. ASSUME NEW c \in Classes PROVE Cardinality(CarriedOf(player.slots, c)) <= 1
    <3> DEFINE mine == CarriedOf(player.slots, c)
    <3>1. \A i, j \in mine : i = j
      BY <2>1 DEF Sound, Kept, Held, CarriedOf
    <3>2. CASE mine = {}
      BY <3>2, FS_EmptySet
    <3>3. CASE mine # {}
      <4>1. PICK i : mine = {i}
        BY <3>1, <3>3
      <4>2. Cardinality({i}) = 1
        BY FS_Singleton
      <4> QED
        BY <4>1, <4>2
    <3> QED
      BY <3>2, <3>3
  <2> QED
    BY <2>3, <2>4, <2>5, <2>6 DEF ChainsAreSound, all
<1> QED
  BY <1>1, WeaponsStayGood, PTL

\* The bits that the client draws the weapons from are the classes carried,
\* whichever way a weapon comes and goes.
THEOREM HudAlwaysShowsWeapons == WeaponSpec => []HudShowsWeapons
<1>1. ASSUME Good(NowCarried) PROVE HudShowsWeapons
  <2>1. ItemsKnown /\ NowCarried.p = player /\ Hud(NowCarried)
    BY <1>1, CarriedNow DEF Good
  <2> HIDE DEF NowCarried
  <2>2. \A i \in Held(NowCarried) : i \in Items /\ ItemClass[i] \in Classes
    BY <2>1, ItemFacts DEF Held
  <2>3. {ItemClass[i] : i \in Held(NowCarried)} = {c \in Classes : CarriedOf(player.slots, c) # {}}
    BY <2>1, <2>2 DEF Held, CarriedOf
  <2> QED
    BY <2>1, <2>3 DEF Hud, HudShowsWeapons
<1> QED
  BY <1>1, WeaponsStayGood, PTL

LEMMA WeaponsGoodTypes ==
    ASSUME SharedMax, Good(NowCarried)
    PROVE  WeaponTypeOK
<1>1. ItemsKnown /\ NowCarried.p = player /\ NowCarried.i = item /\ NowCarried.b = box
      /\ NowCarried \in CarriedState
  BY CarriedNow
<1> HIDE DEF NowCarried
<1>2. player \in PlayerType /\ item \in ItemsType /\ box \in BoxType
  BY <1>1 DEF CarriedState
<1>3. ASSUME NEW i \in Items
      PROVE  /\ item[i].clip \in NoClip..Info(i).clip \cup {0}
             /\ item[i].think \in {"none", "SUB_Remove", "CreateThink", "Materialize"}
             /\ item[i].state \in {"idle", "primed", "ready", "reload"}
  <2>1. item[i] \in ItemType(i)
    BY <1>2 DEF ItemsType
  <2>2. item[i].clip \in Clips(i) /\ item[i].think \in Thinks /\ item[i].state \in States(i)
    BY <2>1 DEF ItemType
  <2>3. item[i].clip \in NoClip..Info(i).clip \cup {0}
    BY <1>1, <2>2, ItemFacts DEF Clips, NoClip
  <2>4. item[i].state \in {"idle", "primed", "ready", "reload"}
    BY <2>2 DEF States
  <2> QED
    BY <2>2, <2>3, <2>4 DEF Thinks
<1>4. ASSUME NEW c \in Classes, WeaponInfo[c].ammo # "none"
      PROVE  /\ player.ammo[WeaponInfo[c].ammo] \in 0..WeaponInfo[c].max
             /\ box.ammo[WeaponInfo[c].ammo] \in 0..WeaponInfo[c].max
  <2>1. player.ammo \in AmmoType /\ box.ammo \in AmmoType
    BY <1>2 DEF PlayerType, BoxType
  <2>2. WeaponInfo[c].ammo \in AmmoTypes /\ WeaponInfo[c].max \in Nat
    BY <1>4, WeaponsAssumption DEF AmmoTypes
  <2> QED
    BY <1>4, <2>1, <2>2 DEF AmmoType, Within
<1>5. \A i \in {player.active, player.last} : i \in Items \cup {NoItem}
  BY <1>2 DEF PlayerType
<1> QED
  BY <1>3, <1>4, <1>5 DEF WeaponTypeOK

\* No clip holds more than its weapon takes and no ammunition leaves its bounds,
\* when the weapons that share an ammunition agree on how much of it can be
\* carried, as those of the model do (big_cock.cpp:104 asks for five times as much).
THEOREM WeaponsAreTyped == SharedMax => (WeaponSpec => []WeaponTypeOK)
<1> SUFFICES ASSUME SharedMax PROVE WeaponSpec => []WeaponTypeOK
  OBVIOUS
<1>1. Good(NowCarried) => WeaponTypeOK
  BY WeaponsGoodTypes
<1> QED
  BY <1>1, WeaponsStayGood, PTL

-----------------------------------------------------------------------------
(* The entities that fire each other *)

Runs == Managers \cup Clones
Delayers == Triggers \cup Kind("trigger_relay")

LEMMA ConfTypes ==
    /\ "none" \notin Entities /\ "none" \notin DOMAIN Targetname /\ MaxNesting \in Nat
    /\ \A name \in DOMAIN Targetname : Targetname[name] \in Seq(Entities)
    /\ Managers \subseteq Entities /\ Makers \subseteq Entities /\ Delayers \subseteq Entities
    /\ IsFiniteSet(Runs)
  BY TargetAssumption DEF Managers, Makers, Delayers, Triggers, Kind, Runs

LEMMA SeqFacts ==
    ASSUME NEW S, NEW s \in Seq(S)
    PROVE  Len(s) \in Nat /\ DOMAIN s = 1..Len(s) /\ \A i \in DOMAIN s : s[i] \in S
  OBVIOUS

LEMMA ListTypes ==
    \A m \in Managers :
        /\ Len(List(m)) \in Nat \ {0} /\ DOMAIN List(m) = 1..Len(List(m))
        /\ \A i \in DOMAIN List(m) : List(m)[i].target \in Names /\ List(m)[i].delay \in Nat
<1> SUFFICES ASSUME NEW m \in Managers
             PROVE  /\ Len(List(m)) \in Nat \ {0} /\ DOMAIN List(m) = 1..Len(List(m))
                    /\ \A i \in DOMAIN List(m) : List(m)[i].target \in Names
                                                 /\ List(m)[i].delay \in Nat
  OBVIOUS
<1>1. List(m) \in Seq([target : Names, delay : Nat]) /\ List(m) # <<>>
  BY TargetAssumption
<1> HIDE DEF List
<1> DEFINE l == List(m)
<1>2. l \in Seq([target : Names, delay : Nat]) /\ l # <<>>
  BY <1>1
<1> DEFINE S == [target : Names, delay : Nat]
<1> HIDE DEF l, S
<1>3. /\ Len(l) \in Nat /\ DOMAIN l = 1..Len(l)
      /\ \A i \in DOMAIN l : l[i] \in S
  BY <1>2, SeqFacts DEF S
<1>4. Len(l) # 0
  BY <1>2, EmptySeq
<1>5. /\ Len(l) \in Nat \ {0} /\ DOMAIN l = 1..Len(l)
      /\ \A i \in DOMAIN l : l[i].target \in Names /\ l[i].delay \in Nat
  BY <1>3, <1>4 DEF S
<1> QED
  BY <1>5 DEF l

-----------------------------------------------------------------------------
(* What is so in every state, in the middle of a call too. *)

GoodRun(r, x) ==
    x = Idle \/ /\ x.man \in Managers /\ (r \in Clones \/ x.man = r)
                /\ x.m_index \in DOMAIN List(x.man)
GoodMaker(s, m) ==
    LET c == s.children[m] IN
    /\ c.alive \in Nat /\ c.lost \in Nat /\ s.ent[m].live = c.alive + c.lost
    /\ m \in Limited => c.alive <= TargetConf[m].max
EntGood(s) == \A e \in Entities : /\ s.ent[e].next >= NoThink /\ s.ent[e].left >= -1
                                  /\ s.ent[e].live \in Nat
DelayedGood(s) == \A i \in DOMAIN s.delayed : s.delayed[i].from \in Delayers
                                              /\ s.delayed[i].next \in Nat
GoodTargets == {s \in TargetStates : /\ EntGood(s) /\ DelayedGood(s)
                                     /\ \A r \in Runs : GoodRun(r, s.runs[r])
                                     /\ \A m \in Makers : GoodMaker(s, m)}

\* From s to t, what a manager owes changes with what is ahead of its runs, and
\* a run stays as it is unless its manager is removed.
AccountKept(s, t, m) ==
    \A i \in DOMAIN List(m) : t.owed[m][i] - Cardinality(Ahead(t.runs, m, i))
                                 = s.owed[m][i] - Cardinality(Ahead(s.runs, m, i))
Steady(s, t) ==
    /\ \A m \in Managers : ~t.ent[m].gone => ~s.ent[m].gone /\ AccountKept(s, t, m)
    /\ \A r \in Runs : s.runs[r] # Idle =>
          t.runs[r] = s.runs[r] \/ t.ent[s.runs[r].man].gone

SameMaker(s, t, m) == t.ent[m].live = s.ent[m].live /\ t.children[m] = s.children[m]
Beyond(s, t, e) ==
    \A N \in SUBSET DOMAIN Targetname : FireWithin(N) /\ FiresAtOnce(e) \subseteq N =>
        \A m \in Makers \ (Reached(N) \cup {e}) : SameMaker(s, t, m)

\* What e does between s and t
Did(s, t, e) ==
    /\ t \in TargetStates
    /\ s \in GoodTargets => t \in GoodTargets /\ Steady(s, t) /\ Beyond(s, t, e)

\* What is expected of a way to fire names
Reaches(s, t, name) ==
    \A N \in SUBSET DOMAIN Targetname : FireWithin(N) /\ {name} \ {"none"} \subseteq N =>
        \A m \in Makers \ Reached(N) : SameMaker(s, t, m)
Fired(s, t, name) ==
    /\ t \in TargetStates
    /\ s \in GoodTargets => t \in GoodTargets /\ Steady(s, t) /\ Reaches(s, t, name)
Answers(fire) ==
    \A s \in TargetStates, name \in Names, useType \in UseTypes :
        Fired(s, fire[Call(s, name, useType)], name)

\* For the provers: the fields of a state, and what is a state.
LEMMA TargetFields ==
    ASSUME NEW s \in TargetStates
    PROVE  /\ s.ent \in [Entities -> EntType] /\ s.runs \in [Runs -> RunType]
           /\ s.delayed \in Seq(FiringType)
           /\ s.owed \in [Managers -> Seq(Int)]
           /\ \A m \in Managers : DOMAIN s.owed[m] = DOMAIN List(m)
           /\ s.children \in [Makers -> [alive : Int, lost : Int]]
           /\ s.clear \in BOOLEAN /\ s.full \in BOOLEAN
  BY DEF TargetStates, OwedType, Runs

LEMMA EntFields ==
    ASSUME NEW x \in EntType
    PROVE  /\ x.gone \in BOOLEAN /\ x.active \in BOOLEAN
           /\ x.next \in Int /\ x.left \in Int /\ x.live \in Int
  BY DEF EntType

\* An entity with another field.
LEMMA EntSet ==
    ASSUME NEW x \in EntType
    PROVE  /\ [x EXCEPT !.gone = TRUE] \in EntType
           /\ \A b \in BOOLEAN : /\ [x EXCEPT !.active = b] \in EntType
                                /\ [x EXCEPT !.gone = b] \in EntType
           /\ \A i \in Int : /\ [x EXCEPT !.next = i] \in EntType
                            /\ [x EXCEPT !.left = i] \in EntType
                            /\ [x EXCEPT !.live = i] \in EntType
  BY DEF EntType

LEMMA EntUpdate ==
    ASSUME NEW s \in TargetStates, NEW x \in [Entities -> EntType]
    PROVE  LET t == [s EXCEPT !.ent = x]
           IN  /\ t \in TargetStates /\ t.ent = x /\ t.runs = s.runs /\ t.delayed = s.delayed
               /\ t.owed = s.owed /\ t.children = s.children
<1> HIDE DEF EntType
<1> QED
  BY DEF TargetStates

LEMMA RunsUpdate ==
    ASSUME NEW s \in TargetStates, NEW x \in [Runs -> RunType]
    PROVE  LET t == [s EXCEPT !.runs = x]
           IN  /\ t \in TargetStates /\ t.ent = s.ent /\ t.runs = x /\ t.delayed = s.delayed
               /\ t.owed = s.owed /\ t.children = s.children
  BY DEF TargetStates, Runs

LEMMA DelayedUpdate ==
    ASSUME NEW s \in TargetStates, NEW x \in Seq(FiringType)
    PROVE  LET t == [s EXCEPT !.delayed = x]
           IN  /\ t \in TargetStates /\ t.ent = s.ent /\ t.runs = s.runs /\ t.delayed = x
               /\ t.owed = s.owed /\ t.children = s.children
  BY DEF TargetStates

\* Fields of an entity of a state
LEMMA EntPut ==
    ASSUME NEW s \in TargetStates, NEW e \in Entities, NEW v \in EntType
    PROVE  LET t == [s EXCEPT !.ent[e] = v]
           IN  /\ t \in TargetStates /\ t.ent = [s.ent EXCEPT ![e] = v]
               /\ t.runs = s.runs /\ t.delayed = s.delayed
               /\ t.owed = s.owed /\ t.children = s.children
<1> DEFINE x == [s.ent EXCEPT ![e] = v]
<1>1. x \in [Entities -> EntType]
  BY TargetFields
<1>2. [s EXCEPT !.ent[e] = v] = [s EXCEPT !.ent = x]
  OBVIOUS
<1> HIDE DEF x
<1>3. LET t == [s EXCEPT !.ent = x]
      IN  /\ t \in TargetStates /\ t.ent = x /\ t.runs = s.runs /\ t.delayed = s.delayed
          /\ t.owed = s.owed /\ t.children = s.children
  BY <1>1, EntUpdate
<1> QED
  BY <1>2, <1>3 DEF x

LEMMA AppendGood ==
    ASSUME NEW S, NEW s \in Seq(S), NEW x \in S
    PROVE  LET a == Append(s, x)
           IN  /\ a \in Seq(S)
               /\ \A i \in DOMAIN a : a[i] = x \/ (i \in DOMAIN s /\ a[i] = s[i])
<1>1. /\ Append(s, x) \in Seq(S) /\ Len(s) \in Nat /\ DOMAIN s = 1..Len(s)
      /\ DOMAIN Append(s, x) = 1..Len(s) + 1
      /\ Append(s, x)[Len(s) + 1] = x
      /\ \A i \in 1..Len(s) : Append(s, x)[i] = s[i]
  BY AppendProperties
<1>2. \A i \in 1..Len(s) + 1 : i = Len(s) + 1 \/ i \in 1..Len(s)
  BY <1>1
<1> QED
  BY <1>1, <1>2

LEMMA SteadySelf == \A s : Steady(s, s)
  BY DEF Steady, AccountKept

LEMMA SteadyTwice ==
    ASSUME NEW s \in GoodTargets, NEW t \in GoodTargets, NEW u \in GoodTargets,
           Steady(s, t), Steady(t, u)
    PROVE  Steady(s, u)
<1>1. ASSUME NEW m \in Managers, ~u.ent[m].gone PROVE ~s.ent[m].gone /\ AccountKept(s, u, m)
  BY <1>1 DEF Steady, AccountKept
<1>2. ASSUME NEW r \in Runs, s.runs[r] # Idle
      PROVE  u.runs[r] = s.runs[r] \/ u.ent[s.runs[r].man].gone
  <2>1. s.runs[r].man \in Managers
    BY <1>2 DEF GoodTargets, GoodRun
  <2> QED
    BY <1>2, <2>1 DEF Steady
<1> QED
  BY <1>1, <1>2 DEF Steady

LEMMA SameTwice ==
    \A s, t, u : \A m : SameMaker(s, t, m) /\ SameMaker(t, u, m) => SameMaker(s, u, m)
  BY DEF SameMaker

\* Two calls of one entity
LEMMA DidTwice ==
    ASSUME NEW s \in TargetStates, NEW t, NEW u, NEW e, Did(s, t, e), Did(t, u, e)
    PROVE  Did(s, u, e)
<1>1. u \in TargetStates
  BY DEF Did
<1>2. ASSUME s \in GoodTargets PROVE u \in GoodTargets /\ Steady(s, u) /\ Beyond(s, u, e)
  <2>1. t \in GoodTargets /\ u \in GoodTargets
    BY <1>2 DEF Did
  <2>2. Steady(s, t) /\ Steady(t, u) /\ Beyond(s, t, e) /\ Beyond(t, u, e)
    BY <1>2, <2>1 DEF Did
  <2>3. Steady(s, u)
    BY <1>2, <2>1, <2>2, SteadyTwice
  <2>4. Beyond(s, u, e)
    BY <2>2, SameTwice DEF Beyond
  <2> QED
    BY <2>1, <2>3, <2>4
<1> QED
  BY <1>1, <1>2 DEF Did

-----------------------------------------------------------------------------
(* Calls that fire nothing *)

\* A state of which only entities and makers have changed, none of which was
\* removed or came back, and no counts of children.
Still(s, t) ==
    /\ t \in TargetStates
    /\ t.runs = s.runs /\ t.owed = s.owed /\ t.children = s.children
    /\ \A e \in Entities : (s.ent[e].gone => t.ent[e].gone) /\ t.ent[e].live = s.ent[e].live

LEMMA StillDid ==
    ASSUME NEW s \in TargetStates, NEW t, NEW e, Still(s, t),
           EntGood(s) => EntGood(t), DelayedGood(s) => DelayedGood(t)
    PROVE  Did(s, t, e)
<1>1. t \in TargetStates
  BY DEF Still
<1>2. ASSUME s \in GoodTargets PROVE t \in GoodTargets
  <2>1. \A m \in Makers : m \in Entities
    BY ConfTypes
  <2>2. \A m \in Makers : GoodMaker(t, m)
    BY <1>2, <2>1 DEF GoodTargets, GoodMaker, Still
  <2> QED
    BY <1>1, <1>2, <2>2 DEF GoodTargets, Still
<1>3. Steady(s, t)
  <2>1. \A m \in Managers : m \in Entities
    BY ConfTypes
  <2> QED
    BY <2>1, TargetFields, <1>1 DEF Steady, AccountKept, Still
<1>4. Beyond(s, t, e)
  BY ConfTypes DEF Beyond, SameMaker, Still
<1> QED
  BY <1>1, <1>2, <1>3, <1>4 DEF Did

\* Another value for one entity.
LEMMA PutDid ==
    ASSUME NEW s \in TargetStates, NEW e \in Entities, NEW v,
           NEW t \in TargetStates, t.ent = [s.ent EXCEPT ![e] = v], t.runs = s.runs,
           t.delayed = s.delayed, t.owed = s.owed, t.children = s.children,
           v.live = s.ent[e].live, s.ent[e].gone => v.gone,
           s.ent[e].left >= -1 => v.left >= -1, s.ent[e].next >= -1 => v.next >= -1
    PROVE  Did(s, t, e)
<1>1. \A d \in Entities : t.ent[d] = IF d = e THEN v ELSE s.ent[d]
  BY TargetFields
<1>2. Still(s, t)
  BY <1>1 DEF Still
<1>3. (EntGood(s) => EntGood(t)) /\ (DelayedGood(s) => DelayedGood(t))
  BY <1>1 DEF EntGood, DelayedGood, NoThink
<1> QED
  BY <1>2, <1>3, StillDid

\* UTIL_Remove, of a name and of its runs
LEMMA KillDid ==
    ASSUME NEW s \in TargetStates, NEW name \in Names, NEW e
    PROVE  Did(s, Kill(s, name), e)
<1> DEFINE dead == IF name = "none" THEN {}
                   ELSE {Targetname[name][i] : i \in DOMAIN Targetname[name]}
           t == Kill(s, name)
<1>1. t = [s EXCEPT !.ent = [d \in Entities |-> IF d \in dead THEN [s.ent[d] EXCEPT !.gone = TRUE]
                                               ELSE s.ent[d]],
                    !.runs = [r \in Runs |-> IF s.runs[r].man \in dead THEN Idle ELSE s.runs[r]]]
  BY TargetFields DEF Kill
<1> HIDE DEF dead
<1> DEFINE ents == [d \in Entities |-> IF d \in dead THEN [s.ent[d] EXCEPT !.gone = TRUE]
                                    ELSE s.ent[d]]
           rs == [r \in Runs |-> IF s.runs[r].man \in dead THEN Idle ELSE s.runs[r]]
           k == [s EXCEPT !.ent = ents]
<1>2. Idle \in RunType
  BY DEF Idle, RunType
<1>3. ents \in [Entities -> EntType] /\ rs \in [Runs -> RunType]
  BY <1>2, TargetFields, EntSet
<1>4. /\ t \in TargetStates /\ t.runs = rs /\ t.ent = ents
      /\ t.owed = s.owed /\ t.children = s.children /\ t.delayed = s.delayed
  <2>1. t = [k EXCEPT !.runs = rs]
    BY <1>1
  <2> HIDE DEF ents, rs, t
  <2>2. /\ k \in TargetStates /\ k.ent = ents /\ k.delayed = s.delayed
        /\ k.owed = s.owed /\ k.children = s.children
    BY <1>3, EntUpdate
  <2> HIDE DEF k
  <2> QED
    BY <1>3, <2>1, <2>2, RunsUpdate
<1> HIDE DEF t, k
<1>5. \A d \in Entities : /\ t.ent[d].live = s.ent[d].live /\ t.ent[d].next = s.ent[d].next
                          /\ t.ent[d].left = s.ent[d].left
                          /\ t.ent[d].gone <=> s.ent[d].gone \/ d \in dead
  <2> SUFFICES ASSUME NEW d \in Entities
               PROVE  /\ t.ent[d].live = s.ent[d].live /\ t.ent[d].next = s.ent[d].next
                      /\ t.ent[d].left = s.ent[d].left
                      /\ t.ent[d].gone <=> s.ent[d].gone \/ d \in dead
    OBVIOUS
  <2>1. CASE d \in dead
    <3>1. t.ent[d] = [s.ent[d] EXCEPT !.gone = TRUE] /\ s.ent[d] \in EntType
      BY <1>4, <2>1, TargetFields
    <3> QED
      BY <2>1, <3>1 DEF EntType
  <2>2. CASE d \notin dead
    BY <1>4, <2>2
  <2> QED
    BY <2>1, <2>2
<1>6. ASSUME s \in GoodTargets PROVE t \in GoodTargets
  <2>1. \A m \in Makers : GoodMaker(t, m)
    BY <1>4, <1>5, <1>6, ConfTypes DEF GoodTargets, GoodMaker
  <2>2. \A r \in Runs : GoodRun(r, t.runs[r])
    BY <1>4, <1>6 DEF GoodTargets, GoodRun
  <2>3. EntGood(t) /\ DelayedGood(t)
    BY <1>4, <1>5, <1>6 DEF GoodTargets, EntGood, DelayedGood
  <2> QED
    BY <1>4, <2>1, <2>2, <2>3 DEF GoodTargets
<1>7. ASSUME s \in GoodTargets PROVE Steady(s, t)
  <2>1. ASSUME NEW m \in Managers, ~t.ent[m].gone PROVE ~s.ent[m].gone /\ AccountKept(s, t, m)
    <3>1. m \in Entities /\ m # "none"
      BY ConfTypes
    <3>2. ~s.ent[m].gone /\ m \notin dead
      BY <1>5, <2>1, <3>1
    <3>3. \A i : Ahead(t.runs, m, i) = Ahead(s.runs, m, i)
      <4>1. DOMAIN s.runs = Runs /\ DOMAIN t.runs = Runs
        BY <1>4, TargetFields
      <4> QED
        BY <1>4, <3>1, <3>2, <4>1 DEF Ahead, Idle
    <3> QED
      BY <1>4, <3>2, <3>3 DEF AccountKept
  <2>2. ASSUME NEW r \in Runs, s.runs[r] # Idle
        PROVE  t.runs[r] = s.runs[r] \/ t.ent[s.runs[r].man].gone
    <3>1. s.runs[r].man \in Entities
      BY <1>7, <2>2, ConfTypes DEF GoodTargets, GoodRun
    <3> QED
      BY <1>4, <1>5, <3>1
  <2> QED
    BY <2>1, <2>2 DEF Steady
<1>8. Beyond(s, t, e)
  BY <1>4, <1>5, ConfTypes DEF Beyond, SameMaker
<1> QED
  BY <1>4, <1>6, <1>7, <1>8 DEF Did, t

\* A firing of the target of e by e itself
LEMMA FiredDid ==
    ASSUME NEW s \in TargetStates, NEW t, NEW e \in Entities, NEW name \in Names,
           Fired(s, t, name), {name} \ {"none"} \subseteq FiresAtOnce(e)
    PROVE  Did(s, t, e)
  BY DEF Fired, Did, Reaches, Beyond

-----------------------------------------------------------------------------
(* Calls that fire: fire stands for the firings one level deeper. *)

LEMMA SUB_UseTargetsDid ==
    ASSUME NEW fire, Answers(fire), NEW s \in TargetStates, NEW e \in Delayers,
           NEW useType \in UseTypes
    PROVE  Did(s, SUB_UseTargets(fire, s, e, useType), e)
<1> DEFINE c == TargetConf[e]
           t == SUB_UseTargets(fire, s, e, useType)
<1>1. /\ e \in Entities /\ c.target \in Names /\ c.killtarget \in Names /\ c.delay \in Nat
      /\ c.delay = 0 => FiresAtOnce(e) = {c.target} \ {"none"}
  BY ConfTypes, TargetAssumption DEF Delayers, FiresAtOnce
<1>2. CASE c.target = "none" /\ c.killtarget = "none"
  <2>1. t = s
    BY <1>2 DEF SUB_UseTargets
  <2> QED
    BY <2>1, StillDid DEF Still
<1>3. CASE ~(c.target = "none" /\ c.killtarget = "none") /\ c.delay # 0
  <2> DEFINE d == [from |-> e, useType |-> useType, next |-> c.delay]
  <2>1. t = [s EXCEPT !.delayed = Append(s.delayed, d)]
    BY <1>3 DEF SUB_UseTargets
  <2>2. d \in FiringType
    BY <1>1 DEF FiringType
  <2>3. s.delayed \in Seq(FiringType)
    BY TargetFields
  <2>4. /\ d.from = e /\ d.next = c.delay
        /\ d.next \in Nat
    BY <1>1
  <2> HIDE DEF d
  <2> DEFINE all == Append(s.delayed, d)
  <2>5. /\ all \in Seq(FiringType)
        /\ \A i \in DOMAIN all : all[i] = d \/ (i \in DOMAIN s.delayed /\ all[i] = s.delayed[i])
    BY <2>2, <2>3, AppendGood
  <2>6. /\ t \in TargetStates /\ t.ent = s.ent /\ t.runs = s.runs
        /\ t.delayed = all /\ t.owed = s.owed /\ t.children = s.children
    BY <2>1, <2>5, DelayedUpdate
  <2>7. Still(s, t)
    BY <2>6 DEF Still
  <2>8. DelayedGood(s) => DelayedGood(t)
    BY <2>4, <2>5, <2>6 DEF DelayedGood
  <2>9. EntGood(s) => EntGood(t)
    BY <2>6 DEF EntGood
  <2> QED
    BY <2>7, <2>8, <2>9, StillDid
<1>4. CASE ~(c.target = "none" /\ c.killtarget = "none") /\ c.delay = 0
  <2> DEFINE k == Kill(s, c.killtarget)
  <2>1. t = fire[Call(k, c.target, useType)]
    BY <1>4 DEF SUB_UseTargets
  <2>2. Did(s, k, e)
    BY <1>1, KillDid
  <2>3. k \in TargetStates
    BY <2>2 DEF Did
  <2> HIDE DEF k
  <2>4. Fired(k, t, c.target)
    BY <1>1, <2>1, <2>3 DEF Answers
  <2>5. Did(k, t, e)
    BY <1>1, <1>4, <2>3, <2>4, FiredDid
  <2> QED
    BY <2>2, <2>5, DidTwice
<1> QED
  BY <1>2, <1>3, <1>4

LEMMA ActivateMultiTriggerDid ==
    ASSUME NEW fire, Answers(fire), NEW s \in TargetStates, NEW e \in Triggers
    PROVE  Did(s, ActivateMultiTrigger(fire, s, e), e)
<1> DEFINE u == SUB_UseTargets(fire, s, e, "TOGGLE")
           wait == IF TargetConf[e].wait > 0 THEN TargetConf[e].wait ELSE 1
           t == ActivateMultiTrigger(fire, s, e)
<1>1. e \in Entities /\ e \in Delayers /\ wait \in Nat
  BY ConfTypes, TargetAssumption DEF Delayers
<1>2. CASE t = s
  BY <1>2, StillDid DEF Still
<1>3. CASE t = [u EXCEPT !.ent[e].next = wait, !.ent[e].active = TRUE]
  <2>1. Did(s, u, e)
    BY <1>1, SUB_UseTargetsDid DEF UseTypes
  <2>2. u \in TargetStates
    BY <2>1 DEF Did
  <2> HIDE DEF u, wait
  <2> DEFINE v == [u.ent[e] EXCEPT !.next = wait, !.active = TRUE]
  <2>3. u.ent[e] \in EntType
    BY <1>1, <2>2, TargetFields
  <2>4. v \in EntType /\ t = [u EXCEPT !.ent[e] = v]
    <3>1. [u.ent[e] EXCEPT !.next = wait] \in EntType
      <4>1. wait \in Int
        BY <1>1
      <4> QED
        BY <2>3, <4>1, EntSet
    <3>2. v = [[u.ent[e] EXCEPT !.next = wait] EXCEPT !.active = TRUE]
      OBVIOUS
    <3>3. v \in EntType
      BY <3>1, <3>2, EntSet
    <3>4. [u EXCEPT !.ent[e].next = wait, !.ent[e].active = TRUE] = [u EXCEPT !.ent[e] = v]
      BY <1>1, <2>2, TargetFields
    <3> HIDE DEF v
    <3> QED
      BY <1>3, <3>3, <3>4
  <2>5. v.live = u.ent[e].live /\ v.left = u.ent[e].left /\ v.gone = u.ent[e].gone /\ v.next = wait
    BY <2>3 DEF EntType
  <2> HIDE DEF v, t
  <2>6. /\ t \in TargetStates /\ t.ent = [u.ent EXCEPT ![e] = v] /\ t.runs = u.runs
        /\ t.delayed = u.delayed /\ t.owed = u.owed /\ t.children = u.children
    BY <1>1, <2>2, <2>4, EntPut
  <2>7. Did(u, t, e)
    BY <1>1, <2>2, <2>5, <2>6, PutDid DEF NoThink
  <2> QED
    BY <2>1, <2>7, DidTwice DEF t
<1> QED
  BY <1>2, <1>3 DEF ActivateMultiTrigger

LEMMA CounterUseDid ==
    ASSUME NEW fire, Answers(fire), NEW s \in TargetStates, NEW e \in Kind("trigger_counter")
    PROVE  Did(s, CounterUse(fire, s, e), e)
<1> DEFINE left == IF s.ent[e].left < 0 THEN s.ent[e].left ELSE s.ent[e].left - 1
           t == [s EXCEPT !.ent[e].left = left]
           v == [s.ent[e] EXCEPT !.left = left]
<1>1. e \in Entities /\ e \in Triggers
  BY DEF Triggers, Kind
<1>2. CounterUse(fire, s, e) = IF t.ent[e].left = 0 THEN ActivateMultiTrigger(fire, t, e) ELSE t
  BY <1>1, TargetFields DEF CounterUse
<1>3. s.ent[e] \in EntType
  BY <1>1, TargetFields
<1>4. left \in Int /\ (s.ent[e].left >= -1 => left >= -1)
  BY <1>3, EntFields
<1> HIDE DEF left
<1>5. v \in EntType /\ t = [s EXCEPT !.ent[e] = v]
  BY <1>1, <1>3, <1>4, EntSet, TargetFields
<1>6. /\ v.live = s.ent[e].live /\ v.left = left /\ v.gone = s.ent[e].gone
      /\ v.next = s.ent[e].next
  BY <1>3 DEF EntType
<1> HIDE DEF v, t
<1>7. /\ t \in TargetStates /\ t.ent = [s.ent EXCEPT ![e] = v] /\ t.runs = s.runs
      /\ t.delayed = s.delayed /\ t.owed = s.owed /\ t.children = s.children
  BY <1>1, <1>5, EntPut
<1>8. Did(s, t, e)
  BY <1>1, <1>4, <1>6, <1>7, PutDid
<1>9. Did(t, ActivateMultiTrigger(fire, t, e), e)
  BY <1>1, <1>7, ActivateMultiTriggerDid
<1> QED
  BY <1>2, <1>8, <1>9, DidTwice

LEMMA RelayUseDid ==
    ASSUME NEW fire, Answers(fire), NEW s \in TargetStates, NEW e \in Kind("trigger_relay")
    PROVE  Did(s, RelayUse(fire, s, e), e)
<1> DEFINE u == SUB_UseTargets(fire, s, e, TargetConf[e].useType)
           t == [u EXCEPT !.ent[e].gone = TRUE]
           v == [u.ent[e] EXCEPT !.gone = TRUE]
<1>1. e \in Entities /\ e \in Delayers /\ TargetConf[e].useType \in UseTypes
  BY ConfTypes, TargetAssumption DEF Delayers
<1>2. RelayUse(fire, s, e) = IF TargetConf[e].once THEN t ELSE u
  BY DEF RelayUse
<1>3. Did(s, u, e)
  BY <1>1, SUB_UseTargetsDid
<1>4. u \in TargetStates
  BY <1>3 DEF Did
<1> HIDE DEF u
<1>5. u.ent[e] \in EntType
  BY <1>1, <1>4, TargetFields
<1>6. v \in EntType /\ t = [u EXCEPT !.ent[e] = v]
  BY <1>5, EntSet
<1>7. /\ v.live = u.ent[e].live /\ v.left = u.ent[e].left /\ v.gone
      /\ v.next = u.ent[e].next
  BY <1>5 DEF EntType
<1> HIDE DEF v, t
<1>8. /\ t \in TargetStates /\ t.ent = [u.ent EXCEPT ![e] = v] /\ t.runs = u.runs
      /\ t.delayed = u.delayed /\ t.owed = u.owed /\ t.children = u.children
  BY <1>1, <1>4, <1>6, EntPut
<1>9. Did(u, t, e)
  BY <1>1, <1>4, <1>7, <1>8, PutDid
<1> QED
  BY <1>2, <1>3, <1>9, DidTwice

\* What is ahead, as a set of runs
LEMMA AheadFacts ==
    ASSUME NEW rs, DOMAIN rs = Runs, NEW m, NEW i
    PROVE  IsFiniteSet(Ahead(rs, m, i)) /\ Cardinality(Ahead(rs, m, i)) \in Nat
<1>1. Ahead(rs, m, i) \subseteq Runs
  BY DEF Ahead
<1> QED
  BY <1>1, ConfTypes, FS_Subset, FS_CardinalityType

\* One run more has all targets of its manager ahead.
LEMMA StartDid ==
    ASSUME NEW s \in TargetStates, NEW m \in Managers, ~s.ent[m].gone, NEW r \in Runs,
           s.runs[r] = Idle, r \in Clones \/ r = m
    PROVE  Did(s, Start(s, m, r), m)
<1> DEFINE x == [man |-> m, m_index |-> 1, elapsed |-> 0]
           o == [i \in DOMAIN List(m) |-> s.owed[m][i] + 1]
           t == Start(s, m, r)
<1>1. t = [s EXCEPT !.runs[r] = x, !.owed[m] = o]
  BY DEF Start
<1>2. x \in RunType /\ x.man = m /\ x.m_index = 1 /\ x # Idle
  BY ConfTypes DEF RunType, Idle
<1>3. GoodRun(r, x)
  BY <1>2, ListTypes DEF GoodRun
<1> HIDE DEF x
<1>4. /\ DOMAIN List(m) = 1..Len(List(m)) /\ Len(List(m)) \in Nat
      /\ s.owed[m] \in Seq(Int) /\ DOMAIN s.owed[m] = DOMAIN List(m)
  BY ListTypes, TargetFields
<1>5. o \in Seq(Int) /\ DOMAIN o = DOMAIN List(m)
      /\ \A i \in DOMAIN List(m) : o[i] = s.owed[m][i] + 1 /\ s.owed[m][i] \in Int
  BY <1>4
<1> HIDE DEF o
<1>6. /\ [s.runs EXCEPT ![r] = x] \in [Runs -> RunType]
      /\ [s.owed EXCEPT ![m] = o] \in OwedType
  BY <1>2, <1>5, TargetFields DEF OwedType
<1>7. /\ t \in TargetStates /\ t.runs = [s.runs EXCEPT ![r] = x] /\ t.owed = [s.owed EXCEPT ![m] = o]
      /\ t.ent = s.ent /\ t.children = s.children /\ t.delayed = s.delayed
  BY <1>1, <1>6 DEF TargetStates, Runs
<1> HIDE DEF t
<1>8. DOMAIN s.runs = Runs /\ DOMAIN t.runs = Runs
      /\ \A q \in Runs : t.runs[q] = IF q = r THEN x ELSE s.runs[q]
  BY <1>7, TargetFields
<1>9. ASSUME s \in GoodTargets PROVE t \in GoodTargets
  <2>1. \A k \in Makers : GoodMaker(t, k)
    BY <1>7, <1>9 DEF GoodTargets, GoodMaker
  <2>2. \A q \in Runs : GoodRun(q, t.runs[q])
    BY <1>3, <1>8, <1>9 DEF GoodTargets
  <2>3. EntGood(t) /\ DelayedGood(t)
    BY <1>7, <1>9 DEF GoodTargets, EntGood, DelayedGood
  <2> QED
    BY <1>7, <2>1, <2>2, <2>3 DEF GoodTargets
<1>10. ASSUME NEW k \in Managers PROVE AccountKept(s, t, k)
  <2>1. CASE k = m
    <3>1. ASSUME NEW i \in DOMAIN List(m)
          PROVE  t.owed[m][i] - Cardinality(Ahead(t.runs, m, i))
                    = s.owed[m][i] - Cardinality(Ahead(s.runs, m, i))
      <4>1. Ahead(t.runs, m, i) = Ahead(s.runs, m, i) \cup {r}
        BY <1>2, <1>4, <1>8 DEF Ahead
      <4>2. r \notin Ahead(s.runs, m, i)
        BY ConfTypes DEF Ahead, Idle
      <4>3. Cardinality(Ahead(t.runs, m, i)) = Cardinality(Ahead(s.runs, m, i)) + 1
        BY <1>8, <4>1, <4>2, AheadFacts, FS_AddElement
      <4>4. t.owed[m][i] = s.owed[m][i] + 1 /\ s.owed[m][i] \in Int
        BY <1>5, <1>7, TargetFields
      <4>5. Cardinality(Ahead(s.runs, m, i)) \in Nat
        BY <1>8, AheadFacts
      <4> QED
        BY <4>3, <4>4, <4>5
    <3> QED
      BY <2>1, <3>1 DEF AccountKept
  <2>2. CASE k # m
    <3>1. \A i : Ahead(t.runs, k, i) = Ahead(s.runs, k, i)
      BY <1>2, <1>8, <2>2, ConfTypes DEF Ahead, Idle
    <3>2. t.owed[k] = s.owed[k]
      BY <1>7, <2>2, TargetFields
    <3> QED
      BY <3>1, <3>2 DEF AccountKept
  <2> QED
    BY <2>1, <2>2
<1>11. Steady(s, t)
  BY <1>7, <1>8, <1>10 DEF Steady
<1>12. Beyond(s, t, m)
  BY <1>7 DEF Beyond, SameMaker
<1> QED
  BY <1>7, <1>9, <1>11, <1>12 DEF Did, t

LEMMA ManagerUseDid ==
    ASSUME NEW s \in TargetStates, NEW m \in Managers, ~s.ent[m].gone
    PROVE  Did(s, ManagerUse(s, m), m)
<1>1. CASE ManagerUse(s, m) = s
  BY <1>1, StillDid DEF Still
<1>2. CASE ManagerUse(s, m) = [s EXCEPT !.full = TRUE]
  <2> DEFINE t == [s EXCEPT !.full = TRUE]
  <2>1. t \in TargetStates
    BY DEF TargetStates
  <2>2. Still(s, t) /\ t.ent = s.ent /\ t.delayed = s.delayed
    BY <2>1 DEF Still, TargetStates
  <2> HIDE DEF t
  <2>3. (EntGood(s) => EntGood(t)) /\ (DelayedGood(s) => DelayedGood(t))
    BY <2>2 DEF EntGood, DelayedGood
  <2>4. Did(s, t, m)
    BY <2>2, <2>3, StillDid
  <2> QED
    BY <1>2, <2>4 DEF t
<1>3. ASSUME NEW r \in Runs, s.runs[r] = Idle, r \in Clones \/ r = m,
             ManagerUse(s, m) = Start(s, m, r)
      PROVE  Did(s, ManagerUse(s, m), m)
  BY <1>3, StartDid
<1>4. \/ ManagerUse(s, m) = s \/ ManagerUse(s, m) = [s EXCEPT !.full = TRUE]
      \/ \E r \in Runs : s.runs[r] = Idle /\ (r \in Clones \/ r = m)
                        /\ ManagerUse(s, m) = Start(s, m, r)
  <2>1. CASE TargetConf[m].thread
    <3> DEFINE unused == {c \in Clones : s.runs[c] = Idle}
    <3>1. CASE unused = {}
      BY <2>1, <3>1 DEF ManagerUse
    <3>2. CASE unused # {}
      <4> DEFINE c == CHOOSE d \in unused : TRUE
      <4>1. c \in unused
        BY <3>2
      <4>2. ManagerUse(s, m) = Start(s, m, c)
        BY <2>1, <3>2 DEF ManagerUse
      <4> HIDE DEF c
      <4> QED
        BY <4>1, <4>2 DEF Runs
    <3> QED
      BY <3>1, <3>2
  <2>2. CASE ~TargetConf[m].thread
    BY <2>2 DEF ManagerUse, Runs
  <2> QED
    BY <2>1, <2>2
<1> QED
  BY <1>1, <1>2, <1>3, <1>4

\* The child is counted when the target has been fired.
LEMMA MakeMonsterDid ==
    ASSUME NEW fire, Answers(fire), NEW s \in TargetStates, NEW m \in Makers
    PROVE  Did(s, MakeMonster(fire, s, m), m)
<1> DEFINE t == fire[Call(s, TargetConf[m].target, "TOGGLE")]
           left == IF t.ent[m].left <= 0 THEN t.ent[m].left ELSE t.ent[m].left - 1
           next == IF left = 0 THEN NoThink ELSE t.ent[m].next
           v == [t.ent[m] EXCEPT !.live = t.ent[m].live + 1, !.left = left, !.next = next]
           c == [t.children[m] EXCEPT !.alive = t.children[m].alive + 1]
           u == [t EXCEPT !.ent[m] = v, !.children[m] = c]
<1>1. CASE ~RoomForChild(s, m) \/ ~s.clear
  BY <1>1, StillDid DEF MakeMonster, Still
<1>2. CASE RoomForChild(s, m) /\ s.clear
  <2>1. /\ m \in Entities /\ TargetConf[m].target \in Names /\ TargetConf[m].max \in Int
        /\ FiresAtOnce(m) = {TargetConf[m].target} \ {"none"}
    <3>1. FiresAtOnce(m) = {TargetConf[m].target} \ {"none"}
      BY DEF FiresAtOnce
    <3>2. TargetConf[m].target \in Names /\ TargetConf[m].max \in Int
      BY TargetAssumption
    <3> QED
      BY <3>1, <3>2, ConfTypes
  <2>2. Fired(s, t, TargetConf[m].target)
    <3>1. "TOGGLE" \in UseTypes
      BY DEF UseTypes
    <3> QED
      BY <2>1, <3>1 DEF Answers
  <2>3. t \in TargetStates
    BY <2>2 DEF Fired
  <2>4. MakeMonster(fire, s, m) = [t EXCEPT !.ent[m] = v, !.children[m].alive = @ + 1]
    BY <1>2 DEF MakeMonster
  <2> HIDE DEF t
  <2>5. t.ent[m] \in EntType /\ t.children[m] \in [alive : Int, lost : Int]
    BY <2>1, <2>3, TargetFields
  <2>6. left \in Int /\ next \in Int /\ (t.ent[m].left >= -1 => left >= -1)
        /\ (t.ent[m].next >= -1 => next >= -1)
    BY <2>5, EntFields DEF NoThink
  <2>7. MakeMonster(fire, s, m) = u
    BY <2>1, <2>3, <2>4, TargetFields
  <2> HIDE DEF left, next
  <2>8. v \in EntType /\ c \in [alive : Int, lost : Int]
    <3> DEFINE a == [t.ent[m] EXCEPT !.live = t.ent[m].live + 1]
               b == [a EXCEPT !.left = left]
    <3>1. t.ent[m].live + 1 \in Int
      BY <2>5, EntFields
    <3>2. a \in EntType
      BY <2>5, <3>1, EntSet
    <3>3. v = [b EXCEPT !.next = next]
      OBVIOUS
    <3> HIDE DEF a, v
    <3>4. b \in EntType
      BY <2>6, <3>2, EntSet
    <3> HIDE DEF b
    <3>5. v \in EntType
      BY <2>6, <3>3, <3>4, EntSet
    <3> QED
      BY <2>5, <3>5
  <2>9. /\ v.live = t.ent[m].live + 1 /\ v.left = left /\ v.next = next /\ v.gone = t.ent[m].gone
        /\ c.alive = t.children[m].alive + 1 /\ c.lost = t.children[m].lost
    BY <2>5 DEF EntType
  <2> HIDE DEF v, c
  <2>10. /\ u \in TargetStates /\ u.runs = t.runs /\ u.owed = t.owed /\ u.delayed = t.delayed
         /\ u.ent = [t.ent EXCEPT ![m] = v] /\ u.children = [t.children EXCEPT ![m] = c]
    BY <2>1, <2>3, <2>8 DEF TargetStates
  <2> HIDE DEF u
  <2>11. /\ \A e \in Entities : u.ent[e] = IF e = m THEN v ELSE t.ent[e]
         /\ \A k \in Makers : u.children[k] = IF k = m THEN c ELSE t.children[k]
    BY <2>3, <2>10, TargetFields
  <2>12. ASSUME s \in GoodTargets PROVE u \in GoodTargets /\ Steady(s, u) /\ Beyond(s, u, m)
    <3>1. t \in GoodTargets /\ Steady(s, t) /\ Reaches(s, t, TargetConf[m].target)
      BY <2>2, <2>12 DEF Fired
    <3>2. GoodMaker(s, m) /\ GoodMaker(t, m)
      BY <2>12, <3>1 DEF GoodTargets
    <3>3. GoodMaker(u, m)
      <4>1. ASSUME m \in Limited PROVE t.children[m].alive + 1 <= TargetConf[m].max
        <5>1. SameMaker(s, t, m)
          BY <2>1, <3>1, <4>1 DEF Limited, FiresOthers, Reaches
        <5>2. s.ent[m].live < TargetConf[m].max
          BY <1>2, <4>1, <2>1, TargetFields, EntFields DEF Limited, RoomForChild
        <5> QED
          BY <2>1, <3>2, <5>1, <5>2 DEF GoodMaker, SameMaker
      <4> QED
        BY <2>1, <2>9, <2>11, <3>2, <4>1 DEF GoodMaker
    <3>4. ASSUME NEW k \in Makers PROVE GoodMaker(u, k)
      <4>1. k \in Entities /\ GoodMaker(t, k)
        BY <3>1, ConfTypes DEF GoodTargets
      <4> QED
        BY <2>11, <3>3, <4>1 DEF GoodMaker
    <3>5. EntGood(u) /\ DelayedGood(u)
      <4>1. EntGood(t) /\ DelayedGood(t)
        BY <3>1 DEF GoodTargets
      <4>2. DelayedGood(u)
        BY <2>10, <4>1 DEF DelayedGood
      <4>3. v.next >= -1 /\ v.left >= -1 /\ v.live \in Nat
        BY <2>1, <2>6, <2>9, <4>1 DEF EntGood, NoThink
      <4> QED
        BY <2>11, <4>1, <4>2, <4>3 DEF EntGood, NoThink
    <3>6. u \in GoodTargets
      BY <2>10, <3>1, <3>4, <3>5 DEF GoodTargets
    <3>7. Steady(t, u)
      <4>1. \A e \in Entities : u.ent[e].gone = t.ent[e].gone
        BY <2>9, <2>11
      <4> QED
        BY <2>10, <4>1, ConfTypes DEF Steady, AccountKept
    <3>8. Steady(s, u)
      BY <2>12, <3>1, <3>6, <3>7, SteadyTwice
    <3>9. Beyond(s, u, m)
      <4>1. \A k \in Makers : k # m => SameMaker(t, u, k)
        BY <2>11, ConfTypes DEF SameMaker
      <4> QED
        BY <2>1, <3>1, <4>1, SameTwice DEF Beyond, Reaches
    <3> QED
      BY <3>6, <3>8, <3>9
  <2>13. Did(s, u, m)
    BY <2>10, <2>12 DEF Did
  <2> QED
    BY <2>7, <2>13
<1> QED
  BY <1>1, <1>2

LEMMA MakerUseDid ==
    ASSUME NEW fire, Answers(fire), NEW s \in TargetStates, NEW m \in Makers, NEW useType
    PROVE  Did(s, MakerUse(fire, s, m, useType), m)
<1>1. m \in Entities
  BY ConfTypes
<1>2. Did(s, s, m)
  BY StillDid DEF Still
<1>3. Did(s, MakeMonster(fire, s, m), m)
  BY MakeMonsterDid
<1>4. ASSUME NEW a \in BOOLEAN, NEW i \in Int, i >= -1
      PROVE  Did(s, [s EXCEPT !.ent[m].active = a, !.ent[m].next = i], m)
  <2> DEFINE v == [s.ent[m] EXCEPT !.active = a, !.next = i]
             t == [s EXCEPT !.ent[m].active = a, !.ent[m].next = i]
  <2>1. s.ent[m] \in EntType
    BY <1>1, TargetFields
  <2>2. t = [s EXCEPT !.ent[m] = v]
    BY <1>1, TargetFields
  <2>3. v \in EntType
    <3> DEFINE b == [s.ent[m] EXCEPT !.active = a]
    <3>1. b \in EntType
      BY <2>1, EntSet
    <3>2. v = [b EXCEPT !.next = i]
      OBVIOUS
    <3> HIDE DEF b, v
    <3> QED
      BY <3>1, <3>2, EntSet
  <2>4. v.live = s.ent[m].live /\ v.left = s.ent[m].left /\ v.gone = s.ent[m].gone /\ v.next = i
    BY <2>1 DEF EntType
  <2> HIDE DEF v, t
  <2>5. /\ t \in TargetStates /\ t.ent = [s.ent EXCEPT ![m] = v] /\ t.runs = s.runs
        /\ t.delayed = s.delayed /\ t.owed = s.owed /\ t.children = s.children
    BY <1>1, <2>2, <2>3, EntPut
  <2>6. Did(s, t, m)
    BY <1>1, <1>4, <2>4, <2>5, PutDid
  <2> QED
    BY <2>6 DEF t
<1>5. \/ MakerUse(fire, s, m, useType) = s
      \/ MakerUse(fire, s, m, useType) = MakeMonster(fire, s, m)
      \/ MakerUse(fire, s, m, useType) = [s EXCEPT !.ent[m].active = FALSE, !.ent[m].next = NoThink]
      \/ MakerUse(fire, s, m, useType) = [s EXCEPT !.ent[m].active = TRUE, !.ent[m].next = 0]
  BY DEF MakerUse
<1>6. Did(s, [s EXCEPT !.ent[m].active = FALSE, !.ent[m].next = NoThink], m)
  <2>1. FALSE \in BOOLEAN /\ NoThink \in Int /\ NoThink >= -1
    BY DEF NoThink
  <2> HIDE DEF NoThink
  <2> QED
    BY ONLY <1>4, <2>1, Zenon
<1>7. Did(s, [s EXCEPT !.ent[m].active = TRUE, !.ent[m].next = 0], m)
  <2>1. TRUE \in BOOLEAN /\ 0 \in Int /\ 0 >= -1
    OBVIOUS
  <2> QED
    BY ONLY <1>4, <2>1, Zenon
<1> QED
  BY <1>2, <1>3, <1>5, <1>6, <1>7

LEMMA UseDid ==
    ASSUME NEW fire, Answers(fire), NEW s \in TargetStates, NEW e \in Entities, NEW useType
    PROVE  Did(s, Use(fire, s, e, useType), e)
<1>1. Did(s, s, e)
  BY StillDid DEF Still
<1>2. CASE ~s.ent[e].gone /\ e \in Kind("trigger_relay")
  BY <1>2, RelayUseDid DEF Use, Kind
<1>3. CASE ~s.ent[e].gone /\ e \in Kind("trigger_counter")
  BY <1>3, CounterUseDid DEF Use, Kind
<1>4. CASE ~s.ent[e].gone /\ e \in Managers
  BY <1>4, ManagerUseDid DEF Use, Kind, Managers
<1>5. CASE ~s.ent[e].gone /\ e \in Makers
  BY <1>5, MakerUseDid DEF Use, Kind, Makers
<1>6. CASE /\ e \notin Kind("trigger_relay") /\ e \notin Kind("trigger_counter")
           /\ e \notin Managers /\ e \notin Makers
  BY <1>1, <1>6 DEF Use, Kind, Managers, Makers
<1>7. CASE s.ent[e].gone
  BY <1>1, <1>7 DEF Use
<1> QED
  BY <1>2, <1>3, <1>4, <1>5, <1>6, <1>7

-----------------------------------------------------------------------------
(* Firing a name *)

LEMMA FiredSelf == \A s \in TargetStates : \A name : Fired(s, s, name)
  BY SteadySelf DEF Fired, Reaches, SameMaker

\* One more entity of the name
LEMMA FiredOnward ==
    ASSUME NEW s \in TargetStates, NEW x, NEW u, NEW name \in DOMAIN Targetname,
           NEW n \in DOMAIN Targetname[name],
           Fired(s, x, name), Did(x, u, Targetname[name][n])
    PROVE  Fired(s, u, name)
<1> DEFINE e == Targetname[name][n]
<1>1. u \in TargetStates
  BY DEF Did
<1>2. ASSUME s \in GoodTargets PROVE u \in GoodTargets /\ Steady(s, u) /\ Reaches(s, u, name)
  <2>1. x \in GoodTargets /\ Steady(s, x) /\ Reaches(s, x, name)
    BY <1>2 DEF Fired
  <2>2. u \in GoodTargets /\ Steady(x, u) /\ Beyond(x, u, e)
    BY <2>1 DEF Did
  <2>3. Steady(s, u)
    BY <1>2, <2>1, <2>2, SteadyTwice
  <2>4. ASSUME NEW N \in SUBSET DOMAIN Targetname, FireWithin(N), name \in N,
               NEW m \in Makers \ Reached(N)
        PROVE  SameMaker(s, u, m)
    <3>1. e \in Reached(N) /\ FiresAtOnce(e) \subseteq N
      BY <2>4 DEF FireWithin, Reached
    <3>2. SameMaker(s, x, m)
      BY <2>1, <2>4 DEF Reaches
    <3>3. SameMaker(x, u, m)
      BY <2>2, <2>4, <3>1 DEF Beyond
    <3> QED
      BY <3>2, <3>3, SameTwice
  <2>5. Reaches(s, u, name)
    BY <2>4, ConfTypes DEF Reaches
  <2> QED
    BY <2>2, <2>3, <2>5
<1> QED
  BY <1>1, <1>2 DEF Fired

LEMMA UseEachFired ==
    ASSUME NEW fire, Answers(fire), NEW s \in TargetStates, NEW name \in DOMAIN Targetname,
           NEW useType
    PROVE  Fired(s, UseEach(fire, s, name, useType), name)
<1> DEFINE es == Targetname[name]
           N == Len(es)
           ok == {x \in TargetStates : Fired(s, x, name)}
           inv == [n \in 0..N |-> ok]
           step == [n \in 1..N |-> [x \in ok |-> Use(fire, x, es[n], useType)]]
           Is(f) == f = [n \in 0..N |-> IF n = 0 THEN s ELSE Use(fire, f[n - 1], es[n], useType)]
           given == CHOOSE f : Is(f)
<1>1. N \in Nat /\ DOMAIN es = 1..N /\ \A n \in 1..N : es[n] \in Entities
  BY ConfTypes, SeqFacts
<1>2. UseEach(fire, s, name, useType) = given[N]
  BY DEF UseEach
<1>3. s \in ok
  BY FiredSelf
<1>4. ASSUME NEW n \in 1..N, NEW x \in ok PROVE Use(fire, x, es[n], useType) \in ok
  <2>1. Did(x, Use(fire, x, es[n], useType), es[n])
    BY <1>1, UseDid
  <2> HIDE DEF Use
  <2>2. Fired(s, Use(fire, x, es[n], useType), name)
    BY <1>1, <2>1, FiredOnward
  <2> QED
    BY <2>2 DEF Fired
<1> HIDE DEF ok, es, N
<1>5. 0 \in 0..N /\ \A n \in 1..N : n \in 0..N /\ n - 1 \in 0..N /\ n # 0
  BY <1>1
<1>6. s \in inv[0] /\ Leads(N, inv, step)
  BY <1>3, <1>4, <1>5 DEF Leads
<1>7. PICK f : Loops(f, N, inv, s, step)
  <2> HIDE DEF inv, step
  <2> QED
    BY <1>1, <1>6, LoopExists
<1>8. \A n \in 1..N : f[n] = Use(fire, f[n - 1], es[n], useType)
  BY <1>5, <1>7 DEF Loops
<1>9. ASSUME NEW n \in 0..N
      PROVE  f[n] = IF n = 0 THEN s ELSE Use(fire, f[n - 1], es[n], useType)
  <2>1. n = 0 \/ n \in 1..N
    BY <1>1
  <2> QED
    BY <1>7, <1>8, <2>1 DEF Loops
<1>10. Is(given)
  <2>1. Is(f)
    <3>1. [n \in 0..N |-> f[n]]
            = [n \in 0..N |-> IF n = 0 THEN s ELSE Use(fire, f[n - 1], es[n], useType)]
      BY <1>9
    <3> QED
      BY <1>7, <3>1 DEF Loops
  <2> QED
    BY <2>1
<1> HIDE DEF given
<1>11. \A n \in 0..N : given[n] = IF n = 0 THEN s ELSE Use(fire, given[n - 1], es[n], useType)
  BY <1>10
<1> DEFINE T == {n \in 0..N : given[n] \in ok}
<1>12. 0 \in T
  BY <1>3, <1>5, <1>11
<1>13. \A n \in 1..N : n - 1 \in T => n \in T
  BY <1>4, <1>5, <1>11
<1>14. N \in T
  <2>1. N \in 0..N
    BY <1>1
  <2> HIDE DEF T
  <2> QED
    BY <1>1, <1>12, <1>13, <2>1, Induct
<1> QED
  BY <1>2, <1>14 DEF ok

\* One level of firings above those of fire
Level(fire) == [c \in Calls |-> IF c.name = "none" THEN c.state
                                ELSE UseEach(fire, c.state, c.name, c.useType)]
Deepest == [c \in Calls |-> IF c.name = "none" THEN c.state ELSE [c.state EXCEPT !.full = TRUE]]
Firings == {fire \in [Calls -> TargetStates] : Answers(fire)}

LEMMA CallFields ==
    /\ \A s \in TargetStates, name \in Names, useType \in UseTypes :
          LET c == Call(s, name, useType)
          IN  c \in Calls /\ c.state = s /\ c.name = name /\ c.useType = useType
    /\ \A c \in Calls : /\ c.state \in TargetStates /\ c.name \in Names
                        /\ c.useType \in UseTypes /\ c = Call(c.state, c.name, c.useType)
  BY DEF Calls, Call

\* A function on calls is a firing if it is one for each call.
LEMMA FiringsSet ==
    ASSUME NEW g, g = [c \in Calls |-> g[c]],
           \A c \in Calls : Fired(c.state, g[c], c.name)
    PROVE  g \in Firings
<1>1. \A c \in Calls : g[c] \in TargetStates
  BY DEF Fired
<1>2. g \in [Calls -> TargetStates]
  BY <1>1
<1>3. Answers(g)
  BY CallFields DEF Answers
<1> QED
  BY <1>2, <1>3 DEF Firings

LEMMA LevelAnswers ==
    ASSUME NEW fire \in Firings
    PROVE  Level(fire) \in Firings
<1> DEFINE g == Level(fire)
<1>1. g = [c \in Calls |-> g[c]]
  BY DEF Level
<1>2. ASSUME NEW c \in Calls PROVE Fired(c.state, g[c], c.name)
  <2>1. g[c] = IF c.name = "none" THEN c.state ELSE UseEach(fire, c.state, c.name, c.useType)
    BY DEF Level
  <2> HIDE DEF g
  <2>2. c.state \in TargetStates /\ c.name \in Names
    BY CallFields
  <2>3. CASE c.name = "none"
    BY <2>1, <2>2, <2>3, FiredSelf
  <2>4. CASE c.name # "none"
    <3>1. c.name \in DOMAIN Targetname /\ Answers(fire)
      BY <2>2, <2>4 DEF Names, Firings
    <3>2. Fired(c.state, UseEach(fire, c.state, c.name, c.useType), c.name)
      BY <2>2, <3>1, UseEachFired
    <3> QED
      BY <2>1, <2>4, <3>2
  <2> QED
    BY <2>3, <2>4
<1> HIDE DEF g
<1>3. g \in Firings
  BY <1>1, <1>2, FiringsSet
<1> QED
  BY <1>3 DEF g

LEMMA FullFired ==
    ASSUME NEW s \in TargetStates, NEW name
    PROVE  Fired(s, [s EXCEPT !.full = TRUE], name)
<1> DEFINE t == [s EXCEPT !.full = TRUE]
<1>1. /\ t \in TargetStates /\ t.ent = s.ent /\ t.runs = s.runs /\ t.delayed = s.delayed
      /\ t.owed = s.owed /\ t.children = s.children
  BY DEF TargetStates
<1> HIDE DEF t
<1>2. ASSUME s \in GoodTargets PROVE t \in GoodTargets
  BY <1>1, <1>2 DEF GoodTargets, GoodMaker, EntGood, DelayedGood
<1>3. Steady(s, t) /\ Reaches(s, t, name)
  BY <1>1 DEF Steady, AccountKept, Reaches, SameMaker
<1>4. Fired(s, t, name)
  BY <1>1, <1>2, <1>3 DEF Fired
<1> QED
  BY <1>4 DEF t

LEMMA DeepestAnswers == Deepest \in Firings
<1>1. Deepest = [c \in Calls |-> Deepest[c]]
  BY DEF Deepest
<1>2. ASSUME NEW c \in Calls PROVE Fired(c.state, Deepest[c], c.name)
  <2>1. Deepest[c] = IF c.name = "none" THEN c.state ELSE [c.state EXCEPT !.full = TRUE]
    BY DEF Deepest
  <2>2. c.state \in TargetStates
    BY CallFields
  <2> QED
    BY <2>1, <2>2, FiredSelf, FullFired
<1> QED
  BY <1>1, <1>2, FiringsSet

\* Whatever the depth, the firings do only what Fired says.
LEMMA FireAnswers == Answers(Fire[MaxNesting])
<1> DEFINE N == MaxNesting
           inv == [n \in 0..N |-> Firings]
           step == [n \in 1..N |-> [x \in Firings |-> Level(x)]]
           Is(f) == f = [n \in 0..N |-> [c \in Calls |->
                            IF c.name = "none" THEN c.state
                            ELSE IF n = 0 THEN [c.state EXCEPT !.full = TRUE]
                            ELSE UseEach(f[n - 1], c.state, c.name, c.useType)]]
<1>1. N \in Nat
  BY ConfTypes
<1>2. Fire = CHOOSE f : Is(f)
  BY DEF Fire
<1> HIDE DEF N
<1>3. 0 \in 0..N /\ N \in 0..N /\ \A n \in 1..N : n \in 0..N /\ n - 1 \in 0..N /\ n # 0
  BY <1>1
<1>4. Deepest \in inv[0] /\ Leads(N, inv, step)
  BY <1>3, DeepestAnswers, LevelAnswers DEF Leads
<1>5. PICK f : Loops(f, N, inv, Deepest, step)
  <2> HIDE DEF inv, step
  <2> QED
    BY <1>1, <1>4, LoopExists
<1>6. \A n \in 1..N : f[n] = Level(f[n - 1])
  BY <1>3, <1>5 DEF Loops
<1>7. ASSUME NEW n \in 0..N
      PROVE  f[n] = [c \in Calls |-> IF c.name = "none" THEN c.state
                                     ELSE IF n = 0 THEN [c.state EXCEPT !.full = TRUE]
                                     ELSE UseEach(f[n - 1], c.state, c.name, c.useType)]
  <2>1. CASE n = 0
    BY <1>5, <2>1 DEF Loops, Deepest
  <2>2. CASE n \in 1..N
    BY <1>6, <2>2 DEF Level
  <2> QED
    BY <1>1, <2>1, <2>2
<1>8. Is(Fire)
  <2>1. Is(f)
    <3>1. f = [n \in 0..N |-> f[n]]
      BY <1>5 DEF Loops
    <3> QED
      BY <1>7, <3>1
  <2> HIDE DEF Is
  <2> QED
    BY <1>2, <2>1
<1>9. /\ Fire[0] = Deepest
      /\ \A n \in 1..N : Fire[n] = Level(Fire[n - 1])
  BY <1>3, <1>8 DEF Deepest, Level
<1> HIDE DEF Is
<1> DEFINE T == {n \in 0..N : Fire[n] \in Firings}
<1>10. 0 \in T
  BY <1>3, <1>9, DeepestAnswers
<1>11. \A n \in 1..N : n - 1 \in T => n \in T
  BY <1>3, <1>9, LevelAnswers
<1>12. N \in T
  <2> HIDE DEF T
  <2> QED
    BY <1>1, <1>3, <1>10, <1>11, Induct
<1> QED
  BY <1>12 DEF Firings, N

-----------------------------------------------------------------------------
(* The loop of ManagerThink *)

LEMMA NotDueFacts ==
    ASSUME NEW run \in RunType, run.man \in Managers, run.m_index \in DOMAIN List(run.man)
    PROVE  LET L == Len(List(run.man))
           IN  /\ L \in Nat /\ run.m_index \in 1..L /\ DOMAIN List(run.man) = 1..L
               /\ NotDue(run) \in run.m_index..L + 1
<1> DEFINE L == Len(List(run.man))
           over(i) == Ended(run, i) \/ List(run.man)[i].delay > run.elapsed
           T == {i \in run.m_index..L + 1 : over(i)}
<1>1. L \in Nat /\ DOMAIN List(run.man) = 1..L /\ run.m_index \in 1..L /\ run.elapsed \in Nat
  BY ListTypes DEF RunType
<1>2. L + 1 \in T
  BY <1>1 DEF Ended
<1>3. PICK n \in T : \A j \in T : n <= j
  <2>1. T \in SUBSET Nat /\ T # {}
    BY <1>1, <1>2
  <2> HIDE DEF T
  <2> QED
    BY <2>1, LeastOf
<1>4. n \in run.m_index..L + 1 /\ over(n)
  BY <1>3
<1>5. ASSUME NEW j \in run.m_index..n - 1 PROVE List(run.man)[j].delay <= run.elapsed
  <2>1. j \in run.m_index..L + 1 /\ ~(n <= j)
    BY <1>1, <1>4
  <2>2. ~Ended(run, j) /\ ~(List(run.man)[j].delay > run.elapsed)
    BY <1>3, <2>1
  <2>3. j \in DOMAIN List(run.man)
    BY <1>1, <1>4, <2>1, <2>2 DEF Ended
  <2>4. List(run.man)[j].delay \in Nat
    BY <2>3, ListTypes
  <2> QED
    BY <1>1, <2>2, <2>4
<1>6. NotDue(run) \in run.m_index..L + 1
  BY <1>4, <1>5 DEF NotDue
<1> QED
  BY <1>1, <1>6

\* What manager m owed in s, less what it fires while a run of man fires k
\* targets from the one at first.
Owes(s, man, first, k, m, i) ==
    s.owed[m][i] - (IF m = man /\ first <= i /\ i < first + k THEN 1 ELSE 0)
Progress(s, x, man, first, k) ==
    /\ \A m \in Managers : ~x.ent[m].gone =>
          /\ ~s.ent[m].gone
          /\ \A i \in DOMAIN List(m) :
                x.owed[m][i] - Cardinality(Ahead(x.runs, m, i))
                    = Owes(s, man, first, k, m, i) - Cardinality(Ahead(s.runs, m, i))
    /\ \A r \in Runs : s.runs[r] # Idle =>
          x.runs[r] = s.runs[r] \/ x.ent[s.runs[r].man].gone

LEMMA OwedFacts ==
    ASSUME NEW s \in TargetStates, NEW m \in Managers, NEW i \in DOMAIN List(m)
    PROVE  s.owed[m][i] \in Int /\ Cardinality(Ahead(s.runs, m, i)) \in Nat /\ i \in Nat
<1>1. s.owed[m] \in Seq(Int) /\ DOMAIN s.owed[m] = DOMAIN List(m) /\ DOMAIN s.runs = Runs
  BY TargetFields
<1>2. s.owed[m][i] \in Int
  BY <1>1
<1>3. Cardinality(Ahead(s.runs, m, i)) \in Nat
  BY <1>1, AheadFacts
<1> QED
  BY <1>2, <1>3, ListTypes

LEMMA NoProgress ==
    \A s \in TargetStates, first \in Nat : \A man : Progress(s, s, man, first, 0)
<1> SUFFICES ASSUME NEW s \in TargetStates, NEW man, NEW first \in Nat
             PROVE  Progress(s, s, man, first, 0)
  OBVIOUS
<1>1. \A m \in Managers : \A i \in DOMAIN List(m) : Owes(s, man, first, 0, m, i) = s.owed[m][i]
  BY OwedFacts DEF Owes
<1> QED
  BY <1>1 DEF Progress

\* One target is fired.
LEMMA OneProgress ==
    ASSUME NEW s \in GoodTargets, NEW x \in GoodTargets, NEW man \in Managers,
           NEW first \in Nat, NEW k \in Nat \ {0}, first + k - 1 \in DOMAIN List(man),
           Progress(s, x, man, first, k - 1), NEW name \in Names
    PROVE  LET at == first + k - 1
               z == FireTargets([x EXCEPT !.owed[man][at] = @ - 1], name, "TOGGLE")
           IN  z \in GoodTargets /\ Progress(s, z, man, first, k)
<1> DEFINE at == first + k - 1
           o == [x.owed EXCEPT ![man] = [x.owed[man] EXCEPT ![at] = x.owed[man][at] - 1]]
           y == [x EXCEPT !.owed = o]
           z == FireTargets(y, name, "TOGGLE")
<1>1. [x EXCEPT !.owed[man][at] = @ - 1] = y
  OBVIOUS
<1>2. x \in TargetStates /\ s \in TargetStates
  BY DEF GoodTargets
<1>3. x.owed[man][at] \in Int /\ x.owed[man] \in Seq(Int)
  BY <1>2, OwedFacts, TargetFields
<1>4. o \in OwedType
  <2>1. [x.owed[man] EXCEPT ![at] = x.owed[man][at] - 1] \in Seq(Int)
    <3> DEFINE l == x.owed[man]
               v == l[at] - 1
    <3>1. l \in Seq(Int) /\ v \in Int /\ at \in 1..Len(l)
      BY <1>2, <1>3, TargetFields, SeqFacts
    <3> HIDE DEF l, v
    <3>2. [l EXCEPT ![at] = v] \in Seq(Int)
      BY <3>1, ExceptSeq
    <3> QED
      BY <3>2 DEF l, v
  <2> QED
    BY <1>2, <2>1, TargetFields DEF OwedType
<1>5. \A m \in Managers : \A i \in DOMAIN List(m) :
          o[m][i] = IF m = man /\ i = at THEN x.owed[m][i] - 1 ELSE x.owed[m][i]
  BY <1>2, TargetFields
<1> HIDE DEF o
<1>6. /\ y \in TargetStates /\ y.ent = x.ent /\ y.runs = x.runs /\ y.delayed = x.delayed
      /\ y.children = x.children /\ y.owed = o
  BY <1>2, <1>4 DEF TargetStates
<1> HIDE DEF y
<1>7. y \in GoodTargets
  BY <1>6 DEF GoodTargets, EntGood, DelayedGood, GoodMaker
<1>8. z \in GoodTargets /\ Steady(y, z)
  <2>1. Fired(y, z, name)
    BY <1>6, FireAnswers DEF FireTargets, Answers, UseTypes
  <2> QED
    BY <1>7, <2>1 DEF Fired
<1> HIDE DEF z
<1>9. z \in TargetStates
  BY <1>8 DEF GoodTargets
<1>10. ASSUME NEW m \in Managers, ~z.ent[m].gone
       PROVE  /\ ~s.ent[m].gone
              /\ \A i \in DOMAIN List(m) :
                    z.owed[m][i] - Cardinality(Ahead(z.runs, m, i))
                        = Owes(s, man, first, k, m, i) - Cardinality(Ahead(s.runs, m, i))
  <2>1. ~x.ent[m].gone /\ AccountKept(y, z, m)
    BY <1>6, <1>8, <1>10 DEF Steady
  <2>2. ~s.ent[m].gone
    BY <2>1 DEF Progress
  <2>3. ASSUME NEW i \in DOMAIN List(m)
        PROVE  z.owed[m][i] - Cardinality(Ahead(z.runs, m, i))
                   = Owes(s, man, first, k, m, i) - Cardinality(Ahead(s.runs, m, i))
    <3>1. z.owed[m][i] - Cardinality(Ahead(z.runs, m, i))
             = o[m][i] - Cardinality(Ahead(x.runs, m, i))
      BY <1>6, <2>1 DEF AccountKept
    <3>2. x.owed[m][i] - Cardinality(Ahead(x.runs, m, i))
             = Owes(s, man, first, k - 1, m, i) - Cardinality(Ahead(s.runs, m, i))
      BY <2>1 DEF Progress
    <3>3. /\ x.owed[m][i] \in Int /\ Cardinality(Ahead(x.runs, m, i)) \in Nat /\ i \in Nat
          /\ s.owed[m][i] \in Int /\ Cardinality(Ahead(s.runs, m, i)) \in Nat
      BY <1>2, OwedFacts
    <3>4. o[m][i] = IF m = man /\ i = at THEN x.owed[m][i] - 1 ELSE x.owed[m][i]
      BY <1>5
    <3>5. Owes(s, man, first, k, m, i) = IF m = man /\ i = at THEN Owes(s, man, first, k - 1, m, i) - 1
                                         ELSE Owes(s, man, first, k - 1, m, i)
      BY <3>3 DEF Owes
    <3>6. Owes(s, man, first, k - 1, m, i) \in Int
      BY <3>3 DEF Owes
    <3> HIDE DEF at
    <3> QED
      BY <3>1, <3>2, <3>3, <3>4, <3>5, <3>6
  <2> QED
    BY <2>2, <2>3
<1>11. ASSUME NEW r \in Runs, s.runs[r] # Idle
       PROVE  z.runs[r] = s.runs[r] \/ z.ent[s.runs[r].man].gone
  <2>1. s.runs[r].man \in Managers
    BY <1>11 DEF GoodTargets, GoodRun
  <2>2. x.runs[r] = s.runs[r] \/ x.ent[s.runs[r].man].gone
    BY <1>11 DEF Progress
  <2>3. x.ent[s.runs[r].man].gone => z.ent[s.runs[r].man].gone
    BY <1>6, <1>8, <2>1 DEF Steady
  <2>4. x.runs[r] = s.runs[r] => z.runs[r] = s.runs[r] \/ z.ent[s.runs[r].man].gone
    BY <1>6, <1>8, <1>11 DEF Steady
  <2> QED
    BY <2>2, <2>3, <2>4
<1>12. Progress(s, z, man, first, k)
  BY <1>10, <1>11 DEF Progress
<1> QED
  BY <1>1, <1>8, <1>12 DEF z

LEMMA FireDueFacts ==
    ASSUME NEW s \in GoodTargets, NEW run \in RunType, run.man \in Managers,
           run.m_index \in DOMAIN List(run.man)
    PROVE  LET x == FireDue(s, run)
           IN  /\ x \in GoodTargets
               /\ Progress(s, x, run.man, run.m_index, NotDue(run) - run.m_index)
<1> DEFINE first == run.m_index
           man == run.man
           N == NotDue(run) - first
           at(k) == first + k - 1
           one(k, x) == FireTargets([x EXCEPT !.owed[man][at(k)] = @ - 1],
                                    List(man)[at(k)].target, "TOGGLE")
           inv == [k \in 0..N |-> {x \in GoodTargets : Progress(s, x, man, first, k)}]
           step == [k \in 1..N |-> [x \in GoodTargets |-> one(k, x)]]
           Is(f) == f = [k \in 0..N |-> IF k = 0 THEN s ELSE one(k, f[k - 1])]
           given == CHOOSE f : Is(f)
<1>1. /\ first \in Nat /\ man \in Managers /\ N \in Nat
      /\ \A k \in 1..N : k \in Nat \ {0} /\ at(k) \in DOMAIN List(man)
                         /\ List(man)[at(k)].target \in Names
  <2>1. LET L == Len(List(man))
        IN  /\ L \in Nat /\ first \in 1..L /\ DOMAIN List(man) = 1..L
            /\ NotDue(run) \in first..L + 1
    BY NotDueFacts
  <2>2. /\ first \in Nat /\ man \in Managers /\ N \in Nat
        /\ \A k \in 1..N : k \in Nat \ {0} /\ at(k) \in DOMAIN List(man)
    BY <2>1
  <2> HIDE DEF first, man, N, at
  <2> QED
    BY <2>2, ListTypes
<1>2. FireDue(s, run) = given[N]
  BY DEF FireDue
<1>3. s \in inv[0]
  <2>1. s \in TargetStates
    BY DEF GoodTargets
  <2>2. Progress(s, s, man, first, 0)
    <3> HIDE DEF man, first
    <3> QED
      BY <1>1, <2>1, NoProgress
  <2>3. 0 \in 0..N
    BY <1>1
  <2> HIDE DEF N
  <2> QED
    BY <2>2, <2>3
<1>4. ASSUME NEW k \in 1..N, NEW x \in inv[k - 1]
      PROVE  x \in GoodTargets /\ one(k, x) \in inv[k]
  <2>1. k \in 0..N /\ k - 1 \in 0..N /\ k \in Nat \ {0} /\ at(k) \in DOMAIN List(man)
        /\ List(man)[at(k)].target \in Names
    BY <1>1
  <2> HIDE DEF N
  <2>2. x \in GoodTargets /\ Progress(s, x, man, first, k - 1)
    BY <2>1
  <2> HIDE DEF first, man
  <2>3. one(k, x) \in GoodTargets /\ Progress(s, one(k, x), man, first, k)
    BY <1>1, <2>1, <2>2, OneProgress
  <2> HIDE DEF one
  <2> QED
    BY <2>1, <2>2, <2>3
<1> HIDE DEF N, first, man, one
<1>5. 0 \in 0..N /\ N \in 0..N /\ \A k \in 1..N : k \in 0..N /\ k - 1 \in 0..N /\ k # 0
  BY <1>1
<1> HIDE DEF inv
<1>6. Leads(N, inv, step)
  BY <1>4, <1>5 DEF Leads
<1>7. PICK f : Loops(f, N, inv, s, step)
  <2> HIDE DEF step
  <2> QED
    BY <1>1, <1>3, <1>6, LoopExists
<1>8. \A k \in 1..N : f[k] = one(k, f[k - 1])
  BY <1>4, <1>5, <1>7 DEF Loops
<1>9. ASSUME NEW k \in 0..N PROVE f[k] = IF k = 0 THEN s ELSE one(k, f[k - 1])
  <2>1. k = 0 \/ k \in 1..N
    BY <1>1
  <2> QED
    BY <1>7, <1>8, <2>1 DEF Loops
<1>10. Is(given)
  <2>1. Is(f)
    <3>1. [k \in 0..N |-> f[k]] = [k \in 0..N |-> IF k = 0 THEN s ELSE one(k, f[k - 1])]
      BY <1>9
    <3> QED
      BY <1>7, <3>1 DEF Loops
  <2> QED
    BY <2>1
<1> HIDE DEF given
<1>11. \A k \in 0..N : given[k] = IF k = 0 THEN s ELSE one(k, given[k - 1])
  BY <1>10
<1> DEFINE T == {k \in 0..N : given[k] \in inv[k]}
<1>12. 0 \in T
  BY <1>3, <1>5, <1>11
<1>13. \A k \in 1..N : k - 1 \in T => k \in T
  BY <1>4, <1>5, <1>11
<1>14. N \in T
  <2> HIDE DEF T
  <2> QED
    BY <1>1, <1>5, <1>12, <1>13, Induct
<1>15. given[N] \in GoodTargets /\ Progress(s, given[N], man, first, N)
  BY <1>5, <1>14 DEF inv
<1> QED
  BY <1>2, <1>15 DEF N, first, man

-----------------------------------------------------------------------------
(* The steps *)

\* What the managers that are there owe is what is ahead of their runs.
Settled(s) == \A m \in Managers : s.ent[m].gone \/
                  \A i \in DOMAIN List(m) : s.owed[m][i] = Cardinality(Ahead(s.runs, m, i))

LEMMA SteadySettled ==
    ASSUME NEW s \in GoodTargets, NEW t \in GoodTargets, Settled(s), Steady(s, t)
    PROVE  Settled(t)
<1> SUFFICES ASSUME NEW m \in Managers, ~t.ent[m].gone, NEW i \in DOMAIN List(m)
             PROVE  t.owed[m][i] = Cardinality(Ahead(t.runs, m, i))
  BY DEF Settled
<1>1. s \in TargetStates /\ t \in TargetStates
  BY DEF GoodTargets
<1>2. ~s.ent[m].gone /\ AccountKept(s, t, m)
  BY DEF Steady
<1>3. s.owed[m][i] = Cardinality(Ahead(s.runs, m, i))
  BY <1>2 DEF Settled
<1>4. t.owed[m][i] - Cardinality(Ahead(t.runs, m, i))
         = s.owed[m][i] - Cardinality(Ahead(s.runs, m, i))
  BY <1>2 DEF AccountKept
<1>5. /\ s.owed[m][i] \in Int /\ t.owed[m][i] \in Int
      /\ Cardinality(Ahead(s.runs, m, i)) \in Nat /\ Cardinality(Ahead(t.runs, m, i)) \in Nat
  BY <1>1, OwedFacts
<1> QED
  BY <1>3, <1>4, <1>5

LEMMA DidKeeps ==
    ASSUME NEW s \in GoodTargets, Settled(s), NEW t, NEW e, Did(s, t, e)
    PROVE  t \in GoodTargets /\ Settled(t)
<1>1. t \in GoodTargets /\ Steady(s, t)
  BY DEF Did
<1> QED
  BY <1>1, SteadySettled

LEMMA FiredKeeps ==
    ASSUME NEW s \in GoodTargets, Settled(s), NEW name \in Names, NEW useType \in UseTypes
    PROVE  FireTargets(s, name, useType) \in GoodTargets
           /\ Settled(FireTargets(s, name, useType))
<1> DEFINE t == FireTargets(s, name, useType)
<1>1. s \in TargetStates
  BY DEF GoodTargets
<1>2. Fired(s, t, name)
  BY <1>1, FireAnswers DEF FireTargets, Answers
<1>3. t \in GoodTargets /\ Steady(s, t)
  BY <1>2 DEF Fired
<1> HIDE DEF t
<1>4. Settled(t)
  BY <1>3, SteadySettled
<1> QED
  BY <1>3, <1>4 DEF t

\* What ManagerThink leaves of its run
LEMMA RunEnds ==
    ASSUME NEW s \in GoodTargets, Settled(s), NEW r \in Runs, s.runs[r] # Idle
    PROVE  LET run == s.runs[r]
               i == NotDue(run)
               x == FireDue(s, run)
               end == IF x.runs[r].man # run.man THEN x.runs[r]
                      ELSE IF Ended(run, i) THEN Idle ELSE [x.runs[r] EXCEPT !.m_index = i]
               t == [x EXCEPT !.runs = [x.runs EXCEPT ![r] = end]]
           IN  t \in GoodTargets /\ Settled(t)
<1> DEFINE run == s.runs[r]
           man == run.man
           first == run.m_index
           i == NotDue(run)
           L == Len(List(man))
           x == FireDue(s, run)
           end == IF x.runs[r].man # run.man THEN x.runs[r]
                  ELSE IF Ended(run, i) THEN Idle ELSE [x.runs[r] EXCEPT !.m_index = i]
           rs == [x.runs EXCEPT ![r] = end]
           t == [x EXCEPT !.runs = rs]
<1>1. s \in TargetStates /\ run \in RunType /\ man \in Managers /\ first \in DOMAIN List(man)
  <2>1. s \in TargetStates
    BY DEF GoodTargets
  <2>2. GoodRun(r, run)
    BY DEF GoodTargets
  <2> QED
    BY <2>1, <2>2, TargetFields DEF GoodRun
<1> HIDE DEF run
<1>2. /\ L \in Nat /\ first \in 1..L /\ DOMAIN List(man) = 1..L /\ i \in first..L + 1
      /\ i - first \in Nat /\ i \in Nat /\ first \in Nat
      /\ Ended(run, i) <=> i > L
  <2>1. L \in Nat /\ first \in 1..L /\ DOMAIN List(man) = 1..L /\ i \in first..L + 1
    BY <1>1, NotDueFacts
  <2> HIDE DEF i
  <2> QED
    BY <2>1 DEF Ended
<1>3. x \in GoodTargets /\ Progress(s, x, man, first, i - first)
  BY <1>1, FireDueFacts
<1> HIDE DEF x, i, first, L
<1>4. x \in TargetStates /\ x.runs \in [Runs -> RunType] /\ x.runs[r] \in RunType
      /\ GoodRun(r, x.runs[r])
  BY <1>3, TargetFields DEF GoodTargets
<1>5. end \in RunType /\ GoodRun(r, end)
      /\ (end = x.runs[r] \/ (x.runs[r].man = man /\ end.man \in {man, "none"}))
  <2>1. CASE x.runs[r].man # man
    BY <1>4, <2>1
  <2>2. CASE x.runs[r].man = man /\ Ended(run, i)
    BY <2>2 DEF Idle, RunType, GoodRun
  <2>3. CASE x.runs[r].man = man /\ ~Ended(run, i)
    <3>1. end = [x.runs[r] EXCEPT !.m_index = i]
      BY <2>3
    <3>2. end.man = man /\ end.m_index = i /\ end \in RunType
      BY <1>2, <1>4, <2>3, <3>1 DEF RunType
    <3>3. i \in DOMAIN List(man)
      BY <1>2, <2>3
    <3>4. r \in Clones \/ man = r
      BY <1>1, <1>4, <2>3, ConfTypes DEF GoodRun, Idle
    <3> HIDE DEF end, man
    <3> QED
      BY <1>1, <2>3, <3>2, <3>3, <3>4 DEF GoodRun
  <2> QED
    BY <2>1, <2>2, <2>3
<1>6. x.runs[r] = run => \/ end.man = "none" /\ i > L
                         \/ end.man = man /\ end.m_index = i /\ i <= L
  <2>1. CASE i > L
    BY <1>2, <2>1 DEF Idle
  <2>2. CASE i <= L
    BY <1>2, <1>4, <2>2 DEF RunType
  <2> QED
    BY <1>2, <2>1, <2>2 DEF L
<1> HIDE DEF end
<1>7. rs \in [Runs -> RunType] /\ \A q \in Runs : rs[q] = IF q = r THEN end ELSE x.runs[q]
  BY <1>4, <1>5
<1> HIDE DEF rs
<1>8. /\ t \in TargetStates /\ t.ent = x.ent /\ t.runs = rs /\ t.delayed = x.delayed
      /\ t.owed = x.owed /\ t.children = x.children
  BY <1>4, <1>7, RunsUpdate
<1> HIDE DEF t
<1>9. t \in GoodTargets
  <2>1. \A q \in Runs : GoodRun(q, t.runs[q])
    BY <1>3, <1>5, <1>7, <1>8 DEF GoodTargets
  <2> QED
    BY <1>3, <1>8, <2>1 DEF GoodTargets, EntGood, DelayedGood, GoodMaker
<1>10. ASSUME NEW m \in Managers, ~t.ent[m].gone, NEW j \in DOMAIN List(m)
       PROVE  t.owed[m][j] = Cardinality(Ahead(t.runs, m, j))
  <2> DEFINE a == Ahead(x.runs, m, j)
             b == Ahead(t.runs, m, j)
             c == Ahead(s.runs, m, j)
  <2>1. DOMAIN x.runs = Runs /\ DOMAIN t.runs = Runs /\ m # "none"
    BY <1>4, <1>7, <1>8, ConfTypes
  <2>2. /\ x.owed[m][j] \in Int /\ s.owed[m][j] \in Int /\ j \in Nat
        /\ Cardinality(a) \in Nat /\ Cardinality(c) \in Nat
    BY <1>1, <1>4, OwedFacts
  <2>3. ~x.ent[m].gone /\ t.owed[m][j] = x.owed[m][j]
    BY <1>8, <1>10
  <2>4. x.owed[m][j] - Cardinality(a) = Owes(s, man, first, i - first, m, j) - Cardinality(c)
        /\ s.owed[m][j] = Cardinality(c)
    BY <1>3, <2>3 DEF Progress, Settled
  <2>5. CASE m # man
    <3>1. a = b
      BY <1>5, <1>7, <1>8, <2>1, <2>5 DEF Ahead
    <3>2. Owes(s, man, first, i - first, m, j) = s.owed[m][j]
      BY <2>2, <2>5 DEF Owes
    <3> HIDE DEF a, b, c
    <3> QED
      BY <2>2, <2>3, <2>4, <3>1, <3>2 DEF b
  <2>6. CASE m = man
    <3>1. x.runs[r] = run /\ run.m_index = first
      BY <1>3, <2>3, <2>6 DEF Progress, run, first, man
    <3>2. r \in a <=> first <= j
      BY <2>1, <2>6, <3>1 DEF Ahead
    <3>3. r \in b <=> i <= j
      <4>1. t.runs[r] = end
        BY <1>7, <1>8
      <4>2. j <= L
        BY <1>2, <1>10, <2>6
      <4>3. r \in b <=> end.man = m /\ end.m_index <= j
        BY <2>1, <4>1 DEF Ahead
      <4> HIDE DEF b
      <4> QED
        BY <1>2, <1>6, <2>1, <2>2, <2>6, <3>1, <4>2, <4>3
    <3>4. \A q \in Runs : q # r => (q \in a <=> q \in b)
      BY <1>7, <1>8, <2>1 DEF Ahead
    <3>5. a \subseteq Runs /\ b \subseteq Runs
      BY <2>1 DEF Ahead
    <3>6. IsFiniteSet(a)
      BY <2>1, AheadFacts
    <3> HIDE DEF a, b, c
    <3>7. CASE first <= j /\ j < i
      <4>1. b = a \ {r} /\ r \in a
        BY <1>2, <2>2, <3>2, <3>3, <3>4, <3>5, <3>7
      <4>2. Cardinality(b) = Cardinality(a) - 1
        BY <3>6, <4>1, FS_RemoveElement
      <4>3. Owes(s, man, first, i - first, m, j) = s.owed[m][j] - 1
        BY <1>2, <2>2, <2>6, <3>7 DEF Owes
      <4> QED
        BY <2>2, <2>3, <2>4, <4>2, <4>3 DEF b
    <3>8. CASE ~(first <= j /\ j < i)
      <4>1. r \in a <=> r \in b
        BY <1>2, <2>2, <3>2, <3>3, <3>8
      <4> HIDE DEF Runs
      <4>2. b = a
        BY <3>4, <3>5, <4>1
      <4>3. Owes(s, man, first, i - first, m, j) = s.owed[m][j]
        BY <1>2, <2>2, <2>6, <3>8 DEF Owes
      <4> QED
        BY <2>2, <2>3, <2>4, <4>2, <4>3 DEF b
    <3> QED
      BY <3>7, <3>8
  <2> QED
    BY <2>5, <2>6
<1>11. Settled(t)
  BY <1>10 DEF Settled
<1> QED
  BY <1>9, <1>11 DEF t, rs, end, x, i, run

\* What every state satisfies: it is good, and the managers owe what is ahead.
TargetIInv == Now(TRUE) \in GoodTargets /\ Settled(Now(TRUE)) /\ masterOn \in BOOLEAN

LEMMA NowFields ==
    ASSUME NEW clear
    PROVE  LET s == Now(clear)
           IN  /\ s.ent = ent /\ s.runs = runs /\ s.delayed = delayed
               /\ s.owed = owed /\ s.children = children
  BY DEF Now

LEMMA NowGood ==
    ASSUME TargetIInv, NEW clear \in BOOLEAN
    PROVE  Now(clear) \in GoodTargets /\ Settled(Now(clear)) /\ Now(clear) \in TargetStates
<1> DEFINE s == Now(TRUE)
           t == Now(clear)
<1>1. s \in GoodTargets /\ s \in TargetStates /\ Settled(s)
  BY DEF TargetIInv, GoodTargets
<1>2. /\ t.ent = s.ent /\ t.runs = s.runs /\ t.delayed = s.delayed
      /\ t.owed = s.owed /\ t.children = s.children
  BY NowFields
<1>3. t \in TargetStates
  BY <1>1 DEF Now, TargetStates
<1> HIDE DEF s, t
<1>4. t \in GoodTargets
  BY <1>1, <1>2, <1>3 DEF GoodTargets, EntGood, DelayedGood, GoodMaker
<1>5. Settled(t)
  BY <1>1, <1>2 DEF Settled
<1> QED
  BY <1>3, <1>4, <1>5 DEF t

\* The end of a call
LEMMA CallGood ==
    ASSUME NEW t \in GoodTargets, Settled(t), ent' = t.ent, runs' = t.runs,
           delayed' = t.delayed, owed' = t.owed, children' = t.children, masterOn' \in BOOLEAN
    PROVE  TargetIInv'
<1> DEFINE s == [ent |-> t.ent, runs |-> t.runs, delayed |-> t.delayed, owed |-> t.owed,
                 children |-> t.children, clear |-> TRUE, full |-> FALSE]
<1>1. Now(TRUE)' = s
  BY DEF Now
<1>2. t \in TargetStates
  BY DEF GoodTargets
<1>3. /\ s \in TargetStates /\ s.ent = t.ent /\ s.runs = t.runs /\ s.delayed = t.delayed
      /\ s.owed = t.owed /\ s.children = t.children
  BY <1>2 DEF TargetStates
<1> HIDE DEF s
<1>4. s \in GoodTargets
  BY <1>3 DEF GoodTargets, EntGood, DelayedGood, GoodMaker
<1>5. Settled(s)
  BY <1>3 DEF Settled
<1>6. (Settled(Now(TRUE)))' <=> Settled(s)
  BY <1>1 DEF Settled
<1>7. Now(TRUE)' \in GoodTargets
  BY <1>1, <1>4
<1> QED
  BY <1>5, <1>6, <1>7 DEF TargetIInv

LEMMA Becomes ==
    ASSUME NEW t \in GoodTargets, Settled(t), TargetsBecome(t), masterOn' \in BOOLEAN
    PROVE  TargetIInv'
<1>1. /\ ent' = t.ent /\ runs' = t.runs /\ delayed' = t.delayed /\ owed' = t.owed
      /\ children' = t.children
  BY DEF TargetsBecome
<1> QED
  BY <1>1, CallGood

LEMMA TargetInitIInv == TargetInit => TargetIInv
<1> SUFFICES ASSUME TargetInit PROVE TargetIInv
  OBVIOUS
<1> DEFINE s == Now(TRUE)
<1>1. ent \in [Entities -> EntType]
      /\ \A e \in Entities : ent[e].next = -1 /\ ent[e].left >= -1 /\ ent[e].live = 0
  <2> SUFFICES ASSUME NEW e \in Entities
               PROVE  /\ ent[e] \in EntType
                      /\ ent[e].next = -1 /\ ent[e].left >= -1 /\ ent[e].live = 0
    BY DEF TargetInit
  <2> DEFINE left == IF e \in Makers \cup Kind("trigger_counter") THEN TargetConf[e].count ELSE 0
             acts == e \in Makers /\ TargetConf[e].startOn
  <2>1. ent[e] = [gone |-> FALSE, next |-> NoThink, live |-> 0, left |-> left, active |-> acts]
    BY DEF TargetInit
  <2>2. left \in Int /\ left >= -1
    BY TargetAssumption
  <2>3. acts \in BOOLEAN
    BY TargetAssumption
  <2> HIDE DEF left, acts
  <2> QED
    BY <2>1, <2>2, <2>3 DEF EntType, NoThink
<1>2. runs \in [Runs -> RunType] /\ \A r \in Runs : runs[r] = Idle
  BY DEF TargetInit, Runs, RunType, Idle
<1>3. delayed = <<>> /\ masterOn \in BOOLEAN
  BY DEF TargetInit
<1>4. owed \in OwedType /\ \A m \in Managers : \A i \in DOMAIN List(m) : owed[m][i] = 0
  <2>1. owed = [m \in Managers |-> [i \in DOMAIN List(m) |-> 0]]
    BY DEF TargetInit
  <2>2. ASSUME NEW m \in Managers
        PROVE  /\ owed[m] \in Seq(Int) /\ DOMAIN owed[m] = DOMAIN List(m)
               /\ \A i \in DOMAIN List(m) : owed[m][i] = 0
    <3>1. DOMAIN List(m) = 1..Len(List(m)) /\ Len(List(m)) \in Nat
      BY ListTypes
    <3>2. owed[m] = [i \in DOMAIN List(m) |-> 0]
      BY <2>1
    <3> QED
      BY <3>1, <3>2
  <2> QED
    BY <2>1, <2>2 DEF OwedType
<1>5. children \in [Makers -> [alive : Int, lost : Int]]
      /\ \A m \in Makers : children[m].alive = 0 /\ children[m].lost = 0
  BY DEF TargetInit
<1>6. /\ s.ent = ent /\ s.runs = runs /\ s.delayed = delayed
      /\ s.owed = owed /\ s.children = children
  BY NowFields
<1>7. s \in TargetStates
  <2>1. delayed \in Seq(FiringType)
    BY <1>3
  <2> HIDE DEF EntType, RunType, FiringType, OwedType
  <2> QED
    BY <1>1, <1>2, <1>4, <1>5, <2>1 DEF Now, TargetStates, Runs
<1> HIDE DEF s
<1>8. s \in GoodTargets
  <2>1. EntGood(s) /\ DelayedGood(s)
    BY <1>1, <1>3, <1>6 DEF EntGood, DelayedGood, NoThink
  <2>2. \A r \in Runs : GoodRun(r, s.runs[r])
    BY <1>2, <1>6 DEF GoodRun
  <2>3. ASSUME NEW m \in Makers PROVE GoodMaker(s, m)
    <3>1. m \in Entities
      BY ConfTypes
    <3>2. m \in Limited => 0 <= TargetConf[m].max
      BY TargetAssumption DEF Limited
    <3> QED
      BY <1>1, <1>5, <1>6, <3>1, <3>2 DEF GoodMaker
  <2> QED
    BY <1>7, <2>1, <2>2, <2>3 DEF GoodTargets
<1>9. Settled(s)
  <2>1. ASSUME NEW m \in Managers, NEW i \in DOMAIN List(m)
        PROVE  s.owed[m][i] = Cardinality(Ahead(s.runs, m, i))
    <3>1. Ahead(s.runs, m, i) = {}
      BY <1>2, <1>6, ConfTypes DEF Ahead, Idle
    <3> QED
      BY <1>4, <1>6, <3>1, FS_EmptySet
  <2> QED
    BY <2>1 DEF Settled
<1> QED
  BY <1>3, <1>8, <1>9 DEF TargetIInv, s

LEMMA TouchTriggerGood ==
    ASSUME TargetIInv, NEW e \in Entities, NEW clear \in BOOLEAN, TouchTrigger(e, clear)
    PROVE  TargetIInv'
<1> DEFINE s == Now(clear)
           t == ActivateMultiTrigger(Fire[MaxNesting], s, e)
<1>1. s \in GoodTargets /\ Settled(s) /\ s \in TargetStates
  BY NowGood
<1>2. e \in Triggers
  BY DEF TouchTrigger, Triggers, Kind
<1>3. Did(s, t, e)
  BY <1>1, <1>2, FireAnswers, ActivateMultiTriggerDid
<1>4. TargetsBecome(t) /\ masterOn' \in BOOLEAN
  BY DEF TouchTrigger, TargetIInv
<1> HIDE DEF s, t
<1>5. t \in GoodTargets /\ Settled(t)
  BY <1>1, <1>3, DidKeeps
<1> QED
  BY <1>4, <1>5, Becomes

LEMMA FireNameGood ==
    ASSUME TargetIInv, NEW name \in FiredNames, NEW clear \in BOOLEAN, FireName(name, clear)
    PROVE  TargetIInv'
<1> DEFINE s == Now(clear)
           t == FireTargets(s, name, "TOGGLE")
<1>1. s \in GoodTargets /\ Settled(s)
  BY NowGood
<1>2. name \in Names /\ "TOGGLE" \in UseTypes
  BY TargetAssumption DEF UseTypes
<1>3. TargetsBecome(t) /\ masterOn' \in BOOLEAN
  BY DEF FireName, TargetIInv
<1>4. t \in GoodTargets /\ Settled(t)
  <2> HIDE DEF s
  <2> QED
    BY <1>1, <1>2, FiredKeeps
<1> HIDE DEF t
<1> QED
  BY <1>3, <1>4, Becomes

LEMMA TriggerThinkGood ==
    ASSUME TargetIInv, NEW e \in Entities, TriggerThink(e)
    PROVE  TargetIInv'
<1> DEFINE s == Now(TRUE)
           over == TargetConf[e].wait <= 0
           v == [ent[e] EXCEPT !.next = NoThink, !.gone = over]
           t == [s EXCEPT !.ent[e] = v]
<1>1. /\ s \in GoodTargets /\ Settled(s) /\ s \in TargetStates
      /\ s.ent = ent /\ s.runs = runs /\ s.delayed = delayed /\ s.owed = owed
      /\ s.children = children
  BY NowGood, NowFields
<1>2. /\ ent' = [ent EXCEPT ![e] = v] /\ runs' = runs /\ delayed' = delayed
      /\ owed' = owed /\ children' = children /\ masterOn' = masterOn
      /\ ~ent[e].gone
  BY DEF TriggerThink
<1>3. ent[e] \in EntType /\ over \in BOOLEAN
  <2>1. TargetConf[e].wait \in Int
    BY TargetAssumption DEF TriggerThink
  <2>2. over \in BOOLEAN
    BY <2>1
  <2> HIDE DEF over, s
  <2> QED
    BY <1>1, <2>2, TargetFields
<1> HIDE DEF over
<1>4. v \in EntType /\ v.live = ent[e].live /\ v.left = ent[e].left /\ v.next = -1
  <2> DEFINE w == [ent[e] EXCEPT !.next = NoThink]
  <2>1. w \in EntType /\ w.live = ent[e].live /\ w.left = ent[e].left /\ w.next = -1
    BY <1>3 DEF EntType, NoThink
  <2>2. v = [w EXCEPT !.gone = over]
    OBVIOUS
  <2> HIDE DEF w, v
  <2>3. v \in EntType
    BY <1>3, <2>1, <2>2, EntSet
  <2>4. v.live = w.live /\ v.left = w.left /\ v.next = w.next
    BY <2>1, <2>2 DEF EntType
  <2> QED
    BY <2>1, <2>3, <2>4
<1> HIDE DEF v, s
<1>5. /\ t \in TargetStates /\ t.ent = [s.ent EXCEPT ![e] = v] /\ t.runs = s.runs
      /\ t.delayed = s.delayed /\ t.owed = s.owed /\ t.children = s.children
  BY <1>1, <1>4, EntPut
<1> HIDE DEF t
<1>6. Did(s, t, e)
  <2>1. ~s.ent[e].gone /\ v.live = s.ent[e].live /\ v.left = s.ent[e].left
    BY <1>1, <1>2, <1>4
  <2> QED
    BY <1>1, <1>4, <1>5, <2>1, PutDid
<1>7. t \in GoodTargets /\ Settled(t)
  BY <1>1, <1>6, DidKeeps
<1>8. masterOn' \in BOOLEAN
  BY <1>2 DEF TargetIInv
<1> QED
  BY <1>1, <1>2, <1>5, <1>7, <1>8, CallGood

LEMMA MakerThinkGood ==
    ASSUME TargetIInv, NEW m \in Makers, NEW clear \in BOOLEAN, MakerThink(m, clear)
    PROVE  TargetIInv'
<1> DEFINE s == Now(clear)
           v == [s.ent[m] EXCEPT !.next = TargetConf[m].delay]
           t == [s EXCEPT !.ent[m].next = TargetConf[m].delay]
           u == MakeMonster(Fire[MaxNesting], t, m)
<1>1. s \in GoodTargets /\ Settled(s) /\ s \in TargetStates
  BY NowGood
<1>2. m \in Entities /\ TargetConf[m].delay \in Nat
  BY ConfTypes, TargetAssumption
<1>3. TargetsBecome(u) /\ masterOn' \in BOOLEAN
  BY DEF MakerThink, TargetIInv
<1>4. s.ent[m] \in EntType
  BY <1>1, <1>2, TargetFields
<1>5. /\ v \in EntType /\ v.live = s.ent[m].live /\ v.left = s.ent[m].left
      /\ v.gone = s.ent[m].gone /\ v.next >= -1
  BY <1>2, <1>4 DEF EntType
<1>6. t = [s EXCEPT !.ent[m] = v]
  OBVIOUS
<1> HIDE DEF v, s, t
<1>7. /\ t \in TargetStates /\ t.ent = [s.ent EXCEPT ![m] = v] /\ t.runs = s.runs
      /\ t.delayed = s.delayed /\ t.owed = s.owed /\ t.children = s.children
  BY <1>1, <1>2, <1>5, <1>6, EntPut
<1>8. Did(s, t, m)
  BY <1>1, <1>2, <1>5, <1>7, PutDid
<1>9. t \in GoodTargets /\ Settled(t)
  BY <1>1, <1>8, DidKeeps
<1>10. Did(t, u, m)
  BY <1>7, FireAnswers, MakeMonsterDid
<1> HIDE DEF u
<1>11. u \in GoodTargets /\ Settled(u)
  BY <1>9, <1>10, DidKeeps
<1> QED
  BY <1>3, <1>11, Becomes

LEMMA ManagerThinkGood ==
    ASSUME TargetIInv, NEW r \in Runs, NEW clear \in BOOLEAN, ManagerThink(r, clear)
    PROVE  TargetIInv'
<1> DEFINE s == Now(clear)
           run == s.runs[r]
           i == NotDue(run)
           x == FireDue(s, run)
           end == IF x.runs[r].man # run.man THEN x.runs[r]
                  ELSE IF Ended(run, i) THEN Idle ELSE [x.runs[r] EXCEPT !.m_index = i]
           t == [x EXCEPT !.runs = [x.runs EXCEPT ![r] = end]]
<1>1. s \in GoodTargets /\ Settled(s) /\ s.runs = runs
  BY NowGood, NowFields
<1>2. s.runs[r] # Idle
  BY <1>1 DEF ManagerThink, Due
<1>3. t \in GoodTargets /\ Settled(t)
  <2> HIDE DEF s
  <2> QED
    BY <1>1, <1>2, RunEnds
<1>4. TargetsBecome([x EXCEPT !.runs[r] = end])
  <2> HIDE DEF s
  <2> QED
    BY <1>1 DEF ManagerThink, s
<1>5. [x EXCEPT !.runs[r] = end] = t
  OBVIOUS
<1>6. TargetsBecome(t) /\ masterOn' \in BOOLEAN
  BY <1>4, <1>5 DEF ManagerThink, TargetIInv
<1> HIDE DEF t
<1> QED
  BY <1>3, <1>6, Becomes

LEMMA DelayThinkGood ==
    ASSUME TargetIInv, NEW i \in DOMAIN delayed, NEW clear \in BOOLEAN, DelayThink(i, clear)
    PROVE  TargetIInv'
<1> DEFINE s == Now(clear)
           d == delayed[i]
           rest == [j \in 1..Len(delayed) - 1 |-> IF j < i THEN delayed[j] ELSE delayed[j + 1]]
           t == [s EXCEPT !.delayed = rest]
           u == Kill(t, TargetConf[d.from].killtarget)
           x == FireTargets(u, TargetConf[d.from].target, d.useType)
<1>1. s \in GoodTargets /\ Settled(s) /\ s \in TargetStates /\ s.delayed = delayed
  BY NowGood, NowFields
<1>2. /\ delayed \in Seq(FiringType) /\ DOMAIN delayed = 1..Len(delayed) /\ Len(delayed) \in Nat
      /\ d \in FiringType /\ d.from \in Delayers
  <2>1. delayed \in Seq(FiringType)
    BY <1>1, TargetFields
  <2>2. DelayedGood(s)
    BY <1>1 DEF GoodTargets
  <2> HIDE DEF s
  <2> QED
    BY <1>1, <2>1, <2>2, SeqFacts DEF DelayedGood
<1>3. /\ TargetConf[d.from].killtarget \in Names /\ TargetConf[d.from].target \in Names
      /\ d.useType \in UseTypes
  BY <1>2, TargetAssumption DEF Delayers, FiringType
<1>4. TargetsBecome(x) /\ masterOn' \in BOOLEAN
  BY DEF DelayThink, TargetIInv
<1>5. /\ rest \in Seq(FiringType)
      /\ \A j \in DOMAIN rest : \E k \in DOMAIN delayed : rest[j] = delayed[k]
  <2>1. \A j \in 1..Len(delayed) - 1 : j \in DOMAIN delayed /\ j + 1 \in DOMAIN delayed
    BY <1>2
  <2>2. \A j \in DOMAIN delayed : delayed[j] \in FiringType
    BY <1>2
  <2>3. Len(delayed) - 1 \in Nat
    BY <1>2
  <2>4. \A j \in 1..Len(delayed) - 1 : \E k \in DOMAIN delayed : rest[j] = delayed[k]
    BY <2>1
  <2>5. DOMAIN rest = 1..Len(delayed) - 1
    OBVIOUS
  <2> HIDE DEF rest
  <2>6. \A j \in 1..Len(delayed) - 1 : rest[j] \in FiringType
    BY <2>2, <2>4
  <2>7. rest = [j \in 1..Len(delayed) - 1 |-> rest[j]]
    BY <2>5 DEF rest
  <2>8. rest \in Seq(FiringType)
    BY <2>3, <2>6, <2>7
  <2> QED
    BY <2>4, <2>5, <2>8
<1> HIDE DEF rest, s, d
<1>6. /\ t \in TargetStates /\ t.ent = s.ent /\ t.runs = s.runs /\ t.delayed = rest
      /\ t.owed = s.owed /\ t.children = s.children
  BY <1>1, <1>5, DelayedUpdate
<1> HIDE DEF t
<1>7. Did(s, t, d.from)
  <2>1. Still(s, t)
    BY <1>6 DEF Still
  <2>2. EntGood(s) => EntGood(t)
    BY <1>6 DEF EntGood
  <2>3. DelayedGood(s) => DelayedGood(t)
    BY <1>1, <1>5, <1>6 DEF DelayedGood
  <2> QED
    BY <1>1, <2>1, <2>2, <2>3, StillDid
<1>8. t \in GoodTargets /\ Settled(t)
  BY <1>1, <1>7, DidKeeps
<1>9. Did(t, u, d.from)
  BY <1>3, <1>6, KillDid
<1> HIDE DEF u
<1>10. u \in GoodTargets /\ Settled(u)
  BY <1>8, <1>9, DidKeeps
<1>11. x \in GoodTargets /\ Settled(x)
  BY <1>3, <1>10, FiredKeeps
<1> HIDE DEF x
<1> QED
  BY <1>4, <1>11, Becomes

LEMMA TickGood == ASSUME TargetIInv, Tick PROVE TargetIInv'
<1> DEFINE s == Now(TRUE)
           later(e) == IF ent[e].gone \/ ent[e].next = NoThink THEN ent[e]
                       ELSE [ent[e] EXCEPT !.next = ent[e].next - 1]
           on(r) == IF runs[r] = Idle THEN Idle
                    ELSE [runs[r] EXCEPT !.elapsed = runs[r].elapsed + 1]
           sooner(i) == [delayed[i] EXCEPT !.next = delayed[i].next - 1]
           ents == [e \in Entities |-> later(e)]
           rs == [r \in Runs |-> on(r)]
           ds == [i \in DOMAIN delayed |-> sooner(i)]
           t == [s EXCEPT !.ent = ents]
           u == [t EXCEPT !.runs = rs]
           v == [u EXCEPT !.delayed = ds]
<1>1. /\ s \in GoodTargets /\ Settled(s) /\ s \in TargetStates
      /\ s.ent = ent /\ s.runs = runs /\ s.delayed = delayed /\ s.owed = owed
      /\ s.children = children
  BY NowGood, NowFields
<1> HIDE DEF s
<1>2. /\ ent \in [Entities -> EntType] /\ runs \in [Runs -> RunType] /\ DOMAIN runs = Runs
      /\ delayed \in Seq(FiringType)
  BY <1>1, TargetFields
<1>3. EntGood(s) /\ DelayedGood(s)
  BY <1>1 DEF GoodTargets
<1>4. ASSUME NEW e \in Entities
      PROVE  /\ later(e) \in EntType /\ later(e).gone = ent[e].gone
             /\ later(e).next >= -1 /\ later(e).left >= -1
             /\ later(e).live = ent[e].live /\ later(e).live \in Nat
  <2>1. /\ ent[e] \in EntType /\ ent[e].next >= -1 /\ ent[e].left >= -1 /\ ent[e].live \in Nat
        /\ ent[e].next \in Int
    BY <1>1, <1>2, <1>3, EntFields DEF EntGood, NoThink
  <2>2. CASE ent[e].gone \/ ent[e].next = NoThink
    BY <2>1, <2>2
  <2>3. CASE ~(ent[e].gone \/ ent[e].next = NoThink)
    <3> DEFINE n == ent[e].next - 1
    <3>1. n \in Int /\ n >= -1
      <4>1. ent[e].gone \/ ent[e].next # 0
        BY DEF Tick
      <4>2. ent[e].next # 0 /\ ent[e].next # -1
        BY <2>3, <4>1 DEF NoThink
      <4> QED
        BY <2>1, <4>2
    <3>2. later(e) = [ent[e] EXCEPT !.next = n]
      BY <2>3
    <3> HIDE DEF n, later
    <3>3. later(e) \in EntType
      BY <2>1, <3>1, <3>2, EntSet
    <3>4. /\ later(e).gone = ent[e].gone /\ later(e).left = ent[e].left
          /\ later(e).live = ent[e].live /\ later(e).next = n
      BY <2>1, <3>2 DEF EntType
    <3> QED
      BY <2>1, <3>1, <3>3, <3>4
  <2> QED
    BY <2>2, <2>3
<1>5. ASSUME NEW r \in Runs
      PROVE  /\ on(r) \in RunType /\ on(r).man = runs[r].man /\ on(r).m_index = runs[r].m_index
             /\ GoodRun(r, on(r))
  <2>1. runs[r] \in RunType /\ GoodRun(r, runs[r])
    BY <1>1, <1>2 DEF GoodTargets
  <2>2. CASE runs[r] = Idle
    BY <2>1, <2>2
  <2>3. CASE runs[r] # Idle
    BY <2>1, <2>3 DEF RunType, GoodRun
  <2> QED
    BY <2>2, <2>3
<1>6. ASSUME NEW i \in DOMAIN delayed
      PROVE  sooner(i) \in FiringType /\ sooner(i).from \in Delayers /\ sooner(i).next \in Nat
  <2>1. delayed[i] \in FiringType /\ delayed[i].from \in Delayers /\ delayed[i].next \in Nat
    BY <1>1, <1>2, <1>3, SeqFacts DEF DelayedGood
  <2>2. delayed[i].next # 0
    BY DEF Tick
  <2> QED
    BY <2>1, <2>2 DEF FiringType
<1>7. ent' = ents /\ runs' = rs /\ delayed' = ds /\ owed' = owed /\ children' = children
      /\ masterOn' \in BOOLEAN
  BY <1>2 DEF Tick, TargetIInv
<1> HIDE DEF later, on, sooner
<1>8. ents \in [Entities -> EntType] /\ rs \in [Runs -> RunType] /\ ds \in Seq(FiringType)
  <2>1. DOMAIN delayed = 1..Len(delayed) /\ Len(delayed) \in Nat
    BY <1>2
  <2>2. ds \in Seq(FiringType)
    BY <1>6, <2>1
  <2> QED
    BY <1>4, <1>5, <2>2
<1>9. /\ \A e \in Entities : ents[e] = later(e)
      /\ \A r \in Runs : rs[r] = on(r)
      /\ DOMAIN ds = DOMAIN delayed /\ \A i \in DOMAIN ds : ds[i] = sooner(i)
  OBVIOUS
<1> HIDE DEF ents, rs, ds
<1>10. t \in TargetStates /\ t.runs = s.runs /\ t.delayed = s.delayed /\ t.ent = ents
       /\ t.owed = s.owed /\ t.children = s.children
  BY <1>1, <1>8, EntUpdate
<1> HIDE DEF t
<1>11. u \in TargetStates /\ u.runs = rs /\ u.delayed = s.delayed /\ u.ent = ents
       /\ u.owed = s.owed /\ u.children = s.children
  BY <1>8, <1>10, RunsUpdate
<1> HIDE DEF u
<1>12. v \in TargetStates /\ v.runs = rs /\ v.delayed = ds /\ v.ent = ents
       /\ v.owed = s.owed /\ v.children = s.children
  BY <1>8, <1>11, DelayedUpdate
<1> HIDE DEF v
<1>13. v \in GoodTargets
  <2>1. EntGood(v)
    BY <1>4, <1>9, <1>12 DEF EntGood, NoThink
  <2>2. DelayedGood(v)
    BY <1>6, <1>9, <1>12 DEF DelayedGood
  <2>3. \A r \in Runs : GoodRun(r, v.runs[r])
    BY <1>5, <1>9, <1>12
  <2>4. ASSUME NEW m \in Makers PROVE GoodMaker(v, m)
    <3>1. m \in Entities /\ GoodMaker(s, m)
      BY <1>1, ConfTypes DEF GoodTargets
    <3> QED
      BY <1>1, <1>4, <1>9, <1>12, <3>1 DEF GoodMaker
  <2> QED
    BY <1>12, <2>1, <2>2, <2>3, <2>4 DEF GoodTargets
<1>14. Settled(v)
  <2>1. \A m \in Managers : v.ent[m].gone = s.ent[m].gone
    BY <1>1, <1>4, <1>9, <1>12, ConfTypes
  <2>2. DOMAIN v.runs = Runs /\ DOMAIN s.runs = Runs
    BY <1>1, <1>2, <1>8, <1>12
  <2>3. \A m, i : Ahead(v.runs, m, i) = Ahead(s.runs, m, i)
    BY <1>1, <1>5, <1>9, <1>12, <2>2 DEF Ahead
  <2> QED
    BY <1>1, <1>12, <2>1, <2>3 DEF Settled
<1> QED
  BY <1>1, <1>7, <1>12, <1>13, <1>14, CallGood

\* A child that lives no more, noticed or not
LEMMA ChildGone ==
    ASSUME TargetIInv, NEW m \in Makers, NEW live \in Nat, NEW lost \in Nat,
           children[m].alive > 0, live = children[m].alive - 1 + lost,
           children' = [children EXCEPT ![m].alive = children[m].alive - 1, ![m].lost = lost],
           ent' = [ent EXCEPT ![m].live = live],
           runs' = runs, delayed' = delayed, owed' = owed, masterOn' = masterOn
    PROVE  TargetIInv'
<1> DEFINE s == Now(TRUE)
           v == [s.ent[m] EXCEPT !.live = live]
           alive == children[m].alive - 1
           c == [s.children[m] EXCEPT !.alive = alive, !.lost = lost]
           kids == [s.children EXCEPT ![m] = c]
           t == [s EXCEPT !.ent[m] = v]
           u == [t EXCEPT !.children = kids]
<1>1. /\ s \in GoodTargets /\ Settled(s) /\ s \in TargetStates
      /\ s.ent = ent /\ s.runs = runs /\ s.delayed = delayed /\ s.owed = owed
      /\ s.children = children
  BY NowGood, NowFields
<1> HIDE DEF s
<1>2. m \in Entities /\ GoodMaker(s, m)
  BY <1>1, ConfTypes DEF GoodTargets
<1>3. /\ ent' = [s.ent EXCEPT ![m] = v] /\ children' = kids
  BY <1>1
<1>4. s.ent[m] \in EntType /\ s.children[m] \in [alive : Int, lost : Int]
  BY <1>1, <1>2, TargetFields
<1>5. alive \in Nat /\ live = alive + lost /\ (m \in Limited => alive <= TargetConf[m].max)
  BY <1>1, <1>2, TargetAssumption DEF GoodMaker
<1> HIDE DEF alive
<1>6. /\ v \in EntType /\ v.live = live /\ v.left = s.ent[m].left
      /\ v.gone = s.ent[m].gone /\ v.next = s.ent[m].next
  BY <1>4 DEF EntType
<1>7. c \in [alive : Int, lost : Int] /\ c.alive = alive /\ c.lost = lost
  <2> DEFINE x == s.children[m]
  <2>1. x \in [alive : Int, lost : Int] /\ alive \in Int /\ lost \in Int
    BY <1>4, <1>5
  <2>2. c = [x EXCEPT !.alive = alive, !.lost = lost]
    OBVIOUS
  <2> HIDE DEF x, c
  <2> QED
    BY <2>1, <2>2
<1> HIDE DEF v, c
<1>8. /\ t \in TargetStates /\ t.ent = [s.ent EXCEPT ![m] = v] /\ t.runs = s.runs
      /\ t.delayed = s.delayed /\ t.owed = s.owed /\ t.children = s.children
  BY <1>1, <1>2, <1>6, EntPut
<1> HIDE DEF t
<1>9. kids \in [Makers -> [alive : Int, lost : Int]]
      /\ \A k \in Makers : kids[k] = IF k = m THEN c ELSE s.children[k]
  BY <1>1, <1>7, TargetFields
<1>10. \A e \in Entities : t.ent[e] = IF e = m THEN v ELSE s.ent[e]
  BY <1>1, <1>8, TargetFields
<1> HIDE DEF kids
<1>11. /\ u \in TargetStates /\ u.ent = t.ent /\ u.runs = s.runs /\ u.delayed = s.delayed
       /\ u.owed = s.owed /\ u.children = kids
  BY <1>8, <1>9 DEF TargetStates
<1> HIDE DEF u
<1>12. u \in GoodTargets
  <2>1. EntGood(s) /\ DelayedGood(s)
    BY <1>1 DEF GoodTargets
  <2>2. EntGood(u)
    BY <1>6, <1>10, <1>11, <2>1 DEF EntGood
  <2>3. DelayedGood(u)
    BY <1>11, <2>1 DEF DelayedGood
  <2>4. ASSUME NEW k \in Makers PROVE GoodMaker(u, k)
    <3>1. k \in Entities /\ GoodMaker(s, k)
      BY <1>1, ConfTypes DEF GoodTargets
    <3>2. CASE k = m
      BY <1>5, <1>6, <1>7, <1>9, <1>10, <1>11, <3>1, <3>2 DEF GoodMaker
    <3>3. CASE k # m
      BY <1>9, <1>10, <1>11, <3>1, <3>3 DEF GoodMaker
    <3> QED
      BY <3>2, <3>3
  <2> QED
    BY <1>1, <1>11, <2>2, <2>3, <2>4 DEF GoodTargets
<1>13. Settled(u)
  <2>1. \A k \in Managers : u.ent[k].gone = s.ent[k].gone
    BY <1>6, <1>10, <1>11, ConfTypes
  <2> QED
    BY <1>1, <1>11, <2>1 DEF Settled
<1>14. masterOn' \in BOOLEAN
  BY DEF TargetIInv
<1> QED
  BY <1>1, <1>3, <1>8, <1>11, <1>12, <1>13, <1>14, CallGood

LEMMA ChildStepGood ==
    ASSUME TargetIInv, NEW m \in Makers, ChildKilled(m) \/ ChildRemoved(m)
    PROVE  TargetIInv'
<1> DEFINE s == Now(TRUE)
<1>1. /\ s \in GoodTargets /\ s \in TargetStates /\ s.ent = ent /\ s.children = children
  BY NowGood, NowFields
<1> HIDE DEF s
<1>2. m \in Entities /\ GoodMaker(s, m)
  BY <1>1, ConfTypes DEF GoodTargets
<1>3. /\ ent[m] \in EntType /\ children[m] \in [alive : Int, lost : Int]
      /\ ent \in [Entities -> EntType] /\ children \in [Makers -> [alive : Int, lost : Int]]
  BY <1>1, <1>2, TargetFields
<1>4. /\ children[m].alive \in Nat /\ children[m].lost \in Nat
      /\ ent[m].live = children[m].alive + children[m].lost
  BY <1>1, <1>2 DEF GoodMaker
<1>5. children[m].alive > 0
  BY DEF ChildKilled, ChildRemoved
<1>6. CASE ChildKilled(m)
  <2> DEFINE lost == children[m].lost
             live == ent[m].live - 1
  <2>1. lost \in Nat /\ live \in Nat /\ live = children[m].alive - 1 + lost
    BY <1>4, <1>5
  <2>2. children' = [children EXCEPT ![m].alive = children[m].alive - 1, ![m].lost = lost]
    BY <1>3, <1>6 DEF ChildKilled
  <2>3. /\ ent' = [ent EXCEPT ![m].live = live]
        /\ runs' = runs /\ delayed' = delayed /\ owed' = owed /\ masterOn' = masterOn
    BY <1>6 DEF ChildKilled
  <2> HIDE DEF lost, live
  <2> QED
    BY <1>5, <2>1, <2>2, <2>3, ChildGone
<1>7. CASE ChildRemoved(m)
  <2> DEFINE lost == children[m].lost + 1
             live == ent[m].live
  <2>1. lost \in Nat /\ live \in Nat /\ live = children[m].alive - 1 + lost
    BY <1>4, <1>5
  <2>2. children' = [children EXCEPT ![m].alive = children[m].alive - 1, ![m].lost = lost]
    BY <1>7 DEF ChildRemoved
  <2>3. ent' = [ent EXCEPT ![m].live = live]
    BY <1>2, <1>3, <1>7 DEF ChildRemoved
  <2>4. runs' = runs /\ delayed' = delayed /\ owed' = owed /\ masterOn' = masterOn
    BY <1>7 DEF ChildRemoved
  <2> HIDE DEF lost, live
  <2> QED
    BY <1>5, <2>1, <2>2, <2>3, <2>4, ChildGone
<1> QED
  BY <1>6, <1>7

LEMMA TargetStutter == ASSUME TargetIInv, UNCHANGED targetVars PROVE TargetIInv'
<1> DEFINE s == Now(TRUE)
<1>1. /\ s \in GoodTargets /\ Settled(s)
      /\ s.ent = ent /\ s.runs = runs /\ s.delayed = delayed /\ s.owed = owed
      /\ s.children = children
  BY NowGood, NowFields
<1> HIDE DEF s
<1>2. /\ ent' = s.ent /\ runs' = s.runs /\ delayed' = s.delayed /\ owed' = s.owed
      /\ children' = s.children
  BY <1>1 DEF targetVars
<1>3. masterOn' \in BOOLEAN
  BY DEF targetVars, TargetIInv
<1> QED
  BY <1>1, <1>2, <1>3, CallGood

LEMMA TargetNextIInv == TargetIInv /\ [TargetNext]_targetVars => TargetIInv'
<1> SUFFICES ASSUME TargetIInv, [TargetNext]_targetVars PROVE TargetIInv'
  OBVIOUS
<1> DEFINE s == Now(TRUE)
<1>1. DOMAIN runs = Runs
  <2>1. s \in TargetStates /\ s.runs = runs
    BY NowGood, NowFields
  <2> HIDE DEF s
  <2> QED
    BY <2>1, TargetFields
<1>2. ASSUME NEW e \in Entities, TriggerThink(e) PROVE TargetIInv'
  BY <1>2, TriggerThinkGood
<1>3. ASSUME NEW clear \in BOOLEAN, NEW m \in Makers, MakerThink(m, clear) PROVE TargetIInv'
  BY <1>3, MakerThinkGood
<1>4. ASSUME NEW clear \in BOOLEAN, NEW r \in DOMAIN runs, ManagerThink(r, clear)
      PROVE  TargetIInv'
  BY <1>1, <1>4, ManagerThinkGood
<1>5. ASSUME NEW clear \in BOOLEAN, NEW i \in DOMAIN delayed, DelayThink(i, clear)
      PROVE  TargetIInv'
  BY <1>5, DelayThinkGood
<1>6. ASSUME Tick PROVE TargetIInv'
  BY <1>6, TickGood
<1>7. ASSUME SwitchMaster PROVE TargetIInv'
  <2>1. /\ s \in GoodTargets /\ Settled(s)
        /\ s.ent = ent /\ s.runs = runs /\ s.delayed = delayed /\ s.owed = owed
        /\ s.children = children
    BY NowGood, NowFields
  <2> HIDE DEF s
  <2>2. /\ ent' = s.ent /\ runs' = s.runs /\ delayed' = s.delayed /\ owed' = s.owed
        /\ children' = s.children /\ masterOn' \in BOOLEAN
    BY <1>7, <2>1 DEF SwitchMaster
  <2> QED
    BY <2>1, <2>2, CallGood
<1>8. ASSUME NEW clear \in BOOLEAN, NEW e \in Entities, TouchTrigger(e, clear) PROVE TargetIInv'
  BY <1>8, TouchTriggerGood
<1>9. ASSUME NEW clear \in BOOLEAN, NEW name \in FiredNames, FireName(name, clear)
      PROVE  TargetIInv'
  BY <1>9, FireNameGood
<1>10. ASSUME NEW m \in Makers, ChildKilled(m) \/ ChildRemoved(m) PROVE TargetIInv'
  BY <1>10, ChildStepGood
<1>11. ASSUME UNCHANGED targetVars PROVE TargetIInv'
  BY <1>11, TargetStutter
<1>12. CASE TargetThink
  BY <1>2, <1>3, <1>4, <1>5, <1>12 DEF TargetThink
<1>13. CASE TargetNext
  BY <1>6, <1>7, <1>8, <1>9, <1>10, <1>12, <1>13 DEF TargetNext
<1> QED
  BY <1>11, <1>13

LEMMA TargetIInvAlways == TargetSpec => []TargetIInv
<1> QED
  BY TargetInitIInv, TargetNextIInv, PTL DEF TargetSpec

LEMMA TargetIInvTypes == TargetIInv => TargetTypeOK
<1> SUFFICES ASSUME TargetIInv PROVE TargetTypeOK
  OBVIOUS
<1> DEFINE s == Now(TRUE)
<1>1. /\ s \in GoodTargets /\ s \in TargetStates /\ s.ent = ent /\ s.runs = runs
      /\ s.delayed = delayed /\ masterOn \in BOOLEAN
  BY NowGood, NowFields DEF TargetIInv
<1> HIDE DEF s
<1>2. ASSUME NEW e \in Entities
      PROVE  /\ ent[e].gone \in BOOLEAN /\ ent[e].active \in BOOLEAN
             /\ ent[e].next >= NoThink /\ ent[e].left >= -1 /\ ent[e].live \in Nat
  <2>1. ent[e] \in EntType
    BY <1>1, TargetFields
  <2>2. EntGood(s)
    BY <1>1 DEF GoodTargets
  <2> QED
    BY <1>1, <2>1, <2>2, EntFields DEF EntGood
<1>3. DOMAIN runs = Runs /\ \A r \in Runs : GoodRun(r, runs[r])
  BY <1>1, TargetFields DEF GoodTargets
<1>4. \A i \in DOMAIN delayed : delayed[i].from \in Entities /\ delayed[i].next \in Nat
  BY <1>1, ConfTypes DEF GoodTargets, DelayedGood
<1> QED
  BY <1>1, <1>2, <1>3, <1>4 DEF TargetTypeOK, GoodRun

\* Entities have what their fields may hold, runs are of a manager that has the
\* target they are at, and delayed firings come from entities that fire
\* (dlls/triggers.cpp, dlls/subs.cpp, dlls/monstermaker.cpp).
THEOREM TargetTypes == TargetSpec => []TargetTypeOK
<1> QED
  BY TargetIInvAlways, TargetIInvTypes, PTL

\* Whatever the map, and whatever its entities fire in the middle of a call, a
\* manager fires each of its targets once for each time it is activated
\* (CMultiManager::ManagerUse, ManagerThink).
THEOREM ManagersAlwaysFireAll == TargetSpec => []ManagersFireAll
<1>1. TargetIInv => ManagersFireAll
  BY NowFields DEF TargetIInv, Settled, ManagersFireAll
<1> QED
  BY <1>1, TargetIInvAlways, PTL

\* A maker counts the children that live and those that vanished unnoticed, and
\* one that its own firing does not reach never has more than its limit alive,
\* in any map (CMonsterMaker::MakeMonster, DeathNotice).
THEOREM ChildrenAlwaysCounted == TargetSpec => []ChildrenCounted
<1>1. TargetIInv => ChildrenCounted
  <2> SUFFICES ASSUME TargetIInv, NEW m \in Makers PROVE GoodMaker(Now(TRUE), m)
    BY NowFields DEF ChildrenCounted, GoodMaker
  <2> QED
    BY DEF TargetIInv, GoodTargets
<1> QED
  BY <1>1, TargetIInvAlways, PTL

-----------------------------------------------------------------------------
(* All of them side by side *)

\* The campaign of the reconnect hack is the module with other constants, for all of
\* which CampaignTypes and CampaignIsKept hold; here it is left out.
CampaignGoesOn == component # "reconnect" => CampaignIInv
PlayIInv == CampaignGoesOn /\ Good(NowCarried) /\ TargetIInv /\ TankIInv /\ IInv

LEMMA PlayNextIInv == PlayIInv /\ [PlayNext]_playVars => PlayIInv'
<1> SUFFICES ASSUME PlayIInv, [PlayNext]_playVars PROVE PlayIInv'
  OBVIOUS
<1>1. CampaignGoesOn /\ Good(NowCarried) /\ TargetIInv /\ TankIInv /\ IInv
  BY DEF PlayIInv
<1>2. /\ component' = component
      /\ component # "reconnect" => [CampaignNext]_campaignVars
      /\ [WeaponNext]_weaponVars /\ [TargetNext]_targetVars
      /\ [TanksNext]_tankVars /\ [Next]_vars
  <2>1. CASE InCampaign /\ CampaignNext
    BY <2>1 DEF InCampaign
  <2>2. CASE InReconnect /\ Reconnect!CampaignNext
    BY <2>2 DEF InReconnect
  <2>3. CASE InWeapons /\ WeaponNext
    BY <2>3 DEF InWeapons
  <2>4. CASE InTargets /\ TargetNext
    BY <2>4 DEF InTargets
  <2>5. CASE InTanks /\ TanksNext
    BY <2>5 DEF InTanks
  <2>6. CASE InSounds /\ Next
    BY <2>6 DEF InSounds
  <2>7. CASE UNCHANGED playVars
    BY <2>7 DEF playVars
  <2> QED
    BY <2>1, <2>2, <2>3, <2>4, <2>5, <2>6, <2>7 DEF PlayNext
<1>3. Good(NowCarried)'
  BY <1>1, <1>2, WeaponNextGood
<1>4. CampaignGoesOn'
  BY <1>1, <1>2, CampaignNextIInv DEF CampaignGoesOn
<1> QED
  BY <1>1, <1>2, <1>3, <1>4, TargetNextIInv, TankNextIInv, NextIInv DEF PlayIInv

\* The campaign, the weapons, what fires each other, the guns and the sounds keep
\* their types together: no step of one touches the state of another.
THEOREM PlayIsTyped ==
    ASSUME SharedMax
    PROVE  PlaySpec => [](component # "reconnect" => PlayTypeOK)
<1>1. PlayInit => PlayIInv
  BY CampaignInitIInv, WeaponInitGood, TargetInitIInv, TankInitIInv, InitIInv
     DEF PlayInit, PlayIInv, CampaignGoesOn
<1>2. PlayIInv => (component # "reconnect" => PlayTypeOK)
  <2> SUFFICES ASSUME PlayIInv, component # "reconnect" PROVE PlayTypeOK
    OBVIOUS
  <2>1. CampaignTypeOK
    BY CampaignIInvTypes DEF PlayIInv, CampaignGoesOn
  <2>2. WeaponTypeOK
    BY WeaponsGoodTypes DEF PlayIInv
  <2>3. TargetTypeOK
    BY TargetIInvTypes DEF PlayIInv
  <2>4. TanksTypeOK
    BY TankIInvTypes DEF PlayIInv
  <2>5. TypeOK
    BY DEF PlayIInv, IInv
  <2> QED
    BY <2>1, <2>2, <2>3, <2>4, <2>5 DEF PlayTypeOK
<1> QED
  BY <1>1, <1>2, PlayNextIInv, PTL DEF PlaySpec
=============================================================================
