---------------------------- MODULE CoopVoteProofs ----------------------------
(***************************************************************************)
(* Votes and the change of level, for any number of players and triggers   *)
(* and without a bound on what happens: a vote that is decided is over,    *)
(* and the level goes back only by agreement.                              *)
(*                                                                         *)
(* One command may go through a touch, a count, the start of a vote and    *)
(* the end of the level; each of these is a function of the whole state,   *)
(* and has a lemma that says what it leaves behind.                        *)
(***************************************************************************)
EXTENDS CoopVote, FiniteSetTheorems, TLAPS

PlayerType == [slot : {"free", "used", "left"},
               iState : {"UNINITIALIZED", "SPECTATOR_BEGIN", "SPAWNED"},
               model : BOOLEAN, age : {"new", "old"}, fIsTempBanned : BOOLEAN,
               iLocalConfirm : Int, pChangeLevel : Triggers \cup {NULL}]
TriggerType == [fValid : BOOLEAN, fired : BOOLEAN]
VoteType == [iMode : VoteModes, pPlayer : Players \cup {NULL}, pTrigger : Triggers \cup {NULL},
             age : {"misclick", "open", "expired"}, iMaxCount : 0 .. Cardinality(Players),
             iTempBanCount : Nat, iConfirm : Int]

\* A vote about a level has a trigger, and a player in whose name it is
\* touched again; no vote that is decided stays.
SoundVotes ==
    {v \in VoteType :
        /\ v.iMode = "VOTE_COOP_CHANGELEVEL" => v.pPlayer # NULL /\ v.pTrigger # NULL
        /\ v.iMode = "VOTE_COMMAND" => ~(v.iConfirm > v.iMaxCount \div 2)
        /\ v.iTempBanCount < 3}

\* The inductive invariant, of the state as a record.
Good == [vote : SoundVotes, player : [Players -> PlayerType],
         trigger : [Triggers -> TriggerType], g_fPause : BOOLEAN]

-----------------------------------------------------------------------------
(* The operators *)

LEMMA PlayersCounted ==
    ASSUME NEW S \in SUBSET Players
    PROVE  IsFiniteSet(S) /\ Cardinality(S) \in 0 .. Cardinality(Players)
<1>1. IsFiniteSet(S) /\ Cardinality(S) <= Cardinality(Players)
  BY VoteAssumption, FS_Subset
<1>2. Cardinality(S) \in Nat /\ Cardinality(Players) \in Nat
  BY <1>1, VoteAssumption, FS_CardinalityType
<1> QED
  BY <1>1, <1>2

LEMMA NoVoteSound == NoVote \in SoundVotes
<1>1. Cardinality(Players) \in Nat
  BY VoteAssumption, FS_CardinalityType
<1>2. NoVote \in VoteType
  BY <1>1 DEF NoVote, VoteType, VoteModes
<1> QED
  BY <1>2 DEF NoVote, SoundVotes

LEMMA StartVoteSound ==
    ASSUME NEW s \in Good, NEW mode \in {"VOTE_COOP_CHANGELEVEL", "VOTE_COMMAND"},
           NEW p \in Players \cup {NULL}, NEW t \in Triggers \cup {NULL},
           mode = "VOTE_COOP_CHANGELEVEL" => p # NULL /\ t # NULL
    PROVE  StartVote(s, mode, p, t) \in SoundVotes
<1> DEFINE asked == {q \in Players : /\ s.player[q].slot # "free"
                                     /\ s.player[q].iState = "SPAWNED"
                                     /\ ~GGM_IsTempBanned(s, q)}
           n == Cardinality(asked)
           v == [iMode |-> mode, pPlayer |-> p, pTrigger |-> t, age |-> "misclick",
                 iMaxCount |-> n, iTempBanCount |-> 0, iConfirm |-> 0]
<1>1. n \in 0 .. Cardinality(Players)
  BY PlayersCounted
<1>2. Cardinality(Players) \in Nat
  BY VoteAssumption, FS_CardinalityType
<1>3. StartVote(s, mode, p, t) = v
  BY DEF StartVote
<1> HIDE DEF n
<1>4. v \in VoteType
  BY <1>1 DEF VoteType, VoteModes
<1>5. ~(0 > n \div 2)
  BY <1>1, <1>2
<1> QED
  BY <1>3, <1>4, <1>5 DEF SoundVotes

LEMMA ClearExpiredGood ==
    ASSUME NEW s \in Good
    PROVE  ClearExpired(s) \in Good
  BY NoVoteSound DEF ClearExpired, Good

LEMMA SetConfirmGood ==
    ASSUME NEW s \in Good, NEW p \in Players, NEW n \in Int, NEW t \in Triggers \cup {NULL}
    PROVE  /\ SetConfirm(s, p, n, t) \in Good
           /\ SetConfirm(s, p, n, t).vote = s.vote
           /\ SetConfirm(s, p, n, t).trigger = s.trigger
           /\ SetConfirm(s, p, n, t).g_fPause = s.g_fPause
           /\ Counted(SetConfirm(s, p, n, t)) = Counted(s)
<1> DEFINE pl == [s.player[p] EXCEPT !.iLocalConfirm = n, !.pChangeLevel = t]
           r == SetConfirm(s, p, n, t)
<1>1. pl \in PlayerType
  <2>1. s.player[p] \in PlayerType
    BY DEF Good
  <2> QED
    BY <2>1 DEF PlayerType
<1>2. /\ pl.slot = s.player[p].slot /\ pl.model = s.player[p].model
      /\ pl.age = s.player[p].age /\ pl.iState = s.player[p].iState
      /\ pl.fIsTempBanned = s.player[p].fIsTempBanned
  BY DEF Good, PlayerType
<1>3. r = [s EXCEPT !.player = [s.player EXCEPT ![p] = pl]]
  BY DEF SetConfirm
<1> HIDE DEF pl, r
<1>4. r \in Good /\ r.vote = s.vote /\ r.trigger = s.trigger /\ r.g_fPause = s.g_fPause
  BY <1>1, <1>3 DEF Good
<1>5. \A q \in Players : r.player[q] = IF q = p THEN pl ELSE s.player[q]
  BY <1>1, <1>3 DEF Good
<1>6. Counted(r) = Counted(s)
  BY <1>2, <1>5 DEF Counted, GGM_IsTempBanned
<1> QED
  BY <1>4, <1>6 DEF r

\* A touch that is counted as an agreement finds a vote on this trigger that is
\* not too old, and returns its confirmations.
LEMMA ChangelevelVoteGood ==
    ASSUME NEW s \in Good, NEW p \in Players, NEW t \in Triggers
    PROVE  LET r == ChangelevelVote(s, p, t)
           IN  /\ r.s \in Good
               /\ r.s.trigger = s.trigger
               /\ r.count \in Int
               /\ r.count > 0 => /\ s.vote.iMode = "VOTE_COOP_CHANGELEVEL"
                                 /\ s.vote.pTrigger = t
                                 /\ s.vote.age # "expired"
                                 /\ s.vote.iConfirm = r.count
<1> DEFINE c == ClearExpired(s)
           local == IF c.player[p].iLocalConfirm <= 0 THEN 1 ELSE c.player[p].iLocalConfirm
           r == ChangelevelVote(s, p, t)
<1>1. c \in Good /\ c.trigger = s.trigger
  BY ClearExpiredGood DEF ClearExpired, Good
<1>2. local \in Int
  BY <1>1 DEF Good, PlayerType
<1>3. c.vote.iMode # "VOTE_NONE" => s.vote.age # "expired" /\ c = s
  BY DEF ClearExpired, NoVote, Good
<1>4. r = IF c.vote.iMode # "VOTE_NONE" THEN [s |-> c, count |-> Pending(c, t)]
          ELSE IF GGM_IsTempBanned(c, p) THEN [s |-> c, count |-> -1]
          ELSE IF local < 3 THEN [s |-> SetConfirm(c, p, local, t), count |-> -1]
          ELSE [s |-> [SetConfirm(c, p, 0, NULL) EXCEPT
                          !.vote = StartVote(c, "VOTE_COOP_CHANGELEVEL", p, t)],
                count |-> 0]
  BY DEF ChangelevelVote
<1> HIDE DEF c, local, r
<1>5. CASE c.vote.iMode # "VOTE_NONE"
  BY <1>1, <1>3, <1>4, <1>5 DEF Pending, Good, SoundVotes, VoteType, r
<1>6. CASE c.vote.iMode = "VOTE_NONE" /\ GGM_IsTempBanned(c, p)
  BY <1>1, <1>4, <1>6 DEF r
<1>7. CASE c.vote.iMode = "VOTE_NONE" /\ ~GGM_IsTempBanned(c, p) /\ local < 3
  BY <1>1, <1>2, <1>4, <1>7, SetConfirmGood DEF r
<1>8. CASE c.vote.iMode = "VOTE_NONE" /\ ~GGM_IsTempBanned(c, p) /\ ~(local < 3)
  <2> DEFINE a == SetConfirm(c, p, 0, NULL)
             v == StartVote(c, "VOTE_COOP_CHANGELEVEL", p, t)
  <2>1. a \in Good /\ a.trigger = s.trigger
    BY <1>1, SetConfirmGood
  <2>2. v \in SoundVotes
    BY <1>1, StartVoteSound, VoteAssumption
  <2>3. r = [s |-> [a EXCEPT !.vote = v], count |-> 0]
    BY <1>4, <1>8
  <2> HIDE DEF a, v
  <2> QED
    BY <2>1, <2>2, <2>3 DEF Good, r
<1> QED
  BY <1>5, <1>6, <1>7, <1>8

LEMMA LeaveLevelGood ==
    ASSUME NEW s \in Good, NEW t \in Triggers
    PROVE  /\ LeaveLevel(s, t) \in Good
           /\ \A b \in Triggers : b # t => LeaveLevel(s, t).trigger[b] = s.trigger[b]
<1>1. ASSUME NEW q \in Players
      PROVE  [s.player[q] EXCEPT !.iState = "UNINITIALIZED", !.model = FALSE] \in PlayerType
  <2>1. s.player[q] \in PlayerType
    BY DEF Good
  <2> QED
    BY <2>1 DEF PlayerType
<1>2. [q \in Players |->
          IF s.player[q].slot = "free" THEN s.player[q]
          ELSE [s.player[q] EXCEPT !.iState = "UNINITIALIZED", !.model = FALSE]]
         \in [Players -> PlayerType]
  BY <1>1 DEF Good
<1>3. [s.trigger EXCEPT ![t].fValid = TRUE] \in [Triggers -> TriggerType]
  BY DEF Good, TriggerType
<1>4. \A b \in Triggers : b # t => [s.trigger EXCEPT ![t].fValid = TRUE][b] = s.trigger[b]
  BY DEF Good
<1> QED
  BY <1>2, <1>3, <1>4, NoVoteSound DEF LeaveLevel, Good

LEMMA ChangeCountedGood ==
    ASSUME NEW s \in Good, NEW t \in Triggers, NEW inVolume
    PROVE  /\ ChangeCounted(s, t, inVolume) \in Good
           /\ \A b \in Triggers :
                 b # t => ChangeCounted(s, t, inVolume).trigger[b] = s.trigger[b]
<1> DEFINE fired == [s EXCEPT !.trigger[t].fired = TRUE]
<1>1. fired \in Good /\ \A b \in Triggers : b # t => fired.trigger[b] = s.trigger[b]
  BY DEF Good, TriggerType
<1>2. ChangeCounted(s, t, inVolume) = IF s.trigger[t].fired THEN s
                                      ELSE IF inVolume THEN LeaveLevel(fired, t) ELSE fired
  BY DEF ChangeCounted
<1> HIDE DEF fired
<1> QED
  BY <1>1, <1>2, LeaveLevelGood

\* How a touch may end the level.
LEMMA ChangeLevelNowGood ==
    ASSUME NEW s \in Good, NEW p \in Players, NEW t \in Triggers, NEW inVolume, NEW repeated
    PROVE  LET r == ChangeLevelNow(s, p, t, inVolume, repeated)
           IN  /\ r \in Good
               /\ \A b \in Back : ~s.trigger[b].fValid /\ r.trigger[b].fValid =>
                     /\ s.vote.iMode = "VOTE_COOP_CHANGELEVEL"
                     /\ s.vote.pTrigger = b
                     /\ s.vote.age # "expired"
                     /\ s.vote.iConfirm >= Cardinality(Counted(s))
<1> DEFINE n == Cardinality(Counted(s))
           asked == ChangelevelVote(s, p, t)
           r == ChangeLevelNow(s, p, t, inVolume, repeated)
<1>1. n \in Nat
  <2>1. Counted(s) \in SUBSET Players
    BY DEF Counted
  <2> QED
    BY <2>1, PlayersCounted
<1>2. /\ asked.s \in Good
      /\ asked.s.trigger = s.trigger
      /\ asked.count \in Int
      /\ asked.count > 0 => /\ s.vote.iMode = "VOTE_COOP_CHANGELEVEL"
                            /\ s.vote.pTrigger = t
                            /\ s.vote.age # "expired"
                            /\ s.vote.iConfirm = asked.count
  BY ChangelevelVoteGood
<1>3. r = IF s.trigger[t].fValid THEN s
          ELSE IF n = 0
          THEN IF repeated THEN [s EXCEPT !.player[p].iLocalConfirm = -2] ELSE s
          ELSE IF t \notin Back THEN ChangeCounted(s, t, inVolume)
          ELSE IF asked.count < n THEN asked.s
          ELSE ChangeCounted(asked.s, t, inVolume)
  BY DEF ChangeLevelNow
<1>4. [s EXCEPT !.player[p].iLocalConfirm = -2] \in Good
  BY SMTT(20), ZenonT(40) DEF Good, PlayerType
<1>5. [s EXCEPT !.player[p].iLocalConfirm = -2].trigger = s.trigger
  BY DEF Good
<1> HIDE DEF n, asked, r
<1>6. CASE r \in {s, asked.s, [s EXCEPT !.player[p].iLocalConfirm = -2]}
  BY <1>2, <1>4, <1>5, <1>6 DEF r
<1>7. CASE t \notin Back /\ r = ChangeCounted(s, t, inVolume)
  BY <1>7, ChangeCountedGood, VoteAssumption DEF r
<1>8. CASE n # 0 /\ ~(asked.count < n) /\ r = ChangeCounted(asked.s, t, inVolume)
  <2>1. asked.count > 0 /\ asked.count >= n
    BY <1>1, <1>2, <1>8
  <2>2. r \in Good /\ \A b \in Triggers : b # t => r.trigger[b] = s.trigger[b]
    BY <1>2, <1>8, ChangeCountedGood
  <2> QED
    BY <1>2, <2>1, <2>2, VoteAssumption DEF n, r
<1> QED
  BY <1>3, <1>6, <1>7, <1>8

LEMMA DispatchTouchGood ==
    ASSUME NEW s \in Good, NEW p \in Players, NEW t \in Triggers, NEW inVolume, NEW repeated
    PROVE  LET r == DispatchTouch(s, t, p, inVolume, repeated)
           IN  /\ r \in Good
               /\ \A b \in Back : ~s.trigger[b].fValid /\ r.trigger[b].fValid =>
                     /\ s.vote.iMode = "VOTE_COOP_CHANGELEVEL"
                     /\ s.vote.pTrigger = b
                     /\ s.vote.age # "expired"
                     /\ s.vote.iConfirm >= Cardinality(Counted(s))
  BY ChangeLevelNowGood DEF DispatchTouch

-----------------------------------------------------------------------------
(* The steps *)

\* The inductive invariant, of the variables.
IInv == State \in Good

LEMMA BecomeGood ==
    ASSUME NEW s \in Good, Become(s)
    PROVE  IInv' /\ trigger' = s.trigger
  BY DEF Become, IInv, State, Good

\* A touch ends the level in agreement if it sees no more confirmations than
\* those of the vote and the present one.
LEMMA TouchStep ==
    ASSUME IInv, NEW s \in Good, NEW p \in Players, NEW t \in Triggers,
           NEW inVolume, NEW repeated,
           Become(DispatchTouch(s, t, p, inVolume, repeated)),
           s.trigger = trigger, Counted(s) = Counted(State),
           s.vote = vote \/ s.vote = [vote EXCEPT !.iConfirm = vote.iConfirm + 1]
    PROVE  IInv' /\ EndsInAgreement
<1> DEFINE r == DispatchTouch(s, t, p, inVolume, repeated)
<1>1. /\ r \in Good
      /\ \A b \in Back : ~s.trigger[b].fValid /\ r.trigger[b].fValid =>
            /\ s.vote.iMode = "VOTE_COOP_CHANGELEVEL"
            /\ s.vote.pTrigger = b
            /\ s.vote.age # "expired"
            /\ s.vote.iConfirm >= Cardinality(Counted(s))
  BY DispatchTouchGood
<1>2. IInv' /\ trigger' = r.trigger
  BY <1>1, BecomeGood
<1>3. Cardinality(Counted(State)) \in Nat
  BY PlayersCounted DEF Counted
<1>4. vote \in VoteType
  BY DEF IInv, State, Good, SoundVotes
<1>5. /\ s.vote.iMode = vote.iMode /\ s.vote.pTrigger = vote.pTrigger
      /\ s.vote.age = vote.age /\ s.vote.iConfirm <= vote.iConfirm + 1
      /\ s.vote.iConfirm \in Int /\ vote.iConfirm \in Int
  BY <1>4 DEF VoteType
<1> HIDE DEF r
<1> QED
  BY <1>1, <1>2, <1>3, <1>5 DEF EndsInAgreement

LEMMA InitIInv == Init => IInv
<1> SUFFICES ASSUME Init PROVE IInv
  OBVIOUS
<1>1. NewPlayer \in PlayerType
  BY DEF NewPlayer, PlayerType
<1>2. NewTriggers \in [Triggers -> TriggerType]
  BY DEF NewTriggers, TriggerType
<1> QED
  BY <1>1, <1>2, NoVoteSound DEF Init, IInv, State, Good

\* A step that ends no level ends it in agreement.
LEMMA SameTriggers ==
    ASSUME \A b \in Back \ Used : trigger'[b].fValid => trigger[b].fValid
    PROVE  EndsInAgreement
  BY DEF EndsInAgreement

LEMMA ConfirmStep ==
    ASSUME IInv, NEW p \in Players, ConfirmChangelevel(p)
    PROVE  IInv' /\ EndsInAgreement
<1> DEFINE n == player[p].iLocalConfirm + 1
           t == player[p].pChangeLevel
           m == IF n > 3 THEN 3 ELSE n
           s == SetConfirm(State, p, m, NULL)
<1>1. State \in Good /\ m \in Int
  BY DEF IInv, State, Good, PlayerType
<1>2. /\ s \in Good /\ s.vote = vote /\ s.trigger = trigger
      /\ Counted(s) = Counted(State)
  <2>1. State.vote = vote /\ State.trigger = trigger
    BY DEF State
  <2> HIDE DEF m
  <2> QED
    BY <1>1, <2>1, SetConfirmGood
<1>3. \/ Become(s)
      \/ /\ t # NULL
         /\ \E inVolume \in BOOLEAN, repeated \in TooEarly :
               Become(DispatchTouch(s, t, p, inVolume, repeated))
  BY DEF ConfirmChangelevel
<1>4. t \in Triggers \cup {NULL}
  BY <1>1 DEF State, Good, PlayerType
<1> HIDE DEF n, t, m, s
<1>5. CASE Become(s)
  BY <1>2, <1>5, BecomeGood, SameTriggers
<1>6. ASSUME t # NULL, NEW inVolume \in BOOLEAN, NEW repeated \in TooEarly,
             Become(DispatchTouch(s, t, p, inVolume, repeated))
      PROVE  IInv' /\ EndsInAgreement
  BY <1>2, <1>4, <1>6, TouchStep
<1> QED
  BY <1>3, <1>5, <1>6

LEMMA VoteConfirmStep ==
    ASSUME IInv, NEW p \in Players, VoteConfirm(p)
    PROVE  IInv' /\ EndsInAgreement
<1> DEFINE v == [vote EXCEPT !.iConfirm = vote.iConfirm + 1]
           s == [State EXCEPT !.vote = v]
<1>1. State \in Good /\ vote \in SoundVotes /\ vote \in VoteType
  BY DEF IInv, State, Good, SoundVotes
<1>2. /\ v \in VoteType /\ v.iMode = vote.iMode /\ v.pPlayer = vote.pPlayer
      /\ v.pTrigger = vote.pTrigger /\ v.iTempBanCount = vote.iTempBanCount
  BY <1>1 DEF VoteType
<1>3. s.vote = v /\ s.trigger = trigger /\ s.player = player
  BY DEF State
<1>4. Counted(s) = Counted(State)
  BY <1>3 DEF Counted, GGM_IsTempBanned, State
<1>5. CASE /\ vote.iMode = "VOTE_COOP_CHANGELEVEL"
           /\ \/ Become(s)
              \/ \E inVolume \in BOOLEAN, repeated \in TooEarly :
                    Become(DispatchTouch(s, vote.pTrigger, vote.pPlayer, inVolume, repeated))
  <2>1. v \in SoundVotes
    BY <1>1, <1>2, <1>5 DEF SoundVotes
  <2>2. s \in Good
    BY <1>1, <2>1 DEF Good
  <2>3. vote.pTrigger \in Triggers /\ vote.pPlayer \in Players
    BY <1>1, <1>5 DEF SoundVotes, VoteType
  <2>4. CASE Become(s)
    BY <1>3, <2>2, <2>4, BecomeGood, SameTriggers
  <2>5. ASSUME NEW inVolume \in BOOLEAN, NEW repeated \in TooEarly,
               Become(DispatchTouch(s, vote.pTrigger, vote.pPlayer, inVolume, repeated))
        PROVE  IInv' /\ EndsInAgreement
    BY <1>3, <1>4, <2>2, <2>3, <2>5, TouchStep
  <2> QED
    BY <1>5, <2>4, <2>5
<1>6. CASE /\ vote.iMode = "VOTE_COMMAND"
           /\ Become(IF Majority(s) THEN [s EXCEPT !.vote = NoVote] ELSE s)
  <2>1. CASE Majority(s)
    <3>1. [s EXCEPT !.vote = NoVote] \in Good /\ [s EXCEPT !.vote = NoVote].trigger = trigger
      BY <1>1, <1>3, NoVoteSound DEF Good
    <3> QED
      BY <1>6, <2>1, <3>1, BecomeGood, SameTriggers
  <2>2. CASE ~Majority(s)
    <3>1. v \in SoundVotes
      BY <1>1, <1>2, <1>3, <1>6, <2>2 DEF SoundVotes, Majority
    <3>2. s \in Good
      BY <1>1, <3>1 DEF Good
    <3> QED
      BY <1>3, <1>6, <2>2, <3>2, BecomeGood, SameTriggers
  <2> QED
    BY <2>1, <2>2
<1> QED
  BY <1>5, <1>6 DEF VoteConfirm

\* Steps that touch no trigger, or only let it be touched again.
LEMMA OtherSteps ==
    ASSUME IInv,
           \/ \E t \in Triggers : UseChangeLevel(t) \/ TriggerAges(t)
           \/ ServerActivate \/ VoteCommand \/ VoteAges
           \/ \E p \in Players :
                 \/ VoteLoad(p) \/ VoteExpired(p) \/ VoteCancel(p) \/ VoteTempBan(p)
                 \/ PutInServer(p) \/ PlayerSpawn(p) \/ Disconnect(p) \/ PlayerAges(p)
           \/ UNCHANGED vars
    PROVE  IInv' /\ EndsInAgreement
<1>1. State \in Good /\ vote \in SoundVotes /\ vote \in VoteType
      /\ player \in [Players -> PlayerType] /\ trigger \in [Triggers -> TriggerType]
      /\ g_fPause \in BOOLEAN
  BY DEF IInv, State, Good, SoundVotes
<1>2. ASSUME NEW t \in Triggers, UseChangeLevel(t) PROVE IInv' /\ EndsInAgreement
  <2>1. PICK inVolume \in BOOLEAN : Become(ChangeCounted(State, t, inVolume))
    BY <1>2 DEF UseChangeLevel
  <2> DEFINE r == ChangeCounted(State, t, inVolume)
  <2>2. r \in Good /\ \A b \in Triggers : b # t => r.trigger[b] = State.trigger[b]
    BY <1>1, ChangeCountedGood
  <2>3. t \in Used /\ State.trigger = trigger
    BY <1>2 DEF UseChangeLevel, State
  <2> HIDE DEF r
  <2> QED
    BY <2>1, <2>2, <2>3, BecomeGood, SameTriggers, VoteAssumption DEF r
<1>3. ASSUME NEW t \in Triggers, TriggerAges(t) PROVE IInv' /\ EndsInAgreement
  <2>1. trigger' \in [Triggers -> TriggerType] /\ UNCHANGED <<vote, player, g_fPause>>
        /\ \A b \in Triggers : trigger'[b].fValid = trigger[b].fValid
    BY <1>1, <1>3 DEF TriggerAges, TriggerType
  <2> QED
    BY <1>1, <2>1, SameTriggers, VoteAssumption DEF IInv, State, Good
<1>4. CASE ServerActivate
  <2>1. trigger' \in [Triggers -> TriggerType] /\ \A b \in Triggers : ~trigger'[b].fValid
    BY <1>4 DEF ServerActivate, NewTriggers, TriggerType
  <2>2. ASSUME NEW p \in Players, NEW slot \in {"used", "free"}
        PROVE  [NewPlayer EXCEPT !.slot = slot, !.fIsTempBanned = player[p].fIsTempBanned]
                  \in PlayerType
    <3>1. player[p].fIsTempBanned \in BOOLEAN
      BY <1>1 DEF PlayerType
    <3>2. NewPlayer \in PlayerType
      BY DEF NewPlayer, PlayerType
    <3> QED
      BY <3>1, <3>2 DEF PlayerType
  <2>3. player' \in [Players -> PlayerType]
    BY <1>4, <2>2 DEF ServerActivate
  <2>4. vote' \in SoundVotes /\ g_fPause' \in BOOLEAN
    BY <1>4, NoVoteSound DEF ServerActivate
  <2> QED
    BY <2>1, <2>3, <2>4, SameTriggers, VoteAssumption DEF IInv, State, Good
<1>5. ASSUME NEW p \in Players \cup {NULL},
             LET s == ClearExpired(State)
             IN  Become(IF s.vote.iMode # "VOTE_NONE" THEN s
                        ELSE [s EXCEPT !.vote = StartVote(s, "VOTE_COMMAND", p, NULL)])
      PROVE  IInv' /\ EndsInAgreement
  <2> DEFINE s == ClearExpired(State)
             v == StartVote(s, "VOTE_COMMAND", p, NULL)
             n == [s EXCEPT !.vote = v]
  <2>1. s \in Good /\ s.trigger = trigger
    BY <1>1, ClearExpiredGood DEF ClearExpired, State
  <2>2. v \in SoundVotes
    BY <2>1, StartVoteSound
  <2>3. Become(s) \/ Become(n)
    BY <1>5
  <2> HIDE DEF s, v
  <2>4. n \in Good /\ n.trigger = trigger
    BY <2>1, <2>2 DEF Good
  <2> HIDE DEF n
  <2> QED
    BY <2>1, <2>3, <2>4, BecomeGood, SameTriggers
<1>6. CASE VoteCommand
  BY <1>5, <1>6 DEF VoteCommand
<1>7. ASSUME NEW p \in Players, VoteLoad(p) PROVE IInv' /\ EndsInAgreement
  BY <1>5, <1>7 DEF VoteLoad
<1>8. ASSUME vote' \in SoundVotes, UNCHANGED <<player, trigger, g_fPause>>
      PROVE  IInv' /\ EndsInAgreement
  BY <1>1, <1>8, SameTriggers DEF IInv, State, Good
<1>9. CASE VoteAges
  <2>1. vote' \in VoteType /\ vote'.iMode = vote.iMode /\ vote'.pPlayer = vote.pPlayer
        /\ vote'.pTrigger = vote.pTrigger /\ vote'.iMaxCount = vote.iMaxCount
        /\ vote'.iConfirm = vote.iConfirm /\ vote'.iTempBanCount = vote.iTempBanCount
    BY <1>1, <1>9 DEF VoteAges, VoteType
  <2>2. vote' \in SoundVotes
    BY <1>1, <2>1 DEF SoundVotes
  <2> QED
    BY <1>8, <1>9, <2>2 DEF VoteAges
<1>10. ASSUME NEW p \in Players, VoteExpired(p) PROVE IInv' /\ EndsInAgreement
  BY <1>8, <1>10, NoVoteSound DEF VoteExpired
<1>11. ASSUME NEW p \in Players, VoteCancel(p) PROVE IInv' /\ EndsInAgreement
  <2> DEFINE v == [vote EXCEPT !.iConfirm = vote.iConfirm - 1]
  <2>1. v \in VoteType /\ v.iMode = vote.iMode /\ v.pPlayer = vote.pPlayer
        /\ v.pTrigger = vote.pTrigger /\ v.iMaxCount = vote.iMaxCount
        /\ v.iConfirm = vote.iConfirm - 1 /\ v.iTempBanCount = vote.iTempBanCount
    BY <1>1 DEF VoteType
  <2>2. vote.iConfirm \in Int /\ vote.iMaxCount \div 2 \in Int
    <3>1. Cardinality(Players) \in Nat
      BY VoteAssumption, FS_CardinalityType
    <3> QED
      BY <1>1, <3>1 DEF VoteType
  <2>3. v \in SoundVotes
    <3> DEFINE k == vote.iMaxCount \div 2
    <3>1. k \in Int /\ v.iMaxCount \div 2 = k
      BY <2>1, <2>2
    <3> HIDE DEF v, k
    <3>2. ~(vote.iConfirm > k) => ~(v.iConfirm > k)
      BY <2>1, <2>2, <3>1
    <3> QED
      BY <1>1, <2>1, <3>1, <3>2 DEF SoundVotes, k
  <2>4. vote' \in SoundVotes
    BY <1>11, <2>3, NoVoteSound DEF VoteCancel
  <2> QED
    BY <1>8, <1>11, <2>4 DEF VoteCancel
<1>12. ASSUME NEW p \in Players, VoteTempBan(p) PROVE IInv' /\ EndsInAgreement
  <2> DEFINE v == [vote EXCEPT !.iTempBanCount = vote.iTempBanCount + 1]
  <2>1. v \in VoteType /\ v.iMode = vote.iMode /\ v.pPlayer = vote.pPlayer
        /\ v.pTrigger = vote.pTrigger /\ v.iMaxCount = vote.iMaxCount
        /\ v.iConfirm = vote.iConfirm
    BY <1>1 DEF VoteType
  <2>2. BanVoted(v) \in SoundVotes
    <3>1. v.iTempBanCount \in Nat
      BY <2>1 DEF VoteType
    <3>2. v.iTempBanCount < 3 => v \in SoundVotes
      BY <1>1, <2>1 DEF SoundVotes
    <3> HIDE DEF v
    <3> QED
      BY <3>1, <3>2, NoVoteSound DEF BanVoted
  <2> QED
    BY <1>8, <1>12, <2>2 DEF VoteTempBan, GGM_TempBan
<1>13. ASSUME player' \in [Players -> PlayerType], g_fPause' \in BOOLEAN,
              UNCHANGED <<vote, trigger>>
       PROVE  IInv' /\ EndsInAgreement
  BY <1>1, <1>13, SameTriggers DEF IInv, State, Good
<1>14. ASSUME NEW p \in Players, PutInServer(p) PROVE IInv' /\ EndsInAgreement
  <2>1. ASSUME NEW old \in PlayerType, NEW banned \in BOOLEAN
        PROVE  [old EXCEPT !.slot = "used", !.iState = "SPECTATOR_BEGIN", !.model = FALSE,
                           !.age = "new", !.fIsTempBanned = banned] \in PlayerType
    BY DEF PlayerType
  <2>2. player[p] \in PlayerType /\ NewPlayer \in PlayerType
    BY <1>1 DEF NewPlayer, PlayerType
  <2>3. PICK old \in {player[p], NewPlayer}, banned \in {(p \in BadNames), FALSE} :
            player' = [player EXCEPT ![p] =
                [old EXCEPT !.slot = "used", !.iState = "SPECTATOR_BEGIN", !.model = FALSE,
                            !.age = "new", !.fIsTempBanned = banned]]
    BY <1>14, Zenon DEF PutInServer
  <2>4. old \in PlayerType /\ banned \in BOOLEAN
    <3>1. old \in PlayerType
      BY <2>2
    <3>2. (p \in BadNames) \in BOOLEAN
      OBVIOUS
    <3>3. \A x \in {(p \in BadNames), FALSE} : x \in BOOLEAN
      BY <3>2, Zenon
    <3> QED
      BY <3>1, <3>3
  <2>5. player' \in [Players -> PlayerType] /\ UNCHANGED <<vote, trigger, g_fPause>>
    BY <1>1, <1>14, <2>1, <2>3, <2>4 DEF PutInServer
  <2> QED
    BY <1>1, <1>13, <2>5
<1>15. ASSUME NEW p \in Players, PlayerSpawn(p) PROVE IInv' /\ EndsInAgreement
  <2>1. [player[p] EXCEPT !.iState = "SPAWNED", !.model = TRUE, !.age = "new"] \in PlayerType
    <3>1. player[p] \in PlayerType
      BY <1>1
    <3> QED
      BY <3>1 DEF PlayerType
  <2>2. player' \in [Players -> PlayerType] /\ g_fPause' \in BOOLEAN /\ UNCHANGED <<vote, trigger>>
    BY <1>1, <1>15, <2>1 DEF PlayerSpawn
  <2> QED
    BY <1>13, <2>2
<1>16. ASSUME NEW p \in Players, Disconnect(p) PROVE IInv' /\ EndsInAgreement
  <2>1. ASSUME NEW slot \in {"free", "left"}
        PROVE  [player[p] EXCEPT !.slot = slot, !.iState = "UNINITIALIZED"] \in PlayerType
    BY <1>1 DEF PlayerType
  <2>2. player' \in [Players -> PlayerType] /\ UNCHANGED <<vote, trigger, g_fPause>>
    BY <1>1, <1>16, <2>1 DEF Disconnect
  <2> QED
    BY <1>1, <1>13, <2>2
<1>17. ASSUME NEW p \in Players, PlayerAges(p) PROVE IInv' /\ EndsInAgreement
  <2>1. player' \in [Players -> PlayerType] /\ UNCHANGED <<vote, trigger, g_fPause>>
    BY <1>1, <1>17 DEF PlayerAges, PlayerType
  <2> QED
    BY <1>1, <1>13, <2>1
<1>18. CASE UNCHANGED vars
  BY <1>1, <1>8, <1>18 DEF vars
<1> QED
  BY <1>2, <1>3, <1>4, <1>6, <1>7, <1>9, <1>10, <1>11, <1>12, <1>14, <1>15, <1>16, <1>17, <1>18

LEMMA NextIInv == IInv /\ [Next]_vars => IInv' /\ EndsInAgreement
<1> SUFFICES ASSUME IInv, [Next]_vars PROVE IInv' /\ EndsInAgreement
  OBVIOUS
<1>1. ASSUME NEW p \in Players, NEW t \in Triggers, Touch(p, t)
      PROVE  IInv' /\ EndsInAgreement
  <2>1. State \in Good /\ State.trigger = trigger /\ State.vote = vote
    BY DEF IInv, State
  <2>2. PICK inVolume \in BOOLEAN, repeated \in TooEarly :
            Become(DispatchTouch(State, t, p, inVolume, repeated))
    BY <1>1 DEF Touch
  <2> QED
    BY <2>1, <2>2, TouchStep
<1>2. ASSUME NEW p \in Players, ConfirmChangelevel(p) PROVE IInv' /\ EndsInAgreement
  BY <1>2, ConfirmStep
<1>3. ASSUME NEW p \in Players, VoteConfirm(p) PROVE IInv' /\ EndsInAgreement
  BY <1>3, VoteConfirmStep
<1> QED
  BY <1>1, <1>2, <1>3, OtherSteps DEF Next

LEMMA SpecIInv == Spec => []IInv
  BY InitIInv, NextIInv, PTL DEF Spec

-----------------------------------------------------------------------------
(* The theorems *)

(***************************************************************************)
(* Votes, players and triggers have the fields of their code: in           *)
(* particular the vote about a level always has a trigger and somebody who *)
(* touches it, which voteconfirm dereferences without a look.              *)
(***************************************************************************)
THEOREM VoteTypeOK == Spec => []TypeOK
<1>1. IInv => TypeOK
  BY DEF IInv, State, Good, SoundVotes, VoteType, PlayerType, TriggerType, TypeOK
<1> QED
  BY SpecIInv, <1>1, PTL

(***************************************************************************)
(* No vote that is decided stays open, for any number of players.          *)
(***************************************************************************)
THEOREM VoteDecidedIsOver == Spec => []DecidedVoteIsOver
<1>1. IInv => DecidedVoteIsOver
  BY DEF IInv, State, Good, SoundVotes, DecidedVoteIsOver
<1> QED
  BY SpecIInv, <1>1, PTL

(***************************************************************************)
(* The level goes back only when as many have confirmed as are to be       *)
(* counted, in a vote on this very trigger: whoever touches, confirms,     *)
(* cancels, joins and leaves in between.                                   *)
(***************************************************************************)
THEOREM VoteBackIsAgreed == Spec => BackIsAgreed
<1>1. IInv /\ [Next]_vars => [EndsInAgreement]_vars
  BY NextIInv
<1> QED
  BY SpecIInv, <1>1, PTL DEF Spec, BackIsAgreed
=============================================================================
