------------------------------- MODULE CoopVote -------------------------------
(***************************************************************************)
(* Votes and the change of level in cooperative games: g_Vote of           *)
(* dlls/gravgunmod.cpp, the changelevel triggers of triggers.cpp, the      *)
(* client commands of coop.cpp and the states a player joins through.      *)
(*                                                                         *)
(* Touching a trigger that leads back starts a vote once the player has    *)
(* confirmed twice; every confirmation touches the trigger again in the    *)
(* name of the player who started the vote, until the number of            *)
(* confirmations suffices.  Menus, messages, trains and saved positions    *)
(* are left out, and where a player stands is an input.  Left out, too, is *)
(* the wait at a trigger that leads on, which needs nine players.          *)
(*                                                                         *)
(* Time is qualitative: a vote is younger than VOTE_MISCLICK_TIME, open or *)
(* older than VOTE_INACTIVE_TIME, a player is spawned for at most or for   *)
(* more than the 30 seconds of ChangeLevelNow.                             *)
(***************************************************************************)
EXTENDS Integers, FiniteSets

CONSTANTS
    Players,      \* the client slots
    Triggers,     \* the trigger_changelevel entities of a level
    Back,         \* those that lead back (fIsBack)
    NULL,
    Used,         \* those that the map may use, without a touch
    BadNames,     \* the slots where players with a banned nickname come
    TooEarly,     \* the values of "flRepeatTimer has run out"
    MaxConfirm    \* bound of the model: |iConfirm| in a vote

ASSUME VoteAssumption ==
    /\ IsFiniteSet(Players)
    /\ Back \subseteq Triggers
    /\ Used \subseteq Triggers
    /\ BadNames \subseteq Players
    /\ TooEarly \subseteq BOOLEAN
    /\ NULL \notin Players \cup Triggers
    /\ MaxConfirm \in Nat

VARIABLES
    vote,      \* g_Vote
    player,    \* the players: m_ggm and the edict
    trigger,   \* m_coopData and dmgtime of the triggers
    g_fPause

vars == <<vote, player, trigger, g_fPause>>

VoteModes == {"VOTE_NONE", "VOTE_COOP_CHANGELEVEL", "VOTE_COMMAND"}

TypeOK ==
    /\ vote \in [iMode         : VoteModes,
                 pPlayer       : Players \cup {NULL},
                 pTrigger      : Triggers \cup {NULL},
                 age           : {"misclick", "open", "expired"},
                 iMaxCount     : 0 .. Cardinality(Players),
                 iTempBanCount : Nat,
                 iConfirm      : Int]
    /\ player \in [Players -> [slot          : {"free", "used", "left"},
                               iState        : {"UNINITIALIZED", "SPECTATOR_BEGIN", "SPAWNED"},
                               model         : BOOLEAN,          \* modelindex # 0
                               age           : {"new", "old"},
                               fIsTempBanned : BOOLEAN,
                               iLocalConfirm : Int,
                               pChangeLevel  : Triggers \cup {NULL}]]
    /\ trigger \in [Triggers -> [fValid : BOOLEAN, \* the level is changing
                                 fired  : BOOLEAN]] \* dmgtime = gpGlobals->time
    /\ g_fPause \in BOOLEAN

NoVote == [iMode |-> "VOTE_NONE", pPlayer |-> NULL, pTrigger |-> NULL, age |-> "expired",
           iMaxCount |-> 0, iTempBanCount |-> 0, iConfirm |-> 0]

NewPlayer == [slot |-> "free", iState |-> "UNINITIALIZED", model |-> FALSE, age |-> "new",
              fIsTempBanned |-> FALSE, iLocalConfirm |-> 0, pChangeLevel |-> NULL]

NewTriggers == [t \in Triggers |-> [fValid |-> FALSE, fired |-> FALSE]]

Init ==
    /\ vote = NoVote
    /\ player = [p \in Players |-> NewPlayer]
    /\ trigger = NewTriggers
    /\ g_fPause = FALSE

-----------------------------------------------------------------------------
(* The vote.  The operators below work on the whole state as a record, for  *)
(* one command may touch a trigger and that may count, start or end a vote. *)

State == [vote |-> vote, player |-> player, trigger |-> trigger, g_fPause |-> g_fPause]

Become(s) ==
    /\ vote' = s.vote
    /\ player' = s.player
    /\ trigger' = s.trigger
    /\ g_fPause' = s.g_fPause

\* pState is NULL until the player is put in the server.
GGM_IsTempBanned(s, p) ==
    s.player[p].iState # "UNINITIALIZED" /\ s.player[p].fIsTempBanned

\* A vote that starts with the player and the trigger exchanged.
StartVoteSwapped(s, mode, p, t) ==
    [iMode |-> mode, pPlayer |-> t, pTrigger |-> p, age |-> "misclick",
     iMaxCount |-> 0, iTempBanCount |-> 0, iConfirm |-> 0]

\* GGM_BroadcastVote for a vote that starts: whom it asks is counted.
StartVote(s, mode, p, t) ==
    LET asked == {q \in Players : /\ s.player[q].slot # "free"
                                  /\ s.player[q].iState = "SPAWNED"
                                  /\ ~GGM_IsTempBanned(s, q)}
    IN  [iMode |-> mode, pPlayer |-> p, pTrigger |-> t, age |-> "misclick",
         iMaxCount |-> Cardinality(asked), iTempBanCount |-> 0, iConfirm |-> 0]

\* A use of the vote that does not look at its age.
ClearExpiredNever(s) == s

\* Starting or counting first drops a vote that started too long ago (nothing
\* but the start sets flLastActiveTime).
ClearExpired(s) == IF s.vote.age = "expired" THEN [s EXCEPT !.vote = NoVote] ELSE s

\* GGM_ChangelevelVote when a vote runs, whatever trigger it is about.
PendingAnyTrigger(s, t) == IF s.vote.iMode = "VOTE_COOP_CHANGELEVEL" THEN s.vote.iConfirm ELSE -1

\* GGM_ChangelevelVote when a vote runs.
Pending(s, t) ==
    IF s.vote.iMode = "VOTE_COOP_CHANGELEVEL" /\ s.vote.pTrigger = t
    THEN s.vote.iConfirm ELSE -1

\* The player has confirmed n times that it wants to go through t.
SetConfirm(s, p, n, t) ==
    LET pl == [s.player[p] EXCEPT !.iLocalConfirm = n, !.pChangeLevel = t]
    IN  [s EXCEPT !.player = [s.player EXCEPT ![p] = pl]]

\* GGM_ChangelevelVote: the state after it and the count it returns.
ChangelevelVote(s0, p, t) ==
    LET s     == ClearExpired(s0)
        local == IF s.player[p].iLocalConfirm <= 0 THEN 1 ELSE s.player[p].iLocalConfirm
    IN  IF s.vote.iMode # "VOTE_NONE" THEN [s |-> s, count |-> Pending(s, t)]
        ELSE IF GGM_IsTempBanned(s, p) THEN [s |-> s, count |-> -1]
        ELSE IF local < 3
        THEN [s |-> SetConfirm(s, p, local, t), count |-> -1]
        ELSE [s |-> [SetConfirm(s, p, 0, NULL) EXCEPT
                        !.vote = StartVote(s, "VOTE_COOP_CHANGELEVEL", p, t)],
              count |-> 0]

-----------------------------------------------------------------------------
(* The change of level                                                      *)

\* The players ChangeLevelNow counts: those spawned long enough ago.
Counted(s) ==
    {q \in Players : /\ s.player[q].slot # "free"
                     /\ s.player[q].model
                     /\ s.player[q].age = "old"
                     /\ ~GGM_IsTempBanned(s, q)}

\* The end of ChangeLevelNow: no vote is left, the players become spectators
\* who have to be put in the server again, and the game pauses.
LeaveLevel(s, t) ==
    [vote     |-> NoVote,
     player   |-> [q \in Players |->
                      IF s.player[q].slot = "free" THEN s.player[q]
                      ELSE [s.player[q] EXCEPT !.iState = "UNINITIALIZED", !.model = FALSE]],
     trigger  |-> [s.trigger EXCEPT ![t].fValid = TRUE],
     g_fPause |-> TRUE]

\* The last guards of ChangeLevelNow, after the players have been counted.
ChangeCounted(s, t, inVolume) ==
    IF s.trigger[t].fired THEN s
    ELSE LET fired == [s EXCEPT !.trigger[t].fired = TRUE]
         IN  IF inVolume THEN LeaveLevel(fired, t) ELSE fired

\* ChangeLevelNow from a touch.  inVolume says whether the player stands in
\* the transition volume, repeated whether flRepeatTimer has run out.
ChangeLevelNow(s, p, t, inVolume, repeated) ==
    LET count2 == Cardinality(Counted(s))
        asked  == ChangelevelVote(s, p, t)
    IN  IF s.trigger[t].fValid THEN s
        ELSE IF count2 = 0
        THEN IF repeated THEN [s EXCEPT !.player[p].iLocalConfirm = -2] ELSE s
        ELSE IF t \notin Back THEN ChangeCounted(s, t, inVolume)
        ELSE IF asked.count < count2 THEN asked.s
        ELSE ChangeCounted(asked.s, t, inVolume)

\* DispatchTouch and TouchChangeLevel, the player being alive.
DispatchTouch(s, t, p, inVolume, repeated) ==
    IF s.g_fPause THEN s ELSE ChangeLevelNow(s, p, t, inVolume, repeated)

\* A player walks into a trigger.
Touch(p, t) ==
    /\ player[p].slot = "used"
    /\ player[p].iState = "SPAWNED"
    /\ \E inVolume \in BOOLEAN, repeated \in TooEarly :
           Become(DispatchTouch(State, t, p, inVolume, repeated))

\* The map uses a trigger: ChangeLevelNow does not count the players.
UseChangeLevel(t) ==
    /\ t \in Used
    /\ ~g_fPause
    /\ ~trigger[t].fValid
    /\ \E inVolume \in BOOLEAN : Become(ChangeCounted(State, t, inVolume))

\* The next level is there: new triggers and GGM_ServerActivate.
ServerActivate ==
    /\ \E t \in Triggers : trigger[t].fValid
    /\ vote' = NoVote
    /\ trigger' = NewTriggers
    /\ player' = [p \in Players |->
                     [NewPlayer EXCEPT !.slot = IF player[p].slot = "used" THEN "used" ELSE "free",
                                       !.fIsTempBanned = player[p].fIsTempBanned]]
    /\ g_fPause' \in BOOLEAN

-----------------------------------------------------------------------------
(* Commands of the players                                                  *)

TakesCommands(p) == player[p].slot = "used"

\* "confirmchangelevel" of COOP_ClientCommand; counts above 3 act like 3.
ConfirmChangelevel(p) ==
    /\ TakesCommands(p)
    /\ player[p].iLocalConfirm # 0
    /\ LET n == player[p].iLocalConfirm + 1
           t == player[p].pChangeLevel
           s == SetConfirm(State, p, IF n > 3 THEN 3 ELSE n, NULL)
       IN  \/ Become(s)
           \/ /\ t # NULL
              /\ \E inVolume \in BOOLEAN, repeated \in TooEarly :
                     Become(DispatchTouch(s, t, p, inVolume, repeated))

\* "voteload": GGM_StartVoteCommand for a player
VoteLoad(p) ==
    LET s == ClearExpired(State)
    IN  /\ TakesCommands(p)
        /\ player[p].iState = "SPAWNED"
        /\ ~GGM_IsTempBanned(State, p)
        /\ Become(IF s.vote.iMode # "VOTE_NONE" THEN s
                  ELSE [s EXCEPT !.vote = StartVote(s, "VOTE_COMMAND", p, NULL)])

\* GGM_VoteCommand_f: the server console starts a vote.
VoteCommand ==
    LET s == ClearExpired(State)
    IN  Become(IF s.vote.iMode # "VOTE_NONE" THEN s
               ELSE [s EXCEPT !.vote = StartVote(s, "VOTE_COMMAND", NULL, NULL)])

\* The guards of GGM_VoteProcess that all answers share.
Answers(p) ==
    /\ TakesCommands(p)
    /\ vote.iMode # "VOTE_NONE"
    /\ vote.age = "open"

\* Any answer to a vote that is over.
VoteExpired(p) ==
    /\ TakesCommands(p)
    /\ vote.iMode # "VOTE_NONE"
    /\ vote.age = "expired"
    /\ vote' = NoVote
    /\ UNCHANGED <<player, trigger, g_fPause>>

\* Whether a command vote has its majority, counted one too late.
MajorityLate(s) == s.vote.iConfirm > s.vote.iMaxCount \div 2 + 1

Majority(s) == s.vote.iConfirm > s.vote.iMaxCount \div 2

\* "voteconfirm"
VoteConfirm(p) ==
    LET s == [State EXCEPT !.vote = [vote EXCEPT !.iConfirm = vote.iConfirm + 1]]
    IN  /\ Answers(p)
        /\ vote.iTempBanCount < 3
        /\ vote.iConfirm < MaxConfirm
        /\ \/ /\ vote.iMode = "VOTE_COOP_CHANGELEVEL"
              /\ \/ Become(s)    \* the player who started the vote is dead
                 \/ \E inVolume \in BOOLEAN, repeated \in TooEarly :
                        Become(DispatchTouch(s, vote.pTrigger, vote.pPlayer,
                                             inVolume, repeated))
           \/ /\ vote.iMode = "VOTE_COMMAND"
              /\ Become(IF Majority(s) THEN [s EXCEPT !.vote = NoVote] ELSE s)

\* "votecancel"
VoteCancel(p) ==
    /\ Answers(p)
    /\ vote.iConfirm > -MaxConfirm
    /\ vote' = IF vote.pPlayer = p THEN NoVote ELSE [vote EXCEPT !.iConfirm = vote.iConfirm - 1]
    /\ UNCHANGED <<player, trigger, g_fPause>>

\* GGM_TempBan returns at once for every player: its guard is
\* "!pEnt || pEnt->IsPlayer()".
GGM_TempBan(p) == player

\* The third ban resets the vote.
BanVoted(v) == IF v.iTempBanCount >= 3 THEN NoVote ELSE v

\* "votetempban"
VoteTempBan(p) ==
    LET v == [vote EXCEPT !.iTempBanCount = vote.iTempBanCount + 1]
    IN  /\ Answers(p)
        /\ vote' = BanVoted(v)
        /\ player' = IF v.iTempBanCount >= 3 THEN GGM_TempBan(vote.pPlayer) ELSE player
        /\ UNCHANGED <<trigger, g_fPause>>

-----------------------------------------------------------------------------
(* Players come, spawn and go; time passes                                  *)

\* ClientPutInServer: a new client, or one that a change of level has reset.
\* Some nicknames are banned from the start.
PutInServer(p) ==
    /\ player[p].slot = "used" => player[p].iState = "UNINITIALIZED"
    /\ \E old \in {player[p], NewPlayer}, banned \in {(p \in BadNames), FALSE} :
           /\ player[p].slot = "used" => old = player[p] /\ banned = old.fIsTempBanned
           /\ player' = [player EXCEPT ![p] =
                  [old EXCEPT !.slot = "used", !.iState = "SPECTATOR_BEGIN",
                              !.model = FALSE, !.age = "new", !.fIsTempBanned = banned]]
    /\ UNCHANGED <<vote, trigger, g_fPause>>

\* UTIL_SpawnPlayer for "joincoop", and the respawn of a dead player, end in
\* GGM_PlayerSpawn, which ends the pause.
PlayerSpawn(p) ==
    /\ player[p].slot = "used"
    /\ player[p].iState # "UNINITIALIZED"
    /\ player' = [player EXCEPT ![p] =
                     [player[p] EXCEPT !.iState = "SPAWNED", !.model = TRUE, !.age = "new"]]
    /\ g_fPause' = FALSE
    /\ UNCHANGED <<vote, trigger>>

\* ClientDisconnect; the engine may keep the edict.
Disconnect(p) ==
    /\ player[p].slot = "used"
    /\ \E slot \in {"free", "left"} :
           player' = [player EXCEPT ![p] =
                         [player[p] EXCEPT !.slot = slot, !.iState = "UNINITIALIZED"]]
    /\ UNCHANGED <<vote, trigger, g_fPause>>

VoteAges ==
    /\ vote.iMode # "VOTE_NONE"
    /\ vote.age # "expired"
    /\ vote' = [vote EXCEPT !.age = IF vote.age = "misclick" THEN "open" ELSE "expired"]
    /\ UNCHANGED <<player, trigger, g_fPause>>

PlayerAges(p) ==
    /\ player[p].slot # "free"
    /\ player[p].age = "new"
    /\ player' = [player EXCEPT ![p].age = "old"]
    /\ UNCHANGED <<vote, trigger, g_fPause>>

\* The next frame.
TriggerAges(t) ==
    /\ trigger[t].fired
    /\ trigger' = [trigger EXCEPT ![t].fired = FALSE]
    /\ UNCHANGED <<vote, player, g_fPause>>

Next ==
    \/ \E p \in Players, t \in Triggers : Touch(p, t)
    \/ \E t \in Triggers : UseChangeLevel(t)
    \/ ServerActivate
    \/ VoteCommand
    \/ \E p \in Players :
        \/ ConfirmChangelevel(p)
        \/ VoteLoad(p)
        \/ VoteExpired(p)
        \/ VoteConfirm(p)
        \/ VoteCancel(p)
        \/ VoteTempBan(p)
        \/ PutInServer(p)
        \/ PlayerSpawn(p)
        \/ Disconnect(p)
        \/ PlayerAges(p)
    \/ VoteAges
    \/ \E t \in Triggers : TriggerAges(t)

Spec == Init /\ [][Next]_vars

-----------------------------------------------------------------------------
(* Properties                                                               *)

\* A step that ends the level through a trigger that leads back finds a vote
\* on it with enough confirmations.
EndsInAgreement ==
    \A t \in Back \ Used :
        ~trigger[t].fValid /\ trigger'[t].fValid =>
            /\ vote.iMode = "VOTE_COOP_CHANGELEVEL"
            /\ vote.pTrigger = t
            /\ vote.age # "expired"
            /\ vote.iConfirm + 1 >= Cardinality(Counted(State))

(***************************************************************************)
(* Players change the level back only in agreement: when a touch, be it of *)
(* somebody who walks by or in the name of the player who started the      *)
(* vote, ends the level through a trigger that leads back, a vote on this  *)
(* very trigger is running, is not too old, and has as many confirmations, *)
(* with the present one, as there are players to count.                    *)
(***************************************************************************)
BackIsAgreed == [][EndsInAgreement]_vars

(***************************************************************************)
(* A vote that is decided does not stay open: a command vote never has its *)
(* majority, and no vote has three bans (so that the branch of voteconfirm *)
(* for three bans is dead).                                                *)
(***************************************************************************)
DecidedVoteIsOver ==
    /\ vote.iMode = "VOTE_COMMAND" => ~(vote.iConfirm > vote.iMaxCount \div 2)
    /\ vote.iTempBanCount < 3
=============================================================================
