------------------------------ MODULE MCCoopVote ------------------------------
(***************************************************************************)
(* Small instances of CoopVote for TLC: all players at one trigger, or one *)
(* player, who may have a banned nickname and come too early, among all    *)
(* triggers.                                                               *)
(***************************************************************************)
EXTENDS CoopVote, TLC

CONSTANT OneTrigger

VARIABLE alone    \* the only player, or NULL for an instance with all of them

\* One confirmation is enough when there is one player.
PlayerIsAlone ==
    /\ \A p \in Players \ {alone} : player[p].slot = "free"
    /\ vote.iConfirm \in -1 .. 1

AtOneTrigger ==
    /\ vote.pTrigger \in {OneTrigger, NULL}
    /\ vote.iConfirm >= -1
    /\ \A t \in Triggers \ {OneTrigger} : trigger[t] = NewTriggers[t]
    /\ \A p \in Players : /\ player[p].pChangeLevel \in {OneTrigger, NULL}
                          /\ ~player[p].fIsTempBanned
                          /\ player[p].iLocalConfirm >= 0

MCInit == Init /\ alone \in Players \cup {NULL}
MCNext == /\ Next /\ UNCHANGED alone
          /\ IF alone = NULL THEN AtOneTrigger' ELSE PlayerIsAlone'
MCSpec == MCInit /\ [][MCNext]_<<vars, alone>>

\* Slots are only ever compared for equality.
Symmetry == Permutations(Players)
=============================================================================
