---------------------------- MODULE MCGgmAccounts ----------------------------
(* Small instances of GgmAccounts for TLC.                                   *)
EXTENDS GgmAccounts, TLC

\* Addresses, slots, uids, nicknames and accounts are only ever compared for
\* equality.
Symmetry ==
    Permutations(Addr) \cup Permutations(LoginAddr) \cup Permutations(Players)
        \cup Permutations(UIDs) \cup Permutations(Names) \cup Permutations(Accounts)

\* Bound of the run: as many login files as a server can have logins in memory,
\* and one less once a registration could not be filed.
FewFiles == Cardinality(files.logins) + Cardinality(files.unfiled) <= 2
=============================================================================
