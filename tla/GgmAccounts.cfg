CONSTANTS
    Players = {p1, p2}
    UIDs = {u1, u2}
    Names = {n1, n2}
    Accounts = {r1}
    Addr = {a1, a2, a3}
    LoginAddr = {l1, l2}
    NULL = NULL
    mp_spectator = FALSE
    OtherServers = TRUE
SYMMETRY Symmetry
CONSTRAINT FewFiles
SPECIFICATION Spec
INVARIANTS
    TypeOK
    NoDangling
    OneRecordEach
    LoginsResolve
    NicknameBusy
