CONSTANTS
    Players = {p1, p2}
    Triggers = {t1, t2, t3}
    Back = {t1, t2}
    Used = {t3}
    BadNames = {p1, p2}
    TooEarly = {FALSE, TRUE}
    NULL = NULL
    MaxConfirm = 2
    OneTrigger = t1
SYMMETRY Symmetry
SPECIFICATION MCSpec
INVARIANTS
    TypeOK
    DecidedVoteIsOver
PROPERTIES
    BackIsAgreed
