CONSTANTS
    Monsters = {m1, m2, m3}
    Enemies = {e1, e2}
    MAX_SQUAD_MEMBERS = 3
    NUM_SLOTS = 3
    Wants <- MCWants
    NULL = NULL
SYMMETRY Symmetry
SPECIFICATION Spec
INVARIANTS
    TypeOK
    SquadsAgree
    SlotsAreHeld
