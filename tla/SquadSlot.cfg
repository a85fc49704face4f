CONSTANTS
    Monsters = {m1, m2, m3}
    Enemies = {e1, e2}
    MAX_SQUAD_MEMBERS = 3
    NUM_SLOTS = 3
    Wants <- MCOneSlot
    NULL = NULL
SPECIFICATION Spec
INVARIANT
    SlotIsExclusive
