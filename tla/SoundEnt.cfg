CONSTANTS
    MaxSounds = 5
    MaxClients = 2
    Monsters = {}
    Durations <- MCDurations
    MaxTime = 1
SPECIFICATION Spec
INVARIANTS
    ListsAreSound
PROPERTIES
    ImplementsPool
    ExpiredIsFreed
