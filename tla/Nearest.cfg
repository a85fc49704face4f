CONSTANTS
  Components = {"nodes"}
  MaxSounds = 4
  MaxClients = 1
  Monsters = {m1, m2}
  Durations <- MCNoDuration
  MaxTime = 0
  m_cNodes = 4
  Graphs <- MCNoLinks
  MAX_STACK_NODES = 10
  MAX_PATH_SIZE = 3
  CharMax = 2
  NUM_RANGES = 256
  Levels <- MCHall
  Points <- MCPointNearTwo
  NodeTypes = {{"air"}}
  Hash <- MCHash
  Sights <- MCSights
  NODE_HEIGHT = 1
  MaxDoorMoves = 0
SPECIFICATION MonstersSpec
INVARIANTS
  ClosestIsFound
CHECK_DEADLOCK FALSE
