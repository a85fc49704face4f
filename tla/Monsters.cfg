CONSTANTS
  Components = {"sounds", "routes", "nodes"}
  MaxSounds = 4
  MaxClients = 1
  Monsters = {m1, m2}
  Durations <- MCNoDuration
  MaxTime = 0
  m_cNodes = 4
  Graphs <- MCGraphs
  MAX_STACK_NODES = 10
  MAX_PATH_SIZE = 3
  CharMax = 2
  NUM_RANGES = 8
  Levels <- MCLevels
  Points <- MCPoints
  NodeTypes = {{"air"}, {"air", "land"}}
  Hash <- MCHash
  Sights <- MCSights
  NODE_HEIGHT = 1
  MaxDoorMoves = 1
SPECIFICATION MonstersSpec
INVARIANTS
  MonstersTypeOK
  AudibleWalkEnds
  RoutesAreShortest
  NearestIsUsable
CHECK_DEADLOCK FALSE
