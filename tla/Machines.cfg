CONSTANTS
  DoorSet = {"left", "right", "toggle", "stays", "fast"}
  DoorConf <- MCDoorConf
  DoorCoop = TRUE
  MaxDisturb = 4
  ButtonOrder <- MCButtonOrder
  ButtonConf <- MCButtonConf
  SourceConf <- MCSourceConf
  EnvConf <- MCEnvConf
  NamedEntities <- MCNamedEntities
  ScriptConf <- MCScriptConf
  Talkers = {"b"}
  Scenes <- MCScenes
  MaxDelayStart = 2
  MaxIncidents = 1
  Lines <- MCLines
  TrackTop = "top"
  TrackBottom = "bot"
  FirstTrack = "a1"
  FiresPlat = {"bot"}
  Switched = {"c1", "b2"}
  LongExit = FALSE
  GlobalTrain = TRUE
SPECIFICATION MachinesSpec
INVARIANTS
  DoorsKeepWorking
  InputsFollowButtons
  MachinesTypeOK
  ScriptsAndActorsAgree
  WalkersAreWaitedFor
  TrainsKeepToThePlat
PROPERTIES
  DoorsClose
  ButtonsReturn
  SequencesEnd
CHECK_DEADLOCK FALSE
