CONSTANTS
  Maps <- MCMaps
  FirstMap = "c0"
  Landmarks = {"l01", "l12", "bad"}
  Origin <- MCOrigin
  Place <- MCPlace
  InMaps <- MCInMaps
  Changes <- MCChanges
  Cycle = {"x"}
  StartsWith <- MCStartsWith
  CoopPlayers = {p1}
  mp_coop_pause = FALSE
  mp_coop_checkpoints = TRUE
  mp_coop_reconnect_hack = FALSE
  NCHECKPOINTS = 2
  MaxQueue = 1
  SaveMaps = {"c1"}
  WeaponInfo <- MCWeaponInfo
  ItemClass <- MCItemClass
  Casts <- MCCasts
  InWorld = {"c1", "g1", "g3"}
  ComeBack = {"g3"}
  Slots = 3
  TargetConf <- MCTargetConf
  Targetname <- MCTargetname
  FiredNames = {"man"}
  Clones = {"clone1"}
  MaxNesting = 5
  MaxDelayed = 1
  MaxLost = 1
  Gunners = {"p", "q"}
  FuncTanks = {"t", "u"}
  Spots = {1, 2}
  MaxSounds = 10
  MaxClients = 3
SPECIFICATION PlaySpec
INVARIANTS
  OffsetsAgree
  PositionsResolve
  CheckpointMenuEnds
  SlotsAreSaves
  PlayTypeOK
  ChainsAreSound
  HudShowsWeapons
  ManagersFireAll
  ChildrenCounted
  TankKnowsItsPlayer
  PoolIsSound
PROPERTIES
  ChangeKeepsCampaign
  AmmoIsNotMade
CHECK_DEADLOCK FALSE
