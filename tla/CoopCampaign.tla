---------------------------- MODULE CoopCampaign ----------------------------
(***************************************************************************)
(* The state of a cooperative campaign (dlls/coop.cpp, g_CoopState): the   *)
(* maps that were visited with their offsets to the current one, the       *)
(* checkpoints of each map, the transition that a change of level prepares *)
(* and the next map's COOP_ServerActivate consumes, the save slots, and    *)
(* what spawning, dying and loading do with them.                          *)
(*                                                                         *)
(* Space is one line: a map m has its origin at Origin[m], a landmark its  *)
(* place Place[l], and what the code sees of a landmark in a map is its    *)
(* coordinate there.  A position is the map it was taken in.               *)
(***************************************************************************)
EXTENDS Integers, Sequences, FiniteSets

CONSTANTS Maps, FirstMap, Landmarks, Origin, Place,
          InMaps,                 \* the maps that hold each info_landmark
          Changes,                \* trigger_changelevel: [from, to, landmark, spawnSaved]
          Cycle,                  \* maps the map cycle leads to
          StartsWith,             \* pairs <<m, n>>: the name of m begins with n's
          CoopPlayers,
          mp_coop_pause, mp_coop_checkpoints, mp_coop_reconnect_hack,
          NCHECKPOINTS,           \* entries of rgCheckpoints: 5 in the code
          SaveMaps,               \* bound: maps where players save and checkpoint
          MaxQueue                \* bound: commands that wait in the server

\* The campaign starts in a map, changes and map cycle lead to maps, and the
\* array of checkpoints has an entry for one and the empty entry after it.
ASSUME CampaignAssumption ==
    /\ FirstMap \in Maps /\ Cycle \subseteq Maps
    /\ Origin \in [Maps -> Int] /\ Place \in [Landmarks -> Int]
    /\ InMaps \in [Landmarks -> SUBSET Maps]
    /\ Changes \subseteq [from : Maps, to : Maps, landmark : Landmarks, spawnSaved : BOOLEAN]
    /\ {mp_coop_pause, mp_coop_checkpoints, mp_coop_reconnect_hack} \subseteq BOOLEAN
    /\ NCHECKPOINTS \in Nat /\ NCHECKPOINTS > 1

Never == -1
MaxAfterLoad == 2       \* bound: levels explored after a load
NoMap == "no map"
NoLandmark == "no landmark"
NoSave == <<"no save", "no map">>

\* The names that stand for none are no names of maps and landmarks.
ASSUME NamesAssumption == NoMap \notin Maps /\ NoLandmark \notin Landmarks

VARIABLES map,          \* gpGlobals->mapname
          offset,       \* known maps -> vecOffset (pMapStates)
          checkpoints,  \* known maps -> rgCheckpoints, the map of each position
          pCurrentMap,
          fSaved,       \* p.savedPos, or NoMap
          slots,        \* p.rgszSaveSlots
          iLastAutoSave,
          transition,   \* landmarkTransition
          g_flDupCheck,
          g_fPause,
          st_fSkipNext, \* the static of COOP_PlayerDeath
          files,        \* save files with their .coop
          commands,     \* the server's command buffer
          coopPlayer,   \* player -> [iState, dead, menu]
          afterLoad     \* history: levels since the first load of a save, or Never

mapVars == <<map, offset, checkpoints, pCurrentMap, fSaved>>
saveVars == <<slots, iLastAutoSave, files>>
playerVars == <<g_fPause, st_fSkipNext, coopPlayer>>
campaignVars == <<mapVars, saveVars, playerVars, transition, g_flDupCheck,
                  commands, afterLoad>>

Known == DOMAIN offset
Coordinate(l, m) == Place[l] - Origin[m]
SlotNames == {"START1", "START2", "AUTO1", "AUTO2"}
SaveNames == {"start", "auto0", "auto1"} \X Maps
NoTransition == [source |-> NoMap, target |-> NoMap, landmark |-> NoLandmark,
                 vecLandmark |-> 0, pos |-> NoMap, fLoading |-> FALSE]
NoCheckpoints == [i \in 0..NCHECKPOINTS - 1 |-> NoMap]
NewPlayer == [iState |-> "uninitialized", dead |-> "no", menu |-> FALSE]

(* A server that starts with the first map: a new game. *)
CampaignInit ==
    /\ map = FirstMap
    /\ offset = [m \in {map} |-> 0]
    /\ checkpoints = [m \in {map} |-> NoCheckpoints]
    /\ pCurrentMap = map
    /\ fSaved = NoMap
    /\ slots = [s \in SlotNames |-> IF s = "START1" THEN <<"start", map>> ELSE NoSave]
    /\ iLastAutoSave = 0
    /\ transition = NoTransition
    /\ g_flDupCheck = FALSE
    /\ g_fPause = mp_coop_pause
    /\ st_fSkipNext = FALSE
    /\ files = {}
    /\ commands = <<<<"ggm_save", <<"start", map>>>>>>
    /\ coopPlayer = [p \in CoopPlayers |-> NewPlayer]
    /\ afterLoad = Never

-----------------------------------------------------------------------------
(* Saves *)

\* COOP_CheckSaveSlots: a slot whose file is gone is emptied.
CheckSaveSlots(s, f) == [i \in SlotNames |-> IF s[i] \in f THEN s[i] ELSE NoSave]

\* COOP_ClearSaves: every file goes but those of the map that was left.
ClearSaves(f) ==
    {n \in f : transition.source # NoMap /\ <<n[2], transition.source>> \in StartsWith}

\* COOP_MapStartSave
StartSave(m) == <<"start", m>>
StartsSave(s, m) == s["START1"] # StartSave(m) /\ s["START2"] # StartSave(m)
\* A bug: the new slot is written before the old one is moved.
MapStartSaveTwice(s, m) ==
    [s EXCEPT !["START2"] = StartSave(m), !["START1"] = StartSave(m)]
MapStartSave(s, m) ==
    [s EXCEPT !["START2"] = s["START1"], !["START1"] = StartSave(m)]

\* A bug: the memmove takes one entry more.
PushCheckpointToEnd(c, m) == [i \in DOMAIN c |-> IF i = 0 THEN m ELSE c[i - 1]]

\* The memmove of all entries but two and the new first one: the last entry
\* is never written.
PushCheckpoint(c, m) ==
    [i \in DOMAIN c |-> IF i = 0 THEN m
                        ELSE IF i <= NCHECKPOINTS - 2 THEN c[i - 1] ELSE c[i]]

-----------------------------------------------------------------------------
(* The next map: COOP_ServerActivate and COOP_ProcessTransition *)

\* COOP_ProcessTransition returns true: the campaign goes on in map m.
GoesOn(m) ==
    IF transition.fLoading THEN m \in Known
    ELSE /\ transition.landmark # NoLandmark
         /\ transition.target = m
         /\ m \in InMaps[transition.landmark]

\* A bug: the two sights of the landmark are swapped.
ShiftedOffsetsBack(m) ==
    [n \in Known \cup {m} |->
        IF n = m THEN 0
        ELSE offset[n] + transition.vecLandmark
             - Coordinate(transition.landmark, m)]

\* The offset of every other map is moved by the two sights of the landmark.
ShiftedOffsets(m) ==
    [n \in Known \cup {m} |->
        IF n = m THEN 0
        ELSE offset[n] - transition.vecLandmark
             + Coordinate(transition.landmark, m)]

\* The players wait for the level, or for the loaded game.
ResetPlayers ==
    [p \in CoopPlayers |->
        [NewPlayer EXCEPT !.iState =
            IF transition.fLoading THEN "load_fix" ELSE "uninitialized"]]

\* A bug: a new game keeps the position of the transition.
ArrivedPosKept(m) == IF transition.fLoading THEN fSaved ELSE transition.pos

\* Transition.savedPos is dropped with the rest of a campaign that is over.
ArrivedPos(m) ==
    IF ~GoesOn(m) THEN NoMap
    ELSE IF transition.fLoading THEN fSaved ELSE transition.pos

ArrivedOffsets(m) ==
    IF ~GoesOn(m) THEN [n \in {m} |-> 0]
    ELSE IF transition.fLoading THEN offset ELSE ShiftedOffsets(m)

ArrivedCheckpoints(m) ==
    LET kept == IF GoesOn(m)
                THEN [n \in Known \cup {m} |->
                         IF n \in Known THEN checkpoints[n] ELSE NoCheckpoints]
                ELSE [n \in {m} |-> NoCheckpoints]
    IN  IF ~transition.fLoading /\ ArrivedPos(m) # NoMap /\ mp_coop_checkpoints
        THEN [kept EXCEPT ![m] = PushCheckpoint(@, ArrivedPos(m))]
        ELSE kept

\* The slots and files after the transition, and the start save it queues.
ArriveSaves(m) ==
    LET cleared == ClearSaves(files)
        s == IF ~GoesOn(m) THEN [i \in SlotNames |-> NoSave]
             ELSE IF transition.fLoading THEN CheckSaveSlots(slots, files)
             ELSE slots
        starts == ~transition.fLoading /\ StartsSave(s, m)
    IN  /\ files' = IF GoesOn(m) THEN files ELSE cleared
        /\ iLastAutoSave' = IF GoesOn(m) THEN iLastAutoSave ELSE 0
        /\ slots' = IF starts THEN MapStartSave(s, m) ELSE s
        /\ commands' = Tail(commands)
                       \o (IF starts THEN <<<<"ggm_save", StartSave(m)>>>> ELSE <<>>)

AfterLevel == afterLoad' = IF afterLoad = Never THEN Never ELSE afterLoad + 1

\* COOP_ServerActivate does its work.
Arrive(m) ==
    /\ map' = m
    /\ offset' = ArrivedOffsets(m)
    /\ checkpoints' = ArrivedCheckpoints(m)
    /\ pCurrentMap' = m
    /\ fSaved' = ArrivedPos(m)
    /\ ArriveSaves(m)
    /\ g_flDupCheck' = (g_flDupCheck \/ transition.fLoading)
    /\ g_fPause' = mp_coop_pause
    /\ coopPlayer' = ResetPlayers
    /\ transition' = NoTransition
    /\ AfterLevel
    /\ UNCHANGED st_fSkipNext

\* It takes the activation for the second one of a loaded game.
ArriveTwice(m) ==
    /\ g_flDupCheck
    /\ map' = m
    /\ g_flDupCheck' = FALSE
    /\ commands' = Tail(commands)
    /\ AfterLevel
    /\ UNCHANGED <<offset, checkpoints, pCurrentMap, fSaved, saveVars,
                   playerVars, transition>>

\* "changelevel m" reaches the head of the command buffer.
RunChangeLevel ==
    /\ commands # <<>>
    /\ Head(commands)[1] = "changelevel"
    /\ \/ Arrive(Head(commands)[2])
       \/ ArriveTwice(Head(commands)[2])

\* "ggm_save start-m" does.
RunSave ==
    /\ commands # <<>>
    /\ Head(commands)[1] = "ggm_save"
    /\ files' = files \cup {Head(commands)[2]}
    /\ commands' = Tail(commands)
    /\ UNCHANGED <<mapVars, slots, iLastAutoSave, playerVars, transition,
                   g_flDupCheck, afterLoad>>

-----------------------------------------------------------------------------
(* The old map *)

\* Without the reconnect hack the engine changes the level at the end of the
\* frame, once: of the players' acts only touches of the same frame come before.
Changing ==
    /\ ~mp_coop_reconnect_hack
    /\ \E i \in DOMAIN commands : commands[i][1] = "changelevel"

\* CChangeLevel::ChangeLevelNow by a player who touches trigger c, with or
\* without a position saved for the next map (m_coopData.fSpawnSaved).
TouchChangeLevel(p, c) ==
    LET l == IF map \in InMaps[c.landmark] THEN c.landmark ELSE NoLandmark
    IN  /\ c.from = map
        /\ ~g_fPause
        /\ coopPlayer[p].iState = "spawned" /\ coopPlayer[p].dead = "no"
        /\ Len(commands) < MaxQueue
        /\ coopPlayer' = [q \in CoopPlayers |-> NewPlayer]
        /\ g_fPause' = TRUE
        /\ transition' =
             [source |-> map, target |-> c.to, landmark |-> l,
              vecLandmark |-> IF l = NoLandmark THEN transition.vecLandmark
                              ELSE Coordinate(l, map),
              pos |-> IF c.spawnSaved THEN map ELSE transition.pos,
              fLoading |-> FALSE]
        /\ commands' = IF Changing THEN commands
                       ELSE Append(commands, <<"changelevel", c.to, l>>)
        /\ UNCHANGED <<mapVars, saveVars, st_fSkipNext, g_flDupCheck, afterLoad>>

\* A bug: the next map of the cycle becomes the target of the transition.
ChangeByCycleTargets(m) ==
    /\ ~Changing
    /\ Len(commands) < MaxQueue
    /\ commands' = Append(commands, <<"changelevel", m, NoLandmark>>)
    /\ transition' = [transition EXCEPT !.target = m]
    /\ UNCHANGED <<mapVars, saveVars, playerVars, g_flDupCheck, afterLoad>>

\* The map cycle, the end of an intermission or an administrator: no landmark.
ChangeByCycle(m) ==
    /\ ~Changing
    /\ Len(commands) < MaxQueue
    /\ commands' = Append(commands, <<"changelevel", m, NoLandmark>>)
    /\ UNCHANGED <<mapVars, saveVars, playerVars, transition, g_flDupCheck,
                   afterLoad>>

\* CTriggerSave::SaveTouch and COOP_AutoSave.
AutoSave(p) ==
    LET n == 1 - iLastAutoSave
        name == <<IF n = 1 THEN "auto1" ELSE "auto0", map>>
    IN  /\ ~Changing /\ ~g_fPause /\ map \in SaveMaps
        /\ coopPlayer[p].iState = "spawned"
        /\ slots' = [slots EXCEPT !["AUTO2"] = slots["AUTO1"], !["AUTO1"] = name]
        /\ iLastAutoSave' = n
        /\ files' = files \cup {name}
        /\ checkpoints' = [checkpoints EXCEPT ![pCurrentMap] = PushCheckpoint(@, map)]
        /\ UNCHANGED <<map, offset, pCurrentMap, fSaved, playerVars, transition,
                       g_flDupCheck, commands, afterLoad>>

\* newunit of a level, trigger_endsection.
NewUnit ==
    /\ ~Changing
    /\ files' = ClearSaves(files)
    /\ slots' = CheckSaveSlots(slots, files')
    /\ UNCHANGED <<mapVars, iLastAutoSave, playerVars, transition,
                   g_flDupCheck, commands, afterLoad>>

\* GGM_Load, of a vote or of an administrator.  COOP_ReadState marks the
\* loading and returns false whatever it reads: nothing is loaded.
Load(n) ==
    /\ ~Changing
    /\ n \in files
    /\ transition' = [transition EXCEPT !.fLoading = TRUE]
    /\ afterLoad' = IF afterLoad = Never THEN 0 ELSE afterLoad
    /\ UNCHANGED <<mapVars, saveVars, playerVars, g_flDupCheck, commands>>

-----------------------------------------------------------------------------
(* The players *)

\* CBasePlayer::Spawn as far as GGM_PlayerSpawn: refused while a load is on.
Spawned(p) ==
    /\ coopPlayer' = [coopPlayer EXCEPT ![p] =
           [NewPlayer EXCEPT !.iState =
               IF transition.fLoading THEN "load_fix" ELSE "spawned"]]
    /\ g_fPause' = (g_fPause /\ transition.fLoading)
    /\ g_flDupCheck' = (g_flDupCheck /\ transition.fLoading)

\* CHalfLifeMultiplay::PlayerThink: a button while the player is not in.
PressButton(p) ==
    /\ ~Changing
    /\ \/ /\ coopPlayer[p].iState = "load_fix"
          /\ coopPlayer' = [coopPlayer EXCEPT ![p].iState = "uninitialized"]
          /\ UNCHANGED g_flDupCheck
       \/ /\ coopPlayer[p].iState = "uninitialized"
          /\ coopPlayer' = [coopPlayer EXCEPT ![p].iState =
                 IF transition.fLoading THEN "load_fix" ELSE "spectator_begin"]
          /\ g_flDupCheck' = (g_flDupCheck /\ transition.fLoading)
    /\ UNCHANGED <<mapVars, saveVars, g_fPause, st_fSkipNext, transition,
                   commands, afterLoad>>

\* Who has a record of GGM_GetState and does not wait for a loaded game.
CanSpawn(p) == coopPlayer[p].iState \in {"spectator_begin", "spawned"}

\* joincoop and the menu it shows, respawn, and loadcheckpoint for who is dead
\* or not in the game: UTIL_SpawnPlayer.
JoinOrRespawn(p) ==
    /\ ~Changing
    /\ CanSpawn(p)
    /\ Spawned(p)
    /\ UNCHANGED <<mapVars, saveVars, st_fSkipNext, transition, commands, afterLoad>>

\* newcheckpoint
NewCheckpoint(p) ==
    /\ ~Changing /\ map \in SaveMaps
    /\ mp_coop_checkpoints
    /\ coopPlayer[p].iState = "spawned" /\ coopPlayer[p].dead = "no"
    /\ checkpoints' = [checkpoints EXCEPT ![pCurrentMap] = PushCheckpoint(@, map)]
    /\ UNCHANGED <<map, offset, pCurrentMap, fSaved, saveVars, playerVars,
                   transition, g_flDupCheck, commands, afterLoad>>

Die(p) ==
    /\ ~Changing
    /\ coopPlayer[p].iState = "spawned" /\ coopPlayer[p].dead = "no"
    /\ coopPlayer' = [coopPlayer EXCEPT ![p].dead = "dead"]
    /\ UNCHANGED <<mapVars, saveVars, g_fPause, st_fSkipNext, transition,
                   g_flDupCheck, commands, afterLoad>>

\* CBasePlayer::PlayerDeathThink and COOP_PlayerDeath: the menu first, and
\* the next call of any dead player lets that player respawn.
PlayerDeath(p) ==
    /\ ~Changing
    /\ coopPlayer[p].dead = "dead"
    /\ LET shows == ~st_fSkipNext /\ checkpoints[pCurrentMap][0] # NoMap
       IN  /\ coopPlayer' = [coopPlayer EXCEPT ![p] =
                  [coopPlayer[p] EXCEPT
                      !.dead = IF shows THEN "dead" ELSE "respawnable",
                      !.menu = coopPlayer[p].menu \/ (shows /\ mp_coop_checkpoints)]]
           /\ st_fSkipNext' = shows
    /\ UNCHANGED <<mapVars, saveVars, g_fPause, transition, g_flDupCheck,
                   commands, afterLoad>>

CampaignNext ==
    /\ afterLoad < MaxAfterLoad
    /\ \/ RunChangeLevel \/ RunSave \/ NewUnit
       \/ \E m \in Cycle : ChangeByCycle(m)
       \/ \E n \in files : Load(n)
       \/ \E p \in CoopPlayers :
             \/ \E c \in Changes : TouchChangeLevel(p, c)
             \/ AutoSave(p) \/ PressButton(p) \/ JoinOrRespawn(p)
             \/ NewCheckpoint(p) \/ Die(p) \/ PlayerDeath(p)

CampaignSpec == CampaignInit /\ [][CampaignNext]_campaignVars

-----------------------------------------------------------------------------
(* Properties *)

\* The campaign's state has its types.
CampaignTypeOK ==
    /\ map \in Maps /\ pCurrentMap \in Known /\ Known \subseteq Maps
    /\ offset \in [Known -> Int]
    /\ checkpoints \in [Known -> [0..NCHECKPOINTS - 1 -> Maps \cup {NoMap}]]
    /\ fSaved \in Maps \cup {NoMap}
    /\ slots \in [SlotNames -> SaveNames \cup {NoSave}]
    /\ iLastAutoSave \in {0, 1} /\ files \subseteq SaveNames
    /\ transition.source \in Maps \cup {NoMap} /\ transition.pos \in Maps \cup {NoMap}
    /\ afterLoad \in Never..MaxAfterLoad
    /\ {g_flDupCheck, g_fPause, st_fSkipNext} \subseteq BOOLEAN
    /\ \A p \in CoopPlayers :
          coopPlayer[p].iState \in {"uninitialized", "load_fix", "spectator_begin", "spawned"}

\* "offset for all maps relative to current map" (coop_util.h): a position
\* taken in a map that was visited is where it was, seen from this map.
OffsetsAreRelative ==
    /\ pCurrentMap = map
    /\ \A m \in Known : offset[m] = Origin[m] - Origin[map]

\* They are, over all ways through the landmarks, until a load was tried.
OffsetsAgree == afterLoad # Never \/ OffsetsAreRelative

\* Every position a player can be sent back to (the checkpoints of all maps,
\* the one saved over the change of level) is in a map whose offset is known,
\* so that GGM_RestorePosition never falls back to a spawn point.
PositionsResolve ==
    afterLoad # Never \/
    {checkpoints[m][i] : m \in Known, i \in 0..NCHECKPOINTS - 1} \cup {fSaved, transition.pos}
        \subseteq Known \cup {NoMap}

\* The loop of COOP_CheckpointMenu, which looks for an empty entry, ends inside
\* the array, and the filled entries have no hole that would hide one.
CheckpointMenuEnds ==
    \A m \in Known :
        /\ checkpoints[m][NCHECKPOINTS - 1] = NoMap
        /\ \A i \in 1..NCHECKPOINTS - 1 :
              checkpoints[m][i] # NoMap => checkpoints[m][i - 1] # NoMap

\* A save slot names a file that is there or that waits to be written, and no
\* two slots lead to the same file.
SlotsAreSaves ==
    /\ \A s \in SlotNames : slots[s] # NoSave =>
          \/ slots[s] \in files
          \/ \E i \in DOMAIN commands : commands[i] = <<"ggm_save", slots[s]>>
    /\ \A s, t \in SlotNames : s # t /\ slots[s] # NoSave => slots[s] # slots[t]

\* Command i changes the level by a landmark that the next map has.
LandmarkChange(i) ==
    /\ commands[i][1] = "changelevel"
    /\ commands[i][3] \in Landmarks
    /\ commands[i][2] \in InMaps[commands[i][3]]

\* No other trigger's change waits behind the first command.
OnlyChangeByLandmark ==
    \A i \in 2..Len(commands) :
        commands[i][1] = "changelevel" => commands[i][3] \notin Landmarks

\* No map that was known is forgotten when the change at the head is carried
\* out while a transition is prepared, by whatever trigger.
KeepsKnownMaps ==
    /\ commands # <<>> /\ commands' # commands
    /\ LandmarkChange(1) /\ OnlyChangeByLandmark
    /\ transition.landmark # NoLandmark
    /\ afterLoad = Never
    => Known \subseteq Known'

\* Only a change of level uses a transition up, and only another trigger, which
\* pauses the game, replaces it.
KeepsTransition ==
    transition.landmark # NoLandmark /\ transition'.landmark = NoLandmark
    => \/ commands # <<>> /\ Head(commands)[1] = "changelevel" /\ map' = Head(commands)[2]
       \/ ~g_fPause /\ g_fPause'

\* A change of level by a landmark that both maps have finds the transition of
\* its own trigger and keeps the campaign, whatever was commanded before or
\* behind it and done meanwhile, unless another trigger was touched or an
\* earlier change of level has used the transition up.
ChangeKeepsCampaign == [][KeepsKnownMaps /\ KeepsTransition]_campaignVars
=============================================================================
