# A TLA+ development of hlsdk-xash3d with GravGunMod

The repository is the game library of Half-Life for the Xash3D engine, with
GravGunMod: a multiplayer mod with accounts, votes, cooperative campaigns and
tools to build with.  This directory holds TLA+ models of its parts, the TLC
configurations that check them, and theorems about them that TLAPS proves.
Paths below are relative to the root of the repository.

    tlc -workers 2 -config Squad.cfg MCSquad.tla     # a run
    tlapm SquadProofs.tla                            # the proofs of a module

The game library runs in one thread.  The engine calls it: entry points for
clients (connect, put in server, command, disconnect), a frame in which it calls
the `think`, `touch` and `use` callbacks of entities, and the loading of a level.
An action of a model is one such call with everything it does; what makes the
system hard is the order of the calls, not parallel threads.  State outlives the
calls in entity fields, in handles of entities (`EHANDLE`, which read as NULL once
the entity is gone), in global variables and lists, and in files.

## Inventory

Each component with the state it keeps, its operations, whom it interacts with,
what is hard about it and what makes it correct.

| component | state | operations | hard | correct when |
|---|---|---|---|---|
| world sound list (`dlls/soundent.cpp`) | pool of 64 sounds, threaded by `m_iNext` into a free and an active list; a second link that all monsters share | insert, expire (think), reset of a client's sound, level load; `CBaseMonster::Listen` | pool exhausted; freeing while walking; a link shared by many walkers | lists end and are disjoint, no sound leaks, expired sounds are freed, every walk ends |
| squads (`dlls/squadmonster.cpp`) | leader and member handles, slot bits of the leader, slot of each monster | recruit, leave by death, occupy and vacate slots, alarm the squad, save and restore | monsters appear, die and go in any order; two sides of one relation; slots not saved | leader and members agree, no slot is lost, none is held twice |
| accounts and player states (`dlls/gravgunmod.cpp`) | lists of registered and anonymous records and of logins; pointers to them in players; files shared by servers | register, login, logout, join, rename, leave, change of level, clear | records freed while others point to them; files read back in the wrong order; restart | no dangling pointer, one record per uid or account, logins lead to registrations |
| votes and change of level (`gravgunmod.cpp`, `triggers.cpp`, `coop.cpp`) | `g_Vote`, counts of confirmations in players and triggers, pause | touch, use, confirm, cancel, ban, vote command, spawn, leave | time-outs; a confirmation touches a trigger for somebody else; number needed changes | level goes back only by agreement; a decided vote is over |
| cooperative campaign (`coop.cpp`) | map states, landmark offset, checkpoints, save slots | change of level, checkpoint, autosave, continue | four flags that must be reset on every path of a level load | position and checkpoint belong to the present map |
| save and load of a game (`gravgunmod.cpp`, `coop.cpp`) | files of player records, of the campaign, engine save | `GGM_Save`, `GGM_Load`, `GGM_ReadPlayers` | failure half way | a load leaves either the old or the new game |
| triggers, relays, managers (`triggers.cpp`, `subs.cpp`) | target, delay, counters, the thread copy of a manager | use, touch, timed think | a use while the manager runs | each target fires once per activation |
| doors, buttons, trains, platforms (`doors.cpp`, `buttons.cpp`, `plats.cpp`) | toggle state, move-done callback, locks, global state of a multisource | use, touch, blocked, think | reversal while moving; linked doors | state agrees with the movement; a multisource is on iff all its sources are |
| schedules of monsters (`schedule.cpp`, `monsterstate.cpp`, `monsters.cpp`) | schedule, task index and status, conditions, ideal state | task loop, schedule change, damage, scripts | ten rounds in one think with state set from outside | a task runs only of the present schedule |
| scripts and talk (`scripted.cpp`, `talkmonster.cpp`) | possession of a monster by a script; who talks | possess, start, cancel, allow interrupt, death | script and monster end in either order | a monster is possessed by at most one script and returned by it |
| monster makers (`monstermaker.cpp`) | number of live children, number left | make, child's death notice | death of a child after the limit is reached | live children never exceed the limit |
| tools and administration (`enttools.cpp`, `admin.cpp`) | owners of entities, limits of categories | `ent_*` commands | mostly strings | a player touches only what is his |
| gravity gun and props (`gravgun.cpp`, `prop.cpp`) | who holds what, beams | pick up, drop, punt, pain | holder or held goes first | at most one holder |
| weapons (`weapons.cpp`, one file each) | clip, ammunition, attack times | attack, reload, idle, drop | prediction on the client | ammunition is never made |
| the player (`player.cpp`) | inventory, health, suit queue, observer state | frame, damage, death, spawn | long state machine | – |
| game rules (`multiplay_gamerules.cpp`, `maprules.cpp`) | scores, map cycle, intermission | frame, kills, end of game | intermission while players join | one change of map per end of game |
| monsters of every kind, effects, brushes, items | schedules, animations, fields | – | data more than control | – |
| node graph (`nodes.cpp`) | nodes, links, packed routing tables, tables of regions, a cache of answers | build, pack, find a route, find the nearest node | four tables that are derived one from the other; limits of a signed char; ranges narrowed while they are walked | routes are shortest ways over usable links; a node that is found is of the right type and in sight |
| entities and engine interface (`cbase.cpp`, `util.cpp`, `world.cpp`, `client.cpp`) | fields, save tables, global entities | dispatch, save, restore | – | – |
| player movement (`pm_shared/`), client (`cl_dll/`), voice manager (`game_shared/`) | – | – | – | – |

How they interact: player commands and joining go through `client.cpp` to the
accounts, the votes and the campaign; the state record of the accounts holds the ban
that the votes read; touches reach `CChangeLevel`, which asks the vote, prepares the
transition of the campaign and then resets all players.  `FireTargets` connects
triggers, managers, makers, buttons, doors and scripts.  `MaintainSchedule` of a
monster releases and takes squad slots, plays the tasks of a script and reads the
sound list through `Listen`.  Death of a player packs the weapons into a box.

## Modules

| module | models | proofs |
|---|---|---|
| `SoundPool` | what the sound list promises: sets of active and free sounds | `SoundPoolProofs` |
| `SoundEnt` | the linked lists; implements `SoundPool` | `SoundEntProofs` |
| `Squad` | squads and slots | `SquadProofs` |
| `GgmAccounts` | records, logins and their files | `GgmAccountsProofs` |
| `CoopVote` | votes and the change of level | `CoopVoteProofs` |
| `CoopCampaign` | maps, offsets, checkpoints, saves and loads of a campaign | `PlayProofs` |
| `Doors` | doors, alone and in pieces | `MachinesProofs` |
| `Buttons` | buttons, multisources, env_globals | `MachinesProofs` |
| `Tracks` | a train on path_tracks and the trackchange that carries it | `MachinesProofs` |
| `Tanks` | guns that players take hold of | `PlayProofs` |
| `Targets` | triggers, relays, counters, managers, monstermakers | `PlayProofs` |
| `Weapons` | inventory, ammunition, boxes | `PlayProofs` |
| `Scripted` | scripts and the states of the monsters they take | `MachinesProofs` |
| `NodeRoutes` | shortest paths, the routing tables and their packing | |
| `NodeSearch` | the nearest node: regions, ranges, cache | |
| `MCMachines` | `Doors`, `Buttons`, `Scripted` and `Tracks` with a level each | `MachinesProofs` |
| `MCPlay` | `CoopCampaign`, `Weapons`, `Targets`, `Tanks` and `SoundPool` with a level each | |
| `MCMonsters` | `SoundEnt`, `NodeRoutes` and `NodeSearch`: what monsters ask of the level | |
| `DataLemmas` | lemmas the proofs share: numbers, recursive functions, sequences | itself |
| other `MC*` | values and symmetry for TLC | |

`MCMachines`, `MCPlay` and `MCMonsters` put several modules side by side: `component`,
chosen once, says which of them a behaviour is about, and the other variables stand
still.  The modules share no state in the code but `FireTargets`, whose calls are
inputs of each.  One run of TLC thus answers the questions of several modules, and the
number of states is the sum and not the product.

### SoundPool and SoundEnt

`list` holds `m_iActiveSound`, `m_iFreeSound` and the links `m_iNext`; `Alloc`,
`FreeSound`, `AllFree` and `InitialList` are `IAllocSound`, `FreeSound` and
`Initialize` as functions of such a record.  `Think` is the whole walk of
`CSoundEnt::Think`, one round of whose loop is `ThinkAt`: what it frees lies behind it,
so that the walk visits the sounds that were linked when it began.  `audible` and
`heard` are the second link and the list of each monster; `Listen` takes the set of
the sounds heard as an input, for origin and volume decide it.  `ClientReset` is
what death and disconnection do to a client's sound.  A new level makes a new pool
and gives the monsters `m_iAudibleList` 0, the index of a sound and not
`SOUNDLIST_EMPTY`; whether a restored monster walks from there is not modelled
(see the plan).  `pSoundEnt` is taken to exist, as it does once a level is loaded.
`GGM_CleanSoundEnt` has no caller.

`SoundPool` forgets the order.  Its `Reset(c)` states what `CSound::Reset` does to
the pool: it sets `m_iNext` of a sound that is on the active list, which drops the
sounds behind it.  They are reserved sounds of lower clients, for the reserved
sounds are the tail of the list; `CutIsInitialSegment` says that this is the worst
that can happen, and `NoLeak` that no other sound is lost (together `PoolIsSound`).

### Squad

One action per entry point: `StartMonster` (with `SquadRecruit`), `ChangeSchedule`
(`ScheduleChange`, `SquadMakeEnemy`, `OccupySlot` with `SquadEnemySplit`), `Killed`
(`VacateSlot` and `SquadRemove`), and the rest of the game: monsters appear, corpses
go, enemies come and go, a game is restored.  `ChangeSchedule` is
what `MaintainSchedule` does when the schedule ends: it vacates the slot, may alarm
the squad (`told`), and asks for slots in turn (`want`), the sequences a `GetSchedule` of
`hgrunt.cpp`, `islave.cpp` or `houndeye.cpp` goes through.

What the code does and one might not expect: a member that dies stays in its
leader's array, where the loops over the squad meet it; a leader that dies
dissolves the squad while members keep their `m_iMySlot`; recruits are found among
monsters that have not started yet; `m_afSquadSlots` is not saved.  A monster that
dies before it starts may still recruit, which is why `SquadsAgree` speaks of
living leaders.  Of monsters only corpses are removed: a living monster that is
removed by a `trigger_killtarget` or a tool is not modelled, and would take its
slot with it.

### GgmAccounts

`mem` is the heap as far as the lists use it: `anonymous`, `registered` and `logins`
with the records at their addresses.  An address that has been freed holds NULL
and may be handed out again at once, so a dangling pointer is either seen as such
or points to somebody else's record; `NoDangling` and `OneRecordEach` are about
both.  `files` are the registrations and logins on disk, `player` the fields of the
`CBasePlayer` in every slot.  `Register`, `Login`, `Logout`, `PutInServer`,
`UserInfoChanged`, `Disconnect`, `LevelChange`, `ClearLists` are the functions of these
names; lookups (`GetRegistration`, `LoadLogin`, `GetState`) return the new heap and the
record, because they load from files on demand.  `Restart` may happen between any
two commands, and `RegisterCrash` is the end of the process between the two files of
`GGM_Register`.  Other servers may write the same files (`OtherServers`).

A file may not be opened for writing, at any time and either of the two alone
(`Opened`): `GGM_WritePersist` returns then, and `GGM_Register` goes on, links the
record and writes the login.  `unfiled` is history: the accounts that have had
no file when they were to be written.  `LoginsResolve` says that this is the one way to
a login without a registration: a login on disk, or a record in memory, is of an account
that has its file or is in `unfiled`, and as long as none is, every login in memory
has its record.  After such a failure the login still lasts as long as the server; once
it has been read back from its file it has no record, `GGM_GetState` returns NULL, and
its player stays a spectator under that nickname until he logs out.

`Login` follows the loop of `GGM_Login` to the newest login of the nickname only
(`OtherLoggedIn`).  That two clients never have one name (`NameTaken`) is the engine's doing
and external.

Left out: what a record contains (`GGM_SaveState`, `GGM_RestoreState`), the pending
uid of a client that is being authenticated, passwords beyond right and wrong
(`ChangePassword` is in for the file it writes), bots, and the game-wide save and load
(whose campaign part is in `CoopCampaign`).  A file is there or not: one that is written
in part, or is there and cannot be read, is not modelled.

### CoopVote

The state is `g_Vote`, the players (slot, `m_ggm`, whether they have a model, how long
they are spawned), the triggers and the pause.  A confirmation touches the trigger
again in the name of the player who started the vote, and that touch may count,
restart or end the vote; the operators therefore map a record of the whole state
to another (`ChangelevelVote`, `ChangeLevelNow`, `DispatchTouch`), and the actions
(`Touch`, `ConfirmChangelevel`, `VoteConfirm`, ...) `Become` the result.  Time is qualitative:
a vote is too young to be answered, open or expired; a player is spawned for more
or for less than the 30 seconds of `ChangeLevelNow`.  The change of the level and the
activation of the next are two actions, with everything but a second change
possible between them.

Left out: trains and saved positions, menus and messages, checkpoints that lock a
trigger, the console command that toggles the pause, and the wait at a trigger that
leads on, which applies to nine players and more.

### CoopCampaign

`g_CoopState` and the transition between two maps.  Space is one line: each map has
its origin, each landmark its place, and what `COOP_SaveTransition` and
`COOP_ProcessTransition` see of a landmark is its coordinate in either map; a
position is the map it was taken in.  `TouchChangeLevel` is `ChangeLevelNow` and what
it prepares, `ChangeByCycle` every other command that changes the level,
`RunChangeLevel` the engine that executes the command and `COOP_ServerActivate` of the
next map (`Arrive`, or `ArriveTwice` if it takes the activation for the second one of a
loaded game).  `commands` is the server's command buffer: saves are queued in it,
and with `mp_coop_reconnect_hack` several changes of level may wait.  What a change by
a landmark does to the campaign while others wait is `ChangeKeepsCampaign`: the change
at the head of the queue that finds a transition prepared forgets no known map, unless
the change of another trigger waits behind it (then the transition is the other's), and
only a change of level or another trigger takes a prepared transition away.  So a
change by the map cycle that comes first uses the transition up, and the
landmark's change behind it starts the campaign anew; and a second trigger touched
behind the first replaces its transition.  The code guards against neither.  Offsets,
checkpoints, slots and files are each a function of the transition
(`ArrivedOffsets`, `ArrivedCheckpoints`, `ArriveSaves`).

`Load` marks the load and reads nothing, as the code does (see the findings);
`afterLoad` bounds what follows, and the properties about positions are stated up to
the first load.  What a save contains is left out.

### Doors

A door has one think, one move-done callback and one touch function, and stands at
one of two places or between.  `LinearMove` covers the angular move, with which it
shares the end; a move of less than 0.05 seconds is over at once (`fast`).
Disturbances are touches, uses and blocking bodies, at most `MaxDisturb`; `DoorThink`
is what the engine calls.  `CoopTouch` is the touch of this mod.

### Buttons

A firing runs at once through all it reaches, `FireTargets` over a record of the
whole state; a button with a delay leaves an entity that fires later and is the
caller then.  `Input` has the rule by which a multisource finds the input of its
caller.  Buttons that do not move and the first 0.1 seconds of a level are left out.

### Tracks

The train is at a track or between a track and the next (`place`); `m_ppath` is the
track it thinks it is at.  `LookAhead` is `CPathTrack::LookAhead` for a step that
passes one track at most, with what the remaining distance decides as a choice;
`TrainNext` and `DeadEnd` are the two thinks of the train.  The trackchange is a plat
that goes `to` an end and is at one of them or between (`pos`); `Hit` is `HitTop` and
`HitBottom`, `Go` is `GoUp` and `GoDown` down to `LinearMove`, which calls the move-done
function at once when there is less than 0.05 seconds to go.  `m_code` is the answer
of `EvaluateTrain`, taken when the plat is used and read when it moves, is blocked and
arrives.  A dead end may fire the trackchange (`FiresPlat`), so that the train's think
runs into the plat's use.

What the code does: a train that is carried has no track; one that is used
meanwhile gets a speed and goes nowhere.  Whether its think or the plat's comes first
at the end is up to the order of their edicts, and both are allowed.  A train farther
than its length and 150 units from the plat counts as safe although it is on the
plat's line (`LongExit`); `LookAhead` does not ask whether the track it backs up to is
enabled, so that such a train can then drive into the gap.  `TrainsKeepToThePlat` is
checked for a short way.  In a cooperative game a train with a global name
that carries no player stands still and thinks again (`WaitForPlayer`); with `GlobalTrain` each think may find it so.

Left out: `CFuncTrackAuto`, alternate paths, speeds of tracks and the messages fired
in passing, turning trackchanges (`AngularMove` ends as `LinearMove` does), and plats with
triggers of their own.

### Tanks

The tank has `m_pController`, the player the handle `m_pTank`, and each of the ways
to end it writes one side and asks the other to follow.  `TankUse` is `CFuncTank::Use`, in
which whoever uses a held tank stops it; `LeaveTank` is the line that the player's code
has in five places.  A spot is where a player stands, as far as `OnControls` tells
spots apart; `item`, `weaponmodel` and `hidden` are the weapon in hand and the bit of
the HUD that `StartControl` and `StopControl` exchange.

What the code does: a second tank, taken by a trigger that fires in the player's
name, leaves the first with a controller that no longer has it; a tank that is
removed under its player leaves `HIDEHUD_WEAPONS` set; a dead player may be given a
tank.  A player who is killed lets go of the tank at once (`GunnerKilled`) and of his
weapons when he thinks, dead (`PackGunner`).  Left out: turning, firing, tanks that aim by
themselves.

### Targets

Time is in steps and relative, and passes (`Tick`) when no think is due.  `runs` are
the running managers and clones; `owed` and `children` are history: what each manager
has still to fire, and which children of a maker live or were removed without a
notice.  `Kill` is the killtarget.  The module is checked on a level whose entities
fire each other in circles.  `FireTargets` calls itself through the entities it reaches;
`Fire` is the function of a level of these calls in terms of the next (`fire` in the
operators), and a call that goes deeper than `MaxNesting` is no step.  A clone that is
removed by what it fires leaves its place to another in the same call, which
`ManagerThink` then leaves alone.

### Weapons

A call may pack, holster, destroy and give several items, so the operators map the
record of player, items and box to another (`RemovePlayerItem`, `Holster`,
`AddPlayerItem`, `PackWeapon`, ...).  Four kinds stand for the rest: a weapon without
ammunition that can be thrown, one with a clip, and the two that are their own
ammunition and destroy themselves when put down empty.  Items that no longer exist
may be made again, so that a stale pointer would meet another item.

### Scripted

Scripts (`CCineMonster`, `CCineAI`) and the monsters they play with: `PossessEntity`,
`CineThink`, `DelayStart`, `CancelScript`, `CineCleanup` and `SequenceDone` of
`scripted.cpp`, and of a monster `RunAI`, `MaintainSchedule`, `GetIdealState`, `Killed`
and `TakeDamage` as far as the states idle, alert, script and dead go.  `task` is
where the monster is in its script's schedule; the ten rounds of
`MaintainSchedule` are one step (`MonsterThink`), with the way to the mark and the end
of the animation as inputs.  A blow ends a script's schedule or an idle one, as the masks of
these say, and makes an idle monster alert.  `Incident`s are blows, uses and players who ask a
talking monster along.

### NodeRoutes and NodeSearch

`NodeRoutes` has one level and one hull.  `ComputeStaticRoutingTables` is the function
of this name as one operator over the graph: for each pair of nodes the search of
`FindShortestPath` with its heap (`Search`, `Inserted`, `Removed`), the path entered for
all pairs along it (`EnterPath`), and every row packed (`Pack`) into phrases of counts
and offsets and placed where the table has it already (`Place`).  `FindRoute` is a
monster that asks for its way: `FindShortestPath` and `PathLength` then only decode
(`NextNodeInRoute`).  The property compares the answers with a reference that knows
nothing of searches or phrases (`Shortest`).  `CharMax` is the largest signed char, so
that counts end and offsets wrap in a graph of four nodes.  A door blocks a link for
who cannot open it; the tables are computed once without and once with `cap`.

`NodeSearch` is `FindNearestNode` over the tables of `BuildRegionTables`: the selection
sort as it is written, the six walks over half an axis each, the ranges and the box
that `CheckNode` narrows, and the cache.  Distances are compared by their squares;
rounding of floats is left out.  What a trace sees is an input (`visible`), and changes
when doors move.

Recursive operators do the loops, so that both modules are only model-checked.  Left
out: how links come about (`LinkVisibleNodes`, `RejectInlineLinks`, the hull that walks
between nodes), `SortNodes`, the hash of the links, and the files of the graph.

## Runs

| run | instance | question | states |
|---|---|---|---|
| `sound_lists` | 5 sounds, 2 clients, sounds of duration 0 and 1 | lists sound; implements `SoundPool`; expired sounds are freed | 2,160 |
| `accounts` | 2 players, 2 uids, 2 nicknames, 1 account, other servers on the same files | no dangling pointer, one record each, logins resolve though files fail and servers end, busy nicknames refused | 218,009 |
| `vote` | 2 players at 1 trigger back, or 1 with a bad nickname among triggers back, back and used by the map | back only by agreement on that trigger; decided votes are over | 1,212,686 |
| `squads` | 3 monsters, 2 enemies, squads of 3, 2 slots and the split | leaders and members agree; no slot is lost | 94,944 |
| `machines` | 5 doors of which 3 are pieces of one; 5 buttons, 2 multisources and an env_global; 4 scenes of 5 scripts and 2 monsters; a train on two lines and a trackchange | doors and buttons end what they begin, inputs follow buttons, scripts and monsters agree and let go, train and plat keep together | 52,648 |
| `play` | 3 maps of a campaign and one of the cycle, with one command in the queue and, with the reconnect hack, two; 5 casts of weapons; 8 entities that fire each other; 2 players and 2 tanks; 10 sounds, 3 clients | offsets, positions, checkpoints and saves; inventory and ammunition; each target fired once, children counted; tanks know their players; no sound is lost | 211,517 |
| `monsters` | 4 sounds, 1 client, 2 monsters; all graphs of 4 nodes with ways that are near or far, or far in one direction, or have doors; 2 levels of 4 nodes, 3 points | walks along the shared link end; routes are shortest ways; nodes that are found can be used | 92,282 |

`squad_slot`, `weapon_last`, `script_dead`, `track_lost` and `nearest` each find a
counterexample to what a comment of the code says; see the findings.  `weapon_last` uses
the instance of `play`, `script_dead` and `track_lost` that of `machines`; `nearest` is one
level of `monsters` with all 256 regions.

### Bounds

* `sound_lists`: three world sounds are the least with a head, a middle and a last
  one to free, and two reserved sounds the least of which one can be cut off.
  `MaxTime` is 1: with durations 0 and 1 sounds are expired, expire, and are not yet
  expired in one walk.
* `accounts`: two players with two uids can meet on one uid and on one account and
  exchange nicknames.  `Addr` holds as many records as the lists need at most (one
  per uid and per account), `LoginAddr` two logins.  `FewFiles` keeps as many login
  files as there may be logins in memory, and one less once the one account could not
  be filed: a file that failed, a login that leads nowhere and another beside it are reached.
  `HeapSuffices` excludes the states in which `calloc` fails, where the code
  goes on with a NULL record.
* `vote`: `MaxConfirm` bounds `iConfirm` from both sides; with two players a vote needs
  two confirmations, and a count of 2 is reached; a player who is alone needs one, and the
  count is kept from -1 on.
  `MCCoopVote` keeps two instances apart, chosen with `alone`: all players and one
  trigger, without bans and private counts below zero, or one player, all triggers
  and everything else.  Neither a second player at a second trigger nor a banned
  player beside another is reached.
* `squads`: with three monsters there are a leader, its member and a rival, and a
  squad can be dissolved and recruited again in another order.  `NUM_SLOTS` = 3 gives
  two slots to fight for and `bits_SLOT_SQUAD_SPLIT`.  `MCWants` asks for no slot, for
  one of two, and for one or else the other, as schedules do.
* `machines`: the doors are two pieces of one name that return, one of the name that
  stays open, one that toggles and one whose move is over at once.  `MaxDisturb` = 4
  is a start, a block, a block of another piece and one more.  Buttons have no bound.
  The scenes are two scripts that wait for each other, one that fires the other and
  is fired by it, one that teleports its monster and cannot be interrupted, and a
  scripted with an AI script of one name; `MaxDelayStart` = 2 is a count for two
  walkers, either way; `MaxIncidents` = 1 lets one blow, use or invitation
  come at every point, which is enough for each clash of two writers.  The train has two lines that
  meet on the plat, with a track before and after it, and one speed each way instead
  of four; two tracks are switched by the map, and one dead end fires the plat.
* `play`: the maps are a line of three with two landmarks and a trigger with a
  landmark that the target lacks, so that circles there and back are
  walked.  `NCHECKPOINTS` = 2 instead of 5 is the least with an entry that is written
  and the last one that never is; `MaxQueue` = 1 command waits without the reconnect
  hack, and 2 with it (`Reconnect`, a second instance of the module over the same
  variables, without saves and loads), which is the least in which two triggers, or a
  trigger and the map cycle, compete; players save in one map (`SaveMaps`);
  `MaxAfterLoad` = 2 levels are explored after a load.  Each cast of items has two of a class, or one
  exhaustible weapon with another weapon; clips hold two and belts three; one box is
  there at a time.  Firings nest five deep (`MaxNesting`) in the level's circles; one delayed
  firing waits at a time, one clone runs (`Clones`), one
  child is lost (`MaxLost`).  Two players and two tanks are the least in which a player has
  two tanks or a tank two players; there are two spots.
* `monsters`: sounds may be freed at once, and two monsters disturb each other.  Four
  nodes have ways of three links, and ways of two that are shorter than a direct one;
  the graphs are all that have ways of weights 1 and 3, those in which the ways of
  weight 3 lead in one direction only, and all with doors.  With `CharMax` = 2 a row of
  four entries ends counts and wraps offsets; `MAX_PATH_SIZE` = 3 cuts the longest way
  off.  `MAX_STACK_NODES` = 10 is never reached.  One level has tables in order, the other
  nodes on land and in the air and a table that the sort leaves out of order; of three
  points two share a slot of the cache and one is the origin; from each point any
  even number of nodes is in sight at first, and one door moves (`MaxDoorMoves`), which
  makes it any number.  `NUM_RANGES` = 8 lets nodes share a region.
* Symmetry is used where the elements are only compared: no property depends on
  which monster, player or address it is.

Deadlock is checked in every run but those of `MCMachines`, `MCPlay` and `MCMonsters`,
whose systems may rest: doors that have all been disturbed as often as they may, a
script that has been removed, a campaign at its bound after a load, a program that
has ended.

### Fairness

* `SoundEnt`: `Think` is weakly fair, since `CSoundEnt::Think` sets `nextthink` 0.3 seconds
  ahead each time, and the engine calls it whatever else happens.  `ExpiredIsFreed`
  still needs an argument: sounds are inserted in front and freed around a waiting
  one.
* `Doors`, `Buttons`: `DoorThink` and `ButtonThink` are weakly fair for each entity, for
  the engine calls a think that is due, and `LinearMove` and the waits set the time of
  the next.  `DoorsClose` is about what is left when disturbances end (they are
  bounded); `ButtonsReturn` holds while a button is pressed and shot for ever.
* `Scripted`: `SequenceEnds` is weakly fair: monsters think ten times a second and an
  animation has an end.  The walk to the mark is under no fairness, since the way may
  be blocked for ever, so that `SequencesEnd` speaks of monsters that play.

Time, players, clients and other entities are under no fairness.

## What is proved

`SoundPoolProofs`, for all `MaxSounds` and `MaxClients` in `1 .. MaxSounds`
(`PoolAssumption`): `PoolSound`, from `PoolNoLeak` and `PoolCutIsInitialSegment`.  With
the types they are inductive together; the interesting step is `Reset`, which cuts an initial segment
of an already cut list.

`SoundEntProofs`, for the same sizes, any set of monsters and any durations
(`SoundAssumption`): `SoundEntTypes`, `SoundListsAreSound`, `AudibleWalksEnd`,
`SoundEntImplementsPool` and `SoundEntKeepsPool`.  The invariant `SoundIInv` says that

* the links thread the active and the free sounds (`Lists`): there are two sequences of
  sounds, each sound once, none on both, that the heads and links run along (`Path`);
* behind a reserved sound is the next lower one or nothing (`TailSorted`).  So a reset
  cuts off the lower reserved sounds and no other, which is `Reset` of `SoundPool`;
* reserved sounds never expire;
* the sounds somebody has heard since the load can be ranked so that `m_iNextAudible`
  descends (`AudibleGood`).  `Listen` ranks what it hears in the order of the active
  list and all that leads into it above; a walk that descends visits no sound twice and
  therefore ends (`DescentEnds`, by the pigeonhole theorem).

The walks are recursive functions.  `RecursionExists` and `Induct` (both from the least
element of a set of numbers, `LeastOf`) say that such a function exists and what holds
of all its values; `WalkOfPath`, `ThinkStage` and `HearStage` are the invariants of the
loops.  `SoundEntKeepsPool` is the theorem of `SoundPoolProofs` carried over by the
refinement.

`SquadProofs`, for all sets of monsters and enemies, sizes of squads and numbers of
slots and any schedules `Wants` (`SquadAssumption`): `SquadTypeOK`,
`SquadSquadsAgree`, `SquadSlotsAreHeld`.  None of the safety properties is inductive.
The invariant `IInv` adds

* `MembersFollow`: what `SquadsAgree` says of the members holds of dead leaders too,
  who may have recruited before they started and may not come alive again;
* `AbsentIsClean`: nobody's handle leads to an entity that is not there, so that one
  that appears starts without a squad;
* `LeadersStarted`: leaders have started, and who has not started has no slots
  marked.  A leader that recruits therefore starts with no slot taken.

Each action has its lemma; `OccupySlotIsFree` (the slot chosen was free and asked
for) and `FoundIsSequence` (the recruits fit the array) are the facts about the
operators.  The central argument for `SlotsAreHeld` is in `ChangeScheduleStep` and
`KilledStep`: whoever vacates a slot may unmark that of another monster that holds
the same one (after a restore this happens), which leaves a slot held and not
marked, never one marked and not held.

`GgmAccountsProofs`, for any number of slots, clients, accounts, nicknames and addresses
(`AccountsAssumption`, `NullAssumption`: NULL is none of them): `AccountsTypeOK`,
`AccountsNoDangling`, `AccountsOneRecordEach`, `AccountsLoginsResolve`,
`AccountsNicknameBusy`.  The invariant `IInv` adds that a record's list agrees with its
`fRegistered` and with the registrations on disk (`StatesGood`), that no login is in
the list twice and each points to a registered record, or to none once a file has failed
(`LoginsGood`), that a login on disk has its registration or is of one that could not be
filed (`FilesAgree`), and that a nickname that somebody else is
logged in with is busy for spectators too, whom `GGM_PlayerSpawn` lets in without another look
(`PlayersGood`).  The lookups have lemmas of their own: what they return, what
they load, and that lists only grow by them.  That the heap suffices is
part of the specification (`HeapSuffices`).

`CoopVoteProofs`, for all finite sets of players and all triggers (`VoteAssumption`):
`VoteTypeOK`, `VoteDecidedIsOver`, and the action property `VoteBackIsAgreed`.  A vote about a
level has its trigger and its player, and no decided vote stays (`SoundVotes`), which
a confirmation that touches the trigger again needs; `TouchStep` shows that such a touch
ends the level only if it sees no more confirmations than those of the vote and the
present one.

`PlayProofs`, the campaign, for all maps, landmarks and ways between them
(`CampaignAssumption`, `NamesAssumption`: the map the server starts with is one, and what stands
for none is no map): `CampaignTypes`, `CampaignOffsetsAgree`,
`CampaignPositionsResolve`, `CampaignCheckpointMenuEnds`, `CampaignSlotsAreSaves` and
the action property `CampaignIsKept`, with `mp_coop_reconnect_hack` and without.
`CampaignIInv`
adds that the landmark's coordinate in the transition is the one of the present
map (`LandmarkIsSeen`), that the transition's own position is of a known map
(`PositionsKnown`), that no checkpoint is behind a hole and the last is never written
(`NoHoles`), which saves sit in which slots, so that an automatic save overwrites the older
(`AutoSavesAlternate`), and that the last landmark's change that waits is the one that the
transition is prepared for, as long as it is prepared, and that without the hack nobody is in
the game meanwhile (`ChangeWaits`).

`PlayProofs`, the guns, for all players, guns and places (`TanksAssumption`): `TanksTypes` and
`TanksKnowTheirPlayers`.  `TankKnowsItsPlayer` is inductive with the types; the step that
needs care is `TankUse`, which may let go of a gun that another player has.

`PlayProofs`, the weapons, for all weapons of the four kinds, items, casts and slots
(`WeaponsAssumption`: what the `ItemInfo` of the kinds has in common): `ChainsStaySound`,
`HudAlwaysShowsWeapons`, and `WeaponsAreTyped` if the weapons that share an ammunition
agree on how much of it is carried (`SharedMax`), as those of the model do.  `Good`
strengthens `ChainsAreSound`: an item is in the chain of its own slot and there once
(`Chained`), what waits for a think is there, and a crowbar that is about to fly is carried
(`Pending`); a grenade whose pin is drawn is in hand with its ammunition left, and no
crowbar flies then (`Primed`), without which the throw takes a round that is not there.
The hard part is what happens in the middle of a call.  `Sound(s, B)` is the invariant
while the items of `B` are in a box that is being emptied, and each operation has a
relation of the states before and after it.  `Holster` is in most of them: an exhaustible
weapon without ammunition takes itself out of the chains, whatever the caller was about
to do with it.  `GetNextBestWeapon`, `InOrder` and the loops of `CWeaponBox::Touch` are
recursive functions, whose values exist by `RecursionExists` and `LoopExists` of
`DataLemmas` and have what each round keeps by `Induct`.

`PlayProofs`, what fires each other, for all maps (`TargetAssumption`: a list has a target,
names lead to entities, a maker or counter that is not endless has some left):
`TargetTypes`, `ManagersAlwaysFireAll`, `ChildrenAlwaysCounted`.  Both properties have to
hold in the middle of a call, whatever is fired inside it.  `Did(s, t, e)` is what an
entity may do between two states: no manager's account changes but by what is ahead of
its runs, a run goes on unless its manager is removed (`Steady`), and the makers that
its firing does not reach are as they were (`Beyond`).  `Answers(fire)` says so of all
firings one level deeper, each operation keeps it, and `FireAnswers` is the induction over
the depth.  `Progress` is the same for a manager in the middle of its own loop, which owes
what it has not come to yet.  The makers that their own firing reaches are excepted from
the limit (`Limited`): the target is fired before the child is counted.

`PlayIsTyped`: `PlayTypeOK` of the five components side by side, with `SharedMax`.  The
behaviours of `Reconnect` are left out of it, since what it is an instance of is proved of
the module itself: `CampaignTypes` and the others hold for every value of its constants.

`MachinesProofs`, for all levels (each module's assumption says what a level gives its
entities):

* `DoorTypes`, `DoorsKeepOnWorking` (`DoorAssumption`).  `GoodDoor` says which think an
  open door has and that a door between its places moves; a door moves its
  pieces too, so the lemmas are about a door changed by a call on another one.
* `ButtonsAreTyped`, `InputsAlwaysFollow` (`ButtonAssumption`: a name leads to an entity
  once, a multisource is called by its own name, which no other has, and fires no
  multisource).  `InputsFollowButtons` does not hold in the middle of a step: a button that
  has gone in or out and has told nobody is out of step with its input (`Untold`), and
  `CalledFollows` shows that the firing sets it right.  `Fired` is what a firing does to
  all but the inputs: no button goes in or out by it but one that toggles.  `Called` says
  that of all multisources only that of the name hears a call, and once; it is the
  invariant of the loop over the entities of a name, which `UseAll` writes as a recursive
  function.  Delayed firings have no input of their own and wait only for
  multisources that the property leaves out (`Later`).
* `TracksTypes`, `TrainsKeepOnThePlat` (`TracksAssumption`: the lines are sequences of
  tracks, and where one leads on to the plat's track, that track leads back to it; the
  train's first track and those that the map switches are not the plat's).  `GoodTracks` adds
  that the train is at its track or on the way to the next (`NearItsTrack`), that the plat
  rests at the track of the plat that a train has or stands at (`OnThePlat`), that a
  train which is carried has none (`Carried`), and that only the track at which the plat
  rests is a valid path (`PlatDisables`).  Both theorems assume `~LongExit`, a short
  way behind the plat; with a long one a train can drive into the gap (see Tracks).
* `ScriptedTypes`, `ScriptsAgreeWithActors` (`ScriptedAssumption`).  `ScriptedIInv` adds
  that a script with a monster does not look for another (`Linked`), since nothing in
  `CineThink` asks; that a script about to be removed has let its monster go (`LetGo`);
  and that a monster in the state dead is in its last task (`GoodMonster`), so that no
  script's task runs in a corpse.  Each call has its lemma, down to `CineCleanup`.  The
  theorem also shows that the branch of `SetState` for a monster without its
  script is never taken.
* `WalkersAlwaysWaitedFor` (`ScriptedAssumption`), from `WalkIInv`: `ScriptedIInv`, `SaneAll`
  and `Counted`.  `Sane` says that a script's task runs in the script state only, that the
  monster of a scripted_sequence keeps the ideal state "script" there, that a dying one has
  no blow left, and that one that plays has walked.  `Counted` is the property itself for
  the middle of a call.  Most calls are `Steady`: they leave the delays and the walkers as
  they are.  A delay grows by `PossessEntity`, where a walker sets out (`WalkerJoins`), and
  shrinks by one with `StartTask`, where one has arrived (`WalkerArrives`); `SUB_Remove`
  makes a group smaller.  The property speaks of names none of whose scripts is an
  aiscripted_sequence, the removed ones included: what such a script took off the count
  stays taken off when it is gone.
* `MachinesAreTyped`: `MachinesTypeOK` of the components side by side, with `~LongExit`.  No
  step of one touches the state of another.

Assumptions about constants are evaluated by TLC for the values of the runs.  No
bound of a run is used as more than a type: the theorems hold for every `MaxConfirm`,
`MaxDisturb`, `MaxIncidents`, `MaxDelayStart`, `MaxNesting` (except `MaxAfterLoad`, which is fixed).

Only model-checked:

* liveness, which is out of the prover's reach under fairness (`ExpiredIsFreed`,
  `DoorsClose`, `ButtonsReturn`, `SequencesEnd`);
* `AmmoIsNotMade` of `Weapons`, a sum over the items: the library has no facts about sums
  that these provers can use;
* `NodeRoutes` and `NodeSearch`, which need RECURSIVE operators, which the prover does not
  take, and with them `MonstersTypeOK`, the types of these two and of `SoundEnt` together.

## Findings

* **Two monsters in one slot** (`squad_slot`, `dlls/squadmonster.cpp:85`).  A restore
  brings back who holds which slot and forgets which slots are taken.
* **The last weapon is gone** (`weapon_last`, `dlls/player.cpp:3084`).  `SelectLastItem`
  puts the weapon in hand away; an empty hand grenade destroys itself then and may
  clear `m_pLastItem`, whose `Deploy` is called next.
* **A killed monster gets up** (`script_dead`, `dlls/scripted.cpp:318`).  Between the blow
  and the next think of the monster, a script may possess it and write its ideal state
  over the DEAD that "is a command" (`dlls/schedule.cpp:205`).

* **The train has lost its path** (`track_lost`, `dlls/plats.cpp:1875`).  A trackchange
  that carries the train and is blocked as it starts goes back at once: `HitTop`, called
  inside `GoUp`, gives the train its track, and `GoUp` then takes it away.  The comment at
  line 1852 prepares for just that call.  `GoDown` is the same.

* **Not the closest node** (`nearest`, `dlls/nodes.cpp:629`).  `UpdateRange` keeps on each
  axis the narrowest of the ranges that the nodes found so far have left, and a node that
  is nearer than the last of them may lie outside.  "After the search is exhausted, we
  know we have the closest node" (`dlls/nodes.h:137`).

Met while reading, and modelled as the code has it:

* Accounts: `GGM_Logout` asks for the anonymous state while the login file still exists,
  so that the login is read back (`dlls/gravgunmod.cpp:1921`).
* Votes: players are counted at a trigger after 30 seconds (`dlls/triggers.cpp:1574`)
  where comment and message say 20; a ban is said to cover votes
  (`dlls/gravgunmod.cpp:352`) but the banned may answer them; the third ban of a vote bans
  nobody (`dlls/gravgunmod.cpp:359`).
* Campaign: `GGM_ReadPlayers` and `COOP_ReadState` lack braces and return false whatever
  they read (`dlls/gravgunmod.cpp:1120`, `dlls/coop.cpp:63`), and `fLoading` stays set for
  the next level; `st_fSkipNext` of `COOP_PlayerDeath` is shared by all players
  (`dlls/coop.cpp:812`); the last checkpoint is never written.
* Doors: `CoopTouch` clears the target before it saves it (`dlls/doors.cpp:65`) and asks
  for no toggle state (`dlls/doors.cpp:70`); `Blocked` compares `avelocity` with
  `velocity` to find the pieces (`dlls/doors.cpp:826`).
* Buttons: a caller that is no input of a multisource toggles the last one
  (`dlls/buttons.cpp:176`); `TriggerAndWait` of a button whose master has changed leaves
  it without a think (`dlls/buttons.cpp:759`); a toggle button tells its multisource
  twice at home; `TakeDamage` drops the touch function before the master is asked
  (`dlls/buttons.cpp:422`).
* Makers: a named maker that starts on gets a think and no time for it; children that
  are removed and not killed stay counted; the target is fired before the child is counted
  (`dlls/monstermaker.cpp:223`), so that a maker which its own target fires makes more than
  its limit.
* Weapons: `CreateThink` of a flying crowbar ends with `SetThink( NULL )` and may cancel
  its removal (`dlls/crowbar.cpp:379`); a box drops what the player refuses
  (`dlls/weapons.cpp:1508`); `GiveAmmo` returns -1 for nothing, which callers take for
  true.
* Scripts: a walk that is cancelled does not undo its `DelayStart`; scripts of the class
  aiscripted_sequence are never cancelled.
* Trains: `EvaluateTrain` counts a train as safe that the plat's own line can bring
  back (`dlls/plats.cpp:1762`); a dead end may fire its target a second time when the
  train is driven against it (`dlls/plats.cpp:1251`).
* Node graph: a pair without a path marks its reverse as well (`dlls/nodes.cpp:2917`), so
  that a way that leads in one direction may be lost, which `RoutesAreShortest` allows;
  a phrase of 128 nodes in sequence has no negative in a signed char
  (`dlls/nodes.cpp:380`), and rows with one are excepted (`CountOverflows`); the sort
  compares with the code of a node that it has swapped away (`dlls/nodes.cpp:2804`); the
  cache answers for other types of nodes and what doors have hidden since, and that the
  origin is at node 0 (`dlls/nodes.cpp:700`); the queue drops nodes beyond 100
  (`dlls/nodes.cpp:2046`).
* Sounds and squads: `CSound::Reset` "doesn't expire or unlink" a sound
  (`dlls/soundent.cpp:40`) but cuts off the sounds behind it; a killed member stays in
  its leader's array (`dlls/squadmonster.cpp:170`), since `SquadRemove` looks for the
  leader among its members; the death of a leader is said to promote another
  (`dlls/squadmonster.cpp:141`) and dissolves the squad.

## What is not modelled

Single monsters, effects and items are many small tables and machines whose
correctness is mostly a matter of numbers and animation.  Player movement is
floating-point physics, the making of the node graph traces through geometry, the client
display and input; the rest of the engine interface moves data.  Tools and administration
parse strings.  Of the modelled components the notes of `PROJECT.json` say what is left
out.

## Plan

1. Restoring monsters in `SoundEnt`: `m_iAudibleList` is not saved.
2. Map cycle and intermission, the gravity gun's holding relation, scripted sentences,
   `func_train` and plats with triggers.
