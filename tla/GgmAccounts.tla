----------------------------- MODULE GgmAccounts -----------------------------
(***************************************************************************)
(* The player states of GravGunMod: dlls/gravgunmod.cpp with its callers   *)
(* in client.cpp, multiplay_gamerules.cpp and coop.cpp.                    *)
(*                                                                         *)
(* Every player has a pointer pState to a heap record that outlives the    *)
(* player: an anonymous one, found by the uid of the client, or a          *)
(* registered one, found through a login that maps (uid, nickname) to an   *)
(* account.  Records and logins are allocated and freed while players and  *)
(* logins point to them; registrations and logins also are files, which    *)
(* several servers share.  A file that fopen cannot open is not written,   *)
(* and nobody is told; a file that is opened is written completely.        *)
(*                                                                         *)
(* The contents of a record (score, weapons, password) are left out, the   *)
(* heap is not: an address that is freed holds NULL until calloc hands it  *)
(* out again.                                                              *)
(***************************************************************************)
EXTENDS Naturals, SequencesExt

CONSTANTS
    Players,      \* the client slots
    UIDs,         \* what GGM_GetAuthID returns
    Names,        \* nicknames
    Accounts,     \* names of registrations
    Addr,         \* addresses of GGMPlayerState records
    LoginAddr,    \* addresses of GGMLogin records
    NULL,
    mp_spectator, \* the cvar: players start as spectators
    OtherServers  \* whether other servers share the files

ASSUME AccountsAssumption ==
    /\ NULL \notin Addr \cup LoginAddr \cup Names \cup UIDs
    /\ mp_spectator \in BOOLEAN
    /\ OtherServers \in BOOLEAN

VARIABLES
    mem,      \* the heap: the three lists and their records
    files,    \* ggm/registrations and ggm/logins
    player    \* the CBasePlayer of every slot

vars == <<mem, files, player>>

States == {"UNINITIALIZED", "CONNECTED", "SPECTATOR_BEGIN", "SPAWNED"}

StateRecord == [fRegistered : BOOLEAN, szUID : UIDs \cup Accounts]
LoginRecord == [szUID : UIDs, szName : Names, pState : Addr \cup {NULL}]
LoginFile   == [szUID : UIDs, szName : Names, account : Accounts]

\* A pointer that is NULL leads to no record.
ASSUME NullAssumption == NULL \notin StateRecord \cup LoginRecord

TypeOK ==
    /\ mem \in [anonymous  : SUBSET Addr,      \* anonymous_list
                registered : SUBSET Addr,      \* registered_list
                logins     : Seq(LoginAddr),   \* login_list, newest first
                state      : [Addr -> StateRecord \cup {NULL}],
                login      : [LoginAddr -> LoginRecord \cup {NULL}]]
    /\ files \in [registrations : SUBSET Accounts,
                  logins        : SUBSET LoginFile,
                  unfiled       : SUBSET Accounts]  \* history: their file was not opened
    /\ player \in [Players -> [connected : BOOLEAN,
                               object    : BOOLEAN,  \* pvPrivateData # NULL
                               uid       : UIDs \cup {NULL},
                               netname   : Names \cup {NULL},
                               iState    : States,
                               pState    : Addr \cup {NULL}]]

NewPlayer == [connected |-> FALSE, object |-> FALSE, uid |-> NULL, netname |-> NULL,
              iState |-> "UNINITIALIZED", pState |-> NULL]

EmptyMem == [anonymous |-> {}, registered |-> {}, logins |-> <<>>,
             state |-> [a \in Addr |-> NULL],
             login |-> [l \in LoginAddr |-> NULL]]

Init ==
    /\ mem = EmptyMem
    /\ files = [registrations |-> {}, logins |-> {}, unfiled |-> {}]
    /\ player = [p \in Players |-> NewPlayer]

\* What calloc returns out of the addresses S that the lists do not use.
Calloc(S) == IF S = {} THEN {NULL} ELSE S

NewState(m) == Calloc(Addr \ (m.anonymous \cup m.registered))
NewLogin(m) == Calloc(LoginAddr \ Range(m.logins))

\* Bound of the model: the heap suffices, calloc never fails.
HeapSuffices(m) == NULL \notin m.anonymous \cup m.registered \cup Range(m.logins)

-----------------------------------------------------------------------------
(* Looking up and loading records.  a and l are the addresses calloc would  *)
(* return; the result is the new heap and the record found.                 *)

Found(m, x) == [mem |-> m, found |-> x]

\* GGM_FindState on a list, as the set of the records that match.
FindState(m, list, id) == {x \in list : m.state[x].szUID = id}

AddRegistered(m, a, name) ==
    [m EXCEPT !.registered = m.registered \cup {a},
              !.state = [m.state EXCEPT ![a] = [fRegistered |-> TRUE, szUID |-> name]]]

\* A new anonymous record of a client.
AddAnonymous(m, a, u) ==
    [m EXCEPT !.anonymous = m.anonymous \cup {a},
              !.state = [m.state EXCEPT ![a] = [fRegistered |-> FALSE, szUID |-> u]]]

\* A lookup that goes to the file although the record is loaded.
GetRegistrationReload(m, name, a) ==
    IF name \in files.registrations THEN Found(AddRegistered(m, a, name), a)
    ELSE Found(m, NULL)

\* GGM_GetRegistration
GetRegistration(m, name, a) ==
    LET known == FindState(m, m.registered, name)
    IN  IF known # {} THEN Found(m, CHOOSE x \in known : TRUE)
        ELSE IF name \in files.registrations
        THEN Found(AddRegistered(m, a, name), a)
        ELSE Found(m, NULL)

\* A new login with the uid and the nickname exchanged.
AddLoginSwapped(m, l, u, n, x) ==
    [m EXCEPT !.logins = <<l>> \o m.logins,
              !.login = [m.login EXCEPT ![l] = [szUID |-> n, szName |-> u, pState |-> x]]]

\* A new login at the head of login_list.
AddLogin(m, l, u, n, x) ==
    [m EXCEPT !.logins = <<l>> \o m.logins,
              !.login = [m.login EXCEPT ![l] = [szUID |-> u, szName |-> n, pState |-> x]]]

\* The places in login_list of the logins of a client under a nickname.
Logins(m, u, n) ==
    {i \in DOMAIN m.logins : /\ m.login[m.logins[i]].szUID = u
                             /\ m.login[m.logins[i]].szName = n}

\* GGM_LoadLogin
LoadLogin(m, u, n, a, l) ==
    LET known  == Logins(m, u, n)
        stored == {f \in files.logins : f.szUID = u /\ f.szName = n}
    IN  IF known # {} THEN Found(m, m.logins[Min(known)])
        ELSE IF stored = {} THEN Found(m, NULL)
        ELSE LET f == CHOOSE f \in stored : TRUE
                 r == GetRegistration(m, f.account, a)
             IN  Found(AddLogin(r.mem, l, u, n, r.found), l)

\* GGM_GetState without the refusal of nicknames that others have logged in.
GetStateAnyName(m, u, n, a, l) ==
    LET r     == LoadLogin(m, u, n, a, l)
        known == FindState(m, m.anonymous, u)
    IN  IF r.found # NULL THEN Found(r.mem, r.mem.login[r.found].pState)
        ELSE IF known # {} THEN Found(m, CHOOSE x \in known : TRUE)
        ELSE Found(AddAnonymous(m, a, u), a)

\* GGM_GetState: the record of a login, or none when the nickname is that of
\* another login, or the anonymous record of the uid.
GetState(m, u, n, a, l) ==
    LET r     == LoadLogin(m, u, n, a, l)
        known == FindState(m, m.anonymous, u)
    IN  IF r.found # NULL THEN Found(r.mem, r.mem.login[r.found].pState)
        ELSE IF \E x \in Range(m.logins) : m.login[x].szName = n THEN Found(m, NULL)
        ELSE IF known # {} THEN Found(m, CHOOSE x \in known : TRUE)
        ELSE Found(AddAnonymous(m, a, u), a)

-----------------------------------------------------------------------------
(* Freeing records                                                          *)

\* The part of GGM_FreeState that takes the record out of the list.
DropAnonymous(m, u) ==
    LET gone == FindState(m, m.anonymous, u)
    IN  [m EXCEPT !.anonymous = m.anonymous \ gone,
                  !.state = [x \in Addr |-> IF x \in gone THEN NULL ELSE m.state[x]]]

\* The first loop of GGM_Logout frees the newest login, if there is one.
DropLogin(m, u, n) ==
    LET known == Logins(m, u, n)
        l     == m.logins[Min(known)]
    IN  IF known = {} THEN m
        ELSE [m EXCEPT !.logins = RemoveAt(m.logins, Min(known)),
                       !.login = [m.login EXCEPT ![l] = NULL]]

\* GGM_FreeState that unlinks only the player who asked for it.
UnlinkOnlySelf(m, pl, u) == pl

\* The part of GGM_FreeState that unlinks the record from all players.
UnlinkAnonymous(m, pl, u) ==
    [q \in Players |->
        IF /\ pl[q].pState # NULL
           /\ ~m.state[pl[q].pState].fRegistered
           /\ m.state[pl[q].pState].szUID = u
        THEN [pl[q] EXCEPT !.pState = NULL]
        ELSE pl[q]]

\* The loop of GGM_ClearLists over the players.
UnlinkAll(pl) == [q \in Players |-> [pl[q] EXCEPT !.pState = NULL]]

-----------------------------------------------------------------------------
(* Commands of the players                                                  *)

\* ClientCommand: "Is the client spawned yet?"
TakesCommands(p) == player[p].connected /\ player[p].object

IsRegistered(p) ==
    player[p].pState # NULL /\ mem.state[player[p].pState].fRegistered

\* GGM_WritePersist: an account whose file cannot be opened stays in memory.
WritePersist(f, account, opened) ==
    IF opened THEN [f EXCEPT !.registrations = f.registrations \cup {account}]
    ELSE [f EXCEPT !.unfiled = f.unfiled \cup ({account} \ f.registrations)]

\* GGM_WriteLogin: one file for a uid and a nickname.
WriteLogin(f, u, n, account, opened) ==
    LET others == {x \in f.logins : x.szUID # u \/ x.szName # n}
        new    == [szUID |-> u, szName |-> n, account |-> account]
    IN  IF opened THEN [f EXCEPT !.logins = others \cup {new}] ELSE f

\* The files after the login alone is written, or both.
LoginFirst(f, u, n, account, opened, both) ==
    LET g == WriteLogin(f, u, n, account, opened.login)
    IN  IF both THEN WritePersist(g, account, opened.registration) ELSE g

\* The files after the first write of GGM_Register, or after both.
RegisterWrites(f, u, n, account, opened, both) ==
    LET g == WritePersist(f, account, opened.registration)
    IN  IF both THEN WriteLogin(g, u, n, account, opened.login) ELSE g

\* Which of the files of a registration can be opened.
Opened == [registration : BOOLEAN, login : BOOLEAN]

\* What the name and the player of GGM_Register must be.
MayRegister(p) ==
    /\ TakesCommands(p)
    /\ player[p].pState # NULL
    /\ ~IsRegistered(p)

\* GGM_Register
Register(p, account, a, l) ==
    LET me   == player[p]
        r    == GetRegistration(mem, account, a)
        u    == mem.state[me.pState].szUID
        with == AddLogin(AddRegistered(mem, a, account), l, u, me.netname, a)
    IN  /\ MayRegister(p)
        /\ IF r.found # NULL
           THEN mem' = r.mem /\ UNCHANGED <<files, player>>
           ELSE /\ mem' = DropAnonymous(with, u)
                /\ \E opened \in Opened :
                       files' = RegisterWrites(files, u, me.netname, account, opened, TRUE)
                /\ player' = [UnlinkAnonymous(with, player, u) EXCEPT ![p].pState = a]

\* The server process ends in GGM_Register, between its two files.
RegisterCrash(p, account) ==
    LET me == player[p]
        u  == mem.state[me.pState].szUID
    IN  /\ MayRegister(p)
        /\ FindState(mem, mem.registered, account) = {}
        /\ account \notin files.registrations
        /\ mem' = EmptyMem
        /\ \E opened \in Opened :
               files' = RegisterWrites(files, u, me.netname, account, opened, FALSE)
        /\ player' = [q \in Players |-> NewPlayer]

\* GGM_ChangePassword_f writes the registration again.
ChangePassword(p) ==
    /\ TakesCommands(p)
    /\ IsRegistered(p)
    /\ \E opened \in BOOLEAN :
           files' = WritePersist(files, mem.state[player[p].pState].szUID, opened)
    /\ UNCHANGED <<mem, player>>

\* The loop of GGM_Login for a player without a record stops at the newest
\* login of the nickname: is it that of another record than x?
OtherLoggedIn(m, n, x) ==
    LET named == {i \in DOMAIN m.logins : m.login[m.logins[i]].szName = n}
    IN  named # {} /\ m.login[m.logins[Min(named)]].pState # x

\* GGM_Login with the right or a wrong password.
Login(p, account, ok, a, l) ==
    LET me   == player[p]
        r    == GetRegistration(mem, account, a)
        with == AddLogin(r.mem, l, me.uid, me.netname, r.found)
    IN  /\ TakesCommands(p)
        /\ ~IsRegistered(p)
        /\ IF \/ ~ok
              \/ r.found = NULL
              \/ me.pState = NULL /\ OtherLoggedIn(mem, me.netname, r.found)
           THEN mem' = r.mem /\ UNCHANGED <<files, player>>
           ELSE /\ \E opened \in BOOLEAN :
                       files' = WriteLogin(files, me.uid, me.netname, account, opened)
                /\ IF me.pState = NULL
                   THEN /\ mem' = with
                        /\ player' = [player EXCEPT ![p].pState = r.found]
                   ELSE LET u == mem.state[me.pState].szUID
                        IN  /\ mem' = DropAnonymous(with, u)
                            /\ player' = [UnlinkAnonymous(with, player, u)
                                              EXCEPT ![p].pState = r.found]

\* GGM_Logout: a login is freed, the state looked up again and the file of
\* the login removed, in this order.
Logout(p, a) ==
    LET me   == player[p]
        m    == DropLogin(mem, me.uid, me.netname)
        keep == {f \in files.logins : f.szUID # me.uid \/ f.szName # me.netname}
    IN  /\ TakesCommands(p)
        /\ \E l \in NewLogin(m) :
               LET r == GetState(m, me.uid, me.netname, a, l)
               IN  /\ mem' = r.mem
                   /\ player' = [player EXCEPT ![p].pState = r.found]
        /\ files' = [files EXCEPT !.logins = keep]

-----------------------------------------------------------------------------
(* The life of a player                                                     *)

NameTaken(p, n) == \E q \in Players \ {p} : player[q].connected /\ player[q].netname = n

\* A client takes a slot.  The engine may keep the CBasePlayer of the client
\* that had it before, with its pState, or make a new one.
Connect(p, u, n) ==
    /\ ~player[p].connected
    /\ ~NameTaken(p, n)
    /\ \E old \in {player[p], NewPlayer} :
           player' = [player EXCEPT ![p] = [old EXCEPT !.connected = TRUE,
                                                       !.uid = u, !.netname = n]]
    /\ UNCHANGED <<mem, files>>

\* Where GGM_PlayerSpawn puts a connected player.
SpawnState(pState) ==
    IF mp_spectator \/ pState = NULL THEN "SPECTATOR_BEGIN" ELSE "SPAWNED"

\* ClientPutInServer: GGM_ClientPutinServer, then CBasePlayer::Spawn.
PutInServer(p, a, l) ==
    LET me == player[p]
        r  == GetState(mem, me.uid, me.netname, a, l)
    IN  /\ me.connected
        /\ me.iState \in {"UNINITIALIZED", "CONNECTED"}
        /\ mem' = r.mem
        /\ player' = [player EXCEPT ![p] = [me EXCEPT !.object = TRUE, !.pState = r.found,
                                                      !.iState = SpawnState(r.found)]]
        /\ UNCHANGED files

\* UTIL_SpawnPlayer, when a spectator presses a button or joins.
SpawnPlayer(p) ==
    /\ player[p].connected
    /\ player[p].iState = "SPECTATOR_BEGIN"
    /\ player[p].pState # NULL
    /\ player' = [player EXCEPT ![p].iState = "SPAWNED"]
    /\ UNCHANGED <<mem, files>>

\* ClientUserInfoChanged with a new nickname; the engine then sets netname.
UserInfoChanged(p, n, a, l) ==
    LET me     == player[p]
        keeps  == IsRegistered(p) /\ me.iState = "SPAWNED"
        r      == GetState(mem, me.uid, n, a, l)
    IN  /\ me.connected
        /\ ~NameTaken(p, n)
        /\ UNCHANGED files
        /\ IF keeps \/ ~me.object
           THEN /\ player' = [player EXCEPT ![p].netname = n]
                /\ UNCHANGED mem
           ELSE /\ mem' = r.mem
                /\ player' =
                    IF r.found = me.pState
                    THEN [player EXCEPT ![p].netname = n]
                    ELSE [player EXCEPT ![p] = [me EXCEPT !.netname = n, !.pState = r.found,
                                                          !.iState = "UNINITIALIZED"]]

\* ClientDisconnect leaves pState behind in the slot.
Disconnect(p) ==
    /\ player[p].connected
    /\ player' = [player EXCEPT ![p] =
                     [player[p] EXCEPT !.connected = FALSE, !.uid = NULL, !.netname = NULL,
                                       !.iState = "UNINITIALIZED"]]
    /\ UNCHANGED <<mem, files>>

-----------------------------------------------------------------------------
(* The server                                                               *)

\* A new level: the players are new or reset, the lists stay.
LevelChange ==
    /\ \E kept \in BOOLEAN :
           player' = [p \in Players |->
                         [player[p] EXCEPT !.object = player[p].object /\ kept,
                                           !.iState = "UNINITIALIZED",
                                           !.pState = NULL]]
    /\ UNCHANGED <<mem, files>>

\* GGM_ClearLists, from GGM_ReadPlayers.
ClearLists ==
    /\ mem' = EmptyMem
    /\ player' = UnlinkAll(player)
    /\ UNCHANGED files

\* The server process ends, at any time, and starts again.
Restart ==
    /\ mem' = EmptyMem
    /\ player' = [p \in Players |-> NewPlayer]
    /\ UNCHANGED files

\* Another server that shares the files registers somebody.
ForeignRegister(account) ==
    /\ OtherServers
    /\ \E opened \in BOOLEAN : files' = WritePersist(files, account, opened)
    /\ UNCHANGED <<mem, player>>

\* Another server logs somebody in, to a registration it may only have in memory.
ForeignLogin(u, n, account) ==
    /\ OtherServers
    /\ account \in files.registrations \cup files.unfiled
    /\ files' = WriteLogin(files, u, n, account, TRUE)
    /\ UNCHANGED <<mem, player>>

\* Another server logs somebody out.
ForeignLogout(u, n) ==
    /\ OtherServers
    /\ files' = [files EXCEPT !.logins = {f \in @ : f.szUID # u \/ f.szName # n}]
    /\ UNCHANGED <<mem, player>>

Next ==
    \/ /\ \E p \in Players, a \in NewState(mem), l \in NewLogin(mem) :
            \/ \E account \in Accounts :
                \/ Register(p, account, a, l)
                \/ \E ok \in BOOLEAN : Login(p, account, ok, a, l)
            \/ PutInServer(p, a, l)
            \/ \E n \in Names : UserInfoChanged(p, n, a, l)
       /\ HeapSuffices(mem')
    \/ /\ \E p \in Players, a \in NewState(mem) : Logout(p, a)
       /\ HeapSuffices(mem')
    \/ \E p \in Players :
        \/ \E u \in UIDs, n \in Names : Connect(p, u, n)
        \/ SpawnPlayer(p)
        \/ Disconnect(p)
        \/ ChangePassword(p)
        \/ \E account \in Accounts : RegisterCrash(p, account)
    \/ LevelChange
    \/ ClearLists
    \/ Restart
    \/ \E account \in Accounts : ForeignRegister(account)
    \/ \E u \in UIDs, n \in Names :
        \/ \E account \in Accounts : ForeignLogin(u, n, account)
        \/ ForeignLogout(u, n)

Spec == Init /\ [][Next]_vars

-----------------------------------------------------------------------------
(* Properties                                                               *)

(***************************************************************************)
(* No pointer dangles: what a player or a login points to is a record that *)
(* is in a list, whoever logged in, out or left meanwhile and whatever     *)
(* address the record was given.  A login points to a registered record.   *)
(***************************************************************************)
NoDangling ==
    /\ mem.anonymous \cap mem.registered = {}
    /\ \A x \in mem.anonymous : mem.state[x] # NULL /\ ~mem.state[x].fRegistered
    /\ \A x \in mem.registered : mem.state[x] # NULL /\ mem.state[x].fRegistered
    /\ \A p \in Players :
           player[p].pState \in mem.anonymous \cup mem.registered \cup {NULL}
    /\ \A l \in Range(mem.logins) :
           mem.login[l] # NULL /\ mem.login[l].pState \in mem.registered \cup {NULL}

(***************************************************************************)
(* The searches of the lists are unambiguous: one anonymous record for a   *)
(* uid, one registered record for an account, although records are made in *)
(* four places.  (Logins of a client under a nickname may be there twice.) *)
(***************************************************************************)
OneRecordEach ==
    /\ \A x, y \in mem.anonymous : mem.state[x].szUID = mem.state[y].szUID => x = y
    /\ \A x, y \in mem.registered : mem.state[x].szUID = mem.state[y].szUID => x = y

(***************************************************************************)
(* A registration is on disk before anything that names it: a login file   *)
(* and a record in memory lead to a registration that the next start of a  *)
(* server finds, also when the process ends between the two writes of      *)
(* GGM_Register.  The one way to lose it is a file that could not be       *)
(* opened; until that has happened every login in memory has its record.   *)
(***************************************************************************)
LoginsResolve ==
    /\ \A f \in files.logins : f.account \in files.registrations \cup files.unfiled
    /\ \A x \in mem.registered :
           mem.state[x].szUID \in files.registrations \cup files.unfiled
    /\ files.unfiled = {} => \A l \in Range(mem.logins) : mem.login[l].pState # NULL

(***************************************************************************)
(* A nickname that somebody has logged in is not used by an anonymous      *)
(* player ("This nickname busy! Please login or change nickname").         *)
(***************************************************************************)
NicknameBusy ==
    \A p \in Players, l \in Range(mem.logins) :
        /\ player[p].connected
        /\ player[p].iState = "SPAWNED"
        /\ mem.login[l].szName = player[p].netname
        /\ mem.login[l].szUID # player[p].uid
        => player[p].pState \notin mem.anonymous
=============================================================================
