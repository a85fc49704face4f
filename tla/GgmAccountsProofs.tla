--------------------------- MODULE GgmAccountsProofs ---------------------------
(***************************************************************************)
(* The records of players for any number of slots, clients, nicknames,     *)
(* accounts and addresses: no pointer dangles, no record is there twice,   *)
(* logins lead to registrations and nobody uses a nickname that is logged  *)
(* in.                                                                     *)
(*                                                                         *)
(* None of this is inductive alone.  A login that is loaded finds its      *)
(* registration because files agree with each other (FilesAgree) and       *)
(* records in memory have been filed, unless their file could not be       *)
(* opened (HeapGood); a login that is freed                                *)
(* leaves nothing behind because login_list holds each login once; and a   *)
(* nickname is busy for spectators too, who are spawned without another    *)
(* look (PlayersGood).                                                     *)
(***************************************************************************)
EXTENDS GgmAccounts, DataLemmas

MemType == [anonymous : SUBSET Addr, registered : SUBSET Addr, logins : Seq(LoginAddr),
            state : [Addr -> StateRecord \cup {NULL}],
            login : [LoginAddr -> LoginRecord \cup {NULL}]]
PlayerType == [connected : BOOLEAN, object : BOOLEAN, uid : UIDs \cup {NULL},
               netname : Names \cup {NULL}, iState : States, pState : Addr \cup {NULL}]

\* The registrations that some server made, with their file or without.
Filed(F) == F.registrations \cup F.unfiled

\* The records of a heap beside the files F.
StatesGood(m, F) ==
    /\ m.anonymous \cap m.registered = {}
    /\ \A x \in m.anonymous :
          m.state[x] \in StateRecord /\ ~m.state[x].fRegistered /\ m.state[x].szUID \in UIDs
    /\ \A x \in m.registered :
          m.state[x] \in StateRecord /\ m.state[x].fRegistered /\ m.state[x].szUID \in Filed(F)
    /\ \A x, y \in m.anonymous : m.state[x].szUID = m.state[y].szUID => x = y
    /\ \A x, y \in m.registered : m.state[x].szUID = m.state[y].szUID => x = y

\* The logins of a heap.
LoginsGood(m, F) ==
    /\ \A i, j \in DOMAIN m.logins : m.logins[i] = m.logins[j] => i = j
    /\ \A i \in DOMAIN m.logins : /\ m.login[m.logins[i]] \in LoginRecord
                                  /\ m.login[m.logins[i]].pState \in m.registered \cup {NULL}
                                  /\ m.login[m.logins[i]].pState = NULL => F.unfiled # {}

HeapGood(m, F) == m \in MemType /\ StatesGood(m, F) /\ LoginsGood(m, F)

FilesGood(F) ==
    /\ F \in [registrations : SUBSET Accounts, logins : SUBSET LoginFile,
              unfiled : SUBSET Accounts]
    /\ \A f \in F.logins : f.account \in Filed(F)

FilesAgree == FilesGood(files)

\* No registration of F is unknown to G.
Grows(F, G) == Filed(F) \subseteq Filed(G) /\ (F.unfiled # {} => G.unfiled # {})

\* Whether somebody else is logged in under the nickname of pl.
Busy(m, pl) ==
    \E i \in DOMAIN m.logins : /\ m.login[m.logins[i]].szName = pl.netname
                               /\ m.login[m.logins[i]].szUID # pl.uid

InGame == {"SPECTATOR_BEGIN", "SPAWNED"}

PlayerGood(m, pl) ==
    /\ pl.connected => pl.uid \in UIDs /\ pl.netname \in Names
    /\ ~pl.connected => pl.iState = "UNINITIALIZED"
    /\ pl.iState \in InGame => pl.object /\ (Busy(m, pl) => pl.pState \notin m.anonymous)
    /\ pl.pState \in m.anonymous \cup m.registered \cup {NULL}

PlayersGood(m, pls) ==
    /\ pls \in [Players -> PlayerType]
    /\ \A p \in Players : PlayerGood(m, pls[p])
    /\ \A p, q \in Players :
          pls[p].connected /\ pls[q].connected /\ pls[p].netname = pls[q].netname => p = q

\* The inductive invariant.
IInv == HeapGood(mem, files) /\ FilesAgree /\ PlayersGood(mem, player)

-----------------------------------------------------------------------------
(* Files are written *)

LEMMA WritePersistGood ==
    ASSUME NEW F, FilesGood(F), NEW account \in Accounts, NEW opened \in BOOLEAN
    PROVE  LET G == WritePersist(F, account, opened)
           IN  FilesGood(G) /\ Grows(F, G) /\ account \in Filed(G)
<1> DEFINE G == WritePersist(F, account, opened)
<1>1. F \in [registrations : SUBSET Accounts, logins : SUBSET LoginFile, unfiled : SUBSET Accounts]
  BY DEF FilesGood
<1>2. /\ G \in [registrations : SUBSET Accounts, logins : SUBSET LoginFile, unfiled : SUBSET Accounts]
      /\ G.logins = F.logins /\ F.unfiled \subseteq G.unfiled
      /\ G.registrations \cup G.unfiled = F.registrations \cup F.unfiled \cup {account}
  BY <1>1 DEF WritePersist
<1> HIDE DEF G
<1>3. FilesGood(G) /\ Grows(F, G) /\ account \in Filed(G)
  BY <1>2 DEF FilesGood, Filed, Grows
<1> QED
  BY <1>3 DEF G

LEMMA WriteLoginGood ==
    ASSUME NEW F, FilesGood(F), NEW u \in UIDs, NEW n \in Names,
           NEW account \in Accounts, account \in Filed(F), NEW opened \in BOOLEAN
    PROVE  LET G == WriteLogin(F, u, n, account, opened)
           IN  FilesGood(G) /\ Grows(F, G)
<1> DEFINE new == [szUID |-> u, szName |-> n, account |-> account]
           rest == {x \in F.logins : x.szUID # u \/ x.szName # n}
           G == WriteLogin(F, u, n, account, opened)
<1>1. F \in [registrations : SUBSET Accounts, logins : SUBSET LoginFile, unfiled : SUBSET Accounts]
  BY DEF FilesGood
<1>2. new \in LoginFile /\ new.account = account
  BY DEF LoginFile
<1>3. G = F \/ G = [F EXCEPT !.logins = rest \cup {new}]
  BY DEF WriteLogin
<1> HIDE DEF new, G
<1>4. /\ G \in [registrations : SUBSET Accounts, logins : SUBSET LoginFile, unfiled : SUBSET Accounts]
      /\ G.registrations = F.registrations /\ G.unfiled = F.unfiled
      /\ G.logins \subseteq F.logins \cup {new}
  BY <1>1, <1>2, <1>3
<1>5. FilesGood(G) /\ Grows(F, G)
  BY <1>2, <1>4 DEF FilesGood, Filed, Grows
<1> QED
  BY <1>5 DEF G

\* The files of a registration, whichever of them could be opened and whether
\* or not the second was reached.
LEMMA RegisterWritesGood ==
    ASSUME NEW F, FilesGood(F), NEW u \in UIDs, NEW n \in Names,
           NEW account \in Accounts, NEW opened \in Opened, NEW both \in BOOLEAN
    PROVE  LET G == RegisterWrites(F, u, n, account, opened, both)
           IN  FilesGood(G) /\ Grows(F, G) /\ account \in Filed(G)
<1> DEFINE H == WritePersist(F, account, opened.registration)
           L == WriteLogin(H, u, n, account, opened.login)
           G == RegisterWrites(F, u, n, account, opened, both)
<1>1. opened.registration \in BOOLEAN /\ opened.login \in BOOLEAN
  BY DEF Opened
<1>2. FilesGood(H) /\ Grows(F, H) /\ account \in Filed(H)
  BY <1>1, WritePersistGood
<1>3. G = H \/ G = L
  BY DEF RegisterWrites
<1> HIDE DEF G, H
<1>4. FilesGood(L) /\ Grows(H, L)
  BY <1>1, <1>2, WriteLoginGood
<1> HIDE DEF L
<1>5. FilesGood(G) /\ Grows(F, G) /\ account \in Filed(G)
  BY <1>2, <1>3, <1>4 DEF Grows
<1> QED
  BY <1>5 DEF G

\* What memory refers to stays filed.
LEMMA HeapKeeps ==
    ASSUME NEW F, NEW G, Grows(F, G), NEW m, HeapGood(m, F)
    PROVE  HeapGood(m, G)
<1>1. StatesGood(m, G)
  BY DEF Grows, HeapGood, StatesGood
<1>2. LoginsGood(m, G)
  BY DEF Grows, HeapGood, LoginsGood
<1> QED
  BY <1>1, <1>2 DEF HeapGood

-----------------------------------------------------------------------------
(* Records come and go *)

LEMMA AddRegisteredGood ==
    ASSUME NEW F, NEW m, HeapGood(m, F), NEW name \in Accounts,
           name \in Filed(F), NEW a \in Addr \ (m.anonymous \cup m.registered),
           \A x \in m.registered : m.state[x].szUID # name
    PROVE  /\ HeapGood(AddRegistered(m, a, name), F)
           /\ AddRegistered(m, a, name).anonymous = m.anonymous
           /\ AddRegistered(m, a, name).registered = m.registered \cup {a}
           /\ AddRegistered(m, a, name).logins = m.logins
           /\ AddRegistered(m, a, name).login = m.login
           /\ \A x \in Addr : x # a => AddRegistered(m, a, name).state[x] = m.state[x]
<1> DEFINE n == AddRegistered(m, a, name)
           r == [fRegistered |-> TRUE, szUID |-> name]
<1>1. m \in MemType
  BY DEF HeapGood
<1>2. r \in StateRecord
  BY DEF StateRecord
<1>3. /\ n.anonymous = m.anonymous /\ n.registered = m.registered \cup {a}
      /\ n.logins = m.logins /\ n.login = m.login
      /\ n.state = [m.state EXCEPT ![a] = r]
  BY <1>1 DEF AddRegistered, MemType
<1>4. n \in MemType
  BY <1>1, <1>2 DEF AddRegistered, MemType
<1>5. \A x \in Addr : n.state[x] = IF x = a THEN r ELSE m.state[x]
  BY <1>1, <1>3 DEF MemType
<1>6. r.fRegistered /\ r.szUID = name
  OBVIOUS
<1> HIDE DEF n, r
<1>7. m.anonymous \subseteq Addr /\ m.registered \subseteq Addr
  BY <1>1 DEF MemType
<1>8. StatesGood(n, F)
  BY <1>2, <1>3, <1>5, <1>6, <1>7 DEF HeapGood, StatesGood
<1>9. LoginsGood(n, F)
  BY <1>3 DEF HeapGood, LoginsGood
<1> QED
  BY <1>3, <1>4, <1>5, <1>8, <1>9 DEF HeapGood, n, r

LEMMA AddAnonymousGood ==
    ASSUME NEW F, NEW m, HeapGood(m, F), NEW u \in UIDs,
           NEW a \in Addr \ (m.anonymous \cup m.registered),
           \A x \in m.anonymous : m.state[x].szUID # u
    PROVE  /\ HeapGood(AddAnonymous(m, a, u), F)
           /\ AddAnonymous(m, a, u).anonymous = m.anonymous \cup {a}
           /\ AddAnonymous(m, a, u).registered = m.registered
           /\ AddAnonymous(m, a, u).logins = m.logins
           /\ AddAnonymous(m, a, u).login = m.login
<1> DEFINE n == AddAnonymous(m, a, u)
           r == [fRegistered |-> FALSE, szUID |-> u]
<1>1. m \in MemType
  BY DEF HeapGood
<1>2. r \in StateRecord
  BY DEF StateRecord
<1>3. /\ n.anonymous = m.anonymous \cup {a} /\ n.registered = m.registered
      /\ n.logins = m.logins /\ n.login = m.login
      /\ n.state = [m.state EXCEPT ![a] = r]
  BY <1>1 DEF AddAnonymous, MemType
<1>4. n \in MemType
  BY <1>1, <1>2 DEF AddAnonymous, MemType
<1>5. \A x \in Addr : n.state[x] = IF x = a THEN r ELSE m.state[x]
  BY <1>1, <1>3 DEF MemType
<1>6. ~r.fRegistered /\ r.szUID = u
  OBVIOUS
<1> HIDE DEF n, r
<1>7. m.anonymous \subseteq Addr /\ m.registered \subseteq Addr
  BY <1>1 DEF MemType
<1>8. StatesGood(n, F)
  BY <1>2, <1>3, <1>5, <1>6, <1>7 DEF HeapGood, StatesGood
<1>9. LoginsGood(n, F)
  BY <1>3 DEF HeapGood, LoginsGood
<1> QED
  BY <1>3, <1>4, <1>8, <1>9 DEF HeapGood, n

LEMMA AddLoginGood ==
    ASSUME NEW F, NEW m, HeapGood(m, F), NEW u \in UIDs, NEW n \in Names,
           NEW x \in m.registered \cup {NULL}, x = NULL => F.unfiled # {},
           NEW l \in LoginAddr \ Range(m.logins)
    PROVE  /\ HeapGood(AddLogin(m, l, u, n, x), F)
           /\ AddLogin(m, l, u, n, x).anonymous = m.anonymous
           /\ AddLogin(m, l, u, n, x).registered = m.registered
           /\ AddLogin(m, l, u, n, x).state = m.state
           /\ AddLogin(m, l, u, n, x).login[l] = [szUID |-> u, szName |-> n, pState |-> x]
           /\ \A i \in DOMAIN AddLogin(m, l, u, n, x).logins :
                 \/ AddLogin(m, l, u, n, x).logins[i] = l
                 \/ \E j \in DOMAIN m.logins :
                       /\ AddLogin(m, l, u, n, x).logins[i] = m.logins[j]
                       /\ AddLogin(m, l, u, n, x).login[m.logins[j]] = m.login[m.logins[j]]
<1> DEFINE k == AddLogin(m, l, u, n, x)
           r == [szUID |-> u, szName |-> n, pState |-> x]
<1>1. m \in MemType /\ m.logins \in Seq(LoginAddr) /\ x \in Addr \cup {NULL}
  BY DEF HeapGood, MemType
<1>2. r \in LoginRecord
  BY <1>1 DEF LoginRecord
<1>3. /\ k.anonymous = m.anonymous /\ k.registered = m.registered /\ k.state = m.state
      /\ k.logins = <<l>> \o m.logins
      /\ k.login = [m.login EXCEPT ![l] = r]
  BY <1>1 DEF AddLogin, MemType
<1>4. <<l>> \o m.logins \in Seq(LoginAddr)
  BY <1>1, PushFacts
<1>5. k \in MemType
  BY <1>1, <1>2, <1>3, <1>4 DEF AddLogin, MemType
<1>6. k.login[l] = r /\ \A y \in LoginAddr : y # l => k.login[y] = m.login[y]
  BY <1>1, <1>3 DEF MemType
<1>7. DOMAIN m.logins = 1 .. Len(m.logins) /\ Len(m.logins) \in Nat
  BY <1>1, LenProperties
<1>8. /\ DOMAIN k.logins = 1 .. Len(m.logins) + 1 /\ k.logins[1] = l
      /\ \A i \in 2 .. Len(m.logins) + 1 :
            i - 1 \in DOMAIN m.logins /\ k.logins[i] = m.logins[i - 1]
  BY <1>1, <1>3, PushFacts
<1>9. \A j \in DOMAIN m.logins : m.logins[j] \in LoginAddr /\ m.logins[j] # l
  BY <1>1, <1>7, ElementOfSeq DEF Range
<1>10. r.pState = x
  OBVIOUS
<1> HIDE DEF k, r
<1>11. StatesGood(k, F)
  BY <1>3 DEF HeapGood, StatesGood
<1>12. \A i \in DOMAIN k.logins : i = 1 \/ i \in 2 .. Len(m.logins) + 1
  BY <1>7, <1>8
<1>13. LoginsGood(k, F)
  <2>1. ASSUME NEW i \in DOMAIN k.logins
        PROVE  /\ k.login[k.logins[i]] \in LoginRecord
               /\ k.login[k.logins[i]].pState \in k.registered \cup {NULL}
               /\ k.login[k.logins[i]].pState = NULL => F.unfiled # {}
    BY <1>2, <1>3, <1>6, <1>8, <1>9, <1>10, <1>12 DEF HeapGood, LoginsGood
  <2>2. ASSUME NEW i \in DOMAIN k.logins, NEW j \in DOMAIN k.logins, k.logins[i] = k.logins[j]
        PROVE  i = j
    <3>1. CASE i = 1 \/ j = 1
      BY <1>8, <1>9, <1>12, <2>2, <3>1
    <3>2. CASE i \in 2 .. Len(m.logins) + 1 /\ j \in 2 .. Len(m.logins) + 1
      <4>1. i - 1 = j - 1
        BY <1>8, <2>2, <3>2 DEF HeapGood, LoginsGood
      <4> QED
        BY <1>7, <3>2, <4>1
    <3> QED
      BY <1>12, <3>1, <3>2
  <2> QED
    BY <2>1, <2>2 DEF LoginsGood
<1>14. \A i \in DOMAIN k.logins :
          \/ k.logins[i] = l
          \/ \E j \in DOMAIN m.logins : /\ k.logins[i] = m.logins[j]
                                        /\ k.login[m.logins[j]] = m.login[m.logins[j]]
  BY <1>6, <1>8, <1>9, <1>12
<1>15. HeapGood(k, F)
  BY <1>5, <1>11, <1>13 DEF HeapGood
<1> QED
  BY <1>3, <1>6, <1>14, <1>15 DEF k, r

LEMMA DropAnonymousGood ==
    ASSUME NEW F, NEW m, HeapGood(m, F), NEW u
    PROVE  /\ HeapGood(DropAnonymous(m, u), F)
           /\ DropAnonymous(m, u).anonymous = {x \in m.anonymous : m.state[x].szUID # u}
           /\ DropAnonymous(m, u).registered = m.registered
           /\ DropAnonymous(m, u).logins = m.logins
           /\ DropAnonymous(m, u).login = m.login
<1> DEFINE k == DropAnonymous(m, u)
           gone == FindState(m, m.anonymous, u)
<1>1. m \in MemType
  BY DEF HeapGood
<1>2. gone = {x \in m.anonymous : m.state[x].szUID = u}
  BY DEF FindState
<1>3. /\ k.anonymous = m.anonymous \ gone /\ k.registered = m.registered
      /\ k.logins = m.logins /\ k.login = m.login
      /\ k.state = [x \in Addr |-> IF x \in gone THEN NULL ELSE m.state[x]]
  BY <1>1 DEF DropAnonymous, MemType
<1>4. k \in MemType
  BY <1>1 DEF DropAnonymous, MemType
<1> HIDE DEF k, gone
<1>5. \A x \in k.anonymous \cup k.registered : k.state[x] = m.state[x]
  BY <1>1, <1>2, <1>3 DEF HeapGood, StatesGood, MemType
<1>6. StatesGood(k, F)
  BY <1>3, <1>5 DEF HeapGood, StatesGood
<1>7. LoginsGood(k, F)
  BY <1>3 DEF HeapGood, LoginsGood
<1> QED
  BY <1>2, <1>3, <1>4, <1>6, <1>7 DEF HeapGood, k

\* The logins of k are those of m and new ones under the nickname n.
LoginsFrom(m, k, n) ==
    \A i \in DOMAIN k.logins :
        \/ k.login[k.logins[i]].szName = n
        \/ \E j \in DOMAIN m.logins : k.login[k.logins[i]] = m.login[m.logins[j]]

LEMMA DropLoginGood ==
    ASSUME NEW F, NEW m, HeapGood(m, F), NEW u, NEW n
    PROVE  /\ HeapGood(DropLogin(m, u, n), F)
           /\ DropLogin(m, u, n).anonymous = m.anonymous
           /\ DropLogin(m, u, n).registered = m.registered
           /\ LoginsFrom(m, DropLogin(m, u, n), n)
<1> DEFINE known == Logins(m, u, n)
           h == Min(known)
           l == m.logins[h]
           k == DropLogin(m, u, n)
<1>1. m \in MemType /\ m.logins \in Seq(LoginAddr)
  BY DEF HeapGood, MemType
<1>2. CASE known = {}
  BY <1>2 DEF DropLogin, LoginsFrom
<1>3. CASE known # {}
  <2>1. h \in DOMAIN m.logins
    <3>1. known \in SUBSET Nat /\ known \subseteq DOMAIN m.logins
      BY <1>1, LenProperties DEF Logins
    <3> HIDE DEF known
    <3> QED
      BY <1>3, <3>1, MinInSet
  <2>2. l \in LoginAddr
    BY <1>1, <2>1, LenProperties, ElementOfSeq
  <2>3. k = [m EXCEPT !.logins = RemoveAt(m.logins, h), !.login = [m.login EXCEPT ![l] = NULL]]
    BY <1>3 DEF DropLogin
  <2> HIDE DEF known, h, k
  <2>4. /\ RemoveAt(m.logins, h) \in Seq(LoginAddr)
        /\ \A i \in DOMAIN RemoveAt(m.logins, h) :
              LET j == IF i < h THEN i ELSE i + 1
              IN  j \in DOMAIN m.logins /\ j # h /\ RemoveAt(m.logins, h)[i] = m.logins[j]
    BY <1>1, <2>1, RemoveFacts
  <2>5. /\ k.anonymous = m.anonymous /\ k.registered = m.registered /\ k.state = m.state
        /\ k.logins = RemoveAt(m.logins, h) /\ k.login = [m.login EXCEPT ![l] = NULL]
    BY <1>1, <2>3 DEF MemType
  <2>6. k \in MemType
    BY <1>1, <2>2, <2>3, <2>4 DEF MemType
  <2>7. \A j \in DOMAIN m.logins : j # h => k.login[m.logins[j]] = m.login[m.logins[j]]
    <3>1. \A j \in DOMAIN m.logins : j # h => m.logins[j] # l
      BY <2>1 DEF HeapGood, LoginsGood
    <3>2. \A j \in DOMAIN m.logins : m.logins[j] \in LoginAddr
      BY <1>1, LenProperties, ElementOfSeq
    <3> HIDE DEF l
    <3> QED
      BY <1>1, <2>5, <3>1, <3>2 DEF MemType
  <2>8. \A i \in DOMAIN k.logins : \E j \in DOMAIN m.logins :
            /\ j # h /\ j = (IF i < h THEN i ELSE i + 1)
            /\ k.logins[i] = m.logins[j] /\ k.login[k.logins[i]] = m.login[m.logins[j]]
    BY <2>4, <2>5, <2>7
  <2>9. LoginsGood(k, F)
    <3>1. ASSUME NEW i \in DOMAIN k.logins
          PROVE  /\ k.login[k.logins[i]] \in LoginRecord
                 /\ k.login[k.logins[i]].pState \in k.registered \cup {NULL}
                 /\ k.login[k.logins[i]].pState = NULL => F.unfiled # {}
      BY <2>5, <2>8 DEF HeapGood, LoginsGood
    <3>2. ASSUME NEW i \in DOMAIN k.logins, NEW j \in DOMAIN k.logins, k.logins[i] = k.logins[j]
          PROVE  i = j
      <4>1. (IF i < h THEN i ELSE i + 1) = (IF j < h THEN j ELSE j + 1)
        BY <2>8, <3>2 DEF HeapGood, LoginsGood
      <4>2. i \in Nat /\ j \in Nat /\ h \in Nat
        BY <1>1, <2>1, <2>4, <2>5, LenProperties
      <4> QED
        BY <4>1, <4>2
    <3> QED
      BY <3>1, <3>2 DEF LoginsGood
  <2>10. StatesGood(k, F)
    BY <2>5 DEF HeapGood, StatesGood
  <2>11. LoginsFrom(m, k, n)
    BY <2>8 DEF LoginsFrom
  <2>12. HeapGood(k, F)
    BY <2>6, <2>9, <2>10 DEF HeapGood
  <2> QED
    BY <2>5, <2>11, <2>12 DEF k
<1> QED
  BY <1>2, <1>3

-----------------------------------------------------------------------------
(* Lookups.  The heap suffices or the step is not taken.                     *)

LEMMA NewStateFacts ==
    ASSUME NEW m, NEW a \in NewState(m)
    PROVE  a = NULL \/ a \in Addr \ (m.anonymous \cup m.registered)
  BY DEF NewState, Calloc

LEMMA NewLoginFacts ==
    ASSUME NEW m, NEW l \in NewLogin(m)
    PROVE  l = NULL \/ l \in LoginAddr \ Range(m.logins)
  BY DEF NewLogin, Calloc

\* An account is found in memory or in its file, and what is found is its only
\* record.
LEMMA GetRegistrationGood ==
    ASSUME NEW m, HeapGood(m, files), FilesAgree,
           NEW name \in Accounts, NEW a \in NewState(m)
    PROVE  LET r == GetRegistration(m, name, a)
           IN  /\ r.mem.anonymous = m.anonymous
               /\ r.mem.logins = m.logins
               /\ r.mem.login = m.login
               /\ m.registered \subseteq r.mem.registered
               /\ r.found = NULL => \A x \in m.registered : m.state[x].szUID # name
               /\ HeapSuffices(r.mem) =>
                     /\ HeapGood(r.mem, files)
                     /\ r.found \in r.mem.registered \cup {NULL}
                     /\ r.found = NULL => name \notin files.registrations /\ r.mem = m
                     /\ r.found # NULL => name \in Filed(files)
                     /\ \A x \in m.anonymous : r.mem.state[x] = m.state[x]
<1> DEFINE known == FindState(m, m.registered, name)
           r == GetRegistration(m, name, a)
           n == AddRegistered(m, a, name)
<1>1. m \in MemType /\ m.anonymous \subseteq Addr /\ m.registered \subseteq Addr
  BY DEF HeapGood, MemType
<1>2. known = {x \in m.registered : m.state[x].szUID = name}
  BY DEF FindState
<1>3. CASE known # {}
  <2>1. PICK x \in known : r = Found(m, x)
    BY <1>3 DEF GetRegistration
  <2>2. r.mem = m /\ r.found = x
    BY <2>1 DEF Found
  <2>3. x \in m.registered /\ x # NULL /\ name \in Filed(files)
    BY <1>1, <1>2, AccountsAssumption DEF HeapGood, StatesGood
  <2> HIDE DEF r
  <2> QED
    BY <2>2, <2>3 DEF r
<1>4. CASE known = {} /\ name \in files.registrations
  <2>1. r.mem = n /\ r.found = a
    BY <1>4 DEF GetRegistration, Found
  <2>2. /\ n.anonymous = m.anonymous /\ n.registered = m.registered \cup {a}
        /\ n.logins = m.logins /\ n.login = m.login
    BY <1>1 DEF AddRegistered, MemType
  <2>3. HeapSuffices(n) => a \in Addr \ (m.anonymous \cup m.registered)
    BY <2>2, NewStateFacts DEF HeapSuffices
  <2>4. name \in Filed(files)
    BY <1>4 DEF Filed
  <2>5. ASSUME HeapSuffices(n)
        PROVE  /\ HeapGood(n, files) /\ a # NULL
               /\ \A x \in m.anonymous : n.state[x] = m.state[x]
    <3>1. a \in Addr \ (m.anonymous \cup m.registered)
      BY <2>3, <2>5
    <3>2. \A x \in m.registered : m.state[x].szUID # name
      BY <1>2, <1>4
    <3>3. /\ HeapGood(n, files)
          /\ \A x \in Addr : x # a => n.state[x] = m.state[x]
      <4>1. HeapGood(m, files)
        OBVIOUS
      <4> HIDE DEF known, r
      <4>2. HeapGood(AddRegistered(m, a, name), files)
        BY <2>4, <3>1, <3>2, <4>1, AddRegisteredGood
      <4>3. \A x \in Addr : x # a => AddRegistered(m, a, name).state[x] = m.state[x]
        BY <1>1 DEF AddRegistered, MemType
      <4> QED
        BY <4>2, <4>3, Zenon
    <3> HIDE DEF n, known
    <3> QED
      BY <1>1, <2>4, <3>1, <3>3, AccountsAssumption
  <2>7. a = NULL => \A x \in m.registered : m.state[x].szUID # name
    BY <1>2, <1>4
  <2> HIDE DEF n, r
  <2> QED
    BY <1>4, <2>1, <2>2, <2>4, <2>5, <2>7 DEF r
<1>5. CASE known = {} /\ name \notin files.registrations
  <2>1. r.mem = m /\ r.found = NULL
    BY <1>5 DEF GetRegistration, Found
  <2> HIDE DEF r
  <2> QED
    BY <1>2, <1>5, <2>1 DEF r
<1> QED
  BY <1>3, <1>4, <1>5

\* A login is found in memory or in its file, and points to a record that is
\* registered or, if that could not be filed, to none.
LEMMA LoadLoginGood ==
    ASSUME NEW m, HeapGood(m, files), FilesAgree,
           NEW u \in UIDs, NEW n \in Names, NEW a \in NewState(m), NEW l \in NewLogin(m),
           LoadLogin(m, u, n, a, l).found # NULL,
           HeapSuffices(LoadLogin(m, u, n, a, l).mem)
    PROVE  LET r == LoadLogin(m, u, n, a, l)
           IN  /\ HeapGood(r.mem, files)
               /\ r.mem.anonymous = m.anonymous
               /\ m.registered \subseteq r.mem.registered
               /\ r.mem.login[r.found].pState \in r.mem.registered \cup {NULL}
               /\ LoginsFrom(m, r.mem, n)
<1> DEFINE known  == Logins(m, u, n)
           stored == {f \in files.logins : f.szUID = u /\ f.szName = n}
           r == LoadLogin(m, u, n, a, l)
<1>1. m \in MemType /\ m.logins \in Seq(LoginAddr)
  BY DEF HeapGood, MemType
<1>2. CASE known # {}
  <2>1. r.mem = m /\ r.found = m.logins[Min(known)]
    BY <1>2 DEF LoadLogin, Found
  <2>2. Min(known) \in DOMAIN m.logins
    <3>1. known \in SUBSET Nat /\ known \subseteq DOMAIN m.logins
      BY <1>1, LenProperties DEF Logins
    <3> HIDE DEF known
    <3> QED
      BY <1>2, <3>1, MinInSet
  <2> HIDE DEF known, r
  <2>3. m.login[m.logins[Min(known)]].pState \in m.registered \cup {NULL}
    BY <2>2 DEF HeapGood, LoginsGood
  <2>4. LoginsFrom(m, m, n)
    BY DEF LoginsFrom
  <2> QED
    BY <2>1, <2>3, <2>4 DEF r
<1>3. CASE known = {} /\ stored # {}
  <2>1. PICK f \in stored :
            r = Found(AddLogin(GetRegistration(m, f.account, a).mem, l, u, n,
                               GetRegistration(m, f.account, a).found), l)
    BY <1>3 DEF LoadLogin
  <2> DEFINE g == GetRegistration(m, f.account, a)
             k == AddLogin(g.mem, l, u, n, g.found)
  <2>2. r.mem = k /\ r.found = l
    BY <2>1 DEF Found
  <2>3. f \in files.logins /\ f.account \in Accounts /\ f.account \in Filed(files)
    BY <2>1 DEF FilesAgree, FilesGood, LoginFile
  <2>4. /\ g.mem.anonymous = m.anonymous /\ g.mem.logins = m.logins /\ g.mem.login = m.login
        /\ m.registered \subseteq g.mem.registered
        /\ HeapSuffices(g.mem) =>
              /\ HeapGood(g.mem, files)
              /\ g.found \in g.mem.registered \cup {NULL}
              /\ g.found = NULL => f.account \notin files.registrations
    BY <2>3, GetRegistrationGood
  <2>5. k.anonymous = g.mem.anonymous /\ k.registered = g.mem.registered /\ k.logins = <<l>> \o g.mem.logins
    <3>1. g.mem = m \/ g.mem = AddRegistered(m, f.account, a) \/ g.mem = AddRegistered(m, a, f.account)
      BY DEF GetRegistration, Found
    <3> QED
      BY <1>1, <3>1 DEF AddLogin, AddRegistered, MemType
  <2> HIDE DEF r, known, stored
  <2>6. HeapSuffices(g.mem)
    <3>1. \A x \in Range(m.logins) : x # NULL
      BY <1>1, LenProperties, ElementOfSeq, AccountsAssumption DEF Range
    <3>2. NULL \notin k.anonymous \cup k.registered
      BY <2>2 DEF HeapSuffices, r
    <3> QED
      BY <2>4, <2>5, <3>1, <3>2 DEF HeapSuffices
  <2>7. l \in LoginAddr \ Range(g.mem.logins)
    BY <2>2, <2>4, NewLoginFacts DEF r
  <2>8. g.found \in g.mem.registered \cup {NULL} /\ (g.found = NULL => files.unfiled # {})
    BY <2>3, <2>4, <2>6 DEF Filed
  <2> HIDE DEF g
  <2>9. /\ HeapGood(k, files)
        /\ k.login[l] = [szUID |-> u, szName |-> n, pState |-> g.found]
        /\ \A i \in DOMAIN k.logins :
                 \/ k.logins[i] = l
                 \/ \E j \in DOMAIN g.mem.logins :
                       /\ k.logins[i] = g.mem.logins[j]
                       /\ k.login[g.mem.logins[j]] = g.mem.login[g.mem.logins[j]]
    BY <2>4, <2>6, <2>7, <2>8, AddLoginGood
  <2>10. LoginsFrom(m, k, n)
    BY <2>4, <2>9 DEF LoginsFrom
  <2>11. k.login[l].pState \in k.registered \cup {NULL}
    BY <2>5, <2>8, <2>9
  <2> QED
    BY <2>2, <2>4, <2>5, <2>9, <2>10, <2>11 DEF r
<1>4. CASE known = {} /\ stored = {}
  BY <1>4 DEF LoadLogin, Found
<1> QED
  BY <1>2, <1>3, <1>4

\* What GGM_GetState finds is in a list, nothing leaves the lists, and a record
\* that is anonymous is found under a nickname that nobody has logged in only.
LEMMA GetStateGood ==
    ASSUME NEW m, HeapGood(m, files), FilesAgree,
           NEW u \in UIDs, NEW n \in Names, NEW a \in NewState(m), NEW l \in NewLogin(m),
           HeapSuffices(GetState(m, u, n, a, l).mem)
    PROVE  LET r == GetState(m, u, n, a, l)
           IN  /\ HeapGood(r.mem, files)
               /\ m.anonymous \subseteq r.mem.anonymous
               /\ m.registered \subseteq r.mem.registered
               /\ r.found \in r.mem.anonymous \cup r.mem.registered \cup {NULL}
               /\ LoginsFrom(m, r.mem, n)
               /\ r.found \in r.mem.anonymous =>
                     \A i \in DOMAIN r.mem.logins : r.mem.login[r.mem.logins[i]].szName # n
<1> DEFINE g == LoadLogin(m, u, n, a, l)
           known == FindState(m, m.anonymous, u)
           taken == \E x \in Range(m.logins) : m.login[x].szName = n
           r == GetState(m, u, n, a, l)
<1>1. m \in MemType /\ m.anonymous \subseteq Addr /\ m.registered \subseteq Addr
  BY DEF HeapGood, MemType
<1>2. NULL \notin Addr
  BY AccountsAssumption
<1>3. LoginsFrom(m, m, n)
  BY DEF LoginsFrom
<1>4. known = {x \in m.anonymous : m.state[x].szUID = u}
  BY DEF FindState
<1>5. ~taken => \A i \in DOMAIN m.logins : m.login[m.logins[i]].szName # n
  BY DEF Range
<1>6. CASE g.found # NULL
  <2>1. r.mem = g.mem /\ r.found = g.mem.login[g.found].pState
    BY <1>6 DEF GetState, Found
  <2>2. /\ HeapGood(g.mem, files) /\ g.mem.anonymous = m.anonymous
        /\ m.registered \subseteq g.mem.registered
        /\ g.mem.login[g.found].pState \in g.mem.registered \cup {NULL}
        /\ LoginsFrom(m, g.mem, n)
    BY <1>6, <2>1, LoadLoginGood
  <2> HIDE DEF g, r
  <2>3. r.found \notin r.mem.anonymous
    BY <1>2, <2>1, <2>2 DEF HeapGood, StatesGood, MemType
  <2> QED
    BY <2>1, <2>2, <2>3 DEF r
<1>7. CASE g.found = NULL /\ taken
  <2>1. r.mem = m /\ r.found = NULL
    BY <1>7 DEF GetState, Found
  <2> HIDE DEF r
  <2> QED
    BY <1>1, <1>2, <1>3, <2>1 DEF r
<1>8. CASE g.found = NULL /\ ~taken /\ known # {}
  <2>1. PICK x \in known : r = Found(m, x)
    BY <1>8 DEF GetState
  <2>2. r.mem = m /\ r.found = x /\ x \in m.anonymous
    BY <1>4, <2>1 DEF Found
  <2> HIDE DEF r, taken, known, g
  <2> QED
    BY <1>3, <1>5, <1>8, <2>2 DEF r
<1>9. CASE g.found = NULL /\ ~taken /\ known = {}
  <2>1. r.mem = AddAnonymous(m, a, u) /\ r.found = a
    BY <1>9 DEF GetState, Found
  <2>2. a \in Addr \ (m.anonymous \cup m.registered)
    <3>1. r.mem.anonymous = m.anonymous \cup {a}
      BY <1>1, <2>1 DEF AddAnonymous, MemType
    <3>2. a # NULL
      BY <3>1 DEF HeapSuffices, r
    <3> QED
      BY <3>2, NewStateFacts
  <2>3. \A x \in m.anonymous : m.state[x].szUID # u
    BY <1>4, <1>9
  <2> HIDE DEF r, known, taken, g
  <2>4. /\ HeapGood(r.mem, files) /\ r.mem.anonymous = m.anonymous \cup {a}
        /\ r.mem.registered = m.registered /\ r.mem.logins = m.logins /\ r.mem.login = m.login
    BY <2>1, <2>2, <2>3, AddAnonymousGood
  <2>5. LoginsFrom(m, r.mem, n)
    BY <2>4 DEF LoginsFrom
  <2> QED
    BY <1>5, <1>9, <2>1, <2>4, <2>5 DEF r
<1> QED
  BY <1>6, <1>7, <1>8, <1>9

-----------------------------------------------------------------------------
(* Players *)

SamePlayer(x, y) ==
    /\ x.connected = y.connected
    /\ x.object = y.object
    /\ x.uid = y.uid
    /\ x.netname = y.netname
    /\ x.iState = y.iState

\* What happens to the record of x when y keeps it or loses it.
KeepsOrLoses(k, x, y) ==
    /\ y.pState \in k.anonymous \cup k.registered \cup {NULL}
    /\ y.pState \in k.anonymous => y.pState = x.pState

LEMMA PlayerStays ==
    ASSUME NEW m, NEW k, NEW n, LoginsFrom(m, k, n), NEW x, NEW y,
           PlayerGood(m, x), SamePlayer(y, x), x.connected => x.netname # n,
           KeepsOrLoses(k, x, y), NULL \notin k.anonymous, k.anonymous \cap m.registered = {}
    PROVE  PlayerGood(k, y)
<1>1. y.iState \in InGame => x.connected
  BY DEF PlayerGood, SamePlayer, InGame
<1>2. x.connected /\ Busy(k, y) => Busy(m, x)
  BY DEF Busy, LoginsFrom, SamePlayer
<1>3. y.iState \in InGame => (Busy(k, y) => y.pState \notin k.anonymous)
  BY <1>1, <1>2 DEF PlayerGood, SamePlayer, KeepsOrLoses
<1> QED
  BY <1>3 DEF PlayerGood, SamePlayer, KeepsOrLoses

\* One player goes under the nickname n, nobody else does, and every other
\* player keeps or loses the record it had.
LEMMA OneMoves ==
    ASSUME NEW m, NEW pls, PlayersGood(m, pls), NEW k, NEW n, LoginsFrom(m, k, n),
           NEW p \in Players, NEW new \in [Players -> PlayerType],
           NULL \notin k.anonymous, k.anonymous \cap m.registered = {},
           new[p].netname = n, PlayerGood(k, new[p]),
           \A q \in Players \ {p} : pls[q].connected => pls[q].netname # n,
           \A q \in Players \ {p} : SamePlayer(new[q], pls[q]) /\ KeepsOrLoses(k, pls[q], new[q])
    PROVE  PlayersGood(k, new)
<1>1. \A q \in Players : PlayerGood(k, new[q])
  BY PlayerStays DEF PlayersGood
<1>2. \A q, o \in Players :
          new[q].connected /\ new[o].connected /\ new[q].netname = new[o].netname => q = o
  BY DEF PlayersGood, SamePlayer
<1> QED
  BY <1>1, <1>2 DEF PlayersGood

\* Who keeps a record of lists that have only grown keeps one of their records.
LEMMA ListsGrow ==
    ASSUME NEW m, NEW k, NEW F, HeapGood(k, F), NEW x, PlayerGood(m, x),
           m.anonymous \subseteq k.anonymous, m.registered \subseteq k.registered
    PROVE  /\ KeepsOrLoses(k, x, x) /\ SamePlayer(x, x)
           /\ NULL \notin k.anonymous /\ k.anonymous \cap m.registered = {}
  BY AccountsAssumption DEF HeapGood, MemType, StatesGood, PlayerGood, KeepsOrLoses, SamePlayer

\* One player gets another record, or goes under another nickname, and the
\* lists grow.
LEMMA OneChanges ==
    ASSUME PlayersGood(mem, player), NEW k, NEW F, HeapGood(k, F),
           mem.anonymous \subseteq k.anonymous, mem.registered \subseteq k.registered,
           NEW n, LoginsFrom(mem, k, n), NEW p \in Players, NEW x \in PlayerType,
           x.netname = n, PlayerGood(k, x),
           \A q \in Players \ {p} : player[q].connected => player[q].netname # n
    PROVE  PlayersGood(k, [player EXCEPT ![p] = x])
<1> DEFINE new == [player EXCEPT ![p] = x]
<1>1. new \in [Players -> PlayerType] /\ new[p] = x /\ \A q \in Players \ {p} : new[q] = player[q]
  BY DEF PlayersGood
<1>2. \A q \in Players \ {p} : SamePlayer(new[q], player[q]) /\ KeepsOrLoses(k, player[q], new[q])
  BY <1>1, ListsGrow DEF PlayersGood
<1>3. NULL \notin k.anonymous /\ k.anonymous \cap mem.registered = {}
  BY ListsGrow DEF PlayersGood
<1> HIDE DEF new
<1>4. new[p].netname = n /\ PlayerGood(k, new[p])
  BY <1>1
<1>5. PlayersGood(k, new)
  BY <1>1, <1>2, <1>3, <1>4, OneMoves
<1> QED
  BY <1>5 DEF new

\* A player who is connected is the only one under its nickname.
LEMMA OnlyOne ==
    ASSUME NEW m, NEW pls, PlayersGood(m, pls), NEW p \in Players, pls[p].connected
    PROVE  /\ pls[p].uid \in UIDs /\ pls[p].netname \in Names
           /\ \A q \in Players \ {p} : pls[q].connected => pls[q].netname # pls[p].netname
  BY DEF PlayersGood, PlayerGood

\* The state of a connected player after it got the record of GetState.
LEMMA PlayerFinds ==
    ASSUME NEW k, NEW F, HeapGood(k, F), NEW x, x.connected, x.uid \in UIDs, x.netname \in Names,
           x.iState \in InGame => x.object,
           x.pState \in k.anonymous \cup k.registered \cup {NULL},
           x.pState \in k.anonymous =>
               \A i \in DOMAIN k.logins : k.login[k.logins[i]].szName # x.netname
    PROVE  PlayerGood(k, x)
  BY DEF PlayerGood, Busy

LEMMA PutInServerStep ==
    ASSUME IInv, NEW p \in Players, NEW a \in NewState(mem), NEW l \in NewLogin(mem),
           PutInServer(p, a, l), HeapSuffices(mem')
    PROVE  IInv'
<1> DEFINE me == player[p]
           r == GetState(mem, me.uid, me.netname, a, l)
           x == [me EXCEPT !.object = TRUE, !.pState = r.found, !.iState = SpawnState(r.found)]
<1>1. HeapGood(mem, files) /\ FilesAgree /\ PlayersGood(mem, player)
  BY DEF IInv
<1>2. /\ me \in PlayerType /\ me.connected /\ me.uid \in UIDs /\ me.netname \in Names
      /\ \A q \in Players \ {p} : player[q].connected => player[q].netname # me.netname
  BY <1>1, OnlyOne DEF PutInServer, PlayersGood
<1>3. mem' = r.mem /\ player' = [player EXCEPT ![p] = x] /\ files' = files
  BY DEF PutInServer
<1>4. /\ HeapGood(r.mem, files)
      /\ mem.anonymous \subseteq r.mem.anonymous
      /\ mem.registered \subseteq r.mem.registered
      /\ r.found \in r.mem.anonymous \cup r.mem.registered \cup {NULL}
      /\ LoginsFrom(mem, r.mem, me.netname)
      /\ r.found \in r.mem.anonymous =>
            \A i \in DOMAIN r.mem.logins : r.mem.login[r.mem.logins[i]].szName # me.netname
  <2>1. HeapSuffices(r.mem)
    BY <1>3
  <2> DEFINE u == me.uid
             n == me.netname
  <2>2. u \in UIDs /\ n \in Names
    BY <1>2
  <2> HIDE DEF me, u, n
  <2>3. HeapSuffices(GetState(mem, u, n, a, l).mem)
    BY <2>1 DEF u, n
  <2> QED
    BY <1>1, <2>2, <2>3, GetStateGood DEF u, n
<1> HIDE DEF r
<1>5. r.found \in Addr \cup {NULL}
  BY <1>4 DEF HeapGood, MemType
<1>6. /\ x \in PlayerType /\ x.connected /\ x.uid = me.uid /\ x.netname = me.netname
      /\ x.object /\ x.pState = r.found
  BY <1>2, <1>5 DEF PlayerType, SpawnState, States
<1> HIDE DEF me, x
<1>7. PlayerGood(r.mem, x)
  BY <1>2, <1>4, <1>6, PlayerFinds
<1>8. PlayersGood(r.mem, [player EXCEPT ![p] = x])
  BY <1>1, <1>2, <1>4, <1>6, <1>7, OneChanges
<1> QED
  BY <1>1, <1>3, <1>4, <1>8 DEF IInv, FilesAgree

LEMMA UserInfoChangedStep ==
    ASSUME IInv, NEW p \in Players, NEW a \in NewState(mem), NEW l \in NewLogin(mem),
           NEW n \in Names, UserInfoChanged(p, n, a, l), HeapSuffices(mem')
    PROVE  IInv'
<1> DEFINE me == player[p]
           r == GetState(mem, me.uid, n, a, l)
           keeps == IsRegistered(p) /\ me.iState = "SPAWNED"
           same == [me EXCEPT !.netname = n]
           other == [me EXCEPT !.netname = n, !.pState = r.found, !.iState = "UNINITIALIZED"]
<1>1. HeapGood(mem, files) /\ FilesAgree /\ PlayersGood(mem, player)
  BY DEF IInv
<1>2. /\ me \in PlayerType /\ PlayerGood(mem, me) /\ me.connected /\ me.uid \in UIDs
      /\ \A q \in Players \ {p} : player[q].connected => player[q].netname # n
  BY <1>1, OnlyOne DEF UserInfoChanged, NameTaken, PlayersGood
<1>3. files' = files
  BY DEF UserInfoChanged
<1>4. FilesAgree'
  BY <1>1, <1>3 DEF FilesAgree
<1>5. /\ same \in PlayerType /\ same.connected /\ same.uid = me.uid /\ same.netname = n
      /\ same.object = me.object /\ same.iState = me.iState /\ same.pState = me.pState
  BY <1>2 DEF PlayerType
<1>6. me.iState \in InGame => me.object
  BY <1>2 DEF PlayerGood
<1>7. CASE keeps \/ ~me.object
  <2>1. mem' = mem /\ player' = [player EXCEPT ![p] = same]
    BY <1>7 DEF UserInfoChanged
  <2>2. keeps => me.pState \notin mem.anonymous
    BY <1>1 DEF IsRegistered, HeapGood, StatesGood
  <2> HIDE DEF same, keeps, me
  <2>3. PlayerGood(mem, same)
    BY <1>2, <1>5, <1>6, <1>7, <2>2 DEF PlayerGood
  <2>4. LoginsFrom(mem, mem, n)
    BY DEF LoginsFrom
  <2>5. PlayersGood(mem, [player EXCEPT ![p] = same])
    BY <1>1, <1>2, <1>5, <2>3, <2>4, OneChanges
  <2> QED
    BY <1>1, <1>3, <1>4, <2>1, <2>5 DEF IInv
<1>8. CASE ~(keeps \/ ~me.object)
  <2>1. /\ mem' = r.mem
        /\ r.found = me.pState => player' = [player EXCEPT ![p] = same]
        /\ r.found # me.pState => player' = [player EXCEPT ![p] = other]
    BY <1>8 DEF UserInfoChanged
  <2>2. /\ HeapGood(r.mem, files)
        /\ mem.anonymous \subseteq r.mem.anonymous
        /\ mem.registered \subseteq r.mem.registered
        /\ r.found \in r.mem.anonymous \cup r.mem.registered \cup {NULL}
        /\ LoginsFrom(mem, r.mem, n)
        /\ r.found \in r.mem.anonymous =>
              \A i \in DOMAIN r.mem.logins : r.mem.login[r.mem.logins[i]].szName # n
    BY SMTT(20), ZenonT(40), <1>1, <1>2, <2>1, GetStateGood
  <2> HIDE DEF r
  <2>3. r.found \in Addr \cup {NULL}
    BY <2>2 DEF HeapGood, MemType
  <2>4. /\ other \in PlayerType /\ other.connected /\ other.uid = me.uid /\ other.netname = n
        /\ other.pState = r.found /\ other.iState = "UNINITIALIZED"
    BY <1>2, <2>3 DEF PlayerType, States
  <2> HIDE DEF same, other, keeps, me
  <2>5. other.iState \notin InGame
    BY <2>4 DEF InGame
  <2>6. PlayerGood(r.mem, other)
    BY <1>2, <2>2, <2>4, <2>5, PlayerFinds
  <2>7. r.found = me.pState => PlayerGood(r.mem, same)
    BY <1>2, <1>5, <1>6, <2>2, PlayerFinds
  <2>8. PlayersGood(r.mem, [player EXCEPT ![p] = other])
    BY <1>1, <1>2, <2>2, <2>4, <2>6, OneChanges
  <2>9. r.found = me.pState => PlayersGood(r.mem, [player EXCEPT ![p] = same])
    BY <1>1, <1>2, <1>5, <2>2, <2>7, OneChanges
  <2>10. PlayersGood(mem, player)'
    BY <2>1, <2>8, <2>9
  <2> QED
    BY <1>3, <1>4, <2>1, <2>2, <2>10 DEF IInv
<1> QED
  BY <1>7, <1>8

LEMMA LogoutStep ==
    ASSUME IInv, NEW p \in Players, NEW a \in NewState(mem), Logout(p, a), HeapSuffices(mem')
    PROVE  IInv'
<1> DEFINE me == player[p]
           m == DropLogin(mem, me.uid, me.netname)
           r(l) == GetState(m, me.uid, me.netname, a, l)
<1>1. HeapGood(mem, files) /\ FilesAgree /\ PlayersGood(mem, player)
  BY DEF IInv
<1>2. /\ me \in PlayerType /\ me.connected /\ me.object /\ me.uid \in UIDs /\ me.netname \in Names
      /\ \A q \in Players \ {p} : player[q].connected => player[q].netname # me.netname
  BY <1>1, OnlyOne DEF Logout, TakesCommands, PlayersGood
<1>3. PICK l \in NewLogin(m) : mem' = r(l).mem /\ player' = [player EXCEPT ![p].pState = r(l).found]
  BY DEF Logout
<1> DEFINE k == r(l).mem
           found == r(l).found
           x == [me EXCEPT !.pState = found]
<1>4. /\ HeapGood(m, files)
      /\ m.anonymous = mem.anonymous /\ m.registered = mem.registered
      /\ LoginsFrom(mem, m, me.netname)
  BY <1>1, DropLoginGood
<1>5. a \in NewState(m)
  BY <1>4 DEF NewState
<1>6. mem' = k /\ player' = [player EXCEPT ![p] = x]
  BY <1>3
<1> HIDE DEF m
<1>7. /\ HeapGood(k, files)
      /\ m.anonymous \subseteq k.anonymous
      /\ m.registered \subseteq k.registered
      /\ found \in k.anonymous \cup k.registered \cup {NULL}
      /\ LoginsFrom(m, k, me.netname)
      /\ found \in k.anonymous =>
            \A i \in DOMAIN k.logins : k.login[k.logins[i]].szName # me.netname
  <2> DEFINE u == me.uid
             n == me.netname
  <2>1. HeapSuffices(k)
    BY <1>6
  <2>2. u \in UIDs /\ n \in Names
    BY <1>2
  <2> HIDE DEF me, u, n
  <2>3. HeapSuffices(GetState(m, u, n, a, l).mem)
    BY <2>1 DEF u, n
  <2> QED
    BY <1>1, <1>4, <1>5, <2>2, <2>3, GetStateGood DEF u, n
<1> HIDE DEF k, found
<1>8. found \in Addr \cup {NULL}
  BY <1>7 DEF HeapGood, MemType
<1>9. /\ x \in PlayerType /\ x.connected /\ x.object /\ x.uid = me.uid /\ x.netname = me.netname
      /\ x.pState = found
  BY <1>2, <1>8 DEF PlayerType
<1> HIDE DEF me, x
<1>10. LoginsFrom(mem, k, me.netname)
  BY <1>4, <1>7 DEF LoginsFrom
<1>11. PlayerGood(k, x)
  BY <1>2, <1>7, <1>9, PlayerFinds
<1>12. PlayersGood(k, [player EXCEPT ![p] = x])
  BY <1>1, <1>2, <1>4, <1>7, <1>9, <1>10, <1>11, OneChanges
<1>13. FilesAgree' /\ Grows(files, files')
  BY <1>1 DEF FilesAgree, FilesGood, Filed, Grows, Logout
<1>14. HeapGood(k, files')
  BY <1>7, <1>13, HeapKeeps
<1> QED
  BY <1>6, <1>12, <1>13, <1>14 DEF IInv

\* When the heap suffices for a login, its addresses are addresses.
LEMMA LoginSuffices ==
    ASSUME NEW m \in MemType, NEW account, NEW a, NEW g, g = m \/ g = AddRegistered(m, a, account),
           NEW l, NEW w, NEW n, NEW x, NEW u,
           LET with == AddLogin(g, l, w, n, x)
           IN  HeapSuffices(with) \/ HeapSuffices(DropAnonymous(with, u))
    PROVE  l # NULL /\ NULL \notin g.registered
<1> DEFINE with == AddLogin(g, l, w, n, x)
           k == DropAnonymous(with, u)
<1>1. g = [anonymous |-> m.anonymous, registered |-> g.registered, logins |-> m.logins,
           state |-> g.state, login |-> m.login]
  BY DEF AddRegistered, MemType
<1>2. /\ with.registered = g.registered /\ with.logins = <<l>> \o m.logins
      /\ k.registered = g.registered /\ k.logins = <<l>> \o m.logins
  BY <1>1 DEF AddLogin, DropAnonymous
<1>3. \/ NULL \notin with.registered /\ NULL \notin Range(with.logins)
      \/ NULL \notin k.registered /\ NULL \notin Range(k.logins)
  BY DEF HeapSuffices
<1>4. m.logins \in Seq(LoginAddr)
  BY DEF MemType
<1> HIDE DEF with, k
<1>5. NULL \notin g.registered /\ NULL \notin Range(<<l>> \o m.logins)
  BY <1>2, <1>3
<1>6. l \in Range(<<l>> \o m.logins)
  <2>1. 1 \in DOMAIN (<<l>> \o m.logins) /\ (<<l>> \o m.logins)[1] = l
    BY <1>4, PushFacts, LenProperties
  <2> QED
    BY <2>1 DEF Range
<1> QED
  BY <1>5, <1>6

\* A player logs in: the login is new, the anonymous record of the client goes
\* and with it every pointer to it.
LEMMA LogsIn ==
    ASSUME PlayersGood(mem, player), NEW F, NEW g, HeapGood(g, F),
           g.anonymous = mem.anonymous, mem.registered \subseteq g.registered,
           g.logins = mem.logins, g.login = mem.login, NEW x \in g.registered,
           NEW p \in Players, player[p].connected, player[p].object,
           NEW w \in UIDs, NEW l \in LoginAddr \ Range(g.logins), NEW u
    PROVE  LET with == AddLogin(g, l, w, player[p].netname, x)
               k    == DropAnonymous(with, u)
           IN  /\ HeapGood(with, F)
               /\ PlayersGood(with, [player EXCEPT ![p].pState = x])
               /\ HeapGood(k, F)
               /\ PlayersGood(k, [UnlinkAnonymous(with, player, u) EXCEPT ![p].pState = x])
<1> DEFINE n == player[p].netname
           with == AddLogin(g, l, w, n, x)
           k == DropAnonymous(with, u)
           me == [player[p] EXCEPT !.pState = x]
           un == UnlinkAnonymous(with, player, u)
           new == [un EXCEPT ![p].pState = x]
<1>1. /\ n \in Names /\ player[p].uid \in UIDs
      /\ \A q \in Players \ {p} : player[q].connected => player[q].netname # n
  BY OnlyOne
<1>0. x \in g.registered \cup {NULL} /\ (x = NULL => F.unfiled # {})
  BY AccountsAssumption DEF HeapGood, MemType
<1> HIDE DEF n
<1>2. /\ HeapGood(with, F) /\ with.anonymous = g.anonymous /\ with.registered = g.registered
      /\ with.login[l] = [szUID |-> w, szName |-> n, pState |-> x]
      /\ \A i \in DOMAIN with.logins :
            \/ with.logins[i] = l
            \/ \E j \in DOMAIN g.logins : /\ with.logins[i] = g.logins[j]
                                          /\ with.login[g.logins[j]] = g.login[g.logins[j]]
  BY <1>1, <1>0, AddLoginGood
<1> HIDE DEF with
<1>3. LoginsFrom(mem, with, n)
  BY <1>2 DEF LoginsFrom
<1>4. /\ HeapGood(k, F) /\ k.registered = with.registered /\ k.logins = with.logins
      /\ k.login = with.login
      /\ k.anonymous = {y \in with.anonymous : with.state[y].szUID # u}
  BY <1>2, DropAnonymousGood
<1> HIDE DEF k
<1>5. LoginsFrom(mem, k, n)
  BY <1>3, <1>4 DEF LoginsFrom
<1>6. x \in with.registered /\ x \notin with.anonymous /\ x \in Addr /\ x \notin k.anonymous
  BY <1>2, <1>4 DEF HeapGood, StatesGood, MemType
<1>7. player[p] \in PlayerType
  BY DEF PlayersGood
<1>8. /\ me \in PlayerType /\ me.connected /\ me.object /\ me.uid \in UIDs /\ me.netname = n
      /\ me.pState = x
  BY <1>1, <1>6, <1>7 DEF PlayerType, n
<1> HIDE DEF me
<1>9. PlayerGood(with, me) /\ PlayerGood(k, me)
  BY <1>1, <1>4, <1>6, <1>8 DEF PlayerGood
<1>10. PlayersGood(with, [player EXCEPT ![p] = me])
  BY <1>1, <1>2, <1>3, <1>8, <1>9, OneChanges
<1>11. /\ un \in [Players -> PlayerType]
       /\ \A q \in Players : SamePlayer(un[q], player[q]) /\ KeepsOrLoses(k, player[q], un[q])
  <2>1. player \in [Players -> PlayerType]
    BY DEF PlayersGood
  <2>2. ASSUME NEW q \in Players
        PROVE  /\ un[q] \in PlayerType
               /\ SamePlayer(un[q], player[q]) /\ KeepsOrLoses(k, player[q], un[q])
    <3>1. un[q] = IF /\ player[q].pState # NULL
                     /\ ~with.state[player[q].pState].fRegistered
                     /\ with.state[player[q].pState].szUID = u
                  THEN [player[q] EXCEPT !.pState = NULL] ELSE player[q]
      BY DEF UnlinkAnonymous
    <3>2. player[q] \in PlayerType
      BY <2>1
    <3>3. player[q].pState \in with.anonymous \cup with.registered \cup {NULL}
      BY <1>2 DEF PlayersGood, PlayerGood
    <3> HIDE DEF un
    <3>4. CASE un[q] = [player[q] EXCEPT !.pState = NULL]
      <4>1. un[q].pState = NULL
        BY <3>2, <3>4 DEF PlayerType
      <4>2. NULL \notin k.anonymous
        BY <1>4, AccountsAssumption DEF HeapGood, MemType
      <4> QED
        BY <3>2, <3>4, <4>1, <4>2 DEF PlayerType, SamePlayer, KeepsOrLoses
    <3>5. CASE un[q] = player[q] /\ ~(/\ player[q].pState # NULL
                                      /\ ~with.state[player[q].pState].fRegistered
                                      /\ with.state[player[q].pState].szUID = u)
      <4>1. player[q].pState \in with.anonymous =>
                ~with.state[player[q].pState].fRegistered /\ player[q].pState # NULL
        BY <1>2, AccountsAssumption DEF HeapGood, StatesGood, MemType
      <4>2. player[q].pState \in k.anonymous \cup k.registered \cup {NULL}
        BY <1>4, <3>3, <3>5, <4>1
      <4> QED
        BY <3>2, <3>5, <4>2 DEF SamePlayer, KeepsOrLoses
    <3> QED
      BY <3>1, <3>4, <3>5
  <2>3. un = [q \in Players |-> un[q]]
    BY DEF UnlinkAnonymous
  <2> HIDE DEF un
  <2> QED
    BY <2>2, <2>3
<1> HIDE DEF un
<1>12. /\ new \in [Players -> PlayerType]
       /\ \A q \in Players \ {p} : new[q] = un[q]
       /\ new[p] = me
  <2>1. new[p] = [un[p] EXCEPT !.pState = x] /\ \A q \in Players \ {p} : new[q] = un[q]
    BY <1>11
  <2>2. un[p] \in PlayerType /\ SamePlayer(un[p], player[p])
    BY <1>11
  <2>3. /\ new[p] = [connected |-> un[p].connected, object |-> un[p].object, uid |-> un[p].uid,
                     netname |-> un[p].netname, iState |-> un[p].iState, pState |-> x]
        /\ me = [connected |-> player[p].connected, object |-> player[p].object,
                 uid |-> player[p].uid, netname |-> player[p].netname,
                 iState |-> player[p].iState, pState |-> x]
    <3>1. \A y \in PlayerType :
              [y EXCEPT !.pState = x] =
                  [connected |-> y.connected, object |-> y.object, uid |-> y.uid,
                   netname |-> y.netname, iState |-> y.iState, pState |-> x]
      BY DEF PlayerType
    <3> QED
      BY <1>7, <2>1, <2>2, <3>1 DEF me
  <2>4. new[p] = me
    BY <2>2, <2>3 DEF SamePlayer
  <2> QED
    BY <1>8, <1>11, <2>1, <2>4
<1> HIDE DEF new
<1>13. NULL \notin k.anonymous /\ k.anonymous \cap mem.registered = {}
  BY <1>2, <1>4, AccountsAssumption DEF HeapGood, MemType, StatesGood
<1>14. PlayersGood(k, new)
  BY <1>1, <1>5, <1>8, <1>9, <1>11, <1>12, <1>13, OneMoves
<1> QED
  BY <1>2, <1>4, <1>10, <1>14 DEF new, un, k, with, me, n

\* The players when a registration was loaded and nothing else happened.
LEMMA PlayersStay ==
    ASSUME NEW m, NEW pls, PlayersGood(m, pls), NEW k, NEW F, HeapGood(k, F),
           k.anonymous = m.anonymous, m.registered \subseteq k.registered,
           k.logins = m.logins, k.login = m.login
    PROVE  PlayersGood(k, pls)
<1>1. \A p \in Players : Busy(k, pls[p]) = Busy(m, pls[p])
  BY DEF Busy
<1> QED
  BY <1>1 DEF PlayersGood, PlayerGood

LEMMA LoginStep ==
    ASSUME IInv, NEW p \in Players, NEW account \in Accounts, NEW ok \in BOOLEAN,
           NEW a \in NewState(mem), NEW l \in NewLogin(mem),
           Login(p, account, ok, a, l), HeapSuffices(mem')
    PROVE  IInv'
<1> DEFINE me == player[p]
           r == GetRegistration(mem, account, a)
           with == AddLogin(r.mem, l, me.uid, me.netname, r.found)
           u == mem.state[me.pState].szUID
           loggedIn == \E opened \in BOOLEAN :
                           files' = WriteLogin(files, me.uid, me.netname, account, opened)
<1>1. HeapGood(mem, files) /\ FilesAgree /\ PlayersGood(mem, player) /\ mem \in MemType
  BY DEF IInv, HeapGood
<1>2. me.connected /\ me.object /\ me.uid \in UIDs /\ me.netname \in Names
  BY <1>1, OnlyOne DEF Login, TakesCommands
<1>3. \/ mem' = r.mem /\ files' = files /\ player' = player
      \/ r.found # NULL /\ loggedIn /\ mem' = with /\ player' = [player EXCEPT ![p].pState = r.found]
      \/ /\ r.found # NULL /\ loggedIn /\ mem' = DropAnonymous(with, u)
         /\ player' = [UnlinkAnonymous(with, player, u) EXCEPT ![p].pState = r.found]
  BY DEF Login
<1>4. /\ r.mem.anonymous = mem.anonymous /\ r.mem.logins = mem.logins /\ r.mem.login = mem.login
      /\ mem.registered \subseteq r.mem.registered
      /\ HeapSuffices(r.mem) =>
            /\ HeapGood(r.mem, files)
            /\ r.found \in r.mem.registered \cup {NULL}
            /\ r.found # NULL => account \in Filed(files)
  BY <1>1, GetRegistrationGood
<1>5. r.mem = mem \/ r.mem = AddRegistered(mem, a, account)
  BY DEF GetRegistration, Found
<1>6. CASE mem' = r.mem /\ files' = files /\ player' = player
  <2> HIDE DEF r
  <2>1. HeapGood(r.mem, files)
    BY <1>4, <1>6
  <2>2. PlayersGood(r.mem, player)
    BY <1>1, <1>4, <2>1, PlayersStay
  <2>3. FilesAgree'
    BY <1>1, <1>6 DEF FilesAgree
  <2> QED
    BY <1>6, <2>1, <2>2, <2>3 DEF IInv
<1>7. CASE /\ r.found # NULL /\ loggedIn
           /\ \/ mem' = with /\ player' = [player EXCEPT ![p].pState = r.found]
              \/ /\ mem' = DropAnonymous(with, u)
                 /\ player' = [UnlinkAnonymous(with, player, u) EXCEPT ![p].pState = r.found]
  <2>1. HeapSuffices(with) \/ HeapSuffices(DropAnonymous(with, u))
    BY <1>7
  <2>2. l # NULL /\ NULL \notin r.mem.registered
    <3> HIDE DEF r, u, me
    <3> QED
      BY <1>1, <1>5, <2>1, LoginSuffices
  <2>3. l \in LoginAddr \ Range(mem.logins)
    BY <2>2, NewLoginFacts
  <2> HIDE DEF r, u, with, me
  <2>4. NULL \notin mem.anonymous /\ NULL \notin Range(mem.logins)
    BY <1>1, LenProperties, ElementOfSeq, AccountsAssumption DEF MemType, Range
  <2>5. HeapSuffices(r.mem)
    BY <1>4, <2>2, <2>4 DEF HeapSuffices
  <2>6. HeapGood(r.mem, files) /\ r.found \in r.mem.registered
        /\ account \in Filed(files)
    BY <1>4, <1>7, <2>5
  <2>7. l \in LoginAddr \ Range(r.mem.logins)
    BY <1>4, <2>3
  <2>8. /\ HeapGood(with, files)
        /\ PlayersGood(with, [player EXCEPT ![p].pState = r.found])
        /\ HeapGood(DropAnonymous(with, u), files)
        /\ PlayersGood(DropAnonymous(with, u),
                       [UnlinkAnonymous(with, player, u) EXCEPT ![p].pState = r.found])
    BY <1>1, <1>2, <1>4, <2>6, <2>7, LogsIn DEF with, me
  <2>9. HeapGood(mem', files) /\ PlayersGood(mem', player')
    BY <1>7, <2>8
  <2>10. PICK opened \in BOOLEAN : files' = WriteLogin(files, me.uid, me.netname, account, opened)
    BY <1>7
  <2>11. FilesGood(files') /\ Grows(files, files')
    BY <1>1, <1>2, <2>6, <2>10, WriteLoginGood DEF FilesAgree
  <2>12. HeapGood(mem', files')
    BY <2>9, <2>11, HeapKeeps
  <2> QED
    BY <2>9, <2>11, <2>12 DEF IInv, FilesAgree
<1> QED
  BY <1>3, <1>6, <1>7

\* A player who may register has the anonymous record of a client.
LEMMA RegistersAs ==
    ASSUME NEW F, HeapGood(mem, F), PlayersGood(mem, player), NEW p \in Players, MayRegister(p)
    PROVE  /\ player[p].connected /\ player[p].object
           /\ player[p].uid \in UIDs /\ player[p].netname \in Names
           /\ mem.state[player[p].pState].szUID \in UIDs
<1>1. player[p].connected /\ player[p].object
  BY DEF MayRegister, TakesCommands
<1>2. mem.state[player[p].pState].szUID \in UIDs
  BY DEF MayRegister, IsRegistered, HeapGood, StatesGood, PlayersGood, PlayerGood
<1> QED
  BY <1>1, <1>2, OnlyOne

LEMMA RegisterStep ==
    ASSUME IInv, NEW p \in Players, NEW account \in Accounts,
           NEW a \in NewState(mem), NEW l \in NewLogin(mem),
           Register(p, account, a, l), HeapSuffices(mem')
    PROVE  IInv'
<1> DEFINE me == player[p]
           r == GetRegistration(mem, account, a)
           u == mem.state[me.pState].szUID
           new == AddRegistered(mem, a, account)
           with == AddLogin(new, l, u, me.netname, a)
<1>1. HeapGood(mem, files) /\ FilesAgree /\ PlayersGood(mem, player) /\ mem \in MemType
  BY DEF IInv, HeapGood
<1>2. me.connected /\ me.object /\ me.uid \in UIDs /\ me.netname \in Names /\ u \in UIDs
  BY <1>1, RegistersAs DEF Register
<1>3. /\ r.found # NULL => mem' = r.mem /\ files' = files /\ player' = player
      /\ r.found = NULL =>
            /\ mem' = DropAnonymous(with, u)
            /\ \E opened \in Opened :
                   files' = RegisterWrites(files, u, me.netname, account, opened, TRUE)
            /\ player' = [UnlinkAnonymous(with, player, u) EXCEPT ![p].pState = a]
  BY DEF Register
<1>5. /\ r.mem.anonymous = mem.anonymous /\ r.mem.logins = mem.logins /\ r.mem.login = mem.login
      /\ mem.registered \subseteq r.mem.registered
      /\ r.found = NULL => \A x \in mem.registered : mem.state[x].szUID # account
      /\ HeapSuffices(r.mem) => HeapGood(r.mem, files)
  BY <1>1, GetRegistrationGood
<1> HIDE DEF r
<1>6. CASE r.found # NULL
  <2>1. HeapGood(r.mem, files)
    BY <1>3, <1>5, <1>6
  <2>2. PlayersGood(r.mem, player)
    BY <1>1, <1>5, <2>1, PlayersStay
  <2>3. FilesAgree'
    BY <1>1, <1>3, <1>6 DEF FilesAgree
  <2> QED
    BY <1>3, <1>6, <2>1, <2>2, <2>3 DEF IInv
<1>7. CASE r.found = NULL
  <2>1. l # NULL /\ NULL \notin new.registered
    <3> HIDE DEF u, me
    <3> QED
      BY <1>1, <1>3, <1>7, LoginSuffices
  <2>2. a \in Addr \ (mem.anonymous \cup mem.registered) /\ l \in LoginAddr \ Range(mem.logins)
    <3>1. a \in new.registered
      BY <1>1 DEF AddRegistered, MemType
    <3> QED
      BY <2>1, <3>1, NewStateFacts, NewLoginFacts
  <2> HIDE DEF u, me
  <2> DEFINE G == files'
  <2>3. FilesGood(G) /\ Grows(files, G) /\ account \in Filed(G)
    <3>1. PICK opened \in Opened : files' = RegisterWrites(files, u, me.netname, account, opened, TRUE)
      BY <1>3, <1>7
    <3> QED
      BY <1>1, <1>2, <3>1, RegisterWritesGood DEF FilesAgree
  <2> HIDE DEF G
  <2>4. HeapGood(mem, G)
    BY <1>1, <2>3, HeapKeeps
  <2>5. /\ HeapGood(new, G) /\ new.anonymous = mem.anonymous
        /\ new.registered = mem.registered \cup {a}
        /\ new.logins = mem.logins /\ new.login = mem.login
    <3>1. \A x \in mem.registered : mem.state[x].szUID # account
      BY <1>5, <1>7
    <3> QED
      BY <2>2, <2>3, <2>4, <3>1, AddRegisteredGood, SMTT(30)
  <2> HIDE DEF new
  <2>6. /\ a \in new.registered /\ mem.registered \subseteq new.registered
        /\ l \in LoginAddr \ Range(new.logins)
    BY <2>2, <2>5
  <2>7. /\ HeapGood(DropAnonymous(with, u), G)
        /\ PlayersGood(DropAnonymous(with, u),
                       [UnlinkAnonymous(with, player, u) EXCEPT ![p].pState = a])
    BY <1>1, <1>2, <2>5, <2>6, LogsIn DEF me
  <2> HIDE DEF with
  <2> QED
    BY <1>3, <1>7, <2>3, <2>7 DEF IInv, FilesAgree, G
<1> QED
  BY <1>6, <1>7

LEMMA ChangePasswordStep ==
    ASSUME IInv, NEW p \in Players, ChangePassword(p)
    PROVE  IInv'
<1> DEFINE account == mem.state[player[p].pState].szUID
<1>1. HeapGood(mem, files) /\ FilesAgree /\ PlayersGood(mem, player)
  BY DEF IInv
<1>2. /\ mem' = mem /\ player' = player
      /\ \E opened \in BOOLEAN : files' = WritePersist(files, account, opened)
  BY DEF ChangePassword
<1>3. account \in Accounts
  <2>1. player[p].pState \in mem.registered
    BY <1>1 DEF ChangePassword, IsRegistered, HeapGood, StatesGood, PlayersGood, PlayerGood
  <2>2. account \in Filed(files)
    BY <1>1, <2>1 DEF HeapGood, StatesGood
  <2> QED
    BY <1>1, <2>2 DEF Filed, FilesAgree, FilesGood
<1> HIDE DEF account
<1>4. PICK opened \in BOOLEAN : files' = WritePersist(files, account, opened)
  BY <1>2
<1>5. FilesGood(files') /\ Grows(files, files')
  BY <1>1, <1>3, <1>4, WritePersistGood DEF FilesAgree
<1>6. HeapGood(mem, files')
  BY <1>1, <1>5, HeapKeeps
<1> QED
  BY <1>1, <1>2, <1>5, <1>6 DEF IInv, FilesAgree

LEMMA ConnectStep ==
    ASSUME IInv, NEW p \in Players, NEW u \in UIDs, NEW n \in Names, Connect(p, u, n)
    PROVE  IInv'
<1>1. HeapGood(mem, files) /\ FilesAgree /\ PlayersGood(mem, player)
  BY DEF IInv
<1>2. PICK old \in {player[p], NewPlayer} :
          player' = [player EXCEPT ![p] = [old EXCEPT !.connected = TRUE, !.uid = u, !.netname = n]]
  BY DEF Connect
<1> DEFINE x == [old EXCEPT !.connected = TRUE, !.uid = u, !.netname = n]
<1>3. /\ old \in PlayerType /\ old.iState = "UNINITIALIZED"
      /\ old.pState \in mem.anonymous \cup mem.registered \cup {NULL}
  <2>1. CASE old = player[p]
    BY <1>1, <2>1 DEF Connect, PlayersGood, PlayerGood
  <2>2. CASE old = NewPlayer
    BY <2>2 DEF NewPlayer, PlayerType, States
  <2> QED
    BY <1>2, <2>1, <2>2
<1>4. /\ x \in PlayerType /\ x.connected /\ x.uid = u /\ x.netname = n
      /\ x.iState = old.iState /\ x.pState = old.pState
  BY <1>3 DEF PlayerType
<1> HIDE DEF x
<1>5. PlayerGood(mem, x)
  BY <1>3, <1>4 DEF PlayerGood, InGame
<1>6. LoginsFrom(mem, mem, n)
  BY DEF LoginsFrom
<1>7. \A q \in Players \ {p} : player[q].connected => player[q].netname # n
  BY DEF Connect, NameTaken
<1>8. PlayersGood(mem, [player EXCEPT ![p] = x])
  BY <1>1, <1>4, <1>5, <1>6, <1>7, OneChanges
<1>9. mem' = mem /\ files' = files /\ player' = [player EXCEPT ![p] = x]
  BY <1>2 DEF Connect, x
<1> QED
  BY <1>1, <1>8, <1>9 DEF IInv, FilesAgree

LEMMA SpawnPlayerStep ==
    ASSUME IInv, NEW p \in Players, SpawnPlayer(p)
    PROVE  IInv'
<1>1. HeapGood(mem, files) /\ FilesAgree /\ PlayersGood(mem, player)
  BY DEF IInv
<1> DEFINE me == player[p]
           x == [me EXCEPT !.iState = "SPAWNED"]
<1>2. /\ me \in PlayerType /\ PlayerGood(mem, me) /\ me.connected /\ me.iState = "SPECTATOR_BEGIN"
      /\ \A q \in Players \ {p} : player[q].connected => player[q].netname # me.netname
  BY <1>1, OnlyOne DEF SpawnPlayer, PlayersGood
<1> HIDE DEF me
<1>3. /\ x \in PlayerType /\ x.connected /\ x.uid = me.uid /\ x.netname = me.netname
      /\ x.object = me.object /\ x.iState = "SPAWNED" /\ x.pState = me.pState
  BY <1>2 DEF PlayerType, States
<1> HIDE DEF x
<1>4. PlayerGood(mem, x)
  BY <1>2, <1>3 DEF PlayerGood, InGame, Busy
<1>5. LoginsFrom(mem, mem, me.netname)
  BY DEF LoginsFrom
<1>6. PlayersGood(mem, [player EXCEPT ![p] = x])
  BY <1>1, <1>2, <1>3, <1>4, <1>5, OneChanges
<1>7. mem' = mem /\ files' = files /\ player' = [player EXCEPT ![p] = x]
  BY DEF SpawnPlayer, x, me
<1> QED
  BY <1>1, <1>6, <1>7 DEF IInv, FilesAgree

LEMMA DisconnectStep ==
    ASSUME IInv, NEW p \in Players, Disconnect(p)
    PROVE  IInv'
<1>1. HeapGood(mem, files) /\ FilesAgree /\ PlayersGood(mem, player)
  BY DEF IInv
<1> DEFINE x == [player[p] EXCEPT !.connected = FALSE, !.uid = NULL, !.netname = NULL,
                                  !.iState = "UNINITIALIZED"]
           new == [player EXCEPT ![p] = x]
<1>2. /\ x \in PlayerType /\ ~x.connected /\ x.iState = "UNINITIALIZED"
      /\ x.pState = player[p].pState
  BY <1>1 DEF PlayersGood, PlayerType, States
<1> HIDE DEF x
<1>3. PlayerGood(mem, x)
  BY <1>1, <1>2 DEF PlayersGood, PlayerGood, InGame
<1>4. new \in [Players -> PlayerType] /\ new[p] = x /\ \A q \in Players \ {p} : new[q] = player[q]
  BY <1>1, <1>2 DEF PlayersGood
<1> HIDE DEF new
<1>5. PlayersGood(mem, new)
  BY <1>1, <1>2, <1>3, <1>4 DEF PlayersGood
<1>6. mem' = mem /\ files' = files /\ player' = new
  BY DEF Disconnect, new, x
<1> QED
  BY <1>1, <1>5, <1>6 DEF IInv, FilesAgree

-----------------------------------------------------------------------------
(* The server *)

LEMMA EmptyMemGood ==
    ASSUME NEW F
    PROVE  /\ HeapGood(EmptyMem, F)
           /\ EmptyMem.anonymous = {} /\ EmptyMem.registered = {} /\ EmptyMem.logins = <<>>
<1>1. /\ EmptyMem.anonymous = {} /\ EmptyMem.registered = {} /\ EmptyMem.logins = <<>>
      /\ EmptyMem \in MemType
  BY DEF EmptyMem, MemType
<1> QED
  BY <1>1 DEF HeapGood, StatesGood, LoginsGood

LEMMA NewPlayerGood ==
    ASSUME NEW m
    PROVE  NewPlayer \in PlayerType /\ PlayerGood(m, NewPlayer) /\ ~NewPlayer.connected
  BY DEF NewPlayer, PlayerType, States, PlayerGood, InGame

LEMMA InitIInv == Init => IInv
<1> SUFFICES ASSUME Init PROVE IInv
  OBVIOUS
<1>1. HeapGood(mem, files)
  BY EmptyMemGood DEF Init
<1>2. FilesAgree
  BY DEF Init, FilesAgree, FilesGood
<1>3. PlayersGood(mem, player)
  BY NewPlayerGood DEF Init, PlayersGood
<1> QED
  BY <1>1, <1>2, <1>3 DEF IInv

LEMMA LevelChangeStep == IInv /\ LevelChange => IInv'
<1> SUFFICES ASSUME IInv, LevelChange PROVE IInv'
  OBVIOUS
<1>1. HeapGood(mem, files) /\ FilesAgree /\ PlayersGood(mem, player)
  BY DEF IInv
<1>2. PICK kept \in BOOLEAN :
          player' = [p \in Players |->
                        [player[p] EXCEPT !.object = player[p].object /\ kept,
                                          !.iState = "UNINITIALIZED", !.pState = NULL]]
  BY Zenon DEF LevelChange
<1> DEFINE x(p) == [player[p] EXCEPT !.object = player[p].object /\ kept,
                                     !.iState = "UNINITIALIZED", !.pState = NULL]
<1>3. ASSUME NEW p \in Players
      PROVE  /\ x(p) \in PlayerType /\ PlayerGood(mem, x(p))
             /\ x(p).connected = player[p].connected /\ x(p).netname = player[p].netname
  <2>1. player[p] \in PlayerType /\ PlayerGood(mem, player[p])
    BY <1>1 DEF PlayersGood
  <2>2. (player[p].object /\ kept) \in BOOLEAN
    OBVIOUS
  <2>3. /\ x(p) \in PlayerType /\ x(p).iState = "UNINITIALIZED" /\ x(p).pState = NULL
        /\ x(p).connected = player[p].connected /\ x(p).netname = player[p].netname
        /\ x(p).uid = player[p].uid
    BY <2>1, <2>2 DEF PlayerType, States
  <2> HIDE DEF x
  <2> QED
    BY <2>1, <2>3 DEF PlayerGood, InGame
<1>4. player' = [p \in Players |-> x(p)]
  BY <1>2
<1> HIDE DEF x
<1>5. PlayersGood(mem, player')
  BY <1>1, <1>3, <1>4 DEF PlayersGood
<1> QED
  BY <1>1, <1>5 DEF IInv, LevelChange, FilesAgree

LEMMA ClearListsStep == IInv /\ ClearLists => IInv'
<1> SUFFICES ASSUME IInv, ClearLists PROVE IInv'
  OBVIOUS
<1>1. FilesAgree /\ PlayersGood(mem, player)
  BY DEF IInv
<1>2. mem' = EmptyMem /\ files' = files /\ player' = [q \in Players |-> [player[q] EXCEPT !.pState = NULL]]
  BY DEF ClearLists, UnlinkAll
<1>3. ASSUME NEW q \in Players
      PROVE  /\ [player[q] EXCEPT !.pState = NULL] \in PlayerType
             /\ PlayerGood(EmptyMem, [player[q] EXCEPT !.pState = NULL])
             /\ [player[q] EXCEPT !.pState = NULL].connected = player[q].connected
             /\ [player[q] EXCEPT !.pState = NULL].netname = player[q].netname
  <2>1. player[q] \in PlayerType /\ PlayerGood(mem, player[q])
    BY <1>1 DEF PlayersGood
  <2> DEFINE y == [player[q] EXCEPT !.pState = NULL]
  <2>2. y \in PlayerType /\ y.pState = NULL /\ SamePlayer(y, player[q])
    BY <2>1 DEF PlayerType, SamePlayer
  <2> HIDE DEF y
  <2>3. PlayerGood(EmptyMem, y) /\ y.connected = player[q].connected /\ y.netname = player[q].netname
    BY <2>1, <2>2, EmptyMemGood DEF PlayerGood, SamePlayer, Busy
  <2> QED
    BY <2>2, <2>3 DEF y
<1>4. PlayersGood(EmptyMem, player')
  BY <1>1, <1>2, <1>3 DEF PlayersGood
<1> QED
  BY <1>1, <1>2, <1>4, EmptyMemGood DEF IInv, FilesAgree

LEMMA RestartStep == IInv /\ Restart => IInv'
<1> SUFFICES ASSUME IInv, Restart PROVE IInv'
  OBVIOUS
<1>1. mem' = EmptyMem /\ files' = files /\ player' = [p \in Players |-> NewPlayer]
  BY DEF Restart
<1>2. PlayersGood(EmptyMem, [p \in Players |-> NewPlayer])
  BY NewPlayerGood DEF PlayersGood
<1> QED
  BY <1>1, <1>2, EmptyMemGood DEF IInv, FilesAgree

LEMMA RegisterCrashStep ==
    ASSUME IInv, NEW p \in Players, NEW account \in Accounts, RegisterCrash(p, account)
    PROVE  IInv'
<1> DEFINE u == mem.state[player[p].pState].szUID
           n == player[p].netname
<1>1. HeapGood(mem, files) /\ FilesAgree /\ PlayersGood(mem, player)
  BY DEF IInv
<1>2. MayRegister(p) /\ mem' = EmptyMem /\ player' = [q \in Players |-> NewPlayer]
  BY DEF RegisterCrash
<1>3. u \in UIDs /\ n \in Names
  BY <1>1, <1>2, RegistersAs
<1>4. PICK opened \in Opened : files' = RegisterWrites(files, u, n, account, opened, FALSE)
  BY DEF RegisterCrash
<1> HIDE DEF u, n
<1>5. FilesGood(files')
  BY <1>1, <1>3, <1>4, RegisterWritesGood DEF FilesAgree
<1>6. PlayersGood(EmptyMem, [q \in Players |-> NewPlayer])
  BY NewPlayerGood DEF PlayersGood
<1> QED
  BY <1>2, <1>5, <1>6, EmptyMemGood DEF IInv, FilesAgree

\* Other servers change files only.
LEMMA ForeignRegisterStep ==
    ASSUME IInv, NEW account \in Accounts, ForeignRegister(account)
    PROVE  IInv'
<1>1. HeapGood(mem, files) /\ FilesAgree /\ PlayersGood(mem, player)
  BY DEF IInv
<1>2. PICK opened \in BOOLEAN : files' = WritePersist(files, account, opened)
  BY DEF ForeignRegister
<1>3. mem' = mem /\ player' = player
  BY DEF ForeignRegister
<1>4. FilesGood(files') /\ Grows(files, files')
  BY <1>1, <1>2, WritePersistGood DEF FilesAgree
<1>5. HeapGood(mem, files')
  BY <1>1, <1>4, HeapKeeps
<1> QED
  BY <1>1, <1>3, <1>4, <1>5 DEF IInv, FilesAgree

LEMMA ForeignStep ==
    ASSUME IInv, NEW u \in UIDs, NEW n \in Names,
           \/ \E account \in Accounts : ForeignLogin(u, n, account)
           \/ ForeignLogout(u, n)
    PROVE  IInv'
<1>1. HeapGood(mem, files) /\ FilesAgree /\ PlayersGood(mem, player)
  BY DEF IInv
<1>2. mem' = mem /\ player' = player
  BY DEF ForeignLogin, ForeignLogout
<1>3. FilesGood(files') /\ Grows(files, files')
  <2>1. CASE \E account \in Accounts : ForeignLogin(u, n, account)
    <3>1. PICK account \in Accounts :
              /\ account \in Filed(files)
              /\ files' = WriteLogin(files, u, n, account, TRUE)
      BY <2>1 DEF ForeignLogin, Filed
    <3> QED
      BY <1>1, <3>1, WriteLoginGood DEF FilesAgree
  <2>2. CASE ForeignLogout(u, n)
    BY <1>1, <2>2 DEF ForeignLogout, FilesAgree, FilesGood, Filed, Grows
  <2> QED
    BY <2>1, <2>2
<1>4. HeapGood(mem, files')
  BY <1>1, <1>3, HeapKeeps
<1> QED
  BY <1>1, <1>2, <1>3, <1>4 DEF IInv, FilesAgree

LEMMA NextIInv == IInv /\ [Next]_vars => IInv'
<1> SUFFICES ASSUME IInv, [Next]_vars PROVE IInv'
  OBVIOUS
<1>1. ASSUME NEW p \in Players, NEW a \in NewState(mem), NEW l \in NewLogin(mem),
             \/ \E account \in Accounts :
                 \/ Register(p, account, a, l)
                 \/ \E ok \in BOOLEAN : Login(p, account, ok, a, l)
             \/ PutInServer(p, a, l)
             \/ \E n \in Names : UserInfoChanged(p, n, a, l),
             HeapSuffices(mem')
      PROVE  IInv'
  BY <1>1, RegisterStep, LoginStep, PutInServerStep, UserInfoChangedStep, Zenon
<1>2. ASSUME NEW p \in Players, NEW a \in NewState(mem), Logout(p, a), HeapSuffices(mem')
      PROVE  IInv'
  BY <1>2, LogoutStep, Zenon
<1>3. ASSUME NEW p \in Players,
             \/ \E u \in UIDs, n \in Names : Connect(p, u, n)
             \/ SpawnPlayer(p)
             \/ Disconnect(p)
             \/ ChangePassword(p)
             \/ \E account \in Accounts : RegisterCrash(p, account)
      PROVE  IInv'
  BY <1>3, ConnectStep, SpawnPlayerStep, DisconnectStep, ChangePasswordStep, RegisterCrashStep, Zenon
<1>4. CASE LevelChange \/ ClearLists \/ Restart
  BY <1>4, LevelChangeStep, ClearListsStep, RestartStep, Zenon
<1>5. ASSUME NEW u \in UIDs, NEW n \in Names,
             \/ \E account \in Accounts : ForeignLogin(u, n, account)
             \/ ForeignLogout(u, n)
      PROVE  IInv'
  BY <1>5, ForeignStep, Zenon
<1>6. ASSUME NEW account \in Accounts, ForeignRegister(account)
      PROVE  IInv'
  BY <1>6, ForeignRegisterStep, Zenon
<1>7. CASE UNCHANGED vars
  BY <1>7 DEF IInv, FilesAgree, vars
<1> QED
  BY <1>1, <1>2, <1>3, <1>4, <1>5, <1>6, <1>7, Zenon DEF Next

LEMMA SpecIInv == Spec => []IInv
  BY InitIInv, NextIInv, PTL DEF Spec

-----------------------------------------------------------------------------
(* The theorems *)

(***************************************************************************)
(* Heap, files and players have the fields of their code, in particular a  *)
(* login a uid and a nickname in this order.                               *)
(***************************************************************************)
THEOREM AccountsTypeOK == Spec => []TypeOK
<1>1. IInv => TypeOK
  BY DEF IInv, HeapGood, FilesAgree, FilesGood, PlayersGood, MemType, PlayerType, TypeOK
<1> QED
  BY SpecIInv, <1>1, PTL

(***************************************************************************)
(* No pointer of a player or a login dangles, for any number of players,   *)
(* clients and records, whatever address calloc hands out again.           *)
(***************************************************************************)
THEOREM AccountsNoDangling == Spec => []NoDangling
<1>1. ASSUME IInv PROVE NoDangling
  <2>1. HeapGood(mem, files) /\ PlayersGood(mem, player)
    BY <1>1 DEF IInv
  <2>2. \A p \in Players : player[p].pState \in mem.anonymous \cup mem.registered \cup {NULL}
    BY <2>1 DEF PlayersGood, PlayerGood
  <2>3. \A x \in mem.anonymous : mem.state[x] # NULL /\ ~mem.state[x].fRegistered
    BY <2>1, NullAssumption DEF HeapGood, StatesGood
  <2>4. \A x \in mem.registered : mem.state[x] # NULL /\ mem.state[x].fRegistered
    BY <2>1, NullAssumption DEF HeapGood, StatesGood
  <2>5. \A l \in Range(mem.logins) :
            mem.login[l] # NULL /\ mem.login[l].pState \in mem.registered \cup {NULL}
    BY <2>1, NullAssumption DEF HeapGood, LoginsGood, Range
  <2>6. mem.anonymous \cap mem.registered = {}
    BY <2>1 DEF HeapGood, StatesGood
  <2> QED
    BY <2>2, <2>3, <2>4, <2>5, <2>6 DEF NoDangling
<1> QED
  BY SpecIInv, <1>1, PTL

(***************************************************************************)
(* A client has one anonymous record and an account one registered record. *)
(***************************************************************************)
THEOREM AccountsOneRecordEach == Spec => []OneRecordEach
<1>1. IInv => OneRecordEach
  BY DEF IInv, HeapGood, StatesGood, OneRecordEach
<1> QED
  BY SpecIInv, <1>1, PTL

(***************************************************************************)
(* What a login file or a record in memory names has been filed, or its    *)
(* file could not be opened, whatever other servers write, whichever files *)
(* cannot be written and whenever this server ends, also between the two   *)
(* files of a registration; a login in memory has its record until a       *)
(* registration could not be filed.                                        *)
(***************************************************************************)
THEOREM AccountsLoginsResolve == Spec => []LoginsResolve
<1>1. ASSUME IInv PROVE LoginsResolve
  <2>1. HeapGood(mem, files) /\ FilesAgree
    BY <1>1 DEF IInv
  <2>2. \A f \in files.logins : f.account \in files.registrations \cup files.unfiled
    BY <2>1 DEF FilesAgree, FilesGood, Filed
  <2>3. \A x \in mem.registered :
            mem.state[x].szUID \in files.registrations \cup files.unfiled
    BY <2>1 DEF HeapGood, StatesGood, Filed
  <2>4. files.unfiled = {} => \A l \in Range(mem.logins) : mem.login[l].pState # NULL
    BY <2>1 DEF HeapGood, LoginsGood, Range
  <2> QED
    BY <2>2, <2>3, <2>4 DEF LoginsResolve
<1> QED
  BY SpecIInv, <1>1, PTL

(***************************************************************************)
(* Nobody plays with an anonymous record under a nickname that somebody    *)
(* else has logged in.                                                     *)
(***************************************************************************)
THEOREM AccountsNicknameBusy == Spec => []NicknameBusy
<1>1. ASSUME IInv PROVE NicknameBusy
  <2>1. ASSUME NEW p \in Players, NEW l \in Range(mem.logins),
               player[p].iState = "SPAWNED",
               mem.login[l].szName = player[p].netname,
               mem.login[l].szUID # player[p].uid
        PROVE  player[p].pState \notin mem.anonymous
    <3>1. Busy(mem, player[p])
      BY <2>1 DEF Busy, Range
    <3>2. PlayerGood(mem, player[p])
      BY <1>1 DEF IInv, PlayersGood
    <3> QED
      BY <2>1, <3>1, <3>2 DEF PlayerGood, InGame
  <2> QED
    BY <2>1 DEF NicknameBusy
<1> QED
  BY SpecIInv, <1>1, PTL
=============================================================================
