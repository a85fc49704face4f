------------------------------- MODULE SoundEnt -------------------------------
(***************************************************************************)
(* The world's sound list: dlls/soundent.cpp with its users, that is       *)
(* CBaseMonster::Listen (monsters.cpp), the reserved sounds of the clients *)
(* (player.cpp, client.cpp) and the reload of a level (world.cpp).         *)
(*                                                                         *)
(* m_SoundPool is an array of CSound threaded by m_iNext into a free and   *)
(* an active list; m_iNextAudible threads the sounds a monster heard.  The *)
(* monsters share that second link.  Origin and volume decide who hears    *)
(* what and are abstracted to the choice of the set heard; m_iType is      *)
(* abstracted to whether it is nonzero.  Time is counted in units.         *)
(***************************************************************************)
EXTENDS Integers

CONSTANTS
    MaxSounds,    \* MAX_WORLD_SOUNDS
    MaxClients,   \* gpGlobals->maxClients
    Monsters,     \* the monsters that listen
    Durations,    \* the values of flDuration that InsertSound gets
    MaxTime       \* bound of the model: the last value of gpGlobals->time

ASSUME SoundAssumption ==
    /\ MaxSounds \in Nat
    /\ MaxClients \in 1 .. MaxSounds
    /\ Durations \subseteq Nat
    /\ MaxTime \in Nat

EMPTY        == -1   \* SOUNDLIST_EMPTY
NEVER_EXPIRE == -1   \* SOUND_NEVER_EXPIRE

VARIABLES
    list,      \* [next, active, free]: m_iNext, m_iActiveSound, m_iFreeSound
    expire,    \* m_flExpireTime of every sound
    audible,   \* m_iNextAudible of every sound
    loud,      \* m_iType # 0
    heard,     \* m_iAudibleList of every monster
    now        \* gpGlobals->time

vars == <<list, expire, audible, loud, heard, now>>

Pool     == 0 .. (MaxSounds - 1)
Reserved == 0 .. (MaxClients - 1)
Index    == Pool \cup {EMPTY}

TypeOK ==
    /\ list \in [next : [Pool -> Index], active : Index, free : Index]
    /\ expire \in [Pool -> Int]
    /\ audible \in [Pool -> Index]
    /\ loud \in [Pool -> BOOLEAN]
    /\ heard \in [Monsters -> Index]
    /\ now \in 0 .. MaxTime

-----------------------------------------------------------------------------
(* Walking a list                                                           *)

\* The n-th index of the loop "while( i != SOUNDLIST_EMPTY ) i = link[i]",
\* which stays EMPTY once it is.
Walk(link, head) ==
    LET succ == [i \in Index |-> IF i = EMPTY THEN EMPTY ELSE link[i]]
        index[n \in 0 .. MaxSounds] == IF n = 0 THEN head ELSE succ[index[n - 1]]
    IN  index

Ends(link, head) == Walk(link, head)[MaxSounds] = EMPTY

\* The sounds the loop visits (each once if the list ends).
Visited(link, head) == {Walk(link, head)[n] : n \in Pool} \ {EMPTY}

ActiveSounds == Visited(list.next, list.active)
FreeSounds   == Visited(list.next, list.free)

-----------------------------------------------------------------------------
(* The operations on the lists                                              *)

\* IAllocSound, when the free list is not empty.
Alloc(l) ==
    [next   |-> [l.next EXCEPT ![l.free] = l.active],
     active |-> l.free,
     free   |-> l.next[l.free]]

\* FreeSound that forgets to repair the link of the previous sound.
FreeSoundKeepsPrev(l, s, prev) ==
    LET unlinked == IF prev # EMPTY THEN l ELSE [l EXCEPT !.active = l.next[s]]
    IN  [unlinked EXCEPT !.next[s] = l.free, !.free = s]

\* FreeSound( iSound, iPrevious )
FreeSound(l, s, prev) ==
    LET unlinked == IF prev # EMPTY
                    THEN [l EXCEPT !.next[prev] = l.next[s]]
                    ELSE [l EXCEPT !.active = l.next[s]]
    IN  [unlinked EXCEPT !.next[s] = l.free, !.free = s]

\* The links without the terminator that Initialize writes last.
AllFreeUnterminated ==
    [next |-> [s \in Pool |-> s + 1], active |-> EMPTY, free |-> 0]

\* The part of Initialize that links all sounds into the free list.
AllFree ==
    [next   |-> [s \in Pool |-> IF s + 1 \in Pool THEN s + 1 ELSE EMPTY],
     active |-> EMPTY,
     free   |-> 0]

\* Initialize reserves one sound for each client.
InitialList ==
    LET reserved[n \in 0 .. MaxClients] ==
            IF n = 0 THEN AllFree ELSE Alloc(reserved[n - 1])
    IN  reserved[MaxClients]

\* The same without the mark on the reserved sounds.
InitialExpireUnmarked == [s \in Pool |-> 0]

InitialExpire == [s \in Pool |-> IF s \in Reserved THEN NEVER_EXPIRE ELSE 0]

Init ==
    /\ list = InitialList
    /\ expire = InitialExpire
    /\ audible = [s \in Pool |-> 0]
    /\ loud = [s \in Pool |-> FALSE]
    /\ heard = [m \in Monsters |-> 0]
    /\ now = 0

\* Somebody makes a noise: InsertSound, from the weapons, monsters and doors.
InsertSound(d) ==
    /\ list.free # EMPTY
    /\ list' = Alloc(list)
    /\ expire' = [expire EXCEPT ![list.free] = now + d]
    /\ loud' = [loud EXCEPT ![list.free] = TRUE]
    /\ UNCHANGED <<audible, heard, now>>

\* An expired sound that is freed only from the head of the active list.
ExpiredHead(s) == expire[s] <= now /\ expire[s] # NEVER_EXPIRE /\ s = list.active

Expired(s) == expire[s] <= now /\ expire[s] # NEVER_EXPIRE

\* Think at sound s (or after the end): w.l are the lists, w.prev is the last
\* sound that stayed.
ThinkAt(w, s) ==
    IF s = EMPTY THEN w
    ELSE IF Expired(s) THEN [w EXCEPT !.l = FreeSound(w.l, s, w.prev)]
    ELSE [w EXCEPT !.prev = s]

\* CSoundEnt::Think walks the active list once and frees what has expired.
\* What it frees lies behind it: it visits the list as it was.
Think ==
    LET active == Walk(list.next, list.active)
        walked[n \in 0 .. MaxSounds] ==
            IF n = 0 THEN [l |-> list, prev |-> EMPTY]
            ELSE ThinkAt(walked[n - 1], active[n - 1])
    IN  /\ list' = walked[MaxSounds].l
        /\ UNCHANGED <<expire, audible, loud, heard, now>>

\* CSound::Reset on the sound of client c, when it dies or disconnects.
Reset(l, c) == [l EXCEPT !.next[c] = EMPTY]

ClientReset(c) ==
    /\ list' = Reset(list, c)
    /\ loud' = [loud EXCEPT ![c] = FALSE]
    /\ UNCHANGED <<expire, audible, heard, now>>

\* CBasePlayer::UpdatePlayerSound, each frame of a living client.
UpdatePlayerSound(c) ==
    /\ loud' = [loud EXCEPT ![c] = TRUE]
    /\ UNCHANGED <<list, expire, audible, heard, now>>

\* A Listen that goes on from the list of the last one.
ListenStartStale(m) == heard[m]

\* The head of the list Listen builds before it has heard anything.
ListenStart(m) == EMPTY

\* Listen at sound s: a sound of H becomes the head of the list it builds.
ListenAt(w, s, H) ==
    IF s \in H
    THEN [aud |-> [w.aud EXCEPT ![s] = w.head], head |-> s]
    ELSE w

\* CBaseMonster::Listen links the sounds H the monster can hear, newest first.
Listen(m, H) ==
    LET active == Walk(list.next, list.active)
        walked[n \in 0 .. MaxSounds] ==
            IF n = 0 THEN [aud |-> audible, head |-> ListenStart(m)]
            ELSE ListenAt(walked[n - 1], active[n - 1], H)
    IN  /\ audible' = walked[MaxSounds].aud
        /\ heard' = [heard EXCEPT ![m] = walked[MaxSounds].head]
        /\ UNCHANGED <<list, expire, loud, now>>

\* A level is loaded: CWorld::Precache makes a new sound entity and the
\* monsters get a zeroed m_iAudibleList, which is not SOUNDLIST_EMPTY.
LoadLevel ==
    /\ list' = InitialList
    /\ expire' = InitialExpire
    /\ audible' = [s \in Pool |-> 0]
    /\ loud' = [s \in Pool |-> FALSE]
    /\ heard' = [m \in Monsters |-> 0]
    /\ UNCHANGED now

Tick ==
    /\ now < MaxTime
    /\ now' = now + 1
    /\ UNCHANGED <<list, expire, audible, loud, heard>>

Audible == {s \in ActiveSounds : loud[s]}

Next ==
    \/ \E d \in Durations : InsertSound(d)
    \/ Think
    \/ \E c \in Reserved : ClientReset(c)
    \/ \E c \in Reserved : UpdatePlayerSound(c)
    \/ \E m \in Monsters : \E H \in SUBSET Audible : Listen(m, H)
    \/ LoadLevel
    \/ Tick

\* Think runs again 0.3 seconds after each run, whatever else happens.
Spec == Init /\ [][Next]_vars /\ WF_vars(Think)

-----------------------------------------------------------------------------
(* Properties                                                               *)

(***************************************************************************)
(* The loops that walk the active or the free list end, and no sound is on *)
(* both lists (FreeSound: "TAKE CARE to only call this function for sounds *)
(* in the Active list").                                                   *)
(***************************************************************************)
ListsAreSound ==
    /\ Ends(list.next, list.active)
    /\ Ends(list.next, list.free)
    /\ ActiveSounds \cap FreeSounds = {}

(***************************************************************************)
(* The walk over a monster's audible list (PBestSound, PBestScent) ends    *)
(* although all monsters share m_iNextAudible and sounds are freed, reused *)
(* and reordered between two Listens of the same monster.  The exception   *)
(* is a monster that has not listened since the load: its list still is    *)
(* sound 0, whose link is 0 until some monster hears it.                   *)
(***************************************************************************)
AudibleWalkEnds ==
    \A m \in Monsters :
        \/ Ends(audible, heard[m])
        \/ heard[m] = 0 /\ audible[0] = 0

(***************************************************************************)
(* An expired world sound does not stay in the active list for ever.       *)
(***************************************************************************)
ExpiredIsFreed ==
    \A s \in Pool \ Reserved :
        (s \in ActiveSounds /\ expire[s] <= now) ~> (s \in FreeSounds)

(***************************************************************************)
(* The linked lists implement the pool: each step moves sounds as one of   *)
(* the abstract operations does.                                           *)
(***************************************************************************)
Abstract == INSTANCE SoundPool WITH
    active <- ActiveSounds,
    free <- FreeSounds

ImplementsPool == Abstract!Spec
=============================================================================
