------------------------------ MODULE SoundPool ------------------------------
(***************************************************************************)
(* What CSoundEnt (dlls/soundent.cpp) promises the rest of the game,       *)
(* without its links: which sounds of the pool monsters can find (active), *)
(* which may be handed out (free), and nothing about the order inside a    *)
(* list.  The first MaxClients sounds are reserved, one for each client.   *)
(* SoundEnt implements this module.                                        *)
(***************************************************************************)
EXTENDS Integers, FiniteSets

CONSTANTS
    MaxSounds,   \* MAX_WORLD_SOUNDS, the size of m_SoundPool
    MaxClients   \* gpGlobals->maxClients

ASSUME PoolAssumption ==
    /\ MaxSounds \in Nat
    /\ MaxClients \in 1 .. MaxSounds

VARIABLES
    active,   \* the sounds of the active list
    free      \* the sounds of the free list

vars == <<active, free>>

Pool     == 0 .. (MaxSounds - 1)
Reserved == 0 .. (MaxClients - 1)

TypeOK ==
    /\ active \subseteq Pool
    /\ free \subseteq Pool

Init ==
    /\ active = Reserved
    /\ free = Pool \ Reserved

(* A world sound takes any free slot; with none left it is not made. *)
InsertSound ==
    \E s \in free :
        /\ active' = active \cup {s}
        /\ free' = free \ {s}

(* Sounds that expire, without the exception for the reserved ones. *)
ExpireAny ==
    LET D == active \ active'
    IN  /\ active' \in SUBSET active
        /\ D # {}
        /\ free' = free \cup D

(* Sounds that expire go back to the free list, reserved ones never. *)
Expire ==
    LET D == active \ active'
    IN  /\ active' \in SUBSET active
        /\ D # {}
        /\ D \cap Reserved = {}
        /\ free' = free \cup D

(* Resetting the sound of client c drops the reserved sounds behind it. *)
Reset(c) ==
    /\ c \in active
    /\ active' = active \ (0 .. (c - 1))
    /\ UNCHANGED free

(* A new level starts with a new pool. *)
NewLevel ==
    /\ active' = Reserved
    /\ free' = Pool \ Reserved

Next ==
    \/ InsertSound
    \/ Expire
    \/ \E c \in Reserved : Reset(c)
    \/ NewLevel

Spec == Init /\ [][Next]_vars

-----------------------------------------------------------------------------
(***************************************************************************)
(* No sound is in both lists, every sound that is not reserved is in one   *)
(* of them (the pool never leaks world sounds, whatever Reset cuts off),   *)
(* and a client's sound is never handed out to the world.                  *)
(***************************************************************************)
NoLeak ==
    /\ active \cap free = {}
    /\ Pool \ Reserved \subseteq active \cup free
    /\ Reserved \cap free = {}

(***************************************************************************)
(* The sound of the highest client is always audible: only the reserved    *)
(* sounds of lower numbered clients can be cut off, and once a reserved    *)
(* sound is cut off so is that of every lower client.                      *)
(***************************************************************************)
CutIsInitialSegment ==
    /\ MaxClients - 1 \in active
    /\ \A i, j \in Reserved : i < j /\ i \in active => j \in active

(***************************************************************************)
(* The pool is sound in both respects, whatever is inserted, expires and   *)
(* is reset (CSoundEnt::IAllocSound, FreeSound and CSound::Reset).         *)
(***************************************************************************)
PoolIsSound == NoLeak /\ CutIsInitialSegment
=============================================================================
