--------------------------- MODULE SoundPoolProofs ---------------------------
(***************************************************************************)
(* The promises of the sound list for any size of the pool and any number  *)
(* of clients that fits into it.                                           *)
(***************************************************************************)
EXTENDS SoundPool, TLAPS

\* The inductive invariant: the two promises and the types they talk about.
IInv == TypeOK /\ NoLeak /\ CutIsInitialSegment

LEMMA ReservedInPool == Reserved \subseteq Pool
  BY PoolAssumption DEF Reserved, Pool

LEMMA InitIInv == Init => IInv
  BY ReservedInPool, PoolAssumption
     DEF Init, IInv, TypeOK, NoLeak, CutIsInitialSegment, Reserved

LEMMA NextIInv == IInv /\ [Next]_vars => IInv'
<1> SUFFICES ASSUME IInv, [Next]_vars PROVE IInv'
  OBVIOUS
<1> USE DEF IInv, TypeOK, NoLeak, CutIsInitialSegment
<1>1. CASE InsertSound
  BY <1>1 DEF InsertSound
<1>2. CASE Expire
  BY <1>2, PoolAssumption DEF Expire, Reserved
<1>3. ASSUME NEW c \in Reserved, Reset(c) PROVE IInv'
  <2>1. MaxClients - 1 \in active'
    BY <1>3, PoolAssumption DEF Reset, Reserved
  <2>2. \A i, j \in Reserved : i < j /\ i \in active' => j \in active'
    BY <1>3, PoolAssumption DEF Reset, Reserved
  <2>3. Pool \ Reserved \subseteq active' \cup free'
    BY <1>3, PoolAssumption DEF Reset, Reserved
  <2> QED
    BY <1>3, <2>1, <2>2, <2>3 DEF Reset
<1>4. CASE NewLevel
  BY <1>4, ReservedInPool, PoolAssumption DEF NewLevel, Reserved
<1>5. CASE UNCHANGED vars
  BY <1>5 DEF vars
<1> QED
  BY <1>1, <1>2, <1>3, <1>4, <1>5 DEF Next

(***************************************************************************)
(* The pool never leaks a world sound and never hands out a client's       *)
(* sound, in every reachable state of any instance.                        *)
(***************************************************************************)
THEOREM PoolNoLeak == Spec => []NoLeak
<1>1. IInv => NoLeak
  BY DEF IInv
<1> QED
  BY InitIInv, NextIInv, <1>1, PTL DEF Spec

(***************************************************************************)
(* Only an initial segment of the reserved sounds can be cut off; the      *)
(* highest client is always heard.                                         *)
(***************************************************************************)
THEOREM PoolCutIsInitialSegment == Spec => []CutIsInitialSegment
<1>1. IInv => CutIsInitialSegment
  BY DEF IInv
<1> QED
  BY InitIInv, NextIInv, <1>1, PTL DEF Spec

(***************************************************************************)
(* Both promises of the pool at once, for every size and every number of   *)
(* clients.                                                                *)
(***************************************************************************)
THEOREM PoolSound == Spec => []PoolIsSound
<1>1. IInv => PoolIsSound
  BY DEF IInv, PoolIsSound
<1> QED
  BY InitIInv, NextIInv, <1>1, PTL DEF Spec
=============================================================================
