---------------------------- MODULE SoundEntProofs ----------------------------
(***************************************************************************)
(* The linked lists of the sounds are sound and implement SoundPool, and   *)
(* every walk over an audible list ends, for any number of sounds, clients *)
(* and monsters.                                                           *)
(***************************************************************************)
EXTENDS SoundEnt, FiniteSetTheorems, DataLemmas

-----------------------------------------------------------------------------
(* Numbers *)

LEMMA Sizes ==
    /\ MaxSounds \in Nat
    /\ MaxClients \in Nat
    /\ 1 <= MaxClients
    /\ MaxClients <= MaxSounds
    /\ Reserved \subseteq Pool
    /\ Pool \subseteq Nat
    /\ EMPTY \notin Pool
    /\ EMPTY \in Index
    /\ Pool \subseteq Index
  BY SoundAssumption DEF Reserved, Pool, Index, EMPTY

-----------------------------------------------------------------------------
(* What a walk visits                                                       *)

\* Every walk follows the links.
LEMMA WalkSteps ==
    ASSUME NEW link \in [Pool -> Index], NEW head \in Index
    PROVE  /\ Walk(link, head) \in [0 .. MaxSounds -> Index]
           /\ Walk(link, head)[0] = head
           /\ \A n \in 1 .. MaxSounds :
                  Walk(link, head)[n] =
                      IF Walk(link, head)[n - 1] = EMPTY THEN EMPTY
                      ELSE link[Walk(link, head)[n - 1]]
<1> DEFINE succ == [i \in Index |-> IF i = EMPTY THEN EMPTY ELSE link[i]]
           step == [n \in 1 .. MaxSounds |-> succ]
           Is(f) == f = [n \in 0 .. MaxSounds |->
                            IF n = 0 THEN head ELSE succ[f[n - 1]]]
           index == CHOOSE f : Is(f)
<1>1. succ \in [Index -> Index]
  BY Sizes DEF Index
<1>2. Walk(link, head) = index
  BY DEF Walk
<1> HIDE DEF succ
<1>3. step \in [1 .. MaxSounds -> [Index -> Index]]
  BY <1>1
<1>4. PICK f : Solves(f, MaxSounds, Index, head, step)
  <2>1. MaxSounds \in Nat
    BY Sizes
  <2> HIDE DEF step
  <2> QED
    BY <1>3, <2>1, RecursionExists
<1>5. Is(f)
  BY <1>4, Sizes DEF Solves
<1>6. Is(index)
  BY <1>5
<1> HIDE DEF index
<1>7. index[0] = head /\ \A n \in 1 .. MaxSounds : index[n] = succ[index[n - 1]]
  <2>1. MaxSounds \in Nat
    BY Sizes
  <2>2. index = [n \in 0 .. MaxSounds |-> IF n = 0 THEN head ELSE succ[index[n - 1]]]
    BY <1>6
  <2>3. \A n \in 0 .. MaxSounds : index[n] = IF n = 0 THEN head ELSE succ[index[n - 1]]
    BY <2>2
  <2>4. 0 \in 0 .. MaxSounds /\ \A n \in 1 .. MaxSounds : n \in 0 .. MaxSounds /\ n # 0
    BY <2>1
  <2> QED
    BY <2>3, <2>4
<1>8. \A n \in 0 .. MaxSounds : n \in {j \in 0 .. MaxSounds : index[j] \in Index}
  <2> DEFINE T == {j \in 0 .. MaxSounds : index[j] \in Index}
  <2>1. 0 \in T
    BY <1>7, Sizes
  <2>2. \A n \in 1 .. MaxSounds : n - 1 \in T => n \in T
    BY <1>1, <1>7
  <2> HIDE DEF T
  <2>3. \A n \in 0 .. MaxSounds : n \in T
    BY <2>1, <2>2, Sizes, Induct
  <2> QED
    BY <2>3 DEF T
<1>9. index \in [0 .. MaxSounds -> Index]
  BY <1>6, <1>8
<1>10. ASSUME NEW n \in 1 .. MaxSounds
       PROVE  index[n] = IF index[n - 1] = EMPTY THEN EMPTY ELSE link[index[n - 1]]
  <2>1. index[n - 1] \in Index
    BY <1>9, Sizes
  <2> QED
    BY <1>7, <2>1 DEF succ
<1> QED
  BY <1>2, <1>7, <1>9, <1>10

\* The list that starts at head is p[1], ..., p[k], each sound once.
Path(link, head, k, p) ==
    /\ k \in Nat
    /\ p \in [1 .. k -> Pool]
    /\ \A i, j \in 1 .. k : p[i] = p[j] => i = j
    /\ head = IF k = 0 THEN EMPTY ELSE p[1]
    /\ \A i \in 1 .. k : link[p[i]] = IF i = k THEN EMPTY ELSE p[i + 1]

Members(k, p) == {p[i] : i \in 1 .. k}

\* A list is not longer than the pool.
LEMMA PathFits ==
    ASSUME NEW link, NEW head, NEW k, NEW p, Path(link, head, k, p)
    PROVE  k \in 0 .. MaxSounds
<1>1. /\ IsFiniteSet(1 .. k) /\ Cardinality(1 .. k) = k
      /\ IsFiniteSet(Pool) /\ Cardinality(Pool) = MaxSounds
  <2>1. k \in Nat /\ Cardinality(1 .. k) = k /\ IsFiniteSet(1 .. k)
    BY FS_Interval DEF Path
  <2>2. Cardinality(0 .. MaxSounds - 1) = MaxSounds /\ IsFiniteSet(0 .. MaxSounds - 1)
    BY Sizes, FS_Interval
  <2> QED
    BY <2>1, <2>2 DEF Pool
<1>2. ~ (MaxSounds < k)
  <2> SUFFICES ASSUME MaxSounds < k PROVE FALSE
    OBVIOUS
  <2>1. p \in [1 .. k -> Pool]
    BY DEF Path
  <2>2. \E i, j \in 1 .. k : i # j /\ p[i] = p[j]
    BY <1>1, <2>1, FS_PigeonHole
  <2> QED
    BY <2>2 DEF Path
<1> QED
  BY <1>2, Sizes DEF Path

\* The walk visits the members of the list in order, then stays EMPTY.
LEMMA WalkOfPath ==
    ASSUME NEW link \in [Pool -> Index], NEW head \in Index,
           NEW k, NEW p, Path(link, head, k, p)
    PROVE  \A n \in 0 .. MaxSounds :
               Walk(link, head)[n] = IF n < k THEN p[n + 1] ELSE EMPTY
<1> DEFINE w == Walk(link, head)
           is(n) == IF n < k THEN p[n + 1] ELSE EMPTY
           T == {n \in 0 .. MaxSounds : w[n] = is(n)}
<1>1. /\ w[0] = head
      /\ \A n \in 1 .. MaxSounds :
             w[n] = IF w[n - 1] = EMPTY THEN EMPTY ELSE link[w[n - 1]]
  BY WalkSteps
<1> HIDE DEF w
<1>2. 0 \in T
  BY <1>1, Sizes DEF Path
<1>3. ASSUME NEW n \in 1 .. MaxSounds, n - 1 \in T PROVE n \in T
  <2>1. w[n - 1] = is(n - 1)
    BY <1>3
  <2>2. CASE n - 1 < k
    <3>1. n \in 1 .. k /\ w[n - 1] = p[n] /\ p[n] \in Pool
      BY <2>1, <2>2 DEF Path
    <3>2. w[n] = link[p[n]]
      BY <1>1, <3>1, Sizes
    <3> QED
      BY <3>1, <3>2 DEF Path
  <2>3. CASE ~(n - 1 < k)
    <3>1. w[n - 1] = EMPTY /\ ~(n < k)
      BY <2>1, <2>3 DEF Path
    <3> QED
      BY <1>1, <3>1
  <2> QED
    BY <2>2, <2>3
<1> HIDE DEF T
<1>4. \A n \in 0 .. MaxSounds : n \in T
  BY <1>2, <1>3, Sizes, Induct
<1> QED
  BY <1>4 DEF T, w

\* So it ends, and visits exactly the members.
LEMMA VisitedOfPath ==
    ASSUME NEW link \in [Pool -> Index], NEW head \in Index,
           NEW k, NEW p, Path(link, head, k, p)
    PROVE  /\ Ends(link, head)
           /\ Visited(link, head) = Members(k, p)
<1>1. k \in 0 .. MaxSounds /\ p \in [1 .. k -> Pool]
  <2>1. k \in 0 .. MaxSounds
    BY PathFits
  <2> QED
    BY <2>1 DEF Path
<1>2. \A n \in 0 .. MaxSounds :
          Walk(link, head)[n] = IF n < k THEN p[n + 1] ELSE EMPTY
  BY WalkOfPath
<1>3. Ends(link, head)
  BY <1>1, <1>2, Sizes DEF Ends
<1>4. ASSUME NEW s \in Visited(link, head) PROVE s \in Members(k, p)
  <2>1. PICK n \in Pool : s = Walk(link, head)[n] /\ s # EMPTY
    BY DEF Visited
  <2>2. n \in 0 .. MaxSounds
    BY Sizes DEF Pool
  <2>3. n < k /\ s = p[n + 1]
    BY <1>2, <2>1, <2>2
  <2> QED
    BY <1>1, <2>2, <2>3 DEF Members
<1>5. ASSUME NEW s \in Members(k, p) PROVE s \in Visited(link, head)
  <2>1. PICK i \in 1 .. k : s = p[i]
    BY DEF Members
  <2>2. i - 1 \in Pool /\ i - 1 \in 0 .. MaxSounds /\ i - 1 < k
    BY <1>1, Sizes DEF Pool
  <2>3. Walk(link, head)[i - 1] = s /\ s # EMPTY
    BY <1>1, <1>2, <2>1, <2>2, Sizes
  <2> QED
    BY <2>2, <2>3 DEF Visited
<1> QED
  BY <1>3, <1>4, <1>5

-----------------------------------------------------------------------------
(* What the operations do to the lists                                      *)

ListType == [next : [Pool -> Index], active : Index, free : Index]

\* The active list is pa[1 .. ka], the free one pf[1 .. kf], with no sound on both.
Threaded(l, ka, pa, kf, pf) ==
    /\ Path(l.next, l.active, ka, pa)
    /\ Path(l.next, l.free, kf, pf)
    /\ \A i \in 1 .. ka : \A j \in 1 .. kf : pa[i] # pf[j]

\* The list p[1 .. k] with s put before it, without its head, without its j-th sound.
Pushed(s, k, p)  == [i \in 1 .. k + 1 |-> IF i = 1 THEN s ELSE p[i - 1]]
Popped(k, p)     == [i \in 1 .. k - 1 |-> p[i + 1]]
Without(j, k, p) == [i \in 1 .. k - 1 |-> IF i < j THEN p[i] ELSE p[i + 1]]

\* IAllocSound moves the head of the free list to the head of the active one.
LEMMA AllocThreads ==
    ASSUME NEW l \in ListType, NEW ka, NEW pa, NEW kf, NEW pf,
           Threaded(l, ka, pa, kf, pf), l.free # EMPTY
    PROVE  /\ kf >= 1
           /\ l.free = pf[1]
           /\ l.free \in Pool
           /\ Alloc(l) \in ListType
           /\ Alloc(l).next = [l.next EXCEPT ![l.free] = l.active]
           /\ Threaded(Alloc(l), ka + 1, Pushed(pf[1], ka, pa), kf - 1, Popped(kf, pf))
<1> DEFINE a == Alloc(l)
           qa == [i \in 1 .. ka + 1 |-> IF i = 1 THEN pf[1] ELSE pa[i - 1]]
           qf == [i \in 1 .. kf - 1 |-> pf[i + 1]]
<1>1. /\ ka \in Nat /\ kf \in Nat
      /\ pa \in [1 .. ka -> Pool] /\ pf \in [1 .. kf -> Pool]
      /\ \A i, j \in 1 .. ka : pa[i] = pa[j] => i = j
      /\ \A i, j \in 1 .. kf : pf[i] = pf[j] => i = j
      /\ l.active = IF ka = 0 THEN EMPTY ELSE pa[1]
      /\ l.free = IF kf = 0 THEN EMPTY ELSE pf[1]
      /\ \A i \in 1 .. ka : l.next[pa[i]] = IF i = ka THEN EMPTY ELSE pa[i + 1]
      /\ \A i \in 1 .. kf : l.next[pf[i]] = IF i = kf THEN EMPTY ELSE pf[i + 1]
      /\ \A i \in 1 .. ka : \A j \in 1 .. kf : pa[i] # pf[j]
  BY DEF Threaded, Path
<1>2. kf \in Nat /\ kf # 0 /\ l.free = pf[1] /\ 1 \in 1 .. kf /\ pf[1] \in Pool
  BY <1>1
<1>3. l.next \in [Pool -> Index] /\ l.active \in Index /\ l.next[l.free] \in Index
  BY <1>2 DEF ListType
<1>4. /\ a.next = [l.next EXCEPT ![l.free] = l.active]
      /\ a.active = l.free
      /\ a.free = l.next[l.free]
      /\ a \in ListType
  BY <1>2, <1>3, Sizes DEF Alloc, ListType
<1> HIDE DEF a
<1>5. Path(a.next, a.active, ka + 1, qa)
  <2>1. ka + 1 \in Nat /\ qa \in [1 .. ka + 1 -> Pool]
    BY <1>1, <1>2
  <2>2. ASSUME NEW i \in 1 .. ka + 1, NEW j \in 1 .. ka + 1, qa[i] = qa[j]
        PROVE  i = j
    BY <1>1, <1>2, <2>2
  <2>3. a.active = IF ka + 1 = 0 THEN EMPTY ELSE qa[1]
    BY <1>1, <1>2, <1>4
  <2>4. ASSUME NEW i \in 1 .. ka + 1
        PROVE  a.next[qa[i]] = IF i = ka + 1 THEN EMPTY ELSE qa[i + 1]
    <3>1. CASE i = 1
      BY <3>1, <1>1, <1>2, <1>3, <1>4
    <3>2. CASE i # 1
      <4>1. i - 1 \in 1 .. ka /\ qa[i] = pa[i - 1] /\ pa[i - 1] # l.free
        BY <3>2, <1>1, <1>2
      <4>2. a.next[qa[i]] = l.next[pa[i - 1]]
        BY <4>1, <1>1, <1>3, <1>4
      <4> QED
        BY <4>1, <4>2, <3>2, <1>1
    <3> QED
      BY <3>1, <3>2
  <2> HIDE DEF qa
  <2> QED
    BY <2>1, <2>2, <2>3, <2>4 DEF Path
<1>6. Path(a.next, a.free, kf - 1, qf)
  <2>1. kf - 1 \in Nat /\ qf \in [1 .. kf - 1 -> Pool]
    BY <1>1, <1>2
  <2>2. ASSUME NEW i \in 1 .. kf - 1, NEW j \in 1 .. kf - 1, qf[i] = qf[j]
        PROVE  i = j
    BY <1>1, <1>2, <2>2
  <2>3. a.free = IF kf - 1 = 0 THEN EMPTY ELSE qf[1]
    BY <1>1, <1>2, <1>4
  <2>4. ASSUME NEW i \in 1 .. kf - 1
        PROVE  a.next[qf[i]] = IF i = kf - 1 THEN EMPTY ELSE qf[i + 1]
    <3>1. i + 1 \in 1 .. kf /\ qf[i] = pf[i + 1] /\ pf[i + 1] # l.free
      BY <1>1, <1>2
    <3>2. a.next[qf[i]] = l.next[pf[i + 1]]
      BY <3>1, <1>1, <1>3, <1>4
    <3> QED
      BY <3>1, <3>2, <1>1
  <2> HIDE DEF qf
  <2> QED
    BY <2>1, <2>2, <2>3, <2>4 DEF Path
<1>7. \A i \in 1 .. ka + 1 : \A j \in 1 .. kf - 1 : qa[i] # qf[j]
  BY <1>1, <1>2
<1>8. kf >= 1
  BY <1>2
<1> HIDE DEF qa, qf
<1>9. Threaded(a, ka + 1, qa, kf - 1, qf)
  BY <1>5, <1>6, <1>7 DEF Threaded
<1> QED
  BY <1>2, <1>4, <1>8, <1>9 DEF a, qa, qf, Pushed, Popped

\* The links after FreeSound.
FreedNext(l, s, prev) ==
    [IF prev # EMPTY THEN [l.next EXCEPT ![prev] = l.next[s]] ELSE l.next
        EXCEPT ![s] = l.free]

\* The fields of the lists after FreeSound.
LEMMA FreeSoundFields ==
    ASSUME NEW l \in ListType, NEW s \in Pool, NEW prev \in Index
    PROVE  /\ FreeSound(l, s, prev) \in ListType
           /\ FreeSound(l, s, prev).next = FreedNext(l, s, prev)
           /\ FreeSound(l, s, prev).active =
                  IF prev # EMPTY THEN l.active ELSE l.next[s]
           /\ FreeSound(l, s, prev).free = s
<1>1. l.next \in [Pool -> Index] /\ l.next[s] \in Index /\ l.active \in Index
      /\ l.free \in Index /\ s \in Index
  BY Sizes DEF ListType
<1>2. CASE prev = EMPTY
  BY <1>1, <1>2 DEF FreeSound, FreedNext, ListType
<1>3. CASE prev # EMPTY
  <2>1. prev \in Pool
    BY <1>3 DEF Index
  <2> QED
    BY <1>1, <1>3, <2>1 DEF FreeSound, FreedNext, ListType
<1> QED
  BY <1>2, <1>3

\* FreeSound unlinks the j-th active sound and makes it the head of the free list.
LEMMA FreeSoundThreads ==
    ASSUME NEW l \in ListType, NEW ka, NEW pa, NEW kf, NEW pf,
           Threaded(l, ka, pa, kf, pf),
           NEW j \in 1 .. ka
    PROVE  Threaded(FreeSound(l, pa[j], IF j = 1 THEN EMPTY ELSE pa[j - 1]),
                    ka - 1, Without(j, ka, pa), kf + 1, Pushed(pa[j], kf, pf))
<1>1. PICK prev : prev = IF j = 1 THEN EMPTY ELSE pa[j - 1]
  OBVIOUS
<1> DEFINE s == pa[j]
           a == FreeSound(l, s, prev)
           qa == [i \in 1 .. ka - 1 |-> IF i < j THEN pa[i] ELSE pa[i + 1]]
           qf == [i \in 1 .. kf + 1 |-> IF i = 1 THEN s ELSE pf[i - 1]]
<1>2. /\ ka \in Nat /\ kf \in Nat
      /\ pa \in [1 .. ka -> Pool] /\ pf \in [1 .. kf -> Pool]
      /\ \A i, k \in 1 .. ka : pa[i] = pa[k] => i = k
      /\ \A i, k \in 1 .. kf : pf[i] = pf[k] => i = k
      /\ l.active = IF ka = 0 THEN EMPTY ELSE pa[1]
      /\ l.free = IF kf = 0 THEN EMPTY ELSE pf[1]
      /\ \A i \in 1 .. ka : l.next[pa[i]] = IF i = ka THEN EMPTY ELSE pa[i + 1]
      /\ \A i \in 1 .. kf : l.next[pf[i]] = IF i = kf THEN EMPTY ELSE pf[i + 1]
      /\ \A i \in 1 .. ka : \A k \in 1 .. kf : pa[i] # pf[k]
  BY DEF Threaded, Path
<1>3. s \in Pool /\ prev \in Index /\ (prev = EMPTY <=> j = 1)
  BY SMTT(20), ZenonT(40), <1>1, <1>2, Sizes
<1>4. l.next \in [Pool -> Index] /\ l.next[s] = IF j = ka THEN EMPTY ELSE pa[j + 1]
  BY <1>2, <1>3 DEF ListType
<1>5. /\ a.next = FreedNext(l, s, prev)
      /\ a.active = IF prev # EMPTY THEN l.active ELSE l.next[s]
      /\ a.free = s
  <2> HIDE DEF s
  <2> QED
    BY <1>3, FreeSoundFields
<1> HIDE DEF a
<1>6. \A i \in 1 .. ka : i # j => pa[i] # s /\ (i # j - 1 => pa[i] # prev)
  <2>1. \A i \in 1 .. ka : pa[i] # EMPTY
    BY <1>2, Sizes
  <2>2. j # 1 => j - 1 \in 1 .. ka
    BY <1>2
  <2> QED
    BY <1>1, <1>2, <2>1, <2>2
<1>7. \A i \in 1 .. kf : pf[i] # s /\ pf[i] # prev
  <2>1. \A i \in 1 .. kf : pf[i] # EMPTY
    BY <1>2, Sizes
  <2>2. j # 1 => j - 1 \in 1 .. ka
    BY <1>2
  <2> QED
    BY <1>1, <1>2, <2>1, <2>2
<1>8. /\ a.next[s] = l.free
      /\ \A t \in Pool : t # s /\ t # prev => a.next[t] = l.next[t]
      /\ prev # EMPTY => prev # s /\ a.next[prev] = l.next[s]
  <2>1. prev # EMPTY => prev \in Pool /\ prev # s
    BY <1>1, <1>2, <1>3
  <2> QED
    BY <1>3, <1>4, <1>5, <2>1 DEF FreedNext
<1>9. Path(a.next, a.active, ka - 1, qa)
  <2>1. ka - 1 \in Nat /\ qa \in [1 .. ka - 1 -> Pool]
    BY <1>2
  <2>2. ASSUME NEW i \in 1 .. ka - 1, NEW k \in 1 .. ka - 1, qa[i] = qa[k]
        PROVE  i = k
    BY <1>2, <2>2
  <2>3. a.active = IF ka - 1 = 0 THEN EMPTY ELSE qa[1]
    BY <1>2, <1>3, <1>4, <1>5
  <2>4. ASSUME NEW i \in 1 .. ka - 1
        PROVE  a.next[qa[i]] = IF i = ka - 1 THEN EMPTY ELSE qa[i + 1]
    <3>1. CASE i < j - 1
      <4>1. qa[i] = pa[i] /\ i \in 1 .. ka /\ pa[i] # s /\ pa[i] # prev /\ pa[i] \in Pool
        BY <3>1, <1>2, <1>6
      <4>2. a.next[qa[i]] = pa[i + 1]
        BY <3>1, <4>1, <1>2, <1>8
      <4>3. i + 1 \in 1 .. ka - 1 /\ i # ka - 1 /\ i + 1 < j
        BY <3>1, <1>2
      <4>4. qa[i + 1] = pa[i + 1]
        BY <4>3
      <4> QED
        BY <4>2, <4>3, <4>4
    <3>2. CASE i = j - 1
      <4>1. qa[i] = prev /\ prev # EMPTY
        BY <3>2, <1>1, <1>2, <1>3
      <4>2. a.next[qa[i]] = IF j = ka THEN EMPTY ELSE pa[j + 1]
        BY <4>1, <1>4, <1>8
      <4> QED
        BY <3>2, <4>2, <1>2
    <3>3. CASE i > j - 1
      <4>1. /\ qa[i] = pa[i + 1] /\ i + 1 \in 1 .. ka
            /\ pa[i + 1] # s /\ pa[i + 1] # prev /\ pa[i + 1] \in Pool
        <5>1. i + 1 \in 1 .. ka /\ i + 1 # j /\ i + 1 # j - 1 /\ qa[i] = pa[i + 1]
          BY <3>3, <1>2
        <5> QED
          BY <5>1, <1>2, <1>6
      <4> QED
        BY <3>3, <4>1, <1>2, <1>8
    <3> QED
      BY <3>1, <3>2, <3>3
  <2> HIDE DEF qa
  <2> QED
    BY <2>1, <2>2, <2>3, <2>4 DEF Path
<1>10. Path(a.next, a.free, kf + 1, qf)
  <2>1. kf + 1 \in Nat /\ qf \in [1 .. kf + 1 -> Pool]
    BY <1>2, <1>3
  <2>2. ASSUME NEW i \in 1 .. kf + 1, NEW k \in 1 .. kf + 1, qf[i] = qf[k]
        PROVE  i = k
    BY <1>2, <2>2
  <2>3. a.free = IF kf + 1 = 0 THEN EMPTY ELSE qf[1]
    BY <1>2, <1>5
  <2>4. ASSUME NEW i \in 1 .. kf + 1
        PROVE  a.next[qf[i]] = IF i = kf + 1 THEN EMPTY ELSE qf[i + 1]
    <3>1. CASE i = 1
      BY <3>1, <1>2, <1>8
    <3>2. CASE i # 1
      <4>1. /\ i - 1 \in 1 .. kf /\ qf[i] = pf[i - 1] /\ pf[i - 1] \in Pool
            /\ pf[i - 1] # s /\ pf[i - 1] # prev
        BY <3>2, <1>2, <1>7
      <4>2. a.next[qf[i]] = l.next[pf[i - 1]]
        BY <4>1, <1>8
      <4> QED
        BY <3>2, <4>1, <4>2, <1>2
    <3> QED
      BY <3>1, <3>2
  <2> HIDE DEF qf
  <2> QED
    BY <2>1, <2>2, <2>3, <2>4 DEF Path
<1>11. \A i \in 1 .. ka - 1 : \A k \in 1 .. kf + 1 : qa[i] # qf[k]
  BY <1>2
<1> HIDE DEF qa, qf
<1>12. Threaded(a, ka - 1, qa, kf + 1, qf)
  BY <1>9, <1>10, <1>11 DEF Threaded
<1> QED
  BY <1>1, <1>12 DEF a, qa, qf, Without, Pushed

\* The lists after Initialize: the reserved sounds in descending order, and
\* the others.
LEMMA InitialThreads ==
    /\ InitialList \in ListType
    /\ Threaded(InitialList,
                MaxClients, [i \in 1 .. MaxClients |-> MaxClients - i],
                MaxSounds - MaxClients,
                [i \in 1 .. MaxSounds - MaxClients |-> MaxClients + i - 1])
    /\ \A c \in Reserved : InitialList.next[c] = c - 1
<1> DEFINE next(n) == [s \in Pool |-> IF s < n THEN s - 1
                                      ELSE IF s + 1 \in Pool THEN s + 1 ELSE EMPTY]
           closed(n) == [next |-> next(n), active |-> n - 1,
                         free |-> IF n \in Pool THEN n ELSE EMPTY]
           g == [n \in 0 .. MaxClients |-> closed(n)]
           Is(f) == f = [n \in 0 .. MaxClients |->
                            IF n = 0 THEN AllFree ELSE Alloc(f[n - 1])]
           reserved == CHOOSE f : Is(f)
<1>1. InitialList = reserved[MaxClients]
  BY DEF InitialList
<1>2. AllFree = closed(0)
  <2>1. next(0) = [s \in Pool |-> IF s + 1 \in Pool THEN s + 1 ELSE EMPTY]
    <3>1. \A s \in Pool : ~(s < 0)
      BY Sizes
    <3> QED
      BY <3>1
  <2>2. 0 \in Pool /\ 0 - 1 = EMPTY
    BY Sizes DEF Pool, EMPTY
  <2> QED
    BY <2>1, <2>2 DEF AllFree
<1>3. ASSUME NEW n \in 1 .. MaxClients PROVE Alloc(closed(n - 1)) = closed(n)
  <2>1. n - 1 \in Pool /\ n - 1 + 1 = n /\ n - 2 = (n - 1) - 1
    BY Sizes DEF Pool
  <2>2. next(n - 1)[n - 1] = IF n \in Pool THEN n ELSE EMPTY
    <3>1. ~(n - 1 < n - 1)
      BY Sizes
    <3>2. next(n - 1)[n - 1] = IF n - 1 + 1 \in Pool THEN n - 1 + 1 ELSE EMPTY
      BY <2>1, <3>1
    <3> QED
      BY <2>1, <3>2
  <2>3. [next(n - 1) EXCEPT ![n - 1] = n - 1 - 1] = next(n)
    <3> DEFINE ex == [next(n - 1) EXCEPT ![n - 1] = n - 1 - 1]
    <3>1. ASSUME NEW s \in Pool PROVE ex[s] = next(n)[s]
      <4>1. CASE s = n - 1
        <5>1. s < n /\ ex[s] = n - 1 - 1
          BY <4>1, <2>1
        <5> QED
          BY <4>1, <5>1
      <4>2. CASE s # n - 1
        <5>1. ex[s] = next(n - 1)[s]
          BY <4>2, <2>1
        <5>2. s < n - 1 <=> s < n
          BY <4>2, Sizes
        <5> QED
          BY <5>1, <5>2
      <4> QED
        BY <4>1, <4>2
    <3>2. ex = [s \in Pool |-> ex[s]] /\ next(n) = [s \in Pool |-> next(n)[s]]
      OBVIOUS
    <3> HIDE DEF ex, next
    <3>3. ex = next(n)
      BY <3>1, <3>2
    <3> QED
      BY <3>3 DEF ex
  <2> HIDE DEF next
  <2>4. /\ closed(n - 1).next = next(n - 1)
        /\ closed(n - 1).active = n - 1 - 1
        /\ closed(n - 1).free = n - 1
    BY <2>1
  <2>5. Alloc(closed(n - 1)) = [next |-> next(n), active |-> n - 1,
                                free |-> IF n \in Pool THEN n ELSE EMPTY]
    BY <2>2, <2>3, <2>4 DEF Alloc
  <2> QED
    BY <2>5
<1> HIDE DEF closed
<1>4. Is(g)
  <2>1. ASSUME NEW n \in 0 .. MaxClients
        PROVE  g[n] = IF n = 0 THEN AllFree ELSE Alloc(g[n - 1])
    <3>1. CASE n = 0
      BY <3>1, <1>2
    <3>2. CASE n # 0
      <4>1. n \in 1 .. MaxClients /\ n - 1 \in 0 .. MaxClients
        BY <3>2, Sizes
      <4>2. g[n - 1] = closed(n - 1) /\ g[n] = closed(n)
        BY <4>1
      <4> QED
        BY <4>1, <4>2, <3>2, <1>3
    <3> QED
      BY <3>1, <3>2
  <2> HIDE DEF closed
  <2> QED
    BY <2>1
<1>5. Is(reserved)
  <2> HIDE DEF g
  <2> QED
    BY <1>4
<1> HIDE DEF reserved
<1>6. /\ reserved[0] = AllFree
      /\ \A n \in 1 .. MaxClients : reserved[n] = Alloc(reserved[n - 1])
  <2>1. \A n \in 0 .. MaxClients :
            reserved[n] = IF n = 0 THEN AllFree ELSE Alloc(reserved[n - 1])
    BY <1>5
  <2>2. 0 \in 0 .. MaxClients
        /\ \A n \in 1 .. MaxClients : n \in 0 .. MaxClients /\ n # 0
    BY Sizes
  <2> QED
    BY <2>1, <2>2
<1>7. \A n \in 0 .. MaxClients : reserved[n] = closed(n)
  <2> DEFINE T == {n \in 0 .. MaxClients : reserved[n] = closed(n)}
  <2>1. 0 \in T
    BY <1>2, <1>6, Sizes
  <2>2. \A n \in 1 .. MaxClients : n - 1 \in T => n \in T
    BY <1>3, <1>6
  <2> HIDE DEF T
  <2>3. \A n \in 0 .. MaxClients : n \in T
    BY <2>1, <2>2, Sizes, Induct
  <2> QED
    BY <2>3 DEF T
<1>8. InitialList = closed(MaxClients)
  BY <1>1, <1>7, Sizes
<1>9. /\ InitialList.next = next(MaxClients)
      /\ InitialList.active = MaxClients - 1
      /\ InitialList.free = IF MaxClients \in Pool THEN MaxClients ELSE EMPTY
      /\ DOMAIN InitialList = {"next", "active", "free"}
  <2> HIDE DEF next
  <2> QED
    BY <1>8 DEF closed
<1>10. InitialList \in ListType
  <2>1. next(MaxClients) \in [Pool -> Index]
    BY Sizes DEF Pool, Index, EMPTY
  <2>2. MaxClients - 1 \in Index /\ (MaxClients \in Pool => MaxClients \in Index)
    BY Sizes DEF Pool, Index
  <2>3. InitialList = [next |-> next(MaxClients), active |-> MaxClients - 1,
                       free |-> IF MaxClients \in Pool THEN MaxClients ELSE EMPTY]
    <3> HIDE DEF next
    <3> QED
      BY <1>8 DEF closed
  <2> HIDE DEF next
  <2> QED
    BY <2>1, <2>2, <2>3, Sizes DEF ListType
<1> DEFINE qa == [i \in 1 .. MaxClients |-> MaxClients - i]
           kf == MaxSounds - MaxClients
           qf == [i \in 1 .. kf |-> MaxClients + i - 1]
<1>11. Path(InitialList.next, InitialList.active, MaxClients, qa)
  <2>1. qa \in [1 .. MaxClients -> Pool]
    BY Sizes DEF Pool
  <2>2. \A i, j \in 1 .. MaxClients : qa[i] = qa[j] => i = j
    BY Sizes
  <2>3. InitialList.active = IF MaxClients = 0 THEN EMPTY ELSE qa[1]
    BY Sizes, <1>9
  <2>4. ASSUME NEW i \in 1 .. MaxClients
        PROVE  next(MaxClients)[qa[i]] = IF i = MaxClients THEN EMPTY ELSE qa[i + 1]
    <3>1. qa[i] \in Pool /\ qa[i] < MaxClients /\ qa[i] = MaxClients - i
      BY <2>1, Sizes
    <3>2. next(MaxClients)[qa[i]] = MaxClients - i - 1
      BY <3>1
    <3> QED
      BY <3>2, Sizes DEF EMPTY
  <2> HIDE DEF qa, next
  <2> QED
    BY <2>1, <2>2, <2>3, <2>4, <1>9, Sizes DEF Path
<1>12. Path(InitialList.next, InitialList.free, kf, qf)
  <2>1. kf \in Nat /\ qf \in [1 .. kf -> Pool]
    BY Sizes DEF Pool
  <2>2. \A i, j \in 1 .. kf : qf[i] = qf[j] => i = j
    BY Sizes
  <2>3. InitialList.free = IF kf = 0 THEN EMPTY ELSE qf[1]
    BY Sizes, <1>9 DEF Pool
  <2>4. ASSUME NEW i \in 1 .. kf
        PROVE  next(MaxClients)[qf[i]] = IF i = kf THEN EMPTY ELSE qf[i + 1]
    <3>1. qf[i] \in Pool /\ ~(qf[i] < MaxClients) /\ qf[i] = MaxClients + i - 1
      BY <2>1, Sizes
    <3>2. next(MaxClients)[qf[i]] = IF MaxClients + i \in Pool THEN MaxClients + i ELSE EMPTY
      BY <3>1, Sizes
    <3>3. MaxClients + i \in Pool <=> i # kf
      BY Sizes DEF Pool
    <3> QED
      BY <3>2, <3>3, Sizes
  <2> HIDE DEF qf, next, kf
  <2> QED
    BY <2>1, <2>2, <2>3, <2>4, <1>9 DEF Path
<1>13. \A i \in 1 .. MaxClients : \A j \in 1 .. kf : qa[i] # qf[j]
  BY Sizes
<1>14. \A c \in Reserved : InitialList.next[c] = c - 1
  BY <1>9, Sizes DEF Reserved
<1> HIDE DEF qa, qf
<1>15. Threaded(InitialList, MaxClients, qa, kf, qf)
  BY <1>11, <1>12, <1>13 DEF Threaded
<1> QED
  BY <1>10, <1>14, <1>15 DEF qa, qf

-----------------------------------------------------------------------------
(* What the operations do to the sets of active and of free sounds          *)

\* A reserved sound is followed by the next lower one, or by nothing.
TailSorted(l) == \A c \in Reserved : l.next[c] \in {EMPTY, c - 1}

\* The lists l thread the sets A and F, and only A has reserved sounds.
Lists(l, A, F) ==
    /\ l \in ListType
    /\ TailSorted(l)
    /\ F \cap Reserved = {}
    /\ \E ka, pa, kf, pf : /\ Threaded(l, ka, pa, kf, pf)
                           /\ A = Members(ka, pa)
                           /\ F = Members(kf, pf)

\* Which sets the lists thread is what the walks visit.
LEMMA ListsVisited ==
    ASSUME NEW l, NEW A, NEW F, Lists(l, A, F)
    PROVE  /\ Visited(l.next, l.active) = A
           /\ Visited(l.next, l.free) = F
           /\ Ends(l.next, l.active)
           /\ Ends(l.next, l.free)
           /\ A \cap F = {}
           /\ A \subseteq Pool
           /\ F \subseteq Pool
<1>1. PICK ka, pa, kf, pf : /\ Threaded(l, ka, pa, kf, pf)
                            /\ A = Members(ka, pa)
                            /\ F = Members(kf, pf)
  BY DEF Lists
<1>2. l.next \in [Pool -> Index] /\ l.active \in Index /\ l.free \in Index
  BY DEF Lists, ListType
<1>3. Path(l.next, l.active, ka, pa) /\ Path(l.next, l.free, kf, pf)
  BY <1>1 DEF Threaded
<1>4. Visited(l.next, l.active) = A /\ Ends(l.next, l.active)
  BY <1>1, <1>2, <1>3, VisitedOfPath
<1>5. Visited(l.next, l.free) = F /\ Ends(l.next, l.free)
  BY <1>1, <1>2, <1>3, VisitedOfPath
<1>6. A \cap F = {}
  BY <1>1 DEF Threaded, Members
<1>7. A \subseteq Pool /\ F \subseteq Pool
  BY <1>1, <1>3 DEF Path, Members
<1> QED
  BY <1>4, <1>5, <1>6, <1>7

\* IAllocSound makes a free sound active.
LEMMA AllocLists ==
    ASSUME NEW l, NEW A, NEW F, Lists(l, A, F), l.free # EMPTY
    PROVE  /\ l.free \in F
           /\ Lists(Alloc(l), A \cup {l.free}, F \ {l.free})
<1>1. PICK ka, pa, kf, pf : /\ Threaded(l, ka, pa, kf, pf)
                            /\ A = Members(ka, pa)
                            /\ F = Members(kf, pf)
  BY DEF Lists
<1>2. l \in ListType /\ TailSorted(l) /\ F \cap Reserved = {}
  BY DEF Lists
<1> DEFINE qa == Pushed(pf[1], ka, pa)
           qf == Popped(kf, pf)
<1>3. /\ kf >= 1
      /\ l.free = pf[1]
      /\ l.free \in Pool
      /\ Alloc(l) \in ListType
      /\ Alloc(l).next = [l.next EXCEPT ![l.free] = l.active]
      /\ Threaded(Alloc(l), ka + 1, qa, kf - 1, qf)
  BY <1>1, <1>2, AllocThreads
<1>4. ka \in Nat /\ kf \in Nat /\ \A i, j \in 1 .. kf : pf[i] = pf[j] => i = j
  BY <1>1 DEF Threaded, Path
<1>5. l.free \in F
  BY <1>1, <1>3, <1>4 DEF Members
<1>6. Members(ka + 1, qa) = A \cup {l.free}
  <2>1. ASSUME NEW i \in 1 .. ka PROVE i + 1 \in 1 .. ka + 1 /\ qa[i + 1] = pa[i]
    BY <1>4 DEF Pushed
  <2>2. 1 \in 1 .. ka + 1 /\ qa[1] = l.free
    BY <1>3, <1>4 DEF Pushed
  <2>3. ASSUME NEW i \in 1 .. ka + 1
        PROVE  qa[i] = l.free \/ (i - 1 \in 1 .. ka /\ qa[i] = pa[i - 1])
    BY <1>3, <1>4 DEF Pushed
  <2> HIDE DEF qa
  <2> QED
    BY <2>1, <2>2, <2>3, <1>1 DEF Members
<1>7. Members(kf - 1, qf) = F \ {l.free}
  <2>1. ASSUME NEW i \in 1 .. kf, pf[i] # pf[1]
        PROVE  i - 1 \in 1 .. kf - 1 /\ qf[i - 1] = pf[i]
    BY <2>1, <1>4 DEF Popped
  <2>2. ASSUME NEW i \in 1 .. kf - 1
        PROVE  i + 1 \in 1 .. kf /\ qf[i] = pf[i + 1] /\ pf[i + 1] # pf[1]
    BY <1>3, <1>4 DEF Popped
  <2> HIDE DEF qf
  <2> QED
    BY <2>1, <2>2, <1>1, <1>3 DEF Members
<1>8. TailSorted(Alloc(l))
  <2>1. l.free \notin Reserved /\ l.next \in [Pool -> Index]
    BY <1>2, <1>5 DEF ListType
  <2> QED
    BY <2>1, <1>2, <1>3, Sizes DEF TailSorted
<1> HIDE DEF qa, qf
<1>9. (F \ {l.free}) \cap Reserved = {}
  BY <1>2
<1> QED
  BY <1>3, <1>5, <1>6, <1>7, <1>8, <1>9 DEF Lists

\* Behind a reserved active sound are only lower ones.
LEMMA TailOfReserved ==
    ASSUME NEW l \in ListType, TailSorted(l), NEW k, NEW p,
           Path(l.next, l.active, k, p), NEW i \in 1 .. k, p[i] \in Reserved
    PROVE  \A j \in i + 1 .. k : p[j] \in 0 .. p[i] - 1
<1> DEFINE T == {d \in 0 .. k - i : p[i + d] \in 0 .. p[i] /\ (d # 0 => p[i + d] # p[i])}
<1>1. /\ k \in Nat /\ p \in [1 .. k -> Pool]
      /\ \A n \in 1 .. k : l.next[p[n]] = IF n = k THEN EMPTY ELSE p[n + 1]
  BY DEF Path
<1>2. 0 \in T
  <2>1. i + 0 = i /\ p[i] \in 0 .. p[i] /\ 0 \in 0 .. k - i
    BY <1>1, Sizes DEF Reserved
  <2> QED
    BY <2>1
<1>3. ASSUME NEW d \in 1 .. k - i, d - 1 \in T PROVE d \in T
  <2>1. i + d \in 1 .. k /\ i + (d - 1) \in 1 .. k /\ i + (d - 1) # k /\ d \in 0 .. k - i
    BY <1>1
  <2> DEFINE c == p[i + (d - 1)]
  <2>2. c \in 0 .. p[i] /\ c \in Reserved
    BY <1>3, Sizes DEF Reserved
  <2>3. p[i + d] = l.next[c]
    BY <1>1, <2>1
  <2>4. p[i + d] \in Pool /\ p[i + d] \in {EMPTY, c - 1}
    BY <1>1, <2>1, <2>2, <2>3 DEF TailSorted
  <2> HIDE DEF c
  <2> QED
    BY <2>1, <2>2, <2>4, Sizes DEF Reserved
<1> HIDE DEF T
<1>4. \A d \in 0 .. k - i : d \in T
  <2>1. k - i \in Nat
    BY <1>1
  <2> QED
    BY <2>1, <1>2, <1>3, Induct
<1>5. ASSUME NEW j \in i + 1 .. k PROVE p[j] \in 0 .. p[i] - 1
  <2>1. j - i \in T /\ i + (j - i) = j /\ j - i # 0
    BY <1>1, <1>4
  <2> QED
    BY <2>1, Sizes DEF T, Reserved
<1> QED
  BY <1>5

\* CSound::Reset of client c drops the lower sounds, if its sound is active.
LEMMA ResetLists ==
    ASSUME NEW l, NEW A, NEW F, Lists(l, A, F), NEW c \in Reserved
    PROVE  Lists(Reset(l, c), IF c \in A THEN A \ (0 .. c - 1) ELSE A, F)
<1> DEFINE a == Reset(l, c)
<1>1. PICK ka, pa, kf, pf : /\ Threaded(l, ka, pa, kf, pf)
                            /\ A = Members(ka, pa)
                            /\ F = Members(kf, pf)
  BY DEF Lists
<1>2. l \in ListType /\ TailSorted(l) /\ F \cap Reserved = {} /\ c \in Pool
  BY Sizes DEF Lists
<1>3. l.next \in [Pool -> Index]
  BY <1>2 DEF ListType
<1>4. /\ a \in ListType
      /\ a.next = [l.next EXCEPT ![c] = EMPTY]
      /\ a.active = l.active
      /\ a.free = l.free
  BY <1>2, <1>3, Sizes DEF Reset, ListType
<1> HIDE DEF a
<1>5. TailSorted(a)
  BY <1>2, <1>3, <1>4, Sizes DEF TailSorted
<1>6. /\ ka \in Nat /\ kf \in Nat
      /\ pa \in [1 .. ka -> Pool] /\ pf \in [1 .. kf -> Pool]
      /\ \A i, j \in 1 .. ka : pa[i] = pa[j] => i = j
      /\ \A i, j \in 1 .. kf : pf[i] = pf[j] => i = j
      /\ l.active = IF ka = 0 THEN EMPTY ELSE pa[1]
      /\ l.free = IF kf = 0 THEN EMPTY ELSE pf[1]
      /\ \A i \in 1 .. ka : l.next[pa[i]] = IF i = ka THEN EMPTY ELSE pa[i + 1]
      /\ \A i \in 1 .. kf : l.next[pf[i]] = IF i = kf THEN EMPTY ELSE pf[i + 1]
      /\ \A i \in 1 .. ka : \A j \in 1 .. kf : pa[i] # pf[j]
  BY <1>1 DEF Threaded, Path
<1>7. Path(a.next, a.free, kf, pf)
  <2>1. \A i \in 1 .. kf : pf[i] # c
    BY <1>1, <1>2 DEF Members
  <2>2. \A i \in 1 .. kf : a.next[pf[i]] = l.next[pf[i]]
    BY <2>1, <1>3, <1>4, <1>6
  <2> QED
    BY <2>2, <1>4, <1>6 DEF Path
<1>8. CASE c \notin A
  <2>1. \A i \in 1 .. ka : a.next[pa[i]] = l.next[pa[i]]
    BY <1>1, <1>3, <1>4, <1>6, <1>8 DEF Members
  <2>2. Path(a.next, a.active, ka, pa)
    BY <2>1, <1>4, <1>6 DEF Path
  <2>3. Threaded(a, ka, pa, kf, pf)
    BY <2>2, <1>6, <1>7 DEF Threaded
  <2> QED
    BY <2>3, <1>1, <1>2, <1>4, <1>5, <1>8 DEF Lists, a
<1>9. CASE c \in A
  <2>1. PICK i \in 1 .. ka : pa[i] = c
    BY <1>1, <1>9 DEF Members
  <2> DEFINE q == [n \in 1 .. i |-> pa[n]]
  <2>2. \A n \in 1 .. i : n \in 1 .. ka
    BY <1>6
  <2>3. \A n \in 1 .. i : a.next[q[n]] = IF n = i THEN EMPTY ELSE q[n + 1]
    <3> SUFFICES ASSUME NEW n \in 1 .. i
                 PROVE  a.next[q[n]] = IF n = i THEN EMPTY ELSE q[n + 1]
      OBVIOUS
    <3>1. CASE n = i
      BY <3>1, <2>1, <1>2, <1>3, <1>4
    <3>2. CASE n # i
      <4>1. pa[n] # c /\ n # ka /\ n + 1 \in 1 .. i /\ n \in 1 .. ka /\ pa[n] \in Pool
        BY SMTT(20), ZenonT(40), <3>2, <2>1, <2>2, <1>6
      <4>2. a.next[pa[n]] = l.next[pa[n]]
        BY <4>1, <1>3, <1>4
      <4> QED
        BY <3>2, <4>1, <4>2, <1>6
    <3> QED
      BY <3>1, <3>2
  <2>4. Path(a.next, a.active, i, q)
    <3>1. i \in Nat /\ q \in [1 .. i -> Pool]
      BY <2>2, <1>6
    <3>2. \A m, n \in 1 .. i : q[m] = q[n] => m = n
      BY <2>2, <1>6
    <3>3. a.active = IF i = 0 THEN EMPTY ELSE q[1]
      BY <1>4, <1>6
    <3> HIDE DEF q
    <3> QED
      BY <3>1, <3>2, <3>3, <2>3 DEF Path
  <2>5. Threaded(a, i, q, kf, pf)
    <3>1. \A m \in 1 .. i : \A n \in 1 .. kf : q[m] # pf[n]
      BY <2>2, <1>6
    <3> HIDE DEF q
    <3> QED
      BY <3>1, <2>4, <1>7 DEF Threaded
  <2>6. Members(i, q) = A \ (0 .. c - 1)
    <3>1. \A j \in i + 1 .. ka : pa[j] \in 0 .. c - 1
      <4>1. Path(l.next, l.active, ka, pa)
        BY <1>1 DEF Threaded
      <4> QED
        BY <4>1, <2>1, <1>2, TailOfReserved
    <3>2. \A j \in 1 .. i : pa[j] \notin 0 .. c - 1
      <4> SUFFICES ASSUME NEW j \in 1 .. i, pa[j] \in 0 .. c - 1 PROVE FALSE
        OBVIOUS
      <4>1. pa[j] \in Reserved /\ j \in 1 .. ka /\ j # i
        BY <2>1, <2>2, Sizes DEF Reserved
      <4>2. i \in j + 1 .. ka
        BY <4>1, <1>6
      <4>3. Path(l.next, l.active, ka, pa)
        BY <1>1 DEF Threaded
      <4>4. pa[i] \in 0 .. pa[j] - 1
        BY <4>1, <4>2, <4>3, <1>2, TailOfReserved
      <4> QED
        BY <4>4, <2>1, Sizes DEF Reserved
    <3>3. \A n \in 1 .. ka : n \in 1 .. i \/ n \in i + 1 .. ka
      BY <1>6
    <3> QED
      BY <3>1, <3>2, <3>3, <2>2, <1>1 DEF Members
  <2> HIDE DEF q
  <2> QED
    BY <2>5, <2>6, <1>1, <1>2, <1>4, <1>5, <1>9 DEF Lists, a
<1> QED
  BY <1>8, <1>9

-----------------------------------------------------------------------------
(* The walk of Think                                                        *)

ThinkType == [l : ListType, prev : Index]

\* What the loop of Think has freed of p[1 .. n].
Gone(n, p) == {s \in Members(n, p) : Expired(s)}

\* The loop of Think after n of the k active sounds p, if the free sounds were
\* F: m sounds stayed, the last of them is prev, and the rest of p follows.
ThinkStage(n, w, k, p, F) ==
    /\ w \in ThinkType
    /\ TailSorted(w.l)
    /\ \E ka, pa, kf, pf, m :
           /\ Threaded(w.l, ka, pa, kf, pf)
           /\ m \in 0 .. n
           /\ ka = m + (k - n)
           /\ \A i \in 1 .. k - n : pa[m + i] = p[n + i]
           /\ w.prev = IF m = 0 THEN EMPTY ELSE pa[m]
           /\ Members(ka, pa) = Members(k, p) \ Gone(n, p)
           /\ Members(kf, pf) = F \cup Gone(n, p)

LEMMA ThinkAtType ==
    ASSUME NEW w \in ThinkType, NEW s \in Index
    PROVE  ThinkAt(w, s) \in ThinkType
<1>1. CASE s = EMPTY
  BY <1>1 DEF ThinkAt
<1>2. CASE s # EMPTY
  <2>1. s \in Pool /\ w.l \in ListType /\ w.prev \in Index
    BY <1>2 DEF Index, ThinkType
  <2>2. FreeSound(w.l, s, w.prev) \in ListType
    BY <2>1, FreeSoundFields
  <2> QED
    BY <1>2, <2>1, <2>2, Sizes DEF ThinkAt, ThinkType
<1> QED
  BY <1>1, <1>2

\* What FreeSound does to the members of the two lists.
LEMMA WithoutMembers ==
    ASSUME NEW k \in Nat, NEW p, \A i, n \in 1 .. k : p[i] = p[n] => i = n,
           NEW j \in 1 .. k
    PROVE  Members(k - 1, Without(j, k, p)) = Members(k, p) \ {p[j]}
<1> DEFINE q == Without(j, k, p)
<1>1. ASSUME NEW i \in 1 .. k - 1
      PROVE  \E n \in 1 .. k : n # j /\ q[i] = p[n]
  <2>1. CASE i < j
    BY <2>1 DEF Without
  <2>2. CASE ~(i < j)
    <3>1. i + 1 \in 1 .. k /\ i + 1 # j /\ q[i] = p[i + 1]
      BY <2>2 DEF Without
    <3> QED
      BY <3>1
  <2> QED
    BY <2>1, <2>2
<1>2. ASSUME NEW n \in 1 .. k, n # j
      PROVE  \E i \in 1 .. k - 1 : q[i] = p[n]
  <2>1. CASE n < j
    <3>1. n \in 1 .. k - 1 /\ q[n] = p[n]
      BY <2>1 DEF Without
    <3> QED
      BY <3>1
  <2>2. CASE ~(n < j)
    <3>1. n - 1 \in 1 .. k - 1 /\ ~(n - 1 < j) /\ n - 1 + 1 = n
      BY <1>2, <2>2
    <3>2. q[n - 1] = p[n]
      BY <3>1 DEF Without
    <3> QED
      BY <3>1, <3>2
  <2> QED
    BY <2>1, <2>2
<1> HIDE DEF q
<1>3. Members(k - 1, q) = Members(k, p) \ {p[j]}
  BY <1>1, <1>2 DEF Members
<1> QED
  BY <1>3 DEF q

LEMMA PushedMembers ==
    ASSUME NEW k \in Nat, NEW p, NEW s
    PROVE  Members(k + 1, Pushed(s, k, p)) = Members(k, p) \cup {s}
<1> DEFINE q == Pushed(s, k, p)
<1>1. ASSUME NEW i \in 1 .. k PROVE i + 1 \in 1 .. k + 1 /\ q[i + 1] = p[i]
  BY DEF Pushed
<1>2. 1 \in 1 .. k + 1 /\ q[1] = s
  BY DEF Pushed
<1>3. ASSUME NEW i \in 1 .. k + 1
      PROVE  q[i] = s \/ (i - 1 \in 1 .. k /\ q[i] = p[i - 1])
  BY DEF Pushed
<1> HIDE DEF q
<1>4. Members(k + 1, q) = Members(k, p) \cup {s}
  BY <1>1, <1>2, <1>3 DEF Members
<1> QED
  BY <1>4 DEF q

\* One round of the loop of Think.
LEMMA ThinkStageStep ==
    ASSUME NEW k \in Nat, NEW p \in [1 .. k -> Pool],
           \A i, j \in 1 .. k : p[i] = p[j] => i = j,
           NEW n \in 0 .. k - 1, NEW F, NEW w, ThinkStage(n, w, k, p, F),
           \A c \in Reserved : expire[c] = NEVER_EXPIRE
    PROVE  ThinkStage(n + 1, ThinkAt(w, p[n + 1]), k, p, F)
<1> DEFINE s == p[n + 1]
           v == ThinkAt(w, s)
<1>1. PICK ka, pa, kf, pf, m :
           /\ Threaded(w.l, ka, pa, kf, pf)
           /\ m \in 0 .. n
           /\ ka = m + (k - n)
           /\ \A i \in 1 .. k - n : pa[m + i] = p[n + i]
           /\ w.prev = IF m = 0 THEN EMPTY ELSE pa[m]
           /\ Members(ka, pa) = Members(k, p) \ Gone(n, p)
           /\ Members(kf, pf) = F \cup Gone(n, p)
  BY DEF ThinkStage
<1>2. /\ w \in ThinkType /\ TailSorted(w.l)
      /\ w.l \in ListType /\ w.prev \in Index
  BY DEF ThinkStage, ThinkType
<1>3. n + 1 \in 1 .. k /\ m + 1 \in 1 .. ka /\ s \in Pool /\ s # EMPTY /\ pa[m + 1] = s
  <2>1. n + 1 \in 1 .. k /\ m + 1 \in 1 .. ka /\ 1 \in 1 .. k - n
    BY <1>1
  <2> QED
    BY <2>1, <1>1, Sizes
<1>4. /\ ka \in Nat /\ kf \in Nat
      /\ pa \in [1 .. ka -> Pool]
      /\ \A i, j \in 1 .. ka : pa[i] = pa[j] => i = j
      /\ \A i \in 1 .. ka : w.l.next[pa[i]] = IF i = ka THEN EMPTY ELSE pa[i + 1]
  BY <1>1 DEF Threaded, Path
<1>5. v \in ThinkType
  BY <1>2, <1>3, Sizes, ThinkAtType
<1>6. Members(n + 1, p) = Members(n, p) \cup {s}
  <2>1. \A i \in 1 .. n + 1 : i \in 1 .. n \/ i = n + 1
    OBVIOUS
  <2>2. n + 1 \in 1 .. n + 1 /\ \A i \in 1 .. n : i \in 1 .. n + 1
    OBVIOUS
  <2> QED
    BY <2>1, <2>2 DEF Members
<1>7. \A i \in 1 .. k - (n + 1) :
          /\ i + 1 \in 1 .. k - n
          /\ pa[m + (i + 1)] = p[n + (i + 1)]
          /\ m + (i + 1) = (m + i) + 1 /\ m + (i + 1) = (m + 1) + i
          /\ n + (i + 1) = (n + 1) + i
  <2>1. m \in Nat /\ \A i \in 1 .. k - n : pa[m + i] = p[n + i]
    BY <1>1
  <2>2. \A i \in 1 .. k - (n + 1) : i \in Nat /\ i + 1 \in 1 .. k - n
    OBVIOUS
  <2>3. \A i \in 1 .. k - (n + 1) : pa[m + (i + 1)] = p[n + (i + 1)]
    BY <2>1, <2>2
  <2>4. \A i \in 1 .. k - (n + 1) : /\ m + (i + 1) = (m + i) + 1
                                   /\ m + (i + 1) = (m + 1) + i
                                   /\ n + (i + 1) = (n + 1) + i
    BY <2>1
  <2> QED
    BY <2>2, <2>3, <2>4
<1>8. CASE ~Expired(s)
  <2>1. v = [w EXCEPT !.prev = s]
    BY <1>3, <1>8 DEF ThinkAt
  <2>2. v.l = w.l /\ v.prev = s
    BY <2>1, <1>2 DEF ThinkType
  <2>3. Gone(n + 1, p) = Gone(n, p)
    BY <1>6, <1>8 DEF Gone
  <2>4. ka = (m + 1) + (k - (n + 1)) /\ m + 1 \in 0 .. n + 1 /\ m + 1 # 0
    <3>1. m \in 0 .. n /\ ka = m + (k - n)
      BY <1>1
    <3> QED
      BY <3>1
  <2>5. \A i \in 1 .. k - (n + 1) : pa[(m + 1) + i] = p[(n + 1) + i]
    BY <1>7
  <2> HIDE DEF v, s
  <2>6. \E aa, bb, cc, dd, mm :
           /\ Threaded(v.l, aa, bb, cc, dd)
           /\ mm \in 0 .. n + 1
           /\ aa = mm + (k - (n + 1))
           /\ \A i \in 1 .. k - (n + 1) : bb[mm + i] = p[(n + 1) + i]
           /\ v.prev = IF mm = 0 THEN EMPTY ELSE bb[mm]
           /\ Members(aa, bb) = Members(k, p) \ Gone(n + 1, p)
           /\ Members(cc, dd) = F \cup Gone(n + 1, p)
    <3>1. /\ Threaded(v.l, ka, pa, kf, pf)
          /\ m + 1 \in 0 .. n + 1
          /\ ka = (m + 1) + (k - (n + 1))
          /\ \A i \in 1 .. k - (n + 1) : pa[(m + 1) + i] = p[(n + 1) + i]
          /\ v.prev = IF m + 1 = 0 THEN EMPTY ELSE pa[m + 1]
          /\ Members(ka, pa) = Members(k, p) \ Gone(n + 1, p)
          /\ Members(kf, pf) = F \cup Gone(n + 1, p)
      BY <2>2, <2>3, <2>4, <2>5, <1>1, <1>3
    <3> QED
      BY <3>1
  <2>7. ThinkStage(n + 1, v, k, p, F)
    BY <2>2, <2>6, <1>2, <1>5 DEF ThinkStage
  <2> QED
    BY <2>7 DEF v, s
<1>9. CASE Expired(s)
  <2>1. v = [w EXCEPT !.l = FreeSound(w.l, s, w.prev)]
    BY <1>3, <1>9 DEF ThinkAt
  <2>2. v.l = FreeSound(w.l, s, w.prev) /\ v.prev = w.prev
    BY <2>1, <1>2 DEF ThinkType
  <2>3. Gone(n + 1, p) = Gone(n, p) \cup {s}
    BY <1>6, <1>9 DEF Gone
  <2>4. w.prev = IF m + 1 = 1 THEN EMPTY ELSE pa[(m + 1) - 1]
    <3>1. m \in Nat /\ w.prev = IF m = 0 THEN EMPTY ELSE pa[m]
      BY <1>1
    <3>2. (m + 1) - 1 = m /\ (m + 1 = 1 <=> m = 0)
      BY <3>1
    <3> QED
      BY <3>1, <3>2
  <2> DEFINE qa == Without(m + 1, ka, pa)
             qf == Pushed(s, kf, pf)
  <2>5. Threaded(v.l, ka - 1, qa, kf + 1, qf)
    <3>1. Threaded(FreeSound(w.l, pa[m + 1],
                             IF m + 1 = 1 THEN EMPTY ELSE pa[(m + 1) - 1]),
                   ka - 1, Without(m + 1, ka, pa), kf + 1, Pushed(pa[m + 1], kf, pf))
      <4>1. m + 1 \in 1 .. ka
        BY <1>3
      <4>2. Threaded(w.l, ka, pa, kf, pf) /\ w.l \in ListType
        BY <1>1, <1>2
      <4> QED
        BY <4>1, <4>2, FreeSoundThreads
    <3> QED
      BY <3>1, <2>2, <2>4, <1>3
  <2>6. Members(ka - 1, qa) = Members(k, p) \ Gone(n + 1, p)
    <3>1. Members(ka - 1, qa) = Members(ka, pa) \ {s}
      <4>1. m + 1 \in 1 .. ka /\ pa[m + 1] = s
        BY <1>3
      <4>2. Members(ka - 1, qa) = Members(ka, pa) \ {pa[m + 1]}
        <5>1. m + 1 \in 1 .. ka /\ ka \in Nat
          BY <1>3, <1>4
        <5>2. \A i, j \in 1 .. ka : pa[i] = pa[j] => i = j
          BY <1>4
        <5> QED
          BY <5>1, <5>2, WithoutMembers
      <4> QED
        BY <4>1, <4>2
    <3> QED
      BY <3>1, <2>3, <1>1
  <2>7. Members(kf + 1, qf) = F \cup Gone(n + 1, p)
    <3>1. Members(kf + 1, qf) = Members(kf, pf) \cup {s}
      BY <1>4, PushedMembers
    <3> QED
      BY <3>1, <2>3, <1>1
  <2>8. ka - 1 = m + (k - (n + 1)) /\ m \in 0 .. n + 1
    BY <1>1
  <2>9. \A i \in 1 .. k - (n + 1) : qa[m + i] = p[(n + 1) + i]
    <3>1. ASSUME NEW i \in 1 .. k - (n + 1) PROVE qa[m + i] = p[(n + 1) + i]
      <4>1. m + i \in 1 .. ka - 1 /\ ~(m + i < m + 1)
        BY <1>1
      <4>2. qa[m + i] = pa[(m + i) + 1]
        BY <4>1 DEF Without
      <4> QED
        BY <4>2, <1>7
    <3> QED
      BY <3>1
  <2>10. v.prev = IF m = 0 THEN EMPTY ELSE qa[m]
    <3>1. CASE m = 0
      BY <3>1, <2>2, <1>1
    <3>2. CASE m # 0
      <4>1. m \in 1 .. ka - 1 /\ m < m + 1
        BY <3>2, <1>1
      <4>2. qa[m] = pa[m]
        BY <4>1 DEF Without
      <4> QED
        BY <4>2, <3>2, <2>2, <1>1
    <3> QED
      BY <3>1, <3>2
  <2>11. TailSorted(v.l)
    <3>1. s \notin Reserved
      BY <1>9 DEF Expired
    <3>2. w.prev \notin Reserved
      <4> SUFFICES ASSUME w.prev \in Reserved PROVE FALSE
        OBVIOUS
      <4>1. m \in 1 .. ka /\ m # ka /\ w.prev = pa[m]
        BY <1>1, Sizes
      <4>2. w.l.next[w.prev] = s
        BY <4>1, <1>3, <1>4
      <4>3. s = w.prev - 1
        BY <4>2, <1>2, <1>3 DEF TailSorted
      <4> QED
        BY <4>3, <3>1, <1>3, Sizes DEF Reserved
    <3>3. v.l.next = FreedNext(w.l, s, w.prev)
      <4>1. s \in Pool /\ w.l \in ListType /\ w.prev \in Index
        BY <1>2, <1>3
      <4> HIDE DEF s, v
      <4>2. FreeSound(w.l, s, w.prev).next = FreedNext(w.l, s, w.prev)
        BY <4>1, FreeSoundFields
      <4> QED
        BY <4>2, <2>2
    <3>4. w.l.next \in [Pool -> Index]
      BY <1>2 DEF ListType
    <3>5. \A c \in Reserved : v.l.next[c] = w.l.next[c]
      <4> HIDE DEF s, v
      <4> QED
        BY <3>1, <3>2, <3>3, <3>4, Sizes DEF FreedNext
    <3> HIDE DEF v
    <3> QED
      BY <3>5, <1>2 DEF TailSorted
  <2> HIDE DEF qa, qf, v, s
  <2>12. \E aa, bb, cc, dd, mm :
           /\ Threaded(v.l, aa, bb, cc, dd)
           /\ mm \in 0 .. n + 1
           /\ aa = mm + (k - (n + 1))
           /\ \A i \in 1 .. k - (n + 1) : bb[mm + i] = p[(n + 1) + i]
           /\ v.prev = IF mm = 0 THEN EMPTY ELSE bb[mm]
           /\ Members(aa, bb) = Members(k, p) \ Gone(n + 1, p)
           /\ Members(cc, dd) = F \cup Gone(n + 1, p)
    BY <2>5, <2>6, <2>7, <2>8, <2>9, <2>10
  <2>13. ThinkStage(n + 1, v, k, p, F)
    BY <2>11, <2>12, <1>5 DEF ThinkStage
  <2> QED
    BY <2>13 DEF v, s
<1> QED
  BY <1>8, <1>9

\* Before the loop nothing is freed.
LEMMA ThinkStageStart ==
    ASSUME NEW l \in ListType, TailSorted(l), NEW k, NEW p, NEW kf, NEW pf,
           Threaded(l, k, p, kf, pf)
    PROVE  ThinkStage(0, [l |-> l, prev |-> EMPTY], k, p, Members(kf, pf))
<1> DEFINE w == [l |-> l, prev |-> EMPTY]
<1>1. w \in ThinkType /\ w.l = l /\ w.prev = EMPTY
  BY Sizes DEF ThinkType
<1>2. k \in Nat /\ p \in [1 .. k -> Pool]
  BY DEF Threaded, Path
<1>3. Gone(0, p) = {}
  BY DEF Gone, Members
<1>4. /\ Threaded(w.l, k, p, kf, pf)
      /\ 0 \in 0 .. 0
      /\ k = 0 + (k - 0)
      /\ \A i \in 1 .. k - 0 : p[0 + i] = p[0 + i]
      /\ w.prev = IF 0 = 0 THEN EMPTY ELSE p[0]
      /\ Members(k, p) = Members(k, p) \ Gone(0, p)
      /\ Members(kf, pf) = Members(kf, pf) \cup Gone(0, p)
  BY <1>1, <1>2, <1>3
<1> HIDE DEF w
<1>5. ThinkStage(0, w, k, p, Members(kf, pf))
  BY <1>1, <1>4 DEF ThinkStage
<1> QED
  BY <1>5 DEF w

\* Think frees the active sounds that have expired and no other.
LEMMA ThinkLists ==
    ASSUME NEW A, NEW F, Lists(list, A, F), Think,
           \A c \in Reserved : expire[c] = NEVER_EXPIRE
    PROVE  LET E == {s \in A : Expired(s)}
           IN  Lists(list', A \ E, F \cup E)
<1> DEFINE active == Walk(list.next, list.active)
           Is(f) == f = [n \in 0 .. MaxSounds |->
                            IF n = 0 THEN [l |-> list, prev |-> EMPTY]
                            ELSE ThinkAt(f[n - 1], active[n - 1])]
           walked == CHOOSE f : Is(f)
           step == [n \in 1 .. MaxSounds |->
                       [w \in ThinkType |-> ThinkAt(w, active[n - 1])]]
           start == [l |-> list, prev |-> EMPTY]
           E == {s \in A : Expired(s)}
<1>1. list' = walked[MaxSounds].l
  BY DEF Think
<1>2. PICK k, p, kf, pf : /\ Threaded(list, k, p, kf, pf)
                          /\ A = Members(k, p)
                          /\ F = Members(kf, pf)
  BY DEF Lists
<1>3. list \in ListType /\ TailSorted(list) /\ F \cap Reserved = {}
  BY DEF Lists
<1>4. list.next \in [Pool -> Index] /\ list.active \in Index
  BY <1>3 DEF ListType
<1>5. Path(list.next, list.active, k, p)
  BY <1>2 DEF Threaded
<1>6. /\ k \in 0 .. MaxSounds /\ p \in [1 .. k -> Pool]
      /\ \A i, j \in 1 .. k : p[i] = p[j] => i = j
  <2>1. k \in 0 .. MaxSounds
    BY <1>5, PathFits
  <2> QED
    BY <2>1, <1>5 DEF Path
<1>7. /\ active \in [0 .. MaxSounds -> Index]
      /\ \A n \in 0 .. MaxSounds : active[n] = IF n < k THEN p[n + 1] ELSE EMPTY
  BY <1>4, <1>5, WalkSteps, WalkOfPath
<1> HIDE DEF active
<1>8. step \in [1 .. MaxSounds -> [ThinkType -> ThinkType]]
  <2>1. ASSUME NEW n \in 1 .. MaxSounds, NEW w \in ThinkType
        PROVE  ThinkAt(w, active[n - 1]) \in ThinkType
    <3>1. active[n - 1] \in Index
      BY <1>7, Sizes
    <3> QED
      BY <3>1, ThinkAtType
  <2> QED
    BY <2>1
<1>9. start \in ThinkType
  BY <1>3, Sizes DEF ThinkType
<1>10. Is(walked)
  <2>1. PICK f : Solves(f, MaxSounds, ThinkType, start, step)
    <3> HIDE DEF step, start
    <3> QED
      BY <1>8, <1>9, Sizes, RecursionExists
  <2>2. ASSUME NEW n \in 1 .. MaxSounds PROVE f[n] = ThinkAt(f[n - 1], active[n - 1])
    <3>1. f[n - 1] \in ThinkType /\ f[n] = step[n][f[n - 1]]
      BY <2>1, Sizes DEF Solves
    <3> QED
      BY <3>1
  <2>3. f \in [0 .. MaxSounds -> ThinkType] /\ f[0] = start
    BY <2>1 DEF Solves
  <2>4. Is(f)
    <3> HIDE DEF start
    <3>1. \A n \in 0 .. MaxSounds :
              f[n] = IF n = 0 THEN start ELSE ThinkAt(f[n - 1], active[n - 1])
      BY <2>2, <2>3, Sizes
    <3> QED
      BY <2>3, <3>1 DEF start
  <2> QED
    BY <2>4
<1> HIDE DEF walked
<1>11. /\ walked[0] = start
       /\ \A n \in 1 .. MaxSounds : walked[n] = ThinkAt(walked[n - 1], active[n - 1])
  <2> HIDE DEF start
  <2>1. \A n \in 0 .. MaxSounds :
            walked[n] = IF n = 0 THEN start ELSE ThinkAt(walked[n - 1], active[n - 1])
    BY <1>10 DEF start
  <2>2. 0 \in 0 .. MaxSounds
        /\ \A n \in 1 .. MaxSounds : n \in 0 .. MaxSounds /\ n # 0
    BY Sizes
  <2> QED
    BY <2>1, <2>2
<1> DEFINE T == {n \in 0 .. MaxSounds :
                    ThinkStage(IF n < k THEN n ELSE k, walked[n], k, p, F)}
<1>12. 0 \in T
  <2>1. ThinkStage(0, start, k, p, F)
    BY <1>2, <1>3, ThinkStageStart
  <2>2. (IF 0 < k THEN 0 ELSE k) = 0 /\ 0 \in 0 .. MaxSounds
    BY <1>6, Sizes
  <2> HIDE DEF start
  <2> QED
    BY <2>1, <2>2, <1>11
<1>13. ASSUME NEW n \in 1 .. MaxSounds, n - 1 \in T PROVE n \in T
  <2>1. ThinkStage(IF n - 1 < k THEN n - 1 ELSE k, walked[n - 1], k, p, F)
    BY <1>13
  <2>2. /\ walked[n] = ThinkAt(walked[n - 1], active[n - 1])
        /\ active[n - 1] = IF n - 1 < k THEN p[(n - 1) + 1] ELSE EMPTY
    BY <1>7, <1>11, Sizes
  <2>3. CASE n - 1 < k
    <3>1. n - 1 \in 0 .. k - 1 /\ (n - 1) + 1 = n /\ (IF n < k THEN n ELSE k) = n
          /\ k \in Nat /\ n \in 0 .. MaxSounds
      BY <2>3, <1>6
    <3>2. ThinkStage(n - 1, walked[n - 1], k, p, F)
      BY <2>1, <2>3
    <3>3. ThinkStage((n - 1) + 1, ThinkAt(walked[n - 1], p[(n - 1) + 1]), k, p, F)
      BY <3>1, <3>2, <1>6, ThinkStageStep
    <3> QED
      BY <3>1, <3>3, <2>2, <2>3
  <2>4. CASE ~(n - 1 < k)
    <3>1. walked[n] = walked[n - 1]
      BY <2>2, <2>4 DEF ThinkAt
    <3>2. ~(n < k) /\ n \in 0 .. MaxSounds
      BY <2>4, <1>6
    <3> QED
      BY <3>1, <3>2, <2>1, <2>4
  <2> QED
    BY <2>3, <2>4
<1>14. MaxSounds \in T
  <2>1. MaxSounds \in 0 .. MaxSounds /\ MaxSounds \in Nat
    BY Sizes
  <2> HIDE DEF T
  <2> QED
    BY <2>1, <1>12, <1>13, Induct
<1>15. ThinkStage(k, walked[MaxSounds], k, p, F)
  <2>1. (IF MaxSounds < k THEN MaxSounds ELSE k) = k
    BY <1>6, Sizes
  <2> QED
    BY <2>1, <1>14
<1>16. Gone(k, p) = E
  BY <1>2 DEF Gone
<1>17. PICK ka, pa, kg, pg : /\ Threaded(list', ka, pa, kg, pg)
                             /\ Members(ka, pa) = A \ E
                             /\ Members(kg, pg) = F \cup E
  BY <1>1, <1>2, <1>15, <1>16 DEF ThinkStage
<1>18. list' \in ListType /\ TailSorted(list')
  BY <1>1, <1>15 DEF ThinkStage, ThinkType
<1>19. (F \cup E) \cap Reserved = {}
  BY <1>3 DEF Expired
<1> HIDE DEF E
<1>20. Lists(list', A \ E, F \cup E)
  BY <1>17, <1>18, <1>19 DEF Lists
<1> QED
  BY <1>20 DEF E

-----------------------------------------------------------------------------
(* The walk of Listen                                                       *)

HearType == [aud : [Pool -> Index], head : Index]

\* The loop of Listen after the sounds p[1 .. n], if the links were aud: each
\* sound of H that was visited is linked to an earlier one or to none.
HearStage(n, w, p, H, aud) ==
    /\ w \in HearType
    /\ \A i \in 1 .. n :
           p[i] \in H => \/ w.aud[p[i]] = EMPTY
                         \/ \E j \in 1 .. i - 1 : p[j] \in H /\ w.aud[p[i]] = p[j]
    /\ \A s \in Pool \ H : w.aud[s] = aud[s]
    /\ w.head # EMPTY => \E j \in 1 .. n : p[j] \in H /\ w.head = p[j]

LEMMA ListenAtType ==
    ASSUME NEW w \in HearType, NEW s, NEW H \in SUBSET Pool
    PROVE  ListenAt(w, s, H) \in HearType
<1>1. CASE s \in H
  <2>1. s \in Pool /\ w.aud \in [Pool -> Index] /\ w.head \in Index
    BY <1>1 DEF HearType
  <2>2. [w.aud EXCEPT ![s] = w.head] \in [Pool -> Index]
    BY <2>1
  <2> QED
    BY <1>1, <2>1, <2>2, Sizes DEF ListenAt, HearType
<1>2. CASE s \notin H
  BY <1>2 DEF ListenAt
<1> QED
  BY <1>1, <1>2

\* One round of the loop of Listen.
LEMMA HearStageStep ==
    ASSUME NEW k \in Nat, NEW p \in [1 .. k -> Pool],
           \A i, j \in 1 .. k : p[i] = p[j] => i = j,
           NEW n \in 0 .. k - 1, NEW H \in SUBSET Pool, NEW aud, NEW w,
           HearStage(n, w, p, H, aud)
    PROVE  HearStage(n + 1, ListenAt(w, p[n + 1], H), p, H, aud)
<1>1. PICK s : s = p[n + 1]
  OBVIOUS
<1> DEFINE v == ListenAt(w, s, H)
<1>2. /\ w \in HearType
      /\ \A i \in 1 .. n :
             p[i] \in H => \/ w.aud[p[i]] = EMPTY
                           \/ \E j \in 1 .. i - 1 : p[j] \in H /\ w.aud[p[i]] = p[j]
      /\ \A t \in Pool \ H : w.aud[t] = aud[t]
      /\ w.head # EMPTY => \E j \in 1 .. n : p[j] \in H /\ w.head = p[j]
  BY DEF HearStage
<1>3. w.aud \in [Pool -> Index] /\ w.head \in Index
  BY <1>2 DEF HearType
<1>4. n + 1 \in 1 .. k /\ s \in Pool /\ \A i \in 1 .. n : i \in 1 .. k /\ p[i] # s
  BY <1>1
<1>5. v \in HearType
  BY <1>2, ListenAtType
<1>6. CASE s \notin H
  <2>1. v = w
    BY <1>6 DEF ListenAt
  <2>2. \A i \in 1 .. n + 1 : p[i] \in H => i \in 1 .. n
    <3>1. \A i \in 1 .. n + 1 : i \in 1 .. n \/ i = n + 1
      OBVIOUS
    <3> QED
      BY <3>1, <1>1, <1>6
  <2>3. \A i \in 1 .. n : i \in 1 .. n + 1
    OBVIOUS
  <2> HIDE DEF v
  <2>4. HearStage(n + 1, v, p, H, aud)
    BY <2>1, <2>2, <2>3, <1>2 DEF HearStage
  <2> QED
    BY <2>4, <1>1 DEF v
<1>7. CASE s \in H
  <2>1. v.aud = [w.aud EXCEPT ![s] = w.head] /\ v.head = s
    BY <1>7 DEF ListenAt
  <2> HIDE DEF v
  <2>2. v.aud[s] = w.head /\ \A t \in Pool : t # s => v.aud[t] = w.aud[t]
    BY <2>1, <1>3, <1>4
  <2>3. ASSUME NEW i \in 1 .. n + 1, p[i] \in H
        PROVE  \/ v.aud[p[i]] = EMPTY
               \/ \E j \in 1 .. i - 1 : p[j] \in H /\ v.aud[p[i]] = p[j]
    <3>1. CASE i = n + 1
      <4>1. p[i] = s /\ (n + 1) - 1 = n
        BY <3>1, <1>1
      <4> QED
        BY <4>1, <3>1, <2>2, <1>2
    <3>2. CASE i # n + 1
      <4>1. i \in 1 .. n /\ p[i] # s /\ p[i] \in Pool
        BY <3>2, <1>4
      <4> QED
        BY <4>1, <2>2, <2>3, <1>2
    <3> QED
      BY <3>1, <3>2
  <2>4. \A t \in Pool \ H : v.aud[t] = aud[t]
    BY <2>2, <1>2, <1>7
  <2>5. \E j \in 1 .. n + 1 : p[j] \in H /\ v.head = p[j]
    <3>1. n + 1 \in 1 .. n + 1
      OBVIOUS
    <3> QED
      BY <3>1, <2>1, <1>1, <1>7
  <2>6. HearStage(n + 1, v, p, H, aud)
    BY <2>3, <2>4, <2>5, <1>5 DEF HearStage
  <2> QED
    BY <2>6, <1>1 DEF v
<1> QED
  BY <1>6, <1>7

\* Listen links what it hears in the order of the active list.
LEMMA ListenWalk ==
    ASSUME NEW A, NEW F, Lists(list, A, F), audible \in [Pool -> Index],
           NEW m \in Monsters, NEW H \in SUBSET A, Listen(m, H)
    PROVE  \E k, p, w : /\ k \in Nat
                        /\ p \in [1 .. k -> Pool]
                        /\ \A i, j \in 1 .. k : p[i] = p[j] => i = j
                        /\ A = Members(k, p)
                        /\ HearStage(k, w, p, H, audible)
                        /\ audible' = w.aud
                        /\ heard' = [heard EXCEPT ![m] = w.head]
<1> DEFINE active == Walk(list.next, list.active)
           start == [aud |-> audible, head |-> EMPTY]
           Is(f) == f = [n \in 0 .. MaxSounds |->
                            IF n = 0 THEN start ELSE ListenAt(f[n - 1], active[n - 1], H)]
           walked == CHOOSE f : Is(f)
           step == [n \in 1 .. MaxSounds |->
                       [w \in HearType |-> ListenAt(w, active[n - 1], H)]]
<1>1. /\ audible' = walked[MaxSounds].aud
      /\ heard' = [heard EXCEPT ![m] = walked[MaxSounds].head]
  BY DEF Listen, ListenStart
<1>2. PICK k, p, kf, pf : /\ Threaded(list, k, p, kf, pf)
                          /\ A = Members(k, p)
                          /\ F = Members(kf, pf)
  BY DEF Lists
<1>3. list.next \in [Pool -> Index] /\ list.active \in Index
  BY DEF Lists, ListType
<1>4. Path(list.next, list.active, k, p)
  BY <1>2 DEF Threaded
<1>5. /\ k \in 0 .. MaxSounds /\ p \in [1 .. k -> Pool]
      /\ \A i, j \in 1 .. k : p[i] = p[j] => i = j
  <2>1. k \in 0 .. MaxSounds
    BY <1>4, PathFits
  <2> QED
    BY <2>1, <1>4 DEF Path
<1>6. H \in SUBSET Pool
  BY ListsVisited
<1>7. \A n \in 0 .. MaxSounds : active[n] = IF n < k THEN p[n + 1] ELSE EMPTY
  BY <1>3, <1>4, WalkOfPath
<1> HIDE DEF active
<1>8. step \in [1 .. MaxSounds -> [HearType -> HearType]]
  BY <1>6, ListenAtType
<1>9. start \in HearType
  BY Sizes DEF HearType
<1>10. Is(walked)
  <2>1. PICK f : Solves(f, MaxSounds, HearType, start, step)
    <3> HIDE DEF step, start
    <3> QED
      BY <1>8, <1>9, Sizes, RecursionExists
  <2>2. ASSUME NEW n \in 1 .. MaxSounds PROVE f[n] = ListenAt(f[n - 1], active[n - 1], H)
    <3>1. f[n - 1] \in HearType /\ f[n] = step[n][f[n - 1]]
      BY <2>1, Sizes DEF Solves
    <3> QED
      BY <3>1
  <2>3. f \in [0 .. MaxSounds -> HearType] /\ f[0] = start
    BY <2>1 DEF Solves
  <2> HIDE DEF start
  <2>4. Is(f)
    BY <2>2, <2>3, Sizes
  <2> QED
    BY <2>4
<1> HIDE DEF walked
<1>11. /\ walked[0] = start
       /\ \A n \in 1 .. MaxSounds : walked[n] = ListenAt(walked[n - 1], active[n - 1], H)
  <2> HIDE DEF start
  <2>1. \A n \in 0 .. MaxSounds :
            walked[n] = IF n = 0 THEN start ELSE ListenAt(walked[n - 1], active[n - 1], H)
    BY <1>10
  <2>2. 0 \in 0 .. MaxSounds
        /\ \A n \in 1 .. MaxSounds : n \in 0 .. MaxSounds /\ n # 0
    BY Sizes
  <2> QED
    BY <2>1, <2>2
<1> DEFINE T == {n \in 0 .. MaxSounds :
                    HearStage(IF n < k THEN n ELSE k, walked[n], p, H, audible)}
<1>12. 0 \in T
  <2>1. HearStage(0, start, p, H, audible)
    BY <1>9 DEF HearStage
  <2>2. (IF 0 < k THEN 0 ELSE k) = 0 /\ 0 \in 0 .. MaxSounds
    BY <1>5, Sizes
  <2> HIDE DEF start
  <2> QED
    BY <2>1, <2>2, <1>11
<1>13. ASSUME NEW n \in 1 .. MaxSounds, n - 1 \in T PROVE n \in T
  <2>1. HearStage(IF n - 1 < k THEN n - 1 ELSE k, walked[n - 1], p, H, audible)
    BY <1>13
  <2>2. /\ walked[n] = ListenAt(walked[n - 1], active[n - 1], H)
        /\ active[n - 1] = IF n - 1 < k THEN p[(n - 1) + 1] ELSE EMPTY
    BY <1>7, <1>11, Sizes
  <2>3. CASE n - 1 < k
    <3>1. n - 1 \in 0 .. k - 1 /\ (n - 1) + 1 = n /\ (IF n < k THEN n ELSE k) = n
          /\ k \in Nat /\ n \in 0 .. MaxSounds
      BY <2>3, <1>5
    <3>2. HearStage(n - 1, walked[n - 1], p, H, audible)
      BY <2>1, <2>3
    <3>3. HearStage((n - 1) + 1, ListenAt(walked[n - 1], p[(n - 1) + 1], H), p, H, audible)
      BY <3>1, <3>2, <1>5, <1>6, HearStageStep
    <3> QED
      BY <3>1, <3>3, <2>2, <2>3
  <2>4. CASE ~(n - 1 < k)
    <3>1. walked[n] = walked[n - 1]
      BY <2>2, <2>4, <1>6, Sizes DEF ListenAt
    <3>2. ~(n < k) /\ n \in 0 .. MaxSounds
      BY <2>4, <1>5
    <3> QED
      BY <3>1, <3>2, <2>1, <2>4
  <2> QED
    BY <2>3, <2>4
<1>14. MaxSounds \in T
  <2>1. MaxSounds \in 0 .. MaxSounds /\ MaxSounds \in Nat
    BY Sizes
  <2> HIDE DEF T
  <2> QED
    BY <2>1, <1>12, <1>13, Induct
<1>15. HearStage(k, walked[MaxSounds], p, H, audible)
  <2>1. (IF MaxSounds < k THEN MaxSounds ELSE k) = k
    BY <1>5, Sizes
  <2> QED
    BY <2>1, <1>14
<1>16. k \in Nat
  BY <1>5
<1> QED
  BY <1>1, <1>2, <1>5, <1>15, <1>16

-----------------------------------------------------------------------------
(* The audible lists                                                        *)

\* The links of the sounds of M end or lead to a sound of M of lower rank.
Descends(aud, M, rank) ==
    /\ M \in SUBSET Pool
    /\ rank \in [Pool -> Nat]
    /\ \A s \in M : aud[s] # EMPTY => aud[s] \in M /\ rank[aud[s]] < rank[s]

\* The sounds somebody heard since the load descend; only a monster that has
\* not listened yet can be at sound 0 without.
AudibleGood(aud, hd) ==
    \E M, rank : /\ Descends(aud, M, rank)
                 /\ \A m \in Monsters : hd[m] \in M \cup {EMPTY, 0}
                 /\ 0 \notin M => aud[0] = 0

\* A walk that descends ends: it cannot visit more sounds than there are.
LEMMA DescentEnds ==
    ASSUME NEW aud \in [Pool -> Index], NEW M, NEW rank, Descends(aud, M, rank),
           NEW h \in M \cup {EMPTY}
    PROVE  Ends(aud, h)
<1> DEFINE w == Walk(aud, h)
           T == {n \in 0 .. MaxSounds :
                    w[n] # EMPTY => /\ w[n] \in M
                                    /\ \A i \in 0 .. n - 1 :
                                          w[i] \in M /\ rank[w[n]] < rank[w[i]]}
<1>1. /\ M \in SUBSET Pool /\ rank \in [Pool -> Nat]
      /\ \A s \in M : aud[s] # EMPTY => aud[s] \in M /\ rank[aud[s]] < rank[s]
  BY DEF Descends
<1>2. /\ w[0] = h
      /\ \A n \in 1 .. MaxSounds :
             w[n] = IF w[n - 1] = EMPTY THEN EMPTY ELSE aud[w[n - 1]]
  <2>1. h \in Index
    BY <1>1, Sizes
  <2> QED
    BY <2>1, WalkSteps
<1> HIDE DEF w
<1>3. 0 \in T
  BY <1>2, Sizes
<1>4. ASSUME NEW n \in 1 .. MaxSounds, n - 1 \in T PROVE n \in T
  <2> SUFFICES ASSUME w[n] # EMPTY
               PROVE  /\ w[n] \in M
                      /\ \A i \in 0 .. n - 1 : w[i] \in M /\ rank[w[n]] < rank[w[i]]
    OBVIOUS
  <2>1. w[n - 1] # EMPTY /\ w[n] = aud[w[n - 1]]
    BY <1>2
  <2>2. /\ w[n - 1] \in M
        /\ \A i \in 0 .. n - 1 - 1 : w[i] \in M /\ rank[w[n - 1]] < rank[w[i]]
    BY <1>4, <2>1
  <2>3. w[n] \in M /\ rank[w[n]] < rank[w[n - 1]]
    BY <1>1, <2>1, <2>2
  <2>4. ASSUME NEW i \in 0 .. n - 1
        PROVE  w[i] \in M /\ rank[w[n]] < rank[w[i]]
    <3>1. CASE i = n - 1
      BY <3>1, <2>2, <2>3
    <3>2. CASE i # n - 1
      <4>1. i \in 0 .. n - 1 - 1
        BY <3>2
      <4>2. w[i] \in M /\ rank[w[n - 1]] < rank[w[i]]
        BY <4>1, <2>2
      <4>3. rank[w[n]] \in Nat /\ rank[w[n - 1]] \in Nat /\ rank[w[i]] \in Nat
        BY <4>2, <2>2, <2>3, <1>1
      <4> QED
        BY <4>2, <4>3, <2>3
    <3> QED
      BY <3>1, <3>2
  <2> QED
    BY <2>3, <2>4
<1>5. \A n \in 0 .. MaxSounds : n \in T
  <2>1. MaxSounds \in Nat
    BY Sizes
  <2> HIDE DEF T
  <2> QED
    BY <2>1, <1>3, <1>4, Induct
<1>6. w[MaxSounds] = EMPTY
  <2> SUFFICES ASSUME w[MaxSounds] # EMPTY PROVE FALSE
    OBVIOUS
  <2>1. /\ w[MaxSounds] \in M
        /\ \A i \in 0 .. MaxSounds - 1 : w[i] \in M
    BY <1>5, Sizes
  <2>2. \A n \in 0 .. MaxSounds : w[n] \in M /\ w[n] # EMPTY
    <3>1. \A n \in 0 .. MaxSounds : n \in 0 .. MaxSounds - 1 \/ n = MaxSounds
      BY Sizes
    <3> QED
      BY <3>1, <2>1, <1>1, Sizes
  <2>3. \A n \in 0 .. MaxSounds : \A i \in 0 .. n - 1 : rank[w[n]] < rank[w[i]]
    BY <2>2, <1>5
  <2> DEFINE f == [n \in 0 .. MaxSounds |-> w[n]]
  <2>4. f \in [0 .. MaxSounds -> Pool]
    BY <2>2, <1>1
  <2>5. /\ IsFiniteSet(0 .. MaxSounds) /\ Cardinality(0 .. MaxSounds) = MaxSounds + 1
        /\ IsFiniteSet(Pool) /\ Cardinality(Pool) = MaxSounds
    <3>1. /\ IsFiniteSet(0 .. MaxSounds) /\ Cardinality(0 .. MaxSounds) = MaxSounds - 0 + 1
          /\ IsFiniteSet(0 .. MaxSounds - 1)
          /\ Cardinality(0 .. MaxSounds - 1) = MaxSounds - 1 - 0 + 1
      BY Sizes, FS_Interval
    <3> QED
      BY <3>1, Sizes DEF Pool
  <2>6. Cardinality(Pool) < Cardinality(0 .. MaxSounds)
    BY <2>5, Sizes
  <2>7. PICK i, j \in 0 .. MaxSounds : i # j /\ f[i] = f[j]
    <3>1. IsFiniteSet(0 .. MaxSounds) /\ IsFiniteSet(Pool)
      BY <2>5
    <3> HIDE DEF f
    <3>2. \E i, j \in 0 .. MaxSounds : i # j /\ f[i] = f[j]
      BY <2>4, <2>6, <3>1, FS_PigeonHole
    <3> QED
      BY <3>2
  <2>8. w[i] = w[j] /\ rank[w[i]] \in Nat
    BY <2>2, <2>7, <1>1
  <2>9. CASE i < j
    <3>1. i \in 0 .. j - 1
      BY <2>9
    <3> QED
      BY <3>1, <2>3, <2>8
  <2>10. CASE j < i
    <3>1. j \in 0 .. i - 1
      BY <2>10
    <3> QED
      BY <3>1, <2>3, <2>8
  <2> QED
    BY <2>7, <2>9, <2>10
<1> QED
  BY <1>6 DEF Ends, w

\* A Listen keeps the audible lists good: what it hears descends in the order
\* of the active list, and all that leads into it is ranked above.
LEMMA ListenGood ==
    ASSUME NEW A, NEW F, Lists(list, A, F), audible \in [Pool -> Index],
           heard \in [Monsters -> Index], AudibleGood(audible, heard),
           NEW m \in Monsters, NEW H \in SUBSET A, Listen(m, H)
    PROVE  /\ audible' \in [Pool -> Index]
           /\ heard' \in [Monsters -> Index]
           /\ AudibleGood(audible', heard')
<1>1. PICK k, p, w : /\ k \in Nat
                     /\ p \in [1 .. k -> Pool]
                     /\ \A i, j \in 1 .. k : p[i] = p[j] => i = j
                     /\ A = Members(k, p)
                     /\ HearStage(k, w, p, H, audible)
                     /\ audible' = w.aud
                     /\ heard' = [heard EXCEPT ![m] = w.head]
  BY ListenWalk
<1>2. /\ w \in HearType
      /\ \A i \in 1 .. k :
             p[i] \in H => \/ w.aud[p[i]] = EMPTY
                           \/ \E j \in 1 .. i - 1 : p[j] \in H /\ w.aud[p[i]] = p[j]
      /\ \A s \in Pool \ H : w.aud[s] = audible[s]
      /\ w.head # EMPTY => \E j \in 1 .. k : p[j] \in H /\ w.head = p[j]
  BY <1>1 DEF HearStage
<1>3. audible' \in [Pool -> Index] /\ w.head \in Index
  BY <1>1, <1>2 DEF HearType
<1>4. heard' \in [Monsters -> Index]
  BY <1>1, <1>3
<1>5. PICK M, rank : /\ Descends(audible, M, rank)
                     /\ \A n \in Monsters : heard[n] \in M \cup {EMPTY, 0}
                     /\ 0 \notin M => audible[0] = 0
  BY DEF AudibleGood
<1>6. /\ M \in SUBSET Pool /\ rank \in [Pool -> Nat]
      /\ \A s \in M : audible[s] # EMPTY => audible[s] \in M /\ rank[audible[s]] < rank[s]
  BY <1>5 DEF Descends
<1>7. H \subseteq Pool /\ \A s \in H : \E i \in 1 .. k : s = p[i]
  BY <1>1 DEF Members
<1> DEFINE at(s) == CHOOSE i \in 1 .. k : s = p[i]
           higher == [s \in Pool |-> IF s \in H THEN at(s) ELSE rank[s] + k]
           N == M \cup H
<1>8. \A s \in H : at(s) \in 1 .. k /\ s = p[at(s)]
  BY <1>7
<1> HIDE DEF at
<1>9. N \in SUBSET Pool /\ higher \in [Pool -> Nat]
  <2>1. \A s \in Pool : s \in H => at(s) \in Nat
    BY <1>8
  <2>2. \A s \in Pool : rank[s] + k \in Nat
    BY <1>1, <1>6
  <2> QED
    BY <2>1, <2>2, <1>6, <1>7
<1>10. ASSUME NEW s \in N, audible'[s] # EMPTY
       PROVE  audible'[s] \in N /\ higher[audible'[s]] < higher[s]
  <2>1. CASE s \in H
    <3>1. at(s) \in 1 .. k /\ s = p[at(s)]
      BY <2>1, <1>8
    <3>2. PICK j \in 1 .. at(s) - 1 : p[j] \in H /\ audible'[s] = p[j]
      BY <3>1, <2>1, <1>1, <1>2, <1>10
    <3>3. j \in 1 .. k /\ j < at(s)
      BY <3>1, <1>1
    <3>4. at(p[j]) \in 1 .. k /\ p[j] = p[at(p[j])]
      BY <3>2, <1>8
    <3>5. at(p[j]) = j
      BY <3>3, <3>4, <1>1
    <3>6. higher[p[j]] = j /\ higher[s] = at(s)
      BY <3>2, <3>5, <2>1, <1>7
    <3> QED
      BY <3>2, <3>3, <3>6
  <2>2. CASE s \notin H
    <3>1. s \in M /\ s \in Pool /\ audible'[s] = audible[s]
      BY <2>2, <1>1, <1>2, <1>6
    <3> DEFINE t == audible[s]
    <3>2. t \in M /\ t \in Pool /\ rank[t] < rank[s] /\ rank[t] \in Nat /\ rank[s] \in Nat
      BY <3>1, <1>6, <1>10
    <3>3. higher[s] = rank[s] + k
      BY <3>1, <2>2
    <3> HIDE DEF t
    <3>4. CASE t \in H
      <4>1. higher[t] = at(t) /\ at(t) \in 1 .. k
        BY <3>2, <3>4, <1>8
      <4> QED
        BY <4>1, <3>1, <3>2, <3>3, <1>1 DEF t
    <3>5. CASE t \notin H
      <4>1. higher[t] = rank[t] + k
        BY <3>2, <3>5
      <4> QED
        BY <4>1, <3>1, <3>2, <3>3, <1>1 DEF t
    <3> QED
      BY <3>4, <3>5
  <2> QED
    BY <2>1, <2>2
<1>11. ASSUME NEW n \in Monsters PROVE heard'[n] \in N \cup {EMPTY, 0}
  <2>1. CASE n = m
    <3>1. heard'[n] = w.head
      BY <2>1, <1>1
    <3> QED
      BY <3>1, <1>2
  <2>2. CASE n # m
    <3>1. heard'[n] = heard[n]
      BY <2>2, <1>1
    <3> QED
      BY <3>1, <1>5
  <2> QED
    BY <2>1, <2>2
<1>12. 0 \notin N => audible'[0] = 0
  <2>1. 0 \in Pool
    BY Sizes DEF Pool
  <2> QED
    BY <2>1, <1>1, <1>2, <1>5
<1> HIDE DEF N, higher
<1>13. Descends(audible', N, higher)
  BY <1>9, <1>10 DEF Descends
<1> QED
  BY <1>3, <1>4, <1>11, <1>12, <1>13 DEF AudibleGood

-----------------------------------------------------------------------------
(* The inductive invariant                                                  *)

SoundIInv ==
    /\ TypeOK
    /\ Lists(list, ActiveSounds, FreeSounds)
    /\ \A c \in Reserved : expire[c] = NEVER_EXPIRE
    /\ AudibleGood(audible, heard)

\* After Initialize the reserved sounds are active and the others free.
LEMMA InitialLists == Lists(InitialList, Reserved, Pool \ Reserved)
<1> DEFINE qa == [i \in 1 .. MaxClients |-> MaxClients - i]
           kf == MaxSounds - MaxClients
           qf == [i \in 1 .. kf |-> MaxClients + i - 1]
<1>1. /\ InitialList \in ListType
      /\ Threaded(InitialList, MaxClients, qa, kf, qf)
      /\ \A c \in Reserved : InitialList.next[c] = c - 1
  BY InitialThreads
<1>2. Members(MaxClients, qa) = Reserved
  <2>1. \A i \in 1 .. MaxClients : qa[i] \in Reserved
    BY Sizes DEF Reserved
  <2>2. \A c \in Reserved : MaxClients - c \in 1 .. MaxClients /\ qa[MaxClients - c] = c
    BY Sizes DEF Reserved
  <2> HIDE DEF qa
  <2> QED
    BY <2>1, <2>2 DEF Members
<1>3. Members(kf, qf) = Pool \ Reserved
  <2>1. \A i \in 1 .. kf : qf[i] \in Pool \ Reserved
    BY Sizes DEF Reserved, Pool
  <2>2. \A s \in Pool \ Reserved : s - MaxClients + 1 \in 1 .. kf /\ qf[s - MaxClients + 1] = s
    BY Sizes DEF Reserved, Pool
  <2> HIDE DEF qf, kf
  <2> QED
    BY <2>1, <2>2 DEF Members
<1>4. TailSorted(InitialList)
  BY <1>1 DEF TailSorted
<1> HIDE DEF qa, kf, qf
<1>5. (Pool \ Reserved) \cap Reserved = {}
  OBVIOUS
<1> QED
  BY <1>1, <1>2, <1>3, <1>4, <1>5 DEF Lists

\* A pool nobody has listened to.
LEMMA SilentGood ==
    ASSUME NEW aud, NEW hd, aud = [s \in Pool |-> 0], hd = [m \in Monsters |-> 0]
    PROVE  /\ aud \in [Pool -> Index]
           /\ hd \in [Monsters -> Index]
           /\ AudibleGood(aud, hd)
<1>1. 0 \in Pool /\ 0 \in Index
  BY Sizes DEF Pool, Index
<1> DEFINE rank == [s \in Pool |-> 0]
<1>2. Descends(aud, {}, rank)
  BY DEF Descends
<1>3. aud[0] = 0
  BY <1>1
<1> HIDE DEF rank
<1>4. \A m \in Monsters : hd[m] \in {} \cup {EMPTY, 0}
  OBVIOUS
<1>5. AudibleGood(aud, hd)
  BY <1>2, <1>3, <1>4 DEF AudibleGood
<1> QED
  BY <1>1, <1>5

LEMMA InitialExpireType ==
    /\ InitialExpire \in [Pool -> Int]
    /\ \A c \in Reserved : InitialExpire[c] = NEVER_EXPIRE
  BY Sizes DEF InitialExpire, NEVER_EXPIRE

\* What the walks visit after a step, from the sets that its lists thread.
LEMMA ListsThen ==
    ASSUME NEW A, NEW F, Lists(list', A, F)
    PROVE  /\ ActiveSounds' = A
           /\ FreeSounds' = F
           /\ Lists(list', ActiveSounds', FreeSounds')
           /\ list' \in [next : [Pool -> Index], active : Index, free : Index]
<1>1. Visited(list'.next, list'.active) = A /\ Visited(list'.next, list'.free) = F
  BY ListsVisited
<1>2. ActiveSounds' = A /\ FreeSounds' = F
  BY <1>1 DEF ActiveSounds, FreeSounds
<1> QED
  BY <1>2 DEF Lists, ListType

LEMMA InitSoundIInv == Init => SoundIInv
<1> SUFFICES ASSUME Init PROVE SoundIInv
  OBVIOUS
<1>1. Lists(list, Reserved, Pool \ Reserved)
  BY InitialLists DEF Init
<1>2. ActiveSounds = Reserved /\ FreeSounds = Pool \ Reserved
  BY <1>1, ListsVisited DEF ActiveSounds, FreeSounds
<1>3. /\ audible \in [Pool -> Index] /\ heard \in [Monsters -> Index]
      /\ AudibleGood(audible, heard)
  BY SilentGood DEF Init
<1>4. list \in [next : [Pool -> Index], active : Index, free : Index]
  BY <1>1 DEF Lists, ListType
<1>5. TypeOK
  BY <1>3, <1>4, InitialExpireType, SoundAssumption DEF Init, TypeOK
<1> QED
  BY <1>1, <1>2, <1>3, <1>5, InitialExpireType DEF Init, SoundIInv

-----------------------------------------------------------------------------
(* The actions: each keeps the invariant and moves sounds as SoundPool says *)

\* A step the sound pool allows, or none.
PoolStep == Abstract!Next \/ UNCHANGED <<ActiveSounds, FreeSounds>>

LEMMA SoundFacts ==
    ASSUME SoundIInv
    PROVE  /\ Lists(list, ActiveSounds, FreeSounds)
           /\ list \in ListType
           /\ list.next \in [Pool -> Index]
           /\ list.free \in Index
           /\ expire \in [Pool -> Int]
           /\ audible \in [Pool -> Index]
           /\ loud \in [Pool -> BOOLEAN]
           /\ heard \in [Monsters -> Index]
           /\ now \in 0 .. MaxTime
           /\ MaxTime \in Nat
           /\ \A c \in Reserved : expire[c] = NEVER_EXPIRE
           /\ AudibleGood(audible, heard)
           /\ ActiveSounds \subseteq Pool
           /\ FreeSounds \subseteq Pool
           /\ ActiveSounds \cap FreeSounds = {}
           /\ FreeSounds \cap Reserved = {}
<1>1. Lists(list, ActiveSounds, FreeSounds)
  BY DEF SoundIInv
<1>2. /\ ActiveSounds \subseteq Pool /\ FreeSounds \subseteq Pool
      /\ ActiveSounds \cap FreeSounds = {}
  BY <1>1, ListsVisited
<1>3. list \in ListType /\ FreeSounds \cap Reserved = {}
  BY <1>1 DEF Lists
<1> QED
  BY <1>1, <1>2, <1>3, SoundAssumption DEF SoundIInv, TypeOK, ListType

LEMMA InsertSoundGood ==
    ASSUME SoundIInv, NEW d \in Durations, InsertSound(d)
    PROVE  SoundIInv' /\ PoolStep
<1> DEFINE s == list.free
<1>1. s \in FreeSounds /\ Lists(list', ActiveSounds \cup {s}, FreeSounds \ {s})
  BY SoundFacts, AllocLists DEF InsertSound
<1>2. /\ ActiveSounds' = ActiveSounds \cup {s}
      /\ FreeSounds' = FreeSounds \ {s}
      /\ Lists(list', ActiveSounds', FreeSounds')
      /\ list' \in [next : [Pool -> Index], active : Index, free : Index]
  BY <1>1, ListsThen
<1>3. s \in Pool /\ s \notin Reserved
  BY <1>1, SoundFacts
<1>4. now + d \in Int
  BY SoundFacts, SoundAssumption
<1>5. expire' = [expire EXCEPT ![s] = now + d]
      /\ loud' = [loud EXCEPT ![s] = TRUE] /\ UNCHANGED <<audible, heard, now>>
  BY DEF InsertSound
<1>6. expire' \in [Pool -> Int] /\ \A c \in Reserved : expire'[c] = NEVER_EXPIRE
  BY <1>3, <1>4, <1>5, SoundFacts, Sizes
<1>7. loud' \in [Pool -> BOOLEAN]
  BY <1>5, SoundFacts
<1>8. AudibleGood(audible', heard')
  BY <1>5, SoundFacts
<1>9. TypeOK'
  BY <1>2, <1>5, <1>6, <1>7, SoundFacts DEF TypeOK
<1>10. Abstract!InsertSound
  BY <1>1, <1>2 DEF Abstract!InsertSound
<1> QED
  BY <1>2, <1>6, <1>8, <1>9, <1>10 DEF SoundIInv, PoolStep, Abstract!Next

LEMMA ThinkGood ==
    ASSUME SoundIInv, Think
    PROVE  SoundIInv' /\ PoolStep
<1> DEFINE E == {s \in ActiveSounds : Expired(s)}
<1>1. Lists(list', ActiveSounds \ E, FreeSounds \cup E)
  BY SoundFacts, ThinkLists
<1> HIDE DEF E
<1>2. /\ ActiveSounds' = ActiveSounds \ E
      /\ FreeSounds' = FreeSounds \cup E
      /\ Lists(list', ActiveSounds', FreeSounds')
      /\ list' \in [next : [Pool -> Index], active : Index, free : Index]
  BY <1>1, ListsThen
<1>3. UNCHANGED <<expire, audible, loud, heard, now>>
  BY DEF Think
<1>4. TypeOK'
  BY <1>2, <1>3, SoundFacts DEF TypeOK
<1>5. SoundIInv'
  BY <1>2, <1>3, <1>4, SoundFacts DEF SoundIInv
<1>6. CASE E = {}
  BY <1>2, <1>5, <1>6 DEF PoolStep
<1>7. CASE E # {}
  <2>1. E \subseteq ActiveSounds /\ E \cap Reserved = {}
    BY SoundFacts DEF E, Expired
  <2>2. ActiveSounds \ ActiveSounds' = E
    BY <2>1, <1>2
  <2>3. Abstract!Expire
    BY <1>2, <1>7, <2>1, <2>2 DEF Abstract!Expire, Abstract!Reserved, Reserved
  <2> QED
    BY <1>5, <2>3 DEF PoolStep, Abstract!Next
<1> QED
  BY <1>6, <1>7

LEMMA ClientResetGood ==
    ASSUME SoundIInv, NEW c \in Reserved, ClientReset(c)
    PROVE  SoundIInv' /\ PoolStep
<1> DEFINE A == IF c \in ActiveSounds THEN ActiveSounds \ (0 .. c - 1) ELSE ActiveSounds
<1>1. Lists(list', A, FreeSounds)
  BY SoundFacts, ResetLists DEF ClientReset
<1> HIDE DEF A
<1>2. /\ ActiveSounds' = A
      /\ FreeSounds' = FreeSounds
      /\ Lists(list', ActiveSounds', FreeSounds')
      /\ list' \in [next : [Pool -> Index], active : Index, free : Index]
  BY <1>1, ListsThen
<1>3. loud' = [loud EXCEPT ![c] = FALSE] /\ UNCHANGED <<expire, audible, heard, now>>
  BY DEF ClientReset
<1>4. loud' \in [Pool -> BOOLEAN]
  BY <1>3, SoundFacts
<1>5. TypeOK'
  BY <1>2, <1>3, <1>4, SoundFacts DEF TypeOK
<1>6. SoundIInv'
  BY <1>2, <1>3, <1>5, SoundFacts DEF SoundIInv
<1>7. CASE c \in ActiveSounds
  <2>1. Abstract!Reset(c)
    BY <1>2, <1>7 DEF A, Abstract!Reset
  <2>2. c \in Abstract!Reserved
    BY DEF Abstract!Reserved, Reserved
  <2> QED
    BY <1>6, <2>1, <2>2 DEF PoolStep, Abstract!Next
<1>8. CASE c \notin ActiveSounds
  BY <1>2, <1>6, <1>8 DEF PoolStep, A
<1> QED
  BY <1>7, <1>8

\* Steps that leave the lists alone stutter on the pool.
LEMMA SameLists ==
    ASSUME SoundIInv, UNCHANGED list
    PROVE  /\ ActiveSounds' = ActiveSounds
           /\ FreeSounds' = FreeSounds
           /\ Lists(list', ActiveSounds', FreeSounds')
  BY SoundFacts DEF ActiveSounds, FreeSounds

LEMMA UpdatePlayerSoundGood ==
    ASSUME SoundIInv, NEW c \in Reserved, UpdatePlayerSound(c)
    PROVE  SoundIInv' /\ PoolStep
<1>1. loud' = [loud EXCEPT ![c] = TRUE] /\ UNCHANGED <<list, expire, audible, heard, now>>
  BY DEF UpdatePlayerSound
<1>2. loud' \in [Pool -> BOOLEAN]
  BY <1>1, SoundFacts
<1>3. TypeOK'
  BY <1>1, <1>2 DEF SoundIInv, TypeOK
<1>4. /\ ActiveSounds' = ActiveSounds
      /\ FreeSounds' = FreeSounds
      /\ Lists(list', ActiveSounds', FreeSounds')
  BY <1>1, SameLists
<1> QED
  BY <1>1, <1>3, <1>4, SoundFacts DEF SoundIInv, PoolStep

LEMMA ListenKeeps ==
    ASSUME SoundIInv, NEW m \in Monsters, NEW H \in SUBSET Audible, Listen(m, H)
    PROVE  SoundIInv' /\ PoolStep
<1>1. UNCHANGED <<list, expire, loud, now>>
  BY DEF Listen
<1>2. H \in SUBSET ActiveSounds
  BY DEF Audible
<1>3. /\ audible' \in [Pool -> Index]
      /\ heard' \in [Monsters -> Index]
      /\ AudibleGood(audible', heard')
  BY <1>2, SoundFacts, ListenGood
<1>4. /\ ActiveSounds' = ActiveSounds
      /\ FreeSounds' = FreeSounds
      /\ Lists(list', ActiveSounds', FreeSounds')
  BY <1>1, SameLists
<1>5. TypeOK'
  BY <1>1, <1>3 DEF SoundIInv, TypeOK
<1> QED
  BY <1>1, <1>3, <1>4, <1>5, SoundFacts DEF SoundIInv, PoolStep

LEMMA LoadLevelGood ==
    ASSUME SoundIInv, LoadLevel
    PROVE  SoundIInv' /\ PoolStep
<1>1. Lists(list', Reserved, Pool \ Reserved)
  BY InitialLists DEF LoadLevel
<1>2. /\ ActiveSounds' = Reserved
      /\ FreeSounds' = Pool \ Reserved
      /\ Lists(list', ActiveSounds', FreeSounds')
      /\ list' \in [next : [Pool -> Index], active : Index, free : Index]
  BY <1>1, ListsThen
<1>3. /\ audible' \in [Pool -> Index]
      /\ heard' \in [Monsters -> Index]
      /\ AudibleGood(audible', heard')
  BY SilentGood DEF LoadLevel
<1>4. expire' \in [Pool -> Int] /\ \A c \in Reserved : expire'[c] = NEVER_EXPIRE
  BY InitialExpireType DEF LoadLevel
<1>5. loud' \in [Pool -> BOOLEAN] /\ now' = now
  BY DEF LoadLevel
<1>6. TypeOK'
  BY <1>2, <1>3, <1>4, <1>5, SoundFacts DEF TypeOK
<1>7. Abstract!NewLevel
  BY <1>2 DEF Abstract!NewLevel, Abstract!Pool, Abstract!Reserved, Pool, Reserved
<1> QED
  BY <1>2, <1>3, <1>4, <1>6, <1>7 DEF SoundIInv, PoolStep, Abstract!Next

LEMMA TickGood ==
    ASSUME SoundIInv, Tick
    PROVE  SoundIInv' /\ PoolStep
<1>1. now' \in 0 .. MaxTime /\ UNCHANGED <<list, expire, audible, loud, heard>>
  BY SoundFacts DEF Tick
<1>2. TypeOK'
  BY <1>1 DEF SoundIInv, TypeOK
<1>3. /\ ActiveSounds' = ActiveSounds
      /\ FreeSounds' = FreeSounds
      /\ Lists(list', ActiveSounds', FreeSounds')
  BY <1>1, SameLists
<1> QED
  BY <1>1, <1>2, <1>3, SoundFacts DEF SoundIInv, PoolStep

LEMMA NextSoundIInv ==
    ASSUME SoundIInv, [Next]_vars
    PROVE  SoundIInv' /\ PoolStep
<1>1. CASE UNCHANGED vars
  <2>1. UNCHANGED <<list, expire, audible, loud, heard, now>>
    BY <1>1 DEF vars
  <2>2. /\ ActiveSounds' = ActiveSounds
        /\ FreeSounds' = FreeSounds
        /\ Lists(list', ActiveSounds', FreeSounds')
    BY <2>1, SameLists
  <2>3. TypeOK'
    BY <2>1 DEF SoundIInv, TypeOK
  <2> QED
    BY <2>1, <2>2, <2>3, SoundFacts DEF SoundIInv, PoolStep
<1>2. CASE Next
  BY <1>2, InsertSoundGood, ThinkGood, ClientResetGood, UpdatePlayerSoundGood,
     ListenKeeps, LoadLevelGood, TickGood DEF Next
<1> QED
  BY <1>1, <1>2

LEMMA SpecSoundIInv == Spec => []SoundIInv
<1>1. SoundIInv /\ [Next]_vars => SoundIInv'
  BY NextSoundIInv
<1> QED
  BY InitSoundIInv, <1>1, PTL DEF Spec

(***************************************************************************)
(* The links, heads and times of the sounds have the values their fields   *)
(* are declared with, through every walk that rewrites them                *)
(* (CSoundEnt::Think, CBaseMonster::Listen).                               *)
(***************************************************************************)
THEOREM SoundEntTypes == Spec => []TypeOK
<1>1. SoundIInv => TypeOK
  BY DEF SoundIInv
<1> QED
  BY SpecSoundIInv, <1>1, PTL

(***************************************************************************)
(* The loops over the active and the free list end and meet no sound       *)
(* twice, for any number of sounds and clients (CSoundEnt::IAllocSound,    *)
(* FreeSound, Think, Initialize and CSound::Reset).                        *)
(***************************************************************************)
THEOREM SoundListsAreSound == Spec => []ListsAreSound
<1>1. ASSUME SoundIInv PROVE ListsAreSound
  <2>1. Lists(list, ActiveSounds, FreeSounds)
    BY <1>1 DEF SoundIInv
  <2> QED
    BY <2>1, ListsVisited DEF ListsAreSound
<1> QED
  BY SpecSoundIInv, <1>1, PTL

(***************************************************************************)
(* The walk over the sounds a monster heard ends, for any number of        *)
(* monsters that share the links (CBaseMonster::Listen, PBestSound).       *)
(***************************************************************************)
THEOREM AudibleWalksEnd == Spec => []AudibleWalkEnds
<1>1. ASSUME SoundIInv PROVE AudibleWalkEnds
  <2>1. PICK M, rank : /\ Descends(audible, M, rank)
                       /\ \A m \in Monsters : heard[m] \in M \cup {EMPTY, 0}
                       /\ 0 \notin M => audible[0] = 0
    BY <1>1, SoundFacts DEF AudibleGood
  <2>2. audible \in [Pool -> Index]
    BY <1>1, SoundFacts
  <2>3. ASSUME NEW m \in Monsters
        PROVE  Ends(audible, heard[m]) \/ (heard[m] = 0 /\ audible[0] = 0)
    <3>1. CASE heard[m] \in M \cup {EMPTY}
      BY <3>1, <2>1, <2>2, DescentEnds
    <3>2. CASE heard[m] \notin M \cup {EMPTY}
      BY <3>2, <2>1
    <3> QED
      BY <3>1, <3>2
  <2> QED
    BY <2>3 DEF AudibleWalkEnds
<1> QED
  BY SpecSoundIInv, <1>1, PTL

(***************************************************************************)
(* The linked lists of dlls/soundent.cpp implement the pool of sets, step  *)
(* by step: an insertion, an expiry, a reset and a new level of the lists  *)
(* are those of SoundPool, and all else leaves the pool alone.             *)
(***************************************************************************)
THEOREM SoundEntImplementsPool == Spec => ImplementsPool
<1>1. Init => Abstract!Init
  <2> SUFFICES ASSUME Init PROVE Abstract!Init
    OBVIOUS
  <2>1. Lists(list, Reserved, Pool \ Reserved)
    BY InitialLists DEF Init
  <2>2. ActiveSounds = Reserved /\ FreeSounds = Pool \ Reserved
    BY <2>1, ListsVisited DEF ActiveSounds, FreeSounds
  <2> QED
    BY <2>2 DEF Abstract!Init, Abstract!Pool, Abstract!Reserved, Pool, Reserved
<1>2. SoundIInv /\ [Next]_vars => [Abstract!Next]_(Abstract!vars)
  BY NextSoundIInv DEF PoolStep, Abstract!vars
<1> QED
  BY SpecSoundIInv, <1>1, <1>2, PTL DEF Spec, ImplementsPool, Abstract!Spec

Promised == INSTANCE SoundPoolProofs WITH active <- ActiveSounds, free <- FreeSounds

(***************************************************************************)
(* So what the pool promises holds of the lists: no world sound leaks, no  *)
(* client's sound is handed out, and a reset only cuts off the sounds of   *)
(* lower clients (CSound::Reset).                                          *)
(***************************************************************************)
THEOREM SoundEntKeepsPool == Spec => []Abstract!PoolIsSound
<1> USE DEF Promised!Pool, Promised!Reserved, Abstract!Pool, Abstract!Reserved
<1>1. Promised!Spec => []Promised!PoolIsSound
  <2>1. MaxSounds \in Nat /\ MaxClients \in 1 .. MaxSounds
    BY SoundAssumption
  <2> QED
    BY <2>1, Promised!PoolSound, PTL
<1>2. Abstract!Init => Promised!Init
  BY DEF Promised!Init, Abstract!Init
<1>3. [Abstract!Next]_(Abstract!vars) => [Promised!Next]_(Promised!vars)
  BY DEF Abstract!Next, Abstract!InsertSound, Abstract!Expire, Abstract!Reset,
         Abstract!NewLevel, Abstract!vars, Promised!Next, Promised!InsertSound,
         Promised!Expire, Promised!Reset, Promised!NewLevel, Promised!vars
<1>4. Promised!PoolIsSound => Abstract!PoolIsSound
  BY DEF Promised!PoolIsSound, Promised!NoLeak, Promised!CutIsInitialSegment,
         Abstract!PoolIsSound, Abstract!NoLeak, Abstract!CutIsInitialSegment
<1> QED
  BY SoundEntImplementsPool, <1>1, <1>2, <1>3, <1>4, PTL
     DEF ImplementsPool, Promised!Spec, Abstract!Spec
=============================================================================
