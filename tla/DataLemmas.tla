----------------------------- MODULE DataLemmas -----------------------------
(***************************************************************************)
(* What the proofs share: facts about numbers, recursive functions and     *)
(* sequences.                                                              *)
(***************************************************************************)
EXTENDS Integers, SequencesExt, SequenceTheorems, WellFoundedInduction, TLAPS

-----------------------------------------------------------------------------
(* Numbers and recursive functions                                          *)

\* A set of numbers that is not empty has a least element.
LEMMA LeastOf ==
    ASSUME NEW T \in SUBSET Nat, T # {}
    PROVE  \E i \in T : \A j \in T : i <= j
<1>1. PICK i \in T : \A j \in T : <<j, i>> \notin OpToRel(<, Nat)
  BY NatLessThanWellFounded, WFMin
<1>2. ASSUME NEW j \in T PROVE i <= j
  <2>1. ~(j < i)
    BY <1>1 DEF OpToRel
  <2> QED
    BY <2>1
<1> QED
  BY <1>2

\* The least element of a set of numbers.
LEMMA MinInSet ==
    ASSUME NEW T \in SUBSET Nat, T # {}
    PROVE  Min(T) \in T /\ \A j \in T : Min(T) <= j
  BY LeastOf DEF Min

\* Induction up to N: what holds of 0 and is passed on by each step holds of all.
LEMMA Induct ==
    ASSUME NEW N \in Nat, NEW T, 0 \in T,
           \A n \in 1 .. N : n - 1 \in T => n \in T
    PROVE  \A n \in 0 .. N : n \in T
<1> DEFINE bad == {n \in 0 .. N : n \notin T}
<1> SUFFICES ASSUME bad # {} PROVE FALSE
  OBVIOUS
<1>1. bad \in SUBSET Nat
  OBVIOUS
<1> HIDE DEF bad
<1>2. PICK n \in bad : \A j \in bad : n <= j
  BY <1>1, LeastOf
<1>3. n \in 0 .. N /\ n \notin T
  BY <1>2 DEF bad
<1>4. n \in 1 .. N
  BY <1>3
<1>5. n - 1 \in 0 .. N /\ n - 1 \notin bad
  BY <1>2, <1>4
<1> QED
  BY <1>3, <1>4, <1>5 DEF bad

\* f solves the recursion from b whose n-th step is step[n], a function on S.
Solves(f, N, S, b, step) ==
    /\ f \in [0 .. N -> S]
    /\ f[0] = b
    /\ \A n \in 1 .. N : f[n] = step[n][f[n - 1]]

\* A recursion whose n-th step is a function of the last value has a solution.
LEMMA RecursionExists ==
    ASSUME NEW N \in Nat, NEW S, NEW b \in S, NEW step \in [1 .. N -> [S -> S]]
    PROVE  \E f : Solves(f, N, S, b, step)
<1> DEFINE Upto(k, f) == /\ f \in [0 .. k -> S]
                         /\ f[0] = b
                         /\ \A n \in 1 .. k : f[n] = step[n][f[n - 1]]
           good == {k \in 0 .. N : \E f : Upto(k, f)}
<1>1. 0 \in good
  <2>1. Upto(0, [n \in 0 .. 0 |-> b])
    OBVIOUS
  <2>2. 0 \in 0 .. N
    OBVIOUS
  <2> HIDE DEF Upto
  <2> QED
    BY <2>1, <2>2
<1>2. ASSUME NEW k \in 1 .. N, k - 1 \in good PROVE k \in good
  <2>1. PICK f : Upto(k - 1, f)
    BY <1>2
  <2> DEFINE g == [n \in 0 .. k |-> IF n = k THEN step[k][f[k - 1]] ELSE f[n]]
  <2>2. f[k - 1] \in S /\ step[k] \in [S -> S]
    BY <2>1
  <2>3. g \in [0 .. k -> S]
    BY <2>1, <2>2
  <2>4. g[0] = b
    BY <2>1
  <2>5. ASSUME NEW n \in 1 .. k PROVE g[n] = step[n][g[n - 1]]
    <3>1. CASE n = k
      BY <3>1, <2>2
    <3>2. CASE n # k
      BY <3>2, <2>1, <2>2
    <3> QED
      BY <3>1, <3>2
  <2> HIDE DEF g
  <2>6. Upto(k, g) /\ k \in 0 .. N
    BY <2>3, <2>4, <2>5
  <2> HIDE DEF Upto
  <2> QED
    BY <2>6
<1>3. N \in good
  <2>1. N \in 0 .. N
    OBVIOUS
  <2> HIDE DEF good
  <2> QED
    BY <2>1, <1>1, <1>2, Induct
<1>4. PICK f : Upto(N, f)
  BY <1>3
<1> QED
  BY <1>4 DEF Solves

\* f solves a recursion whose n-th step leads from inv[n - 1] to inv[n].
Leads(N, inv, step) == \A n \in 1 .. N : \A x \in inv[n - 1] : step[n][x] \in inv[n]
Loops(f, N, inv, b, step) ==
    /\ DOMAIN f = 0 .. N /\ f = [n \in 0 .. N |-> f[n]]
    /\ f[0] = b
    /\ \A n \in 1 .. N : f[n - 1] \in inv[n - 1] /\ f[n] = step[n][f[n - 1]]

LEMMA LoopExists ==
    ASSUME NEW N \in Nat, NEW inv, NEW b \in inv[0], NEW step, Leads(N, inv, step)
    PROVE  \E f : Loops(f, N, inv, b, step)
<1> DEFINE S == UNION {inv[n] : n \in 0 .. N}
           to == [n \in 1 .. N |-> [x \in S |-> IF x \in inv[n - 1] THEN step[n][x] ELSE b]]
<1>1. 0 \in 0 .. N /\ \A n \in 1 .. N : n \in 0 .. N /\ n - 1 \in 0 .. N
  OBVIOUS
<1>2. b \in S /\ \A n \in 0 .. N : inv[n] \subseteq S
  BY <1>1
<1>3. \A n \in 1 .. N : \A x \in inv[n - 1] : step[n][x] \in S
  BY <1>1, <1>2 DEF Leads
<1> HIDE DEF S
<1>4. to \in [1 .. N -> [S -> S]]
  BY <1>2, <1>3
<1>5. PICK f : Solves(f, N, S, b, to)
  <2> HIDE DEF to
  <2> QED
    BY <1>2, <1>4, RecursionExists
<1>6. f \in [0 .. N -> S] /\ f[0] = b /\ \A n \in 1 .. N : f[n] = to[n][f[n - 1]]
  BY <1>5 DEF Solves
<1>7. \A n \in 1 .. N : f[n - 1] \in inv[n - 1] => f[n] = step[n][f[n - 1]]
  BY <1>1, <1>2, <1>6
<1> HIDE DEF to
<1> DEFINE T == {n \in 0 .. N : f[n] \in inv[n]}
<1>8. 0 \in T
  BY <1>1, <1>6
<1>9. \A n \in 1 .. N : n - 1 \in T => n \in T
  BY <1>1, <1>7 DEF Leads
<1>10. \A n \in 0 .. N : n \in T
  <2> HIDE DEF T
  <2> QED
    BY <1>8, <1>9, Induct
<1>11. \A n \in 1 .. N : f[n - 1] \in inv[n - 1]
  BY <1>1, <1>10
<1>12. DOMAIN f = 0 .. N /\ f = [n \in 0 .. N |-> f[n]]
  BY <1>6
<1> QED
  BY <1>6, <1>7, <1>11, <1>12 DEF Loops

-----------------------------------------------------------------------------
(* Sequences                                                                *)

\* A new first element.
LEMMA PushFacts ==
    ASSUME NEW S, NEW s \in Seq(S), NEW e
    PROVE  /\ e \in S => <<e>> \o s \in Seq(S)
           /\ DOMAIN (<<e>> \o s) = 1 .. Len(s) + 1
           /\ (<<e>> \o s)[1] = e
           /\ \A i \in 1 .. Len(s) : (<<e>> \o s)[i + 1] = s[i]
           /\ \A i \in 2 .. Len(s) + 1 : i - 1 \in DOMAIN s /\ (<<e>> \o s)[i] = s[i - 1]
  OBVIOUS

\* One element less: what is left comes from other places than that of the
\* element, and from each place but that one.
LEMMA RemoveFacts ==
    ASSUME NEW S, NEW s \in Seq(S), NEW k \in DOMAIN s
    PROVE  /\ RemoveAt(s, k) \in Seq(S)
           /\ \A i \in DOMAIN RemoveAt(s, k) :
                 LET j == IF i < k THEN i ELSE i + 1
                 IN  j \in DOMAIN s /\ j # k /\ RemoveAt(s, k)[i] = s[j]
           /\ \A j \in DOMAIN s \ {k} :
                 LET i == IF j < k THEN j ELSE j - 1
                 IN  i \in DOMAIN RemoveAt(s, k) /\ RemoveAt(s, k)[i] = s[j]
<1>1. k \in 1 .. Len(s) /\ Len(s) \in Nat /\ DOMAIN s = 1 .. Len(s)
  BY LenProperties
<1> DEFINE a == SubSeq(s, 1, k - 1)
           b == SubSeq(s, k + 1, Len(s))
<1>2. /\ a \in Seq(S) /\ Len(a) = k - 1 /\ \A i \in 1 .. k - 1 : a[i] = s[i]
  BY <1>1
<1>3. /\ b \in Seq(S) /\ Len(b) = Len(s) - k /\ \A i \in 1 .. Len(s) - k : b[i] = s[i + k]
  BY <1>1
<1>4. RemoveAt(s, k) = a \o b
  BY DEF RemoveAt
<1> HIDE DEF a, b
<1>5. /\ a \o b \in Seq(S) /\ Len(a \o b) = Len(s) - 1
      /\ \A i \in 1 .. Len(s) - 1 :
            (a \o b)[i] = IF i <= k - 1 THEN a[i] ELSE b[i - (k - 1)]
  <2>1. /\ a \o b \in Seq(S) /\ Len(a \o b) = Len(a) + Len(b)
        /\ \A i \in 1 .. Len(a) + Len(b) :
              (a \o b)[i] = IF i <= Len(a) THEN a[i] ELSE b[i - Len(a)]
    BY <1>2, <1>3, ConcatProperties
  <2>2. Len(a) + Len(b) = Len(s) - 1
    BY <1>1, <1>2, <1>3
  <2> QED
    BY <1>2, <2>1, <2>2
<1>6. DOMAIN (a \o b) = 1 .. Len(s) - 1
  BY <1>5
<1>7. ASSUME NEW i \in 1 .. Len(s) - 1
      PROVE  LET j == IF i < k THEN i ELSE i + 1
             IN  j \in DOMAIN s /\ j # k /\ (a \o b)[i] = s[j]
  <2>1. CASE i < k
    BY <1>1, <1>2, <1>5, <2>1
  <2>2. CASE ~(i < k)
    <3>1. i - (k - 1) \in 1 .. Len(s) - k /\ i - (k - 1) + k = i + 1
      BY <1>1, <2>2
    <3>2. b[i - (k - 1)] = s[i + 1]
      BY <1>3, <3>1
    <3> QED
      BY <1>1, <1>5, <2>2, <3>2
  <2> QED
    BY <2>1, <2>2
<1>8. ASSUME NEW j \in DOMAIN s \ {k}
      PROVE  LET i == IF j < k THEN j ELSE j - 1
             IN  i \in 1 .. Len(s) - 1 /\ (a \o b)[i] = s[j]
  <2>1. CASE j < k
    <3>1. j \in 1 .. Len(s) - 1
      BY <1>1, <2>1
    <3> QED
      BY <1>7, <2>1, <3>1
  <2>2. CASE ~(j < k)
    <3>1. j - 1 \in 1 .. Len(s) - 1 /\ ~(j - 1 < k) /\ j - 1 + 1 = j
      BY <1>1, <2>2
    <3> QED
      BY <1>7, <2>2, <3>1
  <2> QED
    BY <2>1, <2>2
<1> QED
  BY <1>4, <1>5, <1>6, <1>7, <1>8

\* Each element once.
Once(s) == \A m, n \in DOMAIN s : s[m] = s[n] => m = n
Occurs(s, x) == \E n \in DOMAIN s : s[n] = x

\* Two sequences without a common element.
LEMMA ConcatFacts ==
    ASSUME NEW S, NEW a \in Seq(S), NEW b \in Seq(S), Once(a), Once(b),
           \A x \in S : ~(Occurs(a, x) /\ Occurs(b, x))
    PROVE  /\ a \o b \in Seq(S) /\ Once(a \o b)
           /\ \A x \in S : Occurs(a \o b, x) <=> Occurs(a, x) \/ Occurs(b, x)
<1> DEFINE c == a \o b
<1>1. /\ Len(a) \in Nat /\ DOMAIN a = 1 .. Len(a) /\ \A n \in 1 .. Len(a) : a[n] \in S
      /\ Len(b) \in Nat /\ DOMAIN b = 1 .. Len(b) /\ \A n \in 1 .. Len(b) : b[n] \in S
  OBVIOUS
<1>2. /\ c \in Seq(S) /\ DOMAIN c = 1 .. Len(a) + Len(b)
      /\ \A n \in 1 .. Len(a) + Len(b) : c[n] = IF n <= Len(a) THEN a[n] ELSE b[n - Len(a)]
  <2>1. /\ c \in Seq(S) /\ Len(c) = Len(a) + Len(b)
        /\ \A n \in 1 .. Len(a) + Len(b) : c[n] = IF n <= Len(a) THEN a[n] ELSE b[n - Len(a)]
    BY ConcatProperties
  <2> QED
    BY <1>1, <2>1
<1> HIDE DEF c
<1>3. \A n \in DOMAIN c : \/ n \in DOMAIN a /\ c[n] = a[n]
                          \/ n > Len(a) /\ n - Len(a) \in DOMAIN b /\ c[n] = b[n - Len(a)]
  <2> TAKE n \in DOMAIN c
  <2>1. n \in 1 .. Len(a) + Len(b) /\ c[n] = IF n <= Len(a) THEN a[n] ELSE b[n - Len(a)]
    BY <1>2
  <2>2. CASE n <= Len(a)
    <3>1. n \in DOMAIN a
      BY <1>1, <2>1, <2>2
    <3>2. c[n] = a[n]
      BY <2>1, <2>2
    <3> QED
      BY <3>1, <3>2
  <2>3. CASE ~(n <= Len(a))
    <3>1. n > Len(a) /\ n - Len(a) \in DOMAIN b
      BY <1>1, <2>1, <2>3
    <3> QED
      BY <2>1, <2>3, <3>1
  <2> QED
    BY <2>2, <2>3
<1>4. Once(c)
  <2> SUFFICES ASSUME NEW m \in DOMAIN c, NEW n \in DOMAIN c, c[m] = c[n] PROVE m = n
    BY DEF Once
  <2>1. CASE m \in DOMAIN a /\ c[m] = a[m] /\ n \in DOMAIN a /\ c[n] = a[n]
    BY <2>1 DEF Once
  <2>2. CASE /\ m > Len(a) /\ m - Len(a) \in DOMAIN b /\ c[m] = b[m - Len(a)]
             /\ n > Len(a) /\ n - Len(a) \in DOMAIN b /\ c[n] = b[n - Len(a)]
    <3>1. m - Len(a) = n - Len(a)
      BY <2>2 DEF Once
    <3>2. m \in Int /\ n \in Int
      BY <1>2
    <3> QED
      BY <1>1, <3>1, <3>2
  <2>3. CASE m \in DOMAIN a /\ c[m] = a[m] /\ n - Len(a) \in DOMAIN b /\ c[n] = b[n - Len(a)]
    <3>1. Occurs(a, c[m]) /\ Occurs(b, c[m]) /\ c[m] \in S
      BY <1>1, <2>3 DEF Occurs
    <3> QED
      BY <3>1
  <2>4. CASE n \in DOMAIN a /\ c[n] = a[n] /\ m - Len(a) \in DOMAIN b /\ c[m] = b[m - Len(a)]
    <3>1. Occurs(a, c[n]) /\ Occurs(b, c[n]) /\ c[n] \in S
      BY <1>1, <2>4 DEF Occurs
    <3> QED
      BY <3>1
  <2> QED
    BY <1>3, <2>1, <2>2, <2>3, <2>4
<1>5. ASSUME NEW x \in S PROVE Occurs(c, x) <=> Occurs(a, x) \/ Occurs(b, x)
  <2>1. ASSUME Occurs(c, x) PROVE Occurs(a, x) \/ Occurs(b, x)
    BY <1>3, <2>1 DEF Occurs
  <2>2. ASSUME Occurs(a, x) PROVE Occurs(c, x)
    <3>1. PICK n \in DOMAIN a : a[n] = x
      BY <2>2 DEF Occurs
    <3>2. n \in DOMAIN c /\ c[n] = x
      BY <1>1, <1>2, <3>1
    <3> QED
      BY <3>2 DEF Occurs
  <2>3. ASSUME Occurs(b, x) PROVE Occurs(c, x)
    <3>1. PICK n \in DOMAIN b : b[n] = x
      BY <2>3 DEF Occurs
    <3>2. n + Len(a) \in DOMAIN c /\ ~(n + Len(a) <= Len(a)) /\ n + Len(a) - Len(a) = n
      BY <1>1, <1>2
    <3>3. c[n + Len(a)] = x
      BY <1>2, <3>1, <3>2
    <3> QED
      BY <3>2, <3>3 DEF Occurs
  <2> QED
    BY <2>1, <2>2, <2>3
<1> QED
  BY <1>2, <1>4, <1>5 DEF c

\* A set of places that is not empty has one whose number is largest.
LEMMA LargestOf ==
    ASSUME NEW N \in Nat, NEW v \in [1 .. N -> Int], NEW T \in SUBSET (1 .. N), T # {}
    PROVE  \E n \in T : \A m \in T : v[m] <= v[n]
<1> DEFINE good == {k \in 0 .. N : T \cap (1 .. k) # {} =>
                       \E n \in T \cap (1 .. k) : \A m \in T \cap (1 .. k) : v[m] <= v[n]}
<1>1. 0 \in good
  OBVIOUS
<1>2. ASSUME NEW k \in 1 .. N, k - 1 \in good PROVE k \in good
  <2>1. T \cap (1 .. k) = (T \cap (1 .. k - 1)) \cup (T \cap {k})
    OBVIOUS
  <2>2. CASE k \notin T
    <3>1. T \cap (1 .. k) = T \cap (1 .. k - 1) /\ k \in 0 .. N
      BY <2>1, <2>2
    <3> QED
      BY <1>2, <3>1
  <2>3. CASE k \in T /\ T \cap (1 .. k - 1) = {}
    <3>1. T \cap (1 .. k) = {k} /\ k \in 0 .. N /\ v[k] <= v[k]
      BY <2>1, <2>3
    <3> QED
      BY <3>1
  <2>4. CASE k \in T /\ T \cap (1 .. k - 1) # {}
    <3>1. PICK n \in T \cap (1 .. k - 1) : \A m \in T \cap (1 .. k - 1) : v[m] <= v[n]
      BY <1>2, <2>4
    <3>2. v[k] \in Int /\ v[n] \in Int /\ \A m \in T : v[m] \in Int
      BY <3>1
    <3>3. CASE v[n] <= v[k]
      <4>1. \A m \in T \cap (1 .. k) : v[m] <= v[k]
        BY <2>1, <3>1, <3>2, <3>3
      <4> QED
        BY <2>1, <2>4, <4>1
    <3>4. CASE v[k] <= v[n]
      <4>1. \A m \in T \cap (1 .. k) : v[m] <= v[n]
        BY <2>1, <3>1, <3>2, <3>4
      <4> QED
        BY <2>1, <3>1, <4>1
    <3>5. v[n] <= v[k] \/ v[k] <= v[n]
      BY <3>2
    <3>6. k \in 0 .. N
      OBVIOUS
    <3> QED
      BY <3>3, <3>4, <3>5, <3>6
  <2> QED
    BY <2>2, <2>3, <2>4
<1>3. N \in good
  <2>1. N \in 0 .. N
    OBVIOUS
  <2> HIDE DEF good
  <2> QED
    BY <1>1, <1>2, <2>1, Induct
<1>4. T \cap (1 .. N) = T
  OBVIOUS
<1> QED
  BY <1>3, <1>4

=============================================================================
