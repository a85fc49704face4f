------------------------------ MODULE SquadProofs ------------------------------
(***************************************************************************)
(* Squads of any size, any number of monsters and any schedules: leaders   *)
(* and members agree, and no slot is lost.                                 *)
(*                                                                         *)
(* Neither property is inductive.  SquadsAgree needs MembersFollow, the    *)
(* half of it that holds of dead leaders too, and AbsentIsClean: an entity *)
(* that is about to appear is nobody's leader and nobody's member.         *)
(* SlotsAreHeld needs LeadersStarted: a monster becomes a leader only when *)
(* it starts, and has no slots marked by then.                             *)
(***************************************************************************)
EXTENDS Squad, DataLemmas

MembersFollow ==
    \A l \in Monsters : \A i \in MemberIdx :
        LET m == m_hSquadMember[l][i]
        IN  m # NULL /\ life[m] = "alive" => m_hSquadLeader[m] = l

AbsentIsClean ==
    \A m \in Monsters : life[m] = "none" =>
        /\ \A x \in Monsters : m_hSquadLeader[x] # m
        /\ \A l \in Monsters : \A i \in MemberIdx : m_hSquadMember[l][i] # m

LeadersStarted ==
    \A m \in Monsters :
        /\ InSquad(m) => started[m_hSquadLeader[m]]
        /\ ~started[m] => m_afSquadSlots[m] = {}

\* The inductive invariant.
IInv ==
    /\ TypeOK
    /\ SquadsAgree
    /\ MembersFollow
    /\ AbsentIsClean
    /\ LeadersStarted
    /\ SlotsAreHeld

-----------------------------------------------------------------------------
(* Operators                                                                *)

\* OccupySlot never hands out a slot that is taken, or one nobody asked for.
LEMMA OccupySlotIsFree ==
    ASSUME NEW taken \in SUBSET Slots, NEW want \in Wants,
           OccupySlot(taken, want) # NULL
    PROVE  OccupySlot(taken, want) \in Slots \ taken
<1> DEFINE able == {i \in DOMAIN want : FreeSlots(taken, want[i]) # {}}
<1>1. want \in Seq(SUBSET (0 .. (NUM_SLOTS - 2)))
  BY SquadAssumption
<1>2. able # {} /\ OccupySlot(taken, want) = Min(FreeSlots(taken, want[Min(able)]))
  BY DEF OccupySlot
<1>3. able \in SUBSET Nat
  BY <1>1
<1>4. Min(able) \in able
  BY <1>2, <1>3, MinInSet
<1>5. PICK j \in DOMAIN want : Min(able) = j /\ FreeSlots(taken, want[j]) # {}
  BY <1>4
<1> DEFINE S == FreeSlots(taken, want[j])
<1>6. S \subseteq 0 .. (NUM_SLOTS - 2) /\ S \cap taken = {} /\ S # {}
  BY <1>1, <1>5 DEF FreeSlots
<1>7. 0 .. (NUM_SLOTS - 2) \subseteq Slots /\ Slots \subseteq Nat
  BY SquadAssumption DEF Slots
<1>8. OccupySlot(taken, want) = Min(S)
  BY <1>2, <1>5
<1> HIDE DEF S
<1>9. Min(S) \in S
  <2>1. S \in SUBSET Nat
    BY <1>6, <1>7
  <2> QED
    BY <2>1, <1>6, MinInSet
<1> QED
  BY <1>6, <1>7, <1>8, <1>9

\* The recruits that StartMonster tries: a sequence no longer than the array.
LEMMA FoundIsSequence ==
    ASSUME NEW m \in Monsters, NEW r \in Found(m)
    PROVE  /\ r \in Seq(Recruits(m))
           /\ Len(r) <= MAX_SQUAD_MEMBERS - 1
           /\ DOMAIN r = 1 .. Len(r)
           /\ Len(r) \in Nat
           /\ ToSet(r) \subseteq Recruits(m)
<1>1. PICK n \in 0 .. (MAX_SQUAD_MEMBERS - 1) : r \in [1 .. n -> Recruits(m)]
  BY DEF Found, SeqOf
<1>2. n \in Nat /\ r \in Seq(Recruits(m)) /\ Len(r) = n
  BY <1>1, SquadAssumption
<1> QED
  BY <1>1, <1>2, SquadAssumption DEF ToSet

-----------------------------------------------------------------------------
(* The initial states and the steps                                         *)

LEMMA InitIInv == Init => IInv
<1> SUFFICES ASSUME Init PROVE IInv
  OBVIOUS
<1>1. \A l \in Monsters : m_hSquadLeader[l] = NULL /\ m_afSquadSlots[l] = {}
  BY DEF Init
<1>2. \A l \in Monsters, i \in MemberIdx : m_hSquadMember[l][i] = NULL
  BY DEF Init, NoMembers
<1>3. TypeOK
  BY DEF Init, TypeOK, NoMembers
<1>4. SquadsAgree /\ MembersFollow /\ AbsentIsClean
  BY <1>1, <1>2, SquadAssumption DEF SquadsAgree, MembersFollow, AbsentIsClean
<1>5. LeadersStarted /\ SlotsAreHeld
  BY <1>1 DEF LeadersStarted, SlotsAreHeld, InSquad
<1> QED
  BY <1>3, <1>4, <1>5 DEF IInv

\* A step that leaves the squads, the living and the started alone keeps all
\* that is said about them.
LEMMA SquadsUnchanged ==
    ASSUME IInv, UNCHANGED <<m_hSquadLeader, m_hSquadMember, life>>
    PROVE  SquadsAgree' /\ MembersFollow' /\ AbsentIsClean'
  BY DEF IInv, SquadsAgree, MembersFollow, AbsentIsClean, IsLeader, Visited

\* A change of schedule leaves the squads alone and frees the monster's slot
\* before it takes another.
LEMMA ChangeScheduleStep ==
    ASSUME IInv, NEW m \in Monsters, NEW told \in SUBSET Visited(MySquadLeader(m)),
           NEW want \in Wants, ChangeSchedule(m, told, want)
    PROVE  IInv'
<1> DEFINE l       == MySquadLeader(m)
           vacated == VacateSlot(m)
           slot    == OccupySlot(vacated[l], want)
<1> USE DEF IInv
<1>1. /\ UNCHANGED <<m_hSquadLeader, m_hSquadMember, life, started>>
      /\ started[m] /\ life[m] # "none"
      /\ life[m] = "dead" => want = <<>>
      /\ told # {} => InSquad(m) /\ m_hEnemy[m] # NULL
      /\ m_hEnemy' = SquadMakeEnemy(m, told)
  BY DEF ChangeSchedule, squad
<1>2. l \in Monsters /\ (InSquad(m) => l = m_hSquadLeader[m]) /\ (~InSquad(m) => l = m)
  BY DEF MySquadLeader, InSquad, TypeOK
<1>3. /\ vacated \in [Monsters -> SUBSET Slots]
      /\ \A x \in Monsters : vacated[x] \subseteq m_afSquadSlots[x]
      /\ \A x \in Monsters : x # l => vacated[x] = m_afSquadSlots[x]
      /\ InSquad(m) => m_iMySlot[m] \notin vacated[l]
  <2>1. CASE m_iMySlot[m] # NULL /\ InSquad(m)
    <3>1. vacated = [m_afSquadSlots EXCEPT ![l] = @ \ {m_iMySlot[m]}]
      BY <2>1 DEF VacateSlot
    <3> QED
      BY <1>2, <3>1 DEF TypeOK
  <2>2. CASE ~(m_iMySlot[m] # NULL /\ InSquad(m))
    <3>1. vacated = m_afSquadSlots
      BY <2>2 DEF VacateSlot
    <3>2. NULL \notin Slots
      BY SquadAssumption DEF Slots
    <3> QED
      BY <1>2, <2>2, <3>1, <3>2 DEF TypeOK
  <2> QED
    BY <2>1, <2>2
<1>4. PICK v \in Slots \cup {NULL} : \E taken \in SUBSET {v} :
          /\ m_afSquadSlots' = [vacated EXCEPT ![l] = @ \cup taken]
          /\ m_iMySlot' = [m_iMySlot EXCEPT ![m] = v]
          /\ ~InSquad(m) => v = m_iMySlot[m]
          /\ taken # {} => InSquad(m) /\ life[m] = "alive" /\ v # NULL
  <2>1. m_afSquadSlots' = vacated => m_afSquadSlots' = [vacated EXCEPT ![l] = @ \cup {}]
    BY <1>2, <1>3
  <2>2. CASE want = <<>> \/ ~InSquad(m)
    <3>1. m_afSquadSlots' = vacated /\ m_iMySlot' = [m_iMySlot EXCEPT ![m] = Vacated(m)]
      BY <2>2 DEF ChangeSchedule
    <3>2. Vacated(m) \in Slots \cup {NULL} /\ (~InSquad(m) => Vacated(m) = m_iMySlot[m])
      BY DEF Vacated, TypeOK
    <3> QED
      BY <2>1, <3>1, <3>2
  <2>3. CASE ~(want = <<>> \/ ~InSquad(m))
    <3>1. life[m] = "alive"
      BY <1>1, <2>3 DEF TypeOK
    <3>2. CASE SquadEnemySplit(m, m_hEnemy') \/ slot = NULL
      <4>1. m_afSquadSlots' = vacated
        BY <1>1, <2>3, <3>2 DEF ChangeSchedule
      <4>2. \/ m_iMySlot' = [m_iMySlot EXCEPT ![m] = SplitSlot]
            \/ m_iMySlot' = [m_iMySlot EXCEPT ![m] = NULL]
        BY <1>1, <2>3, <3>2 DEF ChangeSchedule
      <4>3. SplitSlot \in Slots
        BY SquadAssumption DEF SplitSlot, Slots
      <4> QED
        BY <2>1, <2>3, <4>1, <4>2, <4>3
    <3>3. CASE ~(SquadEnemySplit(m, m_hEnemy') \/ slot = NULL)
      <4>1. /\ m_afSquadSlots' = [vacated EXCEPT ![l] = @ \cup {slot}]
            /\ m_iMySlot' = [m_iMySlot EXCEPT ![m] = slot]
        BY <1>1, <2>3, <3>3 DEF ChangeSchedule
      <4>2. slot \in Slots
        BY <1>2, <1>3, <3>3, OccupySlotIsFree
      <4> QED
        BY <2>3, <3>1, <3>3, <4>1, <4>2
    <3> QED
      BY <3>2, <3>3
  <2> QED
    BY <2>2, <2>3
<1>5. PICK taken \in SUBSET {v} :
          /\ m_afSquadSlots' = [vacated EXCEPT ![l] = @ \cup taken]
          /\ m_iMySlot' = [m_iMySlot EXCEPT ![m] = v]
          /\ ~InSquad(m) => v = m_iMySlot[m]
          /\ taken # {} => InSquad(m) /\ life[m] = "alive" /\ v # NULL
  BY <1>4
<1> HIDE DEF l, vacated, slot
<1>6. TypeOK'
  <2>1. m_hEnemy' \in [Monsters -> Enemies \cup {NULL}]
    BY <1>1 DEF SquadMakeEnemy, TypeOK
  <2>2. m_iMySlot' \in [Monsters -> Slots \cup {NULL}]
    BY <1>5 DEF TypeOK
  <2>3. taken \subseteq Slots
    BY <1>5
  <2>4. m_afSquadSlots' \in [Monsters -> SUBSET Slots]
    BY <1>2, <1>3, <1>5, <2>3
  <2> QED
    BY <1>1, <2>1, <2>2, <2>4 DEF TypeOK
<1>7. LeadersStarted'
  <2>1. ASSUME NEW x \in Monsters PROVE InSquad(x)' => started'[m_hSquadLeader'[x]]
    BY <1>1 DEF LeadersStarted, InSquad
  <2>2. ASSUME NEW x \in Monsters, ~started[x] PROVE m_afSquadSlots'[x] = {}
    <3>1. x # l \/ taken = {}
      BY <1>1, <1>2, <1>5, <2>2 DEF LeadersStarted, InSquad
    <3>2. m_afSquadSlots'[x] \subseteq m_afSquadSlots[x]
      BY <1>2, <1>3, <1>5, <3>1
    <3> QED
      BY <2>2, <3>2 DEF LeadersStarted
  <2> QED
    BY <1>1, <2>1, <2>2 DEF LeadersStarted
<1>8. SlotsAreHeld'
  <2> SUFFICES ASSUME NEW k \in Monsters, NEW s \in m_afSquadSlots'[k], IsLeader(k)
               PROVE  \E x \in Monsters : /\ life[x] = "alive"
                                          /\ m_hSquadLeader[x] = k
                                          /\ m_iMySlot'[x] = s
    BY <1>1 DEF SlotsAreHeld, IsLeader
  <2>1. CASE s \in vacated[k]
    <3>1. PICK x \in Monsters : life[x] = "alive" /\ m_hSquadLeader[x] = k /\ m_iMySlot[x] = s
      BY <1>3, <2>1 DEF SlotsAreHeld
    <3>2. m_iMySlot'[x] = s
      <4>1. CASE x # m
        BY <1>5, <3>1, <4>1 DEF TypeOK
      <4>2. CASE x = m
        <5>1. InSquad(m) /\ l = k
          BY <1>2, <3>1, <4>2, SquadAssumption DEF InSquad
        <5> QED
          BY <1>3, <2>1, <3>1, <4>2, <5>1
      <4> QED
        BY <4>1, <4>2
    <3> QED
      BY <3>1, <3>2
  <2>2. CASE s \notin vacated[k]
    <3>1. k = l /\ s \in taken
      BY <1>2, <1>3, <1>5, <2>2
    <3>2. life[m] = "alive" /\ m_hSquadLeader[m] = k /\ s = v
      BY <1>2, <1>5, <3>1
    <3>3. m_iMySlot'[m] = s
      BY <1>5, <3>2 DEF TypeOK
    <3> QED
      BY <3>2, <3>3
  <2> QED
    BY <2>1, <2>2
<1> QED
  BY <1>1, <1>6, <1>7, <1>8, SquadsUnchanged

\* A death ends the squad of a leader, and frees the slot of a member.
LEMMA KilledStep ==
    ASSUME IInv, NEW m \in Monsters, Killed(m)
    PROVE  IInv'
<1> USE DEF IInv
<1>1. /\ life[m] # "none"
      /\ life' = [life EXCEPT ![m] = "dead"]
      /\ m_afSquadSlots' = VacateSlot(m)
      /\ m_iMySlot' = [m_iMySlot EXCEPT ![m] = Vacated(m)]
      /\ UNCHANGED <<m_hEnemy, started>>
  BY DEF Killed, KilledSlots
<1>2. \A x \in Monsters : x # m => life'[x] = life[x]
  BY <1>1 DEF TypeOK
<1>3. life'[m] = "dead"
  BY <1>1 DEF TypeOK
<1>4. \A x \in Monsters : m_hSquadLeader'[x] \in {m_hSquadLeader[x], NULL}
  BY DEF Killed, Disband, RemoveMember, TypeOK
<1>5. /\ m_hSquadMember' \in [Monsters -> [MemberIdx -> Monsters \cup {NULL}]]
      /\ \A x \in Monsters, i \in MemberIdx :
             m_hSquadMember'[x][i] \in {m_hSquadMember[x][i], NULL}
      /\ \A x \in Monsters : x # m => m_hSquadMember'[x] = m_hSquadMember[x]
      /\ IsLeader(m) => \A i \in MemberIdx : m_hSquadMember'[m][i] = NULL
      /\ ~IsLeader(m) => m_hSquadMember' = m_hSquadMember
  <2>1. CASE IsLeader(m)
    <3>1. m_hSquadMember' = [m_hSquadMember EXCEPT ![m] = [i \in MemberIdx |-> NULL]]
      BY <2>1 DEF Killed, Disbanded, NoMembers
    <3> QED
      BY <2>1, <3>1 DEF TypeOK
  <2>2. CASE ~IsLeader(m)
    BY <2>2 DEF Killed, TypeOK
  <2> QED
    BY <2>1, <2>2
<1>6. m_hSquadLeader'[m] = NULL
  BY DEF Killed, Disband, RemoveMember, Visited, TypeOK
<1>7. \A x \in Monsters :
          x # m /\ m_hSquadLeader'[x] # m_hSquadLeader[x] =>
              IsLeader(m) /\ \E i \in MemberIdx : m_hSquadMember[m][i] = x
  BY DEF Killed, Disband, RemoveMember, Visited, TypeOK
<1>8. \A x \in Monsters :
          /\ m_afSquadSlots'[x] \subseteq m_afSquadSlots[x]
          /\ x = m_hSquadLeader[m] => m_iMySlot[m] \notin m_afSquadSlots'[x]
  <2>1. CASE m_iMySlot[m] # NULL /\ InSquad(m)
    BY <1>1, <2>1 DEF VacateSlot, MySquadLeader, TypeOK
  <2>2. CASE ~(m_iMySlot[m] # NULL /\ InSquad(m))
    <3>1. m_afSquadSlots' = m_afSquadSlots
      BY <1>1, <2>2 DEF VacateSlot
    <3>2. NULL \notin Slots
      BY SquadAssumption DEF Slots
    <3> QED
      BY <2>2, <3>1, <3>2, SquadAssumption DEF InSquad, TypeOK
  <2> QED
    BY <2>1, <2>2
<1>9. TypeOK'
  <2>1. m_hSquadLeader' \in [Monsters -> Monsters \cup {NULL}]
    BY <1>4 DEF Killed, Disband, RemoveMember, TypeOK
  <2>2. m_afSquadSlots' \in [Monsters -> SUBSET Slots]
    BY <1>1 DEF VacateSlot, MySquadLeader, InSquad, TypeOK
  <2>3. m_iMySlot' \in [Monsters -> Slots \cup {NULL}]
    BY <1>1 DEF Vacated, TypeOK
  <2> QED
    BY <1>1, <1>5, <2>1, <2>2, <2>3 DEF TypeOK
<1>10. SquadsAgree'
  <2> SUFFICES ASSUME NEW l \in Monsters, life'[l] = "alive"
               PROVE  /\ \A y \in Monsters :
                             m_hSquadLeader'[y] = l =>
                                 m_hSquadLeader'[l] = l /\ y \in Visited(l)'
                      /\ \A i \in MemberIdx :
                             LET y == m_hSquadMember'[l][i]
                             IN  y # NULL /\ life'[y] = "alive" => m_hSquadLeader'[y] = l
    BY DEF SquadsAgree, IsLeader
  <2>1. l # m /\ life[l] = "alive"
    BY <1>2, <1>3
  <2>2. Visited(l)' = Visited(l)
    BY <1>5, <2>1 DEF Visited
  <2>3. ASSUME NEW y \in Monsters, m_hSquadLeader'[y] = l
        PROVE  m_hSquadLeader'[l] = l /\ y \in Visited(l)'
    <3>1. m_hSquadLeader[l] = l /\ y \in Visited(l)
      BY <1>4, <2>1, <2>3, SquadAssumption DEF SquadsAgree, IsLeader
    <3>2. \A i \in MemberIdx : m_hSquadMember[m][i] # l
      BY <2>1, <3>1, SquadAssumption DEF MembersFollow
    <3> QED
      BY <1>7, <2>1, <2>2, <3>1, <3>2
  <2>4. ASSUME NEW i \in MemberIdx, NEW y, y = m_hSquadMember'[l][i],
               y # NULL, life'[y] = "alive"
        PROVE  m_hSquadLeader'[y] = l
    <3>1. y \in Monsters /\ y # m /\ m_hSquadMember[l][i] = y
      BY <1>3, <1>5, <1>9, <2>1, <2>4 DEF TypeOK
    <3>2. m_hSquadLeader[y] = l
      BY <1>2, <2>4, <3>1 DEF MembersFollow
    <3> QED
      BY <1>2, <1>7, <2>1, <2>4, <3>1, <3>2 DEF MembersFollow
  <2> QED
    BY <2>3, <2>4
<1>11. MembersFollow'
  <2> SUFFICES ASSUME NEW l \in Monsters, NEW i \in MemberIdx, NEW y,
                      y = m_hSquadMember'[l][i], y # NULL, life'[y] = "alive"
               PROVE  m_hSquadLeader'[y] = l
    BY DEF MembersFollow
  <2>1. y \in Monsters /\ y # m /\ m_hSquadMember[l][i] = y
    BY <1>3, <1>5, <1>9 DEF TypeOK
  <2>2. m_hSquadLeader[y] = l
    BY <1>2, <2>1 DEF MembersFollow
  <2>3. ~(IsLeader(m) /\ l = m)
    BY <1>5
  <2> QED
    BY <1>2, <1>7, <2>1, <2>2, <2>3 DEF MembersFollow
<1>12. AbsentIsClean'
  BY <1>2, <1>3, <1>4, <1>5, SquadAssumption DEF AbsentIsClean
<1>13. LeadersStarted'
  BY <1>1, <1>4, <1>8 DEF LeadersStarted, InSquad
<1>14. SlotsAreHeld'
  <2> SUFFICES ASSUME NEW l \in Monsters, NEW s \in m_afSquadSlots'[l],
                      m_hSquadLeader'[l] = l
               PROVE  \E y \in Monsters : /\ life'[y] = "alive"
                                          /\ m_hSquadLeader'[y] = l
                                          /\ m_iMySlot'[y] = s
    BY DEF SlotsAreHeld, IsLeader
  <2>1. l # m /\ m_hSquadLeader[l] = l /\ s \in m_afSquadSlots[l]
    BY <1>4, <1>6, <1>8, SquadAssumption
  <2>2. PICK y \in Monsters : life[y] = "alive" /\ m_hSquadLeader[y] = l /\ m_iMySlot[y] = s
    BY <2>1 DEF SlotsAreHeld, IsLeader
  <2>3. y # m
    BY <1>8, <2>2
  <2>4. m_hSquadLeader'[y] = l
    BY <1>7, <2>1, <2>2, <2>3, SquadAssumption DEF MembersFollow
  <2>5. m_iMySlot'[y] = s
    BY <1>1, <2>2, <2>3 DEF TypeOK
  <2> QED
    BY <1>2, <2>2, <2>3, <2>4, <2>5
<1> QED
  BY <1>9, <1>10, <1>11, <1>12, <1>13, <1>14

\* A monster that starts makes itself the leader of those that had none.
LEMMA StartMonsterStep ==
    ASSUME IInv, NEW m \in Monsters, StartMonster(m)
    PROVE  IInv'
<1> USE DEF IInv
<1>1. /\ life[m] # "none" /\ ~started[m]
      /\ started' = [started EXCEPT ![m] = TRUE]
      /\ UNCHANGED <<m_afSquadSlots, m_iMySlot, m_hEnemy, life>>
  BY DEF StartMonster, slots
<1>2. /\ started' \in [Monsters -> BOOLEAN]
      /\ started'[m]
      /\ \A x \in Monsters : started[x] => started'[x]
  BY <1>1 DEF TypeOK
<1>3. PICK r \in IF InSquad(m) THEN {<<>>} ELSE Found(m) :
          IF r = <<>> THEN UNCHANGED squad
          ELSE /\ m_hSquadMember' =
                      [m_hSquadMember EXCEPT ![m] =
                          [i \in MemberIdx |-> IF i <= Len(r) THEN r[i] ELSE @[i]]]
               /\ m_hSquadLeader' =
                      [x \in Monsters |-> IF x \in {m} \cup ToSet(r) THEN m
                                          ELSE m_hSquadLeader[x]]
  BY DEF StartMonster
<1>4. CASE r = <<>>
  <2>1. UNCHANGED <<m_hSquadLeader, m_hSquadMember>>
    BY <1>3, <1>4 DEF squad
  <2>2. TypeOK'
    BY <1>1, <1>2, <2>1 DEF TypeOK
  <2>3. LeadersStarted'
    BY <1>1, <1>2, <2>1 DEF LeadersStarted, InSquad, TypeOK
  <2>4. SlotsAreHeld'
    BY <1>1, <2>1 DEF SlotsAreHeld, IsLeader
  <2> QED
    BY <1>1, <2>1, <2>2, <2>3, <2>4, SquadsUnchanged
<1>5. CASE r # <<>>
  <2> DEFINE N == ToSet(r)
  <2>1. ~InSquad(m) /\ r \in Found(m)
    BY <1>3, <1>5
  <2>2. /\ m_hSquadLeader[m] = NULL
        /\ N \subseteq Monsters
        /\ \A x \in N : x # m /\ life[x] # "none" /\ m_hSquadLeader[x] = NULL
    BY <2>1, FoundIsSequence DEF Recruits, InSquad
  <2>3. /\ \A i \in MemberIdx : i <= Len(r) => r[i] \in N
        /\ \A x \in N : \E i \in MemberIdx : i <= Len(r) /\ r[i] = x
    BY <2>1, FoundIsSequence, SquadAssumption DEF MemberIdx, ToSet
  <2> HIDE DEF N
  <2>4. \A x \in Monsters :
            m_hSquadLeader'[x] = IF x \in {m} \cup N THEN m ELSE m_hSquadLeader[x]
    BY <1>3, <1>5 DEF N
  <2>5. /\ \A i \in MemberIdx : m_hSquadMember'[m][i] =
                IF i <= Len(r) THEN r[i] ELSE m_hSquadMember[m][i]
        /\ \A x \in Monsters : x # m => m_hSquadMember'[x] = m_hSquadMember[x]
    BY <1>3, <1>5 DEF TypeOK
  <2>6. TypeOK'
    <3>1. m_hSquadLeader' \in [Monsters -> Monsters \cup {NULL}]
      BY <1>3, <1>5 DEF TypeOK
    <3>2. [i \in MemberIdx |-> IF i <= Len(r) THEN r[i] ELSE m_hSquadMember[m][i]]
              \in [MemberIdx -> Monsters \cup {NULL}]
      BY <2>2, <2>3 DEF TypeOK
    <3>3. m_hSquadMember' \in [Monsters -> [MemberIdx -> Monsters \cup {NULL}]]
      BY <1>3, <1>5, <3>2 DEF TypeOK
    <3> QED
      BY <1>1, <1>2, <3>1, <3>3 DEF TypeOK
  <2>7. SquadsAgree'
    <3> SUFFICES ASSUME NEW l \in Monsters, life[l] = "alive"
                 PROVE  /\ \A y \in Monsters :
                               m_hSquadLeader'[y] = l =>
                                   m_hSquadLeader'[l] = l /\ y \in Visited(l)'
                        /\ \A i \in MemberIdx :
                               LET y == m_hSquadMember'[l][i]
                               IN  y # NULL /\ life[y] = "alive" => m_hSquadLeader'[y] = l
      BY <1>1 DEF SquadsAgree, IsLeader
    <3>1. CASE l = m
      <4>1. \A y \in Monsters : m_hSquadLeader'[y] = m => y \in {m} \cup N
        BY <2>2, <2>4, <3>1, SquadAssumption DEF SquadsAgree, IsLeader
      <4>2. N \subseteq Visited(m)' /\ m \in Visited(m)'
        BY <2>2, <2>3, <2>5, SquadAssumption DEF Visited
      <4>3. ASSUME NEW i \in MemberIdx, NEW y, y = m_hSquadMember'[m][i],
                   y # NULL, life[y] = "alive"
            PROVE  m_hSquadLeader'[y] = m
        BY <2>2, <2>3, <2>4, <2>5, <4>3 DEF MembersFollow, TypeOK
      <4> QED
        BY <2>4, <3>1, <4>1, <4>2, <4>3
    <3>2. CASE l # m
      <4>1. Visited(l)' = Visited(l)
        BY <2>5, <3>2 DEF Visited
      <4>2. \A y \in Monsters :
                m_hSquadLeader'[y] = l => m_hSquadLeader[y] = l /\ y \in Visited(l)
        BY <2>4, <3>2 DEF SquadsAgree
      <4>3. \A y \in Monsters : m_hSquadLeader[y] = l => m_hSquadLeader'[l] = l
        BY <2>2, <2>4, <3>2, SquadAssumption DEF SquadsAgree, IsLeader
      <4>4. ASSUME NEW i \in MemberIdx, NEW y, y = m_hSquadMember[l][i],
                   y # NULL, life[y] = "alive"
            PROVE  m_hSquadLeader'[y] = l
        BY <2>2, <2>4, <3>2, <4>4, SquadAssumption DEF MembersFollow, TypeOK
      <4> QED
        BY <2>5, <3>2, <4>1, <4>2, <4>3, <4>4
    <3> QED
      BY <3>1, <3>2
  <2>8. MembersFollow'
    <3> SUFFICES ASSUME NEW l \in Monsters, NEW i \in MemberIdx, NEW y,
                        y = m_hSquadMember'[l][i], y # NULL, life[y] = "alive"
                 PROVE  m_hSquadLeader'[y] = l
      BY <1>1 DEF MembersFollow
    <3>1. CASE l = m
      BY SMTT(20), ZenonT(40), <2>2, <2>3, <2>4, <2>5, <3>1 DEF MembersFollow, TypeOK
    <3>2. CASE l # m
      BY <2>2, <2>4, <2>5, <3>2, SquadAssumption DEF MembersFollow, TypeOK
    <3> QED
      BY <3>1, <3>2
  <2>9. AbsentIsClean'
    <3> SUFFICES ASSUME NEW x \in Monsters, life[x] = "none"
                 PROVE  /\ \A y \in Monsters : m_hSquadLeader'[y] # x
                        /\ \A l \in Monsters : \A i \in MemberIdx : m_hSquadMember'[l][i] # x
      BY <1>1 DEF AbsentIsClean
    <3>1. x # m /\ x \notin N
      BY <1>1, <2>2
    <3> QED
      BY <2>3, <2>4, <2>5, <3>1 DEF AbsentIsClean
  <2>10. LeadersStarted'
    BY <1>1, <1>2, <2>4 DEF LeadersStarted, InSquad
  <2>11. SlotsAreHeld'
    <3> SUFFICES ASSUME NEW l \in Monsters, NEW s \in m_afSquadSlots[l],
                        m_hSquadLeader'[l] = l
                 PROVE  \E y \in Monsters : /\ life[y] = "alive"
                                            /\ m_hSquadLeader'[y] = l
                                            /\ m_iMySlot[y] = s
      BY <1>1 DEF SlotsAreHeld, IsLeader
    <3>1. l # m
      BY <1>1 DEF LeadersStarted
    <3>2. m_hSquadLeader[l] = l
      BY <2>4, <3>1
    <3>3. PICK y \in Monsters : life[y] = "alive" /\ m_hSquadLeader[y] = l /\ m_iMySlot[y] = s
      BY <3>2 DEF SlotsAreHeld, IsLeader
    <3> QED
      BY <2>2, <2>4, <3>3, SquadAssumption
  <2> QED
    BY <2>6, <2>7, <2>8, <2>9, <2>10, <2>11
<1> QED
  BY <1>4, <1>5

\* Whatever is said of a monster that appears held before it did.
LEMMA SpawnStep ==
    ASSUME IInv, NEW m \in Monsters, Spawn(m)
    PROVE  IInv'
<1> USE DEF IInv
<1>1. /\ life[m] = "none"
      /\ life' = [life EXCEPT ![m] = "alive"]
      /\ UNCHANGED <<m_hSquadLeader, m_hSquadMember, m_afSquadSlots, m_iMySlot,
                     m_hEnemy, started>>
  BY DEF Spawn, squad, slots
<1>2. \A x \in Monsters : life'[x] = IF x = m THEN "alive" ELSE life[x]
  BY <1>1 DEF TypeOK
<1>3. TypeOK'
  BY <1>1 DEF TypeOK
<1>4. SquadsAgree'
  <2>1. \A x \in Monsters : Visited(x)' = Visited(x)
    BY <1>1 DEF Visited
  <2>2. \A x \in Monsters : m_hSquadLeader[x] # m
    BY <1>1 DEF AbsentIsClean
  <2>3. MembersFollow'
    BY <1>1, <1>2 DEF MembersFollow, AbsentIsClean, TypeOK
  <2> QED
    BY <1>1, <1>2, <2>1, <2>2, <2>3 DEF SquadsAgree, MembersFollow, IsLeader
<1>5. MembersFollow'
  BY <1>1, <1>2 DEF MembersFollow, AbsentIsClean, TypeOK
<1>6. AbsentIsClean'
  BY <1>1, <1>2 DEF AbsentIsClean
<1>7. LeadersStarted'
  BY <1>1 DEF LeadersStarted, InSquad
<1>8. SlotsAreHeld'
  BY <1>1, <1>2 DEF SlotsAreHeld, IsLeader
<1> QED
  BY <1>3, <1>4, <1>5, <1>6, <1>7, <1>8

\* A corpse goes with every handle of it, and held no slot.
LEMMA RemoveCorpseStep ==
    ASSUME IInv, NEW m \in Monsters, RemoveCorpse(m)
    PROVE  IInv'
<1> USE DEF IInv
<1>1. life[m] = "dead"
  BY DEF RemoveCorpse
<1>2. /\ life'[m] = "none" /\ ~started'[m] /\ m_afSquadSlots'[m] = {}
      /\ \A x \in Monsters \ {m} :
             /\ life'[x] = life[x]
             /\ started'[x] = started[x]
             /\ m_afSquadSlots'[x] = m_afSquadSlots[x]
             /\ m_iMySlot'[x] = m_iMySlot[x]
  BY DEF RemoveCorpse, TypeOK
<1>3. \A x \in Monsters :
          /\ x = m \/ m_hSquadLeader[x] = m => m_hSquadLeader'[x] = NULL
          /\ x # m /\ m_hSquadLeader[x] # m => m_hSquadLeader'[x] = m_hSquadLeader[x]
  BY DEF RemoveCorpse
<1>4. \A x \in Monsters, i \in MemberIdx :
          /\ x = m \/ m_hSquadMember[x][i] = m => m_hSquadMember'[x][i] = NULL
          /\ x # m /\ m_hSquadMember[x][i] # m => m_hSquadMember'[x][i] = m_hSquadMember[x][i]
  BY DEF RemoveCorpse
<1>5. TypeOK'
  BY DEF RemoveCorpse, TypeOK
<1>6. SquadsAgree'
  <2> SUFFICES ASSUME NEW l \in Monsters, life'[l] = "alive"
               PROVE  /\ \A y \in Monsters :
                             m_hSquadLeader'[y] = l =>
                                 m_hSquadLeader'[l] = l /\ y \in Visited(l)'
                      /\ \A i \in MemberIdx :
                             LET y == m_hSquadMember'[l][i]
                             IN  y # NULL /\ life'[y] = "alive" => m_hSquadLeader'[y] = l
    BY DEF SquadsAgree, IsLeader
  <2>1. l # m /\ life[l] = "alive"
    BY <1>2, <1>3, <1>4, SquadAssumption
  <2>2. ASSUME NEW y \in Monsters, m_hSquadLeader'[y] = l
        PROVE  m_hSquadLeader'[l] = l /\ y \in Visited(l)'
    <3>1. y # m /\ m_hSquadLeader[y] = l
      BY <1>2, <1>3, <1>4, <2>2, SquadAssumption
    <3>2. m_hSquadLeader[l] = l /\ y \in Visited(l)
      BY <2>1, <3>1 DEF SquadsAgree, IsLeader
    <3>3. m_hSquadLeader'[l] = l
      BY <1>3, <2>1, <3>2
    <3>4. CASE y = l
      BY <3>3, <3>4 DEF Visited
    <3>5. CASE y # l
      <4>1. PICK i \in MemberIdx : m_hSquadMember[l][i] = y
        BY <3>2, <3>5 DEF Visited
      <4>2. m_hSquadMember'[l][i] = y
        BY <1>4, <2>1, <3>1, <4>1
      <4> QED
        BY <3>3, <4>1, <4>2, SquadAssumption DEF Visited
    <3> QED
      BY <3>4, <3>5
  <2>3. ASSUME NEW i \in MemberIdx, NEW y, y = m_hSquadMember'[l][i],
               y # NULL, life'[y] = "alive"
        PROVE  m_hSquadLeader'[y] = l
    BY <1>2, <1>3, <1>4, <2>1, <2>3 DEF MembersFollow, TypeOK
  <2> QED
    BY <2>2, <2>3
<1>7. MembersFollow'
  <2> SUFFICES ASSUME NEW l \in Monsters, NEW i \in MemberIdx, NEW y,
                      y = m_hSquadMember'[l][i], y # NULL, life'[y] = "alive"
               PROVE  m_hSquadLeader'[y] = l
    BY DEF MembersFollow
  <2>1. l # m /\ y \in Monsters /\ y # m /\ y = m_hSquadMember[l][i]
    BY <1>2, <1>3, <1>4 DEF TypeOK
  <2> QED
    BY <1>2, <1>3, <1>4, <2>1 DEF MembersFollow
<1>8. AbsentIsClean'
  BY <1>2, <1>3, <1>4, SquadAssumption DEF AbsentIsClean
<1>9. LeadersStarted'
  BY <1>2, <1>3, <1>4, SquadAssumption DEF LeadersStarted, InSquad, TypeOK
<1>10. SlotsAreHeld'
  <2> SUFFICES ASSUME NEW l \in Monsters, NEW s \in m_afSquadSlots'[l],
                      m_hSquadLeader'[l] = l
               PROVE  \E y \in Monsters : /\ life'[y] = "alive"
                                          /\ m_hSquadLeader'[y] = l
                                          /\ m_iMySlot'[y] = s
    BY DEF SlotsAreHeld, IsLeader
  <2>1. l # m /\ m_hSquadLeader[l] = l /\ s \in m_afSquadSlots[l]
    BY <1>2, <1>3, <1>4, SquadAssumption
  <2>2. PICK y \in Monsters : life[y] = "alive" /\ m_hSquadLeader[y] = l /\ m_iMySlot[y] = s
    BY <2>1 DEF SlotsAreHeld, IsLeader
  <2> QED
    BY <1>1, <1>2, <1>3, <2>1, <2>2
<1> QED
  BY <1>5, <1>6, <1>7, <1>8, <1>9, <1>10

LEMMA NextIInv == IInv /\ [Next]_vars => IInv'
<1> SUFFICES ASSUME IInv, [Next]_vars PROVE IInv'
  OBVIOUS
<1>1. ASSUME NEW m \in Monsters, NEW told \in SUBSET Visited(MySquadLeader(m)),
             NEW want \in Wants, ChangeSchedule(m, told, want)
      PROVE  IInv'
  BY <1>1, ChangeScheduleStep
<1>2. ASSUME NEW m \in Monsters, Killed(m) PROVE IInv'
  BY <1>2, KilledStep
<1>3. ASSUME NEW m \in Monsters, StartMonster(m) PROVE IInv'
  BY <1>3, StartMonsterStep
<1>4. ASSUME NEW m \in Monsters, Spawn(m) PROVE IInv'
  BY <1>4, SpawnStep
<1>5. ASSUME NEW m \in Monsters, RemoveCorpse(m) PROVE IInv'
  BY <1>5, RemoveCorpseStep
<1>6. ASSUME NEW m \in Monsters, GetEnemy(m) PROVE IInv'
  <2>1. UNCHANGED <<m_hSquadLeader, m_hSquadMember, m_afSquadSlots, m_iMySlot, life, started>>
    BY <1>6 DEF GetEnemy, squad, slots
  <2>2. TypeOK'
    BY <1>6, <2>1 DEF GetEnemy, IInv, TypeOK
  <2> QED
    BY <2>1, <2>2, SquadsUnchanged
       DEF IInv, LeadersStarted, SlotsAreHeld, InSquad, IsLeader
<1>7. CASE Restore
  <2>1. /\ UNCHANGED <<m_hSquadLeader, m_hSquadMember, m_iMySlot, m_hEnemy, life, started>>
        /\ \A l \in Monsters : m_afSquadSlots'[l] = {}
    BY <1>7 DEF Restore, squad
  <2>2. TypeOK'
    BY <1>7, <2>1 DEF Restore, IInv, TypeOK
  <2>3. LeadersStarted' /\ SlotsAreHeld'
    BY <2>1 DEF IInv, LeadersStarted, SlotsAreHeld, InSquad
  <2> QED
    BY <2>1, <2>2, <2>3, SquadsUnchanged DEF IInv
<1>8. CASE UNCHANGED vars
  BY <1>8, SquadsUnchanged
     DEF vars, squad, slots, IInv, TypeOK, LeadersStarted, SlotsAreHeld, InSquad, IsLeader
<1> QED
  BY <1>1, <1>2, <1>3, <1>4, <1>5, <1>6, <1>7, <1>8 DEF Next

LEMMA SpecIInv == Spec => []IInv
  BY InitIInv, NextIInv, PTL DEF Spec

-----------------------------------------------------------------------------
(* The theorems                                                             *)

(***************************************************************************)
(* Handles point at monsters and slots are bits of the mask, whatever the  *)
(* loops over the arrays of a squad do to them.                            *)
(***************************************************************************)
THEOREM SquadTypeOK == Spec => []TypeOK
<1>1. IInv => TypeOK
  BY DEF IInv
<1> QED
  BY SpecIInv, <1>1, PTL

(***************************************************************************)
(* A living leader and its members agree on the squad, in every order of   *)
(* deaths, recruitments and removals.                                      *)
(***************************************************************************)
THEOREM SquadSquadsAgree == Spec => []SquadsAgree
<1>1. IInv => SquadsAgree
  BY DEF IInv
<1> QED
  BY SpecIInv, <1>1, PTL

(***************************************************************************)
(* A slot that a leader has marked is held by a living member: no slot of  *)
(* a squad is lost.                                                        *)
(***************************************************************************)
THEOREM SquadSlotsAreHeld == Spec => []SlotsAreHeld
<1>1. IInv => SlotsAreHeld
  BY DEF IInv
<1> QED
  BY SpecIInv, <1>1, PTL
====
