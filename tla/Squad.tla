-------------------------------- MODULE Squad --------------------------------
(***************************************************************************)
(* Squads of monsters: CSquadMonster of dlls/squadmonster.cpp.             *)
(*                                                                         *)
(* A leader has handles of up to MAX_SQUAD_MEMBERS - 1 others, each of     *)
(* which has a handle of its leader; monsters may attack only from a slot, *)
(* a bit that the leader marks as taken.  Handles of an entity that has    *)
(* been removed read as NULL.  Where monsters stand, what they see and     *)
(* whom they come to hate are inputs.  Monsters that are dying and those   *)
(* that are dead are not told apart: IsAlive of a monster holds for the    *)
(* former, so that both may be recruited.                                  *)
(***************************************************************************)
EXTENDS Naturals, SequencesExt

CONSTANTS
    Monsters,            \* the entities that may be squad monsters of one class
    MAX_SQUAD_MEMBERS,   \* 5 in the code
    NUM_SLOTS,           \* 11 in the code, the last is bits_SLOT_SQUAD_SPLIT
    Enemies,             \* what a squad may fight
    Wants,               \* the slots a schedule asks for, in turn: sequences of sets
    NULL

ASSUME SquadAssumption ==
    /\ NULL \notin Monsters \cup Enemies
    /\ NULL \notin Nat
    /\ MAX_SQUAD_MEMBERS \in Nat \ {0, 1}
    /\ NUM_SLOTS \in Nat \ {0}
    /\ Wants \subseteq Seq(SUBSET (0 .. (NUM_SLOTS - 2)))

VARIABLES
    m_hSquadLeader,
    m_hSquadMember,   \* valid only for leader
    m_afSquadSlots,   \* the slots a leader has marked as taken
    m_iMySlot,        \* the slot the monster holds, or NULL (bits_NO_SLOT)
    m_hEnemy,         \* the enemy of each monster, or NULL
    life,             \* of the entity
    started           \* whether StartMonster has run

squad == <<m_hSquadLeader, m_hSquadMember>>
slots == <<m_afSquadSlots, m_iMySlot>>
vars == <<squad, slots, m_hEnemy, life, started>>

Slots      == 0 .. (NUM_SLOTS - 1)
SplitSlot  == NUM_SLOTS - 1     \* bits_SLOT_SQUAD_SPLIT
MemberIdx  == 1 .. (MAX_SQUAD_MEMBERS - 1)
NoMembers  == [i \in MemberIdx |-> NULL]

TypeOK ==
    /\ m_hSquadLeader \in [Monsters -> Monsters \cup {NULL}]
    /\ m_hSquadMember \in [Monsters -> [MemberIdx -> Monsters \cup {NULL}]]
    /\ m_afSquadSlots \in [Monsters -> SUBSET Slots]
    /\ m_iMySlot \in [Monsters -> Slots \cup {NULL}]
    /\ m_hEnemy \in [Monsters -> Enemies \cup {NULL}]
    /\ life \in [Monsters -> {"none", "alive", "dead"}]
    /\ started \in [Monsters -> BOOLEAN]

Init ==
    /\ m_hSquadLeader = [m \in Monsters |-> NULL]
    /\ m_hSquadMember = [m \in Monsters |-> NoMembers]
    /\ m_afSquadSlots = [m \in Monsters |-> {}]
    /\ m_iMySlot = [m \in Monsters |-> NULL]
    /\ m_hEnemy = [m \in Monsters |-> NULL]
    /\ life = [m \in Monsters |-> "none"]
    /\ started = [m \in Monsters |-> FALSE]

InSquad(m)  == m_hSquadLeader[m] # NULL
IsLeader(m) == m_hSquadLeader[m] = m

MySquadLeader(m) == IF InSquad(m) THEN m_hSquadLeader[m] ELSE m

\* Whom the loops over MySquadMember( i ) of a leader visit: the last index
\* stands for the leader.
Visited(l) == {l} \cup ({m_hSquadMember[l][i] : i \in MemberIdx} \ {NULL})

-----------------------------------------------------------------------------
(* Slots                                                                    *)

\* SquadEnemySplit for a monster in a squad.
SquadEnemySplit(m, enemy) ==
    LET l == MySquadLeader(m)
    IN  \E x \in Visited(l) : enemy[x] \notin {NULL, enemy[l]}

\* VacateSlot, as the new slots of all leaders.
VacateSlot(m) ==
    IF m_iMySlot[m] # NULL /\ InSquad(m)
    THEN [m_afSquadSlots EXCEPT ![MySquadLeader(m)] = @ \ {m_iMySlot[m]}]
    ELSE m_afSquadSlots

\* The slot a monster holds after VacateSlot.
Vacated(m) == IF InSquad(m) THEN NULL ELSE m_iMySlot[m]

\* A slot is taken only if it is free.
FreeSlots(taken, want) == want \ taken

\* OccupySlot for one of the wanted sets after another, until one succeeds:
\* the slot taken, or NULL.
OccupySlot(taken, want) ==
    LET able == {i \in DOMAIN want : FreeSlots(taken, want[i]) # {}}
    IN  IF able = {} THEN NULL ELSE Min(FreeSlots(taken, want[Min(able)]))

\* SquadMakeEnemy gives the monster's enemy to those of its squad who do not
\* see their own.
SquadMakeEnemy(m, told) ==
    [x \in Monsters |-> IF x \in told THEN m_hEnemy[m] ELSE m_hEnemy[x]]

\* The monster changes its schedule (MaintainSchedule): ScheduleChange, then
\* GetIdealState, which may alarm the squad, then GetSchedule, which may ask
\* for slots.  Dying monsters get the schedule to die without a slot.
ChangeSchedule(m, told, want) ==
    LET l       == MySquadLeader(m)
        vacated == VacateSlot(m)
        enemy   == SquadMakeEnemy(m, told)
        slot    == OccupySlot(vacated[l], want)
    IN  /\ started[m]
        /\ life[m] # "none"
        /\ life[m] = "dead" => want = <<>> /\ told = {}
        /\ told # {} => InSquad(m) /\ m_hEnemy[m] # NULL
        /\ m_hEnemy' = enemy
        /\ IF want = <<>> \/ ~InSquad(m)
           THEN /\ m_afSquadSlots' = vacated
                /\ m_iMySlot' = [m_iMySlot EXCEPT ![m] = Vacated(m)]
           ELSE IF SquadEnemySplit(m, enemy)
           THEN /\ m_afSquadSlots' = vacated
                /\ m_iMySlot' = [m_iMySlot EXCEPT ![m] = SplitSlot]
           ELSE IF slot = NULL
           THEN /\ m_afSquadSlots' = vacated
                /\ m_iMySlot' = [m_iMySlot EXCEPT ![m] = NULL]
           ELSE /\ m_afSquadSlots' = [vacated EXCEPT ![l] = @ \cup {slot}]
                /\ m_iMySlot' = [m_iMySlot EXCEPT ![m] = slot]
        /\ UNCHANGED <<squad, life, started>>

-----------------------------------------------------------------------------
(* Membership                                                               *)

\* SquadRemove of the leader itself gets rid of the squad.
Disband(l) ==
    [x \in Monsters |-> IF x \in Visited(l) THEN NULL ELSE m_hSquadLeader[x]]

\* The leader's array after that, had the loop the bound of those that visit
\* the leader as well.
DisbandedOverrun == [i \in 1 .. MAX_SQUAD_MEMBERS |-> NULL]

\* The leader's array after SquadRemove of the leader.
Disbanded == NoMembers

\* SquadRemove of another member: the loop looks for the leader among the
\* leader's members, finds nothing, and the member stays in the array.
RemoveMember(m) == [m_hSquadLeader EXCEPT ![m] = NULL]

\* Death that keeps the slot.
KilledSlotsKept(m) == m_afSquadSlots

\* The slots after Killed.
KilledSlots(m) == VacateSlot(m)

\* Killed, also of a monster that is dying already.
Killed(m) ==
    /\ life[m] # "none"
    /\ life' = [life EXCEPT ![m] = "dead"]
    /\ m_afSquadSlots' = KilledSlots(m)
    /\ m_iMySlot' = [m_iMySlot EXCEPT ![m] = Vacated(m)]
    /\ IF IsLeader(m)
       THEN /\ m_hSquadLeader' = Disband(m)
            /\ m_hSquadMember' = [m_hSquadMember EXCEPT ![m] = Disbanded]
       ELSE /\ m_hSquadLeader' = RemoveMember(m)
            /\ UNCHANGED m_hSquadMember
    /\ UNCHANGED <<m_hEnemy, started>>

\* Recruiting that forgets to ask whether the other is in a squad.
RecruitsAnyone(m) == {x \in Monsters \ {m} : life[x] # "none"}

\* Whom SquadRecruit may find.
Recruits(m) == {x \in Monsters \ {m} : life[x] # "none" /\ ~InSquad(x)}

\* The recruits that fit, in the order in which the search finds them: the
\* first that SquadAdd refuses ends it.
Found(m) == {s \in SeqOf(Recruits(m), MAX_SQUAD_MEMBERS - 1) : IsInjective(s)}

\* StartMonster: SquadRecruit, unless it is not for this monster to recruit.
StartMonster(m) ==
    /\ life[m] # "none"
    /\ ~started[m]
    /\ started' = [started EXCEPT ![m] = TRUE]
    /\ \E r \in IF InSquad(m) THEN {<<>>} ELSE Found(m) :
           IF r = <<>> THEN UNCHANGED squad
           ELSE /\ m_hSquadMember' =
                       [m_hSquadMember EXCEPT ![m] =
                           [i \in MemberIdx |-> IF i <= Len(r) THEN r[i] ELSE @[i]]]
                /\ m_hSquadLeader' =
                       [x \in Monsters |-> IF x \in {m} \cup ToSet(r) THEN m
                                           ELSE m_hSquadLeader[x]]
    /\ UNCHANGED <<slots, m_hEnemy, life>>

-----------------------------------------------------------------------------
(* The rest of the game                                                     *)

\* A monster appears, from the map or a monster maker.
Spawn(m) ==
    /\ life[m] = "none"
    /\ life' = [life EXCEPT ![m] = "alive"]
    /\ UNCHANGED <<squad, slots, m_hEnemy, started>>

\* A corpse is removed: no handle of it can be read any more.
RemoveCorpse(m) ==
    /\ life[m] = "dead"
    /\ life' = [life EXCEPT ![m] = "none"]
    /\ started' = [started EXCEPT ![m] = FALSE]
    /\ m_hSquadLeader' =
           [x \in Monsters |-> IF x = m \/ m_hSquadLeader[x] = m THEN NULL
                               ELSE m_hSquadLeader[x]]
    /\ m_hSquadMember' =
           [x \in Monsters |-> [i \in MemberIdx |->
               IF x = m \/ m_hSquadMember[x][i] = m THEN NULL ELSE m_hSquadMember[x][i]]]
    /\ m_afSquadSlots' = [m_afSquadSlots EXCEPT ![m] = {}]
    /\ m_iMySlot' = [m_iMySlot EXCEPT ![m] = NULL]
    /\ m_hEnemy' = [m_hEnemy EXCEPT ![m] = NULL]

\* The monster finds, changes or loses an enemy.
GetEnemy(m) ==
    /\ life[m] = "alive"
    /\ \E e \in Enemies \cup {NULL} : m_hEnemy' = [m_hEnemy EXCEPT ![m] = e]
    /\ UNCHANGED <<squad, slots, life, started>>

\* A saved game is loaded, or the monsters come along to another level:
\* m_afSquadSlots is the only field that is not saved.
Restore ==
    /\ m_afSquadSlots' = [m \in Monsters |-> {}]
    /\ UNCHANGED <<squad, m_iMySlot, m_hEnemy, life, started>>

Next ==
    \/ \E m \in Monsters :
        \/ \E told \in SUBSET Visited(MySquadLeader(m)), want \in Wants :
               ChangeSchedule(m, told, want)
        \/ Killed(m)
        \/ StartMonster(m)
        \/ Spawn(m)
        \/ RemoveCorpse(m)
        \/ GetEnemy(m)
    \/ Restore

Spec == Init /\ [][Next]_vars

-----------------------------------------------------------------------------
(* Properties                                                               *)

(***************************************************************************)
(* Leaders and members agree, whoever dies, is recruited again or removed: *)
(* the leader of a monster leads a squad the monster is in, and a living   *)
(* monster a leader counts as member is led by this leader.  (A monster    *)
(* that dies before StartMonster may still recruit, hence the restriction  *)
(* to living leaders.)                                                     *)
(***************************************************************************)
SquadsAgree ==
    \A l \in Monsters : life[l] = "alive" =>
        /\ \A m \in Monsters : m_hSquadLeader[m] = l => IsLeader(l) /\ m \in Visited(l)
        /\ \A i \in MemberIdx :
               LET m == m_hSquadMember[l][i]
               IN  m # NULL /\ life[m] = "alive" => m_hSquadLeader[m] = l

(***************************************************************************)
(* No slot is lost: a slot that a leader has marked is held by a living    *)
(* monster of the squad, whose next schedule will free it, whoever died,   *)
(* was recruited or restored since.                                        *)
(***************************************************************************)
SlotsAreHeld ==
    \A l \in Monsters : \A s \in m_afSquadSlots[l] :
        IsLeader(l) => \E m \in Monsters :
            life[m] = "alive" /\ m_hSquadLeader[m] = l /\ m_iMySlot[m] = s

(***************************************************************************)
(* OccupySlot: "Is it already taken? No, use this bit"                     *)
(* (squadmonster.cpp:85-87): two monsters of a squad never hold the same   *)
(* slot.                                                                   *)
(***************************************************************************)
SlotIsExclusive ==
    \A m, x \in Monsters :
        m # x /\ InSquad(m) /\ m_hSquadLeader[m] = m_hSquadLeader[x]
        /\ m_iMySlot[m] = m_iMySlot[x]
        => m_iMySlot[m] \in {NULL, SplitSlot}
=============================================================================
