------------------------------ MODULE NodeSearch ------------------------------
(***************************************************************************)
(* Which node of the graph a point is at: CGraph::FindNearestNode with the *)
(* tables of BuildRegionTables (dlls/nodes.cpp).  Each axis is divided     *)
(* into NUM_RANGES regions; for each axis the nodes are sorted by their    *)
(* regions, and the range of that order in which a region lies is kept.    *)
(* The search goes through ranges of all three axes and narrows them with  *)
(* each nearer node it finds.  Answers are cached by position.             *)
(*                                                                         *)
(* Coordinates are whole numbers of a unit the instance chooses; distances *)
(* are compared by their squares.  What a trace sees is an input: doors    *)
(* move.                                                                   *)
(***************************************************************************)
EXTENDS NodeRoutes

CONSTANTS
    NUM_RANGES,      \* regions of an axis: 256
    Levels,          \* functions from GraphNodes to [origin, kind]
    Points,          \* where monsters look for a node
    NodeTypes,       \* the sets of kinds that are asked for
    Hash(_),         \* the slot of m_Cache for a point
    Sights,          \* what can be seen when the game starts: see visible
    NODE_HEIGHT,     \* how much higher a land node is seen
    MaxDoorMoves     \* bound of the model: changes of what can be seen

Axes == 1 .. 3

ASSUME SearchAssumption ==
    /\ NUM_RANGES \in Nat \ {0} /\ NODE_HEIGHT \in Nat /\ MaxDoorMoves \in Nat
    /\ Points \subseteq [Axes -> Nat]
    /\ \A l \in Levels : DOMAIN l = GraphNodes

VARIABLES
    level,     \* the nodes: m_vecOrigin on the ground and m_afNodeInfo
    region,    \* the tables: m_Region, m_SortedBy, m_RangeStart, m_RangeEnd
    m_Cache,   \* [v, n] of each slot
    visible,   \* from each point the nodes a trace reaches
    nearest,   \* the last answer: [point, types, node, searched]
    doorMoves

searchVars == <<level, region, m_Cache, visible, nearest, doorMoves>>

\* The axes of the sort codes, from the axis itself.
Second(axis) == (axis % 3) + 1
Third(axis)  == ((axis + 1) % 3) + 1

SearchTypeOK ==
    /\ region # <<>> => \A axis \in Axes :
          /\ ToSet(region.sortedBy[axis]) = GraphNodes
          /\ \A n \in GraphNodes : region.of[n][axis] \in 0 .. NUM_RANGES - 1
    /\ nearest.node \in GraphNodes \cup {NONE}

-----------------------------------------------------------------------------
(* BuildRegionTables                                                        *)

\* Division of C, towards zero; CALC_RANGE( int x, int lower, int upper ).
Quotient(a, b) == IF a >= 0 THEN a \div b ELSE -((-a) \div b)
CALC_RANGE(x, bounds) == Quotient(NUM_RANGES * (x - bounds[1]), bounds[2] - bounds[1] + 1)

\* m_vecOriginPeek, and m_vecOrigin as well until the tables are built: only
\* then are the nodes on land let down to the ground.
Peek(n) == IF level[n].kind = "land"
           THEN [level[n].origin EXCEPT ![3] = @ + NODE_HEIGHT] ELSE level[n].origin

Coordinates(axis) == {Peek(n)[axis] : n \in GraphNodes}
RegionBounds == [axis \in Axes |-> <<Min(Coordinates(axis)), Max(Coordinates(axis))>>]

\* The selection sort compares with the code that was at place j when it came
\* there, also after it has swapped another node to j.
SortedBy(codeOf) ==
    LET inner(s, j, code) ==
            FoldLeft(LAMBDA t, k : IF codeOf[t[k]] < code
                                   THEN [t EXCEPT ![j] = t[k], ![k] = t[j]] ELSE t,
                     s, [n \in 1 .. m_cNodes - j |-> j + n])
    IN  FoldLeft(LAMBDA s, j : inner(s, j, codeOf[s[j]]),
                 [n \in 1 .. m_cNodes |-> n - 1], [n \in 1 .. m_cNodes - 1 |-> n])

RegionTables ==
    LET bounds == RegionBounds
        R == [n \in GraphNodes |->
                 [axis \in Axes |-> CALC_RANGE(Peek(n)[axis], bounds[axis])]]
        code(axis) == [n \in GraphNodes |->
                          (R[n][axis] * NUM_RANGES + R[n][Second(axis)]) * NUM_RANGES
                          + R[n][Third(axis)]]
        sorted == [axis \in Axes |-> SortedBy(code(axis))]
        places(axis, r) == {i \in 0 .. m_cNodes - 1 : R[sorted[axis][i + 1]][axis] = r}
    IN  [bounds     |-> bounds,
         of         |-> R,
         sortedBy   |-> sorted,
         rangeStart |-> [axis \in Axes |-> [r \in 0 .. NUM_RANGES - 1 |->
                            Min(places(axis, r) \cup {NUM_RANGES - 1})]],
         rangeEnd   |-> [axis \in Axes |-> [r \in 0 .. NUM_RANGES - 1 |->
                            Max(places(axis, r) \cup {0})]]]

-----------------------------------------------------------------------------
(* CheckNode                                                                *)

Square(x) == x * x
Distance2(p, q) == Square(p[1] - q[1]) + Square(p[2] - q[2]) + Square(p[3] - q[3])

Floor(d2)   == CHOOSE r \in 0 .. d2 : r * r <= d2 /\ d2 < (r + 1) * (r + 1)
Ceiling(d2) == IF Square(Floor(d2)) = d2 THEN Floor(d2) ELSE Floor(d2) + 1

\* x - sqrt(d2) and x + sqrt(d2) as the int parameter of CALC_RANGE.
Below(x, d2) == IF x >= Ceiling(d2) THEN x - Ceiling(d2) ELSE x - Floor(d2)
Above(x, d2) == x + Floor(d2)

\* CalcBounds: the regions as near to Goal as Best is.
Lower(Goal, Best) == IF Best > Goal THEN Max({0, 2 * Goal - Best}) ELSE Best
Upper(Goal, Best) == IF Best > Goal THEN Best ELSE Min({NUM_RANGES - 1, 2 * Goal - Best})

Sees(p, n) == n \in visible[p]

\* A node that is nearer counts before it is known whether it can be seen.
CheckNodeUnseen(s, p, n) ==
    LET d2 == Distance2(p, Peek(n))
    IN  IF n \notin s.checked /\ (s.node = NONE \/ d2 < s.shortest)
        THEN [s EXCEPT !.checked = @ \cup {n}, !.node = n, !.shortest = d2]
        ELSE s

CheckNode(s, p, n) ==
    LET d2   == Distance2(p, Peek(n))
        goal == [axis \in Axes |-> CALC_RANGE(p[axis], region.bounds[axis])]
        best == region.of[n]
        seen == [s EXCEPT !.checked = @ \cup {n}]
    IN  IF n \in s.checked THEN s
        ELSE IF (s.node = NONE \/ d2 < s.shortest) /\ Sees(p, n)
        THEN [seen EXCEPT
                 !.node = n,
                 !.shortest = d2,
                 !.min = [axis \in Axes |-> Max({@[axis], Lower(goal[axis], best[axis])})],
                 !.max = [axis \in Axes |-> Min({@[axis], Upper(goal[axis], best[axis])})],
                 !.boxMin = [axis \in Axes |-> CALC_RANGE(Below(p[axis], d2), region.bounds[axis])],
                 !.boxMax = [axis \in Axes |-> CALC_RANGE(Above(p[axis], d2), region.bounds[axis])]]
        ELSE seen

-----------------------------------------------------------------------------
(* FindNearestNode                                                          *)

\* The nodes of region i of an axis, in the order of m_SortedBy, until one lies
\* behind the box.
ScanRange(s, p, types, axis, i) ==
    LET b == Second(axis)
        c == Third(axis)
        visit(t, j) ==
            LET n == region.sortedBy[axis][j + 1]
                r == region.of[n]
            IN  IF t.stop \/ level[n].kind \notin types THEN t
                ELSE IF r[b] > t.s.boxMax[b] THEN [t EXCEPT !.stop = TRUE]
                ELSE IF r[b] < t.s.boxMin[b] \/ r[c] < t.s.boxMin[c] \/ r[c] > t.s.boxMax[c]
                THEN t
                ELSE [t EXCEPT !.s = CheckNode(t.s, p, n)]
        start == region.rangeStart[axis][i]
        end   == region.rangeEnd[axis][i]
    IN  FoldLeft(visit, [s |-> s, stop |-> FALSE],
                 [m \in 1 .. (end - start + 1) |-> start + m - 1]).s

\* The loops over the regions of an axis, whose bounds the search narrows.
RECURSIVE Down(_, _, _, _, _), Up(_, _, _, _, _)
Down(s, p, types, axis, i) ==
    IF i < s.min[axis] THEN s
    ELSE Down(ScanRange(s, p, types, axis, i), p, types, axis, i - 1)
Up(s, p, types, axis, i) ==
    IF i > s.max[axis] THEN s
    ELSE Up(ScanRange(s, p, types, axis, i), p, types, axis, i + 1)

Half == (NUM_RANGES - 1) \div 2
LowerHalf(s, p, types, axis) == Down(s, p, types, axis, Min({s.max[axis], Half}))
UpperHalf(s, p, types, axis) == Up(s, p, types, axis, Max({s.min[axis], Half + 1}))

SearchNearest(p, types) ==
    LET whole == [axis \in Axes |-> 0]
        far   == [axis \in Axes |-> NUM_RANGES - 1]
        s0    == [node |-> NONE, shortest |-> NONE, checked |-> {},
                  min |-> whole, max |-> far, boxMin |-> whole, boxMax |-> far]
        s1 == LowerHalf(s0, p, types, 1)
        s2 == UpperHalf(s1, p, types, 2)
        s3 == LowerHalf(s2, p, types, 3)
        s4 == UpperHalf(s3, p, types, 1)
        s5 == LowerHalf(s4, p, types, 2)
    IN  UpperHalf(s5, p, types, 3).node

\* The memory of the cache is zeroed: the origin is at node 0.
EmptyCache == [slot \in {Hash(p) : p \in Points} |-> [v |-> <<0, 0, 0>>, n |-> 0]]

NotAsked == [point |-> <<0, 0, 0>>, types |-> {}, node |-> NONE, searched |-> FALSE]

\* The tables are built with the graph, or loaded with it from its file.
SearchInit ==
    /\ level \in Levels
    /\ region = <<>>
    /\ m_Cache = <<>>
    /\ visible \in Sights
    /\ nearest = NotAsked
    /\ doorMoves = 0

BuildRegionTables ==
    /\ region = <<>>
    /\ region' = RegionTables
    /\ m_Cache' = EmptyCache
    /\ UNCHANGED <<level, visible, nearest, doorMoves>>

FindNearestNode(p, types) ==
    /\ region # <<>>
    /\ LET slot == m_Cache[Hash(p)]
           hit  == slot.v = p
           n    == IF hit THEN slot.n ELSE SearchNearest(p, types)
       IN  /\ nearest' = [point |-> p, types |-> types, node |-> n, searched |-> ~hit]
           /\ m_Cache' = [m_Cache EXCEPT ![Hash(p)] = [v |-> p, n |-> n]]
    /\ UNCHANGED <<level, region, visible, doorMoves>>

\* A door opens or shuts; what was answered is of before.
DoorMoves ==
    /\ doorMoves < MaxDoorMoves
    /\ doorMoves' = doorMoves + 1
    /\ \E p \in Points, n \in GraphNodes :
          visible' = [visible EXCEPT ![p] = IF n \in @ THEN @ \ {n} ELSE @ \cup {n}]
    /\ nearest' = NotAsked
    /\ UNCHANGED <<level, region, m_Cache>>

SearchNext ==
    \/ BuildRegionTables
    \/ \E p \in Points, types \in NodeTypes : FindNearestNode(p, types)
    \/ DoorMoves

-----------------------------------------------------------------------------
(* Properties                                                               *)

Candidates == {n \in GraphNodes : level[n].kind \in nearest.types /\ Sees(nearest.point, n)}

(***************************************************************************)
(* A search finds a node of the wanted types that can be seen from the     *)
(* point whenever there is one, although the tables may be out of order,   *)
(* the search breaks off ranges.                                           *)
(* Answers from the cache are excepted: they may be of other types.        *)
(***************************************************************************)
NearestIsUsable ==
    nearest.searched =>
        IF nearest.node = NONE THEN Candidates = {} ELSE nearest.node \in Candidates

(***************************************************************************)
(* "After the search is exhausted, we know we have the closest node."      *)
(* (dlls/nodes.h)                                                          *)
(***************************************************************************)
ClosestIsFound ==
    nearest.searched =>
        \A n \in Candidates : Distance2(nearest.point, Peek(nearest.node))
                              <= Distance2(nearest.point, Peek(n))
=============================================================================
