------------------------------ MODULE NodeRoutes ------------------------------
(***************************************************************************)
(* The routes of monsters through the node graph: dlls/nodes.cpp.  The     *)
(* graph gets its routing tables when it is built                          *)
(* (ComputeStaticRoutingTables): from every pair of nodes a search with a  *)
(* priority queue, the path entered for all pairs along it, and each       *)
(* node's row packed into phrases of signed characters that nodes share.   *)
(* Afterwards FindShortestPath and PathLength only decode the tables.      *)
(*                                                                         *)
(* One hull stands for the four, whose tables do not meet but in           *)
(* m_pRouteInfo.  A link is as long as its weight; what blocks a link is a *)
(* door that is shut when the graph is built, which monsters that open     *)
(* doors (cap) may plan to pass.                                           *)
(***************************************************************************)
EXTENDS Integers, SequencesExt, FiniteSetsExt

CONSTANTS
    m_cNodes,        \* the number of nodes
    Graphs,          \* the graphs of the levels: functions from Pairs to links
    MAX_STACK_NODES, \* capacity of the priority queue
    MAX_PATH_SIZE,   \* nodes that the array of a caller holds
    CharMax          \* the largest signed char: 127

GraphNodes == 0 .. (m_cNodes - 1)
Pairs      == {e \in GraphNodes \X GraphNodes : e[1] # e[2]}
NONE       == -1   \* no entry, no distance, no link

ASSUME RoutesAssumption ==
    /\ {m_cNodes, MAX_STACK_NODES, CharMax} \subseteq Nat \ {0}
    /\ MAX_PATH_SIZE \in Nat \ {0, 1}
    /\ \A g \in Graphs : \A e \in Pairs : g[e].weight \in Nat \cup {NONE}

VARIABLES
    graph,    \* of every pair of nodes the link: [weight, door]
    routing,  \* [complete, info, first]: m_fRoutingComplete, m_pRouteInfo and
              \* m_pNextBestNode of each node without and with cap
    route     \* the last answer: [from, to, cap, path, length]

routeVars == <<graph, routing, route>>

RoutesTypeOK ==
    /\ \A n \in 1 .. Len(routing.info) : routing.info[n] \in -(CharMax + 1) .. CharMax
    /\ routing.complete => \A e \in GraphNodes \X BOOLEAN :
                              routing.first[e] \in 0 .. Len(routing.info) - 1
    /\ \A n \in 1 .. Len(route.path) : route.path[n] \in GraphNodes
    /\ Len(route.path) <= MAX_PATH_SIZE

-----------------------------------------------------------------------------
(* CQueuePriority: a heap of [Priority, Id]                                 *)

RECURSIVE Heap_SiftUp(_, _), Heap_SiftDown(_, _)

Swap(heap, a, b) == [heap EXCEPT ![a] = heap[b], ![b] = heap[a]]

Heap_SiftUp(heap, child) ==
    LET parent == child \div 2
    IN  IF child = 1 \/ heap[parent].Priority <= heap[child].Priority
        THEN heap
        ELSE Heap_SiftUp(Swap(heap, child, parent), parent)

Heap_SiftDown(heap, parent) ==
    LET left  == 2 * parent
        child == IF left < Len(heap) /\ heap[left + 1].Priority < heap[left].Priority
                 THEN left + 1 ELSE left
    IN  IF left > Len(heap) \/ heap[parent].Priority <= heap[child].Priority
        THEN heap
        ELSE Heap_SiftDown(Swap(heap, parent, child), child)

\* A full queue drops what is inserted.
Inserted(heap, node, priority) ==
    IF Len(heap) = MAX_STACK_NODES THEN heap
    ELSE Heap_SiftUp(Append(heap, [Priority |-> priority, Id |-> node]), Len(heap) + 1)

\* The rest of the queue without its smallest element, the first.
Removed(heap) ==
    IF Len(heap) = 1 THEN <<>>
    ELSE Heap_SiftDown([Front(heap) EXCEPT ![1] = Last(heap)], 1)

-----------------------------------------------------------------------------
(* FindShortestPath before the tables are there                             *)

Usable(i, j, cap) == /\ i # j
                     /\ graph[<<i, j>>].weight # NONE
                     /\ graph[<<i, j>>].door => cap

\* The links of a node, in the order of LinkVisibleNodes.
Neighbours(i, cap) ==
    SelectSeq([n \in 1 .. m_cNodes |-> n - 1], LAMBDA j : Usable(i, j, cap))

\* A node that was reached before is not queued again.
VisitOnce(s, from, distance, to) ==
    LET d == distance + graph[<<from, to>>].weight
    IN  IF s.closest[to] = NONE
        THEN [heap     |-> Inserted(s.heap, to, d),
              closest  |-> [s.closest EXCEPT ![to] = d],
              previous |-> [s.previous EXCEPT ![to] = from]]
        ELSE s

\* A link is examined: a shorter way to its end goes into the queue.
Visit(s, from, distance, to) ==
    LET d == distance + graph[<<from, to>>].weight
    IN  IF s.closest[to] = NONE \/ d < s.closest[to]
        THEN [heap     |-> Inserted(s.heap, to, d),
              closest  |-> [s.closest EXCEPT ![to] = d],
              previous |-> [s.previous EXCEPT ![to] = from]]
        ELSE s

RECURSIVE Search(_, _, _)
Search(s, dest, cap) ==
    IF s.heap = <<>> \/ s.heap[1].Id = dest THEN s
    ELSE LET top == s.heap[1]
         IN  Search(FoldLeft(LAMBDA t, to : Visit(t, top.Id, top.Priority, to),
                             [s EXCEPT !.heap = Removed(s.heap)],
                             Neighbours(top.Id, cap)),
                    dest, cap)

RECURSIVE WayBack(_, _, _)
WayBack(previous, start, node) ==
    IF node = start THEN <<start>>
    ELSE Append(WayBack(previous, start, previous[node]), node)

SearchPath(start, dest, cap) ==
    IF start = dest THEN <<start, dest>>
    ELSE LET s == Search([heap     |-> Inserted(<<>>, start, 0),
                          closest  |-> [i \in GraphNodes |-> IF i = start THEN 0 ELSE NONE],
                          previous |-> [i \in GraphNodes |-> start]],
                         dest, cap)
         IN  IF s.closest[dest] = NONE THEN <<>> ELSE WayBack(s.previous, start, dest)

-----------------------------------------------------------------------------
(* ComputeStaticRoutingTables                                               *)

\* A path gives the next node for each pair along it.
EnterPath(R, path) ==
    [e \in DOMAIN R |->
        LET at == {a \in 1 .. Len(path) - 1 :
                      path[a] = e[1] /\ \E b \in a + 1 .. Len(path) : path[b] = e[2]}
        IN  IF at = {} THEN R[e] ELSE path[Min(at) + 1]]

\* Without a path neither node leads to the other.
EnterNoPath(R, from, to) == [R EXCEPT ![<<from, to>>] = from, ![<<to, from>>] = to]

Routes(cap) ==
    LET order == [n \in 1 .. m_cNodes * m_cNodes |->
                     <<(n - 1) \div m_cNodes, m_cNodes - 1 - ((n - 1) % m_cNodes)>>]
        enter(R, e) ==
            IF R[e] # NONE THEN R
            ELSE LET path == SearchPath(e[1], e[2], cap)
                 IN  IF path # <<>> THEN EnterPath(R, path) ELSE EnterNoPath(R, e[1], e[2])
    IN  FoldLeft(enter, [e \in GraphNodes \X GraphNodes |-> NONE], order)

\* The offset of a repeat phrase, modulo the number of nodes where it must be.
Offset(d) ==
    LET fits == SelectSeq(<<d, d + m_cNodes, d - m_cNodes>>,
                          LAMBDA x : -(CharMax + 1) <= x /\ x <= CharMax)
    IN  IF fits = <<>> THEN <<>> ELSE <<fits[1]>>

Repeat(w, from)  == w.out \o <<w.repeats - 1>> \o Offset(w.last - from)
Sequence(w)      == w.out \o <<-w.sequence>>

\* One entry of a row: it continues the phrase or ends it and starts another.
Pack(w, i, next, from) ==
    LET CanRepeat   == next = w.last /\ w.repeats < CharMax
        CanSequence == next = i /\ w.sequence < CharMax + 1
        continued   ==
            CASE w.repeats > 0 /\ CanRepeat -> [w EXCEPT !.repeats = @ + 1]
              [] w.repeats > 0 /\ ~CanRepeat /\ CanSequence ->
                    [w EXCEPT !.out = Repeat(w, from), !.repeats = 0, !.sequence = @ + 1]
              [] w.repeats > 0 /\ ~CanRepeat /\ ~CanSequence ->
                    [w EXCEPT !.out = Repeat(w, from), !.repeats = 1]
              [] w.repeats = 0 /\ CanSequence -> [w EXCEPT !.sequence = @ + 1]
              [] w.repeats = 0 /\ ~CanSequence /\ w.sequence = 0 -> [w EXCEPT !.repeats = 1]
              [] w.repeats = 0 /\ ~CanSequence /\ w.sequence = 1 /\ CanRepeat ->
                    [w EXCEPT !.repeats = 2, !.sequence = 0]
              [] OTHER -> [w EXCEPT !.out = Sequence(w), !.sequence = 0, !.repeats = 1]
    IN  [continued EXCEPT !.last = next]

PackRow(R, from) ==
    LET w == FoldLeft(LAMBDA v, n : Pack(v, n - 1, R[<<from, n - 1>>], from),
                      [out |-> <<>>, last |-> NONE, repeats |-> 0, sequence |-> 0],
                      [n \in 1 .. m_cNodes |-> n])
    IN  IF w.repeats > 0 THEN Repeat(w, from)
        ELSE IF w.sequence > 0 THEN Sequence(w) ELSE w.out

\* A row that lies somewhere in m_pRouteInfo, but at its end, is shared.
Place(info, row) ==
    LET at == {i \in 0 .. Len(info) - Len(row) - 1 : SubSeq(info, i + 1, i + Len(row)) = row}
    IN  IF at # {} THEN [info |-> info, first |-> Min(at)]
        ELSE [info |-> info \o row, first |-> Len(info)]

RoutingTables ==
    LET R     == [cap \in BOOLEAN |-> Routes(cap)]
        order == [n \in 1 .. 2 * m_cNodes |-> <<(n - 1) % m_cNodes, n > m_cNodes>>]
        place(t, e) ==
            LET p == Place(t.info, PackRow(R[e[2]], e[1]))
            IN  [t EXCEPT !.info = p.info, !.first[e] = p.first]
    IN  FoldLeft(place, [complete |-> TRUE, info |-> <<>>,
                         first |-> [e \in GraphNodes \X BOOLEAN |-> 0]], order)

-----------------------------------------------------------------------------
(* NextNodeInRoute                                                          *)

\* ch = -ch in a signed char: the least one has no negative.
Negated(ch) == IF ch = -(CharMax + 1) THEN ch ELSE -ch

\* The phrase at pos says where to go, or count entries remain behind it.
\* What lies behind the table is anything: NONE.
RECURSIVE Decode(_, _, _, _)
Decode(pos, count, current, dest) ==
    IF pos + 1 > Len(routing.info) THEN NONE
    ELSE LET ch == routing.info[pos + 1]
         IN  IF ch < 0
             THEN IF count <= Negated(ch) THEN dest
                  ELSE Decode(pos + 1, count - Negated(ch), current, dest)
             ELSE IF count <= ch + 1 THEN (current + routing.info[pos + 2] + m_cNodes) % m_cNodes
                  ELSE Decode(pos + 2, count - ch - 1, current, dest)

NextNodeInRoute(current, dest, cap) ==
    Decode(routing.first[<<current, cap>>], dest + 1, current, dest)

\* FindShortestPath from the tables, continued from the path so far.
RECURSIVE Follow(_, _, _)
Follow(path, dest, cap) ==
    LET next == NextNodeInRoute(Last(path), dest, cap)
    IN  IF Last(path) = dest \/ (next # Last(path) /\ Len(path) >= MAX_PATH_SIZE) THEN path
        ELSE IF next \in {Last(path), NONE} THEN <<>>
        ELSE Follow(Append(path, next), dest, cap)

TablePath(start, dest, cap) ==
    IF start = dest THEN <<start, dest>> ELSE Follow(<<start>>, dest, cap)

\* PathLength, with steps of its loop left.
RECURSIVE LengthFrom(_, _, _, _)
LengthFrom(current, dest, cap, steps) ==
    IF current = dest THEN 0
    ELSE LET next == NextNodeInRoute(current, dest, cap)
             rest == LengthFrom(next, dest, cap, steps - 1)
         IN  IF steps = 0 \/ next \in {current, NONE} \/ graph[<<current, next>>].weight = NONE
             THEN NONE
             ELSE IF rest = NONE THEN NONE ELSE graph[<<current, next>>].weight + rest

PathLength(start, dest, cap) ==
    LET l == LengthFrom(start, dest, cap, m_cNodes) IN IF l = NONE THEN 0 ELSE l

-----------------------------------------------------------------------------
NoRouting == [complete |-> FALSE, info |-> <<>>, first |-> [e \in GraphNodes \X BOOLEAN |-> 0]]
NoRoute   == [from |-> NONE, to |-> NONE, cap |-> FALSE, path |-> <<>>, length |-> 0]

RoutesInit ==
    /\ graph \in Graphs
    /\ routing = NoRouting
    /\ route = NoRoute

ComputeStaticRoutingTables ==
    /\ ~routing.complete
    /\ routing' = RoutingTables
    /\ UNCHANGED <<graph, route>>

\* A monster asks for its way and how long it is.
FindRoute(start, dest, cap) ==
    /\ routing.complete
    /\ route' = [from |-> start, to |-> dest, cap |-> cap,
                 path |-> TablePath(start, dest, cap), length |-> PathLength(start, dest, cap)]
    /\ UNCHANGED <<graph, routing>>

RoutesNext ==
    \/ ComputeStaticRoutingTables
    \/ \E start, dest \in GraphNodes, cap \in BOOLEAN : FindRoute(start, dest, cap)

-----------------------------------------------------------------------------
(* Properties                                                               *)

\* Least lengths between nodes, for a reference: by way of the first k nodes.
Shortest(cap) ==
    LET Shorter(a, b) == IF a = NONE THEN b ELSE IF b = NONE THEN a ELSE Min({a, b})
        Sum(a, b)     == IF a = NONE \/ b = NONE THEN NONE ELSE a + b
        D[k \in 0 .. m_cNodes] ==
            IF k = 0
            THEN [e \in GraphNodes \X GraphNodes |->
                     IF e[1] = e[2] THEN 0
                     ELSE IF Usable(e[1], e[2], cap) THEN graph[e].weight ELSE NONE]
            ELSE LET d == D[k - 1]
                 IN  [e \in GraphNodes \X GraphNodes |->
                         Shorter(d[e], Sum(d[<<e[1], k - 1>>], d[<<k - 1, e[2]>>]))]
    IN  D[m_cNodes]

\* CharMax + 1 nodes in a row that are a node's next nodes, itself among them:
\* the count of their phrase has no negative, and the row cannot be read.
CountOverflows(cap) ==
    LET d == Shortest(cap)
    IN  \E i, j \in GraphNodes : \A k \in j .. j + CharMax :
            /\ k \in GraphNodes
            /\ k = i \/ (Usable(i, k, cap) /\ graph[<<i, k>>].weight = d[<<i, k>>])

(***************************************************************************)
(* What is decoded from the tables follows the links that the monster may  *)
(* use, is (the beginning of) a shortest way to the destination and its    *)
(* length is right, although rows are packed, wrapped and shared.  Where   *)
(* there is no way in one of the two directions, none may be found in      *)
(* either: the tables take links to go both ways.                          *)
(***************************************************************************)
RoutesAreShortest ==
    LET d    == Shortest(route.cap)
        path == route.path
        e    == <<route.from, route.to>>
        back == <<route.to, route.from>>
    IN  (route.from # route.to /\ ~CountOverflows(route.cap)) =>
            IF path = <<>>
            THEN (d[e] = NONE \/ d[back] = NONE) /\ route.length = 0
            ELSE /\ path[1] = route.from
                 /\ Last(path) = route.to \/ Len(path) = MAX_PATH_SIZE
                 /\ \A n \in 1 .. Len(path) - 1 :
                        /\ Usable(path[n], path[n + 1], route.cap)
                        /\ d[<<path[n], route.to>>] =
                              graph[<<path[n], path[n + 1]>>].weight + d[<<path[n + 1], route.to>>]
                 /\ route.length = d[e]
=============================================================================
