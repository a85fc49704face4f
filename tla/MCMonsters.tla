----------------------------- MODULE MCMonsters -----------------------------
(***************************************************************************)
(* What monsters ask of the level: what they hear, which way leads to a    *)
(* place and which node of the graph a place is at.  The three do not      *)
(* share state; component says which of them a behaviour is about, and the *)
(* others stay as they are.                                                *)
(***************************************************************************)
EXTENDS SoundEnt, NodeSearch

CONSTANT Components   \* the parts that behaviours are about

VARIABLE component

\* Sounds that Think may free as soon as they are inserted.
MCNoDuration == {0}

\* All graphs of ways that are near or far, those where the far ones lead only
\* from the lower node to the higher, and those where doors stand in them.
Links ==
    [none |-> [weight |-> NONE, door |-> FALSE], near |-> [weight |-> 1, door |-> FALSE],
     far  |-> [weight |-> 3, door |-> FALSE],    door |-> [weight |-> 1, door |-> TRUE]]
Undirected == {e \in Pairs : e[1] < e[2]}
Between(e) == IF e \in Undirected THEN e ELSE <<e[2], e[1]>>
MCGraphs ==
    LET between == [Undirected -> {"none", "near", "far"}]
    IN  {[e \in Pairs |-> Links[k[Between(e)]]] : k \in between}
        \cup {[e \in Pairs |-> Links[IF e \notin Undirected /\ k[Between(e)] = "far"
                                     THEN "none" ELSE k[Between(e)]]] : k \in between}
        \cup {[e \in Pairs |-> Links[k[Between(e)]]] : k \in [Undirected -> {"none", "near", "door"}]}
MCNoLinks == {[e \in Pairs |-> Links["none"]]}

\* Nodes in the air 8 units apart with tables in order, and nodes in the air and
\* on land whose tables the sort leaves out of order.  A unit is 8 of the game's.
Node(kind, x, y, z) == [kind |-> kind, origin |-> <<8 * x, 8 * y, 8 * z>>]
LevelOf(nodes) == [n \in GraphNodes |-> nodes[n + 1]]
Hall == LevelOf(<<Node("air", 0, 0, 0), Node("air", 3, 2, 0),
                  Node("air", 2, 1, 1), Node("air", 0, 0, 1)>>)
Yard == LevelOf(<<Node("air", 3, 3, 0), Node("land", 1, 2, 1),
                  Node("land", 2, 0, 0), Node("air", 3, 0, 1)>>)
MCLevels == {Hall, Yard}
MCHall == {Hall}

\* Two of the points share a slot of the cache, the origin among them.
MCPoints == {<<0, 0, 0>>, <<24, 0, 0>>, <<10, 9, 4>>}
MCPointNearTwo == {<<24, 0, 0>>}
MCHash(p) == p[3]
MCSights == {[p \in Points |-> S] : S \in {T \in SUBSET GraphNodes : Cardinality(T) % 2 = 0}}

monsterVars == <<component, vars, routeVars, searchVars>>
InSounds == component = "sounds" /\ UNCHANGED <<component, routeVars, searchVars>>
InRoutes == component = "routes" /\ UNCHANGED <<component, vars, searchVars>>
InNodes  == component = "nodes" /\ UNCHANGED <<component, vars, routeVars>>

MonstersInit ==
    /\ component \in Components
    /\ Init /\ RoutesInit /\ SearchInit
    /\ component # "routes" => \A e \in Pairs : graph[e].weight = NONE
    /\ component # "nodes" => level = Hall /\ visible = [p \in Points |-> {}]
MonstersNext == \/ InSounds /\ Next
                \/ InRoutes /\ RoutesNext
                \/ InNodes /\ SearchNext
MonstersSpec == MonstersInit /\ [][MonstersNext]_monsterVars

\* Sounds, tables and answers have the values that their code gives them.
MonstersTypeOK == TypeOK /\ RoutesTypeOK /\ SearchTypeOK
=============================================================================
