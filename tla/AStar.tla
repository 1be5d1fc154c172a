------------------------------- MODULE AStar -------------------------------
(* The search of generate_path_config, and what the heap of a scene stands for: *)
(* A* with an open set, from which any node of the least f is taken.  The code  *)
(* of the tool is that of Scene::SearchPath but for the cost of a diagonal      *)
(* step.  A step expands a node; the search may end when the end is among the   *)
(* least, and has failed when nothing is open.                                  *)
EXTENDS Integers, Sequences, FiniteSets

CONSTANT DiagonalCost     \* 14 in a scene, 10 in the tool

VARIABLE astar            \* a search: its sets of nodes, their costs and parents

\* Node::NeighbroGCost.
NeighborGCost(c, d) == IF c[1] = d[1] \/ c[2] = d[2] THEN 10 ELSE DiagonalCost

\* Node::HeursiticConstEstimate: ten times the straight distance, rounded down.
HeuristicCostEstimate(c, d) ==
  LET square == 100 * ((c[1] - d[1]) * (c[1] - d[1]) + (c[2] - d[2]) * (c[2] - d[2]))
  IN CHOOSE k \in 0..square : k * k <= square /\ (k + 1) * (k + 1) > square

\* Scene::GetNeighborNodes.
GetNeighborNodes(walk, c) ==
  {d \in walk : d # c /\ d[1] - c[1] \in -1..1 /\ d[2] - c[2] \in -1..1}

\* Scene::SearchPath before its loop.
SearchBegin(walk, begin, end) ==
  LET zero == [c \in walk |-> 0]
  IN [walk |-> walk, begin |-> begin, end |-> end, open |-> {begin}, closed |-> {}, g |-> zero,
      f |-> [zero EXCEPT ![begin] = HeuristicCostEstimate(begin, end)],
      parent |-> [c \in walk |-> << >>]]

\* GetMinFScoreNodeInOpenList, up to the order of nodes that are alike.
Least(s) == {c \in s.open : \A d \in s.open : s.f[c] <= s.f[d]}

\* DeleteMinFScoreNodeInOpenList and InsertCloseList.
Close(s, c) == [s EXCEPT !.open = @ \ {c}, !.closed = @ \cup {c}]

ViaCost(s, c, d) == s.g[c] + NeighborGCost(c, d)

\* The neighbours of c that go through InsertOpenList, those closed before again ...
Opens(s, c) ==
  {d \in GetNeighborNodes(s.walk, c) \ s.open : d \in s.closed => ViaCost(s, c, d) < s.g[d]}

\* ... and those that ResortOpenList moves forward, as c is the better way to them.
Resorts(s, c) ==
  {d \in GetNeighborNodes(s.walk, c) \cap s.open : ViaCost(s, c, d) < s.g[d]}

\* An iteration of the loop of SearchPath.
Expand(s, c) ==
  LET better == Opens(s, c) \cup Resorts(s, c)
      g == [d \in s.walk |-> IF d \in better THEN ViaCost(s, c, d) ELSE s.g[d]]
  IN [Close(s, c) EXCEPT
        !.open = @ \cup better, !.g = g,
        !.f = [d \in s.walk |-> IF d \in better THEN g[d] + HeuristicCostEstimate(d, s.end) ELSE s.f[d]],
        !.parent = [d \in s.walk |-> IF d \in better THEN c ELSE s.parent[d]]]

CanEnd(s) == s.end \in Least(s)
Failed(s) == s.open = {}

AStarNext == \E c \in Least(astar) \ {astar.end} : astar' = Expand(astar, c)

\* Scene::ConstructResultPath.  Bound: a path has at most as many nodes as the map.
ConstructResultPath(s) ==
  LET back[n \in 0..Cardinality(s.walk)] == IF n = 0 \/ back[n - 1] \in {s.begin, << >>} THEN
                                              (IF n = 0 THEN s.end ELSE back[n - 1])
                                            ELSE s.parent[back[n - 1]]
      steps == CHOOSE n \in 0..Cardinality(s.walk) :
                 back[n] = s.begin /\ \A m \in 0..n - 1 : back[m] # s.begin
  IN [i \in 1..steps |-> back[steps - i]]

=============================================================================
