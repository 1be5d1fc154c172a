----------------------------- MODULE PathResult -----------------------------
(* What a search of ScenePath gives: the loop of Scene::SearchPath to its end,  *)
(* the way back along the parents, and what makes it the right one.             *)
EXTENDS ScenePath, SequencesExt

RECURSIVE PathBack(_, _)

PathBack(s, c) == IF c = s.begin \/ c = NoCell THEN << >> ELSE Append(PathBack(s, s.parent[c]), c)

ConstructResultPath(s) == IF s.size = 0 THEN << >> ELSE PathBack(s, s.end)

RECURSIVE SearchEnd(_)

SearchEnd(s) == IF SearchDone(s) THEN s ELSE SearchEnd(Expand(s))

SearchPath(walk, begin, end) == ConstructResultPath(SearchEnd(SearchBegin(walk, begin, end)))

-----------------------------------------------------------------------------
(* Properties *)

\* Every cell that can be reached, with the cost of the cheapest way of at most n
\* steps to it, as a set of pairs.
RECURSIVE Reached(_, _, _)

Reached(walk, costs, n) ==
  IF n = 0 THEN costs
  ELSE LET one == costs \cup UNION {{<<d, p[2] + NeighborGCost(p[1], d)>> :
                    d \in Range(GetNeighborNodes(walk, p[1]))} : p \in costs}
       IN Reached(walk, {p \in one : \A q \in one : q[1] = p[1] => q[2] >= p[2]}, n - 1)

PathCost(begin, path) ==
  FoldLeft(LAMBDA sum, i : sum + NeighborGCost(IF i = 1 THEN begin ELSE path[i - 1], path[i]),
           0, [i \in 1..Len(path) |-> i])

\* A search that has ended gives a way over walkable neighbours to the end, and no
\* way is cheaper; it gives none when there is none.
CheapestPath ==
  SearchDone(search) =>
    LET path == ConstructResultPath(search)
        cheapest == {p[2] : p \in {q \in Reached(search.walk, {<<search.begin, 0>>},
                                   Cardinality(search.walk)) : q[1] = search.end}}
    IN IF cheapest = {} THEN path = << >>
       ELSE /\ Len(path) > 0 /\ path[Len(path)] = search.end
            /\ \A i \in 1..Len(path) :
                 path[i] \in Range(GetNeighborNodes(search.walk,
                                     IF i = 1 THEN search.begin ELSE path[i - 1]))
            /\ PathCost(search.begin, path) \in cheapest

=============================================================================
