----------------------------- MODULE ScenePath -----------------------------
(* The path finding of a scene (combat/server/scene/scene.cc): A* over the      *)
(* cells of a map, with a binary heap as open list.  A step of the              *)
(* specification is an iteration of the loop of Scene::SearchPath.              *)
(*                                                                             *)
(* `list' is the memory of the vector open_list_ without its first element:     *)
(* what was popped is still there beyond `size', as open_list_pos_ may point    *)
(* there.  The nodes of a scene are the walkable cells `walk' of its map.       *)
EXTENDS Integers, Sequences, FiniteSets

CONSTANT Searches       \* the searches of the model: <<walkable cells, begin, end>>

\* MoveAction::Start asks for ways from where a warrior stands: on a walkable cell, as the
\* sites of a battle are (BattleAssumption).  They may lead anywhere.
ASSUME SearchAssumption ==
  \A q \in Searches : q[1] \subseteq Int \X Int /\ q[2] \in q[1] /\ q[3] \in Int \X Int

VARIABLE search

NoCell == << >>
NoSearch == << >>

\* NeighbroGCost: 10 to a cell beside, above or below, 14 to a diagonal one.
NeighborGCost(c, d) == IF c[1] = d[1] \/ c[2] = d[2] THEN 10 ELSE 14

\* HeursiticConstEstimate: ten times the straight distance, rounded down.
HeuristicCostEstimate(c, d) ==
  LET square == 100 * ((c[1] - d[1]) * (c[1] - d[1]) + (c[2] - d[2]) * (c[2] - d[2]))
  IN CHOOSE k \in 0..square : k * k <= square /\ (k + 1) * (k + 1) > square

\* The cells around one, row by row, that are walkable: place -> cell.
GetNeighborNodes(walk, c) ==
  LET around == [i \in 1..9 |-> <<(c[1] - 1) + ((i - 1) % 3), (c[2] - 1) + ((i - 1) \div 3)>>]
  IN [i \in {k \in 1..9 : around[k] # c /\ around[k] \in walk} |-> around[i]]

-----------------------------------------------------------------------------
(* The open list *)

SwapNodes(s, i, j) ==
  [s EXCEPT !.list = [@ EXCEPT ![i] = s.list[j], ![j] = s.list[i]],
            !.at = [@ EXCEPT ![s.list[i]] = j, ![s.list[j]] = i]]

Less(s, i, j) == s.f[s.list[i]] < s.f[s.list[j]]

\* A turn of the loops over `pos', a list and the index that moves in it.
Rise(pos) ==
  LET parent == pos.index \div 2
  IN IF parent = 0 \/ Less(pos.in, parent, pos.index) THEN pos
     ELSE [in |-> SwapNodes(pos.in, parent, pos.index), index |-> parent]

Fall(pos) ==
  LET left == 2 * pos.index
      child == IF left + 1 <= pos.in.size /\ Less(pos.in, left + 1, left) THEN left + 1 ELSE left
  IN IF left > pos.in.size \/ Less(pos.in, pos.index, child) THEN pos
     ELSE [in |-> SwapNodes(pos.in, pos.index, child), index |-> child]

\* The loops end within as many turns as there are places above and below.
Rising(s, i) ==
  LET pos[k \in 0..i] == IF k = 0 THEN [in |-> s, index |-> i] ELSE Rise(pos[k - 1])
  IN pos

Falling(s, i) ==
  LET pos[k \in 0..s.size] == IF k = 0 THEN [in |-> s, index |-> i] ELSE Fall(pos[k - 1])
  IN pos

SiftUp(s, i) == Rising(s, i)[i].in
SiftDown(s, i) == Falling(s, i)[s.size].in

InsertOpenList(s, c) ==
  LET n == s.size + 1
      list == IF n > Len(s.list) THEN Append(s.list, c) ELSE [s.list EXCEPT ![n] = c]
  IN SiftUp([s EXCEPT !.list = list, !.size = n, !.at[c] = n], n)

\* Mutant: the node that is taken out keeps its position, as if it were open.
DeleteMinKeepsPosition(s) == SiftDown([s EXCEPT !.list[1] = s.list[s.size], !.size = @ - 1], 1)

\* The last node takes the place of the first; its position is set when it is
\* swapped, not before.
DeleteMinFScoreNodeInOpenList(s) ==
  SiftDown([s EXCEPT !.at[s.list[1]] = 0, !.list[1] = s.list[s.size], !.size = @ - 1], 1)

ResortOpenList(s, c) == SiftUp(s, s.at[c])

-----------------------------------------------------------------------------
(* Scene::SearchPath *)

SearchBegin(walk, begin, end) ==
  LET zero == [c \in walk |-> 0]
  IN InsertOpenList([walk |-> walk, begin |-> begin, end |-> end, list |-> << >>, size |-> 0,
                     at |-> zero, closed |-> {}, g |-> zero,
                     f |-> [zero EXCEPT ![begin] = HeuristicCostEstimate(begin, end)],
                     parent |-> [c \in walk |-> NoCell]], begin)

\* Mutant: f is made of the cost as it was.
VisitKeepsCost(s, c, d) ==
  LET gCal == s.g[c] + NeighborGCost(c, d)
      reached == [s EXCEPT !.parent[d] = c, !.g[d] = gCal,
                           !.f[d] = s.g[d] + HeuristicCostEstimate(d, s.end)]
  IN IF d \in s.closed /\ gCal >= s.g[d] THEN s
     ELSE IF s.at[d] = 0 THEN InsertOpenList(reached, d)
     ELSE IF gCal < s.g[d] THEN ResortOpenList(reached, d)
     ELSE s

\* The body of the loop over the neighbours of `c'.
Visit(s, c, d) ==
  LET gCal == s.g[c] + NeighborGCost(c, d)
      isInOpenList == s.at[d] # 0
      reached == [s EXCEPT !.parent[d] = c, !.g[d] = gCal,
                           !.f[d] = gCal + HeuristicCostEstimate(d, s.end)]
  IN IF d \in s.closed /\ gCal >= s.g[d] THEN s
     ELSE IF ~isInOpenList THEN InsertOpenList(reached, d)
     ELSE IF gCal < s.g[d] THEN ResortOpenList(reached, d)
     ELSE s

SearchDone(s) == s.size = 0 \/ s.list[1] = s.end

\* The loop over the neighbours of `c': what n of the places around it have made of s.
Visiting(s, c) ==
  LET nodes == GetNeighborNodes(s.walk, c)
      visited[n \in 0..9] ==
        IF n = 0 THEN s
        ELSE IF n \in DOMAIN nodes THEN Visit(visited[n - 1], c, nodes[n])
        ELSE visited[n - 1]
  IN visited

Expand(s) ==
  LET c == s.list[1]
      closed == [DeleteMinFScoreNodeInOpenList(s) EXCEPT !.closed = @ \cup {c}]
  IN Visiting(closed, c)[9]

SearchInit == \E q \in Searches : search = SearchBegin(q[1], q[2], q[3])

SearchNext == ~SearchDone(search) /\ search' = Expand(search)

SearchSpec == SearchInit /\ [][SearchNext]_search

-----------------------------------------------------------------------------
(* Properties *)

\* The open list is a heap by f of nodes that are there once, and every one knows
\* its position, the first one excepted: it may know the one it was moved from.
OpenListKept ==
  LET s == search
  IN /\ \A i \in 2..s.size : s.f[s.list[i \div 2]] <= s.f[s.list[i]] /\ s.at[s.list[i]] = i
     /\ \A i, j \in 1..s.size : i # j => s.list[i] # s.list[j]
     /\ \A c \in s.walk : (s.at[c] # 0) = (\E i \in 1..s.size : s.list[i] = c)

\* What the search does with its heap is A* with a set of open nodes: an iteration of
\* SearchPath expands one of the least f, and does to costs and parents what AStar does.
Open == INSTANCE AStar WITH DiagonalCost <- 14, astar <-
  [walk |-> search.walk, begin |-> search.begin, end |-> search.end,
   open |-> {search.list[i] : i \in 1..search.size}, closed |-> search.closed,
   g |-> search.g, f |-> search.f, parent |-> search.parent]

SearchIsAStar == [][search # NoSearch => Open!AStarNext]_search

=============================================================================
