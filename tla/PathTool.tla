------------------------------ MODULE PathTool ------------------------------
(* The tool generate_path_config: it loads the maps and writes, for each, the   *)
(* ways between all its walkable cells that are long enough.  One map without   *)
(* a way between two of its cells and it gives up, the maps after it with it.   *)
EXTENDS Integers, Sequences, FiniteSets, SequencesExt

CONSTANTS
  ToolInputs        \* command lines and files: options, min, rows of map.xml, blocks
                    \* (a map.xml that cannot be read counts as one with a bad row)

VARIABLE tool

A == INSTANCE AStar WITH DiagonalCost <- 10, astar <- tool.search

NoTool == [stage |-> "none"]
NoSearching == << >>

\* CommandLineOption::Parse.
ParseTool(options) == "unknown" \notin options /\ {"c", "o"} \subseteq options

\* main.
ToolMain ==
  /\ tool.stage = "start"
  /\ tool' = IF ParseTool(tool.input.options)
             THEN [stage |-> "load", input |-> tool.input, rows |-> tool.input.rows, maps |-> << >>]
             ELSE [tool EXCEPT !.stage = "failed"]

ToolBlockParts ==
  {"map", "layer name", "path layer", "width", "height", "data", "encoding", "compression"}

\* Config::LoadBlockConfig: it gives more room than the combat server does.
LoadsBlockConfig(doc) ==
  /\ ToolBlockParts \subseteq doc.parts /\ doc.encoding = "base64" /\ doc.compression = "zlib"
  /\ 4 * Len(doc.cells) <= 5 * doc.width * doc.height

\* The nodes of the scene, row by row, and those one may walk on.
NodesOf(doc) == [i \in 1..doc.width * doc.height |-> <<(i - 1) % doc.width, (i - 1) \div doc.width>>]
WalkablePoses(doc) ==
  SelectSeq(NodesOf(doc), LAMBDA c : doc.cells[c[2] * doc.width + c[1] + 1] > 0)

\* Config::LoadConfig, a row; the first map with an id stays.
LoadToolMap ==
  /\ tool.stage = "load" /\ tool.rows # << >>
  /\ LET row == Head(tool.rows)
         id == row.id
     IN tool' = IF ~(row.good /\ LoadsBlockConfig(tool.input.blocks[row.tilemap]))
                THEN [tool EXCEPT !.stage = "failed"]
                ELSE [tool EXCEPT !.rows = Tail(@), !.maps =
                        IF id \in DOMAIN @ THEN @
                        ELSE [k \in DOMAIN @ \cup {id} |->
                                IF k = id THEN WalkablePoses(tool.input.blocks[row.tilemap]) ELSE tool.maps[k]]]

\* The pairs of a map, in the order of the two loops.
Pairs(poses) ==
  FlattenSeq([i \in DOMAIN poses |-> [j \in 1..Len(poses) - i |-> <<poses[i], poses[i + j]>>]])

\* Config::GeneratePathConfig: the next map; those with small ids come first.
NextMap ==
  /\ tool.stage = "load" /\ tool.rows = << >>
  /\ tool' = [stage |-> "next", input |-> tool.input, maps |-> tool.maps, files |-> << >>]

BeginMap ==
  /\ tool.stage = "next" /\ DOMAIN tool.maps \ DOMAIN tool.files # {}
  /\ LET left == DOMAIN tool.maps \ DOMAIN tool.files
         id == CHOOSE i \in left : \A j \in left : i <= j
     IN tool' = [stage |-> "map", input |-> tool.input, maps |-> tool.maps, files |-> tool.files,
                 map |-> id, pairs |-> Pairs(tool.maps[id]), search |-> NoSearching, doc |-> {}]

BeginPair ==
  /\ tool.stage = "map" /\ tool.search = NoSearching /\ tool.pairs # << >>
  /\ LET pair == Head(tool.pairs)
     IN tool' = [tool EXCEPT !.pairs = Tail(@),
                             !.search = A!SearchBegin(Range(tool.maps[tool.map]), pair[1], pair[2])]

Searching == tool.stage = "map" /\ tool.search # NoSearching

ExpandNode ==
  /\ Searching
  /\ \E c \in A!Least(tool.search) \ {tool.search.end} :
       tool' = [tool EXCEPT !.search = A!Expand(@, c)]

\* Mutant: what is as long as it must be is left out.
LongerThan(path, min) == min >= 0 /\ Len(path) > min

\* A negative length turns into a very large one.
LongEnough(path, min) == min >= 0 /\ Len(path) >= min

EndPair ==
  /\ Searching /\ A!CanEnd(tool.search)
  /\ LET path == A!ConstructResultPath(tool.search)
     IN tool' = [tool EXCEPT !.search = NoSearching, !.doc =
                   IF LongEnough(path, tool.input.min)
                   THEN @ \cup {<<tool.search.begin, tool.search.end>>} ELSE @]

FailPair == Searching /\ A!Failed(tool.search) /\ tool' = [tool EXCEPT !.stage = "failed"]

SaveMap ==
  /\ tool.stage = "map" /\ tool.search = NoSearching /\ tool.pairs = << >>
  /\ tool' = [stage |-> "next", input |-> tool.input, maps |-> tool.maps, files |->
                [k \in DOMAIN tool.files \cup {tool.map} |-> IF k = tool.map THEN tool.doc ELSE tool.files[k]]]

ToolInit == \E input \in ToolInputs : tool = [stage |-> "start", input |-> input]

ToolNext ==
  ToolMain \/ LoadToolMap \/ NextMap \/ BeginMap \/ BeginPair \/ ExpandNode \/ EndPair \/ FailPair \/ SaveMap

-----------------------------------------------------------------------------
(* Properties *)

\* The cells that n steps reach.
Within(walk, c, n) ==
  LET within[i \in 0..n] ==
        IF i = 0 THEN {c} ELSE within[i - 1] \cup UNION {A!GetNeighborNodes(walk, d) : d \in within[i - 1]}
  IN within[n]

Linked(walk, c, d) == d \in Within(walk, c, Cardinality(walk))

Steps(walk, c, d) == CHOOSE n \in 0..Cardinality(walk) :
                       d \in Within(walk, c, n) /\ (n = 0 \/ d \notin Within(walk, c, n - 1))

\* A way the tool finds goes from neighbour to neighbour and is at most 1.42 times as long
\* as the shortest: a diagonal step costs 10 and is estimated as 14, so the first way found
\* need not be the shortest.
WayRight ==
  tool.stage = "map" /\ tool.search # NoSearching =>
    LET s == tool.search
    IN A!CanEnd(s) =>
         LET path == A!ConstructResultPath(s)
         IN /\ path # << >> /\ path[Len(path)] = s.end
            /\ \A i \in DOMAIN path :
                 path[i] \in A!GetNeighborNodes(s.walk, IF i = 1 THEN s.begin ELSE path[i - 1])
            /\ 100 * Len(path) <= 142 * Steps(s.walk, s.begin, s.end)

\* A map that is written has every pair of its cells that is as far apart as is asked for;
\* the tool gives up at the first map with cells that no way links, and writes those before.
PathFilesComplete ==
  tool.stage \in {"next", "map", "failed"} /\ "files" \in DOMAIN tool =>
    /\ \A k \in DOMAIN tool.files :
         LET poses == tool.maps[k]
             walk == Range(poses)
         IN \A i, j \in DOMAIN poses : i < j =>
              /\ Linked(walk, poses[i], poses[j])
              /\ tool.input.min >= 0 /\ Steps(walk, poses[i], poses[j]) >= tool.input.min =>
                   <<poses[i], poses[j]>> \in tool.files[k]
    /\ tool.stage = "failed" =>
         /\ ~Linked(tool.search.walk, tool.search.begin, tool.search.end)
         /\ DOMAIN tool.files = {k \in DOMAIN tool.maps : k < tool.map}

=============================================================================
