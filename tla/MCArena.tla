------------------------------ MODULE MCArena ------------------------------
(* The instance for the arena run.  A behaviour is one of: a battle of two      *)
(* camps, moving by the routes that the path finding gives; a search of the     *)
(* path finding on one of the maps of four by three cells whose walls are among *)
(* six cells in the middle; the start of both servers on a machine; the scenes  *)
(* of some combats; the tool that writes the ways of some maps; the robot.      *)
EXTENDS Battle, PathResult, ScenePool, Robot

VARIABLES part, installed, gateway, server, tool

\* The map of the battle: a row to walk, and one above it where nobody can go.
MCWalkable == (0..5) \X {0}
MCRoutes ==
  LET route(ends) == SearchPath(MCWalkable, ends[1], ends[2])
  IN [ends \in MCWalkable \X MCWalkable |-> route(ends)]
MCSites == << <<1, 0>>, <<3, 0>>, <<5, 0>> >>
MCOwners == <<1, 2, 2>>
MCDestinations == <<{}, {<<4, 0>>}>>

MCCells == (0..3) \X (0..2)
MCMaps == {MCCells \ walls : walls \in SUBSET {<<1, 0>>, <<1, 1>>, <<1, 2>>, <<2, 0>>, <<2, 1>>, <<2, 2>>}}
MCSearches ==
  UNION {{<<walk, ends[1], ends[2]>> : ends \in {p \in walk \X walk : p[1] # p[2]}} : walk \in MCMaps}

-----------------------------------------------------------------------------
(* Start-up: complete tables, tables with one fault, all orders of the files of *)
(* the gateway, and what the combat server may find.  7 is an id and a map.     *)

Start == INSTANCE Startup WITH Installations <- {}, Unset <- {0, 7}

Row(values) == [good |-> TRUE, values |-> values]
BadRow == [good |-> FALSE, values |-> [id |-> 1]]
Kinds == {"battle_build", "map_build", "map", "soldier"}

GoodDocs ==
  [battle_build |-> <<Row([id |-> 1, supply |-> 3]), Row([id |-> 2, supply |-> 4]), Row([id |-> 1, supply |-> 9])>>,
   map_build |-> <<Row([id |-> 1, map |-> 7, camp |-> 1, type |-> 1]), Row([id |-> 2, map |-> 7, camp |-> 2, type |-> 2]),
                   Row([id |-> 3, map |-> 8, camp |-> 1, type |-> 1]), Row([id |-> 3, map |-> 7, camp |-> 1, type |-> 2])>>,
   map |-> <<Row([id |-> 3, map |-> 7, tilemap |-> "a"]), Row([id |-> 7, map |-> 8, tilemap |-> "b"])>>,
   soldier |-> <<Row([id |-> 1]), Row([id |-> 2])>>]

MCDocs ==
  {GoodDocs, [GoodDocs EXCEPT !.map_build = <<Row([id |-> 1, map |-> 7, type |-> 1])>>],
   [GoodDocs EXCEPT !.map_build = <<Row([id |-> 1, map |-> 7, camp |-> 1, type |-> 5])>>],
   [GoodDocs EXCEPT !.map = <<Row([map |-> 7]), Row([id |-> 3, map |-> 8, tilemap |-> "a"])>>]}
    \cup {[GoodDocs EXCEPT ![k] = <<BadRow>>] : k \in Kinds}
    \cup {[j \in Kinds \ {k} |-> GoodDocs[j]] : k \in Kinds}

Unreadable == [parts |-> {}]
GatewayConf(servers, files) == [parts |-> Start!GatewayParts, servers |-> servers, files |-> files]
ServerConf == [parts |-> Start!ServerParts]
OneServer == << {"id", "ip", "port"} >>
GoodFiles == <<"battle_build", "map_build", "map", "soldier">>

MCFiles ==
  {s \in [1..4 -> Kinds] : Range(s) = Kinds}
    \cup {<<"map_build", "map", "soldier">>, <<"map", "fog">>, <<"map", Start!NoFile>>, << >>}

MCGatewayConfs ==
  {GatewayConf(OneServer, files) : files \in MCFiles}
    \cup {Unreadable, [GatewayConf(OneServer, << >>) EXCEPT !.parts = @ \ {"configs"}],
          GatewayConf(<< {"id", "ip"} >>, << >>)}

GoodBlock ==
  [parts |-> Start!BlockParts, encoding |-> "base64", compression |-> "zlib", width |-> 2, height |-> 2,
   cells |-> <<1, 0, 1, 1>>]
MCBlocks ==
  {[a |-> GoodBlock, b |-> block] : block \in
     {[GoodBlock EXCEPT !.cells = <<1, 0>>], [GoodBlock EXCEPT !.cells = <<1, 1, 1, 1, 1>>],
      [GoodBlock EXCEPT !.encoding = "csv"], [GoodBlock EXCEPT !.parts = @ \ {"path layer"}], Unreadable}}

Options == {"c", "p"}
MCInstallations ==
  [gateway : [options : {Options}, conf : MCGatewayConfs, docs : MCDocs],
   server : [options : {Options}, conf : {ServerConf}, docs : {GoodDocs}, blocks : {[a |-> GoodBlock, b |-> GoodBlock]}]]
  \cup
  [gateway : [options : {Options}, conf : {GatewayConf(<< >>, GoodFiles)}, docs : {GoodDocs}],
   server : [options : {Options},
             conf : {ServerConf, Unreadable, [ServerConf EXCEPT !.parts = @ \ {"combat_building"}]},
             docs : {[map |-> rows] : rows \in {GoodDocs.map, <<BadRow>>, <<Row([id |-> 3])>>}} \cup {<< >>},
             blocks : MCBlocks]]
  \cup
  [gateway : [options : {{"c"}, {"c", "p", "unknown"}}, conf : {Unreadable}, docs : {GoodDocs}],
   server : [options : {{"p"}, Options}, conf : {Unreadable}, docs : {<< >>}, blocks : {[a |-> Unreadable]}]]

-----------------------------------------------------------------------------
(* Scenes: two maps and one that is not known; three combats, one of the sites  *)
(* outside of the first map.                                                    *)

MCSceneConfs ==
  <<[width |-> 2, height |-> 1, walkable |-> {<<0, 0>>, <<1, 0>>}],
    [width |-> 2, height |-> 2, walkable |-> {<<1, 1>>}]>>

MCCombatMaps == 1..3
MCCombatSites == {<< <<0, 0>>, <<1, 1>> >>, << <<1, 0>>, <<1, 0>> >>}

-----------------------------------------------------------------------------
(* The tool: maps of three by three cells with up to two walls, and lists of    *)
(* maps some of which have cells without a way.                                 *)

ToolDoc(w, h, cells) ==
  [parts |-> Start!BlockParts, encoding |-> "base64", compression |-> "zlib", width |-> w, height |-> h, cells |-> cells]
ToolRow(id, tilemap) == [id |-> id, good |-> TRUE, tilemap |-> tilemap]
MCToolDocs ==
  {ToolDoc(3, 3, [i \in 1..9 |-> IF i \in walls THEN 0 ELSE 1]) :
     walls \in {w \in SUBSET {2, 4, 5, 6, 8} : Cardinality(w) <= 2}}

MCToolInputs ==
  [options : {{"c", "o"}}, min : {-1, 0, 2, 3}, rows : {<<ToolRow(1, "a")>>}, blocks : {[a |-> d] : d \in MCToolDocs}]
  \cup
  [options : {{"c", "o"}, {"c"}, {"c", "o", "unknown"}}, min : {2},
   rows : {<<ToolRow(2, "b"), ToolRow(1, "a"), ToolRow(2, "a")>>, <<ToolRow(1, "a"), ToolRow(2, "c")>>},
   blocks : {[a |-> ToolDoc(2, 1, <<1, 1>>), b |-> ToolDoc(3, 1, <<1, 0, 1>>), c |-> ToolDoc(1, 1, <<1, 1>>)],
             [a |-> ToolDoc(2, 2, <<1, 1, 1, 1>>), b |-> ToolDoc(2, 2, <<1, 0, 1, 1>>), c |-> ToolDoc(2, 2, <<1, 0, 0, 1>>)]}]

Tool == INSTANCE PathTool WITH ToolInputs <- MCToolInputs

-----------------------------------------------------------------------------
(* The robot: two connections, three lines.                                     *)

Line(word, length) == [word |-> word, length |-> length]
Run(actor, operation, length) == [word |-> "run", length |-> length, actor |-> actor, operation |-> operation]

MCCommands ==
  {Line("actor_login", 3), Line("actor_login", 1), Line("run", 2), Line("quit", 1), Line("unfinished", 1), Line("end of input", 0), Line("daemon", 1),
   Line("", 0), Run(1, "login", 4), Run(1, "move", 4), Run(2, "build", 5), Run(2, "dance", 3)}

-----------------------------------------------------------------------------
startVars == <<installed, gateway, server>>
arenaVars == <<part, battle, search, startVars, sceneVars, tool, robot>>

ArenaInit ==
  /\ part \in {"battle", "search", "start", "scenes", "tool", "robot"}
  /\ BattleInit /\ SceneInit
  /\ IF part = "search" THEN SearchInit ELSE search = NoSearch
  /\ gateway = Start!Idle /\ server = Start!Idle
  /\ installed \in IF part = "start" THEN MCInstallations ELSE {Start!NoFile}
  /\ IF part = "tool" THEN Tool!ToolInit ELSE tool = Tool!NoTool
  /\ IF part = "robot" THEN RobotInit ELSE robot = NoRobot

ArenaNext ==
  \/ part = "battle" /\ BattleNext /\ UNCHANGED <<part, search, startVars, sceneVars, tool, robot>>
  \/ part = "search" /\ SearchNext /\ UNCHANGED <<part, battle, startVars, sceneVars, tool, robot>>
  \/ part = "start" /\ Start!StartNext /\ UNCHANGED <<part, battle, search, sceneVars, tool, robot>>
  \/ part = "scenes" /\ SceneNext /\ UNCHANGED <<part, battle, search, startVars, tool, robot>>
  \/ part = "tool" /\ Tool!ToolNext /\ UNCHANGED <<part, battle, search, startVars, sceneVars, robot>>
  \/ part = "robot" /\ RobotNext /\ UNCHANGED <<part, battle, search, startVars, sceneVars, tool>>

ArenaSpec == ArenaInit /\ [][ArenaNext]_arenaVars

-----------------------------------------------------------------------------
\* The path finding of a scene gives the cheapest way, and its heap is one (scene.cc,
\* SearchPath, InsertOpenList, DeleteMinFScoreNodeInOpenList, ResortOpenList).
PathsFound == search # NoSearch => OpenListKept /\ CheapestPath

\* What a server that runs has made of its files (map_config.cc, scene_manager.cc) and the
\* order in which its handlers are called (event_dispatcher.cc).
StartedRight == Start!StartedRight

\* What the tool writes (generate_path_config.cc, GeneratePathConfig and SearchPath).
PathFilesRight == Tool!WayRight /\ Tool!PathFilesComplete

=============================================================================
