------------------------------- MODULE Startup -------------------------------
(* How the gateway and the combat server start: main, the configuration with    *)
(* the files it lists, and the handlers of the combat server, which attach      *)
(* themselves to its dispatchers one after the other.  A server that does not   *)
(* find what it needs ends.                                                     *)
(*                                                                             *)
(* A configuration is its `parts' (elements and attributes); one that is not    *)
(* there, not XML or without its root has none.  Of the tables, `docs' has the  *)
(* rows of those that can be read.  A row is `good' when all its fields have a  *)
(* name and a text; `values' are the fields the model knows.                    *)
EXTENDS Integers, Sequences, FiniteSets, SequencesExt

CONSTANTS
  Installations,    \* the machines: command lines and files
  Unset             \* what a number of a row without the field may be

VARIABLES
  installed,        \* the installation
  gateway,          \* the gateway, as far as it has come
  server            \* the combat server

startVars == <<installed, gateway, server>>

NoFile == "no file"
Idle == [stage |-> "idle"]
Exited == [stage |-> "exited"]

\* unordered_map::insert: the first one with an id stays.
Insert(f, id, v) == IF id \in DOMAIN f THEN f ELSE [i \in DOMAIN f \cup {id} |-> IF i = id THEN v ELSE f[i]]

\* CommandLineOption::Parse of the gateway's main.
Parse(options) == "unknown" \notin options /\ {"c", "p"} \subseteq options

-----------------------------------------------------------------------------
(* The gateway *)

GatewayParts == {"config", "listen", "listen id", "listen ip", "listen port", "combat_servers", "configs"}

\* Config::Load, up to the files it lists.
ConfigLoads(conf) ==
  /\ GatewayParts \subseteq conf.parts
  /\ \A i \in DOMAIN conf.servers : {"id", "ip", "port"} \subseteq conf.servers[i]
  /\ NoFile \notin Range(conf.files)

GatewayMain ==
  /\ gateway.stage = "idle"
  /\ LET conf == installed.gateway.conf
     IN gateway' = IF Parse(installed.gateway.options) /\ ConfigLoads(conf)
                   THEN [stage |-> "loading", files |-> conf.files, kind |-> NoFile, rows |-> << >>,
                         types |-> << >>, buildings |-> << >>, maps |-> << >>, warriors |-> {}]
                   ELSE Exited
  /\ UNCHANGED <<installed, server>>

Loads(kind) == gateway.stage = "loading" /\ gateway.rows # << >> /\ gateway.kind = kind

\* What becomes of a row: what it does not set is as it was on the stack.
Confs(row, names) ==
  {f \in [names -> Unset \cup {row.values[n] : n \in names \cap DOMAIN row.values}] :
     \A n \in names : IF n \in DOMAIN row.values THEN f[n] = row.values[n] ELSE f[n] \in Unset}

\* Config::OnLoadConfig: the name of the file says what is in it.
OnLoadConfig ==
  /\ gateway.stage = "loading" /\ gateway.rows = << >> /\ gateway.files # << >>
  /\ LET file == Head(gateway.files)
     IN gateway' = IF /\ file \in {"battle_build", "map_build", "map", "soldier"}
                      /\ file \in DOMAIN installed.gateway.docs
                   THEN [gateway EXCEPT !.files = Tail(@), !.kind = file,
                                        !.rows = installed.gateway.docs[file]]
                   ELSE Exited
  /\ UNCHANGED <<installed, server>>

\* MapConfig::LoadBattleBuilding, a row.
LoadBattleBuilding ==
  /\ Loads("battle_build")
  /\ LET row == Head(gateway.rows)
     IN IF ~row.good THEN gateway' = Exited
        ELSE \E conf \in Confs(row, {"id", "supply"}) :
               gateway' = [gateway EXCEPT !.rows = Tail(@), !.types = Insert(@, conf.id, conf.supply)]
  /\ UNCHANGED <<installed, server>>

\* MapConfig::LoadBuilding, a row: the type of the building must be known by now.
LoadBuilding ==
  /\ Loads("map_build")
  /\ LET row == Head(gateway.rows)
     IN IF ~row.good THEN gateway' = Exited
        ELSE \E conf \in Confs(row, {"id", "map", "camp", "type"}) :
               gateway' =
                 IF conf.type \notin DOMAIN gateway.types THEN Exited
                 ELSE [gateway EXCEPT !.rows = Tail(@), !.buildings = Insert(@, conf.id,
                        [map |-> conf.map, camp |-> conf.camp, type |-> conf.type,
                         supply |-> gateway.types[conf.type]])]
  /\ UNCHANGED <<installed, server>>

\* The buildings of a map, by camp.
BuildingsOf(map, camp) ==
  {b \in DOMAIN gateway.buildings : gateway.buildings[b].map = map /\ gateway.buildings[b].camp = camp}

CampsOf(map) ==
  {gateway.buildings[b].camp : b \in {c \in DOMAIN gateway.buildings : gateway.buildings[c].map = map}}

\* Mutant: the buildings are looked up by the id of the map.
LoadMapById ==
  /\ Loads("map")
  /\ LET row == Head(gateway.rows)
     IN IF ~row.good THEN gateway' = Exited
        ELSE \E conf \in Confs(row, {"id", "map"}) :
               gateway' = [gateway EXCEPT !.rows = Tail(@), !.maps = Insert(@, conf.id,
                 [map |-> conf.map, camps |-> [c \in CampsOf(conf.id) |-> BuildingsOf(conf.id, c)]])]
  /\ UNCHANGED <<installed, server>>

\* MapConfig::LoadMap, a row: it takes the buildings there are by now.
LoadMap ==
  /\ Loads("map")
  /\ LET row == Head(gateway.rows)
     IN IF ~row.good THEN gateway' = Exited
        ELSE \E conf \in Confs(row, {"id", "map"}) :
               gateway' = [gateway EXCEPT !.rows = Tail(@), !.maps = Insert(@, conf.id,
                 [map |-> conf.map, camps |-> [c \in CampsOf(conf.map) |-> BuildingsOf(conf.map, c)]])]
  /\ UNCHANGED <<installed, server>>

\* WarriorConfig::Load, a row.
LoadWarrior ==
  /\ Loads("soldier")
  /\ LET row == Head(gateway.rows)
     IN IF ~row.good THEN gateway' = Exited
        ELSE \E conf \in Confs(row, {"id"}) :
               gateway' = [gateway EXCEPT !.rows = Tail(@), !.warriors = @ \cup {conf.id}]
  /\ UNCHANGED <<installed, server>>

\* AppServer::Listen; the address may be taken.
GatewayListens ==
  /\ gateway.stage = "loading" /\ gateway.rows = << >> /\ gateway.files = << >>
  /\ gateway' \in {[gateway EXCEPT !.stage = "running"], Exited}
  /\ UNCHANGED <<installed, server>>

-----------------------------------------------------------------------------
(* The combat server *)

Events == {"begin", "build", "move", "death", "lock", "convert", "switch", "attacked", "settle",
           "recover", "step"}

ServerParts ==
  {"config", "listen", "listen id", "listen ip", "listen port", "pool", "conf_path", "conf_path value",
   "combat", "combat initial_size", "combat extend_size",
   "combat_building", "combat_building initial_size", "combat_building extend_size",
   "combat_role", "combat_role initial_size", "combat_role extend_size",
   "combat_warrior", "combat_warrior initial_size", "combat_warrior extend_size"}

\* Configs::Load.
ConfigsLoad(conf) == ServerParts \subseteq conf.parts

\* EventDispatcher::Attach, for some events: the handler is called last.
Attach(handlers, who, events) ==
  [e \in Events |-> IF e \in events THEN Append(handlers[e], who) ELSE handlers[e]]

\* CombatEventHandler::SetHandlers of the server.
SetHandlers(handlers) == Attach(handlers, "server", {"build", "move", "death", "lock", "convert", "switch"})

\* CombatEventHandler::Initialize and SceneEventHandler::Initialize of the AI.
AiHandlers(handlers) ==
  Attach(handlers, "ai", {"begin", "build", "death", "convert", "attacked", "settle", "recover"})
AiSceneHandlers(handlers) == Attach(handlers, "ai", {"step"})

\* CombatEventHandler::Initialize of the scene.
SceneHandlers(handlers) == Attach(handlers, "scene", {"begin", "death", "lock", "settle"})

\* AiApp::Initialize.
AiInitialize(handlers) == AiSceneHandlers(AiHandlers(handlers))

\* CommandLineOption::Parse of the combat server's main.
ServerParse(options) == "unknown" \notin options /\ {"c", "p"} \subseteq options

ServerMain ==
  /\ server.stage = "idle"
  /\ server' = IF ServerParse(installed.server.options) /\ ConfigsLoad(installed.server.conf)
               THEN [stage |-> "constructing", handlers |-> [e \in Events |-> << >>]]
               ELSE Exited
  /\ UNCHANGED <<installed, gateway>>

\* The constructor of the AppServer and Apps::Initialize, up to the maps of the scene:
\* without map.xml the constructor throws, and nobody catches.
ServerConstructs ==
  /\ server.stage = "constructing"
  /\ server' = IF "map" \notin DOMAIN installed.server.docs THEN Exited
               ELSE [stage |-> "maps", rows |-> installed.server.docs["map"], confs |-> << >>,
                     handlers |-> AiInitialize(SetHandlers(server.handlers))]
  /\ UNCHANGED <<installed, gateway>>

BlockParts ==
  {"map", "layer name", "path layer", "width", "height", "data", "encoding", "compression"}

\* SceneManager::LoadBlockFile: the cells, when all is there and they have room.
LoadsBlockFile(doc) ==
  /\ BlockParts \subseteq doc.parts
  /\ doc.encoding = "base64" /\ doc.compression = "zlib"
  /\ Len(doc.cells) <= doc.width * doc.height

BlocksOf(doc) ==
  [width |-> doc.width, height |-> doc.height,
   blocks |-> [i \in DOMAIN doc.cells |-> IF doc.cells[i] > 0 THEN 0 ELSE 1]]

\* SceneManager::LoadConfig, a row.
LoadSceneMap ==
  /\ server.stage = "maps" /\ server.rows # << >>
  /\ LET row == Head(server.rows)
         id == IF "id" \in DOMAIN row.values THEN row.values.id ELSE 0
         doc == IF "tilemap" \in DOMAIN row.values THEN installed.server.blocks[row.values.tilemap]
                ELSE [parts |-> {}]
     IN server' = IF row.good /\ LoadsBlockFile(doc)
                  THEN [server EXCEPT !.rows = Tail(@), !.confs = Insert(@, id, BlocksOf(doc))]
                  ELSE Exited
  /\ UNCHANGED <<installed, gateway>>

\* The rest of SceneApp::Initialize, and AppServer::Listen.
ServerListens ==
  /\ server.stage = "maps" /\ server.rows = << >>
  /\ server' \in {[server EXCEPT !.stage = "running", !.handlers = SceneHandlers(@)], Exited}
  /\ UNCHANGED <<installed, gateway>>

-----------------------------------------------------------------------------
StartInit == installed \in Installations /\ gateway = Idle /\ server = Idle

StartNext ==
  \/ GatewayMain \/ OnLoadConfig \/ LoadBattleBuilding \/ LoadBuilding \/ LoadMap \/ LoadWarrior
  \/ GatewayListens
  \/ ServerMain \/ ServerConstructs \/ LoadSceneMap \/ ServerListens

-----------------------------------------------------------------------------
(* Properties *)

Listed(kind) == {i \in DOMAIN installed.gateway.conf.files : installed.gateway.conf.files[i] = kind}

\* A gateway that runs has every building of its files, with the supply of its type, and
\* every map has all its buildings, each in its camp, when the files of the buildings are
\* listed before those of the maps.
BuildingsOnMaps ==
  gateway.stage = "running" =>
    /\ Listed("map_build") # {} =>
         \A i \in DOMAIN installed.gateway.docs["map_build"] :
           LET values == installed.gateway.docs["map_build"][i].values
           IN "id" \in DOMAIN values => values.id \in DOMAIN gateway.buildings
    /\ \A b \in DOMAIN gateway.buildings :
         LET building == gateway.buildings[b]
         IN building.supply = gateway.types[building.type]
    /\ (\A i \in Listed("map"), j \in Listed("map_build") : j < i) =>
         \A m \in DOMAIN gateway.maps :
           LET map == gateway.maps[m]
           IN \A b \in DOMAIN gateway.buildings :
                \A c \in {gateway.buildings[b].camp} \cup DOMAIN map.camps :
                  (c \in DOMAIN map.camps /\ b \in map.camps[c]) =
                    (gateway.buildings[b].map = map.map /\ gateway.buildings[b].camp = c)

\* An event of a combat goes through the field, then the AI, then the scene: an auto is
\* told of a death while the scene has the warrior.  (Battle is written in this order.)
HandlersInOrder ==
  server.stage = "running" =>
    /\ \A e \in Events : \A i, j \in DOMAIN server.handlers[e] :
         i < j => <<server.handlers[e][i], server.handlers[e][j]>> \in
                    {<<"server", "ai">>, <<"server", "scene">>, <<"ai", "scene">>}
    /\ server.handlers["death"] = <<"server", "ai", "scene">>

\* When both have read the same map.xml, the combat server knows every map the gateway asks
\* for, with no more cells than its width and height say (a file with fewer is taken, too);
\* rows without an id get what was on the stack, or 0.
MapsAgree ==
  /\ gateway.stage = "running" /\ server.stage = "running"
  /\ Listed("map") # {} /\ installed.gateway.docs["map"] = installed.server.docs["map"]
  /\ \A i \in DOMAIN installed.server.docs["map"] : "id" \in DOMAIN installed.server.docs["map"][i].values
  => \A m \in DOMAIN gateway.maps :
       m \in DOMAIN server.confs /\ Len(server.confs[m].blocks) <= server.confs[m].width * server.confs[m].height

StartedRight == BuildingsOnMaps /\ HandlersInOrder /\ MapsAgree

=============================================================================
