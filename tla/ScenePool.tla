------------------------------ MODULE ScenePool ------------------------------
(* The scenes of the combat server (combat/server/scene): what                 *)
(* OnEventCombatBegin and OnEventCombatSettle do with SceneManager and its      *)
(* pool.  A scene that comes from the pool is not a new one: Scene::Allocate    *)
(* appends to its nodes, and gives up when the map is not known, which nobody   *)
(* asks about.                                                                 *)
EXTENDS Integers, Sequences, FiniteSets, Functions

CONSTANTS
  SceneConfs,       \* the maps that are known: id -> width, height, walkable cells
  CombatMaps,       \* the maps a combat may be on
  CombatSites,      \* where its buildings may be: sequences of cells
  MaxCombats        \* bound: the combats of a behaviour

NoMap == 0

ASSUME SceneAssumption ==
  /\ NoMap \notin DOMAIN SceneConfs
  /\ \A map \in DOMAIN SceneConfs : {SceneConfs[map].width, SceneConfs[map].height} \subseteq Nat
  /\ \A sites \in CombatSites : sites \in Seq(Int \X Int)

VARIABLES
  scenes,           \* id of the combat -> its scene
  pool,             \* the scenes that wait
  fields            \* id of the combat -> its map and buildings, as long as it lasts

sceneVars == <<scenes, pool, fields>>

\* Scene::Scene.  `first' is the map it was first allocated for (only properties look at
\* it), a cell of `grids' holds the buildings on it.
NewScene ==
  [map |-> NoMap, first |-> NoMap, width |-> 0, height |-> 0, walkable |-> {}, grids |-> << >>,
   nodes |-> << >>, buildings |-> {}, timer |-> FALSE]

CellsOf(conf) == [i \in 1..conf.width * conf.height |-> <<(i - 1) % conf.width, (i - 1) \div conf.width>>]

\* The nodes of a map that the path finding uses: cells, and whether one may walk there.
NodesOf(conf) ==
  [i \in DOMAIN CellsOf(conf) |-> <<CellsOf(conf)[i], CellsOf(conf)[i] \in conf.walkable>>]

\* Mutant: the grids of the same map are used again.
AllocateSceneKeepsGrids(scene, map) ==
  IF map \notin DOMAIN SceneConfs THEN scene
  ELSE LET conf == SceneConfs[map]
       IN [scene EXCEPT
             !.map = map, !.first = IF @ = NoMap THEN map ELSE @,
             !.width = conf.width, !.height = conf.height, !.walkable = conf.walkable,
             !.grids = IF scene.map = map THEN @ ELSE [c \in Range(CellsOf(conf)) |-> {}],
             !.nodes = @ \o NodesOf(conf)]

\* Scene::Allocate.
AllocateScene(scene, map) ==
  IF map \notin DOMAIN SceneConfs THEN scene
  ELSE LET conf == SceneConfs[map]
       IN [scene EXCEPT
             !.map = map, !.first = IF @ = NoMap THEN map ELSE @,
             !.width = conf.width, !.height = conf.height, !.walkable = conf.walkable,
             !.grids = [c \in Range(CellsOf(conf)) |-> {}],
             !.nodes = @ \o NodesOf(conf)]

\* SceneManager::Allocate, its result and the pool after it.
Allocate(map) ==
  IF pool = << >> THEN [scene |-> AllocateScene(NewScene, map), pool |-> pool]
  ELSE [scene |-> AllocateScene(Head(pool), map), pool |-> Tail(pool)]

\* SceneManager::Deallocate.
Deallocate(waiting, scene) == Append(waiting, scene)

\* Scene::Initialize: the timer of the status image runs.
InitializeScene(scene) == [scene EXCEPT !.timer = TRUE]

\* Scene::Finalize: the grids are not told that the buildings are gone.
FinalizeScene(scene) == [scene EXCEPT !.timer = FALSE, !.buildings = {}]

\* Scene::AddBuilding finds a cell for it.
OnMap(scene, cell) ==
  scene.grids # << >> /\ cell[1] \in 0..scene.width - 1 /\ cell[2] \in 0..scene.height - 1

AddBuilding(scene, b, cell) ==
  [scene EXCEPT !.buildings = @ \cup {b}, !.grids[cell] = @ \cup {b}]

\* Grid::AddBuilding, a set of addresses, may refuse a building: a scene whose map is not
\* known has the grids it had before, where a cell may hold the address of a building of an
\* earlier combat that is deleted since and whose memory the new one got.
MayRefuse(scene, sites) == {n \in DOMAIN sites : OnMap(scene, sites[n]) /\ scene.grids[sites[n]] # {}}

\* The buildings are added in the order of their ids, until one has no place or is refused.
Adding(scene, sites, refused) ==
  LET added[n \in 0..Len(sites)] ==
        IF n = 0 THEN [placed |-> 0, scene |-> scene]
        ELSE IF added[n - 1].placed = n - 1 /\ OnMap(added[n - 1].scene, sites[n]) /\ n # refused
        THEN [placed |-> n, scene |-> AddBuilding(added[n - 1].scene, n, sites[n])]
        ELSE added[n - 1]
  IN added

AddBuildings(scene, sites, refused) == Adding(scene, sites, refused)[Len(sites)]

\* CombatEventHandler::OnEventCombatBegin: a combat whose scene fails goes on without.
OnEventCombatBegin(map, sites) ==
  LET id == Cardinality(DOMAIN fields) + 1
      taken == Allocate(map)
      scene == InitializeScene(taken.scene)
  IN /\ id <= MaxCombats
     /\ fields' = [k \in 1..id |-> IF k = id THEN [map |-> map, sites |-> sites, lasts |-> TRUE] ELSE fields[k]]
     /\ \E refused \in {0} \cup MayRefuse(scene, sites) :
          LET added == AddBuildings(scene, sites, refused)
          IN IF added.placed = Len(sites)
             THEN /\ scenes' = [k \in DOMAIN scenes \cup {id} |-> IF k = id THEN added.scene ELSE scenes[k]]
                  /\ pool' = taken.pool
             ELSE /\ pool' = Deallocate(taken.pool, FinalizeScene(added.scene))
                  /\ UNCHANGED scenes

\* CombatEventHandler::OnEventCombatSettle.
OnEventCombatSettle(id) ==
  /\ fields[id].lasts
  /\ fields' = [fields EXCEPT ![id].lasts = FALSE]
  /\ IF id \in DOMAIN scenes
     THEN /\ pool' = Deallocate(pool, FinalizeScene(scenes[id]))
          /\ scenes' = [k \in DOMAIN scenes \ {id} |-> scenes[k]]
     ELSE UNCHANGED <<scenes, pool>>

SceneInit == scenes = << >> /\ pool = << >> /\ fields = << >>

SceneNext ==
  \/ \E map \in CombatMaps, sites \in CombatSites : OnEventCombatBegin(map, sites)
  \/ \E id \in DOMAIN fields : OnEventCombatSettle(id)

SceneSpec == SceneInit /\ [][SceneNext]_sceneVars

-----------------------------------------------------------------------------
(* Properties *)

\* Scene::GetNode and the walkability SearchPath finds there.
NodeAt(scene, c) == scene.nodes[c[2] * scene.width + c[1] + 1]

\* A combat on a known map has a scene of that map, with the grids of the map and on them
\* its own buildings; the path finding sees the map as well when the scene had no other
\* map first.  What waits in the pool has no building and no timer, what is in use has one.
ScenesReady ==
  /\ \A id \in DOMAIN scenes :
       LET scene == scenes[id]
           conf == SceneConfs[scene.map]
       IN /\ fields[id].lasts /\ scene.timer /\ scene.buildings = DOMAIN fields[id].sites
          /\ fields[id].map \in DOMAIN SceneConfs =>
               /\ scene.map = fields[id].map /\ scene.walkable = conf.walkable
               /\ \A c \in DOMAIN scene.grids :
                    scene.grids[c] = {b \in scene.buildings : fields[id].sites[b] = c}
          /\ scene.map # NoMap /\ scene.first = scene.map =>
               \A i \in DOMAIN CellsOf(conf) :
                 LET c == CellsOf(conf)[i] IN NodeAt(scene, c) = <<c, c \in conf.walkable>>
  /\ \A i \in DOMAIN pool : pool[i].buildings = {} /\ ~pool[i].timer

=============================================================================
