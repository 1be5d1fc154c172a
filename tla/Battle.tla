------------------------------- MODULE Battle -------------------------------
(* A battle inside the combat server: a combat field with its scene, AI and     *)
(* formulas.  Everything runs on one thread: an action is a player's action or  *)
(* a timer, with all the events, votes and requires it sends.                   *)
(*                                                                             *)
(* The state of a battle is a record, and every handler a function from the     *)
(* record to the record after it.  Warriors and buildings share their ids.      *)
(* Maps are small; time, the attributes of warriors but for those of the        *)
(* constants, and the messages to the players are left out.                     *)
EXTENDS Integers, Sequences, FiniteSets, SequencesExt

CONSTANTS
  Width, Height,        \* the size of the map
  Walkable,             \* its walkable cells
  Routes,               \* what Scene::SearchPath gives for two cells
  Roles,                \* numbers of the roles, one per camp
  Sites,                \* where the buildings are, in the order of their ids
  Owners,               \* whose they are at first
  Destinations,         \* bound: where the roles send their warriors
  MaxId,                \* bound: the last id given to a warrior
  MaxHp, Damage,        \* hit points of all, and what a hit takes
  Recovery,             \* hit points a building recovers at a time
  AttackRange, SearchRange,
  FoodMax, FoodNeed, FoodAdd, SupplyNeed, SupplyAdd

ASSUME BattleAssumption ==
  /\ {Width, Height, MaxHp, Damage, SupplyNeed} \subseteq Nat \ {0}
  /\ {Recovery, AttackRange, SearchRange, FoodMax, FoodNeed, FoodAdd, SupplyAdd} \subseteq Nat
  /\ Roles \subseteq Nat \ {0} /\ Sites \in Seq(Walkable) /\ Owners \in [DOMAIN Sites -> Roles]
  /\ Walkable \subseteq (0..Width - 1) \X (0..Height - 1) /\ Destinations \in [Roles -> SUBSET Walkable]
  /\ MaxId \in Nat /\ MaxId >= Len(Sites)

\* A way ends where it is to lead (CheapestPath of ScenePath), and is empty if there is none.
ASSUME RoutesAssumption ==
  /\ Routes \in [Walkable \X Walkable -> Seq(Walkable)]
  /\ \A ends \in Walkable \X Walkable :
       Routes[ends] # << >> => Routes[ends][Len(Routes[ends])] = ends[2]

\* The gateway begins battles of two camps with a role each, 1 and 2; the map gives each
\* of them buildings.
ASSUME CampsAssumption ==
  /\ \E r, q \in Roles : r # q /\ Roles = {r, q}
  /\ \A r \in Roles : \E b \in DOMAIN Sites : Owners[b] = r

VARIABLE battle         \* a battle, or what is left when it is settled

None == 0               \* no target: ids begin at 1
Begun == "warriors" \in DOMAIN battle

Buildings == DOMAIN Sites
SiteCells == {Sites[b] : b \in Buildings}

\* math::distance: the straight distance, rounded.
Distance(p, q) ==
  LET square == (p[1] - q[1]) * (p[1] - q[1]) + (p[2] - q[2]) * (p[2] - q[2])
  IN CHOOSE k \in 0..square : /\ k = 0 \/ (2 * k - 1) * (2 * k - 1) <= 4 * square
                              /\ (2 * k + 1) * (2 * k + 1) > 4 * square

\* A record without some of its names, as for the maps by id.
Without(f, id) == [i \in DOMAIN f \ {id} |-> f[i]]
With(f, id, v) == [i \in DOMAIN f \cup {id} |-> IF i = id THEN v ELSE f[i]]

-----------------------------------------------------------------------------
(* EventObserver: which autos are told of the events of an entity.  What is     *)
(* removed while an event is dispatched is removed after it, also when it has   *)
(* been added again.                                                            *)

Observe(s, id, a) == [s EXCEPT !.observers = @ \cup {<<id, a>>}]

Unobserve(s, id, a) ==
  IF s.dispatching THEN [s EXCEPT !.pending = @ \cup {<<id, a>>}]
  ELSE [s EXCEPT !.observers = @ \ {<<id, a>>}]

-----------------------------------------------------------------------------
(* The scene *)

PosOf(s, id) == IF id \in Buildings THEN Sites[id] ELSE s.warriors[id].pos
CampOf(s, id) == IF id \in Buildings THEN s.buildings[id].camp ELSE s.warriors[id].role
Exists(s, id) == id \in Buildings \/ id \in DOMAIN s.warriors

GetWalkable(c) == c \in Walkable \ SiteCells

\* GetNearlyWalkablePos: row by row around a cell; the last column is never tried.
NearlyWalkable(c) ==
  LET Low(n) == IF n > 0 THEN n - 1 ELSE 0
      High(n, limit) == IF n + 1 < limit THEN n + 1 ELSE limit - 1
      near == {d \in (Low(c[1])..High(c[1], Width) - 1) \X (Low(c[2])..High(c[2], Height)) :
                 GetWalkable(d)}
  IN {d \in near : \A e \in near : d[2] < e[2] \/ (d[2] = e[2] /\ d[1] <= e[1])}

\* GetNeighbors goes through growing squares around a cell, each row by row; with the
\* square the last column and row move away from the edge of the map.  When it comes
\* to a cell `d' around `c', as numbers that grow.
Turns(c, d) ==
  {i * Width * Height + d[2] * Width + d[1] : i \in
     {n \in 0..SearchRange : /\ d[1] \in (c[1] - n)..(c[1] + n) /\ d[1] <= Width - n
                             /\ d[2] \in (c[2] - n)..(c[2] + n) /\ d[2] <= Height - n}}

\* Of the entities in S those on the first cell it comes to.
FirstNeighbors(s, c, S) ==
  LET turns == [id \in S |-> Turns(c, PosOf(s, id))]
      all == UNION {turns[id] : id \in S}
  IN {id \in S : \E n \in turns[id] : \A m \in all : n <= m}

\* What the actions broadcast to the players have told them: where a warrior goes (or
\* stands) and whom it attacked last; whose a building is and its status.
TellBuild(s, w, c) == [s EXCEPT !.told = With(@, w, [to |-> c, target |-> None])]
DispatchMoveActionEvent(s, w, c) == [s EXCEPT !.told[w].to = c]
TellTarget(s, w) == [s EXCEPT !.told[w].target = s.autos[w].target]
TellDeath(s, w) == [s EXCEPT !.told = Without(@, w)]
TellCamp(s, b) == [s EXCEPT !.toldBuildings[b].camp = s.buildings[b].camp]
TellStatus(s, b) == [s EXCEPT !.toldBuildings[b].status = s.buildings[b].status]

\* MoveAction: `moves' is what is left of the path of a warrior that moves.  One that
\* does not arrive tells that it stands where it is.
FinishMove(s, w) == DispatchMoveActionEvent([s EXCEPT !.moves[w] = << >>], w, s.warriors[w].pos)

\* OnEventCombatLockTarget of the scene: a warrior that attacks stands still.
LockTarget(s, w) == IF w \in DOMAIN s.moves THEN FinishMove(s, w) ELSE s

StartMove(s, w, dest) ==
  LET pos == s.warriors[w].pos
      stopped == IF s.moves[w] # << >> THEN FinishMove(s, w) ELSE s
      moving == [stopped EXCEPT !.moves[w] = Routes[pos, dest]]
  IN IF pos = dest \/ ~GetWalkable(dest) THEN s
     ELSE IF moving.moves[w] = << >> THEN moving
     ELSE DispatchMoveActionEvent(moving, w, dest)

\* The votes of the AI.
OnVoteSceneMove(s, w) == w \in DOMAIN s.autos /\ s.autos[w].status # "attack"
OnVoteCombatBuild(s, b) == s.buildings[b].status = "host"

OnRequireSceneMove(s, w, dest) ==
  IF OnVoteSceneMove(s, w) /\ w \in DOMAIN s.moves THEN StartMove(s, w, dest) ELSE s

AddWarrior(s, w) == [s EXCEPT !.moves = With(@, w, << >>), !.grid[s.warriors[w].pos] = @ \cup {w}]

\* OnRequireSceneBuild of warrior w on cell c.
OnRequireSceneBuild(s, w, c) == AddWarrior([s EXCEPT !.warriors[w].pos = c], w)

-----------------------------------------------------------------------------
(* Autos: the AI of a warrior *)

SetTarget(s, a, id) == Observe([s EXCEPT !.autos[a].target = id], id, a)

ResetTarget(s, a) ==
  LET target == s.autos[a].target
  IN IF target = None THEN s ELSE [Unobserve(s, target, a) EXCEPT !.autos[a].target = None]

GetTargetDistance(s, a) ==
  LET target == s.autos[a].target
  IN IF target = None \/ ~Exists(s, target) THEN -1
     ELSE Distance(PosOf(s, target), s.warriors[a].pos)

\* CheckTargetAttackReachable.
Reachable(s, a) == GetTargetDistance(s, a) \in 0..AttackRange

CountTargeted(s, a, n) ==
  LET target == s.autos[a].target
  IN IF target \in Buildings THEN [s EXCEPT !.buildings[target].targeted = @ + n] ELSE s

SetTimer(s, a, timer) == [s EXCEPT !.autos[a].timers = @ \cup {timer}]
ResetTimer(s, a, timer) == [s EXCEPT !.autos[a].timers = @ \ {timer}]

SetAttackTimer(s, a) == SetTimer(s, a, "attack")
ResetAttackTimer(s, a) == ResetTimer(s, a, "attack")
SetRefindPathTimer(s, a) == SetTimer(s, a, "refind")

\* Stop of the three states, with StopPresentStatus.
StopAttack(s, a) == ResetTarget(ResetAttackTimer(CountTargeted(s, a, -1), a), a)
StopChase(s, a) == ResetTimer(s, a, "refind")
StopSearch(s, a) == ResetTimer(s, a, "search")

StopPresentStatus(s, a) ==
  Unobserve(CASE s.autos[a].status = "attack" -> StopAttack(s, a)
              [] s.autos[a].status = "chase" -> StopChase(s, a)
              [] s.autos[a].status = "search" -> StopSearch(s, a), a, a)

StartSearch(s, a) == SetTimer(s, a, "search")
StartAttack(s, a) == CountTargeted(LockTarget(TellTarget(SetAttackTimer(s, a), a), a), a, 1)

StartPresentStatus(s, a) == Observe(s, a, a)

GotoStatus(s, a, status) ==
  StartPresentStatus([StopPresentStatus(s, a) EXCEPT !.autos[a].status = status], a)

GotoSearch(s, a) == StartSearch(GotoStatus(s, a, "search"), a)
GotoAttack(s, a) == StartAttack(GotoStatus(s, a, "attack"), a)

\* Auto::MoveTarget, without a target it fails.  A building is not walkable: nobody
\* moves there.
Approach(s, a) ==
  IF Reachable(s, a) THEN GotoAttack(s, a)
  ELSE IF s.autos[a].target = None \/ ~Exists(s, s.autos[a].target) THEN GotoSearch(s, a)
  ELSE OnRequireSceneMove(s, a, PosOf(s, s.autos[a].target))

GotoChase(s, a) == Approach(GotoStatus(s, a, "chase"), a)

\* What an auto does when it is told of a step of warrior w.
MoveStepInAttack(s, a, w) ==
  IF s.autos[a].target = w /\ GetTargetDistance(s, a) > AttackRange THEN GotoChase(s, a) ELSE s

MoveStepInChase(s, a, w) ==
  IF w \notin {a, s.autos[a].target} THEN s
  ELSE IF Reachable(s, a) THEN GotoAttack(s, a)
  ELSE IF w = s.autos[a].target THEN SetRefindPathTimer(s, a)
  ELSE s

OnEventSceneMoveStep(s, a, w) ==
  CASE s.autos[a].status = "attack" -> MoveStepInAttack(s, a, w)
    [] s.autos[a].status = "chase" -> MoveStepInChase(s, a, w)
    [] OTHER -> s

\* Mutant: only a warrior that attacks takes notice.
OnEventTargetLostInAttack(s, a, id) ==
  IF s.autos[a].status = "attack" /\ s.autos[a].target = id THEN GotoSearch(s, a) ELSE s

LostInAttack(s, a, id) == IF s.autos[a].target = id THEN GotoSearch(s, a) ELSE s
LostInChase(s, a, id) == IF s.autos[a].target = id THEN GotoSearch(s, a) ELSE s

\* Of the death of an entity, or of its conversion.
OnEventTargetLost(s, a, id) ==
  CASE s.autos[a].status = "attack" -> LostInAttack(s, a, id)
    [] s.autos[a].status = "chase" -> LostInChase(s, a, id)
    [] OTHER -> s

OnEventCombatAttacked(s, a, host, attacker) ==
  IF s.autos[a].status = "search" /\ a = host THEN GotoChase(SetTarget(s, a, attacker), a) ELSE s

\* AutoStatus::DispatchEvent: what an auto is told, of warrior or building `of'.
OnEvent(s, a, event) ==
  CASE event.type = "moveStep" -> OnEventSceneMoveStep(s, a, event.of)
    [] event.type = "lost" -> OnEventTargetLost(s, a, event.of)
    [] event.type = "attacked" -> OnEventCombatAttacked(s, a, event.of, event.by)

\* EventObserver::Dispatch with PendingRemove: those who observe are told in the order
\* of their ids.
Watching(s, id) == {a \in DOMAIN s.autos : <<id, a>> \in s.observers}

Telling(s, event) ==
  LET told[n \in 0..s.ids] == IF n = 0 THEN [s EXCEPT !.dispatching = TRUE]
                              ELSE IF n \in Watching(s, event.of) THEN OnEvent(told[n - 1], n, event)
                              ELSE told[n - 1]
  IN told

Dispatch(s, event) ==
  LET after == Telling(s, event)[s.ids]
  IN [after EXCEPT !.dispatching = FALSE, !.observers = @ \ after.pending, !.pending = {}]

\* Auto::Finalize, and what AutoManager and EntityBuilder know of the warrior.
FinalizeAuto(s, a) ==
  LET gone == ResetTarget(StopPresentStatus(s, a), a) IN [gone EXCEPT !.autos = Without(@, a)]

RemoveWarrior(s, w) ==
  [s EXCEPT !.moves = Without(@, w), !.grid[s.warriors[w].pos] = @ \ {w}]

\* CombatEventHandler::OnEventCombatBuildAction and OnEventCombatDeath of the AI.
FreshAuto(s, w) ==
  LET fresh == [status |-> "search", target |-> None, timers |-> {}]
  IN StartSearch(StartPresentStatus([s EXCEPT !.autos = With(@, w, fresh)], w), w)

BuildAuto(s, w) == IF w \in DOMAIN s.autos THEN s ELSE FreshAuto(s, w)

\* The event of a new warrior: first to the players, then to the AI.
DispatchBuildActionEvent(s, w, c) == BuildAuto(TellBuild(s, w, c), w)

LoseAuto(s, w) == FinalizeAuto(Dispatch(s, [type |-> "lost", of |-> w]), w)

-----------------------------------------------------------------------------
(* Resources *)

Least(m, n) == IF m < n THEN m ELSE n

Owned(s, r) == {b \in Buildings : s.buildings[b].camp = r}

\* Both passes over the roles end at the first whose camp has no building.
Served(s, r) == \A q \in Roles : q <= r => Owned(s, q) # {}

\* CombatField::AllocateBuildingSupply.
AllocateBuildingSupply(s) ==
  [s EXCEPT !.roles = [r \in Roles |->
     IF Served(s, r) THEN [s.roles[r] EXCEPT !.supplyMax = SupplyAdd * Cardinality(Owned(s, r))]
     ELSE s.roles[r]]]

\* Building::GotoStatus.
SwitchStatus(s, b, status) == TellStatus([s EXCEPT !.buildings[b].status = status], b)

\* A retrieved building that has all its points is host again.
OnRecoverHp(s, b) ==
  IF s.buildings[b].status = "retrieve" /\ s.buildings[b].hp >= MaxHp
  THEN SwitchStatus(s, b, "host") ELSE s

RecoveryHp(s, b) == OnRecoverHp([s EXCEPT !.buildings[b].hp = Least(@ + Recovery, MaxHp)], b)

\* A building that is under attack does not recover.
RecoverBuilding(s, b) == IF s.buildings[b].targeted <= 0 THEN RecoveryHp(s, b) ELSE s

-----------------------------------------------------------------------------
(* Steps *)

\* The role objects go back to their pool as they are: Initialize does not reset
\* the supply a new battle finds there (`kept').  Bound: the pool has as many as a battle.
FreshRole(r, supply) ==
  [food |-> FoodMax, supply |-> supply, kept |-> supply, supplyMax |-> 0,
   buildingNum |-> Cardinality({b \in Buildings : Owners[b] = r})]

\* The field of a building, and what the AI adds to it.
FreshBuildingField(b) == [camp |-> Owners[b], hp |-> MaxHp]
FreshBuilding(b) ==
  LET field == FreshBuildingField(b)
  IN [camp |-> field.camp, hp |-> field.hp, status |-> "host", targeted |-> 0]

FreshBattle(supply) ==
  AllocateBuildingSupply(
    [warriors |-> << >>, autos |-> << >>, moves |-> << >>, ids |-> Len(Sites),
     grid |-> [c \in (0..Width - 1) \X (0..Height - 1) |-> {}],
     roles |-> [r \in Roles |-> FreshRole(r, supply[r])],
     buildings |-> [b \in Buildings |-> FreshBuilding(b)],
     told |-> << >>,
     toldBuildings |-> [b \in Buildings |-> [camp |-> Owners[b], status |-> "host"]],
     observers |-> {}, dispatching |-> FALSE, pending |-> {}])

Settled(s) == [supply |-> [r \in Roles |-> s.roles[r].supply]]

BattleInit == battle = FreshBattle([r \in Roles |-> 0])

\* Its place is set by the scene.
FreshWarrior(r) == [role |-> r, hp |-> MaxHp, pos |-> <<0, 0>>]

\* CombatRoleField::DoBuildAction.  An id is used up also when the scene refuses.
DoBuildAction(r, b) ==
  LET role == battle.roles[r]
      w == battle.ids + 1
      built == [battle EXCEPT
                  !.ids = w, !.warriors = With(@, w, FreshWarrior(r)),
                  !.roles[r].food = @ - FoodNeed, !.roles[r].supply = @ + SupplyNeed]
  IN /\ Begun /\ battle.ids < MaxId
     /\ role.food >= FoodNeed /\ role.supplyMax - role.supply >= SupplyNeed
     /\ battle.buildings[b].camp = r
     /\ IF OnVoteCombatBuild(battle, b) /\ NearlyWalkable(Sites[b]) # {}
        THEN \E c \in NearlyWalkable(Sites[b]) :
               battle' = DispatchBuildActionEvent(OnRequireSceneBuild(built, w, c), w, c)
        ELSE battle' = [battle EXCEPT !.ids = w]

DoMoveAction(w, dest) == Begun /\ battle' = OnRequireSceneMove(battle, w, dest)

\* CombatRoleField::DoAction.  Nobody checks whose warrior is sent.  Bound: where to.
DoAction ==
  \/ \E r \in Roles, b \in Buildings : DoBuildAction(r, b)
  \/ Begun /\ \E w \in DOMAIN battle.warriors :
       \E dest \in Destinations[battle.warriors[w].role] : DoMoveAction(w, dest)

\* MoveAction::MoveStep.
OnMoveTimer(w) ==
  LET pos == battle.warriors[w].pos
      next == Head(battle.moves[w])
      left == [battle EXCEPT !.grid[pos] = @ \ {w}]
      step == [left EXCEPT !.grid[next] = @ \cup {w}, !.warriors[w].pos = next, !.moves[w] = Tail(@)]
  IN /\ Begun /\ w \in DOMAIN battle.moves /\ battle.moves[w] # << >>
     /\ battle' = Dispatch(step, [type |-> "moveStep", of |-> w])

\* AutoStatusSearch::OnTimerSearch with Auto::SearchTarget: an enemy warrior on the
\* first cell where there is one, then a building.
OnTimerSearch(a) ==
  LET First(S) == FirstNeighbors(battle, PosOf(battle, a),
                                 {id \in S : CampOf(battle, id) # CampOf(battle, a)})
      found == First(DOMAIN battle.warriors)
  IN /\ Begun /\ a \in DOMAIN battle.autos /\ "search" \in battle.autos[a].timers
     /\ \E id \in IF found # {} THEN found ELSE First(Buildings) :
          battle' = GotoChase(SetTarget(battle, a, id), a)

OnTimerRefindPath(a) ==
  /\ Begun /\ a \in DOMAIN battle.autos /\ "refind" \in battle.autos[a].timers
  /\ battle' = Approach([battle EXCEPT !.autos[a].timers = @ \ {"refind"}], a)

\* The events of a hit that kills: the supply of the role, the AI, the scene and
\* then the field lose the warrior.
Death(s, w) ==
  LET freed == [s EXCEPT !.roles[s.warriors[w].role].supply = @ - SupplyNeed]
  IN [RemoveWarrior(LoseAuto(TellDeath(freed, w), w), w) EXCEPT !.warriors = Without(@, w)]

Hit(hp) == IF hp > Damage THEN hp - Damage ELSE 0

SendEventCombatAttack(s, a, w) == Dispatch(s, [type |-> "attacked", of |-> w, by |-> a])

AttackWarrior(s, a, w) ==
  LET told == SendEventCombatAttack([s EXCEPT !.warriors[w].hp = Hit(@)], a, w)
  IN IF told.warriors[w].hp <= 0 THEN Death(told, w) ELSE told

\* CombatEventHandler::OnEventCombatConvertCamp of the server.
ChangeHost(s, camp, b) ==
  [s EXCEPT !.buildings[b].camp = camp, !.roles =
     [r \in Roles |-> [s.roles[r] EXCEPT !.buildingNum =
        (@ + (IF r = camp THEN 1 ELSE 0)) - (IF r = s.buildings[b].camp THEN 1 ELSE 0)]]]

\* BuildingStatusHost::OnEventCombatConvertCamp.
Retrieve(s, b) == IF s.buildings[b].status = "host" THEN SwitchStatus(s, b, "retrieve") ELSE s

\* The AI is told that a building goes over.
LoseBuilding(s, b) == Retrieve(Dispatch(s, [type |-> "lost", of |-> b]), b)

\* Mutant: the limits of the roles are not counted again.
ConvertCampKeepsSupply(s, camp, b) == LoseBuilding(TellCamp(ChangeHost(s, camp, b), b), b)

\* A building without points goes over to the camp of the attacker.  It is not given
\* points again: it goes over with every hit until it has recovered some.
ConvertCamp(s, camp, b) ==
  LoseBuilding(TellCamp(AllocateBuildingSupply(ChangeHost(s, camp, b)), b), b)

AttackBuilding(s, a, b) ==
  LET hit == [s EXCEPT !.buildings[b].hp = Hit(@)]
  IN IF hit.buildings[b].hp <= 0 THEN ConvertCamp(hit, s.warriors[a].role, b) ELSE hit

OneCamp(s) == \A b, c \in Buildings : s.buildings[b].camp = s.buildings[c].camp

\* AutoStatusAttack::OnTimerAttack with OnRequireFormulaAttack.  When all buildings
\* are of one camp the battle is settled, in the same call.
OnTimerAttack(a) ==
  LET target == battle.autos[a].target
      after == IF target \in Buildings THEN AttackBuilding(battle, a, target)
               ELSE AttackWarrior(battle, a, target)
  IN /\ Begun /\ a \in DOMAIN battle.autos /\ "attack" \in battle.autos[a].timers
     /\ Exists(battle, target)
     /\ IF target \in Buildings /\ after.buildings[target].hp <= 0 /\ OneCamp(after)
        THEN battle' = Settled(after)
        ELSE battle' = after

\* With CombatRoleField::SetFood: never more than FoodMax.
IncFood(role, n) == [role EXCEPT !.food = Least(FoodMax, @ + n)]

\* CombatEventHandler::OnEventCombatResourceRecover: the buildings and then the roles.
Recovering(s) ==
  LET recovered[n \in 0..Len(Sites)] == IF n = 0 THEN s ELSE RecoverBuilding(recovered[n - 1], n)
  IN recovered

OnTimerResourceRecover ==
  LET recovered == Recovering(battle)[Len(Sites)]
  IN /\ Begun
     /\ battle' = [recovered EXCEPT !.roles = [r \in Roles |->
                     IF Served(battle, r) THEN IncFood(@[r], FoodAdd * Cardinality(Owned(battle, r)))
                     ELSE @[r]]]

OnTimerSettle == Begun /\ battle' = Settled(battle)

NewBattle == ~Begun /\ battle' = FreshBattle(battle.supply)

BattleNext ==
  \/ DoAction
  \/ Begun /\ \E w \in DOMAIN battle.warriors :
       OnMoveTimer(w) \/ OnTimerSearch(w) \/ OnTimerRefindPath(w) \/ OnTimerAttack(w)
  \/ OnTimerResourceRecover
  \/ OnTimerSettle
  \/ NewBattle

BattleSpec == BattleInit /\ [][BattleNext]_battle

-----------------------------------------------------------------------------
(* Properties *)

BattleType ==
  IF ~Begun THEN battle.supply \in [Roles -> Nat]
  ELSE LET Warriors == DOMAIN battle.warriors
     IN /\ Warriors \subseteq (Len(Sites) + 1)..battle.ids /\ battle.ids <= MaxId
        /\ DOMAIN battle.autos = Warriors /\ DOMAIN battle.moves = Warriors
        /\ battle.warriors \in [Warriors -> [role : Roles, hp : 1..MaxHp, pos : Walkable]]
        /\ battle.autos \in [Warriors -> [status : {"search", "chase", "attack"},
                             target : 0..MaxId, timers : SUBSET {"search", "attack", "refind"}]]
        /\ battle.buildings \in [Buildings -> [camp : Roles, hp : 0..MaxHp,
                                 status : {"host", "retrieve"}, targeted : 0..MaxId]]
        /\ ~battle.dispatching /\ battle.pending = {}

\* CombatField::ExportStatusImage with what it requires of the scene and the AI: where
\* a warrior moves and, in an attack, its target (which the code marks as a move too).
MovePaths(s, w) == IF s.moves[w] # << >> THEN s.moves[w] ELSE <<s.warriors[w].pos>>
AttackingTarget(s, w) == IF s.autos[w].status = "attack" THEN s.autos[w].target ELSE None

StatusImage(s) ==
  [warriors |-> [w \in DOMAIN s.warriors |->
                   [to |-> MovePaths(s, w)[Len(MovePaths(s, w))], target |-> AttackingTarget(s, w)]],
   buildings |-> [b \in Buildings |-> [camp |-> s.buildings[b].camp, status |-> s.buildings[b].status]]]

\* Who has followed the actions knows what who asks for the state is shown: where every
\* warrior goes or stands, whom it attacks, and the buildings; the dead are gone.
PlayersTold ==
  LET image == StatusImage(battle)
  IN /\ DOMAIN battle.told = DOMAIN image.warriors
     /\ \A w \in DOMAIN battle.told :
          /\ battle.told[w].to = image.warriors[w].to
          /\ image.warriors[w].target \in {None, battle.told[w].target}
     /\ battle.toldBuildings = image.buildings

\* A warrior that chases or attacks is told of what happens to its target, which is
\* there and of the other camp; its timers are those of its status; a building counts
\* the warriors that attack it, who attacks stands still, and the players know of it.
TargetsWatched ==
  Begun =>
    /\ PlayersTold
    /\ \A a \in DOMAIN battle.autos :
         LET auto == battle.autos[a]
         IN /\ auto.status # "search" =>
                 /\ Exists(battle, auto.target) /\ <<auto.target, a>> \in battle.observers
                 /\ CampOf(battle, auto.target) # CampOf(battle, a)
            /\ auto.status = "search" => auto.timers = {"search"}
            /\ auto.status = "chase" => auto.timers \subseteq {"refind"}
            /\ auto.status = "attack" => auto.timers = {"attack"} /\ battle.moves[a] = << >>
    /\ \A b \in Buildings :
         battle.buildings[b].targeted =
           Cardinality({a \in DOMAIN battle.autos :
                          battle.autos[a].status = "attack" /\ battle.autos[a].target = b})

\* The books of the roles: supply is what their warriors need (and what the role object
\* brought along), its limit and the number of buildings are those of the buildings
\* they have, food is never owed; and the grids hold the warriors where they are.
BooksBalance ==
  /\ BattleType
  /\ Begun =>
       /\ \A r \in Roles :
            LET role == battle.roles[r]
                owned == Cardinality(Owned(battle, r))
            IN /\ role.supply - role.kept =
                    SupplyNeed * Cardinality({w \in DOMAIN battle.warriors : battle.warriors[w].role = r})
               /\ role.supplyMax = SupplyAdd * owned /\ role.buildingNum = owned
               /\ role.food \in 0..FoodMax
       /\ \A c \in DOMAIN battle.grid :
            battle.grid[c] = {w \in DOMAIN battle.warriors : battle.warriors[w].pos = c}

=============================================================================
