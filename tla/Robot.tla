------------------------------- MODULE Robot -------------------------------
(***************************************************************************)
(* One robot of the simulator (src/core/Robot.cpp): its sensor, planner    *)
(* and control threads, the clients that call it through the Simulator,    *)
(* and the obstacles of the grid it moves on.                              *)
(*                                                                         *)
(* Every action is one critical section, or one access to an atomic or to  *)
(* an unprotected member, of one thread; the code between two of them      *)
(* touches only that thread's locals.  Condition-variable waits are guards *)
(* here; RobotLifecycle models them with their wait sets.  Reservations    *)
(* and time steps are in Fleet, the path search itself in Pathfinder: here *)
(* a search returns any route the obstacles allow.                         *)
(***************************************************************************)
EXTENDS Integers, Sequences

CONSTANTS
  Points,           \* the cells of the grid
  Chargers,         \* the cells that are charging stations
  StartPos,         \* the robot's first cell
  Adjacent,         \* pairs <<p, q>>: one time step may lead from p to q
  MaxRouteLen,      \* bound: cells of the longest route considered
  RouteMayFail,     \* TRUE: other robots' reservations may leave no route
  CHARGE_FULL,      \* the full battery
  CHARGE_THRESHOLD, \* auto charging is triggered at or below this level
  CHARGE_STEP,      \* what one sensor tick on the charger adds
  CHARGE_PRIORITY,  \* the priority of an automatic charge mission
  MOVE_PRIORITY,    \* the priority of a "move" command
  MaxDeficit,       \* bound: how far below zero the battery is drained
  Clients,          \* the threads that execute commands
  MoveTargets,      \* the targets "move" commands name
  MissionInputs,    \* what "mission" commands carry: priority and waypoints
  MaxMissions,      \* bound: move and mission commands
  MaxStops,         \* bound: stop and reset commands
  MaxResets,        \* bound: reset commands among these
  MaxToggles        \* bound: obstacle_add and obstacle_remove commands

Labels == {"", "GOTO", "PICKUP", "DELIVERY", "RETURN", "CHARGE"}
Waypoint == [pos : Points, label : Labels]
MissionInput == [priority : Int, waypoints : Seq(Waypoint) \ {<<>>}]

(* A mission; issued is a history field: how many stop() calls preceded it. *)
Mission == [priority : Int, waypoints : Seq(Waypoint), currentWpIdx : Nat,
            isChargeMission : BOOLEAN, issued : Nat]

ASSUME GridAssumption ==
  /\ StartPos \in Points
  /\ Chargers \subseteq Points
  /\ Chargers # {}
  /\ MaxRouteLen \in Nat
  /\ RouteMayFail \in BOOLEAN

ASSUME BatteryAssumption ==
  /\ CHARGE_FULL \in Nat
  /\ CHARGE_THRESHOLD \in Nat
  /\ CHARGE_STEP \in Nat \ {0}
  /\ CHARGE_THRESHOLD < CHARGE_FULL
  /\ MaxDeficit \in Nat

ASSUME InputAssumption ==
  /\ MoveTargets \subseteq Points
  /\ MissionInputs \subseteq MissionInput
  /\ CHARGE_PRIORITY \in Int
  /\ MOVE_PRIORITY \in Int
  /\ {MaxMissions, MaxStops, MaxResets, MaxToggles} \subseteq Nat

VARIABLES
  position, state, target, currentPath,   \* under posMutex_
  battery,                                \* atomic
  chargeMissionActive,                    \* a plain bool of two threads
  missionQueue, currentMission,           \* under missionMutex_
  planReq,                                \* the one-slot planner mailbox
  pendingPath, pathReady,                 \* planner to control
  waypointArrived,                        \* control to planner
  obstacles,                              \* of the grid: its OBSTACLE cells
  sensorPc, seenState, seenBattery,       \* the sensor thread's locals
  plannerPc, req, mission, route,         \* the planner thread's locals
  controlPc, path, step,                  \* the control thread's locals
  clientPc,                               \* where each client is in a command
  budget,                                 \* commands not yet issued
  stops                                   \* history: stop() calls so far

posVars     == <<position, state, target, currentPath>>
batteryVars == <<battery, chargeMissionActive>>
missionVars == <<missionQueue, currentMission>>
pathVars    == <<pendingPath, pathReady>>
sensorVars  == <<sensorPc, seenState, seenBattery>>
plannerVars == <<plannerPc, req, mission, route>>
controlVars == <<controlPc, path, step>>
clientVars  == <<clientPc, budget, stops>>

vars == <<posVars, batteryVars, missionVars, planReq, pathVars,
          waypointArrived, obstacles, sensorVars, plannerVars, controlVars,
          clientVars>>

RobotState == {"IDLE", "PLANNING", "MOVING", "ARRIVED", "CHARGING_TRAVEL",
               "CHARGING", "ERROR"}
PlanRequest == {"NONE", "PLAN_NEXT", "REPLAN", "STOP", "RESET"}

Commands == {"missions", "stops", "resets", "toggles"}

(* The states in which the battery drains and the control thread drives on. *)
Driving == {"MOVING", "CHARGING_TRAVEL"}

(* Mutant of Lesser: the level is not capped. *)
LesserUncapped(a, b) == b
Lesser(a, b) == IF a < b THEN a ELSE b

-----------------------------------------------------------------------------
(* Missions.  NoMission is the empty optional: no real mission is without  *)
(* waypoints.                                                              *)

NoMission == [priority |-> 0, waypoints |-> <<>>, currentWpIdx |-> 0,
              isChargeMission |-> FALSE, issued |-> 0]

IsComplete(m) == m.currentWpIdx >= Len(m.waypoints)
CurrentWaypoint(m) == m.waypoints[m.currentWpIdx + 1]
Advanced(m) == [m EXCEPT !.currentWpIdx = @ + 1]

NewMission(priority, waypoints, charge) ==
  [priority |-> priority, waypoints |-> waypoints, currentWpIdx |-> 0,
   isChargeMission |-> charge, issued |-> stops]

(* q with m behind the leading missions whose priority is at least m's. *)
Inserted(q, m, k) == SubSeq(q, 1, k) \o <<m>> \o SubSeq(q, k + 1, Len(q))

(* Mutant of InsertionPoint: always at the back. *)
InsertionPointAtBack(q, m, k) == k = Len(q)

InsertionPoint(q, m, k) ==
  /\ k \in 0 .. Len(q)
  /\ \A i \in 1 .. k : q[i].priority >= m.priority
  /\ k < Len(q) => q[k + 1].priority < m.priority

-----------------------------------------------------------------------------
(* The routes a search may return: they start at the robot, end at the     *)
(* goal, and every cell was walkable when it was searched.                 *)

Routes(from, to) ==
  {r \in UNION {[1 .. n -> Points \ obstacles] : n \in 2 .. MaxRouteLen} :
     /\ r[1] = from
     /\ r[Len(r)] = to
     /\ \A i \in 1 .. Len(r) - 1 : <<r[i], r[i + 1]>> \in Adjacent}

-----------------------------------------------------------------------------
Init ==
  /\ position = StartPos
  /\ state = "IDLE"
  /\ target = StartPos
  /\ currentPath = <<>>
  /\ battery = CHARGE_FULL
  /\ chargeMissionActive = FALSE
  /\ missionQueue = <<>>
  /\ currentMission = NoMission
  /\ planReq = "NONE"
  /\ pendingPath = <<>>
  /\ pathReady = FALSE
  /\ waypointArrived = FALSE
  /\ obstacles = {}
  /\ sensorPc = "sample"
  /\ seenState = "IDLE"
  /\ seenBattery = 0
  /\ plannerPc = "wait"
  /\ req = "NONE"
  /\ mission = NoMission
  /\ route = <<>>
  /\ controlPc = "wait"
  /\ path = <<>>
  /\ step = 1
  /\ clientPc = [c \in Clients |-> "idle"]
  /\ budget = [k \in Commands |-> CASE k = "missions" -> MaxMissions
                                     [] k = "stops"    -> MaxStops
                                     [] k = "resets"   -> MaxResets
                                     [] k = "toggles"  -> MaxToggles]
  /\ stops = 0

-----------------------------------------------------------------------------
(* Clients: the TCP and web threads inside Simulator::handleCommand.       *)

Goto(c, pc) == clientPc' = [clientPc EXCEPT ![c] = pc]
Spend(kinds) ==
  /\ \A k \in kinds : budget[k] > 0
  /\ budget' = [k \in Commands |-> IF k \in kinds THEN budget[k] - 1 ELSE budget[k]]

Others == <<sensorVars, plannerVars, controlVars>>

(* The locked part of addMission. *)
Enqueue(m) ==
  /\ \E k \in 0 .. Len(missionQueue) :
       /\ InsertionPoint(missionQueue, m, k)
       /\ missionQueue' = Inserted(missionQueue, m, k)
  /\ UNCHANGED currentMission

(* moveTo: a mission of one waypoint, whose cell was just found walkable. *)
MoveTo(c) ==
  /\ clientPc[c] = "idle"
  /\ Spend({"missions"})
  /\ \E p \in MoveTargets \ obstacles :
       Enqueue(NewMission(MOVE_PRIORITY, <<[pos |-> p, label |-> "GOTO"]>>, FALSE))
  /\ Goto(c, "planNext")
  /\ UNCHANGED <<posVars, batteryVars, planReq, pathVars, waypointArrived,
                 obstacles, Others, stops>>

(* A "mission" command: its waypoints are not checked. *)
AddMission(c) ==
  /\ clientPc[c] = "idle"
  /\ Spend({"missions"})
  /\ \E in \in MissionInputs :
       Enqueue(NewMission(in.priority, in.waypoints, FALSE))
  /\ Goto(c, "planNext")
  /\ UNCHANGED <<posVars, batteryVars, planReq, pathVars, waypointArrived,
                 obstacles, Others, stops>>

(* Mutant of CancelMissions: the queue survives. *)
CancelCurrentOnly == UNCHANGED missionQueue /\ currentMission' = NoMission
CancelMissions == missionQueue' = <<>> /\ currentMission' = NoMission

(* The locked part of stop(), alone or as the first call of reset(). *)
Stop(c) ==
  /\ clientPc[c] = "idle"
  /\ \/ Spend({"stops"}) /\ Goto(c, "stop")
     \/ Spend({"stops", "resets"}) /\ Goto(c, "resetStop")
  /\ CancelMissions
  /\ chargeMissionActive' = FALSE
  /\ stops' = stops + 1
  /\ UNCHANGED <<posVars, battery, planReq, pathVars, waypointArrived,
                 obstacles, Others>>

ResetBattery(c) ==
  /\ clientPc[c] = "resetBattery"
  /\ battery' = CHARGE_FULL
  /\ Goto(c, "reset")
  /\ UNCHANGED <<posVars, chargeMissionActive, missionVars, planReq, pathVars,
                 waypointArrived, obstacles, Others, budget, stops>>

(* requestPlan: what each command asks for, and where it continues. *)
Requested(pc) == CASE pc = "planNext"            -> "PLAN_NEXT"
                   [] pc \in {"stop", "resetStop"} -> "STOP"
                   [] pc = "reset"               -> "RESET"
                   [] pc = "replan"              -> "REPLAN"

RequestPlan(c) ==
  /\ clientPc[c] \in {"planNext", "stop", "resetStop", "reset", "replan"}
  /\ planReq' = Requested(clientPc[c])
  /\ Goto(c, IF clientPc[c] = "resetStop" THEN "resetBattery" ELSE "idle")
  /\ UNCHANGED <<posVars, batteryVars, missionVars, pathVars, waypointArrived,
                 obstacles, Others, budget, stops>>

(* addObstacle or removeObstacle; the callback then reaches the robot. *)
ToggleObstacle(c) ==
  /\ clientPc[c] = "idle"
  /\ Spend({"toggles"})
  /\ \/ \E p \in Points \ (obstacles \cup Chargers) :
          obstacles' = obstacles \cup {p}
     \/ \E p \in obstacles : obstacles' = obstacles \ {p}
  /\ Goto(c, "notify")
  /\ UNCHANGED <<posVars, batteryVars, missionVars, planReq, pathVars,
                 waypointArrived, Others, stops>>

(* notifyObstacleChanged reads the state, and requests in a later step. *)
NotifyObstacleChanged(c) ==
  /\ clientPc[c] = "notify"
  /\ Goto(c, IF state \in Driving THEN "replan" ELSE "idle")
  /\ UNCHANGED <<posVars, batteryVars, missionVars, planReq, pathVars,
                 waypointArrived, obstacles, Others, budget, stops>>

Client(c) ==
  \/ MoveTo(c) \/ AddMission(c) \/ Stop(c) \/ ToggleObstacle(c)
  \/ ResetBattery(c) \/ RequestPlan(c) \/ NotifyObstacleChanged(c)

-----------------------------------------------------------------------------
(* The sensor thread: battery, charging and the automatic charge mission.  *)

SensorFrame == <<position, target, currentPath, pathVars, waypointArrived,
                 obstacles, plannerVars, controlVars, clientVars>>

(* At the end of a tick its locals are dead; they are given one value.     *)
EndTick == sensorPc' = "sample" /\ seenState' = "IDLE" /\ seenBattery' = 0

(* The tick reads the state; the rest of the tick acts on that reading.    *)
(* MaxDeficit bounds the drain.                                            *)
SensorSample ==
  /\ sensorPc = "sample"
  /\ state \in Driving => battery > -MaxDeficit
  /\ \/ state \in Driving /\ sensorPc' = "drain" /\ seenState' = state
     \/ state = "CHARGING" /\ sensorPc' = "charge" /\ seenState' = state
     \/ state \in {"IDLE", "ARRIVED"} /\ sensorPc' = "trigger" /\ seenState' = state
     \/ state \in {"PLANNING", "ERROR"} /\ UNCHANGED <<sensorPc, seenState>>
  /\ UNCHANGED <<SensorFrame, state, batteryVars, missionVars, planReq, seenBattery>>

SensorDrain ==
  /\ sensorPc = "drain"
  /\ battery' = battery - 1
  /\ sensorPc' = IF battery <= 1 THEN "deplete" ELSE "trigger"
  /\ UNCHANGED <<SensorFrame, state, chargeMissionActive, missionVars, planReq,
                 seenState, seenBattery>>

SensorDeplete ==
  /\ sensorPc = "deplete"
  /\ state' = "ERROR"
  /\ EndTick
  /\ UNCHANGED <<SensorFrame, batteryVars, missionVars, planReq>>

(* Mutant of Charged: the full level is missed. *)
ChargedBeyond(level) == level > CHARGE_FULL
Charged(level) == level >= CHARGE_FULL

SensorCharge ==
  /\ sensorPc = "charge"
  /\ seenBattery' = battery
  /\ sensorPc' = IF Charged(battery) THEN "chargeEnd" ELSE "storeCharge"
  /\ UNCHANGED <<SensorFrame, state, batteryVars, missionVars, planReq, seenState>>

(* A mission waiting at the end of a charge or of a mission is asked for.  *)
(* Mutant of Resumed: it is forgotten.                                     *)
ResumedNever == planReq
Resumed == IF missionQueue # <<>> THEN "PLAN_NEXT" ELSE planReq

(* The stored level is computed from the level read before. *)
SensorStore ==
  /\ \/ /\ sensorPc = "storeCharge"
        /\ battery' = Lesser(CHARGE_FULL, seenBattery + CHARGE_STEP)
     \/ /\ sensorPc = "storeIdle"
        /\ battery' = Lesser(CHARGE_FULL, seenBattery + 1)
  /\ EndTick
  /\ UNCHANGED <<SensorFrame, state, chargeMissionActive, missionVars, planReq>>

SensorChargeEnd ==
  /\ sensorPc = "chargeEnd"
  /\ chargeMissionActive' = FALSE
  /\ sensorPc' = "chargeIdle"
  /\ UNCHANGED <<SensorFrame, state, battery, missionVars, planReq, seenState,
                 seenBattery>>

SensorChargeIdle ==
  /\ sensorPc = "chargeIdle"
  /\ state' = "IDLE"
  /\ sensorPc' = "chargeResume"
  /\ UNCHANGED <<SensorFrame, batteryVars, missionVars, planReq, seenState,
                 seenBattery>>

SensorChargeResume ==
  /\ sensorPc = "chargeResume"
  /\ planReq' = Resumed
  /\ EndTick
  /\ UNCHANGED <<SensorFrame, state, batteryVars, missionVars>>

NeedsCharge ==
  /\ ~chargeMissionActive
  /\ battery <= CHARGE_THRESHOLD
  /\ seenState \in {"IDLE", "MOVING", "ARRIVED"}

(* The auto-charge test, then the slow recovery of a robot at rest.  After *)
(* a trigger the recovery's own test cannot hold: only the sensor and a    *)
(* reset write the battery.                                                *)
SensorTrigger ==
  LET recovers == /\ ~NeedsCharge
                  /\ seenState \in {"IDLE", "ARRIVED"}
                  /\ CHARGE_THRESHOLD < battery
                  /\ battery < CHARGE_FULL
  IN
  /\ sensorPc = "trigger"
  /\ \/ NeedsCharge /\ sensorPc' = "arm" /\ UNCHANGED <<seenState, seenBattery>>
     \/ recovers /\ sensorPc' = "storeIdle" /\ seenBattery' = battery /\ UNCHANGED seenState
     \/ ~NeedsCharge /\ ~recovers /\ EndTick
  /\ UNCHANGED <<SensorFrame, state, batteryVars, missionVars, planReq>>

SensorArm ==
  /\ sensorPc = "arm"
  /\ chargeMissionActive' = TRUE
  /\ sensorPc' = "push"
  /\ UNCHANGED <<SensorFrame, state, battery, missionVars, planReq, seenState,
                 seenBattery>>

(* push_front: ahead of everything.  Which charger is nearest is Grid's.   *)
SensorPush ==
  /\ sensorPc = "push"
  /\ \E p \in Chargers :
       missionQueue' =
         <<NewMission(CHARGE_PRIORITY, <<[pos |-> p, label |-> "CHARGE"]>>, TRUE)>>
           \o missionQueue
  /\ sensorPc' = "request"
  /\ UNCHANGED <<SensorFrame, state, batteryVars, currentMission, planReq,
                 seenState, seenBattery>>

SensorRequest ==
  /\ sensorPc = "request"
  /\ planReq' = "PLAN_NEXT"
  /\ EndTick
  /\ UNCHANGED <<SensorFrame, state, batteryVars, missionVars>>

Sensor ==
  \/ SensorSample \/ SensorDrain \/ SensorDeplete \/ SensorCharge
  \/ SensorStore \/ SensorChargeEnd \/ SensorChargeIdle \/ SensorChargeResume
  \/ SensorTrigger \/ SensorArm \/ SensorPush \/ SensorRequest

-----------------------------------------------------------------------------
(* The planner thread: missions, waypoints, routes.                        *)

PlannerFrame == <<position, batteryVars, obstacles, sensorVars, controlVars,
                  clientVars>>

(* The locals of a round are dead at its end. *)
EndRound == plannerPc' = "wait" /\ mission' = NoMission /\ req' = "NONE"

(* waitForPlanRequest: the mailbox is read and emptied. *)
PlannerTake ==
  /\ plannerPc = "wait"
  /\ planReq # "NONE"
  /\ req' = planReq
  /\ planReq' = "NONE"
  /\ plannerPc' = IF planReq \in {"STOP", "RESET"} THEN "stop" ELSE "fetch"
  /\ UNCHANGED <<PlannerFrame, state, target, currentPath, missionVars, pathVars,
                 waypointArrived, mission, route>>

PlannerStop ==
  /\ plannerPc = "stop"
  /\ currentPath' = <<>>
  /\ plannerPc' = "stopIdle"
  /\ UNCHANGED <<PlannerFrame, state, target, missionVars, planReq, pathVars,
                 waypointArrived, req, mission, route>>

PlannerStopIdle ==
  /\ plannerPc = "stopIdle"
  /\ state' = "IDLE"
  /\ plannerPc' = "stopWake"
  /\ UNCHANGED <<PlannerFrame, target, currentPath, missionVars, planReq, pathVars,
                 waypointArrived, req, mission, route>>

PlannerStopWake ==
  /\ plannerPc = "stopWake"
  /\ pendingPath' = <<>>
  /\ pathReady' = TRUE
  /\ EndRound
  /\ UNCHANGED <<PlannerFrame, state, target, currentPath, missionVars, planReq,
                 waypointArrived, route>>

(* Under missionMutex_: which mission the request is about.  Mutant of     *)
(* ContinuesMission: a waiting mission comes first.                        *)
ContinuesMissionLast ==
  ~IsComplete(currentMission) /\ req # "REPLAN" /\ missionQueue = <<>>
ContinuesMission == ~IsComplete(currentMission) /\ req # "REPLAN"

Depart(m) == plannerPc' = "depart" /\ mission' = m /\ req' = "NONE"

PlannerFetch ==
  /\ plannerPc = "fetch"
  /\ \/ /\ ContinuesMission
        /\ Depart(currentMission)
        /\ UNCHANGED missionVars
     \/ /\ ~ContinuesMission
        /\ missionQueue # <<>>
        /\ Depart(Head(missionQueue))
        /\ currentMission' = Head(missionQueue)
        /\ missionQueue' = Tail(missionQueue)
     \/ /\ ~ContinuesMission
        /\ missionQueue = <<>>
        /\ req = "REPLAN" /\ currentMission # NoMission
        /\ IF IsComplete(currentMission) THEN EndRound ELSE Depart(currentMission)
        /\ UNCHANGED missionVars
     \/ /\ ~ContinuesMission
        /\ missionQueue = <<>>
        /\ ~(req = "REPLAN" /\ currentMission # NoMission)
        /\ plannerPc' = "idle" /\ req' = "NONE"
        /\ UNCHANGED <<mission, missionVars>>
  /\ UNCHANGED <<PlannerFrame, state, target, currentPath, planReq, pathVars,
                 waypointArrived, route>>

PlannerIdle ==
  /\ plannerPc = "idle"
  /\ state' = "IDLE"
  /\ EndRound
  /\ UNCHANGED <<PlannerFrame, target, currentPath, missionVars, planReq, pathVars,
                 waypointArrived, route>>

PlannerDepart ==
  /\ plannerPc = "depart"
  /\ \/ /\ position = CurrentWaypoint(mission).pos
        /\ plannerPc' = "advance"
        /\ UNCHANGED state
     \/ /\ position # CurrentWaypoint(mission).pos
        /\ state' = IF CurrentWaypoint(mission).label = "CHARGE"
                    THEN "CHARGING_TRAVEL" ELSE "PLANNING"
        /\ plannerPc' = "search"
  /\ UNCHANGED <<PlannerFrame, target, currentPath, missionVars, planReq, pathVars,
                 waypointArrived, req, mission, route>>

PlannerSearch ==
  /\ plannerPc = "search"
  /\ target' = CurrentWaypoint(mission).pos
  /\ LET found == Routes(position, CurrentWaypoint(mission).pos)
     IN \/ route' \in found /\ plannerPc' = "handOver"
        \/ /\ found = {} \/ RouteMayFail
           /\ plannerPc' = "noPath"
           /\ UNCHANGED route
  /\ UNCHANGED <<PlannerFrame, state, currentPath, missionVars, planReq, pathVars,
                 waypointArrived, req, mission>>

PlannerNoPath ==
  /\ plannerPc = "noPath"
  /\ state' = "ERROR"
  /\ plannerPc' = "retry"
  /\ UNCHANGED <<PlannerFrame, target, currentPath, missionVars, planReq, pathVars,
                 waypointArrived, req, mission, route>>

(* The planner files a request of its own, after a search that failed (and *)
(* a sleep) or a waypoint that was not the last.  Mutant: it does not.     *)
AskNobody == UNCHANGED planReq
AskItself == planReq' = "PLAN_NEXT"

PlannerRetry ==
  /\ plannerPc = "retry"
  /\ AskItself
  /\ EndRound
  /\ UNCHANGED <<PlannerFrame, state, target, currentPath, missionVars, pathVars,
                 waypointArrived, route>>

PlannerHandOver ==
  /\ plannerPc = "handOver"
  /\ pendingPath' = route
  /\ pathReady' = TRUE
  /\ route' = <<>>
  /\ plannerPc' = "await"
  /\ UNCHANGED <<PlannerFrame, state, target, currentPath, missionVars, planReq,
                 waypointArrived, req, mission>>

(* Mutant of TakeArrival: the flag is left set. *)
SeeArrival == waypointArrived /\ UNCHANGED waypointArrived
TakeArrival == waypointArrived /\ waypointArrived' = FALSE

PlannerAwait ==
  /\ plannerPc = "await"
  /\ TakeArrival
  /\ plannerPc' = "advance"
  /\ UNCHANGED <<PlannerFrame, state, target, currentPath, missionVars, planReq,
                 pathVars, req, mission, route>>

(* onArrivalInternal writes the planner's copy back as the current mission. *)
PlannerAdvance ==
  /\ plannerPc = "advance"
  /\ mission' = Advanced(mission)
  /\ currentMission' = Advanced(mission)
  /\ plannerPc' = "arrived"
  /\ UNCHANGED <<PlannerFrame, state, target, currentPath, missionQueue, planReq,
                 pathVars, waypointArrived, req, route>>

ReachedLabel(m) == m.waypoints[m.currentWpIdx].label

PlannerArrived ==
  /\ plannerPc = "arrived"
  /\ \/ /\ ReachedLabel(mission) = "CHARGE"
        /\ state' = "CHARGING"
        /\ EndRound
        /\ UNCHANGED planReq
     \/ /\ ReachedLabel(mission) # "CHARGE" /\ IsComplete(mission)
        /\ state' = "ARRIVED"
        /\ plannerPc' = "rest"
        /\ UNCHANGED <<planReq, req, mission>>
     \/ /\ ReachedLabel(mission) # "CHARGE" /\ ~IsComplete(mission)
        /\ AskItself
        /\ EndRound
        /\ UNCHANGED state
  /\ UNCHANGED <<PlannerFrame, target, currentPath, missionVars, pathVars,
                 waypointArrived, route>>

PlannerRest ==
  /\ plannerPc = "rest"
  /\ state' = "IDLE"
  /\ plannerPc' = "resume"
  /\ UNCHANGED <<PlannerFrame, target, currentPath, missionVars, planReq, pathVars,
                 waypointArrived, req, mission, route>>

PlannerResume ==
  /\ plannerPc = "resume"
  /\ planReq' = Resumed
  /\ EndRound
  /\ UNCHANGED <<PlannerFrame, state, target, currentPath, missionVars, pathVars,
                 waypointArrived, route>>

Planner ==
  \/ PlannerTake \/ PlannerStop \/ PlannerStopIdle \/ PlannerStopWake
  \/ PlannerFetch \/ PlannerIdle \/ PlannerDepart \/ PlannerSearch
  \/ PlannerNoPath \/ PlannerRetry \/ PlannerHandOver \/ PlannerAwait
  \/ PlannerAdvance \/ PlannerArrived \/ PlannerRest \/ PlannerResume

-----------------------------------------------------------------------------
(* The control thread: drives the routes it is handed.                     *)

ControlFrame == <<target, batteryVars, missionVars, planReq, obstacles,
                  sensorVars, plannerVars, clientVars>>

(* An empty path (a stop) is taken and dropped. *)
ControlTake ==
  /\ controlPc = "wait"
  /\ pathReady
  /\ pathReady' = FALSE
  /\ path' = pendingPath
  /\ pendingPath' = <<>>
  /\ controlPc' = IF pendingPath = <<>> THEN "wait" ELSE "moving"
  /\ UNCHANGED <<ControlFrame, position, state, currentPath, waypointArrived, step>>

ControlMoving ==
  /\ controlPc = "moving"
  /\ state' = "MOVING"
  /\ controlPc' = "publish"
  /\ UNCHANGED <<ControlFrame, position, currentPath, pathVars, waypointArrived,
                 path, step>>

(* Mutant of FirstStep: the loop starts one cell too late. *)
FirstStepLate == 3
FirstStep == 2

(* setPath(path); the loop starts behind the cell the robot stands on. *)
ControlPublish ==
  /\ controlPc = "publish"
  /\ currentPath' = path
  /\ step' = FirstStep
  /\ controlPc' = "check"
  /\ UNCHANGED <<ControlFrame, position, state, pathVars, waypointArrived, path>>

(* Mutants of MoreCells: the loop runs one cell too far, or stops short. *)
MoreCellsOver == step <= Len(path) + 1
MoreCellsShort == step < Len(path)
MoreCells == step <= Len(path)

ControlCheck ==
  /\ controlPc = "check"
  /\ controlPc' = IF MoreCells /\ state \in Driving
                  THEN "step" ELSE "signal"
  /\ UNCHANGED <<ControlFrame, position, state, currentPath, pathVars,
                 waypointArrived, path, step>>

(* Mutant of DropPassed: the shown path is not shortened. *)
DropNothing == UNCHANGED currentPath
DropPassed ==
  currentPath' = IF Len(currentPath) > 1 THEN Tail(currentPath) ELSE currentPath

ControlStep ==
  /\ controlPc = "step"
  /\ position' = path[step]
  /\ DropPassed
  /\ step' = step + 1
  /\ controlPc' = "check"
  /\ UNCHANGED <<ControlFrame, state, pathVars, waypointArrived, path>>

(* Mutant of Arrives: an aborted route is not reported. *)
ArrivesAtGoal == waypointArrived' = (step > Len(path))
Arrives == waypointArrived' = TRUE

ControlSignal ==
  /\ controlPc = "signal"
  /\ Arrives
  /\ controlPc' = "clear"
  /\ UNCHANGED <<ControlFrame, position, state, currentPath, pathVars, path, step>>

ControlClear ==
  /\ controlPc = "clear"
  /\ currentPath' = <<>>
  /\ path' = <<>>
  /\ step' = 1
  /\ controlPc' = "wait"
  /\ UNCHANGED <<ControlFrame, position, state, pathVars, waypointArrived>>

Control ==
  \/ ControlTake \/ ControlMoving \/ ControlPublish \/ ControlCheck
  \/ ControlStep \/ ControlSignal \/ ControlClear

-----------------------------------------------------------------------------
Next == Sensor \/ Planner \/ Control \/ \E c \in Clients : Client(c)

Spec == Init /\ [][Next]_vars

(* The threads keep running; a client finishes a command it has begun, but *)
(* nothing obliges it to issue one.                                        *)
Fairness ==
  /\ WF_vars(Sensor)
  /\ WF_vars(Planner)
  /\ WF_vars(Control)
  /\ \A c \in Clients :
       WF_vars(ResetBattery(c) \/ RequestPlan(c) \/ NotifyObstacleChanged(c))

FairSpec == Spec /\ Fairness

-----------------------------------------------------------------------------
(* Types.  The battery never exceeds its capacity.                         *)
TypeOK ==
  /\ position \in Points /\ target \in Points
  /\ state \in RobotState
  /\ currentPath \in Seq(Points)
  /\ battery \in Int /\ battery <= CHARGE_FULL
  /\ chargeMissionActive \in BOOLEAN
  /\ missionQueue \in Seq(Mission)
  /\ currentMission \in Mission
  /\ planReq \in PlanRequest
  /\ pendingPath \in Seq(Points) /\ pathReady \in BOOLEAN
  /\ waypointArrived \in BOOLEAN
  /\ obstacles \subseteq Points
  /\ sensorPc \in {"sample", "drain", "deplete", "charge", "storeCharge",
                   "storeIdle", "chargeEnd", "chargeIdle", "chargeResume",
                   "trigger", "arm", "push", "request"}
  /\ seenState \in RobotState /\ seenBattery \in Int
  /\ plannerPc \in {"wait", "stop", "stopIdle", "stopWake", "fetch", "idle",
                    "depart", "search", "noPath", "retry", "handOver", "await",
                    "advance", "arrived", "rest", "resume"}
  /\ req \in PlanRequest /\ mission \in Mission /\ route \in Seq(Points)
  /\ controlPc \in {"wait", "moving", "publish", "check", "step", "signal", "clear"}
  /\ path \in Seq(Points) /\ step \in Nat \ {0}
  /\ clientPc \in [Clients -> {"idle", "planNext", "stop", "resetStop",
                               "resetBattery", "reset", "notify", "replan"}]
  /\ budget \in [Commands -> Nat]
  /\ stops \in Nat

-----------------------------------------------------------------------------
(* Safety.                                                                 *)

HasRoute == controlPc \in {"moving", "publish", "check", "step", "signal"}

(* The planner and the control thread agree on every route.  While the     *)
(* planner waits for an arrival, the route is in exactly one place: handed *)
(* over, being driven, or reported; and it is nowhere while the planner    *)
(* does not wait.  So no arrival flag is left over from an earlier route,  *)
(* and no route replaces one that is still being driven.                   *)
RouteHandshake ==
  /\ plannerPc = "await" =>
       \/ pendingPath # <<>> /\ pathReady /\ ~HasRoute /\ ~waypointArrived
       \/ pendingPath = <<>> /\ HasRoute /\ ~waypointArrived
       \/ pendingPath = <<>> /\ ~HasRoute /\ waypointArrived
  /\ plannerPc # "await" =>
       pendingPath = <<>> /\ ~HasRoute /\ ~waypointArrived

(* No thread reads past the end of its data: the planner has a waypoint to *)
(* go to or one just reached, and a route to hand over; the control thread *)
(* a next cell to drive to.  With it RouteHandshake is inductive.          *)
ThreadsHold ==
  /\ plannerPc \in {"depart", "search", "handOver", "await", "advance"} =>
       ~IsComplete(mission)
  /\ \A i \in 1 .. Len(missionQueue) : ~IsComplete(missionQueue[i])
  /\ plannerPc = "arrived" => mission.currentWpIdx \in 1 .. Len(mission.waypoints)
  /\ plannerPc = "handOver" => route # <<>>
  /\ controlPc = "step" => step <= Len(path)

(* The path the robot shows, which the collision warning looks ahead on,   *)
(* always begins at the cell the robot is on.                              *)
PathFollowsPosition == currentPath # <<>> => Head(currentPath) = position

(* The queue is ordered by priority, the most urgent mission first, also   *)
(* when the sensor has pushed a charge mission to its front.               *)
QueueByPriority ==
  \A i, j \in 1 .. Len(missionQueue) :
    i < j => missionQueue[i].priority >= missionQueue[j].priority

(* A charge mission is queued or under way, or the robot is charging.      *)
ChargePending ==
  \/ \E i \in 1 .. Len(missionQueue) : missionQueue[i].isChargeMission
  \/ currentMission.isChargeMission /\ ~IsComplete(currentMission)
  \/ mission.isChargeMission /\ plannerPc \in {"advance", "arrived"}
  \/ state = "CHARGING"

(* A robot that finds its battery low either triggers a charge now or has  *)
(* one pending: the flag of an earlier charge never stands in its way.     *)
AutoChargeArmed ==
  /\ sensorPc = "trigger"
  /\ battery <= CHARGE_THRESHOLD
  /\ seenState \in {"IDLE", "MOVING", "ARRIVED"}
  => NeedsCharge \/ ChargePending

-----------------------------------------------------------------------------
(* Action properties.                                                      *)

(* A route takes the robot over adjacent cells only, from where it stood   *)
(* when the route was searched to its end: no cell is skipped.             *)
MovesOneCell ==
  [][position' # position => <<position, position'>> \in Adjacent]_vars

(* No step puts the robot on a cell that is an obstacle at that moment.    *)
NeverOntoObstacle ==
  [][position' # position => position' \notin obstacles]_vars

(* The control thread reports an arrival where the planner awaits it, on   *)
(* the waypoint.  It breaks a route off before only because its battery is *)
(* exhausted, which a reset() may have refilled since, or because the      *)
(* sensor has just ended, on a full battery, a charge that the robot had   *)
(* left for this route.  No stop, obstacle or replan does, nor any state   *)
(* another thread sets.                                                    *)
ArrivesOrBreaksOff ==
  [][controlPc = "check" /\ controlPc' = "signal" =>
       \/ position = CurrentWaypoint(mission).pos
       \/ state = "ERROR" /\ (battery <= 0 \/ budget["resets"] < MaxResets)
       \/ state = "IDLE" /\ battery = CHARGE_FULL]_vars

(* What stop() cancelled is never set out on again: the planner takes up   *)
(* only missions queued after the last stop().                             *)
CancelledStaysCancelled ==
  [][plannerPc = "fetch" /\ plannerPc' = "depart" => mission'.issued = stops]_vars

(* The same of missions that had not been started when stop() was called.  *)
QueuedStaysCancelled ==
  [][plannerPc = "fetch" /\ plannerPc' = "depart" /\ mission'.currentWpIdx = 0 =>
       mission'.issued = stops]_vars

-----------------------------------------------------------------------------
(* Liveness, under FairSpec.                                               *)

(* Every route handed over ends, and the planner learns of it.             *)
RouteEnds == pendingPath # <<>> ~> plannerPc = "advance"

(* Charging ends.                                                          *)
ChargingEnds == state = "CHARGING" ~> state # "CHARGING"

=============================================================================
