---------------------------- MODULE RobotProofs ----------------------------
(* Theorems about Robot, for every grid, battery, priority and bound.      *)
EXTENDS Robot, SequenceTheorems, TLAPS

-----------------------------------------------------------------------------
(* Missions and queues.                                                    *)

LEMMA EmptyType == <<>> \in Seq(Points) /\ <<>> \in Seq(Mission)
  BY EmptySeq

LEMMA NoMissionType == NoMission \in Mission
  BY DEF NoMission, Mission

LEMMA NewMissionType ==
  ASSUME TypeOK, NEW priority \in Int, NEW waypoints \in Seq(Waypoint),
         NEW charge \in BOOLEAN
  PROVE  NewMission(priority, waypoints, charge) \in Mission
  BY DEF NewMission, Mission, TypeOK

LEMMA AdvancedType ==
  ASSUME NEW m \in Mission
  PROVE  /\ Advanced(m) \in Mission
         /\ Advanced(m).waypoints = m.waypoints
         /\ Advanced(m).currentWpIdx = m.currentWpIdx + 1
  BY DEF Advanced, Mission

LEMMA CurrentWaypointType ==
  ASSUME NEW m \in Mission, ~IsComplete(m)
  PROVE  /\ m.currentWpIdx + 1 \in 1 .. Len(m.waypoints)
         /\ CurrentWaypoint(m) \in Waypoint
<1>1. m.waypoints \in Seq(Waypoint) /\ m.currentWpIdx \in Nat
  BY DEF Mission
<1>2. m.currentWpIdx + 1 \in 1 .. Len(m.waypoints)
  BY <1>1, LenProperties DEF IsComplete
<1> QED
  BY <1>1, <1>2, ElementOfSeq DEF CurrentWaypoint

LEMMA InsertedType ==
  ASSUME NEW S, NEW q \in Seq(S), NEW m \in S, NEW k \in 0 .. Len(q)
  PROVE  Inserted(q, m, k) \in Seq(S)
<1>1. SubSeq(q, 1, k) \in Seq(S)
  BY SubSeqProperties, LenProperties, ElementOfSeq
<1>2. SubSeq(q, k + 1, Len(q)) \in Seq(S)
  BY SubSeqProperties, LenProperties, ElementOfSeq
<1>3. <<m>> \in Seq(S)
  OBVIOUS
<1>4. SubSeq(q, 1, k) \o <<m>> \in Seq(S)
  BY <1>1, <1>3, ConcatProperties
<1> QED
  BY <1>2, <1>4, ConcatProperties DEF Inserted

(* A route is a sequence of cells, and not empty. *)
LEMMA RouteType ==
  ASSUME NEW from, NEW to, NEW r \in Routes(from, to)
  PROVE  r \in Seq(Points) /\ r # <<>>
<1>1. PICK n \in 2 .. MaxRouteLen : r \in [1 .. n -> Points \ obstacles]
  BY DEF Routes
<1>2. r \in [1 .. n -> Points]
  BY <1>1
<1>3. n \in Nat /\ n >= 2
  BY GridAssumption
<1>4. r \in Seq(Points) /\ Len(r) = n
  BY <1>2, <1>3
<1> QED
  BY <1>3, <1>4, EmptySeq

-----------------------------------------------------------------------------
(* Type correctness.                                                       *)

LEMMA InitType == Init => TypeOK
<1> SUFFICES ASSUME Init PROVE TypeOK
  OBVIOUS
<1>1. budget \in [Commands -> Nat]
  BY InputAssumption DEF Init, Commands
<1>2. clientPc \in [Clients -> {"idle", "planNext", "stop", "resetStop",
                               "resetBattery", "reset", "notify", "replan"}]
  BY DEF Init
<1>3. battery \in Int /\ battery <= CHARGE_FULL
  BY BatteryAssumption DEF Init
<1>4. /\ currentPath \in Seq(Points) /\ pendingPath \in Seq(Points)
      /\ route \in Seq(Points) /\ path \in Seq(Points)
  BY EmptyType DEF Init
<1>5. missionQueue \in Seq(Mission) /\ currentMission \in Mission /\ mission \in Mission
  BY EmptyType, NoMissionType DEF Init
<1>6. position \in Points /\ target \in Points /\ obstacles \subseteq Points
  BY GridAssumption DEF Init
<1>7. step \in Nat \ {0} /\ stops \in Nat /\ seenBattery \in Int
  BY DEF Init
<1>8. /\ chargeMissionActive \in BOOLEAN /\ pathReady \in BOOLEAN
      /\ waypointArrived \in BOOLEAN
  BY Zenon DEF Init
<1>9. /\ state \in RobotState /\ seenState \in RobotState
      /\ planReq \in PlanRequest /\ req \in PlanRequest
  BY DEF Init, RobotState, PlanRequest
<1> QED
  BY <1>1, <1>2, <1>3, <1>4, <1>5, <1>6, <1>7, <1>8, <1>9 DEF Init, TypeOK

LEMMA EnqueueType ==
  ASSUME TypeOK, NEW m \in Mission, Enqueue(m)
  PROVE  missionQueue' \in Seq(Mission) /\ currentMission' \in Mission
  BY InsertedType DEF Enqueue, TypeOK

LEMMA ClientType ==
  ASSUME TypeOK, NEW c \in Clients, Client(c)
  PROVE  TypeOK'
<1> USE DEF TypeOK, Goto, Spend, Commands, Others, posVars, batteryVars, missionVars,
            pathVars, sensorVars, plannerVars, controlVars
<1>1. CASE MoveTo(c)
  <2>1. PICK p \in MoveTargets \ obstacles :
          Enqueue(NewMission(MOVE_PRIORITY, <<[pos |-> p, label |-> "GOTO"]>>, FALSE))
    BY <1>1 DEF MoveTo
  <2>2. <<[pos |-> p, label |-> "GOTO"]>> \in Seq(Waypoint)
    BY InputAssumption DEF Waypoint, Labels
  <2>3. missionQueue' \in Seq(Mission) /\ currentMission' \in Mission
    BY <2>1, <2>2, NewMissionType, EnqueueType, InputAssumption
  <2> QED
    BY <1>1, <2>3 DEF MoveTo
<1>2. CASE AddMission(c)
  <2>1. PICK in \in MissionInputs :
          Enqueue(NewMission(in.priority, in.waypoints, FALSE))
    BY <1>2 DEF AddMission
  <2>2. in.priority \in Int /\ in.waypoints \in Seq(Waypoint)
    BY InputAssumption DEF MissionInput
  <2>3. missionQueue' \in Seq(Mission) /\ currentMission' \in Mission
    BY <2>1, <2>2, NewMissionType, EnqueueType
  <2> QED
    BY <1>2, <2>3 DEF AddMission
<1>3. CASE Stop(c)
  <2>1. missionQueue' \in Seq(Mission) /\ currentMission' \in Mission
    BY <1>3, EmptyType, NoMissionType DEF Stop, CancelMissions
  <2>2. /\ clientPc' \in [Clients -> {"idle", "planNext", "stop", "resetStop",
                                      "resetBattery", "reset", "notify", "replan"}]
        /\ budget' \in [Commands -> Nat]
    <3>1. CASE Spend({"stops"}) /\ Goto(c, "stop")
      BY <3>1
    <3>2. CASE Spend({"stops", "resets"}) /\ Goto(c, "resetStop")
      BY <3>2
    <3> QED
      BY <1>3, <3>1, <3>2 DEF Stop
  <2>3. stops' \in Nat
    BY <1>3 DEF Stop
  <2>4. chargeMissionActive' \in BOOLEAN
    BY <1>3 DEF Stop
  <2> QED
    BY <1>3, <2>1, <2>2, <2>3, <2>4 DEF Stop
<1>4. CASE ToggleObstacle(c)
  BY <1>4 DEF ToggleObstacle
<1>5. CASE ResetBattery(c)
  BY <1>5, BatteryAssumption DEF ResetBattery
<1>6. CASE RequestPlan(c)
  BY <1>6 DEF RequestPlan, Requested, PlanRequest
<1>7. CASE NotifyObstacleChanged(c)
  BY <1>7 DEF NotifyObstacleChanged
<1> QED
  BY <1>1, <1>2, <1>3, <1>4, <1>5, <1>6, <1>7 DEF Client

LEMMA SensorType ==
  ASSUME TypeOK, Sensor
  PROVE  TypeOK'
<1> USE DEF TypeOK, SensorFrame, EndTick, pathVars, batteryVars, missionVars,
            plannerVars, controlVars, clientVars
<1>1. CASE SensorSample
  BY <1>1 DEF SensorSample
<1>2. CASE SensorDrain
  BY <1>2, BatteryAssumption DEF SensorDrain
<1>3. CASE SensorDeplete
  BY <1>3 DEF SensorDeplete, RobotState
<1>4. CASE SensorCharge
  BY <1>4 DEF SensorCharge
<1>5. CASE SensorStore
  BY <1>5, BatteryAssumption DEF SensorStore, Lesser, RobotState
<1>6. CASE SensorChargeEnd
  BY <1>6 DEF SensorChargeEnd
<1>7. CASE SensorChargeIdle
  BY <1>7 DEF SensorChargeIdle, RobotState
<1>8. CASE SensorChargeResume
  BY <1>8 DEF SensorChargeResume, Resumed, PlanRequest, RobotState
<1>9. CASE SensorTrigger
  BY <1>9 DEF SensorTrigger, RobotState
<1>10. CASE SensorArm
  BY <1>10 DEF SensorArm
<1>11. CASE SensorPush
  <2>1. PICK p \in Chargers :
          missionQueue' =
            <<NewMission(CHARGE_PRIORITY, <<[pos |-> p, label |-> "CHARGE"]>>, TRUE)>>
              \o missionQueue
    BY <1>11 DEF SensorPush
  <2>2. <<[pos |-> p, label |-> "CHARGE"]>> \in Seq(Waypoint)
    BY GridAssumption DEF Waypoint, Labels
  <2>3. NewMission(CHARGE_PRIORITY, <<[pos |-> p, label |-> "CHARGE"]>>, TRUE) \in Mission
    BY <2>2, NewMissionType, InputAssumption
  <2>4. missionQueue' \in Seq(Mission)
    <3> DEFINE m == NewMission(CHARGE_PRIORITY, <<[pos |-> p, label |-> "CHARGE"]>>, TRUE)
    <3>0. m \in Mission
      BY <2>3
    <3> HIDE DEF m
    <3>1. <<m>> \in Seq(Mission)
      BY <3>0
    <3>2. missionQueue \in Seq(Mission)
      OBVIOUS
    <3>3. <<m>> \o missionQueue \in Seq(Mission)
      BY <3>1, <3>2, ConcatProperties
    <3> QED
      BY <2>1, <3>3 DEF m
  <2> QED
    BY <1>11, <2>4, ZenonT(60) DEF SensorPush
<1>12. CASE SensorRequest
  BY <1>12 DEF SensorRequest, PlanRequest, RobotState
<1> QED
  BY <1>1, <1>2, <1>3, <1>4, <1>5, <1>6, <1>7, <1>8, <1>9, <1>10, <1>11, <1>12
  DEF Sensor

LEMMA PlannerType ==
  ASSUME TypeOK, ThreadsHold, Planner
  PROVE  TypeOK'
<1> USE EmptyType, NoMissionType
    DEF TypeOK, PlannerFrame, EndRound, pathVars, batteryVars, missionVars,
        sensorVars, controlVars, clientVars
<1>1. CASE PlannerTake
  BY <1>1 DEF PlannerTake, PlanRequest
<1>2. CASE PlannerStop
  BY <1>2 DEF PlannerStop
<1>3. CASE PlannerStopIdle
  BY <1>3 DEF PlannerStopIdle, RobotState
<1>4. CASE PlannerStopWake
  BY <1>4 DEF PlannerStopWake, PlanRequest
<1>5. CASE PlannerFetch
  <2>1. missionQueue # <<>> =>
          Head(missionQueue) \in Mission /\ Tail(missionQueue) \in Seq(Mission)
    BY HeadTailProperties
  <2>2. mission' \in Mission /\ currentMission' \in Mission /\ missionQueue' \in Seq(Mission)
    BY <1>5, <2>1 DEF PlannerFetch, Depart
  <2>3. req' \in PlanRequest /\ plannerPc' \in {"wait", "idle", "depart"}
    BY <1>5 DEF PlannerFetch, Depart, PlanRequest
  <2> QED
    BY <1>5, <2>2, <2>3 DEF PlannerFetch
<1>6. CASE PlannerIdle
  BY <1>6 DEF PlannerIdle, RobotState, PlanRequest
<1>7. CASE PlannerDepart
  BY <1>7 DEF PlannerDepart, RobotState
<1>8. CASE PlannerSearch
  <2>1. CurrentWaypoint(mission).pos \in Points
    BY <1>8, CurrentWaypointType DEF PlannerSearch, ThreadsHold, Waypoint
  <2>2. route' \in Seq(Points)
    BY <1>8, RouteType DEF PlannerSearch
  <2> QED
    BY <1>8, <2>1, <2>2 DEF PlannerSearch
<1>9. CASE PlannerNoPath
  BY <1>9 DEF PlannerNoPath, RobotState
<1>10. CASE PlannerRetry
  BY <1>10 DEF PlannerRetry, AskItself, PlanRequest
<1>11. CASE PlannerHandOver
  BY <1>11 DEF PlannerHandOver
<1>12. CASE PlannerAwait
  BY <1>12 DEF PlannerAwait, TakeArrival
<1>13. CASE PlannerAdvance
  BY <1>13, AdvancedType DEF PlannerAdvance
<1>14. CASE PlannerArrived
  BY <1>14 DEF PlannerArrived, AskItself, RobotState, PlanRequest
<1>15. CASE PlannerRest
  BY <1>15 DEF PlannerRest, RobotState
<1>16. CASE PlannerResume
  BY <1>16 DEF PlannerResume, Resumed, PlanRequest
<1> QED
  BY <1>1, <1>2, <1>3, <1>4, <1>5, <1>6, <1>7, <1>8, <1>9, <1>10, <1>11, <1>12,
     <1>13, <1>14, <1>15, <1>16
  DEF Planner

LEMMA ControlType ==
  ASSUME TypeOK, ThreadsHold, Control
  PROVE  TypeOK'
<1> USE DEF TypeOK, ControlFrame, pathVars, batteryVars, missionVars,
            sensorVars, plannerVars, clientVars
<1>1. CASE ControlTake
  BY <1>1, EmptyType, ZenonT(60) DEF ControlTake
<1>2. CASE ControlMoving
  BY <1>2 DEF ControlMoving, RobotState
<1>3. CASE ControlPublish
  BY <1>3 DEF ControlPublish, FirstStep
<1>4. CASE ControlCheck
  BY <1>4 DEF ControlCheck
<1>5. CASE ControlStep
  <2>1. path[step] \in Points
    BY <1>5, ElementOfSeq, LenProperties DEF ControlStep, ThreadsHold
  <2>2. currentPath' \in Seq(Points)
    BY <1>5, HeadTailProperties, EmptySeq DEF ControlStep, DropPassed
  <2> QED
    BY <1>5, <2>1, <2>2 DEF ControlStep
<1>6. CASE ControlSignal
  BY <1>6 DEF ControlSignal, Arrives
<1>7. CASE ControlClear
  BY <1>7 DEF ControlClear
<1> QED
  BY <1>1, <1>2, <1>3, <1>4, <1>5, <1>6, <1>7 DEF Control

LEMMA StutterType == TypeOK /\ UNCHANGED vars => TypeOK'
  BY DEF TypeOK, vars, posVars, batteryVars, missionVars, pathVars, sensorVars,
         plannerVars, controlVars, clientVars

-----------------------------------------------------------------------------
(* The waypoints, routes and cells the threads have in hand.               *)

OpenMission == {m \in Mission : ~IsComplete(m)}

LEMMA OpenQueue ==
  ASSUME NEW q
  PROVE  q \in Seq(OpenMission) <=>
           q \in Seq(Mission) /\ \A i \in 1 .. Len(q) : ~IsComplete(q[i])
<1>1. ASSUME q \in Seq(OpenMission)
      PROVE  q \in Seq(Mission) /\ \A i \in 1 .. Len(q) : ~IsComplete(q[i])
  BY <1>1, SeqMonotonic, ElementOfSeq DEF OpenMission
<1>2. ASSUME q \in Seq(Mission), \A i \in 1 .. Len(q) : ~IsComplete(q[i])
      PROVE  q \in Seq(OpenMission)
  <2>1. Len(q) \in Nat /\ q \in [1 .. Len(q) -> Mission]
    BY <1>2, LenProperties
  <2>2. q \in [1 .. Len(q) -> OpenMission]
    BY <1>2, <2>1 DEF OpenMission
  <2> QED
    BY <2>1, <2>2
<1> QED
  BY <1>1, <1>2

LEMMA NewMissionOpen ==
  ASSUME TypeOK, NEW priority \in Int, NEW waypoints \in Seq(Waypoint) \ {<<>>},
         NEW charge \in BOOLEAN
  PROVE  NewMission(priority, waypoints, charge) \in OpenMission
<1> DEFINE m == NewMission(priority, waypoints, charge)
<1>1. m \in Mission
  BY NewMissionType
<1>2. m.currentWpIdx = 0 /\ m.waypoints = waypoints
  BY DEF NewMission
<1>3. Len(waypoints) \in Nat \ {0}
  BY EmptySeq
<1> QED
  BY <1>1, <1>2, <1>3 DEF OpenMission, IsComplete

(* Only clients and the sensor add missions, and never one without a       *)
(* waypoint to go to.                                                      *)
LEMMA ClientQueueOpen ==
  ASSUME TypeOK, missionQueue \in Seq(OpenMission), NEW c \in Clients, Client(c)
  PROVE  missionQueue' \in Seq(OpenMission)
<1>1. ASSUME NEW m \in OpenMission, Enqueue(m)
      PROVE  missionQueue' \in Seq(OpenMission)
  BY <1>1, InsertedType DEF Enqueue
<1>2. CASE MoveTo(c)
  <2>1. PICK p \in MoveTargets \ obstacles :
          Enqueue(NewMission(MOVE_PRIORITY, <<[pos |-> p, label |-> "GOTO"]>>, FALSE))
    BY <1>2 DEF MoveTo
  <2>2. <<[pos |-> p, label |-> "GOTO"]>> \in Seq(Waypoint) \ {<<>>}
    BY InputAssumption DEF Waypoint, Labels
  <2> QED
    BY <1>1, <2>1, <2>2, NewMissionOpen, InputAssumption
<1>3. CASE AddMission(c)
  <2>1. PICK in \in MissionInputs :
          Enqueue(NewMission(in.priority, in.waypoints, FALSE))
    BY <1>3 DEF AddMission
  <2>2. in.priority \in Int /\ in.waypoints \in Seq(Waypoint) \ {<<>>}
    BY InputAssumption DEF MissionInput
  <2> QED
    BY <1>1, <2>1, <2>2, NewMissionOpen
<1>4. CASE Stop(c)
  BY <1>4, EmptySeq DEF Stop, CancelMissions
<1>5. CASE UNCHANGED missionQueue
  BY <1>5
<1> QED
  BY <1>2, <1>3, <1>4, <1>5
  DEF Client, ToggleObstacle, ResetBattery, RequestPlan, NotifyObstacleChanged,
      missionVars

LEMMA SensorQueueOpen ==
  ASSUME TypeOK, missionQueue \in Seq(OpenMission), Sensor
  PROVE  missionQueue' \in Seq(OpenMission)
<1>1. CASE SensorPush
  <2>1. PICK p \in Chargers :
          missionQueue' =
            <<NewMission(CHARGE_PRIORITY, <<[pos |-> p, label |-> "CHARGE"]>>, TRUE)>>
              \o missionQueue
    BY <1>1 DEF SensorPush
  <2> DEFINE m == NewMission(CHARGE_PRIORITY, <<[pos |-> p, label |-> "CHARGE"]>>, TRUE)
  <2>2. <<[pos |-> p, label |-> "CHARGE"]>> \in Seq(Waypoint) \ {<<>>}
    BY GridAssumption DEF Waypoint, Labels
  <2>3. m \in OpenMission
    BY <2>2, NewMissionOpen, InputAssumption
  <2> HIDE DEF m
  <2>4. <<m>> \in Seq(OpenMission)
    BY <2>3
  <2>5. <<m>> \o missionQueue \in Seq(OpenMission)
    BY <2>4, ConcatProperties
  <2> QED
    BY <2>1, <2>5 DEF m
<1>2. CASE UNCHANGED missionQueue
  BY <1>2
<1> QED
  BY <1>1, <1>2
  DEF Sensor, SensorSample, SensorDrain, SensorDeplete, SensorCharge, SensorStore,
      SensorChargeEnd, SensorChargeIdle, SensorChargeResume, SensorTrigger,
      SensorArm, SensorRequest, missionVars

(* The planner only takes missions from the queue. *)
LEMMA PlannerQueueOpen ==
  ASSUME missionQueue \in Seq(OpenMission), Planner
  PROVE  missionQueue' \in Seq(OpenMission)
<1>1. CASE PlannerFetch
  BY <1>1, HeadTailProperties DEF PlannerFetch, missionVars
<1>2. CASE UNCHANGED missionQueue
  BY <1>2
<1> QED
  BY <1>1, <1>2
  DEF Planner, PlannerTake, PlannerStop, PlannerStopIdle, PlannerStopWake,
      PlannerIdle, PlannerDepart, PlannerSearch, PlannerNoPath, PlannerRetry,
      PlannerHandOver, PlannerAwait, PlannerAdvance, PlannerArrived, PlannerRest,
      PlannerResume, missionVars

(* The rest of ThreadsHold, which only the planner and the control thread  *)
(* can disturb.                                                            *)
LEMMA PlannerHolds ==
  ASSUME TypeOK, ThreadsHold, Planner
  PROVE  ThreadsHold'
<1>1. missionQueue \in Seq(OpenMission)
  BY OpenQueue DEF TypeOK, ThreadsHold
<1>2. \A i \in 1 .. Len(missionQueue') : ~IsComplete(missionQueue'[i])
  BY <1>1, PlannerQueueOpen, OpenQueue
<1>3. (controlPc = "step" => MoreCells)'
  BY DEF ThreadsHold, MoreCells, Planner, PlannerFrame, controlVars, PlannerTake,
         PlannerStop, PlannerStopIdle, PlannerStopWake, PlannerFetch, PlannerIdle,
         PlannerDepart, PlannerSearch, PlannerNoPath, PlannerRetry,
         PlannerHandOver, PlannerAwait, PlannerAdvance, PlannerArrived,
         PlannerRest, PlannerResume
<1>4. /\ (plannerPc \in {"depart", "search", "handOver", "await", "advance"} =>
            ~IsComplete(mission))'
      /\ (plannerPc = "arrived" => mission.currentWpIdx \in 1 .. Len(mission.waypoints))'
      /\ (plannerPc = "handOver" => route # <<>>)'
  <2> USE DEF ThreadsHold
  <2>1. CASE PlannerFetch
    <3>1. missionQueue # <<>> => ~IsComplete(Head(missionQueue))
      BY <1>1, HeadTailProperties DEF OpenMission
    <3> QED
      BY <2>1, <3>1 DEF PlannerFetch, ContinuesMission, Depart, EndRound
  <2>2. CASE PlannerSearch
    BY <2>2, RouteType DEF PlannerSearch
  <2>3. CASE PlannerAdvance
    <3>1. mission.currentWpIdx + 1 \in 1 .. Len(mission.waypoints)
      BY <2>3, CurrentWaypointType DEF PlannerAdvance, TypeOK
    <3>2. mission' = Advanced(mission) /\ plannerPc' = "arrived"
      BY <2>3 DEF PlannerAdvance
    <3> QED
      BY <3>1, <3>2, AdvancedType DEF TypeOK
  <2>4. CASE plannerPc' \notin {"depart", "search", "handOver", "await", "advance", "arrived"}
    BY <2>4
  <2>5. CASE PlannerDepart
    BY <2>5 DEF PlannerDepart
  <2>6. CASE PlannerHandOver
    BY <2>6 DEF PlannerHandOver
  <2>7. CASE PlannerAwait
    BY <2>7 DEF PlannerAwait
  <2> QED
    BY <2>1, <2>2, <2>3, <2>4, <2>5, <2>6, <2>7
    DEF Planner, PlannerTake, PlannerStop, PlannerStopIdle, PlannerStopWake,
        PlannerIdle, PlannerNoPath, PlannerRetry, PlannerArrived, PlannerRest,
        PlannerResume, EndRound
<1> QED
  BY <1>2, <1>3, <1>4 DEF ThreadsHold, MoreCells

LEMMA ControlHolds ==
  ASSUME TypeOK, ThreadsHold, Control
  PROVE  ThreadsHold'
<1>1. UNCHANGED <<missionQueue, plannerVars>>
  BY DEF Control, ControlFrame, missionVars, plannerVars, ControlTake,
         ControlMoving, ControlPublish, ControlCheck, ControlStep, ControlSignal,
         ControlClear
<1>2. (controlPc = "step" => MoreCells)'
  BY DEF Control, MoreCells, ControlTake, ControlMoving, ControlPublish,
         ControlCheck, ControlStep, ControlSignal, ControlClear
<1> QED
  BY <1>1, <1>2 DEF ThreadsHold, plannerVars, MoreCells

LEMMA ClientHolds ==
  ASSUME TypeOK, ThreadsHold, NEW c \in Clients, Client(c)
  PROVE  ThreadsHold'
<1>1. \A i \in 1 .. Len(missionQueue') : ~IsComplete(missionQueue'[i])
  BY ClientQueueOpen, OpenQueue DEF TypeOK, ThreadsHold
<1>2. UNCHANGED <<plannerVars, controlVars>>
  BY DEF Client, Others, MoveTo, AddMission, Stop, ToggleObstacle, ResetBattery,
         RequestPlan, NotifyObstacleChanged
<1> QED
  BY <1>1, <1>2 DEF ThreadsHold, plannerVars, controlVars

LEMMA SensorHolds ==
  ASSUME TypeOK, ThreadsHold, Sensor
  PROVE  ThreadsHold'
<1>1. \A i \in 1 .. Len(missionQueue') : ~IsComplete(missionQueue'[i])
  BY SensorQueueOpen, OpenQueue DEF TypeOK, ThreadsHold
<1>2. UNCHANGED <<plannerVars, controlVars>>
  BY DEF Sensor, SensorFrame, SensorSample, SensorDrain, SensorDeplete,
         SensorCharge, SensorStore, SensorChargeEnd, SensorChargeIdle,
         SensorChargeResume, SensorTrigger, SensorArm, SensorPush, SensorRequest
<1> QED
  BY <1>1, <1>2 DEF ThreadsHold, plannerVars, controlVars

-----------------------------------------------------------------------------
(* Type correctness and bounds, as theorems of the specification.          *)

Inv == TypeOK /\ ThreadsHold

LEMMA InvInit == Init => Inv
<1> SUFFICES ASSUME Init PROVE Inv
  OBVIOUS
<1>1. Len(missionQueue) = 0
  BY EmptySeq DEF Init
<1> QED
  BY <1>1, InitType DEF Init, Inv, ThreadsHold

LEMMA InvNext == Inv /\ [Next]_vars => Inv'
<1> SUFFICES ASSUME Inv, [Next]_vars PROVE Inv'
  OBVIOUS
<1> USE DEF Inv
<1>1. CASE Sensor
  BY <1>1, SensorType, SensorHolds
<1>2. CASE Planner
  BY <1>2, PlannerType, PlannerHolds
<1>3. CASE Control
  BY <1>3, ControlType, ControlHolds
<1>4. ASSUME NEW c \in Clients, Client(c) PROVE Inv'
  BY <1>4, ClientType, ClientHolds
<1>5. CASE UNCHANGED vars
  BY <1>5, StutterType
  DEF ThreadsHold, vars, missionVars, plannerVars, controlVars
<1> QED
  BY <1>1, <1>2, <1>3, <1>4, <1>5 DEF Next

LEMMA SpecInv == Spec => []Inv
  BY InvInit, InvNext, PTL DEF Spec

(* Every variable keeps its type, and the battery never exceeds its        *)
(* capacity: Robot.cpp caps each store of a level.                         *)
THEOREM TypeCorrect == Spec => []TypeOK
  BY SpecInv, PTL DEF Inv

(* No thread of Robot.cpp reads past the end of a mission's waypoints or   *)
(* of the path it drives.                                                  *)
THEOREM NoReadPastEnd == Spec => []ThreadsHold
  BY SpecInv, PTL DEF Inv

-----------------------------------------------------------------------------
(* The handshake between the planner and the control thread.               *)

LEMMA HandshakePlanner ==
  ASSUME Inv, RouteHandshake, Planner
  PROVE  RouteHandshake'
<1> USE DEF RouteHandshake, HasRoute
<1>1. UNCHANGED controlPc
  BY DEF Planner, PlannerFrame, controlVars, PlannerTake, PlannerStop,
         PlannerStopIdle, PlannerStopWake, PlannerFetch, PlannerIdle,
         PlannerDepart, PlannerSearch, PlannerNoPath, PlannerRetry,
         PlannerHandOver, PlannerAwait, PlannerAdvance, PlannerArrived,
         PlannerRest, PlannerResume
<1>2. CASE PlannerHandOver
  BY <1>1, <1>2 DEF PlannerHandOver, Inv, ThreadsHold
<1>3. CASE PlannerAwait
  BY <1>1, <1>3 DEF PlannerAwait, TakeArrival, pathVars
<1>4. CASE PlannerStopWake
  BY <1>1, <1>4 DEF PlannerStopWake, EndRound
<1>5. CASE /\ plannerPc # "await" /\ plannerPc' # "await"
           /\ UNCHANGED <<pathVars, waypointArrived>>
  BY <1>1, <1>5 DEF pathVars
<1> QED
  BY <1>2, <1>3, <1>4, <1>5
  DEF Planner, PlannerTake, PlannerStop, PlannerStopIdle, PlannerFetch, Depart,
      PlannerIdle, PlannerDepart, PlannerSearch, PlannerNoPath, PlannerRetry,
      PlannerAdvance, PlannerArrived, PlannerRest, PlannerResume, EndRound

LEMMA HandshakeControl ==
  ASSUME RouteHandshake, Control
  PROVE  RouteHandshake'
<1> USE DEF RouteHandshake, HasRoute, ControlFrame, plannerVars, pathVars
<1>1. CASE ControlTake
  BY <1>1 DEF ControlTake
<1>2. CASE ControlMoving
  BY <1>2 DEF ControlMoving
<1>3. CASE ControlPublish
  BY <1>3 DEF ControlPublish
<1>4. CASE ControlCheck
  BY <1>4 DEF ControlCheck
<1>5. CASE ControlStep
  BY <1>5 DEF ControlStep
<1>6. CASE ControlSignal
  BY <1>6 DEF ControlSignal, Arrives
<1>7. CASE ControlClear
  BY <1>7 DEF ControlClear
<1> QED
  BY <1>1, <1>2, <1>3, <1>4, <1>5, <1>6, <1>7 DEF Control

LEMMA HandshakeOthers ==
  ASSUME RouteHandshake, UNCHANGED <<pathVars, waypointArrived, plannerPc, controlPc>>
  PROVE  RouteHandshake'
  BY DEF RouteHandshake, HasRoute, pathVars

(* Whatever clients, sensor and grid do, the planner and the control       *)
(* thread agree on every route: one at a time, no stale arrival flag.      *)
THEOREM HandshakeHolds == Spec => []RouteHandshake
<1>1. Init => RouteHandshake
  BY DEF Init, RouteHandshake, HasRoute
<1>2. Inv /\ RouteHandshake /\ [Next]_vars => RouteHandshake'
  <2> SUFFICES ASSUME Inv, RouteHandshake, [Next]_vars PROVE RouteHandshake'
    OBVIOUS
  <2>1. CASE Planner
    BY <2>1, HandshakePlanner
  <2>2. CASE Control
    BY <2>2, HandshakeControl
  <2>3. CASE Sensor
    BY <2>3, HandshakeOthers
    DEF Sensor, SensorFrame, plannerVars, controlVars, SensorSample, SensorDrain,
        SensorDeplete, SensorCharge, SensorStore, SensorChargeEnd,
        SensorChargeIdle, SensorChargeResume, SensorTrigger, SensorArm,
        SensorPush, SensorRequest
  <2>4. ASSUME NEW c \in Clients, Client(c) PROVE RouteHandshake'
    BY <2>4, HandshakeOthers
    DEF Client, Others, plannerVars, controlVars, MoveTo, AddMission, Stop,
        ToggleObstacle, ResetBattery, RequestPlan, NotifyObstacleChanged
  <2>5. CASE UNCHANGED vars
    BY <2>5, HandshakeOthers DEF vars, plannerVars, controlVars
  <2> QED
    BY <2>1, <2>2, <2>3, <2>4, <2>5 DEF Next
<1> QED
  BY <1>1, <1>2, SpecInv, PTL DEF Spec

-----------------------------------------------------------------------------
(* The route under way and the robot on it: it is handed over and taken    *)
(* where the robot stands, and while it is driven the shown path is what   *)
(* is left of it.                                                          *)

Linked(r) == \A i \in 1 .. Len(r) - 1 : <<r[i], r[i + 1]>> \in Adjacent

Drivable(r) == r # <<>> /\ r[1] = position /\ Linked(r)

LeftOf(r, k) ==
  /\ Len(currentPath) = Len(r) - k + 1
  /\ \A i \in 1 .. Len(currentPath) : currentPath[i] = r[k - 1 + i]

OnRoute ==
  /\ plannerPc = "handOver" => Drivable(route)
  /\ pendingPath # <<>> => Drivable(pendingPath)
  /\ controlPc \in {"moving", "publish"} => Drivable(path)
  /\ controlPc \in {"wait", "moving", "publish"} => currentPath = <<>>
  /\ controlPc \in {"check", "step"} =>
       /\ Linked(path)
       /\ step \in 2 .. Len(path) + 1
       /\ path[step - 1] = position
       /\ LeftOf(path, step - 1)
  /\ controlPc \in {"signal", "clear"} => PathFollowsPosition

Driven == Inv /\ RouteHandshake /\ OnRoute

LEMMA RouteDrivable ==
  ASSUME NEW to, NEW r \in Routes(position, to)
  PROVE  Drivable(r)
BY RouteType DEF Routes, Drivable, Linked

(* The planner finds routes where the robot stands, and clears the shown   *)
(* path only when nothing is being driven.                                 *)
LEMMA OnRoutePlanner ==
  ASSUME Driven, Planner
  PROVE  OnRoute'
<1> USE DEF Driven, OnRoute, RouteHandshake, HasRoute, Drivable, Linked, LeftOf,
            PathFollowsPosition
<1>1. UNCHANGED <<position, controlVars>>
  BY DEF Planner, PlannerFrame, PlannerTake, PlannerStop,
         PlannerStopIdle, PlannerStopWake, PlannerFetch, PlannerIdle,
         PlannerDepart, PlannerSearch, PlannerNoPath, PlannerRetry,
         PlannerHandOver, PlannerAwait, PlannerAdvance, PlannerArrived,
         PlannerRest, PlannerResume
<1>2. CASE PlannerSearch
  <2>1. plannerPc' = "handOver" => Drivable(route')
    BY <1>2, RouteDrivable DEF PlannerSearch
  <2> QED
    BY <1>1, <1>2, <2>1 DEF PlannerSearch, pathVars, controlVars
<1>3. CASE PlannerHandOver
  BY <1>1, <1>3 DEF PlannerHandOver, controlVars
<1>4. CASE PlannerStop
  <2>1. controlPc \in {"wait", "clear"}
    BY <1>4 DEF PlannerStop, Inv, TypeOK
  <2> QED
    BY <1>1, <1>4, <2>1 DEF PlannerStop, pathVars, controlVars
<1>5. CASE PlannerStopWake
  BY <1>1, <1>5 DEF PlannerStopWake, EndRound, controlVars
<1>6. CASE /\ plannerPc' # "handOver"
           /\ UNCHANGED <<currentPath, pathVars>>
  BY <1>1, <1>6 DEF pathVars, controlVars
<1> QED
  BY <1>2, <1>3, <1>4, <1>5, <1>6
  DEF Planner, PlannerTake, PlannerStopIdle, PlannerFetch, Depart, PlannerIdle,
      PlannerDepart, PlannerNoPath, PlannerRetry, PlannerAwait, PlannerAdvance,
      PlannerArrived, PlannerRest, PlannerResume, EndRound

LEMMA OnRouteControl ==
  ASSUME Driven, Control
  PROVE  OnRoute'
<1> USE DEF Driven, OnRoute, RouteHandshake, HasRoute, Drivable, Linked, LeftOf,
            PathFollowsPosition, ControlFrame, plannerVars, pathVars
<1>0. path \in Seq(Points) /\ currentPath \in Seq(Points) /\ step \in Nat
  BY DEF Inv, TypeOK
<1>1. CASE ControlTake
  BY <1>1 DEF ControlTake
<1>2. CASE ControlMoving
  BY <1>2 DEF ControlMoving
<1>3. CASE ControlPublish
  <2>1. Len(path) \in Nat \ {0}
    BY <1>0, <1>3, EmptySeq DEF ControlPublish
  <2> QED
    BY <1>0, <1>3, <2>1 DEF ControlPublish, FirstStep
<1>4. CASE ControlCheck
  <2>1. Head(currentPath) = position
    BY <1>0, <1>4 DEF ControlCheck
  <2> QED
    BY <1>4, <2>1 DEF ControlCheck
<1>5. CASE ControlStep
  <2>1. /\ step \in 2 .. Len(path) /\ Len(path) \in Nat
        /\ Len(currentPath) > 1 /\ currentPath # <<>>
    BY <1>0, <1>5 DEF ControlStep, Inv, ThreadsHold
  <2>2. /\ Len(Tail(currentPath)) = Len(currentPath) - 1
        /\ \A i \in 1 .. Len(Tail(currentPath)) : Tail(currentPath)[i] = currentPath[i + 1]
    BY <1>0, <2>1
  <2>3. currentPath' = Tail(currentPath)
    BY <1>5, <2>1 DEF ControlStep, DropPassed
  <2>4. plannerPc = "await" /\ pendingPath = <<>>
    BY <1>5 DEF ControlStep, Inv, TypeOK
  <2>5. /\ path' = path /\ step' = step + 1 /\ position' = path[step]
        /\ controlPc' = "check"
        /\ UNCHANGED <<plannerPc, pendingPath, route>>
    BY <1>5 DEF ControlStep
  <2>6. (Linked(path) /\ LeftOf(path, step - 1))'
    BY <1>5, <2>1, <2>2, <2>3, <2>5 DEF ControlStep
  <2> QED
    BY <2>1, <2>4, <2>5, <2>6
<1>6. CASE ControlSignal
  BY <1>6 DEF ControlSignal
<1>7. CASE ControlClear
  BY <1>7 DEF ControlClear
<1> QED
  BY <1>1, <1>2, <1>3, <1>4, <1>5, <1>6, <1>7 DEF Control

LEMMA OnRouteOthers ==
  ASSUME OnRoute,
         UNCHANGED <<position, currentPath, pathVars, plannerPc, route, controlVars>>
  PROVE  OnRoute'
BY DEF OnRoute, Drivable, Linked, LeftOf, PathFollowsPosition, pathVars, controlVars

LEMMA OthersOffRoute ==
  ASSUME Sensor \/ (\E c \in Clients : Client(c)) \/ UNCHANGED vars
  PROVE  /\ UNCHANGED <<position, currentPath, pathVars, waypointArrived>>
         /\ UNCHANGED <<plannerPc, route, controlVars>>
<1>1. CASE Sensor
  BY <1>1
  DEF Sensor, SensorFrame, plannerVars, SensorSample, SensorDrain,
      SensorDeplete, SensorCharge, SensorStore, SensorChargeEnd,
      SensorChargeIdle, SensorChargeResume, SensorTrigger, SensorArm,
      SensorPush, SensorRequest
<1>2. ASSUME NEW c \in Clients, Client(c)
      PROVE  /\ UNCHANGED <<position, currentPath, pathVars, waypointArrived>>
             /\ UNCHANGED <<plannerPc, route, controlVars>>
  BY <1>2
  DEF Client, Others, posVars, plannerVars, MoveTo, AddMission, Stop,
      ToggleObstacle, ResetBattery, RequestPlan, NotifyObstacleChanged
<1>3. CASE UNCHANGED vars
  BY <1>3 DEF vars, posVars, plannerVars
<1> QED
  BY <1>1, <1>2, <1>3

LEMMA SpecDriven == Spec => []Driven
<1>1. Init => RouteHandshake /\ OnRoute
  BY DEF Init, RouteHandshake, HasRoute, OnRoute
<1>2. Inv /\ RouteHandshake /\ OnRoute /\ [Next]_vars => OnRoute'
  <2> SUFFICES ASSUME Driven, [Next]_vars PROVE OnRoute'
    BY DEF Driven
  <2>1. CASE Planner
    BY <2>1, OnRoutePlanner
  <2>2. CASE Control
    BY <2>2, OnRouteControl
  <2>3. CASE Sensor \/ (\E c \in Clients : Client(c)) \/ UNCHANGED vars
    BY <2>3, OthersOffRoute, OnRouteOthers DEF Driven
  <2> QED
    BY <2>1, <2>2, <2>3 DEF Next
<1> QED
  BY <1>1, <1>2, SpecInv, HandshakeHolds, PTL DEF Spec, Driven

(* The path a robot shows, on which the others' handlers look for it,      *)
(* begins at its cell at every moment.                                     *)
THEOREM PathShown == Spec => []PathFollowsPosition
<1>1. Driven => PathFollowsPosition
  <2> SUFFICES ASSUME Driven, currentPath # <<>> PROVE Head(currentPath) = position
    BY DEF PathFollowsPosition
  <2>1. CASE controlPc \in {"signal", "clear"}
    BY <2>1 DEF Driven, OnRoute, PathFollowsPosition
  <2>2. CASE controlPc \in {"check", "step"}
    <3>1. currentPath \in Seq(Points) /\ LeftOf(path, step - 1) /\ path[step - 1] = position
      BY <2>2 DEF Driven, Inv, TypeOK, OnRoute
    <3> QED
      BY <2>2, <3>1 DEF Driven, OnRoute, LeftOf
  <2> QED
    BY <2>1, <2>2 DEF Driven, Inv, TypeOK, OnRoute
<1> QED
  BY <1>1, SpecDriven, PTL

(* The control thread moves the robot over adjacent cells only, whatever   *)
(* stops, obstacles and replans come meanwhile.                            *)
THEOREM NoCellSkipped == Spec => MovesOneCell
<1>1. Driven /\ [Next]_vars =>
        [position' # position => <<position, position'>> \in Adjacent]_vars
  <2> SUFFICES ASSUME Driven, [Next]_vars, position' # position
               PROVE  <<position, position'>> \in Adjacent
    OBVIOUS
  <2>1. ~(Sensor \/ (\E c \in Clients : Client(c)) \/ UNCHANGED vars)
    BY OthersOffRoute
  <2>2. ~Planner
    BY DEF Planner, PlannerFrame, PlannerTake, PlannerStop,
           PlannerStopIdle, PlannerStopWake, PlannerFetch, PlannerIdle,
           PlannerDepart, PlannerSearch, PlannerNoPath, PlannerRetry,
           PlannerHandOver, PlannerAwait, PlannerAdvance, PlannerArrived,
           PlannerRest, PlannerResume
  <2>3. ControlStep
    BY <2>1, <2>2 DEF Next, Control, ControlTake, ControlMoving, ControlPublish,
                      ControlCheck, ControlSignal, ControlClear
  <2>4. /\ position' = path[step] /\ path[step - 1] = position /\ Linked(path)
        /\ step \in 2 .. Len(path) /\ path \in Seq(Points)
    BY <2>3 DEF ControlStep, Driven, OnRoute, Inv, TypeOK, ThreadsHold
  <2> QED
    BY <2>4 DEF Linked
<1> QED
  BY <1>1, SpecDriven, PTL DEF Spec, MovesOneCell

-----------------------------------------------------------------------------
(* The queue of missions.                                                  *)

Descending(q) ==
  \A i, j \in 1 .. Len(q) : i < j => q[i].priority >= q[j].priority

LEMMA InsertedElements ==
  ASSUME NEW S, NEW q \in Seq(S), NEW m \in S, NEW k \in 0 .. Len(q)
  PROVE  /\ Len(Inserted(q, m, k)) = Len(q) + 1
         /\ \A i \in 1 .. k : Inserted(q, m, k)[i] = q[i]
         /\ Inserted(q, m, k)[k + 1] = m
         /\ \A i \in k + 2 .. Len(q) + 1 : Inserted(q, m, k)[i] = q[i - 1]
<1> DEFINE front == SubSeq(q, 1, k)
           back == SubSeq(q, k + 1, Len(q))
<1>1. Len(q) \in Nat /\ k \in Nat /\ k <= Len(q)
  OBVIOUS
<1>2. front \in Seq(S) /\ Len(front) = k /\ \A i \in 1 .. k : front[i] = q[i]
  BY <1>1
<1>3. /\ back \in Seq(S) /\ Len(back) = Len(q) - k
      /\ \A i \in 1 .. Len(q) - k : back[i] = q[k + i]
  BY <1>1
<1> HIDE DEF front, back
<1> DEFINE most == front \o <<m>>
<1>4. /\ most \in Seq(S) /\ Len(most) = k + 1 /\ most[k + 1] = m
      /\ \A i \in 1 .. k : most[i] = q[i]
  BY <1>1, <1>2
<1> HIDE DEF most
<1>5. Inserted(q, m, k) = most \o back
  BY DEF Inserted, front, back, most
<1>6. /\ Len(most \o back) = Len(q) + 1
      /\ \A i \in 1 .. k + 1 : (most \o back)[i] = most[i]
      /\ \A i \in k + 2 .. Len(q) + 1 : (most \o back)[i] = back[i - (k + 1)]
  <2>1. Len(most \o back) = Len(most) + Len(back)
    BY <1>3, <1>4, ConcatProperties
  <2>2. \A i \in 1 .. Len(most) + Len(back) : (most \o back)[i] =
          IF i <= Len(most) THEN most[i] ELSE back[i - Len(most)]
    BY <1>3, <1>4, ConcatProperties
  <2> QED
    BY <1>1, <1>3, <1>4, <2>1, <2>2
<1>7. \A i \in k + 2 .. Len(q) + 1 :
        i - (k + 1) \in 1 .. Len(q) - k /\ k + (i - (k + 1)) = i - 1
  BY <1>1
<1>8. \A i \in k + 2 .. Len(q) + 1 : back[i - (k + 1)] = q[i - 1]
  BY <1>3, <1>7
<1>9. \A i \in 1 .. k : i \in 1 .. k + 1
  BY <1>1
<1>10. k + 1 \in 1 .. k + 1
  BY <1>1
<1> QED
  BY <1>4, <1>5, <1>6, <1>8, <1>9, <1>10

LEMMA InsertedDescending ==
  ASSUME NEW q \in Seq(Mission), NEW m \in Mission, NEW k \in 0 .. Len(q),
         Descending(q), InsertionPoint(q, m, k)
  PROVE  Descending(Inserted(q, m, k))
<1> DEFINE p == [i \in 1 .. Len(q) |-> q[i].priority]
           u == Inserted(q, m, k)
<1>1. Len(q) \in Nat /\ k \in Nat /\ k <= Len(q)
  OBVIOUS
<1>2. m.priority \in Int /\ \A i \in 1 .. Len(q) : p[i] \in Int /\ p[i] = q[i].priority
  <2>1. \A i \in 1 .. Len(q) : q[i] \in Mission
    BY ElementOfSeq
  <2>2. \A x \in Mission : x.priority \in Int
    BY DEF Mission
  <2> QED
    BY <2>1, <2>2
<1>3. /\ \A i \in 1 .. k : p[i] >= m.priority
      /\ \A i \in k + 1 .. Len(q) : p[i] < m.priority
      /\ \A i, j \in 1 .. Len(q) : i < j => p[i] >= p[j]
  BY <1>1, <1>2 DEF InsertionPoint, Descending
<1> HIDE DEF p
<1>4. /\ Len(u) = Len(q) + 1
      /\ \A i \in 1 .. k : u[i].priority = p[i]
      /\ u[k + 1].priority = m.priority
      /\ \A i \in k + 2 .. Len(q) + 1 : u[i].priority = p[i - 1]
  <2>1. /\ Len(u) = Len(q) + 1
        /\ \A i \in 1 .. k : u[i] = q[i]
        /\ u[k + 1] = m
        /\ \A i \in k + 2 .. Len(q) + 1 : u[i] = q[i - 1]
    BY InsertedElements
  <2> HIDE DEF u
  <2>2. /\ \A i \in 1 .. k : i \in 1 .. Len(q)
        /\ \A i \in k + 2 .. Len(q) + 1 : i - 1 \in 1 .. Len(q)
    BY <1>1
  <2> QED
    BY <1>2, <2>1, <2>2
<1> HIDE DEF u
<1>5. ASSUME NEW i \in 1 .. Len(u), NEW j \in 1 .. Len(u), i < j
      PROVE  u[i].priority >= u[j].priority
  <2>1. CASE j <= k
    BY <1>1, <1>2, <1>3, <1>4, <1>5, <2>1
  <2>2. CASE j = k + 1
    BY <1>1, <1>2, <1>3, <1>4, <1>5, <2>2
  <2>3. CASE j > k + 1 /\ i <= k
    BY <1>1, <1>2, <1>3, <1>4, <1>5, <2>3
  <2>4. CASE j > k + 1 /\ i = k + 1
    BY <1>1, <1>2, <1>3, <1>4, <1>5, <2>4
  <2>5. CASE i > k + 1
    BY <1>1, <1>2, <1>3, <1>4, <1>5, <2>5
  <2> QED
    BY <1>1, <1>4, <1>5, <2>1, <2>2, <2>3, <2>4, <2>5
<1> QED
  BY <1>5 DEF Descending, u

(* No command asks for more than an automatic charge does. *)
ChargesFirst ==
  /\ MOVE_PRIORITY <= CHARGE_PRIORITY
  /\ \A in \in MissionInputs : in.priority <= CHARGE_PRIORITY

Modest == {m \in Mission : m.priority <= CHARGE_PRIORITY}

Ranked == missionQueue \in Seq(Modest) /\ Descending(missionQueue)

LEMMA NewMissionModest ==
  ASSUME TypeOK, NEW priority \in Int, NEW waypoints \in Seq(Waypoint),
         NEW charge \in BOOLEAN, priority <= CHARGE_PRIORITY
  PROVE  NewMission(priority, waypoints, charge) \in Modest
BY NewMissionType DEF NewMission, Modest

LEMMA EnqueueRanked ==
  ASSUME Ranked, NEW m \in Modest, Enqueue(m)
  PROVE  Ranked'
<1>1. PICK k \in 0 .. Len(missionQueue) :
        /\ InsertionPoint(missionQueue, m, k)
        /\ missionQueue' = Inserted(missionQueue, m, k)
  BY DEF Enqueue
<1>2. missionQueue \in Seq(Mission) /\ m \in Mission
  BY SeqMonotonic DEF Ranked, Modest
<1>3. missionQueue' \in Seq(Modest)
  BY <1>1, InsertedType DEF Ranked
<1>4. Descending(missionQueue')
  BY <1>1, <1>2, InsertedDescending DEF Ranked
<1> QED
  BY <1>3, <1>4 DEF Ranked, Descending

LEMMA ClientRanked ==
  ASSUME ChargesFirst, TypeOK, Ranked, NEW c \in Clients, Client(c)
  PROVE  Ranked'
<1>1. CASE MoveTo(c)
  <2>1. PICK p \in MoveTargets \ obstacles :
          Enqueue(NewMission(MOVE_PRIORITY, <<[pos |-> p, label |-> "GOTO"]>>, FALSE))
    BY <1>1 DEF MoveTo
  <2>2. <<[pos |-> p, label |-> "GOTO"]>> \in Seq(Waypoint)
    BY InputAssumption DEF Waypoint, Labels
  <2> QED
    BY <2>1, <2>2, NewMissionModest, EnqueueRanked, InputAssumption DEF ChargesFirst
<1>2. CASE AddMission(c)
  <2>1. PICK in \in MissionInputs :
          Enqueue(NewMission(in.priority, in.waypoints, FALSE))
    BY <1>2 DEF AddMission
  <2>2. in.priority \in Int /\ in.waypoints \in Seq(Waypoint)
    BY InputAssumption DEF MissionInput
  <2> QED
    BY <2>1, <2>2, NewMissionModest, EnqueueRanked DEF ChargesFirst
<1>3. CASE missionQueue' = <<>>
  BY <1>3, EmptySeq DEF Ranked, Descending
<1>4. CASE UNCHANGED missionQueue
  BY <1>4 DEF Ranked, Descending
<1> QED
  BY <1>1, <1>2, <1>3, <1>4
  DEF Client, Stop, CancelMissions, ToggleObstacle, ResetBattery, RequestPlan,
      NotifyObstacleChanged, missionVars

LEMMA SensorRanked ==
  ASSUME TypeOK, Ranked, Sensor
  PROVE  Ranked'
<1>1. CASE SensorPush
  <2>1. PICK p \in Chargers :
          missionQueue' =
            <<NewMission(CHARGE_PRIORITY, <<[pos |-> p, label |-> "CHARGE"]>>, TRUE)>>
              \o missionQueue
    BY <1>1 DEF SensorPush
  <2> DEFINE m == NewMission(CHARGE_PRIORITY, <<[pos |-> p, label |-> "CHARGE"]>>, TRUE)
  <2>2. <<[pos |-> p, label |-> "CHARGE"]>> \in Seq(Waypoint)
    BY GridAssumption DEF Waypoint, Labels
  <2>a. CHARGE_PRIORITY \in Int /\ CHARGE_PRIORITY <= CHARGE_PRIORITY
    BY InputAssumption
  <2>b. m \in Modest
    BY <2>a, <2>2, NewMissionModest
  <2>3. m \in Modest /\ m.priority = CHARGE_PRIORITY /\ CHARGE_PRIORITY \in Int
    BY <2>a, <2>b DEF NewMission
  <2> HIDE DEF m
  <2>4. missionQueue' = <<m>> \o missionQueue
    BY <2>1 DEF m
  <2>5. missionQueue \in Seq(Modest) /\ Len(missionQueue) \in Nat
    BY DEF Ranked
  <2>6. /\ missionQueue' \in Seq(Modest)
        /\ Len(missionQueue') = Len(missionQueue) + 1
        /\ missionQueue'[1] = m
        /\ \A i \in 2 .. Len(missionQueue) + 1 : missionQueue'[i] = missionQueue[i - 1]
    BY <2>3, <2>4, <2>5
  <2>7. \A i \in 1 .. Len(missionQueue) :
          missionQueue[i].priority \in Int /\ missionQueue[i].priority <= CHARGE_PRIORITY
    BY <2>5, ElementOfSeq DEF Modest, Mission
  <2>8. Descending(missionQueue)'
    <3> SUFFICES ASSUME NEW i \in 1 .. Len(missionQueue) + 1,
                        NEW j \in 1 .. Len(missionQueue) + 1, i < j
                 PROVE  missionQueue'[i].priority >= missionQueue'[j].priority
      BY <2>6 DEF Descending
    <3>1. CASE i = 1
      <4>1. j - 1 \in 1 .. Len(missionQueue) /\ j \in 2 .. Len(missionQueue) + 1
        BY <2>5, <3>1
      <4>2. missionQueue'[i] = m /\ missionQueue'[j] = missionQueue[j - 1]
        BY <2>6, <3>1, <4>1
      <4>3. missionQueue[j - 1].priority \in Int
            /\ missionQueue[j - 1].priority <= CHARGE_PRIORITY
        BY <2>7, <4>1
      <4> QED
        BY <2>3, <4>2, <4>3
    <3>2. CASE i > 1
      <4>1. /\ i - 1 \in 1 .. Len(missionQueue) /\ j - 1 \in 1 .. Len(missionQueue)
            /\ i - 1 < j - 1
            /\ i \in 2 .. Len(missionQueue) + 1 /\ j \in 2 .. Len(missionQueue) + 1
        BY <2>5, <3>2
      <4>2. missionQueue[i - 1].priority >= missionQueue[j - 1].priority
        BY <4>1 DEF Ranked, Descending
      <4> QED
        BY <2>6, <4>1, <4>2
    <3> QED
      BY <3>1, <3>2
  <2> QED
    BY <2>6, <2>8 DEF Ranked
<1>2. CASE UNCHANGED missionQueue
  BY <1>2 DEF Ranked, Descending
<1> QED
  BY <1>1, <1>2
  DEF Sensor, SensorSample, SensorDrain, SensorDeplete, SensorCharge, SensorStore,
      SensorChargeEnd, SensorChargeIdle, SensorChargeResume, SensorTrigger,
      SensorArm, SensorRequest, missionVars

LEMMA PlannerRanked ==
  ASSUME Ranked, Planner
  PROVE  Ranked'
<1>1. CASE missionQueue # <<>> /\ missionQueue' = Tail(missionQueue)
  <2>1. /\ missionQueue' \in Seq(Modest)
        /\ Len(missionQueue') = Len(missionQueue) - 1
        /\ \A i \in 1 .. Len(missionQueue') : missionQueue'[i] = missionQueue[i + 1]
    BY <1>1 DEF Ranked
  <2> QED
    BY <2>1 DEF Ranked, Descending
<1>2. CASE UNCHANGED missionQueue
  BY <1>2 DEF Ranked, Descending
<1> QED
  BY <1>1, <1>2
  DEF Planner, PlannerTake, PlannerStop, PlannerStopIdle, PlannerStopWake,
      PlannerFetch, PlannerIdle, PlannerDepart, PlannerSearch, PlannerNoPath,
      PlannerRetry, PlannerHandOver, PlannerAwait, PlannerAdvance, PlannerArrived,
      PlannerRest, PlannerResume, missionVars

(* If no command asks for more than an automatic charge does, the queue is *)
(* in the order of urgency at every moment.                                *)
THEOREM QueueOrdered ==
  ASSUME ChargesFirst
  PROVE  Spec => []QueueByPriority
<1>1. Init => Ranked
  <2> SUFFICES ASSUME Init PROVE Ranked
    OBVIOUS
  <2>1. missionQueue = <<>>
    BY DEF Init
  <2> QED
    BY <2>1, EmptySeq DEF Ranked, Descending
<1>2. TypeOK /\ Ranked /\ [Next]_vars => Ranked'
  <2> SUFFICES ASSUME TypeOK, Ranked, [Next]_vars PROVE Ranked'
    OBVIOUS
  <2>1. CASE Control
    BY <2>1 DEF Control, ControlFrame, ControlTake, ControlMoving, ControlPublish,
                ControlCheck, ControlStep, ControlSignal, ControlClear,
                missionVars, Ranked, Descending
  <2>2. CASE UNCHANGED vars
    BY <2>2 DEF vars, missionVars, Ranked, Descending
  <2> QED
    BY <2>1, <2>2, ClientRanked, SensorRanked, PlannerRanked DEF Next
<1>3. Ranked => QueueByPriority
  BY DEF Ranked, Descending, QueueByPriority
<1> QED
  BY <1>1, <1>2, <1>3, TypeCorrect, PTL DEF Spec

-----------------------------------------------------------------------------
(* What a stop() cancels: every mission waiting, and every one taken up    *)
(* but not begun, has been given since the last stop().                    *)

Issued == {m \in Mission : m.issued = stops}

Fresh ==
  /\ missionQueue \in Seq(Issued)
  /\ currentMission # NoMission /\ currentMission.currentWpIdx = 0 =>
       currentMission.issued = stops

LEMMA NewMissionIssued ==
  ASSUME TypeOK, NEW priority \in Int, NEW waypoints \in Seq(Waypoint),
         NEW charge \in BOOLEAN
  PROVE  NewMission(priority, waypoints, charge) \in Issued
BY NewMissionType DEF NewMission, Issued

LEMMA EnqueueFresh ==
  ASSUME Fresh, NEW m \in Issued, Enqueue(m), UNCHANGED stops
  PROVE  Fresh'
<1>1. PICK k \in 0 .. Len(missionQueue) : missionQueue' = Inserted(missionQueue, m, k)
  BY DEF Enqueue
<1>2. missionQueue' \in Seq(Issued)
  BY <1>1, InsertedType DEF Fresh
<1>3. Issued' = Issued /\ UNCHANGED currentMission
  BY DEF Issued, Enqueue
<1> QED
  BY <1>2, <1>3 DEF Fresh

LEMMA ClientFresh ==
  ASSUME TypeOK, Fresh, NEW c \in Clients, Client(c)
  PROVE  Fresh'
<1>1. CASE MoveTo(c)
  <2>1. PICK p \in MoveTargets \ obstacles :
          Enqueue(NewMission(MOVE_PRIORITY, <<[pos |-> p, label |-> "GOTO"]>>, FALSE))
    BY <1>1 DEF MoveTo
  <2>2. <<[pos |-> p, label |-> "GOTO"]>> \in Seq(Waypoint)
    BY InputAssumption DEF Waypoint, Labels
  <2> QED
    BY <1>1, <2>1, <2>2, NewMissionIssued, EnqueueFresh, InputAssumption DEF MoveTo
<1>2. CASE AddMission(c)
  <2>1. PICK in \in MissionInputs :
          Enqueue(NewMission(in.priority, in.waypoints, FALSE))
    BY <1>2 DEF AddMission
  <2>2. in.priority \in Int /\ in.waypoints \in Seq(Waypoint)
    BY InputAssumption DEF MissionInput
  <2> QED
    BY <1>2, <2>1, <2>2, NewMissionIssued, EnqueueFresh DEF AddMission
<1>3. CASE Stop(c)
  BY <1>3, EmptySeq DEF Stop, CancelMissions, Fresh
<1>4. CASE UNCHANGED <<missionVars, stops>>
  BY <1>4 DEF missionVars, Fresh, Issued
<1> QED
  BY <1>1, <1>2, <1>3, <1>4
  DEF Client, ToggleObstacle, ResetBattery, RequestPlan, NotifyObstacleChanged

LEMMA SensorFresh ==
  ASSUME TypeOK, Fresh, Sensor
  PROVE  Fresh'
<1>1. UNCHANGED <<currentMission, stops>>
  BY DEF Sensor, SensorFrame, clientVars, missionVars, SensorSample, SensorDrain,
         SensorDeplete, SensorCharge, SensorStore, SensorChargeEnd,
         SensorChargeIdle, SensorChargeResume, SensorTrigger, SensorArm,
         SensorPush, SensorRequest
<1>2. CASE SensorPush
  <2>1. PICK p \in Chargers :
          missionQueue' =
            <<NewMission(CHARGE_PRIORITY, <<[pos |-> p, label |-> "CHARGE"]>>, TRUE)>>
              \o missionQueue
    BY <1>2 DEF SensorPush
  <2> DEFINE m == NewMission(CHARGE_PRIORITY, <<[pos |-> p, label |-> "CHARGE"]>>, TRUE)
  <2>2. <<[pos |-> p, label |-> "CHARGE"]>> \in Seq(Waypoint)
    BY GridAssumption DEF Waypoint, Labels
  <2>3. m \in Issued
    BY <2>2, NewMissionIssued, InputAssumption
  <2> HIDE DEF m
  <2>4. <<m>> \in Seq(Issued)
    BY <2>3
  <2>5. <<m>> \o missionQueue \in Seq(Issued)
    BY <2>4, ConcatProperties DEF Fresh
  <2>6. missionQueue' \in Seq(Issued)
    BY <2>1, <2>5 DEF m
  <2> QED
    BY <1>1, <2>6 DEF Fresh, Issued
<1>3. CASE UNCHANGED missionQueue
  BY <1>1, <1>3 DEF Fresh, Issued
<1> QED
  BY <1>2, <1>3
  DEF Sensor, SensorSample, SensorDrain, SensorDeplete, SensorCharge, SensorStore,
      SensorChargeEnd, SensorChargeIdle, SensorChargeResume, SensorTrigger,
      SensorArm, SensorRequest, missionVars

(* The planner writes back only missions that have begun. *)
LEMMA PlannerFresh ==
  ASSUME TypeOK, Fresh, Planner
  PROVE  Fresh'
<1>1. UNCHANGED stops
  BY DEF Planner, PlannerFrame, clientVars, PlannerTake, PlannerStop,
         PlannerStopIdle, PlannerStopWake, PlannerFetch, PlannerIdle,
         PlannerDepart, PlannerSearch, PlannerNoPath, PlannerRetry,
         PlannerHandOver, PlannerAwait, PlannerAdvance, PlannerArrived,
         PlannerRest, PlannerResume
<1>2. CASE PlannerFetch
  <2>1. missionQueue # <<>> =>
          Head(missionQueue) \in Issued /\ Tail(missionQueue) \in Seq(Issued)
    BY HeadTailProperties DEF Fresh
  <2>2. \/ UNCHANGED missionVars
        \/ /\ missionQueue # <<>>
           /\ currentMission' = Head(missionQueue)
           /\ missionQueue' = Tail(missionQueue)
    BY <1>2 DEF PlannerFetch
  <2>3. CASE UNCHANGED missionVars
    BY <1>1, <2>3 DEF missionVars, Fresh, Issued
  <2>4. CASE /\ missionQueue # <<>>
             /\ currentMission' = Head(missionQueue)
             /\ missionQueue' = Tail(missionQueue)
    <3>1. Issued' = Issued
      BY <1>1 DEF Issued
    <3>2. missionQueue' \in Seq(Issued) /\ currentMission' \in Issued
      BY <2>1, <2>4
    <3>3. currentMission'.issued = stops'
      BY <1>1, <3>2 DEF Issued
    <3> QED
      BY <3>1, <3>2, <3>3 DEF Fresh
  <2> QED
    BY <2>2, <2>3, <2>4
<1>3. CASE PlannerAdvance
  <2>1. currentMission' = Advanced(mission) /\ missionQueue' = missionQueue
    BY <1>3 DEF PlannerAdvance
  <2>2. mission \in Mission
    BY DEF TypeOK
  <2>3. Advanced(mission).currentWpIdx # 0
    BY <2>2 DEF Advanced, Mission
  <2> QED
    BY <1>1, <2>1, <2>3 DEF Fresh, Issued
<1>4. CASE UNCHANGED missionVars
  BY <1>1, <1>4 DEF missionVars, Fresh, Issued
<1> QED
  BY <1>2, <1>3, <1>4
  DEF Planner, PlannerTake, PlannerStop, PlannerStopIdle, PlannerStopWake,
      PlannerIdle, PlannerDepart, PlannerSearch, PlannerNoPath, PlannerRetry,
      PlannerHandOver, PlannerAwait, PlannerArrived, PlannerRest, PlannerResume

LEMMA SpecFresh == Spec => [](TypeOK /\ Fresh)
<1>1. Init => Fresh
  <2> SUFFICES ASSUME Init PROVE Fresh
    OBVIOUS
  <2>1. missionQueue = <<>> /\ currentMission = NoMission
    BY DEF Init
  <2> QED
    BY <2>1, EmptySeq DEF Fresh
<1>2. TypeOK /\ Fresh /\ [Next]_vars => Fresh'
  <2> SUFFICES ASSUME TypeOK, Fresh, [Next]_vars PROVE Fresh'
    OBVIOUS
  <2>1. CASE Control
    BY <2>1 DEF Control, ControlFrame, ControlTake, ControlMoving, ControlPublish,
                ControlCheck, ControlStep, ControlSignal, ControlClear,
                missionVars, clientVars, Fresh, Issued
  <2>2. CASE UNCHANGED vars
    BY <2>2 DEF vars, missionVars, clientVars, Fresh, Issued
  <2> QED
    BY <2>1, <2>2, ClientFresh, SensorFresh, PlannerFresh DEF Next
<1> QED
  BY <1>1, <1>2, TypeCorrect, PTL DEF Spec

(* A mission that was waiting when stop() was called is never begun: the   *)
(* planner takes it up neither from the queue nor from its own copy.       *)
THEOREM QueuedCancelled == Spec => QueuedStaysCancelled
<1>1. TypeOK /\ Fresh /\ [Next]_vars =>
        [plannerPc = "fetch" /\ plannerPc' = "depart" /\ mission'.currentWpIdx = 0 =>
           mission'.issued = stops]_vars
  <2> SUFFICES ASSUME TypeOK, Fresh, [Next]_vars, plannerPc = "fetch",
                      plannerPc' = "depart", mission'.currentWpIdx = 0
               PROVE  mission'.issued = stops
    OBVIOUS
  <2>1. PlannerFetch
    <3>1. ~(Sensor \/ (\E c \in Clients : Client(c)) \/ UNCHANGED vars)
      BY OthersOffRoute
    <3>2. ~Control
      BY DEF Control, ControlFrame, plannerVars, ControlTake, ControlMoving,
             ControlPublish, ControlCheck, ControlStep, ControlSignal, ControlClear
    <3> QED
      BY <3>1, <3>2 DEF Next, Planner, PlannerTake, PlannerStop, PlannerStopIdle,
             PlannerStopWake, PlannerIdle, PlannerDepart, PlannerSearch,
             PlannerNoPath, PlannerRetry, PlannerHandOver, PlannerAwait,
             PlannerAdvance, PlannerArrived, PlannerRest, PlannerResume
  <2>2. ~IsComplete(currentMission) => currentMission # NoMission
    BY EmptySeq DEF IsComplete, NoMission
  <2>3. CASE Depart(currentMission) /\ currentMission # NoMission
    BY <2>3 DEF Depart, Fresh
  <2>4. CASE Depart(Head(missionQueue)) /\ missionQueue # <<>>
    <3>1. Head(missionQueue) \in Issued
      BY <2>4, HeadTailProperties DEF Fresh
    <3> QED
      BY <2>4, <3>1 DEF Depart, Issued
  <2> QED
    BY <2>1, <2>2, <2>3, <2>4 DEF PlannerFetch, ContinuesMission, EndRound
<1> QED
  BY <1>1, SpecFresh, PTL DEF Spec, QueuedStaysCancelled

-----------------------------------------------------------------------------
(* Where a route ends, and in which state the robot drives it.             *)

EndsAt(r, m) == r # <<>> /\ r[Len(r)] = CurrentWaypoint(m).pos

(* The route the planner found, wherever it now is, leads to the waypoint. *)
ToWaypoint ==
  /\ plannerPc = "handOver" => EndsAt(route, mission)
  /\ pendingPath # <<>> => EndsAt(pendingPath, mission)
  /\ HasRoute => EndsAt(path, mission)

ResetSince == budget["resets"] < MaxResets

AtWheel == controlPc \in {"publish", "check", "step"}

Exhausted == ResetSince \/ (battery <= 0 /\ sensorPc = "sample")
Recharged == battery = CHARGE_FULL /\ sensorPc \in {"chargeResume", "sample", "trigger"}

(* The state of a robot that drives is Driving, or the sensor has set it.  *)
DrivingOrBroken ==
  /\ budget["resets"] <= MaxResets
  /\ \A c \in Clients : clientPc[c] \in {"resetStop", "resetBattery"} => ResetSince
  /\ sensorPc = "deplete" => ResetSince \/ battery <= 0
  /\ sensorPc \in {"chargeEnd", "chargeIdle"} => battery = CHARGE_FULL
  /\ AtWheel => \/ state \in Driving
                \/ state = "ERROR" /\ Exhausted
                \/ state = "IDLE" /\ Recharged

Routed == Driven /\ ToWaypoint /\ DrivingOrBroken

LEMMA RouteToWaypoint ==
  ASSUME NEW m, NEW r \in Routes(position, CurrentWaypoint(m).pos)
  PROVE  EndsAt(r, m)
BY RouteType DEF Routes, EndsAt

LEMMA ToWaypointPlanner ==
  ASSUME Routed, Planner
  PROVE  ToWaypoint'
<1> USE DEF Routed, Driven, ToWaypoint, RouteHandshake, EndsAt, CurrentWaypoint
<1>1. UNCHANGED controlVars
  BY DEF Planner, PlannerFrame, PlannerTake, PlannerStop,
         PlannerStopIdle, PlannerStopWake, PlannerFetch, PlannerIdle,
         PlannerDepart, PlannerSearch, PlannerNoPath, PlannerRetry,
         PlannerHandOver, PlannerAwait, PlannerAdvance, PlannerArrived,
         PlannerRest, PlannerResume
<1>2. HasRoute' = HasRoute
  BY <1>1 DEF HasRoute, controlVars
<1>3. CASE PlannerSearch
  <2>1. plannerPc' = "handOver" => EndsAt(route', mission)
    BY <1>3, RouteToWaypoint DEF PlannerSearch
  <2> QED
    BY <1>1, <1>2, <1>3, <2>1 DEF PlannerSearch, pathVars, controlVars
<1>4. CASE PlannerHandOver
  BY <1>1, <1>2, <1>4 DEF PlannerHandOver, controlVars
<1>5. CASE PlannerStopWake
  BY <1>1, <1>2, <1>5 DEF PlannerStopWake, EndRound, controlVars
<1>6. CASE PlannerAwait
  BY <1>1, <1>2, <1>6 DEF PlannerAwait, TakeArrival, pathVars, controlVars
<1>7. CASE /\ plannerPc # "await" /\ plannerPc' # "handOver"
           /\ UNCHANGED pathVars
  BY <1>1, <1>2, <1>7 DEF pathVars, controlVars
<1> QED
  BY <1>3, <1>4, <1>5, <1>6, <1>7
  DEF Planner, PlannerTake, PlannerStop, PlannerStopIdle, PlannerFetch, Depart,
      PlannerIdle, PlannerDepart, PlannerNoPath, PlannerRetry, PlannerAdvance,
      PlannerArrived, PlannerRest, PlannerResume, EndRound

LEMMA ToWaypointControl ==
  ASSUME Routed, Control
  PROVE  ToWaypoint'
BY DEF Routed, Driven, ToWaypoint, RouteHandshake, EndsAt, CurrentWaypoint, HasRoute,
       Control, ControlFrame, plannerVars, pathVars, ControlTake, ControlMoving,
       ControlPublish, ControlCheck, ControlStep, ControlSignal, ControlClear

LEMMA ToWaypointOthers ==
  ASSUME ToWaypoint, UNCHANGED <<pathVars, plannerPc, route, mission, controlVars>>
  PROVE  ToWaypoint'
BY DEF ToWaypoint, EndsAt, CurrentWaypoint, HasRoute, pathVars, controlVars

(* The planner sets the state of a robot that does not drive only. *)
LEMMA StatePlanner ==
  ASSUME Routed, Planner
  PROVE  DrivingOrBroken'
<1>1. UNCHANGED <<battery, sensorVars, controlVars, clientVars>>
  BY DEF Planner, PlannerFrame, batteryVars, PlannerTake, PlannerStop,
         PlannerStopIdle, PlannerStopWake, PlannerFetch, PlannerIdle,
         PlannerDepart, PlannerSearch, PlannerNoPath, PlannerRetry,
         PlannerHandOver, PlannerAwait, PlannerAdvance, PlannerArrived,
         PlannerRest, PlannerResume
<1>2. CASE UNCHANGED state
  BY <1>1, <1>2 DEF Routed, DrivingOrBroken, ResetSince, AtWheel, Exhausted, Recharged,
                    sensorVars, controlVars, clientVars
<1>3. CASE plannerPc # "await"
  <2>1. ~AtWheel
    BY <1>3 DEF Routed, Driven, RouteHandshake, HasRoute, AtWheel
  <2> QED
    BY <1>1, <2>1 DEF Routed, DrivingOrBroken, ResetSince, AtWheel,
                      sensorVars, controlVars, clientVars
<1> QED
  BY <1>2, <1>3 DEF Planner, PlannerAwait, PlannerTake, PlannerStop,
         PlannerStopIdle, PlannerStopWake, PlannerFetch, PlannerIdle,
         PlannerDepart, PlannerSearch, PlannerNoPath, PlannerRetry,
         PlannerHandOver, PlannerAdvance, PlannerArrived,
         PlannerRest, PlannerResume

LEMMA StateControl ==
  ASSUME Routed, Control
  PROVE  DrivingOrBroken'
<1> USE DEF Routed, DrivingOrBroken, ResetSince, AtWheel, Exhausted, Recharged, Driving,
            ControlFrame, batteryVars, sensorVars, clientVars
<1>1. CASE ControlMoving
  BY <1>1 DEF ControlMoving
<1>2. CASE ControlTake \/ ControlSignal \/ ControlClear
  BY <1>2 DEF ControlTake, ControlSignal, ControlClear
<1>3. CASE ControlPublish \/ ControlCheck \/ ControlStep
  BY <1>3 DEF ControlPublish, ControlCheck, ControlStep
<1> QED
  BY <1>1, <1>2, <1>3 DEF Control

LEMMA StateSensor ==
  ASSUME Routed, Sensor
  PROVE  DrivingOrBroken'
<1> USE DEF Routed, DrivingOrBroken, ResetSince, AtWheel, Exhausted, Recharged, Driving,
            SensorFrame, controlVars, clientVars, batteryVars
<1>1. battery \in Int /\ battery <= CHARGE_FULL
  BY DEF Driven, Inv, TypeOK
<1>2. CASE SensorSample
  BY <1>2 DEF SensorSample
<1>3. CASE SensorDrain
  BY <1>1, <1>3 DEF SensorDrain
<1>4. CASE SensorDeplete
  BY <1>4 DEF SensorDeplete, EndTick
<1>5. CASE SensorCharge
  BY <1>1, <1>5, BatteryAssumption DEF SensorCharge, Charged
<1>6. CASE SensorStore
  BY <1>6 DEF SensorStore, EndTick
<1>7. CASE SensorChargeEnd \/ SensorChargeIdle \/ SensorChargeResume
  BY <1>7 DEF SensorChargeEnd, SensorChargeIdle, SensorChargeResume, EndTick
<1>8. CASE SensorTrigger
  BY <1>1, <1>8, BatteryAssumption DEF SensorTrigger, NeedsCharge, EndTick
<1>9. CASE SensorArm \/ SensorPush \/ SensorRequest
  BY <1>9 DEF SensorArm, SensorPush, SensorRequest, EndTick
<1> QED
  BY <1>2, <1>3, <1>4, <1>5, <1>6, <1>7, <1>8, <1>9 DEF Sensor

(* Commands change the level of the battery only in a reset. *)
LEMMA ClientReset ==
  ASSUME Routed, NEW c \in Clients, Client(c)
  PROVE  /\ budget'["resets"] <= MaxResets /\ (ResetSince => ResetSince')
         /\ \A d \in Clients : clientPc'[d] \in {"resetStop", "resetBattery"} => ResetSince'
         /\ battery' = battery \/ (battery' = CHARGE_FULL /\ ResetSince)
<1> USE DEF Routed, DrivingOrBroken, ResetSince
<1>1. /\ budget \in [Commands -> Nat] /\ "resets" \in Commands /\ MaxResets \in Nat
      /\ clientPc \in [Clients -> {"idle", "planNext", "stop", "resetStop",
                                   "resetBattery", "reset", "notify", "replan"}]
  BY InputAssumption DEF Driven, Inv, TypeOK, Commands
<1>2. \A d \in Clients : clientPc[d] \in {"resetStop", "resetBattery"} =>
                           budget["resets"] < MaxResets
  OBVIOUS
<1>3. ASSUME NEW kinds, Spend(kinds)
      PROVE  /\ budget["resets"] \in Nat /\ budget'["resets"] \in Nat
             /\ budget'["resets"] <= budget["resets"]
             /\ "resets" \in kinds => budget'["resets"] < budget["resets"]
  BY <1>1, <1>3 DEF Spend
<1>4. ASSUME NEW pc, Goto(c, pc)
      PROVE  \A d \in Clients : clientPc'[d] = IF d = c THEN pc ELSE clientPc[d]
  BY <1>1, <1>4 DEF Goto
<1> HIDE DEF Routed, DrivingOrBroken
<1>5. CASE MoveTo(c) \/ AddMission(c) \/ ToggleObstacle(c)
  <2>1. /\ UNCHANGED battery
        /\ \E kinds : Spend(kinds)
        /\ Goto(c, "planNext") \/ Goto(c, "notify")
    BY <1>5 DEF MoveTo, AddMission, ToggleObstacle, batteryVars
  <2> QED
    BY <1>1, <1>2, <1>3, <1>4, <2>1 DEF Routed, DrivingOrBroken
<1>6. CASE Stop(c)
  <2>1. UNCHANGED battery
    BY <1>6 DEF Stop
  <2>2. CASE Spend({"stops"}) /\ Goto(c, "stop")
    BY <1>1, <1>2, <1>3, <1>4, <2>1, <2>2 DEF Routed, DrivingOrBroken
  <2>3. CASE Spend({"stops", "resets"}) /\ Goto(c, "resetStop")
    <3>1. /\ budget["resets"] \in Nat /\ budget'["resets"] \in Nat
          /\ budget'["resets"] < budget["resets"]
      BY <1>3, <2>3
    <3> QED
      BY <1>1, <2>1, <3>1 DEF Routed, DrivingOrBroken
  <2> QED
    BY <1>6, <2>2, <2>3 DEF Stop
<1>7. CASE ResetBattery(c)
  <2>1. clientPc[c] = "resetBattery" /\ battery' = CHARGE_FULL /\ budget' = budget
    BY <1>7 DEF ResetBattery, Goto
  <2> QED
    BY <1>2, <2>1 DEF Routed, DrivingOrBroken
<1>8. CASE RequestPlan(c)
  <2>1. /\ UNCHANGED <<battery, budget>>
        /\ Goto(c, IF clientPc[c] = "resetStop" THEN "resetBattery" ELSE "idle")
    BY <1>8 DEF RequestPlan, batteryVars
  <2>2. \A d \in Clients : clientPc'[d] = "resetBattery" =>
          clientPc[d] \in {"resetStop", "resetBattery"}
    BY <1>4, <2>1
  <2>3. \A d \in Clients : clientPc'[d] = "resetStop" => clientPc[d] = "resetStop"
    BY <1>4, <2>1
  <2> QED
    BY <1>2, <2>1, <2>2, <2>3 DEF Routed, DrivingOrBroken
<1>9. CASE NotifyObstacleChanged(c)
  <2>1. /\ UNCHANGED <<battery, budget>>
        /\ Goto(c, IF state \in Driving THEN "replan" ELSE "idle")
    BY <1>9 DEF NotifyObstacleChanged, batteryVars
  <2>2. \A d \in Clients : clientPc'[d] \in {"resetStop", "resetBattery"} =>
          clientPc[d] \in {"resetStop", "resetBattery"}
    BY <1>4, <2>1
  <2> QED
    BY <1>2, <2>1, <2>2 DEF Routed, DrivingOrBroken
<1> QED
  BY <1>5, <1>6, <1>7, <1>8, <1>9 DEF Client

LEMMA StateClient ==
  ASSUME Routed, NEW c \in Clients, Client(c)
  PROVE  DrivingOrBroken'
<1>1. UNCHANGED <<state, sensorPc, controlPc>>
  BY DEF Client, Others, posVars, sensorVars, controlVars, MoveTo, AddMission, Stop,
         ToggleObstacle, ResetBattery, RequestPlan, NotifyObstacleChanged
<1> QED
  BY <1>1, ClientReset DEF Routed, DrivingOrBroken, AtWheel, Exhausted, Recharged

LEMMA SpecRouted == Spec => []Routed
<1>1. Init => ToWaypoint /\ DrivingOrBroken
  BY InputAssumption DEF Init, ToWaypoint, DrivingOrBroken, HasRoute, AtWheel, ResetSince,
                         Commands
<1>2. Driven /\ ToWaypoint /\ DrivingOrBroken /\ [Next]_vars
        => (ToWaypoint /\ DrivingOrBroken)'
  <2> SUFFICES ASSUME Routed, [Next]_vars PROVE (ToWaypoint /\ DrivingOrBroken)'
    BY DEF Routed
  <2>1. CASE Planner
    BY <2>1, ToWaypointPlanner, StatePlanner
  <2>2. CASE Control
    BY <2>2, ToWaypointControl, StateControl
  <2>3. CASE Sensor
    <3>1. UNCHANGED mission
      BY <2>3 DEF Sensor, SensorFrame, plannerVars, SensorSample, SensorDrain,
          SensorDeplete, SensorCharge, SensorStore, SensorChargeEnd,
          SensorChargeIdle, SensorChargeResume, SensorTrigger, SensorArm,
          SensorPush, SensorRequest
    <3> QED
      BY <2>3, <3>1, OthersOffRoute, ToWaypointOthers, StateSensor DEF Routed
  <2>4. ASSUME NEW c \in Clients, Client(c)
        PROVE  (ToWaypoint /\ DrivingOrBroken)'
    <3>1. UNCHANGED mission
      BY <2>4 DEF Client, Others, plannerVars, MoveTo, AddMission, Stop,
          ToggleObstacle, ResetBattery, RequestPlan, NotifyObstacleChanged
    <3> QED
      BY <2>4, <3>1, OthersOffRoute, ToWaypointOthers, StateClient DEF Routed
  <2>5. CASE UNCHANGED vars
    BY <2>5 DEF vars, posVars, batteryVars, pathVars, sensorVars, plannerVars,
                controlVars, clientVars, Routed, ToWaypoint, EndsAt, CurrentWaypoint,
                HasRoute, DrivingOrBroken, AtWheel, Exhausted, Recharged, ResetSince
  <2> QED
    BY <2>1, <2>2, <2>3, <2>4, <2>5 DEF Next
<1> QED
  BY <1>1, <1>2, SpecDriven, PTL DEF Spec, Routed

(* A robot breaks a route off only on an exhausted battery, or because the *)
(* end of a charge it had left falls into the drive.                       *)
THEOREM RouteEndsAtWaypoint == Spec => ArrivesOrBreaksOff
<1>1. Routed /\ [Next]_vars =>
        [controlPc = "check" /\ controlPc' = "signal" =>
           \/ position = CurrentWaypoint(mission).pos
           \/ state = "ERROR" /\ (battery <= 0 \/ budget["resets"] < MaxResets)
           \/ state = "IDLE" /\ battery = CHARGE_FULL]_vars
  <2> SUFFICES ASSUME Routed, [Next]_vars, controlPc = "check", controlPc' = "signal"
               PROVE  \/ position = CurrentWaypoint(mission).pos
                      \/ state = "ERROR" /\ (battery <= 0 \/ budget["resets"] < MaxResets)
                      \/ state = "IDLE" /\ battery = CHARGE_FULL
    OBVIOUS
  <2>1. ControlCheck
    <3>1. ~(Sensor \/ (\E c \in Clients : Client(c)) \/ UNCHANGED vars)
      BY OthersOffRoute DEF controlVars
    <3>2. ~Planner
      BY DEF Planner, PlannerFrame, controlVars, PlannerTake, PlannerStop,
             PlannerStopIdle, PlannerStopWake, PlannerFetch, PlannerIdle,
             PlannerDepart, PlannerSearch, PlannerNoPath, PlannerRetry,
             PlannerHandOver, PlannerAwait, PlannerAdvance, PlannerArrived,
             PlannerRest, PlannerResume
    <3> QED
      BY <3>1, <3>2 DEF Next, Control, ControlTake, ControlMoving, ControlPublish,
                        ControlStep, ControlSignal, ControlClear
  <2>2. CASE step <= Len(path)
    BY <2>1, <2>2 DEF ControlCheck, MoreCells, Routed, DrivingOrBroken, AtWheel,
                      ResetSince, Exhausted, Recharged
  <2>3. CASE ~(step <= Len(path))
    <3>1. /\ path \in Seq(Points) /\ step \in 2 .. Len(path) + 1
          /\ path[step - 1] = position
      BY DEF Routed, Driven, Inv, TypeOK, OnRoute
    <3>2. path[Len(path)] = CurrentWaypoint(mission).pos
      BY DEF Routed, ToWaypoint, HasRoute, EndsAt
    <3>3. step - 1 = Len(path)
      BY <2>3, <3>1
    <3> QED
      BY <3>1, <3>2, <3>3
  <2> QED
    BY <2>2, <2>3
<1> QED
  BY <1>1, SpecRouted, PTL DEF Spec, ArrivesOrBreaksOff

-----------------------------------------------------------------------------
(* What all missions have in common: what every new mission has, and keeps *)
(* when it advances, is true of all missions wherever they are.            *)

MissionsIn(S) ==
  /\ missionQueue \in Seq(S)
  /\ currentMission \in S \cup {NoMission}
  /\ mission \in S \cup {NoMission}

MoveMission(p) == NewMission(MOVE_PRIORITY, <<[pos |-> p, label |-> "GOTO"]>>, FALSE)
ChargeMission(p) == NewMission(CHARGE_PRIORITY, <<[pos |-> p, label |-> "CHARGE"]>>, TRUE)

ClosedSet(S) ==
  /\ S \subseteq Mission
  /\ \A m \in S : Advanced(m) \in S
  /\ \A p \in MoveTargets : MoveMission(p) \in S
  /\ \A in \in MissionInputs : NewMission(in.priority, in.waypoints, FALSE) \in S
  /\ \A p \in Chargers : ChargeMission(p) \in S

LEMMA ClientMissions ==
  ASSUME NEW S, ClosedSet(S), MissionsIn(S), NEW c \in Clients, Client(c)
  PROVE  MissionsIn(S)'
<1> USE DEF MissionsIn
<1>0. UNCHANGED mission
  BY DEF Client, Others, plannerVars, MoveTo, AddMission, Stop, ToggleObstacle,
         ResetBattery, RequestPlan, NotifyObstacleChanged
<1>1. ASSUME NEW m \in S, Enqueue(m)
      PROVE  MissionsIn(S)'
  BY <1>0, <1>1, InsertedType DEF Enqueue
<1>2. CASE MoveTo(c)
  BY <1>1, <1>2 DEF MoveTo, ClosedSet, MoveMission
<1>3. CASE AddMission(c)
  BY <1>1, <1>3 DEF AddMission, ClosedSet
<1>4. CASE Stop(c)
  BY <1>0, <1>4, EmptySeq DEF Stop, CancelMissions
<1>5. CASE UNCHANGED missionVars
  BY <1>0, <1>5 DEF missionVars
<1> QED
  BY <1>2, <1>3, <1>4, <1>5
  DEF Client, ToggleObstacle, ResetBattery, RequestPlan, NotifyObstacleChanged

LEMMA SensorMissions ==
  ASSUME NEW S, ClosedSet(S), MissionsIn(S), Sensor
  PROVE  MissionsIn(S)'
<1>1. UNCHANGED <<currentMission, mission>>
  BY DEF Sensor, SensorFrame, plannerVars, missionVars, SensorSample, SensorDrain,
         SensorDeplete, SensorCharge, SensorStore, SensorChargeEnd,
         SensorChargeIdle, SensorChargeResume, SensorTrigger, SensorArm,
         SensorPush, SensorRequest
<1>2. CASE SensorPush
  <2>1. PICK p \in Chargers : missionQueue' = <<ChargeMission(p)>> \o missionQueue
    BY <1>2 DEF SensorPush, ChargeMission
  <2>2. PICK m \in S : m = ChargeMission(p)
    BY DEF ClosedSet
  <2>3. <<m>> \o missionQueue \in Seq(S)
    BY ConcatProperties DEF MissionsIn
  <2> QED
    BY <1>1, <2>1, <2>2, <2>3 DEF MissionsIn
<1>3. CASE UNCHANGED missionQueue
  BY <1>1, <1>3 DEF MissionsIn
<1> QED
  BY <1>2, <1>3
  DEF Sensor, SensorSample, SensorDrain, SensorDeplete, SensorCharge, SensorStore,
      SensorChargeEnd, SensorChargeIdle, SensorChargeResume, SensorTrigger,
      SensorArm, SensorRequest, missionVars

LEMMA PlannerMissions ==
  ASSUME NEW S, ClosedSet(S), Inv, MissionsIn(S), Planner
  PROVE  MissionsIn(S)'
<1> USE DEF MissionsIn
<1>1. CASE PlannerFetch
  <2>1. missionQueue # <<>> =>
          Head(missionQueue) \in S /\ Tail(missionQueue) \in Seq(S)
    BY HeadTailProperties
  <2> QED
    BY <1>1, <2>1 DEF PlannerFetch, Depart, EndRound, missionVars
<1>2. CASE PlannerAdvance
  <2>1. mission \in Mission /\ ~IsComplete(mission)
    BY <1>2 DEF PlannerAdvance, Inv, TypeOK, ThreadsHold
  <2>2. mission # NoMission
    BY <2>1, EmptySeq DEF IsComplete, NoMission
  <2>3. Advanced(mission) \in S
    BY <2>2 DEF ClosedSet
  <2> QED
    BY <1>2, <2>3 DEF PlannerAdvance
<1>3. CASE UNCHANGED missionVars /\ (mission' = mission \/ mission' = NoMission)
  BY <1>3 DEF missionVars
<1> QED
  BY <1>1, <1>2, <1>3
  DEF Planner, PlannerTake, PlannerStop, PlannerStopIdle, PlannerStopWake,
      PlannerIdle, PlannerDepart, PlannerSearch, PlannerNoPath, PlannerRetry,
      PlannerHandOver, PlannerAwait, PlannerArrived, PlannerRest, PlannerResume,
      EndRound

LEMMA MissionsKept ==
  ASSUME NEW S, ClosedSet(S), Inv, MissionsIn(S), [Next]_vars
  PROVE  MissionsIn(S)'
<1>1. CASE Control
  BY <1>1 DEF Control, ControlFrame, ControlTake, ControlMoving, ControlPublish,
              ControlCheck, ControlStep, ControlSignal, ControlClear,
              missionVars, plannerVars, MissionsIn
<1>2. CASE UNCHANGED vars
  BY <1>2 DEF vars, missionVars, plannerVars, MissionsIn
<1> QED
  BY <1>1, <1>2, ClientMissions, SensorMissions, PlannerMissions DEF Next

LEMMA MissionsInit ==
  ASSUME NEW S, Init
  PROVE  MissionsIn(S)
BY EmptySeq DEF Init, MissionsIn

(* The missions of moves and automatic charges. *)
LEMMA ShortMissions ==
  ASSUME TypeOK, NEW p \in Points
  PROVE  /\ MoveMission(p) \in Mission /\ ChargeMission(p) \in Mission
         /\ MoveMission(p).waypoints = <<[pos |-> p, label |-> "GOTO"]>>
         /\ ChargeMission(p).waypoints = <<[pos |-> p, label |-> "CHARGE"]>>
         /\ ~MoveMission(p).isChargeMission
<1>1. /\ [pos |-> p, label |-> "GOTO"] \in Waypoint
      /\ [pos |-> p, label |-> "CHARGE"] \in Waypoint
  BY DEF Waypoint, Labels
<1>2. \A w \in Waypoint : <<w>> \in Seq(Waypoint)
  OBVIOUS
<1>3. MoveMission(p) \in Mission /\ ChargeMission(p) \in Mission
  BY <1>1, <1>2, NewMissionType, InputAssumption DEF MoveMission, ChargeMission
<1> QED
  BY <1>3 DEF MoveMission, ChargeMission, NewMission

-----------------------------------------------------------------------------
(* Missions of one waypoint: what the planner writes back at an arrival is *)
(* complete, so no stop() is undone by it.                                 *)

ShortTrips == \A in \in MissionInputs : Len(in.waypoints) = 1

OneWaypoint == {m \in Mission : Len(m.waypoints) = 1}

LEMMA ShortClosed ==
  ASSUME TypeOK, ShortTrips
  PROVE  ClosedSet(OneWaypoint)
<1>1. \A m \in OneWaypoint : Advanced(m) \in OneWaypoint
  BY AdvancedType DEF OneWaypoint
<1>2. ASSUME NEW p \in Points
      PROVE  MoveMission(p) \in OneWaypoint /\ ChargeMission(p) \in OneWaypoint
  <2>1. \A w : Len(<<w>>) = 1
    OBVIOUS
  <2>2. Len(MoveMission(p).waypoints) = 1 /\ Len(ChargeMission(p).waypoints) = 1
    BY <2>1, ShortMissions
  <2> QED
    BY <2>2, ShortMissions DEF OneWaypoint
<1>3. ASSUME NEW in \in MissionInputs
      PROVE  NewMission(in.priority, in.waypoints, FALSE) \in OneWaypoint
  <2>1. in.priority \in Int /\ in.waypoints \in Seq(Waypoint) /\ Len(in.waypoints) = 1
    BY InputAssumption DEF MissionInput, ShortTrips
  <2>2. NewMission(in.priority, in.waypoints, FALSE).waypoints = in.waypoints
    BY DEF NewMission
  <2> QED
    BY <2>1, <2>2, NewMissionType DEF OneWaypoint
<1> QED
  BY <1>1, <1>2, <1>3, GridAssumption, InputAssumption DEF ClosedSet, OneWaypoint

(* With missions of one waypoint only, a stop() is final: what it cancels, *)
(* also the mission under way, is never set out on again, and no request   *)
(* that was still pending brings it back.  A mission of two waypoints is   *)
(* what robot_cancel needs for its counterexample.                         *)
THEOREM StopIsFinal == ShortTrips => (Spec => CancelledStaysCancelled)
<1> SUFFICES ASSUME ShortTrips PROVE Spec => CancelledStaysCancelled
  OBVIOUS
<1>1. Init => MissionsIn(OneWaypoint)
  BY MissionsInit
<1>2. Inv /\ MissionsIn(OneWaypoint) /\ [Next]_vars => MissionsIn(OneWaypoint)'
  BY ShortClosed, MissionsKept DEF Inv
<1>3. /\ Inv /\ MissionsIn(OneWaypoint) /\ [Next]_vars
      /\ [plannerPc = "fetch" /\ plannerPc' = "depart" /\ mission'.currentWpIdx = 0 =>
            mission'.issued = stops]_vars
      => [plannerPc = "fetch" /\ plannerPc' = "depart" => mission'.issued = stops]_vars
  <2> SUFFICES ASSUME Inv, MissionsIn(OneWaypoint), [Next]_vars,
                      plannerPc = "fetch", plannerPc' = "depart"
               PROVE  mission'.currentWpIdx = 0
    BY Zenon
  <2>1. MissionsIn(OneWaypoint)' /\ Inv'
    BY <1>2, InvNext
  <2>2. mission' \in Mission /\ ~IsComplete(mission')
    BY <2>1 DEF Inv, TypeOK, ThreadsHold
  <2>3. mission' # NoMission
    BY <2>2, EmptySeq DEF IsComplete, NoMission
  <2>4. Len(mission'.waypoints) = 1
    BY <2>1, <2>3 DEF MissionsIn, OneWaypoint
  <2> QED
    BY <2>2, <2>4 DEF IsComplete, Mission
<1> QED
  BY <1>1, <1>2, <1>3, SpecInv, QueuedCancelled, PTL
  DEF Spec, QueuedStaysCancelled, CancelledStaysCancelled

-----------------------------------------------------------------------------
(* Obstacles that do not appear while a route is out.                      *)

RouteOut == plannerPc \in {"handOver", "await"}

Unblocked(r) == \A i \in 1 .. Len(r) : r[i] \notin obstacles

RoutesClear ==
  /\ plannerPc = "handOver" => Unblocked(route)
  /\ pendingPath # <<>> => Unblocked(pendingPath)
  /\ HasRoute => Unblocked(path)

LEMMA RouteUnblocked ==
  ASSUME NEW from, NEW to, NEW r \in Routes(from, to)
  PROVE  Unblocked(r)
<1>1. PICK n \in 2 .. MaxRouteLen : r \in [1 .. n -> Points \ obstacles]
  BY DEF Routes
<1>2. n \in Nat
  BY GridAssumption
<1>3. Len(r) = n
  BY <1>1, <1>2
<1> QED
  BY <1>1, <1>3 DEF Unblocked

LEMMA ClearPlanner ==
  ASSUME Driven, RoutesClear, Planner
  PROVE  RoutesClear'
<1> USE DEF Driven, RoutesClear, Unblocked
<1>1. UNCHANGED <<obstacles, controlVars>>
  BY DEF Planner, PlannerFrame, PlannerTake, PlannerStop,
         PlannerStopIdle, PlannerStopWake, PlannerFetch, PlannerIdle,
         PlannerDepart, PlannerSearch, PlannerNoPath, PlannerRetry,
         PlannerHandOver, PlannerAwait, PlannerAdvance, PlannerArrived,
         PlannerRest, PlannerResume
<1>2. HasRoute' = HasRoute
  BY <1>1 DEF HasRoute, controlVars
<1>3. CASE PlannerSearch
  <2>1. plannerPc' = "handOver" => Unblocked(route')
    BY <1>3, RouteUnblocked DEF PlannerSearch
  <2> QED
    BY <1>1, <1>2, <1>3, <2>1 DEF PlannerSearch, pathVars, controlVars
<1>4. CASE PlannerHandOver
  BY <1>1, <1>2, <1>4 DEF PlannerHandOver, controlVars
<1>5. CASE PlannerStopWake
  BY <1>1, <1>2, <1>5 DEF PlannerStopWake, EndRound, controlVars
<1>6. CASE plannerPc' # "handOver" /\ UNCHANGED pathVars
  BY <1>1, <1>2, <1>6 DEF pathVars, controlVars
<1> QED
  BY <1>3, <1>4, <1>5, <1>6
  DEF Planner, PlannerTake, PlannerStop, PlannerStopIdle, PlannerFetch, Depart,
      PlannerIdle, PlannerDepart, PlannerNoPath, PlannerRetry, PlannerAwait,
      PlannerAdvance, PlannerArrived, PlannerRest, PlannerResume, EndRound

LEMMA ClearControl ==
  ASSUME Driven, RoutesClear, Control
  PROVE  RoutesClear'
BY DEF Driven, RoutesClear, Unblocked, HasRoute,
       Control, ControlFrame, plannerVars, pathVars, ControlTake, ControlMoving,
       ControlPublish, ControlCheck, ControlStep, ControlSignal, ControlClear

(* Unless a route is out there is none for an obstacle to fall on.         *)
LEMMA ClearOthers ==
  ASSUME Driven, RoutesClear, RouteOut => obstacles' \subseteq obstacles,
         UNCHANGED <<pathVars, plannerPc, route, controlVars>>
  PROVE  RoutesClear'
<1>1. CASE RouteOut
  BY <1>1 DEF RoutesClear, Unblocked, HasRoute, pathVars, controlVars
<1>2. CASE ~RouteOut
  BY <1>2 DEF RouteOut, Driven, RouteHandshake, RoutesClear, HasRoute, pathVars, controlVars
<1> QED
  BY <1>1, <1>2

(* A robot drives onto an obstacle only if it was put there between the    *)
(* search that found the route and the end of the drive: as long as cells  *)
(* are only freed meanwhile, whatever is added before or after, with any   *)
(* stops and replans, every step is onto a free cell.                      *)
THEOREM ObstaclesAvoided ==
  Spec /\ [][RouteOut => obstacles' \subseteq obstacles]_vars => NeverOntoObstacle
<1>1. Init => RoutesClear
  BY DEF Init, RoutesClear, HasRoute
<1>2. /\ Driven /\ RoutesClear /\ [Next]_vars
      /\ [RouteOut => obstacles' \subseteq obstacles]_vars
      => RoutesClear'
  <2> SUFFICES ASSUME Driven, RoutesClear, [Next]_vars,
                      [RouteOut => obstacles' \subseteq obstacles]_vars
               PROVE  RoutesClear'
    OBVIOUS
  <2>1. CASE Planner
    BY <2>1, ClearPlanner
  <2>2. CASE Control
    BY <2>2, ClearControl
  <2>3. CASE Sensor \/ (\E c \in Clients : Client(c)) \/ UNCHANGED vars
    <3>1. RouteOut => obstacles' \subseteq obstacles
      BY DEF vars
    <3> QED
      BY <2>3, <3>1, OthersOffRoute, ClearOthers
  <2> QED
    BY <2>1, <2>2, <2>3 DEF Next
<1>3. Driven /\ RoutesClear /\ [Next]_vars =>
        [position' # position => position' \notin obstacles]_vars
  <2> SUFFICES ASSUME Driven, RoutesClear, [Next]_vars, position' # position
               PROVE  position' \notin obstacles
    OBVIOUS
  <2>1. ~(Sensor \/ (\E c \in Clients : Client(c)) \/ UNCHANGED vars)
    BY OthersOffRoute
  <2>2. ~Planner
    BY DEF Planner, PlannerFrame, PlannerTake, PlannerStop,
           PlannerStopIdle, PlannerStopWake, PlannerFetch, PlannerIdle,
           PlannerDepart, PlannerSearch, PlannerNoPath, PlannerRetry,
           PlannerHandOver, PlannerAwait, PlannerAdvance, PlannerArrived,
           PlannerRest, PlannerResume
  <2>3. ControlStep
    BY <2>1, <2>2 DEF Next, Control, ControlTake, ControlMoving, ControlPublish,
                      ControlCheck, ControlSignal, ControlClear
  <2>4. /\ position' = path[step] /\ Unblocked(path)
        /\ step \in 1 .. Len(path)
    BY <2>3 DEF ControlStep, Driven, OnRoute, Inv, TypeOK, ThreadsHold, RoutesClear, HasRoute
  <2> QED
    BY <2>4 DEF Unblocked
<1> QED
  BY <1>1, <1>2, <1>3, SpecDriven, PTL DEF Spec, NeverOntoObstacle
-----------------------------------------------------------------------------
(* Automatic charges that are left alone: the flag of a charge is cleared  *)
(* only by the sensor, at the end of charging.                             *)

(* Nothing ends CHARGING but the sensor, and no mission is replanned.      *)
ChargeLeftAlone ==
  /\ state = "CHARGING" /\ state' # "CHARGING" => sensorPc = "chargeIdle"
  /\ planReq' # "REPLAN"

(* Automatic charges are missions of one waypoint, with a charge at it.    *)
ToCharger == {m \in Mission : m.isChargeMission =>
                Len(m.waypoints) = 1 /\ m.waypoints[1].label = "CHARGE"}

ChargeKept ==
  /\ planReq # "REPLAN" /\ req # "REPLAN"
  /\ plannerPc \in {"depart", "search", "handOver", "await", "advance"} =>
       currentMission \in {mission, NoMission}
  /\ sensorPc = "chargeIdle" => ~chargeMissionActive
  /\ chargeMissionActive => sensorPc = "push" \/ ChargePending

Watched == Inv /\ MissionsIn(ToCharger) /\ ChargeKept

LEMMA ChargersClosed ==
  ASSUME TypeOK
  PROVE  ClosedSet(ToCharger)
<1>1. \A m \in ToCharger : Advanced(m) \in ToCharger
  <2>1. \A m \in Mission : Advanced(m).isChargeMission = m.isChargeMission
    BY DEF Advanced, Mission
  <2> QED
    BY <2>1, AdvancedType DEF ToCharger
<1>2. ASSUME NEW p \in Points
      PROVE  MoveMission(p) \in ToCharger /\ ChargeMission(p) \in ToCharger
  <2>1. /\ Len(<<[pos |-> p, label |-> "CHARGE"]>>) = 1
        /\ <<[pos |-> p, label |-> "CHARGE"]>>[1].label = "CHARGE"
    OBVIOUS
  <2>2. Len(ChargeMission(p).waypoints) = 1 /\ ChargeMission(p).waypoints[1].label = "CHARGE"
    BY <2>1, ShortMissions
  <2> QED
    BY <2>2, ShortMissions DEF ToCharger
<1>3. ASSUME NEW in \in MissionInputs
      PROVE  NewMission(in.priority, in.waypoints, FALSE) \in ToCharger
  <2>1. in.priority \in Int /\ in.waypoints \in Seq(Waypoint)
    BY InputAssumption DEF MissionInput
  <2>2. ~NewMission(in.priority, in.waypoints, FALSE).isChargeMission
    BY DEF NewMission
  <2> QED
    BY <2>1, <2>2, NewMissionType DEF ToCharger
<1> QED
  BY <1>1, <1>2, <1>3, GridAssumption, InputAssumption DEF ClosedSet, ToCharger

Queued(q) == \E i \in 1 .. Len(q) : q[i].isChargeMission

LEMMA InsertedQueued ==
  ASSUME NEW q \in Seq(Mission), NEW m \in Mission, NEW k \in 0 .. Len(q), Queued(q)
  PROVE  Queued(Inserted(q, m, k))
<1> DEFINE u == Inserted(q, m, k)
<1>1. PICK i \in 1 .. Len(q) : q[i].isChargeMission
  BY DEF Queued
<1>0. Len(q) \in Nat /\ k \in Nat
  OBVIOUS
<1>2. /\ Len(u) = Len(q) + 1
      /\ \A j \in 1 .. k : u[j] = q[j]
      /\ \A j \in k + 2 .. Len(q) + 1 : u[j] = q[j - 1]
  BY InsertedElements
<1> HIDE DEF u
<1>3. CASE i <= k
  BY <1>0, <1>1, <1>2, <1>3 DEF Queued, u
<1>4. CASE i > k
  <2>1. i + 1 \in k + 2 .. Len(q) + 1 /\ (i + 1) - 1 = i
    BY <1>0, <1>1, <1>2, <1>4
  <2>2. u[i + 1] = q[i]
    BY <1>2, <2>1
  <2>3. i + 1 \in 1 .. Len(u)
    BY <1>2, <2>1
  <2> QED
    BY <1>1, <2>2, <2>3 DEF Queued, u
<1> QED
  BY <1>0, <1>1, <1>3, <1>4

(* A command adds missions; the one that takes them away clears the flag.  *)
LEMMA ChargeClient ==
  ASSUME Watched, NEW c \in Clients, Client(c), ChargeLeftAlone
  PROVE  ChargeKept'
<1> USE DEF Watched
<1>1. /\ UNCHANGED <<state, req, plannerPc, mission, sensorPc>>
      /\ planReq' # "REPLAN"
  BY DEF ChargeLeftAlone, Client, Others, posVars, sensorVars, plannerVars, MoveTo, AddMission,
         Stop, ToggleObstacle, ResetBattery, RequestPlan, NotifyObstacleChanged
<1>2. CASE Stop(c)
  BY <1>1, <1>2 DEF Stop, CancelMissions, ChargeKept
<1>3. CASE /\ UNCHANGED <<currentMission, chargeMissionActive>>
           /\ Queued(missionQueue) => Queued(missionQueue')
  BY <1>1, <1>3 DEF ChargeKept, ChargePending, Queued, IsComplete
<1>4. ASSUME NEW m \in Mission, Enqueue(m)
      PROVE  /\ UNCHANGED currentMission
             /\ Queued(missionQueue) => Queued(missionQueue')
  BY <1>4, InsertedQueued DEF Enqueue, Inv, TypeOK
<1>5. CASE MoveTo(c)
  <2>1. \A p \in MoveTargets : MoveMission(p) \in Mission
    BY ShortMissions, InputAssumption DEF Inv
  <2> QED
    BY <1>3, <1>4, <1>5, <2>1 DEF MoveTo, MoveMission, batteryVars
<1>6. CASE AddMission(c)
  <2>1. \A in \in MissionInputs : NewMission(in.priority, in.waypoints, FALSE) \in Mission
    BY NewMissionType, InputAssumption DEF Inv, MissionInput
  <2> QED
    BY <1>3, <1>4, <1>6, <2>1 DEF AddMission, batteryVars
<1>7. CASE UNCHANGED <<missionVars, chargeMissionActive>>
  BY <1>3, <1>7 DEF missionVars
<1> QED
  BY <1>2, <1>5, <1>6, <1>7
  DEF Client, ToggleObstacle, ResetBattery, RequestPlan, NotifyObstacleChanged, batteryVars

(* Arming is followed by a push, and the end of charging by disarming.     *)
LEMMA ChargeSensor ==
  ASSUME Watched, Sensor, ChargeLeftAlone
  PROVE  ChargeKept'
<1> USE DEF Watched, SensorFrame, plannerVars
<1>1. /\ UNCHANGED <<req, plannerPc, mission, currentMission>>
      /\ planReq' # "REPLAN"
  BY DEF ChargeLeftAlone, Sensor, missionVars, SensorSample, SensorDrain,
         SensorDeplete, SensorCharge, SensorStore, SensorChargeEnd,
         SensorChargeIdle, SensorChargeResume, SensorTrigger, SensorArm,
         SensorPush, SensorRequest
<1>2. CASE SensorPush
  <2>1. PICK p \in Chargers : missionQueue' = <<ChargeMission(p)>> \o missionQueue
    BY <1>2 DEF SensorPush, ChargeMission
  <2>2. PICK m \in Mission : m = ChargeMission(p)
    BY ShortMissions, GridAssumption DEF Inv
  <2>3. missionQueue \in Seq(Mission) /\ m.isChargeMission
    BY <2>2 DEF Inv, TypeOK, ChargeMission, NewMission
  <2>4. Len(<<m>> \o missionQueue) = 1 + Len(missionQueue) /\ (<<m>> \o missionQueue)[1] = m
    BY <2>3
  <2>5. Queued(missionQueue')
    BY <2>1, <2>2, <2>3, <2>4 DEF Queued
  <2> QED
    BY <1>1, <1>2, <2>5 DEF SensorPush, ChargeKept, ChargePending, Queued
<1>3. CASE SensorArm
  BY <1>1, <1>3 DEF SensorArm, ChargeKept
<1>4. CASE SensorChargeEnd \/ SensorChargeIdle
  BY <1>1, <1>4 DEF SensorChargeEnd, SensorChargeIdle, batteryVars, ChargeKept
<1>5. CASE /\ UNCHANGED <<missionQueue, chargeMissionActive>>
           /\ sensorPc # "push" /\ sensorPc' # "chargeIdle" /\ sensorPc # "chargeIdle"
  <2>1. ChargePending => ChargePending'
    BY <1>1, <1>5 DEF ChargePending, IsComplete, ChargeLeftAlone
  <2> QED
    BY <1>1, <1>5, <2>1 DEF ChargeKept
<1> QED
  BY <1>2, <1>3, <1>4, <1>5
  DEF Sensor, SensorSample, SensorDrain, SensorDeplete, SensorCharge, SensorStore,
      SensorChargeResume, SensorTrigger, SensorRequest, missionVars, batteryVars, EndTick

(* The mission goes from the queue to the current one and from there to    *)
(* the charger, whatever the planner does.                                 *)
LEMMA ChargePlanner ==
  ASSUME Watched, Planner, ChargeLeftAlone
  PROVE  ChargeKept'
<1> USE DEF Watched
<1>1. /\ UNCHANGED <<batteryVars, sensorVars>>
      /\ planReq' # "REPLAN"
  BY DEF ChargeLeftAlone, Planner, PlannerFrame, PlannerTake, PlannerStop,
         PlannerStopIdle, PlannerStopWake, PlannerFetch, PlannerIdle,
         PlannerDepart, PlannerSearch, PlannerNoPath, PlannerRetry,
         PlannerHandOver, PlannerAwait, PlannerAdvance, PlannerArrived,
         PlannerRest, PlannerResume
<1>2. state = "CHARGING" => state' = "CHARGING" \/ sensorPc = "chargeIdle"
  BY DEF ChargeLeftAlone
<1>3. SUFFICES /\ req' # "REPLAN"
               /\ plannerPc' \in {"depart", "search", "handOver", "await", "advance"} =>
                    currentMission' \in {mission', NoMission}
               /\ ChargePending => ChargePending' \/ sensorPc = "chargeIdle"
  BY <1>1 DEF ChargeKept, batteryVars, sensorVars
<1>4. CASE PlannerFetch
  <2>1. missionQueue \in Seq(Mission)
    BY DEF Inv, TypeOK
  <2>2. ASSUME missionQueue # <<>>, Queued(missionQueue)
        PROVE  Head(missionQueue).isChargeMission \/ Queued(Tail(missionQueue))
    <3>1. PICK i \in 1 .. Len(missionQueue) : missionQueue[i].isChargeMission
      BY <2>2 DEF Queued
    <3>2. CASE i = 1
      BY <2>1, <2>2, <3>1, <3>2, HeadTailProperties
    <3>3. CASE i # 1
      <4>1. Len(missionQueue) \in Nat /\ i \in Nat
        BY <2>1
      <4>2. i - 1 \in 1 .. Len(missionQueue) - 1 /\ (i - 1) + 1 = i
        BY <3>3, <4>1
      <4>3. i - 1 \in 1 .. Len(Tail(missionQueue))
        BY <2>1, <2>2, <4>2, HeadTailProperties
      <4>4. Tail(missionQueue)[i - 1] = missionQueue[i]
        BY <2>1, <2>2, <4>2, <4>3, HeadTailProperties
      <4> QED
        BY <3>1, <4>3, <4>4 DEF Queued
    <3> QED
      BY <3>2, <3>3
  <2>3. missionQueue # <<>> => ~IsComplete(Head(missionQueue))
    BY <2>1, HeadTailProperties DEF Inv, ThreadsHold
  <2>4. req # "REPLAN" /\ UNCHANGED state
    BY <1>4 DEF PlannerFetch, ChargeKept
  <2>5. CASE UNCHANGED missionVars
    BY <1>4, <2>4, <2>5 DEF PlannerFetch, Depart, EndRound, missionVars, ChargePending, IsComplete
  <2>6. CASE ~UNCHANGED missionVars
    <3>1. /\ ~ContinuesMission /\ missionQueue # <<>> /\ Depart(Head(missionQueue))
          /\ currentMission' = Head(missionQueue) /\ missionQueue' = Tail(missionQueue)
      BY <1>4, <2>6 DEF PlannerFetch
    <3>2. IsComplete(currentMission)
      BY <2>4, <3>1 DEF ContinuesMission
    <3>3. ChargePending => Queued(missionQueue) \/ state = "CHARGING"
      BY <1>4, <3>2 DEF ChargePending, Queued, PlannerFetch
    <3>4. ChargePending => ChargePending'
      BY <2>2, <2>3, <2>4, <3>1, <3>3 DEF ChargePending, Queued, IsComplete
    <3> QED
      BY <3>1, <3>4 DEF Depart
  <2> QED
    BY <2>5, <2>6
<1>5. CASE PlannerAdvance
  <2>1. /\ mission' = Advanced(mission) /\ currentMission' = Advanced(mission)
        /\ plannerPc = "advance" /\ plannerPc' = "arrived"
        /\ UNCHANGED <<state, missionQueue, req>>
    BY <1>5 DEF PlannerAdvance
  <2>2. currentMission.isChargeMission => currentMission = mission
    BY <2>1 DEF ChargeKept, NoMission
  <2>3. Advanced(mission).isChargeMission = mission.isChargeMission
    BY DEF Advanced, Inv, TypeOK, Mission
  <2> QED
    BY <2>1, <2>2, <2>3 DEF ChargePending, ChargeKept
<1>6. CASE PlannerArrived
  <2>1. /\ plannerPc = "arrived" /\ plannerPc' \in {"wait", "rest"}
        /\ UNCHANGED <<missionQueue, currentMission>> /\ req' \in {req, "NONE"}
    BY <1>6 DEF PlannerArrived, EndRound, missionVars
  <2>2. mission.isChargeMission => ReachedLabel(mission) = "CHARGE"
    <3> SUFFICES ASSUME mission.isChargeMission PROVE ReachedLabel(mission) = "CHARGE"
      OBVIOUS
    <3>1. mission \in ToCharger
      BY DEF MissionsIn, NoMission
    <3>2. Len(mission.waypoints) = 1 /\ mission.waypoints[1].label = "CHARGE"
      BY <3>1 DEF ToCharger
    <3>3. mission.currentWpIdx = 1
      BY <2>1, <3>2 DEF Inv, ThreadsHold
    <3> QED
      BY <3>2, <3>3 DEF ReachedLabel
  <2>3. mission.isChargeMission => state' = "CHARGING"
    BY <1>6, <2>2 DEF PlannerArrived
  <2> QED
    BY <1>2, <2>1, <2>3 DEF ChargePending, IsComplete, ChargeKept
<1>7. CASE PlannerTake
  BY <1>7 DEF PlannerTake, missionVars, ChargeKept, ChargePending, IsComplete
<1>8. CASE /\ UNCHANGED missionVars /\ plannerPc \notin {"advance", "arrived"}
           /\ req' \in {req, "NONE"}
           /\ plannerPc' \in {"depart", "search", "handOver", "await", "advance"} =>
                /\ plannerPc \in {"depart", "search", "handOver", "await", "advance"}
                /\ mission' = mission
  BY <1>2, <1>8 DEF missionVars, ChargeKept, ChargePending, IsComplete
<1> QED
  BY <1>4, <1>5, <1>6, <1>7, <1>8
  DEF Planner, PlannerStop, PlannerStopIdle, PlannerStopWake, PlannerIdle,
      PlannerDepart, PlannerSearch, PlannerNoPath, PlannerRetry, PlannerHandOver,
      PlannerAwait, PlannerRest, PlannerResume, EndRound

LEMMA ChargeControl ==
  ASSUME Watched, Control \/ UNCHANGED vars, ChargeLeftAlone \/ UNCHANGED vars
  PROVE  ChargeKept'
<1>1. UNCHANGED <<req, plannerPc, mission, missionVars, sensorPc, chargeMissionActive, planReq>>
  BY DEF Control, ControlFrame, sensorVars, batteryVars, plannerVars, vars, ControlTake,
         ControlMoving, ControlPublish, ControlCheck, ControlStep, ControlSignal, ControlClear
<1>2. state = "CHARGING" => state' = "CHARGING" \/ sensorPc = "chargeIdle"
  BY DEF ChargeLeftAlone, vars, posVars
<1> QED
  BY <1>1, <1>2 DEF Watched, missionVars, ChargeKept, ChargePending, IsComplete

(* A robot that finds its battery low charges, or has a charge ahead of    *)
(* it, as long as nothing but the sensor ends CHARGING and no replan drops *)
(* the current mission: no order of arming, pushing, stopping, fetching    *)
(* and arriving leaves the flag behind.                                    *)
THEOREM ChargingArmed ==
  Spec /\ [][ChargeLeftAlone]_vars => []AutoChargeArmed
<1>1. Init => MissionsIn(ToCharger) /\ ChargeKept
  BY MissionsInit DEF Init, ChargeKept
<1>2. Watched /\ [Next]_vars /\ [ChargeLeftAlone]_vars => (MissionsIn(ToCharger) /\ ChargeKept)'
  <2> SUFFICES ASSUME Watched, [Next]_vars, [ChargeLeftAlone]_vars
               PROVE  MissionsIn(ToCharger)' /\ ChargeKept'
    OBVIOUS
  <2>1. MissionsIn(ToCharger)'
    BY ChargersClosed, MissionsKept DEF Watched, Inv
  <2>2. CASE UNCHANGED vars
    BY <2>1, <2>2, ChargeControl
  <2>3. CASE Next /\ ChargeLeftAlone
    BY <2>1, <2>3, ChargeClient, ChargeSensor, ChargePlanner, ChargeControl DEF Next
  <2> QED
    BY <2>1, <2>2, <2>3
<1>3. Watched => AutoChargeArmed
  BY DEF Watched, ChargeKept, AutoChargeArmed, NeedsCharge
<1> QED
  BY <1>1, <1>2, <1>3, SpecInv, PTL DEF Spec, Watched

=============================================================================
