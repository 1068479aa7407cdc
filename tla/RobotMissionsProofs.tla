------------------------ MODULE RobotMissionsProofs ------------------------
(* Robot implements Missions, for every grid, battery and set of missions, *)
(* if nobody stops the robot or changes its grid and no mission is more    *)
(* urgent than a charge.                                                   *)
EXTENDS RobotMissions, RobotProofs, FiniteSetTheorems

(* What RobotMissions is about. *)
LeftAlone == MaxStops = 0 /\ MaxToggles = 0

-----------------------------------------------------------------------------
(* A queue that another has become by the insertion of one mission.        *)

Holding(q, t) == {i \in 1 .. Len(q) : Task(q[i]) = t}

GrownBy(u, q, m, k) ==
  /\ Len(u) = Len(q) + 1
  /\ \A i \in 1 .. k : u[i] = q[i]
  /\ u[k + 1] = m
  /\ \A i \in k + 2 .. Len(q) + 1 : u[i] = q[i - 1]

LEMMA HoldingFinite ==
  ASSUME NEW q, Len(q) \in Nat, NEW t
  PROVE  IsFiniteSet(Holding(q, t)) /\ Cardinality(Holding(q, t)) \in Nat
<1>1. IsFiniteSet(1 .. Len(q))
  BY FS_Interval
<1>2. Holding(q, t) \in SUBSET (1 .. Len(q))
  BY DEF Holding
<1>3. IsFiniteSet(Holding(q, t))
  BY <1>1, <1>2, FS_Subset
<1> QED
  BY <1>3, FS_CardinalityType

(* One copy more of the task of the mission, and as many of every other.   *)
LEMMA OneMore ==
  ASSUME NEW q, NEW u, NEW m, NEW t, Len(q) \in Nat,
         NEW k \in 0 .. Len(q), GrownBy(u, q, m, k)
  PROVE  Cardinality(Holding(u, t)) =
           IF Task(m) = t THEN Cardinality(Holding(q, t)) + 1
                          ELSE Cardinality(Holding(q, t))
<1> DEFINE f == [i \in Holding(q, t) |-> IF i <= k THEN i ELSE i + 1]
           rest == Holding(u, t) \ {k + 1}
<1>1. f \in Bijection(Holding(q, t), rest)
  <2>1. \A i \in Holding(q, t) : f[i] \in rest
    BY DEF Holding, GrownBy
  <2>2. \A i, j \in Holding(q, t) : f[i] = f[j] => i = j
    BY DEF Holding
  <2>3. \A j \in rest : \E i \in Holding(q, t) : f[i] = j
    <3> SUFFICES ASSUME NEW j \in rest PROVE \E i \in Holding(q, t) : f[i] = j
      OBVIOUS
    <3>1. j \in 1 .. Len(q) + 1 /\ j # k + 1
      BY DEF Holding, GrownBy
    <3>2. CASE j <= k
      <4>1. j \in Holding(q, t)
        BY <3>1, <3>2 DEF Holding, GrownBy
      <4> QED
        BY <3>2, <4>1
    <3>3. CASE j > k
      <4>1. j - 1 \in Holding(q, t) /\ ~(j - 1 <= k) /\ (j - 1) + 1 = j
        BY <3>1, <3>3 DEF Holding, GrownBy
      <4> QED
        BY <4>1
    <3> QED
      BY <3>1, <3>2, <3>3
  <2> HIDE DEF f, rest
  <2>4. f \in [Holding(q, t) -> rest]
    BY <2>1 DEF f
  <2> QED
    BY <2>2, <2>3, <2>4 DEF Bijection, Injection, Surjection, IsInjective
<1> HIDE DEF f
<1>2. Cardinality(rest) = Cardinality(Holding(q, t))
  BY <1>1, HoldingFinite, FS_Bijection DEF ExistsBijection
<1>3. IsFiniteSet(Holding(u, t)) /\ Cardinality(Holding(u, t)) \in Nat
  BY HoldingFinite DEF GrownBy
<1>4. Cardinality(rest) = IF k + 1 \in Holding(u, t) THEN Cardinality(Holding(u, t)) - 1
                                                     ELSE Cardinality(Holding(u, t))
  BY <1>3, FS_RemoveElement
<1>5. k + 1 \in Holding(u, t) <=> Task(m) = t
  BY DEF Holding, GrownBy
<1> QED
  BY <1>2, <1>3, <1>4, <1>5

LEMMA CopiesCounted ==
  ASSUME NEW q, NEW u, NEW m, Len(q) \in Nat,
         NEW k \in 0 .. Len(q), GrownBy(u, q, m, k)
  PROVE  \A t \in Asked :
           /\ Copies(q)[t] \in Nat
           /\ Copies(u)[t] = IF Task(m) = t THEN Copies(q)[t] + 1 ELSE Copies(q)[t]
<1>1. ASSUME NEW t \in Asked
      PROVE  /\ Copies(u)[t] = Cardinality(Holding(u, t))
             /\ Copies(q)[t] = Cardinality(Holding(q, t))
             /\ Copies(q)[t] \in Nat
  BY HoldingFinite DEF Copies, Holding
<1> QED
  BY <1>1, OneMore

LEMMA CopiesGrown ==
  ASSUME NEW q, NEW u, NEW m, Len(q) \in Nat,
         NEW k \in 0 .. Len(q), GrownBy(u, q, m, k)
  PROVE  Copies(u) = [Copies(q) EXCEPT ![Task(m)] = @ + 1]
<1> DEFINE cu == Copies(u)
           cq == Copies(q)
           n == Task(m)
<1>1. /\ cu = [t \in Asked |-> cu[t]]
      /\ cq = [t \in Asked |-> cq[t]]
  BY DEF Copies
<1>2. \A t \in Asked : cq[t] \in Nat /\ cu[t] = IF n = t THEN cq[t] + 1 ELSE cq[t]
  BY CopiesCounted
<1> HIDE DEF cu, cq, n
<1>3. cu = [cq EXCEPT ![n] = @ + 1]
  BY <1>1, <1>2
<1> QED
  BY <1>3 DEF cu, cq, n

LEMMA CopiesShrunk ==
  ASSUME NEW q, NEW u, NEW m, Len(q) \in Nat, GrownBy(u, q, m, 0)
  PROVE  Copies(q) = [Copies(u) EXCEPT ![Task(m)] = @ - 1]
<1> DEFINE cu == Copies(u)
           cq == Copies(q)
           n == Task(m)
<1>1. /\ cu = [t \in Asked |-> cu[t]]
      /\ cq = [t \in Asked |-> cq[t]]
  BY DEF Copies
<1>2. \A t \in Asked : cq[t] \in Nat /\ cu[t] = IF n = t THEN cq[t] + 1 ELSE cq[t]
  <2>1. 0 \in 0 .. Len(q)
    OBVIOUS
  <2> QED
    BY <2>1, CopiesCounted
<1> HIDE DEF cu, cq, n
<1>3. cq = [cu EXCEPT ![n] = @ - 1]
  BY <1>1, <1>2
<1> QED
  BY <1>3 DEF cu, cq, n

(* Counting tells what is in a queue. *)
LEMMA CopiesOf ==
  ASSUME NEW q, Len(q) \in Nat, NEW t \in Asked
  PROVE  Copies(q)[t] > 0 <=> \E i \in 1 .. Len(q) : Task(q[i]) = t
<1>1. IsFiniteSet(Holding(q, t)) /\ Cardinality(Holding(q, t)) \in Nat
  BY HoldingFinite
<1>2. Cardinality(Holding(q, t)) = 0 <=> Holding(q, t) = {}
  BY <1>1, FS_EmptySet
<1>3. Copies(q)[t] = Cardinality(Holding(q, t))
  BY DEF Copies, Holding
<1> QED
  BY <1>1, <1>2, <1>3 DEF Holding

-----------------------------------------------------------------------------
(* A robot left alone.                                                     *)

(* Missions nobody has begun, of what the robot was asked for. *)
Untouched == {m \in Mission : m.currentWpIdx = 0 /\ Task(m) \in Asked}

(* Where the planner holds the mission it is on. *)
OnMission == {"depart", "search", "handOver", "await", "advance"}

(* Without stops and changes of the grid nobody asks for a replan.         *)
Calm ==
  /\ budget["stops"] = 0 /\ budget["toggles"] = 0
  /\ \A c \in Clients : clientPc[c] \notin {"notify", "replan"}
  /\ planReq # "REPLAN" /\ req # "REPLAN"

Undisturbed ==
  /\ Calm
  /\ missionQueue \in Seq(Untouched)
  /\ currentMission.currentWpIdx <= Len(currentMission.waypoints)
  /\ plannerPc \in OnMission => mission = currentMission

Kept == Inv /\ QueueByPriority /\ Undisturbed

(* A mission is queued behind k others. *)
QueuedAt(m, k) ==
  /\ missionQueue' \in Seq(Untouched)
  /\ m \in Untouched
  /\ k \in 0 .. Len(missionQueue)
  /\ GrownBy(missionQueue', missionQueue, m, k)
  /\ UNCHANGED currentMission

LEMMA QueuedIsAsked ==
  ASSUME Undisturbed, NEW m, NEW k, QueuedAt(m, k)
  PROVE  Promise!Ask
<1>1. Len(missionQueue) \in Nat /\ Task(m) \in Asked
  BY DEF Undisturbed, QueuedAt, Untouched
<1>2. Copies(missionQueue') = [Copies(missionQueue) EXCEPT ![Task(m)] = @ + 1]
  BY <1>1, CopiesGrown DEF QueuedAt
<1>3. Copies(missionQueue)' = Copies(missionQueue')
  BY DEF Copies, Asked, Task, Going
<1> QED
  BY <1>1, <1>2, <1>3 DEF Promise!Ask, QueuedAt, Task

LEMMA UntouchedType ==
  ASSUME TypeOK, NEW priority \in Int, NEW waypoints \in Seq(Waypoint),
         NEW charge \in BOOLEAN,
         [priority |-> priority, waypoints |-> waypoints] \in Asked
  PROVE  NewMission(priority, waypoints, charge) \in Untouched
BY NewMissionType DEF NewMission, Untouched, Task

LEMMA EnqueueQueues ==
  ASSUME Undisturbed, NEW m \in Untouched, Enqueue(m)
  PROVE  \E k : QueuedAt(m, k)
<1>1. PICK k \in 0 .. Len(missionQueue) : missionQueue' = Inserted(missionQueue, m, k)
  BY DEF Enqueue
<1>2. missionQueue \in Seq(Untouched)
  BY DEF Undisturbed
<1>3. missionQueue' \in Seq(Untouched)
  BY <1>1, <1>2, InsertedType
<1>4. GrownBy(missionQueue', missionQueue, m, k)
  BY <1>1, <1>2, InsertedElements DEF GrownBy
<1> QED
  BY <1>1, <1>3, <1>4 DEF QueuedAt, Enqueue

(* Commands queue missions, and nothing else. *)
LEMMA ClientAsks ==
  ASSUME TypeOK, Undisturbed, NEW c \in Clients, Client(c)
  PROVE  (\E m, k : QueuedAt(m, k)) \/ UNCHANGED missionVars
<1>1. CASE MoveTo(c)
  <2>1. PICK p \in MoveTargets \ obstacles :
          Enqueue(NewMission(MOVE_PRIORITY, Going(p, "GOTO"), FALSE))
    BY <1>1 DEF MoveTo, Going
  <2>2. /\ Going(p, "GOTO") \in Seq(Waypoint) /\ MOVE_PRIORITY \in Int
        /\ [priority |-> MOVE_PRIORITY, waypoints |-> Going(p, "GOTO")] \in Asked
    BY InputAssumption DEF Waypoint, Labels, Going, Asked
  <2>3. NewMission(MOVE_PRIORITY, Going(p, "GOTO"), FALSE) \in Untouched
    BY <2>2, UntouchedType
  <2> QED
    BY <2>1, <2>3, EnqueueQueues
<1>2. CASE AddMission(c)
  <2>1. PICK in \in MissionInputs :
          Enqueue(NewMission(in.priority, in.waypoints, FALSE))
    BY <1>2 DEF AddMission
  <2>2. /\ in.waypoints \in Seq(Waypoint) /\ in.priority \in Int
        /\ [priority |-> in.priority, waypoints |-> in.waypoints] \in Asked
    BY InputAssumption DEF MissionInput, Asked
  <2>3. NewMission(in.priority, in.waypoints, FALSE) \in Untouched
    BY <2>2, UntouchedType
  <2> QED
    BY <2>1, <2>3, EnqueueQueues
<1>3. ~Stop(c)
  BY DEF Undisturbed, Calm, Stop, Spend
<1> QED
  BY <1>1, <1>2, <1>3
  DEF Client, ToggleObstacle, ResetBattery, RequestPlan, NotifyObstacleChanged

LEMMA SensorAsks ==
  ASSUME TypeOK, Undisturbed, Sensor
  PROVE  (\E m, k : QueuedAt(m, k)) \/ UNCHANGED missionVars
<1>1. CASE SensorPush
  <2>1. PICK p \in Chargers :
          missionQueue' =
            <<NewMission(CHARGE_PRIORITY, Going(p, "CHARGE"), TRUE)>> \o missionQueue
    BY <1>1 DEF SensorPush, Going
  <2> DEFINE m == NewMission(CHARGE_PRIORITY, Going(p, "CHARGE"), TRUE)
  <2>2. /\ Going(p, "CHARGE") \in Seq(Waypoint) /\ CHARGE_PRIORITY \in Int
        /\ [priority |-> CHARGE_PRIORITY, waypoints |-> Going(p, "CHARGE")] \in Asked
    BY GridAssumption, InputAssumption DEF Waypoint, Labels, Going, Asked
  <2>3. m \in Untouched
    BY <2>2, UntouchedType
  <2> HIDE DEF m
  <2>4. missionQueue \in Seq(Untouched) /\ Len(missionQueue) \in Nat
    BY DEF Undisturbed
  <2>5. <<m>> \in Seq(Untouched) /\ Len(<<m>>) = 1 /\ <<m>>[1] = m
    BY <2>3
  <2>6. /\ <<m>> \o missionQueue \in Seq(Untouched)
        /\ Len(<<m>> \o missionQueue) = Len(missionQueue) + 1
        /\ \A i \in 1 .. Len(missionQueue) + 1 :
             (<<m>> \o missionQueue)[i] = IF i <= 1 THEN <<m>>[i] ELSE missionQueue[i - 1]
    BY <2>4, <2>5, ConcatProperties
  <2>7. GrownBy(<<m>> \o missionQueue, missionQueue, m, 0)
    BY <2>4, <2>5, <2>6 DEF GrownBy
  <2>8. missionQueue' = <<m>> \o missionQueue /\ UNCHANGED currentMission
    BY <1>1, <2>1 DEF SensorPush, m
  <2>9. QueuedAt(m, 0)
    BY <2>3, <2>4, <2>6, <2>7, <2>8 DEF QueuedAt
  <2> QED
    BY <2>9
<1>2. CASE UNCHANGED missionVars
  BY <1>2
<1> QED
  BY <1>1, <1>2
  DEF Sensor, SensorSample, SensorDrain, SensorDeplete, SensorCharge, SensorStore,
      SensorChargeEnd, SensorChargeIdle, SensorChargeResume, SensorTrigger,
      SensorArm, SensorRequest

LEMMA ClientCalm ==
  ASSUME TypeOK, Calm, NEW c \in Clients, Client(c)
  PROVE  Calm'
<1>1. /\ clientPc \in [Clients -> {"idle", "planNext", "stop", "resetStop",
                                   "resetBattery", "reset", "notify", "replan"}]
      /\ {"stops", "toggles"} \subseteq Commands
  BY DEF TypeOK, Commands
<1>2. ASSUME NEW pc, Goto(c, pc)
      PROVE  \A d \in Clients : clientPc'[d] = IF d = c THEN pc ELSE clientPc[d]
  BY <1>1, <1>2 DEF Goto
<1>3. UNCHANGED req
  BY DEF Client, Others, plannerVars, MoveTo, AddMission, Stop, ToggleObstacle,
         ResetBattery, RequestPlan, NotifyObstacleChanged
<1>4. CASE MoveTo(c) \/ AddMission(c)
  <2>1. Spend({"missions"}) /\ Goto(c, "planNext") /\ UNCHANGED planReq
    BY <1>4 DEF MoveTo, AddMission
  <2>2. budget'["stops"] = 0 /\ budget'["toggles"] = 0
    BY <1>1, <2>1 DEF Spend, Calm
  <2> QED
    BY <1>2, <1>3, <2>1, <2>2 DEF Calm
<1>5. CASE ResetBattery(c)
  <2>1. Goto(c, "reset") /\ UNCHANGED <<planReq, budget>>
    BY <1>5 DEF ResetBattery
  <2> QED
    BY <1>2, <1>3, <2>1 DEF Calm
<1>6. CASE RequestPlan(c)
  <2>1. /\ planReq' = Requested(clientPc[c]) /\ UNCHANGED budget
        /\ clientPc[c] \in {"planNext", "stop", "resetStop", "reset"}
        /\ Goto(c, IF clientPc[c] = "resetStop" THEN "resetBattery" ELSE "idle")
    BY <1>6 DEF RequestPlan, Calm
  <2>2. planReq' # "REPLAN"
    BY <2>1 DEF Requested
  <2>3. \A d \in Clients : clientPc'[d] \notin {"notify", "replan"}
    BY <1>2, <2>1 DEF Calm
  <2> QED
    BY <1>3, <2>1, <2>2, <2>3 DEF Calm
<1>7. ~(Stop(c) \/ ToggleObstacle(c) \/ NotifyObstacleChanged(c))
  BY DEF Calm, Stop, ToggleObstacle, NotifyObstacleChanged, Spend
<1> QED
  BY <1>4, <1>5, <1>6, <1>7 DEF Client

LEMMA ThreadsCalm ==
  ASSUME Calm, Sensor \/ Planner \/ Control \/ UNCHANGED vars
  PROVE  Calm'
<1> USE DEF Calm, clientVars
<1>1. CASE Sensor
  BY <1>1 DEF Sensor, SensorFrame, plannerVars, SensorSample, SensorDrain,
         SensorDeplete, SensorCharge, SensorStore, SensorChargeEnd,
         SensorChargeIdle, SensorChargeResume, SensorTrigger, SensorArm,
         SensorPush, SensorRequest, Resumed
<1>2. CASE Planner
  BY <1>2 DEF Planner, PlannerFrame, PlannerTake, PlannerStop,
         PlannerStopIdle, PlannerStopWake, PlannerFetch, PlannerIdle,
         PlannerDepart, PlannerSearch, PlannerNoPath, PlannerRetry,
         PlannerHandOver, PlannerAwait, PlannerAdvance, PlannerArrived,
         PlannerRest, PlannerResume, EndRound, Depart, AskItself, Resumed
<1>3. CASE Control
  BY <1>3 DEF Control, ControlFrame, plannerVars, ControlTake, ControlMoving,
         ControlPublish, ControlCheck, ControlStep, ControlSignal, ControlClear
<1>4. CASE UNCHANGED vars
  BY <1>4 DEF vars, plannerVars
<1> QED
  BY <1>1, <1>2, <1>3, <1>4

-----------------------------------------------------------------------------
(* The planner begins missions and reaches their waypoints. *)

Seen == <<Copies(missionQueue), Task(currentMission), currentMission.currentWpIdx>>

LEMMA SeenUnchanged ==
  ASSUME UNCHANGED missionVars
  PROVE  UNCHANGED Seen
BY DEF missionVars, Seen, Copies, Asked, Task, Going

LEMMA FirstBegins ==
  ASSUME Kept, IsComplete(currentMission), missionQueue # <<>>,
         currentMission' = Head(missionQueue), missionQueue' = Tail(missionQueue)
  PROVE  Promise!Begin
<1> DEFINE m == missionQueue[1]
<1>1. /\ missionQueue \in Seq(Untouched) /\ Len(missionQueue) \in Nat \ {0}
      /\ m \in Untouched
  BY EmptySeq DEF Kept, Undisturbed
<1>2. /\ Len(Tail(missionQueue)) = Len(missionQueue) - 1
      /\ \A i \in 1 .. Len(missionQueue) - 1 : Tail(missionQueue)[i] = missionQueue[i + 1]
  BY <1>1
<1>3. GrownBy(missionQueue, missionQueue', m, 0)
  BY <1>1, <1>2 DEF GrownBy
<1>4. Copies(missionQueue)' = [Copies(missionQueue) EXCEPT ![Task(m)] = @ - 1]
  <2>1. 0 \in 0 .. Len(missionQueue') /\ Len(missionQueue') \in Nat
    BY <1>1, <1>2
  <2> DEFINE rest == missionQueue'
  <2> HIDE DEF m, rest
  <2>2. Len(rest) \in Nat /\ GrownBy(missionQueue, rest, m, 0)
    BY <1>3, <2>1 DEF rest
  <2>3. Copies(rest) = [Copies(missionQueue) EXCEPT ![Task(m)] = @ - 1]
    BY <2>2, CopiesShrunk
  <2>4. Copies(missionQueue)' = Copies(missionQueue')
    BY DEF Copies, Asked, Task, Going
  <2> QED
    BY <2>3, <2>4 DEF rest
<1>5. Task(m) \in Asked /\ m.currentWpIdx = 0
  BY <1>1 DEF Untouched
<1>6. Copies(missionQueue)[Task(m)] > 0
  BY <1>1, <1>5, CopiesOf
<1>7. ASSUME NEW t \in Asked, Copies(missionQueue)[t] > 0
      PROVE  t.priority <= Task(m).priority
  <2>1. PICK i \in 1 .. Len(missionQueue) : Task(missionQueue[i]) = t
    BY <1>1, <1>7, CopiesOf
  <2>2. missionQueue[1].priority >= missionQueue[i].priority
    <3>1. missionQueue[1].priority \in Int
      BY <1>1 DEF Untouched, Mission
    <3> QED
      BY <1>1, <2>1, <3>1 DEF Kept, QueueByPriority
  <2>3. missionQueue[i] \in Untouched
    BY <1>1, <2>1, ElementOfSeq
  <2>4. /\ missionQueue[i].priority \in Int /\ m.priority \in Int
        /\ t.priority = missionQueue[i].priority /\ Task(m).priority = m.priority
    BY <1>1, <2>1, <2>3 DEF Task, Untouched, Mission
  <2> QED
    BY <2>2, <2>4
<1>8. currentMission.currentWpIdx = Len(currentMission.waypoints)
  <2>1. currentMission.currentWpIdx \in Nat /\ Len(currentMission.waypoints) \in Nat
    BY DEF Kept, Inv, TypeOK, Mission
  <2> QED
    BY <2>1 DEF Kept, Undisturbed, IsComplete
<1>9. currentMission' = m
  BY <1>1
<1> HIDE DEF m
<1> QED
  BY <1>4, <1>5, <1>6, <1>7, <1>8, <1>9 DEF Promise!Begin, Task

LEMMA PlannerKeeps ==
  ASSUME Kept, Planner
  PROVE  /\ Undisturbed'
         /\ Promise!Begin \/ Promise!Reach \/ UNCHANGED Seen
<1>1. Calm'
  BY ThreadsCalm DEF Kept, Undisturbed
<1>2. CASE PlannerFetch /\ ContinuesMission
  <2>1. UNCHANGED missionVars /\ mission' = currentMission
    BY <1>2 DEF PlannerFetch, Depart
  <2> QED
    BY <1>1, <2>1, SeenUnchanged DEF Kept, Undisturbed, missionVars
<1>3. CASE PlannerFetch /\ ~ContinuesMission /\ missionQueue # <<>>
  <2>1. /\ currentMission' = Head(missionQueue) /\ mission' = Head(missionQueue)
        /\ missionQueue' = Tail(missionQueue)
    BY <1>3 DEF PlannerFetch, Depart
  <2>2. IsComplete(currentMission)
    BY <1>3 DEF ContinuesMission, Kept, Undisturbed, Calm
  <2>3. Promise!Begin
    BY <1>3, <2>1, <2>2, FirstBegins
  <2>4. Head(missionQueue) \in Untouched /\ Tail(missionQueue) \in Seq(Untouched)
    BY <1>3, HeadTailProperties DEF Kept, Undisturbed
  <2>5. Len(Head(missionQueue).waypoints) \in Nat /\ Head(missionQueue).currentWpIdx = 0
    BY <2>4 DEF Untouched, Mission
  <2> QED
    BY <1>1, <2>1, <2>3, <2>4, <2>5 DEF Undisturbed
<1>4. CASE PlannerFetch /\ ~ContinuesMission /\ missionQueue = <<>>
  <2>1. UNCHANGED missionVars /\ plannerPc' \notin OnMission
    BY <1>4 DEF PlannerFetch, EndRound, OnMission, Kept, Undisturbed, Calm
  <2> QED
    BY <1>1, <2>1, SeenUnchanged DEF Kept, Undisturbed, missionVars
<1>5. CASE PlannerAdvance
  <2>1. /\ currentMission' = Advanced(currentMission) /\ UNCHANGED missionQueue
        /\ plannerPc' \notin OnMission /\ ~IsComplete(currentMission)
    BY <1>5 DEF PlannerAdvance, Kept, Undisturbed, OnMission, Inv, ThreadsHold
  <2>2. /\ currentMission'.waypoints = currentMission.waypoints
        /\ currentMission'.priority = currentMission.priority
        /\ currentMission'.currentWpIdx = currentMission.currentWpIdx + 1
        /\ currentMission.currentWpIdx \in Nat /\ Len(currentMission.waypoints) \in Nat
    BY <2>1 DEF Advanced, Kept, Inv, TypeOK, Mission
  <2>3. currentMission.currentWpIdx < Len(currentMission.waypoints)
    BY <2>1, <2>2 DEF IsComplete
  <2>4. Promise!Reach
    BY <2>1, <2>2, <2>3 DEF Promise!Reach, Task, Copies, Asked, Going
  <2> QED
    BY <1>1, <2>1, <2>2, <2>3, <2>4 DEF Kept, Undisturbed
<1>6. CASE /\ UNCHANGED missionVars
           /\ plannerPc' \in OnMission => plannerPc \in OnMission /\ UNCHANGED mission
  BY <1>1, <1>6, SeenUnchanged DEF Kept, Undisturbed, missionVars
<1> QED
  BY <1>2, <1>3, <1>4, <1>5, <1>6
  DEF Planner, PlannerTake, PlannerStop, PlannerStopIdle, PlannerStopWake,
      PlannerIdle, PlannerDepart, PlannerSearch, PlannerNoPath, PlannerRetry,
      PlannerHandOver, PlannerAwait, PlannerArrived, PlannerRest, PlannerResume,
      EndRound, OnMission

LEMMA OthersKeep ==
  ASSUME Kept, Sensor \/ Control \/ (\E c \in Clients : Client(c)) \/ UNCHANGED vars
  PROVE  Undisturbed' /\ (Promise!Ask \/ UNCHANGED Seen)
<1>1. Calm'
  BY ThreadsCalm, ClientCalm DEF Kept, Undisturbed, Inv
<1>2. UNCHANGED <<plannerPc, mission>>
  <2>1. CASE Sensor
    BY <2>1 DEF Sensor, SensorFrame, plannerVars, SensorSample, SensorDrain,
           SensorDeplete, SensorCharge, SensorStore, SensorChargeEnd,
           SensorChargeIdle, SensorChargeResume, SensorTrigger, SensorArm,
           SensorPush, SensorRequest
  <2>2. CASE Control
    BY <2>2 DEF Control, ControlFrame, plannerVars, ControlTake, ControlMoving,
           ControlPublish, ControlCheck, ControlStep, ControlSignal, ControlClear
  <2>3. ASSUME NEW c \in Clients, Client(c) PROVE UNCHANGED <<plannerPc, mission>>
    BY <2>3 DEF Client, Others, plannerVars, MoveTo, AddMission, Stop,
           ToggleObstacle, ResetBattery, RequestPlan, NotifyObstacleChanged
  <2>4. CASE UNCHANGED vars
    BY <2>4 DEF vars, plannerVars
  <2> QED
    BY <2>1, <2>2, <2>3, <2>4
<1>3. (\E m, k : QueuedAt(m, k)) \/ UNCHANGED missionVars
  <2>1. CASE Control
    BY <2>1 DEF Control, ControlFrame, ControlTake, ControlMoving,
           ControlPublish, ControlCheck, ControlStep, ControlSignal, ControlClear
  <2>2. CASE UNCHANGED vars
    BY <2>2 DEF vars
  <2> QED
    BY <2>1, <2>2, ClientAsks, SensorAsks DEF Kept, Inv
<1>4. CASE \E m, k : QueuedAt(m, k)
  <2>1. PICK m, k : QueuedAt(m, k)
    BY <1>4
  <2>2. Promise!Ask
    BY <2>1, QueuedIsAsked DEF Kept
  <2> QED
    BY <1>1, <1>2, <2>1, <2>2 DEF QueuedAt, Kept, Undisturbed
<1>5. CASE UNCHANGED missionVars
  BY <1>1, <1>2, <1>5, SeenUnchanged DEF missionVars, Kept, Undisturbed
<1> QED
  BY <1>3, <1>4, <1>5

-----------------------------------------------------------------------------
LEMMA InitKeeps ==
  ASSUME Init, LeftAlone
  PROVE  Undisturbed /\ Promise!Init
<1>1. Calm
  BY DEF Init, LeftAlone, Calm, Commands
<1>2. /\ missionQueue = <<>> /\ currentMission = NoMission
      /\ plannerPc = "wait"
  BY DEF Init
<1>3. /\ currentMission.currentWpIdx = 0 /\ Len(currentMission.waypoints) = 0
      /\ Task(currentMission) = Task(NoMission)
  BY <1>2, EmptySeq DEF NoMission
<1>4. Copies(missionQueue) = [t \in Asked |-> 0]
  <2>1. ASSUME NEW t PROVE Cardinality({i \in 1 .. Len(missionQueue) : Task(missionQueue[i]) = t}) = 0
    <3>1. {i \in 1 .. Len(missionQueue) : Task(missionQueue[i]) = t} = {}
      BY <1>2, EmptySeq
    <3> QED
      BY <3>1, FS_EmptySet
  <2> QED
    BY <2>1 DEF Copies
<1>5. missionQueue \in Seq(Untouched)
  BY <1>2, EmptySeq
<1> QED
  BY <1>1, <1>2, <1>3, <1>4, <1>5 DEF Undisturbed, OnMission, Promise!Init

LEMMA SpecUndisturbed ==
  ASSUME ChargesFirst, LeftAlone
  PROVE  Spec => []Kept
<1>1. Init => Undisturbed
  BY InitKeeps
<1>2. Inv /\ QueueByPriority /\ Undisturbed /\ [Next]_vars => Undisturbed'
  BY PlannerKeeps, OthersKeep DEF Kept, Next
<1> QED
  BY <1>1, <1>2, SpecInv, QueueOrdered, PTL DEF Spec, Kept

(* The robot keeps its promise: it takes up what it was asked for one by   *)
(* one, the most urgent first, and visits the waypoints of each in order;  *)
(* no mission is lost, repeated or displaced, for any grid and battery and *)
(* however many missions and automatic charges there are.                  *)
THEOREM PromiseKept ==
  ASSUME ChargesFirst, LeftAlone
  PROVE  Spec => KeepsPromise
<1>1. Init => Promise!Init
  BY InitKeeps
<1>2. Kept /\ [Next]_vars => [Promise!Next]_Seen
  BY PlannerKeeps, OthersKeep DEF Next, Promise!Next
<1>3. Seen = Promise!vars
  BY DEF Seen, Promise!vars
<1> QED
  BY <1>1, <1>2, <1>3, SpecUndisturbed, PTL DEF Spec, KeepsPromise, Promise!Spec, Promise!vars, Seen

=============================================================================
