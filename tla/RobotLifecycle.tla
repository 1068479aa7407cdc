--------------------------- MODULE RobotLifecycle ---------------------------
(***************************************************************************)
(* The threads of one robot as threads: start(), shutdown() with its joins,*)
(* and the three condition variables (src/core/Robot.cpp).  What Robot.tla *)
(* writes as a guard is here the real protocol: a thread evaluates its     *)
(* predicate under the mutex, falls asleep in a later step that releases   *)
(* the mutex, and must be notified; whoever posts stores under the mutex   *)
(* and notifies after releasing it.  shutdown() alone stores running_ and  *)
(* notifies without holding any mutex.                                     *)
(*                                                                         *)
(* What the threads do with a request or a route is in Robot; here the     *)
(* planner's work ends in any of the ways it can end.                      *)
(***************************************************************************)
EXTENDS Naturals

CONSTANTS
  Clients,     \* the threads that execute commands
  MaxSpurious  \* bound: spurious wake-ups

ASSUME ClientsAssumption == Clients \cap {"sensor", "planner", "control"} = {}
ASSUME SpuriousAssumption == MaxSpurious \in Nat

VARIABLES
  running,   \* the atomic running_
  life,      \* where the owner is in start() and shutdown()
  planReq,   \* TRUE: planReq_ is not NONE
  pathReady, \* "none", or what pendingPath_ holds: "route" or "empty"
  arrived,   \* waypointArrived_
  pc,        \* where each thread is
  asleep,    \* the condition variables whose one waiter is in the wait set
  spurious   \* spurious wake-ups still to come

vars == <<running, life, planReq, pathReady, arrived, pc, asleep, spurious>>

Threads == {"sensor", "planner", "control"}
Variables == {"planReqCV", "pathCV", "arrivalCV"}

Init ==
  /\ running = FALSE
  /\ life = "new"
  /\ planReq = FALSE
  /\ pathReady = "none"
  /\ arrived = FALSE
  /\ pc = [t \in Threads \cup Clients |-> IF t \in Threads THEN "unborn" ELSE "idle"]
  /\ asleep = {}
  /\ spurious = MaxSpurious

Goto(t, to) == pc' = [pc EXCEPT ![t] = to]

(* Between the evaluation of a predicate and the sleep the waiter holds    *)
(* the mutex, and nobody can store.  Mutants: storing without the mutex.   *)
AlwaysFree == TRUE
PlanReqFree == pc["planner"] # "fallPlanReq"
ArrivalFree == pc["planner"] # "fallArrival"
PathFree == pc["control"] # "fallPath"

(* notify_one and notify_all: each variable has at most one waiter.        *)
(* Mutants: one that notifies nobody.                                      *)
NotifyNobody == UNCHANGED asleep
NotifyPlanReq == asleep' = asleep \ {"planReqCV"}
NotifyPath == asleep' = asleep \ {"pathCV"}
NotifyArrival == asleep' = asleep \ {"arrivalCV"}

-----------------------------------------------------------------------------
(* The owner: start() in the Simulator's constructor, shutdown() later.    *)

Start ==
  /\ life = "new"
  /\ running' = TRUE
  /\ life' = "spawnSensor"
  /\ UNCHANGED <<planReq, pathReady, arrived, pc, asleep, spurious>>

Spawn(t, at, next) ==
  /\ life = at
  /\ Goto(t, "loop")
  /\ life' = next
  /\ UNCHANGED <<running, planReq, pathReady, arrived, asleep, spurious>>

Shutdown ==
  /\ life = "up"
  /\ running' = FALSE
  /\ life' = "notifyPlanReq"
  /\ UNCHANGED <<planReq, pathReady, arrived, pc, asleep, spurious>>

ShutdownNotify ==
  /\ \/ life = "notifyPlanReq" /\ NotifyPlanReq /\ life' = "notifyPath"
     \/ life = "notifyPath" /\ NotifyPath /\ life' = "notifyArrival"
     \/ life = "notifyArrival" /\ NotifyArrival /\ life' = "joinSensor"
  /\ UNCHANGED <<running, planReq, pathReady, arrived, pc, spurious>>

Join(t, at, next) ==
  /\ life = at
  /\ pc[t] = "ended"
  /\ life' = next
  /\ UNCHANGED <<running, planReq, pathReady, arrived, pc, asleep, spurious>>

Owner ==
  \/ Start
  \/ Spawn("sensor", "spawnSensor", "spawnPlanner")
  \/ Spawn("planner", "spawnPlanner", "spawnControl")
  \/ Spawn("control", "spawnControl", "up")
  \/ ShutdownNotify
  \/ Join("sensor", "joinSensor", "joinPlanner")
  \/ Join("planner", "joinPlanner", "joinControl")
  \/ Join("control", "joinControl", "down")

-----------------------------------------------------------------------------
(* requestPlan, called by clients, the sensor and the planner itself.      *)

Store(t) ==
  /\ PlanReqFree
  /\ planReq' = TRUE
  /\ Goto(t, "notify")

Notify(t) ==
  /\ pc[t] = "notify"
  /\ NotifyPlanReq
  /\ Goto(t, IF t \in Clients THEN "idle" ELSE "loop")
  /\ UNCHANGED <<running, life, planReq, pathReady, arrived, spurious>>

(* Clients reach a robot that has been started; shutdown does not end them.*)
ClientRequest(c) ==
  /\ pc[c] = "idle"
  /\ life \notin {"new", "spawnSensor", "spawnPlanner", "spawnControl"}
  /\ Store(c)
  /\ UNCHANGED <<running, life, pathReady, arrived, asleep, spurious>>

(* The top of each thread's loop. *)
Loop(t, to) ==
  /\ pc[t] = "loop"
  /\ Goto(t, IF running THEN to ELSE "ended")
  /\ UNCHANGED <<running, life, planReq, pathReady, arrived, asleep, spurious>>

(* A tick of the sensor ends with or without a request. *)
SensorTick ==
  /\ pc["sensor"] = "tick"
  /\ \/ Store("sensor")
     \/ Goto("sensor", "loop") /\ UNCHANGED planReq
  /\ UNCHANGED <<running, life, pathReady, arrived, asleep, spurious>>

Sensor == Loop("sensor", "tick") \/ SensorTick \/ Notify("sensor")

-----------------------------------------------------------------------------
(* Condition variables: going to sleep, and waking, spuriously or not.     *)

Sleep(t, at, cv, to) ==
  /\ pc[t] = at
  /\ asleep' = asleep \cup {cv}
  /\ Goto(t, to)
  /\ UNCHANGED <<running, life, planReq, pathReady, arrived, spurious>>

(* Mutant of Wake: the waiter goes on without having been notified. *)
WakeUnnotified(t, at, cv, to) ==
  /\ pc[t] = at
  /\ Goto(t, to)
  /\ UNCHANGED <<running, life, planReq, pathReady, arrived, asleep, spurious>>

Wake(t, at, cv, to) ==
  /\ pc[t] = at
  /\ cv \notin asleep
  /\ Goto(t, to)
  /\ UNCHANGED <<running, life, planReq, pathReady, arrived, asleep, spurious>>

SpuriousWakeup ==
  /\ spurious > 0
  /\ spurious' = spurious - 1
  /\ \E cv \in asleep : asleep' = asleep \ {cv}
  /\ UNCHANGED <<running, life, planReq, pathReady, arrived, pc>>

-----------------------------------------------------------------------------
(* The planner thread.                                                     *)

(* The request is taken and cleared; ending with none pending also gets    *)
(* past the wait.                                                          *)
PlannerCheckRequest ==
  /\ pc["planner"] = "checkPlanReq"
  /\ \/ /\ planReq \/ ~running
        /\ planReq' = FALSE
        /\ Goto("planner", "taken")
     \/ /\ ~planReq /\ running
        /\ Goto("planner", "fallPlanReq")
        /\ UNCHANGED planReq
  /\ UNCHANGED <<running, life, pathReady, arrived, asleep, spurious>>

(* if (!running_) break, after each of the planner's waits. *)
PlannerGoOn(at, to) ==
  /\ pc["planner"] = at
  /\ Goto("planner", IF running THEN to ELSE "ended")
  /\ UNCHANGED <<running, life, planReq, pathReady, arrived, asleep, spurious>>

(* Nothing to do, a request of its own, a stop, or a route handed over.    *)
PlannerWork ==
  /\ pc["planner"] = "work"
  /\ \/ Goto("planner", "loop") /\ UNCHANGED <<planReq, pathReady>>
     \/ Store("planner") /\ UNCHANGED pathReady
     \/ PathFree /\ pathReady' = "empty" /\ Goto("planner", "notifyStop") /\ UNCHANGED planReq
     \/ PathFree /\ pathReady' = "route" /\ Goto("planner", "notifyRoute") /\ UNCHANGED planReq
  /\ UNCHANGED <<running, life, arrived, asleep, spurious>>

PlannerNotifyPath ==
  /\ \/ pc["planner"] = "notifyStop" /\ Goto("planner", "loop")
     \/ pc["planner"] = "notifyRoute" /\ Goto("planner", "checkArrival")
  /\ NotifyPath
  /\ UNCHANGED <<running, life, planReq, pathReady, arrived, spurious>>

PlannerCheckArrival ==
  /\ pc["planner"] = "checkArrival"
  /\ \/ /\ arrived \/ ~running
        /\ arrived' = FALSE
        /\ Goto("planner", "reached")
     \/ /\ ~arrived /\ running
        /\ Goto("planner", "fallArrival")
        /\ UNCHANGED arrived
  /\ UNCHANGED <<running, life, planReq, pathReady, asleep, spurious>>

PlannerArrived ==
  /\ pc["planner"] = "arrived"
  /\ \/ Goto("planner", "loop") /\ UNCHANGED planReq
     \/ Store("planner")
  /\ UNCHANGED <<running, life, pathReady, arrived, asleep, spurious>>

Planner ==
  \/ Loop("planner", "checkPlanReq")
  \/ PlannerCheckRequest
  \/ Sleep("planner", "fallPlanReq", "planReqCV", "sleepPlanReq")
  \/ Wake("planner", "sleepPlanReq", "planReqCV", "checkPlanReq")
  \/ PlannerGoOn("taken", "work")
  \/ PlannerWork
  \/ Notify("planner")
  \/ PlannerNotifyPath
  \/ PlannerCheckArrival
  \/ Sleep("planner", "fallArrival", "arrivalCV", "sleepArrival")
  \/ Wake("planner", "sleepArrival", "arrivalCV", "checkArrival")
  \/ PlannerGoOn("reached", "arrived")
  \/ PlannerArrived

-----------------------------------------------------------------------------
(* The control thread.                                                     *)

ControlCheckPath ==
  /\ pc["control"] = "checkPath"
  /\ \/ /\ ~running
        /\ Goto("control", "ended")
        /\ UNCHANGED pathReady
     \/ /\ running /\ pathReady # "none"
        /\ pathReady' = "none"
        /\ Goto("control", IF pathReady = "route" THEN "drive" ELSE "loop")
     \/ /\ running /\ pathReady = "none"
        /\ Goto("control", "fallPath")
        /\ UNCHANGED pathReady
  /\ UNCHANGED <<running, life, planReq, arrived, asleep, spurious>>

(* The drive ends, at its goal or early, and is reported. *)
ControlSignal ==
  /\ pc["control"] = "drive"
  /\ ArrivalFree
  /\ arrived' = TRUE
  /\ Goto("control", "notifyArrival")
  /\ UNCHANGED <<running, life, planReq, pathReady, asleep, spurious>>

ControlNotify ==
  /\ pc["control"] = "notifyArrival"
  /\ NotifyArrival
  /\ Goto("control", "loop")
  /\ UNCHANGED <<running, life, planReq, pathReady, arrived, spurious>>

Control ==
  \/ Loop("control", "checkPath")
  \/ ControlCheckPath
  \/ Sleep("control", "fallPath", "pathCV", "sleepPath")
  \/ Wake("control", "sleepPath", "pathCV", "checkPath")
  \/ ControlSignal
  \/ ControlNotify

-----------------------------------------------------------------------------
Next ==
  \/ Owner \/ Shutdown
  \/ Sensor \/ Planner \/ Control
  \/ SpuriousWakeup
  \/ \E c \in Clients : ClientRequest(c) \/ Notify(c)

(* Threads run, start() and a shutdown() once begun go on; nothing obliges *)
(* anybody to shut down, to send a command or to wake up without cause.    *)
Fairness ==
  /\ WF_vars(Owner)
  /\ WF_vars(Sensor)
  /\ WF_vars(Planner)
  /\ WF_vars(Control)
  /\ \A c \in Clients : WF_vars(Notify(c))

Spec == Init /\ [][Next]_vars /\ Fairness

-----------------------------------------------------------------------------
(* Types; who is in a wait set is where it waits.                          *)
TypeOK ==
  /\ running \in BOOLEAN
  /\ life \in {"new", "spawnSensor", "spawnPlanner", "spawnControl", "up",
               "notifyPlanReq", "notifyPath", "notifyArrival", "joinSensor",
               "joinPlanner", "joinControl", "down"}
  /\ planReq \in BOOLEAN
  /\ pathReady \in {"none", "empty", "route"}
  /\ arrived \in BOOLEAN
  /\ pc \in [Threads \cup Clients ->
              {"unborn", "idle", "loop", "ended", "notify", "tick",
               "checkPlanReq", "fallPlanReq", "sleepPlanReq", "taken", "work",
               "notifyStop", "notifyRoute", "checkArrival", "fallArrival",
               "sleepArrival", "reached", "arrived", "checkPath", "fallPath",
               "sleepPath", "drive", "notifyArrival"}]
  /\ asleep \subseteq Variables
  /\ "planReqCV" \in asleep => pc["planner"] = "sleepPlanReq"
  /\ "arrivalCV" \in asleep => pc["planner"] = "sleepArrival"
  /\ "pathCV" \in asleep => pc["control"] = "sleepPath"
  /\ spurious \in Nat

(* No wake-up is lost: a thread that sleeps although what it waits for has *)
(* been posted is about to be notified by whoever posted it.               *)
NoLostWakeup ==
  /\ "planReqCV" \in asleep /\ planReq =>
       \E t \in Threads \cup Clients : pc[t] = "notify"
  /\ "pathCV" \in asleep /\ pathReady # "none" =>
       pc["planner"] \in {"notifyStop", "notifyRoute"}
  /\ "arrivalCV" \in asleep /\ arrived => pc["control"] = "notifyArrival"

(* The three slots are mailboxes: requests, routes and arrivals are taken  *)
(* as long as the robot is not told to end, as Robot.tla assumes.          *)
Open == running \/ life = "new"

PlanReqBox == INSTANCE Mailbox WITH full <- planReq, open <- Open
PathBox == INSTANCE Mailbox WITH full <- pathReady # "none", open <- Open
ArrivalBox == INSTANCE Mailbox WITH full <- arrived, open <- Open

RequestsTaken == PlanReqBox!Spec
RoutesTaken == PathBox!Spec
ArrivalsTaken == ArrivalBox!Spec

(* A shutdown that has begun returns: every thread notices running_ and    *)
(* can be joined.                                                          *)
ShutdownReturns == life = "notifyPlanReq" ~> life = "down"

=============================================================================
