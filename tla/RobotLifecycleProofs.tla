------------------------ MODULE RobotLifecycleProofs ------------------------
(***************************************************************************)
(* For any set of clients and any number of spurious wake-ups: the types,  *)
(* and that no wake-up is lost.  The argument is the mutex: a thread that  *)
(* found its slot empty still finds it empty when it joins the wait set,   *)
(* because nobody can store in between (EmptyBeforeSleep).  Then the       *)
(* safety half of the refinement of Mailbox; that what is posted is taken  *)
(* in the end needs fairness and stays with TLC.  Last, what a shutdown    *)
(* depends on.                                                             *)
(***************************************************************************)
EXTENDS RobotLifecycle, TLAPS

(* Started, and not yet told to end. *)
RunsUntilShutdown ==
  running <=> life \in {"spawnSensor", "spawnPlanner", "spawnControl", "up"}

(* Between predicate and sleep, the slot stays empty. *)
EmptyBeforeSleep ==
  /\ pc["planner"] = "fallPlanReq" => ~planReq
  /\ pc["planner"] = "fallArrival" => ~arrived
  /\ pc["control"] = "fallPath" => pathReady = "none"

(* A thread does nothing before it is spawned. *)
UnbornBeforeSpawn ==
  /\ life \in {"new", "spawnSensor"} => pc["sensor"] = "unborn"
  /\ life \in {"new", "spawnSensor", "spawnPlanner"} => pc["planner"] = "unborn"
  /\ life \in {"new", "spawnSensor", "spawnPlanner", "spawnControl"} =>
       pc["control"] = "unborn"

Inv == /\ TypeOK
       /\ RunsUntilShutdown
       /\ EmptyBeforeSleep
       /\ UnbornBeforeSpawn
       /\ NoLostWakeup

LEMMA InvInit == Init => Inv
BY SpuriousAssumption
DEF Init, Inv, TypeOK, RunsUntilShutdown, EmptyBeforeSleep, UnbornBeforeSpawn,
    NoLostWakeup,
    Threads, Variables

-----------------------------------------------------------------------------
LEMMA InvNext == Inv /\ [Next]_vars => Inv'
<1> SUFFICES ASSUME Inv, [Next]_vars PROVE Inv'
  OBVIOUS
<1> USE ClientsAssumption, SpuriousAssumption
    DEF Inv, TypeOK, RunsUntilShutdown, EmptyBeforeSleep, UnbornBeforeSpawn,
    NoLostWakeup,
        Threads, Variables, Goto
<1>1. CASE UNCHANGED vars
  BY <1>1 DEF vars
<1>2. CASE Owner
  <2>1. CASE Start
    BY <2>1 DEF Start
  <2>2. CASE Spawn("sensor", "spawnSensor", "spawnPlanner")
    BY <2>2 DEF Spawn
  <2>4. CASE Spawn("planner", "spawnPlanner", "spawnControl")
    BY <2>4 DEF Spawn
  <2>5. CASE Spawn("control", "spawnControl", "up")
    BY <2>5 DEF Spawn
  <2>3. CASE ShutdownNotify
    BY <2>3 DEF ShutdownNotify, NotifyPlanReq, NotifyPath, NotifyArrival
  <2>6. CASE Join("sensor", "joinSensor", "joinPlanner")
    BY <2>6 DEF Join
  <2>7. CASE Join("planner", "joinPlanner", "joinControl")
    BY <2>7 DEF Join
  <2>8. CASE Join("control", "joinControl", "down")
    BY <2>8 DEF Join
  <2> QED  BY <1>2, <2>1, <2>2, <2>3, <2>4, <2>5, <2>6, <2>7, <2>8 DEF Owner
<1>3. CASE Shutdown
  BY <1>3 DEF Shutdown
<1>4. ASSUME NEW t \in Threads, NEW to \in {"tick", "checkPlanReq", "checkPath"}, Loop(t, to) PROVE Inv'
  BY <1>4 DEF Loop
<1>5. ASSUME NEW t \in Threads \cup Clients, Notify(t) PROVE Inv'
  BY <1>5 DEF Notify, NotifyPlanReq
<1>6. CASE SensorTick
  <2>1. CASE Store("sensor")
    <3>1. pc'["sensor"] = "notify" /\ pc["planner"] # "fallPlanReq"
      BY <1>6, <2>1 DEF Store, PlanReqFree
    <3>2. \A t \in Threads : t # "sensor" => pc'[t] = pc[t]
      BY <1>6, <2>1 DEF Store
    <3> QED  BY <1>6, <2>1, <3>1, <3>2 DEF SensorTick, Store
  <2>2. CASE pc' = [pc EXCEPT !["sensor"] = "loop"] /\ planReq' = planReq
    BY <1>6, <2>2 DEF SensorTick
  <2> QED  BY <1>6, <2>1, <2>2 DEF SensorTick
<1>7. CASE SpuriousWakeup
  BY <1>7 DEF SpuriousWakeup
<1>8. ASSUME NEW c \in Clients, ClientRequest(c) PROVE Inv'
  BY <1>8 DEF ClientRequest, Store, PlanReqFree
<1>9. CASE Planner
  <2>1. CASE PlannerCheckRequest
    <3>1. CASE planReq \/ ~running
      BY <2>1, <3>1 DEF PlannerCheckRequest
    <3>2. CASE ~planReq /\ running
      <4>1. /\ pc' = [pc EXCEPT !["planner"] = "fallPlanReq"]
            /\ UNCHANGED <<running, life, planReq, pathReady, arrived, asleep, spurious>>
        BY <2>1, <3>2 DEF PlannerCheckRequest
      <4>2. /\ pc'["planner"] = "fallPlanReq"
            /\ \A t \in (Threads \cup Clients) \ {"planner"} : pc'[t] = pc[t]
        BY <4>1
      <4>3. TypeOK'
        BY <2>1, <4>1 DEF PlannerCheckRequest
      <4>4. RunsUntilShutdown'
        BY <4>1
      <4>5. EmptyBeforeSleep'
        BY <3>2, <4>1, <4>2
      <4>6. UnbornBeforeSpawn'
        BY <2>1, <4>1, <4>2 DEF PlannerCheckRequest
      <4>7. NoLostWakeup'
        BY <2>1, <4>1, <4>2 DEF PlannerCheckRequest
      <4> QED  BY <4>3, <4>4, <4>5, <4>6, <4>7
    <3> QED  BY <3>1, <3>2
  <2>2. CASE Sleep("planner", "fallPlanReq", "planReqCV", "sleepPlanReq")
    BY <2>2 DEF Sleep
  <2>3. CASE Wake("planner", "sleepPlanReq", "planReqCV", "checkPlanReq")
    BY <2>3 DEF Wake
  <2>4. CASE PlannerGoOn("taken", "work")
    BY <2>4 DEF PlannerGoOn
  <2>5. CASE PlannerWork
    BY <2>5, ZenonT(60) DEF PlannerWork, Store, PlanReqFree, PathFree
  <2>6. CASE PlannerNotifyPath
    BY <2>6, ZenonT(60) DEF PlannerNotifyPath, NotifyPath
  <2>7. CASE PlannerCheckArrival
    <3>1. CASE arrived \/ ~running
      BY <2>7, <3>1 DEF PlannerCheckArrival
    <3>2. CASE ~arrived /\ running
      <4>1. /\ pc' = [pc EXCEPT !["planner"] = "fallArrival"]
            /\ UNCHANGED <<running, life, planReq, pathReady, arrived, asleep, spurious>>
        BY <2>7, <3>2 DEF PlannerCheckArrival
      <4>2. /\ pc'["planner"] = "fallArrival"
            /\ \A t \in (Threads \cup Clients) \ {"planner"} : pc'[t] = pc[t]
        BY <4>1
      <4>3. TypeOK'
        BY <2>7, <4>1 DEF PlannerCheckArrival
      <4>4. RunsUntilShutdown'
        BY <4>1
      <4>5. EmptyBeforeSleep'
        BY <3>2, <4>1, <4>2
      <4>6. UnbornBeforeSpawn'
        BY <2>7, <4>1, <4>2 DEF PlannerCheckArrival
      <4>7. NoLostWakeup'
        BY <2>7, <4>1, <4>2 DEF PlannerCheckArrival
      <4> QED  BY <4>3, <4>4, <4>5, <4>6, <4>7
    <3> QED  BY <3>1, <3>2
  <2>8. CASE Sleep("planner", "fallArrival", "arrivalCV", "sleepArrival")
    BY <2>8 DEF Sleep
  <2>9. CASE Wake("planner", "sleepArrival", "arrivalCV", "checkArrival")
    BY <2>9 DEF Wake
  <2>10. CASE PlannerGoOn("reached", "arrived")
    BY <2>10 DEF PlannerGoOn
  <2>11. CASE PlannerArrived
    BY <2>11, ZenonT(60) DEF PlannerArrived, Store, PlanReqFree
  <2> QED  BY <1>4, <1>5, <1>9, <2>1, <2>2, <2>3, <2>4, <2>5, <2>6, <2>7,
              <2>8, <2>9, <2>10, <2>11 DEF Planner
<1>10. CASE Control
  <2>1. CASE ControlCheckPath
    BY <2>1, ZenonT(60) DEF ControlCheckPath
  <2>2. CASE Sleep("control", "fallPath", "pathCV", "sleepPath")
    BY <2>2 DEF Sleep
  <2>3. CASE Wake("control", "sleepPath", "pathCV", "checkPath")
    BY <2>3 DEF Wake
  <2>4. CASE ControlSignal
    BY <2>4 DEF ControlSignal, ArrivalFree
  <2>5. CASE ControlNotify
    BY <2>5 DEF ControlNotify, NotifyArrival
  <2> QED  BY <1>4, <1>10, <2>1, <2>2, <2>3, <2>4, <2>5 DEF Control
<1> QED
  BY <1>1, <1>2, <1>3, <1>4, <1>5, <1>6, <1>7, <1>8, <1>9, <1>10
  DEF Next, Sensor

LEMMA SpecInv == Spec => []Inv
BY InvInit, InvNext, PTL DEF Spec

-----------------------------------------------------------------------------
(* Types, and that who is in a wait set is where it waits.                 *)
THEOREM TypeCorrect == Spec => []TypeOK
<1>1. Inv => TypeOK
  BY DEF Inv
<1> QED  BY <1>1, SpecInv, PTL

(* A sleeping thread whose slot is full is about to be notified.           *)
THEOREM WakeupsKept == Spec => []NoLostWakeup
<1>1. Inv => NoLostWakeup
  BY DEF Inv
<1> QED  BY <1>1, SpecInv, PTL

-----------------------------------------------------------------------------
(* The three slots implement mailboxes: every step of the program is, for  *)
(* each slot, one of its mailbox's or none.                                *)

(* Only shutdown() makes the robot closed, and it touches no slot. *)
LEMMA OpenStep ==
  ASSUME Inv, [Next]_vars, Open' # Open
  PROVE  Open /\ ~Open' /\ UNCHANGED <<planReq, pathReady, arrived>>
<1> USE DEF Inv, RunsUntilShutdown, Open
<1>1. CASE UNCHANGED vars
  BY <1>1 DEF vars
<1>2. CASE Owner
  <2>1. CASE Start
    BY <2>1 DEF Start
  <2>2. CASE ~Start
    <3>1. UNCHANGED running /\ life # "new" /\ life' # "new"
      BY <1>2, <2>2 DEF Owner, Spawn, ShutdownNotify, Join
    <3> QED
      BY <3>1
  <2> QED
    BY <2>1, <2>2
<1>3. CASE Shutdown
  BY <1>3 DEF Shutdown, TypeOK
<1>4. CASE \/ Sensor \/ Planner \/ Control \/ SpuriousWakeup
           \/ \E c \in Clients : ClientRequest(c) \/ Notify(c)
  <2>1. UNCHANGED <<running, life>>
    BY <1>4 DEF Sensor, Planner, Control, SpuriousWakeup, ClientRequest, Notify, Loop,
       SensorTick, PlannerCheckRequest, Sleep, Wake, PlannerGoOn, PlannerWork,
       PlannerNotifyPath, PlannerCheckArrival, PlannerArrived, ControlCheckPath,
       ControlSignal, ControlNotify
  <2> QED
    BY <2>1
<1> QED
  BY <1>1, <1>2, <1>3, <1>4 DEF Next

(* Requests and arrivals stay flags, so a change is a post or a take. *)
LEMMA SlotStep ==
  ASSUME Inv, [Next]_vars
  PROVE  planReq' \in BOOLEAN /\ arrived' \in BOOLEAN
<1>1. Inv'
  BY InvNext
<1> QED
  BY <1>1 DEF Inv, TypeOK

LEMMA PlanReqStep ==
  ASSUME Inv, [Next]_vars
  PROVE  [PlanReqBox!Next]_<<planReq, Open>>
<1>1. CASE Open' = Open
  BY <1>1, SlotStep DEF Inv, TypeOK, PlanReqBox!Next, PlanReqBox!Post, PlanReqBox!Take
<1>2. CASE Open' # Open
  BY <1>2, OpenStep DEF PlanReqBox!Next, PlanReqBox!Close, Open
<1> QED
  BY <1>1, <1>2

LEMMA PathStep ==
  ASSUME Inv, [Next]_vars
  PROVE  [PathBox!Next]_<<pathReady # "none", Open>>
<1>1. CASE Open' = Open
  BY <1>1 DEF PathBox!Next, PathBox!Post, PathBox!Take
<1>2. CASE Open' # Open
  BY <1>2, OpenStep DEF PathBox!Next, PathBox!Close, Open
<1> QED
  BY <1>1, <1>2

LEMMA ArrivalStep ==
  ASSUME Inv, [Next]_vars
  PROVE  [ArrivalBox!Next]_<<arrived, Open>>
<1>1. CASE Open' = Open
  BY <1>1, SlotStep DEF Inv, TypeOK, ArrivalBox!Next, ArrivalBox!Post, ArrivalBox!Take
<1>2. CASE Open' # Open
  BY <1>2, OpenStep DEF ArrivalBox!Next, ArrivalBox!Close, Open
<1> QED
  BY <1>1, <1>2

(* Each of the three protocols refines Mailbox but for its fairness, with  *)
(* every thread, every spurious wake-up and the shutdown among its steps:  *)
(* start() finds the slots empty, a step posts to a slot, takes from it or *)
(* leaves it alone, and shutdown() closes the robot once, for good, and    *)
(* loses nothing that is in a slot.                                        *)
THEOREM Mailboxes == Spec => PlanReqBox!Safe /\ PathBox!Safe /\ ArrivalBox!Safe
<1>1. Init => PlanReqBox!Init /\ PathBox!Init /\ ArrivalBox!Init
  BY DEF Init, Open, PlanReqBox!Init, PathBox!Init, ArrivalBox!Init
<1> QED
  BY <1>1, SpecInv, PlanReqStep, PathStep, ArrivalStep, PTL
     DEF Spec, PlanReqBox!Safe, PathBox!Safe, ArrivalBox!Safe

-----------------------------------------------------------------------------
(* The shutdown.  Its notifications are lost on a thread that is between   *)
(* its predicate and its sleep, since shutdown() holds no mutex; that is   *)
(* the only way for a thread to be left asleep, and a thread that is not   *)
(* has few steps to go.                                                    *)

(* Each notification finds its waiter outside that window. *)
NotifiesNobodyFalling ==
  ShutdownNotify =>
    /\ life = "notifyPlanReq" => PlanReqFree
    /\ life = "notifyPath" => PathFree
    /\ life = "notifyArrival" => ArrivalFree

Joining == {"joinSensor", "joinPlanner", "joinControl", "down"}

NobodyLeftAsleep == life \in Joining => asleep = {}

(* Once notified, a thread neither sleeps nor is about to. *)
Roused ==
  /\ life \in {"notifyPath", "notifyArrival"} \cup Joining =>
       "planReqCV" \notin asleep /\ PlanReqFree
  /\ life \in {"notifyArrival"} \cup Joining => "pathCV" \notin asleep /\ PathFree
  /\ life \in Joining => "arrivalCV" \notin asleep /\ ArrivalFree

LEMMA RousedNext == Inv /\ Roused /\ [Next /\ NotifiesNobodyFalling]_vars => Roused'
<1> SUFFICES ASSUME Inv, Roused, [Next /\ NotifiesNobodyFalling]_vars PROVE Roused'
  OBVIOUS
<1> USE DEF Roused, PlanReqFree, PathFree, ArrivalFree, Joining
<1>1. ASSUME UNCHANGED life, asleep' \subseteq asleep,
             pc'["planner"] \in {"fallPlanReq", "fallArrival"} =>
               running \/ pc'["planner"] = pc["planner"],
             pc'["control"] = "fallPath" => running \/ pc'["control"] = pc["control"]
      PROVE  Roused'
  BY <1>1 DEF Inv, RunsUntilShutdown
<1>2. CASE UNCHANGED vars
  BY <1>2 DEF vars
<1>3. CASE Owner /\ NotifiesNobodyFalling
  BY <1>3 DEF Inv, TypeOK, Threads, Owner, Start, Spawn, ShutdownNotify, Join,
     NotifyPlanReq, NotifyPath, NotifyArrival, NotifiesNobodyFalling, Goto
<1>4. CASE Shutdown
  BY <1>4 DEF Shutdown
<1>5. CASE Sensor
  BY <1>1, <1>5 DEF Inv, TypeOK, Threads, Sensor, Loop, SensorTick, Notify, Store,
     NotifyPlanReq, Goto
<1>6. CASE Planner
  <2>1. CASE \/ Sleep("planner", "fallPlanReq", "planReqCV", "sleepPlanReq")
             \/ Sleep("planner", "fallArrival", "arrivalCV", "sleepArrival")
    BY <2>1 DEF Inv, TypeOK, Threads, Sleep, Goto
  <2>2. CASE \/ Loop("planner", "checkPlanReq") \/ PlannerCheckRequest
             \/ Wake("planner", "sleepPlanReq", "planReqCV", "checkPlanReq")
             \/ PlannerGoOn("taken", "work")
    BY <1>1, <2>2 DEF Inv, TypeOK, Threads, Loop, PlannerCheckRequest, Wake,
       PlannerGoOn, Goto
  <2>3. CASE PlannerWork \/ Notify("planner") \/ PlannerNotifyPath
    BY <1>1, <2>3 DEF Inv, TypeOK, Threads, PlannerWork, Notify, PlannerNotifyPath,
       Store, NotifyPlanReq, NotifyPath, Goto
  <2>4. CASE \/ PlannerCheckArrival \/ PlannerGoOn("reached", "arrived")
             \/ Wake("planner", "sleepArrival", "arrivalCV", "checkArrival")
             \/ PlannerArrived
    BY <1>1, <2>4 DEF Inv, TypeOK, Threads, PlannerCheckArrival, PlannerGoOn, Wake,
       PlannerArrived, Store, Goto
  <2> QED  BY <1>6, <2>1, <2>2, <2>3, <2>4 DEF Planner
<1>7. CASE Control
  <2>1. CASE Sleep("control", "fallPath", "pathCV", "sleepPath")
    BY <2>1 DEF Inv, TypeOK, Threads, Sleep, Goto
  <2>2. CASE \/ Loop("control", "checkPath") \/ ControlCheckPath
             \/ Wake("control", "sleepPath", "pathCV", "checkPath")
             \/ ControlSignal \/ ControlNotify
    BY <1>1, <2>2 DEF Inv, TypeOK, Threads, Loop, ControlCheckPath, Wake,
       ControlSignal, ControlNotify, NotifyArrival, Goto
  <2> QED  BY <1>7, <2>1, <2>2 DEF Control
<1>8. CASE SpuriousWakeup
  BY <1>1, <1>8 DEF SpuriousWakeup
<1>9. CASE \E c \in Clients : ClientRequest(c) \/ Notify(c)
  <2>1. PICK c \in Clients : ClientRequest(c) \/ Notify(c)
    BY <1>9
  <2>2. pc'["planner"] = pc["planner"] /\ pc'["control"] = pc["control"]
    BY <2>1, ClientsAssumption
       DEF Inv, TypeOK, Threads, ClientRequest, Store, Notify, Goto
  <2> QED
    BY <1>1, <2>1, <2>2 DEF ClientRequest, Store, Notify, NotifyPlanReq
<1> QED
  BY <1>2, <1>3, <1>4, <1>5, <1>6, <1>7, <1>8, <1>9 DEF Next

(* If no notification of shutdown() falls between a predicate and a sleep, *)
(* nobody sleeps when it comes to its joins: what ShutdownReturns fails on *)
(* is that window alone.                                                   *)
THEOREM ShutdownWakesAll ==
  Spec /\ [][NotifiesNobodyFalling]_vars => []NobodyLeftAsleep
<1>1. Init => Roused
  BY DEF Init, Roused, Joining
<1>2. Inv /\ Roused => NobodyLeftAsleep
  BY DEF Inv, TypeOK, Variables, Roused, NobodyLeftAsleep
<1>3. [Next]_vars /\ [NotifiesNobodyFalling]_vars => [Next /\ NotifiesNobodyFalling]_vars
  OBVIOUS
<1> QED
  BY <1>1, <1>2, <1>3, SpecInv, RousedNext, PTL DEF Spec

(* An upper bound of the steps a thread takes until it has ended, from     *)
(* where it is when running_ is cleared.                                   *)
StepsLeft(at) ==
  CASE at = "ended" -> 0
    [] at \in {"loop", "taken", "reached"} -> 1
    [] at \in {"notify", "notifyStop", "notifyArrival", "checkPlanReq", "checkPath",
               "checkArrival"} -> 2
    [] at \in {"tick", "arrived", "drive", "notifyRoute", "sleepPlanReq",
               "sleepPath", "sleepArrival"} -> 3
    [] OTHER -> 4

(* Once running_ is cleared, whatever a thread does brings it nearer to    *)
(* its end, four steps at most; nothing sends it into another round.       *)
WindsUp ==
  ~running => \A t \in Threads :
    pc'[t] = pc[t] \/ StepsLeft(pc'[t]) < StepsLeft(pc[t])

LEMMA WindsUpNext == Inv /\ [Next]_vars => [WindsUp]_vars
<1> SUFFICES ASSUME Inv, ~running, Next,
                    NEW t \in Threads, pc'[t] # pc[t]
             PROVE  StepsLeft(pc'[t]) < StepsLeft(pc[t])
  BY DEF WindsUp
<1> USE DEF Goto, StepsLeft
<1>1. life \notin {"spawnSensor", "spawnPlanner", "spawnControl", "up"}
  BY DEF Inv, RunsUntilShutdown
<1>2. pc \in [Threads \cup Clients -> {pc[u] : u \in Threads \cup Clients}]
  BY DEF Inv, TypeOK
<1>3. ~Owner /\ ~Shutdown /\ ~SpuriousWakeup
  BY <1>1 DEF Owner, Start, Spawn, ShutdownNotify, Join, Shutdown, SpuriousWakeup
<1>4. CASE Sensor
  BY <1>2, <1>4, ClientsAssumption
     DEF Threads, Sensor, Loop, SensorTick, Notify, Store
<1>5. CASE Planner
  <2>1. CASE \/ Loop("planner", "checkPlanReq") \/ PlannerCheckRequest
             \/ Sleep("planner", "fallPlanReq", "planReqCV", "sleepPlanReq")
             \/ Wake("planner", "sleepPlanReq", "planReqCV", "checkPlanReq")
             \/ PlannerGoOn("taken", "work")
    BY <1>2, <2>1 DEF Threads, Loop, PlannerCheckRequest, Sleep, Wake, PlannerGoOn
  <2>2. CASE PlannerWork \/ Notify("planner") \/ PlannerNotifyPath
    BY <1>2, <2>2, ClientsAssumption
       DEF Threads, PlannerWork, Store, Notify, PlannerNotifyPath
  <2>3. CASE \/ PlannerCheckArrival
             \/ Sleep("planner", "fallArrival", "arrivalCV", "sleepArrival")
             \/ Wake("planner", "sleepArrival", "arrivalCV", "checkArrival")
             \/ PlannerGoOn("reached", "arrived") \/ PlannerArrived
    BY <1>2, <2>3 DEF Threads, PlannerCheckArrival, Sleep, Wake, PlannerGoOn,
       PlannerArrived, Store
  <2> QED  BY <1>5, <2>1, <2>2, <2>3 DEF Planner
<1>6. CASE Control
  BY <1>2, <1>6 DEF Threads, Control, Loop, ControlCheckPath, Sleep, Wake,
     ControlSignal, ControlNotify
<1>7. CASE \E c \in Clients : ClientRequest(c) \/ Notify(c)
  BY <1>2, <1>7, ClientsAssumption DEF Threads, ClientRequest, Store, Notify
<1> QED
  BY <1>3, <1>4, <1>5, <1>6, <1>7 DEF Next

THEOREM ThreadsWindUp == Spec => [][WindsUp]_vars
BY SpecInv, WindsUpNext, PTL DEF Spec

=============================================================================
