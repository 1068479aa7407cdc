--------------------------- MODULE RobotMissions ---------------------------
(***************************************************************************)
(* Robot as those see it who give it missions: the refinement of Missions, *)
(* and what becomes of a mission under way.  The properties are about a    *)
(* robot that nobody stops and whose grid does not change; stops and       *)
(* obstacles break them, see QueuedStaysCancelled and the README.          *)
(***************************************************************************)
EXTENDS Robot, FiniteSets

Task(m) == [priority |-> m.priority, waypoints |-> m.waypoints]

Going(p, label) == <<[pos |-> p, label |-> label]>>

Asked ==
  MissionInputs
    \cup {[priority |-> MOVE_PRIORITY, waypoints |-> Going(p, "GOTO")] : p \in MoveTargets}
    \cup {[priority |-> CHARGE_PRIORITY, waypoints |-> Going(p, "CHARGE")] : p \in Chargers}

(* How often each task is in the queue q. *)
Copies(q) == [t \in Asked |-> Cardinality({i \in 1 .. Len(q) : Task(q[i]) = t})]

Promise == INSTANCE Missions WITH
  Tasks <- Asked,
  NoTask <- Task(NoMission),
  waiting <- Copies(missionQueue),
  current <- Task(currentMission),
  reached <- currentMission.currentWpIdx

(* The robot takes up what it was asked for one by one, the most urgent of *)
(* those waiting first, reaches the waypoints of each in their order, and  *)
(* loses, repeats or displaces none, whenever more missions and automatic  *)
(* charges come.                                                           *)
KeepsPromise == Promise!Spec

-----------------------------------------------------------------------------
(* The search fails only finitely often. *)
SearchesSucceed == <>[](plannerPc # "noPath")

(* Charging has ended in the middle of a mission: nobody files a request   *)
(* unless another mission is queued.                                       *)
HeldAfterCharge ==
  /\ currentMission.currentWpIdx > 0
  /\ ReachedLabel(currentMission) = "CHARGE"
  /\ state = "IDLE" /\ plannerPc = "wait"
  /\ missionQueue = <<>> /\ planReq = "NONE"

(* A mission under way is completed, however often its searches fail, as   *)
(* long as they do not fail for ever: the planner tries again.  The        *)
(* exceptions are an exhausted battery and a mission that was to charge    *)
(* before its last waypoint.                                               *)
MissionsEnd ==
  SearchesSucceed =>
    (~IsComplete(currentMission) ~>
       IsComplete(currentMission) \/ battery <= 0 \/ HeldAfterCharge)

(* Missions do not stay in the queue of a robot whose searches do not fail *)
(* for ever, unless its battery is exhausted.                              *)
MissionsTaken ==
  SearchesSucceed =>
    (missionQueue # <<>> ~> missionQueue = <<>> \/ battery <= 0)

=============================================================================
