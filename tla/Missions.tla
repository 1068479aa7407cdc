------------------------------ MODULE Missions ------------------------------
(***************************************************************************)
(* What a robot promises those who give it missions: one at a time, the    *)
(* most urgent of those waiting first, each one's waypoints in their order *)
(* to the last, and none lost, repeated or invented.  RobotMissions shows  *)
(* that the queue, the mailbox and the planner of Robot keep this promise  *)
(* as long as nobody stops the robot.                                      *)
(***************************************************************************)
EXTENDS Naturals, Sequences

CONSTANTS
  Tasks,  \* what may be asked for: records of priority and waypoints
  NoTask  \* before the first one; it has no waypoints

VARIABLES
  waiting, \* how often each task was asked for and not begun
  current, \* the task begun last
  reached  \* how many of its waypoints have been reached

vars == <<waiting, current, reached>>

Init == waiting = [t \in Tasks |-> 0] /\ current = NoTask /\ reached = 0

Ask ==
  /\ \E t \in Tasks : waiting' = [waiting EXCEPT ![t] = @ + 1]
  /\ UNCHANGED <<current, reached>>

Begin ==
  /\ reached = Len(current.waypoints)
  /\ \E t \in Tasks :
       /\ waiting[t] > 0
       /\ \A other \in Tasks : waiting[other] > 0 => other.priority <= t.priority
       /\ waiting' = [waiting EXCEPT ![t] = @ - 1]
       /\ current' = t
  /\ reached' = 0

Reach ==
  /\ reached < Len(current.waypoints)
  /\ reached' = reached + 1
  /\ UNCHANGED <<waiting, current>>

Next == Ask \/ Begin \/ Reach

Spec == Init /\ [][Next]_vars

=============================================================================
