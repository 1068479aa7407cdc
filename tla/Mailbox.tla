------------------------------ MODULE Mailbox ------------------------------
(***************************************************************************)
(* What one condition-variable protocol of a robot promises: a slot that   *)
(* is posted to and emptied, and that is emptied again as long as the      *)
(* robot has not been told to end.  Robot.tla uses the three slots of a    *)
(* robot (planReq_, pathReady_, waypointArrived_) in exactly this way;     *)
(* RobotLifecycle shows that its wait sets and notifications implement it. *)
(***************************************************************************)
VARIABLES
  full, \* something was posted and not yet taken
  open  \* the robot has not been told to end

Init == full = FALSE /\ open = TRUE

Post == full' = TRUE /\ UNCHANGED open
Take == full /\ full' = FALSE /\ UNCHANGED open
Close == open /\ open' = FALSE /\ UNCHANGED full

Next == Post \/ Take \/ Close

Safe == Init /\ [][Next]_<<full, open>>

(* While the robot is open, what was posted is taken. *)
Spec == Safe /\ WF_<<full, open>>(open /\ Take)

=============================================================================
