---------------------------- MODULE MCPathfinder ----------------------------
(* A small grid, with every combination of some obstacles and reservations.*)
EXTENDS Pathfinder, FiniteSetsExt

MCObstacleSets == SUBSET {<<1, 0>>, <<0, 1>>, <<1, 1>>, <<2, 1>>, <<1, 2>>}
MCReservations ==
  UNION {kSubset(k, {<<1, 0>>, <<0, 1>>, <<1, 1>>, <<1, 2>>, <<2, 2>>} \X (2 .. 4)) :
           k \in 0 .. 2}
MCQueries ==
  {[start |-> <<0, 0>>, goal |-> goal, startTimeStep |-> 1] :
     goal \in {<<0, 0>>, <<2, 1>>, <<2, 2>>}}

=============================================================================
