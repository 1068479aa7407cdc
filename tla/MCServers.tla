----------------------------- MODULE MCServers -----------------------------
(* Three robots on the 10x10 grid without obstacles.  One TCP client may give  *)
(* a robot a mission and stop another one; another client may stop it, and a   *)
(* browser may move a robot.  One client and one browser never send anything.  *)
EXTENDS Servers

Field(key, value) == [key |-> key, value |-> value]
Cell(x, y) == [x |-> x, y |-> y]

MCCells == (0 .. 9) \X (0 .. 9)
MCCrowds == {{"t1"}, {"t2", "t3"}, {"t2", "b2"}, {"t3", "b1"}, {"b1", "b2"}}
MCMission == <<Field("cmd", "mission"), Field("robot_id", 1),
               Field("waypoint", Cell(3, 4)), Field("waypoint", Cell(8, 1))>>
MCMove == <<Field("cmd", "move"), Field("robot_id", 2), Field("x", 9), Field("y", 7)>>
MCStop == <<Field("cmd", "stop"), Field("robot_id", 0)>>
MCFields == UNION {{command[i] : i \in DOMAIN command} :
                     command \in {MCMission, MCMove, MCStop}}
MCScript ==
  "t1" :> <<MCMission, MCStop>> @@ "t2" :> <<MCStop>>
    @@ "t3" :> <<>> @@ "b1" :> <<MCMove>>
    @@ "b2" :> <<>>

=============================================================================
