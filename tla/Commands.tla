------------------------------ MODULE Commands ------------------------------
(***************************************************************************)
(* What the servers make of the bytes they receive: parseCommand           *)
(* (src/network/RobotController.cpp) with the parser of json.hpp, and      *)
(* Simulator::handleCommand.  A client writes a command as an object with  *)
(* its fields in some order; it arrives in pieces, of which a recv() gets  *)
(* some.  A piece is a key with all that comes before its value is         *)
(* complete, a value, or the closing brace: cuts within a piece end like   *)
(* cuts before it, since robots, rows and columns have one digit, and no   *)
(* command that changes anything begins like another one.  Each entry of   *)
(* "waypoints" is a field of its own, its label left out; priorities and   *)
(* times are left out too.                                                 *)
(***************************************************************************)
EXTENDS Integers, Sequences, FiniteSetsExt, SequencesExt

CONSTANTS
  NumRobots,
  Cells,
  Walkable   \* the cells that are free of obstacles

(* Of a command that is written as a sequence of fields [key, value]:      *)
(* piece 2k-1 is the k-th key, piece 2k its value, the last the brace.     *)
Pieces(fields) == [i \in 1 .. 2 * Len(fields) + 1 |-> [of |-> fields, at |-> i]]

Closes(piece) == piece.at = 2 * Len(piece.of) + 1
IsKey(piece) == piece.at % 2 = 1 /\ ~Closes(piece)
IsValue(piece) == piece.at % 2 = 0 /\ piece.at > 0
FieldOf(piece) == piece.of[piece.at \div 2]

(* Reading stops behind the first closing brace, or at the end: the number *)
(* of pieces before.                                                       *)
Length(text) ==
  LET ends == {i \in DOMAIN text : Closes(text[i])}
  IN  IF ends = {} THEN Len(text) ELSE Min(ends) - 1

(* The fields of a key that were read, by their pieces. *)
Read(text, key) ==
  {i \in 1 .. Length(text) : IsValue(text[i]) /\ FieldOf(text[i]).key = key}

Get(text, key, default) ==
  IF Read(text, key) = {} THEN default ELSE FieldOf(text[Max(Read(text, key))]).value

(* The entries of the array follow each other: every other piece is one.   *)
Waypoints(text) ==
  LET read == Read(text, "waypoint")
  IN  IF read = {} THEN <<>>
      ELSE [i \in 1 .. (Max(read) - Min(read)) \div 2 + 1 |->
             FieldOf(text[Min(read) + 2 * (i - 1)]).value]

NoRobot == -1

Invalid == [type |-> "invalid", robotId |-> NoRobot, x |-> 0, y |-> 0, waypoints |-> <<>>]

(* A command as clients write it: no key twice, and one array.             *)
WellFormed(fields) ==
  \A i, j \in DOMAIN fields : fields[i].key = fields[j].key =>
    IF fields[i].key = "waypoint"
    THEN \A k \in i .. j : fields[k].key = "waypoint"
    ELSE i = j

(* A text that ends before a value is an error, one that ends behind a     *)
(* value is not.  A text that does not begin with the object is an error,  *)
(* or a value that is no object, or an empty object: a command without a   *)
(* type, just as good.                                                     *)
ParseCommand(text) ==
  IF Length(text) = 0 \/ text[1].at # 1 \/ IsKey(text[Length(text)])
  THEN Invalid
  ELSE [type |-> Get(text, "cmd", ""),
        robotId |-> Get(text, "robot_id", NoRobot),
        x |-> Get(text, "x", 0),
        y |-> Get(text, "y", 0),
        waypoints |-> Waypoints(text)]

ValidRobotId(id) == 0 <= id /\ id < NumRobots

(* The commands that change something; the others answer or are refused.   *)
(* Whether a cell really gets or loses an obstacle is up to the grid.      *)
Obeys(cmd) ==
  \/ cmd.type = "clear_log"
  \/ cmd.type \in {"obstacle_add", "obstacle_remove"} /\ <<cmd.x, cmd.y>> \in Cells
  \/ /\ ValidRobotId(cmd.robotId)
     /\ \/ cmd.type \in {"stop", "reset"}
        \/ cmd.type = "move" /\ <<cmd.x, cmd.y>> \in Walkable
        \/ cmd.type = "mission" /\ cmd.waypoints # <<>>

=============================================================================
