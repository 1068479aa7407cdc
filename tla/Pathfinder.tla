----------------------------- MODULE Pathfinder -----------------------------
(***************************************************************************)
(* One call of Pathfinder::findPath (src/planning/Pathfinder.cpp): A* over *)
(* the nodes <<time, cell>>, then the walk back along the parents.  An     *)
(* action is one turn of one of the two loops.  The grid and the           *)
(* reservations stay as they are during the call; Fleet has reservations   *)
(* that change under a search.                                             *)
(*                                                                         *)
(* Costs are the code's floats times 100000, which keeps the heuristic's   *)
(* diagonal (the square root of 2) above the diagonal's cost (1.414) as it *)
(* is in the code.  Rounding of sums of floats is not modelled.            *)
(***************************************************************************)
EXTENDS Integers, FiniteSets, Sequences

CONSTANTS
  Width, Height,
  MAX_TIME,      \* time steps a search may reach
  ObstacleSets,  \* the grids searched: each a set of cells
  Reservations,  \* what others may have reserved: each a set of <<cell, time>>
  Queries        \* records of a start, a goal and a startTimeStep

ASSUME SizeAssumption ==
  /\ Width \in Nat \ {0}
  /\ Height \in Nat \ {0}
  /\ MAX_TIME \in Nat \ {0}

Cells == (0 .. Width - 1) \X (0 .. Height - 1)
Times == 0 .. MAX_TIME - 1
Nodes == Times \X Cells

ASSUME InputAssumption ==
  /\ ObstacleSets \subseteq SUBSET Cells
  /\ Reservations \subseteq SUBSET (Cells \X Nat)
  /\ Queries \subseteq [start : Cells, goal : Cells, startTimeStep : Nat]

VARIABLES
  obstacles, \* the grid
  reserved,  \* the reservations of the other robots
  query,     \* the arguments of the call
  phase,     \* "called", "search", "reconstruct", or "done"
  g,         \* the cost of each node in the open list or past it
  parent,    \* the node each of these was reached from
  open,      \* the priority queue: records of an f, a time and a cell
  closed,    \* the nodes expanded
  cursor,    \* where the walk back has come to: the nodes still to be added
  path       \* what has been reconstructed, at the end the result

vars == <<obstacles, reserved, query, phase, g, parent, open, closed, cursor,
          path>>

NoNode == <<-1, <<-1, -1>>>>

Init ==
  /\ obstacles \in ObstacleSets
  /\ reserved \in Reservations
  /\ query \in Queries
  /\ phase = "called"
  /\ g = <<>>
  /\ parent = <<>>
  /\ open = {}
  /\ closed = {}
  /\ cursor = NoNode
  /\ path = <<>>

-----------------------------------------------------------------------------
Distance(i, j) == IF i < j THEN j - i ELSE i - j
Lesser(i, j) == IF i < j THEN i ELSE j

(* Octile distance.  Mutant: four times as much, which is no lower bound.  *)
HeuristicLarge(a, b) == 400000 * (Distance(a[1], b[1]) + Distance(a[2], b[2]))
Heuristic(a, b) ==
  LET dx == Distance(a[1], b[1])
      dy == Distance(a[2], b[2])
  IN  100000 * (dx + dy) - 58579 * Lesser(dx, dy)

IsWalkable(c) == c \in Cells /\ c \notin obstacles

(* A diagonal move needs both cells it squeezes between.                   *)
CornersFree(c, d) ==
  c[1] # d[1] /\ c[2] # d[2] =>
    IsWalkable(<<d[1], c[2]>>) /\ IsWalkable(<<c[1], d[2]>>)

(* One of the eight moves, or waiting. *)
Near(c, d) == Distance(c[1], d[1]) <= 1 /\ Distance(c[2], d[2]) <= 1

(* Mutant: asks for the time of the search and not the absolute one.       *)
BlockedAtRelative(c, t) == <<c, t>> \in reserved
Blocked(c, t) == <<c, query.startTimeStep + t>> \in reserved

(* Waiting is not asked of the grid: the robot stands there already. *)
Successors(n) ==
  {d \in Cells :
     /\ Near(n[2], d)
     /\ d # n[2] => IsWalkable(d) /\ CornersFree(n[2], d)
     /\ ~Blocked(d, n[1] + 1)}

StepCost(c, d) ==
  IF c = d THEN 120000
  ELSE IF c[1] # d[1] /\ c[2] # d[2] THEN 141400
  ELSE 100000

-----------------------------------------------------------------------------
(* The order of the queue: f, then time, then x, then y.                   *)
Before(p, q) ==
  \/ p.f < q.f
  \/ p.f = q.f /\ p.time < q.time
  \/ p.f = q.f /\ p.time = q.time /\ p.pos[1] < q.pos[1]
  \/ p.f = q.f /\ p.time = q.time /\ p.pos[1] = q.pos[1] /\ p.pos[2] <= q.pos[2]

IsTop(p) == p \in open /\ \A q \in open : Before(p, q)

Elem(n, cost) ==
  [f |-> cost + Heuristic(n[2], query.goal), time |-> n[1], pos |-> n[2]]

Refuse ==
  /\ phase = "called"
  /\ ~IsWalkable(query.goal) \/ ~IsWalkable(query.start)
  /\ phase' = "done"
  /\ UNCHANGED <<obstacles, reserved, query, g, parent, open, closed, cursor,
                 path>>

Stay ==
  /\ phase = "called"
  /\ IsWalkable(query.goal) /\ IsWalkable(query.start)
  /\ query.start = query.goal
  /\ path' = <<query.start>>
  /\ phase' = "done"
  /\ UNCHANGED <<obstacles, reserved, query, g, parent, open, closed, cursor>>

Begin ==
  /\ phase = "called"
  /\ IsWalkable(query.goal) /\ IsWalkable(query.start)
  /\ query.start # query.goal
  /\ LET first == <<0, query.start>> IN
       /\ g' = [n \in {first} |-> 0]
       /\ parent' = [n \in {first} |-> NoNode]
       /\ open' = {Elem(first, 0)}
  /\ phase' = "search"
  /\ UNCHANGED <<obstacles, reserved, query, closed, cursor, path>>

(* A node whose cost was lowered is in the queue more than once.           *)
(* Mutant: it is looked at without being taken out.                        *)
SkipKeeping(e) ==
  /\ <<e.time, e.pos>> \in closed
  /\ UNCHANGED <<phase, g, parent, closed, cursor, open>>
SkipClosed(e) ==
  /\ <<e.time, e.pos>> \in closed
  /\ UNCHANGED <<phase, g, parent, closed, cursor>>
  /\ open' = open \ {e}

ReachGoal(e) ==
  /\ <<e.time, e.pos>> \notin closed
  /\ e.pos = query.goal
  /\ cursor' = <<e.time, e.pos>>
  /\ phase' = "reconstruct"
  /\ closed' = closed \cup {<<e.time, e.pos>>}
  /\ open' = open \ {e}
  /\ UNCHANGED <<g, parent>>

Improves(n, cost) == n \in DOMAIN g => cost < g[n]

(* Nothing is expanded beyond the last time step.  Mutant: off by one.     *)
TooLateByOne(t) == t >= MAX_TIME
TooLate(t) == t + 1 >= MAX_TIME

Expand(e) ==
  LET n == <<e.time, e.pos>>
      Cost(d) == g[n] + StepCost(e.pos, d)
      better ==
        IF TooLate(e.time) THEN {}
        ELSE {<<e.time + 1, d>> : d \in
               {d \in Successors(n) : /\ <<e.time + 1, d>> \notin closed
                                      /\ Improves(<<e.time + 1, d>>, Cost(d))}}
  IN
  /\ n \notin closed
  /\ e.pos # query.goal
  /\ closed' = closed \cup {n}
  /\ g' = [m \in DOMAIN g \cup better |->
             IF m \in better THEN Cost(m[2]) ELSE g[m]]
  /\ parent' = [m \in DOMAIN g \cup better |->
                  IF m \in better THEN n ELSE parent[m]]
  /\ open' = (open \ {e}) \cup {Elem(m, Cost(m[2])) : m \in better}
  /\ UNCHANGED <<phase, cursor>>

Search ==
  /\ phase = "search"
  /\ \E e \in open : IsTop(e) /\ (SkipClosed(e) \/ ReachGoal(e) \/ Expand(e))
  /\ UNCHANGED <<obstacles, reserved, query, path>>

GiveUp ==
  /\ phase = "search"
  /\ open = {}
  /\ phase' = "done"
  /\ UNCHANGED <<obstacles, reserved, query, g, parent, open, closed, cursor,
                 path>>

(* From the goal back to the start; the waits stay in the path. *)
Reconstruct ==
  /\ phase = "reconstruct"
  /\ cursor # NoNode
  /\ path' = <<cursor[2]>> \o path
  /\ cursor' = parent[cursor]
  /\ UNCHANGED <<obstacles, reserved, query, phase, g, parent, open, closed>>

Return ==
  /\ phase = "reconstruct"
  /\ cursor = NoNode
  /\ phase' = "done"
  /\ UNCHANGED <<obstacles, reserved, query, g, parent, open, closed, cursor,
                 path>>

Next == Refuse \/ Stay \/ Begin \/ Search \/ GiveUp \/ Reconstruct \/ Return

Spec == Init /\ [][Next]_vars /\ WF_vars(Next)

-----------------------------------------------------------------------------
(* Types.                                                                  *)
TypeOK ==
  /\ obstacles \in SUBSET Cells
  /\ reserved \in SUBSET (Cells \X Nat)
  /\ query \in [start : Cells, goal : Cells, startTimeStep : Nat]
  /\ phase \in {"called", "search", "reconstruct", "done"}
  /\ DOMAIN g \in SUBSET Nodes
  /\ \A n \in DOMAIN g : g[n] \in Nat
  /\ DOMAIN parent = DOMAIN g
  /\ \A n \in DOMAIN g : parent[n] \in Nodes \cup {NoNode}
  /\ \A e \in open : <<e.time, e.pos>> \in DOMAIN g /\ e.f \in Int
  /\ closed \subseteq DOMAIN g
  /\ cursor \in DOMAIN g \cup {NoNode}
  /\ path \in Seq(Cells)

(* What a route must satisfy, step by step, in terms of the grid and the   *)
(* table alone: between c and d there is nothing, and nobody has d then.   *)
Permitted(c, d, t) ==
  /\ {d, <<c[1], d[2]>>, <<d[1], c[2]>>} \subseteq Cells \ obstacles
  /\ d[1] - c[1] \in {-1, 0, 1} /\ d[2] - c[2] \in {-1, 0, 1}
  /\ <<d, query.startTimeStep + t>> \notin reserved

(* The result leads from the start to the goal, one permitted step per     *)
(* time step, reaches the goal only at its end and within the horizon.     *)
RouteIsSound ==
  phase = "done" /\ path # <<>> =>
    /\ path[1] = query.start
    /\ path[Len(path)] = query.goal
    /\ Len(path) <= MAX_TIME
    /\ \A i \in 1 .. Len(path) - 1 : path[i] # query.goal
    /\ \A i \in 2 .. Len(path) : Permitted(path[i - 1], path[i], i - 1)

(* The cells a robot can be on at each time, without having been at the    *)
(* goal before, each with the least cost of being there: the definition    *)
(* the search is checked against.                                          *)
LeastAt[t \in Times] ==
  IF t = 0 THEN {<<query.start, 0>>}
  ELSE LET last == {e \in LeastAt[t - 1] : e[1] # query.goal}
           all == UNION {{<<d, e[2] + StepCost(e[1], d)>> :
                            d \in {d \in Cells : Permitted(e[1], d, t)}} : e \in last}
       IN  {e \in all : \A d \in all : d[1] = e[1] => e[2] <= d[2]}

LeastCosts ==
  UNION {{e[2] : e \in {e \in LeastAt[t] : e[1] = query.goal}} : t \in Times}

PathCost[i \in Nat] ==
  IF i <= 1 THEN 0 ELSE PathCost[i - 1] + StepCost(path[i - 1], path[i])

(* The result is a cheapest route, although the heuristic overestimates a  *)
(* diagonal and closed nodes are never opened again; and none is returned  *)
(* only if there is none within the horizon.                               *)
RouteIsCheapest ==
  phase = "done" /\ IsWalkable(query.start) /\ IsWalkable(query.goal) =>
    IF path = <<>> THEN LeastCosts = {}
    ELSE \A c \in LeastCosts : PathCost[Len(path)] <= c

(* The search ends. *)
Terminates == <>(phase = "done")

=============================================================================
