-------------------------- MODULE PathfinderProofs --------------------------
(***************************************************************************)
(* That a route returned by the search can be driven, for any grid, any    *)
(* reservations of others, any horizon and any start and goal.  The        *)
(* invariant is about the parents: each node reached is one permitted step *)
(* from its parent, which has the time step before and is not at the goal. *)
(* Then that the call has ever less to do.                                 *)
(***************************************************************************)
EXTENDS Pathfinder, TLAPS, FiniteSetTheorems, WellFoundedInduction

Running == phase \in {"search", "reconstruct"}

Asked ==
  /\ phase \in {"called", "search"} => path = <<>> /\ cursor = NoNode
  /\ phase = "called" => closed = {} /\ open = {}
  /\ Running =>
       IsWalkable(query.start) /\ IsWalkable(query.goal) /\ query.start # query.goal

(* How a node was reached. *)
Reached(n) ==
  \/ n = <<0, query.start>> /\ parent[n] = NoNode
  \/ /\ parent[n] \in DOMAIN g
     /\ n[1] = parent[n][1] + 1
     /\ parent[n][2] # query.goal
     /\ Permitted(parent[n][2], n[2], n[1])

Tree == Running => \A n \in DOMAIN g : n[2] \notin obstacles /\ Reached(n)

(* The time step of the first cell of the path that is being put together. *)
Base == IF cursor = NoNode THEN 0 ELSE cursor[1] + 1

Walk ==
  phase = "reconstruct" =>
    /\ Base + Len(path) <= MAX_TIME
    /\ path = <<>> => cursor # NoNode /\ cursor[2] = query.goal
    /\ path # <<>> =>
         /\ path[Len(path)] = query.goal
         /\ \A i \in 1 .. Len(path) - 1 : path[i] # query.goal
         /\ \A i \in 2 .. Len(path) : Permitted(path[i - 1], path[i], Base + i - 1)
         /\ cursor = NoNode => path[1] = query.start
         /\ cursor # NoNode =>
              cursor[2] # query.goal /\ Permitted(cursor[2], path[1], Base)

Inv == TypeOK /\ Asked /\ Tree /\ Walk /\ RouteIsSound

-----------------------------------------------------------------------------

LEMMA HeuristicType ==
  ASSUME NEW a \in Cells, NEW b \in Cells
  PROVE  Heuristic(a, b) \in Int
BY SizeAssumption DEF Cells, Heuristic, Distance, Lesser

LEMMA NoNodeOutside == NoNode \notin Nodes
BY DEF NoNode, Nodes, Times

(* What the search asks before it goes to a cell is what a drive needs.    *)
LEMMA SuccessorPermitted ==
  ASSUME NEW t \in Times, NEW c \in Cells, c \notin obstacles,
         NEW d \in Successors(<<t, c>>)
  PROVE  d \in Cells /\ d \notin obstacles /\ Permitted(c, d, t + 1)
<1>1. /\ d \in Cells /\ Near(c, d)
      /\ d # c => IsWalkable(d) /\ CornersFree(c, d)
      /\ ~Blocked(d, t + 1)
  BY DEF Successors
<1>2. PICK cx \in 0 .. Width - 1, cy \in 0 .. Height - 1 : c = <<cx, cy>>
  BY DEF Cells
<1>3. PICK x \in 0 .. Width - 1, y \in 0 .. Height - 1 : d = <<x, y>>
  BY <1>1 DEF Cells
<1>4. x - cx \in {-1, 0, 1} /\ y - cy \in {-1, 0, 1}
  BY <1>1, <1>2, <1>3, SizeAssumption DEF Near, Distance
<1>5. d \in Cells \ obstacles
  BY <1>1 DEF IsWalkable
<1>6. {<<cx, y>>, <<x, cy>>} \subseteq Cells \ obstacles
  <2>1. CASE cx = x
    BY <1>2, <1>3, <1>5, <2>1
  <2>2. CASE cy = y
    BY <1>2, <1>3, <1>5, <2>2
  <2>3. CASE cx # x /\ cy # y
    BY <1>1, <1>2, <1>3, <2>3 DEF CornersFree, IsWalkable
  <2> QED
    BY <2>1, <2>2, <2>3
<1>7. <<d, query.startTimeStep + (t + 1)>> \notin reserved
  BY <1>1 DEF Blocked
<1> QED
  BY <1>2, <1>3, <1>4, <1>5, <1>6, <1>7 DEF Permitted

-----------------------------------------------------------------------------
LEMMA InitInv == Init => Inv
<1> SUFFICES ASSUME Init PROVE Inv
  OBVIOUS
<1>1. TypeOK
  BY InputAssumption DEF Init, TypeOK
<1>2. Asked /\ Tree /\ Walk /\ RouteIsSound
  BY DEF Init, Asked, Tree, Walk, Running, RouteIsSound
<1> QED
  BY <1>1, <1>2 DEF Inv

LEMMA RefuseInv == Inv /\ Refuse => Inv'
<1> SUFFICES ASSUME Inv, Refuse PROVE Inv'
  OBVIOUS
<1>1. TypeOK'
  BY DEF Inv, Refuse, TypeOK
<1>2. (Asked /\ Tree /\ Walk /\ RouteIsSound)'
  BY DEF Inv, Refuse, Asked, Tree, Walk, Running, RouteIsSound
<1> QED
  BY <1>1, <1>2 DEF Inv

(* A route of one cell. *)
LEMMA StayInv == Inv /\ Stay => Inv'
<1> SUFFICES ASSUME Inv, Stay PROVE Inv'
  OBVIOUS
<1>1. path' = <<query.start>> /\ query.start \in Cells /\ query'= query
  BY DEF Inv, TypeOK, Stay
<1>2. TypeOK'
  BY <1>1 DEF Inv, Stay, TypeOK
<1>3. (Asked /\ Tree /\ Walk)'
  BY DEF Inv, Stay, Asked, Tree, Walk, Running
<1>4. RouteIsSound'
  <2>1. Len(path') = 1 /\ path'[1] = query.start /\ query.start = query.goal
    BY <1>1 DEF Stay
  <2>2. 1 .. Len(path') - 1 = {} /\ 2 .. Len(path') = {}
    BY <2>1
  <2> QED
    BY <1>1, <2>1, <2>2, SizeAssumption DEF RouteIsSound
<1> QED
  BY <1>2, <1>3, <1>4 DEF Inv

LEMMA BeginInv == Inv /\ Begin => Inv'
<1> SUFFICES ASSUME Inv, Begin PROVE Inv'
  OBVIOUS
<1> DEFINE first == <<0, query.start>>
<1>1. /\ g' = [n \in {first} |-> 0]
      /\ parent' = [n \in {first} |-> NoNode]
      /\ open' = {Elem(first, 0)}
      /\ phase' = "search"
      /\ UNCHANGED <<obstacles, reserved, query, closed, cursor, path>>
  BY DEF Begin
<1>2. first \in Nodes /\ query.start \in Cells /\ query.goal \in Cells
  BY SizeAssumption DEF Inv, TypeOK, Nodes, Times
<1>3. Elem(first, 0).f \in Int /\ Elem(first, 0).time = 0 /\ Elem(first, 0).pos = query.start
  <2>1. Heuristic(query.start, query.goal) \in Int
    BY <1>2, HeuristicType
  <2> QED
    BY <2>1 DEF Elem
<1>4. closed = {} /\ path = <<>> /\ cursor = NoNode
  BY DEF Inv, Asked, Begin
<1>5. TypeOK'
  BY <1>1, <1>2, <1>3, <1>4 DEF Inv, TypeOK
<1>6. Tree'
  BY <1>1, <1>2 DEF Begin, IsWalkable, Tree, Reached
<1>7. (Asked /\ Walk /\ RouteIsSound)'
  BY <1>1, <1>4 DEF Begin, Asked, Running, IsWalkable, Walk, RouteIsSound
<1> QED
  BY <1>5, <1>6, <1>7 DEF Inv

LEMMA SkipClosedInv ==
  ASSUME Inv, phase = "search", NEW e \in open, SkipClosed(e),
         UNCHANGED <<obstacles, reserved, query, path>>
  PROVE  Inv'
<1>1. /\ open' \subseteq open
      /\ UNCHANGED <<obstacles, reserved, query, path, phase, g, parent, closed,
                     cursor>>
  BY DEF SkipClosed
<1>2. TypeOK'
  BY <1>1 DEF Inv, TypeOK
<1>3. Tree'
  BY <1>1, ZenonT(60) DEF Inv, Tree, Running, Reached, Permitted
<1>4. (Asked /\ Walk /\ RouteIsSound)'
  BY <1>1 DEF Inv, Asked, Running, IsWalkable, Walk, RouteIsSound
<1> QED
  BY <1>2, <1>3, <1>4 DEF Inv

LEMMA ReachGoalInv ==
  ASSUME Inv, phase = "search", NEW e \in open, ReachGoal(e),
         UNCHANGED <<obstacles, reserved, query, path>>
  PROVE  Inv'
<1> DEFINE n == <<e.time, e.pos>>
<1>1. /\ open' \subseteq open /\ closed' = closed \cup {n}
      /\ cursor' = n /\ phase' = "reconstruct"
      /\ UNCHANGED <<obstacles, reserved, query, path, g, parent>>
  BY DEF ReachGoal
<1>2. n \in DOMAIN g /\ n \in Nodes /\ n # NoNode
  BY NoNodeOutside DEF Inv, TypeOK
<1>3. path = <<>>
  BY DEF Inv, Asked
<1>4. TypeOK'
  BY <1>1, <1>2 DEF Inv, TypeOK
<1>5. Tree'
  BY <1>1, ZenonT(60) DEF Inv, Tree, Running, Reached, Permitted
<1>6. Walk'
  <2>1. Base' = n[1] + 1
    BY <1>1, <1>2 DEF Base
  <2>2. n[1] \in 0 .. MAX_TIME - 1
    BY <1>2 DEF Nodes, Times
  <2>3. Base' + Len(path') <= MAX_TIME
    BY <1>1, <1>3, <2>1, <2>2, SizeAssumption
  <2>4. cursor' # NoNode /\ cursor'[2] = query'.goal
    BY <1>1, <1>2 DEF ReachGoal
  <2> QED
    BY <1>1, <1>3, <2>3, <2>4 DEF Walk
<1>7. (Asked /\ RouteIsSound)'
  BY <1>1 DEF Inv, Asked, Running, IsWalkable, RouteIsSound
<1> QED
  BY <1>4, <1>5, <1>6, <1>7 DEF Inv

(* The one step that adds nodes.  A node added or improved gets the node   *)
(* that is expanded as its parent, and SuccessorPermitted says the rest;   *)
(* the start cannot be among them, since their time is not 0.              *)
LEMMA ExpandInv ==
  ASSUME Inv, phase = "search", NEW e \in open, Expand(e),
         UNCHANGED <<obstacles, reserved, query, path>>
  PROVE  Inv'
<1> DEFINE n == <<e.time, e.pos>>
           Cost(d) == g[n] + StepCost(e.pos, d)
           better ==
             IF TooLate(e.time) THEN {}
             ELSE {<<e.time + 1, d>> : d \in
                    {d \in Successors(n) :
                       /\ <<e.time + 1, d>> \notin closed
                       /\ Improves(<<e.time + 1, d>>, Cost(d))}}
<1>1. /\ e.pos # query.goal
      /\ closed' = closed \cup {n}
      /\ g' = [m \in DOMAIN g \cup better |->
                 IF m \in better THEN Cost(m[2]) ELSE g[m]]
      /\ parent' = [m \in DOMAIN g \cup better |->
                      IF m \in better THEN n ELSE parent[m]]
      /\ open' = (open \ {e}) \cup {Elem(m, Cost(m[2])) : m \in better}
      /\ UNCHANGED <<obstacles, reserved, query, path, phase, cursor>>
  BY DEF Expand
<1>2. /\ n \in DOMAIN g /\ e.time \in Times /\ e.pos \in Cells
      /\ g[n] \in Nat /\ DOMAIN g \subseteq Nodes /\ query.goal \in Cells
  <2>1. n \in DOMAIN g /\ DOMAIN g \subseteq Nodes /\ g[n] \in Nat
    BY DEF Inv, TypeOK
  <2> QED
    BY <2>1 DEF Inv, TypeOK, Nodes
<1>3. e.pos \notin obstacles
  BY <1>2 DEF Inv, Tree, Running
<1>4. ASSUME NEW m \in better
      PROVE  /\ m \in Nodes /\ m[1] = e.time + 1
             /\ m[2] \in Cells /\ m[2] \notin obstacles
             /\ Permitted(e.pos, m[2], m[1])
             /\ Cost(m[2]) \in Nat
  <2>1. ~TooLate(e.time)
    BY <1>4
  <2>2. PICK d \in Successors(n) : m = <<e.time + 1, d>>
    BY <1>4, <2>1
  <2>3. e.time + 1 \in Times
    BY <1>2, <2>1, SizeAssumption DEF TooLate, Times
  <2>4. d \in Cells /\ d \notin obstacles /\ Permitted(e.pos, d, e.time + 1)
    BY <1>2, <1>3, SuccessorPermitted
  <2>5. Cost(d) \in Nat
    BY <1>2 DEF StepCost
  <2> HIDE DEF Cost
  <2> QED
    BY <2>2, <2>3, <2>4, <2>5 DEF Nodes
<1>5. ASSUME NEW m \in better
      PROVE  /\ <<Elem(m, Cost(m[2])).time, Elem(m, Cost(m[2])).pos>> = m
             /\ Elem(m, Cost(m[2])).f \in Int
  <2>1. m \in Nodes /\ Cost(m[2]) \in Nat /\ m[2] \in Cells
    BY <1>4
  <2>2. Heuristic(m[2], query.goal) \in Int
    BY <1>2, <2>1, HeuristicType
  <2> HIDE DEF Cost, better
  <2>3. m = <<m[1], m[2]>>
    BY <2>1 DEF Nodes
  <2> QED
    BY <2>1, <2>2, <2>3 DEF Elem
<1> HIDE DEF better, Cost
<1>6. DOMAIN g' = DOMAIN g \cup better /\ DOMAIN parent' = DOMAIN g'
  BY <1>1
<1>7. TypeOK'
  <2>1. DOMAIN g' \in SUBSET Nodes /\ cursor' \in DOMAIN g' \cup {NoNode}
    BY <1>1, <1>2, <1>4, <1>6 DEF Inv, TypeOK
  <2>2. \A m \in DOMAIN g' : g'[m] \in Nat
    BY <1>1, <1>4 DEF Inv, TypeOK
  <2>3. \A m \in DOMAIN g' : parent'[m] \in Nodes \cup {NoNode}
    BY <1>1, <1>2 DEF Inv, TypeOK
  <2>4. \A q \in open' : <<q.time, q.pos>> \in DOMAIN g' /\ q.f \in Int
    <3> SUFFICES ASSUME NEW q \in open'
                 PROVE  <<q.time, q.pos>> \in DOMAIN g' /\ q.f \in Int
      OBVIOUS
    <3>1. CASE q \in open
      BY <1>6, <3>1 DEF Inv, TypeOK
    <3>2. CASE q \notin open
      <4>1. PICK m \in better : q = Elem(m, Cost(m[2]))
        BY <1>1, <3>2
      <4> QED
        BY <1>5, <1>6, <4>1
    <3> QED
      BY <3>1, <3>2
  <2>5. closed' \subseteq DOMAIN g'
    BY <1>1, <1>2, <1>6 DEF Inv, TypeOK
  <2> QED
    BY <1>1, <1>6, <2>1, <2>2, <2>3, <2>4, <2>5 DEF Inv, TypeOK
<1>8. Tree'
  <2>1. ASSUME NEW m \in better PROVE m[2] \notin obstacles' /\ Reached(m)'
    <3>1. parent'[m] = n /\ n \in DOMAIN g'
      BY <1>1, <1>2, <1>6, <2>1
    <3>2. /\ m[1] = n[1] + 1 /\ m[2] \notin obstacles'
          /\ n[2] # query'.goal
      BY <1>1, <1>4, <2>1
    <3>3. Permitted(n[2], m[2], m[1])'
      BY <1>1, <1>4, <2>1 DEF Permitted
    <3> QED
      BY <3>1, <3>2, <3>3 DEF Reached
  <2>2. ASSUME NEW m \in DOMAIN g, m \notin better
        PROVE  m[2] \notin obstacles' /\ Reached(m)'
    <3>1. m[2] \notin obstacles /\ Reached(m)
      BY DEF Inv, Tree, Running
    <3>2. parent'[m] = parent[m] /\ DOMAIN g \subseteq DOMAIN g'
      BY <1>1, <1>6, <2>2
    <3> QED
      BY <1>1, <3>1, <3>2 DEF Reached, Permitted
  <2> QED
    BY <1>6, <2>1, <2>2 DEF Tree
<1>9. (Asked /\ Walk /\ RouteIsSound)'
  BY <1>1 DEF Inv, Asked, Running, IsWalkable, Walk, RouteIsSound
<1> QED
  BY <1>7, <1>8, <1>9 DEF Inv

LEMMA SearchInv == Inv /\ Search => Inv'
BY SkipClosedInv, ReachGoalInv, ExpandInv DEF Search

LEMMA GiveUpInv == Inv /\ GiveUp => Inv'
<1> SUFFICES ASSUME Inv, GiveUp PROVE Inv'
  OBVIOUS
<1>1. path = <<>> /\ path' = path /\ phase' = "done"
  BY DEF Inv, Asked, GiveUp
<1>2. TypeOK'
  BY DEF Inv, GiveUp, TypeOK
<1>3. (Asked /\ Tree /\ Walk /\ RouteIsSound)'
  BY <1>1 DEF Asked, Tree, Walk, Running, RouteIsSound
<1> QED
  BY <1>2, <1>3 DEF Inv

(* The path grows at its front, so that all its indices move by one, while *)
(* the time of its first cell decreases by one.                            *)
LEMMA ReconstructInv == Inv /\ Reconstruct => Inv'
<1> SUFFICES ASSUME Inv, Reconstruct PROVE Inv'
  OBVIOUS
<1>1. /\ phase = "reconstruct" /\ cursor # NoNode
      /\ path' = <<cursor[2]>> \o path /\ cursor' = parent[cursor]
      /\ UNCHANGED <<obstacles, reserved, query, phase, g, parent, open, closed>>
  BY DEF Reconstruct
<1>2. /\ cursor \in DOMAIN g /\ DOMAIN g \subseteq Nodes
      /\ parent[cursor] \in DOMAIN g \cup {NoNode} /\ Reached(cursor)
  BY <1>1 DEF Inv, TypeOK, Tree, Running, Reached
<1>3. cursor[1] \in Nat /\ cursor[2] \in Cells /\ path \in Seq(Cells)
  BY <1>2 DEF Inv, TypeOK, Nodes, Times
<1>4. /\ path' \in Seq(Cells) /\ Len(path') = Len(path) + 1
      /\ path'[1] = cursor[2] /\ path' # <<>>
      /\ \A i \in 2 .. Len(path') : path'[i] = path[i - 1]
  BY <1>1, <1>3
<1>5. /\ Base = cursor[1] + 1 /\ Base' = cursor[1]
      /\ cursor' = NoNode => cursor[2] = query.start
      /\ cursor' # NoNode =>
           /\ cursor'[2] # query.goal
           /\ Permitted(cursor'[2], cursor[2], cursor[1])
  <2>1. CASE cursor = <<0, query.start>> /\ parent[cursor] = NoNode
    BY <1>1, <2>1 DEF Base
  <2>2. CASE /\ parent[cursor] \in DOMAIN g
             /\ cursor[1] = parent[cursor][1] + 1
             /\ parent[cursor][2] # query.goal
             /\ Permitted(parent[cursor][2], cursor[2], cursor[1])
    <3>1. parent[cursor] # NoNode
      BY <1>2, <2>2, NoNodeOutside
    <3> QED
      BY <1>1, <2>2, <3>1 DEF Base
  <2> QED
    BY <1>2, <2>1, <2>2 DEF Reached
<1>6. TypeOK'
  BY <1>1, <1>2, <1>4 DEF Inv, TypeOK
<1>7. (Asked /\ Tree /\ RouteIsSound)'
  BY <1>1 DEF Inv, Asked, Tree, Running, IsWalkable, Reached, Permitted,
              RouteIsSound
<1>8. Walk'
  <2>1. /\ Base + Len(path) <= MAX_TIME
        /\ path = <<>> => cursor[2] = query.goal
        /\ path # <<>> =>
             /\ path[Len(path)] = query.goal
             /\ \A i \in 1 .. Len(path) - 1 : path[i] # query.goal
             /\ \A i \in 2 .. Len(path) : Permitted(path[i - 1], path[i], Base + i - 1)
             /\ cursor[2] # query.goal /\ Permitted(cursor[2], path[1], Base)
    BY <1>1 DEF Inv, Walk
  <2>2. Len(path) \in Nat /\ (path = <<>> <=> Len(path) = 0)
    BY <1>3
  <2>3. Base' + Len(path') <= MAX_TIME
    BY <1>3, <1>4, <1>5, <2>1, <2>2, SizeAssumption
  <2>4. path'[Len(path')] = query.goal
    <3>1. CASE path = <<>>
      BY <1>4, <2>1, <2>2, <3>1
    <3>2. CASE path # <<>>
      BY <1>4, <2>1, <2>2, <3>2
    <3> QED
      BY <3>1, <3>2
  <2>5. ASSUME NEW i \in 1 .. Len(path') - 1 PROVE path'[i] # query.goal
    <3>1. path # <<>>
      BY <1>4, <2>2
    <3>2. CASE i = 1
      BY <1>4, <2>1, <3>1, <3>2
    <3>3. CASE i # 1
      <4>1. i - 1 \in 1 .. Len(path) - 1 /\ i \in 2 .. Len(path')
        BY <1>4, <2>2, <3>3
      <4> QED
        BY <1>4, <2>1, <3>1, <4>1
    <3> QED
      BY <3>2, <3>3
  <2>6. ASSUME NEW i \in 2 .. Len(path')
        PROVE  Permitted(path'[i - 1], path'[i], Base' + i - 1)
    <3>1. path # <<>>
      BY <1>4, <2>2
    <3>2. CASE i = 2
      <4>1. path'[i - 1] = cursor[2] /\ path'[i] = path[1] /\ Base' + i - 1 = Base
        BY <1>3, <1>4, <1>5, <3>2
      <4> QED
        BY <2>1, <3>1, <4>1
    <3>3. CASE i # 2
      <4> DEFINE j == i - 1
      <4>1. j \in 2 .. Len(path) /\ j \in 2 .. Len(path') /\ i \in Int
        BY <1>4, <2>2, <3>3
      <4>2. path'[i - 1] = path[j - 1] /\ path'[i] = path[j]
        BY <1>4, <4>1
      <4>3. Base' + i - 1 = Base + j - 1
        BY <1>3, <1>5, <4>1
      <4>4. Permitted(path[j - 1], path[j], Base + j - 1)
        BY <2>1, <3>1, <4>1
      <4> QED
        BY <4>2, <4>3, <4>4
    <3> QED
      BY <3>2, <3>3
  <2>7. \A i \in 2 .. Len(path') : Permitted(path[i - 1], path[i], Base + i - 1)'
    BY <1>1, <2>6 DEF Permitted
  <2>8. cursor' # NoNode => Permitted(cursor[2], path[1], Base)'
    BY <1>1, <1>4, <1>5 DEF Permitted
  <2> QED
    BY <1>1, <1>4, <1>5, <2>3, <2>4, <2>5, <2>7, <2>8 DEF Walk
<1> QED
  BY <1>6, <1>7, <1>8 DEF Inv

LEMMA ReturnInv == Inv /\ Return => Inv'
<1> SUFFICES ASSUME Inv, Return PROVE Inv'
  OBVIOUS
<1>1. /\ phase = "reconstruct" /\ cursor = NoNode /\ phase' = "done"
      /\ UNCHANGED <<obstacles, reserved, query, g, parent, open, closed, cursor,
                     path>>
  BY DEF Return
<1>2. TypeOK'
  BY <1>1 DEF Inv, TypeOK
<1>3. (Asked /\ Tree /\ Walk)'
  BY <1>1 DEF Asked, Tree, Walk, Running
<1>4. RouteIsSound'
  <2>1. /\ Base = 0 /\ Len(path) \in Nat
        /\ Base + Len(path) <= MAX_TIME /\ path # <<>>
        /\ path[Len(path)] = query.goal /\ path[1] = query.start
        /\ \A i \in 1 .. Len(path) - 1 : path[i] # query.goal
        /\ \A i \in 2 .. Len(path) : Permitted(path[i - 1], path[i], Base + i - 1)
    BY <1>1 DEF Inv, TypeOK, Walk, Base
  <2>2. \A i \in 2 .. Len(path) : Permitted(path[i - 1], path[i], i - 1)
    <3> SUFFICES ASSUME NEW i \in 2 .. Len(path)
                 PROVE  Permitted(path[i - 1], path[i], i - 1)
      OBVIOUS
    <3>1. Base + i - 1 = i - 1
      BY <2>1
    <3> QED
      BY <2>1, <3>1
  <2>3. \A i \in 2 .. Len(path) : Permitted(path[i - 1], path[i], i - 1)'
    BY <1>1, <2>2 DEF Permitted
  <2> QED
    BY <1>1, <2>1, <2>3 DEF RouteIsSound
<1> QED
  BY <1>2, <1>3, <1>4 DEF Inv

LEMMA NextInv == Inv /\ [Next]_vars => Inv'
<1> SUFFICES ASSUME Inv, [Next]_vars PROVE Inv'
  OBVIOUS
<1>1. CASE UNCHANGED vars
  BY <1>1 DEF vars, Inv, TypeOK, Asked, Running, IsWalkable, Tree, Reached,
              Permitted, Walk, Base, RouteIsSound
<1> QED
  BY <1>1, RefuseInv, StayInv, BeginInv, SearchInv, GiveUpInv, ReconstructInv,
     ReturnInv DEF Next

LEMMA SpecInv == Spec => []Inv
BY InitInv, NextInv, PTL DEF Spec

-----------------------------------------------------------------------------
(* The types hold, in particular: only nodes within the horizon are ever   *)
(* reached, and each node in the queue has a cost and a parent.            *)
THEOREM TypeCorrect == Spec => []TypeOK
BY SpecInv, PTL DEF Inv

(* Whatever findPath returns can be driven as returned: from the start to  *)
(* the goal, one cell or a wait per time step, never through an obstacle   *)
(* or between two, never into what another robot has reserved.             *)
THEOREM RouteSound == Spec => []RouteIsSound
BY SpecInv, PTL DEF Inv

-----------------------------------------------------------------------------
(* Why the loops end: there is a node to take as long as the queue is not  *)
(* empty, and a turn that does not leave the loop leaves less to do.       *)

Unexpanded == Cardinality(Nodes \ closed)
Waiting == Cardinality(open)

Bounded == IsFiniteSet(open) /\ \A e \in open : e.f \in Nat

TopExists == open # {} => \E e \in open : IsTop(e)

(* A turn of the search expands a node, or takes one out of the queue and  *)
(* puts none in; a turn of the walk goes back in time.  The phases have an *)
(* order.                                                                  *)
Shrinks ==
  /\ phase = "search" /\ phase' = "search" =>
       \/ Unexpanded' < Unexpanded
       \/ Unexpanded' = Unexpanded /\ Waiting' < Waiting
  /\ phase = "reconstruct" /\ phase' = "reconstruct" => Base' < Base
  /\ <<phase, phase'>> \in
       {<<"called", "search">>, <<"called", "done">>,
        <<"search", "search">>, <<"search", "reconstruct">>, <<"search", "done">>,
        <<"reconstruct", "reconstruct">>, <<"reconstruct", "done">>}

LessPairs == {p \in Nat \X Nat : p[1] < p[2]}

LEMMA LessWellFounded == IsWellFoundedOn(LessPairs, Nat)
<1>1. OpToRel(<, Nat) = LessPairs
  BY DEF OpToRel, LessPairs
<1> QED
  BY <1>1, NatLessThanWellFounded

LEMMA Least ==
  ASSUME NEW S, S \subseteq Nat, S # {}
  PROVE  \E m \in S : \A k \in S : m <= k
<1>1. PICK m \in S : \A k \in S : <<k, m>> \notin LessPairs
  BY LessWellFounded, WFMin
<1>2. \A k \in S : <<k, m>> \in Nat \X Nat /\ <<k, m>>[1] = k /\ <<k, m>>[2] = m
  OBVIOUS
<1>3. \A k \in S : ~(k < m)
  BY <1>1, <1>2 DEF LessPairs
<1> QED
  BY <1>3

LEMMA LeastBy ==
  ASSUME NEW S, S # {}, NEW F \in [S -> Nat]
  PROVE  \E m \in S : \A k \in S : F[m] <= F[k]
<1>1. {F[k] : k \in S} \subseteq Nat /\ {F[k] : k \in S} # {}
  OBVIOUS
<1>2. PICK v \in {F[k] : k \in S} : \A w \in {F[k] : k \in S} : v <= w
  BY <1>1, Least
<1> QED
  BY <1>2

LEMMA NodesFinite == IsFiniteSet(Nodes)
<1>1. /\ IsFiniteSet(0 .. Width - 1) /\ IsFiniteSet(0 .. Height - 1)
      /\ IsFiniteSet(0 .. MAX_TIME - 1)
  BY SizeAssumption, FS_Interval
<1>2. IsFiniteSet(Cells)
  BY <1>1, FS_Product DEF Cells
<1> QED
  BY <1>1, <1>2, FS_Product DEF Nodes, Times

LEMMA HeuristicNat ==
  ASSUME NEW a \in Cells, NEW b \in Cells
  PROVE  Heuristic(a, b) \in Nat
<1>1. /\ Distance(a[1], b[1]) \in Nat
      /\ Distance(a[2], b[2]) \in Nat
  BY SizeAssumption DEF Cells, Distance
<1> HIDE DEF Distance
<1> QED
  BY <1>1 DEF Heuristic, Lesser

LEMMA ElemNat ==
  ASSUME NEW n \in Nodes, NEW cost \in Nat, query.goal \in Cells
  PROVE  Elem(n, cost).f \in Nat
<1>1. Heuristic(n[2], query.goal) \in Nat
  BY HeuristicNat DEF Nodes
<1> QED
  BY <1>1 DEF Elem

(* The least f, among those the least time, then the least x and y. *)
LEMMA TopFound == TypeOK /\ Bounded => TopExists
<1> SUFFICES ASSUME TypeOK, Bounded, open # {}
             PROVE  \E e \in open : IsTop(e)
  BY DEF TopExists
<1>1. \A e \in open : /\ e.f \in Nat /\ e.time \in Nat
                      /\ e.pos[1] \in Nat /\ e.pos[2] \in Nat
  <2> SUFFICES ASSUME NEW e \in open
               PROVE  /\ e.f \in Nat /\ e.time \in Nat
                      /\ e.pos[1] \in Nat /\ e.pos[2] \in Nat
    OBVIOUS
  <2>1. <<e.time, e.pos>> \in Nodes /\ e.f \in Nat
    BY DEF TypeOK, Bounded
  <2>2. e.time \in Times /\ e.pos \in Cells
    BY <2>1 DEF Nodes
  <2> QED
    BY <2>1, <2>2 DEF Times, Cells
<1>2. PICK e1 \in open : \A q \in open : e1.f <= q.f
  <2> DEFINE F == [e \in open |-> e.f]
  <2>1. F \in [open -> Nat]
    BY <1>1
  <2>2. PICK m \in open : \A q \in open : F[m] <= F[q]
    BY <2>1, LeastBy
  <2> QED
    BY <2>2
<1> DEFINE S1 == {e \in open : e.f = e1.f}
<1>3. PICK e2 \in S1 : \A q \in S1 : e2.time <= q.time
  <2> DEFINE F == [e \in S1 |-> e.time]
  <2>1. F \in [S1 -> Nat] /\ S1 # {}
    BY <1>1
  <2>2. PICK m \in S1 : \A q \in S1 : F[m] <= F[q]
    <3> HIDE DEF F, S1
    <3> QED
      BY <2>1, LeastBy
  <2> QED
    BY <2>2
<1> DEFINE S2 == {e \in S1 : e.time = e2.time}
<1>4. PICK e3 \in S2 : \A q \in S2 : e3.pos[1] <= q.pos[1]
  <2> DEFINE F == [e \in S2 |-> e.pos[1]]
  <2>1. F \in [S2 -> Nat] /\ S2 # {}
    BY <1>1
  <2>2. PICK m \in S2 : \A q \in S2 : F[m] <= F[q]
    <3> HIDE DEF F, S2
    <3> QED
      BY <2>1, LeastBy
  <2> QED
    BY <2>2
<1> DEFINE S3 == {e \in S2 : e.pos[1] = e3.pos[1]}
<1>5. PICK e4 \in S3 : \A q \in S3 : e4.pos[2] <= q.pos[2]
  <2> DEFINE F == [e \in S3 |-> e.pos[2]]
  <2>1. F \in [S3 -> Nat] /\ S3 # {}
    BY <1>1
  <2>2. PICK m \in S3 : \A q \in S3 : F[m] <= F[q]
    <3> HIDE DEF F, S3
    <3> QED
      BY <2>1, LeastBy
  <2> QED
    BY <2>2
<1>6. /\ e4 \in open /\ e4.f = e1.f /\ e4.time = e2.time
      /\ e4.pos[1] = e3.pos[1]
  BY <1>5
<1>7. ASSUME NEW q \in open PROVE Before(e4, q)
  <2>1. e1.f <= q.f
    BY <1>2
  <2>2. q.f = e1.f => e2.time <= q.time
    BY <1>3
  <2>3. q.f = e1.f /\ q.time = e2.time => e3.pos[1] <= q.pos[1]
    BY <1>4
  <2>4. q.f = e1.f /\ q.time = e2.time /\ q.pos[1] = e3.pos[1] =>
          e4.pos[2] <= q.pos[2]
    BY <1>5
  <2> HIDE DEF S1, S2, S3
  <2>5. /\ q.f \in Nat /\ q.time \in Nat /\ q.pos[1] \in Nat /\ q.pos[2] \in Nat
        /\ e1.f \in Nat /\ e2.time \in Nat /\ e3.pos[1] \in Nat
        /\ e4.pos[2] \in Nat
    BY <1>1, <1>6, <1>2
  <2> QED
    BY <1>6, <2>1, <2>2, <2>3, <2>4, <2>5 DEF Before
<1> QED
  BY <1>6, <1>7 DEF IsTop

LEMMA SkipClosedShrinks ==
  ASSUME Inv, Bounded, phase = "search", NEW e \in open, SkipClosed(e)
  PROVE  Bounded' /\ Shrinks
<1>1. open' = open \ {e} /\ closed' = closed /\ phase' = "search"
  BY DEF SkipClosed
<1>2. IsFiniteSet(open') /\ Waiting' = Waiting - 1 /\ Waiting \in Nat
  BY <1>1, FS_RemoveElement, FS_CardinalityType DEF Bounded, Waiting
<1>3. Unexpanded' = Unexpanded
  BY <1>1 DEF Unexpanded, Nodes, Times, Cells
<1> QED
  BY <1>1, <1>2, <1>3 DEF Bounded, Shrinks

(* The node expanded leaves those still to be expanded, whatever is queued. *)
LEMMA ExpandShrinks ==
  ASSUME Inv, Bounded, phase = "search", NEW e \in open, Expand(e)
  PROVE  Bounded' /\ Shrinks
<1> DEFINE n == <<e.time, e.pos>>
           Cost(d) == g[n] + StepCost(e.pos, d)
           better ==
             IF TooLate(e.time) THEN {}
             ELSE {<<e.time + 1, d>> : d \in
                    {d \in Successors(n) :
                       /\ <<e.time + 1, d>> \notin closed
                       /\ Improves(<<e.time + 1, d>>, Cost(d))}}
           added == {Elem(m, Cost(m[2])) : m \in better}
<1>1. /\ n \notin closed /\ closed' = closed \cup {n} /\ phase' = "search"
      /\ open' = (open \ {e}) \cup added
  BY DEF Expand
<1>2. n \in Nodes /\ g[n] \in Nat /\ query.goal \in Cells
  <2>1. n \in DOMAIN g /\ DOMAIN g \subseteq Nodes /\ g[n] \in Nat
    BY DEF Inv, TypeOK
  <2> QED
    BY <2>1 DEF Inv, TypeOK
<1>3. \A d : Cost(d) \in Nat
  BY <1>2 DEF StepCost
<1>4. better \subseteq Nodes
  <2> SUFFICES ASSUME NEW m \in better PROVE m \in Nodes
    OBVIOUS
  <2>1. ~TooLate(e.time)
    OBVIOUS
  <2>2. PICK d \in Cells : m = <<e.time + 1, d>>
    BY <2>1 DEF Successors
  <2>3. e.time \in 0 .. MAX_TIME - 1
    BY <1>2 DEF Nodes, Times
  <2>4. e.time + 1 \in Times
    BY <2>1, <2>3, SizeAssumption DEF TooLate, Times
  <2> QED
    BY <2>2, <2>4 DEF Nodes
<1> HIDE DEF better, Cost
<1>5. IsFiniteSet(added)
  <2>1. IsFiniteSet(better)
    BY <1>4, NodesFinite, FS_Subset
  <2> DEFINE f == [m \in better |-> Elem(m, Cost(m[2]))]
  <2>2. f \in Surjection(better, added)
    BY DEF Surjection
  <2> HIDE DEF f, added
  <2> QED
    BY <2>1, <2>2, FS_Surjection
<1>6. \A q \in added : q.f \in Nat
  BY <1>2, <1>3, <1>4, ElemNat
<1> HIDE DEF added
<1>7. Bounded'
  <2>1. IsFiniteSet(open \ {e})
    BY FS_RemoveElement DEF Bounded
  <2>2. IsFiniteSet((open \ {e}) \cup added)
    BY <1>5, <2>1, FS_Union
  <2> QED
    BY <1>1, <1>6, <2>2 DEF Bounded
<1>8. Unexpanded' < Unexpanded
  <2> DEFINE rest == Nodes \ closed
  <2>1. n \in rest /\ Nodes \ closed' = rest \ {n}
    BY <1>1, <1>2
  <2>2. IsFiniteSet(rest)
    BY NodesFinite, FS_Difference
  <2>3. Unexpanded = Cardinality(rest) /\ Unexpanded' = Cardinality(rest \ {n})
    BY <2>1 DEF Unexpanded, Nodes, Times, Cells
  <2> HIDE DEF rest, n
  <2>4. Cardinality(rest) \in Nat
    BY <2>2, FS_CardinalityType
  <2>5. Cardinality(rest \ {n}) = Cardinality(rest) - 1
    BY <2>1, <2>2, FS_RemoveElement
  <2> QED
    BY <2>3, <2>4, <2>5
<1> QED
  BY <1>1, <1>7, <1>8 DEF Shrinks

LEMMA SearchShrinks == Inv /\ Bounded /\ Search => Bounded' /\ Shrinks
<1> SUFFICES ASSUME Inv, Bounded, Search PROVE Bounded' /\ Shrinks
  OBVIOUS
<1>1. PICK e \in open : SkipClosed(e) \/ ReachGoal(e) \/ Expand(e)
  BY DEF Search
<1>2. phase = "search"
  BY DEF Search
<1>3. CASE ReachGoal(e)
  <2>1. IsFiniteSet(open')
    BY <1>3, FS_RemoveElement DEF ReachGoal, Bounded
  <2> QED
    BY <1>2, <1>3, <2>1 DEF ReachGoal, Bounded, Shrinks
<1> QED
  BY <1>1, <1>2, <1>3, SkipClosedShrinks, ExpandShrinks

(* The node the walk goes on with has the time step before. *)
LEMMA ReconstructShrinks == Inv /\ Bounded /\ Reconstruct => Bounded' /\ Shrinks
<1> SUFFICES ASSUME Inv, Bounded, Reconstruct PROVE Bounded' /\ Shrinks
  OBVIOUS
<1>1. /\ phase = "reconstruct" /\ phase' = "reconstruct" /\ cursor # NoNode
      /\ cursor' = parent[cursor] /\ open' = open
  BY DEF Reconstruct
<1>2. cursor \in DOMAIN g /\ DOMAIN g \subseteq Nodes /\ Reached(cursor)
  BY <1>1 DEF Inv, TypeOK, Tree, Running
<1>3. cursor[1] \in Nat
  BY <1>2 DEF Nodes, Times
<1>4. Base = cursor[1] + 1
  BY <1>1 DEF Base
<1>5. Base' < Base
  <2>1. CASE parent[cursor] = NoNode
    BY <1>1, <1>3, <1>4, <2>1 DEF Base
  <2>2. CASE parent[cursor] # NoNode
    <3>1. parent[cursor] \in Nodes /\ cursor[1] = parent[cursor][1] + 1
      BY <1>2, <2>2 DEF Reached
    <3>2. parent[cursor][1] \in Nat
      BY <3>1 DEF Nodes, Times
    <3>3. Base' = parent[cursor][1] + 1
      BY <1>1, <2>2 DEF Base
    <3> QED
      BY <1>4, <3>1, <3>2, <3>3
  <2> QED
    BY <2>1, <2>2
<1> QED
  BY <1>1, <1>5 DEF Bounded, Shrinks

LEMMA NextShrinks == Inv /\ Bounded /\ Next => Bounded' /\ Shrinks
<1> SUFFICES ASSUME Inv, Bounded, Next PROVE Bounded' /\ Shrinks
  OBVIOUS
<1>1. CASE Begin
  <2> DEFINE first == <<0, query.start>>
  <2>1. /\ open' = {Elem(first, 0)} /\ phase = "called" /\ phase' = "search"
        /\ first \in Nodes /\ query.goal \in Cells
    BY <1>1, SizeAssumption DEF Begin, Inv, TypeOK, Nodes, Times
  <2>2. Elem(first, 0).f \in Nat
    BY <2>1, ElemNat
  <2>3. Bounded'
    BY <2>1, <2>2, FS_Singleton DEF Bounded
  <2> QED
    BY <2>1, <2>3 DEF Shrinks
<1>2. CASE Refuse \/ Stay \/ GiveUp \/ Return
  BY <1>2 DEF Refuse, Stay, GiveUp, Return, Bounded, Shrinks
<1> QED
  BY <1>1, <1>2, SearchShrinks, ReconstructShrinks DEF Next

LEMMA BoundedSpec == Spec => []Bounded
<1>1. Init => Bounded
  BY FS_EmptySet DEF Init, Bounded
<1>2. Inv /\ Bounded /\ [Next]_vars => Bounded'
  BY NextShrinks DEF vars, Bounded
<1> QED
  BY <1>1, <1>2, SpecInv, PTL DEF Spec

(* What the end of a call rests on, for any grid, any reservations and any *)
(* horizon: the loop of findPath finds a top as long as its queue is not   *)
(* empty, and no turn of either loop leaves as much to do as there was.    *)
Measured ==
  /\ Unexpanded \in Nat /\ Waiting \in Nat /\ Base \in Nat
  /\ TopExists

THEOREM LessToDo == Spec => []Measured /\ [][Shrinks]_vars
<1>1. Inv /\ Bounded => Measured
  <2> SUFFICES ASSUME Inv, Bounded PROVE Measured
    OBVIOUS
  <2>1. Unexpanded \in Nat /\ Waiting \in Nat
    BY NodesFinite, FS_Difference, FS_CardinalityType
       DEF Unexpanded, Waiting, Bounded
  <2>2. Base \in Nat
    BY DEF Inv, TypeOK, Base, Nodes, Times
  <2> QED
    BY <2>1, <2>2, TopFound DEF Inv, Measured
<1>2. Inv /\ Bounded /\ [Next]_vars => [Shrinks]_vars
  BY NextShrinks
<1> QED
  BY <1>1, <1>2, SpecInv, BoundedSpec, PTL DEF Spec

=============================================================================
