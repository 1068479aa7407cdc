------------------------ MODULE PathfinderCostProofs ------------------------
(***************************************************************************)
(* That the search returns a cheapest route, although its heuristic is no  *)
(* lower bound of the costs and it never opens a closed node again.        *)
(*                                                                         *)
(* The heuristic is the sum of a part that is consistent (Estimate) and of *)
(* 21 for each diagonal move.  A node taken from the queue would be closed *)
(* at a cost that is too high only if that cost exceeded the cheapest one  *)
(* by at most 21 times the diagonals of another node, less than 200 on the *)
(* grid of the code; and all costs are multiples of 200.                   *)
(*                                                                         *)
(* The definition the search is compared with is a recursive function of   *)
(* time, so that some steps are inductions over data.  They use that < is  *)
(* well founded on the natural numbers: Induction and Recursion below.     *)
(***************************************************************************)
EXTENDS PathfinderProofs

(* All costs of the search are among these. *)
Multiples == {200 * j : j \in Nat}

(* The part of the heuristic that never falls by more than a step costs.   *)
Estimate(c) ==
  LET dx == Distance(c[1], query.goal[1])
      dy == Distance(c[2], query.goal[2])
  IN  100000 * (dx + dy) - 58600 * Lesser(dx, dy)

(* Costs are those of some way, and no less than the cheapest.             *)
Priced ==
  Running => \A n \in DOMAIN g :
    /\ g[n] \in Multiples
    /\ \E e \in LeastAt[n[1]] : e[1] = n[2] /\ e[2] <= g[n]

(* A node is expanded at the cheapest cost there is. *)
Settled == Running => \A n \in closed : <<n[2], g[n]>> \in LeastAt[n[1]]

(* What an expanded node leads to has been reached, and at no more.        *)
Expanded ==
  phase = "search" => \A n \in closed :
    /\ n[2] # query.goal
    /\ \A d \in Cells :
         n[1] + 1 < MAX_TIME /\ Permitted(n[2], d, n[1] + 1) =>
           /\ <<n[1] + 1, d>> \in DOMAIN g
           /\ g[<<n[1] + 1, d>>] <= g[n] + StepCost(n[2], d)

(* A node reached and not expanded is in the queue at its cost; what is in *)
(* the queue at an older cost comes later than that.                       *)
Queued ==
  phase = "search" =>
    /\ <<0, query.start>> \in DOMAIN g /\ g[<<0, query.start>>] = 0
    /\ \A n \in DOMAIN g \ closed : Elem(n, g[n]) \in open
    /\ \A e \in open :
         <<e.time, e.pos>> \notin closed =>
           e.f >= g[<<e.time, e.pos>>] + Heuristic(e.pos, query.goal)

Parents ==
  Running => \A n \in DOMAIN g :
    IF parent[n] = NoNode THEN g[n] = 0
    ELSE /\ parent[n] \in closed
         /\ g[n] = g[parent[n]] + StepCost(parent[n][2], n[2])

(* The node of the i-th cell of what has been put together. *)
NodeOf(i) == <<Base + i - 1, path[i]>>

Best(cost) == \A c \in LeastCosts : cost <= c

Summed ==
  phase = "reconstruct" =>
    IF path = <<>> THEN cursor \in closed /\ Best(g[cursor])
    ELSE /\ \A i \in 1 .. Len(path) : NodeOf(i) \in closed
         /\ \A i \in 2 .. Len(path) :
              g[NodeOf(i)] = g[NodeOf(i - 1)] + StepCost(path[i - 1], path[i])
         /\ IF cursor = NoNode THEN g[NodeOf(1)] = 0
            ELSE /\ cursor \in closed
                 /\ g[NodeOf(1)] = g[cursor] + StepCost(cursor[2], path[1])
         /\ Best(g[NodeOf(Len(path))])

CostInv ==
  Priced /\ Settled /\ Expanded /\ Queued /\ Parents /\ Summed /\ RouteIsCheapest

-----------------------------------------------------------------------------
(* Induction and recursion on the natural numbers, from < being well       *)
(* founded on them.                                                        *)

(* Induction for a set of natural numbers. *)
LEMMA Induction ==
  ASSUME NEW S, 0 \in S, \A n \in Nat : n \in S => n + 1 \in S
  PROVE  Nat \subseteq S
<1> SUFFICES ASSUME Nat \ S # {} PROVE FALSE
  OBVIOUS
<1>1. PICK m \in Nat \ S : \A k \in Nat \ S : m <= k
  BY Least
<1>2. m # 0 /\ m - 1 \in Nat
  BY <1>1
<1>3. m - 1 \in S
  BY <1>1, <1>2
<1>4. (m - 1) + 1 \in S
  BY <1>2, <1>3
<1> QED
  BY <1>1, <1>4

(* What a recursive function on the natural numbers satisfies.             *)
Iterates(f, V, v0, step) ==
  /\ f \in [Nat -> V]
  /\ f[0] = v0
  /\ \A n \in Nat : f[n + 1] = step[<<n, f[n]>>]

(* Recursion: the finite beginnings exist, and agree with one another. *)
LEMMA Recursion ==
  ASSUME NEW V, NEW v0 \in V, NEW step \in [Nat \X V -> V]
  PROVE  \E f : Iterates(f, V, v0, step)
<1> DEFINE Follows(h, n) ==
             h[0] = v0 /\ \A i \in 0 .. n - 1 : h[i + 1] = step[<<i, h[i]>>]
           Begun(n) == {h \in [0 .. n -> V] : Follows(h, n)}
<1>1. \A n \in Nat : Begun(n) # {}
  <2> DEFINE S == {n \in Nat : Begun(n) # {}}
  <2>1. 0 \in S
    <3>1. [i \in 0 .. 0 |-> v0] \in Begun(0)
      OBVIOUS
    <3> QED
      BY <3>1
  <2>2. ASSUME NEW n \in Nat, n \in S PROVE n + 1 \in S
    <3>1. PICK h \in [0 .. n -> V] : Follows(h, n)
      BY <2>2
    <3> DEFINE k == [i \in 0 .. n + 1 |->
                       IF i = n + 1 THEN step[<<n, h[n]>>] ELSE h[i]]
    <3>2. step[<<n, h[n]>>] \in V
      OBVIOUS
    <3>3. k \in [0 .. n + 1 -> V]
      BY <3>2
    <3>4. k[0] = v0
      BY <3>1
    <3>5. \A i \in 0 .. n : k[i + 1] = step[<<i, k[i]>>]
      <4> SUFFICES ASSUME NEW i \in 0 .. n PROVE k[i + 1] = step[<<i, k[i]>>]
        OBVIOUS
      <4>1. CASE i = n
        <5>1. n \in 0 .. n + 1 /\ n + 1 \in 0 .. n + 1 /\ n # n + 1
          OBVIOUS
        <5>2. k[n + 1] = step[<<n, h[n]>>] /\ k[n] = h[n]
          BY <5>1
        <5> QED
          BY <4>1, <5>2
      <4>2. CASE i # n
        <5>1. i \in 0 .. n - 1 /\ i + 1 \in 0 .. n + 1 /\ i + 1 # n + 1 /\ i # n + 1
          BY <4>2
        <5>2. k[i + 1] = h[i + 1] /\ k[i] = h[i]
          BY <5>1
        <5> QED
          BY <3>1, <5>1, <5>2
      <4> QED
        BY <4>1, <4>2
    <3>6. (n + 1) - 1 = n
      OBVIOUS
    <3> HIDE DEF k
    <3>7. k \in Begun(n + 1)
      BY <3>3, <3>4, <3>5, <3>6
    <3>8. Begun(n + 1) # {}
      BY <3>7
    <3> HIDE DEF Begun
    <3> QED
      BY <3>8
  <2> HIDE DEF S
  <2>3. Nat \subseteq S
    BY <2>1, <2>2, Induction
  <2> QED
    BY <2>3 DEF S
<1>2. ASSUME NEW n \in Nat, NEW m \in Nat, n <= m, NEW h \in Begun(n), NEW k \in Begun(m)
      PROVE  \A i \in 0 .. n : h[i] = k[i]
  <2> DEFINE S == {i \in Nat : i \in 0 .. n => h[i] = k[i]}
  <2>1. 0 \in S
    OBVIOUS
  <2>2. ASSUME NEW i \in Nat, i \in S PROVE i + 1 \in S
    <3> SUFFICES ASSUME i + 1 \in 0 .. n PROVE h[i + 1] = k[i + 1]
      OBVIOUS
    <3>1. i \in 0 .. n - 1 /\ i \in 0 .. m - 1 /\ i \in 0 .. n
      BY <1>2
    <3>2. h[i] = k[i]
      BY <2>2, <3>1
    <3> QED
      BY <3>1, <3>2
  <2> HIDE DEF S
  <2>3. Nat \subseteq S
    BY <2>1, <2>2, Induction
  <2> QED
    BY <2>3 DEF S
<1> HIDE DEF Begun
<1> DEFINE part == [n \in Nat |-> CHOOSE h : h \in Begun(n)]
           f == [n \in Nat |-> part[n][n]]
<1>3. \A n \in Nat : part[n] \in Begun(n)
  BY <1>1
<1> HIDE DEF part
<1>4. \A n \in Nat : part[n] \in [0 .. n -> V] /\ Follows(part[n], n)
  BY <1>3 DEF Begun
<1>5. f \in [Nat -> V]
  BY <1>4
<1>6. f[0] = v0
  BY <1>4
<1>7. ASSUME NEW n \in Nat PROVE f[n + 1] = step[<<n, f[n]>>]
  <2>1. n + 1 \in Nat /\ n <= n + 1 /\ n \in 0 .. n /\ n \in 0 .. (n + 1) - 1
    OBVIOUS
  <2>2. part[n][n] = part[n + 1][n]
    BY <1>2, <1>3, <2>1
  <2>3. part[n + 1][n + 1] = step[<<n, part[n + 1][n]>>]
    BY <1>4, <2>1
  <2> QED
    BY <2>1, <2>2, <2>3
<1> QED
  BY <1>5, <1>6, <1>7 DEF Iterates
-----------------------------------------------------------------------------
(* The equations of the two recursive functions. *)

OneStepOn(last, t) ==
  UNION {{<<d, e[2] + StepCost(e[1], d)>> :
            d \in {d \in Cells : Permitted(e[1], d, t)}} : e \in last}

Cheapest(all) == {e \in all : \A d \in all : d[1] = e[1] => e[2] <= d[2]}

NextAt(S, t) == Cheapest(OneStepOn({e \in S : e[1] # query.goal}, t))

LEMMA StepCostType ==
  ASSUME NEW c, NEW d
  PROVE  StepCost(c, d) \in Nat /\ StepCost(c, d) \in Multiples
<1>1. 120000 = 200 * 600 /\ 141400 = 200 * 707 /\ 100000 = 200 * 500
  OBVIOUS
<1> QED
  BY <1>1 DEF StepCost, Multiples

(* Every cost is a multiple of 200, so that two costs that differ by less  *)
(* are the same.                                                           *)
LEMMA MultiplesFacts ==
  /\ Multiples \subseteq Nat
  /\ 0 \in Multiples
  /\ \A a, b \in Multiples : a + b \in Multiples
  /\ \A a, b \in Multiples : a < b + 200 => a <= b
<1>1. Multiples \subseteq Nat
  BY DEF Multiples
<1>2. 0 \in Multiples
  <2>1. 0 = 200 * 0
    OBVIOUS
  <2> QED
    BY <2>1 DEF Multiples
<1>3. ASSUME NEW a \in Multiples, NEW b \in Multiples
      PROVE  a + b \in Multiples /\ (a < b + 200 => a <= b)
  <2>1. PICK i \in Nat : a = 200 * i
    BY DEF Multiples
  <2>2. PICK j \in Nat : b = 200 * j
    BY DEF Multiples
  <2>3. a + b = 200 * (i + j) /\ i + j \in Nat
    BY <2>1, <2>2
  <2>4. a < b + 200 => a <= b
    BY <2>1, <2>2
  <2> QED
    BY <2>3, <2>4 DEF Multiples
<1> QED
  BY <1>1, <1>2, <1>3

LEMMA NextAtType ==
  ASSUME NEW S \in SUBSET (Cells \X Multiples), NEW t
  PROVE  NextAt(S, t) \in SUBSET (Cells \X Multiples)
<1> SUFFICES ASSUME NEW e \in NextAt(S, t) PROVE e \in Cells \X Multiples
  OBVIOUS
<1>1. PICK b \in S, d \in Cells : e = <<d, b[2] + StepCost(b[1], d)>>
  BY DEF NextAt, Cheapest, OneStepOn
<1>2. b[2] \in Multiples /\ StepCost(b[1], d) \in Multiples
  BY StepCostType
<1> QED
  BY <1>1, <1>2, MultiplesFacts

LEMMA LeastAtEquations ==
  ASSUME query.start \in Cells
  PROVE  /\ LeastAt[0] = {<<query.start, 0>>}
         /\ \A t \in Nat : t + 1 \in Times => LeastAt[t + 1] = NextAt(LeastAt[t], t + 1)
<1> DEFINE V == SUBSET (Cells \X Multiples)
           step == [p \in Nat \X V |-> NextAt(p[2], p[1] + 1)]
           v0 == {<<query.start, 0>>}
<1>1. v0 \in V
  BY MultiplesFacts
<1>2. step \in [Nat \X V -> V]
  BY NextAtType
<1>3. \A t \in Nat, S \in V : step[<<t, S>>] = NextAt(S, t + 1)
  OBVIOUS
<1> HIDE DEF V, step, v0
<1>4. PICK f : Iterates(f, V, v0, step)
  BY <1>1, <1>2, Recursion
<1>5. f \in [Nat -> V] /\ f[0] = v0 /\ \A t \in Nat : f[t + 1] = NextAt(f[t], t + 1)
  BY <1>3, <1>4 DEF Iterates
<1> DEFINE Body(a) == [t \in Times |-> IF t = 0 THEN v0 ELSE NextAt(a[t - 1], t)]
           a == [t \in Times |-> f[t]]
<1>6. a = Body(a)
  <2> SUFFICES ASSUME NEW t \in Times
               PROVE  f[t] = IF t = 0 THEN v0 ELSE NextAt(a[t - 1], t)
    OBVIOUS
  <2>1. CASE t = 0
    BY <1>5, <2>1
  <2>2. CASE t # 0
    <3>1. t - 1 \in Nat /\ t - 1 \in Times /\ (t - 1) + 1 = t
      BY <2>2, SizeAssumption DEF Times
    <3>2. f[t] = NextAt(f[t - 1], t)
      BY <1>5, <3>1
    <3> QED
      BY <2>2, <3>1, <3>2
  <2> QED
    BY <2>1, <2>2
<1>7. LeastAt = CHOOSE b : b = Body(b)
  BY Zenon DEF LeastAt, NextAt, Cheapest, OneStepOn, v0
<1>8. LeastAt = Body(LeastAt)
  BY <1>6, <1>7
<1>9. 0 \in Times
  BY SizeAssumption DEF Times
<1>10. LeastAt[0] = v0
  BY <1>8, <1>9
<1>11. ASSUME NEW t \in Nat, t + 1 \in Times
       PROVE  LeastAt[t + 1] = NextAt(LeastAt[t], t + 1)
  <2>1. t + 1 # 0 /\ (t + 1) - 1 = t
    OBVIOUS
  <2> QED
    BY <1>8, <1>11, <2>1
<1> QED
  BY <1>10, <1>11 DEF v0

LEMMA LeastAtKept == UNCHANGED <<obstacles, reserved, query>> => LeastAt' = LeastAt
BY DEF LeastAt, Permitted

LEMMA LeastCostsKept == UNCHANGED <<obstacles, reserved, query>> => LeastCosts' = LeastCosts
BY LeastAtKept DEF LeastCosts

PathCostSums ==
  /\ PathCost \in [Nat -> Nat]
  /\ \A i \in Nat :
       PathCost[i] = IF i <= 1 THEN 0 ELSE PathCost[i - 1] + StepCost(path[i - 1], path[i])

LEMMA PathCostEquations == PathCostSums
<1> DEFINE step == [p \in Nat \X Nat |->
                      IF p[1] = 0 THEN 0 ELSE p[2] + StepCost(path[p[1]], path[p[1] + 1])]
<1>1. 0 \in Nat
  OBVIOUS
<1>2. step \in [Nat \X Nat -> Nat]
  BY StepCostType
<1>3. \A i \in Nat, c \in Nat : step[<<i, c>>] =
        IF i = 0 THEN 0 ELSE c + StepCost(path[i], path[i + 1])
  OBVIOUS
<1> HIDE DEF step
<1>4. \E f : Iterates(f, Nat, 0, step)
  BY <1>1, <1>2, Recursion
<1>5. PICK f \in [Nat -> Nat] :
        f[0] = 0 /\ \A i \in Nat : f[i + 1] = step[<<i, f[i]>>]
  BY <1>4 DEF Iterates
<1> DEFINE Body(a) == [i \in Nat |->
             IF i <= 1 THEN 0 ELSE a[i - 1] + StepCost(path[i - 1], path[i])]
<1>6. ASSUME NEW i \in Nat
      PROVE  f[i] = IF i <= 1 THEN 0 ELSE f[i - 1] + StepCost(path[i - 1], path[i])
  <2>1. CASE i = 0
    BY <1>5, <2>1
  <2>2. CASE i # 0
    <3>1. i - 1 \in Nat /\ (i - 1) + 1 = i /\ (i <= 1 <=> i - 1 = 0)
      BY <2>2
    <3>2. f[i] = step[<<i - 1, f[i - 1]>>]
      BY <1>5, <3>1
    <3>3. f[i - 1] \in Nat
      BY <3>1
    <3>4. step[<<i - 1, f[i - 1]>>] =
            IF i - 1 = 0 THEN 0 ELSE f[i - 1] + StepCost(path[i - 1], path[(i - 1) + 1])
      BY <1>3, <3>1, <3>3
    <3> QED
      BY <3>1, <3>2, <3>4
  <2> QED
    BY <2>1, <2>2
<1>7. f = Body(f)
  BY <1>6
<1>8. PathCost = CHOOSE b : b = Body(b)
  BY Zenon DEF PathCost
<1>9. PathCost = Body(PathCost)
  BY <1>7, <1>8
<1> DEFINE same == {i \in Nat : PathCost[i] = f[i]}
<1>10. Nat \subseteq same
  <2>1. 0 \in same
    BY <1>5, <1>9
  <2>2. ASSUME NEW i \in Nat, i \in same PROVE i + 1 \in same
    <3>1. (i + 1) - 1 = i /\ i + 1 \in Nat /\ PathCost[i] = f[i]
      BY <2>2
    <3>2. /\ f[i + 1] = IF i + 1 <= 1 THEN 0
                        ELSE f[i] + StepCost(path[i], path[i + 1])
          /\ PathCost[i + 1] = IF i + 1 <= 1 THEN 0
                               ELSE PathCost[i] + StepCost(path[i], path[i + 1])
      BY <1>6, <1>9, <3>1
    <3> QED
      BY <3>1, <3>2
  <2> HIDE DEF same
  <2> QED
    BY <2>1, <2>2, Induction
<1>11. \A i \in Nat : PathCost[i] \in Nat
  BY <1>10
<1> QED
  BY <1>9, <1>11 DEF PathCostSums

LEMMA LeastAtType ==
  ASSUME query.start \in Cells
  PROVE  \A t \in Times : LeastAt[t] \in SUBSET (Cells \X Multiples)
<1> DEFINE S == {t \in Nat : t \in Times => LeastAt[t] \in SUBSET (Cells \X Multiples)}
<1>1. 0 \in S
  BY LeastAtEquations, MultiplesFacts
<1>2. ASSUME NEW t \in Nat, t \in S PROVE t + 1 \in S
  <2>1. t + 1 \in Times => t \in Times
    BY SizeAssumption DEF Times
  <2> QED
    BY <1>2, <2>1, LeastAtEquations, NextAtType
<1> HIDE DEF S
<1>3. Nat \subseteq S
  BY <1>1, <1>2, Induction
<1>4. Times \subseteq Nat
  BY DEF Times
<1> QED
  BY <1>3, <1>4 DEF S

(* One cost for each cell. *)
LEMMA LeastAtUnique ==
  ASSUME query.start \in Cells, NEW t \in Times,
         NEW p \in LeastAt[t], NEW q \in LeastAt[t], p[1] = q[1]
  PROVE  p[2] = q[2]
<1>1. p[2] \in Nat /\ q[2] \in Nat
  BY LeastAtType, MultiplesFacts
<1>2. CASE t = 0
  BY <1>2, LeastAtEquations
<1>3. CASE t # 0
  <2>1. t - 1 \in Nat /\ (t - 1) + 1 = t
    BY <1>3 DEF Times
  <2>2. LeastAt[t] = NextAt(LeastAt[t - 1], t)
    BY <2>1, LeastAtEquations
  <2>3. p[2] <= q[2] /\ q[2] <= p[2]
    BY <2>2 DEF NextAt, Cheapest
  <2> QED
    BY <1>1, <2>3
<1> QED
  BY <1>2, <1>3

(* Where a robot can be, it came from where it could be one step earlier.  *)
LEMMA LeastAtFrom ==
  ASSUME query.start \in Cells, NEW t \in Nat, t + 1 \in Times,
         NEW p \in LeastAt[t + 1]
  PROVE  \E b \in LeastAt[t] :
           /\ b[1] # query.goal
           /\ Permitted(b[1], p[1], t + 1)
           /\ p[2] = b[2] + StepCost(b[1], p[1])
<1>1. p \in NextAt(LeastAt[t], t + 1)
  BY LeastAtEquations
<1>2. PICK b \in {e \in LeastAt[t] : e[1] # query.goal}, d \in Cells :
        Permitted(b[1], d, t + 1) /\ p = <<d, b[2] + StepCost(b[1], d)>>
  BY <1>1 DEF NextAt, Cheapest, OneStepOn
<1> QED
  BY <1>2

(* And where it can go, it can be one step later, at no more than that.    *)
LEMMA LeastAtTo ==
  ASSUME query.start \in Cells, NEW t \in Nat, t + 1 \in Times,
         NEW b \in LeastAt[t], b[1] # query.goal,
         NEW d \in Cells, Permitted(b[1], d, t + 1)
  PROVE  \E p \in LeastAt[t + 1] : p[1] = d /\ p[2] <= b[2] + StepCost(b[1], d)
<1> DEFINE last == {e \in LeastAt[t] : e[1] # query.goal}
           all == OneStepOn(last, t + 1)
           costs == {e[2] : e \in {e \in all : e[1] = d}}
           here == <<d, b[2] + StepCost(b[1], d)>>
<1>1. t \in Times
  BY SizeAssumption DEF Times
<1>2. all \subseteq Cells \X Nat
  <2> SUFFICES ASSUME NEW e \in all PROVE e \in Cells \X Nat
    OBVIOUS
  <2>1. PICK a \in LeastAt[t], c \in Cells : e = <<c, a[2] + StepCost(a[1], c)>>
    BY DEF OneStepOn
  <2>2. a[2] \in Nat /\ StepCost(a[1], c) \in Nat
    BY <1>1, LeastAtType, MultiplesFacts, StepCostType
  <2> QED
    BY <2>1, <2>2
<1>3. here \in all
  BY DEF OneStepOn
<1>4. LeastAt[t + 1] = Cheapest(all)
  BY LeastAtEquations DEF NextAt
<1> HIDE DEF all
<1>5. costs \subseteq Nat /\ here[2] \in costs
  BY <1>2, <1>3
<1>6. PICK k \in costs : \A l \in costs : k <= l
  BY <1>5, Least
<1>7. PICK p \in all : p[1] = d /\ p[2] = k
  BY <1>6
<1>8. \A e \in all : e[1] = p[1] => p[2] <= e[2]
  BY <1>6, <1>7
<1>9. p \in Cheapest(all)
  BY <1>7, <1>8 DEF Cheapest
<1>10. p[2] <= here[2]
  BY <1>5, <1>6, <1>7
<1> QED
  BY <1>4, <1>7, <1>9, <1>10

-----------------------------------------------------------------------------
(* The heuristic and the frontier of the search. *)

SmallGrid == Lesser(Width, Height) <= 10

(* A step cannot make the estimate fall by more than the step costs.       *)
LEMMA EstimateConsistent ==
  ASSUME query.goal \in Cells, NEW c \in Cells, NEW d \in Cells, NEW t,
         Permitted(c, d, t)
  PROVE  /\ Estimate(c) \in Int /\ Estimate(d) \in Int
         /\ Estimate(c) <= StepCost(c, d) + Estimate(d)
<1>1. PICK cx \in 0 .. Width - 1, cy \in 0 .. Height - 1 : c = <<cx, cy>>
  BY DEF Cells
<1>2. PICK dx \in 0 .. Width - 1, dy \in 0 .. Height - 1 : d = <<dx, dy>>
  BY DEF Cells
<1>3. PICK gx \in 0 .. Width - 1, gy \in 0 .. Height - 1 : query.goal = <<gx, gy>>
  BY DEF Cells
<1>4. dx - cx \in {-1, 0, 1} /\ dy - cy \in {-1, 0, 1}
  BY <1>1, <1>2 DEF Permitted
<1>5. cx \in Int /\ cy \in Int /\ dx \in Int /\ dy \in Int /\ gx \in Int /\ gy \in Int
  OBVIOUS
<1> DEFINE Far(x, y) == IF x < y THEN y - x ELSE x - y
           Est(x, y) == 100000 * (Far(x, gx) + Far(y, gy))
                        - 58600 * (IF Far(x, gx) < Far(y, gy) THEN Far(x, gx) ELSE Far(y, gy))
<1>6. Estimate(c) = Est(cx, cy) /\ Estimate(d) = Est(dx, dy)
  BY <1>1, <1>2, <1>3 DEF Estimate, Distance, Lesser
<1>7. StepCost(c, d) = IF cx = dx /\ cy = dy THEN 120000
                       ELSE IF cx # dx /\ cy # dy THEN 141400 ELSE 100000
  BY <1>1, <1>2 DEF StepCost
<1>8. Est(cx, cy) <= StepCost(c, d) + Est(dx, dy)
  BY <1>4, <1>5, <1>7, SMTT(30)
<1>9. Est(cx, cy) \in Int /\ Est(dx, dy) \in Int
  BY <1>5
<1> QED
  BY <1>6, <1>8, <1>9

(* The heuristic is above the estimate, but by less than two costs differ. *)
LEMMA HeuristicNearEstimate ==
  ASSUME SmallGrid, query.goal \in Cells, NEW c \in Cells
  PROVE  /\ Estimate(c) \in Int /\ Heuristic(c, query.goal) \in Int
         /\ Estimate(c) <= Heuristic(c, query.goal)
         /\ Heuristic(c, query.goal) < Estimate(c) + 200
<1>1. PICK cx \in 0 .. Width - 1, cy \in 0 .. Height - 1 : c = <<cx, cy>>
  BY DEF Cells
<1>2. PICK gx \in 0 .. Width - 1, gy \in 0 .. Height - 1 : query.goal = <<gx, gy>>
  BY DEF Cells
<1> DEFINE dx == IF cx < gx THEN gx - cx ELSE cx - gx
           dy == IF cy < gy THEN gy - cy ELSE cy - gy
           m == IF dx < dy THEN dx ELSE dy
<1>3. cx \in Int /\ cy \in Int /\ gx \in Int /\ gy \in Int /\ Width \in Int /\ Height \in Int
  BY SizeAssumption
<1>4. dx \in Int /\ dy \in Int /\ 0 <= dx /\ 0 <= dy /\ dx < Width /\ dy < Height
  BY <1>3
<1>5. Estimate(c) = 100000 * (dx + dy) - 58600 * m
  BY <1>1, <1>2 DEF Estimate, Distance, Lesser
<1>6. Heuristic(c, query.goal) = 100000 * (dx + dy) - 58579 * m
  BY <1>1, <1>2 DEF Heuristic, Distance, Lesser
<1> HIDE DEF dx, dy
<1>7. m \in Int /\ 0 <= m /\ m <= 9
  BY <1>3, <1>4 DEF SmallGrid, Lesser
<1> HIDE DEF m
<1> QED
  BY <1>4, <1>5, <1>6, <1>7

(* The search asks for no more than Permitted does. *)
LEMMA PermittedSuccessor ==
  ASSUME NEW t \in Nat, NEW c \in Cells, NEW d \in Cells, Permitted(c, d, t + 1)
  PROVE  d \in Successors(<<t, c>>)
<1>1. PICK cx \in 0 .. Width - 1, cy \in 0 .. Height - 1 : c = <<cx, cy>>
  BY DEF Cells
<1>2. PICK x \in 0 .. Width - 1, y \in 0 .. Height - 1 : d = <<x, y>>
  BY DEF Cells
<1>3. x - cx \in {-1, 0, 1} /\ y - cy \in {-1, 0, 1}
  BY <1>1, <1>2 DEF Permitted
<1>4. Near(c, d)
  BY <1>1, <1>2, <1>3 DEF Near, Distance
<1>5. IsWalkable(d) /\ CornersFree(c, d)
  BY DEF Permitted, IsWalkable, CornersFree
<1>6. ~Blocked(d, t + 1)
  BY DEF Permitted, Blocked
<1> QED
  BY <1>4, <1>5, <1>6 DEF Successors

(* What the search relies on between two turns of its loop.                *)
Frontier == phase = "search" /\ Inv /\ Settled /\ Expanded /\ Queued

(* Each way to a node that is not expanded yet leads through a node of the *)
(* queue, whose cost and estimate are no more than those of the way.       *)
LEMMA FrontierBefore ==
  ASSUME Frontier, NEW t \in Times, NEW e \in LeastAt[t], <<t, e[1]>> \notin closed
  PROVE  \E p \in DOMAIN g \ closed : g[p] + Estimate(p[2]) <= e[2] + Estimate(e[1])
<1> DEFINE Ahead(p, b) == g[p] + Estimate(p[2]) <= b[2] + Estimate(b[1])
           S == {i \in Nat : i \in Times =>
                   \A b \in LeastAt[i] :
                     <<i, b[1]>> \notin closed => \E p \in DOMAIN g \ closed : Ahead(p, b)}
<1>1. /\ query.start \in Cells /\ query.goal \in Cells
      /\ \A n \in DOMAIN g : g[n] \in Nat /\ n \in Nodes
  BY DEF Frontier, Inv, TypeOK
<1>2. 0 \in S
  <2> SUFFICES ASSUME NEW b \in LeastAt[0], <<0, b[1]>> \notin closed
               PROVE  \E p \in DOMAIN g \ closed : Ahead(p, b)
    OBVIOUS
  <2>1. b = <<query.start, 0>>
    BY <1>1, LeastAtEquations
  <2>2. <<0, query.start>> \in DOMAIN g /\ g[<<0, query.start>>] = 0
    BY DEF Frontier, Queued
  <2>3. Estimate(query.start) \in Int
    BY <1>1 DEF Estimate, Distance, Lesser, Cells
  <2>4. Ahead(<<0, query.start>>, b)
    BY <2>1, <2>2, <2>3
  <2> QED
    BY <2>1, <2>2, <2>4
<1>3. ASSUME NEW i \in Nat, i \in S PROVE i + 1 \in S
  <2> SUFFICES ASSUME i + 1 \in Times, NEW b \in LeastAt[i + 1], <<i + 1, b[1]>> \notin closed
               PROVE  \E p \in DOMAIN g \ closed : Ahead(p, b)
    OBVIOUS
  <2>1. i \in Times /\ i + 1 < MAX_TIME
    BY SizeAssumption DEF Times
  <2>2. PICK a \in LeastAt[i] :
          /\ a[1] # query.goal
          /\ Permitted(a[1], b[1], i + 1)
          /\ b[2] = a[2] + StepCost(a[1], b[1])
    BY <1>1, LeastAtFrom
  <2>3. /\ a[1] \in Cells /\ a[2] \in Nat /\ a = <<a[1], a[2]>>
        /\ b[1] \in Cells /\ b[2] \in Nat
    BY <1>1, <2>1, LeastAtType, MultiplesFacts
  <2>4. StepCost(a[1], b[1]) \in Nat
    BY StepCostType
  <2>5. /\ Estimate(a[1]) \in Int /\ Estimate(b[1]) \in Int
        /\ Estimate(a[1]) <= StepCost(a[1], b[1]) + Estimate(b[1])
    BY <1>1, <2>2, <2>3, EstimateConsistent
  <2>6. CASE <<i, a[1]>> \in closed
    <3> DEFINE n == <<i, a[1]>>
               m == <<i + 1, b[1]>>
    <3>1. n \in DOMAIN g /\ <<a[1], g[n]>> \in LeastAt[i]
      BY <2>6 DEF Frontier, Inv, TypeOK, Settled, Running
    <3>2. g[n] = a[2]
      BY <1>1, <2>1, <3>1, LeastAtUnique
    <3>3. m \in DOMAIN g /\ g[m] <= g[n] + StepCost(a[1], b[1])
      BY <2>1, <2>2, <2>3, <2>6 DEF Frontier, Expanded
    <3>4. g[m] \in Nat /\ g[m] <= b[2]
      BY <1>1, <2>2, <3>2, <3>3
    <3>5. Ahead(m, b)
      BY <2>3, <2>5, <3>4
    <3> QED
      BY <3>3, <3>5
  <2>7. CASE <<i, a[1]>> \notin closed
    <3>1. PICK p \in DOMAIN g \ closed : Ahead(p, a)
      BY <1>3, <2>1, <2>7
    <3>2. g[p] \in Nat /\ Estimate(p[2]) \in Int
      BY <1>1 DEF Estimate, Distance, Lesser, Nodes, Cells
    <3>3. Ahead(p, b)
      BY <2>2, <2>3, <2>4, <2>5, <3>1, <3>2
    <3> QED
      BY <3>3
  <2> QED
    BY <2>6, <2>7
<1> HIDE DEF S
<1>4. Nat \subseteq S
  BY <1>2, <1>3, Induction
<1>5. t \in S
  BY <1>4 DEF Times
<1> QED
  BY <1>5 DEF S

(* What is taken from the queue cannot be had cheaper: what the frontier   *)
(* holds has a greater f, and the heuristic exceeds the estimate by less   *)
(* than any difference of two costs.                                       *)
LEMMA TopIsCheapest ==
  ASSUME SmallGrid, Frontier, Priced, NEW e \in open, IsTop(e), <<e.time, e.pos>> \notin closed,
         NEW t \in Times, NEW w \in LeastAt[t], <<t, w[1]>> \notin closed,
         w[1] = e.pos
  PROVE  g[<<e.time, e.pos>>] <= w[2]
<1> DEFINE n == <<e.time, e.pos>>
<1>1. /\ query.start \in Cells /\ query.goal \in Cells
      /\ \A m \in DOMAIN g : g[m] \in Multiples /\ m[2] \in Cells
      /\ n \in DOMAIN g /\ e.f \in Int
  BY DEF Frontier, Inv, TypeOK, Priced, Running, Nodes
<1>2. PICK p \in DOMAIN g \ closed : g[p] + Estimate(p[2]) <= w[2] + Estimate(w[1])
  BY FrontierBefore
<1>3. /\ Elem(p, g[p]) \in open
      /\ e.f >= g[n] + Heuristic(e.pos, query.goal)
  BY DEF Frontier, Queued
<1>4. /\ Heuristic(p[2], query.goal) \in Int /\ Heuristic(e.pos, query.goal) \in Int
      /\ Estimate(p[2]) \in Int /\ Estimate(e.pos) \in Int
      /\ Estimate(e.pos) <= Heuristic(e.pos, query.goal)
      /\ Heuristic(p[2], query.goal) < Estimate(p[2]) + 200
  BY <1>1, HeuristicNearEstimate
<1>5. g[p] \in Multiples /\ g[n] \in Multiples /\ w[2] \in Multiples
  BY <1>1, LeastAtType
<1>6. g[p] \in Nat /\ g[n] \in Nat /\ w[2] \in Nat
  BY <1>5, MultiplesFacts
<1>7. e.f <= g[p] + Heuristic(p[2], query.goal)
  BY <1>1, <1>3, <1>4, <1>6 DEF IsTop, Before, Elem
<1>8. g[n] < w[2] + 200
  BY <1>1, <1>2, <1>3, <1>4, <1>6, <1>7
<1> QED
  BY <1>5, <1>8, MultiplesFacts

-----------------------------------------------------------------------------
LEMMA InitCost == Init => CostInv
BY DEF Init, CostInv, Running, Priced, Settled, Expanded, Queued, Parents, Summed,
       RouteIsCheapest

LEMMA RefuseCost == Refuse => CostInv'
BY DEF Refuse, CostInv, Running, IsWalkable, Priced, Settled, Expanded, Queued,
       Parents, Summed, RouteIsCheapest

LEMMA LeastCostsType == query.start \in Cells => LeastCosts \subseteq Nat
<1> SUFFICES ASSUME query.start \in Cells, NEW c \in LeastCosts PROVE c \in Nat
  OBVIOUS
<1>1. PICK t \in Times : \E e \in LeastAt[t] : c = e[2]
  BY DEF LeastCosts
<1>2. LeastAt[t] \subseteq Cells \X Nat
  BY LeastAtType, MultiplesFacts
<1> QED
  BY <1>1, <1>2

LEMMA PathCostNext == PathCostSums'
BY PathCostEquations, PTL

LEMMA StayCost == Inv /\ Stay => CostInv'
<1> SUFFICES ASSUME Inv, Stay PROVE CostInv'
  OBVIOUS
<1>1. /\ phase' = "done" /\ path' = <<query.start>>
      /\ UNCHANGED <<obstacles, reserved, query>>
  BY DEF Stay
<1>2. LeastCosts' \subseteq Nat
  BY <1>1, LeastCostsKept, LeastCostsType DEF Inv, TypeOK
<1>3. PathCost'[1] = 0
  BY PathCostNext DEF PathCostSums
<1>4. Len(path') = 1 /\ path' # <<>>
  BY <1>1
<1>5. RouteIsCheapest'
  BY <1>2, <1>3, <1>4 DEF RouteIsCheapest
<1> QED
  BY <1>1, <1>5 DEF CostInv, Running, Priced, Settled, Expanded, Queued, Parents, Summed

LEMMA BeginCost == Inv /\ Begin => CostInv'
<1> SUFFICES ASSUME Inv, Begin PROVE CostInv'
  OBVIOUS
<1> DEFINE first == <<0, query.start>>
<1>1. /\ g' = [n \in {first} |-> 0]
      /\ parent' = [n \in {first} |-> NoNode]
      /\ open' = {Elem(first, 0)}
      /\ phase' = "search"
      /\ UNCHANGED <<obstacles, reserved, query, closed, cursor, path>>
  BY DEF Begin
<1>2. closed' = {} /\ query.start \in Cells /\ query.goal \in Cells
  BY DEF Inv, Asked, TypeOK, Begin
<1>3. Priced'
  <2>1. <<query.start, 0>> \in LeastAt'[0]
    BY <1>1, <1>2, LeastAtKept, LeastAtEquations
  <2>2. 0 \in Multiples /\ 0 <= 0
    BY MultiplesFacts
  <2>3. /\ g'[first] = 0 /\ DOMAIN g' = {first}
        /\ first[1] = 0 /\ <<query.start, 0>>[1] = first[2] /\ <<query.start, 0>>[2] = 0
    BY <1>1
  <2> HIDE DEF first
  <2> QED
    BY <2>1, <2>2, <2>3 DEF Priced
<1>4. Queued'
  <2>1. DOMAIN g' = {first} /\ g'[first] = 0
    BY <1>1
  <2>2. Elem(first, 0)' = Elem(first, 0)
    BY <1>1 DEF Elem, Heuristic
  <2>3. Heuristic(query.start, query.goal) \in Int
    BY <1>2, HeuristicType
  <2>4. /\ <<Elem(first, 0).time, Elem(first, 0).pos>> = first
        /\ Elem(first, 0).pos = query.start
        /\ Elem(first, 0).f = Heuristic(query.start, query.goal)
    BY <2>3 DEF Elem
  <2>5. \A q \in open' : q.f >= g'[<<q.time, q.pos>>] + Heuristic(q.pos, query'.goal)
    BY <1>1, <2>1, <2>3, <2>4
  <2> QED
    BY <1>1, <2>1, <2>2, <2>5 DEF Queued
<1>5. Parents'
  BY <1>1 DEF Parents
<1> QED
  BY <1>1, <1>2, <1>3, <1>4, <1>5 DEF CostInv, Settled, Expanded, Summed, RouteIsCheapest

LEMMA SkipClosedCost ==
  ASSUME Inv, CostInv, phase = "search", NEW e \in open, SkipClosed(e),
         UNCHANGED <<obstacles, reserved, query, path>>
  PROVE  CostInv'
<1>1. /\ <<e.time, e.pos>> \in closed /\ open' = open \ {e}
      /\ UNCHANGED <<obstacles, reserved, query, path, phase, g, parent, closed,
                     cursor>>
  BY DEF SkipClosed
<1>2. LeastAt' = LeastAt /\ phase' = "search"
  BY <1>1, LeastAtKept
<1>3. Priced' /\ Settled'
  BY <1>1, <1>2 DEF CostInv, Priced, Settled, Running
<1>4. Expanded' /\ Parents'
  BY <1>1 DEF CostInv, Expanded, Parents, Running, Permitted
<1>5. Queued'
  <2>1. ASSUME NEW n \in DOMAIN g \ closed PROVE Elem(n, g[n]) \in open'
    <3>1. Elem(n, g[n]) \in open
      BY DEF CostInv, Queued
    <3>2. <<Elem(n, g[n]).time, Elem(n, g[n]).pos>> = n
      BY DEF Inv, TypeOK, Nodes, Elem
    <3> QED
      BY <1>1, <3>1, <3>2
  <2>2. \A n, c : Elem(n, c)' = Elem(n, c)
    BY <1>1 DEF Elem
  <2> QED
    BY <1>1, <2>1, <2>2 DEF CostInv, Queued
<1> QED
  BY <1>2, <1>3, <1>4, <1>5 DEF CostInv, Summed, RouteIsCheapest

(* The node taken from the queue has the least cost of its cell then.      *)
LEMMA TopSettled ==
  ASSUME SmallGrid, Inv, CostInv, phase = "search", NEW e \in open, IsTop(e),
         <<e.time, e.pos>> \notin closed
  PROVE  /\ <<e.pos, g[<<e.time, e.pos>>]>> \in LeastAt[e.time]
         /\ e.pos = query.goal => Best(g[<<e.time, e.pos>>])
<1> DEFINE n == <<e.time, e.pos>>
<1>1. /\ n \in DOMAIN g /\ n \in Nodes /\ n[1] = e.time /\ n[2] = e.pos
      /\ g[n] \in Nat /\ query.start \in Cells
  BY DEF Inv, TypeOK
<1>2. e.time \in Times
  BY <1>1 DEF Nodes
<1>3. PICK w \in LeastAt[e.time] : w[1] = e.pos /\ w[2] <= g[n]
  BY <1>1 DEF CostInv, Priced, Running
<1>4. Frontier
  BY DEF Frontier, CostInv
<1>5. g[n] <= w[2]
  BY <1>2, <1>3, <1>4, TopIsCheapest DEF CostInv
<1>6. w \in Cells \X Multiples
  BY <1>1, <1>2, LeastAtType
<1>7. w = <<e.pos, g[n]>>
  <2>1. w[2] \in Multiples /\ w = <<w[1], w[2]>>
    BY <1>6
  <2>2. w[2] = g[n]
    BY <1>1, <1>3, <1>5, <2>1, MultiplesFacts
  <2> QED
    BY <1>3, <2>1, <2>2
<1>8. ASSUME e.pos = query.goal, NEW c \in LeastCosts PROVE g[n] <= c
  <2>0. PICK t \in Times : \E v \in LeastAt[t] : v[1] = query.goal /\ v[2] = c
    BY DEF LeastCosts
  <2>1. PICK v \in LeastAt[t] : v[1] = query.goal /\ v[2] = c
    BY <2>0
  <2>2. <<t, v[1]>> \notin closed
    BY <2>1 DEF CostInv, Expanded
  <2> QED
    BY <1>4, <1>8, <2>1, <2>2, TopIsCheapest DEF CostInv
<1> QED
  BY <1>3, <1>7, <1>8 DEF Best

LEMMA ReachGoalCost ==
  ASSUME SmallGrid, Inv, CostInv, phase = "search", NEW e \in open, IsTop(e), ReachGoal(e),
         UNCHANGED <<obstacles, reserved, query, path>>
  PROVE  CostInv'
<1> DEFINE n == <<e.time, e.pos>>
<1>1. /\ n \notin closed /\ e.pos = query.goal
      /\ closed' = closed \cup {n} /\ cursor' = n /\ phase' = "reconstruct"
      /\ UNCHANGED <<obstacles, reserved, query, path, g, parent>>
  BY DEF ReachGoal
<1>2. /\ <<e.pos, g[n]>> \in LeastAt[e.time] /\ Best(g[n])
      /\ n[1] = e.time /\ n[2] = e.pos
  BY <1>1, TopSettled
<1>3. LeastAt' = LeastAt /\ LeastCosts' = LeastCosts
  BY <1>1, LeastAtKept, LeastCostsKept
<1> HIDE DEF n
<1>4. Priced' /\ Settled'
  BY <1>1, <1>2, <1>3 DEF CostInv, Priced, Settled, Running
<1>5. Parents'
  BY <1>1 DEF CostInv, Parents, Running
<1>6. Summed'
  <2>1. path' = <<>>
    BY <1>1 DEF Inv, Asked
  <2> QED
    BY <1>1, <1>2, <1>3, <2>1 DEF Summed, Best
<1> QED
  BY <1>1, <1>4, <1>5, <1>6 DEF CostInv, Expanded, Queued, RouteIsCheapest

LEMMA GiveUpCost == Inv /\ CostInv /\ GiveUp => CostInv'
<1> SUFFICES ASSUME Inv, CostInv, GiveUp PROVE CostInv'
  OBVIOUS
<1>1. /\ phase = "search" /\ open = {} /\ phase' = "done" /\ path' = <<>>
      /\ UNCHANGED <<obstacles, reserved, query>>
  BY DEF GiveUp, Inv, Asked
<1>2. LeastCosts = {}
  <2> SUFFICES ASSUME NEW c \in LeastCosts PROVE FALSE
    OBVIOUS
  <2>0. PICK t \in Times : \E w \in LeastAt[t] : w[1] = query.goal
    BY DEF LeastCosts
  <2>1. PICK w \in LeastAt[t] : w[1] = query.goal
    BY <2>0
  <2>2. <<t, w[1]>> \notin closed
    BY <1>1, <2>1 DEF CostInv, Expanded
  <2>3. Frontier
    BY <1>1 DEF Frontier, CostInv
  <2>4. PICK p \in DOMAIN g \ closed : TRUE
    BY <2>2, <2>3, FrontierBefore
  <2> QED
    BY <1>1 DEF CostInv, Queued
<1>3. LeastCosts' = {}
  BY <1>1, <1>2, LeastCostsKept
<1> QED
  BY <1>1, <1>3 DEF CostInv, Running, Priced, Settled, Expanded, Queued, Parents,
                    Summed, RouteIsCheapest

(* The step that settles a node and lowers the costs of those next to it.  *)
LEMMA ExpandCost ==
  ASSUME SmallGrid, Inv, CostInv, phase = "search", NEW e \in open, IsTop(e), Expand(e),
         UNCHANGED <<obstacles, reserved, query, path>>
  PROVE  CostInv'
<1> DEFINE n == <<e.time, e.pos>>
           Cost(d) == g[n] + StepCost(e.pos, d)
           better ==
             IF TooLate(e.time) THEN {}
             ELSE {<<e.time + 1, d>> : d \in
                    {d \in Successors(n) :
                       /\ <<e.time + 1, d>> \notin closed
                       /\ Improves(<<e.time + 1, d>>, Cost(d))}}
<1>1. /\ n \notin closed /\ e.pos # query.goal
      /\ closed' = closed \cup {n}
      /\ g' = [m \in DOMAIN g \cup better |->
                 IF m \in better THEN Cost(m[2]) ELSE g[m]]
      /\ parent' = [m \in DOMAIN g \cup better |->
                      IF m \in better THEN n ELSE parent[m]]
      /\ open' = (open \ {e}) \cup {Elem(m, Cost(m[2])) : m \in better}
      /\ UNCHANGED <<obstacles, reserved, query, path, phase, cursor>>
  BY DEF Expand
<1>2. /\ n \in DOMAIN g /\ e.time \in Times /\ e.pos \in Cells /\ e.time \in Nat
      /\ DOMAIN g \subseteq Nodes /\ closed \subseteq DOMAIN g
      /\ query.goal \in Cells /\ query.start \in Cells /\ e.pos \notin obstacles
      /\ n[1] = e.time /\ n[2] = e.pos
  BY DEF Inv, TypeOK, Tree, Running, Nodes, Times
<1>3. /\ \A m \in DOMAIN g : g[m] \in Multiples
      /\ \A m \in DOMAIN g : \E p \in LeastAt[m[1]] : p[1] = m[2] /\ p[2] <= g[m]
  BY DEF CostInv, Priced, Running
<1>4. g[n] \in Multiples /\ \A m \in DOMAIN g : g[m] \in Nat
  BY <1>2, <1>3, MultiplesFacts
<1>5. <<e.pos, g[n]>> \in LeastAt[e.time]
  BY <1>1, TopSettled
<1>6. \A d : Cost(d) \in Multiples /\ Cost(d) \in Nat
  BY <1>4, StepCostType, MultiplesFacts
<1>7. ASSUME NEW d \in Cells, e.time + 1 < MAX_TIME, Permitted(e.pos, d, e.time + 1)
      PROVE  \E p \in LeastAt[e.time + 1] : p[1] = d /\ p[2] <= Cost(d)
  <2>1. e.time + 1 \in Times
    BY <1>2, <1>7, SizeAssumption DEF Times
  <2> QED
    BY <1>1, <1>2, <1>5, <1>7, <2>1, LeastAtTo
<1>8. ASSUME NEW m \in better
      PROVE  /\ m[1] = e.time + 1 /\ m[2] \in Cells /\ m = <<m[1], m[2]>>
             /\ m \notin closed
             /\ m \in DOMAIN g => Cost(m[2]) <= g[m]
             /\ e.time + 1 < MAX_TIME
             /\ Permitted(e.pos, m[2], e.time + 1)
  <2>1. e.time + 1 < MAX_TIME
    BY <1>2, <1>8, SizeAssumption DEF TooLate
  <2>2. PICK d \in Successors(n) : /\ m = <<e.time + 1, d>> /\ m \notin closed
                                   /\ Improves(m, Cost(d))
    BY <1>8
  <2>3. d \in Cells /\ Permitted(e.pos, d, e.time + 1)
    BY <1>2, SuccessorPermitted
  <2>4. m[1] = e.time + 1 /\ m[2] = d
    BY <2>2
  <2>5. m \in DOMAIN g => Cost(d) <= g[m]
    BY <1>4, <1>6, <2>2 DEF Improves
  <2> HIDE DEF Cost
  <2> QED
    BY <2>1, <2>2, <2>3, <2>4, <2>5
<1>9. ASSUME NEW d \in Cells, e.time + 1 < MAX_TIME, Permitted(e.pos, d, e.time + 1)
      PROVE  \/ <<e.time + 1, d>> \in better
             \/ <<e.time + 1, d>> \in closed
             \/ <<e.time + 1, d>> \in DOMAIN g /\ g[<<e.time + 1, d>>] <= Cost(d)
  <2>1. d \in Successors(n) /\ ~TooLate(e.time)
    BY <1>2, <1>9, PermittedSuccessor, SizeAssumption DEF TooLate
  <2>2. \/ Improves(<<e.time + 1, d>>, Cost(d))
        \/ <<e.time + 1, d>> \in DOMAIN g /\ g[<<e.time + 1, d>>] <= Cost(d)
    BY <1>4, <1>6 DEF Improves
  <2> HIDE DEF Cost
  <2> QED
    BY <2>1, <2>2
<1>10. \A d : Cost(d) = g[n] + StepCost(e.pos, d)
  OBVIOUS
<1> HIDE DEF better, Cost
<1>11. n \notin better /\ \A m \in better : m[1] # 0
  BY <1>2, <1>8
<1>12. /\ DOMAIN g' = DOMAIN g \cup better /\ DOMAIN parent' = DOMAIN g'
       /\ \A m \in better : g'[m] = Cost(m[2]) /\ parent'[m] = n
       /\ \A m \in DOMAIN g \ better : g'[m] = g[m] /\ parent'[m] = parent[m]
       /\ \A m \in closed' : m \in DOMAIN g /\ g'[m] = g[m]
       /\ \A m \in DOMAIN g : g'[m] \in Nat /\ g'[m] <= g[m]
  <2>1. /\ DOMAIN g' = DOMAIN g \cup better /\ DOMAIN parent' = DOMAIN g'
        /\ \A m \in better : g'[m] = Cost(m[2]) /\ parent'[m] = n
        /\ \A m \in DOMAIN g \ better : g'[m] = g[m] /\ parent'[m] = parent[m]
    BY <1>1
  <2>2. \A m \in closed' : m \in DOMAIN g \ better
    BY <1>1, <1>2, <1>8, <1>11
  <2>3. \A m \in DOMAIN g : g'[m] \in Nat /\ g'[m] <= g[m]
    BY <1>4, <1>6, <1>8, <2>1
  <2> QED
    BY <2>1, <2>2, <2>3
<1>13. LeastAt' = LeastAt /\ phase' = "search"
  BY <1>1, LeastAtKept
<1>14. Priced'
  <2>1. ASSUME NEW m \in DOMAIN g'
        PROVE  g'[m] \in Multiples /\ \E p \in LeastAt[m[1]] : p[1] = m[2] /\ p[2] <= g'[m]
    <3>1. CASE m \in better
      BY <1>6, <1>7, <1>8, <1>12, <3>1
    <3>2. CASE m \notin better
      BY <1>3, <1>12, <3>2
    <3> QED
      BY <3>1, <3>2
  <2> QED
    BY <1>13, <2>1 DEF Priced
<1>15. Settled'
  <2>1. ASSUME NEW m \in closed' PROVE <<m[2], g'[m]>> \in LeastAt[m[1]]
    <3>1. CASE m = n
      BY <1>2, <1>5, <1>12, <3>1
    <3>2. CASE m \in closed
      BY <1>12, <3>2 DEF CostInv, Settled, Running
    <3> QED
      BY <1>1, <3>1, <3>2
  <2> QED
    BY <1>13, <2>1 DEF Settled
<1>16. Expanded'
  <2>1. ASSUME NEW k \in closed'
        PROVE  /\ k[2] # query.goal
               /\ \A d \in Cells :
                    k[1] + 1 < MAX_TIME /\ Permitted(k[2], d, k[1] + 1) =>
                      /\ <<k[1] + 1, d>> \in DOMAIN g'
                      /\ g'[<<k[1] + 1, d>>] <= g'[k] + StepCost(k[2], d)
    <3>1. CASE k \in closed
      <4>1. k[2] # query.goal
        BY <3>1 DEF CostInv, Expanded
      <4>2. ASSUME NEW d \in Cells, k[1] + 1 < MAX_TIME, Permitted(k[2], d, k[1] + 1)
            PROVE  /\ <<k[1] + 1, d>> \in DOMAIN g'
                   /\ g'[<<k[1] + 1, d>>] <= g'[k] + StepCost(k[2], d)
        <5> DEFINE m == <<k[1] + 1, d>>
        <5>1. m \in DOMAIN g /\ g[m] <= g[k] + StepCost(k[2], d)
          BY <3>1, <4>2 DEF CostInv, Expanded
        <5>2. /\ g[m] \in Nat /\ g[k] \in Nat /\ g'[m] \in Nat /\ g'[m] <= g[m]
              /\ g'[k] = g[k] /\ m \in DOMAIN g'
          BY <1>2, <1>4, <1>12, <3>1, <5>1
        <5>3. StepCost(k[2], d) \in Nat
          BY StepCostType
        <5> HIDE DEF m
        <5>4. m \in DOMAIN g' /\ g'[m] <= g'[k] + StepCost(k[2], d)
          BY <5>1, <5>2, <5>3
        <5> QED
          BY <5>4 DEF m
      <4> QED
        BY <4>1, <4>2
    <3>2. CASE k = n
      <4>1. k[2] # query.goal /\ k[1] = e.time /\ k[2] = e.pos /\ g'[k] = g[n]
        BY <1>1, <1>2, <1>12, <3>2
      <4>2. ASSUME NEW d \in Cells, e.time + 1 < MAX_TIME, Permitted(e.pos, d, e.time + 1)
            PROVE  /\ <<e.time + 1, d>> \in DOMAIN g'
                   /\ g'[<<e.time + 1, d>>] <= Cost(d)
        <5> DEFINE m == <<e.time + 1, d>>
        <5>1. CASE m \in better
          <6>1. g'[m] = Cost(m[2]) /\ m[2] = d /\ m \in DOMAIN g'
            BY <1>12, <5>1
          <6> QED
            BY <1>6, <6>1
        <5>2. CASE m \in DOMAIN g /\ g[m] <= Cost(d)
          BY <1>4, <1>6, <1>12, <5>2
        <5>3. CASE m \in closed
          <6>1. m[1] = e.time + 1 /\ m[2] = d /\ m \in DOMAIN g
            BY <1>2, <5>3
          <6>2. <<d, g[m]>> \in LeastAt[e.time + 1]
            BY <5>3, <6>1 DEF CostInv, Settled, Running
          <6>3. PICK p \in LeastAt[e.time + 1] : p[1] = d /\ p[2] <= Cost(d)
            BY <1>7, <4>2
          <6>4. e.time + 1 \in Times
            BY <1>2, <4>2, SizeAssumption DEF Times
          <6>5. p[2] = g[m]
            BY <1>2, <6>2, <6>3, <6>4, LeastAtUnique
          <6> QED
            BY <5>2, <6>1, <6>3, <6>5
        <5> QED
          BY <1>9, <4>2, <5>1, <5>2, <5>3
      <4> QED
        BY <1>10, <4>1, <4>2
    <3> QED
      BY <1>1, <3>1, <3>2
  <2>2. \A c, d, t : Permitted(c, d, t)' = Permitted(c, d, t)
    BY <1>1 DEF Permitted
  <2> QED
    BY <1>1, <2>1, <2>2 DEF Expanded
<1>17. Queued'
  <2>1. <<0, query.start>> \in DOMAIN g' /\ g'[<<0, query.start>>] = 0
    <3>1. <<0, query.start>> \in DOMAIN g /\ g[<<0, query.start>>] = 0
      BY DEF CostInv, Queued
    <3>2. <<0, query.start>> \notin better
      BY <1>11
    <3> QED
      BY <1>12, <3>1, <3>2
  <2>2. \A m \in Nodes : \A c : <<Elem(m, c).time, Elem(m, c).pos>> = m
    BY DEF Elem, Nodes
  <2>3. ASSUME NEW m \in DOMAIN g' \ closed' PROVE Elem(m, g'[m]) \in open'
    <3>1. CASE m \in better
      BY <1>1, <1>12, <3>1
    <3>2. CASE m \notin better
      <4>1. m \in DOMAIN g \ closed /\ m # n /\ g'[m] = g[m] /\ m \in Nodes
        BY <1>1, <1>2, <1>12, <3>2
      <4>2. Elem(m, g[m]) \in open
        BY <4>1 DEF CostInv, Queued
      <4>3. Elem(m, g[m]) # e
        BY <2>2, <4>1
      <4> QED
        BY <1>1, <4>1, <4>2, <4>3
    <3> QED
      BY <3>1, <3>2
  <2>4. ASSUME NEW q \in open', <<q.time, q.pos>> \notin closed'
        PROVE  q.f >= g'[<<q.time, q.pos>>] + Heuristic(q.pos, query.goal)
    <3> DEFINE m == <<q.time, q.pos>>
    <3>1. CASE q \in open
      <4>1. m \notin closed
        BY <1>1, <2>4
      <4>2. q.f >= g[m] + Heuristic(q.pos, query.goal)
        BY <3>1, <4>1 DEF CostInv, Queued
      <4>3. m \in DOMAIN g /\ q.f \in Int /\ m \in Nodes
        BY <1>2, <3>1 DEF Inv, TypeOK
      <4>4. Heuristic(q.pos, query.goal) \in Int
        BY <1>2, <4>3, HeuristicType DEF Nodes
      <4> HIDE DEF m
      <4>5. q.f >= g'[m] + Heuristic(q.pos, query.goal)
        BY <1>4, <1>12, <4>2, <4>3, <4>4
      <4> QED
        BY <4>5 DEF m
    <3>2. CASE q \notin open
      <4>1. PICK k \in better : q = Elem(k, Cost(k[2]))
        BY <1>1, <3>2
      <4>2. k = <<k[1], k[2]>> /\ k[2] \in Cells
        BY <1>8
      <4>3. m = k /\ q.f = Cost(k[2]) + Heuristic(k[2], query.goal) /\ q.pos = k[2]
        BY <4>1, <4>2 DEF Elem
      <4>4. g'[k] = Cost(k[2])
        BY <1>12
      <4>5. q.f = g'[m] + Heuristic(q.pos, query.goal)
        BY <4>3, <4>4
      <4>6. q.f \in Int
        BY <1>2, <1>6, <4>2, <4>3, HeuristicType
      <4> HIDE DEF m
      <4>7. q.f >= g'[m] + Heuristic(q.pos, query.goal)
        BY <4>5, <4>6
      <4> QED
        BY <4>7 DEF m
    <3> QED
      BY <3>1, <3>2
  <2>5. \A m, c : Elem(m, c)' = Elem(m, c)
    BY <1>1 DEF Elem
  <2> QED
    BY <1>1, <2>1, <2>3, <2>4, <2>5 DEF Queued
<1>18. Parents'
  <2>1. ASSUME NEW m \in DOMAIN g'
        PROVE  IF parent'[m] = NoNode THEN g'[m] = 0
               ELSE /\ parent'[m] \in closed'
                    /\ g'[m] = g'[parent'[m]] + StepCost(parent'[m][2], m[2])
    <3>1. CASE m \in better
      <4>1. parent'[m] = n /\ n # NoNode /\ n \in closed' /\ g'[n] = g[n]
        BY <1>1, <1>2, <1>12, <3>1, NoNodeOutside
      <4> QED
        BY <1>2, <1>10, <1>12, <3>1, <4>1
    <3>2. CASE m \notin better
      <4>1. m \in DOMAIN g /\ g'[m] = g[m] /\ parent'[m] = parent[m]
        BY <1>12, <3>2
      <4>2. IF parent[m] = NoNode THEN g[m] = 0
            ELSE /\ parent[m] \in closed
                 /\ g[m] = g[parent[m]] + StepCost(parent[m][2], m[2])
        BY <4>1 DEF CostInv, Parents, Running
      <4>3. parent[m] \in closed =>
              parent[m] \in closed' /\ g'[parent[m]] = g[parent[m]]
        BY <1>1, <1>12
      <4> QED
        BY <4>1, <4>2, <4>3
    <3> QED
      BY <3>1, <3>2
  <2> QED
    BY <2>1 DEF Parents
<1> QED
  BY <1>13, <1>14, <1>15, <1>16, <1>17, <1>18 DEF CostInv, Summed, RouteIsCheapest

LEMMA SearchCost == SmallGrid /\ Inv /\ CostInv /\ Search => CostInv'
BY SkipClosedCost, ReachGoalCost, ExpandCost DEF Search

(* One more cell at the front of the path: the costs of the nodes along it *)
(* still differ by what the steps between them cost.                       *)
LEMMA ReconstructCost == Inv /\ CostInv /\ Reconstruct => CostInv'
<1> SUFFICES ASSUME Inv, CostInv, Reconstruct PROVE CostInv'
  OBVIOUS
<1>1. /\ phase = "reconstruct" /\ cursor # NoNode
      /\ path' = <<cursor[2]>> \o path /\ cursor' = parent[cursor]
      /\ UNCHANGED <<obstacles, reserved, query, phase, g, parent, open, closed>>
  BY DEF Reconstruct
<1>2. /\ LeastAt' = LeastAt /\ \A c : Best(c)' = Best(c)
      /\ phase' = "reconstruct"
  BY <1>1, LeastAtKept, LeastCostsKept DEF Best
<1>3. cursor \in closed /\ cursor \in DOMAIN g /\ cursor \in Nodes
  BY <1>1 DEF CostInv, Summed, Inv, TypeOK
<1>4. /\ cursor[1] \in Nat /\ cursor[2] \in Cells /\ cursor = <<cursor[1], cursor[2]>>
      /\ path \in Seq(Cells) /\ Len(path) \in Nat /\ (path = <<>> <=> Len(path) = 0)
  BY <1>3 DEF Inv, TypeOK, Nodes, Times
<1>5. /\ Len(path') = Len(path) + 1 /\ path' # <<>> /\ path'[1] = cursor[2]
      /\ \A i \in 2 .. Len(path') : path'[i] = path[i - 1]
  BY <1>1, <1>4
<1>6. Base = cursor[1] + 1 /\ Base' = cursor[1]
  <2>1. \/ cursor = <<0, query.start>> /\ parent[cursor] = NoNode
        \/ parent[cursor] \in DOMAIN g /\ cursor[1] = parent[cursor][1] + 1
    BY <1>1, <1>3 DEF Inv, Tree, Running, Reached
  <2>2. \A n \in DOMAIN g : n # NoNode
    BY NoNodeOutside DEF Inv, TypeOK
  <2> QED
    BY <1>1, <2>1, <2>2 DEF Base
<1>7. /\ NodeOf(1)' = cursor
      /\ \A i \in 2 .. Len(path') : NodeOf(i)' = NodeOf(i - 1)
  <2>1. cursor[1] + 1 - 1 = cursor[1]
    BY <1>4
  <2>2. NodeOf(1)' = cursor
    BY <1>4, <1>5, <1>6, <2>1 DEF NodeOf
  <2>3. ASSUME NEW i \in 2 .. Len(path') PROVE NodeOf(i)' = NodeOf(i - 1)
    <3>1. Base' + i - 1 = Base + (i - 1) - 1
      BY <1>4, <1>6
    <3> QED
      BY <1>5, <3>1 DEF NodeOf
  <2> QED
    BY <2>2, <2>3
<1>8. IF parent[cursor] = NoNode THEN g[cursor] = 0
      ELSE /\ parent[cursor] \in closed
           /\ g[cursor] = g[parent[cursor]] + StepCost(parent[cursor][2], cursor[2])
  BY <1>1, <1>3 DEF CostInv, Parents, Running
<1>9. /\ path = <<>> => Best(g[cursor])
      /\ path # <<>> =>
           /\ \A i \in 1 .. Len(path) : NodeOf(i) \in closed
           /\ \A i \in 2 .. Len(path) :
                g[NodeOf(i)] = g[NodeOf(i - 1)] + StepCost(path[i - 1], path[i])
           /\ g[NodeOf(1)] = g[cursor] + StepCost(cursor[2], path[1])
           /\ Best(g[NodeOf(Len(path))])
  BY <1>1 DEF CostInv, Summed
<1> HIDE DEF NodeOf
<1>10. ASSUME NEW i \in 1 .. Len(path') PROVE NodeOf(i)' \in closed
  <2>1. CASE i = 1
    BY <1>3, <1>7, <2>1
  <2>2. CASE i # 1
    <3>1. i \in 2 .. Len(path') /\ i - 1 \in 1 .. Len(path) /\ path # <<>>
      BY <1>4, <1>5, <2>2
    <3> QED
      BY <1>7, <1>9, <3>1
  <2> QED
    BY <2>1, <2>2
<1>11. ASSUME NEW i \in 2 .. Len(path')
       PROVE  g[NodeOf(i)'] = g[NodeOf(i - 1)'] + StepCost(path'[i - 1], path'[i])
  <2>1. i \in Int /\ path # <<>> /\ 1 \in 1 .. Len(path)
    BY <1>4, <1>5
  <2>2. CASE i = 2
    <3>1. NodeOf(2)' = NodeOf(1) /\ path'[2] = path[1]
      <4>1. 2 \in 2 .. Len(path') /\ 2 - 1 = 1
        BY <2>2
      <4> QED
        BY <1>5, <1>7, <4>1
    <3>2. NodeOf(1)' = cursor /\ path'[1] = cursor[2] /\ 2 - 1 = 1
      BY <1>5, <1>7
    <3>3. g[NodeOf(1)] = g[cursor] + StepCost(cursor[2], path[1])
      BY <1>9, <2>1
    <3> QED
      BY <2>2, <3>1, <3>2, <3>3
  <2>3. CASE i # 2
    <3> DEFINE j == i - 1
    <3>1. j \in 2 .. Len(path) /\ j \in 2 .. Len(path')
      BY <1>4, <1>5, <2>1, <2>3
    <3>2. NodeOf(i)' = NodeOf(j) /\ NodeOf(j)' = NodeOf(j - 1)
      BY <1>7, <3>1
    <3>3. path'[i] = path[j] /\ path'[j] = path[j - 1]
      BY <1>5, <3>1
    <3>4. g[NodeOf(j)] = g[NodeOf(j - 1)] + StepCost(path[j - 1], path[j])
      BY <1>9, <2>1, <3>1
    <3> QED
      BY <3>2, <3>3, <3>4
  <2> QED
    BY <2>2, <2>3
<1>12. IF cursor' = NoNode THEN g[NodeOf(1)'] = 0
       ELSE /\ cursor' \in closed
            /\ g[NodeOf(1)'] = g[cursor'] + StepCost(cursor'[2], path'[1])
  BY <1>1, <1>5, <1>7, <1>8
<1>13. PICK k \in Nat : k = Len(path')
  BY <1>4, <1>5
<1>14. Best(g[NodeOf(k)'])
  <2>1. CASE path = <<>>
    BY <1>4, <1>5, <1>7, <1>9, <1>13, <2>1
  <2>2. CASE path # <<>>
    <3>1. k \in 2 .. Len(path') /\ k - 1 = Len(path)
      BY <1>4, <1>5, <1>13, <2>2
    <3>2. NodeOf(k)' = NodeOf(Len(path))
      BY <1>7, <3>1
    <3> QED
      BY <1>9, <2>2, <3>2
  <2> QED
    BY <2>1, <2>2
<1>15. Best(g[NodeOf(Len(path))])'
  BY <1>1, <1>2, <1>13, <1>14 DEF NodeOf
<1>16. Summed'
  BY <1>1, <1>2, <1>5, <1>10, <1>11, <1>12, <1>15 DEF Summed
<1>17. Priced' /\ Settled'
  BY <1>1, <1>2 DEF CostInv, Priced, Settled, Running
<1>18. Parents'
  BY <1>1 DEF CostInv, Parents, Running
<1> QED
  BY <1>2, <1>16, <1>17, <1>18 DEF CostInv, Expanded, Queued, RouteIsCheapest

LEMMA PathCostKept == path' = path => PathCost' = PathCost
BY DEF PathCost

(* The cost of the whole path is that of the node it ends in.              *)
LEMMA ReturnCost == Inv /\ CostInv /\ Return => CostInv'
<1> SUFFICES ASSUME Inv, CostInv, Return PROVE CostInv'
  OBVIOUS
<1>1. /\ phase = "reconstruct" /\ cursor = NoNode /\ phase' = "done"
      /\ UNCHANGED <<obstacles, reserved, query, path>>
  BY DEF Return
<1>2. path # <<>> /\ Len(path) \in Nat /\ Len(path) # 0
  BY <1>1 DEF Inv, Walk, TypeOK
<1>3. /\ \A i \in 2 .. Len(path) :
           g[NodeOf(i)] = g[NodeOf(i - 1)] + StepCost(path[i - 1], path[i])
      /\ g[NodeOf(1)] = 0
      /\ Best(g[NodeOf(Len(path))])
  BY <1>1, <1>2 DEF CostInv, Summed
<1> DEFINE S == {i \in Nat : i \in 1 .. Len(path) => PathCost[i] = g[NodeOf(i)]}
<1>4. 0 \in S
  OBVIOUS
<1>5. ASSUME NEW i \in Nat, i \in S PROVE i + 1 \in S
  <2> SUFFICES ASSUME i + 1 \in 1 .. Len(path) PROVE PathCost[i + 1] = g[NodeOf(i + 1)]
    OBVIOUS
  <2>1. /\ i + 1 \in Nat /\ (i + 1) - 1 = i
        /\ PathCost[i + 1] = IF i + 1 <= 1 THEN 0
                             ELSE PathCost[i] + StepCost(path[i], path[i + 1])
    BY PathCostEquations DEF PathCostSums
  <2>2. CASE i = 0
    BY <1>3, <2>1, <2>2
  <2>3. CASE i # 0
    <3>1. i \in 1 .. Len(path) /\ i + 1 \in 2 .. Len(path) /\ ~(i + 1 <= 1)
      BY <1>2, <2>3
    <3>2. PathCost[i] = g[NodeOf(i)]
      BY <1>5, <3>1
    <3>3. g[NodeOf(i + 1)] = g[NodeOf(i)] + StepCost(path[i], path[i + 1])
      BY <1>3, <2>1, <3>1
    <3> QED
      BY <2>1, <3>1, <3>2, <3>3
  <2> QED
    BY <2>2, <2>3
<1> HIDE DEF S
<1>6. Nat \subseteq S
  BY <1>4, <1>5, Induction
<1>7. PathCost[Len(path)] = g[NodeOf(Len(path))]
  BY <1>2, <1>6 DEF S
<1>8. LeastCosts' = LeastCosts /\ PathCost' = PathCost
  BY <1>1, LeastCostsKept, PathCostKept
<1>9. RouteIsCheapest'
  BY <1>1, <1>2, <1>3, <1>7, <1>8 DEF RouteIsCheapest, Best
<1> QED
  BY <1>1, <1>9 DEF CostInv, Running, Priced, Settled, Expanded, Queued, Parents, Summed

LEMMA StutterCost == CostInv /\ UNCHANGED vars => CostInv'
<1> SUFFICES ASSUME CostInv, UNCHANGED vars PROVE CostInv'
  OBVIOUS
<1>1. UNCHANGED <<obstacles, reserved, query, phase, g, parent, open, closed, cursor, path>>
  BY DEF vars
<1>2. LeastAt' = LeastAt /\ LeastCosts' = LeastCosts /\ PathCost' = PathCost
  BY <1>1, LeastAtKept, LeastCostsKept, PathCostKept
<1>3. Priced' /\ Settled' /\ Parents'
  BY <1>1, <1>2 DEF CostInv, Priced, Settled, Parents, Running
<1>4. Expanded'
  BY <1>1 DEF CostInv, Expanded, Permitted
<1>5. Queued'
  BY <1>1 DEF CostInv, Queued, Elem
<1>6. Summed'
  BY <1>1, <1>2 DEF CostInv, Summed, Best, NodeOf, Base
<1>7. RouteIsCheapest'
  BY <1>1, <1>2 DEF CostInv, RouteIsCheapest, IsWalkable
<1> QED
  BY <1>3, <1>4, <1>5, <1>6, <1>7 DEF CostInv

LEMMA NextCost == SmallGrid /\ Inv /\ CostInv /\ [Next]_vars => CostInv'
BY RefuseCost, StayCost, BeginCost, SearchCost, GiveUpCost, ReconstructCost, ReturnCost,
   StutterCost DEF Next

-----------------------------------------------------------------------------
(* On a grid of at most 10 rows or at most 10 columns, the code's being 10 *)
(* by 10, findPath returns a cheapest route, and none only if there is     *)
(* none within the horizon.  The heuristic is no lower bound: it exceeds   *)
(* one by 21 for each diagonal move, and closed nodes are not opened       *)
(* again.  But no two costs differ by less than 200.                       *)
THEOREM RouteCheapest == SmallGrid => (Spec => []RouteIsCheapest)
<1> SUFFICES ASSUME SmallGrid PROVE Spec => []RouteIsCheapest
  OBVIOUS
<1>1. Init => CostInv
  BY InitCost
<1>2. Inv /\ CostInv /\ [Next]_vars => CostInv'
  BY NextCost
<1>3. CostInv => RouteIsCheapest
  BY DEF CostInv
<1> QED
  BY <1>1, <1>2, <1>3, SpecInv, PTL DEF Spec

=============================================================================
