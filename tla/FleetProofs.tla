---------------------------- MODULE FleetProofs ----------------------------
(***************************************************************************)
(* What Fleet's run checks for two robots, proved for any number of robots,*)
(* any grid and any horizon.  The strengthening InStep says where a robot  *)
(* is on its route and that its clock, unless it was reset, counts along.  *)
(* Then when the table keeps robots apart, which it does not always.       *)
(***************************************************************************)
EXTENDS Fleet, TLAPS

InStep ==
  \A r \in Robots :
    /\ pc[r] \in {"search", "reserve"} =>
         /\ route[r] # <<>>
         /\ route[r][1] = position[r]
         /\ ~wasReset[r] => timeStep[r] = startT[r]
    /\ pc[r] \in {"drive", "tick"} =>
         /\ driven[r] \in 1 .. Len(route[r])
         /\ route[r][driven[r]] = position[r]
    /\ pc[r] = "drive" /\ ~wasReset[r] => timeStep[r] = startT[r] + driven[r] - 1
    /\ pc[r] = "tick" /\ ~wasReset[r] => timeStep[r] = startT[r] + driven[r] - 2

Inv == TypeOK /\ InStep /\ NoStaleEntries /\ SearchAvoidsReserved

-----------------------------------------------------------------------------
(* What reservePath writes: no key beyond the horizon, and each cell of    *)
(* the route at its time.                                                  *)

(* Claimed keys are keys of the table (reservePath stops at MAX_TIME).     *)
LEMMA ClaimType ==
  ASSUME NEW path \in Seq(Points), path # <<>>, NEW t0 \in Nat
  PROVE  Claim(path, t0) \subseteq Keys
<1> SUFFICES ASSUME NEW k \in Claim(path, t0) PROVE k \in Keys
  OBVIOUS
<1> USE FleetAssumption
<1>1. Len(path) \in Nat \ {0}
  OBVIOUS
<1>2. k[2] < MAX_TIME
  BY DEF Claim, Horizon
<1>3. CASE \E i \in 1 .. Len(path) : k = <<path[i], t0 + i - 1>>
  <2> PICK i \in 1 .. Len(path) : k = <<path[i], t0 + i - 1>>
    BY <1>3
  <2>1. path[i] \in Points /\ t0 + i - 1 \in Nat
    BY <1>1
  <2> QED  BY <1>2, <2>1 DEF Keys
<1>4. CASE \E i \in 0 .. PARK_TIME - 1 : k = <<path[Len(path)], t0 + Len(path) + i>>
  <2> PICK i \in 0 .. PARK_TIME - 1 : k = <<path[Len(path)], t0 + Len(path) + i>>
    BY <1>4
  <2>1. path[Len(path)] \in Points /\ t0 + Len(path) + i \in Nat
    BY <1>1
  <2> QED  BY <1>2, <2>1 DEF Keys
<1> QED  BY <1>3, <1>4 DEF Claim, Horizon

(* A route's cells are claimed at their times, up to the horizon.          *)
LEMMA ClaimCells ==
  ASSUME NEW path \in Seq(Points), NEW t0 \in Nat, NEW i \in 1 .. Len(path),
         t0 + i - 1 < MAX_TIME
  PROVE  <<path[i], t0 + i - 1>> \in Claim(path, t0)
<1>1. <<path[i], t0 + i - 1>>[2] < MAX_TIME
  OBVIOUS
<1> QED  BY <1>1 DEF Claim, Horizon

(* Clearing keeps exactly the entries of the others, as they were.         *)
LEMMA ClearedTable ==
  ASSUME NEW r
  PROVE  /\ DOMAIN Cleared(r) = {k \in DOMAIN table : table[k] # r}
         /\ \A k \in DOMAIN Cleared(r) : Cleared(r)[k] = table[k]
BY DEF Cleared

-----------------------------------------------------------------------------
LEMMA InvInit == Init => Inv
<1> SUFFICES ASSUME Init PROVE Inv
  OBVIOUS
<1> USE FleetAssumption DEF Init
<1>1. TypeOK
  BY DEF TypeOK
<1>2. InStep
  BY DEF InStep
<1>3. NoStaleEntries
  BY DEF NoStaleEntries
<1>4. SearchAvoidsReserved
  BY DEF SearchAvoidsReserved
<1> QED  BY <1>1, <1>2, <1>3, <1>4 DEF Inv




(* A step that only clears entries of r, and moves r's planner from idle   *)
(* to idle or clock, or not at all.                                        *)
LEMMA ClearStep ==
  ASSUME Inv, NEW r \in Robots, table' = Cleared(r),
         UNCHANGED <<position, startT, route, driven, wasReset, fresh, timeStep>>,
         \/ UNCHANGED pc
         \/ pc[r] = "idle" /\ pc' = [pc EXCEPT ![r] = "clock"],
         UNCHANGED resets, resetting' \subseteq resetting
  PROVE  Inv'
<1>0. /\ DOMAIN table' = {k \in DOMAIN table : table[k] # r}
      /\ \A k \in DOMAIN table' : table'[k] = table[k]
  BY ClearedTable
<1>1. TypeOK'
  BY <1>0 DEF Inv, TypeOK
<1>2. InStep'
  BY DEF Inv, TypeOK, InStep
<1>3. NoStaleEntries'
  <2> SUFFICES ASSUME NEW k \in DOMAIN table'
               PROVE  /\ pc'[table'[k]] \in {"idle", "drive", "tick"}
                      /\ k \in Claim(route'[table'[k]], startT'[table'[k]])
    BY DEF NoStaleEntries, Claim, Horizon
  <2>1. k \in DOMAIN table /\ table'[k] = table[k] /\ table[k] # r /\ table[k] \in Robots
    BY <1>0 DEF Inv, TypeOK
  <2>2. pc'[table[k]] = pc[table[k]]
    BY <2>1 DEF Inv, TypeOK
  <2> QED  BY <2>1, <2>2 DEF Inv, NoStaleEntries
<1>4. SearchAvoidsReserved'
  <2> SUFFICES ASSUME NEW s \in Robots, pc'[s] \in {"search", "reserve"},
                      NEW i \in 2 .. Len(route[s]),
                      IsReserved(route[s][i], startT[s] + i - 1, s)'
               PROVE  <<route[s][i], startT[s] + i - 1>> \in fresh[s]
    BY DEF SearchAvoidsReserved, IsReserved
  <2>1. pc[s] \in {"search", "reserve"}
    BY DEF Inv, TypeOK
  <2>2. IsReserved(route[s][i], startT[s] + i - 1, s)
    BY <1>0 DEF IsReserved
  <2> QED  BY <2>1, <2>2 DEF Inv, SearchAvoidsReserved
<1> QED  BY <1>1, <1>2, <1>3, <1>4 DEF Inv

(* A step of r that leaves the table alone, and r's route unless it has no *)
(* entries.                                                                *)
LEMMA QuietStale ==
  ASSUME Inv, NEW r \in Robots, UNCHANGED table,
         \A s \in Robots \ {r} :
           pc'[s] = pc[s] /\ route'[s] = route[s] /\ startT'[s] = startT[s],
         \/ pc[r] \in {"clock", "search", "reserve"}
         \/ /\ pc[r] \in {"idle", "drive", "tick"} => pc'[r] \in {"idle", "drive", "tick"}
            /\ route'[r] = route[r]
            /\ startT'[r] = startT[r]
  PROVE  NoStaleEntries'
<1> SUFFICES ASSUME NEW k \in DOMAIN table
             PROVE  /\ pc'[table[k]] \in {"idle", "drive", "tick"}
                    /\ k \in Claim(route'[table[k]], startT'[table[k]])
  BY DEF NoStaleEntries, Claim, Horizon
<1>1. /\ table[k] \in Robots
      /\ pc[table[k]] \in {"idle", "drive", "tick"}
      /\ k \in Claim(route[table[k]], startT[table[k]])
  BY DEF Inv, TypeOK, NoStaleEntries
<1> QED  BY <1>1

(* The same for what searches avoid: no other robot's search is disturbed. *)
LEMMA QuietSearch ==
  ASSUME Inv, NEW r \in Robots, UNCHANGED <<table, fresh>>,
         \A s \in Robots \ {r} :
           pc'[s] = pc[s] /\ route'[s] = route[s] /\ startT'[s] = startT[s],
         \/ pc'[r] \notin {"search", "reserve"}
         \/ /\ pc[r] \in {"search", "reserve"}
            /\ route'[r] = route[r]
            /\ startT'[r] = startT[r]
  PROVE  SearchAvoidsReserved'
<1> SUFFICES ASSUME NEW s \in Robots, pc'[s] \in {"search", "reserve"},
                    NEW i \in 2 .. Len(route'[s]),
                    IsReserved(route[s][i], startT[s] + i - 1, s)'
             PROVE  <<route'[s][i], startT'[s] + i - 1>> \in fresh[s]
  BY DEF SearchAvoidsReserved, IsReserved
<1>1. pc[s] \in {"search", "reserve"} /\ route'[s] = route[s] /\ startT'[s] = startT[s]
  OBVIOUS
<1>2. IsReserved(route[s][i], startT[s] + i - 1, s)
  BY <1>1 DEF IsReserved
<1> QED  BY <1>1, <1>2 DEF Inv, SearchAvoidsReserved

-----------------------------------------------------------------------------
LEMMA InvNext == Inv /\ [Next]_vars => Inv'
<1> SUFFICES ASSUME Inv, [Next]_vars PROVE Inv'
  OBVIOUS
<1> USE FleetAssumption
<1>1. CASE UNCHANGED vars
  BY <1>1 DEF vars, Inv, TypeOK, InStep, NoStaleEntries, SearchAvoidsReserved,
              IsReserved, Claim, Horizon
<1>2. ASSUME NEW r \in Robots, PlannerStop(r) PROVE Inv'
  BY <1>2, ClearStep DEF PlannerStop
<1>3. ASSUME NEW r \in Robots, PlannerClear(r) PROVE Inv'
  BY <1>3, ClearStep DEF PlannerClear, Goto
<1>4. ASSUME NEW r \in Robots, PlannerClock(r) PROVE Inv'
  <2> USE <1>4 DEF PlannerClock, Goto
  <2>1. TypeOK'
    BY DEF Inv, TypeOK
  <2>2. InStep'
    BY DEF Inv, TypeOK, InStep
  <2>3. NoStaleEntries'
    BY QuietStale DEF Inv, TypeOK
  <2>4. SearchAvoidsReserved'
    <3> SUFFICES ASSUME NEW s \in Robots, pc'[s] \in {"search", "reserve"},
                        NEW i \in 2 .. Len(route'[s]),
                        IsReserved(route[s][i], startT[s] + i - 1, s)'
                 PROVE  <<route'[s][i], startT'[s] + i - 1>> \in fresh[s]
      BY DEF SearchAvoidsReserved, IsReserved
    <3>1. s # r
      BY DEF Inv, TypeOK
    <3>2. pc[s] = pc'[s] /\ route'[s] = route[s] /\ startT'[s] = startT[s]
      BY <3>1 DEF Inv, TypeOK
    <3>3. IsReserved(route[s][i], startT[s] + i - 1, s)
      BY <3>2 DEF IsReserved
    <3> QED  BY <3>2, <3>3 DEF Inv, SearchAvoidsReserved
  <2> QED  BY <2>1, <2>2, <2>3, <2>4 DEF Inv
<1>5. ASSUME NEW r \in Robots, SearchStep(r) PROVE Inv'
  <2> PICK p \in Points : /\ ~IsReserved(p, NextTime(r), r)
                          /\ route' = [route EXCEPT ![r] = Append(@, p)]
    BY <1>5 DEF SearchStep
  <2> USE <1>5 DEF SearchStep
  <2>0. /\ route[r] \in Seq(Points) /\ Len(route[r]) \in Nat
        /\ route'[r] = Append(route[r], p)
        /\ Len(route'[r]) = Len(route[r]) + 1
        /\ \A i \in 1 .. Len(route[r]) : route'[r][i] = route[r][i]
        /\ route'[r][Len(route[r]) + 1] = p
    BY DEF Inv, TypeOK
  <2>1. TypeOK'
    BY <2>0 DEF Inv, TypeOK
  <2>2. InStep'
    BY <2>0 DEF Inv, TypeOK, InStep
  <2>3. NoStaleEntries'
    BY QuietStale DEF Inv, TypeOK
  <2>4. SearchAvoidsReserved'
    <3> SUFFICES ASSUME NEW s \in Robots, pc[s] \in {"search", "reserve"},
                        NEW i \in 2 .. Len(route'[s]),
                        IsReserved(route'[s][i], startT[s] + i - 1, s)
                 PROVE  <<route'[s][i], startT[s] + i - 1>> \in fresh[s]
      BY DEF SearchAvoidsReserved, IsReserved
    <3>1. CASE i \in 2 .. Len(route[s])
      <4>1. route'[s][i] = route[s][i]
        BY <3>1, <2>0 DEF Inv, TypeOK
      <4> QED  BY <3>1, <4>1 DEF Inv, SearchAvoidsReserved
    <3>2. CASE i \notin 2 .. Len(route[s])
      <4>1. s = r /\ i = Len(route[r]) + 1
        BY <3>2, <2>0 DEF Inv, TypeOK
      <4>2. startT[r] + i - 1 = NextTime(r)
        BY <4>1, <2>0 DEF NextTime, Inv, TypeOK
      <4> QED  BY <4>1, <4>2, <2>0
    <3> QED  BY <3>1, <3>2
  <2> QED  BY <2>1, <2>2, <2>3, <2>4 DEF Inv
<1>6. ASSUME NEW r \in Robots, SearchFinds(r) PROVE Inv'
  <2> USE <1>6 DEF SearchFinds, Goto
  <2>1. TypeOK'
    BY DEF Inv, TypeOK
  <2>2. InStep'
    BY DEF Inv, TypeOK, InStep
  <2>3. NoStaleEntries'
    BY QuietStale DEF Inv, TypeOK
  <2>4. SearchAvoidsReserved'
    BY QuietSearch DEF Inv, TypeOK
  <2> QED  BY <2>1, <2>2, <2>3, <2>4 DEF Inv
<1>7. ASSUME NEW r \in Robots, SearchFails(r) PROVE Inv'
  <2> USE <1>7 DEF SearchFails, Goto
  <2>1. TypeOK'
    BY DEF Inv, TypeOK
  <2>2. InStep'
    BY DEF Inv, TypeOK, InStep
  <2>3. NoStaleEntries'
    BY QuietStale DEF Inv, TypeOK
  <2>4. SearchAvoidsReserved'
    <3> SUFFICES ASSUME NEW s \in Robots, pc'[s] \in {"search", "reserve"},
                        NEW i \in 2 .. Len(route'[s]),
                        IsReserved(route[s][i], startT[s] + i - 1, s)'
                 PROVE  <<route'[s][i], startT'[s] + i - 1>> \in fresh'[s]
      BY DEF SearchAvoidsReserved, IsReserved
    <3>1. s # r
      BY DEF Inv, TypeOK
    <3>2. /\ pc[s] = pc'[s] /\ route'[s] = route[s] /\ startT'[s] = startT[s]
          /\ fresh'[s] = fresh[s]
      BY <3>1 DEF Inv, TypeOK
    <3>3. IsReserved(route[s][i], startT[s] + i - 1, s)
      BY <3>2 DEF IsReserved
    <3> QED  BY <3>2, <3>3 DEF Inv, SearchAvoidsReserved
  <2> QED  BY <2>1, <2>2, <2>3, <2>4 DEF Inv
<1>8. ASSUME NEW r \in Robots, ReservePath(r) PROVE Inv'
  <2> DEFINE claim == Claim(route[r], startT[r])
  <2>a. /\ pc[r] = "reserve" /\ pc' = [pc EXCEPT ![r] = "drive"]
        /\ table' = Reserved(r, claim)
        /\ fresh' = [s \in Robots |-> IF s # r /\ pc[s] \in Searching
                                      THEN fresh[s] \cup claim ELSE {}]
        /\ driven' = [driven EXCEPT ![r] = 1]
        /\ UNCHANGED <<position, timeStep, startT, route, resetting, resets, wasReset>>
    BY <1>8 DEF ReservePath, Goto
  <2>b. route[r] \in Seq(Points) /\ route[r] # <<>> /\ startT[r] \in Nat
    BY <2>a DEF Inv, TypeOK, InStep
  <2>c. claim \subseteq Keys
    BY <2>b, ClaimType
  <2> HIDE DEF claim
  <2>d. /\ DOMAIN table' = DOMAIN table \cup claim
        /\ \A k \in claim : table'[k] = r
        /\ \A k \in DOMAIN table \ claim : table'[k] = table[k]
    BY <2>a DEF Reserved
  <2> USE <2>a, <2>d
  <2>1. TypeOK'
    <3>1. DOMAIN table' \subseteq Keys /\ \A k \in DOMAIN table' : table'[k] \in Robots
      BY <2>c, <2>d DEF Inv, TypeOK
    <3>2. fresh' \in [Robots -> SUBSET Keys]
      BY <2>c, <2>a DEF Inv, TypeOK
    <3>3. pc' \in [Robots -> {"idle", "clock", "search", "reserve", "drive", "tick"}]
      BY <2>a DEF Inv, TypeOK
    <3>4. driven' \in [Robots -> Nat]
      BY <2>a DEF Inv, TypeOK
    <3> QED  BY <3>1, <3>2, <3>3, <3>4, <2>a DEF Inv, TypeOK
  <2>2. InStep'
    <3>1. Len(route[r]) \in Nat \ {0}
      BY <2>b DEF Inv, TypeOK, InStep
    <3> QED  BY <3>1 DEF Inv, TypeOK, InStep
  <2>3. NoStaleEntries'
    <3> SUFFICES ASSUME NEW k \in DOMAIN table'
                 PROVE  /\ pc'[table'[k]] \in {"idle", "drive", "tick"}
                        /\ k \in Claim(route[table'[k]], startT[table'[k]])
      <4>1. \A s : Claim(route[s], startT[s])' = Claim(route[s], startT[s])
        BY <2>a DEF Claim, Horizon
      <4> QED  BY <4>1, <2>a DEF NoStaleEntries
    <3>1. CASE k \in claim
      BY <3>1 DEF Inv, TypeOK, claim
    <3>2. CASE k \notin claim
      <4>1. table'[k] = table[k] /\ table[k] \in Robots /\ table[k] # r
        BY <3>2 DEF Inv, TypeOK, NoStaleEntries
      <4> QED  BY <4>1, <3>2 DEF Inv, TypeOK, NoStaleEntries
    <3> QED  BY <3>1, <3>2
  <2>4. SearchAvoidsReserved'
    <3> SUFFICES ASSUME NEW s \in Robots, pc'[s] \in {"search", "reserve"},
                        NEW i \in 2 .. Len(route[s]),
                        IsReserved(route[s][i], startT[s] + i - 1, s)'
                 PROVE  <<route[s][i], startT[s] + i - 1>> \in fresh'[s]
      BY DEF SearchAvoidsReserved, IsReserved
    <3>1. s # r /\ pc[s] \in {"search", "reserve"}
      BY DEF Inv, TypeOK
    <3>2. fresh'[s] = fresh[s] \cup claim
      BY <3>1 DEF Searching
    <3>3. CASE <<route[s][i], startT[s] + i - 1>> \in claim
      BY <3>2, <3>3
    <3>4. CASE <<route[s][i], startT[s] + i - 1>> \notin claim
      <4>1. IsReserved(route[s][i], startT[s] + i - 1, s)
        BY <3>4 DEF IsReserved
      <4> QED  BY <4>1, <3>1, <3>2 DEF Inv, SearchAvoidsReserved
    <3> QED  BY <3>3, <3>4
  <2> QED  BY <2>1, <2>2, <2>3, <2>4 DEF Inv
<1>9. ASSUME NEW r \in Robots, Move(r) \/ Tick(r) \/ Arrive(r) PROVE Inv'
  <2> USE <1>9 DEF Goto
  <2>0. ASSUME Move(r) PROVE TypeOK' /\ InStep'
    <3>1. /\ route[r] \in Seq(Points) /\ Len(route[r]) \in Nat
          /\ driven[r] \in 1 .. Len(route[r]) /\ driven[r] + 1 \in 1 .. Len(route[r])
          /\ driven'[r] = driven[r] + 1 /\ position'[r] = route[r][driven[r] + 1]
          /\ pc[r] = "drive" /\ pc'[r] = "tick"
      BY <2>0 DEF Move, Inv, TypeOK, InStep
    <3>2. route[r][driven[r] + 1] \in Points
      BY <3>1
    <3>3. TypeOK'
      BY <2>0, <3>1, <3>2 DEF Move, Inv, TypeOK
    <3>4. InStep'
      BY <2>0, <3>1 DEF Move, Inv, TypeOK, InStep
    <3> QED  BY <3>3, <3>4
  <2>1. ASSUME Tick(r) PROVE TypeOK' /\ InStep'
    <3>1. TypeOK'
      BY <2>1 DEF Tick, Inv, TypeOK
    <3>2. InStep'
      BY <2>1 DEF Tick, Inv, TypeOK, InStep
    <3> QED  BY <3>1, <3>2
  <2>2. ASSUME Arrive(r) PROVE TypeOK' /\ InStep'
    <3>1. TypeOK'
      BY <2>2 DEF Arrive, Inv, TypeOK
    <3>2. InStep'
      BY <2>2 DEF Arrive, Inv, TypeOK, InStep
    <3> QED  BY <3>1, <3>2
  <2>3. NoStaleEntries'
    BY QuietStale DEF Inv, TypeOK, Move, Tick, Arrive
  <2>4. SearchAvoidsReserved'
    BY QuietSearch DEF Inv, TypeOK, Move, Tick, Arrive
  <2> QED  BY <2>0, <2>1, <2>2, <2>3, <2>4 DEF Inv
<1>10. ASSUME NEW r \in Robots, ResetClock(r) PROVE Inv'
  <2> USE <1>10 DEF ResetClock
  <2>1. TypeOK'
    BY DEF Inv, TypeOK
  <2>2. InStep'
    BY DEF Inv, TypeOK, InStep
  <2>3. NoStaleEntries'
    BY DEF Inv, NoStaleEntries, Claim, Horizon
  <2>4. SearchAvoidsReserved'
    BY DEF Inv, SearchAvoidsReserved, IsReserved
  <2> QED  BY <2>1, <2>2, <2>3, <2>4 DEF Inv
<1>11. ASSUME NEW r \in Robots, ResetClear(r) PROVE Inv'
  BY <1>11, ClearStep DEF ResetClear
<1> QED
  BY <1>1, <1>2, <1>3, <1>4, <1>5, <1>6, <1>7, <1>8, <1>9, <1>10, <1>11
  DEF Next, Step

LEMMA SpecInv == Spec => []Inv
BY InvInit, InvNext, PTL DEF Spec

-----------------------------------------------------------------------------
(* Types: in particular nothing is ever reserved beyond the horizon.       *)
THEOREM TypeCorrect == Spec => []TypeOK
<1>1. Inv => TypeOK
  BY DEF Inv
<1> QED  BY <1>1, SpecInv, PTL

(* clearReservations and reservePath leave no entry of an earlier route.   *)
THEOREM TableSound == Spec => []NoStaleEntries
<1>1. Inv => NoStaleEntries
  BY DEF Inv
<1> QED  BY <1>1, SpecInv, PTL

(* The control thread's steps keep to the times reserved by the planner.   *)
THEOREM DriveSound == Spec => []DrivesAsReserved
<1>1. Inv => DrivesAsReserved
  <2> SUFFICES ASSUME Inv, NEW r \in Robots, pc[r] = "drive", ~wasReset[r],
                      timeStep[r] < MAX_TIME
               PROVE  <<position[r], timeStep[r]>> \in Claim(route[r], startT[r])
    BY DEF DrivesAsReserved
  <2>1. /\ driven[r] \in 1 .. Len(route[r])
        /\ position[r] = route[r][driven[r]]
        /\ timeStep[r] = startT[r] + driven[r] - 1
    BY DEF Inv, InStep
  <2> QED  BY <2>1, ClaimCells DEF Inv, TypeOK
<1> QED  BY <1>1, SpecInv, PTL

(* Only overlapping searches make a route cross another's reservation.     *)
THEOREM SearchSound == Spec => []SearchAvoidsReserved
<1>1. Inv => SearchAvoidsReserved
  BY DEF Inv
<1> QED  BY <1>1, SpecInv, PTL

-----------------------------------------------------------------------------
(* Robots that meet.  The table keeps two robots apart at equal times of   *)
(* their own clocks, as long as nobody is reset and no claim overwrites    *)
(* another's: because a search missed what was reserved meanwhile, because *)
(* a route starts on a cell that is taken, or parks on one that will be.   *)

OnTheWay(r) == pc[r] \in {"drive", "tick"}

(* The time step of the cell r is on: having moved, it is about to count it.*)
Now(r) == IF pc[r] = "tick" THEN timeStep[r] + 1 ELSE timeStep[r]

ApartInTime ==
  \A r, s \in Robots :
    r # s /\ OnTheWay(r) /\ OnTheWay(s) /\ Now(r) = Now(s) /\ Now(r) < MAX_TIME =>
      position[r] # position[s]

ClocksAgree ==
  \A r, s \in Robots :
    OnTheWay(r) /\ OnTheWay(s) => Now(r) = Now(s) /\ Now(r) < MAX_TIME

(* Nothing r is about to claim has been reserved since its search began,   *)
(* nor is its first cell taken, nor its last for as long as it parks.      *)
Undisturbed(r) ==
  /\ Claim(route[r], startT[r]) \cap fresh[r] = {}
  /\ ~IsReserved(route[r][1], startT[r], r)
  /\ \A i \in 0 .. PARK_TIME - 1 :
       ~IsReserved(route[r][Len(route[r])], startT[r] + Len(route[r]) + i, r)

ClaimsUndisturbed == \A r \in Robots : ReservePath(r) => Undisturbed(r)

Held ==
  \A r \in Robots : OnTheWay(r) =>
    \A k \in Claim(route[r], startT[r]) : k \in DOMAIN table /\ table[k] = r

NoReset == resets = 0 /\ resetting = {} /\ \A r \in Robots : ~wasReset[r]

(* The search avoided whatever was reserved when it began, so that an      *)
(* undisturbed claim overwrites nobody's reservation.                      *)
LEMMA NothingOverwritten ==
  ASSUME Inv, NEW r \in Robots, pc[r] = "reserve", Undisturbed(r),
         NEW k \in Claim(route[r], startT[r]), k \in DOMAIN table
  PROVE  table[k] = r
<1>1. /\ route[r] \in Seq(Points) /\ route[r] # <<>> /\ startT[r] \in Nat
      /\ Len(route[r]) \in Nat
  BY DEF Inv, TypeOK, InStep
<1>2. CASE \E i \in 1 .. Len(route[r]) : k = <<route[r][i], startT[r] + i - 1>>
  <2>1. PICK i \in 1 .. Len(route[r]) : k = <<route[r][i], startT[r] + i - 1>>
    BY <1>2
  <2>2. CASE i = 1
    <3>1. k = <<route[r][1], startT[r]>>
      BY <1>1, <2>1, <2>2
    <3> QED  BY <3>1 DEF Undisturbed, IsReserved
  <2>3. CASE i # 1
    <3>1. i \in 2 .. Len(route[r])
      BY <1>1, <2>3
    <3>2. k \notin fresh[r]
      BY DEF Undisturbed
    <3>3. ~IsReserved(route[r][i], startT[r] + i - 1, r)
      BY <2>1, <3>1, <3>2 DEF Inv, SearchAvoidsReserved
    <3> QED  BY <2>1, <3>3 DEF IsReserved
  <2> QED  BY <2>2, <2>3
<1>3. CASE \E i \in 0 .. PARK_TIME - 1 :
             k = <<route[r][Len(route[r])], startT[r] + Len(route[r]) + i>>
  BY <1>3 DEF Undisturbed, IsReserved
<1> QED
  BY <1>2, <1>3 DEF Claim, Horizon

LEMMA HeldNext ==
  Inv /\ Held /\ NoReset /\ [Next /\ ClaimsUndisturbed]_vars => Held' /\ NoReset'
<1> SUFFICES ASSUME Inv, Held, NoReset, [Next /\ ClaimsUndisturbed]_vars
             PROVE  Held' /\ NoReset'
  OBVIOUS
<1>1. CASE UNCHANGED vars
  BY <1>1 DEF vars, Held, OnTheWay, Claim, Horizon, NoReset
<1>2. ASSUME NEW r \in Robots, table' = Cleared(r), UNCHANGED <<route, startT>>,
             pc'[r] \in {"idle", "clock"},
             \A s \in Robots \ {r} : pc'[s] = pc[s]
      PROVE  Held'
  <2> SUFFICES ASSUME NEW s \in Robots, OnTheWay(s)',
                      NEW k \in Claim(route[s], startT[s])
               PROVE  k \in DOMAIN table' /\ table'[k] = s
    BY <1>2 DEF Held, Claim, Horizon
  <2>1. s # r /\ OnTheWay(s)
    BY <1>2 DEF OnTheWay
  <2>2. k \in DOMAIN table /\ table[k] = s
    BY <2>1 DEF Held
  <2> QED  BY <1>2, <2>1, <2>2 DEF Cleared
<1>3. ASSUME NEW r \in Robots, UNCHANGED table,
             \A s \in Robots : OnTheWay(s)' => /\ OnTheWay(s)
                                             /\ route'[s] = route[s]
                                             /\ startT'[s] = startT[s]
      PROVE  Held'
  BY <1>3 DEF Held, Claim, Horizon
<1>4. ASSUME NEW r \in Robots, PlannerStop(r) \/ PlannerClear(r)
      PROVE  Held' /\ NoReset'
  <2>1. Held'
    BY <1>2, <1>4 DEF PlannerStop, PlannerClear, Goto, Inv, TypeOK
  <2> QED  BY <1>4, <2>1 DEF PlannerStop, PlannerClear, NoReset
<1>5. ASSUME NEW r \in Robots,
             \/ PlannerClock(r) \/ SearchStep(r) \/ SearchFinds(r) \/ SearchFails(r)
             \/ Move(r) \/ Tick(r) \/ Arrive(r)
      PROVE  Held' /\ NoReset'
  <2>1. /\ UNCHANGED <<table, resets, resetting>>
        /\ \A s \in Robots : wasReset'[s] \in {FALSE, wasReset[s]}
    BY <1>5 DEF PlannerClock, SearchStep, SearchFinds, SearchFails, Move, Tick,
                Arrive, Inv, TypeOK
  <2>2. \A s \in Robots : OnTheWay(s)' => /\ OnTheWay(s)
                                         /\ route'[s] = route[s]
                                         /\ startT'[s] = startT[s]
    BY <1>5 DEF PlannerClock, SearchStep, SearchFinds, SearchFails, Move, Tick,
                Arrive, Goto, OnTheWay, Inv, TypeOK
  <2> QED  BY <1>3, <2>1, <2>2 DEF NoReset
<1>6. ASSUME NEW r \in Robots, ReservePath(r), Undisturbed(r)
      PROVE  Held' /\ NoReset'
  <2> DEFINE claim == Claim(route[r], startT[r])
  <2>1. /\ pc[r] = "reserve" /\ table' = Reserved(r, claim)
        /\ pc' = [pc EXCEPT ![r] = "drive"]
        /\ UNCHANGED <<startT, route, resetting, resets, wasReset>>
    BY <1>6 DEF ReservePath, Goto
  <2>2. \A k \in claim : k \in DOMAIN table => table[k] = r
    BY <1>6, <2>1, NothingOverwritten
  <2> HIDE DEF claim
  <2>3. \A k \in claim : k \in DOMAIN table' /\ table'[k] = r
    BY <2>1 DEF Reserved
  <2>4. \A k \in DOMAIN table \ claim : k \in DOMAIN table' /\ table'[k] = table[k]
    BY <2>1 DEF Reserved
  <2>5. ASSUME NEW s \in Robots, OnTheWay(s)',
               NEW k \in Claim(route[s], startT[s])
        PROVE  k \in DOMAIN table' /\ table'[k] = s
    <3>1. CASE s = r
      BY <2>3, <3>1 DEF claim
    <3>2. CASE s # r
      <4>1. OnTheWay(s)
        BY <2>1, <2>5, <3>2 DEF OnTheWay, Inv, TypeOK
      <4>2. k \in DOMAIN table /\ table[k] = s
        BY <4>1 DEF Held
      <4> QED  BY <2>2, <2>4, <3>2, <4>2
    <3> QED  BY <3>1, <3>2
  <2>6. Held'
    BY <2>1, <2>5 DEF Held, Claim, Horizon
  <2> QED  BY <2>1, <2>6 DEF NoReset
<1>7. ASSUME NEW r \in Robots, ResetClock(r) \/ ResetClear(r) PROVE FALSE
  BY <1>7 DEF ResetClock, ResetClear, NoReset
<1> QED
  BY <1>1, <1>4, <1>5, <1>6, <1>7 DEF Next, Step, ClaimsUndisturbed

LEMMA HeldApart == Inv /\ Held /\ NoReset => ApartInTime
<1> SUFFICES ASSUME Inv, Held, NoReset, NEW r \in Robots, NEW s \in Robots, r # s,
                    OnTheWay(r), OnTheWay(s), Now(r) = Now(s), Now(r) < MAX_TIME,
                    position[r] = position[s]
             PROVE  FALSE
  BY DEF ApartInTime
<1>1. ASSUME NEW q \in {r, s}
      PROVE  <<position[q], Now(q)>> \in Claim(route[q], startT[q])
  <2> q \in Robots /\ OnTheWay(q)
    OBVIOUS
  <2>1. /\ driven[q] \in 1 .. Len(route[q]) /\ route[q][driven[q]] = position[q]
        /\ startT[q] \in Nat /\ route[q] \in Seq(Points)
        /\ pc[q] = "drive" => timeStep[q] = startT[q] + driven[q] - 1
        /\ pc[q] = "tick" => timeStep[q] = startT[q] + driven[q] - 2
    BY DEF Inv, TypeOK, InStep, NoReset, OnTheWay
  <2>2. driven[q] \in Nat
    BY <2>1
  <2>3. Now(q) = startT[q] + driven[q] - 1
    BY <2>1, <2>2 DEF Now, OnTheWay
  <2> QED  BY <2>1, <2>3, ClaimCells
<1> DEFINE k == <<position[r], Now(r)>>
<1>2. k \in Claim(route[r], startT[r]) /\ k \in Claim(route[s], startT[s])
  BY <1>1
<1> HIDE DEF k
<1> QED
  BY <1>2 DEF Held

(* If nobody resets a robot and no claim is disturbed, two robots on their *)
(* way are on different cells whenever their clocks show the same time     *)
(* within the horizon; so that DrivenApart, which the code does not keep,  *)
(* holds where all clocks agree.                                           *)
THEOREM ApartWhileInTime ==
  MaxResets = 0 =>
    (Spec /\ [][ClaimsUndisturbed]_vars =>
       []ApartInTime /\ [](ClocksAgree => DrivenApart))
<1> SUFFICES ASSUME MaxResets = 0
             PROVE  Spec /\ [][ClaimsUndisturbed]_vars =>
                      []ApartInTime /\ [](ClocksAgree => DrivenApart)
  OBVIOUS
<1>1. Init => Held /\ NoReset
  BY DEF Init, Held, OnTheWay, NoReset
<1>2. ApartInTime => (ClocksAgree => DrivenApart)
  BY DEF ApartInTime, ClocksAgree, DrivenApart, OnTheWay
<1>3. [Next]_vars /\ [ClaimsUndisturbed]_vars => [Next /\ ClaimsUndisturbed]_vars
  OBVIOUS
<1> QED
  BY <1>1, <1>2, <1>3, SpecInv, HeldNext, HeldApart, PTL DEF Spec

=============================================================================
