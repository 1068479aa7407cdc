------------------------------- MODULE Fleet -------------------------------
(***************************************************************************)
(* Several robots and the reservation table they share                     *)
(* (src/planning/ReservationTable.cpp and the parts of src/core/Robot.cpp  *)
(* that use it): each planner clears its reservations, reads its robot's   *)
(* own time step, searches a route cell by cell while the others go on,    *)
(* reserves it and has it driven.  Missions, states and batteries are in   *)
(* Robot: here a planner may set out for anywhere at any time, a search    *)
(* may fail, and a drive may break off.                                    *)
(***************************************************************************)
EXTENDS Integers, Sequences

CONSTANTS
  Robots,
  Points,      \* the cells of the grid
  Adjacent,    \* pairs <<p, q>>: one time step may lead from p to q
  StartPos,    \* each robot's first cell
  MAX_TIME,    \* time steps from this one on are not reserved
  PARK_TIME,   \* how long the last cell of a route stays reserved
  MaxRouteLen, \* bound: cells of the longest route considered
  MaxClock,    \* bound: time steps of one robot
  MaxResets    \* bound: reset commands

ASSUME FleetAssumption ==
  /\ StartPos \in [Robots -> Points]
  /\ MAX_TIME \in Nat
  /\ PARK_TIME \in Nat
  /\ MaxRouteLen \in Nat
  /\ MaxClock \in Nat
  /\ MaxResets \in Nat

VARIABLES
  table,     \* the reservations: who has which cell at which time step
  position,
  timeStep,  \* each robot's own count of steps driven
  pc,        \* where each planner, or the drive it waits for, is
  startT,    \* the time step the current route begins at
  route,     \* the current route, as far as it has been searched
  driven,    \* how much of it has been driven
  resetting, \* the robots whose reset() has zeroed the clock but not more
  resets,    \* reset commands not yet issued
  wasReset,  \* history: reset() zeroed the clock since the planner read it
  fresh      \* history: what others reserved since the search began

vars == <<table, position, timeStep, pc, startT, route, driven, resetting,
          resets, wasReset, fresh>>

Keys == Points \X (0 .. MAX_TIME - 1)

Init ==
  /\ table = [k \in {} |-> CHOOSE r \in Robots : TRUE]
  /\ position = StartPos
  /\ timeStep = [r \in Robots |-> 0]
  /\ pc = [r \in Robots |-> "idle"]
  /\ startT = [r \in Robots |-> 0]
  /\ route = [r \in Robots |-> <<>>]
  /\ driven = [r \in Robots |-> 0]
  /\ resetting = {}
  /\ resets = MaxResets
  /\ wasReset = [r \in Robots |-> FALSE]
  /\ fresh = [r \in Robots |-> {}]

-----------------------------------------------------------------------------
(* The reservation table.                                                  *)

(* isReserved: by another robot.  Mutant: asked for the step of the route  *)
(* instead of the time step.                                               *)
IsReserved(p, t, r) ==
  /\ <<p, t>> \in DOMAIN table
  /\ table[<<p, t>>] # r

(* clearReservations.  Mutant of Cleared: nothing is cleared. *)
ClearedNothing(r) == table
Cleared(r) ==
  LET kept == {k \in DOMAIN table : table[k] # r} IN [k \in kept |-> table[k]]

(* Mutant of Horizon: times beyond MAX_TIME are stored. *)
HorizonNone(keys) == keys
Horizon(keys) == {k \in keys : k[2] < MAX_TIME}

(* What reservePath writes: each cell at its time, the last one longer.    *)
(* Mutant of Claim: one time step late.                                    *)
ClaimLate(path, t0) ==
  Horizon({<<path[i], t0 + i>> : i \in 1 .. Len(path)})
Claim(path, t0) ==
  Horizon({<<path[i], t0 + i - 1>> : i \in 1 .. Len(path)}
            \cup {<<path[Len(path)], t0 + Len(path) + i>> : i \in 0 .. PARK_TIME - 1})

(* reservePath: what others had reserved is overwritten. *)
Reserved(r, claim) ==
  [k \in DOMAIN table \cup claim |-> IF k \in claim THEN r ELSE table[k]]

-----------------------------------------------------------------------------
(* The planner of robot r.                                                 *)

Goto(r, to) == pc' = [pc EXCEPT ![r] = to]

(* A stop or reset request taken by the planner. *)
PlannerStop(r) ==
  /\ pc[r] = "idle"
  /\ table' = Cleared(r)
  /\ UNCHANGED <<position, timeStep, pc, startT, route, driven, resetting,
                 resets, wasReset, fresh>>

PlannerClear(r) ==
  /\ pc[r] = "idle"
  /\ table' = Cleared(r)
  /\ Goto(r, "clock")
  /\ UNCHANGED <<position, timeStep, startT, route, driven, resetting,
                 resets, wasReset, fresh>>

PlannerClock(r) ==
  /\ pc[r] = "clock"
  /\ startT' = [startT EXCEPT ![r] = timeStep[r]]
  /\ route' = [route EXCEPT ![r] = <<position[r]>>]
  /\ wasReset' = [wasReset EXCEPT ![r] = FALSE]
  /\ Goto(r, "search")
  /\ UNCHANGED <<table, position, timeStep, driven, resetting, resets, fresh>>

(* The time the search asks about for the next cell of a route.            *)
(* Mutant: counted from 0 and not from the robot's clock.                  *)
NextTimeOfRoute(r) == Len(route[r])
NextTime(r) == startT[r] + Len(route[r])

(* The search looks each next cell up in the table as it then is.          *)
SearchStep(r) ==
  /\ pc[r] = "search"
  /\ Len(route[r]) < MAX_TIME
  /\ Len(route[r]) < MaxRouteLen
  /\ \E p \in Points :
       /\ <<route[r][Len(route[r])], p>> \in Adjacent
       /\ ~IsReserved(p, NextTime(r), r)
       /\ route' = [route EXCEPT ![r] = Append(@, p)]
  /\ UNCHANGED <<table, position, timeStep, pc, startT, driven, resetting,
                 resets, wasReset, fresh>>

(* It ends when it first reaches its goal, which is not where it began.    *)
SearchFinds(r) ==
  /\ pc[r] = "search"
  /\ Len(route[r]) > 1
  /\ \A i \in 1 .. Len(route[r]) - 1 : route[r][i] # route[r][Len(route[r])]
  /\ Goto(r, "reserve")
  /\ UNCHANGED <<table, position, timeStep, startT, route, driven, resetting,
                 resets, wasReset, fresh>>

SearchFails(r) ==
  /\ pc[r] = "search"
  /\ route' = [route EXCEPT ![r] = <<>>]
  /\ fresh' = [fresh EXCEPT ![r] = {}]
  /\ Goto(r, "idle")
  /\ UNCHANGED <<table, position, timeStep, startT, driven, resetting,
                 resets, wasReset>>

Searching == {"clock", "search", "reserve"}

ReservePath(r) ==
  /\ pc[r] = "reserve"
  /\ LET claim == Claim(route[r], startT[r]) IN
       /\ table' = Reserved(r, claim)
       /\ fresh' = [s \in Robots |-> IF s # r /\ pc[s] \in Searching
                                     THEN fresh[s] \cup claim ELSE {}]
  /\ driven' = [driven EXCEPT ![r] = 1]
  /\ Goto(r, "drive")
  /\ UNCHANGED <<position, timeStep, startT, route, resetting, resets,
                 wasReset>>

-----------------------------------------------------------------------------
(* The control thread of robot r: moves, then counts the step.             *)

Move(r) ==
  /\ pc[r] = "drive"
  /\ driven[r] < Len(route[r])
  /\ timeStep[r] < MaxClock
  /\ position' = [position EXCEPT ![r] = route[r][driven[r] + 1]]
  /\ driven' = [driven EXCEPT ![r] = @ + 1]
  /\ Goto(r, "tick")
  /\ UNCHANGED <<table, timeStep, startT, route, resetting, resets, wasReset,
                 fresh>>

Tick(r) ==
  /\ pc[r] = "tick"
  /\ timeStep' = [timeStep EXCEPT ![r] = @ + 1]
  /\ Goto(r, "drive")
  /\ UNCHANGED <<table, position, startT, route, driven, resetting, resets,
                 wasReset, fresh>>

(* At the goal, or early when the robot's state is no longer a driving one.*)
Arrive(r) ==
  /\ pc[r] = "drive"
  /\ Goto(r, "idle")
  /\ UNCHANGED <<table, position, timeStep, startT, route, driven, resetting,
                 resets, wasReset, fresh>>

-----------------------------------------------------------------------------
(* reset() of robot r, in a client's thread: at any time.                  *)

ResetClock(r) ==
  /\ r \notin resetting
  /\ resets > 0
  /\ resets' = resets - 1
  /\ timeStep' = [timeStep EXCEPT ![r] = 0]
  /\ wasReset' = [wasReset EXCEPT ![r] = TRUE]
  /\ resetting' = resetting \cup {r}
  /\ UNCHANGED <<table, position, pc, startT, route, driven, fresh>>

ResetClear(r) ==
  /\ r \in resetting
  /\ table' = Cleared(r)
  /\ resetting' = resetting \ {r}
  /\ UNCHANGED <<position, timeStep, pc, startT, route, driven, resets,
                 wasReset, fresh>>

Step(r) ==
  \/ PlannerStop(r) \/ PlannerClear(r) \/ PlannerClock(r)
  \/ SearchStep(r) \/ SearchFinds(r) \/ SearchFails(r) \/ ReservePath(r)
  \/ Move(r) \/ Tick(r) \/ Arrive(r)
  \/ ResetClock(r) \/ ResetClear(r)

Next == \E r \in Robots : Step(r)

Spec == Init /\ [][Next]_vars

-----------------------------------------------------------------------------
(* Types; nothing is reserved beyond the horizon.                          *)
TypeOK ==
  /\ DOMAIN table \subseteq Keys
  /\ \A k \in DOMAIN table : table[k] \in Robots
  /\ position \in [Robots -> Points]
  /\ timeStep \in [Robots -> Nat]
  /\ pc \in [Robots -> {"idle", "clock", "search", "reserve", "drive", "tick"}]
  /\ startT \in [Robots -> Nat]
  /\ route \in [Robots -> Seq(Points)]
  /\ driven \in [Robots -> Nat]
  /\ resetting \subseteq Robots
  /\ resets \in Nat
  /\ wasReset \in [Robots -> BOOLEAN]
  /\ fresh \in [Robots -> SUBSET Keys]

(* The table holds no leftovers: whatever is reserved for a robot belongs  *)
(* to its latest route, and nothing is while it looks for a new one.       *)
NoStaleEntries ==
  \A k \in DOMAIN table :
    LET r == table[k] IN
    /\ pc[r] \in {"idle", "drive", "tick"}
    /\ k \in Claim(route[r], startT[r])

(* A robot that was not reset on its way is at each of its time steps on   *)
(* the cell it reserved for that time step.                                *)
DrivesAsReserved ==
  \A r \in Robots :
    pc[r] = "drive" /\ ~wasReset[r] /\ timeStep[r] < MAX_TIME =>
      <<position[r], timeStep[r]>> \in Claim(route[r], startT[r])

(* A route leads over a cell another robot has at that time only if it was *)
(* reserved after the search began: two searches that overlap are the one  *)
(* way to claim a cell twice, besides starting and parking on it.          *)
SearchAvoidsReserved ==
  \A r \in Robots :
    pc[r] \in {"search", "reserve"} =>
      \A i \in 2 .. Len(route[r]) :
        IsReserved(route[r][i], startT[r] + i - 1, r) =>
          <<route[r][i], startT[r] + i - 1>> \in fresh[r]

(* Two robots that drive routes planned around each other do not meet.     *)
DrivenApart ==
  \A r, s \in Robots :
    r # s /\ pc[r] \in {"drive", "tick"} /\ pc[s] \in {"drive", "tick"} =>
      position[r] # position[s]

=============================================================================
