-------------------------------- MODULE Bus --------------------------------
(***************************************************************************)
(* The message bus (src/messaging/MessageBus.cpp) and the event log        *)
(* (src/messaging/EventLogger.cpp) under the threads that use them: a      *)
(* control thread that has moved its robot publishes the position; publish *)
(* calls the handlers of the other robots in that same thread, with their  *)
(* posMutex_ held, and they publish a collision warning, which the         *)
(* simulator's handler writes to the event log (src/core/Robot.cpp,        *)
(* src/sim/Simulator.cpp).  At the end the simulator shuts the robots down *)
(* one after the other: each is unsubscribed while others may still hold a *)
(* copy of its handler, and its control thread is joined; then all are     *)
(* destroyed.                                                              *)
(*                                                                         *)
(* The mutexes of the bus and of the log are only held by one step at a    *)
(* time and need no variable; posMutex_ is held over several.  Of the      *)
(* entries of both logs only the time stamps are kept here.                *)
(***************************************************************************)
EXTENDS Naturals, Sequences, FiniteSets

CONSTANTS
  Robots,
  Points,
  Subscribers,  \* the robots in the order they subscribed
  Nobody,
  Lookahead,    \* how many cells of its path a robot watches
  MAX_LOG,      \* entries the bus keeps
  MAX_EVENTS,   \* entries the event log keeps
  MaxClock      \* bound: the time

ASSUME BusAssumption ==
  /\ Subscribers \in Seq(Robots)
  /\ Robots = {Subscribers[i] : i \in 1 .. Len(Subscribers)}
  /\ Nobody \notin Robots
  /\ Lookahead \in Nat
  /\ MAX_LOG \in Nat \ {0}
  /\ MAX_EVENTS \in Nat \ {0}
  /\ MaxClock \in Nat

VARIABLES
  now,       \* the steady clock
  log,       \* when each of the bus's recent messages was published
  events,    \* when, since startTime, each entry of the event log was made
  startTime,
  position,
  ahead,     \* the next Lookahead cells of a robot's path, if it is MOVING
  posMutex,  \* whose control thread holds each robot's posMutex_
  pc,        \* where each control thread is
  todo,      \* the handlers it has copied and not yet called
  subs,      \* the subscriptions of the bus
  running,   \* the robots whose running_ is set
  main,      \* where the simulator's shutdown is
  joined,    \* how many robots it has shut down
  destroyed  \* the robots that exist no more

logVars == <<now, log, events, startTime>>
robotVars == <<position, ahead, posMutex, pc, todo>>
shutdownVars == <<subs, running, main, joined, destroyed>>
vars == <<logVars, robotVars, shutdownVars>>

Init ==
  /\ now = 0
  /\ log = <<>>
  /\ events = <<>>
  /\ startTime = 0
  /\ position \in [Robots -> Points]
  /\ ahead = [r \in Robots |-> {}]
  /\ posMutex = [r \in Robots |-> Nobody]
  /\ pc = [r \in Robots |-> "drive"]
  /\ todo = [r \in Robots |-> <<>>]
  /\ subs = Subscribers
  /\ running = Robots
  /\ main = "up"
  /\ joined = 0
  /\ destroyed = {}

Watched == {cells \in SUBSET Points : Cardinality(cells) <= Lookahead}

Goto(r, to) == pc' = [pc EXCEPT ![r] = to]

-----------------------------------------------------------------------------
(* The two logs: the oldest entry makes room.  The bus adds and then       *)
(* removes, the event log removes and then adds.  Mutant of Newest: one    *)
(* entry too many is kept.                                                 *)

NewestPlusOne(s, cap) == IF Len(s) > cap + 1 THEN Tail(s) ELSE s
Newest(s, cap) == IF Len(s) > cap THEN Tail(s) ELSE s

Publish == log' = Newest(Append(log, now), MAX_LOG)

LogEvent ==
  LET kept == IF Len(events) >= MAX_EVENTS THEN Tail(events) ELSE events
  IN  events' = Append(kept, now - startTime)

(* What clear() leaves of the events.  Mutant: it only sets the time.      *)
EventsUncleared == events
EventsCleared == <<>>

ClearLog ==
  /\ destroyed = {}
  /\ events' = EventsCleared
  /\ startTime' = now
  /\ UNCHANGED <<now, log, robotVars, shutdownVars>>

-----------------------------------------------------------------------------
(* The control thread of r.                                                *)

(* The top of its loop over the cells of a route: a shutdown ends it, and  *)
(* whatever follows the last cell calls no handler.                        *)
CheckRunning(r) ==
  /\ pc[r] = "drive"
  /\ Goto(r, IF r \in running THEN "move" ELSE "ended")
  /\ UNCHANGED <<logVars, position, ahead, posMutex, todo, shutdownVars>>

(* posMutex_ after the move.  Mutant: r goes on holding it.                *)
MutexKept(r) == [posMutex EXCEPT ![r] = r]
MutexReleased(r) == posMutex

(* A step of the path: the new cell is the first of what is ahead, unless  *)
(* the robot has been told to stop during the move.                        *)
Move(r) ==
  /\ pc[r] = "move"
  /\ posMutex[r] = Nobody
  /\ \E p \in Points :
       /\ position' = [position EXCEPT ![r] = p]
       /\ \E cells \in Watched :
            /\ cells = {} \/ p \in cells
            /\ ahead' = [ahead EXCEPT ![r] = cells]
  /\ posMutex' = MutexReleased(r)
  /\ Goto(r, "publish")
  /\ UNCHANGED <<logVars, todo, shutdownVars>>

PublishPosition(r) ==
  /\ pc[r] = "publish"
  /\ Publish
  /\ Goto(r, "copy")
  /\ UNCHANGED <<now, events, startTime, position, ahead, posMutex, todo,
                 shutdownVars>>

CopyHandlers(r) ==
  /\ pc[r] = "copy"
  /\ todo' = [todo EXCEPT ![r] = subs]
  /\ Goto(r, "call")
  /\ UNCHANGED <<logVars, position, ahead, posMutex, shutdownVars>>

(* While the handler of s warns, it holds s's posMutex_.                   *)
(* Mutant: it has released it.                                             *)
MutexFree(s, r) == posMutex
MutexHeld(s, r) == [posMutex EXCEPT ![s] = r]

(* The handler of the next subscriber: its own message is ignored, and one *)
(* that is not in its way; otherwise it warns.                             *)
CallHandler(r) ==
  /\ pc[r] = "call"
  /\ todo[r] # <<>>
  /\ LET s == Head(todo[r]) IN
       \/ /\ \/ s = r
             \/ posMutex[s] = Nobody /\ position[r] \notin ahead[s]
          /\ todo' = [todo EXCEPT ![r] = Tail(@)]
          /\ UNCHANGED <<posMutex, pc>>
       \/ /\ s # r
          /\ posMutex[s] = Nobody /\ position[r] \in ahead[s]
          /\ posMutex' = MutexHeld(s, r)
          /\ Goto(r, "warn")
          /\ UNCHANGED todo
  /\ UNCHANGED <<logVars, position, ahead, shutdownVars>>

PublishWarning(r) ==
  /\ pc[r] = "warn"
  /\ Publish
  /\ Goto(r, "record")
  /\ UNCHANGED <<now, events, startTime, position, ahead, posMutex, todo,
                 shutdownVars>>

(* The simulator's handler of warnings; then s's handler returns. *)
RecordWarning(r) ==
  /\ pc[r] = "record"
  /\ LogEvent
  /\ posMutex' = [posMutex EXCEPT ![Head(todo[r])] = Nobody]
  /\ todo' = [todo EXCEPT ![r] = Tail(@)]
  /\ Goto(r, "call")
  /\ UNCHANGED <<now, log, startTime, position, ahead, shutdownVars>>

EndPublish(r) ==
  /\ pc[r] = "call"
  /\ todo[r] = <<>>
  /\ LogEvent
  /\ Goto(r, "drive")
  /\ UNCHANGED <<now, log, startTime, position, ahead, posMutex, todo,
                 shutdownVars>>

Control(r) ==
  \/ CheckRunning(r) \/ Move(r) \/ PublishPosition(r) \/ CopyHandlers(r)
  \/ CallHandler(r) \/ PublishWarning(r) \/ RecordWarning(r) \/ EndPublish(r)

-----------------------------------------------------------------------------
(* Simulator::shutdown and, in each turn of its loop, Robot::shutdown.     *)

Closing == Subscribers[joined + 1]

BeginShutdown ==
  /\ main = "up"
  /\ main' = "stop"
  /\ UNCHANGED <<logVars, robotVars, subs, running, joined, destroyed>>

StopRobot ==
  /\ main = "stop"
  /\ joined < Len(Subscribers)
  /\ running' = running \ {Closing}
  /\ main' = "unsubscribe"
  /\ UNCHANGED <<logVars, robotVars, subs, joined, destroyed>>

(* A robot has subscribed once. *)
Unsubscribe ==
  /\ main = "unsubscribe"
  /\ \E i \in 1 .. Len(subs) :
       /\ subs[i] = Closing
       /\ subs' = SubSeq(subs, 1, i - 1) \o SubSeq(subs, i + 1, Len(subs))
  /\ main' = "join"
  /\ UNCHANGED <<logVars, robotVars, running, joined, destroyed>>

(* Which robots exist no more once r has been joined: none, they stay in   *)
(* robots_ until all are.  Mutant: r is destroyed at once.                 *)
DestroyedAtOnce(r) == {r}
DestroyedWith(r) == {}

Join ==
  /\ main = "join"
  /\ pc[Closing] = "ended"
  /\ joined' = joined + 1
  /\ destroyed' = destroyed \cup DestroyedWith(Closing)
  /\ main' = "stop"
  /\ UNCHANGED <<logVars, robotVars, subs, running>>

(* ~Simulator, after all of them. *)
Destroy ==
  /\ main = "stop"
  /\ joined = Len(Subscribers)
  /\ destroyed' = Robots
  /\ main' = "gone"
  /\ UNCHANGED <<logVars, robotVars, subs, running, joined>>

Shutdown == StopRobot \/ Unsubscribe \/ Join \/ Destroy

-----------------------------------------------------------------------------
(* setState and setPath, by any thread. *)
Steer(r) ==
  /\ destroyed = {}
  /\ posMutex[r] = Nobody
  /\ \E cells \in Watched : ahead' = [ahead EXCEPT ![r] = cells]
  /\ UNCHANGED <<logVars, position, posMutex, pc, todo, shutdownVars>>

(* States, batteries, missions and obstacles: no handler of theirs changes *)
(* anything.                                                               *)
Announce ==
  /\ destroyed = {}
  /\ \/ Publish /\ UNCHANGED events
     \/ LogEvent /\ UNCHANGED log
  /\ UNCHANGED <<now, startTime, robotVars, shutdownVars>>

Tick ==
  /\ now < MaxClock
  /\ now' = now + 1
  /\ UNCHANGED <<log, events, startTime, robotVars, shutdownVars>>

Next ==
  \/ ClearLog \/ Announce \/ Tick \/ BeginShutdown \/ Shutdown
  \/ \E r \in Robots : Control(r) \/ Steer(r)

(* Control threads run, a mutex that is free now and again is got, and a   *)
(* shutdown that has begun goes on.                                        *)
Spec ==
  /\ Init /\ [][Next]_vars
  /\ \A r \in Robots : SF_vars(Control(r))
  /\ WF_vars(Shutdown)

-----------------------------------------------------------------------------
(* Types, and the sizes of the two logs.                                   *)
TypeOK ==
  /\ now \in Nat
  /\ log \in Seq(Nat) /\ Len(log) <= MAX_LOG
  /\ events \in Seq(Nat) /\ Len(events) <= MAX_EVENTS
  /\ startTime \in 0 .. now
  /\ position \in [Robots -> Points]
  /\ ahead \in [Robots -> SUBSET Points]
  /\ posMutex \in [Robots -> Robots \cup {Nobody}]
  /\ pc \in [Robots -> {"drive", "move", "publish", "copy", "call", "warn",
                        "record", "ended"}]
  /\ todo \in [Robots -> Seq(Robots)]
  /\ subs \in Seq(Robots)
  /\ running \subseteq Robots
  /\ main \in {"up", "stop", "unsubscribe", "join", "gone"}
  /\ joined \in 0 .. Len(Subscribers)
  /\ destroyed \subseteq Robots

(* A replay is in the order of time, whoever logged and whenever the log   *)
(* was cleared in between.                                                 *)
InOrderOfTime ==
  /\ \A i, j \in 1 .. Len(log) : i <= j => log[i] <= log[j]
  /\ \A i, j \in 1 .. Len(events) : i <= j => events[i] <= events[j]

(* A warning is true until it has been recorded: the robot it is about is  *)
(* still in the way of the robot that warns.                               *)
WarningIsCurrent ==
  \A r \in Robots :
    pc[r] \in {"warn", "record"} => position[r] \in ahead[Head(todo[r])]

(* Whoever holds a robot's posMutex_ is about to warn on its behalf and     *)
(* waits for no other posMutex_: however many robots there are, none wait  *)
(* for each other in a circle.                                             *)
HoldersGoOn ==
  \A s \in Robots :
    posMutex[s] # Nobody =>
      LET r == posMutex[s] IN
      /\ pc[r] \in {"warn", "record"}
      /\ todo[r] # <<>> /\ Head(todo[r]) = s

(* A handler is only called as long as its robot exists: the list a thread *)
(* has copied may name robots that were unsubscribed and shut down since,  *)
(* but none that was destroyed.                                            *)
HandlersAlive ==
  \A r \in Robots : \A i \in 1 .. Len(todo[r]) : todo[r][i] \notin destroyed

(* publish returns: robots that call each other's handlers do not block    *)
(* each other.                                                             *)
PublishReturns == \A r \in Robots : pc[r] = "publish" ~> pc[r] = "drive"

=============================================================================
