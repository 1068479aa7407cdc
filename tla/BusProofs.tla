----------------------------- MODULE BusProofs -----------------------------
(***************************************************************************)
(* For any number of robots and any sizes of the logs: the types, that a   *)
(* warning is true while it is recorded, that holders of a posMutex_ wait  *)
(* for no other, that both logs are in the order of time, that no handler  *)
(* of a destroyed robot is called, and that publish has ever less to do.   *)
(***************************************************************************)
EXTENDS Bus, SequenceTheorems, TLAPS

(* A thread that warns holds the posMutex_ of the robot it warns. *)
WarnersHold ==
  \A r \in Robots :
    pc[r] \in {"warn", "record"} =>
      todo[r] # <<>> /\ posMutex[Head(todo[r])] = r

(* Nothing was logged in the future. *)
NotInFuture ==
  /\ \A i \in 1 .. Len(log) : log[i] <= now
  /\ \A i \in 1 .. Len(events) : events[i] <= now - startTime

(* What a shutdown has joined has ended, and robots are destroyed at last. *)
Joined ==
  /\ destroyed # {} => main = "gone"
  /\ main = "gone" => joined = Len(Subscribers)
  /\ main \in {"unsubscribe", "join"} => joined < Len(Subscribers)
  /\ \A i \in 1 .. joined : pc[Subscribers[i]] = "ended"

(* Only a thread that calls handlers has any left to call. *)
CallersOnly ==
  \A r \in Robots : pc[r] \notin {"call", "warn", "record"} => todo[r] = <<>>

Ending == TypeOK /\ Joined /\ CallersOnly
Handling == TypeOK /\ WarnersHold /\ HoldersGoOn /\ WarningIsCurrent
Logging == TypeOK /\ NotInFuture /\ InOrderOfTime

-----------------------------------------------------------------------------
(* The two logs.                                                           *)

(* An entry more, and then one less. *)
LEMMA Lengths ==
  ASSUME NEW s \in Seq(Nat), NEW t \in Nat
  PROVE  /\ Append(s, t) \in Seq(Nat) /\ Append(s, t) # <<>>
         /\ Len(Append(s, t)) = Len(s) + 1
         /\ Tail(Append(s, t)) \in Seq(Nat)
         /\ Len(Tail(Append(s, t))) = Len(s)
<1>1. /\ Append(s, t) \in Seq(Nat) /\ Append(s, t) # <<>>
      /\ Len(Append(s, t)) = Len(s) + 1
  BY AppendProperties
<1> DEFINE u == Append(s, t)
<1> HIDE DEF u
<1>2. u \in Seq(Nat) /\ u # <<>> /\ Len(u) = Len(s) + 1 /\ Len(s) \in Nat
  BY <1>1 DEF u
<1>3. Tail(u) \in Seq(Nat) /\ Len(Tail(u)) = Len(u) - 1
  BY <1>2
<1> QED  BY <1>1, <1>2, <1>3 DEF u

LEMMA PublishType ==
  ASSUME TypeOK, Publish
  PROVE  log' \in Seq(Nat) /\ Len(log') <= MAX_LOG
<1>1. log \in Seq(Nat) /\ now \in Nat /\ Len(log) <= MAX_LOG
  BY DEF TypeOK
<1>2. Len(log) \in Nat /\ MAX_LOG \in Nat
  BY <1>1, BusAssumption
<1> QED  BY <1>1, <1>2, Lengths DEF Publish, Newest

LEMMA LogEventType ==
  ASSUME TypeOK, LogEvent
  PROVE  events' \in Seq(Nat) /\ Len(events') <= MAX_EVENTS
<1> USE BusAssumption DEF TypeOK
<1>1. now - startTime \in Nat
  OBVIOUS
<1>2. CASE Len(events) >= MAX_EVENTS
  <2>1. Tail(events) \in Seq(Nat) /\ Len(Tail(events)) = Len(events) - 1
    BY <1>2
  <2> QED  BY <1>1, <1>2, <2>1 DEF LogEvent
<1>3. CASE ~(Len(events) >= MAX_EVENTS)
  BY <1>1, <1>3 DEF LogEvent
<1> QED  BY <1>2, <1>3

(* Adding the latest time and dropping the first keeps a sequence sorted.  *)
LEMMA AppendSorted ==
  ASSUME NEW s \in Seq(Nat), NEW t \in Nat,
         \A i \in 1 .. Len(s) : s[i] <= t,
         \A i, j \in 1 .. Len(s) : i <= j => s[i] <= s[j]
  PROVE  LET u == Append(s, t) IN
         /\ \A i \in 1 .. Len(u) : u[i] <= t
         /\ \A i, j \in 1 .. Len(u) : i <= j => u[i] <= u[j]
OBVIOUS

LEMMA TailSorted ==
  ASSUME NEW s \in Seq(Nat), s # <<>>, NEW t \in Nat,
         \A i \in 1 .. Len(s) : s[i] <= t,
         \A i, j \in 1 .. Len(s) : i <= j => s[i] <= s[j]
  PROVE  LET u == Tail(s) IN
         /\ u \in Seq(Nat)
         /\ \A i \in 1 .. Len(u) : u[i] <= t
         /\ \A i, j \in 1 .. Len(u) : i <= j => u[i] <= u[j]
<1>1. Tail(s) \in Seq(Nat) /\ Len(Tail(s)) = Len(s) - 1
  OBVIOUS
<1>2. \A i \in 1 .. Len(Tail(s)) : Tail(s)[i] = s[i + 1]
  OBVIOUS
<1> QED  BY <1>1, <1>2

LEMMA PublishSorted ==
  ASSUME Logging, Publish, now' = now
  PROVE  /\ \A i \in 1 .. Len(log') : log'[i] <= now'
         /\ \A i, j \in 1 .. Len(log') : i <= j => log'[i] <= log'[j]
<1> DEFINE longer == Append(log, now)
<1>1. /\ log \in Seq(Nat) /\ now \in Nat
      /\ \A i \in 1 .. Len(log) : log[i] <= now
      /\ \A i, j \in 1 .. Len(log) : i <= j => log[i] <= log[j]
  BY DEF Logging, TypeOK, NotInFuture, InOrderOfTime
<1>2. longer \in Seq(Nat) /\ longer # <<>>
  BY <1>1, Lengths
<1>3. /\ \A i \in 1 .. Len(longer) : longer[i] <= now
      /\ \A i, j \in 1 .. Len(longer) : i <= j => longer[i] <= longer[j]
  BY <1>1, AppendSorted
<1> HIDE DEF longer
<1>4. /\ \A i \in 1 .. Len(Tail(longer)) : Tail(longer)[i] <= now
      /\ \A i, j \in 1 .. Len(Tail(longer)) :
           i <= j => Tail(longer)[i] <= Tail(longer)[j]
  BY <1>1, <1>2, <1>3, TailSorted
<1>5. log' = longer \/ log' = Tail(longer)
  BY DEF Publish, Newest, longer
<1> QED  BY <1>3, <1>4, <1>5

LEMMA LogEventSorted ==
  ASSUME Logging, LogEvent, now' = now, startTime' = startTime
  PROVE  /\ \A i \in 1 .. Len(events') : events'[i] <= now' - startTime'
         /\ \A i, j \in 1 .. Len(events') : i <= j => events'[i] <= events'[j]
<1> DEFINE t == now - startTime
           kept == IF Len(events) >= MAX_EVENTS THEN Tail(events) ELSE events
<1>1. /\ events \in Seq(Nat) /\ t \in Nat
      /\ \A i \in 1 .. Len(events) : events[i] <= t
      /\ \A i, j \in 1 .. Len(events) : i <= j => events[i] <= events[j]
  BY DEF Logging, TypeOK, NotInFuture, InOrderOfTime
<1>2. Len(events) >= MAX_EVENTS => events # <<>>
  BY <1>1, BusAssumption
<1> HIDE DEF t
<1>3. /\ kept \in Seq(Nat)
      /\ \A i \in 1 .. Len(kept) : kept[i] <= t
      /\ \A i, j \in 1 .. Len(kept) : i <= j => kept[i] <= kept[j]
  BY <1>1, <1>2, TailSorted
<1>4. events' = Append(kept, t)
  BY DEF LogEvent, t
<1> HIDE DEF kept
<1>5. /\ \A i \in 1 .. Len(events') : events'[i] <= t
      /\ \A i, j \in 1 .. Len(events') : i <= j => events'[i] <= events'[j]
  BY <1>1, <1>3, <1>4, AppendSorted
<1> QED  BY <1>5 DEF t

-----------------------------------------------------------------------------
(* The types, part by part: those of the logs, of the robots and of the    *)
(* shutdown.                                                               *)
LogTypes ==
  /\ now \in Nat
  /\ log \in Seq(Nat) /\ Len(log) <= MAX_LOG
  /\ events \in Seq(Nat) /\ Len(events) <= MAX_EVENTS
  /\ startTime \in 0 .. now

RobotTypes ==
  /\ position \in [Robots -> Points]
  /\ ahead \in [Robots -> SUBSET Points]
  /\ posMutex \in [Robots -> Robots \cup {Nobody}]
  /\ pc \in [Robots -> {"drive", "move", "publish", "copy", "call", "warn",
                        "record", "ended"}]
  /\ todo \in [Robots -> Seq(Robots)]

ShutdownTypes ==
  /\ subs \in Seq(Robots)
  /\ running \subseteq Robots
  /\ main \in {"up", "stop", "unsubscribe", "join", "gone"}
  /\ joined \in 0 .. Len(Subscribers)
  /\ destroyed \subseteq Robots

LEMMA TypesTogether == TypeOK <=> LogTypes /\ RobotTypes /\ ShutdownTypes
BY DEF TypeOK, LogTypes, RobotTypes, ShutdownTypes

LEMMA TypeInit == Init => TypeOK
<1> SUFFICES ASSUME Init PROVE TypeOK
  OBVIOUS
<1>1. LogTypes
  BY BusAssumption DEF Init, LogTypes
<1>2. RobotTypes
  BY BusAssumption DEF Init, RobotTypes
<1>3. ShutdownTypes
  BY BusAssumption DEF Init, ShutdownTypes
<1> QED  BY <1>1, <1>2, <1>3, TypesTogether

LEMMA EndingInit == Init => Ending
BY TypeInit DEF Init, Ending, Joined, CallersOnly

LEMMA HandlingInit == Init => Handling
BY TypeInit, BusAssumption
DEF Init, Handling, WarnersHold, HoldersGoOn, WarningIsCurrent

LEMMA LoggingInit == Init => Logging
BY TypeInit DEF Init, Logging, NotInFuture, InOrderOfTime

LEMMA LogTypesNext == TypeOK /\ [Next]_vars => LogTypes'
<1> SUFFICES ASSUME TypeOK, [Next]_vars PROVE LogTypes'
  OBVIOUS
<1>0. LogTypes
  BY TypesTogether
<1>1. CASE UNCHANGED logVars
  BY <1>0, <1>1 DEF logVars, LogTypes
<1>2. CASE Publish /\ UNCHANGED <<now, events, startTime>>
  BY <1>0, <1>2, PublishType DEF LogTypes
<1>3. CASE LogEvent /\ UNCHANGED <<now, log, startTime>>
  BY <1>0, <1>3, LogEventType DEF LogTypes
<1>4. CASE ClearLog
  BY <1>0, <1>4, BusAssumption DEF ClearLog, EventsCleared, LogTypes
<1>5. CASE Tick
  BY <1>0, <1>5 DEF Tick, LogTypes
<1>6. ASSUME NEW r \in Robots, Control(r)
      PROVE \/ UNCHANGED logVars
            \/ Publish /\ UNCHANGED <<now, events, startTime>>
            \/ LogEvent /\ UNCHANGED <<now, log, startTime>>
  BY <1>6 DEF Control, CheckRunning, Move, PublishPosition, CopyHandlers,
              CallHandler, PublishWarning, RecordWarning, EndPublish, logVars
<1>7. CASE Announce
  BY <1>7, <1>2, <1>3 DEF Announce
<1>8. BeginShutdown \/ Shutdown => UNCHANGED logVars
  BY DEF BeginShutdown, Shutdown, StopRobot, Unsubscribe, Join, Destroy
<1>9. ASSUME NEW r \in Robots, Steer(r) PROVE UNCHANGED logVars
  BY <1>9 DEF Steer
<1>10. UNCHANGED vars => UNCHANGED logVars
  BY DEF vars
<1> QED
  BY <1>1, <1>2, <1>3, <1>4, <1>5, <1>6, <1>7, <1>8, <1>9, <1>10 DEF Next

(* Replacing the value of one robot keeps the type of a function on them.  *)
LEMMA ExceptType ==
  ASSUME NEW S, NEW f \in [Robots -> S], NEW r \in Robots, NEW v \in S
  PROVE  [f EXCEPT ![r] = v] \in [Robots -> S]
OBVIOUS

LEMMA GotoType ==
  ASSUME RobotTypes, NEW r \in Robots,
         NEW to \in {"drive", "move", "publish", "copy", "call", "warn",
                     "record", "ended"},
         Goto(r, to)
  PROVE  pc' \in [Robots -> {"drive", "move", "publish", "copy", "call", "warn",
                             "record", "ended"}]
BY ExceptType DEF Goto, RobotTypes

LEMMA TodoType ==
  ASSUME RobotTypes, NEW r \in Robots, NEW q \in Seq(Robots),
         todo' = [todo EXCEPT ![r] = q]
  PROVE  todo' \in [Robots -> Seq(Robots)]
BY ExceptType DEF RobotTypes

LEMMA MutexType ==
  ASSUME RobotTypes, NEW s \in Robots, NEW v \in Robots \cup {Nobody},
         posMutex' = [posMutex EXCEPT ![s] = v]
  PROVE  posMutex' \in [Robots -> Robots \cup {Nobody}]
BY ExceptType DEF RobotTypes

LEMMA AheadType ==
  ASSUME RobotTypes, NEW r \in Robots, NEW cells \in Watched,
         ahead' = [ahead EXCEPT ![r] = cells]
  PROVE  ahead' \in [Robots -> SUBSET Points]
BY ExceptType DEF RobotTypes, Watched

(* The handlers a thread has left to call. *)
LEMMA TodoParts ==
  ASSUME RobotTypes, NEW r \in Robots, todo[r] # <<>>
  PROVE  Head(todo[r]) \in Robots /\ Tail(todo[r]) \in Seq(Robots)
<1>1. todo[r] \in Seq(Robots)
  BY DEF RobotTypes
<1> QED  BY <1>1

LEMMA RobotTypesNext == TypeOK /\ WarnersHold /\ [Next]_vars => RobotTypes'
<1> SUFFICES ASSUME TypeOK, WarnersHold, [Next]_vars PROVE RobotTypes'
  OBVIOUS
<1>0. RobotTypes /\ subs \in Seq(Robots)
  BY TypesTogether DEF ShutdownTypes
<1>1. CASE UNCHANGED robotVars
  BY <1>0, <1>1 DEF robotVars, RobotTypes
<1>2. ASSUME NEW r \in Robots, CheckRunning(r) PROVE RobotTypes'
  <2>1. PICK to \in {"move", "ended"} : Goto(r, to)
    BY <1>2 DEF CheckRunning
  <2> QED  BY <1>0, <1>2, <2>1, GotoType DEF CheckRunning, RobotTypes
<1>3. ASSUME NEW r \in Robots, Move(r) PROVE RobotTypes'
  <2>1. PICK p \in Points : position' = [position EXCEPT ![r] = p]
    BY <1>3 DEF Move
  <2>2. PICK cells \in Watched : ahead' = [ahead EXCEPT ![r] = cells]
    BY <1>3 DEF Move
  <2>3. position' \in [Robots -> Points]
    BY <1>0, <2>1, ExceptType DEF RobotTypes
  <2>4. ahead' \in [Robots -> SUBSET Points]
    BY <1>0, <2>2, AheadType
  <2>5. Goto(r, "publish") /\ UNCHANGED <<posMutex, todo>>
    BY <1>3 DEF Move, MutexReleased
  <2> QED  BY <1>0, <2>3, <2>4, <2>5, GotoType DEF RobotTypes
<1>4. ASSUME NEW r \in Robots, PublishPosition(r) PROVE RobotTypes'
  BY <1>0, <1>4, GotoType DEF PublishPosition, RobotTypes
<1>5. ASSUME NEW r \in Robots, CopyHandlers(r) PROVE RobotTypes'
  <2>1. Goto(r, "call") /\ todo' = [todo EXCEPT ![r] = subs]
        /\ UNCHANGED <<position, ahead, posMutex>>
    BY <1>5 DEF CopyHandlers
  <2>2. todo' \in [Robots -> Seq(Robots)]
    BY <1>0, <2>1, TodoType
  <2> QED  BY <1>0, <2>1, <2>2, GotoType DEF RobotTypes
<1>6. ASSUME NEW r \in Robots, CallHandler(r) PROVE RobotTypes'
  <2>1. Head(todo[r]) \in Robots /\ Tail(todo[r]) \in Seq(Robots)
    BY <1>0, <1>6, TodoParts DEF CallHandler
  <2>2. CASE /\ todo' = [todo EXCEPT ![r] = Tail(todo[r])]
             /\ UNCHANGED <<posMutex, pc, position, ahead>>
    <3>1. todo' \in [Robots -> Seq(Robots)]
      BY <1>0, <2>1, <2>2, TodoType
    <3> QED  BY <1>0, <2>2, <3>1 DEF RobotTypes
  <2>3. CASE /\ posMutex' = [posMutex EXCEPT ![Head(todo[r])] = r]
             /\ Goto(r, "warn")
             /\ UNCHANGED <<todo, position, ahead>>
    <3>1. posMutex' \in [Robots -> Robots \cup {Nobody}]
      BY <1>0, <2>1, <2>3, MutexType
    <3> QED  BY <1>0, <2>3, <3>1, GotoType DEF RobotTypes
  <2> QED  BY <1>6, <2>2, <2>3 DEF CallHandler, MutexHeld
<1>7. ASSUME NEW r \in Robots, PublishWarning(r) PROVE RobotTypes'
  BY <1>0, <1>7, GotoType DEF PublishWarning, RobotTypes
<1>8. ASSUME NEW r \in Robots, RecordWarning(r) PROVE RobotTypes'
  <2>1. Head(todo[r]) \in Robots /\ Tail(todo[r]) \in Seq(Robots)
    BY <1>0, <1>8, TodoParts DEF RecordWarning, WarnersHold
  <2>2. /\ posMutex' = [posMutex EXCEPT ![Head(todo[r])] = Nobody]
        /\ todo' = [todo EXCEPT ![r] = Tail(todo[r])]
        /\ Goto(r, "call")
        /\ UNCHANGED <<position, ahead>>
    BY <1>8 DEF RecordWarning
  <2>3. posMutex' \in [Robots -> Robots \cup {Nobody}]
    BY <1>0, <2>1, <2>2, MutexType
  <2>4. todo' \in [Robots -> Seq(Robots)]
    BY <1>0, <2>1, <2>2, TodoType
  <2> QED  BY <1>0, <2>2, <2>3, <2>4, GotoType DEF RobotTypes
<1>9. ASSUME NEW r \in Robots, EndPublish(r) PROVE RobotTypes'
  BY <1>0, <1>9, GotoType DEF EndPublish, RobotTypes
<1>10. ASSUME NEW r \in Robots, Steer(r) PROVE RobotTypes'
  <2>1. PICK cells \in Watched : ahead' = [ahead EXCEPT ![r] = cells]
    BY <1>10 DEF Steer
  <2>2. ahead' \in [Robots -> SUBSET Points]
    BY <1>0, <2>1, AheadType
  <2> QED  BY <1>0, <1>10, <2>2 DEF Steer, RobotTypes
<1>11. UNCHANGED vars \/ ClearLog \/ Announce \/ Tick \/ BeginShutdown \/ Shutdown
         => UNCHANGED robotVars
  BY DEF vars, ClearLog, Announce, Tick, BeginShutdown, Shutdown, StopRobot,
         Unsubscribe, Join, Destroy
<1> QED
  BY <1>1, <1>2, <1>3, <1>4, <1>5, <1>6, <1>7, <1>8, <1>9, <1>10, <1>11
  DEF Next, Control

LEMMA ShutdownTypesNext == TypeOK /\ Joined /\ [Next]_vars => ShutdownTypes'
<1> SUFFICES ASSUME TypeOK, Joined, [Next]_vars PROVE ShutdownTypes'
  OBVIOUS
<1>0. ShutdownTypes /\ Len(Subscribers) \in Nat
  BY TypesTogether, BusAssumption
<1>1. CASE UNCHANGED shutdownVars
  BY <1>0, <1>1 DEF shutdownVars, ShutdownTypes
<1>2. CASE BeginShutdown
  BY <1>0, <1>2 DEF BeginShutdown, ShutdownTypes
<1>3. CASE StopRobot
  BY <1>0, <1>3 DEF StopRobot, ShutdownTypes
<1>4. CASE Unsubscribe
  <2>1. PICK i \in 1 .. Len(subs) :
          subs' = SubSeq(subs, 1, i - 1) \o SubSeq(subs, i + 1, Len(subs))
    BY <1>4 DEF Unsubscribe
  <2>2. subs' \in Seq(Robots)
    BY <1>0, <2>1 DEF ShutdownTypes
  <2> QED  BY <1>0, <1>4, <2>2 DEF Unsubscribe, ShutdownTypes
<1>5. CASE Join
  <2>1. joined < Len(Subscribers)
    BY <1>5 DEF Join, Joined
  <2> QED  BY <1>0, <1>5, <2>1 DEF Join, DestroyedWith, ShutdownTypes
<1>6. CASE Destroy
  BY <1>0, <1>6 DEF Destroy, ShutdownTypes
<1>7. ClearLog \/ Announce \/ Tick \/ UNCHANGED vars => UNCHANGED shutdownVars
  BY DEF ClearLog, Announce, Tick, vars
<1>8. ASSUME NEW r \in Robots, Control(r) \/ Steer(r) PROVE UNCHANGED shutdownVars
  BY <1>8 DEF Control, CheckRunning, Move, PublishPosition, CopyHandlers,
              CallHandler, PublishWarning, RecordWarning, EndPublish, Steer
<1> QED
  BY <1>1, <1>2, <1>3, <1>4, <1>5, <1>6, <1>7, <1>8 DEF Next, Shutdown

LEMMA TypeNext == TypeOK /\ WarnersHold /\ Joined /\ [Next]_vars => TypeOK'
<1> SUFFICES ASSUME TypeOK, WarnersHold, Joined, [Next]_vars PROVE TypeOK'
  OBVIOUS
<1>1. LogTypes' /\ RobotTypes' /\ ShutdownTypes'
  BY LogTypesNext, RobotTypesNext, ShutdownTypesNext
<1> QED  BY <1>1 DEF TypeOK, LogTypes, RobotTypes, ShutdownTypes

(* A step only touches the warnings of robots whose posMutex_ it may take. *)
LEMMA HandlingNext == Handling /\ Joined /\ [Next]_vars => Handling'
<1> SUFFICES ASSUME Handling, Joined, [Next]_vars PROVE Handling'
  OBVIOUS
<1>0. TypeOK' /\ RobotTypes /\ RobotTypes' /\ Nobody \notin Robots
  BY TypeNext, TypesTogether, BusAssumption, RobotTypesNext DEF Handling
<1> DEFINE Good == WarnersHold /\ HoldersGoOn /\ WarningIsCurrent
<1>1. SUFFICES Good'
  BY <1>0 DEF Handling
<1>2. Good
  BY DEF Handling
<1> USE DEF WarnersHold, HoldersGoOn, WarningIsCurrent
<1>3. CASE UNCHANGED robotVars
  BY <1>2, <1>3 DEF robotVars
<1>4. ASSUME NEW r \in Robots, UNCHANGED <<position, ahead, posMutex, todo>>,
             NEW to, Goto(r, to), pc[r] \notin {"warn", "record"},
             to \notin {"warn", "record"}
      PROVE Good'
  BY <1>0, <1>2, <1>4 DEF Goto, RobotTypes
<1>5. ASSUME NEW r \in Robots, CheckRunning(r) \/ PublishPosition(r) \/ EndPublish(r)
      PROVE Good'
  <2>1. CASE CheckRunning(r)
    BY <2>1, <1>4 DEF CheckRunning
  <2>2. CASE PublishPosition(r)
    BY <2>2, <1>4 DEF PublishPosition
  <2>3. CASE EndPublish(r)
    BY <2>3, <1>4 DEF EndPublish
  <2> QED  BY <1>5, <2>1, <2>2, <2>3
<1>6. ASSUME NEW r \in Robots, Move(r) PROVE Good'
  <2>1. /\ posMutex[r] = Nobody /\ UNCHANGED <<posMutex, todo>>
        /\ pc[r] = "move" /\ pc' = [pc EXCEPT ![r] = "publish"]
    BY <1>6 DEF Move, MutexReleased, Goto
  <2>2. \A q \in Robots \ {r} : position'[q] = position[q] /\ ahead'[q] = ahead[q]
    BY <1>0, <1>6 DEF Move, RobotTypes
  <2>3. HoldersGoOn'
    BY <1>0, <1>2, <2>1 DEF RobotTypes
  <2>4. WarnersHold'
    BY <1>0, <1>2, <2>1 DEF RobotTypes
  <2>5. ASSUME NEW q \in Robots, pc'[q] \in {"warn", "record"}
        PROVE  position'[q] \in ahead'[Head(todo'[q])]
    <3>1. q # r /\ pc[q] \in {"warn", "record"}
      BY <1>0, <2>1, <2>5 DEF RobotTypes
    <3>2. todo[q] # <<>> /\ posMutex[Head(todo[q])] = q
      BY <1>2, <3>1
    <3>3. Head(todo[q]) \in Robots \ {r}
      BY <1>0, <2>1, <3>2, TodoParts
    <3> QED  BY <1>2, <2>1, <2>2, <3>1, <3>3
  <2> QED  BY <2>3, <2>4, <2>5
<1>7. ASSUME NEW r \in Robots, CopyHandlers(r) PROVE Good'
  <2>1. /\ UNCHANGED <<posMutex, position, ahead>>
        /\ pc[r] = "copy" /\ pc' = [pc EXCEPT ![r] = "call"]
        /\ todo' = [todo EXCEPT ![r] = subs]
    BY <1>7 DEF CopyHandlers, Goto
  <2>2. \A q \in Robots \ {r} : pc'[q] = pc[q] /\ todo'[q] = todo[q]
    BY <1>0, <2>1 DEF RobotTypes
  <2>3. pc'[r] = "call"
    BY <1>0, <2>1 DEF RobotTypes
  <2> QED  BY <1>0, <1>2, <2>1, <2>2, <2>3 DEF RobotTypes
<1>8. ASSUME NEW r \in Robots, CallHandler(r) PROVE Good'
  <2> DEFINE s == Head(todo[r])
  <2>1. s \in Robots /\ todo[r] # <<>> /\ pc[r] = "call"
    BY <1>0, <1>8, TodoParts DEF CallHandler
  <2>2. CASE /\ UNCHANGED <<posMutex, pc, position, ahead>>
             /\ todo' = [todo EXCEPT ![r] = Tail(todo[r])]
    <3>1. \A q \in Robots \ {r} : todo'[q] = todo[q]
      BY <1>0, <2>2 DEF RobotTypes
    <3> QED  BY <1>0, <1>2, <2>1, <2>2, <3>1 DEF RobotTypes
  <2>3. CASE /\ posMutex[s] = Nobody /\ position[r] \in ahead[s]
             /\ posMutex' = [posMutex EXCEPT ![s] = r]
             /\ pc' = [pc EXCEPT ![r] = "warn"]
             /\ UNCHANGED <<todo, position, ahead>>
    <3>1. pc'[r] = "warn" /\ \A q \in Robots \ {r} : pc'[q] = pc[q]
      BY <1>0, <2>3 DEF RobotTypes
    <3>2. posMutex'[s] = r /\ \A q \in Robots \ {s} : posMutex'[q] = posMutex[q]
      BY <1>0, <2>1, <2>3 DEF RobotTypes
    <3>3. WarningIsCurrent'
      BY <1>2, <2>3, <3>1
    <3>4. ASSUME NEW q \in Robots, pc'[q] \in {"warn", "record"}
          PROVE  todo'[q] # <<>> /\ posMutex'[Head(todo'[q])] = q
      <4>1. CASE q = r
        BY <2>1, <2>3, <3>2, <4>1
      <4>2. CASE q # r
        <5>1. todo[q] # <<>> /\ posMutex[Head(todo[q])] = q
          BY <1>2, <3>1, <3>4, <4>2
        <5>2. Head(todo[q]) \in Robots \ {s}
          BY <1>0, <2>3, <5>1, TodoParts
        <5> QED  BY <2>3, <3>2, <5>1, <5>2
      <4> QED  BY <4>1, <4>2
    <3>5. ASSUME NEW t \in Robots, posMutex'[t] # Nobody
          PROVE  /\ pc'[posMutex'[t]] \in {"warn", "record"}
                 /\ todo'[posMutex'[t]] # <<>> /\ Head(todo'[posMutex'[t]]) = t
      <4>1. CASE t = s
        BY <2>1, <2>3, <3>1, <3>2, <4>1
      <4>2. CASE t # s
        <5>1. posMutex'[t] = posMutex[t] /\ posMutex[t] \in Robots
          BY <1>0, <3>2, <3>5, <4>2 DEF RobotTypes
        <5>2. pc[posMutex[t]] \in {"warn", "record"}
          BY <1>2, <3>5, <5>1
        <5> QED  BY <1>2, <2>1, <2>3, <3>1, <3>5, <5>1, <5>2
      <4> QED  BY <4>1, <4>2
    <3> QED  BY <3>3, <3>4, <3>5
  <2> QED  BY <1>8, <2>2, <2>3 DEF CallHandler, MutexHeld, Goto
<1>9. ASSUME NEW r \in Robots, PublishWarning(r) PROVE Good'
  <2>1. /\ UNCHANGED <<posMutex, position, ahead, todo>>
        /\ pc[r] = "warn" /\ pc' = [pc EXCEPT ![r] = "record"]
    BY <1>9 DEF PublishWarning, Goto
  <2>2. pc'[r] = "record" /\ \A q \in Robots \ {r} : pc'[q] = pc[q]
    BY <1>0, <2>1 DEF RobotTypes
  <2>3. \A q \in Robots : pc'[q] \in {"warn", "record"} <=> pc[q] \in {"warn", "record"}
    BY <2>1, <2>2
  <2> QED  BY <1>0, <1>2, <2>1, <2>3 DEF RobotTypes
<1>10. ASSUME NEW r \in Robots, RecordWarning(r) PROVE Good'
  <2> DEFINE s == Head(todo[r])
  <2>1. todo[r] # <<>> /\ posMutex[s] = r
    BY <1>2, <1>10 DEF RecordWarning
  <2>2. s \in Robots
    BY <1>0, <2>1, TodoParts
  <2>3. /\ posMutex' = [posMutex EXCEPT ![s] = Nobody]
        /\ todo' = [todo EXCEPT ![r] = Tail(todo[r])]
        /\ pc[r] = "record" /\ pc' = [pc EXCEPT ![r] = "call"]
        /\ UNCHANGED <<position, ahead>>
    BY <1>10 DEF RecordWarning, Goto
  <2>4. pc'[r] = "call"
        /\ \A q \in Robots \ {r} : pc'[q] = pc[q] /\ todo'[q] = todo[q]
    BY <1>0, <2>3 DEF RobotTypes
  <2>5. posMutex'[s] = Nobody /\ \A q \in Robots \ {s} : posMutex'[q] = posMutex[q]
    BY <1>0, <2>2, <2>3 DEF RobotTypes
  <2>6. ASSUME NEW q \in Robots, pc'[q] \in {"warn", "record"}
        PROVE  /\ todo'[q] # <<>> /\ posMutex'[Head(todo'[q])] = q
               /\ position'[q] \in ahead'[Head(todo'[q])]
    <3>1. q # r /\ todo'[q] = todo[q] /\ pc[q] \in {"warn", "record"}
      BY <2>4, <2>6
    <3>2. todo[q] # <<>> /\ posMutex[Head(todo[q])] = q
      BY <1>2, <3>1
    <3>3. Head(todo[q]) \in Robots \ {s}
      BY <1>0, <2>1, <3>1, <3>2, TodoParts
    <3> QED  BY <1>2, <2>3, <2>5, <3>1, <3>2, <3>3
  <2>7. ASSUME NEW t \in Robots, posMutex'[t] # Nobody
        PROVE  /\ pc'[posMutex'[t]] \in {"warn", "record"}
               /\ todo'[posMutex'[t]] # <<>> /\ Head(todo'[posMutex'[t]]) = t
    <3>1. t # s /\ posMutex'[t] = posMutex[t] /\ posMutex[t] \in Robots
      BY <1>0, <2>5, <2>7 DEF RobotTypes
    <3>2. posMutex[t] # r
      BY <1>2, <2>7, <3>1
    <3> QED  BY <1>2, <2>4, <2>7, <3>1, <3>2
  <2> QED  BY <2>6, <2>7
<1>11. ASSUME NEW r \in Robots, Steer(r) PROVE Good'
  <2>1. posMutex[r] = Nobody /\ UNCHANGED <<position, posMutex, pc, todo>>
    BY <1>11 DEF Steer
  <2>2. \A q \in Robots \ {r} : ahead'[q] = ahead[q]
    BY <1>0, <1>11 DEF Steer, RobotTypes
  <2>3. ASSUME NEW q \in Robots, pc[q] \in {"warn", "record"}
        PROVE  position[q] \in ahead'[Head(todo[q])]
    <3>1. todo[q] # <<>> /\ posMutex[Head(todo[q])] = q
      BY <1>2, <2>3
    <3>2. Head(todo[q]) \in Robots \ {r}
      BY <1>0, <2>1, <3>1, TodoParts
    <3> QED  BY <1>2, <2>2, <2>3, <3>2
  <2> QED  BY <1>2, <2>1, <2>3
<1>12. UNCHANGED vars \/ ClearLog \/ Announce \/ Tick \/ BeginShutdown \/ Shutdown
         => UNCHANGED robotVars
  BY DEF vars, ClearLog, Announce, Tick, BeginShutdown, Shutdown, StopRobot,
         Unsubscribe, Join, Destroy
<1> QED
  BY <1>3, <1>5, <1>6, <1>7, <1>8, <1>9, <1>10, <1>11, <1>12 DEF Next, Control

(* A thread that has ended stays so and calls nobody; the simulator joins  *)
(* them in turn.                                                           *)
LEMMA EndingNext == Ending /\ WarnersHold /\ [Next]_vars => Ending'
<1> SUFFICES ASSUME Ending, WarnersHold, [Next]_vars PROVE Ending'
  OBVIOUS
<1>0. /\ TypeOK' /\ RobotTypes /\ ShutdownTypes /\ Joined /\ CallersOnly
      /\ Len(Subscribers) \in Nat
      /\ \A i \in 1 .. Len(Subscribers) : Subscribers[i] \in Robots
  BY TypeNext, TypesTogether, BusAssumption DEF Ending
<1>1. SUFFICES Joined' /\ CallersOnly'
  BY <1>0 DEF Ending
<1>2. CASE UNCHANGED <<pc, todo, shutdownVars>>
  BY <1>0, <1>2 DEF Joined, CallersOnly, shutdownVars
<1>3. ASSUME NEW r \in Robots, Control(r) PROVE Joined' /\ CallersOnly'
  <2>1. pc[r] # "ended" /\ UNCHANGED shutdownVars
    BY <1>3 DEF Control, CheckRunning, Move, PublishPosition, CopyHandlers,
                CallHandler, PublishWarning, RecordWarning, EndPublish
  <2>2. \A q \in Robots \ {r} : pc'[q] = pc[q] /\ todo'[q] = todo[q]
    BY <1>0, <1>3 DEF Control, CheckRunning, Move, PublishPosition, CopyHandlers,
                CallHandler, PublishWarning, RecordWarning, EndPublish, Goto, RobotTypes
  <2>3. Joined'
    BY <1>0, <2>1, <2>2 DEF Joined, shutdownVars, ShutdownTypes
  <2>4. pc'[r] \notin {"call", "warn", "record"} => todo'[r] = <<>>
    <3>1. CASE CheckRunning(r) \/ Move(r) \/ PublishPosition(r)
      <4>1. pc[r] \notin {"call", "warn", "record"} /\ todo' = todo
        BY <3>1 DEF CheckRunning, Move, PublishPosition
      <4> QED  BY <1>0, <4>1 DEF CallersOnly
    <3>2. CASE CopyHandlers(r) \/ CallHandler(r) \/ PublishWarning(r) \/ RecordWarning(r)
      BY <1>0, <3>2 DEF CopyHandlers, CallHandler, PublishWarning, RecordWarning,
                        Goto, RobotTypes
    <3>3. CASE EndPublish(r)
      BY <3>3 DEF EndPublish
    <3> QED  BY <1>3, <3>1, <3>2, <3>3 DEF Control
  <2> QED  BY <1>0, <2>2, <2>3, <2>4 DEF CallersOnly
<1>4. CASE BeginShutdown
  BY <1>0, <1>4 DEF BeginShutdown, Joined, CallersOnly, robotVars
<1>5. CASE StopRobot
  BY <1>0, <1>5 DEF StopRobot, Joined, CallersOnly, robotVars
<1>6. CASE Unsubscribe
  BY <1>0, <1>6 DEF Unsubscribe, Joined, CallersOnly, robotVars
<1>7. CASE Join
  <2>1. /\ main = "join" /\ main' = "stop" /\ joined' = joined + 1
        /\ destroyed' = destroyed /\ UNCHANGED <<pc, todo>>
        /\ pc[Subscribers[joined + 1]] = "ended"
    BY <1>7 DEF Join, DestroyedWith, Closing, robotVars
  <2>2. joined \in Nat /\ destroyed = {} /\ \A i \in 1 .. joined : pc[Subscribers[i]] = "ended"
    BY <1>0, <2>1 DEF Joined, ShutdownTypes
  <2>3. \A i \in 1 .. joined' : pc'[Subscribers[i]] = "ended"
    BY <2>1, <2>2
  <2> QED  BY <1>0, <2>1, <2>2, <2>3 DEF Joined, CallersOnly
<1>8. CASE Destroy
  BY <1>0, <1>8 DEF Destroy, Joined, CallersOnly, robotVars
<1>9. UNCHANGED vars \/ ClearLog \/ Announce \/ Tick \/ (\E r \in Robots : Steer(r))
        => UNCHANGED <<pc, todo, shutdownVars>>
  BY DEF vars, ClearLog, Announce, Tick, Steer, robotVars
<1> QED
  BY <1>2, <1>3, <1>4, <1>5, <1>6, <1>7, <1>8, <1>9 DEF Next, Shutdown

(* When robots are destroyed every thread has ended. *)
LEMMA EndingAlive == Ending => HandlersAlive
<1> SUFFICES ASSUME Ending, destroyed # {}, NEW r \in Robots PROVE todo[r] = <<>>
  BY DEF HandlersAlive
<1>1. PICK i \in 1 .. Len(Subscribers) : r = Subscribers[i]
  BY BusAssumption
<1>2. joined = Len(Subscribers) /\ pc[Subscribers[i]] = "ended"
  BY <1>1 DEF Ending, Joined
<1> QED  BY <1>1, <1>2 DEF Ending, CallersOnly

LEMMA LoggingNext == Logging /\ WarnersHold /\ Joined /\ [Next]_vars => Logging'
<1> SUFFICES ASSUME Logging, WarnersHold, Joined, [Next]_vars PROVE Logging'
  OBVIOUS
<1>0. TypeOK'
  BY TypeNext DEF Logging
<1>1. CASE UNCHANGED <<now, startTime, log, events>>
  BY <1>0, <1>1 DEF Logging, NotInFuture, InOrderOfTime
<1>2. CASE Publish /\ UNCHANGED <<now, startTime, events>>
  BY <1>0, <1>2, PublishSorted DEF Logging, NotInFuture, InOrderOfTime
<1>3. CASE LogEvent /\ UNCHANGED <<now, startTime, log>>
  BY <1>0, <1>3, LogEventSorted DEF Logging, NotInFuture, InOrderOfTime
<1>4. CASE ClearLog
  BY <1>0, <1>4 DEF ClearLog, EventsCleared, Logging, NotInFuture, InOrderOfTime
<1>5. CASE Tick
  <2>1. \A i \in 1 .. Len(log) : log[i] \in Nat /\ log[i] <= now + 1
    BY DEF Logging, NotInFuture, TypeOK
  <2>2. \A i \in 1 .. Len(events) : events[i] \in Nat /\ events[i] <= now + 1 - startTime
    BY DEF Logging, NotInFuture, TypeOK
  <2>3. NotInFuture'
    <3>1. now' = now + 1 /\ UNCHANGED <<log, events, startTime>>
      BY <1>5 DEF Tick
    <3>2. \A i \in 1 .. Len(log') : log'[i] <= now'
      BY <3>1, <2>1
    <3>3. \A i \in 1 .. Len(events') : events'[i] <= now' - startTime'
      <4>1. now' - startTime' = now + 1 - startTime
        <5>1. now \in Nat /\ startTime \in Nat /\ now' = now + 1 /\ startTime' = startTime
          BY <3>1 DEF Logging, TypeOK
        <5> QED  BY <5>1
      <4>2. events' = events
        BY <3>1
      <4> QED  BY <4>1, <4>2, <2>2
    <3> QED  BY <3>2, <3>3 DEF NotInFuture
  <2>4. InOrderOfTime'
    BY <1>5 DEF Tick, Logging, InOrderOfTime
  <2> QED  BY <1>0, <2>3, <2>4 DEF Logging
<1>6. ASSUME NEW r \in Robots, Control(r)
      PROVE \/ UNCHANGED logVars
            \/ Publish /\ UNCHANGED <<now, events, startTime>>
            \/ LogEvent /\ UNCHANGED <<now, log, startTime>>
  BY <1>6 DEF Control, CheckRunning, Move, PublishPosition, CopyHandlers,
              CallHandler, PublishWarning, RecordWarning, EndPublish, logVars
<1>7. CASE Announce
  BY <1>7, <1>2, <1>3 DEF Announce
<1>8. BeginShutdown \/ Shutdown \/ UNCHANGED vars => UNCHANGED logVars
  BY DEF BeginShutdown, Shutdown, StopRobot, Unsubscribe, Join, Destroy, vars
<1>9. ASSUME NEW r \in Robots, Steer(r) PROVE UNCHANGED logVars
  BY <1>9 DEF Steer
<1> QED
  BY <1>1, <1>2, <1>3, <1>4, <1>5, <1>6, <1>7, <1>8, <1>9 DEF Next, logVars

LEMMA SpecSafe == Spec => [](Handling /\ Ending)
<1>1. Handling /\ Ending => WarnersHold /\ Joined
  BY DEF Handling, Ending
<1>2. Init => Handling /\ Ending
  BY HandlingInit, EndingInit
<1>3. Handling /\ Ending /\ [Next]_vars => (Handling /\ Ending)'
  BY <1>1, HandlingNext, EndingNext
<1> QED  BY <1>2, <1>3, PTL DEF Spec

LEMMA SpecLogging == Spec => []Logging
<1>1. Handling /\ Ending => WarnersHold /\ Joined
  BY DEF Handling, Ending
<1> QED  BY <1>1, SpecSafe, LoggingInit, LoggingNext, PTL DEF Spec

-----------------------------------------------------------------------------
(* Types, and that neither log outgrows its size.                          *)
THEOREM TypeCorrect == Spec => []TypeOK
<1>1. Handling => TypeOK
  BY DEF Handling
<1> QED  BY <1>1, SpecSafe, PTL

(* A warning that is being recorded is still true.                         *)
THEOREM WarningsTrue == Spec => []WarningIsCurrent
<1>1. Handling => WarningIsCurrent
  BY DEF Handling
<1> QED  BY <1>1, SpecSafe, PTL

(* Who holds a posMutex_ does not wait for another.                        *)
THEOREM NoCircularWait == Spec => []HoldersGoOn
<1>1. Handling => HoldersGoOn
  BY DEF Handling
<1> QED  BY <1>1, SpecSafe, PTL

(* No handler of a destroyed robot is called.                              *)
THEOREM NoCallAfterDestruction == Spec => []HandlersAlive
BY SpecSafe, EndingAlive, PTL

(* Both logs are in the order of time.                                     *)
THEOREM LogsOrdered == Spec => []InOrderOfTime
<1>1. Logging => InOrderOfTime
  BY DEF Logging
<1> QED  BY <1>1, SpecLogging, PTL

-----------------------------------------------------------------------------
(* What publish has still to do.  A thread is in the middle of it, or has  *)
(* nothing left: three steps for each handler that warns, one to return.   *)
TurnsAt(at, left) ==
  CASE at = "publish" -> 3 * Len(Subscribers) + 3
    [] at = "copy" -> 3 * Len(Subscribers) + 2
    [] at = "call" -> 3 * left + 1
    [] at = "warn" -> 3 * left
    [] at = "record" -> 3 * left - 1
    [] OTHER -> 0

TurnsLeft(r) == TurnsAt(pc[r], Len(todo[r]))

NearsReturn ==
  \A r \in Robots :
    pc[r] \in {"publish", "copy", "call", "warn", "record"} =>
      \/ pc'[r] = pc[r] /\ todo'[r] = todo[r]
      \/ TurnsLeft(r)' < TurnsLeft(r)

(* Nobody subscribes any more. *)
SubsBound == Len(subs) <= Len(Subscribers)

LEMMA SubsBoundNext == TypeOK /\ SubsBound /\ [Next]_vars => SubsBound'
<1> SUFFICES ASSUME TypeOK, SubsBound, [Next]_vars PROVE SubsBound'
  OBVIOUS
<1>1. CASE UNCHANGED subs
  BY <1>1 DEF SubsBound
<1>2. CASE Unsubscribe
  <2>1. PICK i \in 1 .. Len(subs) :
          subs' = SubSeq(subs, 1, i - 1) \o SubSeq(subs, i + 1, Len(subs))
    BY <1>2 DEF Unsubscribe
  <2>2. subs \in Seq(Robots) /\ Len(subs) \in Nat /\ Len(Subscribers) \in Nat
    BY BusAssumption DEF TypeOK
  <2> DEFINE front == SubSeq(subs, 1, i - 1)
             back == SubSeq(subs, i + 1, Len(subs))
  <2>3. /\ front \in Seq(Robots) /\ Len(front) = i - 1
        /\ back \in Seq(Robots) /\ Len(back) = Len(subs) - i
    BY <2>2
  <2>4. subs' = front \o back
    BY <2>1
  <2> HIDE DEF front, back
  <2>5. Len(front \o back) = Len(front) + Len(back)
    BY <2>3
  <2>6. Len(subs') = Len(subs) - 1
    BY <2>2, <2>3, <2>4, <2>5
  <2> QED  BY <2>2, <2>6 DEF SubsBound
<1>3. Next /\ ~Unsubscribe => UNCHANGED subs
  BY DEF Next, ClearLog, Announce, Tick, BeginShutdown, Shutdown, StopRobot, Join,
         Destroy, Control, CheckRunning, Move, PublishPosition, CopyHandlers,
         CallHandler, PublishWarning, RecordWarning, EndPublish, Steer, shutdownVars
<1>4. UNCHANGED vars => UNCHANGED subs
  BY DEF vars, shutdownVars
<1> QED  BY <1>1, <1>2, <1>3, <1>4

LEMMA TurnsType == TypeOK /\ WarnersHold => \A r \in Robots : TurnsLeft(r) \in Nat
<1> SUFFICES ASSUME TypeOK, WarnersHold, NEW r \in Robots PROVE TurnsLeft(r) \in Nat
  OBVIOUS
<1>1. Len(Subscribers) \in Nat
  BY BusAssumption
<1>2. todo[r] \in Seq(Robots)
  BY DEF TypeOK
<1>3. Len(todo[r]) \in Nat /\ (todo[r] # <<>> => Len(todo[r]) > 0)
  BY <1>2
<1>4. pc[r] = "record" => todo[r] # <<>>
  BY DEF WarnersHold
<1> QED  BY <1>1, <1>3, <1>4 DEF TurnsLeft, TurnsAt

(* The steps of a thread in publish, one by one. *)
LEMMA ControlNears ==
  ASSUME TypeOK, WarnersHold, SubsBound, NEW r \in Robots, Control(r),
         pc[r] \in {"publish", "copy", "call", "warn", "record"}
  PROVE  TurnsLeft(r)' < TurnsLeft(r)
<1> DEFINE n == Len(todo[r])
<1>1. /\ Subscribers \in Seq(Robots) /\ subs \in Seq(Robots) /\ todo[r] \in Seq(Robots)
      /\ r \in DOMAIN pc /\ r \in DOMAIN todo
  BY BusAssumption DEF TypeOK
<1>2. /\ Len(Subscribers) \in Nat /\ Len(subs) \in Nat /\ n \in Nat
      /\ todo[r] # <<>> => n > 0 /\ Len(Tail(todo[r])) = n - 1
  BY <1>1
<1> HIDE DEF n
<1>3. /\ TurnsLeft(r) = TurnsAt(pc[r], n)
      /\ \A at : pc'[r] = at => TurnsLeft(r)' = TurnsAt(at, Len(todo'[r]))
  BY DEF TurnsLeft, TurnsAt, n
<1>4. CASE PublishPosition(r)
  <2>1. pc[r] = "publish" /\ pc'[r] = "copy"
    BY <1>1, <1>4 DEF PublishPosition, Goto
  <2> QED  BY <1>2, <1>3, <2>1 DEF TurnsAt
<1>5. CASE CopyHandlers(r)
  <2>1. pc[r] = "copy" /\ pc'[r] = "call" /\ todo'[r] = subs
    BY <1>1, <1>5 DEF CopyHandlers, Goto
  <2>2. TurnsLeft(r)' = TurnsAt("call", Len(subs))
    BY <1>3, <2>1
  <2> QED  BY <1>2, <1>3, <2>1, <2>2 DEF TurnsAt, SubsBound
<1>6. CASE CallHandler(r)
  <2>1. /\ pc[r] = "call" /\ todo[r] # <<>>
        /\ \/ pc'[r] = "call" /\ todo'[r] = Tail(todo[r])
           \/ pc'[r] = "warn" /\ todo'[r] = todo[r]
    BY <1>1, <1>6 DEF CallHandler, Goto
  <2>2. TurnsLeft(r)' \in {TurnsAt("call", n - 1), TurnsAt("warn", n)}
    BY <1>2, <1>3, <2>1 DEF n
  <2> QED  BY <1>2, <1>3, <2>1, <2>2 DEF TurnsAt
<1>7. CASE PublishWarning(r)
  <2>1. pc[r] = "warn" /\ pc'[r] = "record" /\ todo'[r] = todo[r]
    BY <1>1, <1>7 DEF PublishWarning, Goto
  <2>2. TurnsLeft(r)' = TurnsAt("record", n)
    BY <1>3, <2>1 DEF n
  <2> QED  BY <1>2, <1>3, <2>1, <2>2 DEF TurnsAt
<1>8. CASE RecordWarning(r)
  <2>1. pc[r] = "record" /\ pc'[r] = "call" /\ todo'[r] = Tail(todo[r])
    BY <1>1, <1>8 DEF RecordWarning, Goto
  <2>2. todo[r] # <<>>
    BY <2>1 DEF WarnersHold
  <2>3. TurnsLeft(r)' = TurnsAt("call", n - 1)
    BY <1>2, <1>3, <2>1, <2>2
  <2> QED  BY <1>2, <1>3, <2>1, <2>2, <2>3 DEF TurnsAt
<1>9. CASE EndPublish(r)
  <2>1. pc[r] = "call" /\ pc'[r] = "drive"
    BY <1>1, <1>9 DEF EndPublish, Goto
  <2>2. TurnsLeft(r)' = 0
    BY <1>3, <2>1 DEF TurnsAt
  <2> QED  BY <1>2, <1>3, <2>1, <2>2 DEF TurnsAt
<1>10. ~CheckRunning(r) /\ ~Move(r)
  BY DEF CheckRunning, Move
<1> QED
  BY <1>4, <1>5, <1>6, <1>7, <1>8, <1>9, <1>10 DEF Control

(* publish returns after a number of its own steps that is known when it   *)
(* begins, whoever else publishes, steers or is shut down meanwhile; and   *)
(* by NoCircularWait a thread that must wait does so for one that need not.*)
THEOREM PublishNearsReturn ==
  Spec => []( \A r \in Robots : TurnsLeft(r) \in Nat ) /\ [][NearsReturn]_vars
<1>1. Init => SubsBound
  BY BusAssumption DEF Init, SubsBound
<1>2. Handling => TypeOK /\ WarnersHold
  BY DEF Handling
<1>3. TypeOK /\ WarnersHold /\ SubsBound /\ [Next]_vars => [NearsReturn]_vars
  <2> SUFFICES ASSUME TypeOK, WarnersHold, SubsBound, Next, NEW r \in Robots,
                      pc[r] \in {"publish", "copy", "call", "warn", "record"},
                      ~(pc'[r] = pc[r] /\ todo'[r] = todo[r])
               PROVE  TurnsLeft(r)' < TurnsLeft(r)
    BY DEF NearsReturn
  <2>1. ASSUME NEW q \in Robots \ {r} PROVE ~Control(q)
    BY <2>1 DEF Control, CheckRunning, Move, PublishPosition, CopyHandlers,
       CallHandler, PublishWarning, RecordWarning, EndPublish, Goto, TypeOK
  <2>2. \A q \in Robots : ~Steer(q)
    BY DEF Steer
  <2>3. ~(ClearLog \/ Announce \/ Tick \/ BeginShutdown \/ Shutdown)
    BY DEF ClearLog, Announce, Tick, BeginShutdown, Shutdown, StopRobot,
           Unsubscribe, Join, Destroy, robotVars
  <2>4. Control(r)
    BY <2>1, <2>2, <2>3 DEF Next
  <2> QED  BY <2>4, ControlNears
<1> QED
  BY <1>1, <1>2, <1>3, SpecSafe, SubsBoundNext, TurnsType, PTL DEF Spec

=============================================================================
