--------------------------- MODULE ServersProofs ---------------------------
(***************************************************************************)
(* What the run of Servers checks for a few clients, proved for any number *)
(* of them and whatever they send.  Phases ties the place of run() and     *)
(* shutdown() to what each accept thread can be doing there.  Told, in the *)
(* second half, says what the streams hold and what was obeyed of them.    *)
(***************************************************************************)
EXTENDS Servers, SequenceTheorems, WellFoundedInduction, TLAPS

Sorts ==
  /\ main \in {"startTcp", "startWeb", "run", "stopTcp", "closeTcp", "joinTcp",
               "stopWeb", "closeWeb", "joinWeb", "robots"}
  /\ running \in SUBSET Servers
  /\ listens \in SUBSET Servers
  /\ acceptor \in [Servers -> {"unborn", "loop", "accept", "serve", "ended"}]
  /\ backlog \in [Servers -> Seq(Clients)]
  /\ client \in [Clients -> {"out", "pending", "loop", "recv", "handle", "send", "gone"}]
  /\ sent \in [Clients -> Nat]
  /\ unread \in [Clients -> Seq(Nat \X Nat)]
  /\ buf \in [Clients -> Seq(Nat \X Nat)]
  /\ late \in [Clients -> Nat]

Quiet(s) == acceptor[s] \in {"unborn", "ended"}
Alive(s) == s \in running \/ acceptor[s] = "unborn"

(* Where main is, and what the servers do then. *)
Phases ==
  /\ main = "startTcp" => acceptor["tcp"] = "unborn"
  /\ main \in {"startTcp", "startWeb"} => acceptor["web"] = "unborn"
  /\ main \in {"startWeb", "run", "stopTcp"} => Alive("tcp")
  /\ main \in {"run", "stopTcp", "closeTcp", "joinTcp", "stopWeb"} => Alive("web")
  /\ main \in {"stopWeb", "closeWeb", "joinWeb", "robots"} => Quiet("tcp")
  /\ main = "robots" => Quiet("web")
  /\ \A s \in Servers : acceptor[s] = "unborn" =>
       /\ s \notin running /\ s \notin listens
       /\ \A c \in Of(s) : client[c] \in {"out", "gone"}

(* A browser is served by the accept thread itself. *)
OneBrowser ==
  /\ \A b \in Browsers : Served(b) => acceptor["web"] = "serve"
  /\ \A b, o \in Browsers : Served(b) /\ Served(o) => b = o

(* What a connection does after a late message. *)
LateEnds ==
  \A c \in Clients : late[c] > 0 =>
    /\ late[c] = 1
    /\ ServerOf(c) \notin running
    /\ acceptor[ServerOf(c)] # "unborn"
    /\ client[c] \in {"send", "gone"} \/ (c \in TcpClients /\ client[c] = "loop")

(* The backlog holds each connection that waits, once. *)
Waiting ==
  \A s \in Servers :
    /\ \A i \in DOMAIN backlog[s] :
         backlog[s][i] \in Of(s) /\ client[backlog[s][i]] = "pending"
    /\ \A i, j \in DOMAIN backlog[s] : backlog[s][i] = backlog[s][j] => i = j
    /\ \A c \in Of(s) : client[c] = "pending" =>
         \E i \in DOMAIN backlog[s] : backlog[s][i] = c

(* A connection handles what it has received, and receives what was sent.  *)
Flow ==
  \A c \in Clients :
    /\ sent[c] <= Len(Script[c])
    /\ unread[c] # <<>> => sent[c] > 0
    /\ client[c] = "handle" => buf[c] # <<>>

Inv == Sorts /\ Phases /\ OneBrowser /\ LateEnds /\ Waiting /\ Flow

-----------------------------------------------------------------------------

LEMMA ServersDistinct ==
  /\ "tcp" \in Servers /\ "web" \in Servers
  /\ Of("tcp") = TcpClients /\ Of("web") = Browsers
  /\ \A c \in Clients : ServerOf(c) \in Servers /\ c \in Of(ServerOf(c))
  /\ \A s \in Servers : \A c \in Of(s) : c \in Clients /\ ServerOf(c) = s
BY ServersAssumption DEF Servers, Of, ServerOf, Clients

LEMMA WrittenType ==
  ASSUME NEW c \in Clients, NEW n \in 1 .. Len(Script[c])
  PROVE  Written(c, n) \in Seq(Nat \X Nat)
<1>1. Script[c][n] \in Seq(Fields)
  BY ServersAssumption
<1>2. Len(Script[c][n]) \in Nat
  BY <1>1
<1> DEFINE first == IF c \in Browsers THEN 0 ELSE 1
           length == 2 * Len(Script[c][n]) + 2 - first
<1>3. first \in {0, 1}
  OBVIOUS
<1>4. length \in Nat
  BY <1>2, <1>3
<1>5. \A i \in 1 .. length : <<n, first + i - 1>> \in Nat \X Nat
  BY <1>3, <1>4
<1>6. Written(c, n) = [i \in 1 .. length |-> <<n, first + i - 1>>]
  BY DEF Written
<1> HIDE DEF first, length
<1>7. [i \in 1 .. length |-> <<n, first + i - 1>>] \in [1 .. length -> Nat \X Nat]
  BY <1>5
<1> QED
  BY <1>4, <1>6, <1>7

LEMMA InitInv == Init => Inv
<1> SUFFICES ASSUME Init PROVE Inv
  OBVIOUS
<1> USE DEF Init
<1>1. Sorts
  BY DEF Sorts, Servers
<1>2. Phases
  BY ServersDistinct DEF Phases, Quiet, Alive, Servers
<1>3. OneBrowser
  BY DEF OneBrowser, Served, Clients
<1>4. LateEnds
  BY DEF LateEnds
<1>5. Waiting
  BY ServersDistinct DEF Waiting
<1>6. Flow
  BY ServersAssumption DEF Flow, Clients
<1> QED
  BY <1>1, <1>2, <1>3, <1>4, <1>5, <1>6 DEF Inv

-----------------------------------------------------------------------------
(* Main: the nine steps of run() and shutdown().                           *)

LEMMA MainStep == ASSUME Inv, Main PROVE Inv'
<1> USE DEF Inv
<1>1. UNCHANGED <<backlog, client, stream, history>>
  BY DEF Main, Start, StartFails, Stop, Close, Join
<1>2. Sorts'
  <2>1. main' \in {"startTcp", "startWeb", "run", "stopTcp", "closeTcp", "joinTcp",
                   "stopWeb", "closeWeb", "joinWeb", "robots"}
    BY DEF Main, Start, StartFails, Stop, Close, Join, Sorts
  <2>2. running' \in SUBSET Servers /\ listens' \in SUBSET Servers
    BY DEF Main, Start, StartFails, Stop, Close, Join, Sorts, Servers
  <2>3. acceptor' \in [Servers -> {"unborn", "loop", "accept", "serve", "ended"}]
    BY DEF Main, Start, StartFails, Stop, Close, Join, Sorts
  <2> QED
    BY <1>1, <2>1, <2>2, <2>3 DEF Sorts, stream, history
<1>3. Phases'
  BY <1>1, ServersDistinct, SMTT(30)
     DEF Main, Start, StartFails, Stop, Close, Join, Sorts, Phases, Quiet, Alive, Servers
<1>4. OneBrowser'
  <2>1. ASSUME acceptor["web"] = "serve" PROVE acceptor'["web"] = "serve"
    BY <2>1, ServersDistinct
       DEF Main, Start, StartFails, Stop, Close, Join, Sorts, Phases
  <2> QED
    BY <1>1, <2>1 DEF OneBrowser, Served
<1>5. LateEnds'
  <2>1. ASSUME NEW s \in Servers, s \notin running, acceptor[s] # "unborn"
        PROVE  s \notin running' /\ acceptor'[s] # "unborn"
    BY <2>1, ServersDistinct
       DEF Main, Start, StartFails, Stop, Close, Join, Sorts, Phases, Servers
  <2> QED
    BY <1>1, <2>1, ServersDistinct DEF LateEnds, history
<1>6. Waiting'
  BY <1>1 DEF Waiting
<1>7. Flow'
  BY <1>1 DEF Flow, stream
<1> QED
  BY <1>2, <1>3, <1>4, <1>5, <1>6, <1>7

LEMMA InterruptStep == ASSUME Inv, Interrupt PROVE Inv'
BY DEF Inv, Interrupt, stream, history, Sorts, Phases, Quiet, Alive, OneBrowser,
       Served, LateEnds, Waiting, Flow

-----------------------------------------------------------------------------
(* The accept threads.                                                     *)

LEMMA AcceptLoopStep ==
  ASSUME Inv, NEW s \in Servers, AcceptLoop(s)
  PROVE  Inv'
<1> USE DEF Inv
<1>1. acceptor[s] = "loop" /\ UNCHANGED <<main, running, listens, stream, history>>
  BY DEF AcceptLoop
<1>2. CASE s \in running /\ s \in listens
  <2>1. acceptor' = [acceptor EXCEPT ![s] = "accept"] /\ UNCHANGED <<backlog, client>>
    BY <1>2 DEF AcceptLoop, Acceptor
  <2>2. Sorts'
    BY <1>1, <2>1 DEF Sorts, stream, history
  <2>3. Phases'
    BY <1>1, <2>1, ServersDistinct DEF Sorts, Phases, Quiet, Alive
  <2>4. OneBrowser'
    BY <1>1, <2>1, ServersDistinct DEF Sorts, OneBrowser, Served
  <2>5. LateEnds'
    BY <1>1, <2>1, ServersDistinct DEF Sorts, LateEnds, history
  <2>6. Waiting' /\ Flow'
    BY <1>1, <2>1 DEF Waiting, Flow, stream
  <2> QED
    BY <2>2, <2>3, <2>4, <2>5, <2>6
<1>3. CASE ~(s \in running /\ s \in listens)
  <2>1. /\ acceptor' = [acceptor EXCEPT ![s] = "ended"]
        /\ backlog' = [backlog EXCEPT ![s] = <<>>]
        /\ client' = [c \in Clients |->
              IF ServerOf(c) = s /\ client[c] = "pending" THEN "gone" ELSE client[c]]
    BY <1>3 DEF AcceptLoop, Acceptor
  <2>2. Sorts'
    BY <1>1, <2>1 DEF Sorts, stream, history
  <2>3. Phases'
    <3>1. \A t \in Servers : acceptor'[t] = "unborn" => acceptor[t] = "unborn"
      BY <1>1, <2>1 DEF Sorts
    <3>2. \A t \in Servers : Quiet(t) => Quiet(t)'
      BY <1>1, <2>1 DEF Sorts, Quiet
    <3>3. \A t \in Servers : Alive(t) => Alive(t)'
      BY <1>1, <2>1 DEF Sorts, Alive
    <3>4. \A c \in Clients : client[c] \in {"out", "gone"} => client'[c] = client[c]
      BY <2>1
    <3>5. \A t \in Servers : acceptor[t] = "unborn" => acceptor'[t] = "unborn"
      BY <1>1, <2>1 DEF Sorts
    <3> QED
      BY <1>1, <3>1, <3>2, <3>3, <3>4, <3>5, ServersDistinct DEF Phases
  <2>4. \A c \in Clients : Served(c)' => Served(c)
    BY <2>1 DEF Served
  <2>5. OneBrowser'
    <3>1. acceptor["web"] = "serve" => acceptor'["web"] = "serve"
      BY <1>1, <2>1, ServersDistinct DEF Sorts
    <3> QED
      BY <2>4, <3>1 DEF OneBrowser, Clients
  <2>6. LateEnds'
    <3>1. \A c \in Clients : client[c] # "pending" => client'[c] = client[c]
      BY <2>1
    <3>2. \A t \in Servers : acceptor[t] # "unborn" => acceptor'[t] # "unborn"
      BY <1>1, <2>1 DEF Sorts
    <3> QED
      BY <1>1, <3>1, <3>2, ServersDistinct DEF LateEnds, history
  <2>7. Waiting'
    <3> SUFFICES ASSUME NEW t \in Servers
                 PROVE  /\ \A i \in DOMAIN backlog'[t] :
                             /\ backlog'[t][i] \in Of(t)
                             /\ client'[backlog'[t][i]] = "pending"
                        /\ \A i, j \in DOMAIN backlog'[t] :
                             backlog'[t][i] = backlog'[t][j] => i = j
                        /\ \A c \in Of(t) : client'[c] = "pending" =>
                             \E i \in DOMAIN backlog'[t] : backlog'[t][i] = c
      BY DEF Waiting
    <3>1. CASE t = s
      BY <2>1, <3>1, ServersDistinct DEF Sorts
    <3>2. CASE t # s
      <4>1. backlog'[t] = backlog[t]
        BY <2>1, <3>2 DEF Sorts
      <4>2. \A c \in Of(t) : client'[c] = client[c]
        BY <2>1, <3>2, ServersDistinct
      <4> QED
        BY <4>1, <4>2 DEF Waiting
    <3> QED
      BY <3>1, <3>2
  <2>8. Flow'
    BY <1>1, <2>1 DEF Flow, stream
  <2> QED
    BY <2>2, <2>3, <2>5, <2>6, <2>7, <2>8
<1> QED
  BY <1>2, <1>3

LEMMA ReturnedStep ==
  ASSUME Inv, NEW s \in Servers, Returned(s)
  PROVE  Inv'
<1> USE DEF Inv
<1>1. /\ acceptor[s] = "serve" /\ acceptor' = [acceptor EXCEPT ![s] = "loop"]
      /\ \A c \in Of(s) : ~Served(c)
      /\ UNCHANGED <<main, running, listens, backlog, client, stream, history>>
  BY DEF Returned, Acceptor
<1>2. Sorts'
  BY <1>1 DEF Sorts, stream, history
<1>3. Phases'
  BY <1>1, ServersDistinct DEF Sorts, Phases, Quiet, Alive
<1>4. OneBrowser'
  BY <1>1, ServersDistinct DEF Sorts, OneBrowser, Served
<1>5. LateEnds'
  BY <1>1, ServersDistinct DEF Sorts, LateEnds, history
<1>6. Waiting' /\ Flow'
  BY <1>1 DEF Waiting, Flow, stream
<1> QED
  BY <1>2, <1>3, <1>4, <1>5, <1>6

(* The oldest connection leaves the backlog; it was there once. *)
LEMMA AcceptStep ==
  ASSUME Inv, NEW s \in Servers, Accept(s)
  PROVE  Inv'
<1> USE DEF Inv
<1> DEFINE h == Head(backlog[s])
<1>1. /\ acceptor[s] = "accept" /\ backlog[s] # <<>>
      /\ client' = [client EXCEPT ![h] = "loop"]
      /\ backlog' = [backlog EXCEPT ![s] = Tail(@)]
      /\ acceptor' = [acceptor EXCEPT ![s] = AfterAccept(s)]
      /\ UNCHANGED <<main, running, listens, stream, history>>
  BY DEF Accept, Acceptor, Client
<1>2. backlog[s] \in Seq(Clients)
  BY DEF Sorts
<1>3. h = backlog[s][1] /\ 1 \in DOMAIN backlog[s]
  BY <1>1, <1>2
<1>4. h \in Of(s) /\ client[h] = "pending" /\ h \in Clients
  BY <1>3, ServersDistinct DEF Waiting
<1>5. AfterAccept(s) \in {"loop", "serve"} /\ (s = "web" => AfterAccept(s) = "serve")
  BY DEF AfterAccept, Servers
<1>6. /\ Tail(backlog[s]) \in Seq(Clients)
      /\ DOMAIN Tail(backlog[s]) = 1 .. Len(backlog[s]) - 1
      /\ DOMAIN backlog[s] = 1 .. Len(backlog[s]) /\ Len(backlog[s]) \in Nat
      /\ \A i \in 1 .. Len(backlog[s]) - 1 : Tail(backlog[s])[i] = backlog[s][i + 1]
  BY <1>1, <1>2
<1> HIDE DEF h
<1>7. Sorts'
  BY <1>1, <1>4, <1>5, <1>6 DEF Sorts, stream, history
<1>8. \A t \in Servers : acceptor'[t] = "unborn" => acceptor[t] = "unborn" /\ t # s
  BY <1>1, <1>5 DEF Sorts
<1>9. \A t \in Servers : t # s => acceptor'[t] = acceptor[t]
  BY <1>1 DEF Sorts
<1>10. \A c \in Clients : c # h => client'[c] = client[c]
  BY <1>1 DEF Sorts
<1>11. Phases'
  <2>1. acceptor[s] \notin {"unborn", "ended"} /\ acceptor'[s] # "unborn"
    BY <1>1, <1>5 DEF Sorts
  <2>2. \A t \in Servers : (Quiet(t) => Quiet(t)') /\ (Alive(t) => Alive(t)')
    BY <1>1, <1>9, <2>1 DEF Quiet, Alive
  <2>3. \A t \in Servers : acceptor[t] = "unborn" => acceptor'[t] = "unborn"
    BY <1>9, <2>1
  <2>4. \A t \in Servers : t # s => \A c \in Of(t) : client'[c] = client[c]
    BY <1>4, <1>10, ServersDistinct
  <2> QED
    BY <1>1, <1>8, <2>2, <2>3, <2>4, ServersDistinct DEF Phases
<1>12. OneBrowser'
  <2>1. CASE s = "tcp"
    <3>1. \A b \in Browsers : client'[b] = client[b]
      BY <1>4, <1>10, <2>1, ServersDistinct
    <3>2. acceptor'["web"] = acceptor["web"]
      BY <1>9, <2>1, ServersDistinct
    <3> QED
      BY <3>1, <3>2 DEF OneBrowser, Served
  <2>2. CASE s = "web"
    <3>1. \A b \in Browsers : ~Served(b)
      BY <1>1, <2>2 DEF OneBrowser
    <3>2. \A b \in Browsers : Served(b)' => b = h
      BY <1>10, <3>1 DEF Served, Clients
    <3>3. acceptor'["web"] = "serve"
      BY <1>1, <1>5, <2>2, ServersDistinct DEF Sorts
    <3> QED
      BY <3>2, <3>3 DEF OneBrowser
  <2> QED
    BY <2>1, <2>2 DEF Servers
<1>13. LateEnds'
  <2>1. \A c \in Clients : late[c] > 0 => c # h
    BY <1>4 DEF LateEnds
  <2> QED
    BY <1>1, <1>8, <1>10, <2>1, ServersDistinct DEF LateEnds, history
<1>14. Waiting'
  <2> SUFFICES ASSUME NEW t \in Servers
               PROVE  /\ \A i \in DOMAIN backlog'[t] :
                           /\ backlog'[t][i] \in Of(t)
                           /\ client'[backlog'[t][i]] = "pending"
                      /\ \A i, j \in DOMAIN backlog'[t] :
                           backlog'[t][i] = backlog'[t][j] => i = j
                      /\ \A c \in Of(t) : client'[c] = "pending" =>
                           \E i \in DOMAIN backlog'[t] : backlog'[t][i] = c
    BY DEF Waiting
  <2>1. CASE t # s
    <3>1. backlog'[t] = backlog[t]
      BY <1>1, <2>1 DEF Sorts
    <3>2. \A c \in Of(t) : client'[c] = client[c]
      BY <1>4, <1>10, <2>1, ServersDistinct
    <3> QED
      BY <3>1, <3>2 DEF Waiting
  <2>2. CASE t = s
    <3>1. /\ DOMAIN backlog'[s] = 1 .. Len(backlog[s]) - 1
          /\ \A i \in DOMAIN backlog'[s] :
               i + 1 \in DOMAIN backlog[s] /\ backlog'[s][i] = backlog[s][i + 1]
      <4>1. backlog'[s] = Tail(backlog[s])
        BY <1>1 DEF Sorts
      <4> QED
        BY <1>6, <4>1
    <3>2. \A i \in DOMAIN backlog'[s] : backlog'[s][i] # h
      <4> SUFFICES ASSUME NEW i \in DOMAIN backlog'[s], backlog[s][i + 1] = backlog[s][1]
                   PROVE  FALSE
        BY <1>3, <3>1
      <4>1. i + 1 = 1
        BY <1>3, <3>1 DEF Waiting
      <4> QED
        BY <1>6, <3>1, <4>1
    <3>3. \A i \in DOMAIN backlog'[s] :
            backlog'[s][i] \in Of(s) /\ client'[backlog'[s][i]] = "pending"
      BY <1>10, <3>1, <3>2, ServersDistinct DEF Waiting
    <3>4. \A i, j \in DOMAIN backlog'[s] : backlog'[s][i] = backlog'[s][j] => i = j
      <4> TAKE i, j \in DOMAIN backlog'[s]
      <4> HAVE backlog'[s][i] = backlog'[s][j]
      <4>1. i + 1 = j + 1
        BY <3>1 DEF Waiting
      <4> QED
        BY <1>6, <3>1, <4>1
    <3>5. ASSUME NEW c \in Of(s), client'[c] = "pending"
          PROVE  \E i \in DOMAIN backlog'[s] : backlog'[s][i] = c
      <4>1. c # h /\ client[c] = "pending"
        BY <1>1, <1>4, <1>10, <3>5, ServersDistinct DEF Sorts
      <4>2. PICK k \in DOMAIN backlog[s] : backlog[s][k] = c
        BY <4>1 DEF Waiting
      <4>3. k # 1
        BY <1>3, <4>1, <4>2
      <4>4. k - 1 \in 1 .. Len(backlog[s]) - 1 /\ (k - 1) + 1 = k
        BY <1>6, <4>3
      <4> QED
        BY <3>1, <4>2, <4>4
    <3> QED
      BY <2>2, <3>3, <3>4, <3>5
  <2> QED
    BY <2>1, <2>2
<1>15. Flow'
  BY <1>1, <1>4, <1>10 DEF Sorts, Flow, stream
<1> QED
  BY <1>7, <1>11, <1>12, <1>13, <1>14, <1>15

-----------------------------------------------------------------------------
(* The connections.                                                        *)

(* A served connection goes on, or ends: nobody else is concerned.         *)
LEMMA TurnStep ==
  ASSUME Inv, NEW c \in Clients, Served(c),
         NEW to \in {"loop", "recv", "handle", "send", "gone"},
         Client(c, to),
         UNCHANGED <<main, running, listens, acceptor, backlog>>
  PROVE  Phases' /\ OneBrowser' /\ Waiting'
<1> USE DEF Inv
<1>1. \A d \in Clients : d # c => client'[d] = client[d]
  BY DEF Client, Sorts
<1>2. client'[c] = to /\ client[c] \notin {"out", "pending", "gone"}
  BY DEF Client, Sorts, Served
<1>3. Phases'
  BY <1>1, <1>2, ServersDistinct DEF Phases, Quiet, Alive
<1>4. OneBrowser'
  BY <1>1, <1>2, ServersDistinct DEF OneBrowser, Served, Clients
<1>5. Waiting'
  BY <1>1, <1>2, ServersDistinct DEF Waiting
<1> QED
  BY <1>3, <1>4, <1>5

LEMMA ConnectionLoopStep ==
  ASSUME Inv, NEW c \in Clients, ConnectionLoop(c)
  PROVE  Inv'
<1> USE DEF Inv
<1>1. /\ client[c] = "loop"
      /\ Client(c, IF GoesOn(c) THEN "recv" ELSE "gone")
      /\ UNCHANGED <<main, running, listens, acceptor, backlog, stream, history>>
  BY DEF ConnectionLoop
<1>2. Phases' /\ OneBrowser' /\ Waiting'
  BY <1>1, TurnStep DEF Served
<1>3. Sorts'
  BY <1>1 DEF Sorts, Client, stream, history
<1>4. LateEnds'
  <2>1. late[c] > 0 => ~GoesOn(c)
    BY <1>1, ServersDistinct DEF LateEnds, GoesOn, ServerOf
  <2> QED
    BY <1>1, <2>1 DEF LateEnds, Sorts, Client, history
<1>5. Flow'
  BY <1>1 DEF Flow, Sorts, Client, stream
<1> QED
  BY <1>2, <1>3, <1>4, <1>5

LEMMA ReceiveStep ==
  ASSUME Inv, NEW c \in Clients, Receive(c)
  PROVE  Inv'
<1> USE DEF Inv
<1>1. /\ client[c] = "recv" /\ Client(c, "handle")
      /\ UNCHANGED <<main, running, listens, acceptor, backlog, sent, history>>
  BY DEF Receive
<1>2. PICK n \in DOMAIN unread[c] :
        /\ buf' = [buf EXCEPT ![c] = SubSeq(unread[c], 1, n)]
        /\ unread' = [unread EXCEPT ![c] = SubSeq(@, n + 1, Len(@))]
  BY DEF Receive, Terminated
<1>3. unread[c] \in Seq(Nat \X Nat) /\ n \in 1 .. Len(unread[c]) /\ unread[c] # <<>>
  BY <1>2 DEF Sorts
<1>4. /\ SubSeq(unread[c], 1, n) \in Seq(Nat \X Nat)
      /\ SubSeq(unread[c], 1, n) # <<>>
      /\ SubSeq(unread[c], n + 1, Len(unread[c])) \in Seq(Nat \X Nat)
  <2>1. 1 \in 1 .. Len(unread[c]) + 1 /\ n \in 0 .. Len(unread[c])
    BY <1>3
  <2>2. n + 1 \in 1 .. Len(unread[c]) + 1 /\ Len(unread[c]) \in n + 1 - 1 .. Len(unread[c])
    BY <1>3
  <2>3. SubSeq(unread[c], 1, n) \in Seq(Nat \X Nat) /\ Len(SubSeq(unread[c], 1, n)) = n
    BY <1>3, <2>1, SubSeqProperties
  <2>4. SubSeq(unread[c], n + 1, Len(unread[c])) \in Seq(Nat \X Nat)
    BY <1>3, <2>2, SubSeqProperties
  <2> QED
    BY <1>3, <2>3, <2>4
<1>5. Phases' /\ OneBrowser' /\ Waiting'
  BY <1>1, TurnStep DEF Served
<1>6. Sorts'
  BY <1>1, <1>2, <1>4 DEF Sorts, Client, history
<1>7. LateEnds'
  BY <1>1 DEF LateEnds, Sorts, Client, history
<1>8. Flow'
  BY <1>1, <1>2, <1>3, <1>4 DEF Flow, Sorts, Client
<1> QED
  BY <1>5, <1>6, <1>7, <1>8

(* Only here a message is counted as late: its connection was not late     *)
(* before, and whatever it does next, it handles no other.                 *)
LEMMA HandleStep ==
  ASSUME Inv, NEW c \in Clients, Handle(c)
  PROVE  Inv'
<1> USE DEF Inv
<1>1. /\ client[c] = "handle" /\ Client(c, "send")
      /\ late' = IF ServerOf(c) \in running THEN late ELSE [late EXCEPT ![c] = @ + 1]
      /\ UNCHANGED <<main, running, listens, acceptor, backlog, stream>>
  BY DEF Handle
<1>2. Phases' /\ OneBrowser' /\ Waiting'
  BY <1>1, TurnStep DEF Served
<1>3. Sorts'
  BY <1>1 DEF Sorts, Client, stream
<1>4. LateEnds'
  <2>1. late[c] = 0
    <3>1. late[c] \in Nat
      BY DEF Sorts
    <3>2. ~(late[c] > 0)
      BY <1>1 DEF LateEnds
    <3> QED
      BY <3>1, <3>2
  <2>2. acceptor[ServerOf(c)] # "unborn"
    <3>1. ServerOf(c) \in Servers /\ c \in Of(ServerOf(c))
      BY ServersDistinct
    <3>2. client[c] \notin {"out", "gone"}
      BY <1>1
    <3> QED
      BY <3>1, <3>2 DEF Phases
  <2>3. ASSUME NEW d \in Clients, late'[d] > 0
        PROVE  /\ late'[d] = 1 /\ ServerOf(d) \notin running
               /\ acceptor[ServerOf(d)] # "unborn"
               /\ \/ client'[d] \in {"send", "gone"}
                  \/ d \in TcpClients /\ client'[d] = "loop"
    <3>1. CASE d = c
      BY <1>1, <2>1, <2>2, <2>3, <3>1 DEF Sorts, Client
    <3>2. CASE d # c
      BY <1>1, <2>3, <3>2 DEF Sorts, Client, LateEnds
    <3> QED
      BY <3>1, <3>2
  <2> QED
    BY <1>1, <2>3 DEF LateEnds
<1>5. Flow'
  BY <1>1 DEF Flow, Sorts, Client, stream
<1> QED
  BY <1>2, <1>3, <1>4, <1>5

LEMMA AnswerStep ==
  ASSUME Inv, NEW c \in Clients, Answer(c)
  PROVE  Inv'
<1> USE DEF Inv
<1>1. /\ client[c] = "send" /\ Client(c, AfterAnswer(c))
      /\ UNCHANGED <<main, running, listens, acceptor, backlog, stream, history>>
  BY DEF Answer
<1>2. AfterAnswer(c) \in {"loop", "gone"} /\ (AfterAnswer(c) = "loop" => c \in TcpClients)
  BY DEF AfterAnswer
<1>3. Phases' /\ OneBrowser' /\ Waiting'
  BY <1>1, <1>2, TurnStep DEF Served
<1>4. Sorts'
  BY <1>1, <1>2 DEF Sorts, Client, stream, history
<1>5. LateEnds'
  BY <1>1, <1>2 DEF LateEnds, Sorts, Client, history
<1>6. Flow'
  BY <1>1, <1>2 DEF Flow, Sorts, Client, stream
<1> QED
  BY <1>3, <1>4, <1>5, <1>6

-----------------------------------------------------------------------------
(* The clients.                                                            *)

LEMMA ConnectStep ==
  ASSUME Inv, NEW c \in Clients, Connect(c)
  PROVE  Inv'
<1> USE DEF Inv
<1> DEFINE s == ServerOf(c)
<1>1. /\ client[c] = "out" /\ client' = [client EXCEPT ![c] = "pending"]
      /\ s \in listens \/ acceptor[s] = "accept"
      /\ backlog' = [backlog EXCEPT ![s] = Append(@, c)]
      /\ UNCHANGED <<main, running, listens, acceptor, stream, history>>
  BY DEF Connect, Client
<1>2. s \in Servers /\ c \in Of(s) /\ \A t \in Servers : t # s => c \notin Of(t)
  BY ServersDistinct
<1>3. backlog[s] \in Seq(Clients)
  BY <1>2 DEF Sorts
<1>4. /\ Append(backlog[s], c) \in Seq(Clients)
      /\ Len(backlog[s]) \in Nat /\ DOMAIN backlog[s] = 1 .. Len(backlog[s])
      /\ DOMAIN Append(backlog[s], c) = 1 .. Len(backlog[s]) + 1
      /\ Append(backlog[s], c)[Len(backlog[s]) + 1] = c
      /\ \A i \in 1 .. Len(backlog[s]) : Append(backlog[s], c)[i] = backlog[s][i]
  BY <1>3
<1> HIDE DEF s
<1>5. \A d \in Clients : d # c => client'[d] = client[d]
  BY <1>1 DEF Sorts
<1>6. client'[c] = "pending"
  BY <1>1 DEF Sorts
<1>7. Sorts'
  BY <1>1, <1>2, <1>4 DEF Sorts, stream, history
<1>8. Phases'
  <2>1. acceptor[s] # "unborn"
    BY <1>1, <1>2 DEF Phases
  <2> QED
    BY <1>1, <1>2, <1>5, <2>1, ServersDistinct DEF Phases, Quiet, Alive
<1>9. OneBrowser'
  BY <1>1, <1>5, <1>6 DEF OneBrowser, Served, Clients
<1>10. LateEnds'
  BY <1>1, <1>5 DEF LateEnds, history
<1>11. Waiting'
  <2> SUFFICES ASSUME NEW t \in Servers
               PROVE  /\ \A i \in DOMAIN backlog'[t] :
                           /\ backlog'[t][i] \in Of(t)
                           /\ client'[backlog'[t][i]] = "pending"
                      /\ \A i, j \in DOMAIN backlog'[t] :
                           backlog'[t][i] = backlog'[t][j] => i = j
                      /\ \A d \in Of(t) : client'[d] = "pending" =>
                           \E i \in DOMAIN backlog'[t] : backlog'[t][i] = d
    BY DEF Waiting
  <2>1. CASE t # s
    <3>1. backlog'[t] = backlog[t]
      BY <1>1, <2>1 DEF Sorts
    <3>2. \A d \in Of(t) : client'[d] = client[d]
      BY <1>2, <1>5, <2>1, ServersDistinct
    <3> QED
      BY <3>1, <3>2 DEF Waiting
  <2>2. CASE t = s
    <3>1. backlog'[s] = Append(backlog[s], c)
      BY <1>1, <1>2 DEF Sorts
    <3>2. \A i \in DOMAIN backlog[s] : backlog[s][i] # c
      BY <1>1, <1>2 DEF Waiting
    <3>3. \A i \in DOMAIN backlog'[s] :
            backlog'[s][i] \in Of(s) /\ client'[backlog'[s][i]] = "pending"
      <4> TAKE i \in DOMAIN backlog'[s]
      <4>1. CASE i = Len(backlog[s]) + 1
        BY <1>2, <1>4, <1>6, <3>1, <4>1
      <4>2. CASE i \in DOMAIN backlog[s]
        <5>1. /\ backlog'[s][i] = backlog[s][i]
              /\ backlog[s][i] \in Of(s) /\ client[backlog[s][i]] = "pending"
          BY <1>2, <1>4, <3>1, <4>2 DEF Waiting
        <5> QED
          BY <1>2, <1>5, <3>2, <4>2, <5>1, ServersDistinct
      <4> QED
        BY <1>4, <3>1, <4>1, <4>2
    <3>4. \A i, j \in DOMAIN backlog'[s] : backlog'[s][i] = backlog'[s][j] => i = j
      BY <1>2, <1>4, <3>1, <3>2 DEF Waiting
    <3>5. \A d \in Of(s) : client'[d] = "pending" =>
            \E i \in DOMAIN backlog'[s] : backlog'[s][i] = d
      <4> TAKE d \in Of(s)
      <4> HAVE client'[d] = "pending"
      <4>1. CASE d = c
        <5>1. Len(backlog[s]) + 1 \in DOMAIN backlog'[s]
          BY <1>4, <3>1
        <5> QED
          BY <1>4, <3>1, <4>1, <5>1
      <4>2. CASE d # c
        <5>1. client[d] = "pending"
          BY <1>2, <1>5, <4>2, ServersDistinct
        <5>2. PICK k \in DOMAIN backlog[s] : backlog[s][k] = d
          BY <1>2, <5>1 DEF Waiting
        <5> QED
          BY <1>4, <3>1, <5>2
      <4> QED
        BY <4>1, <4>2
    <3> QED
      BY <2>2, <3>3, <3>4, <3>5
  <2> QED
    BY <2>1, <2>2
<1>12. Flow'
  BY <1>1, <1>5, <1>6 DEF Flow, stream
<1> QED
  BY <1>7, <1>8, <1>9, <1>10, <1>11, <1>12

LEMMA SendStep ==
  ASSUME Inv, NEW c \in Clients, Send(c)
  PROVE  Inv'
<1> USE DEF Inv
<1>1. /\ client[c] = "recv" /\ sent[c] < Len(Script[c])
      /\ sent' = [sent EXCEPT ![c] = @ + 1]
      /\ unread' = [unread EXCEPT ![c] = @ \o Written(c, sent'[c])]
      /\ UNCHANGED <<main, running, listens, acceptor, backlog, client, buf, history>>
  BY DEF Send
<1>2. sent[c] \in Nat /\ sent'[c] = sent[c] + 1 /\ Len(Script[c]) \in Nat
  BY <1>1, ServersAssumption DEF Sorts
<1>3. Written(c, sent'[c]) \in Seq(Nat \X Nat)
  BY <1>1, <1>2, WrittenType
<1>4. Sorts'
  <2>1. unread[c] \o Written(c, sent'[c]) \in Seq(Nat \X Nat)
    BY <1>3 DEF Sorts
  <2> QED
    BY <1>1, <1>2, <2>1 DEF Sorts, history
<1>5. Phases' /\ OneBrowser' /\ Waiting' /\ LateEnds'
  BY <1>1 DEF Phases, Quiet, Alive, OneBrowser, Served, Waiting, LateEnds, history
<1>6. Flow'
  <2>1. sent'[c] > 0 /\ sent'[c] <= Len(Script[c])
    BY <1>1, <1>2
  <2>2. \A d \in Clients : d # c => sent'[d] = sent[d] /\ unread'[d] = unread[d]
    BY <1>1 DEF Sorts
  <2> QED
    BY <1>1, <2>1, <2>2 DEF Flow
<1> QED
  BY <1>4, <1>5, <1>6

LEMMA LeaveStep ==
  ASSUME Inv, NEW c \in Clients, Leave(c)
  PROVE  Inv'
<1> USE DEF Inv
<1>1. /\ client[c] = "recv" /\ Client(c, "gone")
      /\ UNCHANGED <<main, running, listens, acceptor, backlog, stream, history>>
  BY DEF Leave
<1>2. Phases' /\ OneBrowser' /\ Waiting'
  BY <1>1, TurnStep DEF Served
<1>3. Sorts'
  BY <1>1 DEF Sorts, Client, stream, history
<1>4. LateEnds' /\ Flow'
  BY <1>1 DEF LateEnds, Flow, Sorts, Client, stream, history
<1> QED
  BY <1>2, <1>3, <1>4

-----------------------------------------------------------------------------

LEMMA NextStep == ASSUME Inv, [Next]_vars PROVE Inv'
<1>1. CASE Main
  BY <1>1, MainStep
<1>2. CASE Interrupt
  BY <1>2, InterruptStep
<1>3. ASSUME NEW s \in Servers, AcceptThread(s) PROVE Inv'
  BY <1>3, AcceptLoopStep, AcceptStep, ReturnedStep DEF AcceptThread
<1>4. ASSUME NEW c \in Clients, Connection(c) PROVE Inv'
  BY <1>4, ConnectionLoopStep, ReceiveStep, HandleStep, AnswerStep DEF Connection
<1>5. ASSUME NEW c \in Clients, Connect(c) \/ Send(c) \/ Leave(c) PROVE Inv'
  BY <1>5, ConnectStep, SendStep, LeaveStep
<1>6. CASE UNCHANGED vars
  BY <1>6 DEF Inv, vars, stream, history, Sorts, Phases, Quiet, Alive, OneBrowser,
              Served, LateEnds, Waiting, Flow
<1> QED
  BY <1>1, <1>2, <1>3, <1>4, <1>5, <1>6 DEF Next

LEMMA SpecInv == Spec => []Inv
BY InitInv, NextStep, PTL DEF Spec

(* The kernel's backlogs and the servers agree at every moment who waits,  *)
(* and the web server's thread never serves two browsers.                  *)
THEOREM TypeCorrect == Spec => []TypeOK
<1>1. Inv => TypeOK
  <2> SUFFICES ASSUME Inv PROVE TypeOK
    OBVIOUS
  <2> USE DEF Inv
  <2>1. \A s \in Servers : \A c \in Of(s) :
          client[c] = "pending" <=> \E i \in DOMAIN backlog[s] : backlog[s][i] = c
    BY DEF Waiting
  <2>2. \A c \in Clients : sent[c] \in 0 .. Len(Script[c])
    BY ServersAssumption DEF Sorts, Flow
  <2> QED
    BY <2>1, <2>2 DEF TypeOK, Sorts, OneBrowser, Flow
<1> QED
  BY <1>1, SpecInv, PTL

(* However many connections outlive stop(), each handles at most one more  *)
(* message.                                                                *)
THEOREM FewLate == Spec => []AtMostOneLate
<1>1. Inv => AtMostOneLate
  <2> SUFFICES ASSUME Inv, NEW c \in Clients PROVE late[c] <= 1
    BY DEF AtMostOneLate
  <2>1. late[c] \in Nat
    BY DEF Inv, Sorts
  <2>2. late[c] > 0 => late[c] = 1
    BY DEF Inv, LateEnds
  <2> QED
    BY <2>1, <2>2
<1> QED
  BY <1>1, SpecInv, PTL

(* The robots are shut down after the accept threads have ended and the    *)
(* last browser was answered, wherever the start or the signal broke off.  *)
THEOREM QuietShutdown == Spec => []QuietBeforeRobots
<1>1. Inv => QuietBeforeRobots
  BY DEF Inv, Phases, Quiet, OneBrowser, QuietBeforeRobots, Servers
<1> QED
  BY <1>1, SpecInv, PTL

-----------------------------------------------------------------------------
(* What is read of a text that begins with a command.                      *)

LessPairs == {p \in Nat \X Nat : p[1] < p[2]}

LEMMA LessWellFounded == IsWellFoundedOn(LessPairs, Nat)
<1>1. OpToRel(<, Nat) = LessPairs
  BY DEF OpToRel, LessPairs
<1> QED
  BY <1>1, NatLessThanWellFounded

LEMMA Least ==
  ASSUME NEW S, S \subseteq Nat, S # {}
  PROVE  \E m \in S : \A k \in S : m <= k
<1>1. PICK m \in S : \A k \in S : <<k, m>> \notin LessPairs
  BY LessWellFounded, WFMin
<1>2. \A k \in S : <<k, m>> \in Nat \X Nat /\ <<k, m>>[1] = k /\ <<k, m>>[2] = m
  OBVIOUS
<1>3. \A k \in S : ~(k < m)
  BY <1>1, <1>2 DEF LessPairs
<1> QED
  BY <1>3

LEMMA MinMax ==
  ASSUME NEW N \in Nat, NEW S, S \subseteq 1 .. N, S # {}
  PROVE  /\ Min(S) \in S /\ \A k \in S : Min(S) <= k
         /\ Max(S) \in S /\ \A k \in S : k <= Max(S)
<1>1. \E m \in S : \A k \in S : m <= k
  <2>1. S \subseteq Nat
    OBVIOUS
  <2> QED
    BY <2>1, Least
<1>2. \E m \in S : \A k \in S : m >= k
  <2> DEFINE T == {N - k : k \in S}
  <2>1. T \subseteq Nat /\ T # {}
    <3>1. \A k \in S : N - k \in Nat
      OBVIOUS
    <3>2. PICK k \in S : TRUE
      OBVIOUS
    <3>3. N - k \in T
      OBVIOUS
    <3> QED
      BY <3>1, <3>3
  <2> HIDE DEF T
  <2>2. PICK t \in T : \A k \in T : t <= k
    BY <2>1, Least
  <2>3. PICK m \in S : t = N - m
    BY DEF T
  <2>4. \A k \in S : N - m <= N - k
    BY <2>2, <2>3 DEF T
  <2>5. \A k \in S : m >= k
    BY <2>4
  <2> QED
    BY <2>5
<1>3. Min(S) \in S /\ \A k \in S : Min(S) <= k
  BY <1>1 DEF Min
<1>4. Max(S) \in S /\ \A k \in S : Max(S) >= k
  BY <1>2 DEF Max
<1> QED
  BY <1>3, <1>4

(* The text is a part of the command, from its first piece on, with or     *)
(* without something behind its closing brace.                             *)
Begins(text, fields) ==
  /\ Len(text) \in Nat /\ DOMAIN text = 1 .. Len(text)
  /\ \A i \in 1 .. Len(text) :
       i <= 2 * Len(fields) + 1 => text[i] = [of |-> fields, at |-> i]

Shorter(text, fields) ==
  IF Len(text) <= 2 * Len(fields) THEN Len(text) ELSE 2 * Len(fields)

LEMMA ShorterFacts ==
  ASSUME NEW F \in Seq(Fields), NEW text, Begins(text, F)
  PROVE  /\ Len(F) \in Nat /\ Shorter(text, F) \in Nat
         /\ Shorter(text, F) <= 2 * Len(F) /\ Shorter(text, F) <= Len(text)
BY DEF Begins, Shorter

LEMMA LengthOf ==
  ASSUME NEW F \in Seq(Fields), NEW text, Begins(text, F)
  PROVE  Length(text) = Shorter(text, F)
<1> DEFINE ends == {i \in DOMAIN text : Closes(text[i])}
           brace == 2 * Len(F) + 1
<1>1. Len(text) \in Nat /\ DOMAIN text = 1 .. Len(text) /\ Len(F) \in Nat /\ brace \in Nat
  BY DEF Begins
<1>2. \A i \in DOMAIN text : i < brace => i \notin ends
  BY <1>1 DEF Begins, Closes
<1>3. CASE brace \in DOMAIN text
  <2>1. text[brace] = [of |-> F, at |-> brace]
    BY <1>1, <1>3 DEF Begins
  <2>2. brace \in ends
    BY <1>3, <2>1 DEF Closes
  <2>3. ends # {} /\ ends \subseteq 1 .. Len(text)
    BY <1>1, <2>2
  <2>4. \A i \in ends : brace <= i
    BY <1>1, <1>2
  <2> HIDE DEF ends, brace
  <2>5. Min(ends) \in ends /\ Min(ends) <= brace
    BY <1>1, <2>2, <2>3, MinMax
  <2>6. Min(ends) = brace
    <3>1. Min(ends) \in 1 .. Len(text)
      BY <2>3, <2>5
    <3>2. brace <= Min(ends)
      BY <2>4, <2>5
    <3> QED
      BY <1>1, <2>5, <3>1, <3>2
  <2>7. Length(text) = brace - 1
    BY <2>3, <2>6 DEF Length, ends
  <2> USE DEF brace
  <2> QED
    BY <1>1, <1>3, <2>7 DEF Shorter
<1>4. CASE brace \notin DOMAIN text
  <2>1. Len(text) <= 2 * Len(F)
    BY <1>1, <1>4
  <2>2. ends = {}
    BY <1>1, <1>2, <2>1
  <2>3. Length(text) = Len(text)
    BY <2>2 DEF Length
  <2> QED
    BY <2>1, <2>3 DEF Shorter
<1> QED
  BY <1>3, <1>4

LEMMA PiecesBegin ==
  ASSUME NEW F \in Seq(Fields)
  PROVE  Begins(Pieces(F), F) /\ Shorter(Pieces(F), F) = 2 * Len(F)
<1>1. Len(F) \in Nat /\ 2 * Len(F) + 1 \in Nat
  OBVIOUS
<1>2. Len(Pieces(F)) = 2 * Len(F) + 1 /\ DOMAIN Pieces(F) = 1 .. 2 * Len(F) + 1
  BY <1>1 DEF Pieces
<1>3. \A i \in 1 .. 2 * Len(F) + 1 : Pieces(F)[i] = [of |-> F, at |-> i]
  BY DEF Pieces
<1> QED
  BY <1>1, <1>2, <1>3 DEF Begins, Shorter

LEMMA ReadOf ==
  ASSUME NEW F \in Seq(Fields), NEW text, Begins(text, F), NEW key
  PROVE  /\ Read(text, key) =
              {i \in 1 .. Shorter(text, F) : i % 2 = 0 /\ F[i \div 2].key = key}
         /\ \A i \in 1 .. Shorter(text, F) : FieldOf(text[i]) = F[i \div 2]
<1>1. /\ Shorter(text, F) \in Nat /\ Len(F) \in Nat /\ Len(text) \in Nat
      /\ Shorter(text, F) <= 2 * Len(F) /\ Shorter(text, F) <= Len(text)
  BY ShorterFacts DEF Begins
<1>2. ASSUME NEW i \in 1 .. Shorter(text, F)
      PROVE  text[i].of = F /\ text[i].at = i
  <2>1. i \in 1 .. Len(text) /\ i <= 2 * Len(F) + 1
    BY <1>1
  <2>2. text[i] = [of |-> F, at |-> i]
    BY <2>1 DEF Begins
  <2> QED
    BY <2>2
<1>3. \A i \in 1 .. Shorter(text, F) :
        /\ IsValue(text[i]) <=> i % 2 = 0
        /\ FieldOf(text[i]) = F[i \div 2]
  BY <1>1, <1>2 DEF IsValue, FieldOf
<1> QED
  BY <1>3, LengthOf DEF Read

LEMMA GetOf ==
  ASSUME NEW F \in Seq(Fields), WellFormed(F), NEW text, Begins(text, F),
         NEW key, key # "waypoint", NEW default
  PROVE  Get(text, key, default) \in {Get(Pieces(F), key, default), default}
<1> SUFFICES ASSUME Read(text, key) # {}
             PROVE  Get(text, key, default) = Get(Pieces(F), key, default)
  BY DEF Get
<1>1. /\ Shorter(text, F) \in Nat /\ Len(F) \in Nat
      /\ Shorter(text, F) <= 2 * Len(F)
      /\ Begins(Pieces(F), F) /\ Shorter(Pieces(F), F) = 2 * Len(F)
  BY ShorterFacts, PiecesBegin
<1>2. PICK k \in Read(text, key) : TRUE
  OBVIOUS
<1>3. /\ k \in 1 .. Shorter(text, F) /\ k \in 1 .. 2 * Len(F)
      /\ k % 2 = 0 /\ F[k \div 2].key = key
      /\ FieldOf(text[k]) = F[k \div 2]
  BY <1>1, <1>2, ReadOf
<1>4. FieldOf(Pieces(F)[k]) = F[k \div 2]
  BY <1>1, <1>3, ReadOf
<1>5. ASSUME NEW i \in 1 .. 2 * Len(F), i % 2 = 0, F[i \div 2].key = key
      PROVE  i = k
  <2>1. i \div 2 \in DOMAIN F /\ k \div 2 \in DOMAIN F
    BY <1>1, <1>3, <1>5
  <2>2. i \div 2 = k \div 2
    BY <1>3, <1>5, <2>1 DEF WellFormed
  <2> QED
    BY <1>1, <1>3, <1>5, <2>2
<1>6. Read(text, key) = {k} /\ Read(Pieces(F), key) = {k}
  <2>1. \A i \in 1 .. Shorter(text, F) : i \in 1 .. 2 * Len(F)
    BY <1>1
  <2>2. Read(text, key) = {i \in 1 .. Shorter(text, F) : i % 2 = 0 /\ F[i \div 2].key = key}
    BY ReadOf
  <2>3. Read(Pieces(F), key) = {i \in 1 .. 2 * Len(F) : i % 2 = 0 /\ F[i \div 2].key = key}
    BY <1>1, ReadOf
  <2> QED
    BY <1>3, <1>5, <2>1, <2>2, <2>3
<1>7. Max({k}) = k
  BY <1>1, <1>3 DEF Max
<1> QED
  BY <1>3, <1>4, <1>6, <1>7 DEF Get

(* The waypoints that were read are the first of those meant.              *)
LEMMA WaypointsOf ==
  ASSUME NEW F \in Seq(Fields), NEW text, Begins(text, F)
  PROVE  IsPrefix(Waypoints(text), Waypoints(Pieces(F)))
<1> DEFINE N == Shorter(text, F)
           R == Read(text, "waypoint")
           P == Read(Pieces(F), "waypoint")
           Count(S) == IF S = {} THEN 0 ELSE (Max(S) - Min(S)) \div 2 + 1
           Value(i) == F[(Min(P) + 2 * (i - 1)) \div 2].value
<1>1. /\ N \in Nat /\ Len(F) \in Nat /\ N <= 2 * Len(F)
      /\ Begins(Pieces(F), F) /\ Shorter(Pieces(F), F) = 2 * Len(F)
  BY ShorterFacts, PiecesBegin
<1>2. /\ R = {i \in 1 .. N : i % 2 = 0 /\ F[i \div 2].key = "waypoint"}
      /\ P = {i \in 1 .. 2 * Len(F) : i % 2 = 0 /\ F[i \div 2].key = "waypoint"}
      /\ \A i \in 1 .. N : FieldOf(text[i]) = F[i \div 2]
      /\ \A i \in 1 .. 2 * Len(F) : FieldOf(Pieces(F)[i]) = F[i \div 2]
  <2>1. R = {i \in 1 .. N : i % 2 = 0 /\ F[i \div 2].key = "waypoint"}
    BY ReadOf
  <2>2. P = {i \in 1 .. Shorter(Pieces(F), F) : i % 2 = 0 /\ F[i \div 2].key = "waypoint"}
    BY <1>1, ReadOf
  <2>3. \A i \in 1 .. N : FieldOf(text[i]) = F[i \div 2]
    BY ReadOf
  <2>4. \A i \in 1 .. Shorter(Pieces(F), F) : FieldOf(Pieces(F)[i]) = F[i \div 2]
    BY <1>1, ReadOf
  <2> HIDE DEF N, R, P
  <2> QED
    BY <1>1, <2>1, <2>2, <2>3, <2>4
<1> HIDE DEF N, R, P
<1>3. R = {i \in P : i <= N} /\ R \subseteq 1 .. N /\ P \subseteq 1 .. 2 * Len(F)
  BY <1>1, <1>2
<1>4. P # {} => /\ Min(P) \in P /\ \A k \in P : Min(P) <= k
                /\ Max(P) \in P /\ \A k \in P : k <= Max(P)
  <2>1. 2 * Len(F) \in Nat
    BY <1>1
  <2> QED
    BY <1>3, <2>1, MinMax
<1>5. R # {} => /\ Min(R) \in R /\ \A k \in R : Min(R) <= k
                /\ Max(R) \in R /\ \A k \in R : k <= Max(R)
  BY <1>1, <1>3, MinMax
<1>6. R # {} => P # {} /\ Min(R) = Min(P) /\ Max(R) <= Max(P)
  <2> SUFFICES ASSUME R # {} PROVE P # {} /\ Min(R) = Min(P) /\ Max(R) <= Max(P)
    OBVIOUS
  <2>1. P # {} /\ Min(R) \in P /\ Max(R) \in P /\ Min(P) \in 1 .. 2 * Len(F)
    BY <1>3, <1>4, <1>5
  <2>2. Min(P) <= Min(R) /\ Min(R) <= N /\ Min(R) \in 1 .. N
    BY <1>3, <1>4, <1>5, <2>1
  <2>3. Min(P) \in R
    BY <1>1, <1>3, <1>4, <2>1, <2>2
  <2>4. Min(R) <= Min(P)
    BY <1>5, <2>3
  <2> QED
    BY <1>1, <1>4, <2>1, <2>2, <2>4
<1>7. Count(R) \in Nat /\ Count(P) \in Nat /\ Count(R) <= Count(P)
  <2>1. CASE R = {}
    <3>1. Count(P) \in Nat
      <4>1. CASE P = {}
        BY <4>1
      <4>2. CASE P # {}
        <5>1. /\ Max(P) \in 1 .. 2 * Len(F) /\ Min(P) \in 1 .. 2 * Len(F)
              /\ Min(P) <= Max(P)
          BY <1>3, <1>4, <4>2
        <5> QED
          BY <1>1, <4>2, <5>1
      <4> QED
        BY <4>1, <4>2
    <3> QED
      BY <2>1, <3>1
  <2>2. CASE R # {}
    <3>1. P # {} /\ Min(R) = Min(P) /\ Max(R) <= Max(P)
      BY <1>6, <2>2
    <3>2. /\ Max(P) \in 1 .. 2 * Len(F) /\ Min(P) \in 1 .. 2 * Len(F)
          /\ Max(R) \in 1 .. N /\ Min(P) <= Max(R)
      BY <1>3, <1>4, <1>5, <2>2, <3>1
    <3> QED
      BY <1>1, <2>2, <3>1, <3>2
  <2> QED
    BY <2>1, <2>2
<1>8. /\ Waypoints(text) = [i \in 1 .. Count(R) |-> Value(i)]
      /\ Waypoints(Pieces(F)) = [i \in 1 .. Count(P) |-> Value(i)]
  <2>1. Waypoints(Pieces(F)) = [i \in 1 .. Count(P) |-> Value(i)]
    <3>1. CASE P = {}
      BY <3>1 DEF Waypoints, P
    <3>2. CASE P # {}
      <4>1. /\ Max(P) \in 1 .. 2 * Len(F) /\ Min(P) \in 1 .. 2 * Len(F)
            /\ Min(P) <= Max(P)
        BY <1>3, <1>4, <3>2
      <4>2. \A i \in 1 .. (Max(P) - Min(P)) \div 2 + 1 :
              Min(P) + 2 * (i - 1) \in 1 .. 2 * Len(F)
        BY <1>1, <4>1
      <4>3. \A i \in 1 .. (Max(P) - Min(P)) \div 2 + 1 :
              FieldOf(Pieces(F)[Min(P) + 2 * (i - 1)]).value = Value(i)
        BY <1>2, <4>2
      <4> QED
        BY <3>2, <4>3 DEF Waypoints, P
    <3> QED
      BY <3>1, <3>2
  <2>2. Waypoints(text) = [i \in 1 .. Count(R) |-> Value(i)]
    <3>1. CASE R = {}
      BY <3>1 DEF Waypoints, R
    <3>2. CASE R # {}
      <4>1. /\ Max(R) \in 1 .. N /\ Min(R) \in 1 .. N
            /\ Min(R) <= Max(R) /\ Min(R) = Min(P)
        BY <1>3, <1>5, <1>6, <3>2
      <4>2. \A i \in 1 .. (Max(R) - Min(R)) \div 2 + 1 : Min(R) + 2 * (i - 1) \in 1 .. N
        BY <1>1, <4>1
      <4>3. \A i \in 1 .. (Max(R) - Min(R)) \div 2 + 1 :
              FieldOf(text[Min(R) + 2 * (i - 1)]).value = Value(i)
        BY <1>2, <4>1, <4>2
      <4> QED
        BY <3>2, <4>3 DEF Waypoints, R
    <3> QED
      BY <3>1, <3>2
  <2> QED
    BY <2>1, <2>2
<1> HIDE DEF Count, Value
<1>9. IsPrefix([i \in 1 .. Count(R) |-> Value(i)], [i \in 1 .. Count(P) |-> Value(i)])
  <2> DEFINE V == {Value(i) : i \in 1 .. Count(P)}
             r == [i \in 1 .. Count(R) |-> Value(i)]
             p == [i \in 1 .. Count(P) |-> Value(i)]
  <2>1. r \in Seq(V) /\ p \in Seq(V) /\ Len(r) = Count(R) /\ Len(p) = Count(P)
    BY <1>7
  <2>2. Len(r) \in 0 .. Len(r) /\ Len(r) \in 0 .. Len(p)
    BY <1>7, <2>1
  <2>3. SubSeq(r, 1, Len(r)) = [i \in 1 .. Len(r) |-> r[i]]
    BY <1>7, <2>1
  <2>4. SubSeq(p, 1, Len(r)) = [i \in 1 .. Len(r) |-> p[i]]
    BY <1>7, <2>1
  <2>5. \A i \in 1 .. Len(r) : r[i] = p[i]
    BY <1>7, <2>1
  <2> QED
    BY <1>7, <2>1, <2>3, <2>4, <2>5 DEF IsPrefix
<1> QED
  BY <1>8, <1>9

(* What the fields of a command that is read are.                          *)
LEMMA FieldsOf ==
  ASSUME NEW a, NEW b, NEW c, NEW d, NEW e, NEW r,
         r = [type |-> a, robotId |-> b, x |-> c, y |-> d, waypoints |-> e]
  PROVE  r.type = a /\ r.robotId = b /\ r.x = c /\ r.y = d /\ r.waypoints = e
OBVIOUS

LEMMA Parsed ==
  ASSUME NEW text, ~(Length(text) = 0 \/ text[1].at # 1 \/ IsKey(text[Length(text)]))
  PROVE  /\ ParseCommand(text).type = Get(text, "cmd", "")
         /\ ParseCommand(text).robotId = Get(text, "robot_id", NoRobot)
         /\ ParseCommand(text).x = Get(text, "x", 0)
         /\ ParseCommand(text).y = Get(text, "y", 0)
         /\ ParseCommand(text).waypoints = Waypoints(text)
<1>1. PICK a : a = Get(text, "cmd", "") OBVIOUS
<1>2. PICK b : b = Get(text, "robot_id", NoRobot) OBVIOUS
<1>3. PICK c : c = Get(text, "x", 0) OBVIOUS
<1>4. PICK d : d = Get(text, "y", 0) OBVIOUS
<1>5. PICK e : e = Waypoints(text) OBVIOUS
<1>6. PICK r : r = ParseCommand(text) OBVIOUS
<1>7. r = [type |-> a, robotId |-> b, x |-> c, y |-> d, waypoints |-> e]
  BY <1>1, <1>2, <1>3, <1>4, <1>5, <1>6 DEF ParseCommand
<1>8. r.type = a /\ r.robotId = b /\ r.x = c /\ r.y = d /\ r.waypoints = e
  BY <1>7, FieldsOf
<1> QED
  BY <1>1, <1>2, <1>3, <1>4, <1>5, <1>6, <1>8

(* What is obeyed of it stands for it.                                     *)
LEMMA ParseOf ==
  ASSUME NEW F \in Seq(Fields), WellFormed(F), NEW text, Begins(text, F),
         Obeys(ParseCommand(text))
  PROVE  StandsFor(ParseCommand(text), F)
<1>1. ~Obeys(Invalid)
  BY DEF Obeys, Invalid, ValidRobotId, NoRobot
<1>2. ~(Length(text) = 0 \/ text[1].at # 1 \/ IsKey(text[Length(text)]))
  BY <1>1 DEF ParseCommand
<1> DEFINE all == Pieces(F)
<1>3. Begins(all, F) /\ Length(all) = 2 * Len(F) /\ Len(F) \in Nat
  BY PiecesBegin, LengthOf
<1>4. Len(F) # 0
  BY <1>2, LengthOf, ShorterFacts
<1>5. ~(Length(all) = 0 \/ all[1].at # 1 \/ IsKey(all[Length(all)]))
  <2>1. \A i \in 1 .. 2 * Len(F) + 1 : all[i] = [of |-> F, at |-> i]
    BY DEF Pieces
  <2>2. all[1].at = 1 /\ all[2 * Len(F)].at = 2 * Len(F)
    <3>1. 1 \in 1 .. 2 * Len(F) + 1 /\ 2 * Len(F) \in 1 .. 2 * Len(F) + 1
      BY <1>3, <1>4
    <3> HIDE DEF all
    <3>2. all[1] = [of |-> F, at |-> 1]
      BY <2>1, <3>1
    <3>3. all[2 * Len(F)] = [of |-> F, at |-> 2 * Len(F)]
      BY <2>1, <3>1
    <3> QED
      BY <3>2, <3>3
  <2>3. ~IsKey(all[2 * Len(F)])
    BY <1>3, <2>2 DEF IsKey
  <2> QED
    BY <1>3, <1>4, <2>2, <2>3
<1> HIDE DEF all
<1>8. /\ Get(text, "cmd", "") \in {Get(all, "cmd", ""), ""}
      /\ Get(text, "robot_id", NoRobot) \in {Get(all, "robot_id", NoRobot), NoRobot}
      /\ Get(text, "x", 0) \in {Get(all, "x", 0), 0}
      /\ Get(text, "y", 0) \in {Get(all, "y", 0), 0}
  BY GetOf DEF all
<1>9. ~ValidRobotId(NoRobot)
  BY DEF ValidRobotId, NoRobot
<1>10. ParseCommand(text).type # ""
  BY DEF Obeys
<1>11. IsPrefix(Waypoints(text), Waypoints(all))
  BY WaypointsOf DEF all
<1>12. /\ ParseCommand(text).type = ParseCommand(all).type
       /\ ValidRobotId(ParseCommand(text).robotId) =>
            ParseCommand(text).robotId = ParseCommand(all).robotId
       /\ ParseCommand(text).x \in {ParseCommand(all).x, 0}
       /\ ParseCommand(text).y \in {ParseCommand(all).y, 0}
       /\ IsPrefix(ParseCommand(text).waypoints, ParseCommand(all).waypoints)
  <2>1. /\ ParseCommand(text).type = Get(text, "cmd", "")
        /\ ParseCommand(text).robotId = Get(text, "robot_id", NoRobot)
        /\ ParseCommand(text).x = Get(text, "x", 0)
        /\ ParseCommand(text).y = Get(text, "y", 0)
        /\ ParseCommand(text).waypoints = Waypoints(text)
    BY <1>2, Parsed
  <2>2. /\ ParseCommand(all).type = Get(all, "cmd", "")
        /\ ParseCommand(all).robotId = Get(all, "robot_id", NoRobot)
        /\ ParseCommand(all).x = Get(all, "x", 0)
        /\ ParseCommand(all).y = Get(all, "y", 0)
        /\ ParseCommand(all).waypoints = Waypoints(all)
    BY <1>5, Parsed
  <2> QED
    BY <1>8, <1>9, <1>10, <1>11, <2>1, <2>2
<1> QED
  BY <1>12 DEF StandsFor, all

-----------------------------------------------------------------------------
(* Streams: what was sent and not handled yet.  A place in the stream of a *)
(* client is a pair of a command and a piece of it.                        *)

Closing(c, n) == 2 * Len(Script[c][n]) + 1
Earlier(p, q) == p[1] < q[1] \/ (p[1] = q[1] /\ p[2] < q[2])
Before(s, t) == \A i \in DOMAIN s, j \in DOMAIN t : Earlier(s[i], t[j])

(* Of the first commands, in order, and without a gap within a command.    *)
Placed(c, s, number) ==
  \A i \in DOMAIN s : s[i][1] \in 1 .. number /\ s[i][2] \in 0 .. Closing(c, s[i][1])
InOrder(s) == \A i, j \in DOMAIN s : i < j => Earlier(s[i], s[j])
Gapless(c, s) ==
  \A i, j \in DOMAIN s : i <= j /\ s[i][2] + (j - i) <= Closing(c, s[i][1]) =>
    s[j] = <<s[i][1], s[i][2] + (j - i)>>
Orderly(c, s, number) == Placed(c, s, number) /\ InOrder(s) /\ Gapless(c, s)

EndsWith(s, place) == s # <<>> => s[Len(s)] = place

Stream(c) ==
  /\ Orderly(c, unread[c], sent[c])
  /\ EndsWith(unread[c], <<sent[c], Closing(c, sent[c])>>)
  /\ client[c] = "handle" =>
       Orderly(c, buf[c], sent[c]) /\ Before(buf[c], unread[c])

(* What was obeyed stands for commands that were sent, and any command     *)
(* whose first piece is still to be handled is a later one.                *)
Commanded == {ParseCommand(text) : text \in Seq([of : Seq(Fields), at : Nat])}
Later(which, s) ==
  \A i \in DOMAIN which, k \in DOMAIN s : s[k][2] = 1 => which[i] < s[k][1]
Stands(c, which, cmds) ==
  \A i \in DOMAIN cmds :
    /\ StandsFor(cmds[i], Script[c][which[i]])
    /\ \A j \in 1 .. i - 1 : which[j] < which[i]
Explains(c, which) ==
  /\ which \in [DOMAIN obeyed[c] -> 1 .. sent[c]]
  /\ Stands(c, which, obeyed[c])
  /\ Later(which, unread[c])
  /\ client[c] = "handle" => Later(which, buf[c])
Obedient(c) == \E which : Explains(c, which)

Told ==
  /\ obeyed \in [Clients -> Seq(Commanded)]
  /\ \A c \in Clients : Stream(c) /\ Obedient(c)

LEMMA ScriptType ==
  ASSUME NEW c \in Clients, NEW n \in 1 .. Len(Script[c])
  PROVE  /\ Script[c][n] \in Seq(Fields) /\ Closing(c, n) \in Nat
         /\ WellFormed(Script[c][n])
<1>1. Script[c] \in Seq(Seq(Fields)) /\ n \in DOMAIN Script[c]
  BY ServersAssumption
<1>2. Script[c][n] \in Seq(Fields)
  BY <1>1
<1> QED
  BY <1>1, <1>2, ServersAssumption DEF Closing

IsPart(p, s, a, b) ==
  /\ p = [i \in 1 .. b - a + 1 |-> s[a + i - 1]]
  /\ p \in Seq(Nat \X Nat) /\ Len(p) = b - a + 1

LEMMA PartIs ==
  ASSUME NEW s \in Seq(Nat \X Nat), NEW a \in 1 .. Len(s) + 1,
         NEW b \in (a - 1) .. Len(s), NEW p, p = SubSeq(s, a, b)
  PROVE  IsPart(p, s, a, b)
<1>1. p = [i \in 1 .. b - a + 1 |-> s[a + i - 1]]
  OBVIOUS
<1>2. b - a + 1 \in Nat /\ \A i \in 1 .. b - a + 1 : a + i - 1 \in 1 .. Len(s)
  OBVIOUS
<1>3. p \in [1 .. b - a + 1 -> Nat \X Nat]
  BY <1>1, <1>2
<1> QED
  BY <1>1, <1>2, <1>3 DEF IsPart

(* What a part of an orderly stream keeps.                                 *)
LEMMA PartOrderly ==
  ASSUME NEW c, NEW number, NEW s \in Seq(Nat \X Nat), Orderly(c, s, number),
         NEW a \in 1 .. Len(s) + 1, NEW b \in (a - 1) .. Len(s)
  PROVE  Orderly(c, SubSeq(s, a, b), number)
<1> DEFINE p == SubSeq(s, a, b)
<1>1. /\ DOMAIN s = 1 .. Len(s) /\ Len(s) \in Nat /\ a \in Nat /\ b \in Int
      /\ p = [i \in 1 .. b - a + 1 |-> s[a + i - 1]]
  BY PartIs DEF IsPart
<1> HIDE DEF p
<1>2. /\ DOMAIN p = 1 .. b - a + 1
      /\ \A i \in DOMAIN p : a + i - 1 \in DOMAIN s /\ p[i] = s[a + i - 1]
  BY <1>1
<1>3. \A i, j \in DOMAIN p : /\ (i < j => a + i - 1 < a + j - 1)
                             /\ (i <= j => a + i - 1 <= a + j - 1)
                             /\ (a + j - 1) - (a + i - 1) = j - i
  BY <1>1, <1>2
<1>4. Placed(c, p, number)
  BY <1>2 DEF Orderly, Placed
<1>5. InOrder(p)
  BY <1>2, <1>3 DEF Orderly, InOrder
<1>6. Gapless(c, p)
  <2> SUFFICES ASSUME NEW i \in DOMAIN p, NEW j \in DOMAIN p,
                      i <= j, p[i][2] + (j - i) <= Closing(c, p[i][1])
               PROVE  p[j] = <<p[i][1], p[i][2] + (j - i)>>
    BY DEF Gapless
  <2> DEFINE k == a + i - 1
             l == a + j - 1
  <2>1. k \in DOMAIN s /\ l \in DOMAIN s /\ k <= l /\ l - k = j - i
    BY <1>2, <1>3
  <2>2. p[i] = s[k] /\ p[j] = s[l]
    BY <1>2
  <2> HIDE DEF k, l
  <2>3. s[k][2] + (l - k) <= Closing(c, s[k][1])
    BY <2>1, <2>2
  <2>4. s[l] = <<s[k][1], s[k][2] + (l - k)>>
    BY <2>1, <2>3 DEF Orderly, Gapless
  <2> QED
    BY <2>1, <2>2, <2>4
<1> QED
  BY <1>4, <1>5, <1>6 DEF Orderly, p

(* A command that is written, as part of the stream.                       *)
LEMMA WrittenFacts ==
  ASSUME NEW c \in Clients, NEW n \in 1 .. Len(Script[c]), NEW w, w = Written(c, n)
  PROVE  /\ w \in Seq(Nat \X Nat) /\ w # <<>>
         /\ w[Len(w)] = <<n, Closing(c, n)>>
         /\ \A i \in DOMAIN w : w[i][1] = n /\ w[i][2] \in 0 .. Closing(c, n)
         /\ \A i, j \in DOMAIN w : w[j][2] = w[i][2] + (j - i) /\ w[j] = <<n, w[j][2]>>
<1> DEFINE first == IF c \in Browsers THEN 0 ELSE 1
           length == 2 * Len(Script[c][n]) + 2 - first
<1>1. first \in {0, 1} /\ Len(Script[c][n]) \in Nat
  BY ScriptType
<1>2. length \in Nat /\ length >= 1 /\ first + length - 1 = Closing(c, n)
  BY <1>1 DEF Closing
<1>3. w = [i \in 1 .. length |-> <<n, first + i - 1>>]
  BY DEF Written
<1> HIDE DEF first, length
<1>4. \A i \in 1 .. length : first + i - 1 \in 0 .. Closing(c, n) /\ first + i - 1 \in Nat
  BY <1>1, <1>2
<1>5. w \in Seq(Nat \X Nat) /\ Len(w) = length /\ DOMAIN w = 1 .. length
  BY <1>2, <1>3, <1>4
<1>6. \A i \in 1 .. length :
        w[i] = <<n, first + i - 1>> /\ w[i][1] = n /\ w[i][2] = first + i - 1
  BY <1>3
<1>7. \A i, j \in 1 .. length : w[j][2] = w[i][2] + (j - i) /\ w[j] = <<n, w[j][2]>>
  BY <1>1, <1>2, <1>6
<1>8. length \in 1 .. length /\ w # <<>>
  BY <1>2, <1>5
<1>9. w[length] = <<n, Closing(c, n)>>
  BY <1>2, <1>6, <1>8
<1>10. \A i \in DOMAIN w : w[i][1] = n /\ w[i][2] \in 0 .. Closing(c, n)
  BY <1>4, <1>5, <1>6
<1>11. \A i, j \in DOMAIN w : w[j][2] = w[i][2] + (j - i) /\ w[j] = <<n, w[j][2]>>
  BY <1>5, <1>7, Zenon
<1>12. w[Len(w)] = <<n, Closing(c, n)>>
  BY <1>5, <1>9, Zenon
<1> QED
  BY <1>5, <1>8, <1>10, <1>11, <1>12

LEMMA Nearer ==
  ASSUME NEW p \in Nat, NEW z \in Nat, NEW i \in Nat, NEW l \in Nat, NEW j \in Nat,
         i <= l, l < j, p + (j - i) <= z
  PROVE  p + (l - i) <= z /\ p + (l - i) # z
OBVIOUS

(* A stream goes on with the next command.                                 *)
LEMMA JoinOrderly ==
  ASSUME NEW c \in Clients, NEW m \in Nat, m + 1 \in 1 .. Len(Script[c]),
         NEW s \in Seq(Nat \X Nat), Orderly(c, s, m),
         EndsWith(s, <<m, Closing(c, m)>>)
  PROVE  /\ Orderly(c, s \o Written(c, m + 1), m + 1)
         /\ EndsWith(s \o Written(c, m + 1), <<m + 1, Closing(c, m + 1)>>)
<1> DEFINE w == Written(c, m + 1)
           u == s \o w
<1>1. /\ w \in Seq(Nat \X Nat) /\ w # <<>>
      /\ w[Len(w)] = <<m + 1, Closing(c, m + 1)>>
      /\ \A i \in DOMAIN w : w[i][1] = m + 1 /\ w[i][2] \in 0 .. Closing(c, m + 1)
      /\ \A i, j \in DOMAIN w : w[j][2] = w[i][2] + (j - i) /\ w[j] = <<m + 1, w[j][2]>>
  BY WrittenFacts
<1> HIDE DEF w
<1>2. PICK L \in Nat : L = Len(s)
  OBVIOUS
<1>3. /\ L \in Nat /\ Len(w) \in Nat /\ Len(w) >= 1
      /\ DOMAIN s = 1 .. L /\ DOMAIN w = 1 .. Len(w)
      /\ DOMAIN u = 1 .. L + Len(w) /\ Len(u) = L + Len(w)
      /\ \A i \in 1 .. L : u[i] = s[i]
      /\ \A i \in L + 1 .. L + Len(w) : u[i] = w[i - L]
  <2>1. L \in Nat /\ Len(w) \in Nat /\ Len(w) # 0
    BY <1>2, <1>1, EmptySeq
  <2> QED
    BY <1>2, <1>1, <2>1
<1>4. \A i \in DOMAIN u :
        \/ i \in DOMAIN s /\ u[i] = s[i]
        \/ i > L /\ i - L \in DOMAIN w /\ u[i] = w[i - L]
  BY <1>3
<1>5. \A i \in DOMAIN u, j \in DOMAIN s :
        i <= j => i \in DOMAIN s /\ u[i] = s[i]
  BY <1>3
<1>6. \A n \in 1 .. m + 1 : Closing(c, n) \in Nat
  <2>1. \A n \in 1 .. m + 1 : n \in 1 .. Len(Script[c])
    OBVIOUS
  <2> QED
    BY <2>1, ScriptType
<1> HIDE DEF u
<1>7. Placed(c, u, m + 1)
  <2> SUFFICES ASSUME NEW i \in DOMAIN u
               PROVE  u[i][1] \in 1 .. m + 1 /\ u[i][2] \in 0 .. Closing(c, u[i][1])
    BY DEF Placed
  <2>1. CASE i \in DOMAIN s /\ u[i] = s[i]
    BY <2>1 DEF Orderly, Placed
  <2>2. CASE i - L \in DOMAIN w /\ u[i] = w[i - L]
    <3>1. u[i][1] = m + 1 /\ u[i][2] \in 0 .. Closing(c, m + 1)
      BY <1>1, <2>2
    <3> QED
      BY <3>1
  <2> QED
    BY <1>4, <2>1, <2>2
<1>8. InOrder(u)
  <2> SUFFICES ASSUME NEW i \in DOMAIN u, NEW j \in DOMAIN u, i < j
               PROVE  Earlier(u[i], u[j])
    BY DEF InOrder
  <2>1. CASE j \in DOMAIN s /\ u[j] = s[j]
    <3>1. i <= j
      BY <1>3
    <3>2. i \in DOMAIN s /\ u[i] = s[i]
      BY <1>5, <2>1, <3>1
    <3> QED
      BY <2>1, <3>2 DEF Orderly, InOrder
  <2>2. CASE i \in DOMAIN s /\ u[i] = s[i] /\ j - L \in DOMAIN w /\ u[j] = w[j - L]
    <3>1. s[i][1] \in 1 .. m
      BY <2>2 DEF Orderly, Placed
    <3>2. u[j][1] = m + 1
      BY <1>1, <2>2
    <3> QED
      BY <2>2, <3>1, <3>2 DEF Earlier
  <2>3. CASE /\ i > L /\ i - L \in DOMAIN w /\ u[i] = w[i - L]
             /\ j > L /\ j - L \in DOMAIN w /\ u[j] = w[j - L]
    <3>1. u[i][1] = m + 1 /\ u[j][1] = m + 1
      BY <1>1, <2>3
    <3>2. u[j][2] = u[i][2] + ((j - L) - (i - L)) /\ u[i][2] \in Nat
      BY <1>1, <1>6, <2>3
    <3>3. (j - L) - (i - L) > 0
      BY <1>3
    <3>4. u[i][2] < u[j][2]
      BY <1>3, <3>2, <3>3
    <3> QED
      BY <3>1, <3>4 DEF Earlier
  <2> QED
    BY <1>4, <2>1, <2>2, <2>3
<1>9. Gapless(c, u)
  <2> SUFFICES ASSUME NEW i \in DOMAIN u, NEW j \in DOMAIN u, i <= j,
                      u[i][2] + (j - i) <= Closing(c, u[i][1])
               PROVE  u[j] = <<u[i][1], u[i][2] + (j - i)>>
    BY DEF Gapless
  <2>1. CASE j \in DOMAIN s /\ u[j] = s[j]
    <3>1. i \in DOMAIN s /\ u[i] = s[i]
      BY <1>5, <2>1
    <3> QED
      BY <2>1, <3>1 DEF Orderly, Gapless
  <2>2. CASE i \in DOMAIN s /\ u[i] = s[i] /\ j > L
    <3>1. /\ L \in DOMAIN s /\ i <= L /\ s # <<>>
          /\ i \in Nat /\ j \in Nat
      BY <1>3, <2>2
    <3>2. s[i][1] \in 1 .. m /\ s[i][2] \in 0 .. Closing(c, s[i][1])
      BY <2>2 DEF Orderly, Placed
    <3>3. PICK p \in Nat, z \in Nat : p = s[i][2] /\ z = Closing(c, s[i][1])
      BY <1>6, <3>2
    <3>4. p + (j - i) <= z
      BY <2>2, <3>3
    <3>5. p + (L - i) <= z /\ p + (L - i) # z
      BY <2>2, <3>1, <3>4, Nearer
    <3>6. s[L] = <<s[i][1], p + (L - i)>>
      BY <2>2, <3>1, <3>3, <3>5 DEF Orderly, Gapless
    <3>7. s[L] = <<m, Closing(c, m)>>
      BY <1>2, <3>1 DEF EndsWith
    <3>8. s[i][1] = m /\ p + (L - i) = Closing(c, m)
      BY <3>6, <3>7
    <3> QED
      BY <3>3, <3>5, <3>8
  <2>3. CASE /\ i > L /\ i - L \in DOMAIN w /\ u[i] = w[i - L]
             /\ j > L /\ j - L \in DOMAIN w /\ u[j] = w[j - L]
    <3>1. u[j][2] = u[i][2] + ((j - L) - (i - L)) /\ u[j] = <<m + 1, u[j][2]>>
      BY <1>1, <2>3
    <3>2. (j - L) - (i - L) = j - i
      BY <1>3
    <3>3. u[i][1] = m + 1
      BY <1>1, <2>3
    <3> QED
      BY <3>1, <3>2, <3>3
  <2> QED
    BY <1>3, <1>4, <2>1, <2>2, <2>3
<1>10. EndsWith(u, <<m + 1, Closing(c, m + 1)>>)
  <2>1. Len(u) \in L + 1 .. L + Len(w) /\ Len(u) - L = Len(w)
    BY <1>3
  <2>2. u[Len(u)] = w[Len(w)]
    BY <1>3, <2>1 DEF u
  <2> QED
    BY <1>1, <2>2 DEF EndsWith
<1> QED
  BY <1>7, <1>8, <1>9, <1>10 DEF Orderly, u, w

-----------------------------------------------------------------------------
(* Told, step by step.                                                     *)

LEMMA InitTold == ASSUME Init PROVE Told
<1>0. obeyed \in [Clients -> Seq(Commanded)]
  BY DEF Init
<1> SUFFICES ASSUME NEW c \in Clients PROVE Stream(c) /\ Obedient(c)
  BY <1>0 DEF Told
<1>1. unread[c] = <<>> /\ obeyed[c] = <<>> /\ client[c] # "handle"
  BY DEF Init
<1>2. DOMAIN <<>> = {} /\ <<>> \in Seq(Commanded)
  BY EmptySeq
<1>3. Stream(c)
  BY <1>1, <1>2 DEF Stream, Orderly, Placed, InOrder, Gapless, EndsWith
<1>4. Obedient(c)
  <2> DEFINE which == [i \in {} |-> 0]
  <2>1. which \in [DOMAIN obeyed[c] -> 1 .. sent[c]] /\ DOMAIN which = {}
    BY <1>1, <1>2
  <2> HIDE DEF which
  <2>2. Explains(c, which)
    BY <1>1, <1>2, <2>1 DEF Explains, Stands, Later
  <2> QED
    BY <2>2 DEF Obedient
<1> QED
  BY <1>3, <1>4

(* A client whose stream and history stay, and whose connection does not   *)
(* just receive.                                                           *)
Kept(c) ==
  /\ unread'[c] = unread[c] /\ buf'[c] = buf[c]
  /\ sent'[c] = sent[c] /\ obeyed'[c] = obeyed[c]
  /\ client'[c] = "handle" => client[c] = "handle"

LEMMA KeptTold ==
  ASSUME NEW c \in Clients, Stream(c), Obedient(c), Kept(c)
  PROVE  Stream(c)' /\ Obedient(c)'
<1>1. Stream(c)'
  BY DEF Stream, Orderly, Placed, InOrder, Gapless, EndsWith, Before, Kept
<1>2. PICK which : Explains(c, which)
  BY DEF Obedient
<1>3. Explains(c, which)'
  BY <1>2 DEF Explains, Stands, Later, Kept
<1> QED
  BY <1>1, <1>3 DEF Obedient

(* Whatever starts and stops servers, accepts, connects or closes.         *)
LEMMA ElsewhereTold ==
  ASSUME Inv, Told, UNCHANGED <<stream, history>>,
         \A c \in Clients : client'[c] = "handle" => client[c] = "handle"
  PROVE  Told'
<1>1. \A c \in Clients : Kept(c)
  BY DEF Kept, stream, history
<1> QED
  BY <1>1, KeptTold DEF Told, history

LEMMA ServersTold ==
  ASSUME Inv, Told,
         Main \/ Interrupt \/ \E s \in Servers : AcceptThread(s)
  PROVE  Told'
<1>1. UNCHANGED <<stream, history>>
  BY DEF Main, Start, StartFails, Stop, Close, Join, Interrupt,
         AcceptThread, AcceptLoop, Accept, Returned
<1>2. CASE Main \/ Interrupt
  <2>1. UNCHANGED client
    BY <1>2 DEF Main, Start, StartFails, Stop, Close, Join, Interrupt
  <2> QED
    BY <1>1, <2>1, ElsewhereTold
<1>3. ASSUME NEW s \in Servers, AcceptThread(s)
      PROVE  \A c \in Clients : client'[c] = "handle" => client[c] = "handle"
  BY <1>3 DEF AcceptThread, AcceptLoop, Accept, Returned, Client, Inv, Sorts
<1> QED
  BY <1>1, <1>2, <1>3, ElsewhereTold

LEMMA TurnsTold ==
  ASSUME Inv, Told, NEW c \in Clients,
         ConnectionLoop(c) \/ Answer(c) \/ Connect(c) \/ Leave(c)
  PROVE  Told'
<1>1. UNCHANGED <<stream, history>>
  BY DEF ConnectionLoop, Answer, Connect, Leave
<1>2. \A d \in Clients : client'[d] = "handle" => client[d] = "handle"
  BY DEF ConnectionLoop, Answer, AfterAnswer, Connect, Leave, Client, Inv, Sorts
<1> QED
  BY <1>1, <1>2, ElsewhereTold

LEMMA SendTold ==
  ASSUME Inv, Told, NEW c \in Clients, Send(c)
  PROVE  Told'
<1>1. /\ client[c] = "recv" /\ sent[c] < Len(Script[c])
      /\ sent' = [sent EXCEPT ![c] = @ + 1]
      /\ unread' = [unread EXCEPT ![c] = @ \o Written(c, sent'[c])]
      /\ UNCHANGED <<client, buf, obeyed>>
  BY DEF Send, history
<1> DEFINE m == sent[c]
           w == Written(c, m + 1)
<1>2. /\ m \in Nat /\ Len(Script[c]) \in Nat /\ m + 1 \in 1 .. Len(Script[c])
      /\ sent'[c] = m + 1 /\ unread'[c] = unread[c] \o w
  <2>1. m \in Nat /\ sent'[c] = m + 1
    BY <1>1 DEF Inv, Sorts
  <2>2. Len(Script[c]) \in Nat
    BY ServersAssumption
  <2>3. unread'[c] = unread[c] \o w
    BY <1>1, <2>1 DEF Inv, Sorts
  <2> HIDE DEF m, w
  <2>4. m + 1 \in 1 .. Len(Script[c])
    BY <1>1, <2>1, <2>2 DEF m
  <2> QED
    BY <2>1, <2>2, <2>3, <2>4
<1>3. unread[c] \in Seq(Nat \X Nat)
  BY DEF Inv, Sorts
<1>4. \A d \in Clients : d # c => Kept(d)
  BY <1>1 DEF Kept, Inv, Sorts
<1>5. Stream(c)'
  <2> HIDE DEF m, w
  <2>1. Orderly(c, unread[c], m) /\ EndsWith(unread[c], <<m, Closing(c, m)>>)
    BY DEF Told, Stream, m
  <2>2. /\ Orderly(c, unread[c] \o w, m + 1)
        /\ EndsWith(unread[c] \o w, <<m + 1, Closing(c, m + 1)>>)
    BY <1>2, <1>3, <2>1, JoinOrderly DEF w
  <2>3. client'[c] # "handle"
    BY <1>1
  <2> QED
    BY <1>2, <2>2, <2>3 DEF Stream, Orderly, Placed, InOrder, Gapless, EndsWith, Closing
<1>6. Obedient(c)'
  <2>1. PICK which : Explains(c, which)
    BY DEF Told, Obedient
  <2>2. which \in [DOMAIN obeyed'[c] -> 1 .. sent'[c]]
    BY <1>1, <1>2, <2>1 DEF Explains
  <2>3. Stands(c, which, obeyed'[c])
    BY <1>1, <2>1 DEF Explains
  <2>4. Later(which, unread'[c])
    <3>1. w \in Seq(Nat \X Nat) /\ \A k \in DOMAIN w : w[k][1] = m + 1
      BY <1>2, WrittenFacts
    <3> HIDE DEF w, m
    <3>2. \A k \in DOMAIN unread'[c] :
            \/ k \in DOMAIN unread[c] /\ unread'[c][k] = unread[c][k]
            \/ unread'[c][k][1] = m + 1
      <4>1. /\ DOMAIN unread'[c] = 1 .. Len(unread[c]) + Len(w)
            /\ Len(unread[c]) \in Nat /\ Len(w) \in Nat
            /\ DOMAIN unread[c] = 1 .. Len(unread[c]) /\ DOMAIN w = 1 .. Len(w)
            /\ \A k \in 1 .. Len(unread[c]) : unread'[c][k] = unread[c][k]
            /\ \A k \in Len(unread[c]) + 1 .. Len(unread[c]) + Len(w) :
                 unread'[c][k] = w[k - Len(unread[c])]
        BY <1>2, <1>3, <3>1
      <4> TAKE k \in DOMAIN unread'[c]
      <4>2. CASE k <= Len(unread[c])
        BY <4>1, <4>2
      <4>3. CASE k > Len(unread[c])
        <5>1. unread'[c][k] = w[k - Len(unread[c])] /\ k - Len(unread[c]) \in DOMAIN w
          BY <4>1, <4>3
        <5> QED
          BY <3>1, <5>1
      <4> QED
        BY <4>1, <4>2, <4>3
    <3>3. \A i \in DOMAIN which : which[i] < m + 1
      BY <1>2, <2>1 DEF Explains, m
    <3> QED
      BY <2>1, <3>2, <3>3 DEF Explains, Later
  <2>5. Explains(c, which)'
    BY <1>1, <2>2, <2>3, <2>4 DEF Explains, Stands, Later
  <2> QED
    BY <2>5 DEF Obedient
<1> QED
  BY <1>1, <1>4, <1>5, <1>6, KeptTold DEF Told

LEMMA Shift ==
  ASSUME NEW n \in Nat, NEW L \in Nat, NEW i \in 1 .. L - n
  PROVE  n + 1 + i - 1 = i + n /\ i + n \in 1 .. L /\ i + n > n
OBVIOUS

LEMMA RestFacts ==
  ASSUME NEW s \in Seq(Nat \X Nat), NEW n \in 1 .. Len(s),
         NEW t, t = SubSeq(s, n + 1, Len(s))
  PROVE  /\ Len(t) = Len(s) - n
         /\ \A i \in DOMAIN t : i + n \in DOMAIN s /\ i + n > n /\ t[i] = s[i + n]
         /\ t # <<>> => Len(s) - n \in DOMAIN t
<1>1. PICK L \in Nat : L = Len(s) /\ DOMAIN s = 1 .. L
  OBVIOUS
<1>2. n \in Nat /\ n <= L
  BY <1>1
<1>3. PICK a \in 1 .. Len(s) + 1 : a = n + 1
  BY <1>1, <1>2
<1>4. /\ Len(s) \in (a - 1) .. Len(s)
      /\ t = SubSeq(s, a, Len(s))
  BY <1>1, <1>2, <1>3
<1>5. IsPart(t, s, a, Len(s))
  BY <1>4, PartIs
<1>6. Len(s) - a + 1 = L - n /\ L - n \in Nat
  BY <1>1, <1>2, <1>3
<1>7. DOMAIN t = 1 .. L - n /\ \A i \in 1 .. L - n : t[i] = s[a + i - 1]
  BY <1>5, <1>6, Zenon DEF IsPart
<1>8. ASSUME NEW i \in DOMAIN t
      PROVE  i + n \in DOMAIN s /\ i + n > n /\ t[i] = s[i + n]
  <2>1. i \in 1 .. L - n
    BY <1>7
  <2>2. a + i - 1 = i + n /\ i + n \in 1 .. L /\ i + n > n
    BY <1>2, <1>3, <2>1, Shift
  <2> QED
    BY <1>1, <1>7, <2>1, <2>2
<1>9. t # <<>> => L - n \in DOMAIN t
  <2>1. t # <<>> => L - n # 0
    BY <1>5, <1>6, EmptySeq DEF IsPart
  <2> QED
    BY <1>6, <1>7, <2>1
<1> QED
  BY <1>1, <1>5, <1>6, <1>8, <1>9 DEF IsPart

LEMMA ReceiveTold ==
  ASSUME Inv, Told, NEW c \in Clients, Receive(c)
  PROVE  Told'
<1>1. /\ client[c] = "recv" /\ Client(c, "handle") /\ UNCHANGED <<sent, obeyed>>
  BY DEF Receive, history
<1>2. PICK n \in DOMAIN unread[c] :
        /\ buf' = [buf EXCEPT ![c] = SubSeq(unread[c], 1, n)]
        /\ unread' = [unread EXCEPT ![c] = SubSeq(@, n + 1, Len(@))]
  BY DEF Receive, Terminated
<1>3. PICK s : s = unread[c]
  OBVIOUS
<1>4. s \in Seq(Nat \X Nat) /\ n \in 1 .. Len(s) /\ Len(s) \in Nat /\ DOMAIN s = 1 .. Len(s)
  BY <1>2, <1>3 DEF Inv, Sorts
<1>5. buf'[c] = SubSeq(s, 1, n) /\ unread'[c] = SubSeq(s, n + 1, Len(s))
  BY <1>2, <1>3 DEF Inv, Sorts
<1>6. /\ DOMAIN buf'[c] = 1 .. n
      /\ \A i \in DOMAIN buf'[c] : i \in DOMAIN s /\ i <= n /\ buf'[c][i] = s[i]
  <2>1. buf'[c] = [i \in 1 .. n |-> s[i]]
    BY <1>4, <1>5
  <2> QED
    BY <1>4, <2>1
<1>7. /\ Len(unread'[c]) = Len(s) - n
      /\ \A i \in DOMAIN unread'[c] :
           i + n \in DOMAIN s /\ i + n > n /\ unread'[c][i] = s[i + n]
      /\ unread'[c] # <<>> => Len(s) - n \in DOMAIN unread'[c]
  BY <1>4, <1>5, RestFacts
<1>8. \A d \in Clients : d # c => Kept(d)
  BY <1>1, <1>2 DEF Kept, Client, Inv, Sorts
<1>9. Orderly(c, s, sent[c]) /\ EndsWith(s, <<sent[c], Closing(c, sent[c])>>)
  BY <1>3 DEF Told, Stream
<1>10. Orderly(c, buf'[c], sent[c]) /\ Orderly(c, unread'[c], sent[c])
  <2>1. 1 \in 1 .. Len(s) + 1 /\ n \in 1 - 1 .. Len(s)
    BY <1>4
  <2>2. n + 1 \in 1 .. Len(s) + 1 /\ Len(s) \in n + 1 - 1 .. Len(s)
    BY <1>4
  <2>3. Orderly(c, SubSeq(s, 1, n), sent[c])
    BY <1>4, <1>9, <2>1, PartOrderly
  <2>4. Orderly(c, SubSeq(s, n + 1, Len(s)), sent[c])
    BY <1>4, <1>9, <2>2, PartOrderly
  <2> QED
    BY <1>5, <2>3, <2>4
<1>11. EndsWith(unread'[c], <<sent[c], Closing(c, sent[c])>>)
  <2> SUFFICES ASSUME unread'[c] # <<>>
               PROVE  unread'[c][Len(unread'[c])] = <<sent[c], Closing(c, sent[c])>>
    BY DEF EndsWith
  <2>1. Len(s) - n \in DOMAIN unread'[c] /\ (Len(s) - n) + n = Len(s)
    BY <1>4, <1>7
  <2>2. unread'[c][Len(unread'[c])] = s[Len(s)]
    BY <1>7, <2>1
  <2>3. s # <<>>
    BY <1>4
  <2> QED
    BY <1>9, <2>2, <2>3 DEF EndsWith
<1>12. Before(buf'[c], unread'[c])
  <2> SUFFICES ASSUME NEW i \in DOMAIN buf'[c], NEW j \in DOMAIN unread'[c]
               PROVE  Earlier(buf'[c][i], unread'[c][j])
    BY DEF Before
  <2>1. i \in DOMAIN s /\ i <= n /\ buf'[c][i] = s[i]
    BY <1>6
  <2>2. j + n \in DOMAIN s /\ j + n > n /\ unread'[c][j] = s[j + n]
    BY <1>7
  <2>3. i < j + n
    BY <1>4, <2>1, <2>2
  <2> QED
    BY <1>9, <2>1, <2>2, <2>3 DEF Orderly, InOrder
<1>13. Stream(c)'
  BY <1>1, <1>10, <1>11, <1>12
     DEF Stream, Orderly, Placed, InOrder, Gapless, EndsWith, Before, Closing
<1>14. Obedient(c)'
  <2>1. PICK which : Explains(c, which)
    BY DEF Told, Obedient
  <2>2. Later(which, s)
    BY <1>3, <2>1 DEF Explains
  <2>3. Later(which, buf'[c])
    BY <1>6, <2>2 DEF Later
  <2>4. Later(which, unread'[c])
    BY <1>7, <2>2 DEF Later
  <2>5. Explains(c, which)'
    BY <1>1, <2>1, <2>3, <2>4 DEF Explains, Stands, Later
  <2> QED
    BY <2>5 DEF Obedient
<1> QED
  BY <1>1, <1>8, <1>13, <1>14, KeptTold DEF Told

(* What is handled: all that was received, or without the request's head.  *)
Skipped(c) == IF c \in TcpClients THEN 0 ELSE 1

LEMMA TextFacts ==
  ASSUME Inv, NEW c \in Clients, client[c] = "handle", Stream(c),
         NEW text, text = Text(c)
  PROVE  /\ text \in Seq([of : Seq(Fields), at : Nat])
         /\ \A i \in 1 .. Len(text) :
              /\ i + Skipped(c) \in DOMAIN buf[c]
              /\ text[i] = [of |-> Script[c][buf[c][i + Skipped(c)][1]],
                            at |-> buf[c][i + Skipped(c)][2]]
<1> DEFINE E == [of : Seq(Fields), at : Nat]
           got == [i \in DOMAIN buf[c] |->
                     [of |-> Script[c][buf[c][i][1]], at |-> buf[c][i][2]]]
<1>1. PICK B \in Nat : B = Len(buf[c]) /\ DOMAIN buf[c] = 1 .. B /\ B # 0
  <2>1. buf[c] \in Seq(Nat \X Nat) /\ buf[c] # <<>>
    BY DEF Inv, Sorts, Flow
  <2>2. Len(buf[c]) \in Nat /\ DOMAIN buf[c] = 1 .. Len(buf[c]) /\ Len(buf[c]) # 0
    BY <2>1, EmptySeq
  <2> QED
    BY <2>2
<1>2. \A i \in DOMAIN buf[c] : got[i] \in E
  <2> SUFFICES ASSUME NEW i \in DOMAIN buf[c] PROVE got[i] \in E
    OBVIOUS
  <2>1. buf[c][i] \in Nat \X Nat
    BY <1>1 DEF Inv, Sorts
  <2>2. buf[c][i][1] \in 1 .. sent[c]
    BY DEF Stream, Orderly, Placed
  <2>3. sent[c] \in Nat /\ sent[c] <= Len(Script[c]) /\ Len(Script[c]) \in Nat
    BY ServersAssumption DEF Inv, Sorts, Flow
  <2>4. buf[c][i][1] \in 1 .. Len(Script[c])
    BY <2>2, <2>3
  <2>5. Script[c][buf[c][i][1]] \in Seq(Fields)
    BY <2>4, ScriptType
  <2> QED
    BY <2>1, <2>5
<1> HIDE DEF E
<1>3. DOMAIN got = 1 .. B
  BY <1>1
<1>4. \A i \in 1 .. B :
        got[i] = [of |-> Script[c][buf[c][i][1]], at |-> buf[c][i][2]]
  BY <1>1
<1>5. text = IF c \in TcpClients THEN got ELSE Tail(got)
  BY DEF Text
<1>6. got = [i \in 1 .. B |-> got[i]]
  BY <1>1, <1>3
<1> HIDE DEF got
<1>7. got \in Seq(E) /\ Len(got) = B
  <2>1. got \in [1 .. B -> E]
    BY <1>1, <1>2, <1>6
  <2> QED
    BY <1>1, <2>1
<1>8. CASE c \in TcpClients
  <2>1. text = got /\ Skipped(c) = 0
    BY <1>5, <1>8 DEF Skipped
  <2>2. \A i \in 1 .. B : i + 0 = i
    OBVIOUS
  <2> QED
    BY <1>1, <1>4, <1>7, <2>1, <2>2 DEF E
<1>9. CASE c \notin TcpClients
  <2>1. text = Tail(got) /\ Skipped(c) = 1
    BY <1>5, <1>9 DEF Skipped
  <2>2. /\ text \in Seq(E) /\ Len(text) = B - 1
        /\ \A i \in 1 .. B - 1 : text[i] = got[i + 1]
    BY <1>1, <1>7, <2>1
  <2>3. \A i \in 1 .. B - 1 : i + 1 \in 1 .. B
    OBVIOUS
  <2> QED
    BY <1>1, <1>4, <2>1, <2>2, <2>3 DEF E
<1> QED
  BY <1>8, <1>9

(* A text that is obeyed begins with the first piece of a command, and     *)
(* goes on with that command without a gap: it stands for it.              *)
LEMMA HandledText ==
  ASSUME Inv, NEW c \in Clients, client[c] = "handle", Stream(c),
         NEW text, text = Text(c), Obeys(ParseCommand(text))
  PROVE  \E k \in DOMAIN buf[c] :
           /\ buf[c][k][1] \in 1 .. sent[c] /\ buf[c][k][2] = 1
           /\ StandsFor(ParseCommand(text), Script[c][buf[c][k][1]])
<1> DEFINE o == Skipped(c)
           k == 1 + o
           n == buf[c][k][1]
<1>1. o \in {0, 1}
  BY DEF Skipped
<1>2. /\ text \in Seq([of : Seq(Fields), at : Nat])
      /\ \A i \in 1 .. Len(text) :
           /\ i + o \in DOMAIN buf[c]
           /\ text[i] = [of |-> Script[c][buf[c][i + o][1]], at |-> buf[c][i + o][2]]
  BY TextFacts
<1> HIDE DEF o
<1>3. ~Obeys(Invalid)
  BY DEF Obeys, Invalid, ValidRobotId, NoRobot
<1>4. Length(text) # 0 /\ text[1].at = 1
  BY <1>3 DEF ParseCommand
<1>5. Len(text) \in Nat /\ Len(text) # 0 /\ DOMAIN text = 1 .. Len(text)
  <2>1. Len(text) \in Nat /\ DOMAIN text = 1 .. Len(text)
    BY <1>2
  <2>2. Len(text) = 0 => Length(text) = 0
    <3> SUFFICES ASSUME Len(text) = 0 PROVE Length(text) = 0
      OBVIOUS
    <3>1. DOMAIN text = {}
      BY <2>1
    <3> QED
      BY <3>1 DEF Length
  <2> QED
    BY <1>4, <2>1, <2>2
<1>6. 1 \in 1 .. Len(text) /\ k \in DOMAIN buf[c]
  BY <1>2, <1>5
<1>7. text[1] = [of |-> Script[c][n], at |-> buf[c][k][2]]
  BY <1>2, <1>6
<1>8. buf[c][k][2] = 1
  BY <1>4, <1>7
<1> HIDE DEF k
<1>9. n \in 1 .. sent[c] /\ n \in 1 .. Len(Script[c])
  <2>1. n \in 1 .. sent[c]
    BY <1>6 DEF Stream, Orderly, Placed
  <2>2. sent[c] \in Nat /\ sent[c] <= Len(Script[c]) /\ Len(Script[c]) \in Nat
    BY ServersAssumption DEF Inv, Sorts, Flow
  <2> QED
    BY <2>1, <2>2
<1> HIDE DEF n
<1>10. PICK F : F = Script[c][n]
  OBVIOUS
<1>11. F \in Seq(Fields) /\ WellFormed(F) /\ Closing(c, n) = 2 * Len(F) + 1 /\ Len(F) \in Nat
  <2>1. F \in Seq(Fields) /\ WellFormed(F)
    BY <1>9, <1>10, ScriptType
  <2> QED
    BY <1>10, <2>1 DEF Closing
<1>12. ASSUME NEW i \in 1 .. Len(text), i <= 2 * Len(F) + 1
       PROVE  text[i] = [of |-> F, at |-> i]
  <2>1. i + o \in DOMAIN buf[c]
    BY <1>2
  <2>2. k <= i + o /\ (i + o) - k = i - 1 /\ 1 + (i - 1) = i
    BY <1>1 DEF k
  <2>3. buf[c][k][2] + ((i + o) - k) <= Closing(c, buf[c][k][1])
    BY <1>8, <1>11, <1>12, <2>2 DEF n
  <2>4. buf[c][i + o] = <<buf[c][k][1], buf[c][k][2] + ((i + o) - k)>>
    BY <1>6, <2>1, <2>2, <2>3 DEF Stream, Orderly, Gapless
  <2>5. buf[c][i + o] = <<n, i>>
    BY <1>8, <2>2, <2>4 DEF n
  <2>6. text[i] = [of |-> Script[c][buf[c][i + o][1]], at |-> buf[c][i + o][2]]
    BY <1>2
  <2> QED
    BY <1>10, <2>5, <2>6
<1>13. Begins(text, F)
  BY <1>5, <1>12 DEF Begins
<1>14. StandsFor(ParseCommand(text), F)
  BY <1>11, <1>13, ParseOf
<1> QED
  BY <1>6, <1>8, <1>9, <1>10, <1>14 DEF n

LEMMA HandleTold ==
  ASSUME Inv, Told, NEW c \in Clients, Handle(c)
  PROVE  Told'
<1>1. /\ client[c] = "handle" /\ Client(c, "send") /\ UNCHANGED <<sent, unread, buf>>
  BY DEF Handle, stream
<1>2. PICK text : text = Text(c)
  OBVIOUS
<1>3. PICK cmd : cmd = ParseCommand(text)
  OBVIOUS
<1>4. obeyed' = IF Obeys(cmd) THEN [obeyed EXCEPT ![c] = Append(@, cmd)] ELSE obeyed
  BY <1>2, <1>3 DEF Handle
<1>5. /\ sent[c] \in Nat /\ obeyed \in [Clients -> Seq(Commanded)]
      /\ client' = [client EXCEPT ![c] = "send"] /\ c \in DOMAIN client
  BY <1>1 DEF Client, Told, Inv, Sorts
<1>6. \A d \in Clients : d # c => Kept(d)
  BY <1>1, <1>4, <1>5 DEF Kept, Inv, Sorts
<1>7. client'[c] # "handle"
  BY <1>5
<1>8. Stream(c)'
  BY <1>1, <1>7 DEF Told, Stream, Orderly, Placed, InOrder, Gapless, EndsWith
<1>9. PICK which : Explains(c, which)
  BY DEF Told, Obedient
<1>10. CASE ~Obeys(cmd)
  <2>1. Kept(c)
    BY <1>1, <1>4, <1>7, <1>10 DEF Kept
  <2> QED
    BY <1>4, <1>6, <1>10, <2>1, KeptTold DEF Told
<1>11. CASE Obeys(cmd)
  <2>1. PICK old \in Seq(Commanded) : old = obeyed[c]
    BY <1>5
  <2>2. obeyed'[c] = Append(old, cmd)
    BY <1>4, <1>5, <1>11, <2>1
  <2>3. cmd \in Commanded
    BY <1>1, <1>2, <1>3, TextFacts DEF Commanded, Told
  <2>4. PICK L \in Nat :
          /\ L = Len(old) /\ DOMAIN old = 1 .. L
          /\ DOMAIN obeyed'[c] = 1 .. L + 1
          /\ obeyed'[c] \in Seq(Commanded)
          /\ obeyed'[c][L + 1] = cmd
          /\ \A i \in 1 .. L : obeyed'[c][i] = old[i]
    <3>1. PICK L \in Nat : L = Len(old) /\ DOMAIN old = 1 .. L
      BY <2>1
    <3>2. /\ obeyed'[c] \in Seq(Commanded)
          /\ Len(obeyed'[c]) = L + 1
          /\ obeyed'[c][L + 1] = cmd
          /\ \A i \in 1 .. L : obeyed'[c][i] = old[i]
      BY <2>2, <2>3, <3>1, AppendProperties
    <3>3. DOMAIN obeyed'[c] = 1 .. L + 1
      BY <3>2, LenProperties
    <3> QED
      BY <3>1, <3>2, <3>3
  <2>5. PICK k \in DOMAIN buf[c] :
          /\ buf[c][k][1] \in 1 .. sent[c] /\ buf[c][k][2] = 1
          /\ StandsFor(cmd, Script[c][buf[c][k][1]])
    BY <1>1, <1>2, <1>3, <1>11, HandledText DEF Told
  <2>6. PICK n : n = buf[c][k][1]
    OBVIOUS
  <2>7. \A i \in 1 .. L : which[i] \in 1 .. sent[c] /\ which[i] < n
    BY <1>1, <1>9, <2>1, <2>4, <2>5, <2>6 DEF Explains, Later
  <2>8. \A j \in DOMAIN unread[c] : unread[c][j][2] = 1 => n < unread[c][j][1]
    <3> SUFFICES ASSUME NEW j \in DOMAIN unread[c], unread[c][j][2] = 1
                 PROVE  n < unread[c][j][1]
      OBVIOUS
    <3>1. Earlier(buf[c][k], unread[c][j])
      BY <1>1 DEF Told, Stream, Before
    <3> QED
      BY <2>5, <2>6, <3>1 DEF Earlier
  <2> DEFINE more == [i \in 1 .. L + 1 |-> IF i = L + 1 THEN n ELSE which[i]]
  <2>9. /\ more[L + 1] = n /\ DOMAIN more = 1 .. L + 1
        /\ \A i \in 1 .. L : more[i] = which[i]
    OBVIOUS
  <2>10. \A i \in 1 .. L + 1 : i \in 1 .. L \/ i = L + 1
    OBVIOUS
  <2>11. more \in [1 .. L + 1 -> 1 .. sent[c]]
    BY <2>5, <2>6, <2>7, <2>10
  <2> HIDE DEF more
  <2>12. Stands(c, more, obeyed'[c])
    <3> SUFFICES ASSUME NEW i \in 1 .. L + 1
                 PROVE  /\ StandsFor(obeyed'[c][i], Script[c][more[i]])
                        /\ \A j \in 1 .. i - 1 : more[j] < more[i]
      BY <2>4 DEF Stands
    <3>1. CASE i \in 1 .. L
      <4>1. /\ StandsFor(old[i], Script[c][which[i]])
            /\ \A j \in 1 .. i - 1 : which[j] < which[i]
        BY <1>9, <2>1, <2>4, <3>1 DEF Explains, Stands
      <4>2. \A j \in 1 .. i - 1 : j \in 1 .. L
        BY <3>1
      <4> QED
        BY <2>4, <2>9, <3>1, <4>1, <4>2
    <3>2. CASE i = L + 1
      <4>1. \A j \in 1 .. i - 1 : j \in 1 .. L
        BY <3>2
      <4>2. \A j \in 1 .. i - 1 : more[j] < n
        BY <2>7, <2>9, <4>1
      <4> QED
        BY <2>4, <2>5, <2>6, <2>9, <3>2, <4>2
    <3> QED
      BY <2>10, <3>1, <3>2
  <2>13. Later(more, unread[c])
    <3> SUFFICES ASSUME NEW i \in 1 .. L + 1, NEW j \in DOMAIN unread[c],
                        unread[c][j][2] = 1
                 PROVE  more[i] < unread[c][j][1]
      BY <2>9 DEF Later
    <3>1. CASE i \in 1 .. L
      BY <1>9, <2>1, <2>4, <2>9, <3>1 DEF Explains, Later
    <3>2. CASE i = L + 1
      BY <2>8, <2>9, <3>2
    <3> QED
      BY <2>10, <3>1, <3>2
  <2>14. Explains(c, more)'
    BY <1>1, <1>7, <2>4, <2>11, <2>12, <2>13 DEF Explains, Stands, Later
  <2>15. Obedient(c)'
    BY <2>14 DEF Obedient
  <2>16. obeyed' \in [Clients -> Seq(Commanded)]
    BY <1>4, <1>5, <1>11, <2>1, <2>2, <2>4
  <2> QED
    BY <1>6, <1>8, <2>15, <2>16, KeptTold DEF Told
<1> QED
  BY <1>10, <1>11

LEMMA NextTold == ASSUME Inv, Told, [Next]_vars PROVE Told'
<1>1. CASE Main \/ Interrupt \/ \E s \in Servers : AcceptThread(s)
  BY <1>1, ServersTold
<1>2. ASSUME NEW c \in Clients, Connection(c) \/ Connect(c) \/ Send(c) \/ Leave(c)
      PROVE  Told'
  BY <1>2, TurnsTold, ReceiveTold, HandleTold, SendTold DEF Connection
<1>3. CASE UNCHANGED vars
  BY <1>3, ElsewhereTold DEF vars
<1> QED
  BY <1>1, <1>2, <1>3 DEF Next

(* However recv() cuts the stream of a client's commands, and whenever the *)
(* servers stop, what is obeyed are commands it has sent, at worst without *)
(* their last fields, in their order and none twice.                       *)
THEOREM ObeysSent == Spec => []ObeysWhatWasSent
<1>1. Told => ObeysWhatWasSent
  <2> SUFFICES ASSUME Told, NEW c \in Clients
               PROVE  \E which \in [DOMAIN obeyed[c] -> 1 .. sent[c]] :
                        \A i \in DOMAIN obeyed[c] :
                          /\ StandsFor(obeyed[c][i], Script[c][which[i]])
                          /\ \A j \in 1 .. i - 1 : which[j] < which[i]
    BY DEF ObeysWhatWasSent
  <2>1. PICK which : Explains(c, which)
    BY DEF Told, Obedient
  <2> QED
    BY <2>1 DEF Explains, Stands
<1> QED
  BY <1>1, InitInv, NextStep, InitTold, NextTold, PTL DEF Spec

=============================================================================
