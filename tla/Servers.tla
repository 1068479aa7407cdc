------------------------------ MODULE Servers ------------------------------
(***************************************************************************)
(* The TCP server (src/network/TcpServer.cpp), a thread per connection,    *)
(* the web server (src/network/WebServer.cpp), one thread for all, and     *)
(* Simulator::run and shutdown (src/sim/Simulator.cpp) that start and stop *)
(* them.  Clients connect, send commands, fall silent and leave as they    *)
(* like.                                                                   *)
(*                                                                         *)
(* The kernel's part, as the code relies on it: close() of the listening   *)
(* socket does not wake a thread blocked in accept(), and the socket goes  *)
(* on listening as long as that call lasts; accept() on a closed           *)
(* descriptor fails; recv() returns some of what the client has sent and   *)
(* that was not received yet, or nothing when the client leaves.           *)
(***************************************************************************)
EXTENDS Commands

CONSTANTS
  TcpClients,
  Browsers,
  Crowds,     \* the sets of clients that may come in one behaviour
  Fields,     \* the fields of commands, records of a key and a value
  Script      \* the commands each client may send, in this order

Clients == TcpClients \cup Browsers

ASSUME ServersAssumption ==
  /\ TcpClients \cap Browsers = {}
  /\ Script \in [Clients -> Seq(Seq(Fields))]
  /\ \A c \in Clients : \A n \in DOMAIN Script[c] : WellFormed(Script[c][n])

Servers == {"tcp", "web"}

VARIABLES
  main,     \* where run() or shutdown() is
  running,  \* the running_ of each server
  listens,  \* the servers whose serverFd_ is open
  acceptor, \* where each accept thread is
  backlog,  \* connections the kernel holds for each server, oldest first
  client,   \* where each client's connection is
  sent,     \* how many commands of its script each client has sent
  unread,   \* what was not received yet: pairs of a command and a piece of it
  buf,      \* what the last recv() of each connection has got, the same
  late,     \* history: messages handled after stop() of the server began
  obeyed    \* history: the commands obeyed, for each client

stream == <<sent, unread, buf>>
history == <<late, obeyed>>
vars == <<main, running, listens, acceptor, backlog, client, stream, history>>

Init ==
  /\ main = "startTcp"
  /\ running = {}
  /\ listens = {}
  /\ acceptor = [s \in Servers |-> "unborn"]
  /\ backlog = [s \in Servers |-> <<>>]
  /\ \E crowd \in Crowds :
       client = [c \in Clients |-> IF c \in crowd THEN "out" ELSE "gone"]
  /\ sent = [c \in Clients |-> 0]
  /\ unread = [c \in Clients |-> <<>>]
  /\ buf = [c \in Clients |-> <<>>]
  /\ late = [c \in Clients |-> 0]
  /\ obeyed = [c \in Clients |-> <<>>]

Of(s) == IF s = "tcp" THEN TcpClients ELSE Browsers
ServerOf(c) == IF c \in TcpClients THEN "tcp" ELSE "web"

(* Accepted and not closed yet. *)
Served(c) == client[c] \in {"loop", "recv", "handle", "send"}

Client(c, to) == client' = [client EXCEPT ![c] = to]

-----------------------------------------------------------------------------
(* Simulator::run and, from the signal handler, shutdown.                  *)

Start(s, at, next) ==
  /\ main = at
  /\ listens' = listens \cup {s}
  /\ running' = running \cup {s}
  /\ acceptor' = [acceptor EXCEPT ![s] = "loop"]
  /\ main' = next
  /\ UNCHANGED <<backlog, client, stream, history>>

(* bind() fails: run() throws and the destructor of the simulator shuts    *)
(* down what there is.  SIGINT between the two starts does the same.       *)
StartFails ==
  /\ main \in {"startTcp", "startWeb"}
  /\ main' = "stopTcp"
  /\ UNCHANGED <<running, listens, acceptor, backlog, client, stream, history>>

Interrupt ==
  /\ main = "run"
  /\ main' = "stopTcp"
  /\ UNCHANGED <<running, listens, acceptor, backlog, client, stream, history>>

(* stop() of a server that does not run returns at once. *)
Stop(s, at, next, done) ==
  /\ main = at
  /\ running' = running \ {s}
  /\ main' = IF s \in running THEN next ELSE done
  /\ UNCHANGED <<listens, acceptor, backlog, client, stream, history>>

Close(s, at, next) ==
  /\ main = at
  /\ listens' = listens \ {s}
  /\ main' = next
  /\ UNCHANGED <<running, acceptor, backlog, client, stream, history>>

(* join of the accept thread; the connections' threads are detached.       *)
(* Mutant: the accept thread is detached too.                              *)
Detach(s, at, next) ==
  /\ main = at
  /\ main' = next
  /\ UNCHANGED <<running, listens, acceptor, backlog, client, stream, history>>

Join(s, at, next) ==
  /\ main = at
  /\ acceptor[s] = "ended"
  /\ main' = next
  /\ UNCHANGED <<running, listens, acceptor, backlog, client, stream, history>>

Main ==
  \/ Start("tcp", "startTcp", "startWeb") \/ Start("web", "startWeb", "run")
  \/ StartFails
  \/ Stop("tcp", "stopTcp", "closeTcp", "stopWeb")
  \/ Close("tcp", "closeTcp", "joinTcp")
  \/ Join("tcp", "joinTcp", "stopWeb")
  \/ Stop("web", "stopWeb", "closeWeb", "robots")
  \/ Close("web", "closeWeb", "joinWeb")
  \/ Join("web", "joinWeb", "robots")

-----------------------------------------------------------------------------
(* The accept threads.                                                     *)

Acceptor(s, to) == acceptor' = [acceptor EXCEPT ![s] = to]

(* When the last to use it leaves the listening socket, connections that   *)
(* were not accepted are reset.                                            *)
AcceptLoop(s) ==
  /\ acceptor[s] = "loop"
  /\ IF s \in running /\ s \in listens
     THEN Acceptor(s, "accept") /\ UNCHANGED <<backlog, client>>
     ELSE /\ Acceptor(s, "ended")
          /\ backlog' = [backlog EXCEPT ![s] = <<>>]
          /\ client' = [c \in Clients |->
               IF ServerOf(c) = s /\ client[c] = "pending" THEN "gone" ELSE client[c]]
  /\ UNCHANGED <<main, running, listens, stream, history>>

(* What the accept thread does with a connection.  The TCP server's starts *)
(* a thread and goes on.  Mutants: it serves the client itself; the web    *)
(* server starts a thread too.                                             *)
ServesItself(s) == "serve"
NeverServes(s) == "loop"
AfterAccept(s) == IF s = "tcp" THEN "loop" ELSE "serve"

Accept(s) ==
  /\ acceptor[s] = "accept"
  /\ backlog[s] # <<>>
  /\ Client(Head(backlog[s]), "loop")
  /\ backlog' = [backlog EXCEPT ![s] = Tail(@)]
  /\ Acceptor(s, AfterAccept(s))
  /\ UNCHANGED <<main, running, listens, stream, history>>

(* handleClient has returned. *)
Returned(s) ==
  /\ acceptor[s] = "serve"
  /\ \A c \in Of(s) : ~Served(c)
  /\ Acceptor(s, "loop")
  /\ UNCHANGED <<main, running, listens, backlog, client, stream, history>>

AcceptThread(s) == AcceptLoop(s) \/ Accept(s) \/ Returned(s)

-----------------------------------------------------------------------------
(* A connection: clientLoop in a thread of its own, or handleClient.       *)

(* Only the TCP server looks at running_ between messages.                 *)
(* Mutant: it does not.                                                    *)
GoesOnAlways(c) == TRUE
GoesOn(c) == c \in TcpClients => "tcp" \in running

ConnectionLoop(c) ==
  /\ client[c] = "loop"
  /\ Client(c, IF GoesOn(c) THEN "recv" ELSE "gone")
  /\ UNCHANGED <<main, running, listens, acceptor, backlog, stream, history>>

(* The buffer outlives a turn of the loop; buf[n] = 0 hides the rest of    *)
(* what was there.  Mutant: it does not.                                   *)
Unterminated(got, old) == got \o SubSeq(old, Len(got) + 1, Len(old))
Terminated(got, old) == got

Receive(c) ==
  /\ client[c] = "recv"
  /\ \E n \in DOMAIN unread[c] :
       /\ buf' = [buf EXCEPT ![c] = Terminated(SubSeq(unread[c], 1, n), @)]
       /\ unread' = [unread EXCEPT ![c] = SubSeq(@, n + 1, Len(@))]
  /\ Client(c, "handle")
  /\ UNCHANGED <<main, running, listens, acceptor, backlog, sent, history>>

(* A browser's command is the body of its request, behind the head; a      *)
(* TCP client's is all that was received.                                  *)
Text(c) ==
  LET got == [i \in DOMAIN buf[c] |-> [of |-> Script[c][buf[c][i][1]], at |-> buf[c][i][2]]]
  IN  IF c \in TcpClients THEN got ELSE Tail(got)

Handle(c) ==
  /\ client[c] = "handle"
  /\ late' = IF ServerOf(c) \in running THEN late
             ELSE [late EXCEPT ![c] = @ + 1]
  /\ \E cmd \in {ParseCommand(text) : text \in {Text(c)}} :
       obeyed' = IF Obeys(cmd) THEN [obeyed EXCEPT ![c] = Append(@, cmd)] ELSE obeyed
  /\ Client(c, "send")
  /\ UNCHANGED <<main, running, listens, acceptor, backlog, stream>>

(* The web server closes the connection after its one answer.              *)
(* Mutant: it waits for a second request.                                  *)
KeepsAlive(c) == "loop"
AfterAnswer(c) == IF c \in TcpClients THEN "loop" ELSE "gone"

Answer(c) ==
  /\ client[c] = "send"
  /\ Client(c, AfterAnswer(c))
  /\ UNCHANGED <<main, running, listens, acceptor, backlog, stream, history>>

Connection(c) == ConnectionLoop(c) \/ Receive(c) \/ Handle(c) \/ Answer(c)

-----------------------------------------------------------------------------
(* The clients.                                                            *)

(* The backlog takes a connection while anybody uses the socket.           *)
Connect(c) ==
  /\ client[c] = "out"
  /\ ServerOf(c) \in listens \/ acceptor[ServerOf(c)] = "accept"
  /\ Client(c, "pending")
  /\ backlog' = [backlog EXCEPT ![ServerOf(c)] = Append(@, c)]
  /\ UNCHANGED <<main, running, listens, acceptor, stream, history>>

(* A client need not wait for the answer to one command before it sends    *)
(* the next; a browser sends the head of its request before it.  What is   *)
(* sent before the connection's thread waits for it is kept by the kernel  *)
(* until then, as if it were sent then.                                    *)
Written(c, n) ==
  LET first == IF c \in Browsers THEN 0 ELSE 1
  IN  [i \in 1 .. 2 * Len(Script[c][n]) + 2 - first |-> <<n, first + i - 1>>]

Send(c) ==
  /\ client[c] = "recv"
  /\ sent[c] < Len(Script[c])
  /\ sent' = [sent EXCEPT ![c] = @ + 1]
  /\ unread' = [unread EXCEPT ![c] = @ \o Written(c, sent'[c])]
  /\ UNCHANGED <<main, running, listens, acceptor, backlog, client, buf, history>>

(* recv() returns 0, or an error: the connection is closed. *)
Leave(c) ==
  /\ client[c] = "recv"
  /\ Client(c, "gone")
  /\ UNCHANGED <<main, running, listens, acceptor, backlog, stream, history>>

Next ==
  \/ Main \/ Interrupt
  \/ \E s \in Servers : AcceptThread(s)
  \/ \E c \in Clients : Connection(c) \/ Connect(c) \/ Send(c) \/ Leave(c)

(* The program's threads run; clients do as they like, and so does the     *)
(* user who may or may not interrupt it.                                   *)
Fairness ==
  /\ WF_vars(Main)
  /\ \A s \in Servers : WF_vars(AcceptThread(s))
  /\ \A c \in Clients : WF_vars(Connection(c))

Spec == Init /\ [][Next]_vars /\ Fairness

-----------------------------------------------------------------------------
(* Types.  The kernel holds just the connections nobody has accepted, and  *)
(* the web server's one thread has one browser at most.                    *)
TypeOK ==
  /\ main \in {"startTcp", "startWeb", "run", "stopTcp", "closeTcp", "joinTcp",
               "stopWeb", "closeWeb", "joinWeb", "robots"}
  /\ running \subseteq Servers
  /\ listens \subseteq Servers
  /\ acceptor \in [Servers -> {"unborn", "loop", "accept", "serve", "ended"}]
  /\ client \in [Clients -> {"out", "pending", "loop", "recv", "handle", "send", "gone"}]
  /\ \A s \in Servers : \A c \in Of(s) :
       client[c] = "pending" <=> \E i \in DOMAIN backlog[s] : backlog[s][i] = c
  /\ \A b, o \in Browsers : Served(b) /\ Served(o) => b = o
  /\ \A c \in Clients :
       /\ sent[c] \in 0 .. Len(Script[c])
       /\ unread[c] # <<>> => sent[c] > 0
       /\ client[c] = "handle" => buf[c] # <<>>
  /\ late \in [Clients -> Nat]

(* A connection that outlives stop() handles at most one more message, the *)
(* one its thread was waiting for.                                         *)
AtMostOneLate == \A c \in Clients : late[c] <= 1

(* How a command that is cut off may differ from the one sent: it lacks    *)
(* waypoints at the end, or goes to row or column 0.  It never is another  *)
(* command, and never for another robot.                                   *)
StandsFor(cmd, fields) ==
  LET meant == ParseCommand(Pieces(fields))
  IN  /\ cmd.type = meant.type
      /\ ValidRobotId(cmd.robotId) => cmd.robotId = meant.robotId
      /\ cmd.x \in {meant.x, 0} /\ cmd.y \in {meant.y, 0}
      /\ IsPrefix(cmd.waypoints, meant.waypoints)

(* However the stream of a client's commands is cut into messages, what is *)
(* obeyed are some of the commands it sent, in their order, none twice,    *)
(* and no mixture of two.                                                  *)
ObeysWhatWasSent ==
  \A c \in Clients :
    \E which \in [DOMAIN obeyed[c] -> 1 .. sent[c]] :
      \A i \in DOMAIN obeyed[c] :
        /\ StandsFor(obeyed[c][i], Script[c][which[i]])
        /\ \A j \in 1 .. i - 1 : which[j] < which[i]

(* The simulator goes on to shut its robots down only when no accept       *)
(* thread is left and no browser's request is being handled.               *)
QuietBeforeRobots ==
  main = "robots" =>
    /\ \A s \in Servers : acceptor[s] \in {"unborn", "ended"}
    /\ \A b \in Browsers : ~Served(b)

(* A TCP client gets its thread whatever the other clients do, unless the  *)
(* server is stopped first.                                                *)
TcpAccepts ==
  \A c \in TcpClients :
    client[c] = "pending" ~> (client[c] # "pending" \/ "tcp" \notin running)

(* Every browser that is being served sends its request or leaves. *)
BrowsersSpeak ==
  \A b \in Browsers : client[b] = "recv" /\ buf[b] = <<>> ~> client[b] # "recv"

(* If so, every browser is served, unless the server is stopped first.     *)
WebAccepts ==
  BrowsersSpeak =>
    \A b \in Browsers :
      client[b] = "pending" ~> (client[b] # "pending" \/ "web" \notin running)

(* The accept thread is in accept() and no client comes. *)
Deaf(s) == acceptor[s] = "accept" /\ backlog[s] = <<>>

(* The join of an accept thread by stop() returns, unless the thread is in *)
(* accept() and nobody connects any more: one more client is enough for    *)
(* the TCP server, whatever it and the others do then, and for the web     *)
(* server if browsers speak.                                               *)
StopReturns ==
  /\ main = "joinTcp" /\ ~Deaf("tcp") ~> main # "joinTcp"
  /\ BrowsersSpeak => (main = "joinWeb" /\ ~Deaf("web") ~> main # "joinWeb")

=============================================================================
