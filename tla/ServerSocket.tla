---------------------------- MODULE ServerSocket ----------------------------
(***************************************************************************)
(* avrtc::ServerSocket and the SessionSockets it accepts (base/socket.h,   *)
(* base/socket.cc): an epoll loop, run by one worker thread in Start(),    *)
(* and the main thread, which on shutdown calls Stop() and then Close()    *)
(* (example/server.cc:188) without waiting for the loop.  The loop calls   *)
(* Close() too when it ends, so that both may be in it at once.            *)
(*                                                                         *)
(* The kernel is modelled from how the code uses it: descriptors are       *)
(* allocated lowest first, a closed descriptor leaves the epoll set, epoll *)
(* is level triggered, recv() returns buffered data before the end of the  *)
(* stream or an error.  Data is counted in units; one recv() returns any   *)
(* number of those buffered.                                               *)
(*                                                                         *)
(* Grain: a thread takes a step for each time it looks at or changes what  *)
(* both threads use: running_, socket_fd_ of the server and of a session,  *)
(* clients_.  clients_ is not locked.  Walking over it and clearing it     *)
(* take time, and whatever the loop does to it meanwhile is undefined      *)
(* behaviour, in the model a crash (Race) or the step it should have been. *)
(***************************************************************************)
EXTENDS Integers, Sequences, FiniteSets, SequencesExt

CONSTANTS
  Conns,        \* connections that peers open in one behaviour
  MaxFd,        \* the process' descriptors are 0..MaxFd
  MaxEvents,    \* MAX_EVENTS
  MaxData,      \* bound: units of data a peer sends
  Faults,       \* calls that may fail: a subset of FaultKinds
  CanStop,      \* whether the window may be closed, so that main() goes on
  Unused, Listening, Epoll, Spare  \* what a descriptor denotes, if no connection

FaultKinds == {"accept", "epoll_add", "epoll_wait", "reset", "send"}

ASSUME ParametersOK ==
  /\ MaxFd \in Nat \ {0}
  /\ MaxEvents \in Nat \ {0}
  /\ MaxData \in Nat
  /\ Faults \subseteq FaultKinds
  /\ CanStop \in BOOLEAN

ASSUME DescriptorKindsDistinct ==
  /\ Unused \notin Conns \cup {Listening, Epoll, Spare}
  /\ Listening \notin Conns \cup {Epoll, Spare}
  /\ Epoll \notin Conns \cup {Spare}
  /\ Spare \notin Conns

VARIABLES
  sent, fin,      \* per peer: units sent; whether it has closed its side
  reset,          \* per peer: it has aborted the connection
  backlog,        \* connections the kernel holds for accept()
  table,          \* the descriptor table: what each descriptor denotes
  watched,        \* descriptors registered with epoll
  got,            \* per connection: units read by recv() so far
  session,        \* per connection: the last kind of callback made for it
  sock,           \* per connection: socket_fd_ of its SessionSocket
  clients,        \* clients_: descriptor -> connection of the SessionSocket
  phantom,        \* OnAccept_ was called with a SessionSocket on descriptor -1
  socket_fd,      \* socket_fd_ of the ServerSocket
  running,        \* running_
  loop,           \* where the worker is in Start()
  batch,          \* the events of the last epoll_wait still to be handled
  held,           \* the SessionSocket in the loop's client_ptr or client
  main,           \* where the main thread is in main()
  close,          \* per thread: where it is in Close()
  walk            \* per thread: the entries of clients_ Close() has still to visit

peerVars == <<sent, fin, reset>>
kernelVars == <<backlog, table, watched>>
sessionVars == <<got, session, sock>>
serverVars == <<clients, phantom, socket_fd, running>>
loopVars == <<loop, batch, held>>
mainVars == <<main, close, walk>>
vars == <<peerVars, kernelVars, sessionVars, serverVars, loopVars, mainVars>>

Fds == 0..MaxFd
NoFd == -1
Threads == {"loop", "main"}

Lowest(S) == CHOOSE f \in S : \A g \in S : f <= g

UnusedFds == {f \in Fds : table[f] = Unused}

\* After the constructor and the first lines of Start().
Init ==
  /\ sent = [c \in Conns |-> 0]
  /\ fin = [c \in Conns |-> FALSE]
  /\ reset = [c \in Conns |-> FALSE]
  /\ backlog = {}
  /\ table = [f \in Fds |-> CASE f = 0 -> Listening
                              [] f = 1 -> Epoll
                              [] OTHER -> Unused]
  /\ watched = {0}
  /\ got = [c \in Conns |-> 0]
  /\ session = [c \in Conns |-> "none"]
  /\ sock = [c \in Conns |-> NoFd]
  /\ clients = <<>>
  /\ phantom = FALSE
  /\ socket_fd = 0
  /\ running = TRUE
  /\ loop = "check"
  /\ batch = <<>>
  /\ held = Unused
  /\ main = "app"
  /\ close = [t \in Threads |-> "out"]
  /\ walk = [t \in Threads |-> {}]

\* The process is gone: a CHECK failed, exit(1), a crash or an uncaught
\* exception, or main() has returned.
Alive == loop # "aborted" /\ main # "exited"

-----------------------------------------------------------------------------
(* The peers. *)

Connected(c) == c \in backlog \/ held = c \/ session[c] # "none"

PeerConnects(c) ==
  /\ ~Connected(c)
  /\ socket_fd # NoFd
  /\ backlog' = backlog \cup {c}
  /\ UNCHANGED <<peerVars, table, watched, sessionVars, serverVars, loopVars, mainVars>>

PeerSends(c) ==
  /\ Connected(c) /\ ~fin[c]
  /\ sent[c] < MaxData
  /\ sent' = [sent EXCEPT ![c] = @ + 1]
  /\ UNCHANGED <<fin, reset, kernelVars, sessionVars, serverVars, loopVars, mainVars>>

\* A reset ends the stream too, but the next call on the socket reports an error.
PeerCloses(c) ==
  /\ Connected(c) /\ ~fin[c]
  /\ fin' = [fin EXCEPT ![c] = TRUE]
  /\ \/ UNCHANGED reset
     \/ "reset" \in Faults /\ reset' = [reset EXCEPT ![c] = TRUE]
  /\ UNCHANGED <<sent, kernelVars, sessionVars, serverVars, loopVars, mainVars>>

PeerStep ==
  /\ Alive
  /\ \E c \in Conns : PeerConnects(c) \/ PeerSends(c) \/ PeerCloses(c)

-----------------------------------------------------------------------------
(* Closing sockets. *)

\* Close of a descriptor: it denotes nothing and leaves the epoll set.
CloseFd(f) ==
  /\ table' = [table EXCEPT ![f] = Unused]
  /\ watched' = watched \ {f}

\* Socket::Close() of some SessionSockets, called or by their destructors.
CloseSessions(S) ==
  /\ table' = [f \in Fds |-> IF \E c \in S : sock[c] = f THEN Unused ELSE table[f]]
  /\ watched' = watched \ {sock[c] : c \in S}
  /\ sock' = [c \in Conns |-> IF c \in S THEN NoFd ELSE sock[c]]

\* ServerSocket::Close() returns at once when the server is closed already.
EnterClose(t) ==
  close' = [close EXCEPT ![t] = IF socket_fd = NoFd THEN "done" ELSE "server"]

\* Mutant: Socket::Close() resets socket_fd_ but does not close it.
CloseServer_Forgets(t) ==
  /\ close[t] = "server"
  /\ socket_fd' = NoFd
  /\ close' = [close EXCEPT ![t] = "walk"]
  /\ walk' = [walk EXCEPT ![t] = DOMAIN clients]
  /\ UNCHANGED <<backlog, table, watched, sock, clients>>

\* The server's own descriptor first ...
CloseServer(t) ==
  /\ close[t] = "server"
  /\ IF socket_fd = NoFd
       THEN UNCHANGED <<backlog, table, watched, socket_fd>>
       ELSE /\ CloseFd(socket_fd)
            /\ backlog' = {}
            /\ socket_fd' = NoFd
  /\ close' = [close EXCEPT ![t] = "walk"]
  /\ walk' = [walk EXCEPT ![t] = DOMAIN clients]
  /\ UNCHANGED <<sock, clients>>

\* ... then, walking over clients_, each client's ...
CloseClient(t) ==
  /\ close[t] = "walk"
  /\ \E f \in walk[t] :
       /\ CloseSessions({clients[f]})
       /\ walk' = [walk EXCEPT ![t] = @ \ {f}]
  /\ UNCHANGED <<backlog, clients, socket_fd, close>>

EndWalk(t) ==
  /\ close[t] = "walk"
  /\ walk[t] = {}
  /\ close' = [close EXCEPT ![t] = "clear"]
  /\ UNCHANGED <<kernelVars, sock, clients, socket_fd, walk>>

\* ... then clients_.clear(): a SessionSocket that nobody else holds dies.
Clear(t) ==
  /\ close[t] = "clear"
  /\ clients' = <<>>
  /\ CloseSessions(Range(clients) \ {held})
  /\ close' = [close EXCEPT ![t] = "done"]
  /\ walk' = [s \in Threads |-> {}]
  /\ UNCHANGED <<backlog, socket_fd>>

CloseStep(t) ==
  /\ CloseServer(t) \/ CloseClient(t) \/ EndWalk(t) \/ Clear(t)
  /\ UNCHANGED <<peerVars, got, session, phantom, running, loopVars, main>>

-----------------------------------------------------------------------------
(* The loop of Start(). *)

\* Mutant: only data wakes epoll_wait, the end of a stream does not.
Readable_DataOnly(c) == got[c] < sent[c]

Readable(c) == got[c] < sent[c] \/ fin[c]

Ready ==
  {f \in watched : \/ table[f] = Listening /\ backlog # {}
                   \/ table[f] \in Conns /\ Readable(table[f])}

loopControl == <<peerVars, kernelVars, sessionVars, serverVars, held, mainVars>>

CheckRunning ==
  /\ loop = "check"
  /\ loop' = IF running THEN "wait" ELSE "leave"
  /\ UNCHANGED <<batch, loopControl>>

\* epoll_wait returns as many of the ready descriptors as fit, in any order.
EpollWait ==
  /\ loop = "wait"
  /\ Ready # {}
  /\ \E S \in SUBSET Ready :
       /\ \/ S = Ready /\ Cardinality(S) <= MaxEvents
          \/ Cardinality(S) = MaxEvents
       /\ batch' \in SetToSeqs(S)
  /\ loop' = "events"
  /\ UNCHANGED loopControl

\* Mutant: epoll_wait is called without a timeout.
EpollTimeout_Never ==
  /\ FALSE
  /\ UNCHANGED vars

\* Mutant: a timeout is taken for a failure, n <= 0 instead of n == -1.
EpollTimeout_IsError ==
  /\ loop = "wait"
  /\ Ready = {}
  /\ loop' = "leave"
  /\ UNCHANGED <<batch, loopControl>>

\* TIMEOUT_MS passed without an event.
EpollTimeout ==
  /\ loop = "wait"
  /\ Ready = {}
  /\ loop' = "check"
  /\ UNCHANGED <<batch, loopControl>>

EpollFails ==
  /\ loop = "wait"
  /\ "epoll_wait" \in Faults
  /\ loop' = "leave"
  /\ UNCHANGED <<batch, loopControl>>

EventsDone ==
  /\ loop = "events"
  /\ batch = <<>>
  /\ loop' = "check"
  /\ UNCHANGED <<batch, loopControl>>

HandlingEvent == loop = "events" /\ batch # <<>>

HandleListening ==
  /\ HandlingEvent
  /\ Head(batch) = socket_fd
  /\ loop' = "accept"
  /\ batch' = Tail(batch)
  /\ UNCHANGED loopControl

HandleUnknown ==
  /\ HandlingEvent
  /\ Head(batch) # socket_fd
  /\ Head(batch) \notin DOMAIN clients
  /\ batch' = Tail(batch)
  /\ UNCHANGED <<loop, loopControl>>

HandleClient ==
  /\ HandlingEvent
  /\ Head(batch) # socket_fd
  /\ Head(batch) \in DOMAIN clients
  /\ held' = clients[Head(batch)]
  /\ loop' = "found"
  /\ batch' = Tail(batch)
  /\ UNCHANGED <<peerVars, kernelVars, sessionVars, serverVars, mainVars>>

-----------------------------------------------------------------------------
(* Accept(). *)

\* accept() and the SessionSocket's constructor each take a descriptor; the
\* constructor's own is overwritten by SetFD and never closed.
Accept(c) ==
  LET fd    == Lowest(UnusedFds)
      spare == Lowest(UnusedFds \ {fd})
  IN  /\ Cardinality(UnusedFds) >= 2
      /\ backlog' = backlog \ {c}
      /\ table' = [table EXCEPT ![fd] = c, ![spare] = Spare]
      /\ sock' = [sock EXCEPT ![c] = fd]
      /\ held' = c
      /\ loop' = "insert"
      /\ UNCHANGED phantom

\* accept() fails, on a socket that the main thread has closed meanwhile for
\* one, and Accept() goes on.  The address the constructor is given was never
\* written: it may name no family, and then the constructor exits.  If not, it
\* takes a descriptor that is lost as above, and a SessionSocket on descriptor -1
\* is stored, shown to the application and never seen again.
AcceptFails ==
  /\ "accept" \in Faults \/ socket_fd = NoFd
  /\ UnusedFds # {}
  /\ \/ /\ table' = [table EXCEPT ![Lowest(UnusedFds)] = Spare]
        /\ phantom' = TRUE
        /\ loop' = "events"
     \/ /\ loop' = "aborted"
        /\ UNCHANGED <<table, phantom>>
  /\ UNCHANGED <<backlog, sock, held>>

\* No descriptor is left for the constructor: setsockopt fails and it exits.
AcceptExits ==
  /\ Cardinality(UnusedFds) < (IF socket_fd = NoFd THEN 1 ELSE 2)
  /\ loop' = "aborted"
  /\ UNCHANGED <<backlog, table, sock, phantom, held>>

CallAccept ==
  /\ loop = "accept"
  /\ (\E c \in backlog : Accept(c)) \/ AcceptFails \/ AcceptExits
  /\ UNCHANGED <<peerVars, watched, got, session, clients, socket_fd, running, batch,
                 mainVars>>

\* clients_ keeps an entry it already has for the descriptor.  A walk of the main
\* thread may meet the new entry or not.  Then OnAccept_.
Insert ==
  /\ loop = "insert"
  /\ clients' = [f \in DOMAIN clients \cup {sock[held]} |->
                   IF f \in DOMAIN clients THEN clients[f] ELSE held]
  /\ \/ UNCHANGED walk
     \/ /\ close["main"] = "walk" /\ sock[held] \notin DOMAIN clients
        /\ walk' = [walk EXCEPT !["main"] = @ \cup {sock[held]}]
  /\ session' = [session EXCEPT ![held] = "open"]
  /\ loop' = "register"
  /\ UNCHANGED <<peerVars, kernelVars, got, sock, phantom, socket_fd, running, batch, held,
                 main, close>>

\* EPOLL_CTL_ADD, which also fails when the main thread has closed the session:
\* then client_fd is closed but the session keeps it.  A session that clients_
\* does not hold, its entry being taken or cleared again, dies with client_ptr.
Register ==
  LET fd     == sock[held]
      isOpen == fd # NoFd /\ table[fd] = held
  IN  /\ loop = "register"
      /\ IF held \notin Range(clients)
           THEN CloseSessions({held})
           ELSE \/ /\ isOpen
                   /\ watched' = watched \cup {fd}
                   /\ UNCHANGED <<table, sock>>
                \/ /\ ~isOpen \/ "epoll_add" \in Faults
                   /\ table' = [f \in Fds |-> IF f = fd THEN Unused ELSE table[f]]
                   /\ UNCHANGED <<watched, sock>>
      /\ held' = Unused
      /\ loop' = "events"
      /\ UNCHANGED <<peerVars, backlog, got, session, serverVars, batch, mainVars>>

-----------------------------------------------------------------------------
(* Recv() of the session that was found. *)

\* CHECK(socket_fd_ != -1).
RecvChecks ==
  /\ loop = "found"
  /\ loop' = IF sock[held] = NoFd THEN "aborted" ELSE "recv"
  /\ UNCHANGED <<batch, loopControl>>

\* Mutant: OnReceive is given one unit more than recv() returned.
RecvData_TooLong(c) ==
  /\ sock[c] # NoFd
  /\ \E n \in 1..(sent[c] - got[c]) : got' = [got EXCEPT ![c] = @ + n + 1]
  /\ loop' = "reply"
  /\ UNCHANGED session

\* recv() returns 1..buffered units: OnReceive.
RecvData(c) ==
  /\ sock[c] # NoFd
  /\ \E n \in 1..(sent[c] - got[c]) : got' = [got EXCEPT ![c] = @ + n]
  /\ loop' = "reply"
  /\ UNCHANGED session

\* Mutant: the peer's close is acted on before its data has been read.
RecvEnd_Early(c) ==
  /\ sock[c] # NoFd
  /\ fin[c] /\ ~reset[c]
  /\ session' = [session EXCEPT ![c] = "closed"]
  /\ loop' = "erase"
  /\ UNCHANGED got

\* recv() returns 0: OnClose, in which the application releases the session.
RecvEnd(c) ==
  /\ sock[c] # NoFd
  /\ fin[c] /\ ~reset[c] /\ got[c] = sent[c]
  /\ session' = [session EXCEPT ![c] = "closed"]
  /\ loop' = "erase"
  /\ UNCHANGED got

\* recv() fails, on a reset, with nothing to read, or because the main thread has
\* closed the socket behind the CHECK: OnReceive with length -1, of which
\* AvrtcServer::OnReceive cannot make a string; the exception ends the process.
RecvError(c) ==
  /\ sock[c] = NoFd \/ (got[c] = sent[c] /\ (fin[c] => reset[c]))
  /\ session' = [session EXCEPT ![c] = "error"]
  /\ loop' = "aborted"
  /\ UNCHANGED got

Recv ==
  /\ loop = "recv"
  /\ RecvData(held) \/ RecvEnd(held) \/ RecvError(held)
  /\ UNCHANGED <<peerVars, kernelVars, sock, serverVars, batch, held, mainVars>>

\* The loop is done with the session; if clients_ does not hold it, it dies.
Release ==
  /\ CloseSessions({held} \ Range(clients'))
  /\ held' = Unused
  /\ loop' = "events"

\* OnReceive returns; the application may have answered and not cared whether the
\* call failed, which takes the error off a socket that was reset.
Reply ==
  /\ Release
  /\ \/ UNCHANGED reset
     \/ sock[held] # NoFd /\ reset' = [reset EXCEPT ![held] = FALSE]

\* Send()'s CHECK(socket_fd_ != -1) fails, or SIGPIPE comes back from a peer that
\* has gone.
ReplyAborts ==
  /\ \/ sock[held] = NoFd
     \/ "send" \in Faults /\ fin[held]
  /\ loop' = "aborted"
  /\ UNCHANGED <<reset, table, watched, sock, held>>

Receive ==
  /\ loop = "reply"
  /\ UNCHANGED clients
  /\ Reply \/ ReplyAborts
  /\ UNCHANGED <<sent, fin, backlog, got, session, phantom, socket_fd, running, batch,
                 mainVars>>

\* Mutant: the SessionSocket is dropped without closing its descriptor.
Erase_NoClose ==
  /\ loop = "erase"
  /\ clients' = Restrict(clients, DOMAIN clients \ {sock[held]})
  /\ walk' = [walk EXCEPT !["main"] = @ \ {sock[held]}]
  /\ watched' = watched \ {sock[held]}
  /\ sock' = [sock EXCEPT ![held] = NoFd]
  /\ held' = Unused
  /\ loop' = "events"
  /\ UNCHANGED <<peerVars, backlog, table, got, session, phantom, socket_fd, running, batch,
                 main, close>>

\* Mutant: the application still holds the SessionSocket, and EPOLL_CTL_DEL
\* is forgotten.
Erase_StaysWatched ==
  /\ loop = "erase"
  /\ clients' = Restrict(clients, DOMAIN clients \ {sock[held]})
  /\ walk' = [walk EXCEPT !["main"] = @ \ {sock[held]}]
  /\ held' = Unused
  /\ loop' = "events"
  /\ UNCHANGED <<peerVars, kernelVars, sessionVars, phantom, socket_fd, running, batch,
                 main, close>>

\* After OnClose: EPOLL_CTL_DEL and clients_.erase() by the descriptor the session
\* has now, and the last reference to the session goes.
Erase ==
  /\ loop = "erase"
  /\ clients' = Restrict(clients, DOMAIN clients \ {sock[held]})
  /\ walk' = [walk EXCEPT !["main"] = @ \ {sock[held]}]
  /\ Release
  /\ UNCHANGED <<peerVars, backlog, got, session, phantom, socket_fd, running, batch,
                 main, close>>

-----------------------------------------------------------------------------
(* The end of the loop. *)

\* close(epoll_fd) and Close(), whose CHECK wants running_ to be false.
LeaveLoop ==
  /\ loop = "leave"
  /\ table' = [f \in Fds |-> IF table[f] = Epoll THEN Unused ELSE table[f]]
  /\ watched' = {}
  /\ IF running
       THEN loop' = "aborted" /\ UNCHANGED close
       ELSE loop' = "exit" /\ EnterClose("loop")
  /\ UNCHANGED <<peerVars, backlog, sessionVars, serverVars, batch, held, main, walk>>

\* The loop is about to use clients_ while the main thread walks over it or
\* clears it.
ReadsClients == (HandlingEvent /\ Head(batch) # socket_fd) \/ close["loop"] = "walk"
WritesClients == loop \in {"insert", "erase"} \/ close["loop"] = "clear"

Race ==
  /\ \/ ReadsClients /\ close["main"] = "clear"
     \/ WritesClients /\ close["main"] \in {"walk", "clear"}
  /\ loop' = "aborted"
  /\ UNCHANGED <<batch, loopControl>>

LoopStep ==
  /\ Alive
  /\ \/ CheckRunning \/ EpollWait \/ EpollTimeout \/ EpollFails \/ EventsDone
     \/ HandleListening \/ HandleUnknown \/ HandleClient
     \/ CallAccept \/ Insert \/ Register
     \/ RecvChecks \/ Recv \/ Receive \/ Erase
     \/ LeaveLoop \/ CloseStep("loop") \/ Race

-----------------------------------------------------------------------------
(* The main thread, after the window was closed. *)

MainStops ==
  /\ CanStop
  /\ main = "app"
  /\ running' = FALSE
  /\ main' = "stopped"
  /\ UNCHANGED <<peerVars, kernelVars, sessionVars, clients, phantom, socket_fd, loopVars,
                 close, walk>>

MainCloses ==
  /\ main = "stopped"
  /\ main' = "closing"
  /\ EnterClose("main")
  /\ UNCHANGED <<peerVars, kernelVars, sessionVars, serverVars, loopVars, walk>>

\* main() returns: the process exits.
MainReturns ==
  /\ main = "closing"
  /\ close["main"] = "done"
  /\ main' = "exited"
  /\ UNCHANGED <<peerVars, kernelVars, sessionVars, serverVars, loopVars, close, walk>>

MainStep ==
  /\ Alive
  /\ MainStops \/ MainCloses \/ CloseStep("main") \/ MainReturns

-----------------------------------------------------------------------------
Next == PeerStep \/ LoopStep \/ MainStep

Spec == Init /\ [][Next]_vars

\* The worker runs whenever it can; peers, the user and the main thread need
\* not do anything.
FairSpec == Spec /\ WF_vars(LoopStep)

-----------------------------------------------------------------------------
(* Properties. *)

\* Every variable has its type.
TypeOK ==
  /\ sent \in [Conns -> 0..MaxData] /\ got \in [Conns -> 0..MaxData]
  /\ fin \in [Conns -> BOOLEAN] /\ reset \in [Conns -> BOOLEAN]
  /\ backlog \subseteq Conns
  /\ table \in [Fds -> Conns \cup {Unused, Listening, Epoll, Spare}]
  /\ watched \subseteq Fds
  /\ session \in [Conns -> {"none", "open", "closed", "error"}]
  /\ sock \in [Conns -> Fds \cup {NoFd}]
  /\ DOMAIN clients \subseteq Fds /\ Range(clients) \subseteq Conns
  /\ phantom \in BOOLEAN
  /\ socket_fd \in Fds \cup {NoFd}
  /\ running \in BOOLEAN
  /\ loop \in {"check", "wait", "events", "accept", "insert", "register", "found", "recv",
               "reply", "erase", "leave", "exit", "aborted"}
  /\ batch \in Seq(Fds)
  /\ held \in Conns \cup {Unused}
  /\ main \in {"app", "stopped", "closing", "exited"}
  /\ close \in [Threads -> {"out", "server", "walk", "clear", "done"}]
  /\ walk \in [Threads -> SUBSET Fds]

\* No connection's descriptor is orphaned: as long as it is open it is the
\* socket_fd_ of its SessionSocket, and that SessionSocket is the one clients_
\* holds under it or the loop has in its hands, so that Close() and destructors
\* close everything.
DescriptorsOwned ==
  \A f \in Fds : table[f] \in Conns =>
    /\ sock[table[f]] = f
    /\ \/ f \in DOMAIN clients /\ clients[f] = table[f]
       \/ held = table[f]

\* An event is always dispatched to the connection it happened on: what epoll
\* watches under a descriptor is what clients_ holds under it, even after
\* failed calls, reuse of descriptors and a shutdown in progress.  clients_ may
\* have lost it only while the loop has it in its hands.
WatchedIsClient ==
  \A f \in watched \ {socket_fd} :
    /\ table[f] \in Conns /\ sock[table[f]] = f
    /\ IF f \in DOMAIN clients THEN clients[f] = table[f] ELSE held = table[f]

\* Without failing calls, and while the window is open, no CHECK fails and no
\* call of the process' own ends it.
NeverAborts == Faults = {} /\ main = "app" => Alive

\* Once the loop's Close() has returned, and the main thread is not half way in
\* its own, no descriptor of the server is open but the ones Accept() lost, and
\* the one connection that it may have been accepting when main() closed.
ClosedBehindLoop ==
  close["loop"] = "done" /\ close["main"] \in {"out", "done"} =>
    \A f \in Fds :
      \/ table[f] \in {Unused, Spare}
      \/ /\ table[f] \in Conns /\ close["main"] = "done"
         /\ \A g \in Fds : table[g] \in Conns => g = f

\* The callbacks of each connection, as the application sees them.
Stream == INSTANCE SessionStream WITH closing <- close["main"] # "out"

ImplementsStream == Stream!Spec

\* A peer that has closed its side is reported to the application.
CloseIsReported ==
  \A c \in Conns :
    (fin[c] /\ ~reset[c]) ~> (session[c] = "closed" \/ ~running \/ ~Alive)

\* After Stop() the loop leaves, without being woken by any event.
StopLeavesLoop == ~running ~> (close["loop"] = "done" \/ ~Alive)

\* What the CHECK at socket.cc:216 says: Recv() runs on an open SessionSocket.
RecvOnOpenSocket == loop = "found" => sock[held] # NoFd
=============================================================================
