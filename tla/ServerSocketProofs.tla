------------------------- MODULE ServerSocketProofs -------------------------
(***************************************************************************)
(* Proofs about ServerSocket for every set of connections, every size of   *)
(* the descriptor table and every choice of failing calls.                 *)
(***************************************************************************)
EXTENDS ServerSocket, DataInduction, SequenceTheorems

\* The kernel finds a lowest descriptor in every set that holds one.
LEMMA LowestIn ==
  ASSUME NEW S \in SUBSET Fds, S # {}
  PROVE  Lowest(S) \in S
<1>1. S \in SUBSET Nat
  BY ParametersOK DEF Fds
<1>. QED  BY <1>1, LowestNat DEF Lowest

\* Two descriptors are left, so one is left beside any other.
LEMMA OneMoreUnused ==
  ASSUME Cardinality(UnusedFds) >= 2
  PROVE  UnusedFds # {} /\ \A fd : UnusedFds \ {fd} # {}
<1>1. IsFiniteSet(Fds) /\ UnusedFds \in SUBSET Fds
  BY FS_Interval, ParametersOK DEF Fds, UnusedFds
<1>2. IsFiniteSet(UnusedFds)
  BY <1>1, FS_Subset
<1>. DEFINE U == UnusedFds
<1>3. Cardinality(U) \in Nat /\ Cardinality(U) >= 2
  BY <1>2, FS_CardinalityType
<1>4. ASSUME NEW fd  PROVE IsFiniteSet(U \ {fd}) /\ Cardinality(U \ {fd}) # 0
  <2>. HIDE DEF U
  <2>1. IsFiniteSet(U \ {fd})
    BY <1>2, FS_RemoveElement DEF U
  <2>2. Cardinality(U \ {fd}) = IF fd \in U THEN Cardinality(U) - 1 ELSE Cardinality(U)
    BY <1>2, FS_RemoveElement DEF U
  <2>. QED  BY <1>3, <2>1, <2>2
<1>5. ASSUME NEW fd, U \ {fd} = {}  PROVE FALSE
  <2>1. Cardinality({}) = 0
    BY FS_EmptySet
  <2>. HIDE DEF U
  <2>. QED  BY <1>4, <1>5, <2>1
<1>. QED  BY <1>5

-----------------------------------------------------------------------------
(* The inductive invariant. *)

\* Nothing is read that was not sent.
ReadWhatWasSent == \A c \in Conns : got[c] <= sent[c]

\* A connection has a descriptor, and is in clients_, only once it is accepted.
AcceptedFirst ==
  /\ \A c \in backlog : session[c] = "none" /\ held # c
  /\ \A c \in Conns : sock[c] # NoFd /\ held # c => session[c] = "open"
  /\ \A f \in DOMAIN clients : session[clients[f]] # "none"
  /\ socket_fd = NoFd => backlog = {}

\* What the loop's client_ptr and client denote where it uses them.
HeldByLoop ==
  /\ loop \in {"check", "wait", "events", "accept", "leave", "exit"} => held = Unused
  /\ loop \in {"insert", "register", "found", "recv", "reply", "erase"} => held \in Conns
  /\ loop = "insert" => session[held] = "none" /\ sock[held] # NoFd
  /\ loop \in {"register", "recv", "reply"} => session[held] = "open"
  /\ loop = "found" => session[held] = "open" \/ sock[held] = NoFd
  /\ loop = "erase" => session[held] = "closed"
  /\ loop \in {"insert", "register"} => sock[held] \notin watched \ {socket_fd}
  /\ loop = "recv" /\ sock[held] = NoFd => close["main"] # "out"

\* clients_ is keyed by the descriptor its session has, if it has one, and a walk
\* over it meets only what is in it.
ClientsByDescriptor ==
  /\ \A f \in DOMAIN clients : sock[clients[f]] \in {f, NoFd}
  /\ \A t \in Threads : walk[t] \subseteq DOMAIN clients
  /\ close["loop"] = "out" => walk["loop"] = {}

\* The server's own descriptors and how far the threads are in Close().
OwnDescriptors ==
  /\ \A f \in Fds : table[f] = Listening => f = socket_fd
  /\ close["main"] # "out" => main \in {"closing", "exited"}
  /\ close["loop"] # "out" => loop \in {"exit", "aborted"} /\ \A f \in Fds : table[f] # Epoll
  /\ \A t \in Threads : close[t] \in {"walk", "clear", "done"} => socket_fd = NoFd

\* Once the server is closed and nobody is closing its clients, at most the one
\* connection is open that the loop had in its hands when main() cleared clients_.
NearlyClosed ==
  socket_fd = NoFd /\ (\A t \in Threads : close[t] \notin {"walk", "clear"}) =>
    \A f \in Fds : table[f] \in Conns =>
      /\ close["main"] = "done"
      /\ \A g \in Fds : table[g] \in Conns => g = f

IInv ==
  /\ TypeOK
  /\ ReadWhatWasSent
  /\ AcceptedFirst
  /\ HeldByLoop
  /\ ClientsByDescriptor
  /\ OwnDescriptors
  /\ DescriptorsOwned
  /\ WatchedIsClient
  /\ NearlyClosed

LEMMA NoFdApart == NoFd \notin Fds
BY ParametersOK DEF NoFd, Fds

LEMMA InitIInv == Init => IInv
<1>. SUFFICES ASSUME Init  PROVE IInv
  OBVIOUS
<1>. USE ParametersOK, DescriptorKindsDistinct DEF Init, Fds, NoFd, Threads
<1>1. TypeOK
  <2>1. DOMAIN clients = {} /\ Range(clients) = {} /\ batch \in Seq(Fds)
    BY DEF Range
  <2>2. table \in [Fds -> Conns \cup {Unused, Listening, Epoll, Spare}] /\ watched \subseteq Fds
    OBVIOUS
  <2>3. walk \in [Threads -> SUBSET Fds]
    OBVIOUS
  <2>4. close \in [Threads -> {"out", "server", "walk", "clear", "done"}]
    OBVIOUS
  <2>5. session \in [Conns -> {"none", "open", "closed", "error"}] /\ sock \in [Conns -> Fds \cup {NoFd}]
    OBVIOUS
  <2>6. sent \in [Conns -> 0..MaxData] /\ got \in [Conns -> 0..MaxData]
    OBVIOUS
  <2>7. fin \in [Conns -> BOOLEAN] /\ reset \in [Conns -> BOOLEAN]
    OBVIOUS
  <2>. QED  BY <2>1, <2>2, <2>3, <2>4, <2>5, <2>6, <2>7 DEF TypeOK
<1>2. ReadWhatWasSent /\ AcceptedFirst /\ HeldByLoop
  BY DEF ReadWhatWasSent, AcceptedFirst, HeldByLoop
<1>3. ClientsByDescriptor /\ OwnDescriptors /\ NearlyClosed
  BY DEF ClientsByDescriptor, OwnDescriptors, NearlyClosed
<1>4. DescriptorsOwned /\ WatchedIsClient
  BY DEF DescriptorsOwned, WatchedIsClient
<1>. QED  BY <1>1, <1>2, <1>3, <1>4 DEF IInv

\* What a step of a peer disturbs: what was sent, and the kernel's backlog.
LEMMA PeerStepIInv ==
  ASSUME IInv, PeerStep
  PROVE  IInv'
<1>. USE ParametersOK, DescriptorKindsDistinct
     DEF IInv, peerVars, sessionVars, kernelVars, serverVars, loopVars, mainVars
<1>1. PICK c \in Conns : PeerConnects(c) \/ PeerSends(c) \/ PeerCloses(c)
  BY DEF PeerStep
<1>2. /\ UNCHANGED <<table, watched, got, session, sock, clients, phantom, socket_fd, running,
                     loop, batch, held, main, close, walk>>
      /\ backlog' = backlog \/ (backlog' = backlog \cup {c} /\ ~Connected(c) /\ socket_fd # NoFd)
  BY <1>1 DEF PeerConnects, PeerSends, PeerCloses
<1>3. TypeOK' /\ ReadWhatWasSent'
  <2>1. CASE PeerConnects(c)
    BY <2>1, <1>2 DEF PeerConnects, TypeOK, ReadWhatWasSent
  <2>2. CASE PeerSends(c)
    BY <2>2, <1>2 DEF PeerSends, TypeOK, ReadWhatWasSent
  <2>3. CASE PeerCloses(c)
    <3>1. sent' = sent /\ fin' = [fin EXCEPT ![c] = TRUE] /\ reset' \in [Conns -> BOOLEAN]
      BY <2>3 DEF PeerCloses, TypeOK
    <3>2. fin' \in [Conns -> BOOLEAN] /\ backlog' \subseteq Conns
      BY <1>2, <3>1 DEF TypeOK
    <3>3. TypeOK'
      BY <1>2, <3>1, <3>2 DEF TypeOK
    <3>. QED  BY <1>2, <3>1, <3>3 DEF ReadWhatWasSent
  <2>. QED  BY <1>1, <2>1, <2>2, <2>3
<1>4. AcceptedFirst'
  BY <1>2 DEF AcceptedFirst, Connected
<1>5. HeldByLoop' /\ ClientsByDescriptor' /\ OwnDescriptors' /\ NearlyClosed'
  BY <1>2 DEF HeldByLoop, ClientsByDescriptor, OwnDescriptors, NearlyClosed
<1>6. DescriptorsOwned' /\ WatchedIsClient'
  BY <1>2 DEF DescriptorsOwned, WatchedIsClient
<1>. QED  BY <1>3, <1>4, <1>5, <1>6

\* What EpollWait puts into the batch, and what is left of it.
LEMMA BatchKept ==
  ASSUME TypeOK, EpollWait \/ batch' = batch \/ (HandlingEvent /\ batch' = Tail(batch))
  PROVE  batch' \in Seq(Fds)
<1>1. CASE EpollWait
  <2>1. PICK S \in SUBSET Ready : batch' \in SetToSeqs(S)
    BY <1>1 DEF EpollWait
  <2>2. S \in SUBSET Fds /\ IsFiniteSet(S)
    <3>1. S \in SUBSET Fds /\ IsFiniteSet(Fds)
      BY FS_Interval, ParametersOK DEF Ready, TypeOK, Fds
    <3>. QED  BY <3>1, FS_Subset
  <2>3. Cardinality(S) \in Nat
    BY <2>2, FS_CardinalityType
  <2>4. batch' \in [1..Cardinality(S) -> S]
    BY <2>1 DEF SetToSeqs
  <2>. QED  BY <2>2, <2>3, <2>4
<1>2. CASE HandlingEvent /\ batch' = Tail(batch)
  BY <1>2 DEF HandlingEvent, TypeOK
<1>3. CASE batch' = batch
  BY <1>3 DEF TypeOK
<1>. QED  BY <1>1, <1>2, <1>3

\* The loop's own steps touch neither sockets nor descriptors.
LEMMA ControlIInv ==
  ASSUME IInv,
         \/ CheckRunning \/ EpollWait \/ EpollTimeout \/ EpollFails \/ EventsDone
         \/ HandleListening \/ HandleUnknown \/ RecvChecks \/ Race
  PROVE  IInv'
<1>. USE DEF IInv
<1>1. UNCHANGED loopControl
  BY DEF CheckRunning, EpollWait, EpollTimeout, EpollFails, EventsDone, HandleListening,
         HandleUnknown, RecvChecks, Race
<1>2. /\ UNCHANGED <<sent, fin, reset, backlog, table, watched, got, session, sock, clients>>
      /\ UNCHANGED <<phantom, socket_fd, running, held, main, close, walk>>
  BY <1>1 DEF loopControl, peerVars, kernelVars, sessionVars, serverVars, mainVars
<1>3. \/ /\ loop \in {"check", "wait", "events"}
         /\ loop' \in {"check", "wait", "events", "accept", "leave"}
      \/ loop = "found" /\ loop' = "recv" /\ sock[held] # NoFd
      \/ loop' = "aborted"
  BY DEF CheckRunning, EpollWait, EpollTimeout, EpollFails, EventsDone, HandleListening,
         HandleUnknown, HandlingEvent, RecvChecks, Race
<1>4. batch' \in Seq(Fds)
  BY BatchKept DEF CheckRunning, EpollTimeout, EpollFails, EventsDone, HandleListening,
         HandleUnknown, RecvChecks, Race
<1>5. TypeOK'
  BY <1>2, <1>3, <1>4 DEF TypeOK
<1>6. HeldByLoop'
  BY <1>2, <1>3 DEF HeldByLoop
<1>7. ReadWhatWasSent' /\ AcceptedFirst' /\ ClientsByDescriptor'
  BY <1>2 DEF ReadWhatWasSent, AcceptedFirst, ClientsByDescriptor
<1>8. OwnDescriptors' /\ NearlyClosed'
  BY <1>2, <1>3 DEF OwnDescriptors, NearlyClosed
<1>9. DescriptorsOwned' /\ WatchedIsClient'
  BY <1>2 DEF DescriptorsOwned, WatchedIsClient
<1>. QED  BY <1>5, <1>6, <1>7, <1>8, <1>9

\* The loop takes the session that clients_ holds for an event (socket.cc:147-152).
LEMMA HandleClientIInv ==
  ASSUME IInv, HandleClient
  PROVE  IInv'
<1>. USE DEF IInv
<1>1. /\ UNCHANGED <<sent, fin, reset, backlog, table, watched, got, session, sock, clients>>
      /\ UNCHANGED <<phantom, socket_fd, running, main, close, walk>>
  BY DEF HandleClient, peerVars, kernelVars, sessionVars, serverVars, mainVars
<1>2. /\ loop = "events" /\ loop' = "found" /\ batch' \in Seq(Fds)
      /\ Head(batch) \in DOMAIN clients /\ held' = clients[Head(batch)]
  BY BatchKept DEF HandleClient, HandlingEvent
<1>3. held = Unused /\ held' \in Conns
  BY <1>2 DEF HeldByLoop, TypeOK, Range
<1>4. session[held'] # "none" /\ (sock[held'] # NoFd => session[held'] = "open")
  BY <1>2, <1>3, DescriptorKindsDistinct DEF AcceptedFirst
<1>5. TypeOK'
  BY <1>1, <1>2, <1>3 DEF TypeOK
<1>6. HeldByLoop'
  BY <1>1, <1>2, <1>3, <1>4 DEF HeldByLoop
<1>7. ReadWhatWasSent' /\ AcceptedFirst' /\ ClientsByDescriptor'
  BY <1>1, <1>3, <1>4, DescriptorKindsDistinct
  DEF ReadWhatWasSent, AcceptedFirst, ClientsByDescriptor
<1>8. OwnDescriptors' /\ NearlyClosed'
  BY <1>1, <1>2 DEF OwnDescriptors, NearlyClosed
<1>9. DescriptorsOwned' /\ WatchedIsClient'
  BY <1>1, <1>3, DescriptorKindsDistinct DEF DescriptorsOwned, WatchedIsClient
<1>. QED  BY <1>5, <1>6, <1>7, <1>8, <1>9

-----------------------------------------------------------------------------
(* Descriptors given and taken away. *)

\* accept() and a constructor take descriptors that denoted nothing.
LEMMA TwoUnused ==
  ASSUME NEW c, Accept(c)
  PROVE  \E fd, spare \in Fds :
           /\ fd # spare /\ table[fd] = Unused /\ table[spare] = Unused
           /\ table' = [table EXCEPT ![fd] = c, ![spare] = Spare]
           /\ sock' = [sock EXCEPT ![c] = fd]
<1>. DEFINE fd == Lowest(UnusedFds)
            spare == Lowest(UnusedFds \ {fd})
<1>1. fd \in UnusedFds /\ spare \in UnusedFds \ {fd}
  <2>. HIDE DEF fd
  <2>1. UnusedFds # {} /\ UnusedFds \ {fd} # {}
    BY OneMoreUnused DEF Accept
  <2>2. UnusedFds \in SUBSET Fds /\ UnusedFds \ {fd} \in SUBSET Fds
    BY DEF UnusedFds
  <2>3. spare \in UnusedFds \ {fd}
    BY <2>1, <2>2, LowestIn
  <2>4. Lowest(UnusedFds) \in UnusedFds
    BY <2>1, <2>2, LowestIn
  <2>. QED  BY <2>3, <2>4 DEF fd
<1>2. /\ table' = [table EXCEPT ![fd] = c, ![spare] = Spare]
      /\ sock' = [sock EXCEPT ![c] = fd]
  BY DEF Accept
<1>. HIDE DEF fd, spare
<1>. QED  BY <1>1, <1>2 DEF UnusedFds

\* Accept() with a connection (socket.cc:63-72): the descriptor it gives to the
\* new SessionSocket was in nobody's hands.
LEMMA AcceptIInv ==
  ASSUME IInv, CallAccept, NEW c \in backlog, Accept(c)
  PROVE  IInv'
<1>. USE DEF IInv
<1>1. PICK fd \in Fds, spare \in Fds :
        /\ fd # spare /\ table[fd] = Unused /\ table[spare] = Unused
        /\ table' = [table EXCEPT ![fd] = c, ![spare] = Spare]
        /\ sock' = [sock EXCEPT ![c] = fd]
  BY TwoUnused
<1>2. /\ backlog' = backlog \ {c} /\ held' = c /\ loop = "accept" /\ loop' = "insert"
      /\ UNCHANGED <<sent, fin, reset, watched, got, session, clients, phantom, socket_fd>>
      /\ UNCHANGED <<running, batch, main, close, walk>>
  BY DEF CallAccept, Accept, peerVars, mainVars
<1>3. c \in Conns /\ session[c] = "none" /\ held = Unused /\ held # c /\ c # Unused
  BY <1>2, DescriptorKindsDistinct DEF AcceptedFirst, HeldByLoop, TypeOK
<1>4. sock[c] = NoFd /\ fd # NoFd
  BY <1>3, NoFdApart DEF AcceptedFirst
<1>5. \A f \in Fds : table'[f] = IF f = spare THEN Spare ELSE IF f = fd THEN c ELSE table[f]
  BY <1>1 DEF TypeOK
<1>6. \A d \in Conns : sock'[d] = IF d = c THEN fd ELSE sock[d]
  BY <1>1, <1>3 DEF TypeOK
<1>7. TypeOK'
  <2>1. table' \in [Fds -> Conns \cup {Unused, Listening, Epoll, Spare}]
    BY <1>1, <1>3 DEF TypeOK
  <2>2. sock' \in [Conns -> Fds \cup {NoFd}]
    BY <1>1 DEF TypeOK
  <2>. QED  BY <1>2, <1>3, <2>1, <2>2 DEF TypeOK
<1>8. ReadWhatWasSent'
  BY <1>2 DEF ReadWhatWasSent
<1>9. AcceptedFirst'
  BY <1>2, <1>3, <1>6, DescriptorKindsDistinct DEF AcceptedFirst, TypeOK
<1>10. fd \notin watched \ {socket_fd}
  BY <1>1, DescriptorKindsDistinct DEF WatchedIsClient
<1>11. HeldByLoop'
  BY <1>2, <1>3, <1>4, <1>6, <1>10 DEF HeldByLoop
<1>12. ClientsByDescriptor'
  <2>1. \A f \in DOMAIN clients : clients[f] \in Conns /\ clients[f] # c
    BY <1>3 DEF AcceptedFirst, TypeOK, Range
  <2>. QED  BY <1>2, <1>6, <2>1 DEF ClientsByDescriptor
<1>13. OwnDescriptors'
  BY <1>2, <1>3, <1>5, DescriptorKindsDistinct DEF OwnDescriptors
<1>14. NearlyClosed'
  BY <1>2 DEF NearlyClosed, AcceptedFirst
<1>15. DescriptorsOwned'
  <2>. SUFFICES ASSUME NEW f \in Fds, table'[f] \in Conns
                PROVE  /\ sock'[table'[f]] = f
                       /\ \/ f \in DOMAIN clients /\ clients[f] = table'[f]
                          \/ table'[f] = c
    BY <1>2 DEF DescriptorsOwned
  <2>1. CASE f = fd
    BY <1>1, <1>3, <1>5, <1>6, <2>1
  <2>2. CASE f # fd
    <3>1. table'[f] = table[f]
      BY <1>5, <2>2, DescriptorKindsDistinct
    <3>2. sock[table[f]] = f /\ f \in DOMAIN clients /\ clients[f] = table[f]
      BY <1>3, <3>1, DescriptorKindsDistinct DEF DescriptorsOwned
    <3>3. table[f] # c
      BY <1>4, <3>2, NoFdApart
    <3>. QED  BY <1>6, <3>1, <3>2, <3>3
  <2>. QED  BY <2>1, <2>2
<1>16. WatchedIsClient'
  <2>. SUFFICES ASSUME NEW f \in watched \ {socket_fd}
                PROVE  /\ table'[f] \in Conns /\ sock'[table'[f]] = f
                       /\ IF f \in DOMAIN clients THEN clients[f] = table'[f] ELSE table'[f] = c
    BY <1>2 DEF WatchedIsClient
  <2>1. f \in Fds /\ table[f] \in Conns /\ sock[table[f]] = f
    BY DEF WatchedIsClient, TypeOK
  <2>2. f \in DOMAIN clients /\ clients[f] = table[f]
    BY <1>3, <2>1, DescriptorKindsDistinct DEF WatchedIsClient
  <2>3. table'[f] = table[f] /\ table[f] # c
    BY <1>1, <1>4, <1>5, <2>1, NoFdApart, DescriptorKindsDistinct
  <2>. QED  BY <1>6, <2>1, <2>2, <2>3
<1>. QED  BY <1>7, <1>8, <1>9, <1>11, <1>12, <1>13, <1>14, <1>15, <1>16

\* An accept() that fails, and a constructor that exits (socket.cc:10-21, 61-72).
LEMMA AcceptFailsIInv ==
  ASSUME IInv, CallAccept, AcceptFails \/ AcceptExits
  PROVE  IInv'
<1>. USE DEF IInv
<1>1. /\ UNCHANGED <<sent, fin, reset, backlog, watched, got, session, sock, clients, socket_fd>>
      /\ UNCHANGED <<running, batch, held, main, close, walk>>
      /\ phantom' \in BOOLEAN
  BY DEF CallAccept, AcceptFails, AcceptExits, peerVars, mainVars, TypeOK
<1>2. loop = "accept" /\ loop' \in {"events", "aborted"}
  BY DEF CallAccept, AcceptFails, AcceptExits
<1>3. \/ table' = table
      \/ \E f \in Fds : table[f] = Unused /\ table' = [table EXCEPT ![f] = Spare]
  <2>1. CASE AcceptFails /\ table' # table
    <3>1. UnusedFds \in SUBSET Fds /\ UnusedFds # {}
      BY <2>1 DEF AcceptFails, UnusedFds
    <3>2. Lowest(UnusedFds) \in UnusedFds
      BY <3>1, LowestIn
    <3>. QED  BY <2>1, <3>2 DEF AcceptFails, UnusedFds
  <2>. QED  BY <2>1 DEF AcceptExits
<1>4. \A f \in Fds : \/ table'[f] = table[f]
                     \/ table[f] = Unused /\ table'[f] = Spare
  BY <1>3 DEF TypeOK
<1>5. TypeOK'
  <2>1. table' \in [Fds -> Conns \cup {Unused, Listening, Epoll, Spare}]
    BY <1>3 DEF TypeOK
  <2>. QED  BY <1>1, <1>2, <2>1 DEF TypeOK
<1>6. ReadWhatWasSent' /\ AcceptedFirst' /\ ClientsByDescriptor'
  BY <1>1 DEF ReadWhatWasSent, AcceptedFirst, ClientsByDescriptor
<1>7. HeldByLoop'
  BY <1>1, <1>2 DEF HeldByLoop
<1>8. OwnDescriptors' /\ NearlyClosed' /\ DescriptorsOwned'
  BY <1>1, <1>2, <1>4, DescriptorKindsDistinct DEF OwnDescriptors, NearlyClosed, DescriptorsOwned
<1>9. WatchedIsClient'
  BY <1>1, <1>4, DescriptorKindsDistinct DEF WatchedIsClient, TypeOK
<1>. QED  BY <1>5, <1>6, <1>7, <1>8, <1>9

\* Insert (socket.cc:74-79): clients_ gets the session under its descriptor, unless
\* it has an entry there, and OnAccept_ is called.
LEMMA InsertIInv ==
  ASSUME IInv, Insert
  PROVE  IInv'
<1>. USE DEF IInv
<1>. DEFINE fd == sock[held]
<1>1. /\ UNCHANGED <<sent, fin, reset, backlog, table, watched, got, sock, phantom, socket_fd>>
      /\ UNCHANGED <<running, batch, held, main, close>>
      /\ loop = "insert" /\ loop' = "register"
      /\ session' = [session EXCEPT ![held] = "open"]
      /\ clients' = [f \in DOMAIN clients \cup {fd} |->
                       IF f \in DOMAIN clients THEN clients[f] ELSE held]
      /\ walk' = walk \/ walk' = [walk EXCEPT !["main"] = @ \cup {fd}]
  BY DEF Insert, peerVars, kernelVars
<1>2. held \in Conns /\ session[held] = "none" /\ fd # NoFd /\ fd \notin watched \ {socket_fd}
  BY <1>1 DEF HeldByLoop
<1>. HIDE DEF fd
<1>3. fd \in Fds
  BY <1>2 DEF fd, TypeOK
<1>4. \A d \in Conns : session'[d] = IF d = held THEN "open" ELSE session[d]
  BY <1>1, <1>2 DEF TypeOK
<1>5. /\ DOMAIN clients' = DOMAIN clients \cup {fd}
      /\ \A f \in DOMAIN clients : clients'[f] = clients[f]
      /\ \A f \in DOMAIN clients' : clients'[f] = clients[f] \/ (f = fd /\ clients'[f] = held)
  BY <1>1
<1>6. TypeOK'
  <2>1. DOMAIN clients' \subseteq Fds /\ Range(clients') \subseteq Conns
    <3>1. ASSUME NEW f \in DOMAIN clients'  PROVE clients'[f] \in Conns
      BY <1>1, <1>2 DEF TypeOK, Range
    <3>. QED  BY <1>3, <1>5, <3>1 DEF TypeOK, Range
  <2>2. walk' \in [Threads -> SUBSET Fds]
    <3>1. walk \in [Threads -> SUBSET Fds] /\ "main" \in Threads
      BY DEF TypeOK, Threads
    <3>2. walk["main"] \cup {fd} \in SUBSET Fds
      BY <1>3, <3>1
    <3>. QED  BY <1>1, <3>1, <3>2
  <2>3. session' \in [Conns -> {"none", "open", "closed", "error"}]
    BY <1>1 DEF TypeOK
  <2>. QED  BY <1>1, <2>1, <2>2, <2>3 DEF TypeOK
<1>7. AcceptedFirst'
  <2>1. \A d \in backlog : d \in Conns /\ session[d] = "none" /\ d # held
    BY DEF AcceptedFirst, TypeOK
  <2>2. ASSUME NEW f \in DOMAIN clients'  PROVE session'[clients'[f]] # "none"
    <3>1. CASE f \in DOMAIN clients
      <4>1. clients[f] \in Conns /\ session[clients[f]] # "none" /\ clients'[f] = clients[f]
        BY <1>5, <3>1 DEF AcceptedFirst, TypeOK, Range
      <4>. QED  BY <1>4, <4>1
    <3>2. CASE f \notin DOMAIN clients
      BY <1>1, <1>2, <1>4, <3>2
    <3>. QED  BY <3>1, <3>2
  <2>. QED  BY <1>1, <1>4, <2>1, <2>2 DEF AcceptedFirst
<1>8. HeldByLoop'
  BY <1>1, <1>2, <1>4 DEF HeldByLoop, fd
<1>9. ClientsByDescriptor'
  <2>1. ASSUME NEW f \in DOMAIN clients'  PROVE sock[clients'[f]] \in {f, NoFd}
    <3>1. CASE f \in DOMAIN clients
      BY <1>5, <3>1 DEF ClientsByDescriptor
    <3>2. CASE f \notin DOMAIN clients
      BY <1>1, <3>2 DEF fd
    <3>. QED  BY <3>1, <3>2
  <2>2. ASSUME NEW t \in Threads
        PROVE  walk'[t] \subseteq DOMAIN clients' /\ (t = "loop" => walk'[t] = walk[t])
    BY <1>1, <1>5 DEF ClientsByDescriptor, TypeOK
  <2>. QED  BY <1>1, <2>1, <2>2 DEF ClientsByDescriptor, Threads
<1>10. ReadWhatWasSent' /\ OwnDescriptors' /\ NearlyClosed'
  BY <1>1 DEF ReadWhatWasSent, OwnDescriptors, NearlyClosed
<1>11. DescriptorsOwned'
  BY <1>1, <1>5 DEF DescriptorsOwned
<1>12. WatchedIsClient'
  BY <1>1, <1>2, <1>5 DEF WatchedIsClient
<1>. QED  BY <1>6, <1>7, <1>8, <1>9, <1>10, <1>11, <1>12

\* What closing some SessionSockets leaves: only descriptors that denote nothing.
ClosedOnly(S) ==
  /\ table' \in [Fds -> Conns \cup {Unused, Listening, Epoll, Spare}]
  /\ watched' \subseteq watched
  /\ sock' \in [Conns -> Fds \cup {NoFd}]
  /\ \A c \in Conns : sock'[c] = IF c \in S THEN NoFd ELSE sock[c]
  /\ \A f \in Fds : table'[f] = table[f] \/ table'[f] = Unused
  /\ \A f \in Fds : table'[f] \in Conns =>
       /\ table'[f] = table[f] /\ table[f] \notin S /\ sock[table[f]] = f
       /\ \A c \in S : sock[c] # f
  /\ \A f \in watched' \ {socket_fd} :
       /\ f \in Fds /\ table'[f] = table[f] /\ table[f] \in Conns \ S
       /\ \A c \in S : sock[c] # f

LEMMA CloseSessionsOnly ==
  ASSUME TypeOK, DescriptorsOwned, WatchedIsClient, NEW S \in SUBSET Conns, CloseSessions(S)
  PROVE  ClosedOnly(S)
<1>1. /\ table' = [f \in Fds |-> IF \E c \in S : sock[c] = f THEN Unused ELSE table[f]]
      /\ watched' = watched \ {sock[c] : c \in S}
      /\ sock' = [c \in Conns |-> IF c \in S THEN NoFd ELSE sock[c]]
  BY DEF CloseSessions
<1>2. /\ table' \in [Fds -> Conns \cup {Unused, Listening, Epoll, Spare}]
      /\ watched' \subseteq watched
      /\ sock' \in [Conns -> Fds \cup {NoFd}]
  BY <1>1 DEF TypeOK
<1>3. ASSUME NEW f \in Fds, table'[f] \in Conns
      PROVE  /\ table'[f] = table[f] /\ table[f] \notin S /\ sock[table[f]] = f
             /\ \A c \in S : sock[c] # f
  BY <1>1, <1>3, DescriptorKindsDistinct DEF DescriptorsOwned
<1>4. ASSUME NEW f \in watched' \ {socket_fd}
      PROVE  /\ f \in Fds /\ table'[f] = table[f] /\ table[f] \in Conns \ S
             /\ \A c \in S : sock[c] # f
  BY <1>1 DEF WatchedIsClient, TypeOK
<1>5. \A f \in Fds : table'[f] = table[f] \/ table'[f] = Unused
  BY <1>1
<1>6. \A c \in Conns : sock'[c] = IF c \in S THEN NoFd ELSE sock[c]
  BY <1>1
<1>. QED  BY <1>2, <1>3, <1>4, <1>5, <1>6 DEF ClosedOnly

\* Register (socket.cc:81-89): epoll_ctl, its failure, or the end of a session that
\* nothing holds.
LEMMA RegisterIInv ==
  ASSUME IInv, Register
  PROVE  IInv'
<1>. USE DEF IInv
<1>. DEFINE fd == sock[held]
<1>1. /\ UNCHANGED <<sent, fin, reset, backlog, got, session, clients, phantom, socket_fd>>
      /\ UNCHANGED <<running, batch, main, close, walk>>
      /\ loop = "register" /\ loop' = "events" /\ held' = Unused
  BY DEF Register, peerVars, serverVars, mainVars
<1>2. held \in Conns /\ session[held] = "open" /\ fd \notin watched \ {socket_fd}
  BY <1>1 DEF HeldByLoop
<1>3. ReadWhatWasSent' /\ HeldByLoop'
  BY <1>1 DEF ReadWhatWasSent, HeldByLoop
<1>4. CASE held \notin Range(clients)
  <2>1. ClosedOnly({held})
    BY <1>1, <1>2, <1>4, CloseSessionsOnly DEF Register
  <2>2. TypeOK'
    BY <1>1, <2>1 DEF ClosedOnly, TypeOK
  <2>3. AcceptedFirst'
    BY <1>1, <1>2, <2>1, DescriptorKindsDistinct DEF ClosedOnly, AcceptedFirst, TypeOK
  <2>4. ClientsByDescriptor'
    BY <1>1, <2>1 DEF ClosedOnly, ClientsByDescriptor, TypeOK, Range
  <2>5. OwnDescriptors' /\ NearlyClosed'
    BY <1>1, <2>1, DescriptorKindsDistinct DEF ClosedOnly, OwnDescriptors, NearlyClosed
  <2>6. DescriptorsOwned'
    BY <1>1, <2>1 DEF ClosedOnly, DescriptorsOwned
  <2>7. WatchedIsClient'
    BY <1>1, <2>1 DEF ClosedOnly, WatchedIsClient
  <2>. QED  BY <1>3, <2>2, <2>3, <2>4, <2>5, <2>6, <2>7
<1>5. CASE held \in Range(clients)
  <2>1. fd # NoFd => fd \in Fds /\ fd \in DOMAIN clients /\ clients[fd] = held
    <3>1. PICK g \in DOMAIN clients : clients[g] = held
      BY <1>5 DEF Range
    <3>. QED  BY <3>1 DEF ClientsByDescriptor, TypeOK
  <2>2. \/ /\ fd # NoFd /\ table[fd] = held /\ watched' = watched \cup {fd}
           /\ UNCHANGED <<table, sock>>
        \/ /\ table' = [table EXCEPT ![fd] = Unused] \/ (fd = NoFd /\ table' = table)
           /\ UNCHANGED <<watched, sock>>
    <3>1. CASE /\ fd # NoFd /\ table[fd] = held
               /\ watched' = watched \cup {fd} /\ UNCHANGED <<table, sock>>
      BY <3>1
    <3>2. CASE /\ table' = [f \in Fds |-> IF f = fd THEN Unused ELSE table[f]]
               /\ UNCHANGED <<watched, sock>>
      BY <3>2, <2>1, NoFdApart DEF TypeOK
    <3>. QED  BY <1>5, <3>1, <3>2 DEF Register
  <2>3. \A f \in Fds : table'[f] = table[f] \/ (f = fd /\ table'[f] = Unused)
    BY <2>1, <2>2 DEF TypeOK
  <2>4. sock' = sock /\ watched' \ {fd} = watched \ {fd}
    BY <2>2
  <2>5. TypeOK'
    <3>1. table' \in [Fds -> Conns \cup {Unused, Listening, Epoll, Spare}] /\ watched' \subseteq Fds
      BY <2>1, <2>2 DEF TypeOK
    <3>. QED  BY <1>1, <2>4, <3>1 DEF TypeOK
  <2>6. AcceptedFirst' /\ ClientsByDescriptor'
    BY <1>1, <1>2, <2>4, DescriptorKindsDistinct DEF AcceptedFirst, ClientsByDescriptor, TypeOK
  <2>7. OwnDescriptors' /\ NearlyClosed'
    BY <1>1, <2>3, DescriptorKindsDistinct DEF OwnDescriptors, NearlyClosed
  <2>8. DescriptorsOwned'
    BY <1>1, <2>1, <2>3, <2>4, DescriptorKindsDistinct, NoFdApart DEF DescriptorsOwned
  <2>9. WatchedIsClient'
    <3>. SUFFICES ASSUME NEW f \in watched' \ {socket_fd}
                  PROVE  /\ table'[f] \in Conns /\ sock[table'[f]] = f
                         /\ f \in DOMAIN clients /\ clients[f] = table'[f]
      BY <1>1, <2>4 DEF WatchedIsClient
    <3>1. CASE f \in watched
      <4>1. f # fd /\ f \in Fds /\ table'[f] = table[f]
        BY <1>2, <2>3, <3>1 DEF TypeOK
      <4>. QED  BY <3>1, <4>1 DEF WatchedIsClient
    <3>2. CASE f \notin watched
      BY <1>2, <2>1, <2>2, <3>2
    <3>. QED  BY <3>1, <3>2
  <2>. QED  BY <1>3, <2>5, <2>6, <2>7, <2>8, <2>9
<1>. QED  BY <1>4, <1>5

\* Recv() (socket.cc:215-233): data, the end of the stream or an error.
LEMMA RecvIInv ==
  ASSUME IInv, Recv
  PROVE  IInv'
<1>. USE DEF IInv
<1>1. /\ UNCHANGED <<sent, fin, reset, backlog, table, watched, sock, clients, phantom>>
      /\ UNCHANGED <<socket_fd, running, batch, held, main, close, walk>>
      /\ loop = "recv" /\ held \in Conns /\ session[held] = "open"
  BY DEF Recv, peerVars, kernelVars, serverVars, mainVars, HeldByLoop
<1>2. ClientsByDescriptor' /\ NearlyClosed' /\ DescriptorsOwned' /\ WatchedIsClient'
  BY <1>1 DEF ClientsByDescriptor, NearlyClosed, DescriptorsOwned, WatchedIsClient
<1>3. CASE RecvData(held)
  <2>1. /\ loop' = "reply" /\ session' = session
        /\ \E n \in 1..(sent[held] - got[held]) : got' = [got EXCEPT ![held] = @ + n]
    BY <1>3 DEF RecvData
  <2>2. got' \in [Conns -> 0..MaxData] /\ ReadWhatWasSent'
    BY <1>1, <2>1, ParametersOK DEF TypeOK, ReadWhatWasSent
  <2>3. TypeOK' /\ AcceptedFirst' /\ HeldByLoop' /\ OwnDescriptors'
    BY <1>1, <2>1, <2>2 DEF TypeOK, AcceptedFirst, HeldByLoop, OwnDescriptors
  <2>. QED  BY <1>2, <2>2, <2>3
<1>4. CASE RecvEnd(held) \/ RecvError(held)
  <2>1. /\ got' = got
        /\ \/ loop' = "erase" /\ session' = [session EXCEPT ![held] = "closed"]
           \/ loop' = "aborted" /\ session' = [session EXCEPT ![held] = "error"]
    BY <1>4 DEF RecvEnd, RecvError
  <2>2. /\ session'[held] # "none" /\ (loop' = "erase" => session'[held] = "closed")
        /\ \A c \in Conns : c # held => session'[c] = session[c]
    BY <1>1, <2>1 DEF TypeOK
  <2>3. TypeOK' /\ ReadWhatWasSent'
    BY <1>1, <2>1 DEF TypeOK, ReadWhatWasSent
  <2>4. AcceptedFirst'
    <3>1. \A c \in backlog : c \in Conns /\ session'[c] = "none" /\ held # c
      BY <2>2 DEF AcceptedFirst, TypeOK
    <3>2. \A f \in DOMAIN clients : clients[f] \in Conns /\ session[clients[f]] # "none"
      BY DEF AcceptedFirst, TypeOK, Range
    <3>3. \A f \in DOMAIN clients : session'[clients[f]] # "none"
      BY <2>2, <3>2
    <3>. QED  BY <1>1, <2>2, <3>1, <3>3 DEF AcceptedFirst
  <2>5. HeldByLoop' /\ OwnDescriptors'
    BY <1>1, <2>1, <2>2 DEF HeldByLoop, OwnDescriptors
  <2>. QED  BY <1>2, <2>3, <2>4, <2>5
<1>. QED  BY <1>3, <1>4 DEF Recv

\* The loop lets go of a session, which it may have taken out of clients_ under the
\* descriptor it has (socket.cc:152-158).
LEMMA ReleaseIInv ==
  ASSUME IInv, Release,
         UNCHANGED <<sent, fin, backlog, got, session, phantom, socket_fd, running, batch, main, close>>,
         reset' \in [Conns -> BOOLEAN],
         \/ loop = "reply" /\ clients' = clients /\ walk' = walk
         \/ /\ loop = "erase"
            /\ clients' = Restrict(clients, DOMAIN clients \ {sock[held]})
            /\ walk' = [walk EXCEPT !["main"] = @ \ {sock[held]}]
  PROVE  IInv'
<1>. USE DEF IInv
<1>. DEFINE fd == sock[held]
            S == {held} \ Range(clients')
<1>1. /\ held \in Conns /\ held' = Unused /\ loop' = "events"
      /\ loop = "reply" => session[held] = "open"
      /\ session[held] \in {"open", "closed"}
  BY DEF HeldByLoop, Release
<1>2. /\ DOMAIN clients' \subseteq DOMAIN clients
      /\ \A f \in DOMAIN clients' : clients'[f] = clients[f]
      /\ \A f \in DOMAIN clients \ DOMAIN clients' : f = fd
      /\ loop = "erase" => fd \notin DOMAIN clients'
  BY DEF Restrict
<1>3. ClosedOnly(S)
  <2>1. S \in SUBSET Conns /\ CloseSessions(S)
    BY <1>1 DEF Release
  <2>. HIDE DEF S
  <2>. QED  BY <2>1, CloseSessionsOnly
<1>4. held \notin S => /\ held \in Range(clients')
                       /\ fd # NoFd => fd \in DOMAIN clients' /\ clients'[fd] = held
  <2>. SUFFICES ASSUME held \in Range(clients')
                PROVE  fd # NoFd => fd \in DOMAIN clients' /\ clients'[fd] = held
    OBVIOUS
  <2>1. PICK g \in DOMAIN clients' : clients'[g] = held
    BY DEF Range
  <2>. QED  BY <1>2, <2>1 DEF ClientsByDescriptor
<1>5. \A c \in S : c = held
  OBVIOUS
<1>. HIDE DEF S
<1>6. TypeOK'
  <2>1. DOMAIN clients' \subseteq Fds /\ Range(clients') \subseteq Conns
    BY <1>2 DEF TypeOK, Range
  <2>2. walk' \in [Threads -> SUBSET Fds]
    BY DEF TypeOK
  <2>. QED  BY <1>1, <1>3, <2>1, <2>2 DEF ClosedOnly, TypeOK
<1>7. AcceptedFirst'
  <2>1. ASSUME NEW c \in Conns, sock'[c] # NoFd  PROVE session[c] = "open"
    <3>1. sock[c] # NoFd /\ c \notin S
      BY <1>3, <2>1 DEF ClosedOnly
    <3>2. c = held => loop = "reply"
      BY <1>2, <1>4, <3>1
    <3>. QED  BY <1>1, <3>1, <3>2 DEF AcceptedFirst
  <2>2. \A c \in backlog : c \in Conns /\ session[c] = "none"
    BY DEF AcceptedFirst, TypeOK
  <2>. QED  BY <1>1, <1>2, <2>1, <2>2, DescriptorKindsDistinct DEF AcceptedFirst
<1>8. ReadWhatWasSent' /\ HeldByLoop'
  BY <1>1 DEF ReadWhatWasSent, HeldByLoop
<1>9. ClientsByDescriptor'
  <2>1. \A f \in DOMAIN clients' : sock'[clients'[f]] \in {f, NoFd}
    BY <1>2, <1>3 DEF ClosedOnly, ClientsByDescriptor, TypeOK, Range
  <2>2. \A u \in Threads : walk'[u] \subseteq DOMAIN clients'
    <3>1. CASE walk' = walk /\ clients' = clients
      BY <3>1 DEF ClientsByDescriptor
    <3>2. CASE /\ loop = "erase"
               /\ clients' = Restrict(clients, DOMAIN clients \ {sock[held]})
               /\ walk' = [walk EXCEPT !["main"] = @ \ {sock[held]}]
      <4>1. DOMAIN clients' = DOMAIN clients \ {sock[held]}
        BY <3>2 DEF Restrict
      <4>2. walk["loop"] = {}
        BY <3>2 DEF OwnDescriptors, ClientsByDescriptor
      <4>. QED  BY <3>2, <4>1, <4>2 DEF ClientsByDescriptor, TypeOK, Threads
    <3>. QED  BY <3>1, <3>2
  <2>3. walk'["loop"] = walk["loop"]
    BY DEF TypeOK, Threads
  <2>. QED  BY <2>1, <2>2, <2>3 DEF ClientsByDescriptor
<1>10. OwnDescriptors' /\ NearlyClosed'
  <2>1. loop \notin {"exit", "aborted"}
    OBVIOUS
  <2>2. OwnDescriptors'
    BY <1>1, <1>3, <2>1, DescriptorKindsDistinct DEF ClosedOnly, OwnDescriptors
  <2>3. NearlyClosed'
    BY <1>3, DescriptorKindsDistinct DEF ClosedOnly, NearlyClosed
  <2>. QED  BY <2>2, <2>3
<1>11. DescriptorsOwned'
  <2>. SUFFICES ASSUME NEW f \in Fds, table'[f] \in Conns
                PROVE  /\ sock'[table'[f]] = f
                       /\ f \in DOMAIN clients' /\ clients'[f] = table'[f]
    BY <1>1, DescriptorKindsDistinct DEF DescriptorsOwned
  <2>1. /\ table'[f] = table[f] /\ table[f] \notin S /\ sock[table[f]] = f
        /\ \A c \in S : sock[c] # f
    BY <1>3 DEF ClosedOnly
  <2>2. sock'[table'[f]] = f
    BY <1>3, <2>1 DEF ClosedOnly
  <2>3. CASE table[f] = held
    BY <1>4, <2>1, <2>2, <2>3, NoFdApart
  <2>4. CASE table[f] # held
    <3>1. f \in DOMAIN clients /\ clients[f] = table[f]
      BY <2>1, <2>4 DEF DescriptorsOwned
    <3>2. f \in DOMAIN clients'
      <4>. SUFFICES ASSUME f \notin DOMAIN clients'  PROVE FALSE
        OBVIOUS
      <4>1. f = fd /\ held \notin S
        BY <1>2, <2>1, <3>1
      <4>. QED  BY <1>4, <4>1, NoFdApart
    <3>. QED  BY <1>2, <2>1, <2>2, <3>1, <3>2
  <2>. QED  BY <2>3, <2>4
<1>12. WatchedIsClient'
  <2>. SUFFICES ASSUME NEW f \in watched' \ {socket_fd}
                PROVE  /\ table'[f] \in Conns /\ sock'[table'[f]] = f
                       /\ f \in DOMAIN clients' /\ clients'[f] = table'[f]
    BY DEF WatchedIsClient
  <2>1. f \in Fds /\ table'[f] \in Conns
    BY <1>3 DEF ClosedOnly
  <2>2. held' # table'[f]
    BY <1>1, <2>1, DescriptorKindsDistinct
  <2>. QED  BY <1>11, <2>1, <2>2 DEF DescriptorsOwned
<1>. QED  BY <1>6, <1>7, <1>8, <1>9, <1>10, <1>11, <1>12

\* OnReceive returns, with or without an answer sent, or a CHECK or a signal ends
\* the process in it (socket.cc:192-199, 229-232).
LEMMA ReceiveIInv ==
  ASSUME IInv, Receive
  PROVE  IInv'
<1>1. CASE Reply
  <2>1. reset' \in [Conns -> BOOLEAN]
    BY <1>1 DEF Reply, IInv, TypeOK
  <2>. QED  BY <1>1, <2>1, ReleaseIInv DEF Receive, Reply, mainVars
<1>2. CASE ReplyAborts
  <2>1. /\ UNCHANGED <<peerVars, kernelVars, sessionVars, serverVars, batch, held, mainVars>>
        /\ loop = "reply" /\ loop' = "aborted"
    BY <1>2 DEF Receive, ReplyAborts, peerVars, kernelVars, sessionVars, serverVars
  <2>2. /\ UNCHANGED <<sent, fin, reset, backlog, table, watched, got, session, sock, clients>>
        /\ UNCHANGED <<phantom, socket_fd, running, batch, held, main, close, walk>>
    BY <2>1 DEF peerVars, kernelVars, sessionVars, serverVars, mainVars
  <2>3. TypeOK' /\ ReadWhatWasSent' /\ AcceptedFirst' /\ HeldByLoop'
    BY <2>1, <2>2 DEF IInv, TypeOK, ReadWhatWasSent, AcceptedFirst, HeldByLoop
  <2>4. ClientsByDescriptor' /\ OwnDescriptors' /\ NearlyClosed'
    BY <2>1, <2>2 DEF IInv, ClientsByDescriptor, OwnDescriptors, NearlyClosed
  <2>5. DescriptorsOwned' /\ WatchedIsClient'
    BY <2>2 DEF IInv, DescriptorsOwned, WatchedIsClient
  <2>. QED  BY <2>3, <2>4, <2>5 DEF IInv
<1>. QED  BY <1>1, <1>2 DEF Receive

LEMMA EraseIInv ==
  ASSUME IInv, Erase
  PROVE  IInv'
<1>1. reset' \in [Conns -> BOOLEAN]
  BY DEF Erase, peerVars, IInv, TypeOK
<1>. QED  BY <1>1, ReleaseIInv DEF Erase, peerVars

\* The end of Start() (socket.cc:161-162): epoll's descriptor is closed.
LEMMA LeaveLoopIInv ==
  ASSUME IInv, LeaveLoop
  PROVE  IInv'
<1>. USE DEF IInv
<1>1. /\ UNCHANGED <<sent, fin, reset, backlog, got, session, sock, clients, phantom>>
      /\ UNCHANGED <<socket_fd, running, batch, held, main, walk>>
      /\ table' = [f \in Fds |-> IF table[f] = Epoll THEN Unused ELSE table[f]]
      /\ watched' = {}
      /\ loop = "leave" /\ loop' \in {"aborted", "exit"}
      /\ close' = close \/ (loop' = "exit" /\ EnterClose("loop"))
  BY DEF LeaveLoop, peerVars, sessionVars, serverVars
<1>2. held = Unused /\ close["loop"] = "out"
  BY <1>1 DEF HeldByLoop, OwnDescriptors
<1>3. /\ close' \in [Threads -> {"out", "server", "walk", "clear", "done"}]
      /\ \A t \in Threads : /\ close'[t] \in {"walk", "clear"} => close[t] = close'[t]
                            /\ close[t] \in {"walk", "clear"} => close[t] = close'[t]
                            /\ close'[t] = "done" => close[t] = "done" \/ socket_fd = NoFd
      /\ close'["main"] = close["main"]
      /\ close'["loop"] = "out" => close' = close
  BY <1>1, <1>2 DEF EnterClose, TypeOK, Threads
<1>4. TypeOK'
  <2>1. table' \in [Fds -> Conns \cup {Unused, Listening, Epoll, Spare}]
    BY <1>1 DEF TypeOK
  <2>. QED  BY <1>1, <1>3, <2>1 DEF TypeOK
<1>5. ReadWhatWasSent' /\ AcceptedFirst' /\ HeldByLoop'
  BY <1>1, <1>2, <1>3 DEF ReadWhatWasSent, AcceptedFirst, HeldByLoop
<1>6. ClientsByDescriptor'
  BY <1>1, <1>3 DEF ClientsByDescriptor
<1>7. OwnDescriptors'
  <2>1. \A f \in Fds : table'[f] # Epoll /\ (table'[f] = Listening => table[f] = Listening)
    BY <1>1, DescriptorKindsDistinct
  <2>. QED  BY <1>1, <1>3, <2>1 DEF OwnDescriptors
<1>8. NearlyClosed'
  <2>1. \A f \in Fds : table'[f] \in Conns => table[f] = table'[f]
    BY <1>1, DescriptorKindsDistinct
  <2>. QED  BY <1>1, <1>3, <2>1 DEF NearlyClosed
<1>9. DescriptorsOwned' /\ WatchedIsClient'
  BY <1>1, DescriptorKindsDistinct DEF DescriptorsOwned, WatchedIsClient
<1>. QED  BY <1>4, <1>5, <1>6, <1>7, <1>8, <1>9

-----------------------------------------------------------------------------
(* ServerSocket::Close() on either thread (socket.cc:173-184). *)

\* A thread in Close() is the main thread, or the loop after its end.
LEMMA ClosingThread ==
  ASSUME IInv, Alive, NEW t \in Threads, close[t] # "out"
  PROVE  \/ t = "loop" /\ loop = "exit" /\ held = Unused
         \/ t = "main"
BY DEF IInv, OwnDescriptors, HeldByLoop, Alive, Threads

LEMMA CloseServerIInv ==
  ASSUME IInv, Alive, NEW t \in Threads, CloseServer(t),
         UNCHANGED <<peerVars, got, session, phantom, running, loopVars, main>>
  PROVE  IInv'
<1>. USE DEF IInv
<1>1. /\ UNCHANGED <<sent, fin, reset, got, session, sock, clients, phantom>>
      /\ UNCHANGED <<running, loop, batch, held, main>>
      /\ backlog' = {} \/ (backlog' = backlog /\ socket_fd = NoFd)
      /\ table' = [table EXCEPT ![socket_fd] = Unused] \/ (table' = table /\ socket_fd = NoFd)
      /\ watched' = watched \ {socket_fd} \/ (watched' = watched /\ socket_fd = NoFd)
      /\ socket_fd' = NoFd
      /\ close[t] = "server"
      /\ close' = [close EXCEPT ![t] = "walk"]
      /\ walk' = [walk EXCEPT ![t] = DOMAIN clients]
  BY DEF CloseServer, CloseFd, peerVars, loopVars
<1>2. \A f \in Fds : table'[f] = IF f = socket_fd THEN Unused ELSE table[f]
  BY <1>1, NoFdApart DEF TypeOK
<1>3. \A u \in Threads : close'[u] = IF u = t THEN "walk" ELSE close[u]
  BY <1>1 DEF TypeOK
<1>4. watched' = watched \ {socket_fd}
  BY <1>1, NoFdApart DEF TypeOK
<1>5. TypeOK'
  <2>1. table' \in [Fds -> Conns \cup {Unused, Listening, Epoll, Spare}] /\ backlog' \subseteq Conns
    BY <1>1 DEF TypeOK
  <2>2. walk' \in [Threads -> SUBSET Fds]
    BY <1>1 DEF TypeOK
  <2>3. close' \in [Threads -> {"out", "server", "walk", "clear", "done"}]
    BY <1>1 DEF TypeOK
  <2>. QED  BY <1>1, <1>4, <2>1, <2>2, <2>3 DEF TypeOK
<1>6. AcceptedFirst'
  BY <1>1 DEF AcceptedFirst
<1>7. ReadWhatWasSent' /\ ClientsByDescriptor'
  BY <1>1, <1>3 DEF ReadWhatWasSent, ClientsByDescriptor, TypeOK, Threads
<1>8. HeldByLoop'
  BY <1>1, <1>3, <1>4, NoFdApart DEF HeldByLoop, TypeOK, Threads
<1>9. OwnDescriptors' /\ NearlyClosed'
  <2>1. OwnDescriptors'
    BY <1>1, <1>2, <1>3, DescriptorKindsDistinct DEF OwnDescriptors, Threads
  <2>2. NearlyClosed'
    BY <1>1, <1>3 DEF NearlyClosed
  <2>. QED  BY <2>1, <2>2
<1>10. DescriptorsOwned'
  BY <1>1, <1>2, DescriptorKindsDistinct DEF DescriptorsOwned
<1>11. WatchedIsClient'
  <2>. SUFFICES ASSUME NEW f \in watched \ {socket_fd}
                PROVE  /\ table'[f] \in Conns /\ sock[table'[f]] = f
                       /\ IF f \in DOMAIN clients THEN clients[f] = table'[f] ELSE held = table'[f]
    BY <1>1, <1>4 DEF WatchedIsClient
  <2>1. table'[f] = table[f]
    BY <1>2 DEF TypeOK
  <2>. QED  BY <2>1 DEF WatchedIsClient
<1>. QED  BY <1>5, <1>6, <1>7, <1>8, <1>9, <1>10, <1>11

LEMMA CloseClientIInv ==
  ASSUME IInv, Alive, NEW t \in Threads, CloseClient(t),
         UNCHANGED <<peerVars, got, session, phantom, running, loopVars, main>>
  PROVE  IInv'
<1>. USE DEF IInv
<1>1. PICK g \in walk[t] : CloseSessions({clients[g]}) /\ walk' = [walk EXCEPT ![t] = @ \ {g}]
  BY DEF CloseClient
<1>2. PICK c : c = clients[g]
  OBVIOUS
<1>3. c \in Conns /\ session[c] # "none"
  BY <1>1, <1>2 DEF ClientsByDescriptor, AcceptedFirst, TypeOK, Range
<1>4. ClosedOnly({c})
  <2>1. CloseSessions({c}) /\ {c} \in SUBSET Conns
    BY <1>1, <1>2, <1>3
  <2>. QED  BY <2>1, CloseSessionsOnly
<1>5. /\ UNCHANGED <<sent, fin, reset, backlog, got, session, clients, phantom>>
      /\ UNCHANGED <<socket_fd, running, loop, batch, held, main, close>>
      /\ close[t] = "walk"
  BY DEF CloseClient, peerVars, loopVars
<1>6. /\ walk' \in [Threads -> SUBSET Fds]
      /\ \A u \in Threads : walk'[u] \subseteq walk[u]
      /\ close["loop"] = "out" => walk'["loop"] = {}
  BY <1>1, <1>5 DEF TypeOK, ClientsByDescriptor, Threads
<1>7. TypeOK' /\ ReadWhatWasSent'
  <2>1. TypeOK'
    BY <1>4, <1>5, <1>6 DEF ClosedOnly, TypeOK
  <2>. QED  BY <1>5, <2>1 DEF ReadWhatWasSent
<1>8. AcceptedFirst'
  BY <1>4, <1>5 DEF ClosedOnly, AcceptedFirst
<1>9. HeldByLoop'
  <2>1. \/ t = "loop" /\ loop = "exit" /\ held = Unused
        \/ close["main"] # "out"
    BY <1>5, ClosingThread
  <2>2. held \in Conns => sock'[held] = IF held = c THEN NoFd ELSE sock[held]
    BY <1>4 DEF ClosedOnly
  <2>3. watched' \subseteq watched
    BY <1>4 DEF ClosedOnly
  <2>. QED  BY <1>3, <1>5, <2>1, <2>2, <2>3, NoFdApart DEF HeldByLoop, TypeOK
<1>10. ClientsByDescriptor'
  BY <1>4, <1>5, <1>6 DEF ClosedOnly, ClientsByDescriptor, TypeOK, Range
<1>11. OwnDescriptors'
  BY <1>4, <1>5, DescriptorKindsDistinct DEF ClosedOnly, OwnDescriptors
<1>12. NearlyClosed'
  BY <1>5 DEF NearlyClosed
<1>13. DescriptorsOwned'
  BY <1>4, <1>5 DEF ClosedOnly, DescriptorsOwned
<1>14. WatchedIsClient'
  BY <1>4, <1>5 DEF ClosedOnly, WatchedIsClient
<1>. QED  BY <1>7, <1>8, <1>9, <1>10, <1>11, <1>12, <1>13, <1>14

LEMMA EndWalkIInv ==
  ASSUME IInv, NEW t \in Threads, EndWalk(t),
         UNCHANGED <<peerVars, got, session, phantom, running, loopVars, main>>
  PROVE  IInv'
<1>. USE DEF IInv
<1>1. /\ UNCHANGED <<sent, fin, reset, backlog, table, watched, got, session, sock, clients>>
      /\ UNCHANGED <<phantom, socket_fd, running, loop, batch, held, main, walk>>
      /\ close[t] = "walk"
      /\ close' = [close EXCEPT ![t] = "clear"]
  BY DEF EndWalk, peerVars, kernelVars, loopVars
<1>2. /\ close' \in [Threads -> {"out", "server", "walk", "clear", "done"}]
      /\ \A u \in Threads : close'[u] = IF u = t THEN "clear" ELSE close[u]
  BY <1>1 DEF TypeOK
<1>3. TypeOK' /\ ReadWhatWasSent' /\ AcceptedFirst'
  BY <1>1, <1>2 DEF TypeOK, ReadWhatWasSent, AcceptedFirst
<1>4. HeldByLoop' /\ ClientsByDescriptor' /\ OwnDescriptors'
  BY <1>1, <1>2 DEF HeldByLoop, ClientsByDescriptor, OwnDescriptors, Threads
<1>5. NearlyClosed' /\ DescriptorsOwned' /\ WatchedIsClient'
  BY <1>1, <1>2 DEF NearlyClosed, DescriptorsOwned, WatchedIsClient
<1>. QED  BY <1>3, <1>4, <1>5

LEMMA ClearIInv ==
  ASSUME IInv, Alive, NEW t \in Threads, Clear(t),
         UNCHANGED <<peerVars, got, session, phantom, running, loopVars, main>>
  PROVE  IInv'
<1>. USE DEF IInv
<1>. DEFINE S == Range(clients) \ {held}
<1>1. ClosedOnly(S)
  <2>1. S \in SUBSET Conns /\ CloseSessions(S)
    BY DEF Clear, TypeOK
  <2>. HIDE DEF S
  <2>. QED  BY <2>1, CloseSessionsOnly
<1>2. /\ UNCHANGED <<sent, fin, reset, backlog, got, session, phantom>>
      /\ UNCHANGED <<socket_fd, running, loop, batch, held, main>>
      /\ close[t] = "clear"
      /\ DOMAIN clients' = {}
      /\ close' = [close EXCEPT ![t] = "done"]
      /\ walk' = [s \in Threads |-> {}]
  BY DEF Clear, peerVars, loopVars
<1>3. /\ close' \in [Threads -> {"out", "server", "walk", "clear", "done"}]
      /\ \A u \in Threads : close'[u] = IF u = t THEN "done" ELSE close[u]
  BY <1>2 DEF TypeOK
<1>4. \A f \in DOMAIN clients : clients[f] \in S \cup {held}
  BY DEF Range
<1>5. held \notin S
  OBVIOUS
<1>. HIDE DEF S
<1>6. TypeOK' /\ ReadWhatWasSent'
  <2>1. TypeOK'
    BY <1>1, <1>2, <1>3 DEF ClosedOnly, TypeOK, Range
  <2>. QED  BY <1>2, <2>1 DEF ReadWhatWasSent
<1>7. AcceptedFirst'
  BY <1>1, <1>2 DEF ClosedOnly, AcceptedFirst
<1>8. HeldByLoop'
  <2>1. held \in Conns => sock'[held] = sock[held]
    BY <1>1, <1>5 DEF ClosedOnly
  <2>. QED  BY <1>1, <1>2, <1>3, <2>1 DEF ClosedOnly, HeldByLoop, Threads
<1>9. ClientsByDescriptor' /\ OwnDescriptors'
  <2>1. ClientsByDescriptor'
    BY <1>2 DEF ClientsByDescriptor, Threads
  <2>2. OwnDescriptors'
    BY <1>1, <1>2, <1>3, DescriptorKindsDistinct DEF ClosedOnly, OwnDescriptors
  <2>. QED  BY <2>1, <2>2
<1>10. ASSUME NEW f \in Fds, table'[f] \in Conns
       PROVE  table'[f] = table[f] /\ table[f] = held /\ sock[held] = f /\ sock'[held] = f
  BY <1>1, <1>4, <1>10 DEF ClosedOnly, DescriptorsOwned
<1>11. DescriptorsOwned'
  BY <1>2, <1>10 DEF DescriptorsOwned
<1>12. WatchedIsClient'
  BY <1>1, <1>2, <1>10 DEF ClosedOnly, WatchedIsClient
<1>13. NearlyClosed'
  <2>. SUFFICES ASSUME NEW f \in Fds, table'[f] \in Conns
                PROVE  /\ close'["main"] = "done"
                       /\ \A g \in Fds : table'[g] \in Conns => g = f
    BY DEF NearlyClosed
  <2>1. held \in Conns
    BY <1>10
  <2>2. t = "main"
    BY <1>2, <2>1, ClosingThread, DescriptorKindsDistinct
  <2>3. \A g \in Fds : table'[g] \in Conns => g = f
    BY <1>10
  <2>. QED  BY <1>3, <2>2, <2>3
<1>. QED  BY <1>6, <1>7, <1>8, <1>9, <1>11, <1>12, <1>13

LEMMA CloseStepIInv ==
  ASSUME IInv, Alive, NEW t \in Threads, CloseStep(t)
  PROVE  IInv'
BY CloseServerIInv, CloseClientIInv, EndWalkIInv, ClearIInv DEF CloseStep

\* Stop(), the call of Close() and the return from main() (server.cc:188-190).
LEMMA MainStepIInv ==
  ASSUME IInv, MainStep
  PROVE  IInv'
<1>. USE DEF IInv
<1>1. CASE CloseStep("main")
  BY <1>1, CloseStepIInv DEF MainStep, Threads
<1>2. CASE MainStops \/ MainReturns
  <2>1. /\ UNCHANGED <<sent, fin, reset, backlog, table, watched, got, session, sock, clients>>
        /\ UNCHANGED <<phantom, socket_fd, loop, batch, held, close, walk>>
        /\ \/ main = "app" /\ main' = "stopped"
           \/ main' = "exited"
        /\ running' \in BOOLEAN
    BY <1>2 DEF MainStops, MainReturns, peerVars, kernelVars, sessionVars, serverVars, loopVars,
                TypeOK
  <2>2. TypeOK' /\ ReadWhatWasSent' /\ AcceptedFirst'
    BY <2>1 DEF TypeOK, ReadWhatWasSent, AcceptedFirst
  <2>3. HeldByLoop' /\ ClientsByDescriptor' /\ OwnDescriptors'
    BY <2>1 DEF HeldByLoop, ClientsByDescriptor, OwnDescriptors
  <2>4. NearlyClosed' /\ DescriptorsOwned' /\ WatchedIsClient'
    BY <2>1 DEF NearlyClosed, DescriptorsOwned, WatchedIsClient
  <2>. QED  BY <2>2, <2>3, <2>4
<1>3. CASE MainCloses
  <2>1. /\ UNCHANGED <<sent, fin, reset, backlog, table, watched, got, session, sock, clients>>
        /\ UNCHANGED <<phantom, socket_fd, running, loop, batch, held, walk>>
        /\ main' = "closing"
        /\ close' = [close EXCEPT !["main"] = IF socket_fd = NoFd THEN "done" ELSE "server"]
    BY <1>3 DEF MainCloses, EnterClose, peerVars, kernelVars, sessionVars, serverVars, loopVars
  <2>2. /\ close' \in [Threads -> {"out", "server", "walk", "clear", "done"}]
        /\ close'["loop"] = close["loop"]
        /\ close'["main"] = IF socket_fd = NoFd THEN "done" ELSE "server"
    BY <2>1 DEF TypeOK, Threads
  <2>3. TypeOK' /\ ReadWhatWasSent' /\ AcceptedFirst'
    BY <2>1, <2>2 DEF TypeOK, ReadWhatWasSent, AcceptedFirst
  <2>4. HeldByLoop' /\ ClientsByDescriptor' /\ OwnDescriptors'
    BY <2>1, <2>2 DEF HeldByLoop, ClientsByDescriptor, OwnDescriptors, Threads
  <2>5. NearlyClosed'
    <3>1. close["main"] = "out"
      BY <1>3 DEF MainCloses, OwnDescriptors
    <3>. QED  BY <2>1, <2>2, <3>1 DEF NearlyClosed, Threads
  <2>6. DescriptorsOwned' /\ WatchedIsClient'
    BY <2>1 DEF DescriptorsOwned, WatchedIsClient
  <2>. QED  BY <2>3, <2>4, <2>5, <2>6
<1>. QED  BY <1>1, <1>2, <1>3 DEF MainStep

LEMMA NextIInv ==
  ASSUME IInv, [Next]_vars
  PROVE  IInv'
<1>1. CASE LoopStep
  <2>1. CASE CallAccept
    BY <2>1, AcceptIInv, AcceptFailsIInv DEF CallAccept
  <2>2. CASE CloseStep("loop")
    BY <1>1, <2>2, CloseStepIInv DEF LoopStep, Threads
  <2>. QED
    BY <1>1, <2>1, <2>2, ControlIInv, HandleClientIInv, InsertIInv, RegisterIInv, RecvIInv,
       ReceiveIInv, EraseIInv, LeaveLoopIInv DEF LoopStep
<1>2. CASE UNCHANGED vars
  BY <1>2 DEF vars, peerVars, kernelVars, sessionVars, serverVars, loopVars, mainVars, IInv,
     TypeOK, ReadWhatWasSent, AcceptedFirst, HeldByLoop, ClientsByDescriptor, OwnDescriptors,
     NearlyClosed, DescriptorsOwned, WatchedIsClient
<1>. QED  BY <1>1, <1>2, PeerStepIInv, MainStepIInv DEF Next

LEMMA Invariance == Spec => []IInv
BY InitIInv, NextIInv, PTL DEF Spec

-----------------------------------------------------------------------------
(* What the server's sockets promise, for every load and every failing call. *)

\* Every variable keeps its type.
THEOREM TypeCorrect == Spec => []TypeOK
BY Invariance, PTL DEF IInv

\* No connection's descriptor is orphaned: Close() and the SessionSockets'
\* destructors can reach all of them (socket.cc:152-158, 173-184).
THEOREM NoOrphans == Spec => []DescriptorsOwned
BY Invariance, PTL DEF IInv

\* Start() hands each event to the SessionSocket it happened on
\* (socket.cc:140-158), reused descriptors and lost ones included.
THEOREM EventsReachTheirClient == Spec => []WatchedIsClient
BY Invariance, PTL DEF IInv

\* Behind the loop, and outside main()'s own Close(), nothing of the server's is
\* left open but what Accept() lost (socket.cc:70-72) and at most the connection
\* that the loop had in its hands when main() cleared clients_ (socket.cc:183).
THEOREM NothingLeftOpen == Spec => []ClosedBehindLoop
<1>1. IInv => ClosedBehindLoop
  <2>. SUFFICES ASSUME IInv, close["loop"] = "done", close["main"] \in {"out", "done"},
                       NEW f \in Fds, table[f] \notin {Unused, Spare}
                PROVE  /\ table[f] \in Conns /\ close["main"] = "done"
                       /\ \A g \in Fds : table[g] \in Conns => g = f
    BY DEF ClosedBehindLoop
  <2>1. socket_fd = NoFd /\ table[f] # Epoll /\ f # NoFd
    BY NoFdApart DEF IInv, OwnDescriptors, Threads
  <2>2. table[f] \in Conns
    BY <2>1 DEF IInv, TypeOK, OwnDescriptors
  <2>. QED  BY <2>1, <2>2 DEF IInv, NearlyClosed, Threads
<1>. QED  BY <1>1, Invariance, PTL

-----------------------------------------------------------------------------
(* What the loop finds when it comes to an event. *)

\* Until the main thread closes the server, only the loop takes data and
\* connections: each event of the batch is for a descriptor of its own, and is
\* still there when the loop handles it.
Fresh ==
  close["main"] = "out" =>
    /\ \A i \in 1..Len(batch) : batch[i] \in Ready
    /\ \A i, j \in 1..Len(batch) : i < j => batch[i] # batch[j]
    /\ loop \in {"check", "wait", "leave", "exit"} => batch = <<>>
    /\ loop = "accept" => \A i \in 1..Len(batch) : batch[i] # socket_fd
    /\ loop \in {"found", "recv"} => Readable(held)
    /\ held \in Conns =>
         /\ sock[held] \in Fds /\ table[sock[held]] = held
         /\ \A i \in 1..Len(batch) : batch[i] # sock[held]

\* Nothing but the loop takes an event away.
LEMMA ReadyKept ==
  ASSUME NEW f \in Ready, f \in watched', table'[f] = table[f],
         table[f] = Listening => backlog' # {},
         table[f] \in Conns =>
           got'[table[f]] < sent'[table[f]] \/ fin'[table[f]]
  PROVE  f \in Ready'
BY DEF Ready, Readable

\* The events that remain when one has been taken off the batch.
LEMMA TailKept ==
  ASSUME TypeOK, HandlingEvent,
         \A i, j \in 1..Len(batch) : i < j => batch[i] # batch[j]
  PROVE  /\ 1 \in 1..Len(batch) /\ Head(batch) = batch[1]
         /\ \A i \in 1..Len(Tail(batch)) :
              /\ \E k \in 1..Len(batch) : Tail(batch)[i] = batch[k]
              /\ Tail(batch)[i] # Head(batch)
         /\ \A i, j \in 1..Len(Tail(batch)) : i < j => Tail(batch)[i] # Tail(batch)[j]
<1>1. batch \in Seq(Fds) /\ batch # <<>>
  BY DEF TypeOK, HandlingEvent
<1>2. /\ Len(batch) \in Nat /\ Len(batch) >= 1 /\ Len(Tail(batch)) = Len(batch) - 1
      /\ Head(batch) = batch[1]
      /\ \A i \in 1..Len(Tail(batch)) : Tail(batch)[i] = batch[i + 1]
  BY <1>1, HeadTailProperties
<1>. DEFINE rest == Tail(batch)
<1>. HIDE DEF rest
<1>3. /\ Len(rest) = Len(batch) - 1
      /\ \A i \in 1..Len(rest) : rest[i] = batch[i + 1]
  BY <1>2 DEF rest
<1>4. \A i \in 1..Len(rest) : i + 1 \in 1..Len(batch) /\ 1 < i + 1
  BY <1>2, <1>3
<1>5. 1 \in 1..Len(batch)
  BY <1>2
<1>6. \A i \in 1..Len(rest) : rest[i] # batch[1]
  BY <1>3, <1>4, <1>5
<1>7. ASSUME NEW i \in 1..Len(rest), NEW j \in 1..Len(rest), i < j
      PROVE  rest[i] # rest[j]
  <2>1. i + 1 < j + 1
    BY <1>2, <1>3, <1>7
  <2>. QED  BY <1>3, <1>4, <2>1
<1>8. \A i \in 1..Len(rest) : \E k \in 1..Len(batch) : rest[i] = batch[k]
  BY <1>3, <1>4
<1>. QED  BY <1>2, <1>5, <1>6, <1>7, <1>8 DEF rest

LEMMA PeerStepFresh ==
  ASSUME IInv, Fresh, PeerStep
  PROVE  Fresh'
<1>1. PICK c \in Conns : PeerConnects(c) \/ PeerSends(c) \/ PeerCloses(c)
  BY DEF PeerStep
<1>2. /\ UNCHANGED <<table, watched, got, session, sock, clients, socket_fd>>
      /\ UNCHANGED <<loop, batch, held, main, close>>
  BY <1>1 DEF PeerConnects, PeerSends, PeerCloses, peerVars, kernelVars, sessionVars,
     serverVars, loopVars, mainVars
<1>. SUFFICES ASSUME close["main"] = "out"  PROVE Fresh'
  BY <1>2 DEF Fresh
<1>3. \A d \in Conns : sent[d] \in Nat /\ got[d] \in Nat
  BY ParametersOK DEF IInv, TypeOK
<1>4. /\ \A d \in Conns : sent[d] <= sent'[d] /\ sent'[d] \in Nat /\ (fin[d] => fin'[d])
      /\ backlog \subseteq backlog'
  <2>1. CASE PeerConnects(c)
    BY <1>3, <2>1 DEF PeerConnects, peerVars
  <2>2. CASE PeerSends(c)
    <3>1. /\ UNCHANGED <<fin, backlog>> /\ sent' = [sent EXCEPT ![c] = @ + 1]
          /\ sent \in [Conns -> 0..MaxData]
      BY <2>2 DEF PeerSends, kernelVars, IInv, TypeOK
    <3>2. \A d \in Conns : sent'[d] = IF d = c THEN sent[d] + 1 ELSE sent[d]
      BY <3>1
    <3>. QED  BY <1>3, <3>1, <3>2
  <2>3. CASE PeerCloses(c)
    <3>1. /\ UNCHANGED <<sent, backlog>> /\ fin' = [fin EXCEPT ![c] = TRUE]
          /\ fin \in [Conns -> BOOLEAN]
      BY <2>3 DEF PeerCloses, kernelVars, IInv, TypeOK
    <3>. QED  BY <1>3, <3>1
  <2>. QED  BY <1>1, <2>1, <2>2, <2>3
<1>5. ASSUME NEW d \in Conns, Readable(d)  PROVE Readable(d)'
  BY <1>2, <1>3, <1>4, <1>5 DEF Readable
<1>6. \A f \in Ready : f \in Ready'
  BY <1>2, <1>4, <1>5 DEF Ready
<1>7. loop \in {"found", "recv"} => Readable(held)'
  <2>1. loop \in {"found", "recv"} => held \in Conns /\ Readable(held)
    BY DEF Fresh, IInv, HeldByLoop
  <2>. QED  BY <1>2, <1>5, <2>1 DEF Readable
<1>8. loop' \in {"found", "recv"} => Readable(held)'
  BY <1>2, <1>7
<1>. QED  BY <1>2, <1>4, <1>6, <1>8 DEF Fresh

\* The loop's own steps; epoll_wait reports each ready descriptor once.
LEMMA ControlFresh ==
  ASSUME IInv, Fresh,
         \/ CheckRunning \/ EpollWait \/ EpollTimeout \/ EpollFails \/ EventsDone
         \/ HandleListening \/ HandleUnknown \/ RecvChecks \/ Race
  PROVE  Fresh'
<1>1. UNCHANGED loopControl
  BY DEF CheckRunning, EpollWait, EpollTimeout, EpollFails, EventsDone, HandleListening,
         HandleUnknown, RecvChecks, Race
<1>2. /\ UNCHANGED <<sent, fin, reset, backlog, table, watched, got, session, sock, clients>>
      /\ UNCHANGED <<socket_fd, running, held, main, close>>
  BY <1>1 DEF loopControl, peerVars, kernelVars, sessionVars, serverVars, mainVars
<1>. SUFFICES ASSUME close["main"] = "out"  PROVE Fresh'
  BY <1>2 DEF Fresh
<1>3. Ready' = Ready /\ (Readable(held) <=> Readable(held)')
  BY <1>2 DEF Ready, Readable
<1>4. CASE EpollWait
  <2>1. PICK S \in SUBSET Ready : batch' \in SetToSeqs(S)
    BY <1>4 DEF EpollWait
  <2>2. S \in SUBSET Fds /\ IsFiniteSet(S)
    <3>1. S \in SUBSET Fds /\ IsFiniteSet(Fds)
      BY FS_Interval, ParametersOK DEF Ready, IInv, TypeOK, Fds
    <3>. QED  BY <3>1, FS_Subset
  <2>3. Cardinality(S) \in Nat
    BY <2>2, FS_CardinalityType
  <2>4. /\ batch' \in [1..Cardinality(S) -> S]
        /\ \A i, j \in 1..Cardinality(S) : i # j => batch'[i] # batch'[j]
    BY <2>1 DEF SetToSeqs
  <2>5. Len(batch') = Cardinality(S)
    BY <2>3, <2>4
  <2>6. /\ \A i \in 1..Len(batch') : batch'[i] \in Ready
        /\ \A i, j \in 1..Len(batch') : i < j => batch'[i] # batch'[j]
    BY <2>3, <2>4, <2>5
  <2>7. held = Unused /\ loop' = "events"
    BY <1>4 DEF EpollWait, IInv, HeldByLoop
  <2>. QED  BY <1>2, <1>3, <2>6, <2>7, DescriptorKindsDistinct DEF Fresh
<1>5. CASE HandleListening \/ HandleUnknown
  <2>1. /\ HandlingEvent /\ batch' = Tail(batch) /\ held = Unused
        /\ \/ HandleListening /\ loop' = "accept" /\ Head(batch) = socket_fd
           \/ loop' = "events"
    BY <1>5 DEF HandleListening, HandleUnknown, HandlingEvent, IInv, HeldByLoop
  <2>2. /\ 1 \in 1..Len(batch) /\ Head(batch) = batch[1]
        /\ \A i \in 1..Len(batch') : /\ \E k \in 1..Len(batch) : batch'[i] = batch[k]
                                     /\ batch'[i] # Head(batch)
        /\ \A i, j \in 1..Len(batch') : i < j => batch'[i] # batch'[j]
    BY <2>1, TailKept DEF Fresh, IInv
  <2>3. /\ Head(batch) \in Ready
        /\ \A i \in 1..Len(batch') : batch'[i] \in Ready
    BY <2>2 DEF Fresh
  <2>. QED  BY <1>2, <1>3, <2>1, <2>2, <2>3, DescriptorKindsDistinct DEF Fresh
<1>6. CASE CheckRunning \/ EpollTimeout \/ EpollFails \/ EventsDone \/ RecvChecks \/ Race
  <2>1. /\ batch' = batch
        /\ \/ loop \in {"check", "wait"} /\ loop' \in {"check", "wait", "leave"}
           \/ loop = "events" /\ loop' = "check" /\ batch = <<>>
           \/ loop = "found" /\ loop' = "recv"
           \/ loop' = "aborted"
    BY <1>6 DEF CheckRunning, EpollTimeout, EpollFails, EventsDone, RecvChecks, Race
  <2>. QED  BY <1>2, <1>3, <2>1 DEF Fresh
<1>. QED  BY <1>4, <1>5, <1>6

\* The session taken for an event is the one whose descriptor it is.
LEMMA HandleClientFresh ==
  ASSUME IInv, Fresh, HandleClient
  PROVE  Fresh'
<1>1. /\ UNCHANGED <<sent, fin, reset, backlog, table, watched, got, session, sock, clients>>
      /\ UNCHANGED <<socket_fd, running, main, close>>
  BY DEF HandleClient, peerVars, kernelVars, sessionVars, serverVars, mainVars
<1>. SUFFICES ASSUME close["main"] = "out"  PROVE Fresh'
  BY <1>1 DEF Fresh
<1>2. /\ HandlingEvent /\ batch' = Tail(batch) /\ loop' = "found"
      /\ Head(batch) # socket_fd /\ Head(batch) \in DOMAIN clients
      /\ held' = clients[Head(batch)]
  BY DEF HandleClient
<1>3. /\ 1 \in 1..Len(batch) /\ Head(batch) = batch[1]
      /\ \A i \in 1..Len(batch') : /\ \E k \in 1..Len(batch) : batch'[i] = batch[k]
                                   /\ batch'[i] # Head(batch)
      /\ \A i, j \in 1..Len(batch') : i < j => batch'[i] # batch'[j]
  BY <1>2, TailKept DEF Fresh, IInv
<1>4. PICK g \in Ready : g = Head(batch)
  BY <1>3 DEF Fresh
<1>5. /\ g \in Fds /\ table[g] \in Conns /\ held' = table[g] /\ sock[held'] = g
  BY <1>2, <1>4 DEF IInv, WatchedIsClient, Ready, TypeOK
<1>6. Readable(held)'
  BY <1>1, <1>4, <1>5, DescriptorKindsDistinct DEF Ready, Readable
<1>7. \A i \in 1..Len(batch') : batch'[i] \in Ready' /\ batch'[i] # sock'[held']
  <2>1. Ready' = Ready
    BY <1>1 DEF Ready, Readable
  <2>. QED  BY <1>1, <1>3, <1>4, <1>5, <2>1 DEF Fresh
<1>. QED  BY <1>1, <1>2, <1>3, <1>5, <1>6, <1>7 DEF Fresh

\* A descriptor that accept() gives is not one that epoll has reported.
LEMMA CallAcceptFresh ==
  ASSUME IInv, Fresh, CallAccept
  PROVE  Fresh'
<1>. USE DEF IInv
<1>1. /\ UNCHANGED <<sent, fin, reset, watched, got, session, clients, socket_fd>>
      /\ UNCHANGED <<batch, main, close>>
      /\ loop = "accept" /\ loop' \in {"insert", "events", "aborted"}
  BY DEF CallAccept, Accept, AcceptFails, AcceptExits, peerVars, mainVars
<1>. SUFFICES ASSUME close["main"] = "out"  PROVE Fresh'
  BY <1>1 DEF Fresh
<1>2. held = Unused
  BY <1>1 DEF HeldByLoop
<1>3. ASSUME \A f \in Fds : table[f] # Unused => table'[f] = table[f],
             NEW i \in 1..Len(batch)
      PROVE  batch[i] \in Ready'
  <2>1. PICK f \in Ready : f = batch[i] /\ f # socket_fd
    BY <1>1 DEF Fresh
  <2>2. f \in Fds /\ table[f] # Listening /\ table[f] \in Conns
    BY <2>1 DEF Ready, TypeOK, OwnDescriptors
  <2>3. table'[f] = table[f]
    BY <1>3, <2>2, DescriptorKindsDistinct
  <2>. QED  BY <1>1, <2>1, <2>2, <2>3, ReadyKept, DescriptorKindsDistinct DEF Ready, Readable
<1>4. CASE \E c \in backlog : Accept(c)
  <2>1. PICK c \in backlog : Accept(c)
    BY <1>4
  <2>2. PICK fd \in Fds, spare \in Fds :
          /\ fd # spare /\ table[fd] = Unused /\ table[spare] = Unused
          /\ table' = [table EXCEPT ![fd] = c, ![spare] = Spare]
          /\ sock' = [sock EXCEPT ![c] = fd]
    BY <2>1, TwoUnused
  <2>3. c \in Conns /\ held' = c /\ loop' = "insert"
    BY <2>1 DEF Accept, TypeOK
  <2>4. sock'[held'] = fd /\ table'[fd] = c /\ \A f \in Fds : table[f] # Unused => table'[f] = table[f]
    BY <2>2, <2>3 DEF TypeOK
  <2>5. \A i \in 1..Len(batch) : batch[i] # fd
    BY <2>2, DescriptorKindsDistinct DEF Fresh, Ready
  <2>. QED  BY <1>1, <1>3, <2>3, <2>4, <2>5 DEF Fresh
<1>5. CASE AcceptFails \/ AcceptExits
  <2>1. held' = held
    BY <1>5 DEF AcceptFails, AcceptExits
  <2>2. \A f \in Fds : table[f] # Unused => table'[f] = table[f]
    <3>1. CASE AcceptFails
      <4>1. UnusedFds \in SUBSET Fds /\ UnusedFds # {}
        BY <3>1 DEF AcceptFails, UnusedFds
      <4>2. PICK g \in UnusedFds : g = Lowest(UnusedFds)
        BY <4>1, LowestIn
      <4>3. table' = table \/ table' = [table EXCEPT ![g] = Spare]
        BY <3>1, <4>2 DEF AcceptFails
      <4>. QED  BY <4>1, <4>2, <4>3 DEF UnusedFds, TypeOK
    <3>2. CASE AcceptExits
      BY <3>2 DEF AcceptExits
    <3>. QED  BY <1>5, <3>1, <3>2
  <2>3. loop' \in {"events", "aborted"}
    BY <1>5 DEF AcceptFails, AcceptExits
  <2>. QED  BY <1>1, <1>2, <1>3, <2>1, <2>2, <2>3, DescriptorKindsDistinct DEF Fresh
<1>. QED  BY <1>4, <1>5 DEF CallAccept

\* Of what epoll has reported, the loop only takes away what it has in its hands.
LEMMA LetGoFresh ==
  ASSUME IInv, Fresh,
         UNCHANGED <<sent, fin, backlog, got, socket_fd, batch, close>>,
         loop \in {"register", "reply", "erase"}, loop' = "events", held' = Unused,
         \A f \in Fds : table'[f] = table[f] \/ f = sock[held],
         watched \ {sock[held]} \subseteq watched'
  PROVE  Fresh'
<1>. SUFFICES ASSUME close["main"] = "out"  PROVE Fresh'
  BY DEF Fresh
<1>1. held \in Conns
  BY DEF IInv, HeldByLoop
<1>2. ASSUME NEW i \in 1..Len(batch)  PROVE batch[i] \in Ready'
  <2>1. PICK f \in Ready : f = batch[i] /\ f # sock[held]
    BY <1>1 DEF Fresh
  <2>2. f \in Fds /\ f \in watched'
    BY <2>1 DEF Ready, IInv, TypeOK
  <2>. QED  BY <2>1, <2>2, ReadyKept, DescriptorKindsDistinct DEF Ready, Readable
<1>. QED  BY <1>2, DescriptorKindsDistinct DEF Fresh

LEMMA CloseHeld ==
  ASSUME NEW S \in SUBSET {held}, CloseSessions(S)
  PROVE  /\ \A f \in Fds : table'[f] = table[f] \/ f = sock[held]
         /\ watched \ {sock[held]} \subseteq watched'
<1>1. \A c \in S : c = held
  OBVIOUS
<1>. QED  BY <1>1 DEF CloseSessions

LEMMA RegisterFresh ==
  ASSUME IInv, Fresh, Register
  PROVE  Fresh'
<1>1. /\ UNCHANGED <<sent, fin, backlog, got, socket_fd, batch, close>>
      /\ loop = "register" /\ loop' = "events" /\ held' = Unused
  BY DEF Register, peerVars, serverVars, mainVars
<1>2. /\ \A f \in Fds : table'[f] = table[f] \/ f = sock[held]
      /\ watched \ {sock[held]} \subseteq watched'
  <2>1. CASE CloseSessions({held})
    BY <2>1, CloseHeld
  <2>2. CASE ~CloseSessions({held})
    BY <2>2 DEF Register
  <2>. QED  BY <2>1, <2>2
<1>. QED  BY <1>1, <1>2, LetGoFresh

LEMMA ReleaseFresh ==
  ASSUME IInv, Fresh, loop \in {"reply", "erase"}, Release,
         UNCHANGED <<sent, fin, backlog, got, socket_fd, batch, close>>
  PROVE  Fresh'
<1>1. /\ \A f \in Fds : table'[f] = table[f] \/ f = sock[held]
      /\ watched \ {sock[held]} \subseteq watched'
  <2>1. PICK S \in SUBSET {held} : S = {held} \ Range(clients')
    OBVIOUS
  <2>. QED  BY <2>1, CloseHeld DEF Release
<1>. QED  BY <1>1, LetGoFresh DEF Release

LEMMA InsertFresh ==
  ASSUME IInv, Fresh, Insert
  PROVE  Fresh'
<1>1. /\ UNCHANGED <<sent, fin, backlog, table, watched, got, sock, socket_fd>>
      /\ UNCHANGED <<batch, held, close>>
      /\ loop' = "register"
  BY DEF Insert, peerVars, kernelVars
<1>2. Ready' = Ready
  BY <1>1 DEF Ready, Readable
<1>. QED  BY <1>1, <1>2 DEF Fresh

\* recv() takes the data of the session it is called for.
LEMMA RecvFresh ==
  ASSUME IInv, Fresh, Recv
  PROVE  Fresh'
<1>1. /\ UNCHANGED <<sent, fin, backlog, table, watched, sock, socket_fd, batch, held, close>>
      /\ held \in Conns
      /\ loop' \in {"reply", "erase", "aborted"}
      /\ \A d \in Conns \ {held} : got'[d] = got[d]
  BY DEF Recv, RecvData, RecvEnd, RecvError, peerVars, kernelVars, serverVars, mainVars,
         IInv, HeldByLoop, TypeOK
<1>. SUFFICES ASSUME close["main"] = "out"  PROVE Fresh'
  BY <1>1 DEF Fresh
<1>2. ASSUME NEW i \in 1..Len(batch)  PROVE batch[i] \in Ready'
  <2>1. PICK f \in Ready : f = batch[i] /\ f # sock[held]
    BY <1>1 DEF Fresh
  <2>2. table[f] \in Conns => table[f] \in Conns \ {held}
    BY <2>1 DEF Ready, IInv, TypeOK, DescriptorsOwned
  <2>. QED  BY <1>1, <2>1, <2>2, ReadyKept, DescriptorKindsDistinct DEF Ready, Readable
<1>. QED  BY <1>1, <1>2 DEF Fresh

LEMMA NextFresh ==
  ASSUME IInv, Fresh, [Next]_vars
  PROVE  Fresh'
<1>1. CASE LoopStep
  <2>1. CASE Receive
    <3>1. CASE Reply
      BY <2>1, <3>1, ReleaseFresh DEF Receive, Reply, mainVars
    <3>2. CASE ReplyAborts
      <4>1. /\ UNCHANGED <<sent, fin, backlog, table, watched, got, sock, socket_fd, batch, held>>
            /\ UNCHANGED close
            /\ loop' = "aborted"
        BY <2>1, <3>2 DEF Receive, ReplyAborts, mainVars
      <4>2. Ready' = Ready
        BY <4>1 DEF Ready, Readable
      <4>. QED  BY <4>1, <4>2 DEF Fresh
    <3>. QED  BY <2>1, <3>1, <3>2 DEF Receive
  <2>2. CASE Erase
    BY <2>2, ReleaseFresh DEF Erase, peerVars
  <2>3. CASE LeaveLoop
    <3>1. held' = Unused /\ loop' \in {"exit", "aborted"} /\ close'["main"] = close["main"]
          /\ batch' = batch /\ loop = "leave"
      <4>1. close'["main"] = close["main"]
        BY <2>3 DEF LeaveLoop, EnterClose, IInv, TypeOK, Threads
      <4>. QED  BY <2>3, <4>1 DEF LeaveLoop, IInv, HeldByLoop
    <3>2. close["main"] = "out" => batch = <<>>
      BY <3>1 DEF Fresh
    <3>. QED  BY <3>1, <3>2, DescriptorKindsDistinct DEF Fresh
  <2>4. CASE CloseStep("loop")
    <3>1. close["loop"] # "out"
      BY <2>4 DEF CloseStep, CloseServer, CloseClient, EndWalk, Clear
    <3>2. loop = "exit" /\ held = Unused
      BY <1>1, <3>1, ClosingThread DEF LoopStep, Threads
    <3>3. UNCHANGED <<loop, batch, held>> /\ close'["main"] = close["main"]
      BY <2>4 DEF CloseStep, CloseServer, CloseClient, EndWalk, Clear, loopVars, IInv, TypeOK, Threads
    <3>4. close["main"] = "out" => batch = <<>>
      BY <3>2 DEF Fresh
    <3>. QED  BY <3>2, <3>3, <3>4, DescriptorKindsDistinct DEF Fresh
  <2>. QED
    BY <1>1, <2>1, <2>2, <2>3, <2>4, ControlFresh, HandleClientFresh, CallAcceptFresh,
       InsertFresh, RegisterFresh, RecvFresh DEF LoopStep
<1>2. CASE MainStep
  <2>1. CASE MainStops
    <3>1. /\ UNCHANGED <<sent, fin, backlog, table, watched, got, sock, socket_fd>>
          /\ UNCHANGED <<loop, batch, held, close>>
      BY <2>1 DEF MainStops, peerVars, kernelVars, sessionVars, loopVars
    <3>2. Ready' = Ready /\ (Readable(held) <=> Readable(held)')
      BY <3>1 DEF Ready, Readable
    <3>. QED  BY <3>1, <3>2 DEF Fresh
  <2>2. CASE ~MainStops
    <3>1. close'["main"] # "out"
      BY <1>2, <2>2
      DEF MainStep, MainCloses, MainReturns, EnterClose, CloseStep, CloseServer, CloseClient,
          EndWalk, Clear, IInv, TypeOK, Threads
    <3>. QED  BY <3>1 DEF Fresh
  <2>. QED  BY <2>1, <2>2
<1>3. CASE UNCHANGED vars
  BY <1>3 DEF vars, peerVars, kernelVars, sessionVars, serverVars, loopVars, mainVars, Fresh,
     Ready, Readable
<1>. QED  BY <1>1, <1>2, <1>3, PeerStepFresh DEF Next

LEMMA InitFresh == Init => Fresh
BY DescriptorKindsDistinct DEF Init, Fresh, Threads

\* What epoll reported is still there when the loop handles it.
LEMMA FreshInvariance == Spec => [](IInv /\ Fresh)
BY InitIInv, InitFresh, NextIInv, NextFresh, PTL DEF Spec

-----------------------------------------------------------------------------
(* The callbacks of each connection. *)

\* A step that changes neither a stream nor its callbacks.
LEMMA StreamStutters ==
  ASSUME UNCHANGED <<sent, fin, got, session, phantom>>,
         close'["main"] # "out" <=> close["main"] # "out"
  PROVE  UNCHANGED Stream!vars
BY DEF Stream!vars

\* The callbacks that the loop makes are those of the session it holds.
LEMMA CallbackIsStreamStep ==
  ASSUME IInv, Fresh, (CallAccept /\ AcceptFails) \/ Insert \/ Recv
  PROVE  [Stream!Next]_(Stream!vars)
<1>1. UNCHANGED <<sent, fin, close>>
  BY DEF CallAccept, Insert, Recv, peerVars, mainVars
<1>2. session \in [Conns -> {"none", "open", "closed", "error"}]
  BY DEF IInv, TypeOK
<1>3. CASE CallAccept /\ AcceptFails
  <2>1. UNCHANGED <<got, session>> /\ (phantom' = TRUE \/ phantom' = phantom)
    BY <1>3 DEF CallAccept, AcceptFails
  <2>2. CASE phantom' = TRUE
    BY <1>1, <2>1, <2>2 DEF Stream!Next, Stream!OnAcceptNothing
  <2>3. CASE phantom' = phantom
    BY <1>1, <2>1, <2>3, StreamStutters
  <2>. QED  BY <2>1, <2>2, <2>3
<1>4. CASE Insert
  <2>1. held \in Conns /\ session[held] = "none"
    BY <1>4 DEF Insert, IInv, HeldByLoop
  <2>2. session' = [session EXCEPT ![held] = "open"] /\ UNCHANGED <<got, phantom>>
    BY <1>4 DEF Insert
  <2>3. Stream!OnAccept(held)
    BY <1>1, <2>1, <2>2 DEF Stream!OnAccept
  <2>. QED  BY <2>1, <2>3 DEF Stream!Next
<1>5. CASE Recv
  <2>1. /\ held \in Conns /\ session[held] = "open"
        /\ sock[held] = NoFd => close["main"] # "out"
    BY <1>5 DEF Recv, IInv, HeldByLoop
  <2>2. UNCHANGED phantom
    BY <1>5 DEF Recv, serverVars
  <2>3. CASE RecvData(held)
    <3>1. Stream!OnReceive(held)
      BY <1>1, <2>1, <2>2, <2>3 DEF RecvData, Stream!OnReceive
    <3>. QED  BY <2>1, <3>1 DEF Stream!Next
  <2>4. CASE RecvEnd(held)
    <3>1. Stream!OnClose(held)
      BY <1>1, <2>1, <2>2, <2>4 DEF RecvEnd, Stream!OnClose
    <3>. QED  BY <2>1, <3>1 DEF Stream!Next
  <2>5. CASE RecvError(held)
    <3>1. (fin[held] /\ got[held] = sent[held]) \/ close["main"] # "out"
      <4>. SUFFICES ASSUME close["main"] = "out"  PROVE fin[held] /\ got[held] = sent[held]
        OBVIOUS
      <4>1. Readable(held) /\ sock[held] # NoFd /\ got[held] \in Int
        BY <1>5, <2>1 DEF Recv, Fresh, IInv, TypeOK
      <4>. QED  BY <2>5, <4>1 DEF RecvError, Readable
    <3>2. Stream!OnReceiveNothing(held)
      BY <1>1, <2>1, <2>2, <2>5, <3>1 DEF RecvError, Stream!OnReceiveNothing
    <3>. QED  BY <2>1, <3>2 DEF Stream!Next
  <2>. QED  BY <1>5, <2>3, <2>4, <2>5 DEF Recv
<1>. QED  BY <1>3, <1>4, <1>5

LEMMA StepIsStreamStep ==
  ASSUME IInv, Fresh, [Next]_vars
  PROVE  [Stream!Next]_(Stream!vars)
<1>. USE DEF peerVars, kernelVars, sessionVars, serverVars, loopVars, mainVars
<1>1. CASE PeerStep
  <2>1. PICK c \in Conns : PeerConnects(c) \/ PeerSends(c) \/ PeerCloses(c)
    BY <1>1 DEF PeerStep
  <2>2. CASE PeerConnects(c)
    BY <2>2, StreamStutters DEF PeerConnects
  <2>3. CASE PeerSends(c)
    <3>1. Stream!PeerSends(c)
      BY <2>3 DEF PeerSends, Stream!PeerSends
    <3>. QED  BY <3>1 DEF Stream!Next
  <2>4. CASE PeerCloses(c)
    <3>1. Stream!PeerCloses(c)
      BY <2>4 DEF PeerCloses, Stream!PeerCloses
    <3>. QED  BY <3>1 DEF Stream!Next
  <2>. QED  BY <2>1, <2>2, <2>3, <2>4
<1>2. CASE LoopStep
  <2>1. CASE CallAccept /\ ~AcceptFails
    BY <2>1, StreamStutters DEF CallAccept, Accept, AcceptExits
  <2>2. CASE LeaveLoop \/ CloseStep("loop")
    <3>1. close'["main"] = close["main"]
      BY <2>2 DEF LeaveLoop, CloseStep, EnterClose, CloseServer, CloseClient, EndWalk, Clear,
                  IInv, TypeOK, Threads
    <3>2. UNCHANGED <<sent, fin, got, session, phantom>>
      BY <2>2 DEF LeaveLoop, CloseStep
    <3>. QED  BY <3>1, <3>2, StreamStutters
  <2>3. CASE Register \/ Receive \/ Erase
    BY <2>3, StreamStutters DEF Register, Receive, Erase
  <2>4. CASE \/ CheckRunning \/ EpollWait \/ EpollTimeout \/ EpollFails \/ EventsDone
             \/ HandleListening \/ HandleUnknown \/ HandleClient \/ RecvChecks \/ Race
    <3>1. UNCHANGED <<sent, fin, got, session, phantom, close>>
      BY <2>4 DEF CheckRunning, EpollWait, EpollTimeout, EpollFails, EventsDone,
         HandleListening, HandleUnknown, HandleClient, RecvChecks, Race, loopControl
    <3>. QED  BY <3>1, StreamStutters
  <2>. QED  BY <1>2, <2>1, <2>2, <2>3, <2>4, CallbackIsStreamStep DEF LoopStep
<1>3. CASE MainStep
  <2>1. CASE MainCloses
    <3>1. close'["main"] # "out" /\ UNCHANGED <<sent, fin, got, session, phantom>>
      BY <2>1 DEF MainCloses, EnterClose, IInv, TypeOK, Threads
    <3>2. Stream!Close
      BY <3>1 DEF Stream!Close
    <3>. QED  BY <3>2 DEF Stream!Next
  <2>2. CASE MainStops \/ MainReturns
    BY <2>2, StreamStutters DEF MainStops, MainReturns
  <2>3. CASE CloseStep("main")
    <3>1. close["main"] # "out" /\ close'["main"] # "out"
      BY <2>3 DEF CloseStep, CloseServer, CloseClient, EndWalk, Clear, IInv, TypeOK, Threads
    <3>2. UNCHANGED <<sent, fin, got, session, phantom>>
      BY <2>3 DEF CloseStep
    <3>. QED  BY <3>1, <3>2, StreamStutters
  <2>. QED  BY <1>3, <2>1, <2>2, <2>3 DEF MainStep
<1>4. CASE UNCHANGED vars
  BY <1>4, StreamStutters DEF vars
<1>. QED  BY <1>1, <1>2, <1>3, <1>4 DEF Next

\* Every callback the loop makes, those without data and those for no connection
\* included, is one that SessionStream allows, whatever the other connections,
\* failing calls and a shutdown do to the loop (socket.cc:59-89, 215-233).
THEOREM Implementation == Spec => ImplementsStream
<1>1. Init => Stream!Init
  BY DEF Init, Stream!Init, Threads
<1>. QED  BY <1>1, StepIsStreamStep, FreshInvariance, PTL DEF Spec, ImplementsStream, Stream!Spec

-----------------------------------------------------------------------------
(* The loop never ends the process by itself, as long as descriptors last. *)

\* The connections accept() has returned so far, and the descriptors in use.
Accepted == {c \in Conns : held = c \/ session[c] # "none"}
InUse == {f \in Fds : table[f] # Unused}

\* While the window is open and no call fails: the server is open, accept() is
\* called for a connection that waits, and every accepted connection has cost two
\* descriptors at most.
Serving ==
  Faults = {} /\ main = "app" =>
    /\ running
    /\ loop \notin {"leave", "exit", "aborted"}
    /\ socket_fd \in Fds /\ table[socket_fd] = Listening
    /\ \A c \in Conns : ~reset[c]
    /\ loop = "accept" => backlog # {}
    /\ Cardinality(InUse) <= 2 + 2 * Cardinality(Accepted)

LEMMA InUseFinite == IsFiniteSet(InUse)
<1>1. IsFiniteSet(Fds) /\ InUse \in SUBSET Fds
  BY FS_Interval, ParametersOK DEF Fds, InUse
<1>. QED  BY <1>1, FS_Subset

\* Two elements more, at most.
LEMMA TwoMore ==
  ASSUME NEW S, IsFiniteSet(S), NEW x, NEW y, NEW T \in SUBSET (S \cup {x, y})
  PROVE  /\ Cardinality(T) <= Cardinality(S) + 2
         /\ Cardinality(T) \in Nat /\ Cardinality(S) \in Nat
<1>1. /\ IsFiniteSet(S \cup {x}) /\ Cardinality(S) \in Nat
      /\ Cardinality(S \cup {x}) \in {Cardinality(S), Cardinality(S) + 1}
  BY FS_AddElement, FS_CardinalityType
<1>. DEFINE R == S \cup {x}
<1>. HIDE DEF R
<1>2. /\ IsFiniteSet(R \cup {y})
      /\ Cardinality(R \cup {y}) \in {Cardinality(R), Cardinality(R) + 1}
  BY <1>1, FS_AddElement DEF R
<1>3. R \cup {y} = S \cup {x, y}
  BY DEF R
<1>. DEFINE U == S \cup {x, y}
<1>4. IsFiniteSet(U) /\ Cardinality(U) \in {Cardinality(R), Cardinality(R) + 1}
  BY <1>2, <1>3
<1>5. T \in SUBSET U
  OBVIOUS
<1>. HIDE DEF U
<1>6. /\ IsFiniteSet(T) /\ Cardinality(T) <= Cardinality(U)
      /\ Cardinality(T) \in Nat /\ Cardinality(U) \in Nat
  BY <1>4, <1>5, FS_Subset, FS_CardinalityType
<1>. QED  BY <1>1, <1>4, <1>6 DEF R

LEMMA InitServing ==
  ASSUME Init, IsFiniteSet(Conns)
  PROVE  Serving
<1>. USE ParametersOK, DescriptorKindsDistinct DEF Init
<1>1. Accepted = {}
  BY DEF Accepted
<1>2. InUse \subseteq {0, 1}
  BY DEF InUse, Fds
<1>3. Cardinality(InUse) <= 2
  <2>1. PICK S : S = {} /\ IsFiniteSet(S) /\ Cardinality(S) = 0
    BY FS_EmptySet
  <2>2. PICK x, y : InUse \in SUBSET (S \cup {x, y})
    BY <1>2
  <2>3. Cardinality(InUse) <= Cardinality(S) + 2
    BY <2>1, <2>2, TwoMore
  <2>. QED  BY <2>1, <2>3
<1>4. Cardinality(Accepted) = 0
  BY <1>1, FS_EmptySet
<1>5. socket_fd \in Fds /\ table[socket_fd] = Listening
  BY DEF Fds
<1>. QED  BY <1>3, <1>4, <1>5 DEF Serving


\* A connection that has not been accepted leaves room for two descriptors.
LEMMA DescriptorsLeft ==
  ASSUME IInv, Cardinality(InUse) <= 2 + 2 * Cardinality(Accepted),
         IsFiniteSet(Conns), MaxFd >= 2 * Cardinality(Conns) + 1,
         NEW c \in Conns, c \notin Accepted
  PROVE  Cardinality(UnusedFds) >= 2
<1>1. Accepted \in SUBSET (Conns \ {c})
  BY DEF Accepted
<1>2. /\ IsFiniteSet(Conns \ {c})
      /\ Cardinality(Conns \ {c}) = Cardinality(Conns) - 1
  BY FS_RemoveElement
<1>3. Cardinality(Accepted) <= Cardinality(Conns) - 1 /\ Cardinality(Accepted) \in Nat
  BY <1>1, <1>2, FS_Subset, FS_CardinalityType
<1>4. IsFiniteSet(Fds) /\ Cardinality(Fds) = MaxFd + 1
  BY FS_Interval, ParametersOK DEF Fds
<1>5. Fds \cap UnusedFds = UnusedFds /\ InUse = Fds \ UnusedFds /\ UnusedFds \in SUBSET Fds
  BY DEF UnusedFds, InUse
<1>6. Cardinality(InUse) = Cardinality(Fds) - Cardinality(UnusedFds)
  <2>1. Cardinality(Fds \ UnusedFds) = Cardinality(Fds) - Cardinality(Fds \cap UnusedFds)
    BY <1>4, FS_Difference
  <2>. QED  BY <1>5, <2>1
<1>7. Cardinality(UnusedFds) \in Nat /\ Cardinality(Conns) \in Nat
  BY <1>4, <1>5, FS_Subset, FS_CardinalityType
<1>. QED  BY <1>3, <1>4, <1>6, <1>7, ParametersOK

\* No descriptor is taken into use, and no connection is forgotten.
LEMMA PaidKept ==
  ASSUME IInv, Serving, Faults = {}, main = "app", IsFiniteSet(Conns),
         \A f \in Fds : table'[f] = table[f] \/ table'[f] = Unused,
         Accepted \subseteq Accepted'
  PROVE  Cardinality(InUse') <= 2 + 2 * Cardinality(Accepted')
<1>1. InUse' \in SUBSET InUse
  BY DEF InUse
<1>2. /\ Cardinality(InUse') <= Cardinality(InUse)
      /\ Cardinality(InUse') \in Nat /\ Cardinality(InUse) \in Nat
  BY <1>1, InUseFinite, FS_Subset, FS_CardinalityType
<1>3. /\ Cardinality(Accepted) <= Cardinality(Accepted')
      /\ Cardinality(Accepted) \in Nat /\ Cardinality(Accepted') \in Nat
  <2>1. Accepted' \in SUBSET Conns
    BY DEF Accepted
  <2>2. IsFiniteSet(Accepted')
    BY <2>1, FS_Subset
  <2>. QED  BY <2>2, FS_Subset, FS_CardinalityType
<1>. QED  BY <1>2, <1>3 DEF Serving

LEMMA PeerStepServing ==
  ASSUME IInv, Serving, PeerStep, IsFiniteSet(Conns)
  PROVE  Serving'
<1>1. PICK c \in Conns : PeerConnects(c) \/ PeerSends(c) \/ PeerCloses(c)
  BY DEF PeerStep
<1>2. /\ UNCHANGED <<table, session, socket_fd, running, loop, held, main>>
      /\ backlog \subseteq backlog'
  BY <1>1 DEF PeerConnects, PeerSends, PeerCloses, peerVars, kernelVars, sessionVars,
     serverVars, loopVars, mainVars
<1>. SUFFICES ASSUME Faults = {}, main = "app"  PROVE Serving'
  BY <1>2 DEF Serving
<1>3. reset' = reset
  BY <1>1 DEF PeerConnects, PeerSends, PeerCloses, peerVars
<1>4. Accepted' = Accepted /\ InUse' = InUse
  BY <1>2 DEF Accepted, InUse
<1>. QED  BY <1>2, <1>3, <1>4 DEF Serving

\* The loop's own steps: what woke the loop for the server is still waiting, and
\* the session that was found is open.
LEMMA ControlServing ==
  ASSUME IInv, Fresh, Serving, Alive,
         \/ CheckRunning \/ EpollWait \/ EpollTimeout \/ EpollFails \/ EventsDone
         \/ HandleListening \/ HandleUnknown \/ RecvChecks \/ Race
  PROVE  Serving'
<1>1. UNCHANGED <<reset, backlog, table, session, socket_fd, running, held, main>>
  BY DEF CheckRunning, EpollWait, EpollTimeout, EpollFails, EventsDone, HandleListening,
     HandleUnknown, RecvChecks, Race, loopControl, peerVars, kernelVars, sessionVars,
     serverVars, mainVars
<1>. SUFFICES ASSUME Faults = {}, main = "app"  PROVE Serving'
  BY <1>1 DEF Serving
<1>2. Accepted' = Accepted /\ InUse' = InUse
  BY <1>1 DEF Accepted, InUse
<1>3. close["main"] = "out"
  BY DEF IInv, OwnDescriptors
<1>4. CASE HandleListening
  <2>1. HandlingEvent /\ Head(batch) = socket_fd /\ loop' = "accept"
    BY <1>4 DEF HandleListening
  <2>2. Head(batch) \in Ready
    BY <1>3, <2>1, TailKept DEF Fresh, IInv
  <2>3. backlog # {}
    BY <2>1, <2>2, DescriptorKindsDistinct DEF Ready, Serving
  <2>. QED  BY <1>1, <1>2, <2>1, <2>3 DEF Serving
<1>5. CASE RecvChecks
  <2>1. held \in Conns
    BY <1>5 DEF RecvChecks, IInv, HeldByLoop
  <2>2. sock[held] # NoFd
    BY <1>3, <2>1, NoFdApart DEF Fresh
  <2>3. loop' = "recv"
    BY <1>5, <2>2 DEF RecvChecks
  <2>. QED  BY <1>1, <1>2, <2>3 DEF Serving
<1>6. CASE CheckRunning \/ EpollWait \/ EpollTimeout \/ EpollFails \/ EventsDone \/ HandleUnknown \/ Race
  <2>1. loop' \in {"check", "wait", "events"}
    BY <1>3, <1>6 DEF CheckRunning, EpollWait, EpollTimeout, EpollFails, EventsDone,
       HandleUnknown, HandlingEvent, Race, Serving
  <2>. QED  BY <1>1, <1>2, <2>1 DEF Serving
<1>. QED  BY <1>4, <1>5, <1>6

\* Accept(): there is a connection, there are descriptors, and the connection
\* is charged for the two it takes.
LEMMA CallAcceptServing ==
  ASSUME IInv, Serving, CallAccept,
         IsFiniteSet(Conns), MaxFd >= 2 * Cardinality(Conns) + 1
  PROVE  Serving'
<1>1. UNCHANGED <<reset, session, socket_fd, running, main>> /\ loop = "accept"
  BY DEF CallAccept, peerVars, mainVars
<1>. SUFFICES ASSUME Faults = {}, main = "app"  PROVE Serving'
  BY <1>1 DEF Serving
<1>2. /\ backlog # {} /\ socket_fd \in Fds /\ table[socket_fd] = Listening
      /\ Cardinality(InUse) <= 2 + 2 * Cardinality(Accepted)
  BY <1>1 DEF Serving
<1>3. PICK c \in backlog : Accept(c)
  <2>1. \A c \in backlog : c \in Conns /\ c \notin Accepted
    BY DEF IInv, AcceptedFirst, TypeOK, Accepted
  <2>2. Cardinality(UnusedFds) >= 2
    BY <1>2, <2>1, DescriptorsLeft
  <2>3. Cardinality(UnusedFds) \in Nat
    <3>1. IsFiniteSet(Fds) /\ UnusedFds \in SUBSET Fds
      BY FS_Interval, ParametersOK DEF Fds, UnusedFds
    <3>. QED  BY <3>1, FS_Subset, FS_CardinalityType
  <2>4. socket_fd # NoFd
    BY <1>2, NoFdApart
  <2>5. ~AcceptExits
    BY <2>2, <2>3, <2>4 DEF AcceptExits
  <2>6. ~AcceptFails
    BY <2>4 DEF AcceptFails
  <2>. QED  BY <2>5, <2>6 DEF CallAccept
<1>4. PICK fd \in Fds, spare \in Fds :
        /\ fd # spare /\ table[fd] = Unused /\ table[spare] = Unused
        /\ table' = [table EXCEPT ![fd] = c, ![spare] = Spare]
  BY <1>3, TwoUnused
<1>5. held' = c /\ loop' = "insert" /\ held = Unused /\ c \in Conns /\ session[c] = "none"
  BY <1>1, <1>3 DEF Accept, IInv, HeldByLoop, AcceptedFirst, TypeOK
<1>6. table'[socket_fd] = Listening
  BY <1>2, <1>4, DescriptorKindsDistinct DEF IInv, TypeOK
<1>7. Cardinality(InUse') <= 2 + 2 * Cardinality(Accepted')
  <2>1. c \notin Accepted /\ Accepted' = Accepted \cup {c}
    BY <1>1, <1>5, DescriptorKindsDistinct DEF Accepted
  <2>2. IsFiniteSet(Accepted)
    <3>1. Accepted \in SUBSET Conns
      BY DEF Accepted
    <3>. QED  BY <3>1, FS_Subset
  <2>3. Cardinality(Accepted') = Cardinality(Accepted) + 1 /\ Cardinality(Accepted) \in Nat
    BY <2>1, <2>2, FS_AddElement, FS_CardinalityType
  <2>4. InUse' \in SUBSET (InUse \cup {fd, spare})
    BY <1>4 DEF InUse, IInv, TypeOK
  <2>5. /\ Cardinality(InUse') <= Cardinality(InUse) + 2
        /\ Cardinality(InUse') \in Nat /\ Cardinality(InUse) \in Nat
    BY <2>4, InUseFinite, TwoMore
  <2>. QED  BY <1>2, <2>3, <2>5
<1>. QED  BY <1>1, <1>2, <1>5, <1>6, <1>7 DEF Serving

\* The loop's other steps give descriptors back, those of the session in its hands
\* only, and find data or the end where epoll reported it.
LEMMA SessionServing ==
  ASSUME IInv, Fresh, Serving, Alive, IsFiniteSet(Conns),
         HandleClient \/ Insert \/ Register \/ Recv \/ Receive \/ Erase
  PROVE  Serving'
<1>. USE DEF IInv
<1>1. UNCHANGED <<backlog, socket_fd, running, main>>
  BY DEF HandleClient, Insert, Register, Recv, Receive, Erase, kernelVars, serverVars, mainVars
<1>. SUFFICES ASSUME Faults = {}, main = "app"  PROVE Serving'
  BY <1>1 DEF Serving
<1>2. close["main"] = "out"
  BY DEF OwnDescriptors
<1>3. socket_fd \in Fds /\ table[socket_fd] = Listening /\ (held \in Conns => sock[held] # socket_fd)
  BY <1>2, DescriptorKindsDistinct DEF Fresh, Serving
<1>4. Recv => RecvData(held) \/ RecvEnd(held)
  <2>. SUFFICES ASSUME Recv, RecvError(held)  PROVE FALSE
    BY DEF Recv
  <2>1. held \in Conns /\ Readable(held) /\ sock[held] \in Fds
    BY <1>2 DEF Recv, HeldByLoop, Fresh
  <2>. QED  BY <2>1, NoFdApart DEF RecvError, Readable, Serving, TypeOK
<1>5. Receive => Reply
  <2>. SUFFICES ASSUME Receive, ReplyAborts  PROVE FALSE
    BY DEF Receive
  <2>1. held \in Conns /\ sock[held] \in Fds
    BY <1>2 DEF Receive, HeldByLoop, Fresh
  <2>. QED  BY <2>1, NoFdApart DEF ReplyAborts
<1>6. /\ loop' \in {"found", "register", "events", "reply", "erase"}
      /\ \A c \in Conns : ~reset'[c]
  <2>1. CASE Receive
    BY <1>5, <2>1 DEF Reply, Release, Serving, TypeOK
  <2>2. CASE Recv
    BY <1>4, <2>2 DEF Recv, RecvData, RecvEnd, peerVars, Serving
  <2>3. CASE HandleClient \/ Insert \/ Register \/ Erase
    BY <2>3 DEF HandleClient, Insert, Register, Erase, Release, peerVars, Serving
  <2>. QED  BY <2>1, <2>2, <2>3
<1>7. \A f \in Fds : table'[f] = table[f] \/ (held \in Conns /\ f = sock[held] /\ table'[f] = Unused)
  <2>1. ASSUME NEW S \in SUBSET {held}, held \in Conns, CloseSessions(S), NEW f \in Fds
        PROVE  table'[f] = table[f] \/ (f = sock[held] /\ table'[f] = Unused)
    BY <2>1 DEF CloseSessions
  <2>2. CASE Register
    <3>1. held \in Conns
      BY <2>2 DEF Register, HeldByLoop
    <3>2. CASE CloseSessions({held})
      BY <2>1, <3>1, <3>2
    <3>3. CASE ~CloseSessions({held})
      BY <2>2, <3>1, <3>3 DEF Register
    <3>. QED  BY <3>2, <3>3
  <2>3. CASE Receive \/ Erase
    <3>1. held \in Conns /\ Release
      BY <1>5, <2>3 DEF Receive, Reply, Erase, HeldByLoop
    <3>2. PICK S \in SUBSET {held} : S = {held} \ Range(clients')
      OBVIOUS
    <3>3. CloseSessions(S)
      BY <3>1, <3>2 DEF Release
    <3>. QED  BY <2>1, <3>1, <3>3
  <2>4. CASE HandleClient \/ Insert \/ Recv
    BY <2>4 DEF HandleClient, Insert, Recv, kernelVars
  <2>. QED  BY <2>2, <2>3, <2>4
<1>8. Accepted \subseteq Accepted'
  <2>1. /\ \A c \in Conns : session[c] # "none" => session'[c] # "none"
        /\ held \in Conns => held' = held \/ session'[held] # "none"
    <3>1. CASE HandleClient
      BY <3>1, DescriptorKindsDistinct DEF HandleClient, HandlingEvent, sessionVars, HeldByLoop
    <3>2. CASE Insert
      BY <3>2 DEF Insert, TypeOK
    <3>3. CASE Recv
      BY <1>4, <3>3 DEF Recv, RecvData, RecvEnd, TypeOK
    <3>4. CASE Register \/ Receive \/ Erase
      BY <3>4 DEF Register, Receive, Erase, HeldByLoop
    <3>. QED  BY <3>1, <3>2, <3>3, <3>4
  <2>. QED  BY <2>1 DEF Accepted
<1>9. Cardinality(InUse') <= 2 + 2 * Cardinality(Accepted')
  BY <1>7, <1>8, PaidKept
<1>10. table'[socket_fd] = Listening
  BY <1>3, <1>7
<1>. QED  BY <1>1, <1>3, <1>6, <1>9, <1>10 DEF Serving

LEMMA NextServing ==
  ASSUME IInv, Fresh, Serving, [Next]_vars,
         IsFiniteSet(Conns), MaxFd >= 2 * Cardinality(Conns) + 1
  PROVE  Serving'
<1>1. CASE LoopStep
  <2>1. CASE LeaveLoop
    BY <2>1 DEF LeaveLoop, Serving
  <2>2. CASE CloseStep("loop")
    <3>1. close["loop"] # "out"
      BY <2>2 DEF CloseStep, CloseServer, CloseClient, EndWalk, Clear
    <3>2. loop = "exit" /\ main' = main
      BY <1>1, <2>2, <3>1, ClosingThread DEF LoopStep, CloseStep, Threads
    <3>. QED  BY <3>2 DEF Serving
  <2>. QED
    BY <1>1, <2>1, <2>2, ControlServing, CallAcceptServing, SessionServing DEF LoopStep
<1>2. CASE MainStep
  <2>1. main' # "app"
    BY <1>2 DEF MainStep, MainStops, MainCloses, MainReturns, CloseStep, CloseServer, CloseClient,
       EndWalk, Clear, IInv, OwnDescriptors
  <2>. QED  BY <2>1 DEF Serving
<1>3. CASE UNCHANGED vars
  BY <1>3 DEF vars, peerVars, kernelVars, sessionVars, serverVars, loopVars, mainVars, Serving,
     Accepted, InUse
<1>. QED  BY <1>1, <1>2, <1>3, PeerStepServing DEF Next

\* With two descriptors for every connection that ever comes (one is lost per
\* Accept(), socket.cc:70-72) and two of the server's own, no CHECK and no
\* failing constructor ends the process while the window is open.
THEOREM NoAbortWhileOpen ==
  ASSUME IsFiniteSet(Conns), MaxFd >= 2 * Cardinality(Conns) + 1
  PROVE  Spec => []NeverAborts
<1>1. Init => Serving
  BY InitServing
<1>2. IInv /\ Fresh /\ Serving /\ [Next]_vars => Serving'
  BY NextServing
<1>3. Serving => NeverAborts
  BY DEF Serving, NeverAborts, Alive
<1>. QED  BY <1>1, <1>2, <1>3, FreshInvariance, PTL DEF Spec
=============================================================================
