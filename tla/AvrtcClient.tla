---------------------------- MODULE AvrtcClient -----------------------------
(***************************************************************************)
(* The client program (example/client.cc, the connect page of              *)
(* example/ui.cc, avrtc::ClientSocket in base/socket.cc) and its           *)
(* connection.  The connect button posts Connect() to the socket thread    *)
(* and switches to the page that has no button; Connect() dials, announces *)
(* the client and receives for ever.  One process per client: a client is  *)
(* its process and its connection.                                         *)
(*                                                                         *)
(* A connection carries text both ways, in order; recv() takes any part of *)
(* what is there, so that a message may come in pieces.  What the kernel   *)
(* does when a process ends is modelled from Linux: an unread byte turns   *)
(* the end of the stream into a reset.                                     *)
(*                                                                         *)
(* The actions are composed with the server's in Signalling.               *)
(***************************************************************************)
EXTENDS Integers, FiniteSets, SdpText

CONSTANT Clients

\* Every client is a process.
ASSUME ClientsFinite == IsFiniteSet(Clients)

VARIABLES
  port,    \* whether the port entry of each client holds a number
  at,      \* where each client is
  id,      \* id_
  link,    \* each connection, or how it ended
  up, down,  \* per connection: text not yet received by server and client
  split    \* history: some recv() took part of what was there

clientVars == <<port, at, id, link, up, down, split>>

NoId == -1
Misread == -2   \* what std::stoi makes of a part of an id

\* "entry": the connect page is shown; "posted": its task is queued;
\* "connected": in OnConnected(); "loop": in the receive loop of Connect();
\* "exited": the window was closed; "crashed": an exception or a signal.
Places == {"entry", "posted", "connected", "loop", "exited", "crashed"}
Ended(c) == at[c] \in {"exited", "crashed"}

\* "left", "aborted": the client closed or reset the connection; "fin",
\* "reset": the server did.
Links == {"none", "open", "left", "aborted", "fin", "reset"}

ClientInit ==
  /\ port \in [Clients -> BOOLEAN]
  /\ at = [c \in Clients |-> "entry"]
  /\ id = [c \in Clients |-> NoId]
  /\ link = [c \in Clients |-> "none"]
  /\ up = [c \in Clients |-> <<>>]
  /\ down = [c \in Clients |-> <<>>]
  /\ split = FALSE

\* A description from the default constructor and a z= line, printed.
SignallingText(z) == Printed([Blank EXCEPT !.o = "origin", !.z = z])

OnConnectButtonClicked(c) ==
  /\ at[c] = "entry"
  /\ at' = [at EXCEPT ![c] = "posted"]
  /\ UNCHANGED <<port, id, link, up, down, split>>

\* The process ends and the kernel closes its socket: the connection ends, with
\* a reset if a reply has arrived and was not read.
Ends(c, how) ==
  /\ at' = [at EXCEPT ![c] = how]
  /\ \E end \in {"left"} \cup (IF down[c] # <<>> THEN {"aborted"} ELSE {}) :
       link' = [link EXCEPT ![c] = IF @ = "open" THEN end ELSE @]
  /\ down' = [down EXCEPT ![c] = <<>>]
  /\ UNCHANGED <<port, id, up>>

CloseWindow(c) ==
  /\ ~Ended(c)
  /\ Ends(c, "exited")
  /\ UNCHANGED split

\* The posted task, up to connect(), always to the address the client was made
\* with: the task sets the entries' values in a copy.  std::stoi throws on a
\* port that is no number.  Connect() goes on if connect() has failed; then
\* send() raises SIGPIPE, or recv() fails and its length -1 makes no string.
Connect(c, listening) ==
  /\ at[c] = "posted"
  /\ IF port[c] /\ listening
       THEN /\ at' = [at EXCEPT ![c] = "connected"]
            /\ link' = [link EXCEPT ![c] = "open"]
            /\ UNCHANGED <<port, id, up, down>>
       ELSE Ends(c, "crashed")
  /\ UNCHANGED split

\* Mutant: the z= line is cleared before the description is printed.
OnConnected_ClearedFirst(c) ==
  /\ at[c] = "connected"
  /\ at' = [at EXCEPT ![c] = "loop"]
  /\ link[c] = "open"
  /\ up' = [up EXCEPT ![c] = @ \o SignallingText(<<>>)]
  /\ UNCHANGED <<port, id, link, down, split>>

\* Every client adds itself as a sender, whatever its page says.  If the server
\* has reset the connection send() fails and takes the error with it.
OnConnected(c) ==
  /\ at[c] = "connected"
  /\ at' = [at EXCEPT ![c] = "loop"]
  /\ IF link[c] = "open"
       THEN /\ up' = [up EXCEPT ![c] =
                        @ \o SignallingText(<<Word("Add"), Word("Sender")>>)]
            /\ UNCHANGED link
       ELSE /\ link' = [link EXCEPT ![c] = "fin"]
            /\ UNCHANGED up
  /\ UNCHANGED <<port, id, down, split>>

\* Mutant: the id is taken from z[0].
OnReceive_FirstItem(c, z) ==
  /\ z # <<>>
  /\ id' = [id EXCEPT ![c] = z[1].number]
  /\ UNCHANGED <<port, at, link, up>>

\* Without a z= line z[0] reads through a null pointer; z[1] behind the last
\* item is whatever is there.
OnReceive(c, z) ==
  \/ z # <<>> /\ z[1] # Word("Add") /\ UNCHANGED <<port, at, id, link, up>>
  \/ /\ Len(z) = 2 /\ z[1] = Word("Add")
     /\ id' = [id EXCEPT ![c] = IF z[2] = Fragment THEN Misread ELSE z[2].number]
     /\ UNCHANGED <<port, at, link, up>>
  \/ /\ z = <<Word("Add")>>
     /\ id' = [id EXCEPT ![c] = Misread]
     /\ UNCHANGED <<port, at, link, up>>

\* One turn of the loop.  On a closed connection Recv() returns at once, again
\* and again: the loop ignores that, and nothing changes any more.
Recv(c) ==
  /\ at[c] = "loop"
  /\ \/ \E cut \in Cuts(down[c]) :
          LET z == Parsed(cut.head, cut.ended).z
          IN  /\ split' = (split \/ cut.rest # <<>>)
              /\ \/ /\ OnReceive(c, z)
                    /\ down' = [down EXCEPT ![c] = cut.rest]
                 \/ /\ z \in {<<>>, <<Word("Add")>>}
                    /\ Ends(c, "crashed")
     \/ /\ down[c] = <<>> /\ link[c] = "reset"
        /\ Ends(c, "crashed")
        /\ UNCHANGED split

ClientWorks(c, listening) == Connect(c, listening) \/ OnConnected(c) \/ Recv(c)
=============================================================================
