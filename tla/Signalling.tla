----------------------------- MODULE Signalling -----------------------------
(***************************************************************************)
(* The two programs together: clients (AvrtcClient) and the signalling     *)
(* server (AvrtcServer), joined by their connections.  Each step of the    *)
(* server is one of AvrtcServer's, given what recv() took from a           *)
(* connection and what the parser makes of it.  Either side's process may  *)
(* end at any time.                                                        *)
(***************************************************************************)
EXTENDS AvrtcClient

VARIABLES
  pending, wakeups, ui, rows, conn, adds, closes, senders, receivers,
  current_sender_id, current_receiver_id, told, handler,
  server   \* the server's process: "up", "exited" or "crashed"

Server == INSTANCE AvrtcServer
  WITH Conns <- Clients, MaxAdds <- Cardinality(Clients), MaxCloses <- 0

serverVars == <<pending, wakeups, ui, rows, conn, adds, closes, senders, receivers,
                current_sender_id, current_receiver_id, told, handler>>

vars == <<clientVars, serverVars, server>>

Init ==
  /\ ClientInit
  /\ Server!Init
  /\ server = "up"

-----------------------------------------------------------------------------
(* The server's end of a connection. *)

\* The server's process ends: each connection does, with a reset if the server
\* had not accepted it or not read all of it.
ServerEnds(how, unread) ==
  /\ server' = how
  /\ link' = [c \in Clients |->
                IF link[c] # "open" THEN link[c]
                ELSE IF conn[c] = "new" \/ unread[c] # <<>> THEN "reset" ELSE "fin"]
  /\ UNCHANGED serverVars

\* The window is closed; how main() and the loop part is in ServerSocket.
ServerExits ==
  /\ server = "up"
  /\ ServerEnds("exited", up)
  /\ UNCHANGED <<port, at, id, up, down, split>>

Accept(c) ==
  /\ link[c] # "none"
  /\ Server!OnAccept(c)
  /\ UNCHANGED <<clientVars, server>>

\* Mutant: the role is looked for where the request is.
RoleOf_FirstItem(z) == IF z[1].text \in Server!Lists THEN z[1].text ELSE "Other"

\* The role a z= line asks for; one that is cut is no role.
RoleOf(z) == IF Len(z) > 1 /\ z[2].text \in Server!Lists THEN z[2].text ELSE "Other"

\* OnReceive() of what one recv() took; no client sends a Close.  Without a z=
\* line z[0] reads through a null pointer; z[1] behind the last item is whatever
\* is there: no role, or a crash.
Receive(c) ==
  /\ Server!Free
  /\ conn[c] = "open"
  /\ \E cut \in Cuts(up[c]) :
       LET z == Parsed(cut.head, cut.ended).z
       IN  /\ up' = [up EXCEPT ![c] = cut.rest]
           /\ split' = (split \/ cut.rest # <<>>)
           /\ \/ /\ z # <<>> /\ z[1] = Word("Add")
                 /\ Server!AddMessage(c, RoleOf(z))
                 /\ UNCHANGED <<link, server>>
              \/ /\ z # <<>> /\ z[1] # Word("Add")
                 /\ UNCHANGED <<serverVars, link, server>>
              \/ /\ z \in {<<>>, <<Word("Add")>>}
                 /\ ServerEnds("crashed", up')
  /\ UNCHANGED <<port, at, id, down>>

\* recv() returns 0.
ReceiveEnd(c) ==
  /\ link[c] = "left" /\ up[c] = <<>>
  /\ Server!OnClose(c)
  /\ UNCHANGED <<clientVars, server>>

\* recv() fails, and its length -1 makes no string.
ReceiveError(c) ==
  /\ Server!Free
  /\ conn[c] = "open"
  /\ link[c] = "aborted" /\ up[c] = <<>>
  /\ ServerEnds("crashed", up)
  /\ UNCHANGED <<port, at, id, up, down, split>>

Serve(c) ==
  /\ server = "up"
  /\ Accept(c) \/ Receive(c) \/ ReceiveEnd(c) \/ ReceiveError(c)

\* An Add is replied with its id, anything else with nothing.
Reply(registrations) ==
  IF registrations = {} THEN <<>>
  ELSE LET reg == CHOOSE reg \in registrations : TRUE
       IN  SignallingText(<<Word("Add"), Number(reg.id)>>)

\* The end of a handler, and the reply on its way.
EmitAndReply ==
  /\ server = "up"
  /\ Server!EmitAndReply
  /\ LET c == handler.client
     IN  down' = [down EXCEPT ![c] =
                    IF link[c] # "open" THEN @ ELSE @ \o Reply(handler.reply)]
  /\ UNCHANGED <<port, at, id, link, up, split, server>>

WindowUpdates ==
  /\ server = "up"
  /\ Server!GtkStep
  /\ UNCHANGED <<clientVars, server>>

-----------------------------------------------------------------------------
UserStep(c) ==
  /\ OnConnectButtonClicked(c) \/ CloseWindow(c)
  /\ UNCHANGED <<serverVars, server>>

ClientStep(c) ==
  /\ ClientWorks(c, server = "up")
  /\ UNCHANGED <<serverVars, server>>

Next ==
  \/ \E c \in Clients : UserStep(c) \/ ClientStep(c) \/ Serve(c)
  \/ EmitAndReply \/ WindowUpdates \/ ServerExits

Spec == Init /\ [][Next]_vars

\* Both programs' threads run; users do as they like.  That a ready connection
\* is served is what ServerSocket's loop guarantees.
FairSpec ==
  /\ Spec
  /\ \A c \in Clients : WF_vars(ClientStep(c)) /\ WF_vars(Serve(c))
  /\ WF_vars(EmitAndReply) /\ WF_vars(WindowUpdates)

-----------------------------------------------------------------------------
(* Properties. *)

\* Every variable has its type.
TypeOK ==
  /\ port \in [Clients -> BOOLEAN]
  /\ at \in [Clients -> Places]
  /\ id \in [Clients -> Nat \cup {NoId, Misread}]
  /\ link \in [Clients -> Links]
  /\ split \in BOOLEAN
  /\ server \in {"up", "exited", "crashed"}
  /\ Server!TypeOK

\* As long as messages come whole: an id a client holds is the one the server
\* gave it, no other client holds it, and while the server knows the connection
\* it is registered under that id.
IdsAgree ==
  ~split =>
    \A c \in Clients : id[c] # NoId =>
      /\ [role |-> "Sender", id |-> id[c]] \in told[c]
      /\ \A d \in Clients \ {c} : id[d] # id[c]
      /\ conn[c] = "open" => id[c] \in DOMAIN senders /\ senders[id[c]] = c

\* What it takes to end either process: a message that comes in pieces, a client
\* that goes without reading its reply (the server), a server that is gone, or a
\* port that is no number (the client).
CrashesOnlyBy ==
  /\ server = "crashed" => split \/ \E c \in Clients : link[c] = "aborted"
  /\ \A c \in Clients :
       at[c] = "crashed" => split \/ server # "up" \/ ~port[c]

\* A client that has dialled gets its id, unless one of the processes ends.
ClientGetsId ==
  \A c \in Clients :
    at[c] = "connected" ~> (id[c] # NoId \/ Ended(c) \/ server # "up")

\* A client that is gone leaves the window for ever, although its Add may still
\* be in flight when it goes.
ClientLeavesWindow ==
  \A c \in Clients :
    Ended(c) ~> [](server # "up" \/ \A row \in Range(rows["Sender"]) : row.name # c)
=============================================================================
