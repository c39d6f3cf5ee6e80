---------------------------- MODULE AvrtcServer -----------------------------
(***************************************************************************)
(* AvrtcServer (example/server.cc): the signalling server.  It registers   *)
(* each client that sends an Add message under an id, replies with an id,  *)
(* mirrors the registration in the window (ServerUI), and undoes both on a *)
(* Close message or when the connection closes.                            *)
(*                                                                         *)
(* All handlers run on the socket thread, one at a time.  The GTK thread   *)
(* sees what they do through PushTask() and Emit() only, so a handler is   *)
(* two steps: everything up to PushTask() and the map update, then Emit()  *)
(* and the reply.                                                          *)
(*                                                                         *)
(* A client is its connection; a message is taken whole, as one Recv()     *)
(* delivers it.  The display name is the connection it came from.          *)
(***************************************************************************)
EXTENDS ServerUI, FiniteSets

CONSTANTS
  Conns,     \* connections accepted in one behaviour
  MaxAdds,   \* bound: Add messages handled in one behaviour
  MaxCloses  \* bound: Close messages handled in one behaviour

ASSUME BoundsNat == MaxAdds \in Nat /\ MaxCloses \in Nat

VARIABLES
  conn,               \* state of each connection
  adds, closes,       \* messages handled for each connection (for the bounds)
  senders,            \* senders_: id -> connection
  receivers,          \* receivers_: id -> connection
  current_sender_id,
  current_receiver_id,
  told,               \* the registrations each client was told of: role, id
  handler             \* what the handler that is running has left to do

serverVars == <<conn, adds, closes, senders, receivers, current_sender_id,
                current_receiver_id, told, handler>>

vars == <<uiVars, serverVars>>

Roles == Lists \cup {"Other"}   \* z[1] of a message

Idle == [step |-> "idle"]

Init ==
  /\ UiInit
  /\ conn = [c \in Conns |-> "new"]
  /\ adds = [c \in Conns |-> 0]
  /\ closes = [c \in Conns |-> 0]
  /\ senders = <<>>
  /\ receivers = <<>>
  /\ current_sender_id = 0
  /\ current_receiver_id = 0
  /\ told = [c \in Conns |-> {}]
  /\ handler = Idle

\* unordered_map::insert leaves an entry that is already there.
Insert(map, id, c) ==
  [i \in DOMAIN map \cup {id} |-> IF i \in DOMAIN map THEN map[i] ELSE c]

Erase(map, id) == Restrict(map, DOMAIN map \ {id})

\* The ids FindIDBySocket may return: it takes the first match in an
\* unordered map.
IdsOf(c, map) == {i \in DOMAIN map : map[i] = c}

Free == handler = Idle

SumOf(count) == FoldFunction(+, 0, count)

-----------------------------------------------------------------------------
(* The socket thread: the handlers of server.cc. *)

OnAccept(c) ==
  /\ Free
  /\ conn[c] = "new"
  /\ conn' = [conn EXCEPT ![c] = "open"]
  /\ UNCHANGED <<uiVars, adds, closes, senders, receivers, current_sender_id,
                 current_receiver_id, told, handler>>

\* Mutant: a message with another role is answered instead of dropped.
AddMessage_AnswersAll(c, role) ==
  /\ Free
  /\ conn[c] = "open"
  /\ SumOf(adds) < MaxAdds
  /\ adds' = [adds EXCEPT ![c] = @ + 1]
  /\ current_sender_id' = current_sender_id + 1
  /\ handler' = [step |-> "emit", client |-> c,
                 reply |-> {[role |-> role, id |-> current_sender_id']}]
  /\ UNCHANGED <<uiVars, conn, closes, senders, receivers,
                 current_receiver_id, told>>

\* Mutant: the sender counter is not advanced.
AddMessage_SameId(c, role) ==
  /\ Free
  /\ role = "Sender"
  /\ conn[c] = "open"
  /\ SumOf(adds) < MaxAdds
  /\ adds' = [adds EXCEPT ![c] = @ + 1]
  /\ AddClient("Sender", c, current_sender_id)
  /\ senders' = Insert(senders, current_sender_id, c)
  /\ handler' = [step |-> "emit", client |-> c,
                 reply |-> {[role |-> role, id |-> current_sender_id]}]
  /\ UNCHANGED <<wakeups, ui, rows, conn, closes, receivers,
                 current_sender_id, current_receiver_id, told>>

\* AddMessageHandler up to the map insertion.  The sender counter is advanced
\* for every role; receivers go under current_receiver_id, which nothing
\* advances; another role is dropped without a reply.
AddMessage(c, role) ==
  /\ Free
  /\ conn[c] = "open"
  /\ SumOf(adds) < MaxAdds
  /\ adds' = [adds EXCEPT ![c] = @ + 1]
  /\ current_sender_id' = current_sender_id + 1
  /\ \/ /\ role = "Sender"
        /\ AddClient("Sender", c, current_sender_id')
        /\ senders' = Insert(senders, current_sender_id', c)
        /\ UNCHANGED receivers
     \/ /\ role = "Receiver"
        /\ AddClient("Receiver", c, current_receiver_id)
        /\ receivers' = Insert(receivers, current_receiver_id, c)
        /\ UNCHANGED senders
     \/ /\ role = "Other"
        /\ UNCHANGED <<pending, senders, receivers>>
  /\ handler' = IF role = "Other" THEN Idle
                ELSE [step |-> "emit", client |-> c,
                      reply |-> {[role |-> role, id |-> current_sender_id']}]
  /\ UNCHANGED <<wakeups, ui, rows, conn, closes, current_receiver_id, told>>

\* Mutant: CloseMessageHandler returns without Emit().
Unregister_NoEmit(c, role, id) ==
  /\ RemoveClient(role, id)
  /\ senders' = IF role = "Sender" THEN Erase(senders, id) ELSE senders
  /\ receivers' = IF role = "Receiver" THEN Erase(receivers, id) ELSE receivers
  /\ UNCHANGED <<wakeups, ui, rows, handler>>

\* Mutant: the row is removed from the receiver list whatever the role.
Unregister_WrongList(c, role, id) ==
  /\ RemoveClient("Receiver", id)
  /\ senders' = IF role = "Sender" THEN Erase(senders, id) ELSE senders
  /\ receivers' = IF role = "Receiver" THEN Erase(receivers, id) ELSE receivers
  /\ handler' = [step |-> "emit", client |-> c, reply |-> {}]
  /\ UNCHANGED <<wakeups, ui, rows>>

\* CloseMessageHandler up to the map erasure, for a message or for OnClose.
Unregister(c, role, id) ==
  /\ RemoveClient(role, id)
  /\ senders' = IF role = "Sender" THEN Erase(senders, id) ELSE senders
  /\ receivers' = IF role = "Receiver" THEN Erase(receivers, id) ELSE receivers
  /\ handler' = [step |-> "emit", client |-> c, reply |-> {}]
  /\ UNCHANGED <<wakeups, ui, rows>>

\* A client gives back a registration it was told of; it may do so twice.
CloseMessage(c) ==
  /\ Free
  /\ conn[c] = "open"
  /\ SumOf(closes) < MaxCloses
  /\ closes' = [closes EXCEPT ![c] = @ + 1]
  /\ \E reg \in told[c] : Unregister(c, reg.role, reg.id)
  /\ UNCHANGED <<conn, adds, current_sender_id, current_receiver_id, told>>

\* Mutant: OnClose looks in the sender map only.
OnClose_SendersOnly(c) ==
  /\ Free
  /\ conn[c] = "open"
  /\ conn' = [conn EXCEPT ![c] = "closed"]
  /\ \/ \E id \in IdsOf(c, senders) : Unregister(c, "Sender", id)
     \/ /\ IdsOf(c, senders) = {}
        /\ UNCHANGED <<uiVars, senders, receivers, handler>>
  /\ UNCHANGED <<adds, closes, current_sender_id, current_receiver_id, told>>

\* OnClose: the connection's sender entry, else its receiver entry, else none.
OnClose(c) ==
  /\ Free
  /\ conn[c] = "open"
  /\ conn' = [conn EXCEPT ![c] = "closed"]
  /\ \/ \E id \in IdsOf(c, senders) : Unregister(c, "Sender", id)
     \/ /\ IdsOf(c, senders) = {}
        /\ \E id \in IdsOf(c, receivers) : Unregister(c, "Receiver", id)
     \/ /\ IdsOf(c, senders) \cup IdsOf(c, receivers) = {}
        /\ UNCHANGED <<uiVars, senders, receivers, handler>>
  /\ UNCHANGED <<adds, closes, current_sender_id, current_receiver_id, told>>

\* The end of either handler: Emit(), then the reply to an Add.
EmitAndReply ==
  /\ ~Free
  /\ Emit
  /\ told' = [told EXCEPT ![handler.client] = @ \cup handler.reply]
  /\ handler' = Idle
  /\ UNCHANGED <<pending, ui, rows, conn, adds, closes, senders, receivers,
                 current_sender_id, current_receiver_id>>

SocketStep ==
  \/ \E c \in Conns :
       \/ OnAccept(c) \/ CloseMessage(c) \/ OnClose(c)
       \/ \E role \in Roles : AddMessage(c, role)
  \/ EmitAndReply

GtkStep == UiStep /\ UNCHANGED serverVars

Next == SocketStep \/ GtkStep

Spec == Init /\ [][Next]_vars

\* A handler that has started finishes, and the GTK main loop keeps running.
\* No client is obliged to send anything or to disconnect.
FairSpec == Spec /\ WF_vars(EmitAndReply) /\ WF_vars(GtkStep)

-----------------------------------------------------------------------------
(* Properties. *)

\* Every variable has its type.
TypeOK ==
  /\ UiTypeOK
  /\ conn \in [Conns -> {"new", "open", "closed"}]
  /\ adds \in [Conns -> Nat]
  /\ closes \in [Conns -> Nat]
  /\ current_sender_id \in Nat
  /\ current_receiver_id \in Nat
  /\ DOMAIN senders \subseteq Nat /\ Range(senders) \subseteq Conns
  /\ DOMAIN receivers \subseteq Nat /\ Range(receivers) \subseteq Conns
  /\ \A c \in Conns : told[c] \subseteq [role : Lists, id : Nat]
  /\ \/ handler = Idle
     \/ /\ handler.step = "emit"
        /\ handler.client \in Conns
        /\ handler.reply \subseteq [role : Lists, id : Nat]

\* No update of the window is stranded: while one is queued, an emit is in the
\* dispatcher, its slot is still draining, or the handler is about to emit.
NoStrandedUpdate ==
  pending # <<>> => wakeups > 0 \/ ui = "draining" \/ ~Free

\* Whatever the GTK thread has got to, the sender list plus the queued updates
\* is exactly senders_: no update is lost, doubled or applied out of order.
SenderListMatches ==
  LET final == FinalRows["Sender"]
  IN  /\ Len(final) = Cardinality(DOMAIN senders)
      /\ {<<r.id, r.name>> : r \in Range(final)}
           = {<<id, senders[id]>> : id \in DOMAIN senders}

\* A sender id that was given out belongs to one client for ever: it is
\* registered to that client or to nobody.
SenderIdsAreOwned ==
  \A c \in Conns : \A reg \in told[c] :
    reg.role = "Sender" =>
      /\ reg.id \in DOMAIN senders => senders[reg.id] = c
      /\ \A d \in Conns \ {c} : reg \notin told[d]

\* A connection that has closed, of a client that added itself at most once, as
\* AvrtcClient does.
LeftAfterOneAdd(c) == conn[c] = "closed" /\ adds[c] <= 1

\* Once OnClose has run for such a connection no map holds it any more, although
\* the receivers share one id and other clients may have added themselves twice.
ClosedIsForgotten ==
  \A c \in Conns :
    LeftAfterOneAdd(c) => IdsOf(c, senders) \cup IdsOf(c, receivers) = {}

(* What the comments of server.cc say. *)

\* server.cc:137: OnClose removes the client from the window and from the map;
\* the window catches up.
ClosedReceiverDisappears ==
  \A c \in Conns :
    LeftAfterOneAdd(c) ~>
      \A i \in DOMAIN rows["Receiver"] : rows["Receiver"][i].name # c
=============================================================================
