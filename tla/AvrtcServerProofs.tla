------------------------- MODULE AvrtcServerProofs --------------------------
(***************************************************************************)
(* Proofs about AvrtcServer for every set of connections and every bound:  *)
(* the hand-over of updates between the socket thread and the GTK thread.  *)
(***************************************************************************)
EXTENDS AvrtcServer, DataInduction, SequenceTheorems

\* The only type fact the hand-over needs.
WakeupsNat == wakeups \in Nat

\* A handler that has queued an update is not idle.
LEMMA EmitPending ==
  \A c, r : [step |-> "emit", client |-> c, reply |-> r] # Idle
<1> SUFFICES ASSUME NEW c, NEW r
             PROVE  [step |-> "emit", client |-> c, reply |-> r] # Idle
  OBVIOUS
<1>1. [step |-> "emit", client |-> c, reply |-> r].step # Idle.step
  BY DEF Idle
<1> QED
  BY <1>1

\* Unregister() leaves its handler about to emit.
LEMMA UnregisterWillEmit ==
  ASSUME NEW c, NEW role, NEW id, Unregister(c, role, id)
  PROVE  ~Free' /\ wakeups' = wakeups
BY EmitPending DEF Unregister, Free

-----------------------------------------------------------------------------
(* No update queued for the window is ever stranded: while there is one, a  *)
(* wake-up is on its way, is being served, or is about to be sent.          *)
THEOREM UpdatesNeverStranded == Spec => []NoStrandedUpdate
<1>1. Init => WakeupsNat /\ NoStrandedUpdate
  BY DEF Init, UiInit, WakeupsNat, NoStrandedUpdate
<1>2. WakeupsNat /\ NoStrandedUpdate /\ [Next]_vars
        => WakeupsNat' /\ NoStrandedUpdate'
  <2> SUFFICES ASSUME WakeupsNat, NoStrandedUpdate, [Next]_vars
               PROVE  WakeupsNat' /\ NoStrandedUpdate'
    OBVIOUS
  <2> USE DEF WakeupsNat, NoStrandedUpdate
  <2>1. ASSUME NEW c \in Conns, OnAccept(c)
        PROVE  WakeupsNat' /\ NoStrandedUpdate'
    BY <2>1 DEF OnAccept, Free, uiVars
  <2>2. ASSUME NEW c \in Conns, NEW role \in Roles, AddMessage(c, role)
        PROVE  WakeupsNat' /\ NoStrandedUpdate'
    <3>1. wakeups' = wakeups /\ ui' = ui /\ Free
      BY <2>2 DEF AddMessage
    <3>2. CASE role = "Other"
      <4>1. pending' = pending /\ handler' = Idle
        BY <2>2, <3>2 DEF AddMessage
      <4> QED
        BY <3>1, <4>1 DEF Free
    <3>3. CASE role # "Other"
      <4>1. handler' = [step |-> "emit", client |-> c,
                        reply |-> {[role |-> role, id |-> current_sender_id']}]
        BY <2>2, <3>3 DEF AddMessage
      <4>2. ~Free'
        BY <4>1, EmitPending DEF Free
      <4> QED
        BY <3>1, <4>2
    <3> QED
      BY <3>2, <3>3
  <2>3. ASSUME NEW c \in Conns, CloseMessage(c)
        PROVE  WakeupsNat' /\ NoStrandedUpdate'
    <3>1. \E role, id : Unregister(c, role, id)
      BY <2>3 DEF CloseMessage
    <3> QED
      BY <3>1, UnregisterWillEmit
  <2>4. ASSUME NEW c \in Conns, OnClose(c)
        PROVE  WakeupsNat' /\ NoStrandedUpdate'
    <3>1. CASE \E role, id : Unregister(c, role, id)
      BY <3>1, UnregisterWillEmit
    <3>2. CASE UNCHANGED <<uiVars, senders, receivers, handler>>
      BY <3>2 DEF uiVars, Free
    <3> QED
      BY <2>4, <3>1, <3>2 DEF OnClose
  <2>5. CASE EmitAndReply
    BY <2>5 DEF EmitAndReply, Emit
  <2>6. CASE GtkStep
    BY <2>6 DEF GtkStep, UiStep, Dispatch, RunUiTask, DrainDone, serverVars, Free
  <2>7. CASE UNCHANGED vars
    BY <2>7 DEF vars, uiVars, serverVars, Free
  <2> QED
    BY <2>1, <2>2, <2>3, <2>4, <2>5, <2>6, <2>7 DEF Next, SocketStep
<1> QED
  BY <1>1, <1>2, PTL DEF Spec

-----------------------------------------------------------------------------
(* Sender ids.  An id is given out together with the entry it names, so what *)
(* matters of a client is what it was told and what it is about to be told.  *)

Registrations == [role : Lists, id : Nat]

ServerTypes ==
  /\ current_sender_id \in Nat
  /\ DOMAIN senders \subseteq Nat
  /\ told \in [Conns -> SUBSET Registrations]
  /\ \/ handler = Idle
     \/ /\ ~Free
        /\ handler.client \in Conns
        /\ handler.reply \in SUBSET Registrations

\* The registrations a client was told of, or will be when the handler ends.
Promised(c) ==
  told[c] \cup (IF ~Free /\ handler.client = c THEN handler.reply ELSE {})

\* The counter is ahead of every id in use.
IdsBounded ==
  /\ \A i \in DOMAIN senders : i <= current_sender_id
  /\ \A c \in Conns : \A reg \in Promised(c) : 
       reg.role = "Sender" => reg.id <= current_sender_id

PromisesOwned ==
  \A c \in Conns : \A reg \in Promised(c) :
    reg.role = "Sender" =>
      /\ reg.id \in DOMAIN senders => senders[reg.id] = c
      /\ \A d \in Conns \ {c} : reg \notin Promised(d)

IdsInv == ServerTypes /\ IdsBounded /\ PromisesOwned

SubMap(m, n) == DOMAIN m \subseteq DOMAIN n /\ \A i \in DOMAIN m : m[i] = n[i]

\* Erasing an entry leaves the others as they were.
LEMMA EraseShrinks ==
  ASSUME NEW m, NEW id
  PROVE  /\ SubMap(Erase(m, id), m)
         /\ id \notin DOMAIN Erase(m, id)
BY DEF Erase, Restrict, SubMap

\* CloseMessageHandler only takes entries away, and replies nothing.
LEMMA UnregisterShrinks ==
  ASSUME NEW c, NEW role, NEW id, Unregister(c, role, id)
  PROVE  /\ SubMap(senders', senders)
         /\ SubMap(receivers', receivers)
         /\ handler'.client = c
         /\ handler'.reply = {}
         /\ ~Free'
<1>1. SubMap(senders', senders)
  BY EraseShrinks DEF Unregister, SubMap
<1>2. SubMap(receivers', receivers)
  BY EraseShrinks DEF Unregister, SubMap
<1>3. handler' = [step |-> "emit", client |-> c, reply |-> {}]
  BY DEF Unregister
<1>4. ~Free'
  BY <1>3, EmitPending DEF Free
<1> QED
  BY <1>1, <1>2, <1>3, <1>4

\* Taking entries away, without promising anything new, keeps ids owned.
LEMMA ShrinkKeepsIds ==
  ASSUME IdsInv,
         SubMap(senders', senders),
         told' = told, current_sender_id' = current_sender_id,
         \/ Free' /\ handler' = handler
         \/ ~Free' /\ handler'.client \in Conns /\ handler'.reply = {}
  PROVE  IdsInv'
<1>1. ServerTypes'
  BY DEF IdsInv, ServerTypes, SubMap, Free
<1>2. \A c \in Conns : (Promised(c))' \subseteq Promised(c)
  BY DEF Promised, Free
<1>3. IdsBounded'
  BY <1>2 DEF IdsInv, IdsBounded, SubMap
<1>4. PromisesOwned'
  <2> SUFFICES ASSUME NEW c \in Conns, NEW reg \in (Promised(c))',
                      reg.role = "Sender"
               PROVE  /\ reg.id \in DOMAIN senders' => senders'[reg.id] = c
                      /\ \A d \in Conns \ {c} : reg \notin (Promised(d))'
    BY DEF PromisesOwned
  <2>1. reg \in Promised(c)
    BY <1>2
  <2> QED
    BY <1>2, <2>1 DEF IdsInv, PromisesOwned, SubMap
<1> QED
  BY <1>1, <1>3, <1>4 DEF IdsInv

\* An Add promises the new id to its client alone.
LEMMA AddKeepsIds ==
  ASSUME IdsInv, NEW c \in Conns, NEW role \in Roles, AddMessage(c, role)
  PROVE  IdsInv'
<1> DEFINE new == current_sender_id + 1
<1>1. /\ Free
      /\ told' = told
      /\ current_sender_id' = new
      /\ new \in Nat /\ new > current_sender_id
  BY DEF AddMessage, IdsInv, ServerTypes
<1>2. CASE role = "Other"
  <2>1. senders' = senders /\ handler' = handler /\ Free'
    BY <1>2 DEF AddMessage, Free
  <2>2. \A d \in Conns : (Promised(d))' = Promised(d)
    BY <1>1, <2>1 DEF Promised
  <2>3. ServerTypes'
    BY <1>1, <2>1 DEF IdsInv, ServerTypes, Free
  <2>4. IdsBounded'
    <3>1. \A d \in Conns : \A reg \in Promised(d) : reg.id \in Nat
      BY <1>1 DEF Promised, IdsInv, ServerTypes, Registrations
    <3> QED
      BY <1>1, <2>1, <2>2, <3>1 DEF IdsInv, IdsBounded, ServerTypes
  <2>5. PromisesOwned'
    BY <2>1, <2>2 DEF IdsInv, PromisesOwned
  <2> QED
    BY <2>3, <2>4, <2>5 DEF IdsInv
<1>3. CASE role # "Other"
  <2> DEFINE reply == [role |-> role, id |-> new]
  <2>1. handler' = [step |-> "emit", client |-> c, reply |-> {reply}]
    BY <1>1, <1>3 DEF AddMessage
  <2>2. ~Free' /\ handler'.client = c /\ handler'.reply = {reply}
    BY <2>1, EmitPending DEF Free
  <2>3. reply \in Registrations
    BY <1>1, <1>3 DEF Roles, Registrations
  <2>4. \A d \in Conns : Promised(d) = told[d]
    BY <1>1 DEF Promised
  <2>5. \A d \in Conns : (Promised(d))' = told[d] \cup (IF d = c THEN {reply} ELSE {})
    BY <1>1, <2>2 DEF Promised
  <2>6. \A d \in Conns : \A reg \in told[d] :
          reg \in Registrations /\ (reg.role = "Sender" => reg.id < new)
    BY <1>1, <2>4 DEF IdsInv, IdsBounded, ServerTypes, Registrations
  <2>7. /\ DOMAIN senders' \subseteq DOMAIN senders \cup {new}
        /\ \A i \in DOMAIN senders : i \in DOMAIN senders' /\ senders'[i] = senders[i]
        /\ new \in DOMAIN senders' => senders'[new] = c
    <3>1. new \notin DOMAIN senders
      BY <1>1 DEF IdsInv, IdsBounded, ServerTypes
    <3>2. CASE senders' = Insert(senders, new, c)
      BY <3>1, <3>2 DEF Insert
    <3>3. CASE senders' = senders
      BY <3>1, <3>3
    <3> QED
      BY <1>1, <1>3, <3>2, <3>3 DEF AddMessage
  <2>8. ServerTypes'
    BY <1>1, <2>2, <2>3, <2>7 DEF IdsInv, ServerTypes
  <2>9. IdsBounded'
    <3>1. \A i \in DOMAIN senders' : i <= new
      BY <1>1, <2>7 DEF IdsInv, IdsBounded, ServerTypes
    <3>2. \A d \in Conns : \A reg \in (Promised(d))' :
            reg.role = "Sender" => reg.id <= new
      BY <1>1, <2>5, <2>6 DEF Registrations
    <3> QED
      BY <1>1, <3>1, <3>2 DEF IdsBounded
  <2>10. PromisesOwned'
    <3> SUFFICES ASSUME NEW d \in Conns, NEW reg \in (Promised(d))',
                        reg.role = "Sender"
                 PROVE  /\ reg.id \in DOMAIN senders' => senders'[reg.id] = d
                        /\ \A e \in Conns \ {d} : reg \notin (Promised(e))'
      BY DEF PromisesOwned
    <3>1. CASE reg \in told[d]
      <4>1. reg.id # new /\ reg # reply
        BY <1>1, <2>6, <3>1 DEF Registrations
      <4>2. reg.id \in DOMAIN senders' => reg.id \in DOMAIN senders
        BY <2>7, <4>1
      <4> QED
        BY <2>4, <2>5, <2>7, <3>1, <4>1, <4>2 DEF IdsInv, PromisesOwned
    <3>2. CASE d = c /\ reg = reply
      <4>1. reg.id = new
        BY <3>2
      <4>2. \A e \in Conns : reg \notin told[e]
        BY <1>1, <2>6, <4>1
      <4> QED
        BY <2>5, <2>7, <3>2, <4>1, <4>2
    <3> QED
      BY <2>5, <3>1, <3>2
  <2> QED
    BY <2>8, <2>9, <2>10 DEF IdsInv
<1> QED
  BY <1>2, <1>3

LEMMA IdsInvariance == Spec => []IdsInv
<1>1. Init => IdsInv
  <2> SUFFICES ASSUME Init PROVE IdsInv
    OBVIOUS
  <2>1. Free /\ told = [c \in Conns |-> {}] /\ DOMAIN senders = {}
    BY DEF Init, Free
  <2>2. \A c \in Conns : Promised(c) = {}
    BY <2>1 DEF Promised
  <2> QED
    BY <2>1, <2>2 DEF Init, IdsInv, ServerTypes, IdsBounded, PromisesOwned, Free
<1>2. IdsInv /\ [Next]_vars => IdsInv'
  <2> SUFFICES ASSUME IdsInv, [Next]_vars
               PROVE  IdsInv'
    OBVIOUS
  <2>1. ASSUME NEW c \in Conns, OnAccept(c)
        PROVE  IdsInv'
    BY <2>1, ShrinkKeepsIds DEF OnAccept, SubMap, Free
  <2>2. ASSUME NEW c \in Conns, NEW role \in Roles, AddMessage(c, role)
        PROVE  IdsInv'
    BY <2>2, AddKeepsIds
  <2>3. ASSUME NEW c \in Conns, CloseMessage(c)
        PROVE  IdsInv'
    <3>1. PICK reg \in told[c] : Unregister(c, reg.role, reg.id)
      BY <2>3 DEF CloseMessage
    <3>2. told' = told /\ current_sender_id' = current_sender_id
      BY <2>3 DEF CloseMessage
    <3> QED
      BY <3>1, <3>2, UnregisterShrinks, ShrinkKeepsIds
  <2>4. ASSUME NEW c \in Conns, OnClose(c)
        PROVE  IdsInv'
    <3>1. told' = told /\ current_sender_id' = current_sender_id /\ Free
      BY <2>4 DEF OnClose
    <3>2. ASSUME NEW role, NEW id, Unregister(c, role, id)
          PROVE  IdsInv'
      BY <3>1, <3>2, UnregisterShrinks, ShrinkKeepsIds
    <3>3. CASE UNCHANGED <<uiVars, senders, receivers, handler>>
      BY <3>1, <3>3, ShrinkKeepsIds DEF SubMap, Free
    <3> QED
      BY <2>4, <3>2, <3>3 DEF OnClose
  <2>5. CASE EmitAndReply
    <3>1. /\ ~Free /\ Free' /\ senders' = senders
          /\ current_sender_id' = current_sender_id
          /\ told' = [told EXCEPT ![handler.client] = @ \cup handler.reply]
      BY <2>5 DEF EmitAndReply, Free
    <3>2. handler.client \in Conns /\ handler.reply \in SUBSET Registrations
      BY <3>1 DEF IdsInv, ServerTypes, Free
    <3>3. told' \in [Conns -> SUBSET Registrations]
      BY <3>1, <3>2 DEF IdsInv, ServerTypes
    <3>4. \A c \in Conns : (Promised(c))' = Promised(c)
      BY <3>1, <3>2 DEF Promised, IdsInv, ServerTypes
    <3> QED
      BY <3>1, <3>3, <3>4 DEF IdsInv, ServerTypes, IdsBounded, PromisesOwned, Free
  <2>6. CASE GtkStep \/ UNCHANGED vars
    <3>1. UNCHANGED serverVars
      BY <2>6 DEF GtkStep, vars
    <3>2. \A c : (Promised(c))' = Promised(c)
      BY <3>1 DEF serverVars, Promised, Free
    <3> QED
      BY <3>1, <3>2
      DEF serverVars, IdsInv, ServerTypes, IdsBounded, PromisesOwned, Free
  <2> QED
    BY <2>1, <2>2, <2>3, <2>4, <2>5, <2>6 DEF Next, SocketStep
<1> QED
  BY <1>1, <1>2, PTL DEF Spec

\* A sender id that was given out belongs to one client for ever: no Add, Close
\* or disconnect, in any order, registers it to another.
THEOREM SenderIdsOwned == Spec => []SenderIdsAreOwned
<1>1. IdsInv => SenderIdsAreOwned
  BY DEF IdsInv, PromisesOwned, Promised, SenderIdsAreOwned
<1> QED
  BY <1>1, IdsInvariance, PTL

-----------------------------------------------------------------------------
(* What is left of a client that has gone.  OnClose takes away one entry, so *)
(* the argument is that a client which added itself once has one at most, in *)
(* one of the two maps, however the receivers collide.                       *)

NoEntry(c) == IdsOf(c, senders) = {} /\ IdsOf(c, receivers) = {}

OneEntry(c) ==
  /\ \A i, j \in IdsOf(c, senders) : i = j
  /\ \A i, j \in IdsOf(c, receivers) : i = j
  /\ IdsOf(c, senders) = {} \/ IdsOf(c, receivers) = {}

EntriesBounded ==
  \A c \in Conns :
    /\ adds[c] = 0 => NoEntry(c)
    /\ adds[c] = 1 => OneEntry(c)

CountersType == adds \in [Conns -> Nat] /\ conn \in [Conns -> {"new", "open", "closed"}]

EntriesInv == CountersType /\ EntriesBounded /\ ClosedIsForgotten

\* Taking entries away keeps the bound on them.
LEMMA ShrinkKeepsEntries ==
  ASSUME NEW c, SubMap(senders', senders), SubMap(receivers', receivers)
  PROVE  /\ NoEntry(c) => NoEntry(c)'
         /\ OneEntry(c) => OneEntry(c)'
         /\ IdsOf(c, senders') \subseteq IdsOf(c, senders)
         /\ IdsOf(c, receivers') \subseteq IdsOf(c, receivers)
BY DEF NoEntry, OneEntry, IdsOf, SubMap

\* An insertion gives its client one entry more, and nobody else any.
LEMMA InsertEntries ==
  ASSUME NEW m, NEW id, NEW c, NEW d
  PROVE  /\ d # c => IdsOf(d, Insert(m, id, c)) \subseteq IdsOf(d, m)
         /\ IdsOf(c, Insert(m, id, c)) \subseteq IdsOf(c, m) \cup {id}
BY DEF Insert, IdsOf

LEMMA AddKeepsEntries ==
  ASSUME EntriesInv, NEW c \in Conns, NEW role \in Roles, AddMessage(c, role)
  PROVE  EntriesInv'
<1>1. /\ conn[c] = "open" /\ conn' = conn
      /\ adds' = [adds EXCEPT ![c] = @ + 1]
  BY DEF AddMessage
<1>2. CountersType'
  BY <1>1 DEF EntriesInv, CountersType
<1>3. PICK i, j :
        \/ senders' = Insert(senders, i, c) /\ receivers' = receivers
        \/ receivers' = Insert(receivers, j, c) /\ senders' = senders
        \/ senders' = senders /\ receivers' = receivers
  BY DEF AddMessage, Roles, Lists
<1>4. ASSUME NEW d \in Conns, d # c
      PROVE  /\ adds'[d] = adds[d]
             /\ IdsOf(d, senders') \subseteq IdsOf(d, senders)
             /\ IdsOf(d, receivers') \subseteq IdsOf(d, receivers)
  BY <1>1, <1>3, <1>4, InsertEntries DEF EntriesInv, CountersType
<1>5. ASSUME adds'[c] <= 1
      PROVE  adds[c] = 0 /\ adds'[c] = 1 /\ NoEntry(c) /\ OneEntry(c)'
  <2>1. adds[c] = 0 /\ adds'[c] = 1 /\ NoEntry(c)
    BY <1>1, <1>5 DEF EntriesInv, CountersType, EntriesBounded
  <2>2. \/ IdsOf(c, senders') \subseteq {i} /\ IdsOf(c, receivers') = {}
        \/ IdsOf(c, senders') = {} /\ IdsOf(c, receivers') \subseteq {j}
    BY <1>3, <2>1, InsertEntries DEF NoEntry
  <2> QED
    BY <2>1, <2>2 DEF OneEntry
<1>6. adds'[c] \in Nat \ {0}
  BY <1>1 DEF EntriesInv, CountersType
<1>7. EntriesBounded'
  <2> SUFFICES ASSUME NEW d \in Conns
               PROVE  /\ adds'[d] = 0 => NoEntry(d)'
                      /\ adds'[d] = 1 => OneEntry(d)'
    BY DEF EntriesBounded
  <2>1. CASE d = c
    BY <1>5, <1>6, <2>1
  <2>2. CASE d # c
    BY <1>4, <2>2 DEF EntriesInv, EntriesBounded, NoEntry, OneEntry
  <2> QED
    BY <2>1, <2>2
<1>8. ClosedIsForgotten'
  BY <1>1, <1>4 DEF EntriesInv, ClosedIsForgotten, LeftAfterOneAdd
<1> QED
  BY <1>2, <1>7, <1>8 DEF EntriesInv

LEMMA OnCloseKeepsEntries ==
  ASSUME EntriesInv, NEW c \in Conns, OnClose(c)
  PROVE  EntriesInv'
<1>1. conn' = [conn EXCEPT ![c] = "closed"] /\ adds' = adds
  BY DEF OnClose
<1>2. CountersType'
  BY <1>1 DEF EntriesInv, CountersType
<1>3. SubMap(senders', senders) /\ SubMap(receivers', receivers)
  <2>1. CASE \E role, id : Unregister(c, role, id)
    BY <2>1, UnregisterShrinks
  <2>2. CASE UNCHANGED <<uiVars, senders, receivers, handler>>
    BY <2>2 DEF SubMap
  <2> QED
    BY <2>1, <2>2 DEF OnClose
<1>4. EntriesBounded'
  BY <1>1, <1>3, ShrinkKeepsEntries DEF EntriesInv, EntriesBounded
<1>5. ASSUME adds[c] <= 1
      PROVE  NoEntry(c)'
  <2>1. OneEntry(c)
    BY <1>5 DEF EntriesInv, CountersType, EntriesBounded, NoEntry, OneEntry
  <2>2. ASSUME NEW id \in IdsOf(c, senders), Unregister(c, "Sender", id)
        PROVE  NoEntry(c)'
    <3>1. senders' = Erase(senders, id) /\ receivers' = receivers
      BY <2>2 DEF Unregister
    <3>2. id \notin IdsOf(c, senders') /\ IdsOf(c, senders') \subseteq IdsOf(c, senders)
      BY <3>1, EraseShrinks DEF IdsOf, SubMap
    <3> QED
      BY <2>1, <2>2, <3>1, <3>2 DEF OneEntry, NoEntry
  <2>3. ASSUME IdsOf(c, senders) = {},
               NEW id \in IdsOf(c, receivers), Unregister(c, "Receiver", id)
        PROVE  NoEntry(c)'
    <3>1. receivers' = Erase(receivers, id) /\ senders' = senders
      BY <2>3 DEF Unregister
    <3>2. /\ id \notin IdsOf(c, receivers')
          /\ IdsOf(c, receivers') \subseteq IdsOf(c, receivers)
      BY <3>1, EraseShrinks DEF IdsOf, SubMap
    <3> QED
      BY <2>1, <2>3, <3>1, <3>2 DEF OneEntry, NoEntry
  <2>4. CASE /\ IdsOf(c, senders) \cup IdsOf(c, receivers) = {}
             /\ UNCHANGED <<uiVars, senders, receivers, handler>>
    BY <2>4 DEF NoEntry
  <2> QED
    BY <2>2, <2>3, <2>4 DEF OnClose
<1>6. ClosedIsForgotten'
  <2> SUFFICES ASSUME NEW d \in Conns, LeftAfterOneAdd(d)'
               PROVE  NoEntry(d)'
    BY DEF ClosedIsForgotten, NoEntry
  <2>1. CASE d = c
    BY <1>1, <1>5, <2>1 DEF LeftAfterOneAdd
  <2>2. CASE d # c
    <3>1. NoEntry(d)
      BY <1>1, <2>2 DEF EntriesInv, CountersType, ClosedIsForgotten,
                        LeftAfterOneAdd, NoEntry
    <3> QED
      BY <1>3, <3>1, ShrinkKeepsEntries
  <2> QED
    BY <2>1, <2>2
<1> QED
  BY <1>2, <1>4, <1>6 DEF EntriesInv

\* A step that takes entries away without closing a connection.
LEMMA ShrinkKeepsEntriesInv ==
  ASSUME EntriesInv, adds' = adds,
         SubMap(senders', senders), SubMap(receivers', receivers),
         conn' \in [Conns -> {"new", "open", "closed"}],
         \A c \in Conns : conn'[c] = "closed" => conn[c] = "closed"
  PROVE  EntriesInv'
<1>1. CountersType'
  BY DEF EntriesInv, CountersType
<1>2. EntriesBounded'
  BY ShrinkKeepsEntries DEF EntriesInv, EntriesBounded
<1>3. ClosedIsForgotten'
  BY ShrinkKeepsEntries DEF EntriesInv, ClosedIsForgotten, LeftAfterOneAdd
<1> QED
  BY <1>1, <1>2, <1>3 DEF EntriesInv

\* OnClose forgets a client that added itself at most once: neither map holds
\* it afterwards, whatever other clients do before, between and after.
THEOREM ClosedForgotten == Spec => []ClosedIsForgotten
<1>1. Init => EntriesInv
  BY DEF Init, EntriesInv, CountersType, EntriesBounded, NoEntry, OneEntry,
         IdsOf, ClosedIsForgotten, LeftAfterOneAdd
<1>2. EntriesInv /\ [Next]_vars => EntriesInv'
  <2> SUFFICES ASSUME EntriesInv, [Next]_vars
               PROVE  EntriesInv'
    OBVIOUS
  <2>1. ASSUME NEW c \in Conns, OnAccept(c)
        PROVE  EntriesInv'
    BY <2>1, ShrinkKeepsEntriesInv
    DEF OnAccept, SubMap, EntriesInv, CountersType
  <2>2. ASSUME NEW c \in Conns, NEW role \in Roles, AddMessage(c, role)
        PROVE  EntriesInv'
    BY <2>2, AddKeepsEntries
  <2>3. ASSUME NEW c \in Conns, CloseMessage(c)
        PROVE  EntriesInv'
    <3>1. \E role, id : Unregister(c, role, id)
      BY <2>3 DEF CloseMessage
    <3>2. conn' = conn /\ adds' = adds
      BY <2>3 DEF CloseMessage
    <3> QED
      BY <3>1, <3>2, UnregisterShrinks, ShrinkKeepsEntriesInv
      DEF EntriesInv, CountersType
  <2>4. ASSUME NEW c \in Conns, OnClose(c)
        PROVE  EntriesInv'
    BY <2>4, OnCloseKeepsEntries
  <2>5. CASE EmitAndReply \/ GtkStep \/ UNCHANGED vars
    <3>1. UNCHANGED <<conn, adds, senders, receivers>>
      BY <2>5 DEF EmitAndReply, GtkStep, serverVars, vars
    <3> QED
      BY <3>1, ShrinkKeepsEntriesInv DEF SubMap, EntriesInv, CountersType
  <2> QED
    BY <2>1, <2>2, <2>3, <2>4, <2>5 DEF Next, SocketStep
<1> QED
  BY <1>1, <1>2, PTL DEF Spec, EntriesInv

-----------------------------------------------------------------------------
(* Types.  A queued update names a list and an id; a row has an id and the   *)
(* name of its client.                                                       *)

Row == [id : Nat, name : Conns]
Tasks == [op : {"add"}, list : Lists, id : Nat, name : Conns]
           \cup [op : {"remove"}, list : Lists, id : Nat]
ListsOfRows == [Lists -> Seq(Row)]

\* RemoveClientSection_ takes one row out, the first with its id.
LEMMA RowRemoved ==
  ASSUME NEW q \in Seq(Row), NEW id, \E i \in 1..Len(q) : q[i].id = id
  PROVE  \E p \in 1..Len(q) :
           /\ q[p].id = id
           /\ LET left == RemoveFirstMatch(q, LAMBDA row : row.id = id)
              IN  /\ left \in Seq(Row)
                  /\ Len(left) = Len(q) - 1
                  /\ \A i \in 1..Len(left) : left[i] = IF i < p THEN q[i] ELSE q[i + 1]
<1>. DEFINE I == {i \in 1..Len(q) : q[i].id = id}
<1>1. Len(q) \in Nat /\ \A i \in 1..Len(q) : q[i] \in Row
  OBVIOUS
<1>2. PICK p \in I : \A i \in I : p <= i
  <2>1. I \in SUBSET Nat /\ I # {}
    OBVIOUS
  <2>. HIDE DEF I
  <2>. QED  BY <2>1, LowestNat
<1>3. SelectInSeq(q, LAMBDA row : row.id = id) = Min(I)
  <2>. QED BY <1>2 DEF SelectInSeq
<1>4. Min(I) = p
  BY <1>2 DEF Min
<1>5. RemoveFirstMatch(q, LAMBDA row : row.id = id) = SubSeq(q, 1, p - 1) \o SubSeq(q, p + 1, Len(q))
  BY <1>3, <1>4 DEF RemoveFirstMatch, RemoveAt
<1>. DEFINE before == SubSeq(q, 1, p - 1)
            behind == SubSeq(q, p + 1, Len(q))
<1>6. p \in 1..Len(q) /\ q[p].id = id
  OBVIOUS
<1>. HIDE DEF I
<1>7. before \in Seq(Row) /\ Len(before) = p - 1 /\ \A i \in 1..(p-1) : before[i] = q[i]
  <2>1. \A i \in 1..(p-1) : q[i] \in Row
    BY <1>1, <1>6
  <2>2. /\ before \in Seq(Row) /\ Len(before) = IF 1 <= p - 1 THEN (p - 1) - 1 + 1 ELSE 0
        /\ \A i \in 1..((p - 1) - 1 + 1) : before[i] = q[1 + i - 1]
    BY <1>6, <2>1, SubSeqProperties
  <2>3. \A i \in 1..(p - 1) : 1 + i - 1 = i /\ i \in 1..((p - 1) - 1 + 1)
    BY <1>6
  <2>. QED  BY <1>6, <2>2, <2>3
<1>8. behind \in Seq(Row) /\ Len(behind) = Len(q) - p
      /\ \A i \in 1..(Len(q) - p) : behind[i] = q[p + i]
  <2>1. \A i \in (p + 1)..Len(q) : q[i] \in Row
    BY <1>1, <1>6
  <2>2. /\ behind \in Seq(Row)
        /\ Len(behind) = IF p + 1 <= Len(q) THEN Len(q) - (p + 1) + 1 ELSE 0
        /\ \A i \in 1..(Len(q) - (p + 1) + 1) : behind[i] = q[(p + 1) + i - 1]
    BY <1>1, <1>6, <2>1, SubSeqProperties
  <2>3. \A i \in 1..(Len(q) - p) : (p + 1) + i - 1 = p + i /\ i \in 1..(Len(q) - (p + 1) + 1)
    BY <1>1, <1>6
  <2>. QED  BY <1>1, <1>6, <2>2, <2>3
<1>. DEFINE left == before \o behind
<1>. HIDE DEF before, behind
<1>9. /\ left \in Seq(Row) /\ Len(left) = Len(before) + Len(behind)
      /\ \A i \in 1..(Len(before) + Len(behind)) :
           left[i] = IF i <= Len(before) THEN before[i] ELSE behind[i - Len(before)]
  BY <1>7, <1>8, ConcatProperties
<1>. HIDE DEF left
<1>10. Len(left) = Len(q) - 1
  BY <1>1, <1>6, <1>7, <1>8, <1>9
<1>11. ASSUME NEW i \in 1..Len(left)  PROVE left[i] = IF i < p THEN q[i] ELSE q[i + 1]
  <2>1. i \in 1..(Len(before) + Len(behind))
    BY <1>9
  <2>2. CASE i < p
    BY <1>1, <1>6, <1>7, <1>9, <2>1, <2>2
  <2>3. CASE i >= p
    <3>1. PICK j \in 1..(Len(q) - p) : j = i - Len(before) /\ p + j = i + 1
      BY <1>1, <1>6, <1>7, <1>10, <2>3
    <3>2. left[i] = behind[j]
      BY <1>1, <1>6, <1>7, <1>9, <2>1, <2>3, <3>1
    <3>. QED  BY <1>6, <1>8, <2>3, <3>1, <3>2
  <2>. QED  BY <1>6, <2>2, <2>3
<1>. QED  BY <1>5, <1>6, <1>9, <1>10, <1>11 DEF left, before, behind

\* One update of the window keeps its lists lists of rows.
LEMMA ShownTyped ==
  ASSUME NEW lists \in ListsOfRows, NEW t \in Tasks
  PROVE  Shown(lists, t) \in ListsOfRows
<1>1. t.list \in Lists /\ lists[t.list] \in Seq(Row)
  BY DEF Tasks, ListsOfRows
<1>2. CASE t.op = "add"
  <2>1. [id |-> t.id, name |-> t.name] \in Row
    BY <1>2 DEF Tasks, Row
  <2>2. Append(lists[t.list], [id |-> t.id, name |-> t.name]) \in Seq(Row)
    BY <1>1, <2>1, AppendProperties
  <2>. QED  BY <1>1, <1>2, <2>2 DEF Shown, ListsOfRows
<1>3. CASE t.op # "add"
  <2>1. RemoveFirstMatch(lists[t.list], LAMBDA row : row.id = t.id) \in Seq(Row)
    <3>1. CASE \E i \in 1..Len(lists[t.list]) : lists[t.list][i].id = t.id
      BY <1>1, <3>1, RowRemoved
    <3>2. CASE ~ \E i \in 1..Len(lists[t.list]) : lists[t.list][i].id = t.id
      BY <1>1, <3>2 DEF RemoveFirstMatch
    <3>. QED  BY <3>1, <3>2
  <2>. QED  BY <1>1, <1>3, <2>1 DEF Shown, ListsOfRows
<1>. QED  BY <1>2, <1>3

-----------------------------------------------------------------------------
(* The lists once every queued update has run, one update after the other.   *)

UpdatesRun(g, lists, tasks) ==
  g[0] = lists /\ \A i \in 1..Len(tasks) : g[i] = Shown(g[i-1], tasks[i])

LEMMA UpdatesRunOne ==
  ASSUME NEW lists \in ListsOfRows, NEW tasks \in Seq(Tasks),
         NEW g \in [0..Len(tasks) -> ListsOfRows], UpdatesRun(g, lists, tasks),
         NEW h, UpdatesRun(h, lists, tasks)
  PROVE  \A i \in 0..Len(tasks) : g[i] = h[i]
<1>1. Len(tasks) \in Nat
  OBVIOUS
<1>. DEFINE T == {i \in 0..Len(tasks) : g[i] = h[i]}
<1>2. 0 \in T
  BY <1>1 DEF UpdatesRun
<1>3. ASSUME NEW i \in 0..(Len(tasks) - 1), i \in T  PROVE i + 1 \in T
  <2>1. i + 1 \in 1..Len(tasks) /\ i + 1 \in 0..Len(tasks) /\ (i + 1) - 1 = i /\ g[i] = h[i]
    BY <1>1, <1>3
  <2>2. g[i + 1] = Shown(g[i], tasks[i + 1]) /\ h[i + 1] = Shown(h[i], tasks[i + 1])
    BY <2>1 DEF UpdatesRun
  <2>. QED  BY <2>1, <2>2
<1>. HIDE DEF T
<1>4. 0..Len(tasks) \subseteq T
  BY <1>1, <1>2, <1>3, UpTo
<1>. QED  BY <1>4 DEF T

LEMMA UpdatesRunExists ==
  ASSUME NEW lists \in ListsOfRows, NEW tasks \in Seq(Tasks)
  PROVE  \E g \in [0..Len(tasks) -> ListsOfRows] :
           UpdatesRun(g, lists, tasks) /\ RowsAfter(lists, tasks) = g[Len(tasks)]
<1>1. PICK F : F = [p \in (1..Len(tasks)) \X ListsOfRows |-> Shown(p[2], tasks[p[1]])]
  OBVIOUS
<1>2. Len(tasks) \in Nat /\ \A i \in 1..Len(tasks) : tasks[i] \in Tasks
  OBVIOUS
<1>3. F \in [(1..Len(tasks)) \X ListsOfRows -> ListsOfRows]
  <2>1. ASSUME NEW p \in (1..Len(tasks)) \X ListsOfRows  PROVE Shown(p[2], tasks[p[1]]) \in ListsOfRows
    <3>1. p[2] \in ListsOfRows /\ tasks[p[1]] \in Tasks
      BY <1>2
    <3>. QED  BY <3>1, ShownTyped
  <2>. QED  BY <1>1, <2>1
<1>4. PICK g \in [0..Len(tasks) -> ListsOfRows] : Runs(g, Len(tasks), lists, F)
  BY <1>2, <1>3, RunExists
<1>5. UpdatesRun(g, lists, tasks)
  <2>1. ASSUME NEW i \in 1..Len(tasks)  PROVE g[i] = Shown(g[i-1], tasks[i])
    <3>1. i - 1 \in 0..Len(tasks) /\ g[i - 1] \in ListsOfRows
      BY <1>2
    <3>2. g[i] = F[<<i, g[i-1]>>]
      BY <1>4 DEF Runs
    <3>3. <<i, g[i-1]>> \in (1..Len(tasks)) \X ListsOfRows
      BY <3>1
    <3>. QED  BY <1>1, <3>2, <3>3
  <2>. QED  BY <1>4, <2>1 DEF Runs, UpdatesRun
<1>. DEFINE Steps(h) == [i \in 0..Len(tasks) |-> IF i = 0 THEN lists ELSE Shown(h[i-1], tasks[i])]
<1>6. PICK after : after = CHOOSE h : h = Steps(h)
  OBVIOUS
<1>7. RowsAfter(lists, tasks) = after[Len(tasks)]
  BY <1>6 DEF RowsAfter
<1>8. g = Steps(g)
  <2>1. \A i \in 0..Len(tasks) : g[i] = Steps(g)[i]
    <3>1. \A i \in 0..Len(tasks) : i = 0 \/ i \in 1..Len(tasks)
      BY <1>2
    <3>. QED  BY <1>5, <3>1 DEF UpdatesRun
  <2>2. DOMAIN g = 0..Len(tasks) /\ DOMAIN Steps(g) = 0..Len(tasks)
    OBVIOUS
  <2>. HIDE DEF Steps
  <2>3. g = [i \in 0..Len(tasks) |-> g[i]]
    OBVIOUS
  <2>. QED  BY <2>1, <2>3 DEF Steps
<1>9. after = Steps(after)
  <2>1. \E h : h = Steps(h)
    BY <1>8
  <2>. HIDE DEF Steps
  <2>. QED  BY <1>6, <2>1
<1>10. UpdatesRun(after, lists, tasks)
  <2>1. after[0] = lists
    BY <1>2, <1>9
  <2>2. ASSUME NEW i \in 1..Len(tasks)  PROVE after[i] = Shown(after[i-1], tasks[i])
    <3>1. i \in 0..Len(tasks) /\ i # 0
      BY <1>2
    <3>. QED  BY <1>9, <3>1
  <2>. QED  BY <2>1, <2>2 DEF UpdatesRun
<1>11. g[Len(tasks)] = after[Len(tasks)]
  <2>1. Len(tasks) \in 0..Len(tasks)
    BY <1>2
  <2>. QED  BY <1>5, <1>10, <2>1, UpdatesRunOne
<1>. QED  BY <1>5, <1>7, <1>11

LEMMA RowsAfterIs ==
  ASSUME NEW lists \in ListsOfRows, NEW tasks \in Seq(Tasks),
         NEW h, UpdatesRun(h, lists, tasks)
  PROVE  RowsAfter(lists, tasks) = h[Len(tasks)] /\ RowsAfter(lists, tasks) \in ListsOfRows
<1>1. PICK g \in [0..Len(tasks) -> ListsOfRows] :
        UpdatesRun(g, lists, tasks) /\ RowsAfter(lists, tasks) = g[Len(tasks)]
  BY UpdatesRunExists
<1>2. Len(tasks) \in 0..Len(tasks)
  OBVIOUS
<1>. QED  BY <1>1, <1>2, UpdatesRunOne

\* PushTask(): the update will run after those that are queued.
LEMMA RowsAfterAppend ==
  ASSUME NEW lists \in ListsOfRows, NEW tasks \in Seq(Tasks), NEW t \in Tasks
  PROVE  RowsAfter(lists, Append(tasks, t)) = Shown(RowsAfter(lists, tasks), t)
<1>. DEFINE more == Append(tasks, t)
<1>1. PICK g \in [0..Len(tasks) -> ListsOfRows] :
        UpdatesRun(g, lists, tasks) /\ RowsAfter(lists, tasks) = g[Len(tasks)]
  BY UpdatesRunExists
<1>2. /\ more \in Seq(Tasks) /\ Len(tasks) \in Nat /\ Len(more) = Len(tasks) + 1
      /\ \A i \in 1..Len(tasks) : more[i] = tasks[i]
      /\ more[Len(tasks) + 1] = t
  BY AppendProperties
<1>. HIDE DEF more
<1>3. PICK h : h = [i \in 0..Len(more) |->
                      IF i = Len(more) THEN Shown(g[Len(tasks)], t) ELSE g[i]]
  OBVIOUS
<1>4. h[Len(more)] = Shown(g[Len(tasks)], t) /\ \A i \in 0..Len(tasks) : h[i] = g[i]
  BY <1>2, <1>3
<1>5. UpdatesRun(h, lists, more)
  <2>1. h[0] = lists
    BY <1>1, <1>2, <1>4 DEF UpdatesRun
  <2>2. ASSUME NEW i \in 1..Len(more)  PROVE h[i] = Shown(h[i-1], more[i])
    <3>1. CASE i = Len(more)
      <4>1. i - 1 = Len(tasks) /\ Len(tasks) \in 0..Len(tasks)
        BY <1>2, <3>1
      <4>. QED  BY <1>2, <1>4, <3>1, <4>1
    <3>2. CASE i # Len(more)
      <4>1. i \in 1..Len(tasks) /\ i \in 0..Len(tasks) /\ i - 1 \in 0..Len(tasks)
        BY <1>2, <3>2
      <4>. QED  BY <1>1, <1>2, <1>4, <4>1 DEF UpdatesRun
    <3>. QED  BY <3>1, <3>2
  <2>. QED  BY <2>1, <2>2 DEF UpdatesRun
<1>6. RowsAfter(lists, more) = h[Len(more)]
  BY <1>2, <1>5, RowsAfterIs
<1>. QED  BY <1>1, <1>4, <1>6 DEF more

\* PopTask(): running an update changes nothing of what the lists will be.
LEMMA RowsAfterTail ==
  ASSUME NEW lists \in ListsOfRows, NEW tasks \in Seq(Tasks), tasks # <<>>
  PROVE  RowsAfter(Shown(lists, Head(tasks)), Tail(tasks)) = RowsAfter(lists, tasks)
<1>. DEFINE rest == Tail(tasks)
<1>1. PICK g \in [0..Len(tasks) -> ListsOfRows] :
        UpdatesRun(g, lists, tasks) /\ RowsAfter(lists, tasks) = g[Len(tasks)]
  BY UpdatesRunExists
<1>2. /\ rest \in Seq(Tasks) /\ Len(tasks) \in Nat /\ Len(tasks) >= 1
      /\ Len(rest) = Len(tasks) - 1 /\ Head(tasks) \in Tasks /\ Head(tasks) = tasks[1]
      /\ \A i \in 1..Len(rest) : rest[i] = tasks[i + 1]
  BY HeadTailProperties
<1>. HIDE DEF rest
<1>3. PICK h : h = [i \in 0..Len(rest) |-> g[i + 1]]
  OBVIOUS
<1>4. Shown(lists, Head(tasks)) \in ListsOfRows
  BY <1>2, ShownTyped
<1>5. UpdatesRun(h, Shown(lists, Head(tasks)), rest)
  <2>1. h[0] = Shown(lists, Head(tasks))
    <3>1. 1 \in 1..Len(tasks) /\ 0 \in 0..Len(rest)
      BY <1>2
    <3>2. g[1] = Shown(g[0], tasks[1]) /\ g[0] = lists
      BY <1>1, <3>1 DEF UpdatesRun
    <3>. QED  BY <1>2, <1>3, <3>1, <3>2
  <2>2. ASSUME NEW i \in 1..Len(rest)  PROVE h[i] = Shown(h[i-1], rest[i])
    <3>1. /\ i \in 0..Len(rest) /\ i - 1 \in 0..Len(rest) /\ i + 1 \in 1..Len(tasks)
          /\ (i + 1) - 1 = i /\ (i - 1) + 1 = i
      BY <1>2
    <3>2. h[i] = g[i + 1] /\ h[i - 1] = g[i] /\ rest[i] = tasks[i + 1]
      BY <1>2, <1>3, <3>1
    <3>3. g[i + 1] = Shown(g[i], tasks[i + 1])
      BY <1>1, <3>1 DEF UpdatesRun
    <3>. QED  BY <3>2, <3>3
  <2>. QED  BY <2>1, <2>2 DEF UpdatesRun
<1>6. RowsAfter(Shown(lists, Head(tasks)), rest) = h[Len(rest)]
  BY <1>2, <1>4, <1>5, RowsAfterIs
<1>7. h[Len(rest)] = g[Len(tasks)]
  BY <1>2, <1>3
<1>. QED  BY <1>1, <1>6, <1>7 DEF rest

LEMMA RowsAfterNone ==
  ASSUME NEW lists \in ListsOfRows
  PROVE  RowsAfter(lists, <<>>) = lists
<1>1. <<>> \in Seq(Tasks) /\ Len(<<>>) = 0
  OBVIOUS
<1>2. PICK g \in [0..Len(<<>>) -> ListsOfRows] :
        UpdatesRun(g, lists, <<>>) /\ RowsAfter(lists, <<>>) = g[Len(<<>>)]
  BY <1>1, UpdatesRunExists
<1>. QED  BY <1>1, <1>2 DEF UpdatesRun

-----------------------------------------------------------------------------
(* Every variable keeps its type. *)

Types ==
  /\ pending \in Seq(Tasks) /\ wakeups \in Nat /\ ui \in {"idle", "draining"}
  /\ rows \in ListsOfRows
  /\ conn \in [Conns -> {"new", "open", "closed"}]
  /\ adds \in [Conns -> Nat] /\ closes \in [Conns -> Nat]
  /\ current_receiver_id \in Nat
  /\ \A i \in DOMAIN senders : senders[i] \in Conns
  /\ \A i \in DOMAIN receivers : i \in Nat /\ receivers[i] \in Conns
  /\ handler = Idle \/ handler.step = "emit"

\* CloseMessageHandler queues one removal.
LEMMA UnregisterTypes ==
  ASSUME Types, NEW c, NEW role \in Lists, NEW id \in Nat, Unregister(c, role, id)
  PROVE  /\ pending' \in Seq(Tasks) /\ UNCHANGED <<wakeups, ui, rows>>
         /\ \A i \in DOMAIN senders' : senders'[i] \in Conns
         /\ \A i \in DOMAIN receivers' : i \in Nat /\ receivers'[i] \in Conns
         /\ handler'.step = "emit"
<1>1. [op |-> "remove", list |-> role, id |-> id] \in Tasks
  BY DEF Tasks
<1>2. pending' \in Seq(Tasks)
  BY <1>1, AppendProperties DEF Types, Unregister, RemoveClient, PushTask
<1>3. SubMap(senders', senders) /\ SubMap(receivers', receivers)
  BY UnregisterShrinks
<1>5. handler'.step = "emit" /\ UNCHANGED <<wakeups, ui, rows>>
  BY DEF Unregister
<1>6. \A i \in DOMAIN senders' : senders'[i] \in Conns
  BY <1>3 DEF Types, SubMap
<1>7. \A i \in DOMAIN receivers' : i \in Nat /\ receivers'[i] \in Conns
  BY <1>3 DEF Types, SubMap
<1>. QED  BY <1>2, <1>5, <1>6, <1>7

LEMMA NextTypes ==
  ASSUME Types, IdsInv, [Next]_vars
  PROVE  Types'
<1>1. ASSUME NEW c \in Conns, OnAccept(c)  PROVE Types'
  BY <1>1 DEF OnAccept, uiVars, Types, Free
<1>2. ASSUME NEW c \in Conns, NEW role \in Roles, AddMessage(c, role)  PROVE Types'
  <2>1. /\ UNCHANGED <<wakeups, ui, rows, conn, closes, current_receiver_id>>
        /\ adds' = [adds EXCEPT ![c] = @ + 1]
        /\ current_sender_id' \in Nat
    BY <1>2 DEF AddMessage, IdsInv, ServerTypes
  <2>2. adds' \in [Conns -> Nat]
    BY <2>1 DEF Types
  <2>3. handler' = Idle \/ handler'.step = "emit"
    BY <1>2 DEF AddMessage
  <2>4. CASE role = "Other"
    BY <1>2, <2>1, <2>2, <2>3, <2>4 DEF AddMessage, Types
  <2>5. CASE role = "Sender"
    <3>1. /\ senders' = Insert(senders, current_sender_id', c) /\ receivers' = receivers
          /\ pending' = Append(pending, [op |-> "add", list |-> "Sender",
                                         id |-> current_sender_id', name |-> c])
      BY <1>2, <2>5 DEF AddMessage, AddClient, PushTask
    <3>2. [op |-> "add", list |-> "Sender", id |-> current_sender_id', name |-> c] \in Tasks
      BY <2>1 DEF Tasks, Lists
    <3>3. pending' \in Seq(Tasks)
      BY <3>1, <3>2, AppendProperties DEF Types
    <3>4. \A i \in DOMAIN senders' : senders'[i] \in Conns
      BY <3>1 DEF Insert, Types
    <3>. QED  BY <2>1, <2>2, <2>3, <3>1, <3>3, <3>4 DEF Types
  <2>6. CASE role = "Receiver"
    <3>1. /\ receivers' = Insert(receivers, current_receiver_id, c) /\ senders' = senders
          /\ pending' = Append(pending, [op |-> "add", list |-> "Receiver",
                                         id |-> current_receiver_id, name |-> c])
      BY <1>2, <2>6 DEF AddMessage, AddClient, PushTask
    <3>2. [op |-> "add", list |-> "Receiver", id |-> current_receiver_id, name |-> c] \in Tasks
      BY DEF Tasks, Lists, Types
    <3>3. pending' \in Seq(Tasks)
      BY <3>1, <3>2, AppendProperties DEF Types
    <3>4. \A i \in DOMAIN receivers' : i \in Nat /\ receivers'[i] \in Conns
      BY <3>1 DEF Insert, Types
    <3>. QED  BY <2>1, <2>2, <2>3, <3>1, <3>3, <3>4 DEF Types
  <2>. QED  BY <2>4, <2>5, <2>6 DEF Roles, Lists
<1>3. ASSUME NEW c \in Conns, CloseMessage(c)  PROVE Types'
  <2>1. PICK reg \in told[c] : Unregister(c, reg.role, reg.id)
    BY <1>3 DEF CloseMessage
  <2>2. reg.role \in Lists /\ reg.id \in Nat
    BY DEF IdsInv, ServerTypes, Registrations
  <2>3. /\ UNCHANGED <<conn, adds, current_receiver_id>>
        /\ closes' = [closes EXCEPT ![c] = @ + 1]
    BY <1>3 DEF CloseMessage
  <2>4. /\ pending' \in Seq(Tasks) /\ UNCHANGED <<wakeups, ui, rows>>
        /\ \A i \in DOMAIN senders' : senders'[i] \in Conns
        /\ \A i \in DOMAIN receivers' : i \in Nat /\ receivers'[i] \in Conns
        /\ handler'.step = "emit"
    BY <2>1, <2>2, UnregisterTypes
  <2>. QED  BY <2>3, <2>4 DEF Types
<1>4. ASSUME NEW c \in Conns, OnClose(c)  PROVE Types'
  <2>1. /\ conn' = [conn EXCEPT ![c] = "closed"]
        /\ UNCHANGED <<adds, closes, current_sender_id, current_receiver_id>>
    BY <1>4 DEF OnClose
  <2>2. CASE \E role \in Lists, id \in Nat : Unregister(c, role, id)
    BY <2>1, <2>2, UnregisterTypes DEF Types
  <2>3. CASE UNCHANGED <<uiVars, senders, receivers, handler>>
    BY <2>1, <2>3 DEF Types, uiVars
  <2>4. IdsOf(c, senders) \subseteq Nat /\ IdsOf(c, receivers) \subseteq Nat
    BY DEF IdsOf, Types, IdsInv, ServerTypes
  <2>. QED  BY <1>4, <2>2, <2>3, <2>4 DEF OnClose, Lists
<1>5. CASE EmitAndReply
  BY <1>5 DEF EmitAndReply, Emit, Types
<1>6. CASE GtkStep
  <2>1. UNCHANGED serverVars
    BY <1>6 DEF GtkStep
  <2>2. CASE RunUiTask
    <3>1. pending # <<>> /\ pending' = Tail(pending) /\ rows' = Shown(rows, Head(pending))
          /\ UNCHANGED <<wakeups, ui>>
      BY <2>2 DEF RunUiTask
    <3>2. pending' \in Seq(Tasks) /\ Head(pending) \in Tasks
      BY <3>1, HeadTailProperties DEF Types
    <3>3. rows' \in ListsOfRows
      BY <3>1, <3>2, ShownTyped DEF Types
    <3>. QED  BY <2>1, <3>1, <3>2, <3>3 DEF serverVars, Types
  <2>3. CASE Dispatch \/ DrainDone
    BY <2>1, <2>3 DEF Dispatch, DrainDone, serverVars, Types
  <2>. QED  BY <1>6, <2>2, <2>3 DEF GtkStep, UiStep
<1>7. CASE UNCHANGED vars
  BY <1>7 DEF vars, uiVars, serverVars, Types
<1>. QED  BY <1>1, <1>2, <1>3, <1>4, <1>5, <1>6, <1>7 DEF Next, SocketStep

LEMMA TypesInvariance == Spec => []Types
<1>1. Init => Types
  BY DEF Init, UiInit, Types, ListsOfRows, Lists, Idle
<1>. QED  BY <1>1, NextTypes, IdsInvariance, PTL DEF Spec

\* Every variable keeps its type: a queued update names a list and an id, and a
\* handler that has something left to do has a client to answer.
THEOREM TypeCorrect == Spec => []TypeOK
<1>1. Types /\ IdsInv => TypeOK
  <2>. SUFFICES ASSUME Types, IdsInv  PROVE TypeOK
    OBVIOUS
  <2>1. UiTypeOK
    <3>1. \A i \in DOMAIN pending : /\ pending[i].op \in {"add", "remove"}
                                    /\ pending[i].list \in Lists /\ pending[i].id \in Nat
      <4>1. \A i \in DOMAIN pending : pending[i] \in Tasks
        BY DEF Types
      <4>. QED  BY <4>1 DEF Tasks
    <3>2. DOMAIN rows = Lists /\ \A l \in Lists : \A i \in DOMAIN rows[l] : rows[l][i].id \in Nat
      <4>1. \A l \in Lists : \A i \in DOMAIN rows[l] : rows[l][i] \in Row
        BY DEF Types, ListsOfRows
      <4>. QED  BY <4>1 DEF Types, ListsOfRows, Row
    <3>. QED  BY <3>1, <3>2 DEF UiTypeOK, Types
  <2>2. /\ DOMAIN senders \subseteq Nat /\ Range(senders) \subseteq Conns
        /\ DOMAIN receivers \subseteq Nat /\ Range(receivers) \subseteq Conns
    BY DEF Types, IdsInv, ServerTypes, Range
  <2>3. \/ handler = Idle
        \/ /\ handler.step = "emit" /\ handler.client \in Conns
           /\ handler.reply \subseteq [role : Lists, id : Nat]
    BY DEF Types, IdsInv, ServerTypes, Registrations
  <2>4. \A c \in Conns : told[c] \subseteq [role : Lists, id : Nat]
    BY DEF IdsInv, ServerTypes, Registrations
  <2>. QED  BY <2>1, <2>2, <2>3, <2>4 DEF TypeOK, Types, IdsInv, ServerTypes
<1>. QED  BY <1>1, TypesInvariance, IdsInvariance, PTL

-----------------------------------------------------------------------------
(* The sender list is on its way to senders_.  What is maintained is that the *)
(* list, once the queue is empty, has one row for each entry and no other.    *)

Mirrors(q, map) ==
  /\ \A i \in 1..Len(q) : q[i].id \in DOMAIN map /\ map[q[i].id] = q[i].name
  /\ \A id \in DOMAIN map : \E i \in 1..Len(q) : q[i].id = id
  /\ \A i, j \in 1..Len(q) : i # j => q[i].id # q[j].id

MirrorInv == Mirrors(FinalRows["Sender"], senders)

LEMMA AppendMirrors ==
  ASSUME NEW q \in Seq(Row), NEW map, Mirrors(q, map),
         NEW id \in Nat, id \notin DOMAIN map, NEW c \in Conns
  PROVE  Mirrors(Append(q, [id |-> id, name |-> c]), Insert(map, id, c))
<1>. DEFINE row == [id |-> id, name |-> c]
            more == Append(q, row)
            now == Insert(map, id, c)
<1>1. row \in Row
  BY DEF Row
<1>2. /\ Len(q) \in Nat /\ Len(more) = Len(q) + 1
      /\ \A i \in 1..Len(q) : more[i] = q[i]
      /\ more[Len(q) + 1] = row
  BY <1>1, AppendProperties
<1>3. DOMAIN now = DOMAIN map \cup {id} /\ now[id] = c /\ \A k \in DOMAIN map : now[k] = map[k]
  BY DEF Insert
<1>4. row.id = id /\ row.name = c
  OBVIOUS
<1>. HIDE DEF row, more, now
<1>5. \A i \in 1..Len(more) : i \in 1..Len(q) \/ i = Len(q) + 1
  BY <1>2
<1>6. ASSUME NEW i \in 1..Len(more)
      PROVE  more[i].id \in DOMAIN now /\ now[more[i].id] = more[i].name
  <2>1. CASE i \in 1..Len(q)
    <3>1. q[i].id \in DOMAIN map /\ map[q[i].id] = q[i].name
      BY <2>1 DEF Mirrors
    <3>. QED  BY <1>2, <1>3, <2>1, <3>1
  <2>2. CASE i = Len(q) + 1
    BY <1>2, <1>3, <1>4, <2>2
  <2>. QED  BY <1>5, <2>1, <2>2
<1>7. ASSUME NEW k \in DOMAIN now  PROVE \E i \in 1..Len(more) : more[i].id = k
  <2>1. CASE k = id
    BY <1>2, <1>4, <2>1
  <2>2. CASE k # id
    <3>1. PICK i \in 1..Len(q) : q[i].id = k
      BY <1>3, <2>2 DEF Mirrors
    <3>. QED  BY <1>2, <3>1
  <2>. QED  BY <2>1, <2>2
<1>8. \A i \in 1..Len(q) : more[i].id # id
  BY <1>2 DEF Mirrors
<1>9. ASSUME NEW i \in 1..Len(more), NEW j \in 1..Len(more), i # j
      PROVE  more[i].id # more[j].id
  <2>1. CASE i \in 1..Len(q) /\ j \in 1..Len(q)
    BY <1>2, <1>9, <2>1 DEF Mirrors
  <2>2. CASE i = Len(q) + 1 /\ j \in 1..Len(q)
    BY <1>2, <1>4, <1>8, <2>2
  <2>3. CASE j = Len(q) + 1 /\ i \in 1..Len(q)
    BY <1>2, <1>4, <1>8, <2>3
  <2>. QED  BY <1>5, <1>9, <2>1, <2>2, <2>3
<1>. QED  BY <1>6, <1>7, <1>9 DEF Mirrors, more, now, row

LEMMA RemoveMirrors ==
  ASSUME NEW q \in Seq(Row), NEW map, Mirrors(q, map), NEW id
  PROVE  Mirrors(RemoveFirstMatch(q, LAMBDA row : row.id = id), Erase(map, id))
<1>. DEFINE left == RemoveFirstMatch(q, LAMBDA row : row.id = id)
            now == Erase(map, id)
<1>1. DOMAIN now = DOMAIN map \ {id} /\ \A k \in DOMAIN map \ {id} : now[k] = map[k]
  BY DEF Erase, Restrict
<1>2. CASE ~ \E i \in 1..Len(q) : q[i].id = id
  <2>1. left = q
    BY <1>2 DEF RemoveFirstMatch
  <2>2. id \notin DOMAIN map
    BY <1>2 DEF Mirrors
  <2>. HIDE DEF left, now
  <2>3. Mirrors(left, now)
    BY <1>1, <2>1, <2>2 DEF Mirrors
  <2>. QED  BY <2>3 DEF left, now
<1>3. CASE \E i \in 1..Len(q) : q[i].id = id
  <2>1. PICK p \in 1..Len(q) :
          /\ q[p].id = id
          /\ left \in Seq(Row) /\ Len(left) = Len(q) - 1
          /\ \A i \in 1..Len(left) : left[i] = IF i < p THEN q[i] ELSE q[i + 1]
    BY <1>3, RowRemoved
  <2>2. Len(q) \in Nat
    OBVIOUS
  <2>. HIDE DEF left, now
  <2>3. \A i \in 1..Len(left) :
          \E k \in 1..Len(q) : k # p /\ left[i] = q[k] /\ k = IF i < p THEN i ELSE i + 1
    BY <2>1, <2>2
  <2>4. \A i \in 1..Len(left) : left[i].id \in DOMAIN now /\ now[left[i].id] = left[i].name
    <3>. SUFFICES ASSUME NEW i \in 1..Len(left)
                  PROVE  left[i].id \in DOMAIN now /\ now[left[i].id] = left[i].name
      OBVIOUS
    <3>1. PICK k \in 1..Len(q) : k # p /\ left[i] = q[k]
      BY <2>3
    <3>2. q[k].id # id /\ q[k].id \in DOMAIN map /\ map[q[k].id] = q[k].name
      BY <2>1, <3>1 DEF Mirrors
    <3>. QED  BY <1>1, <3>1, <3>2
  <2>5. ASSUME NEW n \in DOMAIN now  PROVE \E i \in 1..Len(left) : left[i].id = n
    <3>1. PICK k \in 1..Len(q) : q[k].id = n /\ k # p
      BY <1>1, <2>1 DEF Mirrors
    <3>2. CASE k < p
      <4>1. k \in 1..Len(left) /\ left[k] = q[k]
        BY <2>1, <2>2, <3>2
      <4>. QED  BY <3>1, <4>1
    <3>3. CASE k > p
      <4>1. PICK i \in 1..Len(left) : i = k - 1
        BY <2>1, <2>2, <3>3
      <4>2. ~(i < p) /\ i + 1 = k
        BY <2>1, <2>2, <3>3, <4>1
      <4>3. left[i] = q[k]
        BY <2>1, <4>2
      <4>. QED  BY <3>1, <4>3
    <3>. QED  BY <2>1, <3>1, <3>2, <3>3
  <2>6. ASSUME NEW i \in 1..Len(left), NEW j \in 1..Len(left), i # j
        PROVE  left[i].id # left[j].id
    <3>1. PICK k \in 1..Len(q) : left[i] = q[k] /\ k = IF i < p THEN i ELSE i + 1
      BY <2>3
    <3>2. PICK m \in 1..Len(q) : left[j] = q[m] /\ m = IF j < p THEN j ELSE j + 1
      BY <2>3
    <3>3. k # m
      BY <2>1, <2>2, <2>6, <3>1, <3>2
    <3>4. \A a, b \in 1..Len(q) : a # b => q[a].id # q[b].id
      BY DEF Mirrors
    <3>5. q[k].id # q[m].id
      BY <3>3, <3>4
    <3>. QED  BY <3>1, <3>2, <3>5
  <2>7. Mirrors(left, now)
    BY <2>4, <2>5, <2>6 DEF Mirrors
  <2>. QED  BY <2>7 DEF left, now
<1>. QED  BY <1>2, <1>3

\* What a queued update will have done to the sender list.
LEMMA SenderRows ==
  ASSUME NEW lists \in ListsOfRows, NEW t \in Tasks
  PROVE  Shown(lists, t)["Sender"] =
           IF t.list # "Sender" THEN lists["Sender"]
           ELSE IF t.op = "add" THEN Append(lists["Sender"], [id |-> t.id, name |-> t.name])
           ELSE RemoveFirstMatch(lists["Sender"], LAMBDA row : row.id = t.id)
BY DEF Shown, ListsOfRows, Lists

LEMMA FinalTyped ==
  ASSUME Types
  PROVE  FinalRows \in ListsOfRows /\ FinalRows["Sender"] \in Seq(Row)
<1>1. \E g \in [0..Len(pending) -> ListsOfRows] : RowsAfter(rows, pending) = g[Len(pending)]
  BY UpdatesRunExists DEF Types
<1>2. Len(pending) \in 0..Len(pending)
  BY DEF Types
<1>. QED  BY <1>1, <1>2 DEF FinalRows, ListsOfRows, Lists

LEMMA Queued ==
  ASSUME Types, NEW t \in Tasks, PushTask(t), rows' = rows
  PROVE  FinalRows' = Shown(FinalRows, t)
BY RowsAfterAppend DEF Types, PushTask, FinalRows

LEMMA UnregisterMirrors ==
  ASSUME Types, MirrorInv, NEW c, NEW role \in Lists, NEW id \in Nat, Unregister(c, role, id)
  PROVE  MirrorInv'
<1>. DEFINE t == [op |-> "remove", list |-> role, id |-> id]
<1>1. t \in Tasks /\ t.list = role /\ t.op = "remove" /\ t.id = id
  BY DEF Tasks
<1>2. PushTask(t) /\ rows' = rows
  BY DEF Unregister, RemoveClient
<1>. HIDE DEF t
<1>3. FinalRows' = Shown(FinalRows, t)
  BY <1>1, <1>2, Queued
<1>4. CASE role = "Sender"
  <2>1. senders' = Erase(senders, id)
    BY <1>4 DEF Unregister
  <2>2. FinalRows'["Sender"] = RemoveFirstMatch(FinalRows["Sender"], LAMBDA row : row.id = t.id)
    BY <1>1, <1>3, <1>4, FinalTyped, SenderRows
  <2>3. Mirrors(RemoveFirstMatch(FinalRows["Sender"], LAMBDA row : row.id = t.id),
                Erase(senders, t.id))
    BY FinalTyped, RemoveMirrors DEF MirrorInv
  <2>. QED  BY <1>1, <2>1, <2>2, <2>3 DEF MirrorInv
<1>5. CASE role # "Sender"
  <2>1. senders' = senders
    BY <1>5 DEF Unregister
  <2>2. FinalRows'["Sender"] = FinalRows["Sender"]
    BY <1>1, <1>3, <1>5, FinalTyped, SenderRows
  <2>. QED  BY <2>1, <2>2 DEF MirrorInv
<1>. QED  BY <1>4, <1>5

LEMMA NextMirrors ==
  ASSUME Types, IdsInv, MirrorInv, [Next]_vars
  PROVE  MirrorInv'
<1>1. ASSUME UNCHANGED <<pending, rows, senders>>  PROVE MirrorInv'
  BY <1>1 DEF MirrorInv, FinalRows
<1>2. ASSUME NEW c \in Conns, OnAccept(c)  PROVE MirrorInv'
  BY <1>1, <1>2 DEF OnAccept, uiVars
<1>3. ASSUME NEW c \in Conns, NEW role \in Roles, AddMessage(c, role)  PROVE MirrorInv'
  <2>1. rows' = rows /\ current_sender_id' = current_sender_id + 1
    BY <1>3 DEF AddMessage
  <2>2. CASE role = "Other"
    BY <1>1, <1>3, <2>1, <2>2 DEF AddMessage
  <2>3. CASE role = "Sender"
    <3>. DEFINE t == [op |-> "add", list |-> "Sender", id |-> current_sender_id', name |-> c]
    <3>1. PushTask(t) /\ senders' = Insert(senders, current_sender_id', c)
      BY <1>3, <2>3 DEF AddMessage, AddClient
    <3>2. current_sender_id' \in Nat /\ current_sender_id' \notin DOMAIN senders
      BY <2>1 DEF IdsInv, ServerTypes, IdsBounded
    <3>3. /\ t \in Tasks /\ t.list = "Sender" /\ t.op = "add"
          /\ t.id = current_sender_id' /\ t.name = c
      BY <3>2 DEF Tasks, Lists
    <3>. HIDE DEF t
    <3>4. FinalRows' = Shown(FinalRows, t)
      BY <2>1, <3>1, <3>3, Queued
    <3>5. FinalRows'["Sender"] = Append(FinalRows["Sender"], [id |-> current_sender_id', name |-> c])
      BY <3>3, <3>4, FinalTyped, SenderRows
    <3>. QED  BY <3>1, <3>2, <3>5, FinalTyped, AppendMirrors DEF MirrorInv
  <2>4. CASE role = "Receiver"
    <3>. DEFINE t == [op |-> "add", list |-> "Receiver", id |-> current_receiver_id, name |-> c]
    <3>1. PushTask(t) /\ senders' = senders
      BY <1>3, <2>4 DEF AddMessage, AddClient
    <3>2. t \in Tasks /\ t.list = "Receiver"
      BY DEF Types, Tasks, Lists
    <3>. HIDE DEF t
    <3>3. FinalRows' = Shown(FinalRows, t)
      BY <2>1, <3>1, <3>2, Queued
    <3>4. FinalRows'["Sender"] = FinalRows["Sender"]
      BY <3>2, <3>3, FinalTyped, SenderRows
    <3>. QED  BY <3>1, <3>4 DEF MirrorInv
  <2>. QED  BY <2>2, <2>3, <2>4 DEF Roles, Lists
<1>4. ASSUME NEW c \in Conns, CloseMessage(c)  PROVE MirrorInv'
  <2>1. PICK reg \in told[c] : Unregister(c, reg.role, reg.id)
    BY <1>4 DEF CloseMessage
  <2>2. reg.role \in Lists /\ reg.id \in Nat
    BY DEF IdsInv, ServerTypes, Registrations
  <2>. QED  BY <2>1, <2>2, UnregisterMirrors
<1>5. ASSUME NEW c \in Conns, OnClose(c)  PROVE MirrorInv'
  <2>1. IdsOf(c, senders) \subseteq Nat /\ IdsOf(c, receivers) \subseteq Nat
    BY DEF IdsOf, Types, IdsInv, ServerTypes
  <2>2. CASE \E role \in Lists, id \in Nat : Unregister(c, role, id)
    BY <2>2, UnregisterMirrors
  <2>3. CASE UNCHANGED <<uiVars, senders, receivers, handler>>
    BY <1>1, <2>3 DEF uiVars
  <2>. QED  BY <1>5, <2>1, <2>2, <2>3 DEF OnClose, Lists
<1>6. CASE EmitAndReply
  BY <1>1, <1>6 DEF EmitAndReply
<1>7. CASE GtkStep
  <2>1. senders' = senders
    BY <1>7 DEF GtkStep, serverVars
  <2>2. CASE RunUiTask
    <3>1. pending # <<>> /\ pending' = Tail(pending) /\ rows' = Shown(rows, Head(pending))
      BY <2>2 DEF RunUiTask
    <3>2. FinalRows' = FinalRows
      BY <3>1, RowsAfterTail DEF Types, FinalRows
    <3>. QED  BY <2>1, <3>2 DEF MirrorInv
  <2>3. CASE Dispatch \/ DrainDone
    BY <1>1, <2>1, <2>3 DEF Dispatch, DrainDone
  <2>. QED  BY <1>7, <2>2, <2>3 DEF GtkStep, UiStep
<1>8. CASE UNCHANGED vars
  BY <1>1, <1>8 DEF vars, uiVars, serverVars
<1>. QED  BY <1>2, <1>3, <1>4, <1>5, <1>6, <1>7, <1>8 DEF Next, SocketStep

\* Whatever the GTK thread has got to, running the queued updates makes the
\* sender list senders_: no update is lost, doubled or applied out of order
\* (ui.cc: PushTask, PopTask; server.cc: AddMessageHandler, CloseMessageHandler).
THEOREM SenderListFollows == Spec => []SenderListMatches
<1>1. Init => MirrorInv
  <2>. SUFFICES ASSUME Init  PROVE MirrorInv
    OBVIOUS
  <2>1. rows \in ListsOfRows /\ pending = <<>> /\ rows["Sender"] = <<>> /\ DOMAIN senders = {}
    BY DEF Init, UiInit, ListsOfRows, Lists
  <2>2. FinalRows["Sender"] = <<>>
    BY <2>1, RowsAfterNone DEF FinalRows
  <2>3. Len(<<>>) = 0
    OBVIOUS
  <2>. QED  BY <2>1, <2>2, <2>3 DEF MirrorInv, Mirrors
<1>2. Types /\ MirrorInv => SenderListMatches
  <2>. SUFFICES ASSUME Types, MirrorInv  PROVE SenderListMatches
    OBVIOUS
  <2>1. PICK final : final = FinalRows["Sender"]
    OBVIOUS
  <2>2. final \in Seq(Row) /\ Len(final) \in Nat /\ Mirrors(final, senders)
    BY <2>1, FinalTyped DEF MirrorInv
  <2>3. Len(final) = Cardinality(DOMAIN senders)
    <3>1. PICK f : f = [i \in 1..Len(final) |-> final[i].id]
      OBVIOUS
    <3>2. f \in [1..Len(final) -> DOMAIN senders]
      BY <2>2, <3>1 DEF Mirrors
    <3>3. \A i, j \in 1..Len(final) : f[i] = f[j] => i = j
      BY <2>2, <3>1 DEF Mirrors
    <3>4. \A id \in DOMAIN senders : \E i \in 1..Len(final) : f[i] = id
      BY <2>2, <3>1 DEF Mirrors
    <3>5. f \in Bijection(1..Len(final), DOMAIN senders)
      BY <3>2, <3>3, <3>4 DEF Bijection, Injection, Surjection, IsInjective
    <3>6. ExistsBijection(1..Len(final), DOMAIN senders)
      BY <3>5 DEF ExistsBijection
    <3>. QED  BY <2>2, <3>6, FS_CountingElements
  <2>4. {<<r.id, r.name>> : r \in Range(final)} = {<<id, senders[id]>> : id \in DOMAIN senders}
    <3>1. Range(final) = {final[i] : i \in 1..Len(final)}
      BY <2>2 DEF Range
    <3>2. ASSUME NEW r \in Range(final)
          PROVE  <<r.id, r.name>> \in {<<id, senders[id]>> : id \in DOMAIN senders}
      BY <2>2, <3>1 DEF Mirrors
    <3>3. ASSUME NEW id \in DOMAIN senders
          PROVE  <<id, senders[id]>> \in {<<r.id, r.name>> : r \in Range(final)}
      <4>1. PICK i \in 1..Len(final) : final[i].id = id
        BY <2>2 DEF Mirrors
      <4>2. final[i] \in Range(final) /\ senders[id] = final[i].name
        BY <2>2, <3>1, <4>1 DEF Mirrors
      <4>. QED  BY <4>1, <4>2
    <3>. QED  BY <3>2, <3>3
  <2>. QED  BY <2>1, <2>3, <2>4 DEF SenderListMatches
<1>. QED  BY <1>1, <1>2, NextMirrors, TypesInvariance, IdsInvariance, PTL DEF Spec
=============================================================================
