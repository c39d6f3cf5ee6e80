--------------------------- MODULE SessionStream ----------------------------
(***************************************************************************)
(* What the callbacks of avrtc::SessionSocket promise an application about *)
(* one connection, whatever the event loop, the descriptors and the other  *)
(* connections do: OnAccept comes first and once; OnReceive delivers what  *)
(* the peer sent, in pieces of any size; OnClose comes once, after the     *)
(* peer has closed and everything it sent has been delivered, and nothing  *)
(* comes after it.  OnReceive may also be called with length -1: that too  *)
(* is the last callback of its connection, and comes only after the peer   *)
(* has ended and its data was delivered, or after the application began to *)
(* close the server.  OnAccept may be called for what is no connection.    *)
(***************************************************************************)
EXTENDS Naturals

CONSTANT Conns

VARIABLES
  sent,     \* units of data each peer has sent
  fin,      \* whether each peer has ended its side
  got,      \* units delivered to OnReceive
  session,  \* "none", "open" after OnAccept, "closed" after OnClose, "error" after
            \* an OnReceive without data
  phantom,  \* whether OnAccept was called for what is no connection
  closing   \* whether the application has called Close() on the server

vars == <<sent, fin, got, session, phantom, closing>>

Init ==
  /\ sent = [c \in Conns |-> 0]
  /\ fin = [c \in Conns |-> FALSE]
  /\ got = [c \in Conns |-> 0]
  /\ session = [c \in Conns |-> "none"]
  /\ phantom = FALSE
  /\ closing = FALSE

PeerSends(c) ==
  /\ ~fin[c]
  /\ sent' = [sent EXCEPT ![c] = @ + 1]
  /\ UNCHANGED <<fin, got, session, phantom, closing>>

PeerCloses(c) ==
  /\ ~fin[c]
  /\ fin' = [fin EXCEPT ![c] = TRUE]
  /\ UNCHANGED <<sent, got, session, phantom, closing>>

OnAccept(c) ==
  /\ session[c] = "none"
  /\ session' = [session EXCEPT ![c] = "open"]
  /\ UNCHANGED <<sent, fin, got, phantom, closing>>

OnAcceptNothing ==
  /\ phantom' = TRUE
  /\ UNCHANGED <<sent, fin, got, session, closing>>

OnReceive(c) ==
  /\ session[c] = "open"
  /\ \E n \in 1..(sent[c] - got[c]) : got' = [got EXCEPT ![c] = @ + n]
  /\ UNCHANGED <<sent, fin, session, phantom, closing>>

OnReceiveNothing(c) ==
  /\ session[c] = "open"
  /\ (fin[c] /\ got[c] = sent[c]) \/ closing
  /\ session' = [session EXCEPT ![c] = "error"]
  /\ UNCHANGED <<sent, fin, got, phantom, closing>>

OnClose(c) ==
  /\ session[c] = "open"
  /\ fin[c]
  /\ got[c] = sent[c]
  /\ session' = [session EXCEPT ![c] = "closed"]
  /\ UNCHANGED <<sent, fin, got, phantom, closing>>

Close ==
  /\ closing' = TRUE
  /\ UNCHANGED <<sent, fin, got, session, phantom>>

Next ==
  \/ OnAcceptNothing
  \/ Close
  \/ \E c \in Conns :
       \/ PeerSends(c) \/ PeerCloses(c)
       \/ OnAccept(c) \/ OnReceive(c) \/ OnReceiveNothing(c) \/ OnClose(c)

Spec == Init /\ [][Next]_vars
=============================================================================
