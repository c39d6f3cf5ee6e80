---------------------------- MODULE TaskExecutor ----------------------------
(***************************************************************************)
(* What an avrtc::Thread (base/thread.h) promises the code that posts      *)
(* tasks to it: tasks are taken in the order they were posted, each at     *)
(* most once, and once Stop() has been called at most one more task is     *)
(* taken.  Nothing is said about locks, wake-ups or the worker's loop.     *)
(***************************************************************************)
EXTENDS Naturals, Sequences

CONSTANT Tasks

VARIABLES
  submitted,  \* every task posted so far, in posting order
  begun,      \* the tasks the executor has taken, in order
  gate        \* "open": not stopped; "last": stopped, one task may still be
              \* taken; "closed": no task is taken any more

vars == <<submitted, begun, gate>>

Init ==
  /\ submitted = <<>>
  /\ begun = <<>>
  /\ gate = "open"

Submit ==
  /\ \E t \in Tasks : submitted' = Append(submitted, t)
  /\ UNCHANGED <<begun, gate>>

Begin ==
  /\ gate # "closed"
  /\ Len(begun) < Len(submitted)
  /\ begun' = Append(begun, submitted[Len(begun) + 1])
  /\ gate' = IF gate = "open" THEN "open" ELSE "closed"
  /\ UNCHANGED submitted

\* Stop() reaches the worker either before or after it has looked at the flag.
Shut ==
  /\ gate = "open"
  /\ gate' \in {"last", "closed"}
  /\ UNCHANGED <<submitted, begun>>

Next == Submit \/ Begin \/ Shut

Spec == Init /\ [][Next]_vars
=============================================================================
