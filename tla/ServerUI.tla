------------------------------ MODULE ServerUI ------------------------------
(***************************************************************************)
(* ServerUI (example/ui.h, example/ui.cc): the server's window.  The       *)
(* socket thread queues list updates with PushTask() and announces them    *)
(* with Emit(); the GTK thread, woken once per Emit() by the               *)
(* Glib::Dispatcher, runs queued updates until PopTask() finds none.       *)
(*                                                                         *)
(* pending_ui_tasks_ is guarded by its mutex in both directions, so        *)
(* PushTask and PopTask are atomic; the two list stores are touched by the *)
(* GTK thread alone, so popping a task and running it is one step.         *)
(***************************************************************************)
EXTENDS Naturals, Sequences, SequencesExt

VARIABLES
  pending,  \* pending_ui_tasks_
  wakeups,  \* emits the dispatcher has not delivered yet
  ui,       \* "idle", or "draining" inside the dispatcher's slot
  rows      \* the sender and the receiver list, top row first

uiVars == <<pending, wakeups, ui, rows>>

Lists == {"Sender", "Receiver"}

UiInit ==
  /\ pending = <<>>
  /\ wakeups = 0
  /\ ui = "idle"
  /\ rows = [l \in Lists |-> <<>>]

-----------------------------------------------------------------------------
(* Called by the socket thread, inside its own steps. *)

PushTask(task) == pending' = Append(pending, task)

AddClient(list, name, id) ==
  PushTask([op |-> "add", list |-> list, id |-> id, name |-> name])

RemoveClient(list, id) ==
  PushTask([op |-> "remove", list |-> list, id |-> id])

Emit == wakeups' = wakeups + 1

-----------------------------------------------------------------------------
(* The GTK thread. *)

\* What one queued task does to the list stores: AddClientSection_ appends a
\* row, RemoveClientSection_ erases the first row with that id, if any.
Shown(lists, task) ==
  [lists EXCEPT ![task.list] =
     IF task.op = "add"
       THEN Append(@, [id |-> task.id, name |-> task.name])
       ELSE RemoveFirstMatch(@, LAMBDA row : row.id = task.id)]

\* The dispatcher delivers one emit: its slot starts.
Dispatch ==
  /\ ui = "idle"
  /\ wakeups > 0
  /\ wakeups' = wakeups - 1
  /\ ui' = "draining"
  /\ UNCHANGED <<pending, rows>>

RunUiTask ==
  /\ ui = "draining"
  /\ pending # <<>>
  /\ pending' = Tail(pending)
  /\ rows' = Shown(rows, Head(pending))
  /\ UNCHANGED <<wakeups, ui>>

\* PopTask() returns the empty function and the slot's loop ends.
DrainDone ==
  /\ ui = "draining"
  /\ pending = <<>>
  /\ ui' = "idle"
  /\ UNCHANGED <<pending, wakeups, rows>>

UiStep == Dispatch \/ RunUiTask \/ DrainDone

\* The lists as they will be once every queued task has run.
RowsAfter(lists, tasks) ==
  LET after[i \in 0..Len(tasks)] ==
        IF i = 0 THEN lists ELSE Shown(after[i-1], tasks[i])
  IN  after[Len(tasks)]

FinalRows == RowsAfter(rows, pending)

UiTypeOK ==
  /\ \A i \in DOMAIN pending :
       /\ pending[i].op \in {"add", "remove"}
       /\ pending[i].list \in Lists
       /\ pending[i].id \in Nat
  /\ wakeups \in Nat
  /\ ui \in {"idle", "draining"}
  /\ DOMAIN rows = Lists
  /\ \A l \in Lists : \A i \in DOMAIN rows[l] : rows[l][i].id \in Nat
=============================================================================
