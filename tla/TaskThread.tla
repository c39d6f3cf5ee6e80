----------------------------- MODULE TaskThread -----------------------------
(***************************************************************************)
(* avrtc::Thread (base/thread.h, base/thread.cc): a worker thread that     *)
(* runs the std::functions other threads post to it.  The queue tasks_ is  *)
(* guarded by mutex_, the worker sleeps on cond_var_, and running_ is a    *)
(* plain bool that Stop() clears without the lock and without a notify.    *)
(*                                                                         *)
(* Grain of atomicity: one action per lock-protected section that cannot   *)
(* be split by another thread, so AddTask is two steps (lock and push;     *)
(* notify and unlock) and one turn of Run() is up to five (read running_;  *)
(* lock; evaluate the wait predicate and sleep or dequeue; run).           *)
(***************************************************************************)
EXTENDS Naturals, Sequences

CONSTANTS
  Callers,       \* the threads that use the Thread object
  Tasks,         \* the std::functions that are posted
  StopTasks,     \* tasks that end with CurrentThread()->Stop() (server.cc:184)
  EndlessTasks,  \* tasks that never return (ClientSocket::Connect's loop)
  EmptyTasks,    \* empty std::functions, which Run() dequeues and skips
  Worker, Free,  \* owners of mutex_ that are not callers
  MaxTasks       \* bound: tasks posted in one behaviour

ASSUME TaskKinds ==
  /\ StopTasks \subseteq Tasks
  /\ EndlessTasks \subseteq Tasks
  /\ EmptyTasks \subseteq Tasks

ASSUME OwnersDistinct ==
  /\ Worker \notin Callers
  /\ Free \notin Callers
  /\ Worker # Free

ASSUME MaxTasksNat == MaxTasks \in Nat

VARIABLES
  tasks,        \* tasks_, first element at the head
  running,      \* running_
  mutex,        \* owner of mutex_
  pc,           \* where the worker is in PreRun()/Run()
  registered,   \* ThreadManager knows the worker (Add and SetCurrentThread)
  caller,       \* where each caller is in AddTask() or Join()
  added,        \* history: every task pushed
  taken,        \* history: every task dequeued
  takenAtStop   \* history: Len(taken) when running_ was first cleared

vars == <<tasks, running, mutex, pc, registered, caller,
          added, taken, takenAtStop>>

Init ==
  /\ tasks = <<>>
  /\ running = TRUE
  /\ mutex = Free
  /\ pc = "create"
  /\ registered = FALSE
  /\ caller = [c \in Callers |-> "idle"]
  /\ added = <<>>
  /\ taken = <<>>
  /\ takenAtStop = 0

CurrentTask == taken[Len(taken)]

\* running_ = false, remembering how much had been taken the first time.
ClearRunning ==
  /\ running' = FALSE
  /\ takenAtStop' = IF running THEN Len(taken) ELSE takenAtStop

-----------------------------------------------------------------------------
(* The worker: PreRun() and Run(). *)

\* Mutant: the loop starts without SetCurrentThread().
Register_Missing ==
  /\ pc = "create"
  /\ pc' = "check"
  /\ UNCHANGED <<tasks, running, mutex, registered, caller,
                 added, taken, takenAtStop>>

\* ThreadManager::Add(this) and SetCurrentThread(this), before the loop.
Register ==
  /\ pc = "create"
  /\ registered' = TRUE
  /\ pc' = "check"
  /\ UNCHANGED <<tasks, running, mutex, caller, added, taken, takenAtStop>>

\* Mutant: the loop never looks at the flag.
CheckRunning_Forever ==
  /\ pc = "check"
  /\ pc' = "lock"
  /\ UNCHANGED <<tasks, running, mutex, registered, caller,
                 added, taken, takenAtStop>>

\* while (running_)
CheckRunning ==
  /\ pc = "check"
  /\ pc' = IF running THEN "lock" ELSE "exit"
  /\ UNCHANGED <<tasks, running, mutex, registered, caller,
                 added, taken, takenAtStop>>

\* unique_lock, or the re-acquisition of mutex_ when cond_var_.wait resumes.
Lock ==
  /\ pc = "lock"
  /\ mutex = Free
  /\ mutex' = Worker
  /\ pc' = "test"
  /\ UNCHANGED <<tasks, running, registered, caller,
                 added, taken, takenAtStop>>

\* The wait predicate is false: release mutex_ and sleep, in one step.
Sleep ==
  /\ pc = "test"
  /\ tasks = <<>>
  /\ mutex' = Free
  /\ pc' = "wait"
  /\ UNCHANGED <<tasks, running, registered, caller,
                 added, taken, takenAtStop>>

\* Mutant: the front is read but not erased.
Take_NoErase ==
  /\ pc = "test"
  /\ tasks # <<>>
  /\ taken' = Append(taken, Head(tasks))
  /\ mutex' = Free
  /\ pc' = IF Head(tasks) \in EmptyTasks THEN "check" ELSE "run"
  /\ UNCHANGED <<tasks, running, registered, caller, added, takenAtStop>>

\* Mutant: the most recent task is dequeued instead of the oldest.
Take_Last ==
  /\ pc = "test"
  /\ tasks # <<>>
  /\ tasks' = SubSeq(tasks, 1, Len(tasks) - 1)
  /\ taken' = Append(taken, tasks[Len(tasks)])
  /\ mutex' = Free
  /\ pc' = IF tasks[Len(tasks)] \in EmptyTasks THEN "check" ELSE "run"
  /\ UNCHANGED <<running, registered, caller, added, takenAtStop>>

\* The wait predicate is true: dequeue the front and leave the locked block.
Take ==
  /\ pc = "test"
  /\ tasks # <<>>
  /\ tasks' = Tail(tasks)
  /\ taken' = Append(taken, Head(tasks))
  /\ mutex' = Free
  /\ pc' = IF Head(tasks) \in EmptyTasks THEN "check" ELSE "run"
  /\ UNCHANGED <<running, registered, caller, added, takenAtStop>>

\* The platform may wake a waiter at any time; the predicate is tested again.
SpuriousWake ==
  /\ pc = "wait"
  /\ pc' = "lock"
  /\ UNCHANGED <<tasks, running, mutex, registered, caller,
                 added, taken, takenAtStop>>

\* task() returns; a stop task has cleared running_ as its last statement.
TaskReturns ==
  /\ pc = "run"
  /\ CurrentTask \notin EndlessTasks
  /\ pc' = "check"
  /\ IF CurrentTask \in StopTasks
       THEN ClearRunning
       ELSE UNCHANGED <<running, takenAtStop>>
  /\ UNCHANGED <<tasks, mutex, registered, caller, added, taken>>

-----------------------------------------------------------------------------
(* The callers: AddTask(), Stop(), Join(). *)

\* Mutant: AddTask() pushes without taking mutex_.
AddTaskPush_Unlocked(c) ==
  /\ caller[c] = "idle"
  /\ Len(taken) + Len(tasks) < MaxTasks
  /\ \E t \in Tasks :
       /\ tasks' = Append(tasks, t)
       /\ added' = Append(added, t)
  /\ caller' = [caller EXCEPT ![c] = "pushed"]
  /\ UNCHANGED <<mutex, running, pc, registered, taken, takenAtStop>>

AddTaskPush(c) ==
  /\ caller[c] = "idle"
  /\ mutex = Free
  /\ Len(taken) + Len(tasks) < MaxTasks
  /\ \E t \in Tasks :
       /\ tasks' = Append(tasks, t)
       /\ added' = Append(added, t)
  /\ mutex' = c
  /\ caller' = [caller EXCEPT ![c] = "pushed"]
  /\ UNCHANGED <<running, pc, registered, taken, takenAtStop>>

\* Mutant: AddTask() returns without notify_one().
AddTaskNotify_Silent(c) ==
  /\ caller[c] = "pushed"
  /\ mutex' = Free
  /\ caller' = [caller EXCEPT ![c] = "idle"]
  /\ UNCHANGED <<tasks, running, pc, registered, added, taken, takenAtStop>>

\* cond_var_.notify_one() and the end of the lock_guard's scope.
AddTaskNotify(c) ==
  /\ caller[c] = "pushed"
  /\ pc' = IF pc = "wait" THEN "lock" ELSE pc
  /\ mutex' = Free
  /\ caller' = [caller EXCEPT ![c] = "idle"]
  /\ UNCHANGED <<tasks, running, registered, added, taken, takenAtStop>>

Stop(c) ==
  /\ caller[c] = "idle"
  /\ ClearRunning
  /\ UNCHANGED <<tasks, mutex, pc, registered, caller, added, taken>>

\* pthread_join; joining one thread twice is undefined, so one caller joins.
Join(c) ==
  /\ caller[c] = "idle"
  /\ \A d \in Callers : caller[d] \notin {"joining", "joined"}
  /\ caller' = [caller EXCEPT ![c] = "joining"]
  /\ UNCHANGED <<tasks, running, mutex, pc, registered,
                 added, taken, takenAtStop>>

JoinReturns(c) ==
  /\ caller[c] = "joining"
  /\ pc = "exit"
  /\ caller' = [caller EXCEPT ![c] = "joined"]
  /\ UNCHANGED <<tasks, running, mutex, pc, registered,
                 added, taken, takenAtStop>>

-----------------------------------------------------------------------------
WorkerStep ==
  \/ Register \/ CheckRunning \/ Lock \/ Sleep \/ Take \/ TaskReturns

CallerStep(c) ==
  \/ AddTaskPush(c) \/ AddTaskNotify(c) \/ Stop(c) \/ Join(c) \/ JoinReturns(c)

Next == WorkerStep \/ SpuriousWake \/ \E c \in Callers : CallerStep(c)

Spec == Init /\ [][Next]_vars

\* The scheduler runs the worker whenever it can run and lets a caller that
\* holds mutex_, or waits in a join that can return, finish.  Nobody is obliged
\* to post a task, to stop the thread, or to be woken without a notification.
Fairness ==
  /\ WF_vars(WorkerStep)
  /\ \A c \in Callers : WF_vars(AddTaskNotify(c)) /\ WF_vars(JoinReturns(c))

FairSpec == Spec /\ Fairness

-----------------------------------------------------------------------------
(* Properties. *)

WorkerPC == {"create", "check", "lock", "test", "wait", "run", "exit"}
CallerPC == {"idle", "pushed", "joining", "joined"}

\* Every variable has its type, and the queue and what was dequeued from it
\* together never outgrow what the callers may post.
TypeOK ==
  /\ tasks \in Seq(Tasks)
  /\ running \in BOOLEAN
  /\ mutex \in Callers \cup {Worker, Free}
  /\ pc \in WorkerPC
  /\ registered \in BOOLEAN
  /\ caller \in [Callers -> CallerPC]
  /\ added \in Seq(Tasks)
  /\ taken \in Seq(Tasks)
  /\ takenAtStop \in Nat
  /\ Len(taken) + Len(tasks) <= MaxTasks

\* mutex_ is held exactly by the thread that is inside its locked section, so
\* no two threads are ever inside tasks_ together.
LockedSections ==
  /\ mutex = Worker <=> pc = "test"
  /\ \A c \in Callers : mutex = c <=> caller[c] = "pushed"

\* Run() takes the tasks in the order AddTask() pushed them, each exactly once:
\* what was dequeued followed by what is queued is what was added.
FifoExactlyOnce == added = taken \o tasks

\* No wake-up is lost: the worker sleeps on cond_var_ with a task in the queue
\* only while the caller that pushed it still holds mutex_ and will notify.
NoLostWakeup ==
  pc = "wait" /\ tasks # <<>> => \E c \in Callers : caller[c] = "pushed"

\* After running_ is cleared the worker dequeues at most one more task, the
\* one it was already committed to when it last read the flag.
AtMostOneAfterStop == ~running => Len(taken) <= takenAtStop + 1

\* CurrentThread() called by a running task never fails its CHECK: the worker
\* is registered before its first task.
CurrentThreadSet == pc = "run" => registered

\* The executor above, hidden behind the lock, the flag and the history.
Executor == INSTANCE TaskExecutor WITH
  submitted <- added,
  begun     <- taken,
  gate      <- IF running THEN "open"
               ELSE IF pc \in {"lock", "test", "wait"} THEN "last"
               ELSE "closed"

\* Thread implements the executor: order, at-most-once and the stop promise.
ImplementsExecutor == Executor!Spec

Stuck == pc = "run" /\ CurrentTask \in EndlessTasks

\* Every posted task is eventually dequeued, unless the thread is stopped or a
\* task that never returns occupies the worker.
EveryTaskTaken ==
  \A i \in 1..MaxTasks :
    Len(added) >= i ~> (Len(taken) >= i \/ ~running \/ Stuck)

\* A stopped worker that has work queued leaves Run().  (One that sleeps on an
\* empty queue does not: Stop() notifies nobody.)
StopWithWorkExits ==
  (~running /\ tasks # <<>>) ~> (pc = "exit" \/ Stuck)
=============================================================================
