-------------------------- MODULE TaskThreadProofs --------------------------
(***************************************************************************)
(* Proofs, for every set of callers, every set of tasks and every bound,   *)
(* of the safety properties of TaskThread and of its refinement of         *)
(* TaskExecutor.                                                           *)
(***************************************************************************)
EXTENDS TaskThread, SequenceTheorems, TLAPS

\* The worker is past PreRun() exactly when the thread manager knows it.
RegisteredFirst == pc # "create" => registered

\* What AtMostOneAfterStop needs to be inductive: once the one task that was
\* already committed to has been taken, the worker is beyond the locked block
\* of that turn and reads running_ before it can enter another.
StopBudget ==
  /\ takenAtStop <= Len(taken)
  /\ AtMostOneAfterStop
  /\ ~running /\ Len(taken) = takenAtStop + 1 => pc \in {"run", "check", "exit"}

\* A task is being run only after it was dequeued.
RunningTaskTaken == pc = "run" => taken # <<>>

-----------------------------------------------------------------------------
(* Stop() leaves a Boolean flag and a natural number of dequeued tasks.    *)
LEMMA ClearRunningType ==
  TypeOK /\ ClearRunning => running' \in BOOLEAN /\ takenAtStop' \in Nat
<1> SUFFICES ASSUME TypeOK, ClearRunning
             PROVE  running' \in BOOLEAN /\ takenAtStop' \in Nat
  OBVIOUS
<1>1. running' \in BOOLEAN
  BY DEF ClearRunning
<1>2. takenAtStop' = Len(taken) \/ takenAtStop' = takenAtStop
  BY Zenon DEF ClearRunning
<1>3. Len(taken) \in Nat /\ takenAtStop \in Nat
  BY DEF TypeOK
<1> QED
  BY <1>1, <1>2, <1>3

(* Every variable has its type, for any number of callers and tasks: the   *)
(* queue never outgrows what AddTask() pushed, and running a task always   *)
(* finds the task that Run() dequeued.                                     *)
THEOREM TypeCorrect == Spec => [](TypeOK /\ RunningTaskTaken)
<1>1. Init => TypeOK /\ RunningTaskTaken
  <2> SUFFICES ASSUME Init PROVE TypeOK /\ RunningTaskTaken
    OBVIOUS
  <2>1. tasks \in Seq(Tasks) /\ added \in Seq(Tasks) /\ taken \in Seq(Tasks)
    BY DEF Init
  <2>2. running \in BOOLEAN /\ registered \in BOOLEAN
    BY DEF Init
  <2>3. mutex \in Callers \cup {Worker, Free} /\ pc \in WorkerPC
    BY DEF Init, WorkerPC
  <2>4. caller \in [Callers -> CallerPC]
    BY DEF Init, CallerPC
  <2>5. takenAtStop \in Nat /\ Len(taken) + Len(tasks) <= MaxTasks
    BY MaxTasksNat DEF Init
  <2>6. RunningTaskTaken
    BY DEF Init, RunningTaskTaken
  <2> QED
    BY <2>1, <2>2, <2>3, <2>4, <2>5, <2>6 DEF TypeOK
<1>2. TypeOK /\ RunningTaskTaken /\ [Next]_vars => (TypeOK /\ RunningTaskTaken)'
  <2> SUFFICES ASSUME TypeOK, RunningTaskTaken, [Next]_vars
               PROVE  TypeOK' /\ RunningTaskTaken'
    OBVIOUS
  <2> USE MaxTasksNat, OwnersDistinct, TaskKinds
      DEF TypeOK, RunningTaskTaken, WorkerPC, CallerPC
  <2>1. CASE Register
    BY <2>1 DEF Register
  <2>2. CASE CheckRunning
    BY <2>2 DEF CheckRunning
  <2>3. CASE Lock
    BY <2>3 DEF Lock
  <2>4. CASE Sleep
    BY <2>4 DEF Sleep
  <2>5. CASE Take
    BY <2>5 DEF Take
  <2>6. CASE TaskReturns
    <3>1. running' \in BOOLEAN /\ takenAtStop' \in Nat
      BY <2>6, ClearRunningType DEF TaskReturns
    <3> QED
      BY <2>6, <3>1 DEF TaskReturns
  <2>7. CASE SpuriousWake
    BY <2>7 DEF SpuriousWake
  <2>8. ASSUME NEW c \in Callers, AddTaskPush(c)
        PROVE  TypeOK' /\ RunningTaskTaken'
    BY <2>8 DEF AddTaskPush
  <2>9. ASSUME NEW c \in Callers, AddTaskNotify(c)
        PROVE  TypeOK' /\ RunningTaskTaken'
    BY <2>9 DEF AddTaskNotify
  <2>10. ASSUME NEW c \in Callers, Stop(c)
         PROVE  TypeOK' /\ RunningTaskTaken'
    <3>1. running' \in BOOLEAN /\ takenAtStop' \in Nat
      BY <2>10, ClearRunningType DEF Stop
    <3> QED
      BY <2>10, <3>1 DEF Stop
  <2>11. ASSUME NEW c \in Callers, Join(c) \/ JoinReturns(c)
         PROVE  TypeOK' /\ RunningTaskTaken'
    BY <2>11 DEF Join, JoinReturns
  <2>12. CASE UNCHANGED vars
    BY <2>12 DEF vars
  <2> QED
    BY <2>1, <2>2, <2>3, <2>4, <2>5, <2>6, <2>7, <2>8, <2>9, <2>10, <2>11, <2>12
       DEF Next, WorkerStep, CallerStep
<1> QED
  BY <1>1, <1>2, PTL DEF Spec

(* mutex_ is owned by exactly the thread that is inside its locked section. *)
THEOREM MutualExclusion == Spec => []LockedSections
<1>1. Init => LockedSections
  BY OwnersDistinct DEF Init, LockedSections
<1>2. TypeOK /\ LockedSections /\ [Next]_vars => LockedSections'
  <2> SUFFICES ASSUME TypeOK, LockedSections, [Next]_vars
               PROVE  LockedSections'
    OBVIOUS
  <2> USE OwnersDistinct DEF TypeOK, LockedSections, CallerPC
  <2>1. CASE Register \/ CheckRunning \/ Lock \/ Sleep \/ Take \/ SpuriousWake
    BY <2>1 DEF Register, CheckRunning, Lock, Sleep, Take, SpuriousWake
  <2>2. CASE TaskReturns
    BY <2>2 DEF TaskReturns
  <2>3. ASSUME NEW c \in Callers, AddTaskPush(c) PROVE LockedSections'
    BY <2>3 DEF AddTaskPush
  <2>4. ASSUME NEW c \in Callers, AddTaskNotify(c) PROVE LockedSections'
    BY <2>4 DEF AddTaskNotify
  <2>5. ASSUME NEW c \in Callers, Stop(c) \/ Join(c) \/ JoinReturns(c)
        PROVE  LockedSections'
    BY <2>5 DEF Stop, Join, JoinReturns
  <2>6. CASE UNCHANGED vars
    BY <2>6 DEF vars
  <2> QED
    BY <2>1, <2>2, <2>3, <2>4, <2>5, <2>6 DEF Next, WorkerStep, CallerStep
<1> QED
  BY <1>1, <1>2, TypeCorrect, PTL DEF Spec

(* A task in the queue of a sleeping worker is always about to be announced *)
(* by the caller that pushed it: AddTask() loses no wake-up.                *)
THEOREM WakeupNeverLost == Spec => []NoLostWakeup
<1>1. Init => NoLostWakeup
  BY DEF Init, NoLostWakeup
<1>2. TypeOK /\ NoLostWakeup /\ [Next]_vars => NoLostWakeup'
  <2> SUFFICES ASSUME TypeOK, NoLostWakeup, [Next]_vars
               PROVE  NoLostWakeup'
    OBVIOUS
  <2> USE DEF TypeOK, NoLostWakeup, CallerPC
  <2>1. CASE Register \/ CheckRunning \/ Lock \/ Sleep \/ Take \/ SpuriousWake
    BY <2>1 DEF Register, CheckRunning, Lock, Sleep, Take, SpuriousWake
  <2>2. CASE TaskReturns
    BY <2>2 DEF TaskReturns
  <2>3. ASSUME NEW c \in Callers, AddTaskPush(c) PROVE NoLostWakeup'
    BY <2>3 DEF AddTaskPush
  <2>4. ASSUME NEW c \in Callers, AddTaskNotify(c) PROVE NoLostWakeup'
    BY <2>4 DEF AddTaskNotify
  <2>5. ASSUME NEW c \in Callers, Stop(c) \/ Join(c) \/ JoinReturns(c)
        PROVE  NoLostWakeup'
    BY <2>5 DEF Stop, Join, JoinReturns
  <2>6. CASE UNCHANGED vars
    BY <2>6 DEF vars
  <2> QED
    BY <2>1, <2>2, <2>3, <2>4, <2>5, <2>6 DEF Next, WorkerStep, CallerStep
<1> QED
  BY <1>1, <1>2, TypeCorrect, PTL DEF Spec

(* Run() dequeues the tasks in the order AddTask() pushed them, each once.  *)
THEOREM FifoOrder == Spec => []FifoExactlyOnce
<1>1. Init => FifoExactlyOnce
  BY DEF Init, FifoExactlyOnce
<1>2. TypeOK /\ FifoExactlyOnce /\ [Next]_vars => FifoExactlyOnce'
  <2> SUFFICES ASSUME TypeOK, FifoExactlyOnce, [Next]_vars
               PROVE  FifoExactlyOnce'
    OBVIOUS
  <2> USE DEF TypeOK, FifoExactlyOnce
  <2>1. CASE Take
    BY <2>1 DEF Take
  <2>2. ASSUME NEW c \in Callers, AddTaskPush(c) PROVE FifoExactlyOnce'
    <3>1. PICK t \in Tasks : tasks' = Append(tasks, t) /\ added' = Append(added, t)
      BY <2>2 DEF AddTaskPush
    <3>2. Append(taken \o tasks, t) = taken \o Append(tasks, t)
      <4>1. Append(tasks, t) = tasks \o <<t>>
        BY AppendIsConcat
      <4>2. taken \o tasks \in Seq(Tasks) /\ <<t>> \in Seq(Tasks)
        BY ConcatProperties
      <4>3. Append(taken \o tasks, t) = (taken \o tasks) \o <<t>>
        BY <4>2, AppendIsConcat
      <4> QED
        BY <4>1, <4>2, <4>3, ConcatAssociative
    <3> QED
      BY <2>2, <3>1, <3>2 DEF AddTaskPush
  <2>3. CASE Register \/ CheckRunning \/ Lock \/ Sleep \/ TaskReturns \/ SpuriousWake
    BY <2>3 DEF Register, CheckRunning, Lock, Sleep, TaskReturns, SpuriousWake
  <2>4. ASSUME NEW c \in Callers,
               AddTaskNotify(c) \/ Stop(c) \/ Join(c) \/ JoinReturns(c)
        PROVE  FifoExactlyOnce'
    BY <2>4 DEF AddTaskNotify, Stop, Join, JoinReturns
  <2>5. CASE UNCHANGED vars
    BY <2>5 DEF vars
  <2> QED
    BY <2>1, <2>2, <2>3, <2>4, <2>5 DEF Next, WorkerStep, CallerStep
<1> QED
  BY <1>1, <1>2, TypeCorrect, PTL DEF Spec

(* CurrentThread() finds the worker registered in every task it runs.       *)
THEOREM CurrentThreadKnown == Spec => []CurrentThreadSet
<1>1. Init => RegisteredFirst
  BY DEF Init, RegisteredFirst
<1>2. RegisteredFirst /\ [Next]_vars => RegisteredFirst'
  <2> SUFFICES ASSUME RegisteredFirst, [Next]_vars PROVE RegisteredFirst'
    OBVIOUS
  <2> USE DEF RegisteredFirst
  <2>1. CASE WorkerStep \/ SpuriousWake
    BY <2>1 DEF WorkerStep, Register, CheckRunning, Lock, Sleep, Take,
                TaskReturns, SpuriousWake
  <2>2. ASSUME NEW c \in Callers, CallerStep(c) PROVE RegisteredFirst'
    BY <2>2 DEF CallerStep, AddTaskPush, AddTaskNotify, Stop, Join, JoinReturns
  <2>3. CASE UNCHANGED vars
    BY <2>3 DEF vars
  <2> QED
    BY <2>1, <2>2, <2>3 DEF Next
<1>3. RegisteredFirst => CurrentThreadSet
  BY DEF RegisteredFirst, CurrentThreadSet
<1> QED
  BY <1>1, <1>2, <1>3, PTL DEF Spec

(* The first Stop() opens a budget of one task: none has been taken since.  *)
LEMMA ClearRunningBudget ==
  ASSUME TypeOK, StopBudget, ClearRunning, taken' = taken,
         pc' = pc \/ pc' = "check"
  PROVE  StopBudget'
<1>1. CASE running
  <2>1. ~running' /\ takenAtStop' = Len(taken)
    BY <1>1, Zenon DEF ClearRunning
  <2> QED
    BY <2>1 DEF TypeOK, StopBudget, AtMostOneAfterStop
<1>2. CASE ~running
  <2>1. ~running' /\ takenAtStop' = takenAtStop
    BY <1>2, Zenon DEF ClearRunning
  <2> QED
    BY <1>2, <2>1 DEF TypeOK, StopBudget, AtMostOneAfterStop
<1> QED
  BY <1>1, <1>2

(* After running_ is cleared Run() dequeues at most one more task.          *)
THEOREM StopTakesAtMostOne == Spec => []AtMostOneAfterStop
<1>1. Init => StopBudget
  BY DEF Init, StopBudget, AtMostOneAfterStop
<1>2. TypeOK /\ StopBudget /\ [Next]_vars => StopBudget'
  <2> SUFFICES ASSUME TypeOK, StopBudget, [Next]_vars PROVE StopBudget'
    OBVIOUS
  <2>1. CASE Take
    <3>1. /\ pc = "test" /\ pc' \in {"run", "check"}
          /\ Len(taken') = Len(taken) + 1
      BY <2>1 DEF Take, TypeOK
    <3>2. running' = running /\ takenAtStop' = takenAtStop
      BY <2>1 DEF Take
    <3> QED
      BY <3>1, <3>2 DEF TypeOK, StopBudget, AtMostOneAfterStop
  <2>2. CASE TaskReturns
    <3>1. CASE CurrentTask \in StopTasks
      BY <2>2, <3>1, ClearRunningBudget DEF TaskReturns
    <3>2. CASE CurrentTask \notin StopTasks
      <4>1. running' = running /\ takenAtStop' = takenAtStop
        BY <2>2, <3>2, Zenon DEF TaskReturns
      <4> QED
        BY <2>2, <4>1 DEF TaskReturns, TypeOK, StopBudget, AtMostOneAfterStop
    <3> QED
      BY <3>1, <3>2
  <2>3. CASE CheckRunning
    BY <2>3 DEF CheckRunning, TypeOK, StopBudget, AtMostOneAfterStop
  <2>4. CASE Register \/ Lock \/ Sleep \/ SpuriousWake
    BY <2>4 DEF Register, Lock, Sleep, SpuriousWake, TypeOK, StopBudget,
                AtMostOneAfterStop
  <2>5. ASSUME NEW c \in Callers, AddTaskPush(c) \/ Join(c) \/ JoinReturns(c)
        PROVE  StopBudget'
    BY <2>5 DEF AddTaskPush, Join, JoinReturns, StopBudget, AtMostOneAfterStop
  <2>6. ASSUME NEW c \in Callers, AddTaskNotify(c) PROVE StopBudget'
    BY <2>6 DEF AddTaskNotify, TypeOK, StopBudget, AtMostOneAfterStop
  <2>7. ASSUME NEW c \in Callers, Stop(c) PROVE StopBudget'
    BY <2>7, ClearRunningBudget DEF Stop
  <2>8. CASE UNCHANGED vars
    BY <2>8 DEF vars, StopBudget, AtMostOneAfterStop
  <2> QED
    BY <2>1, <2>2, <2>3, <2>4, <2>5, <2>6, <2>7, <2>8
       DEF Next, WorkerStep, CallerStep
<1>3. StopBudget => AtMostOneAfterStop
  BY DEF StopBudget
<1> QED
  BY <1>1, <1>2, <1>3, TypeCorrect, PTL DEF Spec

(* The executor's view of a step, by what it does to the two histories and  *)
(* to the gate: a submission, a task begun, the gate shut, or nothing.      *)
Gate == IF running THEN "open"
        ELSE IF pc \in {"lock", "test", "wait"} THEN "last" ELSE "closed"

(* The first Stop() shuts the executor's gate; a later one changes nothing. *)
LEMMA ClearRunningShuts ==
  ASSUME ClearRunning, UNCHANGED <<added, taken>>,
         pc' = pc \/ (pc = "run" /\ pc' = "check")
  PROVE  [Executor!Next]_(Executor!vars)
<1>1. running' = FALSE
  BY DEF ClearRunning
<1>2. Gate' \in {"last", "closed"}
  BY <1>1, Zenon DEF Gate
<1>3. CASE running
  <2>1. Gate = "open"
    BY <1>3, Zenon DEF Gate
  <2>2. Executor!Shut
    BY <1>2, <2>1 DEF Gate, Executor!Shut
  <2> QED
    BY <2>2 DEF Executor!Next
<1>4. CASE ~running
  <2>1. Gate' = Gate
    BY <1>1, <1>4 DEF Gate
  <2> QED
    BY <2>1 DEF Gate, Executor!vars
<1> QED
  BY <1>3, <1>4

(* Thread implements the abstract executor: every step submits the task     *)
(* that AddTask() pushed, begins the oldest task not yet begun, shuts the   *)
(* gate, or is invisible to the executor's clients.                         *)
THEOREM Implementation == Spec => ImplementsExecutor
<1>1. Init => Executor!Init
  BY DEF Init, Executor!Init
<1>2. TypeOK /\ FifoExactlyOnce /\ [Next]_vars => [Executor!Next]_(Executor!vars)
  <2> SUFFICES ASSUME TypeOK, FifoExactlyOnce, [Next]_vars
               PROVE  [Executor!Next]_(Executor!vars)
    OBVIOUS
  <2>1. CASE Take
    <3>1. Len(taken) < Len(added) /\ Head(tasks) = added[Len(taken) + 1]
      BY <2>1 DEF Take, TypeOK, FifoExactlyOnce
    <3>2. pc = "test" /\ pc' \in {"run", "check"} /\ running' = running
      BY <2>1 DEF Take
    <3>3. Gate # "closed"
      BY <3>2, Zenon DEF Gate
    <3>4. Gate' = IF Gate = "open" THEN "open" ELSE "closed"
      BY <3>2 DEF Gate
    <3>5. taken' = Append(taken, added[Len(taken) + 1]) /\ added' = added
      BY <2>1, <3>1 DEF Take
    <3>6. Executor!Begin
      BY <3>1, <3>3, <3>4, <3>5 DEF Executor!Begin, Gate
    <3> QED
      BY <3>6 DEF Executor!Next
  <2>2. ASSUME NEW c \in Callers, AddTaskPush(c)
        PROVE  [Executor!Next]_(Executor!vars)
    <3>1. Executor!Submit
      BY <2>2 DEF AddTaskPush, Executor!Submit
    <3> QED
      BY <3>1 DEF Executor!Next
  <2>3. CASE TaskReturns
    <3>1. CASE CurrentTask \in StopTasks
      BY <2>3, <3>1, ClearRunningShuts DEF TaskReturns
    <3>2. CASE CurrentTask \notin StopTasks
      <4>1. running' = running /\ pc = "run" /\ pc' = "check"
        BY <2>3, <3>2, Zenon DEF TaskReturns
      <4>2. Gate' = Gate
        BY <4>1 DEF Gate
      <4> QED
        BY <2>3, <4>2 DEF TaskReturns, Executor!vars, Gate
    <3> QED
      BY <3>1, <3>2
  <2>4. CASE CheckRunning
    <3>1. running' = running /\ pc = "check"
          /\ pc' = IF running THEN "lock" ELSE "exit"
      BY <2>4 DEF CheckRunning
    <3>2. Gate' = Gate
      BY <3>1 DEF Gate
    <3> QED
      BY <2>4, <3>2 DEF CheckRunning, Executor!vars, Gate
  <2>5. CASE Register \/ Lock \/ Sleep \/ SpuriousWake
    <3>1. Gate' = Gate /\ UNCHANGED <<added, taken>>
      BY <2>5 DEF Register, Lock, Sleep, SpuriousWake, Gate
    <3> QED
      BY <3>1 DEF Executor!vars, Gate
  <2>6. ASSUME NEW c \in Callers, AddTaskNotify(c) \/ Join(c) \/ JoinReturns(c)
        PROVE  [Executor!Next]_(Executor!vars)
    <3>1. Gate' = Gate /\ UNCHANGED <<added, taken>>
      BY <2>6 DEF AddTaskNotify, Join, JoinReturns, Gate
    <3> QED
      BY <3>1 DEF Executor!vars, Gate
  <2>7. ASSUME NEW c \in Callers, Stop(c)
        PROVE  [Executor!Next]_(Executor!vars)
    BY <2>7, ClearRunningShuts DEF Stop
  <2>8. CASE UNCHANGED vars
    BY <2>8 DEF vars, Executor!vars
  <2> QED
    BY <2>1, <2>2, <2>3, <2>4, <2>5, <2>6, <2>7, <2>8
       DEF Next, WorkerStep, CallerStep
<1> QED
  BY <1>1, <1>2, TypeCorrect, FifoOrder, PTL
     DEF Spec, ImplementsExecutor, Executor!Spec
=============================================================================
