--------------------------- MODULE TaskQueueProofs ---------------------------
(***************************************************************************)
(* TLAPS proofs about TaskQueue, for every set of clients, work threads    *)
(* and tasks: the inductive invariant, the two safety properties it        *)
(* implies, and the safety half of the refinement to SerialExecutor.       *)
(***************************************************************************)
EXTENDS TaskQueue, TLAPS

\* The initial state satisfies the inductive invariant.
LEMMA InitIInv == Init => IInv
<1> SUFFICES ASSUME Init PROVE IInv
  OBVIOUS
<1> USE QueueAssumption DEF Init, Thread
<1>1. TypeOK
  <2>1. pc \in [Thread -> ClientPC \cup WorkerPC] /\ task \in [Thread -> Task \cup {None}]
    BY DEF ClientPC, WorkerPC
  <2>2. \A c \in Client : pc[c] \in ClientPC
    BY DEF ClientPC
  <2>3. \A w \in Worker : pc[w] \in WorkerPC
    BY DEF WorkerPC
  <2>4. queue_ \in Seq(Task) /\ executed \in Seq(Task)
    OBVIOUS
  <2> QED
    BY <2>1, <2>2, <2>3, <2>4 DEF TypeOK
<1>2. MutexInv
  BY DEF MutexInv, Critical
<1>3. \A w \in Worker : pc[w] = "ended"
  OBVIOUS
<1>4. OneWorkThread /\ FlagInv /\ TaskInv /\ SeenInv
  BY <1>3 DEF OneWorkThread, FlagInv, TaskInv, SeenInv, InLoop
<1>5. WakeInv /\ FreshInv
  BY DEF WakeInv, FreshInv
<1> QED
  BY <1>1, <1>2, <1>4, <1>5 DEF IInv

\* Every step keeps the types.
LEMMA TypeStep == IInv /\ [Next]_vars => TypeOK'
<1> SUFFICES ASSUME IInv, [Next]_vars PROVE TypeOK'
  OBVIOUS
<1> USE QueueAssumption DEF IInv, TypeOK, Thread, ClientPC, WorkerPC
<1>1. ASSUME NEW c \in Client, NEW t \in Task, CallEnqueue(c, t) PROVE TypeOK'
  BY <1>1 DEF CallEnqueue
<1>2. ASSUME NEW c \in Client, EnqueueLock(c) PROVE TypeOK'
  BY <1>2 DEF EnqueueLock, Lock
<1>3. ASSUME NEW c \in Client, Push(c) PROVE TypeOK'
  <2>1. task[c] \in Task
    BY <1>3 DEF Push, TaskInv
  <2> QED BY <1>3, <2>1 DEF Push
<1>4. ASSUME NEW c \in Client, wakeWorkThread(c) PROVE TypeOK'
  BY <1>4 DEF wakeWorkThread, SpawnWorker
<1>5. ASSUME NEW c \in Client, EnqueueUnlock(c) PROVE TypeOK'
  BY <1>5 DEF EnqueueUnlock, Unlock
<1>6. ASSUME NEW w \in Worker, DequeueLock(w) PROVE TypeOK'
  BY <1>6 DEF DequeueLock, Lock
<1>7. ASSUME NEW w \in Worker, CheckEmpty(w) PROVE TypeOK'
  BY <1>7 DEF CheckEmpty
<1>8. ASSUME NEW w \in Worker, exitWorkThread(w) PROVE TypeOK'
  BY <1>8 DEF exitWorkThread
<1>9. ASSUME NEW w \in Worker, Pop(w) PROVE TypeOK'
  <2>1. queue_ # <<>>
    BY <1>9 DEF Pop, SeenInv
  <2>2. Head(queue_) \in Task /\ Tail(queue_) \in Seq(Task)
    BY <2>1
  <2> QED BY <1>9, <2>2 DEF Pop
<1>10. ASSUME NEW w \in Worker, DequeueUnlock(w) PROVE TypeOK'
  BY <1>10 DEF DequeueUnlock, Unlock
<1>11. ASSUME NEW w \in Worker, Execute(w) PROVE TypeOK'
  <2>1. task[w] \in Task
    BY <1>11 DEF Execute, TaskInv
  <2> QED BY <1>11, <2>1 DEF Execute
<1>12. CASE UNCHANGED vars
  BY <1>12 DEF vars
<1> QED
  BY <1>1, <1>2, <1>3, <1>4, <1>5, <1>6, <1>7, <1>8, <1>9, <1>10, <1>11, <1>12
  DEF Next, ClientStep, WorkerStep

\* lock() and unlock() of queue_mutex_ keep exactly one thread between them.
LEMMA MutexInvStep == IInv /\ [Next]_vars => MutexInv'
<1> SUFFICES ASSUME IInv, [Next]_vars PROVE MutexInv'
  OBVIOUS
<1> USE QueueAssumption DEF IInv, TypeOK, Thread, ClientPC, WorkerPC, MutexInv, Critical
<1>1. ASSUME NEW c \in Client, NEW t \in Task, CallEnqueue(c, t) PROVE MutexInv'
  BY <1>1 DEF CallEnqueue
<1>2. ASSUME NEW c \in Client, EnqueueLock(c) PROVE MutexInv'
  BY <1>2 DEF EnqueueLock, Lock
<1>3. ASSUME NEW c \in Client, Push(c) PROVE MutexInv'
  BY <1>3 DEF Push
<1>4. ASSUME NEW c \in Client, wakeWorkThread(c) PROVE MutexInv'
  BY <1>4 DEF wakeWorkThread, SpawnWorker
<1>5. ASSUME NEW c \in Client, EnqueueUnlock(c) PROVE MutexInv'
  BY <1>5 DEF EnqueueUnlock, Unlock
<1>6. ASSUME NEW w \in Worker, DequeueLock(w) PROVE MutexInv'
  BY <1>6 DEF DequeueLock, Lock
<1>7. ASSUME NEW w \in Worker, CheckEmpty(w) PROVE MutexInv'
  BY <1>7 DEF CheckEmpty
<1>8. ASSUME NEW w \in Worker, exitWorkThread(w) PROVE MutexInv'
  BY <1>8 DEF exitWorkThread
<1>9. ASSUME NEW w \in Worker, Pop(w) PROVE MutexInv'
  BY <1>9 DEF Pop
<1>10. ASSUME NEW w \in Worker, DequeueUnlock(w) PROVE MutexInv'
  BY <1>10 DEF DequeueUnlock, Unlock
<1>11. ASSUME NEW w \in Worker, Execute(w) PROVE MutexInv'
  BY <1>11 DEF Execute
<1>12. CASE UNCHANGED vars
  BY <1>12 DEF vars
<1> QED
  BY <1>1, <1>2, <1>3, <1>4, <1>5, <1>6, <1>7, <1>8, <1>9, <1>10, <1>11, <1>12
  DEF Next, ClientStep, WorkerStep

\* A spawn happens only when no work thread serves the queue, so it never
\* makes a second one.
LEMMA OneWorkThreadStep == IInv /\ [Next]_vars => OneWorkThread'
<1> SUFFICES ASSUME IInv, [Next]_vars PROVE OneWorkThread'
  OBVIOUS
<1> USE QueueAssumption DEF IInv, TypeOK, Thread, ClientPC, WorkerPC, OneWorkThread, FlagInv, InLoop
<1>1. ASSUME NEW c \in Client, NEW t \in Task, CallEnqueue(c, t) PROVE OneWorkThread'
  BY <1>1 DEF CallEnqueue
<1>2. ASSUME NEW c \in Client, EnqueueLock(c) PROVE OneWorkThread'
  BY <1>2 DEF EnqueueLock, Lock
<1>3. ASSUME NEW c \in Client, Push(c) PROVE OneWorkThread'
  BY <1>3 DEF Push
<1>4. ASSUME NEW c \in Client, wakeWorkThread(c) PROVE OneWorkThread'
  BY <1>4 DEF wakeWorkThread, SpawnWorker
<1>5. ASSUME NEW c \in Client, EnqueueUnlock(c) PROVE OneWorkThread'
  BY <1>5 DEF EnqueueUnlock, Unlock
<1>6. ASSUME NEW w \in Worker, DequeueLock(w) PROVE OneWorkThread'
  BY <1>6 DEF DequeueLock, Lock
<1>7. ASSUME NEW w \in Worker, CheckEmpty(w) PROVE OneWorkThread'
  BY <1>7 DEF CheckEmpty
<1>8. ASSUME NEW w \in Worker, exitWorkThread(w) PROVE OneWorkThread'
  BY <1>8 DEF exitWorkThread
<1>9. ASSUME NEW w \in Worker, Pop(w) PROVE OneWorkThread'
  BY <1>9 DEF Pop
<1>10. ASSUME NEW w \in Worker, DequeueUnlock(w) PROVE OneWorkThread'
  BY <1>10 DEF DequeueUnlock, Unlock
<1>11. ASSUME NEW w \in Worker, Execute(w) PROVE OneWorkThread'
  BY <1>11 DEF Execute
<1>12. CASE UNCHANGED vars
  BY <1>12 DEF vars
<1> QED
  BY <1>1, <1>2, <1>3, <1>4, <1>5, <1>6, <1>7, <1>8, <1>9, <1>10, <1>11, <1>12
  DEF Next, ClientStep, WorkerStep

\* work_thread_awaked_ is set by the step that spawns the thread and cleared
\* by the thread's last step on the queue.
LEMMA FlagInvStep == IInv /\ [Next]_vars => FlagInv'
<1> SUFFICES ASSUME IInv, [Next]_vars PROVE FlagInv'
  OBVIOUS
<1> USE QueueAssumption DEF IInv, TypeOK, Thread, ClientPC, WorkerPC, FlagInv, InLoop, OneWorkThread, TaskInv
<1>1. ASSUME NEW c \in Client, NEW t \in Task, CallEnqueue(c, t) PROVE FlagInv'
  BY <1>1 DEF CallEnqueue
<1>2. ASSUME NEW c \in Client, EnqueueLock(c) PROVE FlagInv'
  BY <1>2 DEF EnqueueLock, Lock
<1>3. ASSUME NEW c \in Client, Push(c) PROVE FlagInv'
  BY <1>3 DEF Push
<1>4. ASSUME NEW c \in Client, wakeWorkThread(c) PROVE FlagInv'
  BY <1>4 DEF wakeWorkThread, SpawnWorker
<1>5. ASSUME NEW c \in Client, EnqueueUnlock(c) PROVE FlagInv'
  BY <1>5 DEF EnqueueUnlock, Unlock
<1>6. ASSUME NEW w \in Worker, DequeueLock(w) PROVE FlagInv'
  BY <1>6 DEF DequeueLock, Lock
<1>7. ASSUME NEW w \in Worker, CheckEmpty(w) PROVE FlagInv'
  BY <1>7 DEF CheckEmpty
<1>8. ASSUME NEW w \in Worker, exitWorkThread(w) PROVE FlagInv'
  BY <1>8 DEF exitWorkThread
<1>9. ASSUME NEW w \in Worker, Pop(w) PROVE FlagInv'
  <2>1. Head(queue_) # None
    BY <1>9 DEF Pop, SeenInv
  <2>2. InLoop(w) /\ InLoop(w)'
    BY <1>9, <2>1 DEF Pop
  <2> QED
    BY <1>9, <2>2 DEF Pop
<1>10. ASSUME NEW w \in Worker, DequeueUnlock(w) PROVE FlagInv'
  BY <1>10 DEF DequeueUnlock, Unlock
<1>11. ASSUME NEW w \in Worker, Execute(w) PROVE FlagInv'
  BY <1>11 DEF Execute
<1>12. CASE UNCHANGED vars
  BY <1>12 DEF vars
<1> QED
  BY <1>1, <1>2, <1>3, <1>4, <1>5, <1>6, <1>7, <1>8, <1>9, <1>10, <1>11, <1>12
  DEF Next, ClientStep, WorkerStep

\* The TaskPtr locals of clients and work threads follow their control.
LEMMA TaskInvStep == IInv /\ [Next]_vars => TaskInv'
<1> SUFFICES ASSUME IInv, [Next]_vars PROVE TaskInv'
  OBVIOUS
<1> USE QueueAssumption DEF IInv, TypeOK, Thread, ClientPC, WorkerPC, TaskInv
<1>1. ASSUME NEW c \in Client, NEW t \in Task, CallEnqueue(c, t) PROVE TaskInv'
  BY <1>1 DEF CallEnqueue
<1>2. ASSUME NEW c \in Client, EnqueueLock(c) PROVE TaskInv'
  BY <1>2 DEF EnqueueLock, Lock
<1>3. ASSUME NEW c \in Client, Push(c) PROVE TaskInv'
  BY <1>3 DEF Push
<1>4. ASSUME NEW c \in Client, wakeWorkThread(c) PROVE TaskInv'
  BY <1>4 DEF wakeWorkThread, SpawnWorker
<1>5. ASSUME NEW c \in Client, EnqueueUnlock(c) PROVE TaskInv'
  BY <1>5 DEF EnqueueUnlock, Unlock
<1>6. ASSUME NEW w \in Worker, DequeueLock(w) PROVE TaskInv'
  BY <1>6 DEF DequeueLock, Lock
<1>7. ASSUME NEW w \in Worker, CheckEmpty(w) PROVE TaskInv'
  BY <1>7 DEF CheckEmpty
<1>8. ASSUME NEW w \in Worker, exitWorkThread(w) PROVE TaskInv'
  BY <1>8 DEF exitWorkThread
<1>9. ASSUME NEW w \in Worker, Pop(w) PROVE TaskInv'
  BY <1>9 DEF Pop
<1>10. ASSUME NEW w \in Worker, DequeueUnlock(w) PROVE TaskInv'
  BY <1>10 DEF DequeueUnlock, Unlock
<1>11. ASSUME NEW w \in Worker, Execute(w) PROVE TaskInv'
  BY <1>11 DEF Execute
<1>12. CASE UNCHANGED vars
  BY <1>12 DEF vars
<1> QED
  BY <1>1, <1>2, <1>3, <1>4, <1>5, <1>6, <1>7, <1>8, <1>9, <1>10, <1>11, <1>12
  DEF Next, ClientStep, WorkerStep

\* The emptiness a work thread tested cannot change under the mutex.
LEMMA SeenInvStep == IInv /\ [Next]_vars => SeenInv'
<1> SUFFICES ASSUME IInv, [Next]_vars PROVE SeenInv'
  OBVIOUS
<1> USE QueueAssumption DEF IInv, TypeOK, Thread, ClientPC, WorkerPC, SeenInv, MutexInv, Critical
<1>1. ASSUME NEW c \in Client, NEW t \in Task, CallEnqueue(c, t) PROVE SeenInv'
  BY <1>1 DEF CallEnqueue
<1>2. ASSUME NEW c \in Client, EnqueueLock(c) PROVE SeenInv'
  BY <1>2 DEF EnqueueLock, Lock
<1>3. ASSUME NEW c \in Client, Push(c) PROVE SeenInv'
  BY <1>3 DEF Push
<1>4. ASSUME NEW c \in Client, wakeWorkThread(c) PROVE SeenInv'
  BY <1>4 DEF wakeWorkThread, SpawnWorker
<1>5. ASSUME NEW c \in Client, EnqueueUnlock(c) PROVE SeenInv'
  BY <1>5 DEF EnqueueUnlock, Unlock
<1>6. ASSUME NEW w \in Worker, DequeueLock(w) PROVE SeenInv'
  BY <1>6 DEF DequeueLock, Lock
<1>7. ASSUME NEW w \in Worker, CheckEmpty(w) PROVE SeenInv'
  BY <1>7 DEF CheckEmpty
<1>8. ASSUME NEW w \in Worker, exitWorkThread(w) PROVE SeenInv'
  BY <1>8 DEF exitWorkThread
<1>9. ASSUME NEW w \in Worker, Pop(w) PROVE SeenInv'
  BY <1>9 DEF Pop
<1>10. ASSUME NEW w \in Worker, DequeueUnlock(w) PROVE SeenInv'
  BY <1>10 DEF DequeueUnlock, Unlock
<1>11. ASSUME NEW w \in Worker, Execute(w) PROVE SeenInv'
  BY <1>11 DEF Execute
<1>12. CASE UNCHANGED vars
  BY <1>12 DEF vars
<1> QED
  BY <1>1, <1>2, <1>3, <1>4, <1>5, <1>6, <1>7, <1>8, <1>9, <1>10, <1>11, <1>12
  DEF Next, ClientStep, WorkerStep

\* A task is pushed and its thread woken inside one critical section.
LEMMA WakeInvStep == IInv /\ [Next]_vars => WakeInv'
<1> SUFFICES ASSUME IInv, [Next]_vars PROVE WakeInv'
  OBVIOUS
<1> USE QueueAssumption DEF IInv, TypeOK, Thread, ClientPC, WorkerPC, WakeInv, SeenInv, MutexInv, Critical
<1>1. ASSUME NEW c \in Client, NEW t \in Task, CallEnqueue(c, t) PROVE WakeInv'
  BY <1>1 DEF CallEnqueue
<1>2. ASSUME NEW c \in Client, EnqueueLock(c) PROVE WakeInv'
  BY <1>2 DEF EnqueueLock, Lock
<1>3. ASSUME NEW c \in Client, Push(c) PROVE WakeInv'
  BY <1>3 DEF Push
<1>4. ASSUME NEW c \in Client, wakeWorkThread(c) PROVE WakeInv'
  BY <1>4 DEF wakeWorkThread, SpawnWorker
<1>5. ASSUME NEW c \in Client, EnqueueUnlock(c) PROVE WakeInv'
  BY <1>5 DEF EnqueueUnlock, Unlock
<1>6. ASSUME NEW w \in Worker, DequeueLock(w) PROVE WakeInv'
  BY <1>6 DEF DequeueLock, Lock
<1>7. ASSUME NEW w \in Worker, CheckEmpty(w) PROVE WakeInv'
  BY <1>7 DEF CheckEmpty
<1>8. ASSUME NEW w \in Worker, exitWorkThread(w) PROVE WakeInv'
  BY <1>8 DEF exitWorkThread
<1>9. ASSUME NEW w \in Worker, Pop(w) PROVE WakeInv'
  BY <1>9 DEF Pop
<1>10. ASSUME NEW w \in Worker, DequeueUnlock(w) PROVE WakeInv'
  BY <1>10 DEF DequeueUnlock, Unlock
<1>11. ASSUME NEW w \in Worker, Execute(w) PROVE WakeInv'
  BY <1>11 DEF Execute
<1>12. CASE UNCHANGED vars
  BY <1>12 DEF vars
<1> QED
  BY <1>1, <1>2, <1>3, <1>4, <1>5, <1>6, <1>7, <1>8, <1>9, <1>10, <1>11, <1>12
  DEF Next, ClientStep, WorkerStep

\* No task is enqueued by two clients.
LEMMA FreshInvStep == IInv /\ [Next]_vars => FreshInv'
<1> SUFFICES ASSUME IInv, [Next]_vars PROVE FreshInv'
  OBVIOUS
<1> USE QueueAssumption DEF IInv, TypeOK, Thread, ClientPC, WorkerPC, FreshInv, TaskInv
<1>1. ASSUME NEW c \in Client, NEW t \in Task, CallEnqueue(c, t) PROVE FreshInv'
  BY <1>1 DEF CallEnqueue
<1>2. ASSUME NEW c \in Client, EnqueueLock(c) PROVE FreshInv'
  BY <1>2 DEF EnqueueLock, Lock
<1>3. ASSUME NEW c \in Client, Push(c) PROVE FreshInv'
  BY <1>3 DEF Push
<1>4. ASSUME NEW c \in Client, wakeWorkThread(c) PROVE FreshInv'
  BY <1>4 DEF wakeWorkThread, SpawnWorker
<1>5. ASSUME NEW c \in Client, EnqueueUnlock(c) PROVE FreshInv'
  BY <1>5 DEF EnqueueUnlock, Unlock
<1>6. ASSUME NEW w \in Worker, DequeueLock(w) PROVE FreshInv'
  BY <1>6 DEF DequeueLock, Lock
<1>7. ASSUME NEW w \in Worker, CheckEmpty(w) PROVE FreshInv'
  BY <1>7 DEF CheckEmpty
<1>8. ASSUME NEW w \in Worker, exitWorkThread(w) PROVE FreshInv'
  BY <1>8 DEF exitWorkThread
<1>9. ASSUME NEW w \in Worker, Pop(w) PROVE FreshInv'
  BY <1>9 DEF Pop
<1>10. ASSUME NEW w \in Worker, DequeueUnlock(w) PROVE FreshInv'
  BY <1>10 DEF DequeueUnlock, Unlock
<1>11. ASSUME NEW w \in Worker, Execute(w) PROVE FreshInv'
  BY <1>11 DEF Execute
<1>12. CASE UNCHANGED vars
  BY <1>12 DEF vars
<1> QED
  BY <1>1, <1>2, <1>3, <1>4, <1>5, <1>6, <1>7, <1>8, <1>9, <1>10, <1>11, <1>12
  DEF Next, ClientStep, WorkerStep

\* Every step of the program preserves the inductive invariant.
LEMMA IInvStep == IInv /\ [Next]_vars => IInv'
  BY TypeStep, MutexInvStep, OneWorkThreadStep, FlagInvStep, TaskInvStep, SeenInvStep,
     WakeInvStep, FreshInvStep DEF IInv

\* The inductive invariant holds in every reachable state.
THEOREM Invariance == Spec => []IInv
  BY InitIInv, IInvStep, PTL DEF Spec

\* At no time do two work threads serve the queue.
THEOREM OneWorkThreadThm == Spec => []OneWorkThread
<1>1. IInv => OneWorkThread
  BY DEF IInv
<1> QED
  BY <1>1, Invariance, PTL

\* No enqueue() leaves its task behind without a work thread that will come
\* for it.
THEOREM NoLostWakeupThm == Spec => []NoLostWakeup
<1>1. IInv => NoLostWakeup
  <2> SUFFICES ASSUME IInv, queue_mutex_ = None, queue_ # <<>>
               PROVE  \E w \in Worker : InLoop(w)
    BY DEF NoLostWakeup
  <2>1. \A c \in Client : pc[c] # "wake"
    BY QueueAssumption DEF IInv, MutexInv, Critical, Thread
  <2> QED
    BY <2>1 DEF IInv, WakeInv, FlagInv
<1> QED
  BY <1>1, Invariance, PTL

-----------------------------------------------------------------------------
(* The refinement, without its fairness.                                   *)

\* Only the one work thread that serves the queue can hold a task, so the
\* CHOOSE of the mapping finds it.
LEMMA RunningIs ==
  ASSUME IInv, NEW w \in Worker, task[w] # None
  PROVE  runningTask = task[w]
<1>1. \A v \in Worker : task[v] # None => InLoop(v)
  BY DEF IInv, TypeOK, TaskInv, InLoop, WorkerPC
<1>2. \A v \in Worker : task[v] # None => v = w
  BY <1>1 DEF IInv, OneWorkThread
<1> QED
  BY <1>2 DEF runningTask

\* The initial states are initial states of a serial executor.
LEMMA InitRefines == Init => Executor!Init
  BY QueueAssumption DEF Init, Executor!Init, notPushed, runningTask, Thread

\* Each step of the program is a step of a serial executor or changes nothing
\* it shows.
LEMMA StepRefines == IInv /\ IInv' /\ [Next]_vars => [Executor!Next]_(Executor!vars)
<1> SUFFICES ASSUME IInv, IInv', [Next]_vars PROVE [Executor!Next]_(Executor!vars)
  OBVIOUS
<1> USE QueueAssumption DEF Thread
<1>0. TypeOK
  BY DEF IInv
<1>a. ASSUME \A w \in Worker : task'[w] = task[w] PROVE runningTask' = runningTask
  BY <1>a DEF runningTask
<1>b. ASSUME UNCHANGED <<queue_, executed, notPushed>>, \A w \in Worker : task'[w] = task[w]
      PROVE  UNCHANGED Executor!vars
  BY <1>a, <1>b DEF Executor!vars
<1>1. ASSUME NEW c \in Client, NEW t \in Task, CallEnqueue(c, t) PROVE UNCHANGED Executor!vars
  <2>1. UNCHANGED notPushed
    BY <1>0, <1>1 DEF CallEnqueue, notPushed, TypeOK
  <2> QED
    BY <1>0, <1>1, <1>b, <2>1 DEF CallEnqueue, TypeOK
<1>2. ASSUME NEW c \in Client, EnqueueLock(c) PROVE UNCHANGED Executor!vars
  <2>1. UNCHANGED notPushed
    BY <1>0, <1>2 DEF EnqueueLock, Lock, notPushed, TypeOK
  <2> QED
    BY <1>2, <1>b, <2>1 DEF EnqueueLock
<1>3. ASSUME NEW c \in Client, Push(c) PROVE Executor!Next
  <2>1. task[c] \in Task /\ task[c] \in notPushed
    BY <1>0, <1>3 DEF IInv, Push, TaskInv, notPushed, TypeOK
  <2>2. notPushed' = notPushed \ {task[c]}
    BY <1>0, <1>3 DEF IInv, Push, FreshInv, notPushed, TypeOK
  <2>3. Executor!Submit(task[c])
    BY <1>3, <1>a, <2>1, <2>2 DEF Push, Executor!Submit
  <2> QED
    BY <2>1, <2>3 DEF Executor!Next
<1>4. ASSUME NEW c \in Client, wakeWorkThread(c) PROVE UNCHANGED Executor!vars
  <2>1. UNCHANGED notPushed
    BY <1>0, <1>4 DEF wakeWorkThread, SpawnWorker, notPushed, TypeOK
  <2> QED
    BY <1>4, <1>b, <2>1 DEF wakeWorkThread
<1>5. ASSUME NEW c \in Client, EnqueueUnlock(c) PROVE UNCHANGED Executor!vars
  <2>1. UNCHANGED notPushed
    BY <1>0, <1>5 DEF EnqueueUnlock, Unlock, notPushed, TypeOK
  <2> QED
    BY <1>0, <1>5, <1>b, <2>1 DEF EnqueueUnlock, TypeOK
<1>6. ASSUME NEW w \in Worker, \/ DequeueLock(w) \/ CheckEmpty(w)
                                \/ exitWorkThread(w) \/ DequeueUnlock(w)
      PROVE  UNCHANGED Executor!vars
  <2>1. UNCHANGED notPushed
    BY <1>0, <1>6 DEF DequeueLock, Lock, CheckEmpty, exitWorkThread, DequeueUnlock, Unlock,
                      notPushed, TypeOK
  <2> QED
    BY <1>6, <1>b, <2>1 DEF DequeueLock, CheckEmpty, exitWorkThread, DequeueUnlock
<1>7. ASSUME NEW w \in Worker, Pop(w) PROVE Executor!Begin
  <2>1. UNCHANGED notPushed
    BY <1>0, <1>7 DEF Pop, notPushed, TypeOK
  <2>2. queue_ # <<>> /\ Head(queue_) # None
    BY <1>0, <1>7 DEF IInv, Pop, SeenInv, TypeOK
  <2>3. runningTask = None
    <3>1. \A v \in Worker : task[v] # None => InLoop(v)
      BY DEF IInv, TypeOK, TaskInv, InLoop, WorkerPC
    <3>2. InLoop(w) /\ task[w] = None
      BY <1>7 DEF Pop, InLoop, IInv, TaskInv
    <3> QED
      BY <3>1, <3>2 DEF runningTask, IInv, OneWorkThread
  <2>4. task'[w] = Head(queue_)
    BY <1>0, <1>7 DEF Pop, TypeOK
  <2>5. runningTask' = Head(queue_)
    <3>1. \A v \in Worker : task'[v] # None => v = w
      BY <1>0, <1>7, <2>3 DEF Pop, TypeOK, runningTask
    <3> QED
      BY <2>2, <2>4, <3>1 DEF runningTask
  <2> QED
    BY <1>7, <2>1, <2>2, <2>3, <2>5 DEF Pop, Executor!Begin
<1>8. ASSUME NEW w \in Worker, Execute(w) PROVE Executor!Finish
  <2>1. UNCHANGED notPushed
    BY <1>0, <1>8 DEF Execute, notPushed, TypeOK
  <2>2. task[w] # None
    BY <1>8 DEF Execute, IInv, TaskInv
  <2>3. runningTask = task[w]
    BY <2>2, RunningIs
  <2>4. \A v \in Worker : task[v] # None => v = w
    BY <1>8 DEF Execute, IInv, TypeOK, TaskInv, OneWorkThread, InLoop, WorkerPC
  <2>5. runningTask' = None
    BY <1>0, <1>8, <2>4 DEF Execute, TypeOK, runningTask
  <2> QED
    BY <1>8, <2>1, <2>2, <2>3, <2>5 DEF Execute, Executor!Finish
<1>9. CASE UNCHANGED vars
  BY <1>9, <1>b DEF vars, notPushed
<1> QED
  BY <1>1, <1>2, <1>3, <1>4, <1>5, <1>6, <1>7, <1>8, <1>9
  DEF Next, ClientStep, WorkerStep, Executor!Next

\* Whatever the clients do, the queue behaves as a serial executor: tasks run
\* one at a time and in the order in which they were pushed.
THEOREM RefinesExecutor == Spec => Executor!Init /\ [][Executor!Next]_(Executor!vars)
  BY InitRefines, StepRefines, Invariance, PTL DEF Spec
=============================================================================
