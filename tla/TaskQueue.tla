------------------------------ MODULE TaskQueue ------------------------------
(***************************************************************************)
(* nnrt/execution_task.cpp: the process-wide TaskQueue and its detached    *)
(* work thread.                                                            *)
(*                                                                         *)
(* Client threads (in Execution::startCompute) call enqueue(), which takes *)
(* queue_mutex_, pushes the task, spawns a work thread unless the flag     *)
(* work_thread_awaked_ says that there is one, and unlocks.  A work thread *)
(* runs work_process(): dequeue() under the mutex, execute the task, and   *)
(* end when dequeue() found the queue empty, having cleared the flag while *)
(* it still held the mutex.                                                *)
(*                                                                         *)
(* One step of the model is one access to the shared state; taking and     *)
(* releasing queue_mutex_ are steps of their own.                          *)
(***************************************************************************)
EXTENDS Naturals, Sequences

CONSTANTS Client,    \* threads that call enqueue()
          Worker,    \* identities of work threads; an ended one is free again
          Task,      \* the tasks, each a fresh shared_ptr, enqueued once
          None       \* no owner, no task

ASSUME QueueAssumption ==
  /\ None \notin Task
  /\ None \notin Client \cup Worker
  /\ Client \cap Worker = {}

VARIABLES
  queue_,               \* std::queue<TaskPtr>
  work_thread_awaked_,  \* "a work thread is running"
  queue_mutex_,         \* the thread that owns it, or None
  pc,                   \* where each thread is
  task,                 \* the TaskPtr local of each thread
  unborn,               \* tasks no client has created yet
  executed              \* history: the tasks executed, in order

vars == <<queue_, work_thread_awaked_, queue_mutex_, pc, task, unborn, executed>>

Thread == Client \cup Worker

ClientPC == {"idle", "enqueue", "push", "wake", "enq_unlock"}
WorkerPC == {"ended", "dequeue", "check", "pop", "exit", "deq_unlock", "execute"}

TypeOK ==
  /\ queue_ \in Seq(Task)
  /\ work_thread_awaked_ \in BOOLEAN
  /\ queue_mutex_ \in Thread \cup {None}
  /\ pc \in [Thread -> ClientPC \cup WorkerPC]
  /\ \A c \in Client : pc[c] \in ClientPC
  /\ \A w \in Worker : pc[w] \in WorkerPC
  /\ task \in [Thread -> Task \cup {None}]
  /\ unborn \subseteq Task
  /\ executed \in Seq(Task)

Init ==
  /\ queue_ = <<>>
  /\ work_thread_awaked_ = FALSE
  /\ queue_mutex_ = None
  /\ pc = [t \in Thread |-> IF t \in Client THEN "idle" ELSE "ended"]
  /\ task = [t \in Thread |-> None]
  /\ unborn = Task
  /\ executed = <<>>

-----------------------------------------------------------------------------
(* std::mutex                                                              *)

\* Mutant: the mutex is not taken.
NoLock(t, from, to) ==
  /\ pc[t] = from
  /\ queue_mutex_' = t
  /\ pc' = [pc EXCEPT ![t] = to]

Lock(t, from, to) ==
  /\ pc[t] = from
  /\ queue_mutex_ = None
  /\ queue_mutex_' = t
  /\ pc' = [pc EXCEPT ![t] = to]

Unlock(t, from, to) ==
  /\ pc[t] = from
  /\ queue_mutex_' = None
  /\ pc' = [pc EXCEPT ![t] = to]

-----------------------------------------------------------------------------
(* TaskQueue::enqueue, called by a client                                  *)

CallEnqueue(c, t) ==
  /\ pc[c] = "idle"
  /\ t \in unborn
  /\ unborn' = unborn \ {t}
  /\ task' = [task EXCEPT ![c] = t]
  /\ pc' = [pc EXCEPT ![c] = "enqueue"]
  /\ UNCHANGED <<queue_, work_thread_awaked_, queue_mutex_, executed>>

EnqueueLock(c) ==
  /\ Lock(c, "enqueue", "push")
  /\ UNCHANGED <<queue_, work_thread_awaked_, task, unborn, executed>>

Push(c) ==
  /\ pc[c] = "push"
  /\ queue_' = Append(queue_, task[c])
  /\ pc' = [pc EXCEPT ![c] = "wake"]
  /\ UNCHANGED <<work_thread_awaked_, queue_mutex_, task, unborn, executed>>

\* std::thread(work_process).detach(): some ended identity starts to run.
SpawnWorker(c) ==
  \E w \in Worker :
    /\ pc[w] = "ended"
    /\ pc' = [pc EXCEPT ![c] = "enq_unlock", ![w] = "dequeue"]

\* Mutant: the test of the flag is forgotten.
wakeAlways(c) ==
  /\ pc[c] = "wake"
  /\ work_thread_awaked_' = TRUE
  /\ SpawnWorker(c)
  /\ UNCHANGED <<queue_, queue_mutex_, task, unborn, executed>>

wakeWorkThread(c) ==
  /\ pc[c] = "wake"
  /\ \/ /\ ~work_thread_awaked_
        /\ work_thread_awaked_' = TRUE
        /\ SpawnWorker(c)
     \/ /\ work_thread_awaked_
        /\ pc' = [pc EXCEPT ![c] = "enq_unlock"]
        /\ UNCHANGED work_thread_awaked_
  /\ UNCHANGED <<queue_, queue_mutex_, task, unborn, executed>>

EnqueueUnlock(c) ==
  /\ Unlock(c, "enq_unlock", "idle")
  /\ task' = [task EXCEPT ![c] = None]
  /\ UNCHANGED <<queue_, work_thread_awaked_, unborn, executed>>

-----------------------------------------------------------------------------
(* work_process: the loop of a work thread around TaskQueue::dequeue       *)

DequeueLock(w) ==
  /\ Lock(w, "dequeue", "check")
  /\ UNCHANGED <<queue_, work_thread_awaked_, task, unborn, executed>>

CheckEmpty(w) ==
  /\ pc[w] = "check"
  /\ pc' = [pc EXCEPT ![w] = IF queue_ = <<>> THEN "exit" ELSE "pop"]
  /\ UNCHANGED <<queue_, work_thread_awaked_, queue_mutex_, task, unborn, executed>>

exitWorkThread(w) ==
  /\ pc[w] = "exit"
  /\ work_thread_awaked_' = FALSE
  /\ pc' = [pc EXCEPT ![w] = "deq_unlock"]
  /\ UNCHANGED <<queue_, queue_mutex_, task, unborn, executed>>

\* Mutant: the newest task is taken first.
PopBack(w) ==
  /\ pc[w] = "pop"
  /\ task' = [task EXCEPT ![w] = queue_[Len(queue_)]]
  /\ queue_' = SubSeq(queue_, 1, Len(queue_) - 1)
  /\ pc' = [pc EXCEPT ![w] = "deq_unlock"]
  /\ UNCHANGED <<work_thread_awaked_, queue_mutex_, unborn, executed>>

Pop(w) ==
  /\ pc[w] = "pop"
  /\ task' = [task EXCEPT ![w] = Head(queue_)]
  /\ queue_' = Tail(queue_)
  /\ pc' = [pc EXCEPT ![w] = "deq_unlock"]
  /\ UNCHANGED <<work_thread_awaked_, queue_mutex_, unborn, executed>>

DequeueUnlock(w) ==
  /\ Unlock(w, "deq_unlock", IF task[w] = None THEN "ended" ELSE "execute")
  /\ UNCHANGED <<queue_, work_thread_awaked_, task, unborn, executed>>

\* task->execute(), then the next iteration drops the shared_ptr.
Execute(w) ==
  /\ pc[w] = "execute"
  /\ executed' = Append(executed, task[w])
  /\ task' = [task EXCEPT ![w] = None]
  /\ pc' = [pc EXCEPT ![w] = "dequeue"]
  /\ UNCHANGED <<queue_, work_thread_awaked_, queue_mutex_, unborn>>

-----------------------------------------------------------------------------
ClientStep(c) ==
  \/ EnqueueLock(c)
  \/ Push(c)
  \/ wakeWorkThread(c)
  \/ EnqueueUnlock(c)

WorkerStep(w) ==
  \/ DequeueLock(w)
  \/ CheckEmpty(w)
  \/ exitWorkThread(w)
  \/ Pop(w)
  \/ DequeueUnlock(w)
  \/ Execute(w)

Next ==
  \/ \E c \in Client, t \in Task : CallEnqueue(c, t)
  \/ \E c \in Client : ClientStep(c)
  \/ \E w \in Worker : WorkerStep(w)

\* The scheduler runs every thread that can run; no client has to call
\* enqueue().
Fairness ==
  /\ \A c \in Client : WF_vars(ClientStep(c))
  /\ \A w \in Worker : WF_vars(WorkerStep(w))

Spec == Init /\ [][Next]_vars /\ Fairness

-----------------------------------------------------------------------------
(* Properties                                                              *)

\* A work thread that serves the queue: it has not cleared the flag yet.
InLoop(w) ==
  \/ pc[w] \in {"dequeue", "check", "pop", "exit", "execute"}
  \/ pc[w] = "deq_unlock" /\ task[w] # None

\* Two work threads never serve the queue together: a thread that is ending
\* may still be alive when its successor is spawned, but it has finished with
\* the queue (wakeWorkThread / exitWorkThread and their flag).
OneWorkThread ==
  \A v, w \in Worker : InLoop(v) /\ InLoop(w) => v = w

\* No wake-up is lost: whenever the mutex is free and a task is queued, some
\* work thread will come back to dequeue it.  The race is between a dequeue()
\* that finds the queue empty and an enqueue() that finds the flag set.
NoLostWakeup ==
  queue_mutex_ = None /\ queue_ # <<>> => \E w \in Worker : InLoop(w)

-----------------------------------------------------------------------------
(* The inductive invariant behind these properties                         *)

Critical == {"push", "wake", "enq_unlock", "check", "pop", "exit", "deq_unlock"}

\* queue_mutex_ is owned by the one thread that is between lock and unlock.
MutexInv == \A t \in Thread : pc[t] \in Critical <=> queue_mutex_ = t

\* The flag says exactly whether a work thread serves the queue.
FlagInv == work_thread_awaked_ <=> \E w \in Worker : InLoop(w)

\* A thread holds a task from the moment it has it until it has passed it on.
TaskInv ==
  /\ \A c \in Client : task[c] # None <=> pc[c] # "idle"
  /\ \A w \in Worker :
       /\ pc[w] \in {"ended", "dequeue", "check", "pop", "exit"} => task[w] = None
       /\ pc[w] = "execute" => task[w] # None

\* What dequeue() saw of the queue is still true: nobody else has the mutex.
SeenInv ==
  \A w \in Worker : /\ pc[w] = "pop" => queue_ # <<>>
                    /\ pc[w] = "exit" => queue_ = <<>>

\* A queued task without a work thread is one whose client is about to spawn it.
WakeInv == queue_ # <<>> /\ ~work_thread_awaked_ => \E c \in Client : pc[c] = "wake"

\* Each task is created by one client.
FreshInv ==
  \A c \in Client :
    pc[c] \in {"enqueue", "push"} =>
      /\ task[c] \notin unborn
      /\ \A d \in Client : pc[d] \in {"enqueue", "push"} /\ task[d] = task[c] => d = c

IInv == TypeOK /\ MutexInv /\ OneWorkThread /\ FlagInv /\ TaskInv /\ SeenInv /\ WakeInv /\ FreshInv

-----------------------------------------------------------------------------
(* The queue implements a serial executor.  A task is submitted when it is *)
(* pushed, begins when it is popped and finishes when execute() returns.   *)

notPushed == unborn \cup {task[c] : c \in {d \in Client : pc[d] \in {"enqueue", "push"}}}

runningTask ==
  IF \E w \in Worker : task[w] # None
  THEN task[CHOOSE w \in Worker : task[w] # None]
  ELSE None

Executor == INSTANCE SerialExecutor WITH
  NoTask   <- None,
  unborn   <- notPushed,
  pending  <- queue_,
  running  <- runningTask,
  finished <- executed

\* Tasks run one at a time, in the order they were pushed, each of them once,
\* and all of them in the end.
ImplementsExecutor == Executor!Spec
=============================================================================
