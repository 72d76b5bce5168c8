--------------------------- MODULE SerialExecutor ---------------------------
(***************************************************************************)
(* What the global task queue of nnrt promises to Execution::startCompute: *)
(* submitted tasks run one at a time, in the order of submission, and      *)
(* every one of them is eventually finished.  TaskQueue.tla is the code;   *)
(* it implements this module.                                              *)
(***************************************************************************)
EXTENDS Naturals, Sequences

CONSTANTS Task,      \* the tasks that may be submitted
          NoTask     \* "no task is running"

VARIABLES unborn,    \* tasks not submitted yet: each one is submitted at most once
          pending,   \* submitted and not begun, in submission order
          running,   \* the task that is executing, or NoTask
          finished   \* the finished tasks, in the order they finished

vars == <<unborn, pending, running, finished>>

Init ==
  /\ unborn = Task
  /\ pending = <<>>
  /\ running = NoTask
  /\ finished = <<>>

Submit(t) ==
  /\ t \in unborn
  /\ unborn' = unborn \ {t}
  /\ pending' = Append(pending, t)
  /\ UNCHANGED <<running, finished>>

Begin ==
  /\ running = NoTask
  /\ pending # <<>>
  /\ running' = Head(pending)
  /\ pending' = Tail(pending)
  /\ UNCHANGED <<unborn, finished>>

Finish ==
  /\ running # NoTask
  /\ finished' = Append(finished, running)
  /\ running' = NoTask
  /\ UNCHANGED <<unborn, pending>>

Next ==
  \/ \E t \in Task : Submit(t)
  \/ Begin
  \/ Finish

Spec == Init /\ [][Next]_vars /\ WF_vars(Begin) /\ WF_vars(Finish)
=============================================================================
