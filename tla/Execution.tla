------------------------------ MODULE Execution ------------------------------
(***************************************************************************)
(* nnrt/execution.cpp, event.cpp and GraphTask of execution_task.cpp,      *)
(* composed with the task queue and with the PreparedModel that all        *)
(* executions of one Compilation share.                                    *)
(*                                                                         *)
(* Client threads call setInput / setOutput (and the FromMemory variants), *)
(* startCompute, compute, Event::wait and free an execution.  startCompute *)
(* hands a GraphTask to the queue; the one work thread copies the inputs   *)
(* into the shared graph, runs it, copies the outputs out and notifies the *)
(* event.  compute does the same in the calling thread.  The queue is the  *)
(* abstract SerialExecutor, which TaskQueue.tla implements.                *)
(*                                                                         *)
(* A Run is one evaluation: its GraphTask and, if started asynchronously,  *)
(* its Event.  The network is abstracted to the identity: an output names  *)
(* the input it was computed from.  Each execution has one input and one   *)
(* output.  The application may leave the input out: then the operand of   *)
(* the Model, which all executions share, is null until someone binds it,  *)
(* and a graph built meanwhile has no tensor for it.                       *)
(***************************************************************************)
EXTENDS Naturals, Sequences

CONSTANTS
  Exec,        \* the Execution objects of one Compilation
  SyncExec,    \* those on which the application also calls compute()
  Client,      \* the application's threads
  Work,        \* the work thread
  Run,         \* identities of evaluations; their number bounds the model
  Data,        \* contents of input buffers
  None

ASSUME ExecutionAssumption ==
  /\ SyncExec \subseteq Exec
  /\ Work \notin Client
  /\ None \notin Exec \cup Run \cup Data \cup Client \cup {Work}
  /\ {"UNSPECIFIED", "SKIPPED", "MISFIT", "PARTIAL"} \cap Data = {}
  /\ None # "PARTIAL"

\* What an ExecutionIO of an input holds.  SKIPPED is no value (HAS_NO_VALUE), or
\* a BUFFER with a weak_mem_ref that refers to nothing, which the memory pool leaves
\* for a region outside its Memory object.  MISFIT is a BUFFER whose length is not
\* the tensor's; any other value stands for the buffer's content.
UNSPECIFIED == "UNSPECIFIED"
SKIPPED     == "SKIPPED"
MISFIT      == "MISFIT"
Input       == Data \cup {UNSPECIFIED, SKIPPED, MISFIT}

\* What fillOutput makes of an output's: UNFIT is an error, because the state is
\* UNSPECIFIED, the length wrong or the reference one to nothing.
UNFIT  == "UNFIT"
BUFFER == "BUFFER"
Output == {UNFIT, BUFFER}

\* What a graph computes that was built while the input's operand was null: the
\* operations left without any input are removed, and nobody fills their outputs.
PARTIAL == "PARTIAL"
Result  == Data \cup {PARTIAL}

EventState == {"IDLE", "IN_PROCESS", "ERROR_OCCURED", "COMPLETED"}
Terminal   == {"ERROR_OCCURED", "COMPLETED"}
Code       == {"NO_ERROR", "OP_FAILED", "INCOMPLETE", "BAD_DATA"}

VARIABLES
  mutex_,    \* Execution::mutex_: the client that owns it, or None
  event_,    \* Execution::event_: the run whose event it is, or None
  input,     \* Execution::inputs_[0]
  is_null,   \* Operand::optional_null_ of the input's operand in the Model
  output,    \* Execution::outputs_[0]
  freed,     \* executions destroyed by the application
  state_,    \* Event::state_ of each run
  built,     \* the Compilation has cached a prepared model
  has_input, \* its graph has a tensor for the input
  cut,       \* operations of the Model may have been removed with the null input
  graph_in,  \* content of the shared graph's input tensor
  graph_out, \* content of its output tensor
  pc,        \* where each thread is
  cur,       \* the run each thread works on
  unsubmitted, pending, running, finished,   \* the task queue
  owner,     \* the execution of each run, None while the run is unused
  want,      \* history: the content bound when the run was created, if any
  got,       \* history: what fillOutput wrote to the output buffer
  ret        \* the code the last call to end has returned

execVars  == <<mutex_, event_, input, is_null, output, freed>>
prepared  == <<built, has_input, cut>>
graphVars == <<prepared, graph_in, graph_out>>
queueVars == <<unsubmitted, pending, running, finished>>
runVars   == <<owner, want, got>>
vars == <<execVars, state_, graphVars, pc, cur, queueVars, runVars, ret>>

Thread == Client \cup {Work}

Queue == INSTANCE SerialExecutor WITH
  Task <- Run, NoTask <- None, unborn <- unsubmitted

PC == {"ready", "prepare", "publish", "enqueue", "prepare_sync",
       "fill", "run", "read", "done", "failed", "waiting"}

TypeOK ==
  /\ mutex_ \in [Exec -> Client \cup {None}]
  /\ event_ \in [Exec -> Run \cup {None}]
  /\ input \in [Exec -> Input]
  /\ is_null \in BOOLEAN
  /\ output \in [Exec -> Output]
  /\ freed \subseteq Exec
  /\ state_ \in [Run -> EventState]
  /\ built \in BOOLEAN
  /\ has_input \in BOOLEAN
  /\ cut \in BOOLEAN
  /\ graph_in \in Data \cup {None}
  /\ graph_out \in Result \cup {None}
  /\ pc \in [Thread -> PC]
  /\ cur \in [Thread -> Run \cup {None}]
  /\ unsubmitted \subseteq Run
  /\ pending \in Seq(Run)
  /\ running \in Run \cup {None}
  /\ finished \in Seq(Run)
  /\ owner \in [Run -> Exec \cup {None}]
  /\ want \in [Run -> Data \cup {None}]
  /\ got \in [Run -> Result \cup {None}]
  /\ ret \in Code

Init ==
  /\ mutex_ = [e \in Exec |-> None]
  /\ event_ = [e \in Exec |-> None]
  /\ input = [e \in Exec |-> UNSPECIFIED]
  /\ is_null = FALSE
  /\ output = [e \in Exec |-> UNFIT]
  /\ freed = {}
  /\ state_ = [r \in Run |-> "IDLE"]
  /\ built = FALSE
  /\ has_input = FALSE
  /\ cut = FALSE
  /\ graph_in = None
  /\ graph_out = None
  /\ pc = [t \in Thread |-> "ready"]
  /\ cur = [t \in Thread |-> None]
  /\ Queue!Init
  /\ owner = [r \in Run |-> None]
  /\ want = [r \in Run |-> None]
  /\ got = [r \in Run |-> None]
  /\ ret = "NO_ERROR"

-----------------------------------------------------------------------------
(* Calls that bind buffers                                                 *)

\* Mutant: a running execution is not recognised.
NeverRunning(e) == FALSE

isRunning(e) == event_[e] # None /\ state_[event_[e]] = "IN_PROCESS"

\* The caller holds a live execution and gets its mutex_.
Enter(c, e) ==
  /\ pc[c] = "ready"
  /\ e \notin freed
  /\ mutex_[e] = None

Return(code) == ret' = code

\* setInput, setOutput, their FromMemory variants, and compute, on a running
\* execution.
RefuseBusy(c, e) ==
  /\ Enter(c, e)
  /\ isRunning(e)
  /\ Return("INCOMPLETE")
  /\ UNCHANGED <<execVars, state_, graphVars, pc, cur, queueVars, runVars>>

\* An index past inputs_ or outputs_.
RefuseIndex(c, e) ==
  /\ Enter(c, e)
  /\ ~isRunning(e)
  /\ Return("BAD_DATA")
  /\ UNCHANGED <<execVars, state_, graphVars, pc, cur, queueVars, runVars>>

\* Mutant: a running execution is not asked about before it is changed.
setInputAnyTime(c, e, i) ==
  /\ Enter(c, e)
  /\ input' = [input EXCEPT ![e] = i]
  /\ is_null' \in {FALSE, i = SKIPPED}
  /\ Return("NO_ERROR")
  /\ UNCHANGED <<mutex_, event_, output, freed, state_, graphVars, pc, cur, queueVars, runVars>>

\* setInput, setInputFromMemory: a missing buffer makes the operand null, a
\* buffer, also one in an unmapped region, makes it a tensor again, for all
\* executions.
setInput(c, e, i) ==
  /\ Enter(c, e)
  /\ ~isRunning(e)
  /\ input' = [input EXCEPT ![e] = i]
  /\ is_null' \in {FALSE, i = SKIPPED}
  /\ Return("NO_ERROR")
  /\ UNCHANGED <<mutex_, event_, output, freed, state_, graphVars, pc, cur, queueVars, runVars>>

\* setOutput, setOutputFromMemory.
setOutput(c, e, o) ==
  /\ Enter(c, e)
  /\ ~isRunning(e)
  /\ output' = [output EXCEPT ![e] = o]
  /\ Return("NO_ERROR")
  /\ UNCHANGED <<mutex_, event_, input, is_null, freed, state_, graphVars, pc, cur, queueVars, runVars>>

-----------------------------------------------------------------------------
(* startCompute and compute                                                *)

\* The content bound as the input of execution e, if any.
Offered(e) == IF input[e] \in Data THEN input[e] ELSE None

\* A new GraphTask for execution e, with a new EventShell if asynchronous.
NewRun(c, e, r) ==
  /\ owner[r] = None
  /\ owner' = [owner EXCEPT ![r] = e]
  /\ want' = [want EXCEPT ![r] = Offered(e)]
  /\ cur' = [cur EXCEPT ![c] = r]
  /\ UNCHANGED got

startCompute(c, e, r) ==
  /\ Enter(c, e)
  /\ ~isRunning(e)
  /\ mutex_' = [mutex_ EXCEPT ![e] = c]
  /\ NewRun(c, e, r)
  /\ pc' = [pc EXCEPT ![c] = "prepare"]
  /\ UNCHANGED <<event_, input, is_null, output, freed, state_, graphVars, queueVars, ret>>

RefuseStart(c, e) ==
  /\ Enter(c, e)
  /\ isRunning(e)
  /\ Return("OP_FAILED")
  /\ UNCHANGED <<execVars, state_, graphVars, pc, cur, queueVars, runVars>>

compute(c, e, r) ==
  /\ e \in SyncExec
  /\ Enter(c, e)
  /\ ~isRunning(e)
  /\ mutex_' = [mutex_ EXCEPT ![e] = c]
  /\ NewRun(c, e, r)
  /\ pc' = [pc EXCEPT ![c] = "prepare_sync"]
  /\ UNCHANGED <<event_, input, is_null, output, freed, state_, graphVars, queueVars, ret>>

\* Leave the call: unlock and forget the run.
Leave(c, code) ==
  /\ mutex_' = [mutex_ EXCEPT ![owner[cur[c]]] = None]
  /\ cur' = [cur EXCEPT ![c] = None]
  /\ pc' = [pc EXCEPT ![c] = "ready"]
  /\ Return(code)

\* Compilation::prepareModel: the cached model, or a new one that is cached
\* when it could be built.  The cached one serves whatever dimensions its
\* signature names, with or without the input.
prepareModel(c) ==
  /\ pc[c] \in {"prepare", "prepare_sync"}
  /\ built' = TRUE
  /\ has_input' = IF built THEN has_input ELSE ~is_null
  /\ cut' = (cut \/ (~built /\ is_null))
  /\ pc' = [pc EXCEPT ![c] = IF @ = "prepare" THEN "publish" ELSE "fill"]
  /\ UNCHANGED <<execVars, state_, graph_in, graph_out, cur, queueVars, runVars, ret>>

\* What the attempt has removed from the Model stays removed.
prepareModelFails(c) ==
  /\ pc[c] \in {"prepare", "prepare_sync"}
  /\ ~built
  /\ cut' = (cut \/ is_null)
  /\ Leave(c, "OP_FAILED")
  /\ UNCHANGED <<event_, input, is_null, output, freed, state_, built, has_input, graph_in, graph_out,
                 queueVars, runVars>>

\* Mutant: the execution does not remember the event.
PublishForgotten(c) ==
  /\ pc[c] = "publish"
  /\ state_' = [state_ EXCEPT ![cur[c]] = "IN_PROCESS"]
  /\ pc' = [pc EXCEPT ![c] = "enqueue"]
  /\ UNCHANGED <<execVars, graphVars, cur, queueVars, runVars, ret>>

\* event_ = event; event_->notify(IN_PROCESS).
Publish(c) ==
  /\ pc[c] = "publish"
  /\ event_' = [event_ EXCEPT ![owner[cur[c]]] = cur[c]]
  /\ state_' = [state_ EXCEPT ![cur[c]] = "IN_PROCESS"]
  /\ pc' = [pc EXCEPT ![c] = "enqueue"]
  /\ UNCHANGED <<mutex_, input, is_null, output, freed, graphVars, cur, queueVars, runVars, ret>>

Enqueue(c) ==
  /\ pc[c] = "enqueue"
  /\ Queue!Submit(cur[c])
  /\ Leave(c, "NO_ERROR")
  /\ UNCHANGED <<event_, input, is_null, output, freed, state_, graphVars, runVars>>

-----------------------------------------------------------------------------
(* GraphTask: executed by the work thread or, in compute(), by a client    *)

Dequeue ==
  /\ pc[Work] = "ready"
  /\ Queue!Begin
  /\ cur' = [cur EXCEPT ![Work] = Head(pending)]
  /\ pc' = [pc EXCEPT ![Work] = "fill"]
  /\ UNCHANGED <<execVars, state_, graphVars, runVars, ret>>

Goto(t, label) == pc' = [pc EXCEPT ![t] = label]

\* PreparedModel::setInput writes a buffer that fits, if the graph has a tensor for
\* it; without the tensor it answers NO_ERROR before it looks at the buffer.
Written(i) == IF i \in Data /\ has_input THEN i ELSE graph_in

FillFails(i) == i = UNSPECIFIED \/ (i = MISFIT /\ has_input)

\* Mutant: an error in fillInput is reported but the run goes on.
fillInputGoesOn(t) ==
  LET i == input[owner[cur[t]]]
  IN  /\ pc[t] = "fill"
      /\ graph_in' = Written(i)
      /\ state_' = IF FillFails(i) THEN [state_ EXCEPT ![cur[t]] = "ERROR_OCCURED"] ELSE state_
      /\ Goto(t, "run")
      /\ UNCHANGED <<execVars, prepared, graph_out, cur, queueVars, runVars, ret>>

\* Mutant: the state of the ExecutionIO is not looked at.
fillInputUnchecked(t) ==
  /\ pc[t] = "fill"
  /\ graph_in' = input[owner[cur[t]]]
  /\ Goto(t, "run")
  /\ UNCHANGED <<execVars, state_, prepared, graph_out, cur, queueVars, runVars, ret>>

\* An omitted input, one whose memory is gone and one the graph has no tensor for
\* are all passed over: the graph keeps what it holds.
fillInput(t) ==
  LET i == input[owner[cur[t]]]
  IN  /\ pc[t] = "fill"
      /\ graph_in' = Written(i)
      /\ Goto(t, IF FillFails(i) THEN "failed" ELSE "run")
      /\ UNCHANGED <<execVars, state_, prepared, graph_out, cur, queueVars, runVars, ret>>

\* PreparedModel::execute: vsi_nn_RunGraph succeeds or fails.
execute(t) ==
  /\ pc[t] = "run"
  /\ \/ /\ \/ has_input /\ graph_out' = graph_in
           \/ cut /\ graph_out' = PARTIAL
        /\ Goto(t, "read")
     \/ Goto(t, "failed") /\ UNCHANGED graph_out
  /\ UNCHANGED <<execVars, state_, prepared, graph_in, cur, queueVars, runVars, ret>>

\* The output of a removed operation has no tensor to read.
fillOutput(t) ==
  /\ pc[t] = "read"
  /\ \/ /\ output[owner[cur[t]]] = BUFFER
        /\ got' = [got EXCEPT ![cur[t]] = graph_out]
        /\ Goto(t, "done")
     \/ /\ output[owner[cur[t]]] # BUFFER \/ cut
        /\ Goto(t, "failed")
        /\ UNCHANGED got
  /\ UNCHANGED <<execVars, state_, graphVars, cur, queueVars, owner, want, ret>>

\* Mutant: a task that failed returns without notifying its waiters.
notifyOnlySuccess ==
  /\ pc[Work] \in {"done", "failed"}
  /\ state_' = IF pc[Work] = "done" THEN [state_ EXCEPT ![cur[Work]] = "COMPLETED"] ELSE state_
  /\ Queue!Finish
  /\ cur' = [cur EXCEPT ![Work] = None]
  /\ Goto(Work, "ready")
  /\ UNCHANGED <<execVars, graphVars, runVars, ret>>

\* executeWithNotify ends: event_->notify, and the work thread returns to its
\* loop.
notify ==
  /\ pc[Work] \in {"done", "failed"}
  /\ state_' = [state_ EXCEPT ![cur[Work]] =
                  IF pc[Work] = "done" THEN "COMPLETED" ELSE "ERROR_OCCURED"]
  /\ Queue!Finish
  /\ cur' = [cur EXCEPT ![Work] = None]
  /\ Goto(Work, "ready")
  /\ UNCHANGED <<execVars, graphVars, runVars, ret>>

\* executeNormal ends: compute() unlocks and returns the task's status, for which
\* OP_FAILED stands if it is an error.
computeReturns(c) ==
  /\ pc[c] \in {"done", "failed"}
  /\ Leave(c, IF pc[c] = "done" THEN "NO_ERROR" ELSE "OP_FAILED")
  /\ UNCHANGED <<event_, input, is_null, output, freed, state_, graphVars, queueVars, runVars>>

-----------------------------------------------------------------------------
(* Event::wait, also the first half of ANeuralNetworksEvent_free           *)

\* The application has the event once startCompute has returned it.
callWait(c, r) ==
  /\ pc[c] = "ready"
  /\ state_[r] # "IDLE"
  /\ \A d \in Client : cur[d] # r
  /\ cur' = [cur EXCEPT ![c] = r]
  /\ Goto(c, "waiting")
  /\ UNCHANGED <<execVars, state_, graphVars, queueVars, runVars, ret>>

WaitCode(state) == IF state = "ERROR_OCCURED" THEN "BAD_DATA" ELSE "NO_ERROR"

\* Mutant: whatever wakes a waiter, it returns.
waitOnce(c) ==
  /\ pc[c] = "waiting"
  /\ Return(WaitCode(state_[cur[c]]))
  /\ cur' = [cur EXCEPT ![c] = None]
  /\ Goto(c, "ready")
  /\ UNCHANGED <<execVars, state_, graphVars, queueVars, runVars>>

\* condition_.wait with its predicate, then the code for the state.
wait(c) ==
  /\ pc[c] = "waiting"
  /\ state_[cur[c]] # "IN_PROCESS"
  /\ Return(WaitCode(state_[cur[c]]))
  /\ cur' = [cur EXCEPT ![c] = None]
  /\ Goto(c, "ready")
  /\ UNCHANGED <<execVars, state_, graphVars, queueVars, runVars>>

\* ANeuralNetworksExecution_free: the object goes, its queued task lives on.
\* The application uses the execution in no other thread.
freeExecution(c, e) ==
  /\ Enter(c, e)
  /\ freed' = freed \cup {e}
  /\ UNCHANGED <<mutex_, event_, input, is_null, output, state_, graphVars, pc, cur, queueVars, runVars, ret>>

-----------------------------------------------------------------------------
\* What a thread that is inside a call, or the work thread, does next.
ClientStep(c) ==
  \/ prepareModel(c) \/ prepareModelFails(c) \/ Publish(c) \/ Enqueue(c)
  \/ fillInput(c) \/ execute(c) \/ fillOutput(c) \/ computeReturns(c)
  \/ wait(c)

WorkStep == Dequeue \/ fillInput(Work) \/ execute(Work) \/ fillOutput(Work) \/ notify

Call(c) ==
  \/ \E e \in Exec :
       \/ RefuseBusy(c, e) \/ RefuseIndex(c, e)
       \/ \E i \in Input \ {UNSPECIFIED} : setInput(c, e, i)
       \/ \E o \in Output : setOutput(c, e, o)
       \/ \E r \in Run : startCompute(c, e, r) \/ compute(c, e, r)
       \/ RefuseStart(c, e)
       \/ freeExecution(c, e)
  \/ \E r \in Run : callWait(c, r)

Next ==
  \/ \E c \in Client : Call(c) \/ ClientStep(c)
  \/ WorkStep

\* A thread inside a call goes on, and so does the work thread; the
\* application need not call anything.
Fairness ==
  /\ \A c \in Client : WF_vars(ClientStep(c))
  /\ WF_vars(WorkStep)

Spec == Init /\ [][Next]_vars /\ Fairness

-----------------------------------------------------------------------------
(* Properties                                                              *)

\* The runs whose GraphTask may still read the ExecutionIO of its execution.
Active ==
  {r \in Run :
     \/ \E k \in DOMAIN pending : pending[k] = r
     \/ r = running
     \/ \E c \in Client : cur[c] = r /\ pc[c] # "waiting"}

\* At no time are two evaluations of the same execution under way, whoever
\* started them: mutex_, event_ and the state of the event exclude it together.
OneEvaluationPerExecution ==
  \A r, s \in Active : owner[r] = owner[s] => r = s

\* What the evaluation r may answer: what the network computes from the input
\* bound when it was started and, only when the Model lost operations to a null
\* input, what is left of the network.
Answers(r) == {want[r]} \cup (IF cut THEN {PARTIAL} ELSE {})

\* The work thread and compute() write to the output buffer only what the network
\* computes from the input that was bound when the evaluation was started, not from
\* an earlier one or from another execution's; and an event says COMPLETED only
\* when they have.  The code breaks this promise in one case, which Answers
\* names: if the graph was first built, or its building tried, while the shared
\* operand was null, a later evaluation with a bound input also completes
\* with the result of the network without it.
OwnResult ==
  \A r \in Run : want[r] \in Data =>
    /\ got[r] \in {None} \cup Answers(r)
    /\ state_[r] = "COMPLETED" => got[r] \in Answers(r)

\* The buffers of an execution do not change under an evaluation: setInput and
\* setOutput are refused from startCompute until the event is notified, and
\* blocked during compute.
BuffersStable ==
  [][\A r \in Active : input'[owner[r]] = input[owner[r]]
                    /\ output'[owner[r]] = output[owner[r]]]_vars

\* An event is set in process once and then to one verdict: a notification is
\* never overtaken by an earlier one or repeated with another verdict.
OneVerdict ==
  [][\A r \in Run : state_'[r] # state_[r] =>
       \/ state_[r] = "IDLE" /\ state_'[r] = "IN_PROCESS"
       \/ state_[r] = "IN_PROCESS" /\ state_'[r] \in Terminal]_vars

\* A call that reports success reports a result that is there: when wait() or
\* compute() returns NO_ERROR, the output buffer holds what the network computes
\* from the input that was bound, with the exception Answers names: the code
\* reports success also when the graph has no tensor for that input.
SuccessMeansResult ==
  [][\A c \in Client :
       /\ pc[c] \in {"waiting", "done", "failed"} /\ pc'[c] = "ready"
       /\ ret' = "NO_ERROR" /\ want[cur[c]] \in Data
       => got[cur[c]] \in Answers(cur[c])]_vars

\* Whoever waits for an event returns, also when the evaluation failed and when
\* the execution has been freed.
WaitersReturn == \A c \in Client : pc[c] = "waiting" ~> pc[c] = "ready"
=============================================================================
