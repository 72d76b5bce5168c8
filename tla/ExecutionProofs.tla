--------------------------- MODULE ExecutionProofs ---------------------------
(***************************************************************************)
(* Proofs about Execution, for any number of executions, threads and       *)
(* evaluations.                                                            *)
(*                                                                         *)
(* Two evaluations of an execution exclude each other for three reasons    *)
(* at once: mutex_ while a call prepares one, the state of the event while *)
(* it is queued, and the place in between, where the event is in process   *)
(* and the mutex still held.  The inductive invariant says which of them   *)
(* protects a run where.  For its proof the steps are first reduced to     *)
(* what they do to the variables that control this.                        *)
(***************************************************************************)
EXTENDS Execution, TLAPS

InCall(c) == pc[c] \notin {"ready", "waiting"}
Queued(r) == r = running \/ \E k \in 1..Len(pending) : pending[k] = r

\* A client inside a call works on a run, and holds the mutex of its execution.
Calls ==
  \A c \in Client :
    /\ pc[c] = "ready" <=> cur[c] = None
    /\ InCall(c) => owner[cur[c]] # None /\ mutex_[owner[cur[c]]] = c

\* The work thread executes the task the queue has begun.
Worker ==
  /\ pc[Work] \in {"ready", "fill", "run", "read", "done", "failed"}
  /\ pc[Work] = "ready" <=> running = None
  /\ cur[Work] = running

\* A run is queued once.
Once ==
  /\ \A j, k \in 1..Len(pending) : pending[j] = pending[k] => j = k
  /\ \A k \in 1..Len(pending) : pending[k] \notin unsubmitted /\ pending[k] # running
  /\ running \notin unsubmitted

\* What protects a run, from startCompute to its verdict.
Protected ==
  /\ \A r \in Run : owner[r] = None => state_[r] = "IDLE" /\ r \in unsubmitted
  /\ \A r \in Run : Queued(r) =>
       owner[r] # None /\ state_[r] = "IN_PROCESS" /\ event_[owner[r]] = r
  /\ \A e \in Exec : event_[e] # None => owner[event_[e]] = e
  /\ \A c \in Client : InCall(c) =>
       /\ cur[c] \in unsubmitted
       /\ pc[c] = "enqueue" => state_[cur[c]] = "IN_PROCESS" /\ event_[owner[cur[c]]] = cur[c]
       /\ pc[c] # "enqueue" => state_[cur[c]] = "IDLE" /\ ~isRunning(owner[cur[c]])

IInv == TypeOK /\ Calls /\ Worker /\ Once /\ Protected

-----------------------------------------------------------------------------
(* The steps, reduced to the variables the invariant is about              *)

control == <<mutex_, event_, state_, pc, cur, unsubmitted, pending, running, owner>>

Starts(c, e, r) ==
  /\ pc[c] = "ready" /\ mutex_[e] = None /\ ~isRunning(e) /\ owner[r] = None
  /\ mutex_' = [mutex_ EXCEPT ![e] = c]
  /\ owner' = [owner EXCEPT ![r] = e]
  /\ cur' = [cur EXCEPT ![c] = r]
  /\ pc' \in {[pc EXCEPT ![c] = "prepare"], [pc EXCEPT ![c] = "prepare_sync"]}
  /\ UNCHANGED <<event_, state_, queueVars>>

Goes(t, label) ==
  /\ pc[t] \notin {"ready", "waiting", "enqueue"}
  /\ label \in {"publish", "fill", "run", "read", "done", "failed"}
  /\ label = "publish" => t # Work
  /\ pc' = [pc EXCEPT ![t] = label]
  /\ UNCHANGED <<mutex_, event_, state_, cur, queueVars, owner>>

Leaves(c) ==
  /\ InCall(c)
  /\ mutex_' = [mutex_ EXCEPT ![owner[cur[c]]] = None]
  /\ cur' = [cur EXCEPT ![c] = None]
  /\ pc' = [pc EXCEPT ![c] = "ready"]
  /\ UNCHANGED <<event_, state_, owner>>
  /\ \/ pc[c] # "enqueue" /\ UNCHANGED queueVars
     \/ pc[c] = "enqueue" /\ Queue!Submit(cur[c])

Waits(c, r) ==
  /\ pc[c] = "ready"
  /\ cur' = [cur EXCEPT ![c] = r]
  /\ pc' = [pc EXCEPT ![c] = "waiting"]
  /\ UNCHANGED <<mutex_, event_, state_, queueVars, owner>>

Wakes(c) ==
  /\ pc[c] = "waiting"
  /\ cur' = [cur EXCEPT ![c] = None]
  /\ pc' = [pc EXCEPT ![c] = "ready"]
  /\ UNCHANGED <<mutex_, event_, state_, queueVars, owner>>

Effect ==
  \/ UNCHANGED control
  \/ \E c \in Client, e \in Exec, r \in Run : Starts(c, e, r)
  \/ \E t \in Thread, label \in PC : Goes(t, label)
  \/ \E c \in Client : Leaves(c) \/ Publish(c) \/ Wakes(c)
  \/ \E c \in Client, r \in Run : Waits(c, r)
  \/ Dequeue \/ notify

LEMMA Effects == TypeOK /\ [Next]_vars => Effect
<1> SUFFICES ASSUME TypeOK, [Next]_vars PROVE Effect
  OBVIOUS
<1> USE DEF Effect, control, execVars, runVars, queueVars, graphVars
<1>1. CASE UNCHANGED vars
  BY <1>1 DEF vars
<1>2. ASSUME NEW c \in Client, Call(c) PROVE Effect
  <2>1. ASSUME NEW e \in Exec, NEW i, NEW o,
               \/ RefuseBusy(c, e) \/ RefuseIndex(c, e) \/ setInput(c, e, i) \/ setOutput(c, e, o)
               \/ RefuseStart(c, e) \/ freeExecution(c, e)
        PROVE  UNCHANGED control
    BY <2>1 DEF RefuseBusy, RefuseIndex, setInput, setOutput, RefuseStart, freeExecution
  <2>2. ASSUME NEW e \in Exec, NEW r \in Run, startCompute(c, e, r) \/ compute(c, e, r)
        PROVE  Starts(c, e, r)
    BY <2>2 DEF startCompute, compute, NewRun, Enter, Starts
  <2>3. ASSUME NEW r \in Run, callWait(c, r) PROVE Waits(c, r)
    BY <2>3 DEF callWait, Goto, Waits
  <2> QED
    BY <1>2, <2>1, <2>2, <2>3 DEF Call
<1>3. ASSUME NEW t \in Thread, fillInput(t) \/ execute(t) \/ fillOutput(t)
      PROVE  \E label \in PC : Goes(t, label)
  BY <1>3 DEF fillInput, execute, fillOutput, Goto, Goes, PC
<1>4. ASSUME NEW c \in Client, ClientStep(c) PROVE Effect
  <2>1. prepareModel(c) => \E label \in PC : Goes(c, label)
    BY ExecutionAssumption DEF prepareModel, Goes, PC
  <2>2. prepareModelFails(c) \/ computeReturns(c) => Leaves(c)
    BY DEF prepareModelFails, computeReturns, Leave, Leaves, InCall
  <2>3. Enqueue(c) => Leaves(c)
    BY DEF Enqueue, Leave, Leaves, InCall
  <2>4. wait(c) => Wakes(c)
    BY DEF wait, Goto, Wakes
  <2>5. c \in Thread
    BY DEF Thread
  <2> QED
    BY <1>3, <1>4, <2>1, <2>2, <2>3, <2>4, <2>5 DEF ClientStep
<1>5. CASE WorkStep
  <2>1. Work \in Thread
    BY DEF Thread
  <2> QED
    BY <1>3, <1>5, <2>1 DEF WorkStep
<1> QED
  BY <1>1, <1>2, <1>4, <1>5 DEF Next

-----------------------------------------------------------------------------
(* The types                                                               *)

LEMMA NoneIsNone == /\ None \notin Exec /\ None \notin Run /\ None \notin Data
                    /\ None \notin Client /\ None # Work
                    /\ Work \notin Client /\ Client \subseteq Thread /\ Work \in Thread
  BY ExecutionAssumption DEF Thread

LEMMA TypeStep == TypeOK /\ Calls /\ Worker /\ [Next]_vars => TypeOK'
<1> SUFFICES ASSUME TypeOK, Calls, Worker, [Next]_vars PROVE TypeOK'
  OBVIOUS
<1> USE NoneIsNone DEF execVars, runVars, queueVars, graphVars, prepared
<1>1. CASE UNCHANGED vars
  BY <1>1 DEF TypeOK, vars
<1>2. ASSUME NEW c \in Client, Call(c) PROVE TypeOK'
  <2>1. ASSUME NEW e \in Exec, RefuseBusy(c, e) \/ RefuseIndex(c, e) \/ RefuseStart(c, e) PROVE TypeOK'
    BY <2>1 DEF TypeOK, RefuseBusy, RefuseIndex, RefuseStart, Return, Code
  <2>2. ASSUME NEW e \in Exec, NEW i \in Input, setInput(c, e, i) PROVE TypeOK'
    BY <2>2 DEF TypeOK, setInput, Return, Code
  <2>3. ASSUME NEW e \in Exec, NEW o \in Output, setOutput(c, e, o) PROVE TypeOK'
    BY <2>3 DEF TypeOK, setOutput, Return, Code
  <2>4. ASSUME NEW e \in Exec, NEW r \in Run, startCompute(c, e, r) \/ compute(c, e, r) PROVE TypeOK'
    <3>1. \E label \in PC : pc' = [pc EXCEPT ![c] = label]
      BY <2>4 DEF startCompute, compute, PC
    <3>3. mutex_' = [mutex_ EXCEPT ![e] = c]
      BY <2>4 DEF startCompute, compute
    <3>4. mutex_' \in [Exec -> Client \cup {None}]
      BY <3>3 DEF TypeOK
    <3>5. pc' \in [Thread -> PC]
      BY <3>1 DEF TypeOK
    <3>2. /\ cur' \in [Thread -> Run \cup {None}]
          /\ owner' \in [Run -> Exec \cup {None}]
          /\ want' \in [Run -> Data \cup {None}]
          /\ got' = got
      <4>1. Offered(e) \in Data \cup {None}
        BY DEF Offered
      <4>2. NewRun(c, e, r)
        BY <2>4 DEF startCompute, compute
      <4>3. want' = [want EXCEPT ![r] = Offered(e)]
        BY <4>2 DEF NewRun
      <4>4. want' \in [Run -> Data \cup {None}]
        BY <4>1, <4>3 DEF TypeOK
      <4>5. cur' = [cur EXCEPT ![c] = r] /\ owner' = [owner EXCEPT ![r] = e] /\ got' = got
        BY <4>2 DEF NewRun
      <4> QED
        BY <4>4, <4>5 DEF TypeOK
    <3> QED
      BY <2>4, <3>2, <3>4, <3>5 DEF TypeOK, startCompute, compute
  <2>5. ASSUME NEW e \in Exec, freeExecution(c, e) PROVE TypeOK'
    BY <2>5 DEF TypeOK, freeExecution
  <2>6. ASSUME NEW r \in Run, callWait(c, r) PROVE TypeOK'
    BY <2>6 DEF TypeOK, callWait, Goto, PC
  <2> QED
    BY <1>2, <2>1, <2>2, <2>3, <2>4, <2>5, <2>6 DEF Call
<1>3. ASSUME NEW t \in Thread, fillInput(t) \/ execute(t) \/ fillOutput(t) PROVE TypeOK'
  <2>1. CASE fillInput(t)
    <3>1. graph_in' \in Data \cup {None} /\ pc' \in [Thread -> PC]
      BY <2>1 DEF TypeOK, fillInput, Written, Goto, PC
    <3> QED
      BY <2>1, <3>1 DEF TypeOK, fillInput
  <2>2. CASE execute(t)
    BY <2>2 DEF TypeOK, execute, Goto, PC, Result
  <2>3. CASE fillOutput(t)
    <3>1. \E label \in PC : pc' = [pc EXCEPT ![t] = label]
      BY <2>3 DEF fillOutput, Goto, PC
    <3>2. pc' \in [Thread -> PC]
      BY <3>1 DEF TypeOK
    <3>3. got' = got \/ got' = [got EXCEPT ![cur[t]] = graph_out]
      BY <2>3 DEF fillOutput
    <3>4. got' \in [Run -> Result \cup {None}]
      BY <3>3 DEF TypeOK
    <3> QED
      BY <2>3, <3>2, <3>4 DEF TypeOK, fillOutput
  <2> QED
    BY <1>3, <2>1, <2>2, <2>3
<1>4. ASSUME NEW c \in Client, ClientStep(c) PROVE TypeOK'
  <2>1. CASE prepareModel(c)
    <3>1. \E label \in PC : pc' = [pc EXCEPT ![c] = label]
      BY <2>1 DEF prepareModel, PC
    <3>2. pc' \in [Thread -> PC]
      BY <3>1 DEF TypeOK
    <3> QED
      BY <2>1, <3>2 DEF TypeOK, prepareModel
  <2>2. CASE prepareModelFails(c) \/ computeReturns(c)
    <3>1. Leave(c, "OP_FAILED") \/ Leave(c, "NO_ERROR")
      BY <2>2 DEF prepareModelFails, computeReturns
    <3>2. mutex_' \in [Exec -> Client \cup {None}] /\ cur' \in [Thread -> Run \cup {None}]
      BY <3>1 DEF TypeOK, Leave
    <3>3. pc' \in [Thread -> PC]
      BY <3>1 DEF TypeOK, Leave, PC
    <3>4. ret' \in Code
      BY <3>1 DEF Leave, Return, Code
    <3> QED
      BY <2>2, <3>2, <3>3, <3>4 DEF TypeOK, prepareModelFails, computeReturns
  <2>3. CASE Publish(c)
    <3>1. cur[c] \in Run
      BY <2>3 DEF TypeOK, Calls, Publish
    <3> QED
      BY <2>3, <3>1 DEF TypeOK, Publish, PC, EventState
  <2>4. CASE Enqueue(c)
    <3>1. cur[c] \in Run
      BY <2>4 DEF TypeOK, Calls, Enqueue
    <3>2. /\ unsubmitted' = unsubmitted \ {cur[c]}
          /\ pending' = Append(pending, cur[c])
          /\ UNCHANGED <<running, finished>>
      BY <2>4 DEF Enqueue, Queue!Submit
    <3>3. pending' \in Seq(Run)
      BY <3>1, <3>2 DEF TypeOK
    <3> QED
      BY <2>4, <3>1, <3>2, <3>3 DEF TypeOK, Enqueue, Leave, Return, Code, PC
  <2>5. CASE wait(c)
    <3>1. ret' \in Code
      BY <2>5 DEF wait, Return, WaitCode, Code
    <3> QED
      BY <2>5, <3>1 DEF TypeOK, wait, Goto, PC
  <2> QED
    BY <1>3, <1>4, <2>1, <2>2, <2>3, <2>4, <2>5 DEF ClientStep
<1>5. CASE WorkStep
  <2>1. CASE Dequeue
    <3>1. pending # <<>> /\ pending \in Seq(Run)
      BY <2>1 DEF TypeOK, Dequeue, Queue!Begin
    <3>2. Head(pending) \in Run /\ Tail(pending) \in Seq(Run)
      BY <3>1
    <3> QED
      BY <2>1, <3>2 DEF TypeOK, Dequeue, Queue!Begin, PC
  <2>2. CASE notify
    <3>1. running \in Run
      BY <2>2 DEF TypeOK, notify, Queue!Finish
    <3>2. finished' \in Seq(Run)
      BY <2>2, <3>1 DEF TypeOK, notify, Queue!Finish
    <3>3. state_' \in [Run -> EventState]
      BY <2>2 DEF TypeOK, notify, EventState
    <3> QED
      BY <2>2, <3>2, <3>3 DEF TypeOK, notify, Queue!Finish, Goto, PC
  <2> QED
    BY <1>3, <1>5, <2>1, <2>2 DEF WorkStep
<1> QED
  BY <1>1, <1>2, <1>4, <1>5 DEF Next

-----------------------------------------------------------------------------
(* The rest of the invariant                                               *)

Control == Calls /\ Worker /\ Once /\ Protected

LEMMA StepUnchanged == Control /\ UNCHANGED control => Control'
  BY DEF control, queueVars, Control, Calls, InCall, Worker, Once, Protected, Queued, isRunning

LEMMA StepStarts ==
  ASSUME TypeOK, Control, NEW c \in Client, NEW e \in Exec, NEW r \in Run, Starts(c, e, r)
  PROVE  Control'
<1> USE NoneIsNone DEF queueVars
<1>1. /\ mutex_[e] = None /\ pc[c] = "ready" /\ ~isRunning(e) /\ owner[r] = None
      /\ state_[r] = "IDLE" /\ r \in unsubmitted
  BY DEF Starts, Control, Protected
<1>2. /\ owner'[r] = e /\ \A s \in Run : s # r => owner'[s] = owner[s]
      /\ mutex_'[e] = c /\ \A x \in Exec : x # e => mutex_'[x] = mutex_[x]
      /\ cur'[c] = r /\ \A d \in Client : d # c => cur'[d] = cur[d]
      /\ cur'[Work] = cur[Work] /\ pc'[Work] = pc[Work]
      /\ pc'[c] \in {"prepare", "prepare_sync"} /\ \A d \in Client : d # c => pc'[d] = pc[d]
      /\ UNCHANGED <<event_, state_, unsubmitted, pending, running>>
  BY DEF Starts, TypeOK
<1>3. ASSUME NEW d \in Client, d # c, InCall(d)
      PROVE  /\ cur[d] \in Run /\ cur[d] # r /\ owner[cur[d]] \in Exec
             /\ owner[cur[d]] # e /\ owner'[cur[d]] = owner[cur[d]]
  BY <1>1, <1>2, <1>3 DEF Control, Calls, TypeOK, InCall
<1>4. Calls'
  BY <1>1, <1>2, <1>3 DEF Control, Calls, InCall
<1>5. Worker' /\ Once'
  BY <1>1, <1>2 DEF Control, Worker, Once
<1>6. Protected'
  <2>1. \A s \in Run : owner'[s] = None => state_'[s] = "IDLE" /\ s \in unsubmitted'
    BY <1>1, <1>2 DEF Control, Protected
  <2>2. \A s \in Run : Queued(s)' =>
          owner'[s] # None /\ state_'[s] = "IN_PROCESS" /\ event_'[owner'[s]] = s
    BY <1>1, <1>2 DEF Control, Protected, Queued
  <2>3. \A x \in Exec : event_'[x] # None => owner'[event_'[x]] = x
    BY <1>1, <1>2 DEF Control, Protected, TypeOK
  <2>4. ASSUME NEW d \in Client, InCall(d)'
        PROVE  /\ cur'[d] \in unsubmitted'
               /\ pc'[d] = "enqueue" => state_'[cur'[d]] = "IN_PROCESS" /\ event_'[owner'[cur'[d]]] = cur'[d]
               /\ pc'[d] # "enqueue" => state_'[cur'[d]] = "IDLE" /\ ~isRunning(owner[cur[d]])'
    <3>1. CASE d = c
      BY <3>1, <1>1, <1>2 DEF isRunning
    <3>2. CASE d # c
      BY <3>2, <1>2, <1>3, <2>4 DEF Control, Protected, InCall, isRunning
    <3> QED
      BY <3>1, <3>2
  <2> QED
    BY <2>1, <2>2, <2>3, <2>4 DEF Protected
<1> QED
  BY <1>4, <1>5, <1>6 DEF Control

LEMMA StepGoes ==
  ASSUME TypeOK, Control, NEW t \in Thread, NEW label \in PC, Goes(t, label)
  PROVE  Control'
<1> USE NoneIsNone DEF queueVars
<1>1. /\ pc[t] \notin {"ready", "waiting", "enqueue"}
      /\ pc'[t] = label /\ \A u \in Thread : u # t => pc'[u] = pc[u]
      /\ label \in {"publish", "fill", "run", "read", "done", "failed"}
      /\ label = "publish" => t # Work
      /\ UNCHANGED <<mutex_, event_, state_, cur, unsubmitted, pending, running, owner>>
  BY DEF Goes, TypeOK
<1>2. \A c \in Client : /\ InCall(c)' <=> InCall(c)
                        /\ pc'[c] = "ready" <=> pc[c] = "ready"
                        /\ pc'[c] = "enqueue" <=> pc[c] = "enqueue"
  BY <1>1 DEF InCall
<1>3. Calls'
  BY <1>1, <1>2 DEF Control, Calls
<1>4. Worker'
  BY <1>1 DEF Control, Worker
<1>5. Once' /\ Protected'
  BY <1>1, <1>2 DEF Control, Once, Protected, Queued, isRunning
<1> QED
  BY <1>3, <1>4, <1>5 DEF Control

LEMMA StepWaits ==
  ASSUME TypeOK, Control, NEW c \in Client, NEW r \in Run, Waits(c, r) \/ Wakes(c)
  PROVE  Control'
<1> USE NoneIsNone DEF queueVars
<1>1. /\ pc[c] \in {"ready", "waiting"}
      /\ \/ pc'[c] = "ready" /\ cur'[c] = None
         \/ pc'[c] = "waiting" /\ cur'[c] = r
      /\ \A u \in Thread : u # c => pc'[u] = pc[u] /\ cur'[u] = cur[u]
      /\ UNCHANGED <<mutex_, event_, state_, unsubmitted, pending, running, owner>>
  BY DEF Waits, Wakes, TypeOK
<1>2. \A d \in Client : InCall(d)' => InCall(d) /\ d # c
  BY <1>1 DEF InCall
<1>3. Calls'
  BY <1>1, <1>2 DEF Control, Calls
<1>4. Worker'
  BY <1>1 DEF Control, Worker
<1>5. Once' /\ Protected'
  BY <1>1, <1>2 DEF Control, Once, Protected, Queued, isRunning
<1> QED
  BY <1>3, <1>4, <1>5 DEF Control

\* No two clients are inside a call on one execution.
LEMMA Exclusive ==
  ASSUME TypeOK, Calls, NEW c \in Client, NEW d \in Client, InCall(c), InCall(d), c # d
  PROVE  /\ cur[c] \in Run /\ cur[d] \in Run /\ owner[cur[c]] \in Exec
         /\ owner[cur[c]] # owner[cur[d]] /\ cur[c] # cur[d]
  BY NoneIsNone DEF TypeOK, Calls, InCall

LEMMA StepPublish ==
  ASSUME TypeOK, Control, NEW c \in Client, Publish(c)
  PROVE  Control'
<1> USE NoneIsNone DEF queueVars
<1> DEFINE r == cur[c]  e == owner[cur[c]]
<1>1. /\ InCall(c) /\ r \in Run /\ e \in Exec /\ r \in unsubmitted
      /\ ~isRunning(e)
  BY DEF Publish, InCall, Control, Calls, Protected, TypeOK
<1>2. /\ event_'[e] = r /\ \A x \in Exec : x # e => event_'[x] = event_[x]
      /\ state_'[r] = "IN_PROCESS" /\ \A s \in Run : s # r => state_'[s] = state_[s]
      /\ pc'[c] = "enqueue" /\ \A u \in Thread : u # c => pc'[u] = pc[u]
      /\ UNCHANGED <<mutex_, cur, unsubmitted, pending, running, owner>>
  <2>1. event_' = [event_ EXCEPT ![e] = r] /\ event_ \in [Exec -> Run \cup {None}]
    BY DEF Publish, TypeOK
  <2>2. state_' = [state_ EXCEPT ![r] = "IN_PROCESS"] /\ state_ \in [Run -> EventState]
    BY DEF Publish, TypeOK
  <2>3. pc' = [pc EXCEPT ![c] = "enqueue"] /\ pc \in [Thread -> PC]
    BY DEF Publish, TypeOK
  <2>4. UNCHANGED <<mutex_, cur, unsubmitted, pending, running, owner>>
    BY DEF Publish, execVars, runVars
  <2>5. event_'[e] = r /\ \A x \in Exec : x # e => event_'[x] = event_[x]
    BY <1>1, <2>1
  <2>6. state_'[r] = "IN_PROCESS" /\ \A s \in Run : s # r => state_'[s] = state_[s]
    BY <1>1, <2>2
  <2>7. pc'[c] = "enqueue" /\ \A u \in Thread : u # c => pc'[u] = pc[u]
    BY <2>3
  <2> QED
    BY <2>4, <2>5, <2>6, <2>7
<1>3. Calls'
  BY <1>1, <1>2 DEF Control, Calls, InCall
<1>5. Worker'
  BY <1>2 DEF Control, Worker
<1>6. Once'
  BY <1>2 DEF Control, Once
<1>4. Protected'
  <2>1. \A s \in Run : owner'[s] = None => state_'[s] = "IDLE" /\ s \in unsubmitted'
    BY <1>1, <1>2 DEF Control, Protected
  <2>2. ASSUME NEW s \in Run, Queued(s)'
        PROVE  owner'[s] # None /\ state_'[s] = "IN_PROCESS" /\ event_'[owner'[s]] = s
    <3>1. Queued(s) /\ s # r
      BY <1>1, <1>2, <2>2 DEF Queued, Control, Once
    <3>2. owner[s] # None /\ state_[s] = "IN_PROCESS" /\ event_[owner[s]] = s
      BY <3>1 DEF Control, Protected
    <3>3. owner[s] # e /\ owner[s] \in Exec
      BY <3>2, <1>1 DEF isRunning, TypeOK
    <3> QED
      BY <1>2, <3>1, <3>2, <3>3
  <2>3. \A x \in Exec : event_'[x] # None => owner'[event_'[x]] = x
    BY <1>1, <1>2 DEF Control, Protected
  <2>4. ASSUME NEW d \in Client, InCall(d)'
        PROVE  /\ cur'[d] \in unsubmitted'
               /\ pc'[d] = "enqueue" => state_'[cur'[d]] = "IN_PROCESS" /\ event_'[owner'[cur'[d]]] = cur'[d]
               /\ pc'[d] # "enqueue" => state_'[cur'[d]] = "IDLE" /\ ~isRunning(owner[cur[d]])'
    <3>1. CASE d = c
      BY <3>1, <1>1, <1>2
    <3>2. CASE d # c
      <4>1. InCall(d)
        BY <1>2, <2>4, <3>2 DEF InCall
      <4>2. cur[d] \in Run /\ cur[d] # r /\ owner[cur[d]] \in Exec /\ owner[cur[d]] # e
        BY <1>1, <3>2, <4>1, Exclusive DEF Control
      <4>3. event_[owner[cur[d]]] # r
        BY <1>1, <4>2 DEF Control, Protected
      <4>4. isRunning(owner[cur[d]])' <=> isRunning(owner[cur[d]])
        BY <1>2, <4>2, <4>3 DEF isRunning, TypeOK
      <4> QED
        BY <1>2, <3>2, <4>1, <4>2, <4>4 DEF Control, Protected
    <3> QED
      BY <3>1, <3>2
  <2> QED
    BY <2>1, <2>2, <2>3, <2>4 DEF Protected
<1> QED
  BY <1>3, <1>4, <1>5, <1>6 DEF Control

LEMMA StepLeaves ==
  ASSUME TypeOK, Control, NEW c \in Client, Leaves(c)
  PROVE  Control'
<1> USE NoneIsNone DEF queueVars
<1> DEFINE r == cur[c]  e == owner[cur[c]]
<1>1. InCall(c) /\ r \in Run /\ e \in Exec /\ r \in unsubmitted
  BY DEF Leaves, InCall, Control, Calls, Protected, TypeOK
<1>2. /\ mutex_'[e] = None /\ \A x \in Exec : x # e => mutex_'[x] = mutex_[x]
      /\ cur'[c] = None /\ pc'[c] = "ready"
      /\ \A u \in Thread : u # c => pc'[u] = pc[u] /\ cur'[u] = cur[u]
      /\ UNCHANGED <<event_, state_, owner, running>>
  BY <1>1 DEF Leaves, TypeOK, Queue!Submit
<1>3. \/ unsubmitted' = unsubmitted /\ pending' = pending
      \/ pc[c] = "enqueue" /\ unsubmitted' = unsubmitted \ {r} /\ pending' = Append(pending, r)
  BY DEF Leaves, Queue!Submit
<1>4. ASSUME NEW d \in Client, InCall(d)'
      PROVE  /\ d # c /\ InCall(d) /\ pc'[d] = pc[d] /\ cur'[d] = cur[d]
             /\ cur[d] \in Run /\ cur[d] # r /\ owner[cur[d]] \in Exec /\ owner[cur[d]] # e
  BY <1>1, <1>2, <1>4, Exclusive DEF InCall, Control
<1>5. Calls'
  <2>1. \A d \in Client : pc'[d] = "ready" <=> cur'[d] = None
    BY <1>2 DEF Control, Calls
  <2>2. \A d \in Client : InCall(d)' => owner'[cur'[d]] # None /\ mutex_'[owner'[cur'[d]]] = d
    BY <1>2, <1>4 DEF Control, Calls
  <2> QED
    BY <2>1, <2>2 DEF Calls
<1>6. Worker'
  BY <1>2 DEF Control, Worker
<1>7. \A k \in 1..Len(pending') :
        \/ k \in 1..Len(pending) /\ pending'[k] = pending[k]
        \/ k = Len(pending) + 1 /\ pending'[k] = r /\ pc[c] = "enqueue" /\ unsubmitted' = unsubmitted \ {r}
  BY <1>1, <1>3 DEF TypeOK
<1>8. unsubmitted' \subseteq unsubmitted
  BY <1>3
<1>9. Once'
  <2>1. \A k \in 1..Len(pending) : pending[k] # r
    BY <1>1 DEF Control, Once
  <2>2. Len(pending) \in Nat
    BY DEF TypeOK
  <2>3. \A j, k \in 1..Len(pending') : pending'[j] = pending'[k] => j = k
    BY <1>7, <2>1, <2>2 DEF Control, Once
  <2>4. \A k \in 1..Len(pending') : pending'[k] \notin unsubmitted' /\ pending'[k] # running'
    BY <1>1, <1>2, <1>7, <1>8 DEF Control, Once
  <2>5. running' \notin unsubmitted'
    BY <1>2, <1>8 DEF Control, Once
  <2> QED
    BY <2>3, <2>4, <2>5 DEF Once
<1>10. Protected'
  <2>1. \A s \in Run : owner'[s] = None => state_'[s] = "IDLE" /\ s \in unsubmitted'
    BY <1>1, <1>2, <1>3 DEF Control, Protected
  <2>2. ASSUME NEW s \in Run, Queued(s)'
        PROVE  owner'[s] # None /\ state_'[s] = "IN_PROCESS" /\ event_'[owner'[s]] = s
    <3>1. Queued(s) \/ (s = r /\ pc[c] = "enqueue")
      <4>1. CASE s = running
        BY <4>1 DEF Queued
      <4>2. CASE s # running
        <5>1. PICK k \in 1..Len(pending') : pending'[k] = s
          BY <1>2, <2>2, <4>2 DEF Queued
        <5> QED
          BY <1>7, <5>1 DEF Queued
      <4> QED
        BY <4>1, <4>2
    <3>2. CASE Queued(s)
      BY <1>2, <3>2 DEF Control, Protected
    <3>3. CASE s = r /\ pc[c] = "enqueue"
      <4>1. state_[r] = "IN_PROCESS" /\ event_[e] = r
        BY <1>1, <3>3 DEF Control, Protected
      <4>2. owner'[r] # None
        BY <1>1, <1>2
      <4> QED
        BY <1>2, <3>3, <4>1, <4>2
    <3> QED
      BY <3>1, <3>2, <3>3
  <2>3. \A x \in Exec : event_'[x] # None => owner'[event_'[x]] = x
    BY <1>2 DEF Control, Protected
  <2>4. ASSUME NEW d \in Client, InCall(d)'
        PROVE  /\ cur'[d] \in unsubmitted'
               /\ pc'[d] = "enqueue" => state_'[cur'[d]] = "IN_PROCESS" /\ event_'[owner'[cur'[d]]] = cur'[d]
               /\ pc'[d] # "enqueue" => state_'[cur'[d]] = "IDLE" /\ ~isRunning(owner[cur[d]])'
    <3>1. isRunning(owner[cur[d]])' <=> isRunning(owner[cur[d]])
      BY <1>2, <1>4, <2>4 DEF isRunning
    <3>2. cur[d] \in unsubmitted'
      BY <1>3, <1>4, <2>4 DEF Control, Protected
    <3> QED
      BY <1>2, <1>4, <2>4, <3>1, <3>2 DEF Control, Protected
  <2> QED
    BY <2>1, <2>2, <2>3, <2>4 DEF Protected
<1> QED
  BY <1>5, <1>6, <1>9, <1>10 DEF Control

LEMMA StepDequeue ==
  ASSUME TypeOK, Control, Dequeue
  PROVE  Control'
<1> USE NoneIsNone DEF queueVars, execVars, runVars
<1> DEFINE r == Head(pending)
<1>1. /\ pending # <<>> /\ pending \in Seq(Run) /\ Len(pending) \in Nat
      /\ running = None /\ running' = r /\ pending' = Tail(pending)
      /\ UNCHANGED <<mutex_, event_, state_, owner, unsubmitted>>
  BY DEF Dequeue, Queue!Begin, TypeOK
<1>2. /\ r \in Run /\ r = pending[1] /\ 1 \in 1..Len(pending)
      /\ Len(pending') = Len(pending) - 1
      /\ \A k \in 1..Len(pending') : k + 1 \in 1..Len(pending) /\ pending'[k] = pending[k + 1]
  BY <1>1
<1>3. /\ cur'[Work] = r /\ pc'[Work] = "fill"
      /\ \A c \in Client : cur'[c] = cur[c] /\ pc'[c] = pc[c]
  BY DEF Dequeue, TypeOK
<1>4. Calls'
  BY <1>1, <1>3 DEF Control, Calls, InCall
<1>5. Worker'
  BY <1>1, <1>2, <1>3 DEF Worker
<1>6. Once'
  <2>1. \A j, k \in 1..Len(pending') : pending'[j] = pending'[k] => j = k
    BY <1>1, <1>2 DEF Control, Once
  <2>2. \A k \in 1..Len(pending') : pending'[k] \notin unsubmitted' /\ pending'[k] # running'
    BY <1>1, <1>2 DEF Control, Once
  <2>3. running' \notin unsubmitted'
    BY <1>1, <1>2 DEF Control, Once
  <2> QED
    BY <2>1, <2>2, <2>3 DEF Once
<1>7. \A s \in Run : Queued(s)' => Queued(s)
  BY <1>1, <1>2 DEF Queued
<1>8. Protected'
  BY <1>1, <1>3, <1>7 DEF Control, Protected, InCall, isRunning
<1> QED
  BY <1>4, <1>5, <1>6, <1>8 DEF Control

LEMMA StepNotify ==
  ASSUME TypeOK, Control, notify
  PROVE  Control'
<1> USE NoneIsNone DEF queueVars, execVars, runVars
<1> DEFINE r == running
<1>1. /\ r \in Run /\ cur[Work] = r /\ running' = None
      /\ UNCHANGED <<mutex_, event_, owner, unsubmitted, pending>>
  BY DEF notify, Queue!Finish, TypeOK, Control, Worker
<1>2. /\ state_'[r] \in {"COMPLETED", "ERROR_OCCURED"}
      /\ \A s \in Run : s # r => state_'[s] = state_[s]
      /\ cur'[Work] = None /\ pc'[Work] = "ready"
      /\ \A c \in Client : cur'[c] = cur[c] /\ pc'[c] = pc[c]
  BY <1>1 DEF notify, Goto, TypeOK
<1>3. Calls' /\ Worker' /\ Once'
  <2>1. \A k \in 1..Len(pending) : pending[k] \in Run
    BY DEF TypeOK
  <2>2. None \notin unsubmitted
    BY DEF TypeOK
  <2> QED
    BY <1>1, <1>2, <2>1, <2>2 DEF Control, Calls, InCall, Worker, Once
<1>4. \A s \in Run : Queued(s)' => Queued(s) /\ s # r
  BY <1>1 DEF Queued, Control, Once
<1>5. Protected'
  <2>1. \A s \in Run : owner'[s] = None => state_'[s] = "IDLE" /\ s \in unsubmitted'
    BY <1>1, <1>2 DEF Control, Protected, Queued
  <2>2. \A s \in Run : Queued(s)' =>
          owner'[s] # None /\ state_'[s] = "IN_PROCESS" /\ event_'[owner'[s]] = s
    BY <1>1, <1>2, <1>4 DEF Control, Protected
  <2>3. \A x \in Exec : event_'[x] # None => owner'[event_'[x]] = x
    BY <1>1 DEF Control, Protected
  <2>4. ASSUME NEW d \in Client, InCall(d)'
        PROVE  /\ cur'[d] \in unsubmitted'
               /\ pc'[d] = "enqueue" => state_'[cur'[d]] = "IN_PROCESS" /\ event_'[owner'[cur'[d]]] = cur'[d]
               /\ pc'[d] # "enqueue" => state_'[cur'[d]] = "IDLE" /\ ~isRunning(owner[cur[d]])'
    <3>1. InCall(d) /\ cur[d] \in unsubmitted /\ cur[d] # r /\ cur[d] \in Run
      BY <1>1, <1>2, <2>4 DEF InCall, Control, Protected, Once, TypeOK
    <3>2. owner[cur[d]] \in Exec
      BY <3>1 DEF Control, Calls, TypeOK
    <3>3. isRunning(owner[cur[d]])' => isRunning(owner[cur[d]])
      BY <1>1, <1>2, <3>2 DEF isRunning, TypeOK
    <3> QED
      BY <1>1, <1>2, <3>1, <3>3 DEF Control, Protected
  <2> QED
    BY <2>1, <2>2, <2>3, <2>4 DEF Protected
<1> QED
  BY <1>3, <1>5 DEF Control

LEMMA Inductive == IInv /\ [Next]_vars => IInv'
<1> SUFFICES ASSUME IInv, [Next]_vars PROVE IInv'
  OBVIOUS
<1>1. TypeOK /\ Control
  BY DEF IInv, Control
<1>2. TypeOK'
  BY <1>1, TypeStep DEF Control
<1>3. Effect
  BY <1>1, Effects
<1>4. Control'
  <2>1. ASSUME NEW c \in Client, Leaves(c) \/ Publish(c) PROVE Control'
    BY <1>1, <2>1, StepLeaves, StepPublish
  <2>2. ASSUME NEW c \in Client, NEW r \in Run, Waits(c, r) PROVE Control'
    BY <1>1, <2>2, StepWaits
  <2>3. ASSUME NEW c \in Client, Wakes(c) PROVE Control'
    <3>1. cur[c] \in Run
      BY <1>1, <2>3, NoneIsNone DEF Wakes, Control, Calls, TypeOK
    <3> QED
      BY <1>1, <2>3, <3>1, StepWaits
  <2>4. ASSUME NEW c \in Client, NEW e \in Exec, NEW r \in Run, Starts(c, e, r) PROVE Control'
    BY <1>1, <2>4, StepStarts
  <2>5. ASSUME NEW t \in Thread, NEW label \in PC, Goes(t, label) PROVE Control'
    BY <1>1, <2>5, StepGoes
  <2>6. Dequeue \/ notify => Control'
    BY <1>1, StepDequeue, StepNotify
  <2>7. UNCHANGED control => Control'
    BY <1>1, StepUnchanged
  <2> QED
    BY <1>3, <2>1, <2>2, <2>3, <2>4, <2>5, <2>6, <2>7 DEF Effect
<1> QED
  BY <1>2, <1>4 DEF IInv, Control

LEMMA Initially == Init => IInv
<1> SUFFICES ASSUME Init PROVE IInv
  OBVIOUS
<1> USE NoneIsNone DEF Init, Queue!Init
<1>1. TypeOK
  <2>1. /\ input \in [Exec -> Input] /\ output \in [Exec -> Output]
        /\ state_ \in [Run -> EventState] /\ ret \in Code
    BY DEF Input, Output, EventState, Code
  <2>2. pc \in [Thread -> PC]
    BY DEF PC
  <2>3. pending \in Seq(Run) /\ finished \in Seq(Run) /\ unsubmitted \subseteq Run /\ running \in Run \cup {None}
    OBVIOUS
  <2>4. /\ mutex_ \in [Exec -> Client \cup {None}] /\ event_ \in [Exec -> Run \cup {None}]
        /\ freed \subseteq Exec /\ is_null \in BOOLEAN
        /\ built \in BOOLEAN /\ has_input \in BOOLEAN /\ cut \in BOOLEAN
    OBVIOUS
  <2>5. /\ graph_in \in Data \cup {None} /\ graph_out \in Result \cup {None}
        /\ cur \in [Thread -> Run \cup {None}] /\ owner \in [Run -> Exec \cup {None}]
        /\ want \in [Run -> Data \cup {None}] /\ got \in [Run -> Result \cup {None}]
    OBVIOUS
  <2> HIDE DEF Init, Queue!Init
  <2> QED
    BY <2>1, <2>2, <2>3, <2>4, <2>5 DEF TypeOK
<1>2. Calls /\ Worker
  BY DEF Calls, Worker, InCall
<1>3. Once
  BY DEF Once
<1>4. Protected
  BY DEF Protected, Queued, InCall, isRunning
<1> QED
  BY <1>1, <1>2, <1>3, <1>4 DEF IInv

THEOREM Invariance == Spec => []IInv
<1> QED
  BY Initially, Inductive, PTL DEF Spec

-----------------------------------------------------------------------------
(* The theorems                                                            *)

\* The state keeps its types, whatever the clients call and however the steps
\* of startCompute, compute and the work thread interleave.
THEOREM TypeOKThm == Spec => []TypeOK
<1>1. IInv => TypeOK
  BY DEF IInv
<1> QED
  BY <1>1, Invariance, PTL

LEMMA ActiveIsProtected ==
  ASSUME IInv, NEW r \in Active
  PROVE  /\ r \in Run /\ owner[r] \in Exec
         /\ \/ Queued(r) /\ isRunning(owner[r]) /\ event_[owner[r]] = r
            \/ \E c \in Client : InCall(c) /\ cur[c] = r /\ mutex_[owner[r]] = c
<1> USE NoneIsNone
<1>1. r \in Run
  BY DEF Active
<1>2. ASSUME Queued(r)
      PROVE  owner[r] \in Exec /\ isRunning(owner[r]) /\ event_[owner[r]] = r
  BY <1>1, <1>2 DEF IInv, TypeOK, Protected, isRunning
<1>3. ASSUME NEW c \in Client, cur[c] = r, pc[c] # "waiting"
      PROVE  owner[r] \in Exec /\ InCall(c) /\ mutex_[owner[r]] = c
  BY <1>1, <1>3 DEF IInv, TypeOK, Calls, InCall
<1>4. CASE Queued(r)
  BY <1>1, <1>2, <1>4
<1>5. CASE \E c \in Client : cur[c] = r /\ pc[c] # "waiting"
  BY <1>1, <1>3, <1>5
<1>6. pending \in Seq(Run) /\ DOMAIN pending = 1..Len(pending)
  BY DEF IInv, TypeOK
<1>7. Queued(r) \/ \E c \in Client : cur[c] = r /\ pc[c] # "waiting"
  BY <1>6 DEF Active, Queued
<1> QED
  BY <1>4, <1>5, <1>7

LEMMA ActiveOwned == IInv => \A r \in Active : owner[r] \in Exec
  BY ActiveIsProtected

LEMMA ActiveOwnedNext == IInv' => (\A r \in Active : owner[r] \in Exec)'
  BY ActiveOwned, PTL

\* No two evaluations of an execution are under way at once: mutex_, event_ and
\* the state of the event exclude it together.
THEOREM OneEvaluationPerExecutionThm == Spec => []OneEvaluationPerExecution
<1>1. ASSUME IInv, NEW r \in Active, NEW s \in Active, owner[r] = owner[s] PROVE r = s
  <2>1. ASSUME NEW c \in Client, InCall(c), NEW x \in Active, Queued(x), isRunning(owner[x]),
               event_[owner[x]] = x, owner[cur[c]] = owner[x]
        PROVE  cur[c] = x
    BY <1>1, <2>1 DEF IInv, Protected
  <2> QED
    BY <1>1, <2>1, ActiveIsProtected
<1>2. IInv => OneEvaluationPerExecution
  BY <1>1 DEF OneEvaluationPerExecution
<1> QED
  BY <1>2, Invariance, PTL

LEMMA BuffersStep ==
  ASSUME IInv, [Next]_vars, NEW r \in Active
  PROVE  input'[owner[r]] = input[owner[r]] /\ output'[owner[r]] = output[owner[r]]
<1> USE NoneIsNone DEF execVars, runVars, queueVars, graphVars, prepared
<1>1. owner[r] \in Exec /\ (isRunning(owner[r]) \/ mutex_[owner[r]] \in Client)
  BY ActiveIsProtected
<1>2. ASSUME NEW c \in Client, NEW e \in Exec, NEW i \in Input, setInput(c, e, i)
      PROVE  input'[owner[r]] = input[owner[r]] /\ output' = output
  <2>1. e # owner[r]
    BY <1>1, <1>2 DEF setInput, Enter
  <2> QED
    BY <1>1, <1>2, <2>1 DEF setInput, IInv, TypeOK
<1>3. ASSUME NEW c \in Client, NEW e \in Exec, NEW o \in Output, setOutput(c, e, o)
      PROVE  output'[owner[r]] = output[owner[r]] /\ input' = input
  <2>1. e # owner[r]
    BY <1>1, <1>3 DEF setOutput, Enter
  <2> QED
    BY <1>1, <1>3, <2>1 DEF setOutput, IInv, TypeOK
<1>4. ASSUME NEW c \in Client, NEW e \in Exec,
             \/ RefuseBusy(c, e) \/ RefuseIndex(c, e) \/ RefuseStart(c, e) \/ freeExecution(c, e)
             \/ \E s \in Run : startCompute(c, e, s) \/ compute(c, e, s)
      PROVE  UNCHANGED <<input, output>>
  BY <1>4 DEF RefuseBusy, RefuseIndex, RefuseStart, freeExecution, startCompute, compute
<1>5. ASSUME NEW c \in Client, NEW s \in Run, callWait(c, s) PROVE UNCHANGED <<input, output>>
  BY <1>5 DEF callWait
<1>6. ASSUME NEW t \in Thread, fillInput(t) \/ execute(t) \/ fillOutput(t)
      PROVE  UNCHANGED <<input, output>>
  BY <1>6 DEF fillInput, execute, fillOutput
<1>7. ASSUME NEW c \in Client, ClientStep(c) PROVE UNCHANGED <<input, output>>
  BY <1>6, <1>7 DEF ClientStep, prepareModel, prepareModelFails, Publish, Enqueue, computeReturns, wait
<1>8. WorkStep => UNCHANGED <<input, output>>
  BY <1>6 DEF WorkStep, Dequeue, notify
<1>9. UNCHANGED vars => UNCHANGED <<input, output>>
  BY DEF vars
<1>10. ASSUME NEW c \in Client, Call(c)
       PROVE  input'[owner[r]] = input[owner[r]] /\ output'[owner[r]] = output[owner[r]]
  BY <1>2, <1>3, <1>4, <1>5, <1>10 DEF Call
<1> QED
  BY <1>7, <1>8, <1>9, <1>10 DEF Next

\* No call changes the buffers of an execution while an evaluation of it may
\* still read or write them.
THEOREM BuffersStableThm == Spec => BuffersStable
<1>1. IInv /\ [Next]_vars => [\A r \in Active : input'[owner[r]] = input[owner[r]]
                                             /\ output'[owner[r]] = output[owner[r]]]_vars
  BY BuffersStep
<1> QED
  BY <1>1, Invariance, PTL DEF Spec, BuffersStable

\* An event goes in process once and then to one verdict, for every order of
\* the notifications of startCompute and of the work thread.
THEOREM OneVerdictThm == Spec => OneVerdict
<1>1. ASSUME IInv, [Next]_vars, NEW r \in Run, state_'[r] # state_[r]
      PROVE  \/ state_[r] = "IDLE" /\ state_'[r] = "IN_PROCESS"
             \/ state_[r] = "IN_PROCESS" /\ state_'[r] \in Terminal
  <2> USE NoneIsNone
  <2>1. Effect
    BY <1>1, Effects DEF IInv
  <2>2. CASE \E c \in Client : Publish(c)
    <3>1. PICK c \in Client : Publish(c)
      BY <2>2
    <3>2. cur[c] = r
      BY <1>1, <3>1 DEF Publish, IInv, TypeOK
    <3>3. state_[r] = "IDLE"
      BY <1>1, <3>1, <3>2 DEF Publish, IInv, Protected, InCall
    <3> QED
      BY <1>1, <3>1, <3>2, <3>3 DEF Publish, IInv, TypeOK
  <2>3. CASE notify
    <3>1. cur[Work] = r /\ running = r
      BY <1>1, <2>3 DEF notify, IInv, TypeOK, Worker
    <3>2. state_[r] = "IN_PROCESS"
      BY <1>1, <3>1 DEF IInv, Protected, Queued
    <3>3. state_'[r] \in Terminal
      BY <1>1, <2>3, <3>1 DEF notify, IInv, TypeOK, Terminal
    <3> QED
      BY <3>2, <3>3
  <2>4. ASSUME ~\E c \in Client : Publish(c), ~notify PROVE state_' = state_
    BY <2>1, <2>4 DEF Effect, control, Starts, Goes, Leaves, Waits, Wakes, Dequeue
  <2> QED
    BY <1>1, <2>2, <2>3, <2>4
<1>2. IInv /\ [Next]_vars =>
        [\A r \in Run : state_'[r] # state_[r] =>
           \/ state_[r] = "IDLE" /\ state_'[r] = "IN_PROCESS"
           \/ state_[r] = "IN_PROCESS" /\ state_'[r] \in Terminal]_vars
  BY <1>1
<1> QED
  BY <1>2, Invariance, PTL DEF Spec, OneVerdict

-----------------------------------------------------------------------------
(* The results, when one thread at a time can use the shared graph: no     *)
(* execution is computed synchronously, so that only the work thread does, *)
(* or there is one execution, whose evaluations exclude each other.        *)

OneUser == SyncExec = {} \/ \E e : Exec = {e}

\* The content invariant: what is bound for a run, and how its value travels
\* through the graph while the thread that evaluates it is between two labels.
AsyncOnly == SyncExec = {} =>
  \A c \in Client : pc[c] \in {"ready", "prepare", "publish", "enqueue", "waiting"}
Bound     == \A r \in Active : want[r] = Offered(owner[r])
Fresh     == \A r \in Run : owner[r] = None => got[r] = None
Flow      == \A t \in Thread : cur[t] \in Run /\ want[cur[t]] \in Data =>
               /\ pc[t] = "run"  => (has_input => graph_in = want[cur[t]])
               /\ pc[t] = "read" => graph_out \in Answers(cur[t])
               /\ pc[t] = "done" => got[cur[t]] \in Answers(cur[t])
Waited    == \A c \in Client : pc[c] = "waiting" => cur[c] \in Run /\ state_[cur[c]] # "IDLE"

\* A task is made of a graph that is there, and that graph stays as it was built.
Prepared  == /\ pending # <<>> => built
             /\ \A t \in Thread : pc[t] \in {"publish", "enqueue", "fill", "run"} => built

Content == AsyncOnly /\ Prepared /\ Bound /\ Fresh /\ Flow /\ OwnResult /\ Waited

\* The graph is built once, and what the Model has lost it does not get back.
LEMMA ModelStep ==
  ASSUME [Next]_vars
  PROVE  (built => built' /\ has_input' = has_input) /\ (cut => cut')
<1> USE DEF execVars, runVars, queueVars, graphVars, prepared
<1>1. ASSUME NEW c \in Client, Call(c) PROVE UNCHANGED prepared
  BY <1>1 DEF Call, RefuseBusy, RefuseIndex, setInput, setOutput, startCompute, compute, RefuseStart,
              freeExecution, callWait
<1>2. ASSUME NEW t \in Thread, fillInput(t) \/ execute(t) \/ fillOutput(t) PROVE UNCHANGED prepared
  BY <1>2 DEF fillInput, execute, fillOutput
<1>3. ASSUME NEW c \in Client, ClientStep(c)
      PROVE  (built => built' /\ has_input' = has_input) /\ (cut => cut')
  <2>1. prepareModel(c) \/ prepareModelFails(c) =>
          (built => built' /\ has_input' = has_input) /\ (cut => cut')
    BY DEF prepareModel, prepareModelFails
  <2>2. Publish(c) \/ Enqueue(c) \/ computeReturns(c) \/ wait(c) => UNCHANGED prepared
    BY DEF Publish, Enqueue, computeReturns, wait
  <2>3. c \in Thread
    BY DEF Thread
  <2> QED
    BY <1>2, <1>3, <2>1, <2>2, <2>3 DEF ClientStep
<1>4. WorkStep => UNCHANGED prepared
  <2>1. Work \in Thread
    BY DEF Thread
  <2>2. Dequeue \/ notify => UNCHANGED prepared
    BY DEF Dequeue, notify
  <2> QED
    BY <1>2, <2>1, <2>2 DEF WorkStep
<1>5. UNCHANGED vars => UNCHANGED prepared
  BY DEF vars
<1> QED
  BY <1>1, <1>3, <1>4, <1>5 DEF Next

LEMMA AnswersGrow ==
  ASSUME [Next]_vars, NEW r, want'[r] = want[r]
  PROVE  Answers(r) \subseteq Answers(r)'
  BY ModelStep DEF Answers

UsesGraph(t) == pc[t] \in {"fill", "run", "read", "done", "failed"}

\* What a thread that uses the graph works on.
LEMMA UserOwns ==
  ASSUME IInv, NEW t \in Thread, UsesGraph(t)
  PROVE  /\ cur[t] \in Active /\ cur[t] \in Run
         /\ owner[cur[t]] \in Exec
         /\ state_[cur[t]] \in {"IDLE", "IN_PROCESS"}
<1> USE NoneIsNone DEF IInv
<1>1. CASE t = Work
  <2>1. running \in Run /\ cur[t] = running
    BY <1>1 DEF Worker, UsesGraph, TypeOK
  <2>2. state_[running] = "IN_PROCESS"
    BY <2>1 DEF Protected, Queued
  <2>3. running \in Active
    BY <2>1 DEF Active
  <2> QED
    BY <2>1, <2>2, <2>3, ActiveOwned
<1>2. CASE t \in Client
  <2>1. InCall(t) /\ cur[t] \in Run
    BY <1>2 DEF Calls, InCall, UsesGraph, TypeOK
  <2>2. state_[cur[t]] = "IDLE"
    BY <1>2, <2>1 DEF Protected, UsesGraph
  <2>3. cur[t] \in Active
    BY <1>2, <2>1 DEF Active, UsesGraph
  <2> QED
    BY <2>1, <2>2, <2>3, ActiveOwned
<1> QED
  BY <1>1, <1>2 DEF Thread

\* Two threads are never between two uses of the graph.
LEMMA Alone ==
  ASSUME OneUser, IInv, AsyncOnly, NEW t \in Thread, NEW u \in Thread, UsesGraph(t), UsesGraph(u)
  PROVE  t = u
<1> USE NoneIsNone
<1>1. CASE SyncExec = {}
  BY <1>1 DEF AsyncOnly, UsesGraph, Thread
<1>2. CASE \E e : Exec = {e}
  <2>1. PICK e : Exec = {e}
    BY <1>2
  <2>2. owner[cur[t]] = e /\ owner[cur[u]] = e
    BY <2>1, UserOwns
  <2>3. ASSUME NEW c \in Client, UsesGraph(c), owner[cur[c]] = e
        PROVE  mutex_[e] = c /\ ~isRunning(e)
    BY <2>3 DEF IInv, Calls, Protected, InCall, UsesGraph
  <2>4. UsesGraph(Work) /\ owner[cur[Work]] = e => isRunning(e)
    BY DEF IInv, Worker, Protected, Queued, UsesGraph, isRunning, TypeOK
  <2> QED
    BY <2>2, <2>3, <2>4 DEF Thread
<1> QED
  BY <1>1, <1>2 DEF OneUser

\* A run becomes active only when startCompute or compute takes it.
LEMMA ActiveStep ==
  ASSUME IInv, Effect, NEW r \in Active'
  PROVE  r \in Active \/ owner[r] = None
<1> USE NoneIsNone DEF queueVars
<1>1. r \in Run /\ pending \in Seq(Run) /\ DOMAIN pending = 1..Len(pending)
  BY DEF Active, IInv, TypeOK
<1>2. CASE UNCHANGED control
  BY <1>2 DEF Active, control
<1>3. ASSUME NEW c \in Client, NEW e \in Exec, NEW s \in Run, Starts(c, e, s)
      PROVE  r \in Active \/ owner[r] = None
  BY <1>1, <1>3 DEF Active, Starts, IInv, TypeOK
<1>4. ASSUME NEW t \in Thread, NEW label \in PC, Goes(t, label) PROVE r \in Active
  BY <1>4 DEF Active, Goes, IInv, TypeOK
<1>5. ASSUME NEW c \in Client, Leaves(c) PROVE r \in Active
  <2>1. /\ cur'[c] = None /\ \A d \in Client : d # c => cur'[d] = cur[d] /\ pc'[d] = pc[d]
        /\ pc[c] # "waiting" /\ running' = running
    BY <1>5 DEF Leaves, InCall, IInv, TypeOK, Queue!Submit
  <2>2. CASE \E d \in Client : cur'[d] = r /\ pc'[d] # "waiting"
    BY <1>1, <2>1, <2>2 DEF Active
  <2>3. CASE \E k \in DOMAIN pending' : pending'[k] = r
    <3>0. cur[c] \in Run
      BY <1>5 DEF Leaves, InCall, IInv, TypeOK, Calls
    <3>1. pending' = pending \/ pending' = Append(pending, cur[c])
      BY <1>5 DEF Leaves, Queue!Submit
    <3>2. (\E k \in DOMAIN pending : pending[k] = r) \/ r = cur[c]
      BY <1>1, <2>3, <3>0, <3>1
    <3> QED
      BY <1>1, <2>1, <3>2 DEF Active
  <2> QED
    BY <1>1, <2>1, <2>2, <2>3 DEF Active
<1>6. ASSUME NEW c \in Client, Publish(c) PROVE r \in Active
  <2>1. pc[c] = "publish" /\ \A d \in Client : d # c => pc'[d] = pc[d]
    BY <1>6 DEF Publish, IInv, TypeOK
  <2>2. UNCHANGED <<cur, pending, running>>
    BY <1>6 DEF Publish
  <2> QED
    BY <2>1, <2>2 DEF Active
<1>7. ASSUME NEW c \in Client, NEW s \in Run, Waits(c, s) \/ Wakes(c) PROVE r \in Active
  <2>1. \/ cur'[c] = None
        \/ pc'[c] = "waiting"
    BY <1>7 DEF Waits, Wakes, IInv, TypeOK
  <2>2. /\ \A d \in Client : d # c => cur'[d] = cur[d] /\ pc'[d] = pc[d]
        /\ UNCHANGED <<pending, running>>
    BY <1>7 DEF Waits, Wakes, IInv, TypeOK
  <2> QED
    BY <1>1, <2>1, <2>2 DEF Active
<1>8. CASE Dequeue
  <2>1. /\ \A d \in Client : cur'[d] = cur[d] /\ pc'[d] = pc[d]
        /\ pending # <<>> /\ running' = Head(pending) /\ pending' = Tail(pending)
    BY <1>8 DEF Dequeue, Queue!Begin, IInv, TypeOK
  <2>2. Head(pending) = pending[1] /\ 1 \in DOMAIN pending
    BY <1>1, <2>1
  <2>3. \A k \in DOMAIN pending' : \E j \in DOMAIN pending : pending'[k] = pending[j]
    BY <1>1, <2>1
  <2> QED
    BY <1>1, <2>1, <2>2, <2>3 DEF Active
<1>9. CASE notify
  <2>1. /\ \A d \in Client : cur'[d] = cur[d] /\ pc'[d] = pc[d]
        /\ running' = None /\ pending' = pending
    BY <1>9 DEF notify, Goto, Queue!Finish, IInv, TypeOK
  <2> QED
    BY <1>1, <2>1 DEF Active
<1>10. ASSUME NEW c \in Client, Wakes(c) PROVE r \in Active
  BY <1>1, <1>7, <1>10
<1> QED
  BY <1>2, <1>3, <1>4, <1>5, <1>6, <1>7, <1>8, <1>9, <1>10 DEF Effect

\* Only the steps that use the graph touch it and the results.
Quiet ==
  /\ UNCHANGED <<got, graph_in, graph_out>>
  /\ \A t \in Thread : pc'[t] \in {"run", "read", "done"} => pc'[t] = pc[t] /\ cur'[t] = cur[t]

LEMMA QuietResults ==
  ASSUME IInv, Content, [Next]_vars, Quiet,
         \A r \in Run : owner'[r] = None => owner[r] = None,
         \A r \in Run : want'[r] = want[r] \/ owner[r] = None,
         \A r \in Run : state_'[r] = "COMPLETED" =>
           \/ state_[r] = "COMPLETED"
           \/ owner[r] # None /\ (want[r] \in Data => got[r] \in Answers(r))
  PROVE  Fresh' /\ Flow' /\ OwnResult'
<1> USE NoneIsNone
<1>1. Fresh'
  BY DEF Content, Fresh, Quiet
<1>2. ASSUME NEW t \in Thread, cur'[t] \in Run, want'[cur'[t]] \in Data, pc'[t] \in {"run", "read", "done"}
      PROVE  /\ pc'[t] = "run"  => (has_input' => graph_in' = want'[cur'[t]])
             /\ pc'[t] = "read" => graph_out' \in Answers(cur[t])'
             /\ pc'[t] = "done" => got'[cur'[t]] \in Answers(cur[t])'
  <2>1. pc'[t] = pc[t] /\ cur'[t] = cur[t]
    BY <1>2 DEF Quiet
  <2>2. owner[cur[t]] # None
    BY <1>2, <2>1, UserOwns DEF UsesGraph
  <2>3. want'[cur'[t]] = want[cur[t]] /\ want'[cur[t]] = want[cur[t]]
    BY <1>2, <2>1, <2>2
  <2>4. pc[t] = "run" => has_input' = has_input
    BY ModelStep DEF Content, Prepared
  <2>5. Answers(cur[t]) \subseteq Answers(cur[t])'
    BY <2>3, ModelStep DEF Answers
  <2>6. /\ pc[t] = "run"  => (has_input => graph_in = want[cur[t]])
        /\ pc[t] = "read" => graph_out \in Answers(cur[t])
        /\ pc[t] = "done" => got[cur[t]] \in Answers(cur[t])
    BY <1>2, <2>1, <2>3 DEF Content, Flow
  <2> QED
    BY <1>2, <2>1, <2>3, <2>4, <2>5, <2>6 DEF Quiet
<1>3. Flow'
  BY <1>2 DEF Flow
<1>4. ASSUME NEW r \in Run, want'[r] \in Data
      PROVE  got'[r] \in {None} \cup Answers(r)' /\ (state_'[r] = "COMPLETED" => got'[r] \in Answers(r)')
  <2>1. CASE owner[r] = None
    BY <2>1 DEF Content, Fresh, Quiet, IInv, Protected
  <2>2. CASE owner[r] # None
    <3>1. want'[r] = want[r] /\ got'[r] = got[r]
      BY <1>4, <2>2 DEF Quiet
    <3>2. Answers(r) \subseteq Answers(r)'
      BY <3>1, ModelStep DEF Answers
    <3> QED
      BY <1>4, <2>2, <3>1, <3>2 DEF Content, OwnResult
  <2> QED
    BY <2>1, <2>2
<1> QED
  BY <1>1, <1>3, <1>4 DEF OwnResult

LEMMA BoundStep ==
  ASSUME IInv, Content, Effect, [Next]_vars,
         \A r \in Run : owner[r] # None => owner'[r] = owner[r] /\ want'[r] = want[r],
         \A r \in Run : owner[r] = None /\ r \in Active' => want'[r] = Offered(owner[r])'
  PROVE  Bound'
<1> SUFFICES ASSUME NEW r \in Active' PROVE want'[r] = Offered(owner[r])'
  BY DEF Bound
<1>1. r \in Run
  BY DEF Active
<1>2. CASE owner[r] = None
  BY <1>1, <1>2
<1>3. CASE owner[r] # None
  <2>1. r \in Active
    BY <1>3, ActiveStep
  <2> QED
    BY <1>1, <1>3, <2>1, BuffersStep DEF Content, Bound, Offered
<1> QED
  BY <1>2, <1>3

\* A step that uses the graph takes the value of its own run one label further,
\* because no other thread holds a value there.
LEMMA GraphResults ==
  ASSUME OneUser, IInv, Content, NEW t \in Thread, fillInput(t) \/ execute(t) \/ fillOutput(t)
  PROVE  Fresh' /\ Flow' /\ OwnResult'
<1> USE NoneIsNone DEF execVars, runVars, queueVars, graphVars, prepared
<1> DEFINE r == cur[t]
<1>1. UsesGraph(t)
  BY DEF fillInput, execute, fillOutput, UsesGraph
<1>2. r \in Run /\ owner[r] \in Exec /\ want[r] = Offered(owner[r]) /\ state_[r] # "COMPLETED"
  BY <1>1, UserOwns DEF Content, Bound
<1>3. /\ UNCHANGED <<cur, owner, want, state_, has_input, cut>>
      /\ \A u \in Thread : u # t => pc'[u] = pc[u]
      /\ pc'[t] \in {"run", "read", "done", "failed"}
  BY DEF fillInput, execute, fillOutput, Goto, IInv, TypeOK
<1>4. \A u \in Thread : pc'[u] \in {"run", "read", "done"} => u = t
  BY <1>1, <1>3, Alone DEF UsesGraph, Content
<1>5. /\ \A s \in Run : s # r => got'[s] = got[s]
      /\ got'[r] = got[r] \/ (pc[t] = "read" /\ got'[r] = graph_out)
  BY <1>2 DEF fillInput, execute, fillOutput, IInv, TypeOK
<1>6. /\ pc'[t] = "run"  => (want[r] \in Data /\ has_input => graph_in' = want[r])
      /\ pc'[t] = "read" => pc[t] = "run" /\ ((has_input /\ graph_out' = graph_in) \/ (cut /\ graph_out' = PARTIAL))
      /\ pc'[t] = "done" => pc[t] = "read" /\ got'[r] = graph_out
  <2>1. ASSUME fillInput(t), want[r] \in Data, has_input PROVE graph_in' = want[r]
    BY <1>2, <2>1 DEF fillInput, Written, Offered
  <2>2. fillInput(t) => pc'[t] \in {"run", "failed"}
    BY DEF fillInput, Goto, IInv, TypeOK
  <2>3. execute(t) => /\ pc[t] = "run" /\ pc'[t] \in {"read", "failed"}
                      /\ pc'[t] = "read" => ((has_input /\ graph_out' = graph_in) \/ (cut /\ graph_out' = PARTIAL))
    BY DEF execute, Goto, IInv, TypeOK
  <2>4. fillOutput(t) => /\ pc[t] = "read" /\ pc'[t] \in {"done", "failed"}
                         /\ pc'[t] = "done" => got'[r] = graph_out
    BY <1>2 DEF fillOutput, Goto, IInv, TypeOK
  <2>6. CASE fillInput(t)
    BY <2>1, <2>2, <2>6
  <2>7. CASE execute(t)
    BY <2>3, <2>7
  <2>8. CASE fillOutput(t)
    BY <2>4, <2>8
  <2> QED
    BY <2>6, <2>7, <2>8
<1>11. Answers(r)' = Answers(r) /\ \A s : Answers(s)' = Answers(s)
  BY <1>3 DEF Answers
<1>7. Fresh'
  BY <1>2, <1>3, <1>5 DEF Content, Fresh
<1>8. Flow'
  <2>1. ASSUME want[r] \in Data
        PROVE  /\ pc'[t] = "run"  => (has_input => graph_in' = want[r])
               /\ pc'[t] = "read" => graph_out' \in Answers(r)
               /\ pc'[t] = "done" => got'[r] \in Answers(r)
    BY <1>2, <1>6, <2>1 DEF Content, Flow, Answers
  <2> QED
    BY <1>2, <1>3, <1>4, <1>11, <2>1 DEF Flow
<1>9. ASSUME NEW s \in Run, want[s] \in Data
      PROVE  got'[s] \in {None} \cup Answers(s) /\ (state_[s] = "COMPLETED" => got'[s] \in Answers(s))
  BY <1>2, <1>5, <1>9 DEF Content, OwnResult, Flow
<1>10. OwnResult'
  BY <1>3, <1>9, <1>11 DEF OwnResult
<1> QED
  BY <1>7, <1>8, <1>10

\* An event that was in process is never idle again.
LEMMA NotIdleAgain ==
  ASSUME TypeOK, Effect, NEW r \in Run, state_'[r] = "IDLE"
  PROVE  state_[r] = "IDLE"
<1>1. ASSUME NEW c \in Client, Publish(c) PROVE state_[r] = "IDLE"
  BY <1>1 DEF Publish, TypeOK
<1>2. CASE notify
  BY <1>2 DEF notify, TypeOK
<1>3. ASSUME ~\E c \in Client : Publish(c), ~notify PROVE state_' = state_
  BY <1>3 DEF Effect, control, Starts, Goes, Leaves, Waits, Wakes, Dequeue
<1> QED
  BY <1>1, <1>2, <1>3

\* Whoever waits has been given the event, which was then in process.
LEMMA WaitedStep == IInv /\ Waited /\ [Next]_vars => Waited'
<1> SUFFICES ASSUME IInv, Waited, [Next]_vars, NEW c \in Client, pc'[c] = "waiting"
             PROVE  cur'[c] \in Run /\ state_'[cur'[c]] # "IDLE"
  BY DEF Waited
<1> USE NoneIsNone
<1>0. TypeOK /\ Effect
  BY Effects DEF IInv
<1>1. CASE pc[c] = "waiting" /\ cur'[c] = cur[c]
  BY <1>0, <1>1, NotIdleAgain DEF Waited
<1>2. CASE \E r \in Run : callWait(c, r)
  BY <1>0, <1>2 DEF callWait, TypeOK
<1>3. ASSUME ~(\E r \in Run : callWait(c, r)) PROVE pc[c] = "waiting" /\ cur'[c] = cur[c]
  <2>1. ASSUME NEW d \in Client, d # c, Call(d) \/ ClientStep(d)
        PROVE  pc'[c] = pc[c] /\ cur'[c] = cur[c]
    BY <1>0, <2>1 DEF Call, RefuseBusy, RefuseIndex, setInput, setOutput, startCompute, compute, NewRun,
                      RefuseStart, freeExecution, callWait, ClientStep, prepareModel, prepareModelFails,
                      Publish, Enqueue, Leave, fillInput, execute, fillOutput, computeReturns, wait, Goto, TypeOK
  <2>2. CASE Call(c)
    BY <1>0, <1>3, <2>2 DEF Call, RefuseBusy, RefuseIndex, setInput, setOutput, startCompute, compute,
                            RefuseStart, freeExecution, Enter, TypeOK
  <2>3. CASE ClientStep(c)
    BY <1>0, <2>3 DEF ClientStep, prepareModel, prepareModelFails, Publish, Enqueue, Leave, fillInput,
                      execute, fillOutput, computeReturns, wait, Goto, TypeOK
  <2>4. WorkStep => pc'[c] = pc[c] /\ cur'[c] = cur[c]
    BY <1>0 DEF WorkStep, Dequeue, fillInput, execute, fillOutput, notify, Goto, TypeOK
  <2>5. UNCHANGED vars => pc'[c] = pc[c] /\ cur'[c] = cur[c]
    BY DEF vars
  <2> QED
    BY <2>1, <2>2, <2>3, <2>4, <2>5 DEF Next
<1> QED
  BY <1>1, <1>2, <1>3

LEMMA AsyncStep == IInv /\ AsyncOnly /\ [Next]_vars => AsyncOnly'
<1> SUFFICES ASSUME IInv, AsyncOnly, [Next]_vars, SyncExec = {}, NEW c \in Client
             PROVE  pc'[c] \in {"ready", "prepare", "publish", "enqueue", "waiting"}
  BY DEF AsyncOnly
<1> USE NoneIsNone DEF execVars, runVars, queueVars, graphVars, prepared
<1>0. TypeOK /\ \A d \in Client : pc[d] \in {"ready", "prepare", "publish", "enqueue", "waiting"}
  BY DEF IInv, AsyncOnly
<1>1. ASSUME NEW d \in Client, Call(d)
      PROVE  pc' = pc \/ \E label \in {"prepare", "waiting"} : pc' = [pc EXCEPT ![d] = label]
  BY <1>1 DEF Call, RefuseBusy, RefuseIndex, setInput, setOutput, startCompute, compute, RefuseStart,
              freeExecution, callWait, Goto
<1>2. ASSUME NEW d \in Client, ClientStep(d)
      PROVE  \E label \in {"publish", "enqueue", "ready"} : pc' = [pc EXCEPT ![d] = label]
  BY <1>0, <1>2 DEF ClientStep, prepareModel, prepareModelFails, Publish, Enqueue, Leave, fillInput,
                    execute, fillOutput, computeReturns, wait, Goto
<1>3. WorkStep => pc'[c] = pc[c]
  BY <1>0 DEF WorkStep, Dequeue, fillInput, execute, fillOutput, notify, Goto, TypeOK
<1>4. UNCHANGED vars => pc' = pc
  BY DEF vars
<1> QED
  BY <1>0, <1>1, <1>2, <1>3, <1>4 DEF Next, TypeOK

LEMMA PreparedStep == IInv /\ Prepared /\ [Next]_vars => Prepared'
<1> SUFFICES ASSUME IInv, Prepared, [Next]_vars PROVE Prepared'
  OBVIOUS
<1> USE NoneIsNone DEF execVars, runVars, queueVars, graphVars, prepared
<1>0. TypeOK /\ (built => built')
  BY ModelStep DEF IInv
<1>1. ASSUME NEW c \in Client, prepareModel(c) PROVE Prepared'
  <2>1. built' /\ pending' = pending
    BY <1>1 DEF prepareModel
  <2> QED
    BY <2>1 DEF Prepared
<1>2. ASSUME NEW t \in Thread, fillInput(t) \/ execute(t) \/ fillOutput(t) PROVE Prepared'
  <2>1. /\ pending' = pending
        /\ \A u \in Thread : u # t => pc'[u] = pc[u]
        /\ pc'[t] \in {"run", "read", "done", "failed"}
        /\ pc'[t] = "run" => pc[t] = "fill"
    BY <1>0, <1>2 DEF fillInput, execute, fillOutput, Goto, TypeOK
  <2> QED
    BY <1>0, <2>1 DEF Prepared
<1>3. ASSUME NEW c \in Client, Call(c) PROVE Prepared'
  <2>1. /\ pending' = pending
        /\ \A u \in Thread : pc'[u] = pc[u] \/ pc'[u] \in {"prepare", "prepare_sync", "waiting"}
    <3>1. ASSUME NEW e \in Exec,
                 \/ RefuseBusy(c, e) \/ RefuseIndex(c, e) \/ RefuseStart(c, e) \/ freeExecution(c, e)
                 \/ \E i \in Input : setInput(c, e, i)
                 \/ \E o \in Output : setOutput(c, e, o)
          PROVE  pending' = pending /\ pc' = pc
      BY <3>1 DEF RefuseBusy, RefuseIndex, RefuseStart, freeExecution, setInput, setOutput
    <3>2. ASSUME NEW e \in Exec, NEW r \in Run, startCompute(c, e, r) \/ compute(c, e, r)
          PROVE  pending' = pending /\ \E l \in {"prepare", "prepare_sync"} : pc' = [pc EXCEPT ![c] = l]
      BY <3>2 DEF startCompute, compute
    <3>3. ASSUME NEW r \in Run, callWait(c, r)
          PROVE  pending' = pending /\ pc' = [pc EXCEPT ![c] = "waiting"]
      BY <3>3 DEF callWait, Goto
    <3>4. /\ pending' = pending
          /\ pc' = pc \/ \E l \in {"prepare", "prepare_sync", "waiting"} : pc' = [pc EXCEPT ![c] = l]
      BY <1>3, <3>1, <3>2, <3>3 DEF Call
    <3> QED
      BY <1>0, <3>4 DEF TypeOK
  <2> QED
    BY <1>0, <2>1 DEF Prepared
<1>4. ASSUME NEW c \in Client, prepareModelFails(c) \/ computeReturns(c) \/ wait(c) PROVE Prepared'
  <2>1. /\ pending' = pending
        /\ \A u \in Thread : pc'[u] = pc[u] \/ pc'[u] = "ready"
    BY <1>0, <1>4 DEF prepareModelFails, computeReturns, wait, Leave, Goto, TypeOK
  <2> QED
    BY <1>0, <2>1 DEF Prepared
<1>5. ASSUME NEW c \in Client, Publish(c) \/ Enqueue(c) PROVE Prepared'
  <2>1. /\ pc[c] \in {"publish", "enqueue"}
        /\ \A u \in Thread : u # c => pc'[u] = pc[u]
    BY <1>0, <1>5 DEF Publish, Enqueue, Leave, TypeOK
  <2>2. built
    BY <2>1 DEF Prepared
  <2> QED
    BY <1>0, <2>2 DEF Prepared
<1>6. ASSUME Dequeue PROVE Prepared'
  <2>1. pending # <<>>
    BY <1>6 DEF Dequeue, Queue!Begin
  <2> QED
    BY <1>0, <2>1 DEF Prepared
<1>7. ASSUME notify PROVE Prepared'
  <2>1. /\ pending' = pending
        /\ \A u \in Thread : pc'[u] = pc[u] \/ pc'[u] = "ready"
    BY <1>0, <1>7 DEF notify, Queue!Finish, Goto, TypeOK
  <2> QED
    BY <1>0, <2>1 DEF Prepared
<1>8. CASE UNCHANGED vars
  BY <1>8 DEF vars, Prepared
<1> QED
  BY <1>1, <1>2, <1>3, <1>4, <1>5, <1>6, <1>7, <1>8 DEF Next, ClientStep, WorkStep

LEMMA ContentStep == OneUser /\ IInv /\ Content /\ [Next]_vars => Content'
<1> SUFFICES ASSUME OneUser, IInv, Content, [Next]_vars PROVE Content'
  OBVIOUS
<1> USE NoneIsNone DEF execVars, runVars, queueVars, graphVars, prepared
<1>0. Effect /\ TypeOK /\ AsyncOnly' /\ Prepared' /\ Waited'
  BY Effects, AsyncStep, PreparedStep, WaitedStep DEF IInv, Content
<1>1. CASE UNCHANGED vars
  BY <1>1 DEF vars, Content, AsyncOnly, Prepared, Bound, Offered, Fresh, Flow, OwnResult, Answers, Waited, Active
<1>2. ASSUME UNCHANGED <<owner, want>> PROVE Bound'
  <2>1. ASSUME NEW r \in Active', owner[r] = None PROVE FALSE
    <3>1. IInv'
      BY Inductive
    <3>2. owner'[r] \in Exec
      BY <3>1, <2>1, ActiveOwnedNext
    <3> QED
      BY <1>2, <2>1, <3>2
  <2> QED
    BY <1>0, <1>2, <2>1, BoundStep
<1>3. ASSUME UNCHANGED <<owner, want>>, Quiet,
             \A r \in Run : state_'[r] = "COMPLETED" => state_[r] = "COMPLETED"
      PROVE  Content'
  BY <1>0, <1>2, <1>3, QuietResults DEF Content
<1>4. ASSUME NEW t \in Thread, fillInput(t) \/ execute(t) \/ fillOutput(t) PROVE Content'
  <2>1. UNCHANGED <<owner, want>>
    BY <1>4 DEF fillInput, execute, fillOutput
  <2> QED
    BY <1>0, <1>2, <1>4, <2>1, GraphResults DEF Content
<1>5. ASSUME NEW c \in Client, Call(c) PROVE Content'
  <2>1. ASSUME NEW e \in Exec, NEW r \in Run, startCompute(c, e, r) \/ compute(c, e, r) PROVE Content'
    <3>1. /\ owner' = [owner EXCEPT ![r] = e] /\ want' = [want EXCEPT ![r] = Offered(e)]
          /\ owner[r] = None /\ input' = input /\ state_' = state_
      BY <2>1 DEF startCompute, compute, NewRun
    <3>2. Quiet
      <4>1. /\ pc'[c] \in {"prepare", "prepare_sync"} /\ cur' = [cur EXCEPT ![c] = r]
            /\ \A t \in Thread : t # c => pc'[t] = pc[t]
            /\ UNCHANGED <<got, graph_in, graph_out>>
        BY <1>0, <2>1 DEF startCompute, compute, NewRun, TypeOK
      <4> QED
        BY <1>0, <4>1 DEF Quiet, TypeOK
    <3>3. Bound'
      <4>1. ASSUME NEW s \in Run, s \in Active', owner[s] = None PROVE s = r
        <5>1. UNCHANGED <<pending, running>> /\ cur' = [cur EXCEPT ![c] = r]
              /\ \E label \in PC : pc' = [pc EXCEPT ![c] = label]
          BY <2>1 DEF startCompute, compute, NewRun, PC
        <5>2. s = r \/ s \in Active
          BY <1>0, <4>1, <5>1 DEF Active, TypeOK
        <5>3. s \in Active => owner[s] # None
          BY ActiveOwned
        <5> QED
          BY <4>1, <5>2, <5>3
      <4> QED
        BY <1>0, <3>1, <4>1, BoundStep DEF TypeOK, Offered
    <3>4. Fresh' /\ Flow' /\ OwnResult'
      <4>1. \A s \in Run : owner'[s] = None => owner[s] = None
        BY <1>0, <3>1 DEF TypeOK
      <4>2. \A s \in Run : want'[s] = want[s] \/ owner[s] = None
        BY <1>0, <3>1 DEF TypeOK
      <4> QED
        BY <3>1, <3>2, <4>1, <4>2, QuietResults
    <3> QED
      BY <1>0, <3>3, <3>4 DEF Content
  <2>2. ASSUME NEW e \in Exec, NEW i, NEW o,
               \/ RefuseBusy(c, e) \/ RefuseIndex(c, e) \/ setInput(c, e, i) \/ setOutput(c, e, o)
               \/ RefuseStart(c, e) \/ freeExecution(c, e)
        PROVE  Content'
    <3>1. UNCHANGED <<owner, want, pc, cur, state_, got, graph_in, graph_out>>
      BY <2>2 DEF RefuseBusy, RefuseIndex, setInput, setOutput, RefuseStart, freeExecution
    <3> QED
      BY <1>3, <3>1 DEF Quiet
  <2>3. ASSUME NEW r \in Run, callWait(c, r) PROVE Content'
    <3>1. UNCHANGED <<owner, want, state_>> /\ Quiet
      BY <1>0, <2>3 DEF callWait, Goto, Quiet, TypeOK
    <3> QED
      BY <1>3, <3>1
  <2> QED
    BY <1>5, <2>1, <2>2, <2>3 DEF Call
<1>6. ASSUME NEW c \in Client, ClientStep(c) PROVE Content'
  <2>1. CASE prepareModel(c) \/ prepareModelFails(c) \/ Publish(c) \/ Enqueue(c) \/ computeReturns(c) \/ wait(c)
    <3>1. UNCHANGED <<owner, want>> /\ Quiet
      <4>1. UNCHANGED <<owner, want, got, graph_in, graph_out>>
        BY <2>1 DEF prepareModel, prepareModelFails, Publish, Enqueue, computeReturns, wait
      <4>2. pc'[c] \notin {"run", "read", "done"}
        BY <1>0, <2>1 DEF prepareModel, prepareModelFails, Publish, Enqueue, computeReturns, wait,
                          Leave, Goto, TypeOK
      <4>3. \A t \in Thread : t # c => pc'[t] = pc[t] /\ cur'[t] = cur[t]
        BY <1>0, <2>1 DEF prepareModel, prepareModelFails, Publish, Enqueue, computeReturns, wait,
                          Leave, Goto, TypeOK
      <4> QED
        BY <4>1, <4>2, <4>3 DEF Quiet
    <3>2. \A r \in Run : state_'[r] = "COMPLETED" => state_[r] = "COMPLETED"
      BY <1>0, <2>1 DEF prepareModel, prepareModelFails, Publish, Enqueue, computeReturns, wait, TypeOK
    <3> QED
      BY <1>3, <3>1, <3>2
  <2> QED
    BY <1>4, <1>6, <2>1 DEF ClientStep
<1>7. CASE Dequeue
  <2>1. UNCHANGED <<owner, want, state_, got, graph_in, graph_out>> /\ pc'[Work] = "fill"
    BY <1>0, <1>7 DEF Dequeue, TypeOK
  <2>2. \A t \in Thread : t # Work => pc'[t] = pc[t] /\ cur'[t] = cur[t]
    BY <1>0, <1>7 DEF Dequeue, TypeOK
  <2> QED
    BY <1>3, <2>1, <2>2 DEF Quiet
<1>8. CASE notify
  <2>1. /\ UNCHANGED <<owner, want, got, graph_in, graph_out>> /\ pc'[Work] = "ready"
        /\ \A t \in Thread : t # Work => pc'[t] = pc[t] /\ cur'[t] = cur[t]
    BY <1>0, <1>8 DEF notify, Goto, TypeOK
  <2>2. UsesGraph(Work)
    BY <1>8 DEF notify, UsesGraph
  <2>3. cur[Work] \in Run /\ owner[cur[Work]] # None
    BY <2>2, UserOwns
  <2>4. ASSUME NEW r \in Run, state_'[r] = "COMPLETED", state_[r] # "COMPLETED"
        PROVE  owner[r] # None /\ (want[r] \in Data => got[r] \in Answers(r))
    <3>1. r = cur[Work] /\ pc[Work] = "done"
      BY <1>0, <1>8, <2>3, <2>4 DEF notify, TypeOK
    <3> QED
      BY <2>3, <3>1 DEF Content, Flow
  <2>5. Quiet
    BY <2>1 DEF Quiet
  <2> QED
    BY <1>0, <1>2, <2>1, <2>4, <2>5, QuietResults DEF Content
<1> QED
  BY <1>1, <1>4, <1>5, <1>6, <1>7, <1>8 DEF Next, WorkStep

LEMMA ContentInvariance == ASSUME OneUser PROVE Spec => []Content
<1>1. Init => Content
  BY NoneIsNone DEF Init, Queue!Init, Content, AsyncOnly, Prepared, Bound, Fresh, Flow, OwnResult, Waited, Active
<1>2. IInv /\ Content /\ [Next]_vars => Content'
  BY ContentStep
<1> QED
  BY <1>1, <1>2, Invariance, PTL DEF Spec

\* While one thread at a time uses the graph, every output buffer gets what the
\* network computes from the input bound when that evaluation was started, and no
\* event completes before it is there, although all executions share one graph.
\* The one other answer, the result without the input, needs a Model that was
\* prepared, or tried, while the input's operand was null.
THEOREM OwnResultThm ==
  ASSUME OneUser
  PROVE  Spec => []OwnResult
<1>1. Content => OwnResult
  BY DEF Content
<1> QED
  BY <1>1, ContentInvariance, PTL

\* Under the same condition, wait() and compute() return NO_ERROR only when the
\* output buffer holds the network's result for the input that was bound, or the
\* one without it that Answers names: no other error on the way is lost, and no
\* waiter is woken too early.
THEOREM SuccessMeansResultThm ==
  ASSUME OneUser
  PROVE  Spec => SuccessMeansResult
<1> USE NoneIsNone
<1>1. ASSUME IInv, Content, [Next]_vars, NEW c \in Client,
             pc[c] \in {"waiting", "done", "failed"}, pc'[c] = "ready",
             ret' = "NO_ERROR", want[cur[c]] \in Data
      PROVE  got[cur[c]] \in Answers(cur[c])
  <2>0. TypeOK
    BY <1>1 DEF IInv
  <2>1. CASE wait(c)
    <3>1. cur[c] \in Run /\ state_[cur[c]] \in EventState \ {"IDLE", "IN_PROCESS", "ERROR_OCCURED"}
      BY <1>1, <2>0, <2>1 DEF wait, Return, WaitCode, Content, Waited, TypeOK
    <3>2. state_[cur[c]] = "COMPLETED"
      BY <3>1 DEF EventState
    <3> QED
      BY <1>1, <3>1, <3>2 DEF Content, OwnResult
  <2>2. CASE computeReturns(c)
    <3>1. pc[c] = "done"
      BY <1>1, <2>2 DEF computeReturns, Leave, Return
    <3>2. cur[c] \in Run
      BY <3>1, <1>1, UserOwns DEF UsesGraph, Thread
    <3> QED
      BY <1>1, <3>1, <3>2 DEF Content, Flow, Thread
  <2>3. ASSUME ~wait(c), ~computeReturns(c) PROVE FALSE
    <3>1. ASSUME NEW d \in Client, d # c, Call(d) \/ ClientStep(d) PROVE pc'[c] = pc[c]
      BY <2>0, <3>1 DEF Call, RefuseBusy, RefuseIndex, setInput, setOutput, startCompute, compute,
                        RefuseStart, freeExecution, callWait, ClientStep, prepareModel, prepareModelFails,
                        Publish, Enqueue, Leave, fillInput, execute, fillOutput, computeReturns, wait, Goto, TypeOK
    <3>2. ~Call(c)
      BY <1>1 DEF Call, RefuseBusy, RefuseIndex, setInput, setOutput, startCompute, compute,
                  RefuseStart, freeExecution, callWait, Enter
    <3>3. ~ClientStep(c)
      BY <1>1, <2>3 DEF ClientStep, prepareModel, prepareModelFails, Publish, Enqueue, fillInput, execute, fillOutput
    <3>4. WorkStep \/ UNCHANGED vars => pc'[c] = pc[c]
      BY <2>0 DEF WorkStep, Dequeue, fillInput, execute, fillOutput, notify, Goto, TypeOK, vars
    <3> QED
      BY <1>1, <3>1, <3>2, <3>3, <3>4 DEF Next
  <2> QED
    BY <2>1, <2>2, <2>3
<1>2. IInv /\ Content /\ [Next]_vars =>
        [\A c \in Client :
           /\ pc[c] \in {"waiting", "done", "failed"} /\ pc'[c] = "ready"
           /\ ret' = "NO_ERROR" /\ want[cur[c]] \in Data
           => got[cur[c]] \in Answers(cur[c])]_vars
  BY <1>1
<1> QED
  BY <1>2, Invariance, ContentInvariance, PTL DEF Spec, SuccessMeansResult
=============================================================================
