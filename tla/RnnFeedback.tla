---------------------------- MODULE RnnFeedback ----------------------------
(***************************************************************************)
(* vsi_nn_rnn.c of ovxlib, and the two ways to run a graph with recurrent  *)
(* connections: vsi_nn_RunGraph of vsi_nn_graph.c and vsi_nn_rnn_RunGraph, *)
(* which wraps the first.                                                  *)
(*                                                                         *)
(* A connection feeds an output tensor of one run back into input tensors  *)
(* of the next: through a buffer of its own, which is saved after a run    *)
(* and copied before the next, or, when both tensors are made from handles *)
(* and there is one input, by swapping their memory before the next run.   *)
(* A node that is a precompiled binary (NBG) keeps the memory it was given *)
(* for each of its parameters until that is set again; other nodes use the *)
(* tensor.  Each step may fail; the run then returns and leaves everything *)
(* as it is.                                                               *)
(***************************************************************************)
EXTENDS Integers, Sequences, FiniteSets

CONSTANTS
  Conns,    \* the connections: <<[out |-> tensor, ins |-> tensors, handles |-> BOOLEAN], ...>>
  SlotLists, \* the parameters of all NBG nodes, in the order of the nodes: the lists to try
  MaxRuns,  \* bound: runs that reach the driver
  MaxFails, \* bound: calls that fail
  MaxSetups \* bound: calls of vsi_nn_SetupRNNConnections and vsi_nn_ResetRNNBuffers

N == Len(Conns)
Outs == {Conns[c].out : c \in 1..N}
Ins == UNION {{Conns[c].ins[j] : j \in 1..Len(Conns[c].ins)} : c \in 1..N}
Tensor == Ins \cup Outs

\* Contents of tensors: the number of the run that computed it, zero for the
\* initial state of a buffer, or one of these.
User == -1 \* what the application wrote
Junk == -2 \* never written, or written by a run that failed
Data == Junk..MaxRuns

NoBuffer == -3 \* a connection without a buffer has no data in it
NoWksp == -1

\* A parameter of an NBG node: an input reads its tensor, an output writes it.
Parameter == [tensor : Tensor, writes : BOOLEAN]

ASSUME RnnAssumption ==
  /\ MaxRuns \in Nat /\ MaxFails \in Nat /\ MaxSetups \in Nat
  /\ Conns \in Seq([out : Outs, ins : Seq(Ins), handles : BOOLEAN])
  /\ Ins \cap Outs = {}
  /\ \A c \in 1..N : Len(Conns[c].ins) > 0
  /\ \A c, d \in 1..N : c # d => Conns[c].out # Conns[d].out
  /\ SlotLists \subseteq Seq(Parameter)

\* An input is fed by one connection: with two, it would have two states to hold.
\* The code leaves this to the application.
ASSUME FedOnce ==
  \A c, d \in 1..N : c # d =>
    \A j \in 1..Len(Conns[c].ins), k \in 1..Len(Conns[d].ins) : Conns[c].ins[j] # Conns[d].ins[k]

VARIABLES
  slots,        \* the parameters of the NBG nodes of this graph
  connected,    \* length of external_connection_list, NoWksp without rnn_wksp
  is_first_run,
  buffer,       \* per connection: content of its internal buffer
  mem,          \* contents of the memory blocks, one block per tensor at first
  handle,       \* per tensor: its memory block
  is_swapped,   \* per tensor
  param,        \* per parameter: the memory block its node uses
  todo,         \* phases of the call in progress still to be done
  idx,          \* position in the current phase
  runs, fails, setups,   \* counters for the bounds
  lastOk,       \* history: last run that returned success since setup or reset
  calls,        \* history: calls started since setup or reset, two for more
  failed,       \* history: a call failed since setup or reset
  wrapped,      \* history: vsi_nn_rnn_RunGraph was used since setup or reset
  expected      \* history: what each input is to hold in the last call started

wksp == <<connected, is_first_run, buffer>>
tensors == <<mem, handle, is_swapped, param>>
counters == <<runs, fails, setups>>
history == <<lastOk, calls, failed, wrapped>>
vars == <<slots, wksp, tensors, todo, idx, counters, history, expected>>

Init ==
  /\ slots \in SlotLists
  /\ connected = NoWksp
  /\ is_first_run = FALSE
  /\ buffer = [c \in 1..N |-> NoBuffer]
  /\ mem = [t \in Tensor |-> IF t \in Ins THEN User ELSE Junk]
  /\ handle = [t \in Tensor |-> t]
  /\ is_swapped = [t \in Tensor |-> FALSE]
  /\ param = [s \in DOMAIN slots |-> slots[s].tensor]
  /\ todo = <<>>
  /\ idx = 1
  /\ runs = 0 /\ fails = 0 /\ setups = 0
  /\ lastOk = 0 /\ calls = 0 /\ failed = FALSE /\ wrapped = FALSE
  /\ expected = [t \in Ins |-> User]

Idle == todo = <<>>
HasRNN == connected # NoWksp
Swappable(c) == Conns[c].handles /\ Len(Conns[c].ins) = 1
In(c, j) == Conns[c].ins[j]
Out(c) == Conns[c].out

-----------------------------------------------------------------------------
(* Setup and reset                                                         *)

Forget == lastOk' = 0 /\ calls' = 0 /\ failed' = FALSE /\ wrapped' = FALSE

\* vsi_nn_rnn_InitWksp: the old workspace goes.  When a connection is refused, the
\* ones before it stay installed; k is how many are, or NoWksp without memory for
\* the workspace.  Nobody looks whether internal_buffer_init succeeded, which it
\* does not for a virtual output or a type that zero does not convert to: the
\* connections in lost stay without a buffer.
InitWksp(k, lost) ==
  /\ Idle
  /\ setups < MaxSetups
  /\ setups' = setups + 1
  /\ k = N \/ fails < MaxFails
  /\ fails' = IF k = N THEN fails ELSE fails + 1
  /\ connected' = k
  /\ is_first_run' = TRUE
  /\ buffer' = [c \in 1..N |-> IF c <= k /\ ~Swappable(c) /\ c \notin lost THEN 0 ELSE NoBuffer]
  /\ Forget
  /\ UNCHANGED <<slots, tensors, todo, idx, runs, expected>>

\* vsi_nn_rnn_ResetBuffers, of the first k connections; the others keep theirs.
Reset(k, lost) ==
  /\ Idle
  /\ HasRNN
  /\ setups < MaxSetups
  /\ setups' = setups + 1
  /\ is_first_run' = TRUE
  /\ buffer' = [c \in 1..N |-> IF c > k \/ Swappable(c) THEN buffer[c]
                               ELSE IF c \in lost THEN NoBuffer ELSE 0]
  /\ Forget
  /\ UNCHANGED <<slots, connected, tensors, todo, idx, runs, fails, expected>>

ResetBuffers == Reset(connected, {})

\* Each buffer is released before it is made again, and the first one that cannot
\* be made ends the loop.
ResetFails(c) == c <= connected /\ ~Swappable(c) /\ Reset(c, {c})

\* The application writes the recurrent inputs, before a first run.
WriteInputs ==
  /\ Idle
  /\ calls = 0
  /\ mem' = [b \in Tensor |-> IF \E t \in Ins : handle[t] = b THEN User ELSE mem[b]]
  /\ UNCHANGED <<slots, wksp, handle, is_swapped, param, todo, idx, counters, history, expected>>

-----------------------------------------------------------------------------
(* The calls                                                               *)

\* The phases of vsi_nn_RunGraph.
RunPhases == IF HasRNN THEN <<"feed", "check", "process", "save">> ELSE <<"check", "process">>

Call(phases) ==
  /\ Idle
  /\ runs < MaxRuns
  /\ todo' = phases
  /\ idx' = 1
  /\ calls' = IF calls = 0 THEN 1 ELSE 2
  /\ expected' = [t \in Ins |-> IF calls = 0 THEN mem[handle[t]] ELSE lastOk]
  /\ UNCHANGED <<slots, wksp, tensors, counters, lastOk, failed>>

RunGraph == Call(RunPhases) /\ UNCHANGED wrapped

\* vsi_nn_rnn_RunGraph feeds and saves around vsi_nn_RunGraph, which does so, too.
rnn_RunGraph ==
  /\ Call(IF HasRNN THEN <<"feed">> \o RunPhases \o <<"save">> ELSE RunPhases)
  /\ wrapped' = TRUE

Phase(p) == ~Idle /\ Head(todo) = p

Advance == todo' = Tail(todo) /\ idx' = 1

\* The call returns a failure.
Stop ==
  /\ todo' = <<>>
  /\ idx' = 1
  /\ failed' = TRUE
  /\ UNCHANGED <<runs, setups>>

Fail == fails < MaxFails /\ fails' = fails + 1 /\ Stop

\* What a copied connection without a buffer does each time: it fails.
Lost == ~Swappable(idx) /\ buffer[idx] = NoBuffer

-----------------------------------------------------------------------------
(* vsi_nn_rnn_feed_internal_state                                          *)

\* The first run uses the input tensors as they are.
FeedFirst ==
  /\ Phase("feed")
  /\ is_first_run
  /\ is_first_run' = FALSE
  /\ Advance
  /\ UNCHANGED <<slots, connected, buffer, tensors, counters, history, expected>>

\* Mutant: only the memory of the tensors is swapped, the node is not told.
SwapUntold(t, u) ==
  /\ handle' = [handle EXCEPT ![t] = handle[u], ![u] = handle[t]]
  /\ UNCHANGED is_swapped

\* vsi_nn_SwapTensorHandle
SwapTensorHandle(t, u) ==
  /\ handle' = [handle EXCEPT ![t] = handle[u], ![u] = handle[t]]
  /\ is_swapped' = [is_swapped EXCEPT ![t] = TRUE, ![u] = TRUE]

FeedSwap ==
  /\ Phase("feed") /\ ~is_first_run /\ idx <= connected
  /\ Swappable(idx)
  /\ SwapTensorHandle(Out(idx), In(idx, 1))
  /\ idx' = idx + 1
  /\ UNCHANGED <<slots, wksp, mem, param, todo, counters, history, expected>>

\* The buffer of connection c is copied to its first j inputs.
CopyToInputs(c, j) ==
  mem' = [b \in Tensor |-> IF \E i \in 1..j : handle[In(c, i)] = b THEN buffer[c] ELSE mem[b]]

\* Mutant: only the first input is fed.
FeedCopyFirst ==
  /\ Phase("feed") /\ ~is_first_run /\ idx <= connected
  /\ ~Swappable(idx) /\ ~Lost
  /\ CopyToInputs(idx, 1)
  /\ idx' = idx + 1
  /\ UNCHANGED <<slots, wksp, handle, is_swapped, param, todo, counters, history, expected>>

\* Mutant: the copy does not look whether there is a buffer.
FeedCopyAny ==
  /\ Phase("feed") /\ ~is_first_run /\ idx <= connected
  /\ ~Swappable(idx)
  /\ CopyToInputs(idx, Len(Conns[idx].ins))
  /\ idx' = idx + 1
  /\ UNCHANGED <<slots, wksp, handle, is_swapped, param, todo, counters, history, expected>>

FeedCopy ==
  /\ Phase("feed") /\ ~is_first_run /\ idx <= connected
  /\ ~Swappable(idx) /\ ~Lost
  /\ CopyToInputs(idx, Len(Conns[idx].ins))
  /\ idx' = idx + 1
  /\ UNCHANGED <<slots, wksp, handle, is_swapped, param, todo, counters, history, expected>>

\* A swap or a copy fails, a copy perhaps after the first inputs.
FeedFails ==
  /\ Phase("feed") /\ ~is_first_run /\ idx <= connected
  /\ IF Swappable(idx) \/ Lost
       THEN UNCHANGED mem
       ELSE \E j \in 0..Len(Conns[idx].ins) - 1 : CopyToInputs(idx, j)
  /\ Fail
  /\ UNCHANGED <<slots, wksp, handle, is_swapped, param, lastOk, calls, wrapped, expected>>

FeedLost ==
  /\ Phase("feed") /\ ~is_first_run /\ idx <= connected
  /\ Lost
  /\ Stop
  /\ UNCHANGED <<slots, wksp, tensors, fails, lastOk, calls, wrapped, expected>>

FeedDone ==
  /\ Phase("feed") /\ ~is_first_run /\ idx > connected
  /\ Advance
  /\ UNCHANGED <<slots, wksp, tensors, counters, history, expected>>

-----------------------------------------------------------------------------
(* _check_swapped_tensors, vxProcessGraph                                  *)

Slot == DOMAIN slots

\* The parameters of all NBG nodes are gone through; one whose tensor is marked is
\* set, and the mark goes with it.  One that is not marked is passed over.
SetParameter ==
  /\ Phase("check") /\ idx \in Slot
  /\ LET t == slots[idx].tensor
     IN  IF is_swapped[t]
           THEN /\ param' = [param EXCEPT ![idx] = handle[t]]
                /\ is_swapped' = [is_swapped EXCEPT ![t] = FALSE]
           ELSE UNCHANGED <<param, is_swapped>>
  /\ idx' = idx + 1
  /\ UNCHANGED <<slots, wksp, mem, handle, todo, counters, history, expected>>

SetParameterFails ==
  /\ Phase("check") /\ idx \in Slot
  /\ is_swapped[slots[idx].tensor]
  /\ Fail
  /\ UNCHANGED <<slots, wksp, tensors, lastOk, calls, wrapped, expected>>

CheckDone ==
  /\ Phase("check") /\ idx \notin Slot
  /\ Advance
  /\ UNCHANGED <<slots, wksp, tensors, counters, history, expected>>

\* Where the node that computes tensor t writes: an NBG node to the memory it
\* knows.
Written(t) ==
  LET own == {s \in Slot : slots[s].tensor = t /\ slots[s].writes}
  IN  IF own = {} THEN {handle[t]} ELSE {param[s] : s \in own}

\* Content v in the outputs of the connections.
WriteOutputs(v) == mem' = [b \in Tensor |-> IF \E t \in Outs : b \in Written(t) THEN v ELSE mem[b]]

\* The run reads its recurrent inputs and writes its number to the outputs.
Process ==
  /\ Phase("process")
  /\ runs' = runs + 1
  /\ WriteOutputs(runs')
  /\ Advance
  /\ lastOk' = IF Len(todo) = 1 THEN runs' ELSE lastOk
  /\ UNCHANGED <<slots, wksp, handle, is_swapped, param, fails, setups, calls, failed, wrapped, expected>>

ProcessFails ==
  /\ Phase("process")
  /\ UNCHANGED mem \/ WriteOutputs(Junk)
  /\ Fail
  /\ UNCHANGED <<slots, wksp, handle, is_swapped, param, lastOk, calls, wrapped, expected>>

-----------------------------------------------------------------------------
(* vsi_nn_rnn_save_internal_state                                          *)

\* Mutant: the buffer is filled from the input's memory.
SaveInput ==
  /\ Phase("save") /\ idx <= connected
  /\ ~Lost
  /\ buffer' = [buffer EXCEPT ![idx] = IF Swappable(idx) THEN @ ELSE mem[handle[In(idx, 1)]]]
  /\ idx' = idx + 1
  /\ UNCHANGED <<slots, connected, is_first_run, tensors, todo, counters, history, expected>>

Save ==
  /\ Phase("save") /\ idx <= connected
  /\ ~Lost
  /\ buffer' = [buffer EXCEPT ![idx] = IF Swappable(idx) THEN @ ELSE mem[handle[Out(idx)]]]
  /\ idx' = idx + 1
  /\ UNCHANGED <<slots, connected, is_first_run, tensors, todo, counters, history, expected>>

SaveFails ==
  /\ Phase("save") /\ idx <= connected
  /\ ~Swappable(idx)
  /\ Fail
  /\ UNCHANGED <<slots, wksp, tensors, lastOk, calls, wrapped, expected>>

SaveLost ==
  /\ Phase("save") /\ idx <= connected
  /\ Lost
  /\ Stop
  /\ UNCHANGED <<slots, wksp, tensors, fails, lastOk, calls, wrapped, expected>>

SaveDone ==
  /\ Phase("save") /\ idx > connected
  /\ Advance
  /\ lastOk' = IF Len(todo) = 1 THEN runs ELSE lastOk
  /\ UNCHANGED <<slots, wksp, tensors, counters, calls, failed, wrapped, expected>>

-----------------------------------------------------------------------------
Step ==
  \/ FeedFirst \/ FeedSwap \/ FeedCopy \/ FeedFails \/ FeedLost \/ FeedDone
  \/ SetParameter \/ SetParameterFails \/ CheckDone \/ Process \/ ProcessFails
  \/ Save \/ SaveFails \/ SaveLost \/ SaveDone

Next ==
  \/ ResetBuffers \/ \E c \in 1..N : ResetFails(c)
  \/ \E k \in NoWksp..N, lost \in SUBSET (1..N) : InitWksp(k, lost)
  \/ WriteInputs
  \/ RunGraph \/ rnn_RunGraph
  \/ Step

Spec == Init /\ [][Next]_vars

-----------------------------------------------------------------------------
(* Properties                                                              *)

\* The types; above all, no tensor and no computation gets what a connection
\* without its buffer would copy.
TypeOK ==
  /\ slots \in SlotLists
  /\ connected \in NoWksp..N
  /\ is_first_run \in BOOLEAN
  /\ buffer \in [1..N -> Data \cup {NoBuffer}]
  /\ mem \in [Tensor -> Data]
  /\ handle \in [Tensor -> Tensor] /\ param \in [Slot -> Tensor]
  /\ is_swapped \in [Tensor -> BOOLEAN]
  /\ todo \in Seq({"feed", "check", "process", "save"})
  /\ idx \in Nat \ {0}
  /\ runs \in 0..MaxRuns /\ fails \in 0..MaxFails /\ setups \in 0..MaxSetups
  /\ lastOk \in 0..MaxRuns
  /\ calls \in 0..2 /\ failed \in BOOLEAN /\ wrapped \in BOOLEAN
  /\ expected \in [Ins -> Data]

\* The first parameter, over all NBG nodes, that its tensor is.
First(s) == \A r \in 1..s - 1 : slots[r].tensor # slots[s].tensor

\* No tensor is a parameter twice.
Distinct == \A s \in Slot : First(s)

\* A run works on the memory its tensors have, not on what they were swapped away
\* from, also when a call has failed between two parameters.  That is what the code
\* achieves: it clears the mark at the first parameter a tensor is, so a second one,
\* of the same node or of another, keeps the old memory although "all
\* inputs/outputs need to be set" (vsi_nn_graph.c:102); such a run is not caught.
ParamsCurrent ==
  Phase("process") => \A s \in Slot : First(s) => param[s] = handle[slots[s].tensor]

\* Where the nodes that read tensor t read it, an NBG node in the memory it knows.
Read(t) == {handle[t]} \cup {param[s] : s \in {s \in Slot : slots[s].tensor = t /\ ~slots[s].writes}}

\* What the readers of the inputs of connection c find.
Reads(c) == UNION {{mem[b] : b \in Read(In(c, j))} : j \in 1..Len(Conns[c].ins)}

\* In a row of successful calls of vsi_nn_RunGraph the first one computes on what
\* the application left in the inputs, and each further one, in every input of
\* every connection, on what the run before it has computed, as long as no tensor
\* is a parameter twice.
StateCarried ==
  Phase("process") /\ ~failed /\ ~wrapped /\ Distinct =>
    \A c \in 1..connected : \A j \in 1..Len(Conns[c].ins) :
      \A b \in Read(In(c, j)) : mem[b] = expected[In(c, j)]

\* The state of a copied connection survives failed calls, and vsi_nn_rnn_RunGraph:
\* a call after the first computes, the same in all inputs, on a state that is no
\* older than that of the last call that succeeded, and never on an output a failed
\* run has left half-written.  (The first call of vsi_nn_rnn_RunGraph feeds twice and
\* so computes on the buffer instead of what the application wrote.)
CopiedStateKept ==
  Phase("process") /\ calls = 2 =>
    \A c \in 1..connected :
      Swappable(c) \/ \E run \in lastOk..runs : Reads(c) = {run}
=============================================================================
