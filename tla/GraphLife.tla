------------------------------ MODULE GraphLife ------------------------------
(***************************************************************************)
(* vsi_nn_graph.c of ovxlib: the life of a graph.  The application adds    *)
(* and removes tensors and nodes, names the inputs and outputs, sets the   *)
(* graph up, perhaps again after a failure, and releases it.               *)
(*                                                                         *)
(* Tensors are found by their id in tensor_table.  cur_tid, the id given   *)
(* next to a tensor that is added with VSI_NN_TENSOR_ID_AUTO, shares its   *)
(* memory with tensor_num, and counts every tensor that was added, also    *)
(* one with an id of its own; ids from tensor_num on are refused to nodes  *)
(* and not released.  A tensor may have no driver tensor (t) before its    *)
(* producer is computed.  Setup goes over the nodes four times, and any    *)
(* node may fail; nothing is undone then.  The first three loops change    *)
(* nothing that is modelled but the driver tensors, and are one step here. *)
(*                                                                         *)
(* Nodes are known by the ids of the tensors they read and write.  The     *)
(* order of the sort is any order GraphSort allows.  Constant tensors are  *)
(* inputs here.  An operation is handed NULL for an id without a tensor,   *)
(* and may or may not dereference it.  Memory does not run out.            *)
(***************************************************************************)
EXTENDS Naturals, Sequences, SequencesExt

CONSTANTS
  MaxId,      \* ids are 0..MaxId
  MaxTensors, \* bound: tensors ever made
  Attrs,      \* the tensors that may be added: [id |-> id, sized |-> known dimensions]
  NodeKinds,  \* the nodes that may be added: [ins |-> ids, outs |-> ids]
  MaxNodes,   \* bound: nodes ever added
  OutputSeqs, \* arguments of vsi_nn_SetGraphOutputs, called once (bound)
  MaxSetups,  \* bound: calls of vsi_nn_SetupGraph
  None

Id == 0..MaxId
Tensor == 1..MaxTensors

ASSUME GraphLifeAssumption ==
  /\ MaxId \in Nat /\ MaxTensors \in Nat /\ MaxNodes \in Nat /\ MaxSetups \in Nat
  /\ Attrs \subseteq [id : Id, sized : BOOLEAN]
  /\ NodeKinds \subseteq [ins : SUBSET Id, outs : SUBSET Id]
  /\ OutputSeqs \subseteq Seq(Id)
  /\ None \notin Tensor /\ None \notin NodeKinds

VARIABLES
  tensor_table, \* the tensor of each id, or None
  cur_tid,      \* also tensor_num
  node_table,   \* the nodes in the order of their ids, None where one was removed
  inputs,       \* graph->input.tensors
  outputs,      \* graph->output.tensors
  exists,       \* complete_signal.exists, with one graph output in mind
  aligned,      \* whether complete_signal.write_address is, as its tensor needs
  signal,       \* complete_signal.tensor, or None
  created,      \* number of tensors made: they are 1..created
  frees,        \* how often each was released
  made,         \* those that have a driver tensor
  phase,        \* "idle", "crashed", "released", or the part of SetupGraph
  order,        \* node list of the setup in progress
  i,            \* position in it
  sorted,       \* argument of the setup in progress
  graph_inputs,  \* array of the setup in progress: what the driver is told of each input
  graph_outputs, \* the same of the outputs
  setups,
  inOrder       \* history: every id was AUTO, or the one AUTO would have given

table == <<tensor_table, cur_tid, inOrder>>
io == <<node_table, inputs, outputs, exists, aligned>>
objects == <<created, frees, made>>
progress == <<phase, order, i, sorted, setups>>
arrays == <<graph_inputs, graph_outputs>>
vars == <<table, io, signal, objects, progress, arrays>>

Init ==
  /\ tensor_table = [id \in Id |-> None]
  /\ cur_tid = 0
  /\ node_table = <<>>
  /\ inputs = {}
  /\ outputs = <<>>
  /\ exists \in BOOLEAN
  /\ aligned \in BOOLEAN /\ (exists \/ aligned)
  /\ signal = None
  /\ created = 0
  /\ frees = [t \in Tensor |-> 0]
  /\ made = {}
  /\ phase = "idle"
  /\ order = <<>>
  /\ i = 1
  /\ sorted = FALSE
  /\ graph_inputs = None
  /\ graph_outputs = None
  /\ setups = 0
  /\ inOrder = TRUE

Node(n) == node_table[n]
AllNodes == 1..Len(node_table)
Ids(ids) == {id \in ids : tensor_table[id] # None}
Free(ts) == frees' = [t \in Tensor |-> IF t \in ts THEN frees[t] + 1 ELSE frees[t]]

-----------------------------------------------------------------------------
(* Building the graph                                                      *)

\* _add_tensor and vsi_nn_AttachTensorToGraph; sized: its dimensions are known, so
\* that the driver tensor is made at once.  A failure changes nothing.
AddTensor(id, sized) ==
  /\ phase = "idle"
  /\ created < MaxTensors
  /\ created' = created + 1
  /\ tensor_table' = [tensor_table EXCEPT ![id] = created']
  /\ made' = IF sized THEN made \cup {created'} ELSE made
  /\ cur_tid' = cur_tid + 1
  /\ inOrder' = (inOrder /\ id = cur_tid)
  /\ UNCHANGED <<io, signal, frees, progress, arrays>>

\* Mutant: the tensor is released and stays in the table.
RemoveTensorKeepsId(id) ==
  /\ phase = "idle"
  /\ tensor_table[id] # None
  /\ Free({tensor_table[id]})
  /\ UNCHANGED <<table, io, signal, created, made, progress, arrays>>

RemoveTensor(id) ==
  /\ phase = "idle"
  /\ tensor_table[id] # None
  /\ Free({tensor_table[id]})
  /\ tensor_table' = [tensor_table EXCEPT ![id] = None]
  /\ UNCHANGED <<cur_tid, inOrder, io, signal, created, made, progress, arrays>>

AddNode(kind) ==
  /\ phase = "idle"
  /\ Len(node_table) < MaxNodes
  /\ node_table' = Append(node_table, kind)
  /\ UNCHANGED <<table, inputs, outputs, exists, aligned, signal, objects, progress, arrays>>

\* node_num is not changed.
RemoveNode(n) ==
  /\ phase = "idle"
  /\ n \in AllNodes
  /\ Node(n) # None
  /\ node_table' = [node_table EXCEPT ![n] = None]
  /\ UNCHANGED <<table, inputs, outputs, exists, aligned, signal, objects, progress, arrays>>

SetGraphInputs(ids) ==
  /\ phase = "idle"
  /\ inputs = {}
  /\ inputs' = ids
  /\ UNCHANGED <<table, node_table, outputs, exists, aligned, signal, objects, progress, arrays>>

SetGraphOutputs(seq) ==
  /\ phase = "idle"
  /\ outputs = <<>>
  /\ outputs' = seq
  /\ UNCHANGED <<table, node_table, inputs, exists, aligned, signal, objects, progress, arrays>>

-----------------------------------------------------------------------------
(* vsi_nn_SetupGraph                                                       *)

\* Where a call of SetupGraph ends.
Leave(p) == phase' = p /\ order' = <<>> /\ i' = 1 /\ sorted' = FALSE
Goto(p) == phase' = p /\ UNCHANGED <<order, i, sorted>>

\* What the sort takes for given: inputs, and ids without a tensor.
Marked == inputs \cup {id \in Id : tensor_table[id] = None}

\* Mutant: the nodes stay in the order of their ids.
IsListOrder(o) == o = [k \in AllNodes |-> k]

IsOrder(o) ==
  \A k \in 1..Len(o) :
    Node(o[k]).ins \subseteq Marked \cup UNION {Node(o[l]).outs : l \in 1..k - 1}

\* An id the array of the sort, of length tensor_num, has no room for.
PastEnd ==
  \/ \E id \in inputs : id >= cur_tid
  \/ \E n \in AllNodes : \E id \in Node(n).ins \cup Node(n).outs : id >= cur_tid

Begin(o, sort) ==
  /\ order' = o
  /\ sorted' = sort
  /\ phase' = "setup"
  /\ i' = 1

\* The node list.  A removed node is dereferenced in the first loop.
SetupGraph(sort) ==
  /\ phase = "idle"
  /\ setups < MaxSetups
  /\ setups' = setups + 1
  /\ \/ /\ \E n \in AllNodes : Node(n) = None
        /\ Leave("crashed")
     \/ /\ \A n \in AllNodes : Node(n) # None
        /\ ~sort
        /\ Begin([k \in AllNodes |-> k], sort)
     \/ /\ \A n \in AllNodes : Node(n) # None
        /\ sort /\ PastEnd
        /\ Leave("crashed")
     \/ /\ \A n \in AllNodes : Node(n) # None
        /\ sort /\ ~PastEnd
        /\ \E o \in SetToSeqs(AllNodes) : IsOrder(o) /\ Begin(o, sort)
  /\ UNCHANGED <<table, io, signal, objects, arrays>>

AtNode == phase = "compute" /\ i <= Len(order)
CurNode == Node(order[i])

\* vsi_nn_GetTensors
GetTensors(ids) == {tensor_table[id] : id \in Ids({j \in ids : j < cur_tid})}

\* setup_node and optimize_node for every node, perhaps up to a node that fails: the
\* outputs get their dimensions, and operations may make driver tensors.
PrepareNodes ==
  /\ phase = "setup"
  /\ made' \in {made, made \cup GetTensors(UNION {Node(n).ins \cup Node(n).outs : n \in AllNodes})}
  /\ Goto("compute") \/ Leave("idle")
  /\ UNCHANGED <<table, io, signal, created, frees, setups, arrays>>

\* A node that is handed NULL for a tensor.
Lacks(n) == \E id \in Node(n).ins \cup Node(n).outs : id >= cur_tid \/ tensor_table[id] = None

PrepareCrashes ==
  /\ phase = "setup"
  /\ \E n \in AllNodes : Lacks(n)
  /\ Leave("crashed")
  /\ UNCHANGED <<table, io, signal, objects, setups, arrays>>

\* A round of compute_node: driver tensors for the outputs, then OpCompute, which
\* makes no node of an output without one.
OpCompute ==
  /\ AtNode
  /\ made' = made \cup GetTensors(CurNode.outs)
  /\ i' = i + 1
  /\ UNCHANGED <<table, io, signal, created, frees, phase, order, sorted, setups, arrays>>

\* The node fails, before or after its outputs were made.
ComputeFails ==
  /\ AtNode
  /\ made' \in {made, made \cup GetTensors(CurNode.outs)}
  /\ Leave("idle")
  /\ UNCHANGED <<table, io, signal, created, frees, setups, arrays>>

ComputeCrashes ==
  /\ AtNode
  /\ Lacks(order[i])
  /\ Leave("crashed")
  /\ UNCHANGED <<table, io, signal, objects, setups, arrays>>

ComputeEnds ==
  /\ phase = "compute" /\ i > Len(order)
  /\ Goto("signal")
  /\ UNCHANGED <<table, io, signal, objects, setups, arrays>>

-----------------------------------------------------------------------------
(* vsi_nn_TrySetupCompleteSignalNode and the identification of the outputs *)

NoSignal ==
  /\ phase = "signal" /\ ~exists
  /\ Goto("identify")
  /\ UNCHANGED <<table, io, signal, objects, setups, arrays>>

\* There is no write address, or no node, or its operation fails without a tensor.
SignalRefused ==
  /\ phase = "signal" /\ exists
  /\ Leave("idle")
  /\ UNCHANGED <<table, io, signal, objects, setups, arrays>>

\* With several outputs the call only logs that and goes on without a tensor;
\* without an output, its array is NULL.
SignalUnsupported ==
  /\ phase = "signal" /\ exists
  /\ Len(outputs) # 1
  /\ IF outputs = <<>> THEN Leave("crashed") ELSE Goto("identify")
  /\ signal' = None
  /\ UNCHANGED <<table, io, objects, setups, arrays>>

\* The operation of the signal dereferences the output's tensor, and the new one,
\* which cannot be made where the write address is not aligned.
SignalCrashes ==
  /\ phase = "signal" /\ exists
  /\ Len(outputs) = 1
  /\ tensor_table[outputs[1]] = None \/ ~aligned
  /\ Leave("crashed")
  /\ UNCHANGED <<table, io, signal, objects, setups, arrays>>

NewSignal ==
  /\ phase = "signal" /\ exists
  /\ Len(outputs) = 1
  /\ aligned
  /\ created < MaxTensors
  /\ created' = created + 1
  /\ made' = made \cup {created'}
  /\ UNCHANGED <<table, io, frees, setups, arrays>>

\* The operation is computed.
SignalComputed == NewSignal /\ tensor_table[outputs[1]] # None /\ Goto("identify")

\* Mutant: the new tensor is not kept.
SignalNotKept == SignalComputed /\ UNCHANGED signal

SignalNode == SignalComputed /\ signal' = created'

\* OpCompute of the signal's node fails: the new tensor is lost.
SignalFails == NewSignal /\ Leave("idle") /\ UNCHANGED signal

\* Mutant: the place is found before the signal is counted.
GraphOutputsOffByOne(beyond) ==
  IF exists
    THEN [k \in 1..Len(outputs) + 1 |->
            IF k = Len(outputs) THEN signal ELSE tensor_table[Append(outputs, beyond)[k]]]
    ELSE [k \in 1..Len(outputs) |-> tensor_table[outputs[k]]]

\* The array for vxIdentifyGraphInputsAndOutputs.  With a signal the loop reads an id
\* from beyond the outputs, and what it finds is then replaced by the signal.
GraphOutputs(beyond) ==
  IF exists
    THEN [[k \in 1..Len(outputs) + 1 |-> tensor_table[Append(outputs, beyond)[k]]]
            EXCEPT ![Len(outputs) + 1] = signal]
    ELSE [k \in 1..Len(outputs) |-> tensor_table[outputs[k]]]

\* The same of the inputs, by their ids.
GraphInputs == [id \in inputs |-> tensor_table[id]]

Identify ==
  /\ phase = "identify"
  /\ IF exists /\ signal = None
       THEN Leave("crashed") /\ UNCHANGED arrays
       ELSE /\ Leave("identified")
            /\ graph_inputs' = GraphInputs
            /\ \E beyond \in Id : graph_outputs' = GraphOutputs(beyond)
  /\ UNCHANGED <<table, io, signal, objects, setups>>

\* Whether the driver takes them or not, the setup returns.
SetupReturns ==
  /\ phase = "identified"
  /\ Leave("idle")
  /\ graph_inputs' = None /\ graph_outputs' = None
  /\ UNCHANGED <<table, io, signal, objects, setups>>

-----------------------------------------------------------------------------
ReleasedTensors == {tensor_table[id] : id \in Ids({j \in Id : j < cur_tid})}

Released ==
  /\ phase = "idle"
  /\ Leave("released")
  /\ tensor_table' = [id \in Id |-> None]
  /\ node_table' = <<>> /\ inputs' = {} /\ outputs' = <<>>
  /\ made' = {}
  /\ UNCHANGED arrays
  /\ UNCHANGED <<cur_tid, inOrder, exists, aligned, signal, created, setups>>

\* Mutant: the tensor of the signal is forgotten.
ReleaseGraphNotSignal == Released /\ Free(ReleasedTensors)

\* vsi_nn_ReleaseGraph: the tables, the arrays and the driver's graph go too.
ReleaseGraph ==
  Released /\ Free(ReleasedTensors \cup (IF exists /\ signal # None THEN {signal} ELSE {}))

Next ==
  \/ \E a \in Attrs : AddTensor(a.id, a.sized)
  \/ \E id \in Id : RemoveTensor(id)
  \/ \E kind \in NodeKinds : AddNode(kind)
  \/ \E n \in AllNodes : RemoveNode(n)
  \/ SetGraphInputs({0})
  \/ \E seq \in OutputSeqs : SetGraphOutputs(seq)
  \/ \E sort \in BOOLEAN : SetupGraph(sort)
  \/ PrepareNodes \/ PrepareCrashes \/ OpCompute \/ ComputeFails \/ ComputeCrashes \/ ComputeEnds
  \/ NoSignal \/ SignalRefused \/ SignalUnsupported \/ SignalCrashes \/ SignalNode \/ SignalFails
  \/ Identify \/ SetupReturns
  \/ ReleaseGraph

Spec == Init /\ [][Next]_vars

-----------------------------------------------------------------------------
(* Properties                                                              *)

\* The types; the table holds no tensor that was released, and complete_signal none
\* before the graph itself is released.
TypeOK ==
  /\ tensor_table \in [Id -> 1..created \cup {None}]
  /\ cur_tid \in 0..MaxTensors
  /\ node_table \in Seq(NodeKinds \cup {None})
  /\ inputs \subseteq Id
  /\ outputs \in Seq(Id)
  /\ exists \in BOOLEAN
  /\ aligned \in BOOLEAN
  /\ signal \in 1..created \cup {None}
  /\ created \in 0..MaxTensors
  /\ frees \in [Tensor -> Nat]
  /\ made \subseteq 1..created
  /\ phase \in {"idle", "setup", "compute", "signal", "identify", "identified", "crashed", "released"}
  /\ order \in Seq(1..MaxNodes)
  /\ i \in 1..MaxNodes + 1
  /\ sorted \in BOOLEAN
  /\ setups \in 0..MaxSetups
  /\ inOrder \in BOOLEAN
  /\ \A id \in Id : tensor_table[id] # None => frees[tensor_table[id]] = 0
  /\ signal # None /\ phase # "released" => frees[signal] = 0

\* No tensor is released twice, whatever was added, removed, and set up in part
\* before the graph is released; and releasing it releases every tensor it was given
\* and the signal it made, unless ids were not given in order.  Signals made by setups
\* that failed or were repeated are not kept; the graph has made created - cur_tid of
\* them.
ReleasedOnce ==
  /\ \A t \in Tensor : frees[t] <= 1
  /\ phase = "released" /\ inOrder /\ created - cur_tid = (IF signal = None THEN 0 ELSE 1) =>
       \A t \in 1..created : frees[t] = 1

\* In a sorted graph, whose inputs have dimensions, an operation is computed only
\* when every tensor it reads has its driver tensor, though the sort knows nothing
\* of driver tensors and earlier setups may have failed anywhere.
InputsReady ==
  AtNode /\ sorted /\ GetTensors(inputs) \subseteq made =>
    GetTensors(CurNode.ins) \subseteq made

\* As long as memory does not run out, the program crashes only for a node that was
\* removed or has an id without a tensor, be it removed or not given yet, an input id
\* not given yet, or a complete signal in a graph without exactly one output, whose
\* output has no tensor, or whose write address is not aligned.
CrashesExplained ==
  phase = "crashed" =>
    \/ \E n \in AllNodes : Node(n) = None \/ Lacks(n)
    \/ \E id \in inputs : id >= cur_tid
    \/ /\ exists
       /\ \/ Len(outputs) # 1
          \/ tensor_table[outputs[1]] = None
          \/ ~aligned

\* What a setup tells the driver are the tensors of the graph's inputs, and those of its
\* outputs, in order, and then the signal, although one place too many is read; and an
\* output that a node writes has its driver tensor by then.
OutputsIdentified ==
  phase = "identified" =>
    /\ graph_inputs = [id \in inputs |-> tensor_table[id]]
    /\ Len(graph_outputs) = Len(outputs) + (IF exists THEN 1 ELSE 0)
    /\ exists => graph_outputs[Len(graph_outputs)] = signal /\ frees[signal] = 0
    /\ \A k \in 1..Len(outputs) :
         /\ graph_outputs[k] = tensor_table[outputs[k]]
         /\ \A n \in AllNodes :
              outputs[k] \in Ids(Node(n).outs) /\ outputs[k] < cur_tid =>
                graph_outputs[k] \in made
=============================================================================
