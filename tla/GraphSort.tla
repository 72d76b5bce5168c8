------------------------------ MODULE GraphSort ------------------------------
(***************************************************************************)
(* vsi_nn_SortGraphNode of ovxlib's vsi_nn_graph.c: the order in which     *)
(* vsi_nn_SetupGraph creates the driver's nodes.                           *)
(*                                                                         *)
(* The nodes that are left are kept at the front of an array.  A round     *)
(* scans them; a node whose input tensors have all been produced is moved  *)
(* to the result, the last of the nodes that are left takes its place, and *)
(* the scan goes on from there.  Rounds are repeated until nothing is left *)
(* or a round has moved nothing.                                           *)
(***************************************************************************)
EXTENDS Naturals, Sequences

CONSTANTS
  NumNodes,   \* graph->node_num; the nodes are numbered from 0
  TensorId,     \* ids of tensors
  Graphs,     \* the graphs that are sorted
  NULL,
  Garbage     \* an array that nothing has been written to

NodeId == 0 .. NumNodes - 1

\* What the function reads of a graph: the tensors each node reads and writes,
\* the tensors that are constant (or absent from the graph's map), and the
\* inputs of the graph.  VSI_NN_TENSOR_ID_NA is left out of every set.
Graph == [in : [NodeId -> SUBSET TensorId], out : [NodeId -> SUBSET TensorId],
          const : SUBSET TensorId, input : SUBSET TensorId]

ASSUME SortAssumption ==
  /\ NumNodes \in Nat
  /\ Graphs \subseteq Graph
  /\ {NULL, Garbage} \cap [1 .. NumNodes -> NodeId] = {}

VARIABLES
  graph,
  tensors,       \* the tensors marked TRUE
  nodes,         \* the array of node ids
  sorted_nodes,  \* the part of the result that is written, in order
  count,         \* how many nodes are left: nodes[0 .. count-1]
  index,             \* the scan's index
  dirty,         \* this round has moved a node
  pc,
  result

sortVars == <<graph, tensors, nodes, sorted_nodes, count, index, dirty, pc, result>>

SortTypeOK ==
  /\ graph \in Graphs
  /\ tensors \in SUBSET TensorId
  /\ nodes \in [NodeId -> NodeId]
  /\ sorted_nodes \in Seq(NodeId)
  /\ count \in 0 .. NumNodes
  /\ index \in 0 .. NumNodes
  /\ dirty \in BOOLEAN
  /\ pc \in {"start", "scan", "finish", "done", "no_memory"}
  /\ result \in [1 .. NumNodes -> NodeId] \cup {NULL, Garbage}

SortInit ==
  /\ graph \in Graphs
  /\ tensors = {}
  /\ nodes = [k \in NodeId |-> k]
  /\ sorted_nodes = <<>>
  /\ count = NumNodes
  /\ index = 0
  /\ dirty = FALSE
  /\ pc = "start"
  /\ result = NULL

\* The arrays are allocated and the tensors that need no producer are marked.
Mark ==
  /\ pc = "start"
  /\ tensors' = graph.const \cup graph.input
  /\ pc' = "scan"
  /\ UNCHANGED <<graph, nodes, sorted_nodes, count, index, dirty, result>>

\* Without memory for tensors or sorted_nodes the result is NULL.  Without
\* memory for nodes alone it is sorted_nodes, which nothing has been written to.
AllocFails ==
  /\ pc = "start"
  /\ result' \in {NULL, Garbage}
  /\ pc' = "no_memory"
  /\ UNCHANGED <<graph, tensors, nodes, sorted_nodes, count, index, dirty>>

\* all_tensor_processed
Processed(n) == graph.in[n] \subseteq tensors

\* Mutant: the last node takes no part in the swap.
TakeNoSwap ==
  /\ pc = "scan" /\ index < count
  /\ Processed(nodes[index])
  /\ sorted_nodes' = Append(sorted_nodes, nodes[index])
  /\ count' = count - 1
  /\ dirty' = TRUE
  /\ tensors' = tensors \cup graph.out[nodes[index]]
  /\ UNCHANGED <<graph, nodes, index, pc, result>>

\* Mutant: it is not noted that the round has moved a node.
TakeClean ==
  /\ pc = "scan" /\ index < count
  /\ Processed(nodes[index])
  /\ sorted_nodes' = Append(sorted_nodes, nodes[index])
  /\ nodes' = [nodes EXCEPT ![index] = nodes[count - 1]]
  /\ count' = count - 1
  /\ tensors' = tensors \cup graph.out[nodes[index]]
  /\ UNCHANGED <<graph, index, dirty, pc, result>>

\* The index is stepped back and forth again: the node that was swapped in is
\* the next one.
Take ==
  /\ pc = "scan" /\ index < count
  /\ Processed(nodes[index])
  /\ sorted_nodes' = Append(sorted_nodes, nodes[index])
  /\ nodes' = [nodes EXCEPT ![index] = nodes[count - 1]]
  /\ count' = count - 1
  /\ dirty' = TRUE
  /\ tensors' = tensors \cup graph.out[nodes[index]]
  /\ UNCHANGED <<graph, index, pc, result>>

Skip ==
  /\ pc = "scan" /\ index < count
  /\ ~Processed(nodes[index])
  /\ index' = index + 1
  /\ UNCHANGED <<graph, tensors, nodes, sorted_nodes, count, dirty, pc, result>>

\* Mutant: dirty is not reset for the next round.
NextRoundDirty ==
  /\ pc = "scan" /\ index = count
  /\ dirty /\ count > 0
  /\ index' = 0
  /\ UNCHANGED <<graph, tensors, nodes, sorted_nodes, count, dirty, pc, result>>

NextRound ==
  /\ pc = "scan" /\ index = count
  /\ dirty /\ count > 0
  /\ index' = 0
  /\ dirty' = FALSE
  /\ UNCHANGED <<graph, tensors, nodes, sorted_nodes, count, pc, result>>

LastRound ==
  /\ pc = "scan" /\ index = count
  /\ ~dirty \/ count = 0
  /\ pc' = "finish"
  /\ UNCHANGED <<graph, tensors, nodes, sorted_nodes, count, index, dirty, result>>

Finish ==
  /\ pc = "finish"
  /\ result' = IF count = 0 THEN sorted_nodes ELSE NULL
  /\ pc' = "done"
  /\ UNCHANGED <<graph, tensors, nodes, sorted_nodes, count, index, dirty>>

SortNext == Mark \/ AllocFails \/ Take \/ Skip \/ NextRound \/ LastRound \/ Finish

\* A sequential function: it goes on while it can.
SortSpec == SortInit /\ [][SortNext]_sortVars /\ WF_sortVars(SortNext)

-----------------------------------------------------------------------------
(* Properties                                                              *)

\* The tensors that exist in graph g before node number k of the order s runs.
Before(g, s, k) ==
  g.const \cup g.input \cup UNION {g.out[s[j]] : j \in 1 .. k - 1}

\* Every node at one of NumNodes positions, so each once, and after the nodes
\* that produce what it reads.
Orders ==
  {s \in [1 .. NumNodes -> NodeId] :
     /\ \A n \in NodeId : \E k \in 1 .. NumNodes : s[k] = n
     /\ \A k \in 1 .. NumNodes : graph.in[s[k]] \subseteq Before(graph, s, k)}

\* The result is an execution order of all nodes, in a graph of any shape: one
\* with several producers of a tensor, with nodes that read what they write.
ResultIsOrder == pc = "done" /\ result # NULL => result \in Orders

\* The sort gives up only when there is no order at all: neither the swapping
\* nor the end of the rounds misses a node.
GivesUpOnlyOnCycles == pc = "done" /\ result = NULL => Orders = {}

\* The rounds come to an end, also on a cyclic graph.
Terminates == <>(pc \in {"done", "no_memory"})

-----------------------------------------------------------------------------
(* The inductive invariant                                                 *)

\* The nodes that are left and those in the result are all nodes.
Left == {nodes[k] : k \in 0 .. count - 1}
Sorted == {sorted_nodes[k] : k \in 1 .. Len(sorted_nodes)}

PartitionInv ==
  /\ Len(sorted_nodes) = NumNodes - count
  /\ Left \cup Sorted = NodeId

\* Exactly the tensors that have been produced are marked, in an order that
\* can be executed.
TensorInv ==
  /\ pc = "start" => sorted_nodes = <<>>
  /\ pc \in {"scan", "finish", "done"} => tensors = Before(graph, sorted_nodes, Len(sorted_nodes) + 1)
  /\ \A k \in 1 .. Len(sorted_nodes) : graph.in[sorted_nodes[k]] \subseteq Before(graph, sorted_nodes, k)

\* As long as a round has moved nothing, no node it has passed can run.
RoundInv ==
  /\ index <= count
  /\ pc = "start" => index = 0
  /\ pc \in {"start", "scan"} /\ ~dirty => \A k \in 0 .. index - 1 : ~Processed(nodes[k])
  /\ pc = "finish" => count = 0 \/ \A n \in Left : ~Processed(n)

ResultInv ==
  pc = "done" =>
    \/ count = 0 /\ result = sorted_nodes
    \/ /\ count # 0 /\ result = NULL
       /\ \A n \in Left : ~Processed(n)

SortIInv == SortTypeOK /\ PartitionInv /\ TensorInv /\ RoundInv /\ ResultInv
=============================================================================
