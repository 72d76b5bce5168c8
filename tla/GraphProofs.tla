----------------------------- MODULE GraphProofs -----------------------------
(***************************************************************************)
(* Proofs about the two modules of vsi_nn_graph.c.                         *)
(*                                                                         *)
(* GraphSort, for graphs of any number of nodes: the inductive invariant,  *)
(* that a result is an execution order, and that no result means that      *)
(* there is no order.                                                      *)
(*                                                                         *)
(* GraphLife, for any ids, tensors, nodes and outputs, and any number of   *)
(* setups that fail anywhere.  Two arguments run through its proofs.  One  *)
(* is about who holds a tensor: the table under one id, complete_signal,   *)
(* or nobody any more, and only a tensor that somebody holds is released.  *)
(* The other follows a setup from phase to phase: its order has all nodes, *)
(* and those before the position in it have made their outputs.            *)
(*                                                                         *)
(* Between them, that the orders GraphLife chooses among are those that    *)
(* GraphSort may return for the nodes of the graph.                        *)
(***************************************************************************)
EXTENDS GraphLife, GraphSort, FiniteSetTheorems, SequenceTheorems, WellFoundedInduction, TLAPS

-----------------------------------------------------------------------------
(* GraphSort                                                               *)

\* A set of natural numbers that is not empty has a smallest element.
LEMMA Smallest ==
  ASSUME NEW S, S \subseteq Nat, S # {}
  PROVE  \E m \in S : \A k \in S : ~(k < m)
<1> DEFINE Less == {p \in Nat \X Nat : p[1] < p[2]}
<1>1. IsWellFoundedOn(Less, Nat)
  BY NatLessThanWellFounded, Zenon DEF OpToRel
<1>2. \E x \in S : \A y \in S : ~(<<y, x>> \in Less)
  <2> HIDE DEF Less
  <2> QED BY <1>1, WFMin
<1>3. \A x, y \in S : y < x => <<y, x>> \in Less
  OBVIOUS
<1> QED
  BY <1>2, <1>3

\* The sequence s is q with node n behind it: what is available before the
\* earlier positions is as it was, and after it there are the outputs of n too.
IsAppended(g, q, n, s) ==
  /\ Len(s) = Len(q) + 1
  /\ \A k \in 1 .. Len(q) : s[k] = q[k]
  /\ s[Len(s)] = n
  /\ \A k \in 1 .. Len(s) : Before(g, s, k) = Before(g, q, k)
  /\ Before(g, s, Len(s) + 1) = Before(g, q, Len(s)) \cup g.out[n]

LEMMA BeforeAppend ==
  ASSUME NEW g, NEW q \in Seq(NodeId), NEW n \in NodeId, NEW s, s = Append(q, n)
  PROVE  IsAppended(g, q, n, s)
<1>1. /\ Len(s) = Len(q) + 1
      /\ \A k \in 1 .. Len(q) : s[k] = q[k]
      /\ s[Len(s)] = n
  BY AppendProperties
<1>2. Len(q) \in Nat
  BY LenProperties
<1>3. \A k \in 1 .. Len(s) : Before(g, s, k) = Before(g, q, k)
  <2> SUFFICES ASSUME NEW k \in 1 .. Len(s) PROVE Before(g, s, k) = Before(g, q, k)
    OBVIOUS
  <2>1. \A j \in 1 .. k - 1 : s[j] = q[j]
    BY <1>1, <1>2
  <2>2. {g.out[s[j]] : j \in 1 .. k - 1} = {g.out[q[j]] : j \in 1 .. k - 1}
    BY <2>1
  <2> QED BY <2>2 DEF Before
<1>4. Before(g, s, Len(s) + 1) = Before(g, q, Len(s)) \cup g.out[n]
  <2>1. \A j \in 1 .. Len(s) : j \in 1 .. Len(s) - 1 \/ j = Len(s)
    BY <1>1, <1>2
  <2>2. \A j \in 1 .. Len(s) - 1 : s[j] = q[j] /\ j \in 1 .. Len(s)
    BY <1>1, <1>2
  <2>3. Len(s) \in 1 .. Len(s)
    BY <1>1, <1>2
  <2>4. {g.out[s[j]] : j \in 1 .. Len(s)}
          = {g.out[q[j]] : j \in 1 .. Len(s) - 1} \cup {g.out[n]}
    BY <1>1, <2>1, <2>2, <2>3
  <2>5. Len(s) + 1 - 1 = Len(s)
    BY <1>1, <1>2
  <2> QED BY <2>4, <2>5 DEF Before
<1> QED
  BY <1>1, <1>3, <1>4 DEF IsAppended

-----------------------------------------------------------------------------
\* The initial state satisfies the inductive invariant.
LEMMA SortInitIInv == SortInit => SortIInv
<1> SUFFICES ASSUME SortInit PROVE SortIInv
  OBVIOUS
<1> USE SortAssumption DEF SortInit
<1>1. SortTypeOK
  <2>1. sorted_nodes \in Seq(NodeId)
    BY EmptySeq
  <2>2. nodes \in [NodeId -> NodeId]
    OBVIOUS
  <2>3. count \in 0 .. NumNodes /\ index \in 0 .. NumNodes
    OBVIOUS
  <2> QED BY <2>1, <2>2, <2>3 DEF SortTypeOK
<1>2. PartitionInv
  <2>1. \A n \in NodeId : n \in 0 .. count - 1 /\ nodes[n] = n
    BY DEF NodeId
  <2>2. Left = NodeId /\ Sorted = {}
    BY <2>1 DEF Left, Sorted, NodeId
  <2> QED BY <2>2 DEF PartitionInv
<1>3. TensorInv /\ RoundInv /\ ResultInv
  BY DEF TensorInv, RoundInv, ResultInv
<1> QED
  BY <1>1, <1>2, <1>3 DEF SortIInv

\* Every step keeps the types.
LEMMA SortTypeStep == SortIInv /\ [SortNext]_sortVars => SortTypeOK'
<1> SUFFICES ASSUME SortIInv, [SortNext]_sortVars PROVE SortTypeOK'
  OBVIOUS
<1> USE SortAssumption DEF SortIInv, SortTypeOK
<1>1. CASE Mark
  <2>1. graph \in Graph
    OBVIOUS
  <2> QED BY <1>1, <2>1 DEF Mark, Graph
<1>2. CASE AllocFails
  BY <1>2 DEF AllocFails
<1>3. CASE Take
  <2>1. index \in NodeId /\ count - 1 \in NodeId /\ count - 1 \in 0 .. NumNodes
    BY <1>3 DEF Take, NodeId
  <2>2. graph.out[nodes[index]] \subseteq TensorId
    BY <2>1 DEF Graph
  <2>3. sorted_nodes' \in Seq(NodeId)
    BY <1>3, <2>1 DEF Take
  <2> QED BY <1>3, <2>1, <2>2, <2>3 DEF Take
<1>4. CASE Skip
  BY <1>4 DEF Skip
<1>5. CASE NextRound
  <2>1. /\ index' = 0 /\ dirty' = FALSE
        /\ UNCHANGED <<graph, tensors, nodes, sorted_nodes, count, pc, result>>
    BY <1>5 DEF NextRound
  <2>2. 0 \in 0 .. NumNodes
    OBVIOUS
  <2> QED BY <2>1, <2>2
<1>6. CASE LastRound
  BY <1>6 DEF LastRound
<1>7. CASE Finish
  <2>1. count = 0 => sorted_nodes \in [1 .. NumNodes -> NodeId]
    BY LenProperties DEF PartitionInv
  <2> QED BY <1>7, <2>1 DEF Finish
<1>8. CASE UNCHANGED sortVars
  BY <1>8 DEF sortVars
<1> QED
  BY <1>1, <1>2, <1>3, <1>4, <1>5, <1>6, <1>7, <1>8 DEF SortNext

\* Only Take moves a node, from the nodes that are left to the result: none is
\* lost when the last one takes its place.
LEMMA PartitionStep == SortIInv /\ [SortNext]_sortVars => PartitionInv'
<1> SUFFICES ASSUME SortIInv, [SortNext]_sortVars PROVE PartitionInv'
  OBVIOUS
<1> USE SortAssumption DEF SortIInv
<1>1. CASE Take
  <2> DEFINE n == nodes[index]
  <2>1. n \in NodeId /\ index \in NodeId /\ count \in Nat /\ count # 0 /\ index < count
    BY <1>1 DEF Take, SortTypeOK, NodeId
  <2>2. /\ sorted_nodes' = Append(sorted_nodes, n) /\ count' = count - 1
        /\ nodes' = [nodes EXCEPT ![index] = nodes[count - 1]]
    BY <1>1 DEF Take
  <2>3. /\ Len(sorted_nodes') = Len(sorted_nodes) + 1
        /\ \A k \in 1 .. Len(sorted_nodes) : sorted_nodes'[k] = sorted_nodes[k]
        /\ sorted_nodes'[Len(sorted_nodes) + 1] = n
    BY <2>1, <2>2, AppendProperties DEF SortTypeOK
  <2>4. Len(sorted_nodes) \in Nat
    BY LenProperties DEF SortTypeOK
  <2>5. Len(sorted_nodes') = NumNodes - count'
    BY <2>1, <2>2, <2>3, <2>4 DEF PartitionInv
  <2>6. Sorted' = Sorted \cup {n}
    BY <2>3, <2>4 DEF Sorted
  <2>7. Left \subseteq Left' \cup {n}
    <3> SUFFICES ASSUME NEW k \in 0 .. count - 1, nodes[k] # n PROVE nodes[k] \in Left'
      BY DEF Left
    <3>1. k # index
      OBVIOUS
    <3>2. CASE k = count - 1
      <4>1. index \in 0 .. count' - 1 /\ nodes'[index] = nodes[k]
        BY <2>1, <2>2, <3>1, <3>2 DEF SortTypeOK
      <4> QED BY <4>1 DEF Left
    <3>3. CASE k # count - 1
      <4>1. k \in 0 .. count' - 1 /\ nodes'[k] = nodes[k]
        BY <2>1, <2>2, <3>1, <3>3 DEF SortTypeOK, NodeId
      <4> QED BY <4>1 DEF Left
    <3> QED BY <3>2, <3>3
  <2>8. Left' \subseteq NodeId
    BY SortTypeStep, <2>1, <2>2 DEF Left, SortTypeOK, NodeId
  <2> QED BY <2>1, <2>5, <2>6, <2>7, <2>8 DEF PartitionInv
<1>2. CASE ~Take
  <2>1. UNCHANGED <<nodes, sorted_nodes, count>>
    BY <1>2 DEF SortNext, Mark, AllocFails, Skip, NextRound, LastRound, Finish, sortVars
  <2> QED BY <2>1 DEF PartitionInv, Left, Sorted
<1> QED
  BY <1>1, <1>2

\* What is marked is what the nodes of the result have produced.
LEMMA TensorStep == SortIInv /\ [SortNext]_sortVars => TensorInv'
<1> SUFFICES ASSUME SortIInv, [SortNext]_sortVars PROVE TensorInv'
  OBVIOUS
<1> USE SortAssumption DEF SortIInv
<1>1. CASE Mark
  <2>1. /\ sorted_nodes = <<>> /\ sorted_nodes' = <<>> /\ graph' = graph /\ pc' = "scan"
        /\ tensors' = graph.const \cup graph.input
    BY <1>1 DEF Mark, TensorInv
  <2>2. Before(graph, <<>>, 1) = graph.const \cup graph.input
    BY DEF Before
  <2> QED BY <2>1, <2>2 DEF TensorInv
<1>2. CASE Take
  <2> DEFINE n == nodes[index]
             s == sorted_nodes'
  <2>1. n \in NodeId /\ graph' = graph /\ pc = "scan" /\ pc' = "scan"
    BY <1>2 DEF Take, SortTypeOK, NodeId
  <2>2. /\ s = Append(sorted_nodes, n)
        /\ tensors' = tensors \cup graph.out[n]
        /\ graph.in[n] \subseteq tensors
    BY <1>2 DEF Take, Processed
  <2> HIDE DEF n, s
  <2>3. IsAppended(graph, sorted_nodes, n, s)
    <3>1. sorted_nodes \in Seq(NodeId)
      BY DEF SortTypeOK
    <3> QED BY <2>1, <2>2, <3>1, BeforeAppend
  <2>4. Len(sorted_nodes) \in Nat
    BY LenProperties DEF SortTypeOK
  <2>5. tensors = Before(graph, sorted_nodes, Len(sorted_nodes) + 1)
    BY <2>1 DEF TensorInv
  <2>6. tensors' = Before(graph, s, Len(s) + 1)
    BY <2>2, <2>3, <2>5 DEF IsAppended
  <2>7. \A k \in 1 .. Len(s) : graph.in[s[k]] \subseteq Before(graph, s, k)
    <3> SUFFICES ASSUME NEW k \in 1 .. Len(s)
                 PROVE  graph.in[s[k]] \subseteq Before(graph, sorted_nodes, k)
      BY <2>3 DEF IsAppended
    <3>1. CASE k \in 1 .. Len(sorted_nodes)
      BY <3>1, <2>3 DEF TensorInv, IsAppended
    <3>2. CASE k = Len(s)
      BY <3>2, <2>2, <2>3, <2>5 DEF IsAppended
    <3> QED BY <3>1, <3>2, <2>3, <2>4 DEF IsAppended
  <2>8. tensors' = Before(graph', sorted_nodes', Len(sorted_nodes') + 1)
    BY <2>1, <2>6 DEF s
  <2>9. \A k \in 1 .. Len(sorted_nodes') :
          graph'.in[sorted_nodes'[k]] \subseteq Before(graph', sorted_nodes', k)
    BY <2>1, <2>7 DEF s
  <2> QED BY <2>1, <2>8, <2>9 DEF TensorInv
<1>3. CASE ~Mark /\ ~Take
  <2>1. UNCHANGED <<graph, sorted_nodes, tensors>>
    BY <1>3 DEF SortNext, AllocFails, Skip, NextRound, LastRound, Finish, sortVars
  <2>2. /\ pc' = "start" => pc = "start"
        /\ pc' \in {"scan", "finish", "done"} => pc \in {"scan", "finish", "done"}
    BY <1>3 DEF SortNext, AllocFails, Skip, NextRound, LastRound, Finish, sortVars
  <2> QED BY <2>1, <2>2 DEF TensorInv, Before
<1> QED
  BY <1>1, <1>2, <1>3

\* A round that has moved nothing has passed only nodes that cannot run.
LEMMA RoundStep == SortIInv /\ [SortNext]_sortVars => RoundInv'
<1> SUFFICES ASSUME SortIInv, [SortNext]_sortVars PROVE RoundInv'
  OBVIOUS
<1> USE SortAssumption DEF SortIInv, RoundInv
<1>1. CASE Mark
  BY <1>1 DEF Mark, SortTypeOK
<1>2. CASE AllocFails
  BY <1>2 DEF AllocFails
<1>3. CASE Take
  <2>1. index \in Nat /\ count \in Nat /\ index <= count - 1
    BY <1>3 DEF Take, SortTypeOK
  <2>2. count' = count - 1 /\ index' = index /\ dirty' = TRUE /\ pc' = "scan"
    BY <1>3 DEF Take
  <2> QED BY <2>1, <2>2
<1>4. CASE Skip
  <2>1. index \in Nat /\ count \in Nat /\ index <= count - 1
    BY <1>4 DEF Skip, SortTypeOK
  <2>2. /\ index' = index + 1 /\ ~Processed(nodes[index]) /\ pc = "scan"
        /\ UNCHANGED <<graph, tensors, nodes, count, dirty, pc>>
    BY <1>4 DEF Skip
  <2>3. ~dirty => \A k \in 0 .. index' - 1 : ~Processed(nodes[k])
    BY <2>1, <2>2
  <2>4. ~dirty' => \A k \in 0 .. index' - 1 : ~Processed(nodes[k])'
    BY <2>2, <2>3 DEF Processed
  <2> QED BY <2>1, <2>2, <2>4
<1>5. CASE NextRound
  <2>1. index' = 0 /\ pc' = "scan" /\ count' = count /\ count \in Nat
    BY <1>5 DEF NextRound, SortTypeOK
  <2> QED BY <2>1
<1>6. CASE LastRound
  <2>1. /\ index = count /\ (~dirty \/ count = 0) /\ pc = "scan" /\ pc' = "finish"
        /\ UNCHANGED <<graph, tensors, nodes, count, index>>
    BY <1>6 DEF LastRound
  <2>2. count = 0 \/ \A n \in Left : ~Processed(n)
    BY <2>1 DEF Left
  <2>3. count' = 0 \/ \A n \in Left' : ~Processed(n)'
    BY <2>1, <2>2 DEF Left, Processed
  <2> QED BY <2>1, <2>3
<1>7. CASE Finish
  BY <1>7 DEF Finish
<1>8. CASE UNCHANGED sortVars
  BY <1>8 DEF sortVars, Processed, Left
<1> QED
  BY <1>1, <1>2, <1>3, <1>4, <1>5, <1>6, <1>7, <1>8 DEF SortNext

\* The result is complete, or the nodes that are left cannot run.
LEMMA ResultStep == SortIInv /\ [SortNext]_sortVars => ResultInv'
<1> SUFFICES ASSUME SortIInv, [SortNext]_sortVars PROVE ResultInv'
  OBVIOUS
<1> USE SortAssumption DEF SortIInv
<1>1. CASE Finish
  <2>1. /\ pc = "finish" /\ result' = IF count = 0 THEN sorted_nodes ELSE NULL
        /\ UNCHANGED <<graph, tensors, nodes, sorted_nodes, count>>
    BY <1>1 DEF Finish
  <2>2. count # 0 => \A n \in Left : ~Processed(n)
    BY <2>1 DEF RoundInv
  <2> QED BY <2>1, <2>2 DEF ResultInv, Left, Processed
<1>2. CASE UNCHANGED sortVars
  BY <1>2 DEF sortVars, ResultInv, Left, Processed
<1>3. CASE Mark \/ AllocFails \/ Take \/ Skip \/ NextRound \/ LastRound
  <2>1. pc' # "done"
    BY <1>3 DEF Mark, AllocFails, Take, Skip, NextRound, LastRound
  <2> QED BY <2>1 DEF ResultInv
<1> QED
  BY <1>1, <1>2, <1>3 DEF SortNext

\* IInv holds in every state of every run of the sort.
THEOREM SortInvariance == SortSpec => []SortIInv
<1>1. SortIInv /\ [SortNext]_sortVars => SortIInv'
  BY SortTypeStep, PartitionStep, TensorStep, RoundStep, ResultStep DEF SortIInv
<1> QED
  BY SortInitIInv, <1>1, PTL DEF SortSpec

-----------------------------------------------------------------------------
\* A result that is not NULL is an execution order of all nodes.
THEOREM ResultIsOrderThm == SortSpec => []ResultIsOrder
<1>1. SortIInv => ResultIsOrder
  <2> SUFFICES ASSUME SortIInv, pc = "done", result # NULL PROVE result \in Orders
    BY DEF ResultIsOrder
  <2> USE SortAssumption DEF SortIInv
  <2>1. count = 0 /\ result = sorted_nodes
    BY DEF ResultInv
  <2>2. Len(sorted_nodes) = NumNodes /\ sorted_nodes \in [1 .. NumNodes -> NodeId]
    BY <2>1, LenProperties DEF PartitionInv, SortTypeOK
  <2>3. \A n \in NodeId : \E k \in 1 .. NumNodes : sorted_nodes[k] = n
    <3>1. Left = {}
      BY <2>1 DEF Left
    <3> QED BY <3>1, <2>2 DEF PartitionInv, Sorted
  <2> QED BY <2>1, <2>2, <2>3 DEF Orders, TensorInv
<1> QED
  BY <1>1, SortInvariance, PTL

\* No result means that there is no order: in any order, take the first of the
\* nodes that are left; what it reads would come from nodes that were moved, so
\* it could have been moved too.
THEOREM GivesUpOnlyOnCyclesThm == SortSpec => []GivesUpOnlyOnCycles
<1>1. SortIInv => GivesUpOnlyOnCycles
  <2> SUFFICES ASSUME SortIInv, pc = "done", result = NULL, NEW s \in Orders PROVE FALSE
    BY DEF GivesUpOnlyOnCycles
  <2> USE SortAssumption DEF SortIInv
  <2>1. /\ s \in [1 .. NumNodes -> NodeId]
        /\ \A n \in NodeId : \E k \in 1 .. NumNodes : s[k] = n
        /\ \A k \in 1 .. NumNodes : graph.in[s[k]] \subseteq Before(graph, s, k)
    BY DEF Orders
  <2>2. count # 0 /\ count \in Nat /\ \A n \in Left : ~Processed(n)
    <3>1. ~(count = 0 /\ result = sorted_nodes)
      <4>1. count = 0 => sorted_nodes \in [1 .. NumNodes -> NodeId]
        BY LenProperties DEF PartitionInv, SortTypeOK
      <4> QED BY <4>1
    <3> QED BY <3>1 DEF ResultInv, SortTypeOK
  <2> DEFINE S == {k \in 1 .. NumNodes : s[k] \in Left}
  <2>3. S # {} /\ S \subseteq Nat
    <3>1. nodes[0] \in Left
      BY <2>2 DEF Left
    <3> QED BY <3>1, <2>1 DEF PartitionInv
  <2>4. PICK m \in S : \A k \in S : ~(k < m)
    <3> HIDE DEF S
    <3> QED BY <2>3, Smallest
  <2>5. \A j \in 1 .. m - 1 : s[j] \in Sorted
    BY <2>1, <2>4 DEF PartitionInv
  <2>6. Before(graph, s, m) \subseteq tensors
    <3>1. tensors = Before(graph, sorted_nodes, Len(sorted_nodes) + 1)
      BY DEF TensorInv
    <3>2. Len(sorted_nodes) + 1 - 1 = Len(sorted_nodes)
      BY LenProperties DEF SortTypeOK
    <3>3. \A j \in 1 .. m - 1 : \E k \in 1 .. Len(sorted_nodes) : s[j] = sorted_nodes[k]
      BY <2>5 DEF Sorted
    <3>4. \A j \in 1 .. m - 1 :
            graph.out[s[j]] \subseteq UNION {graph.out[sorted_nodes[k]] : k \in 1 .. Len(sorted_nodes)}
      BY <3>3
    <3> QED BY <3>1, <3>2, <3>4 DEF Before
  <2>7. Processed(s[m])
    BY <2>1, <2>4, <2>6 DEF Processed
  <2> QED BY <2>2, <2>4, <2>7
<1> QED
  BY <1>1, SortInvariance, PTL

-----------------------------------------------------------------------------
(* GraphLife's sort is GraphSort                                           *)

\* What vsi_nn_SortGraphNode finds when SetupGraph calls it.  Its nodes are numbered
\* from 0.
SortInput ==
  [in |-> [n \in NodeId |-> Node(n + 1).ins], out |-> [n \in NodeId |-> Node(n + 1).outs],
   const |-> {id \in Id : tensor_table[id] = None}, input |-> inputs]
FromOne(s) == [k \in 1..NumNodes |-> s[k] + 1]

LEMMA UpTo == ASSUME NEW n \in Nat PROVE IsFiniteSet(1..n) /\ Cardinality(1..n) = n
BY FS_Interval

LEMMA SameOrder ==
  ASSUME NumNodes = Len(node_table), graph = SortInput, NEW s \in [1..NumNodes -> NodeId]
  PROVE  s \in Orders <=> FromOne(s) \in SetToSeqs(AllNodes) /\ IsOrder(FromOne(s))
<1> DEFINE o == FromOne(s)
           P == 1..NumNodes
<1>1. NumNodes \in Nat
  BY SortAssumption
<1>2. P = AllNodes /\ IsFiniteSet(P) /\ Cardinality(P) = NumNodes
  <2>1. IsFiniteSet(1..NumNodes) /\ Cardinality(1..NumNodes) = NumNodes
    BY <1>1, UpTo
  <2> QED
    BY <2>1 DEF AllNodes
<1>3. \A k \in P : s[k] \in NodeId /\ o[k] = s[k] + 1 /\ o[k] \in P
  BY <1>1 DEF FromOne, NodeId
<1>4. o \in [P -> P] /\ Len(o) = NumNodes
  <2>1. o = [k \in P |-> o[k]] /\ o \in Seq(P)
    BY <1>1, <1>3 DEF FromOne
  <2> QED
    BY <1>1, <1>3, <2>1
<1>5. /\ \A n \in NodeId : n + 1 \in P
      /\ \A p \in P : p - 1 \in NodeId /\ (p - 1) + 1 = p
      /\ \A m, n \in NodeId : m + 1 = n + 1 => m = n
  BY <1>1 DEF NodeId
<1> HIDE DEF o, P
<1>6. (\A n \in NodeId : \E k \in P : s[k] = n) <=> o \in Surjection(P, P)
  <2>1. ASSUME \A n \in NodeId : \E k \in P : s[k] = n, NEW p \in P PROVE \E k \in P : o[k] = p
    <3>1. PICK k \in P : s[k] = p - 1
      BY <1>5, <2>1
    <3> QED
      BY <1>3, <1>5, <3>1
  <2>2. ASSUME \A p \in P : \E k \in P : o[k] = p, NEW n \in NodeId PROVE \E k \in P : s[k] = n
    <3>1. PICK k \in P : o[k] = n + 1
      BY <1>5, <2>2
    <3> QED
      BY <1>3, <1>5, <3>1
  <2> QED
    BY <1>4, <2>1, <2>2 DEF Surjection
<1>7. o \in Surjection(P, P) <=> o \in SetToSeqs(P)
  <2>1. o \in Surjection(P, P) => o \in Injection(P, P)
    BY <1>2, FS_SurjSameCardinalityImpliesInj
  <2>2. o \in Injection(P, P) => o \in Surjection(P, P)
    BY <1>2, FS_Injection
  <2>3. o \in Injection(P, P) <=> o \in SetToSeqs(P)
    BY <1>2, <1>4 DEF Injection, IsInjective, SetToSeqs, P
  <2> QED
    BY <2>1, <2>2, <2>3
<1>8. ASSUME NEW k \in P
      PROVE  graph.in[s[k]] \subseteq Before(graph, s, k) <=>
               Node(o[k]).ins \subseteq Marked \cup UNION {Node(o[l]).outs : l \in 1..k - 1}
  <2>1. \A j \in 1..k - 1 : j \in P
    BY <1>1 DEF P
  <2>2. \A j \in P : graph.in[s[j]] = Node(o[j]).ins /\ graph.out[s[j]] = Node(o[j]).outs
    BY <1>3 DEF SortInput
  <2>3. graph.const \cup graph.input = Marked
    BY DEF SortInput, Marked
  <2>4. {graph.out[s[j]] : j \in 1..k - 1} = {Node(o[l]).outs : l \in 1..k - 1}
    BY <2>1, <2>2
  <2> QED
    BY <2>2, <2>3, <2>4 DEF Before
<1>9. s \in Orders <=> /\ \A n \in NodeId : \E k \in P : s[k] = n
                       /\ \A k \in P : graph.in[s[k]] \subseteq Before(graph, s, k)
  BY DEF Orders, P
<1>10. IsOrder(o) <=> \A k \in P : Node(o[k]).ins \subseteq Marked \cup UNION {Node(o[l]).outs : l \in 1..k - 1}
  BY <1>4 DEF IsOrder, P
<1> QED
  BY <1>2, <1>6, <1>7, <1>8, <1>9, <1>10 DEF o

\* SetupGraph goes on with exactly the orders that may be the result of the sort.
THEOREM SortedOrders ==
  ASSUME NumNodes = Len(node_table), graph = SortInput
  PROVE  {o \in SetToSeqs(AllNodes) : IsOrder(o)} = {FromOne(s) : s \in Orders}
<1>1. ASSUME NEW s \in Orders PROVE FromOne(s) \in SetToSeqs(AllNodes) /\ IsOrder(FromOne(s))
  <2>1. s \in [1..NumNodes -> NodeId]
    BY DEF Orders
  <2> QED
    BY <2>1, SameOrder
<1>2. ASSUME NEW o \in SetToSeqs(AllNodes), IsOrder(o) PROVE \E s \in Orders : o = FromOne(s)
  <2> DEFINE s == [k \in 1..NumNodes |-> o[k] - 1]
  <2>1. NumNodes \in Nat /\ Cardinality(AllNodes) = NumNodes
    <3>1. NumNodes \in Nat
      BY SortAssumption
    <3>2. Cardinality(1..NumNodes) = NumNodes
      BY <3>1, UpTo
    <3> QED
      BY <3>1, <3>2 DEF AllNodes
  <2>2. o \in [1..NumNodes -> 1..NumNodes]
    BY <2>1 DEF SetToSeqs, AllNodes
  <2>3. s \in [1..NumNodes -> NodeId]
    BY <2>1, <2>2 DEF NodeId
  <2>4. o = FromOne(s)
    <3>1. \A k \in 1..NumNodes : s[k] + 1 = o[k]
      BY <2>1, <2>2
    <3> HIDE DEF s
    <3> QED
      BY <2>2, <3>1 DEF FromOne
  <2> HIDE DEF s
  <2> QED
    BY <1>2, <2>3, <2>4, SameOrder
<1> QED
  BY <1>1, <1>2

-----------------------------------------------------------------------------
(* GraphLife                                                               *)

\* The counters stay within their bounds because each tensor is counted once.
Counted == cur_tid <= created /\ Len(node_table) <= MaxNodes

\* A tensor is held once, and one that is held, or not made yet, was not released.
HeldOnce ==
  /\ \A id, jd \in Id : tensor_table[id] # None /\ tensor_table[id] = tensor_table[jd] => id = jd
  /\ \A t \in Tensor : t > created => frees[t] = 0
  /\ signal # None => exists /\ \A id \in Id : tensor_table[id] # signal
  /\ signal # None /\ phase # "released" => frees[signal] = 0

\* Ids that were given in order are the ids below cur_tid.
InOrder == inOrder => \A id \in Id : id >= cur_tid => tensor_table[id] = None

Signals == IF signal = None THEN 0 ELSE 1
Held == {t \in 1..created : t = signal \/ \E id \in Id : tensor_table[id] = t}

\* The signals ever made are created - cur_tid: as long as none of them was lost, a
\* tensor that nobody holds was released.
NoneLost ==
  phase # "released" =>
    /\ cur_tid + Signals <= created
    /\ inOrder /\ created = cur_tid + Signals => \A t \in 1..created : t \in Held \/ frees[t] = 1

\* Once a setup has begun, no node is missing, and its order has every node once.
Working == phase \in {"setup", "compute", "signal", "identify"}
OrderInv ==
  Working =>
    /\ \A n \in AllNodes : Node(n) # None
    /\ Len(order) = Len(node_table)
    /\ \A n \in AllNodes : \E k \in AllNodes : order[k] = n
    /\ \A k \in AllNodes : order[k] \in AllNodes
    /\ i <= Len(order) + 1
    /\ sorted => IsOrder(order)

\* The nodes computed so far have made their outputs.
ComputedInv ==
  /\ phase = "setup" => i = 1
  /\ phase = "compute" => \A k \in 1..i - 1 : GetTensors(Node(order[k]).outs) \subseteq made
  /\ phase \in {"signal", "identify", "identified"} =>
       \A n \in AllNodes : GetTensors(Node(n).outs) \subseteq made

\* A complete signal is there when the outputs are identified, if there is one output.
SignalInv == phase = "identify" /\ exists /\ Len(outputs) = 1 => signal # None

Building == TypeOK /\ Counted /\ HeldOnce /\ InOrder /\ NoneLost /\ ReleasedOnce
Setup == OrderInv /\ ComputedInv /\ SignalInv /\ CrashesExplained /\ OutputsIdentified
IInv == Building /\ Setup

-----------------------------------------------------------------------------
LEMMA Constants ==
  /\ MaxId \in Nat /\ MaxTensors \in Nat /\ MaxNodes \in Nat /\ MaxSetups \in Nat
  /\ Attrs \subseteq [id : Id, sized : BOOLEAN]
  /\ NodeKinds \subseteq [ins : SUBSET Id, outs : SUBSET Id]
  /\ OutputSeqs \subseteq Seq(Id)
  /\ None \notin Tensor /\ None \notin NodeKinds /\ 0 \in Id
  BY GraphLifeAssumption DEF Id

LEMMA Numbers ==
  ASSUME TypeOK
  PROVE  /\ Len(node_table) \in Nat /\ Len(order) \in Nat /\ Len(outputs) \in Nat
         /\ created \in Nat /\ cur_tid \in Nat /\ i \in Nat
         /\ 1..created \subseteq Tensor
  BY Constants DEF TypeOK, Tensor

\* The tensors behind ids are tensors that were made.
LEMMA TensorsMade ==
  ASSUME TypeOK, NEW ids \in SUBSET Id
  PROVE  GetTensors(ids) \subseteq 1..created
  BY DEF TypeOK, GetTensors, Ids

LEMMA NodeIds ==
  ASSUME TypeOK, NEW n \in AllNodes, Node(n) # None
  PROVE  Node(n).ins \subseteq Id /\ Node(n).outs \subseteq Id
<1>1. Node(n) \in NodeKinds
  BY DEF TypeOK, AllNodes, Node
<1> QED
  BY <1>1, Constants

\* An order has every node: n different nodes out of n are all of them.
LEMMA OrderHasAll ==
  ASSUME NEW n \in Nat, NEW o \in SetToSeqs(1..n)
  PROVE  /\ o \in [1..n -> 1..n]
         /\ \A m \in 1..n : \E k \in 1..n : o[k] = m
<1>1. IsFiniteSet(1..n) /\ Cardinality(1..n) = n
  BY FS_Interval
<1>2. o \in [1..n -> 1..n] /\ \A k, l \in 1..n : k # l => o[k] # o[l]
  BY <1>1 DEF SetToSeqs
<1> SUFFICES ASSUME NEW m \in 1..n, \A k \in 1..n : o[k] # m
             PROVE  FALSE
  BY <1>2
<1>3. o \in [1..n -> (1..n) \ {m}]
  BY <1>2
<1>4. IsFiniteSet((1..n) \ {m}) /\ Cardinality((1..n) \ {m}) < Cardinality(1..n)
  <2>1. IsFiniteSet((1..n) \ {m})
    BY <1>1, FS_RemoveElement
  <2>2. Cardinality((1..n) \ {m}) = Cardinality(1..n) - 1
    BY <1>1, FS_RemoveElement
  <2> QED
    BY <1>1, <2>1, <2>2
<1>5. \E k, l \in 1..n : k # l /\ o[k] = o[l]
  BY <1>1, <1>3, <1>4, FS_PigeonHole
<1> QED
  BY <1>2, <1>5

-----------------------------------------------------------------------------
(* Types                                                                   *)

\* The part of TypeOK that is about the tensors.
TensorType ==
  /\ tensor_table \in [Id -> 1..created \cup {None}]
  /\ cur_tid \in 0..MaxTensors
  /\ exists \in BOOLEAN
  /\ aligned \in BOOLEAN
  /\ signal \in 1..created \cup {None}
  /\ created \in 0..MaxTensors
  /\ frees \in [Tensor -> Nat]
  /\ made \subseteq 1..created
  /\ inOrder \in BOOLEAN
  /\ \A id \in Id : tensor_table[id] # None => frees[tensor_table[id]] = 0

\* The part that is about the nodes and the setup.
SetupType ==
  /\ node_table \in Seq(NodeKinds \cup {None})
  /\ inputs \subseteq Id
  /\ outputs \in Seq(Id)
  /\ phase \in {"idle", "setup", "compute", "signal", "identify", "identified", "crashed", "released"}
  /\ order \in Seq(1..MaxNodes)
  /\ i \in 1..MaxNodes + 1
  /\ sorted \in BOOLEAN
  /\ setups \in 0..MaxSetups

\* The clause about the signal is one of HeldOnce.
LEMMA Types ==
  /\ TypeOK => TensorType /\ SetupType
  /\ TensorType /\ SetupType /\ HeldOnce => TypeOK
  BY DEF TypeOK, TensorType, SetupType, HeldOnce

\* Steps that end the setup and change nothing else.
LEMMA OnlyLeaves ==
  ASSUME PrepareCrashes \/ ComputeCrashes \/ SignalRefused \/ SignalCrashes
  PROVE  /\ UNCHANGED <<table, io, signal, objects, setups, arrays>>
         /\ phase # "released"
         /\ \E p \in {"idle", "crashed"} : Leave(p)
BY DEF PrepareCrashes, ComputeCrashes, SignalRefused, SignalCrashes, AtNode

\* Whatever a call of SetupGraph goes on to, or leaves, has its type.
LEMMA ProgressType ==
  ASSUME SetupType, UNCHANGED io, setups' \in 0..MaxSetups,
         NEW p \in {"idle", "setup", "compute", "signal", "identify", "identified", "crashed", "released"},
         Leave(p) \/ Goto(p)
  PROVE  SetupType'
<1>1. <<>> \in Seq(1..MaxNodes) /\ 1 \in 1..MaxNodes + 1
  BY Constants
<1> QED
  BY <1>1 DEF SetupType, Leave, Goto, io

LEMMA BeginType ==
  ASSUME TypeOK, Counted, UNCHANGED io, setups' \in 0..MaxSetups,
         NEW o \in [AllNodes -> AllNodes], NEW sort \in BOOLEAN, Begin(o, sort)
  PROVE  SetupType' /\ Len(o) = Len(node_table)
<1>1. Len(node_table) \in Nat /\ Len(node_table) <= MaxNodes /\ MaxNodes \in Nat
  BY Numbers, Constants DEF Counted
<1>2. o \in [1..Len(node_table) -> 1..MaxNodes]
  BY <1>1 DEF AllNodes
<1>3. o \in Seq(1..MaxNodes) /\ Len(o) = Len(node_table)
  BY <1>1, <1>2 DEF AllNodes
<1> QED
  BY <1>1, <1>3 DEF TypeOK, SetupType, Begin, io

LEMMA SetupGraphType ==
  ASSUME TypeOK, Counted, NEW sort \in BOOLEAN, SetupGraph(sort)
  PROVE  SetupType'
<1>1. UNCHANGED io /\ setups' \in 0..MaxSetups /\ SetupType
  BY Constants DEF SetupGraph, TypeOK, SetupType
<1>2. CASE Leave("crashed")
  BY <1>1, <1>2, ProgressType
<1>3. CASE Begin([k \in AllNodes |-> k], sort)
  <2>1. [k \in AllNodes |-> k] \in [AllNodes -> AllNodes]
    OBVIOUS
  <2> QED
    BY <1>1, <1>3, <2>1, BeginType
<1>4. ASSUME NEW o \in SetToSeqs(AllNodes), Begin(o, sort)
      PROVE  SetupType'
  <2>1. o \in [AllNodes -> AllNodes]
    BY Numbers, OrderHasAll DEF AllNodes
  <2> QED
    BY <1>1, <1>4, <2>1, BeginType
<1> QED
  BY <1>2, <1>3, <1>4 DEF SetupGraph

LEMMA TypeStep == IInv /\ [Next]_vars => TensorType' /\ SetupType'
<1> SUFFICES ASSUME IInv, [Next]_vars
             PROVE  TensorType' /\ SetupType'
  OBVIOUS
<1> USE DEF IInv, Building, Setup
<1>1. TypeOK /\ TensorType /\ SetupType
  BY Types
<1>2. ASSUME UNCHANGED <<table, exists, aligned, signal, objects>>
      PROVE  TensorType'
  BY <1>1, <1>2 DEF TensorType, table, objects
<1>3. ASSUME UNCHANGED <<table, io, signal, created, frees>>, NEW ids \in SUBSET Id,
             made' \in {made, made \cup GetTensors(ids)}
      PROVE  TensorType'
  BY <1>1, <1>3, TensorsMade DEF TensorType, table, io
<1>4. ASSUME UNCHANGED <<io, progress>>
      PROVE  SetupType'
  BY <1>1, <1>4 DEF SetupType, io, progress
<1>5. ASSUME NEW a \in Attrs, AddTensor(a.id, a.sized)
      PROVE  TensorType' /\ SetupType'
  <2>1. SetupType'
    BY <1>4, <1>5 DEF AddTensor
  <2>2. a.id \in Id /\ created \in Nat /\ cur_tid \in Nat
    BY Constants, Numbers
  <2>3. /\ created' = created + 1 /\ created < MaxTensors
        /\ tensor_table' = [tensor_table EXCEPT ![a.id] = created + 1]
        /\ made' \subseteq made \cup {created + 1}
        /\ cur_tid' = cur_tid + 1 /\ inOrder' \in BOOLEAN
        /\ UNCHANGED <<exists, aligned, signal, frees>>
    BY <1>5 DEF AddTensor, io
  <2>4. created + 1 \in Tensor /\ frees[created + 1] = 0 /\ cur_tid + 1 <= MaxTensors
    BY <2>2, <2>3, Constants DEF HeldOnce, Counted, Tensor
  <2>5. 1..created' = (1..created) \cup {created + 1}
    BY <2>2, <2>3
  <2>6. tensor_table' \in [Id -> 1..created' \cup {None}]
    BY <1>1, <2>3, <2>5 DEF TensorType
  <2>7. \A id \in Id : tensor_table'[id] # None => frees'[tensor_table'[id]] = 0
    BY <1>1, <2>2, <2>3, <2>4 DEF TensorType
  <2>8. TensorType'
    BY <1>1, <2>2, <2>3, <2>4, <2>5, <2>6, <2>7, Constants DEF TensorType
  <2> QED
    BY <2>1, <2>8
<1>6. ASSUME NEW id \in Id, RemoveTensor(id)
      PROVE  TensorType' /\ SetupType'
  <2>1. SetupType'
    BY <1>4, <1>6 DEF RemoveTensor
  <2>2. /\ tensor_table' = [tensor_table EXCEPT ![id] = None]
        /\ frees' = [t \in Tensor |-> IF t = tensor_table[id] THEN frees[t] + 1 ELSE frees[t]]
        /\ tensor_table[id] # None
        /\ UNCHANGED <<cur_tid, inOrder, exists, aligned, signal, created, made>>
    BY <1>6 DEF RemoveTensor, Free, io
  <2>3. frees' \in [Tensor -> Nat] /\ tensor_table' \in [Id -> 1..created \cup {None}]
    BY <1>1, <2>2 DEF TensorType
  <2>4. ASSUME NEW jd \in Id, tensor_table'[jd] # None
        PROVE  frees'[tensor_table'[jd]] = 0
    <3>1. jd # id /\ tensor_table'[jd] = tensor_table[jd]
      BY <1>1, <2>2, <2>4 DEF TensorType
    <3>2. tensor_table[jd] # tensor_table[id]
      BY <2>2, <2>4, <3>1 DEF HeldOnce
    <3>3. tensor_table[jd] \in Tensor /\ frees[tensor_table[jd]] = 0
      BY <1>1, <2>4, <3>1, Numbers DEF TensorType
    <3> QED
      BY <2>2, <3>1, <3>2, <3>3
  <2>5. TensorType'
    BY <1>1, <2>2, <2>3, <2>4 DEF TensorType
  <2> QED
    BY <2>1, <2>5
<1>7. ASSUME NEW kind \in NodeKinds, AddNode(kind)
      PROVE  TensorType' /\ SetupType'
  <2>1. node_table' \in Seq(NodeKinds \cup {None})
    BY <1>1, <1>7 DEF AddNode, SetupType
  <2> QED
    BY <1>1, <1>2, <1>7, <2>1 DEF AddNode, SetupType, progress
<1>8. ASSUME NEW n \in AllNodes, RemoveNode(n)
      PROVE  TensorType' /\ SetupType'
  <2>1. node_table' = [node_table EXCEPT ![n] = None] /\ n \in 1..Len(node_table)
    BY <1>8 DEF RemoveNode, AllNodes
  <2>2. node_table' \in Seq(NodeKinds \cup {None})
    BY <1>1, <2>1, ExceptSeq DEF SetupType
  <2> QED
    BY <1>1, <1>2, <1>8, <2>2 DEF RemoveNode, SetupType, progress
<1>9. CASE SetGraphInputs({0})
  BY <1>1, <1>2, <1>9, Constants DEF SetGraphInputs, SetupType, progress
<1>10. ASSUME NEW seq \in OutputSeqs, SetGraphOutputs(seq)
       PROVE  TensorType' /\ SetupType'
  BY <1>1, <1>2, <1>10, Constants DEF SetGraphOutputs, SetupType, progress
<1>11. ASSUME NEW sort \in BOOLEAN, SetupGraph(sort)
       PROVE  TensorType' /\ SetupType'
  <2>1. TensorType'
    BY <1>2, <1>11 DEF SetupGraph, io
  <2> QED
    BY <1>11, <2>1, SetupGraphType
<1>12. CASE PrepareNodes
  <2> DEFINE ids == UNION {Node(n).ins \cup Node(n).outs : n \in AllNodes}
  <2>1. ids \in SUBSET Id
    BY <1>12, NodeIds DEF PrepareNodes, OrderInv, Working
  <2>2. TensorType'
    <3> HIDE DEF ids
    <3> QED
      BY <1>3, <1>12, <2>1 DEF PrepareNodes, ids
  <2>3. SetupType'
    BY <1>1, <1>12, ProgressType DEF PrepareNodes, SetupType
  <2> QED
    BY <2>2, <2>3
<1>13. ASSUME OpCompute \/ ComputeFails
       PROVE  TensorType' /\ SetupType'
  <2>1. AtNode /\ Working /\ Len(order) \in Nat /\ i \in Nat \ {0}
    BY <1>1, <1>13, Numbers DEF OpCompute, ComputeFails, AtNode, Working, SetupType
  <2>2. i \in AllNodes /\ i <= MaxNodes
    BY <2>1, Numbers, Constants DEF AtNode, OrderInv, AllNodes, Counted
  <2>3. CurNode.outs \in SUBSET Id
    BY <2>1, <2>2, NodeIds DEF OrderInv, CurNode
  <2>4. TensorType'
    BY <1>3, <1>13, <2>3 DEF OpCompute, ComputeFails
  <2>5. SetupType'
    <3>1. CASE OpCompute
      <4>1. i + 1 \in 1..MaxNodes + 1 /\ i' = i + 1 /\ UNCHANGED <<io, phase, order, sorted, setups>>
        BY <2>1, <2>2, <3>1, Constants DEF OpCompute
      <4> QED
        BY <1>1, <4>1 DEF SetupType, io
    <3>2. CASE ComputeFails
      BY <1>1, <3>2, ProgressType DEF ComputeFails, SetupType
    <3> QED
      BY <1>13, <3>1, <3>2
  <2> QED
    BY <2>4, <2>5
<1>14. CASE ComputeEnds \/ NoSignal
  <2>1. UNCHANGED <<table, io, signal, objects, setups>> /\ \E p \in {"signal", "identify"} : Goto(p)
    BY <1>14 DEF ComputeEnds, NoSignal
  <2> QED
    BY <1>1, <1>2, <2>1, ProgressType DEF io, SetupType
<1>15. CASE SignalUnsupported
  <2>1. /\ UNCHANGED <<table, io, objects, setups>> /\ signal' = None
        /\ Leave("crashed") \/ Goto("identify")
    BY <1>15 DEF SignalUnsupported
  <2>2. TensorType'
    BY <1>1, <2>1 DEF TensorType, table, io, objects
  <2> QED
    BY <1>1, <2>1, <2>2, ProgressType DEF SetupType
<1>16. CASE SignalNode \/ SignalFails
  <2>1. /\ created' = created + 1 /\ created < MaxTensors /\ made' = made \cup {created + 1}
        /\ UNCHANGED <<table, io, frees, setups>> /\ signal' \in {signal, created + 1}
        /\ Leave("idle") \/ Goto("identify")
    BY <1>16 DEF SignalNode, SignalComputed, SignalFails, NewSignal
  <2>2. TensorType'
    BY <1>1, <2>1, Constants DEF TensorType, table, io
  <2> QED
    BY <1>1, <2>1, <2>2, ProgressType DEF SetupType
<1>17. CASE Identify \/ SetupReturns
  <2>1. /\ UNCHANGED <<table, io, signal, objects, setups>>
        /\ \E p \in {"crashed", "identified", "idle"} : Leave(p)
    BY <1>17 DEF Identify, SetupReturns
  <2> QED
    BY <1>1, <1>2, <2>1, ProgressType DEF io, SetupType
<1>18. CASE ReleaseGraph
  <2>1. /\ tensor_table' = [id \in Id |-> None]
        /\ frees' \in [Tensor -> Nat] /\ made' = {}
        /\ UNCHANGED <<cur_tid, inOrder, exists, aligned, signal, created, setups>>
    BY <1>1, <1>18 DEF ReleaseGraph, Released, Free, TensorType
  <2>2. TensorType'
    BY <1>1, <2>1 DEF TensorType
  <2>3. SetupType'
    <3>1. 1 \in 1..MaxNodes + 1
      BY Constants
    <3>2. /\ node_table' = <<>> /\ inputs' = {} /\ outputs' = <<>>
          /\ phase' = "released" /\ order' = <<>> /\ i' = 1 /\ sorted' = FALSE /\ setups' = setups
      BY <1>18 DEF ReleaseGraph, Released, Leave
    <3>3. <<>> \in Seq(NodeKinds \cup {None}) /\ <<>> \in Seq(Id) /\ <<>> \in Seq(1..MaxNodes)
      BY EmptySeq
    <3>4. /\ node_table' \in Seq(NodeKinds \cup {None}) /\ outputs' \in Seq(Id)
          /\ order' \in Seq(1..MaxNodes)
      BY <3>2, <3>3
    <3>5. setups' \in 0..MaxSetups /\ i' \in 1..MaxNodes + 1
      BY <1>1, <3>1, <3>2 DEF SetupType
    <3> QED
      BY <3>2, <3>4, <3>5 DEF SetupType
  <2> QED
    BY <2>2, <2>3
<1>19. CASE UNCHANGED vars
  BY <1>2, <1>4, <1>19 DEF vars, io
<1>20. CASE PrepareCrashes \/ ComputeCrashes \/ SignalRefused \/ SignalCrashes
  <2>1. /\ UNCHANGED <<table, io, signal, objects, setups>>
        /\ \E p \in {"idle", "crashed"} : Leave(p)
    BY <1>20, OnlyLeaves
  <2> QED
    BY <1>1, <1>2, <2>1, ProgressType DEF io, SetupType
<1> QED
  BY <1>5, <1>6, <1>7, <1>8, <1>9, <1>10, <1>11, <1>12, <1>13, <1>14, <1>15, <1>16, <1>17, <1>18,
     <1>19, <1>20 DEF Next

-----------------------------------------------------------------------------
(* Who holds the tensors                                                   *)

Holding == HeldOnce /\ InOrder /\ NoneLost /\ ReleasedOnce

\* The tensor that is behind an id, or is the signal, is in the range of frees.
LEMMA HeldTensors ==
  ASSUME TypeOK
  PROVE  /\ \A id \in Id : tensor_table[id] # None => tensor_table[id] \in 1..created
         /\ signal # None => signal \in 1..created
         /\ created + 1 # None \/ created = MaxTensors
         /\ created = MaxTensors \/ created + 1 \in Tensor
         /\ frees \in [Tensor -> Nat]
<1>1. MaxTensors \in Nat /\ None \notin Tensor /\ created \in 0..MaxTensors
  BY Constants DEF TypeOK
<1> QED
  BY <1>1 DEF TypeOK, Tensor

LEMMA QuietHolding ==
  ASSUME Holding, UNCHANGED <<table, exists, signal, created, frees>>,
         phase' = "released" <=> phase = "released"
  PROVE  Holding'
BY DEF Holding, HeldOnce, InOrder, NoneLost, ReleasedOnce, Held, Signals, table

LEMMA AddTensorHolding ==
  ASSUME TypeOK, Holding, NEW a \in Attrs, AddTensor(a.id, a.sized)
  PROVE  Holding'
<1>1. /\ phase = "idle" /\ phase' = "idle" /\ created < MaxTensors
      /\ created' = created + 1
      /\ tensor_table' = [tensor_table EXCEPT ![a.id] = created + 1]
      /\ cur_tid' = cur_tid + 1 /\ inOrder' = (inOrder /\ a.id = cur_tid)
      /\ UNCHANGED <<exists, signal, frees>>
  BY DEF AddTensor, io, progress
<1>2. a.id \in Id /\ created \in Nat /\ cur_tid \in Nat /\ Id \subseteq Nat /\ MaxTensors \in Nat
  BY Numbers, Constants DEF Id
<1>3. created + 1 # None /\ created + 1 \in Tensor
  BY <1>1, <1>2, HeldTensors
<1>4. \A id \in Id : tensor_table'[id] = IF id = a.id THEN created + 1 ELSE tensor_table[id]
  BY <1>1 DEF TypeOK
<1>5. HeldOnce'
  <2>1. \A id, jd \in Id : tensor_table'[id] # None /\ tensor_table'[id] = tensor_table'[jd] => id = jd
    BY <1>2, <1>4, HeldTensors DEF Holding, HeldOnce
  <2>2. \A t \in Tensor : t > created' => frees'[t] = 0
    BY <1>1, <1>2 DEF Holding, HeldOnce, Tensor
  <2>3. signal # None => exists /\ \A id \in Id : tensor_table'[id] # signal
    BY <1>2, <1>4, HeldTensors DEF Holding, HeldOnce
  <2> QED
    BY <1>1, <2>1, <2>2, <2>3 DEF Holding, HeldOnce
<1>order. inOrder' => inOrder /\ a.id = cur_tid
  BY <1>1, Zenon
<1>6. InOrder'
  BY <1>1, <1>2, <1>4, <1>order DEF Holding, InOrder
<1>7. NoneLost'
  <2>1. cur_tid + Signals <= created /\ Signals' = Signals /\ Signals \in Nat
    <3>1. phase # "released"
      BY <1>1
    <3> QED
      BY <1>1, <3>1 DEF Holding, NoneLost, Signals
  <2>2. ASSUME inOrder', created' = cur_tid' + Signals', NEW t \in 1..created'
        PROVE  t \in Held' \/ frees'[t] = 1
    <3>1. inOrder /\ a.id = cur_tid /\ created = cur_tid + Signals
      BY <1>1, <1>2, <1>order, <2>1, <2>2
    <3>2. CASE t = created + 1
      <4>1. tensor_table'[a.id] = t /\ t \in 1..created'
        BY <1>2, <1>4, <2>2, <3>2
      <4> QED
        BY <1>2, <4>1 DEF Held
    <3>3. CASE t \in 1..created
      <4>1. t \in Held \/ frees[t] = 1
        BY <1>1, <3>1, <3>3 DEF Holding, NoneLost
      <4>2. tensor_table[a.id] = None
        BY <1>2, <3>1 DEF Holding, InOrder
      <4>3. t # None
        BY <1>2, <1>1, <3>3, Constants DEF Tensor
      <4>4. \A id \in Id : tensor_table[id] = t => tensor_table'[id] = t
        BY <1>4, <4>2, <4>3
      <4> QED
        BY <1>1, <2>2, <4>1, <4>4 DEF Held
    <3> QED
      BY <1>1, <1>2, <2>2, <3>2, <3>3
  <2> QED
    BY <1>1, <1>2, <2>1, <2>2 DEF NoneLost
<1>8. ReleasedOnce'
  BY <1>1 DEF Holding, ReleasedOnce
<1> QED
  BY <1>5, <1>6, <1>7, <1>8 DEF Holding

LEMMA RemoveTensorHolding ==
  ASSUME TypeOK, Holding, NEW id \in Id, RemoveTensor(id)
  PROVE  Holding'
<1>1. /\ phase = "idle" /\ phase' = "idle"
      /\ tensor_table' = [tensor_table EXCEPT ![id] = None]
      /\ frees' = [t \in Tensor |-> IF t = tensor_table[id] THEN frees[t] + 1 ELSE frees[t]]
      /\ tensor_table[id] # None
      /\ UNCHANGED <<cur_tid, inOrder, exists, signal, created>>
  BY DEF RemoveTensor, Free, io, progress
<1>2. created \in Nat /\ tensor_table[id] \in 1..created /\ 1..created \subseteq Tensor
  BY <1>1, Numbers, HeldTensors
<1>3. frees[tensor_table[id]] = 0
  BY <1>1 DEF TypeOK
<1>4. /\ \A t \in Tensor : t # tensor_table[id] => frees'[t] = frees[t]
      /\ frees'[tensor_table[id]] = 1
  BY <1>1, <1>2, <1>3
<1>5. \A jd \in Id : tensor_table'[jd] = IF jd = id THEN None ELSE tensor_table[jd]
  BY <1>1 DEF TypeOK
<1>6. HeldOnce'
  <2>1. \A jd, kd \in Id : tensor_table'[jd] # None /\ tensor_table'[jd] = tensor_table'[kd] => jd = kd
    BY <1>5 DEF Holding, HeldOnce
  <2>2. \A t \in Tensor : t > created => frees'[t] = 0
    BY <1>2, <1>4 DEF Holding, HeldOnce, Tensor
  <2>3. signal # None => exists /\ \A jd \in Id : tensor_table'[jd] # signal
    BY <1>5 DEF Holding, HeldOnce
  <2>4. signal # None => frees'[signal] = 0
    BY <1>1, <1>2, <1>4, HeldTensors DEF Holding, HeldOnce
  <2> QED
    BY <1>1, <2>1, <2>2, <2>3, <2>4 DEF HeldOnce
<1>7. InOrder'
  BY <1>1, <1>5 DEF Holding, InOrder
<1>8. NoneLost'
  <2>1. ASSUME inOrder, created = cur_tid + Signals, NEW t \in 1..created
        PROVE  t \in Held' \/ frees'[t] = 1
    <3>1. t \in Held \/ frees[t] = 1
      BY <1>1, <2>1 DEF Holding, NoneLost
    <3>2. t # tensor_table[id] => \A jd \in Id : tensor_table[jd] = t => tensor_table'[jd] = t
      BY <1>5
    <3> QED
      BY <1>1, <1>2, <1>4, <3>1, <3>2 DEF Held
  <2> QED
    BY <1>1, <2>1 DEF Holding, NoneLost, Signals
<1>9. ReleasedOnce'
  BY <1>1, <1>2, <1>4 DEF Holding, ReleasedOnce
<1> QED
  BY <1>6, <1>7, <1>8, <1>9 DEF Holding

\* A setup that gives up its signal: another tensor nobody holds.
LEMMA SignalUnsupportedHolding ==
  ASSUME TypeOK, Holding, SignalUnsupported
  PROVE  Holding'
<1>1. /\ phase # "released" /\ phase' # "released" /\ signal' = None
      /\ UNCHANGED <<table, exists, created, frees>>
  BY DEF SignalUnsupported, Leave, Goto, io, objects
<1>2. Signals \in {0, 1} /\ Signals' = 0 /\ (signal # None => Signals = 1)
  BY <1>1 DEF Signals
<1>3. created \in Nat /\ cur_tid \in Nat
  BY Numbers
<1>4. NoneLost'
  <2>1. cur_tid + Signals <= created
    BY <1>1 DEF Holding, NoneLost
  <2>2. ASSUME inOrder, created = cur_tid + Signals', NEW t \in 1..created
        PROVE  t \in Held' \/ frees[t] = 1
    <3>1. Signals = 0 /\ signal' = signal
      BY <1>1, <1>2, <1>3, <2>1, <2>2
    <3>2. t \in Held \/ frees[t] = 1
      BY <1>1, <1>2, <2>2, <3>1 DEF Holding, NoneLost
    <3> QED
      BY <1>1, <3>1, <3>2 DEF Held, table
  <2> QED
    BY <1>1, <1>2, <1>3, <2>1, <2>2 DEF NoneLost, table
<1> QED
  BY <1>1, <1>4 DEF Holding, HeldOnce, InOrder, ReleasedOnce, table

LEMMA NewSignalHolding ==
  ASSUME TypeOK, Holding, NewSignal, signal' \in {signal, created + 1}, phase' # "released"
  PROVE  Holding'
<1>1. /\ phase # "released" /\ exists /\ created < MaxTensors /\ created' = created + 1
      /\ UNCHANGED <<table, exists, frees>>
  BY DEF NewSignal, io
<1>2. created \in Nat /\ cur_tid \in Nat /\ MaxTensors \in Nat
  BY Numbers, Constants
<1>3. created + 1 # None /\ created + 1 \in Tensor
  BY <1>1, <1>2, HeldTensors
<1>4. frees[created + 1] = 0
  BY <1>2, <1>3 DEF Holding, HeldOnce
<1>5. HeldOnce'
  <2>1. \A t \in Tensor : t > created' => frees'[t] = 0
    BY <1>1, <1>2 DEF Holding, HeldOnce, Tensor
  <2>2. \A id \in Id : tensor_table[id] # created + 1
    BY <1>2, <1>3, HeldTensors
  <2> QED
    BY <1>1, <1>4, <2>1, <2>2 DEF Holding, HeldOnce, table
<1>6. InOrder'
  BY <1>1 DEF Holding, InOrder, table
<1>7. NoneLost'
  <2>1. cur_tid + Signals <= created /\ Signals \in {0, 1} /\ Signals' \in {0, 1}
    BY <1>1 DEF Holding, NoneLost, Signals
  <2>2. signal # None => Signals = 1 /\ Signals' = 1
    BY <1>3 DEF Signals
  <2>3. signal = None /\ signal' = signal => Signals' = 0
    BY DEF Signals
  <2>4. ASSUME inOrder, created' = cur_tid + Signals', NEW t \in 1..created'
        PROVE  t \in Held' \/ frees[t] = 1
    <3>1. signal = None /\ signal' = created + 1 /\ Signals = 0 /\ created = cur_tid
      BY <1>1, <1>2, <2>1, <2>2, <2>3, <2>4 DEF Signals
    <3>2. CASE t = created + 1
      BY <2>4, <3>1, <3>2 DEF Held
    <3>3. CASE t \in 1..created
      <4>1. t \in Held \/ frees[t] = 1
        BY <1>1, <1>2, <2>4, <3>1, <3>3 DEF Holding, NoneLost
      <4>2. t # None
        BY <1>1, <1>2, <3>3, Constants DEF Tensor
      <4> QED
        BY <1>1, <2>4, <3>1, <4>1, <4>2 DEF Held, table
    <3> QED
      BY <1>1, <1>2, <2>4, <3>2, <3>3
  <2>5. cur_tid' = cur_tid /\ cur_tid + Signals' <= created'
    <3>1. cur_tid' = cur_tid /\ created' = created + 1
      BY <1>1 DEF table
    <3>2. Signals \in Nat /\ Signals' \in Nat /\ Signals' <= 1
      BY <2>1
    <3>3. cur_tid <= created
      BY <1>2, <2>1, <3>2
    <3>4. \A m, n, k \in Nat : m <= n /\ k <= 1 => m + k <= n + 1
      OBVIOUS
    <3>5. cur_tid + Signals' <= created + 1
      BY <1>2, <3>2, <3>3, <3>4, Zenon
    <3> QED
      BY <3>1, <3>5
  <2> QED
    BY <1>1, <2>4, <2>5 DEF NoneLost, table
<1>8. ReleasedOnce'
  BY <1>1 DEF Holding, ReleasedOnce
<1> QED
  BY <1>5, <1>6, <1>7, <1>8 DEF Holding

\* What is released with the graph is what is held.
LEMMA ReleaseGraphHolding ==
  ASSUME TypeOK, Holding, ReleaseGraph
  PROVE  Holding'
<1> DEFINE Ts == ReleasedTensors \cup (IF exists /\ signal # None THEN {signal} ELSE {})
<1>1. /\ phase # "released" /\ phase' = "released"
      /\ frees' = [t \in Tensor |-> IF t \in Ts THEN frees[t] + 1 ELSE frees[t]]
      /\ tensor_table' = [id \in Id |-> None]
      /\ UNCHANGED <<cur_tid, inOrder, exists, signal, created>>
  BY DEF ReleaseGraph, Released, Leave, Free
<1>2. created \in Nat /\ cur_tid \in Nat /\ Id \subseteq Nat /\ 1..created \subseteq Tensor
  BY Numbers DEF Id
<1>3. \A t \in Ts : frees[t] = 0 /\ t \in 1..created
  <2>1. \A t \in ReleasedTensors : frees[t] = 0 /\ t \in 1..created
    BY HeldTensors DEF ReleasedTensors, Ids, TypeOK
  <2>2. signal # None => frees[signal] = 0 /\ signal \in 1..created
    BY <1>1, HeldTensors DEF Holding, HeldOnce
  <2> QED
    BY <2>1, <2>2
<1>4. \A t \in Tensor : frees'[t] = IF t \in Ts THEN 1 ELSE frees[t]
  <2> HIDE DEF Ts
  <2>1. \A t \in Tensor : frees'[t] = IF t \in Ts THEN frees[t] + 1 ELSE frees[t]
    BY <1>1
  <2> QED
    BY <1>3, <2>1
<1>5. HeldOnce'
  <2>1. \A t \in Tensor : t > created => frees'[t] = 0
    <3> HIDE DEF Ts
    <3> QED
      BY <1>2, <1>3, <1>4 DEF Holding, HeldOnce, Tensor
  <2> QED
    BY <1>1, <2>1 DEF Holding, HeldOnce
<1>6. ReleasedOnce'
  <2>1. \A t \in Tensor : frees'[t] <= 1
    <3> HIDE DEF Ts
    <3> QED
      BY <1>4 DEF Holding, ReleasedOnce
  <2>2. ASSUME inOrder, created - cur_tid = Signals, NEW t \in 1..created
        PROVE  frees'[t] = 1
    <3>1. Signals \in Nat
      BY DEF Signals
    <3>2. t \in Held \/ frees[t] = 1
      BY <1>1, <1>2, <2>2, <3>1 DEF Holding, NoneLost
    <3>3. t \in Held => t \in Ts
      <4>1. t # None
        BY <1>2, Constants
      <4>2. t = signal => exists
        BY <4>1 DEF Holding, HeldOnce
      <4>3. ASSUME NEW id \in Id, tensor_table[id] = t
            PROVE  t \in ReleasedTensors
        <5>1. ~(id >= cur_tid)
          BY <2>2, <4>1, <4>3 DEF Holding, InOrder
        <5> QED
          BY <1>2, <4>1, <4>3, <5>1 DEF ReleasedTensors, Ids
      <4> QED
        BY <4>1, <4>2, <4>3 DEF Held
    <3> HIDE DEF Ts
    <3> QED
      BY <1>2, <1>4, <3>2, <3>3
  <2> QED
    BY <1>1, <2>1, <2>2 DEF ReleasedOnce, Signals
<1> QED
  BY <1>1, <1>5, <1>6 DEF Holding, InOrder, NoneLost

LEMMA HoldingStep == IInv /\ [Next]_vars => Counted' /\ Holding'
<1> SUFFICES ASSUME IInv, [Next]_vars
             PROVE  Counted' /\ Holding'
  OBVIOUS
<1>1. TypeOK /\ Counted /\ Holding
  BY DEF IInv, Building, Holding
<1>2. created \in Nat /\ cur_tid \in Nat /\ MaxNodes \in Nat /\ Len(node_table) \in Nat
  BY <1>1, Numbers, Constants
<1>3. ASSUME UNCHANGED <<node_table, cur_tid>>, created' \in {created, created + 1}
      PROVE  Counted'
  BY <1>1, <1>2, <1>3 DEF Counted
<1>4. ASSUME UNCHANGED <<table, io, signal, created, frees>>,
             phase' = "released" <=> phase = "released"
      PROVE  Counted' /\ Holding'
  BY <1>1, <1>3, <1>4, QuietHolding DEF io, table
<1>5. ASSUME NEW a \in Attrs, AddTensor(a.id, a.sized)
      PROVE  Counted' /\ Holding'
  <2>1. Counted'
    BY <1>1, <1>2, <1>5 DEF Counted, AddTensor, io
  <2> QED
    BY <1>1, <1>5, <2>1, AddTensorHolding
<1>6. ASSUME NEW id \in Id, RemoveTensor(id)
      PROVE  Counted' /\ Holding'
  <2>1. Counted'
    BY <1>3, <1>6 DEF RemoveTensor, io
  <2> QED
    BY <1>1, <1>6, <2>1, RemoveTensorHolding
<1>7. ASSUME NEW kind \in NodeKinds, AddNode(kind)
      PROVE  Counted' /\ Holding'
  <2>1. /\ Len(node_table) < MaxNodes /\ node_table' = Append(node_table, kind)
        /\ UNCHANGED <<table, exists, signal, created, frees, phase>>
    BY <1>7 DEF AddNode, objects, progress
  <2>2. Len(node_table') = Len(node_table) + 1
    BY <1>1, <2>1 DEF TypeOK
  <2> QED
    BY <1>1, <1>2, <2>1, <2>2, QuietHolding DEF Counted, table
<1>8. ASSUME NEW n \in AllNodes, RemoveNode(n)
      PROVE  Counted' /\ Holding'
  <2>1. /\ node_table' = [node_table EXCEPT ![n] = None]
        /\ UNCHANGED <<table, exists, signal, created, frees, phase>>
    BY <1>8 DEF RemoveNode, objects, progress
  <2>2. Len(node_table') = Len(node_table)
    BY <1>1, <2>1 DEF TypeOK
  <2> QED
    BY <1>1, <1>2, <2>1, <2>2, QuietHolding DEF Counted, table
<1>9. ASSUME UNCHANGED <<table, node_table, exists, signal, objects, progress>>
      PROVE  Counted' /\ Holding'
  BY <1>1, <1>3, <1>9, QuietHolding DEF table, objects, progress
<1>10. CASE SetGraphInputs({0})
  BY <1>9, <1>10 DEF SetGraphInputs
<1>11. ASSUME NEW seq \in OutputSeqs, SetGraphOutputs(seq)
       PROVE  Counted' /\ Holding'
  BY <1>9, <1>11 DEF SetGraphOutputs
<1>12. ASSUME NEW sort \in BOOLEAN, SetupGraph(sort)
       PROVE  Counted' /\ Holding'
  BY <1>4, <1>12 DEF SetupGraph, Leave, Begin, objects
<1>13. CASE PrepareNodes \/ OpCompute \/ ComputeFails \/ ComputeEnds \/ NoSignal
  BY <1>4, <1>13 DEF PrepareNodes, OpCompute, ComputeFails, ComputeEnds, NoSignal, AtNode, Leave,
                     Goto, objects
<1>14. CASE Identify \/ SetupReturns
  BY <1>4, <1>14 DEF Identify, SetupReturns, Leave, objects
<1>15. CASE SignalUnsupported
  <2>1. Counted'
    BY <1>3, <1>15 DEF SignalUnsupported, table, io, objects
  <2> QED
    BY <1>1, <1>15, <2>1, SignalUnsupportedHolding
<1>16. CASE SignalNode \/ SignalFails
  <2>1. NewSignal /\ signal' \in {signal, created + 1} /\ phase' # "released"
    BY <1>16 DEF SignalNode, SignalComputed, SignalFails, NewSignal, Leave, Goto
  <2>2. Counted'
    BY <1>3, <2>1 DEF NewSignal, table, io
  <2> QED
    BY <1>1, <2>1, <2>2, NewSignalHolding
<1>17. CASE ReleaseGraph
  <2>1. Counted'
    BY <1>1, <1>2, <1>17 DEF Counted, ReleaseGraph, Released
  <2> QED
    BY <1>1, <1>17, <2>1, ReleaseGraphHolding
<1>18. CASE UNCHANGED vars
  BY <1>4, <1>18 DEF vars, objects, progress
<1>19. CASE PrepareCrashes \/ ComputeCrashes \/ SignalRefused \/ SignalCrashes
  BY <1>4, <1>19, OnlyLeaves DEF Leave, objects
<1> QED
  BY <1>5, <1>6, <1>7, <1>8, <1>10, <1>11, <1>12, <1>13, <1>14, <1>15, <1>16, <1>17, <1>18, <1>19
     DEF Next

-----------------------------------------------------------------------------
(* The setup                                                               *)

\* What the setup relies on changes only between setups.
LEMMA SameGraph ==
  ASSUME UNCHANGED <<tensor_table, node_table, inputs, order>>
  PROVE  /\ AllNodes' = AllNodes
         /\ \A n \in AllNodes : Node(n)' = Node(n)
         /\ IsOrder(order)' <=> IsOrder(order)
BY DEF AllNodes, Node, IsOrder, Marked

LEMMA QuietOrder ==
  ASSUME OrderInv, UNCHANGED <<tensor_table, node_table, inputs, order, sorted>>,
         Working' => Working, i' <= Len(order) + 1 \/ i' = i
  PROVE  OrderInv'
<1> SUFFICES ASSUME Working'
             PROVE  /\ \A n \in AllNodes : Node(n)' # None
                    /\ Len(order) = Len(node_table)
                    /\ \A n \in AllNodes : \E k \in AllNodes : order[k] = n
                    /\ \A k \in AllNodes : order[k] \in AllNodes
                    /\ i' <= Len(order) + 1
                    /\ sorted => IsOrder(order)'
  BY SameGraph DEF OrderInv
<1> QED
  BY SameGraph DEF OrderInv

LEMMA BeginOrder ==
  ASSUME TypeOK, Counted, UNCHANGED <<tensor_table, node_table, inputs>>,
         NEW o \in [AllNodes -> AllNodes], NEW sort \in BOOLEAN, Begin(o, sort),
         \A n \in AllNodes : Node(n) # None,
         \A n \in AllNodes : \E k \in AllNodes : o[k] = n,
         sort => IsOrder(o)
  PROVE  OrderInv'
<1>1. order' = o /\ sorted' = sort /\ i' = 1
  BY DEF Begin
<1>2. Len(o) = Len(node_table) /\ Len(o) \in Nat
  <2>1. Len(node_table) \in Nat /\ DOMAIN o = 1..Len(node_table)
    BY Numbers DEF AllNodes
  <2>2. o \in Seq(AllNodes)
    BY <2>1 DEF AllNodes
  <2> QED
    BY <2>1, <2>2, LenProperties
<1>3. \A k \in AllNodes : o[k] \in AllNodes
  OBVIOUS
<1>4. sorted' => IsOrder(order)'
  <2>1. IsOrder(o) <=> IsOrder(order)'
    BY <1>1 DEF IsOrder, Marked, Node
  <2> QED
    BY <1>1, <2>1
<1>5. i' <= Len(order') + 1
  BY <1>1, <1>2
<1> QED
  BY <1>1, <1>2, <1>3, <1>4, <1>5 DEF OrderInv, AllNodes, Node

LEMMA OrderStep == IInv /\ [Next]_vars => OrderInv'
<1> SUFFICES ASSUME IInv, [Next]_vars
             PROVE  OrderInv'
  OBVIOUS
<1>1. TypeOK /\ Counted /\ OrderInv
  BY DEF IInv, Building, Setup
<1>2. ASSUME phase' \notin {"setup", "compute", "signal", "identify"}
      PROVE  OrderInv'
  BY <1>2 DEF OrderInv, Working
<1>3. ASSUME NEW p \in {"compute", "signal", "identify"}, Goto(p), Working, UNCHANGED <<table, io>>
      PROVE  OrderInv'
  BY <1>1, <1>3, QuietOrder DEF Goto, table, io
<1>4. CASE \/ \E a \in Attrs : AddTensor(a.id, a.sized)
           \/ \E id \in Id : RemoveTensor(id)
           \/ \E kind \in NodeKinds : AddNode(kind)
           \/ \E n \in AllNodes : RemoveNode(n)
           \/ SetGraphInputs({0})
           \/ \E seq \in OutputSeqs : SetGraphOutputs(seq)
  <2>1. phase' = "idle"
    BY <1>4 DEF AddTensor, RemoveTensor, AddNode, RemoveNode, SetGraphInputs, SetGraphOutputs, progress
  <2> QED
    BY <1>2, <2>1
<1>5. ASSUME NEW sort \in BOOLEAN, SetupGraph(sort)
      PROVE  OrderInv'
  <2> USE Constants
  <2>1. UNCHANGED <<tensor_table, node_table, inputs>>
    BY <1>5 DEF SetupGraph, table, io
  <2>2. CASE Leave("crashed")
    BY <1>2, <2>2 DEF Leave
  <2>3. CASE /\ \A n \in AllNodes : Node(n) # None
             /\ ~sort /\ Begin([k \in AllNodes |-> k], sort)
    <3>1. [k \in AllNodes |-> k] \in [AllNodes -> AllNodes]
      OBVIOUS
    <3>2. \A n \in AllNodes : \E k \in AllNodes : [l \in AllNodes |-> l][k] = n
      OBVIOUS
    <3> QED
      BY <1>1, <2>1, <2>3, <3>1, <3>2, BeginOrder
  <2>4. ASSUME \A n \in AllNodes : Node(n) # None,
               NEW o \in SetToSeqs(AllNodes), IsOrder(o), Begin(o, sort)
        PROVE  OrderInv'
    <3>1. /\ o \in [AllNodes -> AllNodes]
          /\ \A n \in AllNodes : \E k \in AllNodes : o[k] = n
      BY <1>1, Numbers, OrderHasAll DEF AllNodes
    <3> QED
      BY <1>1, <2>1, <2>4, <3>1, BeginOrder
  <2> QED
    BY <1>5, <2>2, <2>3, <2>4 DEF SetupGraph
<1>6. CASE PrepareNodes
  <2>1. phase = "setup" /\ UNCHANGED <<table, io>> /\ (Goto("compute") \/ Leave("idle"))
    BY <1>6 DEF PrepareNodes
  <2> QED
    BY <1>2, <1>3, <2>1 DEF Leave, Working
<1>7. CASE OpCompute
  <2>1. /\ phase = "compute" /\ phase' = "compute" /\ i <= Len(order) /\ i' = i + 1
        /\ UNCHANGED <<tensor_table, node_table, inputs, order, sorted>>
    BY <1>7 DEF OpCompute, AtNode, table, io
  <2>2. i' <= Len(order') + 1
    BY <1>1, <2>1, Numbers
  <2>3. Working
    BY <2>1 DEF Working
  <2> QED
    BY <1>1, <2>1, <2>2, <2>3, QuietOrder
<1>8. CASE ComputeEnds \/ NoSignal
  <2>1. /\ phase \in {"compute", "signal"} /\ UNCHANGED <<table, io>>
        /\ \E p \in {"signal", "identify"} : Goto(p)
    BY <1>8 DEF ComputeEnds, NoSignal
  <2> QED
    BY <1>3, <2>1 DEF Working
<1>9. CASE SignalUnsupported \/ SignalNode \/ SignalFails
  <2>1. /\ phase = "signal" /\ UNCHANGED <<table, io>>
        /\ Goto("identify") \/ Leave("idle") \/ Leave("crashed")
    BY <1>9 DEF SignalUnsupported, SignalNode, SignalComputed, SignalFails, NewSignal
  <2> QED
    BY <1>2, <1>3, <2>1 DEF Leave, Working
<1>10. CASE ComputeFails \/ Identify \/ SetupReturns \/ ReleaseGraph
  <2>1. \E p \in {"idle", "identified", "crashed", "released"} : Leave(p)
    BY <1>10 DEF ComputeFails, Identify, SetupReturns, ReleaseGraph, Released
  <2> QED
    BY <1>2, <2>1 DEF Leave
<1>11. CASE UNCHANGED vars
  BY <1>1, <1>11, QuietOrder DEF vars, table, io, progress, Working
<1>12. CASE PrepareCrashes \/ ComputeCrashes \/ SignalRefused \/ SignalCrashes
  BY <1>2, <1>12, OnlyLeaves DEF Leave
<1> QED
  BY <1>4, <1>5, <1>6, <1>7, <1>8, <1>9, <1>10, <1>11, <1>12 DEF Next

\* In phases that keep what was made, the computed nodes stay computed.
LEMMA QuietComputed ==
  ASSUME ComputedInv, UNCHANGED <<tensor_table, cur_tid, node_table, order, i>>,
         made \subseteq made',
         \/ phase' = phase
         \/ phase \in {"signal", "identify", "identified"} /\ phase' \in {"identify", "identified"}
  PROVE  ComputedInv'
<1>1. \A n \in AllNodes : GetTensors(Node(n).outs)' = GetTensors(Node(n).outs)
  BY DEF GetTensors, Ids, Node
<1>2. \A k \in 1..i - 1 : GetTensors(Node(order[k]).outs)' = GetTensors(Node(order[k]).outs)
  BY DEF GetTensors, Ids, Node
<1>3. AllNodes' = AllNodes
  BY DEF AllNodes
<1> QED
  BY <1>1, <1>2, <1>3 DEF ComputedInv

LEMMA ComputedStep == IInv /\ [Next]_vars => ComputedInv'
<1> SUFFICES ASSUME IInv, [Next]_vars
             PROVE  ComputedInv'
  OBVIOUS
<1>1. TypeOK /\ OrderInv /\ ComputedInv
  BY DEF IInv, Building, Setup
<1>2. ASSUME phase' \in {"idle", "crashed", "released"}
      PROVE  ComputedInv'
  BY <1>2 DEF ComputedInv
<1>3. CASE \/ \E a \in Attrs : AddTensor(a.id, a.sized)
           \/ \E id \in Id : RemoveTensor(id)
           \/ \E kind \in NodeKinds : AddNode(kind)
           \/ \E n \in AllNodes : RemoveNode(n)
           \/ SetGraphInputs({0})
           \/ \E seq \in OutputSeqs : SetGraphOutputs(seq)
  <2>1. phase' = "idle"
    BY <1>3 DEF AddTensor, RemoveTensor, AddNode, RemoveNode, SetGraphInputs, SetGraphOutputs, progress
  <2> QED
    BY <1>2, <2>1
<1>4. ASSUME NEW sort \in BOOLEAN, SetupGraph(sort)
      PROVE  ComputedInv'
  <2>1. phase' = "crashed" \/ (phase' = "setup" /\ i' = 1)
    BY <1>4 DEF SetupGraph, Leave, Begin
  <2> QED
    BY <1>2, <2>1 DEF ComputedInv
<1>5. CASE PrepareNodes
  <2>1. phase' = "idle" \/ (phase' = "compute" /\ i' = 1)
    BY <1>1, <1>5 DEF PrepareNodes, ComputedInv, Goto, Leave
  <2> QED
    BY <1>2, <2>1 DEF ComputedInv
<1>6. CASE OpCompute
  <2>1. /\ phase = "compute" /\ phase' = "compute" /\ i' = i + 1
        /\ made' = made \cup GetTensors(CurNode.outs)
        /\ UNCHANGED <<tensor_table, cur_tid, node_table, order>>
    BY <1>6 DEF OpCompute, AtNode, table, io
  <2>2. i \in Nat
    BY <1>1, Numbers
  <2>3. \A k \in 1..i - 1 : GetTensors(Node(order[k]).outs) \subseteq made'
    BY <1>1, <2>1 DEF ComputedInv
  <2>4. GetTensors(Node(order[i]).outs) \subseteq made'
    BY <2>1 DEF CurNode
  <2>5. \A k \in 1..i' - 1 : GetTensors(Node(order[k]).outs) \subseteq made'
    BY <2>1, <2>2, <2>3, <2>4
  <2>6. \A k \in 1..i' - 1 : GetTensors(Node(order[k]).outs)' = GetTensors(Node(order[k]).outs)
    BY <2>1 DEF GetTensors, Ids, Node
  <2> QED
    BY <2>1, <2>5, <2>6 DEF ComputedInv
<1>7. CASE ComputeEnds
  <2>1. /\ phase = "compute" /\ phase' = "signal" /\ i > Len(order)
        /\ UNCHANGED <<tensor_table, cur_tid, node_table, order, made>>
    BY <1>7 DEF ComputeEnds, Goto, table, io, objects
  <2>2. ASSUME NEW n \in AllNodes
        PROVE  GetTensors(Node(n).outs) \subseteq made
    <3>1. PICK k \in AllNodes : order[k] = n
      BY <1>1, <2>1 DEF OrderInv, Working
    <3>2. k \in 1..i - 1
      BY <1>1, <2>1, Numbers DEF OrderInv, Working, AllNodes
    <3> QED
      BY <1>1, <2>1, <3>1, <3>2 DEF ComputedInv
  <2>3. AllNodes' = AllNodes
    BY <2>1 DEF AllNodes
  <2>4. \A n \in AllNodes : GetTensors(Node(n).outs)' = GetTensors(Node(n).outs)
    BY <2>1 DEF GetTensors, Ids, Node
  <2> QED
    BY <2>1, <2>2, <2>3, <2>4 DEF ComputedInv
<1>8. CASE NoSignal \/ SignalUnsupported \/ SignalNode \/ SignalFails
  <2>1. /\ phase = "signal" /\ UNCHANGED <<table, io>> /\ made \subseteq made'
        /\ Goto("identify") \/ phase' \in {"idle", "crashed"}
    BY <1>8 DEF NoSignal, SignalUnsupported, SignalNode, SignalComputed, SignalFails, NewSignal, Leave, objects
  <2> QED
    BY <1>1, <1>2, <2>1, QuietComputed DEF Goto, table, io
<1>9. CASE Identify
  <2>1. /\ phase = "identify" /\ phase' \in {"identified", "crashed"}
        /\ UNCHANGED <<tensor_table, cur_tid, node_table, made>>
    BY <1>9 DEF Identify, Leave, table, io, objects
  <2>2. \A n \in AllNodes : GetTensors(Node(n).outs)' = GetTensors(Node(n).outs)
    BY <2>1 DEF GetTensors, Ids, Node
  <2>3. AllNodes' = AllNodes
    BY <2>1 DEF AllNodes
  <2> QED
    BY <1>1, <2>1, <2>2, <2>3 DEF ComputedInv
<1>10. CASE ComputeFails \/ SetupReturns \/ ReleaseGraph
  <2>1. phase' \in {"idle", "released"}
    BY <1>10 DEF ComputeFails, SetupReturns, ReleaseGraph, Released, Leave
  <2> QED
    BY <1>2, <2>1
<1>11. CASE UNCHANGED vars
  BY <1>1, <1>11, QuietComputed DEF vars, table, io, objects, progress
<1>12. CASE PrepareCrashes \/ ComputeCrashes \/ SignalRefused \/ SignalCrashes
  BY <1>2, <1>12, OnlyLeaves DEF Leave
<1> QED
  BY <1>3, <1>4, <1>5, <1>6, <1>7, <1>8, <1>9, <1>10, <1>11, <1>12 DEF Next

LEMMA SignalStep == IInv /\ [Next]_vars => SignalInv'
<1> SUFFICES ASSUME IInv, [Next]_vars, phase' = "identify"
             PROVE  exists' /\ Len(outputs') = 1 => signal' # None
  BY DEF SignalInv
<1>1. TypeOK /\ SignalInv
  BY DEF IInv, Building, Setup
<1>2. CASE UNCHANGED vars
  BY <1>1, <1>2 DEF SignalInv, vars, io, progress
<1>3. CASE NoSignal
  BY <1>3 DEF NoSignal, io
<1>4. CASE SignalUnsupported
  BY <1>4 DEF SignalUnsupported, io
<1>5. CASE SignalNode
  <2>1. signal' = created + 1 /\ created < MaxTensors /\ created \in Nat /\ MaxTensors \in Nat
    BY <1>1, <1>5, Numbers, Constants DEF SignalNode, SignalComputed, NewSignal
  <2> QED
    BY <1>1, <2>1, HeldTensors
<1>6. NoSignal \/ SignalUnsupported \/ SignalNode \/ UNCHANGED vars
  BY DEF Next, AddTensor, RemoveTensor, AddNode, RemoveNode, SetGraphInputs, SetGraphOutputs,
         SetupGraph, Begin, PrepareNodes, PrepareCrashes, OpCompute, ComputeFails, ComputeCrashes,
         ComputeEnds, AtNode, SignalRefused, SignalCrashes, SignalFails, Identify, SetupReturns,
         ReleaseGraph, Released, Leave, Goto, progress
<1> QED
  BY <1>2, <1>3, <1>4, <1>5, <1>6

LEMMA CrashStep == IInv /\ [Next]_vars => CrashesExplained'
<1> SUFFICES ASSUME IInv, [Next]_vars, phase' = "crashed"
             PROVE  CrashesExplained'
  BY DEF CrashesExplained
<1> DEFINE Cause == \/ \E n \in AllNodes : Node(n) = None \/ Lacks(n)
                    \/ \E id \in inputs : id >= cur_tid
                    \/ /\ exists
                       /\ Len(outputs) # 1 \/ tensor_table[outputs[1]] = None \/ ~aligned
<1>1. TypeOK /\ OrderInv /\ SignalInv /\ CrashesExplained
  BY DEF IInv, Building, Setup
<1>2. ASSUME Cause, UNCHANGED <<table, io>>
      PROVE  CrashesExplained'
  BY <1>2 DEF CrashesExplained, Lacks, AllNodes, Node, table, io
<1>3. CASE UNCHANGED vars
  <2>1. Cause
    BY <1>1, <1>3 DEF CrashesExplained, vars, progress
  <2> QED
    BY <1>2, <1>3, <2>1 DEF vars
<1>4. ASSUME NEW sort \in BOOLEAN, SetupGraph(sort)
      PROVE  CrashesExplained'
  <2>1. UNCHANGED <<table, io>> /\ ((\E n \in AllNodes : Node(n) = None) \/ PastEnd)
    BY <1>4 DEF SetupGraph, Begin
  <2>2. Cause
    BY <2>1 DEF PastEnd, Lacks
  <2> QED
    BY <1>2, <2>1, <2>2
<1>5. CASE SignalUnsupported
  <2>1. Len(outputs) # 1 /\ exists /\ UNCHANGED <<table, io>>
    BY <1>5 DEF SignalUnsupported
  <2> QED
    BY <1>2, <2>1
<1>6. CASE Identify
  <2>1. phase = "identify" /\ exists /\ signal = None /\ UNCHANGED <<table, io>>
    BY <1>6 DEF Identify, Leave
  <2> QED
    BY <1>1, <1>2, <2>1 DEF SignalInv
<1>7. CASE PrepareCrashes
  BY <1>2, <1>7 DEF PrepareCrashes
<1>8. CASE ComputeCrashes
  <2>1. phase = "compute" /\ i \in 1..Len(order) /\ Lacks(order[i]) /\ UNCHANGED <<table, io>>
    BY <1>1, <1>8, Numbers DEF ComputeCrashes, AtNode, TypeOK
  <2>2. order[i] \in AllNodes
    BY <1>1, <2>1 DEF OrderInv, Working, AllNodes
  <2> QED
    BY <1>2, <2>1, <2>2
<1>9. CASE SignalCrashes
  BY <1>2, <1>9 DEF SignalCrashes
<1>10. \/ \E sort \in BOOLEAN : SetupGraph(sort)
       \/ SignalUnsupported \/ Identify \/ UNCHANGED vars
       \/ PrepareCrashes \/ ComputeCrashes \/ SignalCrashes
  BY DEF Next, AddTensor, RemoveTensor, AddNode, RemoveNode, SetGraphInputs, SetGraphOutputs,
         PrepareNodes, OpCompute, ComputeFails, ComputeEnds, AtNode, NoSignal, NewSignal, SignalNode,
         SignalComputed, SignalRefused, SignalFails, SetupReturns, ReleaseGraph, Released, Leave,
         Goto, progress
<1> QED
  BY <1>3, <1>4, <1>5, <1>6, <1>7, <1>8, <1>9, <1>10

\* The array for the driver, whatever id is read beyond the outputs.
LEMMA GraphOutputsAre ==
  ASSUME TypeOK, NEW beyond \in Id
  PROVE  /\ Len(GraphOutputs(beyond)) = Len(outputs) + (IF exists THEN 1 ELSE 0)
         /\ exists => GraphOutputs(beyond)[Len(outputs) + 1] = signal
         /\ \A k \in 1..Len(outputs) : GraphOutputs(beyond)[k] = tensor_table[outputs[k]]
<1>1. outputs \in Seq(Id) /\ Len(outputs) \in Nat
  BY Numbers DEF TypeOK
<1>2. CASE ~exists
  BY <1>1, <1>2 DEF GraphOutputs
<1>3. CASE exists
  <2> DEFINE longer == [k \in 1..Len(outputs) + 1 |-> tensor_table[Append(outputs, beyond)[k]]]
  <2>1. GraphOutputs(beyond) = [longer EXCEPT ![Len(outputs) + 1] = signal]
    BY <1>3 DEF GraphOutputs
  <2>2. DOMAIN longer = 1..Len(outputs) + 1
    OBVIOUS
  <2>3. \A k \in 1..Len(outputs) : longer[k] = tensor_table[outputs[k]]
    <3>1. \A k \in 1..Len(outputs) : Append(outputs, beyond)[k] = outputs[k]
      BY <1>1, AppendProperties
    <3> QED
      BY <1>1, <3>1
  <2>4. Len(outputs) + 1 \in 1..Len(outputs) + 1
    BY <1>1
  <2> HIDE DEF longer
  <2>5. DOMAIN GraphOutputs(beyond) = 1..Len(outputs) + 1
    BY <2>1, <2>2
  <2>6. Len(GraphOutputs(beyond)) = Len(outputs) + 1
    BY <1>1, <2>1, <2>2
  <2>7. GraphOutputs(beyond)[Len(outputs) + 1] = signal
    BY <2>1, <2>2, <2>4
  <2>8. \A k \in 1..Len(outputs) : GraphOutputs(beyond)[k] = tensor_table[outputs[k]]
    <3>1. \A k \in 1..Len(outputs) : k # Len(outputs) + 1 /\ k \in 1..Len(outputs) + 1
      BY <1>1
    <3> QED
      BY <2>1, <2>2, <2>3, <3>1
  <2> QED
    BY <1>3, <2>6, <2>7, <2>8
<1> QED
  BY <1>2, <1>3

LEMMA OutputsStep == IInv /\ [Next]_vars => OutputsIdentified'
<1> SUFFICES ASSUME IInv, [Next]_vars, phase' = "identified"
             PROVE  OutputsIdentified'
  BY DEF OutputsIdentified
<1>1. TypeOK /\ HeldOnce /\ ComputedInv /\ OutputsIdentified
  BY DEF IInv, Building, Setup
<1>2. CASE UNCHANGED vars
  BY <1>1, <1>2 DEF OutputsIdentified, vars, table, io, objects, progress, arrays, AllNodes, Node, Ids
<1>3. CASE Identify
  <2>1. /\ phase = "identify" /\ (exists => signal # None)
        /\ graph_inputs' = [id \in inputs |-> tensor_table[id]]
        /\ \E beyond \in Id : graph_outputs' = GraphOutputs(beyond)
        /\ UNCHANGED <<tensor_table, cur_tid, node_table, inputs, outputs, exists, signal, frees, made>>
    BY <1>3 DEF Identify, GraphInputs, Leave, table, io, objects
  <2>2. /\ Len(graph_outputs') = Len(outputs) + (IF exists THEN 1 ELSE 0)
        /\ exists => graph_outputs'[Len(outputs) + 1] = signal
        /\ \A k \in 1..Len(outputs) : graph_outputs'[k] = tensor_table[outputs[k]]
    BY <1>1, <2>1, GraphOutputsAre
  <2>3. exists => frees[signal] = 0
    BY <1>1, <2>1 DEF HeldOnce
  <2>4. ASSUME NEW k \in 1..Len(outputs), NEW n \in AllNodes,
               outputs[k] \in Ids(Node(n).outs), outputs[k] < cur_tid
        PROVE  graph_outputs'[k] \in made
    <3>1. tensor_table[outputs[k]] \in GetTensors(Node(n).outs)
      BY <2>4 DEF GetTensors, Ids
    <3>2. GetTensors(Node(n).outs) \subseteq made
      BY <1>1, <2>1 DEF ComputedInv
    <3> QED
      BY <2>2, <3>1, <3>2
  <2>5. AllNodes' = AllNodes
    BY <2>1 DEF AllNodes
  <2>6. \A n \in AllNodes : Ids(Node(n).outs)' = Ids(Node(n).outs)
    BY <2>1 DEF Node, Ids
  <2>7. exists => Len(graph_outputs') = Len(outputs) + 1
    BY <2>2
  <2> QED
    BY <2>1, <2>2, <2>3, <2>4, <2>5, <2>6, <2>7 DEF OutputsIdentified
<1>4. Identify \/ UNCHANGED vars
  BY DEF Next, AddTensor, RemoveTensor, AddNode, RemoveNode, SetGraphInputs, SetGraphOutputs,
         SetupGraph, Begin, PrepareNodes, PrepareCrashes, OpCompute, ComputeFails, ComputeCrashes,
         ComputeEnds, AtNode, NoSignal, SignalRefused, SignalUnsupported, SignalCrashes, NewSignal,
         SignalNode, SignalComputed, SignalFails, SetupReturns, ReleaseGraph, Released, Leave, Goto,
         progress
<1> QED
  BY <1>2, <1>3, <1>4

-----------------------------------------------------------------------------
(* The theorems                                                            *)

LEMMA InitIInv == Init => IInv
<1> SUFFICES ASSUME Init
             PROVE  IInv
  OBVIOUS
<1> USE Constants DEF Init
<1>1. <<>> \in Seq(NodeKinds \cup {None}) /\ <<>> \in Seq(Id) /\ <<>> \in Seq(1..MaxNodes)
  BY EmptySeq
<1>2. TypeOK
  BY <1>1 DEF TypeOK
<1>3. Counted
  BY DEF Counted
<1>4. Holding
  BY DEF Holding, HeldOnce, InOrder, NoneLost, ReleasedOnce, Signals
<1>5. Setup
  BY DEF Setup, OrderInv, Working, ComputedInv, SignalInv, CrashesExplained, OutputsIdentified
<1> QED
  BY <1>2, <1>3, <1>4, <1>5 DEF IInv, Building, Holding

LEMMA IInvStep == IInv /\ [Next]_vars => IInv'
<1> SUFFICES ASSUME IInv, [Next]_vars
             PROVE  IInv'
  OBVIOUS
<1>1. TensorType' /\ SetupType' /\ Counted' /\ Holding'
  BY TypeStep, HoldingStep
<1>2. TypeOK'
  BY <1>1 DEF TypeOK, TensorType, SetupType, Holding, HeldOnce
<1> QED
  BY <1>1, <1>2, OrderStep, ComputedStep, SignalStep, CrashStep, OutputsStep
     DEF IInv, Building, Setup, Holding

\* The inductive invariant holds in every reachable state.
THEOREM Invariance == Spec => []IInv
BY InitIInv, IInvStep, PTL DEF Spec

\* Every variable has its type, and neither the table nor, until the graph is released,
\* complete_signal holds a tensor that was released (vsi_nn_graph.c, in every function
\* that adds or releases a tensor).
THEOREM TypeOKThm == Spec => []TypeOK
<1>1. IInv => TypeOK
  BY DEF IInv, Building
<1> QED
  BY <1>1, Invariance, PTL

\* No tensor is released twice, and vsi_nn_ReleaseGraph releases all that the graph
\* still holds, for ids given in order and a signal that was not lost.
THEOREM ReleasedOnceThm == Spec => []ReleasedOnce
<1>1. IInv => ReleasedOnce
  BY DEF IInv, Building
<1> QED
  BY <1>1, Invariance, PTL

\* compute_node of a sorted graph comes to a node when the tensors it reads have their
\* driver tensors: they are inputs, or outputs of nodes it has come to.
THEOREM InputsReadyThm == Spec => []InputsReady
<1>1. IInv => InputsReady
  <2> SUFFICES ASSUME IInv, AtNode, sorted, GetTensors(inputs) \subseteq made,
                      NEW t \in GetTensors(CurNode.ins)
               PROVE  t \in made
    BY DEF InputsReady
  <2>1. TypeOK /\ OrderInv /\ ComputedInv /\ phase = "compute"
    BY DEF IInv, Building, Setup, AtNode
  <2>2. IsOrder(order) /\ i \in 1..Len(order) /\ i \in Nat
    BY <2>1, Numbers DEF OrderInv, Working, AtNode, TypeOK
  <2>3. PICK id \in Ids(CurNode.ins) : id < cur_tid /\ t = tensor_table[id]
    BY DEF GetTensors, Ids
  <2>4. id \in CurNode.ins /\ tensor_table[id] # None
    BY DEF Ids
  <2>5. CASE id \in inputs
    BY <2>3, <2>4, <2>5 DEF GetTensors, Ids
  <2>6. ASSUME NEW l \in 1..i - 1, id \in Node(order[l]).outs
        PROVE  t \in made
    <3>1. t \in GetTensors(Node(order[l]).outs)
      BY <2>3, <2>4, <2>6 DEF GetTensors, Ids
    <3> QED
      BY <2>1, <3>1 DEF ComputedInv
  <2>7. id \in Marked \cup UNION {Node(order[l]).outs : l \in 1..i - 1}
    BY <2>2, <2>4 DEF IsOrder, CurNode
  <2> QED
    BY <2>4, <2>5, <2>6, <2>7 DEF Marked
<1> QED
  BY <1>1, Invariance, PTL

\* vsi_nn_SetupGraph crashes only for a node that was removed or has an id without a
\* tensor, an input id the sort has no room for, or a signal in a graph without exactly
\* one output, whose output has no tensor, or whose write address is not aligned.
THEOREM CrashesExplainedThm == Spec => []CrashesExplained
<1>1. IInv => CrashesExplained
  BY DEF IInv, Setup
<1> QED
  BY <1>1, Invariance, PTL

\* What vxIdentifyGraphInputsAndOutputs is told are the tensors of the graph's inputs, by
\* their ids, those of its outputs, in order, and the signal, which was not released.
THEOREM OutputsIdentifiedThm == Spec => []OutputsIdentified
<1>1. IInv => OutputsIdentified
  BY DEF IInv, Setup
<1> QED
  BY <1>1, Invariance, PTL
=============================================================================
