---------------------------- MODULE MCGraphSort ----------------------------
(* GraphSort on every graph of four nodes of two kinds: each node writes   *)
(* its own tensor and reads at most two, one of which may be an input of   *)
(* the graph; or the nodes write and read any of two shared tensors.       *)
EXTENDS GraphSort, FiniteSets

Small == {s \in SUBSET NodeId : Cardinality(s) <= 2}
Own == [in : [NodeId -> Small], out : {[n \in NodeId |-> {n}]}, const : {{}}, input : {{}, {0}}]

Shared == [in : [NodeId -> SUBSET {0, 1}], out : [NodeId -> {{0}, {1}, {0, 1}}],
           const : {{}}, input : {{}}]

MCTensorId == NodeId
MCGraphs == Own \cup Shared
=============================================================================
