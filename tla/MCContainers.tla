---------------------------- MODULE MCContainers ----------------------------
(* Four keys: enough for a deleted node whose right subtree has its least  *)
(* node below its root.  A map of four keys uses all four items.           *)
EXTENDS Containers

Symmetry == Permutations(Item) \cup Permutations(Value)
=============================================================================
