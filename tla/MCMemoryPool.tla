---------------------------- MODULE MCMemoryPool ----------------------------
(* MemoryPool with one mapped memory of two units.  Lengths below and above *)
(* the threshold, offsets inside, at the last unit, at the end and past it. *)
EXTENDS MemoryPool, TLC

MCSize == [m \in Memory |-> 2]

Symmetry == Permutations(Operand) \cup Permutations(Buffer) \cup Permutations(Data)
=============================================================================
