---------------------------- MODULE MCExecution ----------------------------
(* Execution on two executions of one compilation (or one), two client     *)
(* threads and two evaluations.  Symmetry is used in safety runs only.     *)
EXTENDS Execution, TLC

SharedSymmetry == Permutations(Client) \cup Permutations(Run) \cup Permutations(Data)
Symmetry       == Permutations(Exec) \cup SharedSymmetry
=============================================================================
