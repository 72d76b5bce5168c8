--------------------------- MODULE MCCompilation ---------------------------
(* Compilation with a model of two operations, so that a conversion can    *)
(* stop half-way, and two Compilations of it, used by three threads that may *)
(* bind two shapes.                                                        *)
EXTENDS Compilation, TLC

symmetry == Permutations(Thread) \cup Permutations(Compilations) \cup Permutations(Dims)
=============================================================================
