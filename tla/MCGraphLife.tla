---------------------------- MODULE MCGraphLife ----------------------------
(* GraphLife with three ids and a chain of two nodes, which may be added   *)
(* in either order, or twice; only the input has known dimensions.         *)
EXTENDS GraphLife

attrs == {[id |-> 0, sized |-> TRUE], [id |-> 1, sized |-> FALSE],
          [id |-> 2, sized |-> FALSE]}
kinds == {[ins |-> {0}, outs |-> {1}], [ins |-> {1}, outs |-> {2}]}
outputSeqs == {<<2>>, <<2, 1>>}
=============================================================================
