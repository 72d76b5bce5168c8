--------------------------- MODULE MCRnnFeedback ---------------------------
(* RnnFeedback with one connection whose tensors have handles, which is    *)
(* swapped, and one with two inputs, which is copied: in a graph without   *)
(* precompiled nodes, in one that is such a node, in one where only a part *)
(* is, and in one with two such nodes, which share the input that is       *)
(* swapped, one reading what the other computes.                           *)
EXTENDS RnnFeedback

CONSTANTS o1, o2, i1, i2, i3

conns ==
  <<[out |-> o1, ins |-> <<i1>>, handles |-> TRUE],
    [out |-> o2, ins |-> <<i2, i3>>, handles |-> FALSE]>>

reads(t)  == [tensor |-> t, writes |-> FALSE]
writes(t) == [tensor |-> t, writes |-> TRUE]

slotLists ==
  {<<>>,
   <<reads(i1), reads(i2), reads(i3), writes(o1), writes(o2)>>,
   <<reads(i2), writes(o1)>>,
   <<reads(i1), reads(o1), writes(o2), reads(i1), reads(i2), writes(o1)>>}
=============================================================================
