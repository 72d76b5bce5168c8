------------------------- MODULE MCHalPreparedModel -------------------------
(* HalPreparedModel with two inputs, an output and two pools, so that an   *)
(* argument can be bound and a later one refused, or passed over.          *)
EXTENDS HalPreparedModel
=============================================================================
