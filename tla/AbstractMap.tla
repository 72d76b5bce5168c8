---------------------------- MODULE AbstractMap ----------------------------
(***************************************************************************)
(* What vsi_nn_map and vsi_nn_hashmap promise their users: a finite        *)
(* partial function from keys to values, which answers a query for an      *)
(* absent key with NULL.                                                   *)
(***************************************************************************)
EXTENDS Functions

CONSTANTS Key, Value, NULL

VARIABLES
  dict, \* the map: a function whose domain is the set of keys present
  ret   \* what the last query returned

vars == <<dict, ret>>

Init == dict = <<>> /\ ret = NULL

Add(k, v) ==
  /\ dict' = [x \in DOMAIN dict \cup {k} |-> IF x = k THEN v ELSE dict[x]]
  /\ UNCHANGED ret

Remove(k) == dict' = Restrict(dict, DOMAIN dict \ {k}) /\ UNCHANGED ret

Get(k) ==
  /\ ret' = IF k \in DOMAIN dict THEN dict[k] ELSE NULL
  /\ UNCHANGED dict

Next ==
  \E k \in Key :
    \/ \E v \in Value : Add(k, v)
    \/ Remove(k)
    \/ Get(k)

Spec == Init /\ [][Next]_vars
=============================================================================
