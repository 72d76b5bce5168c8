----------------------------- MODULE Containers -----------------------------
(***************************************************************************)
(* vsi_nn_map.c and vsi_nn_hashmap.c of ovxlib/src/utils, with the binary  *)
(* tree and the linked list they are made of (vsi_nn_binary_tree.c, the    *)
(* copy of it in vsi_nn_hashmap.c, and vsi_nn_link_list.c).                *)
(*                                                                         *)
(* Both containers keep every key twice: in an unbalanced search tree,     *)
(* which answers queries, and in a doubly linked list, through which their *)
(* users iterate.  A map's tree holds the keys themselves.  A hash map's   *)
(* tree holds pointers to the strings that the items of its list own, so   *)
(* its order hangs on memory that remove and clear give back.              *)
(*                                                                         *)
(* A node of the tree is known by its place: the turns that lead to it     *)
(* from the root.  The loops and recursions of the code that follow        *)
(* pointers are given by where they end.  Memory does not run out.         *)
(***************************************************************************)
EXTENDS Integers, FiniteSets, TLC, Functions, SequencesExt

CONSTANTS
  Key,   \* keys, as integers: only their order matters
  Value,
  Item,  \* addresses of list items
  MaxClears, \* bound: calls of clear
  NULL

ASSUME ContainersAssumption ==
  /\ Key \subseteq Int
  /\ NULL \notin Key \cup Value \cup Item
  /\ Key \cap Item = {}
  /\ IsFiniteSet(Item)
  /\ MaxClears \in Nat

VARIABLES
  kind,     \* "map" or "hashmap"
  tree,     \* values: the nodes, each with its place
  items,    \* keys of a map, items of a hashmap: root of the list
  next, prev, \* links of the items
  hash_key, \* the key an item holds, NULL when the item is free
  size,
  iter,     \* the item clear has reached, NULL when no clear is going on
  cleared,  \* history: how often a hashmap was cleared
  ret       \* history: result of the last query

list == <<items, next, prev, hash_key>>
mapVars == <<kind, tree, list, size, iter, cleared, ret>>

MapInit ==
  /\ kind \in {"map", "hashmap"}
  /\ tree = {}
  /\ items = NULL
  /\ next = [i \in Item |-> NULL]
  /\ prev = [i \in Item |-> NULL]
  /\ hash_key = [i \in Item |-> NULL]
  /\ size = 0
  /\ iter = NULL
  /\ cleared = 0
  /\ ret = NULL

-----------------------------------------------------------------------------
(* The binary tree                                                         *)

Side == {"left", "right"}

\* What the comparisons of the tree look at: the key, or the string it points to.
KeyOf(node) == IF node.key \in Item THEN hash_key[node.key] ELSE node.key

Turn(k, node) == IF k < KeyOf(node) THEN "left" ELSE "right"

IsNode(t, p) == \E n \in t : n.at = p

\* Where a search for k that begins at root ends: the node with that key, or the
\* empty place where such a node is to be put.
_find_loc(t, root, k) ==
  {p \in {n.at : n \in t} \cup {<<>>} \cup {Append(n.at, side) : n \in t, side \in Side} :
     /\ IsPrefix(root, p)
     /\ \A j \in Len(root)..Len(p) - 1 :
          \E n \in t : n.at = SubSeq(p, 1, j) /\ KeyOf(n) # k /\ p[j + 1] = Turn(k, n)
     /\ \A n \in t : n.at = p => KeyOf(n) = k}

\* Mutant: the walk to the left is not done.
_right_node(t, root) == {n \in t : n.at = root}

\* The node that a walk to the left from root ends at.
_min_node(t, root) ==
  {n \in t :
     /\ IsPrefix(root, n.at)
     /\ \A j \in Len(root) + 1..Len(n.at) : n.at[j] = "left"
     /\ ~IsNode(t, Append(n.at, "left"))}

\* The node at p is freed, and the subtree it may have takes its place.
Spliced(t, p) ==
  {IF IsPrefix(p, n.at) THEN [n EXCEPT !.at = RemoveAt(@, Len(p) + 1)] ELSE n :
     n \in {m \in t : m.at # p}}

\* Mutant: the data of the node that takes the place is not copied.
_del_node_keeps_data(k) ==
  \E root \in _find_loc(tree, <<>>, k) :
    \/ ~IsNode(tree, root) /\ UNCHANGED tree
    \/ /\ \E side \in Side : ~IsNode(tree, Append(root, side))
       /\ IsNode(tree, root)
       /\ tree' = Spliced(tree, root)
    \/ /\ \A side \in Side : IsNode(tree, Append(root, side))
       /\ \E node \in _min_node(tree, Append(root, "right")) :
            LET copied == {IF n.at = root THEN [n EXCEPT !.key = node.key] ELSE n : n \in tree} IN
            \E p \in _find_loc(copied, Append(root, "right"), KeyOf(node)) : tree' = Spliced(copied, p)

\* A node with two children takes the key and the data of the least node of its
\* right subtree, which is searched for there and freed instead.
_del_node_by_key(k) ==
  \E root \in _find_loc(tree, <<>>, k) :
    \/ ~IsNode(tree, root) /\ UNCHANGED tree
    \/ /\ \E side \in Side : ~IsNode(tree, Append(root, side))
       /\ IsNode(tree, root)
       /\ tree' = Spliced(tree, root)
    \/ /\ \A side \in Side : IsNode(tree, Append(root, side))
       /\ \E node \in _min_node(tree, Append(root, "right")) :
            LET copied == {IF n.at = root THEN [node EXCEPT !.at = root] ELSE n : n \in tree} IN
            \E p \in _find_loc(copied, Append(root, "right"), KeyOf(node)) : tree' = Spliced(copied, p)

\* The key k, stored as key; an existing node is updated.
NewNode(key, k, data) ==
  \E loc \in _find_loc(tree, <<>>, k) :
    tree' = IF IsNode(tree, loc)
              THEN {IF n.at = loc THEN [n EXCEPT !.data = data] ELSE n : n \in tree}
              ELSE tree \cup {[at |-> loc, key |-> key, data |-> data]}

-----------------------------------------------------------------------------
(* The linked list                                                         *)

\* The items a loop along link visits from item i.
Visited(link, i) ==
  {j \in Item : \A S \in SUBSET Item :
     {i} \ {NULL} \subseteq S /\ (\A x \in S : link[x] \in S \cup {NULL}) => j \in S}

Find(k) == {i \in Visited(next, items) : hash_key[i] = k}

\* vsi_nn_LinkListPushStart of one new item that holds key k.
PushStart(i, k) ==
  /\ hash_key' = [hash_key EXCEPT ![i] = k]
  /\ items' = i
  /\ \/ items = NULL /\ UNCHANGED <<next, prev>>
     \/ \E self \in Visited(prev, items) : \* _walk_to_start
          /\ prev[self] = NULL
          /\ next' = [next EXCEPT ![i] = self]
          /\ prev' = [prev EXCEPT ![self] = i]

\* Mutant: the successor of a removed root is forgotten.
NewRootNone(i) == IF items # i THEN items ELSE prev[i]

\* The root of the list after item i is removed.
NewRoot(i) ==
  IF items # i THEN items
  ELSE IF prev[i] # NULL THEN prev[i] ELSE next[i]

\* vsi_nn_LinkListRemoveNode, and the item is freed with the string it owns.
RemoveItem(i) ==
  /\ items' = NewRoot(i)
  /\ next' = [j \in Item |-> IF j = i THEN NULL ELSE IF j = prev[i] THEN next[i] ELSE next[j]]
  /\ prev' = [j \in Item |-> IF j = i THEN NULL ELSE IF j = next[i] THEN prev[i] ELSE prev[j]]
  /\ hash_key' = [hash_key EXCEPT ![i] = NULL]

-----------------------------------------------------------------------------
(* The operations                                                          *)

Clearing == iter # NULL

\* vsi_nn_MapAdd, vsi_nn_hashmap_add of a key that is present.
Update(k, v) ==
  /\ ~Clearing
  /\ \E i \in Find(k) : NewNode(IF kind = "map" THEN k ELSE i, k, v)
  /\ UNCHANGED <<kind, list, size, iter, cleared, ret>>

\* The same for a new key: an item is allocated for it.
add(k, v) ==
  /\ ~Clearing
  /\ Find(k) = {}
  /\ \E i \in Item :
       /\ hash_key[i] = NULL
       /\ PushStart(i, k)
       /\ NewNode(IF kind = "map" THEN k ELSE i, k, v)
  /\ size' = size + 1
  /\ UNCHANGED <<kind, iter, cleared, ret>>

\* Mutant: a hash map's item is freed but its tree node is left.
removeItemOnly(k) ==
  /\ ~Clearing
  /\ IF kind = "map" THEN _del_node_by_key(k) ELSE UNCHANGED tree
  /\ \/ Find(k) = {} /\ UNCHANGED <<list, size>>
     \/ /\ \E i \in Find(k) : RemoveItem(i)
        /\ size' = size - 1
  /\ UNCHANGED <<kind, iter, cleared, ret>>

\* vsi_nn_MapRemove, vsi_nn_hashmap_remove: the tree first, then the list.
remove(k) ==
  /\ ~Clearing
  /\ _del_node_by_key(k)
  /\ \/ Find(k) = {} /\ UNCHANGED <<list, size>>
     \/ /\ \E i \in Find(k) : RemoveItem(i)
        /\ size' = size - 1
  /\ UNCHANGED <<kind, iter, cleared, ret>>

\* vsi_nn_MapGet, vsi_nn_hashmap_get; MapHasKey and hashmap_has compare the
\* same result with NULL.
get(k) ==
  /\ ~Clearing
  /\ \E loc \in _find_loc(tree, <<>>, k) :
       \/ ~IsNode(tree, loc) /\ ret' = NULL
       \/ \E n \in tree : n.at = loc /\ ret' = n.data
  /\ UNCHANGED <<kind, tree, list, size, iter, cleared>>

\* vsi_nn_hashmap_clear, also called by vsi_nn_hashmap_release.
clear ==
  /\ ~Clearing
  /\ kind = "hashmap"
  /\ cleared < MaxClears
  /\ iter' = items
  /\ cleared' = cleared + 1
  /\ UNCHANGED <<kind, tree, list, size, ret>>

\* One round of its loop.  size is left alone.
ClearItem ==
  /\ Clearing
  /\ _del_node_by_key(hash_key[iter])
  /\ RemoveItem(iter)
  /\ iter' = next[iter]
  /\ UNCHANGED <<kind, size, cleared, ret>>

MapNext ==
  \/ \E k \in Key :
       \/ \E v \in Value : Update(k, v) \/ add(k, v)
       \/ remove(k)
       \/ get(k)
  \/ clear
  \/ ClearItem

MapSpec == MapInit /\ [][MapNext]_mapVars

-----------------------------------------------------------------------------
(* Properties                                                              *)

\* The nodes of the subtree on one side of node n.
Subtree(n, side) == {m \in tree : IsPrefix(Append(n.at, side), m.at)}

\* Types, among them that of a search tree: through any sequence of insertions and
\* deletions no two nodes share a place, none hangs in the air, and the subtrees of a
\* node hold smaller and greater keys, so that no key is in the tree twice or lost
\* behind a wrong turn.  Every walk down the tree ends, be it for a key or for the least
\* node.  size, an unsigned number in the code, never goes below zero.
MapTypeOK ==
  /\ kind \in {"map", "hashmap"}
  /\ items \in Item \cup {NULL}
  /\ next \in [Item -> Item \cup {NULL}] /\ prev \in [Item -> Item \cup {NULL}]
  /\ hash_key \in [Item -> Key \cup {NULL}]
  /\ size \in Nat
  /\ iter \in Item \cup {NULL}
  /\ cleared \in 0..MaxClears
  /\ ret \in Value \cup {NULL}
  /\ tree \subseteq [at : Seq(Side), key : Key \cup Item, data : Value]
  /\ \A n \in tree : \A j \in 0..Len(n.at) : IsNode(tree, SubSeq(n.at, 1, j))
  /\ \A n, m \in tree : n.at = m.at => n = m
  /\ \A n \in tree :
       /\ \A m \in Subtree(n, "left") : KeyOf(m) < KeyOf(n)
       /\ \A m \in Subtree(n, "right") : KeyOf(m) > KeyOf(n)
       /\ _min_node(tree, n.at) # {}
  /\ \A k \in Key : _find_loc(tree, <<>>, k) # {}

\* No node of a hash map's tree points to the string of an item that was freed:
\* deleting a node with two children hands the pointer of another node on, and
\* the item behind it must be the one that stays.
KeysAlive ==
  \A n \in tree : n.key \in Item => hash_key[n.key] # NULL

\* The list and the tree hold the same keys, each once.  The list is linked both ways,
\* and an iteration from its root reaches every item that was not freed: a root left
\* in the middle would hide keys from add, remove and the users' loops.  size is their
\* number as long as the container was never cleared (clear does not count down).
SameKeys ==
  /\ \A i \in Item : next[i] # NULL => prev[next[i]] = i
  /\ Visited(next, items) = {i \in Item : hash_key[i] # NULL}
  /\ \A i, j \in Visited(next, items) : hash_key[i] = hash_key[j] => i = j
  /\ {hash_key[i] : i \in Visited(next, items)} = {KeyOf(n) : n \in tree}
  /\ cleared = 0 => size = Cardinality(Visited(next, items))

\* Both containers implement a finite map.
Content == [k \in {KeyOf(n) : n \in tree} |-> (CHOOSE n \in tree : KeyOf(n) = k).data]

Map == INSTANCE AbstractMap WITH dict <- Content

ImplementsMap == Map!Spec
=============================================================================
