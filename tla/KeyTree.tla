---- MODULE KeyTree ----
(***************************************************************************)
(* The two trees of the proxy that are ordered by an int32_t: the tenants' *)
(* listeners (listner_root; rb_data_tree.h, split.c) and the next hops     *)
(* with pre-established connections (preconn_root; preconn_rb_tree.h).     *)
(*                                                                         *)
(* Both walk down by the sign of a difference of keys, which wraps around. *)
(* Listeners are added and deleted by commands and all removed at unload;  *)
(* next hops are only added, but are looked up by readers who read the     *)
(* root before they take the lock.                                         *)
(*                                                                         *)
(* A node is named by its key.                                             *)
(***************************************************************************)
EXTENDS Integers, FiniteSets, RbTree

CONSTANTS KeyBits,  \* the width of a key, 32 in the code
          KeySets,  \* sets of tenants or of next hops that are in use together
          Readers   \* the tasks that look a next hop up

ASSUME KeyConstants ==
    /\ KeyBits \in Nat \ {0}
    /\ Nodes \subseteq -(2^(KeyBits - 1)) .. (2^(KeyBits - 1) - 1)
    /\ UNION KeySets \subseteq Nodes
    /\ NULL \notin Nodes

VARIABLES which,  \* the tree this is, "listner" or "preconn"
          keys,   \* the keys in use
          tree,
          reader, \* reader[r]: a lookup under way: where it is, the key and the root
          walk,   \* stop_sockets: where it is and the node it goes on with
          oops    \* "none", or what went wrong in the tree

vars == <<which, keys, tree, reader, walk, oops>>

NoLookup == [pc |-> "none", key |-> NULL, root |-> NULL, there |-> FALSE, found |-> NULL]

Init ==
    /\ which \in {"listner", "preconn"}
    /\ keys \in KeySets
    /\ tree = EmptyTree
    /\ reader = [r \in Readers |-> NoLookup]
    /\ walk = [pc |-> "none", pos |-> NULL, had |-> 0, stopped |-> {}]
    /\ oops = "none"

----
(* The order of keys.                                                      *)

\* Mutant: the result has half the range of a key.
Diff_narrow(a, b) ==
    LET half == 2^(KeyBits - 2)
    IN  ((a - b + half) % (2 * half)) - half

\* int32_t result = a - b: kernels are built so that it wraps around.
Diff(a, b) ==
    LET half == 2^(KeyBits - 1)
    IN  ((a - b + half) % (2 * half)) - half

\* Where a walk for key k goes on below node n # k.
Way(k, n) == IF Diff(k, n) < 0 THEN Left ELSE Right

\* The way of key k down from node n: the node with the key or the one to link
\* it to.
RECURSIVE Descend(_, _, _)
Descend(T, k, n) ==
    IF Diff(k, n) = 0 \/ T.ch[n][Way(k, n)] = NULL THEN n ELSE Descend(T, k, T.ch[n][Way(k, n)])

\* search_rb_listner and search_rb_preconn from a root.
Search(T, k, root) == IF root = NULL THEN NULL
                      ELSE IF Descend(T, k, root) = k THEN k ELSE NULL

\* add_rb_listner and add_rb_preconn of a key that the walk does not meet.
Insert(T, k) ==
    IF T.root = NULL THEN rb_link(T, k, NULL, Left)
    ELSE LET p == Descend(T, k, T.root)
         IN  rb_link(T, k, p, Way(k, p))

----
(* Commands, SYNs and refills.                                             *)

\* A tenant or a next hop is looked up, and added when it is not found.  A key
\* that is in the tree and was missed is then linked for a second time.
Add(k) ==
    /\ oops = "none" /\ walk.pc = "none"
    /\ Search(tree, k, tree.root) = NULL
    /\ IF k \in NodesOf(tree)
       THEN oops' = "second_node" /\ UNCHANGED tree
       ELSE tree' = Insert(tree, k) /\ UNCHANGED oops
    /\ UNCHANGED <<which, keys, reader, walk>>

\* del_server_cb and remove_listner_server; a tenant that is not found is not
\* running.
del_server_cb(k) ==
    /\ oops = "none" /\ walk.pc = "none" /\ which = "listner"
    /\ Search(tree, k, tree.root) = k
    /\ tree' = rb_erase(tree, k)
    /\ UNCHANGED <<which, keys, reader, walk, oops>>

\* search_rb_preconn reads root->rb_node ...
ReadRoot(r, k) ==
    /\ oops = "none" /\ which = "preconn"
    /\ reader[r].pc = "none"
    /\ reader' = [reader EXCEPT ![r] = [pc |-> "lock", key |-> k, root |-> tree.root,
                                        there |-> k \in NodesOf(tree), found |-> NULL]]
    /\ UNCHANGED <<which, keys, tree, walk, oops>>

\* Mutant: a walk that ends returns the node it ended at.
SearchLocked_last(r) ==
    /\ oops = "none" /\ reader[r].pc = "lock"
    /\ reader' = [reader EXCEPT ![r].pc = "done",
                                ![r].found = IF reader[r].root = NULL THEN NULL
                                             ELSE Descend(tree, reader[r].key, reader[r].root)]
    /\ UNCHANGED <<which, keys, tree, walk, oops>>

\* ... and walks down from there once it has the lock.
SearchLocked(r) ==
    /\ oops = "none" /\ reader[r].pc = "lock"
    /\ reader' = [reader EXCEPT ![r].pc = "done",
                                ![r].found = Search(tree, reader[r].key, reader[r].root)]
    /\ UNCHANGED <<which, keys, tree, walk, oops>>

----
(* stop_sockets at unload.                                                 *)

StartWalk ==
    /\ oops = "none" /\ walk.pc = "none" /\ which = "listner"
    /\ walk' = [pc |-> "loop", pos |-> rb_first_postorder(tree),
                had |-> Cardinality(NodesOf(tree)), stopped |-> {}]
    /\ UNCHANGED <<which, keys, tree, reader, oops>>

\* Mutant: the next listener is looked up after the removal.
StopOne_late ==
    /\ oops = "none" /\ walk.pc = "loop" /\ walk.pos # NULL
    /\ tree' = rb_erase(tree, walk.pos)
    /\ walk' = [walk EXCEPT !.pos = rb_next_postorder(tree', @), !.stopped = @ \cup {walk.pos}]
    /\ UNCHANGED <<which, keys, reader, oops>>

\* rbtree_postorder_for_each_entry_safe: the successor is determined before the
\* listener is removed, and removing it may turn the tree around.
StopOne ==
    /\ oops = "none" /\ walk.pc = "loop" /\ walk.pos # NULL
    /\ IF walk.pos \in walk.stopped
       THEN oops' = "freed_node" /\ UNCHANGED <<tree, walk>>
       ELSE /\ tree' = rb_erase(tree, walk.pos)
            /\ walk' = [walk EXCEPT !.pos = rb_next_postorder(tree, @), !.stopped = @ \cup {walk.pos}]
            /\ UNCHANGED oops
    /\ UNCHANGED <<which, keys, reader>>

EndWalk ==
    /\ oops = "none" /\ walk.pc = "loop" /\ walk.pos = NULL
    /\ walk' = [walk EXCEPT !.pc = "done"]
    /\ UNCHANGED <<which, keys, tree, reader, oops>>

----
Next ==
    \/ \E k \in keys : Add(k) \/ del_server_cb(k)
    \/ \E r \in Readers : SearchLocked(r) \/ \E k \in keys : ReadRoot(r, k)
    \/ StartWalk \/ StopOne \/ EndWalk

Spec == Init /\ [][Next]_vars

----
(* Correctness.                                                            *)

\* No two of the keys are half the range of an int32_t or more apart.  Addresses
\* are in network byte order, so 10.0.0.1 and 10.0.0.130 are.
Near(S) == \A j, k \in S : j - k < 2^(KeyBits - 1)

\* As long as no difference of keys wraps around, and for up to three next hops
\* whatever their addresses, whoever is in the tree is found: no tenant loses
\* its listener to a rotation or an erased neighbour, and none gets a second one.
LinkedKeysAreFound ==
    Near(keys) \/ (which = "preconn" /\ Cardinality(keys) <= 3) =>
        /\ \A k \in NodesOf(tree) : Search(tree, k, tree.root) = k
        /\ oops # "second_node"

\* The unload removes no listener twice, and all of them if there are three at
\* most.  With four the walk may end early: a removal lifts the next one to the
\* root, and a post-order walk takes the root for the last.
UnloadWalk ==
    /\ oops # "freed_node"
    /\ walk.pc = "done" /\ walk.had <= 3 => NodesOf(tree) = {}

\* A lookup that reads the root before it has the lock returns the next hop it
\* was asked for or none, and misses one that was there only when another one
\* has become the root in the meantime.
LookupMissesOnlyMovedRoots ==
    [][\A r \in Readers :
        reader[r].pc = "lock" /\ reader'[r].pc = "done" =>
            /\ reader'[r].found \in {NULL, reader[r].key}
            /\ Near(keys) /\ reader[r].there /\ reader'[r].found = NULL => reader[r].root # tree.root]_vars
====
