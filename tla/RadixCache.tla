----------------------------- MODULE RadixCache -----------------------------
(***************************************************************************)
(* The radix tree of radix_cache.py (page_size = 1) as a value and the     *)
(* operations on it as operators.                                          *)
(*                                                                         *)
(* A token of the tree is named by the path that leads to it and ends with *)
(* it; slot maps these paths to the KV slots (TreeNode.value).  A node is  *)
(* named by the path at which its segment ends, which a split does not     *)
(* change; ref maps nodes to their lock_ref.  The root is the empty path.  *)
(* evictable and protected are the counters evictable_size_ and            *)
(* protected_size_.                                                        *)
(***************************************************************************)
EXTENDS Integers, Sequences, FiniteSets, SequencesExt

EmptyTree == [slot |-> <<>>, ref |-> <<>>, evictable |-> 0, protected |-> 0]

Take(s, n) == SubSeq(s, 1, n)

\* The function f with the new arguments of g.
With(f, g) == [x \in DOMAIN f \cup DOMAIN g |-> IF x \in DOMAIN g THEN g[x] ELSE f[x]]

Nodes(T) == DOMAIN T.ref

\* The nodes from the root, which is left out, to node n.
PathTo(T, n) == {e \in Nodes(T) : IsPrefix(e, n)}

\* len(node.key).
KeyLen(T, e) == Len(e) - Max({0} \cup {Len(a) : a \in PathTo(T, e) \ {e}})

Tokens(T, E) == MapThenSumSet(LAMBDA e : KeyLen(T, e), E)

\* How much of key is in the tree.
MatchLen(T, key) ==
    Max({0} \cup {n \in 1 .. Len(key) : Take(key, n) \in DOMAIN T.slot})

\* Mutant of Split: the upper half starts unlocked.
SplitUnlocked(T, p) ==
    IF p = <<>> \/ p \in Nodes(T) THEN T ELSE [T EXCEPT !.ref = With(@, [e \in {p} |-> 0])]

\* _split_node at path p, if p is not the end of a node: the upper half
\* inherits the lock_ref.
Split(T, p) ==
    IF p = <<>> \/ p \in Nodes(T) THEN T
    ELSE LET below == {e \in Nodes(T) : IsPrefix(p, e)}
             child == CHOOSE e \in below : \A f \in below : Len(e) <= Len(f)
         IN  [T EXCEPT !.ref = With(@, [e \in {p} |-> T.ref[child]])]

\* match_prefix: the tree with the boundary exposed; the matched path is the
\* last node and the way to its slots.
match_prefix(T, key) == Split(T, Take(key, MatchLen(T, key)))

\* insert: a new leaf for what is not in the tree.
insert(T, key, value) ==
    LET m == MatchLen(T, key)
        S == Split(T, Take(key, m))
    IN  IF m = Len(key) THEN S
        ELSE [S EXCEPT !.slot = With(@, [p \in {Take(key, i) : i \in m + 1 .. Len(key)} |->
                                            value[Len(p)]]),
                       !.ref = With(@, [e \in {key} |-> 0]),
                       !.evictable = @ + Len(key) - m]

\* inc_lock_ref and dec_lock_ref walk from the node to the root; the tokens of
\* nodes whose first lock comes, or last lock goes, change sides.
inc_lock_ref(T, n) ==
    LET moved == Tokens(T, {e \in PathTo(T, n) : T.ref[e] = 0})
    IN  [T EXCEPT !.ref = [e \in Nodes(T) |-> IF IsPrefix(e, n) THEN @[e] + 1 ELSE @[e]],
                  !.evictable = @ - moved, !.protected = @ + moved]

dec_lock_ref(T, n) ==
    LET moved == Tokens(T, {e \in PathTo(T, n) : T.ref[e] = 1})
    IN  [T EXCEPT !.ref = [e \in Nodes(T) |-> IF IsPrefix(e, n) THEN @[e] - 1 ELSE @[e]],
                  !.evictable = @ + moved, !.protected = @ - moved]

\* Mutant of Evictable: a locked leaf may go.
EvictableLocked(T, E) ==
    \A e \in E : \A f \in Nodes(T) : IsPrefix(e, f) => f \in E

\* Leaves go first, and a node when its children are gone, if not locked.
Evictable(T, E) ==
    \A e \in E : T.ref[e] = 0 /\ \A f \in Nodes(T) : IsPrefix(e, f) => f \in E

\* The sets of nodes evict(num_tokens) may delete: one node at a time, in an
\* order that depends on the policy, until enough is evicted or nothing is
\* left to evict.
Evictions(T, num_tokens) ==
    {E \in SUBSET Nodes(T) :
        /\ Evictable(T, E)
        /\ E # {} => \E last \in E : /\ Evictable(T, E \ {last})
                                     /\ Tokens(T, E \ {last}) < num_tokens
        /\ \/ Tokens(T, E) >= num_tokens
           \/ \A e \in Nodes(T) \ E : ~Evictable(T, E \cup {e})}

\* The paths of the tokens of the nodes E, and the tree without them.
PathsOf(T, E) ==
    {p \in DOMAIN T.slot : \E e \in E : IsPrefix(p, e) /\ Len(p) > Len(e) - KeyLen(T, e)}

Evicted(T, E) ==
    [T EXCEPT !.slot = [p \in DOMAIN @ \ PathsOf(T, E) |-> @[p]],
              !.ref = [e \in DOMAIN @ \ E |-> @[e]],
              !.evictable = @ - Tokens(T, E)]

----------------------------------------------------------------------------
(* Properties of a tree.                                                   *)

\* The tree is closed under prefixes, every leaf is the end of a node, and a
\* node is locked at least as often as the nodes below it.
WellFormed(T) ==
    /\ \A p \in DOMAIN T.slot : Len(p) > 1 => Front(p) \in DOMAIN T.slot
    /\ Nodes(T) \subseteq DOMAIN T.slot
    /\ \A p \in DOMAIN T.slot : \E e \in Nodes(T) : IsPrefix(p, e)
    /\ \A e, f \in Nodes(T) : IsPrefix(e, f) => T.ref[e] >= T.ref[f]
    /\ \A e \in Nodes(T) : T.ref[e] >= 0

\* evictable_size_ and protected_size_ count the unlocked and locked tokens.
CountersExact(T) ==
    /\ T.evictable = Tokens(T, {e \in Nodes(T) : T.ref[e] = 0})
    /\ T.protected = Tokens(T, {e \in Nodes(T) : T.ref[e] > 0})
=============================================================================
