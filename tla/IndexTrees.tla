----------------------------- MODULE IndexTrees -----------------------------
(***************************************************************************)
(* The B+ tree of an index on the pages of the database                    *)
(* (storage::PageBPlusTree), beside the tree in memory that Database uses  *)
(* in its place when it is told to: both are given the same entries, and   *)
(* both have to answer like the plain set of those entries.                *)
(*                                                                         *)
(* A page holds one node: keys with rows in a leaf, separators with        *)
(* children in an inner node, the page of its parent and, in a leaf, the   *)
(* leaves beside it.  Generations of pages are left out: a page is found   *)
(* by its number, and a released one may be used again at once.            *)
(***************************************************************************)
EXTENDS Naturals, Sequences, FiniteSets, SequencesExt

CONSTANTS
    Keys,       \* key values, naturals
    Rows,       \* row references
    Probes,     \* the keys that ranges are asked with
    MaxKeys,    \* keys a node may hold
    MaxPages,   \* bound on the pages of the tree
    None        \* no page, no split, no bound

\* What the constants have to be.
IndexTreesAssumption ==
    /\ Keys \subseteq Nat /\ Probes \subseteq Keys
    /\ MaxKeys \in Nat /\ MaxKeys >= 3
    /\ MaxPages \in Nat

VARIABLES
    unique,     \* unique_, fixed when the index is created
    nodes,      \* page -> node, for the node pages of the tree
    root,       \* the root page of the meta page, or None
    size,       \* the entries counted in the meta page
    memory,     \* the tree in memory
    entries     \* the << key, row >> the index was given and not told to erase

vars == <<unique, nodes, root, size, memory, entries>>

M == INSTANCE MemoryTree

-----------------------------------------------------------------------------
MinKeys == (MaxKeys + 1) \div 2
NoNodes == [p \in {} |-> None]

\* allocate: a page the tree does not use.
Fresh(T) == CHOOSE p \in 1..MaxPages :
                p \notin DOMAIN T /\ \A q \in 1..(p - 1) : q \in DOMAIN T

Put(T, p, node) == [q \in DOMAIN T \cup {p} |-> IF q = p THEN node ELSE T[q]]
Drop(T, p) == [q \in DOMAIN T \ {p} |-> T[q]]

\* The nodes on S get p for their parent, or for the leaf on their left.
Adopted(T, S, p) == [q \in DOMAIN T |-> IF q \in S THEN [T[q] EXCEPT !.parent = p] ELSE T[q]]
\* mutant: the leaf on the right keeps its old neighbour
MutLeftOf(T, q, p) == T

LeftOf(T, q, p) == IF q = None THEN T ELSE [T EXCEPT ![q].left = p]

Leaf(keys, rows) == [leaf |-> TRUE, keys |-> keys, rows |-> rows, children |-> << >>,
                     parent |-> None, left |-> None, right |-> None]
Inner(keys, children) == [leaf |-> FALSE, keys |-> keys, rows |-> << >>, children |-> children,
                          parent |-> None, left |-> None, right |-> None]

CountBelow(keys, k) == Len(SelectSeq(keys, LAMBDA x : x < k))
CountUpTo(keys, k) == Len(SelectSeq(keys, LAMBDA x : x <= k))

\* After a change of a subtree: the nodes, and what goes up to the parent.
Grown(T, split) == [nodes |-> T, split |-> split]

-----------------------------------------------------------------------------
(* insertInto *)

\* A leaf with a key too many: its upper half goes to a page of its own, which
\* joins the chain of leaves, and its first key is copied up.
SplitLeaf(T, n) ==
    LET node == T[n]
        m == Len(node.keys) \div 2
        r == Fresh(T)
        right == [node EXCEPT !.keys = SubSeq(@, m + 1, Len(@)), !.rows = SubSeq(@, m + 1, Len(@)),
                              !.left = n]
        kept == [node EXCEPT !.keys = SubSeq(@, 1, m), !.rows = SubSeq(@, 1, m), !.right = r]
    IN  Grown(Put(Put(LeftOf(T, node.right, r), n, kept), r, right), <<right.keys[1], r>>)

\* An inner node with a key too many: the key in the middle moves up.
SplitInner(T, n) ==
    LET node == T[n]
        m == Len(node.keys) \div 2
        r == Fresh(T)
        right == [node EXCEPT !.keys = SubSeq(@, m + 2, Len(@)),
                              !.children = SubSeq(@, m + 2, Len(@))]
        kept == [node EXCEPT !.keys = SubSeq(@, 1, m), !.children = SubSeq(@, 1, m + 1)]
        moved == {right.children[i] : i \in DOMAIN right.children}
    IN  Grown(Adopted(Put(Put(T, n, kept), r, right), moved, r), <<node.keys[m + 1], r>>)

InsertInLeaf(T, n, k, r) ==
    LET at == CountBelow(T[n].keys, k) + 1
        full == [T EXCEPT ![n].keys = InsertAt(@, at, k), ![n].rows = InsertAt(@, at, r)]
    IN  IF Len(full[n].keys) <= MaxKeys THEN Grown(full, None) ELSE SplitLeaf(full, n)

\* The parent takes in the page its child at a position was split into.
TakeIn(below, n, at) ==
    IF below.split = None THEN below
    ELSE LET more == [below.nodes EXCEPT ![n].keys = InsertAt(@, at, below.split[1]),
                                         ![n].children = InsertAt(@, at + 1, below.split[2])]
             T == Adopted(more, {below.split[2]}, n)
         IN  IF Len(T[n].keys) <= MaxKeys THEN Grown(T, None) ELSE SplitInner(T, n)

RECURSIVE InsertInto(_, _, _, _)
InsertInto(T, n, k, r) ==
    IF T[n].leaf THEN InsertInLeaf(T, n, k, r)
    ELSE LET at == CountUpTo(T[n].keys, k) + 1
         IN  TakeIn(InsertInto(T, T[n].children[at], k, r), n, at)

\* A root that was split gets a parent: the new root.
NewRoot(T, n, split) ==
    LET top == Fresh(T)
    IN  Put(Adopted(T, {n, split[2]}, top), top, Inner(<<split[1]>>, <<n, split[2]>>))

-----------------------------------------------------------------------------
(* eraseInto *)

RECURSIVE MinimumKey(_, _)
MinimumKey(T, n) == IF T[n].leaf THEN T[n].keys[1] ELSE MinimumKey(T, T[n].children[1])

\* rebalanceChild: the child at i of n, short of a key, takes the first entry or
\* child of its right neighbour (the separator between them is set by Separated),
BorrowRight(T, n, i) ==
    LET c == T[n].children[i]
        r == T[n].children[i + 1]
        moved == T[r].children[1]
    IN  IF T[c].leaf
        THEN [T EXCEPT ![c].keys = Append(@, T[r].keys[1]), ![c].rows = Append(@, T[r].rows[1]),
                       ![r].keys = Tail(@), ![r].rows = Tail(@)]
        ELSE [T EXCEPT ![c].keys = Append(@, T[n].keys[i]), ![c].children = Append(@, moved),
                       ![moved].parent = c,
                       ![r].keys = Tail(@), ![r].children = Tail(@)]

\* or the last one of its left neighbour,
BorrowLeft(T, n, i) ==
    LET c == T[n].children[i]
        l == T[n].children[i - 1]
        moved == Last(T[l].children)
    IN  IF T[c].leaf
        THEN [T EXCEPT ![c].keys = <<Last(T[l].keys)>> \o @, ![c].rows = <<Last(T[l].rows)>> \o @,
                       ![l].keys = Front(@), ![l].rows = Front(@)]
        ELSE [T EXCEPT ![c].keys = <<T[n].keys[i - 1]>> \o @, ![c].children = <<moved>> \o @,
                       ![moved].parent = c,
                       ![l].keys = Front(@), ![l].children = Front(@)]

\* or two neighbours become one: the child at i + 1 is emptied into the one at i.
Merge(T, n, i) ==
    LET keep == T[n].children[i]
        gone == T[n].children[i + 1]
        moved == {T[gone].children[j] : j \in DOMAIN T[gone].children}
        joined == IF T[keep].leaf
                  THEN [T[keep] EXCEPT !.keys = @ \o T[gone].keys, !.rows = @ \o T[gone].rows,
                                       !.right = T[gone].right]
                  ELSE [T[keep] EXCEPT !.keys = Append(@, T[n].keys[i]) \o T[gone].keys,
                                       !.children = @ \o T[gone].children]
        linked == LeftOf(Adopted(Put(T, keep, joined), moved, keep), T[gone].right, keep)
    IN  Drop([linked EXCEPT ![n].keys = RemoveAt(@, i), ![n].children = RemoveAt(@, i + 1)], gone)

Rebalanced(T, n, i) ==
    LET Spare(j) == j \in DOMAIN T[n].children /\ Len(T[T[n].children[j]].keys) > MinKeys
    IN  IF Spare(i + 1) THEN BorrowRight(T, n, i)
        ELSE IF Spare(i - 1) THEN BorrowLeft(T, n, i)
        ELSE Merge(T, n, IF i > 1 THEN i - 1 ELSE i)

\* Every separator becomes the smallest key on its right.
Separated(T, n) ==
    [T EXCEPT ![n].keys = FoldLeft(LAMBDA keys, c : Append(keys, MinimumKey(T, c)), << >>,
                                   Tail(T[n].children))]

\* The entries of a leaf a key may stand at.
Places(node, k, r) == {i \in DOMAIN node.keys : node.keys[i] = k /\ node.rows[i] = r}

RECURSIVE EraseInto(_, _, _, _)
\* The nodes without the entry, or None when no child that may hold it does.
EraseInto(T, n, k, r) ==
    IF T[n].leaf
    THEN IF Places(T[n], k, r) = {} THEN None
         ELSE LET at == CHOOSE i \in Places(T[n], k, r) : \A j \in Places(T[n], k, r) : i <= j
              IN  [T EXCEPT ![n].keys = RemoveAt(@, at), ![n].rows = RemoveAt(@, at)]
    ELSE LET tries == (CountBelow(T[n].keys, k) + 1)..(CountUpTo(T[n].keys, k) + 1)
             done == [i \in tries |-> EraseInto(T, T[n].children[i], k, r)]
             hits == {i \in tries : done[i] # None}
         IN  IF hits = {} THEN None
             ELSE LET i == CHOOSE i \in hits : \A j \in hits : i <= j
                      short == Len(done[i][T[n].children[i]].keys) < MinKeys
                  IN  Separated(IF short THEN Rebalanced(done[i], n, i) ELSE done[i], n)

\* A root with one child left hands over to it.
Collapsed(T, n) ==
    LET child == T[n].children[1]
    IN  IF ~T[n].leaf /\ T[n].keys = << >>
        THEN [nodes |-> Drop([T EXCEPT ![child].parent = None], n), root |-> child]
        ELSE [nodes |-> T, root |-> n]

-----------------------------------------------------------------------------
(* range *)

RECURSIVE FirstLeaf(_, _, _)
\* locateLeaf and liftLeaf: down the leftmost children, or to the first leaf that
\* may hold the lower bound.
FirstLeaf(T, n, lower) ==
    IF T[n].leaf THEN n
    ELSE LET at == IF lower = None THEN 1 ELSE CountBelow(T[n].keys, lower[1]) + 1
         IN  FirstLeaf(T, T[n].children[at], lower)

\* A bound is << key, inclusive >> or None.
Above(k, lower) == lower = None \/ k > lower[1] \/ (lower[2] /\ k = lower[1])
Under(k, upper) == upper = None \/ k < upper[1] \/ (upper[2] /\ k = upper[1])

RECURSIVE Walk(_, _, _, _, _)
\* Along the chain of leaves until a key is beyond the upper bound, or the chain
\* is longer than the tree has pages.
Walk(T, n, lower, upper, steps) ==
    IF n = None \/ steps = 0 THEN << >>
    ELSE LET node == T[n]
             here == [i \in DOMAIN node.keys |-> <<node.keys[i], node.rows[i]>>]
             beyond == \E i \in DOMAIN node.keys : Above(node.keys[i], lower) /\ ~Under(node.keys[i], upper)
         IN  SelectSeq(here, LAMBDA e : Above(e[1], lower) /\ Under(e[1], upper))
             \o (IF beyond THEN << >> ELSE Walk(T, node.right, lower, upper, steps - 1))

RangeOf(lower, upper) ==
    IF root = None THEN << >>
    ELSE Walk(nodes, FirstLeaf(nodes, root, lower), lower, upper, Cardinality(DOMAIN nodes) + 1)

Search(k) == RangeOf(<<k, TRUE>>, <<k, TRUE>>)

-----------------------------------------------------------------------------
(* The index *)

Init ==
    /\ unique \in BOOLEAN
    /\ nodes = NoNodes /\ root = None /\ size = 0
    /\ memory = M!EmptyTree
    /\ entries = {}

\* insert; a key a unique index holds is refused.
Insert(k, r) ==
    /\ <<k, r>> \notin entries
    /\ ~(unique /\ Search(k) # << >>)
    /\ Cardinality(DOMAIN nodes) + 3 <= MaxPages
    /\ IF root = None
       THEN /\ nodes' = Put(nodes, Fresh(nodes), Leaf(<<k>>, <<r>>))
            /\ root' = Fresh(nodes)
       ELSE LET grown == InsertInto(nodes, root, k, r)
            IN  IF grown.split = None THEN nodes' = grown.nodes /\ UNCHANGED root
                ELSE /\ nodes' = NewRoot(grown.nodes, root, grown.split)
                     /\ root' = Fresh(grown.nodes)
    /\ size' = size + 1
    /\ memory' = IF unique THEN M!InsertUnique(memory, k, r) ELSE M!Insert(memory, k, r)
    /\ entries' = entries \cup {<<k, r>>}
    /\ UNCHANGED unique

\* erase; FALSE when the entry is not found leaves the index as it is.
Erase(k, r) ==
    /\ root # None
    /\ LET less == EraseInto(nodes, root, k, r)
       IN  IF less = None THEN UNCHANGED <<nodes, root, size>>
           ELSE /\ nodes' = Collapsed(less, root).nodes
                /\ root' = Collapsed(less, root).root
                /\ size' = size - 1
    /\ memory' = M!Erase(memory, k, r)
    /\ entries' = entries \ {<<k, r>>}
    /\ UNCHANGED unique

\* The tree in memory is written to its snapshot and read back.
Reload ==
    /\ memory' = M!Restore(M!Dump(memory))
    /\ UNCHANGED <<unique, nodes, root, size, entries>>

Next ==
    \/ \E k \in Keys, r \in Rows : Insert(k, r) \/ Erase(k, r)
    \/ Reload

Spec == Init /\ [][Next]_vars

-----------------------------------------------------------------------------
(* What an index promises *)

\* Every variable has its type.
TypeOK ==
    /\ unique \in BOOLEAN
    /\ DOMAIN nodes \subseteq 1..MaxPages
    /\ root \in DOMAIN nodes \cup {None}
    /\ size \in Nat
    /\ entries \in SUBSET (Keys \X Rows)

RECURSIVE Subtree(_)
Subtree(n) == {n} \cup UNION {Subtree(nodes[n].children[i]) : i \in DOMAIN nodes[n].children}

RECURSIVE DepthsFrom(_)
DepthsFrom(n) == IF nodes[n].leaf THEN {1}
                 ELSE {d + 1 : d \in UNION {DepthsFrom(nodes[n].children[i]) :
                                            i \in DOMAIN nodes[n].children}}

\* The children of an inner node are its own, and its separators part their keys.
ChildrenFit(n) ==
    /\ Len(nodes[n].children) = Len(nodes[n].keys) + 1
    /\ \A i \in DOMAIN nodes[n].children :
           LET child == nodes[nodes[n].children[i]]
           IN  /\ child.parent = n
               /\ \A j \in DOMAIN child.keys :
                      /\ i > 1 => child.keys[j] >= nodes[n].keys[i - 1]
                      /\ i <= Len(nodes[n].keys) => child.keys[j] <= nodes[n].keys[i]

\* The page tree is sound after every insertion and every removal: no node is
\* overfull or, but for the root, underfull; leaves are at one depth; separators,
\* parents and the leaf chain agree; no page is lost and none is used twice.
PageTreeSound ==
    root # None =>
        /\ DOMAIN nodes = Subtree(root)
        /\ nodes[root].parent = None
        /\ Cardinality(DepthsFrom(root)) = 1
        /\ \A n \in DOMAIN nodes :
               /\ Len(nodes[n].keys) <= MaxKeys
               /\ n # root => Len(nodes[n].keys) >= MinKeys
               /\ M!Ordered(nodes[n].keys, unique)
               /\ ~nodes[n].leaf => ChildrenFit(n)
               /\ nodes[n].right # None => nodes[nodes[n].right].left = n
               /\ nodes[n].left # None => nodes[nodes[n].left].right = n
        /\ Len(RangeOf(None, None)) = size

Bounds == {None} \cup (Probes \X BOOLEAN)

\* A search, and a range with one bound, inclusive or not, finds in either tree
\* exactly the entries that were inserted and not erased, in the order of the keys.
TreesAnswerAlike ==
    LET Exact(found, lower, upper) ==
            /\ {found[i] : i \in DOMAIN found} =
                   {e \in entries : Above(e[1], lower) /\ Under(e[1], upper)}
            /\ \A i \in 1..(Len(found) - 1) :
                   found[i][1] <= found[i + 1][1] /\ found[i] # found[i + 1]
    IN  /\ M!Valid(memory, unique)
        /\ \A lower, upper \in Bounds :
               (lower = None \/ upper = None \/ lower = upper) =>
                   /\ Exact(RangeOf(lower, upper), lower, upper)
                   /\ Exact(M!InRange(memory, {k \in Keys : Above(k, lower) /\ Under(k, upper)}), lower, upper)
=============================================================================
