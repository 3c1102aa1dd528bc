----------------------------- MODULE MemoryTree -----------------------------
(***************************************************************************)
(* The B+ tree of an index that lives in memory (storage::BPlusTree): a    *)
(* nested tree, leaves with keys and rows, inner nodes with separators and *)
(* children.  Erasing builds the tree again from what is left, and the     *)
(* tree is kept on pages as a numbered list of its nodes.                  *)
(***************************************************************************)
EXTENDS Naturals, Sequences, SequencesExt

CONSTANT MaxKeys   \* keys a node may hold (maxKeys_)

NoSplit == << >>

Leaf(keys, rows) == [leaf |-> TRUE, keys |-> keys, rows |-> rows, children |-> << >>]
Inner(keys, children) == [leaf |-> FALSE, keys |-> keys, rows |-> << >>, children |-> children]

EmptyTree == Leaf(<< >>, << >>)

\* How many keys of a sorted sequence are below a key, and how many not above it.
CountBelow(keys, k) == Len(SelectSeq(keys, LAMBDA x : x < k))
CountUpTo(keys, k) == Len(SelectSeq(keys, LAMBDA x : x <= k))

\* A node that holds a key too many is cut in its middle: a leaf copies the key
\* up, an inner node moves it up.  The result is the node and << key, right >>.
Cut(n) ==
    LET m == Len(n.keys) \div 2
    IN  IF Len(n.keys) <= MaxKeys THEN [node |-> n, split |-> NoSplit]
        ELSE IF n.leaf
        THEN [node |-> Leaf(SubSeq(n.keys, 1, m), SubSeq(n.rows, 1, m)),
              split |-> <<n.keys[m + 1], Leaf(SubSeq(n.keys, m + 1, Len(n.keys)),
                                              SubSeq(n.rows, m + 1, Len(n.rows)))>>]
        ELSE [node |-> Inner(SubSeq(n.keys, 1, m), SubSeq(n.children, 1, m + 1)),
              split |-> <<n.keys[m + 1], Inner(SubSeq(n.keys, m + 2, Len(n.keys)),
                                               SubSeq(n.children, m + 2, Len(n.children)))>>]

RECURSIVE InsertNode(_, _, _)
InsertNode(n, k, r) ==
    IF n.leaf
    THEN LET at == CountBelow(n.keys, k) + 1
         IN  Cut(Leaf(InsertAt(n.keys, at, k), InsertAt(n.rows, at, r)))
    ELSE LET at == CountUpTo(n.keys, k) + 1
             below == InsertNode(n.children[at], k, r)
             children == [n.children EXCEPT ![at] = below.node]
         IN  IF below.split = NoSplit THEN Cut(Inner(n.keys, children))
             ELSE Cut(Inner(InsertAt(n.keys, at, below.split[1]),
                            InsertAt(children, at + 1, below.split[2])))

\* insert, on a tree that may hold a key more than once.
Insert(tree, k, r) ==
    LET done == InsertNode(tree, k, r)
    IN  IF done.split = NoSplit THEN done.node
        ELSE Inner(<<done.split[1]>>, <<done.node, done.split[2]>>)

RECURSIVE Entries(_)
\* collectEntries: every << key, row >>, from the left.
Entries(n) ==
    IF n.leaf THEN [i \in DOMAIN n.keys |-> <<n.keys[i], n.rows[i]>>]
    ELSE FlattenSeq([i \in DOMAIN n.children |-> Entries(n.children[i])])

\* range: the entries within the bounds.
InRange(tree, keys) == SelectSeq(Entries(tree), LAMBDA e : e[1] \in keys)

\* insert with a unique index: a key it holds is refused.
InsertUnique(tree, k, r) ==
    IF InRange(tree, {k}) # << >> THEN tree ELSE Insert(tree, k, r)

Restored(entries) == FoldLeft(LAMBDA t, e : Insert(t, e[1], e[2]), EmptyTree, entries)

\* erase: the entry is dropped and the others are inserted in a new tree.
Erase(tree, k, r) ==
    LET all == Entries(tree)
    IN  IF \E i \in DOMAIN all : all[i] = <<k, r>>
        THEN Restored(SelectSeq(all, LAMBDA e : e # <<k, r>>))
        ELSE tree

-----------------------------------------------------------------------------
(* The snapshot of a tree *)

RECURSIVE Preorder(_, _)
\* The nodes of n in preorder, numbered from first; children by their numbers.
Preorder(n, first) ==
    LET Add(done, child) ==
            [nodes |-> done.nodes \o Preorder(child, first + 1 + Len(done.nodes)),
             ids |-> Append(done.ids, first + 1 + Len(done.nodes))]
        below == FoldLeft(Add, [nodes |-> << >>, ids |-> << >>], n.children)
    IN  <<[leaf |-> n.leaf, keys |-> n.keys, rows |-> n.rows, children |-> below.ids]>>
        \o below.nodes

Dump(tree) == Preorder(tree, 1)

\* restore: the nodes are joined from the last to the first, so that the children
\* of a node are complete when they are moved into it.
Restore(list) ==
    LET Join(nodes, i) ==
            [nodes EXCEPT ![i].children = [c \in DOMAIN @ |-> nodes[@[c]]]]
    IN  FoldLeft(Join, list, [i \in DOMAIN list |-> Len(list) + 1 - i])[1]

RECURSIVE Depths(_)
Depths(n) == IF n.leaf THEN {1}
             ELSE {d + 1 : d \in UNION {Depths(n.children[i]) : i \in DOMAIN n.children}}

Ordered(keys, unique) ==
    \A i \in 1..(Len(keys) - 1) : keys[i] < keys[i + 1] \/ (~unique /\ keys[i] = keys[i + 1])

RECURSIVE ValidNode(_, _)
ValidNode(n, unique) ==
    /\ Len(n.keys) <= MaxKeys
    /\ ~n.leaf => Len(n.children) = Len(n.keys) + 1
    /\ Ordered(n.keys, unique)
    /\ \A i \in DOMAIN n.children : ValidNode(n.children[i], unique)

\* validate
Valid(tree, unique) == ValidNode(tree, unique) /\ \A d, e \in Depths(tree) : d = e
=============================================================================
