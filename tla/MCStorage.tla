----------------------------- MODULE MCStorage ------------------------------
(***************************************************************************)
(* Small instances of the parts that keep rows and index entries on pages: *)
(* the buffer pool and the heap of MCPages, and the index trees.  They     *)
(* share no variable here: a behaviour is one of the part that subject     *)
(* names, and the others rest in their initial states.                     *)
(***************************************************************************)
EXTENDS MCPages

VARIABLES
    unique, nodes, root, size, memory, entries,    \* IndexTrees
    todo, again                                    \* what is still to be inserted

-----------------------------------------------------------------------------
\* Fifteen entries make a tree of three levels; unique ones arrive in either
\* order, and four keys that stand four times each fill several leaves.
TreeKeys == 1..15
Loads(u) ==
    IF u THEN {[i \in 1..15 |-> <<i, 1>>], [i \in 1..15 |-> <<16 - i, 1>>]}
    ELSE {[i \in 1..15 |-> <<5 + ((i * 3) % 4), 1 + (i - 1) \div 4>>]}

Trees == INSTANCE IndexTrees WITH
    Keys <- TreeKeys, Rows <- 1..4, Probes <- {7, 8}, MaxKeys <- 4, MaxPages <- 18

\* Removals take the first, the last or the middle one of the entries left.
Before(d, e) == d[1] < e[1] \/ (d[1] = e[1] /\ d[2] < e[2])
Rank(e) == Cardinality({d \in entries : Before(d, e)})
Ends == {e \in entries : Rank(e) \in {0, Cardinality(entries) \div 2, Cardinality(entries) - 1}}

TreeStep ==
    \/ /\ todo # << >>
       /\ Trees!Insert(todo[1][1], todo[1][2])
       /\ todo' = Tail(todo)
       /\ UNCHANGED again
    \/ /\ todo = << >>
       /\ \/ \E e \in Ends : Trees!Erase(e[1], e[2]) /\ UNCHANGED again
          \/ Trees!Reload /\ UNCHANGED again
          \/ again /\ Trees!Insert(8, 1) /\ again' = FALSE
       /\ UNCHANGED todo

-----------------------------------------------------------------------------
\* A pool of one frame: a release, a rollback or a failing eviction leaves only
\* stale entries on the ring, or none.
Small == INSTANCE BufferPool WITH Capacity <- 1

ASSUME TreesAssumption == Trees!IndexTreesAssumption

treeVars == <<unique, nodes, root, size, memory, entries, todo, again>>
allVars == <<subject, vars, heapVars, treeVars>>

MCInit ==
    /\ subject \in {"pool", "small", "heap", "trees"}
    /\ Init /\ Heaps!Init /\ Trees!Init
    /\ todo \in Loads(unique) /\ again = TRUE
    /\ subject \in {"heap", "trees"} => policy = "LRU"
    /\ subject # "trees" => unique = FALSE

PoolStep == subject = "pool" /\ Next /\ UNCHANGED <<subject, heapVars, treeVars>>
SmallStep == subject = "small" /\ Small!Next /\ UNCHANGED <<subject, heapVars, treeVars>>
HeapStep == subject = "heap" /\ Heaps!Next /\ UNCHANGED <<subject, vars, treeVars>>
IndexStep == subject = "trees" /\ TreeStep /\ UNCHANGED <<subject, vars, heapVars>>

\* The search for a victim is as fair as FairSpec says.
MCSpec ==
    /\ MCInit
    /\ [][PoolStep \/ SmallStep \/ HeapStep \/ IndexStep]_allVars
    /\ WF_allVars(PoolStep /\ MakeRoom)
    /\ WF_allVars(SmallStep /\ Small!MakeRoom)

-----------------------------------------------------------------------------
(* What the run asks of the trees, in one invariant.                       *)

\* The page tree and the tree in memory hold the entries they were given, and
\* ranges find them (PageBPlusTree, BPlusTree).
TreesServe ==
    subject = "trees" => Trees!TypeOK /\ Trees!PageTreeSound /\ Trees!TreesAnswerAlike
=============================================================================
