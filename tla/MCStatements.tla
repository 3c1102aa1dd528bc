---------------------------- MODULE MCStatements ----------------------------
(***************************************************************************)
(* Small instances of the parts that run statements: the transaction       *)
(* layer, the statements on tables and the catalog.  They share no         *)
(* variable here: a behaviour is one of the part that subject names, and   *)
(* the others rest in their initial states.  The tables and the catalog    *)
(* are instances of their modules with the proofs, so that the theorems    *)
(* can be cited.                                                           *)
(***************************************************************************)
EXTENDS Transactions, TLC

CONSTANTS
    w1, w2, x, y, Y,          \* writes, literals
    P, C, r1, r2, r3, Null,   \* two tables, row references
    k1, k2,                   \* values of their columns
    p, c, ix, None            \* two tables of the catalog, an index name

VARIABLES
    subject,
    heap, indexes, entries, target, remove, put, moved, base,       \* Tables
    catDisk, catWork, mem, runtimes, catTxn, mark, up               \* Catalog

-----------------------------------------------------------------------------
\* Two writes of two literals, and a third that differs from one in its case only.
MCLiteralOf == w1 :> x @@ w2 :> y
MCLower == x :> x @@ y :> y @@ Y :> y

\* A parent with one possible row; children that refer to it and to each other.
MCRows ==
    P :> [id : {k1, Null}] @@ C :> [id : {k1, k2}, up : {k1, k2, Null}, tag : {k1, Null}]
MCUniqueKeys == {[table |-> P, column |-> "id", primary |-> TRUE],
                 [table |-> C, column |-> "id", primary |-> TRUE]}
MCForeignKeys == {[table |-> C, column |-> "up", parent |-> C, key |-> "id"],
                  [table |-> C, column |-> "tag", parent |-> P, key |-> "id"]}
MCIndexDefs == {[table |-> C, column |-> "tag", unique |-> TRUE],
                [table |-> C, column |-> "up", unique |-> FALSE]}
MCChecked(t, row) == t = C => row.up # row.tag \/ row.up = Null

Relations == INSTANCE TablesProofs WITH
    Tables <- {P, C}, Rows <- MCRows, Refs <- {r1, r2, r3}, UniqueKeys <- MCUniqueKeys,
    ForeignKeys <- MCForeignKeys, IndexDefs <- MCIndexDefs, Checked <- MCChecked,
    MaxBatchRows <- 2

\* A child that refers to its parent and to itself; one index name for both.
MCRefsOf == p :> {} @@ c :> {p, c}

Definitions == INSTANCE CatalogProofs WITH
    Tables <- {p, c}, RefsOf <- MCRefsOf, Names <- {ix}, Versions <- {1},
    Supported <- 1, Qualified <- TRUE, disk <- catDisk, work <- catWork, txn <- catTxn

-----------------------------------------------------------------------------
ASSUME StatementsAssumption == Definitions!CatalogAssumption /\ Relations!TablesAssumption

tableVars == <<heap, indexes, entries, target, remove, put, moved, base>>
catalogVars == <<catDisk, catWork, mem, runtimes, catTxn, mark, up>>
allVars == <<subject, vars, tableVars, catalogVars>>

MCInit ==
    /\ subject \in {"transactions", "tables", "catalog"}
    /\ Init /\ Relations!Init /\ Definitions!Init
    /\ subject # "catalog" => catDisk = Definitions!EmptyStore(0)

TransactionStep ==
    subject = "transactions" /\ Next /\ UNCHANGED <<subject, tableVars, catalogVars>>
TableStep ==
    subject = "tables" /\ Relations!Next /\ UNCHANGED <<subject, vars, catalogVars>>
CatalogStep ==
    subject = "catalog" /\ Definitions!Next /\ UNCHANGED <<subject, vars, tableVars>>

\* The scheduler is as fair as FairSpec says.
MCSpec ==
    /\ MCInit
    /\ [][TransactionStep \/ TableStep \/ CatalogStep]_allVars
    /\ WF_allVars(TransactionStep /\ SchedulerCheckpoints)

-----------------------------------------------------------------------------
(* What the run asks of the tables and of the catalog.                     *)

\* Between statements keys are unique and foreign keys find their parents
\* (checkUnique, checkForeignKeys, checkSelfReferences, restrictParent).
ConstraintsHold ==
    subject = "tables" =>
        Relations!TypeOK /\ Relations!KeysHold /\ Relations!ForeignKeysHold

\* An index holds the keys of the rows of its table, after every row (insertIndexEntries).
IndexesMatchHeap ==
    subject = "tables" => Relations!IndexesMatchHeap /\ Relations!UniqueIndexesHold

\* The catalog can be read back, and is what the process works with; its indexes
\* have their runtimes and pages (PersistentCatalog, initializeIndexes).
CatalogSurvives ==
    subject = "catalog" =>
        Definitions!TypeOK /\ Definitions!CatalogSurvives /\ Definitions!IndexesServed
=============================================================================
