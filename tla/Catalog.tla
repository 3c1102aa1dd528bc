------------------------------- MODULE Catalog -------------------------------
(***************************************************************************)
(* The catalog and what is kept beside it: table and index definitions in  *)
(* system heap relations, the view and the list of stored tables that the  *)
(* running process builds from them, the index runtimes and the pages they *)
(* own, and the version of the access catalog kept with them.              *)
(*                                                                         *)
(* The file is a pair: disk, what a restart reads, and work, what the      *)
(* process reads through its open batch.  A definition is abstracted to    *)
(* the tables it references and the names of its indexes; columns, keys    *)
(* and checks stand or fall with their table.  The heap order of the rows  *)
(* is free: a rewritten row may move.                                      *)
(***************************************************************************)
EXTENDS Naturals, Sequences, FiniteSets, SequencesExt, FiniteSetsExt

CONSTANTS
    Tables,      \* table names, compared without their case
    RefsOf,      \* the tables each one references in its definition
    Names,       \* index names
    Versions,    \* versions of the access catalog, from 1
    Supported,   \* CATALOG_SCHEMA_VERSION
    Qualified,   \* DROP INDEX names its table whenever two tables have the index
    None         \* no savepoint, no table named

\* What the constants have to be.
CatalogAssumption ==
    /\ Versions \subseteq Nat \ {0}
    /\ Supported \in Nat \ {0} /\ Qualified \in BOOLEAN
    /\ RefsOf \in [Tables -> SUBSET Tables] /\ None \notin Tables

VARIABLES
    disk, work,  \* stores: the committed one and the one of the open batch
    mem,         \* the PersistentCatalog in memory: view_, tables_, nextId_, access
    runtimes,    \* indexes_: pairs of a table and an index name
    txn,         \* transaction_
    mark,        \* the savepoint: its store and its catalog snapshot, or None
    up           \* "down", "up", "refused" (schema version of a later build)

vars == <<disk, work, mem, runtimes, txn, mark, up>>

-----------------------------------------------------------------------------
(* Reading the catalog back *)

FirstId == 2
EmptyStore(v) == [rows |-> << >>, columns |-> {}, header |-> v, access |-> 0, owners |-> {}]
NoView == [t \in {} |-> None]
EmptyMemory == [view |-> NoView, tables |-> << >>, nextId |-> FirstId, access |-> 0]

\* The position of the row that defines table t.
RowOf(rows, t) == CHOOSE i \in DOMAIN rows : rows[i].table = t
Defined(rows) == {rows[i].table : i \in DOMAIN rows}

\* The positions of the other tables that row i references.
Parents(rows, i) == {j \in DOMAIN rows : j # i /\ rows[j].table \in rows[i].refs}

\* place enters a row that is not marked, first a parent of the row entered last,
\* or leaves that row: it is placed, after its parents.
Visit(rows, walk) ==
    LET marked == ToSet(walk.entered) \cup ToSet(walk.placed)
        next == (IF walk.entered = << >> THEN DOMAIN rows ELSE Parents(rows, Last(walk.entered))) \ marked
    IN  IF next # {} THEN [walk EXCEPT !.entered = Append(@, Min(next))]
        ELSE [entered |-> Front(walk.entered), placed |-> Append(walk.placed, Last(walk.entered))]

\* mutant: the tables are created in the order of the heap
MutCreationOrder(rows) == [i \in DOMAIN rows |-> i]

\* The order in which the constructor creates the tables: a table after those it
\* references, whatever the heap order.  Each row is entered once and left once.
CreationOrder(rows) ==
    LET walk[n \in 0..(2 * Len(rows))] ==
            IF n = 0 THEN [entered |-> << >>, placed |-> << >>] ELSE Visit(rows, walk[n - 1])
    IN  walk[2 * Len(rows)].placed

\* Every table of the order can be created when its turn comes.
Creatable(rows, order) ==
    \A k \in DOMAIN order :
        rows[order[k]].refs \subseteq {rows[order[j]].table : j \in 1..k}

Corrupt(s) ==
    \/ \E i \in DOMAIN s.rows : s.rows[i].id \notin s.columns
    \/ ~Creatable(s.rows, CreationOrder(s.rows))

\* PersistentCatalog(heap): the view, the stored tables and the next identity.
Load(s) ==
    LET order == CreationOrder(s.rows)
    IN [view   |-> [t \in Defined(s.rows) |-> s.rows[RowOf(s.rows, t)].indexes],
        tables |-> [k \in DOMAIN order |-> [id |-> s.rows[order[k]].id,
                                           table |-> s.rows[order[k]].table,
                                           indexes |-> s.rows[order[k]].indexes]],
        nextId |-> 1 + Max(s.columns \cup {s.rows[i].id : i \in DOMAIN s.rows} \cup {FirstId - 1}),
        access |-> s.access]

\* The runtimes the view asks for.
Wanted(m) == UNION {{<<t, n>> : n \in m.view[t]} : t \in DOMAIN m.view}

Init ==
    /\ disk \in {EmptyStore(v) : v \in 0..(Supported + 1)}
    /\ work = disk
    /\ mem = EmptyMemory /\ runtimes = {}
    /\ txn = "idle" /\ mark = None
    /\ up = "down"

-----------------------------------------------------------------------------
(* Opening and closing *)

\* The header is stamped when it is absent or older, and the index pages that
\* are missing are built again from their tables.
Open ==
    /\ up = "down"
    /\ disk.header <= Supported /\ ~Corrupt(disk)
    /\ mem' = Load(disk)
    /\ runtimes' = Wanted(mem')
    /\ work' = [disk EXCEPT !.header = Supported, !.owners = @ \cup Wanted(mem')]
    /\ disk' = work'
    /\ up' = "up"
    /\ UNCHANGED <<txn, mark>>

\* A later build wrote the file: nothing is touched.
OpenRefused ==
    /\ up = "down" /\ disk.header > Supported
    /\ up' = "refused"
    /\ UNCHANGED <<disk, work, mem, runtimes, txn, mark>>

\* The process ends, or dies at any point of a call.
Crash ==
    /\ up \in {"up", "refused"}
    /\ work' = disk
    /\ txn' = "idle" /\ mark' = None
    /\ up' = "down"
    /\ UNCHANGED <<disk, mem, runtimes>>

-----------------------------------------------------------------------------
(* Statements that change the catalog *)

Ready == up = "up" /\ txn # "aborted"

\* Outside a transaction the statement is its own batch, committed at its end.
Ends == disk' = IF txn = "idle" THEN work' ELSE disk

\* rollbackBatch: the batch is dropped, the catalog and the runtimes are read
\* again from what the file held before it.
RolledBack ==
    /\ work' = disk
    /\ mem' = Load(disk)
    /\ runtimes' = Wanted(mem')
    /\ mark' = None
    /\ UNCHANGED disk

\* Catalog::create takes a new name whose references are all defined, itself included.
Acceptable(t) == t \notin DOMAIN mem.view /\ RefsOf[t] \subseteq DOMAIN mem.view \cup {t}

\* CREATE TABLE: the columns, then the row of the table, at a place of the heap's choice.
CreateTable(t) ==
    /\ Ready /\ Acceptable(t)
    /\ LET id == mem.nextId
       IN /\ \E at \in 1..(Len(work.rows) + 1) :
                work' = [work EXCEPT !.columns = @ \cup {id},
                                     !.rows = InsertAt(@, at, [id |-> id, table |-> t, refs |-> RefsOf[t],
                                                               indexes |-> {}])]
          /\ mem' = [mem EXCEPT !.view = [u \in DOMAIN @ \cup {t} |-> IF u = t THEN {} ELSE @[u]],
                                !.tables = Append(@, [id |-> id, table |-> t, indexes |-> {}]),
                                !.nextId = id + 1]
    /\ Ends
    /\ UNCHANGED <<runtimes, txn, mark, up>>

\* The row of stored table k is replaced by one with the indexes of its view.
Rewritten(k, m) ==
    LET old == CHOOSE i \in DOMAIN work.rows : work.rows[i].id = m.tables[k].id
        row == [work.rows[old] EXCEPT !.indexes = m.view[m.tables[k].table]]
    IN {InsertAt(RemoveAt(work.rows, old), at, row) : at \in 1..Len(work.rows)}

\* The stored definition of table k follows the view m.
Restated(m, k) == [m EXCEPT !.tables[k].indexes = m.view[m.tables[k].table]]

CreateIndex(t, n) ==
    /\ Ready
    /\ t \in DOMAIN mem.view /\ n \notin mem.view[t]
    /\ LET k == CHOOSE k \in DOMAIN mem.tables : mem.tables[k].table = t
       IN /\ mem' = Restated([mem EXCEPT !.view[t] = @ \cup {n}], k)
          /\ \E rows \in Rewritten(k, mem') :
                work' = [work EXCEPT !.rows = rows, !.owners = @ \cup {<<t, n>>}]
    /\ runtimes' = runtimes \cup {<<t, n>>}
    /\ Ends
    /\ UNCHANGED <<txn, mark, up>>

\* DROP INDEX n [ON t].  Without ON the stored table is the first of tables_ with
\* an index of that name, the table of the view any one that has it (the order of
\* a hash table), and the runtimes and pages of every such index go.
DropIndex(t, n) ==
    /\ Ready
    /\ LET may == IF t = None THEN Tables ELSE {t}
           held == {k \in DOMAIN mem.tables : mem.tables[k].table \in may /\ n \in mem.tables[k].indexes}
           gone == {r \in runtimes : r[2] = n /\ r[1] \in may}
       IN /\ held # {}
          /\ Qualified /\ t = None => Cardinality(held) = 1
          /\ \E u \in may \cap DOMAIN mem.view :
                /\ n \in mem.view[u]
                /\ mem' = Restated([mem EXCEPT !.view[u] = @ \ {n}], Min(held))
          /\ \E rows \in Rewritten(Min(held), mem') :
                work' = [work EXCEPT !.rows = rows, !.owners = @ \ gone]
          /\ runtimes' = runtimes \ gone
    /\ Ends
    /\ UNCHANGED <<txn, mark, up>>

\* A statement fails, after any part of its changes: all of them are undone, and
\* a transaction is aborted with it.
StatementFails ==
    /\ Ready
    /\ RolledBack
    /\ txn' = IF txn = "active" THEN "aborted" ELSE "idle"
    /\ UNCHANGED up

Begin ==
    /\ Ready /\ txn = "idle"
    /\ txn' = "active"
    /\ UNCHANGED <<disk, work, mem, runtimes, mark, up>>

Commit ==
    /\ Ready /\ txn = "active"
    /\ disk' = work
    /\ txn' = "idle" /\ mark' = None
    /\ UNCHANGED <<work, mem, runtimes, up>>

Rollback ==
    /\ up = "up" /\ txn # "idle"
    /\ RolledBack
    /\ txn' = "idle"
    /\ UNCHANGED up

\* SAVEPOINT keeps the pages and a copy of the catalog in memory.
Savepoint ==
    /\ Ready /\ txn = "active"
    /\ mark' = [store |-> work, mem |-> mem]
    /\ UNCHANGED <<disk, work, mem, runtimes, txn, up>>

\* ROLLBACK TO puts both back and reads the runtimes again.
RollbackTo ==
    /\ Ready /\ txn = "active" /\ mark # None
    /\ work' = mark.store /\ mem' = mark.mem
    /\ runtimes' = Wanted(mem')
    /\ UNCHANGED <<disk, txn, mark, up>>

-----------------------------------------------------------------------------
(* The access catalog *)

\* synchronizeAccessCatalog: in a batch of its own the new version is inserted,
\* then the old one erased; after the commit the whole catalog is read again.  A
\* version that is not newer changes nothing, a failure rolls the batch back.
SynchronizeAccess(v) ==
    /\ Ready /\ txn = "idle"
    /\ v > mem.access
    /\ work' = [work EXCEPT !.access = v] /\ disk' = work'
    /\ mem' = Load(work')
    /\ UNCHANGED <<runtimes, txn, mark, up>>

-----------------------------------------------------------------------------
Next ==
    \/ Open \/ OpenRefused \/ Crash
    \/ \E t \in Tables : CreateTable(t)
    \/ \E t \in Tables, n \in Names : CreateIndex(t, n)
    \/ \E t \in Tables \cup {None}, n \in Names : DropIndex(t, n)
    \/ StatementFails \/ Begin \/ Commit \/ Rollback \/ Savepoint \/ RollbackTo
    \/ \E v \in Versions : SynchronizeAccess(v)

Spec == Init /\ [][Next]_vars

-----------------------------------------------------------------------------
(* What the catalog promises *)

IsStore(s) ==
    /\ s.rows \in Seq([id : Nat, table : Tables, refs : SUBSET Tables, indexes : SUBSET Names])
    /\ s.columns \subseteq Nat /\ s.header \in Nat
    /\ s.access \in Versions \cup {0}
    /\ s.owners \subseteq Tables \X Names
IsMemory(m) ==
    /\ m.tables \in Seq([id : Nat, table : Tables, indexes : SUBSET Names])
    /\ DOMAIN m.view \subseteq Tables /\ \A t \in DOMAIN m.view : m.view[t] \subseteq Names
    /\ m.nextId \in Nat /\ m.access \in Versions \cup {0}

\* Every variable has its type.
TypeOK ==
    /\ IsStore(disk) /\ IsStore(work)
    /\ IsMemory(mem)
    /\ runtimes \subseteq Tables \X Names
    /\ txn \in {"idle", "active", "aborted"} /\ up \in {"down", "up", "refused"}

\* The identities and index names of the tables, whatever order they come in.
Tabled(m) == {[id |-> m.tables[k].id, table |-> m.tables[k].table, indexes |-> m.tables[k].indexes] :
                k \in DOMAIN m.tables}

\* The file can always be opened again, also after a crash in the middle of any
\* call; and what a reload reads from it is what the process works with: the same
\* tables, identities and indexes, the view and the stored definitions agreeing.
CatalogSurvives ==
    /\ ~Corrupt(disk)
    /\ up = "up" =>
          /\ ~Corrupt(work)
          /\ Load(work).view = mem.view
          /\ Tabled(Load(work)) = Tabled(mem)
          /\ Load(work).nextId <= mem.nextId
          /\ \A k \in DOMAIN mem.tables : mem.tables[k].indexes = mem.view[mem.tables[k].table]

\* Every index of the catalog is kept by exactly one runtime, whose pages are there.
IndexesServed == up = "up" => runtimes = Wanted(mem) /\ work.owners = runtimes

=============================================================================
