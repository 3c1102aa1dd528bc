------------------------------- MODULE Tables -------------------------------
(***************************************************************************)
(* Statements that change tables (Database::runNode): what INSERT, UPDATE  *)
(* and DELETE check before they touch anything, the rows and index entries *)
(* they then change one by one, and the indexes that are created, rebuilt  *)
(* and dropped.  A statement runs alone, in a batch: when a step of it     *)
(* fails the pages and the indexes go back to where the batch began.       *)
(*                                                                         *)
(* A table is a heap of rows under references no two live rows share; an   *)
(* index is the set of the (value, reference) pairs of its tree.  Keys of  *)
(* several columns are one column here.                                    *)
(***************************************************************************)
EXTENDS Naturals, FiniteSets

CONSTANTS
    Tables,
    Rows,          \* table -> its rows: functions from columns to values
    Refs,          \* row references
    Null,
    UniqueKeys,    \* PRIMARY KEY and UNIQUE: records [table, column, primary]
    ForeignKeys,   \* records [table, column, parent, key]
    IndexDefs,     \* the indexes that may be created: [table, column, unique]
    Checked(_, _), \* CHECK and NOT NULL of a table hold of a row
    MaxBatchRows   \* bound on the rows of a statement

\* What the constants have to be.
TablesAssumption ==
    /\ Null \notin Tables
    /\ \A i \in IndexDefs : i.table \in Tables
    /\ \A k \in UniqueKeys : k.table \in Tables
    /\ \A k \in ForeignKeys : k.table \in Tables /\ k.parent \in Tables

VARIABLES
    heap,      \* table -> reference -> row
    indexes,   \* the indexes that exist
    entries,   \* index -> the pairs its tree holds
    target,    \* the table of the statement under way, or Null
    remove,    \* the references it has still to erase
    put,       \* reference -> row it has still to write
    moved,     \* reference -> the reference its replacement gets (UPDATE)
    base       \* heap, indexes and entries when the statement began

tables == <<heap, indexes, entries>>
statement == <<target, remove, put, moved, base>>
vars == <<tables, statement>>

-----------------------------------------------------------------------------
Empty == [r \in {} |-> Null]
Cut(f, S) == [r \in DOMAIN f \ S |-> f[r]]
Over(f, g) == [r \in DOMAIN f \cup DOMAIN g |-> IF r \in DOMAIN g THEN g[r] ELSE f[r]]

Free == {r \in Refs : \A t \in Tables : r \notin DOMAIN heap[t]}

\* The pairs an index holds of a heap: a row whose key is NULL is not indexed.
Indexed(i, f) == {<<f[r][i.column], r>> : r \in {q \in DOMAIN f : f[q][i.column] # Null}}

Init ==
    /\ heap = [t \in Tables |-> Empty]
    /\ indexes = {}
    /\ entries = [i \in IndexDefs |-> {}]
    /\ target = Null /\ remove = {} /\ put = Empty /\ moved = Empty
    /\ base = Null

-----------------------------------------------------------------------------
(* What is checked before anything changes *)

\* checkUnique: over every row the table will have; PRIMARY KEY refuses NULL.
UniqueAmong(t, f) ==
    \A k \in UniqueKeys : k.table = t =>
        \A r \in DOMAIN f :
            IF f[r][k.column] = Null THEN ~k.primary
            ELSE \A q \in DOMAIN f \ {r} : f[q][k.column] # f[r][k.column]

\* checkForeignKeys: a row to be written finds its parents in the other tables.
ParentsExist(t, new) ==
    \A k \in ForeignKeys : k.table = t /\ k.parent # t =>
        \A r \in DOMAIN new :
            \/ new[r][k.column] = Null
            \/ \E p \in DOMAIN heap[k.parent] : heap[k.parent][p][k.key] = new[r][k.column]

\* mutant: a parent is looked for among the rows before the statement
MutSelfReferences(t, f) ==
    \A k \in ForeignKeys : k.table = t /\ k.parent = t =>
        \A r \in DOMAIN f :
            \/ f[r][k.column] = Null
            \/ \E p \in DOMAIN Over(heap[t], f) : Over(heap[t], f)[p][k.key] = f[r][k.column]

\* checkSelfReferences: over every row the table will have.
SelfReferences(t, f) ==
    \A k \in ForeignKeys : k.table = t /\ k.parent = t =>
        \A r \in DOMAIN f :
            \/ f[r][k.column] = Null
            \/ \E p \in DOMAIN f : f[p][k.key] = f[r][k.column]

\* restrictParent: nothing else refers to the key the row at r now has, in the
\* tables as they are; the keys a row keeps are not asked for.
Restricted(t, r, kept) ==
    \A k \in ForeignKeys : k.parent = t =>
        \/ heap[t][r][k.key] = Null
        \/ k \in kept
        \/ \A q \in DOMAIN heap[k.table] :
               (k.table = t /\ q = r) \/ heap[k.table][q][k.column] # heap[t][r][k.key]

\* validateUniqueIndexes: the tree holds the key for no reference but old.
FreshInIndexes(t, row, old) ==
    \A i \in indexes : i.table = t /\ i.unique /\ row[i.column] # Null =>
        \A e \in entries[i] : e[1] = row[i.column] => e[2] \in old

-----------------------------------------------------------------------------
(* The statements *)

\* heap is what a statement on t starts from; it has then to erase and to write.
StartOn(t, gone, new, moves) ==
    /\ target = Null
    /\ target' = t /\ remove' = gone /\ put' = new /\ moved' = moves
    /\ base' = [heap |-> heap, indexes |-> indexes, entries |-> entries]
    /\ UNCHANGED tables

Insert(t, new) ==
    /\ UniqueAmong(t, Over(heap[t], new))
    /\ \A r \in DOMAIN new : Checked(t, new[r])
    /\ ParentsExist(t, new)
    /\ SelfReferences(t, Over(heap[t], new))
    /\ \A r \in DOMAIN new : FreshInIndexes(t, new[r], {})
    /\ StartOn(t, {}, new, Empty)

\* moves sends each matching row to the reference its replacement will get.
Update(t, moves, new) ==
    LET final == Over(Cut(heap[t], DOMAIN moves), new)
    IN  /\ UniqueAmong(t, final)
        /\ \A r \in DOMAIN new : Checked(t, new[r])
        /\ ParentsExist(t, new)
        /\ \A r \in DOMAIN moves :
               /\ Restricted(t, r, {k \in ForeignKeys : k.parent = t /\ new[moves[r]][k.key] = heap[t][r][k.key]})
               /\ FreshInIndexes(t, new[moves[r]], {r})
        /\ SelfReferences(t, final)
        /\ StartOn(t, DOMAIN moves, new, moves)

Delete(t, gone) ==
    /\ \A r \in gone : Restricted(t, r, {})
    /\ SelfReferences(t, Cut(heap[t], gone))
    /\ StartOn(t, gone, Empty, Empty)

-----------------------------------------------------------------------------
(* Its steps: one row each, with its entries in every index of the table *)

\* The tree of a unique index refuses a key it holds.
Accepts(i, held, row) ==
    i.unique /\ row[i.column] # Null => \A e \in held : e[1] # row[i.column]

\* mutant: the old entries stay
MutErased(i, r) == entries[i]

Erased(i, r) == IF i.table = target THEN entries[i] \ Indexed(i, [q \in {r} |-> heap[target][q]])
                                    ELSE entries[i]
Entered(i, held, r, row) == IF i.table = target THEN held \cup Indexed(i, [q \in {r} |-> row])
                                                ELSE held

InsertRow(r) ==
    /\ target # Null /\ r \in DOMAIN put /\ moved = Empty
    /\ \A i \in indexes : i.table = target => Accepts(i, entries[i], put[r])
    /\ heap' = [heap EXCEPT ![target] = Over(@, [q \in {r} |-> put[r]])]
    /\ entries' = [i \in IndexDefs |-> IF i \in indexes THEN Entered(i, entries[i], r, put[r])
                                                        ELSE entries[i]]
    /\ put' = Cut(put, {r})
    /\ UNCHANGED <<indexes, target, remove, moved, base>>

DeleteRow(r) ==
    /\ target # Null /\ r \in remove /\ moved = Empty
    /\ heap' = [heap EXCEPT ![target] = Cut(@, {r})]
    /\ entries' = [i \in IndexDefs |-> IF i \in indexes THEN Erased(i, r) ELSE entries[i]]
    /\ remove' = remove \ {r}
    /\ UNCHANGED <<indexes, target, put, moved, base>>

\* erase the old entries, insert the new row and erase the old one (replace),
\* then insert the new entries.
ReplaceRow(r) ==
    /\ target # Null /\ r \in DOMAIN moved
    /\ LET q == moved[r]
       IN  /\ \A i \in indexes : i.table = target => Accepts(i, Erased(i, r), put[q])
           /\ heap' = [heap EXCEPT ![target] = Over(Cut(@, {r}), [s \in {q} |-> put[q]])]
           /\ entries' = [i \in IndexDefs |->
                             IF i \in indexes THEN Entered(i, Erased(i, r), q, put[q])
                                              ELSE entries[i]]
           /\ put' = Cut(put, {q})
    /\ remove' = remove \ {r} /\ moved' = Cut(moved, {r})
    /\ UNCHANGED <<indexes, target, base>>

Idle == target' = Null /\ remove' = {} /\ put' = Empty /\ moved' = Empty /\ base' = Null

Done ==
    /\ target # Null /\ remove = {} /\ put = Empty
    /\ Idle /\ UNCHANGED tables

\* A tree refuses a key, a page fails, the query is cancelled: rollbackBatch
\* drops the pages of the batch and opens the trees again.
Rollback ==
    /\ target # Null
    /\ heap' = base.heap /\ indexes' = base.indexes /\ entries' = base.entries
    /\ Idle

-----------------------------------------------------------------------------
(* Indexes *)

\* buildIndexEntries: a unique index over duplicates is refused.
Built(i) == Indexed(i, heap[i.table])

NoDuplicates(held) == \A d, e \in held : d[1] = e[1] => d = e

CreateIndex(i) ==
    /\ target = Null /\ i \notin indexes
    /\ i.unique => NoDuplicates(Built(i))
    /\ indexes' = indexes \cup {i}
    /\ entries' = [entries EXCEPT ![i] = Built(i)]
    /\ UNCHANGED <<heap, statement>>

DropIndex(i) ==
    /\ target = Null /\ i \in indexes
    /\ indexes' = indexes \ {i}
    /\ entries' = [entries EXCEPT ![i] = {}]
    /\ UNCHANGED <<heap, statement>>

IndexRebuild(i) ==
    /\ target = Null /\ i \in indexes
    /\ i.unique => NoDuplicates(Built(i))
    /\ entries' = [entries EXCEPT ![i] = Built(i)]
    /\ UNCHANGED <<heap, indexes, statement>>

-----------------------------------------------------------------------------
Batches(S) == {D \in SUBSET S : D # {} /\ Cardinality(D) <= MaxBatchRows}
Moves(D) == {m \in [D -> Free] : \A p, q \in D : m[p] = m[q] => p = q}

Next ==
    \/ \E t \in Tables :
           \/ \E D \in Batches(Free) : \E new \in [D -> Rows[t]] : Insert(t, new)
           \/ \E D \in Batches(DOMAIN heap[t]) :
                  \/ Delete(t, D)
                  \/ \E m \in Moves(D) :
                         \E new \in [{m[r] : r \in D} -> Rows[t]] : Update(t, m, new)
    \/ \E r \in Refs : InsertRow(r) \/ DeleteRow(r) \/ ReplaceRow(r)
    \/ Done \/ Rollback
    \/ \E i \in IndexDefs : CreateIndex(i) \/ DropIndex(i) \/ IndexRebuild(i)

Spec == Init /\ [][Next]_vars

-----------------------------------------------------------------------------
(* What the statements promise *)

\* Every variable has its type; a reference is of one table.
TypeOK ==
    /\ \A t \in Tables : DOMAIN heap[t] \subseteq Refs /\ \A r \in DOMAIN heap[t] : heap[t][r] \in Rows[t]
    /\ indexes \subseteq IndexDefs /\ DOMAIN entries = IndexDefs
    /\ target \in Tables \cup {Null}
    /\ target # Null => remove \subseteq DOMAIN heap[target] /\ DOMAIN put \subseteq Refs

\* Between statements every PRIMARY KEY and UNIQUE key is unique and no primary
\* key is NULL, whatever rows one statement inserted, swapped or shifted at once.
KeysHold == target = Null => \A t \in Tables : UniqueAmong(t, heap[t])

\* Between statements every foreign key that is not NULL finds its parent, in
\* another table or in its own.
ForeignKeysHold ==
    target = Null =>
        \A k \in ForeignKeys : \A r \in DOMAIN heap[k.table] :
            \/ heap[k.table][r][k.column] = Null
            \/ \E p \in DOMAIN heap[k.parent] :
                   heap[k.parent][p][k.key] = heap[k.table][r][k.column]

\* An index holds the keys of the rows of its table and nothing else, after every
\* row a statement changes, not only when it ends.
IndexesMatchHeap ==
    \A i \in indexes : entries[i] = Indexed(i, heap[i.table])

\* A unique index holds a key once, also when one statement brings it twice.
UniqueIndexesHold == \A i \in indexes : i.unique => NoDuplicates(entries[i])
=============================================================================
