---------------------------- MODULE TablesProofs ----------------------------
(***************************************************************************)
(* Statements keep the indexes, the keys and the references of the tables, *)
(* for every set of tables, rows, constraints and indexes and statements   *)
(* of any number of rows.                                                  *)
(*                                                                         *)
(* The argument: while a statement runs, the tables are on their way to    *)
(* the ones that were checked before it began (After), and every row it    *)
(* changes leaves that destination where it was; the tables to return to   *)
(* are sound.  A reference to be written is not in use, so that no entry   *)
(* of an older row is left in an index.                                    *)
(***************************************************************************)
EXTENDS Tables, TLAPS

-----------------------------------------------------------------------------
(* The inductive invariant *)

\* Every index in es holds the keys of its table in h, unique ones once.
Matches(h, is, es) ==
    \A i \in is : /\ es[i] = Indexed(i, h[i.table])
                  /\ i.unique => NoDuplicates(es[i])

\* Tables that satisfy their keys and their references.
Sound(h) ==
    /\ \A t \in Tables : UniqueAmong(t, h[t])
    /\ \A k \in ForeignKeys : \A r \in DOMAIN h[k.table] :
           \/ h[k.table][r][k.column] = Null
           \/ \E p \in DOMAIN h[k.parent] : h[k.parent][p][k.key] = h[k.table][r][k.column]

Shape(h, is, es) == DOMAIN h = Tables /\ is \subseteq IndexDefs /\ DOMAIN es = IndexDefs

\* The table of the statement once all of its rows are done.
Final == Over(Cut(heap[target], remove), put)
After == [t \in Tables |-> IF t = target THEN Final ELSE heap[t]]

\* What is still to be erased is there, what is still to be written is not.
Work ==
    /\ remove \subseteq DOMAIN heap[target]
    /\ DOMAIN put \cap DOMAIN heap[target] = {}
    /\ DOMAIN moved \subseteq remove
    /\ \A p \in DOMAIN moved : moved[p] \in DOMAIN put
    /\ \A p, q \in DOMAIN moved : moved[p] = moved[q] => p = q

\* The way back.
Return ==
    /\ Shape(base.heap, base.indexes, base.entries)
    /\ Matches(base.heap, base.indexes, base.entries)
    /\ Sound(base.heap)

IInv ==
    /\ Shape(heap, indexes, entries)
    /\ Matches(heap, indexes, entries)
    /\ target \in Tables \cup {Null}
    /\ Sound(After)
    /\ target # Null => Work /\ Return

-----------------------------------------------------------------------------
(* Tables with the same rows *)

\* Soundness is a matter of the rows alone.
LEMMA SoundAlike ==
    ASSUME TablesAssumption, NEW g, NEW h, Sound(g),
           \A t \in Tables : /\ DOMAIN h[t] = DOMAIN g[t]
                             /\ \A r \in DOMAIN g[t] : h[t][r] = g[t][r]
    PROVE  Sound(h)
  <1>1. ASSUME NEW t \in Tables PROVE UniqueAmong(t, h[t])
    <2>1. UniqueAmong(t, g[t])
      BY DEF Sound
    <2> QED BY <2>1 DEF UniqueAmong
  <1>2. ASSUME NEW k \in ForeignKeys, NEW r \in DOMAIN h[k.table]
        PROVE  \/ h[k.table][r][k.column] = Null
               \/ \E p \in DOMAIN h[k.parent] : h[k.parent][p][k.key] = h[k.table][r][k.column]
    <2>1. k.table \in Tables /\ k.parent \in Tables
      BY DEF TablesAssumption
    <2>2. r \in DOMAIN g[k.table] /\ h[k.table][r] = g[k.table][r]
      BY <1>2, <2>1
    <2>3. \/ g[k.table][r][k.column] = Null
          \/ \E p \in DOMAIN g[k.parent] : g[k.parent][p][k.key] = g[k.table][r][k.column]
      BY <2>2 DEF Sound
    <2>4. \A p \in DOMAIN g[k.parent] : p \in DOMAIN h[k.parent] /\ h[k.parent][p] = g[k.parent][p]
      BY <2>1
    <2> QED BY <2>2, <2>3, <2>4
  <1> QED BY <1>1, <1>2 DEF Sound

\* Between statements the destination is where the tables are.
LEMMA AtRest ==
    ASSUME TablesAssumption, target = Null
    PROVE  \A t \in Tables : After[t] = heap[t]
  BY DEF TablesAssumption, After

\* g differs from h in the rows of t, which satisfy what h makes of them: f.
Replaces(g, h, t, f) ==
    /\ \A u \in Tables \ {t} : g[u] = h[u]
    /\ g[t] = f
    /\ UniqueAmong(t, f)
    /\ SelfReferences(t, f)
    /\ \A k \in ForeignKeys : k.table = t /\ k.parent # t =>
           \A r \in DOMAIN f :
               \/ f[r][k.column] = Null
               \/ \E p \in DOMAIN h[k.parent] : h[k.parent][p][k.key] = f[r][k.column]
    /\ \A k \in ForeignKeys : k.table # t /\ k.parent = t =>
           \A r \in DOMAIN h[k.table] :
               \/ h[k.table][r][k.column] = Null
               \/ \E p \in DOMAIN f : f[p][k.key] = h[k.table][r][k.column]

\* One table may be exchanged for rows that were checked.
LEMMA SoundWith ==
    ASSUME TablesAssumption, NEW g, NEW h, NEW t \in Tables, NEW f,
           Sound(h), Replaces(g, h, t, f)
    PROVE  Sound(g)
  <1>1. ASSUME NEW u \in Tables PROVE UniqueAmong(u, g[u])
    BY DEF Sound, Replaces
  <1>2. ASSUME NEW k \in ForeignKeys, NEW r \in DOMAIN g[k.table]
        PROVE  \/ g[k.table][r][k.column] = Null
               \/ \E p \in DOMAIN g[k.parent] : g[k.parent][p][k.key] = g[k.table][r][k.column]
    <2>1. k.table \in Tables /\ k.parent \in Tables
      BY DEF TablesAssumption
    <2>2. CASE k.table = t /\ k.parent = t
      BY <1>2, <2>2 DEF SelfReferences, Replaces
    <2>3. CASE k.table = t /\ k.parent # t
      BY <1>2, <2>1, <2>3 DEF Replaces
    <2>4. CASE k.table # t /\ k.parent = t
      BY <1>2, <2>1, <2>4 DEF Replaces
    <2>5. CASE k.table # t /\ k.parent # t
      <3>1. g[k.table] = h[k.table] /\ g[k.parent] = h[k.parent]
        BY <2>1, <2>5 DEF Replaces
      <3> QED BY <1>2, <3>1 DEF Sound
    <2> QED BY <2>2, <2>3, <2>4, <2>5
  <1> QED BY <1>1, <1>2 DEF Sound

-----------------------------------------------------------------------------
(* The entries of one row *)

\* A heap of one row.
One(r, row) == [q \in {r} |-> row]

\* One row has one entry, or none when its key is NULL.
LEMMA IndexedOne ==
    ASSUME NEW i, NEW r, NEW row
    PROVE  \A e : e \in Indexed(i, One(r, row))
                      <=> row[i.column] # Null /\ e = <<row[i.column], r>>
  BY DEF Indexed, One

\* A row at a new reference adds its entry.
LEMMA IndexedOver ==
    ASSUME NEW i, NEW f, NEW r, NEW row, r \notin DOMAIN f
    PROVE  Indexed(i, Over(f, One(r, row)))
               = Indexed(i, f) \cup Indexed(i, One(r, row))
  <1> DEFINE g == Over(f, One(r, row))
             one == Indexed(i, One(r, row))
  <1>1. DOMAIN g = DOMAIN f \cup {r} /\ g[r] = row /\ \A q \in DOMAIN f : g[q] = f[q]
    BY DEF Over, One
  <1>3. \A e : e \in one <=> row[i.column] # Null /\ e = <<row[i.column], r>>
    BY IndexedOne
  <1> HIDE DEF g, one
  <1>2. ASSUME NEW e
        PROVE  e \in Indexed(i, g) <=>
                   e \in Indexed(i, f) \/ (row[i.column] # Null /\ e = <<row[i.column], r>>)
    BY <1>1 DEF Indexed
  <1>4. Indexed(i, g) = Indexed(i, f) \cup one
    BY <1>2, <1>3
  <1> QED BY <1>4 DEF g, one

\* A row that goes takes its entry with it, and no other.
LEMMA IndexedCut ==
    ASSUME NEW i, NEW f, NEW r \in DOMAIN f
    PROVE  Indexed(i, Cut(f, {r})) = Indexed(i, f) \ Indexed(i, One(r, f[r]))
  <1> DEFINE g == Cut(f, {r})
             one == Indexed(i, One(r, f[r]))
  <1>1. DOMAIN g = DOMAIN f \ {r} /\ \A q \in DOMAIN g : g[q] = f[q]
    BY DEF Cut
  <1>2. \A e : e \in one <=> f[r][i.column] # Null /\ e = <<f[r][i.column], r>>
    BY IndexedOne
  <1> HIDE DEF g, one
  <1>3. ASSUME NEW e PROVE e \in Indexed(i, g) => e \in Indexed(i, f) /\ e \notin one
    BY <1>1, <1>2 DEF Indexed
  <1>4. ASSUME NEW e, e \in Indexed(i, f), e \notin one PROVE e \in Indexed(i, g)
    <2>1. PICK q \in DOMAIN f : f[q][i.column] # Null /\ e = <<f[q][i.column], q>>
      BY <1>4 DEF Indexed
    <2>2. q # r
      BY <2>1, <1>2, <1>4
    <2> QED BY <2>1, <2>2, <1>1 DEF Indexed
  <1> QED BY <1>3, <1>4 DEF g, one

\* A tree that accepts the key of a row stays without duplicates.
LEMMA AcceptedOnce ==
    ASSUME NEW i, NEW held, NEW r, NEW row, i.unique, NoDuplicates(held), Accepts(i, held, row)
    PROVE  NoDuplicates(held \cup Indexed(i, One(r, row)))
  <1> DEFINE one == Indexed(i, One(r, row))
  <1>1. \A e \in one : row[i.column] # Null /\ e = <<row[i.column], r>>
    BY IndexedOne
  <1> HIDE DEF one
  <1>2. \A d \in held, e \in one : d[1] # e[1]
    BY <1>1 DEF Accepts
  <1>3. \A d, e \in one : d = e
    BY <1>1
  <1>4. NoDuplicates(held \cup one)
    BY <1>2, <1>3 DEF NoDuplicates
  <1> QED BY <1>4 DEF one

-----------------------------------------------------------------------------
(* A statement begins *)

\* What a statement has to have checked to begin soundly.
LEMMA StartStep ==
    ASSUME TablesAssumption, IInv, NEW t \in Tables, NEW gone, NEW new, NEW moves,
           StartOn(t, gone, new, moves),
           gone \subseteq DOMAIN heap[t],
           DOMAIN new \cap DOMAIN heap[t] = {},
           DOMAIN moves \subseteq gone,
           \A p \in DOMAIN moves : moves[p] \in DOMAIN new,
           \A p, q \in DOMAIN moves : moves[p] = moves[q] => p = q,
           NEW f, f = Over(Cut(heap[t], gone), new),
           UniqueAmong(t, f),
           SelfReferences(t, f),
           ParentsExist(t, new),
           \A k \in ForeignKeys : k.table # t /\ k.parent = t =>
               \A r \in gone :
                   \/ \A q \in DOMAIN heap[k.table] : heap[t][r][k.key] # heap[k.table][q][k.column]
                   \/ heap[t][r][k.key] = Null
                   \/ \E p \in DOMAIN new : new[p][k.key] = heap[t][r][k.key]
    PROVE  IInv'
  <1>1. target = Null /\ target' = t /\ remove' = gone /\ put' = new /\ moved' = moves
        /\ base' = [heap |-> heap, indexes |-> indexes, entries |-> entries]
        /\ heap' = heap /\ indexes' = indexes /\ entries' = entries
    BY DEF StartOn, tables
  <1>2. Shape(heap, indexes, entries) /\ Matches(heap, indexes, entries)
    BY DEF IInv
  <1>3. Sound(heap)
    BY AtRest, SoundAlike, <1>1, <1>2 DEF IInv, Shape
  <1>4. /\ DOMAIN f = (DOMAIN heap[t] \ gone) \cup DOMAIN new
        /\ \A r \in DOMAIN new : f[r] = new[r]
        /\ \A r \in DOMAIN heap[t] \ gone : f[r] = heap[t][r]
    BY DEF Over, Cut
  <1>5. Sound(After')
    <2> DEFINE g == After'
    <2>1. g[t] = f
      BY <1>1 DEF After, Final
    <2>2. \A u \in Tables \ {t} : g[u] = heap[u]
      BY <1>1 DEF After
    <2> HIDE DEF g
    <2>3. \A k \in ForeignKeys : k.table = t /\ k.parent # t =>
              \A r \in DOMAIN f :
                  \/ f[r][k.column] = Null
                  \/ \E p \in DOMAIN heap[k.parent] : heap[k.parent][p][k.key] = f[r][k.column]
      <3> SUFFICES ASSUME NEW k \in ForeignKeys, k.table = t, k.parent # t, NEW r \in DOMAIN f
                   PROVE  \/ f[r][k.column] = Null
                          \/ \E p \in DOMAIN heap[k.parent] :
                                 heap[k.parent][p][k.key] = f[r][k.column]
        OBVIOUS
      <3>1. CASE r \in DOMAIN new
        BY <3>1, <1>4 DEF ParentsExist
      <3>2. CASE r \in DOMAIN heap[t] \ gone
        BY <3>2, <1>3, <1>4 DEF Sound
      <3> QED BY <3>1, <3>2, <1>4
    <2>4. \A k \in ForeignKeys : k.table # t /\ k.parent = t =>
              \A r \in DOMAIN heap[k.table] :
                  \/ heap[k.table][r][k.column] = Null
                  \/ \E p \in DOMAIN f : f[p][k.key] = heap[k.table][r][k.column]
      <3> SUFFICES ASSUME NEW k \in ForeignKeys, k.table # t, k.parent = t,
                          NEW r \in DOMAIN heap[k.table], heap[k.table][r][k.column] # Null
                   PROVE  \E p \in DOMAIN f : f[p][k.key] = heap[k.table][r][k.column]
        OBVIOUS
      <3>1. PICK p \in DOMAIN heap[t] : heap[t][p][k.key] = heap[k.table][r][k.column]
        BY <1>3 DEF Sound
      <3>2. CASE p \in gone
        <4>1. \E q \in DOMAIN new : new[q][k.key] = heap[t][p][k.key]
          BY <3>1, <3>2
        <4> QED BY <4>1, <3>1, <1>4
      <3>3. CASE p \notin gone
        BY <3>1, <3>3, <1>4
      <3> QED BY <3>2, <3>3
    <2>5. Replaces(g, heap, t, f)
      BY <2>1, <2>2, <2>3, <2>4 DEF Replaces
    <2>6. Sound(g)
      BY <1>3, <2>5, SoundWith
    <2> QED BY <2>6 DEF g
  <1>6. Work'
    BY <1>1 DEF Work
  <1>7. Return'
    BY <1>1, <1>2, <1>3 DEF Return
  <1> QED BY <1>1, <1>2, <1>5, <1>6, <1>7 DEF IInv, Shape, Matches

LEMMA InsertStep ==
    ASSUME TablesAssumption, IInv, NEW t \in Tables, NEW new, DOMAIN new \subseteq Free,
           Insert(t, new)
    PROVE  IInv'
  <1> DEFINE f == Over(Cut(heap[t], {}), new)
             g == Over(heap[t], new)
  <1>1. DOMAIN f = DOMAIN g /\ \A r \in DOMAIN g : f[r] = g[r]
    BY DEF Over, Cut
  <1>2. UniqueAmong(t, g) /\ SelfReferences(t, g) /\ ParentsExist(t, new)
        /\ StartOn(t, {}, new, Empty)
    BY DEF Insert
  <1>3. DOMAIN new \cap DOMAIN heap[t] = {}
    BY DEF Free
  <1> HIDE DEF g
  <1>4. UniqueAmong(t, f)
    BY <1>1, <1>2 DEF UniqueAmong
  <1>5. SelfReferences(t, f)
    BY <1>1, <1>2 DEF SelfReferences
  <1>6. DOMAIN Empty = {}
    BY DEF Empty
  <1> QED BY <1>2, <1>3, <1>4, <1>5, <1>6, StartStep

LEMMA DeleteStep ==
    ASSUME TablesAssumption, IInv, NEW t \in Tables, NEW gone \in SUBSET DOMAIN heap[t],
           Delete(t, gone)
    PROVE  IInv'
  <1> DEFINE f == Over(Cut(heap[t], gone), Empty)
             g == Cut(heap[t], gone)
  <1>1. DOMAIN Empty = {}
    BY DEF Empty
  <1>2. DOMAIN f = DOMAIN g /\ \A r \in DOMAIN g : f[r] = g[r]
    BY <1>1 DEF Over, Cut
  <1>3. DOMAIN g \subseteq DOMAIN heap[t] /\ \A r \in DOMAIN g : g[r] = heap[t][r]
    BY DEF Cut
  <1>4. target = Null /\ StartOn(t, gone, Empty, Empty) /\ SelfReferences(t, g)
        /\ \A r \in gone : Restricted(t, r, {})
    BY DEF Delete, StartOn
  <1>5. ParentsExist(t, Empty)
    BY <1>1 DEF ParentsExist
  <1> HIDE DEF g
  <1>6. UniqueAmong(t, f)
    <2>1. UniqueAmong(t, heap[t])
      BY <1>4, AtRest DEF IInv, Sound
    <2> QED BY <2>1, <1>2, <1>3 DEF UniqueAmong
  <1>7. SelfReferences(t, f)
    BY <1>2, <1>4 DEF SelfReferences
  <1>8. \A k \in ForeignKeys : k.table # t /\ k.parent = t =>
            \A r \in gone :
                \/ \A q \in DOMAIN heap[k.table] : heap[t][r][k.key] # heap[k.table][q][k.column]
                \/ heap[t][r][k.key] = Null
                \/ \E p \in DOMAIN Empty : Empty[p][k.key] = heap[t][r][k.key]
    BY <1>4 DEF Restricted
  <1>9. f = Over(Cut(heap[t], gone), Empty)
    OBVIOUS
  <1>10. gone \subseteq DOMAIN heap[t] /\ DOMAIN Empty \cap DOMAIN heap[t] = {}
         /\ DOMAIN Empty \subseteq gone
         /\ (\A p \in DOMAIN Empty : Empty[p] \in DOMAIN Empty)
         /\ \A p, q \in DOMAIN Empty : Empty[p] = Empty[q] => p = q
    BY <1>1
  <1> HIDE DEF f
  <1> QED BY <1>10, <1>9, <1>4, <1>5, <1>6, <1>7, <1>8, StartStep

LEMMA UpdateStep ==
    ASSUME TablesAssumption, IInv, NEW t \in Tables, NEW D \in SUBSET DOMAIN heap[t],
           NEW moves \in Moves(D), NEW new, DOMAIN new = {moves[r] : r \in D},
           Update(t, moves, new)
    PROVE  IInv'
  <1> DEFINE f == Over(Cut(heap[t], D), new)
  <1>1. DOMAIN moves = D /\ (\A r \in D : moves[r] \in Free)
        /\ \A p, q \in D : moves[p] = moves[q] => p = q
    BY DEF Moves
  <1>2. UniqueAmong(t, f) /\ SelfReferences(t, f) /\ ParentsExist(t, new)
        /\ StartOn(t, D, new, moves)
        /\ \A r \in D : Restricted(t, r, {k \in ForeignKeys :
                            k.parent = t /\ new[moves[r]][k.key] = heap[t][r][k.key]})
    BY <1>1 DEF Update
  <1>3. DOMAIN new \cap DOMAIN heap[t] = {}
    BY <1>1 DEF Free
  <1>4. \A k \in ForeignKeys : k.table # t /\ k.parent = t =>
            \A r \in D :
                \/ \A q \in DOMAIN heap[k.table] : heap[t][r][k.key] # heap[k.table][q][k.column]
                \/ heap[t][r][k.key] = Null
                \/ \E p \in DOMAIN new : new[p][k.key] = heap[t][r][k.key]
    <2> SUFFICES ASSUME NEW k \in ForeignKeys, k.table # t, k.parent = t, NEW r \in D,
                        heap[t][r][k.key] # Null,
                        NEW q \in DOMAIN heap[k.table],
                        heap[t][r][k.key] = heap[k.table][q][k.column]
                 PROVE  \E p \in DOMAIN new : new[p][k.key] = heap[t][r][k.key]
      OBVIOUS
    <2>1. new[moves[r]][k.key] = heap[t][r][k.key]
      BY <1>2 DEF Restricted
    <2> QED BY <2>1
  <1> HIDE DEF f
  <1>5. f = Over(Cut(heap[t], D), new)
    BY DEF f
  <1>6. \A p \in DOMAIN moves : moves[p] \in DOMAIN new
    BY <1>1
  <1> QED BY <1>1, <1>2, <1>3, <1>4, <1>5, <1>6, StartStep

-----------------------------------------------------------------------------
(* It changes its rows *)

\* The rows of the destination are the same after the step.
Kept ==
    /\ DOMAIN Final' = DOMAIN Final
    /\ \A r \in DOMAIN Final : Final'[r] = Final[r]

\* What a row step leaves to be shown.
LEMMA RowStep ==
    ASSUME TablesAssumption, IInv, target # Null,
           NEW rows, heap' = [heap EXCEPT ![target] = rows],
           UNCHANGED <<indexes, target, base>>,
           DOMAIN entries' = IndexDefs,
           \A i \in indexes :
               IF i.table = target
               THEN /\ entries'[i] = Indexed(i, rows)
                    /\ i.unique => NoDuplicates(entries'[i])
               ELSE entries'[i] = entries[i],
           Kept, Work'
    PROVE  IInv'
  <1>1. /\ target \in Tables /\ DOMAIN heap = Tables /\ indexes \subseteq IndexDefs
        /\ Matches(heap, indexes, entries) /\ Sound(After) /\ Return
    BY DEF IInv, Shape
  <1>2. DOMAIN heap' = Tables /\ heap'[target] = rows
        /\ \A t \in Tables \ {target} : heap'[t] = heap[t]
    BY <1>1
  <1>3. Shape(heap', indexes', entries')
    BY <1>1, <1>2 DEF Shape
  <1>4. Matches(heap', indexes', entries')
    <2> SUFFICES ASSUME NEW i \in indexes
                 PROVE  /\ entries'[i] = Indexed(i, heap'[i.table])
                        /\ i.unique => NoDuplicates(entries'[i])
      BY DEF Matches
    <2>1. CASE i.table = target
      BY <2>1, <1>2
    <2>2. CASE i.table # target
      <3>1. i.table \in Tables
        BY <1>1 DEF TablesAssumption
      <3>2. heap'[i.table] = heap[i.table]
        BY <3>1, <2>2, <1>2
      <3> QED BY <2>2, <3>2, <1>1 DEF Matches
    <2> QED BY <2>1, <2>2
  <1>5. Sound(After')
    <2> DEFINE g == After
               h == After'
    <2>1. \A t \in Tables : DOMAIN h[t] = DOMAIN g[t] /\ \A r \in DOMAIN g[t] : h[t][r] = g[t][r]
      BY <1>2 DEF After, Kept
    <2> HIDE DEF g, h
    <2>2. Sound(g)
      BY <1>1 DEF g
    <2>3. Sound(h)
      BY <2>1, <2>2, SoundAlike
    <2> QED BY <2>3 DEF h
  <1>6. Return'
    BY <1>1 DEF Return
  <1> QED BY <1>1, <1>3, <1>4, <1>5, <1>6 DEF IInv

LEMMA InsertRowStep ==
    ASSUME TablesAssumption, IInv, NEW r, InsertRow(r)
    PROVE  IInv'
  <1> DEFINE one == One(r, put[r])
             rows == Over(heap[target], one)
  <1>1. /\ target # Null /\ r \in DOMAIN put /\ moved = Empty
        /\ \A i \in indexes : i.table = target => Accepts(i, entries[i], put[r])
        /\ heap' = [heap EXCEPT ![target] = rows]
        /\ entries' = [i \in IndexDefs |-> IF i \in indexes THEN Entered(i, entries[i], r, put[r])
                                                            ELSE entries[i]]
        /\ put' = Cut(put, {r})
        /\ UNCHANGED <<indexes, target, remove, moved, base>>
    BY DEF InsertRow, One
  <1>2. /\ target \in Tables /\ DOMAIN heap = Tables /\ indexes \subseteq IndexDefs
        /\ Matches(heap, indexes, entries) /\ Work
    BY <1>1 DEF IInv, Shape
  <1>3. r \notin DOMAIN heap[target]
    BY <1>1, <1>2 DEF Work
  <1>4. heap'[target] = rows
    BY <1>1, <1>2
  <1>5. /\ DOMAIN rows = DOMAIN heap[target] \cup {r} /\ rows[r] = put[r]
        /\ \A q \in DOMAIN heap[target] : rows[q] = heap[target][q]
    BY <1>3 DEF Over, One
  <1>6. DOMAIN put' = DOMAIN put \ {r} /\ \A q \in DOMAIN put' : put'[q] = put[q]
    BY <1>1 DEF Cut
  <1>7. \A i \in indexes :
            IF i.table = target
            THEN /\ entries'[i] = Indexed(i, rows)
                 /\ i.unique => NoDuplicates(entries'[i])
            ELSE entries'[i] = entries[i]
    <2> SUFFICES ASSUME NEW i \in indexes
                 PROVE  IF i.table = target
                        THEN /\ entries'[i] = Indexed(i, rows)
                             /\ i.unique => NoDuplicates(entries'[i])
                        ELSE entries'[i] = entries[i]
      OBVIOUS
    <2>1. entries'[i] = Entered(i, entries[i], r, put[r])
      BY <1>1, <1>2
    <2>2. CASE i.table = target
      <3>1. entries'[i] = entries[i] \cup Indexed(i, one)
        BY <2>1, <2>2 DEF Entered, One
      <3>2. entries[i] = Indexed(i, heap[target]) /\ (i.unique => NoDuplicates(entries[i]))
        BY <2>2, <1>2 DEF Matches
      <3>3. Indexed(i, rows) = Indexed(i, heap[target]) \cup Indexed(i, one)
        BY <1>3, IndexedOver
      <3>4. i.unique => NoDuplicates(entries[i] \cup Indexed(i, one))
        BY <1>1, <2>2, <3>2, AcceptedOnce
      <3> HIDE DEF one, rows
      <3> QED BY <2>2, <3>1, <3>2, <3>3, <3>4
    <2>3. CASE i.table # target
      BY <2>1, <2>3 DEF Entered
    <2> QED BY <2>2, <2>3
  <1> HIDE DEF rows
  <1>8. Kept
    <2>1. remove \subseteq DOMAIN heap[target] /\ remove' = remove
      BY <1>1, <1>2 DEF Work
    <2>2. /\ DOMAIN Final = (DOMAIN heap[target] \ remove) \cup DOMAIN put
          /\ \A q \in DOMAIN Final : Final[q] = IF q \in DOMAIN put THEN put[q] ELSE heap[target][q]
      BY DEF Final, Over, Cut
    <2>3. /\ DOMAIN Final' = (DOMAIN rows \ remove) \cup DOMAIN put'
          /\ \A q \in DOMAIN Final' : Final'[q] = IF q \in DOMAIN put' THEN put'[q] ELSE rows[q]
      BY <1>4, <1>1, <2>1 DEF Final, Over, Cut
    <2>4. DOMAIN Final' = DOMAIN Final
      BY <1>1, <1>3, <1>5, <1>6, <2>1, <2>2, <2>3
    <2> QED BY <1>1, <1>3, <1>5, <1>6, <2>1, <2>2, <2>3, <2>4 DEF Kept
  <1>9. Work'
    <2>1. DOMAIN moved = {}
      BY <1>1 DEF Empty
    <2> QED BY <2>1, <1>1, <1>2, <1>4, <1>5, <1>6 DEF Work
  <1>10. DOMAIN entries' = IndexDefs
    BY <1>1
  <1> QED BY <1>1, <1>7, <1>8, <1>9, <1>10, RowStep

\* The old entries of a row leave the tree of an index of its table.
LEMMA ErasedRow ==
    ASSUME Matches(heap, indexes, entries), NEW i \in indexes, i.table = target,
           NEW r \in DOMAIN heap[target]
    PROVE  /\ Erased(i, r) = Indexed(i, Cut(heap[target], {r}))
           /\ i.unique => NoDuplicates(Erased(i, r))
  <1>1. entries[i] = Indexed(i, heap[target]) /\ (i.unique => NoDuplicates(entries[i]))
    BY DEF Matches
  <1>2. [q \in {r} |-> heap[target][q]] = One(r, heap[target][r])
    BY DEF One
  <1>3. Erased(i, r) = entries[i] \ Indexed(i, One(r, heap[target][r]))
    BY <1>2 DEF Erased
  <1>4. Erased(i, r) \subseteq entries[i]
    BY <1>3
  <1>5. i.unique => NoDuplicates(Erased(i, r))
    BY <1>1, <1>4 DEF NoDuplicates
  <1> QED BY <1>1, <1>3, <1>5, IndexedCut

LEMMA DeleteRowStep ==
    ASSUME TablesAssumption, IInv, NEW r, DeleteRow(r)
    PROVE  IInv'
  <1> DEFINE rows == Cut(heap[target], {r})
  <1>1. /\ target # Null /\ r \in remove /\ moved = Empty
        /\ heap' = [heap EXCEPT ![target] = rows]
        /\ entries' = [i \in IndexDefs |-> IF i \in indexes THEN Erased(i, r) ELSE entries[i]]
        /\ remove' = remove \ {r}
        /\ UNCHANGED <<indexes, target, put, moved, base>>
    BY DEF DeleteRow
  <1>2. /\ target \in Tables /\ DOMAIN heap = Tables /\ indexes \subseteq IndexDefs
        /\ Matches(heap, indexes, entries) /\ Work
    BY <1>1 DEF IInv, Shape
  <1>3. remove \subseteq DOMAIN heap[target] /\ DOMAIN put \cap DOMAIN heap[target] = {}
    BY <1>2 DEF Work
  <1>4. heap'[target] = rows
    BY <1>1, <1>2
  <1>5. DOMAIN rows = DOMAIN heap[target] \ {r} /\ \A q \in DOMAIN rows : rows[q] = heap[target][q]
    BY DEF Cut
  <1>6. \A i \in indexes :
            IF i.table = target
            THEN /\ entries'[i] = Indexed(i, rows)
                 /\ i.unique => NoDuplicates(entries'[i])
            ELSE entries'[i] = entries[i]
    <2> SUFFICES ASSUME NEW i \in indexes
                 PROVE  IF i.table = target
                        THEN /\ entries'[i] = Indexed(i, rows)
                             /\ i.unique => NoDuplicates(entries'[i])
                        ELSE entries'[i] = entries[i]
      OBVIOUS
    <2>1. entries'[i] = Erased(i, r)
      BY <1>1, <1>2
    <2>2. CASE i.table = target
      <3>1. r \in DOMAIN heap[target]
        BY <1>1, <1>3
      <3> QED BY <2>1, <2>2, <3>1, <1>2, ErasedRow
    <2>3. CASE i.table # target
      BY <2>1, <2>3 DEF Erased
    <2> QED BY <2>2, <2>3
  <1> HIDE DEF rows
  <1>7. Kept
    <2>1. /\ DOMAIN Final = (DOMAIN heap[target] \ remove) \cup DOMAIN put
          /\ \A q \in DOMAIN Final : Final[q] = IF q \in DOMAIN put THEN put[q] ELSE heap[target][q]
      BY DEF Final, Over, Cut
    <2>2. /\ DOMAIN Final' = (DOMAIN rows \ remove') \cup DOMAIN put
          /\ \A q \in DOMAIN Final' : Final'[q] = IF q \in DOMAIN put THEN put[q] ELSE rows[q]
      BY <1>1, <1>4 DEF Final, Over, Cut
    <2>3. DOMAIN Final' = DOMAIN Final
      BY <1>1, <1>5, <2>1, <2>2
    <2> QED BY <1>1, <1>5, <2>1, <2>2, <2>3 DEF Kept
  <1>8. Work'
    <2>1. DOMAIN moved = {}
      BY <1>1 DEF Empty
    <2> QED BY <2>1, <1>1, <1>3, <1>4, <1>5 DEF Work
  <1>9. DOMAIN entries' = IndexDefs
    BY <1>1
  <1> QED BY <1>1, <1>6, <1>7, <1>8, <1>9, RowStep

LEMMA ReplaceRowStep ==
    ASSUME TablesAssumption, IInv, NEW r, ReplaceRow(r)
    PROVE  IInv'
  <1> DEFINE q == moved[r]
             left == Cut(heap[target], {r})
             one == One(q, put[q])
             rows == Over(left, one)
  <1>1. /\ target # Null /\ r \in DOMAIN moved
        /\ \A i \in indexes : i.table = target => Accepts(i, Erased(i, r), put[q])
        /\ heap' = [heap EXCEPT ![target] = rows]
        /\ entries' = [i \in IndexDefs |-> IF i \in indexes THEN Entered(i, Erased(i, r), q, put[q])
                                                            ELSE entries[i]]
        /\ put' = Cut(put, {q})
        /\ remove' = remove \ {r} /\ moved' = Cut(moved, {r})
        /\ UNCHANGED <<indexes, target, base>>
    BY DEF ReplaceRow, One
  <1>2. /\ target \in Tables /\ DOMAIN heap = Tables /\ indexes \subseteq IndexDefs
        /\ Matches(heap, indexes, entries) /\ Work
    BY <1>1 DEF IInv, Shape
  <1>3. /\ r \in remove /\ remove \subseteq DOMAIN heap[target]
        /\ q \in DOMAIN put /\ DOMAIN put \cap DOMAIN heap[target] = {}
    BY <1>1, <1>2 DEF Work
  <1>4. heap'[target] = rows
    BY <1>1, <1>2
  <1>5. DOMAIN left = DOMAIN heap[target] \ {r} /\ \A s \in DOMAIN left : left[s] = heap[target][s]
    BY DEF Cut
  <1> HIDE DEF q, left
  <1>6. q \notin DOMAIN left
    BY <1>3, <1>5
  <1>7. /\ DOMAIN rows = DOMAIN left \cup {q} /\ rows[q] = put[q]
        /\ \A s \in DOMAIN left : rows[s] = left[s]
    BY <1>6 DEF Over, One
  <1>8. /\ DOMAIN put' = DOMAIN put \ {q} /\ \A s \in DOMAIN put' : put'[s] = put[s]
        /\ DOMAIN moved' = DOMAIN moved \ {r} /\ \A p \in DOMAIN moved' : moved'[p] = moved[p]
    BY <1>1 DEF Cut
  <1>9. \A i \in indexes :
            IF i.table = target
            THEN /\ entries'[i] = Indexed(i, rows)
                 /\ i.unique => NoDuplicates(entries'[i])
            ELSE entries'[i] = entries[i]
    <2> SUFFICES ASSUME NEW i \in indexes
                 PROVE  IF i.table = target
                        THEN /\ entries'[i] = Indexed(i, rows)
                             /\ i.unique => NoDuplicates(entries'[i])
                        ELSE entries'[i] = entries[i]
      OBVIOUS
    <2>1. entries'[i] = Entered(i, Erased(i, r), q, put[q])
      BY <1>1, <1>2
    <2>2. CASE i.table = target
      <3>1. entries'[i] = Erased(i, r) \cup Indexed(i, one)
        BY <2>1, <2>2 DEF Entered, One
      <3>2. Erased(i, r) = Indexed(i, left) /\ (i.unique => NoDuplicates(Erased(i, r)))
        BY <1>2, <1>3, <2>2, ErasedRow DEF left
      <3>3. Indexed(i, rows) = Indexed(i, left) \cup Indexed(i, one)
        BY <1>6, IndexedOver
      <3>4. i.unique => NoDuplicates(Erased(i, r) \cup Indexed(i, one))
        BY <1>1, <2>2, <3>2, AcceptedOnce
      <3> HIDE DEF one, rows
      <3> QED BY <2>2, <3>1, <3>2, <3>3, <3>4
    <2>3. CASE i.table # target
      BY <2>1, <2>3 DEF Entered, Erased
    <2> QED BY <2>2, <2>3
  <1> HIDE DEF rows
  <1>10. Kept
    <2>1. /\ DOMAIN Final = (DOMAIN heap[target] \ remove) \cup DOMAIN put
          /\ \A s \in DOMAIN Final : Final[s] = IF s \in DOMAIN put THEN put[s] ELSE heap[target][s]
      BY DEF Final, Over, Cut
    <2>2. /\ DOMAIN Final' = (DOMAIN rows \ remove') \cup DOMAIN put'
          /\ \A s \in DOMAIN Final' : Final'[s] = IF s \in DOMAIN put' THEN put'[s] ELSE rows[s]
      BY <1>1, <1>4 DEF Final, Over, Cut
    <2>3. DOMAIN Final' = DOMAIN Final
      BY <1>1, <1>3, <1>5, <1>7, <1>8, <2>1, <2>2
    <2>4. ASSUME NEW s \in DOMAIN Final PROVE Final'[s] = Final[s]
      <3>1. CASE s = q
        <4>1. Final[s] = put[q]
          BY <3>1, <1>3, <2>1
        <4>2. s \notin DOMAIN put'
          BY <3>1, <1>8
        <4> QED BY <3>1, <4>1, <4>2, <1>7, <2>2, <2>3
      <3>2. CASE s \in DOMAIN put \ {q}
        BY <3>2, <1>8, <2>1, <2>2, <2>3
      <3>3. CASE s \notin DOMAIN put
        <4>1. s \in DOMAIN left /\ s \notin DOMAIN put'
          BY <3>3, <1>3, <1>5, <1>8, <2>1
        <4> QED BY <3>3, <4>1, <1>5, <1>7, <2>1, <2>2, <2>3
      <3> QED BY <3>1, <3>2, <3>3
    <2> QED BY <2>3, <2>4 DEF Kept
  <1>11. Work'
    <2>1. remove' \subseteq DOMAIN rows /\ DOMAIN put' \cap DOMAIN rows = {}
      BY <1>1, <1>3, <1>5, <1>7, <1>8
    <2>2. DOMAIN moved' \subseteq remove'
      BY <1>1, <1>2, <1>8 DEF Work
    <2>3. \A p \in DOMAIN moved' : moved'[p] \in DOMAIN put'
      BY <1>1, <1>2, <1>8 DEF Work, q
    <2>4. \A p, s \in DOMAIN moved' : moved'[p] = moved'[s] => p = s
      BY <1>2, <1>8 DEF Work
    <2> QED BY <2>1, <2>2, <2>3, <2>4, <1>1, <1>4 DEF Work
  <1>12. DOMAIN entries' = IndexDefs
    BY <1>1
  <1> QED BY <1>1, <1>9, <1>10, <1>11, <1>12, RowStep

-----------------------------------------------------------------------------
(* It ends *)

LEMMA DoneStep ==
    ASSUME TablesAssumption, IInv, Done
    PROVE  IInv'
  <1>1. /\ target # Null /\ remove = {} /\ put = Empty /\ target' = Null
        /\ heap' = heap /\ indexes' = indexes /\ entries' = entries
    BY DEF Done, Idle, tables
  <1>2. DOMAIN put = {}
    BY <1>1 DEF Empty
  <1>3. Sound(After')
    <2> DEFINE g == After
               h == After'
    <2>1. /\ DOMAIN Final = DOMAIN heap[target]
          /\ \A r \in DOMAIN Final : Final[r] = heap[target][r]
      BY <1>1, <1>2 DEF Final, Over, Cut
    <2>2. \A t \in Tables : h[t] = heap[t]
      BY <1>1 DEF After, TablesAssumption
    <2>3. \A t \in Tables : g[t] = IF t = target THEN Final ELSE heap[t]
      BY DEF After
    <2> HIDE DEF g, h
    <2>4. \A t \in Tables : DOMAIN h[t] = DOMAIN g[t] /\ \A r \in DOMAIN g[t] : h[t][r] = g[t][r]
      BY <2>1, <2>2, <2>3
    <2>5. Sound(g)
      BY DEF IInv, g
    <2>6. Sound(h)
      BY <2>4, <2>5, SoundAlike
    <2> QED BY <2>6 DEF h
  <1> QED BY <1>1, <1>3 DEF IInv, Shape, Matches

LEMMA RollbackStep ==
    ASSUME TablesAssumption, IInv, Rollback
    PROVE  IInv'
  <1>1. /\ target' = Null
        /\ heap' = base.heap /\ indexes' = base.indexes /\ entries' = base.entries
        /\ Return
    BY DEF Rollback, Idle, IInv
  <1>2. Sound(After')
    <2> DEFINE g == base.heap
               h == After'
    <2>1. \A t \in Tables : h[t] = g[t]
      BY <1>1 DEF After, TablesAssumption
    <2>2. Sound(g)
      BY <1>1 DEF Return
    <2> HIDE DEF g, h
    <2>3. Sound(h)
      BY <2>1, <2>2, SoundAlike
    <2> QED BY <2>3 DEF h
  <1> QED BY <1>1, <1>2 DEF IInv, Return

-----------------------------------------------------------------------------
(* Indexes *)

\* An index that is built from the rows, or is none any more.
LEMMA IndexStep ==
    ASSUME IInv, NEW i \in IndexDefs,
           CreateIndex(i) \/ DropIndex(i) \/ IndexRebuild(i)
    PROVE  IInv'
  <1>1. /\ target = Null /\ target' = target /\ heap' = heap
        /\ DOMAIN entries = IndexDefs /\ indexes \subseteq IndexDefs /\ DOMAIN heap = Tables
        /\ Matches(heap, indexes, entries)
    BY DEF IInv, Shape, CreateIndex, DropIndex, IndexRebuild, statement
  <1>2. DOMAIN entries' = IndexDefs /\ \A j \in IndexDefs \ {i} : entries'[j] = entries[j]
    BY <1>1 DEF CreateIndex, DropIndex, IndexRebuild
  <1>3. indexes' \subseteq indexes \cup {i}
    BY DEF CreateIndex, DropIndex, IndexRebuild
  <1>4. i \in indexes' => /\ entries'[i] = Indexed(i, heap[i.table])
                          /\ i.unique => NoDuplicates(entries'[i])
    BY <1>1 DEF CreateIndex, DropIndex, IndexRebuild, Built
  <1>5. Matches(heap', indexes', entries')
    BY <1>1, <1>2, <1>3, <1>4 DEF Matches
  <1>6. After' = After
    BY <1>1 DEF After, Final, CreateIndex, DropIndex, IndexRebuild, statement
  <1>7. Shape(heap', indexes', entries')
    BY <1>1, <1>2, <1>3 DEF Shape
  <1>8. Sound(After')
    BY <1>6 DEF IInv
  <1> QED BY <1>1, <1>5, <1>7, <1>8 DEF IInv

-----------------------------------------------------------------------------
(* The theorems *)

LEMMA Initially ==
    ASSUME TablesAssumption, Init
    PROVE  IInv
  <1>1. \A t \in Tables : DOMAIN heap[t] = {} /\ DOMAIN After[t] = {}
    BY DEF Init, Empty, After, TablesAssumption
  <1>2. DOMAIN heap = Tables /\ indexes = {} /\ DOMAIN entries = IndexDefs /\ target = Null
    BY DEF Init
  <1>3. Sound(After)
    BY <1>1 DEF Sound, UniqueAmong, TablesAssumption
  <1> QED BY <1>2, <1>3 DEF IInv, Shape, Matches

LEMMA Inductive ==
    ASSUME TablesAssumption, IInv, [Next]_vars
    PROVE  IInv'
  <1>1. ASSUME NEW t \in Tables, NEW D \in Batches(Free), NEW new \in [D -> Rows[t]],
               Insert(t, new)
        PROVE  IInv'
    BY <1>1, InsertStep DEF Batches
  <1>2. ASSUME NEW t \in Tables, NEW D \in Batches(DOMAIN heap[t]), Delete(t, D)
        PROVE  IInv'
    BY <1>2, DeleteStep DEF Batches
  <1>3. ASSUME NEW t \in Tables, NEW D \in Batches(DOMAIN heap[t]), NEW m \in Moves(D),
               NEW new \in [{m[r] : r \in D} -> Rows[t]], Update(t, m, new)
        PROVE  IInv'
    <2>1. D \in SUBSET DOMAIN heap[t] /\ DOMAIN new = {m[r] : r \in D}
      BY DEF Batches
    <2> QED BY <1>3, <2>1, UpdateStep
  <1>4. ASSUME NEW r \in Refs, InsertRow(r) \/ DeleteRow(r) \/ ReplaceRow(r)
        PROVE  IInv'
    BY <1>4, InsertRowStep, DeleteRowStep, ReplaceRowStep
  <1>5. CASE Done \/ Rollback
    BY <1>5, DoneStep, RollbackStep
  <1>6. ASSUME NEW i \in IndexDefs, CreateIndex(i) \/ DropIndex(i) \/ IndexRebuild(i)
        PROVE  IInv'
    BY <1>6, IndexStep
  <1>7. CASE UNCHANGED vars
    BY <1>7 DEF vars, tables, statement, IInv, Shape, Matches, After, Final, Work, Return
  <1> QED BY <1>1, <1>2, <1>3, <1>4, <1>5, <1>6, <1>7 DEF Next

\* Whatever statements ran, the tables are on their way from sound tables to
\* sound tables and every index holds what its table holds.
THEOREM Invariant == ASSUME TablesAssumption PROVE Spec => []IInv
  <1>1. Init => IInv
    BY Initially
  <1>2. IInv /\ [Next]_vars => IInv'
    BY Inductive
  <1> QED BY <1>1, <1>2, PTL DEF Spec

\* Indexes follow their tables row by row, and a unique one holds a key once
\* (Database::insertIndexEntries and eraseIndexEntries).
THEOREM IndexesHold ==
    ASSUME TablesAssumption PROVE Spec => [](IndexesMatchHeap /\ UniqueIndexesHold)
  <1>1. IInv => IndexesMatchHeap /\ UniqueIndexesHold
    BY DEF IInv, Matches, IndexesMatchHeap, UniqueIndexesHold
  <1> QED BY <1>1, Invariant, PTL

\* Between statements the PRIMARY KEY and UNIQUE keys of every table hold.
THEOREM KeysKept == ASSUME TablesAssumption PROVE Spec => []KeysHold
  <1>1. IInv => KeysHold
    <2> SUFFICES ASSUME IInv, target = Null PROVE \A t \in Tables : UniqueAmong(t, heap[t])
      BY DEF KeysHold
    <2>1. \A t \in Tables : After[t] = heap[t]
      BY AtRest
    <2> QED BY <2>1 DEF IInv, Sound
  <1> QED BY <1>1, Invariant, PTL

\* Between statements every foreign key finds its parent, whatever statement
\* inserted, moved or removed rows of the child, of the parent or of both.
THEOREM ForeignKeysKept == ASSUME TablesAssumption PROVE Spec => []ForeignKeysHold
  <1>1. IInv => ForeignKeysHold
    <2> SUFFICES ASSUME IInv, target = Null PROVE ForeignKeysHold
      BY DEF ForeignKeysHold
    <2>1. \A k \in ForeignKeys : After[k.table] = heap[k.table] /\ After[k.parent] = heap[k.parent]
      BY AtRest DEF TablesAssumption
    <2> QED BY <2>1 DEF IInv, Sound, ForeignKeysHold
  <1> QED BY <1>1, Invariant, PTL

-----------------------------------------------------------------------------
(* Types *)

\* f has references of the program and rows of table t.
RowsOf(t, f) == DOMAIN f \subseteq Refs /\ \A r \in DOMAIN f : f[r] \in Rows[t]

Typed(h) == \A t \in Tables : RowsOf(t, h[t])

\* The tables have rows of theirs, and so have what a statement will write and
\* what its undo log goes back to.
TypeInv == Typed(heap) /\ (target # Null => Typed(base.heap) /\ RowsOf(target, put))

LEMMA RowsCut ==
    ASSUME NEW t, NEW f, RowsOf(t, f), NEW S
    PROVE  RowsOf(t, Cut(f, S))
  BY DEF RowsOf, Cut

LEMMA RowsOver ==
    ASSUME NEW t, NEW f, RowsOf(t, f), NEW g, RowsOf(t, g)
    PROVE  RowsOf(t, Over(f, g))
  <1>1. /\ DOMAIN Over(f, g) = DOMAIN f \cup DOMAIN g
        /\ \A r \in DOMAIN f \cup DOMAIN g : Over(f, g)[r] = IF r \in DOMAIN g THEN g[r] ELSE f[r]
    BY DEF Over
  <1> QED BY <1>1 DEF RowsOf

\* The rows of one table are exchanged.
LEMMA TypedWith ==
    ASSUME Typed(heap), DOMAIN heap = Tables, NEW t \in Tables, NEW f, RowsOf(t, f)
    PROVE  Typed([heap EXCEPT ![t] = f])
  BY DEF Typed

\* A statement that starts leaves the tables, and has rows of its table to write.
LEMMA StartTyped ==
    ASSUME TablesAssumption, TypeInv, NEW t \in Tables, NEW gone, NEW new, NEW moves,
           StartOn(t, gone, new, moves), RowsOf(t, new)
    PROVE  TypeInv'
  <1>1. heap' = heap /\ target' = t /\ put' = new /\ base'.heap = heap
    BY DEF StartOn, tables
  <1> QED BY <1>1 DEF TypeInv, Typed, RowsOf

LEMMA RowTyped ==
    ASSUME TablesAssumption, IInv, TypeInv, NEW r \in Refs,
           InsertRow(r) \/ DeleteRow(r) \/ ReplaceRow(r)
    PROVE  TypeInv'
  <1>1. /\ target # Null /\ target' = target /\ base' = base /\ target \in Tables
        /\ DOMAIN heap = Tables /\ Typed(heap) /\ Typed(base.heap)
        /\ RowsOf(target, put) /\ RowsOf(target, heap[target])
    BY DEF IInv, Shape, TypeInv, Typed, InsertRow, DeleteRow, ReplaceRow
  <1>2. ASSUME NEW f, RowsOf(target, f), heap' = [heap EXCEPT ![target] = f], RowsOf(target, put')
        PROVE  TypeInv'
    <2>1. Typed(heap')
      BY <1>1, <1>2, TypedWith
    <2>2. Typed(base'.heap) /\ RowsOf(target', put')
      BY <1>1, <1>2
    <2> QED BY <2>1, <2>2 DEF TypeInv, Typed, RowsOf
  <1>3. ASSUME NEW q \in DOMAIN put
        PROVE  RowsOf(target, [s \in {q} |-> put[q]])
    BY <1>1 DEF RowsOf
  <1>4. CASE InsertRow(r)
    <2>1. /\ r \in DOMAIN put /\ put' = Cut(put, {r})
          /\ heap' = [heap EXCEPT ![target] = Over(heap[target], [q \in {r} |-> put[r]])]
      BY <1>4 DEF InsertRow
    <2> QED BY <1>1, <1>2, <1>3, <2>1, RowsCut, RowsOver
  <1>5. CASE DeleteRow(r)
    <2>1. put' = put /\ heap' = [heap EXCEPT ![target] = Cut(heap[target], {r})]
      BY <1>5 DEF DeleteRow
    <2> QED BY <1>1, <1>2, <2>1, RowsCut
  <1>6. CASE ReplaceRow(r)
    <2> DEFINE q == moved[r]
    <2>1. /\ r \in DOMAIN moved /\ put' = Cut(put, {q})
          /\ heap' = [heap EXCEPT ![target] = Over(Cut(heap[target], {r}), [s \in {q} |-> put[q]])]
      BY <1>6 DEF ReplaceRow
    <2>2. q \in DOMAIN put
      BY <1>1, <2>1 DEF IInv, Work
    <2> HIDE DEF q
    <2> QED BY <1>1, <1>2, <1>3, <2>1, <2>2, RowsCut, RowsOver
  <1> QED BY <1>4, <1>5, <1>6

LEMMA StepTyped ==
    ASSUME TablesAssumption, IInv, TypeInv, [Next]_vars
    PROVE  TypeInv'
  <1>1. ASSUME NEW t \in Tables, NEW D \in Batches(Free), NEW new \in [D -> Rows[t]], Insert(t, new)
        PROVE  TypeInv'
    <2>1. RowsOf(t, new)
      BY DEF RowsOf, Batches, Free
    <2> QED BY <1>1, <2>1, StartTyped DEF Insert
  <1>2. ASSUME NEW t \in Tables, NEW D \in Batches(DOMAIN heap[t]), Delete(t, D)
        PROVE  TypeInv'
    <2>1. RowsOf(t, Empty)
      BY DEF RowsOf, Empty
    <2> QED BY <1>2, <2>1, StartTyped DEF Delete
  <1>3. ASSUME NEW t \in Tables, NEW D \in Batches(DOMAIN heap[t]), NEW m \in Moves(D),
               NEW new \in [{m[r] : r \in D} -> Rows[t]], Update(t, m, new)
        PROVE  TypeInv'
    <2>1. \A r \in D : m[r] \in Refs
      BY DEF Moves, Free
    <2>2. RowsOf(t, new)
      BY <2>1 DEF RowsOf
    <2> QED BY <1>3, <2>2, StartTyped DEF Update
  <1>4. ASSUME NEW r \in Refs, InsertRow(r) \/ DeleteRow(r) \/ ReplaceRow(r)
        PROVE  TypeInv'
    BY <1>4, RowTyped
  <1>5. CASE Done
    BY <1>5 DEF Done, Idle, tables, TypeInv, Typed, RowsOf
  <1>6. CASE Rollback
    BY <1>6 DEF Rollback, Idle, TypeInv, Typed, RowsOf
  <1>7. ASSUME NEW i \in IndexDefs, CreateIndex(i) \/ DropIndex(i) \/ IndexRebuild(i)
        PROVE  TypeInv'
    BY <1>7 DEF CreateIndex, DropIndex, IndexRebuild, statement, TypeInv, Typed, RowsOf
  <1>8. CASE UNCHANGED vars
    BY <1>8 DEF vars, tables, statement, TypeInv, Typed, RowsOf
  <1> QED BY <1>1, <1>2, <1>3, <1>4, <1>5, <1>6, <1>7, <1>8 DEF Next

\* A row is always one its table can have, under a reference of the program,
\* also in the middle of a statement and after it was undone.
THEOREM TypeCorrect == ASSUME TablesAssumption PROVE Spec => []TypeOK
  <1>1. Init => TypeInv
    BY DEF Init, Empty, TypeInv, Typed, RowsOf
  <1>2. IInv /\ TypeInv /\ [Next]_vars => TypeInv'
    BY StepTyped
  <1>3. IInv /\ TypeInv => TypeOK
    <2> SUFFICES ASSUME IInv, TypeInv PROVE TypeOK
      OBVIOUS
    <2>1. indexes \subseteq IndexDefs /\ DOMAIN entries = IndexDefs /\ target \in Tables \cup {Null}
      BY DEF IInv, Shape
    <2>2. target # Null => remove \subseteq DOMAIN heap[target] /\ DOMAIN put \subseteq Refs
      BY DEF IInv, Work, TypeInv, RowsOf
    <2>3. \A t \in Tables : DOMAIN heap[t] \subseteq Refs /\ \A r \in DOMAIN heap[t] : heap[t][r] \in Rows[t]
      BY DEF TypeInv, Typed, RowsOf
    <2> QED BY <2>1, <2>2, <2>3 DEF TypeOK
  <1> QED BY <1>1, <1>2, <1>3, Invariant, PTL DEF Spec
=============================================================================
