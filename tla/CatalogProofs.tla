---------------------------- MODULE CatalogProofs ----------------------------
(***************************************************************************)
(* Proofs about the catalog, for any tables, references, index names and   *)
(* access versions: the variables keep their types, a restart can always   *)
(* read the file back, what it reads is what the process works with, and   *)
(* every index has its runtime and its pages.                              *)
(*                                                                         *)
(* The heart is the order in which the constructor creates the tables: the *)
(* walk over the references that CreationOrder runs enters every row once, *)
(* leaves every row once, and leaves it after its parents, because the     *)
(* rows it is inside of have ever smaller identities.                      *)
(***************************************************************************)
EXTENDS Catalog, FiniteSetTheorems, SequenceTheorems, WellFoundedInduction, TLAPS

-----------------------------------------------------------------------------
(* The inductive invariant *)

RowType == [id : Nat, table : Tables, refs : SUBSET Tables, indexes : SUBSET Names]
EntryType == [id : Nat, table : Tables, indexes : SUBSET Names]
Views == UNION {[T -> SUBSET Names] : T \in SUBSET Tables}

Store == [rows : Seq(RowType), columns : SUBSET Nat, header : Nat, access : Versions \cup {0},
          owners : SUBSET (Tables \X Names)]
Memory == [view : Views, tables : Seq(EntryType), nextId : Nat, access : Versions \cup {0}]

\* No two positions hold the same table.
Keyed(q) == \A i, j \in DOMAIN q : q[i].table = q[j].table => i = j

\* What a row references is itself or was created before it.
Settled(R) ==
    \A a \in R : \A t \in a.refs : \E b \in R : b.table = t /\ (b = a \/ b.id < a.id)

\* The indexes of the rows R, each with its table.
IndexesOf(R) == UNION {{<<a.table, n>> : n \in a.indexes} : a \in R}

\* The set has an upper bound.
Bounded(S) == \E n \in Nat : \A x \in S : x <= n

\* A store a restart can read: one row for a table, its columns there, what it
\* references before it, and pages for exactly the indexes of the rows.
Sound(s) ==
    /\ Keyed(s.rows)
    /\ \A a, b \in ToSet(s.rows) : a.id = b.id => a = b
    /\ \A a \in ToSet(s.rows) : a.id \in s.columns
    /\ Settled(ToSet(s.rows))
    /\ Bounded(s.columns)
    /\ s.owners = IndexesOf(ToSet(s.rows))

\* The stored definition of a row.
Entry(a) == [id |-> a.id, table |-> a.table, indexes |-> a.indexes]

\* The catalog in memory says what the rows of the store say, and gives the next
\* table an identity above all it has given.
Follows(s, m) ==
    /\ DOMAIN m.view = {a.table : a \in ToSet(s.rows)}
    /\ \A a \in ToSet(s.rows) : m.view[a.table] = a.indexes
    /\ ToSet(m.tables) = {Entry(a) : a \in ToSet(s.rows)}
    /\ Keyed(m.tables)
    /\ FirstId <= m.nextId /\ \A x \in s.columns : x < m.nextId

\* The savepoint holds such a store and such a catalog.
MarkSound ==
    mark # None =>
        /\ mark \in [store : Store, mem : Memory]
        /\ Sound(mark.store) /\ Follows(mark.store, mark.mem)

Types ==
    /\ disk \in Store /\ work \in Store /\ mem \in Memory
    /\ runtimes \in SUBSET (Tables \X Names)
    /\ txn \in {"idle", "active", "aborted"} /\ up \in {"down", "up", "refused"}

Working ==
    up = "up" => Sound(work) /\ Follows(work, mem) /\ runtimes = Wanted(mem)

CatalogInvariant == Types /\ Sound(disk) /\ MarkSound /\ Working

-----------------------------------------------------------------------------
(* Sequences: what is put in and taken out                                 *)

LEMMA Members ==
    ASSUME NEW S, NEW q \in Seq(S)
    PROVE  /\ Len(q) \in Nat /\ DOMAIN q = 1..Len(q)
           /\ \A i \in 1..Len(q) : q[i] \in S
           /\ ToSet(q) \subseteq S
           /\ \A x : x \in ToSet(q) <=> \E i \in 1..Len(q) : q[i] = x
  <1>1. Len(q) \in Nat /\ DOMAIN q = 1..Len(q)
    BY LenProperties
  <1>2. \A i \in 1..Len(q) : q[i] \in S
    BY ElementOfSeq
  <1> QED BY <1>1, <1>2 DEF ToSet

\* r is q with e behind it.
Added(S, q, e, r) ==
    /\ r \in Seq(S) /\ Len(r) = Len(q) + 1
    /\ \A j \in 1..Len(q) + 1 : r[j] = IF j = Len(q) + 1 THEN e ELSE q[j]
    /\ ToSet(r) = ToSet(q) \cup {e}

LEMMA Appended ==
    ASSUME NEW S, NEW q \in Seq(S), NEW e \in S
    PROVE  Added(S, q, e, Append(q, e))
  <1> DEFINE r == Append(q, e)
  <1>1. /\ r \in Seq(S) /\ Len(r) = Len(q) + 1 /\ Len(q) \in Nat
        /\ \A i \in 1..Len(q) : r[i] = q[i]
        /\ r[Len(q) + 1] = e
    BY AppendProperties, LenProperties
  <1> HIDE DEF r
  <1>2. \A j \in 1..Len(q) + 1 : r[j] = IF j = Len(q) + 1 THEN e ELSE q[j]
    BY <1>1
  <1>3. ASSUME NEW x
        PROVE  x \in ToSet(r) <=> x \in ToSet(q) \cup {e}
    <2>1. x \in ToSet(r) <=> \E i \in 1..Len(q) + 1 : r[i] = x
      BY <1>1, Members
    <2>2. x \in ToSet(q) <=> \E i \in 1..Len(q) : q[i] = x
      BY Members
    <2>3. (\E i \in 1..Len(q) + 1 : r[i] = x) <=> (x = e \/ \E i \in 1..Len(q) : q[i] = x)
      BY <1>1, <1>2
    <2> QED BY <2>1, <2>2, <2>3
  <1>4. ToSet(r) = ToSet(q) \cup {e}
    BY <1>3
  <1> QED BY <1>1, <1>2, <1>4 DEF r, Added

LEMMA Fronts ==
    ASSUME NEW S, NEW q \in Seq(S), q # << >>
    PROVE  /\ Len(q) \in Nat \ {0} /\ Last(q) \in S /\ Last(q) = q[Len(q)]
           /\ Front(q) \in Seq(S) /\ Len(Front(q)) = Len(q) - 1
           /\ \A j \in 1..Len(q) - 1 : Front(q)[j] = q[j]
           /\ ToSet(q) = ToSet(Front(q)) \cup {Last(q)}
  <1>1. Len(q) \in Nat \ {0}
    BY EmptySeq
  <1>2. Last(q) \in S /\ Last(q) = q[Len(q)]
    BY <1>1, ElementOfSeq DEF Last
  <1> DEFINE f == Front(q)
  <1>3. f \in Seq(S) /\ Len(f) = Len(q) - 1 /\ \A j \in 1..Len(q) - 1 : f[j] = q[j]
    <2>1. \A i \in 1..Len(q) - 1 : q[i] \in S
      BY <1>1, ElementOfSeq
    <2>2. /\ f \in Seq(S)
          /\ Len(f) = IF 1 <= Len(q) - 1 THEN (Len(q) - 1) - 1 + 1 ELSE 0
          /\ \A i \in 1..(Len(q) - 1) - 1 + 1 : f[i] = q[1 + i - 1]
      BY <1>1, <2>1, SubSeqProperties DEF Front
    <2> HIDE DEF f
    <2>3. Len(f) = Len(q) - 1
      <3>1. \A n \in Nat \ {0} : (IF 1 <= n - 1 THEN (n - 1) - 1 + 1 ELSE 0) = n - 1
        OBVIOUS
      <3> QED BY <1>1, <2>2, <3>1
    <2>4. ASSUME NEW j \in 1..Len(q) - 1
          PROVE  f[j] = q[j]
      <3>1. j \in 1..(Len(q) - 1) - 1 + 1 /\ 1 + j - 1 = j
        BY <1>1
      <3> QED BY <2>2, <3>1
    <2> QED BY <2>2, <2>3, <2>4
  <1> HIDE DEF f
  <1>4. ASSUME NEW x
        PROVE  x \in ToSet(q) <=> x \in ToSet(f) \cup {Last(q)}
    <2>1. x \in ToSet(q) <=> \E i \in 1..Len(q) : q[i] = x
      BY Members
    <2>2. x \in ToSet(f) <=> \E i \in 1..Len(q) - 1 : f[i] = x
      BY <1>3, Members
    <2> QED BY <1>1, <1>2, <1>3, <2>1, <2>2
  <1>5. ToSet(q) = ToSet(f) \cup {Last(q)}
    BY <1>4
  <1> QED BY <1>1, <1>2, <1>3, <1>5 DEF f

LEMMA Inserted ==
    ASSUME NEW S, NEW q \in Seq(S), NEW e \in S, NEW at \in 1..Len(q) + 1
    PROVE  /\ InsertAt(q, at, e) \in Seq(S)
           /\ Len(InsertAt(q, at, e)) = Len(q) + 1
           /\ \A j \in 1..Len(q) + 1 :
                  InsertAt(q, at, e)[j] = IF j < at THEN q[j] ELSE IF j = at THEN e ELSE q[j - 1]
  <1> DEFINE a == SubSeq(q, 1, at - 1)
             b == SubSeq(q, at, Len(q))
             m == <<e>>
  <1>0. Len(q) \in Nat /\ \A i \in 1..Len(q) : q[i] \in S
    BY Members
  <1>1. a \in Seq(S) /\ Len(a) = at - 1 /\ \A j \in 1..at - 1 : a[j] = q[j]
    <2>1. \A i \in 1..at - 1 : q[i] \in S
      BY <1>0
    <2>2. /\ a \in Seq(S)
          /\ Len(a) = IF 1 <= at - 1 THEN (at - 1) - 1 + 1 ELSE 0
          /\ \A i \in 1..(at - 1) - 1 + 1 : a[i] = q[1 + i - 1]
      BY <1>0, <2>1, SubSeqProperties
    <2> HIDE DEF a
    <2>3. Len(a) = at - 1
      BY <1>0, <2>2
    <2>4. ASSUME NEW j \in 1..at - 1
          PROVE  a[j] = q[j]
      <3>1. j \in 1..(at - 1) - 1 + 1 /\ 1 + j - 1 = j
        BY <1>0
      <3> QED BY <2>2, <3>1
    <2> QED BY <2>2, <2>3, <2>4
  <1>2. b \in Seq(S) /\ Len(b) = Len(q) - at + 1 /\ \A j \in 1..Len(q) - at + 1 : b[j] = q[at + j - 1]
    <2>1. \A i \in at..Len(q) : q[i] \in S
      BY <1>0
    <2>2. /\ b \in Seq(S)
          /\ Len(b) = IF at <= Len(q) THEN Len(q) - at + 1 ELSE 0
          /\ \A i \in 1..Len(q) - at + 1 : b[i] = q[at + i - 1]
      BY <1>0, <2>1, SubSeqProperties
    <2> HIDE DEF b
    <2>3. Len(b) = Len(q) - at + 1
      BY <1>0, <2>2
    <2> QED BY <2>2, <2>3
  <1>3. m \in Seq(S) /\ Len(m) = 1 /\ m[1] = e
    OBVIOUS
  <1> HIDE DEF a, b, m
  <1>4. /\ a \o m \in Seq(S) /\ Len(a \o m) = at
        /\ \A j \in 1..at : (a \o m)[j] = IF j <= at - 1 THEN a[j] ELSE m[j - (at - 1)]
    <2>1. /\ a \o m \in Seq(S) /\ Len(a \o m) = Len(a) + Len(m)
          /\ \A i \in 1..Len(a) + Len(m) : (a \o m)[i] = IF i <= Len(a) THEN a[i] ELSE m[i - Len(a)]
      BY <1>1, <1>3, ConcatProperties
    <2>2. Len(a) + Len(m) = at
      BY <1>0, <1>1, <1>3
    <2> QED BY <1>1, <2>1, <2>2
  <1>5. ASSUME NEW j \in 1..at
        PROVE  (a \o m)[j] = IF j < at THEN q[j] ELSE e
    <2>0. j < at \/ j = at
      BY <1>0
    <2>1. CASE j < at
      BY <1>0, <1>1, <1>4, <2>1
    <2>2. CASE j = at
      <3>1. at \in Nat \ {0}
        BY <1>0
      <3>2. j - (at - 1) = 1 /\ ~(j <= at - 1)
        BY <2>2, <3>1
      <3>3. (a \o m)[j] = m[j - (at - 1)]
        BY <1>4, <3>2
      <3>4. (a \o m)[j] = e
        BY <1>3, <3>2, <3>3
      <3>5. ~(j < at)
        BY <2>2, <3>1
      <3> QED BY <3>4, <3>5
    <2> QED BY <2>0, <2>1, <2>2
  <1> DEFINE whole == a \o m
             r == whole \o b
  <1> HIDE DEF whole
  <1>6. /\ r \in Seq(S) /\ Len(r) = Len(whole) + Len(b)
        /\ \A i \in 1..Len(whole) + Len(b) : r[i] = IF i <= Len(whole) THEN whole[i] ELSE b[i - Len(whole)]
    <2>1. whole \in Seq(S)
      BY <1>4 DEF whole
    <2> QED BY <2>1, <1>2, ConcatProperties
  <1> HIDE DEF r
  <1>7. Len(whole) = at /\ Len(whole) + Len(b) = Len(q) + 1
    BY <1>0, <1>2, <1>4 DEF whole
  <1>8. ASSUME NEW j \in 1..Len(q) + 1
        PROVE  r[j] = IF j < at THEN q[j] ELSE IF j = at THEN e ELSE q[j - 1]
    <2>1. CASE j <= at
      <3>1. j \in 1..at /\ r[j] = whole[j]
        BY <1>0, <1>6, <1>7, <2>1
      <3>2. whole[j] = IF j < at THEN q[j] ELSE e
        BY <1>5, <3>1 DEF whole
      <3> QED BY <1>0, <2>1, <3>1, <3>2
    <2>2. CASE ~(j <= at)
      <3>1. r[j] = b[j - at]
        BY <1>6, <1>7, <2>2
      <3>2. j - at \in 1..Len(q) - at + 1 /\ at + (j - at) - 1 = j - 1
        BY <1>0, <2>2
      <3>3. b[j - at] = q[j - 1]
        BY <1>2, <3>2
      <3> QED BY <1>0, <2>2, <3>1, <3>3
    <2> QED BY <2>1, <2>2
  <1>9. InsertAt(q, at, e) = r
    BY DEF InsertAt, a, b, whole, m, r
  <1> QED BY <1>6, <1>7, <1>8, <1>9

LEMMA Removed ==
    ASSUME NEW S, NEW q \in Seq(S), NEW at \in 1..Len(q)
    PROVE  /\ RemoveAt(q, at) \in Seq(S)
           /\ Len(RemoveAt(q, at)) = Len(q) - 1
           /\ \A j \in 1..Len(q) - 1 : RemoveAt(q, at)[j] = IF j < at THEN q[j] ELSE q[j + 1]
  <1> DEFINE a == SubSeq(q, 1, at - 1)
             b == SubSeq(q, at + 1, Len(q))
  <1>0. Len(q) \in Nat /\ \A i \in 1..Len(q) : q[i] \in S
    BY Members
  <1>1. a \in Seq(S) /\ Len(a) = at - 1 /\ \A j \in 1..at - 1 : a[j] = q[j]
    <2>1. \A i \in 1..at - 1 : q[i] \in S
      BY <1>0
    <2>2. /\ a \in Seq(S)
          /\ Len(a) = IF 1 <= at - 1 THEN (at - 1) - 1 + 1 ELSE 0
          /\ \A i \in 1..(at - 1) - 1 + 1 : a[i] = q[1 + i - 1]
      BY <1>0, <2>1, SubSeqProperties
    <2> HIDE DEF a
    <2>3. Len(a) = at - 1
      BY <1>0, <2>2
    <2>4. ASSUME NEW j \in 1..at - 1
          PROVE  a[j] = q[j]
      <3>1. j \in 1..(at - 1) - 1 + 1 /\ 1 + j - 1 = j
        BY <1>0
      <3> QED BY <2>2, <3>1
    <2> QED BY <2>2, <2>3, <2>4
  <1>2. b \in Seq(S) /\ Len(b) = Len(q) - at /\ \A j \in 1..Len(q) - at : b[j] = q[at + j]
    <2>1. \A i \in at + 1..Len(q) : q[i] \in S
      BY <1>0
    <2>2. /\ b \in Seq(S)
          /\ Len(b) = IF at + 1 <= Len(q) THEN Len(q) - (at + 1) + 1 ELSE 0
          /\ \A i \in 1..Len(q) - (at + 1) + 1 : b[i] = q[(at + 1) + i - 1]
      BY <1>0, <2>1, SubSeqProperties
    <2> HIDE DEF b
    <2>3. Len(b) = Len(q) - at
      BY <1>0, <2>2
    <2>4. ASSUME NEW j \in 1..Len(q) - at
          PROVE  b[j] = q[at + j]
      <3>1. j \in 1..Len(q) - (at + 1) + 1 /\ (at + 1) + j - 1 = at + j
        BY <1>0
      <3> QED BY <2>2, <3>1
    <2> QED BY <2>2, <2>3, <2>4
  <1> HIDE DEF a, b
  <1> DEFINE r == a \o b
  <1>3. /\ r \in Seq(S) /\ Len(r) = Len(a) + Len(b)
        /\ \A i \in 1..Len(a) + Len(b) : r[i] = IF i <= Len(a) THEN a[i] ELSE b[i - Len(a)]
    BY <1>1, <1>2, ConcatProperties
  <1> HIDE DEF r
  <1>4. Len(a) + Len(b) = Len(q) - 1
    BY <1>0, <1>1, <1>2
  <1>5. ASSUME NEW j \in 1..Len(q) - 1
        PROVE  r[j] = IF j < at THEN q[j] ELSE q[j + 1]
    <2>1. CASE j < at
      <3>1. j \in 1..at - 1 /\ j <= at - 1
        BY <1>0, <2>1
      <3>2. r[j] = a[j]
        BY <1>1, <1>3, <1>4, <3>1
      <3> QED BY <1>1, <2>1, <3>1, <3>2
    <2>2. CASE ~(j < at)
      <3>1. /\ ~(j <= at - 1) /\ j - (at - 1) \in 1..Len(q) - at
            /\ at + (j - (at - 1)) = j + 1
        BY <1>0, <2>2
      <3>2. r[j] = b[j - (at - 1)]
        BY <1>1, <1>3, <1>4, <3>1
      <3>3. r[j] = q[j + 1]
        BY <1>2, <3>1, <3>2
      <3> QED BY <2>2, <3>3
    <2> QED BY <2>1, <2>2
  <1>6. RemoveAt(q, at) = r
    BY DEF RemoveAt, a, b, r
  <1> QED BY <1>3, <1>4, <1>5, <1>6

LEMMA KeyedInsert ==
    ASSUME NEW S, NEW q \in Seq(S), NEW e \in S, NEW at \in 1..Len(q) + 1,
           Keyed(q), \A a \in ToSet(q) : a.table # e.table
    PROVE  Keyed(InsertAt(q, at, e)) /\ ToSet(InsertAt(q, at, e)) = ToSet(q) \cup {e}
  <1> DEFINE r == InsertAt(q, at, e)
  <1>1. /\ r \in Seq(S) /\ Len(r) = Len(q) + 1
        /\ \A j \in 1..Len(q) + 1 : r[j] = IF j < at THEN q[j] ELSE IF j = at THEN e ELSE q[j - 1]
    BY Inserted
  <1> HIDE DEF r
  <1>2. Len(q) \in Nat /\ DOMAIN q = 1..Len(q) /\ DOMAIN r = 1..Len(q) + 1
    BY <1>1, LenProperties
  <1> DEFINE from(j) == IF j < at THEN j ELSE j - 1
  <1>3. ASSUME NEW j \in 1..Len(q) + 1, j # at
        PROVE  from(j) \in 1..Len(q) /\ r[j] = q[from(j)] /\ r[j] \in ToSet(q)
    <2>1. from(j) \in 1..Len(q)
      BY <1>2, <1>3
    <2>2. r[j] = q[from(j)]
      BY <1>1, <1>2, <1>3
    <2>3. q[from(j)] \in ToSet(q)
      BY <2>1, Members
    <2> QED BY <2>1, <2>2, <2>3
  <1>4. at \in 1..Len(q) + 1 /\ r[at] = e
    BY <1>1, <1>2
  <1>5. ASSUME NEW i \in 1..Len(q) + 1, NEW j \in 1..Len(q) + 1, r[i].table = r[j].table
        PROVE  i = j
    <2>1. CASE i = at /\ j # at
      BY <1>3, <1>4, <1>5, <2>1
    <2>2. CASE i # at /\ j = at
      BY <1>3, <1>4, <1>5, <2>2
    <2>3. CASE i # at /\ j # at
      <3>1. from(i) \in 1..Len(q) /\ from(j) \in 1..Len(q) /\ q[from(i)].table = q[from(j)].table
        BY <1>3, <1>5, <2>3
      <3>2. from(i) = from(j)
        BY <1>2, <3>1 DEF Keyed
      <3> QED BY <1>2, <2>3, <3>2
    <2> QED BY <2>1, <2>2, <2>3
  <1>6. Keyed(r)
    BY <1>2, <1>5 DEF Keyed
  <1>7. ASSUME NEW x \in ToSet(r)
        PROVE  x \in ToSet(q) \cup {e}
    <2>1. PICK j \in 1..Len(q) + 1 : r[j] = x
      BY <1>1, Members
    <2> QED BY <1>3, <1>4, <2>1
  <1>8. ASSUME NEW x \in ToSet(q) \cup {e}
        PROVE  x \in ToSet(r)
    <2>1. CASE x = e
      BY <1>1, <1>4, <2>1, Members
    <2>2. CASE x \in ToSet(q)
      <3>1. PICK i \in 1..Len(q) : q[i] = x
        BY <2>2, Members
      <3> DEFINE j == IF i < at THEN i ELSE i + 1
      <3>2. j \in 1..Len(q) + 1 /\ j # at /\ from(j) = i
        BY <1>2
      <3>3. r[j] = x
        BY <1>3, <3>1, <3>2
      <3> HIDE DEF j
      <3>4. \E k \in 1..Len(r) : r[k] = x
        BY <1>1, <3>2, <3>3
      <3> QED BY <1>1, <3>4, Members
    <2> QED BY <2>1, <2>2
  <1> QED BY <1>6, <1>7, <1>8 DEF r

LEMMA KeyedRemove ==
    ASSUME NEW S, NEW q \in Seq(S), NEW at \in 1..Len(q), Keyed(q)
    PROVE  Keyed(RemoveAt(q, at)) /\ ToSet(RemoveAt(q, at)) = ToSet(q) \ {q[at]}
  <1> DEFINE r == RemoveAt(q, at)
  <1>1. /\ r \in Seq(S) /\ Len(r) = Len(q) - 1
        /\ \A j \in 1..Len(q) - 1 : r[j] = IF j < at THEN q[j] ELSE q[j + 1]
    BY Removed
  <1> HIDE DEF r
  <1>2. Len(q) \in Nat /\ DOMAIN q = 1..Len(q) /\ DOMAIN r = 1..Len(q) - 1
    BY <1>1, LenProperties
  <1> DEFINE from(j) == IF j < at THEN j ELSE j + 1
  <1>3. ASSUME NEW j \in 1..Len(q) - 1
        PROVE  from(j) \in 1..Len(q) /\ from(j) # at /\ r[j] = q[from(j)]
    <2>1. from(j) \in 1..Len(q) /\ from(j) # at
      BY <1>2
    <2>2. r[j] = q[from(j)]
      BY <1>1, <1>2
    <2> QED BY <2>1, <2>2
  <1>4. \A i, j \in 1..Len(q) : q[i].table = q[j].table => i = j
    BY <1>2 DEF Keyed
  <1>5. ASSUME NEW i \in 1..Len(q) - 1, NEW j \in 1..Len(q) - 1, r[i].table = r[j].table
        PROVE  i = j
    <2>1. from(i) = from(j)
      <3>1. from(i) \in 1..Len(q) /\ from(j) \in 1..Len(q) /\ q[from(i)].table = q[from(j)].table
        BY <1>3, <1>5
      <3> HIDE DEF from
      <3> QED BY <1>4, <3>1
    <2> QED BY <1>2, <2>1
  <1>6. Keyed(r)
    BY <1>2, <1>5 DEF Keyed
  <1>7. ASSUME NEW x \in ToSet(r)
        PROVE  x \in ToSet(q) \ {q[at]}
    <2>1. PICK j \in 1..Len(q) - 1 : r[j] = x
      BY <1>1, Members
    <2>2. from(j) \in 1..Len(q) /\ from(j) # at /\ x = q[from(j)]
      BY <1>3, <2>1
    <2> HIDE DEF from
    <2>3. x \in ToSet(q)
      BY <2>2, Members
    <2>4. x # q[at]
      BY <1>4, <2>2
    <2> QED BY <2>3, <2>4
  <1>8. ASSUME NEW x \in ToSet(q) \ {q[at]}
        PROVE  x \in ToSet(r)
    <2>1. PICK i \in 1..Len(q) : q[i] = x
      BY <1>8, Members
    <2> DEFINE j == IF i < at THEN i ELSE i - 1
    <2>2. i # at
      BY <1>8, <2>1
    <2>3. j \in 1..Len(q) - 1 /\ from(j) = i
      BY <1>2, <2>2
    <2>4. r[j] = x
      BY <1>3, <2>1, <2>3
    <2> HIDE DEF j
    <2>5. \E k \in 1..Len(r) : r[k] = x
      BY <1>1, <2>3, <2>4
    <2> QED BY <1>1, <2>5, Members
  <1> QED BY <1>6, <1>7, <1>8 DEF r

-----------------------------------------------------------------------------
(* Numbers: the least of a set, the greatest of a finite one, induction    *)

LEMMA Least ==
    ASSUME NEW S \in SUBSET Nat, S # {}
    PROVE  Min(S) \in S /\ \A y \in S : Min(S) <= y
  <1>1. \E x \in S : \A y \in S : ~(<<y, x>> \in OpToRel(<, Nat))
    BY NatLessThanWellFounded, WFMin
  <1>2. PICK x \in S : \A y \in S : ~(<<y, x>> \in OpToRel(<, Nat))
    BY <1>1
  <1>3. ASSUME NEW y \in S
        PROVE  x <= y
    <2>1. ~(<<y, x>> \in OpToRel(<, Nat))
      BY <1>2, <1>3
    <2>2. ~(y < x)
      BY <2>1, <1>2 DEF OpToRel
    <2> QED BY <2>2
  <1>4. \E z \in S : \A y \in S : z <= y
    BY <1>2, <1>3
  <1> QED BY <1>4 DEF Min

LEMMA Induction ==
    ASSUME NEW S, 0 \in S, \A n \in Nat : n \in S => n + 1 \in S
    PROVE  Nat \subseteq S
  <1> SUFFICES ASSUME Nat \ S # {}
               PROVE  FALSE
    OBVIOUS
  <1>1. PICK x \in Nat \ S : \A y \in Nat \ S : x <= y
    BY Least
  <1>2. x # 0 /\ x - 1 \in Nat /\ x - 1 + 1 = x
    BY <1>1
  <1>3. x - 1 \in S
    <2> SUFFICES ASSUME x - 1 \notin S PROVE FALSE
      OBVIOUS
    <2> QED BY <1>1, <1>2
  <1> QED BY <1>1, <1>2, <1>3

-----------------------------------------------------------------------------
(* The walk of CreationOrder: it exists, one step after the other          *)

Start == [entered |-> << >>, placed |-> << >>]
Rule(rows, n, f) == [k \in 0..n |-> IF k = 0 THEN Start ELSE Visit(rows, f[k - 1])]

LEMMA WalkExists ==
    ASSUME NEW rows, NEW n \in Nat
    PROVE  \E f : f = Rule(rows, n, f)
  <1> DEFINE S == {m \in Nat : \E f : f = Rule(rows, m, f)}
  <1>1. 0 \in S
    <2> DEFINE f == [k \in 0..0 |-> Start]
    <2>1. f = Rule(rows, 0, f)
      BY DEF Rule
    <2> QED BY <2>1
  <1>2. ASSUME NEW m \in Nat, m \in S
        PROVE  m + 1 \in S
    <2>1. PICK f : f = Rule(rows, m, f)
      BY <1>2
    <2> DEFINE h == [k \in 0..m + 1 |-> IF k = m + 1 THEN Visit(rows, f[m]) ELSE f[k]]
    <2>2. \A k \in 0..m : f[k] = IF k = 0 THEN Start ELSE Visit(rows, f[k - 1])
      BY <2>1 DEF Rule
    <2>3. ASSUME NEW k \in 0..m + 1
          PROVE  h[k] = IF k = 0 THEN Start ELSE Visit(rows, h[k - 1])
      <3>1. CASE k = m + 1
        <4>1. h[k] = Visit(rows, f[m]) /\ h[k - 1] = f[m] /\ k # 0
          BY <3>1
        <4> QED BY <4>1
      <3>2. CASE k # m + 1 /\ k # 0
        <4>1. h[k] = f[k] /\ h[k - 1] = f[k - 1] /\ k \in 0..m
          BY <3>2
        <4> HIDE DEF h
        <4> QED BY <2>2, <3>2, <4>1
      <3>3. CASE k = 0
        <4>1. h[k] = f[0] /\ 0 \in 0..m
          BY <3>3
        <4> HIDE DEF h
        <4> QED BY <2>2, <3>3, <4>1
      <3> QED BY <3>1, <3>2, <3>3
    <2>4. h = [k \in 0..m + 1 |-> h[k]]
      OBVIOUS
    <2> HIDE DEF h
    <2>5. h = Rule(rows, m + 1, h)
      BY <2>3, <2>4 DEF Rule
    <2> QED BY <2>5
  <1>3. Nat \subseteq S
    <2> HIDE DEF S
    <2> QED BY <1>1, <1>2, Induction
  <1> QED BY <1>3

LEMMA Walked ==
    ASSUME NEW rows, Len(rows) \in Nat
    PROVE  \E walk : /\ CreationOrder(rows) = walk[2 * Len(rows)].placed
                     /\ walk[0] = Start
                     /\ \A k \in 1..2 * Len(rows) : walk[k] = Visit(rows, walk[k - 1])
  <1> DEFINE n == 2 * Len(rows)
             Body(f) == [k \in 0..n |->
                            IF k = 0 THEN [entered |-> << >>, placed |-> << >>] ELSE Visit(rows, f[k - 1])]
             walk == CHOOSE f : f = Body(f)
  <1>1. n \in Nat
    OBVIOUS
  <1>2. PICK f : f = Rule(rows, n, f)
    <2> HIDE DEF n
    <2> QED BY <1>1, WalkExists
  <1>3. f = Body(f)
    BY <1>2 DEF Rule, Start
  <1>4. walk = Body(walk)
    <2> HIDE DEF Body
    <2> QED BY <1>3
  <1>5. CreationOrder(rows) = walk[2 * Len(rows)].placed
    BY DEF CreationOrder
  <1> HIDE DEF walk
  <1>6. walk[0] = Start
    BY <1>1, <1>4 DEF Start
  <1>7. ASSUME NEW k \in 1..n
        PROVE  walk[k] = Visit(rows, walk[k - 1])
    <2>1. k \in 0..n /\ k # 0
      BY <1>1
    <2> HIDE DEF n
    <2> QED BY <1>4, <2>1
  <1> QED BY <1>5, <1>6, <1>7

-----------------------------------------------------------------------------
(* What holds of the walk after n steps                                    *)

\* The rows form a store: what row i waits for has a smaller identity.
Orderly(rows) ==
    /\ rows \in Seq(RowType)
    /\ \A i \in 1..Len(rows) : \A j \in Parents(rows, i) : rows[j].id < rows[i].id

Once(q) == \A i, j \in 1..Len(q) : q[i] = q[j] => i = j

\* A row is placed after its parents.
ParentsFirst(rows, q) ==
    \A k \in 1..Len(q) : \A j \in Parents(rows, q[k]) : \E m \in 1..k - 1 : q[m] = j

\* The rows the walk is inside of: each one is a reference of the one before.
Descending(rows, q) == \A a, b \in 1..Len(q) : a < b => rows[q[b]].id < rows[q[a]].id

Marked(w) == ToSet(w.entered) \cup ToSet(w.placed)
Walk(N) == [entered : Seq(1..N), placed : Seq(1..N)]

After(rows, n, w) ==
    /\ w \in Walk(Len(rows))
    /\ Once(w.placed)
    /\ ToSet(w.entered) \cap ToSet(w.placed) = {}
    /\ Cardinality(Marked(w)) = Len(w.entered) + Len(w.placed)
    /\ n = 2 * Len(w.placed) + Len(w.entered)
    /\ ParentsFirst(rows, w.placed)
    /\ Descending(rows, w.entered)

LEMMA RowTypes ==
    ASSUME NEW rows, Orderly(rows)
    PROVE  /\ Len(rows) \in Nat /\ DOMAIN rows = 1..Len(rows)
           /\ \A i \in 1..Len(rows) : rows[i] \in RowType /\ rows[i].id \in Nat
           /\ \A i : Parents(rows, i) \subseteq 1..Len(rows)
  <1>1. Len(rows) \in Nat /\ DOMAIN rows = 1..Len(rows)
    BY LenProperties DEF Orderly
  <1>2. \A i \in 1..Len(rows) : rows[i] \in RowType
    BY ElementOfSeq DEF Orderly
  <1>3. \A i \in 1..Len(rows) : rows[i].id \in Nat
    BY <1>2 DEF RowType
  <1> QED BY <1>1, <1>2, <1>3 DEF Parents

LEMMA WalkTypes ==
    ASSUME NEW N \in Nat, NEW w \in Walk(N)
    PROVE  /\ w.entered \in Seq(1..N) /\ w.placed \in Seq(1..N)
           /\ Len(w.entered) \in Nat /\ Len(w.placed) \in Nat
           /\ \A i \in 1..Len(w.entered) : w.entered[i] \in 1..N
           /\ \A i \in 1..Len(w.placed) : w.placed[i] \in 1..N
           /\ Marked(w) \subseteq 1..N
           /\ IsFiniteSet(Marked(w)) /\ Cardinality(Marked(w)) \in Nat
           /\ Cardinality(Marked(w)) <= N
           /\ Cardinality(Marked(w)) = N => Marked(w) = 1..N
  <1>1. w.entered \in Seq(1..N) /\ w.placed \in Seq(1..N)
    BY DEF Walk
  <1>2. /\ Len(w.entered) \in Nat /\ ToSet(w.entered) \subseteq 1..N
        /\ \A i \in 1..Len(w.entered) : w.entered[i] \in 1..N
    BY <1>1, Members
  <1>3. /\ Len(w.placed) \in Nat /\ ToSet(w.placed) \subseteq 1..N
        /\ \A i \in 1..Len(w.placed) : w.placed[i] \in 1..N
    BY <1>1, Members
  <1>4. Marked(w) \subseteq 1..N
    BY <1>2, <1>3 DEF Marked
  <1>5. IsFiniteSet(1..N) /\ Cardinality(1..N) = N
    <2>1. IsFiniteSet(1..N) /\ Cardinality(1..N) = IF 1 > N THEN 0 ELSE N - 1 + 1
      BY FS_Interval
    <2> QED BY <2>1
  <1>6. /\ IsFiniteSet(Marked(w)) /\ Cardinality(Marked(w)) <= Cardinality(1..N)
        /\ Cardinality(1..N) = Cardinality(Marked(w)) => 1..N = Marked(w)
    BY <1>4, <1>5, FS_Subset
  <1>7. Cardinality(Marked(w)) \in Nat
    BY <1>6, FS_CardinalityType
  <1> QED BY <1>1, <1>2, <1>3, <1>4, <1>5, <1>6, <1>7

\* Where a row can be entered.
Ahead(rows, w) ==
    (IF w.entered = << >> THEN DOMAIN rows ELSE Parents(rows, Last(w.entered))) \ Marked(w)

LEMMA VisitCases ==
    ASSUME NEW rows, NEW w, w \in Walk(Len(rows))
    PROVE  /\ Ahead(rows, w) # {} =>
                  Visit(rows, w) = [entered |-> Append(w.entered, Min(Ahead(rows, w))), placed |-> w.placed]
           /\ Ahead(rows, w) = {} =>
                  Visit(rows, w) = [entered |-> Front(w.entered),
                                    placed |-> Append(w.placed, Last(w.entered))]
  <1>1. Visit(rows, w) = IF Ahead(rows, w) # {}
                         THEN [w EXCEPT !.entered = Append(@, Min(Ahead(rows, w)))]
                         ELSE [entered |-> Front(w.entered), placed |-> Append(w.placed, Last(w.entered))]
    BY DEF Visit, Ahead, Marked
  <1>2. \A x : [w EXCEPT !.entered = x] = [entered |-> x, placed |-> w.placed]
    BY DEF Walk
  <1> QED BY <1>1, <1>2

LEMMA Enters ==
    ASSUME NEW rows, Orderly(rows), NEW n \in Nat, NEW w, After(rows, n, w), Ahead(rows, w) # {}
    PROVE  After(rows, n + 1, Visit(rows, w))
  <1> DEFINE N == Len(rows)
             row == Min(Ahead(rows, w))
             v == Visit(rows, w)
             e == Append(w.entered, row)
  <1>1. N \in Nat /\ w \in Walk(N) /\ DOMAIN rows = 1..N /\ \A i \in 1..N : rows[i].id \in Nat
    BY RowTypes DEF After
  <1>2. row \in 1..N /\ row \in Ahead(rows, w) /\ row \notin Marked(w)
    <2>1. Ahead(rows, w) \subseteq 1..N
      BY <1>1, RowTypes DEF Ahead
    <2>2. row \in Ahead(rows, w)
      BY <2>1, Least
    <2> QED BY <2>1, <2>2 DEF Ahead
  <1>3. v = [entered |-> e, placed |-> w.placed]
    BY <1>1, VisitCases
  <1> HIDE DEF row, v
  <1>4. /\ w.entered \in Seq(1..N) /\ w.placed \in Seq(1..N)
        /\ Len(w.entered) \in Nat /\ Len(w.placed) \in Nat
        /\ \A i \in 1..Len(w.entered) : w.entered[i] \in 1..N
        /\ IsFiniteSet(Marked(w))
    BY <1>1, WalkTypes
  <1>5. /\ e \in Seq(1..N) /\ Len(e) = Len(w.entered) + 1
        /\ \A j \in 1..Len(w.entered) + 1 : e[j] = IF j = Len(w.entered) + 1 THEN row ELSE w.entered[j]
        /\ ToSet(e) = ToSet(w.entered) \cup {row}
    <2>1. w.entered \in Seq(1..N) /\ row \in 1..N
      BY <1>2, <1>4
    <2>2. Added(1..N, w.entered, row, e)
      BY <2>1, Appended
    <2> HIDE DEF N, e
    <2> QED BY <2>2 DEF Added
  <1> HIDE DEF e
  <1>6. v.entered = e /\ v.placed = w.placed /\ v \in Walk(N)
    BY <1>3, <1>4, <1>5 DEF Walk
  <1>7. Marked(v) = Marked(w) \cup {row}
    BY <1>5, <1>6 DEF Marked
  <1>8. Cardinality(Marked(v)) = Cardinality(Marked(w)) + 1
    BY <1>2, <1>4, <1>7, FS_AddElement
  <1>9. Cardinality(Marked(v)) = Len(v.entered) + Len(v.placed)
    <2>1. Cardinality(Marked(w)) = Len(w.entered) + Len(w.placed)
      BY DEF After
    <2>2. Len(v.entered) = Len(w.entered) + 1 /\ Len(v.placed) = Len(w.placed)
      BY <1>5, <1>6
    <2>3. \A a, b \in Nat : (a + b) + 1 = (a + 1) + b
      OBVIOUS
    <2> QED BY <1>4, <1>8, <2>1, <2>2, <2>3
  <1>10. n + 1 = 2 * Len(v.placed) + Len(v.entered)
    <2>1. n = 2 * Len(w.placed) + Len(w.entered)
      BY DEF After
    <2>2. Len(v.entered) = Len(w.entered) + 1 /\ Len(v.placed) = Len(w.placed)
      BY <1>5, <1>6
    <2>3. \A a, b, c \in Nat : c = 2 * b + a => c + 1 = 2 * b + (a + 1)
      OBVIOUS
    <2>4. Len(w.entered) \in Nat /\ Len(w.placed) \in Nat /\ n \in Nat
      BY <1>4
    <2>5. n + 1 = 2 * Len(w.placed) + (Len(w.entered) + 1)
      BY ONLY <2>1, <2>3, <2>4
    <2> QED BY ONLY <2>2, <2>5
  <1>11. ToSet(v.entered) \cap ToSet(v.placed) = {}
    <2>1. ToSet(w.entered) \cap ToSet(w.placed) = {} /\ row \notin ToSet(w.placed)
      BY <1>2 DEF After, Marked
    <2> QED BY <1>5, <1>6, <2>1
  <1>12. Descending(rows, e)
    <2> SUFFICES ASSUME NEW a \in 1..Len(e), NEW b \in 1..Len(e), a < b
                 PROVE  rows[e[b]].id < rows[e[a]].id
      BY DEF Descending
    <2> DEFINE l == Len(w.entered)
    <2>1. l \in Nat /\ a \in 1..l /\ b \in 1..l + 1 /\ e[a] = w.entered[a]
      <3>1. l \in Nat /\ a \in 1..l + 1 /\ b \in 1..l + 1
        BY <1>4, <1>5
      <3>2. a \in 1..l /\ a \in 1..l + 1 /\ a # l + 1
        <4> HIDE DEF l
        <4> QED BY ONLY <3>1, a < b
      <3>3. e[a] = w.entered[a]
        BY <1>5, <3>2
      <3> QED BY <3>1, <3>2, <3>3
    <2>2. Descending(rows, w.entered)
      BY DEF After
    <2>3. CASE b # l + 1
      <3>1. b \in 1..l /\ e[b] = w.entered[b]
        BY <1>5, <2>1, <2>3
      <3> QED BY <2>1, <2>2, <3>1 DEF Descending
    <2>4. CASE b = l + 1
      <3>1. e[b] = row
        BY <1>5, <2>1, <2>4
      <3>2. w.entered # << >>
        BY <2>1, EmptySeq
      <3>3. row \in Parents(rows, Last(w.entered)) /\ Last(w.entered) = w.entered[l]
        BY <1>2, <3>2 DEF Ahead, Last
      <3>4. w.entered[l] \in 1..N /\ w.entered[a] \in 1..N
        BY <1>4, <2>1
      <3>5. rows[row].id < rows[w.entered[l]].id
        BY <3>3, <3>4 DEF Orderly
      <3>6. a = l \/ rows[w.entered[l]].id < rows[w.entered[a]].id
        BY <2>1, <2>2 DEF Descending
      <3>7. rows[row].id \in Nat /\ rows[w.entered[l]].id \in Nat /\ rows[w.entered[a]].id \in Nat
        BY <1>1, <1>2, <3>4
      <3> HIDE DEF l
      <3> QED BY <2>1, <3>1, <3>5, <3>6, <3>7
    <2> QED BY <2>3, <2>4
  <1>13. Once(v.placed) /\ ParentsFirst(rows, v.placed)
    BY <1>6 DEF After
  <1>14. After(rows, n + 1, v)
    BY <1>6, <1>9, <1>10, <1>11, <1>12, <1>13 DEF After
  <1> QED BY <1>14 DEF v

LEMMA Leaves ==
    ASSUME NEW rows, Orderly(rows), NEW n \in Nat, NEW w, After(rows, n, w), Ahead(rows, w) = {},
           n < 2 * Len(rows)
    PROVE  After(rows, n + 1, Visit(rows, w))
  <1> DEFINE N == Len(rows)
             row == Last(w.entered)
             f == Front(w.entered)
             v == Visit(rows, w)
             order == Append(w.placed, row)
  <1>1. N \in Nat /\ w \in Walk(N) /\ DOMAIN rows = 1..N /\ \A i \in 1..N : rows[i].id \in Nat
    BY RowTypes DEF After
  <1>2. /\ w.entered \in Seq(1..N) /\ w.placed \in Seq(1..N)
        /\ Len(w.entered) \in Nat /\ Len(w.placed) \in Nat
        /\ \A i \in 1..Len(w.entered) : w.entered[i] \in 1..N
        /\ \A i \in 1..Len(w.placed) : w.placed[i] \in 1..N
        /\ IsFiniteSet(Marked(w)) /\ Marked(w) \subseteq 1..N
    BY <1>1, WalkTypes
  <1>3. /\ Cardinality(Marked(w)) = Len(w.entered) + Len(w.placed)
        /\ n = 2 * Len(w.placed) + Len(w.entered)
        /\ ToSet(w.entered) \cap ToSet(w.placed) = {}
        /\ Once(w.placed) /\ ParentsFirst(rows, w.placed) /\ Descending(rows, w.entered)
    BY DEF After
  <1>4. w.entered # << >>
    <2> SUFFICES ASSUME w.entered = << >> PROVE FALSE
      OBVIOUS
    <2>1. 1..N \subseteq Marked(w)
      BY <1>1 DEF Ahead
    <2>2. Marked(w) = 1..N /\ Len(w.entered) = 0
      BY <1>2, <2>1, EmptySeq
    <2>3. Cardinality(1..N) = IF 1 > N THEN 0 ELSE N - 1 + 1
      BY <1>1, FS_Interval
    <2>4. Len(w.placed) = N
      BY <1>1, <1>2, <1>3, <2>2, <2>3
    <2> QED BY <1>1, <1>2, <1>3, <2>2, <2>4
  <1>5. v = [entered |-> f, placed |-> order]
    BY <1>1, VisitCases
  <1> HIDE DEF v
  <1>6. /\ Len(w.entered) \in Nat \ {0} /\ row \in 1..N /\ row = w.entered[Len(w.entered)]
        /\ f \in Seq(1..N) /\ Len(f) = Len(w.entered) - 1
        /\ \A j \in 1..Len(w.entered) - 1 : f[j] = w.entered[j]
        /\ ToSet(w.entered) = ToSet(f) \cup {row}
    BY <1>2, <1>4, Fronts
  <1>7. /\ order \in Seq(1..N) /\ Len(order) = Len(w.placed) + 1
        /\ \A j \in 1..Len(w.placed) + 1 : order[j] = IF j = Len(w.placed) + 1 THEN row ELSE w.placed[j]
        /\ ToSet(order) = ToSet(w.placed) \cup {row}
    <2>1. w.placed \in Seq(1..N) /\ row \in 1..N
      BY <1>2, <1>6
    <2> HIDE DEF row
    <2>2. Added(1..N, w.placed, row, order)
      BY <2>1, Appended
    <2> HIDE DEF N, order
    <2> QED BY <2>2 DEF Added
  <1>8. Parents(rows, row) \subseteq Marked(w)
    BY <1>4 DEF Ahead
  <1>9. \A a \in 1..Len(w.entered) - 1 : rows[row].id < rows[w.entered[a]].id
    <2> SUFFICES ASSUME NEW a \in 1..Len(w.entered) - 1
                 PROVE  rows[row].id < rows[w.entered[a]].id
      OBVIOUS
    <2>1. a \in 1..Len(w.entered) /\ Len(w.entered) \in 1..Len(w.entered) /\ a < Len(w.entered)
      BY <1>6
    <2> QED BY <1>3, <1>6, <2>1 DEF Descending
  <1> HIDE DEF row, f, order
  <1>10. row \notin ToSet(f)
    <2> SUFFICES ASSUME row \in ToSet(f) PROVE FALSE
      OBVIOUS
    <2>1. PICK a \in 1..Len(w.entered) - 1 : f[a] = row
      BY <1>6, Members
    <2>2. w.entered[a] = row
      BY <1>6, <2>1
    <2>3. rows[row].id < rows[row].id /\ rows[row].id \in Nat
      BY <1>1, <1>6, <1>9, <2>1, <2>2
    <2> QED BY <2>3
  <1>11. row \notin ToSet(w.placed)
    BY <1>3, <1>6
  <1>12. v.entered = f /\ v.placed = order /\ v \in Walk(N)
    BY <1>5, <1>6, <1>7 DEF Walk
  <1>13. Marked(v) = Marked(w)
    BY <1>6, <1>7, <1>12 DEF Marked
  <1>14. Cardinality(Marked(v)) = Len(v.entered) + Len(v.placed)
    <2>1. Len(v.entered) = Len(w.entered) - 1 /\ Len(v.placed) = Len(w.placed) + 1
      BY <1>6, <1>7, <1>12
    <2>2. Cardinality(Marked(v)) = Len(w.entered) + Len(w.placed)
      BY <1>3, <1>13
    <2>3. \A a, b \in Nat : a + b = (a - 1) + (b + 1)
      OBVIOUS
    <2> QED BY <1>2, <2>1, <2>2, <2>3
  <1>15. n + 1 = 2 * Len(v.placed) + Len(v.entered)
    <2>1. Len(v.entered) = Len(w.entered) - 1 /\ Len(v.placed) = Len(w.placed) + 1
      BY <1>6, <1>7, <1>12
    <2>2. n = 2 * Len(w.placed) + Len(w.entered)
      BY <1>3
    <2>3. \A a, b, c \in Nat : c = 2 * b + a => c + 1 = 2 * (b + 1) + (a - 1)
      OBVIOUS
    <2>4. Len(w.entered) \in Nat /\ Len(w.placed) \in Nat /\ n \in Nat
      BY <1>2
    <2>5. n + 1 = 2 * (Len(w.placed) + 1) + (Len(w.entered) - 1)
      BY ONLY <2>2, <2>3, <2>4
    <2> QED BY ONLY <2>1, <2>5
  <1>16. ToSet(v.entered) \cap ToSet(v.placed) = {}
    BY <1>3, <1>6, <1>7, <1>10, <1>12
  <1>17. Descending(rows, f)
    <2> SUFFICES ASSUME NEW a \in 1..Len(f), NEW b \in 1..Len(f), a < b
                 PROVE  rows[f[b]].id < rows[f[a]].id
      BY DEF Descending
    <2>1. /\ a \in 1..Len(w.entered) /\ b \in 1..Len(w.entered)
          /\ f[a] = w.entered[a] /\ f[b] = w.entered[b]
      <3> DEFINE l == Len(w.entered)
      <3>1. l \in Nat \ {0} /\ a \in 1..l - 1 /\ b \in 1..l - 1
        BY <1>6
      <3>2. f[a] = w.entered[a] /\ f[b] = w.entered[b]
        BY <1>6, <3>1
      <3>3. a \in 1..l /\ b \in 1..l
        <4> HIDE DEF l
        <4> QED BY ONLY <3>1
      <3> QED BY <3>2, <3>3
    <2> QED BY <1>3, <2>1 DEF Descending
  <1>18. Once(order)
    <2> SUFFICES ASSUME NEW i \in 1..Len(order), NEW j \in 1..Len(order), order[i] = order[j]
                 PROVE  i = j
      BY DEF Once
    <2> DEFINE l == Len(w.placed)
    <2>1. l \in Nat /\ i \in 1..l + 1 /\ j \in 1..l + 1
      BY <1>2, <1>7
    <2>2. \A k \in 1..l + 1 : k # l + 1 => k \in 1..l /\ order[k] = w.placed[k] /\ order[k] # row
      <3> SUFFICES ASSUME NEW k \in 1..l + 1, k # l + 1
                   PROVE  k \in 1..l /\ order[k] = w.placed[k] /\ order[k] # row
        OBVIOUS
      <3>1. k \in 1..l /\ order[k] = w.placed[k]
        <4>1. order[k] = w.placed[k]
          BY <1>7
        <4>2. k \in 1..l
          <5>1. l \in Nat
            BY <2>1
          <5> HIDE DEF l
          <5> QED BY ONLY k \in 1..l + 1, k # l + 1, <5>1
        <4> QED BY <4>1, <4>2
      <3>2. w.placed[k] \in ToSet(w.placed)
        BY <1>2, <3>1, Members
      <3> QED BY <1>11, <3>1, <3>2
    <2>3. order[l + 1] = row
      <3>1. l + 1 \in 1..l + 1
        <4>1. l \in Nat
          BY <2>1
        <4> HIDE DEF l
        <4> QED BY ONLY <4>1
      <3> QED BY <1>7, <3>1
    <2> HIDE DEF l
    <2>4. CASE i = l + 1
      BY <2>1, <2>2, <2>3, <2>4
    <2>5. CASE i # l + 1 /\ j = l + 1
      BY <2>1, <2>2, <2>3, <2>5
    <2>6. CASE i # l + 1 /\ j # l + 1
      BY <1>3, <2>1, <2>2, <2>6 DEF Once, l
    <2> QED BY <2>4, <2>5, <2>6
  <1>19. ParentsFirst(rows, order)
    <2> SUFFICES ASSUME NEW k \in 1..Len(order), NEW j \in Parents(rows, order[k])
                 PROVE  \E m \in 1..k - 1 : order[m] = j
      BY DEF ParentsFirst
    <2> DEFINE l == Len(w.placed)
    <2>1. l \in Nat /\ k \in 1..l + 1
      BY <1>2, <1>7
    <2>2. CASE k # l + 1
      <3>1. k \in 1..l /\ order[k] = w.placed[k]
        BY <1>7, <2>1, <2>2
      <3>2. PICK m \in 1..k - 1 : w.placed[m] = j
        BY <1>3, <3>1 DEF ParentsFirst
      <3>3. m \in 1..l + 1 /\ m # l + 1
        BY ONLY <2>1, <3>1, <3>2
      <3>4. order[m] = w.placed[m]
        BY <1>7, <3>3
      <3> QED BY <3>2, <3>4
    <2>3. CASE k = l + 1
      <3>1. order[k] = row
        BY <1>7, <2>1, <2>3
      <3>2. j \in Marked(w) /\ j \in Parents(rows, row)
        BY <1>8, <3>1
      <3>3. rows[j].id < rows[row].id /\ j \in 1..N
        BY <1>2, <1>6, <3>2 DEF Orderly
      <3>4. j \notin ToSet(w.entered)
        <4> SUFFICES ASSUME j \in ToSet(w.entered) PROVE FALSE
          OBVIOUS
        <4>1. rows[j].id \in Nat /\ rows[row].id \in Nat
          BY <1>1, <1>6, <3>3
        <4>2. j # row
          BY <3>3, <4>1
        <4>3. j \in ToSet(f)
          BY <1>6, <4>2
        <4>4. PICK a \in 1..Len(w.entered) - 1 : f[a] = j
          BY <1>6, <4>3, Members
        <4>5. rows[row].id < rows[j].id
          BY <1>6, <1>9, <4>4
        <4> QED BY <3>3, <4>1, <4>5
      <3>5. j \in ToSet(w.placed)
        BY <3>2, <3>4 DEF Marked
      <3>6. PICK m \in 1..l : w.placed[m] = j
        <4>1. w.placed \in Seq(1..N)
          BY <1>2
        <4> HIDE DEF N
        <4> QED BY ONLY <3>5, <4>1, Members
      <3>7. m \in 1..l + 1 /\ m # l + 1 /\ m \in 1..k - 1
        <4> HIDE DEF l
        <4> QED BY ONLY <2>1, <2>3, <3>6
      <3>8. order[m] = j
        BY <1>7, <3>6, <3>7
      <3> QED BY <3>7, <3>8
    <2> QED BY <2>2, <2>3
  <1>20. After(rows, n + 1, v)
    BY <1>12, <1>14, <1>15, <1>16, <1>17, <1>18, <1>19 DEF After
  <1> QED BY <1>20 DEF v

LEMMA StartsRight ==
    ASSUME NEW rows, Orderly(rows)
    PROVE  After(rows, 0, Start)
  <1>1. /\ Start.entered = << >> /\ Start.placed = << >>
        /\ Len(<< >>) = 0 /\ ToSet(<< >>) = {}
        /\ << >> \in Seq(1..Len(rows))
    BY DEF Start, ToSet
  <1>2. Start \in Walk(Len(rows))
    BY <1>1 DEF Walk, Start
  <1>3. Marked(Start) = {} /\ Cardinality({}) = 0
    BY <1>1, FS_EmptySet DEF Marked
  <1>4. 1..0 = {}
    OBVIOUS
  <1>5. Once(<< >>) /\ ParentsFirst(rows, << >>) /\ Descending(rows, << >>)
    BY <1>1, <1>4 DEF Once, ParentsFirst, Descending
  <1>6. 0 = 2 * 0 + 0 /\ 0 = 0 + 0
    OBVIOUS
  <1>7. ToSet(Start.entered) \cap ToSet(Start.placed) = {}
    BY <1>1
  <1> QED BY <1>1, <1>2, <1>3, <1>5, <1>6, <1>7 DEF After

\* The constructor creates every table once, after those it references.
LEMMA OrderOfCreation ==
    ASSUME NEW rows, Orderly(rows)
    PROVE  /\ CreationOrder(rows) \in Seq(1..Len(rows))
           /\ Once(CreationOrder(rows))
           /\ ToSet(CreationOrder(rows)) = 1..Len(rows)
           /\ ParentsFirst(rows, CreationOrder(rows))
  <1> DEFINE N == Len(rows)
  <1>1. N \in Nat /\ 2 * N \in Nat
    BY RowTypes
  <1>2. PICK walk : /\ CreationOrder(rows) = walk[2 * N].placed
                    /\ walk[0] = Start
                    /\ \A k \in 1..2 * N : walk[k] = Visit(rows, walk[k - 1])
    BY <1>1, Walked
  <1> DEFINE S == {k \in Nat : k <= 2 * N => After(rows, k, walk[k])}
  <1>3. 0 \in S
    BY <1>2, StartsRight
  <1>4. ASSUME NEW k \in Nat, k \in S
        PROVE  k + 1 \in S
    <2> SUFFICES ASSUME k + 1 <= 2 * N
                 PROVE  After(rows, k + 1, walk[k + 1])
      OBVIOUS
    <2>1. k < 2 * N /\ k + 1 \in 1..2 * N /\ (k + 1) - 1 = k
      BY <1>1
    <2>2. After(rows, k, walk[k])
      BY <1>1, <1>4, <2>1
    <2>3. walk[k + 1] = Visit(rows, walk[k])
      BY <1>2, <2>1
    <2>4. CASE Ahead(rows, walk[k]) = {}
      BY <2>1, <2>2, <2>3, <2>4, Leaves
    <2>5. CASE Ahead(rows, walk[k]) # {}
      BY <2>2, <2>3, <2>5, Enters
    <2> QED BY <2>4, <2>5
  <1>5. After(rows, 2 * N, walk[2 * N])
    <2>1. Nat \subseteq S
      <3> HIDE DEF S
      <3> QED BY <1>3, <1>4, Induction
    <2> QED BY <1>1, <2>1
  <1> DEFINE w == walk[2 * N]
  <1> HIDE DEF w
  <1>6. After(rows, 2 * N, w) /\ CreationOrder(rows) = w.placed /\ w \in Walk(N)
    BY <1>2, <1>5 DEF w, After
  <1>7. /\ w.entered \in Seq(1..N) /\ w.placed \in Seq(1..N)
        /\ Len(w.entered) \in Nat /\ Len(w.placed) \in Nat
        /\ Cardinality(Marked(w)) <= N
        /\ Cardinality(Marked(w)) = N => Marked(w) = 1..N
    BY <1>1, <1>6, WalkTypes
  <1>8. Cardinality(Marked(w)) = Len(w.entered) + Len(w.placed) /\ 2 * N = 2 * Len(w.placed) + Len(w.entered)
    BY <1>6 DEF After
  <1>9. Len(w.entered) = 0 /\ Len(w.placed) = N
    <2>1. \A a, b, m \in Nat : a + b <= m /\ 2 * m = 2 * b + a => a = 0 /\ b = m
      OBVIOUS
    <2>2. Len(w.entered) + Len(w.placed) <= N
      BY <1>7, <1>8
    <2> HIDE DEF N
    <2> QED BY <1>1, <1>7, <1>8, <2>1, <2>2
  <1>10. Marked(w) = 1..N
    BY <1>1, <1>7, <1>8, <1>9
  <1>11. ToSet(w.entered) = {}
    <2>1. \A x : x \in ToSet(w.entered) <=> \E i \in 1..Len(w.entered) : w.entered[i] = x
      BY <1>7, Members
    <2>2. 1..0 = {}
      OBVIOUS
    <2> QED BY <1>9, <2>1, <2>2
  <1>12. ToSet(w.placed) = 1..N
    BY <1>10, <1>11 DEF Marked
  <1> QED BY <1>6, <1>7, <1>12 DEF After

-----------------------------------------------------------------------------
(* Reading a store back                                                    *)

LEMMA Greatest ==
    ASSUME NEW S \in SUBSET Nat, S # {}, Bounded(S)
    PROVE  Max(S) \in S /\ \A y \in S : Max(S) >= y
  <1> DEFINE U == {n \in Nat : \A x \in S : x <= n}
             m == Min(U)
  <1>1. U # {}
    BY DEF Bounded
  <1>2. m \in U /\ \A n \in U : m <= n
    BY <1>1, Least
  <1> HIDE DEF m
  <1>3. m \in S
    <2> SUFFICES ASSUME m \notin S PROVE FALSE
      OBVIOUS
    <2>1. PICK x \in S : TRUE
      OBVIOUS
    <2>2. m \in Nat /\ \A y \in S : y \in Nat /\ y <= m /\ y # m
      BY <1>2
    <2>3. m # 0
      BY <2>1, <2>2
    <2>4. m - 1 \in Nat /\ \A y \in S : y <= m - 1
      BY <2>2, <2>3
    <2>5. m <= m - 1
      BY <1>2, <2>4
    <2> QED BY <2>2, <2>5
  <1>4. \E z \in S : \A y \in S : z >= y
    BY <1>2, <1>3
  <1> QED BY <1>4 DEF Max

LEMMA StoreTypes ==
    ASSUME NEW s \in Store
    PROVE  /\ s.rows \in Seq(RowType) /\ Len(s.rows) \in Nat /\ DOMAIN s.rows = 1..Len(s.rows)
           /\ \A i \in 1..Len(s.rows) : s.rows[i] \in RowType /\ s.rows[i] \in ToSet(s.rows)
           /\ ToSet(s.rows) \subseteq RowType
           /\ \A a \in ToSet(s.rows) : \E i \in 1..Len(s.rows) : a = s.rows[i]
           /\ s.columns \in SUBSET Nat /\ s.header \in Nat /\ s.access \in Versions \cup {0}
           /\ s.owners \in SUBSET (Tables \X Names)
  <1>1. s.rows \in Seq(RowType)
    BY DEF Store
  <1>2. /\ Len(s.rows) \in Nat /\ DOMAIN s.rows = 1..Len(s.rows)
        /\ \A i \in 1..Len(s.rows) : s.rows[i] \in RowType
        /\ ToSet(s.rows) \subseteq RowType
        /\ \A x : x \in ToSet(s.rows) <=> \E i \in 1..Len(s.rows) : s.rows[i] = x
    BY <1>1, Members
  <1> QED BY <1>1, <1>2 DEF Store

LEMMA RowsOrderly ==
    ASSUME NEW s \in Store, Sound(s)
    PROVE  Orderly(s.rows)
  <1> DEFINE rows == s.rows
  <1>1. /\ rows \in Seq(RowType) /\ DOMAIN rows = 1..Len(rows)
        /\ \A i \in 1..Len(rows) : rows[i] \in ToSet(rows)
        /\ \A a \in ToSet(rows) : \E i \in 1..Len(rows) : a = rows[i]
    BY StoreTypes
  <1>2. Keyed(rows) /\ Settled(ToSet(rows))
    BY DEF Sound
  <1> HIDE DEF rows
  <1>3. ASSUME NEW i \in 1..Len(rows), NEW j \in Parents(rows, i)
        PROVE  rows[j].id < rows[i].id
    <2>1. j \in 1..Len(rows) /\ j # i /\ rows[j].table \in rows[i].refs
      BY <1>1 DEF Parents
    <2>2. PICK b \in ToSet(rows) : b.table = rows[j].table /\ (b = rows[i] \/ b.id < rows[i].id)
      BY <1>1, <1>2, <2>1 DEF Settled
    <2>3. PICK m \in 1..Len(rows) : b = rows[m]
      BY <1>1
    <2>4. m = j
      BY <1>1, <1>2, <2>1, <2>2, <2>3 DEF Keyed
    <2>5. b # rows[i]
      BY <1>1, <1>2, <2>1, <2>2 DEF Keyed
    <2> QED BY <2>2, <2>3, <2>4, <2>5
  <1>4. Orderly(rows)
    BY <1>1, <1>3 DEF Orderly
  <1> QED BY <1>4 DEF rows

\* A sound store is never refused as corrupt.
LEMMA Readable ==
    ASSUME NEW s \in Store, Sound(s)
    PROVE  ~Corrupt(s)
  <1> DEFINE rows == s.rows
             order == CreationOrder(rows)
  <1>1. /\ rows \in Seq(RowType) /\ DOMAIN rows = 1..Len(rows) /\ Len(rows) \in Nat
        /\ \A i \in 1..Len(rows) : rows[i] \in ToSet(rows)
        /\ \A a \in ToSet(rows) : \E i \in 1..Len(rows) : a = rows[i]
    BY StoreTypes
  <1>2. Keyed(rows) /\ Settled(ToSet(rows)) /\ \A a \in ToSet(rows) : a.id \in s.columns
    BY DEF Sound
  <1>3. order \in Seq(1..Len(rows)) /\ ParentsFirst(rows, order)
    BY RowsOrderly, OrderOfCreation
  <1>4. /\ Len(order) \in Nat /\ DOMAIN order = 1..Len(order)
        /\ \A k \in 1..Len(order) : order[k] \in 1..Len(rows)
    <2> HIDE DEF order, rows
    <2> QED BY <1>3, Members
  <1>5. ~Corrupt(s) <=> (\A i \in DOMAIN rows : rows[i].id \in s.columns) /\ Creatable(rows, order)
    BY DEF Corrupt
  <1> HIDE DEF rows, order
  <1>6. Creatable(rows, order)
    <2> SUFFICES ASSUME NEW k \in 1..Len(order), NEW t \in rows[order[k]].refs
                 PROVE  \E j \in 1..k : rows[order[j]].table = t
      BY <1>4 DEF Creatable
    <2>1. order[k] \in 1..Len(rows) /\ rows[order[k]] \in ToSet(rows) /\ k \in 1..k
      BY <1>1, <1>4
    <2>2. PICK b \in ToSet(rows) : b.table = t
      BY <1>2, <2>1 DEF Settled
    <2>3. PICK m \in 1..Len(rows) : b = rows[m]
      BY <1>1
    <2>4. CASE m = order[k]
      BY <2>1, <2>2, <2>3, <2>4
    <2>5. CASE m # order[k]
      <3>1. m \in Parents(rows, order[k])
        BY <1>1, <2>2, <2>3, <2>5 DEF Parents
      <3>2. PICK j \in 1..k - 1 : order[j] = m
        BY <1>3, <3>1 DEF ParentsFirst
      <3>3. j \in 1..k
        BY <1>4
      <3> QED BY <2>2, <2>3, <3>2, <3>3
    <2> QED BY <2>4, <2>5
  <1> QED BY <1>1, <1>2, <1>5, <1>6

\* The catalog a restart builds has its types, and says what the store says.
LEMMA Loaded ==
    ASSUME NEW s \in Store, Sound(s)
    PROVE  /\ Load(s) \in Memory /\ Follows(s, Load(s))
           /\ \A z \in Nat : (FirstId <= z /\ \A x \in s.columns : x < z) => Load(s).nextId <= z
  <1> DEFINE rows == s.rows
             order == CreationOrder(rows)
             L == Load(s)
             view == [t \in Defined(rows) |-> rows[RowOf(rows, t)].indexes]
             tables == [k \in DOMAIN order |-> [id |-> rows[order[k]].id,
                                                table |-> rows[order[k]].table,
                                                indexes |-> rows[order[k]].indexes]]
             ids == s.columns \cup {rows[i].id : i \in DOMAIN rows} \cup {FirstId - 1}
  <1>1. L = [view |-> view, tables |-> tables, nextId |-> 1 + Max(ids), access |-> s.access]
    BY DEF Load
  <1>2. /\ L.view = view /\ L.tables = tables /\ L.nextId = 1 + Max(ids) /\ L.access = s.access
    BY <1>1
  <1>3. /\ rows \in Seq(RowType) /\ DOMAIN rows = 1..Len(rows) /\ Len(rows) \in Nat
        /\ \A i \in 1..Len(rows) : rows[i] \in RowType /\ rows[i] \in ToSet(rows)
        /\ \A a \in ToSet(rows) : \E i \in 1..Len(rows) : a = rows[i]
        /\ s.columns \in SUBSET Nat /\ s.access \in Versions \cup {0}
    BY StoreTypes
  <1>4. Keyed(rows) /\ (\A a \in ToSet(rows) : a.id \in s.columns) /\ Bounded(s.columns)
    BY DEF Sound
  <1>5. /\ order \in Seq(1..Len(rows)) /\ Once(order) /\ ToSet(order) = 1..Len(rows)
    BY RowsOrderly, OrderOfCreation
  <1> HIDE DEF order, rows
  <1>6. /\ Len(order) \in Nat /\ DOMAIN order = 1..Len(order)
        /\ \A k \in 1..Len(order) : order[k] \in 1..Len(rows)
        /\ \A i \in 1..Len(rows) : \E k \in 1..Len(order) : order[k] = i
    BY <1>5, Members
  <1>7. \A i \in 1..Len(rows) : RowOf(rows, rows[i].table) = i
    BY <1>3, <1>4 DEF RowOf, Keyed
  <1>8. \A i \in 1..Len(rows) : rows[i].table \in Tables /\ rows[i].indexes \in SUBSET Names /\ rows[i].id \in Nat
    BY <1>3 DEF RowType
  <1>9. Defined(rows) = {a.table : a \in ToSet(rows)}
    BY <1>3 DEF Defined, ToSet
  <1>10. \A a \in ToSet(rows) : view[a.table] = a.indexes
    <2> SUFFICES ASSUME NEW a \in ToSet(rows)
                 PROVE  view[a.table] = a.indexes
      OBVIOUS
    <2>1. PICK i \in 1..Len(rows) : a = rows[i]
      BY <1>3
    <2>2. a.table \in Defined(rows)
      BY <1>9
    <2>3. RowOf(rows, a.table) = i
      BY <1>7, <2>1
    <2> QED BY <2>1, <2>2, <2>3
  <1>11. view \in Views
    <2>1. Defined(rows) \in SUBSET Tables
      BY <1>3, <1>8 DEF Defined
    <2>2. \A t \in Defined(rows) : view[t] \in SUBSET Names
      <3> SUFFICES ASSUME NEW i \in 1..Len(rows)
                   PROVE  view[rows[i].table] \in SUBSET Names
        BY <1>3 DEF Defined
      <3>1. view[rows[i].table] = rows[i].indexes
        BY <1>3, <1>10
      <3> HIDE DEF view
      <3> QED BY <1>8, <3>1
    <2>3. view = [t \in Defined(rows) |-> view[t]]
      OBVIOUS
    <2> HIDE DEF view
    <2>4. view \in [Defined(rows) -> SUBSET Names]
      BY <2>2, <2>3
    <2> QED BY <2>1, <2>4 DEF Views
  <1>12. DOMAIN view = {a.table : a \in ToSet(rows)}
    BY <1>9
  <1>13. /\ DOMAIN tables = 1..Len(order)
         /\ \A k \in 1..Len(order) : tables[k] = Entry(rows[order[k]])
    BY <1>6 DEF Entry
  <1>14. \A i \in 1..Len(rows) : Entry(rows[i]) \in EntryType /\ Entry(rows[i]).table = rows[i].table
    BY <1>8 DEF Entry, EntryType
  <1>15. tables \in Seq(EntryType) /\ Len(tables) = Len(order)
    <2>1. \A k \in 1..Len(order) : tables[k] \in EntryType
      BY <1>6, <1>13, <1>14
    <2>2. tables = [k \in 1..Len(order) |-> tables[k]]
      BY <1>6
    <2> HIDE DEF tables
    <2>3. tables \in [1..Len(order) -> EntryType]
      BY <2>1, <2>2
    <2>4. tables \in Seq(EntryType)
      BY <1>6, <2>3, SeqDef
    <2>5. DOMAIN tables = 1..Len(tables) /\ Len(tables) \in Nat
      BY <2>4, LenProperties
    <2>6. \A m, n \in Nat : 1..m = 1..n => m = n
      OBVIOUS
    <2> QED BY <1>6, <1>13, <2>4, <2>5, <2>6
  <1> HIDE DEF view, tables
  <1>16. ToSet(tables) = {Entry(a) : a \in ToSet(rows)}
    <2>1. \A x : x \in ToSet(tables) <=> \E k \in 1..Len(order) : tables[k] = x
      BY <1>15, Members
    <2>2. ASSUME NEW x \in ToSet(tables)
          PROVE  x \in {Entry(a) : a \in ToSet(rows)}
      BY <1>3, <1>6, <1>13, <2>1, <2>2
    <2>3. ASSUME NEW a \in ToSet(rows)
          PROVE  Entry(a) \in ToSet(tables)
      <3>1. PICK i \in 1..Len(rows) : a = rows[i]
        BY <1>3
      <3>2. PICK k \in 1..Len(order) : order[k] = i
        BY <1>6
      <3>3. tables[k] = Entry(a)
        BY <1>13, <3>1, <3>2
      <3> QED BY <2>1, <3>3
    <2> QED BY <2>2, <2>3
  <1>17. Keyed(tables)
    <2> SUFFICES ASSUME NEW k \in 1..Len(order), NEW l \in 1..Len(order), tables[k].table = tables[l].table
                 PROVE  k = l
      BY <1>13 DEF Keyed
    <2>1. rows[order[k]].table = rows[order[l]].table
      BY <1>6, <1>13, <1>14
    <2>2. order[k] = order[l]
      BY <1>3, <1>4, <1>6, <2>1 DEF Keyed
    <2> QED BY <1>5, <2>2 DEF Once
  <1>18. /\ ids \in SUBSET Nat /\ FirstId - 1 \in ids /\ s.columns \subseteq ids
         /\ \A x \in ids : x \in s.columns \/ x = FirstId - 1
    BY <1>3, <1>4 DEF FirstId
  <1>19. Bounded(ids)
    <2>1. PICK n \in Nat : \A x \in s.columns : x <= n
      BY <1>4 DEF Bounded
    <2>2. \A x \in ids : x <= n + 1
      <3> SUFFICES ASSUME NEW x \in ids PROVE x <= n + 1
        OBVIOUS
      <3>1. CASE x \in s.columns
        BY <1>3, <2>1, <3>1
      <3>2. CASE x = FirstId - 1
        BY <3>2 DEF FirstId
      <3> QED BY <1>18, <3>1, <3>2
    <2> HIDE DEF ids
    <2> QED BY <2>2 DEF Bounded
  <1> HIDE DEF ids
  <1>20. Max(ids) \in ids /\ \A y \in ids : Max(ids) >= y
    BY <1>18, <1>19, Greatest
  <1>21. /\ L.nextId \in Nat /\ FirstId <= L.nextId /\ \A x \in s.columns : x < L.nextId
    <2>1. Max(ids) \in Nat /\ Max(ids) >= FirstId - 1 /\ \A x \in s.columns : x \in Nat /\ Max(ids) >= x
      BY <1>3, <1>18, <1>20
    <2> QED BY <1>2, <2>1 DEF FirstId
  <1>22. ASSUME NEW z \in Nat, FirstId <= z, \A x \in s.columns : x < z
         PROVE  L.nextId <= z
    <2>1. Max(ids) \in Nat /\ Max(ids) < z
      <3>1. Max(ids) \in s.columns \/ Max(ids) = FirstId - 1
        BY <1>18, <1>20
      <3>2. FirstId - 1 = 1 /\ 1 < z
        BY <1>22 DEF FirstId
      <3>3. Max(ids) \in Nat
        BY <1>18, <1>20
      <3> QED BY <1>22, <3>1, <3>2, <3>3
    <2> QED BY <1>2, <1>22, <2>1
  <1>23. L \in Memory
    <2>1. L = [view |-> L.view, tables |-> L.tables, nextId |-> L.nextId, access |-> L.access]
      BY <1>1, <1>2
    <2> HIDE DEF L
    <2>2. L.view \in Views /\ L.tables \in Seq(EntryType) /\ L.access \in Versions \cup {0}
      BY <1>2, <1>3, <1>11, <1>15
    <2> QED BY <1>21, <2>1, <2>2 DEF Memory
  <1>24. Follows(s, L)
    <2>1. \A a \in ToSet(rows) : L.view[a.table] = a.indexes
      BY <1>2, <1>10
    <2> HIDE DEF L
    <2> QED BY <1>2, <1>12, <1>16, <1>17, <1>21, <2>1 DEF Follows, rows
  <1> QED BY <1>22, <1>23, <1>24

LEMMA MemoryTypes ==
    ASSUME NEW m \in Memory
    PROVE  /\ m.view = [t \in DOMAIN m.view |-> m.view[t]] /\ DOMAIN m.view \subseteq Tables
           /\ \A t \in DOMAIN m.view : m.view[t] \in SUBSET Names
           /\ m.tables \in Seq(EntryType) /\ Len(m.tables) \in Nat /\ DOMAIN m.tables = 1..Len(m.tables)
           /\ \A k \in 1..Len(m.tables) : m.tables[k] \in EntryType /\ m.tables[k] \in ToSet(m.tables)
           /\ \A x \in ToSet(m.tables) : \E k \in 1..Len(m.tables) : m.tables[k] = x
           /\ m.nextId \in Nat /\ m.access \in Versions \cup {0}
  <1>1. /\ m.view \in Views /\ m.tables \in Seq(EntryType)
        /\ m.nextId \in Nat /\ m.access \in Versions \cup {0}
    BY DEF Memory
  <1>2. /\ Len(m.tables) \in Nat /\ DOMAIN m.tables = 1..Len(m.tables)
        /\ \A k \in 1..Len(m.tables) : m.tables[k] \in EntryType
        /\ \A x : x \in ToSet(m.tables) <=> \E k \in 1..Len(m.tables) : m.tables[k] = x
    BY <1>1, Members
  <1>3. PICK T \in SUBSET Tables : m.view \in [T -> SUBSET Names]
    BY <1>1 DEF Views
  <1> QED BY <1>1, <1>2, <1>3

\* A catalog that follows a sound store is the one a restart would build, up to
\* the order of the tables and identities it has skipped.
LEMMA Agrees ==
    ASSUME NEW s \in Store, Sound(s), NEW m \in Memory, Follows(s, m)
    PROVE  /\ Load(s).view = m.view
           /\ Tabled(Load(s)) = Tabled(m)
           /\ Load(s).nextId <= m.nextId
           /\ \A k \in DOMAIN m.tables : m.tables[k].indexes = m.view[m.tables[k].table]
           /\ Wanted(m) = s.owners
  <1> DEFINE L == Load(s)
             R == ToSet(s.rows)
  <1>1. L \in Memory /\ Follows(s, L)
    BY Loaded
  <1>2. /\ m.view = [t \in DOMAIN m.view |-> m.view[t]]
        /\ L.view = [t \in DOMAIN L.view |-> L.view[t]]
    BY <1>1, MemoryTypes
  <1> HIDE DEF L
  <1>3. L.view = m.view
    <2>1. DOMAIN L.view = DOMAIN m.view
      BY <1>1 DEF Follows
    <2>2. \A t \in DOMAIN m.view : L.view[t] = m.view[t]
      BY <1>1 DEF Follows
    <2> QED BY <1>2, <2>1, <2>2
  <1>4. \A n \in Memory : Tabled(n) = ToSet(n.tables)
    <2> SUFFICES ASSUME NEW n \in Memory
                 PROVE  Tabled(n) = ToSet(n.tables)
      OBVIOUS
    <2>1. \A k \in DOMAIN n.tables :
             n.tables[k] = [id |-> n.tables[k].id, table |-> n.tables[k].table, indexes |-> n.tables[k].indexes]
      BY MemoryTypes DEF EntryType
    <2> QED BY <2>1 DEF Tabled, ToSet
  <1>5. Tabled(L) = Tabled(m)
    BY <1>1, <1>4 DEF Follows
  <1>6. L.nextId <= m.nextId
    BY Loaded, MemoryTypes DEF Follows, L
  <1>7. ASSUME NEW k \in DOMAIN m.tables
        PROVE  m.tables[k].indexes = m.view[m.tables[k].table]
    <2>1. m.tables[k] \in ToSet(m.tables)
      BY MemoryTypes
    <2>2. PICK a \in R : m.tables[k] = Entry(a)
      BY <2>1 DEF Follows
    <2>3. m.tables[k].indexes = a.indexes /\ m.tables[k].table = a.table
      BY <2>2 DEF Entry
    <2> QED BY <2>3 DEF Follows
  <1>8. Wanted(m) = IndexesOf(R)
    <2>1. DOMAIN m.view = {a.table : a \in R} /\ \A a \in R : m.view[a.table] = a.indexes
      BY DEF Follows
    <2>2. ASSUME NEW x \in Wanted(m)
          PROVE  x \in IndexesOf(R)
      <3>1. PICK t \in DOMAIN m.view : \E n \in m.view[t] : x = <<t, n>>
        BY <2>2 DEF Wanted
      <3>2. PICK a \in R : t = a.table
        BY <2>1
      <3> QED BY <2>1, <3>1, <3>2 DEF IndexesOf
    <2>3. ASSUME NEW x \in IndexesOf(R)
          PROVE  x \in Wanted(m)
      <3>1. PICK a \in R : \E n \in a.indexes : x = <<a.table, n>>
        BY <2>3 DEF IndexesOf
      <3> QED BY <2>1, <3>1 DEF Wanted
    <2> QED BY <2>2, <2>3
  <1>9. Wanted(m) = s.owners
    BY <1>8 DEF Sound
  <1> QED BY <1>3, <1>5, <1>6, <1>7, <1>9 DEF L

-----------------------------------------------------------------------------
(* Changing a store and the catalog together                               *)

LEMMA KeyedAppend ==
    ASSUME NEW S, NEW q \in Seq(S), NEW e \in S, Keyed(q), \A a \in ToSet(q) : a.table # e.table
    PROVE  /\ Append(q, e) \in Seq(S) /\ Keyed(Append(q, e))
           /\ ToSet(Append(q, e)) = ToSet(q) \cup {e}
  <1> DEFINE r == Append(q, e)
             l == Len(q)
  <1>1. Added(S, q, e, r)
    BY Appended
  <1>2. l \in Nat /\ DOMAIN q = 1..l /\ \A i \in 1..l : q[i] \in ToSet(q)
    BY Members
  <1> HIDE DEF r, l
  <1>3. /\ r \in Seq(S) /\ Len(r) = l + 1 /\ ToSet(r) = ToSet(q) \cup {e}
        /\ \A j \in 1..l + 1 : r[j] = IF j = l + 1 THEN e ELSE q[j]
    BY <1>1 DEF Added, l
  <1>4. DOMAIN r = 1..l + 1
    BY <1>3, LenProperties
  <1>5. ASSUME NEW i \in 1..l + 1, NEW j \in 1..l + 1, r[i].table = r[j].table
        PROVE  i = j
    <2>1. \A k \in 1..l + 1 : k # l + 1 => k \in 1..l /\ r[k] = q[k] /\ r[k].table # e.table
      BY <1>2, <1>3
    <2>2. r[l + 1] = e
      BY <1>2, <1>3
    <2>3. CASE i = l + 1
      BY <1>5, <2>1, <2>2, <2>3
    <2>4. CASE i # l + 1 /\ j = l + 1
      BY <1>5, <2>1, <2>2, <2>4
    <2>5. CASE i # l + 1 /\ j # l + 1
      BY <1>2, <1>5, <2>1, <2>5 DEF Keyed
    <2> QED BY <2>3, <2>4, <2>5
  <1>6. Keyed(r)
    BY <1>4, <1>5 DEF Keyed
  <1> QED BY <1>3, <1>6 DEF r

LEMMA KeyedReplace ==
    ASSUME NEW S, NEW q \in Seq(S), NEW k \in DOMAIN q, NEW e \in S, Keyed(q), e.table = q[k].table
    PROVE  /\ [q EXCEPT ![k] = e] \in Seq(S) /\ Keyed([q EXCEPT ![k] = e])
           /\ ToSet([q EXCEPT ![k] = e]) = (ToSet(q) \ {q[k]}) \cup {e}
  <1> DEFINE r == [q EXCEPT ![k] = e]
  <1>1. Len(q) \in Nat /\ DOMAIN q = 1..Len(q) /\ \A i \in 1..Len(q) : q[i] \in ToSet(q)
    BY Members
  <1>2. r \in Seq(S) /\ Len(r) = Len(q) /\ \A j \in 1..Len(q) : r[j] = IF j = k THEN e ELSE q[j]
    BY <1>1, ExceptSeq
  <1> HIDE DEF r
  <1>3. DOMAIN r = 1..Len(q)
    BY <1>2, LenProperties
  <1>4. \A j \in 1..Len(q) : r[j].table = q[j].table
    BY <1>2
  <1>5. Keyed(r)
    BY <1>1, <1>3, <1>4 DEF Keyed
  <1>6. \A x : x \in ToSet(r) <=> \E i \in 1..Len(q) : r[i] = x
    BY <1>2, Members
  <1>7. \A x : x \in ToSet(q) <=> \E i \in 1..Len(q) : q[i] = x
    BY Members
  <1>8. k \in 1..Len(q) /\ r[k] = e
    BY <1>1, <1>2
  <1>9. ASSUME NEW x \in ToSet(r)
        PROVE  x \in (ToSet(q) \ {q[k]}) \cup {e}
    <2>1. PICK i \in 1..Len(q) : r[i] = x
      BY <1>6, <1>9
    <2>2. CASE i = k
      BY <1>8, <2>1, <2>2
    <2>3. CASE i # k
      <3>1. x = q[i]
        BY <1>2, <2>1, <2>3
      <3>2. q[i] # q[k]
        BY <1>1, <1>8, <2>3 DEF Keyed
      <3> QED BY <1>1, <3>1, <3>2
    <2> QED BY <2>2, <2>3
  <1>10. ASSUME NEW x \in (ToSet(q) \ {q[k]}) \cup {e}
         PROVE  x \in ToSet(r)
    <2>1. CASE x = e
      BY <1>6, <1>8, <2>1
    <2>2. CASE x \in ToSet(q) \ {q[k]}
      <3>1. PICK i \in 1..Len(q) : q[i] = x
        BY <1>7, <2>2
      <3>2. i # k
        BY <2>2, <3>1
      <3> QED BY <1>2, <1>6, <3>1, <3>2
    <2> QED BY <1>10, <2>1, <2>2
  <1> QED BY <1>2, <1>5, <1>9, <1>10 DEF r

\* What a restart reads depends on the rows, the columns and the pages only.
LEMMA SameRows ==
    ASSUME NEW s, NEW t, t.rows = s.rows, t.columns = s.columns, t.owners = s.owners, Sound(s)
    PROVE  Sound(t) /\ \A m : Follows(s, m) => Follows(t, m)
  BY DEF Sound, Follows

\* The tables of the two sides.
LEMMA SameTables ==
    ASSUME NEW s \in Store, NEW m \in Memory, Follows(s, m)
    PROVE  /\ \A a \in ToSet(s.rows) : \E k \in DOMAIN m.tables : m.tables[k] = Entry(a)
           /\ \A k \in DOMAIN m.tables : \E a \in ToSet(s.rows) : m.tables[k] = Entry(a)
           /\ \A e \in ToSet(m.tables) : e.table \in DOMAIN m.view
           /\ \A a : Entry(a).id = a.id /\ Entry(a).table = a.table /\ Entry(a).indexes = a.indexes
  <1>1. /\ ToSet(m.tables) = {Entry(a) : a \in ToSet(s.rows)}
        /\ DOMAIN m.view = {a.table : a \in ToSet(s.rows)}
    BY DEF Follows
  <1>2. /\ DOMAIN m.tables = 1..Len(m.tables)
        /\ \A k \in 1..Len(m.tables) : m.tables[k] \in ToSet(m.tables)
        /\ \A x \in ToSet(m.tables) : \E k \in 1..Len(m.tables) : m.tables[k] = x
    BY MemoryTypes
  <1>3. \A a : Entry(a).id = a.id /\ Entry(a).table = a.table /\ Entry(a).indexes = a.indexes
    BY DEF Entry
  <1>4. \A a \in ToSet(s.rows) : \E k \in DOMAIN m.tables : m.tables[k] = Entry(a)
    <2> SUFFICES ASSUME NEW a \in ToSet(s.rows)
                 PROVE  \E k \in DOMAIN m.tables : m.tables[k] = Entry(a)
      OBVIOUS
    <2>1. Entry(a) \in ToSet(m.tables)
      BY <1>1
    <2> QED BY <1>2, <2>1
  <1>5. \A k \in DOMAIN m.tables : \E a \in ToSet(s.rows) : m.tables[k] = Entry(a)
    BY <1>1, <1>2
  <1>6. \A e \in ToSet(m.tables) : e.table \in DOMAIN m.view
    BY <1>1, <1>3
  <1> QED BY <1>3, <1>4, <1>5, <1>6

\* CREATE TABLE: the row of the new table, and the catalog with it.
NewRow(id, t) == [id |-> id, table |-> t, refs |-> RefsOf[t], indexes |-> {}]
StoreWith(s, at, id, t) ==
    [s EXCEPT !.columns = @ \cup {id}, !.rows = InsertAt(@, at, NewRow(id, t))]
MemoryWith(m, t) ==
    [m EXCEPT !.view = [u \in DOMAIN @ \cup {t} |-> IF u = t THEN {} ELSE @[u]],
              !.tables = Append(@, [id |-> m.nextId, table |-> t, indexes |-> {}]),
              !.nextId = m.nextId + 1]

\* z is s with the row e and its columns.
Grown(s, z, e) ==
    /\ z \in Store /\ z.columns = s.columns \cup {e.id} /\ z.owners = s.owners
    /\ Keyed(z.rows) /\ ToSet(z.rows) = ToSet(s.rows) \cup {e}

LEMMA StoreWithParts ==
    ASSUME CatalogAssumption,
           NEW s \in Store, NEW id \in Nat, NEW t \in Tables, NEW at \in 1..Len(s.rows) + 1,
           Keyed(s.rows), \A a \in ToSet(s.rows) : a.table # t
    PROVE  Grown(s, StoreWith(s, at, id, t), NewRow(id, t))
  <1> DEFINE z == StoreWith(s, at, id, t)
             e == NewRow(id, t)
             r == InsertAt(s.rows, at, e)
  <1>1. e \in RowType /\ e.table = t
    BY DEF NewRow, RowType, CatalogAssumption
  <1>2. /\ s.rows \in Seq(RowType) /\ s.columns \in SUBSET Nat /\ s.header \in Nat
        /\ s.access \in Versions \cup {0} /\ s.owners \in SUBSET (Tables \X Names)
    BY StoreTypes
  <1>3. z = [rows |-> r, columns |-> s.columns \cup {id}, header |-> s.header, access |-> s.access,
             owners |-> s.owners]
    <2> DEFINE F == {"rows", "columns", "header", "access", "owners"}
    <2>1. DOMAIN s = F
      BY DEF Store
    <2>2. /\ DOMAIN z = F /\ z.rows = r /\ z.columns = s.columns \cup {id} /\ z.header = s.header
          /\ z.access = s.access /\ z.owners = s.owners
      BY <2>1 DEF StoreWith
    <2>3. z = [f \in F |-> z[f]]
      BY <2>1 DEF StoreWith
    <2> HIDE DEF z, r
    <2> QED BY <2>2, <2>3
  <1> HIDE DEF e
  <1>4. \A a \in ToSet(s.rows) : a.table # e.table
    BY <1>1
  <1>5. r \in Seq(RowType)
    BY <1>1, <1>2, Inserted
  <1>6. Keyed(r) /\ ToSet(r) = ToSet(s.rows) \cup {e}
    BY <1>1, <1>2, <1>4, KeyedInsert
  <1> HIDE DEF z, r
  <1>7. z \in Store
    BY <1>2, <1>3, <1>5 DEF Store
  <1>8. e.id = id
    BY DEF e, NewRow
  <1>9. Grown(s, z, e)
    BY <1>3, <1>6, <1>7, <1>8 DEF Grown
  <1> QED BY <1>9 DEF z, e

LEMMA MemoryWithParts ==
    ASSUME NEW m \in Memory, NEW t \in Tables, Keyed(m.tables), \A a \in ToSet(m.tables) : a.table # t
    PROVE  LET n == MemoryWith(m, t)
           IN  /\ n \in Memory /\ DOMAIN n.view = DOMAIN m.view \cup {t} /\ n.view[t] = {}
               /\ \A u \in DOMAIN m.view : u # t => n.view[u] = m.view[u]
               /\ Keyed(n.tables)
               /\ ToSet(n.tables) = ToSet(m.tables) \cup {[id |-> m.nextId, table |-> t, indexes |-> {}]}
               /\ n.nextId = m.nextId + 1
  <1> DEFINE n == MemoryWith(m, t)
             e == [id |-> m.nextId, table |-> t, indexes |-> {}]
             v == [u \in DOMAIN m.view \cup {t} |-> IF u = t THEN {} ELSE m.view[u]]
             q == Append(m.tables, e)
  <1>1. /\ DOMAIN m.view \subseteq Tables /\ \A u \in DOMAIN m.view : m.view[u] \in SUBSET Names
        /\ m.tables \in Seq(EntryType) /\ m.nextId \in Nat /\ m.access \in Versions \cup {0}
    BY MemoryTypes
  <1>2. n = [view |-> v, tables |-> q, nextId |-> m.nextId + 1, access |-> m.access]
    <2> DEFINE F == {"view", "tables", "nextId", "access"}
    <2>1. DOMAIN m = F
      BY DEF Memory
    <2>2. /\ DOMAIN n = F /\ n.view = v /\ n.tables = q /\ n.nextId = m.nextId + 1
          /\ n.access = m.access
      BY <2>1 DEF MemoryWith
    <2>3. n = [f \in F |-> n[f]]
      BY <2>1 DEF MemoryWith
    <2> HIDE DEF n, v, q
    <2> QED BY <2>2, <2>3
  <1>3. e \in EntryType /\ e.table = t
    BY <1>1 DEF EntryType
  <1>4. /\ DOMAIN v = DOMAIN m.view \cup {t} /\ v[t] = {}
        /\ \A u \in DOMAIN m.view : u # t => v[u] = m.view[u]
    OBVIOUS
  <1>5. v \in Views
    <2>1. v \in [DOMAIN m.view \cup {t} -> SUBSET Names]
      BY <1>1
    <2>2. DOMAIN m.view \cup {t} \in SUBSET Tables
      BY <1>1
    <2> HIDE DEF v
    <2> QED BY <2>1, <2>2 DEF Views
  <1> HIDE DEF e
  <1>6. q \in Seq(EntryType) /\ Keyed(q) /\ ToSet(q) = ToSet(m.tables) \cup {e}
    <2>1. \A a \in ToSet(m.tables) : a.table # e.table
      BY <1>3
    <2> QED BY <1>1, <1>3, <2>1, KeyedAppend
  <1> HIDE DEF n, v, q
  <1>7. n \in Memory
    BY <1>1, <1>2, <1>5, <1>6 DEF Memory
  <1> QED BY <1>2, <1>4, <1>6, <1>7 DEF n, e

LEMMA TableCreated ==
    ASSUME CatalogAssumption,
           NEW s \in Store, Sound(s), NEW m \in Memory, Follows(s, m),
           NEW t \in Tables, t \notin DOMAIN m.view, RefsOf[t] \subseteq DOMAIN m.view \cup {t},
           NEW at \in 1..Len(s.rows) + 1
    PROVE  LET z == StoreWith(s, at, m.nextId, t)
               n == MemoryWith(m, t)
           IN  z \in Store /\ Sound(z) /\ n \in Memory /\ Follows(z, n)
  <1> DEFINE z == StoreWith(s, at, m.nextId, t)
             n == MemoryWith(m, t)
             id == m.nextId
             e == NewRow(id, t)
             R == ToSet(s.rows)
  <1>1. /\ Keyed(s.rows) /\ Settled(R) /\ Bounded(s.columns) /\ s.owners = IndexesOf(R)
        /\ \A a, b \in R : a.id = b.id => a = b
        /\ \A a \in R : a.id \in s.columns
    BY DEF Sound
  <1>2. /\ DOMAIN m.view = {a.table : a \in R} /\ \A a \in R : m.view[a.table] = a.indexes
        /\ ToSet(m.tables) = {Entry(a) : a \in R} /\ Keyed(m.tables)
        /\ FirstId <= id /\ \A x \in s.columns : x < id
    BY DEF Follows
  <1>3. id \in Nat /\ s.columns \in SUBSET Nat
    BY MemoryTypes, StoreTypes
  <1>4. \A a \in R : a.table # t
    BY <1>2
  <1>5. \A a \in ToSet(m.tables) : a.table # t
    BY SameTables
  <1>6. /\ z \in Store /\ z.columns = s.columns \cup {id} /\ z.owners = s.owners
        /\ Keyed(z.rows) /\ ToSet(z.rows) = R \cup {e}
    <2>1. Keyed(s.rows) /\ (\A a \in ToSet(s.rows) : a.table # t) /\ m.nextId \in Nat
      BY <1>1, <1>3, <1>4
    <2>2. Grown(s, z, e)
      BY <2>1, StoreWithParts
    <2>3. e.id = id
      BY DEF NewRow
    <2> HIDE DEF z, e
    <2> QED BY <2>2, <2>3 DEF Grown
  <1>7. /\ n \in Memory /\ DOMAIN n.view = DOMAIN m.view \cup {t} /\ n.view[t] = {}
        /\ \A u \in DOMAIN m.view : u # t => n.view[u] = m.view[u]
        /\ Keyed(n.tables) /\ n.nextId = id + 1
        /\ ToSet(n.tables) = ToSet(m.tables) \cup {[id |-> id, table |-> t, indexes |-> {}]}
    BY <1>2, <1>5, MemoryWithParts
  <1>8. e.id = id /\ e.table = t /\ e.indexes = {} /\ e.refs = RefsOf[t]
    BY DEF NewRow
  <1>9. Entry(e) = [id |-> id, table |-> t, indexes |-> {}]
    BY <1>8 DEF Entry
  <1> HIDE DEF z, n, e, id, R
  <1>10. \A a \in R : a.id \in Nat /\ a.id < id
    BY <1>1, <1>2, <1>3
  <1>11. \A a, b \in R \cup {e} : a.id = b.id => a = b
    <2>1. \A a \in R : a.id # e.id
      BY <1>3, <1>8, <1>10
    <2> QED BY <1>1, <2>1
  <1>12. \A a \in R \cup {e} : a.id \in z.columns
    BY <1>1, <1>6, <1>8
  <1>13. Settled(R \cup {e})
    <2> SUFFICES ASSUME NEW a \in R \cup {e}, NEW u \in a.refs
                 PROVE  \E b \in R \cup {e} : b.table = u /\ (b = a \/ b.id < a.id)
      BY DEF Settled
    <2>1. CASE a \in R
      BY <1>1, <2>1 DEF Settled
    <2>2. CASE a = e /\ u = t
      BY <1>8, <2>2
    <2>3. CASE a = e /\ u # t
      <3>1. u \in DOMAIN m.view
        BY <1>8, <2>3
      <3>2. PICK b \in R : b.table = u
        BY <1>2, <3>1
      <3> QED BY <1>8, <1>10, <2>3, <3>2
    <2> QED BY <2>1, <2>2, <2>3
  <1>14. Bounded(z.columns)
    <2>1. \A x \in z.columns : x <= id
      BY <1>2, <1>3, <1>6
    <2> QED BY <1>3, <2>1 DEF Bounded
  <1>15. IndexesOf(R \cup {e}) = IndexesOf(R)
    BY <1>8 DEF IndexesOf
  <1>16. Sound(z)
    BY <1>1, <1>6, <1>11, <1>12, <1>13, <1>14, <1>15 DEF Sound
  <1>17. Follows(z, n)
    <2>1. DOMAIN n.view = {a.table : a \in R \cup {e}}
      BY <1>2, <1>7, <1>8
    <2>2. \A a \in R \cup {e} : n.view[a.table] = a.indexes
      BY <1>2, <1>4, <1>7, <1>8
    <2>3. ToSet(n.tables) = {Entry(a) : a \in R \cup {e}}
      <3>1. {Entry(a) : a \in R \cup {e}} = {Entry(a) : a \in R} \cup {Entry(e)}
        OBVIOUS
      <3> QED BY <1>2, <1>7, <1>9, <3>1
    <2>4. FirstId <= n.nextId /\ \A x \in z.columns : x < n.nextId
      BY <1>2, <1>3, <1>6, <1>7 DEF FirstId
    <2> QED BY <1>6, <1>7, <2>1, <2>2, <2>3, <2>4 DEF Follows
  <1> QED BY <1>6, <1>7, <1>16, <1>17 DEF z, n, id

\* CREATE INDEX and DROP INDEX: the table of stored definition k has the indexes X.
\* n is m with e for its stored definition k.
Indexed(m, k, e, n) ==
    /\ n \in Memory /\ DOMAIN n.view = DOMAIN m.view /\ n.view[e.table] = e.indexes
    /\ \A u \in DOMAIN m.view : u # e.table => n.view[u] = m.view[u]
    /\ Keyed(n.tables) /\ n.nextId = m.nextId /\ n.tables[k] = e
    /\ ToSet(n.tables) = (ToSet(m.tables) \ {m.tables[k]}) \cup {e}

LEMMA RestatedParts ==
    ASSUME NEW m \in Memory, NEW k \in DOMAIN m.tables, NEW X \in SUBSET Names, NEW t,
           t = m.tables[k].table, t \in DOMAIN m.view, Keyed(m.tables)
    PROVE  Indexed(m, k, [id |-> m.tables[k].id, table |-> t, indexes |-> X],
                   Restated([m EXCEPT !.view[t] = X], k))
  <1> DEFINE m1 == [m EXCEPT !.view[t] = X]
             n == Restated(m1, k)
             e == [id |-> m.tables[k].id, table |-> t, indexes |-> X]
             v == [m.view EXCEPT ![t] = X]
             q == [m.tables EXCEPT ![k] = e]
             F == {"view", "tables", "nextId", "access"}
  <1>1. /\ DOMAIN m.view \subseteq Tables /\ \A u \in DOMAIN m.view : m.view[u] \in SUBSET Names
        /\ m.view = [u \in DOMAIN m.view |-> m.view[u]]
        /\ m.tables \in Seq(EntryType) /\ m.nextId \in Nat /\ m.access \in Versions \cup {0}
        /\ m.tables[k] \in EntryType /\ DOMAIN m = F
    BY MemoryTypes DEF Memory
  <1>2. m.tables[k].id \in Nat /\ t \in Tables /\ DOMAIN m.tables[k] = {"id", "table", "indexes"}
    BY <1>1 DEF EntryType
  <1>3. /\ DOMAIN m1 = F /\ m1.view = v /\ m1.tables = m.tables /\ m1.nextId = m.nextId
        /\ m1.access = m.access
    BY <1>1
  <1>4. DOMAIN v = DOMAIN m.view /\ v[t] = X /\ \A u \in DOMAIN m.view : u # t => v[u] = m.view[u]
    OBVIOUS
  <1>5. v \in Views
    <2>1. v = [u \in DOMAIN m.view |-> v[u]] /\ \A u \in DOMAIN m.view : v[u] \in SUBSET Names
      BY <1>1
    <2> HIDE DEF v
    <2>2. v \in [DOMAIN m.view -> SUBSET Names]
      BY <2>1
    <2> QED BY <1>1, <2>2 DEF Views
  <1>6. [m.tables[k] EXCEPT !.indexes = X] = e
    <2> DEFINE d == [m.tables[k] EXCEPT !.indexes = X]
               G == {"id", "table", "indexes"}
    <2>1. DOMAIN d = G /\ d.id = m.tables[k].id /\ d.table = t /\ d.indexes = X
      BY <1>2
    <2>2. d = [f \in G |-> d[f]]
      BY <1>2
    <2> HIDE DEF d
    <2> QED BY <2>1, <2>2 DEF d
  <1> HIDE DEF m1, v
  <1>7. n = [m1 EXCEPT !.tables = q]
    <2>1. n = [m1 EXCEPT !.tables = [m1.tables EXCEPT ![k] =
                                        [m1.tables[k] EXCEPT !.indexes = m1.view[m1.tables[k].table]]]]
      BY DEF Restated
    <2>2. m1.view[m1.tables[k].table] = X
      BY <1>3, <1>4
    <2> HIDE DEF n, e
    <2> QED BY <1>3, <1>6, <2>1, <2>2
  <1> HIDE DEF n
  <1>8. /\ DOMAIN n = F /\ n.view = v /\ n.tables = q /\ n.nextId = m.nextId /\ n.access = m.access
        /\ n = [f \in F |-> n[f]]
    BY <1>3, <1>7
  <1>9. e \in EntryType /\ e.table = m.tables[k].table /\ e.indexes = X
    BY <1>2 DEF EntryType
  <1> HIDE DEF e
  <1>10. /\ q \in Seq(EntryType) /\ Keyed(q)
         /\ ToSet(q) = (ToSet(m.tables) \ {m.tables[k]}) \cup {e}
    BY <1>1, <1>9, KeyedReplace
  <1>11. q[k] = e
    OBVIOUS
  <1> HIDE DEF q
  <1>12. n = [view |-> v, tables |-> q, nextId |-> m.nextId, access |-> m.access]
    BY <1>8
  <1>13. n \in Memory
    BY <1>1, <1>5, <1>10, <1>12 DEF Memory
  <1>14. Indexed(m, k, e, n)
    BY <1>4, <1>8, <1>9, <1>10, <1>11, <1>13 DEF Indexed
  <1> QED BY <1>14 DEF n, m1, e

\* The row of a table is the same but for its indexes.
LEMMA RowRewritten ==
    ASSUME work \in Store, Sound(work), NEW a \in ToSet(work.rows), NEW X \in SUBSET Names,
           NEW k, NEW m, m.tables[k].id = a.id, m.view[m.tables[k].table] = X,
           NEW rows \in Rewritten(k, m)
    PROVE  /\ rows \in Seq(RowType) /\ Keyed(rows)
           /\ ToSet(rows) = (ToSet(work.rows) \ {a}) \cup
                               {[id |-> a.id, table |-> a.table, refs |-> a.refs, indexes |-> X]}
  <1> DEFINE q == work.rows
             old == CHOOSE i \in DOMAIN q : q[i].id = m.tables[k].id
             b == [id |-> a.id, table |-> a.table, refs |-> a.refs, indexes |-> X]
             row == [q[old] EXCEPT !.indexes = m.view[m.tables[k].table]]
  <1>1. /\ q \in Seq(RowType) /\ Len(q) \in Nat /\ DOMAIN q = 1..Len(q)
        /\ \A i \in 1..Len(q) : q[i] \in RowType /\ q[i] \in ToSet(q)
        /\ \E i \in 1..Len(q) : a = q[i]
    BY StoreTypes
  <1>2. Keyed(q) /\ \A c, d \in ToSet(q) : c.id = d.id => c = d
    BY DEF Sound
  <1>3. old \in 1..Len(q) /\ q[old] = a
    <2>1. \E i \in DOMAIN q : q[i].id = m.tables[k].id
      BY <1>1
    <2>2. old \in DOMAIN q /\ q[old].id = m.tables[k].id
      BY <2>1
    <2> HIDE DEF old
    <2> QED BY <1>1, <1>2, <2>2
  <1>4. a \in RowType
    BY <1>1, <1>3
  <1>5. row = b
    <2> DEFINE G == {"id", "table", "refs", "indexes"}
    <2>1. DOMAIN a = G
      BY <1>4 DEF RowType
    <2> DEFINE d == [a EXCEPT !.indexes = X]
    <2>2. DOMAIN d = G /\ d.id = a.id /\ d.table = a.table /\ d.refs = a.refs /\ d.indexes = X
      BY <2>1
    <2>3. d = [f \in G |-> d[f]]
      BY <2>1
    <2> HIDE DEF d
    <2>4. d = b
      BY <2>2, <2>3
    <2> QED BY <1>3, <2>4 DEF d
  <1>6. b \in RowType /\ b.table = a.table
    BY <1>4 DEF RowType
  <1>7. PICK at \in 1..Len(q) : rows = InsertAt(RemoveAt(q, old), at, row)
    BY DEF Rewritten
  <1> HIDE DEF old, row, b, q
  <1> DEFINE rest == RemoveAt(q, old)
  <1>8. rest \in Seq(RowType) /\ Len(rest) = Len(q) - 1
    BY <1>1, <1>3, Removed
  <1>9. Keyed(rest) /\ ToSet(rest) = ToSet(q) \ {a}
    BY <1>1, <1>2, <1>3, KeyedRemove
  <1> HIDE DEF rest
  <1>10. at \in 1..Len(rest) + 1
    BY <1>1, <1>8
  <1>11. \A c \in ToSet(rest) : c.table # b.table
    <2> SUFFICES ASSUME NEW c \in ToSet(q), c # a, c.table = a.table
                 PROVE  FALSE
      BY <1>6, <1>9
    <2>1. PICK i \in 1..Len(q) : c = q[i]
      BY StoreTypes DEF q
    <2>2. i = old
      BY <1>1, <1>2, <1>3, <2>1 DEF Keyed
    <2> QED BY <1>3, <2>1, <2>2
  <1>12. rows = InsertAt(rest, at, b)
    BY <1>5, <1>7 DEF rest
  <1>13. rows \in Seq(RowType)
    BY <1>6, <1>8, <1>10, <1>12, Inserted
  <1>14. Keyed(rows) /\ ToSet(rows) = ToSet(rest) \cup {b}
    BY <1>6, <1>8, <1>9, <1>10, <1>11, <1>12, KeyedInsert
  <1> QED BY <1>9, <1>13, <1>14 DEF b, q

LEMMA IndexesRewritten ==
    ASSUME work \in Store, Sound(work), mem \in Memory, Follows(work, mem),
           NEW k \in DOMAIN mem.tables, NEW t, t = mem.tables[k].table, NEW X \in SUBSET Names,
           NEW m, m = Restated([mem EXCEPT !.view[t] = X], k),
           NEW rows \in Rewritten(k, m),
           NEW O, O = (work.owners \ ({t} \X Names)) \cup ({t} \X X),
           NEW z, z = [work EXCEPT !.rows = rows, !.owners = O]
    PROVE  z \in Store /\ Sound(z) /\ m \in Memory /\ Follows(z, m)
  <1> DEFINE R == ToSet(work.rows)
  <1>1. /\ Keyed(work.rows) /\ Settled(R) /\ Bounded(work.columns) /\ work.owners = IndexesOf(R)
        /\ \A c, d \in R : c.id = d.id => c = d
        /\ \A c \in R : c.id \in work.columns
    BY DEF Sound
  <1>2. /\ DOMAIN mem.view = {c.table : c \in R} /\ \A c \in R : mem.view[c.table] = c.indexes
        /\ ToSet(mem.tables) = {Entry(c) : c \in R} /\ Keyed(mem.tables)
        /\ FirstId <= mem.nextId /\ \A x \in work.columns : x < mem.nextId
    BY DEF Follows
  <1>3. PICK a \in R : mem.tables[k] = Entry(a)
    BY SameTables
  <1>4. /\ mem.tables[k].id = a.id /\ a.table = t /\ t \in DOMAIN mem.view
        /\ mem.tables[k].indexes = a.indexes
    BY <1>2, <1>3 DEF Entry
  <1> DEFINE e == [id |-> mem.tables[k].id, table |-> t, indexes |-> X]
             b == [id |-> a.id, table |-> a.table, refs |-> a.refs, indexes |-> X]
  <1>5. /\ m \in Memory /\ DOMAIN m.view = DOMAIN mem.view /\ m.view[t] = X
        /\ \A u \in DOMAIN mem.view : u # t => m.view[u] = mem.view[u]
        /\ Keyed(m.tables) /\ m.nextId = mem.nextId /\ m.tables[k] = e
        /\ ToSet(m.tables) = (ToSet(mem.tables) \ {mem.tables[k]}) \cup {e}
    <2>1. Indexed(mem, k, e, m)
      BY <1>2, <1>4, RestatedParts
    <2>2. e.table = t /\ e.indexes = X
      OBVIOUS
    <2> HIDE DEF e
    <2> QED BY <2>1, <2>2 DEF Indexed
  <1>6. m.tables[k].id = a.id /\ m.view[m.tables[k].table] = X
    <2>1. e.id = a.id /\ e.table = t
      BY <1>4
    <2> HIDE DEF e
    <2> QED BY <1>5, <2>1
  <1>7. /\ rows \in Seq(RowType) /\ Keyed(rows) /\ ToSet(rows) = (R \ {a}) \cup {b}
    BY <1>6, RowRewritten
  <1>8. b.id = a.id /\ b.table = t /\ b.refs = a.refs /\ b.indexes = X
    BY <1>4
  <1>9. Entry(b) = e
    BY <1>4, <1>8 DEF Entry
  <1>10. a \in RowType /\ t \in Tables /\ a.indexes \in SUBSET Names
    <2>1. a \in RowType
      BY StoreTypes
    <2> QED BY <1>4, <2>1 DEF RowType
  <1>11. work.owners \in SUBSET (Tables \X Names)
    BY StoreTypes
  <1>12. O \in SUBSET (Tables \X Names)
    BY <1>10, <1>11
  <1>13. /\ z \in Store /\ z.rows = rows /\ z.owners = O /\ z.columns = work.columns
    BY <1>7, <1>12 DEF Store
  <1>14. ToSet(mem.tables) \ {mem.tables[k]} = {Entry(c) : c \in R \ {a}}
    <2>1. ASSUME NEW c \in R, Entry(c) = Entry(a)
          PROVE  c = a
      <3>1. c.id = a.id
        BY <2>1 DEF Entry
      <3> QED BY <1>1, <3>1
    <2> QED BY <1>2, <1>3, <2>1
  <1>15. \A c \in R : c.table = t => c = a
    <2> SUFFICES ASSUME NEW c \in R, c.table = t
                 PROVE  c = a
      OBVIOUS
    <2>1. PICK i \in 1..Len(work.rows) : c = work.rows[i]
      BY StoreTypes
    <2>2. PICK j \in 1..Len(work.rows) : a = work.rows[j]
      BY StoreTypes
    <2>3. DOMAIN work.rows = 1..Len(work.rows)
      BY StoreTypes
    <2>4. i = j
      BY <1>1, <1>4, <2>1, <2>2, <2>3 DEF Keyed
    <2> QED BY <2>1, <2>2, <2>4
  <1> HIDE DEF R, e, b
  <1> DEFINE Q == (R \ {a}) \cup {b}
  <1>16. \A c \in Q : \E d \in R : d.id = c.id /\ d.table = c.table /\ d.refs = c.refs
    BY <1>3, <1>4, <1>8
  <1>17. \A d \in R : \E c \in Q : d.id = c.id /\ d.table = c.table /\ d.refs = c.refs
    BY <1>4, <1>8
  <1>18. \A c, d \in Q : c.id = d.id => c = d
    BY <1>1, <1>3, <1>8
  <1>19. Settled(Q)
    <2> SUFFICES ASSUME NEW c \in Q, NEW u \in c.refs
                 PROVE  \E d \in Q : d.table = u /\ (d = c \/ d.id < c.id)
      BY DEF Settled
    <2>1. PICK c0 \in R : c0.id = c.id /\ c0.table = c.table /\ c0.refs = c.refs
      BY <1>16
    <2>2. PICK d0 \in R : d0.table = u /\ (d0 = c0 \/ d0.id < c0.id)
      BY <1>1, <2>1 DEF Settled
    <2>3. PICK d \in Q : d0.id = d.id /\ d0.table = d.table
      BY <1>17
    <2>4. d0 = c0 => d = c
      BY <1>18, <2>1, <2>3
    <2> QED BY <2>1, <2>2, <2>3, <2>4
  <1>20. IndexesOf(Q) = O
    <2>1. ASSUME NEW x \in IndexesOf(Q)
          PROVE  x \in O
      <3>1. PICK c \in Q : \E n \in c.indexes : x = <<c.table, n>>
        BY <2>1 DEF IndexesOf
      <3>2. CASE c = b
        BY <1>8, <3>1, <3>2
      <3>3. CASE c # b
        <4>1. c \in R /\ c # a /\ c.table # t
          BY <1>15, <3>3
        <4>2. x \in work.owners
          BY <1>1, <3>1, <4>1 DEF IndexesOf
        <4> QED BY <3>1, <4>1, <4>2
      <3> QED BY <3>2, <3>3
    <2>2. ASSUME NEW x \in O
          PROVE  x \in IndexesOf(Q)
      <3>1. CASE x \in {t} \X X
        <4>1. PICK n \in X : x = <<t, n>>
          BY <3>1
        <4> QED BY <1>8, <4>1 DEF IndexesOf
      <3>2. CASE x \in work.owners \ ({t} \X Names)
        <4>1. PICK c \in R : \E n \in c.indexes : x = <<c.table, n>>
          BY <1>1, <3>2 DEF IndexesOf
        <4>2. c # a
          BY <1>4, <1>10, <3>2, <4>1
        <4> QED BY <4>1, <4>2 DEF IndexesOf
      <3> QED BY <2>2, <3>1, <3>2
    <2> QED BY <2>1, <2>2
  <1>21. Sound(z)
    <2>1. \A c \in Q : c.id \in z.columns
      BY <1>1, <1>13, <1>16
    <2> QED BY <1>1, <1>7, <1>13, <1>18, <1>19, <1>20, <2>1 DEF Sound
  <1>22. Follows(z, m)
    <2>1. DOMAIN m.view = {c.table : c \in Q}
      <3>1. \A c \in Q : c.table \in DOMAIN mem.view
        BY <1>2, <1>16
      <3>2. \A u \in DOMAIN mem.view : \E c \in Q : u = c.table
        BY <1>2, <1>17
      <3> HIDE DEF Q
      <3> QED BY <1>5, <3>1, <3>2
    <2>2. \A c \in Q : m.view[c.table] = c.indexes
      <3> SUFFICES ASSUME NEW c \in Q
                   PROVE  m.view[c.table] = c.indexes
        OBVIOUS
      <3>1. CASE c = b
        BY <1>5, <1>8, <3>1
      <3>2. CASE c # b
        <4>1. c \in R /\ c.table # t /\ c.table \in DOMAIN mem.view
          BY <1>2, <1>15, <3>2
        <4> QED BY <1>2, <1>5, <4>1
      <3> QED BY <3>1, <3>2
    <2>3. ToSet(m.tables) = {Entry(c) : c \in Q}
      <3>1. {Entry(c) : c \in Q} = {Entry(c) : c \in R \ {a}} \cup {Entry(b)}
        OBVIOUS
      <3> QED BY <1>5, <1>9, <1>14, <3>1
    <2> QED BY <1>2, <1>5, <1>7, <1>13, <2>1, <2>2, <2>3 DEF Follows
  <1> QED BY <1>5, <1>13, <1>21, <1>22

-----------------------------------------------------------------------------
(* The steps                                                               *)

LEMMA Begins ==
    ASSUME CatalogAssumption, Init
    PROVE  CatalogInvariant
  <1>1. PICK v \in 0..Supported + 1 : disk = EmptyStore(v)
    BY DEF Init
  <1>2. v \in Nat
    BY DEF CatalogAssumption
  <1>3. << >> \in Seq(RowType) /\ << >> \in Seq(EntryType) /\ ToSet(<< >>) = {} /\ DOMAIN << >> = {}
    BY DEF ToSet
  <1>4. disk \in Store
    BY <1>1, <1>2, <1>3 DEF EmptyStore, Store
  <1>5. Bounded({}) /\ IndexesOf({}) = {} /\ Settled({})
    BY DEF Bounded, IndexesOf, Settled
  <1>6. disk.rows = << >> /\ disk.columns = {} /\ disk.owners = {}
    BY <1>1 DEF EmptyStore
  <1>7. Sound(disk)
    BY <1>3, <1>5, <1>6 DEF Sound, Keyed
  <1>8. NoView \in Views
    <2>1. NoView \in [{} -> SUBSET Names]
      BY DEF NoView
    <2> QED BY <2>1 DEF Views
  <1>9. mem \in Memory
    BY <1>3, <1>8 DEF Init, EmptyMemory, Memory, FirstId
  <1>10. work = disk /\ runtimes = {} /\ txn = "idle" /\ mark = None /\ up = "down"
    BY DEF Init
  <1> QED BY <1>4, <1>7, <1>9, <1>10 DEF CatalogInvariant, Types, MarkSound, Working

\* What the invariant says while the process is up.
LEMMA WhileUp ==
    ASSUME CatalogInvariant, up = "up"
    PROVE  /\ disk \in Store /\ Sound(disk) /\ work \in Store /\ Sound(work)
           /\ mem \in Memory /\ Follows(work, mem)
           /\ runtimes = Wanted(mem) /\ work.owners = runtimes
           /\ runtimes \in SUBSET (Tables \X Names)
  <1>1. /\ disk \in Store /\ Sound(disk) /\ work \in Store /\ Sound(work)
        /\ mem \in Memory /\ Follows(work, mem)
        /\ runtimes = Wanted(mem) /\ runtimes \in SUBSET (Tables \X Names)
    BY DEF CatalogInvariant, Types, Working
  <1>2. work.owners = runtimes
    BY <1>1, Agrees
  <1> QED BY <1>1, <1>2

LEMMA WantedTypes ==
    ASSUME NEW m \in Memory
    PROVE  Wanted(m) \in SUBSET (Tables \X Names)
  <1> SUFFICES ASSUME NEW t \in DOMAIN m.view, NEW n \in m.view[t]
               PROVE  <<t, n>> \in Tables \X Names
    BY DEF Wanted
  <1>1. t \in Tables /\ n \in Names
    BY MemoryTypes
  <1> QED BY <1>1

LEMMA OpenKeeps ==
    ASSUME CatalogAssumption, CatalogInvariant, Open
    PROVE  CatalogInvariant'
  <1>1. disk \in Store /\ Sound(disk) /\ MarkSound /\ txn \in {"idle", "active", "aborted"}
    BY DEF CatalogInvariant, Types
  <1>2. /\ mem' = Load(disk) /\ runtimes' = Wanted(mem')
        /\ work' = [disk EXCEPT !.header = Supported, !.owners = @ \cup Wanted(mem')]
        /\ disk' = work' /\ up' = "up" /\ txn' = txn /\ mark' = mark
    BY DEF Open
  <1>3. mem' \in Memory /\ Follows(disk, mem')
    BY <1>1, <1>2, Loaded
  <1>4. Wanted(mem') = disk.owners
    BY <1>1, <1>3, Agrees
  <1>5. /\ work' \in Store /\ work'.rows = disk.rows /\ work'.columns = disk.columns
        /\ work'.owners = disk.owners
    <2>1. Supported \in Nat
      BY DEF CatalogAssumption
    <2>2. work' = [disk EXCEPT !.header = Supported, !.owners = disk.owners]
      BY <1>2, <1>4
    <2> QED BY <1>1, <2>1, <2>2 DEF Store
  <1>6. Sound(work') /\ Follows(work', mem')
    BY <1>1, <1>3, <1>5, SameRows
  <1>7. runtimes' \in SUBSET (Tables \X Names)
    BY <1>2, <1>3, WantedTypes
  <1>8. MarkSound'
    BY <1>1, <1>2 DEF MarkSound
  <1>9. Types'
    BY <1>1, <1>2, <1>3, <1>5, <1>7 DEF Types
  <1>10. Working'
    BY <1>2, <1>6 DEF Working
  <1>11. Sound(disk')
    BY <1>2, <1>6
  <1> QED BY <1>8, <1>9, <1>10, <1>11 DEF CatalogInvariant

LEMMA CrashKeeps ==
    ASSUME CatalogInvariant, Crash
    PROVE  CatalogInvariant'
  BY DEF CatalogInvariant, Crash, Types, MarkSound, Working

LEMMA RestKeeps ==
    ASSUME CatalogInvariant, OpenRefused \/ Begin \/ Commit \/ Savepoint \/ RollbackTo
    PROVE  CatalogInvariant'
  <1>1. CASE OpenRefused
    BY <1>1 DEF CatalogInvariant, OpenRefused, Types, MarkSound, Working
  <1>2. CASE Begin
    BY <1>2 DEF CatalogInvariant, Begin, Types, MarkSound, Working
  <1>3. CASE Commit
    <2>1. up = "up" /\ disk' = work /\ UNCHANGED <<work, mem, runtimes, up>> /\ txn' = "idle" /\ mark' = None
      BY <1>3 DEF Commit, Ready
    <2>2. work \in Store /\ Sound(work)
      BY <2>1, WhileUp
    <2> QED BY <2>1, <2>2 DEF CatalogInvariant, Types, MarkSound, Working
  <1>4. CASE Savepoint
    <2>1. /\ up = "up" /\ UNCHANGED <<disk, work, mem, runtimes, txn, up>>
          /\ mark' = [store |-> work, mem |-> mem]
      BY <1>4 DEF Savepoint, Ready
    <2>2. work \in Store /\ Sound(work) /\ mem \in Memory /\ Follows(work, mem)
      BY <2>1, WhileUp
    <2>3. /\ mark' \in [store : Store, mem : Memory]
          /\ Sound(mark'.store) /\ Follows(mark'.store, mark'.mem)
      BY <2>1, <2>2
    <2> QED BY <2>1, <2>3 DEF CatalogInvariant, Types, MarkSound, Working
  <1>5. CASE RollbackTo
    <2>1. /\ mark # None /\ work' = mark.store /\ mem' = mark.mem /\ runtimes' = Wanted(mem')
          /\ UNCHANGED <<disk, txn, mark, up>>
      BY <1>5 DEF RollbackTo
    <2>2. /\ work' \in Store /\ mem' \in Memory /\ Sound(work') /\ Follows(work', mem')
      BY <2>1 DEF CatalogInvariant, MarkSound
    <2>3. runtimes' \in SUBSET (Tables \X Names)
      BY <2>1, <2>2, WantedTypes
    <2> QED BY <2>1, <2>2, <2>3 DEF CatalogInvariant, Types, MarkSound, Working
  <1> QED BY <1>1, <1>2, <1>3, <1>4, <1>5

\* A rollback reads back what the file holds.
LEMMA RollbackKeeps ==
    ASSUME CatalogInvariant, RolledBack, up' = up, txn' \in {"idle", "active", "aborted"}
    PROVE  CatalogInvariant'
  <1>1. disk \in Store /\ Sound(disk) /\ up \in {"down", "up", "refused"}
    BY DEF CatalogInvariant, Types
  <1>2. /\ work' = disk /\ mem' = Load(disk) /\ runtimes' = Wanted(mem') /\ mark' = None /\ disk' = disk
    BY DEF RolledBack
  <1>3. mem' \in Memory /\ Follows(disk, mem')
    BY <1>1, <1>2, Loaded
  <1>4. runtimes' \in SUBSET (Tables \X Names)
    BY <1>2, <1>3, WantedTypes
  <1> QED BY <1>1, <1>2, <1>3, <1>4 DEF CatalogInvariant, Types, MarkSound, Working

\* A statement that leaves the two sides in agreement, committed or not.
LEMMA StatementKeeps ==
    ASSUME CatalogInvariant, up = "up", Ends, UNCHANGED <<txn, mark, up>>,
           work' \in Store, Sound(work'), mem' \in Memory, Follows(work', mem'),
           runtimes' = Wanted(mem')
    PROVE  CatalogInvariant'
  <1>1. runtimes' \in SUBSET (Tables \X Names)
    BY WantedTypes
  <1>2. disk' \in Store /\ Sound(disk')
    BY DEF Ends, CatalogInvariant, Types
  <1> QED BY <1>1, <1>2 DEF CatalogInvariant, Types, MarkSound, Working

LEMMA CreateTableKeeps ==
    ASSUME CatalogAssumption, CatalogInvariant, NEW t \in Tables, CreateTable(t)
    PROVE  CatalogInvariant'
  <1>1. /\ up = "up" /\ Acceptable(t) /\ Ends /\ UNCHANGED <<txn, mark, up>> /\ runtimes' = runtimes
    BY DEF CreateTable, Ready
  <1>2. PICK at \in 1..Len(work.rows) + 1 : work' = StoreWith(work, at, mem.nextId, t)
    BY DEF CreateTable, StoreWith, NewRow
  <1>3. mem' = MemoryWith(mem, t)
    BY DEF CreateTable, MemoryWith
  <1>4. /\ work \in Store /\ Sound(work) /\ mem \in Memory /\ Follows(work, mem)
        /\ work.owners = runtimes
    BY <1>1, WhileUp
  <1>5. t \notin DOMAIN mem.view /\ RefsOf[t] \subseteq DOMAIN mem.view \cup {t}
    BY <1>1 DEF Acceptable
  <1>6. work' \in Store /\ Sound(work') /\ mem' \in Memory /\ Follows(work', mem')
    BY <1>2, <1>3, <1>4, <1>5, TableCreated
  <1>7. work'.owners = work.owners
    BY <1>2, <1>4 DEF StoreWith, Store
  <1>8. Wanted(mem') = work'.owners
    BY <1>6, Agrees
  <1> QED BY <1>1, <1>4, <1>6, <1>7, <1>8, StatementKeeps

\* The indexes of table t become X, those of the others stay.
LEMMA IndexStatementKeeps ==
    ASSUME CatalogInvariant, up = "up", Ends, UNCHANGED <<txn, mark, up>>,
           NEW k \in DOMAIN mem.tables, NEW t, t = mem.tables[k].table, NEW X \in SUBSET Names,
           mem' = Restated([mem EXCEPT !.view[t] = X], k),
           NEW rows \in Rewritten(k, mem'),
           work' = [work EXCEPT !.rows = rows, !.owners = (work.owners \ ({t} \X Names)) \cup ({t} \X X)],
           runtimes' = (runtimes \ ({t} \X Names)) \cup ({t} \X X)
    PROVE  CatalogInvariant'
  <1>1. /\ work \in Store /\ Sound(work) /\ mem \in Memory /\ Follows(work, mem)
        /\ work.owners = runtimes
    BY WhileUp
  <1>2. work' \in Store /\ Sound(work') /\ mem' \in Memory /\ Follows(work', mem')
    BY <1>1, IndexesRewritten
  <1>3. work'.owners = runtimes'
    BY <1>1 DEF Store
  <1>4. Wanted(mem') = work'.owners
    BY <1>2, Agrees
  <1> QED BY <1>2, <1>3, <1>4, StatementKeeps

\* The runtimes of a table are the indexes of its view.
LEMMA RuntimesOf ==
    ASSUME CatalogInvariant, up = "up", NEW t \in DOMAIN mem.view
    PROVE  /\ mem.view[t] \in SUBSET Names
           /\ \A n : <<t, n>> \in runtimes <=> n \in mem.view[t]
           /\ runtimes = (runtimes \ ({t} \X Names)) \cup ({t} \X mem.view[t])
  <1>1. mem \in Memory /\ runtimes = Wanted(mem) /\ runtimes \in SUBSET (Tables \X Names)
    BY WhileUp
  <1>2. mem.view[t] \in SUBSET Names
    BY <1>1, MemoryTypes
  <1>3. \A n : <<t, n>> \in runtimes <=> n \in mem.view[t]
    BY <1>1 DEF Wanted
  <1>4. runtimes = (runtimes \ ({t} \X Names)) \cup ({t} \X mem.view[t])
    <2>1. ASSUME NEW r \in runtimes
          PROVE  r \in (runtimes \ ({t} \X Names)) \cup ({t} \X mem.view[t])
      <3>1. PICK u \in Tables, n \in Names : r = <<u, n>>
        BY <1>1
      <3> QED BY <1>3, <3>1
    <2>2. ASSUME NEW r \in {t} \X mem.view[t]
          PROVE  r \in runtimes
      BY <1>3
    <2> QED BY <2>1, <2>2
  <1> QED BY <1>2, <1>3, <1>4

\* The stored definitions and the view name the same tables and indexes.
LEMMA StoredDefinitions ==
    ASSUME CatalogInvariant, up = "up"
    PROVE  /\ \A t \in DOMAIN mem.view : \E k \in DOMAIN mem.tables : mem.tables[k].table = t
           /\ \A k \in DOMAIN mem.tables : /\ mem.tables[k].table \in DOMAIN mem.view
                                           /\ mem.tables[k].table \in Tables
                                           /\ mem.tables[k].indexes = mem.view[mem.tables[k].table]
           /\ Keyed(mem.tables) /\ DOMAIN mem.tables \in SUBSET Nat
  <1>1. work \in Store /\ Sound(work) /\ mem \in Memory /\ Follows(work, mem)
    BY WhileUp
  <1>2. /\ DOMAIN mem.tables = 1..Len(mem.tables) /\ Len(mem.tables) \in Nat
        /\ \A k \in 1..Len(mem.tables) : mem.tables[k] \in ToSet(mem.tables) /\ mem.tables[k] \in EntryType
    BY <1>1, MemoryTypes
  <1>3. /\ \A a \in ToSet(work.rows) : \E k \in DOMAIN mem.tables : mem.tables[k] = Entry(a)
        /\ \A e \in ToSet(mem.tables) : e.table \in DOMAIN mem.view
        /\ \A a : Entry(a).table = a.table
    BY <1>1, SameTables
  <1>4. \A k \in DOMAIN mem.tables : mem.tables[k].indexes = mem.view[mem.tables[k].table]
    BY <1>1, Agrees
  <1>5. DOMAIN mem.view = {a.table : a \in ToSet(work.rows)} /\ Keyed(mem.tables)
    BY <1>1 DEF Follows
  <1>6. ASSUME NEW t \in DOMAIN mem.view
        PROVE  \E k \in DOMAIN mem.tables : mem.tables[k].table = t
    <2>1. PICK a \in ToSet(work.rows) : a.table = t
      BY <1>5
    <2>2. PICK k \in DOMAIN mem.tables : mem.tables[k] = Entry(a)
      BY <1>3
    <2> QED BY <1>3, <2>1, <2>2
  <1> QED BY <1>2, <1>3, <1>4, <1>5, <1>6 DEF EntryType

LEMMA CreateIndexKeeps ==
    ASSUME CatalogInvariant, NEW t \in Tables, NEW n \in Names, CreateIndex(t, n)
    PROVE  CatalogInvariant'
  <1> DEFINE k == CHOOSE k \in DOMAIN mem.tables : mem.tables[k].table = t
             X == mem.view[t] \cup {n}
  <1>1. /\ up = "up" /\ t \in DOMAIN mem.view /\ Ends /\ UNCHANGED <<txn, mark, up>>
        /\ runtimes' = runtimes \cup {<<t, n>>}
    BY DEF CreateIndex, Ready
  <1>2. mem' = Restated([mem EXCEPT !.view[t] = X], k)
    BY DEF CreateIndex
  <1>3. PICK rows \in Rewritten(k, mem') :
            work' = [work EXCEPT !.rows = rows, !.owners = work.owners \cup {<<t, n>>}]
    BY DEF CreateIndex
  <1>4. k \in DOMAIN mem.tables /\ mem.tables[k].table = t
    BY <1>1, StoredDefinitions
  <1>5. work.owners = runtimes
    BY <1>1, WhileUp
  <1>6. /\ mem.view[t] \in SUBSET Names
        /\ runtimes = (runtimes \ ({t} \X Names)) \cup ({t} \X mem.view[t])
    BY <1>1, RuntimesOf
  <1>7. X \in SUBSET Names
    BY <1>6
  <1>8. runtimes \cup {<<t, n>>} = (runtimes \ ({t} \X Names)) \cup ({t} \X X)
    <2>1. {t} \X X = ({t} \X mem.view[t]) \cup {<<t, n>>}
      OBVIOUS
    <2> HIDE DEF X
    <2> QED BY <1>6, <2>1
  <1> HIDE DEF k, X
  <1> QED BY <1>1, <1>2, <1>3, <1>4, <1>5, <1>7, <1>8, IndexStatementKeeps

\* DROP INDEX that names its table, or finds one table with such an index: the
\* stored definition and the view it changes are of the same table.
LEMMA DropIndexKeeps ==
    ASSUME CatalogAssumption, Qualified, CatalogInvariant,
           NEW t \in Tables \cup {None}, NEW n \in Names, DropIndex(t, n)
    PROVE  CatalogInvariant'
  <1> DEFINE may == IF t = None THEN Tables ELSE {t}
             held == {k \in DOMAIN mem.tables : mem.tables[k].table \in may /\ n \in mem.tables[k].indexes}
             gone == {r \in runtimes : r[2] = n /\ r[1] \in may}
             k == Min(held)
  <1>1. /\ up = "up" /\ Ends /\ UNCHANGED <<txn, mark, up>> /\ runtimes' = runtimes \ gone
        /\ held # {} /\ (t = None => Cardinality(held) = 1)
    BY DEF DropIndex, Ready
  <1>2. PICK u \in may \cap DOMAIN mem.view :
            n \in mem.view[u] /\ mem' = Restated([mem EXCEPT !.view[u] = mem.view[u] \ {n}], k)
    BY DEF DropIndex
  <1>3. PICK rows \in Rewritten(k, mem') :
            work' = [work EXCEPT !.rows = rows, !.owners = work.owners \ gone]
    BY DEF DropIndex
  <1>4. /\ \A x \in DOMAIN mem.view : \E j \in DOMAIN mem.tables : mem.tables[j].table = x
        /\ \A j \in DOMAIN mem.tables : /\ mem.tables[j].table \in DOMAIN mem.view
                                        /\ mem.tables[j].table \in Tables
                                        /\ mem.tables[j].indexes = mem.view[mem.tables[j].table]
        /\ Keyed(mem.tables) /\ DOMAIN mem.tables \in SUBSET Nat
    BY <1>1, StoredDefinitions
  <1>5. k \in held
    <2>1. held \in SUBSET Nat
      BY <1>4
    <2> HIDE DEF held
    <2> QED BY <1>1, <2>1, Least
  <1> HIDE DEF k
  <1>6. \A j \in DOMAIN mem.tables : mem.tables[j].table \in may /\ n \in mem.tables[j].indexes => j = k
    <2>1. CASE t = None
      <3>1. Cardinality(held) = 1 /\ IsFiniteSet(held)
        <4>1. Cardinality(held) = 1
          BY <1>1, <2>1
        <4>2. mem \in Memory
          BY <1>1, WhileUp
        <4>3. DOMAIN mem.tables = 1..Len(mem.tables) /\ Len(mem.tables) \in Nat
          BY <4>2, MemoryTypes
        <4>4. IsFiniteSet(1..Len(mem.tables))
          BY <4>3, FS_Interval
        <4>5. IsFiniteSet(held)
          BY <4>3, <4>4, FS_Subset
        <4> QED BY <4>1, <4>5
      <3>2. \E x : held = {x}
        BY <3>1, FS_Singleton
      <3> QED BY <1>5, <3>2
    <2>2. CASE t # None
      BY <1>4, <1>5, <2>2 DEF Keyed
    <2> QED BY <2>1, <2>2
  <1>7. mem.tables[k].table = u /\ k \in DOMAIN mem.tables
    <2>1. PICK j \in DOMAIN mem.tables : mem.tables[j].table = u
      BY <1>2, <1>4
    <2>2. n \in mem.tables[j].indexes /\ u \in may
      BY <1>2, <1>4, <2>1
    <2> HIDE DEF may
    <2>3. j = k
      BY <1>6, <2>1, <2>2
    <2> QED BY <1>5, <2>1, <2>3
  <1>8. /\ mem.view[u] \in SUBSET Names
        /\ \A m : <<u, m>> \in runtimes <=> m \in mem.view[u]
        /\ runtimes = (runtimes \ ({u} \X Names)) \cup ({u} \X mem.view[u])
    BY <1>1, <1>2, RuntimesOf
  <1>9. /\ work.owners = runtimes /\ runtimes = Wanted(mem)
        /\ runtimes \in SUBSET (Tables \X Names)
    BY <1>1, WhileUp
  <1>10. gone = {<<u, n>>}
    <2>1. ASSUME NEW r \in gone
          PROVE  r = <<u, n>>
      <3>1. PICK x \in DOMAIN mem.view : \E m \in mem.view[x] : r = <<x, m>>
        BY <1>9, <2>1 DEF Wanted
      <3>2. r = <<x, n>> /\ x \in may /\ n \in mem.view[x]
        BY <2>1, <3>1
      <3>3. PICK j \in DOMAIN mem.tables : mem.tables[j].table = x
        BY <1>4, <3>1
      <3>4. n \in mem.tables[j].indexes
        BY <1>4, <3>1, <3>2, <3>3
      <3> HIDE DEF may
      <3>5. j = k
        BY <1>6, <3>2, <3>3, <3>4
      <3> QED BY <1>7, <3>2, <3>3, <3>5
    <2>2. <<u, n>> \in gone
      BY <1>2, <1>8
    <2> QED BY <2>1, <2>2
  <1> HIDE DEF may, held, gone
  <1> DEFINE X == mem.view[u] \ {n}
  <1>11. X \in SUBSET Names
    BY <1>8
  <1>12. runtimes \ gone = (runtimes \ ({u} \X Names)) \cup ({u} \X X)
    <2>1. {u} \X X = ({u} \X mem.view[u]) \ {<<u, n>>}
      OBVIOUS
    <2>2. <<u, n>> \in {u} \X Names
      OBVIOUS
    <2> HIDE DEF X
    <2> QED BY <1>8, <1>10, <2>1, <2>2
  <1>13. mem' = Restated([mem EXCEPT !.view[u] = X], k)
    BY <1>2
  <1> HIDE DEF X
  <1> QED BY <1>1, <1>3, <1>7, <1>9, <1>11, <1>12, <1>13, IndexStatementKeeps

LEMMA SynchronizeAccessKeeps ==
    ASSUME CatalogInvariant, NEW v \in Versions, SynchronizeAccess(v)
    PROVE  CatalogInvariant'
  <1>1. /\ up = "up" /\ UNCHANGED <<runtimes, txn, mark, up>>
        /\ work' = [work EXCEPT !.access = v] /\ disk' = work' /\ mem' = Load(work')
    BY DEF SynchronizeAccess, Ready
  <1>2. work \in Store /\ Sound(work) /\ work.owners = runtimes
    BY <1>1, WhileUp
  <1>3. /\ work' \in Store /\ work'.rows = work.rows /\ work'.columns = work.columns
        /\ work'.owners = work.owners
    BY <1>1, <1>2 DEF Store
  <1>4. Sound(work')
    BY <1>2, <1>3, SameRows
  <1>5. mem' \in Memory /\ Follows(work', mem')
    BY <1>1, <1>3, <1>4, Loaded
  <1>6. Wanted(mem') = work'.owners
    BY <1>3, <1>4, <1>5, Agrees
  <1>7. Ends
    BY <1>1 DEF Ends, SynchronizeAccess
  <1> QED BY <1>1, <1>2, <1>3, <1>4, <1>5, <1>6, <1>7, StatementKeeps

\* Every step keeps the invariant: opening, the statements, the ends of a
\* transaction, and a crash between any two of them.
LEMMA StepKeeps ==
    ASSUME CatalogAssumption, Qualified, CatalogInvariant, [Next]_vars
    PROVE  CatalogInvariant'
  <1>1. CASE Open
    BY <1>1, OpenKeeps
  <1>2. CASE Crash
    BY <1>2, CrashKeeps
  <1>3. CASE OpenRefused \/ Begin \/ Commit \/ Savepoint \/ RollbackTo
    BY <1>3, RestKeeps
  <1>4. CASE \E t \in Tables : CreateTable(t)
    BY <1>4, CreateTableKeeps
  <1>5. CASE \E t \in Tables, n \in Names : CreateIndex(t, n)
    BY <1>5, CreateIndexKeeps
  <1>6. CASE \E t \in Tables \cup {None}, n \in Names : DropIndex(t, n)
    BY <1>6, DropIndexKeeps
  <1>7. CASE StatementFails
    <2>1. RolledBack /\ up' = up /\ txn' \in {"idle", "active", "aborted"}
      BY <1>7 DEF StatementFails
    <2> QED BY <2>1, RollbackKeeps
  <1>8. CASE Rollback
    <2>1. RolledBack /\ up' = up /\ txn' \in {"idle", "active", "aborted"}
      BY <1>8 DEF Rollback
    <2> QED BY <2>1, RollbackKeeps
  <1>9. CASE \E v \in Versions : SynchronizeAccess(v)
    BY <1>9, SynchronizeAccessKeeps
  <1>10. CASE UNCHANGED vars
    BY <1>10 DEF CatalogInvariant, Types, MarkSound, Working, Wanted, vars
  <1> QED BY <1>1, <1>2, <1>3, <1>4, <1>5, <1>6, <1>7, <1>8, <1>9, <1>10 DEF Next

-----------------------------------------------------------------------------
(* The theorems                                                            *)

\* The store on disk and the one of the batch can be read back, at every moment,
\* what the process holds follows the batch, and so does what a savepoint kept.
THEOREM CatalogInvariantHolds ==
    ASSUME CatalogAssumption, Qualified
    PROVE  Spec => []CatalogInvariant
  <1>1. Init => CatalogInvariant
    BY Begins
  <1>2. CatalogInvariant /\ [Next]_vars => CatalogInvariant'
    BY StepKeeps
  <1> QED BY <1>1, <1>2, PTL DEF Spec

\* A store and a catalog of the invariant have the types the model gives them.
LEMMA StoreIsStore ==
    ASSUME NEW s \in Store
    PROVE  IsStore(s)
  BY DEF Store, IsStore, RowType

LEMMA MemoryIsMemory ==
    ASSUME NEW m \in Memory
    PROVE  IsMemory(m)
  <1>1. m.tables \in Seq([id : Nat, table : Tables, indexes : SUBSET Names])
    BY DEF Memory, EntryType
  <1>2. DOMAIN m.view \subseteq Tables /\ \A t \in DOMAIN m.view : m.view[t] \subseteq Names
    BY MemoryTypes
  <1>3. m.nextId \in Nat /\ m.access \in Versions \cup {0}
    BY MemoryTypes
  <1> QED BY <1>1, <1>2, <1>3 DEF IsMemory

\* Every variable of the catalog keeps its type, through restarts and rollbacks
\* that read it back from the heap (PersistentCatalog, rollbackBatch).
THEOREM CatalogTypes ==
    ASSUME CatalogAssumption, Qualified
    PROVE  Spec => []TypeOK
  <1>1. CatalogInvariant => TypeOK
    <2> SUFFICES ASSUME CatalogInvariant PROVE TypeOK
      OBVIOUS
    <2>1. Types
      BY DEF CatalogInvariant
    <2>2. IsStore(disk) /\ IsStore(work) /\ IsMemory(mem)
      BY <2>1, StoreIsStore, MemoryIsMemory DEF Types
    <2> QED BY <2>1, <2>2 DEF Types, TypeOK
  <1> QED BY <1>1, CatalogInvariantHolds, PTL

\* The file can always be opened again, also after a crash in the middle of any
\* call, and what a reload builds from it is what the process works with: the
\* same tables, identities and indexes (PersistentCatalog, rollbackBatch).
THEOREM CatalogAlwaysSurvives ==
    ASSUME CatalogAssumption, Qualified
    PROVE  Spec => []CatalogSurvives
  <1>1. CatalogInvariant => CatalogSurvives
    <2> SUFFICES ASSUME CatalogInvariant PROVE CatalogSurvives
      OBVIOUS
    <2>1. ~Corrupt(disk)
      <3>1. disk \in Store /\ Sound(disk)
        BY DEF CatalogInvariant, Types
      <3> QED BY <3>1, Readable
    <2>2. ASSUME up = "up"
          PROVE  /\ ~Corrupt(work)
                 /\ Load(work).view = mem.view
                 /\ Tabled(Load(work)) = Tabled(mem)
                 /\ Load(work).nextId <= mem.nextId
                 /\ \A k \in DOMAIN mem.tables : mem.tables[k].indexes = mem.view[mem.tables[k].table]
      <3>1. work \in Store /\ Sound(work) /\ mem \in Memory /\ Follows(work, mem)
        BY <2>2, WhileUp
      <3>2. ~Corrupt(work)
        BY <3>1, Readable
      <3>3. /\ Load(work).view = mem.view
            /\ Tabled(Load(work)) = Tabled(mem)
            /\ Load(work).nextId <= mem.nextId
            /\ \A k \in DOMAIN mem.tables : mem.tables[k].indexes = mem.view[mem.tables[k].table]
        BY <3>1, Agrees
      <3> QED BY <3>2, <3>3
    <2> QED BY <2>1, <2>2 DEF CatalogSurvives
  <1> QED BY <1>1, CatalogInvariantHolds, PTL

\* While the process is up every index of the catalog has exactly one runtime,
\* and the pages on record are those of the runtimes (initializeIndexes, dropIndex).
THEOREM IndexesAlwaysServed ==
    ASSUME CatalogAssumption, Qualified
    PROVE  Spec => []IndexesServed
  <1>1. CatalogInvariant => IndexesServed
    BY WhileUp DEF IndexesServed
  <1> QED BY <1>1, CatalogInvariantHolds, PTL

=============================================================================
