-------------------------------- MODULE Heap --------------------------------
(***************************************************************************)
(* Rows on slotted pages (HeapStore, SlottedPage).  A page has a directory *)
(* that grows from its head and records that are packed at its end; a row  *)
(* is found by its page, the generation of the page, its slot and the      *)
(* generation of the slot.  Bytes are cells that name the row they are of. *)
(***************************************************************************)
EXTENDS Naturals, Sequences, FiniteSets

CONSTANTS
    Tables,
    Rows,        \* encoded rows
    Size,        \* row -> its cells
    Pages,       \* page numbers
    PageSize,    \* cells of a page after its header; a slot takes one
    LastGen,     \* the last generation a slot can have (2^64 - 1)
    MaxPageGen,  \* bound on the generation of a page
    None         \* no owner, an unused cell

\* What the constants have to be.
HeapAssumption ==
    /\ Size \in [Rows -> 1..(PageSize - 1)]   \* the others are ROW_TOO_LARGE
    /\ PageSize \in Nat /\ LastGen \in Nat \ {0} /\ MaxPageGen \in Nat
    /\ Pages \subseteq Nat
    /\ None \notin Tables \cup Rows

VARIABLES
    pages,   \* page -> [owner, gen, slots, cells, lower]
    failed,  \* the last insertion failed with PAGE_FULL
    rows,    \* reference -> the table and row it was given for, while it is there
    stale    \* the references of rows that were erased or replaced

vars == <<pages, failed, rows, stale>>

-----------------------------------------------------------------------------
NoCells == [c \in 1..PageSize |-> None]
Free == {p \in Pages : pages[p].owner = None}
PagesFor(t) == {p \in Pages : pages[p].owner = t}
Vacant(page) == {i \in DOMAIN page.slots : page.slots[i].length = 0 /\ page.slots[i].gen # LastGen}
First(S) == CHOOSE i \in S : \A j \in S : i <= j
Live(page) == {i \in DOMAIN page.slots : page.slots[i].length > 0}

\* The cells of the records in slots 1..i.
Used(page, i) ==
    LET used[k \in 0..Len(page.slots)] ==
            IF k = 0 THEN 0 ELSE page.slots[k].length + used[k - 1]
    IN  used[i]

\* mutant: the slots of the directory take no room
MutFreeSpace(page) == PageSize - Used(page, Len(page.slots))

\* freeSpace
FreeSpace(page) == PageSize - Len(page.slots) - Used(page, Len(page.slots))

\* canInsert
CanInsert(page, size) ==
    IF Vacant(page) # {} THEN size <= FreeSpace(page) ELSE size + 1 <= FreeSpace(page)

\* compact: the records move to the end of the page, slot by slot.
Compacted(page) ==
    LET End(i) == PageSize - Used(page, i)   \* the cell before record i
        Owner(c) == {i \in Live(page) : End(i) < c /\ c <= End(i) + page.slots[i].length}
    IN  [page EXCEPT
            !.cells = [c \in 1..PageSize |->
                IF Owner(c) = {} THEN None
                ELSE LET i == CHOOSE i \in Owner(c) : TRUE
                     IN  page.cells[page.slots[i].offset + (c - End(i))]],
            !.slots = [i \in DOMAIN @ |-> IF i \in Live(page) THEN [@[i] EXCEPT !.offset = End(i)] ELSE @[i]],
            !.lower = End(Len(page.slots))]

\* SlottedPage::insert: the first vacant slot is used again under its next
\* generation; a slot at its last generation never is.
Inserted(page, row) ==
    LET slot == IF Vacant(page) # {} THEN First(Vacant(page)) ELSE Len(page.slots) + 1
        old == Compacted(page)
        gen == IF slot = Len(page.slots) + 1 THEN 1 ELSE page.slots[slot].gen + 1
        offset == old.lower - Size[row]
        entry == [gen |-> gen, offset |-> offset, length |-> Size[row]]
    IN  [slot |-> slot, gen |-> gen,
         page |-> [old EXCEPT
            !.slots = [i \in DOMAIN @ \cup {slot} |-> IF i = slot THEN entry ELSE @[i]],
            !.cells = [c \in 1..PageSize |-> IF offset < c /\ c <= offset + Size[row] THEN row ELSE @[c]],
            !.lower = offset]]

\* SlottedPage::insert refuses a record that does not fit.
Fits(page, row) == Size[row] + (IF Vacant(page) = {} THEN 1 ELSE 0) <= FreeSpace(page)

\* SlottedPage::erase
Erased(page, slot) ==
    LET entry == page.slots[slot]
    IN  [page EXCEPT
            !.slots[slot] = [@ EXCEPT !.offset = 0, !.length = 0],
            !.cells = [c \in 1..PageSize |->
                          IF entry.offset < c /\ c <= entry.offset + entry.length THEN None ELSE @[c]]]

Unused(page) == [page EXCEPT !.owner = None, !.slots = << >>, !.cells = NoCells, !.lower = PageSize]

-----------------------------------------------------------------------------
Init ==
    /\ pages = [p \in Pages |-> [owner |-> None, gen |-> 0, slots |-> << >>,
                                 cells |-> NoCells, lower |-> PageSize]]
    /\ failed = FALSE
    /\ rows = [r \in {} |-> None]
    /\ stale = {}

\* The page a row goes to, among pages P: the first one of the table that takes
\* it, else a new one, under its next generation.
Target(P, t, row) ==
    LET taking == {p \in Pages : P[p].owner = t /\ CanInsert(P[p], Size[row])}
    IN  IF taking # {} THEN {<<First(taking), P[First(taking)]>>}
        ELSE {<<p, [P[p] EXCEPT !.owner = t, !.gen = @ + 1]>> :
                 p \in {q \in Pages : P[q].owner = None /\ P[q].gen < MaxPageGen}}

Added(ref, t, row) == [r \in DOMAIN rows \cup {ref} |->
                          IF r = ref THEN [table |-> t, row |-> row] ELSE rows[r]]

\* HeapStore::insert
Insert(t, row) ==
    \E target \in Target(pages, t, row) :
        LET p == target[1]
            done == Inserted(target[2], row)
        IN  IF Fits(target[2], row)
            THEN /\ pages' = [pages EXCEPT ![p] = done.page]
                 /\ rows' = Added(<<p, target[2].gen, done.slot, done.gen>>, t, row)
                 /\ UNCHANGED <<failed, stale>>
            ELSE /\ failed' = TRUE
                 /\ UNCHANGED <<pages, rows, stale>>

\* requireLive and the owner and generation of the page.
Found(t, ref) ==
    LET page == pages[ref[1]]
    IN  /\ page.owner = t /\ page.gen = ref[2]
        /\ ref[3] \in Live(page) /\ page.slots[ref[3]].gen = ref[4]

\* HeapStore::read: what the cells of the record hold.
Read(ref) ==
    LET page == pages[ref[1]]
        entry == page.slots[ref[3]]
    IN  {page.cells[c] : c \in (entry.offset + 1)..(entry.offset + entry.length)}

\* HeapStore::erase: a page without rows is released.
Without(P, ref) ==
    LET page == Erased(P[ref[1]], ref[3])
    IN  [P EXCEPT ![ref[1]] = IF Live(page) = {} THEN Unused(page) ELSE page]

Erase(t, ref) ==
    /\ Found(t, ref)
    /\ pages' = Without(pages, ref)
    /\ rows' = [r \in DOMAIN rows \ {ref} |-> rows[r]]
    /\ stale' = stale \cup {ref}
    /\ UNCHANGED failed

\* replace: the new row is inserted before the old one is erased.
Replace(t, ref, row) ==
    /\ Found(t, ref)
    /\ \E target \in Target(pages, t, row) :
           LET p == target[1]
               done == Inserted(target[2], row)
               new == <<p, target[2].gen, done.slot, done.gen>>
           IN  /\ Fits(target[2], row)
               /\ pages' = Without([pages EXCEPT ![p] = done.page], ref)
               /\ rows' = [r \in (DOMAIN rows \cup {new}) \ {ref} |-> Added(new, t, row)[r]]
    /\ stale' = stale \cup {ref}
    /\ UNCHANGED failed

Next ==
    \/ \E t \in Tables, row \in Rows : Insert(t, row)
    \/ \E ref \in DOMAIN rows :
           \/ Erase(rows[ref].table, ref)
           \/ \E row \in Rows : Replace(rows[ref].table, ref, row)

Spec == Init /\ [][Next]_vars

-----------------------------------------------------------------------------
(* What a heap promises *)

\* Every variable has its type.
TypeOK ==
    /\ \A p \in Pages :
           /\ pages[p].owner \in Tables \cup {None}
           /\ pages[p].cells \in [1..PageSize -> Rows \cup {None}]
           /\ pages[p].lower \in 0..PageSize
           /\ \A i \in DOMAIN pages[p].slots : pages[p].slots[i].gen \in 1..LastGen
    /\ failed \in BOOLEAN
    /\ stale \cap DOMAIN rows = {}

\* A reference reads the row it was given for as long as the row is there,
\* wherever compaction has moved it, and nothing at all afterwards, whatever the
\* slot, the page and its number have been used for since.
ReferencesHold ==
    /\ \A ref \in DOMAIN rows : Found(rows[ref].table, ref) /\ Read(ref) = {rows[ref].row}
    /\ \A ref \in stale, t \in Tables : ~Found(t, ref)

\* scan and refsFor: every live slot is that of one row in the heap.
ScanFindsRows ==
    \A p \in Pages : \A i \in Live(pages[p]) :
        <<p, pages[p].gen, i, pages[p].slots[i].gen>> \in DOMAIN rows

\* Pages stay as validate wants them - no record over another or over the
\* directory -, none is kept without a row, and an insertion never fails on a page
\* that canInsert accepted or that was allocated for it.
PagesSound ==
    /\ ~failed
    /\ \A p \in Pages : LET page == pages[p] IN
           /\ page.owner # None <=> Live(page) # {}
           /\ page.lower >= Len(page.slots)
           /\ \A i \in Live(page) :
                  /\ page.slots[i].offset >= page.lower
                  /\ page.slots[i].offset + page.slots[i].length <= PageSize
                  /\ \A j \in Live(page) \ {i} :
                         \/ page.slots[i].offset >= page.slots[j].offset + page.slots[j].length
                         \/ page.slots[j].offset >= page.slots[i].offset + page.slots[i].length

\* All of it.
HeapServes == TypeOK /\ ReferencesHold /\ ScanFindsRows /\ PagesSound
=============================================================================
