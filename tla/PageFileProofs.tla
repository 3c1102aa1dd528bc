--------------------------- MODULE PageFileProofs ---------------------------
(***************************************************************************)
(* Proofs about PageFile for every value of its constants: the inductive   *)
(* invariant IInv, the type invariant and the cut of the journal it gives, *)
(* what a rollback leaves of the journal, lemmas about the operators of    *)
(* PageFileInvariant, and then every step of Recoverable.                  *)
(***************************************************************************)
EXTENDS PageFileInvariant, FiniteSetTheorems, SequenceTheorems, TLAPS

-----------------------------------------------------------------------------
(* Sets of pages are finite; the smaller elements of a finite set of        *)
(* integers count them.                                                     *)

\* the number of elements of S below x
Below(S, x) == Cardinality({y \in S : y < x})

LEMMA PageIds == 0 \in PageId /\ IsFiniteSet(PageId)
  BY PageFileAssumption, FS_Interval DEF PageId

LEMMA SubsetCount ==
  ASSUME NEW S, IsFiniteSet(S), NEW T \in SUBSET S
  PROVE  IsFiniteSet(T) /\ Cardinality(T) \in Nat
  BY FS_Subset, FS_CardinalityType

LEMMA StagedCount ==
  ASSUME NEW pages
  PROVE  Cardinality(Staged(pages)) \in Nat
  BY PageIds, SubsetCount DEF Staged

\* A larger element of a finite set has more elements below it.
LEMMA BelowGrows ==
  ASSUME NEW S \in SUBSET Int, IsFiniteSet(S), NEW x \in S, NEW y \in S, x < y
  PROVE  Below(S, x) < Below(S, y)
<1> DEFINE X == {z \in S : z < x}
           Y == {z \in S : z < y}
<1>1. IsFiniteSet(Y) /\ Cardinality(Y) \in Nat /\ Cardinality(X) \in Nat
  BY SubsetCount
<1>2. X \in SUBSET Y /\ x \in Y /\ x \notin X
  <2>1. \A z \in S : z \in Int
    OBVIOUS
  <2>2. \A z \in S : z < x => z < y
    BY <2>1
  <2>3. ~(x < x)
    BY <2>1
  <2> QED
    BY <2>2, <2>3
<1>3. Cardinality(X) <= Cardinality(Y) /\ Cardinality(Y) # Cardinality(X)
  BY <1>1, <1>2, FS_Subset
<1> QED
  BY <1>1, <1>3 DEF Below

\* Two elements of a set do not have the same number of elements below them.
LEMMA RankUnique ==
  ASSUME NEW S \in SUBSET Int, IsFiniteSet(S), NEW x \in S, NEW y \in S,
         Below(S, x) = Below(S, y)
  PROVE  x = y
<1>1. Below(S, x) \in Nat
  BY SubsetCount DEF Below
<1>2. ~(x < y) /\ ~(y < x)
  BY <1>1, BelowGrows
<1>3. x \in Int /\ y \in Int
  OBVIOUS
<1> QED
  BY <1>2, <1>3

\* All elements but one may be below an element of a finite set.
LEMMA BelowBound ==
  ASSUME NEW S \in SUBSET Int, IsFiniteSet(S), NEW x \in S
  PROVE  Below(S, x) \in 0 .. Cardinality(S) - 1
<1> DEFINE X == {y \in S : y < x}
<1>1. X \in SUBSET S /\ x \notin X
  <2> x \in Int
    OBVIOUS
  <2> QED
    OBVIOUS
<1>2. Cardinality(X) \in Nat /\ Cardinality(S) \in Nat
  BY SubsetCount
<1>3. Cardinality(X) <= Cardinality(S) /\ Cardinality(S) # Cardinality(X)
  BY <1>1, FS_Subset
<1> QED
  BY <1>2, <1>3 DEF Below

\* A finite set of integers has an element of every rank.
LEMMA RankExists ==
  ASSUME NEW S \in SUBSET Int, IsFiniteSet(S),
         NEW i \in 1 .. Cardinality(S)
  PROVE  \E x \in S : Below(S, x) = i - 1
<1> SUFFICES ASSUME \A x \in S : Below(S, x) # i - 1
             PROVE  FALSE
  OBVIOUS
<1> DEFINE n == Cardinality(S)
           T == (0 .. n - 1) \ {i - 1}
           rank == [x \in S |-> Below(S, x)]
<1>1. n \in Nat /\ i \in 1 .. n
  BY FS_CardinalityType
<1>2. rank \in [S -> T]
  BY BelowBound
<1>3. IsFiniteSet(T) /\ Cardinality(T) < n
  <2> HIDE DEF n
  <2> DEFINE I == 0 .. n - 1
             k == i - 1
  <2>1. IsFiniteSet(I) /\ Cardinality(I) = n
    <3>1. n - 1 \in Int /\ 0 \in Int
      BY <1>1
    <3>2. Cardinality(0 .. n - 1) = IF 0 > n - 1 THEN 0 ELSE (n - 1) - 0 + 1
      BY <3>1, FS_Interval
    <3> QED
      BY <1>1, <3>1, <3>2, FS_Interval
  <2>2. k \in I
    BY <1>1
  <2>3. IsFiniteSet(I \ {k}) /\ Cardinality(I \ {k}) = Cardinality(I) - 1
    <3> HIDE DEF I, k
    <3> QED
      BY <2>1, <2>2, FS_RemoveElement
  <2> QED
    BY <1>1, <2>1, <2>3
<1>4. PICK x \in S, y \in S : x # y /\ rank[x] = rank[y]
  <2> HIDE DEF T, rank
  <2> QED
    BY <1>2, <1>3, FS_PigeonHole
<1> QED
  BY <1>4, RankUnique

\* A finite set of integers that is not empty has a largest element.
LEMMA MaxExists ==
  ASSUME NEW S \in SUBSET Int, IsFiniteSet(S), S # {}
  PROVE  \E x \in S : \A y \in S : y <= x
<1> DEFINE n == Cardinality(S)
<1>1. n \in Nat \ {0}
  BY FS_CardinalityType, FS_EmptySet
<1>2. PICK x \in S : Below(S, x) = n - 1
  BY <1>1, RankExists
<1>3. SUFFICES ASSUME NEW y \in S, x < y PROVE FALSE
  OBVIOUS
<1>4. Below(S, y) >= n
  <2> Below(S, y) \in Nat
    BY SubsetCount DEF Below
  <2> QED
    BY <1>1, <1>2, <1>3, BelowGrows
<1>5. Below(S, y) <= n /\ (n = Below(S, y) => S = {z \in S : z < y})
  BY FS_Subset DEF Below
<1> QED
  BY <1>1, <1>4, <1>5, SubsetCount DEF Below

-----------------------------------------------------------------------------
(* The values of the helper operators.                                     *)

LEMMA FirstAndRest ==
  ASSUME NEW S, NEW s \in Seq(S), s # <<>>
  PROVE  s[1] \in S /\ Tail(s) \in Seq(S) /\ (Len(s) = 1 <=> Tail(s) = <<>>)
<1>1. Len(s) \in Nat /\ Len(s) # 0
  <2>1. Len(s) # 0
    OBVIOUS
  <2>2. Len(s) \in Nat
    OBVIOUS
  <2> QED
    BY <2>1, <2>2
<1>2. s[1] \in S
  BY <1>1
<1>3. Tail(s) \in Seq(S) /\ Len(Tail(s)) = Len(s) - 1
  BY <1>1
<1>4. Len(s) = 1 <=> Tail(s) = <<>>
  <2> DEFINE t == Tail(s)
  <2>1. t \in Seq(S) /\ (Len(s) = 1 <=> Len(t) = 0)
    BY <1>1, <1>3
  <2> HIDE DEF t
  <2>2. t \in Seq(S) => (Len(t) = 0 <=> t = <<>>)
    OBVIOUS
  <2> QED
    BY <2>1, <2>2 DEF t
<1> QED
  BY <1>2, <1>3, <1>4

LEMMA FixedContents ==
  /\ Absent \in Content /\ Torn \in Content
  /\ \A n \in Nat : Header(n) \in Content /\ Free(n) \in Content
  /\ \A n \in Nat, v \in Vals : Data(n, v) \in Content
  BY DEF Content, Absent, Torn, Header, Free, Data

LEMMA FixedBlocks ==
  /\ Body \in Block /\ TornBlock \in Block
  /\ \A n \in Nat : Mark(n) \in Block /\ AbortBlock(n) \in Block
  BY DEF Block, Body, TornBlock, Mark, AbortBlock

LEMMA FixedRecords == NoCkpt \in Record /\ TornCkpt \in Record
  BY DEF Record, NoCkpt, TornCkpt

LEMMA EmptyFileType == EmptyFile \in File /\ NoPages \in PageMap
  BY FixedContents DEF EmptyFile, NoPages, File, PageMap

LEMMA NoSlotsType ==
  NoSlots \in [Slots -> Slot \cup {None}] /\ TornSlots \in [Slots -> Slot \cup {None}]
<1>1. TornSlot \in Slot
  BY PageIds, FixedContents DEF TornSlot, Slot
<1> QED
  BY <1>1 DEF NoSlots, TornSlots

LEMMA OverlayType ==
  ASSUME NEW file \in File, NEW pages \in PageMap
  PROVE  Overlay(file, pages) \in File
  BY DEF Overlay, File, PageMap

LEMMA ResizeType ==
  ASSUME NEW file \in File, NEW n
  PROVE  Resize(file, n) \in File
  BY FixedContents DEF Resize, File

LEMMA JournalType ==
  ASSUME NEW ext \in ExtentType, NEW lsn \in Nat, NEW s \in Nat
  PROVE  /\ Journal(ext, lsn, s) \in Seq(Block)
         /\ \A i \in DOMAIN Journal(ext, lsn, s) : Journal(ext, lsn, s)[i].kind # "mark"
<1> DEFINE redo == RedoBlock(ext, lsn, s)
           n == BodyLength(ext.pages)
           bodies == [i \in 1 .. n |-> Body]
<1>1. redo \in Block /\ redo.kind = "redo"
  BY DEF RedoBlock, Block, ExtentType
<1>2. n \in Nat
  BY StagedCount DEF BodyLength
<1>3. bodies \in Seq(Block) /\ Len(bodies) = n /\ \A i \in 1 .. n : bodies[i] = Body
  BY <1>2, FixedBlocks
<1>4. <<redo>> \in Seq(Block) /\ Len(<<redo>>) = 1 /\ <<redo>>[1] = redo
  BY <1>1
<1>5. Journal(ext, lsn, s) = <<redo>> \o bodies
  BY DEF Journal
<1> HIDE DEF redo, bodies, n
<1>6. /\ Journal(ext, lsn, s) \in Seq(Block)
      /\ Len(Journal(ext, lsn, s)) = n + 1
      /\ \A i \in 1 .. n + 1 :
           Journal(ext, lsn, s)[i] = IF i = 1 THEN redo ELSE bodies[i - 1]
  BY <1>2, <1>3, <1>4, <1>5
<1>7. Body.kind # "mark"
  BY DEF Body
<1> QED
  BY <1>1, <1>2, <1>3, <1>6, <1>7

LEMMA StageType ==
  ASSUME NEW b \in Batch, NEW p \in PageId, NEW content \in Content
  PROVE  /\ Stage(b, p, content) \in Batch
         /\ Stage(b, p, content).start = b.start
         /\ Stage(b, p, content).published = b.published
         /\ Stage(b, p, content).doomed = b.doomed
  BY DEF Stage, Batch, PageMap

LEMMA DoomType ==
  ASSUME NEW b \in Batch
  PROVE  /\ [b EXCEPT !.doomed = TRUE] \in Batch
         /\ [b EXCEPT !.doomed = TRUE].start = b.start
         /\ [b EXCEPT !.doomed = TRUE].published = b.published
         /\ [b EXCEPT !.doomed = TRUE].doomed
  BY DEF Batch

LEMMA FreeListType ==
  ASSUME NEW file \in File
  PROVE  FreeList(file) \in Seq(Ref)
<1> DEFINE S == FreeIds(file)
           n == Cardinality(S)
<1>1. S \in SUBSET Int /\ S \in SUBSET PageId /\ IsFiniteSet(S)
  BY PageIds, SubsetCount, PageFileAssumption DEF FreeIds, PageId
<1>2. n \in Nat
  BY <1>1, SubsetCount, FS_CardinalityType
<1>3. \A i \in 1 .. n : \E q \in S : Cardinality({r \in S : r < q}) = i - 1
  BY <1>1, RankExists DEF Below
<1>4. \A i \in 1 .. n : FreeList(file)[i] \in Ref
  <2> SUFFICES ASSUME NEW i \in 1 .. n PROVE FreeList(file)[i] \in Ref
    OBVIOUS
  <2> DEFINE p == CHOOSE q \in S : Cardinality({r \in S : r < q}) = i - 1
  <2>1. p \in S
    BY <1>3
  <2>2. p \in PageId /\ file[p].n \in Nat
    BY <1>1, <2>1 DEF File, Content
  <2>3. FreeList(file)[i] = [id |-> p, gen |-> file[p].n]
    BY DEF FreeList
  <2> QED
    BY <2>2, <2>3 DEF Ref
<1>5. FreeList(file) = [i \in 1 .. n |-> FreeList(file)[i]]
  BY DEF FreeList
<1> HIDE DEF n
<1> QED
  BY <1>2, <1>4, <1>5

LEMMA ActivePagesType ==
  ASSUME NEW file \in File
  PROVE  ActivePages(file) \in [PageId -> Nat]
  BY DEF ActivePages, File, Content

LEMMA SlotImagesType ==
  ASSUME dwb \in [Slots -> Slot \cup {None}]
  PROVE  SlotImages \in PageMap
<1> SUFFICES ASSUME NEW p \in PageId
             PROVE  SlotImages[p] \in Content \cup {None}
  BY DEF SlotImages, PageMap
<1> DEFINE holders == {s \in Copied : dwb[s].id = p}
<1>1. CASE holders = {}
  BY <1>1 DEF SlotImages
<1>2. CASE holders # {}
  <2>1. IsFiniteSet(Slots) /\ holders \in SUBSET Slots /\ holders \in SUBSET Int
    BY PageFileAssumption, FS_Interval DEF Slots, Copied
  <2>2. \E s \in holders : \A t \in holders : t <= s
    <3> HIDE DEF holders
    <3> QED
      BY <1>2, <2>1, SubsetCount, MaxExists
  <2>3. (CHOOSE s \in holders : \A t \in holders : t <= s) \in holders
    BY <2>2
  <2>4. \A s \in holders : dwb[s].image \in Content
    BY DEF Slot, Copied
  <2> QED
    BY <1>2, <2>3, <2>4 DEF SlotImages
<1> QED
  BY <1>1, <1>2

LEMMA SlotPagesType ==
  ASSUME dwb \in [Slots -> Slot \cup {None}], NEW pages \in PageMap
  PROVE  SlotPages(pages) \in [Slots -> Slot \cup {None}]
<1> SUFFICES ASSUME NEW s \in Slots
             PROVE  SlotPages(pages)[s] \in Slot \cup {None}
  BY DEF SlotPages
<1> DEFINE mine == {p \in Staged(pages) :
                     Cardinality({q \in Staged(pages) : q < p}) = s - 1}
           p1 == CHOOSE p \in mine : TRUE
<1>1. CASE mine = {}
  BY <1>1 DEF SlotPages
<1>2. CASE mine # {}
  <2>1. p1 \in Staged(pages)
    BY <1>2
  <2>2. [id |-> p1, image |-> pages[p1], whole |-> TRUE] \in Slot
    BY <2>1 DEF Staged, Slot, PageMap
  <2>3. SlotPages(pages)[s] = [id |-> p1, image |-> pages[p1], whole |-> TRUE]
    BY <1>2 DEF SlotPages
  <2> QED
    BY <2>2, <2>3
<1> QED
  BY <1>1, <1>2

\* What a staging that was cut short leaves in the slots.
LEMMA PartSlotsType ==
  ASSUME DiskOK, queue[1].pages \in PageMap
  PROVE  /\ Unheaded \subseteq [Slots -> Slot \cup {None}]
         /\ HalfStaged \subseteq [Slots -> Slot \cup {None}]
<1> DEFINE staged == SlotPages(queue[1].pages)
<1>1. dwb \in [Slots -> Slot \cup {None}] /\ staged \in [Slots -> Slot \cup {None}]
  BY SlotPagesType DEF DiskOK
<1>2. TornSlot \in Slot
  BY PageIds, FixedContents DEF TornSlot, Slot
<1>3. \A s \in Slots : staged[s] # dwb[s] => staged[s] \in Slot
  <2> SUFFICES ASSUME NEW s \in Slots, staged[s] # dwb[s] PROVE staged[s] \in Slot
    OBVIOUS
  <2> DEFINE mine == {p \in Staged(queue[1].pages) :
                       Cardinality({q \in Staged(queue[1].pages) : q < p}) = s - 1}
             p1 == CHOOSE p \in mine : TRUE
  <2>1. staged[s] = IF mine = {} THEN dwb[s]
                    ELSE [id |-> p1, image |-> queue[1].pages[p1], whole |-> TRUE]
    BY DEF SlotPages
  <2>2. mine # {} => p1 \in PageId /\ queue[1].pages[p1] \in Content
    <3>1. mine # {} => p1 \in mine
      OBVIOUS
    <3> QED
      BY <3>1 DEF Staged, PageMap
  <2> HIDE DEF mine, p1
  <2>3. CASE mine = {}
    BY <2>1, <2>3
  <2>4. CASE mine # {}
    BY <2>1, <2>2, <2>4 DEF Slot
  <2> QED
    BY <2>3, <2>4
<1>4. \A slot \in Slot, image \in Content : [slot EXCEPT !.image = image] \in Slot
  BY DEF Slot
<1>5. \A slot \in Slot : slot.image \in Content
  BY DEF Slot
<1>6. Unheaded \subseteq [Slots -> Slot \cup {None}]
  <2> SUFFICES ASSUME NEW d \in Unheaded PROVE d \in [Slots -> Slot \cup {None}]
    OBVIOUS
  <2>1. d = [s \in Slots |-> d[s]]
    BY DEF Unheaded
  <2>2. \A s \in Slots :
          \/ d[s] = dwb[s]
          \/ dwb[s] # None /\ staged[s] # dwb[s]
             /\ d[s] \in {TornSlot, [dwb[s] EXCEPT !.image = staged[s].image]}
    BY DEF Unheaded
  <2>3. \A s \in Slots : d[s] \in Slot \cup {None}
    <3> HIDE DEF staged
    <3> QED
      BY <1>1, <1>2, <1>3, <1>4, <1>5, <2>2
  <2> QED
    BY <2>1, <2>3
<1>7. HalfStaged \subseteq [Slots -> Slot \cup {None}]
  <2> SUFFICES ASSUME NEW d \in HalfStaged PROVE d \in [Slots -> Slot \cup {None}]
    OBVIOUS
  <2>1. d = [s \in Slots |-> d[s]]
    BY DEF HalfStaged
  <2>2. \A s \in Slots :
          \/ d[s] = dwb[s]
          \/ staged[s] # dwb[s] /\ d[s] \in {staged[s], TornSlot}
          \/ staged[s] # dwb[s] /\ \E old \in OldImages : d[s] = [staged[s] EXCEPT !.image = old]
    BY DEF HalfStaged
  <2>3. \A old \in OldImages : old \in Content
    BY OldImagesAssumption
  <2>4. \A s \in Slots : d[s] \in Slot \cup {None}
    <3> HIDE DEF staged
    <3> SUFFICES ASSUME NEW s \in Slots PROVE d[s] \in Slot \cup {None}
      OBVIOUS
    <3>1. CASE d[s] = dwb[s]
      BY <1>1, <3>1
    <3>2. CASE staged[s] # dwb[s] /\ d[s] \in {staged[s], TornSlot}
      BY <1>2, <1>3, <3>2
    <3>3. CASE staged[s] # dwb[s] /\ \E old \in OldImages : d[s] = [staged[s] EXCEPT !.image = old]
      BY <1>3, <1>4, <2>3, <3>3
    <3> QED
      BY <2>2, <3>1, <3>2, <3>3
  <2> QED
    BY <2>1, <2>4
<1> QED
  BY <1>6, <1>7

LEMMA LargerType ==
  ASSUME NEW a \in Nat, NEW b \in Nat
  PROVE  Larger(a, b) \in Nat /\ Smaller(a, b) \in Nat
  BY DEF Larger, Smaller

LEMMA RecordsType == Records \in Nat
  BY StagedCount DEF Records, BodyLength

\* What the recovery scan finds at its offset.
LEMMA ScanType ==
  ASSUME DiskOK, off \in Nat
  PROVE  /\ Kind(1) = "abort" => NextExtent.lsn \in Nat
         /\ Kind(1) = "redo" => NextExtent.lsn \in Nat /\ NextExtent.pages \in PageMap
         /\ Kind(Records + 2) = "mark" => MarkAt.seq \in Nat
<1>1. \A n \in Nat \ {0} : Kind(n) # "end" =>
        wal[off + n] \in Block /\ wal[off + n].kind = Kind(n)
  <2> SUFFICES ASSUME NEW n \in Nat \ {0}, Kind(n) # "end"
               PROVE  wal[off + n] \in Block /\ wal[off + n].kind = Kind(n)
    OBVIOUS
  <2>1. Has(n)
    BY DEF Kind
  <2>2. off + n \in 1 .. Len(wal)
    BY <2>1 DEF Has, DiskOK
  <2> QED
    BY <2>1, <2>2 DEF Kind, DiskOK
<1>2. \A b \in Block :
        /\ b.kind = "abort" => b.lsn \in Nat
        /\ b.kind = "redo" => b.lsn \in Nat /\ b.pages \in PageMap
        /\ b.kind = "mark" => b.seq \in Nat
  BY DEF Block
<1>3. Kind(1) \in {"abort", "redo"} => NextExtent \in Block /\ NextExtent.kind = Kind(1)
  BY <1>1 DEF NextExtent
<1>4. Kind(Records + 2) = "mark" => MarkAt \in Block /\ MarkAt.kind = "mark"
  <2>1. off + Records + 2 = off + (Records + 2) /\ Records + 2 \in Nat \ {0}
    BY RecordsType
  <2> QED
    BY <1>1, <2>1 DEF MarkAt
<1> QED
  BY <1>2, <1>3, <1>4

-----------------------------------------------------------------------------
(* The type invariant is inductive, given Control: one step per action.    *)

LEMMA ClosedType ==
  ASSUME Closed, refused' \in BOOLEAN, history' \in Seq(File), history' # <<>>,
         usedLsn' \in Nat, crashes' \in Nat
  PROVE  MemoryOK' /\ ProgressOK'
<1>1. MemoryOK'
  BY FixedRecords, PageFileAssumption DEF Closed, MemoryOK
<1>2. ProgressOK'
  BY DEF Closed, ProgressOK, Programs, Committings, Applying
<1> QED
  BY <1>1, <1>2

LEMMA InitType == Init => TypeOK
<1> SUFFICES ASSUME Init PROVE TypeOK
  OBVIOUS
<1>1. DiskOK
  BY EmptyFileType, FixedRecords, NoSlotsType DEF Init, DiskOK
<1>2. MemoryOK
  BY FixedRecords DEF Init, MemoryOK
<1>3. ProgressOK
  <2>1. [EmptyFile EXCEPT ![0] = Header(1)] \in File
    BY EmptyFileType, FixedContents DEF File
  <2>2. \A file \in File : <<file>> \in Seq(File) /\ <<file>> # <<>>
    OBVIOUS
  <2>3. history = <<[EmptyFile EXCEPT ![0] = Header(1)]>>
    BY DEF Init
  <2>4. history \in Seq(File) /\ history # <<>>
    BY <2>1, <2>2, <2>3
  <2>5. queue \in Seq(ExtentType)
    BY EmptySeq DEF Init
  <2>6. /\ pc = "down" /\ cont = "idle" /\ queue = <<>> /\ off = 0 /\ applied = 0
        /\ refused = FALSE /\ usedLsn = 0 /\ crashes = 0
    BY DEF Init
  <2> QED
    BY <2>4, <2>5, <2>6 DEF ProgressOK, Programs, Committings, Applying
<1> QED
  BY <1>1, <1>2, <1>3 DEF TypeOK

\* A batch may only be staged into: what each change leaves unchanged.
LEMMA BatchOnlyType ==
  ASSUME TypeOK, BatchOnly, pc = "idle",
         batch' \in Batch \cup {None}, count' \in Nat,
         active' \in [PageId -> Nat], free' \in Seq(Ref)
  PROVE  TypeOK'
  BY DEF BatchOnly, TypeOK, DiskOK, MemoryOK, ProgressOK, Programs, Committings, Applying, Truncating, Reopening, disk, allocation, lsns, recovery, ghosts

LEMMA RecoverType ==
  ASSUME TypeOK, Control, Recover
  PROVE  TypeOK'
<1>1. CASE RecoverDoubleWrite
  BY <1>1 DEF RecoverDoubleWrite, TypeOK, DiskOK, MemoryOK, ProgressOK, Programs,
     Committings, Applying, Truncating, Reopening, disk, allocation, lsns,
     recovery, ghosts
<1>10. CASE ClearRestored
  <2>1. RedoStart(ck) \in Nat
    BY DEF RedoStart, Record, TypeOK, MemoryOK
  <2> QED
    BY <1>10, <2>1, NoSlotsType DEF ClearRestored, Scan, TypeOK, DiskOK, MemoryOK, ProgressOK,
       Programs, Committings, Applying, Truncating, Reopening, disk, allocation,
       lsns, recovery, ghosts
<1>2. CASE RedoRefuse
  BY <1>2, ClosedType DEF RedoRefuse, Refuse, TypeOK, DiskOK, MemoryOK,
     ProgressOK, Programs, Committings, Applying, Truncating, Reopening,
     disk, allocation, lsns, recovery, ghosts
<1>3. CASE RedoAbort
  BY <1>3, ScanType DEF RedoAbort, Larger, TypeOK, DiskOK, MemoryOK,
     ProgressOK, Programs, Committings, Applying, Truncating, Reopening,
     disk, allocation, lsns, recovery, ghosts
<1>4. CASE RedoExtent
  BY <1>4, ScanType, OverlayType DEF RedoExtent, RedoEnd, Larger, TypeOK,
     DiskOK, MemoryOK, ProgressOK, Programs, Committings, Applying,
     Truncating, Reopening, disk, allocation, lsns, recovery, ghosts
<1>5. CASE RedoSync
  BY <1>5, RecordsType, ResizeType DEF RedoSync, TypeOK, DiskOK, MemoryOK,
     ProgressOK, Programs, Committings, Applying, Truncating, Reopening,
     disk, allocation, lsns, recovery, ghosts
<1>6. CASE RedoFinish
  <2>1. seq' \in Nat /\ nextLsn' \in Nat \ {0}
    <3>1. seq \in Nat /\ nextLsn \in Nat \ {0} /\ applied \in Nat
      BY DEF TypeOK, MemoryOK, ProgressOK
    <3>2. Kind(1) = "redo" => NextExtent.lsn \in Nat
      BY ScanType DEF TypeOK, ProgressOK
    <3>3. seq' \in Nat
      BY <1>6, <3>1 DEF RedoFinish, Larger
    <3>4. nextLsn' \in Nat \ {0}
      BY <1>6, <3>1, <3>2 DEF RedoFinish, Larger
    <3> QED
      BY <3>3, <3>4
  <2> DEFINE record == [ck EXCEPT !.lsn = Larger(ck.lsn, nextLsn' - 1)]
  <2>2. ck \in Record /\ ck.lsn \in Nat
    BY DEF TypeOK, MemoryOK, Record
  <2>3. Larger(ck.lsn, nextLsn' - 1) \in Nat
    <3> \A n \in Nat \ {0} : n - 1 \in Nat
      OBVIOUS
    <3>1. nextLsn' - 1 \in Nat
      BY <2>1
    <3> QED
      BY <2>2, <3>1, LargerType
  <2>4. record \in Record
    BY <2>2, <2>3 DEF Record
  <2>5. [record EXCEPT !.state = "ok", !.cutoff = 0, !.seq = seq'] \in Record
    <3> HIDE DEF record
    <3> QED
      BY <2>1, <2>4 DEF Record
  <2>6. ck' \in Record /\ ckpt' \in Record /\ pc' \in {"redoCkpt", "redoTruncate"}
    <3> HIDE DEF record
    <3> QED
      BY <1>6, <2>4, <2>5, FixedRecords DEF RedoFinish, TypeOK, DiskOK, record
  <2> QED
    BY <1>6, <2>1, <2>6 DEF RedoFinish, TypeOK, DiskOK, MemoryOK, ProgressOK,
       Programs, Committings, Applying, Truncating, Reopening, disk, allocation,
       lsns, recovery, ghosts
<1>7. CASE RedoCkpt
  BY <1>7 DEF RedoCkpt, TypeOK, DiskOK, MemoryOK, ProgressOK, Programs,
     Committings, Applying, Truncating, Reopening, disk, allocation, lsns,
     recovery, ghosts
<1>8. CASE RedoTruncate
  BY <1>8 DEF RedoTruncate, TypeOK, DiskOK, MemoryOK, ProgressOK, Programs,
     Committings, Applying, Truncating, Reopening, disk, allocation, lsns,
     recovery, ghosts
<1>9. CASE Rebuild
  <2>1. CASE Consistent(main)
    <3>1. main[0].n \in Nat
      BY PageIds DEF TypeOK, DiskOK, File, Content
    <3>2. ActivePages(main) \in [PageId -> Nat] /\ FreeList(main) \in Seq(Ref)
      BY FreeListType, ActivePagesType DEF TypeOK, DiskOK
    <3> QED
      BY <1>9, <2>1, <3>1, <3>2 DEF Rebuild, TypeOK, DiskOK, MemoryOK, ProgressOK,
         Programs, Committings, Applying, Truncating, Reopening, disk, allocation,
         lsns, recovery, ghosts
  <2>2. CASE ~Consistent(main)
    BY <1>9, <2>2, ClosedType DEF Rebuild, Refuse, TypeOK, DiskOK, MemoryOK, ProgressOK,
         Programs, Committings, Applying, Truncating, Reopening, disk, allocation,
         lsns, recovery, ghosts
  <2> QED
    BY <2>1, <2>2
<1> QED
  BY <1>1, <1>2, <1>3, <1>4, <1>5, <1>6, <1>7, <1>8, <1>9, <1>10 DEF Recover

LEMMA OpeningType ==
  ASSUME TypeOK, Control, Opening
  PROVE  TypeOK'
<1>1. CASE Create
  <2>1. main' \in File
    BY <1>1, PageIds, FixedContents DEF Create, File, TypeOK, DiskOK
  <2>2. mode' \in [group : BOOLEAN, dw : BOOLEAN]
    BY <1>1, PageFileAssumption DEF Create
  <2>3. ckpt.seq \in Nat /\ ckpt.lsn + 1 \in Nat \ {0}
    BY DEF TypeOK, DiskOK, Record
  <2> QED
    BY <1>1, <2>1, <2>2, <2>3 DEF Create, TypeOK, DiskOK, MemoryOK, ProgressOK,
       Programs, Committings, Applying, Truncating, Reopening, disk, allocation,
       lsns, recovery, ghosts
<1>2. CASE Open
  <2>1. mode' \in [group : BOOLEAN, dw : BOOLEAN]
    BY <1>2, PageFileAssumption DEF Open
  <2>2. ckpt.seq \in Nat /\ ckpt.lsn + 1 \in Nat \ {0} /\ RedoStart(ckpt) \in Nat
    BY DEF RedoStart, TypeOK, DiskOK, Record
  <2>3. Overlay(main, SlotImages) \in File
    BY OverlayType, SlotImagesType DEF TypeOK, DiskOK
  <2>4. main' \in File /\ off' \in Nat /\ pc' \in {"doubleWrite", "rebuild", "redo"}
    BY <1>2, <2>2, <2>3 DEF Open, Scan, TypeOK, DiskOK
  <2> QED
    BY <1>2, <2>1, <2>2, <2>4 DEF Open, TypeOK, DiskOK, MemoryOK, ProgressOK,
       Programs, Committings, Applying, Truncating, Reopening, disk, allocation,
       lsns, recovery, ghosts
<1>3. CASE OpenRefused
  BY <1>3, ClosedType DEF OpenRefused, Refuse, TypeOK, DiskOK, MemoryOK,
     ProgressOK, Programs, Committings, Applying, Truncating, Reopening,
     disk, allocation, lsns, recovery, ghosts
<1>4. CASE Recover
  BY <1>4, RecoverType
<1>5. CASE SlotsRefused
  <2>1. DiskOK'
    BY <1>5, OverlayType, SlotImagesType DEF SlotsRefused, TypeOK, DiskOK
  <2>2. /\ Closed /\ refused' \in BOOLEAN /\ history' \in Seq(File) /\ history' # <<>>
        /\ usedLsn' \in Nat /\ crashes' \in Nat
    BY <1>5 DEF SlotsRefused, TypeOK, ProgressOK, ghosts
  <2> QED
    BY <2>1, <2>2, ClosedType DEF TypeOK
<1> QED
  BY <1>1, <1>2, <1>3, <1>4, <1>5 DEF Opening

LEMMA ChangingType ==
  ASSUME TypeOK, Control, Changing
  PROVE  TypeOK'
<1>1. CASE Begin
  BY <1>1, EmptyFileType DEF Begin, Idle, Batch, TypeOK, DiskOK, MemoryOK,
     ProgressOK, Programs, Committings, Applying, Truncating, Reopening,
     disk, allocation, lsns, recovery, ghosts
<1>2. CASE Write
  <2>1. batch \in Batch
    BY <1>2 DEF Write, Working, InBatch, TypeOK, MemoryOK
  <2>2. \A q \in PageId, v \in Vals : Stage(batch, q, Data(active[q], v)) \in Batch
    BY <2>1, StageType, FixedContents DEF TypeOK, MemoryOK
  <2>3. batch' \in Batch
    BY <1>2, <2>1, <2>2, DoomType DEF Write
  <2> QED
    BY <1>2, <2>3, BatchOnlyType
       DEF Write, Working, InBatch, allocation, TypeOK, MemoryOK
<1>3. CASE AllocateReused
  <2> DEFINE ref == free[Len(free)]
  <2>1. batch \in Batch /\ ref \in Ref
    BY <1>3 DEF AllocateReused, Working, InBatch, TypeOK, MemoryOK
  <2>2. ref.id \in PageId /\ Reused(ref) \in Nat
    BY <2>1 DEF Ref, Reused
  <2>3. \A v \in Vals : Stage(batch, ref.id, Data(Reused(ref), v)) \in Batch
    BY <2>1, <2>2, StageType, FixedContents
  <2>4. [active EXCEPT ![ref.id] = Reused(ref)] \in [PageId -> Nat]
    BY <2>2 DEF TypeOK, MemoryOK
  <2>5. SubSeq(free, 1, Len(free) - 1) \in Seq(Ref)
    BY <1>3 DEF AllocateReused, TypeOK, MemoryOK
  <2>6. batch' \in Batch /\ active' \in [PageId -> Nat] /\ free' \in Seq(Ref)
    <3> HIDE DEF ref
    <3> QED
      BY <1>3, <2>1, <2>3, <2>4, <2>5, DoomType
         DEF AllocateReused, TypeOK, MemoryOK, ref
  <2> QED
    BY <1>3, <2>6, BatchOnlyType
       DEF AllocateReused, Working, InBatch, TypeOK, MemoryOK
<1>4. CASE AllocateAppended
  <2>1. batch \in Batch /\ count \in PageId /\ count + 1 \in Nat
    BY <1>4, PageFileAssumption
       DEF AllocateAppended, Working, InBatch, PageId, TypeOK, MemoryOK
  <2>2. \A v \in Vals : Stage(batch, count, Data(1, v)) \in Batch
    BY <2>1, StageType, FixedContents
  <2>3. \A b \in Batch : Stage(b, 0, Header(count + 1)) \in Batch
    BY <2>1, PageIds, StageType, FixedContents
  <2>4. batch' \in Batch
    BY <1>4, <2>1, <2>2, <2>3, DoomType DEF AllocateAppended
  <2>5. count' \in Nat /\ active' \in [PageId -> Nat]
    BY <1>4, <2>1 DEF AllocateAppended, TypeOK, MemoryOK
  <2> QED
    BY <1>4, <2>4, <2>5, BatchOnlyType
       DEF AllocateAppended, Working, InBatch, TypeOK, MemoryOK
<1>5. CASE Release
  <2>1. batch \in Batch
    BY <1>5 DEF Release, Working, InBatch, TypeOK, MemoryOK
  <2>2. PICK q \in PageId :
          IF Fits(batch, q)
          THEN /\ batch' = Stage(batch, q, Free(active[q]))
               /\ active' = [active EXCEPT ![q] = 0]
               /\ free' = Append(free, [id |-> q, gen |-> active[q]])
          ELSE batch' = [batch EXCEPT !.doomed = TRUE] /\ UNCHANGED <<active, free>>
    BY <1>5 DEF Release
  <2>3. active[q] \in Nat /\ [id |-> q, gen |-> active[q]] \in Ref
    BY DEF Ref, TypeOK, MemoryOK
  <2>4. Stage(batch, q, Free(active[q])) \in Batch
    BY <2>1, <2>3, StageType, FixedContents
  <2>5. batch' \in Batch
    BY <2>1, <2>2, <2>4, DoomType
  <2>6. active' \in [PageId -> Nat] /\ free' \in Seq(Ref)
    <3>1. active \in [PageId -> Nat] /\ free \in Seq(Ref)
      BY DEF TypeOK, MemoryOK
    <3>2. CASE Fits(batch, q)
      <4>1. active' = [active EXCEPT ![q] = 0]
        BY <2>2, <3>2
      <4>2. free' = Append(free, [id |-> q, gen |-> active[q]])
        BY <2>2, <3>2
      <4>3. active' \in [PageId -> Nat]
        BY <3>1, <4>1
      <4> QED
        BY <2>3, <3>1, <4>2, <4>3
    <3>3. CASE ~Fits(batch, q)
      BY <2>2, <3>1, <3>3
    <3> QED
      BY <3>2, <3>3
  <2> QED
    BY <1>5, <2>5, <2>6, BatchOnlyType
       DEF Release, Working, InBatch, TypeOK, MemoryOK
<1>6. CASE TakeSavepoint
  BY <1>6 DEF TakeSavepoint, Working, InBatch, Saved, Batch, TypeOK, DiskOK,
     MemoryOK, ProgressOK, Programs, Committings, Applying, Truncating,
     Reopening, disk, allocation, lsns, recovery, ghosts
<1>7. CASE RestoreSavepoint
  BY <1>7, BatchOnlyType DEF RestoreSavepoint, RestoreAllocation, Working,
     InBatch, Saved, Batch, TypeOK, DiskOK, MemoryOK, ProgressOK, Programs,
     Committings, Applying, Truncating, Reopening, disk, allocation, lsns,
     recovery, ghosts
<1>8. CASE Rollback
  <2> DEFINE kept == JournalBefore(batch)
  <2>1. batch \in Batch /\ batch.start \in Nat /\ batch.lsn \in Nat
    BY <1>8 DEF Rollback, InBatch, TypeOK, MemoryOK, Batch
  <2>2. kept \in Seq(Block) /\ Len(kept) = Smaller(batch.start, Len(wal))
    BY <2>1 DEF JournalBefore, Smaller, TypeOK, DiskOK
  <2>3. <<AbortBlock(batch.lsn), Mark(0)>> \in Seq(Block)
    BY <2>1, FixedBlocks
  <2>4. wal' \in Seq(Block) /\ Len(wal') >= Len(kept)
    <3> DEFINE abort == <<AbortBlock(batch.lsn), Mark(0)>>
    <3>1. wal' = kept \/ wal' = kept \o abort
      BY <1>8 DEF Rollback
    <3>2. abort \in Seq(Block) /\ Len(abort) = 2
      BY <2>3
    <3> HIDE DEF kept, abort
    <3>3. kept \o abort \in Seq(Block) /\ Len(kept \o abort) >= Len(kept)
      BY <2>2, <3>2
    <3>4. kept \in Seq(Block) /\ Len(kept) >= Len(kept)
      BY <2>2
    <3> QED
      BY <3>1, <3>3, <3>4
  <2>5. walSynced' \in 0 .. Len(wal')
    <3>1. walSynced' = Smaller(walSynced, Len(kept)) /\ walSynced \in Nat
      BY <1>8 DEF Rollback, TypeOK, DiskOK
    <3>2. Len(kept) \in Nat
      BY <2>2
    <3> HIDE DEF kept
    <3> QED
      BY <2>4, <3>1, <3>2 DEF Smaller
  <2>6. DiskOK'
    BY <1>8, <2>4, <2>5 DEF Rollback, TypeOK, DiskOK
  <2>7. nextLsn' \in Nat \ {0}
    BY <1>8, <2>1 DEF Rollback, Larger, TypeOK, MemoryOK
  <2>8. MemoryOK'
    BY <1>8, <2>1, <2>7
       DEF Rollback, RestoreAllocation, Batch, TypeOK, MemoryOK
  <2>9. ProgressOK'
    BY <1>8 DEF Rollback, InBatch, TypeOK, ProgressOK, Programs, Committings,
       Applying, recovery, ghosts
  <2> QED
    BY <2>6, <2>8, <2>9 DEF TypeOK
<1>9. CASE SyncAbort
  BY <1>9 DEF SyncAbort, TypeOK, DiskOK, MemoryOK, ProgressOK, Programs,
     Committings, Applying, Truncating, Reopening, disk, allocation, lsns,
     recovery, ghosts
<1> QED
  BY <1>1, <1>2, <1>3, <1>4, <1>5, <1>6, <1>7, <1>8, <1>9 DEF Changing

LEMMA CommittingType ==
  ASSUME TypeOK, Control, Committing
  PROVE  TypeOK'
<1>1. CASE CommitEmpty
  BY <1>1 DEF CommitEmpty, Working, InBatch, TypeOK, DiskOK, MemoryOK,
     ProgressOK, Programs, Committings, Applying, Truncating, Reopening,
     disk, allocation, lsns, recovery, ghosts
<1>2. CASE CommitAppend
  <2> DEFINE staged == Stage(batch, 0, Header(count))
             extent == [pages |-> staged.pages, count |-> count]
             journal == Journal(extent, batch.lsn, seq + 1)
  <2>1. batch \in Batch /\ batch.lsn \in Nat
    BY <1>2 DEF CommitAppend, Working, InBatch, TypeOK, MemoryOK, Batch
  <2>2. staged \in Batch
    BY <2>1, PageIds, StageType, FixedContents DEF TypeOK, MemoryOK
  <2>3. extent \in ExtentType
    <3> HIDE DEF staged
    <3> QED
      BY <2>2 DEF Batch, ExtentType, TypeOK, MemoryOK
  <2>6. seq + 1 \in Nat
    BY DEF TypeOK, MemoryOK
  <2>4. journal \in Seq(Block)
    <3> HIDE DEF extent
    <3> QED
      BY <2>1, <2>3, <2>6, JournalType
  <2>5. /\ batch' \in Batch
        /\ wal' \in Seq(Block) /\ Len(wal') >= Len(wal)
        /\ pc' \in {"appended", "idle"}
    <3> HIDE DEF staged, journal
    <3>1. CASE Fits(batch, 0)
      <4>1. batch' = staged /\ wal' = wal \o journal /\ pc' = "appended"
        BY <1>2, <3>1 DEF CommitAppend, staged, journal
      <4> QED
        BY <2>2, <2>4, <4>1 DEF TypeOK, DiskOK
    <3>2. CASE ~Fits(batch, 0)
      BY <1>2, <2>1, <3>2, DoomType
         DEF CommitAppend, Working, InBatch, TypeOK, DiskOK
    <3> QED
      BY <3>1, <3>2
  <2> HIDE DEF staged, extent, journal
  <2> QED
    <3>1. DiskOK'
      BY <1>2, <2>5 DEF CommitAppend, TypeOK, DiskOK
    <3>2. MemoryOK'
      BY <1>2, <2>5 DEF CommitAppend, TypeOK, MemoryOK, allocation, lsns
    <3>3. ProgressOK'
      BY <1>2, <2>5 DEF CommitAppend, TypeOK, ProgressOK, Programs, Committings,
         Applying, recovery, ghosts
    <3> QED
      BY <3>1, <3>2, <3>3 DEF TypeOK
<1>3. CASE CommitPrepared
  BY <1>3 DEF CommitPrepared, TypeOK, DiskOK, MemoryOK, ProgressOK,
     Programs, Committings, Applying, Truncating, Reopening, disk,
     allocation, lsns, recovery, ghosts
<1>4. CASE CommitMark
  BY <1>4, FixedBlocks DEF CommitMark, TypeOK, DiskOK, MemoryOK, ProgressOK,
     Programs, Committings, Applying, Truncating, Reopening, disk,
     allocation, lsns, recovery, ghosts
<1>5. CASE CommitPublish
  <2>1. batch \in Batch
    BY <1>5 DEF CommitPublish, TypeOK, ProgressOK, Committings
  <2>2. Extent \in ExtentType /\ batch.lsn \in Nat /\ batch.pages \in PageMap
    BY <2>1 DEF Extent, ExtentType, Batch, TypeOK, MemoryOK
  <2>3. Committed \in File
    BY DEF Committed, TypeOK, ProgressOK
  <2>4. Promised \in File
    BY <2>2, <2>3, OverlayType DEF Promised
  <2>5. [batch EXCEPT !.published = TRUE] \in Batch
    BY <2>1 DEF Batch
  <2>6. DiskOK'
    BY <1>5 DEF CommitPublish, PublishedLength, TypeOK, DiskOK
  <2>7. seq' \in Nat /\ nextLsn' \in Nat \ {0}
    BY <1>5, <2>2 DEF CommitPublish, Larger, TypeOK, MemoryOK
  <2>8. CASE mode.group
    <3>1. pending' \in Seq(ExtentType) /\ history' \in Seq(File) /\ history' # <<>>
      <4>1. pending' = Append(pending, Extent) /\ history' = Append(history, Promised)
        BY <1>5, <2>8 DEF CommitPublish
      <4>2. pending \in Seq(ExtentType) /\ history \in Seq(File)
        BY DEF TypeOK, MemoryOK, ProgressOK
      <4> QED
        BY <2>2, <2>4, <4>1, <4>2
    <3>2. pc' \in {"idle", "groupSync"} /\ cont' \in {"idle", cont}
      BY <1>5, <2>8 DEF CommitPublish, SyncGroup
    <3>3. MemoryOK'
      BY <1>5, <2>7, <2>8, <3>1 DEF CommitPublish, TypeOK, MemoryOK, allocation
    <3>4. ProgressOK'
      BY <1>5, <2>8, <3>1, <3>2 DEF CommitPublish, TypeOK, ProgressOK, Programs,
         Committings, Applying, recovery
    <3> QED
      BY <2>6, <3>3, <3>4 DEF TypeOK
  <2>9. CASE ~mode.group
    <3>1. /\ history' = <<Promised>> /\ queue' = <<Extent>>
          /\ batch' = [batch EXCEPT !.published = TRUE]
      BY <1>5, <2>9 DEF CommitPublish
    <3>2. /\ history' \in Seq(File) /\ history' # <<>>
          /\ queue' \in Seq(ExtentType) /\ queue' # <<>>
      BY <2>2, <2>4, <3>1
    <3>3. MemoryOK'
      BY <1>5, <2>5, <2>7, <2>9, <3>1
         DEF CommitPublish, TypeOK, MemoryOK, allocation
    <3>4. ProgressOK'
      BY <1>5, <2>2, <2>9, <3>2 DEF CommitPublish, TypeOK, ProgressOK, Programs,
         Committings, Applying, recovery
    <3> QED
      BY <2>6, <3>3, <3>4 DEF TypeOK
  <2> QED
    BY <2>8, <2>9
<1>6. CASE GroupSync
  <2>1. Committed \in File
    BY DEF Committed, TypeOK, ProgressOK
  <2>2. history' \in Seq(File) /\ history' # <<>>
    <3>1. history' = <<Committed>>
      BY <1>6 DEF GroupSync
    <3> QED
      BY <2>1, <3>1
  <2>3. DiskOK'
    BY <1>6 DEF GroupSync, TypeOK, DiskOK
  <2>4. MemoryOK'
    BY <1>6 DEF GroupSync, TypeOK, MemoryOK, allocation, lsns
  <2>5. queue' \in Seq(ExtentType) /\ queue' # <<>> /\ usedLsn' \in Nat
    BY <1>6 DEF GroupSync, Control, TypeOK, MemoryOK
  <2>6. ProgressOK'
    BY <1>6, <2>2, <2>5 DEF GroupSync, TypeOK, ProgressOK, Programs,
       Committings, Applying, recovery
  <2> QED
    BY <2>3, <2>4, <2>6 DEF TypeOK
<1>7. CASE ApplyPages
  <2>1. queue[1].pages \in PageMap
    <3>1. queue \in Seq(ExtentType) /\ queue # <<>>
      BY <1>7 DEF ApplyPages, TypeOK, ProgressOK, Applying
    <3>2. queue[1] \in ExtentType
      BY <3>1, FirstAndRest
    <3> QED
      BY <3>2 DEF ExtentType
  <2>2. main' \in File
    BY <1>7, <2>1, OverlayType DEF ApplyPages, TypeOK, DiskOK
  <2>3. dwb' \in [Slots -> Slot \cup {None}]
    BY <1>7, <2>1, SlotPagesType DEF ApplyPages, TypeOK, DiskOK
  <2> QED
    BY <1>7, <2>2, <2>3 DEF ApplyPages, TypeOK, DiskOK, MemoryOK, ProgressOK,
       Programs, Committings, Applying, Truncating, Reopening, disk, allocation,
       lsns, recovery, ghosts
<1>8. CASE ApplySync
  <2>1. main' \in File
    BY <1>8, ResizeType DEF ApplySync, TypeOK, DiskOK
  <2> QED
    BY <1>8, <2>1 DEF ApplySync, TypeOK, DiskOK, MemoryOK, ProgressOK,
       Programs, Committings, Applying, Truncating, Reopening, disk, allocation,
       lsns, recovery, ghosts
<1>9. CASE ApplyClear
  <2>1. dwb' \in [Slots -> Slot \cup {None}]
    BY <1>9, NoSlotsType DEF ApplyClear, TypeOK, DiskOK
  <2>2. queue' \in Seq(ExtentType) /\ (~LastExtent => queue' # <<>>)
    <3>1. queue \in Seq(ExtentType) /\ queue # <<>> /\ queue' = Tail(queue)
      BY <1>9 DEF ApplyClear, TypeOK, ProgressOK, Applying
    <3> QED
      BY <3>1, FirstAndRest DEF LastExtent
  <2>3. /\ batch' \in Batch \cup {None}
        /\ pc' \in {"apply", "idle", "fuzzy", "full", "close"}
        /\ pc' = "apply" => ~LastExtent
    BY <1>9 DEF ApplyClear, TypeOK, MemoryOK, ProgressOK
  <2> QED
    BY <1>9, <2>1, <2>2, <2>3 DEF ApplyClear, TypeOK, DiskOK, MemoryOK, ProgressOK,
       Programs, Committings, Applying, Truncating, Reopening, disk, allocation,
       lsns, recovery, ghosts
<1>10. CASE ApplyStage
  BY <1>10 DEF ApplyStage, TypeOK, DiskOK, MemoryOK, ProgressOK, Programs,
     Committings, Applying, Truncating, Reopening, disk, allocation, lsns,
     recovery, ghosts
<1> QED
  BY <1>1, <1>2, <1>3, <1>4, <1>5, <1>6, <1>7, <1>8, <1>9, <1>10 DEF Committing

LEMMA CheckpointingType ==
  ASSUME TypeOK, Control, Checkpointing
  PROVE  TypeOK'
<1>1. CASE Checkpoint
  BY <1>1 DEF Checkpoint, Idle, SyncGroup, TypeOK, DiskOK, MemoryOK,
     ProgressOK, Programs, Committings, Applying, Truncating, Reopening,
     disk, allocation, lsns, recovery, ghosts
<1>2. CASE CheckpointFuzzy
  <2>1. ck' \in Record /\ ckpt' \in Record
    BY <1>2, FixedRecords
       DEF CheckpointFuzzy, Record, TypeOK, DiskOK, MemoryOK
  <2> QED
    BY <1>2, <2>1 DEF CheckpointFuzzy, TypeOK, DiskOK, MemoryOK, ProgressOK,
       Programs, Committings, Applying, Truncating, Reopening, disk, allocation,
       lsns, recovery, ghosts
<1>3. CASE CheckpointRecycle
  <2>1. ck' \in Record /\ ck.cutoff \in Nat
    BY <1>3 DEF CheckpointRecycle, Record, TypeOK, MemoryOK
  <2>2. wal' \in Seq(Block) /\ walSynced' \in 0 .. Len(wal')
    <3>1. walSynced' = 0 /\ wal \in Seq(Block)
      BY <1>3 DEF CheckpointRecycle, TypeOK, DiskOK
    <3>2. CASE ck.cutoff = 0 \/ ck.cutoff >= Len(wal)
      <4>1. wal' = <<>>
        BY <1>3, <3>2 DEF CheckpointRecycle
      <4> QED
        BY <3>1, <4>1
    <3>3. CASE ~(ck.cutoff = 0 \/ ck.cutoff >= Len(wal))
      <4>1. wal' = SubSeq(wal, ck.cutoff + 1, Len(wal))
        BY <1>3, <3>3 DEF CheckpointRecycle
      <4>2. wal' \in Seq(Block)
        BY <2>1, <3>1, <3>3, <4>1
      <4> QED
        BY <3>1, <4>2
    <3> QED
      BY <3>2, <3>3
  <2>3. pc' \in {"recycled", "recycle"}
    BY <1>3 DEF CheckpointRecycle
  <2> QED
    BY <1>3, <2>1, <2>2, <2>3 DEF CheckpointRecycle, TypeOK, DiskOK, MemoryOK, ProgressOK,
       Programs, Committings, Applying, Truncating, Reopening, disk, allocation,
       lsns, recovery, ghosts
<1>4. CASE RecycleSync
  BY <1>4 DEF RecycleSync, TypeOK, DiskOK, MemoryOK, ProgressOK, Programs,
     Committings, Applying, Truncating, Reopening, disk, allocation, lsns,
     recovery, ghosts
<1>5. CASE CheckpointRecycled
  BY <1>5, FixedRecords DEF CheckpointRecycled, TypeOK, DiskOK, MemoryOK,
     ProgressOK, Programs, Committings, Applying, Truncating, Reopening,
     disk, allocation, lsns, recovery, ghosts
<1>6. CASE CheckpointWrite
  BY <1>6 DEF CheckpointWrite, TypeOK, DiskOK, MemoryOK, ProgressOK,
     Programs, Committings, Applying, Truncating, Reopening, disk,
     allocation, lsns, recovery, ghosts
<1> QED
  BY <1>1, <1>2, <1>3, <1>4, <1>5, <1>6 DEF Checkpointing

\* What a crash leaves: a part of the journal, pages, one of the images a commit
\* made or was about to make.
LEMMA FloorType ==
  ASSUME TypeOK, NEW kind, NEW n \in WalFloor(kind) .. Len(wal)
  PROVE  n \in Nat /\ n <= Len(wal)
<1>1. Len(wal) \in Nat /\ walSynced \in Nat
  BY DEF TypeOK, DiskOK
<1>2. pc = "appended" => batch.start \in Nat
  BY DEF TypeOK, ProgressOK, Committings, Batch
<1>3. (pc = "marked" => Len(wal) >= 1) /\ (pc = "aborting" => Len(wal) >= 2)
  BY DEF TypeOK, ProgressOK
<1>4. WalFloor(kind) \in Nat
  BY <1>1, <1>2, <1>3 DEF WalFloor
<1> QED
  BY <1>1, <1>4

LEMMA OutcomesType ==
  ASSUME TypeOK, NEW kind, NEW f \in FileOutcomes(kind)
  PROVE  f \in File
<1>1. \A p \in PageId : PageOutcomes(kind, p) \subseteq Content
  BY FixedContents DEF PageOutcomes, File, TypeOK, DiskOK
<1>2. \A p \in PageId : f[p] \in PageOutcomes(kind, p)
  BY DEF FileOutcomes
<1>3. f = [p \in PageId |-> f[p]]
  BY DEF FileOutcomes
<1> QED
  BY <1>1, <1>2, <1>3 DEF File

LEMMA SlotOutcomesType ==
  ASSUME TypeOK, NEW kind \in Crashes
  PROVE  SlotOutcomes(kind) \subseteq [Slots -> Slot \cup {None}]
<1>1. dwb \in [Slots -> Slot \cup {None}]
  BY DEF TypeOK, DiskOK
<1>2. CASE pc = "stage"
  <2>1. queue[1].pages \in PageMap
    <3>1. queue \in Seq(ExtentType) /\ queue # <<>>
      BY <1>2 DEF TypeOK, ProgressOK, Applying
    <3>2. queue[1] \in ExtentType
      BY <3>1, FirstAndRest
    <3> QED
      BY <3>2 DEF ExtentType
  <2>2. SlotPages(queue[1].pages) \in [Slots -> Slot \cup {None}]
    BY <1>1, <2>1, SlotPagesType
  <2>3. kind \in {"process", "power"}
    BY PageFileAssumption
  <2> QED
    BY <1>2, <2>1, <2>2, <2>3, PartSlotsType, NoSlotsType DEF SlotOutcomes, TypeOK
<1>3. CASE pc # "stage"
  BY <1>1, <1>3, NoSlotsType DEF SlotOutcomes
<1> QED
  BY <1>2, <1>3

LEMMA FaultSlotsType ==
  ASSUME TypeOK
  PROVE  FaultSlots \subseteq [Slots -> Slot \cup {None}]
<1>1. dwb \in [Slots -> Slot \cup {None}]
  BY DEF TypeOK, DiskOK
<1>2. CASE pc = "stage"
  <2>1. queue[1].pages \in PageMap
    <3>1. queue \in Seq(ExtentType) /\ queue # <<>>
      BY <1>2 DEF TypeOK, ProgressOK, Applying
    <3>2. queue[1] \in ExtentType
      BY <3>1, FirstAndRest
    <3> QED
      BY <3>2 DEF ExtentType
  <2>2. SlotPages(queue[1].pages) \in [Slots -> Slot \cup {None}]
    BY <1>1, <2>1, SlotPagesType
  <2> QED
    BY <1>2, <2>1, <2>2, PartSlotsType DEF FaultSlots, TypeOK
<1>3. CASE pc # "stage"
  BY <1>1, <1>3, NoSlotsType DEF FaultSlots
<1> QED
  BY <1>2, <1>3

LEMMA SurvivorType ==
  ASSUME TypeOK, NEW n \in Nat, n <= Len(wal)
  PROVE  Survivor(n) \in File
<1>1. Committed \in File
  BY DEF Committed, TypeOK, ProgressOK
<1>2. CASE InDoubt(n)
  <2>1. batch \in Batch
    BY <1>2 DEF InDoubt, TypeOK, MemoryOK
  <2> QED
    BY <1>1, <1>2, <2>1, OverlayType DEF Survivor, Promised, Batch
<1>3. CASE ~InDoubt(n)
  <2>1. LostCommits(n) \in Nat
    <3>1. \A to \in Int : CommitMarks(n + 1, to) \in SUBSET (n + 1 .. to)
      BY DEF CommitMarks
    <3>2. \A to \in Int : Cardinality(CommitMarks(n + 1, to)) \in Nat
      <4> SUFFICES ASSUME NEW to \in Int
                   PROVE  Cardinality(CommitMarks(n + 1, to)) \in Nat
        OBVIOUS
      <4>1. IsFiniteSet(n + 1 .. to)
        BY FS_Interval
      <4> QED
        BY <3>1, <4>1, SubsetCount
    <3>4. Len(wal) \in Nat
      BY DEF TypeOK, DiskOK
    <3>3. batch # None => Smaller(batch.start, Len(wal)) \in Int
      BY <3>4, LargerType DEF TypeOK, MemoryOK, Batch
    <3> DEFINE to == IF batch # None THEN Smaller(batch.start, Len(wal)) ELSE Len(wal)
    <3>5. to \in Int
      BY <3>3, <3>4
    <3>6. LostCommits(n) = Cardinality(CommitMarks(n + 1, to))
      BY DEF LostCommits
    <3> HIDE DEF to
    <3> QED
      BY <3>2, <3>5, <3>6
  <2> QED
    BY <1>3, <2>1 DEF Survivor, TypeOK, ProgressOK
<1> QED
  BY <1>2, <1>3

LEMMA FailingType ==
  ASSUME TypeOK, Control, Failing
  PROVE  TypeOK'
<1>1. CASE FaultCommit
  BY <1>1, DoomType DEF FaultCommit, TypeOK, DiskOK, MemoryOK, ProgressOK,
     Programs, Committings, Applying, Truncating, Reopening, disk,
     allocation, lsns, recovery, ghosts
<1>2. CASE FaultFatal
  BY <1>2, FaultSlotsType DEF FaultFatal, TypeOK, DiskOK, MemoryOK, ProgressOK, Programs,
     Committings, Applying, Truncating, Reopening, disk, allocation, lsns,
     recovery, ghosts
<1>3. CASE FaultGroupSync
  BY <1>3 DEF FaultGroupSync, Resume, TypeOK, DiskOK, MemoryOK, ProgressOK,
     Programs, Committings, Applying, Truncating, Reopening, disk,
     allocation, lsns, recovery, ghosts
<1>4. CASE FaultApplyGroup
  BY <1>4, FaultSlotsType DEF FaultApplyGroup, Resume, TypeOK, DiskOK, MemoryOK, ProgressOK,
     Programs, Committings, Applying, Truncating, Reopening, disk,
     allocation, lsns, recovery, ghosts
<1>5. CASE FaultCheckpoint
  BY <1>5 DEF FaultCheckpoint, TypeOK, DiskOK, MemoryOK, ProgressOK,
     Programs, Committings, Applying, Truncating, Reopening, disk,
     allocation, lsns, recovery, ghosts
<1>6. CASE Crash
  <2>0. PICK kind \in Crashes :
          /\ main' \in FileOutcomes(kind) /\ mainSynced' = main'
          /\ dwb' \in SlotOutcomes(kind)
          /\ \E n \in WalFloor(kind) .. Len(wal) :
               /\ \/ wal' = SubSeq(wal, 1, n)
                  \/ n < Len(wal) /\ wal' = Append(SubSeq(wal, 1, n), TornBlock)
               /\ walSynced' = Len(wal')
               /\ history' = <<Survivor(n)>>
    BY <1>6 DEF Crash
  <2>1. PICK n \in WalFloor(kind) .. Len(wal) :
          /\ \/ wal' = SubSeq(wal, 1, n)
             \/ n < Len(wal) /\ wal' = Append(SubSeq(wal, 1, n), TornBlock)
          /\ walSynced' = Len(wal')
          /\ history' = <<Survivor(n)>>
    BY <2>0
  <2>2. n \in Nat /\ n <= Len(wal)
    BY FloorType
  <2>3. main' \in File
    BY <2>0, OutcomesType
  <2>4. wal' \in Seq(Block) /\ walSynced' \in 0 .. Len(wal')
    <3>1. SubSeq(wal, 1, n) \in Seq(Block)
      BY <2>2 DEF TypeOK, DiskOK
    <3>2. wal' \in Seq(Block)
      BY <2>1, <3>1, FixedBlocks
    <3>3. Len(wal') \in Nat
      BY <3>2
    <3> QED
      BY <2>1, <3>2, <3>3
  <2>5. history' \in Seq(File) /\ history' # <<>>
    BY <2>1, <2>2, SurvivorType
  <2>6. DiskOK'
    BY <1>6, <2>0, <2>3, <2>4, SlotOutcomesType DEF Crash, TypeOK, DiskOK
  <2>7. refused' \in BOOLEAN /\ usedLsn' \in Nat /\ crashes' \in Nat /\ Closed
    BY <1>6 DEF Crash, TypeOK, ProgressOK
  <2> QED
    BY <2>5, <2>6, <2>7, ClosedType DEF TypeOK
<1> QED
  BY <1>1, <1>2, <1>3, <1>4, <1>5, <1>6 DEF Failing

-----------------------------------------------------------------------------
(* Control is inductive, given the types: one step per action.             *)

LEMMA OpeningControl ==
  ASSUME TypeOK, Control, Opening
  PROVE  Control'
<1>1. CASE Create
  BY <1>1 DEF Create, TypeOK, MemoryOK, ProgressOK, Control, Applying,
     Truncating, Reopening, allocation, ghosts, recovery
<1>2. CASE Open
  BY <1>2 DEF Open, Scan, TypeOK, MemoryOK, ProgressOK, Control, Applying,
     Truncating, Reopening, allocation, ghosts
<1>3. CASE OpenRefused
  BY <1>3 DEF OpenRefused, Refuse, Closed, TypeOK, MemoryOK, ProgressOK,
     Control, Applying, Truncating, Reopening, disk, ghosts
<1>4. CASE RecoverDoubleWrite
  BY <1>4 DEF RecoverDoubleWrite, Scan, TypeOK, MemoryOK, ProgressOK,
     Control, Applying, Truncating, Reopening, allocation, ghosts, lsns
<1>5. CASE RedoRefuse
  BY <1>5 DEF RedoRefuse, Refuse, Closed, TypeOK, MemoryOK, ProgressOK,
     Control, Applying, Truncating, Reopening, disk, ghosts
<1>6. CASE RedoAbort
  BY <1>6 DEF RedoAbort, TypeOK, MemoryOK, ProgressOK, Control, Applying,
     Truncating, Reopening, allocation, disk, ghosts
<1>7. CASE RedoExtent
  BY <1>7 DEF RedoExtent, TypeOK, MemoryOK, ProgressOK, Control, Applying,
     Truncating, Reopening, allocation, ghosts
<1>8. CASE RedoSync
  BY <1>8 DEF RedoSync, TypeOK, MemoryOK, ProgressOK, Control, Applying,
     Truncating, Reopening, allocation, ghosts, lsns
<1>9. CASE RedoFinish
  BY <1>9 DEF RedoFinish, TypeOK, MemoryOK, ProgressOK, Control, Applying,
     Truncating, Reopening, allocation, ghosts, recovery
<1>10. CASE RedoCkpt
  BY <1>10 DEF RedoCkpt, TypeOK, MemoryOK, ProgressOK, Control, Applying,
     Truncating, Reopening, allocation, ghosts, lsns, recovery
<1>11. CASE RedoTruncate
  BY <1>11 DEF RedoTruncate, TypeOK, MemoryOK, ProgressOK, Control,
     Applying, Truncating, Reopening, allocation, ghosts, lsns
<1>12. CASE Rebuild
  BY <1>12 DEF Rebuild, Refuse, Closed, TypeOK, MemoryOK, ProgressOK,
     Control, Applying, Truncating, Reopening, disk, ghosts, lsns, recovery
<1>13. CASE ClearRestored
  BY <1>13 DEF ClearRestored, Scan, TypeOK, MemoryOK, ProgressOK,
     Control, Applying, Truncating, Reopening, allocation, ghosts, lsns
<1>14. CASE SlotsRefused
  BY <1>14 DEF SlotsRefused, Closed, TypeOK, MemoryOK, ProgressOK,
     Control, Applying, Truncating, Reopening, ghosts
<1> QED
  BY <1>1, <1>2, <1>3, <1>4, <1>5, <1>6, <1>7, <1>8, <1>9, <1>10, <1>11,
     <1>12, <1>13, <1>14 DEF Opening, Recover

LEMMA ChangingControl ==
  ASSUME TypeOK, Control, Changing
  PROVE  Control'
<1>1. CASE Begin
  BY <1>1 DEF Begin, Idle, TypeOK, MemoryOK, ProgressOK, Control, Applying,
     Truncating, Reopening, allocation, ghosts, lsns, recovery
<1>2. CASE Write
  BY <1>2 DEF Write, Working, InBatch, BatchOnly, TypeOK, MemoryOK,
     ProgressOK, Control, Applying, Truncating, Reopening, allocation, disk,
     ghosts, lsns, recovery
<1>3. CASE AllocateReused
  BY <1>3 DEF AllocateReused, Working, InBatch, BatchOnly, TypeOK, MemoryOK,
     ProgressOK, Control, Applying, Truncating, Reopening, disk, ghosts,
     lsns, recovery
<1>4. CASE AllocateAppended
  BY <1>4 DEF AllocateAppended, Working, InBatch, BatchOnly, TypeOK,
     MemoryOK, ProgressOK, Control, Applying, Truncating, Reopening, disk,
     ghosts, lsns, recovery
<1>5. CASE Release
  BY <1>5 DEF Release, Working, InBatch, BatchOnly, TypeOK, MemoryOK,
     ProgressOK, Control, Applying, Truncating, Reopening, disk, ghosts,
     lsns, recovery
<1>6. CASE TakeSavepoint
  BY <1>6 DEF TakeSavepoint, Working, InBatch, TypeOK, MemoryOK, ProgressOK,
     Control, Applying, Truncating, Reopening, allocation, disk, ghosts,
     lsns, recovery
<1>7. CASE RestoreSavepoint
  BY <1>7 DEF RestoreSavepoint, Working, InBatch, BatchOnly, TypeOK,
     MemoryOK, ProgressOK, Control, Applying, Truncating, Reopening, disk,
     ghosts, lsns, recovery
<1>8. CASE Rollback
  BY <1>8 DEF Rollback, InBatch, TypeOK, MemoryOK, ProgressOK, Control,
     Applying, Truncating, Reopening, ghosts, recovery
<1>9. CASE SyncAbort
  BY <1>9 DEF SyncAbort, TypeOK, MemoryOK, ProgressOK, Control, Applying,
     Truncating, Reopening, allocation, lsns, recovery
<1> QED
  BY <1>1, <1>2, <1>3, <1>4, <1>5, <1>6, <1>7, <1>8, <1>9 DEF Changing

LEMMA CommittingControl ==
  ASSUME TypeOK, Control, Committing
  PROVE  Control'
<1>1. CASE CommitEmpty
  BY <1>1 DEF CommitEmpty, Working, InBatch, TypeOK, MemoryOK, ProgressOK,
     Control, Applying, Truncating, Reopening, allocation, disk, ghosts,
     lsns, recovery
<1>2. CASE CommitAppend
  BY <1>2 DEF CommitAppend, Working, InBatch, TypeOK, MemoryOK, ProgressOK,
     Control, Applying, Truncating, Reopening, allocation, ghosts, lsns,
     recovery
<1>3. CASE CommitPrepared
  BY <1>3 DEF CommitPrepared, TypeOK, MemoryOK, ProgressOK, Control,
     Applying, Truncating, Reopening, allocation, ghosts, lsns, recovery
<1>4. CASE CommitMark
  BY <1>4 DEF CommitMark, TypeOK, MemoryOK, ProgressOK, Control, Applying,
     Truncating, Reopening, allocation, ghosts, lsns, recovery
<1>5. CASE CommitPublish
  BY <1>5 DEF CommitPublish, SyncGroup, TypeOK, MemoryOK, ProgressOK,
     Control, Applying, Truncating, Reopening, allocation, recovery
<1>6. CASE GroupSync
  BY <1>6 DEF GroupSync, TypeOK, MemoryOK, ProgressOK, Control, Applying,
     Truncating, Reopening, allocation, lsns, recovery
<1>7. CASE ApplyPages
  BY <1>7 DEF ApplyPages, TypeOK, MemoryOK, ProgressOK, Control, Applying,
     Truncating, Reopening, allocation, ghosts, lsns, recovery
<1>8. CASE ApplySync
  BY <1>8 DEF ApplySync, TypeOK, MemoryOK, ProgressOK, Control, Applying,
     Truncating, Reopening, allocation, ghosts, lsns, recovery
<1>9. CASE ApplyClear
  <2>1. queue \in Seq(ExtentType) /\ queue # <<>> /\ queue' = Tail(queue)
    BY <1>9 DEF ApplyClear, TypeOK, ProgressOK, Applying
  <2>2. LastExtent <=> queue' = <<>>
    BY <2>1, FirstAndRest DEF LastExtent
  <2> QED
    BY <1>9, <2>2 DEF ApplyClear, TypeOK, ProgressOK, Control, Applying,
       Truncating, Reopening, allocation, ghosts, lsns, recovery
<1>10. CASE ApplyStage
  BY <1>10 DEF ApplyStage, TypeOK, MemoryOK, ProgressOK, Control, Applying,
     Truncating, Reopening, allocation, disk, ghosts, lsns, recovery
<1> QED
  BY <1>1, <1>2, <1>3, <1>4, <1>5, <1>6, <1>7, <1>8, <1>9, <1>10 DEF Committing

LEMMA CheckpointingControl ==
  ASSUME TypeOK, Control, Checkpointing
  PROVE  Control'
<1>1. CASE Checkpoint
  BY <1>1 DEF Checkpoint, Idle, SyncGroup, TypeOK, MemoryOK, ProgressOK,
     Control, Applying, Truncating, Reopening, allocation, disk, ghosts,
     lsns, recovery
<1>2. CASE CheckpointFuzzy
  BY <1>2 DEF CheckpointFuzzy, TypeOK, MemoryOK, ProgressOK, Control,
     Applying, Truncating, Reopening, allocation, ghosts, recovery
<1>3. CASE CheckpointRecycle
  BY <1>3 DEF CheckpointRecycle, TypeOK, MemoryOK, ProgressOK, Control,
     Applying, Truncating, Reopening, allocation, ghosts, recovery
<1>4. CASE RecycleSync
  BY <1>4 DEF RecycleSync, TypeOK, MemoryOK, ProgressOK, Control, Applying,
     Truncating, Reopening, allocation, ghosts, lsns, recovery
<1>5. CASE CheckpointRecycled
  BY <1>5 DEF CheckpointRecycled, TypeOK, MemoryOK, ProgressOK, Control,
     Applying, Truncating, Reopening, allocation, ghosts, lsns, recovery
<1>6. CASE CheckpointWrite
  BY <1>6 DEF CheckpointWrite, TypeOK, MemoryOK, ProgressOK, Control,
     Applying, Truncating, Reopening, allocation, ghosts, lsns, recovery
<1> QED
  BY <1>1, <1>2, <1>3, <1>4, <1>5, <1>6 DEF Checkpointing

LEMMA FailingControl ==
  ASSUME TypeOK, Control, Failing
  PROVE  Control'
<1>1. CASE FaultCommit
  BY <1>1 DEF FaultCommit, TypeOK, MemoryOK, ProgressOK, Control, Applying,
     Truncating, Reopening, allocation, disk, ghosts, lsns, recovery
<1>2. CASE FaultFatal
  BY <1>2 DEF FaultFatal, TypeOK, MemoryOK, ProgressOK, Control, Applying,
     Truncating, Reopening, allocation, disk, ghosts, lsns, recovery
<1>3. CASE FaultGroupSync
  BY <1>3 DEF FaultGroupSync, Resume, TypeOK, MemoryOK, ProgressOK, Control,
     Applying, Truncating, Reopening, allocation, disk, ghosts, lsns,
     recovery
<1>4. CASE FaultApplyGroup
  BY <1>4 DEF FaultApplyGroup, Resume, TypeOK, MemoryOK, ProgressOK,
     Control, Applying, Truncating, Reopening, allocation, disk, ghosts,
     lsns, recovery
<1>5. CASE FaultCheckpoint
  BY <1>5 DEF FaultCheckpoint, TypeOK, MemoryOK, ProgressOK, Control,
     Applying, Truncating, Reopening, allocation, disk, ghosts, lsns,
     recovery
<1>6. CASE Crash
  BY <1>6 DEF Crash, Closed, TypeOK, MemoryOK, ProgressOK, Control,
     Applying, Truncating, Reopening
<1> QED
  BY <1>1, <1>2, <1>3, <1>4, <1>5, <1>6 DEF Failing

-----------------------------------------------------------------------------
(* OwnBlocks is inductive, given the types and Control. Most steps leave the *)
(* journal and the start of the batch alone; the others are taken one by one. *)

\* A step that leaves the journal alone, keeps the batch where it started, and
\* does not leave the commit protocol without dooming the batch.
LEMMA OwnBlocksKept ==
  ASSUME OwnBlocks, wal' = wal,
         \/ batch' = None
         \/ batch'.published
         \/ /\ batch # None /\ batch'.start = batch.start
            /\ ~batch.published
            /\ ~batch'.doomed => ~batch.doomed
            /\ pc' \in Committings \/ batch'.doomed \/ pc \notin Committings
            /\ pc' \in {"appended", "prepared"} => pc \in {"appended", "prepared"}
  PROVE  OwnBlocks'
  BY DEF OwnBlocks, Committings

\* A batch an operation stages into, or dooms, is the batch it was.
LEMMA OwnBlocksBatch ==
  ASSUME TypeOK, OwnBlocks, Working, BatchOnly,
         \/ batch'.start = batch.start /\ batch'.published = batch.published
         \/ batch' = [batch EXCEPT !.doomed = TRUE]
  PROVE  OwnBlocks'
<1>1. batch \in Batch /\ batch # None /\ pc = "idle" /\ pc' = pc /\ wal' = wal
      /\ ~batch.doomed
  BY DEF Working, InBatch, BatchOnly, TypeOK, MemoryOK, disk
<1>2. batch'.start = batch.start /\ batch'.published = batch.published
  BY <1>1, DoomType
<1> QED
  BY <1>1, <1>2, OwnBlocksKept DEF Committings

LEMMA OpeningOwnBlocks ==
  ASSUME TypeOK, Control, OwnBlocks, Opening
  PROVE  OwnBlocks'
<1>1. CASE Create
  BY <1>1 DEF Create, OwnBlocks, Control, Truncating, Reopening
<1>2. CASE Open
  BY <1>2 DEF Open, OwnBlocks, Control, Truncating, Reopening
<1>3. CASE OpenRefused
  BY <1>3 DEF OpenRefused, OwnBlocks, Closed, Refuse
<1>4. CASE RecoverDoubleWrite
  BY <1>4 DEF RecoverDoubleWrite, OwnBlocks, Control, Truncating, Reopening
<1>5. CASE RedoRefuse
  BY <1>5 DEF RedoRefuse, OwnBlocks, Closed, Refuse
<1>6. CASE RedoAbort
  BY <1>6 DEF RedoAbort, OwnBlocks, Control, Truncating, Reopening
<1>7. CASE RedoExtent
  BY <1>7 DEF RedoExtent, OwnBlocks, Control, Truncating, Reopening
<1>8. CASE RedoSync
  BY <1>8 DEF RedoSync, OwnBlocks, Control, Truncating, Reopening
<1>9. CASE RedoFinish
  BY <1>9 DEF RedoFinish, OwnBlocks, Control, Truncating, Reopening
<1>10. CASE RedoCkpt
  BY <1>10 DEF RedoCkpt, OwnBlocks, Control, Truncating, Reopening
<1>11. CASE RedoTruncate
  BY <1>11 DEF RedoTruncate, OwnBlocks, Control, Truncating, Reopening
<1>12. CASE Rebuild
  BY <1>12 DEF Rebuild, Refuse, Closed, OwnBlocks, Control, Reopening
<1>13. CASE ClearRestored
  BY <1>13 DEF ClearRestored, OwnBlocks, Control, Truncating, Reopening
<1>14. CASE SlotsRefused
  BY <1>14 DEF SlotsRefused, OwnBlocks, Closed
<1> QED
  BY <1>1, <1>2, <1>3, <1>4, <1>5, <1>6, <1>7, <1>8, <1>9, <1>10, <1>11,
     <1>12, <1>13, <1>14 DEF Opening, Recover

LEMMA ChangingOwnBlocks ==
  ASSUME TypeOK, Control, OwnBlocks, Changing
  PROVE  OwnBlocks'
<1>1. CASE Begin
  <2>1. /\ wal' = wal /\ pc' = "idle" /\ Len(wal) \in Nat
        /\ batch'.start = Len(wal)
    BY <1>1 DEF Begin, Idle, TypeOK, DiskOK
  <2> QED
    BY <2>1 DEF OwnBlocks
<1>2. CASE Write
  <2>1. batch \in Batch /\ active \in [PageId -> Nat]
    BY <1>2 DEF Write, Working, InBatch, TypeOK, MemoryOK
  <2>2. PICK p \in PageId, v \in Vals :
          batch' = IF Fits(batch, p) THEN Stage(batch, p, Data(active[p], v))
                   ELSE [batch EXCEPT !.doomed = TRUE]
    BY <1>2 DEF Write
  <2>3. Data(active[p], v) \in Content
    BY <2>1, FixedContents
  <2>4. batch'.start = batch.start /\ batch'.published = batch.published
    BY <2>1, <2>2, <2>3, DoomType, StageType
  <2> QED
    BY <1>2, <2>4, OwnBlocksBatch DEF Write
<1>3. CASE AllocateReused
  <2> DEFINE ref == free[Len(free)]
  <2>1. batch \in Batch /\ ref \in Ref
    BY <1>3 DEF AllocateReused, Working, InBatch, TypeOK, MemoryOK
  <2>2. PICK v \in Vals :
          \/ batch' = Stage(batch, ref.id, Data(Reused(ref), v))
          \/ batch' = [batch EXCEPT !.doomed = TRUE]
    BY <1>3 DEF AllocateReused
  <2>3. ref.id \in PageId /\ Data(Reused(ref), v) \in Content
    BY <2>1, FixedContents DEF Ref, Reused
  <2> HIDE DEF ref
  <2>4. batch'.start = batch.start /\ batch'.published = batch.published
    <3>1. /\ [batch EXCEPT !.doomed = TRUE].start = batch.start
          /\ [batch EXCEPT !.doomed = TRUE].published = batch.published
      BY <2>1, DoomType
    <3> DEFINE staged == Stage(batch, ref.id, Data(Reused(ref), v))
    <3>2. staged.start = batch.start /\ staged.published = batch.published
      BY <2>1, <2>3, StageType
    <3> QED
      BY <2>2, <3>1, <3>2
  <2> QED
    BY <1>3, <2>4, OwnBlocksBatch DEF AllocateReused
<1>4. CASE AllocateAppended
  <2>1. batch \in Batch /\ count \in PageId /\ count + 1 \in Nat
    BY <1>4, PageFileAssumption
       DEF AllocateAppended, Working, InBatch, PageId, TypeOK, MemoryOK
  <2>2. PICK v \in Vals :
          \/ batch' = [batch EXCEPT !.doomed = TRUE]
          \/ batch' = Stage(Stage(batch, count, Data(1, v)), 0, Header(count + 1))
          \/ batch' = [Stage(batch, count, Data(1, v)) EXCEPT !.doomed = TRUE]
    BY <1>4 DEF AllocateAppended
  <2> DEFINE data == Stage(batch, count, Data(1, v))
  <2>3. /\ data \in Batch /\ data.start = batch.start
        /\ data.published = batch.published
    BY <2>1, StageType, FixedContents
  <2>4. Header(count + 1) \in Content
    BY <2>1, FixedContents
  <2>5. \/ batch' = [batch EXCEPT !.doomed = TRUE]
        \/ batch' = Stage(data, 0, Header(count + 1))
        \/ batch' = [data EXCEPT !.doomed = TRUE]
    BY <2>2
  <2> HIDE DEF data
  <2>6. batch'.start = batch.start /\ batch'.published = batch.published
    <3>1. /\ [batch EXCEPT !.doomed = TRUE].start = batch.start
          /\ [batch EXCEPT !.doomed = TRUE].published = batch.published
      BY <2>1, DoomType
    <3>2. /\ [data EXCEPT !.doomed = TRUE].start = data.start
          /\ [data EXCEPT !.doomed = TRUE].published = data.published
      BY <2>3, DoomType
    <3> DEFINE staged == Stage(data, 0, Header(count + 1))
    <3>3. staged.start = data.start /\ staged.published = data.published
      BY <2>3, <2>4, PageIds, StageType
    <3> QED
      BY <2>3, <2>5, <3>1, <3>2, <3>3
  <2> QED
    BY <1>4, <2>6, OwnBlocksBatch DEF AllocateAppended
<1>5. CASE Release
  <2>1. batch \in Batch /\ active \in [PageId -> Nat]
    BY <1>5 DEF Release, Working, InBatch, TypeOK, MemoryOK
  <2>2. PICK p \in PageId : \/ batch' = Stage(batch, p, Free(active[p]))
                            \/ batch' = [batch EXCEPT !.doomed = TRUE]
    BY <1>5 DEF Release
  <2>3. Free(active[p]) \in Content
    BY <2>1, FixedContents
  <2>4. batch'.start = batch.start /\ batch'.published = batch.published
    <3>1. /\ [batch EXCEPT !.doomed = TRUE].start = batch.start
          /\ [batch EXCEPT !.doomed = TRUE].published = batch.published
      BY <2>1, DoomType
    <3> DEFINE staged == Stage(batch, p, Free(active[p]))
    <3>2. staged.start = batch.start /\ staged.published = batch.published
      BY <2>1, <2>3, StageType
    <3> QED
      BY <2>2, <3>1, <3>2
  <2> QED
    BY <1>5, <2>4, OwnBlocksBatch DEF Release
<1>6. CASE TakeSavepoint
  BY <1>6, OwnBlocksKept DEF TakeSavepoint, Working, InBatch, OwnBlocks,
     Control, TypeOK, ProgressOK, Committings, Truncating, Reopening,
     allocation, disk, ghosts, lsns, recovery
<1>7. CASE RestoreSavepoint
  <2>1. batch \in Batch /\ batch' = [batch EXCEPT !.pages = snapshot.pages]
    BY <1>7 DEF RestoreSavepoint, Working, InBatch, TypeOK, MemoryOK
  <2>2. batch'.start = batch.start /\ batch'.published = batch.published
    BY <2>1 DEF Batch
  <2> QED
    BY <1>7, <2>2, OwnBlocksBatch DEF RestoreSavepoint
<1>8. CASE Rollback
  BY <1>8 DEF Rollback, OwnBlocks
<1>9. CASE SyncAbort
  BY <1>9, OwnBlocksKept DEF SyncAbort, OwnBlocks, Control, TypeOK,
     ProgressOK, Committings, Truncating, Reopening, allocation, lsns,
     recovery
<1> QED
  BY <1>1, <1>2, <1>3, <1>4, <1>5, <1>6, <1>7, <1>8, <1>9 DEF Changing

LEMMA CommittingOwnBlocks ==
  ASSUME TypeOK, Control, OwnBlocks, Committing
  PROVE  OwnBlocks'
<1>1. CASE CommitEmpty
  BY <1>1, OwnBlocksKept DEF CommitEmpty, Working, InBatch, OwnBlocks,
     Control, TypeOK, ProgressOK, Committings, Truncating, Reopening,
     allocation, disk, ghosts, lsns, recovery
<1>2. CASE CommitAppend
  <2> DEFINE staged == Stage(batch, 0, Header(count))
             extent == [pages |-> staged.pages, count |-> count]
             journal == Journal(extent, batch.lsn, seq + 1)
  <2>1. /\ batch \in Batch /\ batch # None /\ batch.lsn \in Nat
        /\ ~batch.doomed /\ pc = "idle"
    BY <1>2 DEF CommitAppend, Working, InBatch, TypeOK, MemoryOK, Batch
  <2>2. CASE Fits(batch, 0)
    <3>1. batch' = staged /\ wal' = wal \o journal /\ pc' = "appended"
      BY <1>2, <2>2 DEF CommitAppend
    <3>2. /\ staged \in Batch /\ staged.start = batch.start
          /\ staged.published = batch.published
      BY <2>1, PageIds, StageType, FixedContents DEF TypeOK, MemoryOK
    <3>3. extent \in ExtentType /\ seq + 1 \in Nat
      <4> HIDE DEF staged
      <4> QED
        BY <3>2 DEF Batch, ExtentType, TypeOK, MemoryOK
    <3>4. /\ journal \in Seq(Block)
          /\ \A i \in DOMAIN journal : journal[i].kind # "mark"
      <4> HIDE DEF extent
      <4> QED
        BY <2>1, <3>3, JournalType
    <3> HIDE DEF staged, journal
    <3>5. SUFFICES ASSUME ~batch.published
                   PROVE  OwnBlocks'
      BY <3>1, <3>2 DEF OwnBlocks
    <3>6. Len(wal) = batch.start /\ wal \in Seq(Block)
      BY <2>1, <3>5 DEF OwnBlocks, TypeOK, DiskOK, Committings
    <3>7. /\ Len(wal') = Len(wal) + Len(journal)
          /\ \A i \in Len(wal) + 1 .. Len(wal') : wal'[i] = journal[i - Len(wal)]
      <4>1. /\ Len(wal \o journal) = Len(wal) + Len(journal)
            /\ \A i \in Len(wal) + 1 .. Len(wal) + Len(journal) :
                 (wal \o journal)[i] = journal[i - Len(wal)]
        BY <3>4, <3>6, ConcatProperties
      <4> QED
        BY <3>1, <4>1
    <3>8. \A i \in Len(wal) + 1 .. Len(wal') : wal'[i].kind # "mark"
      <4> SUFFICES ASSUME NEW i \in Len(wal) + 1 .. Len(wal')
                   PROVE  wal'[i].kind # "mark"
        OBVIOUS
      <4>1. i - Len(wal) \in DOMAIN journal
        BY <3>4, <3>6, <3>7
      <4> QED
        BY <3>4, <3>7, <4>1
    <3> QED
      BY <3>1, <3>2, <3>4, <3>6, <3>7, <3>8 DEF OwnBlocks, Committings
  <2>3. CASE ~Fits(batch, 0)
    <3>1. batch' = [batch EXCEPT !.doomed = TRUE] /\ wal' = wal /\ pc' = pc
      BY <1>2, <2>3 DEF CommitAppend
    <3> QED
      BY <2>1, <3>1, DoomType, OwnBlocksKept DEF Committings
  <2> QED
    BY <2>2, <2>3
<1>3. CASE CommitPrepared
  BY <1>3, OwnBlocksKept DEF CommitPrepared, OwnBlocks, Control, TypeOK,
     ProgressOK, Committings, Truncating, Reopening, allocation, ghosts,
     lsns, recovery
<1>4. CASE CommitMark
  <2>1. /\ wal \in Seq(Block) /\ wal' = Append(wal, Mark(seq + 1))
        /\ batch \in Batch /\ batch # None /\ batch.start \in Nat
        /\ batch' = batch /\ pc = "prepared" /\ pc' = "marked"
    BY <1>4, NoneAssumption DEF CommitMark, TypeOK, DiskOK, ProgressOK, Committings, Batch
  <2>2. Mark(seq + 1) \in Block
    BY FixedBlocks DEF TypeOK, MemoryOK
  <2>3. /\ Len(wal') = Len(wal) + 1 /\ Len(wal) \in Nat
        /\ \A i \in 1 .. Len(wal) : wal'[i] = wal[i]
    BY <2>1, <2>2, AppendProperties
  <2>4. SUFFICES ASSUME ~batch.published
                 PROVE  OwnBlocks'
    BY <2>1 DEF OwnBlocks
  <2>5. /\ batch.start <= Len(wal)
        /\ \A i \in batch.start + 1 .. Len(wal) : wal[i].kind # "mark"
    BY <2>1, <2>4 DEF OwnBlocks
  <2>6. \A i \in batch.start + 1 .. Len(wal') : wal'[i].kind = "mark" => i = Len(wal')
    <3> SUFFICES ASSUME NEW i \in batch.start + 1 .. Len(wal'), i # Len(wal')
                 PROVE  wal'[i].kind # "mark"
      OBVIOUS
    <3>1. i \in batch.start + 1 .. Len(wal) /\ i \in 1 .. Len(wal)
      BY <2>1, <2>3
    <3> QED
      BY <2>3, <2>5, <3>1
  <2> QED
    BY <2>1, <2>3, <2>5, <2>6 DEF OwnBlocks, Committings
<1>5. CASE CommitPublish
  <2>1. batch \in Batch
    BY <1>5 DEF CommitPublish, TypeOK, ProgressOK, Committings
  <2>2. wal' = wal /\ (batch' = None \/ batch' = [batch EXCEPT !.published = TRUE])
    BY <1>5 DEF CommitPublish
  <2>3. batch' = None \/ batch'.published
    BY <2>1, <2>2 DEF Batch
  <2> QED
    BY <2>2, <2>3, OwnBlocksKept
<1>6. CASE GroupSync
  BY <1>6, OwnBlocksKept DEF GroupSync, OwnBlocks, Control, TypeOK,
     ProgressOK, Committings, Truncating, Reopening, allocation, lsns,
     recovery
<1>7. CASE ApplyPages
  BY <1>7, OwnBlocksKept DEF ApplyPages, OwnBlocks, Control, TypeOK,
     ProgressOK, Committings, Truncating, Reopening, allocation, ghosts,
     lsns, recovery
<1>8. CASE ApplySync
  BY <1>8, OwnBlocksKept DEF ApplySync, OwnBlocks, Control, TypeOK,
     ProgressOK, Committings, Truncating, Reopening, allocation, ghosts,
     lsns, recovery
<1>9. CASE ApplyClear
  BY <1>9, OwnBlocksKept DEF ApplyClear, OwnBlocks, Control, TypeOK,
     ProgressOK, Committings, Truncating, Reopening, allocation, ghosts,
     lsns, recovery
<1>10. CASE ApplyStage
  BY <1>10, OwnBlocksKept DEF ApplyStage, OwnBlocks, Control, TypeOK,
     ProgressOK, Committings, Truncating, Reopening, allocation, disk, ghosts,
     lsns, recovery
<1> QED
  BY <1>1, <1>2, <1>3, <1>4, <1>5, <1>6, <1>7, <1>8, <1>9, <1>10 DEF Committing

LEMMA CheckpointingOwnBlocks ==
  ASSUME TypeOK, Control, OwnBlocks, Checkpointing
  PROVE  OwnBlocks'
<1>1. CASE Checkpoint
  BY <1>1, OwnBlocksKept DEF Checkpoint, Idle, SyncGroup, OwnBlocks,
     Control, TypeOK, ProgressOK, Committings, Truncating, Reopening,
     allocation, disk, ghosts, lsns, recovery
<1>2. CASE CheckpointFuzzy
  BY <1>2 DEF CheckpointFuzzy, OwnBlocks, Control, Truncating, Reopening
<1>3. CASE CheckpointRecycle
  BY <1>3 DEF CheckpointRecycle, OwnBlocks, Control, Truncating, Reopening
<1>4. CASE RecycleSync
  BY <1>4 DEF RecycleSync, OwnBlocks, Control, Truncating, Reopening
<1>5. CASE CheckpointRecycled
  BY <1>5 DEF CheckpointRecycled, OwnBlocks, Control, Truncating, Reopening
<1>6. CASE CheckpointWrite
  BY <1>6 DEF CheckpointWrite, OwnBlocks, Control, Truncating, Reopening
<1> QED
  BY <1>1, <1>2, <1>3, <1>4, <1>5, <1>6 DEF Checkpointing

LEMMA FailingOwnBlocks ==
  ASSUME TypeOK, Control, OwnBlocks, Failing
  PROVE  OwnBlocks'
<1>1. CASE FaultCommit
  <2>1. /\ batch \in Batch /\ batch # None /\ wal' = wal /\ pc' = "idle"
        /\ batch' = [batch EXCEPT !.doomed = TRUE]
    BY <1>1, NoneAssumption
       DEF FaultCommit, TypeOK, ProgressOK, Committings, disk
  <2> QED
    BY <2>1, DoomType, OwnBlocksKept DEF OwnBlocks
<1>2. CASE FaultFatal
  BY <1>2, OwnBlocksKept DEF FaultFatal, OwnBlocks, Control, TypeOK,
     ProgressOK, Committings, Truncating, Reopening, allocation, disk,
     ghosts, lsns, recovery
<1>3. CASE FaultGroupSync
  BY <1>3, OwnBlocksKept DEF FaultGroupSync, Resume, OwnBlocks, Control,
     TypeOK, ProgressOK, Committings, Truncating, Reopening, allocation,
     disk, ghosts, lsns, recovery
<1>4. CASE FaultApplyGroup
  BY <1>4, OwnBlocksKept DEF FaultApplyGroup, Resume, OwnBlocks, Control,
     TypeOK, ProgressOK, Committings, Truncating, Reopening, allocation,
     disk, ghosts, lsns, recovery
<1>5. CASE FaultCheckpoint
  BY <1>5, OwnBlocksKept DEF FaultCheckpoint, OwnBlocks, Control, TypeOK,
     ProgressOK, Committings, Truncating, Reopening, allocation, disk,
     ghosts, lsns, recovery
<1>6. CASE Crash
  BY <1>6 DEF Crash, OwnBlocks, Closed
<1> QED
  BY <1>1, <1>2, <1>3, <1>4, <1>5, <1>6 DEF Failing

-----------------------------------------------------------------------------
(* The invariant of the page file, and what it gives.                      *)

\* Every step keeps the types, given Control.
LEMMA TypeStep ==
  ASSUME TypeOK, Control, [Next]_vars
  PROVE  TypeOK'
<1>1. CASE Opening
  BY <1>1, OpeningType
<1>2. CASE Changing
  BY <1>2, ChangingType
<1>3. CASE Committing
  BY <1>3, CommittingType
<1>4. CASE Checkpointing
  BY <1>4, CheckpointingType
<1>5. CASE Close
  BY <1>5 DEF Close, Idle, Working, InBatch, SyncGroup, TypeOK, DiskOK, MemoryOK,
     ProgressOK, Programs, Committings, Applying, disk, allocation, lsns,
     recovery, ghosts
<1>6. CASE Closing
  <2>1. DiskOK'
    BY <1>6 DEF Closing, TypeOK, DiskOK, disk
  <2>2. /\ refused' \in BOOLEAN /\ history' \in Seq(File) /\ history' # <<>>
        /\ usedLsn' \in Nat /\ crashes' \in Nat /\ Closed
    BY <1>6 DEF Closing, TypeOK, ProgressOK, ghosts
  <2> QED
    BY <2>1, <2>2, ClosedType DEF TypeOK
<1>7. CASE Failing
  BY <1>7, FailingType
<1>8. CASE UNCHANGED vars
  BY <1>8 DEF vars, TypeOK, DiskOK, MemoryOK, ProgressOK, disk, allocation, lsns,
     recovery, ghosts
<1> QED
  BY <1>1, <1>2, <1>3, <1>4, <1>5, <1>6, <1>7, <1>8 DEF Next

\* Every step keeps Control, given the types.
LEMMA ControlStep ==
  ASSUME TypeOK, Control, [Next]_vars
  PROVE  Control'
<1>1. CASE Opening
  BY <1>1, OpeningControl
<1>2. CASE Changing
  BY <1>2, ChangingControl
<1>3. CASE Committing
  BY <1>3, CommittingControl
<1>4. CASE Checkpointing
  BY <1>4, CheckpointingControl
<1>5. CASE Close
  BY <1>5 DEF Close, Idle, Working, InBatch, SyncGroup, Control, Applying,
     Truncating, Reopening, disk
<1>6. CASE Closing
  BY <1>6 DEF Closing, Closed, Control, Applying, Truncating, Reopening, disk
<1>7. CASE Failing
  BY <1>7, FailingControl
<1>8. CASE UNCHANGED vars
  BY <1>8 DEF vars, Control, disk
<1> QED
  BY <1>1, <1>2, <1>3, <1>4, <1>5, <1>6, <1>7, <1>8 DEF Next

\* Every step keeps OwnBlocks, given the types and Control.
LEMMA OwnBlocksStep ==
  ASSUME TypeOK, Control, OwnBlocks, [Next]_vars
  PROVE  OwnBlocks'
<1>1. CASE Opening
  BY <1>1, OpeningOwnBlocks
<1>2. CASE Changing
  BY <1>2, ChangingOwnBlocks
<1>3. CASE Committing
  BY <1>3, CommittingOwnBlocks
<1>4. CASE Checkpointing
  BY <1>4, CheckpointingOwnBlocks
<1>5. CASE Close
  BY <1>5 DEF Close, Idle, Working, InBatch, SyncGroup, OwnBlocks, Committings, disk
<1>6. CASE Closing
  BY <1>6 DEF Closing, Closed, OwnBlocks
<1>7. CASE Failing
  BY <1>7, FailingOwnBlocks
<1>8. CASE UNCHANGED vars
  BY <1>8 DEF vars, OwnBlocks, disk
<1> QED
  BY <1>1, <1>2, <1>3, <1>4, <1>5, <1>6, <1>7, <1>8 DEF Next

\* The types, Control and OwnBlocks hold in every state, whatever the sizes of
\* the file, of the batches and of the groups: no bound of the model is used.
THEOREM Invariant == Spec => []IInv
<1>1. Init => IInv
  <2> SUFFICES ASSUME Init PROVE IInv
    OBVIOUS
  <2>1. Control
    BY DEF Init, Control, Applying
  <2>2. OwnBlocks
    BY DEF Init, OwnBlocks
  <2> QED
    BY <2>1, <2>2, InitType DEF IInv
<1>2. IInv /\ [Next]_vars => IInv'
  BY TypeStep, ControlStep, OwnBlocksStep DEF IInv
<1> QED
  BY <1>1, <1>2, PTL DEF Spec

\* The state keeps its types: in particular recovery reads only extents and
\* markers it has checked, and applyExtent is never entered with nothing queued.
THEOREM TypeCorrect == Spec => []TypeOK
<1>1. IInv => TypeOK
  BY DEF IInv
<1> QED
  BY <1>1, Invariant, PTL

\* The journal is only cut, and a recovery start only recorded, while no batch is
\* open, no group is pending and all of the main file is fsynced (checkpoint,
\* recycleJournal, the end of recoverJournal).
THEOREM JournalCut == Spec => []JournalCutWhenApplied
<1>1. IInv => JournalCutWhenApplied
  BY DEF IInv, Control, JournalCutWhenApplied, Applying, Truncating, Reopening
<1> QED
  BY <1>1, Invariant, PTL

\* The step that closes a batch on the way to an abort marker is a rollback.
LEMMA AbortOnly ==
  ASSUME TypeOK, Control, Next, batch # None, batch' = None, pc' = "aborting"
  PROVE  Rollback /\ batch.touched
<1>1. ~Opening
  BY DEF Opening, Create, Open, OpenRefused, SlotsRefused, Recover, RecoverDoubleWrite, ClearRestored,
     RedoRefuse, RedoAbort, RedoExtent, RedoSync, RedoFinish, RedoCkpt,
     RedoTruncate, Rebuild, Refuse, Closed, Scan
<1>2. Changing => Rollback /\ batch.touched
  BY DEF Changing, Begin, Write, AllocateReused, AllocateAppended, Release,
     TakeSavepoint, RestoreSavepoint, Rollback, SyncAbort, BatchOnly, Idle,
     Working, InBatch
<1>3. ~Committing
  BY DEF Committing, CommitEmpty, CommitAppend, CommitPrepared, CommitMark,
     CommitPublish, GroupSync, ApplyStage, ApplyPages, ApplySync, ApplyClear, SyncGroup, Working, InBatch,
     TypeOK, ProgressOK
<1>4. ~Checkpointing
  BY DEF Checkpointing, Checkpoint, CheckpointFuzzy, CheckpointRecycle, RecycleSync,
     CheckpointRecycled, CheckpointWrite, Idle
<1>5. ~Close /\ ~Closing
  BY DEF Close, Closing, Closed, SyncGroup
<1>6. ~Failing
  BY DEF Failing, FaultCommit, FaultFatal, FaultGroupSync, FaultApplyGroup,
     FaultCheckpoint, Crash, Closed, Resume
<1> QED
  BY <1>1, <1>2, <1>3, <1>4, <1>5, <1>6 DEF Next

\* A rollback cuts its own blocks out of the journal, and no commit marker of an
\* earlier batch with them (rollbackWriteBatch, appendAbortTx).
THEOREM RollbackCut == Spec => RollbackKeepsJournal
<1>1. IInv /\ [Next]_vars
      => [batch # None /\ batch' = None /\ pc' = "aborting" =>
            /\ Len(wal') = batch.start + 2
            /\ SubSeq(wal', 1, batch.start) = SubSeq(wal, 1, batch.start)
            /\ CommitMarks(batch.start + 1, Len(wal)) \subseteq {Len(wal)}]_vars
  <2> SUFFICES ASSUME IInv, Next, batch # None, batch' = None, pc' = "aborting"
               PROVE  /\ Len(wal') = batch.start + 2
                      /\ SubSeq(wal', 1, batch.start) = SubSeq(wal, 1, batch.start)
                      /\ CommitMarks(batch.start + 1, Len(wal)) \subseteq {Len(wal)}
    OBVIOUS
  <2>1. Rollback /\ batch.touched
    BY AbortOnly DEF IInv
  <2>2. /\ ~batch.published /\ batch \in Batch /\ batch.start \in Nat
        /\ wal \in Seq(Block) /\ Len(wal) \in Nat /\ batch.start <= Len(wal)
    BY <2>1 DEF Rollback, IInv, TypeOK, DiskOK, MemoryOK, OwnBlocks, Batch
  <2> DEFINE kept == SubSeq(wal, 1, batch.start)
             abort == <<AbortBlock(batch.lsn), Mark(0)>>
  <2>3. kept \in Seq(Block) /\ Len(kept) = batch.start
    BY <2>2
  <2>4. wal' = kept \o abort
    <3>1. Smaller(batch.start, Len(wal)) = batch.start
      BY <2>2 DEF Smaller
    <3>2. wal' = JournalBefore(batch) \o abort
      BY <2>1 DEF Rollback
    <3> QED
      BY <3>1, <3>2 DEF JournalBefore
  <2>5. abort \in Seq(Block) /\ Len(abort) = 2
    BY <2>2, FixedBlocks DEF Batch
  <2>6. Len(wal') = batch.start + 2
    <3> HIDE DEF kept, abort
    <3>1. Len(kept \o abort) = Len(kept) + Len(abort)
      BY <2>3, <2>5, ConcatProperties
    <3> QED
      BY <2>2, <2>3, <2>4, <2>5, <3>1
  <2>7. SubSeq(wal', 1, batch.start) = kept
    <3>1. \A i \in 1 .. batch.start : wal'[i] = kept[i]
      <4> HIDE DEF kept, abort
      <4> QED
        BY <2>2, <2>3, <2>4, <2>5, ConcatProperties
    <3>2. wal' \in Seq(Block)
      <4> HIDE DEF kept, abort
      <4> QED
        BY <2>3, <2>4, <2>5
    <3> DEFINE left == SubSeq(wal', 1, batch.start)
    <3>3. left \in Seq(Block) /\ Len(left) = batch.start
      BY <2>2, <2>6, <3>2
    <3>4. \A i \in 1 .. batch.start : left[i] = wal'[i]
      BY <2>2, <2>6, <3>2
    <3> HIDE DEF kept, left
    <3>5. left = kept
      BY <2>2, <2>3, <3>1, <3>3, <3>4, SeqEqual
    <3> QED
      BY <3>5 DEF left
  <2>8. CommitMarks(batch.start + 1, Len(wal)) \subseteq {Len(wal)}
    BY <2>2 DEF CommitMarks, IInv, OwnBlocks
  <2> QED
    BY <2>6, <2>7, <2>8
<1> QED
  BY <1>1, Invariant, PTL DEF Spec, RollbackKeepsJournal

-----------------------------------------------------------------------------
(* What the journal keeps when it is cut, extended and cleared at the       *)
(* front: lemmas about the operators of PageFileInvariant.                  *)

\* the first n blocks of two journals are the same
SamePrefix(w, v, n) == \A i \in 1 .. n : v[i] = w[i]

LEMMA EndType ==
  ASSUME NEW w, NEW i \in Nat
  PROVE  ExtentEnd(w, i) \in Nat /\ ExtentEnd(w, i) > i
<1>1. BodyLength(w[i].pages) \in Nat
  <2>1. Cardinality(Staged(w[i].pages)) \in Nat
    BY StagedCount
  <2> QED
    BY <2>1 DEF BodyLength
<1> QED
  BY <1>1 DEF ExtentEnd

LEMMA RedosType ==
  ASSUME NEW w, NEW n \in Nat
  PROVE  /\ Redos(w, n) \in SUBSET (1 .. n) /\ IsFiniteSet(Redos(w, n))
         /\ \A p : Writers(w, n, p) \in SUBSET Redos(w, n) /\ IsFiniteSet(Writers(w, n, p))
<1>1. Redos(w, n) \in SUBSET (1 .. n)
  BY DEF Redos
<1>2. IsFiniteSet(1 .. n)
  BY FS_Interval
<1>3. IsFiniteSet(Redos(w, n))
  BY <1>1, <1>2, FS_Subset
<1>4. \A p : Writers(w, n, p) \in SUBSET Redos(w, n)
  BY DEF Writers
<1> QED
  BY <1>1, <1>3, <1>4, FS_Subset

\* Journals with the same redo extents stand for the same images.
LEMMA SameRedos ==
  ASSUME NEW w, NEW v, NEW n, NEW m, Redos(v, m) = Redos(w, n),
         \A i \in Redos(w, n) : v[i] = w[i]
  PROVE  /\ \A p : Writers(v, m, p) = Writers(w, n, p)
         /\ \A from, p : Written(v, from, m, p) <=> Written(w, from, n, p)
         /\ \A image : Agrees(w, n, image) => Agrees(v, m, image)
         /\ \A from, file, image :
              Covered(w, from, n, file, image) => Covered(v, from, m, file, image)
<1>1. \A p : Writers(v, m, p) = Writers(w, n, p)
  BY DEF Writers
<1>2. \A from, p : Written(v, from, m, p) <=> Written(w, from, n, p)
  BY <1>1 DEF Written
<1>3. ASSUME NEW image, Agrees(w, n, image)
      PROVE  Agrees(v, m, image)
  <2> SUFFICES ASSUME NEW p \in PageId
               PROVE  /\ \A i \in Writers(v, m, p) :
                           (\A j \in Writers(v, m, p) : j <= i) => v[i].pages[p] = image[p]
                      /\ \A i \in Redos(v, m) :
                           p >= v[i].count => image[p] = Absent \/ Written(v, i, m, p)
    BY DEF Agrees
  <2>1. ASSUME NEW i \in Writers(v, m, p), \A j \in Writers(v, m, p) : j <= i
        PROVE  v[i].pages[p] = image[p]
    <3>1. i \in Writers(w, n, p) /\ \A j \in Writers(w, n, p) : j <= i
      BY <1>1, <2>1
    <3>2. w[i].pages[p] = image[p]
      BY <1>3, <3>1 DEF Agrees
    <3>3. v[i] = w[i]
      BY <3>1 DEF Writers
    <3> QED
      BY <3>2, <3>3
  <2>2. ASSUME NEW i \in Redos(v, m), p >= v[i].count
        PROVE  image[p] = Absent \/ Written(v, i, m, p)
    <3>1. i \in Redos(w, n) /\ v[i] = w[i]
      OBVIOUS
    <3>2. image[p] = Absent \/ Written(w, i, n, p)
      BY <1>3, <2>2, <3>1 DEF Agrees
    <3> QED
      BY <1>2, <3>2
  <2> QED
    BY <2>1, <2>2
<1>4. \A from, file, image :
        Covered(w, from, n, file, image) => Covered(v, from, m, file, image)
  BY <1>2 DEF Covered
<1> QED
  BY <1>1, <1>2, <1>3, <1>4

LEMMA PrefixRedos ==
  ASSUME NEW w, NEW v, NEW n \in Nat, SamePrefix(w, v, n)
  PROVE  Redos(v, n) = Redos(w, n) /\ \A i \in Redos(w, n) : v[i] = w[i]
<1>1. \A i \in 1 .. n : v[i] = w[i] /\ ExtentEnd(v, i) = ExtentEnd(w, i)
  BY DEF SamePrefix, ExtentEnd
<1> QED
  BY <1>1 DEF Redos

LEMMA PrefixParsed ==
  ASSUME NEW w, NEW v, NEW n \in Nat, SamePrefix(w, v, n), Parsed(w, n)
  PROVE  Parsed(v, n)
<1>1. \A i \in 1 .. n : v[i] = w[i] /\ ExtentEnd(v, i) = ExtentEnd(w, i)
  BY DEF SamePrefix, ExtentEnd
<1>2. \A b \in 0 .. n : Boundary(v, b) <=> Boundary(w, b)
  BY <1>1 DEF Boundary
<1>3. ASSUME NEW b \in 0 .. n - 1, Boundary(v, b)
      PROVE  Opens(v[b + 1])
  <2>1. b + 1 \in 1 .. n /\ b \in 0 .. n
    OBVIOUS
  <2>2. v[b + 1] = w[b + 1] /\ Boundary(w, b)
    BY <1>1, <1>2, <1>3, <2>1
  <2> QED
    BY <2>2 DEF Parsed
<1>4. ASSUME NEW i \in 1 .. n, Opens(v[i])
      PROVE  Whole(v, i, n)
  <2>1. Whole(w, i, n)
    BY <1>1, <1>4 DEF Parsed
  <2>2. ExtentEnd(w, i) \in Nat /\ ExtentEnd(w, i) > i
    BY EndType
  <2>3. ExtentEnd(w, i) <= n
    BY <2>1 DEF Whole
  <2>4. v[ExtentEnd(w, i)] = w[ExtentEnd(w, i)] /\ v[i] = w[i]
    BY <1>1, <2>2, <2>3
  <2>5. \A j \in i + 1 .. ExtentEnd(w, i) - 1 : j \in 1 .. n
    BY <2>2, <2>3
  <2>6. \A j \in i + 1 .. ExtentEnd(w, i) - 1 : v[j] = w[j]
    BY <1>1, <2>5
  <2> QED
    BY <1>1, <2>1, <2>4, <2>6 DEF Whole
<1>5. Boundary(v, n)
  BY <1>2 DEF Parsed
<1> QED
  BY <1>3, <1>4, <1>5 DEF Parsed

\* Fewer blocks hold no more redo extents; the same if none ends between.
LEMMA FewerRedos ==
  ASSUME NEW w, NEW n \in Nat, NEW m \in Nat, n <= m
  PROVE  /\ Redos(w, n) \in SUBSET Redos(w, m)
         /\ \A from, p : Written(w, from, n, p) => Written(w, from, m, p)
         /\ (\A i \in Redos(w, m) : ExtentEnd(w, i) <= n) => Redos(w, n) = Redos(w, m)
<1>1. Redos(w, n) \in SUBSET Redos(w, m)
  <2> SUFFICES ASSUME NEW i \in Redos(w, n) PROVE i \in Redos(w, m)
    OBVIOUS
  <2>1. i \in 1 .. n /\ w[i].kind = "redo" /\ ExtentEnd(w, i) <= n
    BY DEF Redos
  <2>2. ExtentEnd(w, i) \in Nat
    BY <2>1, EndType
  <2> QED
    BY <2>1, <2>2 DEF Redos
<1>2. ASSUME \A i \in Redos(w, m) : ExtentEnd(w, i) <= n
      PROVE  Redos(w, m) \in SUBSET Redos(w, n)
  <2> SUFFICES ASSUME NEW i \in Redos(w, m) PROVE i \in Redos(w, n)
    OBVIOUS
  <2>1. i \in 1 .. m /\ w[i].kind = "redo" /\ ExtentEnd(w, i) <= n
    BY <1>2 DEF Redos
  <2>2. ExtentEnd(w, i) \in Nat /\ ExtentEnd(w, i) > i
    BY <2>1, EndType
  <2> QED
    BY <2>1, <2>2 DEF Redos
<1>3. \A from, p : Written(w, from, n, p) => Written(w, from, m, p)
  BY <1>1 DEF Written, Writers
<1> QED
  BY <1>1, <1>2, <1>3

-----------------------------------------------------------------------------
(* Boundaries.                                                             *)

\* Behind a boundary within the extents read stands a whole extent.
LEMMA NextWhole ==
  ASSUME NEW w, NEW end \in Nat, Parsed(w, end), NEW b \in Nat, b < end, Boundary(w, b)
  PROVE  Opens(w[b + 1]) /\ Whole(w, b + 1, end)
<1>1. b \in 0 .. end - 1 /\ b + 1 \in 1 .. end
  OBVIOUS
<1>2. Opens(w[b + 1])
  BY <1>1 DEF Parsed
<1> QED
  BY <1>1, <1>2 DEF Parsed

\* A boundary does not fall into an extent.
LEMMA NoBoundaryInside ==
  ASSUME NEW w, NEW end \in Nat, Parsed(w, end),
         NEW i \in 1 .. end, Opens(w[i]), NEW b \in Nat, Boundary(w, b), b >= i
  PROVE  b >= ExtentEnd(w, i)
<1> SUFFICES ASSUME b < ExtentEnd(w, i) PROVE FALSE
  BY EndType
<1>1. Whole(w, i, end) /\ ExtentEnd(w, i) \in Nat
  BY EndType DEF Parsed
<1>2. w[b].kind = "mark"
  BY DEF Boundary
<1>3. b # i
  BY <1>2 DEF Opens
<1>4. b \in i + 1 .. ExtentEnd(w, i) - 1
  BY <1>1, <1>3
<1>5. w[b].kind = "body"
  BY <1>1, <1>4 DEF Whole
<1> QED
  BY <1>2, <1>5

\* The last marker and the end of the extents are the same place.
LEMMA LastMarkUnique ==
  ASSUME NEW w, Len(w) \in Nat, NEW n \in 0 .. Len(w), Boundary(w, n), NoMarks(w, n)
  PROVE  LastMark(w) = n
<1> DEFINE P(m) == Boundary(w, m) /\ NoMarks(w, m)
<1>1. \A m \in 0 .. Len(w) : P(m) => m = n
  <2> SUFFICES ASSUME NEW m \in 0 .. Len(w), P(m), m # n PROVE FALSE
    OBVIOUS
  <2>1. CASE m < n
    <3>1. n \in m + 1 .. Len(w) /\ n # 0
      BY <2>1
    <3>2. w[n].kind = "mark" /\ w[n].kind # "mark"
      BY <3>1 DEF Boundary, NoMarks
    <3> QED
      BY <3>2
  <2>2. CASE n < m
    <3>1. m \in n + 1 .. Len(w) /\ m # 0
      BY <2>2
    <3>2. w[m].kind = "mark" /\ w[m].kind # "mark"
      BY <3>1 DEF Boundary, NoMarks
    <3> QED
      BY <3>2
  <2> QED
    BY <2>1, <2>2
<1>2. n \in 0 .. Len(w) /\ P(n)
  OBVIOUS
<1>3. LastMark(w) = CHOOSE m \in 0 .. Len(w) : P(m)
  BY DEF LastMark
<1> HIDE DEF P
<1> QED
  BY <1>1, <1>2, <1>3

LEMMA LastMarkWhole ==
  ASSUME NEW w, Len(w) \in Nat, Parsed(w, Len(w))
  PROVE  LastMark(w) = Len(w)
<1>1. Boundary(w, Len(w)) /\ NoMarks(w, Len(w)) /\ Len(w) \in 0 .. Len(w)
  BY DEF Parsed, NoMarks
<1> QED
  BY <1>1, LastMarkUnique

\* There is a last boundary at or before any block.
LEMMA LastBoundary ==
  ASSUME NEW w, NEW n \in Nat
  PROVE  \E b \in 0 .. n : Boundary(w, b) /\ \A i \in b + 1 .. n : w[i].kind # "mark"
<1> DEFINE S == {b \in 0 .. n : Boundary(w, b)}
<1>1. 0 \in S
  BY DEF Boundary
<1>2. S \in SUBSET (0 .. n) /\ S \in SUBSET Int /\ IsFiniteSet(0 .. n)
  BY FS_Interval
<1>3. IsFiniteSet(S)
  BY <1>2, FS_Subset
<1>4. PICK b \in S : \A c \in S : c <= b
  <2> HIDE DEF S
  <2> QED
    BY <1>1, <1>2, <1>3, MaxExists
<1>5. ASSUME NEW i \in b + 1 .. n PROVE w[i].kind # "mark"
  <2>1. i \in 0 .. n /\ ~(i <= b)
    BY <1>2
  <2>2. i \notin S
    BY <1>4, <2>1
  <2> QED
    BY <2>1, <2>2 DEF Boundary
<1> QED
  BY <1>4, <1>5

LEMMA LastMarkExists ==
  ASSUME NEW w, Len(w) \in Nat
  PROVE  LastMark(w) \in 0 .. Len(w) /\ Boundary(w, LastMark(w)) /\ NoMarks(w, LastMark(w))
<1>1. PICK b \in 0 .. Len(w) : Boundary(w, b) /\ \A i \in b + 1 .. Len(w) : w[i].kind # "mark"
  BY LastBoundary
<1>2. NoMarks(w, b)
  BY <1>1 DEF NoMarks
<1>3. LastMark(w) = b
  BY <1>1, <1>2, LastMarkUnique
<1> QED
  BY <1>1, <1>2, <1>3

\* Cut anywhere, the extents that remain whole end at the last boundary.
LEMMA CutParsed ==
  ASSUME NEW w, NEW end \in Nat, Parsed(w, end), NEW n \in 0 .. end,
         NEW b \in 0 .. n, Boundary(w, b), \A i \in b + 1 .. n : w[i].kind # "mark"
  PROVE  Parsed(w, b) /\ Redos(w, b) = Redos(w, n)
<1>1. ASSUME NEW i \in 1 .. end, Opens(w[i]), ExtentEnd(w, i) <= n
      PROVE  ExtentEnd(w, i) <= b
  <2>1. Whole(w, i, end) /\ ExtentEnd(w, i) \in Nat
    BY <1>1, EndType DEF Parsed
  <2>2. w[ExtentEnd(w, i)].kind = "mark"
    BY <2>1 DEF Whole
  <2> QED
    BY <1>1, <2>1, <2>2
<1>2. ASSUME NEW i \in 1 .. b, Opens(w[i])
      PROVE  Whole(w, i, b)
  <2>1. i \in 1 .. end /\ Whole(w, i, end)
    BY <1>2 DEF Parsed
  <2>2. b >= ExtentEnd(w, i)
    BY <1>2, <2>1, NoBoundaryInside
  <2> QED
    BY <2>1, <2>2 DEF Whole
<1>3. Parsed(w, b)
  <2>1. \A c \in 0 .. b - 1 : Boundary(w, c) => Opens(w[c + 1])
    BY DEF Parsed
  <2> QED
    BY <1>2, <2>1 DEF Parsed
<1>4. \A i \in Redos(w, n) : ExtentEnd(w, i) <= b
  <2> SUFFICES ASSUME NEW i \in Redos(w, n) PROVE ExtentEnd(w, i) <= b
    OBVIOUS
  <2>1. i \in 1 .. end /\ Opens(w[i]) /\ ExtentEnd(w, i) <= n
    BY DEF Redos, Opens
  <2> QED
    BY <1>1, <2>1
<1>5. Redos(w, b) = Redos(w, n)
  BY <1>4, FewerRedos
<1> QED
  BY <1>3, <1>5

-----------------------------------------------------------------------------
(* Extents written behind the extents there are.                            *)

LEMMA AbortAppended ==
  ASSUME NEW w, NEW v, NEW n \in Nat, Parsed(w, n), SamePrefix(w, v, n),
         v[n + 1].kind = "abort", v[n + 2].kind = "mark"
  PROVE  /\ Parsed(v, n + 2)
         /\ \A m \in n .. n + 2 :
              Redos(v, m) = Redos(w, n) /\ \A i \in Redos(w, n) : v[i] = w[i]
<1>1. Parsed(v, n) /\ Redos(v, n) = Redos(w, n) /\ \A i \in Redos(w, n) : v[i] = w[i]
  BY PrefixParsed, PrefixRedos
<1>2. ExtentEnd(v, n + 1) = n + 2
  BY DEF ExtentEnd
<1>3. \A i \in 1 .. n + 2 : i \in 1 .. n \/ i = n + 1 \/ i = n + 2
  OBVIOUS
<1>4. ASSUME NEW i \in 1 .. n + 2, Opens(v[i])
      PROVE  Whole(v, i, n + 2)
  <2>1. CASE i \in 1 .. n
    <3>1. Whole(v, i, n) /\ ExtentEnd(v, i) \in Nat
      BY <1>1, <1>4, <2>1, EndType DEF Parsed
    <3> QED
      BY <3>1 DEF Whole
  <2>2. CASE i = n + 1
    BY <1>2, <2>2 DEF Whole
  <2>3. CASE i = n + 2
    BY <1>4, <2>3 DEF Opens
  <2> QED
    BY <1>3, <2>1, <2>2, <2>3
<1>5. ASSUME NEW b \in 0 .. n + 1, Boundary(v, b)
      PROVE  Opens(v[b + 1])
  <2>1. CASE b \in 0 .. n - 1
    BY <1>1, <1>5, <2>1 DEF Parsed
  <2>2. CASE b = n
    BY <2>2 DEF Opens
  <2>3. CASE b = n + 1
    BY <1>5, <2>3 DEF Boundary
  <2>4. b \in 0 .. n - 1 \/ b = n \/ b = n + 1
    OBVIOUS
  <2> QED
    BY <2>1, <2>2, <2>3, <2>4
<1>6. Parsed(v, n + 2)
  <2>1. n + 2 - 1 = n + 1 /\ Boundary(v, n + 2)
    BY DEF Boundary
  <2> QED
    BY <1>4, <1>5, <2>1 DEF Parsed
<1>7. ASSUME NEW m \in n .. n + 2
      PROVE  Redos(v, m) = Redos(v, n)
  <2>1. \A i \in Redos(v, m) : ExtentEnd(v, i) <= n
    <3> SUFFICES ASSUME NEW i \in Redos(v, m) PROVE ExtentEnd(v, i) <= n
      OBVIOUS
    <3>1. i \in 1 .. n + 2 /\ v[i].kind = "redo"
      BY DEF Redos
    <3>2. i \in 1 .. n
      BY <1>3, <3>1
    <3>3. Whole(v, i, n)
      BY <1>1, <3>1, <3>2 DEF Parsed, Opens
    <3> QED
      BY <3>3 DEF Whole
  <2> QED
    BY <2>1, FewerRedos
<1> QED
  BY <1>1, <1>6, <1>7

LEMMA ExtentAppended ==
  ASSUME NEW w, NEW v, NEW n \in Nat, Parsed(w, n), SamePrefix(w, v, n),
         v[n + 1].kind = "redo", NEW e, e = ExtentEnd(v, n + 1),
         \A j \in n + 2 .. e - 1 : v[j].kind = "body",
         v[e].kind = "mark", v[e].seq = v[n + 1].seq
  PROVE  /\ e \in Nat /\ e > n + 1 /\ Parsed(v, e)
         /\ \A i \in Redos(w, n) : v[i] = w[i]
         /\ \A m \in n .. e - 1 : Redos(v, m) = Redos(w, n)
         /\ Redos(v, e) = Redos(w, n) \cup {n + 1}
<1>1. Parsed(v, n) /\ Redos(v, n) = Redos(w, n) /\ \A i \in Redos(w, n) : v[i] = w[i]
  BY PrefixParsed, PrefixRedos
<1>2. e \in Nat /\ e > n + 1
  BY EndType
<1>3. \A i \in 1 .. e : i \in 1 .. n \/ i = n + 1 \/ i \in n + 2 .. e - 1 \/ i = e
  BY <1>2
<1>4. Whole(v, n + 1, e)
  <2>1. \A j \in (n + 1) + 1 .. e - 1 : v[j].kind = "body"
    OBVIOUS
  <2>2. ExtentEnd(v, n + 1) = e /\ e <= e
    BY <1>2
  <2> QED
    BY <2>1, <2>2 DEF Whole
<1>5. ASSUME NEW i \in 1 .. e, Opens(v[i])
      PROVE  Whole(v, i, e) /\ ((i \in 1 .. n /\ ExtentEnd(v, i) <= n) \/ i = n + 1)
  <2>1. CASE i \in 1 .. n
    <3>1. Whole(v, i, n) /\ ExtentEnd(v, i) \in Nat
      BY <1>1, <1>5, <2>1, EndType DEF Parsed
    <3>2. ExtentEnd(v, i) <= n /\ ExtentEnd(v, i) <= e
      BY <1>2, <3>1 DEF Whole
    <3> QED
      BY <2>1, <3>1, <3>2 DEF Whole
  <2>2. CASE i = n + 1
    BY <1>4, <2>2
  <2>3. CASE i \in n + 2 .. e - 1
    BY <1>5, <2>3 DEF Opens
  <2>4. CASE i = e
    BY <1>5, <2>4 DEF Opens
  <2> QED
    BY <1>3, <2>1, <2>2, <2>3, <2>4
<1>6. ASSUME NEW b \in 0 .. e - 1, Boundary(v, b)
      PROVE  Opens(v[b + 1])
  <2>1. CASE b \in 0 .. n - 1
    BY <1>1, <1>6, <2>1 DEF Parsed
  <2>2. CASE b = n
    BY <2>2 DEF Opens
  <2>3. CASE b = n + 1
    BY <1>6, <2>3 DEF Boundary
  <2>4. CASE b \in n + 2 .. e - 1
    BY <1>6, <2>4 DEF Boundary
  <2>5. b \in 0 .. n - 1 \/ b = n \/ b = n + 1 \/ b \in n + 2 .. e - 1
    BY <1>2
  <2> QED
    BY <2>1, <2>2, <2>3, <2>4, <2>5
<1>7. Parsed(v, e)
  <2>1. Boundary(v, e)
    BY DEF Boundary
  <2> QED
    BY <1>5, <1>6, <2>1 DEF Parsed
<1>8. ASSUME NEW m \in n .. e - 1
      PROVE  Redos(v, m) = Redos(v, n)
  <2>1. m \in Nat /\ n <= m /\ m < e
    BY <1>2
  <2>2. \A i \in Redos(v, m) : ExtentEnd(v, i) <= n
    <3> SUFFICES ASSUME NEW i \in Redos(v, m) PROVE ExtentEnd(v, i) <= n
      OBVIOUS
    <3>1. i \in 1 .. m /\ v[i].kind = "redo" /\ ExtentEnd(v, i) <= m
      BY DEF Redos
    <3>4. i \in 1 .. e
      BY <1>2, <2>1, <3>1
    <3>2. i # n + 1
      BY <1>2, <2>1, <3>1
    <3> QED
      BY <1>5, <3>1, <3>2, <3>4 DEF Opens
  <2> QED
    BY <2>1, <2>2, FewerRedos
<1>9. Redos(v, e) = Redos(v, n) \cup {n + 1}
  <2>1. n + 1 \in Redos(v, e)
    <3>1. n + 1 \in 1 .. e /\ v[n + 1].kind = "redo" /\ ExtentEnd(v, n + 1) <= e
      BY <1>2
    <3> QED
      BY <3>1 DEF Redos
  <2>2. ASSUME NEW i \in Redos(v, e), i # n + 1
        PROVE  i \in Redos(v, n)
    <3>1. i \in 1 .. e /\ v[i].kind = "redo"
      BY DEF Redos
    <3>2. i \in 1 .. n /\ ExtentEnd(v, i) <= n
      BY <1>5, <2>2, <3>1 DEF Opens
    <3> QED
      BY <3>1, <3>2 DEF Redos
  <2>3. Redos(v, n) \in SUBSET Redos(v, e)
    <3>1. n <= e
      BY <1>2
    <3> QED
      BY <1>2, <3>1, FewerRedos
  <2> QED
    BY <2>1, <2>2, <2>3
<1> QED
  BY <1>1, <1>2, <1>7, <1>8, <1>9

-----------------------------------------------------------------------------
(* The images the journal stands for, wherever it is cut.                   *)

LEMMA MarksType ==
  ASSUME NEW w, NEW n \in Nat, NEW e \in Nat
  PROVE  /\ IsFiniteSet(Marks(w, n, e)) /\ Cardinality(Marks(w, n, e)) \in Nat
         /\ Lost(w, n, e) \in Nat /\ Lost(w, e, e) = 0
<1>1. IsFiniteSet(n .. e) /\ IsFiniteSet((n + 1) .. e)
  BY FS_Interval
<1>2. Marks(w, n, e) \in SUBSET (n .. e) /\ Marks(w, n + 1, e) \in SUBSET ((n + 1) .. e)
  BY DEF Marks
<1>3. Marks(w, e + 1, e) = {}
  BY DEF Marks
<1> QED
  BY <1>1, <1>2, <1>3, SubsetCount, FS_EmptySet DEF Lost

LEMMA PrefixMarks ==
  ASSUME NEW w, NEW v, NEW n \in Nat, NEW e \in Nat, SamePrefix(w, v, e)
  PROVE  Marks(v, n + 1, e) = Marks(w, n + 1, e) /\ Lost(v, n, e) = Lost(w, n, e)
<1>1. \A i \in (n + 1) .. e : i \in 1 .. e
  OBVIOUS
<1>2. \A i \in (n + 1) .. e : v[i] = w[i]
  BY <1>1 DEF SamePrefix
<1>3. Marks(v, n + 1, e) = Marks(w, n + 1, e)
  BY <1>2 DEF Marks
<1> QED
  BY <1>3 DEF Lost

LEMMA ShorterPrefix ==
  ASSUME NEW w, NEW v, NEW e \in Nat, NEW n \in Nat, n <= e, SamePrefix(w, v, e)
  PROVE  SamePrefix(w, v, n)
  BY DEF SamePrefix

\* From an earlier block the journal covers more; from a later cut it has more.
LEMMA CoveredEarlier ==
  ASSUME NEW w, NEW n \in Nat, NEW from \in Nat, NEW to \in Nat, to <= from
  PROVE  /\ \A p : Written(w, from, n, p) => Written(w, to, n, p)
         /\ \A file, image : Covered(w, from, n, file, image) => Covered(w, to, n, file, image)
<1>1. \A p : Written(w, from, n, p) => Written(w, to, n, p)
  <2> SUFFICES ASSUME NEW p, NEW i \in Writers(w, n, p), i > from
               PROVE  i > to
    BY DEF Written
  <2>1. i \in 1 .. n
    BY RedosType
  <2> QED
    BY <2>1
<1> QED
  BY <1>1 DEF Covered

\* The journal keeps its promises when only blocks behind its end change, when
\* more of it is fsynced, and when recovery starts earlier.
LEMMA KeptPrefix ==
  ASSUME NEW w, NEW v, NEW e \in Nat, SamePrefix(w, v, e), NEW h,
         NEW f \in Nat, NEW g \in Nat, f <= g, Kept(w, f, e, h)
  PROVE  /\ Kept(v, g, e, h)
         /\ \A from, to \in Nat : \A file : to <= from /\ Safe(w, f, e, h, from, file)
              => Safe(v, g, e, h, to, file)
<1>1. ASSUME NEW n \in g .. e
      PROVE  /\ n \in f .. e /\ n \in Nat
             /\ Lost(v, n, e) = Lost(w, n, e) /\ Image(v, n, e, h) = Image(w, n, e, h)
             /\ \A image : Agrees(w, n, image) => Agrees(v, n, image)
             /\ \A from, file, image :
                  Covered(w, from, n, file, image) => Covered(v, from, n, file, image)
  <2>1. n \in f .. e /\ n \in Nat /\ n <= e
    OBVIOUS
  <2>2. Lost(v, n, e) = Lost(w, n, e)
    BY <2>1, PrefixMarks
  <2>3. Redos(v, n) = Redos(w, n) /\ \A i \in Redos(w, n) : v[i] = w[i]
    BY <2>1, ShorterPrefix, PrefixRedos
  <2> QED
    BY <2>1, <2>2, <2>3, SameRedos DEF Image
<1>2. Kept(v, g, e, h)
  BY <1>1 DEF Kept
<1>3. ASSUME NEW from \in Nat, NEW to \in Nat, NEW file, to <= from,
             Safe(w, f, e, h, from, file), NEW n \in g .. e
      PROVE  Covered(v, to, n, file, Image(v, n, e, h))
  <2>1. Covered(w, from, n, file, Image(w, n, e, h))
    BY <1>1, <1>3 DEF Safe
  <2>2. Covered(v, from, n, file, Image(v, n, e, h))
    BY <1>1, <2>1
  <2> QED
    BY <1>1, <1>3, <2>2, CoveredEarlier
<1> QED
  BY <1>2, <1>3 DEF Safe

\* At its end the journal stands for the newest image.
LEMMA KeptLast ==
  ASSUME NEW w, NEW e \in Nat, NEW f \in Nat, f <= e, NEW h, Len(h) \in Nat,
         Kept(w, f, e, h)
  PROVE  /\ Agrees(w, e, h[Len(h)])
         /\ \A from, file : Safe(w, f, e, h, from, file) =>
              Covered(w, from, e, file, h[Len(h)])
<1>1. e \in f .. e /\ Lost(w, e, e) = 0
  BY MarksType
<1>2. Image(w, e, e, h) = h[Len(h)]
  BY <1>1 DEF Image
<1> QED
  BY <1>1, <1>2 DEF Kept, Safe

\* Where nothing behind the end may be cut off, one image is all there is.
LEMMA KeptAtEnd ==
  ASSUME NEW w, NEW e \in Nat, NEW h, Len(h) \in Nat \ {0}, Agrees(w, e, h[Len(h)])
  PROVE  /\ Kept(w, e, e, h)
         /\ \A from, file : Covered(w, from, e, file, h[Len(h)]) =>
              Safe(w, e, e, h, from, file)
<1>1. Lost(w, e, e) = 0 /\ \A n \in e .. e : n = e
  BY MarksType
<1>2. Image(w, e, e, h) = h[Len(h)]
  BY <1>1 DEF Image
<1> QED
  BY <1>1, <1>2 DEF Kept, Safe

LEMMA KeptForget ==
  ASSUME NEW w, NEW e \in Nat, NEW f \in Nat, f <= e, NEW h, Len(h) \in Nat \ {0},
         Kept(w, f, e, h)
  PROVE  /\ Kept(w, e, e, <<h[Len(h)]>>)
         /\ \A from, file : Safe(w, f, e, h, from, file) =>
              Safe(w, e, e, <<h[Len(h)]>>, from, file)
<1> DEFINE last == <<h[Len(h)]>>
<1>1. Agrees(w, e, h[Len(h)])
  BY KeptLast
<1>2. Len(last) \in Nat \ {0} /\ last[Len(last)] = h[Len(h)]
  OBVIOUS
<1>3. \A from, file : Safe(w, f, e, h, from, file) => Covered(w, from, e, file, h[Len(h)])
  BY KeptLast
<1> HIDE DEF last
<1>4. /\ Kept(w, e, e, last)
      /\ \A from, file : Covered(w, from, e, file, last[Len(last)]) =>
           Safe(w, e, e, last, from, file)
  BY <1>1, <1>2, KeptAtEnd
<1> QED
  BY <1>2, <1>3, <1>4 DEF last


\* cut after block m, journal v stands for what w stands for cut after block n
Stands(w, n, e, v, m, d) ==
  /\ Redos(v, m) = Redos(w, n) /\ \A i \in Redos(w, n) : v[i] = w[i]
  /\ Lost(v, m, d) = Lost(w, n, e)

LEMMA KeptStands ==
  ASSUME NEW w, NEW f \in Nat, NEW e \in Nat, NEW v, NEW g \in Nat, NEW d \in Nat, NEW h,
         Kept(w, f, e, h),
         \A m \in g .. d : \E n \in f .. e : Stands(w, n, e, v, m, d)
  PROVE  /\ Kept(v, g, d, h)
         /\ \A from, file : Safe(w, f, e, h, from, file) => Safe(v, g, d, h, from, file)
<1>1. ASSUME NEW m \in g .. d
      PROVE  /\ Lost(v, m, d) < Len(h) /\ Agrees(v, m, Image(v, m, d, h))
             /\ \A from, file : Safe(w, f, e, h, from, file) =>
                  Covered(v, from, m, file, Image(v, m, d, h))
  <2>1. PICK n \in f .. e : Stands(w, n, e, v, m, d)
    OBVIOUS
  <2>2. Image(v, m, d, h) = Image(w, n, e, h) /\ Lost(v, m, d) = Lost(w, n, e)
    BY <2>1 DEF Stands, Image
  <2>3. /\ \A image : Agrees(w, n, image) => Agrees(v, m, image)
        /\ \A from, file, image :
             Covered(w, from, n, file, image) => Covered(v, from, m, file, image)
    BY <2>1, SameRedos DEF Stands
  <2>4. Lost(w, n, e) < Len(h) /\ Agrees(w, n, Image(w, n, e, h))
    BY DEF Kept
  <2>5. \A from, file : Safe(w, f, e, h, from, file) =>
          Covered(w, from, n, file, Image(w, n, e, h))
    BY DEF Safe
  <2> QED
    BY <2>2, <2>3, <2>4, <2>5
<1> QED
  BY <1>1 DEF Kept, Safe

\* A rolled back batch leaves an abort extent, which stands for nothing.
LEMMA KeptAbort ==
  ASSUME NEW w, NEW v, NEW e \in Nat, Parsed(w, e), SamePrefix(w, v, e),
         v[e + 1].kind = "abort", v[e + 2].kind = "mark", v[e + 2].seq = 0,
         NEW f \in Nat, f <= e, NEW h, Kept(w, f, e, h)
  PROVE  /\ Kept(v, f, e + 2, h)
         /\ \A from, file : Safe(w, f, e, h, from, file) => Safe(v, f, e + 2, h, from, file)
<1>1. ASSUME NEW m \in Nat, m <= e + 2
      PROVE  Marks(v, m + 1, e + 2) = Marks(v, m + 1, e)
  <2>1. \A i \in (m + 1) .. (e + 2) : i \in (m + 1) .. e \/ i = e + 1 \/ i = e + 2
    OBVIOUS
  <2>2. \A i \in (m + 1) .. e : i \in (m + 1) .. (e + 2)
    OBVIOUS
  <2> QED
    BY <2>1, <2>2 DEF Marks
<1>2. ASSUME NEW m \in f .. e + 2
      PROVE  \E n \in f .. e : Stands(w, n, e, v, m, e + 2)
  <2>1. m \in Nat /\ m <= e + 2
    OBVIOUS
  <2>2. CASE m <= e
    <3>1. m \in f .. e /\ SamePrefix(w, v, m)
      BY <2>1, <2>2, ShorterPrefix
    <3>2. Lost(v, m, e + 2) = Lost(w, m, e)
      BY <1>1, <2>1, PrefixMarks DEF Lost
    <3> QED
      BY <2>1, <3>1, <3>2, PrefixRedos DEF Stands
  <2>3. CASE m > e
    <3>1. e \in f .. e /\ m \in e .. e + 2
      BY <2>1, <2>3
    <3>2. Redos(v, m) = Redos(w, e) /\ \A i \in Redos(w, e) : v[i] = w[i]
      BY <3>1, AbortAppended
    <3>3. Marks(v, m + 1, e) = {} /\ Marks(w, e + 1, e) = {}
      BY <2>1, <2>3 DEF Marks
    <3>4. Lost(v, m, e + 2) = Lost(w, e, e)
      BY <1>1, <2>1, <3>3 DEF Lost
    <3> QED
      BY <3>1, <3>2, <3>4 DEF Stands
  <2> QED
    BY <2>1, <2>2, <2>3
<1> QED
  BY <1>2, KeptStands

-----------------------------------------------------------------------------
(* A commit: the extent behind the last one becomes one of them.            *)

\* a redo extent stands behind block e, with the marker of a commit
Finished(w, e, pages) ==
  LET d == ExtentEnd(w, e + 1) IN
  /\ w[e + 1].kind = "redo" /\ w[e + 1].pages = pages
  /\ \A j \in e + 2 .. d - 1 : w[j].kind = "body"
  /\ w[d].kind = "mark" /\ w[d].seq = w[e + 1].seq /\ w[d].seq > 0

LEMMA FinishedRedos ==
  ASSUME NEW w, NEW e \in Nat, NEW pages, Parsed(w, e), Finished(w, e, pages),
         NEW d, d = ExtentEnd(w, e + 1)
  PROVE  /\ d \in Nat /\ d > e + 1 /\ Parsed(w, d)
         /\ \A m \in e .. d - 1 : Redos(w, m) = Redos(w, e)
         /\ Redos(w, d) = Redos(w, e) \cup {e + 1}
         /\ \A p : Writers(w, d, p) =
              Writers(w, e, p) \cup (IF pages[p] # None THEN {e + 1} ELSE {})
<1>1. SamePrefix(w, w, e)
  BY DEF SamePrefix
<1>2. /\ d \in Nat /\ d > e + 1 /\ Parsed(w, d)
      /\ \A m \in e .. d - 1 : Redos(w, m) = Redos(w, e)
      /\ Redos(w, d) = Redos(w, e) \cup {e + 1}
  BY <1>1, ExtentAppended DEF Finished
<1>3. \A p : Writers(w, d, p) =
        Writers(w, e, p) \cup (IF pages[p] # None THEN {e + 1} ELSE {})
  BY <1>2 DEF Writers, Finished
<1> QED
  BY <1>2, <1>3

LEMMA FinishedWritten ==
  ASSUME NEW w, NEW e \in Nat, NEW pages, Parsed(w, e), Finished(w, e, pages),
         NEW d, d = ExtentEnd(w, e + 1), NEW from \in Nat
  PROVE  /\ \A p : Written(w, from, e, p) => Written(w, from, d, p)
         /\ \A p : pages[p] # None /\ from <= e => Written(w, from, d, p)
<1>1. \A p : Writers(w, e, p) \in SUBSET Writers(w, d, p)
  BY FinishedRedos
<1>2. \A p : pages[p] # None => e + 1 \in Writers(w, d, p)
  BY FinishedRedos
<1>3. from <= e => e + 1 > from
  OBVIOUS
<1> QED
  BY <1>1, <1>2, <1>3 DEF Written

LEMMA AgreesFinished ==
  ASSUME NEW w, NEW e \in Nat, NEW pages, Parsed(w, e), Finished(w, e, pages),
         NEW d, d = ExtentEnd(w, e + 1), NEW image, Agrees(w, e, image),
         \A p \in PageId : p >= w[e + 1].count => Overlay(image, pages)[p] = Absent
  PROVE  Agrees(w, d, Overlay(image, pages))
<1> SUFFICES ASSUME NEW p \in PageId
             PROVE  /\ \A i \in Writers(w, d, p) :
                         (\A j \in Writers(w, d, p) : j <= i)
                           => w[i].pages[p] = Overlay(image, pages)[p]
                    /\ \A i \in Redos(w, d) : p >= w[i].count =>
                         Overlay(image, pages)[p] = Absent \/ Written(w, i, d, p)
  BY DEF Agrees
<1>1. Overlay(image, pages)[p] = IF pages[p] # None THEN pages[p] ELSE image[p]
  BY DEF Overlay
<1>2. \A i \in Redos(w, e) : i \in Nat /\ i <= e
  BY DEF Redos
<1>3. ASSUME NEW i \in Writers(w, d, p), \A j \in Writers(w, d, p) : j <= i
      PROVE  w[i].pages[p] = Overlay(image, pages)[p]
  <2>1. CASE pages[p] # None
    <3>1. e + 1 \in Writers(w, d, p) /\ (i \in Writers(w, e, p) \/ i = e + 1)
      BY <2>1, FinishedRedos
    <3>2. i \in Writers(w, e, p) => i \in Nat /\ i <= e
      BY <1>2 DEF Writers
    <3>3. e + 1 <= i
      BY <1>3, <3>1
    <3>4. i = e + 1
      BY <3>1, <3>2, <3>3
    <3> QED
      BY <1>1, <2>1, <3>4 DEF Finished
  <2>2. CASE pages[p] = None
    <3>1. Writers(w, d, p) = Writers(w, e, p)
      BY <2>2, FinishedRedos
    <3>2. w[i].pages[p] = image[p]
      BY <1>3, <3>1 DEF Agrees
    <3> QED
      BY <1>1, <2>2, <3>2
  <2> QED
    BY <2>1, <2>2
<1>4. ASSUME NEW i \in Redos(w, d), p >= w[i].count
      PROVE  Overlay(image, pages)[p] = Absent \/ Written(w, i, d, p)
  <2>1. i \in Redos(w, e) \/ i = e + 1
    BY FinishedRedos
  <2>2. CASE i = e + 1
    BY <1>4, <2>2
  <2>3. CASE i \in Redos(w, e)
    <3>1. i \in Nat /\ i <= e
      BY <1>2, <2>3
    <3>2. image[p] = Absent \/ Written(w, i, e, p)
      BY <1>4, <2>3 DEF Agrees
    <3>3. Written(w, i, e, p) => Written(w, i, d, p)
      BY <3>1, FinishedWritten
    <3>4. pages[p] # None => Written(w, i, d, p)
      BY <3>1, FinishedWritten
    <3> QED
      BY <1>1, <3>2, <3>3, <3>4
  <2> QED
    BY <2>1, <2>2, <2>3
<1> QED
  BY <1>3, <1>4

LEMMA CoveredFinished ==
  ASSUME NEW w, NEW e \in Nat, NEW pages, Parsed(w, e), Finished(w, e, pages),
         NEW d, d = ExtentEnd(w, e + 1), NEW image, NEW from \in Nat, from <= e, NEW file,
         Covered(w, from, e, file, image)
  PROVE  Covered(w, from, d, file, Overlay(image, pages))
<1> SUFFICES ASSUME NEW p \in PageId
             PROVE  file[p] = Overlay(image, pages)[p] \/ Written(w, from, d, p)
  BY DEF Covered
<1>1. Overlay(image, pages)[p] = IF pages[p] # None THEN pages[p] ELSE image[p]
  BY DEF Overlay
<1>2. file[p] = image[p] \/ Written(w, from, e, p)
  BY DEF Covered
<1>3. /\ Written(w, from, e, p) => Written(w, from, d, p)
      /\ pages[p] # None => Written(w, from, d, p)
  BY FinishedWritten
<1> QED
  BY <1>1, <1>2, <1>3


\* A commit that others may follow: the images before it stay possible.
LEMMA KeptFinished ==
  ASSUME NEW w, NEW e \in Nat, NEW pages, Parsed(w, e), Finished(w, e, pages),
         NEW d, d = ExtentEnd(w, e + 1), NEW S, NEW h \in Seq(S), h # <<>>,
         NEW f \in Nat, f <= e, Kept(w, f, e, h),
         NEW image \in S, image = Overlay(h[Len(h)], pages),
         \A p \in PageId : p >= w[e + 1].count => image[p] = Absent
  PROVE  /\ Kept(w, f, d, Append(h, image))
         /\ \A from \in Nat : \A file : from <= e /\ Safe(w, f, e, h, from, file)
              => Safe(w, f, d, Append(h, image), from, file)
<1> DEFINE g == Append(h, image)
<1>1. d \in Nat /\ d > e + 1
  BY FinishedRedos
<1>2. /\ Len(h) \in Nat \ {0} /\ Len(g) = Len(h) + 1 /\ g[Len(h) + 1] = image
      /\ \A i \in 1 .. Len(h) : g[i] = h[i]
  OBVIOUS
<1> HIDE DEF g
<1>3. ASSUME NEW m \in Nat, m < d
      PROVE  Lost(w, m, d) = Lost(w, m, e) + 1
  <2>1. \A i \in (m + 1) .. d :
          i \in (m + 1) .. e \/ i = e + 1 \/ i \in e + 2 .. d - 1 \/ i = d
    BY <1>1
  <2>2. d \in (m + 1) .. d /\ \A i \in (m + 1) .. e : i \in (m + 1) .. d /\ i # d
    BY <1>1, <1>3
  <2>3. w[e + 1].kind # "mark" /\ \A i \in e + 2 .. d - 1 : w[i].kind # "mark"
    BY DEF Finished
  <2>4. w[d].kind = "mark" /\ w[d].seq > 0
    BY DEF Finished
  <2>5. Marks(w, m + 1, d) = Marks(w, m + 1, e) \cup {d} /\ d \notin Marks(w, m + 1, e)
    BY <2>1, <2>2, <2>3, <2>4 DEF Marks
  <2>6. IsFiniteSet(Marks(w, m + 1, e))
    BY MarksType
  <2>7. Cardinality(Marks(w, m + 1, e) \cup {d}) = Cardinality(Marks(w, m + 1, e)) + 1
    BY <2>5, <2>6, FS_AddElement
  <2> QED
    BY <2>5, <2>7 DEF Lost
<1>4. ASSUME NEW m \in f .. d, m # d
      PROVE  \E n \in f .. e :
               /\ Redos(w, m) = Redos(w, n) /\ Lost(w, n, e) < Len(h)
               /\ Lost(w, m, d) \in Nat /\ Lost(w, m, d) < Len(g)
               /\ Image(w, m, d, g) = Image(w, n, e, h)
  <2>1. m \in Nat /\ m < d
    BY <1>1, <1>4
  <2>2. PICK n \in f .. e : Redos(w, m) = Redos(w, n) /\ Lost(w, m, e) = Lost(w, n, e)
    <3>1. CASE m <= e
      <4>1. m \in f .. e
        BY <2>1, <3>1
      <4> QED
        BY <4>1
    <3>2. CASE m > e
      <4>1. e \in f .. e /\ m \in e .. d - 1
        BY <1>1, <2>1, <3>2
      <4>2. Redos(w, m) = Redos(w, e)
        BY <4>1, FinishedRedos
      <4>3. Marks(w, m + 1, e) = {} /\ Marks(w, e + 1, e) = {}
        BY <2>1, <3>2 DEF Marks
      <4> QED
        BY <4>1, <4>2, <4>3 DEF Lost
    <3> QED
      BY <2>1, <3>1, <3>2
  <2>3. Lost(w, n, e) \in Nat /\ Lost(w, n, e) < Len(h)
    <3>1. n \in Nat
      OBVIOUS
    <3>2. Lost(w, n, e) \in Nat
      BY <3>1, MarksType
    <3> QED
      BY <3>2 DEF Kept
  <2>4. Lost(w, m, d) = Lost(w, n, e) + 1
    BY <1>3, <2>1, <2>2
  <2>5. Len(g) - Lost(w, m, d) = Len(h) - Lost(w, n, e)
        /\ Len(h) - Lost(w, n, e) \in 1 .. Len(h)
        /\ Lost(w, m, d) \in Nat /\ Lost(w, m, d) < Len(g)
    BY <1>2, <2>3, <2>4
  <2>6. Image(w, m, d, g) = Image(w, n, e, h)
    BY <1>2, <2>5 DEF Image
  <2> QED
    BY <2>2, <2>3, <2>5, <2>6
<1>5. Lost(w, d, d) = 0 /\ Image(w, d, d, g) = image
  <2>1. Lost(w, d, d) = 0
    BY <1>1, MarksType
  <2>2. Len(g) - 0 = Len(h) + 1
    BY <1>2
  <2> QED
    BY <1>2, <2>1, <2>2 DEF Image
<1>6. \A i : w[i] = w[i]
  OBVIOUS
<1>7. ASSUME NEW m \in f .. d
      PROVE  Lost(w, m, d) < Len(g) /\ Agrees(w, m, Image(w, m, d, g))
  <2>1. CASE m = d
    <3>1. Agrees(w, e, h[Len(h)])
      BY <1>2, KeptLast
    <3>2. Agrees(w, d, image)
      BY <3>1, AgreesFinished
    <3> QED
      BY <1>2, <1>5, <2>1, <3>2
  <2>2. CASE m # d
    <3>1. PICK n \in f .. e :
               /\ Redos(w, m) = Redos(w, n) /\ Lost(w, n, e) < Len(h)
               /\ Lost(w, m, d) \in Nat /\ Lost(w, m, d) < Len(g)
               /\ Image(w, m, d, g) = Image(w, n, e, h)
      BY <1>4, <2>2
    <3>2. Agrees(w, n, Image(w, n, e, h))
      BY DEF Kept
    <3>3. Agrees(w, m, Image(w, n, e, h))
      BY <3>1, <3>2, SameRedos
    <3> QED
      BY <3>1, <3>3
  <2> QED
    BY <2>1, <2>2
<1>8. ASSUME NEW from \in Nat, NEW file, from <= e, Safe(w, f, e, h, from, file),
             NEW m \in f .. d
      PROVE  Covered(w, from, m, file, Image(w, m, d, g))
  <2>1. CASE m = d
    <3>1. Covered(w, from, e, file, h[Len(h)])
      BY <1>2, <1>8, KeptLast
    <3>2. Covered(w, from, d, file, image)
      BY <1>8, <3>1, CoveredFinished
    <3> QED
      BY <1>5, <2>1, <3>2
  <2>2. CASE m # d
    <3>1. PICK n \in f .. e :
               /\ Redos(w, m) = Redos(w, n)
               /\ Image(w, m, d, g) = Image(w, n, e, h)
      BY <1>4, <2>2
    <3>2. Covered(w, from, n, file, Image(w, n, e, h))
      BY <1>8 DEF Safe
    <3>3. Covered(w, from, m, file, Image(w, n, e, h))
      BY <3>1, <3>2, SameRedos
    <3> QED
      BY <3>1, <3>3
  <2> QED
    BY <2>1, <2>2
<1> QED
  BY <1>7, <1>8 DEF Kept, Safe, g

-----------------------------------------------------------------------------
(* A crash: the journal keeps its first n blocks, and perhaps a part of one. *)

LEMMA KeptCut ==
  ASSUME NEW w, NEW e \in Nat, Parsed(w, e), NEW f \in Nat, f <= e, NEW h,
         Kept(w, f, e, h), NEW n \in f .. e, NEW v, Len(v) \in Nat, n <= Len(v),
         SamePrefix(w, v, n), NoMarks(v, n), NEW b, b = LastMark(v)
  PROVE  /\ b \in Nat /\ b <= Len(v) /\ b <= n /\ Parsed(v, b)
         /\ Kept(v, b, b, <<Image(w, n, e, h)>>)
         /\ \A from, p : Written(w, from, n, p) => Written(v, from, b, p)
         /\ \A from, file : Covered(w, from, n, file, Image(w, n, e, h))
              => Safe(v, b, b, <<Image(w, n, e, h)>>, from, file)
         /\ \A c \in 0 .. n : Boundary(w, c) => c <= b /\ Boundary(v, c)
         /\ Redos(v, b) = Redos(w, n) /\ \A i \in Redos(w, n) : v[i] = w[i]
<1> DEFINE image == Image(w, n, e, h)
           last == <<image>>
<1>1. b \in 0 .. Len(v) /\ Boundary(v, b) /\ NoMarks(v, b)
  BY LastMarkExists
<1>2. b \in Nat /\ b <= Len(v) /\ b <= n
  <2>1. CASE b = 0
    BY <2>1
  <2>2. CASE b # 0
    <3>1. v[b].kind = "mark"
      BY <1>1, <2>2 DEF Boundary
    <3>2. b \notin n + 1 .. Len(v)
      BY <3>1 DEF NoMarks
    <3> QED
      BY <1>1, <3>2
  <2> QED
    BY <2>1, <2>2
<1>3. \A i \in 1 .. n : v[i] = w[i]
  BY DEF SamePrefix
<1>4. \A c \in 0 .. n : Boundary(v, c) <=> Boundary(w, c)
  BY <1>3 DEF Boundary
<1>5. \A i \in b + 1 .. n : w[i].kind # "mark"
  <2> SUFFICES ASSUME NEW i \in b + 1 .. n PROVE w[i].kind # "mark"
    OBVIOUS
  <2>1. i \in 1 .. n /\ v[i] = w[i]
    BY <1>2, <1>3
  <2>2. i \in b + 1 .. Len(v)
    BY <1>2
  <2> QED
    BY <1>1, <2>1, <2>2 DEF NoMarks
<1>6. Parsed(w, b) /\ Redos(w, b) = Redos(w, n) /\ b \in 0 .. n /\ n \in 0 .. e
  <2>1. n \in 0 .. e /\ b \in 0 .. n
    BY <1>2
  <2>2. Boundary(w, b)
    BY <1>1, <1>4, <2>1
  <2> QED
    BY <1>5, <2>1, <2>2, CutParsed
<1>7. SamePrefix(w, v, b)
  BY <1>3, <1>6 DEF SamePrefix
<1>8. Parsed(v, b)
  BY <1>2, <1>6, <1>7, PrefixParsed
<1>9. Redos(v, b) = Redos(w, n) /\ \A i \in Redos(w, n) : v[i] = w[i]
  BY <1>2, <1>6, <1>7, PrefixRedos
<1>10. /\ \A from, p : Written(v, from, b, p) <=> Written(w, from, n, p)
       /\ Agrees(v, b, image)
       /\ \A from, file : Covered(w, from, n, file, image) => Covered(v, from, b, file, image)
  <2>1. Agrees(w, n, image)
    BY DEF Kept
  <2> HIDE DEF image
  <2> QED
    BY <1>9, <2>1, SameRedos
<1>11. \A c \in 0 .. n : Boundary(w, c) => c <= b /\ Boundary(v, c)
  <2> SUFFICES ASSUME NEW c \in 0 .. n, Boundary(w, c), c > b PROVE FALSE
    BY <1>2, <1>4
  <2>1. c \in b + 1 .. n /\ c # 0
    BY <1>2
  <2> QED
    BY <1>5, <2>1 DEF Boundary
<1>12. Len(last) \in Nat \ {0} /\ last[Len(last)] = image
  OBVIOUS
<1> HIDE DEF image, last
<1>13. /\ Kept(v, b, b, last)
       /\ \A from, file : Covered(v, from, b, file, image) => Safe(v, b, b, last, from, file)
  BY <1>2, <1>10, <1>12, KeptAtEnd
<1> QED
  BY <1>2, <1>8, <1>9, <1>10, <1>11, <1>13 DEF image, last

-----------------------------------------------------------------------------
(* recycleJournal: the blocks behind an extent are moved to the front.      *)

Shifted(w, v, c, e) == \A i \in 1 .. e - c : v[i] = w[c + i]

LEMMA ShiftedEnd ==
  ASSUME NEW w, NEW v, NEW c \in Nat, NEW e \in Nat, Shifted(w, v, c, e),
         NEW i \in 1 .. e - c
  PROVE  c + i \in c + 1 .. e /\ v[i] = w[c + i] /\ ExtentEnd(w, c + i) = c + ExtentEnd(v, i)
<1>1. c + i \in c + 1 .. e /\ v[i] = w[c + i]
  BY DEF Shifted
<1>2. BodyLength(v[i].pages) \in Nat
  <2>1. Cardinality(Staged(v[i].pages)) \in Nat
    BY StagedCount
  <2> QED
    BY <2>1 DEF BodyLength
<1>3. ExtentEnd(w, c + i) = c + ExtentEnd(v, i)
  BY <1>1, <1>2 DEF ExtentEnd
<1> QED
  BY <1>1, <1>3

LEMMA ShiftedParsed ==
  ASSUME NEW w, NEW v, NEW c \in Nat, NEW e \in Nat, c <= e, Shifted(w, v, c, e),
         Boundary(w, c), Parsed(w, e)
  PROVE  Parsed(v, e - c)
<1>1. \A b \in 0 .. e - c : Boundary(v, b) <=> Boundary(w, c + b)
  <2> SUFFICES ASSUME NEW b \in 0 .. e - c PROVE Boundary(v, b) <=> Boundary(w, c + b)
    OBVIOUS
  <2>1. CASE b = 0
    BY <2>1 DEF Boundary
  <2>2. CASE b # 0
    <3>1. b \in 1 .. e - c /\ c + b # 0
      BY <2>2
    <3>2. v[b] = w[c + b]
      BY <3>1 DEF Shifted
    <3> QED
      BY <2>2, <3>1, <3>2 DEF Boundary
  <2> QED
    BY <2>1, <2>2
<1>2. Boundary(v, e - c)
  <2>1. e - c \in 0 .. e - c /\ c + (e - c) = e
    OBVIOUS
  <2> QED
    BY <1>1, <2>1 DEF Parsed
<1>3. ASSUME NEW b \in 0 .. e - c - 1, Boundary(v, b)
      PROVE  Opens(v[b + 1])
  <2>1. b \in 0 .. e - c /\ c + b \in 0 .. e - 1 /\ b + 1 \in 1 .. e - c
        /\ c + (b + 1) = (c + b) + 1
    OBVIOUS
  <2>2. Boundary(w, c + b)
    BY <1>1, <1>3, <2>1
  <2>3. Opens(w[(c + b) + 1])
    BY <2>1, <2>2 DEF Parsed
  <2>4. v[b + 1] = w[(c + b) + 1]
    BY <2>1, ShiftedEnd
  <2> QED
    BY <2>3, <2>4
<1>4. ASSUME NEW i \in 1 .. e - c, Opens(v[i])
      PROVE  Whole(v, i, e - c)
  <2>1. c + i \in 1 .. e /\ v[i] = w[c + i] /\ ExtentEnd(w, c + i) = c + ExtentEnd(v, i)
    BY ShiftedEnd
  <2>2. Whole(w, c + i, e)
    BY <1>4, <2>1 DEF Parsed
  <2>3. ExtentEnd(v, i) \in Nat /\ ExtentEnd(v, i) > i
    BY EndType
  <2>4. c + ExtentEnd(v, i) <= e
    BY <2>1, <2>2 DEF Whole
  <2>5. ExtentEnd(v, i) \in 1 .. e - c
    BY <2>3, <2>4
  <2>6. v[ExtentEnd(v, i)] = w[ExtentEnd(w, c + i)]
    BY <2>1, <2>5 DEF Shifted
  <2>7. ASSUME NEW j \in i + 1 .. ExtentEnd(v, i) - 1
        PROVE  v[j].kind = "body"
    <3>1. j \in 1 .. e - c
      BY <2>3, <2>5
    <3>2. c + j \in (c + i) + 1 .. ExtentEnd(w, c + i) - 1
      BY <2>1, <2>3
    <3>3. v[j] = w[c + j]
      BY <3>1 DEF Shifted
    <3> QED
      BY <2>2, <3>2, <3>3 DEF Whole
  <2> QED
    BY <2>1, <2>2, <2>5, <2>6, <2>7 DEF Whole
<1> QED
  BY <1>2, <1>3, <1>4 DEF Parsed

LEMMA ShiftedAgrees ==
  ASSUME NEW w, NEW v, NEW c \in Nat, NEW e \in Nat, c <= e, Shifted(w, v, c, e),
         NEW image, Agrees(w, e, image), Boundary(w, c), Parsed(w, e)
  PROVE  Agrees(v, e - c, image)
<1>1. ASSUME NEW i \in 1 .. e - c
      PROVE  i \in Redos(v, e - c) <=> c + i \in Redos(w, e)
  <2>1. c + i \in 1 .. e /\ v[i] = w[c + i] /\ ExtentEnd(w, c + i) = c + ExtentEnd(v, i)
    BY ShiftedEnd
  <2>2. ExtentEnd(v, i) \in Nat
    BY EndType
  <2>3. ExtentEnd(v, i) <= e - c <=> c + ExtentEnd(v, i) <= e
    BY <2>2
  <2> QED
    BY <2>1, <2>3 DEF Redos
<1>2. ASSUME NEW i \in Redos(v, e - c)
      PROVE  i \in 1 .. e - c /\ c + i \in Redos(w, e) /\ v[i] = w[c + i]
  <2>1. i \in 1 .. e - c
    BY DEF Redos
  <2> QED
    BY <1>1, <2>1, ShiftedEnd
<1>3. \A p : \A i \in Writers(v, e - c, p) : c + i \in Writers(w, e, p)
  BY <1>2 DEF Writers
<1>4. ASSUME NEW p, NEW k \in Writers(w, e, p), k > c
      PROVE  k - c \in Writers(v, e - c, p)
  <2>1. k \in Redos(w, e) /\ k \in 1 .. e
    BY DEF Writers, Redos
  <2>2. k - c \in 1 .. e - c /\ c + (k - c) = k
    BY <1>4, <2>1
  <2>3. k - c \in Redos(v, e - c) /\ v[k - c] = w[k]
    BY <1>1, <1>2, <2>1, <2>2
  <2> QED
    BY <2>3 DEF Writers
<1> SUFFICES ASSUME NEW p \in PageId
             PROVE  /\ \A i \in Writers(v, e - c, p) :
                         (\A j \in Writers(v, e - c, p) : j <= i) => v[i].pages[p] = image[p]
                    /\ \A i \in Redos(v, e - c) : p >= v[i].count =>
                         image[p] = Absent \/ Written(v, i, e - c, p)
  BY DEF Agrees
<1>5. \A k \in Writers(w, e, p) : k \in Nat
  BY DEF Writers, Redos
<1>6. ASSUME NEW i \in Writers(v, e - c, p), \A j \in Writers(v, e - c, p) : j <= i
      PROVE  v[i].pages[p] = image[p]
  <2>1. i \in 1 .. e - c /\ c + i \in Writers(w, e, p) /\ v[i] = w[c + i]
    BY <1>2, <1>3 DEF Writers
  <2>2. ASSUME NEW k \in Writers(w, e, p)
        PROVE  k <= c + i
    <3>1. CASE k > c
      <4>1. k - c <= i
        BY <1>4, <1>6, <3>1
      <4> QED
        BY <1>5, <2>1, <4>1
    <3>2. CASE k <= c
      BY <1>5, <2>1, <3>2
    <3> QED
      BY <1>5, <3>1, <3>2
  <2>3. w[c + i].pages[p] = image[p]
    BY <2>1, <2>2 DEF Agrees
  <2> QED
    BY <2>1, <2>3
<1>7. ASSUME NEW i \in Redos(v, e - c), p >= v[i].count
      PROVE  image[p] = Absent \/ Written(v, i, e - c, p)
  <2>1. i \in 1 .. e - c /\ c + i \in Redos(w, e) /\ v[i] = w[c + i]
    BY <1>2
  <2>2. image[p] = Absent \/ Written(w, c + i, e, p)
    BY <1>7, <2>1 DEF Agrees
  <2>3. ASSUME Written(w, c + i, e, p) PROVE Written(v, i, e - c, p)
    <3>1. PICK k \in Writers(w, e, p) : k > c + i
      BY <2>3 DEF Written
    <3>2. k > c /\ k - c > i
      BY <1>5, <2>1, <3>1
    <3>3. k - c \in Writers(v, e - c, p)
      BY <1>4, <3>2
    <3> QED
      BY <3>2, <3>3 DEF Written
  <2> QED
    BY <2>2, <2>3
<1> QED
  BY <1>6, <1>7

LEMMA FittingBlocks ==
  ASSUME NEW w, Fitting(w), NEW v,
         \A i \in 1 .. Len(v) : v[i].kind = "redo" =>
           \/ \E j \in 1 .. Len(w) : v[i] = w[j]
           \/ \A p \in PageId : v[i].pages[p] # None => p < v[i].count
  PROVE  Fitting(v)
BY DEF Fitting

-----------------------------------------------------------------------------
(* Extents waiting to be applied.                                           *)

LEMMA LeadsNothing ==
  ASSUME NEW file \in File, NEW image \in File, Leads(file, <<>>, image)
  PROVE  file = image
<1>1. \A p \in PageId : file[p] = image[p]
  BY DEF Leads
<1> QED
  BY <1>1 DEF File

LEMMA LeadsEmpty ==
  ASSUME NEW file
  PROVE  Leads(file, <<>>, file) /\ \A w, from, n : Backed(w, from, n, <<>>)
BY DEF Leads, Backed

\* Writing pages of a waiting extent to the file changes nothing in the end.
LEMMA LeadsOverlay ==
  ASSUME NEW file, NEW q, NEW image, Leads(file, q, image), NEW k \in DOMAIN q
  PROVE  Leads(Overlay(file, q[k].pages), q, image)
<1>1. ASSUME NEW p \in PageId, \A j \in DOMAIN q : q[j].pages[p] = None
      PROVE  Overlay(file, q[k].pages)[p] = image[p]
  <2>1. Overlay(file, q[k].pages)[p] = file[p]
    BY <1>1 DEF Overlay
  <2> QED
    BY <1>1, <2>1 DEF Leads
<1> QED
  BY <1>1 DEF Leads

\* The first extent is in the file: the others remain.
LEMMA LeadsTail ==
  ASSUME NEW q \in Seq(ExtentType), q # <<>>, NEW file, NEW image,
         Leads(file, q, image),
         \A p \in PageId : q[1].pages[p] # None => file[p] = q[1].pages[p]
  PROVE  Leads(Resize(file, q[1].count), Tail(q), image)
<1>1. /\ 1 \in DOMAIN q /\ Len(q) \in Nat /\ DOMAIN q = 1 .. Len(q)
      /\ DOMAIN Tail(q) = 1 .. Len(q) - 1
      /\ \A k \in 1 .. Len(q) - 1 : k + 1 \in DOMAIN q /\ Tail(q)[k] = q[k + 1]
  OBVIOUS
<1>2. \A k \in DOMAIN q : k # 1 => k - 1 \in DOMAIN Tail(q) /\ Tail(q)[k - 1] = q[k]
  BY <1>1
<1> DEFINE t == Tail(q)
<1> HIDE DEF t
<1>3. \A k \in DOMAIN t : k \in Nat /\ k + 1 \in DOMAIN q /\ t[k] = q[k + 1]
  BY <1>1 DEF t
<1>4. \A k \in DOMAIN q : k # 1 => k - 1 \in DOMAIN t /\ t[k - 1] = q[k]
  BY <1>2 DEF t
<1>5. \A k \in DOMAIN q : k \in Nat /\ k >= 1
  BY <1>1
<1> SUFFICES ASSUME NEW p \in PageId
             PROVE  /\ (\A k \in DOMAIN t : t[k].pages[p] = None) =>
                         Resize(file, q[1].count)[p] = image[p]
                    /\ \A k \in DOMAIN t : t[k].pages[p] # None =>
                         /\ p < t[k].count
                         /\ (\A j \in DOMAIN t : t[j].pages[p] # None => j <= k) =>
                              t[k].pages[p] = image[p]
                    /\ \A k \in DOMAIN t : p >= t[k].count =>
                         image[p] = Absent \/ \E j \in DOMAIN t : j > k /\ t[j].pages[p] # None
  BY DEF Leads, t
<1>6. /\ (\A k \in DOMAIN q : q[k].pages[p] = None) => file[p] = image[p]
      /\ \A k \in DOMAIN q : q[k].pages[p] # None =>
           /\ p < q[k].count
           /\ (\A j \in DOMAIN q : q[j].pages[p] # None => j <= k) =>
                q[k].pages[p] = image[p]
      /\ \A k \in DOMAIN q : p >= q[k].count =>
           image[p] = Absent \/ \E j \in DOMAIN q : j > k /\ q[j].pages[p] # None
  BY DEF Leads
<1>7. ASSUME \A k \in DOMAIN t : t[k].pages[p] = None
      PROVE  Resize(file, q[1].count)[p] = image[p]
  <2>1. \A k \in DOMAIN q : q[k].pages[p] # None => k = 1
    BY <1>4, <1>7
  <2>2. Resize(file, q[1].count)[p] = IF p < q[1].count THEN file[p] ELSE Absent
    BY DEF Resize
  <2>3. CASE ~(p < q[1].count)
    <3>1. q[1].pages[p] = None
      BY <1>1, <1>6, <2>3
    <3>2. \A j \in DOMAIN q : q[j].pages[p] = None
      BY <2>1, <3>1
    <3>3. file[p] = image[p]
      BY <1>6, <3>2
    <3>4. ~(\E j \in DOMAIN q : j > 1 /\ q[j].pages[p] # None)
      BY <3>2
    <3>5. q[1].count \in Nat /\ p \in Nat
      <4>1. q[1] \in ExtentType
        BY <1>1
      <4> QED
        BY <4>1, PageFileAssumption DEF ExtentType, PageId
    <3>6. p >= q[1].count
      BY <2>3, <3>5
    <3>7. image[p] = Absent
      BY <1>1, <1>6, <3>4, <3>6
    <3> QED
      BY <2>2, <2>3, <3>7
  <2>4. CASE p < q[1].count
    <3>1. CASE q[1].pages[p] # None
      <4>1. \A j \in DOMAIN q : q[j].pages[p] # None => j <= 1
        BY <2>1
      <4>2. q[1].pages[p] = image[p]
        BY <1>1, <1>6, <3>1, <4>1
      <4> QED
        BY <2>2, <2>4, <3>1, <4>2
    <3>2. CASE q[1].pages[p] = None
      <4>1. \A j \in DOMAIN q : q[j].pages[p] = None
        BY <2>1, <3>2
      <4> QED
        BY <1>6, <2>2, <2>4, <4>1
    <3> QED
      BY <3>1, <3>2
  <2> QED
    BY <2>3, <2>4
<1>8. ASSUME NEW k \in DOMAIN t, t[k].pages[p] # None
      PROVE  /\ p < t[k].count
             /\ (\A j \in DOMAIN t : t[j].pages[p] # None => j <= k) =>
                  t[k].pages[p] = image[p]
  <2>1. k \in Nat /\ k + 1 \in DOMAIN q /\ t[k] = q[k + 1]
    BY <1>3
  <2>2. ASSUME \A j \in DOMAIN t : t[j].pages[p] # None => j <= k,
               NEW j \in DOMAIN q, q[j].pages[p] # None
        PROVE  j <= k + 1
    <3>1. CASE j = 1
      BY <2>1, <3>1
    <3>2. CASE j # 1
      <4>1. j - 1 <= k
        BY <1>4, <2>2, <3>2
      <4> QED
        BY <1>5, <2>1, <4>1
    <3> QED
      BY <3>1, <3>2
  <2> QED
    BY <1>6, <1>8, <2>1, <2>2
<1>9. ASSUME NEW k \in DOMAIN t, p >= t[k].count
      PROVE  image[p] = Absent \/ \E j \in DOMAIN t : j > k /\ t[j].pages[p] # None
  <2>1. k \in Nat /\ k + 1 \in DOMAIN q /\ t[k] = q[k + 1]
    BY <1>3
  <2>2. image[p] = Absent \/ \E j \in DOMAIN q : j > k + 1 /\ q[j].pages[p] # None
    BY <1>6, <1>9, <2>1
  <2>3. ASSUME NEW j \in DOMAIN q, j > k + 1, q[j].pages[p] # None
        PROVE  \E i \in DOMAIN t : i > k /\ t[i].pages[p] # None
    <3>1. j \in Nat /\ j # 1
      BY <1>5, <2>1, <2>3
    <3>2. j - 1 \in DOMAIN t /\ t[j - 1] = q[j] /\ j - 1 > k
      BY <1>4, <2>1, <2>3, <3>1
    <3> QED
      BY <2>3, <3>2
  <2> QED
    BY <2>2, <2>3
<1> QED
  BY <1>7, <1>8, <1>9

\* A commit adds its extent.
LEMMA LeadsAppend ==
  ASSUME NEW S, NEW q \in Seq(S), NEW file, NEW image, Leads(file, q, image),
         NEW ext \in S,
         \A p \in PageId : ext.pages[p] # None => p < ext.count,
         \A p \in PageId : p >= ext.count => Overlay(image, ext.pages)[p] = Absent
  PROVE  Leads(file, Append(q, ext), Overlay(image, ext.pages))
<1> DEFINE t == Append(q, ext)
           m == Len(q) + 1
           new == Overlay(image, ext.pages)
<1>1. /\ Len(q) \in Nat /\ DOMAIN q = 1 .. Len(q) /\ DOMAIN t = 1 .. Len(q) + 1
      /\ t[Len(q) + 1] = ext /\ \A k \in 1 .. Len(q) : t[k] = q[k]
  OBVIOUS
<1>2. /\ DOMAIN t = DOMAIN q \cup {m} /\ t[m] = ext /\ \A k \in DOMAIN q : t[k] = q[k] /\ k < m
      /\ m \in Nat /\ \A k \in DOMAIN q : k \in Nat
  BY <1>1
<1>3. \A p \in PageId : new[p] = IF ext.pages[p] # None THEN ext.pages[p] ELSE image[p]
  BY DEF Overlay
<1> HIDE DEF t, m, new
<1> SUFFICES ASSUME NEW p \in PageId
             PROVE  /\ (\A k \in DOMAIN t : t[k].pages[p] = None) => file[p] = new[p]
                    /\ \A k \in DOMAIN t : t[k].pages[p] # None =>
                         /\ p < t[k].count
                         /\ (\A j \in DOMAIN t : t[j].pages[p] # None => j <= k) =>
                              t[k].pages[p] = new[p]
                    /\ \A k \in DOMAIN t : p >= t[k].count =>
                         new[p] = Absent \/ \E j \in DOMAIN t : j > k /\ t[j].pages[p] # None
  BY DEF Leads, t, new
<1>4. /\ (\A k \in DOMAIN q : q[k].pages[p] = None) => file[p] = image[p]
      /\ \A k \in DOMAIN q : q[k].pages[p] # None =>
           /\ p < q[k].count
           /\ (\A j \in DOMAIN q : q[j].pages[p] # None => j <= k) =>
                q[k].pages[p] = image[p]
      /\ \A k \in DOMAIN q : p >= q[k].count =>
           image[p] = Absent \/ \E j \in DOMAIN q : j > k /\ q[j].pages[p] # None
  BY DEF Leads
<1>5. ASSUME \A k \in DOMAIN t : t[k].pages[p] = None PROVE file[p] = new[p]
  <2>1. ext.pages[p] = None /\ \A k \in DOMAIN q : q[k].pages[p] = None
    BY <1>2, <1>5
  <2> QED
    BY <1>3, <1>4, <2>1
<1>6. ASSUME NEW k \in DOMAIN t, t[k].pages[p] # None
      PROVE  /\ p < t[k].count
             /\ (\A j \in DOMAIN t : t[j].pages[p] # None => j <= k) => t[k].pages[p] = new[p]
  <2>1. CASE k = m
    BY <1>2, <1>3, <1>6, <2>1
  <2>2. CASE k \in DOMAIN q
    <3>1. t[k] = q[k] /\ p < q[k].count
      BY <1>2, <1>4, <1>6, <2>2
    <3>2. ASSUME \A j \in DOMAIN t : t[j].pages[p] # None => j <= k
          PROVE  t[k].pages[p] = new[p]
      <4>1. ext.pages[p] = None
        <5>1. ~(m <= k)
          BY <1>2, <2>2
        <5> QED
          BY <1>2, <3>2, <5>1
      <4>2. \A j \in DOMAIN q : q[j].pages[p] # None => j <= k
        BY <1>2, <3>2
      <4>3. q[k].pages[p] = image[p]
        BY <1>4, <1>6, <2>2, <3>1, <4>2
      <4> QED
        BY <1>3, <3>1, <4>1, <4>3
    <3> QED
      BY <3>1, <3>2
  <2> QED
    BY <1>2, <2>1, <2>2
<1>7. ASSUME NEW k \in DOMAIN t, p >= t[k].count
      PROVE  new[p] = Absent \/ \E j \in DOMAIN t : j > k /\ t[j].pages[p] # None
  <2>1. CASE k = m
    <3>1. p >= ext.count
      BY <1>2, <1>7, <2>1
    <3> QED
      BY <3>1 DEF new
  <2>2. CASE k \in DOMAIN q
    <3>1. image[p] = Absent \/ \E j \in DOMAIN q : j > k /\ q[j].pages[p] # None
      BY <1>2, <1>4, <1>7, <2>2
    <3>2. CASE ext.pages[p] # None
      <4>1. m \in DOMAIN t /\ m > k /\ t[m].pages[p] # None
        BY <1>2, <2>2, <3>2
      <4> QED
        BY <4>1
    <3>3. CASE ext.pages[p] = None
      BY <1>2, <1>3, <3>1, <3>3
    <3> QED
      BY <3>2, <3>3
  <2> QED
    BY <1>2, <2>1, <2>2
<1> QED
  BY <1>5, <1>6, <1>7

LEMMA BackedAppend ==
  ASSUME NEW S, NEW q \in Seq(S), NEW ext \in S, NEW w, NEW v, NEW from, NEW n, NEW m,
         Backed(w, from, n, q),
         \A p \in PageId : Written(w, from, n, p) => Written(v, from, m, p),
         \A p \in PageId : ext.pages[p] # None => Written(v, from, m, p)
  PROVE  Backed(v, from, m, Append(q, ext))
<1> DEFINE t == Append(q, ext)
<1>1. /\ \A k \in DOMAIN t : (k \in DOMAIN q /\ t[k] = q[k]) \/ t[k] = ext
  OBVIOUS
<1> HIDE DEF t
<1>2. \A k \in DOMAIN t, p \in PageId : t[k].pages[p] # None => Written(v, from, m, p)
  BY <1>1 DEF Backed
<1> QED
  BY <1>2 DEF Backed, t

LEMMA BackedTail ==
  ASSUME NEW S, NEW q \in Seq(S), q # <<>>, NEW w, NEW from, NEW n, Backed(w, from, n, q)
  PROVE  Backed(w, from, n, Tail(q))
<1> DEFINE t == Tail(q)
<1>1. \A k \in DOMAIN t : k + 1 \in DOMAIN q /\ t[k] = q[k + 1]
  OBVIOUS
<1> HIDE DEF t
<1>2. \A k \in DOMAIN t, p \in PageId : t[k].pages[p] # None => Written(w, from, n, p)
  BY <1>1 DEF Backed
<1> QED
  BY <1>2 DEF Backed, t


-----------------------------------------------------------------------------
(* Recovery replays an extent, the file is written in place.                *)

LEMMA NextExtentEnds ==
  ASSUME NEW w, NEW e \in Nat, Parsed(w, e), NEW o \in Nat, o < e, Boundary(w, o),
         NEW d, d = ExtentEnd(w, o + 1)
  PROVE  /\ d \in Nat /\ d > o + 1 /\ d <= e /\ Boundary(w, d)
         /\ \A i \in Redos(w, e) : i > o => i = o + 1 \/ i > d
         /\ w[o + 1].kind = "redo" => o + 1 \in Redos(w, e)
         /\ Opens(w[o + 1]) /\ Whole(w, o + 1, e)
<1>1. Opens(w[o + 1]) /\ Whole(w, o + 1, e)
  BY NextWhole
<1>2. d \in Nat /\ d > o + 1
  BY EndType
<1>3. d <= e /\ w[d].kind = "mark" /\ \A j \in o + 2 .. d - 1 : w[j].kind = "body"
  BY <1>1 DEF Whole
<1>4. Boundary(w, d)
  BY <1>3 DEF Boundary
<1>5. ASSUME NEW i \in Redos(w, e), i > o, i # o + 1 PROVE i > d
  <2>1. i \in 1 .. e /\ w[i].kind = "redo"
    BY DEF Redos
  <2>2. i # d /\ i \notin o + 2 .. d - 1
    BY <1>3, <2>1
  <2> QED
    BY <1>2, <1>5, <2>1, <2>2
<1>6. w[o + 1].kind = "redo" => o + 1 \in Redos(w, e)
  <2>1. o + 1 \in 1 .. e
    OBVIOUS
  <2> QED
    BY <1>3, <2>1 DEF Redos
<1> QED
  BY <1>1, <1>2, <1>3, <1>4, <1>5, <1>6

\* What the file lacks is written by later extents, once this one is in it.
LEMMA CoveredReplayed ==
  ASSUME NEW w, NEW e \in Nat, NEW o \in Nat, o + 1 \in Redos(w, e), NEW image,
         Agrees(w, e, image), NEW file, Covered(w, o, e, file, image)
  PROVE  Covered(w, o + 1, e, Overlay(file, w[o + 1].pages), image)
<1> SUFFICES ASSUME NEW p \in PageId, ~Written(w, o + 1, e, p)
             PROVE  Overlay(file, w[o + 1].pages)[p] = image[p]
  BY DEF Covered
<1>1. \A i \in Writers(w, e, p) : i \in Nat /\ i <= o + 1
  <2>1. \A i \in Writers(w, e, p) : i \in Nat
    BY DEF Writers, Redos
  <2>2. \A i \in Writers(w, e, p) : ~(i > o + 1)
    BY DEF Written
  <2> QED
    BY <2>1, <2>2
<1>2. CASE w[o + 1].pages[p] # None
  <2>1. o + 1 \in Writers(w, e, p)
    BY <1>2 DEF Writers
  <2>2. w[o + 1].pages[p] = image[p]
    BY <1>1, <2>1 DEF Agrees
  <2> QED
    BY <1>2, <2>2 DEF Overlay
<1>3. CASE w[o + 1].pages[p] = None
  <2>1. o + 1 \notin Writers(w, e, p)
    BY <1>3 DEF Writers
  <2>2. ~Written(w, o, e, p)
    <3> SUFFICES ASSUME NEW i \in Writers(w, e, p), i > o PROVE FALSE
      BY DEF Written
    <3> QED
      BY <1>1, <2>1
  <2>3. file[p] = image[p]
    BY <2>2 DEF Covered
  <2> QED
    BY <1>3, <2>3 DEF Overlay
<1> QED
  BY <1>2, <1>3

\* Cutting the file where an extent ends it loses nothing.
LEMMA CoveredResized ==
  ASSUME NEW w, NEW n \in Nat, NEW image, Agrees(w, n, image), NEW i \in Redos(w, n),
         w[i].count \in Nat,
         NEW from \in Nat, from <= i, NEW file, Covered(w, from, n, file, image)
  PROVE  Covered(w, from, n, Resize(file, w[i].count), image)
<1> SUFFICES ASSUME NEW p \in PageId
             PROVE  Resize(file, w[i].count)[p] = image[p] \/ Written(w, from, n, p)
  BY DEF Covered
<1>1. i \in Nat /\ p \in Nat
  BY PageFileAssumption DEF Redos, PageId
<1>2. CASE p < w[i].count
  <2>1. Resize(file, w[i].count)[p] = file[p]
    BY <1>2 DEF Resize
  <2> QED
    BY <2>1 DEF Covered
<1>3. CASE p >= w[i].count
  <2>1. ~(p < w[i].count)
    BY <1>1, <1>3
  <2>2. Resize(file, w[i].count)[p] = Absent
    BY <2>1 DEF Resize
  <2>3. image[p] = Absent \/ Written(w, i, n, p)
    BY <1>3 DEF Agrees
  <2>4. Written(w, i, n, p) => Written(w, from, n, p)
    BY <1>1, CoveredEarlier
  <2> QED
    BY <2>2, <2>3, <2>4
<1> QED
  BY <1>1, <1>2, <1>3

LEMMA CoveredSkipped ==
  ASSUME NEW w, NEW e, NEW from, NEW to, NEW file, NEW image,
         Covered(w, from, e, file, image),
         \A i \in Redos(w, e) : i > from => i > to
  PROVE  Covered(w, to, e, file, image)
<1>1. \A p : Written(w, from, e, p) => Written(w, to, e, p)
  BY DEF Written, Writers
<1> QED
  BY <1>1 DEF Covered

\* Nothing is left to replay.
LEMMA CoveredNothing ==
  ASSUME NEW w, NEW e, NEW from, NEW file \in File, NEW image \in File,
         Covered(w, from, e, file, image), \A i \in Redos(w, e) : ~(i > from)
  PROVE  file = image
<1>1. \A p : ~Written(w, from, e, p)
  BY DEF Written, Writers
<1>2. \A p \in PageId : file[p] = image[p]
  BY <1>1 DEF Covered
<1> QED
  BY <1>2 DEF File

\* Pages the journal has may change in the file.
LEMMA SafeWritten ==
  ASSUME NEW w, NEW f \in Nat, NEW e \in Nat, NEW h, NEW from, NEW file, NEW new,
         Safe(w, f, e, h, from, file),
         \A p \in PageId : new[p] = file[p] \/ Written(w, from, f, p)
  PROVE  Safe(w, f, e, h, from, new)
<1> SUFFICES ASSUME NEW n \in f .. e, NEW p \in PageId
             PROVE  new[p] = Image(w, n, e, h)[p] \/ Written(w, from, n, p)
  BY DEF Safe, Covered
<1>1. Written(w, from, f, p) => Written(w, from, n, p)
  BY FewerRedos
<1>2. file[p] = Image(w, n, e, h)[p] \/ Written(w, from, n, p)
  BY DEF Safe, Covered
<1> QED
  BY <1>1, <1>2

LEMMA SafeResized ==
  ASSUME NEW w, NEW f \in Nat, NEW e \in Nat, NEW h, NEW from \in Nat, NEW file,
         Kept(w, f, e, h), Safe(w, f, e, h, from, file),
         NEW i \in Redos(w, f), w[i].count \in Nat, from <= i
  PROVE  Safe(w, f, e, h, from, Resize(file, w[i].count))
<1> SUFFICES ASSUME NEW n \in f .. e
             PROVE  Covered(w, from, n, Resize(file, w[i].count), Image(w, n, e, h))
  BY DEF Safe
<1>1. i \in Redos(w, n) /\ n \in Nat
  BY FewerRedos
<1>2. Agrees(w, n, Image(w, n, e, h)) /\ Covered(w, from, n, file, Image(w, n, e, h))
  BY DEF Kept, Safe
<1> QED
  BY <1>1, <1>2, CoveredResized

LEMMA CoveredApplied ==
  ASSUME NEW q, NEW k \in DOMAIN q, q[k].count \in Nat, NEW file, NEW image,
         Leads(file, q, image), NEW w, NEW from, NEW n, Backed(w, from, n, q),
         Covered(w, from, n, file, image)
  PROVE  Covered(w, from, n, Resize(file, q[k].count), image)
<1> SUFFICES ASSUME NEW p \in PageId
             PROVE  Resize(file, q[k].count)[p] = image[p] \/ Written(w, from, n, p)
  BY DEF Covered
<1>1. p \in Nat
  BY PageFileAssumption DEF PageId
<1>2. CASE p < q[k].count
  <2>1. Resize(file, q[k].count)[p] = file[p]
    BY <1>2 DEF Resize
  <2> QED
    BY <2>1 DEF Covered
<1>3. CASE p >= q[k].count
  <2>1. ~(p < q[k].count)
    BY <1>1, <1>3
  <2>2. Resize(file, q[k].count)[p] = Absent
    BY <2>1 DEF Resize
  <2>3. image[p] = Absent \/ \E j \in DOMAIN q : j > k /\ q[j].pages[p] # None
    BY <1>3 DEF Leads
  <2> QED
    BY <2>2, <2>3 DEF Backed
<1> QED
  BY <1>1, <1>2, <1>3

\* Of two files that may be left, a crash may leave any mixture.
LEMMA CoveredMixed ==
  ASSUME NEW w, NEW from, NEW n, NEW a, NEW b, NEW image,
         Covered(w, from, n, a, image), Covered(w, from, n, b, image), NEW file,
         \A p \in PageId : file[p] = a[p] \/ file[p] = b[p] \/ a[p] # b[p]
  PROVE  Covered(w, from, n, file, image)
<1> SUFFICES ASSUME NEW p \in PageId
             PROVE  file[p] = image[p] \/ Written(w, from, n, p)
  BY DEF Covered
<1>1. /\ a[p] = image[p] \/ Written(w, from, n, p)
      /\ b[p] = image[p] \/ Written(w, from, n, p)
  BY DEF Covered
<1> QED
  BY <1>1


-----------------------------------------------------------------------------
(* Images and the allocation that describes them.                           *)

LEMMA StagedOverlay ==
  ASSUME NEW file, NEW pages, NEW p \in PageId, NEW content \in Content,
         pages \in PageMap
  PROVE  Overlay(file, [pages EXCEPT ![p] = content]) = [Overlay(file, pages) EXCEPT ![p] = content]
<1> DEFINE staged == [pages EXCEPT ![p] = content]
<1>1. staged[p] = content /\ \A q \in PageId : q # p => staged[q] = pages[q]
  BY DEF PageMap
<1>2. content # None
  BY NoneAssumption
<1>3. \A q \in PageId : Overlay(file, staged)[q] = [Overlay(file, pages) EXCEPT ![p] = content][q]
  <2> HIDE DEF staged
  <2> QED
    BY <1>1, <1>2 DEF Overlay
<1> QED
  BY <1>3 DEF Overlay

LEMMA NothingStaged ==
  ASSUME NEW file \in File
  PROVE  Overlay(file, NoPages) = file
<1>1. \A p \in PageId : Overlay(file, NoPages)[p] = file[p]
  BY DEF Overlay, NoPages
<1> QED
  BY <1>1 DEF Overlay, File

LEMMA DescribesWrite ==
  ASSUME NEW image \in File, NEW n, NEW a, NEW r, Describes(image, n, a, r),
         NEW p \in PageId, a[p] # 0, NEW v
  PROVE  Describes([image EXCEPT ![p] = Data(a[p], v)], n, a, r)
<1> DEFINE new == [image EXCEPT ![p] = Data(a[p], v)]
<1>1. Shape(image) /\ image[0].n = n /\ a = ActivePages(image)
  BY DEF Describes
<1>2. image[p].kind = "data" /\ a[p] = image[p].n
  BY <1>1 DEF ActivePages
<1>3. p # 0 /\ p < n
  <2>1. image[0].kind = "header"
    BY <1>1 DEF Shape, Header
  <2>2. ~(p >= n)
    BY <1>1, <1>2 DEF Shape, Absent
  <2> QED
    BY <1>1, <1>2, <2>1, <2>2, PageFileAssumption DEF PageId, Shape
<1>4. /\ new[p] = Data(a[p], v) /\ \A q \in PageId : q # p => new[q] = image[q]
      /\ new[p].kind = "data" /\ new[p].n = a[p]
  BY DEF File, Data
<1> HIDE DEF new
<1>5. new[0] = image[0]
  BY <1>3, <1>4, PageIds
<1>6. Shape(new)
  <2>1. new[0].n \in 1 .. MaxPages /\ new[0] = Header(new[0].n)
    BY <1>1, <1>5 DEF Shape
  <2>2. \A q \in PageId : q >= n => new[q] = Absent
    <3>1. \A q \in PageId : q >= n => q # p
      BY <1>1, <1>3, PageFileAssumption DEF Shape, PageId
    <3> QED
      BY <1>1, <1>4, <3>1 DEF Shape
  <2>3. \A q \in PageId : q # 0 /\ q < n => new[q].kind \in {"data", "free"}
    BY <1>1, <1>4 DEF Shape
  <2> QED
    BY <1>1, <1>5, <2>1, <2>2, <2>3 DEF Shape
<1>7. ActivePages(new) = ActivePages(image)
  <2>1. \A q \in PageId : ActivePages(new)[q] = ActivePages(image)[q]
    BY <1>2, <1>4 DEF ActivePages
  <2> QED
    BY <2>1 DEF ActivePages
<1>8. ASSUME NEW i \in DOMAIN r
      PROVE  new[r[i].id].kind = "free" /\ r[i].gen = new[r[i].id].n
  <2>1. image[r[i].id].kind = "free" /\ r[i].gen = image[r[i].id].n
    BY DEF Describes
  <2>2. r[i].id # p
    BY <1>2, <2>1
  <2> QED
    BY <2>1, <2>2 DEF new
<1>9. \A q \in PageId : new[q].kind = "free" => \E i \in DOMAIN r : r[i].id = q
  BY <1>4 DEF Describes
<1>10. \A i, j \in DOMAIN r : r[i].id = r[j].id => i = j
  BY DEF Describes
<1> QED
  BY <1>1, <1>5, <1>6, <1>7, <1>8, <1>9, <1>10 DEF Describes, new

LEMMA DescribesReuse ==
  ASSUME NEW image \in File, NEW n, NEW a, NEW r \in Seq(Ref), Describes(image, n, a, r),
         r # <<>>, NEW g \in Nat, NEW v, NEW last, last = r[Len(r)]
  PROVE  /\ last.id \in PageId
         /\ Describes([image EXCEPT ![last.id] = Data(g, v)], n,
                      [a EXCEPT ![last.id] = g], SubSeq(r, 1, Len(r) - 1))
<1> DEFINE p == last.id
           new == [image EXCEPT ![p] = Data(g, v)]
           t == SubSeq(r, 1, Len(r) - 1)
           b == [a EXCEPT ![p] = g]
<1>1. Shape(image) /\ image[0].n = n /\ a = ActivePages(image)
  BY DEF Describes
<1>2. /\ Len(r) \in Nat /\ Len(r) \in DOMAIN r /\ last \in Ref
      /\ DOMAIN r = 1 .. Len(r) /\ DOMAIN t = 1 .. Len(r) - 1
      /\ \A i \in 1 .. Len(r) - 1 : i \in DOMAIN r /\ t[i] = r[i]
  OBVIOUS
<1>3. p \in PageId
  BY <1>2 DEF Ref
<1>4. image[p].kind = "free"
  BY <1>2 DEF Describes
<1>5. p # 0 /\ p < n
  <2>1. image[0].kind = "header"
    BY <1>1 DEF Shape, Header
  <2>2. ~(p >= n)
    BY <1>1, <1>3, <1>4 DEF Shape, Absent
  <2> QED
    BY <1>1, <1>3, <1>4, <2>1, <2>2, PageFileAssumption DEF PageId, Shape
<1>6. /\ new[p] = Data(g, v) /\ \A q \in PageId : q # p => new[q] = image[q]
      /\ new[p].kind = "data" /\ new[p].n = g
  BY <1>3 DEF File, Data
<1>7. \A i \in DOMAIN r : r[i].id = p => i = Len(r)
  BY <1>2 DEF Describes
<1>8. \A i \in DOMAIN t : i \in DOMAIN r /\ t[i] = r[i] /\ i # Len(r)
  BY <1>2
<1>9. \A i \in DOMAIN r : i # Len(r) => i \in DOMAIN t
  BY <1>2
<1>10. new[0] = image[0]
  BY <1>5, <1>6, PageIds
<1>11. b = ActivePages(new)
  <2>1. \A q \in PageId : ActivePages(new)[q] = b[q]
    BY <1>1, <1>6 DEF ActivePages
  <2> QED
    BY <1>1, <2>1 DEF ActivePages
<1> HIDE DEF new, t, b
<1>12. Shape(new)
  <2>1. new[0].n \in 1 .. MaxPages /\ new[0] = Header(new[0].n)
    BY <1>1, <1>10 DEF Shape
  <2>2. \A q \in PageId : q >= n => new[q] = Absent
    <3>1. \A q \in PageId : q >= n => q # p
      BY <1>1, <1>3, <1>5, PageFileAssumption DEF Shape, PageId
    <3> QED
      BY <1>1, <1>6, <3>1 DEF Shape
  <2>3. \A q \in PageId : q # 0 /\ q < n => new[q].kind \in {"data", "free"}
    BY <1>1, <1>6 DEF Shape
  <2> QED
    BY <1>1, <1>10, <2>1, <2>2, <2>3 DEF Shape
<1>13. ASSUME NEW i \in DOMAIN t
      PROVE  new[t[i].id].kind = "free" /\ t[i].gen = new[t[i].id].n
  <2>1. i \in DOMAIN r /\ t[i] = r[i] /\ t[i].id # p
    BY <1>7, <1>8
  <2>2. image[r[i].id].kind = "free" /\ r[i].gen = image[r[i].id].n
    BY <2>1 DEF Describes
  <2> QED
    BY <2>1, <2>2 DEF new
<1>14. ASSUME NEW q \in PageId, new[q].kind = "free"
       PROVE  \E i \in DOMAIN t : t[i].id = q
  <2>1. q # p /\ image[q].kind = "free"
    BY <1>6, <1>14
  <2>2. PICK i \in DOMAIN r : r[i].id = q
    BY <2>1 DEF Describes
  <2>3. i # Len(r)
    BY <2>1, <2>2
  <2>4. i \in DOMAIN t
    BY <1>9, <2>3
  <2> QED
    BY <1>8, <2>2, <2>4
<1>15. \A i, j \in DOMAIN t : t[i].id = t[j].id => i = j
  BY <1>8 DEF Describes
<1>16. new[0].n = n
  BY <1>1, <1>10
<1>17. Describes(new, n, b, t)
  BY <1>11, <1>12, <1>13, <1>14, <1>15, <1>16 DEF Describes
<1> QED
  BY <1>3, <1>17 DEF new, t, b


LEMMA DescribesGrow ==
  ASSUME NEW image \in File, NEW n, NEW a, Describes(image, n, a, <<>>), n < MaxPages, NEW v
  PROVE  /\ n \in PageId
         /\ Describes([[image EXCEPT ![n] = Data(1, v)] EXCEPT ![0] = Header(n + 1)],
                      n + 1, [a EXCEPT ![n] = 1], <<>>)
<1> DEFINE new == [[image EXCEPT ![n] = Data(1, v)] EXCEPT ![0] = Header(n + 1)]
           b == [a EXCEPT ![n] = 1]
<1>1. Shape(image) /\ image[0].n = n /\ a = ActivePages(image)
  BY DEF Describes
<1>2. n \in PageId /\ n # 0 /\ n + 1 \in 1 .. MaxPages
  BY <1>1, PageFileAssumption DEF PageId, Shape
<1>3. /\ new[n] = Data(1, v) /\ new[0] = Header(n + 1)
      /\ \A q \in PageId : q # n /\ q # 0 => new[q] = image[q]
  BY <1>2, PageIds DEF File
<1>4. b = ActivePages(new)
  <2>1. image[0].kind = "header"
    BY <1>1 DEF Shape, Header
  <2>2. \A q \in PageId : ActivePages(new)[q] = b[q]
    <3> HIDE DEF new
    <3> QED
      BY <1>1, <1>2, <1>3, <2>1 DEF ActivePages, Data, Header
  <2> QED
    BY <1>1, <2>2 DEF ActivePages
<1> HIDE DEF new, b
<1>5. new[0].n = n + 1 /\ new[0] = Header(new[0].n)
  BY <1>3 DEF Header
<1>6. Shape(new)
  <2>1. \A q \in PageId : q >= n + 1 => new[q] = Absent
    <3>1. \A q \in PageId : q >= n + 1 => q # n /\ q # 0 /\ q >= n
      BY <1>2, PageFileAssumption DEF PageId
    <3> QED
      BY <1>1, <1>3, <3>1 DEF Shape
  <2>2. \A q \in PageId : q # 0 /\ q < n + 1 => new[q].kind \in {"data", "free"}
    <3>1. \A q \in PageId : q # 0 /\ q < n + 1 => q = n \/ q < n
      BY <1>2, PageFileAssumption DEF PageId
    <3>2. \A q \in PageId : q # 0 /\ q < n => image[q].kind \in {"data", "free"}
      BY <1>1 DEF Shape
    <3>3. new[n].kind = "data"
      BY <1>3 DEF Data
    <3> QED
      BY <1>3, <3>1, <3>2, <3>3
  <2> QED
    BY <1>2, <1>5, <2>1, <2>2 DEF Shape
<1>7. \A q \in PageId : new[q].kind # "free"
  <2>1. \A q \in PageId : image[q].kind # "free"
    BY DEF Describes
  <2>2. new[n].kind # "free" /\ new[0].kind # "free"
    BY <1>3 DEF Data, Header
  <2> QED
    BY <1>3, <2>1, <2>2
<1>8. Describes(new, n + 1, b, <<>>)
  BY <1>4, <1>5, <1>6, <1>7 DEF Describes
<1> QED
  BY <1>2, <1>8 DEF new, b

LEMMA DescribesRelease ==
  ASSUME NEW image \in File, NEW n, NEW a, NEW r \in Seq(Ref), Describes(image, n, a, r),
         NEW p \in PageId, a[p] # 0
  PROVE  Describes([image EXCEPT ![p] = Free(a[p])], n, [a EXCEPT ![p] = 0],
                   Append(r, [id |-> p, gen |-> a[p]]))
<1> DEFINE new == [image EXCEPT ![p] = Free(a[p])]
           b == [a EXCEPT ![p] = 0]
           ref == [id |-> p, gen |-> a[p]]
           t == Append(r, ref)
<1>1. Shape(image) /\ image[0].n = n /\ a = ActivePages(image)
  BY DEF Describes
<1>2. image[p].kind = "data" /\ a[p] = image[p].n
  BY <1>1 DEF ActivePages
<1>3. p # 0 /\ p < n
  <2>1. image[0].kind = "header"
    BY <1>1 DEF Shape, Header
  <2>2. ~(p >= n)
    BY <1>1, <1>2 DEF Shape, Absent
  <2> QED
    BY <1>1, <1>2, <2>1, <2>2, PageFileAssumption DEF PageId, Shape
<1>4. /\ new[p] = Free(a[p]) /\ \A q \in PageId : q # p => new[q] = image[q]
      /\ new[p].kind = "free" /\ new[p].n = a[p]
  BY DEF File, Free
<1>5. b = ActivePages(new)
  <2>1. \A q \in PageId : ActivePages(new)[q] = b[q]
    <3> HIDE DEF new
    <3> QED
      BY <1>1, <1>4 DEF ActivePages
  <2> QED
    BY <1>1, <2>1 DEF ActivePages
<1>6. /\ Len(r) \in Nat /\ DOMAIN r = 1 .. Len(r) /\ DOMAIN t = 1 .. Len(r) + 1
      /\ t[Len(r) + 1] = ref /\ \A i \in DOMAIN r : t[i] = r[i]
  OBVIOUS
<1>7. ref.id = p /\ ref.gen = a[p]
  OBVIOUS
<1> HIDE DEF new, b, ref, t
<1>8. \A i \in DOMAIN t : (i \in DOMAIN r /\ t[i] = r[i]) \/ (i = Len(r) + 1 /\ t[i] = ref)
  BY <1>6
<1>9. new[0] = image[0]
  BY <1>3, <1>4, PageIds
<1>10. Shape(new)
  <2>1. new[0].n \in 1 .. MaxPages /\ new[0] = Header(new[0].n)
    BY <1>1, <1>9 DEF Shape
  <2>2. \A q \in PageId : q >= n => new[q] = Absent
    <3>1. \A q \in PageId : q >= n => q # p
      BY <1>1, <1>3, PageFileAssumption DEF Shape, PageId
    <3> QED
      BY <1>1, <1>4, <3>1 DEF Shape
  <2>3. \A q \in PageId : q # 0 /\ q < n => new[q].kind \in {"data", "free"}
    BY <1>1, <1>4 DEF Shape
  <2> QED
    BY <1>1, <1>9, <2>1, <2>2, <2>3 DEF Shape
<1>11. ASSUME NEW i \in DOMAIN r
       PROVE  r[i].id # p /\ image[r[i].id].kind = "free" /\ r[i].gen = image[r[i].id].n
  BY <1>2 DEF Describes
<1>12. ASSUME NEW i \in DOMAIN t
       PROVE  new[t[i].id].kind = "free" /\ t[i].gen = new[t[i].id].n
  <2>1. CASE t[i] = ref
    BY <1>4, <1>7, <2>1
  <2>2. CASE i \in DOMAIN r /\ t[i] = r[i]
    <3>1. r[i].id # p /\ image[r[i].id].kind = "free" /\ r[i].gen = image[r[i].id].n
      BY <1>11, <2>2
    <3>2. r[i].id \in PageId
      <4>1. r[i] \in Ref
        BY <2>2
      <4> QED
        BY <4>1 DEF Ref
    <3> QED
      BY <1>4, <2>2, <3>1, <3>2
  <2> QED
    BY <1>8, <2>1, <2>2
<1>13. ASSUME NEW q \in PageId, new[q].kind = "free"
       PROVE  \E i \in DOMAIN t : t[i].id = q
  <2>1. CASE q = p
    <3>1. Len(r) + 1 \in DOMAIN t
      BY <1>6
    <3> QED
      BY <1>6, <1>7, <2>1, <3>1
  <2>2. CASE q # p
    <3>1. PICK i \in DOMAIN r : r[i].id = q
      BY <1>4, <1>13, <2>2 DEF Describes
    <3>2. i \in DOMAIN t
      BY <1>6
    <3> QED
      BY <1>6, <3>1, <3>2
  <2> QED
    BY <2>1, <2>2
<1>14. ASSUME NEW i \in DOMAIN t, NEW j \in DOMAIN t, t[i].id = t[j].id
       PROVE  i = j
  <2>1. CASE i \in DOMAIN r /\ t[i] = r[i] /\ j \in DOMAIN r /\ t[j] = r[j]
    BY <1>14, <2>1 DEF Describes
  <2>2. CASE i \in DOMAIN r /\ t[i] = r[i] /\ t[j] = ref
    BY <1>7, <1>11, <1>14, <2>2
  <2>3. CASE t[i] = ref /\ j \in DOMAIN r /\ t[j] = r[j]
    BY <1>7, <1>11, <1>14, <2>3
  <2> QED
    BY <1>8, <2>1, <2>2, <2>3
<1>15. new[0].n = n
  BY <1>1, <1>9
<1>16. Describes(new, n, b, t)
  BY <1>5, <1>10, <1>12, <1>13, <1>14, <1>15 DEF Describes
<1> QED
  BY <1>16 DEF new, b, t, ref

\* What the constructor makes of the pages describes them.
LEMMA DescribesRebuilt ==
  ASSUME NEW image \in File, Shape(image)
  PROVE  Describes(image, image[0].n, ActivePages(image), FreeList(image))
<1> DEFINE S == FreeIds(image)
           n == Cardinality(S)
           r == FreeList(image)
           P(q, i) == Below(S, q) = i - 1
           id(i) == CHOOSE q \in S : P(q, i)
<1>1. S \in SUBSET Int /\ S \in SUBSET PageId /\ IsFiniteSet(S)
  BY PageIds, SubsetCount, PageFileAssumption DEF FreeIds, PageId
<1>2. n \in Nat
  BY <1>1, SubsetCount, FS_CardinalityType
<1>3. \A i \in 1 .. n : \E q \in S : P(q, i)
  BY <1>1, RankExists
<1>4. DOMAIN r = 1 .. n /\ \A i \in 1 .. n : r[i] = [id |-> id(i), gen |-> image[id(i)].n]
  BY DEF FreeList, Below
<1> HIDE DEF r, n, P
<1>5. \A i \in 1 .. n : id(i) \in S /\ P(id(i), i)
  BY <1>3
<1> HIDE DEF id
<1>6. \A i \in DOMAIN r : r[i].id = id(i) /\ r[i].gen = image[id(i)].n /\ id(i) \in S
                           /\ Below(S, id(i)) = i - 1 /\ i \in Nat
  BY <1>4, <1>5 DEF P
<1>7. \A i \in DOMAIN r : image[r[i].id].kind = "free" /\ r[i].gen = image[r[i].id].n
  BY <1>6 DEF FreeIds
<1>8. \A i, j \in DOMAIN r : r[i].id = r[j].id => i = j
  BY <1>6
<1>9. ASSUME NEW q \in PageId, image[q].kind = "free"
      PROVE  \E i \in DOMAIN r : r[i].id = q
  <2>1. q \in S
    BY <1>9 DEF FreeIds
  <2>2. Below(S, q) \in 0 .. n - 1
    BY <1>1, <2>1, BelowBound DEF n
  <2>3. PICK i \in 1 .. n : Below(S, q) = i - 1
    <3>1. Below(S, q) + 1 \in 1 .. n /\ Below(S, q) = (Below(S, q) + 1) - 1
      BY <1>2, <2>2
    <3> QED
      BY <3>1
  <2>4. i \in DOMAIN r /\ r[i].id \in S /\ Below(S, r[i].id) = i - 1
    BY <1>4, <1>6
  <2>5. r[i].id = q
    BY <1>1, <2>1, <2>3, <2>4, RankUnique
  <2> QED
    BY <2>4, <2>5
<1> QED
  BY <1>7, <1>8, <1>9 DEF Describes, r

\* The free list has each released page once.
LEMMA DescribesCount ==
  ASSUME NEW image \in File, NEW n, NEW a, NEW r \in Seq(Ref), Describes(image, n, a, r)
  PROVE  /\ {r[i] : i \in DOMAIN r} = {[id |-> p, gen |-> image[p].n] : p \in FreeIds(image)}
         /\ Len(r) = Cardinality(FreeIds(image))
<1>1. /\ Len(r) \in Nat /\ DOMAIN r = 1 .. Len(r)
  OBVIOUS
<1>2. \A i \in DOMAIN r : r[i] \in Ref
  OBVIOUS
<1>3. \A i \in DOMAIN r : r[i].id \in FreeIds(image) /\ r[i] = [id |-> r[i].id, gen |-> image[r[i].id].n]
  BY <1>2 DEF Describes, FreeIds, Ref
<1>4. \A p \in FreeIds(image) : \E i \in DOMAIN r : r[i].id = p
  BY DEF Describes, FreeIds
<1>5. {r[i] : i \in DOMAIN r} = {[id |-> p, gen |-> image[p].n] : p \in FreeIds(image)}
  BY <1>3, <1>4
<1> DEFINE f == [i \in 1 .. Len(r) |-> r[i].id]
<1>6. f \in [1 .. Len(r) -> FreeIds(image)]
  BY <1>1, <1>3
<1>7. \A i, j \in 1 .. Len(r) : f[i] = f[j] => i = j
  BY <1>1 DEF Describes
<1>8. \A p \in FreeIds(image) : \E i \in 1 .. Len(r) : f[i] = p
  BY <1>1, <1>4
<1> HIDE DEF f
<1>9. f \in Bijection(1 .. Len(r), FreeIds(image))
  BY <1>6, <1>7, <1>8 DEF Bijection, Injection, Surjection, IsInjective
<1>10. ExistsBijection(1 .. Len(r), FreeIds(image))
  BY <1>9 DEF ExistsBijection
<1>11. IsFiniteSet(1 .. Len(r)) /\ Cardinality(1 .. Len(r)) = Len(r)
  BY <1>1, FS_Interval
<1> QED
  BY <1>5, <1>10, <1>11, FS_Bijection


-----------------------------------------------------------------------------
(* More of the journal on the medium.                                       *)

LEMMA SettledMore ==
  ASSUME NEW w, NEW e \in Nat, NEW f \in Nat, NEW g \in Nat, f <= g
  PROVE  /\ Settled(w, e, f) => Settled(w, e, g)
         /\ Settled(w, e, e)
         /\ \A from, p : Written(w, from, f, p) => Written(w, from, g, p)
<1>1. ASSUME Settled(w, e, f), NEW i \in Redos(w, e) PROVE ExtentEnd(w, i) <= g
  <2>1. ExtentEnd(w, i) <= f
    BY <1>1 DEF Settled
  <2>2. ExtentEnd(w, i) \in Nat
    BY EndType DEF Redos
  <2> QED
    BY <2>1, <2>2
<1>2. Settled(w, e, e)
  BY DEF Settled, Redos
<1> QED
  BY <1>1, <1>2, FewerRedos DEF Settled

\* Journals with the same redo extents settle the same way.
LEMMA SettledSame ==
  ASSUME NEW w, NEW v, NEW e, NEW d, Redos(v, d) = Redos(w, e),
         \A i \in Redos(w, e) : v[i] = w[i], NEW f, Settled(w, e, f)
  PROVE  Settled(v, d, f)
BY DEF Settled, ExtentEnd

-----------------------------------------------------------------------------
(* Durability: every step leaves a journal, a main file and a checkpoint    *)
(* record from which recovery makes the image of the commits that survive   *)
(* (Recoverable of PageFileInvariant).                                      *)

-----------------------------------------------------------------------------
(* What the invariant says of the journal at once.                          *)

LEMMA Bounds ==
  ASSUME IInv, Recoverable
  PROVE  /\ wal \in Seq(Block) /\ Len(wal) \in Nat /\ walSynced \in Nat /\ walSynced <= Len(wal)
         /\ JournalEnd \in Nat /\ JournalEnd <= Len(wal)
         /\ Floor \in Nat /\ Floor <= JournalEnd
         /\ pc # "recycle" => Floor = Smaller(walSynced, JournalEnd)
         /\ history \in Seq(File) /\ Len(history) \in Nat \ {0} /\ Committed \in File
         /\ ckpt.cutoff \in Nat /\ ck.cutoff \in Nat
<1>1. /\ wal \in Seq(Block) /\ Len(wal) \in Nat /\ walSynced \in Nat /\ walSynced <= Len(wal)
      /\ ckpt.cutoff \in Nat /\ ck.cutoff \in Nat
  BY DEF IInv, TypeOK, DiskOK, MemoryOK, Record
<1>2. history \in Seq(File) /\ Len(history) \in Nat \ {0} /\ Committed \in File
  <2>1. history \in Seq(File) /\ history # <<>>
    BY DEF IInv, TypeOK, ProgressOK
  <2>2. Len(history) \in Nat \ {0} /\ history[Len(history)] \in File
    BY <2>1
  <2> QED
    BY <2>1, <2>2 DEF Committed
<1>3. JournalEnd \in Nat /\ JournalEnd <= Len(wal)
  <2>1. CASE Own
    <3>1. batch \in Batch /\ batch.start <= Len(wal)
      BY <2>1 DEF Own, IInv, OwnBlocks, TypeOK, MemoryOK
    <3> QED
      BY <2>1, <3>1 DEF JournalEnd, Batch
  <2>2. CASE ~Own
    <3>1. LastMark(wal) \in 0 .. Len(wal)
      BY <1>1, LastMarkExists
    <3> QED
      BY <1>1, <2>2, <3>1 DEF JournalEnd
  <2> QED
    BY <2>1, <2>2
<1>4. Floor \in Nat /\ Floor <= JournalEnd
  BY <1>1, <1>3 DEF Floor, Smaller
<1> QED
  BY <1>1, <1>2, <1>3, <1>4 DEF Floor

\* at its end the journal stands for the committed image
LEMMA AtEnd ==
  ASSUME IInv, Recoverable
  PROVE  /\ Parsed(wal, JournalEnd) /\ Agrees(wal, JournalEnd, Committed)
         /\ ~Virgin => /\ Covered(wal, ckpt.cutoff, JournalEnd, main, Committed)
                       /\ Covered(wal, ckpt.cutoff, JournalEnd, mainSynced, Committed)
<1>1. Parsed(wal, JournalEnd) /\ Kept(wal, Floor, JournalEnd, history)
  BY DEF Recoverable, Layout, Cuts
<1>2. /\ Agrees(wal, JournalEnd, Committed)
      /\ \A from, file : Safe(wal, Floor, JournalEnd, history, from, file) =>
           Covered(wal, from, JournalEnd, file, Committed)
  BY <1>1, Bounds, KeptLast DEF Committed
<1>3. ~Virgin => /\ Safe(wal, Floor, JournalEnd, history, ckpt.cutoff, main)
                 /\ Safe(wal, Floor, JournalEnd, history, ckpt.cutoff, mainSynced)
  BY DEF Recoverable, Cuts
<1> QED
  BY <1>1, <1>2, <1>3

\* With nothing pending the main file is the committed image.
LEMMA NothingPending ==
  ASSUME IInv, Recoverable, pending = <<>>,
         pc \notin Applying \cup Reopening \cup {"down", "broken"}
  PROVE  main = Committed /\ mainSynced = Committed
<1>1. main = mainSynced /\ Leads(main, <<>>, Committed)
  BY DEF Recoverable, Quiet
<1>2. main \in File /\ Committed \in File
  BY Bounds DEF IInv, TypeOK, DiskOK
<1> QED
  BY <1>1, <1>2, LeadsNothing

-----------------------------------------------------------------------------
(* Steps that leave the finished extents alone.                             *)

\* the journal up to its end, and the images it stands for, stay; at least as
\* much of it is fsynced, and recovery starts no later
Steady ==
  /\ SamePrefix(wal, wal', JournalEnd) /\ JournalEnd' = JournalEnd
  /\ history' = history /\ ckpt'.cutoff \in Nat /\ ckpt'.cutoff <= ckpt.cutoff
  /\ Floor' \in Nat /\ Floor <= Floor' /\ Floor' <= JournalEnd

LEMMA SteadyJournal ==
  ASSUME IInv, Recoverable, Steady
  PROVE  /\ Parsed(wal', JournalEnd') /\ Kept(wal', Floor', JournalEnd', history')
         /\ \A file : Safe(wal, Floor, JournalEnd, history, ckpt.cutoff, file) =>
              Safe(wal', Floor', JournalEnd', history', ckpt'.cutoff, file)
         /\ Settled(wal, JournalEnd, Floor) => Settled(wal', JournalEnd', Floor')
         /\ Floor' = JournalEnd => Settled(wal', JournalEnd', Floor')
         /\ \A p : Written(wal, ckpt.cutoff, Floor, p) => Written(wal', ckpt'.cutoff, Floor', p)
         /\ \A q : Backed(wal, ckpt.cutoff, JournalEnd, q) =>
              Backed(wal', ckpt'.cutoff, JournalEnd', q)
         /\ \A c \in 0 .. JournalEnd : Boundary(wal', c) <=> Boundary(wal, c)
<1>1. /\ JournalEnd \in Nat /\ Floor \in Nat /\ Floor <= JournalEnd /\ ckpt.cutoff \in Nat
      /\ Floor' \in Nat /\ ckpt'.cutoff \in Nat
  BY Bounds DEF Steady
<1>2. Parsed(wal, JournalEnd) /\ Kept(wal, Floor, JournalEnd, history)
  BY DEF Recoverable, Layout, Cuts
<1>3. Parsed(wal', JournalEnd')
  BY <1>1, <1>2, PrefixParsed DEF Steady
<1>4. /\ Kept(wal', Floor', JournalEnd, history)
      /\ \A from, to \in Nat : \A file : to <= from /\ Safe(wal, Floor, JournalEnd, history, from, file)
           => Safe(wal', Floor', JournalEnd, history, to, file)
  BY <1>1, <1>2, KeptPrefix DEF Steady
<1>5. /\ Kept(wal', Floor', JournalEnd', history')
      /\ \A file : Safe(wal, Floor, JournalEnd, history, ckpt.cutoff, file) =>
           Safe(wal', Floor', JournalEnd', history', ckpt'.cutoff, file)
  BY <1>1, <1>4 DEF Steady
<1>6. \A n \in 0 .. JournalEnd :
        Redos(wal', n) = Redos(wal, n) /\ \A i \in Redos(wal, n) : wal'[i] = wal[i]
  <2> SUFFICES ASSUME NEW n \in 0 .. JournalEnd
               PROVE  Redos(wal', n) = Redos(wal, n) /\ \A i \in Redos(wal, n) : wal'[i] = wal[i]
    OBVIOUS
  <2>1. n \in Nat /\ n <= JournalEnd
    BY <1>1
  <2>2. SamePrefix(wal, wal', n)
    BY <1>1, <2>1, ShorterPrefix DEF Steady
  <2> QED
    BY <2>1, <2>2, PrefixRedos
<1>7. Settled(wal, JournalEnd, Floor) => Settled(wal', JournalEnd', Floor')
  <2>1. JournalEnd \in 0 .. JournalEnd
    BY <1>1
  <2>2. Settled(wal, JournalEnd, Floor) => Settled(wal', JournalEnd, Floor)
    BY <1>6, <2>1, SettledSame
  <2>3. Settled(wal', JournalEnd, Floor) => Settled(wal', JournalEnd, Floor')
    BY <1>1, SettledMore DEF Steady
  <2> QED
    BY <2>2, <2>3 DEF Steady
<1>8. Floor' = JournalEnd => Settled(wal', JournalEnd', Floor')
  BY <1>1, SettledMore DEF Steady
<1>9. \A n \in 0 .. JournalEnd : \A p :
        Written(wal, ckpt.cutoff, n, p) => Written(wal', ckpt'.cutoff, n, p)
  <2> SUFFICES ASSUME NEW n \in 0 .. JournalEnd, NEW p, Written(wal, ckpt.cutoff, n, p)
               PROVE  Written(wal', ckpt'.cutoff, n, p)
    OBVIOUS
  <2>1. Written(wal', ckpt.cutoff, n, p)
    BY <1>6, SameRedos
  <2>2. n \in Nat
    BY <1>1
  <2> QED
    BY <1>1, <2>1, <2>2, CoveredEarlier DEF Steady
<1>10. \A p : Written(wal, ckpt.cutoff, Floor, p) => Written(wal', ckpt'.cutoff, Floor', p)
  <2>1. Floor \in 0 .. JournalEnd
    BY <1>1
  <2> QED
    BY <1>1, <1>9, <2>1, SettledMore DEF Steady
<1>11. \A q : Backed(wal, ckpt.cutoff, JournalEnd, q) => Backed(wal', ckpt'.cutoff, JournalEnd', q)
  <2>1. JournalEnd \in 0 .. JournalEnd /\ JournalEnd' = JournalEnd
    BY <1>1 DEF Steady
  <2>2. \A p : Written(wal, ckpt.cutoff, JournalEnd, p) => Written(wal', ckpt'.cutoff, JournalEnd', p)
    BY <1>9, <2>1
  <2> QED
    BY <2>2 DEF Backed
<1>12. \A c \in 0 .. JournalEnd : Boundary(wal', c) <=> Boundary(wal, c)
  BY <1>1 DEF Steady, SamePrefix, Boundary
<1> QED
  BY <1>3, <1>5, <1>7, <1>8, <1>10, <1>11, <1>12

-----------------------------------------------------------------------------
(* Recovery.                                                                *)

LEMMA EndWithoutBatch ==
  ASSUME wal' = wal, ~Own, ~Own'
  PROVE  JournalEnd' = JournalEnd
BY DEF JournalEnd

LEMMA RecoverSteady ==
  ASSUME IInv, Recoverable, Recover, ~RedoTruncate
  PROVE  /\ wal' = wal /\ walSynced' = walSynced /\ history' = history /\ Committed' = Committed
         /\ batch = None /\ batch' = None /\ ~Own /\ ~Own' /\ pending = <<>> /\ pending' = <<>>
         /\ Steady /\ Floor' = Floor /\ ~Virgin /\ ~Running
<1>1. /\ wal' = wal /\ walSynced' = walSynced /\ history' = history
      /\ pc \in Reopening /\ ckpt'.cutoff \in {0, ckpt.cutoff}
      /\ pc # "recycle" /\ pc' # "recycle" /\ pc # "down"
  <2>1. CASE RecoverDoubleWrite
    BY <2>1 DEF RecoverDoubleWrite, Reopening, ghosts
  <2>2. CASE RedoRefuse
    BY <2>2 DEF RedoRefuse, Refuse, Closed, Reopening, ghosts, disk
  <2>3. CASE RedoAbort
    BY <2>3 DEF RedoAbort, Reopening, ghosts, disk
  <2>4. CASE RedoExtent
    BY <2>4 DEF RedoExtent, Reopening, ghosts
  <2>5. CASE RedoSync
    BY <2>5 DEF RedoSync, Reopening, ghosts
  <2>6. CASE RedoFinish
    BY <2>6 DEF RedoFinish, Reopening, ghosts, TornCkpt
  <2>7. CASE RedoCkpt
    BY <2>7 DEF RedoCkpt, Reopening, ghosts, Recoverable, Cutoffs
  <2>8. CASE Rebuild
    BY <2>8 DEF Rebuild, Refuse, Closed, Reopening, ghosts, disk
  <2>9. CASE ClearRestored
    BY <2>9 DEF ClearRestored, Scan, Reopening, ghosts
  <2> QED
    BY <2>1, <2>2, <2>3, <2>4, <2>5, <2>6, <2>7, <2>8, <2>9 DEF Recover
<1>2. batch = None /\ pending = <<>>
  BY <1>1 DEF IInv, Control
<1>3. batch' = None /\ pending' = <<>>
  BY <1>2 DEF Recover, RecoverDoubleWrite, ClearRestored, RedoRefuse, Refuse, Closed, RedoAbort,
     RedoExtent, RedoSync, RedoFinish, RedoCkpt, RedoTruncate, Rebuild
<1>4. ~Own /\ ~Own'
  BY <1>2, <1>3 DEF Own
<1>5. JournalEnd' = JournalEnd
  BY <1>1, <1>4, EndWithoutBatch
<1>6. Floor' = Floor
  BY <1>1, <1>5 DEF Floor
<1>7. /\ ckpt.cutoff \in Nat /\ Floor \in Nat /\ Floor <= JournalEnd
      /\ JournalEnd \in Nat
  BY Bounds
<1>8. Steady
  BY <1>1, <1>5, <1>6, <1>7 DEF Steady, SamePrefix
<1>9. ~Virgin /\ ~Running
  BY <1>1 DEF Virgin, Running
<1> QED
  BY <1>1, <1>2, <1>3, <1>4, <1>6, <1>8, <1>9 DEF Committed


\* Before the end of the finished extents recovery finds a whole one.
LEMMA ScanFinds ==
  ASSUME IInv, Recoverable, pc = "redo", off < JournalEnd
  PROVE  /\ off \in Nat /\ Boundary(wal, off) /\ ~RedoEnd /\ ~RedoRefusal
         /\ Kind(1) \in {"redo", "abort"} /\ Kind(1) = NextExtent.kind
         /\ Kind(1) = "redo" => ExtentEnd(wal, off + 1) = off + Records + 2
         /\ Kind(1) = "abort" => ExtentEnd(wal, off + 1) = off + 2
<1>1. off \in Nat /\ Boundary(wal, off)
  BY DEF IInv, TypeOK, ProgressOK, Recoverable, Replays
<1>2. JournalEnd \in Nat /\ JournalEnd <= Len(wal) /\ Len(wal) \in Nat /\ Parsed(wal, JournalEnd)
  BY Bounds, AtEnd
<1> DEFINE d == ExtentEnd(wal, off + 1)
<1>3. d \in Nat /\ d > off + 1 /\ d <= JournalEnd /\ Opens(wal[off + 1])
      /\ Whole(wal, off + 1, JournalEnd)
  BY <1>1, <1>2, NextExtentEnds
<1>4. \A n \in 1 .. d - off : Kind(n) = wal[off + n].kind
  BY <1>1, <1>2, <1>3 DEF Kind, Has
<1>5. 1 \in 1 .. d - off /\ Kind(1) = NextExtent.kind /\ Kind(1) \in {"redo", "abort"}
  BY <1>1, <1>3, <1>4 DEF Opens, NextExtent
<1>6. Records \in Nat
  BY RecordsType
<1>7. CASE Kind(1) = "redo"
  <2>1. d = off + Records + 2
    BY <1>1, <1>5, <1>6, <1>7 DEF ExtentEnd, Records, NextExtent
  <2>2. wal[d].kind = "mark" /\ wal[d].seq = NextExtent.seq /\ \A j \in off + 2 .. d - 1 : wal[j].kind = "body"
    BY <1>1, <1>3, <1>5, <1>7 DEF Whole, NextExtent
  <2>3. \A i \in 2 .. Records + 1 : Kind(i) = "body"
    <3> SUFFICES ASSUME NEW i \in 2 .. Records + 1 PROVE Kind(i) = "body"
      OBVIOUS
    <3>1. i \in 1 .. d - off /\ off + i \in off + 2 .. d - 1
      BY <1>1, <1>6, <2>1
    <3> QED
      BY <1>4, <2>2, <3>1
  <2>4. Kind(Records + 2) = "mark" /\ MarkAt.seq = NextExtent.seq
    <3>1. Records + 2 \in 1 .. d - off /\ off + (Records + 2) = d
      BY <1>1, <1>6, <2>1
    <3> QED
      BY <1>4, <2>1, <2>2, <3>1 DEF MarkAt
  <2>5. ~RedoRefusal
    BY <1>7, <2>3, <2>4 DEF RedoRefusal
  <2>6. ~RedoEnd
    BY <1>7, <2>4, <2>5 DEF RedoEnd
  <2> QED
    BY <1>1, <1>5, <1>7, <2>1, <2>5, <2>6
<1>8. CASE Kind(1) = "abort"
  <2>1. d = off + 2
    BY <1>1, <1>5, <1>8 DEF ExtentEnd, NextExtent
  <2>2. Kind(2) = "mark"
    <3>1. 2 \in 1 .. d - off
      BY <1>1, <2>1
    <3>2. wal[d].kind = "mark"
      BY <1>3 DEF Whole
    <3> QED
      BY <1>4, <2>1, <3>1, <3>2
  <2>3. ~RedoRefusal /\ ~RedoEnd
    BY <1>8, <2>2 DEF RedoRefusal, RedoEnd
  <2> QED
    BY <1>1, <1>5, <1>8, <2>1, <2>3
<1> QED
  BY <1>5, <1>7, <1>8

\* An extent recovery replays or skips is a finished one.
LEMMA ScanStops ==
  ASSUME IInv, Recoverable, pc = "redo",
         \/ Kind(1) = "redo" /\ ~RedoRefusal /\ ~RedoEnd
         \/ Kind(1) = "abort" /\ Kind(2) = "mark"
  PROVE  off < JournalEnd
<1>1. off \in Nat /\ off <= JournalEnd /\ JournalEnd \in Nat /\ Len(wal) \in Nat
  BY Bounds DEF IInv, TypeOK, ProgressOK, Recoverable, Replays
<1>2. NoMarks(wal, JournalEnd)
  <2>1. ~Own
    BY DEF Own, IInv, Control, Reopening
  <2> QED
    BY <1>1, <2>1, LastMarkExists DEF JournalEnd
<1>3. PICK n \in Nat : n >= 1 /\ Kind(n) = "mark"
  <2>1. CASE Kind(1) = "redo" /\ ~RedoRefusal /\ ~RedoEnd
    <3>1. Kind(Records + 2) = "mark" /\ Records \in Nat
      BY <2>1, RecordsType DEF RedoEnd
    <3>2. Records + 2 \in Nat /\ Records + 2 >= 1
      BY <3>1
    <3> QED
      BY <3>1, <3>2
  <2>2. CASE Kind(1) = "abort" /\ Kind(2) = "mark"
    BY <2>2
  <2> QED
    BY <2>1, <2>2
<1>4. off + n <= Len(wal) /\ wal[off + n].kind = "mark"
  BY <1>3 DEF Kind, Has
<1>5. ~(off + n \in JournalEnd + 1 .. Len(wal))
  BY <1>2, <1>4 DEF NoMarks
<1> QED
  BY <1>1, <1>3, <1>4, <1>5


\* Recovery starts where the checkpoint record says.
LEMMA StartsAtCutoff ==
  ASSUME IInv, Recoverable, pc \notin {"recycle", "recycled"}
  PROVE  RedoStart(ckpt) = ckpt.cutoff /\ ckpt.cutoff <= Floor /\ Boundary(wal, ckpt.cutoff)
<1>1. /\ ckpt.cutoff <= Floor /\ Boundary(wal, ckpt.cutoff)
      /\ ckpt.cutoff > 0 => ckpt.state = "ok"
  BY DEF Recoverable, Cutoffs
<1>2. ckpt.cutoff <= Len(wal) /\ ckpt.cutoff \in Nat
  BY <1>1, Bounds
<1> QED
  BY <1>1, <1>2 DEF RedoStart

LEMMA ScanReady ==
  ASSUME IInv, IInv', Recoverable, pc \notin {"recycle", "recycled"}, Scan(ckpt),
         wal' = wal, ckpt' = ckpt, JournalEnd' = JournalEnd, Committed' = Committed,
         Covered(wal, ckpt.cutoff, JournalEnd, main', Committed),
         Covered(wal, ckpt.cutoff, JournalEnd, mainSynced', Committed)
  PROVE  Replays' /\ pc' \in {"redo", "rebuild"} /\ (pc' = "rebuild" => ckpt.cutoff = 0)
<1>1. /\ RedoStart(ckpt) = ckpt.cutoff /\ ckpt.cutoff <= Floor /\ Boundary(wal, ckpt.cutoff)
      /\ Floor <= JournalEnd /\ JournalEnd <= Len(wal) /\ Len(wal) \in Nat
      /\ JournalEnd \in Nat /\ Floor \in Nat /\ ckpt.cutoff \in Nat /\ Committed \in File
  BY StartsAtCutoff, Bounds
<1>2. CASE wal = <<>>
  <2>1. pc' = "rebuild" /\ JournalEnd = 0 /\ ckpt.cutoff = 0
    BY <1>1, <1>2 DEF Scan
  <2>2. \A i \in Redos(wal, JournalEnd) : ~(i > ckpt.cutoff)
    BY <1>1, <2>1 DEF Redos
  <2>3. main' = Committed /\ mainSynced' = Committed
    <3>1. main' \in File /\ mainSynced' \in File
      BY DEF IInv, TypeOK, DiskOK
    <3> QED
      BY <1>1, <2>2, <3>1, CoveredNothing
  <2> QED
    BY <1>2, <2>1, <2>3 DEF Replays
<1>3. CASE wal # <<>>
  <2>1. pc' = "redo" /\ off' = ckpt.cutoff
    BY <1>1, <1>3 DEF Scan
  <2>2. Replayed' = off'
    BY <2>1 DEF Replayed
  <2>3. off' <= JournalEnd' /\ Boundary(wal', off') /\ ckpt'.cutoff <= off'
    BY <1>1, <2>1
  <2>4. Covered(wal', Replayed', JournalEnd', main', Committed')
    BY <2>1, <2>2
  <2>5. \A i \in Redos(wal', JournalEnd') : i <= ckpt'.cutoff \/ i > off'
    BY <1>1, <2>1 DEF Redos
  <2> QED
    BY <2>1, <2>3, <2>4, <2>5 DEF Replays
<1> QED
  BY <1>2, <1>3

\* what the steps of recovery but the cut of the journal keep in any case
LEMMA RecoverKeeps ==
  ASSUME SoundSettings, IInv, IInv', Recoverable, Recover, ~RedoTruncate
  PROVE  /\ (Running' => wal = <<>>) => Layout'
         /\ Safe(wal, Floor, JournalEnd, history, ckpt.cutoff, main')
              /\ Safe(wal, Floor, JournalEnd, history, ckpt.cutoff, mainSynced') => Cuts'
         /\ dwb' \in {dwb, NoSlots} /\ (pc' # "down" => mode' = mode)
              /\ (pc' \notin {"down", "restored"} => dwb' = NoSlots) => SlotsBacked'
         /\ Applies' /\ Stages'
<1>1. /\ wal' = wal /\ walSynced' = walSynced /\ history' = history /\ Committed' = Committed
      /\ batch = None /\ batch' = None /\ ~Own /\ ~Own' /\ pending = <<>> /\ pending' = <<>>
      /\ Steady /\ Floor' = Floor /\ ~Virgin /\ ~Running
  BY RecoverSteady
<1>2. /\ Parsed(wal', JournalEnd') /\ Kept(wal', Floor', JournalEnd', history')
      /\ \A file : Safe(wal, Floor, JournalEnd, history, ckpt.cutoff, file) =>
           Safe(wal', Floor', JournalEnd', history', ckpt'.cutoff, file)
      /\ Settled(wal, JournalEnd, Floor) => Settled(wal', JournalEnd', Floor')
      /\ \A p : Written(wal, ckpt.cutoff, Floor, p) => Written(wal', ckpt'.cutoff, Floor', p)
  BY <1>1, SteadyJournal
<1>3. ASSUME Running' => wal = <<>> PROVE Layout'
  <2>1. Settled(wal', JournalEnd', Floor') /\ Fitting(wal')
    BY <1>1, <1>2 DEF Recoverable, Layout
  <2>2. Running' => JournalEnd' = Len(wal')
    <3>1. wal = <<>> => JournalEnd = 0 /\ Len(wal) = 0
      BY Bounds
    <3> QED
      BY <1>1, <1>3, <3>1 DEF Steady
  <2> QED
    BY <1>2, <2>1, <2>2 DEF Layout
<1>4. ASSUME Safe(wal, Floor, JournalEnd, history, ckpt.cutoff, main'),
             Safe(wal, Floor, JournalEnd, history, ckpt.cutoff, mainSynced')
      PROVE  Cuts'
  BY <1>2, <1>4 DEF Cuts
<1>5. ASSUME dwb' \in {dwb, NoSlots}, pc' # "down" => mode' = mode,
             pc' \notin {"down", "restored"} => dwb' = NoSlots
      PROVE  SlotsBacked'
  <2>1. \A s \in Slots : dwb'[s] # None /\ dwb'[s].whole =>
          Written(wal', ckpt'.cutoff, Floor', dwb'[s].id)
    BY <1>2, <1>5 DEF Recoverable, SlotsBacked, NoSlots
  <2>2. FALSE \in DoubleWriteModes => dwb' = NoSlots
    BY <1>5 DEF Recoverable, SlotsBacked
  <2>3. pc' # "down" => mode'.group \in GroupModes /\ mode'.dw \in DoubleWriteModes
    <3>1. pc # "down"
      BY DEF Recover, RecoverDoubleWrite, ClearRestored, RedoRefuse, RedoAbort, RedoExtent, RedoSync,
         RedoFinish, RedoCkpt, RedoTruncate, Rebuild
    <3> QED
      BY <1>5, <3>1 DEF Recoverable, SlotsBacked
  <2>4. pc' \notin {"stage", "doubleWrite"} /\ (pc' = "restored" => pc = "doubleWrite")
    BY DEF Recover, RecoverDoubleWrite, ClearRestored, Scan, RedoRefuse, Refuse, Closed, RedoAbort,
       RedoExtent, RedoSync, RedoFinish, RedoCkpt, RedoTruncate, Rebuild
  <2>5. pc' = "restored" => mode'.dw
    BY <1>5, <2>4 DEF Recoverable, SlotsBacked
  <2> QED
    BY <1>5, <2>1, <2>2, <2>3, <2>4, <2>5 DEF SlotsBacked
<1>6. pc' \in Reopening \cup {"down", "idle"} /\ (pc' = "idle" => wal = <<>>)
  BY DEF Recover, RecoverDoubleWrite, ClearRestored, Scan, RedoRefuse, Refuse, Closed, RedoAbort, RedoExtent,
     RedoSync, RedoFinish, RedoCkpt, RedoTruncate, Rebuild, Reopening, Recoverable, Replays
<1>7. Applies'
  BY <1>6 DEF Applies, Applying, Reopening
<1>8. Stages'
  <2>1. pc' = "idle" => walSynced' = Len(wal')
    BY <1>1, <1>6, Bounds
  <2> QED
    BY <1>1, <1>6, <2>1 DEF Stages, Applying, Committings, Reopening
<1> QED
  BY <1>3, <1>4, <1>5, <1>7, <1>8


LEMMA LargerBelow ==
  ASSUME NEW a \in Nat, NEW b \in Nat, a > b
  PROVE  Larger(b, a - 1) \in Nat /\ Larger(b, a - 1) < a
BY DEF Larger

LEMMA RecoverRecoverable ==
  ASSUME SoundSettings, IInv, IInv', Recoverable, Recover, ~RedoTruncate
  PROVE  Recoverable'
<1>1. /\ wal' = wal /\ walSynced' = walSynced /\ history' = history /\ Committed' = Committed
      /\ batch = None /\ batch' = None /\ ~Own /\ ~Own' /\ pending = <<>> /\ pending' = <<>>
      /\ Steady /\ Floor' = Floor /\ ~Virgin /\ ~Running
      /\ JournalEnd' = JournalEnd
  BY RecoverSteady DEF Steady
<1>2. /\ JournalEnd \in Nat /\ Floor \in Nat /\ Floor <= JournalEnd /\ Len(wal) \in Nat
      /\ JournalEnd <= Len(wal) /\ ckpt.cutoff \in Nat /\ ck.cutoff \in Nat
      /\ Committed \in File
  BY Bounds
<1>3. /\ Parsed(wal, JournalEnd) /\ Agrees(wal, JournalEnd, Committed)
      /\ Covered(wal, ckpt.cutoff, JournalEnd, main, Committed)
      /\ Covered(wal, ckpt.cutoff, JournalEnd, mainSynced, Committed)
  BY <1>1, AtEnd
<1>4. /\ Safe(wal, Floor, JournalEnd, history, ckpt.cutoff, main)
      /\ Safe(wal, Floor, JournalEnd, history, ckpt.cutoff, mainSynced)
      /\ Kept(wal, Floor, JournalEnd, history) /\ Settled(wal, JournalEnd, Floor)
      /\ Fitting(wal)
  BY <1>1 DEF Recoverable, Cuts, Layout
<1>5. /\ (Running' => wal = <<>>) => Layout'
      /\ Safe(wal, Floor, JournalEnd, history, ckpt.cutoff, main')
           /\ Safe(wal, Floor, JournalEnd, history, ckpt.cutoff, mainSynced') => Cuts'
      /\ dwb' \in {dwb, NoSlots} /\ (pc' # "down" => mode' = mode)
           /\ (pc' \notin {"down", "restored"} => dwb' = NoSlots) => SlotsBacked'
      /\ Applies' /\ Stages'
  BY RecoverKeeps
<1>6. main' \in File /\ mainSynced' \in File
  BY DEF IInv, TypeOK, DiskOK
<1>15. CASE RecoverDoubleWrite
  <2>1. /\ pc = "doubleWrite" /\ pc' = "restored" /\ main' = main /\ mainSynced' = main
        /\ ckpt' = ckpt /\ ck' = ck /\ dwb' = dwb /\ mode' = mode /\ nextLsn' = nextLsn
    BY <1>15 DEF RecoverDoubleWrite, lsns
  <2>2. Replays' /\ Quiet'
    BY <2>1 DEF Replays, Quiet, Reopening
  <2>3. Layout' /\ Cuts' /\ SlotsBacked'
    BY <1>4, <1>5, <2>1 DEF Running, Reopening
  <2>4. Cutoffs'
    BY <1>1, <2>1 DEF Recoverable, Cutoffs, Running, Reopening
  <2> QED
    BY <1>5, <2>2, <2>3, <2>4 DEF Recoverable
<1>7. CASE ClearRestored
  <2>1. /\ pc = "restored" /\ main' = main /\ mainSynced' = mainSynced /\ ckpt' = ckpt
        /\ ck' = ck /\ ck = ckpt /\ Scan(ckpt) /\ dwb' = NoSlots /\ mode' = mode
        /\ nextLsn' = nextLsn
    BY <1>7 DEF ClearRestored, Recoverable, Cutoffs, lsns
  <2>2. Replays' /\ pc' \in {"redo", "rebuild"} /\ (pc' = "rebuild" => ckpt.cutoff = 0)
    BY <1>1, <1>3, <2>1, ScanReady
  <2>3. Layout' /\ Cuts' /\ SlotsBacked'
    BY <1>4, <1>5, <2>1, <2>2 DEF Running, Reopening
  <2>4. Cutoffs'
    BY <1>1, <2>1, <2>2 DEF Recoverable, Cutoffs, Running, Reopening
  <2>5. Quiet'
    BY <2>2 DEF Quiet, Reopening
  <2> QED
    BY <1>5, <2>2, <2>3, <2>4, <2>5 DEF Recoverable
<1>8. CASE RedoRefuse
  <2>1. /\ pc = "redo" /\ pc' = "down" /\ main' = main /\ mainSynced' = mainSynced
        /\ ckpt' = ckpt /\ ck' = NoCkpt /\ dwb' = dwb
    BY <1>8 DEF RedoRefuse, Refuse, Closed, disk
  <2>2. Layout' /\ Cuts' /\ SlotsBacked'
    BY <1>4, <1>5, <2>1 DEF Running
  <2>3. Cutoffs'
    <3>1. ck'.cutoff = 0 /\ ~Running'
      BY <2>1 DEF NoCkpt, Running
    <3>2. /\ ckpt'.cutoff <= Floor' /\ Boundary(wal', ckpt'.cutoff)
          /\ TRUE \notin FuzzyModes => ckpt'.cutoff = 0
          /\ ckpt'.cutoff > 0 => ckpt'.lsn > 0 /\ ckpt'.state = "ok"
      BY <1>1, <2>1 DEF Recoverable, Cutoffs
    <3>3. ~(ck'.cutoff > 0)
      BY <3>1
    <3> QED
      BY <1>1, <2>1, <3>1, <3>2, <3>3 DEF Cutoffs
  <2>4. Quiet' /\ Replays'
    BY <2>1 DEF Quiet, Replays
  <2> QED
    BY <1>5, <2>2, <2>3, <2>4 DEF Recoverable
<1>9. CASE RedoAbort
  <2>1. /\ pc = "redo" /\ pc' = "redo" /\ main' = main /\ mainSynced' = mainSynced
        /\ ckpt' = ckpt /\ ck' = ck /\ dwb' = dwb /\ mode' = mode /\ off' = off + 2
        /\ dwb = NoSlots /\ nextLsn' = Larger(nextLsn, NextExtent.lsn + 1)
        /\ Kind(1) = "abort" /\ Kind(2) = "mark"
    BY <1>9 DEF RedoAbort, Recoverable, SlotsBacked, disk
  <2>2. off < JournalEnd
    BY <2>1, ScanStops
  <2>3. /\ off \in Nat /\ Boundary(wal, off) /\ NextExtent.kind = "abort"
        /\ ExtentEnd(wal, off + 1) = off + 2
    BY <2>1, <2>2, ScanFinds
  <2>4. /\ off + 2 <= JournalEnd /\ Boundary(wal, off + 2)
        /\ \A i \in Redos(wal, JournalEnd) : i > off => i = off + 1 \/ i > off + 2
    BY <1>2, <1>3, <2>2, <2>3, NextExtentEnds
  <2>5. \A i \in Redos(wal, JournalEnd) : i > off => i > off + 2
    <3>1. off + 1 \notin Redos(wal, JournalEnd)
      BY <2>3 DEF Redos, NextExtent
    <3> QED
      BY <2>4, <3>1
  <2>6. Covered(wal, off, JournalEnd, main, Committed) /\ ckpt.cutoff <= off
    BY <2>1 DEF Recoverable, Replays, Replayed
  <2>7. Covered(wal, off + 2, JournalEnd, main, Committed)
    BY <2>5, <2>6, CoveredSkipped
  <2>8. main = mainSynced \/ \A i \in Redos(wal, JournalEnd) : i <= ckpt.cutoff \/ i > off
    BY <2>1 DEF Recoverable, Replays
  <2>9. Replays'
    <3>1. ckpt.cutoff <= off + 2
      BY <1>2, <2>3, <2>6
    <3>2. main' = mainSynced' \/ \A i \in Redos(wal', JournalEnd') : i <= ckpt'.cutoff \/ i > off'
      BY <1>1, <2>1, <2>5, <2>8
    <3> QED
      BY <1>1, <2>1, <2>4, <2>7, <3>1, <3>2 DEF Replays, Replayed
  <2>10. Layout' /\ Cuts' /\ SlotsBacked'
    BY <1>4, <1>5, <2>1 DEF Running, Reopening
  <2>11. Cutoffs'
    <3>1. nextLsn > ck.lsn
      BY <2>1 DEF Recoverable, Cutoffs
    <3>2. nextLsn' \in Nat /\ nextLsn \in Nat /\ ck.lsn \in Nat
      BY DEF IInv, TypeOK, MemoryOK, Record
    <3>3. nextLsn' >= nextLsn
      <4>1. NextExtent.lsn \in Nat
        BY <2>1, ScanType DEF IInv, TypeOK, ProgressOK
      <4> QED
        BY <2>1, <3>2, <4>1 DEF Larger
    <3>4. nextLsn' > ck'.lsn
      BY <2>1, <3>1, <3>2, <3>3
    <3> QED
      BY <1>1, <2>1, <3>4 DEF Recoverable, Cutoffs, Running, Reopening
  <2>12. Quiet'
    BY <2>1 DEF Quiet, Reopening
  <2> QED
    BY <1>5, <2>9, <2>10, <2>11, <2>12 DEF Recoverable
<1>10. CASE RedoExtent
  <2>1. /\ pc = "redo" /\ pc' = "redoSync" /\ main' = Overlay(main, NextExtent.pages)
        /\ mainSynced' = mainSynced /\ ckpt' = ckpt /\ ck' = ck /\ dwb' = dwb /\ mode' = mode
        /\ off' = off /\ dwb = NoSlots /\ nextLsn' = Larger(nextLsn, NextExtent.lsn + 1)
        /\ Kind(1) = "redo" /\ ~RedoRefusal /\ ~RedoEnd
    BY <1>10 DEF RedoExtent, Recoverable, SlotsBacked
  <2>2. off < JournalEnd
    BY <2>1, ScanStops
  <2>3. off \in Nat /\ Boundary(wal, off) /\ NextExtent.kind = "redo"
    BY <2>1, <2>2, ScanFinds
  <2>4. off + 1 \in Redos(wal, JournalEnd) /\ NextExtent = wal[off + 1]
    BY <1>2, <1>3, <2>2, <2>3, NextExtentEnds DEF NextExtent
  <2>5. Covered(wal, off, JournalEnd, main, Committed) /\ ckpt.cutoff <= off
    BY <2>1 DEF Recoverable, Replays, Replayed
  <2>6. Covered(wal, off + 1, JournalEnd, main', Committed)
    BY <1>2, <1>3, <2>1, <2>3, <2>4, <2>5, CoveredReplayed
  <2>7. Replays'
    <3>1. NextExtent' = NextExtent
      BY <1>1, <2>1 DEF NextExtent
    <3>2. \A p \in PageId : NextExtent'.pages[p] # None => main'[p] = NextExtent'.pages[p]
      BY <2>1, <3>1 DEF Overlay
    <3>3. Covered(wal', Replayed', JournalEnd', main', Committed')
      BY <1>1, <2>1, <2>6 DEF Replayed
    <3>4. off' <= JournalEnd' /\ off' < JournalEnd'
      BY <1>1, <1>2, <2>1, <2>2, <2>3
    <3>5. ckpt'.cutoff <= off' /\ Boundary(wal', off') /\ NextExtent'.kind = "redo"
      BY <1>1, <2>1, <2>3, <2>5, <3>1
    <3> QED
      BY <2>1, <3>2, <3>3, <3>4, <3>5 DEF Replays
  <2>8. Safe(wal, Floor, JournalEnd, history, ckpt.cutoff, main')
    <3>1. ExtentEnd(wal, off + 1) <= Floor
      BY <1>4, <2>4 DEF Settled
    <3>2. off + 1 \in Redos(wal, Floor) /\ off + 1 > ckpt.cutoff
      BY <1>2, <2>3, <2>4, <2>5, <3>1, EndType DEF Redos
    <3>3. \A p \in PageId : NextExtent.pages[p] # None => Written(wal, ckpt.cutoff, Floor, p)
      BY <2>4, <3>2 DEF Written, Writers
    <3>4. \A p \in PageId : main'[p] = main[p] \/ Written(wal, ckpt.cutoff, Floor, p)
      BY <2>1, <3>3 DEF Overlay
    <3> QED
      BY <1>2, <1>4, <3>4, SafeWritten
  <2>9. Layout' /\ Cuts' /\ SlotsBacked'
    BY <1>4, <1>5, <2>1, <2>8 DEF Running, Reopening
  <2>10. Cutoffs'
    <3>1. nextLsn > ck.lsn
      BY <2>1 DEF Recoverable, Cutoffs
    <3>2. nextLsn' \in Nat /\ nextLsn \in Nat /\ ck.lsn \in Nat
      BY DEF IInv, TypeOK, MemoryOK, Record
    <3>3. nextLsn' >= nextLsn
      <4>1. NextExtent.lsn \in Nat
        BY <2>1, ScanType DEF IInv, TypeOK, ProgressOK
      <4> QED
        BY <2>1, <3>2, <4>1 DEF Larger
    <3>4. nextLsn' > ck'.lsn
      BY <2>1, <3>1, <3>2, <3>3
    <3> QED
      BY <1>1, <2>1, <3>4 DEF Recoverable, Cutoffs, Running, Reopening
  <2>11. Quiet'
    BY <2>1 DEF Quiet, Reopening
  <2> QED
    BY <1>5, <2>7, <2>9, <2>10, <2>11 DEF Recoverable
<1>11. CASE RedoSync
  <2>1. /\ pc = "redoSync" /\ pc' = "redo" /\ main' = Resize(main, NextExtent.count)
        /\ mainSynced' = main' /\ ckpt' = ckpt /\ ck' = ck /\ dwb' = dwb /\ mode' = mode
        /\ off' = off + Records + 2 /\ dwb = NoSlots /\ nextLsn' = nextLsn
    BY <1>11 DEF RedoSync, Recoverable, SlotsBacked, lsns
  <2>2. /\ off < JournalEnd /\ off \in Nat /\ Boundary(wal, off) /\ ckpt.cutoff <= off
        /\ NextExtent.kind = "redo" /\ NextExtent = wal[off + 1]
        /\ Covered(wal, off + 1, JournalEnd, main, Committed)
    BY <2>1 DEF Recoverable, Replays, Replayed, NextExtent, IInv, TypeOK, ProgressOK
  <2>3. /\ off + 1 \in Redos(wal, JournalEnd) /\ off + 1 \in Nat
        /\ ExtentEnd(wal, off + 1) <= JournalEnd /\ Boundary(wal, ExtentEnd(wal, off + 1))
        /\ \A i \in Redos(wal, JournalEnd) : i > off => i = off + 1 \/ i > ExtentEnd(wal, off + 1)
    BY <1>2, <1>3, <2>2, NextExtentEnds
  <2>4. ExtentEnd(wal, off + 1) = off'
    <3>1. Records \in Nat
      BY RecordsType
    <3> QED
      BY <2>1, <2>2, <3>1 DEF ExtentEnd, Records
  <2>5. wal[off + 1].count \in Nat
    <3>1. wal[off + 1] \in Block /\ wal[off + 1].kind = "redo"
      BY <1>2, <2>2 DEF IInv, TypeOK, DiskOK
    <3> QED
      BY <3>1 DEF Block
  <2>6. Covered(wal, off + 1, JournalEnd, main', Committed)
    BY <1>2, <1>3, <2>1, <2>2, <2>3, <2>5, CoveredResized
  <2>7. Covered(wal, off', JournalEnd, main', Committed)
    <3>1. \A i \in Redos(wal, JournalEnd) : i > off + 1 => i > off'
      BY <1>2, <2>2, <2>3, <2>4 DEF Redos
    <3> QED
      BY <2>6, <3>1, CoveredSkipped
  <2>8. Replays'
    <3>1. ckpt.cutoff <= off' /\ off' <= JournalEnd /\ Boundary(wal, off')
      <4>1. Records \in Nat
        BY RecordsType
      <4>2. ckpt.cutoff <= off'
        BY <1>2, <2>1, <2>2, <4>1
      <4> QED
        BY <2>3, <2>4, <4>2
    <3>2. Covered(wal', Replayed', JournalEnd', main', Committed')
      BY <1>1, <2>1, <2>7 DEF Replayed
    <3> QED
      BY <1>1, <2>1, <3>1, <3>2 DEF Replays
  <2>9. Safe(wal, Floor, JournalEnd, history, ckpt.cutoff, main')
    <3>1. ExtentEnd(wal, off + 1) <= Floor
      BY <1>4, <2>3 DEF Settled
    <3>2. off + 1 \in Redos(wal, Floor)
      BY <1>2, <2>2, <2>3, <3>1, EndType DEF Redos
    <3>3. ckpt.cutoff <= off + 1
      BY <1>2, <2>2
    <3> QED
      BY <1>2, <1>4, <2>1, <2>2, <2>5, <3>2, <3>3, SafeResized
  <2>10. Layout' /\ Cuts' /\ SlotsBacked'
    BY <1>4, <1>5, <2>1, <2>9 DEF Running, Reopening
  <2>11. Cutoffs'
    BY <1>1, <2>1 DEF Recoverable, Cutoffs, Running, Reopening
  <2>12. Quiet'
    BY <2>1 DEF Quiet, Reopening
  <2> QED
    BY <1>5, <2>8, <2>10, <2>11, <2>12 DEF Recoverable
<1>12. CASE RedoFinish
  <2>1. /\ pc = "redo" /\ pc' \in {"redoCkpt", "redoTruncate"} /\ main' = main
        /\ mainSynced' = mainSynced /\ dwb' = dwb /\ mode' = mode /\ dwb = NoSlots
        /\ RedoEnd /\ ckpt' \in {ckpt, TornCkpt}
    BY <1>12 DEF RedoFinish, Recoverable, SlotsBacked
  <2>2. /\ off = JournalEnd /\ Covered(wal, off, JournalEnd, main, Committed)
        /\ ckpt.cutoff <= off
        /\ main = mainSynced \/ \A i \in Redos(wal, JournalEnd) : i <= ckpt.cutoff \/ i > off
    <3>1. off <= JournalEnd /\ off \in Nat
      BY <2>1 DEF Recoverable, Replays, IInv, TypeOK, ProgressOK
    <3>2. ~(off < JournalEnd)
      BY <2>1, ScanFinds
    <3> QED
      BY <1>2, <2>1, <3>1, <3>2 DEF Recoverable, Replays, Replayed
  <2>3. \A i \in Redos(wal, JournalEnd) : ~(i > off) /\ (~(i > ckpt.cutoff) <=> i <= ckpt.cutoff)
    BY <1>2, <2>2 DEF Redos
  <2>4. main = Committed
    BY <1>2, <1>6, <2>1, <2>2, <2>3, CoveredNothing
  <2>5. mainSynced = Committed
    <3>1. CASE main = mainSynced
      BY <2>4, <3>1
    <3>2. CASE \A i \in Redos(wal, JournalEnd) : i <= ckpt.cutoff \/ i > off
      BY <1>2, <1>3, <1>6, <2>1, <2>3, <3>2, CoveredNothing
    <3> QED
      BY <2>2, <3>1, <3>2
  <2>6. Replays'
    BY <1>1, <2>1, <2>4, <2>5 DEF Replays
  <2>7. Layout' /\ Cuts' /\ SlotsBacked'
    BY <1>4, <1>5, <2>1 DEF Running, Reopening
  <2>8. Quiet'
    BY <2>1 DEF Quiet, Reopening
  <2>9. Cutoffs'
    <3>1. /\ ck = ckpt /\ nextLsn > ck.lsn
          /\ ck.cutoff > 0 => ck.lsn > 0
          /\ ckpt.cutoff <= Floor /\ Boundary(wal, ckpt.cutoff)
      BY <2>1 DEF Recoverable, Cutoffs
    <3>2. nextLsn' \in Nat /\ nextLsn \in Nat /\ ck.lsn \in Nat
      BY DEF IInv, TypeOK, MemoryOK, Record
    <3>3. nextLsn' >= nextLsn
      <4>1. Kind(1) = "redo" => NextExtent.lsn \in Nat
        BY <2>1, ScanType DEF IInv, TypeOK, ProgressOK
      <4>2. nextLsn' = nextLsn \/ (Kind(1) = "redo" /\ nextLsn' = Larger(nextLsn, NextExtent.lsn + 1))
        BY <1>12 DEF RedoFinish
      <4> QED
        BY <3>2, <4>1, <4>2 DEF Larger
    <3>4. /\ ck'.cutoff = 0 /\ nextLsn' > ck'.lsn /\ ckpt'.cutoff = 0
      <4> DEFINE record == [ck EXCEPT !.lsn = Larger(ck.lsn, nextLsn' - 1)]
      <4>1. ck \in Record /\ record.lsn = Larger(ck.lsn, nextLsn' - 1) /\ record.cutoff = ck.cutoff
        BY DEF IInv, TypeOK, MemoryOK, Record
      <4>2. record \in Record /\ record.lsn < nextLsn'
        <5>1. Larger(ck.lsn, nextLsn' - 1) \in Nat /\ Larger(ck.lsn, nextLsn' - 1) < nextLsn'
          <6>1. nextLsn > ck.lsn
            BY <3>1
          <6>2. nextLsn' > ck.lsn
            BY <3>2, <3>3, <6>1
          <6> QED
            BY <3>2, <6>2, LargerBelow
        <5> QED
          BY <4>1, <5>1 DEF Record
      <4>3. \/ /\ ck' = [record EXCEPT !.state = "ok", !.cutoff = 0, !.seq = seq']
               /\ ckpt' = TornCkpt
            \/ ~(nextLsn' > 1) /\ ck' = record /\ ckpt' = ckpt
        BY <1>12 DEF RedoFinish
      <4> HIDE DEF record
      <4>4. CASE ck' = [record EXCEPT !.state = "ok", !.cutoff = 0, !.seq = seq'] /\ ckpt' = TornCkpt
        BY <4>2, <4>4 DEF Record, TornCkpt
      <4>5. CASE ~(nextLsn' > 1) /\ ck' = record /\ ckpt' = ckpt
        <5>1. ~(ck.lsn > 0)
          BY <3>1, <3>2, <3>3, <4>5
        <5>2. ck.cutoff = 0
          BY <1>2, <3>1, <5>1
        <5> QED
          BY <3>1, <4>1, <4>2, <4>5, <5>2
      <4> QED
        BY <4>3, <4>4, <4>5
    <3>5. Boundary(wal', 0) /\ 0 <= Floor'
      BY <1>1, <1>2 DEF Boundary
    <3>6. ~(ck'.cutoff > 0) /\ ~(ckpt'.cutoff > 0)
      BY <3>4
    <3> QED
      BY <1>1, <2>1, <3>4, <3>5, <3>6 DEF Cutoffs, Running, Reopening
  <2> QED
    BY <1>5, <2>6, <2>7, <2>8, <2>9 DEF Recoverable
<1>13. CASE RedoCkpt
  <2>1. /\ pc = "redoCkpt" /\ pc' = "redoTruncate" /\ main' = main
        /\ mainSynced' = mainSynced /\ ckpt' = ck /\ ck' = ck /\ dwb' = dwb /\ mode' = mode
        /\ dwb = NoSlots /\ nextLsn' = nextLsn
    BY <1>13 DEF RedoCkpt, Recoverable, SlotsBacked, lsns
  <2>2. Replays'
    BY <1>1, <2>1 DEF Recoverable, Replays
  <2>3. Layout' /\ Cuts' /\ SlotsBacked'
    BY <1>4, <1>5, <2>1 DEF Running, Reopening
  <2>4. Cutoffs'
    <3>1. Boundary(wal', 0) /\ 0 <= Floor'
      BY <1>1, <1>2 DEF Boundary
    <3>2. ck.cutoff = 0 /\ nextLsn > ck.lsn
      BY <2>1 DEF Recoverable, Cutoffs
    <3> QED
      BY <1>1, <2>1, <3>1, <3>2 DEF Cutoffs, Running, Reopening
  <2>5. Quiet'
    BY <2>1 DEF Quiet, Reopening
  <2> QED
    BY <1>5, <2>2, <2>3, <2>4, <2>5 DEF Recoverable
<1>14. CASE Rebuild
  <2>1. /\ pc = "rebuild" /\ wal = <<>> /\ main = Committed /\ mainSynced = Committed
        /\ dwb = NoSlots /\ ck.cutoff = 0 /\ ckpt.cutoff = 0 /\ nextLsn > ck.lsn
    BY <1>14 DEF Rebuild, Recoverable, Replays, SlotsBacked, Cutoffs
  <2>2. /\ main' = main /\ mainSynced' = mainSynced /\ ckpt' = ckpt /\ dwb' = dwb
        /\ \/ pc' = "idle" /\ mode' = mode /\ ck' = ck /\ nextLsn' = nextLsn
           \/ pc' = "down" /\ ck' = NoCkpt
    BY <1>14 DEF Rebuild, Refuse, Closed, disk, lsns
  <2>3. Layout' /\ Cuts' /\ SlotsBacked'
    BY <1>4, <1>5, <2>1, <2>2 DEF Running, Reopening
  <2>4. Replays'
    BY <2>2 DEF Replays
  <2>5. Quiet'
    <3>1. Leads(main', pending', Committed') /\ Backed(wal', ckpt'.cutoff, JournalEnd', pending')
      BY <1>1, <2>1, <2>2, LeadsEmpty
    <3> QED
      BY <2>1, <2>2, <3>1 DEF Quiet
  <2>6. Cutoffs'
    <3>1. Boundary(wal', 0) /\ 0 <= Floor' /\ JournalEnd' = 0
      <4>1. JournalEnd = 0
        BY <1>2, <2>1
      <4> QED
        BY <1>1, <1>2, <4>1 DEF Boundary
    <3>2. ck'.cutoff = 0 /\ (pc' # "down" => nextLsn' > ck'.lsn) /\ ckpt'.cutoff = 0
      BY <2>1, <2>2 DEF NoCkpt
    <3>3. ~(ck'.cutoff > 0) /\ ~(ckpt'.cutoff > 0) /\ ~(JournalEnd' > 0)
      BY <3>1, <3>2
    <3> QED
      BY <1>1, <2>2, <3>1, <3>2, <3>3 DEF Cutoffs
  <2> QED
    BY <1>5, <2>3, <2>4, <2>5, <2>6 DEF Recoverable
<1> QED
  BY <1>7, <1>8, <1>9, <1>10, <1>11, <1>12, <1>13, <1>14, <1>15 DEF Recover


\* An empty journal stands for one image.
LEMMA EmptyJournal ==
  ASSUME NEW w, w = <<>>
  PROVE  /\ LastMark(w) = 0 /\ Parsed(w, 0) /\ Fitting(w) /\ Settled(w, 0, 0) /\ Boundary(w, 0)
         /\ \A image : Agrees(w, 0, image)
         /\ \A h : Len(h) \in Nat \ {0} => /\ Kept(w, 0, 0, h)
                                           /\ \A from : Safe(w, 0, 0, h, from, h[Len(h)])
<1>1. Len(w) = 0 /\ 0 \in Nat /\ Redos(w, 0) = {}
  BY DEF Redos
<1>2. Boundary(w, 0) /\ NoMarks(w, 0)
  BY <1>1 DEF Boundary, NoMarks
<1>3. LastMark(w) = 0
  BY <1>1, <1>2, LastMarkUnique
<1>4. Parsed(w, 0) /\ Fitting(w) /\ Settled(w, 0, 0)
  BY <1>1, <1>2 DEF Parsed, Fitting, Settled
<1>5. \A image : Agrees(w, 0, image)
  BY <1>1 DEF Agrees, Writers
<1>6. \A from, file : Covered(w, from, 0, file, file)
  BY DEF Covered
<1>7. ASSUME NEW h, Len(h) \in Nat \ {0}
      PROVE  Kept(w, 0, 0, h) /\ \A from : Safe(w, 0, 0, h, from, h[Len(h)])
  BY <1>1, <1>5, <1>6, <1>7, KeptAtEnd
<1> QED
  BY <1>2, <1>3, <1>4, <1>5, <1>7

LEMMA RedoTruncateRecoverable ==
  ASSUME IInv, IInv', Recoverable, RedoTruncate
  PROVE  Recoverable'
<1>1. /\ pc = "redoTruncate" /\ pc' = "rebuild" /\ wal' = <<>> /\ walSynced' = 0
      /\ main' = main /\ mainSynced' = mainSynced /\ ckpt' = ckpt /\ ck' = ck /\ dwb' = dwb
      /\ mode' = mode /\ nextLsn' = nextLsn /\ history' = history /\ batch' = batch
      /\ batch = None /\ pending' = pending
  BY DEF RedoTruncate, lsns, ghosts, IInv, Control, Reopening
<1>2. ~Own' /\ Committed' = Committed
  BY <1>1 DEF Own, Committed
<1>3. /\ JournalEnd' = 0 /\ Floor' = 0 /\ Len(wal') = 0
      /\ Parsed(wal', 0) /\ Fitting(wal') /\ Settled(wal', 0, 0) /\ Boundary(wal', 0)
      /\ Kept(wal', 0, 0, history')
      /\ \A from : Safe(wal', 0, 0, history', from, Committed)
  <2>1. Len(history') \in Nat \ {0} /\ history'[Len(history')] = Committed
    BY <1>1, Bounds DEF Committed
  <2>2. /\ LastMark(wal') = 0 /\ Parsed(wal', 0) /\ Fitting(wal') /\ Settled(wal', 0, 0)
        /\ Boundary(wal', 0) /\ Kept(wal', 0, 0, history')
        /\ \A from : Safe(wal', 0, 0, history', from, Committed)
    BY <1>1, <2>1, EmptyJournal
  <2>3. JournalEnd' = 0
    BY <1>2, <2>2 DEF JournalEnd
  <2>4. Floor' = 0
    BY <1>1, <2>3 DEF Floor, Smaller
  <2> QED
    BY <1>1, <2>2, <2>3, <2>4
<1>4. /\ main = Committed /\ mainSynced = Committed /\ dwb = NoSlots
      /\ ck.cutoff = 0 /\ ckpt.cutoff = 0 /\ nextLsn > ck.lsn
      /\ FALSE \in DoubleWriteModes => dwb = NoSlots
      /\ mode.group \in GroupModes /\ mode.dw \in DoubleWriteModes
  BY <1>1 DEF Recoverable, Replays, SlotsBacked, Cutoffs
<1>5. ~Running'
  BY <1>1 DEF Running, Reopening
<1>6. Layout' /\ Cuts'
  BY <1>1, <1>3, <1>4, <1>5 DEF Layout, Cuts
<1>7. Cutoffs'
  BY <1>1, <1>3, <1>4, <1>5 DEF Cutoffs
<1>8. SlotsBacked'
  BY <1>1, <1>4 DEF SlotsBacked, NoSlots
<1>9. Quiet' /\ Applies' /\ Replays' /\ Stages'
  BY <1>1, <1>2, <1>4 DEF Quiet, Applies, Replays, Stages, Reopening, Applying, Committings
<1> QED
  BY <1>6, <1>7, <1>8, <1>9 DEF Recoverable

-----------------------------------------------------------------------------
(* Opening.                                                                 *)

LEMMA CreateRecoverable ==
  ASSUME IInv, IInv', Recoverable, Allocated, Create
  PROVE  Recoverable' /\ Virgin
<1>1. /\ pc = "down" /\ pc' = "idle" /\ wal = <<>> /\ wal' = wal /\ walSynced' = walSynced
      /\ main[0] = Absent /\ main' = [main EXCEPT ![0] = Header(1)] /\ mainSynced' = main'
      /\ ckpt' = ckpt /\ ck' = ckpt /\ dwb' = dwb /\ nextLsn' = ckpt.lsn + 1
      /\ history' = history /\ batch' = batch /\ pending' = pending
      /\ batch = None /\ pending = <<>>
      /\ mode'.group \in GroupModes /\ mode'.dw \in DoubleWriteModes
  BY DEF Create, ghosts, IInv, Control
<1>2. ~Own /\ ~Own' /\ Committed' = Committed /\ Len(wal) = 0
  BY <1>1 DEF Own, Committed
<1>3. Virgin
  <2> SUFFICES ASSUME ~Virgin PROVE FALSE
    OBVIOUS
  <2>1. /\ JournalEnd = 0 /\ main \in File /\ Committed \in File /\ 0 \in PageId
        /\ Covered(wal, ckpt.cutoff, JournalEnd, main, Committed)
    BY <1>2, Bounds, AtEnd, PageIds DEF IInv, TypeOK, DiskOK
  <2>2. main = Committed
    <3>1. \A i \in Redos(wal, JournalEnd) : ~(i > ckpt.cutoff)
      BY <2>1 DEF Redos
    <3> QED
      BY <2>1, <3>1, CoveredNothing
  <2>3. Shape(Committed)
    BY Bounds DEF Allocated, Shapes, Committed
  <2> QED
    BY <1>1, <2>2, <2>3 DEF Shape, Header, Absent
<1>4. /\ main = EmptyFile /\ ckpt = NoCkpt /\ dwb = NoSlots /\ Committed = main'
      /\ Len(history) \in Nat \ {0}
  <2>1. /\ main = EmptyFile /\ ckpt = NoCkpt /\ dwb = NoSlots
        /\ history = <<[EmptyFile EXCEPT ![0] = Header(1)]>>
    BY <1>3 DEF Virgin
  <2>2. Len(history) = 1 /\ history[Len(history)] = [EmptyFile EXCEPT ![0] = Header(1)]
    BY <2>1
  <2> QED
    BY <1>1, <2>1, <2>2 DEF Committed
<1>5. /\ JournalEnd' = 0 /\ Floor' = 0 /\ Len(wal') = 0 /\ walSynced' = 0
      /\ Parsed(wal', 0) /\ Fitting(wal') /\ Settled(wal', 0, 0) /\ Boundary(wal', 0)
      /\ Kept(wal', 0, 0, history')
      /\ \A from : Safe(wal', 0, 0, history', from, Committed)
  <2>1. Len(history') \in Nat \ {0} /\ history'[Len(history')] = Committed
    BY <1>1, <1>4 DEF Committed
  <2>2. /\ LastMark(wal') = 0 /\ Parsed(wal', 0) /\ Fitting(wal') /\ Settled(wal', 0, 0)
        /\ Boundary(wal', 0) /\ Kept(wal', 0, 0, history')
        /\ \A from : Safe(wal', 0, 0, history', from, Committed)
    BY <1>1, <2>1, EmptyJournal
  <2>3. JournalEnd' = 0
    BY <1>2, <2>2 DEF JournalEnd
  <2>4. walSynced' = 0
    BY <1>1, Bounds
  <2>5. Floor' = 0
    BY <1>1, <2>3, <2>4 DEF Floor, Smaller
  <2> QED
    BY <1>1, <1>2, <2>2, <2>3, <2>4, <2>5
<1>6. Layout' /\ Cuts'
  BY <1>1, <1>4, <1>5 DEF Layout, Cuts
<1>7. Cutoffs'
  BY <1>1, <1>2, <1>4, <1>5 DEF Cutoffs, NoCkpt
<1>8. SlotsBacked'
  BY <1>1, <1>4 DEF SlotsBacked, NoSlots
<1>9. Quiet'
  <2>1. Leads(main', pending', Committed') /\ Backed(wal', ckpt'.cutoff, JournalEnd', pending')
    BY <1>1, <1>2, <1>4, LeadsEmpty
  <2> QED
    BY <1>1, <2>1 DEF Quiet
<1>10. Applies' /\ Replays' /\ Stages'
  BY <1>1, <1>2, <1>5 DEF Applies, Replays, Stages, Applying, Committings
<1> QED
  BY <1>3, <1>6, <1>7, <1>8, <1>9, <1>10 DEF Recoverable

\* A slot image is an image of a page the journal has.
LEMMA SlotsWritten ==
  ASSUME Recoverable, NEW p \in PageId, SlotImages[p] # None
  PROVE  Written(wal, ckpt.cutoff, Floor, p)
<1> DEFINE holders == {s \in Copied : dwb[s].id = p}
<1>1. holders # {}
  BY DEF SlotImages
<1>2. PICK s \in Slots : dwb[s] # None /\ dwb[s].whole /\ dwb[s].id = p
  <2>1. PICK s \in Copied : dwb[s].id = p
    BY <1>1
  <2>2. s \in Slots /\ s \in 1 .. s /\ dwb[s] # None
    BY <2>1, PageFileAssumption DEF Copied, Slots
  <2> QED
    BY <2>1, <2>2 DEF Copied
<1> QED
  BY <1>2 DEF Recoverable, SlotsBacked

LEMMA OpenRecoverable ==
  ASSUME SoundSettings, IInv, IInv', Recoverable, Open
  PROVE  Recoverable' /\ ~Virgin
<1>1. /\ pc = "down" /\ pc' \in {"doubleWrite", "redo", "rebuild"} /\ wal' = wal
      /\ walSynced' = walSynced /\ mainSynced' = mainSynced
      /\ main[0] # Absent /\ ckpt' = ckpt /\ ck' = ckpt /\ dwb' = dwb
      /\ nextLsn' = ckpt.lsn + 1
      /\ history' = history /\ batch' = batch /\ pending' = pending
      /\ batch = None /\ pending = <<>>
      /\ mode'.group \in GroupModes /\ mode'.dw \in DoubleWriteModes
  BY DEF Open, Scan, ghosts, IInv, Control
<1>2. /\ ~Own /\ ~Own' /\ Committed' = Committed /\ ~Running /\ ~Running'
  BY <1>1 DEF Own, Committed, Running, Reopening
<1>3. ~Virgin
  BY <1>1, PageIds DEF Virgin, EmptyFile
<1>4. /\ JournalEnd \in Nat /\ Floor \in Nat /\ Floor <= JournalEnd /\ ckpt.cutoff \in Nat
      /\ JournalEnd' = JournalEnd
  BY <1>1, <1>2, Bounds, EndWithoutBatch
<1>5. Floor' = Floor
  BY <1>1, <1>4 DEF Floor
<1>6. Steady
  BY <1>1, <1>4, <1>5 DEF Steady, SamePrefix
<1>7. /\ Parsed(wal', JournalEnd') /\ Kept(wal', Floor', JournalEnd', history')
      /\ \A file : Safe(wal, Floor, JournalEnd, history, ckpt.cutoff, file) =>
           Safe(wal', Floor', JournalEnd', history', ckpt'.cutoff, file)
      /\ Settled(wal, JournalEnd, Floor) => Settled(wal', JournalEnd', Floor')
  BY <1>6, SteadyJournal
<1>8. /\ Safe(wal, Floor, JournalEnd, history, ckpt.cutoff, main)
      /\ Safe(wal, Floor, JournalEnd, history, ckpt.cutoff, mainSynced)
      /\ Kept(wal, Floor, JournalEnd, history) /\ Settled(wal, JournalEnd, Floor) /\ Fitting(wal)
      /\ Covered(wal, ckpt.cutoff, JournalEnd, main, Committed)
      /\ Covered(wal, ckpt.cutoff, JournalEnd, mainSynced, Committed)
  BY <1>2, <1>3, AtEnd DEF Recoverable, Cuts, Layout
<1>9. /\ main' \in {main, Overlay(main, SlotImages)}
      /\ pc' # "doubleWrite" => main' = main /\ Scan(ckpt) /\ dwb = NoSlots
      /\ pc' = "doubleWrite" => mode'.dw
  <2>1. PICK g \in GroupModes, d \in DoubleWriteModes :
          \/ main' = Overlay(main, SlotImages) /\ pc' = "doubleWrite" /\ mode'.dw
          \/ ~(d /\ dwb # NoSlots) /\ main' = main /\ Scan(ckpt)
    BY DEF Open
  <2>2. FALSE \in DoubleWriteModes => dwb = NoSlots
    BY DEF Recoverable, SlotsBacked
  <2>3. d = TRUE \/ d = FALSE
    BY PageFileAssumption
  <2> QED
    BY <2>1, <2>2, <2>3 DEF Scan
<1>10. Safe(wal, Floor, JournalEnd, history, ckpt.cutoff, main')
  <2>1. \A p \in PageId : main'[p] = main[p] \/ Written(wal, ckpt.cutoff, Floor, p)
    BY <1>9, SlotsWritten DEF Overlay
  <2> QED
    BY <1>4, <1>8, <2>1, SafeWritten
<1>11. Layout' /\ Cuts'
  BY <1>1, <1>2, <1>7, <1>8, <1>10 DEF Layout, Cuts
<1>12. Cutoffs'
  <2>1. /\ ckpt'.cutoff <= Floor' /\ Boundary(wal', ckpt'.cutoff)
        /\ TRUE \notin FuzzyModes => ckpt'.cutoff = 0
        /\ ckpt'.cutoff > 0 => ckpt'.lsn > 0 /\ ckpt'.state = "ok"
    BY <1>1, <1>5 DEF Recoverable, Cutoffs
  <2>2. nextLsn' > ck'.lsn
    <3>1. ckpt.lsn \in Nat
      BY DEF IInv, TypeOK, DiskOK, Record
    <3> QED
      BY <1>1, <3>1
  <2>3. pc' = "rebuild" => ckpt'.cutoff = 0
    <3>1. CASE pc' = "rebuild"
      <4>1. wal = <<>>
        BY <1>9, <3>1 DEF Scan
      <4>2. ckpt.cutoff <= 0
        <5>1. ckpt.cutoff <= Floor
          BY <1>1 DEF Recoverable, Cutoffs
        <5>2. Len(wal) = 0
          BY <4>1
        <5> QED
          BY <1>4, <5>1, <5>2, Bounds
      <4> QED
        BY <1>1, <1>4, <4>2
    <3> QED
      BY <3>1
  <2> QED
    BY <1>1, <1>2, <2>1, <2>2, <2>3 DEF Cutoffs
<1>13. SlotsBacked'
  BY <1>1, <1>5, <1>9 DEF Recoverable, SlotsBacked
<1>14. Replays'
  <2>1. CASE pc' = "doubleWrite"
    BY <2>1 DEF Replays
  <2>2. CASE pc' # "doubleWrite"
    <3>1. main' = main /\ Scan(ckpt)
      BY <1>9, <2>2
    <3> QED
      BY <1>1, <1>2, <1>4, <1>8, <3>1, ScanReady
  <2> QED
    BY <2>1, <2>2
<1>15. Quiet' /\ Applies' /\ Stages'
  BY <1>1, <1>2 DEF Quiet, Applies, Stages, Reopening, Applying, Committings
<1> QED
  BY <1>3, <1>11, <1>12, <1>13, <1>14, <1>15 DEF Recoverable

LEMMA OpenRefusedRecoverable ==
  ASSUME IInv, IInv', Recoverable, OpenRefused
  PROVE  Recoverable'
<1>1. /\ pc = "down" /\ pc' = "down" /\ wal' = wal /\ walSynced' = walSynced
      /\ main' = main /\ mainSynced' = mainSynced /\ ckpt' = ckpt /\ ck' = NoCkpt /\ dwb' = dwb
      /\ history' = history /\ batch' = None /\ pending' = <<>> /\ batch = None
  BY DEF OpenRefused, Refuse, Closed, disk, ghosts, IInv, Control
<1>2. ~Own /\ ~Own' /\ Committed' = Committed /\ ~Running /\ ~Running'
  BY <1>1 DEF Own, Committed, Running
<1>3. JournalEnd' = JournalEnd
  BY <1>1, <1>2, EndWithoutBatch
<1>4. Floor' = Floor /\ (Virgin' <=> Virgin)
  BY <1>1, <1>3 DEF Floor, Virgin
<1>5. Layout' /\ Cuts'
  BY <1>1, <1>2, <1>3, <1>4 DEF Recoverable, Layout, Cuts
<1>6. Cutoffs'
  <2>1. ck'.cutoff = 0
    BY <1>1 DEF NoCkpt
  <2>2. /\ ckpt'.cutoff <= Floor' /\ Boundary(wal', ckpt'.cutoff)
        /\ TRUE \notin FuzzyModes => ckpt'.cutoff = 0
        /\ ckpt'.cutoff > 0 => ckpt'.lsn > 0 /\ ckpt'.state = "ok"
    BY <1>1, <1>4 DEF Recoverable, Cutoffs
  <2>3. ~(ck'.cutoff > 0)
    BY <2>1
  <2> QED
    BY <1>1, <1>2, <2>1, <2>2, <2>3 DEF Cutoffs
<1>7. SlotsBacked'
  BY <1>1, <1>4 DEF Recoverable, SlotsBacked
<1>8. Quiet' /\ Applies' /\ Replays' /\ Stages'
  BY <1>1, <1>2 DEF Quiet, Applies, Replays, Stages, Applying, Committings
<1> QED
  BY <1>5, <1>6, <1>7, <1>8 DEF Recoverable

LEMMA SlotsRefusedRecoverable ==
  ASSUME IInv, IInv', Recoverable, SlotsRefused
  PROVE  Recoverable'
<1>1. /\ pc = "down" /\ pc' = "down" /\ wal' = wal /\ walSynced' = walSynced
      /\ main' = Overlay(main, SlotImages) /\ mainSynced' = main' /\ main[0] # Absent
      /\ ckpt' = ckpt /\ ck' = NoCkpt /\ dwb' = dwb
      /\ history' = history /\ batch' = None /\ pending' = <<>> /\ batch = None
  BY DEF SlotsRefused, Closed, ghosts, IInv, Control
<1>2. ~Own /\ ~Own' /\ Committed' = Committed /\ ~Running /\ ~Running'
  BY <1>1 DEF Own, Committed, Running
<1>3. JournalEnd' = JournalEnd
  BY <1>1, <1>2, EndWithoutBatch
<1>4. Floor' = Floor /\ ~Virgin
  BY <1>1, <1>3, PageIds DEF Floor, Virgin, EmptyFile
<1>5. /\ Safe(wal, Floor, JournalEnd, history, ckpt.cutoff, main)
      /\ Kept(wal, Floor, JournalEnd, history)
  BY <1>4 DEF Recoverable, Cuts
<1>6. Safe(wal, Floor, JournalEnd, history, ckpt.cutoff, main')
  <2>1. \A p \in PageId : main'[p] = main[p] \/ Written(wal, ckpt.cutoff, Floor, p)
    BY <1>1, SlotsWritten DEF Overlay
  <2> QED
    BY <1>5, <2>1, Bounds, SafeWritten
<1>7. Layout' /\ Cuts'
  BY <1>1, <1>2, <1>3, <1>4, <1>5, <1>6 DEF Recoverable, Layout, Cuts
<1>8. Cutoffs'
  <2>1. ck'.cutoff = 0
    BY <1>1 DEF NoCkpt
  <2>2. /\ ckpt'.cutoff <= Floor' /\ Boundary(wal', ckpt'.cutoff)
        /\ TRUE \notin FuzzyModes => ckpt'.cutoff = 0
        /\ ckpt'.cutoff > 0 => ckpt'.lsn > 0 /\ ckpt'.state = "ok"
    BY <1>1, <1>4 DEF Recoverable, Cutoffs
  <2>3. ~(ck'.cutoff > 0)
    BY <2>1
  <2> QED
    BY <1>1, <1>2, <2>1, <2>2, <2>3 DEF Cutoffs
<1>9. SlotsBacked'
  BY <1>1, <1>4 DEF Recoverable, SlotsBacked
<1>10. Quiet' /\ Applies' /\ Replays' /\ Stages'
  BY <1>1, <1>2 DEF Quiet, Applies, Replays, Stages, Applying, Committings
<1> QED
  BY <1>7, <1>8, <1>9, <1>10 DEF Recoverable


-----------------------------------------------------------------------------
(* Steps on an open file that only change the operation in progress.        *)

LEMMA SteadyKeeps ==
  ASSUME IInv, IInv', Recoverable, Steady, Running, Running', pc' \notin Applying,
         main' = main, mainSynced' = mainSynced, mode' = mode, Fitting(wal'),
         ~Own' => JournalEnd' = Len(wal'),
         pc' = "broken" \/ (pc \notin Applying \cup {"broken"} /\ pending' = pending)
  PROVE  Layout' /\ Cuts' /\ (dwb' = dwb => SlotsBacked') /\ Quiet' /\ Applies' /\ Replays'
<1>1. /\ Parsed(wal', JournalEnd') /\ Kept(wal', Floor', JournalEnd', history')
      /\ \A file : Safe(wal, Floor, JournalEnd, history, ckpt.cutoff, file) =>
           Safe(wal', Floor', JournalEnd', history', ckpt'.cutoff, file)
      /\ Settled(wal, JournalEnd, Floor) => Settled(wal', JournalEnd', Floor')
      /\ \A p : Written(wal, ckpt.cutoff, Floor, p) => Written(wal', ckpt'.cutoff, Floor', p)
      /\ \A q : Backed(wal, ckpt.cutoff, JournalEnd, q) =>
           Backed(wal', ckpt'.cutoff, JournalEnd', q)
  BY SteadyJournal
<1>2. pc \notin Reopening \cup {"down"} /\ pc' \notin Reopening \cup {"down"}
  BY DEF Running
<1>3. Layout'
  BY <1>1 DEF Recoverable, Layout
<1>4. Cuts'
  BY <1>1, <1>2 DEF Recoverable, Cuts, Virgin
<1>5. ASSUME dwb' = dwb PROVE SlotsBacked'
  <2>1. \A s \in Slots : dwb'[s] # None /\ dwb'[s].whole =>
          Written(wal', ckpt'.cutoff, Floor', dwb'[s].id)
    BY <1>1, <1>5 DEF Recoverable, SlotsBacked
  <2>2. pc' = "broken" \/ dwb = NoSlots
    BY <1>2 DEF Recoverable, SlotsBacked, Applying, Reopening
  <2> QED
    BY <1>2, <1>5, <2>1, <2>2 DEF Recoverable, SlotsBacked, Applying, Reopening
<1>6. Quiet'
  <2>1. CASE pc' = "broken"
    BY <2>1 DEF Quiet
  <2>2. CASE pc \notin Applying \cup {"broken"} /\ pending' = pending
    <3>1. /\ main = mainSynced /\ Leads(main, pending, Committed)
          /\ Backed(wal, ckpt.cutoff, JournalEnd, pending)
      BY <1>2, <2>2 DEF Recoverable, Quiet
    <3>2. Committed' = Committed
      BY DEF Steady, Committed
    <3>3. Leads(main', pending', Committed') /\ Backed(wal', ckpt'.cutoff, JournalEnd', pending')
      BY <1>1, <2>2, <3>1, <3>2
    <3> QED
      BY <3>1, <3>3 DEF Quiet
  <2> QED
    BY <2>1, <2>2
<1>7. Applies' /\ Replays'
  BY <1>2 DEF Applies, Replays, Reopening
<1> QED
  BY <1>3, <1>4, <1>5, <1>6, <1>7

\* An open batch is not published while the page file is idle.
LEMMA BatchIsOwn ==
  ASSUME IInv, Recoverable, batch # None, pc = "idle"
  PROVE  /\ Own /\ batch \in Batch /\ ~batch.published /\ JournalEnd = batch.start
         /\ batch.start \in Nat /\ batch.start <= Len(wal) /\ Running
         /\ ~batch.doomed => Len(wal) = batch.start
<1>1. Own /\ batch \in Batch /\ ~batch.published
  BY DEF Recoverable, Stages, Own, Applying, IInv, TypeOK, MemoryOK
<1>2. batch.start \in Nat /\ JournalEnd = batch.start
  BY <1>1 DEF Batch, JournalEnd
<1>3. batch.start <= Len(wal) /\ (~batch.doomed => Len(wal) = batch.start)
  BY <1>1 DEF IInv, OwnBlocks, Committings
<1> QED
  BY <1>1, <1>2, <1>3 DEF Running, Reopening

\* what a step on the pages of a batch leaves of it
SameBatch(a, b) ==
  a \in Batch /\ a.start = b.start /\ a.lsn = b.lsn /\ a.published = b.published
Restaged == SameBatch(batch', batch)

LEMMA StagingRecoverable ==
  ASSUME IInv, IInv', Recoverable, Working, Restaged, UNCHANGED <<disk, history>>,
         pc' = pc, mode' = mode, pending' = pending, ck' = ck, nextLsn' = nextLsn
  PROVE  Recoverable'
<1>1. /\ pc = "idle" /\ batch # None /\ ~batch.doomed /\ batch' # None
      /\ wal' = wal /\ walSynced' = walSynced /\ main' = main /\ mainSynced' = mainSynced
      /\ dwb' = dwb /\ ckpt' = ckpt /\ history' = history
  BY NoneAssumption DEF Working, InBatch, Restaged, SameBatch, disk
<1>2. /\ Own /\ JournalEnd = batch.start /\ Len(wal) = batch.start /\ Running
      /\ ~batch.published
  BY <1>1, BatchIsOwn
<1>3. Own' /\ JournalEnd' = JournalEnd /\ Running'
  BY <1>1, <1>2 DEF Own, Restaged, SameBatch, JournalEnd, Running
<1>4. /\ JournalEnd \in Nat /\ Floor \in Nat /\ Floor <= JournalEnd /\ ckpt.cutoff \in Nat
  BY Bounds
<1>5. Floor' = Floor
  BY <1>1, <1>3 DEF Floor
<1>6. Steady
  BY <1>1, <1>3, <1>4, <1>5 DEF Steady, SamePrefix
<1>7. Fitting(wal')
  BY <1>1 DEF Recoverable, Layout
<1>8. Layout' /\ Cuts' /\ SlotsBacked' /\ Quiet' /\ Applies' /\ Replays'
  BY <1>1, <1>2, <1>3, <1>6, <1>7, SteadyKeeps DEF Applying
<1>9. Cutoffs'
  BY <1>1, <1>2, <1>3, <1>5 DEF Recoverable, Cutoffs, Restaged, SameBatch
<1>10. Stages'
  <2>1. pending = <<>> => walSynced = Len(wal)
    BY <1>1, <1>2 DEF Recoverable, Stages
  <2> QED
    BY <1>1, <1>2, <1>3, <2>1 DEF Stages, Restaged, SameBatch, Own, Applying, Committings
<1> QED
  BY <1>8, <1>9, <1>10 DEF Recoverable

LEMMA StageFields ==
  ASSUME NEW b \in Batch, NEW p \in PageId, NEW content \in Content
  PROVE  /\ Stage(b, p, content) \in Batch
         /\ Stage(b, p, content).start = b.start /\ Stage(b, p, content).lsn = b.lsn
         /\ Stage(b, p, content).published = b.published
         /\ Stage(b, p, content).doomed = b.doomed /\ Stage(b, p, content).touched = TRUE
         /\ Stage(b, p, content).count = b.count /\ Stage(b, p, content).active = b.active
         /\ Stage(b, p, content).free = b.free
BY StageType DEF Stage, Batch, PageMap

LEMMA StagePages ==
  ASSUME NEW b \in Batch, NEW p \in PageId, NEW content \in Content
  PROVE  Stage(b, p, content).pages = [b.pages EXCEPT ![p] = content]
BY StageType DEF Stage, Batch, PageMap

LEMMA DoomFields ==
  ASSUME NEW b \in Batch, NEW s, s = [b EXCEPT !.doomed = TRUE]
  PROVE  /\ s \in Batch /\ s.start = b.start /\ s.lsn = b.lsn /\ s.published = b.published
         /\ s.doomed = TRUE /\ s.touched = b.touched /\ s.pages = b.pages
         /\ s.count = b.count /\ s.active = b.active /\ s.free = b.free
BY DoomType DEF Batch

LEMMA StageSame ==
  ASSUME NEW b \in Batch
  PROVE  /\ SameBatch([b EXCEPT !.doomed = TRUE], b)
         /\ \A p \in PageId, content \in Content : SameBatch(Stage(b, p, content), b)
<1>1. SameBatch([b EXCEPT !.doomed = TRUE], b)
  BY DoomFields DEF SameBatch
<1>2. ASSUME NEW p \in PageId, NEW content \in Content
      PROVE  SameBatch(Stage(b, p, content), b)
  BY StageType DEF Stage, Batch, PageMap, SameBatch
<1> QED
  BY <1>1, <1>2

\* The steps on the pages of a batch leave the rest of it.
LEMMA ChangingRestaged ==
  ASSUME IInv, IInv', Write \/ AllocateReused \/ AllocateAppended \/ Release \/ RestoreSavepoint
  PROVE  Working /\ Restaged /\ BatchOnly
<1>1. Working /\ BatchOnly /\ batch \in Batch /\ active \in [PageId -> Nat] /\ count \in Nat
      /\ free \in Seq(Ref)
  BY DEF Write, AllocateReused, AllocateAppended, Release, RestoreSavepoint, Working, InBatch,
     IInv, TypeOK, MemoryOK
<1>2. /\ SameBatch([batch EXCEPT !.doomed = TRUE], batch)
      /\ \A p \in PageId, content \in Content : SameBatch(Stage(batch, p, content), batch)
  BY <1>1, StageSame
<1>3. CASE Write
  <2>1. PICK p \in PageId, v \in Vals :
          batch' = IF Fits(batch, p) THEN Stage(batch, p, Data(active[p], v))
                   ELSE [batch EXCEPT !.doomed = TRUE]
    BY <1>3 DEF Write
  <2>2. Data(active[p], v) \in Content
    BY <1>1, FixedContents
  <2> QED
    BY <1>1, <1>2, <2>1, <2>2 DEF Restaged
<1>4. CASE AllocateReused
  <2> DEFINE ref == free[Len(free)]
  <2>1. PICK v \in Vals :
          batch' \in {Stage(batch, ref.id, Data(Reused(ref), v)), [batch EXCEPT !.doomed = TRUE]}
    BY <1>4 DEF AllocateReused
  <2>2. ref.id \in PageId /\ Reused(ref) \in Nat
    <3>1. free # <<>>
      BY <1>4 DEF AllocateReused
    <3>2. ref \in Ref
      BY <1>1, <3>1
    <3> QED
      BY <3>2 DEF Ref, Reused
  <2>3. Data(Reused(ref), v) \in Content
    BY <2>2, FixedContents
  <2> QED
    BY <1>1, <1>2, <2>1, <2>2, <2>3 DEF Restaged
<1>5. CASE AllocateAppended
  <2>1. PICK v \in Vals :
          LET data == Stage(batch, count, Data(1, v)) IN
          batch' \in {[batch EXCEPT !.doomed = TRUE], Stage(data, 0, Header(count + 1)),
                      [data EXCEPT !.doomed = TRUE]}
    BY <1>5 DEF AllocateAppended
  <2> DEFINE data == Stage(batch, count, Data(1, v))
  <2>2. count \in PageId /\ 0 \in PageId
    BY <1>1, <1>5, PageFileAssumption DEF AllocateAppended, PageId
  <2>3. Data(1, v) \in Content /\ Header(count + 1) \in Content
    BY <1>1, FixedContents
  <2>4. data \in Batch /\ SameBatch(data, batch)
    BY <1>1, <1>2, <2>2, <2>3 DEF SameBatch
  <2> HIDE DEF data
  <2>5. /\ SameBatch(Stage(data, 0, Header(count + 1)), data)
        /\ SameBatch([data EXCEPT !.doomed = TRUE], data)
    BY <2>2, <2>3, <2>4, StageSame
  <2>6. \A b : SameBatch(b, data) => SameBatch(b, batch)
    BY <2>4 DEF SameBatch
  <2> QED
    BY <1>1, <1>2, <2>1, <2>5, <2>6 DEF Restaged, data
<1>6. CASE Release
  <2>1. PICK p \in PageId :
          batch' \in {Stage(batch, p, Free(active[p])), [batch EXCEPT !.doomed = TRUE]}
    BY <1>6 DEF Release
  <2>2. Free(active[p]) \in Content
    BY <1>1, FixedContents
  <2> QED
    BY <1>1, <1>2, <2>1, <2>2 DEF Restaged
<1>7. CASE RestoreSavepoint
  <2>1. batch' = [batch EXCEPT !.pages = snapshot.pages] /\ snapshot \in Saved
    BY <1>7 DEF RestoreSavepoint, IInv, TypeOK, MemoryOK
  <2> QED
    BY <1>1, <2>1 DEF Restaged, SameBatch, Batch, Saved
<1> QED
  BY <1>3, <1>4, <1>5, <1>6, <1>7

LEMMA ChangingRecoverable ==
  ASSUME IInv, IInv', Recoverable,
         \/ Write \/ AllocateReused \/ AllocateAppended \/ Release \/ RestoreSavepoint
         \/ TakeSavepoint
  PROVE  Recoverable'
<1>1. CASE TakeSavepoint
  <2>1. Working /\ Restaged
    BY <1>1 DEF TakeSavepoint, Working, InBatch, Restaged, SameBatch, IInv, TypeOK, MemoryOK
  <2> QED
    BY <1>1, <2>1, StagingRecoverable DEF TakeSavepoint, lsns, ghosts
<1>2. CASE Write \/ AllocateReused \/ AllocateAppended \/ Release \/ RestoreSavepoint
  <2>1. Working /\ Restaged /\ BatchOnly
    BY <1>2, ChangingRestaged
  <2> QED
    BY <2>1, StagingRecoverable DEF BatchOnly, lsns, ghosts
<1> QED
  BY <1>1, <1>2


-----------------------------------------------------------------------------
(* A batch begins, ends, is rolled back.                                    *)

\* where no batch is open the journal is whole
LEMMA WholeJournal ==
  ASSUME IInv, Recoverable, Running, ~Own
  PROVE  JournalEnd = Len(wal) /\ Parsed(wal, Len(wal)) /\ (pc # "recycle" => Floor = walSynced)
<1>1. JournalEnd = Len(wal) /\ Parsed(wal, JournalEnd)
  BY DEF Recoverable, Layout
<1>2. pc # "recycle" => Floor = walSynced
  BY <1>1, Bounds DEF Smaller
<1> QED
  BY <1>1, <1>2

LEMMA BeginRecoverable ==
  ASSUME IInv, IInv', Recoverable, Begin
  PROVE  Recoverable'
<1>1. /\ pc = "idle" /\ batch = None /\ pc' = pc /\ main' = main /\ mainSynced' = main
      /\ wal' = wal /\ walSynced' = walSynced /\ dwb' = dwb /\ ckpt' = ckpt /\ ck' = ck
      /\ history' = history /\ mode' = mode /\ pending' = pending /\ nextLsn' = nextLsn
  BY DEF Begin, Idle, lsns, ghosts
<1>2. /\ batch' \in Batch /\ batch'.start = Len(wal) /\ batch'.lsn = nextLsn
      /\ ~batch'.published /\ batch' # None
  <2>1. /\ batch' = [count |-> count, active |-> active, free |-> free,
                     pages |-> NoPages, start |-> Len(wal), lsn |-> nextLsn,
                     touched |-> FALSE, published |-> FALSE, doomed |-> FALSE]
        /\ count \in Nat /\ active \in [PageId -> Nat] /\ free \in Seq(Ref)
        /\ Len(wal) \in Nat /\ nextLsn \in Nat /\ NoPages \in PageMap
    BY EmptyFileType DEF Begin, IInv, TypeOK, DiskOK, MemoryOK
  <2>2. batch' \in Batch
    BY <2>1 DEF Batch
  <2> QED
    BY <2>1, <2>2, NoneAssumption
<1>3. ~Own /\ Own' /\ Running /\ Running'
  BY <1>1, <1>2 DEF Own, Running, Reopening
<1>4. JournalEnd = Len(wal) /\ JournalEnd' = Len(wal)
  BY <1>2, <1>3, WholeJournal DEF JournalEnd
<1>5. /\ JournalEnd \in Nat /\ Floor \in Nat /\ Floor <= JournalEnd /\ ckpt.cutoff \in Nat
  BY Bounds
<1>6. Floor' = Floor
  BY <1>1, <1>4 DEF Floor
<1>7. Steady
  BY <1>1, <1>4, <1>5, <1>6 DEF Steady, SamePrefix
<1>8. main = mainSynced /\ Fitting(wal)
  BY <1>1 DEF Recoverable, Quiet, Layout, Applying, Reopening
<1>9. Layout' /\ Cuts' /\ SlotsBacked' /\ Quiet' /\ Applies' /\ Replays'
  BY <1>1, <1>3, <1>7, <1>8, SteadyKeeps DEF Applying
<1>10. Cutoffs'
  <2>1. nextLsn > 0
    BY DEF IInv, TypeOK, MemoryOK
  <2> QED
    BY <1>1, <1>2, <1>3, <1>4, <1>6, <2>1 DEF Recoverable, Cutoffs
<1>11. Stages'
  <2>1. pending = <<>> => walSynced = Len(wal)
    BY <1>1 DEF Recoverable, Stages
  <2> QED
    BY <1>1, <1>2, <1>3, <2>1 DEF Stages, Applying, Committings
<1> QED
  BY <1>9, <1>10, <1>11 DEF Recoverable

LEMMA CommitEmptyRecoverable ==
  ASSUME IInv, IInv', Recoverable, CommitEmpty
  PROVE  Recoverable'
<1>1. /\ pc = "idle" /\ batch # None /\ ~batch.doomed /\ batch' = None /\ pc' = pc
      /\ main' = main /\ mainSynced' = mainSynced
      /\ wal' = wal /\ walSynced' = walSynced /\ dwb' = dwb /\ ckpt' = ckpt /\ ck' = ck
      /\ history' = history /\ mode' = mode /\ pending' = pending /\ nextLsn' = nextLsn
  BY DEF CommitEmpty, Working, InBatch, disk, lsns, ghosts
<1>2. /\ Own /\ JournalEnd = batch.start /\ Len(wal) = batch.start /\ Running
      /\ ~Own' /\ Running'
  BY <1>1, BatchIsOwn DEF Own, Running, Reopening
<1>3. Parsed(wal, JournalEnd) /\ Fitting(wal)
  BY DEF Recoverable, Layout
<1>4. /\ JournalEnd \in Nat /\ Floor \in Nat /\ Floor <= JournalEnd /\ ckpt.cutoff \in Nat
      /\ Len(wal) \in Nat
  BY Bounds
<1>5. JournalEnd' = JournalEnd /\ JournalEnd' = Len(wal')
  BY <1>1, <1>2, <1>3, <1>4, LastMarkWhole DEF JournalEnd
<1>6. Floor' = Floor
  BY <1>1, <1>5 DEF Floor
<1>7. Steady
  BY <1>1, <1>4, <1>5, <1>6 DEF Steady, SamePrefix
<1>9. Layout' /\ Cuts' /\ SlotsBacked' /\ Quiet' /\ Applies' /\ Replays'
  BY <1>1, <1>2, <1>3, <1>5, <1>7, SteadyKeeps DEF Applying
<1>10. Cutoffs'
  BY <1>1, <1>2, <1>5, <1>6 DEF Recoverable, Cutoffs
<1>11. Stages'
  <2>1. pending = <<>> => walSynced = Len(wal)
    BY <1>1, <1>2 DEF Recoverable, Stages
  <2> QED
    BY <1>1, <1>2, <2>1 DEF Stages, Applying, Committings
<1> QED
  BY <1>9, <1>10, <1>11 DEF Recoverable

LEMMA SyncAbortRecoverable ==
  ASSUME IInv, IInv', Recoverable, SyncAbort
  PROVE  Recoverable'
<1>1. /\ pc = "aborting" /\ pc' = "idle" /\ walSynced' = Len(wal) /\ batch' = batch
      /\ main' = main /\ mainSynced' = mainSynced /\ wal' = wal /\ dwb' = dwb
      /\ ckpt' = ckpt /\ ck' = ck
      /\ history' = history /\ mode' = mode /\ pending' = pending /\ nextLsn' = nextLsn
  BY DEF SyncAbort, lsns
<1>2. batch = None
  BY <1>1 DEF Recoverable, Stages
<1>3. ~Own /\ ~Own' /\ Running /\ Running'
  BY <1>1, <1>2 DEF Own, Running, Reopening
<1>4. JournalEnd = Len(wal) /\ JournalEnd' = Len(wal) /\ Floor <= Len(wal)
      /\ Floor \in Nat /\ ckpt.cutoff \in Nat /\ Len(wal) \in Nat
  BY <1>1, <1>3, WholeJournal, EndWithoutBatch, Bounds
<1>5. Floor' = Len(wal)
  BY <1>1, <1>4 DEF Floor, Smaller
<1>6. Steady /\ Fitting(wal)
  BY <1>1, <1>4, <1>5 DEF Steady, SamePrefix, Recoverable, Layout
<1>7. Layout' /\ Cuts' /\ SlotsBacked' /\ Quiet' /\ Applies' /\ Replays'
  BY <1>1, <1>3, <1>4, <1>6, SteadyKeeps DEF Applying
<1>8. Cutoffs'
  <2>1. ckpt.cutoff <= Len(wal)
    BY <1>1, <1>4 DEF Recoverable, Cutoffs
  <2> QED
    BY <1>1, <1>2, <1>3, <1>4, <1>5, <2>1 DEF Recoverable, Cutoffs
<1>9. Stages'
  BY <1>1, <1>2, <1>3 DEF Stages, Applying, Committings
<1> QED
  BY <1>7, <1>8, <1>9 DEF Recoverable

LEMMA TwoAppended ==
  ASSUME NEW S, NEW s \in Seq(S), NEW a \in S, NEW b \in S
  PROVE  /\ Len(s \o <<a, b>>) = Len(s) + 2
         /\ \A i \in 1 .. Len(s) : (s \o <<a, b>>)[i] = s[i]
         /\ (s \o <<a, b>>)[Len(s) + 1] = a /\ (s \o <<a, b>>)[Len(s) + 2] = b
<1>1. <<a, b>> \in Seq(S) /\ Len(<<a, b>>) = 2 /\ <<a, b>>[1] = a /\ <<a, b>>[2] = b
  OBVIOUS
<1> QED
  BY <1>1, ConcatProperties

LEMMA RollbackRecoverable ==
  ASSUME IInv, IInv', Recoverable, Rollback
  PROVE  Recoverable'
<1>1. /\ pc = "idle" /\ batch # None /\ batch' = None
      /\ main' = main /\ mainSynced' = mainSynced /\ dwb' = dwb
      /\ walSynced' = Smaller(walSynced, Len(JournalBefore(batch)))
      /\ ckpt' = ckpt /\ ck' = ck
      /\ history' = history /\ mode' = mode /\ pending' = pending
  BY DEF Rollback, InBatch, ghosts
<1>2. /\ Own /\ batch \in Batch /\ JournalEnd = batch.start /\ batch.start \in Nat
      /\ batch.start <= Len(wal) /\ Running /\ ~Own' /\ batch.lsn > 0
  BY <1>1, BatchIsOwn DEF Own, Recoverable, Cutoffs
<1>3. /\ wal \in Seq(Block) /\ Len(wal) \in Nat /\ walSynced \in Nat
      /\ Floor \in Nat /\ Floor <= JournalEnd /\ ckpt.cutoff \in Nat
      /\ Floor = Smaller(walSynced, batch.start)
  BY <1>1, <1>2, Bounds
<1> DEFINE before == JournalBefore(batch)
<1>4. /\ before \in Seq(Block) /\ Len(before) = batch.start
      /\ \A i \in 1 .. batch.start : before[i] = wal[i]
  BY <1>2, <1>3 DEF JournalBefore, Smaller
<1>5. Parsed(wal, JournalEnd) /\ Fitting(wal) /\ Kept(wal, Floor, JournalEnd, history)
  BY DEF Recoverable, Layout, Cuts
<1>6. walSynced' = Floor
  BY <1>1, <1>3, <1>4
<1> HIDE DEF before
<1>7. CASE ~batch.touched
  <2>1. wal' = before /\ nextLsn' = nextLsn /\ pc' = pc
    BY <1>7 DEF Rollback, before
  <2>2. Len(wal) = batch.start
    BY <1>2, <1>7 DEF Recoverable, Stages, OwnExtent
  <2>3. wal' = wal
    BY <1>3, <1>4, <2>1, <2>2
  <2>4. JournalEnd' = JournalEnd /\ JournalEnd' = Len(wal')
    BY <1>2, <1>3, <1>5, <2>2, <2>3, LastMarkWhole DEF JournalEnd
  <2>5. Floor' = Floor
    BY <1>1, <1>2, <1>3, <1>6, <2>1, <2>4 DEF Floor, Smaller
  <2>6. Steady /\ Running'
    BY <1>1, <1>3, <2>1, <2>3, <2>4, <2>5 DEF Steady, SamePrefix, Running, Reopening
  <2>7. Layout' /\ Cuts' /\ SlotsBacked' /\ Quiet' /\ Applies' /\ Replays'
    BY <1>1, <1>2, <1>5, <2>1, <2>3, <2>4, <2>6, SteadyKeeps DEF Applying
  <2>8. Cutoffs'
    BY <1>1, <1>2, <2>1, <2>3, <2>4, <2>5, <2>6 DEF Recoverable, Cutoffs
  <2>9. Stages'
    <3>1. pending = <<>> => walSynced = Len(wal)
      BY <1>1, <2>2 DEF Recoverable, Stages
    <3>2. walSynced = Len(wal) => walSynced' = Len(wal')
      BY <1>3, <1>6, <2>2, <2>3 DEF Smaller
    <3> QED
      BY <1>1, <1>2, <2>1, <3>1, <3>2 DEF Stages, Applying, Committings
  <2> QED
    BY <2>7, <2>8, <2>9 DEF Recoverable
<1>8. CASE batch.touched
  <2> DEFINE e == batch.start
  <2>1. /\ wal' = before \o <<AbortBlock(batch.lsn), Mark(0)>>
        /\ nextLsn' = Larger(nextLsn, batch.lsn + 1) /\ pc' = "aborting"
    BY <1>8 DEF Rollback, before
  <2>2. /\ Len(wal') = e + 2 /\ SamePrefix(wal, wal', e)
        /\ wal'[e + 1] = AbortBlock(batch.lsn) /\ wal'[e + 2] = Mark(0)
        /\ \A i \in 1 .. Len(wal') : i <= e \/ i = e + 1 \/ i = e + 2
    <3>1. AbortBlock(batch.lsn) \in Block /\ Mark(0) \in Block
      BY <1>2, FixedBlocks DEF Batch
    <3>2. /\ Len(wal') = Len(before) + 2 /\ \A i \in 1 .. Len(before) : wal'[i] = before[i]
          /\ wal'[Len(before) + 1] = AbortBlock(batch.lsn) /\ wal'[Len(before) + 2] = Mark(0)
      <4> DEFINE a == AbortBlock(batch.lsn)
                 m == Mark(0)
      <4>1. a \in Block /\ m \in Block /\ wal' = before \o <<a, m>>
        BY <2>1, <3>1
      <4> HIDE DEF a, m
      <4>2. /\ Len(wal') = Len(before) + 2 /\ \A i \in 1 .. Len(before) : wal'[i] = before[i]
            /\ wal'[Len(before) + 1] = a /\ wal'[Len(before) + 2] = m
        BY <1>4, <4>1, TwoAppended
      <4> QED
        BY <4>2 DEF a, m
    <3>3. /\ Len(wal') = e + 2 /\ \A i \in 1 .. e : wal'[i] = wal[i]
          /\ wal'[e + 1] = AbortBlock(batch.lsn) /\ wal'[e + 2] = Mark(0)
      BY <1>4, <3>2
    <3>4. \A i \in 1 .. Len(wal') : i <= e \/ i = e + 1 \/ i = e + 2
      BY <1>2, <3>3
    <3> QED
      BY <3>3, <3>4 DEF SamePrefix
  <2>3. /\ wal'[e + 1].kind = "abort" /\ wal'[e + 2].kind = "mark" /\ wal'[e + 2].seq = 0
    BY <2>2 DEF AbortBlock, Mark
  <2> HIDE DEF e
  <2>4. e \in Nat /\ JournalEnd = e /\ e + 2 \in Nat /\ e <= Len(wal)
    BY <1>2 DEF e
  <2>5. /\ Parsed(wal', e + 2)
        /\ \A m \in e .. e + 2 : Redos(wal', m) = Redos(wal, e) /\ \A i \in Redos(wal, e) : wal'[i] = wal[i]
    BY <1>5, <2>2, <2>3, <2>4, AbortAppended
  <2>6. JournalEnd' = e + 2 /\ Len(wal') = e + 2
    BY <1>2, <2>2, <2>4, <2>5, LastMarkWhole DEF JournalEnd
  <2>7. Floor' = Floor
    BY <1>3, <1>6, <2>1, <2>4, <2>6 DEF Floor, Smaller
  <2>8. /\ Kept(wal', Floor, e + 2, history)
        /\ \A from, file : Safe(wal, Floor, e, history, from, file) =>
             Safe(wal', Floor, e + 2, history, from, file)
    BY <1>3, <1>5, <2>2, <2>3, <2>4, KeptAbort
  <2>9. Redos(wal', e + 2) = Redos(wal, e) /\ \A i \in Redos(wal, e) : wal'[i] = wal[i]
    BY <2>4, <2>5
  <2>10. Fitting(wal')
    <3>1. \A i \in 1 .. Len(wal') : wal'[i].kind = "redo" => wal'[i] = wal[i] /\ i \in 1 .. Len(wal)
      BY <2>2, <2>3, <2>4 DEF SamePrefix, Mark
    <3> QED
      BY <1>5, <3>1, FittingBlocks
  <2>11. pc' # "recycle" /\ Running' /\ pc' \notin Applying
    BY <2>1 DEF Running, Reopening, Applying
  <2>12. Layout'
    <3>1. Settled(wal, e, Floor) => Settled(wal', e + 2, Floor)
      BY <2>9, SettledSame
    <3> QED
      BY <1>1, <1>2, <2>4, <2>5, <2>6, <2>7, <2>10, <2>11, <3>1 DEF Recoverable, Layout
  <2>13. Cuts'
    <3>1. ~Virgin
      BY <1>1 DEF Virgin
    <3> QED
      BY <1>1, <2>4, <2>6, <2>7, <2>8, <3>1 DEF Recoverable, Cuts
  <2>14. SlotsBacked'
    <3>1. dwb = NoSlots
      BY <1>1 DEF Recoverable, SlotsBacked
    <3> QED
      BY <1>1, <2>1, <3>1 DEF Recoverable, SlotsBacked, NoSlots
  <2>15. Quiet'
    <3>1. /\ main = mainSynced /\ Leads(main, pending, Committed)
          /\ Backed(wal, ckpt.cutoff, JournalEnd, pending) /\ Committed' = Committed
      BY <1>1 DEF Recoverable, Quiet, Applying, Reopening, Committed
    <3>2. \A p : Written(wal', ckpt.cutoff, e + 2, p) <=> Written(wal, ckpt.cutoff, e, p)
      BY <2>9, SameRedos
    <3>3. Backed(wal', ckpt.cutoff, e + 2, pending)
      BY <2>4, <3>1, <3>2 DEF Backed
    <3> QED
      BY <1>1, <2>6, <3>1, <3>3 DEF Quiet
  <2>16. Applies' /\ Replays'
    BY <2>1 DEF Applies, Replays, Applying
  <2>17. Cutoffs'
    <3>1. /\ ckpt.cutoff <= Floor /\ Boundary(wal, ckpt.cutoff)
          /\ nextLsn > ck.lsn
      BY <1>1 DEF Recoverable, Cutoffs
    <3>2. Boundary(wal', ckpt.cutoff)
      BY <1>3, <2>2, <2>4, <3>1 DEF Boundary, SamePrefix
    <3>3. nextLsn' > ck.lsn /\ nextLsn' > 1
      <4>1. nextLsn \in Nat /\ batch.lsn \in Nat /\ ck.lsn \in Nat /\ batch.lsn > 0
        BY <1>2 DEF IInv, TypeOK, MemoryOK, Batch, Record
      <4>2. nextLsn' >= nextLsn /\ nextLsn' >= batch.lsn + 1 /\ nextLsn' \in Nat
        BY <2>1, <4>1 DEF Larger
      <4>3. nextLsn > ck.lsn
        BY <3>1
      <4> QED
        BY <4>1, <4>2, <4>3
    <3> QED
      BY <1>1, <2>1, <2>7, <3>1, <3>2, <3>3 DEF Recoverable, Cutoffs
  <2>18. Stages'
    <3>1. walSynced' <= Len(wal') - 2
      BY <1>3, <1>6, <2>2, <2>4
    <3> QED
      BY <1>1, <1>2, <2>1, <3>1 DEF Stages, Applying, Committings
  <2> QED
    BY <2>12, <2>13, <2>14, <2>15, <2>16, <2>17, <2>18 DEF Recoverable
<1> QED
  BY <1>7, <1>8


-----------------------------------------------------------------------------
(* The commit protocol up to the marker.                                    *)

\* The pages a batch has staged are pages of the file it leaves.
LEMMA StagedBelow ==
  ASSUME IInv, Recoverable, Allocated, batch # None, pc = "idle", ~batch.doomed
  PROVE  /\ count \in 1 .. MaxPages
         /\ \A p \in PageId : batch.pages[p] # None => p < count
<1>1. Own
  BY BatchIsOwn
<1>2. Shown = Overlay(Committed, batch.pages) /\ Describes(Shown, count, active, free)
  BY <1>1 DEF Allocated, Showing, Shown, Reopening
<1>3. /\ Shape(Shown) /\ Shown[0].n = count /\ count \in 1 .. MaxPages
      /\ \A p \in PageId : p >= count => Shown[p] = Absent
  BY <1>2 DEF Describes, Shape
<1>4. ASSUME NEW p \in PageId, batch.pages[p] # None PROVE p < count
  <2>1. Shown[p] # Absent
    BY <1>1, <1>4 DEF Allocated, Holds
  <2>2. ~(p >= count)
    BY <1>3, <2>1
  <2> QED
    BY <1>3, <2>2, PageFileAssumption DEF PageId
<1> QED
  BY <1>3, <1>4

LEMMA JournalBlocks ==
  ASSUME NEW ext \in ExtentType, NEW lsn \in Nat, NEW s \in Nat
  PROVE  /\ BodyLength(ext.pages) \in Nat
         /\ Len(Journal(ext, lsn, s)) = BodyLength(ext.pages) + 1
         /\ Journal(ext, lsn, s)[1] = RedoBlock(ext, lsn, s)
         /\ \A i \in 2 .. BodyLength(ext.pages) + 1 : Journal(ext, lsn, s)[i] = Body
<1> DEFINE n == BodyLength(ext.pages)
           bodies == [i \in 1 .. n |-> Body]
<1>1. n \in Nat
  BY StagedCount DEF BodyLength
<1>2. bodies \in Seq({Body}) /\ Len(bodies) = n /\ \A i \in 1 .. n : bodies[i] = Body
  BY <1>1
<1> DEFINE S == {Body, RedoBlock(ext, lsn, s)}
<1>3. bodies \in Seq(S) /\ <<RedoBlock(ext, lsn, s)>> \in Seq(S)
  BY <1>1, <1>2
<1>4. Len(<<RedoBlock(ext, lsn, s)>>) = 1 /\ <<RedoBlock(ext, lsn, s)>>[1] = RedoBlock(ext, lsn, s)
  OBVIOUS
<1>5. Journal(ext, lsn, s) = <<RedoBlock(ext, lsn, s)>> \o bodies
  BY DEF Journal
<1> HIDE DEF bodies, S, n
<1>6. /\ Len(Journal(ext, lsn, s)) = n + 1
      /\ Journal(ext, lsn, s)[1] = RedoBlock(ext, lsn, s)
      /\ \A i \in 2 .. n + 1 : Journal(ext, lsn, s)[i] = bodies[i - 1]
  BY <1>1, <1>2, <1>3, <1>4, <1>5, ConcatProperties
<1>7. \A i \in 2 .. n + 1 : i - 1 \in 1 .. n
  BY <1>1
<1> QED
  BY <1>1, <1>2, <1>6, <1>7 DEF n

LEMMA CommitAppendRecoverable ==
  ASSUME IInv, IInv', Recoverable, Allocated, CommitAppend
  PROVE  Recoverable'
<1>1. /\ Working /\ pc = "idle" /\ batch # None /\ ~batch.doomed
      /\ main' = main /\ mainSynced' = mainSynced /\ walSynced' = walSynced
      /\ dwb' = dwb /\ ckpt' = ckpt /\ ck' = ck /\ seq' = seq /\ count' = count
      /\ history' = history /\ mode' = mode /\ pending' = pending /\ nextLsn' = nextLsn
  BY DEF CommitAppend, Working, InBatch, lsns, ghosts, allocation
<1>2. /\ Own /\ batch \in Batch /\ JournalEnd = batch.start /\ Len(wal) = batch.start /\ Running
      /\ batch.start \in Nat /\ ~batch.published
  BY <1>1, BatchIsOwn
<1>3. /\ count \in 1 .. MaxPages /\ \A p \in PageId : batch.pages[p] # None => p < count
      /\ seq \in Nat /\ count \in Nat /\ MaxPages \in Nat
  BY <1>1, StagedBelow, PageFileAssumption DEF IInv, TypeOK, MemoryOK
<1>4. /\ wal \in Seq(Block) /\ Len(wal) \in Nat
      /\ JournalEnd \in Nat /\ Floor \in Nat /\ Floor <= JournalEnd /\ ckpt.cutoff \in Nat
  BY Bounds
<1>5. CASE ~Fits(batch, 0)
  <2>1. batch' = [batch EXCEPT !.doomed = TRUE] /\ wal' = wal /\ pc' = pc
    BY <1>1, <1>5 DEF CommitAppend
  <2>2. Restaged
    BY <1>2, <2>1, StageSame DEF Restaged
  <2> QED
    BY <1>1, <2>1, <2>2, StagingRecoverable DEF disk
<1>6. CASE Fits(batch, 0)
  <2> DEFINE ext == [pages |-> batch'.pages, count |-> count]
  <2>1. /\ batch' = Stage(batch, 0, Header(count)) /\ pc' = "appended"
        /\ wal' = wal \o Journal(ext, batch.lsn, seq + 1)
    BY <1>6 DEF CommitAppend
  <2>2. 0 \in PageId /\ Header(count) \in Content
    BY <1>3, PageIds, FixedContents
  <2>3. /\ batch' \in Batch /\ batch'.start = batch.start /\ batch'.lsn = batch.lsn
        /\ ~batch'.published /\ ~batch'.doomed /\ batch'.touched = TRUE
        /\ batch'.pages = [batch.pages EXCEPT ![0] = Header(count)]
        /\ batch.lsn \in Nat /\ batch'.pages \in PageMap /\ batch.pages \in PageMap
        /\ batch' # None
    <3>1. /\ batch' \in Batch /\ batch'.start = batch.start /\ batch'.lsn = batch.lsn
          /\ batch'.published = batch.published /\ batch'.doomed = batch.doomed
          /\ batch'.touched = TRUE
          /\ batch'.pages = [batch.pages EXCEPT ![0] = Header(count)]
      <4> DEFINE t == Stage(batch, 0, Header(count))
      <4>1. /\ t \in Batch /\ t.start = batch.start /\ t.lsn = batch.lsn
            /\ t.published = batch.published /\ t.doomed = batch.doomed
            /\ t.touched = TRUE /\ t.pages = [batch.pages EXCEPT ![0] = Header(count)]
        <5>1. batch \in Batch
          BY <1>2
        <5>2. t \in Batch /\ t.start = batch.start /\ t.lsn = batch.lsn
          BY <5>1, <2>2, StageFields
        <5>3. t.published = batch.published /\ t.doomed = batch.doomed
          BY <5>1, <2>2, StageFields
        <5>4. t.touched = TRUE
          BY <5>1, <2>2, StageFields
        <5>5. t.pages = [batch.pages EXCEPT ![0] = Header(count)]
          BY <5>1, <2>2, StagePages
        <5> QED
          BY <5>2, <5>3, <5>4, <5>5
      <4>2. batch' = t
        BY <2>1
      <4> HIDE DEF t
      <4> QED
        BY <4>1, <4>2, Zenon
    <3> QED
      BY <1>1, <1>2, <3>1, NoneAssumption DEF Batch
  <2>4. ext \in ExtentType /\ ext.pages = batch'.pages /\ ext.count = count
    BY <1>3, <2>3 DEF ExtentType
  <2> HIDE DEF ext
  <2> DEFINE j == Journal(ext, batch.lsn, seq + 1)
             n == BodyLength(ext.pages)
  <2>5. /\ n \in Nat /\ Len(j) = n + 1 /\ j[1] = RedoBlock(ext, batch.lsn, seq + 1)
        /\ \A i \in 2 .. n + 1 : j[i] = Body
        /\ j \in Seq(Block)
    <3>1. seq + 1 \in Nat /\ batch.lsn \in Nat
      BY <1>3, <2>3
    <3> QED
      BY <2>4, <3>1, JournalBlocks, JournalType
  <2>6. wal' = wal \o j
    BY <2>1
  <2> HIDE DEF j, n
  <2> DEFINE e == batch.start
  <2>8. e \in Nat /\ Len(wal) = e /\ JournalEnd = e
    BY <1>2
  <2> HIDE DEF e
  <2>7. /\ Len(wal') = e + n + 1 /\ SamePrefix(wal, wal', e)
        /\ wal'[e + 1] = RedoBlock(ext, batch.lsn, seq + 1)
        /\ \A i \in e + 2 .. e + n + 1 : wal'[i] = Body
    <3>1. /\ Len(wal') = Len(wal) + Len(j)
          /\ \A i \in 1 .. Len(wal) : wal'[i] = wal[i]
          /\ \A i \in Len(wal) + 1 .. Len(wal) + Len(j) : wal'[i] = j[i - Len(wal)]
      BY <1>4, <2>5, <2>6, ConcatProperties
    <3>2. Len(wal') = e + n + 1 /\ \A i \in 1 .. e : wal'[i] = wal[i]
      BY <2>5, <2>8, <3>1
    <3>3. \A i \in e + 1 .. e + n + 1 : wal'[i] = j[i - e]
      BY <2>5, <2>8, <3>1
    <3>4. e + 1 \in e + 1 .. e + n + 1 /\ (e + 1) - e = 1
      BY <2>5, <2>8
    <3>5. wal'[e + 1] = j[1]
      BY <3>3, <3>4
    <3>6. ASSUME NEW i \in e + 2 .. e + n + 1 PROVE wal'[i] = Body
      <4>1. i \in e + 1 .. e + n + 1 /\ i - e \in 2 .. n + 1
        BY <2>5, <2>8
      <4> QED
        BY <2>5, <3>3, <4>1
    <3> QED
      BY <2>5, <3>2, <3>5, <3>6 DEF SamePrefix
  <2>9. Own' /\ JournalEnd' = JournalEnd /\ Running'
    BY <1>2, <2>1, <2>3 DEF Own, JournalEnd, Running, Reopening
  <2>10. Floor' = Floor
    BY <1>1, <2>1, <2>9 DEF Floor
  <2>11. Steady
    BY <1>1, <1>4, <2>7, <2>8, <2>9, <2>10 DEF Steady
  <2>12. Fitting(wal')
    <3>1. \A p \in PageId : ext.pages[p] # None => p < ext.count
      <4>1. 0 < count
        BY <1>3
      <4>2. \A p \in PageId : batch'.pages[p] # None => p = 0 \/ batch.pages[p] # None
        BY <2>3 DEF PageMap
      <4> QED
        BY <1>3, <2>4, <4>1, <4>2
    <3>2. ASSUME NEW i \in 1 .. Len(wal'), wal'[i].kind = "redo"
          PROVE  \/ \E k \in 1 .. Len(wal) : wal'[i] = wal[k]
                 \/ \A p \in PageId : wal'[i].pages[p] # None => p < wal'[i].count
      <4>1. i \in 1 .. e \/ i = e + 1 \/ i \in e + 2 .. e + n + 1
        BY <2>5, <2>7, <2>8
      <4>2. CASE i \in 1 .. e
        BY <2>7, <2>8, <4>2 DEF SamePrefix
      <4>3. CASE i = e + 1
        <5>1. wal'[i].pages = ext.pages /\ wal'[i].count = ext.count
          BY <2>7, <4>3 DEF RedoBlock
        <5> QED
          BY <3>1, <5>1
      <4>4. CASE i \in e + 2 .. e + n + 1
        BY <2>7, <3>2, <4>4 DEF Body
      <4> QED
        BY <4>1, <4>2, <4>3, <4>4
    <3>3. Fitting(wal)
      BY DEF Recoverable, Layout
    <3> QED
      BY <3>2, <3>3, FittingBlocks
  <2>13. Layout' /\ Cuts' /\ SlotsBacked' /\ Quiet' /\ Applies' /\ Replays'
    BY <1>1, <1>2, <2>1, <2>9, <2>11, <2>12, SteadyKeeps DEF Applying
  <2>14. Cutoffs'
    <3>1. /\ ckpt.cutoff <= Floor /\ Boundary(wal, ckpt.cutoff)
      BY <1>1 DEF Recoverable, Cutoffs
    <3>2. Boundary(wal', ckpt.cutoff)
      BY <1>4, <2>7, <2>8, <3>1 DEF Boundary, SamePrefix
    <3> QED
      BY <1>1, <1>2, <2>1, <2>3, <2>9, <2>10, <3>1, <3>2 DEF Recoverable, Cutoffs
  <2>15. OwnExtent'
    <3>1. Extent' = ext
      BY <1>1, <2>3 DEF Extent, ext
    <3>2. OwnRecords' = n
      BY <2>4 DEF OwnRecords, n
    <3>3. wal'[batch'.start + 1] = RedoBlock(Extent', batch'.lsn, seq' + 1)
      BY <1>1, <2>3, <2>7, <3>1 DEF e
    <3>4. /\ \A i \in batch'.start + 2 .. batch'.start + OwnRecords' + 1 : wal'[i] = Body
          /\ Len(wal') = batch'.start + OwnRecords' + 1
      BY <2>3, <2>7, <3>2 DEF e
    <3> QED
      BY <2>1, <2>3, <3>3, <3>4 DEF OwnExtent, Committings
  <2>16. Stages'
    BY <2>1, <2>3, <2>9, <2>15 DEF Stages, Applying, Committings
  <2> QED
    BY <2>13, <2>14, <2>16 DEF Recoverable
<1> QED
  BY <1>5, <1>6

LEMMA CommitPreparedRecoverable ==
  ASSUME IInv, IInv', Recoverable, CommitPrepared
  PROVE  Recoverable'
<1>1. /\ pc = "appended" /\ pc' = "prepared" /\ batch' = batch
      /\ walSynced' \in {walSynced, Len(wal)}
      /\ main' = main /\ mainSynced' = mainSynced /\ wal' = wal
      /\ dwb' = dwb /\ ckpt' = ckpt /\ ck' = ck /\ seq' = seq /\ count' = count
      /\ history' = history /\ mode' = mode /\ pending' = pending /\ nextLsn' = nextLsn
  BY DEF CommitPrepared, lsns, ghosts, allocation
<1>2. Own /\ OwnExtent
  BY <1>1 DEF Recoverable, Stages, Committings
<1>3. Own' /\ JournalEnd' = JournalEnd /\ Running /\ Running' /\ batch # None
  BY <1>1, <1>2 DEF Own, JournalEnd, Running, Reopening
<1>4. /\ JournalEnd \in Nat /\ Floor \in Nat /\ Floor <= JournalEnd /\ ckpt.cutoff \in Nat
      /\ Floor = Smaller(walSynced, JournalEnd)
      /\ Len(wal) \in Nat /\ JournalEnd <= Len(wal) /\ walSynced \in Nat /\ walSynced <= Len(wal)
  BY <1>1, Bounds
<1>5. Floor' \in Nat /\ Floor <= Floor' /\ Floor' <= JournalEnd
  BY <1>1, <1>3, <1>4 DEF Floor, Smaller
<1>6. Steady /\ Fitting(wal)
  BY <1>1, <1>3, <1>4, <1>5 DEF Steady, SamePrefix, Recoverable, Layout
<1>7. Layout' /\ Cuts' /\ SlotsBacked' /\ Quiet' /\ Applies' /\ Replays'
  BY <1>1, <1>3, <1>6, SteadyKeeps DEF Applying
<1>8. Cutoffs'
  <2>1. ckpt'.cutoff <= Floor' /\ Boundary(wal', ckpt'.cutoff)
    <3>1. ckpt.cutoff <= Floor /\ Boundary(wal, ckpt.cutoff)
      BY <1>1 DEF Recoverable, Cutoffs
    <3>2. ckpt.cutoff <= Floor'
      BY <1>4, <1>5, <3>1
    <3> QED
      BY <1>1, <3>1, <3>2
  <2> QED
    BY <1>1, <1>3, <2>1 DEF Recoverable, Cutoffs
<1>9. Stages'
  <2>1. Extent' = Extent /\ OwnRecords' = OwnRecords
    BY <1>1 DEF Extent, OwnRecords
  <2>2. OwnExtent'
    BY <1>1, <1>2, <2>1 DEF OwnExtent, Committings
  <2> QED
    BY <1>1, <1>3, <2>2 DEF Stages, Applying, Committings, Own
<1> QED
  BY <1>7, <1>8, <1>9 DEF Recoverable

LEMMA CommitMarkRecoverable ==
  ASSUME IInv, IInv', Recoverable, CommitMark
  PROVE  Recoverable'
<1>1. /\ pc = "prepared" /\ pc' = "marked" /\ batch' = batch /\ walSynced' = walSynced
      /\ main' = main /\ mainSynced' = mainSynced /\ wal' = Append(wal, Mark(seq + 1))
      /\ dwb' = dwb /\ ckpt' = ckpt /\ ck' = ck /\ seq' = seq /\ count' = count
      /\ history' = history /\ mode' = mode /\ pending' = pending /\ nextLsn' = nextLsn
  BY DEF CommitMark, lsns, ghosts, allocation
<1>2. Own /\ OwnExtent
  BY <1>1 DEF Recoverable, Stages, Committings
<1>3. Own' /\ JournalEnd' = JournalEnd /\ Running /\ Running' /\ batch # None
  BY <1>1, <1>2 DEF Own, JournalEnd, Running, Reopening
<1>4. /\ wal \in Seq(Block) /\ JournalEnd \in Nat /\ Floor \in Nat /\ Floor <= JournalEnd
      /\ ckpt.cutoff \in Nat /\ Len(wal) \in Nat /\ JournalEnd <= Len(wal)
      /\ JournalEnd = batch.start
  BY <1>1, <1>2, Bounds DEF JournalEnd
<1>5. Floor' = Floor
  BY <1>1, <1>3 DEF Floor
<1>6. /\ Len(wal') = Len(wal) + 1 /\ wal'[Len(wal) + 1] = Mark(seq + 1)
      /\ \A i \in 1 .. Len(wal) : wal'[i] = wal[i]
  BY <1>1, <1>4
<1>7. Steady
  BY <1>1, <1>3, <1>4, <1>5, <1>6 DEF Steady, SamePrefix
<1>8. Fitting(wal')
  <2>1. Fitting(wal)
    BY DEF Recoverable, Layout
  <2>2. \A i \in 1 .. Len(wal') : wal'[i].kind = "redo" => i \in 1 .. Len(wal) /\ wal'[i] = wal[i]
    <3>1. wal'[Len(wal) + 1].kind # "redo"
      BY <1>6 DEF Mark
    <3>2. \A i \in 1 .. Len(wal') : i \in 1 .. Len(wal) \/ i = Len(wal) + 1
      BY <1>4, <1>6
    <3> QED
      BY <1>6, <3>1, <3>2
  <2> QED
    BY <2>1, <2>2, FittingBlocks
<1>9. Layout' /\ Cuts' /\ SlotsBacked' /\ Quiet' /\ Applies' /\ Replays'
  BY <1>1, <1>3, <1>7, <1>8, SteadyKeeps DEF Applying
<1>10. Cutoffs'
  <2>1. ckpt.cutoff <= Floor /\ Boundary(wal, ckpt.cutoff)
    BY <1>1 DEF Recoverable, Cutoffs
  <2>2. Boundary(wal', ckpt.cutoff)
    BY <1>4, <1>6, <2>1 DEF Boundary
  <2> QED
    BY <1>1, <1>3, <1>5, <2>1, <2>2 DEF Recoverable, Cutoffs
<1>11. Stages'
  <2>1. Extent' = Extent /\ OwnRecords' = OwnRecords /\ OwnRecords \in Nat
    BY <1>1, StagedCount DEF Extent, OwnRecords, BodyLength
  <2>2. Len(wal) = batch.start + OwnRecords + 1
    BY <1>1, <1>2 DEF OwnExtent
  <2>3. /\ wal'[batch.start + 1] = wal[batch.start + 1]
        /\ \A i \in batch.start + 2 .. batch.start + OwnRecords + 1 : wal'[i] = wal[i]
    <3>1. \A i \in batch.start + 1 .. batch.start + OwnRecords + 1 : i \in 1 .. Len(wal)
      BY <1>4, <2>1, <2>2
    <3>2. batch.start + 1 \in batch.start + 1 .. batch.start + OwnRecords + 1
      BY <1>4, <2>1
    <3>3. \A i \in batch.start + 2 .. batch.start + OwnRecords + 1 :
            i \in batch.start + 1 .. batch.start + OwnRecords + 1
      BY <1>4, <2>1
    <3> QED
      BY <1>6, <3>1, <3>2, <3>3
  <2>4. /\ Len(wal') = batch.start + OwnRecords + 2 /\ wal'[Len(wal')] = Mark(seq + 1)
    BY <1>4, <1>6, <2>1, <2>2
  <2>5. OwnExtent'
    BY <1>1, <1>2, <2>1, <2>3, <2>4 DEF OwnExtent, Committings
  <2> QED
    BY <1>1, <1>3, <2>5 DEF Stages, Applying, Committings, Own
<1> QED
  BY <1>9, <1>10, <1>11 DEF Recoverable

LEMMA FaultCommitRecoverable ==
  ASSUME IInv, IInv', Recoverable, FaultCommit
  PROVE  Recoverable'
<1>1. /\ pc \in Committings /\ pc' = "idle" /\ batch' = [batch EXCEPT !.doomed = TRUE]
      /\ walSynced' = walSynced /\ main' = main /\ mainSynced' = mainSynced /\ wal' = wal
      /\ dwb' = dwb /\ ckpt' = ckpt /\ ck' = ck /\ seq' = seq /\ count' = count
      /\ history' = history /\ mode' = mode /\ pending' = pending /\ nextLsn' = nextLsn
  BY DEF FaultCommit, Committings, lsns, ghosts, allocation, disk
<1>2. Own /\ OwnExtent /\ batch \in Batch
  <2>1. Own
    BY <1>1 DEF Recoverable, Stages
  <2>2. OwnExtent
    BY <1>1, <2>1 DEF Recoverable, Stages
  <2> QED
    BY <2>1, <2>2 DEF Own, IInv, TypeOK, MemoryOK
<1>3. /\ batch' \in Batch /\ batch'.start = batch.start /\ batch'.lsn = batch.lsn
      /\ batch'.published = batch.published /\ batch'.doomed = TRUE
      /\ batch'.touched = batch.touched /\ batch'.pages = batch.pages
  BY <1>1, <1>2, DoomFields
<1>4. Own' /\ JournalEnd' = JournalEnd /\ Running /\ Running' /\ batch # None /\ batch' # None
  BY <1>1, <1>2, <1>3, NoneAssumption DEF Own, JournalEnd, Running, Reopening, Committings
<1>5. /\ JournalEnd \in Nat /\ Floor \in Nat /\ Floor <= JournalEnd /\ ckpt.cutoff \in Nat
  BY Bounds
<1>6. Floor' = Floor
  BY <1>1, <1>4 DEF Floor, Committings
<1>7. Steady /\ Fitting(wal)
  BY <1>1, <1>4, <1>5, <1>6 DEF Steady, SamePrefix, Recoverable, Layout
<1>8. Layout' /\ Cuts' /\ SlotsBacked' /\ Quiet' /\ Applies' /\ Replays'
  BY <1>1, <1>4, <1>7, SteadyKeeps DEF Applying, Committings
<1>9. Cutoffs'
  BY <1>1, <1>3, <1>4, <1>6 DEF Recoverable, Cutoffs, Committings
<1>10. Stages'
  <2>1. Extent' = Extent /\ OwnRecords' = OwnRecords
    BY <1>1, <1>3 DEF Extent, OwnRecords
  <2>2. OwnExtent'
    BY <1>1, <1>2, <1>3, <2>1 DEF OwnExtent
  <2>3. OwnRecords \in Nat /\ batch.start \in Nat
    BY <1>2, StagedCount DEF OwnRecords, BodyLength, Batch
  <2>4. Len(wal) # batch.start
    BY <1>2, <2>3 DEF OwnExtent
  <2> QED
    BY <1>1, <1>3, <1>4, <2>2, <2>4 DEF Stages, Applying, Committings, Own
<1> QED
  BY <1>8, <1>9, <1>10 DEF Recoverable


-----------------------------------------------------------------------------
(* Checkpoints, the end of a process, failures of the medium.               *)

LEMMA PlainStep ==
  ASSUME IInv, IInv', Recoverable, Running, Running',
         pc # "recycle", pc' # "recycle", pc' \notin Applying,
         wal' = wal, walSynced' = walSynced, main' = main, mainSynced' = mainSynced,
         mode' = mode, history' = history, batch' = batch,
         ckpt'.cutoff \in {0, ckpt.cutoff},
         pc' = "broken" \/ (pc \notin Applying \cup {"broken"} /\ pending' = pending)
  PROVE  /\ Own' = Own /\ JournalEnd' = JournalEnd /\ Floor' = Floor
         /\ Layout' /\ Cuts' /\ (dwb' = dwb => SlotsBacked') /\ Quiet' /\ Applies' /\ Replays'
<1>1. Own' = Own /\ JournalEnd' = JournalEnd
  BY DEF Own, JournalEnd
<1>2. Floor' = Floor
  BY <1>1 DEF Floor
<1>3. /\ JournalEnd \in Nat /\ Floor \in Nat /\ Floor <= JournalEnd /\ ckpt.cutoff \in Nat
  BY Bounds
<1>4. Steady /\ Fitting(wal)
  BY <1>1, <1>2, <1>3 DEF Steady, SamePrefix, Recoverable, Layout
<1>5. ~Own' => JournalEnd' = Len(wal')
  BY <1>1, WholeJournal
<1>6. Layout' /\ Cuts' /\ (dwb' = dwb => SlotsBacked') /\ Quiet' /\ Applies' /\ Replays'
  BY <1>4, <1>5, SteadyKeeps
<1> QED
  BY <1>1, <1>2, <1>6

LEMMA CheckpointRecoverable ==
  ASSUME IInv, IInv', Recoverable, Checkpoint
  PROVE  Recoverable'
<1>1. /\ pc = "idle" /\ batch = None /\ pending' = pending /\ batch' = batch
      /\ main' = main /\ mainSynced' = mainSynced /\ wal' = wal /\ walSynced' = walSynced
      /\ dwb' = dwb /\ ckpt' = ckpt /\ ck' = ck /\ nextLsn' = nextLsn
      /\ mode' = mode /\ history' = history
      /\ \/ pending = <<>> /\ pc' \in {"fuzzy", "full"}
         \/ pc' = "groupSync"
  BY DEF Checkpoint, Idle, SyncGroup, disk, lsns, ghosts
<1>2. Running /\ Running' /\ pc' \notin Applying
  BY <1>1 DEF Running, Reopening, Applying
<1>3. /\ Own' = Own /\ JournalEnd' = JournalEnd /\ Floor' = Floor
      /\ Layout' /\ Cuts' /\ SlotsBacked' /\ Quiet' /\ Applies' /\ Replays'
  BY <1>1, <1>2, PlainStep DEF Applying
<1>4. Cutoffs'
  BY <1>1, <1>2, <1>3 DEF Recoverable, Cutoffs
<1>5. Stages'
  <2>1. pending = <<>> => walSynced = Len(wal)
    BY <1>1 DEF Recoverable, Stages
  <2> QED
    BY <1>1, <2>1 DEF Stages, Own, Applying, Committings
<1> QED
  BY <1>3, <1>4, <1>5 DEF Recoverable

LEMMA CheckpointFuzzyRecoverable ==
  ASSUME IInv, IInv', Recoverable, Asked, CheckpointFuzzy
  PROVE  Recoverable'
<1>1. /\ pc = "fuzzy" /\ pc' = "ckptWrite" /\ pending' = pending /\ batch' = batch
      /\ main' = main /\ mainSynced' = mainSynced /\ wal' = wal /\ walSynced' = walSynced
      /\ dwb' = dwb /\ ckpt' = TornCkpt /\ nextLsn' = nextLsn
      /\ ck' = [state |-> "ok", cutoff |-> Len(wal), seq |-> seq, lsn |-> nextLsn - 1]
      /\ mode' = mode /\ history' = history
  BY DEF CheckpointFuzzy, ghosts
<1>2. Running /\ Running' /\ pc' \notin Applying
  BY <1>1 DEF Running, Reopening, Applying
<1>3. ckpt'.cutoff = 0
  BY <1>1 DEF TornCkpt
<1>4. /\ Own' = Own /\ JournalEnd' = JournalEnd /\ Floor' = Floor
      /\ Layout' /\ Cuts' /\ SlotsBacked' /\ Quiet' /\ Applies' /\ Replays'
  BY <1>1, <1>2, <1>3, PlainStep DEF Applying
<1>5. batch = None /\ pending = <<>> /\ TRUE \in FuzzyModes
  BY <1>1 DEF IInv, Control, Truncating, Asked
<1>6. JournalEnd = Len(wal) /\ Floor \in Nat /\ Len(wal) \in Nat
  BY <1>2, <1>5, WholeJournal, Bounds DEF Own
<1>7. Cutoffs'
  <2>1. Boundary(wal', ckpt'.cutoff) /\ ckpt'.cutoff <= Floor' /\ ~(ckpt'.cutoff > 0)
    BY <1>3, <1>4, <1>6 DEF Boundary
  <2>2. ck'.cutoff = Len(wal') /\ ck'.state = "ok" /\ ck'.lsn = nextLsn - 1
    BY <1>1
  <2>3. nextLsn \in Nat \ {0}
    BY DEF IInv, TypeOK, MemoryOK
  <2>4. nextLsn' > ck'.lsn
    BY <1>1, <2>2, <2>3
  <2>5. ck'.cutoff > 0 => ck'.lsn > 0
    <3>1. Len(wal) > 0 => nextLsn > 1
      BY <1>2, <1>6 DEF Recoverable, Cutoffs
    <3> QED
      BY <1>1, <1>6, <2>2, <2>3, <3>1
  <2> QED
    BY <1>1, <1>2, <1>4, <1>5, <1>6, <2>1, <2>2, <2>4, <2>5 DEF Recoverable, Cutoffs
<1>8. Stages'
  <2>1. walSynced = Len(wal)
    BY <1>1, <1>5 DEF Recoverable, Stages
  <2> QED
    BY <1>1, <1>5, <2>1 DEF Stages, Own, Applying, Committings
<1> QED
  BY <1>4, <1>7, <1>8 DEF Recoverable

LEMMA CheckpointRecycledRecoverable ==
  ASSUME IInv, IInv', Recoverable, CheckpointRecycled
  PROVE  Recoverable'
<1>1. /\ pc = "recycled" /\ pc' = "ckptWrite" /\ pending' = pending /\ batch' = batch
      /\ main' = main /\ mainSynced' = mainSynced /\ wal' = wal /\ walSynced' = walSynced
      /\ dwb' = dwb /\ ckpt' = TornCkpt /\ nextLsn' = nextLsn /\ ck' = ck
      /\ mode' = mode /\ history' = history
  BY DEF CheckpointRecycled, lsns, ghosts
<1>2. Running /\ Running' /\ pc' \notin Applying
  BY <1>1 DEF Running, Reopening, Applying
<1>3. ckpt'.cutoff = 0
  BY <1>1 DEF TornCkpt
<1>4. /\ Own' = Own /\ JournalEnd' = JournalEnd /\ Floor' = Floor
      /\ Layout' /\ Cuts' /\ SlotsBacked' /\ Quiet' /\ Applies' /\ Replays'
  BY <1>1, <1>2, <1>3, PlainStep DEF Applying
<1>5. batch = None /\ pending = <<>>
  BY <1>1 DEF IInv, Control, Truncating
<1>6. Cutoffs'
  <2>1. Floor \in Nat
    BY Bounds
  <2>2. Boundary(wal', ckpt'.cutoff) /\ ckpt'.cutoff <= Floor' /\ ~(ckpt'.cutoff > 0)
    BY <1>3, <1>4, <2>1 DEF Boundary
  <2> QED
    BY <1>1, <1>2, <1>3, <1>4, <1>5, <2>2 DEF Recoverable, Cutoffs
<1>7. Stages'
  <2>1. walSynced = Len(wal)
    BY <1>1, <1>5 DEF Recoverable, Stages
  <2> QED
    BY <1>1, <1>5, <2>1 DEF Stages, Own, Applying, Committings
<1> QED
  BY <1>4, <1>6, <1>7 DEF Recoverable

LEMMA FaultCheckpointRecoverable ==
  ASSUME SoundSettings, IInv, IInv', Recoverable, FaultCheckpoint
  PROVE  Recoverable'
<1>1. /\ pc \in {"recycle", "recycled", "ckptWrite"} /\ pc' = "idle" /\ pending' = pending
      /\ main' = main /\ mainSynced' = mainSynced /\ wal' = wal /\ walSynced' = walSynced
      /\ dwb' = dwb /\ ckpt' = ckpt /\ nextLsn' = nextLsn /\ ck' = ck /\ batch' = batch
      /\ mode' = mode /\ history' = history /\ IoFaults
  BY DEF FaultCheckpoint, lsns, ghosts, disk
<1>2. Running /\ Running' /\ pc' \notin Applying
  BY <1>1 DEF Running, Reopening, Applying
<1>3. TRUE \notin FuzzyModes /\ ckpt.cutoff = 0 /\ ck.cutoff = 0 /\ pc # "recycle"
  BY <1>1 DEF SoundSettings, Recoverable, Cutoffs
<1>4. /\ Own' = Own /\ JournalEnd' = JournalEnd /\ Floor' = Floor
      /\ Layout' /\ Cuts' /\ SlotsBacked' /\ Quiet' /\ Applies' /\ Replays'
  BY <1>1, <1>2, <1>3, PlainStep DEF Applying
<1>5. batch = None /\ pending = <<>>
  BY <1>1 DEF IInv, Control, Truncating
<1>6. Cutoffs'
  <2>1. Floor \in Nat
    BY Bounds
  <2>2. /\ Boundary(wal', ckpt'.cutoff) /\ ckpt'.cutoff <= Floor' /\ ~(ckpt'.cutoff > 0)
        /\ ~(ck'.cutoff > 0)
    BY <1>1, <1>3, <1>4, <2>1 DEF Boundary
  <2> QED
    BY <1>1, <1>2, <1>3, <1>4, <1>5, <2>2 DEF Recoverable, Cutoffs
<1>7. Stages'
  <2>1. walSynced = Len(wal)
    BY <1>1, <1>3, <1>5 DEF Recoverable, Stages
  <2> QED
    BY <1>1, <1>5, <2>1 DEF Stages, Own, Applying, Committings
<1> QED
  BY <1>4, <1>6, <1>7 DEF Recoverable

LEMMA CloseRecoverable ==
  ASSUME IInv, IInv', Recoverable, Close
  PROVE  Recoverable'
<1>1. /\ pc = "idle" /\ (batch # None => ~batch.doomed) /\ pending' = pending
      /\ main' = main /\ mainSynced' = mainSynced /\ wal' = wal /\ walSynced' = walSynced
      /\ dwb' = dwb /\ ckpt' = ckpt /\ nextLsn' = nextLsn /\ ck' = ck /\ batch' = batch
      /\ mode' = mode /\ history' = history
      /\ \/ pending = <<>> /\ pc' = "close"
         \/ pc' = "groupSync" /\ cont' = "close"
  BY DEF Close, Idle, Working, InBatch, SyncGroup, disk, lsns, ghosts
<1>2. Running /\ Running' /\ pc' \notin Applying
  BY <1>1 DEF Running, Reopening, Applying
<1>3. /\ Own' = Own /\ JournalEnd' = JournalEnd /\ Floor' = Floor
      /\ Layout' /\ Cuts' /\ SlotsBacked' /\ Quiet' /\ Applies' /\ Replays'
  BY <1>1, <1>2, PlainStep DEF Applying
<1>4. Cutoffs'
  BY <1>1, <1>2, <1>3 DEF Recoverable, Cutoffs
<1>5. Stages'
  <2>1. batch # None => Own /\ Len(wal) = batch.start /\ ~batch.published
    BY <1>1, BatchIsOwn
  <2>2. pending = <<>> => walSynced = Len(wal)
    BY <1>1, <2>1 DEF Recoverable, Stages
  <2> QED
    BY <1>1, <2>1, <2>2 DEF Stages, Own, Applying, Committings
<1> QED
  BY <1>3, <1>4, <1>5 DEF Recoverable

\* while extents are applied, all of the journal is finished and fsynced
LEMMA Applied ==
  ASSUME IInv, Recoverable, pc \in Applying
  PROVE  /\ JournalEnd = Len(wal) /\ Floor = Len(wal) /\ walSynced = Len(wal)
         /\ Parsed(wal, Len(wal)) /\ LastMark(wal) = Len(wal)
         /\ Running /\ Committed \in File /\ main \in File
         /\ queue \in Seq(ExtentType) /\ queue # <<>> /\ 1 \in DOMAIN queue
         /\ queue[1] \in ExtentType /\ pending = <<>>
         /\ Leads(main, queue, Committed) /\ Backed(wal, ckpt.cutoff, Len(wal), queue)
<1>1. Running /\ walSynced = Len(wal) /\ pending = <<>>
  BY DEF Running, Applying, Reopening, Recoverable, Applies, IInv, Control
<1>2. JournalEnd = Len(wal)
  <2>1. CASE Own
    <3>1. ~batch.doomed /\ pc \notin Committings
      BY <2>1 DEF Recoverable, Stages, Applying, Committings
    <3> QED
      BY <2>1, <3>1 DEF JournalEnd, Own, IInv, OwnBlocks
  <2>2. CASE ~Own
    BY <1>1, <2>2, WholeJournal
  <2> QED
    BY <2>1, <2>2
<1>3. Floor = Len(wal) /\ Len(wal) \in Nat /\ Committed \in File
  BY <1>1, <1>2, Bounds DEF Applying, Smaller
<1>4. Parsed(wal, Len(wal)) /\ LastMark(wal) = Len(wal)
  BY <1>2, <1>3, AtEnd, LastMarkWhole
<1>5. /\ main \in File /\ queue \in Seq(ExtentType) /\ queue # <<>>
  BY DEF IInv, TypeOK, DiskOK, ProgressOK
<1>6. queue[1] \in ExtentType /\ 1 \in DOMAIN queue
  <2>1. Len(queue) \in Nat /\ Len(queue) # 0 /\ DOMAIN queue = 1 .. Len(queue)
    BY <1>5
  <2>2. 1 \in 1 .. Len(queue)
    BY <2>1
  <2> QED
    BY <1>5, <2>1, <2>2
<1>7. Leads(main, queue, Committed) /\ Backed(wal, ckpt.cutoff, Len(wal), queue)
  BY <1>2 DEF Recoverable, Applies
<1> QED
  BY <1>1, <1>2, <1>3, <1>4, <1>5, <1>6, <1>7

\* A slot that is staged holds a page of the extent.
LEMMA SlotPagesStaged ==
  ASSUME NEW pages \in PageMap, NEW s \in Slots, dwb[s] = None, SlotPages(pages)[s] # None
  PROVE  /\ SlotPages(pages)[s] \in Slot /\ SlotPages(pages)[s].whole
         /\ SlotPages(pages)[s].id \in Staged(pages)
         /\ SlotPages(pages)[s].image = pages[SlotPages(pages)[s].id]
<1> DEFINE mine == {p \in Staged(pages) :
                      Cardinality({q \in Staged(pages) : q < p}) = s - 1}
           p1 == CHOOSE p \in mine : TRUE
<1>1. mine # {} /\ SlotPages(pages)[s] = [id |-> p1, image |-> pages[p1], whole |-> TRUE]
  BY DEF SlotPages
<1>2. p1 \in mine
  BY <1>1
<1>3. p1 \in Staged(pages) /\ p1 \in PageId /\ pages[p1] \in Content
  BY <1>2 DEF Staged, PageMap
<1> HIDE DEF p1, mine
<1> QED
  BY <1>1, <1>3 DEF Slot

\* What a crash or a fault leaves of the slots are pages the journal has.
LEMMA SlotsLeft ==
  ASSUME SoundSettings, IInv, Recoverable, pc # "down",
         NEW d, d \in FaultSlots \/ \E kind \in Crashes : d \in SlotOutcomes(kind)
  PROVE  /\ \A s \in Slots : d[s] # None /\ d[s].whole => Written(wal, ckpt.cutoff, Floor, d[s].id)
         /\ FALSE \in DoubleWriteModes => d = NoSlots
<1>1. /\ mode.dw \in DoubleWriteModes /\ (FALSE \in DoubleWriteModes => dwb = NoSlots)
      /\ \A s \in Slots : dwb[s] # None /\ dwb[s].whole =>
           Written(wal, ckpt.cutoff, Floor, dwb[s].id)
  BY DEF Recoverable, SlotsBacked
<1>2. mode.dw => FALSE \notin DoubleWriteModes
  BY <1>1 DEF SoundSettings
<1>3. \A s \in Slots : ~TornSlots[s].whole
  BY DEF TornSlots, TornSlot
<1>4. CASE pc = "stage"
  <2> DEFINE staged == SlotPages(queue[1].pages)
  <2>1. mode.dw /\ dwb = NoSlots
    BY <1>4 DEF Recoverable, SlotsBacked
  <2>2. /\ \A p \in PageId : queue[1].pages[p] # None => Written(wal, ckpt.cutoff, Floor, p)
        /\ queue[1].pages \in PageMap
    BY <1>4, Applied DEF Backed, Applying, ExtentType
  <2>3. \A s \in Slots : staged[s] # None =>
          staged[s] \in Slot /\ Written(wal, ckpt.cutoff, Floor, staged[s].id)
    <3> SUFFICES ASSUME NEW s \in Slots, staged[s] # None
                 PROVE  staged[s] \in Slot /\ Written(wal, ckpt.cutoff, Floor, staged[s].id)
      OBVIOUS
    <3>1. dwb[s] = None
      BY <2>1 DEF NoSlots
    <3>2. staged[s] \in Slot /\ staged[s].id \in Staged(queue[1].pages)
      BY <2>2, <3>1, SlotPagesStaged
    <3> QED
      BY <2>2, <3>2 DEF Staged
  <2>4. d = TornSlots \/ d = staged \/ d \in Unheaded \/ d \in HalfStaged
    <3> HIDE DEF staged
    <3>1. CASE d \in FaultSlots
      BY <1>4, <3>1 DEF FaultSlots, staged
    <3>2. CASE \E kind \in Crashes : d \in SlotOutcomes(kind)
      <4>1. PICK kind \in {"process", "power"} : d \in SlotOutcomes(kind)
        BY <3>2, PageFileAssumption
      <4>2. CASE kind = "process"
        BY <1>4, <4>1, <4>2 DEF SlotOutcomes, staged
      <4>3. CASE kind = "power"
        BY <1>4, <4>1, <4>3 DEF SlotOutcomes, staged
      <4> QED
        BY <4>1, <4>2, <4>3
    <3> QED
      BY <3>1, <3>2
  <2>5. ASSUME d \in Unheaded, NEW s \in Slots PROVE d[s] = None
    <3>1. dwb[s] = None
      BY <2>1 DEF NoSlots
    <3> QED
      BY <2>5, <3>1 DEF Unheaded
  <2>6. ASSUME d \in HalfStaged, NEW s \in Slots, d[s] # None, d[s].whole
        PROVE  Written(wal, ckpt.cutoff, Floor, d[s].id)
    <3>1. dwb[s] = None
      BY <2>1 DEF NoSlots
    <3>2. staged[s] # None /\ (d[s] = staged[s] \/ d[s] = TornSlot
            \/ \E old \in OldImages : d[s] = [staged[s] EXCEPT !.image = old])
      BY <2>6, <3>1 DEF HalfStaged
    <3>3. staged[s] \in Slot /\ Written(wal, ckpt.cutoff, Floor, staged[s].id)
      BY <2>3, <3>2
    <3>4. d[s] # TornSlot
      BY <2>6 DEF TornSlot
    <3> HIDE DEF staged
    <3>5. \A old : [staged[s] EXCEPT !.image = old].id = staged[s].id
      BY <3>3 DEF Slot
    <3> QED
      BY <3>2, <3>3, <3>4, <3>5
  <2> HIDE DEF staged
  <2>7. \A s \in Slots : d[s] # None /\ d[s].whole => Written(wal, ckpt.cutoff, Floor, d[s].id)
    BY <1>3, <2>3, <2>4, <2>5, <2>6
  <2> QED
    BY <1>2, <2>1, <2>7
<1>5. CASE pc # "stage"
  <2>1. d = dwb \/ d = NoSlots
          \/ (d = TornSlots /\ (pc = "restored" \/ mode.dw))
    BY <1>5 DEF FaultSlots, SlotOutcomes
  <2>2. pc = "restored" => mode.dw
    BY DEF Recoverable, SlotsBacked
  <2>3. \A s \in Slots : NoSlots[s] = None
    BY DEF NoSlots
  <2> QED
    BY <1>1, <1>2, <1>3, <2>1, <2>2, <2>3
<1> QED
  BY <1>4, <1>5

LEMMA FaultFatalRecoverable ==
  ASSUME SoundSettings, IInv, IInv', Recoverable, FaultFatal
  PROVE  Recoverable'
<1>1. /\ pc \in {"aborting", "apply", "stage", "applySync", "clear"} /\ pc' = "broken" /\ pending' = pending
      /\ main' = main /\ mainSynced' = mainSynced /\ wal' = wal /\ walSynced' = walSynced
      /\ dwb' \in FaultSlots /\ ckpt' = ckpt /\ nextLsn' = nextLsn /\ ck' = ck /\ batch' = batch
      /\ mode' = mode /\ history' = history /\ IoFaults
  BY DEF FaultFatal, lsns, ghosts
<1>2. Running /\ Running' /\ pc' \notin Applying
  BY <1>1 DEF Running, Reopening, Applying
<1>3. /\ Own' = Own /\ JournalEnd' = JournalEnd /\ Floor' = Floor
      /\ Layout' /\ Cuts' /\ Quiet' /\ Applies' /\ Replays'
  BY <1>1, <1>2, PlainStep DEF Applying
<1>7. SlotsBacked'
  <2>1. /\ \A s \in Slots : dwb'[s] # None /\ dwb'[s].whole =>
             Written(wal, ckpt.cutoff, Floor, dwb'[s].id)
        /\ FALSE \in DoubleWriteModes => dwb' = NoSlots
    BY <1>1, SlotsLeft
  <2> QED
    BY <1>1, <1>3, <2>1 DEF Recoverable, SlotsBacked
<1>4. Cutoffs'
  BY <1>1, <1>2, <1>3 DEF Recoverable, Cutoffs
<1>5. ~Own /\ (batch # None => batch.published /\ walSynced = Len(wal))
  <2>1. CASE pc = "aborting"
    BY <2>1 DEF Recoverable, Stages, Own
  <2>2. CASE pc \in Applying
    <3>1. mode.group \/ (batch # None /\ ~Own)
      BY <2>2 DEF Recoverable, Applies
    <3>2. mode.group \in GroupModes /\ TRUE \notin GroupModes /\ GroupModes \subseteq BOOLEAN
      BY <1>1, <2>2, PageFileAssumption DEF SoundSettings, Recoverable, SlotsBacked, Applying
    <3>3. batch # None /\ ~Own
      BY <3>1, <3>2
    <3> QED
      BY <3>3 DEF Own, Recoverable, Stages
  <2> QED
    BY <1>1, <2>1, <2>2 DEF Applying
<1>6. Stages'
  BY <1>1, <1>3, <1>5 DEF Stages, Applying, Committings
<1> QED
  BY <1>3, <1>4, <1>6, <1>7 DEF Recoverable

\* A group cannot fail to be synced or applied where faults exclude groups.
LEMMA NoGroupFault ==
  ASSUME SoundSettings, IInv, Recoverable
  PROVE  ~FaultGroupSync /\ ~FaultApplyGroup
<1>1. ASSUME IoFaults, pc # "down" PROVE ~mode.group
  <2>1. mode.group \in GroupModes /\ TRUE \notin GroupModes /\ GroupModes \subseteq BOOLEAN
    BY <1>1, PageFileAssumption DEF SoundSettings, Recoverable, SlotsBacked
  <2> QED
    BY <2>1
<1>2. ASSUME FaultGroupSync PROVE FALSE
  <2>1. ~mode.group /\ pc = "groupSync"
    BY <1>1, <1>2 DEF FaultGroupSync
  <2> QED
    BY <2>1 DEF IInv, Control, Applying
<1>3. ASSUME FaultApplyGroup PROVE FALSE
  <2>1. ~mode.group /\ pc \in Applying /\ batch = None
    BY <1>1, <1>3 DEF FaultApplyGroup, Applying
  <2> QED
    BY <2>1 DEF Recoverable, Applies
<1> QED
  BY <1>2, <1>3

LEMMA RecycleSyncRecoverable ==
  ASSUME IInv, IInv', Recoverable, RecycleSync
  PROVE  Recoverable'
<1>1. /\ pc = "recycle" /\ pc' = "recycled" /\ walSynced' = Len(wal) /\ pending' = pending
      /\ main' = main /\ mainSynced' = mainSynced /\ wal' = wal
      /\ dwb' = dwb /\ ckpt' = ckpt /\ nextLsn' = nextLsn /\ ck' = ck /\ batch' = batch
      /\ mode' = mode /\ history' = history
  BY DEF RecycleSync, lsns, ghosts
<1>2. Running /\ Running' /\ pc' \notin Applying
  BY <1>1 DEF Running, Reopening, Applying
<1>3. batch = None /\ ~Own /\ ~Own'
  BY <1>1 DEF IInv, Control, Truncating, Own
<1>4. /\ JournalEnd = Len(wal) /\ JournalEnd' = Len(wal) /\ Len(wal) \in Nat
      /\ ckpt.cutoff \in Nat
  BY <1>1, <1>2, <1>3, WholeJournal, EndWithoutBatch, Bounds
<1>5. Floor = Len(wal) /\ Floor' = Len(wal)
  BY <1>1, <1>4 DEF Floor, Smaller
<1>6. Steady /\ Fitting(wal)
  BY <1>1, <1>4, <1>5 DEF Steady, SamePrefix, Recoverable, Layout
<1>7. Layout' /\ Cuts' /\ SlotsBacked' /\ Quiet' /\ Applies' /\ Replays'
  BY <1>1, <1>2, <1>3, <1>4, <1>6, SteadyKeeps DEF Applying
<1>8. Cutoffs'
  BY <1>1, <1>2, <1>3, <1>4 DEF Recoverable, Cutoffs
<1>9. Stages'
  BY <1>1, <1>3 DEF Stages, Applying, Committings
<1> QED
  BY <1>7, <1>8, <1>9 DEF Recoverable

LEMMA CheckpointWriteRecoverable ==
  ASSUME IInv, IInv', Recoverable, CheckpointWrite
  PROVE  Recoverable'
<1>1. /\ pc = "ckptWrite" /\ pc' = "idle" /\ walSynced' = walSynced /\ pending' = pending
      /\ main' = main /\ mainSynced' = mainSynced /\ wal' = wal
      /\ dwb' = dwb /\ ckpt' = ck /\ nextLsn' = nextLsn /\ ck' = ck /\ batch' = batch
      /\ mode' = mode /\ history' = history
  BY DEF CheckpointWrite, lsns, ghosts
<1>2. Running /\ Running' /\ pc' \notin Applying
  BY <1>1 DEF Running, Reopening, Applying
<1>3. batch = None /\ ~Own /\ ~Own' /\ pending = <<>> /\ walSynced = Len(wal)
  <2>1. batch = None /\ pending = <<>>
    BY <1>1 DEF IInv, Control, Truncating
  <2> QED
    BY <1>1, <2>1 DEF Own, Recoverable, Stages
<1>4. /\ JournalEnd = Len(wal) /\ JournalEnd' = Len(wal) /\ Len(wal) \in Nat
      /\ Floor = Len(wal) /\ Parsed(wal, Len(wal))
  BY <1>1, <1>2, <1>3, WholeJournal, EndWithoutBatch, Bounds
<1>5. Floor' = Len(wal)
  BY <1>1, <1>3, <1>4 DEF Floor, Smaller
<1>6. main = Committed /\ mainSynced = Committed /\ Committed' = Committed
  BY <1>1, <1>3, NothingPending DEF Applying, Reopening, Committed
<1>7. Fitting(wal) /\ (mode.group \/ Settled(wal, JournalEnd, Floor)) /\ dwb = NoSlots
  BY <1>1, <1>2 DEF Recoverable, Layout, SlotsBacked
<1>8. Layout'
  BY <1>1, <1>2, <1>3, <1>4, <1>5, <1>7 DEF Layout
<1>9. Cuts'
  <2>1. Agrees(wal, Len(wal), Committed) /\ Kept(wal, Len(wal), Len(wal), history)
    BY <1>4, AtEnd DEF Recoverable, Cuts
  <2>2. Covered(wal, ckpt'.cutoff, Len(wal), Committed, Committed)
    BY DEF Covered
  <2>3. Safe(wal, Len(wal), Len(wal), history, ckpt'.cutoff, Committed)
    BY <1>4, <2>1, <2>2, Bounds, KeptAtEnd DEF Committed
  <2> QED
    BY <1>1, <1>4, <1>5, <1>6, <2>1, <2>3 DEF Cuts
<1>10. Cutoffs'
  <2>1. ckpt'.cutoff <= Floor' /\ Boundary(wal', ckpt'.cutoff)
    <3>1. ck.cutoff \in {0, Len(wal)}
      BY <1>1 DEF Recoverable, Cutoffs
    <3>2. Boundary(wal, 0) /\ Boundary(wal, Len(wal))
      BY <1>4 DEF Parsed, Boundary
    <3> QED
      BY <1>1, <1>4, <1>5, <3>1, <3>2
  <2> QED
    BY <1>1, <1>2, <1>3, <1>4, <2>1 DEF Recoverable, Cutoffs
<1>11. SlotsBacked'
  BY <1>1, <1>7 DEF Recoverable, SlotsBacked, NoSlots
<1>12. Quiet'
  BY <1>1, <1>3, <1>6, LeadsEmpty DEF Quiet
<1>13. Applies' /\ Replays' /\ Stages'
  BY <1>1, <1>3 DEF Applies, Replays, Stages, Applying, Committings
<1> QED
  BY <1>8, <1>9, <1>10, <1>11, <1>12, <1>13 DEF Recoverable


LEMMA CheckpointRecycleRecoverable ==
  ASSUME IInv, IInv', Recoverable, CheckpointRecycle
  PROVE  Recoverable'
<1>1. /\ pc = "full" /\ pc' \in {"recycle", "recycled"} /\ walSynced' = 0 /\ pending' = pending
      /\ main' = main /\ mainSynced' = mainSynced /\ dwb' = dwb /\ ckpt' = ckpt
      /\ nextLsn' = nextLsn /\ batch' = batch /\ mode' = mode /\ history' = history
      /\ ck' = [state |-> "ok", cutoff |-> 0, seq |-> seq, lsn |-> nextLsn - 1]
  BY DEF CheckpointRecycle, ghosts
<1>2. Running /\ Running' /\ pc' \notin Applying
  BY <1>1 DEF Running, Reopening, Applying
<1>3. batch = None /\ ~Own /\ ~Own' /\ pending = <<>> /\ pending' = <<>>
  BY <1>1 DEF IInv, Control, Truncating, Own
<1>4. /\ JournalEnd = Len(wal) /\ Len(wal) \in Nat /\ Parsed(wal, Len(wal))
      /\ wal \in Seq(Block) /\ Agrees(wal, Len(wal), Committed) /\ ck.cutoff \in Nat
      /\ Len(history) \in Nat \ {0}
  BY <1>2, <1>3, WholeJournal, Bounds, AtEnd
<1>5. main = Committed /\ mainSynced = Committed /\ Committed' = Committed
  BY <1>1, <1>3, NothingPending DEF Applying, Reopening, Committed
<1>6. Fitting(wal) /\ dwb = NoSlots
  BY <1>1, <1>2 DEF Recoverable, Layout, SlotsBacked
<1>7. ck.cutoff # 0 => TRUE \in FuzzyModes
  BY DEF Recoverable, Cutoffs
<1>8. /\ JournalEnd' = Len(wal') /\ Floor' = Len(wal') /\ Len(wal') \in Nat
      /\ Parsed(wal', Len(wal')) /\ Agrees(wal', Len(wal'), Committed) /\ Fitting(wal')
      /\ (Len(wal') > 0 => Len(wal) > 0)
      /\ (pc' = "recycle" => TRUE \in FuzzyModes)
      /\ (pc' = "recycled" => Len(wal') = 0)
  <2>1. CASE wal' = <<>> /\ pc' = "recycled"
    <3>1. /\ LastMark(wal') = 0 /\ Parsed(wal', 0) /\ Fitting(wal') /\ Len(wal') = 0
          /\ Agrees(wal', 0, Committed)
      BY <2>1, EmptyJournal
    <3>2. JournalEnd' = 0
      BY <1>3, <3>1 DEF JournalEnd
    <3>3. Floor' = 0
      BY <1>1, <2>1, <3>2 DEF Floor, Smaller
    <3> QED
      BY <2>1, <3>1, <3>2, <3>3
  <2>2. CASE /\ ck.cutoff # 0 /\ ck.cutoff < Len(wal) /\ pc' = "recycle"
             /\ wal' = SubSeq(wal, ck.cutoff + 1, Len(wal))
    <3> DEFINE c == ck.cutoff
               e == Len(wal)
    <3>1. /\ Len(wal') = e - c /\ \A i \in 1 .. e - c : wal'[i] = wal[c + i]
          /\ e - c \in Nat /\ c \in Nat /\ c <= e /\ e \in Nat
      BY <1>4, <2>2
    <3>2. Boundary(wal, c)
      <4>1. c \in {0, ckpt.cutoff} /\ Boundary(wal, ckpt.cutoff)
        BY <1>1 DEF Recoverable, Cutoffs
      <4> QED
        BY <2>2, <4>1
    <3>3. Shifted(wal, wal', c, e)
      BY <3>1 DEF Shifted
    <3>4. Parsed(wal, e) /\ Agrees(wal, e, Committed)
      BY <1>4
    <3> HIDE DEF c, e
    <3>5. Parsed(wal', e - c) /\ Agrees(wal', e - c, Committed)
      BY <3>1, <3>2, <3>3, <3>4, ShiftedParsed, ShiftedAgrees
    <3>6. JournalEnd' = Len(wal')
      BY <1>3, <3>1, <3>5, LastMarkWhole DEF JournalEnd
    <3>7. Floor' = Len(wal')
      BY <2>2, <3>6 DEF Floor
    <3>8. Fitting(wal')
      <4>1. \A i \in 1 .. Len(wal') : c + i \in 1 .. Len(wal) /\ wal'[i] = wal[c + i]
        BY <3>1 DEF e
      <4> QED
        BY <1>6, <4>1, FittingBlocks
    <3>9. TRUE \in FuzzyModes
      BY <1>7, <2>2
    <3>10. Len(wal') > 0 => Len(wal) > 0
      <4>1. c < e /\ c \in Nat /\ e \in Nat
        BY <2>2, <3>1 DEF c, e
      <4>2. e > 0
        BY <4>1
      <4> QED
        BY <4>2 DEF e
    <3> QED
      BY <2>2, <3>1, <3>5, <3>6, <3>7, <3>8, <3>9, <3>10
  <2>3. \/ wal' = <<>> /\ pc' = "recycled"
        \/ /\ ck.cutoff # 0 /\ ck.cutoff < Len(wal) /\ pc' = "recycle"
           /\ wal' = SubSeq(wal, ck.cutoff + 1, Len(wal))
    BY <1>4 DEF CheckpointRecycle
  <2> QED
    BY <2>1, <2>2, <2>3
<1>9. Layout'
  <2>1. Settled(wal', JournalEnd', Floor')
    BY <1>8, SettledMore
  <2> QED
    BY <1>8, <2>1 DEF Layout
<1>10. Cuts'
  <2>1. /\ Kept(wal', Len(wal'), Len(wal'), history)
        /\ Safe(wal', Len(wal'), Len(wal'), history, ckpt.cutoff, Committed)
    <3>1. Covered(wal', ckpt.cutoff, Len(wal'), Committed, Committed)
      BY DEF Covered
    <3> QED
      BY <1>4, <1>8, <3>1, KeptAtEnd DEF Committed
  <2> QED
    BY <1>1, <1>5, <1>8, <2>1 DEF Cuts
<1>11. Cutoffs'
  <2>1. ck'.cutoff = 0 /\ ~(ck'.cutoff > 0) /\ ck'.lsn = nextLsn - 1
    BY <1>1
  <2>2. nextLsn \in Nat
    BY DEF IInv, TypeOK, MemoryOK
  <2>3. nextLsn' > ck'.lsn
    BY <1>1, <2>1, <2>2
  <2>4. JournalEnd' > 0 => nextLsn' > 1
    BY <1>1, <1>2, <1>4, <1>8 DEF Recoverable, Cutoffs
  <2> QED
    BY <1>1, <1>3, <1>8, <2>1, <2>3, <2>4 DEF Recoverable, Cutoffs
<1>12. SlotsBacked'
  BY <1>1, <1>6 DEF Recoverable, SlotsBacked, NoSlots
<1>13. Quiet'
  BY <1>1, <1>3, <1>5, LeadsEmpty DEF Quiet
<1>14. Applies' /\ Replays' /\ Stages'
  <2>1. pc' = "recycled" => walSynced' = Len(wal')
    BY <1>1, <1>8
  <2> QED
    BY <1>1, <1>3, <2>1 DEF Applies, Replays, Stages, Applying, Committings
<1> QED
  BY <1>9, <1>10, <1>11, <1>12, <1>13, <1>14 DEF Recoverable

-----------------------------------------------------------------------------
(* The group is fsynced, the extents are applied.                           *)

LEMMA GroupSyncRecoverable ==
  ASSUME IInv, IInv', Recoverable, GroupSync
  PROVE  Recoverable'
<1>1. /\ pc = "groupSync" /\ pc' = "apply" /\ walSynced' = Len(wal) /\ pending' = <<>>
      /\ queue' = pending /\ history' = <<Committed>> /\ cont' = cont
      /\ main' = main /\ mainSynced' = mainSynced /\ wal' = wal
      /\ dwb' = dwb /\ ckpt' = ckpt /\ nextLsn' = nextLsn /\ ck' = ck /\ batch' = batch
      /\ mode' = mode
  BY DEF GroupSync, lsns
<1>2. Running /\ Running' /\ Own' = Own /\ JournalEnd' = JournalEnd
  BY <1>1 DEF Running, Reopening, Own, JournalEnd
<1>3. /\ JournalEnd \in Nat /\ Floor \in Nat /\ Floor <= JournalEnd /\ ckpt.cutoff \in Nat
      /\ Len(wal) \in Nat /\ JournalEnd <= Len(wal) /\ Len(history) \in Nat \ {0}
  BY Bounds
<1>4. Floor' = JournalEnd
  BY <1>1, <1>2, <1>3 DEF Floor, Smaller
<1>5. Committed' = Committed
  <2>1. Len(<<Committed>>) = 1 /\ <<Committed>>[1] = Committed
    OBVIOUS
  <2>2. Committed' = history'[Len(history')]
    BY DEF Committed
  <2> QED
    BY <1>1, <2>1, <2>2
<1>6. /\ main = mainSynced /\ Leads(main, pending, Committed)
      /\ Backed(wal, ckpt.cutoff, JournalEnd, pending) /\ dwb = NoSlots
  BY <1>1 DEF Recoverable, Quiet, Applying, Reopening, SlotsBacked
<1>7. Layout'
  <2>1. Settled(wal, JournalEnd, JournalEnd)
    BY <1>3, SettledMore
  <2> QED
    BY <1>1, <1>2, <1>4, <2>1 DEF Recoverable, Layout
<1>8. Cuts'
  <2>1. ~Virgin
    BY <1>1 DEF Virgin
  <2>2. /\ Kept(wal, Floor, JournalEnd, history)
        /\ Safe(wal, Floor, JournalEnd, history, ckpt.cutoff, main)
        /\ Safe(wal, Floor, JournalEnd, history, ckpt.cutoff, mainSynced)
    BY <2>1 DEF Recoverable, Cuts
  <2>3. /\ Kept(wal, JournalEnd, JournalEnd, <<Committed>>)
        /\ Safe(wal, JournalEnd, JournalEnd, <<Committed>>, ckpt.cutoff, main)
        /\ Safe(wal, JournalEnd, JournalEnd, <<Committed>>, ckpt.cutoff, mainSynced)
    BY <1>3, <2>2, KeptForget DEF Committed
  <2> QED
    BY <1>1, <1>2, <1>4, <2>3 DEF Cuts
<1>9. Cutoffs'
  <2>1. ckpt.cutoff <= JournalEnd /\ Boundary(wal, ckpt.cutoff)
    <3>1. ckpt.cutoff <= Floor /\ Boundary(wal, ckpt.cutoff)
      BY <1>1 DEF Recoverable, Cutoffs
    <3> QED
      BY <1>3, <3>1
  <2> QED
    BY <1>1, <1>2, <1>4, <2>1 DEF Recoverable, Cutoffs
<1>10. SlotsBacked'
  BY <1>1, <1>6 DEF Recoverable, SlotsBacked, NoSlots
<1>11. mode.group
  BY <1>1 DEF IInv, Control
<1>12. Applies'
  BY <1>1, <1>2, <1>5, <1>6, <1>11 DEF Applies
<1>13. Quiet' /\ Replays'
  BY <1>1 DEF Quiet, Replays, Applying
<1>14. Stages'
  BY <1>1, <1>2 DEF Recoverable, Stages, Applying, Committings, OwnExtent
<1> QED
  BY <1>7, <1>8, <1>9, <1>10, <1>12, <1>13, <1>14 DEF Recoverable

LEMMA ApplyPagesRecoverable ==
  ASSUME SoundSettings, IInv, IInv', Recoverable, ApplyPages
  PROVE  Recoverable'
<1>1. /\ pc \in {"apply", "stage"} /\ pc' = "applySync" /\ walSynced' = walSynced /\ pending' = pending
      /\ queue' = queue /\ history' = history /\ cont' = cont
      /\ main' = Overlay(main, queue[1].pages) /\ mainSynced' = mainSynced /\ wal' = wal
      /\ dwb' = IF mode.dw THEN SlotPages(queue[1].pages) ELSE dwb
      /\ ckpt' = ckpt /\ nextLsn' = nextLsn /\ ck' = ck /\ batch' = batch
      /\ mode' = mode
  BY DEF ApplyPages, lsns, ghosts
<1>2. /\ Running /\ Running' /\ Own' = Own /\ JournalEnd' = JournalEnd /\ Floor' = Floor
      /\ Committed' = Committed
  BY <1>1 DEF Running, Reopening, Own, JournalEnd, Floor, Committed
<1>3. /\ JournalEnd = Len(wal) /\ Floor = Len(wal) /\ walSynced = Len(wal)
      /\ Parsed(wal, Len(wal)) /\ Committed \in File /\ main \in File
      /\ 1 \in DOMAIN queue /\ pending = <<>> /\ queue[1] \in ExtentType
      /\ Leads(main, queue, Committed) /\ Backed(wal, ckpt.cutoff, Len(wal), queue)
      /\ Len(wal) \in Nat
  BY <1>1, Applied, Bounds DEF Applying
<1>4. \A p \in PageId : queue[1].pages[p] # None => Written(wal, ckpt.cutoff, Floor, p)
  BY <1>3 DEF Backed
<1>5. ~Virgin
  BY <1>1 DEF Virgin
<1>6. /\ Safe(wal, Floor, JournalEnd, history, ckpt.cutoff, main)
      /\ Safe(wal, Floor, JournalEnd, history, ckpt.cutoff, mainSynced)
      /\ Kept(wal, Floor, JournalEnd, history)
  BY <1>5 DEF Recoverable, Cuts
<1>7. Safe(wal, Floor, JournalEnd, history, ckpt.cutoff, main')
  <2>1. \A p \in PageId : main'[p] = main[p] \/ Written(wal, ckpt.cutoff, Floor, p)
    BY <1>1, <1>4 DEF Overlay
  <2> QED
    BY <1>3, <1>6, <2>1, SafeWritten
<1>8. Layout' /\ Cuts'
  BY <1>1, <1>2, <1>6, <1>7 DEF Recoverable, Layout, Cuts
<1>9. Cutoffs'
  BY <1>1, <1>2 DEF Recoverable, Cutoffs
<1>10. SlotsBacked'
  <2>1. dwb = NoSlots /\ mode.dw \in DoubleWriteModes /\ mode.group \in GroupModes
    BY <1>1 DEF Recoverable, SlotsBacked
  <2>2. \A s \in Slots : dwb'[s] # None => Written(wal, ckpt.cutoff, Floor, dwb'[s].id)
    <3> SUFFICES ASSUME NEW s \in Slots, dwb'[s] # None
                 PROVE  Written(wal, ckpt.cutoff, Floor, dwb'[s].id)
      OBVIOUS
    <3>1. dwb[s] = None /\ queue[1].pages \in PageMap
      BY <1>3, <2>1 DEF NoSlots, ExtentType
    <3>2. mode.dw /\ dwb'[s] = SlotPages(queue[1].pages)[s]
      BY <1>1, <3>1
    <3>3. dwb'[s].id \in Staged(queue[1].pages)
      BY <3>1, <3>2, SlotPagesStaged
    <3> QED
      BY <1>4, <3>3 DEF Staged
  <2>3. FALSE \in DoubleWriteModes => dwb' = NoSlots
    <3>1. FALSE \in DoubleWriteModes => mode.dw = FALSE
      BY <2>1 DEF SoundSettings
    <3> QED
      BY <1>1, <2>1, <3>1
  <2> QED
    BY <1>1, <1>2, <2>1, <2>2, <2>3 DEF SlotsBacked
<1>11. Applies'
  <2>1. Leads(main', queue, Committed)
    BY <1>1, <1>3, LeadsOverlay
  <2>2. \A p \in PageId : queue[1].pages[p] # None => main'[p] = queue[1].pages[p]
    BY <1>1 DEF Overlay
  <2>3. mode.group \/ (batch # None /\ ~Own)
    BY <1>1 DEF Recoverable, Applies, Applying
  <2> QED
    BY <1>1, <1>2, <1>3, <2>1, <2>2, <2>3 DEF Applies
<1>12. Quiet' /\ Replays'
  BY <1>1 DEF Quiet, Replays, Applying
<1>13. Stages'
  BY <1>1, <1>2 DEF Recoverable, Stages, Applying, Committings, OwnExtent
<1> QED
  BY <1>8, <1>9, <1>10, <1>11, <1>12, <1>13 DEF Recoverable

\* Cutting the file to the length of the next extent does not change where the
\* extents lead.
LEMMA LeadsResized ==
  ASSUME NEW q \in Seq(ExtentType), 1 \in DOMAIN q, NEW file, NEW image, Leads(file, q, image)
  PROVE  /\ Leads(Resize(file, q[1].count), q, image)
         /\ \A p \in PageId : q[1].pages[p] # None =>
              Resize(file, q[1].count)[p] = file[p]
<1> DEFINE cut == Resize(file, q[1].count)
<1>1. \A p \in PageId : cut[p] = IF p < q[1].count THEN file[p] ELSE Absent
  BY DEF Resize
<1>2. q[1].count \in Nat /\ PageId \subseteq Int
  <2>1. q[1] \in ExtentType
    OBVIOUS
  <2>2. q[1].count \in Nat
    BY <2>1 DEF ExtentType
  <2> QED
    BY <2>2, PageFileAssumption DEF PageId
<1> HIDE DEF cut
<1>3. ASSUME NEW p \in PageId, \A k \in DOMAIN q : q[k].pages[p] = None
      PROVE  cut[p] = image[p]
  <2>1. file[p] = image[p]
    BY <1>3 DEF Leads
  <2>2. p >= q[1].count => image[p] = Absent
    BY <1>3 DEF Leads
  <2> QED
    BY <1>1, <1>2, <2>1, <2>2
<1>4. \A p \in PageId : q[1].pages[p] # None => p < q[1].count
  BY DEF Leads
<1>5. Leads(cut, q, image)
  BY <1>3 DEF Leads
<1> QED
  BY <1>1, <1>4, <1>5 DEF cut

LEMMA ApplySyncRecoverable ==
  ASSUME SoundSettings, IInv, IInv', Recoverable, ApplySync
  PROVE  Recoverable'
<1>1. /\ pc = "applySync" /\ pc' = "clear" /\ walSynced' = walSynced /\ pending' = pending
      /\ queue' = queue /\ history' = history /\ cont' = cont
      /\ main' = Resize(main, queue[1].count) /\ mainSynced' = main' /\ wal' = wal
      /\ dwb' = dwb /\ ckpt' = ckpt /\ nextLsn' = nextLsn /\ ck' = ck /\ batch' = batch
      /\ mode' = mode
  BY DEF ApplySync, lsns, ghosts
<1>2. /\ Running /\ Running' /\ Own' = Own /\ JournalEnd' = JournalEnd /\ Floor' = Floor
      /\ Committed' = Committed
  BY <1>1 DEF Running, Reopening, Own, JournalEnd, Floor, Committed
<1>3. /\ JournalEnd = Len(wal) /\ Floor = Len(wal) /\ walSynced = Len(wal)
      /\ Parsed(wal, Len(wal)) /\ Committed \in File /\ main \in File
      /\ queue \in Seq(ExtentType) /\ queue[1] \in ExtentType
      /\ 1 \in DOMAIN queue /\ pending = <<>>
      /\ Leads(main, queue, Committed) /\ Backed(wal, ckpt.cutoff, Len(wal), queue)
      /\ Len(wal) \in Nat /\ Len(history) \in Nat \ {0}
  BY <1>1, Applied, Bounds DEF Applying
<1>4. Agrees(wal, Len(wal), Committed) /\ Covered(wal, ckpt.cutoff, Len(wal), main, Committed)
  <2>1. ~Virgin
    BY <1>1 DEF Virgin
  <2> QED
    BY <1>3, <2>1, AtEnd
<1>5. Covered(wal, ckpt.cutoff, Len(wal), main', Committed)
  <2>1. queue[1].count \in Nat
    BY <1>3 DEF ExtentType
  <2> QED
    BY <1>1, <1>3, <1>4, <2>1, CoveredApplied
<1>6. Kept(wal, Len(wal), Len(wal), history)
      /\ Safe(wal, Len(wal), Len(wal), history, ckpt.cutoff, main')
  BY <1>3, <1>4, <1>5, KeptAtEnd DEF Committed
<1>7. Layout' /\ Cuts'
  BY <1>1, <1>2, <1>3, <1>6 DEF Recoverable, Layout, Cuts
<1>8. Cutoffs'
  BY <1>1, <1>2 DEF Recoverable, Cutoffs
<1>9. SlotsBacked'
  BY <1>1, <1>2 DEF Recoverable, SlotsBacked
<1>10. Applies'
  <2>1. Leads(main', queue, Committed)
        /\ \A p \in PageId : queue[1].pages[p] # None => main'[p] = main[p]
    BY <1>1, <1>3, LeadsResized
  <2>2. /\ \A p \in PageId : queue[1].pages[p] # None => main[p] = queue[1].pages[p]
        /\ mode.group \/ (batch # None /\ ~Own)
    BY <1>1 DEF Recoverable, Applies, Applying
  <2>3. \A p \in PageId : queue[1].pages[p] # None => main'[p] = queue[1].pages[p]
    BY <2>1, <2>2
  <2>4. \A p \in PageId : p >= queue[1].count => main'[p] = Absent
    <3>1. queue[1].count \in Nat /\ PageId \subseteq Int
      BY <1>3, PageFileAssumption DEF ExtentType, PageId
    <3> QED
      BY <1>1, <3>1 DEF Resize
  <2> QED
    BY <1>1, <1>2, <1>3, <2>1, <2>2, <2>3, <2>4 DEF Applies
<1>11. Quiet' /\ Replays'
  BY <1>1 DEF Quiet, Replays, Applying
<1>12. Stages'
  BY <1>1, <1>2 DEF Recoverable, Stages, Applying, Committings, OwnExtent
<1> QED
  BY <1>7, <1>8, <1>9, <1>10, <1>11, <1>12 DEF Recoverable

LEMMA ApplyStageRecoverable ==
  ASSUME IInv, IInv', Recoverable, ApplyStage
  PROVE  Recoverable'
<1>1. /\ pc = "apply" /\ pc' = "stage" /\ mode.dw /\ walSynced' = walSynced
      /\ pending' = pending /\ queue' = queue /\ history' = history /\ cont' = cont
      /\ main' = main /\ mainSynced' = mainSynced /\ wal' = wal
      /\ dwb' = dwb /\ ckpt' = ckpt /\ nextLsn' = nextLsn /\ ck' = ck /\ batch' = batch
      /\ mode' = mode
  BY DEF ApplyStage, disk, lsns, ghosts
<1>2. /\ Running /\ Running' /\ Own' = Own /\ JournalEnd' = JournalEnd /\ Floor' = Floor
      /\ Committed' = Committed /\ ~Virgin
  BY <1>1 DEF Running, Reopening, Own, JournalEnd, Floor, Committed, Virgin
<1>3. Layout' /\ Cuts'
  BY <1>1, <1>2 DEF Recoverable, Layout, Cuts
<1>4. Cutoffs' /\ SlotsBacked'
  BY <1>1, <1>2 DEF Recoverable, Cutoffs, SlotsBacked
<1>5. Applies'
  BY <1>1, <1>2 DEF Recoverable, Applies, Applying
<1>6. Quiet' /\ Replays'
  BY <1>1 DEF Quiet, Replays, Applying
<1>7. Stages'
  BY <1>1, <1>2 DEF Recoverable, Stages, Applying, Committings, OwnExtent
<1> QED
  BY <1>3, <1>4, <1>5, <1>6, <1>7 DEF Recoverable

LEMMA ApplyClearRecoverable ==
  ASSUME SoundSettings, IInv, IInv', Recoverable, ApplyClear
  PROVE  Recoverable'
<1>0. /\ main = mainSynced /\ main = Resize(main, queue[1].count)
      /\ \A p \in PageId : queue[1].pages[p] # None => main[p] = queue[1].pages[p]
  <2>1. /\ pc = "clear" /\ main = mainSynced
        /\ \A p \in PageId : queue[1].pages[p] # None => main[p] = queue[1].pages[p]
        /\ \A p \in PageId : p >= queue[1].count => main[p] = Absent
    BY DEF ApplyClear, Recoverable, Applies, Applying
  <2>2. main \in File /\ queue[1].count \in Nat
    BY <2>1, Applied DEF Applying, ExtentType
  <2>3. \A p \in PageId : main[p] = IF p < queue[1].count THEN main[p] ELSE Absent
    BY <2>1, <2>2, PageFileAssumption DEF PageId
  <2> QED
    BY <2>1, <2>2, <2>3 DEF Resize, File
<1>1. /\ pc = "clear" /\ walSynced' = walSynced /\ pending' = pending
      /\ queue' = Tail(queue) /\ history' = history /\ cont' = cont
      /\ main' = Resize(main, queue[1].count) /\ mainSynced' = main' /\ wal' = wal
      /\ dwb' = IF mode.dw THEN NoSlots ELSE dwb
      /\ ckpt' = ckpt /\ nextLsn' = nextLsn /\ ck' = ck
      /\ mode' = mode
      /\ \/ LastExtent /\ pc' = cont /\ batch' = None
         \/ ~LastExtent /\ pc' = "apply" /\ batch' = batch
  BY <1>0 DEF ApplyClear, lsns, ghosts
<1>2. cont \in {"idle", "fuzzy", "full", "close"}
  BY DEF IInv, TypeOK, ProgressOK
<1>3. Running /\ Running' /\ Committed' = Committed /\ (Own' => Own /\ batch' = batch)
  BY <1>1, <1>2 DEF Running, Reopening, Own, Committed
<1>4. /\ JournalEnd = Len(wal) /\ Floor = Len(wal) /\ walSynced = Len(wal)
      /\ Parsed(wal, Len(wal)) /\ LastMark(wal) = Len(wal) /\ Committed \in File /\ main \in File
      /\ queue \in Seq(ExtentType) /\ queue # <<>> /\ queue[1] \in ExtentType
      /\ 1 \in DOMAIN queue /\ pending = <<>>
      /\ Leads(main, queue, Committed) /\ Backed(wal, ckpt.cutoff, Len(wal), queue)
      /\ Len(wal) \in Nat /\ Len(history) \in Nat \ {0}
  BY <1>1, Applied, Bounds DEF Applying
<1>5. JournalEnd' = Len(wal) /\ Floor' = Len(wal)
  <2>1. JournalEnd' = Len(wal)
    BY <1>1, <1>3, <1>4 DEF JournalEnd
  <2>2. pc' # "recycle"
    BY <1>1, <1>2
  <2> QED
    BY <1>1, <1>4, <2>1, <2>2 DEF Floor, Smaller
<1>6. Agrees(wal, Len(wal), Committed) /\ Covered(wal, ckpt.cutoff, Len(wal), main, Committed)
  <2>1. ~Virgin
    BY <1>1 DEF Virgin
  <2> QED
    BY <1>4, <2>1, AtEnd
<1>7. Covered(wal, ckpt.cutoff, Len(wal), main', Committed)
  <2>1. queue[1].count \in Nat
    BY <1>4 DEF ExtentType
  <2> QED
    BY <1>1, <1>4, <1>6, <2>1, CoveredApplied
<1>8. Kept(wal, Len(wal), Len(wal), history)
      /\ Safe(wal, Len(wal), Len(wal), history, ckpt.cutoff, main')
  BY <1>4, <1>6, <1>7, KeptAtEnd DEF Committed
<1>9. Layout' /\ Cuts'
  <2>1. Settled(wal, Len(wal), Len(wal)) /\ Fitting(wal)
    BY <1>4, SettledMore DEF Recoverable, Layout
  <2> QED
    BY <1>1, <1>4, <1>5, <1>8, <2>1 DEF Layout, Cuts
<1>10. Cutoffs'
  <2>1. ckpt.cutoff <= Len(wal) /\ Boundary(wal, ckpt.cutoff)
    BY <1>1, <1>4 DEF Recoverable, Cutoffs
  <2>2. batch' # None => batch' = batch
    BY <1>1
  <2> QED
    BY <1>1, <1>2, <1>3, <1>4, <1>5, <2>1, <2>2 DEF Recoverable, Cutoffs
<1>11. SlotsBacked'
  <2>1. mode.dw \in DoubleWriteModes /\ mode.group \in GroupModes
    BY <1>1 DEF Recoverable, SlotsBacked
  <2>2. dwb' = NoSlots
    <3>1. CASE mode.dw
      BY <1>1, <3>1
    <3>2. CASE ~mode.dw
      <4>1. FALSE \in DoubleWriteModes
        BY <2>1, <3>2, PageFileAssumption
      <4> QED
        BY <1>1, <3>2, <4>1 DEF Recoverable, SlotsBacked
    <3> QED
      BY <3>1, <3>2
  <2> QED
    BY <1>1, <1>2, <2>1, <2>2 DEF SlotsBacked, NoSlots
<1>12. Leads(main', Tail(queue), Committed) /\ Backed(wal, ckpt.cutoff, Len(wal), Tail(queue))
  BY <1>0, <1>1, <1>4, LeadsTail, BackedTail
<1>13. LastExtent => Tail(queue) = <<>>
  BY <1>4, FirstAndRest DEF LastExtent
<1>14. Quiet'
  <2>1. CASE LastExtent
    <3>1. pending' = <<>> /\ Tail(queue) = <<>>
      BY <1>1, <1>4, <1>13, <2>1
    <3>2. Leads(main', pending', Committed') /\ Backed(wal', ckpt'.cutoff, JournalEnd', pending')
      BY <1>1, <1>3, <1>5, <1>12, <3>1
    <3> QED
      BY <1>1, <3>2 DEF Quiet
  <2>2. CASE ~LastExtent
    BY <1>1, <2>2 DEF Quiet, Applying
  <2> QED
    BY <2>1, <2>2
<1>15. Applies'
  <2>1. CASE LastExtent
    BY <1>1, <1>2, <2>1 DEF Applies, Applying
  <2>2. CASE ~LastExtent
    <3>1. mode.group \/ (batch # None /\ ~Own)
      BY <1>1 DEF Recoverable, Applies, Applying
    <3>2. Own' = Own
      BY <1>1, <2>2 DEF Own
    <3> QED
      BY <1>1, <1>3, <1>4, <1>5, <1>12, <2>2, <3>1, <3>2 DEF Applies, Applying
  <2> QED
    BY <2>1, <2>2
<1>16. Replays'
  BY <1>1, <1>2 DEF Replays
<1>17. Stages'
  <2>1. CASE LastExtent
    <3>1. ~Own' /\ batch' = None /\ walSynced' = Len(wal') /\ pending' = <<>>
      BY <1>1, <1>4, <2>1 DEF Own
    <3>2. pc' \in {"idle", "fuzzy", "full", "close"}
      BY <1>1, <1>2, <2>1
    <3> QED
      BY <3>1, <3>2 DEF Stages, Applying, Committings
  <2>2. CASE ~LastExtent
    BY <1>1, <1>3, <2>2 DEF Recoverable, Stages, Applying, Committings, OwnExtent, Own
  <2> QED
    BY <2>1, <2>2
<1> QED
  BY <1>9, <1>10, <1>11, <1>14, <1>15, <1>16, <1>17 DEF Recoverable

-----------------------------------------------------------------------------
(* The commit point.                                                        *)

\* The extent of the open batch, once its marker is in the journal, is a finished
\* extent that makes what the batch shows the committed image.
LEMMA OwnFinished ==
  ASSUME IInv, Recoverable, Allocated, Own, OwnExtent,
         Len(wal) = batch.start + OwnRecords + 2, wal[Len(wal)] = Mark(seq + 1)
  PROVE  /\ batch \in Batch /\ JournalEnd = batch.start /\ batch.start \in Nat
         /\ batch.start < Len(wal)
         /\ ExtentEnd(wal, batch.start + 1) = Len(wal)
         /\ Finished(wal, batch.start, batch.pages)
         /\ wal[batch.start + 1].count = count /\ count \in Nat /\ seq \in Nat
         /\ Promised = Overlay(Committed, batch.pages) /\ Promised \in File
         /\ \A p \in PageId : p >= count => Promised[p] = Absent
         /\ \A p \in PageId : batch.pages[p] # None => p < count
<1>1. batch \in Batch /\ batch # None /\ JournalEnd = batch.start
  BY DEF Own, IInv, TypeOK, MemoryOK, JournalEnd
<1>2. /\ batch.start \in Nat /\ batch.pages \in PageMap /\ OwnRecords \in Nat
      /\ Len(wal) \in Nat /\ seq \in Nat /\ count \in Nat /\ Committed \in File
  <2>1. OwnRecords \in Nat
    BY StagedCount DEF OwnRecords, BodyLength
  <2>2. batch.start \in Nat /\ batch.pages \in PageMap
    BY <1>1 DEF Batch
  <2>3. seq \in Nat /\ count \in Nat
    BY DEF IInv, TypeOK, MemoryOK
  <2> QED
    BY <2>1, <2>2, <2>3, Bounds
<1>3. /\ wal[batch.start + 1].kind = "redo" /\ wal[batch.start + 1].pages = batch.pages
      /\ wal[batch.start + 1].count = count /\ wal[batch.start + 1].seq = seq + 1
  BY DEF OwnExtent, RedoBlock, Extent
<1>4. ExtentEnd(wal, batch.start + 1) = Len(wal)
  BY <1>2, <1>3 DEF ExtentEnd, OwnRecords
<1>5. Finished(wal, batch.start, batch.pages)
  <2>1. wal[Len(wal)].kind = "mark" /\ wal[Len(wal)].seq = seq + 1 /\ seq + 1 > 0
    BY <1>2 DEF Mark
  <2>2. \A j \in batch.start + 2 .. Len(wal) - 1 : wal[j].kind = "body"
    <3>1. Len(wal) - 1 = batch.start + OwnRecords + 1
      BY <1>2
    <3> QED
      BY <3>1 DEF OwnExtent, Body
  <2> QED
    BY <1>3, <1>4, <2>1, <2>2 DEF Finished
<1>6. Promised = Overlay(Committed, batch.pages) /\ Promised = Shown
  BY <1>1 DEF Promised, Shown
<1>7. Promised \in File
  <2>1. \A p \in PageId : Overlay(Committed, batch.pages)[p] \in Content
    BY <1>2 DEF Overlay, File, PageMap
  <2> QED
    BY <1>6, <2>1 DEF Overlay, File
<1>8. Describes(Shown, count, active, free)
  <2>1. pc \notin Reopening \cup {"down", "broken", "close"}
    BY DEF OwnExtent, Committings, Reopening
  <2>2. batch.start < Len(wal)
    BY <1>2
  <2> QED
    BY <1>2, <2>1, <2>2 DEF Allocated, Showing
<1>9. \A p \in PageId : p >= count => Promised[p] = Absent
  BY <1>6, <1>8 DEF Describes, Shape
<1>10. \A p \in PageId : batch.pages[p] # None => p < count
  <2>1. batch.start + 1 \in 1 .. Len(wal)
    BY <1>2
  <2>2. Fitting(wal)
    BY DEF Recoverable, Layout
  <2> QED
    BY <1>3, <2>1, <2>2 DEF Fitting
<1>11. batch.start < Len(wal)
  BY <1>2
<1> QED
  BY <1>1, <1>2, <1>3, <1>4, <1>5, <1>6, <1>7, <1>9, <1>10, <1>11

LEMMA CommitPublishRecoverable ==
  ASSUME IInv, IInv', Recoverable, Allocated, CommitPublish
  PROVE  Recoverable'
<1>1. /\ pc = "marked" /\ walSynced' = PublishedLength
      /\ nextLsn' = Larger(nextLsn, batch.lsn + 1)
      /\ wal' = wal /\ main' = main /\ mainSynced' = mainSynced /\ dwb' = dwb
      /\ ckpt' = ckpt /\ ck' = ck /\ mode' = mode
      /\ \/ /\ mode.group /\ pending' = Append(pending, Extent) /\ batch' = None
            /\ history' = Append(history, Promised) /\ pc' \in {"idle", "groupSync"}
         \/ /\ ~mode.group /\ history' = <<Promised>> /\ pending' = pending
            /\ batch' = [batch EXCEPT !.published = TRUE] /\ queue' = <<Extent>>
            /\ pc' = "apply"
  BY DEF CommitPublish, SyncGroup
<1>2. Own /\ OwnExtent
  BY <1>1 DEF Recoverable, Stages, Committings
<1>3. Len(wal) = batch.start + OwnRecords + 2 /\ wal[Len(wal)] = Mark(seq + 1)
  BY <1>1, <1>2 DEF OwnExtent
<1> DEFINE e == batch.start
           d == Len(wal)
<1>4. /\ batch \in Batch /\ JournalEnd = e /\ e \in Nat /\ e < d
      /\ ExtentEnd(wal, e + 1) = d /\ Finished(wal, e, batch.pages)
      /\ wal[e + 1].count = count /\ count \in Nat
      /\ Promised = Overlay(Committed, batch.pages) /\ Promised \in File
      /\ \A p \in PageId : p >= count => Promised[p] = Absent
      /\ \A p \in PageId : batch.pages[p] # None => p < count
  BY <1>2, <1>3, OwnFinished
<1>5. /\ d \in Nat /\ walSynced \in Nat /\ walSynced <= d /\ history \in Seq(File)
      /\ Floor \in Nat /\ Floor <= e /\ Floor = Smaller(walSynced, e) /\ history # <<>>
      /\ ckpt.cutoff \in Nat /\ Parsed(wal, e) /\ Len(history) \in Nat \ {0}
      /\ Running /\ Running' /\ wal \in Seq(Block)
  BY <1>1, <1>4, Bounds, AtEnd DEF Running, Reopening
<1> HIDE DEF e, d
<1>6. Parsed(wal, d) /\ LastMark(wal) = d
  <2>1. Parsed(wal, d)
    BY <1>4, <1>5, FinishedRedos
  <2> QED
    BY <1>5, <2>1, LastMarkWhole DEF d
<1>7. ~Own' /\ JournalEnd' = d
  <2>1. batch' = None \/ batch'.published
    BY <1>1, <1>4 DEF Batch
  <2> QED
    BY <1>1, <1>6, <2>1 DEF Own, JournalEnd
<1>8. walSynced' \in Nat /\ Floor' = walSynced' /\ Floor <= walSynced' /\ walSynced' <= d
  <2>1. walSynced' \in {walSynced, d}
    BY <1>1 DEF PublishedLength, d
  <2>2. Floor <= walSynced /\ Floor <= d
    BY <1>4, <1>5 DEF Smaller
  <2>3. walSynced' \in Nat /\ Floor <= walSynced' /\ walSynced' <= d
    BY <1>5, <2>1, <2>2
  <2>4. pc' # "recycle"
    BY <1>1
  <2> QED
    BY <1>5, <1>7, <2>3, <2>4 DEF Floor, Smaller
<1>9. ckpt.cutoff <= Floor /\ Boundary(wal, ckpt.cutoff) /\ ckpt.cutoff <= e
  <2>1. ckpt.cutoff <= Floor /\ Boundary(wal, ckpt.cutoff)
    BY <1>1 DEF Recoverable, Cutoffs
  <2> QED
    BY <1>4, <1>5, <2>1
<1>10. /\ main = mainSynced /\ Leads(main, pending, Committed)
       /\ Backed(wal, ckpt.cutoff, e, pending) /\ dwb = NoSlots
  BY <1>1, <1>4 DEF Recoverable, Quiet, SlotsBacked, Applying, Reopening
<1>11. /\ Kept(wal, Floor, e, history)
       /\ Safe(wal, Floor, e, history, ckpt.cutoff, main)
  <2>1. ~Virgin
    BY <1>1 DEF Virgin
  <2> QED
    BY <1>4, <2>1 DEF Recoverable, Cuts
<1> DEFINE h == Append(history, Promised)
<1>12. h \in Seq(File) /\ Len(h) \in Nat \ {0} /\ h[Len(h)] = Promised
  BY <1>4, <1>5
<1> HIDE DEF h
<1>13. Kept(wal, Floor, d, h) /\ Safe(wal, Floor, d, h, ckpt.cutoff, main)
  <2>1. /\ Promised = Overlay(history[Len(history)], batch.pages)
        /\ \A p \in PageId : p >= wal[e + 1].count => Promised[p] = Absent
    BY <1>4 DEF Committed
  <2> QED
    BY <1>4, <1>5, <1>9, <1>11, <2>1, KeptFinished DEF h
<1>14. /\ \A p \in PageId : Written(wal, ckpt.cutoff, e, p) => Written(wal, ckpt.cutoff, d, p)
       /\ \A p \in PageId : batch.pages[p] # None => Written(wal, ckpt.cutoff, d, p)
  BY <1>4, <1>5, <1>9, FinishedWritten
<1>15. Committed' = Promised
  <2>1. Committed' = history'[Len(history')]
    BY DEF Committed
  <2>2. Len(<<Promised>>) = 1 /\ <<Promised>>[1] = Promised
    OBVIOUS
  <2> QED
    BY <1>1, <1>12, <2>1, <2>2 DEF h
<1>16. Extent \in ExtentType /\ Extent.pages = batch.pages /\ Extent.count = count
  BY <1>4 DEF Extent, ExtentType, Batch
<1>17. pending \in Seq(ExtentType)
  BY DEF IInv, TypeOK, MemoryOK
<1>18. /\ Leads(main, Append(pending, Extent), Promised)
       /\ Backed(wal, ckpt.cutoff, d, Append(pending, Extent))
  <2>1. /\ \A p \in PageId : Extent.pages[p] # None => p < Extent.count
        /\ \A p \in PageId : p >= Extent.count => Overlay(Committed, Extent.pages)[p] = Absent
        /\ Promised = Overlay(Committed, Extent.pages)
        /\ \A p \in PageId : Extent.pages[p] # None => Written(wal, ckpt.cutoff, d, p)
    BY <1>4, <1>14, <1>16
  <2>2. Leads(main, Append(pending, Extent), Promised)
    BY <1>10, <1>16, <1>17, <2>1, LeadsAppend
  <2> QED
    BY <1>10, <1>14, <1>16, <1>17, <2>1, <2>2, BackedAppend
<1>19. Fitting(wal)
  BY DEF Recoverable, Layout
<1>20. /\ Kept(wal, walSynced', d, history')
       /\ Safe(wal, walSynced', d, history', ckpt.cutoff, main)
       /\ mode.group \/ (walSynced' = d /\ Settled(wal, d, walSynced'))
  <2>1. CASE mode.group
    <3>1. SamePrefix(wal, wal, d)
      BY DEF SamePrefix
    <3>2. history' = h
      BY <1>1, <2>1 DEF h
    <3> QED
      BY <1>5, <1>8, <1>13, <2>1, <3>1, <3>2, KeptPrefix
  <2>2. CASE ~mode.group
    <3>1. walSynced' = d /\ history' = <<h[Len(h)]>>
      BY <1>1, <1>12, <2>2 DEF PublishedLength, d
    <3>2. Floor <= d
      BY <1>4, <1>5
    <3> QED
      BY <1>5, <1>12, <1>13, <3>1, <3>2, KeptForget, SettledMore
  <2> QED
    BY <2>1, <2>2
<1>21. Layout'
  BY <1>1, <1>5, <1>6, <1>7, <1>8, <1>19, <1>20 DEF Layout, d
<1>22. Cuts'
  BY <1>1, <1>7, <1>8, <1>10, <1>20 DEF Cuts
<1>23. nextLsn \in Nat /\ nextLsn' \in Nat /\ nextLsn' >= nextLsn /\ nextLsn' > batch.lsn /\ batch.lsn > 0
       /\ ck.lsn \in Nat
  <2>1. nextLsn \in Nat /\ batch.lsn \in Nat /\ ck.lsn \in Nat
    BY <1>4 DEF IInv, TypeOK, MemoryOK, Batch, Record
  <2>2. batch.lsn > 0
    BY <1>2 DEF Recoverable, Cutoffs, Own
  <2> QED
    BY <1>1, <2>1, <2>2 DEF Larger
<1>24. Cutoffs'
  <2>1. ckpt.cutoff <= walSynced'
    BY <1>5, <1>8, <1>9
  <2>2. nextLsn' > ck.lsn
    <3>1. nextLsn > ck.lsn
      BY <1>1 DEF Recoverable, Cutoffs
    <3> QED
      BY <1>23, <3>1
  <2>3. nextLsn' > 1
    <3>1. batch.lsn \in Nat
      BY <1>4 DEF Batch
    <3> QED
      BY <1>23, <3>1
  <2>4. batch' # None => batch'.lsn > 0
    BY <1>1, <1>4, <1>23 DEF Batch
  <2> QED
    BY <1>1, <1>7, <1>8, <1>9, <2>1, <2>2, <2>3, <2>4 DEF Recoverable, Cutoffs
<1>25. SlotsBacked'
  BY <1>1, <1>10 DEF Recoverable, SlotsBacked, NoSlots
<1>26. Quiet'
  <2>1. CASE mode.group
    BY <1>1, <1>7, <1>10, <1>15, <1>18, <2>1 DEF Quiet
  <2>2. CASE ~mode.group
    BY <1>1, <2>2 DEF Quiet, Applying
  <2> QED
    BY <2>1, <2>2
<1>27. Applies'
  <2>1. CASE mode.group
    BY <1>1, <2>1 DEF Applies, Applying
  <2>2. CASE ~mode.group
    <3>1. pending = <<>>
      BY <1>1, <2>2 DEF IInv, Control
    <3>2. queue' = Append(pending, Extent)
      <4>1. Append(<<>>, Extent) = <<Extent>>
        OBVIOUS
      <4> QED
        BY <1>1, <2>2, <3>1, <4>1
    <3>3. Leads(main', queue', Committed') /\ Backed(wal', ckpt'.cutoff, JournalEnd', queue')
      BY <1>1, <1>7, <1>15, <1>18, <3>2
    <3>4. batch' # None
      <4>1. batch' \in Batch
        BY <2>2, <1>1, <1>4 DEF Batch
      <4> QED
        BY <4>1, NoneAssumption
    <3> QED
      BY <1>1, <1>7, <1>20, <2>2, <3>3, <3>4 DEF Applies, d
  <2> QED
    BY <2>1, <2>2
<1>28. Replays'
  BY <1>1 DEF Replays
<1>29. Stages'
  <2>1. pc' = "idle" => pending' # <<>>
    BY <1>1, <1>17
  <2>2. batch' # None => pc' = "apply" /\ walSynced' = Len(wal')
    BY <1>1, <1>20 DEF d
  <2> QED
    BY <1>1, <1>7, <2>1, <2>2 DEF Stages, Applying, Committings
<1> QED
  BY <1>21, <1>22, <1>24, <1>25, <1>26, <1>27, <1>28, <1>29 DEF Recoverable

LEMMA ClosingRecoverable ==
  ASSUME SoundSettings, IInv, IInv', Recoverable, Closing
  PROVE  Recoverable'
<1>1. /\ pc \in {"close", "broken"} /\ pc' = "down" /\ batch' = None /\ ck' = NoCkpt
      /\ wal' = wal /\ walSynced' = walSynced /\ main' = main /\ mainSynced' = mainSynced
      /\ ckpt' = ckpt /\ dwb' = dwb /\ history' = history /\ pending' = <<>>
  BY DEF Closing, Closed, disk, ghosts
<1>2. ~Own' /\ Running /\ ~Running' /\ ~Virgin
  BY <1>1 DEF Own, Running, Reopening, Virgin
<1>3. /\ Len(wal) \in Nat /\ walSynced \in Nat /\ walSynced <= Len(wal)
      /\ JournalEnd \in Nat /\ Floor \in Nat /\ Floor <= JournalEnd
      /\ Floor = Smaller(walSynced, JournalEnd) /\ ckpt.cutoff \in Nat
  BY <1>1, Bounds
<1>4. Own => pc = "close" /\ Len(wal) = batch.start
  BY <1>1 DEF Recoverable, Stages, OwnExtent, Applying, Committings
<1>5. JournalEnd = Len(wal) /\ Parsed(wal, Len(wal))
  <2>1. JournalEnd = Len(wal)
    BY <1>2, <1>4 DEF Recoverable, Layout, JournalEnd
  <2> QED
    BY <2>1 DEF Recoverable, Layout
<1>6. JournalEnd' = JournalEnd /\ Floor' = Floor
  <2>1. JournalEnd' = JournalEnd
    BY <1>1, <1>2, <1>3, <1>5, LastMarkWhole DEF JournalEnd
  <2> QED
    BY <1>1, <1>3, <2>1 DEF Floor
<1>7. Steady
  BY <1>1, <1>3, <1>6 DEF Steady, SamePrefix
<1>8. Settled(wal, JournalEnd, Floor)
  <2>1. CASE pc = "close"
    <3>1. walSynced = Len(wal)
      <4>1. pending = <<>> /\ (batch = None \/ Own)
        BY <2>1 DEF Recoverable, Stages, Applying, Own
      <4> QED
        BY <1>4, <2>1, <4>1 DEF Recoverable, Stages
    <3>2. Floor = JournalEnd
      BY <1>3, <1>5, <3>1 DEF Smaller
    <3> QED
      BY <1>3, <3>2, SettledMore
  <2>2. CASE pc = "broken"
    <3>1. TRUE \notin GroupModes
      BY <2>2 DEF Recoverable, Stages, SoundSettings
    <3>2. mode.group \in GroupModes
      BY <2>2 DEF Recoverable, SlotsBacked
    <3>3. ~mode.group
      BY <3>1, <3>2, PageFileAssumption
    <3> QED
      BY <3>3 DEF Recoverable, Layout
  <2> QED
    BY <1>1, <2>1, <2>2
<1>9. Layout'
  <2>1. Settled(wal', JournalEnd', Floor') /\ Parsed(wal', JournalEnd')
    BY <1>7, <1>8, SteadyJournal
  <2> QED
    BY <1>1, <1>2, <2>1 DEF Recoverable, Layout
<1>10. Cuts'
  <2>1. /\ Safe(wal, Floor, JournalEnd, history, ckpt.cutoff, main)
        /\ Safe(wal, Floor, JournalEnd, history, ckpt.cutoff, mainSynced)
    BY <1>2 DEF Recoverable, Cuts
  <2> QED
    BY <1>1, <1>7, <2>1, SteadyJournal DEF Cuts
<1>11. Cutoffs'
  <2>1. ck'.cutoff = 0 /\ ~(ck'.cutoff > 0)
    BY <1>1 DEF NoCkpt
  <2> QED
    BY <1>1, <1>2, <1>6, <2>1 DEF Recoverable, Cutoffs
<1>12. SlotsBacked'
  BY <1>1, <1>6 DEF Recoverable, SlotsBacked
<1>13. Quiet' /\ Applies' /\ Replays' /\ Stages'
  BY <1>1, <1>2 DEF Quiet, Applies, Replays, Stages, Applying, Committings
<1> QED
  BY <1>9, <1>10, <1>11, <1>12, <1>13 DEF Recoverable

-----------------------------------------------------------------------------
(* Crashes.                                                                 *)

\* The blocks behind the start of the open batch: no marker, or the marker of its
\* commit as the last block.
LEMMA OwnMarks ==
  ASSUME IInv, Recoverable, Own
  PROVE  \/ NoMarks(wal, batch.start)
         \/ /\ OwnExtent /\ Len(wal) = batch.start + OwnRecords + 2
            /\ wal[Len(wal)] = Mark(seq + 1)
            /\ \A i \in batch.start + 1 .. Len(wal) - 1 : wal[i].kind # "mark"
<1>1. batch \in Batch /\ batch.start \in Nat /\ OwnRecords \in Nat /\ Len(wal) \in Nat
  <2>1. batch \in Batch /\ Len(wal) \in Nat
    BY Bounds DEF Own, IInv, TypeOK, MemoryOK
  <2> QED
    BY <2>1, StagedCount DEF Batch, OwnRecords, BodyLength
<1>2. CASE Len(wal) = batch.start
  BY <1>1, <1>2 DEF NoMarks
<1>3. CASE OwnExtent
  <2>1. \A i \in batch.start + 1 .. batch.start + OwnRecords + 1 : wal[i].kind # "mark"
    <3>1. wal[batch.start + 1].kind # "mark"
      BY <1>3 DEF OwnExtent, RedoBlock
    <3>2. \A i \in batch.start + 2 .. batch.start + OwnRecords + 1 : wal[i].kind # "mark"
      BY <1>3 DEF OwnExtent, Body
    <3>3. \A i \in batch.start + 1 .. batch.start + OwnRecords + 1 :
            i = batch.start + 1 \/ i \in batch.start + 2 .. batch.start + OwnRecords + 1
      BY <1>1
    <3> QED
      BY <3>1, <3>2, <3>3
  <2>2. CASE Len(wal) = batch.start + OwnRecords + 1
    BY <2>1, <2>2 DEF NoMarks
  <2>3. CASE Len(wal) = batch.start + OwnRecords + 2 /\ wal[Len(wal)] = Mark(seq + 1)
    <3>1. Len(wal) - 1 = batch.start + OwnRecords + 1
      BY <1>1, <2>3
    <3> QED
      BY <1>3, <2>1, <2>3, <3>1
  <2> QED
    BY <1>3, <2>2, <2>3 DEF OwnExtent
<1> QED
  BY <1>2, <1>3 DEF Recoverable, Stages

\* A crash leaves the first n blocks of a readable journal, and behind them no
\* marker: the file is recovered to the image these blocks stand for.
LEMMA CrashCut ==
  ASSUME SoundSettings, IInv, IInv', Recoverable, pc # "down", pc \in CrashPoints,
         pc' = "down", batch' = None, ck' = NoCkpt, ckpt' = ckpt,
         FALSE \in DoubleWriteModes => dwb' = NoSlots,
         \A s \in Slots : dwb'[s] # None /\ dwb'[s].whole =>
           Written(wal, ckpt.cutoff, Floor, dwb'[s].id),
         walSynced' = Len(wal'), mainSynced' = main',
         \A p \in PageId : main'[p] = main[p] \/ main'[p] = mainSynced[p] \/ main[p] # mainSynced[p],
         NEW e \in Nat, Parsed(wal, e), NEW h, Floor <= e, Kept(wal, Floor, e, h),
         Safe(wal, Floor, e, h, ckpt.cutoff, main),
         Safe(wal, Floor, e, h, ckpt.cutoff, mainSynced),
         NEW n \in Floor .. e, n <= Len(wal'), SamePrefix(wal, wal', n), NoMarks(wal', n),
         \A i \in 1 .. Len(wal') :
           wal'[i].kind = "redo" => \E j \in 1 .. Len(wal) : wal'[i] = wal[j],
         history' = <<Image(wal, n, e, h)>>
  PROVE  Recoverable'
<1>1. Floor \in Nat /\ ckpt.cutoff \in Nat /\ n \in Nat /\ Floor <= n
  BY Bounds
<1>2. Len(wal') \in Nat
  BY DEF IInv, TypeOK, DiskOK
<1> DEFINE b == LastMark(wal)
<1>3. /\ b' \in Nat /\ b' <= Len(wal') /\ b' <= n /\ Parsed(wal', b')
      /\ Kept(wal', b', b', history')
      /\ \A from, p : Written(wal, from, n, p) => Written(wal', from, b', p)
      /\ \A from, file : Covered(wal, from, n, file, Image(wal, n, e, h))
           => Safe(wal', b', b', history', from, file)
      /\ \A c \in 0 .. n : Boundary(wal, c) => c <= b' /\ Boundary(wal', c)
  BY <1>1, <1>2, KeptCut
<1>4. ~Own' /\ ~Running' /\ JournalEnd' = b'
  BY DEF Own, Running, JournalEnd
<1>5. Floor' = b'
  BY <1>2, <1>3, <1>4 DEF Floor, Smaller
<1> HIDE DEF b
<1>6. Layout'
  <2>1. Settled(wal', b', b')
    BY <1>3, SettledMore
  <2>2. Fitting(wal')
    <3>1. Fitting(wal)
      BY DEF Recoverable, Layout
    <3> QED
      BY <3>1, FittingBlocks
  <2> QED
    BY <1>3, <1>4, <1>5, <2>1, <2>2 DEF Layout
<1>7. Cuts'
  <2>1. /\ Covered(wal, ckpt.cutoff, n, main, Image(wal, n, e, h))
        /\ Covered(wal, ckpt.cutoff, n, mainSynced, Image(wal, n, e, h))
    BY DEF Safe
  <2>2. Covered(wal, ckpt.cutoff, n, main', Image(wal, n, e, h))
    BY <2>1, CoveredMixed
  <2> QED
    BY <1>3, <1>4, <1>5, <2>2 DEF Cuts
<1>8. ckpt.cutoff <= n /\ Boundary(wal, ckpt.cutoff)
  <2>1. CASE pc \in {"recycle", "recycled"}
    <3>1. TRUE \notin FuzzyModes
      BY <2>1 DEF SoundSettings
    <3>2. ckpt.cutoff = 0
      BY <3>1 DEF Recoverable, Cutoffs
    <3> QED
      BY <1>1, <3>2 DEF Boundary
  <2>2. CASE pc \notin {"recycle", "recycled"}
    <3>1. ckpt.cutoff <= Floor /\ Boundary(wal, ckpt.cutoff)
      BY <2>2 DEF Recoverable, Cutoffs
    <3> QED
      BY <1>1, <3>1
  <2> QED
    BY <2>1, <2>2
<1>9. Cutoffs'
  <2>1. ck'.cutoff = 0 /\ ~(ck'.cutoff > 0)
    BY DEF NoCkpt
  <2>2. ckpt'.cutoff <= Floor' /\ Boundary(wal', ckpt'.cutoff)
    BY <1>1, <1>3, <1>5, <1>8
  <2>3. /\ TRUE \notin FuzzyModes => ckpt'.cutoff = 0
        /\ ckpt'.cutoff > 0 => ckpt'.lsn > 0 /\ ckpt'.state = "ok"
    BY DEF Recoverable, Cutoffs
  <2> QED
    BY <1>4, <2>1, <2>2, <2>3 DEF Cutoffs
<1>10. SlotsBacked'
  <2>1. \A s \in Slots : dwb'[s] # None /\ dwb'[s].whole =>
          Written(wal, ckpt.cutoff, n, dwb'[s].id)
    BY <1>1, SettledMore DEF Recoverable, SlotsBacked
  <2> QED
    BY <1>3, <1>5, <2>1 DEF Recoverable, SlotsBacked
<1>11. Quiet' /\ Applies' /\ Replays' /\ Stages'
  BY <1>4 DEF Quiet, Applies, Replays, Stages, Applying, Committings
<1> QED
  BY <1>6, <1>7, <1>9, <1>10, <1>11 DEF Recoverable

\* What a crash makes of the journal and of the main file.
LEMMA CrashLeaves ==
  ASSUME IInv, Recoverable, NEW kind \in Crashes, NEW n \in WalFloor(kind) .. Len(wal),
         wal' = SubSeq(wal, 1, n) \/ (n < Len(wal) /\ wal' = Append(SubSeq(wal, 1, n), TornBlock)),
         WalFloor(kind) \in Nat
  PROVE  /\ n \in Nat /\ n <= Len(wal) /\ Len(wal') \in Nat /\ n <= Len(wal')
         /\ SamePrefix(wal, wal', n)
         /\ \A i \in n + 1 .. Len(wal') : wal'[i].kind = "torn"
         /\ n = Len(wal) => Len(wal') = n
<1>1. wal \in Seq(Block) /\ Len(wal) \in Nat /\ n \in Nat /\ n <= Len(wal)
  BY Bounds
<1>2. /\ SubSeq(wal, 1, n) \in Seq(Block) /\ Len(SubSeq(wal, 1, n)) = n
      /\ \A i \in 1 .. n : SubSeq(wal, 1, n)[i] = wal[i]
  <2>1. SubSeq(wal, 1, n) \in Seq(Block)
    BY <1>1
  <2>2. Len(SubSeq(wal, 1, n)) = n
    BY <1>1
  <2>3. \A i \in 1 .. n : SubSeq(wal, 1, n)[i] = wal[i]
    BY <1>1
  <2> QED
    BY <2>1, <2>2, <2>3
<1>3. CASE wal' = SubSeq(wal, 1, n)
  BY <1>1, <1>2, <1>3 DEF SamePrefix
<1>4. CASE n < Len(wal) /\ wal' = Append(SubSeq(wal, 1, n), TornBlock)
  <2>1. TornBlock \in Block /\ TornBlock.kind = "torn"
    BY DEF TornBlock, Block
  <2>2. Len(wal') = n + 1 /\ wal'[n + 1] = TornBlock
    BY <1>1, <1>2, <1>4, <2>1
  <2>3. \A i \in 1 .. n : wal'[i] = wal[i]
    BY <1>1, <1>2, <1>4, <2>1
  <2> QED
    BY <1>1, <1>4, <2>1, <2>2, <2>3 DEF SamePrefix
<1> QED
  BY <1>3, <1>4

LEMMA CrashPages ==
  ASSUME NEW kind, main' \in FileOutcomes(kind)
  PROVE  \A p \in PageId : \/ main'[p] = main[p] \/ main'[p] = mainSynced[p]
                           \/ main[p] # mainSynced[p]
<1> SUFFICES ASSUME NEW p \in PageId
             PROVE  main'[p] = main[p] \/ main'[p] = mainSynced[p] \/ main[p] # mainSynced[p]
  OBVIOUS
<1>1. main'[p] \in PageOutcomes(kind, p)
  BY DEF FileOutcomes
<1> QED
  BY <1>1 DEF PageOutcomes

\* A crash takes away no more of the journal than Floor says.
LEMMA CrashFloor ==
  ASSUME SoundSettings, IInv, Recoverable, pc \in CrashPoints, NEW kind
  PROVE  /\ WalFloor(kind) \in Nat /\ Floor <= WalFloor(kind)
         /\ pc # "recycle" /\ Floor = Smaller(walSynced, JournalEnd)
         /\ batch # None /\ batch.published => WalFloor(kind) = Len(wal)
<1>1. pc # "recycle"
  BY DEF Recoverable, Cutoffs, SoundSettings
<1>2. /\ Len(wal) \in Nat /\ walSynced \in Nat /\ walSynced <= Len(wal)
      /\ JournalEnd \in Nat /\ JournalEnd <= Len(wal) /\ Floor \in Nat
      /\ Floor = Smaller(walSynced, JournalEnd) /\ Floor <= JournalEnd
  BY <1>1, Bounds
<1>3. Floor <= walSynced
  BY <1>2 DEF Smaller
<1>4. batch # None /\ batch.published => walSynced = Len(wal) /\ pc \in Applying \cup {"broken"}
  BY DEF Recoverable, Stages
<1>5. CASE kind = "power"
  <2>1. WalFloor(kind) = walSynced
    BY <1>5 DEF WalFloor
  <2> QED
    BY <1>1, <1>2, <1>3, <1>4, <2>1
<1>6. CASE kind # "power" /\ pc = "appended"
  <2>1. WalFloor(kind) = batch.start
    BY <1>6 DEF WalFloor
  <2>2. Own /\ JournalEnd = batch.start
    BY <1>6 DEF Recoverable, Stages, JournalEnd, Committings
  <2> QED
    BY <1>1, <1>2, <2>1, <2>2, <1>6 DEF Own
<1>7. CASE kind # "power" /\ pc = "marked"
  <2>1. WalFloor(kind) = Len(wal) - 1
    BY <1>7 DEF WalFloor
  <2>2. Own /\ JournalEnd = batch.start /\ OwnExtent
    BY <1>7 DEF Recoverable, Stages, JournalEnd, Committings
  <2>3. Len(wal) = batch.start + OwnRecords + 2
    BY <1>7, <2>2 DEF OwnExtent
  <2>4. OwnRecords \in Nat
    BY <2>2, StagedCount DEF OwnRecords, BodyLength, Own, IInv, TypeOK, MemoryOK, Batch
  <2>5. Len(wal) - 1 \in Nat /\ JournalEnd <= Len(wal) - 1
    BY <1>2, <2>2, <2>3, <2>4
  <2> QED
    BY <1>1, <1>2, <2>1, <2>2, <2>5 DEF Own
<1>8. CASE kind # "power" /\ pc = "aborting"
  <2>1. WalFloor(kind) = Len(wal) - 2
    BY <1>8 DEF WalFloor
  <2>2. batch = None /\ walSynced <= Len(wal) - 2
    BY <1>8 DEF Recoverable, Stages
  <2>3. Len(wal) - 2 \in Nat /\ Floor <= Len(wal) - 2
    BY <1>2, <1>3, <2>2
  <2> QED
    BY <1>1, <1>2, <2>1, <2>2, <2>3
<1>9. CASE kind # "power" /\ pc \notin {"appended", "marked", "aborting"}
  <2>1. WalFloor(kind) = Len(wal)
    BY <1>1, <1>9 DEF WalFloor
  <2> QED
    BY <1>1, <1>2, <2>1
<1> QED
  BY <1>5, <1>6, <1>7, <1>8, <1>9

\* Without a commit in doubt, what survives is what the finished extents before
\* the cut stand for, and no marker is left behind them.
LEMMA CrashSurvivor ==
  ASSUME SoundSettings, IInv, Recoverable, pc \in CrashPoints, NEW kind,
         NEW n \in WalFloor(kind) .. Len(wal), ~InDoubt(n)
  PROVE  /\ Survivor(n) = Image(wal, Smaller(n, JournalEnd), JournalEnd, history)
         /\ \A i \in JournalEnd + 1 .. n : wal[i].kind # "mark"
<1>1. /\ WalFloor(kind) \in Nat /\ Floor <= WalFloor(kind)
      /\ batch # None /\ batch.published => WalFloor(kind) = Len(wal)
  BY CrashFloor
<1>2. /\ Len(wal) \in Nat /\ JournalEnd \in Nat /\ JournalEnd <= Len(wal) /\ Floor \in Nat
      /\ Floor <= JournalEnd /\ n \in Nat /\ n <= Len(wal) /\ Floor <= n
      /\ Len(history) \in Nat \ {0}
  BY <1>1, Bounds
<1> DEFINE m == Smaller(n, JournalEnd)
           last == IF batch # None THEN Smaller(batch.start, Len(wal)) ELSE Len(wal)
<1>3. m \in Nat /\ m <= n /\ m <= JournalEnd /\ (m = n \/ (m = JournalEnd /\ m < n)) /\ Floor <= m
  BY <1>2 DEF Smaller
<1>4. \A i \in JournalEnd + 1 .. n : wal[i].kind # "mark"
  <2>1. CASE Own
    <3>1. JournalEnd = batch.start
      BY <2>1 DEF JournalEnd
    <3>2. CASE NoMarks(wal, batch.start)
      BY <1>2, <3>1, <3>2 DEF NoMarks
    <3>3. CASE /\ OwnExtent /\ Len(wal) = batch.start + OwnRecords + 2
               /\ wal[Len(wal)] = Mark(seq + 1)
               /\ \A i \in batch.start + 1 .. Len(wal) - 1 : wal[i].kind # "mark"
      <4>1. wal[Len(wal)].kind = "mark" /\ wal[Len(wal)].seq > 0
        BY <3>3 DEF Mark, IInv, TypeOK, MemoryOK
      <4>2. batch.start + 1 <= Len(wal)
        <5>1. OwnRecords \in Nat /\ batch.start \in Nat
          BY <1>2, <2>1, <3>1, StagedCount DEF OwnRecords, BodyLength, Own, IInv, TypeOK, MemoryOK, Batch
        <5> QED
          BY <1>2, <3>3, <5>1
      <4>3. Len(wal) \in CommitMarks(batch.start + 1, Len(wal))
        BY <1>2, <3>1, <4>1, <4>2 DEF CommitMarks
      <4>4. n # Len(wal)
        BY <2>1, <4>3 DEF InDoubt, Own
      <4>5. \A i \in JournalEnd + 1 .. n : i \in batch.start + 1 .. Len(wal) - 1
        BY <1>2, <3>1, <4>4
      <4> QED
        BY <3>3, <4>5
    <3> QED
      BY <2>1, <3>2, <3>3, OwnMarks
  <2>2. CASE ~Own
    <3>1. NoMarks(wal, JournalEnd)
      BY <1>2, <2>2, LastMarkExists DEF JournalEnd
    <3> QED
      BY <1>2, <3>1 DEF NoMarks
  <2> QED
    BY <2>1, <2>2
<1>5. CommitMarks(n + 1, last) = Marks(wal, m + 1, JournalEnd)
  <2>1. CASE batch # None /\ batch.published
    <3>1. n = Len(wal) /\ m = JournalEnd
      BY <1>1, <1>2, <2>1 DEF Smaller
    <3>2. batch.start \in Nat
      BY <2>1 DEF IInv, TypeOK, MemoryOK, Batch
    <3>3. last <= Len(wal) /\ last \in Nat
      BY <1>2, <2>1, <3>2 DEF Smaller
    <3>4. CommitMarks(n + 1, last) = {}
      BY <1>2, <3>1, <3>3 DEF CommitMarks
    <3>5. Marks(wal, m + 1, JournalEnd) = {}
      BY <1>2, <3>1 DEF Marks
    <3> QED
      BY <3>4, <3>5
  <2>2. CASE batch = None \/ Own
    <3>1. /\ last \in Nat /\ JournalEnd <= last
          /\ \A i \in JournalEnd + 1 .. last : wal[i].kind # "mark"
      <4>1. CASE Own
        <5>1. last = JournalEnd
          BY <1>2, <4>1 DEF JournalEnd, Own, Smaller
        <5> QED
          BY <1>2, <5>1
      <4>2. CASE batch = None
        <5>1. last = Len(wal) /\ NoMarks(wal, JournalEnd)
          BY <1>2, <4>2, LastMarkExists DEF JournalEnd, Own
        <5> QED
          BY <1>2, <5>1 DEF NoMarks
      <4> QED
        BY <2>2, <4>1, <4>2
    <3> HIDE DEF last, m
    <3>2. ASSUME NEW i \in CommitMarks(n + 1, last)
          PROVE  i \in Marks(wal, m + 1, JournalEnd)
      <4>1. i \in n + 1 .. last /\ wal[i].kind = "mark" /\ wal[i].seq > 0
        BY <3>2 DEF CommitMarks
      <4>2. i <= JournalEnd
        BY <1>2, <3>1, <4>1
      <4>3. i \in m + 1 .. JournalEnd
        BY <1>2, <1>3, <4>1, <4>2
      <4> QED
        BY <4>1, <4>3 DEF Marks
    <3>3. ASSUME NEW i \in Marks(wal, m + 1, JournalEnd)
          PROVE  i \in CommitMarks(n + 1, last)
      <4>1. i \in m + 1 .. JournalEnd /\ wal[i].kind = "mark" /\ wal[i].seq > 0
        BY <3>3 DEF Marks
      <4>2. m = n
        BY <1>2, <1>3, <4>1
      <4>3. i \in n + 1 .. last
        BY <1>2, <3>1, <4>1, <4>2
      <4> QED
        BY <4>1, <4>3 DEF CommitMarks
    <3>4. /\ CommitMarks(n + 1, last) \subseteq Marks(wal, m + 1, JournalEnd)
          /\ Marks(wal, m + 1, JournalEnd) \subseteq CommitMarks(n + 1, last)
      BY <3>2, <3>3
    <3> QED
      BY <3>4
  <2> QED
    BY <2>1, <2>2 DEF Own
<1>6. LostCommits(n) = Lost(wal, m, JournalEnd)
  BY <1>5 DEF LostCommits, Lost
<1>7. Lost(wal, m, JournalEnd) < Len(history)
  <2>1. m \in Floor .. JournalEnd
    BY <1>2, <1>3
  <2> QED
    BY <2>1 DEF Recoverable, Cuts, Kept
<1> HIDE DEF m
<1>8. Survivor(n) = Image(wal, m, JournalEnd, history)
  BY <1>6, <1>7 DEF Survivor, Image
<1> QED
  BY <1>4, <1>8 DEF m

LEMMA CrashRecoverable ==
  ASSUME SoundSettings, IInv, IInv', Recoverable, Allocated, Crash
  PROVE  Recoverable'
<1>1. /\ pc # "down" /\ pc \in CrashPoints /\ pc' = "down" /\ batch' = None /\ ck' = NoCkpt
      /\ ckpt' = ckpt /\ mainSynced' = main' /\ walSynced' = Len(wal')
  BY DEF Crash, Closed
<1>2. PICK kind \in Crashes :
        /\ main' \in FileOutcomes(kind) /\ dwb' \in SlotOutcomes(kind)
        /\ \E n \in WalFloor(kind) .. Len(wal) :
             /\ \/ wal' = SubSeq(wal, 1, n)
                \/ n < Len(wal) /\ wal' = Append(SubSeq(wal, 1, n), TornBlock)
             /\ history' = <<Survivor(n)>>
  BY DEF Crash
<1>12. /\ FALSE \in DoubleWriteModes => dwb' = NoSlots
       /\ \A s \in Slots : dwb'[s] # None /\ dwb'[s].whole =>
            Written(wal, ckpt.cutoff, Floor, dwb'[s].id)
  BY <1>1, <1>2, SlotsLeft
<1>3. PICK n \in WalFloor(kind) .. Len(wal) :
        /\ \/ wal' = SubSeq(wal, 1, n)
           \/ n < Len(wal) /\ wal' = Append(SubSeq(wal, 1, n), TornBlock)
        /\ history' = <<Survivor(n)>>
  BY <1>2
<1>4. WalFloor(kind) \in Nat /\ Floor <= WalFloor(kind)
  BY <1>1, CrashFloor
<1>5. /\ n \in Nat /\ n <= Len(wal) /\ Len(wal') \in Nat /\ n <= Len(wal')
      /\ SamePrefix(wal, wal', n)
      /\ \A i \in n + 1 .. Len(wal') : wal'[i].kind = "torn"
      /\ n = Len(wal) => Len(wal') = n
  BY <1>3, <1>4, CrashLeaves
<1>6. \A p \in PageId : main'[p] = main[p] \/ main'[p] = mainSynced[p] \/ main[p] # mainSynced[p]
  BY <1>2, CrashPages
<1>7. \A i \in 1 .. Len(wal') :
        wal'[i].kind = "redo" => \E j \in 1 .. Len(wal) : wal'[i] = wal[j]
  <2>1. \A i \in 1 .. Len(wal') : i \in 1 .. n \/ i \in n + 1 .. Len(wal')
    BY <1>5
  <2>2. \A i \in 1 .. n : i \in 1 .. Len(wal) /\ wal'[i] = wal[i]
    BY <1>5 DEF SamePrefix
  <2> QED
    BY <1>5, <2>1, <2>2
<1>8. /\ Len(wal) \in Nat /\ JournalEnd \in Nat /\ JournalEnd <= Len(wal)
      /\ Floor \in Nat /\ Floor <= JournalEnd /\ Floor <= n /\ Parsed(wal, JournalEnd)
      /\ history \in Seq(File) /\ history # <<>> /\ Len(history) \in Nat \ {0}
      /\ ckpt.cutoff \in Nat
  BY <1>4, <1>5, Bounds DEF Recoverable, Layout
<1>9. /\ Kept(wal, Floor, JournalEnd, history)
      /\ Safe(wal, Floor, JournalEnd, history, ckpt.cutoff, main)
      /\ Safe(wal, Floor, JournalEnd, history, ckpt.cutoff, mainSynced)
  BY <1>1 DEF Recoverable, Cuts, Virgin
<1>10. CASE InDoubt(n)
  <2>1. Own /\ n = Len(wal) /\ CommitMarks(batch.start + 1, Len(wal)) # {}
    BY <1>10 DEF InDoubt, Own
  <2>2. /\ OwnExtent /\ Len(wal) = batch.start + OwnRecords + 2
        /\ wal[Len(wal)] = Mark(seq + 1)
    <3>1. ~NoMarks(wal, batch.start)
      BY <2>1 DEF NoMarks, CommitMarks
    <3> QED
      BY <2>1, <3>1, OwnMarks
  <2> DEFINE e == batch.start
             d == Len(wal)
             h == Append(history, Promised)
  <2>3. /\ JournalEnd = e /\ e \in Nat /\ e < d
        /\ ExtentEnd(wal, e + 1) = d /\ Finished(wal, e, batch.pages)
        /\ wal[e + 1].count = count
        /\ Promised = Overlay(history[Len(history)], batch.pages) /\ Promised \in File
        /\ \A p \in PageId : p >= wal[e + 1].count => Promised[p] = Absent
    BY <2>1, <2>2, OwnFinished DEF Committed
  <2>4. Len(h) \in Nat \ {0} /\ h[Len(h)] = Promised
    BY <1>8, <2>3
  <2>5. ckpt.cutoff <= e
    <3>1. CASE pc \in {"recycle", "recycled"}
      BY <2>1, <3>1 DEF Recoverable, Stages, Applying, Committings
    <3>2. CASE pc \notin {"recycle", "recycled"}
      <4>1. ckpt.cutoff <= Floor
        BY <3>2 DEF Recoverable, Cutoffs
      <4> QED
        BY <1>8, <2>3, <4>1
    <3> QED
      BY <3>1, <3>2
  <2>6. d \in Nat /\ Floor <= d /\ Floor <= e
    BY <1>8, <2>3
  <2> HIDE DEF e, d, h
  <2>7. Parsed(wal, d)
    BY <1>8, <2>3, FinishedRedos
  <2>8. Kept(wal, Floor, d, h) /\ Safe(wal, Floor, d, h, ckpt.cutoff, main)
        /\ Safe(wal, Floor, d, h, ckpt.cutoff, mainSynced)
    BY <1>8, <1>9, <2>3, <2>5, <2>6, KeptFinished DEF h
  <2>9. n = d /\ n \in Floor .. d /\ Image(wal, n, d, h) = Promised
    <3>1. n = d /\ n \in Floor .. d
      BY <2>1, <2>6 DEF d
    <3>2. Marks(wal, d + 1, d) = {}
      BY <2>6 DEF Marks
    <3>3. Lost(wal, d, d) = 0
      BY <3>2, FS_EmptySet DEF Lost
    <3> QED
      BY <2>4, <3>1, <3>3 DEF Image
  <2>10. history' = <<Image(wal, n, d, h)>>
    BY <1>3, <1>10, <2>9 DEF Survivor
  <2>11. NoMarks(wal', n)
    BY <1>5, <2>1 DEF NoMarks
  <2> QED
    BY <1>1, <1>5, <1>6, <1>7, <1>12, <2>6, <2>7, <2>8, <2>9, <2>10, <2>11, CrashCut
<1>11. CASE ~InDoubt(n)
  <2> DEFINE m == Smaller(n, JournalEnd)
             e == JournalEnd
  <2>1. /\ Survivor(n) = Image(wal, m, e, history)
        /\ \A i \in e + 1 .. n : wal[i].kind # "mark"
    BY <1>1, <1>11, CrashSurvivor
  <2>2. /\ m \in Nat /\ m <= n /\ m <= e /\ m \in Floor .. e /\ (m = n \/ m = e)
        /\ m <= Len(wal')
    BY <1>5, <1>8 DEF Smaller
  <2> HIDE DEF m
  <2>3. SamePrefix(wal, wal', m)
    BY <1>5, <2>2, ShorterPrefix
  <2>4. NoMarks(wal', m)
    <3> SUFFICES ASSUME NEW i \in m + 1 .. Len(wal')
                 PROVE  wal'[i].kind # "mark"
      BY DEF NoMarks
    <3>1. CASE i > n
      <4>1. i \in n + 1 .. Len(wal')
        BY <1>5, <2>2, <3>1
      <4>2. wal'[i].kind = "torn"
        BY <1>5, <4>1
      <4> QED
        BY <4>2
    <3>2. CASE i <= n
      <4>1. i \in e + 1 .. n /\ i \in 1 .. n
        BY <1>5, <1>8, <2>2, <3>2
      <4>2. wal'[i] = wal[i]
        BY <1>5, <4>1 DEF SamePrefix
      <4> QED
        BY <2>1, <4>1, <4>2
    <3> QED
      BY <1>5, <2>2, <3>1, <3>2
  <2>5. history' = <<Image(wal, m, e, history)>>
    BY <1>3, <2>1
  <2>6. e \in Nat /\ Floor <= e /\ Parsed(wal, e)
    BY <1>8
  <2>7. /\ Kept(wal, Floor, e, history)
        /\ Safe(wal, Floor, e, history, ckpt.cutoff, main)
        /\ Safe(wal, Floor, e, history, ckpt.cutoff, mainSynced)
    BY <1>9
  <2> HIDE DEF e
  <2> QED
    BY <1>1, <1>5, <1>6, <1>7, <1>12, <2>2, <2>3, <2>4, <2>5, <2>6, <2>7, CrashCut
<1> QED
  BY <1>10, <1>11

-----------------------------------------------------------------------------
(* Every step leaves a file that can be recovered.                          *)

LEMMA RecoverableStep ==
  ASSUME SoundSettings, IInv, IInv', Recoverable, Allocated, Asked, Next
  PROVE  Recoverable'
<1>1. CASE Opening
  BY <1>1, CreateRecoverable, OpenRecoverable, OpenRefusedRecoverable, SlotsRefusedRecoverable,
     RecoverRecoverable, RedoTruncateRecoverable DEF Opening
<1>2. CASE Changing
  BY <1>2, BeginRecoverable, ChangingRecoverable, RollbackRecoverable,
     SyncAbortRecoverable DEF Changing
<1>3. CASE Committing
  BY <1>3, CommitEmptyRecoverable, CommitAppendRecoverable, CommitPreparedRecoverable,
     CommitMarkRecoverable, CommitPublishRecoverable, GroupSyncRecoverable,
     ApplyStageRecoverable, ApplyPagesRecoverable, ApplySyncRecoverable, ApplyClearRecoverable
  DEF Committing
<1>4. CASE Checkpointing
  BY <1>4, CheckpointRecoverable, CheckpointFuzzyRecoverable, CheckpointRecycleRecoverable,
     RecycleSyncRecoverable, CheckpointRecycledRecoverable, CheckpointWriteRecoverable
  DEF Checkpointing
<1>5. CASE Close \/ Closing
  BY <1>5, CloseRecoverable, ClosingRecoverable
<1>6. CASE Failing
  BY <1>6, FaultCommitRecoverable, FaultFatalRecoverable, NoGroupFault,
     FaultCheckpointRecoverable, CrashRecoverable DEF Failing
<1> QED
  BY <1>1, <1>2, <1>3, <1>4, <1>5, <1>6 DEF Next

=============================================================================
