------------------------- MODULE PageFileInvariant -------------------------
(***************************************************************************)
(* What holds of the page file between any two of its steps, as long as    *)
(* its settings are sound: the journal can be read extent by extent, every *)
(* place where a crash may cut it stands for an image that was committed,  *)
(* and what the main file lacks of this image is in the journal behind the *)
(* recorded start of recovery. An inductive invariant.                     *)
(***************************************************************************)
EXTENDS PageFile

\* Settings under which the page file keeps its promises. Double-write is never
\* switched, nothing fails while commits are grouped or checkpoints leave a part
\* of the journal, and no crash falls between the cut of such a journal and its
\* checkpoint record.
SoundSettings ==
  /\ \A d, e \in DoubleWriteModes : d = e
  /\ IoFaults => TRUE \notin GroupModes /\ TRUE \notin FuzzyModes
  /\ TRUE \in FuzzyModes => CrashPoints \cap {"recycle", "recycled"} = {}

-----------------------------------------------------------------------------
(* The journal as extents: each a header, its records, a marker.            *)

Opens(block) == block.kind \in {"redo", "abort"}
\* the last block of the extent that begins with block i
ExtentEnd(w, i) ==
  IF w[i].kind = "redo" THEN i + BodyLength(w[i].pages) + 1 ELSE i + 1
\* an extent ends with block n, or the journal begins behind it
Boundary(w, n) == n = 0 \/ w[n].kind = "mark"
Whole(w, i, n) ==
  /\ ExtentEnd(w, i) <= n
  /\ \A j \in i + 1 .. ExtentEnd(w, i) - 1 : w[j].kind = "body"
  /\ w[ExtentEnd(w, i)].kind = "mark"
  /\ w[i].kind = "redo" => w[ExtentEnd(w, i)].seq = w[i].seq
\* the first n blocks are whole extents
Parsed(w, n) ==
  /\ Boundary(w, n)
  /\ \A b \in 0 .. n - 1 : Boundary(w, b) => Opens(w[b + 1])
  /\ \A i \in 1 .. n : Opens(w[i]) => Whole(w, i, n)
\* the pages an extent writes are pages of the file it leaves
Fitting(w) ==
  \A i \in 1 .. Len(w) : w[i].kind = "redo" =>
    \A p \in PageId : w[i].pages[p] # None => p < w[i].count

NoMarks(w, n) == \A i \in n + 1 .. Len(w) : w[i].kind # "mark"
LastMark(w) == CHOOSE n \in 0 .. Len(w) : Boundary(w, n) /\ NoMarks(w, n)

\* redo extents that end within the first n blocks; those that write page p
Redos(w, n) == {i \in 1 .. n : w[i].kind = "redo" /\ ExtentEnd(w, i) <= n}
Writers(w, n, p) == {i \in Redos(w, n) : w[i].pages[p] # None}
Written(w, from, n, p) == \E i \in Writers(w, n, p) : i > from
\* no crash takes away a redo extent
Settled(w, end, floor) == \A i \in Redos(w, end) : ExtentEnd(w, i) <= floor

\* replaying the first n blocks leaves what the image has: of each page the last
\* extent that writes it, and nothing cut off for good that the image has
Agrees(w, n, image) ==
  \A p \in PageId :
    /\ \A i \in Writers(w, n, p) :
         (\A j \in Writers(w, n, p) : j <= i) => w[i].pages[p] = image[p]
    /\ \A i \in Redos(w, n) :
         p >= w[i].count => image[p] = Absent \/ Written(w, i, n, p)
\* what a file lacks of the image is written by the extents behind a block
Covered(w, from, n, file, image) ==
  \A p \in PageId : file[p] = image[p] \/ Written(w, from, n, p)

\* finished commits lost with the blocks behind n, and the image that leaves
Marks(w, from, to) == {i \in from .. to : w[i].kind = "mark" /\ w[i].seq > 0}
Lost(w, n, end) == Cardinality(Marks(w, n + 1, end))
Image(w, n, end, images) == images[Len(images) - Lost(w, n, end)]
Kept(w, floor, end, images) ==
  \A n \in floor .. end :
    /\ Lost(w, n, end) < Len(images)
    /\ Agrees(w, n, Image(w, n, end, images))
Safe(w, floor, end, images, from, file) ==
  \A n \in floor .. end : Covered(w, from, n, file, Image(w, n, end, images))

\* applying the extents of q one by one to the file leads to the image
Leads(file, q, image) ==
  \A p \in PageId :
    /\ (\A k \in DOMAIN q : q[k].pages[p] = None) => file[p] = image[p]
    /\ \A k \in DOMAIN q : q[k].pages[p] # None =>
         /\ p < q[k].count
         /\ (\A j \in DOMAIN q : q[j].pages[p] # None => j <= k) =>
              q[k].pages[p] = image[p]
    /\ \A k \in DOMAIN q : p >= q[k].count =>
         image[p] = Absent \/ \E j \in DOMAIN q : j > k /\ q[j].pages[p] # None
Backed(w, from, n, q) ==
  \A k \in DOMAIN q, p \in PageId : q[k].pages[p] # None => Written(w, from, n, p)

-----------------------------------------------------------------------------
(* The journal, the main file and the operation in progress.                *)

Running == pc \notin Reopening \cup {"down"}
\* a batch whose commit has not come back
Own == batch # None /\ ~batch.published
\* finished extents end here; what a crash may not take ends at Floor
JournalEnd == IF Own THEN batch.start ELSE LastMark(wal)
Floor == IF pc = "recycle" THEN JournalEnd ELSE Smaller(walSynced, JournalEnd)

\* The journal is a sequence of whole extents, with at most the extent of the
\* open batch, or what a crash left of one, behind them.
Layout ==
  /\ Parsed(wal, JournalEnd) /\ Fitting(wal)
  /\ Running /\ ~Own => JournalEnd = Len(wal)
  /\ (Running /\ mode.group) \/ Settled(wal, JournalEnd, Floor)

\* a file that was never opened
Virgin ==
  /\ pc = "down" /\ main = EmptyFile /\ mainSynced = EmptyFile /\ wal = <<>>
  /\ ckpt = NoCkpt /\ dwb = NoSlots
  /\ history = <<[EmptyFile EXCEPT ![0] = Header(1)]>>

\* Wherever a crash may cut the journal, recovery makes the image of the commits
\* that survive, from the main file as it is and as it was last fsynced.
Cuts ==
  /\ Kept(wal, Floor, JournalEnd, history)
  /\ Virgin \/
       /\ Safe(wal, Floor, JournalEnd, history, ckpt.cutoff, main)
       /\ Safe(wal, Floor, JournalEnd, history, ckpt.cutoff, mainSynced)

\* Recovery starts at the end of an extent that no crash takes away.
Cutoffs ==
  /\ pc \notin {"recycle", "recycled"} =>
       ckpt.cutoff <= Floor /\ Boundary(wal, ckpt.cutoff)
  /\ TRUE \notin FuzzyModes => ck.cutoff = 0 /\ ckpt.cutoff = 0
  /\ pc # "ckptWrite" => ck.cutoff \in {0, ckpt.cutoff}
  /\ pc = "ckptWrite" => ck.cutoff \in {0, Len(wal)}
  /\ pc \in {"recycle", "recycled"} => ck.cutoff = 0
  /\ pc \in {"redoCkpt", "redoTruncate", "rebuild"} => ck.cutoff = 0 /\ ckpt.cutoff = 0
  /\ pc = "recycle" => TRUE \in FuzzyModes
  /\ ck.cutoff > 0 => ck.lsn > 0 /\ ck.state = "ok"
  /\ ckpt.cutoff > 0 => ckpt.lsn > 0 /\ ckpt.state = "ok"
  /\ pc \in {"doubleWrite", "restored", "redo", "redoSync"} => ck = ckpt
  /\ pc # "down" => nextLsn > ck.lsn
  /\ Running /\ JournalEnd > 0 => nextLsn > 1
  /\ batch # None => batch.lsn > 0

\* Slots are in use only while they may be needed, for pages the journal has.
SlotsBacked ==
  /\ \A s \in Slots : dwb[s] # None /\ dwb[s].whole =>
       Written(wal, ckpt.cutoff, Floor, dwb[s].id)
  /\ pc \notin {"applySync", "clear", "broken", "down", "doubleWrite", "restored"} =>
       dwb = NoSlots
  /\ FALSE \in DoubleWriteModes => dwb = NoSlots
  /\ pc \in {"stage", "doubleWrite", "restored"} => mode.dw
  /\ pc # "down" => mode.group \in GroupModes /\ mode.dw \in DoubleWriteModes

\* Between operations the main file is fsynced and lacks the pending extents only.
Quiet ==
  pc \notin Applying \cup Reopening \cup {"down", "broken"} =>
    /\ main = mainSynced /\ Leads(main, pending, Committed)
    /\ Backed(wal, ckpt.cutoff, JournalEnd, pending)

\* applyExtent leads to the committed image.
Applies ==
  pc \in Applying =>
    /\ Leads(main, queue, Committed)
    /\ Backed(wal, ckpt.cutoff, JournalEnd, queue)
    /\ pc \in {"applySync", "clear"} =>
         \A p \in PageId : queue[1].pages[p] # None => main[p] = queue[1].pages[p]
    /\ pc = "clear" =>
         main = mainSynced /\ \A p \in PageId : p >= queue[1].count => main[p] = Absent
    /\ walSynced = Len(wal)
    /\ mode.group \/ (batch # None /\ ~Own)

\* the extents recovery still has to replay begin behind this block
Replayed == IF pc = "redoSync" THEN off + 1 ELSE off
\* Replaying leads to the committed image.
Replays ==
  /\ pc \in {"redo", "redoSync"} =>
       /\ off <= JournalEnd /\ Boundary(wal, off) /\ ckpt.cutoff <= off
       /\ Covered(wal, Replayed, JournalEnd, main, Committed)
  /\ pc = "redo" =>
       main = mainSynced \/ \A i \in Redos(wal, JournalEnd) : i <= ckpt.cutoff \/ i > off
  /\ pc = "redoSync" =>
       /\ off < JournalEnd /\ NextExtent.kind = "redo"
       /\ \A p \in PageId : NextExtent.pages[p] # None => main[p] = NextExtent.pages[p]
  /\ pc \in {"redoCkpt", "redoTruncate", "rebuild"} =>
       main = Committed /\ mainSynced = Committed
  /\ pc = "rebuild" => wal = <<>>

\* the extent of the open batch, with or without its marker
OwnRecords == BodyLength(batch.pages)
OwnExtent ==
  /\ wal[batch.start + 1] = RedoBlock(Extent, batch.lsn, seq + 1)
  /\ \A i \in batch.start + 2 .. batch.start + OwnRecords + 1 : wal[i] = Body
  /\ \/ Len(wal) = batch.start + OwnRecords + 1 /\ pc # "marked"
     \/ /\ Len(wal) = batch.start + OwnRecords + 2 /\ wal[Len(wal)] = Mark(seq + 1)
        /\ pc \notin {"appended", "prepared"}
  /\ pc \in Committings \/ (pc = "idle" /\ batch.doomed)
  /\ batch.touched

\* Where a batch may be open, what it has written, and where all is fsynced.
Stages ==
  /\ Own => pc \in {"idle", "groupSync", "close"} \cup Applying \cup Committings
  /\ Own => (Len(wal) = batch.start /\ pc \notin Committings) \/ OwnExtent
  /\ Own /\ pc \in {"groupSync", "close"} \cup Applying => ~batch.doomed
  /\ Own /\ pc \in {"groupSync"} \cup Applying => cont = "close"
  /\ pc \in Committings => Own
  /\ batch # None /\ batch.published =>
       pc \in Applying \cup {"broken"} /\ walSynced = Len(wal)
  /\ pc = "close" => pending = <<>>
  /\ pc = "broken" => IoFaults
  /\ pc = "aborting" => batch = None /\ walSynced <= Len(wal) - 2
  /\ pending = <<>> /\ (batch = None \/ Len(wal) = batch.start)
       /\ pc \in {"idle", "close", "fuzzy", "full", "recycled", "ckptWrite"}
     => walSynced = Len(wal)

\* A fuzzy checkpoint is under way only where callers ask for one.
Asked == "fuzzy" \in {pc, cont} => TRUE \in FuzzyModes

\* The journal, the main file and the checkpoint record always suffice.
Recoverable ==
  /\ Layout /\ Cuts /\ Cutoffs /\ SlotsBacked
  /\ Quiet /\ Applies /\ Replays /\ Stages

-----------------------------------------------------------------------------
(* Images of the file, and the allocation that describes them.              *)

\* a header that counts the pages behind it
Shape(image) ==
  /\ image[0].n \in 1 .. MaxPages /\ image[0] = Header(image[0].n)
  /\ \A p \in PageId : p >= image[0].n => image[p] = Absent
  /\ \A p \in PageId : p # 0 /\ p < image[0].n => image[p].kind \in {"data", "free"}
\* count_, active_ and free_ of a file that holds the image
Describes(image, n, generations, released) ==
  /\ Shape(image) /\ image[0].n = n /\ generations = ActivePages(image)
  /\ \A i \in DOMAIN released :
       /\ image[released[i].id].kind = "free"
       /\ released[i].gen = image[released[i].id].n
  /\ \A i, j \in DOMAIN released : released[i].id = released[j].id => i = j
  /\ \A p \in PageId : image[p].kind = "free" =>
       \E i \in DOMAIN released : released[i].id = p
\* what the open batch shows
Shown == IF Own THEN Overlay(Committed, batch.pages) ELSE Committed

Shapes == \A h \in DOMAIN history : Shape(history[h])
\* the allocation describes what is shown, unless a rollback is due
Showing ==
  pc \notin Reopening \cup {"down", "broken", "close"}
    /\ (Own => ~batch.doomed \/ Len(wal) > batch.start) =>
    Describes(Shown, count, active, free)
\* what a rollback goes back to
GoesBack == Own => Describes(Committed, batch.count, batch.active, batch.free)
Holds(image, pages) == \A p \in PageId : pages[p] # None => image[p] # Absent
\* what a savepoint goes back to
SavedBack ==
  snapshot # None /\ pc # "close" =>
    /\ Own
    /\ Describes(Overlay(Committed, snapshot.pages), snapshot.count,
                 snapshot.active, snapshot.free)
    /\ Holds(Overlay(Committed, snapshot.pages), snapshot.pages)
Unopened == pc = "down" => count = 1 /\ active = [p \in PageId |-> 0] /\ free = <<>>

\* The allocation describes what is shown, what a rollback goes back to, and what
\* a savepoint goes back to; a batch stages pages of the file only.
Allocated ==
  /\ Shapes /\ Showing /\ GoesBack /\ SavedBack /\ Unopened
  /\ Own => Holds(Shown, batch.pages)

\* The inductive invariant of durability.
Durability == IInv /\ Recoverable /\ Allocated /\ Asked

-----------------------------------------------------------------------------
(* Generations of pages.                                                    *)

\* the pages of one image go on in the other: none vanishes, no generation goes
\* back, and a released page comes back with a later one
Advances(a, b) ==
  \A p \in PageId :
    a[p].kind \in {"data", "free"} =>
      /\ b[p].kind \in {"data", "free"} /\ b[p].n >= a[p].n
      /\ a[p].kind = "free" /\ b[p].kind = "data" => b[p].n > a[p].n

\* each image goes on in the next ones
Chain(images) == \A i, j \in DOMAIN images : i <= j => Advances(images[i], images[j])
\* The committed images go on in each other, the last one in what the open batch
\* shows and in what a savepoint goes back to.
Generations ==
  /\ Chain(history)
  /\ Own => Advances(Committed, Shown)
  /\ snapshot # None /\ pc # "close" => Advances(Committed, Overlay(Committed, snapshot.pages))

\* Without group commit one image is committed, the batch being applied shows it.
Single ==
  /\ Len(history) = 1
  /\ batch # None /\ batch.published => Promised = Committed

-----------------------------------------------------------------------------
(* LSNs.                                                                    *)

\* Settings under which no checkpoint record is missing when the journal is cut:
\* the record is written right after the cut.
CutsRecorded == ~IoFaults /\ CrashPoints \cap {"recycle", "recycled"} = {}

\* among the extents from a block on is one with this LSN or a later one
Found(w, from, n, lsn) ==
  \E i \in from + 1 .. n : Opens(w[i]) /\ ExtentEnd(w, i) <= n /\ lsn <= w[i].lsn
\* recovery from the first n blocks finds this LSN used
Remembers(w, record, n, lsn) == lsn <= record.lsn \/ Found(w, record.cutoff, n, lsn)

\* What is on disk tells recovery at least the last LSN of a finished extent and,
\* unless a crash takes it away, the last one given out. The open file is ahead
\* of both, recovery once it has read what is left of the journal.
Numbered ==
  /\ Running \/ pc \in {"redoCkpt", "redoTruncate", "rebuild"} => usedLsn < nextLsn
  /\ Own => batch.lsn = nextLsn
  /\ pc = "aborting" => wal[Len(wal) - 1] = AbortBlock(nextLsn - 1)
  /\ pc \notin {"recycle", "recycled"} /\ ckpt.state # "torn" =>
       /\ Remembers(wal, ckpt, Floor, usedLsn)
       /\ Running => Remembers(wal, ckpt, JournalEnd, nextLsn - 1)
  /\ pc \in {"recycle", "recycled", "ckptWrite", "redoCkpt"} => nextLsn - 1 <= ck.lsn
  /\ pc \in {"redoTruncate", "rebuild"} => nextLsn - 1 <= ckpt.lsn
  /\ pc \in {"doubleWrite", "restored"} => ckpt.state # "torn" /\ nextLsn = ckpt.lsn + 1
  /\ pc \in {"redo", "redoSync"} => usedLsn < nextLsn \/ Found(wal, off, Floor, usedLsn)
  /\ pc = "redoSync" => NextExtent.lsn < nextLsn
-----------------------------------------------------------------------------
(* Opening the file again.                                                  *)

\* Settings under which a crash finds no extent, no abort extent and no checkpoint
\* record half written, and no slot of the double-write buffer: nothing fails, no
\* power loss falls into a group that is not fsynced, no crash into the append of an
\* extent, the write of a record or the staging of slots, and no power loss into
\* their clearing.
WholeWrites ==
  /\ ~IoFaults
  /\ "power" \in Crashes => TRUE \notin GroupModes
  /\ TRUE \in DoubleWriteModes => "stage" \notin CrashPoints
  /\ TRUE \in DoubleWriteModes /\ "power" \in Crashes =>
       CrashPoints \cap {"clear", "restored"} = {}
  /\ CrashPoints \cap {"appended", "marked", "aborting", "redoCkpt", "ckptWrite"} = {}

\* an extent leaves a file with a header
Titled(ext) == ext.count > 0 /\ ext.pages[0] # Absent
\* behind block n the journal has all records of one extent, and no marker
Unmarked(w, n) ==
  /\ w[n + 1].kind = "redo" /\ Len(w) = n + 1 + BodyLength(w[n + 1].pages)
  /\ \A i \in n + 2 .. Len(w) : w[i].kind = "body"

\* A file that is not new has its header page, and no extent or slot takes it away.
HasHeader == (main[0] # Absent /\ mainSynced[0] # Absent) \/ (pc = "down" /\ wal = <<>>)
TitledJournal == \A i \in 1 .. Len(wal) : wal[i].kind = "redo" => Titled(wal[i])
TitledExtents(q) == \A k \in DOMAIN q : Titled(q[k])
HeadedSlots ==
  \A s \in Slots : dwb[s] # None /\ dwb[s].whole /\ dwb[s].id = 0 => dwb[s].image # Absent
Headed ==
  HasHeader /\ TitledJournal /\ TitledExtents(pending) /\ TitledExtents(queue) /\ HeadedSlots

\* What a crash leaves can be read: the record is whole, the journal is fsynced but
\* for the block under way, and recovery finds whole extents and at most one whose
\* marker is missing.
Readable ==
  /\ ckpt.state = "torn" => pc \in {"redoCkpt", "ckptWrite"}
  /\ ck.state # "torn"
  /\ (mode.group /\ pc # "down") \/ pc \in {"appended", "marked", "aborting", "recycle"}
       \/ walSynced = Len(wal)
  /\ Own /\ pc = "idle" => Len(wal) = batch.start
  /\ ~Running => Len(wal) = LastMark(wal) \/ Unmarked(wal, LastMark(wal))

Openable == ~refused /\ Headed /\ ~BadSlots /\ Readable
=============================================================================
