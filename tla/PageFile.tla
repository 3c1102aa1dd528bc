------------------------------ MODULE PageFile ------------------------------
(***************************************************************************)
(* The page file of the MiniSQL backend: the main file of pages, its redo  *)
(* journal (.wal), the checkpoint record (.ckpt) and the double-write      *)
(* buffer (.dwb), with write batches, the commit protocol, group commit,   *)
(* checkpoints, crashes and the recovery that runs when the file is opened.*)
(*                                                                         *)
(* Every step of this module ends where a crash leaves a different disk:   *)
(* between two file operations of the code whose order recovery relies on. *)
(* Page contents are abstract; the journal keeps its block structure,      *)
(* because recovery finds its way by block offsets.                        *)
(***************************************************************************)
EXTENDS Integers, Sequences, FiniteSets

CONSTANTS
  MaxPages,          \* bound: pages the main file may grow to
  MaxBatchPages,     \* maxBatchPages(): pages one batch may stage
  GroupCommitPages,  \* groupCommitBytes() in pages
  DoubleWriteSlots,  \* doubleWriteSlots
  OldImages,         \* what the body of an unused slot may still hold
  Vals,              \* what the bytes of a data page may hold
  GroupModes,        \* values MINISQL_GROUP_COMMIT may have at an open
  DoubleWriteModes,  \* values MINISQL_DOUBLEWRITE may have at an open
  FuzzyModes,        \* kinds of checkpoint the callers ask for
  Crashes,           \* "process": the process dies; "power": the machine does
  CrashPoints,       \* program points at which a crash may strike
  IoFaults,          \* whether a write or an fsync may fail
  Savepoints,        \* whether callers take savepoints
  MaxLsn,            \* bound: journal extents
  MaxGen,            \* numeric_limits<uint64_t>::max(), the last generation
  MaxCrashes,        \* bound: crashes
  None               \* no batch, no savepoint, no page content

PageId == 0 .. MaxPages - 1

ASSUME PageFileAssumption ==
  /\ MaxPages \in Nat /\ MaxPages >= 2
  /\ MaxBatchPages \in Nat \ {0}
  /\ GroupCommitPages \in Nat \ {0}
  /\ DoubleWriteSlots \in Nat \ {0}
  /\ MaxLsn \in Nat \ {0} /\ MaxGen \in Nat \ {0} /\ MaxCrashes \in Nat
  /\ GroupModes \subseteq BOOLEAN /\ DoubleWriteModes \subseteq BOOLEAN
  /\ FuzzyModes \subseteq BOOLEAN /\ Crashes \subseteq {"process", "power"}
  /\ IoFaults \in BOOLEAN /\ Savepoints \in BOOLEAN /\ None \notin Vals

VARIABLES
  main,        \* the main file as the operating system shows it
  mainSynced,  \* the main file as the last fsync left it on the medium
  wal,         \* the journal: a sequence of page-sized blocks
  walSynced,   \* how many of its blocks are known to be on the medium
  ckpt,        \* the checkpoint record file
  dwb,         \* used slots of the double-write buffer, as the last fsync left it
  pc,          \* where the page file is in the operation it performs
  cont,        \* what follows once the queue of extents is applied
  mode,        \* groupCommit_ and doubleWrite_, read when the file is opened
  count,       \* count_: pages of the file
  active,      \* active_ (and owners_): generation of the pages in use, or 0
  free,        \* free_: released pages, reused from the back
  batch,       \* batch_: the write batch, or None
  snapshot,    \* a PageFileSavepoint some caller holds, or None
  seq,         \* committedSequence_
  nextLsn,     \* nextLsn_
  ck,          \* checkpointRecord_
  pending,     \* pendingExtents_: committed, neither fsynced nor applied
  queue,       \* extents applyExtent still has to apply
  off,         \* journal blocks recovery has read
  applied,     \* lastAppliedSeq of recovery
  refused,     \* whether the last attempt to open was refused
  history,     \* ghost: committed images, the last one newest, the first fsynced
  usedLsn,     \* ghost: highest LSN of a finished extent
  crashes      \* crashes so far

disk == <<main, mainSynced, wal, walSynced, ckpt, dwb>>
allocation == <<count, active, free>>
lsns == <<seq, nextLsn, ck>>
recovery == <<off, applied>>
ghosts == <<history, usedLsn, crashes>>
vars == <<disk, pc, cont, mode, allocation, batch, snapshot, lsns, pending,
          queue, recovery, refused, ghosts>>

-----------------------------------------------------------------------------
(* Pages, journal blocks, sidecar records.                                 *)

Header(n) == [kind |-> "header", n |-> n, val |-> None]
Data(gen, v) == [kind |-> "data", n |-> gen, val |-> v]
Free(gen) == [kind |-> "free", n |-> gen, val |-> None]
Absent == [kind |-> "absent", n |-> 0, val |-> None]
Torn == [kind |-> "torn", n |-> 0, val |-> None]

RedoBlock(ext, lsn, s) ==
  [kind |-> "redo", lsn |-> lsn, seq |-> s, pages |-> ext.pages,
   count |-> ext.count]
AbortBlock(lsn) == [kind |-> "abort", lsn |-> lsn]
Body == [kind |-> "body"]
Mark(s) == [kind |-> "mark", seq |-> s]
TornBlock == [kind |-> "torn"]

NoCkpt == [state |-> "none", cutoff |-> 0, seq |-> 0, lsn |-> 0]
TornCkpt == [state |-> "torn", cutoff |-> 0, seq |-> 0, lsn |-> 0]

EmptyFile == [p \in PageId |-> Absent]
\* a set of page images: None where it has no image of the page
NoPages == [p \in PageId |-> None]
Staged(pages) == {p \in PageId : pages[p] # None}
Overlay(file, pages) ==
  [p \in PageId |-> IF pages[p] # None THEN pages[p] ELSE file[p]]
Slots == 1 .. DoubleWriteSlots
NoSlots == [s \in Slots |-> None]
\* a slot whose checksum is wrong
TornSlot == [id |-> 0, image |-> Absent, whole |-> FALSE]
\* a buffer that is cut short, or whose header is not valid
TornSlots == [s \in Slots |-> TornSlot]
Resize(file, n) == [p \in PageId |-> IF p < n THEN file[p] ELSE Absent]
FileLength(file) == Cardinality({p \in PageId : file[p] # Absent})

Larger(a, b) == IF a < b THEN b ELSE a
Smaller(a, b) == IF a < b THEN a ELSE b
BodyLength(pages) == 2 * Cardinality(Staged(pages))
Journal(ext, lsn, s) ==
  <<RedoBlock(ext, lsn, s)>> \o [i \in 1 .. BodyLength(ext.pages) |-> Body]

-----------------------------------------------------------------------------
(* Reading.                                                                *)

\* mutant: a later pending extent does not replace an earlier image
MutPendingPages ==
  [p \in PageId |->
     LET holders == {i \in DOMAIN pending : pending[i].pages[p] # None}
     IN IF holders = {} THEN None
        ELSE pending[CHOOSE i \in holders : \A j \in holders : i <= j].pages[p]]
\* pendingPages_: the newest pending image of each page
PendingPages ==
  [p \in PageId |->
     LET holders == {i \in DOMAIN pending : pending[i].pages[p] # None}
     IN IF holders = {} THEN None
        ELSE pending[CHOOSE i \in holders : \A j \in holders : j <= i].pages[p]]

\* mutant: reads in a batch skip its staged pages
MutReadRaw(p) == main[p]
\* readRaw: an open batch hides the pages of the pending extents
ReadRaw(p) ==
  LET pages == IF batch # None THEN batch.pages ELSE PendingPages
  IN IF pages[p] # None THEN pages[p] ELSE main[p]

Committed == history[Len(history)]
Durable == history[1]
\* what a reader must see: its own batch over what is committed
Promised == IF batch = None THEN Committed ELSE Overlay(Committed, batch.pages)

-----------------------------------------------------------------------------
(* The states between operations.                                          *)

Closed ==  \* no process holds the file: memory is gone
  /\ pc' = "down" /\ cont' = "idle" /\ mode' = [group |-> FALSE, dw |-> FALSE]
  /\ count' = 1 /\ active' = [p \in PageId |-> 0] /\ free' = <<>>
  /\ batch' = None /\ snapshot' = None
  /\ seq' = 0 /\ nextLsn' = 1 /\ ck' = NoCkpt
  /\ pending' = <<>> /\ queue' = <<>> /\ off' = 0 /\ applied' = 0

Init ==
  /\ main = EmptyFile /\ mainSynced = EmptyFile /\ wal = <<>> /\ walSynced = 0
  /\ ckpt = NoCkpt /\ dwb = NoSlots
  /\ pc = "down" /\ cont = "idle" /\ mode = [group |-> FALSE, dw |-> FALSE]
  /\ count = 1 /\ active = [p \in PageId |-> 0] /\ free = <<>>
  /\ batch = None /\ snapshot = None
  /\ seq = 0 /\ nextLsn = 1 /\ ck = NoCkpt
  /\ pending = <<>> /\ queue = <<>> /\ off = 0 /\ applied = 0
  /\ refused = FALSE
  /\ history = <<[EmptyFile EXCEPT ![0] = Header(1)]>>
  /\ usedLsn = 0 /\ crashes = 0

-----------------------------------------------------------------------------
(* Opening the file: the constructor, recoverDoubleWrite, recoverJournal.  *)

Refuse ==  \* the constructor throws
  /\ Closed /\ refused' = TRUE /\ UNCHANGED <<disk, ghosts>>

RedoStart(record) ==
  IF record.state = "ok" /\ record.cutoff <= Len(wal) THEN record.cutoff ELSE 0

\* STORAGE_CORRUPTION: the length of the buffer, its header or a slot is wrong
BadSlots == \E s \in Slots : dwb[s] # None /\ ~dwb[s].whole
\* the slots copied to the main file: those before the first bad one
Copied == {s \in Slots : dwb[s] # None /\ \A t \in 1 .. s : dwb[t] = None \/ dwb[t].whole}
\* the last slot of a page wins
SlotImages ==
  [p \in PageId |->
     LET holders == {s \in Copied : dwb[s].id = p}
     IN IF holders = {} THEN None
        ELSE dwb[CHOOSE s \in holders : \A t \in holders : t <= s].image]

Scan(record) ==  \* on to the journal, or to the pages when it is empty
  IF wal = <<>>
  THEN pc' = "rebuild" /\ off' = 0
  ELSE pc' = "redo" /\ off' = RedoStart(record)

Create ==
  /\ pc = "down" /\ main[0] = Absent /\ wal = <<>> /\ ckpt.state # "torn"
  /\ main' = [main EXCEPT ![0] = Header(1)] /\ mainSynced' = main'
  /\ \E g \in GroupModes, d \in DoubleWriteModes : mode' = [group |-> g, dw |-> d]
  /\ ck' = ckpt /\ seq' = ckpt.seq /\ nextLsn' = ckpt.lsn + 1
  /\ pc' = "idle" /\ refused' = FALSE
  /\ UNCHANGED <<wal, walSynced, ckpt, dwb, cont, allocation, batch, snapshot,
                 pending, queue, recovery, ghosts>>

Open ==
  /\ pc = "down" /\ main[0] # Absent /\ ckpt.state # "torn"
  /\ ck' = ckpt /\ seq' = ckpt.seq /\ nextLsn' = ckpt.lsn + 1
  /\ \E g \in GroupModes, d \in DoubleWriteModes :
       /\ mode' = [group |-> g, dw |-> d]
       /\ d => ~BadSlots
       /\ IF d /\ dwb # NoSlots
          THEN /\ main' = Overlay(main, SlotImages)
               /\ pc' = "doubleWrite" /\ off' = 0
          ELSE UNCHANGED main /\ Scan(ckpt)
  /\ refused' = FALSE
  /\ UNCHANGED <<mainSynced, wal, walSynced, ckpt, dwb, cont, allocation, batch,
                 snapshot, pending, queue, applied, ghosts>>

OpenRefused ==
  /\ pc = "down"
  /\ ckpt.state = "torn" \/ (main[0] = Absent /\ wal # <<>>)
  /\ Refuse

\* a bad slot is found when the slots before it are in the main file
SlotsRefused ==
  /\ pc = "down" /\ main[0] # Absent /\ ckpt.state # "torn"
  /\ TRUE \in DoubleWriteModes /\ BadSlots
  /\ main' = Overlay(main, SlotImages) /\ mainSynced' = main'
  /\ Closed /\ refused' = TRUE
  /\ UNCHANGED <<wal, walSynced, ckpt, dwb, ghosts>>

\* the restored pages are fsynced, then the slots are cleared
RecoverDoubleWrite ==
  /\ pc = "doubleWrite" /\ pc' = "restored"
  /\ mainSynced' = main
  /\ UNCHANGED <<main, wal, walSynced, ckpt, dwb, cont, mode, allocation, batch,
                 snapshot, lsns, pending, queue, recovery, refused, ghosts>>

ClearRestored ==
  /\ pc = "restored"
  /\ dwb' = NoSlots /\ Scan(ck)
  /\ UNCHANGED <<main, mainSynced, wal, walSynced, ckpt, cont, mode, allocation,
                 batch, snapshot, lsns, pending, queue, applied, refused, ghosts>>

Has(n) == off + n <= Len(wal)
Kind(n) == IF Has(n) THEN wal[off + n].kind ELSE "end"
NextExtent == wal[off + 1]
Records == BodyLength(NextExtent.pages)
MarkAt == wal[off + Records + 2]

\* mutant: a prepared extent without its marker counts as cut short
MutRedoRefusal ==
  \/ Kind(1) = "torn"
  \/ Kind(1) = "abort" /\ Kind(2) = "torn"
  \/ Kind(1) = "redo" /\ \E i \in 2 .. Records + 2 : Kind(i) \in {"end", "torn"}
RedoRefusal ==  \* STORAGE_CORRUPTION: a page cut short, records missing
  \/ Kind(1) = "torn"
  \/ Kind(1) = "abort" /\ Kind(2) = "torn"
  \/ /\ Kind(1) = "redo"
     /\ \/ \E i \in 2 .. Records + 1 : Kind(i) # "body"
        \/ Kind(Records + 2) = "torn"

\* mutant: an abort extent ends the scan
MutRedoEnd ==
  \/ Kind(1) # "redo"
  \/ Kind(1) = "redo" /\ ~RedoRefusal /\ Kind(Records + 2) # "mark"
RedoEnd ==  \* where recoverJournal breaks out of its loop
  \/ Kind(1) \notin {"torn", "abort", "redo"}
  \/ Kind(1) = "abort" /\ Kind(2) \notin {"mark", "torn"}
  \/ /\ Kind(1) = "redo" /\ ~RedoRefusal
     /\ ~(Kind(Records + 2) = "mark" /\ MarkAt.seq = NextExtent.seq)

RedoRefuse == pc = "redo" /\ RedoRefusal /\ Refuse

\* mutant: the LSN of an abort extent is not counted as used
MutRedoAbort ==
  /\ pc = "redo" /\ Kind(1) = "abort" /\ Kind(2) = "mark" /\ off' = off + 2
  /\ UNCHANGED <<disk, pc, cont, mode, allocation, batch, snapshot, lsns,
                 pending, queue, applied, refused, ghosts>>
RedoAbort ==
  /\ pc = "redo" /\ Kind(1) = "abort" /\ Kind(2) = "mark"
  /\ nextLsn' = Larger(nextLsn, NextExtent.lsn + 1)
  /\ off' = off + 2
  /\ UNCHANGED <<disk, pc, cont, mode, allocation, batch, snapshot, seq, ck,
                 pending, queue, applied, refused, ghosts>>

RedoExtent ==
  /\ pc = "redo" /\ Kind(1) = "redo" /\ ~RedoRefusal /\ ~RedoEnd
  /\ nextLsn' = Larger(nextLsn, NextExtent.lsn + 1)
  /\ applied' = MarkAt.seq
  /\ main' = Overlay(main, NextExtent.pages)
  /\ pc' = "redoSync"
  /\ UNCHANGED <<mainSynced, wal, walSynced, ckpt, dwb, cont, mode, allocation,
                 batch, snapshot, seq, ck, pending, queue, off, refused, ghosts>>

\* mutant: the scan does not move past the extent it applied
MutRedoSync ==
  /\ pc = "redoSync" /\ pc' = "redo"
  /\ main' = Resize(main, NextExtent.count) /\ mainSynced' = main'
  /\ UNCHANGED <<wal, walSynced, ckpt, dwb, cont, mode, allocation, batch,
                 snapshot, lsns, pending, queue, recovery, refused, ghosts>>
RedoSync ==
  /\ pc = "redoSync"
  /\ main' = Resize(main, NextExtent.count) /\ mainSynced' = main'
  /\ off' = off + Records + 2 /\ pc' = "redo"
  /\ UNCHANGED <<wal, walSynced, ckpt, dwb, cont, mode, allocation, batch,
                 snapshot, lsns, pending, queue, applied, refused, ghosts>>

RedoFinish ==
  /\ pc = "redo" /\ RedoEnd
  /\ seq' = Larger(seq, applied)
  /\ nextLsn' = IF Kind(1) = "redo" /\ Kind(Records + 2) = "mark"
                THEN Larger(nextLsn, NextExtent.lsn + 1) ELSE nextLsn
  /\ LET record == [ck EXCEPT !.lsn = Larger(ck.lsn, nextLsn' - 1)]
     IN IF applied > 0 \/ nextLsn' > 1
        THEN /\ ck' = [record EXCEPT !.state = "ok", !.cutoff = 0, !.seq = seq']
             /\ ckpt' = TornCkpt /\ pc' = "redoCkpt"
        ELSE /\ ck' = record /\ pc' = "redoTruncate" /\ UNCHANGED ckpt
  /\ UNCHANGED <<main, mainSynced, wal, walSynced, dwb, cont, mode, allocation,
                 batch, snapshot, pending, queue, recovery, refused, ghosts>>

RedoCkpt ==
  /\ pc = "redoCkpt" /\ ckpt' = ck /\ pc' = "redoTruncate"
  /\ UNCHANGED <<main, mainSynced, wal, walSynced, dwb, cont, mode, allocation,
                 batch, snapshot, lsns, pending, queue, recovery, refused, ghosts>>

RedoTruncate ==
  /\ pc = "redoTruncate" /\ wal' = <<>> /\ walSynced' = 0
  /\ pc' = "rebuild" /\ off' = 0 /\ applied' = 0
  /\ UNCHANGED <<main, mainSynced, ckpt, dwb, cont, mode, allocation, batch,
                 snapshot, lsns, pending, queue, refused, ghosts>>

Consistent(file) ==
  /\ file[0].kind = "header" /\ file[0].n = FileLength(file)
  /\ \A p \in 1 .. FileLength(file) - 1 : file[p].kind \in {"data", "free"}

FreeIds(file) == {p \in PageId : file[p].kind = "free"}
\* free_ as the scan fills it: in page order
FreeList(file) ==
  [i \in 1 .. Cardinality(FreeIds(file)) |->
     LET p == CHOOSE q \in FreeIds(file) :
                Cardinality({r \in FreeIds(file) : r < q}) = i - 1
     IN [id |-> p, gen |-> file[p].n]]
ActivePages(file) ==
  [p \in PageId |-> IF file[p].kind = "data" THEN file[p].n ELSE 0]

Rebuild ==
  /\ pc = "rebuild"
  /\ IF Consistent(main)
     THEN /\ count' = main[0].n /\ active' = ActivePages(main)
          /\ free' = FreeList(main) /\ pc' = "idle"
          /\ UNCHANGED <<disk, cont, mode, batch, snapshot, lsns, pending, queue,
                         recovery, refused, ghosts>>
     ELSE Refuse

-----------------------------------------------------------------------------
(* Write batches. A caller whose operation throws rolls its batch back      *)
(* (Database::rollbackBatch): batch.doomed says it has to.                  *)

Idle == pc = "idle" /\ batch = None
InBatch == pc = "idle" /\ batch # None
Working == InBatch /\ ~batch.doomed

Begin ==
  /\ Idle /\ nextLsn <= MaxLsn
  /\ mainSynced' = main
  /\ batch' = [count |-> count, active |-> active, free |-> free,
               pages |-> NoPages, start |-> Len(wal), lsn |-> nextLsn,
               touched |-> FALSE, published |-> FALSE, doomed |-> FALSE]
  /\ UNCHANGED <<main, wal, walSynced, ckpt, dwb, pc, cont, mode, allocation,
                 snapshot, lsns, pending, queue, recovery, refused, ghosts>>

\* writeRaw in a batch: the pages the staged set has room for
Fits(b, p) == p \in Staged(b.pages) \/ Cardinality(Staged(b.pages)) < MaxBatchPages
Stage(b, p, content) == [b EXCEPT !.pages[p] = content, !.touched = TRUE]

BatchOnly == UNCHANGED <<disk, pc, cont, mode, snapshot, lsns, pending, queue,
                         recovery, refused, ghosts>>

Write ==
  /\ Working
  /\ \E p \in PageId, v \in Vals :
       /\ active[p] # 0
       /\ batch' = IF Fits(batch, p) THEN Stage(batch, p, Data(active[p], v))
                   ELSE [batch EXCEPT !.doomed = TRUE]
  /\ UNCHANGED allocation /\ BatchOnly

\* mutant: a reused page keeps its generation
MutReused(ref) == ref.gen
Reused(ref) == ref.gen + 1  \* generation of a page taken from the free list

AllocateReused ==
  /\ Working /\ free # <<>>
  /\ LET ref == free[Len(free)]
     IN \E v \in Vals :
          IF ref.gen < MaxGen /\ Fits(batch, ref.id)
          THEN /\ batch' = Stage(batch, ref.id, Data(Reused(ref), v))
               /\ active' = [active EXCEPT ![ref.id] = Reused(ref)]
               /\ free' = SubSeq(free, 1, Len(free) - 1)
          ELSE batch' = [batch EXCEPT !.doomed = TRUE] /\ UNCHANGED <<active, free>>
  /\ UNCHANGED count /\ BatchOnly

AllocateAppended ==
  /\ Working /\ free = <<>> /\ count < MaxPages
  /\ \E v \in Vals :
       LET data == Stage(batch, count, Data(1, v))
       IN IF ~Fits(batch, count)
          THEN batch' = [batch EXCEPT !.doomed = TRUE] /\ UNCHANGED <<active, count>>
          ELSE /\ count' = count + 1
               /\ IF Fits(data, 0)
                  THEN /\ batch' = Stage(data, 0, Header(count + 1))
                       /\ active' = [active EXCEPT ![count] = 1]
                  ELSE batch' = [data EXCEPT !.doomed = TRUE] /\ UNCHANGED active
  /\ UNCHANGED free /\ BatchOnly

Release ==
  /\ Working
  /\ \E p \in PageId :
       /\ active[p] # 0
       /\ IF Fits(batch, p)
          THEN /\ batch' = Stage(batch, p, Free(active[p]))
               /\ active' = [active EXCEPT ![p] = 0]
               /\ free' = Append(free, [id |-> p, gen |-> active[p]])
          ELSE batch' = [batch EXCEPT !.doomed = TRUE] /\ UNCHANGED <<active, free>>
  /\ UNCHANGED count /\ BatchOnly

TakeSavepoint ==
  /\ Savepoints /\ Working /\ snapshot = None
  /\ snapshot' = [count |-> count, active |-> active, free |-> free,
                  pages |-> batch.pages]
  /\ UNCHANGED <<disk, pc, cont, mode, allocation, batch, lsns, pending, queue,
                 recovery, refused, ghosts>>

\* mutant: the free list is not put back
MutRestoreAllocation(saved) ==
  count' = saved.count /\ active' = saved.active /\ UNCHANGED free
RestoreAllocation(saved) ==
  count' = saved.count /\ active' = saved.active /\ free' = saved.free

RestoreSavepoint ==
  /\ Working /\ snapshot # None
  /\ RestoreAllocation(snapshot)
  /\ batch' = [batch EXCEPT !.pages = snapshot.pages]
  /\ BatchOnly

\* mutant: cut at what was last fsynced
MutJournalBefore(b) == SubSeq(wal, 1, walSynced)
\* the journal as it was when the batch began
JournalBefore(b) == SubSeq(wal, 1, Smaller(b.start, Len(wal)))

Rollback ==
  /\ InBatch /\ ~batch.published
  /\ RestoreAllocation(batch)
  /\ batch' = None /\ snapshot' = None
  /\ walSynced' = Smaller(walSynced, Len(JournalBefore(batch)))
  /\ IF batch.touched
     THEN /\ wal' = JournalBefore(batch) \o <<AbortBlock(batch.lsn), Mark(0)>>
          /\ nextLsn' = Larger(nextLsn, batch.lsn + 1)
          /\ pc' = "aborting"
     ELSE wal' = JournalBefore(batch) /\ UNCHANGED <<nextLsn, pc>>
  /\ UNCHANGED <<main, mainSynced, ckpt, dwb, cont, mode, seq, ck, pending,
                 queue, recovery, refused, ghosts>>

SyncAbort ==
  /\ pc = "aborting" /\ pc' = "idle"
  /\ walSynced' = Len(wal) /\ usedLsn' = nextLsn - 1
  /\ UNCHANGED <<main, mainSynced, wal, ckpt, dwb, cont, mode, allocation,
                 batch, snapshot, lsns, pending, queue, recovery, refused,
                 history, crashes>>

-----------------------------------------------------------------------------
(* commitWriteBatch: records, fsync, commit marker, fsync, apply.          *)

Extent == [pages |-> batch.pages, count |-> count]

CommitEmpty ==
  /\ Working /\ batch.pages = NoPages
  /\ batch' = None /\ snapshot' = None
  /\ UNCHANGED <<disk, pc, cont, mode, allocation, lsns, pending, queue,
                 recovery, refused, ghosts>>

CommitAppend ==
  /\ Working /\ batch.pages # NoPages
  /\ IF Fits(batch, 0)
     THEN LET staged == Stage(batch, 0, Header(count))
              extent == [pages |-> staged.pages, count |-> count]
          IN /\ batch' = staged
             /\ wal' = wal \o Journal(extent, batch.lsn, seq + 1)
             /\ pc' = "appended"
     ELSE batch' = [batch EXCEPT !.doomed = TRUE] /\ UNCHANGED <<wal, pc>>
  /\ UNCHANGED <<main, mainSynced, walSynced, ckpt, dwb, cont, mode, allocation,
                 snapshot, lsns, pending, queue, recovery, refused, ghosts>>

CommitPrepared ==
  /\ pc = "appended" /\ pc' = "prepared"
  /\ walSynced' = IF mode.group THEN walSynced ELSE Len(wal)
  /\ UNCHANGED <<main, mainSynced, wal, ckpt, dwb, cont, mode, allocation, batch,
                 snapshot, lsns, pending, queue, recovery, refused, ghosts>>

CommitMark ==
  /\ pc = "prepared" /\ pc' = "marked"
  /\ wal' = Append(wal, Mark(seq + 1))
  /\ UNCHANGED <<main, mainSynced, walSynced, ckpt, dwb, cont, mode, allocation,
                 batch, snapshot, lsns, pending, queue, recovery, refused, ghosts>>

GroupPages(group) ==  \* pendingBytes_, in pages
  Cardinality({x \in (DOMAIN group) \X PageId : group[x[1]].pages[x[2]] # None})

\* mutant: a checkpoint does not wait for the group
MutSyncGroup(next) == pc' = next /\ UNCHANGED cont
SyncGroup(next) ==  \* syncJournalGroup, then next
  IF pending' = <<>> THEN pc' = next /\ UNCHANGED cont
  ELSE pc' = "groupSync" /\ cont' = next

\* mutant: the commit marker is never fsynced
MutPublishedLength == walSynced
\* the fsync of the commit marker, put off by group commit
PublishedLength == IF mode.group THEN walSynced ELSE Len(wal)

CommitPublish ==
  /\ pc = "marked"
  /\ seq' = seq + 1 /\ nextLsn' = Larger(nextLsn, batch.lsn + 1)
  /\ snapshot' = None /\ walSynced' = PublishedLength
  /\ IF mode.group
     THEN /\ pending' = Append(pending, Extent)
          /\ batch' = None
          /\ history' = Append(history, Promised)
          /\ IF GroupPages(pending') >= GroupCommitPages
             THEN SyncGroup("idle") ELSE pc' = "idle" /\ UNCHANGED cont
          /\ UNCHANGED <<queue, usedLsn>>
     ELSE /\ history' = <<Promised>>
          /\ usedLsn' = batch.lsn
          /\ batch' = [batch EXCEPT !.published = TRUE]
          /\ queue' = <<Extent>>
          /\ pc' = "apply" /\ cont' = "idle"
          /\ UNCHANGED pending
  /\ UNCHANGED <<main, mainSynced, wal, ckpt, dwb, mode, allocation, ck,
                 recovery, refused, crashes>>

GroupSync ==
  /\ pc = "groupSync"
  /\ walSynced' = Len(wal) /\ usedLsn' = nextLsn - 1
  /\ history' = <<Committed>>
  /\ queue' = pending /\ pending' = <<>>
  /\ pc' = "apply"
  /\ UNCHANGED <<main, mainSynced, wal, ckpt, dwb, cont, mode, allocation, batch,
                 snapshot, lsns, recovery, refused, crashes>>

\* stageDoubleWrite: the pages of an extent, lowest ids first, while slots last
SlotPages(pages) ==
  [s \in Slots |->
     LET mine == {p \in Staged(pages) :
                    Cardinality({q \in Staged(pages) : q < p}) = s - 1}
     IN IF mine = {} THEN dwb[s]
        ELSE LET p == CHOOSE p \in mine : TRUE
             IN [id |-> p, image |-> pages[p], whole |-> TRUE]]

ApplyStage ==
  /\ pc = "apply" /\ mode.dw /\ pc' = "stage"
  /\ UNCHANGED <<disk, cont, mode, allocation, batch, snapshot, lsns, pending,
                 queue, recovery, refused, ghosts>>

ApplyPages ==
  /\ pc = IF mode.dw THEN "stage" ELSE "apply"
  /\ main' = Overlay(main, queue[1].pages)
  /\ dwb' = IF mode.dw THEN SlotPages(queue[1].pages) ELSE dwb
  /\ pc' = "applySync"
  /\ UNCHANGED <<mainSynced, wal, walSynced, ckpt, cont, mode, allocation, batch,
                 snapshot, lsns, pending, queue, recovery, refused, ghosts>>

\* mutant: the loop over the group runs once too often
MutLastExtent == Len(queue) = 0
LastExtent == Len(queue) = 1

ApplySync ==
  /\ pc = "applySync" /\ pc' = "clear"
  /\ main' = Resize(main, queue[1].count) /\ mainSynced' = main'
  /\ UNCHANGED <<wal, walSynced, ckpt, dwb, cont, mode, allocation, batch,
                 snapshot, lsns, pending, queue, recovery, refused, ghosts>>

\* the end of applyExtent: clearDoubleWrite, then the next extent
ApplyClear ==
  /\ pc = "clear"
  /\ dwb' = IF mode.dw THEN NoSlots ELSE dwb
  /\ queue' = Tail(queue)
  /\ IF LastExtent THEN pc' = cont /\ batch' = None
     ELSE pc' = "apply" /\ UNCHANGED batch
  /\ UNCHANGED <<main, mainSynced, wal, walSynced, ckpt, cont, mode, allocation,
                 snapshot, lsns, pending, recovery, refused, ghosts>>

-----------------------------------------------------------------------------
(* checkpoint, the destructor.                                             *)

Checkpoint ==
  /\ Idle /\ UNCHANGED pending
  /\ \E fuzzy \in FuzzyModes : SyncGroup(IF fuzzy THEN "fuzzy" ELSE "full")
  /\ UNCHANGED <<disk, mode, allocation, batch, snapshot, lsns, queue, recovery,
                 refused, ghosts>>

CheckpointFuzzy ==
  /\ pc = "fuzzy"
  /\ ck' = [state |-> "ok", cutoff |-> Len(wal), seq |-> seq, lsn |-> nextLsn - 1]
  /\ ckpt' = TornCkpt /\ pc' = "ckptWrite"
  /\ UNCHANGED <<main, mainSynced, wal, walSynced, dwb, cont, mode, allocation,
                 batch, snapshot, seq, nextLsn, pending, queue, recovery, refused,
                 ghosts>>

\* recycleJournal: all of the journal, or its prefix up to the previous cutoff
CheckpointRecycle ==
  /\ pc = "full"
  /\ ck' = [state |-> "ok", cutoff |-> 0, seq |-> seq, lsn |-> nextLsn - 1]
  /\ IF ck.cutoff = 0 \/ ck.cutoff >= Len(wal)
     THEN wal' = <<>> /\ pc' = "recycled"
     ELSE wal' = SubSeq(wal, ck.cutoff + 1, Len(wal)) /\ pc' = "recycle"
  /\ walSynced' = 0
  /\ UNCHANGED <<main, mainSynced, ckpt, dwb, cont, mode, allocation, batch,
                 snapshot, seq, nextLsn, pending, queue, recovery, refused,
                 ghosts>>

RecycleSync ==
  /\ pc = "recycle" /\ walSynced' = Len(wal) /\ pc' = "recycled"
  /\ UNCHANGED <<main, mainSynced, wal, ckpt, dwb, cont, mode, allocation, batch,
                 snapshot, lsns, pending, queue, recovery, refused, ghosts>>

CheckpointRecycled ==
  /\ pc = "recycled" /\ ckpt' = TornCkpt /\ pc' = "ckptWrite"
  /\ UNCHANGED <<main, mainSynced, wal, walSynced, dwb, cont, mode, allocation,
                 batch, snapshot, lsns, pending, queue, recovery, refused, ghosts>>

CheckpointWrite ==
  /\ pc = "ckptWrite" /\ ckpt' = ck /\ pc' = "idle"
  /\ UNCHANGED <<main, mainSynced, wal, walSynced, dwb, cont, mode, allocation,
                 batch, snapshot, lsns, pending, queue, recovery, refused, ghosts>>

Close ==
  /\ Idle \/ Working
  /\ UNCHANGED pending /\ SyncGroup("close")
  /\ UNCHANGED <<disk, mode, allocation, batch, snapshot, lsns, queue, recovery,
                 refused, ghosts>>

Closing ==
  /\ pc \in {"close", "broken"} /\ Closed
  /\ UNCHANGED <<disk, refused, ghosts>>

-----------------------------------------------------------------------------
(* Failures of the medium that the code reports as exceptions.             *)

Resume == IF cont = "close" THEN "close" ELSE "idle"

\* before the commit point: the caller has to roll back
FaultCommit ==
  /\ IoFaults /\ pc \in {"appended", "prepared", "marked"}
  /\ pc' = "idle" /\ batch' = [batch EXCEPT !.doomed = TRUE]
  /\ UNCHANGED <<disk, cont, mode, allocation, snapshot, lsns, pending, queue,
                 recovery, refused, ghosts>>

\* slots written under the header the buffer had: the slots this header has in use
\* may hold a page of the extent now
Unheaded ==
  LET staged == SlotPages(queue[1].pages)
      Bodies(s) ==
        IF dwb[s] = None \/ staged[s] = dwb[s] THEN {dwb[s]}
        ELSE {dwb[s], TornSlot, [dwb[s] EXCEPT !.image = staged[s].image]}
  IN {d \in [Slots -> UNION {Bodies(s) : s \in Slots}] : \A s \in Slots : d[s] \in Bodies(s)}
\* a write of the double-write buffer that throws may have reached the file
FaultSlots ==
  CASE pc = "stage" -> {SlotPages(queue[1].pages)} \cup Unheaded
    [] pc = "clear" -> {dwb, NoSlots}
    [] OTHER -> {dwb}

\* failed_ is set, or Database::unavailable_: only a reopen helps
FaultFatal ==
  /\ IoFaults
  /\ \/ pc \in {"aborting", "stage"} \/ (pc = "apply" /\ ~mode.dw)
     \/ pc = "applySync" /\ batch # None
     \/ pc = "clear" /\ mode.dw /\ batch # None
  /\ pc' = "broken" /\ queue' = <<>> /\ dwb' \in FaultSlots
  /\ UNCHANGED <<main, mainSynced, wal, walSynced, ckpt, cont, mode, allocation,
                 batch, snapshot, lsns, pending, recovery, refused, ghosts>>

\* syncFile(journal) throws: the group stays pending
FaultGroupSync ==
  /\ IoFaults /\ pc = "groupSync" /\ pc' = Resume
  /\ UNCHANGED <<disk, cont, mode, allocation, batch, snapshot, lsns, pending,
                 queue, recovery, refused, ghosts>>

\* resize_file, syncFile or the double-write staging throws under a group:
\* failed_ stays false, the extents not yet applied are forgotten
FaultApplyGroup ==
  /\ IoFaults /\ batch = None
  /\ pc \in {"stage", "applySync"} \/ (pc = "clear" /\ mode.dw)
  /\ pc' = Resume /\ queue' = <<>> /\ dwb' \in FaultSlots
  /\ UNCHANGED <<main, mainSynced, wal, walSynced, ckpt, cont, mode, allocation,
                 batch, snapshot, lsns, pending, recovery, refused, ghosts>>

FaultCheckpoint ==
  /\ IoFaults /\ pc \in {"recycle", "recycled", "ckptWrite"} /\ pc' = "idle"
  /\ UNCHANGED <<disk, cont, mode, allocation, batch, snapshot, lsns, pending,
                 queue, recovery, refused, ghosts>>

-----------------------------------------------------------------------------
(* Crashes. A process that dies leaves what it handed to the operating      *)
(* system; a machine that dies leaves what was fsynced and, of the rest, any *)
(* prefix of the journal and any choice of pages, old, new or torn.         *)

WalFloor(kind) ==
  IF kind = "power" THEN walSynced
  ELSE CASE pc = "appended" -> batch.start
         [] pc = "marked"   -> Len(wal) - 1
         [] pc = "aborting" -> Len(wal) - 2
         [] pc = "recycle"  -> 0
         [] OTHER           -> Len(wal)

PageOutcomes(kind, p) ==
  IF kind = "power"
  THEN {main[p], mainSynced[p]} \cup (IF main[p] = mainSynced[p] THEN {} ELSE {Torn})
  ELSE IF pc \in {"redoSync", "applySync", "doubleWrite"}
       THEN {main[p], mainSynced[p]} ELSE {main[p]}

FileOutcomes(kind) ==
  LET outcomes == UNION {PageOutcomes(kind, p) : p \in PageId}
  IN {f \in [PageId -> outcomes] :
        \A p \in PageId :
          /\ f[p] \in PageOutcomes(kind, p)
          /\ f[p] = Absent => \A q \in PageId : q > p => f[q] = Absent}

\* what a power loss leaves of a staging whose header is on the medium: a slot may
\* hold its page, a torn one or an older one
HalfStaged ==
  LET staged == SlotPages(queue[1].pages)
      Bodies(s) ==
        IF staged[s] = dwb[s] THEN {dwb[s]}
        ELSE {staged[s], TornSlot} \cup {[staged[s] EXCEPT !.image = old] : old \in OldImages}
  IN {d \in [Slots -> UNION {Bodies(s) : s \in Slots}] : \A s \in Slots : d[s] \in Bodies(s)}
\* a crash during the first staging may also find the buffer as it is being made;
\* the model does not tell the first staging from the later ones
SlotOutcomes(kind) ==
  CASE pc = "stage" /\ kind = "process" ->
         {SlotPages(queue[1].pages), TornSlots} \cup Unheaded
    [] pc = "stage" /\ kind = "power" -> {TornSlots} \cup Unheaded \cup HalfStaged
    [] pc = "restored" \/ (pc = "clear" /\ mode.dw) ->
         {dwb, NoSlots} \cup (IF kind = "power" THEN {TornSlots} ELSE {})
    [] OTHER -> {dwb}

CommitMarks(from, to) == {i \in from .. to : wal[i].kind = "mark" /\ wal[i].seq > 0}
\* the marker of a commit that has not come back from its fsync
InDoubt(n) ==
  /\ batch # None /\ ~batch.published
  /\ CommitMarks(batch.start + 1, Len(wal)) # {} /\ n = Len(wal)
\* commits of the current group whose markers a cut after block n loses
LostCommits(n) ==
  Cardinality(CommitMarks(n + 1,
    IF batch # None THEN Smaller(batch.start, Len(wal)) ELSE Len(wal)))

Survivor(n) ==  \* the image the journal cut after block n stands for
  IF InDoubt(n) THEN Promised
  ELSE IF LostCommits(n) < Len(history) THEN history[Len(history) - LostCommits(n)]
  ELSE history[1]

Crash ==
  /\ pc # "down" /\ pc \in CrashPoints /\ crashes < MaxCrashes
  /\ crashes' = crashes + 1
  /\ \E kind \in Crashes :
       /\ main' \in FileOutcomes(kind) /\ mainSynced' = main'
       /\ dwb' \in SlotOutcomes(kind)
       /\ \E n \in WalFloor(kind) .. Len(wal) :
            /\ \/ wal' = SubSeq(wal, 1, n)
               \/ n < Len(wal) /\ wal' = Append(SubSeq(wal, 1, n), TornBlock)
            /\ walSynced' = Len(wal')
            /\ history' = <<Survivor(n)>>
  /\ Closed
  /\ UNCHANGED <<ckpt, refused, usedLsn>>

-----------------------------------------------------------------------------
Recover == \/ RecoverDoubleWrite \/ ClearRestored \/ RedoRefuse \/ RedoAbort \/ RedoExtent
           \/ RedoSync \/ RedoFinish \/ RedoCkpt \/ RedoTruncate
           \/ Rebuild
Opening == Create \/ Open \/ OpenRefused \/ SlotsRefused \/ Recover
Changing == \/ Begin \/ Write \/ AllocateReused \/ AllocateAppended \/ Release
            \/ TakeSavepoint \/ RestoreSavepoint \/ Rollback \/ SyncAbort
Committing == \/ CommitEmpty \/ CommitAppend \/ CommitPrepared \/ CommitMark
              \/ CommitPublish \/ GroupSync \/ ApplyStage \/ ApplyPages
              \/ ApplySync \/ ApplyClear
Checkpointing == \/ Checkpoint \/ CheckpointFuzzy \/ CheckpointRecycle
                 \/ RecycleSync \/ CheckpointRecycled \/ CheckpointWrite
Failing == \/ FaultCommit \/ FaultFatal \/ FaultGroupSync \/ FaultApplyGroup
           \/ FaultCheckpoint \/ Crash

Next == Opening \/ Changing \/ Committing \/ Checkpointing \/ Close \/ Closing \/ Failing
Spec == Init /\ [][Next]_vars

-----------------------------------------------------------------------------
(* What the page file promises.                                            *)

Content == [kind : {"header", "data", "free", "absent", "torn"},
            n : Nat, val : Vals \cup {None}]
File == [PageId -> Content]
PageMap == [PageId -> Content \cup {None}]
Ref == [id : PageId, gen : Nat]
Record == [state : {"none", "ok", "torn"}, cutoff : Nat, seq : Nat, lsn : Nat]
Slot == [id : PageId, image : Content, whole : BOOLEAN]
Block == [kind : {"redo"}, lsn : Nat, seq : Nat, pages : PageMap, count : Nat]
         \cup [kind : {"abort"}, lsn : Nat] \cup [kind : {"mark"}, seq : Nat]
         \cup [kind : {"body", "torn"}]
ExtentType == [pages : PageMap, count : Nat]
Saved == [count : Nat, active : [PageId -> Nat], free : Seq(Ref), pages : PageMap]
Batch == [count : Nat, active : [PageId -> Nat], free : Seq(Ref), pages : PageMap,
          start : Nat, lsn : Nat, touched : BOOLEAN, published : BOOLEAN,
          doomed : BOOLEAN]

\* an open batch, a page image, a used slot are told from none
ASSUME NoneAssumption == None \notin Batch /\ None \notin Content /\ None \notin Slot
\* the bytes of an unused slot are those of a whole page: an earlier extent left them
ASSUME OldImagesAssumption == OldImages \subseteq Content \ {Absent, Torn}

Committings == {"appended", "prepared", "marked"}
Applying == {"apply", "stage", "applySync", "clear"}
Truncating == {"fuzzy", "full", "recycle", "recycled", "ckptWrite"}
Reopening == {"doubleWrite", "restored", "redo", "redoSync", "redoCkpt", "redoTruncate",
              "rebuild"}
Programs == {"down", "idle", "aborting", "groupSync", "close", "broken"}
            \cup Committings \cup Applying \cup Truncating \cup Reopening

\* the files, the memory of the open file, the operation in progress
DiskOK ==
  /\ main \in File /\ mainSynced \in File
  /\ wal \in Seq(Block) /\ walSynced \in 0 .. Len(wal)
  /\ ckpt \in Record /\ dwb \in [Slots -> Slot \cup {None}]
MemoryOK ==
  /\ mode \in [group : BOOLEAN, dw : BOOLEAN]
  /\ count \in Nat /\ active \in [PageId -> Nat] /\ free \in Seq(Ref)
  /\ batch \in Batch \cup {None} /\ snapshot \in Saved \cup {None}
  /\ seq \in Nat /\ nextLsn \in Nat \ {0} /\ ck \in Record
  /\ pending \in Seq(ExtentType)
ProgressOK ==
  /\ pc \in Programs /\ cont \in {"idle", "fuzzy", "full", "close"}
  /\ queue \in Seq(ExtentType) /\ off \in Nat /\ applied \in Nat
  /\ refused \in BOOLEAN /\ history \in Seq(File) /\ history # <<>>
  /\ usedLsn \in Nat /\ crashes \in Nat
  /\ pc \in Committings => batch \in Batch
  /\ pc \in Applying => queue # <<>>
  /\ pc = "marked" => Len(wal) >= 1
  /\ pc = "aborting" => Len(wal) >= 2

\* The values the state of a page file takes; the journal is never shorter than
\* what was fsynced of it, and an operation in progress has what it works on.
TypeOK == DiskOK /\ MemoryOK /\ ProgressOK

\* Durability and atomicity: whenever no batch is open, a read returns what the
\* last published commit wrote, whatever crashes, recoveries, checkpoints and
\* rollbacks came between (readRaw over pendingPages_ and the main file).
ReadsCommitted ==
  Idle => \A p \in PageId : ReadRaw(p) = Committed[p]

\* A batch reads its own writes over the committed pages.
BatchReadsPromised ==
  InBatch => \A p \in PageId : ReadRaw(p) = Promised[p]

\* active_, owners_, free_ and count_ describe the pages a reader sees: after a
\* rollback, a restored savepoint, a recovery or a reopen alike.
AllocationMatchesPages ==
  (pc = "idle" /\ (batch = None \/ ~batch.doomed)) =>
    /\ count = Promised[0].n
    /\ active = ActivePages(Promised)
    /\ {free[i] : i \in DOMAIN free} =
         {[id |-> p, gen |-> Promised[p].n] : p \in FreeIds(Promised)}
    /\ Len(free) = Cardinality(FreeIds(Promised))

\* An LSN whose extent was finished is never handed out again: across rollbacks,
\* journal truncation and restarts.
LsnFresh == pc = "idle" => usedLsn < nextLsn

\* A page reference released by a commit never names a page again: generations
\* of committed pages never go back, and grow when a page is reused.
GenerationsAdvance ==
  [][\A p \in PageId :
       Durable[p].kind \in {"data", "free"} =>
         /\ Durable'[p].n >= Durable[p].n
         /\ (Durable[p].kind = "free" /\ Durable'[p].kind = "data")
               => Durable'[p].n > Durable[p].n]_vars

\* The journal is cut, and a recovery start recorded, only when everything it
\* holds is in the main file and fsynced, and no batch is open (checkpoint,
\* recoverJournal).
JournalCutWhenApplied ==
  pc \in Truncating \cup {"redoCkpt", "redoTruncate"} =>
    /\ batch = None /\ pending = <<>> /\ queue = <<>>
    /\ ~IoFaults => main = mainSynced

\* A rollback takes back its own blocks only: the journal keeps every finished
\* extent it held when the batch began.
RollbackKeepsJournal ==
  [][batch # None /\ batch' = None /\ pc' = "aborting" =>
       /\ Len(wal') = batch.start + 2
       /\ SubSeq(wal', 1, batch.start) = SubSeq(wal, 1, batch.start)
       /\ CommitMarks(batch.start + 1, Len(wal)) \subseteq {Len(wal)}]_vars

\* What each program point may rely on: nothing is queued but in applyExtent, no
\* batch is open and nothing pending while the journal is cut or recovered, and
\* outside a write of the main file all of it is fsynced.
Control ==
  /\ queue # <<>> => pc \in Applying
  /\ pc = "groupSync" => pending # <<>>
  /\ pc \in Applying \/ ~mode.group => pending = <<>>
  /\ pc \in Truncating \cup Reopening \cup {"down"} => batch = None /\ pending = <<>>
  /\ ~IoFaults /\ pc \notin {"redoSync", "applySync", "doubleWrite"} => main = mainSynced

\* The journal behind the start of the open batch holds blocks of that batch
\* only: nothing before its commit, no marker until it is complete.
OwnBlocks ==
  batch # None /\ ~batch.published =>
    /\ batch.start <= Len(wal)
    /\ \A i \in batch.start + 1 .. Len(wal) :
         wal[i].kind = "mark" => i = Len(wal) /\ pc \notin {"appended", "prepared"}
    /\ pc \notin Committings /\ ~batch.doomed => Len(wal) = batch.start

\* The inductive invariant of the page file: checkpoints and recovery find the
\* state they need, a rollback finds the journal tail it may cut (the cases of
\* the handlers that no single guard establishes).
IInv == TypeOK /\ Control /\ OwnBlocks

\* No sequence of operations, crashes and restarts leaves a file that cannot be
\* opened.
NeverRefused == ~refused

\* The slots that are still valid repair the pages whose write was not finished
\* (docs/wal-recovery-progress.md): a file that has such a slot can be opened.
ValidSlotsRepair == refused => \A s \in Slots : dwb[s] = None \/ ~dwb[s].whole
=============================================================================
