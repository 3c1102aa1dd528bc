-------------------------- MODULE PageFilePromises --------------------------
(***************************************************************************)
(* Proofs about PageFile, concluded. Durability, the inductive invariant,  *)
(* and what follows from it: readers find what was committed, batches what *)
(* they wrote, the allocation describes the pages, generations never go    *)
(* back, no LSN is used again, no open is refused, and the page file       *)
(* implements DurableStore.                                                *)
(***************************************************************************)
EXTENDS PageFileProofs, PageFileRefinement

-----------------------------------------------------------------------------
(* The invariant at the beginning, and in a step that changes nothing.      *)

LEMMA InitDurable ==
  ASSUME Init
  PROVE  Durability
<1>1. /\ main = EmptyFile /\ mainSynced = EmptyFile /\ wal = <<>> /\ walSynced = 0
      /\ ckpt = NoCkpt /\ dwb = NoSlots /\ pc = "down" /\ cont = "idle"
      /\ mode = [group |-> FALSE, dw |-> FALSE] /\ batch = None /\ snapshot = None
      /\ ck = NoCkpt /\ pending = <<>> /\ queue = <<>>
      /\ history = <<[EmptyFile EXCEPT ![0] = Header(1)]>>
      /\ count = 1 /\ active = [p \in PageId |-> 0] /\ free = <<>>
  BY DEF Init
<1>2. IInv
  <2>1. Control
    BY <1>1 DEF Control, Applying
  <2>2. OwnBlocks
    BY <1>1 DEF OwnBlocks
  <2> QED
    BY <2>1, <2>2, InitType DEF IInv
<1>3. ~Own /\ ~Running /\ Virgin
  BY <1>1 DEF Own, Running, Virgin
<1>4. Len(history) = 1 /\ Len(history) \in Nat \ {0} /\ Len(wal) = 0
  BY <1>1
<1>5. JournalEnd = 0 /\ Floor = 0
  BY <1>1, <1>3, EmptyJournal DEF JournalEnd, Floor, Smaller
<1>6. Layout /\ Cuts
  BY <1>1, <1>3, <1>4, <1>5, EmptyJournal DEF Layout, Cuts
<1>7. Cutoffs
  <2>1. ck.cutoff = 0 /\ ckpt.cutoff = 0 /\ ~(ck.cutoff > 0) /\ ~(ckpt.cutoff > 0)
    BY <1>1 DEF NoCkpt
  <2> QED
    BY <1>1, <1>3, <1>5, <2>1 DEF Cutoffs, Boundary
<1>8. SlotsBacked
  BY <1>1 DEF SlotsBacked, NoSlots
<1>9. Quiet /\ Applies /\ Replays /\ Stages
  BY <1>1, <1>3 DEF Quiet, Applies, Replays, Stages, Applying, Committings
<1>10. Shape([EmptyFile EXCEPT ![0] = Header(1)])
  <2> DEFINE image == [EmptyFile EXCEPT ![0] = Header(1)]
  <2>1. image[0] = Header(1) /\ \A p \in PageId : p # 0 => image[p] = Absent
    BY PageIds DEF EmptyFile
  <2>2. image[0].n = 1 /\ 1 \in 1 .. MaxPages
    BY <2>1, PageFileAssumption DEF Header
  <2>3. \A p \in PageId : (p >= 1 => p # 0) /\ (p # 0 => ~(p < 1))
    BY PageFileAssumption DEF PageId
  <2> QED
    BY <2>1, <2>2, <2>3 DEF Shape
<1>11. Allocated
  <2>1. Shapes
    <3>1. DOMAIN history = {1} /\ history[1] = [EmptyFile EXCEPT ![0] = Header(1)]
      BY <1>1
    <3> QED
      BY <1>10, <3>1 DEF Shapes
  <2> QED
    BY <1>1, <1>3, <2>1 DEF Allocated, Showing, GoesBack, SavedBack, Unopened
<1>12. Asked
  BY <1>1 DEF Asked
<1> QED
  BY <1>2, <1>6, <1>7, <1>8, <1>9, <1>11, <1>12 DEF Durability, Recoverable

LEMMA StillDurable ==
  ASSUME Recoverable, Allocated, Asked, UNCHANGED vars
  PROVE  Recoverable' /\ Allocated' /\ Asked'
<1>1. /\ main' = main /\ mainSynced' = mainSynced /\ wal' = wal /\ walSynced' = walSynced
      /\ ckpt' = ckpt /\ dwb' = dwb /\ pc' = pc /\ cont' = cont /\ mode' = mode
      /\ count' = count /\ active' = active /\ free' = free /\ batch' = batch
      /\ snapshot' = snapshot /\ seq' = seq /\ nextLsn' = nextLsn /\ ck' = ck
      /\ pending' = pending /\ queue' = queue /\ off' = off /\ history' = history
  BY DEF vars, disk, allocation, lsns, recovery, ghosts
<1>2. /\ Own' = Own /\ JournalEnd' = JournalEnd /\ Committed' = Committed
      /\ Running' = Running /\ Virgin' = Virgin
  BY <1>1 DEF Own, JournalEnd, Committed, Running, Virgin
<1>3. Floor' = Floor /\ Shown' = Shown
  BY <1>1, <1>2 DEF Floor, Shown
<1>4. Layout' /\ Cuts' /\ SlotsBacked' /\ Quiet' /\ Applies'
  BY <1>1, <1>2, <1>3 DEF Recoverable, Layout, Cuts, SlotsBacked, Quiet, Applies
<1>5. Cutoffs'
  BY <1>1, <1>2, <1>3 DEF Recoverable, Cutoffs
<1>6. Replays'
  BY <1>1, <1>2 DEF Recoverable, Replays, Replayed, NextExtent
<1>7. Stages'
  BY <1>1, <1>2 DEF Recoverable, Stages, OwnExtent, OwnRecords, Extent
<1>8. Allocated' /\ Asked'
  BY <1>1, <1>2, <1>3 DEF Allocated, Shapes, Showing, GoesBack, SavedBack, Unopened, Asked
<1> QED
  BY <1>4, <1>5, <1>6, <1>7, <1>8 DEF Recoverable

LEMMA AskedStep ==
  ASSUME Asked, Next
  PROVE  Asked'
<1>1. CASE Opening
  BY <1>1 DEF Opening, Create, Open, OpenRefused, SlotsRefused, Recover, RecoverDoubleWrite,
     ClearRestored, RedoRefuse,
     RedoAbort, RedoExtent, RedoSync, RedoFinish, RedoCkpt, RedoTruncate, Rebuild, Scan,
     Refuse, Closed, Asked
<1>2. CASE Changing
  BY <1>2 DEF Changing, Begin, Write, AllocateReused, AllocateAppended, Release,
     TakeSavepoint, RestoreSavepoint, Rollback, SyncAbort, BatchOnly, Asked
<1>3. CASE Committing
  BY <1>3 DEF Committing, CommitEmpty, CommitAppend, CommitPrepared, CommitMark,
     CommitPublish, SyncGroup, GroupSync, ApplyStage, ApplyPages, ApplySync, ApplyClear, Asked
<1>4. CASE Checkpointing
  BY <1>4, PageFileAssumption DEF Checkpointing, Checkpoint, SyncGroup, CheckpointFuzzy,
     CheckpointRecycle, RecycleSync, CheckpointRecycled, CheckpointWrite, Asked
<1>5. CASE Close \/ Closing
  BY <1>5 DEF Close, Closing, SyncGroup, Closed, Asked
<1>6. CASE Failing
  BY <1>6 DEF Failing, FaultCommit, FaultFatal, FaultGroupSync, FaultApplyGroup,
     FaultCheckpoint, Crash, Closed, Resume, Asked
<1> QED
  BY <1>1, <1>2, <1>3, <1>4, <1>5, <1>6 DEF Next

-----------------------------------------------------------------------------
(* The allocation describes the pages: steps that leave both alone.         *)

LEMMA AllocatedKept ==
  ASSUME Allocated, history' = history, batch' = batch, snapshot' = snapshot,
         count' = count, active' = active, free' = free, pc' # "down", pc # "close",
         \/ pc' \in Reopening \cup {"broken", "close"}
         \/ pc \notin Reopening \cup {"down", "broken", "close"},
         Own /\ batch.doomed => Len(wal) > batch.start
  PROVE  Allocated'
<1>1. Own' = Own /\ Committed' = Committed
  BY DEF Own, Committed
<1>2. Shown' = Shown
  BY <1>1 DEF Shown
<1>3. Shapes' /\ GoesBack' /\ Unopened'
  BY <1>1 DEF Allocated, Shapes, GoesBack, Unopened
<1>4. Showing'
  <2>1. CASE pc' \in Reopening \cup {"broken", "close"}
    BY <2>1 DEF Showing
  <2>2. CASE pc \notin Reopening \cup {"down", "broken", "close"}
    BY <1>1, <1>2, <2>2 DEF Allocated, Showing
  <2> QED
    BY <2>1, <2>2
<1>5. SavedBack' /\ (Own' => Holds(Shown', batch'.pages))
  BY <1>1, <1>2 DEF Allocated, SavedBack
<1> QED
  BY <1>3, <1>4, <1>5 DEF Allocated

\* A file nobody has open: only the images are left to describe.
LEMMA ClosedAllocated ==
  ASSUME Closed, \A h \in DOMAIN history' : Shape(history'[h])
  PROVE  Allocated'
<1>1. /\ pc' = "down" /\ batch' = None /\ snapshot' = None
      /\ count' = 1 /\ active' = [p \in PageId |-> 0] /\ free' = <<>>
  BY DEF Closed
<1>2. ~Own'
  BY <1>1 DEF Own
<1> QED
  BY <1>1, <1>2 DEF Allocated, Shapes, Showing, GoesBack, SavedBack, Unopened

\* A file without a batch that shows the committed image.
LEMMA AllocatedAlone ==
  ASSUME \A h \in DOMAIN history' : Shape(history'[h]), ~Own', snapshot' = None,
         pc' # "down", Describes(Committed', count', active', free')
  PROVE  Allocated'
<1>1. Shown' = Committed'
  BY DEF Shown
<1> QED
  BY <1>1 DEF Allocated, Shapes, Showing, GoesBack, SavedBack, Unopened

-----------------------------------------------------------------------------
(* The allocation describes the pages: the pages of a batch.                *)

SavedAlike(a, b) == a.count = b.count /\ a.active = b.active /\ a.free = b.free

LEMMA WorkingShows ==
  ASSUME IInv, Recoverable, Allocated, Working
  PROVE  /\ batch \in Batch /\ batch # None /\ Own /\ pc = "idle" /\ Len(wal) = batch.start
         /\ Shown = Overlay(Committed, batch.pages) /\ Shown \in File
         /\ batch.pages \in PageMap /\ Committed \in File /\ Describes(Shown, count, active, free)
         /\ Holds(Shown, batch.pages)
         /\ count \in Nat /\ active \in [PageId -> Nat] /\ free \in Seq(Ref)
<1>1. pc = "idle" /\ batch # None /\ ~batch.doomed
  BY DEF Working, InBatch
<1>2. Own /\ batch \in Batch /\ Len(wal) = batch.start
  BY <1>1, BatchIsOwn
<1>3. /\ batch.pages \in PageMap /\ Committed \in File
      /\ count \in Nat /\ active \in [PageId -> Nat] /\ free \in Seq(Ref)
  BY <1>2, Bounds DEF Batch, IInv, TypeOK, MemoryOK
<1>4. Shown = Overlay(Committed, batch.pages) /\ Shown \in File
  BY <1>2, <1>3, OverlayType DEF Shown
<1>5. Describes(Shown, count, active, free) /\ Holds(Shown, batch.pages)
  BY <1>1, <1>2 DEF Allocated, Showing, Reopening
<1> QED
  BY <1>1, <1>2, <1>3, <1>4, <1>5

LEMMA StagingAllocated ==
  ASSUME IInv, Recoverable, Allocated, Working, Restaged, SavedAlike(batch', batch),
         pc' = pc, history' = history, wal' = wal, snapshot' = snapshot,
         batch'.doomed \/ Describes(Overlay(Committed, batch'.pages), count', active', free'),
         Holds(Overlay(Committed, batch'.pages), batch'.pages)
  PROVE  Allocated'
<1>1. /\ batch \in Batch /\ batch # None /\ Own /\ pc = "idle" /\ Len(wal) = batch.start
  BY WorkingShows
<1>2. batch' # None /\ batch'.start = batch.start /\ batch'.published = batch.published
  BY NoneAssumption DEF Restaged, SameBatch
<1>3. Own' /\ Committed' = Committed
  BY <1>1, <1>2 DEF Own, Committed
<1>4. Shown' = Overlay(Committed, batch'.pages)
  BY <1>3 DEF Shown
<1>5. batch.start \in Nat
  BY <1>1 DEF Batch
<1>6. Shapes' /\ GoesBack' /\ Unopened'
  BY <1>1, <1>3 DEF Allocated, Shapes, GoesBack, Unopened, SavedAlike
<1>7. Showing'
  <2>1. ~(Len(wal') > batch'.start)
    BY <1>1, <1>2, <1>5
  <2> QED
    BY <1>3, <1>4, <2>1 DEF Showing
<1>8. SavedBack'
  BY <1>1, <1>3 DEF Allocated, SavedBack
<1> QED
  BY <1>4, <1>6, <1>7, <1>8 DEF Allocated

LEMMA HoldsStaged ==
  ASSUME NEW file \in File, NEW pages \in PageMap, Holds(Overlay(file, pages), pages),
         NEW p \in PageId, NEW content \in Content, content # Absent
  PROVE  Holds(Overlay(file, [pages EXCEPT ![p] = content]), [pages EXCEPT ![p] = content])
BY DEF Holds, Overlay, PageMap

LEMMA DoomAllocated ==
  ASSUME IInv, Recoverable, Allocated, Working, BatchOnly,
         batch' = [batch EXCEPT !.doomed = TRUE]
  PROVE  Allocated'
<1>1. batch \in Batch /\ Shown = Overlay(Committed, batch.pages) /\ Holds(Shown, batch.pages)
  BY WorkingShows
<1>2. SavedAlike(batch', batch) /\ batch'.doomed /\ batch'.pages = batch.pages
  BY <1>1, DoomFields DEF SavedAlike
<1>3. Restaged
  BY <1>1, StageSame DEF Restaged
<1> QED
  BY <1>1, <1>2, <1>3, StagingAllocated DEF BatchOnly, disk, ghosts

\* A step that stages one page.
LEMMA StageAllocated ==
  ASSUME IInv, Recoverable, Allocated, Working, BatchOnly, NEW p \in PageId,
         NEW content \in Content, content # Absent, batch' = Stage(batch, p, content),
         Describes([Shown EXCEPT ![p] = content], count', active', free')
  PROVE  Allocated'
<1>1. /\ batch \in Batch /\ Shown = Overlay(Committed, batch.pages) /\ Committed \in File
      /\ batch.pages \in PageMap /\ Holds(Shown, batch.pages)
  BY WorkingShows
<1>2. SavedAlike(batch', batch) /\ batch'.pages = [batch.pages EXCEPT ![p] = content]
  <2>1. batch'.pages = [batch.pages EXCEPT ![p] = content]
    BY <1>1, StagePages
  <2>2. batch'.count = batch.count /\ batch'.active = batch.active /\ batch'.free = batch.free
    BY <1>1, StageFields
  <2> QED
    BY <2>1, <2>2 DEF SavedAlike
<1>3. Restaged
  BY <1>1, StageSame DEF Restaged
<1>4. Overlay(Committed, batch'.pages) = [Shown EXCEPT ![p] = content]
  BY <1>1, <1>2, StagedOverlay
<1>5. Holds(Overlay(Committed, batch'.pages), batch'.pages)
  BY <1>1, <1>2, HoldsStaged
<1> QED
  BY <1>2, <1>3, <1>4, <1>5, StagingAllocated DEF BatchOnly, disk, ghosts

LEMMA PresentContents ==
  \A n, v : Header(n) # Absent /\ Data(n, v) # Absent /\ Free(n) # Absent
BY DEF Header, Data, Free, Absent

LEMMA WriteAllocated ==
  ASSUME IInv, Recoverable, Allocated, Write
  PROVE  Allocated'
<1>1. Working /\ BatchOnly /\ count' = count /\ active' = active /\ free' = free
  BY DEF Write, allocation
<1>2. PICK p \in PageId, v \in Vals :
        /\ active[p] # 0
        /\ batch' = IF Fits(batch, p) THEN Stage(batch, p, Data(active[p], v))
                    ELSE [batch EXCEPT !.doomed = TRUE]
  BY DEF Write
<1>3. /\ Describes(Shown, count, active, free) /\ Shown \in File /\ active \in [PageId -> Nat]
  BY <1>1, WorkingShows
<1>4. Data(active[p], v) \in Content
  BY <1>3, FixedContents
<1>5. Describes([Shown EXCEPT ![p] = Data(active[p], v)], count, active, free)
  BY <1>2, <1>3, DescribesWrite
<1> QED
  BY <1>1, <1>2, <1>4, <1>5, PresentContents, DoomAllocated, StageAllocated

LEMMA AllocateReusedAllocated ==
  ASSUME IInv, Recoverable, Allocated, AllocateReused
  PROVE  Allocated'
<1> DEFINE ref == free[Len(free)]
<1>1. Working /\ BatchOnly /\ count' = count /\ free # <<>>
  BY DEF AllocateReused
<1>2. PICK v \in Vals :
        \/ /\ batch' = Stage(batch, ref.id, Data(Reused(ref), v))
           /\ active' = [active EXCEPT ![ref.id] = Reused(ref)]
           /\ free' = SubSeq(free, 1, Len(free) - 1)
        \/ batch' = [batch EXCEPT !.doomed = TRUE]
  BY DEF AllocateReused
<1>3. /\ Describes(Shown, count, active, free) /\ Shown \in File /\ free \in Seq(Ref)
  BY <1>1, WorkingShows
<1>4. ref \in Ref /\ Reused(ref) \in Nat
  <2>1. ref \in Ref
    BY <1>1, <1>3
  <2> QED
    BY <2>1 DEF Ref, Reused
<1> HIDE DEF ref
<1>5. /\ ref.id \in PageId
      /\ Describes([Shown EXCEPT ![ref.id] = Data(Reused(ref), v)], count,
                   [active EXCEPT ![ref.id] = Reused(ref)], SubSeq(free, 1, Len(free) - 1))
  BY <1>1, <1>3, <1>4, DescribesReuse DEF ref
<1>6. Data(Reused(ref), v) \in Content
  BY <1>4, FixedContents
<1> QED
  BY <1>1, <1>2, <1>5, <1>6, PresentContents, DoomAllocated, StageAllocated

LEMMA ReleaseAllocated ==
  ASSUME IInv, Recoverable, Allocated, Release
  PROVE  Allocated'
<1>1. Working /\ BatchOnly /\ count' = count
  BY DEF Release
<1>2. PICK p \in PageId :
        /\ active[p] # 0
        /\ \/ /\ batch' = Stage(batch, p, Free(active[p]))
              /\ active' = [active EXCEPT ![p] = 0]
              /\ free' = Append(free, [id |-> p, gen |-> active[p]])
           \/ batch' = [batch EXCEPT !.doomed = TRUE]
  BY DEF Release
<1>3. /\ Describes(Shown, count, active, free) /\ Shown \in File /\ free \in Seq(Ref)
      /\ active \in [PageId -> Nat]
  BY <1>1, WorkingShows
<1>4. Free(active[p]) \in Content
  BY <1>3, FixedContents
<1>5. Describes([Shown EXCEPT ![p] = Free(active[p])], count, [active EXCEPT ![p] = 0],
                Append(free, [id |-> p, gen |-> active[p]]))
  BY <1>2, <1>3, DescribesRelease
<1> QED
  BY <1>1, <1>2, <1>4, <1>5, PresentContents, DoomAllocated, StageAllocated

LEMMA AllocateAppendedAllocated ==
  ASSUME IInv, IInv', Recoverable, Allocated, AllocateAppended
  PROVE  Allocated'
<1>1. Working /\ BatchOnly /\ free = <<>> /\ free' = <<>> /\ count < MaxPages
  BY DEF AllocateAppended
<1>2. PICK v \in Vals :
        LET data == Stage(batch, count, Data(1, v)) IN
        \/ batch' = [batch EXCEPT !.doomed = TRUE]
        \/ /\ batch' = Stage(data, 0, Header(count + 1)) /\ count' = count + 1
           /\ active' = [active EXCEPT ![count] = 1]
        \/ batch' = [data EXCEPT !.doomed = TRUE]
  BY DEF AllocateAppended
<1> DEFINE data == Stage(batch, count, Data(1, v))
<1>3. /\ batch \in Batch /\ Shown = Overlay(Committed, batch.pages) /\ Committed \in File
      /\ batch.pages \in PageMap /\ Holds(Shown, batch.pages) /\ Shown \in File
      /\ Describes(Shown, count, active, <<>>) /\ count \in Nat
  BY <1>1, WorkingShows
<1>4. /\ count \in PageId /\ 0 \in PageId
      /\ Describes([[Shown EXCEPT ![count] = Data(1, v)] EXCEPT ![0] = Header(count + 1)],
                   count + 1, [active EXCEPT ![count] = 1], <<>>)
  BY <1>1, <1>3, DescribesGrow, PageIds
<1>5. Data(1, v) \in Content /\ Header(count + 1) \in Content
  BY <1>3, FixedContents
<1>6. data \in Batch /\ SavedAlike(data, batch) /\ data.pages = [batch.pages EXCEPT ![count] = Data(1, v)]
  <2>1. /\ data \in Batch /\ data.count = batch.count /\ data.active = batch.active
        /\ data.free = batch.free
    BY <1>3, <1>4, <1>5, StageFields
  <2>2. data.pages = [batch.pages EXCEPT ![count] = Data(1, v)]
    BY <1>3, <1>4, <1>5, StagePages
  <2> HIDE DEF data
  <2> QED
    BY <2>1, <2>2 DEF SavedAlike
<1> HIDE DEF data
<1>7. data.pages \in PageMap
  BY <1>6 DEF Batch
<1>8. Overlay(Committed, data.pages) = [Shown EXCEPT ![count] = Data(1, v)]
  BY <1>3, <1>4, <1>5, <1>6, StagedOverlay
<1>9. Holds(Overlay(Committed, data.pages), data.pages)
  BY <1>3, <1>4, <1>5, <1>6, PresentContents, HoldsStaged
<1>10. Restaged
  BY ChangingRestaged
<1>11. CASE batch' = [batch EXCEPT !.doomed = TRUE]
  BY <1>1, <1>11, DoomAllocated
<1>12. CASE batch' = [data EXCEPT !.doomed = TRUE]
  <2>1. SavedAlike(batch', batch) /\ batch'.doomed /\ batch'.pages = data.pages
    BY <1>6, <1>12, DoomFields DEF SavedAlike
  <2> QED
    BY <1>1, <1>9, <1>10, <2>1, StagingAllocated DEF BatchOnly, disk, ghosts
<1>13. CASE /\ batch' = Stage(data, 0, Header(count + 1)) /\ count' = count + 1
            /\ active' = [active EXCEPT ![count] = 1]
  <2>1. SavedAlike(batch', batch) /\ batch'.pages = [data.pages EXCEPT ![0] = Header(count + 1)]
    <3>1. /\ Stage(data, 0, Header(count + 1)).count = data.count
          /\ Stage(data, 0, Header(count + 1)).active = data.active
          /\ Stage(data, 0, Header(count + 1)).free = data.free
      BY <1>4, <1>5, <1>6, StageFields
    <3>2. Stage(data, 0, Header(count + 1)).pages = [data.pages EXCEPT ![0] = Header(count + 1)]
      BY <1>4, <1>5, <1>6, StagePages
    <3> QED
      BY <1>6, <1>13, <3>1, <3>2 DEF SavedAlike
  <2>2. Overlay(Committed, batch'.pages)
          = [[Shown EXCEPT ![count] = Data(1, v)] EXCEPT ![0] = Header(count + 1)]
    <3>1. Overlay(Committed, [data.pages EXCEPT ![0] = Header(count + 1)])
            = [Overlay(Committed, data.pages) EXCEPT ![0] = Header(count + 1)]
      BY <1>4, <1>5, <1>7, StagedOverlay
    <3> QED
      BY <1>8, <2>1, <3>1
  <2>3. Holds(Overlay(Committed, batch'.pages), batch'.pages)
    BY <1>3, <1>4, <1>5, <1>7, <1>9, <2>1, PresentContents, HoldsStaged
  <2> QED
    BY <1>1, <1>4, <1>10, <1>13, <2>1, <2>2, <2>3, StagingAllocated DEF BatchOnly, disk, ghosts
<1> QED
  BY <1>2, <1>11, <1>12, <1>13 DEF data

LEMMA RestoreSavepointAllocated ==
  ASSUME IInv, IInv', Recoverable, Allocated, RestoreSavepoint
  PROVE  Allocated'
<1>1. /\ Working /\ BatchOnly /\ snapshot # None /\ pc = "idle"
      /\ count' = snapshot.count /\ active' = snapshot.active /\ free' = snapshot.free
      /\ batch' = [batch EXCEPT !.pages = snapshot.pages]
  BY DEF RestoreSavepoint, RestoreAllocation, Working, InBatch
<1>2. batch \in Batch /\ snapshot \in Saved
  BY <1>1, WorkingShows DEF IInv, TypeOK, MemoryOK
<1>3. SavedAlike(batch', batch) /\ batch'.pages = snapshot.pages
  BY <1>1, <1>2 DEF SavedAlike, Batch
<1>4. Restaged
  BY ChangingRestaged
<1>5. /\ Describes(Overlay(Committed, snapshot.pages), snapshot.count, snapshot.active, snapshot.free)
      /\ Holds(Overlay(Committed, snapshot.pages), snapshot.pages)
  BY <1>1 DEF Allocated, SavedBack
<1> QED
  BY <1>1, <1>3, <1>4, <1>5, StagingAllocated DEF BatchOnly, disk, ghosts

LEMMA TakeSavepointAllocated ==
  ASSUME IInv, Recoverable, Allocated, TakeSavepoint
  PROVE  Allocated'
<1>1. /\ Working /\ pc' = pc /\ batch' = batch /\ history' = history /\ wal' = wal
      /\ count' = count /\ active' = active /\ free' = free
      /\ snapshot' = [count |-> count, active |-> active, free |-> free, pages |-> batch.pages]
  BY DEF TakeSavepoint, disk, allocation, ghosts
<1>2. /\ Own /\ pc = "idle" /\ Shown = Overlay(Committed, batch.pages)
      /\ Describes(Shown, count, active, free) /\ Holds(Shown, batch.pages)
  BY <1>1, WorkingShows
<1>3. Own' /\ Committed' = Committed
  BY <1>1, <1>2 DEF Own, Committed
<1>4. Shown' = Shown
  BY <1>1, <1>2, <1>3 DEF Shown
<1>5. Shapes' /\ GoesBack' /\ Unopened' /\ Showing'
  BY <1>1, <1>2, <1>3, <1>4 DEF Allocated, Shapes, GoesBack, Unopened, Showing
<1>6. SavedBack'
  <2>1. /\ snapshot'.count = count /\ snapshot'.active = active /\ snapshot'.free = free
        /\ snapshot'.pages = batch.pages
    BY <1>1
  <2> QED
    BY <1>2, <1>3, <2>1 DEF SavedBack
<1> QED
  BY <1>1, <1>2, <1>4, <1>5, <1>6 DEF Allocated

-----------------------------------------------------------------------------
(* The allocation describes the pages: batches begin and end.               *)

LEMMA BeginAllocated ==
  ASSUME IInv, IInv', Recoverable, Allocated, Begin
  PROVE  Allocated'
<1>1. /\ pc = "idle" /\ pc' = pc /\ batch = None /\ snapshot' = snapshot /\ history' = history
      /\ count' = count /\ active' = active /\ free' = free
      /\ batch' = [count |-> count, active |-> active, free |-> free, pages |-> NoPages,
                   start |-> Len(wal), lsn |-> nextLsn, touched |-> FALSE,
                   published |-> FALSE, doomed |-> FALSE]
  BY DEF Begin, Idle, allocation, ghosts
<1>2. /\ batch'.count = count /\ batch'.active = active /\ batch'.free = free
      /\ batch'.pages = NoPages /\ ~batch'.published
  BY <1>1
<1>3. ~Own /\ Own' /\ Committed' = Committed
  <2>1. batch' # None
    <3>1. /\ count \in Nat /\ active \in [PageId -> Nat] /\ free \in Seq(Ref)
          /\ Len(wal) \in Nat /\ nextLsn \in Nat /\ NoPages \in PageMap
      BY EmptyFileType DEF IInv, TypeOK, DiskOK, MemoryOK
    <3>2. batch' \in Batch
      BY <1>1, <3>1 DEF Batch
    <3> QED
      BY <3>2, NoneAssumption
  <2> QED
    BY <1>1, <1>2, <2>1 DEF Own, Committed
<1>4. Describes(Committed, count, active, free) /\ snapshot = None
  BY <1>1, <1>3 DEF Allocated, Showing, SavedBack, Shown, Reopening
<1>5. Shown' = Committed
  <2>1. Overlay(Committed, NoPages) = Committed
    BY Bounds, NothingStaged
  <2> QED
    BY <1>2, <1>3, <2>1 DEF Shown
<1>6. Shapes' /\ GoesBack' /\ Unopened' /\ Showing' /\ SavedBack'
  BY <1>1, <1>2, <1>3, <1>4, <1>5
  DEF Allocated, Shapes, GoesBack, Unopened, Showing, SavedBack
<1>7. Holds(Shown', batch'.pages)
  BY <1>2 DEF Holds, NoPages
<1> QED
  BY <1>6, <1>7 DEF Allocated

LEMMA RollbackAllocated ==
  ASSUME IInv, Recoverable, Allocated, Rollback
  PROVE  Allocated'
<1>1. /\ pc = "idle" /\ batch # None /\ ~batch.published /\ batch' = None /\ snapshot' = None
      /\ count' = batch.count /\ active' = batch.active /\ free' = batch.free
      /\ history' = history /\ pc' \in {"idle", "aborting"}
  BY DEF Rollback, InBatch, RestoreAllocation, ghosts
<1>2. Own /\ ~Own' /\ Committed' = Committed
  BY <1>1 DEF Own, Committed
<1>3. Describes(Committed, batch.count, batch.active, batch.free)
  BY <1>2 DEF Allocated, GoesBack
<1>4. \A h \in DOMAIN history' : Shape(history'[h])
  BY <1>1 DEF Allocated, Shapes
<1> QED
  BY <1>1, <1>2, <1>3, <1>4, AllocatedAlone

LEMMA CommitEmptyAllocated ==
  ASSUME IInv, Recoverable, Allocated, CommitEmpty
  PROVE  Allocated'
<1>1. /\ Working /\ batch.pages = NoPages /\ batch' = None /\ snapshot' = None /\ pc' = pc
      /\ count' = count /\ active' = active /\ free' = free /\ history' = history
  BY DEF CommitEmpty, allocation, ghosts
<1>2. /\ pc = "idle" /\ Shown = Overlay(Committed, batch.pages) /\ Committed \in File
      /\ Describes(Shown, count, active, free)
  BY <1>1, WorkingShows
<1>3. Shown = Committed
  BY <1>1, <1>2, NothingStaged
<1>4. ~Own' /\ Committed' = Committed
  BY <1>1 DEF Own, Committed
<1>5. \A h \in DOMAIN history' : Shape(history'[h])
  BY <1>1 DEF Allocated, Shapes
<1> QED
  BY <1>1, <1>2, <1>3, <1>4, <1>5, AllocatedAlone

LEMMA CommitAppendAllocated ==
  ASSUME IInv, IInv', Recoverable, Allocated, CommitAppend
  PROVE  Allocated'
<1>1. /\ Working /\ history' = history /\ snapshot' = snapshot
      /\ count' = count /\ active' = active /\ free' = free
      /\ \/ /\ batch' = Stage(batch, 0, Header(count)) /\ pc' = "appended"
         \/ batch' = [batch EXCEPT !.doomed = TRUE] /\ pc' = pc /\ wal' = wal
  BY DEF CommitAppend, allocation, ghosts
<1>2. /\ batch \in Batch /\ Own /\ pc = "idle" /\ Shown = Overlay(Committed, batch.pages)
      /\ Shown \in File /\ batch.pages \in PageMap /\ Committed \in File
      /\ Describes(Shown, count, active, free) /\ Holds(Shown, batch.pages) /\ count \in Nat
  BY <1>1, WorkingShows
<1>3. CASE batch' = Stage(batch, 0, Header(count)) /\ pc' = "appended"
  <2>1. 0 \in PageId /\ Header(count) \in Content
    BY <1>2, FixedContents, PageIds
  <2>2. /\ batch' \in Batch /\ batch'.published = batch.published
        /\ batch'.count = batch.count /\ batch'.active = batch.active /\ batch'.free = batch.free
        /\ batch'.pages = [batch.pages EXCEPT ![0] = Header(count)]
    <3>1. batch'.pages = [batch.pages EXCEPT ![0] = Header(count)]
      BY <1>2, <1>3, <2>1, StagePages
    <3>2. /\ batch' \in Batch /\ batch'.published = batch.published
          /\ batch'.count = batch.count /\ batch'.active = batch.active /\ batch'.free = batch.free
      BY <1>2, <1>3, <2>1, StageFields
    <3> QED
      BY <3>1, <3>2
  <2>3. Own' /\ Committed' = Committed
    BY <1>1, <1>2, <2>2, NoneAssumption DEF Own, Committed
  <2>4. [Shown EXCEPT ![0] = Header(count)] = Shown
    <3>1. Shown[0] = Header(count)
      BY <1>2 DEF Describes, Shape
    <3> QED
      BY <1>2, <2>1, <3>1 DEF File
  <2>5. Shown' = Shown
    BY <1>2, <2>1, <2>2, <2>3, <2>4, StagedOverlay DEF Shown
  <2>6. Holds(Shown', batch'.pages)
    <3>1. Holds(Overlay(Committed, [batch.pages EXCEPT ![0] = Header(count)]),
                [batch.pages EXCEPT ![0] = Header(count)])
      BY <1>2, <2>1, PresentContents, HoldsStaged
    <3> QED
      BY <2>2, <2>3, <3>1 DEF Shown
  <2>7. Shapes' /\ GoesBack' /\ Unopened' /\ Showing' /\ SavedBack'
    BY <1>1, <1>2, <1>3, <2>2, <2>3, <2>5
    DEF Allocated, Shapes, GoesBack, Unopened, Showing, SavedBack
  <2> QED
    BY <2>6, <2>7 DEF Allocated
<1>4. CASE batch' = [batch EXCEPT !.doomed = TRUE] /\ pc' = pc /\ wal' = wal
  <2>1. SavedAlike(batch', batch) /\ batch'.doomed /\ batch'.pages = batch.pages
    BY <1>2, <1>4, DoomFields DEF SavedAlike
  <2>2. Restaged
    BY <1>2, <1>4, StageSame DEF Restaged
  <2> QED
    BY <1>1, <1>2, <1>4, <2>1, <2>2, StagingAllocated
<1> QED
  BY <1>1, <1>3, <1>4

\* What is published has the shape of an image, and the allocation describes it.
LEMMA PromisedShape ==
  ASSUME IInv, Recoverable, Allocated, Own, OwnExtent
  PROVE  Promised = Shown /\ Describes(Promised, count, active, free) /\ Shape(Promised)
<1>1. batch \in Batch /\ Promised = Shown
  BY DEF Own, IInv, TypeOK, MemoryOK, Promised, Shown
<1>2. pc \notin Reopening \cup {"down", "broken", "close"}
  BY DEF OwnExtent, Committings, Reopening
<1>3. Len(wal) > batch.start
  <2>1. OwnRecords \in Nat /\ batch.start \in Nat
    BY <1>1, StagedCount DEF OwnRecords, BodyLength, Batch
  <2>2. Len(wal) = batch.start + OwnRecords + 1 \/ Len(wal) = batch.start + OwnRecords + 2
    BY DEF OwnExtent
  <2> QED
    BY <2>1, <2>2
<1> QED
  BY <1>1, <1>2, <1>3 DEF Allocated, Showing, Describes

LEMMA CommitPublishAllocated ==
  ASSUME IInv, IInv', Recoverable, Allocated, CommitPublish
  PROVE  Allocated'
<1>1. /\ pc = "marked" /\ snapshot' = None /\ count' = count /\ active' = active /\ free' = free
      /\ pc' \in {"idle", "groupSync", "apply"}
      /\ \/ batch' = None /\ history' = Append(history, Promised)
         \/ batch' = [batch EXCEPT !.published = TRUE] /\ history' = <<Promised>>
  BY DEF CommitPublish, SyncGroup, allocation
<1>2. Own /\ OwnExtent /\ batch \in Batch
  BY <1>1 DEF Recoverable, Stages, Committings, Own, IInv, TypeOK, MemoryOK
<1>3. Describes(Promised, count, active, free) /\ Shape(Promised)
  BY <1>2, PromisedShape
<1>4. history \in Seq(File) /\ history' \in Seq(File) /\ history' # <<>>
  BY DEF IInv, TypeOK, ProgressOK
<1>5. ~Own'
  BY <1>1, <1>2 DEF Own, Batch
<1>6. Committed' = Promised /\ \A h \in DOMAIN history' : Shape(history'[h])
  <2>1. Committed' = history'[Len(history')]
    BY DEF Committed
  <2>2. CASE history' = <<Promised>>
    <3>1. DOMAIN history' = {1} /\ history'[1] = Promised /\ Len(history') = 1
      BY <2>2
    <3> QED
      BY <1>3, <2>1, <3>1
  <2>3. CASE history' = Append(history, Promised)
    <3>1. /\ Len(history') = Len(history) + 1 /\ Len(history) \in Nat
          /\ history'[Len(history) + 1] = Promised
          /\ \A h \in 1 .. Len(history) : h \in DOMAIN history /\ history'[h] = history[h]
          /\ \A h \in DOMAIN history' : h \in 1 .. Len(history) \/ h = Len(history) + 1
      BY <1>4, <2>3
    <3> QED
      BY <1>3, <2>1, <3>1 DEF Allocated, Shapes
  <2> QED
    BY <1>1, <2>2, <2>3
<1>7. pc' # "down"
  BY <1>1
<1> QED
  BY <1>1, <1>3, <1>5, <1>6, <1>7, AllocatedAlone

LEMMA GroupSyncAllocated ==
  ASSUME IInv, Recoverable, Allocated, GroupSync
  PROVE  Allocated'
<1>1. /\ pc = "groupSync" /\ pc' = "apply" /\ history' = <<Committed>> /\ wal' = wal
      /\ batch' = batch /\ snapshot' = snapshot
      /\ count' = count /\ active' = active /\ free' = free
  BY DEF GroupSync, allocation
<1>2. Committed' = Committed /\ DOMAIN history' = {1} /\ history'[1] = Committed
  <2>1. Committed' = history'[Len(history')]
    BY DEF Committed
  <2> QED
    BY <1>1, <2>1
<1>3. Own' = Own /\ Shape(Committed)
  BY <1>1, Bounds DEF Own, Allocated, Shapes, Committed
<1>4. Shown' = Shown
  BY <1>1, <1>2, <1>3 DEF Shown
<1>5. Shapes' /\ GoesBack' /\ Unopened' /\ Showing' /\ SavedBack'
  BY <1>1, <1>2, <1>3, <1>4
  DEF Allocated, Shapes, GoesBack, Unopened, Showing, SavedBack, Reopening
<1> QED
  BY <1>1, <1>3, <1>4, <1>5 DEF Allocated

LEMMA ApplyClearAllocated ==
  ASSUME IInv, Recoverable, Allocated, ApplyClear
  PROVE  Allocated'
<1>1. /\ pc = "clear" /\ history' = history /\ wal' = wal /\ snapshot' = snapshot
      /\ count' = count /\ active' = active /\ free' = free
      /\ \/ pc' = cont /\ batch' = None
         \/ pc' = "apply" /\ batch' = batch
      /\ cont \in {"idle", "fuzzy", "full", "close"}
  BY DEF ApplyClear, allocation, ghosts, IInv, TypeOK, ProgressOK
<1>2. Own => ~batch.doomed /\ cont = "close"
  BY <1>1 DEF Recoverable, Stages, Applying
<1>3. CASE pc' = "apply" /\ batch' = batch
  BY <1>1, <1>2, <1>3, AllocatedKept DEF Reopening
<1>4. CASE pc' = cont /\ batch' = None
  <2>1. ~Own' /\ Committed' = Committed
    BY <1>1, <1>4 DEF Own, Committed
  <2>2. Shapes' /\ GoesBack' /\ Unopened'
    BY <1>1, <1>4, <2>1 DEF Allocated, Shapes, GoesBack, Unopened
  <2>3. CASE Own
    <3>1. pc' = "close"
      BY <1>2, <1>4, <2>3
    <3> QED
      BY <2>1, <2>2, <3>1 DEF Allocated, Showing, SavedBack
  <2>4. CASE ~Own
    <3>1. Describes(Committed, count, active, free) /\ snapshot = None
      BY <1>1, <2>4 DEF Allocated, Showing, SavedBack, Shown, Reopening
    <3> QED
      BY <1>1, <2>1, <2>2, <3>1 DEF Allocated, Showing, SavedBack, Shown
  <2> QED
    BY <2>3, <2>4
<1> QED
  BY <1>1, <1>3, <1>4

LEMMA FaultCommitAllocated ==
  ASSUME IInv, IInv', Recoverable, Allocated, FaultCommit
  PROVE  Allocated'
<1>1. /\ pc \in Committings /\ pc' = "idle" /\ batch' = [batch EXCEPT !.doomed = TRUE]
      /\ history' = history /\ wal' = wal /\ snapshot' = snapshot
      /\ count' = count /\ active' = active /\ free' = free
  BY DEF FaultCommit, Committings, allocation, disk, ghosts
<1>2. Own /\ OwnExtent /\ batch \in Batch
  BY <1>1 DEF Recoverable, Stages, Own, IInv, TypeOK, MemoryOK
<1>3. /\ batch' \in Batch /\ batch'.published = batch.published /\ batch'.pages = batch.pages
      /\ batch'.count = batch.count /\ batch'.active = batch.active /\ batch'.free = batch.free
  BY <1>1, <1>2, DoomFields
<1>4. Own' /\ Committed' = Committed
  BY <1>1, <1>2, <1>3, NoneAssumption DEF Own, Committed
<1>5. Shown' = Shown
  BY <1>2, <1>3, <1>4 DEF Shown
<1>6. Describes(Shown, count, active, free)
  BY <1>2, PromisedShape
<1>7. Shapes' /\ GoesBack' /\ Unopened' /\ Showing' /\ SavedBack'
  BY <1>1, <1>2, <1>3, <1>4, <1>5, <1>6
  DEF Allocated, Shapes, GoesBack, Unopened, Showing, SavedBack, Committings
<1> QED
  BY <1>2, <1>3, <1>5, <1>7 DEF Allocated

-----------------------------------------------------------------------------
(* The allocation describes the pages: files are opened and closed.         *)

LEMMA CreateAllocated ==
  ASSUME IInv, IInv', Recoverable, Allocated, Create
  PROVE  Allocated'
<1>1. /\ pc = "down" /\ pc' = "idle" /\ history' = history /\ batch' = batch
      /\ snapshot' = snapshot /\ count' = count /\ active' = active /\ free' = free
  BY DEF Create, allocation, ghosts
<1>2. /\ batch = None /\ ~Own /\ ~Own' /\ snapshot = None
      /\ count = 1 /\ active = [p \in PageId |-> 0] /\ free = <<>>
  BY <1>1 DEF IInv, Control, Own, Allocated, SavedBack, Unopened
<1> DEFINE image == [EmptyFile EXCEPT ![0] = Header(1)]
<1>3. Committed' = image /\ Shape(image)
  <2>1. history = <<image>>
    BY CreateRecoverable DEF Virgin
  <2>2. DOMAIN history = {1} /\ history[1] = image /\ Len(history) = 1
    BY <2>1
  <2>3. Committed' = history'[Len(history')]
    BY DEF Committed
  <2> QED
    BY <1>1, <2>2, <2>3 DEF Allocated, Shapes
<1>4. image[0] = Header(1) /\ \A p \in PageId : p # 0 => image[p] = Absent
  BY PageIds DEF EmptyFile
<1>5. \A p \in PageId : image[p].kind # "data" /\ image[p].kind # "free"
  BY <1>4 DEF Header, Absent
<1> HIDE DEF image
<1>6. ActivePages(image) = [p \in PageId |-> 0]
  BY <1>5 DEF ActivePages
<1>7. Describes(image, 1, [p \in PageId |-> 0], <<>>)
  BY <1>3, <1>4, <1>5, <1>6 DEF Describes, Header
<1>8. \A h \in DOMAIN history' : Shape(history'[h])
  BY <1>1 DEF Allocated, Shapes
<1> QED
  BY <1>1, <1>2, <1>3, <1>7, <1>8, AllocatedAlone

LEMMA RebuildAllocated ==
  ASSUME IInv, Recoverable, Allocated, Rebuild
  PROVE  Allocated'
<1>1. pc = "rebuild" /\ history' = history
  BY DEF Rebuild, Refuse, ghosts
<1>2. batch = None /\ snapshot = None
  BY <1>1 DEF IInv, Control, Reopening, Allocated, SavedBack, Own
<1>3. main = Committed /\ Shape(Committed) /\ Committed \in File
  BY <1>1, Bounds DEF Recoverable, Replays, Allocated, Shapes, Committed
<1>4. \A h \in DOMAIN history' : Shape(history'[h])
  BY <1>1 DEF Allocated, Shapes
<1>5. CASE Refuse
  BY <1>4, <1>5, ClosedAllocated DEF Refuse
<1>6. CASE /\ count' = main[0].n /\ active' = ActivePages(main)
           /\ free' = FreeList(main) /\ pc' = "idle" /\ batch' = batch /\ snapshot' = snapshot
  <2>1. Describes(Committed, count', active', free')
    BY <1>3, <1>6, DescribesRebuilt
  <2>2. ~Own' /\ Committed' = Committed
    BY <1>1, <1>2, <1>6 DEF Own, Committed
  <2> QED
    BY <1>2, <1>4, <1>6, <2>1, <2>2, AllocatedAlone
<1> QED
  BY <1>5, <1>6 DEF Rebuild

LEMMA CrashAllocated ==
  ASSUME SoundSettings, IInv, Recoverable, Allocated, Crash
  PROVE  Allocated'
<1>1. Closed
  BY DEF Crash
<1>2. PICK n \in Nat : history' = <<Survivor(n)>>
  <2>1. PICK kind \in Crashes : \E n \in WalFloor(kind) .. Len(wal) : history' = <<Survivor(n)>>
    BY DEF Crash
  <2>2. pc \in CrashPoints
    BY DEF Crash
  <2>3. WalFloor(kind) \in Nat /\ Len(wal) \in Nat
    BY <2>2, CrashFloor, Bounds
  <2> QED
    BY <2>1, <2>3
<1>3. Shape(Survivor(n))
  <2>1. CASE InDoubt(n)
    <3>1. Own /\ ~NoMarks(wal, batch.start)
      BY <2>1 DEF InDoubt, Own, NoMarks, CommitMarks
    <3>2. OwnExtent
      BY <3>1, OwnMarks
    <3> QED
      BY <2>1, <3>1, <3>2, PromisedShape DEF Survivor
  <2>2. CASE ~InDoubt(n)
    <3>1. history \in Seq(File) /\ Len(history) \in Nat \ {0}
      BY Bounds
    <3>2. CASE LostCommits(n) < Len(history)
      <4>1. LostCommits(n) \in Nat
        <5> DEFINE last == IF batch # None THEN Smaller(batch.start, Len(wal)) ELSE Len(wal)
        <5>1. last \in Int /\ Len(wal) \in Nat
          BY Bounds DEF Smaller, IInv, TypeOK, MemoryOK, Batch
        <5> HIDE DEF last
        <5>2. IsFiniteSet(n + 1 .. last)
          BY <5>1, FS_Interval
        <5>3. CommitMarks(n + 1, last) \subseteq n + 1 .. last
          BY DEF CommitMarks
        <5> QED
          BY <5>2, <5>3, FS_Subset, FS_CardinalityType DEF LostCommits, last
      <4> QED
        BY <2>2, <3>1, <3>2, <4>1 DEF Survivor, Allocated, Shapes
    <3>3. CASE ~(LostCommits(n) < Len(history))
      BY <2>2, <3>1, <3>3 DEF Survivor, Allocated, Shapes
    <3> QED
      BY <3>2, <3>3
  <2> QED
    BY <2>1, <2>2
<1>4. DOMAIN history' = {1} /\ history'[1] = Survivor(n)
  BY <1>2
<1> QED
  BY <1>1, <1>3, <1>4, ClosedAllocated

-----------------------------------------------------------------------------
(* Every step keeps the invariant.                                          *)

LEMMA AllocatedStep ==
  ASSUME SoundSettings, IInv, IInv', Recoverable, Allocated, Next
  PROVE  Allocated'
<1>1. CASE Opening
  <2>1. CASE OpenRefused \/ SlotsRefused \/ RedoRefuse
    <3>1. Closed /\ history' = history
      BY <2>1 DEF OpenRefused, SlotsRefused, RedoRefuse, Refuse, ghosts
    <3> QED
      BY <3>1, ClosedAllocated DEF Allocated, Shapes
  <2>2. CASE Open \/ RecoverDoubleWrite \/ ClearRestored \/ RedoAbort \/ RedoExtent
             \/ RedoSync \/ RedoFinish
             \/ RedoCkpt \/ RedoTruncate
    <3>1. /\ pc \in Reopening \cup {"down"} /\ pc' \in Reopening /\ history' = history
          /\ batch' = batch /\ snapshot' = snapshot
          /\ count' = count /\ active' = active /\ free' = free
      BY <2>2 DEF Open, RecoverDoubleWrite, ClearRestored, RedoAbort, RedoExtent, RedoSync,
         RedoFinish, RedoCkpt, RedoTruncate, Scan, Reopening, allocation, ghosts
    <3>2. ~Own /\ pc # "close" /\ pc' # "down"
      BY <3>1 DEF IInv, Control, Own, Reopening
    <3> QED
      BY <3>1, <3>2, AllocatedKept
  <2> QED
    BY <1>1, <2>1, <2>2, CreateAllocated, RebuildAllocated DEF Opening, Recover
<1>2. CASE Changing
  <2>1. CASE SyncAbort
    <3>1. /\ pc = "aborting" /\ pc' = "idle" /\ history' = history
          /\ batch' = batch /\ snapshot' = snapshot
          /\ count' = count /\ active' = active /\ free' = free
      BY <2>1 DEF SyncAbort, allocation
    <3>2. ~Own
      BY <3>1 DEF Recoverable, Stages, Own
    <3> QED
      BY <3>1, <3>2, AllocatedKept DEF Reopening
  <2> QED
    BY <1>2, <2>1, BeginAllocated, WriteAllocated, AllocateReusedAllocated,
       AllocateAppendedAllocated, ReleaseAllocated, TakeSavepointAllocated,
       RestoreSavepointAllocated, RollbackAllocated DEF Changing
<1>3. CASE Committing
  <2>1. CASE CommitPrepared \/ CommitMark
    <3>1. /\ pc \in Committings /\ pc' \in Committings /\ history' = history
          /\ batch' = batch /\ snapshot' = snapshot
          /\ count' = count /\ active' = active /\ free' = free
      BY <2>1 DEF CommitPrepared, CommitMark, Committings, allocation, ghosts
    <3>2. Own /\ OwnExtent
      BY <3>1 DEF Recoverable, Stages
    <3>3. OwnRecords \in Nat /\ batch.start \in Nat
      BY <3>2, StagedCount DEF Own, OwnRecords, BodyLength, IInv, TypeOK, MemoryOK, Batch
    <3>4. Len(wal) > batch.start
      <4>1. Len(wal) = batch.start + OwnRecords + 1 \/ Len(wal) = batch.start + OwnRecords + 2
        BY <3>2 DEF OwnExtent
      <4> QED
        BY <3>3, <4>1
    <3> QED
      BY <3>1, <3>4, AllocatedKept DEF Committings, Reopening
  <2>2. CASE ApplyStage \/ ApplyPages \/ ApplySync
    <3>1. /\ pc \in {"apply", "stage", "applySync"} /\ pc' \in {"stage", "applySync", "clear"}
          /\ history' = history
          /\ batch' = batch /\ snapshot' = snapshot
          /\ count' = count /\ active' = active /\ free' = free
      BY <2>2 DEF ApplyStage, ApplyPages, ApplySync, allocation, ghosts
    <3>2. Own => ~batch.doomed
      BY <3>1 DEF Recoverable, Stages, Applying
    <3> QED
      BY <3>1, <3>2, AllocatedKept DEF Reopening
  <2> QED
    BY <1>3, <2>1, <2>2, CommitEmptyAllocated, CommitAppendAllocated, CommitPublishAllocated,
       GroupSyncAllocated, ApplyClearAllocated DEF Committing
<1>4. CASE Checkpointing \/ FaultCheckpoint
  <2>1. /\ pc \in Truncating \cup {"idle"} /\ pc' \in Truncating \cup {"idle", "groupSync"}
        /\ history' = history /\ batch' = batch /\ snapshot' = snapshot
        /\ count' = count /\ active' = active /\ free' = free
        /\ pc = "idle" => batch = None
    BY <1>4 DEF Checkpointing, Checkpoint, SyncGroup, Idle, CheckpointFuzzy, CheckpointRecycle,
       RecycleSync, CheckpointRecycled, CheckpointWrite, FaultCheckpoint, Truncating,
       allocation, ghosts
  <2>2. ~Own
    BY <2>1 DEF IInv, Control, Own
  <2> QED
    BY <2>1, <2>2, AllocatedKept DEF Truncating, Reopening
<1>5. CASE Close
  <2>1. /\ pc = "idle" /\ pc' \in {"close", "groupSync"} /\ history' = history
        /\ batch' = batch /\ snapshot' = snapshot
        /\ count' = count /\ active' = active /\ free' = free
        /\ batch # None => ~batch.doomed
    BY <1>5 DEF Close, Idle, Working, InBatch, SyncGroup, allocation, ghosts
  <2> QED
    BY <2>1, AllocatedKept DEF Reopening, Own
<1>6. CASE Closing
  BY <1>6, ClosedAllocated DEF Closing, Allocated, Shapes, ghosts
<1>7. CASE FaultFatal
  <2>1. /\ pc \in Applying \cup {"aborting"} /\ pc' = "broken" /\ history' = history
        /\ batch' = batch /\ snapshot' = snapshot
        /\ count' = count /\ active' = active /\ free' = free
    BY <1>7 DEF FaultFatal, Applying, allocation, ghosts
  <2>2. Own => ~batch.doomed
    BY <2>1 DEF Recoverable, Stages, Own
  <2> QED
    BY <2>1, <2>2, AllocatedKept DEF Applying
<1> QED
  BY <1>1, <1>2, <1>3, <1>4, <1>5, <1>6, <1>7, FaultCommitAllocated, NoGroupFault,
     CrashAllocated DEF Next, Failing

\* Under sound settings the invariant of durability holds of every behaviour.
THEOREM DurabilityInvariant == ASSUME SoundSettings PROVE Spec => []Durability
<1>1. Durability /\ [Next]_vars => Durability'
  <2> SUFFICES ASSUME Durability, [Next]_vars PROVE Durability'
    OBVIOUS
  <2>1. IInv /\ Recoverable /\ Allocated /\ Asked
    BY DEF Durability
  <2>2. IInv'
    BY <2>1, TypeStep, ControlStep, OwnBlocksStep DEF IInv
  <2>3. CASE Next
    BY <2>1, <2>2, <2>3, RecoverableStep, AllocatedStep, AskedStep DEF Durability
  <2>4. CASE UNCHANGED vars
    BY <2>1, <2>2, <2>4, StillDurable DEF Durability
  <2> QED
    BY <2>3, <2>4
<1> QED
  BY <1>1, InitDurable, PTL DEF Spec

-----------------------------------------------------------------------------
(* What the page file promises.                                             *)

\* Between any two steps the journal parses extent by extent, wherever a crash may
\* cut it stands an image that was committed, and what the main file lacks of that
\* image is behind the recorded start of recovery: appendRedo (page_file.cpp),
\* applyExtent, checkpoint and replayRedo never leave a state recovery cannot use.
THEOREM RecoverableAlways == ASSUME SoundSettings PROVE Spec => []Recoverable
<1>1. Durability => Recoverable
  BY DEF Durability
<1> QED
  BY <1>1, DurabilityInvariant, PTL

\* Pending extents over the main file, the newest first, make the image they
\* lead to.
LEMMA PendingRead ==
  ASSUME pending \in Seq(ExtentType), NEW image, Leads(main, pending, image), NEW p \in PageId
  PROVE  (IF PendingPages[p] # None THEN PendingPages[p] ELSE main[p]) = image[p]
<1> DEFINE holders == {i \in DOMAIN pending : pending[i].pages[p] # None}
<1>1. CASE holders = {}
  <2>1. PendingPages[p] = None
    BY <1>1 DEF PendingPages
  <2>2. \A k \in DOMAIN pending : pending[k].pages[p] = None
    BY <1>1
  <2> QED
    BY <2>1, <2>2 DEF Leads
<1>2. CASE holders # {}
  <2>1. holders \subseteq 1 .. Len(pending) /\ Len(pending) \in Nat
    OBVIOUS
  <2>2. \E i \in holders : \A j \in holders : j <= i
    <3>1. IsFiniteSet(1 .. Len(pending)) /\ 1 .. Len(pending) \subseteq Int
      BY <2>1, FS_Interval
    <3>2. IsFiniteSet(holders) /\ holders \in SUBSET Int
      BY <2>1, <3>1, FS_Subset
    <3> HIDE DEF holders
    <3> QED
      BY <1>2, <3>2, MaxExists
  <2> DEFINE k == CHOOSE i \in holders : \A j \in holders : j <= i
  <2>3. k \in holders /\ \A j \in holders : j <= k
    BY <2>2
  <2>4. PendingPages[p] = pending[k].pages[p]
    BY <1>2 DEF PendingPages
  <2>5. pending[k].pages[p] = image[p]
    BY <2>3 DEF Leads
  <2> QED
    BY <2>3, <2>4, <2>5
<1> QED
  BY <1>1, <1>2

\* Whatever crashes, recoveries, rollbacks and checkpoints came between: a reader
\* without a batch finds the pages of the last commit (readRaw).
THEOREM CommitsRead == ASSUME SoundSettings PROVE Spec => []ReadsCommitted
<1>1. Durability => ReadsCommitted
  <2> SUFFICES ASSUME Durability, Idle, NEW p \in PageId
               PROVE  ReadRaw(p) = Committed[p]
    BY DEF ReadsCommitted
  <2>1. pc = "idle" /\ batch = None /\ pending \in Seq(ExtentType)
    BY DEF Idle, Durability, IInv, TypeOK, MemoryOK
  <2>2. Leads(main, pending, Committed)
    BY <2>1 DEF Durability, Recoverable, Quiet, Applying, Reopening
  <2>3. ReadRaw(p) = IF PendingPages[p] # None THEN PendingPages[p] ELSE main[p]
    BY <2>1 DEF ReadRaw
  <2> QED
    BY <2>1, <2>2, <2>3, PendingRead
<1> QED
  BY <1>1, DurabilityInvariant, PTL

\* Without group commit the main file holds everything committed while a batch
\* is open: the batch reads its own pages over it (readRaw).
THEOREM BatchReads ==
  ASSUME SoundSettings, TRUE \notin GroupModes PROVE Spec => []BatchReadsPromised
<1>1. Durability => BatchReadsPromised
  <2> SUFFICES ASSUME Durability, InBatch, NEW p \in PageId
               PROVE  ReadRaw(p) = Promised[p]
    BY DEF BatchReadsPromised
  <2>1. pc = "idle" /\ batch # None
    BY DEF InBatch
  <2>2. ~mode.group
    <3>1. mode.group \in GroupModes
      BY <2>1 DEF Durability, Recoverable, SlotsBacked
    <3> QED
      BY <3>1, PageFileAssumption
  <2>3. pending = <<>>
    BY <2>1, <2>2 DEF Durability, IInv, Control, Applying
  <2>4. main = Committed
    BY <2>1, <2>3, NothingPending DEF Durability, Applying, Reopening
  <2> QED
    BY <2>1, <2>4 DEF ReadRaw, Promised, Overlay
<1> QED
  BY <1>1, DurabilityInvariant, PTL

\* count_, active_ and free_ describe what a reader sees, whatever was rolled
\* back, restored, recovered or reopened.
THEOREM AllocationHolds == ASSUME SoundSettings PROVE Spec => []AllocationMatchesPages
<1>1. Durability => AllocationMatchesPages
  <2> SUFFICES ASSUME Durability, pc = "idle", batch = None \/ ~batch.doomed
               PROVE  /\ count = Promised[0].n
                      /\ active = ActivePages(Promised)
                      /\ {free[i] : i \in DOMAIN free} =
                           {[id |-> p, gen |-> Promised[p].n] : p \in FreeIds(Promised)}
                      /\ Len(free) = Cardinality(FreeIds(Promised))
    BY DEF AllocationMatchesPages
  <2>1. batch # None => Own
    BY BatchIsOwn DEF Durability
  <2>2. Promised = Shown
    BY <2>1 DEF Promised, Shown, Own
  <2>3. Describes(Promised, count, active, free)
    BY <2>1, <2>2 DEF Durability, Allocated, Showing, Reopening, Own
  <2>4. Promised \in File /\ free \in Seq(Ref)
    <3>1. batch \in Batch \cup {None} /\ Committed \in File /\ free \in Seq(Ref)
      BY Bounds DEF Durability, IInv, TypeOK, MemoryOK
    <3>2. batch # None => batch.pages \in PageMap
      BY <3>1 DEF Batch
    <3> QED
      BY <3>1, <3>2, OverlayType DEF Promised
  <2> QED
    BY <2>3, <2>4, DescribesCount DEF Describes
<1> QED
  BY <1>1, DurabilityInvariant, PTL

-----------------------------------------------------------------------------
(* Generations of pages.                                                    *)

LEMMA AdvancesAll ==
  /\ \A a \in File : Advances(a, a)
  /\ \A a, b, c \in File : Advances(a, b) /\ Advances(b, c) => Advances(a, c)
<1>1. ASSUME NEW a \in File
      PROVE  Advances(a, a)
  BY FixedContents DEF Advances, File, Content
<1>2. ASSUME NEW a \in File, NEW b \in File, NEW c \in File, Advances(a, b), Advances(b, c)
      PROVE  Advances(a, c)
  <2> SUFFICES ASSUME NEW p \in PageId, a[p].kind \in {"data", "free"}
               PROVE  /\ c[p].kind \in {"data", "free"} /\ c[p].n >= a[p].n
                      /\ a[p].kind = "free" /\ c[p].kind = "data" => c[p].n > a[p].n
    BY DEF Advances
  <2>1. a[p].n \in Nat /\ b[p].n \in Nat /\ c[p].n \in Nat
    BY DEF File, Content
  <2>2. /\ b[p].kind \in {"data", "free"} /\ b[p].n >= a[p].n
        /\ a[p].kind = "free" /\ b[p].kind = "data" => b[p].n > a[p].n
    BY <1>2 DEF Advances
  <2>3. /\ c[p].kind \in {"data", "free"} /\ c[p].n >= b[p].n
        /\ b[p].kind = "free" /\ c[p].kind = "data" => c[p].n > b[p].n
    BY <1>2, <2>2 DEF Advances
  <2> QED
    BY <2>1, <2>2, <2>3
<1> QED
  BY <1>1, <1>2

LEMMA AdvancesPage ==
  ASSUME NEW a \in File, NEW p \in PageId, NEW content,
         a[p].kind \in {"data", "free"} =>
           /\ content.kind \in {"data", "free"} /\ content.n >= a[p].n
           /\ a[p].kind = "free" /\ content.kind = "data" => content.n > a[p].n
  PROVE  Advances(a, [a EXCEPT ![p] = content])
<1> SUFFICES ASSUME NEW q \in PageId, a[q].kind \in {"data", "free"}
             PROVE  /\ [a EXCEPT ![p] = content][q].kind \in {"data", "free"}
                    /\ [a EXCEPT ![p] = content][q].n >= a[q].n
                    /\ a[q].kind = "free" /\ [a EXCEPT ![p] = content][q].kind = "data"
                         => [a EXCEPT ![p] = content][q].n > a[q].n
  BY DEF Advances
<1>1. a[q].n \in Nat
  BY DEF File, Content
<1>2. CASE q = p
  <2>1. [a EXCEPT ![p] = content][q] = content
    BY <1>2 DEF File
  <2> QED
    BY <1>2, <2>1
<1>3. CASE q # p
  <2>1. [a EXCEPT ![p] = content][q] = a[q]
    BY <1>3 DEF File
  <2> QED
    BY <1>1, <2>1
<1> QED
  BY <1>2, <1>3

LEMMA ChainOne ==
  ASSUME NEW image \in File
  PROVE  Chain(<<image>>)
<1>1. DOMAIN <<image>> = {1} /\ <<image>>[1] = image
  OBVIOUS
<1> QED
  BY <1>1, AdvancesAll DEF Chain

LEMMA ChainAppend ==
  ASSUME NEW h \in Seq(File), h # <<>>, Chain(h), NEW image \in File, Advances(h[Len(h)], image)
  PROVE  Chain(Append(h, image))
<1> DEFINE k == Append(h, image)
<1>1. /\ Len(h) \in Nat \ {0} /\ DOMAIN k = 1 .. Len(h) + 1 /\ k[Len(h) + 1] = image
      /\ \A i \in 1 .. Len(h) : k[i] = h[i] /\ h[i] \in File
  OBVIOUS
<1> HIDE DEF k
<1> SUFFICES ASSUME NEW i \in DOMAIN k, NEW j \in DOMAIN k, i <= j
             PROVE  Advances(k[i], k[j])
  BY DEF Chain, k
<1>2. CASE j \in 1 .. Len(h)
  <2>1. i \in 1 .. Len(h)
    BY <1>1, <1>2
  <2> QED
    BY <1>1, <1>2, <2>1 DEF Chain
<1>3. CASE j = Len(h) + 1 /\ i \in 1 .. Len(h)
  <2>1. Len(h) \in 1 .. Len(h) /\ i <= Len(h)
    BY <1>1, <1>3
  <2>2. Advances(h[i], h[Len(h)])
    BY <1>3, <2>1 DEF Chain
  <2> QED
    BY <1>1, <1>3, <2>1, <2>2, AdvancesAll
<1>4. CASE j = Len(h) + 1 /\ i = Len(h) + 1
  BY <1>1, <1>4, AdvancesAll
<1> QED
  BY <1>1, <1>2, <1>3, <1>4

\* What describes an image knows the generation of each of its pages.
LEMMA KnownGenerations ==
  ASSUME NEW image \in File, NEW n, NEW a, NEW r \in Seq(Ref), Describes(image, n, a, r)
  PROVE  /\ \A p \in PageId : a[p] # 0 => image[p].kind = "data" /\ image[p].n = a[p]
         /\ r # <<>> => /\ r[Len(r)].id \in PageId /\ image[r[Len(r)].id].kind = "free"
                        /\ image[r[Len(r)].id].n = r[Len(r)].gen /\ r[Len(r)].gen \in Nat
         /\ \A p \in PageId : p >= n => image[p].kind = "absent"
         /\ image[0].kind = "header"
<1>1. \A p \in PageId : a[p] # 0 => image[p].kind = "data" /\ image[p].n = a[p]
  BY DEF Describes, ActivePages
<1>2. ASSUME r # <<>>
      PROVE  /\ r[Len(r)].id \in PageId /\ image[r[Len(r)].id].kind = "free"
             /\ image[r[Len(r)].id].n = r[Len(r)].gen /\ r[Len(r)].gen \in Nat
  <2>1. Len(r) \in DOMAIN r /\ r[Len(r)] \in Ref
    BY <1>2
  <2> QED
    BY <2>1 DEF Describes, Ref
<1>3. \A p \in PageId : p >= n => image[p].kind = "absent"
  BY DEF Describes, Shape, Absent
<1>4. image[0].kind = "header"
  BY DEF Describes, Shape, Header
<1> QED
  BY <1>1, <1>2, <1>3, <1>4

-----------------------------------------------------------------------------
(* Generations: steps that leave the images alone, and those that end a batch. *)

LEMMA GenerationsKept ==
  ASSUME Generations, history' = history, batch' = batch, snapshot' = snapshot, pc # "close"
  PROVE  Generations'
<1>1. Own' = Own /\ Committed' = Committed
  BY DEF Own, Committed
<1>2. Shown' = Shown
  BY <1>1 DEF Shown
<1> QED
  BY <1>1, <1>2 DEF Generations

LEMMA GenerationsAlone ==
  ASSUME Chain(history'), batch' = None \/ batch'.published, snapshot' = None
  PROVE  Generations'
BY DEF Generations, Own

\* A step that changes the staged pages of a batch.
LEMMA StagingGenerations ==
  ASSUME IInv, Recoverable, Allocated, Generations, Working, Restaged, BatchOnly,
         Advances(Committed, Overlay(Committed, batch'.pages))
  PROVE  Generations'
<1>1. batch # None /\ Own /\ pc = "idle"
  BY WorkingShows
<1>2. batch' # None /\ batch'.published = batch.published /\ history' = history
      /\ snapshot' = snapshot /\ pc' = pc
  BY NoneAssumption DEF Restaged, SameBatch, BatchOnly, ghosts
<1>3. Own' /\ Committed' = Committed
  BY <1>1, <1>2 DEF Own, Committed
<1>4. Shown' = Overlay(Committed, batch'.pages)
  BY <1>3 DEF Shown
<1> QED
  BY <1>1, <1>2, <1>3, <1>4 DEF Generations

\* One page more.
LEMMA StageGenerations ==
  ASSUME IInv, Recoverable, Allocated, Generations, Working, BatchOnly, NEW p \in PageId,
         NEW content \in Content,
         \/ batch' = [batch EXCEPT !.doomed = TRUE]
         \/ batch' = Stage(batch, p, content),
         Shown[p].kind \in {"data", "free"} =>
           /\ content.kind \in {"data", "free"} /\ content.n >= Shown[p].n
           /\ Shown[p].kind = "free" /\ content.kind = "data" => content.n > Shown[p].n
  PROVE  Generations'
<1>1. /\ batch \in Batch /\ Shown = Overlay(Committed, batch.pages) /\ Committed \in File
      /\ batch.pages \in PageMap /\ Shown \in File /\ Own
  BY WorkingShows
<1>2. Advances(Committed, Shown)
  BY <1>1 DEF Generations
<1>3. CASE batch' = [batch EXCEPT !.doomed = TRUE]
  <2>1. Restaged /\ batch'.pages = batch.pages
    BY <1>1, <1>3, StageSame, DoomFields DEF Restaged
  <2> QED
    BY <1>1, <1>2, <2>1, StagingGenerations
<1>4. CASE batch' = Stage(batch, p, content)
  <2>1. Restaged /\ batch'.pages = [batch.pages EXCEPT ![p] = content]
    BY <1>1, <1>4, StageSame, StagePages DEF Restaged
  <2>2. Overlay(Committed, batch'.pages) = [Shown EXCEPT ![p] = content]
    BY <1>1, <2>1, StagedOverlay
  <2>3. Advances(Shown, [Shown EXCEPT ![p] = content])
    BY <1>1, AdvancesPage
  <2>4. [Shown EXCEPT ![p] = content] \in File
    BY <1>1 DEF File
  <2>5. Advances(Committed, Overlay(Committed, batch'.pages))
    BY <1>1, <1>2, <2>2, <2>3, <2>4, AdvancesAll
  <2> QED
    BY <2>1, <2>5, StagingGenerations
<1> QED
  BY <1>3, <1>4

LEMMA WriteGenerations ==
  ASSUME IInv, Recoverable, Allocated, Generations, Write
  PROVE  Generations'
<1>1. Working /\ BatchOnly
  BY DEF Write
<1>2. PICK p \in PageId, v \in Vals :
        /\ active[p] # 0
        /\ batch' = IF Fits(batch, p) THEN Stage(batch, p, Data(active[p], v))
                    ELSE [batch EXCEPT !.doomed = TRUE]
  BY DEF Write
<1>3. /\ Describes(Shown, count, active, free) /\ Shown \in File /\ free \in Seq(Ref)
      /\ active \in [PageId -> Nat]
  BY <1>1, WorkingShows
<1>4. Data(active[p], v) \in Content
  BY <1>3, FixedContents
<1>5. Shown[p].kind = "data" /\ Shown[p].n = active[p]
  BY <1>2, <1>3, KnownGenerations
<1>6. Data(active[p], v).kind = "data" /\ Data(active[p], v).n = active[p] /\ active[p] \in Nat
  BY <1>3 DEF Data
<1> QED
  BY <1>1, <1>2, <1>4, <1>5, <1>6, StageGenerations

LEMMA AllocateReusedGenerations ==
  ASSUME IInv, Recoverable, Allocated, Generations, AllocateReused
  PROVE  Generations'
<1> DEFINE ref == free[Len(free)]
<1>1. Working /\ BatchOnly /\ free # <<>>
  BY DEF AllocateReused
<1>2. PICK v \in Vals :
        \/ batch' = Stage(batch, ref.id, Data(Reused(ref), v))
        \/ batch' = [batch EXCEPT !.doomed = TRUE]
  BY DEF AllocateReused
<1>3. /\ Describes(Shown, count, active, free) /\ Shown \in File /\ free \in Seq(Ref)
  BY <1>1, WorkingShows
<1>4. /\ ref.id \in PageId /\ Shown[ref.id].kind = "free"
      /\ Shown[ref.id].n = ref.gen /\ ref.gen \in Nat
  BY <1>1, <1>3, KnownGenerations
<1> HIDE DEF ref
<1>5. /\ Data(Reused(ref), v).kind = "data" /\ Data(Reused(ref), v).n = ref.gen + 1
      /\ Data(Reused(ref), v) \in Content
  <2>1. Reused(ref) = ref.gen + 1 /\ Reused(ref) \in Nat
    BY <1>4 DEF Reused
  <2> QED
    BY <2>1, FixedContents DEF Data
<1> QED
  BY <1>1, <1>2, <1>4, <1>5, StageGenerations

LEMMA ReleaseGenerations ==
  ASSUME IInv, Recoverable, Allocated, Generations, Release
  PROVE  Generations'
<1>1. Working /\ BatchOnly
  BY DEF Release
<1>2. PICK p \in PageId :
        /\ active[p] # 0
        /\ \/ batch' = Stage(batch, p, Free(active[p]))
           \/ batch' = [batch EXCEPT !.doomed = TRUE]
  BY DEF Release
<1>3. /\ Describes(Shown, count, active, free) /\ Shown \in File /\ free \in Seq(Ref)
      /\ active \in [PageId -> Nat]
  BY <1>1, WorkingShows
<1>4. Free(active[p]) \in Content
  BY <1>3, FixedContents
<1>5. Shown[p].kind = "data" /\ Shown[p].n = active[p]
  BY <1>2, <1>3, KnownGenerations
<1>6. Free(active[p]).kind = "free" /\ Free(active[p]).n = active[p] /\ active[p] \in Nat
  BY <1>3 DEF Free
<1> QED
  BY <1>1, <1>2, <1>4, <1>5, <1>6, StageGenerations

LEMMA AllocateAppendedGenerations ==
  ASSUME IInv, IInv', Recoverable, Allocated, Generations, AllocateAppended
  PROVE  Generations'
<1>1. Working /\ BatchOnly /\ free = <<>> /\ count < MaxPages
  BY DEF AllocateAppended
<1>2. PICK v \in Vals :
        LET data == Stage(batch, count, Data(1, v)) IN
        \/ batch' = [batch EXCEPT !.doomed = TRUE]
        \/ batch' = Stage(data, 0, Header(count + 1))
        \/ batch' = [data EXCEPT !.doomed = TRUE]
  BY DEF AllocateAppended
<1> DEFINE data == Stage(batch, count, Data(1, v))
<1>3. /\ batch \in Batch /\ Shown = Overlay(Committed, batch.pages) /\ Committed \in File
      /\ batch.pages \in PageMap /\ Shown \in File /\ Own
      /\ Describes(Shown, count, active, <<>>) /\ count \in Nat
  BY <1>1, WorkingShows
<1>4. count \in PageId /\ 0 \in PageId
  BY <1>1, <1>3, DescribesGrow, PageIds
<1>5. Data(1, v) \in Content /\ Header(count + 1) \in Content
  BY <1>3, FixedContents
<1>6. data \in Batch /\ data.pages = [batch.pages EXCEPT ![count] = Data(1, v)]
  <2>1. data \in Batch
    BY <1>3, <1>4, <1>5, StageFields
  <2>2. data.pages = [batch.pages EXCEPT ![count] = Data(1, v)]
    BY <1>3, <1>4, <1>5, StagePages
  <2> QED
    BY <2>1, <2>2
<1> HIDE DEF data
<1>7. Shown[count].kind = "absent" /\ Shown[0].kind = "header" /\ count # 0
  <2>1. <<>> \in Seq(Ref)
    OBVIOUS
  <2>2. count >= count
    BY <1>3
  <2>3. Shown[count].kind = "absent" /\ Shown[0].kind = "header"
    BY <1>3, <1>4, <2>1, <2>2, KnownGenerations
  <2> QED
    BY <2>3
<1> DEFINE one == [Shown EXCEPT ![count] = Data(1, v)]
           two == [one EXCEPT ![0] = Header(count + 1)]
<1>8. one \in File /\ two \in File /\ one[0].kind = "header"
  <2>1. one \in File
    BY <1>3, <1>5 DEF File
  <2>2. two \in File
    BY <1>5, <2>1 DEF File
  <2>3. one[0] = Shown[0]
    BY <1>3, <1>4, <1>7 DEF File
  <2> QED
    BY <1>7, <2>1, <2>2, <2>3
<1>9. Advances(Committed, one)
  <2>1. Advances(Shown, one)
    BY <1>3, <1>4, <1>7, AdvancesPage
  <2> QED
    BY <1>3, <1>8, <2>1, AdvancesAll DEF Generations
<1>10. Advances(Committed, two)
  <2> HIDE DEF one
  <2>1. Advances(one, two)
    BY <1>4, <1>8, AdvancesPage
  <2> QED
    BY <1>3, <1>8, <1>9, <2>1, AdvancesAll
<1>11. Overlay(Committed, data.pages) = one
  BY <1>3, <1>4, <1>5, <1>6, StagedOverlay
<1> HIDE DEF one
<1>12. Restaged
  BY ChangingRestaged
<1>13. CASE batch' = [batch EXCEPT !.doomed = TRUE]
  <2>1. batch'.pages = batch.pages
    BY <1>3, <1>13, DoomFields
  <2> QED
    BY <1>1, <1>3, <1>12, <2>1, StagingGenerations DEF Generations
<1>14. CASE batch' = [data EXCEPT !.doomed = TRUE]
  <2>1. batch'.pages = data.pages
    BY <1>6, <1>14, DoomFields
  <2> QED
    BY <1>1, <1>9, <1>11, <1>12, <2>1, StagingGenerations
<1>15. CASE batch' = Stage(data, 0, Header(count + 1))
  <2>1. batch'.pages = [data.pages EXCEPT ![0] = Header(count + 1)]
    BY <1>4, <1>5, <1>6, <1>15, StagePages
  <2>2. data.pages \in PageMap
    BY <1>6 DEF Batch
  <2>3. Overlay(Committed, batch'.pages) = two
    <3>1. Overlay(Committed, [data.pages EXCEPT ![0] = Header(count + 1)])
            = [Overlay(Committed, data.pages) EXCEPT ![0] = Header(count + 1)]
      BY <1>4, <1>5, <2>2, StagedOverlay
    <3> QED
      BY <1>11, <2>1, <3>1
  <2> QED
    BY <1>1, <1>10, <1>12, <2>3, StagingGenerations
<1> QED
  BY <1>2, <1>13, <1>14, <1>15 DEF data

LEMMA RestoreSavepointGenerations ==
  ASSUME IInv, IInv', Recoverable, Allocated, Generations, RestoreSavepoint
  PROVE  Generations'
<1>1. /\ Working /\ BatchOnly /\ snapshot # None /\ pc = "idle"
      /\ batch' = [batch EXCEPT !.pages = snapshot.pages]
  BY DEF RestoreSavepoint, Working, InBatch
<1>2. batch \in Batch /\ Restaged
  BY <1>1, WorkingShows, ChangingRestaged
<1>3. batch'.pages = snapshot.pages
  BY <1>1, <1>2 DEF Batch
<1>4. Advances(Committed, Overlay(Committed, snapshot.pages))
  BY <1>1 DEF Generations
<1> QED
  BY <1>1, <1>2, <1>3, <1>4, StagingGenerations

LEMMA TakeSavepointGenerations ==
  ASSUME IInv, Recoverable, Allocated, Generations, TakeSavepoint
  PROVE  Generations'
<1>1. /\ Working /\ pc' = pc /\ batch' = batch /\ history' = history
      /\ snapshot'.pages = batch.pages
  BY DEF TakeSavepoint, ghosts
<1>2. Own /\ pc = "idle" /\ Shown = Overlay(Committed, batch.pages)
  BY <1>1, WorkingShows
<1>3. Own' /\ Committed' = Committed
  BY <1>1, <1>2 DEF Own, Committed
<1>4. Shown' = Shown
  BY <1>1, <1>2, <1>3 DEF Shown
<1> QED
  BY <1>1, <1>2, <1>3, <1>4 DEF Generations

LEMMA BeginGenerations ==
  ASSUME IInv, Recoverable, Allocated, Generations, Begin
  PROVE  Generations'
<1>1. /\ pc = "idle" /\ batch = None /\ snapshot' = snapshot /\ history' = history
      /\ batch'.pages = NoPages
  BY DEF Begin, Idle, ghosts
<1>2. ~Own /\ snapshot = None
  BY <1>1 DEF Own, Allocated, SavedBack
<1>3. Committed' = Committed /\ Committed \in File
  BY <1>1, Bounds DEF Committed
<1>4. Overlay(Committed, NoPages) = Committed
  BY <1>3, NothingStaged
<1>5. Shown' = Committed
  BY <1>1, <1>3, <1>4 DEF Shown
<1>6. Advances(Committed, Committed)
  BY <1>3, AdvancesAll
<1> QED
  BY <1>1, <1>2, <1>3, <1>5, <1>6 DEF Generations

\* The header a commit stages is the one its pages have already.
LEMMA CommitAppendShows ==
  ASSUME IInv, Recoverable, Allocated, CommitAppend
  PROVE  /\ Overlay(Committed, batch'.pages) = Shown /\ batch' # None
         /\ batch'.published = batch.published /\ batch'.start = batch.start
<1>1. /\ Working
      /\ \/ batch' = Stage(batch, 0, Header(count))
         \/ batch' = [batch EXCEPT !.doomed = TRUE]
  BY DEF CommitAppend
<1>2. /\ batch \in Batch /\ Shown = Overlay(Committed, batch.pages)
      /\ Shown \in File /\ batch.pages \in PageMap /\ Committed \in File
      /\ Describes(Shown, count, active, free) /\ count \in Nat
  BY <1>1, WorkingShows
<1>3. 0 \in PageId /\ Header(count) \in Content
  BY <1>2, FixedContents, PageIds
<1>4. CASE batch' = Stage(batch, 0, Header(count))
  <2>1. /\ batch' \in Batch /\ batch'.published = batch.published /\ batch'.start = batch.start
        /\ batch'.pages = [batch.pages EXCEPT ![0] = Header(count)]
    <3>1. batch'.pages = [batch.pages EXCEPT ![0] = Header(count)]
      BY <1>2, <1>3, <1>4, StagePages
    <3>2. /\ batch' \in Batch /\ batch'.published = batch.published
          /\ batch'.start = batch.start
      BY <1>2, <1>3, <1>4, StageFields
    <3> QED
      BY <3>1, <3>2
  <2>2. Overlay(Committed, batch'.pages) = [Shown EXCEPT ![0] = Header(count)]
    BY <1>2, <1>3, <2>1, StagedOverlay
  <2>3. Shown[0] = Header(count)
    BY <1>2 DEF Describes, Shape
  <2>4. [Shown EXCEPT ![0] = Header(count)] = Shown
    BY <1>2, <1>3, <2>3 DEF File
  <2> QED
    BY <2>1, <2>2, <2>4, NoneAssumption
<1>5. CASE batch' = [batch EXCEPT !.doomed = TRUE]
  BY <1>2, <1>5, DoomFields, NoneAssumption
<1> QED
  BY <1>1, <1>4, <1>5

LEMMA CommitAppendGenerations ==
  ASSUME IInv, Recoverable, Allocated, Generations, CommitAppend
  PROVE  Generations'
<1>1. Working /\ history' = history /\ snapshot' = snapshot /\ pc # "close"
  BY DEF CommitAppend, ghosts, Working, InBatch
<1>2. Own
  BY <1>1, WorkingShows
<1>3. /\ Overlay(Committed, batch'.pages) = Shown /\ batch' # None
      /\ batch'.published = batch.published
  BY CommitAppendShows
<1>4. Own' /\ Committed' = Committed
  BY <1>1, <1>2, <1>3 DEF Own, Committed
<1>5. Shown' = Shown
  BY <1>3, <1>4 DEF Shown
<1> QED
  BY <1>1, <1>2, <1>4, <1>5 DEF Generations

LEMMA FaultCommitGenerations ==
  ASSUME IInv, Recoverable, Generations, FaultCommit
  PROVE  Generations'
<1>1. /\ pc \in Committings /\ batch' = [batch EXCEPT !.doomed = TRUE]
      /\ history' = history /\ snapshot' = snapshot
  BY DEF FaultCommit, Committings, ghosts
<1>2. Own /\ batch \in Batch /\ pc # "close"
  BY <1>1 DEF Recoverable, Stages, Own, IInv, TypeOK, MemoryOK, Committings
<1>3. batch' \in Batch /\ batch'.published = batch.published /\ batch'.pages = batch.pages
  BY <1>1, <1>2, DoomFields
<1>4. Own' /\ Committed' = Committed
  BY <1>1, <1>2, <1>3, NoneAssumption DEF Own, Committed
<1>5. Shown' = Shown
  BY <1>2, <1>3, <1>4 DEF Shown
<1> QED
  BY <1>1, <1>2, <1>4, <1>5 DEF Generations

-----------------------------------------------------------------------------
(* Generations: a commit, a group made durable, a crash.                    *)

LEMMA CommitPublishGenerations ==
  ASSUME IInv, IInv', Recoverable, Allocated, Generations, CommitPublish
  PROVE  Generations'
<1>1. /\ pc = "marked" /\ snapshot' = None
      /\ \/ batch' = None /\ history' = Append(history, Promised)
         \/ batch' = [batch EXCEPT !.published = TRUE] /\ history' = <<Promised>>
  BY DEF CommitPublish
<1>2. Own /\ OwnExtent /\ batch \in Batch
  BY <1>1 DEF Recoverable, Stages, Committings, Own, IInv, TypeOK, MemoryOK
<1>3. Promised = Shown /\ Promised \in File
  <2>1. batch.pages \in PageMap /\ Committed \in File
    BY <1>2, Bounds DEF Batch
  <2> QED
    BY <1>2, <2>1, OverlayType DEF Promised, Shown, Own
<1>4. history \in Seq(File) /\ history # <<>> /\ Chain(history)
  BY Bounds DEF Generations
<1>5. Advances(history[Len(history)], Promised)
  BY <1>2, <1>3 DEF Generations, Committed
<1>6. Chain(history')
  BY <1>1, <1>3, <1>4, <1>5, ChainOne, ChainAppend
<1>7. batch' = None \/ batch'.published
  BY <1>1, <1>2 DEF Batch
<1> QED
  BY <1>1, <1>6, <1>7, GenerationsAlone

LEMMA GroupSyncGenerations ==
  ASSUME IInv, Recoverable, Generations, GroupSync
  PROVE  Generations'
<1>1. /\ pc = "groupSync" /\ history' = <<Committed>> /\ batch' = batch /\ snapshot' = snapshot
  BY DEF GroupSync
<1>2. Committed \in File
  BY Bounds
<1>3. Committed' = Committed
  <2>1. Committed' = history'[Len(history')] /\ <<Committed>>[1] = Committed
    BY DEF Committed
  <2> QED
    BY <1>1, <2>1
<1>4. Own' = Own
  BY <1>1 DEF Own
<1>5. Shown' = Shown
  BY <1>1, <1>3, <1>4 DEF Shown
<1> QED
  BY <1>1, <1>2, <1>3, <1>4, <1>5, ChainOne DEF Generations

\* What a crash leaves goes on from what was durable.
LEMMA SurvivorAdvances ==
  ASSUME SoundSettings, IInv, Recoverable, Allocated, Generations, NEW n \in Nat
  PROVE  Survivor(n) \in File /\ Advances(Durable, Survivor(n))
<1>1. /\ history \in Seq(File) /\ Len(history) \in Nat \ {0} /\ Committed \in File
      /\ \A i \in DOMAIN history : history[i] \in File /\ Advances(history[1], history[i])
  <2>1. history \in Seq(File) /\ Len(history) \in Nat \ {0} /\ Committed \in File
    BY Bounds
  <2>2. 1 \in DOMAIN history /\ \A i \in DOMAIN history : history[i] \in File /\ 1 <= i
    BY <2>1
  <2> QED
    BY <2>1, <2>2 DEF Generations, Chain
<1>2. CASE InDoubt(n)
  <2>1. Own
    BY <1>2 DEF InDoubt, Own
  <2>2. Survivor(n) = Shown
    BY <1>2, <2>1 DEF Survivor, Promised, Shown, Own
  <2>3. batch.pages \in PageMap
    BY <2>1 DEF Own, IInv, TypeOK, MemoryOK, Batch
  <2>4. Shown \in File
    BY <1>1, <2>1, <2>3, OverlayType DEF Shown
  <2>5. Advances(Committed, Shown)
    BY <2>1 DEF Generations
  <2>6. Durable \in File /\ Advances(Durable, Committed)
    BY <1>1 DEF Durable, Committed
  <2> QED
    BY <1>1, <2>2, <2>4, <2>5, <2>6, AdvancesAll
<1>3. CASE ~InDoubt(n)
  <2>1. CASE LostCommits(n) < Len(history)
    <3>1. LostCommits(n) \in Nat
      <4> DEFINE last == IF batch # None THEN Smaller(batch.start, Len(wal)) ELSE Len(wal)
      <4>1. last \in Int /\ Len(wal) \in Nat
        BY Bounds DEF Smaller, IInv, TypeOK, MemoryOK, Batch
      <4> HIDE DEF last
      <4>2. IsFiniteSet(n + 1 .. last)
        BY <4>1, FS_Interval
      <4>3. CommitMarks(n + 1, last) \subseteq n + 1 .. last
        BY DEF CommitMarks
      <4> QED
        BY <4>2, <4>3, FS_Subset, FS_CardinalityType DEF LostCommits, last
    <3>2. Len(history) - LostCommits(n) \in DOMAIN history
      BY <1>1, <2>1, <3>1
    <3> QED
      BY <1>1, <1>3, <2>1, <3>2 DEF Survivor, Durable
  <2>2. CASE ~(LostCommits(n) < Len(history))
    BY <1>1, <1>3, <2>2 DEF Survivor, Durable
  <2> QED
    BY <2>1, <2>2
<1> QED
  BY <1>2, <1>3

LEMMA CrashGenerations ==
  ASSUME SoundSettings, IInv, Recoverable, Allocated, Generations, Crash
  PROVE  Generations' /\ Advances(Durable, Durable')
<1>1. batch' = None /\ snapshot' = None
  BY DEF Crash, Closed
<1>2. PICK n \in Nat : history' = <<Survivor(n)>>
  <2>1. PICK kind \in Crashes : \E n \in WalFloor(kind) .. Len(wal) : history' = <<Survivor(n)>>
    BY DEF Crash
  <2>2. pc \in CrashPoints
    BY DEF Crash
  <2>3. WalFloor(kind) \in Nat /\ Len(wal) \in Nat
    BY <2>2, CrashFloor, Bounds
  <2> QED
    BY <2>1, <2>3
<1>3. Survivor(n) \in File /\ Advances(Durable, Survivor(n))
  BY SurvivorAdvances
<1>4. Chain(history') /\ Durable' = Survivor(n)
  <2>1. <<Survivor(n)>>[1] = Survivor(n)
    OBVIOUS
  <2> QED
    BY <1>2, <1>3, <2>1, ChainOne DEF Durable
<1> QED
  BY <1>1, <1>3, <1>4, GenerationsAlone

-----------------------------------------------------------------------------
(* Generations never go back.                                               *)

LEMMA GenerationsStep ==
  ASSUME SoundSettings, IInv, IInv', Recoverable, Allocated, Generations, Next
  PROVE  Generations'
<1>1. Chain(history)
  BY DEF Generations
<1>2. CASE Opening
  <2>1. CASE OpenRefused \/ SlotsRefused \/ RedoRefuse
    <3>1. batch' = None /\ snapshot' = None /\ history' = history
      BY <2>1 DEF OpenRefused, SlotsRefused, RedoRefuse, Refuse, Closed, ghosts
    <3> QED
      BY <1>1, <3>1, GenerationsAlone
  <2>2. CASE Rebuild
    <3>1. CASE Refuse
      BY <1>1, <3>1, GenerationsAlone DEF Refuse, Closed, ghosts
    <3>2. CASE ~Refuse
      BY <2>2, <3>2, GenerationsKept DEF Rebuild, ghosts
    <3> QED
      BY <3>1, <3>2
  <2>3. CASE Create \/ Open
    BY <2>3, GenerationsKept DEF Create, Open, ghosts
  <2>4. CASE RecoverDoubleWrite \/ ClearRestored \/ RedoAbort \/ RedoExtent \/ RedoSync
             \/ RedoFinish
             \/ RedoCkpt \/ RedoTruncate
    BY <2>4, GenerationsKept DEF RecoverDoubleWrite, ClearRestored, RedoAbort, RedoExtent, RedoSync,
       RedoFinish, RedoCkpt, RedoTruncate, ghosts
  <2> QED
    BY <1>2, <2>1, <2>2, <2>3, <2>4 DEF Opening, Recover
<1>3. CASE Changing
  <2>1. CASE Rollback
    BY <1>1, <2>1, GenerationsAlone DEF Rollback, ghosts
  <2>2. CASE SyncAbort
    BY <2>2, GenerationsKept DEF SyncAbort
  <2> QED
    BY <1>3, <2>1, <2>2, BeginGenerations, WriteGenerations, AllocateReusedGenerations,
       AllocateAppendedGenerations, ReleaseGenerations, TakeSavepointGenerations,
       RestoreSavepointGenerations DEF Changing
<1>4. CASE Committing
  <2>1. CASE CommitEmpty
    BY <1>1, <2>1, GenerationsAlone DEF CommitEmpty, ghosts
  <2>2. CASE CommitPrepared \/ CommitMark \/ ApplyStage \/ ApplyPages \/ ApplySync
    BY <2>2, GenerationsKept
    DEF CommitPrepared, CommitMark, ApplyStage, ApplyPages, ApplySync, ghosts
  <2>3. CASE ApplyClear
    <3>1. /\ pc = "clear" /\ history' = history /\ snapshot' = snapshot
          /\ \/ pc' = cont /\ batch' = None
             \/ batch' = batch
      BY <2>3 DEF ApplyClear, ghosts
    <3>2. CASE batch' = batch
      BY <3>1, <3>2, GenerationsKept
    <3>3. CASE pc' = cont /\ batch' = None
      <4>1. ~Own'
        BY <3>3 DEF Own
      <4>2. Committed' = Committed
        BY <3>1 DEF Committed
      <4>3. CASE Own
        <5>1. cont = "close"
          BY <3>1, <4>3 DEF Recoverable, Stages, Applying
        <5> QED
          BY <1>1, <3>1, <3>3, <4>1, <5>1 DEF Generations
      <4>4. CASE ~Own
        <5>1. snapshot = None
          BY <3>1, <4>4 DEF Allocated, SavedBack
        <5> QED
          BY <1>1, <3>1, <3>3, <5>1, GenerationsAlone
      <4> QED
        BY <4>3, <4>4
    <3> QED
      BY <3>1, <3>2, <3>3
  <2> QED
    BY <1>4, <2>1, <2>2, <2>3, CommitAppendGenerations, CommitPublishGenerations,
       GroupSyncGenerations DEF Committing
<1>5. CASE Checkpointing \/ FaultCheckpoint \/ Close \/ FaultFatal
  <2>1. /\ pc # "close" /\ history' = history /\ batch' = batch /\ snapshot' = snapshot
    BY <1>5 DEF Checkpointing, Checkpoint, Idle, CheckpointFuzzy, CheckpointRecycle, RecycleSync,
       CheckpointRecycled, CheckpointWrite, FaultCheckpoint, Close, Working, InBatch,
       FaultFatal, ghosts
  <2> QED
    BY <2>1, GenerationsKept
<1>6. CASE Closing
  BY <1>1, <1>6, GenerationsAlone DEF Closing, Closed, ghosts
<1> QED
  BY <1>2, <1>3, <1>4, <1>5, <1>6, FaultCommitGenerations, NoGroupFault, CrashGenerations
  DEF Next, Failing

\* The last fsynced image goes on in every step: the first of the history stays,
\* gives way to a later one, or to what a crash leaves.
LEMMA DurableAdvances ==
  ASSUME SoundSettings, IInv, IInv', Recoverable, Allocated, Generations, Next
  PROVE  Advances(Durable, Durable')
<1>1. /\ history \in Seq(File) /\ Len(history) \in Nat \ {0} /\ Committed \in File
      /\ 1 \in DOMAIN history /\ Len(history) \in DOMAIN history /\ 1 <= Len(history)
  <2>1. history \in Seq(File) /\ Len(history) \in Nat \ {0} /\ Committed \in File
    BY Bounds
  <2> QED
    BY <2>1
<1>2. Durable \in File /\ Advances(Durable, Durable) /\ Advances(Durable, Committed)
  <2>1. Durable \in File
    BY <1>1 DEF Durable
  <2> QED
    BY <1>1, <2>1, AdvancesAll DEF Generations, Chain, Durable, Committed
<1>3. CASE history' = history
  BY <1>2, <1>3 DEF Durable
<1>4. CASE CommitPublish
  <2>1. history' = Append(history, Promised) \/ history' = <<Promised>>
    BY <1>4 DEF CommitPublish
  <2>2. CASE history' = Append(history, Promised)
    <3>1. history'[1] = history[1]
      BY <1>1, <2>2
    <3> QED
      BY <1>2, <3>1 DEF Durable
  <2>3. CASE history' = <<Promised>>
    <3>1. Own /\ batch \in Batch
      BY <1>4 DEF CommitPublish, Recoverable, Stages, Committings, Own, IInv, TypeOK, MemoryOK
    <3>2. Promised = Shown /\ Shown \in File
      BY <1>1, <3>1, OverlayType DEF Promised, Shown, Own, Batch
    <3>3. Durable' = Promised
      <4>1. <<Promised>>[1] = Promised
        OBVIOUS
      <4> QED
        BY <2>3, <4>1 DEF Durable
    <3> QED
      BY <1>1, <1>2, <3>1, <3>2, <3>3, AdvancesAll DEF Generations
  <2> QED
    BY <2>1, <2>2, <2>3
<1>5. CASE GroupSync
  <2>1. Durable' = Committed
    <3>1. <<Committed>>[1] = Committed /\ history' = <<Committed>>
      BY <1>5 DEF GroupSync
    <3> QED
      BY <3>1 DEF Durable
  <2> QED
    BY <1>2, <2>1
<1>6. Next => history' = history \/ CommitPublish \/ GroupSync \/ Crash
  BY DEF Next, Opening, Recover, Changing, Committing, Checkpointing, Failing, Create, Open,
     OpenRefused, SlotsRefused, RecoverDoubleWrite, ClearRestored, RedoRefuse, RedoAbort,
     RedoExtent, RedoSync, RedoFinish,
     RedoCkpt, RedoTruncate, Rebuild, Refuse, Begin, Write, AllocateReused, AllocateAppended,
     Release, TakeSavepoint, RestoreSavepoint, Rollback, SyncAbort, CommitEmpty, CommitAppend,
     CommitPrepared, CommitMark, ApplyStage, ApplyPages, ApplySync, ApplyClear, Checkpoint,
     CheckpointFuzzy,
     CheckpointRecycle, RecycleSync, CheckpointRecycled, CheckpointWrite, Close, Closing,
     FaultCommit, FaultFatal, FaultGroupSync, FaultApplyGroup, FaultCheckpoint, BatchOnly, ghosts
<1> QED
  BY <1>3, <1>4, <1>5, <1>6, CrashGenerations

LEMMA GenerationsInit == Init => Generations
<1> SUFFICES ASSUME Init PROVE Generations
  OBVIOUS
<1>1. /\ history = <<[EmptyFile EXCEPT ![0] = Header(1)]>> /\ batch = None /\ snapshot = None
  BY DEF Init
<1>2. [EmptyFile EXCEPT ![0] = Header(1)] \in File
  BY EmptyFileType, FixedContents DEF File
<1> QED
  BY <1>1, <1>2, ChainOne DEF Generations, Own

LEMMA GenerationsNext ==
  ASSUME SoundSettings, Durability, Durability', Generations, [Next]_vars
  PROVE  Generations' /\ Advances(Durable, Durable')
<1>1. IInv /\ IInv' /\ Recoverable /\ Allocated
  BY DEF Durability
<1>2. CASE Next
  BY <1>1, <1>2, GenerationsStep, DurableAdvances
<1>3. CASE UNCHANGED vars
  <2>1. /\ history' = history /\ batch' = batch /\ snapshot' = snapshot /\ pc' = pc
    BY <1>3 DEF vars, ghosts
  <2>2. Own' = Own /\ Committed' = Committed
    BY <2>1 DEF Own, Committed
  <2>3. Shown' = Shown
    BY <2>1, <2>2 DEF Shown
  <2>4. Durable' = Durable /\ Durable \in File
    BY <1>1, <2>1, Bounds DEF Durable
  <2> QED
    BY <2>1, <2>2, <2>3, <2>4, AdvancesAll DEF Generations
<1> QED
  BY <1>2, <1>3

\* Under sound settings each committed image goes on in the later ones, in what the
\* open batch shows and in what a savepoint goes back to: allocatePage and
\* releasePage raise the generation of a page, restoreSavepoint and a rollback give
\* no generation out again that a commit has used.
THEOREM GenerationsHold == ASSUME SoundSettings PROVE Spec => []Generations
<1>1. Durability /\ Durability' /\ Generations /\ [Next]_vars => Generations'
  BY GenerationsNext
<1> QED
  BY <1>1, GenerationsInit, DurabilityInvariant, PTL DEF Spec

\* Under sound settings a page reference that a commit released never names a
\* page again, not even after a crash has taken back the commits of a group
\* (allocatePage, releasePage, recoverJournal).
THEOREM GenerationsNeverBack == ASSUME SoundSettings PROVE Spec => GenerationsAdvance
<1>1. Durability /\ Durability' /\ Generations /\ [Next]_vars => Advances(Durable, Durable')
  BY GenerationsNext
<1>2. Advances(Durable, Durable') =>
        [\A p \in PageId :
           Durable[p].kind \in {"data", "free"} =>
             /\ Durable'[p].n >= Durable[p].n
             /\ (Durable[p].kind = "free" /\ Durable'[p].kind = "data")
                   => Durable'[p].n > Durable[p].n]_vars
  BY DEF Advances
<1> QED
  BY <1>1, <1>2, GenerationsHold, DurabilityInvariant, PTL DEF Spec, GenerationsAdvance

-----------------------------------------------------------------------------
(* The page file implements DurableStore: what a reader sees.               *)

StoreInv == Durability /\ Single
StoreStep == [Store!Next]_(Store!storeVars)

\* what the refinement mapping shows of a state
Seen ==
  /\ View = (IF Phase = "down" THEN EmptyFile ELSE Promised)
  /\ ~Own => Promised = Committed
  /\ Promised \in File /\ Committed \in File
  /\ pc # "down" => ~mode.group
  /\ pending = <<>>
  /\ Own => pc \in {"idle", "close"} \cup Committings

LEMMA SeenAlways ==
  ASSUME SoundSettings, TRUE \notin GroupModes
  PROVE  StoreInv => Seen
<1> SUFFICES ASSUME IInv, Recoverable, Allocated, Single
             PROVE  Seen
  BY DEF StoreInv, Durability
<1>1. ASSUME pc # "down" PROVE ~mode.group
  <2>1. mode.group \in GroupModes
    BY <1>1 DEF Recoverable, SlotsBacked
  <2> QED
    BY <2>1, PageFileAssumption
<1>2. pending = <<>>
  BY <1>1 DEF IInv, Control
<1>3. Own => pc \in {"idle", "close"} \cup Committings
  <2>1. pc # "groupSync"
    BY <1>2 DEF IInv, Control
  <2>2. pc \in Applying => ~Own
    BY <1>1 DEF Recoverable, Applies, Applying
  <2> QED
    BY <2>1, <2>2 DEF Recoverable, Stages
<1>4. Committed \in File /\ batch \in Batch \cup {None}
  BY Bounds DEF IInv, TypeOK, MemoryOK
<1>5. Promised \in File
  <2>1. batch # None => batch.pages \in PageMap
    BY <1>4 DEF Batch
  <2> QED
    BY <1>4, <2>1, OverlayType DEF Promised
<1>6. ~Own => Promised = Committed
  BY DEF Own, Promised, Single
<1>7. ASSUME pc = "idle"
      PROVE  [p \in PageId |-> ReadRaw(p)] = Promised
  <2>1. main = Committed
    BY <1>2, <1>7, NothingPending DEF Applying, Reopening
  <2>2. CASE batch = None
    <3>1. \A p \in PageId : PendingPages[p] = None
      BY <1>2 DEF PendingPages
    <3>2. \A p \in PageId : ReadRaw(p) = Committed[p]
      BY <2>1, <2>2, <3>1 DEF ReadRaw
    <3> QED
      BY <1>4, <2>2, <3>2 DEF Promised, File
  <2>3. CASE batch # None
    BY <2>1, <2>3 DEF ReadRaw, Promised, Overlay
  <2> QED
    BY <2>2, <2>3
<1>8. View = (IF Phase = "down" THEN EmptyFile ELSE Promised)
  <2>1. CASE pc = "idle"
    BY <1>7, <2>1 DEF View
  <2>2. CASE pc # "idle"
    BY <2>2 DEF View
  <2> QED
    BY <2>1, <2>2
<1> QED
  BY <1>1, <1>2, <1>3, <1>4, <1>5, <1>6, <1>8 DEF Seen

LEMMA SeenNext ==
  ASSUME SoundSettings, TRUE \notin GroupModes
  PROVE  StoreInv' => Seen'
BY SeenAlways, PTL

LEMMA StoreStutters ==
  ASSUME Committed' = Committed, View' = View, Phase' = Phase
  PROVE  StoreStep
BY DEF StoreStep, Store!storeVars

\* Nobody reads a file that is not open.
LEMMA StoreDown ==
  ASSUME Seen, Seen', Phase = "down", Phase' = "down", Committed' = Committed
  PROVE  StoreStep
BY StoreStutters DEF Seen

\* A step outside batches shows the committed pages before and after it.
LEMMA StoreIdle ==
  ASSUME Seen, Seen', Phase = "idle", Phase' = "idle", ~Own, ~Own', Committed' = Committed
  PROVE  StoreStep
BY StoreStutters DEF Seen

LEMMA StoreOpens ==
  ASSUME Seen, Seen', Phase = "down", Phase' = "idle", ~Own', Committed' = Committed
  PROVE  StoreStep
BY DEF StoreStep, Store!Next, Store!Open, Seen

LEMMA StoreStops ==
  ASSUME Seen, Seen', Phase # "down", Phase' = "down",
         Committed' = Committed \/ (Phase = "deciding" /\ Committed' = Promised)
  PROVE  StoreStep
BY DEF StoreStep, Store!Next, Store!Stop, Store!Nothing, EmptyFile, Seen

LEMMA StoreChanges ==
  ASSUME Seen, Seen', Phase = "batch", Phase' = "batch", Committed' = Committed
  PROVE  StoreStep
<1>1. View' \in [PageId -> Content]
  BY DEF Seen, File
<1> QED
  BY <1>1 DEF StoreStep, Store!Next, Store!Change

LEMMA StoreAborts ==
  ASSUME Seen, Seen', Phase \in {"batch", "deciding"}, Phase' = "idle", ~Own',
         Committed' = Committed
  PROVE  StoreStep
BY DEF StoreStep, Store!Next, Store!Abort, Seen

-----------------------------------------------------------------------------
(* The page file implements DurableStore: the phases of a file.             *)

LEMMA PhaseDown == Phase = "down" <=> pc \in {"down", "broken"} \cup Reopening
BY DEF Phase

LEMMA PhaseIdle ==
  ASSUME pc \notin {"down", "broken"} \cup Reopening
  PROVE  /\ ~Own => Phase = "idle"
         /\ Own /\ (pc \in Committings \/ Len(wal) > batch.start) => Phase = "deciding"
         /\ Own /\ pc \notin Committings /\ ~(Len(wal) > batch.start) => Phase = "batch"
BY DEF Phase, Deciding, OwnBatch, Own

LEMMA PhaseIdleNext ==
  pc' \notin {"down", "broken"} \cup Reopening =>
    /\ ~Own' => Phase' = "idle"
    /\ Own' /\ (pc' \in Committings \/ Len(wal') > batch'.start) => Phase' = "deciding"
    /\ Own' /\ pc' \notin Committings /\ ~(Len(wal') > batch'.start) => Phase' = "batch"
BY DEF Phase, Deciding, OwnBatch, Own

LEMMA WorkingPhase ==
  ASSUME IInv, Recoverable, Allocated, Working
  PROVE  Phase = "batch" /\ Own /\ batch \in Batch /\ Len(wal) = batch.start /\ pc = "idle"
<1>1. Own /\ pc = "idle" /\ Len(wal) = batch.start /\ batch \in Batch /\ batch.start \in Nat
  BY WorkingShows DEF Batch
<1>2. ~(Len(wal) > batch.start) /\ pc \notin Committings
  BY <1>1 DEF Committings
<1> QED
  BY <1>1, <1>2, PhaseIdle DEF Reopening

\* An extent of its own in the journal: the batch is being decided.
LEMMA ExtentPhase ==
  ASSUME IInv, Recoverable, Own, OwnExtent
  PROVE  Phase = "deciding" /\ batch \in Batch /\ Len(wal) > batch.start
<1>1. batch \in Batch /\ batch.start \in Nat /\ OwnRecords \in Nat
  BY StagedCount DEF Own, OwnRecords, BodyLength, IInv, TypeOK, MemoryOK, Batch
<1>2. Len(wal) = batch.start + OwnRecords + 1 \/ Len(wal) = batch.start + OwnRecords + 2
  BY DEF OwnExtent
<1>3. Len(wal) > batch.start
  BY <1>1, <1>2
<1>4. pc \notin {"down", "broken"} \cup Reopening
  BY DEF OwnExtent, Committings, Reopening
<1> QED
  BY <1>1, <1>3, <1>4, PhaseIdle

-----------------------------------------------------------------------------
(* The page file implements DurableStore: its steps.                        *)

LEMMA OpeningStore ==
  ASSUME IInv, Recoverable, Seen, Seen', Opening
  PROVE  StoreStep
<1>1. pc \in {"down"} \cup Reopening
  BY DEF Opening, Create, Open, OpenRefused, SlotsRefused, Recover, RecoverDoubleWrite,
     ClearRestored, RedoRefuse, RedoAbort,
     RedoExtent, RedoSync, RedoFinish, RedoCkpt, RedoTruncate, Rebuild, Reopening
<1>2. Phase = "down" /\ batch = None
  BY <1>1, PhaseDown DEF IInv, Control
<1>3. history' = history /\ (batch' = batch \/ batch' = None) /\ pc' \in {"down", "idle"} \cup Reopening
  <2>1. CASE Create \/ Open \/ OpenRefused \/ SlotsRefused
    BY <2>1 DEF Create, Open, OpenRefused, SlotsRefused, Refuse, Closed, Scan, Reopening, ghosts
  <2>2. CASE Rebuild \/ RedoRefuse
    BY <2>2 DEF Rebuild, RedoRefuse, Refuse, Closed, ghosts
  <2>3. CASE RecoverDoubleWrite \/ ClearRestored \/ RedoAbort \/ RedoExtent \/ RedoSync
             \/ RedoFinish
             \/ RedoCkpt \/ RedoTruncate
    BY <2>3 DEF RecoverDoubleWrite, ClearRestored, RedoAbort, RedoExtent, RedoSync, RedoFinish,
       RedoCkpt, RedoTruncate, Scan, Reopening, ghosts
  <2> QED
    BY <2>1, <2>2, <2>3 DEF Opening, Recover
<1>4. ~Own' /\ Committed' = Committed
  BY <1>2, <1>3 DEF Own, Committed
<1>5. CASE pc' = "idle"
  <2>1. Phase' = "idle"
    BY <1>4, <1>5, PhaseIdleNext DEF Reopening
  <2> QED
    BY <1>2, <1>4, <2>1, StoreOpens
<1>6. CASE pc' \in {"down"} \cup Reopening
  <2>1. Phase' = "down"
    BY <1>6 DEF Phase
  <2> QED
    BY <1>2, <1>4, <2>1, StoreDown
<1> QED
  BY <1>3, <1>5, <1>6

LEMMA BeginStore ==
  ASSUME IInv, Recoverable, Allocated, Seen, Seen', Begin
  PROVE  StoreStep
<1>1. /\ pc = "idle" /\ pc' = pc /\ batch = None /\ history' = history /\ wal' = wal
      /\ batch'.pages = NoPages /\ batch'.start = Len(wal) /\ ~batch'.published
      /\ batch' # None
  <2>1. /\ count \in Nat /\ active \in [PageId -> Nat] /\ free \in Seq(Ref)
        /\ Len(wal) \in Nat /\ nextLsn \in Nat /\ NoPages \in PageMap
    BY EmptyFileType DEF IInv, TypeOK, DiskOK, MemoryOK
  <2>2. batch' \in Batch
    BY <2>1 DEF Begin, Batch
  <2> QED
    BY <2>2, NoneAssumption DEF Begin, Idle, ghosts
<1>2. ~Own /\ Own' /\ Committed' = Committed /\ Len(wal) \in Nat
  BY <1>1, Bounds DEF Own, Committed
<1>3. Phase = "idle"
  BY <1>1, <1>2, PhaseIdle DEF Reopening
<1>4. Phase' = "batch"
  <2>1. ~(Len(wal') > batch'.start) /\ pc' \notin Committings
    BY <1>1, <1>2 DEF Committings
  <2> QED
    BY <1>1, <1>2, <2>1, PhaseIdleNext DEF Reopening
<1>5. View' = View
  <2>1. Promised' = Overlay(Committed, NoPages)
    BY <1>1, <1>2 DEF Promised
  <2>2. Promised' = Committed
    BY <2>1, NothingStaged DEF Seen
  <2> QED
    BY <1>2, <1>3, <1>4, <2>2 DEF Seen
<1> QED
  BY <1>2, <1>3, <1>4, <1>5 DEF StoreStep, Store!Next, Store!Begin

LEMMA StagingStore ==
  ASSUME IInv, IInv', Recoverable, Allocated, Seen, Seen',
         Write \/ AllocateReused \/ AllocateAppended \/ Release \/ TakeSavepoint \/ RestoreSavepoint
  PROVE  StoreStep
<1>1. Working /\ pc' = pc /\ wal' = wal /\ history' = history
  BY DEF Write, AllocateReused, AllocateAppended, Release, TakeSavepoint, RestoreSavepoint,
     BatchOnly, disk, ghosts
<1>2. /\ Phase = "batch" /\ Own /\ batch \in Batch /\ Len(wal) = batch.start /\ pc = "idle"
      /\ batch.start \in Nat
  BY <1>1, WorkingPhase DEF Batch
<1>3. batch' # None /\ batch'.published = batch.published /\ batch'.start = batch.start
  <2>1. CASE TakeSavepoint
    BY <1>2, <2>1 DEF TakeSavepoint, Own
  <2>2. CASE ~TakeSavepoint
    BY <2>2, ChangingRestaged, NoneAssumption DEF Restaged, SameBatch
  <2> QED
    BY <2>1, <2>2
<1>4. Own' /\ Committed' = Committed
  BY <1>1, <1>2, <1>3 DEF Own, Committed
<1>5. Phase' = "batch"
  <2>1. ~(Len(wal') > batch'.start) /\ pc' \notin Committings
    BY <1>1, <1>2, <1>3 DEF Committings
  <2> QED
    BY <1>1, <1>2, <1>4, <2>1, PhaseIdleNext DEF Reopening
<1> QED
  BY <1>2, <1>4, <1>5, StoreChanges

LEMMA RollbackStore ==
  ASSUME IInv, Recoverable, Seen, Seen', Rollback
  PROVE  StoreStep
<1>1. /\ pc = "idle" /\ batch # None /\ ~batch.published /\ batch' = None
      /\ history' = history /\ pc' \in {"idle", "aborting"}
  BY DEF Rollback, InBatch, ghosts
<1>2. Own /\ ~Own' /\ Committed' = Committed
  BY <1>1 DEF Own, Committed
<1>3. Phase \in {"batch", "deciding"}
  BY <1>1, <1>2, PhaseIdle DEF Reopening
<1>4. Phase' = "idle"
  BY <1>1, <1>2, PhaseIdleNext DEF Reopening
<1> QED
  BY <1>2, <1>3, <1>4, StoreAborts

LEMMA CommitEmptyStore ==
  ASSUME IInv, Recoverable, Allocated, Seen, Seen', CommitEmpty
  PROVE  StoreStep
<1>1. Working /\ pc' = pc /\ batch' = None /\ history' = history
  BY DEF CommitEmpty, ghosts
<1>2. Phase = "batch" /\ pc = "idle"
  BY <1>1, WorkingPhase
<1>3. ~Own' /\ Committed' = Committed
  BY <1>1 DEF Own, Committed
<1>4. Phase' = "idle"
  BY <1>1, <1>2, <1>3, PhaseIdleNext DEF Reopening
<1> QED
  BY <1>2, <1>3, <1>4, StoreAborts

LEMMA CommitAppendStore ==
  ASSUME IInv, Recoverable, Allocated, Seen, Seen', CommitAppend
  PROVE  StoreStep
<1>1. /\ Working /\ history' = history
      /\ pc' = "appended" \/ (pc' = pc /\ wal' = wal)
  BY DEF CommitAppend, ghosts
<1>2. /\ Phase = "batch" /\ Own /\ batch \in Batch /\ Len(wal) = batch.start /\ pc = "idle"
      /\ batch.start \in Nat
  BY <1>1, WorkingPhase DEF Batch
<1>3. /\ Overlay(Committed, batch'.pages) = Shown /\ batch' # None
      /\ batch'.published = batch.published /\ batch'.start = batch.start
  BY CommitAppendShows
<1>4. Own' /\ Committed' = Committed
  BY <1>1, <1>2, <1>3 DEF Own, Committed
<1>5. CASE pc' = "appended"
  <2>1. Phase' = "deciding"
    BY <1>4, <1>5, PhaseIdleNext DEF Committings, Reopening
  <2>2. Promised' = Promised
    BY <1>2, <1>3, <1>4 DEF Promised, Shown, Own
  <2>3. View' = View
    BY <1>2, <2>1, <2>2 DEF Seen
  <2> QED
    BY <1>2, <1>4, <2>1, <2>3 DEF StoreStep, Store!Next, Store!Decide
<1>6. CASE pc' = pc /\ wal' = wal
  <2>1. ~(Len(wal') > batch'.start) /\ pc' \notin Committings
    BY <1>2, <1>3, <1>6 DEF Committings
  <2>2. Phase' = "batch"
    BY <1>2, <1>4, <1>6, <2>1, PhaseIdleNext DEF Reopening
  <2> QED
    BY <1>2, <1>4, <2>2, StoreChanges
<1> QED
  BY <1>1, <1>5, <1>6

\* A commit under way, or failed before its commit point, stays undecided.
LEMMA DecidingStore ==
  ASSUME IInv, Recoverable, Seen, Seen', CommitPrepared \/ CommitMark \/ FaultCommit
  PROVE  StoreStep
<1>1. /\ pc \in Committings /\ history' = history /\ pc' \in Committings \cup {"idle"}
      /\ batch' = batch \/ batch' = [batch EXCEPT !.doomed = TRUE]
      /\ pc' = "idle" => wal' = wal
  BY DEF CommitPrepared, CommitMark, FaultCommit, Committings, disk, ghosts
<1>2. Own /\ OwnExtent
  BY <1>1 DEF Recoverable, Stages
<1>3. Phase = "deciding" /\ batch \in Batch /\ Len(wal) > batch.start
  BY <1>2, ExtentPhase
<1>4. /\ batch' \in Batch /\ batch'.pages = batch.pages /\ batch'.start = batch.start
      /\ batch'.published = batch.published
  BY <1>1, <1>3, DoomFields
<1>5. Own' /\ Committed' = Committed
  BY <1>1, <1>2, <1>4, NoneAssumption DEF Own, Committed
<1>6. Phase' = "deciding"
  BY <1>1, <1>3, <1>4, <1>5, PhaseIdleNext DEF Committings, Reopening
<1>7. Promised' = Promised
  BY <1>2, <1>4, <1>5 DEF Promised, Own
<1> QED
  BY <1>3, <1>5, <1>6, <1>7, StoreStutters DEF Seen

LEMMA CommitPublishStore ==
  ASSUME IInv, Recoverable, Seen, Seen', CommitPublish
  PROVE  StoreStep
<1>1. pc = "marked" /\ ~mode.group
  BY DEF CommitPublish, Seen
<1>2. /\ batch' = [batch EXCEPT !.published = TRUE] /\ history' = <<Promised>> /\ pc' = "apply"
  BY <1>1 DEF CommitPublish
<1>3. Own /\ OwnExtent
  BY <1>1 DEF Recoverable, Stages, Committings
<1>4. Phase = "deciding" /\ batch \in Batch
  BY <1>3, ExtentPhase
<1>5. Committed' = Promised
  <2>1. Committed' = history'[Len(history')]
    BY DEF Committed
  <2>2. Len(history') = 1 /\ history'[1] = Promised
    BY <1>2
  <2> QED
    BY <2>1, <2>2
<1>6. ~Own'
  BY <1>2, <1>4 DEF Own, Batch
<1>7. Phase' = "idle"
  BY <1>2, <1>6, PhaseIdleNext DEF Reopening
<1>8. Promised' = Promised /\ View' = View
  BY <1>4, <1>5, <1>6, <1>7 DEF Seen
<1> QED
  BY <1>4, <1>5, <1>7, <1>8 DEF StoreStep, Store!Next, Store!Commit, Seen

\* Checkpoints, pages applied, a group made durable: nothing a reader notices.
LEMMA IdleStore ==
  ASSUME IInv, Recoverable, Seen, Seen',
         \/ SyncAbort \/ ApplyStage \/ ApplyPages \/ ApplySync \/ ApplyClear
         \/ Checkpointing \/ FaultCheckpoint
  PROVE  StoreStep
<1>1. /\ pc \in {"aborting", "idle"} \cup Applying \cup Truncating
      /\ pc' \in {"aborting", "idle", "close", "groupSync"} \cup Applying \cup Truncating
      /\ history' = history /\ (batch' = batch \/ batch' = None)
      /\ pc = "idle" => batch = None
  <2>1. CASE SyncAbort
    BY <2>1 DEF SyncAbort
  <2>2. CASE ApplyStage \/ ApplyPages \/ ApplySync \/ ApplyClear
    BY <2>2 DEF ApplyStage, ApplyPages, ApplySync, ApplyClear, Applying, Truncating, ghosts,
       IInv, TypeOK, ProgressOK
  <2>3. CASE Checkpointing \/ FaultCheckpoint
    BY <2>3 DEF Checkpointing, Checkpoint, SyncGroup, Idle, CheckpointFuzzy, CheckpointRecycle,
       RecycleSync, CheckpointRecycled, CheckpointWrite, FaultCheckpoint, Truncating, ghosts
  <2> QED
    BY <2>1, <2>2, <2>3
<1>2. ~Own
  BY <1>1 DEF Seen, Own, Committings, Applying, Truncating
<1>3. ~Own' /\ Committed' = Committed
  BY <1>1, <1>2 DEF Own, Committed
<1>4. Phase = "idle"
  BY <1>1, <1>2, PhaseIdle DEF Reopening, Applying, Truncating
<1>5. Phase' = "idle"
  BY <1>1, <1>3, PhaseIdleNext DEF Reopening, Applying, Truncating
<1> QED
  BY <1>2, <1>3, <1>4, <1>5, StoreIdle

LEMMA CloseStore ==
  ASSUME IInv, Recoverable, Allocated, Seen, Seen', Close
  PROVE  StoreStep
<1>1. /\ pc = "idle" /\ pc' = "close" /\ history' = history /\ batch' = batch /\ wal' = wal
      /\ batch = None \/ Working
  BY DEF Close, SyncGroup, Idle, Working, InBatch, disk, ghosts, Seen
<1>2. Own' = Own /\ Committed' = Committed
  BY <1>1 DEF Own, Committed
<1>3. CASE batch = None
  <2>1. ~Own
    BY <1>3 DEF Own
  <2>2. Phase = "idle" /\ Phase' = "idle"
    BY <1>1, <1>2, <2>1, PhaseIdle, PhaseIdleNext DEF Reopening
  <2> QED
    BY <1>2, <2>1, <2>2, StoreIdle
<1>4. CASE Working
  <2>1. Phase = "batch" /\ Own /\ Len(wal) = batch.start /\ batch.start \in Nat
    BY <1>4, WorkingPhase DEF Batch
  <2>2. ~(Len(wal') > batch'.start) /\ pc' \notin Committings
    BY <1>1, <2>1 DEF Committings
  <2>3. Phase' = "batch"
    BY <1>1, <1>2, <2>1, <2>2, PhaseIdleNext DEF Reopening
  <2> QED
    BY <1>2, <2>1, <2>3, StoreChanges
<1> QED
  BY <1>1, <1>3, <1>4

LEMMA ClosingStore ==
  ASSUME Seen, Seen', Closing \/ FaultFatal
  PROVE  StoreStep
<1>1. pc' \in {"down", "broken"} /\ history' = history
  BY DEF Closing, Closed, FaultFatal, ghosts
<1>2. Phase' = "down" /\ Committed' = Committed
  BY <1>1 DEF Phase, Committed
<1> QED
  BY <1>2, StoreDown, StoreStops

\* A crash leaves the committed pages, or those of a commit being decided.
LEMMA CrashStore ==
  ASSUME SoundSettings, IInv, Recoverable, Single, Seen, Seen', Crash
  PROVE  StoreStep
<1>1. Phase' = "down"
  BY DEF Crash, Closed, Phase
<1>2. PICK n \in Nat : history' = <<Survivor(n)>>
  <2>1. PICK kind \in Crashes : \E n \in WalFloor(kind) .. Len(wal) : history' = <<Survivor(n)>>
    BY DEF Crash
  <2>2. pc \in CrashPoints
    BY DEF Crash
  <2>3. WalFloor(kind) \in Nat /\ Len(wal) \in Nat
    BY <2>2, CrashFloor, Bounds
  <2> QED
    BY <2>1, <2>3
<1>3. Committed' = Survivor(n)
  <2>1. Committed' = history'[Len(history')]
    BY DEF Committed
  <2>2. Len(<<Survivor(n)>>) = 1 /\ <<Survivor(n)>>[1] = Survivor(n)
    OBVIOUS
  <2> QED
    BY <1>2, <2>1, <2>2
<1>4. CASE InDoubt(n)
  <2>1. Own /\ ~NoMarks(wal, batch.start)
    BY <1>4 DEF InDoubt, Own, NoMarks, CommitMarks
  <2>2. OwnExtent
    BY <2>1, OwnMarks
  <2>3. Phase = "deciding"
    BY <2>1, <2>2, ExtentPhase
  <2>4. Committed' = Promised
    BY <1>3, <1>4 DEF Survivor
  <2> QED
    BY <1>1, <2>3, <2>4, StoreStops
<1>5. CASE ~InDoubt(n)
  <2>1. Len(history) = 1
    BY DEF Single
  <2>2. LostCommits(n) \in Nat
    <3> DEFINE last == IF batch # None THEN Smaller(batch.start, Len(wal)) ELSE Len(wal)
    <3>1. last \in Int /\ Len(wal) \in Nat
      BY Bounds DEF Smaller, IInv, TypeOK, MemoryOK, Batch
    <3> HIDE DEF last
    <3>2. IsFiniteSet(n + 1 .. last)
      BY <3>1, FS_Interval
    <3>3. CommitMarks(n + 1, last) \subseteq n + 1 .. last
      BY DEF CommitMarks
    <3> QED
      BY <3>2, <3>3, FS_Subset, FS_CardinalityType DEF LostCommits, last
  <2>3. Survivor(n) = Committed
    BY <1>5, <2>1, <2>2 DEF Survivor, Committed
  <2>4. Committed' = Committed
    BY <1>3, <2>3
  <2> QED
    BY <1>1, <2>4, StoreDown, StoreStops
<1> QED
  BY <1>4, <1>5

LEMMA StoreSteps ==
  ASSUME SoundSettings, TRUE \notin GroupModes, IInv, IInv', Recoverable, Allocated, Single,
         Seen, Seen', Next
  PROVE  StoreStep
<1>1. ~GroupSync
  BY DEF GroupSync, IInv, Control, Seen
<1>2. CASE Changing
  BY <1>2, BeginStore, StagingStore, RollbackStore, IdleStore DEF Changing
<1>3. CASE Committing
  BY <1>1, <1>3, CommitEmptyStore, CommitAppendStore, DecidingStore, CommitPublishStore,
     IdleStore DEF Committing
<1>4. CASE Failing
  BY <1>4, DecidingStore, ClosingStore, IdleStore, NoGroupFault, CrashStore DEF Failing
<1> QED
  BY <1>2, <1>3, <1>4, OpeningStore, IdleStore, CloseStore, ClosingStore DEF Next

\* One committed image, and the batch being applied shows it.
LEMMA SingleStep ==
  ASSUME SoundSettings, TRUE \notin GroupModes, IInv, IInv', Recoverable, Allocated, Single, Next
  PROVE  Single'
<1>1. CASE Crash \/ GroupSync
  <2>1. PICK image : history' = <<image>>
    BY <1>1 DEF Crash, GroupSync
  <2>2. ~GroupSync
    <3>1. mode.group => pc = "down"
      BY PageFileAssumption DEF Recoverable, SlotsBacked
    <3> QED
      BY <3>1 DEF GroupSync, IInv, Control, Applying
  <2>3. Len(history') = 1 /\ batch' = None
    BY <1>1, <2>1, <2>2 DEF Crash, Closed
  <2> QED
    BY <2>3 DEF Single
<1>2. CASE CommitPublish
  <2>1. pc = "marked" /\ ~mode.group
    BY <1>2, PageFileAssumption DEF CommitPublish, Recoverable, SlotsBacked
  <2>2. batch' = [batch EXCEPT !.published = TRUE] /\ history' = <<Promised>>
    BY <1>2, <2>1 DEF CommitPublish
  <2>3. batch \in Batch /\ batch # None
    BY <2>1 DEF Recoverable, Stages, Committings, Own, IInv, TypeOK, MemoryOK
  <2>4. Len(history') = 1 /\ Committed' = Promised
    <3>1. Committed' = history'[Len(history')]
      BY DEF Committed
    <3>2. Len(<<Promised>>) = 1 /\ <<Promised>>[1] = Promised
      OBVIOUS
    <3> QED
      BY <2>2, <3>1, <3>2
  <2>5. batch' \in Batch /\ batch' # None /\ batch'.pages = batch.pages
    BY <2>2, <2>3, NoneAssumption DEF Batch
  <2>6. Promised' = Overlay(Promised, batch.pages)
    BY <2>4, <2>5 DEF Promised
  <2>7. Promised = Overlay(Committed, batch.pages)
    BY <2>3 DEF Promised
  <2>8. Overlay(Overlay(Committed, batch.pages), batch.pages) = Overlay(Committed, batch.pages)
    BY DEF Overlay
  <2> QED
    BY <2>4, <2>6, <2>7, <2>8 DEF Single
<1>3. CASE ~Crash /\ ~GroupSync /\ ~CommitPublish
  <2>1. /\ history' = history
        /\ \/ batch' = None
           \/ batch' = batch
           \/ Own /\ batch'.published = batch.published
           \/ ~batch'.published
    <3>1. CASE Opening
      BY <3>1 DEF Opening, Create, Open, OpenRefused, SlotsRefused, Recover, RecoverDoubleWrite,
         ClearRestored, RedoRefuse,
         RedoAbort, RedoExtent, RedoSync, RedoFinish, RedoCkpt, RedoTruncate, Rebuild, Refuse,
         Closed, ghosts
    <3>2. CASE Begin \/ Rollback \/ SyncAbort \/ TakeSavepoint
      BY <3>2 DEF Begin, Rollback, SyncAbort, TakeSavepoint, ghosts
    <3>3. CASE Write \/ AllocateReused \/ AllocateAppended \/ Release \/ RestoreSavepoint
      BY <3>3, ChangingRestaged, WorkingShows DEF Restaged, SameBatch, BatchOnly, ghosts
    <3>4. CASE CommitAppend
      <4>1. Working /\ history' = history
        BY <3>4 DEF CommitAppend, ghosts
      <4> QED
        BY <3>4, <4>1, CommitAppendShows, WorkingShows
    <3>5. CASE \/ CommitEmpty \/ CommitPrepared \/ CommitMark
               \/ ApplyStage \/ ApplyPages \/ ApplySync \/ ApplyClear
      BY <3>5 DEF CommitEmpty, CommitPrepared, CommitMark, ApplyStage, ApplyPages, ApplySync,
         ApplyClear, ghosts
    <3>6. CASE Checkpointing \/ FaultCheckpoint \/ FaultFatal \/ Close
      BY <3>6 DEF Checkpointing, Checkpoint, CheckpointFuzzy, CheckpointRecycle, RecycleSync,
         CheckpointRecycled, CheckpointWrite, FaultCheckpoint, FaultFatal, Close, ghosts
    <3>7. CASE Closing
      BY <3>7 DEF Closing, Closed, ghosts
    <3>8. CASE FaultCommit
      <4>1. pc \in Committings /\ history' = history /\ batch' = [batch EXCEPT !.doomed = TRUE]
        BY <3>8 DEF FaultCommit, Committings, ghosts
      <4>2. Own /\ batch \in Batch
        BY <4>1 DEF Recoverable, Stages, Own, IInv, TypeOK, MemoryOK
      <4> QED
        BY <4>1, <4>2, DoomFields
    <3> QED
      BY <1>3, <3>1, <3>2, <3>3, <3>4, <3>5, <3>6, <3>7, <3>8, NoGroupFault
      DEF Next, Changing, Committing, Failing
  <2>2. Committed' = Committed
    BY <2>1 DEF Committed
  <2>3. CASE batch' = batch
    BY <2>1, <2>2, <2>3 DEF Single, Promised
  <2>4. CASE batch' # batch
    BY <2>1, <2>4 DEF Single, Own
  <2> QED
    BY <2>3, <2>4
<1> QED
  BY <1>1, <1>2, <1>3

LEMMA StoreInvariant ==
  ASSUME SoundSettings, TRUE \notin GroupModes PROVE Spec => []StoreInv
<1>1. Init => Single
  <2> SUFFICES ASSUME Init PROVE Single
    OBVIOUS
  <2>1. history = <<[EmptyFile EXCEPT ![0] = Header(1)]>> /\ batch = None
    BY DEF Init
  <2>2. Len(history) = 1
    BY <2>1
  <2> QED
    BY <2>1, <2>2 DEF Single
<1>2. Durability /\ Single /\ Durability' /\ [Next]_vars => Single'
  <2> SUFFICES ASSUME Durability, Single, Durability', [Next]_vars PROVE Single'
    OBVIOUS
  <2>1. IInv /\ IInv' /\ Recoverable /\ Allocated
    BY DEF Durability
  <2>2. CASE Next
    BY <2>1, <2>2, SingleStep
  <2>3. CASE UNCHANGED vars
    <3>1. history' = history /\ batch' = batch
      BY <2>3 DEF vars, ghosts
    <3> QED
      BY <3>1 DEF Single, Promised, Committed
  <2> QED
    BY <2>2, <2>3
<1> QED
  BY <1>1, <1>2, DurabilityInvariant, PTL DEF Spec, StoreInv

\* Without group commit and under sound settings the page file is an atomic,
\* durable store: whatever fails, crashes and is recovered, each of its steps is
\* a step of DurableStore or none a reader can notice.
THEOREM PageFileIsStore ==
  ASSUME SoundSettings, TRUE \notin GroupModes PROVE Spec => ImplementsStore
<1>1. Init => Store!Init
  <2> SUFFICES ASSUME Init PROVE Store!Init
    OBVIOUS
  <2>1. /\ pc = "down" /\ history = <<[EmptyFile EXCEPT ![0] = Header(1)]>>
    BY DEF Init
  <2>2. Phase = "down" /\ View = EmptyFile
    BY <2>1 DEF Phase, View
  <2>3. [EmptyFile EXCEPT ![0] = Header(1)] \in File
    BY EmptyFileType, FixedContents DEF File
  <2>4. Committed \in [PageId -> Content]
    BY <2>1, <2>3 DEF Committed, File
  <2> QED
    BY <2>2, <2>4 DEF Store!Init, Store!Nothing, EmptyFile
<1>2. StoreInv /\ StoreInv' /\ [Next]_vars => StoreStep
  <2> SUFFICES ASSUME StoreInv, StoreInv', [Next]_vars PROVE StoreStep
    OBVIOUS
  <2>1. IInv /\ IInv' /\ Recoverable /\ Allocated /\ Single /\ Seen /\ Seen'
    BY SeenAlways, SeenNext DEF StoreInv, Durability
  <2>2. CASE Next
    BY <2>1, <2>2, StoreSteps
  <2>3. CASE UNCHANGED vars
    <3>1. /\ history' = history /\ batch' = batch /\ pc' = pc /\ wal' = wal
      BY <2>3 DEF vars, disk, ghosts
    <3>2. Phase' = Phase /\ Committed' = Committed /\ Promised' = Promised
      BY <3>1 DEF Phase, Deciding, OwnBatch, Committed, Promised
    <3> QED
      BY <2>1, <3>2, StoreStutters DEF Seen
  <2> QED
    BY <2>2, <2>3
<1> QED
  BY <1>1, <1>2, StoreInvariant, PTL DEF Spec, ImplementsStore, Store!Spec, StoreStep

-----------------------------------------------------------------------------
(* LSNs: what is on disk reminds recovery of every one that was used.       *)

LEMMA FoundMore ==
  ASSUME NEW w, NEW v, NEW from \in Nat, NEW n \in Nat, NEW m \in Nat, n <= m,
         SamePrefix(w, v, n), NEW lsn, Found(w, from, n, lsn)
  PROVE  Found(v, from, m, lsn)
<1>1. PICK i \in from + 1 .. n : Opens(w[i]) /\ ExtentEnd(w, i) <= n /\ lsn <= w[i].lsn
  BY DEF Found
<1>2. v[i] = w[i]
  BY <1>1 DEF SamePrefix
<1>3. i \in from + 1 .. m
  OBVIOUS
<1>4. ExtentEnd(v, i) <= m
  <2>1. ExtentEnd(v, i) = ExtentEnd(w, i)
    BY <1>2 DEF ExtentEnd
  <2>2. i \in Nat
    OBVIOUS
  <2> QED
    BY <1>1, <2>1, <2>2, EndType
<1> QED
  BY <1>1, <1>2, <1>3, <1>4 DEF Found

LEMMA RemembersMore ==
  ASSUME NEW w, NEW v, NEW record, record.cutoff \in Nat, NEW n \in Nat, NEW m \in Nat, n <= m,
         SamePrefix(w, v, n), NEW lsn, Remembers(w, record, n, lsn)
  PROVE  Remembers(v, record, m, lsn)
BY FoundMore DEF Remembers

LEMMA FoundNothing ==
  ASSUME NEW w, NEW from \in Nat, NEW lsn
  PROVE  ~Found(w, from, 0, lsn)
BY DEF Found

\* the last extent of a journal is found
LEMMA FoundLast ==
  ASSUME NEW w, NEW from \in Nat, NEW i \in Nat, from < i, Opens(w[i]), NEW lsn, w[i].lsn = lsn,
         NEW n \in Nat, ExtentEnd(w, i) = n, lsn \in Nat
  PROVE  Found(w, from, n, lsn)
<1>1. n > i
  BY EndType
<1> QED
  BY <1>1 DEF Found

\* Where the journal ends, whatever the page file does.
Ends ==
  /\ wal \in Seq(Block) /\ Len(wal) \in Nat
  /\ JournalEnd \in Nat /\ JournalEnd <= Len(wal) /\ Floor \in Nat /\ Floor <= JournalEnd
  /\ Running => JournalEnd = IF Own THEN batch.start ELSE Len(wal)
  /\ pc # "recycle" => Floor = Smaller(walSynced, JournalEnd)
  /\ pc \notin {"recycle", "recycled"} => ckpt.cutoff <= Floor
  /\ ckpt.cutoff \in Nat /\ walSynced \in Nat /\ walSynced <= Len(wal)
  /\ nextLsn \in Nat \ {0} /\ usedLsn \in Nat /\ ckpt.lsn \in Nat /\ ck.lsn \in Nat

LEMMA EndsAlways == IInv /\ Recoverable => Ends
<1> SUFFICES ASSUME IInv, Recoverable PROVE Ends
  OBVIOUS
<1>1. Running => JournalEnd = IF Own THEN batch.start ELSE Len(wal)
  BY DEF Recoverable, Layout, JournalEnd
<1>2. pc \notin {"recycle", "recycled"} => ckpt.cutoff <= Floor
  BY DEF Recoverable, Cutoffs
<1>3. nextLsn \in Nat \ {0} /\ usedLsn \in Nat /\ ckpt.lsn \in Nat /\ ck.lsn \in Nat
  BY DEF IInv, TypeOK, DiskOK, MemoryOK, ProgressOK, Record
<1> QED
  BY <1>1, <1>2, <1>3, Bounds DEF Ends

LEMMA EndsNext == IInv' /\ Recoverable' => Ends'
BY EndsAlways, PTL

\* Steps that leave the journal up to its end, the record and the next LSN alone.
LEMMA NumberedOn ==
  ASSUME Ends, Ends', Numbered, Running, Running',
         {pc, pc'} \cap {"recycle", "recycled"} = {}, pc' \notin {"aborting", "ckptWrite"},
         SamePrefix(wal, wal', JournalEnd), JournalEnd' = JournalEnd, Floor <= Floor',
         ckpt' = ckpt, nextLsn' = nextLsn,
         usedLsn' = usedLsn \/ (usedLsn' = nextLsn - 1 /\ Floor' = JournalEnd'),
         Own' => batch'.lsn = nextLsn
  PROVE  Numbered'
<1>1. usedLsn' < nextLsn'
  BY DEF Numbered, Ends
<1>2. ASSUME ckpt'.state # "torn"
      PROVE  /\ Remembers(wal', ckpt', Floor', usedLsn')
             /\ Remembers(wal', ckpt', JournalEnd', nextLsn' - 1)
  <2>1. Remembers(wal, ckpt, Floor, usedLsn) /\ Remembers(wal, ckpt, JournalEnd, nextLsn - 1)
    BY <1>2 DEF Numbered
  <2>2. SamePrefix(wal, wal', Floor)
    BY ShorterPrefix DEF Ends
  <2>3. Remembers(wal', ckpt, JournalEnd, nextLsn - 1)
    BY <2>1, RemembersMore DEF Ends
  <2>4. Remembers(wal', ckpt, Floor', usedLsn)
    BY <2>1, <2>2, RemembersMore DEF Ends
  <2> QED
    BY <2>3, <2>4
<1>3. pc' \notin Reopening
  BY DEF Running
<1> QED
  BY <1>1, <1>2, <1>3 DEF Numbered, Reopening

\* The file is closed, or not opened at all.
LEMMA NumberedDown ==
  ASSUME Numbered, pc \notin {"recycle", "recycled"}, pc' = "down", batch' = None,
         wal' = wal, ckpt' = ckpt, usedLsn' = usedLsn, Floor' = Floor
  PROVE  Numbered'
BY DEF Numbered, Running, Reopening, Own
\* The open batch goes on.
LEMMA StagingNumbered ==
  ASSUME Ends, Ends', Numbered, Own, Own', batch'.start = batch.start, batch'.lsn = batch.lsn,
         Running, Running', {pc, pc'} \cap {"recycle", "recycled"} = {},
         pc' \notin {"aborting", "ckptWrite"}, SamePrefix(wal, wal', batch.start),
         walSynced <= walSynced', ckpt' = ckpt, nextLsn' = nextLsn, usedLsn' = usedLsn
  PROVE  Numbered'
<1>1. JournalEnd = batch.start /\ JournalEnd' = JournalEnd
  BY DEF JournalEnd
<1>2. Floor <= Floor'
  <2>1. /\ Floor = Smaller(walSynced, JournalEnd) /\ Floor' = Smaller(walSynced', JournalEnd)
        /\ walSynced \in Nat /\ walSynced' \in Nat /\ JournalEnd \in Nat
    BY <1>1 DEF Ends
  <2> QED
    BY <2>1 DEF Smaller
<1>3. batch'.lsn = nextLsn
  BY DEF Numbered
<1> QED
  BY <1>1, <1>2, <1>3, NumberedOn

LEMMA ChangingNumbered ==
  ASSUME IInv, IInv', Recoverable, Ends, Ends', Numbered,
         \/ Begin \/ Write \/ AllocateReused \/ AllocateAppended \/ Release
         \/ TakeSavepoint \/ RestoreSavepoint \/ CommitEmpty
  PROVE  Numbered'
<1>1. /\ pc = "idle" /\ pc' = "idle" /\ wal' = wal /\ walSynced' = walSynced /\ ckpt' = ckpt
      /\ nextLsn' = nextLsn /\ usedLsn' = usedLsn
  BY DEF Begin, Write, AllocateReused, AllocateAppended, Release, TakeSavepoint,
     RestoreSavepoint, CommitEmpty, Idle, Working, InBatch, BatchOnly, disk, lsns, ghosts
<1>2. Running /\ Running' /\ \A n : SamePrefix(wal, wal', n)
  BY <1>1 DEF Running, Reopening, SamePrefix
<1>3. CASE Begin
  <2>1. batch = None /\ batch'.start = Len(wal) /\ batch'.lsn = nextLsn /\ ~batch'.published
    BY <1>3 DEF Begin, Idle
  <2>2. batch' # None
    <3>1. batch' \in Batch
      BY <1>3 DEF Begin, IInv, TypeOK, DiskOK, MemoryOK, Batch, NoPages, PageMap
    <3> QED
      BY <3>1, NoneAssumption
  <2>3. JournalEnd' = JournalEnd
    BY <1>1, <1>2, <2>1, <2>2 DEF Ends, Own
  <2>4. Floor' = Floor
    BY <1>1, <2>3 DEF Ends
  <2> QED
    BY <1>1, <1>2, <2>1, <2>3, <2>4, NumberedOn DEF Ends
<1>4. CASE CommitEmpty
  <2>1. batch # None /\ ~batch.doomed /\ batch' = None
    BY <1>4 DEF CommitEmpty, Working, InBatch
  <2>2. Own /\ ~Own' /\ Len(wal) = batch.start
    BY <1>1, <2>1, BatchIsOwn DEF Own
  <2>3. JournalEnd' = JournalEnd
    BY <1>1, <1>2, <2>2 DEF Ends
  <2>4. Floor' = Floor
    BY <1>1, <2>3 DEF Ends
  <2> QED
    BY <1>1, <1>2, <2>2, <2>3, <2>4, NumberedOn DEF Ends
<1>5. CASE Write \/ AllocateReused \/ AllocateAppended \/ Release \/ TakeSavepoint
           \/ RestoreSavepoint
  <2>1. Working /\ Restaged
    <3>1. CASE TakeSavepoint
      BY <3>1 DEF TakeSavepoint, Working, InBatch, Restaged, SameBatch, IInv, TypeOK, MemoryOK
    <3> QED
      BY <1>5, <3>1, ChangingRestaged
  <2>2. Own /\ Own' /\ batch'.start = batch.start /\ batch'.lsn = batch.lsn
    <3>1. batch # None /\ Own
      BY <1>1, <2>1, BatchIsOwn DEF Working, InBatch
    <3> QED
      BY <2>1, <3>1, NoneAssumption DEF Restaged, SameBatch, Own
  <2> QED
    BY <1>1, <1>2, <2>2, StagingNumbered DEF Ends
<1> QED
  BY <1>3, <1>4, <1>5

LEMMA CommitAppendNumbered ==
  ASSUME IInv, IInv', Recoverable, Ends, Ends', Numbered, CommitAppend
  PROVE  Numbered'
<1>1. /\ pc = "idle" /\ pc' \in {"idle", "appended"} /\ walSynced' = walSynced /\ ckpt' = ckpt
      /\ nextLsn' = nextLsn /\ usedLsn' = usedLsn /\ batch # None
  BY DEF CommitAppend, Working, InBatch, lsns, ghosts
<1>2. Own /\ batch \in Batch /\ batch.start \in Nat /\ batch.start <= Len(wal) /\ Running
  BY <1>1, BatchIsOwn
<1>3. 0 \in PageId /\ Header(count) \in Content /\ seq \in Nat /\ count \in Nat /\ batch.lsn \in Nat
  BY <1>2, PageIds, FixedContents DEF IInv, TypeOK, MemoryOK, Batch
<1>4. SameBatch(batch', batch)
  BY <1>2, <1>3, StageSame DEF CommitAppend
<1>5. Own' /\ batch'.start = batch.start /\ batch'.lsn = batch.lsn
  BY <1>2, <1>4, NoneAssumption DEF SameBatch, Own
<1>6. SamePrefix(wal, wal', batch.start)
  <2>1. CASE Fits(batch, 0)
    <3> DEFINE ext == [pages |-> batch'.pages, count |-> count]
    <3>1. wal' = wal \o Journal(ext, batch.lsn, seq + 1)
      BY <2>1 DEF CommitAppend
    <3>2. ext \in ExtentType
      BY <1>3, <1>4 DEF ExtentType, SameBatch, Batch
    <3> HIDE DEF ext
    <3>3. seq + 1 \in Nat
      BY <1>3
    <3>4. Journal(ext, batch.lsn, seq + 1) \in Seq(Block)
      BY <1>3, <3>2, <3>3, JournalType
    <3>5. wal \in Seq(Block) /\ Len(wal) \in Nat
      BY DEF Ends
    <3>6. \A i \in 1 .. Len(wal) : wal'[i] = wal[i]
      BY <3>1, <3>4, <3>5
    <3>7. \A i \in 1 .. batch.start : i \in 1 .. Len(wal)
      BY <1>2, <3>5
    <3> QED
      BY <3>6, <3>7 DEF SamePrefix
  <2>2. CASE ~Fits(batch, 0)
    BY <2>2 DEF CommitAppend, SamePrefix
  <2> QED
    BY <2>1, <2>2
<1>7. Running'
  BY <1>1 DEF Running, Reopening
<1> QED
  BY <1>1, <1>2, <1>5, <1>6, <1>7, StagingNumbered DEF Ends

LEMMA CommitStepsNumbered ==
  ASSUME IInv, Recoverable, Ends, Ends', Numbered, CommitPrepared \/ CommitMark
  PROVE  Numbered'
<1>1. /\ pc \in {"appended", "prepared"} /\ pc' \in {"prepared", "marked"}
      /\ walSynced' \in {walSynced, Len(wal)} /\ ckpt' = ckpt
      /\ nextLsn' = nextLsn /\ usedLsn' = usedLsn /\ batch' = batch
      /\ wal' = wal \/ wal' = Append(wal, Mark(seq + 1))
  BY DEF CommitPrepared, CommitMark, lsns, ghosts
<1>2. Own /\ Own' /\ Running /\ Running'
  BY <1>1 DEF Recoverable, Stages, Committings, Own, Running, Reopening
<1>3. batch.start \in Nat /\ batch.start <= Len(wal)
  BY <1>2 DEF Ends, JournalEnd
<1>4. SamePrefix(wal, wal', batch.start)
  <2>1. \A i \in 1 .. Len(wal) : wal'[i] = wal[i]
    BY <1>1 DEF Ends
  <2> QED
    BY <1>3, <2>1 DEF SamePrefix, Ends
<1> QED
  BY <1>1, <1>2, <1>4, StagingNumbered DEF Ends

\* A group is fsynced, extents are applied, a handler begins.
LEMMA HandlingNumbered ==
  ASSUME IInv, Recoverable, Ends, Ends', Numbered,
         \/ GroupSync \/ ApplyStage \/ ApplyPages \/ ApplySync \/ ApplyClear
         \/ Checkpoint \/ Close
  PROVE  Numbered'
<1>1. /\ pc \in {"groupSync", "idle"} \cup Applying
      /\ pc' \in {"groupSync", "idle", "fuzzy", "full", "close"} \cup Applying
      /\ wal' = wal /\ walSynced' \in {walSynced, Len(wal)} /\ ckpt' = ckpt
      /\ nextLsn' = nextLsn
      /\ usedLsn' = usedLsn \/ (usedLsn' = nextLsn - 1 /\ walSynced' = Len(wal))
      /\ batch' = batch \/ (batch' = None /\ pc = "clear")
  BY DEF GroupSync, ApplyStage, ApplyPages, ApplySync, ApplyClear, Checkpoint, Close, SyncGroup,
     Idle, Working, InBatch, Applying, lsns, ghosts, disk, IInv, TypeOK, ProgressOK
<1>2. Running /\ Running' /\ SamePrefix(wal, wal', JournalEnd)
  BY <1>1 DEF Running, Reopening, Applying, SamePrefix
<1>3. JournalEnd' = JournalEnd
  <2>1. CASE batch' = batch
    <3>1. Own' = Own
      BY <2>1 DEF Own
    <3> QED
      BY <1>1, <1>2, <2>1, <3>1 DEF Ends
  <2>2. CASE batch' = None /\ pc = "clear"
    <3>1. ~Own'
      BY <2>2 DEF Own
    <3>2. Own => Len(wal) = batch.start
      BY <2>2 DEF Recoverable, Stages, OwnExtent, Committings
    <3> QED
      BY <1>1, <1>2, <3>1, <3>2 DEF Ends
  <2> QED
    BY <1>1, <2>1, <2>2
<1>4. Floor <= Floor' /\ (walSynced' = Len(wal) => Floor' = JournalEnd')
  BY <1>1, <1>3 DEF Ends, Smaller, Applying
<1>5. Own' => batch'.lsn = nextLsn
  BY <1>1 DEF Own, Numbered
<1> QED
  BY <1>1, <1>2, <1>3, <1>4, <1>5, NumberedOn DEF Applying

LEMMA SyncAbortNumbered ==
  ASSUME IInv, Recoverable, Ends, Ends', Numbered, SyncAbort
  PROVE  Numbered'
<1>1. /\ pc = "aborting" /\ pc' = "idle" /\ wal' = wal /\ walSynced' = Len(wal) /\ ckpt' = ckpt
      /\ nextLsn' = nextLsn /\ usedLsn' = nextLsn - 1 /\ batch' = batch
  BY DEF SyncAbort, lsns
<1>2. Running /\ Running' /\ SamePrefix(wal, wal', JournalEnd)
  BY <1>1 DEF Running, Reopening, SamePrefix
<1>3. ~Own /\ ~Own'
  BY <1>1 DEF Recoverable, Stages, Own
<1>4. JournalEnd' = JournalEnd
  BY <1>1, <1>2, <1>3 DEF Ends
<1>5. Floor <= Floor' /\ Floor' = JournalEnd'
  BY <1>1, <1>4 DEF Ends, Smaller
<1> QED
  BY <1>1, <1>2, <1>3, <1>4, <1>5, NumberedOn
LEMMA RollbackNumbered ==
  ASSUME IInv, IInv', Recoverable, Ends, Ends', Numbered, Rollback
  PROVE  Numbered'
<1>1. /\ pc = "idle" /\ batch # None /\ batch' = None /\ ckpt' = ckpt /\ usedLsn' = usedLsn
      /\ walSynced' = Smaller(walSynced, Len(JournalBefore(batch)))
  BY DEF Rollback, InBatch, ghosts
<1> DEFINE e == batch.start
           before == JournalBefore(batch)
<1>2. /\ Own /\ batch \in Batch /\ JournalEnd = e /\ e \in Nat /\ e <= Len(wal) /\ Running
      /\ ~Own' /\ batch.lsn = nextLsn
  BY <1>1, BatchIsOwn DEF Own, Numbered
<1>3. /\ wal \in Seq(Block) /\ Len(wal) \in Nat /\ walSynced \in Nat /\ nextLsn \in Nat \ {0}
      /\ Floor \in Nat /\ Floor <= e /\ Floor = Smaller(walSynced, e)
      /\ ckpt.cutoff \in Nat /\ ckpt.cutoff <= Floor
  BY <1>1, <1>2 DEF Ends
<1>4. before \in Seq(Block) /\ Len(before) = e /\ \A i \in 1 .. e : before[i] = wal[i]
  BY <1>2, <1>3 DEF JournalBefore, Smaller
<1>5. walSynced' = Floor
  BY <1>1, <1>3, <1>4
<1> HIDE DEF e, before
<1>6. CASE ~batch.touched
  <2>1. wal' = before /\ nextLsn' = nextLsn /\ pc' = "idle"
    BY <1>1, <1>6 DEF Rollback, before
  <2>2. Len(wal) = e
    BY <1>2, <1>6 DEF Recoverable, Stages, OwnExtent, e
  <2>3. wal' = wal /\ Running'
    BY <1>3, <1>4, <2>1, <2>2 DEF Running, Reopening
  <2>4. JournalEnd' = JournalEnd
    BY <1>2, <2>2, <2>3 DEF Ends
  <2>5. Floor' = Floor
    BY <1>2, <1>3, <1>5, <2>1, <2>4 DEF Ends, Smaller
  <2> QED
    BY <1>1, <1>2, <1>3, <2>1, <2>3, <2>4, <2>5, NumberedOn DEF SamePrefix
<1>7. CASE batch.touched
  <2>1. /\ wal' = before \o <<AbortBlock(batch.lsn), Mark(0)>>
        /\ nextLsn' = Larger(nextLsn, batch.lsn + 1) /\ pc' = "aborting"
    BY <1>7 DEF Rollback, before
  <2>2. AbortBlock(batch.lsn) \in Block /\ Mark(0) \in Block
    BY <1>2, FixedBlocks DEF Batch
  <2>3. /\ Len(wal') = e + 2 /\ wal'[e + 1] = AbortBlock(nextLsn)
        /\ \A i \in 1 .. e : wal'[i] = wal[i]
    <3> DEFINE longer == before \o <<AbortBlock(batch.lsn), Mark(0)>>
    <3>1. /\ Len(longer) = Len(before) + 2
          /\ \A i \in 1 .. Len(before) : longer[i] = before[i]
          /\ longer[Len(before) + 1] = AbortBlock(batch.lsn)
      BY <1>4, <2>2, TwoAppended
    <3> HIDE DEF longer
    <3> QED
      BY <1>2, <1>4, <2>1, <3>1 DEF longer
  <2>4. nextLsn' = nextLsn + 1
    BY <1>2, <1>3, <2>1 DEF Larger
  <2>5. Running' /\ JournalEnd' = e + 2
    BY <1>2, <2>1, <2>3 DEF Ends, Running, Reopening
  <2>6. Floor' = Floor
    <3>1. Floor' = Smaller(Floor, e + 2)
      BY <1>5, <2>1, <2>5 DEF Ends
    <3>2. e \in Nat
      BY <1>2
    <3> QED
      BY <1>3, <3>1, <3>2 DEF Smaller
  <2>7. Found(wal', ckpt.cutoff, e + 2, nextLsn)
    <3>1. Opens(wal'[e + 1]) /\ wal'[e + 1].lsn = nextLsn /\ ExtentEnd(wal', e + 1) = e + 2
      BY <1>2, <2>3 DEF AbortBlock, Opens, ExtentEnd
    <3>2. e + 1 \in Nat /\ e + 2 \in Nat /\ ckpt.cutoff < e + 1 /\ nextLsn \in Nat
      BY <1>2, <1>3
    <3> QED
      BY <1>3, <3>1, <3>2, FoundLast
  <2>8. ckpt.state # "torn" => Remembers(wal', ckpt, Floor, usedLsn)
    <3>1. SamePrefix(wal, wal', e)
      BY <2>3 DEF SamePrefix
    <3>2. SamePrefix(wal, wal', Floor)
      BY <1>2, <1>3, <3>1, ShorterPrefix
    <3>3. ckpt.state # "torn" => Remembers(wal, ckpt, Floor, usedLsn)
      BY <1>1 DEF Numbered
    <3> QED
      BY <1>3, <3>2, <3>3, RemembersMore
  <2>9. usedLsn' < nextLsn'
    <3>1. usedLsn < nextLsn /\ usedLsn \in Nat
      BY <1>2 DEF Numbered, Ends
    <3> QED
      BY <1>1, <1>3, <2>4, <3>1
  <2>10. Remembers(wal', ckpt', JournalEnd', nextLsn' - 1)
    BY <1>1, <1>3, <2>4, <2>5, <2>7 DEF Remembers
  <2>11. wal'[Len(wal') - 1] = AbortBlock(nextLsn' - 1)
    BY <1>2, <1>3, <2>3, <2>4
  <2> QED
    BY <1>1, <1>2, <2>1, <2>6, <2>8, <2>9, <2>10, <2>11 DEF Numbered, Reopening
<1> QED
  BY <1>6, <1>7

LEMMA CommitPublishNumbered ==
  ASSUME IInv, IInv', Recoverable, Allocated, Ends, Ends', Numbered, CommitPublish
  PROVE  Numbered'
<1>1. /\ pc = "marked" /\ walSynced' = PublishedLength /\ wal' = wal /\ ckpt' = ckpt
      /\ nextLsn' = Larger(nextLsn, batch.lsn + 1)
      /\ \/ /\ mode.group /\ batch' = None /\ usedLsn' = usedLsn /\ pc' \in {"idle", "groupSync"}
         \/ /\ ~mode.group /\ batch' = [batch EXCEPT !.published = TRUE] /\ usedLsn' = batch.lsn
            /\ pc' = "apply"
  BY DEF CommitPublish, SyncGroup
<1>2. Own /\ OwnExtent /\ Running /\ Running' /\ batch.lsn = nextLsn
  BY <1>1 DEF Recoverable, Stages, Committings, Numbered, Running, Reopening
<1>3. Len(wal) = batch.start + OwnRecords + 2 /\ wal[Len(wal)] = Mark(seq + 1)
  BY <1>1, <1>2 DEF OwnExtent
<1> DEFINE e == batch.start
           d == Len(wal)
<1>4. /\ batch \in Batch /\ JournalEnd = e /\ e \in Nat /\ e < d /\ ExtentEnd(wal, e + 1) = d
  BY <1>2, <1>3, OwnFinished
<1>5. /\ d \in Nat /\ walSynced \in Nat /\ nextLsn \in Nat \ {0} /\ usedLsn \in Nat
      /\ Floor \in Nat /\ Floor <= e /\ Floor = Smaller(walSynced, e)
      /\ ckpt.cutoff \in Nat /\ ckpt.cutoff <= Floor /\ walSynced <= d
  BY <1>1, <1>4 DEF Ends
<1>6. wal[e + 1].lsn = nextLsn /\ Opens(wal[e + 1])
  BY <1>2 DEF OwnExtent, RedoBlock, Opens
<1> HIDE DEF e, d
<1>7. ~Own' /\ JournalEnd' = d
  <2>1. batch' = None \/ batch'.published
    BY <1>1, <1>4 DEF Batch
  <2>2. ~Own'
    BY <2>1 DEF Own
  <2> QED
    BY <1>1, <1>2, <2>2 DEF Ends, d
<1>8. walSynced' \in {walSynced, d} /\ (~mode.group => walSynced' = d)
  BY <1>1 DEF PublishedLength, d
<1>9. Floor' = walSynced' /\ Floor <= Floor'
  <2>1. Floor' = Smaller(walSynced', d)
    BY <1>1, <1>7 DEF Ends
  <2> QED
    BY <1>4, <1>5, <1>8, <2>1 DEF Smaller
<1>10. nextLsn' = nextLsn + 1
  BY <1>1, <1>2, <1>5 DEF Larger
<1>11. Remembers(wal, ckpt, d, nextLsn)
  <2>1. e + 1 \in Nat /\ ckpt.cutoff < e + 1 /\ nextLsn \in Nat
    BY <1>4, <1>5
  <2> QED
    BY <1>4, <1>5, <1>6, <2>1, FoundLast DEF Remembers
<1>12. ckpt.state # "torn" => Remembers(wal, ckpt, Floor', usedLsn)
  <2>1. ckpt.state # "torn" => Remembers(wal, ckpt, Floor, usedLsn)
    BY <1>1 DEF Numbered
  <2>2. Floor' \in Nat /\ SamePrefix(wal, wal, Floor)
    BY <1>5, <1>8, <1>9 DEF SamePrefix
  <2> QED
    BY <1>5, <1>9, <2>1, <2>2, RemembersMore
<1>13. usedLsn < nextLsn
  BY <1>2 DEF Numbered
<1>14. usedLsn' < nextLsn' /\ (ckpt.state # "torn" => Remembers(wal', ckpt', Floor', usedLsn'))
  <2>1. CASE mode.group
    BY <1>1, <1>5, <1>10, <1>12, <1>13, <2>1
  <2>2. CASE ~mode.group
    BY <1>1, <1>2, <1>5, <1>8, <1>9, <1>10, <1>11, <2>2
  <2> QED
    BY <2>1, <2>2
<1>15. Remembers(wal', ckpt', JournalEnd', nextLsn' - 1)
  BY <1>1, <1>5, <1>7, <1>10, <1>11
<1> QED
  BY <1>1, <1>2, <1>7, <1>14, <1>15 DEF Numbered, Running

LEMMA CheckpointingNumbered ==
  ASSUME IInv, Ends, Ends', Numbered,
         \/ CheckpointFuzzy \/ CheckpointRecycle \/ RecycleSync \/ CheckpointRecycled
         \/ CheckpointWrite
  PROVE  Numbered'
<1>1. /\ pc \in {"fuzzy", "full", "recycle", "recycled", "ckptWrite"}
      /\ nextLsn' = nextLsn /\ usedLsn' = usedLsn /\ batch' = batch
      /\ \/ /\ pc' \in {"recycle", "recycled"} \/ (pc' = "ckptWrite" /\ ckpt' = TornCkpt)
            /\ ck'.lsn = nextLsn - 1 \/ (ck' = ck /\ pc \in {"recycle", "recycled"})
         \/ pc = "ckptWrite" /\ pc' = "idle" /\ ckpt' = ck
  BY DEF CheckpointFuzzy, CheckpointRecycle, RecycleSync, CheckpointRecycled, CheckpointWrite,
     lsns, ghosts
<1>2. usedLsn < nextLsn /\ Own' = Own
  BY <1>1 DEF Numbered, Running, Reopening, Own
<1>3. Running'
  BY <1>1 DEF Running, Reopening
<1>4. nextLsn \in Nat \ {0} /\ usedLsn \in Nat
  BY DEF Ends
<1>5. CASE pc' \in {"recycle", "recycled"} \/ (pc' = "ckptWrite" /\ ckpt' = TornCkpt)
  <2>1. nextLsn' - 1 <= ck'.lsn
    BY <1>1, <1>4, <1>5 DEF Numbered
  <2>2. TornCkpt.state = "torn"
    BY DEF TornCkpt
  <2>3. ckpt' = TornCkpt => ckpt'.state = "torn"
    BY <2>2
  <2> QED
    BY <1>1, <1>2, <1>5, <2>1, <2>3 DEF Numbered
<1>6. CASE pc = "ckptWrite" /\ pc' = "idle" /\ ckpt' = ck
  <2>1. nextLsn - 1 <= ckpt'.lsn /\ usedLsn <= ckpt'.lsn
    <3>1. nextLsn - 1 <= ck.lsn /\ ck.lsn \in Nat
      BY <1>6 DEF Numbered, Ends
    <3> QED
      BY <1>2, <1>4, <1>6, <3>1
  <2> QED
    BY <1>1, <1>2, <1>6, <2>1 DEF Numbered, Remembers
<1> QED
  BY <1>1, <1>5, <1>6
\* Without blocks nothing is remembered but by the record.
LEMMA EmptyRemembers ==
  ASSUME Ends, wal = <<>>, Remembers(wal, ckpt, Floor, usedLsn)
  PROVE  usedLsn <= ckpt.lsn
<1>1. Floor = 0
  BY DEF Ends
<1> QED
  BY <1>1, FoundNothing DEF Remembers, Ends

\* The scan begins at the recorded start.
LEMMA ScanNumbered ==
  ASSUME IInv, Recoverable, Ends, pc \notin {"recycle", "recycled"}, Scan(ckpt),
         Remembers(wal, ckpt, Floor, usedLsn), usedLsn' = usedLsn, nextLsn' = ckpt.lsn + 1,
         wal' = wal, ckpt' = ckpt, Floor' = Floor, ~Own'
  PROVE  Numbered'
<1>1. RedoStart(ckpt) = ckpt.cutoff
  BY StartsAtCutoff
<1>2. usedLsn \in Nat /\ ckpt.lsn \in Nat
  BY DEF Ends
<1>3. CASE wal = <<>>
  <2>1. pc' = "rebuild"
    BY <1>3 DEF Scan
  <2>2. usedLsn <= ckpt.lsn
    BY <1>3, EmptyRemembers
  <2> QED
    BY <1>2, <2>1, <2>2 DEF Numbered, Running, Reopening
<1>4. CASE wal # <<>>
  <2>1. pc' = "redo" /\ off' = ckpt.cutoff
    BY <1>1, <1>4 DEF Scan
  <2>2. usedLsn' < nextLsn' \/ Found(wal', off', Floor', usedLsn')
    BY <1>2, <2>1 DEF Remembers
  <2> QED
    BY <2>1, <2>2 DEF Numbered, Running, Reopening
<1> QED
  BY <1>3, <1>4

LEMMA OpeningNumbered ==
  ASSUME IInv, Recoverable, Ends, Ends', Numbered,
         Create \/ Open \/ OpenRefused \/ SlotsRefused
  PROVE  Numbered'
<1>1. pc = "down" /\ wal' = wal /\ walSynced' = walSynced /\ ckpt' = ckpt /\ usedLsn' = usedLsn
      /\ batch = None /\ batch' = None /\ pc' # "recycle"
  BY DEF Create, Open, OpenRefused, SlotsRefused, Refuse, Closed, Scan, disk, ghosts, IInv, Control
<1>2. ~Own /\ ~Own'
  BY <1>1 DEF Own
<1>3. JournalEnd' = JournalEnd
  BY <1>1, <1>2, EndWithoutBatch
<1>4. Floor' = Floor
  BY <1>1, <1>3 DEF Ends
<1>5. CASE OpenRefused \/ SlotsRefused
  <2>1. pc' = "down"
    BY <1>5 DEF OpenRefused, SlotsRefused, Refuse, Closed
  <2> QED
    BY <1>1, <1>4, <2>1, NumberedDown
<1>6. ASSUME Create \/ Open
      PROVE  Remembers(wal, ckpt, Floor, usedLsn) /\ nextLsn' = ckpt.lsn + 1 /\ ckpt.state # "torn"
  BY <1>1, <1>6 DEF Numbered, Create, Open
<1>7. CASE Create
  <2>1. usedLsn <= ckpt.lsn /\ usedLsn \in Nat /\ ckpt.lsn \in Nat
    BY <1>6, <1>7, EmptyRemembers DEF Create, Ends
  <2>2. usedLsn' < nextLsn' /\ nextLsn' - 1 <= ckpt'.lsn /\ usedLsn' <= ckpt'.lsn
    BY <1>1, <1>6, <1>7, <2>1
  <2>3. pc' = "idle"
    BY <1>7 DEF Create
  <2> QED
    BY <1>2, <2>2, <2>3 DEF Numbered, Remembers, Reopening
<1>8. CASE Open
  <2>1. pc' = "doubleWrite" \/ Scan(ckpt)
    BY <1>8 DEF Open
  <2>2. CASE pc' = "doubleWrite"
    BY <1>1, <1>2, <1>4, <1>6, <1>8, <2>2 DEF Numbered, Running, Reopening
  <2>3. CASE Scan(ckpt)
    BY <1>1, <1>2, <1>4, <1>6, <1>8, <2>3, ScanNumbered
  <2> QED
    BY <2>1, <2>2, <2>3
<1> QED
  BY <1>5, <1>7, <1>8

\* An extent that has been read is behind the scan.
LEMMA FoundBehind ==
  ASSUME NEW w, NEW end \in Nat, Parsed(w, end), NEW o \in Nat, o < end, Boundary(w, o),
         NEW n \in Nat, n <= end, NEW lsn \in Nat, Found(w, o, n, lsn)
  PROVE  lsn <= w[o + 1].lsn \/ Found(w, ExtentEnd(w, o + 1), n, lsn)
<1>1. PICK i \in o + 1 .. n : Opens(w[i]) /\ ExtentEnd(w, i) <= n /\ lsn <= w[i].lsn
  BY DEF Found
<1>2. CASE i = o + 1
  BY <1>1, <1>2
<1>3. CASE i # o + 1
  <2> DEFINE d == ExtentEnd(w, o + 1)
  <2>1. d \in Nat /\ d > o + 1 /\ d <= end /\ Opens(w[o + 1]) /\ Whole(w, o + 1, end)
    BY NextExtentEnds
  <2>2. ~(i < d)
    <3> SUFFICES ASSUME i < d PROVE FALSE
      OBVIOUS
    <3>1. i \in o + 2 .. d - 1
      BY <1>3, <2>1
    <3>2. w[i].kind = "body"
      BY <2>1, <3>1 DEF Whole
    <3> QED
      BY <1>1, <3>2 DEF Opens
  <2>3. i # d
    <3>1. w[d].kind = "mark"
      BY <2>1 DEF Whole
    <3> QED
      BY <1>1, <3>1 DEF Opens
  <2>4. i \in d + 1 .. n
    BY <2>1, <2>2, <2>3
  <2> QED
    BY <1>1, <2>4 DEF Found
<1> QED
  BY <1>2, <1>3
\* an extent has an LSN
LEMMA OpensLsn ==
  ASSUME NEW w \in Seq(Block), NEW i \in 1 .. Len(w), Opens(w[i])
  PROVE  w[i].lsn \in Nat
<1>1. w[i] \in Block
  OBVIOUS
<1> QED
  BY <1>1 DEF Block, Opens

LEMMA NextLsn ==
  ASSUME Ends, Recoverable, off \in Nat, off < JournalEnd, Boundary(wal, off)
  PROVE  NextExtent.lsn \in Nat
<1>1. Parsed(wal, JournalEnd)
  BY DEF Recoverable, Layout
<1>2. Opens(wal[off + 1])
  BY <1>1, NextWhole DEF Ends
<1>3. off + 1 \in 1 .. Len(wal)
  BY DEF Ends
<1> QED
  BY <1>2, <1>3, OpensLsn DEF Ends, NextExtent

\* The scan moves on by an extent it has counted.
LEMMA ReadOn ==
  ASSUME Ends, Ends', Recoverable, ~Running, ~Own', pc' = "redo", wal' = wal, ckpt' = ckpt,
         usedLsn' = usedLsn, Floor' = Floor, off \in Nat, off < JournalEnd, Boundary(wal, off),
         off' = ExtentEnd(wal, off + 1), nextLsn' > NextExtent.lsn, nextLsn' >= nextLsn,
         usedLsn < nextLsn \/ Found(wal, off, Floor, usedLsn),
         ckpt.state # "torn" => Remembers(wal, ckpt, Floor, usedLsn)
  PROVE  Numbered'
<1>1. Parsed(wal, JournalEnd)
  BY DEF Recoverable, Layout
<1>2. usedLsn' < nextLsn' \/ Found(wal', off', Floor', usedLsn')
  <2>1. CASE usedLsn < nextLsn
    BY <2>1 DEF Ends
  <2>2. CASE Found(wal, off, Floor, usedLsn)
    <3>1. Floor \in Nat /\ Floor <= JournalEnd /\ JournalEnd \in Nat /\ usedLsn \in Nat
      BY DEF Ends
    <3>2. usedLsn <= wal[off + 1].lsn \/ Found(wal, off', Floor, usedLsn)
      BY <1>1, <2>2, <3>1, FoundBehind
    <3>3. off + 1 \in 1 .. Len(wal) /\ Opens(wal[off + 1])
      BY <1>1, <3>1, NextExtentEnds DEF Ends
    <3>4. wal[off + 1].lsn \in Nat
      BY <3>3, OpensLsn DEF Ends
    <3>5. usedLsn <= wal[off + 1].lsn => usedLsn < nextLsn'
      BY <3>1, <3>4 DEF Ends, NextExtent
    <3> QED
      BY <3>2, <3>5
  <2> QED
    BY <2>1, <2>2
<1> QED
  BY <1>2 DEF Numbered, Running, Reopening

LEMMA RedoFinishNumbered ==
  ASSUME IInv, Recoverable, Ends, Ends', Numbered, RedoFinish, wal' = wal, Floor' = Floor, ~Own'
  PROVE  Numbered'
<1>1. pc = "redo" /\ RedoEnd /\ usedLsn' = usedLsn
  BY DEF RedoFinish, ghosts
<1>2. off \in Nat /\ off >= JournalEnd
  <2>1. off \in Nat
    BY DEF IInv, TypeOK, ProgressOK
  <2> QED
    BY <1>1, <2>1, ScanFinds DEF Ends
<1>3. usedLsn < nextLsn
  <2>1. ~Found(wal, off, Floor, usedLsn)
    BY <1>2 DEF Found, Ends
  <2> QED
    BY <1>1, <2>1 DEF Numbered
<1>4. nextLsn' >= nextLsn /\ nextLsn' \in Nat \ {0}
  BY DEF RedoFinish, Ends, Larger
<1>5. usedLsn' < nextLsn' /\ usedLsn \in Nat
  BY <1>1, <1>3, <1>4 DEF Ends
<1> DEFINE record == [ck EXCEPT !.lsn = Larger(ck.lsn, nextLsn' - 1)]
<1>6. record.lsn = Larger(ck.lsn, nextLsn' - 1)
  BY DEF IInv, TypeOK, MemoryOK, Record
<1>7. \/ /\ ck' = [record EXCEPT !.state = "ok", !.cutoff = 0, !.seq = seq']
         /\ ckpt' = TornCkpt /\ pc' = "redoCkpt"
      \/ ~(nextLsn' > 1) /\ pc' = "redoTruncate" /\ ckpt' = ckpt
  BY DEF RedoFinish
<1> HIDE DEF record
<1>8. CASE ck' = [record EXCEPT !.state = "ok", !.cutoff = 0, !.seq = seq']
           /\ ckpt' = TornCkpt /\ pc' = "redoCkpt"
  <2>1. ck'.lsn = Larger(ck.lsn, nextLsn' - 1)
    BY <1>6, <1>8
  <2>2. nextLsn' - 1 <= ck'.lsn
    BY <1>4, <2>1 DEF Larger, Ends
  <2>3. ckpt'.state = "torn"
    BY <1>8 DEF TornCkpt
  <2> QED
    BY <1>5, <1>8, <2>2, <2>3 DEF Numbered, Running, Reopening
<1>9. CASE ~(nextLsn' > 1) /\ pc' = "redoTruncate" /\ ckpt' = ckpt
  <2>1. nextLsn' - 1 <= ckpt'.lsn /\ usedLsn' <= ckpt'.lsn
    BY <1>1, <1>4, <1>5, <1>9 DEF Ends
  <2> QED
    BY <1>5, <1>9, <2>1 DEF Numbered, Running, Reopening, Remembers
<1> QED
  BY <1>7, <1>8, <1>9

LEMMA RecoverNumbered ==
  ASSUME IInv, IInv', Recoverable, Ends, Ends', Numbered, Recover
  PROVE  Numbered'
<1>1. CASE RedoTruncate
  <2>1. /\ pc = "redoTruncate" /\ pc' = "rebuild" /\ ckpt' = ckpt /\ nextLsn' = nextLsn
        /\ usedLsn' = usedLsn /\ batch' = None
    BY <1>1 DEF RedoTruncate, lsns, ghosts, IInv, Control, Reopening
  <2>2. usedLsn' < nextLsn' /\ nextLsn' - 1 <= ckpt'.lsn
    BY <2>1 DEF Numbered
  <2>3. usedLsn' <= ckpt'.lsn
    BY <2>2 DEF Ends
  <2> QED
    BY <2>1, <2>2, <2>3 DEF Numbered, Remembers, Running, Reopening, Own
<1>2. ASSUME ~RedoTruncate
      PROVE  wal' = wal /\ ~Own' /\ ~Running /\ Floor' = Floor /\ batch' = None
  BY <1>2, RecoverSteady
<1>3. usedLsn' = usedLsn
  BY DEF Recover, RecoverDoubleWrite, ClearRestored, RedoRefuse, Refuse, RedoAbort, RedoExtent,
     RedoSync, RedoFinish, RedoCkpt, RedoTruncate, Rebuild, ghosts
<1>12. CASE RecoverDoubleWrite
  <2>1. /\ pc = "doubleWrite" /\ pc' = "restored" /\ ckpt' = ckpt /\ nextLsn' = nextLsn
    BY <1>12 DEF RecoverDoubleWrite, lsns
  <2>2. /\ nextLsn' = ckpt.lsn + 1 /\ ckpt.state # "torn"
        /\ Remembers(wal, ckpt, Floor, usedLsn)
    BY <2>1 DEF Numbered
  <2>3. ~RedoTruncate
    BY <2>1 DEF RedoTruncate
  <2> QED
    BY <1>2, <1>3, <2>1, <2>2, <2>3 DEF Numbered, Remembers, Running, Reopening
<1>4. CASE ClearRestored
  <2>1. /\ pc = "restored" /\ Scan(ck) /\ ckpt' = ckpt /\ nextLsn' = nextLsn /\ ck = ckpt
        /\ pc' \notin {"doubleWrite", "restored"}
    BY <1>4 DEF ClearRestored, Scan, lsns, Recoverable, Cutoffs
  <2>2. nextLsn' = ckpt.lsn + 1 /\ Remembers(wal, ckpt, Floor, usedLsn)
    BY <2>1 DEF Numbered
  <2>3. ~RedoTruncate
    BY <2>1 DEF RedoTruncate
  <2> QED
    BY <1>2, <1>3, <2>1, <2>2, <2>3, ScanNumbered
<1>5. CASE RedoRefuse \/ (Rebuild /\ Refuse)
  <2>1. pc \in {"redo", "rebuild"} /\ pc' = "down" /\ ckpt' = ckpt
    BY <1>5 DEF RedoRefuse, Rebuild, Refuse, Closed, disk
  <2>2. ~RedoTruncate
    BY <2>1 DEF RedoTruncate
  <2> QED
    BY <1>2, <1>3, <2>1, <2>2, NumberedDown
<1>6. CASE RedoAbort
  <2>1. /\ pc = "redo" /\ pc' = "redo" /\ ckpt' = ckpt /\ off' = off + 2 /\ Kind(1) = "abort"
        /\ Kind(2) = "mark" /\ nextLsn' = Larger(nextLsn, NextExtent.lsn + 1)
    BY <1>6 DEF RedoAbort, disk
  <2>2. ~RedoTruncate
    BY <2>1 DEF RedoTruncate
  <2>3. off < JournalEnd
    BY <2>1, ScanStops
  <2>4. off \in Nat /\ Boundary(wal, off) /\ off' = ExtentEnd(wal, off + 1)
    BY <2>1, <2>3, ScanFinds
  <2>5. NextExtent.lsn \in Nat
    BY <2>3, <2>4, NextLsn
  <2>6. nextLsn' > NextExtent.lsn /\ nextLsn' >= nextLsn
    <3>1. nextLsn \in Nat
      BY DEF Ends
    <3> QED
      BY <2>1, <2>5, <3>1 DEF Larger
  <2>7. /\ usedLsn < nextLsn \/ Found(wal, off, Floor, usedLsn)
        /\ ckpt.state # "torn" => Remembers(wal, ckpt, Floor, usedLsn)
    BY <2>1 DEF Numbered
  <2> QED
    BY <1>2, <1>3, <2>1, <2>2, <2>3, <2>4, <2>6, <2>7, ReadOn
<1>7. CASE RedoExtent
  <2>1. /\ pc = "redo" /\ pc' = "redoSync" /\ ckpt' = ckpt /\ off' = off /\ Kind(1) = "redo"
        /\ ~RedoRefusal /\ ~RedoEnd /\ nextLsn' = Larger(nextLsn, NextExtent.lsn + 1)
    BY <1>7 DEF RedoExtent
  <2>2. ~RedoTruncate
    BY <2>1 DEF RedoTruncate
  <2>3. off < JournalEnd
    BY <2>1, ScanStops
  <2>4. off \in Nat /\ Boundary(wal, off)
    BY <2>1, <2>3, ScanFinds
  <2>5. NextExtent.lsn \in Nat
    BY <2>3, <2>4, NextLsn
  <2>6. nextLsn' > NextExtent.lsn /\ nextLsn' >= nextLsn
    <3>1. nextLsn \in Nat
      BY DEF Ends
    <3> QED
      BY <2>1, <2>5, <3>1 DEF Larger
  <2>7. NextExtent' = NextExtent
    BY <1>2, <2>1, <2>2 DEF NextExtent
  <2>8. usedLsn' < nextLsn' \/ Found(wal', off', Floor', usedLsn')
    <3>1. usedLsn < nextLsn \/ Found(wal, off, Floor, usedLsn)
      BY <2>1 DEF Numbered
    <3>2. usedLsn < nextLsn => usedLsn < nextLsn'
      BY <2>6 DEF Ends
    <3> QED
      BY <1>2, <1>3, <2>1, <2>2, <3>1, <3>2
  <2>9. ckpt.state # "torn" => Remembers(wal, ckpt, Floor, usedLsn)
    BY <2>1 DEF Numbered
  <2> QED
    BY <1>2, <1>3, <2>1, <2>2, <2>6, <2>7, <2>8, <2>9 DEF Numbered, Running, Reopening
<1>8. CASE RedoSync
  <2>1. /\ pc = "redoSync" /\ pc' = "redo" /\ ckpt' = ckpt /\ off' = off + Records + 2
        /\ nextLsn' = nextLsn
    BY <1>8 DEF RedoSync, lsns
  <2>2. ~RedoTruncate
    BY <2>1 DEF RedoTruncate
  <2>3. off < JournalEnd /\ Boundary(wal, off) /\ NextExtent.kind = "redo" /\ off \in Nat
    BY <2>1 DEF Recoverable, Replays, IInv, TypeOK, ProgressOK
  <2>4. off' = ExtentEnd(wal, off + 1)
    <3>1. Records \in Nat
      BY EndType, RecordsType, <2>3 DEF IInv, Records, BodyLength
    <3> QED
      BY <2>1, <2>3, <3>1 DEF ExtentEnd, Records, NextExtent
  <2>5. nextLsn > NextExtent.lsn
    <3>1. NextExtent.lsn \in Nat
      BY <2>3, NextLsn
    <3> QED
      BY <2>1, <3>1 DEF Numbered, Ends
  <2>6. /\ usedLsn < nextLsn \/ Found(wal, off, Floor, usedLsn)
        /\ ckpt.state # "torn" => Remembers(wal, ckpt, Floor, usedLsn)
    BY <2>1 DEF Numbered
  <2>7. nextLsn >= nextLsn
    BY DEF Ends
  <2> QED
    BY <1>2, <1>3, <2>1, <2>2, <2>3, <2>4, <2>5, <2>6, <2>7, ReadOn
<1>9. CASE RedoFinish
  BY <1>2, <1>9, RedoFinishNumbered DEF RedoFinish, RedoTruncate
<1>10. CASE RedoCkpt
  <2>1. /\ pc = "redoCkpt" /\ pc' = "redoTruncate" /\ ckpt' = ck /\ nextLsn' = nextLsn
    BY <1>10 DEF RedoCkpt, lsns
  <2>2. ~RedoTruncate
    BY <2>1 DEF RedoTruncate
  <2>3. usedLsn' < nextLsn' /\ nextLsn' - 1 <= ckpt'.lsn
    BY <1>3, <2>1 DEF Numbered
  <2>4. usedLsn' <= ckpt'.lsn
    BY <1>3, <2>1, <2>3 DEF Ends
  <2> QED
    BY <1>2, <2>1, <2>2, <2>3, <2>4 DEF Numbered, Remembers, Running, Reopening
<1>11. CASE Rebuild /\ ~Refuse
  <2>1. pc = "rebuild" /\ pc' = "idle" /\ ckpt' = ckpt /\ nextLsn' = nextLsn
    BY <1>11 DEF Rebuild, disk, lsns
  <2>2. ~RedoTruncate
    BY <2>1 DEF RedoTruncate
  <2>3. usedLsn' < nextLsn' /\ nextLsn' - 1 <= ckpt'.lsn
    BY <1>3, <2>1 DEF Numbered
  <2>4. usedLsn' <= ckpt'.lsn
    BY <1>3, <2>1, <2>3 DEF Ends
  <2> QED
    BY <1>2, <2>1, <2>2, <2>3, <2>4 DEF Numbered, Remembers, Reopening
<1> QED
  BY <1>1, <1>4, <1>5, <1>6, <1>7, <1>8, <1>9, <1>10, <1>11, <1>12 DEF Recover

LEMMA ClosingNumbered ==
  ASSUME IInv, Recoverable, Recoverable', Ends, Ends', Numbered, Closing
  PROVE  Numbered'
<1>1. /\ pc \in {"close", "broken"} /\ pc' = "down" /\ batch' = None /\ wal' = wal
      /\ walSynced' = walSynced /\ ckpt' = ckpt /\ usedLsn' = usedLsn
  BY DEF Closing, Closed, disk, ghosts
<1>2. ~Own' /\ Running
  BY <1>1 DEF Own, Running, Reopening
<1>3. Own => Len(wal) = batch.start
  BY <1>1 DEF Recoverable, Stages, OwnExtent, Applying, Committings
<1>4. JournalEnd = Len(wal) /\ Parsed(wal, Len(wal))
  <2>1. JournalEnd = Len(wal)
    BY <1>2, <1>3 DEF Ends
  <2> QED
    BY <2>1 DEF Recoverable, Layout
<1>5. JournalEnd' = JournalEnd
  BY <1>1, <1>2, <1>4, LastMarkWhole DEF JournalEnd, Ends
<1>6. Floor' = Floor
  BY <1>1, <1>5 DEF Ends
<1> QED
  BY <1>1, <1>6, NumberedDown

\* A crash leaves the extents that are found up to the floor.
LEMMA CrashNumbered ==
  ASSUME SoundSettings, CutsRecorded, IInv, Recoverable, Ends, Ends', Numbered, Crash
  PROVE  Numbered'
<1>1. /\ pc \in CrashPoints /\ pc' = "down" /\ batch' = None /\ ckpt' = ckpt
      /\ usedLsn' = usedLsn /\ walSynced' = Len(wal')
  BY DEF Crash, Closed
<1>2. PICK kind \in Crashes :
        \E n \in WalFloor(kind) .. Len(wal) :
          \/ wal' = SubSeq(wal, 1, n)
          \/ n < Len(wal) /\ wal' = Append(SubSeq(wal, 1, n), TornBlock)
  BY DEF Crash
<1>3. PICK n \in WalFloor(kind) .. Len(wal) :
        \/ wal' = SubSeq(wal, 1, n)
        \/ n < Len(wal) /\ wal' = Append(SubSeq(wal, 1, n), TornBlock)
  BY <1>2
<1>4. WalFloor(kind) \in Nat /\ Floor <= WalFloor(kind)
  BY <1>1, CrashFloor
<1>5. n \in Nat /\ n <= Len(wal) /\ Len(wal') \in Nat /\ n <= Len(wal') /\ SamePrefix(wal, wal', n)
  BY <1>3, <1>4, CrashLeaves
<1>6. ~Own' /\ pc \notin {"recycle", "recycled"}
  BY <1>1 DEF Own, CutsRecorded
<1>7. ASSUME ckpt.state # "torn", ~(usedLsn <= ckpt.lsn)
      PROVE  Found(wal', ckpt.cutoff, Floor', usedLsn)
  <2>1. Found(wal, ckpt.cutoff, Floor, usedLsn)
    BY <1>6, <1>7 DEF Numbered, Remembers
  <2>2. PICK i \in ckpt.cutoff + 1 .. Floor :
          Opens(wal[i]) /\ ExtentEnd(wal, i) <= Floor /\ usedLsn <= wal[i].lsn
    BY <2>1 DEF Found
  <2> DEFINE d == ExtentEnd(wal, i)
  <2>3. ckpt.cutoff \in Nat /\ Floor \in Nat /\ Floor <= JournalEnd /\ JournalEnd \in Nat /\ Floor <= n
        /\ Len(wal) \in Nat
    BY <1>3, <1>4 DEF Ends
  <2>4. i \in Nat /\ i <= n /\ i > 0 /\ i \in 1 .. JournalEnd
    BY <2>3
  <2>5. d \in Nat /\ d > i /\ d <= Floor
    BY <2>2, <2>4, EndType
  <2>6. wal[d].kind = "mark"
    BY <2>2, <2>4 DEF Recoverable, Layout, Parsed, Whole
  <2> HIDE DEF d
  <2>7. wal'[i] = wal[i] /\ wal'[d] = wal[d]
    <3>1. i \in 1 .. n /\ d \in 1 .. n
      BY <1>5, <2>3, <2>4, <2>5
    <3> QED
      BY <1>5, <3>1 DEF SamePrefix
  <2>8. LastMark(wal') \in Nat /\ NoMarks(wal', LastMark(wal'))
    BY <1>5, LastMarkExists
  <2>9. d <= LastMark(wal')
    <3> SUFFICES ASSUME ~(d <= LastMark(wal')) PROVE FALSE
      OBVIOUS
    <3>1. d \in LastMark(wal') + 1 .. Len(wal')
      BY <1>5, <2>3, <2>5, <2>8
    <3> QED
      BY <2>6, <2>7, <2>8, <3>1 DEF NoMarks
  <2>10. Floor' \in Nat /\ d <= Floor'
    <3>1. Floor' = Smaller(walSynced', LastMark(wal'))
      BY <1>1, <1>6 DEF Ends, JournalEnd
    <3>2. d <= Len(wal')
      BY <1>5, <2>3, <2>5
    <3> QED
      BY <1>1, <1>5, <2>8, <2>9, <3>1, <3>2 DEF Smaller
  <2>11. ExtentEnd(wal', i) = d
    BY <2>7 DEF ExtentEnd, d
  <2>12. i \in ckpt.cutoff + 1 .. Floor'
    BY <2>3, <2>4, <2>5, <2>10
  <2> QED
    BY <2>2, <2>7, <2>10, <2>11, <2>12 DEF Found
<1> QED
  BY <1>1, <1>6, <1>7 DEF Numbered, Remembers, Running, Reopening

LEMMA NumberedStep ==
  ASSUME SoundSettings, CutsRecorded, IInv, IInv', Recoverable, Recoverable', Allocated, Numbered,
         Next
  PROVE  Numbered'
<1>1. Ends /\ Ends'
  BY EndsAlways, EndsNext
<1>2. CASE Opening
  BY <1>1, <1>2, OpeningNumbered, RecoverNumbered DEF Opening
<1>3. CASE Changing
  BY <1>1, <1>3, ChangingNumbered, RollbackNumbered, SyncAbortNumbered DEF Changing
<1>4. CASE Committing
  BY <1>1, <1>4, ChangingNumbered, CommitAppendNumbered, CommitStepsNumbered,
     CommitPublishNumbered, HandlingNumbered DEF Committing
<1>5. CASE Checkpointing
  BY <1>1, <1>5, HandlingNumbered, CheckpointingNumbered DEF Checkpointing
<1>6. CASE Close \/ Closing
  BY <1>1, <1>6, HandlingNumbered, ClosingNumbered
<1>7. CASE Failing
  BY <1>1, <1>7, CrashNumbered DEF Failing, FaultCommit, FaultFatal, FaultGroupSync,
     FaultApplyGroup, FaultCheckpoint, CutsRecorded
<1> QED
  BY <1>2, <1>3, <1>4, <1>5, <1>6, <1>7 DEF Next

\* Under sound settings, where no crash and no failure falls between the cut of the
\* journal and the record of it, an open file never gives out an LSN that a finished
\* extent has: not after rollbacks (abort extents), recoveries, checkpoints or
\* crashes (beginWriteBatch, appendAbortTx, recoverJournal, checkpoint).
THEOREM LsnNeverAgain == ASSUME SoundSettings, CutsRecorded PROVE Spec => []LsnFresh
<1>1. Init => Numbered
  <2> SUFFICES ASSUME Init PROVE Numbered
    OBVIOUS
  <2>1. pc = "down" /\ usedLsn = 0 /\ ckpt = NoCkpt /\ batch = None
    BY DEF Init
  <2>2. usedLsn <= ckpt.lsn
    BY <2>1 DEF NoCkpt
  <2> QED
    BY <2>1, <2>2 DEF Numbered, Remembers, Running, Reopening, Own
<1>2. Durability /\ Durability' /\ Numbered /\ [Next]_vars => Numbered'
  <2> SUFFICES ASSUME Durability, Durability', Numbered, [Next]_vars PROVE Numbered'
    OBVIOUS
  <2>1. CASE Next
    BY <2>1, NumberedStep DEF Durability
  <2>2. CASE UNCHANGED vars
    <3>1. /\ pc' = pc /\ wal' = wal /\ walSynced' = walSynced /\ ckpt' = ckpt /\ ck' = ck
          /\ batch' = batch /\ usedLsn' = usedLsn /\ nextLsn' = nextLsn /\ off' = off
      BY <2>2 DEF vars, disk, lsns, recovery, ghosts
    <3>2. Own' = Own /\ Running' = Running /\ NextExtent' = NextExtent
      BY <3>1 DEF Own, Running, NextExtent
    <3>3. JournalEnd' = JournalEnd
      BY <3>1, <3>2 DEF JournalEnd
    <3>4. Floor' = Floor
      BY <3>1, <3>3 DEF Floor
    <3> QED
      BY <3>1, <3>2, <3>3, <3>4 DEF Numbered
  <2> QED
    BY <2>1, <2>2
<1>3. Numbered => LsnFresh
  BY DEF Numbered, LsnFresh, Running, Reopening
<1> QED
  BY <1>1, <1>2, <1>3, DurabilityInvariant, PTL DEF Spec

-----------------------------------------------------------------------------
(* No open is refused: what a crash leaves can be read.                     *)

\* A file that holds an image is accepted by the scan of its pages.
LEMMA ShapeConsistent ==
  ASSUME NEW image \in File, Shape(image)
  PROVE  Consistent(image)
<1> DEFINE n == image[0].n
<1>1. n \in 1 .. MaxPages /\ n \in Nat /\ image[0] = Header(n)
  BY PageFileAssumption DEF Shape
<1>2. {p \in PageId : image[p] # Absent} = 0 .. n - 1
  <2>1. \A p \in PageId : p >= n => image[p] = Absent
    BY DEF Shape
  <2>2. \A p \in PageId : p < n => image[p] # Absent
    BY <1>1 DEF Shape, Header, Absent
  <2>3. 0 .. n - 1 \subseteq PageId
    BY <1>1, PageFileAssumption DEF PageId
  <2>4. \A p \in PageId : p < n <=> p \in 0 .. n - 1
    BY <1>1, PageFileAssumption DEF PageId
  <2>5. \A p \in PageId : p < n \/ p >= n
    BY <1>1 DEF PageId
  <2> HIDE DEF n
  <2> QED
    BY <2>1, <2>2, <2>3, <2>4, <2>5
<1>3. Cardinality(0 .. n - 1) = n
  <2>1. 0 \in Int /\ n - 1 \in Int /\ 0 <= n - 1
    BY <1>1
  <2> QED
    BY <1>1, <2>1, FS_Interval
<1>4. FileLength(image) = n
  BY <1>2, <1>3 DEF FileLength
<1>5. \A p \in 1 .. n - 1 : image[p].kind \in {"data", "free"}
  <2>1. \A p \in 1 .. n - 1 : p \in PageId /\ p # 0 /\ p < n
    BY <1>1, PageFileAssumption DEF PageId
  <2> QED
    BY <2>1 DEF Shape
<1> QED
  BY <1>1, <1>4, <1>5 DEF Consistent, Header

\* Recovery reads on to the end of the journal.
LEMMA ScanAccepts ==
  ASSUME IInv, Recoverable, Readable, pc = "redo"
  PROVE  ~RedoRefusal
<1>1. off \in Nat /\ off <= JournalEnd /\ JournalEnd \in Nat /\ Len(wal) \in Nat
  BY Bounds DEF Recoverable, Replays, IInv, TypeOK, ProgressOK
<1>2. CASE off < JournalEnd
  BY <1>2, ScanFinds
<1>3. CASE off = JournalEnd
  <2>1. off = LastMark(wal)
    BY <1>3 DEF JournalEnd, Own, IInv, Control, Reopening
  <2>2. CASE Len(wal) = off
    BY <1>1, <2>2 DEF RedoRefusal, Kind, Has
  <2>3. CASE Unmarked(wal, off)
    <3>1. /\ NextExtent.kind = "redo" /\ Records \in Nat /\ Len(wal) = off + 1 + Records
          /\ \A i \in off + 2 .. Len(wal) : wal[i].kind = "body"
      BY <1>1, <2>3, RecordsType DEF Unmarked, NextExtent, Records
    <3>2. Kind(1) = "redo"
      BY <1>1, <3>1 DEF Kind, Has, NextExtent
    <3>3. \A i \in 2 .. Records + 1 : Kind(i) = "body"
      <4> TAKE i \in 2 .. Records + 1
      <4>1. off + i \in off + 2 .. Len(wal) /\ off + i <= Len(wal)
        BY <1>1, <3>1
      <4> QED
        BY <3>1, <4>1 DEF Kind, Has
    <3>4. Kind(Records + 2) = "end"
      <4>1. ~(off + (Records + 2) <= Len(wal))
        BY <1>1, <3>1
      <4> QED
        BY <4>1 DEF Kind, Has
    <3> QED
      BY <3>2, <3>3, <3>4 DEF RedoRefusal
  <2> QED
    BY <2>1, <2>2, <2>3 DEF Readable, Running, Reopening
<1> QED
  BY <1>1, <1>2, <1>3

\* Whatever recovery and the constructor check is as they ask for it.
LEMMA NothingRefused ==
  ASSUME IInv, Recoverable, Allocated, Openable
  PROVE  ~OpenRefused /\ ~SlotsRefused /\ ~RedoRefuse /\ (pc = "rebuild" => Consistent(main))
<1>1. ~OpenRefused /\ ~SlotsRefused
  BY DEF OpenRefused, SlotsRefused, Openable, Headed, HasHeader, Readable
<1>2. ~RedoRefuse
  BY ScanAccepts DEF RedoRefuse, Openable
<1>3. ASSUME pc = "rebuild"
      PROVE  Consistent(main)
  <2>1. main = Committed /\ Shape(Committed) /\ Committed \in File
    BY <1>3, Bounds DEF Recoverable, Replays, Allocated, Shapes, Committed
  <2> QED
    BY <2>1, ShapeConsistent
<1> QED
  BY <1>1, <1>2, <1>3

-----------------------------------------------------------------------------
(* The header page.                                                         *)

LEMMA TitledTail ==
  ASSUME NEW q \in Seq(ExtentType), q # <<>>, TitledExtents(q)
  PROVE  TitledExtents(Tail(q)) /\ Titled(q[1])
<1>1. \A k \in DOMAIN Tail(q) : k + 1 \in DOMAIN q /\ Tail(q)[k] = q[k + 1]
  OBVIOUS
<1>2. 1 \in DOMAIN q
  OBVIOUS
<1> QED
  BY <1>1, <1>2 DEF TitledExtents

LEMMA TitledAppend ==
  ASSUME NEW q \in Seq(ExtentType), TitledExtents(q), NEW ext \in ExtentType, Titled(ext)
  PROVE  TitledExtents(Append(q, ext)) /\ TitledExtents(<<ext>>) /\ TitledExtents(<<>>)
<1>1. \A k \in DOMAIN Append(q, ext) :
        (k \in DOMAIN q /\ Append(q, ext)[k] = q[k]) \/ Append(q, ext)[k] = ext
  OBVIOUS
<1>2. \A k \in DOMAIN <<ext>> : <<ext>>[k] = ext
  OBVIOUS
<1> QED
  BY <1>1, <1>2 DEF TitledExtents

\* The extent of the batch that commits leaves a header.
LEMMA OwnTitled ==
  ASSUME IInv, Recoverable, TitledJournal, pc \in Committings
  PROVE  Extent \in ExtentType /\ Titled(Extent)
<1>1. Own /\ OwnExtent /\ batch \in Batch
  BY DEF Recoverable, Stages, Committings, Own, IInv, TypeOK, ProgressOK
<1>2. batch.start \in Nat /\ Len(wal) \in Nat /\ OwnRecords \in Nat
  BY <1>1, StagedCount DEF Batch, OwnRecords, BodyLength, IInv, TypeOK, DiskOK
<1>3. batch.start + 1 \in 1 .. Len(wal)
  BY <1>1, <1>2 DEF OwnExtent
<1>4. wal[batch.start + 1] = RedoBlock(Extent, batch.lsn, seq + 1)
  BY <1>1 DEF OwnExtent
<1>5. Titled(Extent)
  BY <1>3, <1>4 DEF TitledJournal, Titled, RedoBlock
<1>6. Extent \in ExtentType
  BY <1>1 DEF Extent, ExtentType, Batch, IInv, TypeOK, MemoryOK
<1> QED
  BY <1>5, <1>6

LEMMA TitledQueues ==
  ASSUME IInv, Recoverable, TitledJournal, TitledExtents(pending), TitledExtents(queue), Next
  PROVE  TitledExtents(pending') /\ TitledExtents(queue')
<1>1. pending \in Seq(ExtentType) /\ queue \in Seq(ExtentType) /\ TitledExtents(<<>>)
  BY DEF IInv, TypeOK, MemoryOK, ProgressOK, TitledExtents
<1>2. CASE CommitPublish
  <2>1. Extent \in ExtentType /\ Titled(Extent)
    BY <1>2, OwnTitled DEF CommitPublish, Committings
  <2>2. \/ pending' = Append(pending, Extent) /\ queue' = queue
        \/ pending' = pending /\ queue' = <<Extent>>
    BY <1>2 DEF CommitPublish
  <2> QED
    BY <1>1, <2>1, <2>2, TitledAppend
<1>3. CASE ApplyClear
  <2>1. queue # <<>> /\ queue' = Tail(queue) /\ pending' = pending
    BY <1>3 DEF ApplyClear, IInv, TypeOK, ProgressOK, Applying
  <2> QED
    BY <1>1, <2>1, TitledTail
<1>4. ASSUME ~CommitPublish, ~ApplyClear
      PROVE  pending' \in {pending, <<>>} /\ queue' \in {queue, pending, <<>>}
  <2>1. CASE Opening
    BY <2>1 DEF Opening, Create, Open, OpenRefused, SlotsRefused, Refuse, Closed, Recover,
       RecoverDoubleWrite, ClearRestored,
       RedoRefuse, RedoAbort, RedoExtent, RedoSync, RedoFinish, RedoCkpt, RedoTruncate, Rebuild
  <2>2. CASE Changing
    BY <2>2 DEF Changing, Begin, Write, AllocateReused, AllocateAppended, Release, TakeSavepoint,
       RestoreSavepoint, Rollback, SyncAbort, BatchOnly
  <2>3. CASE Committing
    BY <1>4, <2>3 DEF Committing, CommitEmpty, CommitAppend, CommitPrepared, CommitMark, GroupSync,
       ApplyStage, ApplyPages, ApplySync
  <2>4. CASE Checkpointing \/ Close \/ Closing
    BY <2>4 DEF Checkpointing, Checkpoint, CheckpointFuzzy, CheckpointRecycle, RecycleSync,
       CheckpointRecycled, CheckpointWrite, Close, Closing, Closed
  <2>5. CASE Failing
    BY <2>5 DEF Failing, FaultCommit, FaultFatal, FaultGroupSync, FaultApplyGroup,
       FaultCheckpoint, Crash, Closed
  <2> QED
    BY <2>1, <2>2, <2>3, <2>4, <2>5 DEF Next
<1> QED
  BY <1>1, <1>2, <1>3, <1>4

\* A journal that ends with other blocks than the header of an extent.
LEMMA TitledLonger ==
  ASSUME NEW n \in Nat, n <= Len(wal), Len(wal) \in Nat, Len(wal') \in Nat, SamePrefix(wal, wal', n),
         \A i \in n + 1 .. Len(wal') : wal'[i].kind # "redo" \/ Titled(wal'[i]), TitledJournal
  PROVE  TitledJournal'
<1>1. \A i \in 1 .. Len(wal') : i \in n + 1 .. Len(wal') \/ i \in 1 .. n
  OBVIOUS
<1>2. \A i \in 1 .. n : i \in 1 .. Len(wal) /\ wal'[i] = wal[i]
  BY DEF SamePrefix
<1> QED
  BY <1>1, <1>2 DEF TitledJournal

LEMMA CommitAppendTitled ==
  ASSUME IInv, IInv', Recoverable, Recoverable', Allocated, TitledJournal, CommitAppend
  PROVE  TitledJournal'
<1>1. pc = "idle" /\ batch # None /\ ~batch.doomed /\ count' = count
  BY DEF CommitAppend, Working, InBatch, allocation
<1>2. /\ Own /\ batch \in Batch /\ Len(wal) = batch.start /\ batch.start \in Nat
  BY <1>1, BatchIsOwn
<1>3. count \in 1 .. MaxPages /\ count \in Nat /\ 0 \in PageId /\ Header(count) \in Content
  <2>1. count \in 1 .. MaxPages /\ count \in Nat
    BY <1>1, StagedBelow DEF IInv, TypeOK, MemoryOK
  <2> QED
    BY <2>1, PageIds, FixedContents
<1>4. CASE ~Fits(batch, 0)
  BY <1>4 DEF CommitAppend, TitledJournal
<1>5. CASE Fits(batch, 0)
  <2>1. batch' = Stage(batch, 0, Header(count)) /\ pc' = "appended"
    BY <1>5 DEF CommitAppend
  <2>2. batch'.pages[0] = Header(count)
    <3>1. Stage(batch, 0, Header(count)).pages = [batch.pages EXCEPT ![0] = Header(count)]
      BY <1>2, <1>3, StagePages
    <3> QED
      BY <1>2, <1>3, <2>1, <3>1 DEF Batch, PageMap
  <2>3. SameBatch(batch', batch)
    BY <1>2, <1>3, <2>1, StageSame
  <2>4. batch'.start = batch.start
    BY <2>3 DEF SameBatch
  <2>5. Titled(Extent)'
    <3>1. count > 0 /\ Header(count) # Absent
      BY <1>3 DEF Header, Absent
    <3> QED
      BY <1>1, <2>2, <3>1 DEF Titled, Extent
  <2>6. OwnExtent'
    <3>1. Stages'
      BY DEF Recoverable
    <3>2. pc' \in Committings
      BY <2>1 DEF Committings
    <3>3. Own' /\ ~(pc' \notin Committings)
      BY <3>1, <3>2 DEF Stages
    <3> QED
      BY <3>1, <3>3 DEF Stages
  <2> DEFINE e == batch.start
             n == OwnRecords'
  <2>7. n \in Nat /\ Len(wal') = e + n + 1
    <3>1. n \in Nat
      BY <2>3, StagedCount DEF SameBatch, Batch, OwnRecords, BodyLength
    <3> QED
      BY <2>1, <2>4, <2>6, <3>1 DEF OwnExtent
  <2>8. wal'[e + 1].kind = "redo" /\ Titled(wal'[e + 1])
    <3>1. wal'[e + 1] = RedoBlock(Extent, batch.lsn, seq + 1)'
      BY <2>4, <2>6 DEF OwnExtent
    <3> QED
      BY <2>5, <3>1 DEF RedoBlock, Titled
  <2>9. \A i \in e + 2 .. e + n + 1 : wal'[i].kind = "body"
    <3>1. \A i \in e + 2 .. e + n + 1 : wal'[i] = Body
      BY <2>4, <2>6 DEF OwnExtent
    <3> QED
      BY <3>1 DEF Body
  <2>10. SamePrefix(wal, wal', e)
    <3> DEFINE ext == [pages |-> batch'.pages, count |-> count]
    <3>1. wal' = wal \o Journal(ext, batch.lsn, seq + 1)
      BY <1>5 DEF CommitAppend
    <3>2. ext \in ExtentType
      BY <1>3, <2>3 DEF ExtentType, SameBatch, Batch
    <3> HIDE DEF ext
    <3>3. seq + 1 \in Nat /\ batch.lsn \in Nat /\ wal \in Seq(Block)
      BY <1>2 DEF IInv, TypeOK, DiskOK, MemoryOK, Batch
    <3>4. Journal(ext, batch.lsn, seq + 1) \in Seq(Block)
      BY <3>2, <3>3, JournalType
    <3>5. \A i \in 1 .. Len(wal) : wal'[i] = wal[i]
      BY <3>1, <3>3, <3>4
    <3> QED
      BY <1>2, <3>5 DEF SamePrefix
  <2> HIDE DEF e, n
  <2>11. \A i \in e + 1 .. Len(wal') : wal'[i].kind # "redo" \/ Titled(wal'[i])
    <3>1. e \in Nat
      BY <1>2 DEF e
    <3> QED
      BY <2>7, <2>8, <2>9, <3>1
  <2>12. e \in Nat /\ Len(wal) = e /\ Len(wal') \in Nat
    BY <1>2, <2>7 DEF e
  <2> QED
    BY <2>10, <2>11, <2>12, TitledLonger
<1> QED
  BY <1>4, <1>5

LEMMA RollbackTitled ==
  ASSUME IInv, IInv', Recoverable, TitledJournal, Rollback
  PROVE  TitledJournal'
<1>1. pc = "idle" /\ batch # None
  BY DEF Rollback, InBatch
<1> DEFINE e == batch.start
           before == JournalBefore(batch)
<1>2. /\ batch \in Batch /\ e \in Nat /\ e <= Len(wal) /\ wal \in Seq(Block) /\ Len(wal) \in Nat
  BY <1>1, BatchIsOwn DEF IInv, TypeOK, DiskOK
<1>3. before \in Seq(Block) /\ Len(before) = e /\ \A i \in 1 .. e : before[i] = wal[i]
  BY <1>2 DEF JournalBefore, Smaller
<1>4. \/ wal' = before
      \/ wal' = before \o <<AbortBlock(batch.lsn), Mark(0)>>
  BY DEF Rollback
<1>5. AbortBlock(batch.lsn) \in Block /\ Mark(0) \in Block
  BY <1>2, FixedBlocks DEF Batch
<1> HIDE DEF e, before
<1>6. CASE wal' = before
  BY <1>2, <1>3, <1>6, TitledLonger DEF SamePrefix
<1>7. CASE wal' = before \o <<AbortBlock(batch.lsn), Mark(0)>>
  <2>1. /\ Len(wal') = e + 2 /\ \A i \in 1 .. e : wal'[i] = wal[i]
        /\ wal'[e + 1] = AbortBlock(batch.lsn) /\ wal'[e + 2] = Mark(0)
    BY <1>3, <1>5, <1>7, TwoAppended
  <2>2. \A i \in e + 1 .. Len(wal') : wal'[i].kind # "redo"
    BY <1>2, <2>1 DEF AbortBlock, Mark
  <2>3. SamePrefix(wal, wal', e) /\ Len(wal') \in Nat
    BY <1>2, <2>1 DEF SamePrefix
  <2> QED
    BY <1>2, <2>2, <2>3, TitledLonger
<1> QED
  BY <1>4, <1>6, <1>7

LEMMA CutTitled ==
  ASSUME IInv, TitledJournal, CommitMark \/ CheckpointRecycle \/ RedoTruncate
  PROVE  TitledJournal'
<1>1. wal \in Seq(Block) /\ Len(wal) \in Nat /\ ck.cutoff \in Nat
  BY DEF IInv, TypeOK, DiskOK, MemoryOK, Record
<1>2. CASE CommitMark
  <2>1. wal' = Append(wal, Mark(seq + 1))
    BY <1>2 DEF CommitMark
  <2>2. /\ Len(wal') = Len(wal) + 1 /\ wal'[Len(wal) + 1] = Mark(seq + 1)
        /\ \A i \in 1 .. Len(wal) : wal'[i] = wal[i]
    BY <1>1, <2>1
  <2>3. Mark(seq + 1).kind # "redo"
    BY DEF Mark
  <2>4. SamePrefix(wal, wal', Len(wal)) /\ Len(wal') \in Nat /\ Len(wal) \in Nat
    BY <1>1, <2>2 DEF SamePrefix
  <2>5. \A i \in Len(wal) + 1 .. Len(wal') : wal'[i].kind # "redo"
    BY <2>2, <2>3, <2>4
  <2> QED
    BY <2>4, <2>5, TitledLonger
<1>3. CASE wal' = <<>>
  BY <1>3 DEF TitledJournal
<1>4. CASE wal' = SubSeq(wal, ck.cutoff + 1, Len(wal)) /\ ~(ck.cutoff >= Len(wal))
  <2>1. ck.cutoff + 1 \in 1 .. Len(wal) + 1 /\ Len(wal') = Len(wal) - ck.cutoff
    BY <1>1, <1>4
  <2>2. \A i \in 1 .. Len(wal') : i + ck.cutoff \in 1 .. Len(wal)
    BY <1>1, <2>1
  <2>3. \A i \in 1 .. Len(wal') : wal'[i] = wal[i + ck.cutoff]
    BY <1>1, <1>4, <2>1
  <2> QED
    BY <2>2, <2>3 DEF TitledJournal
<1> QED
  BY <1>2, <1>3, <1>4 DEF CheckpointRecycle, RedoTruncate

LEMMA CrashTitled ==
  ASSUME SoundSettings, IInv, Recoverable, TitledJournal, Crash
  PROVE  TitledJournal'
<1>1. PICK kind \in Crashes :
        \E n \in WalFloor(kind) .. Len(wal) :
          \/ wal' = SubSeq(wal, 1, n)
          \/ n < Len(wal) /\ wal' = Append(SubSeq(wal, 1, n), TornBlock)
  BY DEF Crash
<1>2. PICK n \in WalFloor(kind) .. Len(wal) :
        \/ wal' = SubSeq(wal, 1, n)
        \/ n < Len(wal) /\ wal' = Append(SubSeq(wal, 1, n), TornBlock)
  BY <1>1
<1>3. WalFloor(kind) \in Nat
  BY CrashFloor DEF Crash
<1>4. /\ n \in Nat /\ n <= Len(wal) /\ Len(wal') \in Nat /\ SamePrefix(wal, wal', n)
      /\ \A i \in n + 1 .. Len(wal') : wal'[i].kind = "torn"
  BY <1>2, <1>3, CrashLeaves
<1>5. Len(wal) \in Nat
  BY Bounds
<1> QED
  BY <1>4, <1>5, TitledLonger

LEMMA TitledJournalStep ==
  ASSUME SoundSettings, IInv, IInv', Recoverable, Recoverable', Allocated, TitledJournal, Next
  PROVE  TitledJournal'
<1>1. ASSUME wal' = wal PROVE TitledJournal'
  BY <1>1 DEF TitledJournal
<1>2. CASE Opening
  BY <1>1, <1>2, CutTitled DEF Opening, Create, Open, OpenRefused, SlotsRefused, Refuse, Recover,
     RecoverDoubleWrite, ClearRestored, RedoRefuse, RedoAbort, RedoExtent, RedoSync, RedoFinish,
     RedoCkpt, Rebuild, disk
<1>3. CASE Changing
  BY <1>1, <1>3, RollbackTitled DEF Changing, Begin, Write, AllocateReused, AllocateAppended,
     Release, TakeSavepoint, RestoreSavepoint, SyncAbort, BatchOnly, disk
<1>4. CASE Committing
  BY <1>1, <1>4, CommitAppendTitled, CutTitled DEF Committing, CommitEmpty, CommitPrepared,
     CommitPublish, GroupSync, ApplyStage, ApplyPages, ApplySync, ApplyClear, disk
<1>5. CASE Checkpointing \/ Close \/ Closing
  BY <1>1, <1>5, CutTitled DEF Checkpointing, Checkpoint, CheckpointFuzzy, RecycleSync,
     CheckpointRecycled, CheckpointWrite, Close, Closing, disk
<1>6. CASE Failing
  BY <1>1, <1>6, CrashTitled DEF Failing, FaultCommit, FaultFatal, FaultGroupSync, FaultApplyGroup,
     FaultCheckpoint, disk
<1> QED
  BY <1>2, <1>3, <1>4, <1>5, <1>6 DEF Next

\* A crash that finds no slot half written leaves the slots or none.
LEMMA CrashSlots ==
  ASSUME WholeWrites, IInv, Recoverable, Crash
  PROVE  dwb' \in {dwb, NoSlots}
<1>1. PICK kind \in {"process", "power"} : kind \in Crashes /\ dwb' \in SlotOutcomes(kind)
  BY PageFileAssumption DEF Crash
<1>2. pc # "down" /\ pc \in CrashPoints
  BY DEF Crash
<1>3. mode.dw \in BOOLEAN /\ mode.dw \in DoubleWriteModes
      /\ (pc \in {"stage", "restored"} => mode.dw)
  BY <1>2 DEF Recoverable, SlotsBacked, IInv, TypeOK, MemoryOK
<1>4. mode.dw => pc # "stage" /\ (kind = "power" => pc \notin {"clear", "restored"})
  BY <1>1, <1>2, <1>3 DEF WholeWrites
<1>5. CASE kind = "process"
  BY <1>1, <1>3, <1>4, <1>5 DEF SlotOutcomes
<1>6. CASE kind = "power"
  BY <1>1, <1>3, <1>4, <1>6 DEF SlotOutcomes
<1> QED
  BY <1>1, <1>5, <1>6

\* Slots hold whole page images of an extent.
LEMMA SlotsStep ==
  ASSUME WholeWrites, IInv, Recoverable, TitledExtents(queue), HeadedSlots, ~BadSlots,
         ~SlotsRefused, Next
  PROVE  HeadedSlots' /\ ~BadSlots'
<1>1. CASE ApplyPages /\ mode.dw
  <2>1. queue # <<>> /\ queue \in Seq(ExtentType) /\ dwb' = SlotPages(queue[1].pages)
    BY <1>1 DEF ApplyPages, IInv, TypeOK, ProgressOK, Applying
  <2> DEFINE pages == queue[1].pages
  <2>2. pages[0] # Absent
    BY <2>1, TitledTail DEF Titled
  <2>3. dwb' = SlotPages(pages)
    BY <2>1
  <2> HIDE DEF pages
  <2>4. \A s \in Slots :
          \/ dwb'[s] = dwb[s]
          \/ \E p \in PageId : dwb'[s] = [id |-> p, image |-> pages[p], whole |-> TRUE]
    <3> TAKE s \in Slots
    <3> DEFINE mine == {p \in Staged(pages) :
                          Cardinality({q \in Staged(pages) : q < p}) = s - 1}
               chosen == CHOOSE p \in mine : TRUE
    <3>1. dwb'[s] = IF mine = {} THEN dwb[s]
                    ELSE [id |-> chosen, image |-> pages[chosen], whole |-> TRUE]
      BY <2>3 DEF SlotPages
    <3>2. mine # {} => chosen \in mine
      OBVIOUS
    <3>3. mine \subseteq PageId
      BY DEF Staged
    <3> HIDE DEF mine, chosen
    <3> QED
      BY <3>1, <3>2, <3>3
  <2>5. ASSUME NEW s \in Slots, dwb'[s] # None
        PROVE  dwb'[s].whole /\ (dwb'[s].id = 0 => dwb'[s].image # Absent)
    <3>1. CASE dwb'[s] = dwb[s]
      BY <2>5, <3>1 DEF HeadedSlots, BadSlots
    <3>2. CASE \E p \in PageId : dwb'[s] = [id |-> p, image |-> pages[p], whole |-> TRUE]
      <4>1. PICK p \in PageId : dwb'[s] = [id |-> p, image |-> pages[p], whole |-> TRUE]
        BY <3>2
      <4>2. dwb'[s].id = p /\ dwb'[s].image = pages[p] /\ dwb'[s].whole
        BY <4>1
      <4> QED
        BY <2>2, <4>2
    <3> QED
      BY <2>4, <3>1, <3>2
  <2> QED
    BY <2>5 DEF HeadedSlots, BadSlots
<1>2. ASSUME ~(ApplyPages /\ mode.dw)
      PROVE  dwb' \in {dwb, NoSlots}
  <2>1. CASE Opening
    BY <2>1 DEF Opening, Create, Open, OpenRefused, Refuse, Recover, RecoverDoubleWrite,
       ClearRestored, RedoRefuse, RedoAbort, RedoExtent, RedoSync, RedoFinish, RedoCkpt,
       RedoTruncate, Rebuild, disk
  <2>2. CASE Changing
    BY <2>2 DEF Changing, Begin, Write, AllocateReused, AllocateAppended, Release, TakeSavepoint,
       RestoreSavepoint, Rollback, SyncAbort, BatchOnly, disk
  <2>3. CASE Committing
    BY <1>2, <2>3 DEF Committing, CommitEmpty, CommitAppend, CommitPrepared, CommitMark,
       CommitPublish, GroupSync, ApplyStage, ApplyPages, ApplySync, ApplyClear, disk
  <2>4. CASE Checkpointing \/ Close \/ Closing
    BY <2>4 DEF Checkpointing, Checkpoint, CheckpointFuzzy, CheckpointRecycle, RecycleSync,
       CheckpointRecycled, CheckpointWrite, Close, Closing, disk
  <2>5. CASE Failing
    BY <2>5, CrashSlots DEF Failing, FaultCommit, FaultFatal, FaultGroupSync, FaultApplyGroup,
       FaultCheckpoint, WholeWrites
  <2> QED
    BY <2>1, <2>2, <2>3, <2>4, <2>5 DEF Next
<1>3. CASE dwb' \in {dwb, NoSlots}
  BY <1>3 DEF HeadedSlots, BadSlots, NoSlots
<1> QED
  BY <1>1, <1>2, <1>3

LEMMA OverlayHeader ==
  ASSUME NEW file, NEW pages, file[0] # Absent, pages[0] # Absent, NEW n \in Nat, n > 0
  PROVE  Overlay(file, pages)[0] # Absent /\ Resize(file, n)[0] # Absent
BY PageIds DEF Overlay, Resize

\* The header page is written, overwritten or restored, never cut off.
LEMMA HeaderStep ==
  ASSUME WholeWrites, IInv, IInv', Recoverable, Allocated, Openable, Next
  PROVE  HasHeader'
<1>1. Headed /\ 0 \in PageId
  BY PageIds DEF Openable
<1>2. CASE Create
  <2>1. main' = [main EXCEPT ![0] = Header(1)] /\ mainSynced' = main' /\ main \in File
    BY <1>2 DEF Create, IInv, TypeOK, DiskOK
  <2>2. main'[0] = Header(1)
    BY <1>1, <2>1 DEF File
  <2> QED
    BY <2>1, <2>2 DEF HasHeader, Header, Absent
<1>3. CASE Crash
  <2>1. PICK kind \in Crashes : main' \in FileOutcomes(kind)
    BY <1>3 DEF Crash
  <2>2. main'[0] \in PageOutcomes(kind, 0) /\ mainSynced' = main' /\ pc # "down"
    BY <1>1, <1>3, <2>1 DEF Crash, FileOutcomes
  <2>3. main'[0] \in {main[0], mainSynced[0], Torn}
    BY <2>2 DEF PageOutcomes
  <2> QED
    BY <1>1, <2>2, <2>3 DEF Headed, HasHeader, Torn, Absent
<1>4. CASE Open
  <2>1. /\ pc = "down" /\ main[0] # Absent /\ mainSynced' = mainSynced
        /\ main' = main \/ main' = Overlay(main, SlotImages)
    BY <1>4 DEF Open
  <2>2. SlotImages[0] # Absent
    <3> DEFINE holders == {s \in Copied : dwb[s].id = 0}
               last == CHOOSE s \in holders : \A t \in holders : t <= s
    <3>1. SlotImages[0] = IF holders = {} THEN None ELSE dwb[last].image
      BY <1>1 DEF SlotImages
    <3>2. None # Absent
      BY FixedContents, NoneAssumption
    <3>3. holders # {} => last \in holders
      <4>1. holders \in SUBSET Int /\ IsFiniteSet(holders)
        <5>1. Slots \in SUBSET Int /\ IsFiniteSet(Slots) /\ holders \subseteq Slots
          BY PageFileAssumption, FS_Interval DEF Slots, Copied
        <5> HIDE DEF holders
        <5> QED
          BY <5>1, FS_Subset
      <4> HIDE DEF holders
      <4>2. holders # {} => \E s \in holders : \A t \in holders : t <= s
        BY <4>1, MaxExists
      <4> QED
        BY <4>2
    <3>4. \A s \in holders : s \in Slots /\ dwb[s] # None /\ dwb[s].whole /\ dwb[s].id = 0
      BY DEF Copied, Openable, BadSlots
    <3> HIDE DEF holders, last
    <3> QED
      BY <1>1, <3>1, <3>2, <3>3, <3>4 DEF Headed, HeadedSlots
  <2>3. main'[0] # Absent /\ mainSynced[0] # Absent
    <3>1. main'[0] # Absent
      BY <2>1, <2>2, OverlayHeader
    <3>2. mainSynced[0] # Absent
      <4>1. main = mainSynced
        BY <2>1 DEF IInv, Control, WholeWrites
      <4> QED
        BY <2>1, <4>1
    <3> QED
      BY <3>1, <3>2
  <2> QED
    BY <2>1, <2>3 DEF HasHeader
<1>5. ASSUME ~Create, ~Crash, ~Open
      PROVE  pc # "down" /\ main[0] # Absent /\ mainSynced[0] # Absent
  <2>1. ~OpenRefused /\ ~SlotsRefused
    BY NothingRefused
  <2>2. pc # "down"
    <3>1. CASE Opening
      BY <1>5, <2>1, <3>1 DEF Opening, Recover, RecoverDoubleWrite, ClearRestored, RedoRefuse,
         RedoAbort, RedoExtent, RedoSync, RedoFinish, RedoCkpt, RedoTruncate, Rebuild
    <3>2. CASE Changing
      BY <3>2 DEF Changing, Begin, Idle, Write, AllocateReused, AllocateAppended, Release,
         TakeSavepoint, RestoreSavepoint, Working, Rollback, InBatch, SyncAbort
    <3>3. CASE Committing
      BY <3>3 DEF Committing, CommitEmpty, CommitAppend, Working, InBatch, CommitPrepared,
         CommitMark, CommitPublish, GroupSync, ApplyStage, ApplyPages, ApplySync, ApplyClear
    <3>4. CASE Checkpointing \/ Close \/ Closing
      BY <3>4 DEF Checkpointing, Checkpoint, Idle, CheckpointFuzzy, CheckpointRecycle, RecycleSync,
         CheckpointRecycled, CheckpointWrite, Close, Working, InBatch, Closing
    <3>5. CASE Failing
      BY <1>5, <3>5 DEF Failing, FaultCommit, FaultFatal, FaultGroupSync, FaultApplyGroup,
         FaultCheckpoint
    <3> QED
      BY <3>1, <3>2, <3>3, <3>4, <3>5 DEF Next
  <2> QED
    BY <1>1, <2>2 DEF Headed, HasHeader
<1>6. CASE RedoExtent \/ RedoSync
  <2>1. pc \in {"redo", "redoSync"} /\ NextExtent.kind = "redo" /\ off \in Nat /\ off < JournalEnd
    <3>1. CASE RedoExtent
      <4>1. pc = "redo" /\ Kind(1) = "redo" /\ off < JournalEnd
        BY <3>1, ScanStops DEF RedoExtent
      <4> QED
        BY <4>1, ScanFinds
    <3>2. CASE RedoSync
      BY <3>2 DEF RedoSync, Recoverable, Replays, IInv, TypeOK, ProgressOK
    <3> QED
      BY <1>6, <3>1, <3>2
  <2>2. off + 1 \in 1 .. Len(wal)
    BY <2>1, Bounds
  <2>3. Titled(NextExtent)
    BY <1>1, <2>1, <2>2 DEF Headed, TitledJournal, NextExtent
  <2>4. NextExtent.count \in Nat
    BY <2>1, <2>2 DEF IInv, TypeOK, DiskOK, Block, NextExtent
  <2>5. main[0] # Absent /\ mainSynced[0] # Absent
    BY <1>1, <2>1 DEF Headed, HasHeader
  <2>6. /\ main' \in {Overlay(main, NextExtent.pages), Resize(main, NextExtent.count)}
        /\ mainSynced' \in {mainSynced, main'}
    BY <1>6 DEF RedoExtent, RedoSync
  <2>7. main'[0] # Absent
    BY <2>3, <2>4, <2>5, <2>6, OverlayHeader DEF Titled
  <2> QED
    BY <2>5, <2>6, <2>7 DEF HasHeader
<1>7. CASE ApplyPages \/ ApplySync
  <2>1. pc \in {"apply", "stage", "applySync"} /\ queue # <<>> /\ queue \in Seq(ExtentType)
    BY <1>7 DEF ApplyPages, ApplySync, IInv, TypeOK, ProgressOK, Applying
  <2>2. Titled(queue[1])
    BY <1>1, <2>1, TitledTail DEF Headed
  <2>3. queue[1].count \in Nat
    <3>1. queue[1] \in ExtentType
      BY <2>1
    <3> QED
      BY <3>1 DEF ExtentType
  <2>4. main[0] # Absent /\ mainSynced[0] # Absent
    BY <1>1, <2>1 DEF Headed, HasHeader
  <2>5. /\ main' \in {Overlay(main, queue[1].pages), Resize(main, queue[1].count)}
        /\ mainSynced' \in {mainSynced, main'}
    BY <1>7 DEF ApplyPages, ApplySync
  <2>6. main'[0] # Absent
    BY <2>2, <2>3, <2>4, <2>5, OverlayHeader DEF Titled
  <2> QED
    BY <2>4, <2>5, <2>6 DEF HasHeader
<1>8. ASSUME ~Create, ~Crash, ~Open, ~RedoExtent, ~RedoSync, ~ApplyPages, ~ApplySync
      PROVE  main' = main /\ mainSynced' \in {main, mainSynced}
  <2>1. CASE Opening
    BY <1>8, <2>1, NothingRefused DEF Opening, OpenRefused, Refuse, Recover, RecoverDoubleWrite,
       ClearRestored, RedoRefuse, RedoAbort, RedoFinish, RedoCkpt, RedoTruncate, Rebuild, disk
  <2>2. CASE Changing
    BY <2>2 DEF Changing, Begin, Write, AllocateReused, AllocateAppended, Release, TakeSavepoint,
       RestoreSavepoint, Rollback, SyncAbort, BatchOnly, disk
  <2>3. CASE Committing
    BY <1>8, <2>3 DEF Committing, CommitEmpty, CommitAppend, CommitPrepared, CommitMark,
       CommitPublish, GroupSync, ApplyStage, ApplyClear, disk
  <2>4. CASE Checkpointing \/ Close \/ Closing
    BY <2>4 DEF Checkpointing, Checkpoint, CheckpointFuzzy, CheckpointRecycle, RecycleSync,
       CheckpointRecycled, CheckpointWrite, Close, Closing, disk
  <2>5. CASE Failing
    BY <1>8, <2>5 DEF Failing, FaultCommit, FaultFatal, FaultGroupSync, FaultApplyGroup,
       FaultCheckpoint, disk
  <2> QED
    BY <2>1, <2>2, <2>3, <2>4, <2>5 DEF Next
<1>9. ASSUME ~Create, ~Crash, ~Open, ~RedoExtent, ~RedoSync, ~ApplyPages, ~ApplySync
      PROVE  HasHeader'
  BY <1>5, <1>8, <1>9 DEF HasHeader
<1> QED
  BY <1>2, <1>3, <1>4, <1>6, <1>7, <1>9

-----------------------------------------------------------------------------
(* What a crash leaves can be read.                                         *)

\* A running page file whose journal is fsynced, or closed.
LEMMA ReadableRunning ==
  ASSUME ckpt'.state = "torn" => pc' \in {"redoCkpt", "ckptWrite"}, ck'.state # "torn", Running',
         \/ mode'.group \/ pc' \in {"appended", "marked", "aborting", "recycle"}
         \/ walSynced' = Len(wal'),
         Own' /\ pc' = "idle" => Len(wal') = batch'.start
  PROVE  Readable'
BY DEF Readable, Running

LEMMA ChangingReadable ==
  ASSUME WholeWrites, IInv, IInv', Recoverable, Readable,
         Changing \/ CommitEmpty \/ CommitAppend
  PROVE  Readable'
<1>1. CASE SyncAbort
  <2>1. /\ ckpt' = ckpt /\ ck' = ck /\ pc = "aborting" /\ pc' = "idle" /\ walSynced' = Len(wal')
        /\ batch' = batch
    BY <1>1 DEF SyncAbort, lsns
  <2>2. batch = None
    BY <2>1 DEF Recoverable, Stages
  <2> QED
    BY <2>1, <2>2 DEF Readable, Running, Reopening, Own
<1>2. CASE Begin
  <2>1. /\ ckpt' = ckpt /\ ck' = ck /\ pc = "idle" /\ pc' = "idle" /\ wal' = wal
        /\ walSynced' = walSynced /\ mode' = mode /\ batch'.start = Len(wal)
    BY <1>2 DEF Begin, Idle, lsns
  <2> QED
    BY <2>1 DEF Readable, Running, Reopening
<1>3. CASE CommitEmpty
  <2>1. /\ ckpt' = ckpt /\ ck' = ck /\ pc = "idle" /\ pc' = "idle" /\ wal' = wal
        /\ walSynced' = walSynced /\ mode' = mode /\ batch' = None
    BY <1>3 DEF CommitEmpty, Working, InBatch, disk, lsns
  <2> QED
    BY <2>1 DEF Readable, Running, Reopening, Own
<1>4. CASE Rollback
  <2>1. /\ ckpt' = ckpt /\ ck' = ck /\ pc = "idle" /\ pc' \in {"idle", "aborting"}
        /\ mode' = mode /\ batch' = None /\ batch # None
    BY <1>4 DEF Rollback, InBatch
  <2>2. CASE pc' = "aborting"
    BY <2>1, <2>2 DEF Readable, Running, Reopening, Own
  <2>3. CASE pc' # "aborting"
    <3>1. wal' = JournalBefore(batch) /\ walSynced' = Smaller(walSynced, Len(JournalBefore(batch)))
      BY <1>4, <2>3 DEF Rollback
    <3>2. /\ Own /\ batch.start \in Nat /\ Len(wal) \in Nat /\ batch.start <= Len(wal)
          /\ wal \in Seq(Block)
      BY <2>1, BatchIsOwn, Bounds
    <3>3. Len(wal) = batch.start
      BY <2>1, <3>2 DEF Readable
    <3>4. wal' = wal
      BY <3>1, <3>2, <3>3 DEF JournalBefore, Smaller
    <3>5. walSynced = Len(wal) => walSynced' = Len(wal')
      BY <3>1, <3>2, <3>4 DEF Smaller
    <3> QED
      BY <2>1, <2>3, <3>5 DEF Readable, Running, Reopening, Own
  <2> QED
    BY <2>2, <2>3
<1>5. CASE CommitAppend
  <2>1. /\ ckpt' = ckpt /\ ck' = ck /\ pc = "idle" /\ mode' = mode /\ walSynced' = walSynced
        /\ batch # None
        /\ pc' = "appended" \/ (pc' = pc /\ wal' = wal /\ batch' = [batch EXCEPT !.doomed = TRUE])
    BY <1>5 DEF CommitAppend, Working, InBatch, lsns
  <2>2. Own /\ batch \in Batch
    BY <2>1, BatchIsOwn
  <2>3. [batch EXCEPT !.doomed = TRUE].start = batch.start
    BY <2>2, StageSame DEF SameBatch
  <2> QED
    BY <2>1, <2>2, <2>3 DEF Readable, Running, Reopening
<1>6. CASE Write \/ AllocateReused \/ AllocateAppended \/ Release \/ TakeSavepoint
           \/ RestoreSavepoint
  <2>1. /\ ckpt' = ckpt /\ ck' = ck /\ pc = "idle" /\ pc' = "idle" /\ wal' = wal
        /\ walSynced' = walSynced /\ mode' = mode /\ batch # None
    BY <1>6 DEF Write, AllocateReused, AllocateAppended, Release, TakeSavepoint, RestoreSavepoint,
       Working, InBatch, BatchOnly, disk, lsns
  <2>2. Own /\ batch'.start = batch.start
    <3>1. Own
      BY <2>1, BatchIsOwn
    <3>2. CASE TakeSavepoint
      BY <3>1, <3>2 DEF TakeSavepoint
    <3> QED
      BY <1>6, <3>1, <3>2, ChangingRestaged DEF Restaged, SameBatch
  <2> QED
    BY <2>1, <2>2 DEF Readable, Running, Reopening
<1> QED
  BY <1>1, <1>2, <1>3, <1>4, <1>5, <1>6 DEF Changing

LEMMA CommittingReadable ==
  ASSUME WholeWrites, IInv, Recoverable, Readable,
         \/ CommitPrepared \/ CommitMark \/ CommitPublish \/ GroupSync
         \/ ApplyStage \/ ApplyPages \/ ApplySync \/ ApplyClear \/ Checkpoint \/ Close
  PROVE  Readable'
<1>1. /\ ckpt' = ckpt /\ ck' = ck /\ mode' = mode
      /\ pc \in {"idle", "groupSync"} \cup Committings \cup Applying
  BY DEF CommitPrepared, CommitMark, CommitPublish, GroupSync, ApplyStage, ApplyPages, ApplySync,
     ApplyClear, Checkpoint, Close, Idle, Working, InBatch, disk, lsns, Committings, Applying
<1>2. ckpt.state # "torn" /\ ck.state # "torn"
  BY <1>1 DEF Readable, Committings, Applying
<1>3. CASE CommitPrepared \/ CommitMark
  BY <1>1, <1>2, <1>3 DEF CommitPrepared, CommitMark, Readable, Running, Reopening
<1>4. CASE CommitPublish
  <2>1. /\ pc' \in {"idle", "groupSync", "apply"} /\ wal' = wal
        /\ mode.group \/ walSynced' = Len(wal)
        /\ batch' = None \/ batch' = [batch EXCEPT !.published = TRUE]
    BY <1>4 DEF CommitPublish, SyncGroup, PublishedLength
  <2>2. batch \in Batch
    BY <1>4 DEF CommitPublish, IInv, TypeOK, ProgressOK, Committings
  <2>3. ~Own'
    BY <2>1, <2>2 DEF Own, Batch
  <2> QED
    BY <1>1, <1>2, <2>1, <2>3 DEF Readable, Running, Reopening
<1>5. CASE GroupSync \/ ApplyStage \/ ApplyPages \/ ApplySync
  BY <1>1, <1>2, <1>5
  DEF GroupSync, ApplyStage, ApplyPages, ApplySync, disk, Readable, Running, Reopening
<1>6. CASE ApplyClear
  <2>1. /\ pc = "clear" /\ wal' = wal /\ walSynced' = walSynced
        /\ pc' = "apply" \/ (pc' = cont /\ batch' = None)
    BY <1>6 DEF ApplyClear
  <2>2. cont \in {"idle", "fuzzy", "full", "close"}
    BY DEF IInv, TypeOK, ProgressOK
  <2> QED
    BY <1>1, <1>2, <2>1, <2>2 DEF Readable, Running, Reopening, Own
<1>7. CASE Checkpoint \/ Close
  <2>1. /\ pc = "idle" /\ pc' \in {"groupSync", "fuzzy", "full", "close"}
        /\ wal' = wal /\ walSynced' = walSynced
    BY <1>7 DEF Checkpoint, Close, Idle, Working, InBatch, SyncGroup, disk
  <2> QED
    BY <1>1, <1>2, <2>1 DEF Readable, Running, Reopening
<1> QED
  BY <1>3, <1>4, <1>5, <1>6, <1>7

LEMMA CheckpointingReadable ==
  ASSUME IInv, Readable,
         \/ CheckpointFuzzy \/ CheckpointRecycle \/ RecycleSync \/ CheckpointRecycled
         \/ CheckpointWrite
  PROVE  Readable'
<1>1. /\ pc \in {"fuzzy", "full", "recycle", "recycled", "ckptWrite"}
      /\ pc' \in {"ckptWrite", "recycle", "recycled", "idle"} /\ mode' = mode /\ batch' = batch
  BY DEF CheckpointFuzzy, CheckpointRecycle, RecycleSync, CheckpointRecycled, CheckpointWrite
<1>2. batch = None
  BY <1>1 DEF IInv, Control, Truncating
<1>3. ~Own' /\ Running'
  BY <1>1, <1>2 DEF Own, Running, Reopening
<1>4. CASE CheckpointFuzzy
  BY <1>3, <1>4 DEF CheckpointFuzzy, Readable
<1>5. CASE CheckpointRecycle
  <2>1. /\ pc = "full" /\ ckpt' = ckpt /\ ck'.state = "ok"
        /\ pc' = "recycle" \/ (wal' = <<>> /\ walSynced' = 0)
    BY <1>5 DEF CheckpointRecycle
  <2> QED
    BY <1>3, <2>1 DEF Readable
<1>6. CASE RecycleSync \/ CheckpointRecycled \/ CheckpointWrite
  BY <1>3, <1>6 DEF RecycleSync, CheckpointRecycled, CheckpointWrite, Readable, lsns
<1> QED
  BY <1>4, <1>5, <1>6

\* The scan, the recovery of an open, and its end.
LEMMA OpeningReadable ==
  ASSUME IInv, Recoverable, Allocated, Openable, Opening
  PROVE  Readable'
<1>1. Readable /\ ~OpenRefused /\ ~SlotsRefused /\ ~RedoRefuse /\ (pc = "rebuild" => Consistent(main))
  BY NothingRefused DEF Openable
<1>2. batch = None /\ batch' = None /\ ~Own' /\ ~Running
  <2>1. pc \in Reopening \cup {"down"}
    BY <1>1 DEF Opening, Create, Open, Recover, RecoverDoubleWrite, ClearRestored, RedoAbort,
       RedoExtent, RedoSync, RedoFinish, RedoCkpt, RedoTruncate, Rebuild, Reopening
  <2>2. batch = None
    BY <2>1 DEF IInv, Control
  <2>3. batch' = batch
    BY <1>1 DEF Opening, Create, Open, Recover, RecoverDoubleWrite, ClearRestored, RedoAbort,
       RedoExtent, RedoSync, RedoFinish, RedoCkpt, RedoTruncate, Rebuild
  <2> QED
    BY <2>1, <2>2, <2>3 DEF Own, Running
<1>3. Len(wal) = LastMark(wal) \/ Unmarked(wal, LastMark(wal))
  BY <1>1, <1>2 DEF Readable
<1>4. CASE Create \/ Open
  <2>1. /\ pc = "down" /\ ckpt' = ckpt /\ ck' = ckpt /\ ckpt.state # "torn" /\ wal' = wal
        /\ walSynced' = walSynced /\ pc' # "down"
    BY <1>4 DEF Create, Open, Scan
  <2> QED
    BY <1>1, <1>2, <1>3, <2>1 DEF Readable
<1>5. CASE RecoverDoubleWrite \/ ClearRestored \/ RedoAbort \/ RedoExtent \/ RedoSync \/ Rebuild
  <2>1. /\ pc \in {"doubleWrite", "restored", "redo", "redoSync", "rebuild"}
        /\ ckpt' = ckpt /\ ck' = ck
        /\ wal' = wal /\ walSynced' = walSynced /\ mode' = mode
        /\ pc' \in {"restored", "redo", "redoSync", "rebuild", "idle"}
    BY <1>1, <1>5 DEF RecoverDoubleWrite, ClearRestored, RedoAbort, RedoExtent, RedoSync,
       Rebuild, Scan, disk, lsns
  <2> QED
    BY <1>1, <1>2, <1>3, <2>1 DEF Readable
<1>6. CASE RedoFinish
  <2> DEFINE record == [ck EXCEPT !.lsn = Larger(ck.lsn, nextLsn' - 1)]
  <2>1. /\ pc = "redo" /\ wal' = wal /\ walSynced' = walSynced /\ mode' = mode
        /\ \/ /\ ck' = [record EXCEPT !.state = "ok", !.cutoff = 0, !.seq = seq']
              /\ pc' = "redoCkpt"
           \/ ck' = record /\ pc' = "redoTruncate" /\ ckpt' = ckpt
    BY <1>6 DEF RedoFinish
  <2>2. ck \in Record
    BY DEF IInv, TypeOK, MemoryOK
  <2>3. ck'.state \in {"ok", ck.state}
    BY <2>1, <2>2 DEF Record
  <2>4. ck'.state # "torn"
    BY <1>1, <2>3 DEF Readable
  <2> HIDE DEF record
  <2> QED
    BY <1>1, <1>2, <1>3, <2>1, <2>4 DEF Readable
<1>7. CASE RedoCkpt
  BY <1>1, <1>2, <1>3, <1>7 DEF RedoCkpt, Readable, lsns
<1>8. CASE RedoTruncate
  <2>1. /\ pc = "redoTruncate" /\ ckpt' = ckpt /\ ck' = ck /\ wal' = <<>> /\ walSynced' = 0
        /\ pc' = "rebuild"
    BY <1>8 DEF RedoTruncate, lsns
  <2>2. LastMark(wal') = 0 /\ Len(wal') = 0
    BY <2>1, EmptyJournal
  <2> QED
    BY <1>1, <1>2, <2>1, <2>2 DEF Readable
<1> QED
  BY <1>1, <1>4, <1>5, <1>6, <1>7, <1>8 DEF Opening, Recover

\* What a running page file leaves behind it is whole, but for a marker.
LEMMA RunningTail ==
  ASSUME IInv, Recoverable, Readable, Running, pc \notin {"appended", "marked"}
  PROVE  Len(wal) = LastMark(wal) \/ Unmarked(wal, LastMark(wal))
<1>1. wal \in Seq(Block) /\ Len(wal) \in Nat /\ JournalEnd \in Nat /\ JournalEnd <= Len(wal)
      /\ Parsed(wal, JournalEnd)
  BY Bounds DEF Recoverable, Layout
<1>2. CASE JournalEnd = Len(wal)
  BY <1>1, <1>2, LastMarkWhole
<1>3. CASE JournalEnd # Len(wal)
  <2>1. Own /\ JournalEnd = batch.start
    BY <1>3, WholeJournal DEF JournalEnd
  <2>2. OwnExtent /\ pc = "prepared"
    <3>1. OwnExtent
      BY <1>3, <2>1 DEF Recoverable, Stages
    <3> QED
      BY <1>3, <2>1, <3>1 DEF OwnExtent, Readable, Committings
  <2> DEFINE e == batch.start
  <2>3. /\ e \in Nat /\ OwnRecords \in Nat /\ Len(wal) = e + OwnRecords + 1
        /\ wal[e + 1] = RedoBlock(Extent, batch.lsn, seq + 1)
        /\ \A i \in e + 2 .. e + OwnRecords + 1 : wal[i] = Body
    <3>1. batch \in Batch
      BY <2>1 DEF Own, IInv, TypeOK, MemoryOK
    <3>2. e \in Nat /\ OwnRecords \in Nat
      BY <3>1, StagedCount DEF Batch, OwnRecords, BodyLength
    <3> QED
      BY <2>2, <3>2 DEF OwnExtent
  <2>4. wal[e + 1].kind = "redo" /\ BodyLength(wal[e + 1].pages) = OwnRecords
    BY <2>3 DEF RedoBlock, Extent, OwnRecords
  <2> HIDE DEF e
  <2>5. \A i \in e + 2 .. Len(wal) : wal[i].kind = "body"
    BY <2>3 DEF Body
  <2>6. Unmarked(wal, e)
    BY <2>3, <2>4, <2>5 DEF Unmarked
  <2>7. NoMarks(wal, e)
    <3>1. \A i \in e + 1 .. Len(wal) : i = e + 1 \/ i \in e + 2 .. Len(wal)
      BY <2>3
    <3> QED
      BY <2>4, <2>5, <3>1 DEF NoMarks
  <2>8. Boundary(wal, e) /\ e \in 0 .. Len(wal)
    BY <1>1, <2>1, <2>3 DEF Parsed, e
  <2> QED
    BY <1>1, <2>6, <2>7, <2>8, LastMarkUnique
<1> QED
  BY <1>2, <1>3

LEMMA ClosingReadable ==
  ASSUME WholeWrites, IInv, Recoverable, Readable, Closing
  PROVE  Readable'
<1>1. /\ pc \in {"close", "broken"} /\ pc' = "down" /\ ck' = NoCkpt /\ batch' = None /\ ckpt' = ckpt
      /\ wal' = wal /\ walSynced' = walSynced
  BY DEF Closing, Closed, disk
<1>2. pc = "close"
  BY <1>1 DEF Recoverable, Stages, WholeWrites
<1>3. walSynced = Len(wal)
  BY <1>2 DEF Recoverable, Stages, OwnExtent, Own, Committings, Applying
<1>4. Len(wal) = LastMark(wal) \/ Unmarked(wal, LastMark(wal))
  BY <1>2, RunningTail DEF Running, Reopening
<1> QED
  BY <1>1, <1>2, <1>3, <1>4 DEF Readable, NoCkpt, Own

LEMMA CrashReadable ==
  ASSUME SoundSettings, WholeWrites, IInv, IInv', Recoverable, Readable, Crash
  PROVE  Readable'
<1>1. /\ pc # "down" /\ pc \in CrashPoints /\ pc' = "down" /\ ck' = NoCkpt /\ batch' = None
      /\ ckpt' = ckpt /\ walSynced' = Len(wal')
  BY DEF Crash, Closed
<1>2. pc \notin {"appended", "marked", "aborting", "redoCkpt", "ckptWrite", "recycle"}
  BY <1>1, CrashFloor DEF WholeWrites
<1>3. PICK kind \in Crashes :
        \E n \in WalFloor(kind) .. Len(wal) :
          \/ wal' = SubSeq(wal, 1, n)
          \/ n < Len(wal) /\ wal' = Append(SubSeq(wal, 1, n), TornBlock)
  BY DEF Crash
<1>4. WalFloor(kind) = Len(wal)
  <2>1. CASE kind = "power"
    <3>1. ~mode.group
      BY <1>1, <2>1 DEF WholeWrites, Recoverable, SlotsBacked, IInv, TypeOK, MemoryOK
    <3> QED
      BY <1>2, <2>1, <3>1 DEF Readable, WalFloor
  <2>2. CASE kind # "power"
    BY <1>2, <2>2 DEF WalFloor
  <2> QED
    BY <2>1, <2>2
<1>5. wal \in Seq(Block) /\ Len(wal) \in Nat
  BY DEF IInv, TypeOK, DiskOK
<1>6. wal' = wal
  <2>1. SubSeq(wal, 1, Len(wal)) = wal
    BY <1>5
  <2> QED
    BY <1>3, <1>4, <1>5, <2>1
<1>7. Len(wal) = LastMark(wal) \/ Unmarked(wal, LastMark(wal))
  BY <1>2, RunningTail DEF Readable
<1>8. ckpt.state # "torn"
  BY <1>2 DEF Readable
<1> QED
  BY <1>1, <1>6, <1>7, <1>8 DEF Readable, NoCkpt, Own

\* Openable is inductive relative to Durability.
LEMMA OpenableStep ==
  ASSUME SoundSettings, WholeWrites, IInv, IInv', Recoverable, Recoverable', Allocated, Openable,
         Next
  PROVE  Openable'
<1>1. Headed /\ Readable /\ ~refused /\ ~BadSlots /\ ~SlotsRefused
  BY NothingRefused DEF Openable
<1>2. Headed' /\ ~BadSlots'
  BY <1>1, TitledJournalStep, TitledQueues, SlotsStep, HeaderStep DEF Headed
<1>3. Readable'
  <2>1. ~FaultCommit /\ ~FaultFatal /\ ~FaultGroupSync /\ ~FaultApplyGroup /\ ~FaultCheckpoint
    BY DEF FaultCommit, FaultFatal, FaultGroupSync, FaultApplyGroup, FaultCheckpoint, WholeWrites
  <2> QED
    BY <1>1, <2>1, OpeningReadable, ChangingReadable, CommittingReadable, CheckpointingReadable,
       ClosingReadable, CrashReadable
    DEF Next, Committing, Checkpointing, Failing
<1>4. ~refused'
  <2>1. ~OpenRefused /\ ~SlotsRefused /\ ~RedoRefuse /\ (pc = "rebuild" => Consistent(main))
    BY NothingRefused
  <2>2. CASE Opening
    BY <1>1, <2>1, <2>2 DEF Opening, Create, Open, Recover, RecoverDoubleWrite, ClearRestored,
       RedoAbort, RedoExtent, RedoSync, RedoFinish, RedoCkpt, RedoTruncate, Rebuild
  <2>3. CASE Changing
    BY <1>1, <2>3 DEF Changing, Begin, Write, AllocateReused, AllocateAppended, Release,
       TakeSavepoint, RestoreSavepoint, Rollback, SyncAbort, BatchOnly
  <2>4. CASE Committing
    BY <1>1, <2>4 DEF Committing, CommitEmpty, CommitAppend, CommitPrepared, CommitMark,
       CommitPublish, GroupSync, ApplyStage, ApplyPages, ApplySync, ApplyClear
  <2>5. CASE Checkpointing \/ Close \/ Closing
    BY <1>1, <2>5 DEF Checkpointing, Checkpoint, CheckpointFuzzy, CheckpointRecycle, RecycleSync,
       CheckpointRecycled, CheckpointWrite, Close, Closing
  <2>6. CASE Failing
    BY <1>1, <2>6 DEF Failing, FaultCommit, FaultFatal, FaultGroupSync, FaultApplyGroup,
       FaultCheckpoint, Crash
  <2> QED
    BY <2>2, <2>3, <2>4, <2>5, <2>6 DEF Next
<1> QED
  BY <1>2, <1>3, <1>4 DEF Openable

LEMMA OpenableInit ==
  ASSUME Init
  PROVE  Openable
<1>1. /\ main = EmptyFile /\ wal = <<>> /\ walSynced = 0 /\ ckpt = NoCkpt /\ ck = NoCkpt
      /\ dwb = NoSlots /\ pc = "down" /\ batch = None /\ pending = <<>> /\ queue = <<>> /\ ~refused
  BY DEF Init
<1>2. Headed
  BY <1>1 DEF Headed, HasHeader, TitledJournal, TitledExtents, HeadedSlots, NoSlots
<1>3. LastMark(wal) = 0 /\ Len(wal) = 0
  BY <1>1, EmptyJournal
<1> QED
  BY <1>1, <1>2, <1>3 DEF Openable, Readable, BadSlots, NoSlots, NoCkpt, Own

\* Under sound settings, where no crash finds an extent, an abort extent, a
\* checkpoint record or a slot of the double-write buffer half written, and no
\* power loss falls into a group that is not fsynced, the constructor never throws:
\* the record and the slots can be read, recovery finds whole extents and at most
\* one without its marker, and what it makes of them is a file with a header that
\* counts its pages (the constructor, recoverDoubleWrite, recoverJournal).
THEOREM NoOpenRefused == ASSUME SoundSettings, WholeWrites PROVE Spec => []NeverRefused
<1>1. Init => Openable
  BY OpenableInit
<1>2. Durability /\ Durability' /\ Openable /\ [Next]_vars => Openable'
  <2> SUFFICES ASSUME Durability, Durability', Openable, [Next]_vars PROVE Openable'
    OBVIOUS
  <2>1. CASE Next
    BY <2>1, OpenableStep DEF Durability
  <2>2. CASE UNCHANGED vars
    <3>1. /\ main' = main /\ mainSynced' = mainSynced /\ pc' = pc /\ wal' = wal
          /\ walSynced' = walSynced /\ ckpt' = ckpt /\ ck' = ck /\ dwb' = dwb /\ mode' = mode
          /\ batch' = batch /\ pending' = pending /\ queue' = queue /\ refused' = refused
      BY <2>2 DEF vars, disk, lsns
    <3>2. Headed' /\ ~BadSlots'
      BY <3>1
      DEF Openable, Headed, HasHeader, TitledJournal, TitledExtents, HeadedSlots, BadSlots
    <3>3. Readable'
      BY <3>1 DEF Openable, Readable, Running, Own
    <3> QED
      BY <3>1, <3>2, <3>3 DEF Openable
  <2> QED
    BY <2>1, <2>2
<1>3. Openable => NeverRefused
  BY DEF Openable, NeverRefused
<1> QED
  BY <1>1, <1>2, <1>3, DurabilityInvariant, PTL DEF Spec
=============================================================================
