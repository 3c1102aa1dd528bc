------------------------- MODULE PageFileRefinement -------------------------
(***************************************************************************)
(* The page file implements DurableStore, and its handlers come to an end. *)
(***************************************************************************)
EXTENDS PageFile

OwnBatch == batch # None /\ ~batch.published

\* a commit marker may be in the journal although nobody was told
Deciding ==
  /\ OwnBatch
  /\ \/ pc \in Committings
     \/ Len(wal) > batch.start  \* its commit failed half way

Phase ==
  IF pc \in {"down", "broken"} \cup Reopening THEN "down"
  ELSE IF Deciding THEN "deciding"
  ELSE IF OwnBatch THEN "batch"
  ELSE "idle"

\* Database::mu_ keeps every reader out while an operation is in progress
View ==
  IF Phase = "down" THEN EmptyFile
  ELSE IF pc = "idle" THEN [p \in PageId |-> ReadRaw(p)]
  ELSE Promised

Store == INSTANCE DurableStore WITH
  Page <- PageId, Image <- Content, Blank <- Absent,
  store <- Committed, view <- View, phase <- Phase

\* Every step of the page file is a step of the store it promises, or none:
\* the two fsyncs of a commit, the pages written one by one, the recovery scan
\* and the checkpoint are invisible to whoever reads.
ImplementsStore == Store!Spec

-----------------------------------------------------------------------------
\* A handler that has begun goes on: it runs on its caller's thread under
\* Database::mu_, the constructor on the thread that opens the file.
Handler ==
  \/ Recover \/ SyncAbort \/ CommitPrepared \/ CommitMark \/ CommitPublish
  \/ GroupSync \/ ApplyStage \/ ApplyPages \/ ApplySync \/ ApplyClear \/ CheckpointFuzzy
  \/ CheckpointRecycle \/ RecycleSync \/ CheckpointRecycled \/ CheckpointWrite
  \/ Closing

FairSpec == Spec /\ WF_vars(Handler)

\* Every handler returns: recovery reaches the end of the journal, a group and a
\* checkpoint run to completion, whatever the journal holds.
HandlersReturn == []<>(pc \in {"down", "idle"})
=============================================================================
