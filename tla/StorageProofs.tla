---------------------------- MODULE StorageProofs ---------------------------
(***************************************************************************)
(* The pool gives back what was written, and keeps the pages its callers   *)
(* hold, for every number of pages, frames, guards and failures and under  *)
(* every replacement policy; and what the proofs about the heap say of the *)
(* instance beside it.                                                     *)
(*                                                                         *)
(* The argument: a clean frame agrees with the file, a dirty one with the  *)
(* callers, and the snapshots agree with what the callers had written when *)
(* they were taken; so a frame can go once it is written back, and a       *)
(* rollback may drop every frame.  And until a write-back fails the ring   *)
(* of CLOCK has every frame, whatever stale entries it has besides, so a   *)
(* search that finds none meets pinned frames only.                        *)
(***************************************************************************)
EXTENDS MCPages, FiniteSetTheorems, SequenceTheorems, TLAPS

-----------------------------------------------------------------------------
(* The inductive invariant *)

Table(f, t) == f \in [Pages -> Page] /\ t \in [Pages -> Values]
Types ==
    /\ Table(file, truth)
    /\ base # None => Table(base.file, base.truth)
    /\ mark # None => Table(mark.file, mark.truth)
    /\ Resident \subseteq Pages
    /\ \A p \in Resident : frames[p] \in Frame
    /\ want \in Pages \cup {None}

\* A clean frame shows what the file has.
CleanAgree == \A p \in Resident : ~frames[p].dirty => frames[p].val = file[p].val

\* A table that shows what its callers wrote.
Agree(f, t) == \A p \in Pages : f[p].val = t[p]
SnapshotsAgree ==
    /\ base # None => Agree(base.file, base.truth)
    /\ mark # None => Agree(mark.file, mark.truth)

\* The page a call waits for is not in the pool yet.
StillMissing == pc # "idle" => want \notin Resident

IInv == Types /\ PoolKeepsWrites /\ CleanAgree /\ SnapshotsAgree /\ StillMissing

-----------------------------------------------------------------------------
(* Frames that come, go and are written *)

\* A frame that goes leaves the others as they are.
LEMMA ExceptFrames ==
    ASSUME NEW f, NEW p
    PROVE  /\ DOMAIN Except(f, p) = DOMAIN f \ {p}
           /\ \A q \in DOMAIN f \ {p} : Except(f, p)[q] = f[q]
  BY DEF Except

\* Pages written back are in the file as they are in their frames.
LEMMA StoredPages ==
    ASSUME IInv, NEW S, S \subseteq Resident
    PROVE  /\ Table(Stored(S), truth)
           /\ \A p \in Pages : /\ Stored(S)[p].live = file[p].live /\ Stored(S)[p].gen = file[p].gen
                               /\ Stored(S)[p].val = IF p \in S THEN frames[p].val ELSE file[p].val
  BY DEF IInv, Types, Table, Stored, Page, Frame

LEMMA CleanedFrames ==
    ASSUME IInv, NEW S, S \subseteq Resident
    PROVE  /\ DOMAIN Cleaned(S) = Resident
           /\ \A p \in Resident :
                 /\ Cleaned(S)[p] \in Frame
                 /\ Cleaned(S)[p].val = frames[p].val /\ Cleaned(S)[p].gen = frames[p].gen
                 /\ Cleaned(S)[p].pins = frames[p].pins
                 /\ ~Cleaned(S)[p].dirty => p \in S \/ ~frames[p].dirty
  <1> SUFFICES ASSUME NEW p \in Resident
               PROVE  /\ Cleaned(S)[p] \in Frame
                      /\ Cleaned(S)[p].val = frames[p].val /\ Cleaned(S)[p].gen = frames[p].gen
                      /\ Cleaned(S)[p].pins = frames[p].pins
                      /\ ~Cleaned(S)[p].dirty => p \in S \/ ~frames[p].dirty
    BY DEF Cleaned, Resident
  <1>1. frames[p] \in Frame
    BY DEF IInv, Types
  <1>2. Cleaned(S)[p] = IF p \in S THEN [frames[p] EXCEPT !.dirty = FALSE] ELSE frames[p]
    BY DEF Cleaned
  <1> QED BY <1>1, <1>2 DEF Frame

\* Once every dirty frame is written the file shows what the callers wrote.
LEMMA AllStored ==
    ASSUME IInv
    PROVE  Table(Stored(Dirty), truth) /\ Agree(Stored(Dirty), truth)
  <1>1. Dirty \subseteq Resident
    BY DEF Dirty
  <1>2. ASSUME NEW p \in Pages PROVE Stored(Dirty)[p].val = truth[p]
    <2>1. Stored(Dirty)[p].val = IF p \in Dirty THEN frames[p].val ELSE file[p].val
      BY <1>1, StoredPages
    <2>2. Held(p) = truth[p]
      BY DEF IInv, PoolKeepsWrites
    <2> QED BY <2>1, <2>2 DEF IInv, CleanAgree, Held, Dirty
  <1> QED BY <1>1, <1>2, StoredPages DEF Agree

\* Writing some frames back, cleaning them, changes nothing a caller sees.
LEMMA WrittenBack ==
    ASSUME IInv, NEW S, S \subseteq Resident, file' = Stored(S), frames' = Cleaned(S),
           UNCHANGED <<truth, pc, want>>
    PROVE  /\ Table(file, truth)' /\ (Resident \subseteq Pages)'
           /\ (\A p \in Resident : frames[p] \in Frame)' /\ (want \in Pages \cup {None})'
           /\ PoolKeepsWrites' /\ CleanAgree' /\ StillMissing'
  <1>0. \A p \in Resident :
           /\ frames'[p] \in Frame
           /\ frames'[p].val = frames[p].val /\ frames'[p].gen = frames[p].gen
           /\ ~frames'[p].dirty => p \in S \/ ~frames[p].dirty
    <2>1. \A p \in Resident :
             /\ Cleaned(S)[p] \in Frame
             /\ Cleaned(S)[p].val = frames[p].val /\ Cleaned(S)[p].gen = frames[p].gen
             /\ ~Cleaned(S)[p].dirty => p \in S \/ ~frames[p].dirty
      BY CleanedFrames
    <2> QED BY <2>1
  <1>1. Resident' = Resident /\ Resident \subseteq Pages
    BY CleanedFrames DEF Resident, IInv, Types
  <1>2. ASSUME NEW p \in Pages
        PROVE  /\ Held(p)' = truth'[p]
               /\ p \in Resident' => file'[p].live /\ frames'[p].gen = file'[p].gen
    <2>1. /\ Held(p) = truth[p]
          /\ p \in Resident => file[p].live /\ frames[p].gen = file[p].gen
      BY DEF IInv, PoolKeepsWrites
    <2>2. /\ file'[p].live = file[p].live /\ file'[p].gen = file[p].gen
          /\ file'[p].val = IF p \in S THEN frames[p].val ELSE file[p].val
      BY StoredPages
    <2>3. p \in Resident => frames'[p].val = frames[p].val /\ frames'[p].gen = frames[p].gen
      BY <1>0
    <2> QED BY <1>1, <2>1, <2>2, <2>3 DEF Held
  <1>3. ASSUME NEW p \in Resident'
        PROVE  ~frames'[p].dirty => frames'[p].val = file'[p].val
    <2>1. file'[p].val = IF p \in S THEN frames[p].val ELSE file[p].val
      BY <1>1, StoredPages
    <2>2. /\ frames'[p].val = frames[p].val
          /\ ~frames'[p].dirty => p \in S \/ ~frames[p].dirty
      BY <1>0, <1>1
    <2> QED BY <1>1, <2>1, <2>2 DEF IInv, CleanAgree
  <1>4. Table(file', truth') /\ \A p \in Resident : frames'[p] \in Frame
    BY <1>0, StoredPages
  <1>5. PoolKeepsWrites' /\ CleanAgree'
    BY <1>2, <1>3 DEF PoolKeepsWrites, CleanAgree
  <1> QED BY <1>1, <1>4, <1>5 DEF IInv, Types, StillMissing, Table

\* Dropping every frame leaves what the file shows.
LEMMA Dropped ==
    ASSUME IInv, frames' = NoFrames, Table(file', truth'), Agree(file', truth'), UNCHANGED <<pc, want>>
    PROVE  /\ (Resident \subseteq Pages)' /\ (\A p \in Resident : frames[p] \in Frame)'
           /\ (want \in Pages \cup {None})' /\ PoolKeepsWrites' /\ CleanAgree' /\ StillMissing'
  <1>1. Resident' = {}
    BY DEF Resident, NoFrames
  <1>2. PoolKeepsWrites'
    BY <1>1 DEF PoolKeepsWrites, Held, Agree
  <1> QED BY <1>1, <1>2 DEF CleanAgree, StillMissing, IInv, Types

-----------------------------------------------------------------------------
(* One lemma for each kind of step *)

\* A step that touches neither the frames nor the file.
LEMMA Untouched ==
    ASSUME IInv, UNCHANGED <<fileVars, frames>>, want' \in Pages \cup {None},
           pc' # "idle" => want' \notin Resident
    PROVE  IInv'
  BY DEF fileVars, IInv, Types, Table, Resident, PoolKeepsWrites, Held, CleanAgree,
         SnapshotsAgree, Agree, StillMissing

\* A step that pins, unpins or marks frames.
LEMMA Alike ==
    ASSUME IInv, UNCHANGED <<fileVars, pc, want>>, DOMAIN frames' = Resident,
           \A p \in Resident : /\ frames'[p] \in Frame
                               /\ frames'[p].val = frames[p].val /\ frames'[p].gen = frames[p].gen
                               /\ frames'[p].dirty = frames[p].dirty
    PROVE  IInv'
  <1>1. Resident' = Resident
    BY DEF Resident
  <1>2. PoolKeepsWrites' /\ CleanAgree'
    BY <1>1 DEF fileVars, IInv, PoolKeepsWrites, Held, CleanAgree
  <1> QED BY <1>1, <1>2 DEF fileVars, IInv, Types, Table, SnapshotsAgree, Agree, StillMissing

LEMMA EvictStep ==
    ASSUME IInv, pc = "sweep", NEW p \in Unpinned, Evict(p)
    PROVE  IInv'
  <1>1. p \in Resident /\ p \in Pages /\ Resident' = Resident \ {p}
    BY ExceptFrames DEF Unpinned, Evict, Resident, IInv, Types
  <1>2. \A q \in Resident' : frames'[q] = frames[q]
    BY <1>1, ExceptFrames DEF Evict, Resident
  <1>3. /\ Table(file', truth')
        /\ \A q \in Pages : /\ file'[q].live = file[q].live /\ file'[q].gen = file[q].gen
                            /\ file'[q].val = IF q = p THEN frames[p].val ELSE file[q].val
    <2>1. CASE frames[p].dirty
      <3>1. file' = Stored({p}) /\ truth' = truth
        BY <2>1 DEF Evict
      <3> QED BY <1>1, <3>1, StoredPages
    <2>2. CASE ~frames[p].dirty
      BY <1>1, <2>2 DEF Evict, IInv, Types, CleanAgree
    <2> QED BY <2>1, <2>2
  <1>4. PoolKeepsWrites'
    BY <1>1, <1>2, <1>3 DEF Evict, IInv, PoolKeepsWrites, Held
  <1>5. CleanAgree' /\ StillMissing'
    <2>1. StillMissing'
      BY <1>1 DEF StillMissing, IInv, Evict
    <2> QED BY <1>1, <1>2, <1>3, <2>1 DEF IInv, CleanAgree, Types
  <1> QED BY <1>1, <1>2, <1>3, <1>4, <1>5 DEF Evict, IInv, Types, SnapshotsAgree, Agree

LEMMA LoadStep ==
    ASSUME IInv, Load
    PROVE  IInv'
  <1>1. want \in Pages /\ want \notin Resident
    BY DEF Load, IInv, Types, StillMissing
  <1> DEFINE new == [gen |-> file[want].gen, val |-> file[want].val, dirty |-> FALSE,
                     pins |-> 1, referenced |-> TRUE]
  <1>2. new \in Frame
    BY <1>1 DEF IInv, Types, Table, Page, Frame
  <1>3. /\ Resident' = Resident \cup {want} /\ frames'[want] = new
        /\ \A q \in Resident : frames'[q] = frames[q]
    <2>1. frames' = With(frames, want, new)
      BY DEF Load
    <2>2. /\ DOMAIN With(frames, want, new) = DOMAIN frames \cup {want}
          /\ With(frames, want, new)[want] = new
          /\ \A q \in DOMAIN frames \ {want} : With(frames, want, new)[q] = frames[q]
      <3> HIDE DEF new
      <3> QED BY DEF With
    <2> HIDE DEF new
    <2> QED BY <1>1, <2>1, <2>2 DEF Resident
  <1>p. new.val = file[want].val /\ new.gen = file[want].gen
    OBVIOUS
  <1>4. PoolKeepsWrites' /\ CleanAgree'
    <2> HIDE DEF new
    <2>1. UNCHANGED <<file, truth>> /\ file[want].live
      BY DEF Load, fileVars
    <2>2. ASSUME NEW q \in Pages
          PROVE  /\ Held(q)' = truth'[q]
                 /\ q \in Resident' => file'[q].live /\ frames'[q].gen = file'[q].gen
      <3>1. /\ Held(q) = truth[q]
            /\ q \in Resident => file[q].live /\ frames[q].gen = file[q].gen
        BY DEF IInv, PoolKeepsWrites
      <3> QED BY <1>1, <1>3, <1>p, <2>1, <3>1 DEF Held
    <2>3. CleanAgree'
      BY <1>1, <1>3, <1>p, <2>1 DEF IInv, CleanAgree
    <2> QED BY <2>2, <2>3 DEF PoolKeepsWrites
  <1> QED BY <1>1, <1>2, <1>3, <1>4
          DEF Load, fileVars, IInv, Types, Table, SnapshotsAgree, Agree, StillMissing

LEMMA AllocateStep ==
    ASSUME IInv, NEW p \in Pages, Allocate(p)
    PROVE  IInv'
  <1>1. p \notin Resident /\ Resident' = Resident
    BY DEF Allocate, IInv, PoolKeepsWrites, Resident
  <1>2. /\ Table(file', truth')
        /\ file'[p].val = Blank /\ truth'[p] = Blank
        /\ \A q \in Pages \ {p} : file'[q] = file[q] /\ truth'[q] = truth[q]
    BY PoolAssumption DEF Allocate, IInv, Types, Table, Page
  <1>3. PoolKeepsWrites' /\ CleanAgree'
    BY <1>1, <1>2 DEF Allocate, IInv, Types, PoolKeepsWrites, Held, CleanAgree
  <1> QED BY <1>1, <1>2, <1>3 DEF Allocate, IInv, Types, SnapshotsAgree, Agree, StillMissing

LEMMA EditStep ==
    ASSUME IInv, NEW p \in Pages, NEW v \in Values, Edit(p, v)
    PROVE  IInv'
  <1>1. p \in Resident /\ Resident' = Resident
    BY DEF Edit, Resident
  <1>2. /\ frames'[p].val = v /\ frames'[p].dirty /\ frames'[p].gen = frames[p].gen
        /\ \A q \in Resident : frames'[q] \in Frame
        /\ \A q \in Resident \ {p} : frames'[q] = frames[q]
    BY <1>1 DEF Edit, IInv, Types, Frame, Resident
  <1>3. /\ Table(file', truth') /\ truth'[p] = v
        /\ \A q \in Pages \ {p} : truth'[q] = truth[q]
    BY DEF Edit, IInv, Types, Table
  <1>4. file' = file /\ Resident' = Resident
    BY <1>1 DEF Edit
  <1>5. PoolKeepsWrites'
    BY <1>1, <1>2, <1>3, <1>4 DEF IInv, PoolKeepsWrites, Held
  <1>6. CleanAgree'
    BY <1>1, <1>2, <1>4 DEF IInv, CleanAgree
  <1> QED BY <1>1, <1>2, <1>3, <1>5, <1>6 DEF Edit, IInv, Types, SnapshotsAgree, Agree, StillMissing

LEMMA ReleaseStep ==
    ASSUME IInv, NEW p \in Pages, Release(p)
    PROVE  IInv'
  <1>1. Resident' = Resident \ {p} /\ \A q \in Resident' : frames'[q] = frames[q]
    BY ExceptFrames DEF Release, Resident
  <1>2. /\ Table(file', truth')
        /\ file'[p].val = Blank /\ truth'[p] = Blank
        /\ \A q \in Pages \ {p} : file'[q] = file[q] /\ truth'[q] = truth[q]
    BY PoolAssumption DEF Release, IInv, Types, Table, Page
  <1>3. PoolKeepsWrites' /\ CleanAgree'
    <2>1. ASSUME NEW q \in Pages
          PROVE  /\ Held(q)' = truth'[q]
                 /\ q \in Resident' => file'[q].live /\ frames'[q].gen = file'[q].gen
      BY <1>1, <1>2 DEF IInv, PoolKeepsWrites, Held
    <2>2. CleanAgree'
      BY <1>1, <1>2 DEF IInv, Types, CleanAgree
    <2> QED BY <2>1, <2>2 DEF PoolKeepsWrites
  <1> QED BY <1>1, <1>2, <1>3 DEF Release, IInv, Types, SnapshotsAgree, Agree, StillMissing

\* Steps that write frames back: the snapshots they leave agree.
LEMMA FlushStep ==
    ASSUME IInv, NEW S, S \subseteq Resident, file' = Stored(S), frames' = Cleaned(S),
           UNCHANGED <<truth, pc, want>>,
           base' # None => Table(base'.file, base'.truth) /\ Agree(base'.file, base'.truth),
           mark' # None => Table(mark'.file, mark'.truth) /\ Agree(mark'.file, mark'.truth)
    PROVE  IInv'
  BY WrittenBack DEF IInv, Types, SnapshotsAgree, Table, Agree

LEMMA BatchStep ==
    ASSUME IInv, BeginWriteBatch \/ CommitWriteBatch \/ TakeSavepoint \/ FlushAllFails
    PROVE  IInv'
  <1>0. /\ base # None => Table(base.file, base.truth) /\ Agree(base.file, base.truth)
        /\ mark # None => Table(mark.file, mark.truth) /\ Agree(mark.file, mark.truth)
    BY DEF IInv, Types, SnapshotsAgree
  <1>d. Dirty \subseteq Resident
    BY DEF Dirty
  <1>1. CASE BeginWriteBatch
    <2>1. /\ file' = Stored(Dirty) /\ frames' = Cleaned(Dirty) /\ UNCHANGED <<truth, pc, want, mark>>
          /\ base'.file = Stored(Dirty) /\ base'.truth = truth
      BY <1>1 DEF BeginWriteBatch, FlushAll
    <2>2. Table(base'.file, base'.truth) /\ Agree(base'.file, base'.truth)
      BY <2>1, AllStored
    <2>3. mark' # None => Table(mark'.file, mark'.truth) /\ Agree(mark'.file, mark'.truth)
      BY <1>0, <2>1
    <2> QED BY <1>d, <2>1, <2>2, <2>3, FlushStep
  <1>2. CASE CommitWriteBatch
    <2>1. /\ file' = Stored(Dirty) /\ frames' = Cleaned(Dirty) /\ UNCHANGED <<truth, pc, want>>
          /\ base' = None /\ mark' = None
      BY <1>2 DEF CommitWriteBatch, FlushAll
    <2> QED BY <1>d, <2>1, FlushStep
  <1>3. CASE TakeSavepoint
    <2>1. /\ UNCHANGED <<file, base, truth, frames, pc, want>>
          /\ mark'.file = file /\ mark'.truth = truth /\ Dirty = {}
      BY <1>3 DEF TakeSavepoint
    <2>2. Table(file, truth) /\ Agree(file, truth)
      BY <2>1 DEF IInv, Types, PoolKeepsWrites, Held, CleanAgree, Agree, Dirty
    <2>3. PoolKeepsWrites' /\ CleanAgree' /\ StillMissing'
      BY <2>1 DEF IInv, PoolKeepsWrites, Held, CleanAgree, StillMissing, Resident
    <2> QED BY <2>1, <2>2, <2>3 DEF IInv, Types, SnapshotsAgree, Resident
  <1>4. CASE FlushAllFails
    <2>1. PICK S \in SUBSET Dirty : file' = Stored(S) /\ frames' = Cleaned(S)
      BY <1>4 DEF FlushAllFails
    <2>2. UNCHANGED <<truth, pc, want, base, mark>>
      BY <1>4 DEF FlushAllFails
    <2> QED BY <1>0, <1>d, <2>1, <2>2, FlushStep
  <1> QED BY <1>1, <1>2, <1>3, <1>4

LEMMA DropStep ==
    ASSUME IInv, RollbackWriteBatch \/ RestoreSavepoint \/ \E new \in Policies : SetPolicy(new)
    PROVE  IInv'
  <1>0. /\ base # None => Table(base.file, base.truth) /\ Agree(base.file, base.truth)
        /\ mark # None => Table(mark.file, mark.truth) /\ Agree(mark.file, mark.truth)
    BY DEF IInv, Types, SnapshotsAgree
  <1>1. /\ frames' = NoFrames /\ UNCHANGED <<pc, want>>
        /\ Table(file', truth') /\ Agree(file', truth')
        /\ base' \in {base, None} /\ mark' \in {mark, None}
    <2>1. CASE RollbackWriteBatch
      BY <1>0, <2>1 DEF RollbackWriteBatch, DropFrames
    <2>2. CASE RestoreSavepoint
      BY <1>0, <2>2 DEF RestoreSavepoint, DropFrames
    <2>3. CASE \E new \in Policies : SetPolicy(new)
      BY <2>3, AllStored DEF SetPolicy, DropFrames
    <2> QED BY <2>1, <2>2, <2>3
  <1>2. /\ (Resident \subseteq Pages)' /\ (\A p \in Resident : frames[p] \in Frame)'
        /\ (want \in Pages \cup {None})' /\ PoolKeepsWrites' /\ CleanAgree' /\ StillMissing'
    BY <1>1, Dropped
  <1>3. SnapshotsAgree' /\ Types'
    BY <1>0, <1>1, <1>2 DEF SnapshotsAgree, Types
  <1> QED BY <1>2, <1>3 DEF IInv

-----------------------------------------------------------------------------
(* Every step *)

LEMMA FrameStep ==
    ASSUME IInv, NEW p \in Pages, Hit(p) \/ Unpin(p)
    PROVE  IInv'
  <1>1. p \in Resident /\ frames[p] \in Frame
    BY DEF Hit, Unpin, IInv, Types
  <1>2. /\ UNCHANGED <<fileVars, pc, want>> /\ DOMAIN frames' = Resident
        /\ \A q \in Resident \ {p} : frames'[q] = frames[q]
    BY DEF Hit, Unpin, Resident
  <1>3. /\ frames'[p] \in Frame /\ frames'[p].val = frames[p].val
        /\ frames'[p].gen = frames[p].gen /\ frames'[p].dirty = frames[p].dirty
    <2>1. CASE Hit(p)
      <3>1. frames' = [frames EXCEPT ![p] = Pinned(@)]
        BY <2>1 DEF Hit
      <3>2. frames'[p] = Pinned(frames[p])
        BY <1>1, <3>1 DEF Resident
      <3> QED BY <1>1, <3>2 DEF Frame, Pinned
    <2>2. CASE Unpin(p)
      <3>1. /\ frames'[p] = [frames[p] EXCEPT !.pins = @ - 1]
            /\ frames[p].pins > 0
        BY <1>1, <2>2 DEF Unpin, Resident
      <3> QED BY <1>1, <3>1 DEF Frame
    <2> QED BY <2>1, <2>2
  <1>4. \A q \in Resident :
           /\ frames'[q] \in Frame /\ frames'[q].val = frames[q].val
           /\ frames'[q].gen = frames[q].gen /\ frames'[q].dirty = frames[q].dirty
    BY <1>2, <1>3 DEF IInv, Types
  <1> QED BY <1>2, <1>4, Alike

LEMMA SweepStep ==
    ASSUME IInv, Sweep
    PROVE  IInv'
  <1>0. want \in Pages \cup {None} /\ (pc # "idle" => want \notin Resident)
        /\ Resident \subseteq Pages /\ None \notin Pages
    BY PoolAssumption DEF IInv, Types, StillMissing
  <1>1. CASE SweepMissing \/ SweepPinned \/ SweepEmpty
    <2>1. UNCHANGED <<fileVars, frames>> /\ want' \in {want, None}
      BY <1>1 DEF SweepMissing, SweepPinned, SweepEmpty
    <2> QED BY <1>0, <1>1, <2>1, Untouched DEF SweepMissing, SweepPinned, SweepEmpty
  <1>2. CASE SweepSecondChance
    <2> DEFINE q == ring[Slot]
    <2>1. q \in Resident /\ frames[q] \in Frame
      BY <1>2 DEF SweepSecondChance, Unpinned, IInv, Types
    <2>2. /\ UNCHANGED <<fileVars, pc, want>>
          /\ frames' = [frames EXCEPT ![q].referenced = FALSE]
      BY <1>2 DEF SweepSecondChance
    <2> HIDE DEF q
    <2>3. /\ DOMAIN frames' = Resident /\ \A r \in Resident \ {q} : frames'[r] = frames[r]
          /\ frames'[q] = [frames[q] EXCEPT !.referenced = FALSE]
      BY <2>1, <2>2 DEF Resident
    <2>4. /\ frames'[q] \in Frame /\ frames'[q].val = frames[q].val
          /\ frames'[q].gen = frames[q].gen /\ frames'[q].dirty = frames[q].dirty
      BY <2>1, <2>3 DEF Frame
    <2>5. \A r \in Resident :
             /\ frames'[r] \in Frame /\ frames'[r].val = frames[r].val
             /\ frames'[r].gen = frames[r].gen /\ frames'[r].dirty = frames[r].dirty
      BY <2>3, <2>4 DEF IInv, Types
    <2> QED BY <2>2, <2>3, <2>5, Alike
  <1>3. CASE SweepEvict
    BY <1>3, EvictStep DEF SweepEvict
  <1> QED BY <1>1, <1>2, <1>3 DEF Sweep

LEMMA Step ==
    ASSUME IInv, [Next]_vars
    PROVE  IInv'
  <1>0. want \in Pages \cup {None} /\ (pc # "idle" => want \notin Resident)
        /\ Resident \subseteq Pages /\ None \notin Pages
    BY PoolAssumption DEF IInv, Types, StillMissing
  <1>1. ASSUME NEW p \in Pages, Hit(p) \/ Unpin(p)
        PROVE  IInv'
    BY <1>1, FrameStep
  <1>2. ASSUME NEW p \in Pages, EvictOldest(p)
        PROVE  IInv'
    <2>1. pc = "sweep" /\ p \in Unpinned /\ Evict(p)
      BY <1>2 DEF EvictOldest, IsVictim
    <2> QED BY <2>1, EvictStep
  <1>3. ASSUME NEW p \in Pages, NEW v \in Values, Edit(p, v)
        PROVE  IInv'
    BY <1>3, EditStep
  <1>4. ASSUME NEW p \in Pages, Allocate(p) \/ Release(p)
        PROVE  IInv'
    BY <1>4, AllocateStep, ReleaseStep
  <1>5. ASSUME NEW p \in Pages, Flush(p)
        PROVE  IInv'
    <2>1. {p} \subseteq Resident /\ file' = Stored({p}) /\ frames' = Cleaned({p})
      BY <1>5 DEF Flush, Unpinned
    <2>2. UNCHANGED <<truth, pc, want, base, mark>>
      BY <1>5 DEF Flush
    <2> QED BY <2>1, <2>2, FlushStep DEF IInv, Types, SnapshotsAgree
  <1>6. ASSUME NEW w \in Pages \cup {None}, Miss(w)
        PROVE  IInv'
    <2>1. UNCHANGED <<fileVars, frames>> /\ want' = w /\ w \notin Resident
      BY <1>0, <1>6 DEF Miss
    <2> QED BY <2>1, Untouched
  <1>7. CASE Exhausted \/ EvictFails \/ LoadFails
    <2>1. UNCHANGED <<fileVars, frames>> /\ want' = None
      BY <1>7 DEF Exhausted, EvictFails, LoadFails
    <2> QED BY <1>0, <2>1, Untouched
  <1>8. CASE AllocateFails \/ ResetStats \/ UNCHANGED vars
    <2>1. UNCHANGED <<fileVars, frames, want>> /\ (pc' = "idle" \/ pc' = pc)
      BY <1>8 DEF AllocateFails, ResetStats, vars
    <2> QED BY <1>0, <2>1, Untouched
  <1>9. CASE Sweep
    BY <1>9, SweepStep
  <1>10. CASE Load
    BY <1>10, LoadStep
  <1>11. CASE BeginWriteBatch \/ CommitWriteBatch \/ TakeSavepoint \/ FlushAllFails
    BY <1>11, BatchStep
  <1>12. CASE RollbackWriteBatch \/ RestoreSavepoint \/ \E new \in Policies : SetPolicy(new)
    BY <1>12, DropStep
  <1> QED BY <1>1, <1>2, <1>3, <1>4, <1>5, <1>6, <1>7, <1>8, <1>9, <1>10, <1>11, <1>12 DEF Next

\* The strengthened invariant holds in every reachable state.
THEOREM Invariant == Spec => []IInv
  <1>1. Init => IInv
    <2> SUFFICES ASSUME Init PROVE IInv
      OBVIOUS
    <2>1. Resident = {}
      BY DEF Init, Resident, NoFrames
    <2>2. Types
      BY <2>1, PoolAssumption DEF Init, Types, Table, Page
    <2> QED BY <2>1, <2>2
            DEF Init, IInv, PoolKeepsWrites, Held, CleanAgree, SnapshotsAgree, StillMissing
  <1> QED BY <1>1, Step, PTL DEF Spec

\* Whatever was evicted, written back, dropped or reloaded, a page holds what
\* its callers last wrote, or what a rollback gave back to them.
THEOREM PoolHolds == Spec => []PoolKeepsWrites
  <1>1. IInv => PoolKeepsWrites
    BY DEF IInv
  <1> QED BY <1>1, Invariant, PTL

-----------------------------------------------------------------------------
(* Guards *)

\* What a guard on a page may count on in one step.
Keeps == \A p \in Resident : frames[p].pins > 0 =>
             p \in DOMAIN frames' /\ frames'[p].gen = frames[p].gen

LEMMA EvictKeeps ==
    ASSUME NEW p \in Unpinned, Evict(p)
    PROVE  Keeps
  <1>1. frames[p].pins = 0
    BY DEF Unpinned
  <1>2. frames' = Except(frames, p)
    BY DEF Evict
  <1> QED BY <1>1, <1>2 DEF Except, Keeps, Resident

LEMMA UnpinnedKeeps ==
    ASSUME Unpinned = Resident
    PROVE  Keeps
  BY DEF Unpinned, Keeps

LEMMA GuardStep ==
    ASSUME IInv, [Next]_vars
    PROVE  Keeps
  <1>0. \A p \in Resident : frames[p] \in Frame
    BY DEF IInv, Types
  <1>1. ASSUME NEW p \in Pages, Hit(p) \/ Unpin(p) \/ \E v \in Values : Edit(p, v)
        PROVE  Keeps
    <2>1. DOMAIN frames' = Resident /\ \A q \in Resident \ {p} : frames'[q] = frames[q]
      BY <1>1 DEF Hit, Unpin, Edit, Resident
    <2>2. p \in Resident /\ frames'[p].gen = frames[p].gen
      <3>1. CASE Hit(p)
        BY <1>0, <3>1 DEF Hit, Pinned, Resident
      <3>2. CASE Unpin(p)
        BY <1>0, <3>2 DEF Unpin, Resident, Frame
      <3>3. CASE \E v \in Values : Edit(p, v)
        BY <1>0, <3>3 DEF Edit, Resident, Frame
      <3> QED BY <1>1, <3>1, <3>2, <3>3
    <2> QED BY <2>1, <2>2 DEF Keeps
  <1>2. ASSUME NEW p \in Pages, EvictOldest(p)
        PROVE  Keeps
    BY <1>2, EvictKeeps DEF EvictOldest, IsVictim
  <1>3. ASSUME NEW p \in Pages, Release(p)
        PROVE  Keeps
    <2>1. frames' = Except(frames, p) /\ (p \in Resident => frames[p].pins = 0)
      BY <1>3 DEF Release
    <2>2. \A q \in Resident : frames[q].pins > 0 => q # p
      BY <2>1
    <2> QED BY <2>1, <2>2 DEF Except, Keeps, Resident
  <1>4. ASSUME NEW p \in Pages, Flush(p)
        PROVE  Keeps
    BY <1>4, CleanedFrames DEF Flush, Unpinned, Keeps
  <1>5. CASE Load
    BY <1>5 DEF Load, With, Keeps, Resident, IInv, StillMissing
  <1>6. CASE Sweep
    <2>1. CASE SweepEvict
      BY <2>1, EvictKeeps DEF SweepEvict
    <2>2. CASE SweepSecondChance
      BY <1>0, <2>2 DEF SweepSecondChance, Unpinned, Keeps, Resident, Frame
    <2>3. CASE SweepMissing \/ SweepPinned \/ SweepEmpty
      BY <2>3 DEF SweepMissing, SweepPinned, SweepEmpty, Keeps, Resident
    <2> QED BY <1>6, <2>1, <2>2, <2>3 DEF Sweep
  <1>7. CASE \/ FlushAllFails \/ BeginWriteBatch \/ CommitWriteBatch \/ RollbackWriteBatch
             \/ RestoreSavepoint \/ \E new \in Policies : SetPolicy(new)
    <2>1. AllUnpinned
      BY <1>7 DEF FlushAllFails, BeginWriteBatch, CommitWriteBatch, FlushAll,
                  RollbackWriteBatch, RestoreSavepoint, SetPolicy
    <2> QED BY <2>1, UnpinnedKeeps DEF AllUnpinned
  <1>8. CASE Exhausted \/ EvictFails \/ LoadFails \/ AllocateFails \/ TakeSavepoint \/ ResetStats
             \/ UNCHANGED vars
    <2>1. frames' = frames
      BY <1>8 DEF Exhausted, EvictFails, LoadFails, AllocateFails, TakeSavepoint, ResetStats, vars
    <2> QED BY <2>1 DEF Keeps, Resident
  <1>9. ASSUME NEW w \in Pages \cup {None}, Miss(w)
         PROVE  Keeps
    BY <1>9 DEF Miss, Keeps, Resident
  <1>10. ASSUME NEW p \in Pages, Allocate(p)
         PROVE  Keeps
    BY <1>10 DEF Allocate, Keeps, Resident
  <1> QED BY <1>1, <1>2, <1>3, <1>4, <1>5, <1>6, <1>7, <1>8, <1>9, <1>10 DEF Next

\* No eviction, rollback, restored savepoint, release or change of policy takes
\* a page out of the pool while a guard holds it.
THEOREM GuardsHold == Spec => GuardKeepsFrame
  <1>1. IInv /\ [Next]_vars => [Keeps]_vars
    BY GuardStep
  <1> QED BY <1>1, Invariant, PTL DEF Spec, GuardKeepsFrame, Keeps

-----------------------------------------------------------------------------
(* Frames and the ring of CLOCK *)

\* A page is somewhere on the ring.
OnRing(p) == \E i \in 1 .. Len(ring) : ring[i] = p

\* The pool has no more frames than it was given, one less when there is room;
\* and as long as no write-back has failed CLOCK meets every frame on its ring.
Ringed ==
    /\ IsFiniteSet(Resident) /\ Cardinality(Resident) <= Capacity
    /\ pc = "room" => Cardinality(Resident) < Capacity
    /\ ring \in Seq(Pages) /\ hand \in Nat /\ faults \in Nat
    /\ policy = "CLOCK" /\ faults = 0 => \A p \in Resident : OnRing(p)

\* An entry that leaves the ring is the only one that leaves it.
LEMMA Removed ==
    ASSUME NEW S, NEW q \in Seq(S), NEW i \in 1 .. Len(q)
    PROVE  /\ RemoveAt(q, i) \in Seq(S)
           /\ \A k \in 1 .. Len(q) : q[k] # q[i] =>
                 \E j \in 1 .. Len(RemoveAt(q, i)) : RemoveAt(q, i)[j] = q[k]
  <1> DEFINE left == SubSeq(q, 1, i - 1)
             right == SubSeq(q, i + 1, Len(q))
  <1>1. Len(q) \in Nat /\ i \in Nat /\ i >= 1 /\ i <= Len(q)
    OBVIOUS
  <1>2. left \in Seq(S) /\ Len(left) = i - 1 /\ \A k \in 1 .. (i - 1) : left[k] = q[k]
    <2>1. \A k \in 1 .. (i - 1) : q[k] \in S
      BY <1>1
    <2> QED BY <1>1, <2>1, SubSeqProperties
  <1>3. right \in Seq(S) /\ Len(right) = Len(q) - i
        /\ \A k \in 1 .. (Len(q) - i) : right[k] = q[i + k]
    <2>1. \A k \in (i + 1) .. Len(q) : q[k] \in S
      BY <1>1
    <2>2. /\ right \in Seq(S)
          /\ Len(right) = IF i + 1 <= Len(q) THEN Len(q) - (i + 1) + 1 ELSE 0
          /\ \A k \in 1 .. (Len(q) - (i + 1) + 1) : right[k] = q[(i + 1) + k - 1]
      BY <1>1, <2>1, SubSeqProperties
    <2> HIDE DEF right
    <2>3. Len(right) = Len(q) - i
      BY <1>1, <2>2
    <2>4. ASSUME NEW k \in 1 .. (Len(q) - i) PROVE right[k] = q[i + k]
      <3>1. k \in 1 .. (Len(q) - (i + 1) + 1) /\ (i + 1) + k - 1 = i + k
        BY <1>1
      <3> QED BY <2>2, <3>1
    <2> QED BY <2>2, <2>3, <2>4
  <1>4. RemoveAt(q, i) = left \o right
    BY DEF RemoveAt
  <1> HIDE DEF left, right
  <1>5. /\ RemoveAt(q, i) \in Seq(S) /\ Len(RemoveAt(q, i)) = (i - 1) + (Len(q) - i)
        /\ \A k \in 1 .. (i - 1) : RemoveAt(q, i)[k] = left[k]
        /\ \A k \in 1 .. (Len(q) - i) : RemoveAt(q, i)[(i - 1) + k] = right[k]
    <2>1. left \o right \in Seq(S) /\ Len(left \o right) = Len(left) + Len(right)
      BY <1>2, <1>3, ConcatProperties
    <2>2. \A k \in 1 .. Len(left) + Len(right) :
             (left \o right)[k] = IF k <= Len(left) THEN left[k] ELSE right[k - Len(left)]
      BY <1>2, <1>3, ConcatProperties
    <2>3. ASSUME NEW k \in 1 .. (i - 1) PROVE (left \o right)[k] = left[k]
      <3>1. k \in 1 .. Len(left) + Len(right) /\ k <= Len(left)
        BY <1>1, <1>2, <1>3
      <3> QED BY <2>2, <3>1
    <2>4. ASSUME NEW k \in 1 .. (Len(q) - i) PROVE (left \o right)[(i - 1) + k] = right[k]
      <3>1. /\ (i - 1) + k \in 1 .. Len(left) + Len(right) /\ ~((i - 1) + k <= Len(left))
            /\ ((i - 1) + k) - Len(left) = k
        BY <1>1, <1>2, <1>3
      <3> QED BY <2>2, <3>1
    <2> QED BY <1>2, <1>3, <1>4, <2>1, <2>3, <2>4
  <1>6. ASSUME NEW k \in 1 .. Len(q), q[k] # q[i]
        PROVE  \E j \in 1 .. Len(RemoveAt(q, i)) : RemoveAt(q, i)[j] = q[k]
    <2>1. CASE k < i
      <3>1. k \in 1 .. (i - 1) /\ k \in 1 .. ((i - 1) + (Len(q) - i))
        BY <1>1, <2>1
      <3>2. RemoveAt(q, i)[k] = q[k]
        BY <1>2, <1>5, <3>1
      <3> QED BY <1>5, <3>1, <3>2
    <2>2. CASE k > i
      <3> DEFINE m == k - i
      <3>1. /\ m \in 1 .. (Len(q) - i) /\ i + m = k
            /\ (i - 1) + m \in 1 .. ((i - 1) + (Len(q) - i))
        BY <1>1, <2>2
      <3> HIDE DEF m
      <3>2. RemoveAt(q, i)[(i - 1) + m] = q[k]
        BY <1>3, <1>5, <3>1
      <3> QED BY <1>5, <3>1, <3>2
    <2> QED BY <1>1, <1>6, <2>1, <2>2
  <1> QED BY <1>5, <1>6

\* A sequence of the elements of a finite set, each once, has them all.
LEMMA Listed ==
    ASSUME NEW S, IsFiniteSet(S), NEW q \in SetToSeqs(S)
    PROVE  q \in Seq(S) /\ \A x \in S : \E i \in 1 .. Len(q) : q[i] = x
  <1>1. Cardinality(S) \in Nat
    BY FS_CardinalityType
  <1> DEFINE D == 1 .. Cardinality(S)
  <1>2. q \in [D -> S] /\ \A i, j \in D : i # j => q[i] # q[j]
    BY DEF SetToSeqs
  <1>3. IsFiniteSet(D) /\ Cardinality(D) = Cardinality(S)
    BY <1>1, FS_Interval
  <1>4. q \in Seq(S) /\ Len(q) = Cardinality(S)
    BY <1>1, <1>2
  <1>5. q \in Injection(D, S)
    BY <1>2 DEF Injection, IsInjective
  <1>6. q \in Surjection(D, S)
    BY <1>3, <1>5, FS_Injection
  <1> QED BY <1>4, <1>6 DEF Surjection

\* The hand is over an entry of the ring.
LEMMA SlotOnRing ==
    ASSUME Ringed, ring # << >>
    PROVE  /\ Slot \in 1 .. Len(ring) /\ hand % Len(ring) \in Nat
           /\ Next1(hand % Len(ring)) \in Nat
  <1>1. hand \in Nat /\ Len(ring) \in Nat /\ Len(ring) > 0
    BY DEF Ringed
  <1>2. hand % Len(ring) \in 0 .. Len(ring) - 1
    BY <1>1
  <1>3. ((hand % Len(ring)) + 1) % Len(ring) \in 0 .. Len(ring) - 1
    BY <1>1, <1>2
  <1> QED BY <1>1, <1>2, <1>3 DEF Slot, Next1

\* A step that loads no page and leaves the ring.
LEMMA RingStays ==
    ASSUME Ringed, UNCHANGED <<ring, policy>>, hand' \in Nat, Resident' \subseteq Resident,
           faults' = faults \/ faults' = faults + 1,
           pc' = "room" => pc = "room" \/ Cardinality(Resident') < Capacity
    PROVE  Ringed'
  <1>1. /\ IsFiniteSet(Resident') /\ Cardinality(Resident') <= Cardinality(Resident)
        /\ Cardinality(Resident') \in Nat /\ Cardinality(Resident) \in Nat
    BY FS_Subset, FS_CardinalityType DEF Ringed
  <1>2. policy' = "CLOCK" /\ faults' = 0 => \A p \in Resident' : OnRing(p)'
    BY DEF Ringed, OnRing
  <1> QED BY <1>1, <1>2, PoolAssumption DEF Ringed

\* An entry goes whose page is not in the pool, or goes with it.
LEMMA RingDrops ==
    ASSUME Ringed, ring # << >>, ring' = RemoveAt(ring, Slot), hand' = hand % Len(ring),
           UNCHANGED <<policy, faults>>, Resident' \subseteq Resident, ring[Slot] \notin Resident',
           pc' = "room" => Cardinality(Resident') < Capacity
    PROVE  Ringed'
  <1>1. /\ IsFiniteSet(Resident') /\ Cardinality(Resident') <= Cardinality(Resident)
        /\ Cardinality(Resident') \in Nat /\ Cardinality(Resident) \in Nat
    BY FS_Subset, FS_CardinalityType DEF Ringed
  <1>2. Slot \in 1 .. Len(ring) /\ hand' \in Nat /\ ring \in Seq(Pages)
    BY SlotOnRing DEF Ringed
  <1>3. /\ ring' \in Seq(Pages)
        /\ \A k \in 1 .. Len(ring) : ring[k] # ring[Slot] =>
              \E j \in 1 .. Len(ring') : ring'[j] = ring[k]
    BY <1>2, Removed
  <1>4. ASSUME policy' = "CLOCK", faults' = 0, NEW p \in Resident'
        PROVE  OnRing(p)'
    <2>1. PICK k \in 1 .. Len(ring) : ring[k] = p
      BY <1>4 DEF Ringed, OnRing
    <2>2. PICK j \in 1 .. Len(ring') : ring'[j] = p
      BY <1>3, <2>1
    <2> QED BY <2>2 DEF OnRing
  <1> QED BY <1>1, <1>2, <1>3, <1>4, PoolAssumption DEF Ringed

\* An eviction makes room.
LEMMA EvictedRoom ==
    ASSUME Ringed, NEW p \in Unpinned, Evict(p)
    PROVE  Resident' = Resident \ {p} /\ Cardinality(Resident') < Capacity
  <1>1. Resident' = Resident \ {p} /\ p \in Resident
    BY ExceptFrames DEF Evict, Unpinned, Resident
  <1>2. Cardinality(Resident \ {p}) = Cardinality(Resident) - 1 /\ Cardinality(Resident) \in Nat
    BY <1>1, FS_RemoveElement, FS_CardinalityType DEF Ringed
  <1> QED BY <1>1, <1>2, PoolAssumption DEF Ringed

LEMMA LoadRinged ==
    ASSUME IInv, Ringed, Load
    PROVE  Ringed'
  <1>1. want \in Pages /\ want \notin Resident
    BY DEF Load, IInv, Types, StillMissing
  <1>2. Resident' = Resident \cup {want}
    BY DEF Load, With, Resident
  <1>3. IsFiniteSet(Resident') /\ Cardinality(Resident') = Cardinality(Resident) + 1
    BY <1>1, <1>2, FS_AddElement DEF Ringed
  <1>4. Cardinality(Resident) \in Nat /\ Cardinality(Resident) < Capacity
    BY FS_CardinalityType DEF Ringed, Load
  <1>5. pc' = "idle" /\ hand' = hand /\ policy' = policy /\ faults' = faults
    BY DEF Load
  <1>6. CASE policy = "CLOCK"
    <2>1. ring' = Append(ring, want) /\ ring \in Seq(Pages)
      BY <1>6 DEF Load, Ringed
    <2>2. /\ ring' \in Seq(Pages) /\ Len(ring') = Len(ring) + 1 /\ ring'[Len(ring) + 1] = want
          /\ \A i \in 1 .. Len(ring) : ring'[i] = ring[i]
      BY <1>1, <2>1
    <2>3. ASSUME faults = 0, NEW p \in Resident' PROVE OnRing(p)'
      <3>1. CASE p = want
        BY <2>1, <2>2, <3>1 DEF OnRing
      <3>2. CASE p \in Resident
        <4>1. PICK i \in 1 .. Len(ring) : ring[i] = p
          BY <1>6, <2>3, <3>2 DEF Ringed, OnRing
        <4>2. i \in 1 .. Len(ring') /\ ring'[i] = p
          BY <2>1, <2>2, <4>1
        <4> QED BY <4>2 DEF OnRing
      <3> QED BY <1>2, <3>1, <3>2
    <2> QED BY <1>3, <1>4, <1>5, <2>2, <2>3, PoolAssumption DEF Ringed
  <1>7. CASE policy # "CLOCK"
    <2>1. ring' = ring
      BY <1>7 DEF Load
    <2> QED BY <1>3, <1>4, <1>5, <1>7, <2>1, PoolAssumption DEF Ringed
  <1> QED BY <1>6, <1>7

LEMMA SweepRinged ==
    ASSUME IInv, Ringed, Sweep \/ EvictFails
    PROVE  Ringed'
  <1>1. CASE SweepMissing
    <2>1. /\ ring # << >> /\ ring[Slot] \notin Resident /\ ring' = RemoveAt(ring, Slot)
          /\ hand' = hand % Len(ring) /\ UNCHANGED <<policy, faults, frames, pc>> /\ pc = "sweep"
      BY <1>1 DEF SweepMissing
    <2> QED BY <2>1, RingDrops DEF Resident
  <1>2. CASE SweepPinned
    <2>1. /\ ring # << >> /\ hand' = Next1(hand % Len(ring))
          /\ UNCHANGED <<ring, policy, faults, frames, pc>>
      BY <1>2 DEF SweepPinned
    <2> QED BY <2>1, RingStays, SlotOnRing DEF Resident
  <1>3. CASE SweepSecondChance
    <2>1. /\ ring # << >> /\ hand' = Next1(hand % Len(ring))
          /\ UNCHANGED <<ring, policy, faults, pc>> /\ DOMAIN frames' = DOMAIN frames
      BY <1>3 DEF SweepSecondChance
    <2> QED BY <2>1, RingStays, SlotOnRing DEF Resident
  <1>4. CASE SweepEvict
    <2>1. /\ ring # << >> /\ ring[Slot] \in Unpinned /\ ring' = RemoveAt(ring, Slot)
          /\ hand' = hand % Len(ring) /\ Evict(ring[Slot])
      BY <1>4 DEF SweepEvict
    <2>2. Resident' = Resident \ {ring[Slot]} /\ Cardinality(Resident') < Capacity
      BY <2>1, EvictedRoom
    <2>3. UNCHANGED <<policy, faults>>
      BY <2>1 DEF Evict
    <2> QED BY <2>1, <2>2, <2>3, RingDrops
  <1>5. CASE SweepEmpty
    <2>1. pc' = "idle" /\ UNCHANGED <<frames, ring, hand, policy, faults>>
      BY <1>5 DEF SweepEmpty, replacement
    <2> QED BY <2>1, RingStays DEF Resident, Ringed
  <1>6. CASE EvictFails
    <2>1. faults' = faults + 1 /\ pc' = "idle" /\ UNCHANGED <<frames, policy>>
      BY <1>6 DEF EvictFails
    <2>2. faults' # 0 /\ faults' \in Nat
      BY <2>1 DEF Ringed
    <2>3. ring' \in Seq(Pages) /\ hand' \in Nat
      <3>1. CASE policy = "CLOCK"
        <4>1. ring # << >> /\ ring' = RemoveAt(ring, Slot) /\ hand' = hand % Len(ring)
          BY <1>6, <3>1 DEF EvictFails
        <4> QED BY <4>1, SlotOnRing, Removed DEF Ringed
      <3>2. CASE policy # "CLOCK"
        BY <1>6, <3>2 DEF EvictFails, Ringed
      <3> QED BY <3>1, <3>2
    <2> QED BY <2>1, <2>2, <2>3 DEF Ringed, Resident
  <1> QED BY <1>1, <1>2, <1>3, <1>4, <1>5, <1>6 DEF Sweep

\* Every step: few load a page, evict one or move the ring.
LEMMA StepRinged ==
    ASSUME IInv, Ringed, [Next]_vars
    PROVE  Ringed'
  <1>0. hand \in Nat
    BY DEF Ringed
  <1>1. CASE Sweep \/ EvictFails
    BY <1>1, SweepRinged
  <1>2. CASE Load
    BY <1>2, LoadRinged
  <1>3. ASSUME NEW p \in Pages, EvictOldest(p)
        PROVE  Ringed'
    <2>1. p \in Unpinned /\ Evict(p) /\ UNCHANGED <<ring, hand>>
      BY <1>3 DEF EvictOldest, IsVictim
    <2>2. UNCHANGED <<policy, faults>>
      BY <2>1 DEF Evict
    <2> QED BY <1>0, <2>1, <2>2, EvictedRoom, RingStays
  <1>4. ASSUME NEW p \in Pages,
               Hit(p) \/ Allocate(p) \/ Unpin(p) \/ Flush(p) \/ \E v \in Values : Edit(p, v)
        PROVE  Ringed'
    <2>1. Resident' = Resident
      BY <1>4, CleanedFrames DEF Hit, Allocate, Unpin, Flush, Edit, Resident, Cleaned
    <2>2. UNCHANGED <<ring, hand, policy, faults>> /\ (pc' = pc \/ pc' = "idle")
      BY <1>4 DEF Hit, Allocate, Unpin, Flush, Edit, replacement
    <2> QED BY <1>0, <2>1, <2>2, RingStays
  <1>5. ASSUME NEW p \in Pages, Release(p)
        PROVE  Ringed'
    <2>1. Resident' = Resident \ {p} /\ UNCHANGED <<ring, hand, policy, faults, pc>>
      BY <1>5, ExceptFrames DEF Release, Resident
    <2> QED BY <1>0, <2>1, RingStays
  <1>6. ASSUME NEW w \in Pages \cup {None}, Miss(w)
        PROVE  Ringed'
    <2>1. /\ UNCHANGED <<frames, ring, hand, policy, faults>>
          /\ pc' = "room" => Cardinality(Resident) < Capacity
      BY <1>6 DEF Miss, replacement
    <2> QED BY <1>0, <2>1, RingStays DEF Resident
  <1>7. CASE \/ Exhausted \/ LoadFails \/ AllocateFails \/ TakeSavepoint \/ UNCHANGED vars
    <2>1. /\ UNCHANGED <<frames, ring, hand, policy>> /\ (pc' = pc \/ pc' = "idle")
          /\ faults' = faults \/ faults' = faults + 1
      BY <1>7 DEF Exhausted, LoadFails, AllocateFails, TakeSavepoint, replacement, vars
    <2> QED BY <1>0, <2>1, RingStays DEF Resident
  <1>8. CASE FlushAllFails \/ BeginWriteBatch \/ CommitWriteBatch
    <2>1. Resident' = Resident
      BY <1>8 DEF FlushAllFails, BeginWriteBatch, CommitWriteBatch, FlushAll, Resident, Cleaned
    <2>2. /\ UNCHANGED <<ring, hand, policy, pc>>
          /\ faults' = faults \/ faults' = faults + 1
      BY <1>8 DEF FlushAllFails, BeginWriteBatch, CommitWriteBatch, replacement
    <2> QED BY <1>0, <2>1, <2>2, RingStays
  <1>9. CASE RollbackWriteBatch \/ RestoreSavepoint
    <2>1. Resident' = {} /\ UNCHANGED <<ring, hand, policy, faults, pc>>
      BY <1>9 DEF RollbackWriteBatch, RestoreSavepoint, DropFrames, NoFrames, Resident
    <2> QED BY <1>0, <2>1, RingStays
  <1>10. ASSUME NEW new \in Policies, SetPolicy(new)
         PROVE  Ringed'
    <2>1. Resident' = {} /\ ring' = << >> /\ hand' = 0 /\ UNCHANGED <<faults, pc>> /\ pc = "idle"
      BY <1>10 DEF SetPolicy, DropFrames, NoFrames, Resident, AllUnpinned
    <2>2. IsFiniteSet({}) /\ Cardinality({}) = 0
      BY FS_EmptySet
    <2> QED BY <2>1, <2>2, PoolAssumption DEF Ringed
  <1>11. CASE ResetStats
    <2>1. /\ ring' \in SetToSeqs(Resident) /\ hand' = 0 /\ pc = "idle"
          /\ UNCHANGED <<frames, faults, policy, pc>> /\ Resident' = Resident
      BY <1>11 DEF ResetStats, Resident
    <2>2. ring' \in Seq(Resident) /\ \A p \in Resident : OnRing(p)'
      BY <2>1, Listed DEF Ringed, OnRing
    <2>3. ring' \in Seq(Pages)
      <3>1. Resident \subseteq Pages
        BY DEF IInv, Types
      <3> QED BY <2>2, <3>1
    <2> QED BY <2>1, <2>2, <2>3 DEF Ringed
  <1> QED BY <1>1, <1>2, <1>3, <1>4, <1>5, <1>6, <1>7, <1>8, <1>9, <1>10, <1>11 DEF Next

LEMMA RingedAlways == Spec => []Ringed
  <1>1. Init => Ringed
    <2> SUFFICES ASSUME Init PROVE Ringed
      OBVIOUS
    <2>1. Resident = {} /\ ring = << >> /\ hand = 0 /\ faults = 0 /\ pc = "idle"
      BY DEF Init, Resident, NoFrames
    <2>2. IsFiniteSet({}) /\ Cardinality({}) = 0
      BY FS_EmptySet
    <2> QED BY <2>1, <2>2, PoolAssumption DEF Ringed
  <1> QED BY <1>1, StepRinged, Invariant, PTL DEF Spec

\* The pool never has more frames than its capacity (BufferPool::makeRoom).
THEOREM CapacityKept == Spec => [](Cardinality(Resident) <= Capacity)
  <1>1. Ringed => Cardinality(Resident) <= Capacity
    BY DEF Ringed
  <1> QED BY <1>1, RingedAlways, PTL

\* As long as the page file has not failed, makeRoom refuses a call only when
\* every frame is pinned: CLOCK finds each frame on its ring, although rollbacks,
\* releases and resetStats leave stale entries there or build it again.
THEOREM PoolRefuses == Spec => RefusedOnlyWhenPinned
  <1> DEFINE Refusal == pc = "sweep" /\ pc' = "idle" /\ faults' = 0 => Unpinned = {}
  <1>1. Ringed /\ [Next]_vars => [Refusal]_vars
    <2> SUFFICES ASSUME Ringed, Next, pc = "sweep", pc' = "idle", faults' = 0
                 PROVE  Unpinned = {}
      OBVIOUS
    <2>1. CASE Exhausted
      BY <2>1 DEF Exhausted
    <2>2. CASE SweepEmpty
      <3>1. ring = << >> /\ policy = "CLOCK" /\ faults = 0
        BY <2>2 DEF SweepEmpty
      <3>2. Resident = {}
        BY <3>1 DEF Ringed, OnRing
      <3> QED BY <3>2 DEF Unpinned
    <2>3. CASE EvictFails
      <3>1. faults' = faults + 1 /\ faults \in Nat
        BY <2>3 DEF EvictFails, Ringed
      <3> QED BY <3>1
    <2> QED BY <2>1, <2>2, <2>3
            DEF Next, Sweep, Hit, EvictOldest, Evict, Allocate, Unpin, Release, Flush, Edit,
                Miss, SweepMissing, SweepPinned, SweepSecondChance, SweepEvict, Load, LoadFails,
                AllocateFails, FlushAllFails, BeginWriteBatch, CommitWriteBatch,
                RollbackWriteBatch, TakeSavepoint, RestoreSavepoint, SetPolicy, ResetStats,
                FlushAll, AllUnpinned
  <1> QED BY <1>1, RingedAlways, PTL DEF Spec, RefusedOnlyWhenPinned

-----------------------------------------------------------------------------
(* The heap of the small instance: what HeapProofs says of it.              *)

\* In the instance of two tables on two pages a row reference reads the row it was
\* given for until the row is erased, and nothing afterwards; pages stay sound, and
\* a scan finds the rows there are (SlottedPage, HeapStore).
THEOREM HeapKept == Heaps!Spec => []HeapServes
  <1>1. Heaps!HeapAssumption
    BY HeapsAssumption
  <1>2. Heaps!Spec => []Heaps!HeapServes
    BY <1>1, Heaps!HeapAlwaysServes
  <1>3. Heaps!HeapServes => HeapServes
    BY DEF HeapServes
  <1> QED BY <1>2, <1>3, PTL
=============================================================================
