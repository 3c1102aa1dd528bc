----------------------------- MODULE BufferPool -----------------------------
(***************************************************************************)
(* The page cache between the tables and the page file.                    *)
(* One process calls it, one call at a time; a call that needs a frame     *)
(* first makes room, and the CLOCK search for a victim is modelled one     *)
(* turn of its loop at a time.  The page file is abstracted to what it     *)
(* promises (DurableStore): a table of pages, a snapshot taken when a      *)
(* batch begins, one savepoint inside the batch, and calls that may fail.  *)
(*                                                                         *)
(* truth is not in the program: it is what the callers last wrote in each  *)
(* page, and what a rollback promises to give back to them.                *)
(***************************************************************************)
EXTENDS Naturals, Sequences, FiniteSets, SequencesExt

CONSTANTS
    Pages,      \* page numbers
    Changing,   \* the pages that are allocated, written and released; the others
                \* are there from the start and only read
    Values,     \* contents of a page
    Blank,      \* the content of a page just allocated
    Capacity,   \* frames of the pool
    MaxGen,     \* bound on the generation of a page
    MaxPins,    \* bound on the guards held on one page
    MaxFaults,  \* bound on the failures of the page file
    MaxRing,    \* bound on the entries of the ring
    None        \* no frame, no snapshot

ASSUME PoolAssumption ==
    /\ Changing \subseteq Pages
    /\ Blank \in Values
    /\ Capacity \in Nat \ {0}
    /\ MaxGen \in Nat
    /\ MaxPins \in Nat
    /\ MaxFaults \in Nat
    /\ MaxRing \in Nat
    /\ None \notin Pages

VARIABLES
    file,       \* page -> [live, gen, val]: the page file, staged pages included
    base,       \* file and truth when the batch began, or None
    mark,       \* file and truth at the savepoint, or None
    frames,     \* page -> frame record, for the resident pages (frames_)
    ages,       \* the resident pages, the next victim first: by last use under
                \* LRU (accessed), by arrival under FIFO (loaded); not kept under CLOCK
    ring,       \* clockOrder_
    hand,       \* clockHand_, counted from 0
    policy,     \* policy_
    pc,         \* "idle", "sweep" (clockEvict), "room" (makeRoom is done)
    want,       \* what the call under way asks for: a page to load, or None
    faults,     \* failures of the page file so far
    truth       \* page -> what the callers last wrote there

fileVars == <<file, base, mark, truth>>
replacement == <<ages, ring, hand>>
vars == <<fileVars, frames, replacement, policy, pc, want, faults>>

-----------------------------------------------------------------------------
Policies == {"LRU", "FIFO", "CLOCK"}

Page == [live : BOOLEAN, gen : Nat, val : Values]
Snapshot == [file : [Pages -> Page], truth : [Pages -> Values]]
Frame == [gen : Nat, val : Values, dirty : BOOLEAN, pins : Nat, referenced : BOOLEAN]

Resident == DOMAIN frames
Unpinned == {p \in Resident : frames[p].pins = 0}
Dirty == {p \in Resident : frames[p].dirty}

Except(f, p) == [q \in DOMAIN f \ {p} |-> f[q]]
With(f, p, x) == [q \in DOMAIN f \cup {p} |-> IF q = p THEN x ELSE f[q]]

\* The order of the ages: a page touched becomes the youngest.
Without(s, p) == SelectSeq(s, LAMBDA q : q # p)
Touch(s, p) == Append(Without(s, p), p)

\* The pages of S in the file as their frames hold them (writeBack).
Stored(S) == [p \in Pages |-> IF p \in S THEN [file[p] EXCEPT !.val = frames[p].val]
                                         ELSE file[p]]
Cleaned(S) == [p \in Resident |-> IF p \in S THEN [frames[p] EXCEPT !.dirty = FALSE]
                                             ELSE frames[p]]

NoFrames == [p \in {} |-> None]

Init ==
    /\ file = [p \in Pages |-> [live |-> p \notin Changing, val |-> Blank,
                                gen |-> IF p \in Changing THEN 0 ELSE 1]]
    /\ truth = [p \in Pages |-> Blank]
    /\ base = None /\ mark = None
    /\ frames = NoFrames
    /\ ages = << >> /\ ring = << >> /\ hand = 0
    /\ policy \in Policies
    /\ pc = "idle" /\ want = None /\ faults = 0

-----------------------------------------------------------------------------
(* Getting a page *)

\* A frame with one more guard on it.
Pinned(frame) == [gen |-> frame.gen, val |-> frame.val, dirty |-> frame.dirty,
                  pins |-> frame.pins + 1, referenced |-> TRUE]

\* get: the page is resident under the generation asked for.
Hit(p) ==
    /\ pc = "idle"
    /\ p \in Resident /\ frames[p].pins < MaxPins
    /\ frames' = [frames EXCEPT ![p] = Pinned(@)]
    /\ ages' = IF policy = "LRU" THEN Touch(ages, p) ELSE ages
    /\ UNCHANGED <<fileVars, ring, hand, policy, pc, want, faults>>

\* get and allocate on a page that is not resident: makeRoom comes first.
Miss(w) ==
    /\ pc = "idle"
    /\ w \in {None} \cup (Pages \ Resident)
    /\ want' = w
    /\ pc' = IF Cardinality(Resident) < Capacity THEN "room" ELSE "sweep"
    /\ UNCHANGED <<fileVars, frames, replacement, policy, faults>>

\* makeRoom under LRU and FIFO: the oldest frame nobody holds.
IsVictim(p) == \E i \in DOMAIN ages :
                  /\ ages[i] = p /\ p \in Unpinned
                  /\ \A j \in 1..(i - 1) : ages[j] \notin Unpinned

\* The victim is written back when it is dirty, then its frame goes.
Evict(p) ==
    /\ file' = IF frames[p].dirty THEN Stored({p}) ELSE file
    /\ frames' = Except(frames, p)
    /\ ages' = Without(ages, p)
    /\ pc' = "room"
    /\ UNCHANGED <<base, mark, truth, policy, want, faults>>

EvictOldest(p) ==
    /\ pc = "sweep" /\ policy # "CLOCK"
    /\ IsVictim(p)
    /\ Evict(p)
    /\ UNCHANGED <<ring, hand>>

\* BUFFER_EXHAUSTED: every frame is pinned.
Exhausted ==
    /\ pc = "sweep" /\ policy # "CLOCK"
    /\ Unpinned = {}
    /\ pc' = "idle" /\ want' = None
    /\ UNCHANGED <<fileVars, frames, replacement, policy, faults>>

-----------------------------------------------------------------------------
(* clockEvict: one turn of the loop per step *)

Slot == (hand % Len(ring)) + 1
Next1(h) == (h + 1) % Len(ring)

\* An entry of a page that has left the pool is dropped; the hand stays.
SweepMissing ==
    /\ pc = "sweep" /\ policy = "CLOCK" /\ ring # << >>
    /\ ring[Slot] \notin Resident
    /\ ring' = RemoveAt(ring, Slot)
    /\ hand' = hand % Len(ring)
    /\ UNCHANGED <<fileVars, frames, ages, policy, pc, want, faults>>

SweepPinned ==
    /\ pc = "sweep" /\ policy = "CLOCK" /\ ring # << >>
    /\ ring[Slot] \in Resident \ Unpinned
    /\ hand' = Next1(hand % Len(ring))
    /\ UNCHANGED <<fileVars, frames, ages, ring, policy, pc, want, faults>>

\* mutant: the reference bit survives the visit of the hand
MutSweepSecondChance ==
    /\ pc = "sweep" /\ policy = "CLOCK" /\ ring # << >>
    /\ ring[Slot] \in Unpinned /\ frames[ring[Slot]].referenced
    /\ hand' = Next1(hand % Len(ring))
    /\ UNCHANGED <<fileVars, frames, ages, ring, policy, pc, want, faults>>

SweepSecondChance ==
    /\ pc = "sweep" /\ policy = "CLOCK" /\ ring # << >>
    /\ ring[Slot] \in Unpinned /\ frames[ring[Slot]].referenced
    /\ frames' = [frames EXCEPT ![ring[Slot]].referenced = FALSE]
    /\ hand' = Next1(hand % Len(ring))
    /\ UNCHANGED <<fileVars, ages, ring, policy, pc, want, faults>>

SweepEvict ==
    /\ pc = "sweep" /\ policy = "CLOCK" /\ ring # << >>
    /\ ring[Slot] \in Unpinned /\ ~frames[ring[Slot]].referenced
    /\ ring' = RemoveAt(ring, Slot)
    /\ hand' = hand % Len(ring)
    /\ Evict(ring[Slot])

\* The ring ran empty: no page was chosen.
SweepEmpty ==
    /\ pc = "sweep" /\ policy = "CLOCK" /\ ring = << >>
    /\ pc' = "idle" /\ want' = None
    /\ UNCHANGED <<fileVars, frames, replacement, policy, faults>>

\* The write-back of the victim fails: it keeps its frame, dirty, and the
\* call fails; CLOCK has already taken it off the ring.
EvictFails ==
    /\ pc = "sweep" /\ faults < MaxFaults
    /\ IF policy = "CLOCK"
       THEN /\ ring # << >>
            /\ ring[Slot] \in Unpinned \cap Dirty /\ ~frames[ring[Slot]].referenced
            /\ ring' = RemoveAt(ring, Slot)
            /\ hand' = hand % Len(ring)
       ELSE /\ \E p \in Dirty : IsVictim(p)
            /\ UNCHANGED <<ring, hand>>
    /\ faults' = faults + 1
    /\ pc' = "idle" /\ want' = None
    /\ UNCHANGED <<fileVars, frames, ages, policy>>

-----------------------------------------------------------------------------
(* What the call does once there is room *)

\* get: the page is read and its frame joins every order.
Load ==
    /\ pc = "room" /\ want # None /\ file[want].live
    /\ Len(ring) < MaxRing
    /\ frames' = With(frames, want, [gen |-> file[want].gen, val |-> file[want].val,
                                     dirty |-> FALSE, pins |-> 1, referenced |-> TRUE])
    /\ ages' = IF policy = "CLOCK" THEN ages ELSE Append(ages, want)
    /\ ring' = IF policy = "CLOCK" THEN Append(ring, want) ELSE ring
    /\ pc' = "idle" /\ want' = None
    /\ UNCHANGED <<fileVars, hand, policy, faults>>

\* The page is not allocated, or the file fails to read it.
LoadFails ==
    /\ pc = "room" /\ want # None
    /\ \/ ~file[want].live /\ UNCHANGED faults
       \/ faults < MaxFaults /\ faults' = faults + 1
    /\ pc' = "idle" /\ want' = None
    /\ UNCHANGED <<fileVars, frames, replacement, policy>>

\* allocate: the file chooses a free page and gives it a new generation.
Allocate(p) ==
    /\ pc = "room" /\ want = None
    /\ ~file[p].live /\ file[p].gen < MaxGen
    /\ file' = [file EXCEPT ![p] = [live |-> TRUE, gen |-> @.gen + 1, val |-> Blank]]
    /\ truth' = [truth EXCEPT ![p] = Blank]
    /\ pc' = "idle"
    /\ UNCHANGED <<base, mark, frames, replacement, policy, want, faults>>

AllocateFails ==
    /\ pc = "room" /\ want = None
    /\ \A p \in Pages : file[p].live \/ file[p].gen = MaxGen
    /\ pc' = "idle"
    /\ UNCHANGED <<fileVars, frames, replacement, policy, want, faults>>

-----------------------------------------------------------------------------
(* Guards: a caller changes a page only through one *)

Edit(p, v) ==
    /\ pc = "idle" /\ p \in Changing
    /\ p \in Resident /\ frames[p].pins > 0
    /\ frames' = [frames EXCEPT ![p].val = v, ![p].dirty = TRUE]
    /\ truth' = [truth EXCEPT ![p] = v]
    /\ UNCHANGED <<file, base, mark, replacement, policy, pc, want, faults>>

Unpin(p) ==
    /\ pc = "idle"
    /\ p \in Resident /\ frames[p].pins > 0
    /\ frames' = [frames EXCEPT ![p].pins = @ - 1]
    /\ UNCHANGED <<fileVars, replacement, policy, pc, want, faults>>

\* release: PAGE_PINNED is refused; the frame goes with the page, dirty or not.
Release(p) ==
    /\ pc = "idle" /\ p \in Changing
    /\ file[p].live
    /\ p \in Resident => frames[p].pins = 0
    /\ file' = [file EXCEPT ![p].live = FALSE, ![p].val = Blank]
    /\ truth' = [truth EXCEPT ![p] = Blank]
    /\ frames' = Except(frames, p)
    /\ ages' = Without(ages, p)
    /\ UNCHANGED <<base, mark, ring, hand, policy, pc, want, faults>>

\* flush of one page.
Flush(p) ==
    /\ pc = "idle"
    /\ p \in Unpinned \cap Dirty
    /\ file' = Stored({p})
    /\ frames' = Cleaned({p})
    /\ UNCHANGED <<base, mark, truth, replacement, policy, pc, want, faults>>

-----------------------------------------------------------------------------
(* The batch of a transaction.  Every call refuses while a page is pinned. *)

\* mutant: pinned pages are not looked for
MutAllUnpinned == pc = "idle"

AllUnpinned == pc = "idle" /\ Unpinned = Resident

\* flushAll
FlushAll ==
    /\ AllUnpinned
    /\ file' = Stored(Dirty)
    /\ frames' = Cleaned(Dirty)

\* flushAll stops at the first write that fails: some frames are clean by then.
FlushAllFails ==
    /\ AllUnpinned
    /\ faults < MaxFaults /\ faults' = faults + 1
    /\ \E S \in SUBSET Dirty : /\ S # Dirty
                               /\ file' = Stored(S)
                               /\ frames' = Cleaned(S)
    /\ UNCHANGED <<base, mark, truth, replacement, policy, pc, want>>

BeginWriteBatch ==
    /\ base = None
    /\ FlushAll
    /\ base' = [file |-> file', truth |-> truth]
    /\ UNCHANGED <<mark, truth, replacement, policy, pc, want, faults>>

CommitWriteBatch ==
    /\ base # None
    /\ FlushAll
    /\ base' = None /\ mark' = None
    /\ UNCHANGED <<truth, replacement, policy, pc, want, faults>>

\* mutant: the frames outlive the batch they were changed in
MutDropFrames == UNCHANGED <<frames, ages>>

\* Dropping every frame empties the ages; the ring keeps its entries.
DropFrames ==
    /\ frames' = NoFrames
    /\ ages' = << >>

RollbackWriteBatch ==
    /\ base # None
    /\ AllUnpinned
    /\ file' = base.file /\ truth' = base.truth
    /\ base' = None /\ mark' = None
    /\ DropFrames
    /\ UNCHANGED <<ring, hand, policy, pc, want, faults>>

\* A savepoint is taken of the file, by a statement that has flushed first.
TakeSavepoint ==
    /\ base # None
    /\ AllUnpinned /\ Dirty = {}
    /\ mark' = [file |-> file, truth |-> truth]
    /\ UNCHANGED <<file, base, truth, frames, replacement, policy, pc, want, faults>>

RestoreSavepoint ==
    /\ base # None /\ mark # None
    /\ AllUnpinned
    /\ file' = mark.file /\ truth' = mark.truth
    /\ DropFrames
    /\ UNCHANGED <<base, mark, ring, hand, policy, pc, want, faults>>

\* setPolicy: everything is written and dropped, and the ring starts again.
SetPolicy(new) ==
    /\ AllUnpinned
    /\ file' = Stored(Dirty)
    /\ DropFrames
    /\ policy' = new
    /\ ring' = << >> /\ hand' = 0
    /\ UNCHANGED <<base, mark, truth, pc, want, faults>>

\* mutant: the ring is emptied and not built again
MutResetStats ==
    /\ pc = "idle"
    /\ ring' = << >> /\ hand' = 0
    /\ UNCHANGED <<fileVars, frames, ages, policy, pc, want, faults>>

\* resetStats: the ring is rebuilt from the frames, in an order of the map's own.
ResetStats ==
    /\ pc = "idle"
    /\ ring' \in SetToSeqs(Resident)
    /\ hand' = 0
    /\ UNCHANGED <<fileVars, frames, ages, policy, pc, want, faults>>

-----------------------------------------------------------------------------
Sweep == SweepMissing \/ SweepPinned \/ SweepSecondChance \/ SweepEvict \/ SweepEmpty

MakeRoom == Sweep \/ Exhausted \/ \E p \in Pages : EvictOldest(p)

Next ==
    \/ \E p \in Pages : Hit(p) \/ EvictOldest(p) \/ Allocate(p) \/ Unpin(p)
                        \/ Release(p) \/ Flush(p) \/ \E v \in Values : Edit(p, v)
    \/ \E w \in Pages \cup {None} : Miss(w)
    \/ Exhausted \/ Sweep \/ EvictFails
    \/ Load \/ LoadFails \/ AllocateFails
    \/ FlushAllFails \/ BeginWriteBatch \/ CommitWriteBatch \/ RollbackWriteBatch
    \/ TakeSavepoint \/ RestoreSavepoint
    \/ \E new \in Policies : SetPolicy(new)
    \/ ResetStats

Spec == Init /\ [][Next]_vars
\* makeRoom runs on in its thread while a turn of it is possible.
FairSpec == Spec /\ WF_vars(MakeRoom)

-----------------------------------------------------------------------------
(* What the pool promises *)

\* Every variable has its type.
TypeOK ==
    /\ file \in [Pages -> Page]
    /\ truth \in [Pages -> Values]
    /\ base \in Snapshot \cup {None} /\ mark \in Snapshot \cup {None}
    /\ Resident \subseteq Pages
    /\ \A p \in Resident : frames[p] \in Frame
    /\ ages \in Seq(Resident)
    /\ ring \in Seq(Pages) /\ hand \in Nat
    /\ policy \in Policies
    /\ pc \in {"idle", "sweep", "room"} /\ want \in Pages \cup {None}
    /\ faults \in 0..MaxFaults

Held(p) == IF p \in Resident THEN frames[p].val ELSE file[p].val

\* Whatever was evicted, written back, dropped or reloaded since, a page holds
\* what its callers last wrote, or what a rollback gave back to them; and a frame
\* is never of a page, or of a generation, the file has given up.
PoolKeepsWrites ==
    \A p \in Pages :
        /\ Held(p) = truth[p]
        /\ p \in Resident => file[p].live /\ frames[p].gen = file[p].gen

\* A guard keeps its frame: no eviction, rollback, restored savepoint, release
\* or change of policy takes a pinned page out of the pool.
GuardKeepsFrame ==
    [][\A p \in Resident : frames[p].pins > 0 =>
           p \in DOMAIN frames' /\ frames'[p].gen = frames[p].gen]_vars

\* As long as the file has not failed, a call is refused for want of a frame
\* only when every frame is pinned.
RefusedOnlyWhenPinned ==
    [][pc = "sweep" /\ pc' = "idle" /\ faults' = 0 => Unpinned = {}]_vars

\* The CLOCK search ends when there is a frame nobody holds.
SweepEnds == (pc = "sweep" /\ Unpinned # {} /\ faults = 0) ~> (pc # "sweep")

\* What docs/buffer-progress.md says of every policy: the search for a frame ends,
\* with BUFFER_EXHAUSTED when all of them are pinned.
SearchEnds == (pc = "sweep") ~> (pc # "sweep")
=============================================================================
