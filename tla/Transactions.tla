---------------------------- MODULE Transactions ----------------------------
(***************************************************************************)
(* The transaction layer of Database: calls of several statements, each    *)
(* held to its end under the mutex mu_, explicit transactions that outlive *)
(* a call, savepoints, the labels of the answers, the cache of SELECT      *)
(* results and the two ways a checkpoint starts by itself.                 *)
(*                                                                         *)
(* The database is the set of the writes it holds: a write statement adds  *)
(* itself.  work is what the open batch shows, disk what a process that    *)
(* opens the file finds; the pool and the page file below are abstracted   *)
(* to that pair, to a commit that may fail before or after its point of no *)
(* return, and to a checkpoint that may fail.                              *)
(***************************************************************************)
EXTENDS Naturals, Sequences, FiniteSets

CONSTANTS
    Writes,      \* the write statements of a run, each executed once
    Names,       \* savepoint names, compared without their case
    Literals,    \* what a SELECT compares a column with
    LiteralOf,   \* the literal a write stores
    Lower,       \* a literal in lower case
    Threshold,   \* autoCheckpointWrites_
    GroupCommit, \* groupCommit_ of the page file
    MaxFaults,   \* bound on the failures below this layer
    Absent       \* no savepoint, no cached result

ASSUME TransactionsAssumption ==
    /\ LiteralOf \in [Writes -> Literals]
    /\ Lower \in [Literals -> Literals]
    /\ Threshold \in Nat \ {0}
    /\ GroupCommit \in BOOLEAN
    /\ MaxFaults \in Nat

VARIABLES
    disk,        \* the writes a reopened file holds
    work,        \* the writes the running process shows
    txn,         \* transaction_
    saves,       \* savepoints_: name -> the writes it restores, or Absent
    written,     \* transactionWriteStatements_
    pending,     \* pendingAutoCheckpointWrites_
    deferred,    \* schedulerDeferredReasons_ is not empty
    sick,        \* the page file refuses every call
    unavailable, \* unavailable_
    cache,       \* queryResultCache_: key -> the writes selected, or Absent
    call,        \* the call under way: "none", "session" (execute) or "script"
    results,     \* its results so far: the writes done and their commitState
    reply,       \* the last answer given: its results, whether it says unknown
    issued,      \* the writes sent so far
    undone,      \* the writes a ROLLBACK TO took back
    denied,      \* the writes a reply denied: rolledBack, or failed and not unknown
    acked,       \* the writes a reply declared committed
    faults       \* failures so far

store == <<disk, work, sick>>
session == <<txn, saves, written, unavailable>>
checkpointing == <<pending, deferred>>
answers == <<call, results, reply>>
ghosts == <<issued, undone, denied, acked>>
vars == <<store, session, checkpointing, cache, answers, ghosts, faults>>

-----------------------------------------------------------------------------
NoSaves == [n \in Names |-> Absent]
NoCache == [k \in Literals |-> Absent]
NoReply == [results |-> << >>, unknown |-> FALSE]

\* The results with one label turned into another.
Relabel(rs, old, new) ==
    [i \in DOMAIN rs |-> IF rs[i].state = old THEN [rs[i] EXCEPT !.state = new] ELSE rs[i]]

Labelled(rs, label) == {rs[i].write : i \in {j \in DOMAIN rs : rs[j].state = label}}

Init ==
    /\ disk = {} /\ work = {} /\ sick = FALSE
    /\ txn = "idle" /\ saves = NoSaves /\ written = 0 /\ unavailable = FALSE
    /\ pending = 0 /\ deferred = FALSE
    /\ cache = NoCache
    /\ call = "none" /\ results = << >> /\ reply = NoReply
    /\ issued = {} /\ undone = {} /\ denied = {} /\ acked = {}
    /\ faults = 0

-----------------------------------------------------------------------------
(* A call *)

\* execute and executeScript take the mutex; an unavailable database refuses.
\* Over a sick file no call changes anything: such calls are left out.
Start(kind) ==
    /\ call = "none" /\ ~unavailable /\ ~sick
    /\ call' = kind /\ results' = << >> /\ reply' = NoReply
    /\ UNCHANGED <<store, session, checkpointing, cache, ghosts, faults>>

\* The answer of a call: rs are its results, failing the writes that failed.
Answer(rs, failing, unknown) ==
    /\ call' = "none" /\ results' = << >>
    /\ reply' = [results |-> rs, unknown |-> unknown]
    /\ acked' = acked \cup Labelled(rs, "committed")
    /\ denied' = denied \cup Labelled(rs, "rolledBack") \cup (IF unknown THEN {} ELSE failing)

\* executeScript ends the transaction its statements left open.
Finish ==
    /\ call # "none"
    /\ IF call = "script" /\ txn # "idle"
       THEN /\ txn' = "idle" /\ saves' = NoSaves /\ work' = disk
            /\ Answer(Relabel(results, "pending", "rolledBack"), {}, FALSE)
       ELSE /\ Answer(results, {}, FALSE)
            /\ UNCHANGED <<txn, saves, work>>
    /\ UNCHANGED <<disk, sick, written, unavailable, checkpointing, cache, issued, undone, faults>>

\* rollbackBatch, then the answer (executionFailure).  state is the transaction
\* when the error is caught: an active one is rolled back and aborted, and
\* executeScript then ends it.  A sick file cannot be read back: the database
\* becomes unavailable, its labels stay, and the answer says unknown.
Failed(state, failing, unknown) ==
    /\ work' = disk'
    /\ IF state = "active" /\ sick'
       THEN /\ unavailable' = TRUE /\ txn' = "aborted"
            /\ UNCHANGED <<saves, written>>
            /\ Answer(results, failing, TRUE)
       ELSE /\ txn' = IF call = "session" /\ state # "idle" THEN "aborted" ELSE "idle"
            /\ unavailable' = sick'
            /\ saves' = IF state = "active" THEN NoSaves ELSE saves
            /\ written' = IF state = "active" THEN 0 ELSE written
            /\ Answer(IF state = "active" THEN Relabel(results, "pending", "rolledBack")
                                          ELSE results, failing, unknown \/ sick')

\* A statement that does not parse, is not allowed in this state, or fails.
StatementFails ==
    /\ call # "none"
    /\ UNCHANGED <<disk, sick, checkpointing, cache, issued, undone, faults>>
    /\ Failed(txn, {}, FALSE)

-----------------------------------------------------------------------------
(* runStatement: transaction control *)

Begin ==
    /\ call # "none" /\ txn = "idle"
    /\ txn' = "active" /\ written' = 0 /\ saves' = NoSaves
    /\ UNCHANGED <<store, unavailable, checkpointing, cache, answers, ghosts, faults>>

\* mutant: the pages of the batch are not dropped
MutRollback ==
    /\ call # "none" /\ txn # "idle"
    /\ txn' = "idle" /\ written' = 0 /\ saves' = NoSaves
    /\ results' = Relabel(results, "pending", "rolledBack")
    /\ UNCHANGED <<store, unavailable, checkpointing, cache, call, reply, ghosts, faults>>

Rollback ==
    /\ call # "none" /\ txn # "idle"
    /\ txn' = "idle" /\ written' = 0 /\ saves' = NoSaves
    /\ work' = disk
    /\ results' = Relabel(results, "pending", "rolledBack")
    /\ UNCHANGED <<disk, sick, unavailable, checkpointing, cache, call, reply, ghosts, faults>>

Savepoint(n) ==
    /\ call # "none" /\ txn = "active"
    /\ saves' = [saves EXCEPT ![n] = work]
    /\ UNCHANGED <<store, txn, written, unavailable, checkpointing, cache, answers, ghosts, faults>>

ReleaseSavepoint(n) ==
    /\ call # "none" /\ txn = "active" /\ saves[n] # Absent
    /\ saves' = [saves EXCEPT ![n] = Absent]
    /\ UNCHANGED <<store, txn, written, unavailable, checkpointing, cache, answers, ghosts, faults>>

\* Every savepoint stays, those taken after n too, and no label changes.
RollbackTo(n) ==
    /\ call # "none" /\ txn = "active" /\ saves[n] # Absent
    /\ work' = saves[n]
    /\ undone' = (undone \cup work) \ saves[n]
    /\ UNCHANGED <<disk, sick, session, checkpointing, cache, answers, issued, denied, acked, faults>>

\* evaluateAutoCheckpoint after a commit of n writes; done says it succeeded.
AutoCheckpoint(n, done) ==
    /\ pending' = IF n > 0 /\ pending + n >= Threshold /\ done THEN 0 ELSE pending + n
    /\ done \/ (n > 0 /\ pending + n >= Threshold)
    /\ UNCHANGED deferred

Commit ==
    /\ call # "none" /\ txn = "active"
    /\ disk' = work
    /\ txn' = "idle" /\ written' = 0 /\ saves' = NoSaves
    /\ AutoCheckpoint(written, TRUE)
    /\ results' = Relabel(results, "pending", "committed")
    /\ UNCHANGED <<work, sick, unavailable, cache, call, reply, ghosts, faults>>

-----------------------------------------------------------------------------
(* runStatement: data *)

\* mutant: a write is called committed before its transaction is
MutWriteInTransaction(w) ==
    /\ call # "none" /\ txn = "active"
    /\ w \in Writes \ issued /\ issued' = issued \cup {w}
    /\ work' = work \cup {w}
    /\ written' = written + 1
    /\ cache' = NoCache
    /\ results' = Append(results, [write |-> w, state |-> "committed"])
    /\ UNCHANGED <<disk, sick, txn, saves, unavailable, checkpointing, call, reply,
                   undone, denied, acked, faults>>

\* A write inside the transaction.
WriteInTransaction(w) ==
    /\ call # "none" /\ txn = "active"
    /\ w \in Writes \ issued /\ issued' = issued \cup {w}
    /\ work' = work \cup {w}
    /\ written' = written + 1
    /\ cache' = NoCache
    /\ results' = Append(results, [write |-> w, state |-> "pending"])
    /\ UNCHANGED <<disk, sick, txn, saves, unavailable, checkpointing, call, reply,
                   undone, denied, acked, faults>>

\* mutant: cached results outlive the write
MutWriteAutocommitted(w) ==
    /\ call # "none" /\ txn = "idle"
    /\ w \in Writes \ issued /\ issued' = issued \cup {w}
    /\ disk' = disk \cup {w} /\ work' = disk'
    /\ AutoCheckpoint(1, TRUE)
    /\ results' = Append(results, [write |-> w, state |-> "committed"])
    /\ UNCHANGED <<sick, session, cache, call, reply, undone, denied, acked, faults>>

\* A write of its own: a batch, a commit, a checkpoint when it is due.
WriteAutocommitted(w) ==
    /\ call # "none" /\ txn = "idle"
    /\ w \in Writes \ issued /\ issued' = issued \cup {w}
    /\ disk' = disk \cup {w} /\ work' = disk'
    /\ cache' = NoCache
    /\ AutoCheckpoint(1, TRUE)
    /\ results' = Append(results, [write |-> w, state |-> "committed"])
    /\ UNCHANGED <<sick, session, call, reply, undone, denied, acked, faults>>

\* A constraint, an expression or a limit refuses the write half-way.
WriteRefused(w) ==
    /\ call # "none" /\ txn # "aborted"
    /\ w \in Writes \ issued /\ issued' = issued \cup {w}
    /\ UNCHANGED <<disk, sick, checkpointing, cache, undone, faults>>
    /\ Failed(txn, {w}, FALSE)

\* queryResultCacheKey: every token is lower-cased, the literals too.
CacheKey(q) == Lower[q]

Selected(q, content) == {w \in content : LiteralOf[w] = q}

\* A SELECT: outside a transaction it asks the cache first and fills it.
Select(q) ==
    /\ call # "none" /\ txn # "aborted"
    /\ cache' = IF txn = "idle" /\ cache[CacheKey(q)] = Absent
                THEN [cache EXCEPT ![CacheKey(q)] = Selected(q, work)] ELSE cache
    /\ UNCHANGED <<store, session, checkpointing, answers, ghosts, faults>>

\* CHECKPOINT
Checkpoint ==
    /\ call # "none" /\ txn = "idle" /\ pending > 0
    /\ pending' = 0
    /\ UNCHANGED <<store, session, deferred, cache, answers, ghosts, faults>>

-----------------------------------------------------------------------------
(* The layers below fail *)

Fault == faults < MaxFaults /\ faults' = faults + 1

\* mutant: a failing commit leaves its content behind and the file in service
MutCommitBreaks(content) ==
    \/ disk' = content /\ sick' = sick
    \/ disk' \in {disk, content} /\ sick' = TRUE

\* What a commit of content leaves on disk: nothing of it while the batch is
\* still there; with the file sick, all of it or nothing.  With group commit the
\* batch is over before the group is fsynced: when that fails the file stays in
\* service with the content pending, and there is no batch to roll back.  (What a
\* failing application of the group loses is PageFile's FaultApplyGroup.)
CommitBreaks(content) ==
    \/ disk' = disk /\ sick' = sick
    \/ disk' \in {disk, content} /\ sick' = TRUE
    \/ GroupCommit /\ disk' = content /\ sick' = sick

CommitFails ==
    /\ call # "none" /\ txn = "active" /\ Fault
    /\ CommitBreaks(work)
    /\ Failed("active", {}, TRUE)
    /\ UNCHANGED <<checkpointing, cache, issued, undone>>

AutocommitFails(w) ==
    /\ call # "none" /\ txn = "idle" /\ Fault
    /\ w \in Writes \ issued /\ issued' = issued \cup {w}
    /\ CommitBreaks(disk \cup {w})
    /\ Failed("idle", {w}, TRUE)
    /\ UNCHANGED <<checkpointing, cache, undone>>

\* The commit is done and the checkpoint it called for fails, with the file sick or
\* not: the transaction is over, the labels of the call were not brought up to date.
CommitCheckpointFails ==
    /\ call # "none" /\ txn = "active" /\ Fault
    /\ disk' = work /\ work' = work
    /\ AutoCheckpoint(written, FALSE)
    /\ txn' = "idle" /\ written' = 0 /\ saves' = NoSaves
    /\ Answer(results, {}, TRUE)
    /\ sick' \in {sick, TRUE}
    /\ UNCHANGED <<unavailable, cache, issued, undone>>

\* Here the checkpoint is part of what rollbackBatch answers for, which finds no
\* batch, and cannot read the catalog of a sick file.
AutocommitCheckpointFails(w) ==
    /\ call # "none" /\ txn = "idle" /\ Fault
    /\ w \in Writes \ issued /\ issued' = issued \cup {w}
    /\ disk' = disk \cup {w} /\ work' = disk'
    /\ cache' = NoCache
    /\ AutoCheckpoint(1, FALSE)
    /\ Answer(results, {w}, TRUE)
    /\ sick' \in {sick, TRUE} /\ unavailable' = sick'
    /\ UNCHANGED <<txn, saves, written, undone>>

\* The process ends, or is closed, and the file is opened again.
Reopens ==
    /\ work' = disk /\ sick' = FALSE
    /\ txn' = "idle" /\ saves' = NoSaves /\ written' = 0 /\ unavailable' = FALSE
    /\ pending' = 0 /\ deferred' = FALSE /\ cache' = NoCache
    /\ call' = "none" /\ results' = << >> /\ reply' = NoReply
    /\ UNCHANGED <<disk, ghosts>>

Reopen == Reopens /\ UNCHANGED faults

-----------------------------------------------------------------------------
(* The background scheduler: it wakes up by its timer and takes the mutex *)

Due == pending >= Threshold

SchedulerDefers ==
    /\ call = "none" /\ ~unavailable /\ Due
    /\ txn # "idle" /\ ~deferred
    /\ deferred' = TRUE
    /\ UNCHANGED <<store, session, pending, cache, answers, ghosts, faults>>

\* mutant: a checkpoint once deferred is not taken up again
MutSchedulerCheckpoints ==
    /\ call = "none" /\ ~unavailable /\ ~sick /\ Due
    /\ txn = "idle" /\ ~deferred
    /\ pending' = 0 /\ deferred' = FALSE
    /\ UNCHANGED <<store, session, cache, answers, ghosts, faults>>

SchedulerCheckpoints ==
    /\ call = "none" /\ ~unavailable /\ ~sick /\ Due
    /\ txn = "idle"
    /\ pending' = 0 /\ deferred' = FALSE
    /\ UNCHANGED <<store, session, cache, answers, ghosts, faults>>

\* Nothing catches what the scheduler's checkpoint throws: the process ends.
SchedulerDies ==
    /\ call = "none" /\ ~unavailable /\ Due /\ txn = "idle"
    /\ Fault \/ (sick /\ UNCHANGED faults)
    /\ Reopens

-----------------------------------------------------------------------------
Next ==
    \/ \E kind \in {"session", "script"} : Start(kind)
    \/ Finish \/ StatementFails
    \/ Begin \/ Rollback \/ Commit
    \/ \E n \in Names : Savepoint(n) \/ ReleaseSavepoint(n) \/ RollbackTo(n)
    \/ \E w \in Writes : WriteInTransaction(w) \/ WriteAutocommitted(w) \/ WriteRefused(w)
                         \/ AutocommitFails(w) \/ AutocommitCheckpointFails(w)
    \/ \E q \in Literals : Select(q)
    \/ Checkpoint \/ CommitFails \/ CommitCheckpointFails \/ Reopen
    \/ SchedulerDefers \/ SchedulerCheckpoints \/ SchedulerDies

Spec == Init /\ [][Next]_vars
\* The scheduler's timer keeps waking it; nothing makes a client go on.
FairSpec == Spec /\ WF_vars(SchedulerCheckpoints)

-----------------------------------------------------------------------------
(* What the transaction layer promises *)

Result == [write : Writes, state : {"pending", "committed", "rolledBack"}]

\* Every variable has its type.
TypeOK ==
    /\ disk \in SUBSET Writes /\ work \in SUBSET Writes /\ sick \in BOOLEAN
    /\ txn \in {"idle", "active", "aborted"}
    /\ saves \in [Names -> (SUBSET Writes) \cup {Absent}]
    /\ written \in Nat /\ pending \in Nat /\ deferred \in BOOLEAN /\ unavailable \in BOOLEAN
    /\ cache \in [Literals -> (SUBSET Writes) \cup {Absent}]
    /\ call \in {"none", "session", "script"}
    /\ results \in Seq(Result)
    /\ reply.results \in Seq(Result) /\ reply.unknown \in BOOLEAN
    /\ {issued, undone, denied, acked} \subseteq SUBSET Writes
    /\ faults \in 0..MaxFaults

\* A write an answer declared committed is on disk from then on, through every
\* later failure and restart, unless a ROLLBACK TO of its transaction took it back.
CommittedStays == acked \ undone \subseteq disk

\* A write that an answer denied - rolled back, or failed without saying that its
\* state is unknown - is never on disk and never shown again.
DeniedNeverShows == denied \cap (disk \cup work) = {}

\* Outside a transaction the process shows what a reopened file would hold.
IdleShowsDisk == txn # "active" /\ ~unavailable => work = disk

\* A cached result is what a SELECT with its key finds in the database now: no
\* commit, failure or rollback leaves an older one behind.
CacheCurrent ==
    txn = "idle" /\ ~unavailable =>
        \A k \in Literals : cache[k] # Absent =>
            \E q \in Literals : CacheKey(q) = k /\ cache[k] = Selected(q, work)

\* With and without the cache a SELECT finds the same
\* (tests/query-result-cache-smoke.mjs:47, :71).
CacheOnAsOff ==
    txn = "idle" /\ ~unavailable => \A q \in Literals : cache[CacheKey(q)] # Absent =>
                                            cache[CacheKey(q)] = Selected(q, work)

\* Only what was not undone is labelled committed
\* (docs/transaction-progress.md:17, :21).
CommittedLabelsStay == acked \subseteq disk

\* A checkpoint that is due is taken once the clients leave the database idle.
DueCheckpointRuns ==
    <>[](txn = "idle" /\ call = "none" /\ ~unavailable /\ ~sick) => (Due ~> ~Due)
=============================================================================
