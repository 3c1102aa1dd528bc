-------------------------- MODULE StatementsProofs --------------------------
(***************************************************************************)
(* What the transaction layer of Database promises, for every set of       *)
(* writes, savepoints and literals and any number of failures; and what    *)
(* the proofs about tables and catalog say of the instances beside it.     *)
(*                                                                         *)
(* The argument: every content the process may still come to show - the    *)
(* open batch and the savepoints of the transaction - grows out of what is *)
(* on disk by writes that no answer has called committed or denied         *)
(* (Showable), so that a commit of any of them keeps what was promised.    *)
(***************************************************************************)
EXTENDS MCStatements, TLAPS

-----------------------------------------------------------------------------
(* The inductive invariant *)

Pend == Labelled(results, "pending")
Comm == Labelled(results, "committed")
Back == Labelled(results, "rolledBack")

\* Only writes that were sent are anywhere.
Sent == disk \cup acked \cup denied \cup Pend \cup Comm \cup Back \subseteq issued

\* A call works on a sound file, and leaves no results behind.
Calls == (call # "none" => ~sick /\ ~unavailable) /\ (call = "none" => results = << >>)

\* A content that may be committed without breaking a promise.
Showable(S) ==
    /\ disk \subseteq S /\ S \subseteq issued
    /\ (acked \cup Comm) \cap S \subseteq disk
    /\ (denied \cup Back) \cap S = {}

\* What the transaction may still come to show.
Open ==
    /\ txn # "active" => work = disk /\ Pend = {}
    /\ txn = "active" =>
         /\ Showable(work) /\ Pend \ undone \subseteq work
         /\ \A n \in Names : saves[n] # Absent => Showable(saves[n])

\* The labels given and still to be given agree with the file.
Promised ==
    /\ (acked \cup Comm) \ undone \subseteq disk
    /\ (denied \cup Back \cup Pend) \cap disk = {}

IInv == TypeOK /\ Sent /\ Calls /\ Open /\ Promised

\* What a SELECT with key k finds in content.
Finds(k, found, content) == \E q \in Literals : CacheKey(q) = k /\ found = Selected(q, content)

\* Cached results are those of the file; a transaction that has changed something
\* has none.
Cached ==
    \A k \in Literals : cache[k] # Absent =>
        /\ ~unavailable => Finds(k, cache[k], disk)
        /\ txn = "active" => work = disk /\ \A n \in Names : saves[n] \in {Absent, disk}

-----------------------------------------------------------------------------
(* Results and their labels *)

States == {"pending", "committed", "rolledBack"}

\* The labels of one more result.
LEMMA LabelledAppend ==
    ASSUME NEW rs \in Seq(Result), NEW w \in Writes, NEW s \in States, NEW t \in States
    PROVE  /\ Append(rs, [write |-> w, state |-> s]) \in Seq(Result)
           /\ Labelled(Append(rs, [write |-> w, state |-> s]), t) =
                  Labelled(rs, t) \cup (IF s = t THEN {w} ELSE {})
  <1> DEFINE r == [write |-> w, state |-> s]
             all == Append(rs, r)
  <1>1. r \in Result
    BY DEF Result, States
  <1>2. all \in Seq(Result) /\ Len(all) = Len(rs) + 1 /\ DOMAIN all = 1..(Len(rs) + 1)
        /\ DOMAIN rs = 1..Len(rs) /\ Len(rs) \in Nat
    BY <1>1
  <1>3. \A i \in 1..Len(rs) : all[i] = rs[i]
    BY <1>1
  <1>4. all[Len(rs) + 1] = r
    BY <1>1
  <1>5. Labelled(all, t) \subseteq Labelled(rs, t) \cup (IF s = t THEN {w} ELSE {})
    <2> SUFFICES ASSUME NEW i \in DOMAIN all, all[i].state = t
                 PROVE  all[i].write \in Labelled(rs, t) \cup (IF s = t THEN {w} ELSE {})
      BY DEF Labelled
    <2>1. CASE i \in 1..Len(rs)
      BY <2>1, <1>2, <1>3 DEF Labelled
    <2>2. CASE i = Len(rs) + 1
      BY <2>2, <1>4
    <2> QED BY <2>1, <2>2, <1>2
  <1>6. Labelled(rs, t) \subseteq Labelled(all, t)
    <2> SUFFICES ASSUME NEW i \in DOMAIN rs, rs[i].state = t
                 PROVE  rs[i].write \in Labelled(all, t)
      BY DEF Labelled
    <2>1. i \in DOMAIN all /\ all[i] = rs[i]
      BY <1>2, <1>3
    <2> QED BY <2>1 DEF Labelled
  <1>7. s = t => w \in Labelled(all, t)
    <2>1. Len(rs) + 1 \in DOMAIN all
      BY <1>2
    <2> QED BY <2>1, <1>4 DEF Labelled
  <1> QED BY <1>2, <1>5, <1>6, <1>7

\* Relabelling moves the writes of one label to another.
LEMMA LabelledRelabel ==
    ASSUME NEW rs \in Seq(Result), NEW new \in {"committed", "rolledBack"}, NEW t \in States
    PROVE  /\ Relabel(rs, "pending", new) \in Seq(Result)
           /\ Labelled(Relabel(rs, "pending", new), t) =
                  CASE t = "pending" -> {}
                    [] t = new -> Labelled(rs, t) \cup Labelled(rs, "pending")
                    [] OTHER -> Labelled(rs, t)
  <1> DEFINE all == Relabel(rs, "pending", new)
  <1>1. DOMAIN all = DOMAIN rs /\ DOMAIN rs = 1..Len(rs) /\ Len(rs) \in Nat
    BY DEF Relabel
  <1>2. ASSUME NEW i \in DOMAIN rs
        PROVE  /\ all[i] \in Result /\ rs[i] \in Result
               /\ all[i].write = rs[i].write
               /\ all[i].state = IF rs[i].state = "pending" THEN new ELSE rs[i].state
    <2>1. rs[i] \in Result
      OBVIOUS
    <2>2. all[i] = IF rs[i].state = "pending" THEN [rs[i] EXCEPT !.state = new] ELSE rs[i]
      BY DEF Relabel
    <2> QED BY <2>1, <2>2 DEF Result
  <1>3. all \in Seq(Result)
    <2>1. all \in [1..Len(rs) -> Result]
      <3>1. all = [i \in 1..Len(rs) |-> all[i]]
        BY <1>1 DEF Relabel
      <3> QED BY <3>1, <1>1, <1>2
    <2> QED BY <2>1, <1>1
  <1>4. ASSUME NEW u \in States, NEW w
        PROVE  w \in Labelled(rs, u) <=> \E i \in DOMAIN rs : rs[i].state = u /\ w = rs[i].write
    BY DEF Labelled
  <1>5. ASSUME NEW w
        PROVE  w \in Labelled(all, t) <=> \E i \in DOMAIN rs : all[i].state = t /\ w = rs[i].write
    BY <1>1, <1>2 DEF Labelled
  <1>6. CASE t = "pending"
    <2>1. \A i \in DOMAIN rs : all[i].state # t
      BY <1>2, <1>6
    <2> QED BY <2>1, <1>3, <1>5, <1>6
  <1>7. CASE t = new
    <2>1. \A i \in DOMAIN rs : all[i].state = t <=> rs[i].state \in {t, "pending"}
      BY <1>2, <1>7
    <2>2. ASSUME NEW w
          PROVE  w \in Labelled(all, t) <=> w \in Labelled(rs, t) \cup Labelled(rs, "pending")
      BY <2>1, <1>5, <1>4, <1>7 DEF States
    <2> QED BY <2>2, <1>3, <1>7
  <1>8. CASE t # new /\ t # "pending"
    <2>1. \A i \in DOMAIN rs : all[i].state = t <=> rs[i].state = t
      BY <1>2, <1>8
    <2>2. ASSUME NEW w
          PROVE  w \in Labelled(all, t) <=> w \in Labelled(rs, t)
      BY <2>1, <1>5, <1>4
    <2> QED BY <2>2, <1>3, <1>8
  <1> QED BY <1>6, <1>7, <1>8

\* No results, no labels; a label is a label of writes.
LEMMA LabelledBounds ==
    /\ << >> \in Seq(Result)
    /\ \A t : Labelled(<< >>, t) = {}
    /\ \A rs \in Seq(Result), t \in States : Labelled(rs, t) \subseteq Writes
  <1>1. \A t : Labelled(<< >>, t) = {}
    BY DEF Labelled
  <1>2. ASSUME NEW rs \in Seq(Result), NEW t \in States
        PROVE  Labelled(rs, t) \subseteq Writes
    <2>1. \A i \in DOMAIN rs : rs[i] \in Result
      OBVIOUS
    <2> QED BY <2>1 DEF Labelled, Result
  <1> QED BY <1>1, <1>2

-----------------------------------------------------------------------------
(* Types *)

\* The parts of an answer have their types.
LEMMA AnswerType ==
    ASSUME TypeOK, NEW rs \in Seq(Result), NEW failing \in SUBSET Writes, NEW unknown \in BOOLEAN,
           Answer(rs, failing, unknown)
    PROVE  /\ call' \in {"none", "session", "script"} /\ results' \in Seq(Result)
           /\ reply'.results \in Seq(Result) /\ reply'.unknown \in BOOLEAN
           /\ acked' \in SUBSET Writes /\ denied' \in SUBSET Writes
  <1>1. acked \in SUBSET Writes /\ denied \in SUBSET Writes
    BY DEF TypeOK
  <1>2. Labelled(rs, "committed") \subseteq Writes /\ Labelled(rs, "rolledBack") \subseteq Writes
    BY LabelledBounds DEF States
  <1>3. acked' \in SUBSET Writes /\ denied' \in SUBSET Writes
    BY <1>1, <1>2 DEF Answer
  <1>4. reply'.results = rs /\ reply'.unknown = unknown /\ call' = "none" /\ results' = << >>
    BY DEF Answer
  <1> QED BY <1>3, <1>4, LabelledBounds

\* The parts of a failed statement have their types.
LEMMA FailedType ==
    ASSUME TypeOK, disk' \in SUBSET Writes, sick' \in BOOLEAN,
           NEW state \in {"idle", "active", "aborted"}, NEW failing \in SUBSET Writes,
           NEW unknown \in BOOLEAN, Failed(state, failing, unknown)
    PROVE  /\ work' \in SUBSET Writes /\ txn' \in {"idle", "active", "aborted"}
           /\ saves' \in [Names -> (SUBSET Writes) \cup {Absent}]
           /\ written' \in Nat /\ unavailable' \in BOOLEAN
           /\ call' \in {"none", "session", "script"} /\ results' \in Seq(Result)
           /\ reply'.results \in Seq(Result) /\ reply'.unknown \in BOOLEAN
           /\ acked' \in SUBSET Writes /\ denied' \in SUBSET Writes
  <1>1. results \in Seq(Result) /\ Relabel(results, "pending", "rolledBack") \in Seq(Result)
    BY LabelledRelabel DEF TypeOK, States
  <1>2. CASE state = "active" /\ sick'
    <2>1. Answer(results, failing, TRUE)
      BY <1>2 DEF Failed
    <2>2. work' = disk' /\ unavailable' = TRUE /\ txn' = "aborted" /\ saves' = saves /\ written' = written
      BY <1>2 DEF Failed
    <2> QED BY <2>1, <2>2, <1>1, AnswerType DEF TypeOK
  <1>3. CASE ~(state = "active" /\ sick')
    <2> DEFINE rs == IF state = "active" THEN Relabel(results, "pending", "rolledBack") ELSE results
    <2>1. Answer(rs, failing, unknown \/ sick')
      BY <1>3 DEF Failed
    <2>2. rs \in Seq(Result) /\ (unknown \/ sick') \in BOOLEAN
      BY <1>1
    <2>3. /\ call' \in {"none", "session", "script"} /\ results' \in Seq(Result)
          /\ reply'.results \in Seq(Result) /\ reply'.unknown \in BOOLEAN
          /\ acked' \in SUBSET Writes /\ denied' \in SUBSET Writes
      BY <2>1, <2>2, AnswerType
    <2>4. /\ work' = disk' /\ txn' \in {"idle", "aborted"} /\ unavailable' = sick'
          /\ saves' \in {NoSaves, saves} /\ written' \in {0, written}
      BY <1>3 DEF Failed
    <2>5. saves' \in [Names -> (SUBSET Writes) \cup {Absent}]
      BY <2>4 DEF NoSaves, TypeOK
    <2> QED BY <2>3, <2>4, <2>5 DEF TypeOK
  <1> QED BY <1>2, <1>3

\* Counting the writes towards a checkpoint.
LEMMA CheckpointType ==
    ASSUME TypeOK, NEW n \in Nat, NEW done \in BOOLEAN, AutoCheckpoint(n, done)
    PROVE  pending' \in Nat /\ deferred' = deferred
  BY DEF AutoCheckpoint, TypeOK

\* No savepoints, no cached results.
LEMMA EmptyType ==
    /\ NoSaves \in [Names -> (SUBSET Writes) \cup {Absent}]
    /\ NoCache \in [Literals -> (SUBSET Writes) \cup {Absent}]
    /\ NoReply.results \in Seq(Result) /\ NoReply.unknown \in BOOLEAN
  <1>1. NoReply.results = << >> /\ NoReply.unknown = FALSE
    BY DEF NoReply
  <1> QED BY <1>1, LabelledBounds DEF NoSaves, NoCache

\* One more failure stays within the bound.
LEMMA FaultType ==
    ASSUME TypeOK, UNCHANGED faults \/ Fault
    PROVE  faults' \in 0..MaxFaults
  <1>1. MaxFaults \in Nat
    BY TransactionsAssumption
  <1> QED BY <1>1 DEF Fault, TypeOK

\* Every step keeps the types.
LEMMA TypeStep ==
    ASSUME TypeOK, [Next]_vars
    PROVE  TypeOK'
  <1>1. ASSUME NEW kind \in {"session", "script"}, Start(kind)
        PROVE  TypeOK'
    BY <1>1, EmptyType, LabelledBounds DEF Start, TypeOK, store, session, checkpointing, ghosts
  <1>2. CASE Finish
    <2>1. CASE call = "script" /\ txn # "idle"
      <3>1. Relabel(results, "pending", "rolledBack") \in Seq(Result)
        BY LabelledRelabel DEF TypeOK, States
      <3>2. Answer(Relabel(results, "pending", "rolledBack"), {}, FALSE)
        BY <1>2, <2>1 DEF Finish
      <3> QED BY <1>2, <2>1, <3>1, <3>2, AnswerType, EmptyType DEF Finish, TypeOK, checkpointing
    <2>2. CASE ~(call = "script" /\ txn # "idle")
      <3>1. Answer(results, {}, FALSE)
        BY <1>2, <2>2 DEF Finish
      <3>2. results \in Seq(Result)
        BY DEF TypeOK
      <3> QED BY <1>2, <2>2, <3>1, <3>2, AnswerType DEF Finish, TypeOK, checkpointing
    <2> QED BY <2>1, <2>2
  <1>3. CASE StatementFails
    <2>1. Failed(txn, {}, FALSE) /\ txn \in {"idle", "active", "aborted"}
      BY <1>3 DEF StatementFails, TypeOK
    <2>2. UNCHANGED <<disk, sick, checkpointing, cache, issued, undone, faults>>
      BY <1>3 DEF StatementFails
    <2>3. disk' \in SUBSET Writes /\ sick' \in BOOLEAN
      BY <2>2 DEF TypeOK
    <2> QED BY <2>1, <2>2, <2>3, FailedType DEF TypeOK, checkpointing
  <1>4. CASE Begin
    BY <1>4, EmptyType DEF Begin, TypeOK, store, checkpointing, answers, ghosts
  <1>5. CASE Rollback
    <2>1. results' \in Seq(Result)
      BY <1>5, LabelledRelabel DEF Rollback, TypeOK, States
    <2> QED BY <1>5, <2>1, EmptyType DEF Rollback, TypeOK, checkpointing, ghosts
  <1>6. CASE Commit
    <2>1. results' \in Seq(Result)
      BY <1>6, LabelledRelabel DEF Commit, TypeOK, States
    <2>2. pending' \in Nat /\ deferred' = deferred
      BY <1>6, CheckpointType DEF Commit, TypeOK
    <2> QED BY <1>6, <2>1, <2>2, EmptyType DEF Commit, TypeOK, ghosts
  <1>7. ASSUME NEW n \in Names, Savepoint(n) \/ ReleaseSavepoint(n) \/ RollbackTo(n)
        PROVE  TypeOK'
    <2>1. CASE Savepoint(n)
      BY <2>1 DEF Savepoint, TypeOK, store, checkpointing, answers, ghosts
    <2>2. CASE ReleaseSavepoint(n)
      BY <2>2 DEF ReleaseSavepoint, TypeOK, store, checkpointing, answers, ghosts
    <2>3. CASE RollbackTo(n)
      BY <2>3 DEF RollbackTo, TypeOK, session, checkpointing, answers
    <2> QED BY <1>7, <2>1, <2>2, <2>3
  <1>8. ASSUME NEW w \in Writes,
               \/ WriteInTransaction(w) \/ WriteAutocommitted(w) \/ WriteRefused(w)
               \/ AutocommitFails(w) \/ AutocommitCheckpointFails(w)
        PROVE  TypeOK'
    <2>1. \A s \in States : Append(results, [write |-> w, state |-> s]) \in Seq(Result)
      BY LabelledAppend DEF TypeOK
    <2>2. CASE WriteInTransaction(w)
      BY <2>1, <2>2, EmptyType DEF WriteInTransaction, TypeOK, States, checkpointing
    <2>3. CASE WriteAutocommitted(w)
      <3>1. pending' \in Nat /\ deferred' = deferred
        BY <2>3, CheckpointType DEF WriteAutocommitted
      <3> QED BY <2>1, <2>3, <3>1, EmptyType DEF WriteAutocommitted, TypeOK, States, session
    <2>4. CASE WriteRefused(w)
      <3>1. Failed(txn, {w}, FALSE) /\ txn \in {"idle", "active", "aborted"}
        BY <2>4 DEF WriteRefused, TypeOK
      <3>2. /\ UNCHANGED <<disk, sick, checkpointing, cache, undone, faults>>
            /\ issued' = issued \cup {w}
        BY <2>4 DEF WriteRefused
      <3>3. disk' \in SUBSET Writes /\ sick' \in BOOLEAN
        BY <3>2 DEF TypeOK
      <3> QED BY <3>1, <3>2, <3>3, FailedType DEF TypeOK, checkpointing
    <2>5. CASE AutocommitFails(w)
      <3>1. Failed("idle", {w}, TRUE)
        BY <2>5 DEF AutocommitFails
      <3>2. /\ UNCHANGED <<checkpointing, cache, undone>>
            /\ issued' = issued \cup {w} /\ faults' \in 0..MaxFaults
        BY <2>5, FaultType DEF AutocommitFails
      <3>3. disk' \in SUBSET Writes /\ sick' \in BOOLEAN
        BY <2>5 DEF AutocommitFails, CommitBreaks, TypeOK
      <3> QED BY <3>1, <3>2, <3>3, FailedType DEF TypeOK, checkpointing
    <2>6. CASE AutocommitCheckpointFails(w)
      <3>1. pending' \in Nat /\ deferred' = deferred
        BY <2>6, CheckpointType DEF AutocommitCheckpointFails
      <3>2. Answer(results, {w}, TRUE) /\ results \in Seq(Result) /\ faults' \in 0..MaxFaults
        BY <2>6, FaultType DEF AutocommitCheckpointFails, TypeOK
      <3> QED BY <2>6, <3>1, <3>2, AnswerType, EmptyType DEF AutocommitCheckpointFails, TypeOK
    <2> QED BY <1>8, <2>2, <2>3, <2>4, <2>5, <2>6
  <1>9. ASSUME NEW q \in Literals, Select(q)
        PROVE  TypeOK'
    <2>1. Selected(q, work) \in SUBSET Writes
      BY DEF Selected, TypeOK
    <2> QED BY <1>9, <2>1 DEF Select, CacheKey, TypeOK, store, session, checkpointing, answers, ghosts
  <1>10. CASE Checkpoint
    BY <1>10 DEF Checkpoint, TypeOK, store, session, answers, ghosts
  <1>11. CASE CommitFails
    <2>1. Failed("active", {}, TRUE)
      BY <1>11 DEF CommitFails
    <2>2. UNCHANGED <<checkpointing, cache, issued, undone>> /\ faults' \in 0..MaxFaults
      BY <1>11, FaultType DEF CommitFails
    <2>3. disk' \in SUBSET Writes /\ sick' \in BOOLEAN
      BY <1>11 DEF CommitFails, CommitBreaks, TypeOK
    <2> QED BY <2>1, <2>2, <2>3, FailedType DEF TypeOK, checkpointing
  <1>12. CASE CommitCheckpointFails
    <2>1. pending' \in Nat /\ deferred' = deferred
      BY <1>12, CheckpointType DEF CommitCheckpointFails, TypeOK
    <2>2. Answer(results, {}, TRUE) /\ results \in Seq(Result) /\ faults' \in 0..MaxFaults
      BY <1>12, FaultType DEF CommitCheckpointFails, TypeOK
    <2> QED BY <1>12, <2>1, <2>2, AnswerType, EmptyType DEF CommitCheckpointFails, TypeOK
  <1>13. CASE Reopens /\ (UNCHANGED faults \/ Fault)
    BY <1>13, EmptyType, LabelledBounds, FaultType DEF Reopens, TypeOK, ghosts
  <1>14. CASE SchedulerDefers
    BY <1>14 DEF SchedulerDefers, TypeOK, store, session, answers, ghosts
  <1>15. CASE SchedulerCheckpoints
    BY <1>15 DEF SchedulerCheckpoints, TypeOK, store, session, answers, ghosts
  <1>16. CASE UNCHANGED vars
    BY <1>16 DEF vars, TypeOK, store, session, checkpointing, answers, ghosts
  <1> QED BY <1>1, <1>2, <1>3, <1>4, <1>5, <1>6, <1>7, <1>8, <1>9, <1>10, <1>11, <1>12, <1>13,
             <1>14, <1>15, <1>16 DEF Next, Reopen, SchedulerDies

-----------------------------------------------------------------------------
(* How the labels of a call move *)

LEMMA LabelsKept ==
    ASSUME results' = results
    PROVE  Pend' = Pend /\ Comm' = Comm /\ Back' = Back
  BY DEF Pend, Comm, Back

LEMMA LabelsCleared ==
    ASSUME results' = << >>
    PROVE  Pend' = {} /\ Comm' = {} /\ Back' = {}
  BY LabelledBounds DEF Pend, Comm, Back

LEMMA LabelsOne ==
    ASSUME TypeOK, NEW w \in Writes, NEW s \in States,
           results' = Append(results, [write |-> w, state |-> s])
    PROVE  /\ Pend' = Pend \cup (IF s = "pending" THEN {w} ELSE {})
           /\ Comm' = Comm \cup (IF s = "committed" THEN {w} ELSE {})
           /\ Back' = Back \cup (IF s = "rolledBack" THEN {w} ELSE {})
  <1>1. results \in Seq(Result)
    BY DEF TypeOK
  <1>2. \A t \in States : Labelled(results', t) = Labelled(results, t) \cup (IF s = t THEN {w} ELSE {})
    BY <1>1, LabelledAppend
  <1> QED BY <1>2 DEF Pend, Comm, Back, States

\* The labels of the answer when what was pending gets a new one.
LEMMA LabelsMoved ==
    ASSUME TypeOK
    PROVE  LET rolledBack == Relabel(results, "pending", "rolledBack")
               committed == Relabel(results, "pending", "committed")
           IN /\ Labelled(rolledBack, "pending") = {} /\ Labelled(committed, "pending") = {}
              /\ Labelled(rolledBack, "committed") = Comm
              /\ Labelled(rolledBack, "rolledBack") = Back \cup Pend
              /\ Labelled(committed, "committed") = Comm \cup Pend
              /\ Labelled(committed, "rolledBack") = Back
  <1>1. results \in Seq(Result)
    BY DEF TypeOK
  <1>2. \A new \in {"committed", "rolledBack"} :
           /\ Labelled(Relabel(results, "pending", new), "pending") = {}
           /\ \A t \in {"committed", "rolledBack"} :
                 Labelled(Relabel(results, "pending", new), t) =
                     IF t = new THEN Labelled(results, t) \cup Labelled(results, "pending")
                     ELSE Labelled(results, t)
    BY <1>1, LabelledRelabel DEF States
  <1> QED BY <1>2 DEF Pend, Comm, Back

-----------------------------------------------------------------------------
(* Every step keeps the invariant *)

\* The invariant without its types.
Sound == Sent /\ Calls /\ Open /\ Promised

\* A call that answers with its results as they are.
LEMMA AnswerStep ==
    ASSUME NEW failing, NEW unknown \in BOOLEAN, Answer(results, failing, unknown)
    PROVE  /\ acked' = acked \cup Comm
           /\ denied' = denied \cup Back \cup (IF unknown THEN {} ELSE failing)
           /\ Pend' = {} /\ Comm' = {} /\ Back' = {}
           /\ call' = "none" /\ results' = << >>
  <1>1. results' = << >> /\ call' = "none"
    BY DEF Answer
  <1> QED BY <1>1, LabelsCleared DEF Answer, Comm, Back

\* A failure of any kind, with the batch of the statement rolled back: disk' is
\* what the file holds after it.
LEMMA FailedStep ==
    ASSUME IInv, call # "none", NEW failing \in SUBSET Writes, NEW unknown \in BOOLEAN,
           Failed(txn, failing, unknown),
           issued \cup failing \subseteq issued', undone' = undone, failing \cap issued = {},
           disk \subseteq disk', disk' \subseteq issued',
           unknown \/ failing \cap disk' = {}, (denied \cup Back) \cap disk' = {},
           sick' \/ txn # "active" \/ disk' = disk, sick' \in BOOLEAN
    PROVE  Sound'
  <1>1. call' = "none" /\ results' = << >> /\ work' = disk' /\ txn' # "active"
    BY DEF Failed, Answer
  <1>2. Pend' = {} /\ Comm' = {} /\ Back' = {}
    BY <1>1, LabelsCleared
  <1>3. /\ acked' = acked \cup Comm
        /\ denied \cup Back \subseteq denied'
        /\ denied' \subseteq denied \cup Back \cup Pend \cup failing
        /\ denied' \cap disk' = {}
    <2>1. CASE txn = "active" /\ sick'
      <3>1. Answer(results, failing, TRUE)
        BY <2>1 DEF Failed
      <3>2. /\ acked' = acked \cup Comm
            /\ denied' = denied \cup Back
        BY <3>1, AnswerStep
      <3> QED BY <3>2
    <2>2. CASE txn = "active" /\ ~sick'
      <3>1. Answer(Relabel(results, "pending", "rolledBack"), failing, unknown \/ sick')
        BY <2>2 DEF Failed
      <3>2. /\ acked' = acked \cup Comm
            /\ denied' = denied \cup (Back \cup Pend) \cup (IF unknown THEN {} ELSE failing)
        BY <2>2, <3>1, LabelsMoved DEF Answer, IInv
      <3>3. (Pend \cap disk' = {}) /\ (failing = {} \/ unknown \/ failing \cap disk' = {})
        BY <2>2 DEF IInv, Promised
      <3> QED BY <3>2, <3>3
    <2>3. CASE txn # "active"
      <3>1. Answer(results, failing, unknown \/ sick')
        BY <2>3 DEF Failed
      <3>2. /\ acked' = acked \cup Comm
            /\ denied' = denied \cup Back \cup (IF unknown \/ sick' THEN {} ELSE failing)
        BY <3>1, AnswerStep
      <3> QED BY <3>2
    <2> QED BY <2>1, <2>2, <2>3
  <1>4. Sent'
    BY <1>2, <1>3 DEF IInv, Sent
  <1>5. Calls' /\ Open'
    BY <1>1, <1>2 DEF Calls, Open
  <1>6. Promised'
    BY <1>2, <1>3 DEF IInv, Promised
  <1> QED BY <1>4, <1>5, <1>6 DEF Sound

\* The invariant looks at these variables only.
LEMMA StutterStep ==
    ASSUME IInv, UNCHANGED <<store, session, answers, ghosts>>
    PROVE  Sound'
  <1>1. Pend' = Pend /\ Comm' = Comm /\ Back' = Back
    BY LabelsKept DEF answers
  <1>2. Sent' /\ Calls' /\ Promised'
    BY <1>1 DEF IInv, Sent, Calls, Promised, store, session, answers, ghosts
  <1>3. Open'
    BY <1>1 DEF IInv, Open, Showable, store, session, answers, ghosts
  <1> QED BY <1>2, <1>3 DEF Sound

LEMMA StartStep ==
    ASSUME IInv, NEW kind \in {"session", "script"}, Start(kind)
    PROVE  Sound'
  <1>1. Pend' = {} /\ Comm' = {} /\ Back' = {}
    BY LabelsCleared DEF Start
  <1>2. Sent' /\ Calls' /\ Promised'
    BY <1>1 DEF IInv, Sent, Calls, Promised, Start, store, session, ghosts
  <1>3. Open'
    BY <1>1 DEF IInv, Open, Showable, Start, store, session, ghosts
  <1> QED BY <1>2, <1>3 DEF Sound

LEMMA FinishStep ==
    ASSUME IInv, Finish
    PROVE  Sound'
  <1>1. CASE call = "script" /\ txn # "idle"
    <2>1. /\ txn' = "idle" /\ work' = disk /\ UNCHANGED <<disk, issued, undone>>
          /\ Answer(Relabel(results, "pending", "rolledBack"), {}, FALSE)
      BY <1>1 DEF Finish
    <2>2. acked' = acked \cup Comm /\ denied' = denied \cup (Back \cup Pend)
      BY <2>1, LabelsMoved DEF Answer, IInv
    <2>3. call' = "none" /\ results' = << >> /\ Pend' = {} /\ Comm' = {} /\ Back' = {}
      BY <2>1, LabelsCleared DEF Answer
    <2>4. Sent' /\ Calls' /\ Open' /\ Promised'
      BY <2>1, <2>2, <2>3 DEF IInv, Sent, Calls, Open, Promised
    <2> QED BY <2>4 DEF Sound
  <1>2. CASE ~(call = "script" /\ txn # "idle")
    <2>1. /\ Answer(results, {}, FALSE) /\ UNCHANGED <<txn, saves, work, disk, issued, undone>>
      BY <1>2 DEF Finish
    <2>2. /\ acked' = acked \cup Comm /\ denied' = denied \cup Back
          /\ call' = "none" /\ results' = << >> /\ Pend' = {} /\ Comm' = {} /\ Back' = {}
      BY <2>1, AnswerStep
    <2>3. Sent' /\ Calls' /\ Promised'
      BY <2>1, <2>2 DEF IInv, Sent, Calls, Promised
    <2>4. Open'
      BY <2>1, <2>2 DEF IInv, Open, Showable
    <2> QED BY <2>3, <2>4 DEF Sound
  <1> QED BY <1>1, <1>2

LEMMA BeginStep ==
    ASSUME IInv, Begin
    PROVE  Sound'
  <1>1. Pend' = Pend /\ Comm' = Comm /\ Back' = Back
    BY LabelsKept DEF Begin, answers
  <1>2. Sent' /\ Calls' /\ Promised'
    BY <1>1 DEF IInv, Sent, Calls, Promised, Begin, store, answers, ghosts
  <1>3. \A n \in Names : saves'[n] = Absent
    BY DEF Begin, NoSaves
  <1>4. work = disk /\ Pend = {} /\ UNCHANGED <<work, disk, issued, acked, denied>> /\ txn' = "active"
    BY DEF Begin, IInv, Open, store, ghosts
  <1>5. Showable(work)'
    BY <1>1, <1>4 DEF IInv, Sent, Promised, Showable
  <1>6. Open'
    BY <1>1, <1>3, <1>4, <1>5 DEF Open
  <1> QED BY <1>2, <1>6 DEF Sound

LEMMA RollbackStep ==
    ASSUME IInv, Rollback
    PROVE  Sound'
  <1>1. Pend' = {} /\ Comm' = Comm /\ Back' = Back \cup Pend
    BY LabelsMoved DEF Rollback, IInv, Pend, Comm, Back
  <1> QED BY <1>1 DEF Sound, IInv, Sent, Calls, Open, Promised, Rollback, ghosts

LEMMA CommitStep ==
    ASSUME IInv, Commit
    PROVE  Sound'
  <1>1. Pend' = {} /\ Comm' = Comm \cup Pend /\ Back' = Back
    BY LabelsMoved DEF Commit, IInv, Pend, Comm, Back
  <1>2. Showable(work) /\ Pend \ undone \subseteq work
    BY DEF IInv, Open, Commit
  <1> QED BY <1>1, <1>2 DEF Sound, IInv, Sent, Calls, Open, Promised, Showable, Commit, ghosts

LEMMA SavepointStep ==
    ASSUME IInv, NEW n \in Names, Savepoint(n) \/ ReleaseSavepoint(n)
    PROVE  Sound'
  <1>1. /\ Pend' = Pend /\ Comm' = Comm /\ Back' = Back
        /\ UNCHANGED <<store, txn, unavailable, answers, ghosts>>
    BY LabelsKept DEF Savepoint, ReleaseSavepoint, answers
  <1>2. Sent' /\ Calls' /\ Promised'
    BY <1>1 DEF IInv, Sent, Calls, Promised, store, answers, ghosts
  <1>3. \A S : Showable(S)' <=> Showable(S)
    BY <1>1 DEF Showable, store, ghosts
  <1>4. ASSUME NEW m \in Names PROVE saves'[m] \in {saves[m], work, Absent}
    BY DEF Savepoint, ReleaseSavepoint, IInv, TypeOK
  <1>5. txn = "active" /\ txn' = "active" /\ work' = work /\ undone' = undone
    BY <1>1 DEF Savepoint, ReleaseSavepoint, store, ghosts
  <1>6. Open'
    BY <1>1, <1>3, <1>4, <1>5 DEF IInv, Open, Showable, store, ghosts
  <1> QED BY <1>2, <1>6 DEF Sound

LEMMA RollbackToStep ==
    ASSUME IInv, NEW n \in Names, RollbackTo(n)
    PROVE  Sound'
  <1>1. Pend' = Pend /\ Comm' = Comm /\ Back' = Back
    BY LabelsKept DEF RollbackTo, answers
  <1>2. /\ txn = "active" /\ work' = saves[n] /\ undone' = (undone \cup work) \ saves[n]
        /\ UNCHANGED <<disk, sick, session, answers, issued, denied, acked>>
    BY DEF RollbackTo
  <1>3. Showable(work) /\ Showable(saves[n]) /\ Pend \ undone \subseteq work
    BY DEF IInv, Open, RollbackTo
  <1>4. Sent' /\ Calls'
    BY <1>1, <1>2 DEF IInv, Sent, Calls, session, answers
  <1>5. Promised'
    BY <1>1, <1>2, <1>3 DEF IInv, Promised, Showable
  <1>6. Open'
    BY <1>1, <1>2, <1>3 DEF IInv, Open, Showable, session
  <1> QED BY <1>4, <1>5, <1>6 DEF Sound

LEMMA WriteInTransactionStep ==
    ASSUME IInv, NEW w \in Writes, WriteInTransaction(w)
    PROVE  Sound'
  <1>1. Pend' = Pend \cup {w} /\ Comm' = Comm /\ Back' = Back
    BY LabelsOne DEF WriteInTransaction, IInv, States
  <1>2. /\ txn = "active" /\ w \notin issued /\ issued' = issued \cup {w} /\ work' = work \cup {w}
        /\ UNCHANGED <<disk, sick, txn, saves, unavailable, call, undone, denied, acked>>
    BY DEF WriteInTransaction
  <1>3. call # "none"
    BY DEF WriteInTransaction
  <1>4. Sent' /\ Calls' /\ Promised'
    BY <1>1, <1>2, <1>3 DEF IInv, Sent, Calls, Promised
  <1>5. Open'
    <2>1. Showable(work) /\ Pend \ undone \subseteq work
          /\ \A n \in Names : saves[n] # Absent => Showable(saves[n])
      BY <1>2 DEF IInv, Open
    <2>2. w \notin disk \cup acked \cup denied \cup Comm \cup Back
      BY <1>2 DEF IInv, Sent
    <2>3. Showable(work)'
      BY <1>1, <1>2, <2>1, <2>2 DEF Showable
    <2>4. ASSUME NEW n \in Names, saves'[n] # Absent PROVE Showable(saves[n])'
      BY <1>1, <1>2, <2>1, <2>4 DEF Showable
    <2> QED BY <1>1, <1>2, <2>1, <2>3, <2>4 DEF Open
  <1> QED BY <1>4, <1>5 DEF Sound

LEMMA WriteAutocommittedStep ==
    ASSUME IInv, NEW w \in Writes, WriteAutocommitted(w)
    PROVE  Sound'
  <1>1. Pend' = Pend /\ Comm' = Comm \cup {w} /\ Back' = Back
    BY LabelsOne DEF WriteAutocommitted, IInv, States
  <1>2. /\ txn = "idle" /\ w \notin issued /\ issued' = issued \cup {w}
        /\ disk' = disk \cup {w} /\ work' = disk' /\ call # "none"
        /\ UNCHANGED <<sick, txn, unavailable, call, undone, denied, acked>>
    BY DEF WriteAutocommitted, session
  <1>3. w \notin denied \cup Back \cup Pend
    BY <1>2 DEF IInv, Sent
  <1>4. Sent' /\ Calls' /\ Open' /\ Promised'
    BY <1>1, <1>2, <1>3 DEF IInv, Sent, Calls, Open, Promised
  <1> QED BY <1>4 DEF Sound

LEMMA StatementFailsStep ==
    ASSUME IInv, StatementFails
    PROVE  Sound'
  <1>1. /\ call # "none" /\ Failed(txn, {}, FALSE)
        /\ UNCHANGED <<disk, sick, issued, undone>>
    BY DEF StatementFails
  <1>2. sick' \in BOOLEAN /\ disk' \subseteq issued' /\ (denied \cup Back) \cap disk' = {}
    BY <1>1 DEF IInv, TypeOK, Sent, Promised
  <1> QED BY <1>1, <1>2, FailedStep

LEMMA WriteRefusedStep ==
    ASSUME IInv, NEW w \in Writes, WriteRefused(w)
    PROVE  Sound'
  <1>1. /\ call # "none" /\ Failed(txn, {w}, FALSE) /\ UNCHANGED <<disk, sick, undone>>
        /\ w \notin issued /\ issued' = issued \cup {w}
    BY DEF WriteRefused
  <1>2. /\ sick' \in BOOLEAN /\ disk' \subseteq issued' /\ (denied \cup Back) \cap disk' = {}
        /\ {w} \cap disk' = {}
    BY <1>1 DEF IInv, TypeOK, Sent, Promised
  <1> QED BY <1>1, <1>2, FailedStep

\* Without group commit: with it, what a failed fsync leaves pending is visible.
LEMMA CommitFailsStep ==
    ASSUME ~GroupCommit, IInv, CommitFails
    PROVE  Sound'
  <1>1. /\ call # "none" /\ txn = "active" /\ Failed(txn, {}, TRUE) /\ UNCHANGED <<issued, undone>>
        /\ CommitBreaks(work)
    BY DEF CommitFails
  <1>2. Showable(work)
    BY <1>1 DEF IInv, Open
  <1>3. /\ disk' \in {disk, work} /\ sick' \in BOOLEAN
        /\ sick' \/ disk' = disk
    BY <1>1 DEF CommitBreaks, IInv, TypeOK
  <1>4. disk \subseteq disk' /\ disk' \subseteq issued' /\ (denied \cup Back) \cap disk' = {}
    BY <1>1, <1>2, <1>3 DEF Showable, IInv, Sent, Promised
  <1> QED BY <1>1, <1>3, <1>4, FailedStep

LEMMA AutocommitFailsStep ==
    ASSUME IInv, NEW w \in Writes, AutocommitFails(w)
    PROVE  Sound'
  <1>1. /\ call # "none" /\ txn = "idle" /\ Failed(txn, {w}, TRUE) /\ undone' = undone
        /\ w \notin issued /\ issued' = issued \cup {w} /\ CommitBreaks(disk \cup {w})
    BY DEF AutocommitFails
  <1>2. disk' \in {disk, disk \cup {w}} /\ sick' \in BOOLEAN
    BY <1>1 DEF CommitBreaks, IInv, TypeOK
  <1>3. disk \subseteq disk' /\ disk' \subseteq issued' /\ (denied \cup Back) \cap disk' = {}
    BY <1>1, <1>2 DEF IInv, Sent, Promised
  <1> QED BY <1>1, <1>2, <1>3, FailedStep

LEMMA CommitCheckpointFailsStep ==
    ASSUME IInv, CommitCheckpointFails
    PROVE  Sound'
  <1>1. /\ txn = "active" /\ disk' = work /\ work' = work /\ txn' = "idle"
        /\ UNCHANGED <<issued, undone>> /\ Answer(results, {}, TRUE)
    BY DEF CommitCheckpointFails
  <1>2. /\ acked' = acked \cup Comm /\ denied' = denied \cup Back
        /\ call' = "none" /\ results' = << >> /\ Pend' = {} /\ Comm' = {} /\ Back' = {}
    BY <1>1, AnswerStep
  <1>3. Showable(work)
    BY <1>1 DEF IInv, Open
  <1>4. Sent' /\ Calls' /\ Open' /\ Promised'
    BY <1>1, <1>2, <1>3 DEF IInv, Sent, Calls, Open, Promised, Showable
  <1> QED BY <1>4 DEF Sound

LEMMA AutocommitCheckpointFailsStep ==
    ASSUME IInv, NEW w \in Writes, AutocommitCheckpointFails(w)
    PROVE  Sound'
  <1>1. /\ txn = "idle" /\ w \notin issued /\ issued' = issued \cup {w}
        /\ disk' = disk \cup {w} /\ work' = disk'
        /\ UNCHANGED <<txn, undone>> /\ Answer(results, {w}, TRUE)
    BY DEF AutocommitCheckpointFails
  <1>2. /\ acked' = acked \cup Comm /\ denied' = denied \cup Back
        /\ call' = "none" /\ results' = << >> /\ Pend' = {} /\ Comm' = {} /\ Back' = {}
    BY <1>1, AnswerStep
  <1>3. w \notin denied \cup Back
    BY <1>1 DEF IInv, Sent
  <1>4. Sent' /\ Calls' /\ Open' /\ Promised'
    BY <1>1, <1>2, <1>3 DEF IInv, Sent, Calls, Open, Promised
  <1> QED BY <1>4 DEF Sound

LEMMA ReopensStep ==
    ASSUME IInv, Reopens
    PROVE  Sound'
  <1>1. Pend' = {} /\ Comm' = {} /\ Back' = {}
    BY LabelsCleared DEF Reopens
  <1>2. Sent' /\ Calls' /\ Open' /\ Promised'
    BY <1>1 DEF Reopens, IInv, Sent, Calls, Open, Promised, ghosts
  <1> QED BY <1>2 DEF Sound

LEMMA InvariantInit ==
    ASSUME Init
    PROVE  IInv
  <1>1. TypeOK
    <2>1. 0 \in 0..MaxFaults
      BY TransactionsAssumption
    <2> QED BY <2>1, EmptyType, LabelledBounds DEF Init, TypeOK
  <1>2. Pend = {} /\ Comm = {} /\ Back = {}
    BY LabelledBounds DEF Init, Pend, Comm, Back
  <1> QED BY <1>1, <1>2 DEF Init, IInv, Sent, Calls, Open, Promised

LEMMA InvariantStep ==
    ASSUME ~GroupCommit, IInv, [Next]_vars
    PROVE  IInv'
  <1>1. TypeOK'
    BY TypeStep DEF IInv
  <1> SUFFICES Sound'
    BY <1>1 DEF IInv, Sound
  <1>2. ASSUME NEW kind \in {"session", "script"}, Start(kind) PROVE Sound'
    BY <1>2, StartStep
  <1>3. CASE Finish
    BY <1>3, FinishStep
  <1>4. CASE StatementFails
    BY <1>4, StatementFailsStep
  <1>5. CASE Begin
    BY <1>5, BeginStep
  <1>6. CASE Rollback
    BY <1>6, RollbackStep
  <1>7. CASE Commit
    BY <1>7, CommitStep
  <1>8. ASSUME NEW n \in Names, Savepoint(n) \/ ReleaseSavepoint(n) \/ RollbackTo(n) PROVE Sound'
    BY <1>8, SavepointStep, RollbackToStep
  <1>9. ASSUME NEW w \in Writes,
               \/ WriteInTransaction(w) \/ WriteAutocommitted(w) \/ WriteRefused(w)
               \/ AutocommitFails(w) \/ AutocommitCheckpointFails(w)
        PROVE  Sound'
    BY <1>9, WriteInTransactionStep, WriteAutocommittedStep, WriteRefusedStep,
       AutocommitFailsStep, AutocommitCheckpointFailsStep
  <1>10. ASSUME NEW q \in Literals, Select(q) PROVE Sound'
    BY <1>10, StutterStep DEF Select
  <1>11. CASE CommitFails
    BY <1>11, CommitFailsStep
  <1>12. CASE CommitCheckpointFails
    BY <1>12, CommitCheckpointFailsStep
  <1>13. CASE Reopens
    BY <1>13, ReopensStep
  <1>14. CASE UNCHANGED <<store, session, answers, ghosts>>
    BY <1>14, StutterStep
  <1>15. Checkpoint \/ SchedulerDefers \/ SchedulerCheckpoints \/ UNCHANGED vars
         => UNCHANGED <<store, session, answers, ghosts>>
    BY DEF Checkpoint, SchedulerDefers, SchedulerCheckpoints, vars
  <1> QED
    BY <1>2, <1>3, <1>4, <1>5, <1>6, <1>7, <1>8, <1>9, <1>10, <1>11, <1>12, <1>13, <1>14, <1>15
       DEF Next, Reopen, SchedulerDies

-----------------------------------------------------------------------------
(* What follows *)

\* The invariant holds in every behaviour without group commit.
THEOREM Invariant == ASSUME ~GroupCommit PROVE Spec => []IInv
  <1>1. Init => IInv
    BY InvariantInit
  <1>2. IInv /\ [Next]_vars => IInv'
    BY InvariantStep
  <1> QED BY <1>1, <1>2, PTL DEF Spec

\* Every variable of the transaction layer keeps its type, with group commit too.
THEOREM TypeCorrect == Spec => []TypeOK
  <1>1. Init => TypeOK
    BY InvariantInit DEF IInv
  <1>2. TypeOK /\ [Next]_vars => TypeOK'
    BY TypeStep
  <1> QED BY <1>1, <1>2, PTL DEF Spec

\* What an answer declared committed is on disk from then on, whatever fails and
\* however often the process is restarted (runStatement, rollbackBatch); with group
\* commit the promise waits for the fsync of the group, which PageFile models.
THEOREM CommittedKept == ASSUME ~GroupCommit PROVE Spec => []CommittedStays
  <1>1. IInv => CommittedStays
    BY DEF IInv, Promised, CommittedStays
  <1> QED BY <1>1, Invariant, PTL

\* What an answer denied is never on disk and never shown (executionFailure), as
\* long as commits are not grouped: a batch that is over when its group fails to be
\* fsynced cannot be rolled back (page_file.cpp:610, database.cpp:4807).
THEOREM DeniedGone == ASSUME ~GroupCommit PROVE Spec => []DeniedNeverShows
  <1>1. IInv => DeniedNeverShows
    BY DEF IInv, Promised, Open, Showable, DeniedNeverShows
  <1> QED BY <1>1, Invariant, PTL

\* Outside a transaction the process shows what a reopened file would hold.
THEOREM IdleFaithful == ASSUME ~GroupCommit PROVE Spec => []IdleShowsDisk
  <1>1. IInv => IdleShowsDisk
    BY DEF IInv, Open, IdleShowsDisk
  <1> QED BY <1>1, Invariant, PTL

-----------------------------------------------------------------------------
(* The result cache *)

\* What keeps a cached result from going stale: the transaction that has one has
\* changed nothing yet.
LEMMA CachedStep ==
    ASSUME ~GroupCommit, IInv, Cached, [Next]_vars
    PROVE  Cached'
  <1>1. \A q \in Literals : CacheKey(q) \in Literals
    BY TransactionsAssumption DEF CacheKey
  <1>2. txn # "active" => work = disk
    BY DEF IInv, Open
  <1>3. \A k \in Literals : NoCache[k] = Absent
    BY DEF NoCache
  <1>4. CASE cache' = NoCache
    BY <1>3, <1>4 DEF Cached
  <1>5. ASSUME NEW q \in Literals, Select(q)
        PROVE  Cached'
    <2>1. UNCHANGED <<disk, work, unavailable, txn, saves>>
      BY <1>5 DEF Select, store, session
    <2>2. \A k, found : Finds(k, found, disk)' <=> Finds(k, found, disk)
      BY <2>1 DEF Finds, Selected, CacheKey
    <2>3. CASE cache' = cache
      BY <2>1, <2>2, <2>3 DEF Cached
    <2>4. CASE /\ txn = "idle"
               /\ cache' = [cache EXCEPT ![CacheKey(q)] = Selected(q, work)]
      <3>1. \A k \in Literals : k # CacheKey(q) => cache'[k] = cache[k]
        BY <2>4 DEF IInv, TypeOK
      <3>2. cache'[CacheKey(q)] = Selected(q, disk)
        BY <1>1, <1>2, <2>4 DEF IInv, TypeOK
      <3>3. Finds(CacheKey(q), cache'[CacheKey(q)], disk)
        BY <3>2 DEF Finds
      <3>4. ASSUME NEW k \in Literals, cache'[k] # Absent, ~unavailable
            PROVE  Finds(k, cache'[k], disk)
        BY <3>1, <3>3, <3>4 DEF Cached
      <3> QED BY <2>1, <2>2, <2>4, <3>4 DEF Cached
    <2> QED BY <1>5, <2>3, <2>4 DEF Select
  <1>6. ASSUME cache' = cache, disk' = disk, unavailable' = unavailable \/ unavailable',
               \/ txn' # "active"
               \/ work' \in {work, disk} \cup {saves[n] : n \in {m \in Names : saves[m] # Absent}}
                  /\ txn = "active" /\ \A n \in Names : saves'[n] \in {Absent, saves[n], work}
               \/ work' = disk /\ \A n \in Names : saves'[n] = Absent
               \/ UNCHANGED <<work, txn, saves>>
        PROVE  Cached'
    <2>1. \A k, found : Finds(k, found, disk)' <=> Finds(k, found, disk)
      BY <1>6 DEF Finds, Selected, CacheKey
    <2>2. ASSUME NEW k \in Literals, cache[k] # Absent
          PROVE  /\ ~unavailable' => Finds(k, cache[k], disk)
                 /\ txn' = "active" => work' = disk /\ \A n \in Names : saves'[n] \in {Absent, disk}
      BY <1>6, <2>2 DEF Cached
    <2> QED BY <1>6, <2>1, <2>2 DEF Cached
  <1>7. ASSUME cache' = cache, disk' = work, unavailable' = unavailable, txn = "active",
               txn' # "active"
        PROVE  Cached'
    <2>1. ASSUME NEW k \in Literals, cache[k] # Absent
          PROVE  /\ disk' = disk /\ ~unavailable => Finds(k, cache[k], disk)
      BY <1>7, <2>1 DEF Cached
    <2>2. disk' = disk => \A k, found : Finds(k, found, disk)' <=> Finds(k, found, disk)
      BY DEF Finds, Selected, CacheKey
    <2> QED BY <1>7, <2>1, <2>2 DEF Cached
  <1>8. ASSUME cache' = cache, unavailable', txn' # "active"
        PROVE  Cached'
    BY <1>8 DEF Cached
  <1>9. ASSUME NEW failing, NEW unknown, NEW state, Failed(state, failing, unknown)
        PROVE  txn' # "active" /\ (sick' => unavailable') /\ (~sick' => ~unavailable')
    BY <1>9 DEF Failed
  <1>10. call # "none" => sick = FALSE /\ unavailable = FALSE
    BY DEF IInv, Calls, TypeOK
  <1>11. CASE StatementFails \/ \E w \in Writes : WriteRefused(w)
    <2>1. UNCHANGED <<disk, sick, cache>> /\ call # "none"
      BY <1>11 DEF StatementFails, WriteRefused
    <2>2. txn' # "active" /\ ~unavailable'
      <3>1. ~sick'
        BY <1>10, <2>1
      <3>2. CASE StatementFails
        BY <3>1, <3>2, <1>9 DEF StatementFails
      <3>3. ASSUME NEW w \in Writes, WriteRefused(w)
            PROVE  txn' # "active" /\ ~unavailable'
        BY <3>1, <3>3, <1>9 DEF WriteRefused
      <3> QED BY <1>11, <3>2, <3>3
    <2>3. unavailable' = FALSE
      BY <2>2, TypeStep DEF IInv, TypeOK
    <2> QED BY <1>6, <1>10, <2>1, <2>2, <2>3
  <1>12. CASE CommitFails \/ \E w \in Writes : AutocommitFails(w)
    <2>1. cache' = cache /\ call # "none" /\ (sick' \/ (disk' = disk /\ sick' = sick))
      BY <1>12 DEF CommitFails, AutocommitFails, CommitBreaks
    <2>2. txn' # "active" /\ (sick' => unavailable') /\ (~sick' => ~unavailable')
      <3>1. CASE CommitFails
        BY <3>1, <1>9 DEF CommitFails
      <3>2. ASSUME NEW w \in Writes, AutocommitFails(w)
            PROVE  txn' # "active" /\ (sick' => unavailable') /\ (~sick' => ~unavailable')
        BY <3>2, <1>9 DEF AutocommitFails
      <3> QED BY <1>12, <3>1, <3>2
    <2>3. CASE unavailable'
      BY <1>8, <2>1, <2>2, <2>3
    <2>4. CASE ~unavailable'
      <3>1. unavailable' = FALSE
        BY <2>4, TypeStep DEF IInv, TypeOK
      <3> QED BY <1>6, <1>10, <2>1, <2>2, <2>4, <3>1
    <2> QED BY <2>3, <2>4
  <1>13. CASE Commit \/ CommitCheckpointFails
    <2>1. /\ cache' = cache /\ disk' = work /\ unavailable' = unavailable
          /\ txn = "active" /\ txn' # "active"
      BY <1>13 DEF Commit, CommitCheckpointFails
    <2> QED BY <1>7, <2>1
  <1>14. CASE \E w \in Writes : WriteInTransaction(w) \/ WriteAutocommitted(w) \/ AutocommitCheckpointFails(w)
    BY <1>4, <1>14 DEF WriteInTransaction, WriteAutocommitted, AutocommitCheckpointFails
  <1>15. CASE Reopens
    BY <1>4, <1>15 DEF Reopens
  <1>16. CASE Begin
    <2>1. /\ cache' = cache /\ disk' = disk /\ unavailable' = unavailable /\ work' = disk
          /\ \A n \in Names : saves'[n] = Absent
      BY <1>2, <1>16 DEF Begin, store, NoSaves
    <2> QED BY <1>6, <2>1
  <1>17. CASE Rollback \/ Finish
    <2>1. UNCHANGED <<cache, disk, unavailable>> /\ (txn' # "active" \/ UNCHANGED <<work, txn, saves>>)
      BY <1>17 DEF Rollback, Finish
    <2> QED BY <1>6, <2>1
  <1>18. ASSUME NEW n \in Names, Savepoint(n) \/ ReleaseSavepoint(n) \/ RollbackTo(n)
         PROVE  Cached'
    <2>1. /\ UNCHANGED <<cache, disk, unavailable, txn>> /\ txn = "active"
          /\ work' = work \/ (work' = saves[n] /\ saves[n] # Absent)
          /\ \A m \in Names : saves'[m] \in {Absent, saves[m], work}
      BY <1>18 DEF Savepoint, ReleaseSavepoint, RollbackTo, store, session, IInv, TypeOK
    <2> QED BY <1>6, <2>1
  <1>19. CASE UNCHANGED <<store, session, cache>>
    BY <1>6, <1>19 DEF store, session
  <1>20. (\E kind \in {"session", "script"} : Start(kind)) \/ Checkpoint \/ SchedulerDefers
            \/ SchedulerCheckpoints \/ UNCHANGED vars => UNCHANGED <<store, session, cache>>
    BY DEF Start, Checkpoint, SchedulerDefers, SchedulerCheckpoints, vars
  <1> QED
    BY <1>5, <1>11, <1>12, <1>13, <1>14, <1>15, <1>16, <1>17, <1>18, <1>19, <1>20
       DEF Next, Reopen, SchedulerDies

\* A cached result is what a SELECT with its key finds now, through commits, rollbacks
\* and failures: it never outlives a write (invalidateRowCountCache).  Which SELECTs
\* share a key is queryResultCacheKey's choice, and nothing is assumed of it.
THEOREM CacheFresh == ASSUME ~GroupCommit PROVE Spec => []CacheCurrent
  <1>1. Init => Cached
    BY TransactionsAssumption DEF Init, Cached, NoCache
  <1>2. IInv /\ Cached /\ [Next]_vars => Cached'
    BY CachedStep
  <1>3. IInv /\ Cached => CacheCurrent
    BY DEF IInv, Open, Cached, CacheCurrent, Finds
  <1> QED BY <1>1, <1>2, <1>3, Invariant, PTL DEF Spec

-----------------------------------------------------------------------------
(* The tables and the catalog of the small instance: what TablesProofs and  *)
(* CatalogProofs say of them.                                               *)

\* A behaviour of the instance is one of its tables.
LEMMA TablesRun == MCSpec => Relations!Spec
  <1>1. MCInit => Relations!Init
    BY DEF MCInit
  <1>2. [TransactionStep \/ TableStep \/ CatalogStep]_allVars => [Relations!Next]_(Relations!vars)
    BY DEF TransactionStep, TableStep, CatalogStep, allVars, tableVars,
           Relations!vars, Relations!tables, Relations!statement
  <1> QED BY <1>1, <1>2, PTL DEF MCSpec, Relations!Spec

\* A behaviour of the instance is one of its catalog.
LEMMA CatalogRuns == MCSpec => Definitions!Spec
  <1>1. MCInit => Definitions!Init
    BY DEF MCInit
  <1>2. [TransactionStep \/ TableStep \/ CatalogStep]_allVars => [Definitions!Next]_(Definitions!vars)
    BY DEF TransactionStep, TableStep, CatalogStep, allVars, catalogVars, Definitions!vars
  <1> QED BY <1>1, <1>2, PTL DEF MCSpec, Definitions!Spec

\* Between statements the keys of parent and child are unique and every foreign key,
\* to the other table or to the child itself, finds its row (checkUnique,
\* checkForeignKeys, checkSelfReferences, restrictParent).
THEOREM ConstraintsKept == MCSpec => []ConstraintsHold
  <1>1. Relations!TablesAssumption
    BY StatementsAssumption
  <1>2. Relations!Spec => []Relations!TypeOK
    BY <1>1, Relations!TypeCorrect
  <1>3. Relations!Spec => []Relations!KeysHold
    BY <1>1, Relations!KeysKept
  <1>4. Relations!Spec => []Relations!ForeignKeysHold
    BY <1>1, Relations!ForeignKeysKept
  <1>5. Relations!TypeOK /\ Relations!KeysHold /\ Relations!ForeignKeysHold => ConstraintsHold
    BY DEF ConstraintsHold
  <1> QED BY <1>2, <1>3, <1>4, <1>5, TablesRun, PTL

\* Each index holds the keys of the rows of its table, a unique one each key once,
\* after every row a statement changes (insertIndexEntries, eraseIndexEntries).
THEOREM IndexesFollow == MCSpec => []IndexesMatchHeap
  <1>1. Relations!TablesAssumption
    BY StatementsAssumption
  <1>2. Relations!Spec => [](Relations!IndexesMatchHeap /\ Relations!UniqueIndexesHold)
    BY <1>1, Relations!IndexesHold
  <1>3. Relations!IndexesMatchHeap /\ Relations!UniqueIndexesHold => IndexesMatchHeap
    BY DEF IndexesMatchHeap
  <1> QED BY <1>2, <1>3, TablesRun, PTL

\* The catalog of the child that refers to its parent and to itself can be read back
\* at every moment, as the process has it, and its indexes have their runtimes and
\* pages (PersistentCatalog, initializeIndexes, rollbackBatch).
THEOREM CatalogKept == MCSpec => []CatalogSurvives
  <1>1. Definitions!CatalogAssumption
    BY StatementsAssumption
  <1>2. Definitions!Spec => []Definitions!TypeOK
    BY <1>1, Definitions!CatalogTypes
  <1>3. Definitions!Spec => []Definitions!CatalogSurvives
    BY <1>1, Definitions!CatalogAlwaysSurvives
  <1>4. Definitions!Spec => []Definitions!IndexesServed
    BY <1>1, Definitions!IndexesAlwaysServed
  <1>5. Definitions!TypeOK /\ Definitions!CatalogSurvives /\ Definitions!IndexesServed => CatalogSurvives
    BY DEF CatalogSurvives
  <1> QED BY <1>2, <1>3, <1>4, <1>5, CatalogRuns, PTL
=============================================================================
