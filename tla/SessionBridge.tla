---------------------------- MODULE SessionBridge ----------------------------
(***************************************************************************)
(* The HTTP bridge of the MiniSQL backend: logical sessions that share one *)
(* engine process, the turn that lets one of them at a time put a statement*)
(* in the queue, the transaction lock that keeps the others out while one  *)
(* has a transaction open, waiting with a timeout, cancelling, reaping of  *)
(* idle sessions, opening and closing of the engine, and the quarantine.   *)
(*                                                                         *)
(* The bridge runs on one thread: a step is the code between two awaits.   *)
(* What is woken by a step runs before the next event is taken (Settled).  *)
(* What the engine does with a statement is left open but for the          *)
(* transaction it may begin or end.                                        *)
(***************************************************************************)
EXTENDS Integers, Sequences, FiniteSets, SequencesExt

CONSTANTS
  Sessions,     \* session ids; each names one session
  Scripts,      \* requests without a session, each a process of its own
  Backups,      \* online backups
  MaxRequests,  \* bound: requests of one session
  MaxSessions,  \* maxSessions
  QueueLimit,   \* operations that may be queued, 64 in the code
  Habits,       \* what clients do, a subset of ClientHabits
  EngineFaults, \* whether the engine may die or fail to start
  None          \* no session

ClientHabits ==
  { "pipeline",     \* a request is sent before the previous one is answered
    "closeBusy",    \* a session is closed while it has a request in flight
    "openClosing",  \* a session is opened while the engine shuts down
    "cancel",       \* requests are cancelled
    "disconnect" }  \* clients leave before their request is executed

ASSUME SessionBridgeAssumption ==
  /\ None \notin Sessions
  /\ Sessions \cap Scripts = {} /\ Sessions \cap Backups = {}
  /\ Scripts \cap Backups = {}
  /\ MaxRequests \in Nat \ {0} /\ MaxSessions \in Nat \ {0}
  /\ QueueLimit \in Nat \ {0}
  /\ Habits \subseteq ClientHabits /\ EngineFaults \in BOOLEAN

\* what the bridge works on: <<s, n>> is request n of session s, <<s, 0>> the
\* ROLLBACK with which session s is closed
Request == Sessions \X (1 .. MaxRequests)
Closing(s) == <<s, 0>>
SessionTask == Sessions \X (0 .. MaxRequests)
Script == Scripts \X {1}
Backup == Backups \X {1}
Task == SessionTask \cup Script \cup Backup

VARIABLES
  life,               \* where a session is: before, in or after sessions
  inTransaction,      \* session.transactionState # 'IDLE'
  waiting,            \* session.waiting
  activeRequest,      \* session.activeRequest
  cancelRequested,    \* session.cancelRequested
  at,                 \* where a task is
  transactionOwner,   \* transactionOwner
  turnOwner,          \* turnOwner
  transactionWaiters, \* transactionWaiters
  turnWaiters,        \* turnWaiters
  woken,              \* tasks whose wait was resolved, in order
  queue,              \* tasks given to enqueue; the head is at work
  quarantined,        \* quarantined
  engine,             \* engine, engineOpening and engine.closing
  transaction,        \* the session that opened the engine's transaction
  failed              \* ghost: the engine died or did not start

session == <<life, inTransaction, waiting, activeRequest, cancelRequested>>
turns == <<transactionOwner, turnOwner, transactionWaiters, turnWaiters, woken>>
process == <<quarantined, engine, transaction, failed>>
vars == <<session, at, turns, queue, process>>

Registered == {s \in Sessions : life[s] = "open"}      \* sessions
InFlight(t) == at[t] \notin {"new", "done"}
Busy(s) == \E n \in 0 .. MaxRequests : InFlight(<<s, n>>)
\* no promise is left to continue: the event loop takes the next event
Settled == woken = <<>> /\ (queue # <<>> => at[Head(queue)] # "queued")

-----------------------------------------------------------------------------
(* Parts of the handlers.                                                  *)

\* tasks that end, and notifyWaiters for the tasks in the given sequence
Places(ended, waiters) ==
  [t \in Task |-> IF t \in ended THEN "done"
                  ELSE IF t \in ToSet(waiters) THEN "woken" ELSE at[t]]

\* closeEngineIfIdle: whoever closed the last session closes the engine
CloseEngineIfIdle ==
  engine' = IF engine = "open" /\ Registered' = {} THEN "closing" ELSE engine

\* the caller of a task that returns: closeSession and the backup route
Returns(t) ==
  IF t[2] = 0 \/ t \in Backup THEN CloseEngineIfIdle ELSE UNCHANGED engine

\* the caller of a task that throws: closeSession closes the engine all the same,
\* and the reaper quarantines the bridge
Throws(t) ==
  /\ quarantined' = (quarantined \/ (t[2] = 0 /\ life'[t[1]] = "reaped"))
  /\ IF t[2] = 0 THEN CloseEngineIfIdle ELSE UNCHANGED engine

\* releaseTurn, after the waiters in woke were notified
ReleaseTurn(t, woke) ==
  LET mine == turnOwner = t[1]
      all == IF mine THEN woke \o turnWaiters ELSE woke
  IN /\ turnOwner' = IF mine THEN None ELSE turnOwner
     /\ turnWaiters' = IF mine THEN <<>> ELSE turnWaiters
     /\ woken' = all
     /\ at' = Places({t}, all)

\* mutant: transactionOwner is never given back
MutApplyTransactionResult(s, open) ==
  /\ inTransaction' = [inTransaction EXCEPT ![s] = open]
  /\ transactionOwner' = IF open THEN s ELSE transactionOwner
  /\ transactionWaiters' = IF transactionOwner = s THEN <<>> ELSE transactionWaiters
\* applyTransactionResult: what state leaves of the lock, and who is woken
ApplyTransactionResult(s, open) ==
  LET freed == ~open /\ transactionOwner = s IN
  /\ inTransaction' = [inTransaction EXCEPT ![s] = open]
  /\ transactionOwner' = IF open THEN s ELSE IF freed THEN None ELSE transactionOwner
  /\ transactionWaiters' = IF freed THEN <<>> ELSE transactionWaiters

TransactionWaitersOf(s, open) ==
  IF ~open /\ transactionOwner = s THEN transactionWaiters ELSE <<>>

\* clearAllSessions, while the tasks in ended end
ClearAllSessions(ended) ==
  LET all == transactionWaiters \o turnWaiters IN
  /\ life' = [s \in Sessions |-> IF life[s] = "open" THEN "closed" ELSE life[s]]
  /\ transactionOwner' = None /\ turnOwner' = None
  /\ transactionWaiters' = <<>> /\ turnWaiters' = <<>>
  /\ woken' = all
  /\ at' = Places(ended, all)

\* one round of the loop of acquireTurn, for a task that arrives or was woken;
\* a task that gets the turn goes on into enqueue
TurnRefused(t) == cancelRequested[t[1]] \/ quarantined
\* mutant: transactionOwner is not tested
MutHeldByTransaction(t) == FALSE
HeldByTransaction(t) == transactionOwner \notin {None, t[1]}
HeldByTurn(t) == turnOwner \notin {None, t[1]} \/ activeRequest[t[1]]

Refused(t, rest, waits) ==
  /\ TurnRefused(t)
  /\ cancelRequested' = [cancelRequested EXCEPT ![t[1]] = FALSE]
  /\ waiting' = waits
  /\ at' = [at EXCEPT ![t] = "done"]
  /\ woken' = rest
  /\ Throws(t)
  /\ UNCHANGED <<transactionOwner, turnOwner, transactionWaiters, turnWaiters, queue>>

WaitForTransaction(t, rest, waits) ==
  /\ ~TurnRefused(t) /\ HeldByTransaction(t)
  /\ waiting' = [waits EXCEPT ![t[1]] = TRUE]
  /\ at' = [at EXCEPT ![t] = "waitTransaction"]
  /\ transactionWaiters' = Append(transactionWaiters, t)
  /\ woken' = rest
  /\ UNCHANGED <<cancelRequested, transactionOwner, turnOwner, turnWaiters, queue,
                 quarantined, engine>>

WaitForTurn(t, rest, waits) ==
  /\ ~TurnRefused(t) /\ ~HeldByTransaction(t) /\ HeldByTurn(t)
  /\ waiting' = [waits EXCEPT ![t[1]] = TRUE]
  /\ at' = [at EXCEPT ![t] = "waitTurn"]
  /\ turnWaiters' = Append(turnWaiters, t)
  /\ woken' = rest
  /\ UNCHANGED <<cancelRequested, transactionOwner, turnOwner, transactionWaiters,
                 queue, quarantined, engine>>

TakeTurn(t, rest, waits) ==
  /\ ~TurnRefused(t) /\ ~HeldByTransaction(t) /\ ~HeldByTurn(t)
  /\ waiting' = [waits EXCEPT ![t[1]] = FALSE]
  /\ IF Len(queue) < QueueLimit
     THEN /\ turnOwner' = t[1]
          /\ at' = [at EXCEPT ![t] = "queued"]
          /\ queue' = Append(queue, t)
          /\ woken' = rest
          /\ UNCHANGED <<turnWaiters, quarantined, engine>>
     ELSE /\ turnOwner' = None
          /\ turnWaiters' = <<>>
          /\ woken' = rest \o turnWaiters
          /\ at' = Places({t}, turnWaiters)
          /\ Throws(t)
          /\ UNCHANGED queue
  /\ UNCHANGED <<cancelRequested, transactionOwner, transactionWaiters>>

AcquireTurn(t, rest, waits) ==
  /\ \/ Refused(t, rest, waits)
     \/ WaitForTransaction(t, rest, waits)
     \/ WaitForTurn(t, rest, waits)
     \/ TakeTurn(t, rest, waits)
  /\ UNCHANGED <<inTransaction, activeRequest, transaction, failed>>

-----------------------------------------------------------------------------
(* Sessions.                                                               *)

\* POST /sessions: the limit is checked before the engine is awaited
OpenSession(s) ==
  /\ Settled /\ life[s] = "new"
  /\ Cardinality(Registered) < MaxSessions /\ ~quarantined
  /\ engine = "closing" => "openClosing" \in Habits
  /\ IF engine \in {"open", "closing"}
     THEN life' = [life EXCEPT ![s] = "open"] /\ UNCHANGED engine
     ELSE life' = [life EXCEPT ![s] = "opening"] /\ engine' = "opening"
  /\ UNCHANGED <<inTransaction, waiting, activeRequest, cancelRequested, at, turns,
                 queue, quarantined, transaction, failed>>

\* a request that names a session: runSessionOperation
SendRequest(t) ==
  /\ Settled /\ t \in Request /\ at[t] = "new" /\ life[t[1]] = "open"
  /\ \A n \in 1 .. t[2] - 1 : at[<<t[1], n>>] # "new"
  /\ "pipeline" \in Habits \/ ~Busy(t[1])
  /\ UNCHANGED life
  /\ AcquireTurn(t, <<>>, waiting)

\* the task woken first goes round the loop of acquireTurn again
Resume ==
  /\ woken # <<>>
  /\ UNCHANGED life
  /\ LET t == Head(woken) IN
       AcquireTurn(t, Tail(woken), [waiting EXCEPT ![t[1]] = FALSE])

\* mutant: no ROLLBACK is sent
MutCloseSession(s, how) ==
  /\ life' = [life EXCEPT ![s] = how]
  /\ at' = [at EXCEPT ![Closing(s)] = "done"]
  /\ CloseEngineIfIdle
  /\ UNCHANGED <<inTransaction, waiting, activeRequest, cancelRequested,
                 turns, queue, quarantined, transaction, failed>>
\* closeSession; a session with a transaction runs its ROLLBACK
CloseSession(s, how) ==
  /\ life' = [life EXCEPT ![s] = how]
  /\ IF inTransaction[s]
     THEN AcquireTurn(Closing(s), <<>>, waiting)
     ELSE /\ at' = [at EXCEPT ![Closing(s)] = "done"]
          /\ CloseEngineIfIdle
          /\ UNCHANGED <<inTransaction, waiting, activeRequest, cancelRequested,
                         turns, queue, quarantined, transaction, failed>>

CloseRequest(s) ==
  /\ Settled /\ life[s] = "open"
  /\ "closeBusy" \in Habits \/ ~Busy(s)
  /\ CloseSession(s, "closed")

\* mutant: session.waiting is not tested
MutSpared(s) == activeRequest[s] \/ turnOwner = s
\* mutant: the holder of the transaction lock is spared
MutSparedHolder(s) ==
  activeRequest[s] \/ waiting[s] \/ turnOwner = s \/ transactionOwner = s
\* touchSession: the idle timer spares a session that is busy
Spared(s) == activeRequest[s] \/ waiting[s] \/ turnOwner = s
IdleTimeout(s) ==
  /\ Settled /\ life[s] = "open" /\ ~Spared(s)
  /\ CloseSession(s, "reaped")

\* the first waiter among the given tasks: its index, or 0; who it is; the waiters
\* without it
FirstAmong(waiters, tasks) ==
  LET found == {i \in DOMAIN waiters : waiters[i] \in tasks}
  IN IF found = {} THEN 0 ELSE Min(found)
FoundWaiter(waiters, tasks) ==
  LET i == FirstAmong(waiters, tasks) IN IF i = 0 THEN <<>> ELSE <<waiters[i]>>
RemoveWaiter(waiters, tasks) ==
  LET i == FirstAmong(waiters, tasks) IN IF i = 0 THEN waiters ELSE RemoveAt(waiters, i)

\* mutant: no removeWaiter
MutWaitTimeout(t) ==
  /\ Settled /\ at[t] \in {"waitTransaction", "waitTurn"}
  /\ at' = [at EXCEPT ![t] = "done"]
  /\ UNCHANGED <<session, turns, queue, transaction, failed>>
  /\ Throws(t)
\* mutant: no timer for transactionWaiters
MutTimer(t) ==
  /\ Settled /\ at[t] = "waitTurn"
  /\ turnWaiters' = RemoveWaiter(turnWaiters, {t})
  /\ at' = [at EXCEPT ![t] = "done"]
  /\ UNCHANGED <<session, transactionOwner, turnOwner, transactionWaiters, woken,
                 queue, transaction, failed>>
  /\ Throws(t)
\* the timer of waitForTurn
WaitTimeout(t) ==
  /\ Settled /\ at[t] \in {"waitTransaction", "waitTurn"}
  /\ transactionWaiters' = RemoveWaiter(transactionWaiters, {t})
  /\ turnWaiters' = RemoveWaiter(turnWaiters, {t})
  /\ at' = [at EXCEPT ![t] = "done"]
  /\ UNCHANGED <<session, transactionOwner, turnOwner, woken, queue, transaction, failed>>
  /\ Throws(t)

\* the cancel route, for a session that waits; a running request is cancelled
\* in the engine, which answers it like any other
Cancel(s) ==
  LET mine == {s} \X (0 .. MaxRequests)
      all == FoundWaiter(transactionWaiters, mine) \o FoundWaiter(turnWaiters, mine)
  IN
  /\ Settled /\ "cancel" \in Habits /\ life[s] = "open"
  /\ waiting[s] /\ ~activeRequest[s]
  /\ cancelRequested' = [cancelRequested EXCEPT ![s] = TRUE]
  /\ transactionWaiters' = RemoveWaiter(transactionWaiters, mine)
  /\ turnWaiters' = RemoveWaiter(turnWaiters, mine)
  /\ woken' = all
  /\ at' = Places({}, all)
  /\ UNCHANGED <<life, inTransaction, waiting, activeRequest, transactionOwner,
                 turnOwner, queue, process>>

-----------------------------------------------------------------------------
(* The queue: one operation at a time.                                     *)

Operation == Head(queue)
\* enqueue comes to an operation
Ready == woken = <<>> /\ queue # <<>> /\ at[Operation] = "queued"
\* the engine, or a process of its own, works on one
Scripting == queue # <<>> /\ Operation \in Script
Working == queue # <<>> /\ at[Operation] = "running" /\ Operation \notin Script

\* mutant: only requests release the turn
MutLeave(t, woke) ==
  /\ queue' = Tail(queue)
  /\ IF t \in Request
     THEN ReleaseTurn(t, woke)
     ELSE at' = Places({t}, <<>>) /\ UNCHANGED <<turnOwner, turnWaiters, woken>>
\* an operation leaves the queue, and its session the turn
Leave(t, woke) ==
  /\ queue' = Tail(queue)
  /\ IF t \in SessionTask
     THEN ReleaseTurn(t, woke)
     ELSE at' = Places({t}, <<>>) /\ UNCHANGED <<turnOwner, turnWaiters, woken>>

\* enqueue of the operations that need no turn
Enqueue(t) ==
  /\ at' = [at EXCEPT ![t] = IF Len(queue) < QueueLimit THEN "queued" ELSE "done"]
  /\ queue' = IF Len(queue) < QueueLimit THEN Append(queue, t) ELSE queue
  /\ UNCHANGED <<session, turns, process>>

\* POST /execute without a session, refused while there are sessions
SendScript(t) ==
  /\ Settled /\ t \in Script /\ at[t] = "new" /\ Registered = {}
  /\ Enqueue(t)

\* POST /backup with mode online
SendBackup(t) ==
  /\ Settled /\ t \in Backup /\ at[t] = "new"
  /\ Enqueue(t)

\* the bridge is quarantined, or the client has left
Skip ==
  /\ Ready
  /\ quarantined \/ (Operation \in Request /\ "disconnect" \in Habits)
  /\ UNCHANGED <<session, transactionOwner, transactionWaiters, transaction, failed>>
  /\ Leave(Operation, <<>>)
  /\ Throws(Operation)

\* ensureEngine: the engine is there, or is started and awaited
Submit ==
  /\ Ready /\ ~quarantined /\ Operation \notin Script /\ engine # "closing"
  /\ at' = [at EXCEPT ![Operation] = IF engine = "open" THEN "running" ELSE "starting"]
  /\ engine' = IF engine = "none" THEN "opening" ELSE engine
  /\ activeRequest' = IF engine = "open" /\ Operation \in SessionTask
                      THEN [activeRequest EXCEPT ![Operation[1]] = TRUE]
                      ELSE activeRequest
  /\ UNCHANGED <<life, inTransaction, waiting, cancelRequested, turns, queue,
                 quarantined, transaction, failed>>

\* startEngine returns an engine that is closing; its worker rejects requests,
\* and runSessionOperation takes that for an uncertain failure
SubmitToClosing ==
  /\ Ready /\ ~quarantined /\ Operation \notin Script /\ engine = "closing"
  /\ Leave(Operation, <<>>)
  /\ quarantined' = (quarantined \/ Operation \in SessionTask)
  /\ UNCHANGED <<session, transactionOwner, transactionWaiters, engine,
                 transaction, failed>>

\* the engine answers; a statement may begin or end its transaction. An answer
\* that leaves the state of a commit unknown quarantines the bridge
Answer(open, uncertain) ==
  LET t == Operation
      s == t[1]
  IN
  /\ Settled /\ Working /\ engine \in {"open", "closing"}
  /\ uncertain => EngineFaults
  /\ t[2] = 0 /\ open => uncertain
  /\ t \in Backup => (open <=> transaction # None)
  /\ transaction' = IF ~open THEN None ELSE IF transaction = None THEN s ELSE transaction
  /\ quarantined' = (quarantined \/ uncertain)
  /\ failed' = (failed \/ uncertain)
  /\ UNCHANGED <<life, waiting, cancelRequested>>
  /\ IF t \in SessionTask
     THEN /\ activeRequest' = [activeRequest EXCEPT ![s] = FALSE]
          /\ Leave(t, TransactionWaitersOf(s, open))
          /\ ApplyTransactionResult(s, open)
     ELSE /\ Leave(t, <<>>)
          /\ UNCHANGED <<activeRequest, inTransaction, transactionOwner,
                         transactionWaiters>>
  /\ Returns(t)

-----------------------------------------------------------------------------
(* Processes. The engine and a script lock the database file.              *)

Locked == \E t \in Script : at[t] = "locked"

\* the engine is ready: who awaited it goes on
EngineReady ==
  /\ Settled /\ engine = "opening" /\ ~Locked
  /\ engine' = "open"
  /\ life' = [s \in Sessions |-> IF life[s] = "opening" THEN "open" ELSE life[s]]
  /\ at' = [t \in Task |-> IF at[t] = "starting" THEN "running" ELSE at[t]]
  /\ activeRequest' = [s \in Sessions |-> \/ activeRequest[s]
                         \/ \E n \in 0 .. MaxRequests : at[<<s, n>>] = "starting"]
  /\ UNCHANGED <<inTransaction, waiting, cancelRequested, turns, queue, quarantined,
                 transaction, failed>>

\* the engine does not start: the file is locked, or it cannot run
EngineRefused ==
  /\ Settled /\ engine = "opening" /\ (Locked \/ EngineFaults)
  /\ engine' = "none"
  /\ life' = [s \in Sessions |-> IF life[s] = "opening" THEN "closed" ELSE life[s]]
  /\ failed' = (failed \/ ~Locked)
  /\ UNCHANGED <<inTransaction, waiting, activeRequest, cancelRequested,
                 transactionOwner, transactionWaiters, transaction>>
  /\ IF queue # <<>> /\ at[Operation] = "starting"
     THEN /\ Leave(Operation, <<>>)
          /\ quarantined' = (quarantined \/ (Operation[2] = 0 /\ life[Operation[1]] = "reaped"))
     ELSE UNCHANGED <<at, turnOwner, turnWaiters, woken, queue, quarantined>>

\* the engine has answered what was sent before close, rolls back and exits
EngineClosed ==
  /\ Settled /\ engine = "closing" /\ ~Working
  /\ engine' = "none" /\ transaction' = None
  /\ ClearAllSessions({})
  /\ UNCHANGED <<inTransaction, waiting, activeRequest, cancelRequested, queue,
                 quarantined, failed>>

\* the engine exits or is killed when a request times out
EngineDies ==
  /\ Settled /\ EngineFaults /\ engine \in {"open", "closing"}
  /\ engine' = "none" /\ transaction' = None /\ failed' = TRUE
  \* a reaper that awaits the end of a closing engine quarantines as well
  /\ quarantined' \in IF engine = "open" \/ (Working /\ Operation \in SessionTask)
                     THEN {TRUE} ELSE {quarantined, TRUE}
  /\ IF Working
     THEN /\ queue' = Tail(queue)
          /\ ClearAllSessions({Operation})
          /\ activeRequest' = [s \in Sessions |-> FALSE]
     ELSE ClearAllSessions({}) /\ UNCHANGED <<queue, activeRequest>>
  /\ UNCHANGED <<inTransaction, waiting, cancelRequested>>

\* callDatabase: a process that opens the file, works and exits
StartScript ==
  /\ Ready /\ ~quarantined /\ Operation \in Script
  /\ at' = [at EXCEPT ![Operation] = "running"]
  /\ UNCHANGED <<session, turns, queue, process>>

ScriptLocks ==
  /\ Settled /\ Scripting /\ at[Operation] = "running"
  /\ engine \in {"none", "opening"}
  /\ at' = [at EXCEPT ![Operation] = "locked"]
  /\ UNCHANGED <<session, turns, queue, process>>

\* the lock is taken: a storage error, 4001, which counts as uncertain
ScriptRefused ==
  /\ Settled /\ Scripting /\ at[Operation] = "running" /\ engine # "none"
  /\ Leave(Operation, <<>>)
  /\ quarantined' = TRUE
  /\ UNCHANGED <<session, transactionOwner, transactionWaiters, engine, transaction,
                 failed>>

ScriptDone ==
  /\ Settled /\ Scripting /\ at[Operation] = "locked"
  /\ Leave(Operation, <<>>)
  /\ UNCHANGED <<session, transactionOwner, transactionWaiters, process>>

\* the process fails, exceeds its time or says what cannot be read
ScriptFails ==
  /\ Settled /\ EngineFaults /\ Scripting
  /\ Leave(Operation, <<>>)
  /\ quarantined' = TRUE /\ failed' = TRUE
  /\ UNCHANGED <<session, transactionOwner, transactionWaiters, engine, transaction>>

-----------------------------------------------------------------------------
(* The bridge.                                                             *)

Init ==
  /\ life = [s \in Sessions |-> "new"]
  /\ inTransaction = [s \in Sessions |-> FALSE]
  /\ waiting = [s \in Sessions |-> FALSE]
  /\ activeRequest = [s \in Sessions |-> FALSE]
  /\ cancelRequested = [s \in Sessions |-> FALSE]
  /\ at = [t \in Task |-> "new"]
  /\ transactionOwner = None /\ turnOwner = None
  /\ transactionWaiters = <<>> /\ turnWaiters = <<>> /\ woken = <<>>
  /\ queue = <<>>
  /\ quarantined = FALSE /\ engine = "none" /\ transaction = None
  /\ failed = FALSE

\* nothing is in flight, and no session can be opened any more
Finished ==
  /\ Settled /\ \A t \in Task : ~InFlight(t)
  /\ quarantined \/ \A s \in Sessions : life[s] \notin {"new", "opening"}
  /\ UNCHANGED vars

Clients ==
  \/ \E s \in Sessions : OpenSession(s) \/ CloseRequest(s) \/ Cancel(s)
  \/ \E t \in Task : SendRequest(t) \/ SendScript(t) \/ SendBackup(t)
Timers ==
  \/ \E s \in Sessions : IdleTimeout(s)
  \/ \E t \in SessionTask : WaitTimeout(t)
Bridge == Resume \/ Skip \/ Submit \/ SubmitToClosing \/ StartScript
Processes ==
  \/ \E open, uncertain \in BOOLEAN : Answer(open, uncertain)
  \/ EngineReady \/ EngineRefused \/ EngineClosed
  \/ ScriptLocks \/ ScriptRefused \/ ScriptDone \/ ScriptFails
Next == Clients \/ Timers \/ Bridge \/ Processes \/ EngineDies \/ Finished

Spec == Init /\ [][Next]_vars

\* the event loop runs, timers fire, and a process answers or its time is up;
\* clients need not go on, and the engine need not die
Fairness ==
  /\ WF_vars(Bridge) /\ WF_vars(Processes)
  /\ \A t \in SessionTask : WF_vars(WaitTimeout(t))
  /\ \A s \in Sessions : WF_vars(IdleTimeout(s))
FairSpec == Spec /\ Fairness

-----------------------------------------------------------------------------
(* Properties.                                                             *)

Positions == {"new", "waitTransaction", "waitTurn", "woken", "queued", "starting",
            "running", "locked", "done"}
\* the variables have the shapes their names say (database-bridge.mjs, 92-114)
TypeOK ==
  /\ life \in [Sessions -> {"new", "opening", "open", "closed", "reaped"}]
  /\ inTransaction \in [Sessions -> BOOLEAN] /\ waiting \in [Sessions -> BOOLEAN]
  /\ activeRequest \in [Sessions -> BOOLEAN] /\ cancelRequested \in [Sessions -> BOOLEAN]
  /\ at \in [Task -> Positions]
  /\ transactionOwner \in Sessions \cup {None} /\ turnOwner \in Sessions \cup {None}
  /\ transactionWaiters \in Seq(SessionTask) /\ turnWaiters \in Seq(SessionTask)
  /\ woken \in Seq(SessionTask) /\ queue \in Seq(Task)
  /\ ToSet(transactionWaiters) = {t \in Task : at[t] = "waitTransaction"}
  /\ ToSet(turnWaiters) = {t \in Task : at[t] = "waitTurn"}
  /\ ToSet(woken) = {t \in Task : at[t] = "woken"}
  /\ ToSet(queue) = {t \in Task : at[t] \in {"queued", "starting", "running", "locked"}}
  /\ quarantined \in BOOLEAN /\ failed \in BOOLEAN
  /\ engine \in {"none", "opening", "open", "closing"}
  /\ transaction \in Sessions \cup {None}

\* while one session has a transaction open in the engine, the statements of
\* no other session get there (acquireTurn; concurrency-progress.md:5)
TransactionExclusive ==
  \A t \in SessionTask : at[t] = "running" => transaction \in {None, t[1]}

\* the bridge and the engine agree on who has a transaction: the lock is with
\* the session that began it (applyTransactionResult)
LockMatchesEngine == transactionOwner = transaction

\* whoever holds the transaction lock can still give it back: its session is
\* registered, or its closing ROLLBACK is under way, or the engine is about to
\* go (closeSession; concurrency-progress.md:15)
LockHolderCanRelease ==
  transactionOwner # None =>
    \/ life[transactionOwner] = "open" \/ InFlight(Closing(transactionOwner))
    \/ engine = "closing" \/ quarantined

\* the turn is held only while a task of its holder is in the queue, so that
\* somebody will release it (releaseTurn)
TurnIsReleased ==
  turnOwner # None => \E t \in ToSet(queue) : t[1] = turnOwner

\* a request in flight keeps its session registered until it is answered: the
\* reaper takes no session with work (touchSession)
WorkKeepsSession ==
  \A t \in Request : InFlight(t) => life[t[1]] = "open" \/ failed

\* whatever is sent is answered: by the engine, by the timer of a wait, or by
\* a refusal (runSessionOperation)
Answered == \A t \in Task : InFlight(t) ~> ~InFlight(t)

\* a transaction lock is given back in the end, by its session or by the idle
\* timer, unless the bridge is quarantined (touchSession; concurrency-progress.md:15)
LockIsReleased ==
  \A s \in Sessions : transactionOwner = s ~> transactionOwner # s \/ quarantined
=============================================================================
