------------------------- MODULE SessionBridgeProofs -------------------------
(***************************************************************************)
(* Proofs about SessionBridge for every value of its constants, so for any *)
(* number of sessions. Whatever clients do: the turn is held only while a  *)
(* task of its holder is in the queue, the variables have their types, and *)
(* the lists of waiters and the queue hold the tasks that are there, each  *)
(* once. For clients that wait for their answers and open no session while *)
(* the engine shuts down: transactions exclude each other, the bridge and  *)
(* the engine agree on who has one, a session with work is not reaped, and *)
(* whoever holds the transaction lock can give it back.                    *)
(***************************************************************************)
EXTENDS SessionBridge, FiniteSetTheorems, SequenceTheorems, WellFoundedInduction, TLAPS

-----------------------------------------------------------------------------
(* Waiters and queues.                                                     *)

\* A nonempty set of positions has a first one.
LEMMA MinExists ==
  ASSUME NEW S \in SUBSET Nat, S # {}
  PROVE  Min(S) \in S
<1> DEFINE Less == {p \in Nat \X Nat : p[1] < p[2]}
<1>1. IsWellFoundedOn(Less, Nat)
  BY NatLessThanWellFounded, Zenon DEF OpToRel
<1> HIDE DEF Less
<1>2. PICK x \in S : \A y \in S : ~(<<y, x>> \in Less)
  BY <1>1, WFMin
<1>3. ASSUME NEW y \in S
      PROVE  x <= y
  <2>1. x \in Nat /\ y \in Nat
    OBVIOUS
  <2>2. <<y, x>> \notin Less
    BY <1>2
  <2>3. ~(y < x)
    BY <2>1, <2>2 DEF Less
  <2> QED
    BY <2>1, <2>3
<1> QED
  BY <1>3 DEF Min

LEMMA FirstAmongType ==
  ASSUME NEW waiters \in Seq(SessionTask), NEW tasks
  PROVE  FirstAmong(waiters, tasks) \in {0} \cup DOMAIN waiters
<1> DEFINE found == {i \in DOMAIN waiters : waiters[i] \in tasks}
<1>1. found \in SUBSET Nat
  OBVIOUS
<1>2. found # {} => Min(found) \in found
  BY <1>1, MinExists
<1> QED
  BY <1>2 DEF FirstAmong

LEMMA WaitersType ==
  ASSUME NEW waiters \in Seq(SessionTask), NEW tasks
  PROVE  /\ FoundWaiter(waiters, tasks) \in Seq(SessionTask)
         /\ RemoveWaiter(waiters, tasks) \in Seq(SessionTask)
<1> DEFINE i == FirstAmong(waiters, tasks)
<1>1. i \in {0} \cup DOMAIN waiters
  BY FirstAmongType
<1>2. FoundWaiter(waiters, tasks) \in Seq(SessionTask)
  BY <1>1 DEF FoundWaiter
<1>3. ASSUME i # 0
      PROVE  RemoveAt(waiters, i) \in Seq(SessionTask)
  <2>1. i \in 1 .. Len(waiters)
    BY <1>1, <1>3
  <2> HIDE DEF i
  <2>2. SubSeq(waiters, 1, i - 1) \in Seq(SessionTask)
    BY <2>1
  <2>3. SubSeq(waiters, i + 1, Len(waiters)) \in Seq(SessionTask)
    BY <2>1
  <2> QED
    BY <2>2, <2>3 DEF RemoveAt
<1> QED
  BY <1>2, <1>3 DEF RemoveWaiter

\* What leaves the queue is its head.
LEMMA TailKeeps ==
  ASSUME NEW q \in Seq(Task), q # <<>>, NEW t \in ToSet(q), t # Head(q)
  PROVE  Tail(q) \in Seq(Task) /\ t \in ToSet(Tail(q))
<1>1. PICK i \in 1 .. Len(q) : q[i] = t
  BY DEF ToSet
<1>2. i # 1
  BY <1>1
<1>3. Tail(q) \in Seq(Task)
  OBVIOUS
<1>4. i - 1 \in DOMAIN Tail(q) /\ Tail(q)[i - 1] = t
  BY <1>1, <1>2
<1>5. t \in {Tail(q)[j] : j \in DOMAIN Tail(q)}
  BY <1>4
<1> QED
  BY <1>3, <1>5 DEF ToSet

LEMMA AppendKeeps ==
  ASSUME NEW q \in Seq(Task), NEW t \in Task
  PROVE  /\ Append(q, t) \in Seq(Task) /\ t \in ToSet(Append(q, t))
         /\ ToSet(q) \subseteq ToSet(Append(q, t))
<1>1. Append(q, t)[Len(q) + 1] = t /\ Len(q) + 1 \in 1 .. Len(Append(q, t))
  OBVIOUS
<1>2. \A i \in 1 .. Len(q) : i \in 1 .. Len(Append(q, t)) /\ Append(q, t)[i] = q[i]
  OBVIOUS
<1> QED
  BY <1>1, <1>2 DEF ToSet

\* A script or a backup is no session.
LEMMA TaskNames ==
  /\ SessionTask \subseteq Task /\ Script \subseteq Task /\ Backup \subseteq Task
  /\ Request \subseteq SessionTask
  /\ \A s \in Sessions : Closing(s) \in SessionTask
  /\ \A t \in SessionTask : t[1] \in Sessions
  /\ \A t \in Task : t \notin SessionTask => t[1] \notin Sessions
<1> USE SessionBridgeAssumption
<1>1. SessionTask \subseteq Task /\ Script \subseteq Task /\ Backup \subseteq Task
  BY DEF Task
<1>2. Request \subseteq SessionTask /\ \A s \in Sessions : Closing(s) \in SessionTask
  BY DEF Request, SessionTask, Closing
<1>3. \A t \in SessionTask : t[1] \in Sessions
  BY DEF SessionTask
<1>4. \A t \in Task : t \notin SessionTask => t[1] \notin Sessions
  BY DEF Task, Script, Backup
<1> QED
  BY <1>1, <1>2, <1>3, <1>4

-----------------------------------------------------------------------------
(* The invariant. TurnIsReleased needs to know that what waits and what is *)
(* woken are tasks of sessions: a script or a backup must not get the turn,*)
(* since it would not release it.                                          *)

WaitersOK ==
  /\ transactionWaiters \in Seq(SessionTask) /\ turnWaiters \in Seq(SessionTask)
  /\ woken \in Seq(SessionTask)
HolderOK == queue \in Seq(Task) /\ turnOwner \in Sessions \cup {None}
TurnInv == WaitersOK /\ HolderOK /\ TurnIsReleased

LEMMA InitTurn == Init => TurnInv
  BY DEF Init, TurnInv, WaitersOK, HolderOK, TurnIsReleased

LEMMA NobodyWaits == <<>> \in Seq(SessionTask)
  OBVIOUS

\* Steps that touch none of these variables.
LEMMA TurnUntouched ==
  ASSUME TurnInv, UNCHANGED <<transactionWaiters, turnWaiters, woken, queue, turnOwner>>
  PROVE  TurnInv'
  BY DEF TurnInv, WaitersOK, HolderOK, TurnIsReleased

\* An operation leaves the queue, and its session the turn.
LEMMA LeaveTurn ==
  ASSUME WaitersOK, HolderOK, TurnIsReleased, queue # <<>>,
         NEW woke \in Seq(SessionTask), Leave(Operation, woke)
  PROVE  HolderOK' /\ TurnIsReleased' /\ turnWaiters' \in Seq(SessionTask)
         /\ woken' \in Seq(SessionTask)
<1>1. Operation \in Task /\ queue' = Tail(queue) /\ queue' \in Seq(Task)
  BY DEF Leave, Operation, HolderOK
<1>2. ASSUME turnOwner # None, turnOwner # Operation[1]
      PROVE  \E t \in ToSet(Tail(queue)) : t[1] = turnOwner
  <2>1. PICK t \in ToSet(queue) : t[1] = turnOwner
    BY <1>2 DEF TurnIsReleased
  <2>2. t # Operation
    BY <1>2, <2>1
  <2> QED
    BY <2>1, <2>2, TailKeeps DEF Operation, HolderOK
<1>3. CASE Operation \in SessionTask
  <2>1. ReleaseTurn(Operation, woke)
    BY <1>3 DEF Leave
  <2>2. turnWaiters' \in Seq(SessionTask) /\ woken' \in Seq(SessionTask)
    BY <2>1 DEF ReleaseTurn, WaitersOK
  <2>3. turnOwner' = IF turnOwner = Operation[1] THEN None ELSE turnOwner
    BY <2>1 DEF ReleaseTurn
  <2> QED
    BY <1>1, <1>2, <2>2, <2>3 DEF HolderOK, TurnIsReleased
<1>4. CASE Operation \notin SessionTask
  <2>1. turnOwner' = turnOwner /\ turnWaiters' = turnWaiters /\ woken' = woken
    BY <1>4 DEF Leave
  <2>2. turnOwner # None => turnOwner # Operation[1]
    BY <1>1, <1>4, TaskNames DEF HolderOK
  <2> QED
    BY <1>1, <1>2, <2>1, <2>2 DEF WaitersOK, HolderOK, TurnIsReleased
<1> QED
  BY <1>3, <1>4

LEMMA ClearTurn ==
  ASSUME WaitersOK, NEW ended, ClearAllSessions(ended)
  PROVE  WaitersOK' /\ turnOwner' = None
  BY DEF ClearAllSessions, WaitersOK

\* One round of acquireTurn.
LEMMA AcquireTurnKeeps ==
  ASSUME TurnInv, NEW t \in SessionTask, NEW rest \in Seq(SessionTask), NEW waits,
         AcquireTurn(t, rest, waits)
  PROVE  TurnInv'
<1> USE DEF TurnInv
<1>1. t \in Task /\ t[1] \in Sessions
  BY TaskNames
<1>2. CASE Refused(t, rest, waits)
  BY <1>2 DEF Refused, WaitersOK, HolderOK, TurnIsReleased
<1>3. CASE WaitForTransaction(t, rest, waits)
  BY <1>3 DEF WaitForTransaction, WaitersOK, HolderOK, TurnIsReleased
<1>4. CASE WaitForTurn(t, rest, waits)
  BY <1>4 DEF WaitForTurn, WaitersOK, HolderOK, TurnIsReleased
<1>5. CASE TakeTurn(t, rest, waits)
  <2>1. CASE Len(queue) < QueueLimit
    <3>1. turnOwner' = t[1] /\ queue' = Append(queue, t) /\ woken' = rest
          /\ UNCHANGED <<transactionWaiters, turnWaiters>>
      BY <1>5, <2>1 DEF TakeTurn
    <3> QED
      BY <1>1, <3>1, AppendKeeps DEF WaitersOK, HolderOK, TurnIsReleased
  <2>2. CASE ~(Len(queue) < QueueLimit)
    <3>1. turnOwner' = None /\ turnWaiters' = <<>> /\ woken' = rest \o turnWaiters
          /\ UNCHANGED <<transactionWaiters, queue>>
      BY <1>5, <2>2 DEF TakeTurn
    <3> QED
      BY <3>1 DEF WaitersOK, HolderOK, TurnIsReleased
  <2> QED
    BY <2>1, <2>2
<1> QED
  BY <1>2, <1>3, <1>4, <1>5 DEF AcquireTurn

LEMMA ClosingKeeps ==
  ASSUME TurnInv, NEW s \in Sessions, NEW how, CloseSession(s, how)
  PROVE  TurnInv'
<1>1. CASE inTransaction[s]
  <2>1. AcquireTurn(Closing(s), <<>>, waiting)
    BY <1>1 DEF CloseSession
  <2>2. Closing(s) \in SessionTask
    BY TaskNames
  <2> QED
    BY <2>1, <2>2, NobodyWaits, AcquireTurnKeeps
<1>2. CASE ~inTransaction[s]
  <2>1. UNCHANGED <<turns, queue>>
    BY <1>2 DEF CloseSession
  <2> QED
    BY <2>1, TurnUntouched DEF turns
<1> QED
  BY <1>1, <1>2

\* Sessions, requests and timers.
LEMMA ClientsKeep ==
  ASSUME TurnInv, Clients
  PROVE  TurnInv'
<1>1. CASE \E s \in Sessions : OpenSession(s)
  BY <1>1, TurnUntouched DEF OpenSession, turns
<1>2. ASSUME NEW s \in Sessions, CloseRequest(s)
      PROVE  TurnInv'
  BY <1>2, ClosingKeeps DEF CloseRequest
<1>3. ASSUME NEW s \in Sessions, Cancel(s)
      PROVE  TurnInv'
  <2> DEFINE mine == {s} \X (0 .. MaxRequests)
  <2>1. /\ transactionWaiters' = RemoveWaiter(transactionWaiters, mine)
        /\ turnWaiters' = RemoveWaiter(turnWaiters, mine)
        /\ woken' = FoundWaiter(transactionWaiters, mine) \o FoundWaiter(turnWaiters, mine)
        /\ turnOwner' = turnOwner /\ queue' = queue
    BY <1>3 DEF Cancel
  <2> HIDE DEF mine
  <2>2. WaitersOK'
    BY <2>1, WaitersType DEF TurnInv, WaitersOK
  <2> QED
    BY <2>1, <2>2 DEF TurnInv, HolderOK, TurnIsReleased
<1>4. ASSUME NEW t \in Task, SendRequest(t)
      PROVE  TurnInv'
  <2>1. t \in SessionTask /\ AcquireTurn(t, <<>>, waiting)
    BY <1>4, TaskNames DEF SendRequest
  <2> QED
    BY <2>1, NobodyWaits, AcquireTurnKeeps
<1>5. ASSUME NEW t \in Task, Enqueue(t)
      PROVE  TurnInv'
  <2>1. UNCHANGED <<turnOwner, transactionWaiters, turnWaiters, woken>>
    BY <1>5 DEF Enqueue, turns
  <2>2. CASE Len(queue) < QueueLimit
    <3>1. queue' = Append(queue, t)
      BY <1>5, <2>2 DEF Enqueue
    <3> QED
      BY <2>1, <3>1, AppendKeeps DEF TurnInv, WaitersOK, HolderOK, TurnIsReleased
  <2>3. CASE ~(Len(queue) < QueueLimit)
    <3>1. queue' = queue
      BY <1>5, <2>3 DEF Enqueue
    <3> QED
      BY <2>1, <3>1, TurnUntouched
  <2> QED
    BY <2>2, <2>3
<1>6. CASE \E t \in Task : SendScript(t) \/ SendBackup(t)
  BY <1>5, <1>6 DEF SendScript, SendBackup
<1> QED
  BY <1>1, <1>2, <1>3, <1>4, <1>6 DEF Clients

LEMMA TimersKeep ==
  ASSUME TurnInv, Timers
  PROVE  TurnInv'
<1>1. ASSUME NEW s \in Sessions, IdleTimeout(s)
      PROVE  TurnInv'
  BY <1>1, ClosingKeeps DEF IdleTimeout
<1>2. ASSUME NEW t \in SessionTask, WaitTimeout(t)
      PROVE  TurnInv'
  <2>1. /\ transactionWaiters' = RemoveWaiter(transactionWaiters, {t})
        /\ turnWaiters' = RemoveWaiter(turnWaiters, {t})
        /\ UNCHANGED <<woken, turnOwner, queue>>
    BY <1>2 DEF WaitTimeout
  <2>2. WaitersOK'
    BY <2>1, WaitersType DEF TurnInv, WaitersOK
  <2> QED
    BY <2>1, <2>2 DEF TurnInv, HolderOK, TurnIsReleased
<1> QED
  BY <1>1, <1>2 DEF Timers

\* Every step in which an operation leaves the queue and the transaction lock
\* stays where it is.
LEMMA LeavingKeeps ==
  ASSUME TurnInv, queue # <<>>, Leave(Operation, <<>>), UNCHANGED transactionWaiters
  PROVE  TurnInv'
<1>1. WaitersOK /\ HolderOK /\ TurnIsReleased
  BY DEF TurnInv
<1>2. HolderOK' /\ TurnIsReleased' /\ turnWaiters' \in Seq(SessionTask)
      /\ woken' \in Seq(SessionTask)
  BY <1>1, NobodyWaits, LeaveTurn
<1> QED
  BY <1>1, <1>2 DEF TurnInv, WaitersOK

\* The queue.
LEMMA BridgeKeeps ==
  ASSUME TurnInv, Bridge
  PROVE  TurnInv'
<1>1. CASE Resume
  <2>1. Head(woken) \in SessionTask /\ Tail(woken) \in Seq(SessionTask)
    BY <1>1 DEF Resume, TurnInv, WaitersOK
  <2> QED
    BY <1>1, <2>1, AcquireTurnKeeps DEF Resume
<1>2. CASE Skip
  BY <1>2, LeavingKeeps DEF Skip, Ready
<1>3. CASE Submit
  BY <1>3, TurnUntouched DEF Submit, turns
<1>4. CASE SubmitToClosing
  BY <1>4, LeavingKeeps DEF SubmitToClosing, Ready
<1>5. CASE StartScript
  BY <1>5, TurnUntouched DEF StartScript, turns
<1> QED
  BY <1>1, <1>2, <1>3, <1>4, <1>5 DEF Bridge

\* The engine answers.
LEMMA AnswerKeeps ==
  ASSUME TurnInv, NEW open, NEW uncertain, Answer(open, uncertain)
  PROVE  TurnInv'
<1>1. queue # <<>>
  BY DEF Answer, Working
<1>2. CASE Operation \in SessionTask
  <2> DEFINE woke == TransactionWaitersOf(Operation[1], open)
  <2>1. Leave(Operation, woke) /\ ApplyTransactionResult(Operation[1], open)
    BY <1>2 DEF Answer
  <2>2. woke \in Seq(SessionTask)
    BY DEF TransactionWaitersOf, TurnInv, WaitersOK
  <2>3. transactionWaiters' \in Seq(SessionTask)
    BY <2>1 DEF ApplyTransactionResult, TurnInv, WaitersOK
  <2> HIDE DEF woke
  <2> QED
    BY <1>1, <2>1, <2>2, <2>3, LeaveTurn DEF TurnInv, WaitersOK
<1>3. CASE Operation \notin SessionTask
  BY <1>1, <1>3, LeavingKeeps DEF Answer
<1> QED
  BY <1>2, <1>3

\* The engine and the processes of scripts.
LEMMA ProcessesKeep ==
  ASSUME TurnInv, Processes \/ EngineDies
  PROVE  TurnInv'
<1>1. CASE \E open, uncertain \in BOOLEAN : Answer(open, uncertain)
  BY <1>1, AnswerKeeps
<1>2. CASE EngineReady
  BY <1>2, TurnUntouched DEF EngineReady, turns
<1>3. CASE EngineRefused
  <2>1. transactionWaiters' = transactionWaiters
    BY <1>3 DEF EngineRefused
  <2>2. CASE queue # <<>> /\ at[Operation] = "starting"
    BY <1>3, <2>1, <2>2, LeavingKeeps DEF EngineRefused
  <2>3. CASE ~(queue # <<>> /\ at[Operation] = "starting")
    BY <1>3, <2>1, <2>3, TurnUntouched DEF EngineRefused
  <2> QED
    BY <2>2, <2>3
<1>4. ASSUME NEW ended, ClearAllSessions(ended), queue' \in Seq(Task)
      PROVE  TurnInv'
  BY <1>4, ClearTurn DEF TurnInv, HolderOK, TurnIsReleased
<1>5. CASE EngineClosed
  <2>1. ClearAllSessions({}) /\ queue' = queue
    BY <1>5 DEF EngineClosed
  <2> QED
    BY <1>4, <2>1 DEF TurnInv, HolderOK
<1>6. CASE EngineDies
  <2>1. CASE Working
    <3>1. queue' = Tail(queue) /\ ClearAllSessions({Operation}) /\ queue # <<>>
      BY <1>6, <2>1 DEF EngineDies, Working
    <3>2. queue' \in Seq(Task)
      BY <3>1 DEF TurnInv, HolderOK
    <3> QED
      BY <1>4, <3>1, <3>2
  <2>2. CASE ~Working
    <3>1. ClearAllSessions({}) /\ queue' = queue
      BY <1>6, <2>2 DEF EngineDies
    <3> QED
      BY <1>4, <3>1 DEF TurnInv, HolderOK
  <2> QED
    BY <2>1, <2>2
<1>7. CASE ScriptLocks
  BY <1>7, TurnUntouched DEF ScriptLocks, turns
<1>8. CASE ScriptRefused
  BY <1>8, LeavingKeeps DEF ScriptRefused, Scripting
<1>9. CASE ScriptDone
  BY <1>9, LeavingKeeps DEF ScriptDone, Scripting
<1>10. CASE ScriptFails
  BY <1>10, LeavingKeeps DEF ScriptFails, Scripting
<1> QED
  BY <1>1, <1>2, <1>3, <1>5, <1>6, <1>7, <1>8, <1>9, <1>10 DEF Processes

LEMMA StepKeepsTurn ==
  ASSUME TurnInv, [Next]_vars
  PROVE  TurnInv'
<1>1. CASE Finished \/ UNCHANGED vars
  <2>1. UNCHANGED vars
    BY <1>1 DEF Finished
  <2> QED
    BY <2>1, TurnUntouched DEF vars, turns
<1> QED
  BY <1>1, ClientsKeep, TimersKeep, BridgeKeeps, ProcessesKeep DEF Next

-----------------------------------------------------------------------------

\* Whatever clients do, and whatever fails: the turn is held only while a task
\* of its holder is in the queue, so that its end will release it (releaseTurn).
THEOREM TurnReleased == Spec => []TurnIsReleased
<1>1. TurnInv => TurnIsReleased
  BY DEF TurnInv
<1> QED
  BY <1>1, InitTurn, StepKeepsTurn, PTL DEF Spec

-----------------------------------------------------------------------------
(* Lists without duplicates.                                               *)

Once(q) == \A i, j \in 1 .. Len(q) : q[i] = q[j] => i = j

\* q lists the members of S, each once
Lists(q, S) == q \in Seq(Task) /\ Once(q) /\ ToSet(q) = S

LEMMA ListsNothing == Lists(<<>>, {})
  BY DEF Lists, Once, ToSet

LEMMA ListsAppend ==
  ASSUME NEW q, NEW S, NEW t \in Task, Lists(q, S), t \notin S
  PROVE  Lists(Append(q, t), S \cup {t})
<1> DEFINE p == Append(q, t)
<1>1. q \in Seq(Task) /\ p \in Seq(Task) /\ Len(p) = Len(q) + 1 /\ Len(q) \in Nat
  BY DEF Lists
<1>2. p[Len(q) + 1] = t /\ \A i \in 1 .. Len(q) : p[i] = q[i]
  BY <1>1
<1>3. DOMAIN q = 1 .. Len(q) /\ DOMAIN p = 1 .. (Len(q) + 1)
  BY <1>1
<1> HIDE DEF p
<1>4. \A i \in 1 .. Len(q) : q[i] # t
  BY <1>3 DEF Lists, ToSet
<1>5. Once(p)
  BY <1>1, <1>2, <1>4 DEF Once, Lists
<1>6. ToSet(p) = ToSet(q) \cup {t}
  BY <1>1, <1>2, <1>3 DEF ToSet
<1> QED
  BY <1>1, <1>5, <1>6 DEF Lists, p

LEMMA ListsConcat ==
  ASSUME NEW p, NEW q, NEW S, NEW T, Lists(p, S), Lists(q, T), S \cap T = {}
  PROVE  Lists(p \o q, S \cup T)
<1> DEFINE r == p \o q
<1>1. p \in Seq(Task) /\ q \in Seq(Task) /\ r \in Seq(Task)
      /\ Len(r) = Len(p) + Len(q) /\ Len(p) \in Nat /\ Len(q) \in Nat
  BY DEF Lists
<1>2. /\ \A i \in 1 .. Len(p) : r[i] = p[i]
      /\ \A i \in 1 .. Len(r) : i > Len(p) => i - Len(p) \in 1 .. Len(q) /\ r[i] = q[i - Len(p)]
      /\ \A i \in 1 .. Len(q) : r[i + Len(p)] = q[i]
  BY <1>1
<1>3. DOMAIN p = 1 .. Len(p) /\ DOMAIN q = 1 .. Len(q) /\ DOMAIN r = 1 .. (Len(p) + Len(q))
  BY <1>1
<1> HIDE DEF r
<1>4. \A i \in 1 .. Len(p) : p[i] \in S
  BY <1>3 DEF Lists, ToSet
<1>5. \A i \in 1 .. Len(q) : q[i] \in T
  BY <1>3 DEF Lists, ToSet
<1>6. Once(r)
  <2> SUFFICES ASSUME NEW i \in 1 .. Len(r), NEW j \in 1 .. Len(r), r[i] = r[j]
               PROVE  i = j
    BY DEF Once
  <2>1. CASE i <= Len(p) /\ j <= Len(p)
    BY <2>1, <1>1, <1>2 DEF Once, Lists
  <2>2. CASE i > Len(p) /\ j > Len(p)
    BY <2>2, <1>1, <1>2 DEF Once, Lists
  <2>3. CASE i <= Len(p) /\ j > Len(p)
    <3>1. r[i] \in S
      BY <2>3, <1>1, <1>2, <1>4
    <3>2. r[j] \in T
      BY <2>3, <1>1, <1>2, <1>5
    <3> QED
      BY <3>1, <3>2
  <2>4. CASE i > Len(p) /\ j <= Len(p)
    <3>1. r[j] \in S
      BY <2>4, <1>1, <1>2, <1>4
    <3>2. r[i] \in T
      BY <2>4, <1>1, <1>2, <1>5
    <3> QED
      BY <3>1, <3>2
  <2> QED
    BY <1>1, <2>1, <2>2, <2>3, <2>4
<1>7. ToSet(r) = ToSet(p) \cup ToSet(q)
  <2>1. ToSet(r) \subseteq ToSet(p) \cup ToSet(q)
    <3> SUFFICES ASSUME NEW i \in DOMAIN r
                 PROVE  r[i] \in ToSet(p) \cup ToSet(q)
      BY DEF ToSet
    <3>1. CASE i <= Len(p)
      BY <3>1, <1>1, <1>2, <1>3 DEF ToSet
    <3>2. CASE i > Len(p)
      BY <3>2, <1>1, <1>2, <1>3 DEF ToSet
    <3> QED
      BY <3>1, <3>2, <1>1, <1>3
  <2>2. ToSet(p) \subseteq ToSet(r)
    BY <1>1, <1>2, <1>3 DEF ToSet
  <2>3. \A i \in DOMAIN q : q[i] \in ToSet(r)
    BY <1>1, <1>2, <1>3 DEF ToSet
  <2>4. ToSet(q) \subseteq ToSet(r)
    BY <2>3 DEF ToSet
  <2> QED
    BY <2>1, <2>2, <2>4
<1> QED
  BY <1>1, <1>6, <1>7 DEF Lists, r

LEMMA ListsTail ==
  ASSUME NEW q, NEW S, Lists(q, S), q # <<>>
  PROVE  Head(q) \in S /\ Lists(Tail(q), S \ {Head(q)})
<1> DEFINE p == Tail(q)
<1>1. q \in Seq(Task) /\ p \in Seq(Task) /\ Len(q) \in Nat \ {0} /\ Len(p) = Len(q) - 1
  BY DEF Lists
<1>2. Head(q) = q[1] /\ \A i \in 1 .. Len(p) : p[i] = q[i + 1]
  BY <1>1
<1>3. DOMAIN q = 1 .. Len(q) /\ DOMAIN p = 1 .. Len(p)
  BY <1>1
<1> HIDE DEF p
<1>4. Once(p)
  BY <1>1, <1>2 DEF Once, Lists
<1>5. \A i \in 1 .. Len(p) : p[i] # q[1] /\ p[i] \in ToSet(q)
  BY <1>1, <1>2, <1>3 DEF Once, Lists, ToSet
<1>6. \A i \in 1 .. Len(q) : i # 1 => i - 1 \in 1 .. Len(p) /\ q[i] = p[i - 1]
  BY <1>1, <1>2
<1>7. \A i \in 1 .. Len(q) : q[i] # q[1] => q[i] \in ToSet(p)
  BY <1>6, <1>3 DEF ToSet
<1>8. ToSet(p) = ToSet(q) \ {q[1]}
  BY <1>5, <1>7, <1>3 DEF ToSet
<1>9. q[1] \in ToSet(q)
  BY <1>1, <1>3 DEF ToSet
<1> QED
  BY <1>1, <1>2, <1>4, <1>8, <1>9 DEF Lists, p

LEMMA ListsRemoveAt ==
  ASSUME NEW q, NEW S, Lists(q, S), NEW i \in 1 .. Len(q)
  PROVE  q[i] \in S /\ Lists(RemoveAt(q, i), S \ {q[i]})
<1> DEFINE left == SubSeq(q, 1, i - 1)
           right == SubSeq(q, i + 1, Len(q))
           p == left \o right
<1>1. q \in Seq(Task) /\ Len(q) \in Nat /\ DOMAIN q = 1 .. Len(q)
      /\ \A k \in 1 .. Len(q) : q[k] \in Task
  BY DEF Lists
<1>2. left \in Seq(Task) /\ Len(left) = i - 1 /\ \A k \in 1 .. (i - 1) : left[k] = q[k]
  BY <1>1
<1>3. right \in Seq(Task) /\ Len(right) = Len(q) - i
      /\ \A k \in 1 .. (Len(q) - i) : right[k] = q[k + i]
  <2>1. \A k \in (i + 1) .. Len(q) : q[k] \in Task
    BY <1>1
  <2>2. /\ right \in Seq(Task)
        /\ Len(right) = IF i + 1 <= Len(q) THEN Len(q) - (i + 1) + 1 ELSE 0
        /\ \A k \in 1 .. (Len(q) - (i + 1) + 1) : right[k] = q[(i + 1) + k - 1]
    BY <1>1, <2>1, SubSeqProperties
  <2> HIDE DEF right
  <2>3. ASSUME NEW k \in 1 .. (Len(q) - i)
        PROVE  right[k] = q[k + i]
    <3>1. k \in 1 .. (Len(q) - (i + 1) + 1) /\ (i + 1) + k - 1 = k + i
      BY <1>1
    <3> QED
      BY <3>1, <2>2
  <2>4. Len(right) = Len(q) - i
    <3>1. CASE i + 1 <= Len(q)
      BY <3>1, <1>1, <2>2
    <3>2. CASE ~(i + 1 <= Len(q))
      <4>1. Len(q) \in Int /\ i \in Int /\ i <= Len(q)
        BY <1>1
      <4>2. Len(q) - i = 0
        BY <3>2, <4>1
      <4> QED
        BY <3>2, <4>2, <2>2
    <3> QED
      BY <3>1, <3>2
  <2> QED
    BY <2>2, <2>3, <2>4
<1>5. p = RemoveAt(q, i)
  BY DEF RemoveAt
<1> HIDE DEF left, right
<1>4. /\ p \in Seq(Task) /\ Len(p) = Len(q) - 1 /\ DOMAIN p = 1 .. (Len(q) - 1)
      /\ \A k \in 1 .. (i - 1) : p[k] = q[k]
      /\ \A k \in i .. (Len(q) - 1) : p[k] = q[k + 1]
  <2>1. /\ p \in Seq(Task) /\ Len(p) = Len(left) + Len(right)
        /\ \A k \in 1 .. Len(left) + Len(right) :
             p[k] = IF k <= Len(left) THEN left[k] ELSE right[k - Len(left)]
    BY <1>2, <1>3, ConcatProperties
  <2> HIDE DEF p
  <2>2. Len(p) = Len(q) - 1 /\ DOMAIN p = 1 .. (Len(q) - 1)
    BY <1>1, <1>2, <1>3, <2>1
  <2>3. ASSUME NEW k \in 1 .. (i - 1)
        PROVE  p[k] = q[k]
    <3>1. k \in 1 .. Len(left) + Len(right) /\ k <= Len(left)
      BY <1>1, <1>2, <1>3
    <3> QED
      BY <3>1, <2>1, <1>2
  <2>4. ASSUME NEW k \in i .. (Len(q) - 1)
        PROVE  p[k] = q[k + 1]
    <3>3. k \in 1 .. Len(left) + Len(right) /\ ~(k <= Len(left)) /\ Len(left) = i - 1
      BY <1>1, <1>2, <1>3
    <3>1. p[k] = right[k - (i - 1)]
      BY <3>3, <2>1
    <3>2. k - (i - 1) \in 1 .. (Len(q) - i) /\ (k - (i - 1)) + i = k + 1
      BY <1>1
    <3> QED
      BY <3>1, <3>2, <1>3
  <2> QED
    BY <2>1, <2>2, <2>3, <2>4
<1> HIDE DEF p
<1>6. \A k, l \in 1 .. Len(q) : q[k] = q[l] => k = l
  BY DEF Lists, Once
<1>7. Once(p)
  <2> SUFFICES ASSUME NEW k \in 1 .. Len(p), NEW l \in 1 .. Len(p), p[k] = p[l]
               PROVE  k = l
    BY DEF Once
  <2> DEFINE old(n) == IF n < i THEN n ELSE n + 1
  <2>1. old(k) \in 1 .. Len(q) /\ old(l) \in 1 .. Len(q)
        /\ p[k] = q[old(k)] /\ p[l] = q[old(l)]
    BY <1>1, <1>4
  <2>2. old(k) = old(l)
    BY <2>1, <1>6
  <2> QED
    BY <2>2, <1>1, <1>4
<1>8. \A k \in DOMAIN p : p[k] \in ToSet(q) /\ p[k] # q[i]
  BY <1>1, <1>4, <1>6 DEF ToSet
<1>9. \A k \in DOMAIN q : k # i => q[k] \in ToSet(p)
  <2> SUFFICES ASSUME NEW k \in DOMAIN q, k # i
               PROVE  \E l \in DOMAIN p : q[k] = p[l]
    BY DEF ToSet
  <2>1. CASE k < i
    BY <2>1, <1>1, <1>4
  <2>2. CASE k > i
    <3>1. k - 1 \in i .. (Len(q) - 1)
      BY <2>2, <1>1
    <3>2. k - 1 \in DOMAIN p /\ p[k - 1] = q[k]
      BY <3>1, <1>1, <1>4
    <3> QED
      BY <3>2
  <2> QED
    BY <2>1, <2>2, <1>1
<1>10. ToSet(p) = ToSet(q) \ {q[i]}
  BY <1>8, <1>9 DEF ToSet
<1>11. q[i] \in ToSet(q)
  BY <1>1 DEF ToSet
<1> QED
  BY <1>4, <1>5, <1>7, <1>10, <1>11 DEF Lists

\* The first waiter among some tasks is taken out, if there is one.
LEMMA ListsRemove ==
  ASSUME NEW q, NEW S, NEW tasks, Lists(q, S)
  PROVE  \E R \in SUBSET (S \cap tasks) :
           /\ S \cap tasks # {} => R # {}
           /\ Lists(FoundWaiter(q, tasks), R)
           /\ Lists(RemoveWaiter(q, tasks), S \ R)
<1> DEFINE found == {i \in DOMAIN q : q[i] \in tasks}
           i == FirstAmong(q, tasks)
<1>1. q \in Seq(Task) /\ Len(q) \in Nat /\ DOMAIN q = 1 .. Len(q)
  BY DEF Lists
<1>2. found \in SUBSET Nat
  BY <1>1
<1>3. i = IF found = {} THEN 0 ELSE Min(found)
  BY DEF FirstAmong
<1>4. found # {} => Min(found) \in found
  BY <1>2, MinExists
<1> HIDE DEF i
<1>5. CASE found = {}
  <2>1. i = 0
    BY <1>3, <1>5
  <2>2. S \cap tasks = {}
    BY <1>5 DEF Lists, ToSet
  <2>3. FoundWaiter(q, tasks) = <<>> /\ RemoveWaiter(q, tasks) = q
    BY <2>1 DEF FoundWaiter, RemoveWaiter, i
  <2> QED
    BY <2>2, <2>3, ListsNothing
<1>6. CASE found # {}
  <2>1. i \in 1 .. Len(q) /\ i # 0 /\ q[i] \in tasks
    BY <1>1, <1>3, <1>4, <1>6
  <2>2. FoundWaiter(q, tasks) = <<q[i]>> /\ RemoveWaiter(q, tasks) = RemoveAt(q, i)
    BY <2>1 DEF FoundWaiter, RemoveWaiter, i
  <2>3. q[i] \in S /\ Lists(RemoveAt(q, i), S \ {q[i]})
    BY <2>1, ListsRemoveAt
  <2>4. q[i] \in Task
    BY <1>1, <2>1
  <2>5. Lists(<<q[i]>>, {q[i]})
    <3>1. Append(<<>>, q[i]) = <<q[i]>> /\ {} \cup {q[i]} = {q[i]}
      BY <2>4
    <3>2. Lists(Append(<<>>, q[i]), {} \cup {q[i]})
      BY <2>4, ListsNothing, ListsAppend
    <3> QED
      BY <3>1, <3>2
  <2> QED
    BY <2>1, <2>2, <2>3, <2>5
<1> QED
  BY <1>5, <1>6

\* Its elements are the members of S.
LEMMA ListsType ==
  ASSUME NEW q, NEW S, NEW U, Lists(q, S), S \subseteq U
  PROVE  q \in Seq(U)
<1>1. q \in [1 .. Len(q) -> U] /\ Len(q) \in Nat
  BY DEF Lists, ToSet
<1> QED
  BY <1>1

-----------------------------------------------------------------------------
(* The types of the variables.                                             *)

InQueue == {"queued", "starting", "running", "locked"}
Where(P) == {t \in Task : at[t] \in P}

Registers ==
  /\ life \in [Sessions -> {"new", "opening", "open", "closed", "reaped"}]
  /\ inTransaction \in [Sessions -> BOOLEAN] /\ waiting \in [Sessions -> BOOLEAN]
  /\ activeRequest \in [Sessions -> BOOLEAN] /\ cancelRequested \in [Sessions -> BOOLEAN]
  /\ at \in [Task -> Positions]
  /\ transactionOwner \in Sessions \cup {None} /\ turnOwner \in Sessions \cup {None}
  /\ quarantined \in BOOLEAN /\ failed \in BOOLEAN
  /\ engine \in {"none", "opening", "open", "closing"}
  /\ transaction \in Sessions \cup {None}

Queues ==
  /\ Lists(transactionWaiters, Where({"waitTransaction"}))
  /\ Lists(turnWaiters, Where({"waitTurn"}))
  /\ Lists(woken, Where({"woken"}))
  /\ Lists(queue, Where(InQueue))
  /\ Where({"waitTransaction", "waitTurn", "woken"}) \subseteq SessionTask

\* the ROLLBACK of a session that is not closed yet is still to come
Fresh ==
  \A s \in Sessions : life[s] \in {"new", "opening", "open"} => at[Closing(s)] = "new"

TypeInv == Registers /\ Queues /\ Fresh

LEMMA TypeInvTypes == TypeInv => TypeOK
<1> SUFFICES ASSUME TypeInv
             PROVE  TypeOK
  OBVIOUS
<1> USE DEF TypeInv
<1>1. transactionWaiters \in Seq(SessionTask) /\ turnWaiters \in Seq(SessionTask)
      /\ woken \in Seq(SessionTask)
  <2>1. /\ Where({"waitTransaction"}) \subseteq SessionTask
        /\ Where({"waitTurn"}) \subseteq SessionTask
        /\ Where({"woken"}) \subseteq SessionTask
    BY DEF Queues, Where
  <2> QED
    BY <2>1, ListsType DEF Queues
<1>2. /\ ToSet(transactionWaiters) = {t \in Task : at[t] = "waitTransaction"}
      /\ ToSet(turnWaiters) = {t \in Task : at[t] = "waitTurn"}
      /\ ToSet(woken) = {t \in Task : at[t] = "woken"}
      /\ ToSet(queue) = {t \in Task : at[t] \in {"queued", "starting", "running", "locked"}}
      /\ queue \in Seq(Task)
  BY DEF Queues, Lists, Where, InQueue
<1> QED
  BY <1>1, <1>2 DEF TypeOK, Registers

LEMMA InitTypes == Init => TypeInv
<1> SUFFICES ASSUME Init
             PROVE  TypeInv
  OBVIOUS
<1>1. /\ Where({"waitTransaction"}) = {} /\ Where({"waitTurn"}) = {}
      /\ Where({"woken"}) = {} /\ Where(InQueue) = {}
      /\ Where({"waitTransaction", "waitTurn", "woken"}) = {}
  BY DEF Init, Where, InQueue
<1>2. Queues
  BY <1>1, ListsNothing DEF Init, Queues
<1>3. Registers
  BY DEF Init, Registers, Positions
<1>4. Fresh
  BY TaskNames DEF Init, Fresh
<1> QED
  BY <1>2, <1>3, <1>4 DEF TypeInv

\* One task moves.
LEMMA OneMoves ==
  ASSUME at \in [Task -> Positions], NEW t \in Task, NEW p, at' = [at EXCEPT ![t] = p]
  PROVE  \A P : /\ p \in P => Where(P)' = Where(P) \cup {t}
                /\ p \notin P => Where(P)' = Where(P) \ {t}
<1>1. at'[t] = p /\ \A u \in Task \ {t} : at'[u] = at[u]
  OBVIOUS
<1> QED
  BY <1>1 DEF Where

\* Some end, some are woken.
LEMMA SomeWoken ==
  ASSUME at \in [Task -> Positions], NEW ended, NEW all, NEW S,
         Lists(all, S), at' = Places(ended, all)
  PROVE  /\ \A P : {"done", "woken"} \cap P = {} => Where(P)' = Where(P) \ (ended \cup S)
         /\ Where({"woken"})' = (Where({"woken"}) \cup S) \ ended
<1>1. S \subseteq Task /\ ToSet(all) = S
  BY DEF Lists, ToSet
<1>2. \A u \in Task : at'[u] = IF u \in ended THEN "done" ELSE IF u \in S THEN "woken" ELSE at[u]
  BY <1>1 DEF Places
<1> QED
  BY <1>1, <1>2 DEF Where

\* Who takes part in acquireTurn, and who is still to be resumed after it.
Turner(t, rest) ==
  /\ t \in SessionTask /\ at[t] \in {"new", "woken"}
  /\ Lists(rest, Where({"woken"}) \ {t})

\* life may change, but nobody opens a session that has no ROLLBACK to come
Spares(t) ==
  /\ life' \in [Sessions -> {"new", "opening", "open", "closed", "reaped"}]
  /\ \A s \in Sessions :
       life'[s] \in {"new", "opening", "open"} => at[Closing(s)] = "new" /\ t # Closing(s)

LEMMA RefusedTypes ==
  ASSUME TypeInv, NEW t, NEW rest, NEW waits \in [Sessions -> BOOLEAN],
         Turner(t, rest), Spares(t), Refused(t, rest, waits),
         UNCHANGED <<inTransaction, activeRequest, transaction, failed>>
  PROVE  TypeInv'
<1>1. t \in Task /\ t[1] \in Sessions /\ at \in [Task -> Positions]
  BY TaskNames DEF Turner, TypeInv, Registers
<1>2. /\ cancelRequested' = [cancelRequested EXCEPT ![t[1]] = FALSE]
      /\ waiting' = waits /\ woken' = rest
      /\ at' = [at EXCEPT ![t] = "done"]
      /\ UNCHANGED <<transactionOwner, turnOwner, transactionWaiters, turnWaiters, queue>>
  BY DEF Refused
<1>3. quarantined' \in BOOLEAN /\ engine' \in {"none", "opening", "open", "closing"}
  BY DEF Refused, Throws, CloseEngineIfIdle, TypeInv, Registers
<1>4. Registers'
  BY <1>1, <1>2, <1>3 DEF TypeInv, Registers, Spares, Positions
<1>5. \A P : "done" \notin P => Where(P)' = Where(P) \ {t}
  BY <1>1, <1>2, OneMoves
<1>6. Where({"woken"})' = Where({"woken"}) \ {t}
      /\ Where({"waitTransaction"})' = Where({"waitTransaction"})
      /\ Where({"waitTurn"})' = Where({"waitTurn"})
      /\ Where(InQueue)' = Where(InQueue)
      /\ Where({"waitTransaction", "waitTurn", "woken"})' \subseteq
           Where({"waitTransaction", "waitTurn", "woken"})
  <2>1. t \notin Where({"waitTransaction"}) /\ t \notin Where({"waitTurn"}) /\ t \notin Where(InQueue)
    BY DEF Turner, Where, InQueue
  <2> QED
    BY <1>5, <2>1 DEF InQueue
<1>7. Queues'
  BY <1>2, <1>6 DEF TypeInv, Queues, Turner
<1>8. Fresh'
  BY <1>1, <1>2, TaskNames DEF Fresh, Spares
<1> QED
  BY <1>4, <1>7, <1>8 DEF TypeInv

\* The sets a task that takes part leaves or does not belong to.
LEMMA TurnerMoves ==
  ASSUME TypeInv, NEW t, NEW rest, Turner(t, rest)
  PROVE  /\ t \in Task /\ t[1] \in Sessions
         /\ t \notin Where({"waitTransaction"}) /\ t \notin Where({"waitTurn"})
         /\ t \notin Where(InQueue)
<1>1. t \in Task /\ t[1] \in Sessions
  BY TaskNames DEF Turner
<1> QED
  BY <1>1 DEF Turner, Where, InQueue

LEMMA WaitTypes ==
  ASSUME TypeInv, NEW t, NEW rest, NEW waits \in [Sessions -> BOOLEAN],
         Turner(t, rest), Spares(t),
         WaitForTransaction(t, rest, waits) \/ WaitForTurn(t, rest, waits),
         UNCHANGED <<inTransaction, activeRequest, transaction, failed>>
  PROVE  TypeInv'
<1>1. t \in Task /\ t[1] \in Sessions /\ at \in [Task -> Positions] /\ t \in SessionTask
  BY TurnerMoves DEF Turner, TypeInv, Registers
<1>2. PICK p \in {"waitTransaction", "waitTurn"} :
        /\ at' = [at EXCEPT ![t] = p]
        /\ transactionWaiters' = IF p = "waitTransaction" THEN Append(transactionWaiters, t)
                                                          ELSE transactionWaiters
        /\ turnWaiters' = IF p = "waitTurn" THEN Append(turnWaiters, t) ELSE turnWaiters
  BY DEF WaitForTransaction, WaitForTurn
<1>3. /\ waiting' = [waits EXCEPT ![t[1]] = TRUE] /\ woken' = rest
      /\ UNCHANGED <<cancelRequested, transactionOwner, turnOwner, queue, quarantined, engine>>
  BY DEF WaitForTransaction, WaitForTurn
<1>4. Registers'
  BY <1>1, <1>2, <1>3 DEF TypeInv, Registers, Spares, Positions
<1>5. \A P : /\ p \in P => Where(P)' = Where(P) \cup {t}
             /\ p \notin P => Where(P)' = Where(P) \ {t}
  BY <1>1, <1>2, OneMoves
<1>6. /\ Where({"woken"})' = Where({"woken"}) \ {t}
      /\ Where(InQueue)' = Where(InQueue)
      /\ Where({"waitTransaction", "waitTurn", "woken"})' \subseteq
           Where({"waitTransaction", "waitTurn", "woken"}) \cup {t}
  <2>1. p \notin InQueue /\ p \notin {"woken"}
    BY DEF InQueue
  <2>2. Where({"woken"})' = Where({"woken"}) \ {t} /\ Where(InQueue)' = Where(InQueue) \ {t}
    BY <1>5, <2>1
  <2>3. Where({"waitTransaction", "waitTurn", "woken"})' =
          Where({"waitTransaction", "waitTurn", "woken"}) \cup {t}
    BY <1>5
  <2> QED
    BY <2>2, <2>3, TurnerMoves
<1>7. /\ p = "waitTransaction" =>
           /\ Where({"waitTransaction"})' = Where({"waitTransaction"}) \cup {t}
           /\ Where({"waitTurn"})' = Where({"waitTurn"})
      /\ p = "waitTurn" =>
           /\ Where({"waitTurn"})' = Where({"waitTurn"}) \cup {t}
           /\ Where({"waitTransaction"})' = Where({"waitTransaction"})
  BY <1>5, TurnerMoves
<1>8. Lists(transactionWaiters', Where({"waitTransaction"})')
  BY <1>1, <1>2, <1>7, TurnerMoves, ListsAppend DEF TypeInv, Queues
<1>9. Lists(turnWaiters', Where({"waitTurn"})')
  BY <1>1, <1>2, <1>7, TurnerMoves, ListsAppend DEF TypeInv, Queues
<1>10. Queues'
  BY <1>1, <1>3, <1>6, <1>8, <1>9 DEF TypeInv, Queues, Turner
<1>11. Fresh'
  BY <1>1, <1>2, TaskNames DEF Fresh, Spares
<1> QED
  BY <1>4, <1>10, <1>11 DEF TypeInv

LEMMA TakeTypes ==
  ASSUME TypeInv, NEW t, NEW rest, NEW waits \in [Sessions -> BOOLEAN],
         Turner(t, rest), Spares(t), TakeTurn(t, rest, waits),
         UNCHANGED <<inTransaction, activeRequest, transaction, failed>>
  PROVE  TypeInv'
<1>1. t \in Task /\ t[1] \in Sessions /\ at \in [Task -> Positions] /\ t \in SessionTask
  BY TurnerMoves DEF Turner, TypeInv, Registers
<1>2. /\ waiting' = [waits EXCEPT ![t[1]] = FALSE]
      /\ UNCHANGED <<cancelRequested, transactionOwner, transactionWaiters>>
  BY DEF TakeTurn
<1>3. CASE Len(queue) < QueueLimit
  <2>1. /\ turnOwner' = t[1] /\ at' = [at EXCEPT ![t] = "queued"]
        /\ queue' = Append(queue, t) /\ woken' = rest
        /\ UNCHANGED <<turnWaiters, quarantined, engine>>
    BY <1>3 DEF TakeTurn
  <2>2. Registers'
    BY <1>1, <1>2, <2>1 DEF TypeInv, Registers, Spares, Positions
  <2>3. \A P : /\ "queued" \in P => Where(P)' = Where(P) \cup {t}
               /\ "queued" \notin P => Where(P)' = Where(P) \ {t}
    BY <1>1, <2>1, OneMoves
  <2>4. /\ Where({"woken"})' = Where({"woken"}) \ {t}
        /\ Where(InQueue)' = Where(InQueue) \cup {t}
        /\ Where({"waitTransaction"})' = Where({"waitTransaction"})
        /\ Where({"waitTurn"})' = Where({"waitTurn"})
        /\ Where({"waitTransaction", "waitTurn", "woken"})' \subseteq
             Where({"waitTransaction", "waitTurn", "woken"})
    <3>1. "queued" \in InQueue
      BY DEF InQueue
    <3>2. /\ Where({"woken"})' = Where({"woken"}) \ {t}
          /\ Where(InQueue)' = Where(InQueue) \cup {t}
      BY <2>3, <3>1
    <3>3. /\ Where({"waitTransaction"})' = Where({"waitTransaction"}) \ {t}
          /\ Where({"waitTurn"})' = Where({"waitTurn"}) \ {t}
          /\ Where({"waitTransaction", "waitTurn", "woken"})' =
               Where({"waitTransaction", "waitTurn", "woken"}) \ {t}
      BY <2>3
    <3> QED
      BY <3>2, <3>3, TurnerMoves
  <2>5. Lists(queue', Where(InQueue)')
    BY <1>1, <2>1, <2>4, TurnerMoves, ListsAppend DEF TypeInv, Queues
  <2>6. Queues'
    BY <1>2, <2>1, <2>4, <2>5 DEF TypeInv, Queues, Turner
  <2>7. Fresh'
    BY <1>1, <2>1, TaskNames DEF Fresh, Spares
  <2> QED
    BY <2>2, <2>6, <2>7 DEF TypeInv
<1>4. CASE ~(Len(queue) < QueueLimit)
  <2>1. /\ turnOwner' = None /\ turnWaiters' = <<>> /\ woken' = rest \o turnWaiters
        /\ at' = Places({t}, turnWaiters) /\ Throws(t) /\ queue' = queue
    BY <1>4 DEF TakeTurn
  <2>2. Lists(turnWaiters, Where({"waitTurn"}))
    BY DEF TypeInv, Queues
  <2>3. at' \in [Task -> Positions] /\ \A u \in Task : at[u] = "new" /\ u # t => at'[u] = "new"
    BY <1>1, <2>1, <2>2 DEF Places, Positions, Lists, Where
  <2>4. quarantined' \in BOOLEAN /\ engine' \in {"none", "opening", "open", "closing"}
    BY <2>1 DEF Throws, CloseEngineIfIdle, TypeInv, Registers
  <2>5. Registers'
    BY <1>1, <1>2, <2>1, <2>3, <2>4 DEF TypeInv, Registers, Spares
  <2>6. /\ \A P : {"done", "woken"} \cap P = {} =>
                    Where(P)' = Where(P) \ ({t} \cup Where({"waitTurn"}))
        /\ Where({"woken"})' = (Where({"woken"}) \cup Where({"waitTurn"})) \ {t}
    BY <1>1, <2>1, <2>2, SomeWoken
  <2>7. /\ Where({"woken"})' = (Where({"woken"}) \ {t}) \cup Where({"waitTurn"})
        /\ Where({"waitTurn"})' = {}
        /\ Where({"waitTransaction"})' = Where({"waitTransaction"})
        /\ Where(InQueue)' = Where(InQueue)
    <3>1. Where({"waitTurn"}) \cap Where({"waitTransaction"}) = {}
          /\ Where({"waitTurn"}) \cap Where(InQueue) = {}
      BY DEF Where, InQueue
    <3>2. Where(InQueue)' = Where(InQueue) \ ({t} \cup Where({"waitTurn"}))
      BY <2>6 DEF InQueue
    <3> QED
      BY <2>6, <3>1, <3>2, TurnerMoves
  <2>8. Lists(woken', Where({"woken"})')
    <3>1. (Where({"woken"}) \ {t}) \cap Where({"waitTurn"}) = {}
      BY DEF Where
    <3> QED
      BY <2>1, <2>2, <2>7, <3>1, ListsConcat DEF Turner
  <2>9. Where({"waitTransaction", "waitTurn", "woken"})' \subseteq SessionTask
    <3>1. Where({"waitTransaction", "waitTurn", "woken"})' =
            Where({"waitTransaction"})' \cup Where({"waitTurn"})' \cup Where({"woken"})'
      BY DEF Where
    <3>2. Where({"waitTransaction"}) \cup Where({"waitTurn"}) \cup Where({"woken"}) \subseteq SessionTask
      BY DEF TypeInv, Queues, Where
    <3> QED
      BY <2>7, <3>1, <3>2
  <2>10. Queues'
    BY <1>2, <2>1, <2>7, <2>8, <2>9, ListsNothing DEF TypeInv, Queues
  <2>11. Fresh'
    BY <1>1, <2>3, TaskNames DEF Fresh, Spares
  <2> QED
    BY <2>5, <2>10, <2>11 DEF TypeInv
<1> QED
  BY <1>3, <1>4

\* One round of acquireTurn.
LEMMA AcquireTypes ==
  ASSUME TypeInv, NEW t, NEW rest, NEW waits \in [Sessions -> BOOLEAN],
         Turner(t, rest), Spares(t), AcquireTurn(t, rest, waits)
  PROVE  TypeInv'
  BY RefusedTypes, WaitTypes, TakeTypes DEF AcquireTurn

\* What a step leaves that ends operations and wakes waiters.
WakingKept ==
  /\ Queues' /\ at' \in [Task -> Positions]
  /\ \A u \in Task : at[u] = "new" => at'[u] = "new"

LEMMA WakingTypes ==
  ASSUME TypeInv, woken = <<>>,
         NEW ended \in SUBSET Where(InQueue),
         NEW R \in SUBSET Where({"waitTransaction"}), NEW T \in SUBSET Where({"waitTurn"}),
         NEW all, Lists(all, R \cup T), at' = Places(ended, all), woken' = all,
         Lists(transactionWaiters', Where({"waitTransaction"}) \ R),
         Lists(turnWaiters', Where({"waitTurn"}) \ T),
         Lists(queue', Where(InQueue) \ ended)
  PROVE  WakingKept
<1>1. at \in [Task -> Positions]
  BY DEF TypeInv, Registers
<1>2. R \cup T \subseteq Task /\ ToSet(all) = R \cup T
  BY DEF Lists, Where
<1>3. \A u \in Task : at'[u] = IF u \in ended THEN "done" ELSE IF u \in R \cup T THEN "woken" ELSE at[u]
  BY <1>2 DEF Places
<1>4. at' \in [Task -> Positions]
  BY <1>1, <1>2 DEF Places, Positions
<1>5. \A u \in Task : at[u] = "new" => at'[u] = "new"
  BY <1>3 DEF Where, InQueue
<1>6. Where({"woken"}) = {}
  BY DEF TypeInv, Queues, Lists, ToSet
<1>7. /\ Where({"woken"})' = R \cup T
      /\ Where({"waitTransaction"})' = Where({"waitTransaction"}) \ R
      /\ Where({"waitTurn"})' = Where({"waitTurn"}) \ T
  <2>1. ASSUME NEW u \in Task
        PROVE  /\ at'[u] = "woken" <=> u \in R \cup T
               /\ at'[u] = "waitTransaction" <=> at[u] = "waitTransaction" /\ u \notin R
               /\ at'[u] = "waitTurn" <=> at[u] = "waitTurn" /\ u \notin T
    BY <1>3, <1>6 DEF Where, InQueue
  <2> QED
    BY <2>1, <1>2 DEF Where
<1>8. Where(InQueue)' = Where(InQueue) \ ended
  <2>1. ASSUME NEW u \in Task
        PROVE  at'[u] \in InQueue <=> at[u] \in InQueue /\ u \notin ended
    BY <1>3 DEF Where, InQueue
  <2> QED
    BY <2>1 DEF Where
<1>9. Where({"waitTransaction", "waitTurn", "woken"})' \subseteq SessionTask
  <2>1. Where({"waitTransaction", "waitTurn", "woken"})' =
          Where({"waitTransaction"})' \cup Where({"waitTurn"})' \cup Where({"woken"})'
    BY DEF Where
  <2>2. Where({"waitTransaction"}) \cup Where({"waitTurn"}) \subseteq SessionTask
    BY DEF TypeInv, Queues, Where
  <2> QED
    BY <1>7, <2>1, <2>2
<1>10. Queues'
  BY <1>7, <1>8, <1>9 DEF Queues
<1> QED
  BY <1>4, <1>5, <1>10 DEF WakingKept

\* The operation at the head leaves the queue; woke are the waiters for the
\* transaction lock, if it was given back.
LEMMA LeaveTypes ==
  ASSUME TypeInv, woken = <<>>, queue # <<>>, NEW woke, Leave(Operation, woke),
         \/ woke = <<>> /\ transactionWaiters' = transactionWaiters
         \/ /\ woke = transactionWaiters /\ transactionWaiters' = <<>>
            /\ Operation \in SessionTask
  PROVE  WakingKept /\ turnOwner' \in {None, turnOwner}
<1> DEFINE t == Head(queue)
<1>1. t \in Where(InQueue) /\ Lists(Tail(queue), Where(InQueue) \ {t}) /\ queue' = Tail(queue)
  BY ListsTail DEF TypeInv, Queues, Leave, Operation
<1>2. PICK R \in SUBSET Where({"waitTransaction"}) :
        Lists(woke, R) /\ Lists(transactionWaiters', Where({"waitTransaction"}) \ R)
  <2>1. CASE woke = <<>> /\ transactionWaiters' = transactionWaiters
    <3>1. Lists(woke, {}) /\ Lists(transactionWaiters', Where({"waitTransaction"}) \ {})
      BY <2>1, ListsNothing DEF TypeInv, Queues
    <3> QED
      BY <3>1
  <2>2. CASE woke = transactionWaiters /\ transactionWaiters' = <<>>
    <3> DEFINE W == Where({"waitTransaction"})
    <3>1. Lists(woke, W) /\ W \ W = {} /\ Lists(<<>>, {})
      BY <2>2, ListsNothing DEF TypeInv, Queues
    <3>2. Lists(transactionWaiters', W \ W)
      BY <2>2, <3>1
    <3> QED
      BY <3>1, <3>2
  <2> QED
    BY <2>1, <2>2
<1>3. Lists(turnWaiters, Where({"waitTurn"}))
  BY DEF TypeInv, Queues
<1>4. CASE t \in SessionTask /\ turnOwner = t[1]
  <2> DEFINE T == Where({"waitTurn"})
             all == woke \o turnWaiters
  <2>1. /\ turnOwner' = None /\ turnWaiters' = <<>>
        /\ woken' = all /\ at' = Places({t}, all)
    BY <1>4 DEF Leave, Operation, ReleaseTurn
  <2>2. R \cap T = {}
    BY DEF Where
  <2>3. Lists(all, R \cup T)
    BY <1>2, <1>3, <2>2, ListsConcat
  <2>4. T \ T = {} /\ Lists(<<>>, {})
    BY ListsNothing
  <2> HIDE DEF T, all
  <2>5. Lists(turnWaiters', T \ T)
    BY <2>1, <2>4
  <2>6. WakingKept
    BY <1>1, <1>2, <2>1, <2>3, <2>5, WakingTypes DEF T
  <2> QED
    BY <2>1, <2>6
<1>5. CASE ~(t \in SessionTask /\ turnOwner = t[1])
  <2>1. turnOwner' = turnOwner /\ turnWaiters' = turnWaiters
    BY <1>5 DEF Leave, Operation, ReleaseTurn
  <2>2. woken' = woke /\ at' = Places({t}, woke)
    <3>1. CASE t \in SessionTask
      BY <1>5, <3>1 DEF Leave, Operation, ReleaseTurn
    <3>2. CASE t \notin SessionTask
      BY <3>2 DEF Leave, Operation
    <3> QED
      BY <3>1, <3>2
  <2>3. R \cup {} = R /\ Where({"waitTurn"}) \ {} = Where({"waitTurn"})
    OBVIOUS
  <2>4. Lists(woke, R \cup {}) /\ Lists(turnWaiters', Where({"waitTurn"}) \ {})
    BY <1>2, <1>3, <2>1, <2>3
  <2>5. WakingKept
    BY <1>1, <1>2, <2>2, <2>4, WakingTypes
  <2> QED
    BY <2>1, <2>5
<1> QED
  BY <1>4, <1>5

\* All sessions are cleared while the operation at the head may end.
LEMMA ClearTypes ==
  ASSUME TypeInv, woken = <<>>, NEW ended \in SUBSET Where(InQueue), ClearAllSessions(ended),
         Lists(queue', Where(InQueue) \ ended)
  PROVE  WakingKept
<1> DEFINE R == Where({"waitTransaction"})
           T == Where({"waitTurn"})
           all == transactionWaiters \o turnWaiters
<1>1. /\ transactionWaiters' = <<>> /\ turnWaiters' = <<>>
      /\ woken' = all /\ at' = Places(ended, all)
  BY DEF ClearAllSessions
<1>2. R \cap T = {}
  BY DEF Where
<1>3. Lists(all, R \cup T)
  BY <1>2, ListsConcat DEF TypeInv, Queues
<1>4. R \ R = {} /\ T \ T = {} /\ Lists(<<>>, {})
  BY ListsNothing
<1> HIDE DEF all, R, T
<1>5. Lists(transactionWaiters', R \ R) /\ Lists(turnWaiters', T \ T)
  BY <1>1, <1>4
<1> QED
  BY <1>1, <1>3, <1>5, WakingTypes DEF R, T

\* What remains to be said of a step of this kind.
LEMMA WakingInv ==
  ASSUME TypeInv, WakingKept,
         life' \in [Sessions -> {"new", "opening", "open", "closed", "reaped"}],
         \A s \in Sessions : life'[s] \in {"new", "opening", "open"} =>
                               life[s] \in {"new", "opening", "open"},
         inTransaction' \in [Sessions -> BOOLEAN], waiting' \in [Sessions -> BOOLEAN],
         activeRequest' \in [Sessions -> BOOLEAN], cancelRequested' \in [Sessions -> BOOLEAN],
         transactionOwner' \in Sessions \cup {None}, turnOwner' \in Sessions \cup {None},
         quarantined' \in BOOLEAN, failed' \in BOOLEAN,
         engine' \in {"none", "opening", "open", "closing"},
         transaction' \in Sessions \cup {None}
  PROVE  TypeInv'
<1>1. Registers'
  BY DEF WakingKept, Registers
<1>2. Fresh'
  BY TaskNames DEF WakingKept, Fresh, TypeInv
<1> QED
  BY <1>1, <1>2 DEF WakingKept, TypeInv

\* Operations in the queue go on without leaving it.
LEMMA WorkingTypes ==
  ASSUME TypeInv, UNCHANGED <<turns, queue>>, at' \in [Task -> Positions],
         \A u \in Task : at'[u] = at[u] \/ (at[u] \in InQueue /\ at'[u] \in InQueue)
  PROVE  WakingKept
<1>1. UNCHANGED <<transactionWaiters, turnWaiters, woken, queue>>
  BY DEF turns
<1>2. /\ Where({"woken"})' = Where({"woken"})
      /\ Where({"waitTransaction"})' = Where({"waitTransaction"})
      /\ Where({"waitTurn"})' = Where({"waitTurn"})
      /\ Where({"waitTransaction", "waitTurn", "woken"})' =
           Where({"waitTransaction", "waitTurn", "woken"})
      /\ \A u \in Task : at[u] = "new" => at'[u] = "new"
  BY DEF Where, InQueue
<1>3. Where(InQueue)' = Where(InQueue)
  <2>1. \A u \in Task : at'[u] \in InQueue <=> at[u] \in InQueue
    OBVIOUS
  <2> QED
    BY <2>1 DEF Where
<1> QED
  BY <1>1, <1>2, <1>3 DEF WakingKept, Queues, TypeInv

\* An operation without a session is queued, or refused.
LEMMA EnqueueTypes ==
  ASSUME TypeInv, NEW t \in Script \cup Backup, at[t] = "new", Enqueue(t)
  PROVE  TypeInv'
<1>1. t \in Task /\ at \in [Task -> Positions] /\ t \notin SessionTask
  <2>1. t \in Task
    BY TaskNames
  <2>2. t[1] \in Scripts \cup Backups
    BY DEF Script, Backup
  <2>3. t \notin SessionTask
    BY <2>2, SessionBridgeAssumption, TaskNames
  <2> QED
    BY <2>1, <2>3 DEF TypeInv, Registers
<1>2. UNCHANGED <<session, turns, process>>
  BY DEF Enqueue
<1>3. t \notin Where({"waitTransaction"}) /\ t \notin Where({"waitTurn"}) /\ t \notin Where({"woken"})
      /\ t \notin Where(InQueue) /\ t \notin Where({"waitTransaction", "waitTurn", "woken"})
  BY DEF Where, InQueue
<1>4. PICK p \in {"queued", "done"} :
        /\ at' = [at EXCEPT ![t] = p]
        /\ queue' = IF p = "queued" THEN Append(queue, t) ELSE queue
  BY DEF Enqueue
<1>5. \A P : /\ p \in P => Where(P)' = Where(P) \cup {t}
             /\ p \notin P => Where(P)' = Where(P) \ {t}
  BY <1>1, <1>4, OneMoves
<1>6. /\ Where({"woken"})' = Where({"woken"})
      /\ Where({"waitTransaction"})' = Where({"waitTransaction"})
      /\ Where({"waitTurn"})' = Where({"waitTurn"})
      /\ Where({"waitTransaction", "waitTurn", "woken"})' =
           Where({"waitTransaction", "waitTurn", "woken"})
  <2>1. /\ Where({"woken"})' = Where({"woken"}) \ {t}
        /\ Where({"waitTransaction"})' = Where({"waitTransaction"}) \ {t}
        /\ Where({"waitTurn"})' = Where({"waitTurn"}) \ {t}
        /\ Where({"waitTransaction", "waitTurn", "woken"})' =
             Where({"waitTransaction", "waitTurn", "woken"}) \ {t}
    BY <1>5
  <2> QED
    BY <1>3, <2>1
<1>7. Lists(queue', Where(InQueue)')
  <2>1. "queued" \in InQueue /\ "done" \notin InQueue
    BY DEF InQueue
  <2>2. Lists(queue, Where(InQueue))
    BY DEF TypeInv, Queues
  <2>3. CASE p = "queued"
    BY <1>1, <1>3, <1>4, <1>5, <2>1, <2>2, <2>3, ListsAppend
  <2>4. CASE p = "done"
    <3>1. Where(InQueue)' = Where(InQueue)
      BY <1>3, <1>5, <2>1, <2>4
    <3> QED
      BY <1>4, <2>2, <2>4, <3>1
  <2> QED
    BY <2>3, <2>4
<1>8. Queues'
  BY <1>2, <1>6, <1>7 DEF TypeInv, Queues, turns
<1>9. Registers'
  BY <1>1, <1>2, <1>4 DEF TypeInv, Registers, Positions, session, turns, process
<1>10. Fresh'
  <2>1. \A s \in Sessions : Closing(s) \in Task /\ Closing(s) # t
    BY <1>1, TaskNames
  <2>2. life' = life
    BY <1>2 DEF session
  <2> QED
    BY <1>1, <1>4, <2>1, <2>2 DEF TypeInv, Fresh
<1> QED
  BY <1>8, <1>9, <1>10 DEF TypeInv

\* The timer of a wait.
LEMMA TimeoutTypes ==
  ASSUME TypeInv, NEW t \in SessionTask, WaitTimeout(t)
  PROVE  TypeInv'
<1>1. t \in Task /\ at \in [Task -> Positions] /\ at[t] \in {"waitTransaction", "waitTurn"}
  BY TaskNames DEF WaitTimeout, TypeInv, Registers
<1>2. /\ transactionWaiters' = RemoveWaiter(transactionWaiters, {t})
      /\ turnWaiters' = RemoveWaiter(turnWaiters, {t})
      /\ at' = [at EXCEPT ![t] = "done"]
      /\ UNCHANGED <<session, transactionOwner, turnOwner, woken, queue, transaction, failed>>
      /\ Throws(t)
  BY DEF WaitTimeout
<1>3. ASSUME NEW q, NEW S, Lists(q, S)
      PROVE  Lists(RemoveWaiter(q, {t}), S \ {t})
  <2>1. PICK R \in SUBSET (S \cap {t}) :
          (S \cap {t} # {} => R # {}) /\ Lists(RemoveWaiter(q, {t}), S \ R)
    BY <1>3, ListsRemove
  <2>2. S \ R = S \ {t}
    BY <2>1
  <2> QED
    BY <2>1, <2>2
<1>4. \A P : "done" \notin P => Where(P)' = Where(P) \ {t}
  BY <1>1, <1>2, OneMoves
<1>5. /\ Where({"woken"})' = Where({"woken"}) \ {t}
      /\ Where({"waitTransaction"})' = Where({"waitTransaction"}) \ {t}
      /\ Where({"waitTurn"})' = Where({"waitTurn"}) \ {t}
      /\ Where({"waitTransaction", "waitTurn", "woken"})' =
           Where({"waitTransaction", "waitTurn", "woken"}) \ {t}
      /\ Where(InQueue)' = Where(InQueue) \ {t}
  <2>1. "done" \notin InQueue
    BY DEF InQueue
  <2> QED
    BY <1>4, <2>1
<1>6. t \notin Where({"woken"}) /\ t \notin Where(InQueue)
  BY <1>1 DEF Where, InQueue
<1>7. /\ Lists(transactionWaiters', Where({"waitTransaction"})')
      /\ Lists(turnWaiters', Where({"waitTurn"})')
  BY <1>2, <1>3, <1>5 DEF TypeInv, Queues
<1>8. Queues'
  <2>1. Where({"woken"})' = Where({"woken"}) /\ Where(InQueue)' = Where(InQueue)
    BY <1>5, <1>6
  <2> QED
    BY <1>2, <1>5, <1>7, <2>1 DEF TypeInv, Queues
<1>9. quarantined' \in BOOLEAN /\ engine' \in {"none", "opening", "open", "closing"}
  BY <1>2 DEF Throws, CloseEngineIfIdle, TypeInv, Registers
<1>10. Registers'
  BY <1>1, <1>2, <1>9 DEF TypeInv, Registers, Positions, session
<1>11. Fresh'
  BY <1>1, <1>2, TaskNames DEF TypeInv, Fresh, session
<1> QED
  BY <1>8, <1>10, <1>11 DEF TypeInv

\* The cancel route.
LEMMA CancelTypes ==
  ASSUME TypeInv, NEW s \in Sessions, Cancel(s)
  PROVE  TypeInv'
<1> DEFINE mine == {s} \X (0 .. MaxRequests)
           all == FoundWaiter(transactionWaiters, mine) \o FoundWaiter(turnWaiters, mine)
<1>1. /\ cancelRequested' = [cancelRequested EXCEPT ![s] = TRUE]
      /\ transactionWaiters' = RemoveWaiter(transactionWaiters, mine)
      /\ turnWaiters' = RemoveWaiter(turnWaiters, mine)
      /\ woken' = all /\ at' = Places({}, all) /\ woken = <<>>
      /\ UNCHANGED <<life, inTransaction, waiting, activeRequest, transactionOwner,
                     turnOwner, queue, process>>
  BY DEF Cancel, Settled
<1> HIDE DEF mine
<1>2. PICK R \in SUBSET Where({"waitTransaction"}) :
        Lists(FoundWaiter(transactionWaiters, mine), R)
        /\ Lists(transactionWaiters', Where({"waitTransaction"}) \ R)
  BY <1>1, ListsRemove DEF TypeInv, Queues
<1>3. PICK T \in SUBSET Where({"waitTurn"}) :
        Lists(FoundWaiter(turnWaiters, mine), T)
        /\ Lists(turnWaiters', Where({"waitTurn"}) \ T)
  BY <1>1, ListsRemove DEF TypeInv, Queues
<1>4. R \cap T = {}
  BY DEF Where
<1>5. Lists(all, R \cup T)
  BY <1>2, <1>3, <1>4, ListsConcat
<1> HIDE DEF all
<1>6. Where(InQueue) \ {} = Where(InQueue) /\ {} \in SUBSET Where(InQueue)
  OBVIOUS
<1>7. Lists(queue', Where(InQueue) \ {})
  BY <1>1, <1>6 DEF TypeInv, Queues
<1>8. WakingKept
  BY <1>1, <1>2, <1>3, <1>5, <1>6, <1>7, WakingTypes
<1> QED
  BY <1>1, <1>8, WakingInv DEF TypeInv, Registers, process

\* Who arrives takes part alone; the first that was woken goes before the others.
LEMMA Arrives ==
  ASSUME TypeInv, woken = <<>>, NEW t \in SessionTask, at[t] = "new"
  PROVE  Turner(t, <<>>)
<1>1. Where({"woken"}) \ {t} = {}
  BY DEF TypeInv, Queues, Lists, ToSet
<1> QED
  BY <1>1, ListsNothing DEF Turner

LEMMA Resumes ==
  ASSUME TypeInv, woken # <<>>
  PROVE  Turner(Head(woken), Tail(woken))
<1>1. Head(woken) \in Where({"woken"}) /\ Lists(Tail(woken), Where({"woken"}) \ {Head(woken)})
  BY ListsTail DEF TypeInv, Queues
<1>2. Where({"woken"}) \subseteq SessionTask
  BY DEF TypeInv, Queues, Where
<1>3. at[Head(woken)] = "woken"
  BY <1>1 DEF Where
<1> QED
  BY <1>1, <1>2, <1>3 DEF Turner

\* A session is closed by its client or by its timer.
LEMMA CloseTypes ==
  ASSUME TypeInv, woken = <<>>, NEW s \in Sessions, life[s] = "open",
         NEW how \in {"closed", "reaped"}, CloseSession(s, how)
  PROVE  TypeInv'
<1>1. Closing(s) \in SessionTask /\ at[Closing(s)] = "new" /\ Closing(s) \in Task
  BY TaskNames DEF TypeInv, Fresh
<1>2. life' = [life EXCEPT ![s] = how]
  BY DEF CloseSession
<1>3. \A r \in Sessions : Closing(r) = Closing(s) => r = s
  BY DEF Closing
<1>4. Spares(Closing(s))
  BY <1>2, <1>3 DEF Spares, TypeInv, Registers, Fresh
<1>5. CASE inTransaction[s]
  <2>1. AcquireTurn(Closing(s), <<>>, waiting)
    BY <1>5 DEF CloseSession
  <2>2. Turner(Closing(s), <<>>) /\ waiting \in [Sessions -> BOOLEAN]
    BY <1>1, Arrives DEF TypeInv, Registers
  <2> QED
    BY <1>4, <2>1, <2>2, AcquireTypes
<1>6. CASE ~inTransaction[s]
  <2>1. /\ at' = [at EXCEPT ![Closing(s)] = "done"] /\ CloseEngineIfIdle
        /\ UNCHANGED <<inTransaction, waiting, activeRequest, cancelRequested,
                       turns, queue, quarantined, transaction, failed>>
    BY <1>6 DEF CloseSession
  <2>2. at \in [Task -> Positions]
    BY DEF TypeInv, Registers
  <2>3. Closing(s) \notin Where({"woken"}) /\ Closing(s) \notin Where({"waitTransaction"})
        /\ Closing(s) \notin Where({"waitTurn"}) /\ Closing(s) \notin Where(InQueue)
        /\ Closing(s) \notin Where({"waitTransaction", "waitTurn", "woken"})
    BY <1>1 DEF Where, InQueue
  <2>4. \A P : "done" \notin P => Where(P)' = Where(P) \ {Closing(s)}
    BY <1>1, <2>1, <2>2, OneMoves
  <2>5. /\ Where({"woken"})' = Where({"woken"}) \ {Closing(s)}
        /\ Where({"waitTransaction"})' = Where({"waitTransaction"}) \ {Closing(s)}
        /\ Where({"waitTurn"})' = Where({"waitTurn"}) \ {Closing(s)}
        /\ Where({"waitTransaction", "waitTurn", "woken"})' =
             Where({"waitTransaction", "waitTurn", "woken"}) \ {Closing(s)}
        /\ Where(InQueue)' = Where(InQueue) \ {Closing(s)}
    <3>1. "done" \notin InQueue
      BY DEF InQueue
    <3> QED
      BY <2>4, <3>1
  <2>6. Queues'
    <3>1. /\ Where({"woken"})' = Where({"woken"})
          /\ Where({"waitTransaction"})' = Where({"waitTransaction"})
          /\ Where({"waitTurn"})' = Where({"waitTurn"})
          /\ Where({"waitTransaction", "waitTurn", "woken"})' =
               Where({"waitTransaction", "waitTurn", "woken"})
          /\ Where(InQueue)' = Where(InQueue)
      BY <2>3, <2>5
    <3> QED
      BY <2>1, <3>1 DEF TypeInv, Queues, turns
  <2>7. engine' \in {"none", "opening", "open", "closing"}
    BY <2>1 DEF CloseEngineIfIdle, TypeInv, Registers
  <2>8. Registers'
    BY <1>1, <1>4, <2>1, <2>2, <2>7 DEF TypeInv, Registers, Positions, Spares, turns
  <2>9. Fresh'
    BY <1>1, <1>4, <2>1, <2>2, TaskNames DEF Spares, Fresh
  <2> QED
    BY <2>6, <2>8, <2>9 DEF TypeInv
<1> QED
  BY <1>5, <1>6

LEMMA ClientsTypes ==
  ASSUME TypeInv, Clients
  PROVE  TypeInv'
<1> USE SessionBridgeAssumption
<1>1. ASSUME NEW s \in Sessions, OpenSession(s)
      PROVE  TypeInv'
  <2>1. UNCHANGED <<inTransaction, waiting, activeRequest, cancelRequested, at, turns,
                    queue, quarantined, transaction, failed>>
        /\ life[s] = "new"
        /\ (life' = [life EXCEPT ![s] = "open"] \/ life' = [life EXCEPT ![s] = "opening"])
        /\ (engine' = engine \/ engine' = "opening")
    BY <1>1 DEF OpenSession
  <2>2. WakingKept
    BY <2>1, WorkingTypes DEF TypeInv, Registers
  <2> QED
    BY <2>1, <2>2, WakingInv DEF TypeInv, Registers, turns
<1>2. ASSUME NEW s \in Sessions, CloseRequest(s)
      PROVE  TypeInv'
  BY <1>2, CloseTypes DEF CloseRequest, Settled
<1>3. ASSUME NEW s \in Sessions, Cancel(s)
      PROVE  TypeInv'
  BY <1>3, CancelTypes
<1>4. ASSUME NEW t \in Task, SendRequest(t)
      PROVE  TypeInv'
  <2>1. t \in SessionTask /\ at[t] = "new" /\ woken = <<>> /\ life' = life
        /\ AcquireTurn(t, <<>>, waiting) /\ t \in Request
    BY <1>4, TaskNames DEF SendRequest, Settled
  <2>2. \A s \in Sessions : t # Closing(s)
    BY <2>1 DEF Request, Closing
  <2>3. Spares(t)
    BY <2>1, <2>2 DEF Spares, TypeInv, Registers, Fresh
  <2> QED
    BY <2>1, <2>3, Arrives, AcquireTypes DEF TypeInv, Registers
<1>5. ASSUME NEW t \in Task, SendScript(t) \/ SendBackup(t)
      PROVE  TypeInv'
  BY <1>5, EnqueueTypes DEF SendScript, SendBackup
<1> QED
  BY <1>1, <1>2, <1>3, <1>4, <1>5 DEF Clients

LEMMA TimersTypes ==
  ASSUME TypeInv, Timers
  PROVE  TypeInv'
<1>1. ASSUME NEW s \in Sessions, IdleTimeout(s)
      PROVE  TypeInv'
  BY <1>1, CloseTypes DEF IdleTimeout, Settled
<1> QED
  BY <1>1, TimeoutTypes DEF Timers

LEMMA BridgeTypes ==
  ASSUME TypeInv, Bridge
  PROVE  TypeInv'
<1>1. CASE Resume
  <2> DEFINE t == Head(woken)
             waits == [waiting EXCEPT ![t[1]] = FALSE]
  <2>1. Turner(t, Tail(woken)) /\ AcquireTurn(t, Tail(woken), waits) /\ life' = life
    BY <1>1, Resumes DEF Resume
  <2>2. waits \in [Sessions -> BOOLEAN]
    BY DEF TypeInv, Registers
  <2>3. at[t] = "woken"
    <3>1. t \in Where({"woken"})
      BY <1>1, ListsTail DEF Resume, TypeInv, Queues
    <3> QED
      BY <3>1 DEF Where
  <2>4. Spares(t)
    BY <2>1, <2>3 DEF Spares, TypeInv, Registers, Fresh
  <2> HIDE DEF waits, t
  <2> QED
    BY <2>1, <2>2, <2>4, AcquireTypes
<1>2. CASE Skip
  <2>1. Leave(Operation, <<>>) /\ woken = <<>> /\ queue # <<>> /\ Throws(Operation)
        /\ UNCHANGED <<session, transactionOwner, transactionWaiters, transaction, failed>>
    BY <1>2 DEF Skip, Ready
  <2>2. WakingKept /\ turnOwner' \in {None, turnOwner}
    BY <2>1, LeaveTypes
  <2>3. quarantined' \in BOOLEAN /\ engine' \in {"none", "opening", "open", "closing"}
    BY <2>1 DEF Throws, CloseEngineIfIdle, TypeInv, Registers
  <2> QED
    BY <2>1, <2>2, <2>3, WakingInv DEF TypeInv, Registers, session
<1>3. CASE Submit
  <2>1. /\ UNCHANGED <<life, inTransaction, waiting, cancelRequested, turns, queue,
                       quarantined, transaction, failed>>
        /\ \/ at' = [at EXCEPT ![Operation] = "running"]
           \/ at' = [at EXCEPT ![Operation] = "starting"]
        /\ (engine' = engine \/ engine' = "opening")
        /\ \/ activeRequest' = activeRequest
           \/ /\ Operation \in SessionTask
              /\ activeRequest' = [activeRequest EXCEPT ![Operation[1]] = TRUE]
        /\ at[Operation] = "queued" /\ queue # <<>>
    BY <1>3 DEF Submit, Ready
  <2>2. Operation \in Task
    <3>1. Head(queue) \in Where(InQueue)
      BY <2>1, ListsTail DEF TypeInv, Queues
    <3> QED
      BY <3>1 DEF Operation, Where
  <2>3. WakingKept
    BY <2>1, <2>2, WorkingTypes DEF TypeInv, Registers, Positions, InQueue
  <2>4. activeRequest' \in [Sessions -> BOOLEAN]
    BY <2>1, TaskNames DEF TypeInv, Registers
  <2> QED
    BY <2>1, <2>3, <2>4, WakingInv DEF TypeInv, Registers, turns
<1>4. CASE SubmitToClosing
  <2>1. Leave(Operation, <<>>) /\ woken = <<>> /\ queue # <<>>
        /\ quarantined' = (quarantined \/ Operation \in SessionTask)
        /\ UNCHANGED <<session, transactionOwner, transactionWaiters, engine, transaction, failed>>
    BY <1>4 DEF SubmitToClosing, Ready
  <2>2. WakingKept /\ turnOwner' \in {None, turnOwner}
    BY <2>1, LeaveTypes
  <2> QED
    BY <2>1, <2>2, WakingInv DEF TypeInv, Registers, session
<1>5. CASE StartScript
  <2>1. /\ UNCHANGED <<session, turns, queue, process>>
        /\ at' = [at EXCEPT ![Operation] = "running"]
        /\ at[Operation] = "queued" /\ queue # <<>>
    BY <1>5 DEF StartScript, Ready
  <2>2. WakingKept
    BY <2>1, WorkingTypes DEF TypeInv, Registers, Positions, InQueue
  <2> QED
    BY <2>1, <2>2, WakingInv DEF TypeInv, Registers, session, turns, process
<1> QED
  BY <1>1, <1>2, <1>3, <1>4, <1>5 DEF Bridge

LEMMA AnswerTypes ==
  ASSUME TypeInv, NEW open \in BOOLEAN, NEW uncertain \in BOOLEAN, Answer(open, uncertain)
  PROVE  TypeInv'
<1> USE SessionBridgeAssumption
<1> DEFINE t == Operation
           s == t[1]
<1>1. woken = <<>> /\ queue # <<>> /\ quarantined' \in BOOLEAN /\ failed' \in BOOLEAN
      /\ UNCHANGED <<life, waiting, cancelRequested>>
  BY DEF Answer, Settled, Working, TypeInv, Registers
<1>2. t \in Task /\ at[t] = "running"
  <2>1. Head(queue) \in Where(InQueue)
    BY <1>1, ListsTail DEF TypeInv, Queues
  <2> QED
    BY <2>1 DEF Operation, Where, Answer, Working
<1>3. engine' \in {"none", "opening", "open", "closing"}
  BY DEF Answer, Returns, CloseEngineIfIdle, TypeInv, Registers
<1>4. CASE t \in SessionTask
  <2>1. s \in Sessions
    BY <1>4, TaskNames
  <2>2. /\ activeRequest' = [activeRequest EXCEPT ![s] = FALSE]
        /\ Leave(t, TransactionWaitersOf(s, open))
        /\ ApplyTransactionResult(s, open)
    BY <1>4 DEF Answer
  <2>3. \/ /\ TransactionWaitersOf(s, open) = <<>>
           /\ transactionWaiters' = transactionWaiters
        \/ /\ TransactionWaitersOf(s, open) = transactionWaiters
           /\ transactionWaiters' = <<>>
    BY <2>2 DEF TransactionWaitersOf, ApplyTransactionResult
  <2>4. WakingKept /\ turnOwner' \in {None, turnOwner}
    BY <1>1, <1>4, <2>2, <2>3, LeaveTypes
  <2>5. inTransaction' \in [Sessions -> BOOLEAN] /\ transactionOwner' \in Sessions \cup {None}
    BY <2>1, <2>2 DEF ApplyTransactionResult, TypeInv, Registers
  <2>6. transaction' \in Sessions \cup {None}
    BY <2>1 DEF Answer, TypeInv, Registers
  <2>7. activeRequest' \in [Sessions -> BOOLEAN]
    BY <2>2 DEF TypeInv, Registers
  <2> QED
    BY <1>1, <1>3, <2>4, <2>5, <2>6, <2>7, WakingInv DEF TypeInv, Registers
<1>5. CASE t \notin SessionTask
  <2>1. /\ Leave(t, <<>>)
        /\ UNCHANGED <<activeRequest, inTransaction, transactionOwner, transactionWaiters>>
    BY <1>5 DEF Answer
  <2>2. WakingKept /\ turnOwner' \in {None, turnOwner}
    BY <1>1, <2>1, LeaveTypes
  <2>3. t \in Backup
    BY <1>2, <1>5 DEF Task, Answer, Working
  <2>4. transaction' \in Sessions \cup {None}
    BY <2>3 DEF Answer, TypeInv, Registers
  <2> QED
    BY <1>1, <1>3, <2>1, <2>2, <2>4, WakingInv DEF TypeInv, Registers
<1> QED
  BY <1>4, <1>5

LEMMA EngineTypes ==
  ASSUME TypeInv, EngineReady \/ EngineRefused
  PROVE  TypeInv'
<1>1. CASE EngineReady
  <2>1. /\ at' = [t \in Task |-> IF at[t] = "starting" THEN "running" ELSE at[t]]
        /\ life' = [s \in Sessions |-> IF life[s] = "opening" THEN "open" ELSE life[s]]
        /\ activeRequest' \in [Sessions -> BOOLEAN] /\ engine' = "open"
        /\ UNCHANGED <<inTransaction, waiting, cancelRequested, turns, queue, quarantined,
                       transaction, failed>>
    BY <1>1 DEF EngineReady, TypeInv, Registers
  <2>2. at' \in [Task -> Positions]
    BY <2>1 DEF TypeInv, Registers, Positions
  <2>3. \A u \in Task : at'[u] = at[u] \/ (at[u] \in InQueue /\ at'[u] \in InQueue)
    BY <2>1 DEF InQueue
  <2>4. WakingKept
    BY <2>1, <2>2, <2>3, WorkingTypes
  <2> QED
    BY <2>1, <2>4, WakingInv DEF TypeInv, Registers, turns
<1>2. CASE EngineRefused
  <2>1. /\ engine' = "none" /\ failed' \in BOOLEAN /\ woken = <<>>
        /\ life' = [s \in Sessions |-> IF life[s] = "opening" THEN "closed" ELSE life[s]]
        /\ UNCHANGED <<inTransaction, waiting, activeRequest, cancelRequested,
                       transactionOwner, transactionWaiters, transaction>>
    BY <1>2 DEF EngineRefused, Settled, TypeInv, Registers
  <2>2. CASE queue # <<>> /\ at[Operation] = "starting"
    <3>1. Leave(Operation, <<>>) /\ quarantined' \in BOOLEAN
      BY <1>2, <2>2 DEF EngineRefused, TypeInv, Registers
    <3>2. WakingKept /\ turnOwner' \in {None, turnOwner}
      BY <2>1, <2>2, <3>1, LeaveTypes
    <3> QED
      BY <2>1, <3>1, <3>2, WakingInv DEF TypeInv, Registers
  <2>3. CASE ~(queue # <<>> /\ at[Operation] = "starting")
    <3>1. UNCHANGED <<at, turnOwner, turnWaiters, woken, queue, quarantined>>
      BY <1>2, <2>3 DEF EngineRefused
    <3>2. WakingKept
      BY <2>1, <3>1, WorkingTypes DEF turns, TypeInv, Registers
    <3> QED
      BY <2>1, <3>1, <3>2, WakingInv DEF TypeInv, Registers
  <2> QED
    BY <2>2, <2>3
<1> QED
  BY <1>1, <1>2

\* The engine ends, and with it all sessions.
LEMMA EndTypes ==
  ASSUME TypeInv, EngineClosed \/ EngineDies
  PROVE  TypeInv'
<1>1. PICK ended \in SUBSET Where(InQueue) :
        ClearAllSessions(ended) /\ Lists(queue', Where(InQueue) \ ended)
  <2>1. Lists(queue, Where(InQueue)) /\ Where(InQueue) \ {} = Where(InQueue)
    BY DEF TypeInv, Queues
  <2>2. CASE ClearAllSessions({}) /\ queue' = queue
    BY <2>1, <2>2
  <2>3. CASE EngineDies /\ Working
    <3>1. queue' = Tail(queue) /\ ClearAllSessions({Head(queue)}) /\ queue # <<>>
      BY <2>3 DEF EngineDies, Working, Operation
    <3>2. Head(queue) \in Where(InQueue) /\ Lists(queue', Where(InQueue) \ {Head(queue)})
      BY <2>1, <3>1, ListsTail
    <3> QED
      BY <3>1, <3>2
  <2> QED
    BY <2>2, <2>3 DEF EngineClosed, EngineDies
<1>2. woken = <<>> /\ engine' = "none" /\ transaction' = None
      /\ UNCHANGED <<inTransaction, waiting, cancelRequested>>
      /\ quarantined' \in BOOLEAN /\ failed' \in BOOLEAN
      /\ activeRequest' \in [Sessions -> BOOLEAN]
  BY DEF EngineClosed, EngineDies, Settled, TypeInv, Registers
<1>3. /\ life' = [s \in Sessions |-> IF life[s] = "open" THEN "closed" ELSE life[s]]
      /\ transactionOwner' = None /\ turnOwner' = None
  BY <1>1 DEF ClearAllSessions
<1>4. WakingKept
  BY <1>1, <1>2, ClearTypes
<1> QED
  BY <1>2, <1>3, <1>4, WakingInv DEF TypeInv, Registers

LEMMA ScriptTypes ==
  ASSUME TypeInv, ScriptLocks \/ ScriptRefused \/ ScriptDone \/ ScriptFails
  PROVE  TypeInv'
<1>1. CASE ScriptLocks
  <2>1. /\ UNCHANGED <<session, turns, queue, process>>
        /\ at' = [at EXCEPT ![Operation] = "locked"]
        /\ at[Operation] = "running" /\ queue # <<>>
    BY <1>1 DEF ScriptLocks, Scripting
  <2>2. WakingKept
    BY <2>1, WorkingTypes DEF TypeInv, Registers, Positions, InQueue
  <2> QED
    BY <2>1, <2>2, WakingInv DEF TypeInv, Registers, session, turns, process
<1>2. CASE ScriptRefused \/ ScriptDone \/ ScriptFails
  <2>1. Leave(Operation, <<>>) /\ woken = <<>> /\ queue # <<>>
        /\ UNCHANGED <<session, transactionOwner, transactionWaiters, engine, transaction>>
        /\ quarantined' \in BOOLEAN /\ failed' \in BOOLEAN
    BY <1>2 DEF ScriptRefused, ScriptDone, ScriptFails, Scripting, Settled, process,
                TypeInv, Registers
  <2>2. WakingKept /\ turnOwner' \in {None, turnOwner}
    BY <2>1, LeaveTypes
  <2> QED
    BY <2>1, <2>2, WakingInv DEF TypeInv, Registers, session
<1> QED
  BY <1>1, <1>2

LEMMA StepTypes == TypeInv /\ [Next]_vars => TypeInv'
<1> SUFFICES ASSUME TypeInv, [Next]_vars
             PROVE  TypeInv'
  OBVIOUS
<1>1. CASE UNCHANGED vars
  <2>1. UNCHANGED <<session, turns, process, queue, at>>
    BY <1>1 DEF vars
  <2>2. WakingKept
    BY <2>1, WorkingTypes DEF TypeInv, Registers
  <2> QED
    BY <2>1, <2>2, WakingInv DEF TypeInv, Registers, session, turns, process
<1>2. CASE Processes
  BY <1>2, AnswerTypes, EngineTypes, EndTypes, ScriptTypes DEF Processes
<1> QED
  BY <1>1, <1>2, ClientsTypes, TimersTypes, BridgeTypes, EndTypes DEF Next, Finished

\* The variables have their types whatever clients and processes do, and the
\* lists of waiters and the queue hold what waits and what is queued
\* (database-bridge.mjs, 92-114).
THEOREM TypeCorrect == Spec => []TypeOK
<1>1. Init => TypeInv
  BY InitTypes
<1>2. TypeInv /\ [Next]_vars => TypeInv'
  BY StepTypes
<1>3. TypeInv => TypeOK
  BY TypeInvTypes
<1> QED
  BY <1>1, <1>2, <1>3, PTL DEF Spec

\* Clients of this kind may cancel and may leave.
Serial == Habits \subseteq {"cancel", "disconnect"}

-----------------------------------------------------------------------------
(* The invariant. One part holds always; the other until the engine has    *)
(* failed and the bridge is quarantined, after which nothing is submitted. *)

Works == {"starting", "running", "locked"}
Waits == {"waitTransaction", "waitTurn"}

\* only the head of the queue is at work
OneAtWork == \A t \in Task : at[t] \in Works => queue # <<>> /\ t = Head(queue)
NoEngineNoTransaction == engine \in {"none", "opening"} => transaction = None
ClosingIsIdle == engine = "closing" => \A s \in Sessions : life[s] # "open"
Matched ==
  /\ TransactionExclusive /\ LockMatchesEngine
  /\ OneAtWork /\ NoEngineNoTransaction /\ ClosingIsIdle

\* no request has a task of a session behind it in the queue
Behind(q) == \A i, j \in 1 .. Len(q) : i < j /\ q[j] \in SessionTask => q[i] \notin Request

OneInFlight ==
  \A t, u \in SessionTask : InFlight(t) /\ InFlight(u) /\ t[1] = u[1] => t = u
WorkOpen == \A t \in Request : InFlight(t) => life[t[1]] = "open"
WaitersMarked == \A t \in SessionTask : at[t] \in Waits => waiting[t[1]]
TurnWithRequest == \A t \in Request : at[t] \in InQueue => turnOwner = t[1]
LockAllows == \A t \in SessionTask : at[t] \in InQueue => transaction \in {None, t[1]}
Orderly ==
  /\ OneInFlight /\ WorkOpen /\ WaitersMarked /\ TurnWithRequest /\ LockAllows
  /\ Behind(queue)

Fine == ~failed \/ ~quarantined
LocksInv == TypeInv /\ Matched /\ (Fine => Orderly)

LEMMA InitLocks == Init => LocksInv
<1> SUFFICES ASSUME Init
             PROVE  LocksInv
  OBVIOUS
<1>1. /\ \A t \in Task : at[t] = "new"
      /\ queue = <<>> /\ engine = "none" /\ transaction = None /\ transactionOwner = None
  BY DEF Init
<1>2. Matched
  BY <1>1, TaskNames DEF Matched, TransactionExclusive, LockMatchesEngine, OneAtWork, Works,
                         NoEngineNoTransaction, ClosingIsIdle
<1>3. Behind(queue)
  BY <1>1 DEF Behind
<1>4. Orderly
  BY <1>1, <1>3, TaskNames DEF Orderly, OneInFlight, WorkOpen, WaitersMarked, TurnWithRequest,
                               LockAllows, InFlight, Waits, InQueue
<1> QED
  BY <1>2, <1>4, InitTypes DEF LocksInv

-----------------------------------------------------------------------------
(* The order of the queue.                                                 *)

LEMMA BehindAppend ==
  ASSUME NEW q \in Seq(Task), NEW t \in Task, Behind(q),
         t \notin SessionTask \/ \A u \in ToSet(q) : u \notin Request
  PROVE  Behind(Append(q, t))
<1> DEFINE p == Append(q, t)
<1>1. Len(p) = Len(q) + 1 /\ Len(q) \in Nat /\ p[Len(q) + 1] = t
      /\ \A i \in 1 .. Len(q) : p[i] = q[i]
  OBVIOUS
<1>2. \A i \in 1 .. Len(q) : q[i] \in ToSet(q)
  BY DEF ToSet
<1> HIDE DEF p
<1> SUFFICES ASSUME NEW i \in 1 .. Len(p), NEW j \in 1 .. Len(p), i < j, p[j] \in SessionTask
             PROVE  p[i] \notin Request
  BY DEF Behind, p
<1>3. i \in 1 .. Len(q) /\ p[i] = q[i]
  BY <1>1
<1>4. CASE j \in 1 .. Len(q)
  BY <1>1, <1>3, <1>4 DEF Behind
<1>5. CASE j = Len(q) + 1
  BY <1>1, <1>2, <1>3, <1>5
<1> QED
  BY <1>1, <1>4, <1>5

LEMMA BehindTail ==
  ASSUME NEW q \in Seq(Task), q # <<>>, Behind(q)
  PROVE  /\ Behind(Tail(q))
         /\ Head(q) \in Request => \A u \in ToSet(Tail(q)) : u \notin SessionTask
<1> DEFINE p == Tail(q)
<1>1. Len(q) \in Nat \ {0} /\ Len(p) = Len(q) - 1 /\ p \in Seq(Task)
      /\ Head(q) = q[1] /\ \A i \in 1 .. Len(p) : p[i] = q[i + 1]
  OBVIOUS
<1>2. DOMAIN p = 1 .. Len(p)
  BY <1>1
<1> HIDE DEF p
<1>3. ASSUME NEW i \in 1 .. Len(p), NEW j \in 1 .. Len(p), i < j, p[j] \in SessionTask
      PROVE  p[i] \notin Request
  <2>1. i + 1 \in 1 .. Len(q) /\ j + 1 \in 1 .. Len(q) /\ i + 1 < j + 1
    <3>1. Len(q) \in Nat /\ Len(p) = Len(q) - 1
      BY <1>1
    <3>2. i \in Int /\ j \in Int /\ 1 <= i /\ i < j /\ j <= Len(p)
      BY <1>3, <3>1
    <3> QED
      BY <3>1, <3>2
  <2>2. p[i] = q[i + 1] /\ p[j] = q[j + 1]
    BY <1>1
  <2> QED
    BY <1>3, <2>1, <2>2 DEF Behind
<1>4. ASSUME Head(q) \in Request, NEW i \in 1 .. Len(p)
      PROVE  p[i] \notin SessionTask
  <2>1. 1 \in 1 .. Len(q) /\ i + 1 \in 1 .. Len(q) /\ 1 < i + 1 /\ p[i] = q[i + 1]
    BY <1>1
  <2> QED
    BY <2>1, <1>1, <1>4 DEF Behind
<1>5. Behind(p)
  BY <1>3 DEF Behind
<1> QED
  BY <1>2, <1>4, <1>5 DEF ToSet, p

-----------------------------------------------------------------------------
(* Steps that leave most of it alone.                                      *)

\* the queue goes on as it is, or grows
StillWorking ==
  \A t \in Task : at'[t] \in Works =>
    at'[t] = at[t] /\ queue' # <<>> /\ Head(queue') = Head(queue)
\* at most, an engine without sessions is told to close
EngineKept ==
  \/ engine' = engine
  \/ engine' = "closing" /\ \A s \in Sessions : life'[s] # "open"
NoneOpens == \A s \in Sessions : life'[s] = "open" => life[s] = "open"

LEMMA MatchedKept ==
  ASSUME Matched, StillWorking, EngineKept, NoneOpens, UNCHANGED <<transactionOwner, transaction>>
  PROVE  Matched'
<1>1. TransactionExclusive'
  BY TaskNames DEF Matched, TransactionExclusive, StillWorking, Works
<1>2. OneAtWork'
  BY DEF Matched, OneAtWork, StillWorking
<1>3. LockMatchesEngine' /\ NoEngineNoTransaction' /\ ClosingIsIdle'
  BY DEF Matched, LockMatchesEngine, NoEngineNoTransaction, ClosingIsIdle, EngineKept, NoneOpens
<1> QED
  BY <1>1, <1>2, <1>3 DEF Matched

\* no task of a session takes a place nearer to its answer but to be woken
NoneEnters ==
  \A t \in SessionTask :
    /\ InFlight(t)' => InFlight(t)
    /\ at'[t] \in InQueue => at[t] \in InQueue
    /\ at'[t] \in Waits => at[t] \in Waits

\* a request keeps its session, and the turn once it is in the queue; what is
\* queued may still go to the engine
RequestsKept ==
  /\ \A t \in Request : InFlight(t)' /\ life[t[1]] = "open" => life'[t[1]] = "open"
  /\ \A t \in Request : at'[t] \in InQueue /\ turnOwner = t[1] => turnOwner' = t[1]
  /\ \A t \in SessionTask : at'[t] \in InQueue => transaction' \in {None, transaction}

LEMMA OrderlyKept ==
  ASSUME Orderly, NoneEnters, RequestsKept, waiting' = waiting, Behind(queue')
  PROVE  Orderly'
<1> USE DEF Orderly
<1>1. OneInFlight'
  BY DEF OneInFlight, NoneEnters
<1>2. WorkOpen'
  BY TaskNames DEF WorkOpen, NoneEnters, RequestsKept
<1>3. WaitersMarked'
  BY DEF WaitersMarked, NoneEnters
<1>4. TurnWithRequest'
  BY TaskNames DEF TurnWithRequest, NoneEnters, RequestsKept
<1>5. LockAllows'
  BY DEF LockAllows, NoneEnters, RequestsKept
<1>6. Behind(queue)'
  BY DEF Behind
<1> QED
  BY <1>1, <1>2, <1>3, <1>4, <1>5, <1>6
-----------------------------------------------------------------------------
(* One round of acquireTurn.                                               *)

Alone(t) == \A u \in SessionTask : InFlight(u) /\ u[1] = t[1] => u = t

\* where a round leaves the tasks
LEMMA AcquireMoves ==
  ASSUME TypeInv, NEW t, NEW rest, NEW waits, Turner(t, rest), AcquireTurn(t, rest, waits)
  PROVE  /\ at'[t] \in {"done", "waitTransaction", "waitTurn", "queued"}
         /\ \A u \in Task \ {t} : at'[u] = at[u] \/ (at[u] = "waitTurn" /\ at'[u] = "woken")
<1>1. t \in Task /\ at \in [Task -> Positions]
  BY TurnerMoves DEF TypeInv, Registers
<1>2. CASE \E p \in {"done", "waitTransaction", "waitTurn", "queued"} : at' = [at EXCEPT ![t] = p]
  BY <1>1, <1>2
<1>3. CASE at' = Places({t}, turnWaiters)
  <2>1. \A u \in ToSet(turnWaiters) : u \in Task /\ at[u] = "waitTurn"
    BY DEF TypeInv, Queues, Lists, Where
  <2>2. \A u \in Task : at'[u] = IF u = t THEN "done"
                                  ELSE IF u \in ToSet(turnWaiters) THEN "woken" ELSE at[u]
    BY <1>3 DEF Places
  <2> QED
    BY <1>1, <2>1, <2>2
<1> QED
  BY <1>2, <1>3 DEF AcquireTurn, Refused, WaitForTransaction, WaitForTurn, TakeTurn

\* what it does to the rest
LEMMA AcquireEffects ==
  ASSUME TypeInv, NEW t, NEW rest, NEW waits \in [Sessions -> BOOLEAN], Turner(t, rest),
         AcquireTurn(t, rest, waits)
  PROVE  /\ UNCHANGED <<transactionOwner, transaction, failed>>
         /\ quarantined => quarantined'
         /\ at'[t] = "queued" =>
              /\ queue' = Append(queue, t) /\ turnOwner' = t[1]
              /\ ~HeldByTransaction(t) /\ ~HeldByTurn(t)
         /\ at'[t] # "queued" =>
              queue' = queue /\ (turnOwner' = turnOwner \/ ~HeldByTurn(t))
         /\ at'[t] \in Waits => waiting'[t[1]]
         /\ \A s \in Sessions : s # t[1] => waiting'[s] = waits[s]
         /\ \/ engine' = engine
            \/ engine' = "closing" /\ \A s \in Sessions : life'[s] # "open"
<1>1. t \in Task /\ t[1] \in Sessions /\ at \in [Task -> Positions]
  BY TurnerMoves DEF TypeInv, Registers
<1>2. UNCHANGED <<transaction, failed>>
  BY DEF AcquireTurn
<1>3. Throws(t) => (quarantined => quarantined')
                   /\ \/ engine' = engine
                      \/ engine' = "closing" /\ \A s \in Sessions : life'[s] # "open"
  BY DEF Throws, CloseEngineIfIdle, Registered
<1>4. CASE Refused(t, rest, waits)
  <2>1. /\ UNCHANGED <<transactionOwner, turnOwner, queue>> /\ waiting' = waits
        /\ at' = [at EXCEPT ![t] = "done"] /\ Throws(t)
    BY <1>4 DEF Refused
  <2> QED
    BY <1>1, <1>2, <1>3, <2>1 DEF Waits
<1>5. CASE WaitForTransaction(t, rest, waits) \/ WaitForTurn(t, rest, waits)
  <2>1. /\ UNCHANGED <<transactionOwner, turnOwner, queue, quarantined, engine>>
        /\ waiting' = [waits EXCEPT ![t[1]] = TRUE]
        /\ at'[t] # "queued"
    BY <1>1, <1>5 DEF WaitForTransaction, WaitForTurn
  <2> QED
    BY <1>1, <1>2, <2>1
<1>6. CASE TakeTurn(t, rest, waits)
  <2>1. /\ UNCHANGED transactionOwner /\ waiting' = [waits EXCEPT ![t[1]] = FALSE]
        /\ ~HeldByTransaction(t) /\ ~HeldByTurn(t)
    BY <1>6 DEF TakeTurn
  <2>2. CASE Len(queue) < QueueLimit
    <3>1. /\ turnOwner' = t[1] /\ at' = [at EXCEPT ![t] = "queued"]
          /\ queue' = Append(queue, t) /\ UNCHANGED <<quarantined, engine>>
      BY <1>6, <2>2 DEF TakeTurn
    <3> QED
      BY <1>1, <1>2, <2>1, <3>1 DEF Waits
  <2>3. CASE ~(Len(queue) < QueueLimit)
    <3>1. at' = Places({t}, turnWaiters) /\ Throws(t) /\ queue' = queue
      BY <1>6, <2>3 DEF TakeTurn
    <3>2. at'[t] = "done"
      BY <1>1, <3>1 DEF Places
    <3> QED
      BY <1>1, <1>2, <1>3, <2>1, <3>1, <3>2 DEF Waits
  <2> QED
    BY <2>2, <2>3
<1> QED
  BY <1>4, <1>5, <1>6 DEF AcquireTurn

LEMMA AcquireMatched ==
  ASSUME TypeInv, Matched, NEW t, NEW rest, NEW waits \in [Sessions -> BOOLEAN],
         Turner(t, rest), AcquireTurn(t, rest, waits), NoneOpens
  PROVE  Matched'
<1>1. StillWorking
  <2> SUFFICES ASSUME NEW u \in Task, at'[u] \in Works
               PROVE  at'[u] = at[u] /\ queue' # <<>> /\ Head(queue') = Head(queue)
    BY DEF StillWorking
  <2>1. u # t /\ at'[u] = at[u]
    BY AcquireMoves DEF Works
  <2>2. queue # <<>>
    BY <2>1 DEF Matched, OneAtWork
  <2>3. queue' = queue \/ queue' = Append(queue, t)
    BY AcquireMoves, AcquireEffects
  <2>4. queue \in Seq(Task) /\ t \in Task
    BY TurnerMoves DEF TypeInv, Queues, Lists
  <2>5. Append(queue, t) # <<>> /\ Head(Append(queue, t)) = Head(queue)
    BY <2>2, <2>4
  <2> QED
    BY <2>1, <2>2, <2>3, <2>5
<1>2. EngineKept
  BY AcquireEffects DEF EngineKept
<1> QED
  BY <1>1, <1>2, AcquireEffects, MatchedKept

\* When the turn is free for the only task of a session, no request is queued.
LEMMA NoRequestQueued ==
  ASSUME Orderly, TypeInv, NEW t, NEW rest, Turner(t, rest), Alone(t), ~HeldByTurn(t),
         NEW u \in Request
  PROVE  at[u] \notin InQueue
<1> SUFFICES ASSUME at[u] \in InQueue
             PROVE  FALSE
  OBVIOUS
<1>1. turnOwner = u[1] /\ u[1] \in Sessions /\ u \in SessionTask
  BY TaskNames DEF Orderly, TurnWithRequest
<1>2. u[1] = t[1]
  BY <1>1, SessionBridgeAssumption DEF HeldByTurn
<1>3. u = t
  BY <1>1, <1>2 DEF Alone, InFlight, InQueue
<1> QED
  BY <1>3 DEF Turner, InQueue

LEMMA AcquireOrderly ==
  ASSUME TypeInv, Matched, Orderly, NEW t, NEW rest, NEW waits \in [Sessions -> BOOLEAN],
         Turner(t, rest), Alone(t), AcquireTurn(t, rest, waits),
         \A s \in Sessions : s # t[1] => waits[s] = waiting[s],
         \A s \in Sessions : s # t[1] /\ life[s] = "open" => life'[s] = "open",
         t \in Request => life'[t[1]] = "open"
  PROVE  Orderly'
<1>1. t \in SessionTask /\ t \in Task /\ t[1] \in Sessions /\ SessionTask \subseteq Task
      /\ Request \subseteq SessionTask /\ \A u \in SessionTask : u[1] \in Sessions
  BY TurnerMoves, TaskNames DEF Turner
<1>2. \A u \in SessionTask : u # t => at'[u] = at[u] \/ (at[u] = "waitTurn" /\ at'[u] = "woken")
  BY <1>1, AcquireMoves
<1>3. \A u \in SessionTask : u # t /\ InFlight(u)' => InFlight(u) /\ u[1] # t[1]
  BY <1>2 DEF InFlight, Alone
<1>4. OneInFlight'
  <2> SUFFICES ASSUME NEW u \in SessionTask, NEW v \in SessionTask,
                      InFlight(u)', InFlight(v)', u[1] = v[1]
               PROVE  u = v
    BY DEF OneInFlight
  <2> QED
    BY <1>3 DEF Orderly, OneInFlight
<1>5. WorkOpen'
  <2> SUFFICES ASSUME NEW u \in Request, InFlight(u)'
               PROVE  life'[u[1]] = "open"
    BY DEF WorkOpen
  <2> QED
    BY <1>1, <1>3 DEF Orderly, WorkOpen
<1>6. WaitersMarked'
  <2> SUFFICES ASSUME NEW u \in SessionTask, at'[u] \in Waits
               PROVE  waiting'[u[1]]
    BY DEF WaitersMarked
  <2>1. CASE u = t
    BY <2>1, AcquireEffects
  <2>2. CASE u # t
    <3>1. at'[u] = at[u] /\ InFlight(u)'
      BY <1>2, <2>2 DEF Waits, InFlight
    <3>2. u[1] # t[1] /\ waiting[u[1]] /\ u[1] \in Sessions
      BY <1>1, <1>3, <2>2, <3>1 DEF Orderly, WaitersMarked
    <3>3. waiting'[u[1]] = waits[u[1]]
      BY <3>2, AcquireEffects
    <3> QED
      BY <3>2, <3>3
  <2> QED
    BY <2>1, <2>2
<1>7. TurnWithRequest'
  <2> SUFFICES ASSUME NEW u \in Request, at'[u] \in InQueue
               PROVE  turnOwner' = u[1]
    BY DEF TurnWithRequest
  <2>1. CASE u = t
    <3>1. at'[t] = "queued"
      BY <2>1, AcquireMoves DEF InQueue
    <3> QED
      BY <2>1, <3>1, AcquireEffects
  <2>2. CASE u # t
    <3>1. at[u] \in InQueue
      BY <1>1, <1>2, <2>2 DEF InQueue
    <3>2. HeldByTurn(t)
      BY <3>1, NoRequestQueued
    <3>3. turnOwner' = turnOwner
      BY <3>2, AcquireEffects
    <3> QED
      BY <3>1, <3>3 DEF Orderly, TurnWithRequest
  <2> QED
    BY <2>1, <2>2
<1>8. LockAllows'
  <2> SUFFICES ASSUME NEW u \in SessionTask, at'[u] \in InQueue
               PROVE  transaction' \in {None, u[1]}
    BY DEF LockAllows
  <2>1. transaction' = transaction
    BY AcquireEffects
  <2>2. CASE u = t
    <3>1. at'[t] = "queued"
      BY <2>2, AcquireMoves DEF InQueue
    <3>2. transactionOwner \in {None, t[1]}
      BY <3>1, AcquireEffects DEF HeldByTransaction
    <3> QED
      BY <2>1, <2>2, <3>2 DEF Matched, LockMatchesEngine
  <2>3. CASE u # t
    BY <1>2, <2>1, <2>3 DEF InQueue, Orderly, LockAllows
  <2> QED
    BY <2>2, <2>3
<1>9. Behind(queue')
  <2>1. queue \in Seq(Task) /\ ToSet(queue) = Where(InQueue) /\ Behind(queue)
    BY DEF TypeInv, Queues, Lists, Orderly
  <2>2. CASE at'[t] = "queued"
    <3>1. queue' = Append(queue, t) /\ ~HeldByTurn(t)
      BY <2>2, AcquireEffects
    <3>2. \A u \in Request : at[u] \notin InQueue
      BY <3>1, NoRequestQueued
    <3>3. \A u \in ToSet(queue) : u \notin Request
      BY <2>1, <3>2 DEF Where
    <3> QED
      BY <1>1, <2>1, <3>1, <3>3, BehindAppend
  <2>3. CASE at'[t] # "queued"
    BY <2>1, <2>3, AcquireEffects
  <2> QED
    BY <2>2, <2>3
<1>10. Behind(queue)'
  BY <1>9 DEF Behind
<1> QED
  BY <1>4, <1>5, <1>6, <1>7, <1>8, <1>10 DEF Orderly
-----------------------------------------------------------------------------
(* An operation leaves the queue.                                          *)

LEMMA ConcatMembers ==
  ASSUME NEW p \in Seq(Task), NEW q \in Seq(Task)
  PROVE  ToSet(p \o q) = ToSet(p) \cup ToSet(q)
<1> DEFINE r == p \o q
<1>1. /\ Len(r) = Len(p) + Len(q) /\ Len(p) \in Nat /\ Len(q) \in Nat
      /\ \A i \in 1 .. Len(p) : r[i] = p[i]
      /\ \A i \in 1 .. Len(q) : r[i + Len(p)] = q[i]
      /\ \A i \in 1 .. Len(r) : i > Len(p) => i - Len(p) \in 1 .. Len(q) /\ r[i] = q[i - Len(p)]
  OBVIOUS
<1>2. DOMAIN p = 1 .. Len(p) /\ DOMAIN q = 1 .. Len(q) /\ DOMAIN r = 1 .. (Len(p) + Len(q))
  OBVIOUS
<1> HIDE DEF r
<1>3. ASSUME NEW i \in DOMAIN r
      PROVE  r[i] \in ToSet(p) \cup ToSet(q)
  <2>1. CASE i <= Len(p)
    BY <2>1, <1>1, <1>2 DEF ToSet
  <2>2. CASE i > Len(p)
    BY <2>2, <1>1, <1>2 DEF ToSet
  <2> QED
    BY <2>1, <2>2, <1>1, <1>2
<1>4. \A i \in DOMAIN p : p[i] \in ToSet(r)
  BY <1>1, <1>2 DEF ToSet
<1>5. \A i \in DOMAIN q : q[i] \in ToSet(r)
  BY <1>1, <1>2 DEF ToSet
<1>6. ToSet(p) \subseteq ToSet(r) /\ ToSet(q) \subseteq ToSet(r)
  BY <1>4, <1>5 DEF ToSet
<1>7. ToSet(r) \subseteq ToSet(p) \cup ToSet(q)
  BY <1>3 DEF ToSet
<1> QED
  BY <1>6, <1>7 DEF r

LEMMA LeaveMoves ==
  ASSUME TypeInv, queue # <<>>, NEW woke \in {<<>>, transactionWaiters},
         Leave(Operation, woke)
  PROVE  /\ queue' = Tail(queue) /\ Operation \in Task /\ at[Operation] \in InQueue
         /\ at'[Operation] = "done"
         /\ \A u \in Task : u # Operation =>
              at'[u] = at[u] \/ (at[u] \in Waits /\ at'[u] = "woken")
         /\ turnOwner' # turnOwner => Operation \in SessionTask /\ turnOwner = Operation[1]
         /\ \A u \in Task : at'[u] \in InQueue => u \in ToSet(Tail(queue))
<1> DEFINE t == Head(queue)
<1>1. t \in Where(InQueue) /\ Lists(Tail(queue), Where(InQueue) \ {t}) /\ queue' = Tail(queue)
  BY ListsTail DEF TypeInv, Queues, Leave, Operation
<1>2. t \in Task /\ at[t] \in InQueue /\ ToSet(Tail(queue)) = Where(InQueue) \ {t}
  BY <1>1 DEF Where, Lists
<1>3. /\ ToSet(<<>>) = {}
      /\ ToSet(transactionWaiters) \subseteq {u \in Task : at[u] \in Waits}
      /\ ToSet(turnWaiters) \subseteq {u \in Task : at[u] \in Waits}
  BY DEF TypeInv, Queues, Lists, Where, Waits, ToSet
<1>4. PICK all : at' = Places({t}, all) /\ ToSet(all) \subseteq {u \in Task : at[u] \in Waits}
  <2>1. CASE at' = Places({t}, <<>>) \/ at' = Places({t}, woke)
    BY <1>3, <2>1
  <2>2. CASE at' = Places({t}, woke \o turnWaiters)
    <3>1. woke \in Seq(Task) /\ turnWaiters \in Seq(Task)
      <4>1. transactionWaiters \in Seq(Task) /\ turnWaiters \in Seq(Task) /\ <<>> \in Seq(Task)
        BY DEF TypeInv, Queues, Lists
      <4> QED
        BY <4>1
    <3>2. ToSet(woke \o turnWaiters) = ToSet(woke) \cup ToSet(turnWaiters)
      BY <3>1, ConcatMembers
    <3> QED
      BY <1>3, <2>2, <3>2
  <2> QED
    BY <2>1, <2>2 DEF Leave, ReleaseTurn, Operation
<1>5. \A u \in Task : at'[u] = IF u = t THEN "done" ELSE IF u \in ToSet(all) THEN "woken" ELSE at[u]
  BY <1>4 DEF Places
<1>6. \A u \in Task : at'[u] \in InQueue => at[u] \in InQueue /\ u # t
  BY <1>5 DEF InQueue
<1>7. turnOwner' # turnOwner => t \in SessionTask /\ turnOwner = t[1]
  BY DEF Leave, ReleaseTurn, Operation
<1> QED
  BY <1>1, <1>2, <1>4, <1>5, <1>6, <1>7 DEF Operation, Where

LEMMA LeaveMatched ==
  ASSUME TypeInv, Matched, queue # <<>>, NEW woke \in {<<>>, transactionWaiters},
         Leave(Operation, woke)
  PROVE  \A u \in Task : at'[u] \notin Works
<1> SUFFICES ASSUME NEW u \in Task, at'[u] \in Works
             PROVE  FALSE
  OBVIOUS
<1>1. u # Operation /\ at'[u] = at[u]
  BY LeaveMoves DEF Works
<1> QED
  BY <1>1 DEF Matched, OneAtWork, Operation

LEMMA LeaveOrderly ==
  ASSUME TypeInv, Orderly, queue # <<>>, NEW woke \in {<<>>, transactionWaiters},
         Leave(Operation, woke), waiting' = waiting,
         \A s \in Sessions : life[s] = "open" => life'[s] = "open",
         transaction' \in {None, transaction} \/ Operation \in Request
  PROVE  Orderly'
<1>1. NoneEnters
  <2> SUFFICES ASSUME NEW u \in SessionTask
               PROVE  /\ InFlight(u)' => InFlight(u)
                      /\ at'[u] \in InQueue => at[u] \in InQueue
                      /\ at'[u] \in Waits => at[u] \in Waits
    BY DEF NoneEnters
  <2>1. at'[u] = at[u] \/ at'[u] = "done" \/ (at[u] \in Waits /\ at'[u] = "woken")
    BY LeaveMoves, TaskNames
  <2> QED
    BY <2>1 DEF InFlight, InQueue, Waits
<1>2. queue \in Seq(Task) /\ queue' = Tail(queue)
  BY LeaveMoves DEF TypeInv, Queues, Lists
<1>3. Behind(queue')
  BY <1>2, BehindTail DEF Orderly
<1>4. RequestsKept
  <2>1. \A u \in Request : InFlight(u)' /\ life[u[1]] = "open" => life'[u[1]] = "open"
    BY TaskNames
  <2>2. ASSUME NEW u \in Request, at'[u] \in InQueue, turnOwner = u[1]
        PROVE  turnOwner' = u[1]
    <3>1. u \in SessionTask /\ u \in Task
      BY TaskNames
    <3>2. u # Operation /\ InFlight(u) /\ InFlight(Operation)
      <4>1. u # Operation /\ at[u] \in InQueue /\ at[Operation] \in InQueue
        BY <2>2, <3>1, LeaveMoves, <1>1 DEF InQueue, NoneEnters
      <4> QED
        BY <4>1 DEF InFlight, InQueue
    <3>3. Operation \in SessionTask => turnOwner # Operation[1]
      BY <2>2, <3>1, <3>2 DEF Orderly, OneInFlight
    <3> QED
      BY <2>2, <3>3, LeaveMoves
  <2>3. \A u \in SessionTask : at'[u] \in InQueue => transaction' \in {None, transaction}
    <3>1. CASE Operation \in Request
      <4>1. \A u \in ToSet(Tail(queue)) : u \notin SessionTask
        BY <1>2, <3>1, BehindTail DEF Orderly, Operation
      <4> QED
        BY <4>1, LeaveMoves, TaskNames
    <3>2. CASE Operation \notin Request
      BY <3>2
    <3> QED
      BY <3>1, <3>2
  <2> QED
    BY <2>1, <2>2, <2>3 DEF RequestsKept
<1> QED
  BY <1>1, <1>3, <1>4, OrderlyKept

\* All sessions are cleared; no request is in flight.
LEMMA ClearLocks ==
  ASSUME TypeInv, Matched, NEW ended, ClearAllSessions(ended), ended \subseteq Task,
         \/ ended = {} /\ queue' = queue
         \/ queue # <<>> /\ ended = {Head(queue)} /\ queue' = Tail(queue),
         transaction' = None, engine' = "none", waiting' = waiting
  PROVE  /\ Matched'
         /\ Orderly /\ (\A t \in Request : ~InFlight(t)) => Orderly'
<1>1. \A u \in Task : \/ at'[u] = at[u] /\ u \notin ended
                      \/ at'[u] = "done" \/ (at[u] \in Waits /\ at'[u] = "woken")
  <2>1. ToSet(transactionWaiters \o turnWaiters) \subseteq {u \in Task : at[u] \in Waits}
    <3>1. Lists(transactionWaiters \o turnWaiters,
                Where({"waitTransaction"}) \cup Where({"waitTurn"}))
      <4>1. Where({"waitTransaction"}) \cap Where({"waitTurn"}) = {}
        BY DEF Where
      <4> QED
        BY <4>1, ListsConcat DEF TypeInv, Queues
    <3> QED
      BY <3>1 DEF Lists, Where, Waits
  <2>2. \A u \in Task : at'[u] = IF u \in ended THEN "done"
                                 ELSE IF u \in ToSet(transactionWaiters \o turnWaiters)
                                      THEN "woken" ELSE at[u]
    BY DEF ClearAllSessions, Places
  <2> QED
    BY <2>1, <2>2
<1>2. /\ transactionOwner' = None /\ turnOwner' = None
      /\ \A s \in Sessions : life'[s] # "open"
  BY DEF ClearAllSessions
<1>3. Matched'
  <2>1. OneAtWork'
    BY <1>1 DEF Matched, OneAtWork, Works
  <2> QED
    BY <1>2, <2>1 DEF Matched, TransactionExclusive, LockMatchesEngine,
                      NoEngineNoTransaction, ClosingIsIdle
<1>4. ASSUME Orderly, \A t \in Request : ~InFlight(t)
      PROVE  Orderly'
  <2>1. NoneEnters
    BY <1>1, TaskNames DEF NoneEnters, InFlight, InQueue, Waits
  <2>2. RequestsKept
    <3>1. \A t \in Request : ~InFlight(t)' /\ at'[t] \notin InQueue
      BY <1>4, <2>1, TaskNames DEF NoneEnters, InFlight, InQueue
    <3> QED
      BY <3>1 DEF RequestsKept
  <2>3. Behind(queue')
    <3>1. queue \in Seq(Task)
      BY DEF TypeInv, Queues, Lists
    <3> QED
      BY <3>1, <1>4, BehindTail DEF Orderly
  <2> QED
    BY <1>4, <2>1, <2>2, <2>3, OrderlyKept
<1> QED
  BY <1>3, <1>4
-----------------------------------------------------------------------------
(* The steps.                                                              *)

LocksKept == Matched' /\ (Fine' => Orderly')

\* What has failed or is quarantined stays so.
LEMMA FineBefore ==
  ASSUME failed => failed', quarantined => quarantined', Fine'
  PROVE  Fine
  BY DEF Fine

\* The tasks stay where they are.
LEMMA Untouched ==
  ASSUME LocksInv, UNCHANGED <<at, queue, transactionOwner, turnOwner, waiting, transaction>>,
         \A s \in Sessions : life[s] = "open" => life'[s] = "open",
         failed => failed', quarantined => quarantined'
  PROVE  Fine' => Orderly'
<1> SUFFICES ASSUME Fine'
             PROVE  Orderly'
  OBVIOUS
<1>1. Orderly
  BY FineBefore DEF LocksInv
<1>2. NoneEnters /\ RequestsKept
  BY TaskNames DEF NoneEnters, RequestsKept, InFlight
<1> QED
  BY <1>1, <1>2, OrderlyKept DEF Orderly

\* A task takes part in acquireTurn.
LEMMA AcquireLocks ==
  ASSUME LocksInv, NEW t, NEW rest, NEW waits \in [Sessions -> BOOLEAN],
         Turner(t, rest), Fine => Alone(t), AcquireTurn(t, rest, waits), NoneOpens,
         \A s \in Sessions : s # t[1] => waits[s] = waiting[s],
         \A s \in Sessions : s # t[1] /\ life[s] = "open" => life'[s] = "open",
         Fine => (t \in Request => life'[t[1]] = "open")
  PROVE  LocksKept
<1>1. Matched'
  BY AcquireMatched DEF LocksInv
<1>2. ASSUME Fine'
      PROVE  Orderly'
  <2>1. (failed => failed') /\ (quarantined => quarantined')
    BY AcquireEffects DEF LocksInv
  <2>2. Fine
    BY <1>2, <2>1, FineBefore
  <2> QED
    BY <2>2, AcquireOrderly DEF LocksInv
<1> QED
  BY <1>1, <1>2 DEF LocksKept

\* A session is closed that has nothing in flight.
LEMMA CloseLocks ==
  ASSUME LocksInv, woken = <<>>, NEW s \in Sessions, life[s] = "open", Fine => ~Busy(s),
         NEW how \in {"closed", "reaped"}, CloseSession(s, how)
  PROVE  LocksKept
<1> DEFINE t == Closing(s)
<1>1. t \in SessionTask /\ t \in Task /\ at[t] = "new" /\ t[1] = s /\ t \notin Request
      /\ at \in [Task -> Positions] /\ life \in [Sessions -> {"new", "opening", "open", "closed", "reaped"}]
  <2>1. t \in SessionTask /\ t \in Task /\ at[t] = "new"
    BY TaskNames DEF LocksInv, TypeInv, Fresh
  <2>2. t[1] = s /\ t \notin Request
    BY DEF Closing, Request
  <2> QED
    BY <2>1, <2>2 DEF LocksInv, TypeInv, Registers
<1>2. \A u \in SessionTask : u[1] = s => \E n \in 0 .. MaxRequests : u = <<s, n>>
  BY DEF SessionTask
<1>3. Fine => \A u \in SessionTask : u[1] = s => ~InFlight(u)
  BY <1>2 DEF Busy
<1>4. life' = [life EXCEPT ![s] = how]
  BY DEF CloseSession
<1>5. NoneOpens /\ \A r \in Sessions : r # s => life'[r] = life[r]
  BY <1>1, <1>4 DEF NoneOpens
<1> HIDE DEF t
<1>6. CASE inTransaction[s]
  <2>1. AcquireTurn(t, <<>>, waiting) /\ Turner(t, <<>>) /\ waiting \in [Sessions -> BOOLEAN]
    BY <1>1, <1>6, Arrives DEF CloseSession, LocksInv, TypeInv, Registers, t
  <2>2. Fine => Alone(t)
    BY <1>1, <1>3 DEF Alone
  <2> QED
    BY <1>1, <1>5, <2>1, <2>2, AcquireLocks
<1>7. CASE ~inTransaction[s]
  <2>1. /\ at' = [at EXCEPT ![t] = "done"] /\ CloseEngineIfIdle
        /\ UNCHANGED <<waiting, transactionOwner, turnOwner, queue, quarantined,
                       transaction, failed>>
    BY <1>7 DEF CloseSession, turns, t
  <2>2. \A u \in Task : at'[u] = at[u] \/ at'[u] = "done"
    BY <1>1, <2>1
  <2>3. StillWorking
    BY <2>1, <2>2 DEF LocksInv, Matched, OneAtWork, StillWorking, Works
  <2>4. EngineKept
    BY <2>1 DEF CloseEngineIfIdle, EngineKept, Registered
  <2>5. Matched'
    BY <1>5, <2>1, <2>3, <2>4, MatchedKept DEF LocksInv
  <2>6. ASSUME Fine'
        PROVE  Orderly'
    <3>1. Fine /\ Orderly
      BY <2>1, <2>6, FineBefore DEF LocksInv
    <3>2. NoneEnters
      BY <2>2, TaskNames DEF NoneEnters, InFlight, InQueue, Waits
    <3>3. RequestsKept
      <4>1. \A u \in Request : InFlight(u)' => u[1] # s /\ u[1] \in Sessions
        BY <1>3, <3>1, <3>2, TaskNames DEF NoneEnters
      <4> QED
        BY <1>5, <2>1, <4>1 DEF RequestsKept
    <3> QED
      BY <2>1, <3>1, <3>2, <3>3, OrderlyKept DEF Orderly
  <2> QED
    BY <2>5, <2>6 DEF LocksKept
<1> QED
  BY <1>6, <1>7

\* The idle timer spares every session with a request in flight.
LEMMA SparedIdle ==
  ASSUME LocksInv, Orderly, Settled, NEW s \in Sessions, life[s] = "open", ~Spared(s)
  PROVE  ~Busy(s)
<1> SUFFICES ASSUME NEW n \in 0 .. MaxRequests, InFlight(<<s, n>>)
             PROVE  FALSE
  BY DEF Busy
<1> DEFINE t == <<s, n>>
<1>1. t \in SessionTask /\ t \in Task /\ t[1] = s
  BY TaskNames DEF SessionTask
<1>2. at[Closing(s)] = "new"
  BY DEF LocksInv, TypeInv, Fresh
<1>3. n # 0 /\ t \in Request
  <2>1. n # 0
    BY <1>2 DEF Closing, InFlight
  <2> QED
    BY <2>1 DEF Request
<1> HIDE DEF t
<1>4. at[t] \in Positions /\ at[t] \notin {"new", "done"}
  BY <1>1 DEF LocksInv, TypeInv, Registers, InFlight, t
<1>5. at[t] # "woken"
  <2>1. Where({"woken"}) = {}
    BY DEF Settled, LocksInv, TypeInv, Queues, Lists, ToSet
  <2> QED
    BY <1>1, <2>1 DEF Where
<1>6. at[t] \notin Waits
  BY <1>1 DEF Orderly, WaitersMarked, Spared
<1>7. at[t] \notin InQueue
  BY <1>1, <1>3 DEF Orderly, TurnWithRequest, Spared
<1> QED
  BY <1>4, <1>5, <1>6, <1>7 DEF Positions, Waits, InQueue
LEMMA ClientsLocks ==
  ASSUME Serial, LocksInv, Clients
  PROVE  LocksKept
<1>1. ASSUME NEW s \in Sessions, OpenSession(s)
      PROVE  LocksKept
  <2>1. /\ UNCHANGED <<at, queue, transactionOwner, turnOwner, waiting, transaction, failed,
                       quarantined>>
        /\ life[s] = "new" /\ engine # "closing"
        /\ \/ engine = "open" /\ engine' = engine
           \/ engine \in {"none", "opening"} /\ engine' = "opening"
        /\ \E where \in {"open", "opening"} : life' = [life EXCEPT ![s] = where]
    <3>1. UNCHANGED <<at, queue, transactionOwner, turnOwner, waiting, transaction, failed,
                      quarantined>>
      BY <1>1 DEF OpenSession, turns
    <3>2. engine # "closing"
      BY <1>1 DEF OpenSession, Serial
    <3>3. engine \in {"none", "opening", "open", "closing"}
      BY DEF LocksInv, TypeInv, Registers
    <3> QED
      BY <1>1, <3>1, <3>2, <3>3 DEF OpenSession
  <2>2. TransactionExclusive' /\ LockMatchesEngine' /\ OneAtWork'
    BY <2>1 DEF LocksInv, Matched, TransactionExclusive, LockMatchesEngine, OneAtWork
  <2>3. NoEngineNoTransaction' /\ ClosingIsIdle'
    BY <2>1 DEF LocksInv, Matched, NoEngineNoTransaction, ClosingIsIdle
  <2>4. \A r \in Sessions : life[r] = "open" => life'[r] = "open"
    BY <2>1 DEF LocksInv, TypeInv, Registers
  <2> QED
    BY <2>1, <2>2, <2>3, <2>4, Untouched DEF LocksKept, Matched
<1>2. ASSUME NEW s \in Sessions, CloseRequest(s)
      PROVE  LocksKept
  <2>1. woken = <<>> /\ life[s] = "open" /\ ~Busy(s) /\ CloseSession(s, "closed")
    BY <1>2 DEF CloseRequest, Settled, Serial
  <2> QED
    BY <2>1, CloseLocks
<1>3. ASSUME NEW s \in Sessions, Cancel(s)
      PROVE  LocksKept
  <2> DEFINE mine == {s} \X (0 .. MaxRequests)
             all == FoundWaiter(transactionWaiters, mine) \o FoundWaiter(turnWaiters, mine)
  <2>1. /\ at' = Places({}, all)
        /\ UNCHANGED <<life, waiting, transactionOwner, turnOwner, queue, quarantined, engine,
                       transaction, failed>>
    BY <1>3 DEF Cancel, process
  <2>2. ToSet(all) \subseteq {u \in Task : at[u] \in Waits}
    <3> HIDE DEF mine
    <3>1. PICK R \in SUBSET Where({"waitTransaction"}) : Lists(FoundWaiter(transactionWaiters, mine), R)
      BY ListsRemove DEF LocksInv, TypeInv, Queues
    <3>2. PICK T \in SUBSET Where({"waitTurn"}) : Lists(FoundWaiter(turnWaiters, mine), T)
      BY ListsRemove DEF LocksInv, TypeInv, Queues
    <3>3. R \cap T = {}
      BY DEF Where
    <3>4. Lists(all, R \cup T)
      BY <3>1, <3>2, <3>3, ListsConcat
    <3> QED
      BY <3>4 DEF Lists, Where, Waits
  <2> HIDE DEF all
  <2>3. \A u \in Task : at'[u] = at[u] \/ (at[u] \in Waits /\ at'[u] = "woken")
    BY <2>1, <2>2 DEF Places
  <2>4. StillWorking /\ EngineKept /\ NoneOpens
    BY <2>1, <2>3 DEF LocksInv, Matched, OneAtWork, StillWorking, Works, EngineKept, NoneOpens
  <2>5. Matched'
    BY <2>1, <2>4, MatchedKept DEF LocksInv
  <2>6. NoneEnters /\ RequestsKept
    BY <2>1, <2>3, TaskNames DEF NoneEnters, RequestsKept, InFlight, InQueue, Waits
  <2>7. Fine' => Orderly'
    BY <2>1, <2>6, FineBefore, OrderlyKept DEF LocksInv, Orderly
  <2> QED
    BY <2>5, <2>7 DEF LocksKept
<1>4. ASSUME NEW t \in Task, SendRequest(t)
      PROVE  LocksKept
  <2>1. /\ t \in Request /\ t \in SessionTask /\ at[t] = "new" /\ life[t[1]] = "open"
        /\ woken = <<>> /\ ~Busy(t[1]) /\ life' = life /\ AcquireTurn(t, <<>>, waiting)
    BY <1>4, TaskNames DEF SendRequest, Settled, Serial
  <2>2. Turner(t, <<>>) /\ waiting \in [Sessions -> BOOLEAN]
    BY <2>1, Arrives DEF LocksInv, TypeInv, Registers
  <2>3. Alone(t)
    <3>1. \A u \in SessionTask : \E n \in 0 .. MaxRequests : u = <<u[1], n>>
      BY DEF SessionTask
    <3> QED
      BY <2>1, <3>1 DEF Busy, Alone
  <2>4. NoneOpens
    BY <2>1 DEF NoneOpens
  <2> QED
    BY <2>1, <2>2, <2>3, <2>4, AcquireLocks
<1>5. ASSUME NEW t \in Task, SendScript(t) \/ SendBackup(t)
      PROVE  LocksKept
  <2>1. t \in Script \cup Backup /\ at[t] = "new" /\ Enqueue(t)
    BY <1>5 DEF SendScript, SendBackup
  <2>2. t \notin SessionTask
    <3>1. t[1] \in Scripts \cup Backups
      BY <2>1 DEF Script, Backup
    <3> QED
      BY <3>1, SessionBridgeAssumption, TaskNames
  <2>3. /\ UNCHANGED <<life, waiting, transactionOwner, turnOwner, quarantined, engine,
                       transaction, failed>>
        /\ queue' = queue \/ queue' = Append(queue, t)
        /\ \A u \in Task : u # t => at'[u] = at[u]
        /\ at'[t] \in {"queued", "done"}
    BY <2>1 DEF Enqueue, session, turns, process, LocksInv, TypeInv, Registers
  <2>4. queue \in Seq(Task)
    BY DEF LocksInv, TypeInv, Queues, Lists
  <2>5. StillWorking
    <3> SUFFICES ASSUME NEW u \in Task, at'[u] \in Works
                 PROVE  at'[u] = at[u] /\ queue' # <<>> /\ Head(queue') = Head(queue)
      BY DEF StillWorking
    <3>1. u # t /\ at'[u] = at[u]
      BY <2>3 DEF Works
    <3>2. queue # <<>>
      BY <3>1 DEF LocksInv, Matched, OneAtWork
    <3>3. Append(queue, t) # <<>> /\ Head(Append(queue, t)) = Head(queue)
      BY <2>4, <3>2
    <3> QED
      BY <2>3, <3>1, <3>2, <3>3
  <2>6. EngineKept /\ NoneOpens
    BY <2>3 DEF EngineKept, NoneOpens
  <2>7. Matched'
    BY <2>3, <2>5, <2>6, MatchedKept DEF LocksInv
  <2>8. NoneEnters /\ RequestsKept
    <3>1. \A u \in SessionTask : at'[u] = at[u]
      BY <2>2, <2>3, TaskNames
    <3> QED
      BY <2>3, <3>1, TaskNames DEF NoneEnters, RequestsKept, InFlight
  <2>9. Orderly => Behind(queue')
    BY <2>2, <2>3, <2>4, BehindAppend DEF Orderly
  <2>10. Fine' => Orderly'
    BY <2>3, <2>8, <2>9, FineBefore, OrderlyKept DEF LocksInv
  <2> QED
    BY <2>7, <2>10 DEF LocksKept
<1> QED
  BY <1>1, <1>2, <1>3, <1>4, <1>5 DEF Clients

LEMMA TimersLocks ==
  ASSUME Serial, LocksInv, Timers
  PROVE  LocksKept
<1>1. ASSUME NEW s \in Sessions, IdleTimeout(s)
      PROVE  LocksKept
  <2>1. Settled /\ woken = <<>> /\ life[s] = "open" /\ ~Spared(s) /\ CloseSession(s, "reaped")
    BY <1>1 DEF IdleTimeout, Settled
  <2>2. Fine => ~Busy(s)
    BY <2>1, SparedIdle DEF LocksInv
  <2> QED
    BY <2>1, <2>2, CloseLocks
<1>2. ASSUME NEW t \in SessionTask, WaitTimeout(t)
      PROVE  LocksKept
  <2>1. /\ at' = [at EXCEPT ![t] = "done"]
        /\ UNCHANGED <<life, waiting, transactionOwner, turnOwner, queue, transaction, failed>>
        /\ Throws(t)
    BY <1>2 DEF WaitTimeout, session
  <2>2. (quarantined => quarantined') /\ EngineKept /\ NoneOpens
    BY <2>1 DEF Throws, CloseEngineIfIdle, Registered, EngineKept, NoneOpens
  <2>3. \A u \in Task : at'[u] = at[u] \/ at'[u] = "done"
    BY <2>1 DEF LocksInv, TypeInv, Registers
  <2>4. StillWorking
    BY <2>1, <2>3 DEF LocksInv, Matched, OneAtWork, StillWorking, Works
  <2>5. Matched'
    BY <2>1, <2>2, <2>4, MatchedKept DEF LocksInv
  <2>6. NoneEnters /\ RequestsKept
    BY <2>1, <2>3, TaskNames DEF NoneEnters, RequestsKept, InFlight, InQueue, Waits
  <2>7. Fine' => Orderly'
    BY <2>1, <2>2, <2>6, FineBefore, OrderlyKept DEF LocksInv, Orderly
  <2> QED
    BY <2>5, <2>7 DEF LocksKept
<1> QED
  BY <1>1, <1>2 DEF Timers
\* An operation leaves the queue; the transaction stays with whom it is.
LEMMA LeavingLocks ==
  ASSUME LocksInv, queue # <<>>, Leave(Operation, <<>>),
         UNCHANGED <<waiting, transactionOwner, transaction>>, EngineKept, NoneOpens,
         \A s \in Sessions : life[s] = "open" => life'[s] = "open",
         failed => failed', quarantined => quarantined'
  PROVE  LocksKept
<1>1. StillWorking
  BY LeaveMatched DEF LocksInv, StillWorking
<1>2. Matched'
  BY <1>1, MatchedKept DEF LocksInv
<1>3. Fine' => Orderly'
  BY FineBefore, LeaveOrderly DEF LocksInv
<1> QED
  BY <1>2, <1>3 DEF LocksKept

\* The head of the queue goes on.
LEMMA WorkingLocks ==
  ASSUME LocksInv, queue # <<>>, NEW p \in Works, at' = [at EXCEPT ![Operation] = p],
         at[Operation] \in InQueue,
         UNCHANGED <<queue, life, waiting, transactionOwner, turnOwner, quarantined,
                     transaction, failed>>,
         engine' = engine \/ (engine = "none" /\ engine' = "opening"),
         Operation \in SessionTask /\ p = "running" => transaction \in {None, Operation[1]}
  PROVE  LocksKept
<1> DEFINE t == Operation
<1>1. t = Head(queue) /\ t \in Task
  <2>1. Head(queue) \in Where(InQueue)
    BY ListsTail DEF LocksInv, TypeInv, Queues
  <2> QED
    BY <2>1 DEF Where, Operation
<1> HIDE DEF t
<1>2. at'[t] = p /\ \A u \in Task : u # t => at'[u] = at[u]
  BY <1>1 DEF LocksInv, TypeInv, Registers, t
<1>3. OneAtWork'
  BY <1>1, <1>2 DEF LocksInv, Matched, OneAtWork
<1>4. TransactionExclusive'
  BY <1>1, <1>2, TaskNames DEF LocksInv, Matched, TransactionExclusive, t
<1>5. LockMatchesEngine' /\ NoEngineNoTransaction' /\ ClosingIsIdle'
  BY DEF LocksInv, Matched, LockMatchesEngine, NoEngineNoTransaction, ClosingIsIdle
<1>6. NoneEnters
  BY <1>1, <1>2, TaskNames DEF NoneEnters, InFlight, InQueue, Waits, Works, t
<1>7. RequestsKept
  BY DEF RequestsKept
<1>8. Fine' => Orderly'
  BY <1>6, <1>7, FineBefore, OrderlyKept DEF LocksInv, Orderly
<1> QED
  BY <1>3, <1>4, <1>5, <1>8 DEF LocksKept, Matched

LEMMA BridgeLocks ==
  ASSUME LocksInv, Bridge
  PROVE  LocksKept
<1>1. CASE Resume
  <2> DEFINE t == Head(woken)
             waits == [waiting EXCEPT ![t[1]] = FALSE]
  <2>1. Turner(t, Tail(woken)) /\ AcquireTurn(t, Tail(woken), waits) /\ life' = life
    BY <1>1, Resumes DEF Resume, LocksInv
  <2>2. t \in SessionTask /\ at[t] = "woken" /\ t[1] \in Sessions
    <3>1. t \in Where({"woken"})
      BY <1>1, ListsTail DEF Resume, LocksInv, TypeInv, Queues
    <3> QED
      BY <2>1, <3>1, TaskNames DEF Where, Turner
  <2>3. waits \in [Sessions -> BOOLEAN] /\ \A s \in Sessions : s # t[1] => waits[s] = waiting[s]
    BY <2>2 DEF LocksInv, TypeInv, Registers
  <2> HIDE DEF t, waits
  <2>4. Fine => Alone(t)
    BY <2>2 DEF LocksInv, Orderly, OneInFlight, Alone, InFlight
  <2>5. Fine => (t \in Request => life'[t[1]] = "open")
    BY <2>1, <2>2 DEF LocksInv, Orderly, WorkOpen, InFlight
  <2>6. NoneOpens /\ \A s \in Sessions : s # t[1] /\ life[s] = "open" => life'[s] = "open"
    BY <2>1 DEF NoneOpens
  <2> QED
    BY <2>1, <2>3, <2>4, <2>5, <2>6, AcquireLocks
<1>2. CASE Skip
  <2>1. Leave(Operation, <<>>) /\ queue # <<>> /\ Throws(Operation)
        /\ UNCHANGED <<life, waiting, transactionOwner, transaction, failed>>
    BY <1>2 DEF Skip, Ready, session
  <2>2. (quarantined => quarantined') /\ EngineKept /\ NoneOpens
    BY <2>1 DEF Throws, CloseEngineIfIdle, Registered, EngineKept, NoneOpens
  <2> QED
    BY <2>1, <2>2, LeavingLocks
<1>3. CASE Submit
  <2>1. /\ queue # <<>> /\ at[Operation] = "queued" /\ Fine
        /\ UNCHANGED <<life, waiting, turns, queue, quarantined, transaction, failed>>
        /\ \/ engine = "open" /\ at' = [at EXCEPT ![Operation] = "running"]
           \/ engine # "open" /\ at' = [at EXCEPT ![Operation] = "starting"]
        /\ engine' = engine \/ (engine = "none" /\ engine' = "opening")
    BY <1>3 DEF Submit, Ready, Fine
  <2>2. Operation \in SessionTask => transaction \in {None, Operation[1]}
    BY <2>1 DEF LocksInv, Orderly, LockAllows, InQueue
  <2>3. PICK p \in Works : at' = [at EXCEPT ![Operation] = p]
    BY <2>1 DEF Works
  <2>4. at[Operation] \in InQueue /\ UNCHANGED <<transactionOwner, turnOwner>>
    BY <2>1 DEF InQueue, turns
  <2> QED
    BY <2>1, <2>2, <2>3, <2>4, WorkingLocks
<1>4. CASE SubmitToClosing
  <2>1. Leave(Operation, <<>>) /\ queue # <<>>
        /\ UNCHANGED <<life, waiting, transactionOwner, transaction, failed, engine>>
        /\ (quarantined => quarantined')
    BY <1>4 DEF SubmitToClosing, Ready, session
  <2>2. EngineKept /\ NoneOpens
    BY <2>1 DEF EngineKept, NoneOpens
  <2> QED
    BY <2>1, <2>2, LeavingLocks
<1>5. CASE StartScript
  <2>1. queue # <<>> /\ at[Operation] = "queued" /\ Operation \in Script
        /\ at' = [at EXCEPT ![Operation] = "running"]
        /\ UNCHANGED <<session, turns, queue, process>>
    BY <1>5 DEF StartScript, Ready
  <2>2. Operation \notin SessionTask
    <3>1. Operation[1] \in Scripts
      BY <2>1 DEF Script
    <3> QED
      BY <3>1, SessionBridgeAssumption, TaskNames
  <2>3. "running" \in Works /\ at[Operation] \in InQueue
        /\ UNCHANGED <<life, waiting, transactionOwner, turnOwner, quarantined, engine,
                       transaction, failed>>
    BY <2>1 DEF Works, InQueue, session, turns, process
  <2> QED
    BY <2>1, <2>2, <2>3, WorkingLocks
<1> QED
  BY <1>1, <1>2, <1>3, <1>4, <1>5 DEF Bridge

\* The engine answers, and the transaction lock follows its transaction.
LEMMA AnswerLocks ==
  ASSUME LocksInv, NEW open \in BOOLEAN, NEW uncertain \in BOOLEAN, Answer(open, uncertain)
  PROVE  LocksKept
<1> DEFINE t == Operation
<1>1. /\ queue # <<>> /\ at[t] = "running" /\ t \notin Script
      /\ engine \in {"open", "closing"} /\ life' = life /\ waiting' = waiting
      /\ failed' = (failed \/ uncertain) /\ quarantined' = (quarantined \/ uncertain)
      /\ transaction' = IF ~open THEN None
                        ELSE IF transaction = None THEN t[1] ELSE transaction
      /\ (t[2] = 0 /\ open => uncertain)
      /\ (t \in Backup => (open <=> transaction # None))
  BY DEF Answer, Working
<1>2. t \in Task /\ (t \notin SessionTask => t \in Backup)
  <2>1. Head(queue) \in Where(InQueue)
    BY <1>1, ListsTail DEF LocksInv, TypeInv, Queues
  <2> QED
    BY <1>1, <2>1 DEF Where, Operation, Task
<1>3. PICK woke \in {<<>>, transactionWaiters} : Leave(t, woke)
  BY DEF Answer, TransactionWaitersOf
<1>4. LockMatchesEngine'
  <2>1. transactionOwner = transaction /\ (t \in SessionTask => transaction \in {None, t[1]})
    BY <1>1 DEF LocksInv, Matched, LockMatchesEngine, TransactionExclusive
  <2>2. CASE t \in SessionTask
    <3>1. transactionOwner' = IF open THEN t[1]
                              ELSE IF ~open /\ transactionOwner = t[1] THEN None
                              ELSE transactionOwner
      BY <2>2 DEF Answer, ApplyTransactionResult
    <3> QED
      BY <1>1, <2>1, <2>2, <3>1 DEF LockMatchesEngine
  <2>3. CASE t \notin SessionTask
    <3>1. transactionOwner' = transactionOwner
      BY <2>3 DEF Answer
    <3> QED
      BY <1>1, <1>2, <2>1, <2>3, <3>1 DEF LockMatchesEngine
  <2> QED
    BY <2>2, <2>3
<1>5. EngineKept
  BY DEF Answer, Returns, CloseEngineIfIdle, Registered, EngineKept
<1>6. \A u \in Task : at'[u] \notin Works
  BY <1>1, <1>3, LeaveMatched DEF LocksInv
<1>7. Matched'
  <2>1. OneAtWork' /\ TransactionExclusive'
    BY <1>6, TaskNames DEF OneAtWork, TransactionExclusive, Works
  <2>2. NoEngineNoTransaction' /\ ClosingIsIdle'
    BY <1>1, <1>5 DEF EngineKept, NoEngineNoTransaction, ClosingIsIdle, LocksInv, Matched
  <2> QED
    BY <1>4, <2>1, <2>2 DEF Matched
<1>8. ASSUME Fine'
      PROVE  Orderly'
  <2>1. Orderly /\ ~uncertain
    BY <1>1, <1>8, FineBefore DEF LocksInv, Fine
  <2>2. transaction' \in {None, transaction} \/ t \in Request
    <3>1. CASE t \in SessionTask
      <4>1. t \in Request \/ t[2] = 0
        BY <3>1 DEF SessionTask, Request
      <4> QED
        BY <1>1, <2>1, <4>1
    <3>2. CASE t \notin SessionTask
      BY <1>1, <1>2, <3>2
    <3> QED
      BY <3>1, <3>2
  <2> QED
    BY <1>1, <1>3, <2>1, <2>2, LeaveOrderly DEF LocksInv
<1> QED
  BY <1>7, <1>8 DEF LocksKept

LEMMA EngineLocks ==
  ASSUME LocksInv, EngineReady \/ EngineRefused
  PROVE  LocksKept
<1>1. CASE EngineReady
  <2>1. /\ engine = "opening" /\ engine' = "open"
        /\ at' = [t \in Task |-> IF at[t] = "starting" THEN "running" ELSE at[t]]
        /\ \A s \in Sessions : life[s] = "open" => life'[s] = "open"
        /\ UNCHANGED <<waiting, turnOwner, transactionOwner, queue, quarantined, transaction,
                       failed>>
    BY <1>1 DEF EngineReady, turns
  <2>2. \A u \in Task : at'[u] = at[u] \/ (at[u] = "starting" /\ at'[u] = "running")
    BY <2>1
  <2>3. Matched'
    <3>1. transaction' = None
      BY <2>1 DEF LocksInv, Matched, NoEngineNoTransaction
    <3>2. OneAtWork'
      BY <2>1, <2>2 DEF LocksInv, Matched, OneAtWork, Works
    <3> QED
      BY <2>1, <3>1, <3>2 DEF LocksInv, Matched, TransactionExclusive, LockMatchesEngine,
                              NoEngineNoTransaction, ClosingIsIdle
  <2>4. NoneEnters /\ RequestsKept
    BY <2>1, <2>2, TaskNames DEF NoneEnters, RequestsKept, InFlight, InQueue, Waits
  <2>5. Fine' => Orderly'
    BY <2>1, <2>4, FineBefore, OrderlyKept DEF LocksInv, Orderly
  <2> QED
    BY <2>3, <2>5 DEF LocksKept
<1>2. CASE EngineRefused
  <2>1. /\ engine = "opening" /\ engine' = "none"
        /\ life' = [s \in Sessions |-> IF life[s] = "opening" THEN "closed" ELSE life[s]]
        /\ UNCHANGED <<waiting, transactionOwner, transaction>>
        /\ (failed => failed') /\ (quarantined => quarantined')
    BY <1>2 DEF EngineRefused
  <2>2. /\ \A s \in Sessions : life[s] = "open" => life'[s] = "open"
        /\ NoneOpens
    BY <2>1 DEF NoneOpens
  <2>3. LockMatchesEngine' /\ NoEngineNoTransaction' /\ ClosingIsIdle'
    BY <2>1 DEF LocksInv, Matched, LockMatchesEngine, NoEngineNoTransaction, ClosingIsIdle
  <2>4. CASE queue # <<>> /\ at[Operation] = "starting"
    <3>1. Leave(Operation, <<>>)
      BY <1>2, <2>4 DEF EngineRefused
    <3>2. \A u \in Task : at'[u] \notin Works
      BY <2>4, <3>1, LeaveMatched DEF LocksInv
    <3>3. Matched'
      BY <2>3, <3>2, TaskNames DEF Matched, OneAtWork, TransactionExclusive, Works
    <3>4. Fine' => Orderly'
      BY <2>1, <2>2, <2>4, <3>1, FineBefore, LeaveOrderly DEF LocksInv
    <3> QED
      BY <3>3, <3>4 DEF LocksKept
  <2>5. CASE ~(queue # <<>> /\ at[Operation] = "starting")
    <3>1. UNCHANGED <<at, turnOwner, queue>>
      BY <1>2, <2>5 DEF EngineRefused
    <3>2. OneAtWork' /\ TransactionExclusive'
      BY <2>1, <3>1 DEF LocksInv, Matched, OneAtWork, TransactionExclusive
    <3>3. Fine' => Orderly'
      BY <2>1, <2>2, <3>1, Untouched
    <3> QED
      BY <2>3, <3>2, <3>3 DEF LocksKept, Matched
  <2> QED
    BY <2>4, <2>5
<1> QED
  BY <1>1, <1>2

\* The engine ends: when it was told to, no session has a request in flight.
LEMMA EndLocks ==
  ASSUME LocksInv, EngineClosed \/ EngineDies
  PROVE  LocksKept
<1>1. /\ transaction' = None /\ engine' = "none" /\ waiting' = waiting
      /\ (failed => failed') /\ (quarantined => quarantined')
      /\ engine \in {"open", "closing"}
      /\ engine = "open" => failed' /\ quarantined'
  BY DEF EngineClosed, EngineDies, LocksInv, TypeInv, Registers
<1>2. PICK ended : /\ ClearAllSessions(ended)
                   /\ \/ ended = {} /\ queue' = queue
                      \/ queue # <<>> /\ ended = {Head(queue)} /\ queue' = Tail(queue)
  BY DEF EngineClosed, EngineDies, Working, Operation
<1>3. ended \subseteq Task
  <2>1. queue # <<>> => Head(queue) \in Where(InQueue)
    BY ListsTail DEF LocksInv, TypeInv, Queues
  <2> QED
    BY <1>2, <2>1 DEF Where
<1>4. Matched' /\ (Orderly /\ (\A t \in Request : ~InFlight(t)) => Orderly')
  BY <1>1, <1>2, <1>3, ClearLocks DEF LocksInv
<1>5. ASSUME Fine'
      PROVE  Orderly /\ \A t \in Request : ~InFlight(t)
  <2>1. Orderly /\ engine = "closing"
    BY <1>1, <1>5, FineBefore DEF LocksInv, Fine
  <2>2. \A s \in Sessions : life[s] # "open"
    BY <2>1 DEF LocksInv, Matched, ClosingIsIdle
  <2> QED
    BY <2>1, <2>2, TaskNames DEF Orderly, WorkOpen
<1> QED
  BY <1>4, <1>5 DEF LocksKept

LEMMA ScriptLocksKept ==
  ASSUME LocksInv, ScriptLocks \/ ScriptRefused \/ ScriptDone \/ ScriptFails
  PROVE  LocksKept
<1>1. CASE ScriptLocks
  <2>1. queue # <<>> /\ at[Operation] = "running" /\ at' = [at EXCEPT ![Operation] = "locked"]
        /\ UNCHANGED <<session, turns, queue, process>>
    BY <1>1 DEF ScriptLocks, Scripting
  <2>2. "locked" \in Works /\ at[Operation] \in InQueue
        /\ UNCHANGED <<life, waiting, transactionOwner, turnOwner, quarantined, engine,
                       transaction, failed>>
    BY <2>1 DEF Works, InQueue, session, turns, process
  <2> QED
    BY <2>1, <2>2, WorkingLocks
<1>2. CASE ScriptRefused \/ ScriptDone \/ ScriptFails
  <2>1. Leave(Operation, <<>>) /\ queue # <<>>
        /\ UNCHANGED <<life, waiting, transactionOwner, transaction, engine>>
        /\ (failed => failed') /\ (quarantined => quarantined')
    BY <1>2 DEF ScriptRefused, ScriptDone, ScriptFails, Scripting, session, process
  <2>2. EngineKept /\ NoneOpens
    BY <2>1 DEF EngineKept, NoneOpens
  <2> QED
    BY <2>1, <2>2, LeavingLocks
<1> QED
  BY <1>1, <1>2

LEMMA StepLocks ==
  ASSUME Serial
  PROVE  LocksInv /\ [Next]_vars => LocksInv'
<1> SUFFICES ASSUME LocksInv, [Next]_vars
             PROVE  LocksInv'
  OBVIOUS
<1>1. TypeInv'
  BY StepTypes DEF LocksInv
<1>2. ASSUME UNCHANGED vars
      PROVE  LocksKept
  <2>1. UNCHANGED <<life, waiting, at, transactionOwner, turnOwner, queue, quarantined,
                    engine, transaction, failed>>
    BY <1>2 DEF vars, session, turns, process
  <2>2. StillWorking /\ EngineKept /\ NoneOpens
    BY <2>1 DEF LocksInv, Matched, OneAtWork, StillWorking, EngineKept, NoneOpens
  <2>3. Matched' /\ (Fine' => Orderly')
    BY <2>1, <2>2, MatchedKept, Untouched DEF LocksInv
  <2> QED
    BY <2>3 DEF LocksKept
<1>3. ASSUME Processes
      PROVE  LocksKept
  BY <1>3, AnswerLocks, EngineLocks, EndLocks, ScriptLocksKept DEF Processes
<1>4. LocksKept
  BY <1>2, <1>3, ClientsLocks, TimersLocks, BridgeLocks, EndLocks DEF Next, Finished, LocksKept
<1> QED
  BY <1>1, <1>4 DEF LocksInv, LocksKept

-----------------------------------------------------------------------------
(* The theorems, for any number of sessions, scripts and backups, engines  *)
(* that fail and clients that cancel and leave.                            *)

THEOREM Locks == ASSUME Serial PROVE Spec => []LocksInv
<1>1. Init => LocksInv
  BY InitLocks
<1>2. LocksInv /\ [Next]_vars => LocksInv'
  BY StepLocks
<1> QED
  BY <1>1, <1>2, PTL DEF Spec

\* While one session has a transaction open in the engine, no statement of
\* another session gets there (acquireTurn, database-bridge.mjs).
THEOREM Exclusive == ASSUME Serial PROVE Spec => []TransactionExclusive
<1>1. LocksInv => TransactionExclusive
  BY DEF LocksInv, Matched
<1> QED
  BY <1>1, Locks, PTL

\* The transaction lock of the bridge is with the session that has a
\* transaction open in the engine, and free when none has
\* (applyTransactionResult, clearAllSessions).
THEOREM Agreement == ASSUME Serial PROVE Spec => []LockMatchesEngine
<1>1. LocksInv => LockMatchesEngine
  BY DEF LocksInv, Matched
<1> QED
  BY <1>1, Locks, PTL

\* A session is not reaped or closed while a request of its is in flight,
\* unless the engine has failed (touchSession).
THEOREM WorkKept == ASSUME Serial PROVE Spec => []WorkKeepsSession
<1>1. LocksInv => WorkKeepsSession
  BY DEF LocksInv, Orderly, WorkOpen, WorkKeepsSession, Fine
<1> QED
  BY <1>1, Locks, PTL

-----------------------------------------------------------------------------
(* Whoever has the lock can give it back. The holder neither waits nor is  *)
(* cancelled, so its ROLLBACK goes into the queue as soon as it is sent;   *)
(* there must be room for it, beside the scripts and the backups.          *)

QueueRoom == IsFiniteSet(Script \cup Backup) /\ Cardinality(Script \cup Backup) < QueueLimit

\* a session is marked as active only while the engine works for it
RunningMarked ==
  \A s \in Sessions : activeRequest[s] => \E t \in SessionTask : t[1] = s /\ at[t] = "running"
\* a session with a task in the queue neither waits nor is to be cancelled
QueuedCalm ==
  \A t \in SessionTask : at[t] \in InQueue => ~waiting[t[1]] /\ ~cancelRequested[t[1]]
\* nor does the session whose transaction is open
HolderCalm ==
  transaction # None =>
    inTransaction[transaction] /\ ~waiting[transaction] /\ ~cancelRequested[transaction]
HolderThere ==
  transaction # None =>
    \/ life[transaction] = "open" \/ at[Closing(transaction)] \in InQueue \/ engine = "closing"
Releasable == ~quarantined => RunningMarked /\ QueuedCalm /\ HolderCalm /\ HolderThere

\* no task of a session enters the queue, and no session starts to wait
CalmStays ==
  /\ UNCHANGED <<waiting, cancelRequested>>
  /\ \A t \in SessionTask : at'[t] \in InQueue => at[t] \in InQueue
\* what the engine works on is worked on, or its session is no longer marked
MarksStay ==
  \A s \in Sessions : activeRequest'[s] =>
    /\ activeRequest[s]
    /\ \A t \in SessionTask : t[1] = s /\ at[t] = "running" => at'[t] = "running"
\* the holder stays where it is
HolderStays ==
  /\ transaction' = transaction
  /\ transaction # None =>
       /\ inTransaction'[transaction] = inTransaction[transaction]
       /\ life[transaction] = "open" => life'[transaction] = "open"
       /\ at[Closing(transaction)] \in InQueue => at'[Closing(transaction)] \in InQueue
       /\ engine = "closing" => engine' = "closing"

LEMMA ReleasableKept ==
  ASSUME Releasable, TypeInv, quarantined => quarantined', CalmStays, MarksStay,
         HolderStays \/ transaction' = None
  PROVE  Releasable'
<1> SUFFICES ASSUME ~quarantined'
             PROVE  RunningMarked' /\ QueuedCalm' /\ HolderCalm' /\ HolderThere'
  BY DEF Releasable
<1>1. RunningMarked /\ QueuedCalm /\ HolderCalm /\ HolderThere
  BY DEF Releasable
<1>2. RunningMarked'
  BY <1>1 DEF RunningMarked, MarksStay
<1>3. QueuedCalm'
  BY <1>1 DEF QueuedCalm, CalmStays
<1>4. HolderCalm'
  BY <1>1 DEF HolderCalm, CalmStays, HolderStays
<1>5. HolderThere'
  BY <1>1 DEF HolderThere, HolderStays
<1> QED
  BY <1>2, <1>3, <1>4, <1>5

\* An operation leaves the queue.
LEMMA LeaveStays ==
  ASSUME TypeInv, queue # <<>>, NEW woke \in {<<>>, transactionWaiters},
         Leave(Operation, woke), UNCHANGED <<waiting, cancelRequested>>,
         \A s \in Sessions : activeRequest'[s] =>
           activeRequest[s] /\ (at[Operation] = "running" => Operation[1] # s)
  PROVE  CalmStays /\ MarksStay
<1>1. \A t \in SessionTask :
        t # Operation => at'[t] = at[t] \/ (at[t] \in Waits /\ at'[t] = "woken")
  BY LeaveMoves, TaskNames
<1>2. at'[Operation] = "done"
  BY LeaveMoves
<1>3. CalmStays
  BY <1>1, <1>2 DEF CalmStays, InQueue
<1>4. MarksStay
  BY <1>1 DEF MarksStay, Waits
<1> QED
  BY <1>3, <1>4

\* It is not the ROLLBACK of the holder.
LEMMA LeaveHolder ==
  ASSUME TypeInv, queue # <<>>, NEW woke \in {<<>>, transactionWaiters},
         Leave(Operation, woke), \A s \in Sessions : Operation # Closing(s),
         UNCHANGED <<transaction, inTransaction, life>>,
         engine = "closing" => engine' = "closing"
  PROVE  HolderStays
<1>1. transaction # None => transaction \in Sessions
  BY DEF TypeInv, Registers
<1>2. ASSUME transaction # None, at[Closing(transaction)] \in InQueue
      PROVE  at'[Closing(transaction)] \in InQueue
  <2>1. Closing(transaction) \in Task /\ Closing(transaction) # Operation
    BY <1>1, <1>2, TaskNames
  <2> QED
    BY <1>2, <2>1, LeaveMoves DEF Waits, InQueue
<1> QED
  BY <1>2 DEF HolderStays

\* The holder of the lock is not refused, and nobody has the turn but itself.
LEMMA HolderTakes ==
  ASSUME LocksInv, Orderly, TurnIsReleased, Releasable, ~quarantined,
         NEW t, NEW rest, Turner(t, rest), Alone(t), transaction = t[1]
  PROVE  ~TurnRefused(t) /\ ~HeldByTransaction(t) /\ ~HeldByTurn(t)
<1>1. t \in SessionTask /\ t[1] \in Sessions /\ t[1] # None /\ at[t] \in {"new", "woken"}
  BY TaskNames, SessionBridgeAssumption DEF Turner
<1>2. ~TurnRefused(t)
  BY <1>1 DEF TurnRefused, Releasable, HolderCalm
<1>3. ~HeldByTransaction(t)
  BY DEF HeldByTransaction, LocksInv, Matched, LockMatchesEngine
<1>4. ASSUME turnOwner # None
      PROVE  turnOwner = t[1]
  <2>1. PICK u \in ToSet(queue) : u[1] = turnOwner
    BY <1>4 DEF TurnIsReleased
  <2>2. u \in Task /\ at[u] \in InQueue /\ turnOwner \in Sessions
    BY <1>4 DEF LocksInv, TypeInv, Registers, Queues, Lists, Where
  <2>3. u \in SessionTask
    BY <2>1, <2>2, TaskNames
  <2> QED
    BY <1>1, <2>1, <2>2, <2>3 DEF Orderly, LockAllows
<1>5. ASSUME activeRequest[t[1]]
      PROVE  FALSE
  <2>1. PICK u \in SessionTask : u[1] = t[1] /\ at[u] = "running"
    BY <1>1, <1>5 DEF Releasable, RunningMarked
  <2>2. u = t
    BY <2>1 DEF Alone, InFlight
  <2> QED
    BY <1>1, <2>1, <2>2
<1> QED
  BY <1>2, <1>3, <1>4, <1>5 DEF HeldByTurn

\* Its task finds only scripts and backups in the queue.
LEMMA HolderRoom ==
  ASSUME QueueRoom, LocksInv, Orderly, NEW t, NEW rest, Turner(t, rest), Alone(t),
         transaction = t[1]
  PROVE  Len(queue) < QueueLimit
<1> DEFINE S == Script \cup Backup
<1>1. t \in SessionTask /\ t[1] \in Sessions /\ t[1] # None /\ at[t] \in {"new", "woken"}
  BY TaskNames, SessionBridgeAssumption DEF Turner
<1>2. queue \in Seq(Task) /\ Once(queue) /\ ToSet(queue) = Where(InQueue)
  BY DEF LocksInv, TypeInv, Queues, Lists
<1>3. ASSUME NEW u \in SessionTask, at[u] \in InQueue
      PROVE  FALSE
  <2>1. u[1] = t[1]
    BY <1>1, <1>3 DEF Orderly, LockAllows
  <2>2. u = t
    BY <1>3, <2>1 DEF Alone, InFlight, InQueue
  <2> QED
    BY <1>1, <1>3, <2>2 DEF InQueue
<1>4. \A i \in 1 .. Len(queue) : queue[i] \in S
  <2> SUFFICES ASSUME NEW i \in 1 .. Len(queue)
               PROVE  queue[i] \in S
    OBVIOUS
  <2>1. queue[i] \in ToSet(queue)
    BY <1>2 DEF ToSet
  <2> QED
    BY <1>2, <1>3, <2>1 DEF Where, Task
<1>5. Len(queue) \in Nat
  BY <1>2
<1>6. IsFiniteSet(S) /\ IsFiniteSet(1 .. Len(queue)) /\ Cardinality(1 .. Len(queue)) = Len(queue)
  <2>1. IsFiniteSet(S)
    BY DEF QueueRoom
  <2>2. /\ IsFiniteSet(1 .. Len(queue))
        /\ Cardinality(1 .. Len(queue)) = IF 1 > Len(queue) THEN 0 ELSE Len(queue) - 1 + 1
    BY <1>5, FS_Interval
  <2> QED
    BY <1>5, <2>1, <2>2
<1> HIDE DEF S
<1>7. PICK f : f \in Injection(1 .. Len(queue), S)
  <2> DEFINE f == [i \in 1 .. Len(queue) |-> queue[i]]
  <2>1. f \in [1 .. Len(queue) -> S]
    BY <1>4
  <2>2. \A i, j \in 1 .. Len(queue) : f[i] = f[j] => i = j
    BY <1>2 DEF Once
  <2>3. DOMAIN f = 1 .. Len(queue)
    OBVIOUS
  <2> HIDE DEF f
  <2> QED
    BY <2>1, <2>2, <2>3 DEF Injection, IsInjective
<1>8. Cardinality(1 .. Len(queue)) <= Cardinality(S)
  BY <1>6, <1>7, FS_Injection
<1>9. Cardinality(S) \in Nat
  BY <1>6, FS_CardinalityType
<1> QED
  BY <1>5, <1>6, <1>8, <1>9, SessionBridgeAssumption DEF QueueRoom, S

\* what a round of acquireTurn leaves of the marks of its session
LEMMA AcquireCalm ==
  ASSUME TypeInv, NEW t, NEW rest, NEW waits \in [Sessions -> BOOLEAN], Turner(t, rest),
         AcquireTurn(t, rest, waits), ~quarantined
  PROVE  /\ UNCHANGED <<inTransaction, activeRequest>>
         /\ \A s \in Sessions : s # t[1] => cancelRequested'[s] = cancelRequested[s]
         /\ at'[t] = "queued" => ~waiting'[t[1]] /\ ~cancelRequested'[t[1]]
         /\ ~TurnRefused(t) /\ ~HeldByTransaction(t) /\ ~HeldByTurn(t) /\ Len(queue) < QueueLimit
              => at'[t] = "queued"
<1>1. t \in Task /\ t[1] \in Sessions /\ at \in [Task -> Positions]
      /\ cancelRequested \in [Sessions -> BOOLEAN]
  BY TurnerMoves DEF TypeInv, Registers
<1>2. UNCHANGED <<inTransaction, activeRequest>>
  BY DEF AcquireTurn
<1>3. CASE Refused(t, rest, waits)
  <2>1. /\ cancelRequested' = [cancelRequested EXCEPT ![t[1]] = FALSE]
        /\ at' = [at EXCEPT ![t] = "done"] /\ TurnRefused(t)
    BY <1>3 DEF Refused
  <2> QED
    BY <1>1, <1>2, <2>1
<1>4. CASE WaitForTransaction(t, rest, waits) \/ WaitForTurn(t, rest, waits)
  <2>1. /\ UNCHANGED cancelRequested /\ at'[t] # "queued"
        /\ HeldByTransaction(t) \/ HeldByTurn(t)
    BY <1>1, <1>4 DEF WaitForTransaction, WaitForTurn
  <2> QED
    BY <1>2, <2>1
<1>5. CASE TakeTurn(t, rest, waits)
  <2>1. /\ UNCHANGED cancelRequested /\ ~cancelRequested[t[1]]
        /\ waiting' = [waits EXCEPT ![t[1]] = FALSE]
        /\ Len(queue) < QueueLimit => at' = [at EXCEPT ![t] = "queued"]
    BY <1>5 DEF TakeTurn, TurnRefused
  <2> QED
    BY <1>1, <1>2, <2>1
<1> QED
  BY <1>3, <1>4, <1>5 DEF AcquireTurn

\* A task takes part in acquireTurn.
LEMMA AcquireReleasable ==
  ASSUME QueueRoom, LocksInv, TurnIsReleased, Releasable,
         NEW t, NEW rest, NEW waits \in [Sessions -> BOOLEAN],
         Turner(t, rest), Fine => Alone(t), AcquireTurn(t, rest, waits),
         \A s \in Sessions : s # t[1] => waits[s] = waiting[s],
         \A s \in Sessions : s # t[1] /\ life[s] = "open" => life'[s] = "open",
         Fine => (t \in Request => life'[t[1]] = "open")
  PROVE  Releasable'
<1> SUFFICES ASSUME ~quarantined'
             PROVE  RunningMarked' /\ QueuedCalm' /\ HolderCalm' /\ HolderThere'
  BY DEF Releasable
<1>1. TypeInv /\ ~quarantined /\ Fine /\ Orderly /\ Alone(t) /\ (t \in Request => life'[t[1]] = "open")
  <2>1. quarantined => quarantined'
    BY AcquireEffects DEF LocksInv
  <2> QED
    BY <2>1 DEF LocksInv, Fine
<1>2. RunningMarked /\ QueuedCalm /\ HolderCalm /\ HolderThere
  BY <1>1 DEF Releasable
<1>3. /\ t \in SessionTask /\ t \in Task /\ t[1] \in Sessions /\ t[1] # None
      /\ at[t] \in {"new", "woken"} /\ SessionTask \subseteq Task
      /\ transaction \in Sessions \cup {None}
  BY <1>1, TurnerMoves, TaskNames, SessionBridgeAssumption DEF Turner, TypeInv, Registers
<1>4. \A u \in SessionTask : u # t => at'[u] = at[u] \/ (at[u] = "waitTurn" /\ at'[u] = "woken")
  BY <1>1, <1>3, AcquireMoves
<1>5. /\ UNCHANGED <<inTransaction, activeRequest, transaction>>
      /\ \A s \in Sessions : s # t[1] => /\ cancelRequested'[s] = cancelRequested[s]
                                         /\ waiting'[s] = waiting[s]
      /\ at'[t] = "queued" => ~waiting'[t[1]] /\ ~cancelRequested'[t[1]]
      /\ engine = "closing" => engine' = "closing"
  BY <1>1, AcquireCalm, AcquireEffects
<1>6. transaction = t[1] => at'[t] = "queued"
  BY <1>1, HolderTakes, HolderRoom, AcquireCalm
<1>7. RunningMarked'
  <2>1. ASSUME NEW u \in SessionTask, at[u] = "running"
        PROVE  at'[u] = "running"
    BY <1>3, <1>4, <2>1
  <2> QED
    BY <1>2, <1>5, <2>1 DEF RunningMarked
<1>8. QueuedCalm'
  <2> SUFFICES ASSUME NEW u \in SessionTask, at'[u] \in InQueue
               PROVE  ~waiting'[u[1]] /\ ~cancelRequested'[u[1]]
    BY DEF QueuedCalm
  <2>1. CASE u = t
    <3>1. at'[t] = "queued"
      BY <1>1, <2>1, AcquireMoves DEF InQueue
    <3> QED
      BY <1>5, <2>1, <3>1
  <2>2. CASE u # t
    <3>1. at[u] \in InQueue
      BY <1>4, <2>2 DEF InQueue
    <3>2. u[1] # t[1] /\ u[1] \in Sessions
      BY <1>1, <2>2, <3>1, TaskNames DEF Alone, InFlight, InQueue
    <3> QED
      BY <1>2, <1>5, <3>1, <3>2 DEF QueuedCalm
  <2> QED
    BY <2>1, <2>2
<1>9. CASE transaction = t[1]
  <2>1. at'[t] = "queued" /\ ~waiting'[t[1]] /\ ~cancelRequested'[t[1]]
    BY <1>5, <1>6, <1>9
  <2>2. HolderCalm'
    BY <1>2, <1>3, <1>5, <1>9, <2>1 DEF HolderCalm
  <2>3. t \in Request \/ t = Closing(t[1])
    BY <1>3 DEF SessionTask, Request, Closing
  <2>4. HolderThere'
    BY <1>1, <1>5, <1>9, <2>1, <2>3 DEF HolderThere, InQueue
  <2> QED
    BY <1>7, <1>8, <2>2, <2>4
<1>10. CASE transaction # t[1]
  <2>1. HolderCalm'
    BY <1>2, <1>3, <1>5, <1>10 DEF HolderCalm
  <2>2. ASSUME transaction # None, at[Closing(transaction)] \in InQueue
        PROVE  at'[Closing(transaction)] \in InQueue
    <3>1. Closing(transaction) \in SessionTask /\ Closing(transaction) # t
      BY <1>3, <1>10, <2>2, TaskNames DEF Closing
    <3> QED
      BY <1>4, <2>2, <3>1 DEF InQueue
  <2>3. HolderThere'
    BY <1>2, <1>3, <1>5, <1>10, <2>2 DEF HolderThere
  <2> QED
    BY <1>7, <1>8, <2>1, <2>3
<1> QED
  BY <1>9, <1>10

\* A session is closed that has nothing in flight.
LEMMA CloseReleasable ==
  ASSUME QueueRoom, LocksInv, TurnIsReleased, Releasable, woken = <<>>,
         NEW s \in Sessions, life[s] = "open", Fine => ~Busy(s),
         NEW how, CloseSession(s, how)
  PROVE  Releasable'
<1> DEFINE t == Closing(s)
<1>1. t \in SessionTask /\ t \in Task /\ at[t] = "new" /\ t[1] = s /\ t \notin Request
      /\ TypeInv
  <2>1. t \in SessionTask /\ t \in Task /\ at[t] = "new"
    BY TaskNames DEF LocksInv, TypeInv, Fresh
  <2>2. t[1] = s /\ t \notin Request
    BY DEF Closing, Request
  <2> QED
    BY <2>1, <2>2 DEF LocksInv
<1>2. life' = [life EXCEPT ![s] = how]
  BY DEF CloseSession
<1>3. \A r \in Sessions : r # s => life'[r] = life[r]
  BY <1>1, <1>2 DEF TypeInv, Registers
<1>4. Fine => Alone(t)
  <2>1. \A u \in SessionTask : u[1] = s => \E n \in 0 .. MaxRequests : u = <<s, n>>
    BY DEF SessionTask
  <2> QED
    BY <1>1, <2>1 DEF Busy, Alone
<1> HIDE DEF t
<1>5. CASE inTransaction[s]
  <2>1. AcquireTurn(t, <<>>, waiting) /\ Turner(t, <<>>) /\ waiting \in [Sessions -> BOOLEAN]
    BY <1>1, <1>5, Arrives DEF CloseSession, TypeInv, Registers, t
  <2> QED
    BY <1>1, <1>3, <1>4, <2>1, AcquireReleasable
<1>6. CASE ~inTransaction[s]
  <2>1. /\ at' = [at EXCEPT ![t] = "done"] /\ CloseEngineIfIdle
        /\ UNCHANGED <<inTransaction, waiting, activeRequest, cancelRequested, quarantined,
                       transaction>>
    BY <1>6 DEF CloseSession, t
  <2>2. at'[t] = "done" /\ \A u \in Task : u # t => at'[u] = at[u]
    BY <1>1, <2>1 DEF TypeInv, Registers
  <2>3. CalmStays /\ MarksStay
    BY <1>1, <2>1, <2>2, TaskNames DEF CalmStays, MarksStay, InQueue
  <2>4. CASE quarantined
    BY <2>1, <2>4 DEF Releasable
  <2>5. CASE ~quarantined
    <3>1. transaction # None => transaction # s /\ transaction \in Sessions
      BY <1>1, <1>6, <2>5 DEF Releasable, HolderCalm, TypeInv, Registers
    <3>2. transaction # None => at'[Closing(transaction)] = at[Closing(transaction)]
      <4>1. \A r \in Sessions : r # s => Closing(r) # t /\ Closing(r) \in Task
        BY TaskNames DEF Closing, t
      <4> QED
        BY <2>2, <3>1, <4>1
    <3>3. engine = "closing" => engine' = "closing"
      BY <2>1 DEF CloseEngineIfIdle
    <3>4. HolderStays
      BY <1>3, <2>1, <3>1, <3>2, <3>3 DEF HolderStays
    <3> QED
      BY <1>1, <2>1, <2>3, <3>4, ReleasableKept
  <2> QED
    BY <2>4, <2>5
<1> QED
  BY <1>5, <1>6

\* A script goes on.
LEMMA ScriptReleasable ==
  ASSUME TypeInv, Releasable, Operation \in Script, NEW p, at' = [at EXCEPT ![Operation] = p],
         UNCHANGED <<session, turns, queue, process>>
  PROVE  Releasable'
<1>1. Operation \notin SessionTask
  <2>1. Operation[1] \in Scripts
    BY DEF Script
  <2> QED
    BY <2>1, SessionBridgeAssumption, TaskNames
<1>2. \A u \in SessionTask : at'[u] = at[u]
  BY <1>1, TaskNames DEF TypeInv, Registers
<1>3. /\ transaction # None => transaction \in Sessions
      /\ UNCHANGED <<life, inTransaction, waiting, activeRequest, cancelRequested, quarantined,
                     engine, transaction>>
  BY DEF session, process, TypeInv, Registers
<1>4. CalmStays /\ MarksStay /\ HolderStays
  BY <1>2, <1>3, TaskNames DEF CalmStays, MarksStay, HolderStays
<1> QED
  BY <1>3, <1>4, ReleasableKept

LEMMA ClientsReleasable ==
  ASSUME Serial, QueueRoom, LocksInv, TurnIsReleased, Releasable, Clients
  PROVE  Releasable'
<1>1. TypeInv /\ (transaction # None => transaction \in Sessions)
  BY DEF LocksInv, TypeInv, Registers
<1>2. ASSUME NEW s \in Sessions, OpenSession(s)
      PROVE  Releasable'
  <2>1. /\ UNCHANGED <<inTransaction, waiting, activeRequest, cancelRequested, at, quarantined,
                       transaction>>
        /\ life[s] = "new" /\ engine # "closing"
        /\ \E where \in {"open", "opening"} : life' = [life EXCEPT ![s] = where]
    BY <1>2 DEF OpenSession, Serial
  <2>2. \A r \in Sessions : life[r] = "open" => life'[r] = "open"
    BY <1>1, <2>1 DEF TypeInv, Registers
  <2>3. CalmStays /\ MarksStay /\ HolderStays
    BY <1>1, <2>1, <2>2 DEF CalmStays, MarksStay, HolderStays
  <2> QED
    BY <1>1, <2>1, <2>3, ReleasableKept
<1>3. ASSUME NEW s \in Sessions, CloseRequest(s)
      PROVE  Releasable'
  <2>1. woken = <<>> /\ life[s] = "open" /\ ~Busy(s) /\ CloseSession(s, "closed")
    BY <1>3 DEF CloseRequest, Settled, Serial
  <2> QED
    BY <2>1, CloseReleasable
<1>4. ASSUME NEW s \in Sessions, Cancel(s)
      PROVE  Releasable'
  <2> DEFINE mine == {s} \X (0 .. MaxRequests)
             all == FoundWaiter(transactionWaiters, mine) \o FoundWaiter(turnWaiters, mine)
  <2>1. /\ at' = Places({}, all) /\ waiting[s]
        /\ cancelRequested' = [cancelRequested EXCEPT ![s] = TRUE]
        /\ UNCHANGED <<life, inTransaction, waiting, activeRequest, quarantined, engine,
                       transaction>>
    BY <1>4 DEF Cancel, process
  <2>2. ToSet(all) \subseteq {u \in Task : at[u] \in Waits}
    <3> HIDE DEF mine
    <3>1. PICK R \in SUBSET Where({"waitTransaction"}) : Lists(FoundWaiter(transactionWaiters, mine), R)
      BY ListsRemove DEF LocksInv, TypeInv, Queues
    <3>2. PICK T \in SUBSET Where({"waitTurn"}) : Lists(FoundWaiter(turnWaiters, mine), T)
      BY ListsRemove DEF LocksInv, TypeInv, Queues
    <3>3. R \cap T = {}
      BY DEF Where
    <3>4. Lists(all, R \cup T)
      BY <3>1, <3>2, <3>3, ListsConcat
    <3> QED
      BY <3>4 DEF Lists, Where, Waits
  <2> HIDE DEF all
  <2>3. \A u \in SessionTask : at'[u] = at[u] \/ (at[u] \in Waits /\ at'[u] = "woken")
    BY <2>1, <2>2, TaskNames DEF Places
  <2>4. \A r \in Sessions : r # s => cancelRequested'[r] = cancelRequested[r]
    BY <1>1, <2>1 DEF TypeInv, Registers
  <2> SUFFICES ASSUME ~quarantined'
               PROVE  RunningMarked' /\ QueuedCalm' /\ HolderCalm' /\ HolderThere'
    BY DEF Releasable
  <2>5. RunningMarked /\ QueuedCalm /\ HolderCalm /\ HolderThere
    BY <2>1 DEF Releasable
  <2>6. RunningMarked'
    BY <2>1, <2>3, <2>5 DEF RunningMarked, Waits
  <2>7. QueuedCalm'
    <3> SUFFICES ASSUME NEW u \in SessionTask, at'[u] \in InQueue
                 PROVE  ~waiting'[u[1]] /\ ~cancelRequested'[u[1]]
      BY DEF QueuedCalm
    <3>1. at[u] \in InQueue /\ u[1] \in Sessions
      BY <2>3, TaskNames DEF InQueue
    <3> QED
      BY <2>1, <2>4, <2>5, <3>1 DEF QueuedCalm
  <2>8. HolderCalm'
    BY <1>1, <2>1, <2>4, <2>5 DEF HolderCalm
  <2>9. HolderThere'
    BY <1>1, <2>1, <2>3, <2>5, TaskNames DEF HolderThere, InQueue, Waits
  <2> QED
    BY <2>6, <2>7, <2>8, <2>9
<1>5. ASSUME NEW t \in Task, SendRequest(t)
      PROVE  Releasable'
  <2>1. /\ t \in Request /\ t \in SessionTask /\ at[t] = "new" /\ life[t[1]] = "open"
        /\ woken = <<>> /\ ~Busy(t[1]) /\ life' = life /\ AcquireTurn(t, <<>>, waiting)
    BY <1>5, TaskNames DEF SendRequest, Settled, Serial
  <2>2. Turner(t, <<>>) /\ waiting \in [Sessions -> BOOLEAN]
    BY <1>1, <2>1, Arrives DEF TypeInv, Registers
  <2>3. Alone(t)
    <3>1. \A u \in SessionTask : \E n \in 0 .. MaxRequests : u = <<u[1], n>>
      BY DEF SessionTask
    <3> QED
      BY <2>1, <3>1 DEF Busy, Alone
  <2> QED
    BY <2>1, <2>2, <2>3, AcquireReleasable
<1>6. ASSUME NEW t \in Task, SendScript(t) \/ SendBackup(t)
      PROVE  Releasable'
  <2>1. t \in Script \cup Backup /\ Enqueue(t)
    BY <1>6 DEF SendScript, SendBackup
  <2>2. t \notin SessionTask
    <3>1. t[1] \in Scripts \cup Backups
      BY <2>1 DEF Script, Backup
    <3> QED
      BY <3>1, SessionBridgeAssumption, TaskNames
  <2>3. /\ UNCHANGED <<life, inTransaction, waiting, activeRequest, cancelRequested, quarantined,
                       engine, transaction>>
        /\ \A u \in SessionTask : at'[u] = at[u]
    BY <1>1, <2>1, <2>2, TaskNames DEF Enqueue, session, turns, process, TypeInv, Registers
  <2>4. CalmStays /\ MarksStay /\ HolderStays
    BY <1>1, <2>3, TaskNames DEF CalmStays, MarksStay, HolderStays
  <2> QED
    BY <1>1, <2>3, <2>4, ReleasableKept
<1> QED
  BY <1>2, <1>3, <1>4, <1>5, <1>6 DEF Clients

LEMMA TimersReleasable ==
  ASSUME QueueRoom, LocksInv, TurnIsReleased, Releasable, Timers
  PROVE  Releasable'
<1>1. ASSUME NEW s \in Sessions, IdleTimeout(s)
      PROVE  Releasable'
  <2>1. Settled /\ woken = <<>> /\ life[s] = "open" /\ ~Spared(s) /\ CloseSession(s, "reaped")
    BY <1>1 DEF IdleTimeout, Settled
  <2>2. Fine => ~Busy(s)
    BY <2>1, SparedIdle DEF LocksInv
  <2> QED
    BY <2>1, <2>2, CloseReleasable
<1>2. ASSUME NEW t \in SessionTask, WaitTimeout(t)
      PROVE  Releasable'
  <2>1. /\ at' = [at EXCEPT ![t] = "done"] /\ at[t] \in Waits /\ Throws(t)
        /\ UNCHANGED <<life, inTransaction, waiting, activeRequest, cancelRequested, transaction>>
    BY <1>2 DEF WaitTimeout, session, Waits
  <2>2. (quarantined => quarantined') /\ (engine = "closing" => engine' = "closing") /\ TypeInv
        /\ (transaction # None => transaction \in Sessions)
    BY <2>1 DEF Throws, CloseEngineIfIdle, LocksInv, TypeInv, Registers
  <2>3. \A u \in SessionTask : at'[u] = at[u] \/ (at[u] \in Waits /\ at'[u] = "done")
    BY <2>1, TaskNames DEF LocksInv, TypeInv, Registers
  <2>4. CalmStays /\ MarksStay /\ HolderStays
    BY <2>1, <2>2, <2>3, TaskNames DEF CalmStays, MarksStay, HolderStays, InQueue, Waits
  <2> QED
    BY <2>1, <2>2, <2>4, ReleasableKept
<1> QED
  BY <1>1, <1>2 DEF Timers

LEMMA BridgeReleasable ==
  ASSUME QueueRoom, LocksInv, TurnIsReleased, Releasable, Bridge
  PROVE  Releasable'
<1>1. TypeInv /\ (transaction # None => transaction \in Sessions)
  BY DEF LocksInv, TypeInv, Registers
<1>2. CASE Resume
  <2> DEFINE t == Head(woken)
             waits == [waiting EXCEPT ![t[1]] = FALSE]
  <2>1. Turner(t, Tail(woken)) /\ AcquireTurn(t, Tail(woken), waits) /\ life' = life
    BY <1>1, <1>2, Resumes DEF Resume
  <2>2. t \in SessionTask /\ at[t] = "woken" /\ t[1] \in Sessions
    <3>1. t \in Where({"woken"})
      BY <1>1, <1>2, ListsTail DEF Resume, TypeInv, Queues
    <3> QED
      BY <2>1, <3>1, TaskNames DEF Where, Turner
  <2>3. waits \in [Sessions -> BOOLEAN] /\ \A s \in Sessions : s # t[1] => waits[s] = waiting[s]
    BY <1>1, <2>2 DEF TypeInv, Registers
  <2> HIDE DEF t, waits
  <2>4. Fine => Alone(t)
    BY <2>2 DEF LocksInv, Orderly, OneInFlight, Alone, InFlight
  <2>5. Fine => (t \in Request => life'[t[1]] = "open")
    BY <2>1, <2>2 DEF LocksInv, Orderly, WorkOpen, InFlight
  <2> QED
    BY <2>1, <2>3, <2>4, <2>5, AcquireReleasable
<1>3. CASE Skip
  <2>1. /\ Leave(Operation, <<>>) /\ queue # <<>> /\ Throws(Operation) /\ at[Operation] = "queued"
        /\ quarantined \/ Operation \in Request
        /\ UNCHANGED <<life, inTransaction, waiting, activeRequest, cancelRequested, transaction>>
    BY <1>3 DEF Skip, Ready, session
  <2>2. (quarantined => quarantined') /\ (engine = "closing" => engine' = "closing")
    BY <2>1 DEF Throws, CloseEngineIfIdle
  <2>3. CASE quarantined
    BY <2>2, <2>3 DEF Releasable
  <2>4. CASE Operation \in Request
    <3>1. \A s \in Sessions : Operation # Closing(s)
      BY <2>4 DEF Request, Closing
    <3>2. CalmStays /\ MarksStay /\ HolderStays
      BY <1>1, <2>1, <2>2, <3>1, LeaveStays, LeaveHolder
    <3> QED
      BY <1>1, <2>2, <3>2, ReleasableKept
  <2> QED
    BY <2>1, <2>3, <2>4
<1>4. CASE Submit
  <2>1. /\ queue # <<>> /\ at[Operation] = "queued" /\ engine # "closing"
        /\ UNCHANGED <<life, inTransaction, waiting, cancelRequested, quarantined, transaction>>
        /\ \E p \in {"running", "starting"} :
             /\ at' = [at EXCEPT ![Operation] = p]
             /\ activeRequest' = IF p = "running" /\ Operation \in SessionTask
                                 THEN [activeRequest EXCEPT ![Operation[1]] = TRUE]
                                 ELSE activeRequest
    BY <1>4 DEF Submit, Ready
  <2>2. PICK p \in {"running", "starting"} :
          /\ at' = [at EXCEPT ![Operation] = p]
          /\ activeRequest' = IF p = "running" /\ Operation \in SessionTask
                              THEN [activeRequest EXCEPT ![Operation[1]] = TRUE]
                              ELSE activeRequest
    BY <2>1
  <2>3. Operation \in Task
    <3>1. Head(queue) \in Where(InQueue)
      BY <1>1, <2>1, ListsTail DEF TypeInv, Queues
    <3> QED
      BY <3>1 DEF Operation, Where
  <2>4. at'[Operation] = p /\ \A u \in Task : u # Operation => at'[u] = at[u]
    BY <1>1, <2>2, <2>3 DEF TypeInv, Registers
  <2> SUFFICES ASSUME ~quarantined'
               PROVE  RunningMarked' /\ QueuedCalm' /\ HolderCalm' /\ HolderThere'
    BY DEF Releasable
  <2>5. RunningMarked /\ QueuedCalm /\ HolderCalm /\ HolderThere
    BY <2>1 DEF Releasable
  <2>6. RunningMarked'
    <3> SUFFICES ASSUME NEW s \in Sessions, activeRequest'[s]
                 PROVE  \E u \in SessionTask : u[1] = s /\ at'[u] = "running"
      BY DEF RunningMarked
    <3>1. CASE activeRequest[s]
      <4>1. PICK u \in SessionTask : u[1] = s /\ at[u] = "running"
        BY <2>5, <3>1 DEF RunningMarked
      <4> QED
        BY <2>1, <2>4, <4>1, TaskNames
    <3>2. CASE ~activeRequest[s]
      <4>1. p = "running" /\ Operation \in SessionTask /\ Operation[1] = s
        BY <1>1, <2>2, <3>2, TaskNames DEF TypeInv, Registers
      <4> QED
        BY <2>4, <4>1
    <3> QED
      BY <3>1, <3>2
  <2>7. QueuedCalm'
    BY <2>1, <2>4, <2>5, TaskNames DEF QueuedCalm, InQueue
  <2>8. HolderCalm'
    BY <2>1, <2>5 DEF HolderCalm
  <2>9. HolderThere'
    BY <1>1, <2>1, <2>4, <2>5, TaskNames DEF HolderThere, InQueue
  <2> QED
    BY <2>6, <2>7, <2>8, <2>9
<1>5. CASE SubmitToClosing
  <2>1. /\ Leave(Operation, <<>>) /\ queue # <<>> /\ at[Operation] = "queued"
        /\ quarantined' = (quarantined \/ Operation \in SessionTask)
        /\ UNCHANGED <<life, inTransaction, waiting, activeRequest, cancelRequested, transaction,
                       engine>>
    BY <1>5 DEF SubmitToClosing, Ready, session
  <2>2. CASE Operation \in SessionTask
    BY <2>1, <2>2 DEF Releasable
  <2>3. CASE Operation \notin SessionTask
    <3>1. CalmStays /\ MarksStay /\ HolderStays
      BY <1>1, <2>1, <2>3, TaskNames, LeaveStays, LeaveHolder
    <3> QED
      BY <1>1, <2>1, <3>1, ReleasableKept
  <2> QED
    BY <2>2, <2>3
<1>6. CASE StartScript
  <2>1. Operation \in Script /\ at' = [at EXCEPT ![Operation] = "running"]
        /\ UNCHANGED <<session, turns, queue, process>>
    BY <1>6 DEF StartScript
  <2> QED
    BY <1>1, <2>1, ScriptReleasable
<1> QED
  BY <1>2, <1>3, <1>4, <1>5, <1>6 DEF Bridge

LEMMA AnswerReleasable ==
  ASSUME LocksInv, Releasable, NEW open \in BOOLEAN, NEW uncertain \in BOOLEAN,
         Answer(open, uncertain)
  PROVE  Releasable'
<1> DEFINE t == Operation
<1>1. /\ queue # <<>> /\ at[t] = "running" /\ t \notin Script
      /\ UNCHANGED <<life, waiting, cancelRequested>>
      /\ quarantined' = (quarantined \/ uncertain)
      /\ transaction' = IF ~open THEN None
                        ELSE IF transaction = None THEN t[1] ELSE transaction
      /\ (t[2] = 0 /\ open => uncertain)
      /\ (t \in Backup => (open <=> transaction # None))
  BY DEF Answer, Working
<1>2. t \in Task /\ (t \notin SessionTask => t \in Backup)
  <2>1. Head(queue) \in Where(InQueue)
    BY <1>1, ListsTail DEF LocksInv, TypeInv, Queues
  <2> QED
    BY <1>1, <2>1 DEF Where, Operation, Task
<1>3. PICK woke \in {<<>>, transactionWaiters} : Leave(t, woke)
  BY DEF Answer, TransactionWaitersOf
<1>4. TypeInv /\ (engine = "closing" => engine' = "closing")
  BY DEF Answer, Returns, CloseEngineIfIdle, LocksInv
<1>5. activeRequest' = IF t \in SessionTask THEN [activeRequest EXCEPT ![t[1]] = FALSE]
                       ELSE activeRequest
  BY DEF Answer
<1>6. \A s \in Sessions : activeRequest'[s] => activeRequest[s] /\ t[1] # s
  BY <1>2, <1>4, <1>5, TaskNames DEF TypeInv, Registers
<1>7. CalmStays /\ MarksStay
  BY <1>1, <1>3, <1>4, <1>6, LeaveStays
<1>8. CASE transaction' = None \/ quarantined'
  <2>1. quarantined' => Releasable'
    BY DEF Releasable
  <2> QED
    BY <1>1, <1>4, <1>7, <1>8, <2>1, ReleasableKept
<1>9. CASE t \notin SessionTask /\ transaction' # None
  <2>1. UNCHANGED <<inTransaction, transaction>>
    BY <1>1, <1>2, <1>9 DEF Answer
  <2>2. HolderStays
    BY <1>1, <1>3, <1>4, <1>9, <2>1, TaskNames, LeaveHolder
  <2> QED
    BY <1>1, <1>4, <1>7, <2>2, ReleasableKept
<1>10. CASE t \in SessionTask /\ transaction' # None /\ ~quarantined'
  <2>1. open /\ ~uncertain /\ ~quarantined /\ t \in Request /\ t[1] \in Sessions
    <3>1. open /\ ~uncertain /\ ~quarantined /\ t[2] # 0
      BY <1>1, <1>10
    <3> QED
      BY <1>10, <3>1, TaskNames DEF SessionTask, Request
  <2>2. transaction' = t[1]
    BY <1>1, <1>10, <2>1 DEF LocksInv, Matched, TransactionExclusive
  <2>3. Orderly /\ RunningMarked /\ QueuedCalm
    BY <2>1 DEF LocksInv, Fine, Releasable
  <2>4. life'[t[1]] = "open"
    BY <1>1, <2>1, <2>3 DEF Orderly, WorkOpen, InFlight
  <2>5. ~waiting'[t[1]] /\ ~cancelRequested'[t[1]]
    BY <1>1, <1>10, <2>3 DEF QueuedCalm, InQueue
  <2>6. inTransaction'[t[1]]
    <3>1. inTransaction' = [inTransaction EXCEPT ![t[1]] = open]
      BY <1>10 DEF Answer, ApplyTransactionResult
    <3> QED
      BY <1>4, <2>1, <3>1 DEF TypeInv, Registers
  <2>7. RunningMarked' /\ QueuedCalm'
    <3>1. RunningMarked'
      BY <1>7, <2>3 DEF RunningMarked, MarksStay
    <3>2. QueuedCalm'
      BY <1>7, <2>3 DEF QueuedCalm, CalmStays
    <3> QED
      BY <3>1, <3>2
  <2>8. HolderCalm' /\ HolderThere'
    BY <2>2, <2>4, <2>5, <2>6 DEF HolderCalm, HolderThere
  <2> QED
    BY <2>7, <2>8 DEF Releasable
<1> QED
  BY <1>8, <1>9, <1>10

\* The engine comes up: it has no transaction yet.
LEMMA EngineReleasable ==
  ASSUME LocksInv, Releasable, EngineReady \/ EngineRefused
  PROVE  Releasable'
<1>1. TypeInv /\ transaction' = None /\ (quarantined => quarantined')
  <2>1. engine = "opening" /\ transaction' = transaction /\ (quarantined => quarantined')
    BY DEF EngineReady, EngineRefused
  <2> QED
    BY <2>1 DEF LocksInv, Matched, NoEngineNoTransaction
<1>2. CASE EngineReady
  <2>1. /\ at' = [t \in Task |-> IF at[t] = "starting" THEN "running" ELSE at[t]]
        /\ activeRequest' = [s \in Sessions |-> \/ activeRequest[s]
                               \/ \E n \in 0 .. MaxRequests : at[<<s, n>>] = "starting"]
        /\ UNCHANGED <<waiting, cancelRequested, quarantined>>
    BY <1>2 DEF EngineReady
  <2> SUFFICES ASSUME ~quarantined'
               PROVE  RunningMarked' /\ QueuedCalm' /\ HolderCalm' /\ HolderThere'
    BY DEF Releasable
  <2>2. RunningMarked /\ QueuedCalm
    BY <2>1 DEF Releasable
  <2>3. \A u \in SessionTask : at'[u] = IF at[u] = "starting" THEN "running" ELSE at[u]
    BY <2>1, TaskNames
  <2>4. RunningMarked'
    <3> SUFFICES ASSUME NEW s \in Sessions, activeRequest'[s]
                 PROVE  \E u \in SessionTask : u[1] = s /\ at'[u] = "running"
      BY DEF RunningMarked
    <3>1. CASE activeRequest[s]
      BY <2>2, <2>3, <3>1 DEF RunningMarked
    <3>2. CASE \E n \in 0 .. MaxRequests : at[<<s, n>>] = "starting"
      <4>1. PICK n \in 0 .. MaxRequests : at[<<s, n>>] = "starting"
        BY <3>2
      <4>2. <<s, n>> \in SessionTask
        BY DEF SessionTask
      <4>3. at'[<<s, n>>] = "running"
        BY <2>3, <4>1, <4>2
      <4> QED
        BY <4>2, <4>3
    <3> QED
      BY <2>1, <3>1, <3>2
  <2>5. QueuedCalm'
    BY <2>1, <2>2, <2>3 DEF QueuedCalm, InQueue
  <2>6. HolderCalm' /\ HolderThere'
    BY <1>1 DEF HolderCalm, HolderThere
  <2> QED
    BY <2>4, <2>5, <2>6
<1>3. CASE EngineRefused
  <2>1. UNCHANGED <<waiting, cancelRequested, activeRequest>>
    BY <1>3 DEF EngineRefused
  <2>2. CASE queue # <<>> /\ at[Operation] = "starting"
    <3>1. Leave(Operation, <<>>)
      BY <1>3, <2>2 DEF EngineRefused
    <3>2. CalmStays /\ MarksStay
      BY <1>1, <2>1, <2>2, <3>1, LeaveStays
    <3> QED
      BY <1>1, <3>2, ReleasableKept
  <2>3. CASE ~(queue # <<>> /\ at[Operation] = "starting")
    <3>1. UNCHANGED at
      BY <1>3, <2>3 DEF EngineRefused
    <3>2. CalmStays /\ MarksStay
      BY <2>1, <3>1 DEF CalmStays, MarksStay
    <3> QED
      BY <1>1, <3>2, ReleasableKept
  <2> QED
    BY <2>2, <2>3
<1> QED
  BY <1>2, <1>3

\* The engine ends, and its transaction with it.
LEMMA EndReleasable ==
  ASSUME LocksInv, Releasable, EngineClosed \/ EngineDies
  PROVE  Releasable'
<1>1. /\ transaction' = None /\ TypeInv /\ (quarantined => quarantined')
      /\ UNCHANGED <<waiting, cancelRequested>>
      /\ \E ended : ClearAllSessions(ended)
      /\ \/ activeRequest' = [s \in Sessions |-> FALSE]
         \/ activeRequest' = activeRequest /\ ClearAllSessions({})
  BY DEF EngineClosed, EngineDies, LocksInv, TypeInv, Registers
<1>2. PICK ended : ClearAllSessions(ended)
  BY <1>1
<1>3. ToSet(transactionWaiters \o turnWaiters) \subseteq {u \in Task : at[u] \in Waits}
  <2>1. Lists(transactionWaiters \o turnWaiters,
              Where({"waitTransaction"}) \cup Where({"waitTurn"}))
    <3>1. Where({"waitTransaction"}) \cap Where({"waitTurn"}) = {}
      BY DEF Where
    <3> QED
      BY <1>1, <3>1, ListsConcat DEF TypeInv, Queues
  <2> QED
    BY <2>1 DEF Lists, Where, Waits
<1>4. ASSUME NEW gone, ClearAllSessions(gone), NEW u \in SessionTask
      PROVE  \/ at'[u] = at[u] \/ (at[u] \in Waits /\ at'[u] = "woken")
             \/ u \in gone /\ at'[u] = "done"
  BY <1>3, <1>4, TaskNames DEF ClearAllSessions, Places
<1>5. CalmStays
  BY <1>1, <1>2, <1>4 DEF CalmStays, InQueue
<1>6. MarksStay
  <2>1. CASE activeRequest' = [s \in Sessions |-> FALSE]
    BY <2>1 DEF MarksStay
  <2>2. CASE activeRequest' = activeRequest /\ ClearAllSessions({})
    BY <2>2, <1>4 DEF MarksStay, Waits
  <2> QED
    BY <1>1, <2>1, <2>2
<1> QED
  BY <1>1, <1>5, <1>6, ReleasableKept

LEMMA ScriptsReleasable ==
  ASSUME LocksInv, Releasable, ScriptLocks \/ ScriptRefused \/ ScriptDone \/ ScriptFails
  PROVE  Releasable'
<1>1. CASE ScriptLocks
  BY <1>1, ScriptReleasable DEF ScriptLocks, Scripting, LocksInv
<1>2. CASE ScriptRefused \/ ScriptFails
  BY <1>2 DEF ScriptRefused, ScriptFails, Releasable
<1>3. CASE ScriptDone
  <2>1. /\ Leave(Operation, <<>>) /\ queue # <<>> /\ Operation \in Script
        /\ at[Operation] = "locked"
        /\ UNCHANGED <<life, inTransaction, waiting, activeRequest, cancelRequested, quarantined,
                       engine, transaction>>
    BY <1>3 DEF ScriptDone, Scripting, session, process
  <2>2. Operation \notin SessionTask
    <3>1. Operation[1] \in Scripts
      BY <2>1 DEF Script
    <3> QED
      BY <3>1, SessionBridgeAssumption, TaskNames
  <2>3. CalmStays /\ MarksStay /\ HolderStays
    BY <2>1, <2>2, TaskNames, LeaveStays, LeaveHolder DEF LocksInv
  <2> QED
    BY <2>1, <2>3, ReleasableKept DEF LocksInv
<1> QED
  BY <1>1, <1>2, <1>3

LEMMA StepReleasable ==
  ASSUME Serial, QueueRoom
  PROVE  LocksInv /\ TurnIsReleased /\ Releasable /\ [Next]_vars => Releasable'
<1> SUFFICES ASSUME LocksInv, TurnIsReleased, Releasable, [Next]_vars
             PROVE  Releasable'
  OBVIOUS
<1>1. ASSUME UNCHANGED vars
      PROVE  Releasable'
  <2>1. UNCHANGED <<life, inTransaction, waiting, activeRequest, cancelRequested, at,
                    quarantined, engine, transaction>>
    BY <1>1 DEF vars, session, process
  <2>2. CalmStays /\ MarksStay /\ HolderStays
    BY <2>1 DEF CalmStays, MarksStay, HolderStays
  <2> QED
    BY <2>1, <2>2, ReleasableKept DEF LocksInv
<1>2. ASSUME Processes
      PROVE  Releasable'
  BY <1>2, AnswerReleasable, EngineReleasable, EndReleasable, ScriptsReleasable DEF Processes
<1> QED
  BY <1>1, <1>2, ClientsReleasable, TimersReleasable, BridgeReleasable, EndReleasable
  DEF Next, Finished

LEMMA InitReleasable == Init => Releasable
  BY DEF Init, Releasable, RunningMarked, QueuedCalm, HolderCalm, HolderThere, InQueue, Task

\* Whoever holds the transaction lock can give it back: its session is there,
\* or its ROLLBACK is under way, or the engine is about to go (closeSession).
\* The queue must take the scripts and backups of clients and one task more: a
\* ROLLBACK that finds the queue full is refused, and the lock stays with a
\* session that is gone.
THEOREM HolderReleases ==
  ASSUME Serial, QueueRoom
  PROVE  Spec => []LockHolderCanRelease
<1>1. Init => Releasable
  BY InitReleasable
<1>2. LocksInv /\ TurnIsReleased /\ Releasable /\ [Next]_vars => Releasable'
  BY StepReleasable
<1>3. LocksInv /\ Releasable => LockHolderCanRelease
  BY DEF LocksInv, Matched, LockMatchesEngine, Releasable, HolderThere, LockHolderCanRelease,
         InFlight, InQueue
<1> QED
  BY <1>1, <1>2, <1>3, Locks, TurnReleased, PTL DEF Spec

=============================================================================
