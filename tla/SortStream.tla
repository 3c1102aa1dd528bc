----------------------------- MODULE SortStream -----------------------------
(***************************************************************************)
(* The external sort of a query and what consumes it: rows are pulled into *)
(* a buffer, spilled to sorted runs when the row budget or the memory      *)
(* budget of the query is reached, merged group by group until few enough  *)
(* runs are left, and served row by row; DISTINCT, GROUP BY and LIMIT read *)
(* the sorted rows as they come.  A query that fails, is cancelled or is   *)
(* closed early gives everything back.                                     *)
(*                                                                         *)
(* A row is [key, tag, size]: the value compared, its place in the input   *)
(* (rows of one key keep their order) and its bytes, in memory and on disk.*)
(***************************************************************************)
EXTENDS Integers, Sequences, FiniteSets, SequencesExt, FiniteSetsExt, TLC

CONSTANTS
    Inputs,       \* the row sequences the child may produce
    Consumers,    \* records [kind, offset, limit] of what reads the sorted rows
    MaxRows,      \* sortMemoryRows_: rows held before a run is written
    MemLimit,     \* memory budget of the query
    DiskLimit,    \* temporary disk budget of the query
    MergeWidth,   \* memory budget divided by 512
    CountWidth,   \* LIMIT and OFFSET are unsigned numbers below this one
    None

\* What the constants have to be.
SortAssumption ==
    /\ MaxRows \in Nat \ {0} /\ MemLimit \in Nat \ {0} /\ DiskLimit \in Nat \ {0}
    /\ MergeWidth \in Nat /\ CountWidth \in Nat \ {0}
    /\ \A c \in Consumers : c.kind \in {"rows", "distinct", "groups", "total", "limit"}

VARIABLES
    consumer, input,
    pos,      \* rows pulled from the child
    buffer,   \* memoryRows
    runs,     \* files written, each a sorted sequence
    merged,   \* files the current pass over the runs has written
    heads,    \* per run, how many of its rows were taken by the final merge
    taken,    \* rows taken from the sorted stream
    result,   \* rows given to the client
    group,    \* the group being accumulated, or None
    mem, disk, files,
    phase

vars == <<consumer, input, pos, buffer, runs, merged, heads, taken, result, group,
          mem, disk, files, phase>>

-----------------------------------------------------------------------------
(* Order and sizes *)

\* mutant: of rows of one key the one of the later run comes first
MutEarlier(a, b) ==
    \/ a.row.key < b.row.key
    \/ a.row.key = b.row.key /\ (a.run > b.run \/ (a.run = b.run /\ a.sequence < b.sequence))

\* compare, and the tie-break by run and by sequence within the run.
Earlier(a, b) ==
    \/ a.row.key < b.row.key
    \/ a.row.key = b.row.key /\ (a.run < b.run \/ (a.run = b.run /\ a.sequence < b.sequence))

Precedes(a, b) == a.key < b.key \/ (a.key = b.key /\ a.tag < b.tag)

StableSort(rows) == SortSeq(rows, Precedes)

\* Rows of a group of runs with where they come from, in the order they are popped.
Popped(source) ==
    SortSeq(FlattenSeq([r \in DOMAIN source |->
                [k \in DOMAIN source[r] |-> [row |-> source[r][k], run |-> r, sequence |-> k]]]),
            Earlier)

Merged(source) == [k \in DOMAIN Popped(source) |-> Popped(source)[k].row]

\* externalSort: the sort of rows already in memory, by runs of the row budget.
ExternalSort(rows) ==
    IF Len(rows) <= MaxRows THEN StableSort(rows)
    ELSE Merged([r \in 1..((Len(rows) + MaxRows - 1) \div MaxRows) |->
             StableSort(SubSeq(rows, (r - 1) * MaxRows + 1, Min({r * MaxRows, Len(rows)})))])

Bytes(rows) == FoldLeft(LAMBDA n, r : n + r.size, 0, rows)
AllBytes(source) == FoldLeft(LAMBDA n, run : n + Bytes(run), 0, source)

\* Bytes of the rows at the front of every run once the given numbers were taken.
HeadBytes(source, at) ==
    MapThenSumSet(LAMBDA r : IF at[r] < Len(source[r]) THEN source[r][at[r] + 1].size ELSE 0,
                  DOMAIN source)

\* The fronts of the runs fit in memory at every step of a merge.
MergeFits(source) ==
    \A n \in 0..Len(Popped(source)) :
        HeadBytes(source, [r \in DOMAIN source |->
            Cardinality({k \in 1..n : Popped(source)[k].run = r})]) <= MemLimit

\* mutant: a group may be of a single run
MutFanIn == Max({1, Min({32, MergeWidth})})

FanIn == Max({2, Min({32, MergeWidth})})

\* pushTopNIntoSort: how many rows the sort has to keep below a LIMIT.
TopN ==
    IF consumer.kind = "limit" /\ consumer.limit # None
       /\ (consumer.limit + consumer.offset) % CountWidth # 0
    THEN (consumer.limit + consumer.offset) % CountWidth ELSE None

\* What the child gives: the aggregate of a whole table reads one key, and one
\* record without a value (tag 0) when the table is empty.
Fed ==
    CASE consumer.kind # "total" -> input
      [] input = << >> -> <<[key |-> 0, tag |-> 0, size |-> 1]>>
      [] OTHER -> [k \in DOMAIN input |-> [input[k] EXCEPT !.key = 0]]

Init ==
    /\ consumer \in Consumers /\ input \in Inputs
    /\ pos = 0 /\ taken = 0
    /\ buffer = << >> /\ runs = << >> /\ merged = << >> /\ heads = << >> /\ result = << >>
    /\ group = None
    /\ mem = 0 /\ disk = 0 /\ files = 0
    /\ phase = "filling"

-----------------------------------------------------------------------------
(* prepare: filling the buffer *)

\* A LIMIT that is reached asks for nothing more.
Reached == consumer.kind = "limit" /\ consumer.limit # None /\ Len(result) >= consumer.limit

Pulling == phase = "filling" /\ pos < Len(Fed) /\ ~Reached
Row == Fed[pos + 1]

MustSpill == buffer # << >> /\ (Len(buffer) >= MaxRows \/ mem + Row.size > MemLimit)

WriteRun ==
    /\ disk + Bytes(buffer) <= DiskLimit
    /\ runs' = Append(runs, StableSort(buffer))
    /\ disk' = disk + Bytes(buffer) /\ files' = files + 1
    /\ mem' = mem - Bytes(buffer) /\ buffer' = << >>
    /\ UNCHANGED <<consumer, input, pos, merged, heads, taken, result, group>>

Spill ==
    /\ Pulling /\ TopN = None /\ MustSpill
    /\ WriteRun
    /\ UNCHANGED phase

Hold ==
    /\ Pulling /\ mem + Row.size <= MemLimit
    /\ IF TopN = None THEN ~MustSpill ELSE Len(buffer) < TopN
    /\ buffer' = Append(buffer, Row) /\ mem' = mem + Row.size
    /\ pos' = pos + 1
    /\ UNCHANGED <<consumer, input, runs, merged, heads, taken, result, group, disk, files, phase>>

\* prepareTopN: the worst row held gives way to an earlier one.  The new row is
\* paid for before the old one is given back.
Worst == CHOOSE i \in DOMAIN buffer : \A j \in DOMAIN buffer : ~Precedes(buffer[i], buffer[j])

Full == Pulling /\ TopN # None /\ Len(buffer) >= TopN

\* mutant: the row that gives way is not given back
MutKeepBetter ==
    /\ Full /\ Precedes(Row, buffer[Worst])
    /\ mem + Row.size <= MemLimit
    /\ buffer' = [buffer EXCEPT ![Worst] = Row]
    /\ mem' = mem + Row.size
    /\ pos' = pos + 1
    /\ UNCHANGED <<consumer, input, runs, merged, heads, taken, result, group, disk, files, phase>>

KeepBetter ==
    /\ Full /\ Precedes(Row, buffer[Worst])
    /\ mem + Row.size <= MemLimit
    /\ buffer' = [buffer EXCEPT ![Worst] = Row]
    /\ mem' = mem + Row.size - buffer[Worst].size
    /\ pos' = pos + 1
    /\ UNCHANGED <<consumer, input, runs, merged, heads, taken, result, group, disk, files, phase>>

Discard ==
    /\ Full /\ ~Precedes(Row, buffer[Worst])
    /\ Row.size <= MemLimit
    /\ pos' = pos + 1
    /\ UNCHANGED <<consumer, input, buffer, runs, merged, heads, taken, result, group,
                   mem, disk, files, phase>>

AllPulled == phase = "filling" /\ pos = Len(Fed) /\ ~Reached

SortInMemory ==
    /\ AllPulled /\ runs = << >>
    /\ buffer' = StableSort(buffer)
    /\ phase' = "serving"
    /\ UNCHANGED <<consumer, input, pos, runs, merged, heads, taken, result, group, mem, disk, files>>

SpillLast ==
    /\ AllPulled /\ runs # << >>
    /\ WriteRun
    /\ phase' = "reducing"

-----------------------------------------------------------------------------
(* reduceRuns and openRuns *)

Group == SubSeq(runs, 1, Min({FanIn, Len(runs)}))

MergeGroup ==
    /\ phase = "reducing" /\ (Len(runs) > FanIn \/ merged # << >>)
    /\ MergeFits(Group) /\ disk + AllBytes(Group) <= DiskLimit
    /\ LET rest == SubSeq(runs, Len(Group) + 1, Len(runs))
           done == Append(merged, Merged(Group))
       IN /\ runs' = IF rest = << >> THEN done ELSE rest
          /\ merged' = IF rest = << >> THEN << >> ELSE done
    /\ files' = files + 1 - Len(Group)
    /\ UNCHANGED <<consumer, input, pos, buffer, heads, taken, result, group, mem, disk, phase>>

OpenRuns ==
    /\ phase = "reducing" /\ Len(runs) <= FanIn /\ merged = << >>
    /\ heads' = [r \in DOMAIN runs |-> 0]
    /\ mem + HeadBytes(runs, heads') <= MemLimit
    /\ mem' = mem + HeadBytes(runs, heads')
    /\ phase' = "serving"
    /\ UNCHANGED <<consumer, input, pos, buffer, runs, merged, taken, result, group, disk, files>>

-----------------------------------------------------------------------------
(* next: one sorted row, and the operator that reads it *)

External == runs # << >>
Open == {r \in DOMAIN heads : heads[r] < Len(runs[r])}
Cursor(r) == [row |-> runs[r][heads[r] + 1], run |-> r, sequence |-> heads[r]]
First == CHOOSE r \in Open : \A q \in Open \ {r} : Earlier(Cursor(r), Cursor(q))

More == IF External THEN Open # {} ELSE taken < Len(buffer)
Sorted == IF External THEN Cursor(First).row ELSE buffer[taken + 1]

\* DistinctRowStream, GroupedAggregateRowStream, LimitRowStream.
Started(row) == [key |-> row.key, values |-> IF row.tag = 0 THEN << >> ELSE <<row.tag>>]

Consume(row) ==
    CASE consumer.kind = "rows" -> result' = Append(result, row) /\ UNCHANGED group
      [] consumer.kind = "limit" ->
            /\ result' = IF taken < consumer.offset THEN result ELSE Append(result, row)
            /\ UNCHANGED group
      [] consumer.kind = "distinct" ->
            /\ result' = IF group # None /\ group.key = row.key THEN result ELSE Append(result, row)
            /\ group' = row
      [] OTHER ->
            IF group # None /\ group.key = row.key
            THEN group' = [group EXCEPT !.values = Append(@, row.tag)] /\ UNCHANGED result
            ELSE /\ result' = IF group = None THEN result ELSE Append(result, group)
                 /\ group' = Started(row)

Take ==
    /\ phase = "serving" /\ More /\ ~Reached
    /\ Consume(Sorted)
    /\ taken' = taken + 1
    /\ IF External
       THEN /\ heads' = [heads EXCEPT ![First] = @ + 1]
            /\ mem - HeadBytes(runs, heads) + HeadBytes(runs, heads') <= MemLimit
            /\ mem' = mem - HeadBytes(runs, heads) + HeadBytes(runs, heads')
       ELSE UNCHANGED <<heads, mem>>
    /\ UNCHANGED <<consumer, input, pos, buffer, runs, merged, disk, files, phase>>

Finish ==
    /\ phase \in {"filling", "serving"}
    /\ Reached \/ (phase = "serving" /\ ~More)
    /\ result' = IF consumer.kind \in {"groups", "total"} /\ group # None
                 THEN Append(result, group) ELSE result
    /\ phase' = "done"
    /\ UNCHANGED <<consumer, input, pos, buffer, runs, merged, heads, taken, group, mem, disk, files>>

-----------------------------------------------------------------------------
(* Failing and closing *)

OverBudget ==
    CASE Pulling -> IF TopN = None /\ MustSpill THEN disk + Bytes(buffer) > DiskLimit
                    ELSE IF Full /\ ~Precedes(Row, buffer[Worst]) THEN Row.size > MemLimit
                    ELSE mem + Row.size > MemLimit
      [] AllPulled -> runs # << >> /\ disk + Bytes(buffer) > DiskLimit
      [] phase = "reducing" ->
            IF Len(runs) <= FanIn /\ merged = << >>
            THEN mem + HeadBytes(runs, [r \in DOMAIN runs |-> 0]) > MemLimit
            ELSE ~MergeFits(Group) \/ disk + AllBytes(Group) > DiskLimit
      [] phase = "serving" ->
            /\ External /\ More /\ ~Reached
            /\ mem - HeadBytes(runs, heads)
               + HeadBytes(runs, [heads EXCEPT ![First] = @ + 1]) > MemLimit
      [] OTHER -> FALSE

\* The exception unwinds what the call owned: the files of an unfinished pass.
Unwind ==
    /\ phase' = "failed"
    /\ merged' = << >>
    /\ disk' = disk - AllBytes(merged) /\ files' = files - Len(merged)
    /\ UNCHANGED <<consumer, input, pos, buffer, runs, heads, taken, result, group, mem>>

Refuse == OverBudget /\ Unwind

\* The child, the file system or a cancellation fails the call in progress.
Fails == phase \in {"filling", "reducing", "serving"} /\ Unwind

Held == Bytes(buffer) + (IF heads = << >> THEN 0 ELSE HeadBytes(runs, heads))

\* The end of the query, or a client that leaves between two rows.
Close ==
    /\ phase \in {"serving", "done", "failed"}
    /\ mem' = mem - Held
    /\ disk' = disk - AllBytes(runs) /\ files' = files - Len(runs)
    /\ buffer' = << >> /\ runs' = << >> /\ heads' = << >> /\ group' = None
    /\ phase' = "closed"
    /\ UNCHANGED <<consumer, input, pos, merged, taken, result>>

Step ==
    \/ Spill \/ Hold \/ KeepBetter \/ Discard \/ SortInMemory \/ SpillLast
    \/ MergeGroup \/ OpenRuns \/ Take \/ Finish \/ Refuse

Idle == phase = "closed" /\ UNCHANGED vars

Next == Step \/ Fails \/ Close \/ Idle

Spec == Init /\ [][Next]_vars

\* One thread runs the query to its end, and its stream is closed by its owner.
FairSpec == Spec /\ WF_vars(Step) /\ WF_vars(phase \in {"done", "failed"} /\ Close)

-----------------------------------------------------------------------------
(* Properties *)

\* Every variable has its type.
TypeOK ==
    /\ pos \in 0..Len(Fed) /\ taken \in 0..Len(Fed)
    /\ mem \in 0..MemLimit /\ disk \in 0..DiskLimit /\ files \in Nat
    /\ phase \in {"filling", "reducing", "serving", "done", "failed", "closed"}

\* The rows the query promises, whatever the budgets.
Expected ==
    LET s == StableSort(Fed)
        head(k) == \A j \in 1..(k - 1) : s[j].key # s[k].key
        firsts == SelectSeq([k \in DOMAIN s |-> k], head)
        tags(key) == SelectSeq([k \in DOMAIN s |-> s[k].tag],
                               LAMBDA t : t # 0 /\ \E k \in DOMAIN s : s[k].tag = t /\ s[k].key = key)
    IN CASE consumer.kind = "rows" -> s
         [] consumer.kind = "distinct" -> [k \in DOMAIN firsts |-> s[firsts[k]]]
         [] consumer.kind = "limit" ->
                SubSeq(s, consumer.offset + 1,
                       IF consumer.limit = None THEN Len(s)
                       ELSE Min({Len(s), consumer.offset + consumer.limit}))
         [] OTHER -> [k \in DOMAIN firsts |->
                        [key |-> s[firsts[k]].key, values |-> tags(s[firsts[k]].key)]]

\* The client reads a prefix of the rows the query promises, and all of them
\* before the query ends: the budgets decide how the rows are sorted (in memory,
\* by runs, by several passes, by keeping the best) and never what is answered.
ServesTheQuery ==
    /\ IsPrefix(result, Expected)
    /\ phase = "done" => result = Expected
    /\ phase = "done" /\ consumer.kind = "rows" => result = ExternalSort(input)

\* Memory, disk and files are accounted for exactly the rows and runs held, and
\* nothing is left once the query is closed, however it ended.
NothingLeaks ==
    /\ mem = Held
    /\ disk = AllBytes(runs) + AllBytes(merged)
    /\ files = Len(runs) + Len(merged)
    /\ phase = "closed" => mem = 0 /\ disk = 0 /\ files = 0

\* A query comes to its end: every pass over the runs leaves fewer of them.
StreamEnds == <>(phase = "closed")
=============================================================================
