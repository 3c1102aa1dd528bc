----------------------------- MODULE MCQueries ------------------------------
(***************************************************************************)
(* Small instances of the parts that answer a SELECT: the optimizer, the   *)
(* external sort with what consumes it, and the join.  They share no       *)
(* variable here: a behaviour is one of the part that subject names, and   *)
(* the others rest in their initial states.                                *)
(***************************************************************************)
EXTENDS Optimizer, MCPlans

CONSTANTS
    None,
    Subjects,            \* the parts of the run
    Inputs, Consumers,   \* of the sort
    Lefts, Rights        \* of the join

VARIABLES
    subject,
    consumer, input, pos, buffer, runs, merged, heads, taken, result, group,
    mem, temp, files, phase,                              \* SortStream
    kind, left, right, read, held, spool, hashing, buckets, parts, active, at,
    cursor, matched, joined, joinMem, joinDisk, joinPhase  \* JoinStream

-----------------------------------------------------------------------------
\* Two rows are sorted in memory; three need runs, and six a pass over the runs.
\* The third one is twice as long.
SortRow(k, t) == [key |-> k, tag |-> t, size |-> IF t = 3 THEN 2 ELSE 1]
MCInputs ==
    UNION {{[i \in 1..n |-> SortRow(keys[i], i)] : keys \in [1..n -> 1..2]} : n \in {0, 1, 3, 6}}
MCConsumers ==
    {[kind |-> k, offset |-> 0, limit |-> None] : k \in {"rows", "distinct", "groups", "total"}}
    \cup {[kind |-> "limit", offset |-> o, limit |-> l] : o \in 0..1, l \in {0, 2, None}}

Sorting == INSTANCE SortStream WITH
    MaxRows <- 2, MemLimit <- 3, DiskLimit <- 14, MergeWidth <- 1, CountWidth <- 100, disk <- temp

\* Keys whose text says their value: equal keys have equal texts.
MCKeys == {Null, [val |-> 1, text |-> "1"], [val |-> 2, text |-> "2"]}
MCLefts == UNION {[1..n -> MCKeys] : n \in {0, 2}}
MCRights == UNION {[1..n -> MCKeys] : n \in {0, 1, 3, 4}}

\* An INTEGER 1 and a DECIMAL(3,2) 1.00 are equal, and their texts are not.
SpelledLefts == {<<[val |-> 1, text |-> "1"]>>}
SpelledRights == {<<[val |-> 1, text |-> "1.00"]>>}

Joining == INSTANCE JoinStream WITH
    Kinds <- {"NestedLoopJoin", "HashJoin", "LeftJoin"},
    PartitionOf <- [t \in {"1", "2", "1.00"} |-> IF t = "1" THEN 1 ELSE 2],
    MaxRows <- 3, MemLimit <- 6, DiskLimit <- 7, RowSize <- 1, SlotSize <- 1, BucketSize <- 1,
    pos <- read, files <- parts, result <- joined,
    mem <- joinMem, disk <- joinDisk, phase <- joinPhase

-----------------------------------------------------------------------------
ASSUME QueriesAssumption == Sorting!SortAssumption /\ Joining!JoinAssumption

sortVars == <<consumer, input, pos, buffer, runs, merged, heads, taken, result, group,
              mem, temp, files, phase>>
joinVars == <<kind, left, right, read, held, spool, hashing, buckets, parts, active, at,
              cursor, matched, joined, joinMem, joinDisk, joinPhase>>
allVars == <<subject, vars, sortVars, joinVars>>

MCInit ==
    /\ subject \in Subjects
    /\ IF subject = "optimizer" THEN Init
       ELSE query = Null /\ plan = Null /\ seen = {} /\ iteration = 0 /\ outcome = "running"
    /\ subject # "sort" => input = CHOOSE i \in Inputs : TRUE
    /\ subject # "sort" => consumer = CHOOSE c \in Consumers : TRUE
    /\ Sorting!Init
    /\ subject # "join" => left = CHOOSE s \in Lefts : TRUE
    /\ subject # "join" => right = CHOOSE s \in Rights : TRUE
    /\ subject # "join" => kind = "LeftJoin"
    /\ Joining!Init

RuleStep == subject = "optimizer" /\ Next /\ UNCHANGED <<subject, sortVars, joinVars>>
SortStep == subject = "sort" /\ Sorting!Next /\ UNCHANGED <<subject, vars, joinVars>>
JoinStep == subject = "join" /\ Joining!Next /\ UNCHANGED <<subject, vars, sortVars>>

\* The sort is as fair as its FairSpec says.
MCSpec ==
    /\ MCInit
    /\ [][RuleStep \/ SortStep \/ JoinStep]_allVars
    /\ WF_allVars(SortStep /\ Sorting!Step)
    /\ WF_allVars(SortStep /\ phase \in {"done", "failed"} /\ Sorting!Close)

-----------------------------------------------------------------------------
(* What the run asks of each part.                                         *)

\* The optimized plan gives an answer the query allows, and the rules come to rest
\* (optimize).
OptimizerAnswersAlike ==
    subject = "optimizer" => TypeOK /\ AllowedAnswers /\ Converges

\* Sorted, merged, bounded and grouped streams give the rows the query promises
\* (ExternalSortRowStream).
ServesTheQuery == subject = "sort" => Sorting!TypeOK /\ Sorting!ServesTheQuery

\* A sort comes to its end, however many passes over the runs it takes (reduceRuns).
StreamEnds == subject = "sort" => Sorting!StreamEnds

\* A join, hashed and spilled or not, gives the rows of the nested loop
\* (JoinRowStream).
JoinsLikeTheLoop == subject = "join" => Joining!TypeOK /\ Joining!JoinsLikeTheLoop

\* Memory, temporary disk and files are counted as they are held, and given back
\* at the end (QueryResourceManager).
NothingLeaks ==
    /\ subject = "sort" => Sorting!NothingLeaks
    /\ subject = "join" => Joining!NothingLeaks
=============================================================================
