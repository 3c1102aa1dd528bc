----------------------------- MODULE JoinStream -----------------------------
(***************************************************************************)
(* The join of two row streams.  The right side is read first and held in  *)
(* memory, or spilled when it outgrows the row budget or half the memory   *)
(* budget.  The rows of the left side are then matched in one of four      *)
(* ways: a nested loop over memory, a nested loop over the spilled file, a *)
(* hash table over memory (given up when it does not fit), and hash        *)
(* partitions of the spilled file, one of them in memory at a time.        *)
(*                                                                         *)
(* A row is its key, [val, text]: the value a comparison sees and the text *)
(* its JSON prints, which is what is hashed.  Null is a key.  The join     *)
(* condition is the equality of the keys.                                  *)
(***************************************************************************)
EXTENDS Integers, Sequences, FiniteSets, SequencesExt, FiniteSetsExt

CONSTANTS
    Lefts, Rights,  \* the row sequences the two sides may produce
    Kinds,          \* subset of {"NestedLoopJoin", "HashJoin", "LeftJoin"}
    PartitionOf,    \* std::hash of a text, modulo the number of partitions
    MaxRows,        \* joinMemoryRows_
    MemLimit, DiskLimit,
    RowSize,        \* bytes of a row, in memory and on disk
    SlotSize, BucketSize,  \* bytes of one more row in a bucket, and of a new bucket
    Null

Partitions == {PartitionOf[t] : t \in DOMAIN PartitionOf}

\* What the constants have to be.
JoinAssumption ==
    /\ Kinds \subseteq {"NestedLoopJoin", "HashJoin", "LeftJoin"}
    /\ {MaxRows, MemLimit, DiskLimit, RowSize, SlotSize, BucketSize} \subseteq Nat \ {0}
    /\ \A s \in Lefts \cup Rights : \A i \in DOMAIN s : s[i] = Null \/ s[i].text \in DOMAIN PartitionOf

VARIABLES
    kind, left, right,
    pos,        \* rows of the right side read
    held,       \* rightRows: positions in right
    spool,      \* the spilled file, or Null
    hashing,    \* hashKeys is set
    buckets,    \* texts to sequences of positions in held
    files,      \* hash partitions: partition to the sequence of its rows
    active,     \* the partition in memory, or Null
    at,         \* the left row in progress (0: none yet)
    cursor,     \* candidates of that row already tried
    matched,    \* it found a match
    result, mem, disk, phase

vars == <<kind, left, right, pos, held, spool, hashing, buckets, files, active,
          at, cursor, matched, result, mem, disk, phase>>

-----------------------------------------------------------------------------
(* The condition and the memory it takes *)

\* evaluate of "=": NULL is equal to nothing.
Matches(l, r) == l # Null /\ r # Null /\ l.val = r.val

NoBuckets == [t \in {} |-> << >>]
Added(b, t, i) == IF t \in DOMAIN b THEN [b EXCEPT ![t] = Append(@, i)] ELSE b @@ (t :> <<i>>)
BucketBytes(b, t) == SlotSize + (IF t \in DOMAIN b THEN 0 ELSE BucketSize)

\* The buckets of the rows of a sequence, NULL keys left out, and their bytes.
Hashed(rows) ==
    FoldLeft(LAMBDA acc, i :
                 IF right[rows[i]] = Null THEN acc
                 ELSE [b |-> Added(acc.b, right[rows[i]].text, i),
                       n |-> acc.n + BucketBytes(acc.b, right[rows[i]].text)],
             [b |-> NoBuckets, n |-> 0], [i \in DOMAIN rows |-> i])

HashBytes == MapThenSumSet(LAMBDA t : BucketSize + SlotSize * Len(buckets[t]), DOMAIN buckets)

Init ==
    /\ kind \in Kinds /\ left \in Lefts /\ right \in Rights
    /\ pos = 0 /\ held = << >> /\ spool = Null
    /\ hashing = (kind = "HashJoin") /\ buckets = NoBuckets
    /\ files = [p \in {} |-> << >>] /\ active = Null
    /\ at = 0 /\ cursor = 0 /\ matched = FALSE
    /\ result = << >> /\ mem = 0 /\ disk = 0
    /\ phase = "building"

-----------------------------------------------------------------------------
(* prepare: the right side *)

Building == phase = "building" /\ pos < Len(right)
Target == Max({1, MemLimit \div 2})
Outgrown == Len(held) >= MaxRows \/ mem + RowSize > Target

Join == <<kind, left, right>>
Probe == <<at, cursor, matched, result>>

HoldRow ==
    /\ Building /\ spool = Null /\ ~Outgrown
    /\ held' = Append(held, pos + 1)
    /\ pos' = pos + 1 /\ mem' = mem + RowSize
    /\ UNCHANGED <<Join, Probe, spool, hashing, buckets, files, active, disk, phase>>

\* The rows held so far go to a file with the row that did not fit.
StartSpill ==
    /\ Building /\ spool = Null /\ Outgrown
    /\ disk + RowSize * (Len(held) + 1) <= DiskLimit
    /\ spool' = Append(held, pos + 1)
    /\ disk' = disk + RowSize * (Len(held) + 1)
    /\ held' = << >> /\ mem' = mem - RowSize * Len(held)
    /\ pos' = pos + 1
    /\ UNCHANGED <<Join, Probe, hashing, buckets, files, active, phase>>

SpillRow ==
    /\ Building /\ spool # Null
    /\ disk + RowSize <= DiskLimit
    /\ spool' = Append(spool, pos + 1)
    /\ disk' = disk + RowSize
    /\ pos' = pos + 1
    /\ UNCHANGED <<Join, Probe, held, hashing, buckets, files, active, mem, phase>>

Built == phase = "building" /\ pos = Len(right)

Loop ==
    /\ Built /\ ~hashing
    /\ phase' = "probing"
    /\ UNCHANGED <<Join, Probe, pos, held, spool, hashing, buckets, files, active, mem, disk>>

\* The hash table over memory, or the nested loop when it does not fit.
BuildHash ==
    /\ Built /\ hashing /\ spool = Null
    /\ IF mem + Hashed(held).n <= MemLimit
       THEN /\ buckets' = Hashed(held).b /\ mem' = mem + Hashed(held).n
            /\ UNCHANGED hashing
       ELSE hashing' = FALSE /\ UNCHANGED <<buckets, mem>>
    /\ phase' = "probing"
    /\ UNCHANGED <<Join, Probe, pos, held, spool, files, active, disk>>

Kept == SelectSeq(spool, LAMBDA i : right[i] # Null)

\* partitionSpilledHash: the partitions are written beside the spool, which then goes.
Partition ==
    /\ Built /\ hashing /\ spool # Null
    /\ disk + RowSize * Len(Kept) <= DiskLimit
    /\ files' = [p \in Partitions |->
                    SelectSeq(Kept, LAMBDA i : PartitionOf[right[i].text] = p)]
    /\ disk' = RowSize * Len(Kept)
    /\ spool' = Null
    /\ phase' = "probing"
    /\ UNCHANGED <<Join, Probe, pos, held, hashing, buckets, active, mem>>

-----------------------------------------------------------------------------
(* next: one left row at a time *)

Partitioned == DOMAIN files # {}

\* Bytes a partition takes in memory with its buckets.
Loaded(p) == RowSize * Len(files[p]) + Hashed(files[p]).n

\* The next left row, with its partition in memory when the hash is on disk.
Needs == IF hashing /\ Partitioned /\ left[at + 1] # Null
         THEN PartitionOf[left[at + 1].text] ELSE active

StartLeft ==
    /\ phase = "probing" /\ cursor = 0 /\ ~matched /\ at < Len(left)
    /\ at' = at + 1
    /\ IF Needs = active THEN UNCHANGED <<held, buckets, active, mem>>
       ELSE /\ Loaded(Needs) <= MemLimit
            /\ held' = files[Needs] /\ buckets' = Hashed(files[Needs]).b
            /\ active' = Needs /\ mem' = Loaded(Needs)
    /\ phase' = "matching"
    /\ UNCHANGED <<Join, pos, spool, hashing, files, cursor, matched, result, disk>>

\* The rows of the right side the left row in progress is tried against.
Candidates ==
    IF hashing
    THEN IF left[at] = Null \/ left[at].text \notin DOMAIN buckets THEN << >>
         ELSE [k \in DOMAIN buckets[left[at].text] |-> held[buckets[left[at].text][k]]]
    ELSE IF spool = Null THEN held ELSE spool

Candidate ==
    /\ phase = "matching" /\ cursor < Len(Candidates)
    /\ cursor' = cursor + 1
    /\ LET r == Candidates[cursor + 1]
       IN IF Matches(left[at], right[r])
          THEN result' = Append(result, <<at, r>>) /\ matched' = TRUE
          ELSE UNCHANGED <<result, matched>>
    /\ UNCHANGED <<Join, pos, held, spool, hashing, buckets, files, active, at, mem, disk, phase>>

\* mutant: a row that found nothing is left out of an outer join too
MutEndLeft ==
    /\ phase = "matching" /\ cursor = Len(Candidates)
    /\ cursor' = 0 /\ matched' = FALSE
    /\ phase' = "probing"
    /\ UNCHANGED <<Join, pos, held, spool, hashing, buckets, files, active, at, result, mem, disk>>

\* The left row is over; an outer join answers it even without a match.
EndLeft ==
    /\ phase = "matching" /\ cursor = Len(Candidates)
    /\ result' = IF kind = "LeftJoin" /\ ~matched THEN Append(result, <<at, Null>>) ELSE result
    /\ cursor' = 0 /\ matched' = FALSE
    /\ phase' = "probing"
    /\ UNCHANGED <<Join, pos, held, spool, hashing, buckets, files, active, at, mem, disk>>

Finish ==
    /\ phase = "probing" /\ at = Len(left)
    /\ phase' = "done"
    /\ UNCHANGED <<Join, Probe, pos, held, spool, hashing, buckets, files, active, mem, disk>>

-----------------------------------------------------------------------------
(* Failing and closing *)

Failed == phase' = "failed" /\ UNCHANGED <<Join, Probe, pos, held, spool, hashing, buckets,
                                          files, active, mem, disk>>

\* A budget is exceeded.
Refuse ==
    /\ \/ Building /\ spool = Null /\ Outgrown /\ disk + RowSize * (Len(held) + 1) > DiskLimit
       \/ Building /\ spool # Null /\ disk + RowSize > DiskLimit
       \/ Built /\ hashing /\ spool # Null /\ disk + RowSize * Len(Kept) > DiskLimit
       \/ phase = "probing" /\ at < Len(left) /\ Needs # active /\ Loaded(Needs) > MemLimit
    /\ Failed

\* A side, the file system or a cancellation fails the call in progress.
Fails == phase \in {"building", "probing", "matching"} /\ Failed

HeldBytes == RowSize * Len(held) + HashBytes
DiskBytes == RowSize * ((IF spool = Null THEN 0 ELSE Len(spool))
                        + MapThenSumSet(LAMBDA p : Len(files[p]), DOMAIN files))

Close ==
    /\ phase \in {"probing", "matching", "done", "failed"}
    /\ mem' = mem - HeldBytes /\ disk' = disk - DiskBytes
    /\ held' = << >> /\ buckets' = NoBuckets /\ spool' = Null
    /\ files' = [p \in {} |-> << >>]
    /\ phase' = "closed"
    /\ UNCHANGED <<Join, Probe, pos, hashing, active>>

Step ==
    \/ HoldRow \/ StartSpill \/ SpillRow \/ Loop \/ BuildHash \/ Partition
    \/ StartLeft \/ Candidate \/ EndLeft \/ Finish \/ Refuse

Idle == phase = "closed" /\ UNCHANGED vars

Next == Step \/ Fails \/ Close \/ Idle

Spec == Init /\ [][Next]_vars

-----------------------------------------------------------------------------
(* Properties *)

\* Every variable has its type.
TypeOK ==
    /\ pos \in 0..Len(right) /\ at \in 0..Len(left)
    /\ mem \in 0..MemLimit /\ disk \in 0..DiskLimit
    /\ phase \in {"building", "probing", "matching", "done", "failed", "closed"}

\* The nested loop over the two sides, in their order.
Reference ==
    FlattenSeq([l \in DOMAIN left |->
        LET found == SelectSeq([r \in DOMAIN right |-> r], LAMBDA r : Matches(left[l], right[r]))
        IN IF kind = "LeftJoin" /\ found = << >> THEN <<<<l, Null>>>>
           ELSE [k \in DOMAIN found |-> <<l, found[k]>>]])

\* Whatever is spilled, hashed or partitioned, the rows come as the nested loop
\* gives them, duplicates included, and all of them before the join ends.
JoinsLikeTheLoop ==
    /\ IsPrefix(result, Reference)
    /\ phase = "done" => result = Reference

\* Memory and disk are accounted for exactly what is held, nothing is held twice,
\* and nothing is left once the join is closed.
NothingLeaks ==
    /\ mem = HeldBytes /\ disk = DiskBytes
    /\ phase = "closed" => mem = 0 /\ disk = 0
=============================================================================
