----------------------------- MODULE HeapProofs -----------------------------
(***************************************************************************)
(* Proofs about Heap for every value of its constants: a page stays packed *)
(* when it is compacted, takes a record or loses one, a reference reads    *)
(* the row it was given for as long as the row is there, and nothing       *)
(* afterwards.                                                             *)
(***************************************************************************)
EXTENDS Heap, SequenceTheorems, WellFoundedInduction, TLAPS

-----------------------------------------------------------------------------
(* Numbers: a set of them has a least one, so what holds of 0 and goes on   *)
(* from each to the next holds of all.                                      *)

LEMMA Least ==
    ASSUME NEW S \in SUBSET Nat, S # {}
    PROVE  \E x \in S : \A y \in S : x <= y
  <1>1. \E x \in S : \A y \in S : ~(<<y, x>> \in OpToRel(<, Nat))
    BY NatLessThanWellFounded, WFMin
  <1>2. PICK x \in S : \A y \in S : ~(<<y, x>> \in OpToRel(<, Nat))
    BY <1>1
  <1>3. ASSUME NEW y \in S
        PROVE  x <= y
    <2>1. ~(<<y, x>> \in OpToRel(<, Nat))
      BY <1>2, <1>3
    <2>2. ~(y < x)
      BY <2>1, <1>2 DEF OpToRel
    <2> QED BY <2>2
  <1> QED BY <1>2, <1>3

LEMMA Induction ==
    ASSUME NEW S, 0 \in S, \A n \in Nat : n \in S => n + 1 \in S
    PROVE  Nat \subseteq S
  <1> SUFFICES ASSUME Nat \ S # {}
               PROVE  FALSE
    OBVIOUS
  <1>1. PICK x \in Nat \ S : \A y \in Nat \ S : x <= y
    BY Least
  <1>2. x # 0 /\ x - 1 \in Nat /\ x - 1 + 1 = x
    BY <1>1
  <1>3. x - 1 \in S
    <2> SUFFICES ASSUME x - 1 \notin S PROVE FALSE
      OBVIOUS
    <2> QED BY <1>1, <1>2
  <1> QED BY <1>1, <1>2, <1>3

-----------------------------------------------------------------------------
(* What the records in the first slots of a directory take: Used is a       *)
(* function defined by recursion, and the sums it stands for exist.         *)

Slot == [gen : 1..LastGen, offset : Nat, length : Nat]
Lengths(page) == page.slots \in Seq(Slot)

LEMMA LengthTypes ==
    ASSUME NEW page, Lengths(page)
    PROVE  /\ Len(page.slots) \in Nat
           /\ \A i \in 1..Len(page.slots) : page.slots[i].length \in Nat
  <1>1. Len(page.slots) \in Nat
    BY DEF Lengths
  <1>2. ASSUME NEW i \in 1..Len(page.slots)
        PROVE  page.slots[i].length \in Nat
    <2>1. page.slots[i] \in Slot
      BY ElementOfSeq DEF Lengths
    <2> QED BY <2>1 DEF Slot
  <1> QED BY <1>1, <1>2

Sums(page, g, n) ==
    /\ g \in [0..n -> Nat] /\ g[0] = 0
    /\ \A k \in 1..n : g[k] = page.slots[k].length + g[k - 1]

LEMMA SumExists ==
    ASSUME NEW page, Lengths(page), NEW n \in Nat, n <= Len(page.slots)
    PROVE  \E g : Sums(page, g, n)
  <1> DEFINE S == {m \in Nat : m <= Len(page.slots) => \E g : Sums(page, g, m)}
  <1>1. 0 \in S
    <2> DEFINE g == [k \in 0..0 |-> 0]
    <2>2. g \in [0..0 -> Nat] /\ g[0] = 0
      OBVIOUS
    <2>3. 1..0 = {}
      OBVIOUS
    <2> HIDE DEF g
    <2>4. Sums(page, g, 0)
      BY <2>2, <2>3 DEF Sums
    <2> QED BY <2>4
  <1>2. ASSUME NEW m \in Nat, m \in S
        PROVE  m + 1 \in S
    <2> SUFFICES ASSUME m + 1 <= Len(page.slots)
                 PROVE  \E g : Sums(page, g, m + 1)
      OBVIOUS
    <2>1. PICK g : Sums(page, g, m)
      BY <1>2 DEF Lengths
    <2>2. page.slots[m + 1].length \in Nat
      <3>1. m + 1 \in 1..Len(page.slots)
        BY LengthTypes
      <3> QED BY <3>1, LengthTypes
    <2> DEFINE h == [k \in 0..m + 1 |-> IF k = m + 1 THEN page.slots[m + 1].length + g[m] ELSE g[k]]
    <2>3. g \in [0..m -> Nat] /\ g[0] = 0 /\ g[m] \in Nat
      BY <2>1 DEF Sums
    <2>4. h \in [0..m + 1 -> Nat] /\ h[0] = 0
      BY <2>2, <2>3
    <2>5. ASSUME NEW k \in 1..m + 1
          PROVE  h[k] = page.slots[k].length + h[k - 1]
      <3>1. CASE k = m + 1
        <4>1. h[k] = page.slots[m + 1].length + g[m] /\ h[k - 1] = g[m]
          BY <3>1
        <4> QED BY <3>1, <4>1
      <3>2. CASE k # m + 1
        <4>1. h[k] = g[k] /\ h[k - 1] = g[k - 1] /\ k \in 1..m
          BY <3>2
        <4> QED BY <4>1, <2>1 DEF Sums
      <3> QED BY <3>1, <3>2
    <2> HIDE DEF h
    <2> QED BY <2>4, <2>5 DEF Sums
  <1>3. n \in S
    <2> HIDE DEF S
    <2>1. Nat \subseteq S
      BY <1>1, <1>2, Induction
    <2> QED BY <2>1
  <1> QED BY <1>3

LEMMA UsedSums ==
    ASSUME NEW page, Lengths(page)
    PROVE  \E g : Sums(page, g, Len(page.slots)) /\ \A i \in 0..Len(page.slots) : Used(page, i) = g[i]
  <1> DEFINE Rule(f) == [k \in 0..Len(page.slots) |->
                            IF k = 0 THEN 0 ELSE page.slots[k].length + f[k - 1]]
             used == CHOOSE f : f = Rule(f)
  <1>0. Len(page.slots) \in Nat
    BY DEF Lengths
  <1>1. PICK g : Sums(page, g, Len(page.slots))
    BY <1>0, SumExists
  <1>2. g = Rule(g)
    BY <1>0, <1>1 DEF Sums
  <1>3. used = Rule(used)
    BY <1>2
  <1>4. \A i : Used(page, i) = used[i]
    BY DEF Used
  <1> DEFINE S == {m \in Nat : m <= Len(page.slots) => used[m] = g[m]}
  <1> HIDE DEF used
  <1>5. 0 \in S
    <2>1. used[0] = 0
      BY <1>0, <1>3
    <2> QED BY <2>1, <1>1 DEF Sums
  <1>6. ASSUME NEW m \in Nat, m \in S
        PROVE  m + 1 \in S
    <2> SUFFICES ASSUME m + 1 <= Len(page.slots)
                 PROVE  used[m + 1] = g[m + 1]
      OBVIOUS
    <2>1. used[m] = g[m]
      BY <1>0, <1>6
    <2>2. used[m + 1] = page.slots[m + 1].length + used[m]
      <3>1. m + 1 \in 0..Len(page.slots) /\ m + 1 # 0 /\ m + 1 - 1 = m
        BY <1>0
      <3> QED BY <1>3, <3>1
    <2>3. g[m + 1] = page.slots[m + 1].length + g[m]
      <3>1. m + 1 \in 1..Len(page.slots) /\ m + 1 - 1 = m
        BY <1>0
      <3> QED BY <1>1, <3>1 DEF Sums
    <2> QED BY <2>1, <2>2, <2>3
  <1>7. Nat \subseteq S
    <2> HIDE DEF S
    <2> QED BY <1>5, <1>6, Induction
  <1>8. \A i \in 0..Len(page.slots) : used[i] = g[i]
    BY <1>0, <1>7
  <1> QED BY <1>1, <1>4, <1>8

\* The cells of the first i records.
LEMMA UsedRule ==
    ASSUME NEW page, Lengths(page)
    PROVE  /\ Used(page, 0) = 0
           /\ \A i \in 0..Len(page.slots) : Used(page, i) \in Nat
           /\ \A i \in 1..Len(page.slots) :
                  Used(page, i) = page.slots[i].length + Used(page, i - 1)
  <1>1. PICK g : /\ Sums(page, g, Len(page.slots))
                 /\ \A i \in 0..Len(page.slots) : Used(page, i) = g[i]
    BY UsedSums
  <1>2. Len(page.slots) \in Nat
    BY DEF Lengths
  <1>3. Used(page, 0) = 0
    BY <1>1, <1>2 DEF Sums
  <1>4. \A i \in 0..Len(page.slots) : Used(page, i) \in Nat
    BY <1>1 DEF Sums
  <1>5. ASSUME NEW i \in 1..Len(page.slots)
        PROVE  Used(page, i) = page.slots[i].length + Used(page, i - 1)
    <2>1. i \in 0..Len(page.slots) /\ i - 1 \in 0..Len(page.slots)
      BY <1>2
    <2>2. g[i] = page.slots[i].length + g[i - 1]
      BY <1>1 DEF Sums
    <2> QED BY <1>1, <2>1, <2>2
  <1> QED BY <1>3, <1>4, <1>5

\* More records take no less.
LEMMA UsedGrows ==
    ASSUME NEW page, Lengths(page), NEW i \in 0..Len(page.slots), NEW j \in i..Len(page.slots)
    PROVE  Used(page, i) <= Used(page, j)
  <1>0. Len(page.slots) \in Nat /\ i \in Nat
    BY DEF Lengths
  <1> DEFINE S == {m \in Nat : i + m <= Len(page.slots) => Used(page, i) <= Used(page, i + m)}
  <1>1. 0 \in S
    <2>1. Used(page, i) \in Nat /\ i + 0 = i
      BY <1>0, UsedRule
    <2> QED BY <2>1
  <1>2. ASSUME NEW m \in Nat, m \in S
        PROVE  m + 1 \in S
    <2> SUFFICES ASSUME i + (m + 1) <= Len(page.slots)
                 PROVE  Used(page, i) <= Used(page, i + (m + 1))
      OBVIOUS
    <2> DEFINE k == i + (m + 1)
    <2>1. k \in 1..Len(page.slots) /\ k - 1 = i + m /\ i + m \in 0..Len(page.slots)
      BY <1>0
    <2>2. Used(page, i) <= Used(page, i + m)
      BY <1>0, <1>2
    <2>3. page.slots[k].length \in Nat
      BY <2>1, LengthTypes
    <2>4. Used(page, k) = page.slots[k].length + Used(page, i + m)
      <3> HIDE DEF k
      <3> QED BY <2>1, UsedRule
    <2>5. Used(page, i) \in Nat /\ Used(page, i + m) \in Nat
      BY <2>1, UsedRule
    <2> QED BY <2>2, <2>3, <2>4, <2>5
  <1>3. Nat \subseteq S
    <2> HIDE DEF S
    <2> QED BY <1>1, <1>2, Induction
  <1>4. j - i \in Nat /\ i + (j - i) = j /\ j <= Len(page.slots)
    BY <1>0
  <1> QED BY <1>3, <1>4

LEMMA UsedNext ==
    ASSUME NEW page, Lengths(page), NEW m, m + 1 \in 1..Len(page.slots), m \in Nat
    PROVE  Used(page, m + 1) = page.slots[m + 1].length + Used(page, m)
  <1>1. Used(page, m + 1) = page.slots[m + 1].length + Used(page, m + 1 - 1)
    BY UsedRule
  <1>2. m + 1 - 1 = m
    OBVIOUS
  <1> QED BY <1>1, <1>2

\* Of the first n records, the one in a slot is longer by d, or shorter.
Differs(page, new, n, slot, d) ==
    /\ Lengths(page) /\ Lengths(new) /\ n \in Nat /\ slot \in 1..n /\ d \in Int
    /\ n <= Len(page.slots) /\ n <= Len(new.slots)
    /\ new.slots[slot].length = page.slots[slot].length + d
    /\ \A i \in 1..n : i # slot => new.slots[i].length = page.slots[i].length

LEMMA UsedChanges ==
    ASSUME NEW page, NEW new, NEW n, NEW slot, NEW d, Differs(page, new, n, slot, d)
    PROVE  Used(new, n) = Used(page, n) + d
  <1> DEFINE S == {m \in Nat : m <= n =>
                       Used(new, m) = Used(page, m) + (IF m < slot THEN 0 ELSE d)}
  <1> /\ Lengths(page) /\ Lengths(new) /\ n \in Nat /\ slot \in 1..n /\ d \in Int
      /\ n <= Len(page.slots) /\ n <= Len(new.slots)
      /\ new.slots[slot].length = page.slots[slot].length + d
      /\ \A i \in 1..n : i # slot => new.slots[i].length = page.slots[i].length
    BY DEF Differs
  <1>0. Len(page.slots) \in Nat /\ Len(new.slots) \in Nat
    BY LengthTypes
  <1>1. 0 \in S
    <2>1. Used(new, 0) = 0 /\ Used(page, 0) = 0 /\ 0 < slot
      BY UsedRule
    <2> QED BY <2>1
  <1>2. ASSUME NEW m \in Nat, m \in S
        PROVE  m + 1 \in S
    <2> SUFFICES ASSUME m + 1 <= n
                 PROVE  Used(new, m + 1) = Used(page, m + 1) + (IF m + 1 < slot THEN 0 ELSE d)
      OBVIOUS
    <2>1. m + 1 \in 1..n /\ m + 1 - 1 = m /\ m \in 0..n
      OBVIOUS
    <2>2. /\ m + 1 \in 1..Len(page.slots) /\ m + 1 \in 1..Len(new.slots)
          /\ m \in 0..Len(page.slots) /\ m \in 0..Len(new.slots)
      BY <1>0, <2>1
    <2>3. Used(new, m) = Used(page, m) + (IF m < slot THEN 0 ELSE d)
      BY <1>2, <2>1
    <2>4. Used(page, m + 1) = page.slots[m + 1].length + Used(page, m)
      BY <1>0, <2>2, UsedNext
    <2>5. Used(new, m + 1) = new.slots[m + 1].length + Used(new, m)
      BY <1>0, <2>2, UsedNext
    <2>6. Used(page, m) \in Nat /\ Used(new, m) \in Nat
      BY <2>2, UsedRule
    <2>7. page.slots[m + 1].length \in Nat /\ new.slots[m + 1].length \in Nat
      BY <2>2, LengthTypes
    <2>8. CASE m + 1 = slot
      <3>1. new.slots[m + 1].length = page.slots[m + 1].length + d /\ m < slot /\ ~(m + 1 < slot)
        BY <2>8
      <3> QED BY <2>3, <2>4, <2>5, <2>6, <2>7, <3>1
    <2>9. CASE m + 1 # slot
      <3>1. new.slots[m + 1].length = page.slots[m + 1].length /\ (m < slot <=> m + 1 < slot)
        BY <2>1, <2>9
      <3> QED BY <2>3, <2>4, <2>5, <2>6, <2>7, <3>1
    <2> QED BY <2>8, <2>9
  <1>3. Nat \subseteq S
    <2> HIDE DEF S
    <2> QED BY <1>1, <1>2, Induction
  <1>4. n \in S
    BY <1>3
  <1> QED BY <1>4

-----------------------------------------------------------------------------
(* Pages.                                                                   *)

Page == [owner : Tables \cup {None}, gen : Nat, slots : Seq(Slot),
         cells : [1..PageSize -> Rows \cup {None}], lower : 0..PageSize]

Apart(a, b) == a.offset >= b.offset + b.length \/ b.offset >= a.offset + a.length

\* The records lie behind the directory, none over another, and the room they take
\* with it is in the page.
Packed(page) ==
    /\ page \in Page
    /\ Len(page.slots) + Used(page, Len(page.slots)) <= PageSize
    /\ Len(page.slots) <= page.lower
    /\ \A i \in Live(page) :
           /\ page.lower <= page.slots[i].offset
           /\ page.slots[i].offset + page.slots[i].length <= PageSize
    /\ \A i, j \in Live(page) : i # j => Apart(page.slots[i], page.slots[j])

\* Slot i has the record of a row.
Holds(page, i, row) ==
    /\ i \in Live(page) /\ page.slots[i].length = Size[row]
    /\ \A c \in (page.slots[i].offset + 1)..(page.slots[i].offset + page.slots[i].length) :
           page.cells[c] = row

LEMMA Directory ==
    ASSUME NEW page \in Page
    PROVE  /\ Lengths(page) /\ Len(page.slots) \in Nat /\ DOMAIN page.slots = 1..Len(page.slots)
           /\ \A i \in 1..Len(page.slots) :
                  /\ page.slots[i] \in Slot /\ page.slots[i].gen \in 1..LastGen
                  /\ page.slots[i].offset \in Nat /\ page.slots[i].length \in Nat
           /\ Live(page) \subseteq 1..Len(page.slots)
           /\ \A i \in 1..Len(page.slots) : i \in Live(page) <=> page.slots[i].length # 0
  <1>1. page.slots \in Seq(Slot)
    BY DEF Page
  <1>2. Len(page.slots) \in Nat /\ DOMAIN page.slots = 1..Len(page.slots)
    BY <1>1, LenProperties
  <1>3. ASSUME NEW i \in 1..Len(page.slots)
        PROVE  /\ page.slots[i] \in Slot /\ page.slots[i].gen \in 1..LastGen
               /\ page.slots[i].offset \in Nat /\ page.slots[i].length \in Nat
    <2>1. page.slots[i] \in Slot
      BY <1>1, ElementOfSeq
    <2> QED BY <2>1 DEF Slot
  <1>4. \A i \in 1..Len(page.slots) : i \in Live(page) <=> page.slots[i].length # 0
    BY <1>2, <1>3 DEF Live
  <1> QED BY <1>1, <1>2, <1>3, <1>4 DEF Live, Lengths

-----------------------------------------------------------------------------
(* compact                                                                  *)

\* The cell before record i when the records are packed, the record that then takes
\* cell c, and what it puts there.
End(page, i) == PageSize - Used(page, i)
Takers(page, c) ==
    {i \in Live(page) : End(page, i) < c /\ c <= End(page, i) + page.slots[i].length}
Put(page, c) ==
    IF Takers(page, c) = {} THEN None
    ELSE LET i == CHOOSE i \in Takers(page, c) : TRUE
         IN  page.cells[page.slots[i].offset + (c - End(page, i))]
Shifted(page) ==
    [i \in DOMAIN page.slots |->
        IF i \in Live(page) THEN [page.slots[i] EXCEPT !.offset = End(page, i)] ELSE page.slots[i]]

LEMMA CompactedIs ==
    ASSUME NEW page \in Page
    PROVE  /\ Compacted(page).owner = page.owner /\ Compacted(page).gen = page.gen
           /\ Compacted(page).slots = Shifted(page)
           /\ Compacted(page).cells = [c \in 1..PageSize |-> Put(page, c)]
           /\ Compacted(page).lower = End(page, Len(page.slots))
           /\ DOMAIN Compacted(page) = {"owner", "gen", "slots", "cells", "lower"}
  BY DEF Compacted, Page, Shifted, Put, Takers, End

LEMMA Ends ==
    ASSUME HeapAssumption, NEW page, Packed(page)
    PROVE  /\ Used(page, Len(page.slots)) \in Nat
           /\ End(page, Len(page.slots)) \in Len(page.slots)..PageSize
           /\ \A i \in 1..Len(page.slots) :
                  /\ End(page, i) \in Nat /\ End(page, Len(page.slots)) <= End(page, i)
                  /\ End(page, i) + page.slots[i].length <= PageSize
           /\ \A i, j \in 1..Len(page.slots) :
                  i < j => End(page, j) + page.slots[j].length <= End(page, i)
  <1> DEFINE n == Len(page.slots)
  <1>1. /\ page \in Page /\ Lengths(page) /\ n \in Nat /\ n + Used(page, n) <= PageSize
        /\ \A i \in 1..n : page.slots[i].length \in Nat
    BY Directory DEF Packed
  <1>2. PageSize \in Nat
    BY DEF HeapAssumption
  <1>3. \A i \in 0..n : Used(page, i) \in Nat
    BY <1>1, UsedRule
  <1>4. Used(page, n) \in Nat
    BY <1>1, <1>3
  <1>5. \A i \in 0..n : Used(page, i) <= Used(page, n)
    <2> SUFFICES ASSUME NEW i \in 0..n
                 PROVE  Used(page, i) <= Used(page, n)
      OBVIOUS
    <2>1. n \in i..n
      BY <1>1
    <2> QED BY <1>1, <2>1, UsedGrows
  <1>6. ASSUME NEW i \in 1..n
        PROVE  /\ End(page, i) \in Nat /\ End(page, n) <= End(page, i)
               /\ End(page, i) + page.slots[i].length <= PageSize
    <2>1. i \in 0..n /\ i - 1 \in 0..n
      BY <1>1
    <2>2. Used(page, i) = page.slots[i].length + Used(page, i - 1)
      BY <1>1, UsedRule
    <2>3. Used(page, i) \in Nat /\ Used(page, i - 1) \in Nat /\ Used(page, i) <= Used(page, n)
      BY <1>3, <1>5, <2>1
    <2> HIDE DEF n
    <2> QED BY <1>1, <1>2, <1>4, <2>2, <2>3 DEF End
  <1>7. ASSUME NEW i \in 1..n, NEW j \in 1..n, i < j
        PROVE  End(page, j) + page.slots[j].length <= End(page, i)
    <2>1. i \in 0..n /\ j - 1 \in 0..n /\ j \in 0..n /\ j - 1 \in i..n
      BY <1>1, <1>7
    <2>2. Used(page, j) = page.slots[j].length + Used(page, j - 1)
      BY <1>1, UsedRule
    <2>3. Used(page, i) <= Used(page, j - 1)
      BY <1>1, <2>1, UsedGrows
    <2>4. Used(page, i) \in Nat /\ Used(page, j - 1) \in Nat /\ Used(page, j) \in Nat
      BY <1>3, <2>1
    <2> HIDE DEF n
    <2> QED BY <1>1, <1>2, <2>2, <2>3, <2>4 DEF End
  <1>8. End(page, n) \in n..PageSize
    <2> HIDE DEF n
    <2> QED BY <1>1, <1>2, <1>4 DEF End
  <1> QED BY <1>4, <1>6, <1>7, <1>8

\* Records that are moved keep what they hold.
LEMMA CompactedPacked ==
    ASSUME HeapAssumption, NEW page, Packed(page), NEW old, old = Compacted(page)
    PROVE  /\ old \in Page
           /\ old.owner = page.owner /\ old.gen = page.gen
           /\ Len(old.slots) = Len(page.slots) /\ old.lower = End(page, Len(page.slots))
           /\ \A i \in 1..Len(page.slots) :
                  /\ old.slots[i].gen = page.slots[i].gen
                  /\ old.slots[i].length = page.slots[i].length
                  /\ i \in Live(page) => old.slots[i].offset = End(page, i)
           /\ \A i \in Live(page) : \A c \in End(page, i) + 1..End(page, i) + page.slots[i].length :
                  old.cells[c] = page.cells[page.slots[i].offset + (c - End(page, i))]
  <1> DEFINE n == Len(page.slots)
  <1>1. /\ page \in Page /\ n \in Nat /\ DOMAIN page.slots = 1..n /\ Live(page) \subseteq 1..n
        /\ \A i \in 1..n :
               /\ page.slots[i] \in Slot /\ page.slots[i].gen \in 1..LastGen
               /\ page.slots[i].offset \in Nat /\ page.slots[i].length \in Nat
    <2>1. page \in Page
      BY DEF Packed
    <2> QED BY <2>1, Directory
  <1>2. PageSize \in Nat
    BY DEF HeapAssumption
  <1>3. /\ End(page, n) \in n..PageSize
        /\ \A i \in 1..n : /\ End(page, i) \in Nat /\ End(page, i) + page.slots[i].length <= PageSize
        /\ \A i, j \in 1..n : i < j => End(page, j) + page.slots[j].length <= End(page, i)
    BY Ends
  <1>4. /\ old.owner = page.owner /\ old.gen = page.gen
        /\ old.slots = Shifted(page) /\ old.lower = End(page, n)
        /\ old.cells = [c \in 1..PageSize |-> Put(page, c)]
        /\ DOMAIN old = {"owner", "gen", "slots", "cells", "lower"}
    BY <1>1, CompactedIs
  <1>5. \A i \in 1..n : Shifted(page)[i] =
            IF i \in Live(page) THEN [page.slots[i] EXCEPT !.offset = End(page, i)] ELSE page.slots[i]
    BY <1>1 DEF Shifted
  <1>6. ASSUME NEW i \in 1..n
        PROVE  /\ old.slots[i] \in Slot
               /\ old.slots[i].gen = page.slots[i].gen
               /\ old.slots[i].length = page.slots[i].length
               /\ i \in Live(page) => old.slots[i].offset = End(page, i)
    <2>1. page.slots[i] \in Slot /\ End(page, i) \in Nat
      BY <1>1, <1>3
    <2>2. old.slots[i] = IF i \in Live(page) THEN [page.slots[i] EXCEPT !.offset = End(page, i)]
                         ELSE page.slots[i]
      BY <1>4, <1>5
    <2> QED BY <2>1, <2>2 DEF Slot
  <1>7. old.slots \in Seq(Slot) /\ Len(old.slots) = n
    <2>1. DOMAIN old.slots = 1..n /\ old.slots = [i \in 1..n |-> old.slots[i]]
      BY <1>1, <1>4 DEF Shifted
    <2>2. old.slots \in [1..n -> Slot]
      BY <1>6, <2>1
    <2> HIDE DEF n
    <2> QED BY <1>1, <2>1, <2>2, SeqDef, LenProperties
  <1>8. \A i \in Live(page) : /\ i \in 1..n /\ page.slots[i].length \in Nat /\ page.slots[i].offset \in Nat
                              /\ page.slots[i].offset + page.slots[i].length <= PageSize
    BY <1>1 DEF Packed
  <1>9. ASSUME NEW c \in 1..PageSize
        PROVE  Put(page, c) \in Rows \cup {None}
    <2>1. CASE Takers(page, c) = {}
      BY <2>1 DEF Put
    <2>2. CASE Takers(page, c) # {}
      <3> DEFINE i == CHOOSE i \in Takers(page, c) : TRUE
      <3>1. i \in Takers(page, c)
        BY <2>2
      <3>2. Put(page, c) = page.cells[page.slots[i].offset + (c - End(page, i))]
        BY <2>2 DEF Put
      <3> HIDE DEF i
      <3>3. i \in Live(page) /\ End(page, i) < c /\ c <= End(page, i) + page.slots[i].length
        BY <3>1 DEF Takers
      <3>4. i \in 1..n
        BY <3>3, <1>8
      <3>5. page.slots[i].offset + (c - End(page, i)) \in 1..PageSize
        <4>1. /\ page.slots[i].length \in Nat /\ page.slots[i].offset \in Nat
              /\ page.slots[i].offset + page.slots[i].length <= PageSize
          BY <3>3, <1>8
        <4>2. End(page, i) \in Nat
          BY <3>4, <1>3
        <4> QED BY <4>1, <4>2, <3>3, <1>2
      <3>6. page.cells \in [1..PageSize -> Rows \cup {None}]
        BY <1>1 DEF Page
      <3> QED BY <3>2, <3>5, <3>6
    <2> QED BY <2>1, <2>2
  <1>10. old \in Page
    <2>1. old.cells \in [1..PageSize -> Rows \cup {None}]
      BY <1>4, <1>9
    <2>2. old.lower \in 0..PageSize
      BY <1>1, <1>2, <1>3, <1>4
    <2>3. page.owner \in Tables \cup {None} /\ page.gen \in Nat
      BY <1>1 DEF Page
    <2>4. old = [owner |-> old.owner, gen |-> old.gen, slots |-> old.slots, cells |-> old.cells,
                 lower |-> old.lower]
      BY DEF Compacted, Packed, Page
    <2> QED BY <1>4, <1>7, <2>1, <2>2, <2>3, <2>4 DEF Page
  <1>11. ASSUME NEW i \in Live(page), NEW c \in End(page, i) + 1..End(page, i) + page.slots[i].length
         PROVE  old.cells[c] = page.cells[page.slots[i].offset + (c - End(page, i))]
    <2>1. i \in 1..n /\ page.slots[i].length \in Nat /\ End(page, i) \in Nat
          /\ End(page, i) + page.slots[i].length <= PageSize
      BY <1>3, <1>8
    <2>2. c \in 1..PageSize /\ c \in Int /\ End(page, i) < c /\ c <= End(page, i) + page.slots[i].length
      BY <1>2, <2>1
    <2>3. ASSUME NEW j \in Takers(page, c)
          PROVE  j = i
      <3>1. j \in Live(page) /\ End(page, j) < c /\ c <= End(page, j) + page.slots[j].length
        BY DEF Takers
      <3>2. j \in 1..n /\ page.slots[j].length \in Nat /\ End(page, j) \in Nat
        BY <3>1, <1>3, <1>8
      <3>3. ~(i < j)
        <4> SUFFICES ASSUME i < j PROVE FALSE
          OBVIOUS
        <4>1. End(page, j) + page.slots[j].length <= End(page, i)
          BY <1>3, <2>1, <3>2
        <4> QED BY <4>1, <2>1, <2>2, <3>1, <3>2
      <3>4. ~(j < i)
        <4> SUFFICES ASSUME j < i PROVE FALSE
          OBVIOUS
        <4>1. End(page, i) + page.slots[i].length <= End(page, j)
          BY <1>3, <2>1, <3>2
        <4> QED BY <4>1, <2>1, <2>2, <3>1, <3>2
      <3> QED BY <2>1, <3>2, <3>3, <3>4, <1>1
    <2>4. i \in Takers(page, c)
      BY <2>2 DEF Takers
    <2>5. (CHOOSE j \in Takers(page, c) : TRUE) = i
      BY <2>3, <2>4
    <2>6. Put(page, c) = page.cells[page.slots[i].offset + (c - End(page, i))]
      BY <2>4, <2>5 DEF Put
    <2> QED BY <1>4, <2>2, <2>6
  <1> HIDE DEF n
  <1> QED BY <1>4, <1>6, <1>7, <1>10, <1>11 DEF n

-----------------------------------------------------------------------------
(* insert                                                                   *)

\* The slot a record gets, its generation, and the cell before the record.
SlotFor(page) == IF Vacant(page) # {} THEN First(Vacant(page)) ELSE Len(page.slots) + 1
GenFor(page) == IF Vacant(page) # {} THEN page.slots[First(Vacant(page))].gen + 1 ELSE 1
Before(page, row) == End(page, Len(page.slots)) - Size[row]
Entry(page, row) == [gen |-> GenFor(page), offset |-> Before(page, row), length |-> Size[row]]

LEMMA SlotIs ==
    ASSUME HeapAssumption, NEW page \in Page
    PROVE  /\ SlotFor(page) \in 1..Len(page.slots) + 1 /\ GenFor(page) \in 1..LastGen
           /\ SlotFor(page) \notin Live(page)
           /\ SlotFor(page) = Len(page.slots) + 1 <=> Vacant(page) = {}
           /\ SlotFor(page) \in 1..Len(page.slots) =>
                  /\ GenFor(page) = page.slots[SlotFor(page)].gen + 1
                  /\ page.slots[SlotFor(page)].length = 0
           /\ SlotFor(page) \notin 1..Len(page.slots) => GenFor(page) = 1
  <1>1. /\ Len(page.slots) \in Nat /\ DOMAIN page.slots = 1..Len(page.slots)
        /\ Live(page) \subseteq 1..Len(page.slots)
        /\ \A i \in 1..Len(page.slots) : page.slots[i].gen \in 1..LastGen
    BY Directory
  <1>2. LastGen \in Nat /\ LastGen # 0
    BY DEF HeapAssumption
  <1>3. CASE Vacant(page) = {}
    <2>1. SlotFor(page) = Len(page.slots) + 1 /\ GenFor(page) = 1
      BY <1>3 DEF SlotFor, GenFor
    <2> QED BY <1>1, <1>2, <1>3, <2>1
  <1>4. CASE Vacant(page) # {}
    <2>1. Vacant(page) \in SUBSET Nat
      BY <1>1 DEF Vacant
    <2>2. \E i \in Vacant(page) : \A j \in Vacant(page) : i <= j
      BY <1>4, <2>1, Least
    <2>3. First(Vacant(page)) \in Vacant(page)
      BY <2>2 DEF First
    <2>4. SlotFor(page) = First(Vacant(page)) /\ GenFor(page) = page.slots[SlotFor(page)].gen + 1
      BY <1>4 DEF SlotFor, GenFor
    <2>5. /\ SlotFor(page) \in 1..Len(page.slots) /\ page.slots[SlotFor(page)].length = 0
          /\ page.slots[SlotFor(page)].gen # LastGen
      BY <1>1, <2>3, <2>4 DEF Vacant
    <2>6. SlotFor(page) \notin Live(page)
      BY <2>5 DEF Live
    <2>7. GenFor(page) \in 1..LastGen
      BY <1>1, <1>2, <2>4, <2>5
    <2> QED BY <1>1, <1>4, <2>4, <2>5, <2>6, <2>7
  <1> QED BY <1>3, <1>4

Written(old, slots, cells, lower) == [old EXCEPT !.slots = slots, !.cells = cells, !.lower = lower]

LEMMA WrittenIs ==
    ASSUME NEW old \in Page, NEW slots, NEW cells, NEW lower
    PROVE  Written(old, slots, cells, lower) =
               [owner |-> old.owner, gen |-> old.gen, slots |-> slots, cells |-> cells,
                lower |-> lower]
  <1> DEFINE new == Written(old, slots, cells, lower)
  <1>1. DOMAIN new = {"owner", "gen", "slots", "cells", "lower"}
    BY DEF Page, Written
  <1>2. new.owner = old.owner /\ new.gen = old.gen
    BY DEF Page, Written
  <1>3. new.slots = slots /\ new.cells = cells /\ new.lower = lower
    BY DEF Page, Written
  <1> HIDE DEF new
  <1>4. new = [f \in DOMAIN new |-> new[f]]
    BY DEF new, Written
  <1>5. new = [owner |-> old.owner, gen |-> old.gen, slots |-> slots, cells |-> cells, lower |-> lower]
    BY <1>1, <1>2, <1>3, <1>4
  <1> QED BY <1>5 DEF new

LEMMA InsertedIs ==
    ASSUME HeapAssumption, NEW page, Packed(page), NEW row \in Rows, NEW old, old = Compacted(page)
    PROVE  LET done == Inserted(page, row) IN
           /\ done.slot = SlotFor(page) /\ done.gen = GenFor(page)
           /\ done.page = [owner |-> page.owner, gen |-> page.gen,
                  slots |-> [i \in 1..Len(page.slots) \cup {SlotFor(page)} |->
                                IF i = SlotFor(page) THEN Entry(page, row) ELSE old.slots[i]],
                  cells |-> [c \in 1..PageSize |->
                                IF Before(page, row) < c /\ c <= Before(page, row) + Size[row] THEN row
                                ELSE old.cells[c]],
                  lower |-> Before(page, row)]
  <1> DEFINE done == Inserted(page, row)
  <1>1. page \in Page
    BY DEF Packed
  <1>2. /\ old \in Page /\ old.owner = page.owner /\ old.gen = page.gen
        /\ Len(old.slots) = Len(page.slots) /\ old.lower = End(page, Len(page.slots))
    BY CompactedPacked
  <1>3. DOMAIN old.slots = 1..Len(page.slots)
    BY <1>2, Directory
  <1>4. SlotFor(page) = (IF Vacant(page) # {} THEN First(Vacant(page)) ELSE Len(page.slots) + 1)
    BY DEF SlotFor
  <1>5. done.slot = SlotFor(page)
    BY DEF Inserted, SlotFor
  <1>6. GenFor(page) = (IF SlotFor(page) = Len(page.slots) + 1 THEN 1 ELSE page.slots[SlotFor(page)].gen + 1)
    <2>1. SlotFor(page) = Len(page.slots) + 1 <=> Vacant(page) = {}
      BY <1>1, SlotIs
    <2> QED BY <2>1 DEF SlotFor, GenFor
  <1>7. done.gen = GenFor(page)
    BY <1>6 DEF Inserted, SlotFor
  <1> DEFINE slots == [i \in 1..Len(page.slots) \cup {SlotFor(page)} |->
                           IF i = SlotFor(page) THEN Entry(page, row) ELSE old.slots[i]]
             cells == [c \in 1..PageSize |->
                           IF Before(page, row) < c /\ c <= Before(page, row) + Size[row] THEN row
                           ELSE old.cells[c]]
  <1>8. done.page = Written(old, slots, cells, Before(page, row))
    BY <1>2, <1>3, <1>6 DEF Inserted, SlotFor, Entry, Before, Written
  <1> HIDE DEF done
  <1>9. done.page = [owner |-> page.owner, gen |-> page.gen, slots |-> slots, cells |-> cells,
                      lower |-> Before(page, row)]
    <2> HIDE DEF slots, cells
    <2> QED BY <1>2, <1>8, WrittenIs
  <1> QED BY <1>5, <1>7, <1>9 DEF done

LEMMA Room ==
    ASSUME NEW cells \in Nat, NEW n \in Nat, NEW used \in Nat, NEW size \in Nat, NEW k \in Nat,
           size + k <= cells - n - used
    PROVE  /\ cells - used <= cells /\ cells - used - size \in Nat
           /\ cells - used - size + size = cells - used
           /\ n + k <= cells - used - size /\ n + k + used + size <= cells
           /\ n <= cells - used - size /\ n + used + size <= cells
  OBVIOUS

\* The room of a page that takes one more record.
LEMMA RoomLeft ==
    ASSUME HeapAssumption, NEW page, Packed(page), NEW row \in Rows, Fits(page, row),
           NEW n, n = Len(page.slots)
    PROVE  /\ n \in Nat /\ Size[row] \in Nat /\ Size[row] # 0 /\ PageSize \in Nat
           /\ Used(page, n) \in Nat /\ Before(page, row) \in Nat
           /\ Before(page, row) + Size[row] = End(page, n) /\ End(page, n) <= PageSize
           /\ Vacant(page) = {} => n + 1 <= Before(page, row)
                                   /\ n + 1 + Used(page, n) + Size[row] <= PageSize
           /\ n <= Before(page, row) /\ n + Used(page, n) + Size[row] <= PageSize
  <1>1. PageSize \in Nat /\ Size[row] \in Nat /\ Size[row] # 0
    BY DEF HeapAssumption
  <1>2. page \in Page
    BY DEF Packed
  <1>3. n \in Nat
    BY <1>2, Directory
  <1>4. Used(page, n) \in Nat /\ n + Used(page, n) <= PageSize
    BY Ends DEF Packed
  <1>5. End(page, n) = PageSize - Used(page, n) /\ Before(page, row) = PageSize - Used(page, n) - Size[row]
    BY DEF End, Before
  <1> DEFINE k == IF Vacant(page) = {} THEN 1 ELSE 0
  <1>6. Size[row] + k <= PageSize - n - Used(page, n)
    BY DEF Fits, FreeSpace
  <1>7. k \in Nat /\ (Vacant(page) = {} => k = 1)
    OBVIOUS
  <1> HIDE DEF k
  <1> DEFINE end == PageSize - Used(page, n)
             cell == PageSize - Used(page, n) - Size[row]
  <1>8. /\ end <= PageSize /\ cell \in Nat /\ cell + Size[row] = end
        /\ n + k <= cell /\ n + k + Used(page, n) + Size[row] <= PageSize
        /\ n <= cell /\ n + Used(page, n) + Size[row] <= PageSize
    <2> DEFINE used == Used(page, n)
               size == Size[row]
    <2>1. used \in Nat /\ size \in Nat /\ size + k <= PageSize - n - used
      BY <1>1, <1>4, <1>6
    <2> HIDE DEF used, size
    <2>2. PageSize \in Nat /\ n \in Nat /\ k \in Nat
      BY <1>1, <1>3, <1>7
    <2>3. /\ PageSize - used <= PageSize /\ PageSize - used - size \in Nat
          /\ PageSize - used - size + size = PageSize - used
          /\ n + k <= PageSize - used - size /\ n + k + used + size <= PageSize
          /\ n <= PageSize - used - size /\ n + used + size <= PageSize
      BY ONLY <2>1, <2>2, Room
    <2> QED BY <2>3 DEF used, size
  <1>9. end = End(page, n) /\ cell = Before(page, row)
    BY <1>5
  <1> HIDE DEF end, cell
  <1>10. Vacant(page) = {} => n + 1 <= Before(page, row) /\ n + 1 + Used(page, n) + Size[row] <= PageSize
    BY <1>7, <1>8, <1>9
  <1> QED BY <1>1, <1>3, <1>4, <1>8, <1>9, <1>10

\* The directory after an insertion.
LEMMA InsertedSlots ==
    ASSUME HeapAssumption, NEW page, Packed(page), NEW row \in Rows, Fits(page, row),
           NEW new, new = Inserted(page, row).page
    PROVE  /\ new \in Page /\ new.owner = page.owner /\ new.gen = page.gen
           /\ Len(new.slots) \in Nat /\ Len(page.slots) <= Len(new.slots)
           /\ Len(new.slots) = (IF Vacant(page) = {} THEN Len(page.slots) + 1 ELSE Len(page.slots))
           /\ SlotFor(page) \in 1..Len(new.slots)
           /\ new.slots[SlotFor(page)] = Entry(page, row)
           /\ \A i \in 1..Len(new.slots) : i # SlotFor(page) =>
                  /\ i \in 1..Len(page.slots)
                  /\ new.slots[i].gen = page.slots[i].gen /\ new.slots[i].length = page.slots[i].length
                  /\ i \in Live(page) => new.slots[i].offset = End(page, i)
  <1> DEFINE n == Len(page.slots)
             slot == SlotFor(page)
             m == IF Vacant(page) = {} THEN n + 1 ELSE n
             old == Compacted(page)
  <1>1. /\ n \in Nat /\ Size[row] \in Nat /\ Size[row] # 0 /\ PageSize \in Nat
        /\ Before(page, row) \in Nat
        /\ Before(page, row) + Size[row] = End(page, n) /\ End(page, n) <= PageSize
    BY RoomLeft
  <1>2. /\ old \in Page /\ old.owner = page.owner /\ old.gen = page.gen /\ Len(old.slots) = n
        /\ \A i \in 1..n :
               /\ old.slots[i].gen = page.slots[i].gen
               /\ old.slots[i].length = page.slots[i].length
               /\ i \in Live(page) => old.slots[i].offset = End(page, i)
    BY CompactedPacked
  <1>3. page \in Page
    BY DEF Packed
  <1>4. /\ slot \in 1..n + 1 /\ GenFor(page) \in 1..LastGen
        /\ slot = n + 1 <=> Vacant(page) = {}
    BY <1>3, SlotIs
  <1>5. m \in Nat /\ slot \in 1..m /\ n <= m /\ 1..n \cup {slot} = 1..m
    BY <1>1, <1>4
  <1>6. /\ new.owner = page.owner /\ new.gen = page.gen
        /\ new.slots = [i \in 1..m |-> IF i = slot THEN Entry(page, row) ELSE old.slots[i]]
        /\ new.lower = Before(page, row)
        /\ new.cells = [c \in 1..PageSize |->
                            IF Before(page, row) < c /\ c <= Before(page, row) + Size[row] THEN row
                            ELSE old.cells[c]]
        /\ DOMAIN new = {"owner", "gen", "slots", "cells", "lower"}
        /\ new = [owner |-> new.owner, gen |-> new.gen, slots |-> new.slots,
                  cells |-> new.cells, lower |-> new.lower]
    <2>1. new = [owner |-> page.owner, gen |-> page.gen,
                 slots |-> [i \in 1..n \cup {slot} |->
                               IF i = slot THEN Entry(page, row) ELSE old.slots[i]],
                 cells |-> [c \in 1..PageSize |->
                               IF Before(page, row) < c /\ c <= Before(page, row) + Size[row] THEN row
                               ELSE old.cells[c]],
                 lower |-> Before(page, row)]
      BY InsertedIs
    <2> HIDE DEF n, m, slot, old
    <2> QED BY <1>5, <2>1
  <1>7. \A i \in 1..n : old.slots[i] \in Slot
    BY <1>2, Directory
  <1>8. Entry(page, row) \in Slot
    BY <1>1, <1>4 DEF Entry, Slot
  <1>9. \A i \in 1..m : i # slot => i \in 1..n
    BY <1>1, <1>5
  <1> HIDE DEF m, n, slot, old
  <1>10. new.slots \in [1..m -> Slot]
    BY <1>6, <1>7, <1>8, <1>9
  <1>11. new.slots \in Seq(Slot) /\ Len(new.slots) = m
    BY <1>5, <1>6, <1>10, SeqDef, LenProperties
  <1>12. new \in Page
    <2>1. old.cells \in [1..PageSize -> Rows \cup {None}]
      BY <1>2 DEF Page
    <2>2. new.cells \in [1..PageSize -> Rows \cup {None}]
      <3>1. ASSUME NEW c \in 1..PageSize
            PROVE  new.cells[c] \in Rows \cup {None}
        <4>1. old.cells[c] \in Rows \cup {None}
          BY <2>1
        <4>2. new.cells[c] = row \/ new.cells[c] = old.cells[c]
          BY <1>6
        <4> QED BY <4>1, <4>2
      <3>2. DOMAIN new.cells = 1..PageSize /\ new.cells = [c \in DOMAIN new.cells |-> new.cells[c]]
        BY <1>6
      <3> QED BY <3>1, <3>2
    <2>3. new.lower \in 0..PageSize
      BY <1>1, <1>6
    <2>4. page.owner \in Tables \cup {None} /\ page.gen \in Nat
      BY <1>3 DEF Page
    <2> QED BY <1>6, <1>11, <2>2, <2>3, <2>4 DEF Page
  <1>13. new.slots[slot] = Entry(page, row)
    BY <1>5, <1>6
  <1>14. ASSUME NEW i \in 1..m, i # slot
         PROVE  /\ i \in 1..n
                /\ new.slots[i].gen = page.slots[i].gen /\ new.slots[i].length = page.slots[i].length
                /\ i \in Live(page) => new.slots[i].offset = End(page, i)
    <2>1. i \in 1..n /\ new.slots[i] = old.slots[i]
      BY <1>6, <1>9, <1>14
    <2> QED BY <1>2, <2>1
  <1> QED BY <1>5, <1>6, <1>11, <1>12, <1>13, <1>14 DEF m, n, slot

\* How a record was added to a page.
Takes(page, new, row, slot, gen) ==
    /\ Packed(new) /\ new.owner = page.owner /\ new.gen = page.gen
    /\ Len(page.slots) <= Len(new.slots) /\ slot \in 1..Len(new.slots)
    /\ slot \notin Live(page) /\ Live(new) = Live(page) \cup {slot}
    /\ new.slots[slot].gen = gen /\ Holds(new, slot, row)
    /\ slot \in 1..Len(page.slots) => gen = page.slots[slot].gen + 1
    /\ \A i \in 1..Len(page.slots) : i # slot =>
           /\ new.slots[i].gen = page.slots[i].gen /\ new.slots[i].length = page.slots[i].length
    /\ \A i \in Live(page), r \in Rows : Holds(page, i, r) => Holds(new, i, r)

\* A page takes a record that fits: it stays packed, the record is in a slot that
\* had none, under the next generation, and the others hold what they held.
LEMMA InsertedTakes ==
    ASSUME HeapAssumption, NEW page, Packed(page), NEW row \in Rows, Fits(page, row),
           NEW done, done = Inserted(page, row)
    PROVE  Takes(page, done.page, row, done.slot, done.gen)
  <1> DEFINE n == Len(page.slots)
             slot == SlotFor(page)
             new == done.page
             m == Len(new.slots)
             lo == Before(page, row)
             old == Compacted(page)
  <1>1. /\ n \in Nat /\ Size[row] \in Nat /\ Size[row] # 0 /\ PageSize \in Nat
        /\ Used(page, n) \in Nat /\ lo \in Nat
        /\ lo + Size[row] = End(page, n) /\ End(page, n) <= PageSize
        /\ Vacant(page) = {} => n + 1 <= lo /\ n + 1 + Used(page, n) + Size[row] <= PageSize
        /\ n <= lo /\ n + Used(page, n) + Size[row] <= PageSize
    BY RoomLeft
  <1>2. page \in Page
    BY DEF Packed
  <1>3. /\ slot \in 1..n + 1 /\ slot \notin Live(page)
        /\ slot = n + 1 <=> Vacant(page) = {}
        /\ slot \in 1..n => GenFor(page) = page.slots[slot].gen + 1 /\ page.slots[slot].length = 0
    BY <1>2, SlotIs
  <1>4. /\ new \in Page /\ new.owner = page.owner /\ new.gen = page.gen
        /\ m \in Nat /\ n <= m /\ m = (IF Vacant(page) = {} THEN n + 1 ELSE n)
        /\ slot \in 1..m /\ new.slots[slot] = Entry(page, row)
        /\ \A i \in 1..m : i # slot =>
               /\ i \in 1..n
               /\ new.slots[i].gen = page.slots[i].gen /\ new.slots[i].length = page.slots[i].length
               /\ i \in Live(page) => new.slots[i].offset = End(page, i)
    BY InsertedSlots
  <1>5. /\ done.slot = slot /\ done.gen = GenFor(page)
        /\ new.lower = lo
        /\ new.cells = [c \in 1..PageSize |->
                            IF lo < c /\ c <= lo + Size[row] THEN row ELSE old.cells[c]]
    <2>1. /\ done.slot = slot /\ done.gen = GenFor(page)
          /\ new = [owner |-> page.owner, gen |-> page.gen,
                    slots |-> [i \in 1..n \cup {slot} |->
                                  IF i = slot THEN Entry(page, row) ELSE old.slots[i]],
                    cells |-> [c \in 1..PageSize |->
                                  IF lo < c /\ c <= lo + Size[row] THEN row ELSE old.cells[c]],
                    lower |-> lo]
      BY InsertedIs
    <2> HIDE DEF n, new, slot, old, lo
    <2> QED BY <2>1
  <1>6. new.slots[slot].gen = GenFor(page) /\ new.slots[slot].offset = lo
        /\ new.slots[slot].length = Size[row]
    BY <1>4 DEF Entry
  <1>7. /\ Live(page) \subseteq 1..n
        /\ \A i \in 1..n : i \in Live(page) <=> page.slots[i].length # 0
        /\ \A i \in 1..n : page.slots[i].length \in Nat /\ page.slots[i].offset \in Nat
        /\ Lengths(page)
    BY <1>2, Directory
  <1>8. /\ Live(new) \subseteq 1..m
        /\ \A i \in 1..m : i \in Live(new) <=> new.slots[i].length # 0
        /\ Lengths(new)
    BY <1>4, Directory
  <1>9. /\ \A i \in 1..n : /\ End(page, i) \in Nat /\ End(page, n) <= End(page, i)
                           /\ End(page, i) + page.slots[i].length <= PageSize
        /\ \A i, j \in 1..n : i < j => End(page, j) + page.slots[j].length <= End(page, i)
    BY Ends
  <1>10. \A i \in Live(page) : \A c \in End(page, i) + 1..End(page, i) + page.slots[i].length :
             old.cells[c] = page.cells[page.slots[i].offset + (c - End(page, i))]
    BY CompactedPacked
  <1> HIDE DEF n, slot, new, m, lo, old
  <1>11. Live(new) = Live(page) \cup {slot}
    <2>1. ASSUME NEW i \in 1..m, i # slot
          PROVE  i \in Live(new) <=> i \in Live(page)
      BY <1>4, <1>7, <1>8, <2>1
    <2>2. slot \in Live(new)
      BY <1>1, <1>4, <1>6, <1>8
    <2>3. \A i \in Live(page) : i \in 1..m /\ i # slot
      BY <1>3, <1>4, <1>7, <1>1
    <2> QED BY <1>8, <2>1, <2>2, <2>3
  <1>12. m + Used(new, m) <= PageSize
    <2>1. CASE Vacant(page) # {}
      <3>1. m = n /\ slot \in 1..n
        BY <1>4, <2>1
      <3>2. new.slots[slot].length = page.slots[slot].length + Size[row]
        BY <1>1, <1>3, <1>6, <3>1
      <3>3. Used(new, n) = Used(page, n) + Size[row]
        <4>1. n <= Len(page.slots) /\ n <= Len(new.slots) /\ Size[row] \in Int
          BY <1>1, <3>1 DEF n, m
        <4>2. \A i \in 1..n : i # slot => new.slots[i].length = page.slots[i].length
          BY <1>4, <3>1
        <4>3. Differs(page, new, n, slot, Size[row])
          BY <1>1, <1>7, <1>8, <3>1, <3>2, <4>1, <4>2 DEF Differs
        <4> QED BY <4>3, UsedChanges
      <3> QED BY <1>1, <3>1, <3>3
    <2>2. CASE Vacant(page) = {}
      <3>1. m = n + 1 /\ slot = n + 1
        BY <1>3, <1>4, <2>2
      <3>2. Used(new, n) = Used(page, n)
        <4>1. CASE n = 0
          BY <1>7, <1>8, <4>1, UsedRule
        <4>2. CASE n # 0
          <5>1. 1 \in 1..n /\ n <= Len(page.slots) /\ n <= Len(new.slots)
            BY <1>1, <3>1, <4>2 DEF n, m
          <5>2. \A i \in 1..n : new.slots[i].length = page.slots[i].length
            BY <1>1, <1>4, <3>1
          <5>3. new.slots[1].length = page.slots[1].length + 0
            BY <1>7, <5>1, <5>2
          <5>4. Differs(page, new, n, 1, 0)
            BY <1>1, <1>7, <1>8, <5>1, <5>2, <5>3 DEF Differs
          <5>5. Used(new, n) = Used(page, n) + 0
            BY <5>4, UsedChanges
          <5> QED BY <1>1, <5>5
        <4> QED BY <4>1, <4>2
      <3>3. Used(new, m) = new.slots[m].length + Used(new, n)
        <4>1. m \in 1..Len(new.slots) /\ m - 1 = n
          BY <1>1, <3>1 DEF m
        <4> QED BY <1>8, <4>1, UsedRule
      <3> QED BY <1>1, <1>6, <2>2, <3>1, <3>2, <3>3
    <2> QED BY <2>1, <2>2
  <1>13. m <= new.lower
    BY <1>1, <1>4, <1>5
  <1>14. \A i \in Live(page) : /\ i \in 1..n /\ i # slot /\ i \in 1..m
                               /\ new.slots[i].offset = End(page, i)
                               /\ new.slots[i].length = page.slots[i].length
    BY <1>1, <1>3, <1>4, <1>7
  <1>15. ASSUME NEW i \in Live(new)
         PROVE  /\ new.lower <= new.slots[i].offset
                /\ new.slots[i].offset + new.slots[i].length <= PageSize
    <2>1. CASE i = slot
      BY <1>1, <1>5, <1>6, <2>1
    <2>2. CASE i # slot
      <3>1. i \in Live(page)
        BY <1>11, <2>2
      <3>2. /\ new.slots[i].offset = End(page, i) /\ new.slots[i].length = page.slots[i].length
            /\ End(page, n) <= End(page, i) /\ End(page, i) + page.slots[i].length <= PageSize
            /\ End(page, i) \in Nat
        BY <1>9, <1>14, <3>1
      <3>3. lo <= End(page, n) /\ End(page, n) \in Nat
        BY <1>1
      <3> QED BY <1>1, <1>5, <3>2, <3>3
    <2> QED BY <2>1, <2>2
  <1>16. ASSUME NEW i \in Live(new), NEW j \in Live(new), i # j
         PROVE  Apart(new.slots[i], new.slots[j])
    <2>1. CASE i = slot
      <3>1. j \in Live(page)
        BY <1>11, <1>16, <2>1
      <3> QED BY <1>1, <1>6, <1>9, <1>14, <2>1, <3>1 DEF Apart
    <2>2. CASE j = slot
      <3>1. i \in Live(page)
        BY <1>11, <1>16, <2>2
      <3> QED BY <1>1, <1>6, <1>9, <1>14, <2>2, <3>1 DEF Apart
    <2>3. CASE i # slot /\ j # slot
      <3>1. i \in Live(page) /\ j \in Live(page)
        BY <1>11, <2>3
      <3>2. i < j \/ j < i
        BY <1>1, <1>14, <1>16, <3>1
      <3> QED BY <1>9, <1>14, <3>1, <3>2 DEF Apart
    <2> QED BY <2>1, <2>2, <2>3
  <1>17. Packed(new)
    BY <1>4, <1>12, <1>13, <1>15, <1>16 DEF Packed, m
  <1>18. Holds(new, slot, row)
    <2>1. ASSUME NEW c \in new.slots[slot].offset + 1..new.slots[slot].offset + new.slots[slot].length
          PROVE  new.cells[c] = row
      <3>1. c \in 1..PageSize /\ lo < c /\ c <= lo + Size[row]
        BY <1>1, <1>6
      <3> QED BY <1>5, <3>1
    <2>2. slot \in Live(new)
      BY <1>11
    <2> QED BY <1>6, <2>1, <2>2 DEF Holds
  <1>19. ASSUME NEW i \in Live(page), NEW r \in Rows, Holds(page, i, r)
         PROVE  Holds(new, i, r)
    <2>1. /\ i \in 1..n /\ new.slots[i].offset = End(page, i)
          /\ new.slots[i].length = page.slots[i].length /\ i \in Live(new)
      BY <1>11, <1>14
    <2>2. /\ End(page, i) \in Nat /\ End(page, n) <= End(page, i) /\ page.slots[i].offset \in Nat
          /\ page.slots[i].length \in Nat /\ End(page, i) + page.slots[i].length <= PageSize
      BY <1>7, <1>9, <2>1
    <2>3. ASSUME NEW c \in End(page, i) + 1..End(page, i) + page.slots[i].length
          PROVE  new.cells[c] = r
      <3>1. c \in 1..PageSize /\ ~(c <= lo + Size[row])
        BY <1>1, <2>2
      <3>2. new.cells[c] = old.cells[c]
        BY <1>5, <3>1
      <3>3. old.cells[c] = page.cells[page.slots[i].offset + (c - End(page, i))]
        BY <1>10
      <3>4. page.slots[i].offset + (c - End(page, i)) \in
                page.slots[i].offset + 1..page.slots[i].offset + page.slots[i].length
        BY <2>2
      <3> QED BY <1>19, <3>2, <3>3, <3>4 DEF Holds
    <2> QED BY <1>19, <2>1, <2>3 DEF Holds
  <1>20. \A i \in 1..n : i # slot =>
             /\ new.slots[i].gen = page.slots[i].gen /\ new.slots[i].length = page.slots[i].length
    BY <1>1, <1>4
  <1>21. slot \in 1..n => GenFor(page) = page.slots[slot].gen + 1
    BY <1>3
  <1> QED BY <1>3, <1>4, <1>5, <1>6, <1>11, <1>17, <1>18, <1>19, <1>20, <1>21 DEF Takes, n, m, new

-----------------------------------------------------------------------------
(* erase                                                                    *)

Emptied(page, slot) ==
    [page.slots EXCEPT ![slot] = [page.slots[slot] EXCEPT !.offset = 0, !.length = 0]]
Cleared(page, slot) ==
    [c \in 1..PageSize |->
        IF page.slots[slot].offset < c /\ c <= page.slots[slot].offset + page.slots[slot].length
        THEN None ELSE page.cells[c]]

LEMMA ErasedIs ==
    ASSUME NEW page \in Page, NEW slot \in 1..Len(page.slots), NEW new, new = Erased(page, slot)
    PROVE  /\ new.owner = page.owner /\ new.gen = page.gen /\ new.lower = page.lower
           /\ new.slots = Emptied(page, slot) /\ new.cells = Cleared(page, slot)
           /\ DOMAIN new = {"owner", "gen", "slots", "cells", "lower"}
           /\ new = [f \in DOMAIN new |-> new[f]]
  BY DEF Erased, Page, Emptied, Cleared

LEMMA ErasedSlots ==
    ASSUME NEW page \in Page, NEW slot \in 1..Len(page.slots), NEW new, new = Erased(page, slot)
    PROVE  /\ new \in Page /\ Len(new.slots) = Len(page.slots)
           /\ \A i \in 1..Len(page.slots) : i # slot => new.slots[i] = page.slots[i]
           /\ new.slots[slot].gen = page.slots[slot].gen /\ new.slots[slot].length = 0
  <1> DEFINE n == Len(page.slots)
             empty == [page.slots[slot] EXCEPT !.offset = 0, !.length = 0]
  <1>1. /\ n \in Nat /\ DOMAIN page.slots = 1..n /\ page.slots \in Seq(Slot)
        /\ \A i \in 1..n : page.slots[i] \in Slot
    BY Directory DEF Lengths
  <1>2. empty \in Slot /\ empty.gen = page.slots[slot].gen /\ empty.length = 0
    BY <1>1 DEF Slot
  <1>3. /\ new.owner = page.owner /\ new.gen = page.gen /\ new.lower = page.lower
        /\ new.slots = Emptied(page, slot) /\ new.cells = Cleared(page, slot)
        /\ DOMAIN new = {"owner", "gen", "slots", "cells", "lower"}
        /\ new = [f \in DOMAIN new |-> new[f]]
    BY ErasedIs
  <1>4. Emptied(page, slot) = [page.slots EXCEPT ![slot] = empty]
    BY DEF Emptied
  <1> HIDE DEF n, empty
  <1>5. page.slots \in [1..n -> Slot] /\ slot \in 1..n
    BY <1>1, LenProperties DEF n
  <1>6. new.slots \in [1..n -> Slot]
    BY <1>2, <1>3, <1>4, <1>5
  <1>7. new.slots \in Seq(Slot) /\ Len(new.slots) = n
    BY <1>1, <1>6, SeqDef, LenProperties
  <1>8. new.cells \in [1..PageSize -> Rows \cup {None}]
    <2>1. page.cells \in [1..PageSize -> Rows \cup {None}]
      BY DEF Page
    <2>2. ASSUME NEW c \in 1..PageSize
          PROVE  new.cells[c] \in Rows \cup {None}
      <3>1. page.cells[c] \in Rows \cup {None}
        BY <2>1
      <3>2. new.cells[c] = None \/ new.cells[c] = page.cells[c]
        BY <1>3 DEF Cleared
      <3> QED BY <3>1, <3>2
    <2>3. DOMAIN new.cells = 1..PageSize /\ new.cells = [c \in DOMAIN new.cells |-> new.cells[c]]
      BY <1>3 DEF Cleared
    <2> QED BY <2>2, <2>3
  <1>9. new \in Page
    <2>1. page.owner \in Tables \cup {None} /\ page.gen \in Nat /\ page.lower \in 0..PageSize
      BY DEF Page
    <2>2. new = [owner |-> new.owner, gen |-> new.gen, slots |-> new.slots, cells |-> new.cells,
                 lower |-> new.lower]
      BY <1>3
    <2> QED BY <1>3, <1>7, <1>8, <2>1, <2>2 DEF Page
  <1>10. \A i \in 1..n : i # slot => new.slots[i] = page.slots[i]
    BY <1>3, <1>4, <1>5
  <1>11. new.slots[slot] = empty
    BY <1>3, <1>4, <1>5
  <1> QED BY <1>2, <1>7, <1>9, <1>10, <1>11 DEF n

\* How a record was erased.
Drops(page, new, slot) ==
    /\ Packed(new) /\ new.owner = page.owner /\ new.gen = page.gen
    /\ Len(new.slots) = Len(page.slots)
    /\ Live(new) = Live(page) \ {slot}
    /\ new.slots[slot].gen = page.slots[slot].gen /\ new.slots[slot].length = 0
    /\ \A i \in 1..Len(page.slots) : i # slot => new.slots[i] = page.slots[i]
    /\ \A i \in Live(page) \ {slot}, r \in Rows : Holds(page, i, r) => Holds(new, i, r)

\* A record that is erased leaves the page packed and the others as they were.
LEMMA ErasedDrops ==
    ASSUME HeapAssumption, NEW page, Packed(page), NEW slot \in Live(page),
           NEW new, new = Erased(page, slot)
    PROVE  Drops(page, new, slot)
  <1> DEFINE n == Len(page.slots)
  <1>1. page \in Page /\ PageSize \in Nat
    BY DEF Packed, HeapAssumption
  <1>2. /\ n \in Nat /\ Live(page) \subseteq 1..n /\ Lengths(page)
        /\ \A i \in 1..n : i \in Live(page) <=> page.slots[i].length # 0
        /\ \A i \in 1..n : page.slots[i].length \in Nat /\ page.slots[i].offset \in Nat
    BY <1>1, Directory
  <1>3. slot \in 1..n
    BY <1>2
  <1>4. /\ new \in Page /\ Len(new.slots) = n
        /\ \A i \in 1..n : i # slot => new.slots[i] = page.slots[i]
        /\ new.slots[slot].gen = page.slots[slot].gen /\ new.slots[slot].length = 0
    BY <1>1, <1>3, ErasedSlots
  <1>5. /\ new.owner = page.owner /\ new.gen = page.gen /\ new.lower = page.lower
        /\ new.cells = Cleared(page, slot)
    BY <1>1, <1>3, ErasedIs
  <1>6. /\ Live(new) \subseteq 1..n /\ Lengths(new)
        /\ \A i \in 1..n : i \in Live(new) <=> new.slots[i].length # 0
    BY <1>4, Directory
  <1>7. /\ n + Used(page, n) <= PageSize /\ n <= page.lower
        /\ \A i \in Live(page) :
               /\ page.lower <= page.slots[i].offset
               /\ page.slots[i].offset + page.slots[i].length <= PageSize
        /\ \A i, j \in Live(page) : i # j => Apart(page.slots[i], page.slots[j])
    BY DEF Packed
  <1>8. Used(page, n) \in Nat
    BY Ends
  <1>9. Used(new, n) = Used(page, n) + (0 - page.slots[slot].length)
    <2>1. /\ 0 - page.slots[slot].length \in Int
          /\ new.slots[slot].length = page.slots[slot].length + (0 - page.slots[slot].length)
      BY <1>2, <1>3, <1>4
    <2>2. \A i \in 1..n : i # slot => new.slots[i].length = page.slots[i].length
      BY <1>4
    <2>3. n <= Len(page.slots) /\ n <= Len(new.slots)
      BY <1>2, <1>4
    <2>4. Differs(page, new, n, slot, 0 - page.slots[slot].length)
      BY <1>2, <1>3, <1>6, <2>1, <2>2, <2>3 DEF Differs
    <2> QED BY <2>4, UsedChanges
  <1> HIDE DEF n
  <1>10. n + Used(new, n) <= PageSize
    BY <1>1, <1>2, <1>3, <1>7, <1>8, <1>9
  <1>11. Live(new) = Live(page) \ {slot}
    <2>1. slot \notin Live(new)
      BY <1>3, <1>4, <1>6
    <2>2. \A i \in 1..n : i # slot => (i \in Live(new) <=> i \in Live(page))
      BY <1>2, <1>4, <1>6
    <2> QED BY <1>2, <1>6, <2>1, <2>2
  <1>12. \A i \in Live(new) : i \in Live(page) /\ i # slot /\ new.slots[i] = page.slots[i]
    BY <1>2, <1>4, <1>11
  <1>13. Packed(new)
    BY <1>4, <1>5, <1>7, <1>10, <1>12 DEF Packed
  <1>14. ASSUME NEW i \in Live(page) \ {slot}, NEW r \in Rows, Holds(page, i, r)
         PROVE  Holds(new, i, r)
    <2>1. new.slots[i] = page.slots[i] /\ i \in Live(new) /\ i \in 1..n /\ i \in Live(page)
      BY <1>2, <1>4, <1>11
    <2>2. Apart(page.slots[i], page.slots[slot])
      BY <1>7
    <2>3. ASSUME NEW c \in page.slots[i].offset + 1..page.slots[i].offset + page.slots[i].length
          PROVE  new.cells[c] = r
      <3>1. page.slots[i].offset + page.slots[i].length <= PageSize
        BY <1>7, <2>1
      <3>2. /\ page.slots[i].offset \in Nat /\ page.slots[i].length \in Nat
            /\ page.slots[slot].offset \in Nat /\ page.slots[slot].length \in Nat
        BY <1>2, <1>3, <2>1
      <3>3. c \in 1..PageSize
        BY <1>1, <3>1, <3>2
      <3>4. ~(page.slots[slot].offset < c /\ c <= page.slots[slot].offset + page.slots[slot].length)
        BY <2>2, <3>2 DEF Apart
      <3>5. new.cells[c] = page.cells[c]
        BY <1>5, <3>3, <3>4 DEF Cleared
      <3> QED BY <1>14, <3>5 DEF Holds
    <2> QED BY <1>14, <2>1, <2>3 DEF Holds
  <1> QED BY <1>4, <1>5, <1>11, <1>13, <1>14 DEF Drops, n

-----------------------------------------------------------------------------
(* The heap                                                                 *)

\* A page without rows has an empty directory and no owner.
PageOK(page) ==
    /\ Packed(page)
    /\ page.owner = None <=> Live(page) = {}
    /\ page.owner = None => page.slots = << >>

Ref(page, p, i) == <<p, page.gen, i, page.slots[i].gen>>

\* The row a reference is of is in the slot it names.
Reads(page, p, ref, entry) ==
    \E i \in Live(page) :
        /\ ref = Ref(page, p, i) /\ entry.table = page.owner
        /\ entry.row \in Rows /\ Holds(page, i, entry.row)

\* A reference is of a row that is gone: the page or its slot has a later
\* generation, or is empty.
Gone(page, ref) ==
    \/ ref[2] < page.gen
    \/ /\ page.gen = ref[2]
       /\ \/ page.owner = None
          \/ /\ ref[3] \in 1..Len(page.slots)
             /\ \/ ref[4] < page.slots[ref[3]].gen
                \/ page.slots[ref[3]].gen = ref[4] /\ page.slots[ref[3]].length = 0

HeapOK(P, R, S) ==
    /\ P \in [Pages -> Page] /\ \A p \in Pages : PageOK(P[p])
    /\ \A ref \in DOMAIN R : \E p \in Pages : Reads(P[p], p, ref, R[ref])
    /\ \A p \in Pages : \A i \in Live(P[p]) : Ref(P[p], p, i) \in DOMAIN R
    /\ S \subseteq Pages \X Nat \X Nat \X Nat /\ \A ref \in S : Gone(P[ref[1]], ref)

With(R, ref, t, row) ==
    [r \in DOMAIN R \cup {ref} |-> IF r = ref THEN [table |-> t, row |-> row] ELSE R[r]]

\* A page that has had rows of another table, or none, is under its next generation.
Renewed(page, t) == [page EXCEPT !.owner = t, !.gen = @ + 1]

LEMMA EmptyPage ==
    ASSUME HeapAssumption, NEW page \in Page, page.slots = << >>
    PROVE  /\ Packed(page) /\ Live(page) = {} /\ Vacant(page) = {} /\ Len(page.slots) = 0
           /\ \A row \in Rows : Fits(page, row)
  <1>1. /\ Len(page.slots) = 0 /\ DOMAIN page.slots = 1..Len(page.slots) /\ Lengths(page)
    BY Directory
  <1>2. Live(page) = {} /\ Vacant(page) = {}
    BY <1>1 DEF Live, Vacant
  <1>3. Used(page, 0) = 0
    BY <1>1, UsedRule
  <1>4. PageSize \in Nat /\ \A row \in Rows : Size[row] \in 1..PageSize - 1
    BY DEF HeapAssumption
  <1>5. Packed(page)
    <2>1. page.lower \in 0..PageSize
      BY DEF Page
    <2> QED BY <1>1, <1>2, <1>3, <1>4, <2>1 DEF Packed
  <1>6. ASSUME NEW row \in Rows
        PROVE  Fits(page, row)
    <2>1. FreeSpace(page) = PageSize
      BY <1>1, <1>3, <1>4 DEF FreeSpace
    <2> QED BY <1>2, <1>4, <2>1 DEF Fits
  <1> QED BY <1>1, <1>2, <1>5, <1>6

LEMMA RenewedIs ==
    ASSUME NEW page \in Page, NEW t \in Tables
    PROVE  LET new == Renewed(page, t) IN
           /\ new \in Page /\ new.owner = t /\ new.gen = page.gen + 1 /\ new.slots = page.slots
  <1> DEFINE new == Renewed(page, t)
  <1>1. /\ page.gen + 1 \in Nat /\ page.slots \in Seq(Slot)
        /\ page.cells \in [1..PageSize -> Rows \cup {None}] /\ page.lower \in 0..PageSize
    BY DEF Page
  <1>2. DOMAIN new = {"owner", "gen", "slots", "cells", "lower"} /\ new = [f \in DOMAIN new |-> new[f]]
    BY DEF Renewed, Page
  <1>3. /\ new.owner = t /\ new.gen = page.gen + 1 /\ new.slots = page.slots
        /\ new.cells = page.cells /\ new.lower = page.lower
    BY DEF Renewed, Page
  <1> HIDE DEF new
  <1>4. new = [owner |-> new.owner, gen |-> new.gen, slots |-> new.slots, cells |-> new.cells,
               lower |-> new.lower]
    BY <1>2
  <1>5. new \in Page
    BY <1>1, <1>3, <1>4 DEF Page
  <1> QED BY <1>3, <1>5 DEF new

\* canInsert accepts a page when insert does.
LEMMA CanFits ==
    ASSUME HeapAssumption, NEW page, Packed(page), NEW row \in Rows, CanInsert(page, Size[row])
    PROVE  Fits(page, row)
  <1>1. Size[row] \in Nat
    BY DEF HeapAssumption
  <1>2. CASE Vacant(page) = {}
    BY <1>1, <1>2 DEF CanInsert, Fits
  <1>3. CASE Vacant(page) # {}
    <2>1. Size[row] + 0 = Size[row]
      BY <1>1
    <2> QED BY <1>3, <2>1 DEF CanInsert, Fits
  <1> QED BY <1>2, <1>3

\* A row goes to a page of its table that takes it, or to one that had none.
LEMMA TargetFits ==
    ASSUME HeapAssumption, NEW P \in [Pages -> Page], \A p \in Pages : PageOK(P[p]),
           NEW t \in Tables, NEW row \in Rows, NEW target \in Target(P, t, row)
    PROVE  /\ target[1] \in Pages /\ Packed(target[2]) /\ target[2].owner = t
           /\ Fits(target[2], row)
           /\ \/ target[2] = P[target[1]]
              \/ P[target[1]].owner = None /\ target[2] = Renewed(P[target[1]], t)
  <1> DEFINE taking == {p \in Pages : P[p].owner = t /\ CanInsert(P[p], Size[row])}
  <1>1. CASE taking # {}
    <2>1. taking \in SUBSET Nat
      BY DEF HeapAssumption
    <2>2. \E p \in taking : \A q \in taking : p <= q
      BY <1>1, <2>1, Least
    <2>3. First(taking) \in taking
      BY <2>2 DEF First
    <2>4. target = <<First(taking), P[First(taking)]>>
      BY <1>1 DEF Target
    <2> HIDE DEF taking
    <2>5. target[1] = First(taking) /\ target[2] = P[target[1]]
      BY <2>4
    <2>6. target[1] \in Pages /\ target[2].owner = t /\ CanInsert(target[2], Size[row])
      BY <2>3, <2>5 DEF taking
    <2>7. Packed(target[2])
      BY <2>5, <2>6 DEF PageOK
    <2> QED BY <2>5, <2>6, <2>7, CanFits
  <1>2. CASE taking = {}
    <2>1. target \in {<<p, Renewed(P[p], t)>> : p \in {q \in Pages : P[q].owner = None /\ P[q].gen < MaxPageGen}}
      BY <1>2 DEF Target, Renewed
    <2>2. PICK p \in Pages : P[p].owner = None /\ target = <<p, Renewed(P[p], t)>>
      BY <2>1
    <2>3. target[1] = p /\ target[2] = Renewed(P[p], t)
      BY <2>2
    <2>4. P[p] \in Page /\ P[p].slots = << >>
      BY <2>2 DEF PageOK
    <2>5. target[2] \in Page /\ target[2].owner = t /\ target[2].slots = << >>
      BY <2>3, <2>4, RenewedIs
    <2> QED BY <2>2, <2>3, <2>5, EmptyPage
  <1> QED BY <1>1, <1>2

\* What was gone from a page that takes a row stays gone.
LEMMA GoneAfterTake ==
    ASSUME NEW page \in Page, NEW new, NEW row, NEW slot, NEW gen, Takes(page, new, row, slot, gen),
           page.owner # None, NEW ref \in Pages \X Nat \X Nat \X Nat, Gone(page, ref)
    PROVE  Gone(new, ref)
  <1> DEFINE i == ref[3]
  <1>1. /\ new \in Page /\ new.gen = page.gen /\ Len(page.slots) <= Len(new.slots)
        /\ new.slots[slot].gen = gen
        /\ slot \in 1..Len(page.slots) => gen = page.slots[slot].gen + 1
        /\ \A j \in 1..Len(page.slots) : j # slot =>
               new.slots[j].gen = page.slots[j].gen /\ new.slots[j].length = page.slots[j].length
    BY DEF Takes, Packed
  <1>2. CASE ref[2] < page.gen
    BY <1>1, <1>2 DEF Gone
  <1>3. CASE ~(ref[2] < page.gen)
    <2>1. /\ page.gen = ref[2] /\ i \in 1..Len(page.slots)
          /\ \/ ref[4] < page.slots[i].gen
             \/ page.slots[i].gen = ref[4] /\ page.slots[i].length = 0
      BY <1>3 DEF Gone
    <2>2. Len(page.slots) \in Nat /\ Len(new.slots) \in Nat
      BY <1>1, Directory
    <2>3. page.slots[i].gen \in Nat /\ ref[4] \in Nat
      <3>1. page.slots[i].gen \in 1..LastGen
        BY <2>1, Directory
      <3> QED BY <3>1
    <2> HIDE DEF i
    <2>4. i \in 1..Len(new.slots)
      BY <1>1, <2>1, <2>2
    <2>5. CASE i = slot
      <3>1. new.slots[i].gen = page.slots[i].gen + 1
        BY <1>1, <2>1, <2>5
      <3>2. ref[4] < new.slots[i].gen
        BY <2>1, <2>3, <3>1
      <3> QED BY <1>1, <2>1, <2>4, <3>2 DEF Gone, i
    <2>6. CASE i # slot
      <3>1. new.slots[i].gen = page.slots[i].gen /\ new.slots[i].length = page.slots[i].length
        BY <1>1, <2>1, <2>6
      <3> QED BY <1>1, <2>1, <2>4, <3>1 DEF Gone, i
    <2> QED BY <2>5, <2>6
  <1> QED BY <1>2, <1>3

\* A row that is inserted is found under a reference that was of none, and the
\* references that were given before are of what they were of.
LEMMA HeapInserts ==
    ASSUME HeapAssumption, NEW P, NEW R, NEW S, HeapOK(P, R, S),
           NEW t \in Tables, NEW row \in Rows, NEW target \in Target(P, t, row),
           NEW p, p = target[1], NEW page, page = target[2],
           NEW done, done = Inserted(page, row),
           NEW ref, ref = <<p, page.gen, done.slot, done.gen>>
    PROVE  /\ p \in Pages /\ Fits(page, row) /\ ref \notin DOMAIN R
           /\ HeapOK([P EXCEPT ![p] = done.page], With(R, ref, t, row), S)
  <1> DEFINE new == done.page
             slot == done.slot
             P2 == [P EXCEPT ![p] = new]
             R2 == With(R, ref, t, row)
  <1>1. /\ P \in [Pages -> Page] /\ \A q \in Pages : PageOK(P[q])
        /\ \A r \in DOMAIN R : \E q \in Pages : Reads(P[q], q, r, R[r])
        /\ \A q \in Pages : \A i \in Live(P[q]) : Ref(P[q], q, i) \in DOMAIN R
        /\ S \subseteq Pages \X Nat \X Nat \X Nat /\ \A r \in S : Gone(P[r[1]], r)
    BY DEF HeapOK
  <1>2. /\ p \in Pages /\ Packed(page) /\ page.owner = t /\ Fits(page, row)
        /\ page = P[p] \/ (P[p].owner = None /\ page = Renewed(P[p], t))
    BY <1>1, TargetFits
  <1>3. Takes(page, new, row, slot, done.gen)
    BY <1>2, InsertedTakes
  <1>4. t # None
    BY DEF HeapAssumption
  <1>5. P[p] \in Page /\ page \in Page
    BY <1>1, <1>2 DEF Packed
  <1> HIDE DEF new, slot
  <1>6. /\ Packed(new) /\ new \in Page /\ new.owner = t /\ new.gen = page.gen
        /\ slot \notin Live(page) /\ Live(new) = Live(page) \cup {slot}
        /\ new.slots[slot].gen = done.gen /\ Holds(new, slot, row)
        /\ \A i \in 1..Len(page.slots) : i # slot =>
               new.slots[i].gen = page.slots[i].gen /\ new.slots[i].length = page.slots[i].length
        /\ \A i \in Live(page), r \in Rows : Holds(page, i, r) => Holds(new, i, r)
    BY <1>2, <1>3 DEF Takes, Packed
  <1>7. P2 \in [Pages -> Page] /\ P2[p] = new /\ \A q \in Pages : q # p => P2[q] = P[q]
    BY <1>1, <1>2, <1>6
  <1>8. ref = Ref(new, p, slot)
    BY <1>6 DEF Ref, slot
  <1>9. \A i \in Live(page) : i # slot /\ Ref(new, p, i) = Ref(page, p, i)
    <2>1. \A i \in Live(page) : i \in 1..Len(page.slots)
      BY <1>5, Directory
    <2> QED BY <1>6, <2>1 DEF Ref
  <1>10. ASSUME NEW i \in Live(P[p])
         PROVE  page = P[p]
    BY <1>1, <1>2, <1>10 DEF PageOK
  <1>11. \A i \in Live(page) : page = P[p]
    <2>1. CASE page = P[p]
      BY <2>1
    <2>2. CASE P[p].owner = None /\ page = Renewed(P[p], t)
      <3>1. P[p].slots = << >>
        BY <1>1, <1>2, <2>2 DEF PageOK
      <3>2. page.slots = << >>
        BY <1>5, <2>2, <3>1, RenewedIs
      <3>3. Live(page) = {}
        BY <1>5, <3>2, EmptyPage
      <3> QED BY <3>3
    <2> QED BY <1>2, <2>1, <2>2
  <1>12. ref \notin DOMAIN R
    <2> SUFFICES ASSUME ref \in DOMAIN R PROVE FALSE
      OBVIOUS
    <2>1. PICK q \in Pages : Reads(P[q], q, ref, R[ref])
      BY <1>1
    <2>2. PICK i \in Live(P[q]) : ref = Ref(P[q], q, i)
      BY <2>1 DEF Reads
    <2>3. q = p /\ i = slot
      BY <1>8, <2>2 DEF Ref
    <2>4. page = P[p] /\ slot \in Live(page)
      BY <1>10, <2>2, <2>3
    <2> QED BY <1>6, <2>4
  <1>13. DOMAIN R2 = DOMAIN R \cup {ref} /\ R2[ref] = [table |-> t, row |-> row]
         /\ \A r \in DOMAIN R : R2[r] = R[r]
    BY <1>12 DEF With
  <1> HIDE DEF P2, R2
  <1>14. ASSUME NEW q \in Pages
         PROVE  PageOK(P2[q])
    <2>1. CASE q = p
      <3>1. Live(new) # {} /\ new.owner # None
        BY <1>4, <1>6
      <3> QED BY <1>6, <1>7, <2>1, <3>1 DEF PageOK
    <2>2. CASE q # p
      BY <1>1, <1>7, <2>2
    <2> QED BY <2>1, <2>2
  <1>15. ASSUME NEW r \in DOMAIN R2
         PROVE  \E q \in Pages : Reads(P2[q], q, r, R2[r])
    <2>1. CASE r = ref
      <3>1. Reads(new, p, ref, R2[ref])
        <4>1. slot \in Live(new) /\ R2[ref].table = t /\ R2[ref].row = row
          BY <1>6, <1>13
        <4> QED BY <1>6, <1>8, <4>1 DEF Reads
      <3> QED BY <1>2, <1>7, <2>1, <3>1
    <2>2. CASE r # ref
      <3>1. r \in DOMAIN R /\ R2[r] = R[r]
        BY <1>13, <1>15, <2>2
      <3>2. PICK q \in Pages : Reads(P[q], q, r, R[r])
        BY <1>1, <3>1
      <3>3. CASE q # p
        BY <1>7, <3>1, <3>2, <3>3
      <3>4. CASE q = p
        <4>1. PICK i \in Live(P[p]) : /\ r = Ref(P[p], p, i) /\ R[r].table = P[p].owner
                                      /\ R[r].row \in Rows /\ Holds(P[p], i, R[r].row)
          BY <3>2, <3>4 DEF Reads
        <4>2. page = P[p]
          BY <1>10
        <4>3. /\ r = Ref(new, p, i) /\ R[r].table = new.owner /\ i \in Live(new)
              /\ Holds(new, i, R[r].row)
          BY <1>2, <1>6, <1>9, <4>1, <4>2
        <4>4. Reads(new, p, r, R[r])
          BY <4>1, <4>3 DEF Reads
        <4> QED BY <1>2, <1>7, <3>1, <4>4
      <3> QED BY <3>3, <3>4
    <2> QED BY <2>1, <2>2
  <1>16. ASSUME NEW q \in Pages, NEW i \in Live(P2[q])
         PROVE  Ref(P2[q], q, i) \in DOMAIN R2
    <2>1. CASE q # p
      BY <1>1, <1>7, <1>13, <1>16, <2>1
    <2>2. CASE q = p
      <3>1. P2[q] = new /\ i \in Live(page) \cup {slot}
        BY <1>6, <1>7, <1>16, <2>2
      <3>2. CASE i = slot
        BY <1>8, <1>13, <2>2, <3>1, <3>2
      <3>3. CASE i \in Live(page)
        <4>1. Ref(new, p, i) = Ref(P[p], p, i) /\ i \in Live(P[p])
          BY <1>9, <1>11, <3>3
        <4> QED BY <1>1, <1>2, <1>13, <2>2, <3>1, <4>1
      <3> QED BY <3>1, <3>2, <3>3
    <2> QED BY <2>1, <2>2
  <1>17. ASSUME NEW r \in S
         PROVE  Gone(P2[r[1]], r)
    <2>1. r \in Pages \X Nat \X Nat \X Nat /\ Gone(P[r[1]], r) /\ r[1] \in Pages /\ r[2] \in Nat
      BY <1>1, <1>17
    <2>2. CASE r[1] # p
      BY <1>7, <2>1, <2>2
    <2>3. CASE r[1] = p
      <3>1. P2[r[1]] = new /\ Gone(P[p], r)
        BY <1>7, <2>1, <2>3
      <3>2. CASE page = P[p]
        BY <1>2, <1>3, <1>4, <1>5, <2>1, <3>1, <3>2, GoneAfterTake
      <3>3. CASE P[p].owner = None /\ page = Renewed(P[p], t)
        <4>0. Renewed(P[p], t).gen = P[p].gen + 1
          BY <1>5, RenewedIs
        <4>1. page.gen = P[p].gen + 1 /\ P[p].gen \in Nat
          BY <1>5, <3>3, <4>0 DEF Page
        <4>2. r[2] < P[p].gen \/ r[2] = P[p].gen
          BY <3>1 DEF Gone
        <4>3. r[2] < new.gen
          BY <1>6, <2>1, <4>1, <4>2
        <4> QED BY <3>1, <4>3 DEF Gone
      <3> QED BY <1>2, <3>2, <3>3
    <2> QED BY <2>2, <2>3
  <1>18. HeapOK(P2, R2, S)
    BY <1>1, <1>7, <1>14, <1>15, <1>16, <1>17 DEF HeapOK
  <1> QED BY <1>2, <1>12, <1>18 DEF P2, R2, new

LEMMA UnusedIs ==
    ASSUME HeapAssumption, NEW page \in Page, NEW new, new = Unused(page)
    PROVE  PageOK(new) /\ new \in Page /\ new.owner = None /\ new.gen = page.gen /\ Live(new) = {}
  <1>1. /\ page.gen \in Nat /\ PageSize \in 0..PageSize
        /\ NoCells \in [1..PageSize -> Rows \cup {None}] /\ << >> \in Seq(Slot)
    BY DEF Page, NoCells, HeapAssumption
  <1>2. DOMAIN new = {"owner", "gen", "slots", "cells", "lower"} /\ new = [f \in DOMAIN new |-> new[f]]
    BY DEF Unused, Page
  <1>3. /\ new.owner = None /\ new.gen = page.gen /\ new.slots = << >>
        /\ new.cells = NoCells /\ new.lower = PageSize
    BY DEF Unused, Page
  <1>4. new = [owner |-> new.owner, gen |-> new.gen, slots |-> new.slots, cells |-> new.cells,
               lower |-> new.lower]
    BY <1>2
  <1>5. new \in Page
    BY <1>1, <1>3, <1>4 DEF Page
  <1>6. Packed(new) /\ Live(new) = {}
    BY <1>3, <1>5, EmptyPage
  <1> QED BY <1>3, <1>5, <1>6 DEF PageOK

\* A row that is erased, and what was gone before it, is gone.
LEMMA GoneAfterDrop ==
    ASSUME NEW page \in Page, NEW new, NEW slot \in Live(page), Drops(page, new, slot),
           NEW ref \in Pages \X Nat \X Nat \X Nat, page.owner # None,
           \/ Gone(page, ref)
           \/ ref[2] = page.gen /\ ref[3] = slot /\ ref[4] = page.slots[slot].gen
    PROVE  Gone(new, ref)
  <1> DEFINE i == ref[3]
  <1>1. /\ new.gen = page.gen /\ Len(new.slots) = Len(page.slots)
        /\ new.slots[slot].gen = page.slots[slot].gen /\ new.slots[slot].length = 0
        /\ \A j \in 1..Len(page.slots) : j # slot => new.slots[j] = page.slots[j]
    BY DEF Drops
  <1>2. CASE ref[2] = page.gen /\ ref[3] = slot /\ ref[4] = page.slots[slot].gen
    <2>1. slot \in 1..Len(page.slots)
      BY Directory
    <2> QED BY <1>1, <1>2, <2>1 DEF Gone
  <1>3. CASE Gone(page, ref) /\ ref[2] < page.gen
    BY <1>1, <1>3 DEF Gone
  <1>4. CASE Gone(page, ref) /\ ~(ref[2] < page.gen)
    <2>1. /\ page.gen = ref[2] /\ i \in 1..Len(page.slots)
          /\ \/ ref[4] < page.slots[i].gen
             \/ page.slots[i].gen = ref[4] /\ page.slots[i].length = 0
      BY <1>4 DEF Gone
    <2>2. CASE i = slot
      BY <1>1, <2>1, <2>2 DEF Gone
    <2>3. CASE i # slot
      BY <1>1, <2>1, <2>3 DEF Gone
    <2> QED BY <2>2, <2>3
  <1> QED BY <1>2, <1>3, <1>4

\* A row that is erased is gone, and the other references are of what they were of.
LEMMA HeapErases ==
    ASSUME HeapAssumption, NEW P, NEW R, NEW S, HeapOK(P, R, S), NEW ref \in DOMAIN R
    PROVE  HeapOK(Without(P, ref), [r \in DOMAIN R \ {ref} |-> R[r]], S \cup {ref})
  <1> DEFINE R2 == [r \in DOMAIN R \ {ref} |-> R[r]]
             P2 == Without(P, ref)
  <1>1. /\ P \in [Pages -> Page] /\ \A q \in Pages : PageOK(P[q])
        /\ \A r \in DOMAIN R : \E q \in Pages : Reads(P[q], q, r, R[r])
        /\ \A q \in Pages : \A i \in Live(P[q]) : Ref(P[q], q, i) \in DOMAIN R
        /\ S \subseteq Pages \X Nat \X Nat \X Nat /\ \A r \in S : Gone(P[r[1]], r)
    BY DEF HeapOK
  <1>2. PICK p \in Pages : Reads(P[p], p, ref, R[ref])
    BY <1>1
  <1>3. PICK slot \in Live(P[p]) : ref = Ref(P[p], p, slot)
    BY <1>2 DEF Reads
  <1> DEFINE page == P[p]
             less == Erased(page, slot)
             new == IF Live(less) = {} THEN Unused(less) ELSE less
  <1>4. ref[1] = p /\ ref[2] = page.gen /\ ref[3] = slot /\ ref[4] = page.slots[slot].gen
    BY <1>3 DEF Ref
  <1>5. P2 = [P EXCEPT ![p] = new]
    BY <1>4 DEF Without
  <1>6. page \in Page /\ Packed(page) /\ page.owner # None
    BY <1>1, <1>3 DEF PageOK
  <1> HIDE DEF page
  <1>7. Drops(page, less, slot)
    BY <1>3, <1>6, ErasedDrops DEF page
  <1> HIDE DEF less
  <1>8. /\ Packed(less) /\ less \in Page /\ less.owner = page.owner /\ less.gen = page.gen
        /\ Live(less) = Live(page) \ {slot}
        /\ \A i \in 1..Len(page.slots) : i # slot => less.slots[i] = page.slots[i]
        /\ \A i \in Live(page) \ {slot}, r \in Rows : Holds(page, i, r) => Holds(less, i, r)
    BY <1>7 DEF Drops, Packed
  <1>9. /\ new \in Page /\ PageOK(new) /\ new.gen = page.gen
        /\ Live(new) = Live(page) \ {slot}
        /\ Live(new) # {} => new = less
        /\ new = less \/ new.owner = None
    <2>1. CASE Live(less) = {}
      BY <1>8, <2>1, UnusedIs
    <2>2. CASE Live(less) # {}
      <3>1. PageOK(less)
        BY <1>6, <1>8, <2>2 DEF PageOK
      <3> QED BY <1>8, <2>2, <3>1
    <2> QED BY <2>1, <2>2
  <1> HIDE DEF new
  <1>10. P2 \in [Pages -> Page] /\ P2[p] = new /\ \A q \in Pages : q # p => P2[q] = P[q]
    BY <1>1, <1>5, <1>9
  <1>11. \A i \in Live(page) \ {slot} :
             new = less /\ i \in Live(new) /\ Ref(new, p, i) = Ref(page, p, i)
    <2>1. \A i \in Live(page) : i \in 1..Len(page.slots)
      BY <1>6, Directory
    <2> QED BY <1>8, <1>9, <2>1 DEF Ref
  <1>12. DOMAIN R2 = DOMAIN R \ {ref} /\ \A r \in DOMAIN R2 : R2[r] = R[r]
    OBVIOUS
  <1>13. ref = Ref(page, p, slot) /\ slot \in Live(page)
    BY <1>3 DEF page
  <1> HIDE DEF P2, R2
  <1>14. ASSUME NEW q \in Pages
         PROVE  PageOK(P2[q])
    BY <1>1, <1>9, <1>10
  <1>15. ASSUME NEW r \in DOMAIN R2
         PROVE  \E q \in Pages : Reads(P2[q], q, r, R2[r])
    <2>1. r \in DOMAIN R /\ r # ref /\ R2[r] = R[r]
      BY <1>12
    <2>2. PICK q \in Pages : Reads(P[q], q, r, R[r])
      BY <1>1, <2>1
    <2>3. CASE q # p
      BY <1>10, <2>1, <2>2, <2>3
    <2>4. CASE q = p
      <3>1. PICK i \in Live(page) : /\ r = Ref(page, p, i) /\ R[r].table = page.owner
                                    /\ R[r].row \in Rows /\ Holds(page, i, R[r].row)
        BY <2>2, <2>4 DEF Reads, page
      <3>2. i # slot
        BY <1>13, <2>1, <3>1
      <3>3. /\ r = Ref(new, p, i) /\ R[r].table = new.owner /\ i \in Live(new)
            /\ Holds(new, i, R[r].row)
        BY <1>8, <1>11, <3>1, <3>2
      <3>4. Reads(new, p, r, R2[r])
        BY <2>1, <3>1, <3>3 DEF Reads
      <3> QED BY <1>10, <3>4
    <2> QED BY <2>3, <2>4
  <1>16. ASSUME NEW q \in Pages, NEW i \in Live(P2[q])
         PROVE  Ref(P2[q], q, i) \in DOMAIN R2
    <2>1. CASE q # p
      <3>1. Ref(P2[q], q, i) = Ref(P[q], q, i) /\ i \in Live(P[q])
        BY <1>10, <1>16, <2>1
      <3>2. Ref(P[q], q, i) # ref
        BY <1>13, <2>1 DEF Ref
      <3> QED BY <1>1, <1>12, <3>1, <3>2
    <2>2. CASE q = p
      <3>1. P2[q] = new /\ i \in Live(page) \ {slot}
        BY <1>9, <1>10, <1>16, <2>2
      <3>2. Ref(new, p, i) = Ref(page, p, i) /\ Ref(page, p, i) # ref
        BY <1>11, <1>13, <3>1 DEF Ref
      <3>3. Ref(page, p, i) \in DOMAIN R
        BY <1>1, <3>1 DEF page
      <3> QED BY <1>12, <2>2, <3>1, <3>2, <3>3
    <2> QED BY <2>1, <2>2
  <1>17. ref \in Pages \X Nat \X Nat \X Nat
    <2>1. slot \in 1..Len(page.slots) /\ Len(page.slots) \in Nat
      BY <1>6, <1>13, Directory
    <2>2. page.slots[slot].gen \in 1..LastGen
      BY <1>6, <2>1, Directory
    <2>3. page.gen \in Nat /\ slot \in Nat /\ page.slots[slot].gen \in Nat
      BY <1>6, <2>1, <2>2 DEF Page
    <2> QED BY <1>13, <2>3 DEF Ref
  <1>18. ASSUME NEW r \in S \cup {ref}
         PROVE  Gone(P2[r[1]], r)
    <2>1. r \in Pages \X Nat \X Nat \X Nat /\ r[1] \in Pages
      BY <1>1, <1>17
    <2>2. CASE r[1] # p
      <3>1. r \in S
        BY <1>4, <2>2
      <3> QED BY <1>1, <1>10, <2>1, <2>2, <3>1
    <2>3. CASE r[1] = p
      <3>1. \/ Gone(page, r)
            \/ r[2] = page.gen /\ r[3] = slot /\ r[4] = page.slots[slot].gen
        <4>1. CASE r = ref
          BY <1>4, <4>1 DEF page
        <4>2. CASE r \in S
          BY <1>1, <2>3, <4>2 DEF page
        <4> QED BY <4>1, <4>2
      <3>2. Gone(less, r)
        BY <1>6, <1>7, <1>13, <2>1, <3>1, GoneAfterDrop
      <3>3. CASE new = less
        BY <1>10, <2>3, <3>2, <3>3
      <3>4. CASE new.owner = None
        <4>1. r[2] < page.gen \/ r[2] = page.gen
          BY <3>1 DEF Gone
        <4>2. Gone(new, r)
          BY <1>9, <3>4, <4>1 DEF Gone
        <4> QED BY <1>10, <2>3, <4>2
      <3> QED BY <1>9, <3>3, <3>4
    <2> QED BY <2>2, <2>3
  <1>19. S \cup {ref} \subseteq Pages \X Nat \X Nat \X Nat
    BY <1>1, <1>17
  <1>20. HeapOK(P2, R2, S \cup {ref})
    BY <1>10, <1>14, <1>15, <1>16, <1>18, <1>19 DEF HeapOK
  <1> QED BY <1>20 DEF P2, R2

-----------------------------------------------------------------------------
(* What a heap promises                                                     *)

\* Every page is sound, every reference is of the row it was given for or of one
\* that is gone, and no insertion failed.
Inv == HeapOK(pages, rows, stale) /\ failed = FALSE

LEMMA InvInit ==
    ASSUME HeapAssumption, Init
    PROVE  Inv
  <1> DEFINE empty == [owner |-> None, gen |-> 0, slots |-> << >>, cells |-> NoCells, lower |-> PageSize]
  <1>1. PageSize \in 0..PageSize /\ NoCells \in [1..PageSize -> Rows \cup {None}]
        /\ << >> \in Seq(Slot)
    BY DEF HeapAssumption, NoCells
  <1>2. empty \in Page
    BY <1>1 DEF Page
  <1>3. empty.slots = << >> /\ empty.owner = None
    OBVIOUS
  <1> HIDE DEF empty
  <1>4. PageOK(empty) /\ Live(empty) = {}
    BY <1>2, <1>3, EmptyPage DEF PageOK
  <1>5. pages = [p \in Pages |-> empty] /\ DOMAIN rows = {} /\ stale = {} /\ failed = FALSE
    BY DEF Init, empty
  <1>6. pages \in [Pages -> Page] /\ \A p \in Pages : pages[p] = empty
    BY <1>2, <1>5
  <1> QED BY <1>4, <1>5, <1>6 DEF Inv, HeapOK

LEMMA InvInsert ==
    ASSUME HeapAssumption, Inv, NEW t \in Tables, NEW row \in Rows, Insert(t, row)
    PROVE  Inv'
  <1>1. PICK target \in Target(pages, t, row) :
            LET done == Inserted(target[2], row)
            IN  IF Fits(target[2], row)
                THEN /\ pages' = [pages EXCEPT ![target[1]] = done.page]
                     /\ rows' = Added(<<target[1], target[2].gen, done.slot, done.gen>>, t, row)
                     /\ UNCHANGED <<failed, stale>>
                ELSE /\ failed' = TRUE
                     /\ UNCHANGED <<pages, rows, stale>>
    BY DEF Insert
  <1> DEFINE done == Inserted(target[2], row)
             ref == <<target[1], target[2].gen, done.slot, done.gen>>
  <1>2. /\ Fits(target[2], row)
        /\ HeapOK([pages EXCEPT ![target[1]] = done.page], With(rows, ref, t, row), stale)
    BY HeapInserts DEF Inv
  <1>3. /\ pages' = [pages EXCEPT ![target[1]] = done.page]
        /\ rows' = With(rows, ref, t, row) /\ failed' = failed /\ stale' = stale
    BY <1>1, <1>2 DEF Added, With
  <1> HIDE DEF done, ref
  <1>4. HeapOK(pages', rows', stale')
    BY <1>2, <1>3
  <1> QED BY <1>3, <1>4 DEF Inv

LEMMA InvErase ==
    ASSUME HeapAssumption, Inv, NEW ref \in DOMAIN rows, Erase(rows[ref].table, ref)
    PROVE  Inv'
  <1>1. /\ pages' = Without(pages, ref) /\ rows' = [r \in DOMAIN rows \ {ref} |-> rows[r]]
        /\ stale' = stale \cup {ref} /\ failed' = failed
    BY DEF Erase
  <1>2. HeapOK(Without(pages, ref), [r \in DOMAIN rows \ {ref} |-> rows[r]], stale \cup {ref})
    BY HeapErases DEF Inv
  <1>3. HeapOK(pages', rows', stale')
    BY <1>1, <1>2
  <1> QED BY <1>1, <1>3 DEF Inv

LEMMA InvReplace ==
    ASSUME HeapAssumption, Inv, NEW ref \in DOMAIN rows, NEW row \in Rows,
           Replace(rows[ref].table, ref, row)
    PROVE  Inv'
  <1> DEFINE t == rows[ref].table
  <1>1. PICK target \in Target(pages, t, row) :
            LET done == Inserted(target[2], row)
                new == <<target[1], target[2].gen, done.slot, done.gen>>
            IN  /\ Fits(target[2], row)
                /\ pages' = Without([pages EXCEPT ![target[1]] = done.page], ref)
                /\ rows' = [r \in (DOMAIN rows \cup {new}) \ {ref} |-> Added(new, t, row)[r]]
    BY DEF Replace
  <1> DEFINE done == Inserted(target[2], row)
             new == <<target[1], target[2].gen, done.slot, done.gen>>
             P == [pages EXCEPT ![target[1]] = done.page]
             R == With(rows, new, t, row)
  <1>2. t \in Tables
    <2>1. PICK p \in Pages : Reads(pages[p], p, ref, rows[ref])
      BY DEF Inv, HeapOK
    <2>2. t = pages[p].owner /\ Live(pages[p]) # {} /\ PageOK(pages[p])
      BY <2>1 DEF Reads, Inv, HeapOK
    <2> QED BY <2>2 DEF PageOK, Packed, Page
  <1> HIDE DEF t
  <1>3. HeapOK(P, R, stale)
    BY <1>2, HeapInserts DEF Inv
  <1>4. /\ pages' = Without(P, ref) /\ DOMAIN R = DOMAIN rows \cup {new}
        /\ rows' = [r \in DOMAIN R \ {ref} |-> R[r]] /\ stale' = stale \cup {ref} /\ failed' = failed
    BY <1>1 DEF Added, With, Replace
  <1> HIDE DEF P, R, new
  <1>5. HeapOK(Without(P, ref), [r \in DOMAIN R \ {ref} |-> R[r]], stale \cup {ref})
    BY <1>3, <1>4, HeapErases
  <1>6. HeapOK(pages', rows', stale')
    BY <1>4, <1>5
  <1> QED BY <1>4, <1>6 DEF Inv

LEMMA InvNext ==
    ASSUME HeapAssumption, Inv, [Next]_vars
    PROVE  Inv'
  <1>1. CASE UNCHANGED vars
    BY <1>1 DEF vars, Inv
  <1>2. CASE \E t \in Tables, row \in Rows : Insert(t, row)
    BY <1>2, InvInsert
  <1>3. CASE \E ref \in DOMAIN rows : Erase(rows[ref].table, ref)
    BY <1>3, InvErase
  <1>4. CASE \E ref \in DOMAIN rows : \E row \in Rows : Replace(rows[ref].table, ref, row)
    BY <1>4, InvReplace
  <1> QED BY <1>1, <1>2, <1>3, <1>4 DEF Next

\* The invariant of the heap: no operation of HeapStore leaves a page that is not
\* packed, a reference to anything but its row, or an insertion that failed on the
\* page chosen for it.
THEOREM HeapInvariant ==
    ASSUME HeapAssumption
    PROVE  Spec => []Inv
  <1>1. Init => Inv
    BY InvInit
  <1>2. Inv /\ [Next]_vars => Inv'
    BY InvNext
  <1> QED BY <1>1, <1>2, PTL DEF Spec

\* The cells of the record a reference is of.
LEMMA ReadsRow ==
    ASSUME HeapAssumption, Inv, NEW ref \in DOMAIN rows
    PROVE  Found(rows[ref].table, ref) /\ Read(ref) = {rows[ref].row}
  <1>1. PICK p \in Pages : Reads(pages[p], p, ref, rows[ref])
    BY DEF Inv, HeapOK
  <1>2. PICK i \in Live(pages[p]) : /\ ref = Ref(pages[p], p, i) /\ rows[ref].table = pages[p].owner
                                    /\ rows[ref].row \in Rows /\ Holds(pages[p], i, rows[ref].row)
    BY <1>1 DEF Reads
  <1>3. /\ ref[1] = p /\ ref[2] = pages[p].gen /\ ref[3] = i /\ ref[4] = pages[p].slots[i].gen
    BY <1>2 DEF Ref
  <1>4. Found(rows[ref].table, ref)
    BY <1>2, <1>3 DEF Found
  <1> DEFINE entry == pages[p].slots[i]
             row == rows[ref].row
             C == (entry.offset + 1)..(entry.offset + entry.length)
  <1>5. Read(ref) = {pages[p].cells[c] : c \in C}
    BY <1>3 DEF Read
  <1>6. \A c \in C : pages[p].cells[c] = row
    BY <1>2 DEF Holds
  <1>7. entry.offset + 1 \in C
    <2>1. pages[p] \in Page
      BY DEF Inv, HeapOK
    <2>2. entry.offset \in Nat /\ entry.length \in Nat /\ entry.length # 0
      BY <1>2, <2>1, Directory
    <2> HIDE DEF entry
    <2> QED BY <2>2
  <1> HIDE DEF C, row
  <1>8. Read(ref) = {row}
    BY <1>5, <1>6, <1>7
  <1> QED BY <1>4, <1>8 DEF row

LEMMA GoneNotFound ==
    ASSUME Inv, NEW ref \in stale, NEW t \in Tables, HeapAssumption
    PROVE  ~Found(t, ref)
  <1> SUFFICES ASSUME Found(t, ref) PROVE FALSE
    OBVIOUS
  <1> DEFINE page == pages[ref[1]]
  <1>1. ref \in Pages \X Nat \X Nat \X Nat /\ Gone(page, ref) /\ ref[1] \in Pages /\ page \in Page
    BY DEF Inv, HeapOK
  <1>2. page.owner = t /\ page.gen = ref[2] /\ ref[3] \in Live(page) /\ page.slots[ref[3]].gen = ref[4]
    BY DEF Found
  <1>3. t # None
    BY DEF HeapAssumption
  <1> HIDE DEF page
  <1>4. page.gen \in Nat /\ ref[2] \in Nat /\ ref[4] \in Nat
    BY <1>1 DEF Page
  <1>5. page.slots[ref[3]].length # 0
    BY <1>1, <1>2, Directory
  <1> QED BY <1>1, <1>2, <1>3, <1>4, <1>5 DEF Gone

LEMMA ReferencesFromInv ==
    ASSUME HeapAssumption, Inv
    PROVE  ReferencesHold
  BY ReadsRow, GoneNotFound DEF ReferencesHold

LEMMA ScanFromInv ==
    ASSUME Inv
    PROVE  ScanFindsRows
  BY DEF Inv, HeapOK, ScanFindsRows, Ref

LEMMA PagesFromInv ==
    ASSUME Inv
    PROVE  PagesSound
  <1>1. ASSUME NEW p \in Pages, NEW page, page = pages[p]
        PROVE  /\ page.owner # None <=> Live(page) # {}
               /\ page.lower >= Len(page.slots)
               /\ \A i \in Live(page) :
                      /\ page.slots[i].offset >= page.lower
                      /\ page.slots[i].offset + page.slots[i].length <= PageSize
                      /\ \A j \in Live(page) \ {i} :
                             \/ page.slots[i].offset >= page.slots[j].offset + page.slots[j].length
                             \/ page.slots[j].offset >= page.slots[i].offset + page.slots[i].length
    <2>1. PageOK(page)
      BY <1>1 DEF Inv, HeapOK
    <2>2. page.owner # None <=> Live(page) # {}
      BY <2>1 DEF PageOK
    <2>3. /\ Len(page.slots) <= page.lower
          /\ \A i \in Live(page) :
                 /\ page.lower <= page.slots[i].offset
                 /\ page.slots[i].offset + page.slots[i].length <= PageSize
          /\ \A i, j \in Live(page) : i # j => Apart(page.slots[i], page.slots[j])
      BY <2>1 DEF PageOK, Packed
    <2> QED BY <2>2, <2>3 DEF Apart
  <1> QED BY <1>1 DEF PagesSound, Inv

LEMMA TypesFromInv ==
    ASSUME HeapAssumption, Inv
    PROVE  TypeOK
  <1>1. ASSUME NEW p \in Pages
        PROVE  /\ pages[p].owner \in Tables \cup {None}
               /\ pages[p].cells \in [1..PageSize -> Rows \cup {None}]
               /\ pages[p].lower \in 0..PageSize
               /\ \A i \in DOMAIN pages[p].slots : pages[p].slots[i].gen \in 1..LastGen
    <2>1. pages[p] \in Page
      BY DEF Inv, HeapOK
    <2>2. DOMAIN pages[p].slots = 1..Len(pages[p].slots)
          /\ \A i \in 1..Len(pages[p].slots) : pages[p].slots[i].gen \in 1..LastGen
      BY <2>1, Directory
    <2> QED BY <2>1, <2>2 DEF Page
  <1>2. ASSUME NEW ref \in stale, ref \in DOMAIN rows
        PROVE  FALSE
    <2>1. PICK p \in Pages : Reads(pages[p], p, ref, rows[ref])
      BY <1>2 DEF Inv, HeapOK
    <2>2. rows[ref].table = pages[p].owner /\ Live(pages[p]) # {} /\ PageOK(pages[p])
      BY <2>1 DEF Reads, Inv, HeapOK
    <2>3. rows[ref].table \in Tables
      BY <2>2 DEF PageOK, Packed, Page
    <2> QED BY <1>2, <2>3, ReadsRow, GoneNotFound
  <1> QED BY <1>1, <1>2 DEF TypeOK, Inv

\* A reference reads the row it was given for while the row is there, wherever
\* compaction moved it, and nothing afterwards (HeapStore::read, requireLive).
THEOREM ReferencesAlwaysHold ==
    ASSUME HeapAssumption
    PROVE  Spec => []ReferencesHold
  <1>1. Inv => ReferencesHold
    BY ReferencesFromInv
  <1> QED BY <1>1, HeapInvariant, PTL

\* No record lies over another or over the directory, a page has an owner as long as it
\* has rows, and a page that was chosen for a row takes it (SlottedPage::validate,
\* compact, insert, HeapStore::insert).
THEOREM PagesStaySound ==
    ASSUME HeapAssumption
    PROVE  Spec => []PagesSound
  <1>1. Inv => PagesSound
    BY PagesFromInv
  <1> QED BY <1>1, HeapInvariant, PTL

\* All a heap promises: the two theorems above, the types, and that a scan finds
\* the rows of the heap and no others (HeapStore::scan, refsFor).
THEOREM HeapAlwaysServes ==
    ASSUME HeapAssumption
    PROVE  Spec => []HeapServes
  <1>1. Inv => HeapServes
    BY TypesFromInv, ReferencesFromInv, ScanFromInv, PagesFromInv DEF HeapServes
  <1> QED BY <1>1, HeapInvariant, PTL
=============================================================================
