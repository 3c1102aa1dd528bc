------------------------------ MODULE MCPages -------------------------------
(***************************************************************************)
(* Small instances of the parts that keep pages and the rows on them: the  *)
(* buffer pool and the heap.  They share no variable here: a behaviour is  *)
(* one of the part that subject names.  MCStorage adds the index trees;    *)
(* what is proved of the instances extends this module, which needs no     *)
(* recursive operator.                                                     *)
(***************************************************************************)
EXTENDS BufferPool

CONSTANTS t1, t2

VARIABLES
    subject,
    pages, failed, rows, stale                     \* Heap

-----------------------------------------------------------------------------
\* Two tables on two pages of four cells, rows of one and of two cells.
MCSize == [r \in {"a", "b"} |-> IF r = "a" THEN 1 ELSE 2]

Heaps == INSTANCE HeapProofs WITH
    Tables <- {t1, t2}, Rows <- {"a", "b"}, Size <- MCSize,
    Pages <- {1, 2}, PageSize <- 4, LastGen <- 2, MaxPageGen <- 2

ASSUME HeapsAssumption == Heaps!HeapAssumption

heapVars == <<pages, failed, rows, stale>>

-----------------------------------------------------------------------------
\* A row reference reads the row it was given for until the row is erased, and
\* nothing afterwards; pages stay sound (SlottedPage, HeapStore).
HeapServes == subject = "heap" => Heaps!HeapServes
=============================================================================
