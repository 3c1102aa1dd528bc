----------------------------- MODULE MCPageFile -----------------------------
(***************************************************************************)
(* Small instances of PageFile for TLC. The two values of a page are       *)
(* interchangeable; crash points are named sets of program points.         *)
(***************************************************************************)
EXTENDS PageFileRefinement, PageFileInvariant, TLC

CONSTANTS v1, v2
MCVals == {v1, v2}
OneVal == {v1}
\* an unused slot may hold any page of an earlier extent: a header or a data page
MCOldImages == {Header(1)} \cup {Data(1, v) : v \in Vals}
Symmetry == Permutations(MCVals)

AnyPoint == Programs \ {"down"}
\* every point except those at which an extent, its abort, the checkpoint record or
\* the double-write buffer is half written, or the journal is cut and the record of
\* the cut still to come
WholePoints ==
  AnyPoint \ {"appended", "marked", "aborting", "redoCkpt", "recycle", "recycled",
              "ckptWrite", "stage", "clear", "restored"}
=============================================================================
