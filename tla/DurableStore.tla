---------------------------- MODULE DurableStore ----------------------------
(***************************************************************************)
(* What the page file promises its callers: an atomic, durable store of    *)
(* pages with one batch of changes at a time. A commit has happened or has *)
(* not; only while it is being decided may a stop of the store leave either*)
(* outcome, and nobody reads the store until it has been opened again.     *)
(***************************************************************************)
CONSTANTS Page, Image,
          Blank  \* what an image of a store that is down shows of a page

VARIABLES
  store,  \* the committed image of every page
  view,   \* what a read of each page returns
  phase   \* "down", "idle", "batch" (changes open), "deciding" (committing)

storeVars == <<store, view, phase>>

Nothing == [p \in Page |-> Blank]

Init == /\ store \in [Page -> Image] /\ view = Nothing /\ phase = "down"

Open == /\ phase = "down" /\ phase' = "idle"
        /\ view' = store /\ UNCHANGED store

Begin == /\ phase = "idle" /\ phase' = "batch" /\ UNCHANGED <<store, view>>

Change == /\ phase = "batch" /\ view' \in [Page -> Image]
          /\ UNCHANGED <<store, phase>>

Decide == /\ phase = "batch" /\ phase' = "deciding" /\ UNCHANGED <<store, view>>

Commit == /\ phase = "deciding" /\ phase' = "idle"
          /\ store' = view /\ UNCHANGED view

\* a rollback, a savepoint restored to the start, an empty commit
Abort == /\ phase \in {"batch", "deciding"} /\ phase' = "idle"
         /\ view' = store /\ UNCHANGED store

\* a clean stop, a crash, a failure that disables the store
Stop == /\ phase # "down" /\ phase' = "down" /\ view' = Nothing
        /\ \/ UNCHANGED store
           \/ phase = "deciding" /\ store' = view

Next == Open \/ Begin \/ Change \/ Decide \/ Commit \/ Abort \/ Stop
Spec == Init /\ [][Next]_storeVars
=============================================================================
