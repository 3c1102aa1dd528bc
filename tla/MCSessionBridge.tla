--------------------------- MODULE MCSessionBridge ---------------------------
(***************************************************************************)
(* Small instances of SessionBridge for TLC. Sessions are interchangeable. *)
(***************************************************************************)
EXTENDS SessionBridge, TLC

\* clients that wait for one answer before they send the next request, and
\* open no session while the engine shuts down
SerialClients == {"cancel", "disconnect"}
Symmetry == Permutations(Sessions)
=============================================================================
