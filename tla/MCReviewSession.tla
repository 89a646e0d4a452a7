--------------------------- MODULE MCReviewSession ---------------------------
(* Small instances of ReviewSession: an agent and one other process. *)
EXTENDS ReviewSession

(* People may comment, resolve and push while the commands run; reopening  *)
(* a thread is a run of its own.                                           *)
Busy == {"comment", "resolve", "outdate"}
Reopening == {"reopen"}
=============================================================================
