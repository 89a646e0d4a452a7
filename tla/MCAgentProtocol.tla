--------------------------- MODULE MCAgentProtocol ---------------------------
(* Small instances of AgentProtocol.  The conflict relation between the     *)
(* items is not assumed: it is computed by ConflictKeys from their fields.  *)
EXTENDS AgentProtocol, TLC

CONSTANTS t1, t2, f1

Keys == INSTANCE ConflictKeys

(* Two threads on overlapping hunks of one file and a local finding on     *)
(* another part of it, for which no line range is known.                   *)
ItemFields ==
  t1 :> [id |-> "t1", path |-> "p", start |-> 1, line |-> 3, end |-> 3,
         thread |-> "T1", github |-> TRUE, extra |-> {}] @@
  t2 :> [id |-> "t2", path |-> "p", start |-> 3, line |-> 4, end |-> 4,
         thread |-> "T2", github |-> TRUE, extra |-> {}] @@
  f1 :> [id |-> "f1", path |-> "p", start |-> 0, line |-> 0, end |-> 0,
         thread |-> "", github |-> FALSE, extra |-> {}]

MCKeyOverlap ==
  [pair \in Items \X Items |-> Keys!OverlapKind(ItemFields[pair[1]], ItemFields[pair[2]])]

Symmetry == Permutations(Procs) \cup Permutations(Agents)

(* Every command and every lease ends: a command in its attempts, a lease  *)
(* by acceptance, release or expiry (retry_on_stale_revision,              *)
(* expire_leases).                                                         *)
EverythingEnds == CommandTerminates /\ LeaseEnds
=============================================================================
