---------------------------- MODULE MCAgentBatch ----------------------------
(* Small instances of AgentBatch.  Overlaps are computed by ConflictKeys.   *)
EXTENDS AgentBatch, TLC

CONSTANTS t1, t2, t3, t4

Keys == INSTANCE ConflictKeys

(* t1 and t2 share a line, t1 and t3 an explicit conflict key. *)
Shared == {[tag |-> "custom", name |-> "k"]}
ItemFields ==
  t1 :> [id |-> "t1", path |-> "p", start |-> 1, line |-> 3, end |-> 3,
         thread |-> "T1", github |-> TRUE, extra |-> Shared] @@
  t2 :> [id |-> "t2", path |-> "p", start |-> 3, line |-> 4, end |-> 4,
         thread |-> "T2", github |-> TRUE, extra |-> {}] @@
  t3 :> [id |-> "t3", path |-> "q", start |-> 1, line |-> 1, end |-> 1,
         thread |-> "T3", github |-> TRUE, extra |-> Shared] @@
  t4 :> [id |-> "t4", path |-> "r", start |-> 1, line |-> 1, end |-> 1,
         thread |-> "T4", github |-> TRUE, extra |-> {}]

MCKeyOverlap ==
  [pair \in Items \X Items |-> Keys!OverlapKind(ItemFields[pair[1]], ItemFields[pair[2]])]

Symmetry == Permutations(Procs) \cup Permutations(Agents) \cup Permutations(LeaseIds)
=============================================================================
