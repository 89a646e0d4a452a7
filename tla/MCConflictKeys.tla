--------------------------- MODULE MCConflictKeys ---------------------------
(* Checks the conflict test of ConflictKeys on every pair of located items *)
(* with line numbers up to MaxLine against what the lines of a file say.   *)
EXTENDS ConflictKeys

CONSTANTS Paths, Threads, MaxLine

LineBound == MaxLine \in Nat \ {0}

VARIABLES candidate, existing
vars == <<candidate, existing>>

(* Ids differ, as the item ids of a session do: item: keys never meet. *)
WorkItems(id) ==
  [id : {id}, path : Paths \cup {NoPath}, start : -1..MaxLine, line : 0..MaxLine,
   end : 0..MaxLine, thread : Threads \cup {NoThread}, github : BOOLEAN, extra : {{}}]

Init == candidate \in WorkItems("a") /\ existing = candidate

(* The keys of the item under a claim are compared with each existing one. *)
Compare ==
  \E other \in WorkItems("b") :
    existing = candidate /\ existing' = other /\ UNCHANGED candidate

Next == Compare
Spec == Init /\ [][Next]_vars

-----------------------------------------------------------------------------
(* The lines an item's key locks, from the meaning of the fields alone: a   *)
(* range when both ends are known, every line of the file otherwise.        *)
Ends(item) == {IF item.start # 0 THEN item.start ELSE item.line,
               IF item.end # 0 THEN item.end ELSE item.line}
LockedLines(item) ==
  IF item.path = NoPath THEN {}
  ELSE {<<item.path, n>> : n \in {m \in 1..MaxLine :
          (\A e \in Ends(item) : e > 0) =>
             (\E x \in Ends(item), y \in Ends(item) : x <= m /\ m <= y)}}

(* What two items contend for besides lines: the same review thread. *)
SameThread(a, b) == a.thread # NoThread /\ a.thread = b.thread

(* The claim test agrees with the lines: claim_lease sees an overlap exactly *)
(* when some line is locked by both items or both are of one thread.         *)
OverlapIsSharedLines ==
  candidate.id # existing.id =>
    ((OverlapKind(candidate, existing) # "none") <=>
       (LockedLines(candidate) \cap LockedLines(existing) # {} \/ SameThread(candidate, existing)))

(* The test does not depend on which of two items was claimed first, though *)
(* _hunk_overlap treats candidate and existing keys differently.            *)
OverlapIsSymmetric ==
  OverlapKind(candidate, existing) = OverlapKind(existing, candidate)

(* One agent may hold both items (the same-agent exemption of claim_lease)  *)
(* only when nothing but lines is shared: never two claims on one thread.   *)
FileOverlapSharesNoThread ==
  OverlapKind(candidate, existing) = "file" => ~SameThread(candidate, existing)
=============================================================================
