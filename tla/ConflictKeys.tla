---------------------------- MODULE ConflictKeys ----------------------------
(***************************************************************************)
(* Conflict keys of a work item (core/leases.py, calculate_conflict_keys)  *)
(* and the test claim_lease applies to the keys of two items.              *)
(*                                                                         *)
(* A key is a record whose tag is the prefix of the string the code builds *)
(* ("item:", "file:", "hunk:", "thread:", ...).  A work item is a record   *)
(*   [id, path, start, line, end, thread, github, extra]                   *)
(* where 0 stands for an absent line number, "" for an absent path and an  *)
(* absent thread id.  The module has no state: it is instantiated by the   *)
(* lease protocol and checked by MCConflictKeys.                           *)
(***************************************************************************)
EXTENDS Integers, FiniteSets

NoPath == ""
NoThread == ""

ItemKey(id) == [tag |-> "item", name |-> id]
FileKey(path) == [tag |-> "file", name |-> path]
HunkKey(path, lo, hi) == [tag |-> "hunk", name |-> path, lo |-> lo, hi |-> hi]
ThreadKey(tag, thread) == [tag |-> tag, name |-> thread]

Larger(a, b) == IF a >= b THEN a ELSE b
Smaller(a, b) == IF a <= b THEN a ELSE b

(* "a or b" over line numbers: the first one that is present (non-zero). *)
FirstOf(a, b) == IF a # 0 THEN a ELSE b

(* _hunk_conflict_key: a hunk needs a path and two positive line numbers; *)
(* a reversed range is swapped.                                           *)
HunkStart(item) == FirstOf(item.start, item.line)
HunkEnd(item) == FirstOf(item.end, item.line)
HasHunk(item) == item.path # NoPath /\ HunkStart(item) > 0 /\ HunkEnd(item) > 0
HunkConflictKey(item) ==
  HunkKey(item.path, Smaller(HunkStart(item), HunkEnd(item)),
                     Larger(HunkStart(item), HunkEnd(item)))

(* calculate_conflict_keys: a located item contributes its hunk, an item   *)
(* with only a path the whole file, a GitHub thread its reply and resolve. *)
CalculateConflictKeys(item) ==
  {ItemKey(item.id)}
  \cup (IF item.path = NoPath THEN {}
        ELSE IF HasHunk(item) THEN {HunkConflictKey(item)} ELSE {FileKey(item.path)})
  \cup item.extra
  \cup (IF item.thread = NoThread THEN {}
        ELSE {ThreadKey("thread", item.thread)}
             \cup IF item.github THEN {ThreadKey("github_reply", item.thread),
                                       ThreadKey("github_resolve", item.thread)} ELSE {})

Files(keys) == {k.name : k \in {x \in keys : x.tag = "file"}}
Hunks(keys) == {k \in keys : k.tag = "hunk"}

(* Mutants: ranges that only touch in one line do not meet; a hunk already *)
(* held is not compared with a whole-file candidate.                       *)
HunkOverlapStrict(candidate, existing) ==
  {k \in Hunks(candidate) : k.name \in Files(existing)}
  \cup {k \in Hunks(existing) : k.name \in Files(candidate)}
  \cup {p[1] : p \in {q \in Hunks(candidate) \X Hunks(existing) :
                        q[1].name = q[2].name /\ q[1].lo < q[2].hi /\ q[2].lo < q[1].hi}}
HunkOverlapOneWay(candidate, existing) ==
  {k \in Hunks(candidate) : k.name \in Files(existing)}
  \cup {p[1] : p \in {q \in Hunks(candidate) \X Hunks(existing) :
                        q[1].name = q[2].name /\ q[1].lo <= q[2].hi /\ q[2].lo <= q[1].hi}}

(* _hunk_overlap: a hunk meets a whole-file key of its path, and two hunks *)
(* of one path meet where their inclusive line ranges intersect.           *)
HunkOverlap(candidate, existing) ==
  {k \in Hunks(candidate) : k.name \in Files(existing)}
  \cup {k \in Hunks(existing) : k.name \in Files(candidate)}
  \cup {HunkKey(pair[1].name, Larger(pair[1].lo, pair[2].lo), Smaller(pair[1].hi, pair[2].hi)) :
          pair \in {q \in Hunks(candidate) \X Hunks(existing) :
                      /\ q[1].name = q[2].name
                      /\ q[1].lo <= q[2].hi
                      /\ q[2].lo <= q[1].hi}}

(* The overlap claim_lease computes: shared keys and intersecting hunks. *)
ConflictOverlap(candidate, existing) ==
  (candidate \cap existing) \cup HunkOverlap(candidate, existing)

(* Mutant: one shared file or hunk is enough for the exemption. *)
OverlapKindAny(a, b) ==
  LET overlap == ConflictOverlap(CalculateConflictKeys(a), CalculateConflictKeys(b))
  IN  IF overlap = {} THEN "none"
      ELSE IF \E k \in overlap : k.tag \in {"file", "hunk"} THEN "file" ELSE "other"

(* Whether an overlap blocks the same agent too: only an overlap made of   *)
(* file: and hunk: keys is within one agent's reach                        *)
(* (_same_agent_github_thread_file_overlap_allowed).                       *)
OverlapKind(a, b) ==
  LET overlap == ConflictOverlap(CalculateConflictKeys(a), CalculateConflictKeys(b))
  IN  IF overlap = {} THEN "none"
      ELSE IF \A k \in overlap : k.tag \in {"file", "hunk"} THEN "file" ELSE "other"
=============================================================================
