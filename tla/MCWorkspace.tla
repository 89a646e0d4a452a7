----------------------------- MODULE MCWorkspace -----------------------------
(* A small instance of Workspace, as large as each property needs.          *)
EXTENDS Workspace, TLC

CONSTANTS a, b, c, d, r1, r2, x, p, q, l1, l2, l3

Pair == {p, q}
TwoLeases == {l1, l2}
ThreeLeases == {l1, l2, l3}

-----------------------------------------------------------------------------
(* rows: two items that conflict. *)
TwoItems == {r1, r2}
OnePair == {TwoItems}

(* batch: four threads, of which a shares a line with b and an explicit    *)
(* conflict key with c, and one lease more than an agent may hold.         *)
FourItems == {a, b, c, d}
Field(id, path, start, line, thread, extra) ==
  [id |-> id, path |-> path, start |-> start, line |-> line, end |-> line,
   thread |-> thread, github |-> TRUE, extra |-> extra]
Shared == {[tag |-> "custom", name |-> "k"]}
Fields ==
  a :> Field("a", "p", 1, 3, "Ta", Shared) @@ b :> Field("b", "p", 3, 4, "Tb", {}) @@
  c :> Field("c", "q", 1, 1, "Tc", Shared) @@ d :> Field("d", "r", 1, 1, "Td", {})
FieldOverlap ==
  [s \in FourItems \X FourItems |-> Overlap!OverlapKind(Fields[s[1]], Fields[s[2]])]

(* resolve: two threads of one file, the first comment of one missing.     *)
TwoThreads == <<a, b>>
OneFile == {x}
PathOf == a :> x @@ b :> x
ConcernOf == a :> "same" @@ b :> None
TrivialThread == {b}
Fix == {"commit", "validation", "summary", "why"}
Matching == {"commit", "validation", "why"}
Call == [item |-> None, disposition |-> "none", files |-> {}, input |-> {}, bare |-> {},
         flags |-> {}, stale |-> FALSE, closed |-> FALSE, publish |-> FALSE]
Calls ==
  {[Call EXCEPT !.item = 2, !.flags = Fix, !.files = {x}, !.closed = TRUE, !.publish = TRUE],
   [Call EXCEPT !.input = {a, b}, !.publish = TRUE],
   [Call EXCEPT !.flags = Matching, !.publish = TRUE],
   [Call EXCEPT !.flags = Matching \ {"why"}, !.stale = TRUE, !.files = {x}],
   [Call EXCEPT !.disposition = "reject", !.flags = {"why"}, !.files = {x}, !.publish = TRUE]}

(* telemetry: two hosts report one execution of the runtime, one event is  *)
(* malformed.                                                              *)
Reports == 1..3
HostOf == <<"codex", "agent", "codex">>
IdOf == <<"s", "s", "t">>
KindOf == <<"good", "good", "malformed">>
TwoRuns == {a, b}
ExecutionOf == <<a, a, None>>

(* Leases of the rows are l1 and l2 whatever their order, so exchanging     *)
(* either with l3 never makes one state of the rows into another.          *)
Symmetry == Permutations(Pair) \cup Permutations(TwoItems) \cup Permutations(ThreeLeases)
=============================================================================
