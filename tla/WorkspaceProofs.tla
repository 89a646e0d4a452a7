--------------------------- MODULE WorkspaceProofs ---------------------------
(***************************************************************************)
(* Proofs about the machines around a workspace (Workspace), each for      *)
(* every value of its constants: which items conflict, what a commit of    *)
(* declared rows does to the session, what batches exclude and how much    *)
(* they claim, what agent resolve releases and answers, how often the      *)
(* report counts an event, and what the archive of a gate keeps.           *)
(* A machine's invariant is stated for the behaviours of its subject.      *)
(***************************************************************************)
EXTENDS Workspace, Integers, FiniteSetTheorems, WellFoundedInduction, TLAPS

-----------------------------------------------------------------------------
(* Conflict keys.                                                          *)

(* What KeyOverlap stands for: the overlap claim_lease computes from the   *)
(* conflict keys of two items (ConflictKeys), for any line numbers.  No    *)
(* producer gives an item extra keys.                                      *)

(* Any id, those of MCConflictKeys among them. *)
ItemIds == STRING \cup {"a", "b"}
WorkItem == [id : ItemIds, path : Paths \cup {""}, start : Int, line : Int, end : Int,
             thread : KeyThreads \cup {""}, github : BOOLEAN, extra : {{}}]
OverlapOf(a, b) ==
  Overlap!ConflictOverlap(Overlap!CalculateConflictKeys(a), Overlap!CalculateConflictKeys(b))

(* The range an item locks; an item without a range locks its whole file. *)
Lo(a) == Overlap!Smaller(Overlap!HunkStart(a), Overlap!HunkEnd(a))
Hi(a) == Overlap!Larger(Overlap!HunkStart(a), Overlap!HunkEnd(a))
Locked(a) == {n \in Nat \ {0} : Overlap!HasHunk(a) => Lo(a) <= n /\ n <= Hi(a)}
SharesLines(a, b) == a.path # "" /\ a.path = b.path /\ Locked(a) \cap Locked(b) # {}
SharesThread(a, b) == a.thread # "" /\ a.thread = b.thread

LEMMA RangeIs ==
  ASSUME NEW a \in WorkItem
  PROVE  Lo(a) \in Int /\ Hi(a) \in Int /\ Lo(a) <= Hi(a) /\ (Overlap!HasHunk(a) => Lo(a) > 0)
<1>1. a.start \in Int /\ a.line \in Int /\ a.end \in Int BY DEF WorkItem
<1> QED BY <1>1 DEF Lo, Hi, Overlap!HasHunk, Overlap!HunkStart, Overlap!HunkEnd, Overlap!FirstOf,
                    Overlap!Smaller, Overlap!Larger

(* What each kind of key carries. *)
LEMMA Tags ==
  /\ \A id : Overlap!ItemKey(id).tag = "item"
  /\ \A path : Overlap!FileKey(path).tag = "file" /\ Overlap!FileKey(path).name = path
  /\ \A path, lo, hi : LET k == Overlap!HunkKey(path, lo, hi)
                       IN  k.tag = "hunk" /\ k.name = path /\ k.lo = lo /\ k.hi = hi
  /\ \A tag, thread : LET k == Overlap!ThreadKey(tag, thread) IN k.tag = tag /\ k.name = thread
BY DEF Overlap!ItemKey, Overlap!FileKey, Overlap!HunkKey, Overlap!ThreadKey

ThreadTags == {"thread", "github_reply", "github_resolve"}

(* calculate_conflict_keys, key by key. *)
LEMMA KeyIs ==
  ASSUME NEW a \in WorkItem, NEW k
  PROVE  k \in Overlap!CalculateConflictKeys(a) <=>
           \/ k = Overlap!ItemKey(a.id)
           \/ Overlap!HasHunk(a) /\ k = Overlap!HunkConflictKey(a)
           \/ a.path # "" /\ ~Overlap!HasHunk(a) /\ k = Overlap!FileKey(a.path)
           \/ /\ a.thread # ""
              /\ \/ k = Overlap!ThreadKey("thread", a.thread)
                 \/ a.github /\ \E tag \in {"github_reply", "github_resolve"} : k = Overlap!ThreadKey(tag, a.thread)
<1>1. a.extra = {} BY DEF WorkItem
<1>2. Overlap!HasHunk(a) => a.path # "" BY DEF Overlap!HasHunk, Overlap!NoPath
<1> QED BY <1>1, <1>2, Zenon DEF Overlap!CalculateConflictKeys, Overlap!NoPath, Overlap!NoThread

(* The tag of a key tells which field of the item it comes from. *)
LEMMA KeyKinds ==
  ASSUME NEW a \in WorkItem, NEW k \in Overlap!CalculateConflictKeys(a)
  PROVE  \/ k.tag = "item" /\ k = Overlap!ItemKey(a.id)
         \/ k.tag = "hunk" /\ Overlap!HasHunk(a) /\ k = Overlap!HunkConflictKey(a)
         \/ k.tag = "file" /\ a.path # "" /\ ~Overlap!HasHunk(a) /\ k = Overlap!FileKey(a.path)
         \/ k.tag \in ThreadTags /\ a.thread # "" /\ k.name = a.thread
<1>1. CASE k = Overlap!ItemKey(a.id) BY <1>1, Tags
<1>2. CASE Overlap!HasHunk(a) /\ k = Overlap!HunkConflictKey(a)
  <2>1. k.tag = "hunk" BY <1>2, Tags DEF Overlap!HunkConflictKey
  <2> QED BY <1>2, <2>1
<1>3. CASE a.path # "" /\ ~Overlap!HasHunk(a) /\ k = Overlap!FileKey(a.path) BY <1>3, Tags
<1>4. ASSUME a.thread # "", NEW tag \in ThreadTags, k = Overlap!ThreadKey(tag, a.thread)
      PROVE  k.tag \in ThreadTags /\ k.name = a.thread
  BY <1>4, Zenon DEF Overlap!ThreadKey
<1>5. "thread" \in ThreadTags /\ {"github_reply", "github_resolve"} \subseteq ThreadTags BY DEF ThreadTags
<1>6. \/ k = Overlap!ItemKey(a.id)
      \/ Overlap!HasHunk(a) /\ k = Overlap!HunkConflictKey(a)
      \/ a.path # "" /\ ~Overlap!HasHunk(a) /\ k = Overlap!FileKey(a.path)
      \/ a.thread # "" /\ \E tag \in ThreadTags : k = Overlap!ThreadKey(tag, a.thread)
  BY <1>5, KeyIs
<1> QED BY <1>1, <1>2, <1>3, <1>4, <1>6

(* An item has one file: key, one hunk: key, or neither. *)
LEMMA KeysOf ==
  ASSUME NEW a \in WorkItem
  PROVE  LET K == Overlap!CalculateConflictKeys(a)
         IN  /\ Overlap!Files(K) = IF a.path # "" /\ ~Overlap!HasHunk(a) THEN {a.path} ELSE {}
             /\ Overlap!Hunks(K) = IF Overlap!HasHunk(a) THEN {Overlap!HunkConflictKey(a)} ELSE {}
<1> DEFINE K == Overlap!CalculateConflictKeys(a)
           H == Overlap!HunkConflictKey(a)
           F == Overlap!FileKey(a.path)
           I == Overlap!ItemKey(a.id)
           T(tag) == Overlap!ThreadKey(tag, a.thread)
<1>1. H.tag = "hunk" BY Tags DEF Overlap!HunkConflictKey
<1>2. F.tag = "file" /\ F.name = a.path BY Tags
<1>3. I.tag = "item" BY Tags
<1>4. T("thread").tag = "thread" /\ T("github_reply").tag = "github_reply" /\ T("github_resolve").tag = "github_resolve"
  BY Tags
<1>5. \A k \in K : \/ k = I
                   \/ Overlap!HasHunk(a) /\ k = H
                   \/ a.path # "" /\ ~Overlap!HasHunk(a) /\ k = F
                   \/ k = T("thread") \/ k = T("github_reply") \/ k = T("github_resolve")
  BY KeyIs
<1>6. Overlap!HasHunk(a) => H \in K BY KeyIs
<1>7. a.path # "" /\ ~Overlap!HasHunk(a) => F \in K BY KeyIs
<1> HIDE DEF K, H, F, I, T
<1>8. \A k \in K : (k.tag = "file" => a.path # "" /\ ~Overlap!HasHunk(a) /\ k = F)
                   /\ (k.tag = "hunk" => Overlap!HasHunk(a) /\ k = H)
  BY <1>1, <1>2, <1>3, <1>4, <1>5
<1>9. Overlap!Files(K) = IF a.path # "" /\ ~Overlap!HasHunk(a) THEN {a.path} ELSE {}
  BY <1>2, <1>7, <1>8 DEF Overlap!Files
<1>10. Overlap!Hunks(K) = IF Overlap!HasHunk(a) THEN {H} ELSE {}
  BY <1>1, <1>6, <1>8 DEF Overlap!Hunks
<1> QED BY <1>9, <1>10 DEF K, H

(* claim_lease's overlap is empty unless the two items share lines or a thread. *)
LEMMA Shared ==
  ASSUME NEW a \in WorkItem, NEW b \in WorkItem, a.id # b.id
  PROVE  /\ (\E k \in OverlapOf(a, b) : k.tag \in {"file", "hunk"}) <=> SharesLines(a, b)
         /\ (\E k \in OverlapOf(a, b) : k.tag \notin {"file", "hunk"}) <=> SharesThread(a, b)
<1> DEFINE A == Overlap!CalculateConflictKeys(a)
           B == Overlap!CalculateConflictKeys(b)
           hunkA == Overlap!HasHunk(a)
           hunkB == Overlap!HasHunk(b)
           fileA == a.path # "" /\ ~hunkA
           fileB == b.path # "" /\ ~hunkB
           HA == Overlap!HunkConflictKey(a)
           HB == Overlap!HunkConflictKey(b)
           FA == Overlap!FileKey(a.path)
           FB == Overlap!FileKey(b.path)
           Meet == Lo(a) <= Hi(b) /\ Lo(b) <= Hi(a)
           HM == Overlap!HunkKey(a.path, Overlap!Larger(Lo(a), Lo(b)), Overlap!Smaller(Hi(a), Hi(b)))
<1>1. HA.tag = "hunk" /\ HA.name = a.path /\ HA.lo = Lo(a) /\ HA.hi = Hi(a)
  BY Tags DEF Overlap!HunkConflictKey, Lo, Hi
<1>2. HB.tag = "hunk" /\ HB.name = b.path /\ HB.lo = Lo(b) /\ HB.hi = Hi(b)
  BY Tags DEF Overlap!HunkConflictKey, Lo, Hi
<1>3. HM.tag = "hunk" BY Tags
<1>4. FA.tag = "file" /\ FA.name = a.path /\ FB.tag = "file" /\ FB.name = b.path BY Tags
<1>5. /\ Overlap!Files(A) = IF fileA THEN {a.path} ELSE {}
      /\ Overlap!Hunks(A) = IF hunkA THEN {HA} ELSE {}
  BY KeysOf
<1>6. /\ Overlap!Files(B) = IF fileB THEN {b.path} ELSE {}
      /\ Overlap!Hunks(B) = IF hunkB THEN {HB} ELSE {}
  BY KeysOf
<1>7. hunkA => a.path # "" BY DEF Overlap!HasHunk, Overlap!NoPath
<1>8. hunkB => b.path # "" BY DEF Overlap!HasHunk, Overlap!NoPath
<1>9. OverlapOf(a, b) = (A \cap B) \cup Overlap!HunkOverlap(A, B)
  BY DEF OverlapOf, Overlap!ConflictOverlap
<1> HIDE DEF A, B, hunkA, hunkB, HA, HB, FA, FB, HM
<1>10. \A k : k \in Overlap!HunkOverlap(A, B) <=>
         \/ hunkA /\ fileB /\ a.path = b.path /\ k = HA
         \/ hunkB /\ fileA /\ a.path = b.path /\ k = HB
         \/ hunkA /\ hunkB /\ a.path = b.path /\ Meet /\ k = HM
  <2>1. {k \in Overlap!Hunks(A) : k.name \in Overlap!Files(B)}
        = IF hunkA /\ fileB /\ a.path = b.path THEN {HA} ELSE {}
    BY <1>1, <1>5, <1>6
  <2>2. {k \in Overlap!Hunks(B) : k.name \in Overlap!Files(A)}
        = IF hunkB /\ fileA /\ a.path = b.path THEN {HB} ELSE {}
    BY <1>2, <1>5, <1>6
  <2> DEFINE pairs == {q \in Overlap!Hunks(A) \X Overlap!Hunks(B) :
                         q[1].name = q[2].name /\ q[1].lo <= q[2].hi /\ q[2].lo <= q[1].hi}
             met == {Overlap!HunkKey(pair[1].name, Overlap!Larger(pair[1].lo, pair[2].lo),
                                  Overlap!Smaller(pair[1].hi, pair[2].hi)) : pair \in pairs}
  <2>3. pairs = IF hunkA /\ hunkB /\ a.path = b.path /\ Meet THEN {<< HA, HB >>} ELSE {}
    <3>1. Overlap!Hunks(A) \X Overlap!Hunks(B) = IF hunkA /\ hunkB THEN {<< HA, HB >>} ELSE {}
      <4>1. CASE hunkA /\ hunkB
        <5>1. Overlap!Hunks(A) = {HA} /\ Overlap!Hunks(B) = {HB} BY <1>5, <1>6, <4>1
        <5> QED BY <4>1, <5>1
      <4>2. CASE ~hunkA
        <5>1. Overlap!Hunks(A) = {} BY <1>5, <4>2
        <5> QED BY <4>2, <5>1
      <4>3. CASE ~hunkB
        <5>1. Overlap!Hunks(B) = {} BY <1>6, <4>3
        <5> QED BY <4>3, <5>1
      <4> QED BY <4>1, <4>2, <4>3
    <3>2. << HA, HB >>[1] = HA /\ << HA, HB >>[2] = HB OBVIOUS
    <3> QED BY <1>1, <1>2, <3>1, <3>2
  <2>4. Overlap!HunkKey(HA.name, Overlap!Larger(HA.lo, HB.lo), Overlap!Smaller(HA.hi, HB.hi)) = HM
    BY <1>1, <1>2 DEF HM
  <2>5. met = IF hunkA /\ hunkB /\ a.path = b.path /\ Meet THEN {HM} ELSE {}
    <3>1. << HA, HB >>[1] = HA /\ << HA, HB >>[2] = HB OBVIOUS
    <3> DEFINE F(q) == Overlap!HunkKey(q[1].name, Overlap!Larger(q[1].lo, q[2].lo), Overlap!Smaller(q[1].hi, q[2].hi))
    <3>2. F(<< HA, HB >>) = HM BY <2>4, <3>1
    <3>3. met = {F(q) : q \in pairs} OBVIOUS
    <3> HIDE DEF pairs, F, Meet, met
    <3> QED BY <2>3, <3>2, <3>3
  <2>6. Overlap!HunkOverlap(A, B) =
          {k \in Overlap!Hunks(A) : k.name \in Overlap!Files(B)}
          \cup {k \in Overlap!Hunks(B) : k.name \in Overlap!Files(A)} \cup met
    BY Zenon DEF Overlap!HunkOverlap
  <2> HIDE DEF met, Meet, pairs, fileA, fileB
  <2> QED BY <2>1, <2>2, <2>5, <2>6
(* The shared keys: one condition for each key of each item. *)
<1> DEFINE located == a.path # "" /\ a.path = b.path
<1>11. \A k \in A : \/ k.tag = "item" /\ k = Overlap!ItemKey(a.id)
                    \/ k.tag = "hunk" /\ hunkA /\ k = HA
                    \/ k.tag = "file" /\ fileA /\ k = FA
                    \/ k.tag \in ThreadTags /\ a.thread # "" /\ k.name = a.thread
  BY KeyKinds, Zenon DEF A, hunkA, HA, FA
<1>12. \A k \in B : \/ k.tag = "item" /\ k = Overlap!ItemKey(b.id)
                    \/ k.tag = "hunk" /\ hunkB /\ k = HB
                    \/ k.tag = "file" /\ fileB /\ k = FB
                    \/ k.tag \in ThreadTags /\ b.thread # "" /\ k.name = b.thread
  BY KeyKinds, Zenon DEF B, hunkB, HB, FB
<1>13. Overlap!ItemKey(a.id) # Overlap!ItemKey(b.id) BY DEF Overlap!ItemKey
<1>14. ThreadTags \cap {"item", "file", "hunk"} = {} BY DEF ThreadTags
<1>15. ASSUME NEW k \in A \cap B, k.tag = "file" PROVE fileA /\ fileB /\ a.path = b.path
  <2>1. fileA /\ k = FA BY <1>11, <1>14, <1>15
  <2>2. fileB /\ k = FB BY <1>12, <1>14, <1>15
  <2> QED BY <1>4, <2>1, <2>2
<1>16. ASSUME NEW k \in A \cap B, k.tag = "hunk" PROVE hunkA /\ hunkB /\ HA = HB
  BY <1>11, <1>12, <1>14, <1>16
<1>17. ASSUME NEW k \in A \cap B, k.tag \notin {"file", "hunk"} PROVE SharesThread(a, b)
  BY <1>11, <1>12, <1>13, <1>14, <1>17 DEF SharesThread
<1>18. SharesThread(a, b) => Overlap!ThreadKey("thread", a.thread) \in A \cap B
  BY KeyIs DEF SharesThread, A, B
<1>19. Overlap!ThreadKey("thread", a.thread).tag = "thread" BY Tags
<1>20. fileA /\ fileB /\ a.path = b.path => FA \in A \cap B
  BY KeyIs DEF FA, A, B, hunkA, hunkB
(* The lines: an item with a hunk locks its lines, without one all lines. *)
<1>21. /\ Lo(a) \in Int /\ Hi(a) \in Int /\ Lo(a) <= Hi(a) /\ (hunkA => Lo(a) > 0)
       /\ Lo(b) \in Int /\ Hi(b) \in Int /\ Lo(b) <= Hi(b) /\ (hunkB => Lo(b) > 0)
  BY RangeIs DEF hunkA, hunkB
<1>22. SharesLines(a, b) <=> located /\ (hunkA /\ hunkB => Meet)
  <2>1. ASSUME NEW n \in Locked(a) \cap Locked(b), hunkA, hunkB PROVE Meet
    BY <1>21, <2>1 DEF Locked, hunkA, hunkB
  <2>2. ASSUME hunkA, hunkB, Meet PROVE Locked(a) \cap Locked(b) # {}
    <3> DEFINE n == IF Lo(a) >= Lo(b) THEN Lo(a) ELSE Lo(b)
    <3>1. n \in Nat \ {0} /\ Lo(a) <= n /\ n <= Hi(a) /\ Lo(b) <= n /\ n <= Hi(b) BY <1>21, <2>2
    <3> HIDE DEF n
    <3> QED BY <3>1 DEF Locked
  <2>3. ASSUME ~(hunkA /\ hunkB) PROVE Locked(a) \cap Locked(b) # {}
    <3> DEFINE n == IF hunkA THEN Lo(a) ELSE IF hunkB THEN Lo(b) ELSE 1
    <3>1. n \in Nat \ {0} /\ (hunkA => Lo(a) <= n /\ n <= Hi(a)) /\ (hunkB => Lo(b) <= n /\ n <= Hi(b))
      BY <1>21, <2>3
    <3> HIDE DEF n
    <3> QED BY <3>1 DEF Locked, hunkA, hunkB
  <2> QED BY <2>1, <2>2, <2>3 DEF SharesLines
<1>23. ASSUME NEW k \in OverlapOf(a, b), k.tag \in {"file", "hunk"} PROVE SharesLines(a, b)
  <2>1. CASE k \in A \cap B /\ k.tag = "file" BY <1>15, <1>22, <2>1
  <2>2. CASE k \in A \cap B /\ k.tag = "hunk"
    <3>1. hunkA /\ hunkB /\ HA = HB BY <1>16, <2>2
    <3> QED BY <1>1, <1>2, <1>7, <1>21, <1>22, <3>1
  <2>3. CASE k \in Overlap!HunkOverlap(A, B) BY <1>7, <1>8, <1>10, <1>22, <2>3
  <2> QED BY <1>9, <1>23, <2>1, <2>2, <2>3
<1>24. ASSUME SharesLines(a, b) PROVE \E k \in OverlapOf(a, b) : k.tag \in {"file", "hunk"}
  <2>1. located /\ (hunkA /\ hunkB => Meet) BY <1>22, <1>24
  <2>2. CASE ~hunkA /\ ~hunkB BY <1>4, <1>9, <1>20, <2>1, <2>2
  <2>3. CASE hunkA /\ ~hunkB BY <1>1, <1>9, <1>10, <2>1, <2>3
  <2>4. CASE ~hunkA /\ hunkB BY <1>2, <1>9, <1>10, <2>1, <2>4
  <2>5. CASE hunkA /\ hunkB BY <1>3, <1>9, <1>10, <2>1, <2>5
  <2> QED BY <2>2, <2>3, <2>4, <2>5
<1>25. ASSUME NEW k \in OverlapOf(a, b), k.tag \notin {"file", "hunk"} PROVE SharesThread(a, b)
  BY <1>1, <1>2, <1>3, <1>9, <1>10, <1>17, <1>25
<1>26. SharesThread(a, b) => \E k \in OverlapOf(a, b) : k.tag \notin {"file", "hunk"}
  BY <1>9, <1>18, <1>19
<1> QED BY <1>23, <1>24, <1>25, <1>26

(***************************************************************************)
(* claim_lease's test for two items of different ids, with any line        *)
(* numbers: they overlap exactly when they share a line or a review thread, *)
(* and one agent may hold both exactly when they share lines alone.        *)
(***************************************************************************)
THEOREM OverlapMeansShared ==
  ASSUME NEW a \in WorkItem, NEW b \in WorkItem, a.id # b.id
  PROVE  Overlap!OverlapKind(a, b) = IF SharesThread(a, b) THEN "other"
                                  ELSE IF SharesLines(a, b) THEN "file" ELSE "none"
BY Shared DEF OverlapOf, Overlap!OverlapKind

(***************************************************************************)
(* The test does not depend on which item was claimed first, though        *)
(* _hunk_overlap treats the two sides differently: what Leases assumes of  *)
(* KeyOverlap (OverlapAssumption), the code's keys provide.                *)
(***************************************************************************)
THEOREM OverlapSymmetric ==
  ASSUME NEW a \in WorkItem, NEW b \in WorkItem, a.id # b.id
  PROVE  /\ Overlap!OverlapKind(a, b) \in {"none", "file", "other"}
         /\ Overlap!OverlapKind(a, b) = Overlap!OverlapKind(b, a)
<1>1. SharesThread(a, b) <=> SharesThread(b, a) BY DEF SharesThread
<1>2. SharesLines(a, b) <=> SharesLines(b, a) BY DEF SharesLines
<1>3. Overlap!OverlapKind(b, a) = IF SharesThread(b, a) THEN "other"
                               ELSE IF SharesLines(b, a) THEN "file" ELSE "none"
  BY OverlapMeansShared
<1> QED BY <1>1, <1>2, <1>3, OverlapMeansShared

(* Items with lines up to MaxLine lock the lines their fields say. *)
LEMMA LockedIs ==
  ASSUME NEW ida \in ItemIds, NEW idb \in ItemIds, NEW a \in Overlap!WorkItems(ida), NEW b \in Overlap!WorkItems(idb)
  PROVE  /\ Overlap!LockedLines(a) \cap Overlap!LockedLines(b) # {} <=> SharesLines(a, b)
         /\ Overlap!SameThread(a, b) <=> SharesThread(a, b)
         /\ a \in WorkItem /\ b \in WorkItem
<1>1. MaxLine \in Nat \ {0} BY WorkspaceAssumption DEF Overlap!LineBound
<1>2. ASSUME NEW id \in ItemIds, NEW x \in Overlap!WorkItems(id)
      PROVE  /\ x \in WorkItem /\ Lo(x) \in Int /\ Hi(x) \in Int /\ Hi(x) <= MaxLine /\ Lo(x) <= Hi(x)
             /\ Overlap!HasHunk(x) => Lo(x) > 0
             /\ Overlap!LockedLines(x) = IF x.path = "" THEN {}
                                         ELSE {<< x.path, n >> : n \in {m \in 1..MaxLine : m \in Locked(x)}}
  <2> DEFINE s == Overlap!HunkStart(x)
             e == Overlap!HunkEnd(x)
  <2>1. x.start \in -1..MaxLine /\ x.line \in 0..MaxLine /\ x.end \in 0..MaxLine BY DEF Overlap!WorkItems
  <2>2. s \in -1..MaxLine /\ e \in -1..MaxLine
    BY <1>1, <2>1 DEF Overlap!HunkStart, Overlap!HunkEnd, Overlap!FirstOf
  <2>3. Overlap!Ends(x) = {s, e} BY DEF Overlap!Ends, Overlap!HunkStart, Overlap!HunkEnd, Overlap!FirstOf
  <2>4. x \in WorkItem
    <3>1. x.start \in Int /\ x.line \in Int /\ x.end \in Int BY <1>1, <2>1
    <3>2. x.id \in ItemIds /\ x.path \in Paths \cup {""} /\ x.thread \in KeyThreads \cup {""}
          /\ x.github \in BOOLEAN /\ x.extra \in {{}}
      BY DEF Overlap!WorkItems, Overlap!NoPath, Overlap!NoThread
    <3>3. x = [id |-> x.id, path |-> x.path, start |-> x.start, line |-> x.line, end |-> x.end,
               thread |-> x.thread, github |-> x.github, extra |-> x.extra]
      BY DEF Overlap!WorkItems
    <3> QED BY <3>1, <3>2, <3>3 DEF WorkItem
  <2> HIDE DEF s, e
  <2>5. Lo(x) = (IF s <= e THEN s ELSE e) /\ Hi(x) = (IF s >= e THEN s ELSE e)
    BY DEF Lo, Hi, Overlap!Smaller, Overlap!Larger, s, e
  <2>6. Overlap!HasHunk(x) <=> x.path # "" /\ s > 0 /\ e > 0 BY DEF Overlap!HasHunk, Overlap!NoPath, s, e
  <2>7. ASSUME x.path # "", NEW m \in 1..MaxLine
        PROVE  ((\A y \in Overlap!Ends(x) : y > 0) =>
                  (\E y \in Overlap!Ends(x), z \in Overlap!Ends(x) : y <= m /\ m <= z)) <=> m \in Locked(x)
    <3>1. (\A y \in {s, e} : y > 0) <=> Overlap!HasHunk(x) BY <2>6, <2>7
    <3>2. (\E y \in {s, e}, z \in {s, e} : y <= m /\ m <= z) <=> Lo(x) <= m /\ m <= Hi(x) BY <1>1, <2>2, <2>5
    <3>3. m \in Nat \ {0} BY <1>1
    <3> QED BY <2>3, <3>1, <3>2, <3>3 DEF Locked
  <2>8. Overlap!LockedLines(x) = IF x.path = "" THEN {}
                                ELSE {<< x.path, n >> : n \in {m \in 1..MaxLine : m \in Locked(x)}}
    <3>1. CASE x.path = "" BY <3>1 DEF Overlap!LockedLines, Overlap!NoPath
    <3>2. CASE x.path # ""
      <4>1. {m \in 1..MaxLine : (\A y \in Overlap!Ends(x) : y > 0) =>
               (\E y \in Overlap!Ends(x), z \in Overlap!Ends(x) : y <= m /\ m <= z)}
              = {m \in 1..MaxLine : m \in Locked(x)}
        BY <2>7, <3>2
      <4> QED BY <3>2, <4>1 DEF Overlap!LockedLines, Overlap!NoPath
    <3> QED BY <3>1, <3>2
  <2>9. Lo(x) \in Int /\ Hi(x) \in Int /\ Hi(x) <= MaxLine /\ Lo(x) <= Hi(x) BY <1>1, <2>2, <2>5
  <2>10. Overlap!HasHunk(x) => Lo(x) > 0 BY <2>2, <2>5, <2>6
  <2> QED BY <2>4, <2>8, <2>9, <2>10
<1>3. a \in WorkItem /\ b \in WorkItem BY <1>2
<1>4. Overlap!SameThread(a, b) <=> SharesThread(a, b) BY DEF Overlap!SameThread, SharesThread, Overlap!NoThread
<1>5. ASSUME SharesLines(a, b) PROVE Overlap!LockedLines(a) \cap Overlap!LockedLines(b) # {}
  <2>1. PICK n \in Locked(a) \cap Locked(b) : TRUE BY <1>5 DEF SharesLines
  <2> DEFINE m == IF Overlap!HasHunk(a) /\ (Overlap!HasHunk(b) => Lo(a) >= Lo(b)) THEN Lo(a)
                  ELSE IF Overlap!HasHunk(b) THEN Lo(b) ELSE 1
  <2>2. /\ Lo(a) \in Int /\ Hi(a) \in Int /\ Hi(a) <= MaxLine /\ Lo(a) <= Hi(a) /\ (Overlap!HasHunk(a) => Lo(a) > 0)
        /\ Lo(b) \in Int /\ Hi(b) \in Int /\ Hi(b) <= MaxLine /\ Lo(b) <= Hi(b) /\ (Overlap!HasHunk(b) => Lo(b) > 0)
    BY <1>2
  <2>3. n \in Nat /\ (Overlap!HasHunk(a) => Lo(a) <= n /\ n <= Hi(a))
                  /\ (Overlap!HasHunk(b) => Lo(b) <= n /\ n <= Hi(b))
    BY <2>1 DEF Locked
  <2>4. m \in 1..MaxLine /\ m \in Locked(a) /\ m \in Locked(b) BY <1>1, <2>2, <2>3 DEF Locked
  <2> HIDE DEF m
  <2>5. a.path # "" /\ b.path = a.path BY <1>5 DEF SharesLines
  <2>6. << a.path, m >> \in Overlap!LockedLines(a) /\ << a.path, m >> \in Overlap!LockedLines(b)
    BY <1>2, <2>4, <2>5, ZenonT(60)
  <2> QED BY <2>6
<1>6. ASSUME NEW t \in Overlap!LockedLines(a) \cap Overlap!LockedLines(b) PROVE SharesLines(a, b)
  <2>1. a.path # "" /\ b.path # "" BY <1>2, <1>6
  <2>2. PICK m \in 1..MaxLine : m \in Locked(a) /\ t = << a.path, m >>
    <3>1. t \in {<< a.path, i >> : i \in {j \in 1..MaxLine : j \in Locked(a)}} BY <1>2, <1>6, <2>1
    <3> QED BY <3>1
  <2>3. PICK n \in 1..MaxLine : n \in Locked(b) /\ t = << b.path, n >>
    <3>1. t \in {<< b.path, i >> : i \in {j \in 1..MaxLine : j \in Locked(b)}} BY <1>2, <1>6, <2>1
    <3> QED BY <3>1
  <2>4. a.path = b.path /\ m = n BY <2>2, <2>3
  <2> QED BY <2>1, <2>2, <2>3, <2>4 DEF SharesLines
<1> QED BY <1>3, <1>4, <1>5, <1>6

(* No item shares a key with itself that is not of its own id. *)
LEMMA SameItem ==
  ASSUME NEW a \in WorkItem
  PROVE  Overlap!OverlapKind(a, a) = "other"
<1> DEFINE K == Overlap!CalculateConflictKeys(a)
           k == Overlap!ItemKey(a.id)
<1>1. k \in K BY KeyIs
<1>2. k.tag = "item" BY Tags
<1>3. k \in Overlap!ConflictOverlap(K, K) BY <1>1 DEF Overlap!ConflictOverlap
<1> HIDE DEF K, k
<1>4. (\A x \in Overlap!ConflictOverlap(K, K) : x.tag \in {"file", "hunk"}) = FALSE BY <1>2, <1>3
<1>5. Overlap!ConflictOverlap(K, K) # {} BY <1>3
<1> QED BY <1>4, <1>5 DEF Overlap!OverlapKind, K

(* claim_lease sees an overlap of two items exactly when they share a line *)
(* of a file or a review thread, whichever was claimed first, and exempts  *)
(* one agent from it only when lines alone are shared                      *)
(* (calculate_conflict_keys, _hunk_overlap,                                *)
(* _same_agent_github_thread_file_overlap_allowed).                        *)
THEOREM KeysAreLines == Spec => []OverlapIsSharedLines
<1> DEFINE KeysInv == subject = "keys" => /\ candidate \in Overlap!WorkItems("a")
                                          /\ existing = candidate \/ existing \in Overlap!WorkItems("b")
<1>1. Init => KeysInv BY DEF Init, Overlap!Init
<1>2. KeysInv /\ [Next]_vars => KeysInv'
  BY DEF Next, vars, OfKeys, Overlap!Next, Overlap!Compare, Overlap!WorkItems
<1>3. "a" \in ItemIds /\ "b" \in ItemIds BY DEF ItemIds
<1>4. KeysInv => OverlapIsSharedLines
  <2> SUFFICES ASSUME subject = "keys", candidate \in Overlap!WorkItems("a"),
                      existing = candidate \/ existing \in Overlap!WorkItems("b")
               PROVE  Overlap!OverlapIsSharedLines /\ Overlap!OverlapIsSymmetric /\ Overlap!FileOverlapSharesNoThread
    BY DEF OverlapIsSharedLines
  <2>1. CASE existing = candidate
    <3>1. candidate \in WorkItem BY <1>3, LockedIs
    <3>2. Overlap!OverlapKind(candidate, existing) = "other" BY <2>1, <3>1, SameItem
    <3> QED BY <2>1, <3>2
        DEF Overlap!OverlapIsSharedLines, Overlap!OverlapIsSymmetric, Overlap!FileOverlapSharesNoThread
  <2>2. CASE existing \in Overlap!WorkItems("b")
    <3>1. /\ Overlap!LockedLines(candidate) \cap Overlap!LockedLines(existing) # {} <=> SharesLines(candidate, existing)
          /\ Overlap!SameThread(candidate, existing) <=> SharesThread(candidate, existing)
          /\ candidate \in WorkItem /\ existing \in WorkItem
      BY <1>3, <2>2, LockedIs
    <3>2. candidate.id # existing.id BY <2>2 DEF Overlap!WorkItems
    <3>3. Overlap!OverlapKind(candidate, existing)
            = IF SharesThread(candidate, existing) THEN "other"
              ELSE IF SharesLines(candidate, existing) THEN "file" ELSE "none"
      BY <3>1, <3>2, OverlapMeansShared
    <3>4. Overlap!OverlapKind(candidate, existing) = Overlap!OverlapKind(existing, candidate)
      BY <3>1, <3>2, OverlapSymmetric
    <3> QED BY <3>1, <3>3, <3>4
        DEF Overlap!OverlapIsSharedLines, Overlap!OverlapIsSymmetric, Overlap!FileOverlapSharesNoThread
  <2> QED BY <2>1, <2>2
<1> QED BY <1>1, <1>2, <1>4, PTL DEF Spec

-----------------------------------------------------------------------------
(* Rows: commands that load and commit what they declare.                  *)

Partial(S, T) == UNION {[D -> T] : D \in SUBSET S}
RowViews == [items : Partial(Items, Rows!Item), leases : Partial(LeaseIds, Rows!LeaseRow),
             metadata : Rows!Metadata, events : Nat]

LEMMA PartialIs ==
  ASSUME NEW S, NEW T, NEW f
  PROVE  f \in Partial(S, T) <=> f \in [DOMAIN f -> T] /\ DOMAIN f \subseteq S
BY DEF Partial

(* The claim marker of an item with the active leases S. *)
Marked(row, S) ==
  IF S = {} THEN [row EXCEPT !.state = IF @ = "claimed" THEN "open" ELSE @, !.owner = None]
  ELSE [row EXCEPT !.state = "claimed", !.owner = CHOOSE l \in S : TRUE]

LEMMA MarkedIs ==
  ASSUME NEW row \in Rows!Item, NEW S \in SUBSET LeaseIds
  PROVE  Marked(row, S) \in Rows!Item /\ Marked(Marked(row, S), S) = Marked(row, S)
<1>1. CASE S = {} BY <1>1 DEF Marked, Rows!Item
<1>2. CASE S # {}
  <2>1. (CHOOSE l \in S : TRUE) \in LeaseIds BY <1>2
  <2> QED BY <1>2, <2>1 DEF Marked, Rows!Item
<1> QED BY <1>1, <1>2

LEMMA DerivedIs == \A I, L : Rows!Derived(I, L) = [i \in DOMAIN I |-> Marked(I[i], Rows!On(L, i))]
BY DEF Rows!Derived, Marked

LEMMA OnIs ==
  ASSUME NEW L \in Partial(LeaseIds, Rows!LeaseRow), NEW i
  PROVE  Rows!On(L, i) = {l \in DOMAIN L : L[l].status = "active" /\ L[l].item = i} /\ Rows!On(L, i) \subseteq LeaseIds
BY PartialIs DEF Rows!On, Rows!ActiveIn

LEMMA DerivedTypes ==
  ASSUME NEW I \in Partial(Items, Rows!Item), NEW L \in Partial(LeaseIds, Rows!LeaseRow)
  PROVE  Rows!Derived(I, L) \in Partial(Items, Rows!Item) /\ DOMAIN Rows!Derived(I, L) = DOMAIN I
<1>1. \A i \in DOMAIN I : Marked(I[i], Rows!On(L, i)) \in Rows!Item BY PartialIs, OnIs, MarkedIs
<1> QED BY <1>1, DerivedIs, PartialIs

LEMMA OverIs ==
  ASSUME NEW f, NEW g
  PROVE  /\ DOMAIN Rows!Over(f, g) = DOMAIN f \cup DOMAIN g
         /\ \A x \in DOMAIN f : Rows!Over(f, g)[x] = f[x]
         /\ \A x \in DOMAIN g \ DOMAIN f : Rows!Over(f, g)[x] = g[x]
BY DEF Rows!Over

LEMMA OverTypes ==
  ASSUME NEW S, NEW T, NEW f \in Partial(S, T), NEW g \in Partial(S, T)
  PROVE  Rows!Over(f, g) \in Partial(S, T)
BY PartialIs DEF Rows!Over

LEMMA RestrictIs ==
  ASSUME NEW S, NEW T, NEW f \in Partial(S, T), NEW R \in SUBSET DOMAIN f
  PROVE  /\ Rows!Restrict(f, R) \in Partial(S, T) /\ DOMAIN Rows!Restrict(f, R) = R
         /\ \A x \in R : Rows!Restrict(f, R)[x] = f[x]
BY PartialIs DEF Rows!Restrict

(* Equal partial maps are equal on every key. *)
LEMMA SameRows ==
  ASSUME NEW S, NEW T, NEW f \in Partial(S, T), NEW g \in Partial(S, T), DOMAIN f = DOMAIN g,
         \A x \in DOMAIN f : f[x] = g[x]
  PROVE  f = g
BY PartialIs

-----------------------------------------------------------------------------
(* The session as stored: every lease is of an item, an item has one       *)
(* active lease, and carries the marker that follows from it.              *)
SessionOK ==
  /\ items \in Partial(Items, Rows!Item) /\ leases \in Partial(LeaseIds, Rows!LeaseRow)
  /\ metadata \in Rows!Metadata /\ events \in Nat /\ revision \in Nat
  /\ \A l \in DOMAIN leases : leases[l].item \in DOMAIN items
  /\ Rows!OneActive(leases)
  /\ \A i \in DOMAIN items : items[i] = Marked(items[i], Rows!On(leases, i))

LEMMA FullViewIs ==
  ASSUME SessionOK
  PROVE  Rows!FullView = [items |-> items, leases |-> leases, metadata |-> metadata, events |-> events]
<1>1. Rows!Derived(items, leases) = items BY DerivedIs, DerivedTypes, SameRows DEF SessionOK
<1> QED BY <1>1 DEF Rows!FullView

(* A selection with every item its leases are of and every active lease of *)
(* its items.                                                              *)
Closed(s) ==
  /\ s.items \subseteq DOMAIN items /\ s.leases \subseteq DOMAIN leases
  /\ \A l \in s.leases : leases[l].item \in s.items
  /\ \A l \in Rows!ActiveIn(leases) : leases[l].item \in s.items => l \in s.leases

LEMMA SelectedIs ==
  ASSUME SessionOK, NEW r \in Rows!Request
  PROVE  /\ Closed(Rows!Selected(r))
         /\ r.whole => Rows!Selected(r) = [items |-> DOMAIN items, leases |-> DOMAIN leases]
         /\ r.items \cap DOMAIN items \subseteq Rows!Selected(r).items
         /\ r.leases \cap DOMAIN leases \subseteq Rows!Selected(r).leases
         /\ r.all => Rows!ActiveIn(leases) \subseteq Rows!Selected(r).leases
<1>1. CASE r.whole
  <2>1. Rows!Selected(r) = [items |-> DOMAIN items, leases |-> DOMAIN leases] BY <1>1 DEF Rows!Selected
  <2> QED BY <1>1, <2>1 DEF Closed, SessionOK, Rows!ActiveIn
<1>2. CASE ~r.whole
  <2> DEFINE first == {l \in DOMAIN leases :
                         \/ l \in r.leases
                         \/ l \in Rows!ActiveIn(leases) /\ (r.all \/ leases[l].item \in r.items)}
             touched == {leases[l].item : l \in {m \in first : m \in r.leases \/ r.all}}
             second == UNION {Rows!On(leases, i) : i \in touched}
             s == [items |-> (r.items \cup touched) \cap DOMAIN items, leases |-> first \cup second]
  <2>1. Rows!Selected(r) = s BY <1>2 DEF Rows!Selected
  <2>2. \A l \in Rows!ActiveIn(leases) : l \in DOMAIN leases /\ l \in Rows!On(leases, leases[l].item)
    BY DEF Rows!ActiveIn, Rows!On
  <2>3. \A l \in second : l \in DOMAIN leases /\ leases[l].item \in touched
    BY DEF Rows!On, Rows!ActiveIn
  <2>4. \A l \in first : leases[l].item \in r.items \cup touched OBVIOUS
  <2>5. \A l \in DOMAIN leases : leases[l].item \in DOMAIN items BY DEF SessionOK
  <2>6. \A l \in Rows!ActiveIn(leases) : leases[l].item \in r.items => l \in first BY <2>2
  <2>7. \A l \in Rows!ActiveIn(leases) : leases[l].item \in touched => l \in second BY <2>2
  <2>8. Closed(s) BY <2>3, <2>4, <2>5, <2>6, <2>7 DEF Closed
  <2>9. r.items \cap DOMAIN items \subseteq s.items /\ r.leases \cap DOMAIN leases \subseteq s.leases OBVIOUS
  <2>10. r.all => Rows!ActiveIn(leases) \subseteq s.leases BY <2>2
  <2> QED BY <1>2, <2>1, <2>8, <2>9, <2>10
<1> QED BY <1>1, <1>2

(* A load of a closed selection sees its rows as they are stored. *)
LEMMA ViewIs ==
  ASSUME SessionOK, NEW r \in Rows!Request, NEW s, s = Rows!Selected(r)
  PROVE  /\ Rows!View(r) = [items |-> Rows!Restrict(items, s.items), leases |-> Rows!Restrict(leases, s.leases),
                            metadata |-> metadata, events |-> IF r.whole THEN events ELSE 0]
         /\ Rows!View(r) \in RowViews
         /\ \A i \in s.items : Rows!On(Rows!Restrict(leases, s.leases), i) = Rows!On(leases, i)
<1>1. Closed(s) BY SelectedIs
<1>2. /\ Rows!Restrict(items, s.items) \in Partial(Items, Rows!Item)
      /\ DOMAIN Rows!Restrict(items, s.items) = s.items
      /\ \A i \in s.items : Rows!Restrict(items, s.items)[i] = items[i]
  BY <1>1, RestrictIs DEF Closed, SessionOK
<1>3. /\ Rows!Restrict(leases, s.leases) \in Partial(LeaseIds, Rows!LeaseRow)
      /\ DOMAIN Rows!Restrict(leases, s.leases) = s.leases
      /\ \A l \in s.leases : Rows!Restrict(leases, s.leases)[l] = leases[l]
  BY <1>1, RestrictIs DEF Closed, SessionOK
<1>4. ASSUME NEW i \in s.items PROVE Rows!On(Rows!Restrict(leases, s.leases), i) = Rows!On(leases, i)
  <2>1. leases \in Partial(LeaseIds, Rows!LeaseRow) BY DEF SessionOK
  <2>2. Rows!On(leases, i) = {l \in DOMAIN leases : leases[l].status = "active" /\ leases[l].item = i}
    BY <2>1, OnIs
  <2>3. Rows!On(Rows!Restrict(leases, s.leases), i)
          = {l \in s.leases : leases[l].status = "active" /\ leases[l].item = i}
    BY <1>3, OnIs
  <2>4. \A l \in DOMAIN leases : leases[l].status = "active" /\ leases[l].item = i => l \in s.leases
    BY <1>1 DEF Closed, Rows!ActiveIn
  <2> QED BY <1>1, <2>2, <2>3, <2>4 DEF Closed
<1>5. Rows!Derived(Rows!Restrict(items, s.items), Rows!Restrict(leases, s.leases)) = Rows!Restrict(items, s.items)
  <2>1. \A i \in s.items : items[i] = Marked(items[i], Rows!On(leases, i)) BY <1>1 DEF SessionOK, Closed
  <2>2. Rows!Derived(Rows!Restrict(items, s.items), Rows!Restrict(leases, s.leases)) \in Partial(Items, Rows!Item)
    BY <1>2, <1>3, DerivedTypes
  <2> QED BY <1>2, <1>4, <2>1, <2>2, DerivedIs, SameRows
<1>6. Rows!View(r) = [items |-> Rows!Restrict(items, s.items), leases |-> Rows!Restrict(leases, s.leases),
                      metadata |-> metadata, events |-> IF r.whole THEN events ELSE 0]
  BY <1>5 DEF Rows!View
<1>7. Rows!View(r) \in RowViews BY <1>2, <1>3, <1>6 DEF RowViews, SessionOK
<1> QED BY <1>4, <1>6, <1>7

-----------------------------------------------------------------------------
(* What a mutation makes of the rows of a selection, for which it keeps    *)
(* what holds of a session.                                                *)
Local(w, s) ==
  /\ w \in RowViews /\ s.items \subseteq DOMAIN w.items /\ s.leases \subseteq DOMAIN w.leases
  /\ DOMAIN w.items \cap DOMAIN items \subseteq s.items
  /\ DOMAIN w.leases \cap DOMAIN leases \subseteq s.leases
  /\ \A l \in DOMAIN w.leases : w.leases[l].item \in DOMAIN w.items
  /\ Rows!OneActive(w.leases)

WholeItems(w) == Rows!Over(w.items, items)
WholeLeases(w) == Rows!Over(w.leases, leases)

LEMMA WholeItemsIs ==
  ASSUME SessionOK, NEW s, NEW w, Local(w, s)
  PROVE  /\ WholeItems(w) \in Partial(Items, Rows!Item) /\ DOMAIN WholeItems(w) = DOMAIN w.items \cup DOMAIN items
         /\ \A i \in DOMAIN w.items : WholeItems(w)[i] = w.items[i]
         /\ \A i \in DOMAIN items \ DOMAIN w.items : WholeItems(w)[i] = items[i]
<1>1. w.items \in Partial(Items, Rows!Item) /\ items \in Partial(Items, Rows!Item)
  BY DEF Local, RowViews, SessionOK
<1>2. Rows!Over(w.items, items) \in Partial(Items, Rows!Item) BY <1>1, OverTypes
<1>3. /\ DOMAIN Rows!Over(w.items, items) = DOMAIN w.items \cup DOMAIN items
      /\ \A i \in DOMAIN w.items : Rows!Over(w.items, items)[i] = w.items[i]
      /\ \A i \in DOMAIN items \ DOMAIN w.items : Rows!Over(w.items, items)[i] = items[i]
  BY OverIs
<1> QED BY <1>2, <1>3 DEF WholeItems

LEMMA WholeLeasesIs ==
  ASSUME SessionOK, NEW s, NEW w, Local(w, s)
  PROVE  /\ WholeLeases(w) \in Partial(LeaseIds, Rows!LeaseRow)
         /\ DOMAIN WholeLeases(w) = DOMAIN w.leases \cup DOMAIN leases
         /\ \A l \in DOMAIN w.leases : WholeLeases(w)[l] = w.leases[l]
         /\ \A l \in DOMAIN leases \ DOMAIN w.leases : WholeLeases(w)[l] = leases[l]
<1>1. w.leases \in Partial(LeaseIds, Rows!LeaseRow) /\ leases \in Partial(LeaseIds, Rows!LeaseRow)
  BY DEF Local, RowViews, SessionOK
<1>2. Rows!Over(w.leases, leases) \in Partial(LeaseIds, Rows!LeaseRow) BY <1>1, OverTypes
<1>3. /\ DOMAIN Rows!Over(w.leases, leases) = DOMAIN w.leases \cup DOMAIN leases
      /\ \A l \in DOMAIN w.leases : Rows!Over(w.leases, leases)[l] = w.leases[l]
      /\ \A l \in DOMAIN leases \ DOMAIN w.leases : Rows!Over(w.leases, leases)[l] = leases[l]
  BY OverIs
<1> QED BY <1>2, <1>3 DEF WholeLeases

LEMMA WholeOnIs ==
  ASSUME SessionOK, NEW s, Closed(s), NEW w, Local(w, s)
  PROVE  /\ \A i \in DOMAIN w.items : Rows!On(WholeLeases(w), i) = Rows!On(w.leases, i)
         /\ \A i \in DOMAIN items \ DOMAIN w.items : Rows!On(WholeLeases(w), i) = Rows!On(leases, i)
<1>1. w.leases \in Partial(LeaseIds, Rows!LeaseRow) BY DEF Local, RowViews
<1>2. leases \in Partial(LeaseIds, Rows!LeaseRow) BY DEF SessionOK
<1>3. /\ WholeLeases(w) \in Partial(LeaseIds, Rows!LeaseRow)
      /\ DOMAIN WholeLeases(w) = DOMAIN w.leases \cup DOMAIN leases
      /\ \A l \in DOMAIN w.leases : WholeLeases(w)[l] = w.leases[l]
      /\ \A l \in DOMAIN leases \ DOMAIN w.leases : WholeLeases(w)[l] = leases[l]
  BY WholeLeasesIs
<1>4. \A l \in DOMAIN leases \ DOMAIN w.leases :
        leases[l].status = "active" => leases[l].item \notin DOMAIN w.items
  BY DEF SessionOK, Closed, Local, Rows!ActiveIn
<1>5. ASSUME NEW i \in DOMAIN w.items PROVE Rows!On(WholeLeases(w), i) = Rows!On(w.leases, i)
  <2>1. Rows!On(WholeLeases(w), i)
          = {l \in DOMAIN WholeLeases(w) : WholeLeases(w)[l].status = "active" /\ WholeLeases(w)[l].item = i}
    BY <1>3, OnIs
  <2>2. Rows!On(w.leases, i) = {l \in DOMAIN w.leases : w.leases[l].status = "active" /\ w.leases[l].item = i}
    BY <1>1, OnIs
  <2> QED BY <1>3, <1>4, <2>1, <2>2
<1>6. ASSUME NEW i \in DOMAIN items \ DOMAIN w.items PROVE Rows!On(WholeLeases(w), i) = Rows!On(leases, i)
  <2>1. Rows!On(WholeLeases(w), i)
          = {l \in DOMAIN WholeLeases(w) : WholeLeases(w)[l].status = "active" /\ WholeLeases(w)[l].item = i}
    BY <1>3, OnIs
  <2>2. Rows!On(leases, i) = {l \in DOMAIN leases : leases[l].status = "active" /\ leases[l].item = i}
    BY <1>2, OnIs
  <2>3. \A l \in DOMAIN w.leases : w.leases[l].item # i BY DEF Local
  <2>4. \A l \in DOMAIN leases : leases[l].item = i => l \notin DOMAIN w.leases BY DEF Local, Closed
  <2> QED BY <1>3, <2>1, <2>2, <2>3, <2>4
<1> QED BY <1>5, <1>6

(* Rows are deleted before rows are inserted, so the index refuses nothing *)
(* that one lease an item allows.                                          *)
LEMMA LeaseRowsIs ==
  ASSUME SessionOK, NEW s, Closed(s), NEW w, Local(w, s)
  PROVE  Rows!LeaseRows(s.leases, w.leases) = {WholeLeases(w)} /\ Rows!OneActive(WholeLeases(w))
<1> DEFINE changed == {l \in DOMAIN w.leases : l \notin s.leases \/ w.leases[l] # leases[l]}
           rest == DOMAIN leases \ ((s.leases \ DOMAIN w.leases) \cup changed)
           after == Rows!Over(Rows!Restrict(w.leases, changed), Rows!Restrict(leases, rest))
<1>1. w.leases \in Partial(LeaseIds, Rows!LeaseRow) /\ leases \in Partial(LeaseIds, Rows!LeaseRow)
  BY DEF Local, RowViews, SessionOK
<1>2. changed \in SUBSET DOMAIN w.leases /\ rest \in SUBSET DOMAIN leases OBVIOUS
<1>3. s.leases \subseteq DOMAIN w.leases /\ s.leases \subseteq DOMAIN leases BY DEF Local, Closed
<1>4. \A l \in DOMAIN w.leases : l \in changed \/ (l \in DOMAIN leases /\ w.leases[l] = leases[l]) BY <1>3
<1>5. rest = DOMAIN leases \ changed BY <1>3
<1> HIDE DEF changed, rest
<1>6. /\ Rows!Restrict(w.leases, changed) \in Partial(LeaseIds, Rows!LeaseRow)
      /\ DOMAIN Rows!Restrict(w.leases, changed) = changed
      /\ \A l \in changed : Rows!Restrict(w.leases, changed)[l] = w.leases[l]
  BY <1>1, <1>2, RestrictIs
<1>7. /\ Rows!Restrict(leases, rest) \in Partial(LeaseIds, Rows!LeaseRow)
      /\ DOMAIN Rows!Restrict(leases, rest) = rest
      /\ \A l \in rest : Rows!Restrict(leases, rest)[l] = leases[l]
  BY <1>1, <1>2, RestrictIs
<1>8. /\ after \in Partial(LeaseIds, Rows!LeaseRow) /\ DOMAIN after = changed \cup rest
      /\ \A l \in changed : after[l] = w.leases[l]
      /\ \A l \in rest : after[l] = leases[l]
  <2>1. after \in Partial(LeaseIds, Rows!LeaseRow) BY <1>6, <1>7, OverTypes
  <2>2. DOMAIN after = changed \cup rest BY <1>6, <1>7, OverIs
  <2>3. \A l \in changed : after[l] = w.leases[l] BY <1>6, OverIs
  <2>4. rest \cap changed = {} BY <1>5
  <2>5. ASSUME NEW l \in rest PROVE after[l] = leases[l]
    <3>1. l \in DOMAIN Rows!Restrict(leases, rest) \ DOMAIN Rows!Restrict(w.leases, changed)
      BY <1>6, <1>7, <2>4
    <3>2. \A f, g : \A x \in DOMAIN g \ DOMAIN f : Rows!Over(f, g)[x] = g[x] BY DEF Rows!Over
    <3>3. after[l] = Rows!Restrict(leases, rest)[l] BY ONLY <3>1, <3>2
    <3> QED BY <1>7, <3>3
  <2> HIDE DEF after
  <2> QED BY <2>1, <2>2, <2>3, <2>5
<1> HIDE DEF after
<1>9. /\ WholeLeases(w) \in Partial(LeaseIds, Rows!LeaseRow)
      /\ DOMAIN WholeLeases(w) = DOMAIN w.leases \cup DOMAIN leases
      /\ \A l \in DOMAIN w.leases : WholeLeases(w)[l] = w.leases[l]
      /\ \A l \in DOMAIN leases \ DOMAIN w.leases : WholeLeases(w)[l] = leases[l]
  BY WholeLeasesIs
<1>10. after = WholeLeases(w)
  <2>1. DOMAIN after = DOMAIN WholeLeases(w) BY <1>2, <1>4, <1>5, <1>8, <1>9
  <2>2. \A l \in DOMAIN after : after[l] = WholeLeases(w)[l] BY <1>2, <1>4, <1>5, <1>8, <1>9
  <2> QED BY <1>8, <1>9, <2>1, <2>2, SameRows
<1>11. Rows!OneActive(WholeLeases(w))
  <2> SUFFICES ASSUME NEW l \in Rows!ActiveIn(WholeLeases(w)), NEW m \in Rows!ActiveIn(WholeLeases(w)),
                      WholeLeases(w)[l].item = WholeLeases(w)[m].item
               PROVE  l = m
    BY DEF Rows!OneActive
  <2> DEFINE i == WholeLeases(w)[l].item
  <2>1. l \in Rows!On(WholeLeases(w), i) /\ m \in Rows!On(WholeLeases(w), i) BY <1>9, OnIs DEF Rows!ActiveIn
  <2>2. i \in DOMAIN w.items \/ i \in DOMAIN items \ DOMAIN w.items
    <3>1. \A k \in DOMAIN w.leases : w.leases[k].item \in DOMAIN w.items BY DEF Local
    <3>2. \A k \in DOMAIN leases : leases[k].item \in DOMAIN items BY DEF SessionOK
    <3> QED BY <1>9, <3>1, <3>2 DEF Rows!ActiveIn
  <2> HIDE DEF i
  <2>3. CASE i \in DOMAIN w.items
    <3>1. l \in Rows!On(w.leases, i) /\ m \in Rows!On(w.leases, i) BY <2>1, <2>3, WholeOnIs
    <3> QED BY <3>1 DEF Rows!On, Rows!OneActive, Local
  <2>4. CASE i \in DOMAIN items \ DOMAIN w.items
    <3>1. l \in Rows!On(leases, i) /\ m \in Rows!On(leases, i) BY <2>1, <2>4, WholeOnIs
    <3> QED BY <3>1 DEF Rows!On, Rows!OneActive, SessionOK
  <2> QED BY <2>2, <2>3, <2>4
<1>12. Rows!LeaseRows(s.leases, w.leases) = IF Rows!OneActive(after) THEN {after} ELSE {}
  BY DEF Rows!LeaseRows, after, changed, rest
<1> QED BY <1>10, <1>11, <1>12

LEMMA ItemRowsIs ==
  ASSUME SessionOK, NEW s, Closed(s), NEW w, Local(w, s)
  PROVE  Rows!ItemRows(s.items, Rows!Derived(w.items, w.leases)) = Rows!Derived(WholeItems(w), WholeLeases(w))
<1> DEFINE mine == Rows!Derived(w.items, w.leases)
           others == Rows!Restrict(items, DOMAIN items \ s.items)
           all == Rows!Derived(WholeItems(w), WholeLeases(w))
<1>1. w.items \in Partial(Items, Rows!Item) /\ w.leases \in Partial(LeaseIds, Rows!LeaseRow)
  BY DEF Local, RowViews
<1>2. mine \in Partial(Items, Rows!Item) /\ DOMAIN mine = DOMAIN w.items
      /\ \A i \in DOMAIN w.items : mine[i] = Marked(w.items[i], Rows!On(w.leases, i))
  BY <1>1, DerivedTypes, DerivedIs
<1>3. others \in Partial(Items, Rows!Item) /\ DOMAIN others = DOMAIN items \ s.items
      /\ \A i \in DOMAIN items \ s.items : others[i] = items[i]
  BY RestrictIs DEF SessionOK
<1>4. all \in Partial(Items, Rows!Item) /\ DOMAIN all = DOMAIN w.items \cup DOMAIN items
      /\ \A i \in DOMAIN w.items \cup DOMAIN items : all[i] = Marked(WholeItems(w)[i], Rows!On(WholeLeases(w), i))
  BY WholeItemsIs, WholeLeasesIs, DerivedTypes, DerivedIs
<1> HIDE DEF mine, others, all
<1>5. /\ Rows!Over(mine, others) \in Partial(Items, Rows!Item)
      /\ DOMAIN Rows!Over(mine, others) = DOMAIN mine \cup DOMAIN others
      /\ \A i \in DOMAIN mine : Rows!Over(mine, others)[i] = mine[i]
      /\ \A i \in DOMAIN others \ DOMAIN mine : Rows!Over(mine, others)[i] = others[i]
  <2>1. Rows!Over(mine, others) \in Partial(Items, Rows!Item) BY <1>2, <1>3, OverTypes
  <2>2. /\ DOMAIN Rows!Over(mine, others) = DOMAIN mine \cup DOMAIN others
        /\ \A i \in DOMAIN mine : Rows!Over(mine, others)[i] = mine[i]
        /\ \A i \in DOMAIN others \ DOMAIN mine : Rows!Over(mine, others)[i] = others[i]
    BY OverIs
  <2> QED BY <2>1, <2>2
<1>6. s.items \subseteq DOMAIN w.items BY DEF Local
<1>7. \A i \in DOMAIN w.items : Rows!Over(mine, others)[i] = all[i]
  <2>1. \A i \in DOMAIN w.items : Rows!On(WholeLeases(w), i) = Rows!On(w.leases, i) BY WholeOnIs
  <2>2. \A i \in DOMAIN w.items : WholeItems(w)[i] = w.items[i] BY WholeItemsIs
  <2> QED BY <1>2, <1>4, <1>5, <2>1, <2>2
<1>8. \A i \in DOMAIN items \ DOMAIN w.items : Rows!Over(mine, others)[i] = all[i]
  <2>1. \A i \in DOMAIN items : items[i] = Marked(items[i], Rows!On(leases, i)) BY DEF SessionOK
  <2>2. \A i \in DOMAIN items \ DOMAIN w.items : Rows!On(WholeLeases(w), i) = Rows!On(leases, i) BY WholeOnIs
  <2>3. \A i \in DOMAIN items \ DOMAIN w.items : WholeItems(w)[i] = items[i] BY WholeItemsIs
  <2> QED BY <1>2, <1>3, <1>4, <1>5, <1>6, <2>1, <2>2, <2>3
<1>9. Rows!Over(mine, others) = all
  <2>1. DOMAIN Rows!Over(mine, others) = DOMAIN w.items \cup DOMAIN items BY <1>2, <1>3, <1>5, <1>6
  <2>2. \A i \in DOMAIN Rows!Over(mine, others) : Rows!Over(mine, others)[i] = all[i] BY <1>7, <1>8, <2>1
  <2> QED BY <1>4, <1>5, <2>1, <2>2, SameRows
<1> QED BY <1>9 DEF Rows!ItemRows, mine, others, all

(* A commit of such a result is never stopped as invalid, and the session  *)
(* is the result put over the whole of it.                                 *)
LEMMA WriteRows ==
  ASSUME SessionOK, NEW r \in Rows!Request, NEW s, s = Rows!Selected(r), NEW w, Local(w, s), NEW p \in Procs,
         Rows!EventRows(r, w) \in Nat, Rows!Write(p, r, w)
  PROVE  /\ SessionOK' /\ Rows!Finish(p, "committed") /\ revision' = revision + 1
         /\ leases' = WholeLeases(w) /\ items' = Rows!Derived(WholeItems(w), WholeLeases(w))
         /\ metadata' = w.metadata /\ events' = Rows!EventRows(r, w)
<1>1. Closed(s) BY SelectedIs
<1>2. ~Rows!Overwrites(s, w) BY DEF Local, Rows!Overwrites
<1>3. Rows!LeaseRows(s.leases, w.leases) = {WholeLeases(w)} /\ Rows!OneActive(WholeLeases(w))
  BY <1>1, LeaseRowsIs
<1>4. /\ leases' \in {WholeLeases(w)} /\ items' = Rows!ItemRows(s.items, Rows!Derived(w.items, w.leases))
      /\ metadata' = w.metadata /\ events' = Rows!EventRows(r, w)
      /\ revision' = revision + 1 /\ Rows!Finish(p, "committed")
  BY <1>2, <1>3 DEF Rows!Write
<1>5. leases' = WholeLeases(w) /\ items' = Rows!Derived(WholeItems(w), WholeLeases(w))
  BY <1>1, <1>4, ItemRowsIs
<1>6. WholeItems(w) \in Partial(Items, Rows!Item) /\ DOMAIN WholeItems(w) = DOMAIN w.items \cup DOMAIN items
  BY WholeItemsIs
<1>7. /\ WholeLeases(w) \in Partial(LeaseIds, Rows!LeaseRow)
      /\ DOMAIN WholeLeases(w) = DOMAIN w.leases \cup DOMAIN leases
      /\ \A l \in DOMAIN w.leases : WholeLeases(w)[l] = w.leases[l]
      /\ \A l \in DOMAIN leases \ DOMAIN w.leases : WholeLeases(w)[l] = leases[l]
  BY WholeLeasesIs
<1>8. items' \in Partial(Items, Rows!Item) /\ DOMAIN items' = DOMAIN w.items \cup DOMAIN items
  <2>1. Rows!Derived(WholeItems(w), WholeLeases(w)) \in Partial(Items, Rows!Item)
        /\ DOMAIN Rows!Derived(WholeItems(w), WholeLeases(w)) = DOMAIN WholeItems(w)
    BY <1>7, <1>6, DerivedTypes
  <2> QED BY <1>5, <1>6, <2>1
<1>9. \A l \in DOMAIN leases' : leases'[l].item \in DOMAIN items'
  <2>1. \A l \in DOMAIN w.leases : w.leases[l].item \in DOMAIN w.items BY DEF Local
  <2>2. \A l \in DOMAIN leases : leases[l].item \in DOMAIN items BY DEF SessionOK
  <2> QED BY <1>5, <1>7, <1>8, <2>1, <2>2
<1>10. \A i \in DOMAIN items' : items'[i] = Marked(items'[i], Rows!On(leases', i))
  <2> SUFFICES ASSUME NEW i \in DOMAIN items' PROVE items'[i] = Marked(items'[i], Rows!On(leases', i))
    OBVIOUS
  <2>1. WholeItems(w)[i] \in Rows!Item BY <1>6, <1>8, PartialIs
  <2>2. Rows!On(WholeLeases(w), i) \in SUBSET LeaseIds BY <1>7, OnIs
  <2>3. items'[i] = Marked(WholeItems(w)[i], Rows!On(WholeLeases(w), i)) BY <1>5, <1>6, <1>8, DerivedIs
  <2> QED BY <1>5, <2>1, <2>2, <2>3, MarkedIs
<1>11. Rows!OneActive(leases') BY <1>3, <1>5
<1>12. metadata' \in Rows!Metadata /\ events' \in Nat /\ revision' \in Nat
  BY <1>4 DEF Local, RowViews, SessionOK
<1>13. leases' \in Partial(LeaseIds, Rows!LeaseRow) BY <1>5, <1>7, Zenon
<1>14. SessionOK'
  BY <1>8, <1>9, <1>10, <1>11, <1>12, <1>13, Zenon
  DEF SessionOK, Partial, Marked, Rows!On, Rows!ActiveIn, Rows!OneActive, Rows!Item, Rows!LeaseRow, Rows!Metadata
<1> QED BY <1>4, <1>5, <1>14

-----------------------------------------------------------------------------
(* What a result means for the whole session. *)
WholeOf(r, w) == [items |-> WholeItems(w), leases |-> WholeLeases(w),
                  metadata |-> w.metadata, events |-> Rows!EventRows(r, w)]

LEMMA WholeOfIs ==
  ASSUME SessionOK, NEW r, NEW s, NEW w, Local(w, s), NEW W \in RowViews,
         DOMAIN W.items = DOMAIN w.items \cup DOMAIN items, DOMAIN W.leases = DOMAIN w.leases \cup DOMAIN leases,
         \A i \in DOMAIN w.items : W.items[i] = w.items[i],
         \A i \in DOMAIN items \ DOMAIN w.items : W.items[i] = items[i],
         \A l \in DOMAIN w.leases : W.leases[l] = w.leases[l],
         \A l \in DOMAIN leases \ DOMAIN w.leases : W.leases[l] = leases[l],
         W.metadata = w.metadata, W.events = Rows!EventRows(r, w)
  PROVE  WholeOf(r, w) = W
<1>1. W.items \in Partial(Items, Rows!Item) /\ W.leases \in Partial(LeaseIds, Rows!LeaseRow) BY DEF RowViews
<1>2. \A f, g : \A x \in DOMAIN f : Rows!Over(f, g)[x] = f[x] BY DEF Rows!Over
<1>3. WholeItems(w) = W.items
  <2>1. WholeItems(w) \in Partial(Items, Rows!Item) BY WholeItemsIs
  <2>2. DOMAIN WholeItems(w) = DOMAIN w.items \cup DOMAIN items BY WholeItemsIs
  <2>3. \A i \in DOMAIN w.items : WholeItems(w)[i] = w.items[i]
    BY ONLY <1>2 DEF WholeItems
  <2>4. \A i \in DOMAIN items \ DOMAIN w.items : WholeItems(w)[i] = items[i] BY WholeItemsIs
  <2>5. \A i \in DOMAIN WholeItems(w) : WholeItems(w)[i] = W.items[i] BY <2>2, <2>3, <2>4
  <2> QED BY <1>1, <2>1, <2>2, <2>5, SameRows
<1>4. WholeLeases(w) = W.leases
  <2>1. WholeLeases(w) \in Partial(LeaseIds, Rows!LeaseRow) BY WholeLeasesIs
  <2>2. DOMAIN WholeLeases(w) = DOMAIN w.leases \cup DOMAIN leases BY WholeLeasesIs
  <2>3. \A l \in DOMAIN w.leases : WholeLeases(w)[l] = w.leases[l]
    BY ONLY <1>2 DEF WholeLeases
  <2>4. \A l \in DOMAIN leases \ DOMAIN w.leases : WholeLeases(w)[l] = leases[l] BY WholeLeasesIs
  <2>5. \A l \in DOMAIN WholeLeases(w) : WholeLeases(w)[l] = W.leases[l] BY <2>2, <2>3, <2>4
  <2> QED BY <1>1, <2>1, <2>2, <2>5, SameRows
<1> QED BY <1>3, <1>4 DEF WholeOf, RowViews

LEMMA NoNewActive ==
  ASSUME SessionOK, NEW L, DOMAIN L \subseteq DOMAIN leases,
         \A l \in DOMAIN L : L[l].item = leases[l].item /\ (L[l].status = "active" => leases[l].status = "active")
  PROVE  Rows!OneActive(L)
BY DEF SessionOK, Rows!OneActive, Rows!ActiveIn

(* What a load sees: its rows, as they are stored. *)
LEMMA LoadIs ==
  ASSUME SessionOK, NEW r \in Rows!Request, NEW s, s = Rows!Selected(r), NEW v, v = Rows!View(r)
  PROVE  /\ Closed(s) /\ v \in RowViews /\ Local(v, s)
         /\ DOMAIN v.items = s.items /\ DOMAIN v.leases = s.leases
         /\ \A i \in s.items : v.items[i] = items[i] /\ Rows!On(v.leases, i) = Rows!On(leases, i)
         /\ \A l \in s.leases : v.leases[l] = leases[l]
         /\ v.metadata = metadata /\ v.events = IF r.whole THEN events ELSE 0
<1>1. Closed(s) BY SelectedIs
<1>2. /\ DOMAIN Rows!Restrict(items, s.items) = s.items
      /\ \A i \in s.items : Rows!Restrict(items, s.items)[i] = items[i]
  BY <1>1, RestrictIs DEF Closed, SessionOK
<1>3. /\ DOMAIN Rows!Restrict(leases, s.leases) = s.leases
      /\ \A l \in s.leases : Rows!Restrict(leases, s.leases)[l] = leases[l]
  BY <1>1, RestrictIs DEF Closed, SessionOK
<1>4. v.items = Rows!Restrict(items, s.items) /\ v.leases = Rows!Restrict(leases, s.leases)
      /\ v.metadata = metadata /\ v.events = IF r.whole THEN events ELSE 0
  BY ViewIs
<1>5. v \in RowViews BY ViewIs
<1>6. \A i \in s.items : Rows!On(v.leases, i) = Rows!On(leases, i) BY <1>4, ViewIs
<1>7. Rows!OneActive(v.leases)
  <2>1. \A l \in DOMAIN v.leases : v.leases[l] = leases[l] BY <1>3, <1>4
  <2>2. DOMAIN v.leases \subseteq DOMAIN leases BY <1>1, <1>3, <1>4 DEF Closed
  <2> QED BY <2>1, <2>2, NoNewActive
<1>8. Local(v, s) BY <1>1, <1>2, <1>3, <1>4, <1>5, <1>7 DEF Local, Closed
<1> QED BY <1>1, <1>2, <1>3, <1>4, <1>5, <1>6, <1>8

LEMMA FullViewTypes == SessionOK => Rows!FullView \in RowViews
BY FullViewIs DEF RowViews, SessionOK

(* A full load sees the session. *)
LEMMA WholeViewIs == SessionOK => Rows!View(Rows!Whole) = Rows!FullView
<1> SUFFICES ASSUME SessionOK PROVE Rows!View(Rows!Whole) = Rows!FullView
  OBVIOUS
<1>1. Rows!Whole \in Rows!Request /\ Rows!Whole.whole BY DEF Rows!Whole, Rows!Request
<1> DEFINE v == Rows!View(Rows!Whole)
           s == Rows!Selected(Rows!Whole)
<1>2. s = [items |-> DOMAIN items, leases |-> DOMAIN leases] BY <1>1, SelectedIs
<1>3. /\ v \in RowViews /\ DOMAIN v.items = s.items /\ DOMAIN v.leases = s.leases
      /\ \A i \in s.items : v.items[i] = items[i]
      /\ \A l \in s.leases : v.leases[l] = leases[l]
      /\ v.metadata = metadata /\ v.events = events
  BY <1>1, LoadIs
<1> HIDE DEF v, s
<1>4. v.items = items
  <2>1. v.items \in Partial(Items, Rows!Item) /\ items \in Partial(Items, Rows!Item)
    BY <1>3 DEF RowViews, SessionOK
  <2> QED BY <1>2, <1>3, <2>1, SameRows
<1>5. v.leases = leases
  <2>1. v.leases \in Partial(LeaseIds, Rows!LeaseRow) /\ leases \in Partial(LeaseIds, Rows!LeaseRow)
    BY <1>3 DEF RowViews, SessionOK
  <2> QED BY <1>2, <1>3, <2>1, SameRows
<1>6. v = Rows!FullView BY <1>3, <1>4, <1>5, FullViewIs DEF RowViews
<1> QED BY <1>6 DEF v

-----------------------------------------------------------------------------
(* A mutation of the loaded rows is refused exactly when it would be on    *)
(* the whole session, keeps to its rows, and means for the whole session   *)
(* what the mutation of that would make of it.                             *)
RowJob == [cmd : {"none", "classify", "claim", "accept", "persist", "observe", "reject"},
           item : Items \cup {None}, lease : LeaseIds \cup {None}, lease_item : Items \cup {None},
           role : {"none", "fixer", "triage"}, request : Rows!Request,
           base : Rows!Metadata, metadata : Rows!Metadata, view : RowViews, revision : Nat,
           out : {"none", "committed", "refused", "stale"}]

OwnKeys(j, w) == \A k \in Keys : w.metadata[k] # metadata[k] =>
                   j.cmd \in {"claim", "accept", "persist"} /\ j.metadata[k] # j.base[k]

Decides(j, r, l) ==
  /\ Rows!Results(j, Rows!View(r), l) = {} <=> Rows!WholeResults(j) = {}
  /\ \A w \in Rows!Results(j, Rows!View(r), l) :
       /\ Local(w, Rows!Selected(r)) /\ Rows!EventRows(r, w) \in Nat
       /\ WholeOf(r, w) \in Rows!WholeResults(j) /\ OwnKeys(j, w)

LEMMA CountIs ==
  ASSUME NEW S \in SUBSET LeaseIds
  PROVE  Rows!Cardinality(S) \in Nat
<1>1. IsFiniteSet(LeaseIds) BY WorkspaceAssumption DEF Rows!RowsAssumption, Rows!IsFiniteSet, IsFiniteSet
<1>2. IsFiniteSet(S) BY <1>1, FS_Subset
<1>3. Cardinality(S) \in Nat BY <1>2, FS_CardinalityType
<1>4. Rows!Cardinality(S) = Cardinality(S) BY DEF Rows!Cardinality, Cardinality
<1> QED BY <1>3, <1>4

(* A lease of which only the status changes. *)
LEMMA StatusIs ==
  ASSUME NEW row \in Rows!LeaseRow, NEW t \in {"active", "expired", "released", "accepted"}
  PROVE  /\ [row EXCEPT !.status = t] \in Rows!LeaseRow
         /\ [row EXCEPT !.status = t].status = t /\ [row EXCEPT !.status = t].item = row.item
BY DEF Rows!LeaseRow

LEMMA ClassifyIs ==
  ASSUME SessionOK, NEW j \in RowJob, j.cmd = "classify", j.item \in Items
  PROVE  Decides(j, Rows!RequestOf(j), None) /\ Rows!RequestOf(j) \in Rows!Request
<1> DEFINE r == [items |-> {j.item}, leases |-> {}, all |-> FALSE, whole |-> FALSE]
           i == j.item
           v == Rows!View(r)
           F == Rows!FullView
           s == Rows!Selected(r)
           T == Rows!Triage(v, i)
           row == IF T = {} THEN [items[i] EXCEPT !.classified = TRUE]
                  ELSE [state |-> "open", owner |-> None, classified |-> TRUE]
           Freed(L) == [l \in DOMAIN L |-> IF l \in T THEN [L[l] EXCEPT !.status = "released"] ELSE L[l]]
<1>1. r \in Rows!Request /\ r = Rows!RequestOf(j) BY DEF Rows!Request, Rows!RequestOf
<1>2. r.whole = FALSE /\ r.items = {i} OBVIOUS
<1> HIDE DEF r
<1>3. /\ Closed(s) /\ v \in RowViews /\ Local(v, s)
      /\ DOMAIN v.items = s.items /\ DOMAIN v.leases = s.leases
      /\ \A x \in s.items : v.items[x] = items[x] /\ Rows!On(v.leases, x) = Rows!On(leases, x)
      /\ \A l \in s.leases : v.leases[l] = leases[l]
      /\ v.metadata = metadata /\ v.events = 0
  BY <1>1, <1>2, LoadIs
<1>4. r.items \cap DOMAIN items \subseteq s.items BY <1>1, SelectedIs
<1>5. i \in DOMAIN items <=> i \in s.items BY <1>3, <1>4, <1>2 DEF Closed
<1>6. F = [items |-> items, leases |-> leases, metadata |-> metadata, events |-> events] BY FullViewIs
<1>7. F \in RowViews BY FullViewTypes
<1> HIDE DEF v, F, s
<1>8. Rows!Results(j, v, None) = Rows!Classify(v, i) BY DEF Rows!Results
<1>9. Rows!WholeResults(j) = Rows!Classify(F, i)
  <2>1. Rows!Fresh(j) = {None} BY DEF Rows!Fresh
  <2>2. Rows!Results(j, F, None) = Rows!Classify(F, i) BY DEF Rows!Results
  <2>3. Rows!WholeResults(j) = UNION {Rows!Results(j, F, l) : l \in Rows!Fresh(j)}
    BY DEF Rows!WholeResults, F
  <2> QED BY <2>1, <2>2, <2>3
<1>10. CASE i \notin DOMAIN items
  <2>1. Rows!Classify(v, i) = {} /\ Rows!Classify(F, i) = {} BY <1>3, <1>5, <1>6, <1>10 DEF Rows!Classify
  <2> QED BY <1>1, <1>8, <1>9, <2>1 DEF Decides, v
<1>11. CASE i \in DOMAIN items
  <2>1. Rows!Triage(F, i) = T
    <3>1. Rows!On(v.leases, i) = Rows!On(leases, i) BY <1>3, <1>5, <1>11
    <3>2. Rows!On(v.leases, i) \subseteq s.leases BY <1>3 DEF Rows!On, Rows!ActiveIn
    <3>3. \A l \in Rows!On(v.leases, i) : v.leases[l] = leases[l] BY <1>3, <3>2
    <3> QED BY <1>6, <3>1, <3>3 DEF Rows!Triage
  <2>2. T \in SUBSET s.leases BY <1>3 DEF Rows!Triage, Rows!On, Rows!ActiveIn
  <2>3. Rows!Cardinality(T) \in Nat
    <3>1. T \in SUBSET LeaseIds BY <1>3, <2>2, PartialIs DEF RowViews
    <3> QED BY <3>1, CountIs
  <2> DEFINE n == Rows!Cardinality(T)
             w == [items |-> [v.items EXCEPT ![i] = row], leases |-> Freed(v.leases),
                   metadata |-> metadata, events |-> n]
             W == [items |-> [items EXCEPT ![i] = row], leases |-> Freed(leases),
                   metadata |-> metadata, events |-> events + n]
  <2>4. v.items[i] = items[i] BY <1>3, <1>5, <1>11
  <2>5. Rows!Classify(v, i) = {w} BY <1>3, <1>5, <1>11, <2>3, <2>4 DEF Rows!Classify
  <2>6. Rows!Classify(F, i) = {W} BY <1>6, <1>11, <2>1 DEF Rows!Classify
  <2> HIDE DEF T
  <2>7. row \in Rows!Item
    <3>1. items[i] \in Rows!Item BY <1>11, PartialIs DEF SessionOK
    <3> QED BY <3>1 DEF Rows!Item
  <2> HIDE DEF row
  <2>8. w \in RowViews
    <3>1. w.items \in Partial(Items, Rows!Item) BY <1>3, <2>7, PartialIs DEF RowViews
    <3>2. \A l \in DOMAIN v.leases : Freed(v.leases)[l] \in Rows!LeaseRow
      <4>1. \A l \in DOMAIN v.leases : v.leases[l] \in Rows!LeaseRow BY <1>3, PartialIs DEF RowViews
      <4> QED BY <4>1, StatusIs
    <3>3. w.leases \in Partial(LeaseIds, Rows!LeaseRow)
      <4>1. DOMAIN v.leases \subseteq LeaseIds BY <1>3, PartialIs DEF RowViews
      <4>2. Freed(v.leases) \in [DOMAIN v.leases -> Rows!LeaseRow] BY <3>2
      <4> QED BY <4>1, <4>2, PartialIs
    <3> QED BY <2>3, <3>1, <3>3 DEF RowViews, SessionOK
  <2>9. W \in RowViews
    <3>1. W.items \in Partial(Items, Rows!Item) BY <2>7, PartialIs DEF SessionOK
    <3>2. \A l \in DOMAIN leases : Freed(leases)[l] \in Rows!LeaseRow
      <4>1. \A l \in DOMAIN leases : leases[l] \in Rows!LeaseRow BY PartialIs DEF SessionOK
      <4> QED BY <4>1, StatusIs
    <3>3. W.leases \in Partial(LeaseIds, Rows!LeaseRow) BY <3>2, PartialIs DEF SessionOK
    <3> QED BY <2>3, <3>1, <3>3 DEF RowViews, SessionOK
  <2>10. /\ DOMAIN w.items = s.items /\ DOMAIN w.leases = s.leases
         /\ DOMAIN W.items = DOMAIN items /\ DOMAIN W.leases = DOMAIN leases
    BY <1>3
  <2>11. \A l \in s.leases : w.leases[l] = IF l \in T THEN [leases[l] EXCEPT !.status = "released"] ELSE leases[l]
    BY <1>3
  <2>12. \A l \in DOMAIN leases : W.leases[l] = IF l \in T THEN [leases[l] EXCEPT !.status = "released"] ELSE leases[l]
    OBVIOUS
  <2>13. \A l \in s.leases : /\ w.leases[l].item = leases[l].item
                             /\ w.leases[l].status = "active" => leases[l].status = "active"
    <3>1. \A l \in s.leases : leases[l] \in Rows!LeaseRow BY <1>3, PartialIs DEF Closed, SessionOK
    <3>2. \A l \in s.leases : /\ [leases[l] EXCEPT !.status = "released"].item = leases[l].item
                             /\ [leases[l] EXCEPT !.status = "released"].status = "released"
      BY <3>1, StatusIs
    <3> HIDE DEF w, W
    <3> QED BY <2>11, <3>2
  <2>14. s.leases \subseteq DOMAIN leases /\ s.items \subseteq DOMAIN items BY <1>3 DEF Closed
  <2>15. Rows!OneActive(w.leases) BY <2>10, <2>13, <2>14, NoNewActive
  <2>16. Local(w, s)
    <3>1. \A l \in DOMAIN w.leases : w.leases[l].item \in DOMAIN w.items BY <1>3, <2>10, <2>13 DEF Closed
    <3> QED BY <2>8, <2>10, <2>15, <3>1 DEF Local
  <2>17. \A x \in DOMAIN w.items : W.items[x] = w.items[x] BY <1>3, <2>10, <2>14
  <2>18. \A x \in DOMAIN items \ DOMAIN w.items : W.items[x] = items[x] BY <1>5, <1>11, <2>10
  <2>19. Rows!EventRows(r, w) = events + n BY <1>2 DEF Rows!EventRows
  <2> HIDE DEF n
  <2>20. WholeOf(r, w) = W
    <3>1. \A l \in DOMAIN w.leases : W.leases[l] = w.leases[l] BY <2>10, <2>11, <2>12, <2>14
    <3>2. \A l \in DOMAIN leases \ DOMAIN w.leases : W.leases[l] = leases[l] BY <2>2, <2>10, <2>12
    <3>3. W.metadata = w.metadata /\ W.events = Rows!EventRows(r, w) BY <2>19
    <3>4. DOMAIN W.items = DOMAIN w.items \cup DOMAIN items /\ DOMAIN W.leases = DOMAIN w.leases \cup DOMAIN leases
      BY <2>10, <2>14
    <3> HIDE DEF w, W
    <3> QED BY <2>9, <2>16, <2>17, <2>18, <3>1, <3>2, <3>3, <3>4, WholeOfIs
  <2>21. Rows!EventRows(r, w) \in Nat BY <2>3, <2>19 DEF SessionOK, n
  <2>22. OwnKeys(j, w) BY DEF OwnKeys
  <2> HIDE DEF w, W
  <2> QED BY <1>1, <1>8, <1>9, <2>5, <2>6, <2>16, <2>20, <2>21, <2>22 DEF Decides, v, s
<1> QED BY <1>10, <1>11

LEMMA EventsIs ==
  ASSUME SessionOK, NEW r \in Rows!Request, NEW w, NEW n \in Nat, w.events = (IF r.whole THEN events ELSE 0) + n
  PROVE  Rows!EventRows(r, w) = events + n
BY DEF Rows!EventRows, Rows!Request, SessionOK

(* What is loaded and not changed is the session. *)
LEMMA LoadKeeps ==
  ASSUME SessionOK, NEW r \in Rows!Request
  PROVE  WholeOf(r, Rows!View(r)) = Rows!FullView /\ Rows!EventRows(r, Rows!View(r)) = events
<1> DEFINE v == Rows!View(r)
           F == Rows!FullView
           s == Rows!Selected(r)
<1>1. /\ Closed(s) /\ v \in RowViews /\ Local(v, s)
      /\ DOMAIN v.items = s.items /\ DOMAIN v.leases = s.leases
      /\ \A i \in s.items : v.items[i] = items[i] /\ Rows!On(v.leases, i) = Rows!On(leases, i)
      /\ \A l \in s.leases : v.leases[l] = leases[l]
      /\ v.metadata = metadata /\ v.events = IF r.whole THEN events ELSE 0
  BY LoadIs
<1>2. F = [items |-> items, leases |-> leases, metadata |-> metadata, events |-> events] BY FullViewIs
<1>3. F \in RowViews BY FullViewTypes
<1> HIDE DEF v, F, s
<1>4. Rows!EventRows(r, v) = events
  BY <1>1 DEF Rows!EventRows, Rows!Request, SessionOK
<1>5. DOMAIN F.items = DOMAIN v.items \cup DOMAIN items /\ DOMAIN F.leases = DOMAIN v.leases \cup DOMAIN leases
  BY <1>1, <1>2 DEF Closed
<1>6. /\ \A i \in DOMAIN v.items : F.items[i] = v.items[i]
      /\ \A i \in DOMAIN items \ DOMAIN v.items : F.items[i] = items[i]
      /\ \A l \in DOMAIN v.leases : F.leases[l] = v.leases[l]
      /\ \A l \in DOMAIN leases \ DOMAIN v.leases : F.leases[l] = leases[l]
      /\ F.metadata = v.metadata /\ F.events = Rows!EventRows(r, v)
  BY <1>1, <1>2, <1>4
<1>7. WholeOf(r, v) = F BY <1>1, <1>3, <1>5, <1>6, WholeOfIs
<1> QED BY <1>4, <1>7 DEF v, F

(* A result on a full load is the whole session. *)
LEMMA WholeSelf ==
  ASSUME SessionOK, NEW r \in Rows!Request, r.whole, NEW w, Local(w, Rows!Selected(r))
  PROVE  WholeOf(r, w) = w /\ Rows!EventRows(r, w) = w.events /\ w.events \in Nat
<1>1. Rows!Selected(r) = [items |-> DOMAIN items, leases |-> DOMAIN leases] BY SelectedIs
<1>2. w \in RowViews BY DEF Local
<1>3. DOMAIN items \subseteq DOMAIN w.items /\ DOMAIN leases \subseteq DOMAIN w.leases BY <1>1 DEF Local
<1>4. Rows!EventRows(r, w) = w.events BY DEF Rows!EventRows
<1>5. DOMAIN w.items = DOMAIN w.items \cup DOMAIN items /\ DOMAIN w.leases = DOMAIN w.leases \cup DOMAIN leases
  BY <1>3
<1>6. WholeOf(r, w) = w BY <1>2, <1>3, <1>4, <1>5, WholeOfIs
<1> QED BY <1>2, <1>4, <1>6 DEF RowViews

LEMMA RejectIs ==
  ASSUME SessionOK, NEW j \in RowJob, j.cmd = "reject"
  PROVE  Decides(j, Rows!RequestOf(j), None) /\ Rows!RequestOf(j) \in Rows!Request
<1> DEFINE r == Rows!RequestOf(j)
           v == Rows!View(r)
<1>1. r \in Rows!Request BY DEF Rows!Request, Rows!RequestOf
<1>2. Local(v, Rows!Selected(r)) /\ v.metadata = metadata BY <1>1, LoadIs
<1>3. WholeOf(r, v) = Rows!FullView /\ Rows!EventRows(r, v) = events BY <1>1, LoadKeeps
<1> HIDE DEF r, v
<1>4. Rows!Results(j, v, None) = {v} BY DEF Rows!Results
<1>5. Rows!WholeResults(j) = {Rows!FullView}
  <2>1. Rows!Fresh(j) = {None} BY DEF Rows!Fresh
  <2>2. Rows!Results(j, Rows!FullView, None) = {Rows!FullView} BY DEF Rows!Results
  <2>3. Rows!WholeResults(j) = UNION {Rows!Results(j, Rows!FullView, l) : l \in Rows!Fresh(j)}
    BY DEF Rows!WholeResults
  <2> QED BY <2>1, <2>2, <2>3
<1>6. OwnKeys(j, v) BY <1>2 DEF OwnKeys
<1>7. Rows!EventRows(r, v) \in Nat BY <1>3 DEF SessionOK
<1> QED BY <1>1, <1>2, <1>3, <1>4, <1>5, <1>6, <1>7 DEF Decides, r, v

LEMMA ObserveIs ==
  ASSUME SessionOK, NEW j \in RowJob, j.cmd = "observe", j.item \in Items
  PROVE  Decides(j, Rows!RequestOf(j), None) /\ Rows!RequestOf(j) \in Rows!Request
<1> DEFINE r == Rows!Whole
           i == j.item
           F == Rows!FullView
           s == Rows!Selected(r)
           new == [state |-> "open", owner |-> None, classified |-> FALSE]
           w == [F EXCEPT !.items = Rows!Over(Rows!One(i, new), @)]
<1>1. r \in Rows!Request /\ r = Rows!RequestOf(j) /\ r.whole BY DEF Rows!Request, Rows!RequestOf, Rows!Whole
<1>2. Rows!View(r) = F BY WholeViewIs
<1>3. F \in RowViews /\ F = [items |-> items, leases |-> leases, metadata |-> metadata, events |-> events]
  BY FullViewTypes, FullViewIs
<1>4. s = [items |-> DOMAIN items, leases |-> DOMAIN leases] BY <1>1, SelectedIs
<1> HIDE DEF r, F, s
<1>5. Rows!Results(j, F, None) = Rows!Observe(F, i) BY DEF Rows!Results
<1>6. Rows!WholeResults(j) = Rows!Observe(F, i)
  <2>1. Rows!Fresh(j) = {None} BY DEF Rows!Fresh
  <2>2. Rows!WholeResults(j) = UNION {Rows!Results(j, F, l) : l \in Rows!Fresh(j)}
    BY DEF Rows!WholeResults, F
  <2> QED BY <1>5, <2>1, <2>2
<1>7. \A u : u \in Rows!Observe(F, i) => u = F \/ (i \notin DOMAIN items /\ u = w)
  BY <1>3 DEF Rows!Observe
<1>8. Rows!Observe(F, i) # {} BY DEF Rows!Observe
<1>9. Local(F, s) BY <1>1, <1>2, LoadIs DEF s
<1>10. ASSUME i \notin DOMAIN items PROVE Local(w, s) /\ w.metadata = metadata
  <2>1. w = [items |-> Rows!Over(Rows!One(i, new), items), leases |-> leases, metadata |-> metadata, events |-> events]
    BY <1>3
  <2>2. Rows!One(i, new) \in Partial(Items, Rows!Item) /\ DOMAIN Rows!One(i, new) = {i}
    <3>1. new \in Rows!Item BY DEF Rows!Item
    <3>2. Rows!One(i, new) \in [{i} -> Rows!Item] BY <3>1 DEF Rows!One
    <3> QED BY <3>2, PartialIs
  <2> DEFINE added == Rows!Over(Rows!One(i, new), items)
  <2>3. added \in Partial(Items, Rows!Item) BY <2>2, OverTypes DEF SessionOK
  <2>4. DOMAIN added = {i} \cup DOMAIN items
    <3>1. DOMAIN added = DOMAIN Rows!One(i, new) \cup DOMAIN items BY OverIs
    <3> HIDE DEF added
    <3> QED BY <2>2, <3>1
  <2> HIDE DEF added, new
  <2>5. w.items = added /\ w.leases = leases /\ w.metadata = metadata BY <2>1 DEF added
  <2>6. w \in RowViews BY <2>1, <2>3 DEF RowViews, SessionOK, added
  <2> HIDE DEF w
  <2> QED BY <1>4, <1>10, <2>4, <2>5, <2>6 DEF Local, SessionOK
<1> HIDE DEF w
<1>11. ASSUME NEW u \in Rows!Observe(F, i)
       PROVE  /\ Local(u, s) /\ Rows!EventRows(r, u) \in Nat /\ WholeOf(r, u) \in Rows!Observe(F, i)
              /\ u.metadata = metadata
  <2>1. Local(u, s) /\ u.metadata = metadata BY <1>3, <1>7, <1>9, <1>10
  <2>2. WholeOf(r, u) = u /\ Rows!EventRows(r, u) = u.events /\ u.events \in Nat BY <1>1, <2>1, WholeSelf DEF s
  <2> QED BY <2>1, <2>2
<1>12. \A u : u.metadata = metadata => OwnKeys(j, u) BY DEF OwnKeys
<1> QED BY <1>1, <1>2, <1>5, <1>6, <1>8, <1>11, <1>12 DEF Decides, s

(* A lease of the loaded rows ends, and its item gets a state. *)
LEMMA EndedIs ==
  ASSUME SessionOK, NEW r \in Rows!Request, NEW s, s = Rows!Selected(r), NEW v, v = Rows!View(r),
         NEW l \in s.leases, NEW t \in {"accepted", "expired"}, NEW state \in {"handled", "open"},
         NEW data \in Rows!Metadata, NEW w, w = Rows!Ended(v, l, t, state, data)
  PROVE  /\ Local(w, s) /\ w.metadata = data /\ Rows!EventRows(r, w) \in Nat
         /\ WholeOf(r, w) = Rows!Ended(Rows!FullView, l, t, state, data)
<1> DEFINE F == Rows!FullView
           i == leases[l].item
           row == [items[i] EXCEPT !.state = state, !.owner = None]
           ended == [leases[l] EXCEPT !.status = t]
           W == [items |-> [items EXCEPT ![i] = row], leases |-> [leases EXCEPT ![l] = ended],
                 metadata |-> data, events |-> events + 1]
<1>1. /\ Closed(s) /\ v \in RowViews
      /\ DOMAIN v.items = s.items /\ DOMAIN v.leases = s.leases
      /\ \A x \in s.items : v.items[x] = items[x] /\ Rows!On(v.leases, x) = Rows!On(leases, x)
      /\ \A m \in s.leases : v.leases[m] = leases[m]
      /\ v.metadata = metadata /\ v.events = IF r.whole THEN events ELSE 0
  BY LoadIs
<1>2. F = [items |-> items, leases |-> leases, metadata |-> metadata, events |-> events] BY FullViewIs
<1> HIDE DEF F
<1>3. i \in s.items /\ i \in DOMAIN items /\ l \in DOMAIN leases /\ s.items \subseteq DOMAIN items
      /\ s.leases \subseteq DOMAIN leases
  BY <1>1 DEF Closed
<1>4. v.leases[l] = leases[l] /\ v.items[i] = items[i] BY <1>1, <1>3
<1>5. Rows!Ended(F, l, t, state, data) = W BY <1>2 DEF Rows!Ended
<1>6. w = [items |-> [v.items EXCEPT ![i] = row], leases |-> [v.leases EXCEPT ![l] = ended],
           metadata |-> data, events |-> v.events + 1]
  <2>1. v.items[i] = items[i] /\ v.leases[l] = leases[l] BY <1>4
  <2>2. [v.items EXCEPT ![v.leases[l].item] = [@ EXCEPT !.state = state, !.owner = None]]
          = [v.items EXCEPT ![i] = row]
    BY <1>1, <1>3, <2>1
  <2>3. [v.leases EXCEPT ![l] = [@ EXCEPT !.status = t]] = [v.leases EXCEPT ![l] = ended]
    BY <1>1, <2>1
  <2> QED BY <2>2, <2>3 DEF Rows!Ended
<1>7. row \in Rows!Item
  <2>1. items[i] \in Rows!Item BY <1>3, PartialIs DEF SessionOK
  <2> QED BY <2>1 DEF Rows!Item
<1>8. ended \in Rows!LeaseRow /\ ended.status # "active" /\ ended.item = i
  <2>1. leases[l] \in Rows!LeaseRow BY <1>3, PartialIs DEF SessionOK
  <2>2. ended \in Rows!LeaseRow BY <2>1, StatusIs
  <2>3. ended.status = t BY <2>1, StatusIs
  <2>4. ended.item = i BY <2>1, StatusIs
  <2> HIDE DEF ended, i
  <2> QED BY <2>2, <2>3, <2>4
<1> HIDE DEF row, ended, i
<1>9. DOMAIN w.items = s.items /\ DOMAIN w.leases = s.leases /\ w.metadata = data /\ w.events = v.events + 1
  BY <1>1, <1>6
<1>10. /\ \A x \in s.items : w.items[x] = IF x = i THEN row ELSE items[x]
       /\ \A m \in s.leases : w.leases[m] = IF m = l THEN ended ELSE leases[m]
  BY <1>1, <1>6
<1>11. w \in RowViews
  <2>1. w.items \in Partial(Items, Rows!Item) BY <1>1, <1>6, <1>7, PartialIs DEF RowViews
  <2>2. w.leases \in Partial(LeaseIds, Rows!LeaseRow) BY <1>1, <1>6, <1>8, PartialIs DEF RowViews
  <2>3. v.events + 1 \in Nat BY <1>1 DEF RowViews
  <2> QED BY <1>6, <2>1, <2>2, <2>3 DEF RowViews
<1>12. W \in RowViews
  <2>1. W.items \in Partial(Items, Rows!Item) BY <1>7, PartialIs DEF SessionOK
  <2>2. W.leases \in Partial(LeaseIds, Rows!LeaseRow) BY <1>8, PartialIs DEF SessionOK
  <2> QED BY <2>1, <2>2 DEF RowViews, SessionOK
<1>13. /\ \A x \in DOMAIN items : W.items[x] = IF x = i THEN row ELSE items[x]
       /\ \A m \in DOMAIN leases : W.leases[m] = IF m = l THEN ended ELSE leases[m]
       /\ DOMAIN W.items = DOMAIN items /\ DOMAIN W.leases = DOMAIN leases
       /\ W.metadata = data /\ W.events = events + 1
  BY <1>3
<1> HIDE DEF W
<1>14. Rows!OneActive(w.leases)
  <2>1. \A m \in DOMAIN w.leases : /\ w.leases[m].item = leases[m].item
                                   /\ w.leases[m].status = "active" => leases[m].status = "active"
    BY <1>8, <1>9, <1>10 DEF i
  <2> QED BY <1>3, <1>9, <2>1, NoNewActive
<1>15. Local(w, s)
  <2>1. \A m \in DOMAIN w.leases : w.leases[m].item \in DOMAIN w.items
    BY <1>1, <1>3, <1>8, <1>9, <1>10 DEF Closed
  <2> QED BY <1>9, <1>11, <1>14, <2>1 DEF Local
<1>16. Rows!EventRows(r, w) = events + 1 BY <1>1, <1>9, EventsIs
<1>17. WholeOf(r, w) = W
  <2>1. \A x \in DOMAIN w.items : W.items[x] = w.items[x] BY <1>3, <1>9, <1>10, <1>13
  <2>2. \A x \in DOMAIN items \ DOMAIN w.items : W.items[x] = items[x] BY <1>3, <1>9, <1>13
  <2>3. \A m \in DOMAIN w.leases : W.leases[m] = w.leases[m] BY <1>3, <1>9, <1>10, <1>13
  <2>4. \A m \in DOMAIN leases \ DOMAIN w.leases : W.leases[m] = leases[m] BY <1>9, <1>13
  <2>5. DOMAIN W.items = DOMAIN w.items \cup DOMAIN items /\ DOMAIN W.leases = DOMAIN w.leases \cup DOMAIN leases
    BY <1>3, <1>9, <1>13
  <2>6. W.metadata = w.metadata /\ W.events = Rows!EventRows(r, w) BY <1>9, <1>13, <1>16
  <2> QED BY <1>12, <1>15, <2>1, <2>2, <2>3, <2>4, <2>5, <2>6, WholeOfIs
<1>18. Rows!EventRows(r, w) \in Nat BY <1>16 DEF SessionOK
<1> QED BY <1>5, <1>9, <1>15, <1>17, <1>18 DEF F

LEMMA AcceptIs ==
  ASSUME SessionOK, NEW j \in RowJob, j.cmd = "accept", j.lease \in DOMAIN leases,
         leases[j.lease].item = j.lease_item, j.lease_item \in Items, j.base = metadata
  PROVE  Decides(j, Rows!RequestOf(j), None) /\ Rows!RequestOf(j) \in Rows!Request
<1> DEFINE r == Rows!RequestOf(j)
           v == Rows!View(r)
           F == Rows!FullView
           s == Rows!Selected(r)
           l == j.lease
           data == j.metadata
           End(u) == Rows!Ended(u, l, "accepted", "handled", data)
<1>1. r = [items |-> {j.lease_item}, leases |-> {l}, all |-> FALSE, whole |-> FALSE] BY DEF Rows!RequestOf
<1>2. l \in LeaseIds BY PartialIs DEF SessionOK
<1>3. r \in Rows!Request BY <1>1, <1>2 DEF Rows!Request
<1>4. l \in s.leases
  <2>1. r.leases \cap DOMAIN leases \subseteq s.leases BY <1>3, SelectedIs
  <2> HIDE DEF r, s
  <2> QED BY <1>1, <2>1
<1>5. DOMAIN v.leases = s.leases /\ v.leases[l] = leases[l] BY <1>3, <1>4, LoadIs
<1>6. F.leases = leases BY FullViewIs
<1> HIDE DEF r, v, F, s
<1>7. l \in Rows!ActiveIn(v.leases) <=> l \in Rows!ActiveIn(F.leases) BY <1>4, <1>5, <1>6 DEF Rows!ActiveIn
<1>8. Rows!Results(j, v, None) = Rows!Accept(v, l, j) BY DEF Rows!Results
<1>9. Rows!WholeResults(j) = Rows!Accept(F, l, j)
  <2>1. Rows!Fresh(j) = {None} BY DEF Rows!Fresh
  <2>2. Rows!WholeResults(j) = UNION {Rows!Results(j, F, m) : m \in Rows!Fresh(j)}
    BY DEF Rows!WholeResults, F
  <2>3. Rows!Results(j, F, None) = Rows!Accept(F, l, j) BY DEF Rows!Results
  <2> QED BY <2>1, <2>2, <2>3
<1>10. CASE l \notin Rows!ActiveIn(v.leases) \/ l \in late
  <2>1. Rows!Accept(v, l, j) = {} /\ Rows!Accept(F, l, j) = {} BY <1>7, <1>10 DEF Rows!Accept
  <2> QED BY <1>3, <1>8, <1>9, <2>1 DEF Decides, r, v
<1>11. CASE ~(l \notin Rows!ActiveIn(v.leases) \/ l \in late)
  <2>1. Rows!Accept(v, l, j) = {End(v)} /\ Rows!Accept(F, l, j) = {End(F)} BY <1>7, <1>11 DEF Rows!Accept
  <2>2. data \in Rows!Metadata BY DEF RowJob
  <2>3. /\ Local(End(v), s) /\ End(v).metadata = data /\ Rows!EventRows(r, End(v)) \in Nat
        /\ WholeOf(r, End(v)) = End(F)
    BY <1>3, <1>4, <2>2, EndedIs DEF v, s, F
  <2> HIDE DEF End
  <2>4. OwnKeys(j, End(v)) BY <2>3 DEF OwnKeys
  <2> QED BY <1>3, <1>8, <1>9, <2>1, <2>3, <2>4 DEF Decides, r, v, s
<1> QED BY <1>10, <1>11

(* The copy that is put in place of what was loaded is still what is       *)
(* stored, but for the lease that has expired in it.                       *)
LEMMA PersistIs ==
  ASSUME SessionOK, NEW j \in RowJob, j.cmd = "persist", j.lease \in DOMAIN leases, j.base = metadata,
         j.lease \in j.request.leases \/ j.request.whole, j.metadata = j.base, j.view = Rows!View(j.request)
  PROVE  Decides(j, Rows!RequestOf(j), None) /\ Rows!RequestOf(j) \in Rows!Request
<1> DEFINE r == Rows!RequestOf(j)
           v == Rows!View(r)
           F == Rows!FullView
           s == Rows!Selected(r)
           l == j.lease
           End(u) == Rows!Ended(u, l, "expired", "open", j.metadata)
           P == Rows!Persist(l, j)
<1>1. r = j.request /\ r \in Rows!Request BY DEF Rows!RequestOf, RowJob
<1>2. l \in s.leases
  <2>1. r.leases \cap DOMAIN leases \subseteq s.leases BY <1>1, SelectedIs
  <2>2. r.whole => s = [items |-> DOMAIN items, leases |-> DOMAIN leases] BY <1>1, SelectedIs
  <2> HIDE DEF r, s
  <2> QED BY <1>1, <2>1, <2>2
<1>3. F = [items |-> items, leases |-> leases, metadata |-> metadata, events |-> events] BY FullViewIs
<1>4. v = j.view BY <1>1
<1> HIDE DEF r, v, F, s
<1>5. P = IF l \notin Rows!Due(v) THEN {} ELSE {End(v)} BY <1>4 DEF Rows!Persist
<1>6. /\ Local(End(v), s) /\ End(v).metadata = j.metadata /\ Rows!EventRows(r, End(v)) \in Nat
  <2>1. j.metadata \in Rows!Metadata BY DEF RowJob
  <2> QED BY <1>1, <1>2, <2>1, EndedIs DEF v, s
<1> HIDE DEF End, P
<1>7. Rows!Results(j, v, None) = P BY DEF Rows!Results, P
<1>8. ASSUME ~r.whole
      PROVE  Rows!WholeResults(j) = {[items |-> Rows!Over(w.items, F.items), leases |-> Rows!Over(w.leases, leases),
                                      metadata |-> w.metadata, events |-> events + w.events] : w \in P}
  BY <1>1, <1>8 DEF Rows!WholeResults, F, P
<1>9. ASSUME r.whole PROVE Rows!WholeResults(j) = P
  <2>1. Rows!Fresh(j) = {None} BY DEF Rows!Fresh
  <2>2. Rows!WholeResults(j) = UNION {Rows!Results(j, F, m) : m \in Rows!Fresh(j)}
    BY <1>1, <1>9 DEF Rows!WholeResults, F
  <2>3. Rows!Results(j, F, None) = P BY DEF Rows!Results, P
  <2> QED BY <2>1, <2>2, <2>3
<1>10. OwnKeys(j, End(v)) BY <1>6 DEF OwnKeys
<1>11. P = {} <=> Rows!WholeResults(j) = {}
  <2>1. CASE r.whole BY <1>9, <2>1
  <2>2. CASE ~r.whole BY <1>8, <2>2
  <2> QED BY <2>1, <2>2
<1>12. ASSUME NEW w \in P PROVE WholeOf(r, w) \in Rows!WholeResults(j) /\ w = End(v)
  <2>1. w = End(v) BY <1>5
  <2>2. CASE r.whole
    <3>1. WholeOf(r, w) = w BY <1>1, <1>6, <2>1, <2>2, WholeSelf DEF s
    <3> QED BY <1>9, <2>1, <2>2, <3>1
  <2>3. CASE ~r.whole
    <3>1. WholeOf(r, w) = [items |-> Rows!Over(w.items, F.items), leases |-> Rows!Over(w.leases, leases),
                           metadata |-> w.metadata, events |-> events + w.events]
      BY <1>3, <2>3 DEF WholeOf, WholeItems, WholeLeases, Rows!EventRows
    <3> QED BY <1>8, <2>1, <2>3, <3>1
  <2> QED BY <2>2, <2>3
<1> QED BY <1>1, <1>6, <1>7, <1>10, <1>11, <1>12 DEF Decides, r, v, s

(* A load of every active lease expires what the whole session would: e    *)
(* are the rows s of E.                                                    *)
Expires(s, e, E) ==
  /\ e \in RowViews /\ DOMAIN e.items = s.items /\ DOMAIN e.leases = s.leases
  /\ E \in RowViews /\ DOMAIN E.items = DOMAIN items /\ DOMAIN E.leases = DOMAIN leases
  /\ \A x \in s.items : E.items[x] = e.items[x]
  /\ \A x \in DOMAIN items \ s.items : E.items[x] = items[x]
  /\ \A m \in s.leases : E.leases[m] = e.leases[m]
  /\ \A m \in DOMAIN leases \ s.leases : E.leases[m] = leases[m]
  /\ \A m \in DOMAIN leases : /\ E.leases[m].item = leases[m].item
                              /\ E.leases[m].status = "active" => leases[m].status = "active" /\ m \in s.leases
  /\ e.metadata = metadata /\ E.metadata = metadata /\ E.events = events + e.events

LEMMA ExpiredIs ==
  ASSUME SessionOK, NEW r \in Rows!Request, r.all, r.whole = FALSE
  PROVE  Expires(Rows!Selected(r), Rows!Expired(Rows!View(r)), Rows!Expired(Rows!FullView))
<1> DEFINE s == Rows!Selected(r)
           v == Rows!View(r)
           e == Rows!Expired(v)
           E == Rows!Expired(Rows!FullView)
<1> DEFINE F == Rows!FullView
           D == Rows!ActiveIn(leases) \cap late
           Opened(I) == [x \in DOMAIN I |-> IF \E m \in D : leases[m].item = x
                           THEN [I[x] EXCEPT !.state = "open", !.owner = None] ELSE I[x]]
           Lapsed(L) == [m \in DOMAIN L |-> IF m \in D THEN [L[m] EXCEPT !.status = "expired"] ELSE L[m]]
           n == Rows!Cardinality(D)
<1>1. /\ Closed(s) /\ v \in RowViews
      /\ DOMAIN v.items = s.items /\ DOMAIN v.leases = s.leases
      /\ \A x \in s.items : v.items[x] = items[x] /\ Rows!On(v.leases, x) = Rows!On(leases, x)
      /\ \A m \in s.leases : v.leases[m] = leases[m]
      /\ v.metadata = metadata /\ v.events = 0
  BY LoadIs
<1>2. Rows!ActiveIn(leases) \subseteq s.leases BY SelectedIs
<1>3. e = Rows!Expired(v) /\ E = Rows!Expired(F) OBVIOUS
<1> HIDE DEF s, v, e, E
<1>4. F = [items |-> items, leases |-> leases, metadata |-> metadata, events |-> events] BY FullViewIs
<1> HIDE DEF F
<1>5. s.items \subseteq DOMAIN items /\ s.leases \subseteq DOMAIN leases BY <1>1 DEF Closed
<1>6. Rows!ActiveIn(v.leases) = Rows!ActiveIn(leases) BY <1>1, <1>2, <1>5 DEF Rows!ActiveIn
<1>7. Rows!Due(v) = D BY <1>6 DEF Rows!Due
<1>8. Rows!Due(F) = D BY <1>4 DEF Rows!Due
<1>9. \A m \in D : m \in s.leases /\ m \in DOMAIN leases /\ v.leases[m] = leases[m] BY <1>1, <1>2, <1>5
<1>10. n \in Nat
  <2>1. D \in SUBSET LeaseIds
    <3>1. DOMAIN leases \subseteq LeaseIds BY PartialIs DEF SessionOK
    <3> QED BY <1>9, <3>1
  <2> QED BY <2>1, CountIs
<1> HIDE DEF D
<1>11. e = [items |-> Opened(v.items), leases |-> Lapsed(v.leases), metadata |-> metadata, events |-> n]
  <2>1. \A x : (\E m \in D : v.leases[m].item = x) <=> (\E m \in D : leases[m].item = x) BY <1>9
  <2>2. 0 + n = n BY <1>10
  <2>3. [x \in DOMAIN v.items |-> IF \E m \in D : v.leases[m].item = x
           THEN [v.items[x] EXCEPT !.state = "open", !.owner = None] ELSE v.items[x]] = Opened(v.items)
    <3> DEFINE there(x) == IF \E m \in D : v.leases[m].item = x
                             THEN [v.items[x] EXCEPT !.state = "open", !.owner = None] ELSE v.items[x]
               here(x) == IF \E m \in D : leases[m].item = x
                            THEN [v.items[x] EXCEPT !.state = "open", !.owner = None] ELSE v.items[x]
    <3>1. ASSUME NEW x \in DOMAIN v.items PROVE there(x) = here(x)
      <4>1. CASE \E m \in D : leases[m].item = x BY <2>1, <4>1
      <4>2. CASE ~(\E m \in D : leases[m].item = x) BY <2>1, <4>2
      <4> QED BY <4>1, <4>2
    <3>2. Opened(v.items) = [x \in DOMAIN v.items |-> here(x)] OBVIOUS
    <3> HIDE DEF there, here, Opened
    <3>3. [x \in DOMAIN v.items |-> there(x)] = Opened(v.items) BY <3>1, <3>2
    <3> QED BY <3>3 DEF there
  <2>4. [m \in DOMAIN v.leases |-> IF m \in D THEN [v.leases[m] EXCEPT !.status = "expired"] ELSE v.leases[m]]
          = Lapsed(v.leases)
    OBVIOUS
  <2> HIDE DEF Opened, Lapsed
  <2> QED BY <1>1, <1>7, <1>3, <2>2, <2>3, <2>4 DEF Rows!Expired, n
<1>12. E = [items |-> Opened(items), leases |-> Lapsed(leases), metadata |-> metadata, events |-> events + n]
  BY <1>4, <1>8, <1>3 DEF Rows!Expired
<1> HIDE DEF n
<1>13. ASSUME NEW x \in DOMAIN items
       PROVE  Opened(items)[x] \in Rows!Item /\ x \in Items
  <2>1. items[x] \in Rows!Item /\ x \in Items BY PartialIs DEF SessionOK
  <2>2. [items[x] EXCEPT !.state = "open", !.owner = None] \in Rows!Item BY <2>1 DEF Rows!Item
  <2> QED BY <2>1, <2>2
<1>14. ASSUME NEW m \in DOMAIN leases
       PROVE  /\ Lapsed(leases)[m] \in Rows!LeaseRow /\ m \in LeaseIds
              /\ Lapsed(leases)[m].item = leases[m].item
              /\ Lapsed(leases)[m].status = "active" => leases[m].status = "active"
  <2>1. leases[m] \in Rows!LeaseRow /\ m \in LeaseIds BY PartialIs DEF SessionOK
  <2> DEFINE row == [leases[m] EXCEPT !.status = "expired"]
  <2>2. row \in Rows!LeaseRow BY <2>1, StatusIs
  <2>3. row.status = "expired" BY <2>1, StatusIs
  <2>4. row.item = leases[m].item BY <2>1, StatusIs
  <2>5. Lapsed(leases)[m] = IF m \in D THEN row ELSE leases[m] OBVIOUS
  <2> HIDE DEF row, Lapsed
  <2> QED BY <2>1, <2>2, <2>3, <2>4, <2>5
<1>15. \A x \in s.items : Opened(v.items)[x] = Opened(items)[x] BY <1>1, <1>5
<1>16. \A m \in s.leases : Lapsed(v.leases)[m] = Lapsed(leases)[m] BY <1>1, <1>5
<1>17. \A x \in DOMAIN items \ s.items : Opened(items)[x] = items[x]
  <2>1. \A m \in D : leases[m].item \in s.items BY <1>1, <1>9 DEF Closed
  <2> QED BY <2>1
<1>18. \A m \in DOMAIN leases \ s.leases : Lapsed(leases)[m] = leases[m] BY <1>9
<1>19. DOMAIN Opened(v.items) = s.items /\ DOMAIN Lapsed(v.leases) = s.leases
       /\ DOMAIN Opened(items) = DOMAIN items /\ DOMAIN Lapsed(leases) = DOMAIN leases
  BY <1>1
<1>20. Opened(items) \in [DOMAIN items -> Rows!Item] /\ Lapsed(leases) \in [DOMAIN leases -> Rows!LeaseRow]
  BY <1>13, <1>14
<1>21. Opened(v.items) \in [s.items -> Rows!Item] /\ Lapsed(v.leases) \in [s.leases -> Rows!LeaseRow]
  <2>1. \A x \in s.items : Opened(v.items)[x] \in Rows!Item BY <1>5, <1>13, <1>15
  <2>2. \A m \in s.leases : Lapsed(v.leases)[m] \in Rows!LeaseRow BY <1>5, <1>14, <1>16
  <2>3. Opened(v.items) \in [s.items -> Rows!Item] BY <1>1, <2>1
  <2>4. Lapsed(v.leases) \in [s.leases -> Rows!LeaseRow] BY <1>1, <2>2
  <2> QED BY <2>3, <2>4
<1> HIDE DEF Opened, Lapsed
<1>22. E \in RowViews
  <2>1. Opened(items) \in Partial(Items, Rows!Item) BY <1>13, <1>19, <1>20, PartialIs
  <2>2. Lapsed(leases) \in Partial(LeaseIds, Rows!LeaseRow) BY <1>14, <1>19, <1>20, PartialIs
  <2>3. events + n \in Nat BY <1>10 DEF SessionOK
  <2> QED BY <1>12, <2>1, <2>2, <2>3 DEF RowViews, SessionOK
<1>23. e \in RowViews
  <2>1. Opened(v.items) \in Partial(Items, Rows!Item) BY <1>5, <1>13, <1>19, <1>21, PartialIs
  <2>2. Lapsed(v.leases) \in Partial(LeaseIds, Rows!LeaseRow) BY <1>5, <1>14, <1>19, <1>21, PartialIs
  <2> QED BY <1>10, <1>11, <2>1, <2>2 DEF RowViews, SessionOK
<1>24. \A m \in DOMAIN leases : /\ E.leases[m].item = leases[m].item
                                /\ E.leases[m].status = "active" => leases[m].status = "active" /\ m \in s.leases
  BY <1>2, <1>12, <1>14 DEF Rows!ActiveIn
<1>25. e.metadata = metadata /\ E.metadata = metadata /\ E.events = events + e.events BY <1>11, <1>12
<1>26. e.items = Opened(v.items) /\ e.leases = Lapsed(v.leases) /\ E.items = Opened(items) /\ E.leases = Lapsed(leases)
  BY <1>11, <1>12
<1> QED BY <1>15, <1>16, <1>17, <1>18, <1>19, <1>22, <1>23, <1>24, <1>25, <1>26 DEF Expires, s, v, e, E

LEMMA ClaimIs ==
  ASSUME SessionOK, NEW j \in RowJob, j.cmd = "claim", j.item \in Items, j.role \in {"fixer", "triage"},
         NEW l \in LeaseIds, l \notin DOMAIN leases
  PROVE  Decides(j, Rows!RequestOf(j), l) /\ Rows!RequestOf(j) \in Rows!Request
<1> DEFINE i == j.item
           r == [items |-> {i}, leases |-> {}, all |-> TRUE, whole |-> FALSE]
           v == Rows!View(r)
           F == Rows!FullView
           s == Rows!Selected(r)
           e == Rows!Expired(v)
           E == Rows!Expired(F)
           No(u) == \/ i \notin DOMAIN u.items
                    \/ Rows!On(u.leases, i) # {}
                    \/ \E m \in Rows!ActiveIn(u.leases) : {i, u.leases[m].item} \in Conflicts
           given == [status |-> "active", item |-> i, role |-> j.role]
           Given(u, m) == [items |-> [u.items EXCEPT ![i] = [@ EXCEPT !.state = "claimed", !.owner = m]],
                           leases |-> Rows!Over(Rows!One(m, given), u.leases),
                           metadata |-> Rows!Merged(u.metadata, j), events |-> u.events + 1]
<1>1. r \in Rows!Request /\ r = Rows!RequestOf(j) BY DEF Rows!Request, Rows!RequestOf
<1>2. r.whole = FALSE /\ r.all /\ r.items = {i} OBVIOUS
<1> HIDE DEF r
<1>3. Closed(s) BY <1>1, LoadIs
<1>4. s.items \subseteq DOMAIN items /\ s.leases \subseteq DOMAIN leases BY <1>3 DEF Closed
<1>5. i \in DOMAIN items <=> i \in s.items
  <2>1. r.items \cap DOMAIN items \subseteq s.items BY <1>1, SelectedIs
  <2> HIDE DEF s
  <2> QED BY <1>2, <1>4, <2>1
<1>6. Expires(s, e, E) BY <1>1, <1>2, ExpiredIs
<1> HIDE DEF v, F, s, e, E
<1>7. /\ e \in RowViews /\ DOMAIN e.items = s.items /\ DOMAIN e.leases = s.leases
      /\ E \in RowViews /\ DOMAIN E.items = DOMAIN items /\ DOMAIN E.leases = DOMAIN leases
      /\ \A x \in s.items : E.items[x] = e.items[x]
      /\ \A x \in DOMAIN items \ s.items : E.items[x] = items[x]
      /\ \A m \in s.leases : E.leases[m] = e.leases[m]
      /\ \A m \in DOMAIN leases \ s.leases : E.leases[m] = leases[m]
      /\ \A m \in DOMAIN leases : /\ E.leases[m].item = leases[m].item
                                  /\ E.leases[m].status = "active" => leases[m].status = "active" /\ m \in s.leases
      /\ e.metadata = metadata /\ E.metadata = metadata /\ E.events = events + e.events
  BY <1>6 DEF Expires
<1>8. Rows!ActiveIn(e.leases) = Rows!ActiveIn(E.leases) BY <1>4, <1>7 DEF Rows!ActiveIn
<1>9. \A m \in Rows!ActiveIn(e.leases) : m \in s.leases /\ e.leases[m] = E.leases[m] BY <1>7 DEF Rows!ActiveIn
<1>10. Rows!On(e.leases, i) = Rows!On(E.leases, i) BY <1>8, <1>9 DEF Rows!On
<1>11. No(e) <=> No(E)
  <2>1. (\E m \in Rows!ActiveIn(e.leases) : {i, e.leases[m].item} \in Conflicts)
          <=> (\E m \in Rows!ActiveIn(E.leases) : {i, E.leases[m].item} \in Conflicts)
    BY <1>8, <1>9
  <2> QED BY <1>5, <1>7, <1>10, <2>1
<1>12. \A m : Rows!Results(j, v, m) = IF No(e) THEN {} ELSE {Given(e, m)}
  BY DEF Rows!Results, Rows!Claim, e
<1>13. \A m : Rows!Results(j, F, m) = IF No(E) THEN {} ELSE {Given(E, m)}
  BY DEF Rows!Results, Rows!Claim, E
<1> HIDE DEF No, given
<1>14. Rows!WholeResults(j) = UNION {Rows!Results(j, F, m) : m \in Rows!Fresh(j)}
  BY DEF Rows!WholeResults, F
<1>15. l \in Rows!Fresh(j) BY DEF Rows!Fresh
<1>16. CASE No(e)
  <2>1. Rows!Results(j, v, l) = {} /\ Rows!WholeResults(j) = {} BY <1>11, <1>12, <1>13, <1>14, <1>16
  <2> QED BY <1>1, <2>1 DEF Decides, v
<1>17. CASE ~No(e)
  <2> DEFINE w == Given(e, l)
             W == Given(E, l)
  <2>1. Rows!Results(j, v, l) = {w} BY <1>12, <1>17
  <2>2. W \in Rows!WholeResults(j)
    <3>1. Rows!Results(j, F, l) = {W} BY <1>11, <1>13, <1>17
    <3> HIDE DEF W
    <3> QED BY <1>14, <1>15, <3>1
  <2>3. i \in s.items /\ i \in DOMAIN items /\ Rows!On(e.leases, i) = {} BY <1>5, <1>7, <1>17 DEF No
  <2>4. given \in Rows!LeaseRow /\ given.item = i BY DEF given, Rows!LeaseRow
  <2>5. Rows!One(l, given) \in Partial(LeaseIds, Rows!LeaseRow) /\ DOMAIN Rows!One(l, given) = {l}
        /\ Rows!One(l, given)[l] = given
    <3>1. Rows!One(l, given) \in [{l} -> Rows!LeaseRow] BY <2>4 DEF Rows!One
    <3>2. Rows!One(l, given)[l] = given BY DEF Rows!One
    <3> QED BY <3>1, <3>2, PartialIs
  <2>6. e.leases \in Partial(LeaseIds, Rows!LeaseRow) /\ E.leases \in Partial(LeaseIds, Rows!LeaseRow)
        /\ e.items \in Partial(Items, Rows!Item) /\ E.items \in Partial(Items, Rows!Item)
    BY <1>7 DEF RowViews
  <2> DEFINE put(L) == Rows!Over(Rows!One(l, given), L)
             taken == [e.items[i] EXCEPT !.state = "claimed", !.owner = l]
  <2>7. put(e.leases) \in Partial(LeaseIds, Rows!LeaseRow) /\ put(E.leases) \in Partial(LeaseIds, Rows!LeaseRow)
    BY <2>5, <2>6, OverTypes
  <2>8. \A L : DOMAIN put(L) = {l} \cup DOMAIN L /\ put(L)[l] = given
               /\ \A m \in DOMAIN L \ {l} : put(L)[m] = L[m]
    <3>1. \A L : DOMAIN put(L) = DOMAIN Rows!One(l, given) \cup DOMAIN L BY OverIs
    <3>2. \A L : \A m \in DOMAIN Rows!One(l, given) : put(L)[m] = Rows!One(l, given)[m] BY DEF Rows!Over
    <3>3. \A L : \A m \in DOMAIN L \ DOMAIN Rows!One(l, given) : put(L)[m] = L[m] BY DEF Rows!Over
    <3> HIDE DEF put
    <3> QED BY <2>5, <3>1, <3>2, <3>3
  <2>9. taken \in Rows!Item /\ i \in Items
    <3>1. e.items[i] \in Rows!Item BY <1>7, <2>3, <2>6, PartialIs
    <3> QED BY <3>1 DEF Rows!Item
  <2>10. Rows!Merged(metadata, j) \in Rows!Metadata
    <3>1. \A k \in Keys : (IF j.metadata[k] # j.base[k] THEN j.metadata[k] ELSE metadata[k]) \in 0..1
      BY DEF RowJob, Rows!Metadata, SessionOK
    <3> QED BY <3>1 DEF Rows!Merged, Rows!Metadata
  <2> DEFINE data == Rows!Merged(metadata, j)
  <2>11. w = [items |-> [e.items EXCEPT ![i] = taken], leases |-> put(e.leases), metadata |-> data, events |-> e.events + 1]
    BY <1>7
  <2>12. W = [items |-> [E.items EXCEPT ![i] = taken], leases |-> put(E.leases), metadata |-> data, events |-> E.events + 1]
    <3>1. E.items[i] = e.items[i] BY <1>7, <2>3
    <3> QED BY <1>7, <3>1
  <2> HIDE DEF taken, put, data
  <2>13. w \in RowViews
    <3>1. [e.items EXCEPT ![i] = taken] \in Partial(Items, Rows!Item) BY <2>6, <2>9, PartialIs
    <3>2. e.events + 1 \in Nat BY <1>7 DEF RowViews
    <3> QED BY <2>7, <2>10, <2>11, <3>1, <3>2 DEF RowViews, data
  <2>14. W \in RowViews
    <3>1. [E.items EXCEPT ![i] = taken] \in Partial(Items, Rows!Item) BY <2>6, <2>9, PartialIs
    <3>2. E.events + 1 \in Nat BY <1>7 DEF RowViews
    <3> QED BY <2>7, <2>10, <2>12, <3>1, <3>2 DEF RowViews, data
  <2> HIDE DEF w, W
  <2>15. /\ DOMAIN w.items = s.items /\ DOMAIN W.items = DOMAIN items
         /\ DOMAIN w.leases = {l} \cup s.leases /\ DOMAIN W.leases = {l} \cup DOMAIN leases
    <3>1. DOMAIN put(e.leases) = {l} \cup DOMAIN e.leases /\ DOMAIN put(E.leases) = {l} \cup DOMAIN E.leases
      BY <2>8
    <3> QED BY <1>7, <2>11, <2>12, <3>1
  <2>16. /\ \A x \in s.items : w.items[x] = IF x = i THEN taken ELSE e.items[x]
         /\ \A x \in DOMAIN items : W.items[x] = IF x = i THEN taken ELSE E.items[x]
    BY <1>7, <2>11, <2>12
  <2>17. /\ w.leases[l] = given /\ W.leases[l] = given
         /\ \A m \in s.leases : w.leases[m] = e.leases[m]
         /\ \A m \in DOMAIN leases : W.leases[m] = E.leases[m]
    BY <1>4, <1>7, <2>8, <2>11, <2>12
  <2>18. Rows!OneActive(w.leases)
    <3> SUFFICES ASSUME NEW m \in Rows!ActiveIn(w.leases), NEW n \in Rows!ActiveIn(w.leases),
                        w.leases[m].item = w.leases[n].item
                 PROVE  m = n
      BY DEF Rows!OneActive
    <3>1. \A k \in Rows!ActiveIn(w.leases) :
            k # l => k \in s.leases /\ w.leases[k] = e.leases[k] /\ k \in Rows!ActiveIn(e.leases)
      BY <1>7, <2>15, <2>17 DEF Rows!ActiveIn
    <3>2. \A k \in Rows!ActiveIn(e.leases) : e.leases[k].item # i BY <2>3 DEF Rows!On
    <3>3. \A k \in Rows!ActiveIn(e.leases) : k \in Rows!ActiveIn(leases) /\ e.leases[k].item = leases[k].item
      BY <1>4, <1>7 DEF Rows!ActiveIn
    <3>4. CASE m = l \/ n = l BY <2>4, <2>17, <3>1, <3>2, <3>4
    <3>5. CASE m # l /\ n # l BY <3>1, <3>3, <3>5 DEF SessionOK, Rows!OneActive
    <3> QED BY <3>4, <3>5
  <2>19. Local(w, s)
    <3>1. \A m \in s.leases : w.leases[m].item \in s.items
      <4>1. \A m \in s.leases : w.leases[m].item = leases[m].item BY <1>4, <1>7, <2>17
      <4> QED BY <1>3, <4>1 DEF Closed
    <3>2. \A m \in DOMAIN w.leases : w.leases[m].item \in DOMAIN w.items BY <2>3, <2>4, <2>15, <2>17, <3>1
    <3> QED BY <2>13, <2>15, <2>18, <3>2 DEF Local
  <2>20. Rows!EventRows(r, w) = events + (e.events + 1) /\ W.events = (events + e.events) + 1 /\ w.metadata = data
         /\ W.metadata = data
    BY <1>2, <1>7, <2>11, <2>12 DEF Rows!EventRows
  <2>21. W.events = Rows!EventRows(r, w) /\ Rows!EventRows(r, w) \in Nat
    BY <1>7, <2>20 DEF RowViews, SessionOK
  <2>22. WholeOf(r, w) = W
    <3>1. \A x \in DOMAIN w.items : W.items[x] = w.items[x] BY <1>4, <1>7, <2>15, <2>16
    <3>2. \A x \in DOMAIN items \ DOMAIN w.items : W.items[x] = items[x] BY <1>7, <2>3, <2>15, <2>16
    <3>3. \A m \in DOMAIN w.leases : W.leases[m] = w.leases[m] BY <1>4, <1>7, <2>15, <2>17
    <3>4. \A m \in DOMAIN leases \ DOMAIN w.leases : W.leases[m] = leases[m] BY <1>7, <2>15, <2>17
    <3>5. DOMAIN W.items = DOMAIN w.items \cup DOMAIN items /\ DOMAIN W.leases = DOMAIN w.leases \cup DOMAIN leases
      BY <1>4, <2>15
    <3> QED BY <2>14, <2>19, <2>20, <2>21, <3>1, <3>2, <3>3, <3>4, <3>5, WholeOfIs
  <2>23. OwnKeys(j, w) BY <2>20 DEF OwnKeys, data, Rows!Merged
  <2> QED BY <1>1, <2>1, <2>2, <2>19, <2>21, <2>22, <2>23 DEF Decides, v, s
<1> QED BY <1>16, <1>17

-----------------------------------------------------------------------------
(* What a command holds: the copy of a submission is what is stored, unless*)
(* a commit has come between and the revision tells.                       *)
RowJobOK(j) ==
  /\ j.cmd # "none" => j.out = "none"
  /\ j.cmd \in {"classify", "claim", "observe"} => j.item \in Items
  /\ j.cmd = "claim" => j.role \in {"fixer", "triage"}
  /\ j.cmd = "persist" => j.metadata = j.base
  /\ j.cmd \in {"accept", "persist"} =>
       /\ j.revision \leq revision
       /\ j.revision = revision =>
            /\ j.lease \in DOMAIN leases /\ leases[j.lease].item = j.lease_item /\ j.lease_item \in Items
            /\ j.lease \in j.request.leases \/ j.request.whole
            /\ j.base = metadata /\ j.view = Rows!View(j.request)

RowsInv ==
  /\ SessionOK
  /\ job \in [Procs -> RowJob]
  /\ \A p \in Procs : RowJobOK(job[p])

LEMMA IdleIs ==
  /\ Rows!Idle \in RowJob /\ Rows!Idle.cmd = "none"
  /\ \A out \in {"committed", "refused", "stale"} :
       /\ [Rows!Idle EXCEPT !.out = out] \in RowJob
       /\ [Rows!Idle EXCEPT !.out = out].cmd = "none" /\ [Rows!Idle EXCEPT !.out = out].out = out
<1>1. Rows!NoRows \in Partial(Items, Rows!Item) /\ Rows!NoRows \in Partial(LeaseIds, Rows!LeaseRow)
  <2>1. DOMAIN Rows!NoRows = {} BY DEF Rows!NoRows
  <2>2. Rows!NoRows \in [{} -> Rows!Item] /\ Rows!NoRows \in [{} -> Rows!LeaseRow] BY DEF Rows!NoRows
  <2> QED BY <2>1, <2>2, PartialIs
<1>2. Rows!NoMetadata \in Rows!Metadata BY DEF Rows!NoMetadata, Rows!Metadata
<1>3. Rows!NoView \in RowViews BY <1>1, <1>2 DEF Rows!NoView, RowViews
<1>4. Rows!Whole \in Rows!Request BY DEF Rows!Whole, Rows!Request
<1> QED BY <1>2, <1>3, <1>4 DEF Rows!Idle, RowJob

LEMMA FinishIs ==
  ASSUME job \in [Procs -> RowJob], NEW p \in Procs, NEW out \in {"committed", "refused", "stale"},
         Rows!Finish(p, out)
  PROVE  /\ job' \in [Procs -> RowJob] /\ job'[p].cmd = "none" /\ job'[p].out = out
         /\ \A q \in Procs \ {p} : job'[q] = job[q]
<1> DEFINE j == [Rows!Idle EXCEPT !.out = out]
<1>1. j \in RowJob /\ j.cmd = "none" /\ j.out = out BY IdleIs
<1>2. job' = [job EXCEPT ![p] = j] BY DEF Rows!Finish
<1> HIDE DEF j
<1> QED BY <1>1, <1>2

LEMMA IdleOK == \A j : j.cmd = "none" => RowJobOK(j)
BY DEF RowJobOK

(* Nothing that a command relies on changes but by a commit, which every   *)
(* submission notices.                                                     *)
LEMMA RowJobKept ==
  ASSUME SessionOK, NEW j \in RowJob, RowJobOK(j), revision' = revision + 1 \/ UNCHANGED Rows!rows
  PROVE  RowJobOK(j)'
<1>1. CASE revision' = revision + 1
  <2>1. revision \in Nat /\ j.revision \in Nat BY DEF SessionOK, RowJob
  <2> QED BY <1>1, <2>1 DEF RowJobOK
<1>2. CASE UNCHANGED Rows!rows
  <2>1. items' = items /\ leases' = leases /\ metadata' = metadata /\ events' = events /\ revision' = revision
    BY <1>2 DEF Rows!rows
  <2>2. Rows!View(j.request)' = Rows!View(j.request)
    BY <2>1, SMTT(60) DEF Rows!View, Rows!Selected, Rows!Derived, Rows!On, Rows!ActiveIn, Rows!Restrict
  <2> QED BY <2>1, <2>2 DEF RowJobOK
<1> QED BY <1>1, <1>2

LEMMA SessionKept ==
  ASSUME SessionOK, UNCHANGED Rows!rows
  PROVE  SessionOK'
<1>1. items' = items /\ leases' = leases /\ metadata' = metadata /\ events' = events /\ revision' = revision
  BY DEF Rows!rows
<1>2. items' \in Partial(Items, Rows!Item) /\ leases' \in Partial(LeaseIds, Rows!LeaseRow) BY <1>1 DEF SessionOK
<1>3. metadata' \in Rows!Metadata /\ events' \in Nat /\ revision' \in Nat BY <1>1 DEF SessionOK
<1>4. \A l \in DOMAIN leases' : leases'[l].item \in DOMAIN items' BY <1>1 DEF SessionOK
<1>5. Rows!OneActive(leases') BY <1>1 DEF SessionOK
<1>6. \A i \in DOMAIN items' : items'[i] = Marked(items'[i], Rows!On(leases', i)) BY <1>1 DEF SessionOK
<1> QED BY <1>2, <1>3, <1>4, <1>5, <1>6, Zenon
    DEF SessionOK, Partial, Marked, Rows!On, Rows!ActiveIn, Rows!OneActive, Rows!Item, Rows!LeaseRow, Rows!Metadata

LEMMA DecidesIs ==
  ASSUME RowsInv, NEW p \in Procs, job[p].cmd # "none", Rows!Current(job[p]), NEW l \in Rows!Fresh(job[p])
  PROVE  Decides(job[p], Rows!RequestOf(job[p]), l) /\ Rows!RequestOf(job[p]) \in Rows!Request
<1>1. PICK j \in RowJob : j = job[p] BY DEF RowsInv
<1>2. SessionOK /\ RowJobOK(j) /\ j.cmd # "none" /\ Rows!Current(j) /\ l \in Rows!Fresh(j) BY <1>1 DEF RowsInv
<1> SUFFICES Decides(j, Rows!RequestOf(j), l) /\ Rows!RequestOf(j) \in Rows!Request
  BY <1>1
<1>3. j.cmd # "claim" => l = None BY <1>2 DEF Rows!Fresh
<1>4. CASE j.cmd = "classify" BY <1>2, <1>3, <1>4, ClassifyIs DEF RowJobOK
<1>5. CASE j.cmd = "claim"
  <2>1. l \in LeaseIds /\ l \notin DOMAIN leases BY <1>2, <1>5 DEF Rows!Fresh
  <2> QED BY <1>2, <1>5, <2>1, ClaimIs DEF RowJobOK
<1>6. CASE j.cmd = "accept"
  <2>1. j.revision = revision BY <1>2, <1>6 DEF Rows!Current
  <2>2. j.lease \in DOMAIN leases /\ leases[j.lease].item = j.lease_item /\ j.lease_item \in Items /\ j.base = metadata
    BY <1>2, <1>6, <2>1 DEF RowJobOK
  <2> QED BY <1>2, <1>3, <1>6, <2>2, AcceptIs
<1>7. CASE j.cmd = "persist"
  <2>1. j.revision = revision BY <1>2, <1>7 DEF Rows!Current
  <2>2. /\ j.lease \in DOMAIN leases /\ j.base = metadata /\ j.metadata = j.base
        /\ j.lease \in j.request.leases \/ j.request.whole
        /\ j.view = Rows!View(j.request)
    BY <1>2, <1>7, <2>1 DEF RowJobOK
  <2> QED BY <1>2, <1>3, <1>7, <2>2, PersistIs
<1>8. CASE j.cmd = "observe" BY <1>2, <1>3, <1>8, ObserveIs DEF RowJobOK
<1>9. CASE j.cmd = "reject" BY <1>2, <1>3, <1>9, RejectIs
<1> QED BY <1>2, <1>4, <1>5, <1>6, <1>7, <1>8, <1>9 DEF RowJob

(* What the module says of one step of the commands on rows. *)
RowsStep == Rows!WholeStep /\ Rows!OwnKeysStep

LEMMA CommitRows ==
  ASSUME RowsInv, NEW p \in Procs, Rows!Commit(p)
  PROVE  RowsInv' /\ RowsStep
<1>1. PICK j \in RowJob : j = job[p] BY DEF RowsInv
<1>2. SessionOK /\ job \in [Procs -> RowJob] /\ j.cmd # "none" BY <1>1 DEF RowsInv, Rows!Commit
(* The others go on, and no one else ends. *)
<1>3. ASSUME NEW out \in {"committed", "refused", "stale"}, Rows!Finish(p, out), SessionOK',
             revision' = revision + 1 \/ UNCHANGED Rows!rows
      PROVE  RowsInv' /\ job'[p].out = out /\ job'[p].cmd = "none"
             /\ \A q \in Procs : Rows!Deciding(q, job[q]) => q = p
  <2>1. /\ job' \in [Procs -> RowJob] /\ job'[p].cmd = "none" /\ job'[p].out = out
        /\ \A q \in Procs \ {p} : job'[q] = job[q]
    BY <1>2, <1>3, FinishIs
  <2>2. ASSUME NEW q \in Procs PROVE RowJobOK(job[q])'
    <3>1. CASE q = p BY <2>1, <3>1 DEF RowJobOK
    <3>2. CASE q # p
      <4>1. PICK k \in RowJob : k = job[q] BY DEF RowsInv
      <4>2. RowJobOK(k) BY <4>1 DEF RowsInv
      <4>3. RowJobOK(k)' BY <1>2, <1>3, <4>2, RowJobKept
      <4>4. job'[q] = k BY <2>1, <3>2, <4>1
      <4> QED BY <4>3, <4>4 DEF RowJobOK
    <3> QED BY <3>1, <3>2
  <2>3. RowsInv' BY <1>3, <2>1, <2>2 DEF RowsInv
  <2>4. ASSUME NEW q \in Procs, q # p PROVE ~Rows!Deciding(q, job[q])
    <3>1. RowJobOK(job[q]) /\ job'[q] = job[q] BY <2>1, <2>4 DEF RowsInv
    <3> QED BY <3>1 DEF Rows!Deciding, RowJobOK
  <2> QED BY <2>1, <2>3, <2>4
<1>4. CASE ~Rows!Current(j)
  <2>1. Rows!Finish(p, "stale") /\ UNCHANGED Rows!rows BY <1>1, <1>4 DEF Rows!Commit
  <2>2. SessionOK' BY <1>2, <2>1, SessionKept
  <2>3. /\ RowsInv' /\ job'[p].out = "stale" /\ \A q \in Procs : Rows!Deciding(q, job[q]) => q = p
    BY <1>3, <2>1, <2>2
  <2>4. Rows!WholeStep BY <2>3 DEF Rows!WholeStep, Rows!Deciding
  <2>5. Rows!OwnKeysStep BY <2>1 DEF Rows!OwnKeysStep, Rows!rows
  <2> QED BY <2>3, <2>4, <2>5 DEF RowsStep
<1>5. CASE Rows!Current(j)
  <2> DEFINE r == Rows!RequestOf(j)
  <2>1. PICK l \in Rows!Fresh(j) :
          IF Rows!Results(j, Rows!View(r), l) = {} THEN Rows!Finish(p, "refused") /\ UNCHANGED Rows!rows
          ELSE \E w \in Rows!Results(j, Rows!View(r), l) : Rows!Write(p, r, w)
    BY <1>1, <1>5 DEF Rows!Commit
  <2>2. Decides(j, r, l) /\ r \in Rows!Request BY <1>1, <1>2, <1>5, <2>1, DecidesIs
  <2> HIDE DEF r
  <2>3. CASE Rows!Results(j, Rows!View(r), l) = {}
    <3>1. Rows!Finish(p, "refused") /\ UNCHANGED Rows!rows BY <2>1, <2>3
    <3>2. SessionOK' BY <1>2, <3>1, SessionKept
    <3>3. RowsInv' /\ job'[p].out = "refused" /\ \A q \in Procs : Rows!Deciding(q, job[q]) => q = p
      BY <1>3, <3>1, <3>2
    <3>4. Rows!WholeResults(job[p]) = {} BY <1>1, <2>2, <2>3 DEF Decides
    <3>5. Rows!WholeStep BY <3>3, <3>4 DEF Rows!WholeStep
    <3>6. Rows!OwnKeysStep BY <3>1 DEF Rows!OwnKeysStep, Rows!rows
    <3> QED BY <3>3, <3>5, <3>6 DEF RowsStep
  <2>4. CASE Rows!Results(j, Rows!View(r), l) # {}
    <3>1. PICK w \in Rows!Results(j, Rows!View(r), l) : Rows!Write(p, r, w) BY <2>1, <2>4
    <3>2. /\ Local(w, Rows!Selected(r)) /\ Rows!EventRows(r, w) \in Nat
          /\ WholeOf(r, w) \in Rows!WholeResults(j) /\ OwnKeys(j, w)
      BY <2>2, <3>1 DEF Decides
    <3>3. /\ SessionOK' /\ Rows!Finish(p, "committed") /\ revision' = revision + 1
          /\ leases' = WholeLeases(w) /\ items' = Rows!Derived(WholeItems(w), WholeLeases(w))
          /\ metadata' = w.metadata /\ events' = Rows!EventRows(r, w)
      BY <1>2, <2>2, <3>1, <3>2, WriteRows
    <3>4. /\ RowsInv' /\ job'[p].out = "committed" /\ job'[p].cmd = "none"
          /\ \A q \in Procs : Rows!Deciding(q, job[q]) => q = p
      BY <1>3, <3>3
    <3>5. Rows!FullView' = [items |-> items', leases |-> leases', metadata |-> metadata', events |-> events']
      <4>1. Rows!Derived(items', leases') = items'
        <5>1. /\ items' \in Partial(Items, Rows!Item) /\ leases' \in Partial(LeaseIds, Rows!LeaseRow)
              /\ \A i \in DOMAIN items' : items'[i] = Marked(items'[i], Rows!On(leases', i))
          BY <3>3 DEF SessionOK, Partial, Marked, Rows!On, Rows!ActiveIn, Rows!Item, Rows!LeaseRow
        <5> DEFINE J == Rows!Derived(items', leases')
        <5>2. J \in Partial(Items, Rows!Item) /\ DOMAIN J = DOMAIN items' BY <5>1, DerivedTypes
        <5>3. \A i \in DOMAIN items' : J[i] = items'[i] BY <5>1, DerivedIs
        <5> HIDE DEF J
        <5>4. J = items' BY <5>1, <5>2, <5>3, SameRows
        <5> QED BY <5>4 DEF J
      <4>2. Rows!FullView' = [items |-> Rows!Derived(items', leases'), leases |-> leases',
                              metadata |-> metadata', events |-> events']
        BY DEF Rows!FullView, Rows!Derived, Rows!On, Rows!ActiveIn
      <4> QED BY <4>1, <4>2
    <3> DEFINE W == WholeOf(r, w)
    <3>6. [W EXCEPT !.items = Rows!Derived(W.items, W.leases)]
            = [items |-> Rows!Derived(WholeItems(w), WholeLeases(w)), leases |-> WholeLeases(w),
               metadata |-> w.metadata, events |-> Rows!EventRows(r, w)]
      BY DEF WholeOf
    <3>7. Rows!FullView' = [W EXCEPT !.items = Rows!Derived(W.items, W.leases)] BY <3>3, <3>5, <3>6
    <3> HIDE DEF W
    <3>8. W \in Rows!WholeResults(job[p]) BY <1>1, <3>2 DEF W
    <3>9. Rows!WholeStep BY <3>4, <3>7, <3>8 DEF Rows!WholeStep
    <3>10. Rows!OwnKeysStep BY <1>1, <3>2, <3>3, <3>4 DEF Rows!OwnKeysStep, OwnKeys
    <3> QED BY <3>4, <3>9, <3>10 DEF RowsStep
  <2> QED BY <2>3, <2>4
<1> QED BY <1>4, <1>5

(* Any other step of a command changes only what it holds. *)
LEMMA TakesIs ==
  ASSUME RowsInv, NEW p \in Procs, NEW j \in RowJob, RowJobOK(j), j.out = "none",
         job' = [job EXCEPT ![p] = j], UNCHANGED Rows!rows
  PROVE  RowsInv' /\ RowsStep
<1>1. SessionOK /\ SessionOK' BY SessionKept DEF RowsInv
<1>2. job \in [Procs -> RowJob] BY DEF RowsInv
<1>3. job' \in [Procs -> RowJob] /\ job'[p] = j /\ \A q \in Procs \ {p} : job'[q] = job[q] BY <1>2
<1>4. ASSUME NEW q \in Procs PROVE RowJobOK(job[q])'
  <2>1. PICK k \in RowJob : k = job'[q] BY <1>3
  <2>2. RowJobOK(k)
    <3>1. CASE q = p BY <1>3, <2>1, <3>1
    <3>2. CASE q # p BY <1>3, <2>1, <3>2 DEF RowsInv
    <3> QED BY <3>1, <3>2
  <2>3. RowJobOK(k)' BY <1>1, <2>2, RowJobKept
  <2> QED BY <2>1, <2>3 DEF RowJobOK
<1>5. RowsInv' BY <1>1, <1>3, <1>4 DEF RowsInv
<1>6. \A q \in Procs : ~Rows!Deciding(q, job[q])
  <2> SUFFICES ASSUME NEW q \in Procs, job[q].cmd # "none" PROVE job'[q].out = "none"
    BY DEF Rows!Deciding
  <2>1. RowJobOK(job[q]) BY DEF RowsInv
  <2> QED BY <1>3, <2>1 DEF RowJobOK
<1>7. Rows!OwnKeysStep BY DEF Rows!OwnKeysStep, Rows!rows
<1> QED BY <1>5, <1>6, <1>7 DEF RowsStep, Rows!WholeStep

LEMMA BeginRows ==
  ASSUME RowsInv, NEW p \in Procs, Rows!Begin(p)
  PROVE  RowsInv' /\ RowsStep
<1>1. PICK i \in Items, c \in {"classify", "observe", "reject"} :
        job' = [job EXCEPT ![p] = [Rows!Idle EXCEPT !.cmd = c, !.item = i]]
  BY DEF Rows!Begin
<1> DEFINE j == [Rows!Idle EXCEPT !.cmd = c, !.item = i]
<1>2. Rows!Idle \in RowJob BY IdleIs
<1>3. j \in RowJob /\ j.cmd = c /\ j.item = i /\ j.out = "none" BY <1>2 DEF RowJob, Rows!Idle
<1>4. job' = [job EXCEPT ![p] = j] /\ UNCHANGED Rows!rows BY <1>1 DEF Rows!Begin
<1> HIDE DEF j
<1>5. RowJobOK(j) BY <1>3 DEF RowJobOK
<1> QED BY <1>3, <1>4, <1>5, TakesIs

LEMMA LoadClaimRows ==
  ASSUME RowsInv, NEW p \in Procs, Rows!LoadClaim(p)
  PROVE  RowsInv' /\ RowsStep
<1>1. PICK i \in Items, role \in {"fixer", "triage"} :
        job' = [job EXCEPT ![p] = [Rows!Idle EXCEPT !.cmd = "claim", !.item = i, !.role = role,
                                                    !.base = metadata, !.metadata = metadata]]
  BY DEF Rows!LoadClaim
<1> DEFINE j == [Rows!Idle EXCEPT !.cmd = "claim", !.item = i, !.role = role, !.base = metadata, !.metadata = metadata]
<1>2. Rows!Idle \in RowJob /\ metadata \in Rows!Metadata BY IdleIs DEF RowsInv, SessionOK
<1>3. j \in RowJob /\ j.cmd = "claim" /\ j.item = i /\ j.role = role /\ j.out = "none" BY <1>2 DEF RowJob, Rows!Idle
<1>4. job' = [job EXCEPT ![p] = j] /\ UNCHANGED Rows!rows BY <1>1 DEF Rows!LoadClaim
<1> HIDE DEF j
<1>5. RowJobOK(j) BY <1>3 DEF RowJobOK
<1> QED BY <1>3, <1>4, <1>5, TakesIs

LEMMA LoadSubmissionRows ==
  ASSUME RowsInv, NEW p \in Procs, Rows!LoadSubmission(p)
  PROVE  RowsInv' /\ RowsStep
<1>1. PICK l \in DOMAIN leases, whole \in BOOLEAN :
        LET r == IF whole THEN Rows!Whole ELSE [items |-> {}, leases |-> {l}, all |-> FALSE, whole |-> FALSE]
        IN  job' = [job EXCEPT ![p] =
                      [Rows!Idle EXCEPT !.cmd = IF l \in late THEN "persist" ELSE "accept",
                                        !.lease = l, !.lease_item = leases[l].item, !.request = r,
                                        !.view = Rows!View(r),
                                        !.base = metadata, !.metadata = metadata, !.revision = revision]]
  BY DEF Rows!LoadSubmission
<1> DEFINE r == IF whole THEN Rows!Whole ELSE [items |-> {}, leases |-> {l}, all |-> FALSE, whole |-> FALSE]
           c == IF l \in late THEN "persist" ELSE "accept"
           view == Rows!View(r)
           j == [Rows!Idle EXCEPT !.cmd = c, !.lease = l, !.lease_item = leases[l].item, !.request = r, !.view = view,
                                  !.base = metadata, !.metadata = metadata, !.revision = revision]
<1>2. job' = [job EXCEPT ![p] = j] /\ UNCHANGED Rows!rows BY <1>1 DEF Rows!LoadSubmission
<1>3. SessionOK /\ Rows!Idle \in RowJob BY IdleIs DEF RowsInv
<1>4. l \in LeaseIds /\ leases[l].item \in Items /\ leases[l].item \in DOMAIN items BY <1>3, PartialIs DEF SessionOK
<1>5. r \in Rows!Request /\ (l \in r.leases \/ r.whole) BY <1>4 DEF Rows!Whole, Rows!Request
<1>6. view \in RowViews BY <1>3, <1>5, ViewIs
<1>7. c \in {"persist", "accept"} OBVIOUS
<1>8. view = Rows!View(r) OBVIOUS
<1> HIDE DEF r, c, view
<1>9. /\ j \in RowJob /\ j.cmd = c /\ j.lease = l /\ j.lease_item = leases[l].item /\ j.request = r /\ j.view = view
      /\ j.base = metadata /\ j.metadata = metadata /\ j.revision = revision /\ j.out = "none"
  BY <1>3, <1>4, <1>5, <1>6, <1>7 DEF RowJob, Rows!Idle, SessionOK
<1> HIDE DEF j
<1>10. RowJobOK(j)
  <2>1. revision \leq revision BY <1>3 DEF SessionOK
  <2> QED BY <1>4, <1>5, <1>7, <1>9, <1>8, <2>1 DEF RowJobOK
<1> QED BY <1>2, <1>9, <1>10, TakesIs

LEMMA RefreshRows ==
  ASSUME RowsInv, NEW p \in Procs, Rows!Refresh(p)
  PROVE  RowsInv' /\ RowsStep
<1>1. PICK k \in Keys : job' = [job EXCEPT ![p].metadata[k] = 1 - @] BY DEF Rows!Refresh
<1>2. PICK old \in RowJob : old = job[p] BY DEF RowsInv
<1> DEFINE data == [old.metadata EXCEPT ![k] = 1 - @]
           j == [old EXCEPT !.metadata = data]
<1>3. job' = [job EXCEPT ![p] = j] /\ UNCHANGED Rows!rows BY <1>1, <1>2 DEF Rows!Refresh
<1>4. RowJobOK(old) /\ old.cmd \in {"claim", "accept"} BY <1>2 DEF RowsInv, Rows!Refresh
<1>5. data \in Rows!Metadata
  <2>1. old.metadata \in [Keys -> 0..1] BY DEF RowJob, Rows!Metadata
  <2>2. 1 - old.metadata[k] \in 0..1 BY <2>1
  <2> QED BY <2>1, <2>2 DEF Rows!Metadata
<1> HIDE DEF data
<1>6. /\ j \in RowJob /\ j.cmd = old.cmd /\ j.item = old.item /\ j.lease = old.lease /\ j.lease_item = old.lease_item
      /\ j.role = old.role /\ j.request = old.request /\ j.view = old.view /\ j.base = old.base
      /\ j.revision = old.revision /\ j.out = old.out
  BY <1>5 DEF RowJob
<1> HIDE DEF j
<1>7. RowJobOK(j) BY <1>4, <1>6 DEF RowJobOK
<1>8. j.out = "none" BY <1>4, <1>6 DEF RowJobOK
<1> QED BY <1>3, <1>6, <1>7, <1>8, TakesIs

LEMMA PassRows ==
  ASSUME RowsInv, UNCHANGED <<Rows!rows, job>>
  PROVE  RowsInv' /\ RowsStep
<1>1. SessionOK /\ SessionOK' BY SessionKept DEF RowsInv
<1>2. ASSUME NEW q \in Procs PROVE RowJobOK(job[q])'
  <2>1. PICK k \in RowJob : k = job[q] BY DEF RowsInv
  <2>2. RowJobOK(k)' BY <1>1, <2>1, RowJobKept DEF RowsInv
  <2> QED BY <2>1, <2>2 DEF RowJobOK
<1>3. RowsInv' BY <1>1, <1>2 DEF RowsInv
<1>4. \A q \in Procs : ~Rows!Deciding(q, job[q]) BY DEF Rows!Deciding, RowsInv, RowJobOK
<1>5. Rows!OwnKeysStep BY DEF Rows!OwnKeysStep, Rows!rows
<1> QED BY <1>3, <1>4, <1>5 DEF RowsStep, Rows!WholeStep

LEMMA InitRows == Rows!Init => RowsInv
<1> SUFFICES ASSUME Rows!Init PROVE RowsInv
  OBVIOUS
<1>1. items \in Partial(Items, Rows!Item)
  <2>1. PICK S \in SUBSET Items : items = [i \in S |-> [state |-> "open", owner |-> None, classified |-> FALSE]]
    BY DEF Rows!Init
  <2>2. items \in [S -> Rows!Item] BY <2>1 DEF Rows!Item
  <2> QED BY <2>1, <2>2, PartialIs
<1>2. leases \in Partial(LeaseIds, Rows!LeaseRow) /\ DOMAIN leases = {}
  <2>1. leases \in [{} -> Rows!LeaseRow] /\ DOMAIN leases = {} BY DEF Rows!Init, Rows!NoRows
  <2> QED BY <2>1, PartialIs
<1>3. metadata \in Rows!Metadata /\ events \in Nat /\ revision \in Nat BY DEF Rows!Init, Rows!Metadata
<1>4. Rows!OneActive(leases) /\ \A i : Rows!On(leases, i) = {} BY <1>2 DEF Rows!OneActive, Rows!On, Rows!ActiveIn
<1>5. \A i \in DOMAIN items : items[i] = Marked(items[i], {})
  <2> DEFINE new == [state |-> "open", owner |-> None, classified |-> FALSE]
  <2>1. \A i \in DOMAIN items : items[i] = new BY DEF Rows!Init
  <2>2. Marked(new, {}) = new BY DEF Marked
  <2> HIDE DEF new
  <2> QED BY <2>1, <2>2
<1>6. SessionOK BY <1>1, <1>2, <1>3, <1>4, <1>5 DEF SessionOK
<1>7. job = [p \in Procs |-> Rows!Idle] BY DEF Rows!Init
<1> QED BY <1>6, <1>7, IdleIs, IdleOK DEF RowsInv

LEMMA RowsNext ==
  ASSUME RowsInv, Rows!Next
  PROVE  RowsInv' /\ RowsStep
<1>1. CASE Rows!Pass BY <1>1, PassRows DEF Rows!Pass
<1>2. CASE \E p \in Procs : Rows!Begin(p) \/ Rows!LoadClaim(p) \/ Rows!LoadSubmission(p) \/ Rows!Refresh(p) \/ Rows!Commit(p)
  BY <1>2, BeginRows, LoadClaimRows, LoadSubmissionRows, RefreshRows, CommitRows
<1> QED BY <1>1, <1>2 DEF Rows!Next

LEMMA RowsSubject ==
  /\ Init => (subject = "rows" => RowsInv)
  /\ (subject = "rows" => RowsInv) /\ [Next]_vars =>
       /\ (subject = "rows" => RowsInv)'
       /\ [subject = "rows" => RowsStep]_vars
<1>1. Init => (subject = "rows" => RowsInv) BY InitRows DEF Init
<1>2. ASSUME subject = "rows" => RowsInv, [Next]_vars
      PROVE  (subject = "rows" => RowsInv)' /\ [subject = "rows" => RowsStep]_vars
  <2>1. CASE UNCHANGED vars
    <3>1. UNCHANGED <<Rows!rows, job>> /\ subject' = subject BY <2>1 DEF vars, OfRows, Tables, Rows!rows
    <3> QED BY <1>2, <2>1, <3>1, PassRows
  <2>2. CASE Next /\ subject # "rows" BY <2>2 DEF Next
  <2>3. CASE Next /\ subject = "rows"
    <3>1. Rows!Next /\ subject' = subject BY <2>3 DEF Next
    <3> QED BY <1>2, <2>3, <3>1, RowsNext
  <2> QED BY <1>2, <2>1, <2>2, <2>3
<1> QED BY <1>1, <1>2

(* A command that loads and commits only the rows it declared is refused   *)
(* exactly when it would be on the whole session, leaves the session as    *)
(* its mutation of the whole one would, and is never stopped as invalid    *)
(* (transact_working_set, _load_working_set, _write_working_set).          *)
THEOREM PartialCommitsAreWhole == Spec => CommitIsWhole
<1>1. ASSUME (subject = "rows" => RowsInv)', [subject = "rows" => RowsStep]_vars, [Next]_vars
      PROVE  [subject = "rows" => Rows!WholeStep /\ Rows!NeverInvalid']_vars
  <2>1. CASE UNCHANGED vars BY <2>1
  <2>2. CASE Next /\ (subject = "rows" => RowsStep)
    <3>1. subject' = subject BY <2>2 DEF Next
    <3>2. RowsInv' => Rows!NeverInvalid' BY DEF RowsInv, RowJob, Rows!NeverInvalid
    <3> QED BY <1>1, <2>2, <3>1, <3>2 DEF RowsStep
  <2> QED BY <1>1, <2>1, <2>2
<1> QED BY <1>1, RowsSubject, PTL DEF Spec, CommitIsWhole

(* A commit changes no key of the metadata that its command did not        *)
(* change: nothing another command stored in between is put back           *)
(* (metadata_delta, apply_metadata_delta, expected_revision).              *)
THEOREM MetadataIsMerged == Spec => MetadataSurvives
<1>1. ASSUME [subject = "rows" => RowsStep]_vars PROVE [subject = "rows" => Rows!OwnKeysStep]_vars
  BY <1>1 DEF RowsStep
<1> QED BY <1>1, RowsSubject, PTL DEF Spec, MetadataSurvives

-----------------------------------------------------------------------------
(* Batches: the theorem of AgentBatchProofs about the instance of          *)
(* AgentBatch in Workspace.                                                *)

BatchRun == INSTANCE AgentBatchProofs WITH Items <- BatchItems, Thread <- BatchItems,
                                           LeaseIds <- BatchLeaseIds, NoId <- None

LEMMA BatchInitIs ==
  ASSUME Batch!Init PROVE BatchRun!Init
BY DEF Batch!Init, BatchRun!Init, Batch!IdleJob, BatchRun!IdleJob

LEMMA BatchNextIs ==
  ASSUME Batch!Next PROVE BatchRun!Next
BY DEF
  Batch!IsActive, BatchRun!IsActive, Batch!ActiveOn, BatchRun!ActiveOn, Batch!IsExpired,
  BatchRun!IsExpired, Batch!ExpireLeases, BatchRun!ExpireLeases, Batch!Project, BatchRun!Project,
  Batch!ItemIsOpen, BatchRun!ItemIsOpen, Batch!Eligible, BatchRun!Eligible, Batch!OwnFixerLeases,
  BatchRun!OwnFixerLeases, Batch!FirstOrNone, BatchRun!FirstOrNone, Batch!Compatible,
  BatchRun!Compatible, Batch!CanClaim, BatchRun!CanClaim, Batch!NewLease, BatchRun!NewLease,
  Batch!Close, BatchRun!Close, Batch!world, BatchRun!world, Batch!Known, BatchRun!Known,
  Batch!IdleJob, BatchRun!IdleJob, Batch!Commit, BatchRun!Commit, Batch!Load, BatchRun!Load,
  Batch!Goto, BatchRun!Goto, Batch!Done, BatchRun!Done, Batch!Unused, BatchRun!Unused,
  Batch!Granted, BatchRun!Granted, Batch!Reentered, BatchRun!Reentered, Batch!Classified,
  BatchRun!Classified, Batch!FixerLeases, BatchRun!FixerLeases, Batch!BatchCommand,
  BatchRun!BatchCommand, Batch!Room, BatchRun!Room, Batch!CompatibleBatch, BatchRun!CompatibleBatch,
  Batch!BatchTargets, BatchRun!BatchTargets, Batch!CommitBatch, BatchRun!CommitBatch,
  Batch!WriteRequest, BatchRun!WriteRequest, Batch!WriteFails, BatchRun!WriteFails,
  Batch!Compensate, BatchRun!Compensate, Batch!Unlink, BatchRun!Unlink, Batch!MatchingCommand,
  BatchRun!MatchingCommand, Batch!NextMatch, BatchRun!NextMatch, Batch!ClaimMatch,
  BatchRun!ClaimMatch, Batch!InputCommand, BatchRun!InputCommand, Batch!Target, BatchRun!Target,
  Batch!StaleContext, BatchRun!StaleContext, Batch!DuplicateItem, BatchRun!DuplicateItem, Batch!RowRefused, BatchRun!RowRefused,
  Batch!PrepareBatch, BatchRun!PrepareBatch, Batch!Partial, BatchRun!Partial, Batch!Fail,
  BatchRun!Fail, Batch!SaveBatch, BatchRun!SaveBatch, Batch!RollbackRow, BatchRun!RollbackRow,
  Batch!Classify, BatchRun!Classify, Batch!ReclaimLeases, BatchRun!ReclaimLeases, Batch!Crash,
  BatchRun!Crash, Batch!Tick, BatchRun!Tick, Batch!Push, BatchRun!Push, Batch!BatchStep,
  BatchRun!BatchStep, Batch!Next, BatchRun!Next, Batch!ReadOnlyRoles, BatchRun!ReadOnlyRoles,
  Batch!Cardinality, BatchRun!Cardinality, Batch!IsFiniteSet, BatchRun!IsFiniteSet

LEMMA BatchExclusionIs ==
  ASSUME BatchRun!BatchExclusion PROVE Batch!BatchExclusion
BY DEF Batch!BatchExclusion, BatchRun!BatchExclusion, Batch!IsActive, BatchRun!IsActive, Batch!Compatible, BatchRun!Compatible,
  Batch!ReadOnlyRoles, BatchRun!ReadOnlyRoles

LEMMA WithinLimitIs ==
  ASSUME BatchRun!WithinLimit PROVE Batch!WithinLimit
BY DEF Batch!WithinLimit, BatchRun!WithinLimit, Batch!FixerLeases, BatchRun!FixerLeases,
  Batch!IsActive, BatchRun!IsActive, Batch!Cardinality, BatchRun!Cardinality

(* The behaviours of this subject are those of AgentBatch. *)
LEMMA BatchMoves ==
  ASSUME subject = "batch", [Next]_vars
  PROVE  subject' = "batch" /\ [BatchRun!Next]_(BatchRun!vars)
<1>1. CASE UNCHANGED vars BY <1>1 DEF vars, OfBatch, Tables, BatchRun!vars
<1>2. CASE Next BY <1>2, BatchNextIs DEF Next
<1> QED BY <1>1, <1>2

LEMMA BatchAssumed ==
  /\ BatchRun!ItemsAssumption /\ BatchRun!NoIdAssumption
  /\ BatchRun!OverlapAssumption /\ BatchRun!BatchAssumption
BY WorkspaceAssumption
DEF Batch!ItemsAssumption, Batch!NoIdAssumption, Batch!OverlapAssumption, Batch!BatchAssumption,
    BatchRun!ItemsAssumption, BatchRun!NoIdAssumption, BatchRun!OverlapAssumption,
    BatchRun!BatchAssumption, Batch!IsFiniteSet, BatchRun!IsFiniteSet

(* Batches, racing claims and submissions keep the exclusion of single     *)
(* claims (issue_batch_action_request, submit_batch_action_response).      *)
THEOREM BatchClaimsExclude == Spec => []BatchExclusion
<1>1. Init => (subject = "batch" => BatchRun!Init) BY BatchInitIs DEF Init
<1>2. subject = "batch" /\ [Next]_vars => (subject = "batch")' /\ [BatchRun!Next]_(BatchRun!vars)
  BY BatchMoves
<1>3. ~(subject = "batch") /\ [Next]_vars => ~(subject = "batch")' BY DEF Next, vars
<1>4. BatchRun!Spec => []BatchRun!BatchExclusion BY BatchAssumed, BatchRun!BatchesExclude
<1>5. BatchRun!BatchExclusion => BatchExclusion BY BatchExclusionIs DEF BatchExclusion
<1>6. ~(subject = "batch") => BatchExclusion BY DEF BatchExclusion
<1> QED BY <1>1, <1>2, <1>3, <1>4, <1>5, <1>6, PTL DEF Spec, BatchRun!Spec

(* Batch claims of one agent, however many race, leave it within           *)
(* MAX_PARALLEL_CLAIMS (issue_batch_action_request, commit_batch).  agent  *)
(* resolve over matching threads claims without counting what is held.     *)
THEOREM BatchesWithinLimit == "matching" \notin Commands => (Spec => []WithinLimit)
<1> SUFFICES ASSUME "matching" \notin Commands PROVE Spec => []WithinLimit OBVIOUS
<1>1. Init => (subject = "batch" => BatchRun!Init) BY BatchInitIs DEF Init
<1>2. subject = "batch" /\ [Next]_vars => (subject = "batch")' /\ [BatchRun!Next]_(BatchRun!vars)
  BY BatchMoves
<1>3. ~(subject = "batch") /\ [Next]_vars => ~(subject = "batch")' BY DEF Next, vars
<1>4. BatchRun!Spec => []BatchRun!WithinLimit BY BatchAssumed, BatchRun!LimitHolds
<1>5. BatchRun!WithinLimit => WithinLimit BY WithinLimitIs DEF WithinLimit
<1>6. ~(subject = "batch") => WithinLimit BY DEF WithinLimit
<1> QED BY <1>1, <1>2, <1>3, <1>4, <1>5, <1>6, PTL DEF Spec, BatchRun!Spec

-----------------------------------------------------------------------------
(* agent resolve: what each route has claimed, and what it has put on      *)
(* GitHub.                                                                 *)

LEMMA LeastNumber == ASSUME NEW T \in SUBSET Nat, T # {} PROVE \E n \in T : \A m \in T : n <= m
<1>1. PICK n \in T : \A m \in T : ~(<<m, n>> \in OpToRel(<, Nat)) BY NatLessThanWellFounded, WFMin
<1>2. \A m \in T : ~(m < n) BY <1>1 DEF OpToRel
<1> QED BY <1>2

Threads == Resolve!Threads
Evidence == {"commit", "validation", "summary", "why", "severity"}
ResolveJob ==
  [form : Resolve!Form, target : Threads \cup {None}, todo : SUBSET Threads, batch : SUBSET Threads,
   rows : SUBSET Threads, created : SUBSET Threads, accepted : SUBSET Threads, failed : SUBSET Threads,
   plan : SUBSET Threads]
Answer == [status : {"NONE", "REFUSED", "COMPLETE", "ACCEPTED", "PARTIAL", "NO_ACCEPTED"}, owned : SUBSET Threads]

ResolveTypes ==
  /\ lease \in [Threads -> Procs \cup {None}] /\ kept \in [Procs -> SUBSET Threads]
  /\ pc \in [Procs -> Resolve!Steps] /\ job \in [Procs -> ResolveJob] /\ report \in [Procs -> Answer]
  /\ posted \subseteq Threads

(* S are threads a call with these flags may answer. *)
Asked(f, target, S) ==
  IF Resolve!HasItem(f) THEN S \subseteq {target} /\ (f.item \in Threads => S \subseteq {f.item})
  ELSE IF f.input # {} THEN S \subseteq f.input
  ELSE /\ \A t \in S : Path[t] \in Resolve!Files(f)
       /\ f.stale \/ \A t, u \in S : Concern[t] # None /\ Concern[t] = Concern[u]

(* Nothing is selected yet. *)
Blank(j) == j.todo = {} /\ j.batch = {} /\ j.rows = {} /\ j.created = {} /\ j.accepted = {}

(* What a command at a step holds it took with agent next or claims right  *)
(* now; whatever it has selected is what it was asked for.                 *)
CallOK(p, step, j, L, K) ==
  /\ \A t \in Threads : L[t] = p => t \in K \/ (step \in {"claim", "submit"} /\ t \in j.created)
  /\ step \in {"claim", "submit"} => j.created \subseteq j.rows
  /\ step = "select" => Blank(j)
  /\ step = "claim" /\ Resolve!HasItem(j.form) => j.rows = {}
  /\ Asked(j.form, j.target, j.todo \cup j.batch \cup j.rows \cup j.accepted)

AnswerOK(r, P) == r.status = "COMPLETE" => r.owned \subseteq P

ResolveInv ==
  /\ ResolveTypes
  /\ \A p \in Procs : CallOK(p, pc[p], job[p], lease, kept[p])
  /\ \A p \in Procs : AnswerOK(report[p], posted)

(* The selection only shrinks. *)
LEMMA AskedLess ==
  ASSUME NEW f, NEW target, NEW S, Asked(f, target, S), NEW R, R \subseteq S
  PROVE  Asked(f, target, R)
BY DEF Asked

(* One command moves; the others keep what they hold. *)
LEMMA CommandMoves ==
  ASSUME ResolveInv, NEW p \in Procs, NEW step \in Resolve!Steps, NEW j \in ResolveJob,
         pc' = [pc EXCEPT ![p] = step], job' = [job EXCEPT ![p] = j],
         lease' \in [Threads -> Procs \cup {None}], kept' \in [Procs -> SUBSET Threads],
         posted \subseteq posted', posted' \subseteq Threads,
         \A q \in Procs \ {p}, t \in Threads : lease'[t] = q => lease[t] = q /\ (t \in kept[q] => t \in kept'[q]),
         CallOK(p, step, j, lease', kept'[p]),
         NEW r \in Answer, report' = [report EXCEPT ![p] = r], AnswerOK(r, posted')
  PROVE  ResolveInv'
<1>1. ResolveTypes' BY DEF ResolveInv, ResolveTypes
<1>2. ASSUME NEW q \in Procs PROVE CallOK(q, pc'[q], job'[q], lease', kept'[q])
  <2>1. CASE q = p
    <3>1. pc'[q] = step /\ job'[q] = j BY <2>1 DEF ResolveInv, ResolveTypes
    <3> QED BY <2>1, <3>1
  <2>2. CASE q # p
    <3>1. pc'[q] = pc[q] /\ job'[q] = job[q] BY <2>2 DEF ResolveInv, ResolveTypes
    <3>2. CallOK(q, pc[q], job[q], lease, kept[q]) BY DEF ResolveInv
    <3> QED BY <2>2, <3>1, <3>2 DEF CallOK
  <2> QED BY <2>1, <2>2
<1>3. ASSUME NEW q \in Procs PROVE AnswerOK(report'[q], posted')
  <2>1. CASE q = p BY <2>1 DEF ResolveInv, ResolveTypes
  <2>2. CASE q # p BY <2>2 DEF ResolveInv, ResolveTypes, AnswerOK
  <2> QED BY <2>1, <2>2
<1> QED BY <1>1, <1>2, <1>3 DEF ResolveInv

LEMMA CommandGoes ==
  ASSUME ResolveInv, NEW p \in Procs, NEW step \in Resolve!Steps, NEW j \in ResolveJob, Resolve!Goto(p, step, j),
         lease' \in [Threads -> Procs \cup {None}], kept' \in [Procs -> SUBSET Threads], UNCHANGED posted,
         \A q \in Procs \ {p}, t \in Threads : lease'[t] = q => lease[t] = q /\ (t \in kept[q] => t \in kept'[q]),
         CallOK(p, step, j, lease', kept'[p])
  PROVE  ResolveInv'
<1>1. PICK r \in Answer : r = report[p] BY DEF ResolveInv, ResolveTypes
<1>2. report' = [report EXCEPT ![p] = r] /\ AnswerOK(r, posted') BY <1>1 DEF ResolveInv, ResolveTypes, Resolve!Goto
<1> QED BY <1>2, CommandMoves DEF Resolve!Goto, ResolveInv, ResolveTypes

LEMMA IdleResolve == Resolve!IdleJob \in ResolveJob
BY DEF Resolve!IdleJob, ResolveJob, Resolve!NoForm, Resolve!Form

LEMMA CommandEnds ==
  ASSUME ResolveInv, NEW p \in Procs, NEW status, NEW owned, [status |-> status, owned |-> owned] \in Answer,
         Resolve!End(p, status, owned),
         lease' \in [Threads -> Procs \cup {None}], kept' \in [Procs -> SUBSET Threads],
         posted \subseteq posted', posted' \subseteq Threads,
         \A q \in Procs \ {p}, t \in Threads : lease'[t] = q => lease[t] = q /\ (t \in kept[q] => t \in kept'[q]),
         \A t \in Threads : lease'[t] = p => t \in kept'[p],
         status = "COMPLETE" => owned \subseteq posted'
  PROVE  ResolveInv'
<1>1. PICK r \in Answer : r = [status |-> status, owned |-> owned] OBVIOUS
<1>2. "idle" \in Resolve!Steps BY DEF Resolve!Steps
<1>3. CallOK(p, "idle", Resolve!IdleJob, lease', kept'[p])
  <2>1. Resolve!IdleJob.todo = {} /\ Resolve!IdleJob.batch = {} /\ Resolve!IdleJob.rows = {} /\ Resolve!IdleJob.accepted = {}
    BY DEF Resolve!IdleJob
  <2> QED BY <2>1 DEF CallOK, Asked
<1>4. AnswerOK(r, posted') BY <1>1 DEF AnswerOK
<1>5. /\ pc' = [pc EXCEPT ![p] = "idle"] /\ job' = [job EXCEPT ![p] = Resolve!IdleJob]
      /\ report' = [report EXCEPT ![p] = r]
  BY <1>1 DEF Resolve!End
<1>6. Resolve!IdleJob \in ResolveJob BY IdleResolve
<1> HIDE DEF ResolveInv, AnswerOK, CallOK
<1> QED BY <1>2, <1>3, <1>4, <1>5, <1>6, CommandMoves

LEMMA CommandRefused ==
  ASSUME ResolveInv, NEW p \in Procs, Resolve!Refuse(p),
         lease' \in [Threads -> Procs \cup {None}], kept' \in [Procs -> SUBSET Threads],
         posted \subseteq posted', posted' \subseteq Threads,
         \A q \in Procs \ {p}, t \in Threads : lease'[t] = q => lease[t] = q /\ (t \in kept[q] => t \in kept'[q]),
         \A t \in Threads : lease'[t] = p => t \in kept'[p]
  PROVE  ResolveInv'
<1>1. [status |-> "REFUSED", owned |-> {}] \in Answer BY DEF Answer
<1> QED BY <1>1, CommandEnds DEF Resolve!Refuse

HoldsOf(p) ==
  /\ \A t \in Threads : lease[t] = p => t \in kept[p]
  /\ lease \in [Threads -> Procs \cup {None}] /\ kept \in [Procs -> SUBSET Threads]
  /\ posted \subseteq Threads

(* A command at none of these steps holds only what it took with agent next. *)
LEMMA HoldsKept ==
  ASSUME ResolveInv, NEW p \in Procs, pc[p] \notin {"claim", "submit"}
  PROVE  HoldsOf(p)
BY DEF ResolveInv, ResolveTypes, CallOK, HoldsOf

LEMMA CommandCalls ==
  ASSUME ResolveInv, Forms \subseteq Resolve!Form, NEW p \in Procs, NEW f \in Forms, Resolve!Call(p, f)
  PROVE  ResolveInv'
<1>1. pc[p] = "idle" /\ UNCHANGED <<lease, kept, posted>> BY DEF Resolve!Call, Resolve!world, Resolve!session
<1>2. HoldsOf(p) BY <1>1, HoldsKept
<1>3. CASE Resolve!ModeRefused(f) \/ Resolve!AxesRefused(f)
  <2>1. Resolve!Refuse(p) BY <1>3 DEF Resolve!Call
  <2> QED BY <2>1, <1>1, <1>2, CommandRefused DEF HoldsOf
<1>4. CASE ~(Resolve!ModeRefused(f) \/ Resolve!AxesRefused(f))
  <2> DEFINE j == [Resolve!IdleJob EXCEPT !.form = f]
  <2>1. j \in ResolveJob BY IdleResolve DEF ResolveJob
  <2>2. Blank(j) BY DEF Blank, Resolve!IdleJob
  <2>3. pc' = [pc EXCEPT ![p] = "select"] /\ job' = [job EXCEPT ![p] = j] /\ report' = [report EXCEPT ![p] = Resolve!Silent]
    BY <1>4 DEF Resolve!Call
  <2> HIDE DEF j
  <2>4. Asked(j.form, j.target, {}) BY DEF Asked
  <2>5. CallOK(p, "select", j, lease', kept'[p]) BY <2>2, <2>4, <1>1, <1>2 DEF CallOK, Blank, HoldsOf
  <2>6. Resolve!Silent \in Answer /\ AnswerOK(Resolve!Silent, posted') BY DEF Resolve!Silent, Answer, AnswerOK
  <2>7. "select" \in Resolve!Steps BY DEF Resolve!Steps
  <2>8. \A q \in Procs \ {p}, t \in Threads : lease'[t] = q => lease[t] = q /\ (t \in kept[q] => t \in kept'[q]) BY <1>1
  <2> QED BY <1>1, <1>2, <2>1, <2>3, <2>5, <2>6, <2>7, <2>8, CommandMoves DEF HoldsOf
<1> QED BY <1>3, <1>4

(* A command that goes on without touching leases. *)
LEMMA CommandSelects ==
  ASSUME ResolveInv, NEW p \in Procs, pc[p] \notin {"claim", "submit"}, NEW step \in Resolve!Steps, NEW j \in ResolveJob,
         Resolve!Goto(p, step, j), UNCHANGED <<posted, lease, kept>>,
         step \in {"claim", "submit"} => j.created \subseteq j.rows,
         step # "select",
         step = "claim" /\ Resolve!HasItem(j.form) => j.rows = {},
         Asked(j.form, j.target, j.todo \cup j.batch \cup j.rows \cup j.accepted)
  PROVE  ResolveInv'
<1>1. HoldsOf(p) BY HoldsKept
<1>2. CallOK(p, step, j, lease', kept'[p]) BY <1>1 DEF CallOK, HoldsOf
<1>3. \A q \in Procs \ {p}, t \in Threads : lease'[t] = q => lease[t] = q /\ (t \in kept[q] => t \in kept'[q]) OBVIOUS
<1> QED BY <1>1, <1>2, <1>3, CommandGoes DEF HoldsOf

(* A command refused before it claims anything. *)
LEMMA CommandStops ==
  ASSUME ResolveInv, NEW p \in Procs, pc[p] \notin {"claim", "submit"}, Resolve!Refuse(p), UNCHANGED <<lease, kept>>,
         posted \subseteq posted', posted' \subseteq Threads
  PROVE  ResolveInv'
<1>1. HoldsOf(p) BY HoldsKept
<1>2. \A q \in Procs \ {p}, t \in Threads : lease'[t] = q => lease[t] = q /\ (t \in kept[q] => t \in kept'[q]) OBVIOUS
<1> QED BY <1>1, <1>2, CommandRefused DEF HoldsOf

LEMMA JobOf ==
  ASSUME ResolveInv, NEW p \in Procs
  PROVE  job[p] \in ResolveJob /\ CallOK(p, pc[p], job[p], lease, kept[p])
BY DEF ResolveInv, ResolveTypes

LEMMA CommandSelectsOne ==
  ASSUME ResolveInv, NEW p \in Procs, Resolve!SelectOne(p)
  PROVE  ResolveInv'
<1>1. PICK s \in ResolveJob : s = job[p] BY JobOf
<1>2. PICK t : t = Resolve!Target(s.form.item) OBVIOUS
<1>3. pc[p] = "select" /\ UNCHANGED <<lease, kept, posted>>
  BY DEF Resolve!SelectOne, Resolve!world, Resolve!session
<1>4. Blank(s) BY <1>1, <1>3, JobOf DEF CallOK
<1>5. CASE Resolve!Refuse(p)
  <2>1. posted \subseteq posted' /\ posted' \subseteq Threads BY HoldsKept, <1>3 DEF HoldsOf
  <2> QED BY <1>3, <1>5, <2>1, CommandStops
<1>6. CASE ~Resolve!Refuse(p)
  <2> DEFINE j == [s EXCEPT !.todo = {t}, !.target = t, !.form.publish = @ \/ s.form.closed]
  <2>1. t # None /\ Resolve!Goto(p, IF s.form.closed THEN "reopen" ELSE "chunk", j)
    BY <1>1, <1>2, <1>6 DEF Resolve!SelectOne
  <2>2. t \in Threads /\ (s.form.item \in Threads => t = s.form.item)
    BY <2>1, <1>2 DEF Resolve!Target, Resolve!Known, Threads
  <2>3. Resolve!HasItem(s.form) BY <1>1 DEF Resolve!SelectOne, Resolve!Route
  <2>4. PICK f \in Resolve!Form : f = s.form BY DEF ResolveJob
  <2>5. PICK b \in BOOLEAN : b = (f.publish \/ f.closed) OBVIOUS
  <2> DEFINE g == [f EXCEPT !.publish = b]
  <2>6. g \in Resolve!Form /\ g.item = f.item BY DEF Resolve!Form
  <2>7. j = [s EXCEPT !.todo = {t}, !.target = t, !.form = g] BY <2>4, <2>5 DEF ResolveJob, Resolve!Form
  <2> HIDE DEF g, j
  <2>8. j \in ResolveJob BY <2>7, <2>6, <2>2 DEF ResolveJob
  <2>9. j.form = g /\ j.target = t /\ j.todo = {t} /\ j.batch = {} /\ j.rows = {} /\ j.accepted = {}
    BY <2>7, <1>4 DEF ResolveJob, Blank
  <2>10. Asked(j.form, j.target, j.todo \cup j.batch \cup j.rows \cup j.accepted)
    BY <2>9, <2>6, <2>4, <2>3, <2>2 DEF Asked, Resolve!HasItem
  <2>11. (IF s.form.closed THEN "reopen" ELSE "chunk") \in Resolve!Steps \ {"select", "claim", "submit"}
    BY DEF Resolve!Steps
  <2> QED BY <1>3, <2>1, <2>8, <2>10, <2>11, CommandSelects
<1> QED BY <1>5, <1>6

LEMMA CommandReopens ==
  ASSUME ResolveInv, NEW p \in Procs, Resolve!Reopen(p)
  PROVE  ResolveInv'
<1>1. PICK s \in ResolveJob : s = job[p] BY JobOf
<1>2. pc[p] = "reopen" /\ UNCHANGED <<lease, kept, posted>> BY DEF Resolve!Reopen, Resolve!world
<1>3. CASE Resolve!Goto(p, "chunk", s)
  <2>1. Asked(s.form, s.target, s.todo \cup s.batch \cup s.rows \cup s.accepted) BY <1>1, JobOf DEF CallOK
  <2>2. "chunk" \in Resolve!Steps BY DEF Resolve!Steps
  <2> QED BY <1>2, <1>3, <2>1, <2>2, CommandSelects
<1>4. CASE Resolve!Refuse(p)
  <2>1. posted \subseteq posted' /\ posted' \subseteq Threads BY HoldsKept, <1>2 DEF HoldsOf
  <2> QED BY <1>2, <1>4, <2>1, CommandStops
<1> QED BY <1>1, <1>3, <1>4 DEF Resolve!Reopen

LEMMA CommandSelectsInput ==
  ASSUME ResolveInv, NEW p \in Procs, Resolve!SelectInput(p)
  PROVE  ResolveInv'
<1>1. PICK s \in ResolveJob : s = job[p] BY JobOf
<1>2. pc[p] = "select" /\ UNCHANGED <<lease, kept, posted>>
  BY DEF Resolve!SelectInput, Resolve!world, Resolve!session
<1>3. Blank(s) BY <1>1, <1>2, JobOf DEF CallOK
<1>4. CASE Resolve!Refuse(p)
  <2>1. posted \subseteq posted' /\ posted' \subseteq Threads BY HoldsKept, <1>2 DEF HoldsOf
  <2> QED BY <1>2, <1>4, <2>1, CommandStops
<1>5. CASE Resolve!Goto(p, "submit", [s EXCEPT !.rows = s.form.input])
  <2> DEFINE j == [s EXCEPT !.rows = s.form.input]
  <2>1. ~Resolve!HasItem(s.form) /\ s.form.input # {} BY <1>1 DEF Resolve!SelectInput, Resolve!Route
  <2>2. j \in ResolveJob BY DEF ResolveJob, Resolve!Form, Threads
  <2>3. j.form = s.form /\ j.todo = {} /\ j.batch = {} /\ j.rows = s.form.input /\ j.accepted = {} /\ j.created = {}
    BY <1>3 DEF ResolveJob, Blank
  <2> HIDE DEF j
  <2>4. Asked(j.form, j.target, j.todo \cup j.batch \cup j.rows \cup j.accepted) BY <2>3, <2>1 DEF Asked
  <2>5. "submit" \in Resolve!Steps BY DEF Resolve!Steps
  <2>6. Resolve!Goto(p, "submit", j) BY <1>5 DEF j
  <2> QED BY <1>2, <2>2, <2>3, <2>4, <2>5, <2>6, CommandSelects
<1> QED BY <1>1, <1>4, <1>5 DEF Resolve!SelectInput

LEMMA CommandMatches ==
  ASSUME ResolveInv, NEW p \in Procs, NEW next \in {"chunk", "release"}, pc[p] = "select",
         ~Resolve!HasItem(job[p].form), job[p].form.input = {}, Resolve!Select(p, next)
  PROVE  ResolveInv'
<1>1. PICK s \in ResolveJob : s = job[p] BY JobOf
<1>2. UNCHANGED <<lease, kept, posted>> BY DEF Resolve!Select, Resolve!world, Resolve!session
<1>3. Blank(s) BY <1>1, JobOf DEF CallOK
<1>4. PICK S : S = Resolve!Matches(s.form, p) OBVIOUS
<1>5. CASE Resolve!Refuse(p)
  <2>1. posted \subseteq posted' /\ posted' \subseteq Threads BY HoldsKept, <1>2 DEF HoldsOf
  <2> QED BY <1>2, <1>5, <2>1, CommandStops
<1>6. CASE ~Resolve!RoutingRefused(s.form, S) /\ Resolve!Goto(p, next, [s EXCEPT !.todo = S])
  <2> DEFINE j == [s EXCEPT !.todo = S]
  <2>1. S \subseteq Threads /\ \A t \in S : Path[t] \in Resolve!Files(s.form)
    BY <1>4 DEF Resolve!Matches, Resolve!Known, Threads
  <2>2. s.form.stale \/ \A t, u \in S : Concern[t] # None /\ Concern[t] = Concern[u]
    BY <1>6 DEF Resolve!RoutingRefused, Resolve!Homogeneous
  <2>3. j \in ResolveJob BY <2>1 DEF ResolveJob
  <2>4. j.form = s.form /\ j.todo = S /\ j.batch = {} /\ j.rows = {} /\ j.accepted = {}
    BY <1>3 DEF ResolveJob, Blank
  <2> HIDE DEF j
  <2>5. Asked(j.form, j.target, j.todo \cup j.batch \cup j.rows \cup j.accepted)
    BY <2>4, <2>1, <2>2, <1>1 DEF Asked
  <2>6. next \in Resolve!Steps \ {"select", "claim", "submit"} BY DEF Resolve!Steps
  <2>7. Resolve!Goto(p, next, j) BY <1>6 DEF j
  <2> QED BY <1>2, <2>3, <2>5, <2>6, <2>7, CommandSelects
<1> QED BY <1>1, <1>4, <1>5, <1>6 DEF Resolve!Select

LEMMA CommandSelectsSome ==
  ASSUME ResolveInv, NEW p \in Procs,
         Resolve!SelectFixes(p) \/ Resolve!SelectStale(p) \/ Resolve!SelectDeclines(p)
  PROVE  ResolveInv'
<1>1. pc[p] = "select" /\ ~Resolve!HasItem(job[p].form) /\ job[p].form.input = {}
  BY DEF Resolve!SelectFixes, Resolve!SelectStale, Resolve!SelectDeclines, Resolve!Route
<1>2. Resolve!Select(p, "chunk") \/ Resolve!Select(p, "release")
  BY DEF Resolve!SelectFixes, Resolve!SelectStale, Resolve!SelectDeclines
<1> QED BY <1>1, <1>2, CommandMatches

LEMMA CommandReleases ==
  ASSUME ResolveInv, None \notin Procs, NEW p \in Procs, Resolve!ReleaseStale(p)
  PROVE  ResolveInv'
<1>1. PICK s \in ResolveJob : s = job[p] BY JobOf
<1>2. PICK S \in SUBSET Threads : S = {t \in s.todo : lease[t] = p} BY DEF ResolveJob
<1>3. /\ pc[p] = "release" /\ Resolve!Goto(p, "chunk", s) /\ UNCHANGED posted
      /\ lease' = [t \in Threads |-> IF t \in S THEN None ELSE lease[t]]
      /\ kept' = [kept EXCEPT ![p] = @ \ S]
  BY <1>1, <1>2 DEF Resolve!ReleaseStale, Resolve!world, Resolve!Nobody, Threads
<1>4. HoldsOf(p) BY <1>3, HoldsKept
<1>5. lease' \in [Threads -> Procs \cup {None}] /\ kept' \in [Procs -> SUBSET Threads] /\ kept'[p] = kept[p] \ S
  BY <1>3, <1>4 DEF HoldsOf
<1>6. \A q \in Procs \ {p}, t \in Threads : lease'[t] = q => lease[t] = q /\ (t \in kept[q] => t \in kept'[q])
  BY <1>3, <1>4 DEF HoldsOf
<1>7. \A t \in Threads : lease'[t] = p => t \in kept'[p] BY <1>3, <1>4, <1>5 DEF HoldsOf
<1>8. Asked(s.form, s.target, s.todo \cup s.batch \cup s.rows \cup s.accepted) BY <1>1, JobOf DEF CallOK
<1>9. CallOK(p, "chunk", s, lease', kept'[p]) BY <1>7, <1>8 DEF CallOK
<1>10. "chunk" \in Resolve!Steps BY DEF Resolve!Steps
<1> QED BY <1>3, <1>5, <1>6, <1>9, <1>10, CommandGoes

LEMMA CommandChunks ==
  ASSUME ResolveInv, NEW p \in Procs, Resolve!NextChunk(p)
  PROVE  ResolveInv'
<1>1. PICK s \in ResolveJob : s = job[p] BY JobOf
<1>2. PICK S \in SUBSET Threads :
        S \subseteq s.todo /\ S = {t \in s.todo : Resolve!Place(t, s.todo) <= Resolve!ChunkSize(s.form)}
  BY DEF ResolveJob
<1> DEFINE j == [s EXCEPT !.batch = S, !.todo = s.todo \ S, !.rows = {}, !.created = {}]
<1>3. pc[p] = "chunk" /\ Resolve!Goto(p, "claim", j) /\ UNCHANGED <<lease, kept, posted>>
  BY <1>1, <1>2 DEF Resolve!NextChunk, Resolve!world, Resolve!session
<1>4. /\ j \in ResolveJob /\ j.form = s.form /\ j.target = s.target /\ j.todo = s.todo \ S /\ j.batch = S
      /\ j.rows = {} /\ j.created = {} /\ j.accepted = s.accepted
  BY <1>2 DEF ResolveJob
<1> HIDE DEF j
<1>5. Asked(s.form, s.target, s.todo \cup s.batch \cup s.rows \cup s.accepted) BY <1>1, JobOf DEF CallOK
<1>6. j.todo \cup j.batch \cup j.rows \cup j.accepted \subseteq s.todo \cup s.batch \cup s.rows \cup s.accepted
  BY <1>4, <1>2
<1>7. Asked(j.form, j.target, j.todo \cup j.batch \cup j.rows \cup j.accepted)
  BY <1>5, <1>6, <1>4, AskedLess
<1>8. "claim" \in Resolve!Steps BY DEF Resolve!Steps
<1> QED BY <1>3, <1>4, <1>7, <1>8, CommandSelects

LEMMA FirstIsMember ==
  ASSUME Resolve!ResolveAssumption, NEW S \in SUBSET Threads, S # {}
  PROVE  Resolve!FirstOf(S) \in S
<1>1. Order \in Seq(Threads) /\ \A m, n \in DOMAIN Order : Order[m] = Order[n] => m = n
  BY DEF Resolve!ResolveAssumption, Threads
<1>2. DOMAIN Order = 1..Len(Order) /\ Len(Order) \in Nat BY <1>1
<1> DEFINE T == {n \in DOMAIN Order : Order[n] \in S}
<1>3. T \in SUBSET Nat /\ T # {} BY <1>2 DEF Threads, Resolve!Threads, Resolve!Range
<1> HIDE DEF T
<1>4. PICK n \in T : \A m \in T : n <= m BY <1>3, LeastNumber
<1>5. PICK t : t = Order[n] OBVIOUS
<1>6. n \in DOMAIN Order /\ t \in S BY <1>4, <1>5 DEF T
<1>7. t \in S \cap Resolve!UpTo(t) BY <1>2, <1>5, <1>6 DEF Resolve!UpTo
<1>8. ASSUME NEW u \in S \cap Resolve!UpTo(t) PROVE u = t
  <2>1. PICK m, k \in DOMAIN Order : u = Order[m] /\ m <= k /\ Order[k] = t BY <1>8 DEF Resolve!UpTo
  <2>2. k = n BY <2>1, <1>1, <1>5, <1>6
  <2>3. m \in T BY <2>1, <1>8 DEF T
  <2>4. n <= m BY <2>3, <1>4
  <2> QED BY <1>2, <1>5, <1>6, <2>1, <2>2, <2>4
<1>9. S \cap Resolve!UpTo(t) = {t} BY <1>7, <1>8
<1> QED BY <1>6, <1>9 DEF Resolve!FirstOf

LEMMA CommandClaims ==
  ASSUME ResolveInv, Resolve!ResolveAssumption, NEW p \in Procs, Resolve!Claim(p)
  PROVE  ResolveInv'
<1>1. PICK s \in ResolveJob : s = job[p] BY JobOf
<1>2. PICK t \in s.batch : t = Resolve!FirstOf(s.batch)
  <2>1. s.batch \in SUBSET Threads /\ s.batch # {} BY <1>1 DEF Resolve!Claim, ResolveJob
  <2> QED BY <2>1, FirstIsMember
<1>3. pc[p] = "claim" /\ UNCHANGED <<kept, posted>> BY DEF Resolve!Claim, Resolve!world
<1>4. CallOK(p, "claim", s, lease, kept[p]) BY <1>1, <1>3, JobOf
<1>5. /\ lease \in [Threads -> Procs \cup {None}] /\ kept \in [Procs -> SUBSET Threads]
      /\ posted \subseteq Threads /\ t \in Threads /\ None \notin Procs
  BY DEF ResolveInv, ResolveTypes, ResolveJob, Resolve!ResolveAssumption
<1>6. CASE Resolve!Claimable(p, t, s.form)
  <2>1. PICK c : c = (IF lease[t] = p THEN s.created ELSE s.created \cup {t}) OBVIOUS
  <2>2. PICK step : step = (IF s.batch = {t} THEN "submit" ELSE "claim") OBVIOUS
  <2> DEFINE j == [s EXCEPT !.batch = s.batch \ {t}, !.rows = s.rows \cup {t}, !.created = c]
  <2>3. Resolve!Goto(p, step, j) /\ lease' = [lease EXCEPT ![t] = p]
    BY <1>1, <1>2, <1>6, <2>1, <2>2 DEF Resolve!Claim
  <2>4. c \in SUBSET Threads /\ s.created \subseteq c /\ (lease[t] # p => t \in c) /\ c \subseteq s.created \cup {t}
    BY <2>1, <1>5 DEF ResolveJob
  <2>5. j \in ResolveJob BY <2>4, <1>5 DEF ResolveJob
  <2>6. /\ j.form = s.form /\ j.target = s.target /\ j.todo = s.todo /\ j.batch = s.batch \ {t}
        /\ j.rows = s.rows \cup {t} /\ j.created = c /\ j.accepted = s.accepted
    BY DEF ResolveJob
  <2> HIDE DEF j
  <2>7. lease' \in [Threads -> Procs \cup {None}] BY <2>3, <1>5
  <2>8. lease[t] = p \/ lease[t] = None BY <1>6 DEF Resolve!Claimable, Resolve!Nobody
  <2>9. \A q \in Procs \ {p}, u \in Threads : lease'[u] = q => lease[u] = q /\ (u \in kept[q] => u \in kept'[q])
    BY <2>3, <1>3, <1>5
  <2>10. \A u \in Threads : lease'[u] = p => u \in kept'[p] \/ u \in j.created
    BY <2>3, <2>4, <2>6, <1>3, <1>4, <1>5 DEF CallOK
  <2>11. step \in {"claim", "submit"} BY <2>2
  <2>12. j.created \subseteq j.rows BY <2>4, <2>6, <1>4 DEF CallOK
  <2>13. Asked(j.form, j.target, j.todo \cup j.batch \cup j.rows \cup j.accepted)
    <3>1. Asked(s.form, s.target, s.todo \cup s.batch \cup s.rows \cup s.accepted) BY <1>4 DEF CallOK
    <3>2. j.todo \cup j.batch \cup j.rows \cup j.accepted \subseteq s.todo \cup s.batch \cup s.rows \cup s.accepted
      BY <2>6
    <3> QED BY <3>1, <3>2, <2>6, AskedLess
  <2>14. step = "claim" /\ Resolve!HasItem(j.form) => FALSE
    <3>1. ASSUME Resolve!HasItem(s.form) PROVE s.batch = {t}
      <4>1. s.batch \subseteq {s.target} BY <1>4, <3>1 DEF CallOK, Asked
      <4> QED BY <4>1
    <3> QED BY <3>1, <2>2, <2>6
  <2>15. CallOK(p, step, j, lease', kept'[p]) BY <2>10, <2>11, <2>12, <2>13, <2>14 DEF CallOK
  <2>16. step \in Resolve!Steps BY <2>11 DEF Resolve!Steps
  <2> QED BY <2>3, <2>5, <2>7, <2>9, <2>15, <2>16, <1>3, <1>5, CommandGoes
<1>7. CASE ~Resolve!Claimable(p, t, s.form) /\ Resolve!Route(s.form) = "one"
  <2>1. Resolve!Refuse(p) /\ UNCHANGED lease BY <1>1, <1>2, <1>7 DEF Resolve!Claim
  <2>2. Resolve!HasItem(s.form) BY <1>7 DEF Resolve!Route
  <2>3. s.created = {} BY <2>2, <1>4 DEF CallOK
  <2>4. \A u \in Threads : lease'[u] = p => u \in kept'[p] BY <2>1, <2>3, <1>3, <1>4 DEF CallOK
  <2>5. \A q \in Procs \ {p}, u \in Threads : lease'[u] = q => lease[u] = q /\ (u \in kept[q] => u \in kept'[q])
    BY <2>1, <1>3
  <2> QED BY <2>1, <2>4, <2>5, <1>3, <1>5, CommandRefused
<1>8. CASE ~Resolve!Claimable(p, t, s.form) /\ Resolve!Route(s.form) # "one"
  <2>1. PICK step : step = (CASE s.batch # {t} -> "claim" [] s.batch = {t} /\ s.rows # {} -> "submit" [] OTHER -> "chunk")
    OBVIOUS
  <2> DEFINE j == [s EXCEPT !.batch = s.batch \ {t}, !.failed = s.failed \cup {t}]
  <2>2. Resolve!Goto(p, step, j) /\ UNCHANGED lease BY <1>1, <1>2, <1>8, <2>1 DEF Resolve!Claim
  <2>3. j \in ResolveJob BY <1>5 DEF ResolveJob
  <2>4. /\ j.form = s.form /\ j.target = s.target /\ j.todo = s.todo /\ j.batch = s.batch \ {t}
        /\ j.rows = s.rows /\ j.created = s.created /\ j.accepted = s.accepted
    BY DEF ResolveJob
  <2> HIDE DEF j
  <2>5. step \in {"claim", "submit", "chunk"} /\ (step = "chunk" => s.rows = {}) BY <2>1
  <2>6. \A u \in Threads : lease'[u] = p => u \in kept'[p] \/ (step \in {"claim", "submit"} /\ u \in j.created)
    BY <2>2, <2>4, <2>5, <1>3, <1>4 DEF CallOK
  <2>7. Asked(j.form, j.target, j.todo \cup j.batch \cup j.rows \cup j.accepted)
    <3>1. Asked(s.form, s.target, s.todo \cup s.batch \cup s.rows \cup s.accepted) BY <1>4 DEF CallOK
    <3>2. j.todo \cup j.batch \cup j.rows \cup j.accepted \subseteq s.todo \cup s.batch \cup s.rows \cup s.accepted
      BY <2>4
    <3> QED BY <3>1, <3>2, <2>4, AskedLess
  <2>8. CallOK(p, step, j, lease', kept'[p]) BY <2>4, <2>5, <2>6, <2>7, <1>4 DEF CallOK
  <2>9. step \in Resolve!Steps BY <2>5 DEF Resolve!Steps
  <2>10. \A q \in Procs \ {p}, u \in Threads : lease'[u] = q => lease[u] = q /\ (u \in kept[q] => u \in kept'[q])
    BY <2>2, <1>3
  <2>11. lease' \in [Threads -> Procs \cup {None}] /\ kept' \in [Procs -> SUBSET Threads] BY <2>2, <1>3, <1>5
  <2> QED BY <2>2, <2>3, <2>8, <2>9, <2>10, <2>11, <1>3, CommandGoes
<1> QED BY <1>6, <1>7, <1>8

(* Rows of a submit that were accepted, or given back, are not leased. *)
LEMMA RowsAccepted ==
  ASSUME ResolveInv, None \notin Procs, NEW p \in Procs, NEW S \in SUBSET Threads, NEW back \in SUBSET Threads,
         \A t \in S : lease[t] = p, Resolve!Accepted(S, back)
  PROVE  /\ lease' \in [Threads -> Procs \cup {None}] /\ kept' \in [Procs -> SUBSET Threads]
         /\ \A q \in Procs, t \in Threads :
              lease'[t] = q => lease[t] = q /\ t \notin S \cup back /\ (t \in kept[q] => t \in kept'[q])
<1>1. lease \in [Threads -> Procs \cup {None}] /\ kept \in [Procs -> SUBSET Threads] BY DEF ResolveInv, ResolveTypes
<1>2. lease' = [t \in Threads |-> IF t \in S \cup back THEN None ELSE lease[t]] /\ kept' = [q \in Procs |-> kept[q] \ S]
  BY DEF Resolve!Accepted, Threads, Resolve!Nobody
<1> QED BY <1>1, <1>2

LEMMA CommandSubmits ==
  ASSUME ResolveInv, None \notin Procs, NEW p \in Procs, Resolve!Submit(p)
  PROVE  ResolveInv'
<1>1. PICK s \in ResolveJob : s = job[p] BY JobOf
<1>2. PICK step : step = (IF s.todo = {} THEN "finish" ELSE "chunk") OBVIOUS
<1> DEFINE j == [s EXCEPT !.accepted = s.accepted \cup s.rows]
<1>3. /\ pc[p] = "submit" /\ Resolve!Goto(p, step, j) /\ UNCHANGED posted
      /\ (\A t \in s.rows : lease[t] = p) /\ Resolve!Accepted(s.rows, {})
  BY <1>1, <1>2 DEF Resolve!Submit, Resolve!world
<1>4. CallOK(p, "submit", s, lease, kept[p]) BY <1>1, <1>3, JobOf
<1>5. s.rows \in SUBSET Threads /\ s.accepted \in SUBSET Threads BY DEF ResolveJob
<1>6. /\ lease' \in [Threads -> Procs \cup {None}] /\ kept' \in [Procs -> SUBSET Threads]
      /\ \A q \in Procs, t \in Threads :
           lease'[t] = q => lease[t] = q /\ t \notin s.rows /\ (t \in kept[q] => t \in kept'[q])
  <2>1. PICK S \in SUBSET Threads, back \in SUBSET Threads : S = s.rows /\ back = {} BY <1>5
  <2>2. (\A t \in S : lease[t] = p) /\ Resolve!Accepted(S, back) BY <2>1, <1>3
  <2>3. /\ lease' \in [Threads -> Procs \cup {None}] /\ kept' \in [Procs -> SUBSET Threads]
        /\ \A q \in Procs, t \in Threads :
             lease'[t] = q => lease[t] = q /\ t \notin S \cup back /\ (t \in kept[q] => t \in kept'[q])
    BY <2>2, RowsAccepted
  <2> QED BY <2>1, <2>3
<1>7. j \in ResolveJob BY <1>5 DEF ResolveJob
<1>8. /\ j.form = s.form /\ j.target = s.target /\ j.todo = s.todo /\ j.batch = s.batch /\ j.rows = s.rows
      /\ j.accepted = s.accepted \cup s.rows
  BY DEF ResolveJob
<1> HIDE DEF j
<1>9. \A t \in Threads : lease'[t] = p => t \in kept'[p] BY <1>4, <1>6 DEF CallOK
<1>10. Asked(j.form, j.target, j.todo \cup j.batch \cup j.rows \cup j.accepted)
  <2>1. Asked(s.form, s.target, s.todo \cup s.batch \cup s.rows \cup s.accepted) BY <1>4 DEF CallOK
  <2> QED BY <2>1, <1>8, AskedLess
<1>11. step \in Resolve!Steps \ {"claim", "submit", "select"} BY <1>2 DEF Resolve!Steps
<1>12. CallOK(p, step, j, lease', kept'[p]) BY <1>9, <1>10, <1>11 DEF CallOK
<1> QED BY <1>3, <1>6, <1>7, <1>11, <1>12, CommandGoes

LEMMA CommandIsRejected ==
  ASSUME ResolveInv, None \notin Procs, NEW p \in Procs, Resolve!Reject(p)
  PROVE  ResolveInv'
<1>1. PICK s \in ResolveJob : s = job[p] BY JobOf
<1> DEFINE j == [s EXCEPT !.failed = s.failed \cup s.rows]
<1>2. PICK S \in SUBSET s.rows :
        /\ \A t \in S : lease[t] = p
        /\ Resolve!Accepted(S, s.created \ S)
        /\ Resolve!Goto(p, "chunk", j) \/ Resolve!Refuse(p)
  BY <1>1 DEF Resolve!Reject, Resolve!GivenBack
<1>3. pc[p] = "submit" /\ UNCHANGED posted BY DEF Resolve!Reject, Resolve!world
<1>4. CallOK(p, "submit", s, lease, kept[p]) BY <1>1, <1>3, JobOf
<1>5. S \in SUBSET Threads /\ s.created \ S \in SUBSET Threads /\ posted \subseteq Threads
  BY DEF ResolveJob, ResolveInv, ResolveTypes
<1>6. /\ lease' \in [Threads -> Procs \cup {None}] /\ kept' \in [Procs -> SUBSET Threads]
      /\ \A q \in Procs, t \in Threads :
           lease'[t] = q => lease[t] = q /\ t \notin S \cup (s.created \ S) /\ (t \in kept[q] => t \in kept'[q])
  BY <1>2, <1>5, RowsAccepted
<1>7. \A t \in Threads : lease'[t] = p => t \in kept'[p] BY <1>4, <1>6 DEF CallOK
<1>8. CASE Resolve!Refuse(p) BY <1>3, <1>5, <1>6, <1>7, <1>8, CommandRefused
<1>9. CASE Resolve!Goto(p, "chunk", j)
  <2>1. j \in ResolveJob BY DEF ResolveJob
  <2>2. /\ j.form = s.form /\ j.target = s.target /\ j.todo = s.todo /\ j.batch = s.batch /\ j.rows = s.rows
        /\ j.accepted = s.accepted
    BY DEF ResolveJob
  <2> HIDE DEF j
  <2>3. CallOK(p, "chunk", j, lease', kept'[p]) BY <1>4, <1>7, <2>2 DEF CallOK
  <2>4. "chunk" \in Resolve!Steps BY DEF Resolve!Steps
  <2> QED BY <1>3, <1>6, <1>9, <2>1, <2>3, <2>4, CommandGoes
<1> QED BY <1>2, <1>8, <1>9

(* What a command says of the threads it owns. *)
LEMMA StatusIsTrue ==
  ASSUME NEW j \in ResolveJob, NEW P \in SUBSET Threads
  PROVE  /\ [status |-> Resolve!Status(j, P), owned |-> j.accepted] \in Answer
         /\ Resolve!Status(j, P) = "COMPLETE" => j.accepted # {} /\ j.accepted \subseteq P
<1>1. Resolve!Outcome(j.form.publish, j.accepted, P) \in {"COMPLETE", "ACCEPTED"} BY DEF Resolve!Outcome
<1>2. CASE j.failed # {} /\ j.accepted # {}
  <2>1. Resolve!Status(j, P) = "PARTIAL" BY <1>2 DEF Resolve!Status
  <2> QED BY <2>1 DEF Answer, ResolveJob
<1>3. CASE j.failed # {} /\ j.accepted = {}
  <2>1. Resolve!Status(j, P) = "NO_ACCEPTED" BY <1>3 DEF Resolve!Status
  <2> QED BY <2>1 DEF Answer, ResolveJob
<1>4. CASE j.failed = {}
  <2>1. Resolve!Status(j, P) = Resolve!Outcome(j.form.publish, j.accepted, P) BY <1>4 DEF Resolve!Status
  <2> QED BY <2>1, <1>1 DEF Answer, ResolveJob, Resolve!Outcome
<1> QED BY <1>2, <1>3, <1>4

LEMMA CommandFinishes ==
  ASSUME ResolveInv, NEW p \in Procs, Resolve!Finish(p)
  PROVE  ResolveInv'
<1>1. PICK s \in ResolveJob : s = job[p] BY JobOf
<1>2. pc[p] \in {"finish", "chunk"} /\ UNCHANGED <<lease, kept, posted>>
  BY DEF Resolve!Finish, Resolve!world, Resolve!session
<1>3. PICK ready \in SUBSET Threads : ready = {t \in Threads : rows[t].state = "ready"} OBVIOUS
<1>4. CASE Resolve!Goto(p, "post", [s EXCEPT !.plan = ready])
  <2> DEFINE j == [s EXCEPT !.plan = ready]
  <2>1. j \in ResolveJob BY DEF ResolveJob
  <2>2. /\ j.form = s.form /\ j.target = s.target /\ j.todo = s.todo /\ j.batch = s.batch /\ j.rows = s.rows
        /\ j.accepted = s.accepted
    BY DEF ResolveJob
  <2>3. Resolve!Goto(p, "post", j) BY <1>4
  <2> HIDE DEF j
  <2>4. Asked(j.form, j.target, j.todo \cup j.batch \cup j.rows \cup j.accepted) BY <1>1, <2>2, JobOf DEF CallOK
  <2>5. "post" \in Resolve!Steps BY DEF Resolve!Steps
  <2> QED BY <1>2, <2>1, <2>3, <2>4, <2>5, CommandSelects
<1>5. CASE Resolve!End(p, Resolve!Status(s, {}), s.accepted)
  <2>1. HoldsOf(p) BY <1>2, HoldsKept
  <2>2. \A q \in Procs \ {p}, t \in Threads : lease'[t] = q => lease[t] = q /\ (t \in kept[q] => t \in kept'[q])
    BY <1>2
  <2>3. /\ [status |-> Resolve!Status(s, {}), owned |-> s.accepted] \in Answer
        /\ Resolve!Status(s, {}) = "COMPLETE" => s.accepted \subseteq posted'
    BY StatusIsTrue
  <2> QED BY <1>2, <1>5, <2>1, <2>2, <2>3, CommandEnds DEF HoldsOf
<1> QED BY <1>1, <1>3, <1>4, <1>5 DEF Resolve!Finish, Threads

LEMMA CommandPosts ==
  ASSUME ResolveInv, NEW p \in Procs, Resolve!Post(p)
  PROVE  ResolveInv'
<1>1. PICK s \in ResolveJob : s = job[p] BY JobOf
<1>2. /\ pc[p] = "post" /\ UNCHANGED <<lease, kept>> /\ posted' = posted \cup s.plan
      /\ Resolve!End(p, Resolve!Status(s, s.plan), s.accepted)
  BY <1>1 DEF Resolve!Post, Resolve!Replied
<1>3. HoldsOf(p) BY <1>2, HoldsKept
<1>4. \A q \in Procs \ {p}, t \in Threads : lease'[t] = q => lease[t] = q /\ (t \in kept[q] => t \in kept'[q])
  BY <1>2
<1>5. s.plan \in SUBSET Threads BY DEF ResolveJob
<1>6. /\ [status |-> Resolve!Status(s, s.plan), owned |-> s.accepted] \in Answer
      /\ Resolve!Status(s, s.plan) = "COMPLETE" => s.accepted \subseteq posted'
  BY <1>2, <1>5, StatusIsTrue
<1>7. posted \subseteq posted' /\ posted' \subseteq Threads BY <1>2, <1>3, <1>5 DEF HoldsOf
<1> QED BY <1>2, <1>3, <1>4, <1>6, <1>7, CommandEnds DEF HoldsOf

LEMMA CommandPostFails ==
  ASSUME ResolveInv, NEW p \in Procs, Resolve!PostFails(p)
  PROVE  ResolveInv'
<1>1. PICK s \in ResolveJob : s = job[p] BY JobOf
<1>2. PICK S \in SUBSET s.plan : posted' = posted \cup S BY <1>1 DEF Resolve!PostFails, Resolve!Replied
<1>3. pc[p] = "post" /\ UNCHANGED <<lease, kept>> /\ Resolve!Refuse(p) BY DEF Resolve!PostFails, Resolve!session
<1>4. posted \subseteq posted' /\ posted' \subseteq Threads BY <1>2, <1>3, HoldsKept DEF HoldsOf, ResolveJob
<1> QED BY <1>3, <1>4, CommandStops

LEMMA CommandNext ==
  ASSUME ResolveInv, NEW p \in Procs, NEW t \in Threads, Resolve!AgentNext(p, t)
  PROVE  ResolveInv'
<1>1. PICK s \in ResolveJob, r \in Answer : s = job[p] /\ r = report[p] BY DEF ResolveInv, ResolveTypes
<1>2. /\ pc[p] = "idle" /\ lease[t] = None /\ lease' = [lease EXCEPT ![t] = p] /\ kept' = [kept EXCEPT ![p] = @ \cup {t}]
      /\ UNCHANGED <<posted, pc, job, report>>
  BY DEF Resolve!AgentNext, Resolve!world, Resolve!Nobody
<1>3. HoldsOf(p) BY <1>2, HoldsKept
<1>4. /\ lease' \in [Threads -> Procs \cup {None}] /\ kept' \in [Procs -> SUBSET Threads]
      /\ kept'[p] = kept[p] \cup {t}
  BY <1>2, <1>3 DEF HoldsOf
<1>5. \A q \in Procs \ {p}, u \in Threads : lease'[u] = q => lease[u] = q /\ (u \in kept[q] => u \in kept'[q])
  BY <1>2, <1>3 DEF HoldsOf
<1>6. \A u \in Threads : lease'[u] = p => u \in kept'[p] BY <1>2, <1>3, <1>4 DEF HoldsOf
<1>7. CallOK(p, "idle", s, lease', kept'[p]) BY <1>1, <1>2, <1>6, JobOf DEF CallOK
<1>8. pc' = [pc EXCEPT ![p] = "idle"] /\ job' = [job EXCEPT ![p] = s] /\ report' = [report EXCEPT ![p] = r]
  BY <1>1, <1>2 DEF ResolveInv, ResolveTypes
<1>9. AnswerOK(r, posted') BY <1>1, <1>2 DEF ResolveInv
<1>10. posted \subseteq posted' /\ posted' \subseteq Threads BY <1>2, <1>3 DEF HoldsOf
<1>11. "idle" \in Resolve!Steps BY DEF Resolve!Steps
<1> QED BY <1>4, <1>5, <1>7, <1>8, <1>9, <1>10, <1>11, CommandMoves

ResolveSeen == <<posted, lease, kept, pc, job, report>>

LEMMA ResolveStays == ASSUME ResolveInv, UNCHANGED ResolveSeen PROVE ResolveInv'
BY DEF ResolveInv, ResolveTypes, ResolveSeen

LEMMA ResolveInit == ASSUME None \notin Procs, Resolve!Init PROVE ResolveInv
<1>1. ResolveTypes
  <2>1. Resolve!Silent \in Answer BY DEF Resolve!Silent, Answer
  <2> QED BY <2>1, IdleResolve DEF Resolve!Init, ResolveTypes, Threads, Resolve!Nobody, Resolve!Steps
<1>2. ASSUME NEW p \in Procs PROVE CallOK(p, pc[p], job[p], lease, kept[p])
  <2>1. pc[p] = "idle" /\ job[p] = Resolve!IdleJob /\ kept[p] = {} /\ \A t \in Threads : lease[t] = None
    BY DEF Resolve!Init, Threads, Resolve!Nobody
  <2>2. Blank(Resolve!IdleJob) BY DEF Blank, Resolve!IdleJob
  <2>3. Asked(Resolve!IdleJob.form, Resolve!IdleJob.target, {}) BY DEF Asked
  <2> QED BY <2>1, <2>2, <2>3 DEF CallOK, Blank
<1>3. ASSUME NEW p \in Procs PROVE AnswerOK(report[p], posted)
  BY DEF Resolve!Init, AnswerOK, Resolve!Silent
<1> QED BY <1>1, <1>2, <1>3 DEF ResolveInv

(* Every step of agent resolve. *)
LEMMA ResolveStep ==
  ASSUME ResolveInv, Resolve!ResolveAssumption, Resolve!Next
  PROVE  ResolveInv'
<1>1. None \notin Procs /\ Forms \subseteq Resolve!Form BY DEF Resolve!ResolveAssumption
<1>2. ASSUME NEW p \in Procs, NEW f \in Forms, Resolve!Call(p, f) PROVE ResolveInv' BY <1>1, <1>2, CommandCalls
<1>3. ASSUME NEW p \in Procs, Resolve!SelectOne(p) PROVE ResolveInv' BY <1>3, CommandSelectsOne
<1>4. ASSUME NEW p \in Procs, Resolve!Reopen(p) PROVE ResolveInv' BY <1>4, CommandReopens
<1>5. ASSUME NEW p \in Procs, Resolve!SelectInput(p) PROVE ResolveInv' BY <1>5, CommandSelectsInput
<1>6. ASSUME NEW p \in Procs, Resolve!SelectFixes(p) \/ Resolve!SelectStale(p) \/ Resolve!SelectDeclines(p)
      PROVE  ResolveInv'
  BY <1>6, CommandSelectsSome
<1>7. ASSUME NEW p \in Procs, Resolve!ReleaseStale(p) PROVE ResolveInv' BY <1>1, <1>7, CommandReleases
<1>8. ASSUME NEW p \in Procs, Resolve!NextChunk(p) PROVE ResolveInv' BY <1>8, CommandChunks
<1>9. ASSUME NEW p \in Procs, Resolve!Claim(p) PROVE ResolveInv' BY <1>9, CommandClaims
<1>10. ASSUME NEW p \in Procs, Resolve!Submit(p) PROVE ResolveInv' BY <1>1, <1>10, CommandSubmits
<1>11. ASSUME NEW p \in Procs, Resolve!Reject(p) PROVE ResolveInv' BY <1>1, <1>11, CommandIsRejected
<1>12. ASSUME NEW p \in Procs, Resolve!Finish(p) PROVE ResolveInv' BY <1>12, CommandFinishes
<1>13. ASSUME NEW p \in Procs, Resolve!Post(p) PROVE ResolveInv' BY <1>13, CommandPosts
<1>14. ASSUME NEW p \in Procs, Resolve!PostFails(p) PROVE ResolveInv' BY <1>14, CommandPostFails
<1>15. ASSUME NEW p \in Procs, NEW t \in Threads, Resolve!AgentNext(p, t) PROVE ResolveInv' BY <1>15, CommandNext
<1>16. CASE Resolve!Refresh \/ \E t \in Threads : Resolve!OnGitHub(t)
  <2>1. UNCHANGED ResolveSeen
    BY <1>16 DEF Resolve!Refresh, Resolve!OnGitHub, Resolve!world, Resolve!session, ResolveSeen
  <2> QED BY <2>1, ResolveStays
<1> QED
  BY <1>2, <1>3, <1>4, <1>5, <1>6, <1>7, <1>8, <1>9, <1>10, <1>11, <1>12, <1>13, <1>14, <1>15, <1>16
  DEF Resolve!Next, Threads

LEMMA ResolveSubject == Spec => [](subject = "resolve" => ResolveInv)
<1>1. None \notin Procs BY WorkspaceAssumption DEF Resolve!ResolveAssumption
<1>2. Init => (subject = "resolve" => ResolveInv) BY <1>1, ResolveInit DEF Init
<1>3. (subject = "resolve" => ResolveInv) /\ [Next]_vars => (subject = "resolve" => ResolveInv)'
  <2> SUFFICES ASSUME subject = "resolve" => ResolveInv, [Next]_vars, subject' = "resolve" PROVE ResolveInv'
    OBVIOUS
  <2>1. subject = "resolve" /\ ResolveInv BY DEF Next, vars
  <2>2. CASE Resolve!Next BY <2>1, <2>2, WorkspaceAssumption, ResolveStep
  <2>3. CASE UNCHANGED vars
    <3>1. UNCHANGED ResolveSeen BY <2>3 DEF vars, OfResolve, ResolveSeen
    <3> QED BY <2>1, <3>1, ResolveStays
  <2> QED BY <2>1, <2>2, <2>3 DEF Next
<1> QED BY <1>2, <1>3, PTL DEF Spec

(* A call of agent resolve that has ended leaves no lease behind but those *)
(* the agent took with agent next: every route releases what it claimed,   *)
(* whichever row of whichever submit was rejected (claimed_fixer_lease,    *)
(* _process_fast_fix_matches).                                             *)
THEOREM ResolveReleases == Spec => []NoLeaseLeft
<1>1. ASSUME subject = "resolve" => ResolveInv PROVE NoLeaseLeft
  BY <1>1 DEF NoLeaseLeft, Resolve!NoLeaseLeft, ResolveInv, ResolveTypes, CallOK, Threads
<1> QED BY <1>1, ResolveSubject, PTL

(* A resolve that reports COMPLETE has every thread it owns answered on    *)
(* GitHub, and the threads it owns are those it was asked to answer        *)
(* (publish_outcome_status, _matches_fast_fix_thread).                     *)
THEOREM ResolveCompletes == Spec => []CompleteIsTrue
<1>1. ASSUME subject = "resolve", ResolveInv PROVE Resolve!CompleteIsTrue
  BY <1>1 DEF Resolve!CompleteIsTrue, ResolveInv, AnswerOK
<1>2. ASSUME subject = "resolve", ResolveInv PROVE Resolve!AnswersWhatIsAsked
  <2>1. ASSUME NEW p \in Procs PROVE Asked(job[p].form, job[p].target, job[p].accepted)
    <3>1. Asked(job[p].form, job[p].target, job[p].todo \cup job[p].batch \cup job[p].rows \cup job[p].accepted)
      BY <1>2 DEF ResolveInv, CallOK
    <3> QED BY <3>1, AskedLess
  <2> QED BY <2>1 DEF Resolve!AnswersWhatIsAsked, Asked, Threads
<1> QED BY <1>1, <1>2, ResolveSubject, PTL DEF CompleteIsTrue

-----------------------------------------------------------------------------
(* Telemetry: imports, metrics and the report.                             *)

(* How many elements of S are at most n. *)
Rank(S, n) == Cardinality({m \in S : m <= n})

(* A finite set of numbers is numbered by Rank, in order. *)
LEMMA RankIs ==
  ASSUME NEW N \in Nat, NEW S \in SUBSET (1..N)
  PROVE  /\ IsFiniteSet(S) /\ Cardinality(S) \in Nat
         /\ \A n \in S : Rank(S, n) \in 1..Cardinality(S)
         /\ \A n, m \in S : Rank(S, n) = Rank(S, m) => n = m
         /\ \A k \in 1..Cardinality(S) : \E n \in S : Rank(S, n) = k
<1>1. IsFiniteSet(1..N) BY FS_Interval
<1>2. IsFiniteSet(S) BY <1>1, FS_Subset
<1>3. Cardinality(S) \in Nat BY <1>2, FS_CardinalityType
<1> DEFINE Upto(n) == {m \in S : m <= n}
<1>4. \A n \in S : IsFiniteSet(Upto(n)) /\ Cardinality(Upto(n)) \in Nat /\ Cardinality(Upto(n)) <= Cardinality(S)
  BY <1>2, FS_Subset, FS_CardinalityType
<1>5. \A n \in S : Rank(S, n) \in 1..Cardinality(S)
  <2> SUFFICES ASSUME NEW n \in S PROVE Rank(S, n) \in 1..Cardinality(S) OBVIOUS
  <2>1. n \in Upto(n) BY S \subseteq 1..N
  <2>2. Cardinality(Upto(n)) # 0 BY <1>4, <2>1, FS_EmptySet
  <2> QED BY <1>3, <1>4, <2>2 DEF Rank
<1>6. ASSUME NEW n \in S, NEW m \in S, n < m PROVE Rank(S, n) # Rank(S, m)
  <2>1. \A k \in S : k \in Int /\ (k <= n => k <= m) BY <1>6
  <2>2. Upto(n) \subseteq Upto(m) BY <2>1
  <2>3. m \in Upto(m) /\ m \notin Upto(n) BY <1>6, S \subseteq Nat
  <2>4. IsFiniteSet(Upto(m)) BY <1>4
  <2> HIDE DEF Upto
  <2>5. Cardinality(Upto(m)) # Cardinality(Upto(n)) BY <2>2, <2>3, <2>4, FS_Subset
  <2> QED BY <2>5 DEF Rank, Upto
<1>7. \A n, m \in S : Rank(S, n) = Rank(S, m) => n = m BY <1>6
<1> DEFINE rank == [n \in S |-> Rank(S, n)]
<1>8. rank \in Injection(S, 1..Cardinality(S)) BY <1>5, <1>7 DEF Injection, IsInjective
<1>9. IsFiniteSet(1..Cardinality(S)) /\ Cardinality(1..Cardinality(S)) = Cardinality(S) BY <1>3, FS_Interval
<1>10. rank \in Surjection(S, 1..Cardinality(S)) BY <1>8, <1>9, FS_Injection
<1>11. \A k \in 1..Cardinality(S) : \E n \in S : Rank(S, n) = k BY <1>10 DEF Surjection
<1> QED BY <1>2, <1>3, <1>5, <1>7, <1>11

(* The place in Picked(s, S) of a place in S. *)
LEMMA PickedIs ==
  ASSUME NEW T, NEW s \in Seq(T), NEW S \in SUBSET DOMAIN s
  PROVE  /\ Usage!Picked(s, S) \in Seq(T) /\ Len(Usage!Picked(s, S)) = Cardinality(S)
         /\ \A n \in S : Rank(S, n) \in 1..Cardinality(S) /\ Usage!Picked(s, S)[Rank(S, n)] = s[n]
         /\ \A n, m \in S : Rank(S, n) = Rank(S, m) => n = m
         /\ \A k \in 1..Cardinality(S) : \E n \in S : Rank(S, n) = k
<1>1. S \in SUBSET (1..Len(s)) /\ Len(s) \in Nat OBVIOUS
<1>2. /\ Cardinality(S) \in Nat
      /\ \A n \in S : Rank(S, n) \in 1..Cardinality(S)
      /\ \A n, m \in S : Rank(S, n) = Rank(S, m) => n = m
      /\ \A k \in 1..Cardinality(S) : \E n \in S : Rank(S, n) = k
  BY <1>1, RankIs
<1> DEFINE At(k) == CHOOSE n \in S : Rank(S, n) = k
<1>3. \A k \in 1..Cardinality(S) : At(k) \in S /\ Rank(S, At(k)) = k BY <1>2
<1>4. \A n \in S : At(Rank(S, n)) = n BY <1>2, <1>3
<1>5. Usage!Picked(s, S) = [k \in 1..Cardinality(S) |-> s[At(k)]]
  BY DEF Usage!Picked, Rank, Usage!Cardinality, Cardinality
<1> HIDE DEF At
<1>6. \A k \in 1..Cardinality(S) : s[At(k)] \in T BY <1>1, <1>3
<1>7. Usage!Picked(s, S) \in [1..Cardinality(S) -> T] BY <1>5, <1>6
<1>8. Usage!Picked(s, S) \in Seq(T) /\ Len(Usage!Picked(s, S)) = Cardinality(S) BY <1>2, <1>7
<1>9. \A n \in S : Usage!Picked(s, S)[Rank(S, n)] = s[n] BY <1>2, <1>4, <1>5
<1> QED BY <1>2, <1>8, <1>9

(* No value is at two places of s. *)
NoRepeats(s) == \A k, l \in DOMAIN s : s[k] = s[l] => k = l

(* _dedupe_events keeps every event, once. *)
LEMMA DistinctIs ==
  ASSUME NEW T, NEW s \in Seq(T)
  PROVE  /\ Usage!Distinct(s) \in Seq(T) /\ NoRepeats(Usage!Distinct(s))
         /\ Usage!ToSet(Usage!Distinct(s)) = Usage!ToSet(s)
<1> DEFINE S == {n \in DOMAIN s : \A m \in 1..(n - 1) : s[m] # s[n]}
<1>1. Usage!Distinct(s) = Usage!Picked(s, S) BY DEF Usage!Distinct
<1>2. S \in SUBSET DOMAIN s /\ DOMAIN s = 1..Len(s) /\ Len(s) \in Nat OBVIOUS
<1>3. \A n, m \in S : s[n] = s[m] => n = m
  <2> SUFFICES ASSUME NEW n \in S, NEW m \in S, s[n] = s[m], n < m PROVE FALSE BY <1>2
  <2>1. n \in 1..(m - 1) BY <1>2
  <2> QED BY <2>1
<1>4. \A n \in DOMAIN s : \E m \in S : s[m] = s[n]
  <2> SUFFICES ASSUME NEW n \in DOMAIN s PROVE \E m \in S : s[m] = s[n] OBVIOUS
  <2> DEFINE P == {m \in DOMAIN s : s[m] = s[n]}
  <2>1. P \in SUBSET Nat /\ n \in P BY <1>2
  <2>2. PICK m \in P : \A k \in P : m <= k BY <2>1, LeastNumber
  <2>3. \A k \in 1..(m - 1) : s[k] # s[m]
    <3> SUFFICES ASSUME NEW k \in 1..(m - 1), s[k] = s[m] PROVE FALSE OBVIOUS
    <3>1. k \in DOMAIN s /\ k < m BY <1>2
    <3> QED BY <2>2, <3>1, <2>1
  <2> QED BY <2>3
<1> HIDE DEF S
<1> DEFINE D == Usage!Picked(s, S)
<1>5. /\ D \in Seq(T) /\ DOMAIN D = 1..Cardinality(S)
      /\ \A n \in S : Rank(S, n) \in 1..Cardinality(S) /\ D[Rank(S, n)] = s[n]
      /\ \A k \in 1..Cardinality(S) : \E n \in S : Rank(S, n) = k
  BY <1>2, PickedIs
<1> HIDE DEF D
<1>6. NoRepeats(D) BY <1>3, <1>5 DEF NoRepeats
<1>7. \A n \in DOMAIN s : \E k \in DOMAIN D : D[k] = s[n] BY <1>4, <1>5
<1>8. \A k \in DOMAIN D : \E n \in DOMAIN s : D[k] = s[n] BY <1>2, <1>5
<1>9. Usage!ToSet(D) = Usage!ToSet(s) BY <1>7, <1>8 DEF Usage!ToSet
<1> QED BY <1>1, <1>5, <1>6, <1>9 DEF D

(* How often something is in a sequence. *)
LEMMA OnePlace ==
  ASSUME NEW N \in Nat, NEW P \in SUBSET (1..N), \A k, l \in P : k = l
  PROVE  Usage!Cardinality(P) <= 1 /\ (P # {} => Usage!Cardinality(P) = 1)
<1>1. Usage!Cardinality(P) = Cardinality(P) BY DEF Usage!Cardinality, Cardinality
<1>2. CASE P = {} BY <1>1, <1>2, FS_EmptySet
<1>3. CASE P # {}
  <2>1. PICK k \in P : TRUE BY <1>3
  <2>2. P = {k} BY <2>1
  <2> QED BY <1>1, <2>2, FS_Singleton
<1> QED BY <1>2, <1>3

(* build_efficiency_report counts each event, and each execution the       *)
(* runtime recorded, once, whatever the two files hold.                    *)
LEMMA ReportOnce ==
  ASSUME Usage!TelemetryAssumption, file \in Seq(Runs), store \in Seq(Events \cup {Torn})
  PROVE  Usage!ReportedOnce
<1> DEFINE T == Runs \cup Events \cup {Torn}
           external == IF Usage!Corrupted THEN << >> ELSE store
<1>1. file \in Seq(T) /\ external \in Seq(T) OBVIOUS
<1> DEFINE both == Usage!Distinct(file) \o Usage!Distinct(external)
           D == Usage!Distinct(both)
           S == {n \in DOMAIN D : D[n] \in Events => RunOf[D[n]] \notin Usage!ToSet(D)}
<1>2. Usage!Report = Usage!Picked(D, S) BY DEF Usage!Report, Usage!Uncorrelated
<1> HIDE DEF external, T
<1>3. /\ Usage!Distinct(file) \in Seq(T) /\ Usage!Distinct(external) \in Seq(T)
      /\ Usage!ToSet(Usage!Distinct(file)) = Usage!ToSet(file)
  BY <1>1, DistinctIs
<1>4. both \in Seq(T) /\ Usage!ToSet(file) \subseteq Usage!ToSet(both)
  <2>1. \A n \in DOMAIN Usage!Distinct(file) : n \in DOMAIN both /\ both[n] = Usage!Distinct(file)[n]
    BY <1>3
  <2>2. Usage!ToSet(Usage!Distinct(file)) \subseteq Usage!ToSet(both) BY <2>1 DEF Usage!ToSet
  <2>3. both \in Seq(T) BY <1>3
  <2> QED BY <1>3, <2>2, <2>3
<1> HIDE DEF both
<1>5. D \in Seq(T) /\ NoRepeats(D) /\ Usage!ToSet(D) = Usage!ToSet(both) BY <1>4, DistinctIs
<1> DEFINE U == Usage!Picked(D, S)
<1> HIDE DEF D
<1>6. S \in SUBSET DOMAIN D OBVIOUS
<1>7. /\ U \in Seq(T) /\ DOMAIN U = 1..Len(U) /\ Len(U) = Cardinality(S) /\ Len(U) \in Nat
      /\ \A n \in S : Rank(S, n) \in DOMAIN U /\ U[Rank(S, n)] = D[n]
      /\ \A k \in DOMAIN U : \E n \in S : Rank(S, n) = k
  <2>1. /\ U \in Seq(T) /\ Len(U) = Cardinality(S)
        /\ \A n \in S : Rank(S, n) \in 1..Cardinality(S) /\ U[Rank(S, n)] = D[n]
        /\ \A k \in 1..Cardinality(S) : \E n \in S : Rank(S, n) = k
    BY <1>5, <1>6, PickedIs
  <2> HIDE DEF U, S
  <2>2. DOMAIN U = 1..Len(U) /\ Len(U) \in Nat BY <2>1
  <2> QED BY <2>1, <2>2
<1> HIDE DEF U
<1>8. NoRepeats(U)
  <2> SUFFICES ASSUME NEW k \in DOMAIN U, NEW l \in DOMAIN U, U[k] = U[l] PROVE k = l BY DEF NoRepeats
  <2>1. PICK n \in S : Rank(S, n) = k BY <1>7
  <2>2. PICK m \in S : Rank(S, m) = l BY <1>7
  <2>3. D[n] = D[m] BY <1>7, <2>1, <2>2
  <2>4. n = m BY <1>5, <1>6, <2>1, <2>2, <2>3 DEF NoRepeats
  <2> QED BY <2>1, <2>2, <2>4
<1>9. \A x : Usage!Cardinality({n \in 1..Len(U) : U[n] = x}) <= 1
  <2> SUFFICES ASSUME NEW x PROVE Usage!Cardinality({n \in 1..Len(U) : U[n] = x}) <= 1 OBVIOUS
  <2> DEFINE P == {n \in 1..Len(U) : U[n] = x}
  <2>1. P \in SUBSET (1..Len(U)) /\ \A k, l \in P : k = l BY <1>7, <1>8 DEF NoRepeats
  <2> HIDE DEF P
  <2>2. Usage!Cardinality(P) <= 1 BY <1>7, <2>1, OnePlace
  <2> QED BY <2>2 DEF P
<1>10. ASSUME NEW r \in Usage!ToSet(file)
       PROVE  Usage!Cardinality({n \in 1..Len(U) : U[n] = r \/ (U[n] \in Events /\ RunOf[U[n]] = r)}) = 1
  <2> DEFINE P == {n \in 1..Len(U) : U[n] = r \/ (U[n] \in Events /\ RunOf[U[n]] = r)}
  <2>1. r \in Runs /\ r \notin Events BY DEF Usage!ToSet, Usage!TelemetryAssumption
  <2>2. r \in Usage!ToSet(D) BY <1>4, <1>5
  <2>3. PICK n \in DOMAIN D : D[n] = r BY <2>2 DEF Usage!ToSet
  <2>4. n \in S BY <2>1, <2>3
  <2>5. ASSUME NEW k \in DOMAIN U, U[k] \in Events, RunOf[U[k]] = r PROVE FALSE
    <3>1. PICK m \in S : Rank(S, m) = k BY <1>7
    <3>2. U[k] = D[m] BY <1>7, <3>1
    <3>3. D[m] \in Events => RunOf[D[m]] \notin Usage!ToSet(D) BY <3>1
    <3> QED BY <2>2, <2>5, <3>2, <3>3
  <2>6. P \in SUBSET (1..Len(U)) /\ \A k, l \in P : k = l BY <1>7, <1>8, <2>5, SMTT(60) DEF NoRepeats
  <2>7. Rank(S, n) \in P BY <1>7, <2>3, <2>4
  <2> HIDE DEF P
  <2>8. Usage!Cardinality(P) = 1 BY <1>7, <2>6, <2>7, OnePlace
  <2> QED BY <2>8 DEF P
<1>11. Usage!Report = U BY <1>2 DEF U
<1> QED BY <1>9, <1>10, <1>11 DEF Usage!ReportedOnce

-----------------------------------------------------------------------------
(* What is recorded is in memory or in the file whose history is yet to be *)
(* read, once in one of them.                                              *)
Once(s, x) == \E k \in DOMAIN s : s[k] = x /\ \A l \in DOMAIN s : s[l] = x => l = k

LEMMA AppendIs ==
  ASSUME NEW T, NEW s \in Seq(T), NEW x \in T
  PROVE  /\ Append(s, x) \in Seq(T) /\ Usage!ToSet(Append(s, x)) = Usage!ToSet(s) \cup {x}
         /\ x \notin Usage!ToSet(s) => Once(Append(s, x), x)
         /\ \A y : y # x /\ Once(s, y) => Once(Append(s, x), y)
<1> DEFINE A == Append(s, x)
<1>1. /\ A \in Seq(T) /\ DOMAIN s = 1..Len(s) /\ Len(s) \in Nat
      /\ DOMAIN A = 1..(Len(s) + 1) /\ A[Len(s) + 1] = x /\ \A n \in DOMAIN s : A[n] = s[n]
  OBVIOUS
<1> HIDE DEF A
<1>2. /\ \A n \in DOMAIN A : n \in DOMAIN s \/ n = Len(s) + 1
      /\ \A n \in DOMAIN s : n \in DOMAIN A
      /\ Len(s) + 1 \in DOMAIN A
  BY <1>1
<1>3. Usage!ToSet(A) = Usage!ToSet(s) \cup {x} BY <1>1, <1>2 DEF Usage!ToSet
<1>4. x \notin Usage!ToSet(s) => Once(A, x) BY <1>1, <1>2 DEF Once, Usage!ToSet
<1>5. ASSUME NEW y, y # x, Once(s, y) PROVE Once(A, y)
  <2>1. PICK k \in DOMAIN s : s[k] = y /\ \A l \in DOMAIN s : s[l] = y => l = k BY <1>5 DEF Once
  <2>2. A[k] = y /\ k \in DOMAIN A BY <1>1, <1>2, <2>1
  <2>3. \A l \in DOMAIN A : A[l] = y => l = k BY <1>1, <1>2, <1>5, <2>1
  <2> QED BY <2>2, <2>3 DEF Once
<1> QED BY <1>1, <1>3, <1>4, <1>5 DEF A

LEMMA ConcatIs ==
  ASSUME NEW T, NEW s \in Seq(T), NEW t \in Seq(T)
  PROVE  /\ s \o t \in Seq(T) /\ Usage!ToSet(s \o t) = Usage!ToSet(s) \cup Usage!ToSet(t)
         /\ \A x : Once(s, x) /\ x \notin Usage!ToSet(t) => Once(s \o t, x)
         /\ \A x : x \notin Usage!ToSet(s) /\ Once(t, x) => Once(s \o t, x)
<1> DEFINE C == s \o t
<1>1. /\ C \in Seq(T) /\ Len(s) \in Nat /\ Len(t) \in Nat
      /\ DOMAIN s = 1..Len(s) /\ DOMAIN t = 1..Len(t) /\ DOMAIN C = 1..(Len(s) + Len(t))
      /\ \A n \in DOMAIN s : C[n] = s[n]
      /\ \A n \in DOMAIN t : C[Len(s) + n] = t[n]
  OBVIOUS
<1> HIDE DEF C
<1>2. /\ \A n \in DOMAIN C : n \in DOMAIN s \/ \E m \in DOMAIN t : n = Len(s) + m
      /\ \A n \in DOMAIN s : n \in DOMAIN C
      /\ \A n \in DOMAIN t : Len(s) + n \in DOMAIN C
  <2>1. \A n \in DOMAIN C : n \notin DOMAIN s => n - Len(s) \in DOMAIN t /\ n = Len(s) + (n - Len(s)) BY <1>1
  <2> QED BY <1>1, <2>1
<1>3. Usage!ToSet(C) = Usage!ToSet(s) \cup Usage!ToSet(t)
  <2>1. Usage!ToSet(C) \subseteq Usage!ToSet(s) \cup Usage!ToSet(t) BY <1>1, <1>2 DEF Usage!ToSet
  <2>2. Usage!ToSet(s) \subseteq Usage!ToSet(C) BY <1>1, <1>2 DEF Usage!ToSet
  <2>3. Usage!ToSet(t) \subseteq Usage!ToSet(C) BY <1>1, <1>2 DEF Usage!ToSet
  <2> QED BY <2>1, <2>2, <2>3
<1>4. ASSUME NEW x, Once(s, x), x \notin Usage!ToSet(t) PROVE Once(C, x)
  <2>1. PICK k \in DOMAIN s : s[k] = x /\ \A l \in DOMAIN s : s[l] = x => l = k BY <1>4 DEF Once
  <2>2. C[k] = x /\ k \in DOMAIN C BY <1>1, <1>2, <2>1
  <2>3. \A m \in DOMAIN t : C[Len(s) + m] # x BY <1>1, <1>4 DEF Usage!ToSet
  <2>4. \A l \in DOMAIN C : C[l] = x => l = k BY <1>1, <1>2, <2>1, <2>3
  <2> QED BY <2>2, <2>4 DEF Once
<1>5. ASSUME NEW x, Once(t, x), x \notin Usage!ToSet(s) PROVE Once(C, x)
  <2>1. PICK k \in DOMAIN t : t[k] = x /\ \A l \in DOMAIN t : t[l] = x => l = k BY <1>5 DEF Once
  <2>2. C[Len(s) + k] = x /\ Len(s) + k \in DOMAIN C BY <1>1, <1>2, <2>1
  <2>3. \A m \in DOMAIN s : C[m] # x BY <1>1, <1>5 DEF Usage!ToSet
  <2>4. \A l \in DOMAIN C : C[l] = x => l = Len(s) + k BY <1>1, <1>2, <2>1, <2>3
  <2> QED BY <2>2, <2>4 DEF Once
<1> QED BY <1>1, <1>3, <1>4, <1>5 DEF C

ImportSteps == {"idle", "ledger", "append", "summary"}
Reasons == {"none", "CORRUPTED_TELEMETRY_STORE", "AMBIGUOUS_TELEMETRY_SESSION", "UNSAFE_TELEMETRY_CONTENT",
            "TELEMETRY_IMPORTED", "TELEMETRY_PARTIAL", "DUPLICATE_TELEMETRY_IMPORT", "MALFORMED_TELEMETRY"}
ImportJob == [pc : ImportSteps, source : Sources \cup {Usage!Idle.source}, batch : SUBSET Events,
              known : SUBSET Events, accepted : SUBSET Events, reason : Reasons]

ImportOK ==
  /\ store \in Seq(Events \cup {Torn}) /\ ledger \in SUBSET Events
  /\ job \in [Procs -> ImportJob]

RecordOK ==
  /\ file \in Seq(Runs) /\ recorded \in SUBSET Runs
  /\ tracker \in [pending : BOOLEAN, metrics : Seq(Runs)]
  /\ Usage!ToSet(tracker.metrics) \subseteq recorded \cup Usage!ToSet(file)
  /\ \A r \in recorded :
       IF tracker.pending
       THEN \/ Once(tracker.metrics, r) /\ r \notin Usage!ToSet(file)
            \/ r \notin Usage!ToSet(tracker.metrics) /\ Once(file, r)
       ELSE Once(tracker.metrics, r)

LEMMA SetToSeqIs ==
  ASSUME Usage!TelemetryAssumption, NEW S \in SUBSET Events
  PROVE  Usage!SetToSeq(S) \in Seq(Events)
<1>1. IsFiniteSet(S) BY FS_Subset DEF Usage!TelemetryAssumption, Usage!IsFiniteSet, IsFiniteSet
<1>2. Cardinality(S) \in Nat /\ ExistsBijection(1..Cardinality(S), S) BY <1>1, FS_CardinalityType
<1>3. PICK f \in [1..Cardinality(S) -> S] : IsInjective(f)
  BY <1>2 DEF ExistsBijection, Bijection, Injection
<1>4. Usage!SetToSeq(S) = CHOOSE g \in [1..Cardinality(S) -> S] : IsInjective(g)
  BY DEF Usage!SetToSeq, Usage!IsInjective, IsInjective, Usage!Cardinality, Cardinality
<1>5. Usage!SetToSeq(S) \in [1..Cardinality(S) -> S] BY <1>3, <1>4
<1>6. Usage!SetToSeq(S) \in [1..Cardinality(S) -> Events] BY <1>5
<1> QED BY <1>2, <1>6

LEMMA UsageInit ==
  ASSUME Usage!Init PROVE ImportOK /\ RecordOK
<1>1. Usage!Idle \in ImportJob BY DEF Usage!Idle, ImportJob, ImportSteps, Reasons
<1>2. ImportOK BY <1>1 DEF Usage!Init, ImportOK
<1>3. << >> \in Seq(Runs) OBVIOUS
<1>4. RecordOK BY <1>3 DEF Usage!Init, Usage!NewTracker, RecordOK, Usage!ToSet
<1> QED BY <1>2, <1>4

LEMMA ImportStep ==
  ASSUME Usage!TelemetryAssumption, ImportOK, NEW p \in Procs, Usage!Import(p)
  PROVE  ImportOK'
<1>1. /\ job[p] \in ImportJob /\ Usage!Idle \in ImportJob
      /\ \A j \in ImportJob : [job EXCEPT ![p] = j] \in [Procs -> ImportJob]
  BY DEF ImportOK, ImportJob, Usage!Idle, ImportSteps, Reasons
<1>2. Usage!Stored \subseteq Events
  <2>1. Usage!Lines \subseteq Events \cup {Torn} BY DEF Usage!Lines, Usage!ToSet, ImportOK
  <2> QED BY <2>1 DEF Usage!Stored
<1>3. CASE Usage!Load(p)
  <2>1. PICK s \in Sources, batch \in SUBSET Events :
          LET j == [Usage!Idle EXCEPT !.source = s, !.batch = batch, !.known = ledger \cup Usage!Stored]
          IN  job' = [job EXCEPT ![p] =
                IF Usage!Corrupted THEN [j EXCEPT !.pc = "summary", !.reason = "CORRUPTED_TELEMETRY_STORE"]
                ELSE [j EXCEPT !.pc = IF Usage!Accepted(j) = {} THEN "summary" ELSE "ledger",
                               !.accepted = Usage!Accepted(j), !.reason = Usage!Reason(j)]]
    BY <1>3 DEF Usage!Load
  <2> DEFINE j == [Usage!Idle EXCEPT !.source = s, !.batch = batch, !.known = ledger \cup Usage!Stored]
             corrupted == [j EXCEPT !.pc = "summary", !.reason = "CORRUPTED_TELEMETRY_STORE"]
             loaded == [j EXCEPT !.pc = IF Usage!Accepted(j) = {} THEN "summary" ELSE "ledger",
                                 !.accepted = Usage!Accepted(j), !.reason = Usage!Reason(j)]
  <2>2. j \in ImportJob /\ j.batch = batch BY <1>1, <1>2 DEF ImportOK, ImportJob
  <2>3. corrupted \in ImportJob
    <3> HIDE DEF j
    <3> QED BY <2>2 DEF ImportJob, ImportSteps, Reasons
  <2>4. loaded \in ImportJob
    <3> HIDE DEF j
    <3>1. Usage!Accepted(j) \in SUBSET Events BY <2>2 DEF Usage!Accepted, Usage!Good
    <3>2. Usage!Reason(j) \in Reasons BY DEF Usage!Reason, Reasons
    <3> QED BY <2>2, <3>1, <3>2 DEF ImportJob, ImportSteps
  <2>5. job' = [job EXCEPT ![p] = IF Usage!Corrupted THEN corrupted ELSE loaded] BY <2>1
  <2> HIDE DEF corrupted, loaded
  <2>6. job' \in [Procs -> ImportJob] BY <1>1, <2>3, <2>4, <2>5
  <2> QED BY <1>3, <2>6 DEF Usage!Load, ImportOK
<1>4. CASE Usage!WriteLedger(p)
  <2>1. ledger' \in SUBSET Events BY <1>1, <1>4 DEF Usage!WriteLedger, ImportJob
  <2>2. job' \in [Procs -> ImportJob] BY <1>1, <1>4 DEF Usage!WriteLedger, ImportOK, ImportJob, ImportSteps
  <2> QED BY <1>4, <2>1, <2>2 DEF Usage!WriteLedger, ImportOK
<1>5. CASE Usage!AppendEvents(p)
  <2>1. Usage!SetToSeq(job[p].accepted) \in Seq(Events) BY <1>1, SetToSeqIs DEF ImportJob
  <2>2. store' \in Seq(Events \cup {Torn})
    <3>1. Usage!SetToSeq(job[p].accepted) \in Seq(Events \cup {Torn}) BY <2>1
    <3> QED BY <1>5, <3>1 DEF Usage!AppendEvents, ImportOK
  <2>3. job' \in [Procs -> ImportJob] BY <1>1, <1>5 DEF Usage!AppendEvents, ImportOK, ImportJob, ImportSteps
  <2> QED BY <1>5, <2>2, <2>3 DEF Usage!AppendEvents, ImportOK
<1>6. CASE Usage!Tear(p)
  <2>1. PICK part \in SUBSET job[p].accepted : store' = store \o Usage!SetToSeq(part) \o <<Torn>>
    BY <1>6 DEF Usage!Tear
  <2>2. Usage!SetToSeq(part) \in Seq(Events) BY <1>1, <2>1, SetToSeqIs DEF ImportJob
  <2>3. store' \in Seq(Events \cup {Torn})
    <3>1. Usage!SetToSeq(part) \in Seq(Events \cup {Torn}) /\ <<Torn>> \in Seq(Events \cup {Torn}) BY <2>2
    <3>2. store \in Seq(Events \cup {Torn}) BY DEF ImportOK
    <3> QED BY <2>1, <3>1, <3>2
  <2> QED BY <1>1, <1>6, <2>3 DEF Usage!Tear, ImportOK
<1>7. CASE Usage!Summarise(p) \/ Usage!Crash(p) BY <1>1, <1>7 DEF Usage!Summarise, Usage!Crash, ImportOK
<1> QED BY <1>3, <1>4, <1>5, <1>6, <1>7 DEF Usage!Import

LEMMA RecordStep ==
  ASSUME RecordOK,
         (\E r \in Runs : Usage!Record(r) \/ Usage!RecordElsewhere(r))
           \/ Usage!ReadHistory \/ Usage!Bind \/ Usage!Writable
  PROVE  RecordOK'
<1> DEFINE metrics == tracker.metrics
<1>1. /\ file \in Seq(Runs) /\ metrics \in Seq(Runs) /\ tracker.pending \in BOOLEAN /\ recorded \in SUBSET Runs
      /\ tracker = [pending |-> tracker.pending, metrics |-> metrics]
      /\ Usage!ToSet(metrics) \subseteq recorded \cup Usage!ToSet(file)
  BY DEF RecordOK
<1>2. ASSUME NEW r \in Runs, Usage!Record(r) PROVE RecordOK'
  <2>1. /\ r \notin recorded /\ r \notin Usage!ToSet(file) /\ recorded' = recorded \cup {r}
        /\ r \notin Usage!ToSet(metrics)
    BY <1>1, <1>2 DEF Usage!Record
  <2>2. CASE writable /\ tracker.pending
    <3>1. file' = Append(file, r) /\ tracker' = tracker BY <1>2, <2>2 DEF Usage!Record, Usage!Kept
    <3>2. /\ file' \in Seq(Runs) /\ Usage!ToSet(file') = Usage!ToSet(file) \cup {r}
          /\ Once(file', r) /\ \A q \in recorded : Once(file, q) => Once(file', q)
      BY <1>1, <2>1, <3>1, AppendIs
    <3> QED BY <1>1, <2>1, <2>2, <3>1, <3>2 DEF RecordOK
  <2>3. CASE writable /\ ~tracker.pending
    <3>1. /\ file' = Append(file, r) /\ tracker'.metrics = Append(metrics, r) /\ tracker'.pending = FALSE
          /\ tracker' \in [pending : BOOLEAN, metrics : Seq(Runs)]
      <4>1. file' = Append(file, r) /\ tracker' = [tracker EXCEPT !.metrics = Append(@, r)]
        BY <1>2, <2>3 DEF Usage!Record, Usage!Kept
      <4>2. tracker' = [pending |-> tracker.pending, metrics |-> Append(metrics, r)] BY <1>1, <4>1
      <4>3. Append(metrics, r) \in Seq(Runs) BY <1>1, AppendIs
      <4> QED BY <1>1, <2>3, <4>1, <4>2, <4>3
    <3>2. file' \in Seq(Runs) /\ Usage!ToSet(file') = Usage!ToSet(file) \cup {r} BY <1>1, <3>1, AppendIs
    <3>3. /\ Usage!ToSet(tracker'.metrics) = Usage!ToSet(metrics) \cup {r}
          /\ Once(tracker'.metrics, r) /\ \A q \in recorded : Once(metrics, q) => Once(tracker'.metrics, q)
      BY <1>1, <2>1, <3>1, AppendIs
    <3> QED BY <1>1, <2>1, <2>3, <3>1, <3>2, <3>3 DEF RecordOK
  <2>4. CASE ~writable
    <3>1. /\ file' = file /\ tracker'.metrics = Append(metrics, r) /\ tracker'.pending = tracker.pending
          /\ tracker' \in [pending : BOOLEAN, metrics : Seq(Runs)]
      <4>1. file' = file /\ tracker' = [tracker EXCEPT !.metrics = Append(@, r)]
        BY <1>2, <2>4 DEF Usage!Record, Usage!Kept
      <4>2. tracker' = [pending |-> tracker.pending, metrics |-> Append(metrics, r)] BY <1>1, <4>1
      <4>3. Append(metrics, r) \in Seq(Runs) BY <1>1, AppendIs
      <4> QED BY <1>1, <2>4, <4>1, <4>2, <4>3
    <3>2. /\ Usage!ToSet(tracker'.metrics) = Usage!ToSet(metrics) \cup {r}
          /\ Once(tracker'.metrics, r) /\ \A q \in recorded : Once(metrics, q) => Once(tracker'.metrics, q)
      BY <1>1, <2>1, <3>1, AppendIs
    <3> QED BY <1>1, <2>1, <3>1, <3>2 DEF RecordOK
  <2> QED BY <2>2, <2>3, <2>4, <1>1
<1>3. ASSUME NEW r \in Runs, Usage!RecordElsewhere(r) PROVE RecordOK'
  <2>1. r \notin recorded /\ file' = Append(file, r) /\ UNCHANGED <<tracker, recorded>>
    BY <1>3 DEF Usage!RecordElsewhere
  <2>2. /\ file' \in Seq(Runs) /\ Usage!ToSet(file') = Usage!ToSet(file) \cup {r}
        /\ \A q \in recorded : Once(file, q) => Once(file', q)
    BY <1>1, <2>1, AppendIs
  <2> QED BY <1>1, <2>1, <2>2 DEF RecordOK
<1>4. CASE Usage!ReadHistory
  <2>1. /\ tracker.pending /\ tracker' = [pending |-> FALSE, metrics |-> metrics \o file]
        /\ UNCHANGED <<file, recorded>>
    BY <1>4 DEF Usage!ReadHistory
  <2>2. /\ metrics \o file \in Seq(Runs) /\ Usage!ToSet(metrics \o file) = Usage!ToSet(metrics) \cup Usage!ToSet(file)
        /\ \A q \in recorded : Once(metrics, q) /\ q \notin Usage!ToSet(file) => Once(metrics \o file, q)
        /\ \A q \in recorded : q \notin Usage!ToSet(metrics) /\ Once(file, q) => Once(metrics \o file, q)
    BY <1>1, ConcatIs
  <2> QED BY <1>1, <2>1, <2>2 DEF RecordOK
<1>5. CASE Usage!Bind
  <2>1. << >> \in Seq(Runs) /\ Usage!ToSet(<< >>) = {} BY DEF Usage!ToSet
  <2> QED BY <1>1, <1>5, <2>1 DEF Usage!Bind, Usage!NewTracker, RecordOK
<1>6. CASE Usage!Writable BY <1>6 DEF Usage!Writable, RecordOK
<1> QED BY <1>2, <1>3, <1>4, <1>5, <1>6

LEMMA MetricsAre == ASSUME RecordOK PROVE Usage!MetricsOnce
<1> DEFINE history == IF tracker.pending THEN file ELSE << >>
           metrics == tracker.metrics \o history
<1>1. history \in Seq(Runs) /\ tracker.metrics \in Seq(Runs) BY DEF RecordOK
<1>2. ~tracker.pending => Usage!ToSet(history) = {} BY DEF Usage!ToSet
<1>3. \A r \in recorded : \/ Once(tracker.metrics, r) /\ r \notin Usage!ToSet(history)
                          \/ r \notin Usage!ToSet(tracker.metrics) /\ Once(history, r)
  BY <1>2 DEF RecordOK
<1> HIDE DEF history
<1>4. metrics \in Seq(Runs) /\ \A r \in recorded : Once(metrics, r) BY <1>1, <1>3, ConcatIs
<1> HIDE DEF metrics
<1>5. ASSUME NEW r \in recorded PROVE Usage!Cardinality({n \in 1..Len(metrics) : metrics[n] = r}) = 1
  <2> DEFINE P == {n \in 1..Len(metrics) : metrics[n] = r}
  <2>1. Len(metrics) \in Nat /\ DOMAIN metrics = 1..Len(metrics) BY <1>4
  <2>2. P \in SUBSET (1..Len(metrics)) /\ P # {} /\ \A k, l \in P : k = l BY <1>4, <2>1 DEF Once
  <2> HIDE DEF P
  <2>3. Usage!Cardinality(P) = 1 BY <2>1, <2>2, OnePlace
  <2> QED BY <2>3 DEF P
<1> QED BY <1>5 DEF Usage!MetricsOnce, metrics, history

(* Overlapping imports and hosts that report one execution count once in   *)
(* the report, and a recorded execution once in the metrics, whether its   *)
(* line was written or not and whenever the history is read                *)
(* (_dedupe_events, _dedupe_correlated_events, _record_locked).            *)
THEOREM TelemetryCountsOnce == Spec => []ReportedOnce
<1> DEFINE UsageInv == subject = "telemetry" => ImportOK /\ RecordOK
<1>1. Init => UsageInv BY UsageInit DEF Init
<1>2. UsageInv /\ [Next]_vars => UsageInv'
  <2> SUFFICES ASSUME UsageInv, [Next]_vars, subject' = "telemetry" PROVE (ImportOK /\ RecordOK)' OBVIOUS
  <2>1. subject = "telemetry" BY DEF Next, vars
  <2>2. CASE Usage!Next
    <3>1. CASE (\E p \in Procs : Usage!Import(p)) /\ UNCHANGED Usage!recording
      <4>1. ImportOK' BY <2>1, <3>1, ImportStep, WorkspaceAssumption
      <4>2. UNCHANGED <<file, tracker, recorded>> BY <3>1 DEF Usage!recording
      <4> QED BY <2>1, <4>1, <4>2 DEF RecordOK
    <3>2. CASE /\ (\E r \in Runs : Usage!Record(r) \/ Usage!RecordElsewhere(r))
                    \/ Usage!ReadHistory \/ Usage!Bind \/ Usage!Writable
               /\ UNCHANGED Usage!importing
      <4>1. RecordOK' BY <2>1, <3>2, RecordStep
      <4>2. UNCHANGED <<store, ledger, job>> BY <3>2 DEF Usage!importing
      <4> QED BY <2>1, <4>1, <4>2 DEF ImportOK
    <3> QED BY <2>2, <3>1, <3>2 DEF Usage!Next
  <2>3. CASE UNCHANGED vars
    <3>1. UNCHANGED <<store, ledger, job, file, tracker, recorded>> BY <2>3 DEF vars, OfTelemetry
    <3> QED BY <2>1, <3>1 DEF ImportOK, RecordOK
  <2> QED BY <2>1, <2>2, <2>3 DEF Next
<1>3. UsageInv => ReportedOnce
  BY WorkspaceAssumption, ReportOnce, MetricsAre DEF ReportedOnce, ImportOK, RecordOK
<1> QED BY <1>1, <1>2, <1>3, PTL DEF Spec

-----------------------------------------------------------------------------
(* Final gates that archive while other commands run.                      *)

GateSteps == {"new", "begin", "commit", "artifacts", "failed", "archive", "reserve", "name",
              "copy", "backup", "remove", "rewrite", "done"}
GateJob == [step : GateSteps, inode : Nat, target : Gate!Names \cup {0}]
SummaryOf == [of : Gates \cup {Gate!Nobody}, at : Gate!Names \cup {Gate!InWorkspace}]
Copied == [exists : BOOLEAN, db : SUBSET Gate!Actors, summary : SummaryOf]

GateTypes ==
  /\ dir \in BOOLEAN /\ inodes \in Nat /\ inode \in 0..inodes
  /\ store \in SUBSET Gate!Actors /\ reported \in SUBSET Gate!Actors
  /\ reserved \in Gate!Actors \cup {Gate!Nobody} /\ summary \in SummaryOf
  /\ archive \in [Gate!Names -> Copied] /\ job \in [Gate!Actors -> GateJob] /\ faults \in Nat

(* A command that will commit into the file at the path holds its          *)
(* reservation: SQLite has one writer.                                     *)
OneWriter ==
  \A p \in Gate!Actors :
    /\ job[p].step \in {"begin", "commit"} => job[p].inode \in 1..inodes
    /\ job[p].step = "commit" /\ job[p].inode = inode => reserved = p

(* The gate that archives works on the file it opened, which nobody else   *)
(* removes; from the reservation to the removal nothing is committed, so   *)
(* what it copied is what it removes.                                      *)
Opened == {"begin", "commit", "artifacts", "archive", "reserve", "name", "copy", "backup", "remove"}
Held == {"name", "copy", "backup", "remove"}
Uncopied == {"new", "failed", "begin", "commit", "artifacts", "archive", "reserve", "name", "copy"}

GateOK(g) ==
  /\ job[g].step \in Opened => inode # 0 /\ job[g].inode = inode
  /\ job[g].step \in Held => reserved = g
  /\ job[g].step \in Uncopied => \A n \in Gate!Names : ~archive[n].exists
  /\ job[g].step \in Uncopied \cup {"backup"} => \A n \in Gate!Names : archive[n].db = {}
  /\ job[g].step \in {"copy", "backup", "remove", "rewrite"} => job[g].target \in Gate!Names
  /\ job[g].step = "remove" => archive[job[g].target].db = store

(* A writer only connects, begins and commits. *)
WritersOK == \A w \in Writers : job[w].step \in {"new", "begin", "commit", "done"}

NoFileIsEmpty == inode = 0 => store = {}

(* What holds when g is the only gate. *)
GateInv(g) == GateTypes /\ OneWriter /\ WritersOK /\ NoFileIsEmpty /\ GateOK(g) /\ Gate!ArchiveKeepsAll

-----------------------------------------------------------------------------
(* Local variables *)

LEMMA EndIs ==
  ASSUME GateTypes, NEW p \in Gate!Actors, Gate!End(p)
  PROVE  /\ job' \in [Gate!Actors -> GateJob] /\ job'[p].step = "done"
         /\ \A q \in Gate!Actors \ {p} : job'[q] = job[q]
BY DEF Gate!End, Gate!New, GateTypes, GateJob, GateSteps

LEMMA GotoIs ==
  ASSUME GateTypes, NEW p \in Gate!Actors, NEW step \in GateSteps, Gate!Goto(p, step)
  PROVE  /\ job' \in [Gate!Actors -> GateJob] /\ job'[p].step = step
         /\ job'[p].inode = job[p].inode /\ job'[p].target = job[p].target
         /\ \A q \in Gate!Actors \ {p} : job'[q] = job[q]
BY DEF Gate!Goto, GateTypes, GateJob

LEMMA ReleaseIs ==
  ASSUME GateTypes, NEW p \in Gate!Actors, Gate!Release(p)
  PROVE  /\ reserved' \in Gate!Actors \cup {Gate!Nobody}
         /\ reserved # p => reserved' = reserved
BY DEF Gate!Release, GateTypes

LEMMA FaultIs == ASSUME GateTypes, Gate!Fault PROVE faults' \in Nat
BY DEF Gate!Fault, GateTypes

-----------------------------------------------------------------------------
(* Commands of the runtime *)

LEMMA OpenOK ==
  ASSUME Gate!GateRunAssumption, NEW g, Gates = {g}, GateInv(g), NEW p \in Gate!Actors, Gate!Open(p)
  PROVE  GateInv(g)'
<1> USE DEF GateInv
<1> g \in Gate!Actors BY DEF Gate!Actors
<1>1. /\ job[p].step = "new" /\ dir' = TRUE
      /\ job' = [job EXCEPT ![p].step = "begin", ![p].inode = inode']
      /\ UNCHANGED <<reserved, summary, archive, reported, faults>>
  BY DEF Gate!Open, Gate!Connect
<1>2. \/ inode = 0 /\ inode' = inodes + 1 /\ inodes' = inodes + 1 /\ store' = {}
      \/ inode # 0 /\ UNCHANGED <<inode, inodes, store>>
  BY DEF Gate!Open, Gate!Connect
<1>3. inode' \in 1..inodes' /\ inodes' \in Nat /\ inodes <= inodes' BY <1>2 DEF GateTypes
<1>4. inode' # 0 /\ (inode' = inode \/ inode' > inodes) BY <1>2, <1>3 DEF GateTypes
<1> inode' \in Nat BY <1>3
<1>5. /\ job' \in [Gate!Actors -> GateJob] /\ job'[p].step = "begin" /\ job'[p].inode = inode'
      /\ \A q \in Gate!Actors \ {p} : job'[q] = job[q]
  <2> DEFINE i == inode'
  <2>1. i \in Nat /\ job' = [job EXCEPT ![p].step = "begin", ![p].inode = i] BY <1>1
  <2>2. i = inode' OBVIOUS
  <2> HIDE DEF i
  <2> QED BY <2>1, <2>2 DEF GateTypes, GateJob, GateSteps
<1>6. GateTypes' BY <1>1, <1>2, <1>3, <1>5 DEF GateTypes
<1>7. OneWriter'
  <2> SUFFICES ASSUME NEW q \in Gate!Actors
               PROVE  /\ job'[q].step \in {"begin", "commit"} => job'[q].inode \in 1..inodes'
                      /\ job'[q].step = "commit" /\ job'[q].inode = inode' => reserved' = q
    BY DEF OneWriter
  <2>1. CASE q = p BY <1>3, <1>5, <2>1
  <2>2. CASE q # p BY <1>1, <1>3, <1>4, <1>5, <2>2 DEF OneWriter, GateTypes
  <2> QED BY <2>1, <2>2
<1>8. WritersOK' BY <1>5 DEF WritersOK, Gate!Actors
<1>9. GateOK(g)'
  <2>1. CASE p = g BY <1>1, <1>4, <1>5, <2>1 DEF GateOK, Opened, Held, Uncopied
  <2>2. CASE p # g
    <3>1. job'[g] = job[g] BY <1>5, <2>2
    <3>2. job[g].step \in Opened => UNCHANGED <<inode, store>> BY <1>2 DEF GateOK
    <3> QED BY <1>1, <3>1, <3>2 DEF GateOK, Opened
  <2> QED BY <2>1, <2>2
<1>10. Gate!ArchiveKeepsAll'
  <2>1. CASE inode # 0 BY <1>1, <1>2, <2>1 DEF Gate!ArchiveKeepsAll
  <2>2. CASE inode = 0
    <3>1. store = {} BY <2>2 DEF NoFileIsEmpty
    <3> QED BY <1>1, <3>1 DEF Gate!ArchiveKeepsAll
  <2> QED BY <2>1, <2>2
<1>11. NoFileIsEmpty' BY <1>4 DEF NoFileIsEmpty
<1> QED BY <1>6, <1>7, <1>8, <1>9, <1>10, <1>11

LEMMA BeginOK ==
  ASSUME Gate!GateRunAssumption, NEW g, Gates = {g}, GateInv(g), NEW p \in Gate!Actors, Gate!Begin(p)
  PROVE  GateInv(g)'
<1> USE DEF GateInv
<1> g \in Gate!Actors BY DEF Gate!Actors
<1>1. job[p].step = "begin" /\ UNCHANGED <<dir, inode, inodes, store, summary, archive, reported, faults>>
  BY DEF Gate!Begin, Gate!disk
<1>2. Gate!ArchiveKeepsAll' /\ NoFileIsEmpty' BY <1>1 DEF Gate!ArchiveKeepsAll, NoFileIsEmpty
<1>3. CASE job[p].inode = inode /\ reserved = Gate!Nobody /\ reserved' = p /\ Gate!Goto(p, "commit")
  <2>1. /\ job' \in [Gate!Actors -> GateJob] /\ job'[p].step = "commit" /\ job'[p].inode = job[p].inode
        /\ \A q \in Gate!Actors \ {p} : job'[q] = job[q]
    BY <1>3, GotoIs DEF GateSteps
  <2>2. GateTypes' BY <1>1, <1>3, <2>1 DEF GateTypes
  <2>3. \A q \in Gate!Actors : job[q].step = "commit" => job[q].inode # inode
    BY <1>3 DEF OneWriter, Gate!GateRunAssumption, Gate!Actors, Gate!Nobody
  <2>4. OneWriter' BY <1>1, <1>3, <2>1, <2>3 DEF OneWriter
  <2>5. WritersOK' BY <2>1 DEF WritersOK, Gate!Actors
  <2>6. GateOK(g)'
    <3>1. CASE p = g BY <1>1, <2>1, <3>1 DEF GateOK, Opened, Held, Uncopied
    <3>2. CASE p # g
      <4>1. job'[g] = job[g] BY <2>1, <3>2
      <4>2. job[g].step \notin Held BY <1>3 DEF GateOK, Gate!GateRunAssumption, Gate!Actors, Gate!Nobody
      <4> QED BY <1>1, <4>1, <4>2 DEF GateOK
    <3> QED BY <3>1, <3>2
  <2> QED BY <1>2, <2>2, <2>4, <2>5, <2>6
<1>4. CASE Gate!End(p) /\ UNCHANGED reserved
  <2>1. /\ job' \in [Gate!Actors -> GateJob] /\ job'[p].step = "done"
        /\ \A q \in Gate!Actors \ {p} : job'[q] = job[q]
    BY <1>4, EndIs
  <2>2. GateTypes' BY <1>1, <1>4, <2>1 DEF GateTypes
  <2>3. OneWriter' BY <1>1, <1>4, <2>1 DEF OneWriter
  <2>4. WritersOK' BY <2>1 DEF WritersOK, Gate!Actors
  <2>5. GateOK(g)'
    <3>1. CASE p = g BY <2>1, <3>1 DEF GateOK, Opened, Held, Uncopied
    <3>2. CASE p # g BY <1>1, <1>4, <2>1, <3>2 DEF GateOK
    <3> QED BY <3>1, <3>2
  <2> QED BY <1>2, <2>2, <2>3, <2>4, <2>5
<1> QED BY <1>3, <1>4 DEF Gate!Begin

(* A process that dies or gives up changes no file; only its own           *)
(* reservation goes.                                                       *)
LEMMA LeaveOK ==
  ASSUME Gate!GateRunAssumption, NEW g, Gates = {g}, GateInv(g), NEW p \in Gate!Actors, Gate!End(p), Gate!Release(p),
         UNCHANGED <<Gate!disk, archive, reported>>, summary' \in SummaryOf, faults' \in Nat
  PROVE  GateInv(g)'
<1> USE DEF GateInv
<1> g \in Gate!Actors BY DEF Gate!Actors
<1>1. UNCHANGED <<dir, inode, inodes, store, archive, reported>> BY DEF Gate!disk
<1>2. /\ job' \in [Gate!Actors -> GateJob] /\ job'[p].step = "done"
      /\ \A q \in Gate!Actors \ {p} : job'[q] = job[q]
  BY EndIs
<1>3. reserved' \in Gate!Actors \cup {Gate!Nobody} /\ (reserved # p => reserved' = reserved) BY ReleaseIs
<1>4. GateTypes' BY <1>1, <1>2, <1>3 DEF GateTypes
<1>5. OneWriter' BY <1>1, <1>2, <1>3 DEF OneWriter
<1>6. WritersOK' BY <1>2 DEF WritersOK, Gate!Actors
<1>7. GateOK(g)'
  <2>1. CASE p = g BY <1>2, <2>1 DEF GateOK, Opened, Held, Uncopied
  <2>2. CASE p # g BY <1>1, <1>2, <1>3, <2>2 DEF GateOK
  <2> QED BY <2>1, <2>2
<1>8. Gate!ArchiveKeepsAll' /\ NoFileIsEmpty' BY <1>1 DEF Gate!ArchiveKeepsAll, NoFileIsEmpty
<1> QED BY <1>4, <1>5, <1>6, <1>7, <1>8

LEMMA CrashOK ==
  ASSUME Gate!GateRunAssumption, NEW g, Gates = {g}, GateInv(g), NEW p \in Gate!Actors, Gate!Crash(p)
  PROVE  GateInv(g)'
<1>1. Gate!End(p) /\ Gate!Release(p) /\ UNCHANGED <<Gate!disk, summary, archive, reported>> BY DEF Gate!Crash
<1>2. summary' \in SummaryOf /\ faults' \in Nat BY <1>1, FaultIs DEF Gate!Crash, GateInv, GateTypes
<1> QED BY <1>1, <1>2, LeaveOK

(* The gate gives up. *)
LEMMA GateEndsOK ==
  ASSUME Gate!GateRunAssumption, NEW g, Gates = {g}, GateInv(g), Gate!End(g), dir' \in BOOLEAN, summary' \in SummaryOf,
         Gate!Release(g) \/ UNCHANGED reserved,
         UNCHANGED <<inode, inodes, store, archive, reported, faults>>
  PROVE  GateInv(g)'
<1> USE DEF GateInv
<1> g \in Gate!Actors BY DEF Gate!Actors
<1>1. /\ job' \in [Gate!Actors -> GateJob] /\ job'[g].step = "done"
      /\ \A q \in Gate!Actors \ {g} : job'[q] = job[q]
  BY EndIs
<1>2. reserved' \in Gate!Actors \cup {Gate!Nobody} /\ (reserved # g => reserved' = reserved)
  BY ReleaseIs DEF GateTypes
<1>3. GateTypes' BY <1>1, <1>2 DEF GateTypes
<1>4. OneWriter' BY <1>1, <1>2 DEF OneWriter
<1>5. WritersOK' BY <1>1 DEF WritersOK, Gate!Actors, Gate!GateRunAssumption
<1>6. GateOK(g)' BY <1>1 DEF GateOK, Opened, Held, Uncopied
<1>7. Gate!ArchiveKeepsAll' /\ NoFileIsEmpty' BY DEF Gate!ArchiveKeepsAll, NoFileIsEmpty
<1> QED BY <1>3, <1>4, <1>5, <1>6, <1>7

LEMMA CommitOK ==
  ASSUME Gate!GateRunAssumption, NEW g, Gates = {g}, GateInv(g), NEW p \in Gate!Actors, Gate!Commit(p)
  PROVE  GateInv(g)'
<1> USE DEF GateInv
<1> g \in Gate!Actors BY DEF Gate!Actors
<1>1. /\ job[p].step = "commit" /\ Gate!Release(p)
      /\ UNCHANGED <<dir, inode, inodes, summary, archive, faults>>
      /\ IF p \in Gates /\ job[p].inode = inode THEN Gate!Goto(p, "artifacts") ELSE Gate!End(p)
  BY DEF Gate!Commit
<1>2. /\ job' \in [Gate!Actors -> GateJob] /\ job'[p].step \in {"artifacts", "done"}
      /\ job'[p].step = "artifacts" => p = g /\ job'[p].inode = inode
      /\ \A q \in Gate!Actors \ {p} : job'[q] = job[q]
  BY <1>1, GotoIs, EndIs DEF GateSteps
<1>3. reserved' \in Gate!Actors \cup {Gate!Nobody} /\ (reserved # p => reserved' = reserved) BY <1>1, ReleaseIs
<1>4. \/ job[p].inode = inode /\ store' = store \cup {p} /\ reported' = reported \cup {p}
      \/ job[p].inode # inode /\ UNCHANGED <<store, reported>>
  BY DEF Gate!Commit
<1>5. GateTypes' BY <1>1, <1>2, <1>3, <1>4 DEF GateTypes
<1>6. OneWriter' BY <1>1, <1>2, <1>3 DEF OneWriter
<1>7. WritersOK' BY <1>2 DEF WritersOK, Gate!Actors, Gate!GateRunAssumption
<1>8. GateOK(g)'
  <2>1. CASE p = g
    <3>1. job'[g].step = "artifacts" => inode # 0 /\ job'[g].inode = inode
      BY <1>1, <1>2, <2>1 DEF GateOK, Opened
    <3>2. \A n \in Gate!Names : ~archive[n].exists /\ archive[n].db = {}
      BY <1>1, <2>1 DEF GateOK, Uncopied
    <3> QED BY <1>1, <1>2, <2>1, <3>1, <3>2 DEF GateOK, Opened, Held, Uncopied
  <2>2. CASE p # g
    <3>1. job'[g] = job[g] BY <1>2, <2>2
    <3>2. job[g].step \in Held => store' = store /\ reserved' = reserved
      BY <1>1, <1>3, <1>4, <2>2 DEF GateOK, OneWriter
    <3> QED BY <1>1, <3>1, <3>2 DEF GateOK, Held
  <2> QED BY <2>1, <2>2
<1>9. Gate!ArchiveKeepsAll' BY <1>1, <1>4 DEF Gate!ArchiveKeepsAll
<1>10. NoFileIsEmpty'
  <2>1. job[p].inode \in 1..inodes BY <1>1 DEF OneWriter
  <2> QED BY <1>1, <1>4, <2>1 DEF NoFileIsEmpty, GateTypes
<1> QED BY <1>5, <1>6, <1>7, <1>8, <1>9, <1>10

-----------------------------------------------------------------------------
(* The gate *)

(* The gate goes on to a step at which it neither begins nor commits.      *)
GateMoves(g) ==
  /\ job' \in [Gate!Actors -> GateJob]
  /\ job'[g].step \notin {"begin", "commit"}
  /\ \A q \in Gate!Actors \ {g} : job'[q] = job[q]

LEMMA GateGoes ==
  ASSUME GateTypes, NEW g \in Gate!Actors, NEW step \in GateSteps \ {"begin", "commit"}, Gate!Goto(g, step)
  PROVE  GateMoves(g) /\ job'[g].step = step /\ job'[g].inode = job[g].inode /\ job'[g].target = job[g].target
BY GotoIs DEF GateMoves

(* Then only what the gate itself relies on is left to be shown. *)
LEMMA GateStepOK ==
  ASSUME Gate!GateRunAssumption, NEW g, Gates = {g}, GateInv(g), GateMoves(g), GateOK(g)', Gate!ArchiveKeepsAll',
         dir' \in BOOLEAN, summary' \in SummaryOf, archive' \in [Gate!Names -> Copied], faults' \in Nat,
         UNCHANGED <<inode, inodes, store, reported>>,
         reserved' \in Gate!Actors \cup {Gate!Nobody},
         \A q \in Gate!Actors \ {g} : reserved = q => reserved' = q
  PROVE  GateInv(g)'
<1> USE DEF GateInv
<1> g \in Gate!Actors BY DEF Gate!Actors
<1>1. GateTypes' BY DEF GateTypes, GateMoves
<1>2. OneWriter'
  <2> SUFFICES ASSUME NEW q \in Gate!Actors
               PROVE  /\ job'[q].step \in {"begin", "commit"} => job'[q].inode \in 1..inodes'
                      /\ job'[q].step = "commit" /\ job'[q].inode = inode' => reserved' = q
    BY DEF OneWriter
  <2>1. CASE q = g BY <2>1 DEF GateMoves
  <2>2. CASE q # g BY <2>2 DEF GateMoves, OneWriter
  <2> QED BY <2>1, <2>2
<1>3. WritersOK' BY DEF WritersOK, Gate!Actors, GateMoves, Gate!GateRunAssumption
<1>4. NoFileIsEmpty' BY DEF NoFileIsEmpty
<1> QED BY <1>1, <1>2, <1>3, <1>4

LEMMA StackFailsOK ==
  ASSUME Gate!GateRunAssumption, NEW g, Gates = {g}, GateInv(g), Gate!StackFails(g)
  PROVE  GateInv(g)'
<1> USE DEF GateInv
<1> g \in Gate!Actors BY DEF Gate!Actors
<1>1. job[g].step = "new" /\ UNCHANGED <<dir, inode, inodes, store, reserved, summary, archive, reported, faults>>
  BY DEF Gate!StackFails, Gate!disk
<1>2. CASE Gate!End(g) BY <1>1, <1>2, GateEndsOK DEF GateTypes
<1>3. CASE Gate!Goto(g, "failed")
  <2>1. GateMoves(g) /\ job'[g].step = "failed" BY <1>3, GateGoes DEF GateSteps
  <2>2. GateOK(g)' BY <1>1, <2>1 DEF GateOK, Opened, Held, Uncopied
  <2>3. Gate!ArchiveKeepsAll' BY <1>1 DEF Gate!ArchiveKeepsAll
  <2> QED BY <1>1, <2>1, <2>2, <2>3, GateStepOK DEF GateTypes
<1> QED BY <1>2, <1>3 DEF Gate!StackFails

(* Both artifact writers only touch the directory and the summary. *)
LEMMA WriteIs ==
  ASSUME GateTypes, NEW g, g \in Gates, Gate!Write(g)
  PROVE  /\ dir' \in BOOLEAN /\ summary' \in SummaryOf
         /\ UNCHANGED <<inode, inodes, store, reserved, archive, reported, faults>>
BY DEF Gate!Write, SummaryOf

LEMMA WriteStackArtifactsOK ==
  ASSUME Gate!GateRunAssumption, NEW g, Gates = {g}, GateInv(g), Gate!WriteStackArtifacts(g)
  PROVE  GateInv(g)'
BY WriteIs, GateEndsOK DEF Gate!WriteStackArtifacts, GateInv

LEMMA WriteArtifactsOK ==
  ASSUME Gate!GateRunAssumption, NEW g, Gates = {g}, GateInv(g), Gate!WriteArtifacts(g)
  PROVE  GateInv(g)'
<1> USE DEF GateInv
<1> g \in Gate!Actors BY DEF Gate!Actors
<1>1. job[g].step = "artifacts" BY DEF Gate!WriteArtifacts
<1>2. /\ dir' \in BOOLEAN /\ summary' \in SummaryOf
      /\ UNCHANGED <<inode, inodes, store, reserved, archive, reported, faults>>
  BY WriteIs DEF Gate!WriteArtifacts
<1>3. CASE Gate!End(g) BY <1>2, <1>3, GateEndsOK
<1>4. CASE Gate!Goto(g, "archive")
  <2>1. GateMoves(g) /\ job'[g].step = "archive" /\ job'[g].inode = job[g].inode
    BY <1>4, GateGoes DEF GateSteps
  <2>2. GateOK(g)' BY <1>1, <1>2, <2>1 DEF GateOK, Opened, Held, Uncopied
  <2>3. Gate!ArchiveKeepsAll' BY <1>2 DEF Gate!ArchiveKeepsAll
  <2> QED BY <1>2, <2>1, <2>2, <2>3, GateStepOK DEF GateTypes
<1> QED BY <1>3, <1>4 DEF Gate!WriteArtifacts

LEMMA ArchiveOK ==
  ASSUME Gate!GateRunAssumption, NEW g, Gates = {g}, GateInv(g), Gate!Archive(g)
  PROVE  GateInv(g)'
<1> USE DEF GateInv
<1> g \in Gate!Actors BY DEF Gate!Actors
<1>1. job[g].step = "archive" /\ UNCHANGED <<dir, inode, inodes, store, reserved, summary, archive, reported, faults>>
  BY DEF Gate!Archive, Gate!disk
<1>2. CASE Gate!End(g) BY <1>1, <1>2, GateEndsOK DEF GateTypes
<1>3. CASE job' = [job EXCEPT ![g].step = IF inode = 0 THEN "name" ELSE "reserve", ![g].inode = inode]
  <2>1. inode # 0 /\ inode \in Nat BY <1>1 DEF GateOK, Opened, GateTypes
  <2>2. job' = [job EXCEPT ![g].step = "reserve", ![g].inode = inode] BY <1>3, <2>1
  <2>3. GateMoves(g) /\ job'[g].step = "reserve" /\ job'[g].inode = inode
    BY <2>1, <2>2 DEF GateMoves, GateTypes, GateJob, GateSteps
  <2>4. GateOK(g)' BY <1>1, <2>1, <2>3 DEF GateOK, Opened, Held, Uncopied
  <2>5. Gate!ArchiveKeepsAll' BY <1>1 DEF Gate!ArchiveKeepsAll
  <2> QED BY <1>1, <2>3, <2>4, <2>5, GateStepOK DEF GateTypes
<1> QED BY <1>2, <1>3 DEF Gate!Archive

LEMMA ReserveOK ==
  ASSUME Gate!GateRunAssumption, NEW g, Gates = {g}, GateInv(g), Gate!Reserve(g)
  PROVE  GateInv(g)'
<1> USE DEF GateInv
<1> g \in Gate!Actors BY DEF Gate!Actors
<1>1. job[g].step = "reserve" /\ UNCHANGED <<dir, inode, inodes, store, summary, archive, reported, faults>>
  BY DEF Gate!Reserve, Gate!disk
<1>2. CASE Gate!End(g) /\ UNCHANGED reserved BY <1>1, <1>2, GateEndsOK DEF GateTypes
<1>3. CASE /\ Gate!MayReserve(g) /\ Gate!Goto(g, "name")
           /\ reserved' = IF job[g].inode = inode /\ reserved = Gate!Nobody THEN g ELSE reserved
  <2>1. job[g].inode = inode /\ inode # 0 BY <1>1 DEF GateOK, Opened
  <2>2. reserved = Gate!Nobody /\ reserved' = g BY <1>3, <2>1 DEF Gate!MayReserve
  <2>3. GateMoves(g) /\ job'[g].step = "name" /\ job'[g].inode = job[g].inode
    BY <1>3, GateGoes DEF GateSteps
  <2>4. GateOK(g)' BY <1>1, <2>1, <2>2, <2>3 DEF GateOK, Opened, Held, Uncopied
  <2>5. Gate!ArchiveKeepsAll' BY <1>1 DEF Gate!ArchiveKeepsAll
  <2>6. Gate!Nobody \notin Gate!Actors BY DEF Gate!GateRunAssumption, Gate!Nobody, Gate!Actors
  <2> QED BY <1>1, <2>2, <2>3, <2>4, <2>5, <2>6, GateStepOK DEF GateTypes
<1> QED BY <1>2, <1>3 DEF Gate!Reserve

(* One gate needs one name. *)
LEMMA OneName ==
  ASSUME NEW g, Gates = {g}
  PROVE  Gate!Names = {1}
<1>1. Cardinality(Gates) = 1 BY FS_Singleton
<1>2. 1..1 = {1} OBVIOUS
<1>3. Gate!Cardinality(Gates) = Cardinality(Gates)
  BY DEF Gate!Cardinality, Gate!IsFiniteSet, Cardinality, IsFiniteSet
<1> QED BY <1>1, <1>2, <1>3 DEF Gate!Names

LEMMA NameOK ==
  ASSUME Gate!GateRunAssumption, NEW g, Gates = {g}, GateInv(g), Gate!Name(g)
  PROVE  GateInv(g)'
<1> USE DEF GateInv
<1> g \in Gate!Actors BY DEF Gate!Actors
<1> DEFINE Free(n) == ~archive[n].exists /\ \A m \in 1..(n - 1) : archive[m].exists
           target == CHOOSE n \in Gate!Names : Free(n)
<1>1. /\ job[g].step = "name" /\ job' = [job EXCEPT ![g].step = "copy", ![g].target = target]
      /\ UNCHANGED <<dir, inode, inodes, store, reserved, summary, archive, reported, faults>>
  BY DEF Gate!Name, Gate!disk
<1>2. 1 \in Gate!Names /\ Free(1) BY <1>1, OneName DEF GateOK, Uncopied
<1>3. target \in Gate!Names BY <1>2
<1> HIDE DEF target
<1>4. /\ GateMoves(g) /\ job'[g].step = "copy" /\ job'[g].inode = job[g].inode
      /\ job'[g].target \in Gate!Names
  BY <1>1, <1>3 DEF GateMoves, GateTypes, GateJob, GateSteps
<1>5. GateOK(g)' BY <1>1, <1>4 DEF GateOK, Opened, Held, Uncopied
<1>6. Gate!ArchiveKeepsAll' BY <1>1 DEF Gate!ArchiveKeepsAll
<1> QED BY <1>1, <1>4, <1>5, <1>6, GateStepOK DEF GateTypes

LEMMA CopyOK ==
  ASSUME Gate!GateRunAssumption, NEW g, Gates = {g}, GateInv(g), Gate!Copy(g)
  PROVE  GateInv(g)'
<1> USE DEF GateInv
<1> g \in Gate!Actors BY DEF Gate!Actors
<1> DEFINE n == job[g].target
<1>1. job[g].step = "copy" /\ UNCHANGED <<dir, inode, inodes, store, summary, reported, faults>>
  BY DEF Gate!Copy, Gate!disk
<1>2. CASE Gate!End(g) /\ Gate!Release(g) /\ UNCHANGED archive BY <1>1, <1>2, GateEndsOK DEF GateTypes
<1>3. CASE /\ archive' = [archive EXCEPT ![n] = [exists |-> TRUE, db |-> {}, summary |-> summary]]
           /\ Gate!Goto(g, IF job[g].inode = 0 THEN "remove" ELSE "backup")
           /\ UNCHANGED reserved
  <2>1. n \in Gate!Names /\ job[g].inode = inode /\ inode # 0 /\ reserved = g
    BY <1>1 DEF GateOK, Opened, Held
  <2>2. /\ GateMoves(g) /\ job'[g].step = "backup" /\ job'[g].inode = inode
        /\ job'[g].target = n
    BY <1>3, <2>1, GateGoes DEF GateSteps
  <2>3. archive' \in [Gate!Names -> Copied]
    <3>1. [exists |-> TRUE, db |-> {}, summary |-> summary] \in Copied BY DEF Copied, GateTypes
    <3> QED BY <1>3, <3>1 DEF GateTypes
  <2>4. \A m \in Gate!Names : archive[m].db = {} BY <1>1 DEF GateOK, Uncopied
  <2>5. \A m \in Gate!Names : archive'[m].db = {} BY <1>3, <2>1, <2>4 DEF GateTypes
  <2>6. GateOK(g)' BY <1>1, <1>3, <2>1, <2>2, <2>5 DEF GateOK, Opened, Held, Uncopied
  <2>7. Gate!ArchiveKeepsAll' BY <1>1, <2>4, <2>5 DEF Gate!ArchiveKeepsAll
  <2> QED BY <1>1, <1>3, <2>2, <2>3, <2>6, <2>7, GateStepOK DEF GateTypes
<1> QED BY <1>2, <1>3 DEF Gate!Copy

LEMMA BackupOK ==
  ASSUME Gate!GateRunAssumption, NEW g, Gates = {g}, GateInv(g), Gate!Backup(g)
  PROVE  GateInv(g)'
<1> USE DEF GateInv
<1> g \in Gate!Actors BY DEF Gate!Actors
<1> DEFINE n == job[g].target
<1>1. /\ job[g].step = "backup" /\ archive' = [archive EXCEPT ![n].db = store] /\ Gate!Goto(g, "remove")
      /\ UNCHANGED <<dir, inode, inodes, store, reserved, summary, reported, faults>>
  BY DEF Gate!Backup, Gate!disk
<1>2. n \in Gate!Names /\ job[g].inode = inode /\ inode # 0 /\ reserved = g
  BY <1>1 DEF GateOK, Opened, Held
<1>3. GateMoves(g) /\ job'[g].step = "remove" /\ job'[g].inode = inode /\ job'[g].target = n
  BY <1>1, <1>2, GateGoes DEF GateSteps
<1>4. archive' \in [Gate!Names -> Copied] BY <1>1, <1>2 DEF GateTypes, Copied
<1>5. archive'[n].db = store BY <1>1, <1>2 DEF GateTypes, Copied
<1>6. GateOK(g)' BY <1>1, <1>2, <1>3, <1>5 DEF GateOK, Opened, Held, Uncopied
<1>7. Gate!ArchiveKeepsAll'
  <2>1. \A m \in Gate!Names : archive[m].db = {} BY <1>1 DEF GateOK
  <2> QED BY <1>1, <2>1 DEF Gate!ArchiveKeepsAll
<1> QED BY <1>1, <1>3, <1>4, <1>6, <1>7, GateStepOK DEF GateTypes

(* What is removed is what the archive holds; a failed removal loses       *)
(* nothing.                                                                *)
LEMMA RemoveOK ==
  ASSUME Gate!GateRunAssumption, NEW g, Gates = {g}, GateInv(g), Gate!Remove(g)
  PROVE  GateInv(g)'
<1> USE DEF GateInv
<1> g \in Gate!Actors BY DEF Gate!Actors
<1>1. job[g].step = "remove" /\ Gate!Goto(g, "rewrite") /\ UNCHANGED <<archive, reported>> BY DEF Gate!Remove
<1>2. /\ job[g].target \in Gate!Names /\ job[g].inode = inode /\ inode # 0 /\ reserved = g
      /\ archive[job[g].target].db = store
  BY <1>1 DEF GateOK, Opened, Held
<1>3. GateMoves(g) /\ job'[g].step = "rewrite" /\ job'[g].target = job[g].target
  BY <1>1, GateGoes DEF GateSteps
<1>4. GateOK(g)' BY <1>1, <1>2, <1>3 DEF GateOK, Opened, Held, Uncopied
<1>5. CASE /\ dir' = FALSE /\ inode' = 0 /\ store' = {} /\ reserved' = Gate!Nobody /\ summary' = Gate!NoSummary
           /\ UNCHANGED <<inodes, faults>>
  <2>1. GateTypes'
    <3>1. Gate!NoSummary \in SummaryOf BY DEF SummaryOf, Gate!NoSummary
    <3>2. inode' \in 0..inodes' BY <1>5 DEF GateTypes
    <3> QED BY <1>1, <1>3, <1>5, <3>1, <3>2 DEF GateTypes, GateMoves
  <2>2. OneWriter'
    <3>1. \A q \in Gate!Actors : job'[q].step \in {"begin", "commit"} => job'[q] = job[q] BY <1>3 DEF GateMoves
    <3>2. \A q \in Gate!Actors : job'[q].step \in {"begin", "commit"} => job'[q].inode \in 1..inodes'
      BY <1>5, <3>1 DEF OneWriter
    <3>3. \A q \in Gate!Actors : job'[q].step = "commit" => job'[q].inode # inode'
      BY <1>5, <3>2 DEF GateTypes
    <3> QED BY <3>2, <3>3 DEF OneWriter
  <2>3. WritersOK' BY <1>3 DEF WritersOK, Gate!Actors, GateMoves, Gate!GateRunAssumption
  <2>4. NoFileIsEmpty' BY <1>5 DEF NoFileIsEmpty
  <2>5. Gate!ArchiveKeepsAll' BY <1>1, <1>2, <1>5 DEF Gate!ArchiveKeepsAll
  <2> QED BY <1>4, <2>1, <2>2, <2>3, <2>4, <2>5
<1>6. CASE Gate!Fault /\ Gate!Release(g) /\ summary' \in {summary, Gate!NoSummary} /\ UNCHANGED Gate!disk
  <2>1. UNCHANGED <<dir, inode, inodes, store>> BY <1>6 DEF Gate!disk
  <2>2. faults' \in Nat /\ reserved' \in Gate!Actors \cup {Gate!Nobody} BY <1>6, FaultIs, ReleaseIs
  <2>3. summary' \in SummaryOf /\ dir' \in BOOLEAN BY <1>6, <2>1 DEF GateTypes, SummaryOf, Gate!NoSummary
  <2>4. Gate!ArchiveKeepsAll' BY <1>1, <2>1 DEF Gate!ArchiveKeepsAll
  <2>5. \A q \in Gate!Actors \ {g} : reserved # q BY <1>2
  <2> QED BY <1>1, <1>3, <1>4, <2>1, <2>2, <2>3, <2>4, <2>5, GateStepOK DEF GateTypes
<1> QED BY <1>5, <1>6 DEF Gate!Remove

LEMMA RewriteOK ==
  ASSUME Gate!GateRunAssumption, NEW g, Gates = {g}, GateInv(g), Gate!Rewrite(g)
  PROVE  GateInv(g)'
<1> USE DEF GateInv
<1> g \in Gate!Actors BY DEF Gate!Actors
<1> DEFINE n == job[g].target
<1>1. /\ job[g].step = "rewrite" /\ archive' = [archive EXCEPT ![n].summary.at = n] /\ Gate!End(g)
      /\ UNCHANGED <<dir, inode, inodes, store, reserved, summary, reported, faults>>
  BY DEF Gate!Rewrite, Gate!disk
<1>2. n \in Gate!Names BY <1>1 DEF GateOK
<1>3. GateMoves(g) /\ job'[g].step = "done" BY <1>1, EndIs DEF GateMoves
<1>4. archive' \in [Gate!Names -> Copied] /\ \A m \in Gate!Names : archive'[m].db = archive[m].db
  BY <1>1, <1>2 DEF GateTypes, Copied, SummaryOf
<1>5. GateOK(g)' BY <1>3 DEF GateOK, Opened, Held, Uncopied
<1>6. Gate!ArchiveKeepsAll' BY <1>1, <1>4 DEF Gate!ArchiveKeepsAll
<1> QED BY <1>1, <1>3, <1>4, <1>5, <1>6, GateStepOK DEF GateTypes

-----------------------------------------------------------------------------
(* The theorem *)

LEMMA GateInitOK ==
  ASSUME Gate!GateRunAssumption, NEW g, Gates = {g}, Gate!Init
  PROVE  GateInv(g)
<1>1. Gate!New \in GateJob BY DEF Gate!New, GateJob, GateSteps
<1>2. Gate!NoSummary \in SummaryOf BY DEF Gate!NoSummary, SummaryOf
<1>3. Gate!NoArchive \in Copied BY <1>2 DEF Gate!NoArchive, Copied
<1>4. GateTypes
  <2>1. inode \in 0..inodes /\ inodes \in Nat /\ faults \in Nat BY DEF Gate!Init
  <2>2. dir \in BOOLEAN /\ store \in SUBSET Gate!Actors /\ reported \in SUBSET Gate!Actors BY DEF Gate!Init
  <2>3. reserved \in Gate!Actors \cup {Gate!Nobody} /\ summary \in SummaryOf BY <1>2 DEF Gate!Init
  <2>4. archive \in [Gate!Names -> Copied] /\ job \in [Gate!Actors -> GateJob] BY <1>1, <1>3 DEF Gate!Init
  <2> QED BY <2>1, <2>2, <2>3, <2>4 DEF GateTypes
<1>5. OneWriter BY DEF Gate!Init, OneWriter, Gate!New
<1>6. WritersOK BY DEF Gate!Init, WritersOK, Gate!New, Gate!Actors
<1>7. GateOK(g) BY DEF Gate!Init, GateOK, Gate!New, Gate!NoArchive, Opened, Held, Uncopied, Gate!Actors
<1>8. Gate!ArchiveKeepsAll /\ NoFileIsEmpty BY DEF Gate!Init, Gate!ArchiveKeepsAll, NoFileIsEmpty
<1> QED BY <1>4, <1>5, <1>6, <1>7, <1>8 DEF GateInv

LEMMA GateNextOK ==
  ASSUME Gate!GateRunAssumption, NEW g, Gates = {g}, GateInv(g), [Gate!Next]_(Gate!vars)
  PROVE  GateInv(g)'
<1>1. CASE UNCHANGED Gate!vars
  BY <1>1 DEF Gate!vars, GateInv, GateTypes, OneWriter, WritersOK, NoFileIsEmpty, GateOK, Gate!ArchiveKeepsAll
<1>2. CASE \E p \in Gate!Actors : Gate!Open(p) \/ Gate!Begin(p) \/ Gate!Commit(p) \/ Gate!Crash(p)
  BY <1>2, OpenOK, BeginOK, CommitOK, CrashOK
<1>3. CASE \/ Gate!StackFails(g) \/ Gate!WriteStackArtifacts(g) \/ Gate!WriteArtifacts(g) \/ Gate!Archive(g)
           \/ Gate!Reserve(g) \/ Gate!Name(g) \/ Gate!Copy(g) \/ Gate!Backup(g) \/ Gate!Remove(g) \/ Gate!Rewrite(g)
  BY <1>3, StackFailsOK, WriteStackArtifactsOK, WriteArtifactsOK, ArchiveOK, ReserveOK, NameOK,
     CopyOK, BackupOK, RemoveOK, RewriteOK
<1> QED BY <1>1, <1>2, <1>3 DEF Gate!Next

(* archive_and_clean_workspace with one gate: a commit that was reported   *)
(* as done is in the workspace's store or in the archive's, however many   *)
(* commands write meanwhile and wherever the gate dies.  The run           *)
(* archive_loses shows that the hypothesis is needed: a second gate        *)
(* archives from a file that the first one has removed.                    *)
THEOREM OneGateKeeps ==
  ASSUME Cardinality(Gates) = 1
  PROVE  Spec => []ArchiveKeepsAll
<1>1. Gate!GateRunAssumption BY WorkspaceAssumption
<1>2. IsFiniteSet(Gates) BY <1>1 DEF Gate!GateRunAssumption, Gate!IsFiniteSet, IsFiniteSet
<1>3. PICK g : Gates = {g} BY <1>2, FS_Singleton
<1>4. Init => (subject = "gate" => GateInv(g)) BY <1>1, <1>3, GateInitOK DEF Init
<1>5. (subject = "gate" => GateInv(g)) /\ [Next]_vars => (subject = "gate" => GateInv(g))'
  <2> SUFFICES ASSUME subject = "gate" => GateInv(g), [Next]_vars, subject' = "gate" PROVE GateInv(g)'
    OBVIOUS
  <2>1. subject = "gate" /\ GateInv(g) BY DEF Next, vars
  <2>2. CASE Gate!Next BY <1>1, <1>3, <2>1, <2>2, GateNextOK
  <2>3. CASE UNCHANGED vars
    <3>1. UNCHANGED Gate!vars BY <2>3 DEF vars, OfGate, Gate!vars
    <3> QED BY <1>1, <1>3, <2>1, <3>1, GateNextOK
  <2> QED BY <2>1, <2>2, <2>3 DEF Next
<1>6. (subject = "gate" => GateInv(g)) => ArchiveKeepsAll BY DEF GateInv, ArchiveKeepsAll
<1> QED BY <1>4, <1>5, <1>6, PTL DEF Spec
=============================================================================
