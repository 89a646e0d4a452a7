----------------------------- MODULE LeaseTable -----------------------------
(***************************************************************************)
(* What the lease protocol promises to an outside observer: a table that   *)
(* names at most one holder per item.  One commit may free any number of   *)
(* items (expiry is collective) and then grant at most one item, free by   *)
(* then, to a lease id never used before.  AgentProtocol implements this.  *)
(***************************************************************************)
CONSTANTS Items, LeaseIds, NoId

VARIABLES
  holder,   \* [Items -> LeaseIds \cup {NoId}]
  used      \* the lease ids ever granted

Init == holder = [i \in Items |-> NoId] /\ used = {}

Freed(gone) == [i \in Items |-> IF i \in gone THEN NoId ELSE holder[i]]

Free(gone) == holder' = Freed(gone) /\ used' = used

Grant(gone, i, l) ==
  /\ Freed(gone)[i] = NoId
  /\ l \notin used
  /\ holder' = [Freed(gone) EXCEPT ![i] = l]
  /\ used' = used \cup {l}

Next ==
  \E gone \in SUBSET Items :
    \/ Free(gone)
    \/ \E i \in Items, l \in LeaseIds : Grant(gone, i, l)

Spec == Init /\ [][Next]_<<holder, used>>
=============================================================================
