------------------------------- MODULE Leases -------------------------------
(***************************************************************************)
(* Leases on work items (core/leases.py, core/agent_protocol_leases.py):   *)
(* their statuses, when one may be claimed beside others, what ends them,  *)
(* and the claim marker the store derives from them for every item.  The   *)
(* operators are pure functions of a lease map L and an item map I; the    *)
(* modules of the commands apply them inside their transactions.           *)
(***************************************************************************)
EXTENDS Naturals, FiniteSets

CONSTANTS
  Items,        \* work items of the session
  Thread,       \* the items that are GitHub review threads (item_kind)
  Agents,       \* agent ids
  LeaseIds,     \* uuids available to new leases
  NoId,         \* the absent lease or agent id
  KeyOverlap,   \* [Items \X Items -> {"none", "file", "other"}]: ConflictKeys!OverlapKind
  TTL           \* lease lifetime (ttl_seconds)

ASSUME ItemsAssumption == Items # {} /\ Thread \subseteq Items
ASSUME NoIdAssumption == NoId \notin LeaseIds /\ NoId \notin Agents
ASSUME OverlapAssumption ==
  /\ KeyOverlap \in [Items \X Items -> {"none", "file", "other"}]
  /\ \A i, j \in Items : KeyOverlap[<<i, j>>] = KeyOverlap[<<j, i>>]

AllRoles == {"fixer", "triage", "verifier"}
ReadOnlyRoles == {"triage", "verifier"}
Ids == LeaseIds \cup {NoId}

(* "submitted" is never at rest (submit and accept are one call) and no    *)
(* operation writes "rejected"; "none" is an id not yet used.              *)
TerminalStatuses == {"accepted", "expired", "released"}
Lease == [st : {"none", "active"} \cup TerminalStatuses, item : Items,
          agent : Agents \cup {NoId}, role : AllRoles, exp : Nat, bind : Nat]

(* fixed / clarified / deferred / rejected local findings are "handled";   *)
(* a published thread is "closed".                                         *)
HandledStates == {"publish_ready", "handled", "closed"}

-----------------------------------------------------------------------------
IsActive(L, l) == L[l].st = "active"
ActiveOn(L, i) == {l \in LeaseIds : IsActive(L, l) /\ L[l].item = i}

(* Mutant: a lease still counts as valid at the instant it expires. *)
IsExpiredLate(lease, now) == lease.exp < now

(* _is_expired: the instant of expiry already counts as expired. *)
IsExpired(lease, now) == lease.exp <= now

(* expire_leases *)
ExpireLeases(L, now) ==
  [l \in LeaseIds |-> IF IsActive(L, l) /\ IsExpired(L[l], now)
                      THEN [L[l] EXCEPT !.st = "expired"] ELSE L[l]]

(* _derive_item_claim_projection, applied to every load and every write: a *)
(* claim marker without an active lease falls back to the claimable state, *)
(* and an active lease overrides whatever state the item had.              *)
Project(I, L) ==
  [i \in Items |->
     IF ActiveOn(L, i) = {}
     THEN [I[i] EXCEPT !.state = IF @ = "claimed" THEN "open" ELSE @, !.owner = NoId]
     ELSE [I[i] EXCEPT !.state = "claimed", !.owner = CHOOSE l \in ActiveOn(L, i) : TRUE]]

(* _item_is_open and _next_item *)
ItemIsOpen(item) == item.state = "open"
Eligible(I, L, i) == ActiveOn(L, i) = {} /\ ItemIsOpen(I[i])

(* active_fixer_lease_for_item, as a set of at most one lease *)
OwnFixerLeases(L, i, a) ==
  {l \in ActiveOn(L, i) : L[l].role = "fixer" /\ L[l].agent = a}
FirstOrNone(S) == IF S = {} THEN NoId ELSE CHOOSE l \in S : TRUE

(* Two claims may stand together: claim_lease's exemptions, read-only      *)
(* roles and _same_agent_github_thread_file_overlap_allowed.               *)
Compatible(i, a, r, other) ==
  LET overlap == KeyOverlap[<<i, other.item>>]
  IN  \/ overlap = "none"
      \/ r \in ReadOnlyRoles /\ other.role \in ReadOnlyRoles
      \/ /\ overlap = "file"
         /\ r = "fixer" /\ other.role = "fixer"
         /\ other.agent = a
         /\ i \in Thread /\ other.item \in Thread

(* Mutants: the item's own lease is not looked for; an agent is never in   *)
(* conflict with itself.                                                   *)
CanClaimLeasedItem(L, i, a, r) ==
  \A l \in LeaseIds : IsActive(L, l) => Compatible(i, a, r, L[l])
CanClaimOwnOverlap(L, i, a, r) ==
  /\ ActiveOn(L, i) = {}
  /\ \A l \in LeaseIds : IsActive(L, l) /\ L[l].agent # a => Compatible(i, a, r, L[l])

(* claim_lease: its two refusals, ITEM_ALREADY_LEASED and                  *)
(* CONFLICT_KEYS_OVERLAP, over the leases that are left after expiry.      *)
CanClaim(L, i, a, r) ==
  /\ ActiveOn(L, i) = {}
  /\ \A l \in LeaseIds : IsActive(L, l) => Compatible(i, a, r, L[l])

NewLease(i, a, r, now, bind) ==
  [st |-> "active", item |-> i, agent |-> a, role |-> r, exp |-> now + TTL, bind |-> bind]

(* Mutant: the reserved status "rejected" is written. *)
CloseRejected(L, l, status) == [L EXCEPT ![l].st = "rejected"]

(* release_lease and accept_lease on an active lease *)
Close(L, l, status) == [L EXCEPT ![l].st = status]

(* Mutant: the status of the lease is not looked at. *)
IrrecoverableAny(L, l) == Close(L, l, "released")

(* release_irrecoverable_request_lease: the item is returned to claimable  *)
(* unless its claim marker names another lease; a lease that is already    *)
(* terminal is left alone but its item is returned all the same.           *)
IrrecoverableLeases(L, l) == IF IsActive(L, l) THEN Close(L, l, "released") ELSE L
IrrecoverableItems(I, L, l) ==
  LET i == L[l].item
  IN  IF I[i].owner \notin {NoId, l} THEN I
      ELSE [I EXCEPT ![i].state = "open", ![i].owner = NoId]

(* apply_response_to_item, and the verifier's rejection that reopens. *)
ResponseState(lease, res) ==
  IF lease.role = "verifier" /\ res = "reject" THEN "open"
  ELSE IF lease.item \in Thread THEN "publish_ready" ELSE "handled"
ApplyResponse(I, lease, res) ==
  [I EXCEPT ![lease.item].state = ResponseState(lease, res)]
=============================================================================
