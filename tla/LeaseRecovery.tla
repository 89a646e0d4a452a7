---------------------------- MODULE LeaseRecovery ----------------------------
(***************************************************************************)
(* What a command refused over a lease tells its agent to do next          *)
(* (core/leases.py, calculate_lease_recovery_state): a pure function of    *)
(* the lease, its item and the caller, written into the error, the lease   *)
(* event and agent leases.                                                 *)
(***************************************************************************)
EXTENDS Leases

(* Mutant: whom the item belongs to by now is not looked at. *)
TakenOverNever(I, L, l) == FALSE

(* The item's active_lease_id and claimed_by name another lease. *)
TakenOver(I, L, l) == I[L[l].item].owner \notin {NoId, l}

(* _evaluate_lease_recovery_outcome, in the order of its checks; same says *)
(* that the caller's request is the one the lease was granted for.         *)
RecoveryOutcome(I, L, l, a, r, same, now) ==
  LET lease == L[l]
      item == I[lease.item]
  IN  CASE item.state \in {"handled", "closed"} \/ lease.st = "accepted" -> "already_completed"
        [] OTHER ->
      CASE lease.agent # a \/ lease.role # r \/ TakenOver(I, L, l) -> "stop"
        [] OTHER ->
      CASE lease.st = "active" /\ ~same -> "refresh_state"
        [] lease.st = "active" /\ same /\ IsExpired(lease, now) -> "renew"
        [] lease.st = "active" /\ same /\ ~IsExpired(lease, now) -> "active"
        [] lease.st = "expired" /\ item.state \in {"open", "claimed"} -> "reclaim"
        [] lease.st = "released" -> IF item.state = "open" THEN "reclaim" ELSE "refresh_state"
        [] OTHER -> "stop"

(* calculate_lease_recovery_state, for the caller whose lease it was. *)
Recovery(I, L, l, same, now) == RecoveryOutcome(I, L, l, L[l].agent, L[l].role, same, now)

(* _lease_recovery_command_for: an agent whose lease is still good submits *)
(* under it, the other ways back go through agent next --item-id.          *)
AdvisedCommand(outcome) ==
  CASE outcome \in {"reclaim", "refresh_state", "renew"} -> "next"
    [] outcome = "active" -> "submit"
    [] OTHER -> "none"

(* What agent next --item-id finds: expire_leases runs first. *)
WouldFind(I, L, l, now) ==
  LET after == ExpireLeases(L, now)
  IN  Eligible(Project(I, after), after, L[l].item)

(* reclaim_lease: claim_lease after expire_leases. *)
WouldBeGranted(I, L, l, now) ==
  WouldFind(I, L, l, now) /\ CanClaim(ExpireLeases(L, now), L[l].item, L[l].agent, L[l].role)
=============================================================================
