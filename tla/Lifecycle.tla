------------------------------ MODULE Lifecycle ------------------------------
(***************************************************************************)
(* The persisted lifecycle of a transaction: the states of                 *)
(* vsh_types::TransactionState and the edges of                            *)
(* TransactionState::can_transition_to.  Every other module takes the      *)
(* lifecycle from here.                                                    *)
(***************************************************************************)
EXTENDS Naturals

States ==
  {"Created", "Running", "VirtualComplete", "Denied", "AutoApproved",
   "PendingApproval", "Rejected", "Approved", "Reserved", "Revalidating",
   "Committing", "Committed", "Stale", "Expired", "RecoveryRequired", "Failed"}

Successors(s) ==
  CASE s = "Created"          -> {"Running"}
    [] s = "Running"          -> {"VirtualComplete", "Failed"}
    [] s = "VirtualComplete"  -> {"Denied", "AutoApproved", "PendingApproval", "Failed"}
    [] s = "PendingApproval"  -> {"Approved", "Denied", "Rejected", "Expired", "Failed"}
    [] s = "AutoApproved"     -> {"PendingApproval", "Rejected", "Reserved"}
    [] s = "Approved"         -> {"Reserved", "Expired"}
    [] s = "Reserved"         -> {"Revalidating", "Failed"}
    [] s = "Revalidating"     -> {"Committing", "Stale", "Failed"}
    [] s = "Committing"       -> {"Committed", "RecoveryRequired"}
    [] s = "RecoveryRequired" -> {"Committed", "Failed"}
    [] OTHER                  -> {}

CanTransitionTo(s, next) == next \in Successors(s)

IsTerminal(s) ==
  s \in {"Denied", "Rejected", "Committed", "Stale", "Expired", "Failed"}

-----------------------------------------------------------------------------
(* The states a transaction reaches only after its single-use commit        *)
(* reservation was consumed, Failed apart (a run can also fail before).     *)
Consumed ==
  {"Reserved", "Revalidating", "Committing", "Committed", "Stale",
   "RecoveryRequired"}

(* Distance from Created along the edges: every edge climbs, so no sequence *)
(* of legal transitions returns to a state it left.                         *)
Rank(s) ==
  CASE s = "Created"          -> 0
    [] s = "Running"          -> 1
    [] s = "VirtualComplete"  -> 2
    [] s = "AutoApproved"     -> 3
    [] s = "PendingApproval"  -> 4
    [] s = "Approved"         -> 5
    [] s = "Reserved"         -> 6
    [] s = "Revalidating"     -> 7
    [] s = "Committing"       -> 8
    [] s = "RecoveryRequired" -> 9
    [] OTHER                  -> 10
=============================================================================
