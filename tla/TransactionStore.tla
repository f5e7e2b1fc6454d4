--------------------------- MODULE TransactionStore ---------------------------
(***************************************************************************)
(* What a transaction store promises: the four state-changing operations   *)
(* of the TransactionStore trait, as MemoryTransactionStore performs them  *)
(* under its mutex.  A call that returns an error changes nothing, save    *)
(* reserve on an expired grant.  The durable store (FileStore) implements  *)
(* this specification, and the runtime and the committer are its callers.  *)
(*                                                                         *)
(* wins, wonAt and reviewed are history: how many CommitReservation values *)
(* were issued for a transaction, the caller's clock when the last one     *)
(* was, and which transactions were ever put before a reviewer.            *)
(***************************************************************************)
EXTENDS Lifecycle

CONSTANTS Txn,         \* transaction identities
          Principal,   \* approving principals
          Time,        \* the callers' clocks, in Unix milliseconds
          NoGrant      \* approval: None

ASSUME TimeAssumption == Time \subseteq Nat

VARIABLES state,       \* state[t]: the record's state; "Absent" when there is none
          approval,    \* approval[t]: the record's ApprovalGrant, or NoGrant
          wins,        \* reservations issued for t
          wonAt,       \* the clock of the last one
          reviewed     \* transactions that were ever PendingApproval

vars == <<state, approval, wins, wonAt, reviewed>>

GrantInput ==
  [principal : Principal, transaction : Txn, issued : Time, expires : Time]

(* ApprovalGrant::new refuses a window that does not end after it starts.   *)
ValidWindow(g) == g.issued < g.expires

Grant == {g \in GrantInput : g.issued < g.expires}

ASSUME NoGrantAssumption == NoGrant \notin Grant

TypeOK ==
  /\ state \in [Txn -> States \cup {"Absent"}]
  /\ approval \in [Txn -> Grant \cup {NoGrant}]
  /\ wins \in [Txn -> Nat]
  /\ wonAt \in [Txn -> Nat]
  /\ reviewed \subseteq Txn

(* The states Runtime::policy_record and Runtime::ephemeral_record reach in *)
(* memory before the record is first stored.                                *)
CreatedIn == {"Denied", "AutoApproved", "PendingApproval"}

(* The pairs (expected, next) that the committer and the runtime pass to    *)
(* compare_and_transition.                                                  *)
CallerEdges ==
  {<<"AutoApproved", "PendingApproval">>, <<"AutoApproved", "Rejected">>,
   <<"PendingApproval", "Rejected">>, <<"Reserved", "Revalidating">>,
   <<"Reserved", "Failed">>, <<"Revalidating", "Committing">>,
   <<"Revalidating", "Stale">>, <<"Revalidating", "Failed">>,
   <<"Committing", "Committed">>, <<"Committing", "RecoveryRequired">>,
   <<"RecoveryRequired", "Committed">>, <<"RecoveryRequired", "Failed">>}

Init ==
  /\ state = [t \in Txn |-> "Absent"]
  /\ approval = [t \in Txn |-> NoGrant]
  /\ wins = [t \in Txn |-> 0]
  /\ wonAt = [t \in Txn |-> 0]
  /\ reviewed = {}

-----------------------------------------------------------------------------
Demanded(t, next) == IF next = "PendingApproval" THEN reviewed \cup {t} ELSE reviewed

Create(t, s) ==
  /\ state[t] = "Absent"
  /\ state' = [state EXCEPT ![t] = s]
  /\ reviewed' = Demanded(t, s)
  /\ UNCHANGED <<approval, wins, wonAt>>

(* Mutation: the transition is made without comparing the current state.    *)
TransitionUncompared(t, expected, next) ==
  /\ state[t] # "Absent"
  /\ state' = [state EXCEPT ![t] = next]
  /\ reviewed' = Demanded(t, next)
  /\ UNCHANGED <<approval, wins, wonAt>>

CompareAndTransition(t, expected, next) ==
  /\ state[t] = expected
  /\ CanTransitionTo(expected, next)
  /\ state' = [state EXCEPT ![t] = next]
  /\ reviewed' = Demanded(t, next)
  /\ UNCHANGED <<approval, wins, wonAt>>

(* Mutation: neither the grant's window nor the record's state is checked.  *)
ApproveUnchecked(t, g) ==
  /\ g.transaction = t
  /\ state[t] # "Absent"
  /\ state' = [state EXCEPT ![t] = "Approved"]
  /\ approval' = [approval EXCEPT ![t] = g]
  /\ UNCHANGED <<wins, wonAt, reviewed>>

Approve(t, g) ==
  /\ ValidWindow(g)
  /\ g.transaction = t
  /\ state[t] = "PendingApproval"
  /\ state' = [state EXCEPT ![t] = "Approved"]
  /\ approval' = [approval EXCEPT ![t] = g]
  /\ UNCHANGED <<wins, wonAt, reviewed>>

(* Mutation: the expiry instant itself still counts as inside the window.   *)
IsExpiredAfter(g, now) == now > g.expires

IsExpiredAt(g, now) == now >= g.expires

Reservable(t, now) ==
  \/ state[t] = "AutoApproved"
  \/ /\ state[t] = "Approved"
     /\ approval[t] # NoGrant
     /\ ~IsExpiredAt(approval[t], now)

Reserve(t, now) ==
  /\ Reservable(t, now)
  /\ state' = [state EXCEPT ![t] = "Reserved"]
  /\ wins' = [wins EXCEPT ![t] = @ + 1]
  /\ wonAt' = [wonAt EXCEPT ![t] = now]
  /\ UNCHANGED <<approval, reviewed>>

(* The other outcome of reserve: ApprovalExpired is returned and the record *)
(* is Expired from then on.                                                 *)
ReserveExpired(t, now) ==
  /\ state[t] = "Approved"
  /\ approval[t] # NoGrant
  /\ IsExpiredAt(approval[t], now)
  /\ state' = [state EXCEPT ![t] = "Expired"]
  /\ UNCHANGED <<approval, wins, wonAt, reviewed>>

Next ==
  \E t \in Txn :
    \/ \E s \in CreatedIn : Create(t, s)
    \/ \E e \in CallerEdges : CompareAndTransition(t, e[1], e[2])
    \/ \E g \in GrantInput : Approve(t, g)
    \/ \E now \in Time : Reserve(t, now) \/ ReserveExpired(t, now)

Spec == Init /\ [][Next]_vars

-----------------------------------------------------------------------------
(* A transaction gets its commit reservation at most once, and every state  *)
(* behind the reservation was reached through one: nothing a caller may     *)
(* pass to compare_and_transition leads back in front of reserve, or past   *)
(* it (docs: "the same transaction cannot be committed twice").             *)
SingleUse ==
  \A t \in Txn : wins[t] <= 1 /\ (state[t] \in Consumed => wins[t] = 1)

(* A transaction that was ever put before a reviewer, because the policy    *)
(* asked or because an automatic approval was withdrawn, is reserved only   *)
(* under a grant for that very transaction that had not expired on the      *)
(* reserving caller's clock.                                                *)
ReviewedNeedsLiveGrant ==
  \A t \in reviewed :
    wins[t] > 0 =>
      /\ approval[t] # NoGrant
      /\ approval[t].transaction = t
      /\ wonAt[t] < approval[t].expires

(* Terminal states are never left, a record never disappears, and a grant   *)
(* once bound is neither replaced nor dropped, whatever the callers race.   *)
Forward ==
  [][\A t \in Txn :
       /\ IsTerminal(state[t]) => state'[t] = state[t]
       /\ state[t] # "Absent" => state'[t] # "Absent"
       /\ approval[t] # NoGrant => approval'[t] = approval[t]]_vars
=============================================================================
