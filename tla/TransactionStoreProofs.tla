------------------------ MODULE TransactionStoreProofs ------------------------
(***************************************************************************)
(* For any number of transactions, principals and clock values: the type   *)
(* invariant, the single-use reservation, the live grant behind every      *)
(* reviewed reservation, and the one-way lifecycle of TransactionStore.    *)
(***************************************************************************)
EXTENDS TransactionStore, TLAPS

(* What makes SingleUse inductive: nothing was issued while the record can  *)
(* still be reserved.                                                       *)
Unconsumed == {"Absent", "AutoApproved", "PendingApproval", "Approved"}

UseInv ==
  \A t \in Txn :
    /\ state[t] \in Unconsumed => wins[t] = 0
    /\ wins[t] <= 1
    /\ state[t] \in Consumed => wins[t] = 1

(* What makes ReviewedNeedsLiveGrant inductive: review is never undone, and *)
(* a grant appears only behind it, bound to its own transaction.            *)
ReviewInv ==
  \A t \in Txn :
    /\ state[t] = "PendingApproval" => t \in reviewed
    /\ t \in reviewed => state[t] \notin {"Absent", "AutoApproved"}
    /\ approval[t] # NoGrant =>
         /\ approval[t].transaction = t
         /\ state[t] \notin {"Absent", "AutoApproved", "PendingApproval"}

-----------------------------------------------------------------------------
(* Every edge of can_transition_to climbs in rank: no path of legal         *)
(* transitions visits a state twice.                                        *)
THEOREM EdgesClimb ==
  ASSUME NEW s \in States, NEW n \in States, CanTransitionTo(s, n)
  PROVE  Rank(s) < Rank(n)
BY DEF States, CanTransitionTo, Successors, Rank

(* is_terminal and can_transition_to agree: exactly the terminal states     *)
(* have no successor.                                                       *)
THEOREM TerminalIffStuck ==
  ASSUME NEW s \in States
  PROVE  IsTerminal(s) <=> ~ \E n \in States : CanTransitionTo(s, n)
<1>1. IsTerminal(s) => ~ \E n \in States : CanTransitionTo(s, n)
  BY DEF States, IsTerminal, CanTransitionTo, Successors
<1>2. ~ IsTerminal(s) => Successors(s) \cap States # {}
  BY DEF States, IsTerminal, Successors
<1> QED
  BY <1>1, <1>2 DEF CanTransitionTo

LEMMA EdgesAreStates ==
  ASSUME NEW s, NEW n, CanTransitionTo(s, n)
  PROVE  n \in States /\ s \in States
BY DEF States, CanTransitionTo, Successors

-----------------------------------------------------------------------------
LEMMA TypeInit == Init => TypeOK
BY DEF Init, TypeOK

LEMMA TypeStep == TypeOK /\ [Next]_vars => TypeOK'
<1> SUFFICES ASSUME TypeOK, [Next]_vars PROVE TypeOK'
  OBVIOUS
<1>1. ASSUME NEW t \in Txn, NEW s \in CreatedIn, Create(t, s) PROVE TypeOK'
  BY <1>1 DEF TypeOK, Create, CreatedIn, States, Demanded
<1>2. ASSUME NEW t \in Txn, NEW e \in CallerEdges, CompareAndTransition(t, e[1], e[2])
      PROVE  TypeOK'
  <2>1. e[2] \in States
    BY <1>2, EdgesAreStates DEF CompareAndTransition
  <2> QED
    BY <1>2, <2>1 DEF TypeOK, CompareAndTransition, Demanded
<1>3. ASSUME NEW t \in Txn, NEW g \in GrantInput, Approve(t, g) PROVE TypeOK'
  <2>1. g \in Grant
    BY <1>3 DEF Approve, ValidWindow, Grant
  <2> QED
    BY <1>3, <2>1 DEF TypeOK, Approve, States
<1>4. ASSUME NEW t \in Txn, NEW now \in Time, Reserve(t, now) PROVE TypeOK'
  BY <1>4, TimeAssumption DEF TypeOK, Reserve, States
<1>5. ASSUME NEW t \in Txn, NEW now \in Time, ReserveExpired(t, now) PROVE TypeOK'
  BY <1>5 DEF TypeOK, ReserveExpired, States
<1>6. CASE UNCHANGED vars
  BY <1>6 DEF TypeOK, vars
<1> QED
  BY <1>1, <1>2, <1>3, <1>4, <1>5, <1>6 DEF Next

(* Every reachable store holds well-formed records with well-formed grants. *)
THEOREM TypeCorrect == Spec => []TypeOK
<1>1. Init => TypeOK
  BY TypeInit
<1>2. TypeOK /\ [Next]_vars => TypeOK'
  BY TypeStep
<1> QED
  BY <1>1, <1>2, PTL DEF Spec

-----------------------------------------------------------------------------
LEMMA UseStep == TypeOK /\ UseInv /\ [Next]_vars => UseInv'
<1> SUFFICES ASSUME TypeOK, UseInv, [Next]_vars PROVE UseInv'
  OBVIOUS
<1> USE DEF TypeOK, UseInv, Unconsumed, Consumed
<1>1. ASSUME NEW t \in Txn, NEW s \in CreatedIn, Create(t, s) PROVE UseInv'
  BY <1>1 DEF Create, CreatedIn
<1>2. ASSUME NEW t \in Txn, NEW e \in CallerEdges, CompareAndTransition(t, e[1], e[2])
      PROVE  UseInv'
  <2>1. /\ e[1] \in Unconsumed => e[2] \notin Consumed
        /\ e[2] \in Unconsumed => e[1] \in Unconsumed
        /\ e[2] \in Consumed => e[1] \in Consumed
    BY <1>2 DEF CallerEdges
  <2> QED
    BY <1>2, <2>1 DEF CompareAndTransition
<1>3. ASSUME NEW t \in Txn, NEW g \in GrantInput, Approve(t, g) PROVE UseInv'
  BY <1>3 DEF Approve
<1>4. ASSUME NEW t \in Txn, NEW now \in Time, Reserve(t, now) PROVE UseInv'
  BY <1>4 DEF Reserve, Reservable
<1>5. ASSUME NEW t \in Txn, NEW now \in Time, ReserveExpired(t, now) PROVE UseInv'
  BY <1>5 DEF ReserveExpired
<1>6. CASE UNCHANGED vars
  BY <1>6 DEF vars
<1> QED
  BY <1>1, <1>2, <1>3, <1>4, <1>5, <1>6 DEF Next

(* At most one reservation is ever issued for a transaction, and no state   *)
(* behind the reservation exists without one.                               *)
THEOREM ReservedOnce == Spec => []SingleUse
<1>1. Init => UseInv
  BY DEF Init, UseInv, Unconsumed, Consumed
<1>2. TypeOK /\ UseInv /\ [Next]_vars => UseInv'
  BY UseStep
<1>3. UseInv => SingleUse
  BY DEF UseInv, SingleUse
<1> QED
  BY <1>1, <1>2, <1>3, TypeCorrect, PTL DEF Spec

-----------------------------------------------------------------------------
LEMMA ReviewStep == TypeOK /\ ReviewInv /\ [Next]_vars => ReviewInv'
<1> SUFFICES ASSUME TypeOK, ReviewInv, [Next]_vars PROVE ReviewInv'
  OBVIOUS
<1> USE DEF TypeOK, ReviewInv, Demanded
<1>1. ASSUME NEW t \in Txn, NEW s \in CreatedIn, Create(t, s) PROVE ReviewInv'
  BY <1>1 DEF Create, CreatedIn
<1>2. ASSUME NEW t \in Txn, NEW e \in CallerEdges, CompareAndTransition(t, e[1], e[2])
      PROVE  ReviewInv'
  <2>1. /\ e[2] \notin {"Absent", "AutoApproved"}
        /\ e[2] = "PendingApproval" => e[1] = "AutoApproved"
    BY <1>2 DEF CallerEdges
  <2> QED
    BY <1>2, <2>1 DEF CompareAndTransition
<1>3. ASSUME NEW t \in Txn, NEW g \in GrantInput, Approve(t, g) PROVE ReviewInv'
  BY <1>3 DEF Approve
<1>4. ASSUME NEW t \in Txn, NEW now \in Time, Reserve(t, now) PROVE ReviewInv'
  BY <1>4 DEF Reserve
<1>5. ASSUME NEW t \in Txn, NEW now \in Time, ReserveExpired(t, now) PROVE ReviewInv'
  BY <1>5 DEF ReserveExpired
<1>6. CASE UNCHANGED vars
  BY <1>6 DEF vars
<1> QED
  BY <1>1, <1>2, <1>3, <1>4, <1>5, <1>6 DEF Next

LEMMA LiveGrantStep ==
  /\ TypeOK /\ UseInv /\ ReviewInv /\ ReviewedNeedsLiveGrant
  /\ [Next]_vars
  => ReviewedNeedsLiveGrant'
<1> SUFFICES ASSUME TypeOK, UseInv, ReviewInv, ReviewedNeedsLiveGrant, [Next]_vars
             PROVE  ReviewedNeedsLiveGrant'
  OBVIOUS
<1> USE DEF TypeOK, ReviewedNeedsLiveGrant, Demanded
<1>1. ASSUME NEW t \in Txn, NEW s \in CreatedIn, Create(t, s)
      PROVE  ReviewedNeedsLiveGrant'
  BY <1>1 DEF Create, UseInv, Unconsumed
<1>2. ASSUME NEW t \in Txn, NEW e \in CallerEdges, CompareAndTransition(t, e[1], e[2])
      PROVE  ReviewedNeedsLiveGrant'
  <2>1. e[2] = "PendingApproval" => e[1] = "AutoApproved"
    BY <1>2 DEF CallerEdges
  <2> QED
    BY <1>2, <2>1 DEF CompareAndTransition, UseInv, Unconsumed
<1>3. ASSUME NEW t \in Txn, NEW g \in GrantInput, Approve(t, g)
      PROVE  ReviewedNeedsLiveGrant'
  BY <1>3 DEF Approve, UseInv, Unconsumed
<1>4. ASSUME NEW t \in Txn, NEW now \in Time, Reserve(t, now)
      PROVE  ReviewedNeedsLiveGrant'
  <2>1. t \in reviewed =>
          /\ approval[t] \in Grant
          /\ approval[t].transaction = t
          /\ ~ (now >= approval[t].expires)
    BY <1>4 DEF Reserve, Reservable, IsExpiredAt, ReviewInv
  <2>2. \A g \in Grant : g.expires \in Nat
    BY TimeAssumption DEF Grant, GrantInput
  <2>3. t \in reviewed => now < approval[t].expires
    <3>1. now \in Nat
      BY TimeAssumption
    <3>2. \A n \in Nat : ~ (now >= n) => now < n
      BY <3>1
    <3> QED
      BY <2>1, <2>2, <3>2
  <2> QED
    BY <1>4, <2>1, <2>3 DEF Reserve, ReviewInv, Reservable
<1>5. ASSUME NEW t \in Txn, NEW now \in Time, ReserveExpired(t, now)
      PROVE  ReviewedNeedsLiveGrant'
  BY <1>5 DEF ReserveExpired
<1>6. CASE UNCHANGED vars
  BY <1>6 DEF vars
<1> QED
  BY <1>1, <1>2, <1>3, <1>4, <1>5, <1>6 DEF Next

(* A reviewed transaction is reserved only under a grant that names it and  *)
(* had not expired.                                                         *)
THEOREM ReviewIsBinding == Spec => []ReviewedNeedsLiveGrant
<1>1. Init => UseInv /\ ReviewInv /\ ReviewedNeedsLiveGrant
  BY DEF Init, UseInv, ReviewInv, ReviewedNeedsLiveGrant, Unconsumed, Consumed
<1>2. TypeOK /\ UseInv /\ [Next]_vars => UseInv'
  BY UseStep
<1>3. TypeOK /\ ReviewInv /\ [Next]_vars => ReviewInv'
  BY ReviewStep
<1>4. TypeOK /\ UseInv /\ ReviewInv /\ ReviewedNeedsLiveGrant /\ [Next]_vars
      => ReviewedNeedsLiveGrant'
  BY LiveGrantStep
<1> QED
  BY <1>1, <1>2, <1>3, <1>4, TypeCorrect, PTL DEF Spec

-----------------------------------------------------------------------------
LEMMA ForwardStep ==
  TypeOK /\ ReviewInv /\ [Next]_vars =>
    \A t \in Txn :
      /\ IsTerminal(state[t]) => state'[t] = state[t]
      /\ state[t] # "Absent" => state'[t] # "Absent"
      /\ approval[t] # NoGrant => approval'[t] = approval[t]
<1> SUFFICES ASSUME TypeOK, ReviewInv, [Next]_vars, NEW t \in Txn
             PROVE  /\ IsTerminal(state[t]) => state'[t] = state[t]
                    /\ state[t] # "Absent" => state'[t] # "Absent"
                    /\ approval[t] # NoGrant => approval'[t] = approval[t]
  OBVIOUS
<1> USE DEF TypeOK, IsTerminal
<1>1. ASSUME NEW u \in Txn, NEW s \in CreatedIn, Create(u, s)
      PROVE  state[t] = state'[t] \/ (state[t] = "Absent" /\ state'[t] # "Absent")
  BY <1>1 DEF Create, CreatedIn
<1>2. ASSUME NEW u \in Txn, NEW e \in CallerEdges, CompareAndTransition(u, e[1], e[2])
      PROVE  state[t] = state'[t] \/ (~IsTerminal(state[t]) /\ state'[t] # "Absent")
  BY <1>2 DEF CompareAndTransition, CallerEdges
<1>3. ASSUME NEW u \in Txn, NEW g \in GrantInput, Approve(u, g)
      PROVE  /\ state[t] = state'[t] \/ (~IsTerminal(state[t]) /\ state'[t] # "Absent")
             /\ approval[t] # NoGrant => approval'[t] = approval[t]
  BY <1>3 DEF Approve, ReviewInv
<1>4. ASSUME NEW u \in Txn, NEW now \in Time, Reserve(u, now)
      PROVE  state[t] = state'[t] \/ (~IsTerminal(state[t]) /\ state'[t] # "Absent")
  BY <1>4 DEF Reserve, Reservable
<1>5. ASSUME NEW u \in Txn, NEW now \in Time, ReserveExpired(u, now)
      PROVE  state[t] = state'[t] \/ (~IsTerminal(state[t]) /\ state'[t] # "Absent")
  BY <1>5 DEF ReserveExpired
<1>6. CASE UNCHANGED vars
  BY <1>6 DEF vars
<1>7. CASE Next
  BY <1>1, <1>2, <1>3, <1>4, <1>5, <1>7
     DEF Next, Create, CompareAndTransition, Reserve, ReserveExpired
<1> QED
  BY <1>6, <1>7

(* No step of any caller leaves a terminal state, removes a record, or      *)
(* touches a bound grant.                                                   *)
THEOREM LifecycleIsForward == Spec => Forward
<1>1. Init => ReviewInv
  BY DEF Init, ReviewInv
<1>2. TypeOK /\ ReviewInv /\ [Next]_vars => ReviewInv'
  BY ReviewStep
<1>3. TypeOK /\ ReviewInv /\ [Next]_vars =>
        [\A t \in Txn :
           /\ IsTerminal(state[t]) => state'[t] = state[t]
           /\ state[t] # "Absent" => state'[t] # "Absent"
           /\ approval[t] # NoGrant => approval'[t] = approval[t]]_vars
  BY ForwardStep
<1> QED
  BY <1>1, <1>2, <1>3, TypeCorrect, PTL DEF Spec, Forward
=============================================================================
