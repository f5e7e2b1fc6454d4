---------------------------- MODULE RuntimeProofs ----------------------------
(***************************************************************************)
(* For any number of callers, processes and transactions: the runtime      *)
(* keeps to the store's specification, cancellation and commit exclude     *)
(* each other, no hook is walked around, and (in the second half) nothing  *)
(* is left behind or lost of previews and artifacts.                       *)
(***************************************************************************)
EXTENDS Runtime, TLAPS, FiniteSetTheorems

(* The states from the reservation on: none of them is ever left for one    *)
(* that is not among them.                                                  *)
Past == Consumed \cup {"Failed"}

(* The states in which a transaction could still be reserved unreviewed.    *)
Undecided == {"Absent", "AutoApproved"}

Askable == {"AutoApproved", "PendingApproval"}

Places == Entered \cup {"idle", "keep", "record", "answer", "withdraw", "revoke", "review",
                        "enter", "prepare", "persist", "create", "prepared", "judge",
                        "resolve", "withhold", "reject", "forget"}

(* The part of TypeOK that the proofs use.                                  *)
CallsTyped ==
  /\ published \subseteq Txn
  /\ pc \in [Call -> Places]
  /\ work \in [Call -> Work]
  /\ token \in [Call -> {"open", "cancelled", "entered"}]

HistoryTyped ==
  /\ home \in [Txn -> Process \cup {None}]
  /\ wonBy \in [Txn -> Winner]

(* What a call has made sure of by the time it is where it is.              *)
CallOK(c) ==
  pc[c] # "idle" =>
    /\ At(c) \in Process /\ Subject(c) \in Txn
    /\ home[Subject(c)] # None
    /\ pc[c] \in {"keep", "record"} => work[c].receipt \in Store!CreatedIn
    /\ pc[c] = "prepared" => state[Subject(c)] # "Absent"
    /\ pc[c] \in {"judge", "reject"} => work[c].prepared \in Askable
    /\ pc[c] = "resolve" /\ work[c].verdict # "FollowPolicy" => work[c].prepared \in Askable
    /\ pc[c] = "grant" => work[c].now + Ttl \in Time
    /\ pc[c] \in Entered => token[c] = "entered"
    /\ pc[c] = "committing" => state[Subject(c)] \in Past
    /\ pc[c] \in {"persistExact", "createExact", "reserve"} =>
         Scope[At(c)] = Scope[home[Subject(c)]]
    /\ pc[c] \in {"enter", "grant", "exact", "persistExact", "createExact", "reserve"}
       /\ Scope[At(c)] = "AllRequests" /\ state[Subject(c)] \in Undecided =>
         work[c].prepared = "AutoApproved" /\ work[c].verdict \in {"FollowPolicy", "Approve"}

(* A winner stays bound to a state behind its reservation.                  *)
WonOK == \A t \in Txn : wonBy[t].at # None => state[t] \in Past /\ home[t] # None

IInv ==
  /\ Store!TypeOK /\ CallsTyped /\ HistoryTyped
  /\ \A c \in Call : CallOK(c)
  /\ \A t \in published : home[t] # None
  /\ WonOK
  /\ HookHolds

-----------------------------------------------------------------------------
(* The lifecycle that the store refers to is the runtime's.                 *)
LEMMA SameLifecycle ==
  /\ States = Store!States
  /\ \A s, n : n \in Successors(s) => Store!CanTransitionTo(s, n)
BY DEF States, Store!States, Successors, Store!CanTransitionTo, Store!Successors

LEMMA EdgesAreStates ==
  ASSUME NEW s, NEW n, Store!CanTransitionTo(s, n)
  PROVE  n \in Store!States
BY DEF Store!States, Store!CanTransitionTo, Store!Successors

LEMMA StoreStepTyped == Store!TypeOK /\ [Store!Next]_store => Store!TypeOK'
<1> SUFFICES ASSUME Store!TypeOK, [Store!Next]_store PROVE Store!TypeOK'
  OBVIOUS
<1>1. ASSUME NEW t \in Txn, NEW s \in Store!CreatedIn, Store!Create(t, s) PROVE Store!TypeOK'
  BY <1>1 DEF Store!TypeOK, Store!Create, Store!CreatedIn, Store!States, Store!Demanded
<1>2. ASSUME NEW t \in Txn, NEW e \in Store!CallerEdges,
             Store!CompareAndTransition(t, e[1], e[2])
      PROVE  Store!TypeOK'
  <2>1. e[2] \in Store!States
    BY <1>2, EdgesAreStates DEF Store!CompareAndTransition
  <2> QED
    BY <1>2, <2>1 DEF Store!TypeOK, Store!CompareAndTransition, Store!Demanded
<1>3. ASSUME NEW t \in Txn, NEW g \in Store!GrantInput, Store!Approve(t, g) PROVE Store!TypeOK'
  <2>1. g \in Store!Grant
    BY <1>3 DEF Store!Approve, Store!ValidWindow, Store!Grant
  <2> QED
    BY <1>3, <2>1 DEF Store!TypeOK, Store!Approve, Store!States
<1>4. ASSUME NEW t \in Txn, NEW now \in Time, Store!Reserve(t, now) PROVE Store!TypeOK'
  BY <1>4, RuntimeAssumption DEF Store!TypeOK, Store!Reserve, Store!States
<1>5. ASSUME NEW t \in Txn, NEW now \in Time, Store!ReserveExpired(t, now)
      PROVE  Store!TypeOK'
  BY <1>5 DEF Store!TypeOK, Store!ReserveExpired, Store!States
<1>6. CASE UNCHANGED store
  BY <1>6 DEF Store!TypeOK, store
<1> QED
  BY <1>1, <1>2, <1>3, <1>4, <1>5, <1>6 DEF Store!Next

-----------------------------------------------------------------------------
(* What no step of the store does to one transaction.                       *)
Keeps(t) ==
  /\ state[t] \in Past => state'[t] \in Past /\ approval'[t] = approval[t]
  /\ state'[t] \in Undecided => state[t] \in Undecided
  /\ state[t] # "Absent" => state'[t] # "Absent"

LEMMA StoreStepKeeps ==
  ASSUME Store!TypeOK, [Store!Next]_store, NEW x \in Txn
  PROVE  Keeps(x)
<1>0. DOMAIN state = Txn /\ DOMAIN approval = Txn
  BY DEF Store!TypeOK
<1>1. ASSUME NEW t \in Txn, NEW s \in Store!CreatedIn, Store!Create(t, s) PROVE Keeps(x)
  BY <1>0, <1>1
  DEF Keeps, Store!Create, Store!CreatedIn, Past, Consumed, Undecided, Store!TypeOK
<1>2. ASSUME NEW t \in Txn, NEW e \in Store!CallerEdges,
             Store!CompareAndTransition(t, e[1], e[2])
      PROVE  Keeps(x)
  <2>1. /\ e[1] \in Past => e[2] \in Past
        /\ e[2] \notin Undecided
    BY DEF Store!CallerEdges, Past, Consumed, Undecided
  <2>2. /\ approval' = approval
        /\ state'[x] = state[x] \/ (state[x] = e[1] /\ state'[x] = e[2])
    BY <1>2 DEF Store!CompareAndTransition, Store!TypeOK
  <2> QED
    BY <2>1, <2>2 DEF Keeps, Undecided
<1>3. ASSUME NEW t \in Txn, NEW g \in Store!GrantInput, Store!Approve(t, g) PROVE Keeps(x)
  BY <1>3 DEF Keeps, Store!Approve, Past, Consumed, Undecided, Store!TypeOK
<1>4. ASSUME NEW t \in Txn, NEW now \in Time,
             Store!Reserve(t, now) \/ Store!ReserveExpired(t, now)
      PROVE  Keeps(x)
  BY <1>4 DEF Keeps, Store!Reserve, Store!Reservable, Store!ReserveExpired, Past, Consumed,
              Undecided, Store!TypeOK
<1>5. CASE UNCHANGED store
  BY <1>5 DEF Keeps, store
<1> QED
  BY <1>1, <1>2, <1>3, <1>4, <1>5 DEF Store!Next

-----------------------------------------------------------------------------
(* The only ways the runtime reaches the store, each within what the store  *)
(* allows its callers.                                                      *)
LEMMA CreateAllowed ==
  ASSUME NEW t \in Txn, NEW s \in Store!CreatedIn, Store!Create(t, s)
  PROVE  Store!Next
BY DEF Store!Next

LEMMA EdgeAllowed ==
  ASSUME NEW t \in Txn, NEW e, NEW n, <<e, n>> \in Store!CallerEdges,
         Store!CompareAndTransition(t, e, n)
  PROVE  Store!Next
<1>1. <<e, n>>[1] = e /\ <<e, n>>[2] = n
  OBVIOUS
<1> QED
  BY <1>1 DEF Store!Next

LEMMA ApproveAllowed ==
  ASSUME NEW t \in Txn, NEW g \in Store!GrantInput, Store!Approve(t, g)
  PROVE  Store!Next
BY DEF Store!Next

LEMMA ReserveAllowed ==
  ASSUME NEW t \in Txn, NEW now \in Time, Store!Reserve(t, now) \/ Store!ReserveExpired(t, now)
  PROVE  Store!Next
BY DEF Store!Next

(* Every step of the committer from behind a reservation is one of the      *)
(* edges the store's callers may ask for.                                   *)
LEMMA CommitterEdges ==
  ASSUME NEW s \in Past, NEW n \in Successors(s)
  PROVE  <<s, n>> \in Store!CallerEdges
BY DEF Past, Consumed, Successors, Store!CallerEdges

LEMMA StoreStep == IInv /\ [Next]_vars => [Store!Next]_store
<1> SUFFICES ASSUME IInv, [Next]_vars PROVE [Store!Next]_store
  OBVIOUS
<1>1. ASSUME NEW c \in Call, Keep(c) PROVE [Store!Next]_store
  <2>1. Subject(c) \in Txn
    BY <1>1 DEF IInv, CallOK, Keep
  <2> QED
    BY <1>1, <2>1, CreateAllowed DEF Keep, store, Store!CreatedIn
<1>2. ASSUME NEW c \in Call, Record(c) PROVE [Store!Next]_store
  <2>1. Subject(c) \in Txn /\ work[c].receipt \in Store!CreatedIn
    BY <1>2 DEF IInv, CallOK, Record
  <2> QED
    BY <1>2, <2>1, CreateAllowed DEF Record
<1>3. ASSUME NEW c \in Call, Revoke(c) \/ Withhold(c) PROVE [Store!Next]_store
  <2>1. Subject(c) \in Txn
    BY <1>3 DEF IInv, CallOK, Revoke, Withhold
  <2>2. <<"AutoApproved", "PendingApproval">> \in Store!CallerEdges
    BY DEF Store!CallerEdges
  <2> QED
    BY <1>3, <2>1, <2>2, EdgeAllowed DEF Revoke, Withhold, store
<1>4. ASSUME NEW c \in Call, PrepareCommit(c) \/ Exact(c) PROVE [Store!Next]_store
  <2>1. ASSUME NEW at, NEW next, at # "idle", Create(c, at, next) PROVE [Store!Next]_store
    <3>1. Subject(c) \in Txn
      BY <2>1 DEF IInv, CallOK, Create
    <3> QED
      BY <2>1, <3>1, CreateAllowed DEF Create, Store!CreatedIn, store
  <2> QED
    BY <1>4, <2>1 DEF PrepareCommit, Exact, Load, Persist, store
<1>5. ASSUME NEW c \in Call, Reject(c) PROVE [Store!Next]_store
  <2>1. Subject(c) \in Txn /\ work[c].prepared \in Askable
    BY <1>5 DEF IInv, CallOK, Reject
  <2>2. <<work[c].prepared, "Rejected">> \in Store!CallerEdges
    BY <2>1 DEF Askable, Store!CallerEdges
  <2> QED
    BY <1>5, <2>1, <2>2, EdgeAllowed DEF Reject, store
<1>6. ASSUME NEW c \in Call, Review(c) PROVE [Store!Next]_store
  <2>1. Subject(c) \in Txn
    BY <1>6 DEF IInv, CallOK, Review
  <2> QED
    BY <1>6, <2>1, ApproveAllowed DEF Review, store
<1>7. ASSUME NEW c \in Call, Grant(c) PROVE [Store!Next]_store
  <2>1. Subject(c) \in Txn /\ work[c].now \in Time /\ work[c].now + Ttl \in Time
    BY <1>7 DEF IInv, CallOK, Grant, CallsTyped, Work
  <2>2. HookGrant(c) \in Store!GrantInput
    BY <2>1, RuntimeAssumption DEF HookGrant, Store!GrantInput
  <2> QED
    BY <1>7, <2>1, <2>2, ApproveAllowed DEF Grant, store
<1>8. ASSUME NEW c \in Call, Reserve(c) PROVE [Store!Next]_store
  <2>1. Subject(c) \in Txn /\ work[c].now \in Time
    BY <1>8 DEF IInv, CallOK, Reserve, CallsTyped, Work
  <2> QED
    BY <1>8, <2>1, ReserveAllowed DEF Reserve, store
<1>9. ASSUME NEW c \in Call, Committing(c) PROVE [Store!Next]_store
  <2>1. Subject(c) \in Txn /\ state[Subject(c)] \in Past
    BY <1>9 DEF IInv, CallOK, Committing
  <2> QED
    BY <1>9, <2>1, EdgeAllowed, CommitterEdges DEF Committing, store
<1>10. ASSUME NEW t \in Txn, Recover(t) PROVE [Store!Next]_store
  <2>1. {<<"Revalidating", "Failed">>, <<"Committing", "RecoveryRequired">>,
         <<"RecoveryRequired", "Committed">>, <<"RecoveryRequired", "Failed">>}
          \subseteq Store!CallerEdges
    BY DEF Store!CallerEdges
  <2> QED
    BY <1>10, <2>1, EdgeAllowed DEF Recover
<1>11. ASSUME NEW c \in Call,
              \/ \E p \in Process, t \in Txn :
                   StartRun(c, p, t) \/ \E op \in Ops : Start(c, p, t, op)
              \/ Answer(c) \/ Withdraw(c) \/ Prepared(c) \/ Judge(c)
              \/ Cancel(c) \/ Enter(c) \/ Resolve(c) \/ Forget(c) \/ Release(c)
       PROVE  [Store!Next]_store
  BY <1>11 DEF StartRun, Start, Answer, Withdraw, Prepared, Judge, Cancel, Enter, Resolve,
               Forget, Release, store
<1>12. ASSUME NEW p \in Process, Die(p) \/ \E t \in Txn : Discard(p, t)
       PROVE  [Store!Next]_store
  BY <1>12 DEF Die, Discard, store
<1>13. CASE UNCHANGED vars
  BY <1>13 DEF vars, store
<1> QED
  BY <1>1, <1>2, <1>3, <1>4, <1>5, <1>6, <1>7, <1>8, <1>9, <1>10, <1>11, <1>12, <1>13 DEF Next

-----------------------------------------------------------------------------
(* A step of call c: it leaves the other calls alone, and hands out at most *)
(* the transaction it is about.                                             *)
Acts(c) ==
  /\ \A d \in Call : d # c => pc'[d] = pc[d] /\ work'[d] = work[d] /\ token'[d] = token[d]
  /\ pc' \in [Call -> Places]
  /\ work' \in [Call -> Work]
  /\ token' \in [Call -> {"open", "cancelled", "entered"}]
  /\ published' = published \/ (pc[c] # "idle" /\ published' = published \cup {Subject(c)})

LEMMA IdleIsWork == Idle \in Work
BY RuntimeAssumption DEF Idle, Work, Store!CreatedIn

LEMMA ContinueActs ==
  ASSUME CallsTyped, NEW c \in Call, NEW next \in Places, Continue(c, next)
  PROVE  Acts(c) /\ pc'[c] = next /\ work'[c] = work[c] /\ token'[c] = token[c]
BY DEF CallsTyped, Continue, Acts

LEMMA EndActs ==
  ASSUME CallsTyped, NEW c \in Call, pc[c] # "idle", End(c),
         published' = published \/ published' = published \cup {Subject(c)}
  PROVE  Acts(c) /\ pc'[c] = "idle"
<1>1. pc' \in [Call -> Places] /\ pc'[c] = "idle" /\ token'[c] = "open"
      /\ token' \in [Call -> {"open", "cancelled", "entered"}]
  BY DEF CallsTyped, End, Places
<1>2. work' \in [Call -> Work]
  BY IdleIsWork DEF CallsTyped, End
<1>3. \A d \in Call : d # c => pc'[d] = pc[d] /\ work'[d] = work[d] /\ token'[d] = token[d]
  BY DEF CallsTyped, End
<1> QED
  BY <1>1, <1>2, <1>3 DEF Acts

LEMMA EnterCommitActs ==
  ASSUME CallsTyped, NEW c \in Call, NEW next \in Places, EnterCommit(c, next)
  PROVE  Acts(c) /\ pc'[c] = next /\ work'[c] = work[c] /\ token'[c] = "entered"
BY DEF CallsTyped, EnterCommit, Acts

(* A call that returns has nothing left to make sure of.                    *)
LEMMA ReturnActs ==
  ASSUME CallsTyped, NEW c \in Call, pc[c] # "idle", Return(c) \/ ReturnCancelled(c)
  PROVE  Acts(c) /\ CallOK(c)'
<1>1. Acts(c) /\ pc'[c] = "idle"
  BY EndActs DEF Return, ReturnCancelled
<1> QED
  BY <1>1 DEF CallOK

(* Once run, a transaction belongs to its process for good.                 *)
HomeKept == \A t \in Txn : home[t] # None => home'[t] = home[t]

(* What a call has made sure of survives whatever the others do.            *)
LEMMA OthersOK ==
  ASSUME IInv, [Store!Next]_store, HomeKept,
         NEW d \in Call, pc'[d] = pc[d], work'[d] = work[d], token'[d] = token[d]
  PROVE  CallOK(d)'
<1> SUFFICES ASSUME pc[d] # "idle" PROVE CallOK(d)'
  BY DEF CallOK
<1>1. CallOK(d) /\ Subject(d) \in Txn /\ Subject(d)' = Subject(d) /\ At(d)' = At(d)
  BY DEF IInv, CallOK, Subject, At
<1>2. Keeps(Subject(d))
  BY <1>1, StoreStepKeeps DEF IInv
<1>3. home'[Subject(d)] = home[Subject(d)] /\ home[Subject(d)] # None
  BY <1>1 DEF HomeKept, CallOK
<1> QED
  BY <1>1, <1>2, <1>3 DEF CallOK, Keeps

(* A reservation stays what it was.                                         *)
LEMMA WinnersKept ==
  ASSUME IInv, [Store!Next]_store, HomeKept, wonBy' = wonBy
  PROVE  WonOK' /\ HookHolds'
<1>1. ASSUME NEW t \in Txn, wonBy[t].at # None
      PROVE  state'[t] \in Past /\ approval'[t] = approval[t] /\ home'[t] = home[t]
  BY <1>1, StoreStepKeeps DEF IInv, WonOK, Keeps, HomeKept
<1>2. WonOK'
  BY <1>1 DEF IInv, WonOK
<1>3. HookHolds'
  BY <1>1 DEF IInv, HookHolds
<1> QED
  BY <1>2, <1>3

LEMMA Preserved ==
  ASSUME IInv, [Store!Next]_store, HomeKept, HistoryTyped', WonOK', HookHolds',
         NEW c \in Call, Acts(c), CallOK(c)'
  PROVE  IInv'
<1>1. Store!TypeOK'
  BY StoreStepTyped DEF IInv
<1>2. pc[c] # "idle" => Subject(c) \in Txn /\ home[Subject(c)] # None
  BY DEF IInv, CallOK
<1>3. CallsTyped'
  BY <1>2 DEF IInv, CallsTyped, Acts
<1>4. \A d \in Call : CallOK(d)'
  BY OthersOK DEF Acts
<1>5. \A t \in published' : home'[t] # None
  BY <1>2 DEF IInv, Acts, HomeKept, CallsTyped
<1> QED
  BY <1>1, <1>3, <1>4, <1>5 DEF IInv

-----------------------------------------------------------------------------
(* One step per action that leaves the history alone: the acting call has   *)
(* made sure of what its new place demands.                                 *)
LEMMA RunStep ==
  ASSUME IInv, [Store!Next]_store, UNCHANGED <<home, wonBy>>, NEW c \in Call,
         Keep(c) \/ Record(c) \/ Answer(c) \/ Withdraw(c) \/ Revoke(c)
  PROVE  Acts(c) /\ CallOK(c)'
<1> USE DEF At, Subject
<1>0. CallsTyped /\ CallOK(c) /\ home' = home
  BY DEF IInv
<1>1. pc[c] # "idle"
  BY DEF Keep, Record, Answer, Withdraw, Revoke
<1>2. CASE Return(c) \/ ReturnCancelled(c)
  BY <1>0, <1>1, <1>2, ReturnActs
<1>3. CASE End(c) /\ UNCHANGED published
  BY <1>0, <1>1, <1>3, EndActs DEF CallOK
<1>4. ASSUME NEW next \in {"answer", "withdraw", "revoke"}, Continue(c, next)
      PROVE  Acts(c) /\ CallOK(c)'
  BY <1>0, <1>1, <1>4, ContinueActs DEF CallOK, Places, Entered
<1>5. CASE pc[c] = "keep" /\ Continue(c, "record")
  BY <1>0, <1>5, ContinueActs DEF CallOK, Places, Entered
<1>6. CASE Continue(c, IF Scope[At(c)] = "none" THEN "enter" ELSE "prepare")
  BY <1>0, <1>1, <1>6, ContinueActs DEF CallOK, Places, Entered
<1>7. Keep(c) \/ Record(c) => \/ Return(c) \/ ReturnCancelled(c)
                              \/ End(c) /\ UNCHANGED published
                              \/ \E next \in {"answer"} : Continue(c, next)
                              \/ pc[c] = "keep" /\ Continue(c, "record")
  BY DEF Keep, Record
<1>8. Answer(c) \/ Withdraw(c) \/ Revoke(c)
      => \/ Return(c) \/ ReturnCancelled(c)
         \/ \E next \in {"withdraw", "revoke"} : Continue(c, next)
         \/ Continue(c, IF Scope[At(c)] = "none" THEN "enter" ELSE "prepare")
  BY DEF Answer, Withdraw, Revoke
<1> QED
  BY <1>2, <1>3, <1>4, <1>5, <1>6, <1>7, <1>8

LEMMA StartStep ==
  ASSUME IInv, UNCHANGED <<home, wonBy>>, NEW c \in Call, NEW p \in Process, NEW t \in Txn,
         NEW op \in Ops, Start(c, p, t, op)
  PROVE  Acts(c) /\ CallOK(c)'
<1>1. CallsTyped /\ home' = home /\ home[t] # None
  BY DEF IInv, Start
<1>2. PICK now \in Time :
        work' = [work EXCEPT ![c] = [Idle EXCEPT !.at = p, !.op = op, !.txn = t, !.now = now]]
  BY RuntimeAssumption DEF Start
<1>3. [Idle EXCEPT !.at = p, !.op = op, !.txn = t, !.now = now] \in Work
  BY RuntimeAssumption DEF Idle, Work, Store!CreatedIn
<1>4. /\ pc' \in [Call -> Places] /\ pc'[c] \in {"review", "enter", "prepare"}
      /\ pc'[c] = "enter" => Scope[p] = "none"
  BY <1>1 DEF Start, CallsTyped, Places
<1>5. work'[c].at = p /\ work'[c].txn = t
  BY <1>1, <1>2 DEF CallsTyped, Idle
<1>6. Acts(c)
  BY <1>1, <1>2, <1>3, <1>4 DEF Start, CallsTyped, Acts
<1>7. CallOK(c)'
  BY <1>1, <1>4, <1>5 DEF CallOK, At, Subject, Entered
<1> QED
  BY <1>6, <1>7

(* Loading, persisting and recording, before the hook and behind the        *)
(* boundary alike.                                                          *)
LEMMA PrepareStep ==
  ASSUME IInv, [Store!Next]_store, UNCHANGED <<home, wonBy>>, NEW c \in Call,
         PrepareCommit(c) \/ Exact(c)
  PROVE  Acts(c) /\ CallOK(c)'
<1> USE DEF At, Subject
<1>0. CallsTyped /\ CallOK(c) /\ home' = home
  BY DEF IInv
<1>1. pc[c] # "idle"
  BY DEF PrepareCommit, Exact, Load, Persist, Create
<1>2. Keeps(Subject(c))
  BY <1>0, <1>1, StoreStepKeeps DEF IInv, CallOK
<1>3. CASE Return(c)
  BY <1>0, <1>1, <1>3, ReturnActs
<1>4. CASE (pc[c] = "prepare" /\ Continue(c, "persist")) \/ (pc[c] = "persist" /\ Continue(c, "create"))
  BY <1>0, <1>4, ContinueActs DEF CallOK, Places, Entered
<1>5. CASE pc[c] \in {"persist", "create"} /\ Continue(c, "prepared") /\ state'[Subject(c)] # "Absent"
  BY <1>0, <1>5, ContinueActs DEF CallOK, Places, Entered
<1>6. CASE pc[c] = "exact" /\ Continue(c, "persistExact") /\ Usable(c)
  BY <1>0, <1>2, <1>6, ContinueActs
  DEF CallOK, Places, Entered, Keeps, Usable, PolicyHolds
<1>7. CASE pc[c] = "persistExact" /\ Continue(c, "createExact")
  BY <1>0, <1>2, <1>7, ContinueActs DEF CallOK, Places, Entered, Keeps
<1>8. CASE pc[c] \in {"persistExact", "createExact"} /\ Continue(c, "reserve")
  BY <1>0, <1>2, <1>8, ContinueActs DEF CallOK, Places, Entered, Keeps
<1>9. ASSUME NEW at, NEW next, Create(c, at, next)
      PROVE  pc[c] = at /\ (Return(c) \/ (Continue(c, next) /\ state'[Subject(c)] # "Absent"))
  <2>1. CASE state[Subject(c)] = "Absent"
    <3>1. state'[Subject(c)] = "AutoApproved"
      BY <1>0, <1>1, <1>9, <2>1 DEF Create, Store!Create, IInv, Store!TypeOK, CallOK
    <3> QED
      BY <1>9, <2>1, <3>1 DEF Create
  <2> QED
    BY <1>9, <2>1 DEF Create
<1>10. CASE PrepareCommit(c)
  <2>1. CASE Load(c, "prepare", "persist")
    BY <2>1, <1>3, <1>4 DEF Load
  <2>2. CASE Persist(c, "persist", "create", "prepared")
    BY <2>2, <1>2, <1>4, <1>5 DEF Persist, Keeps
  <2>3. CASE Create(c, "create", "prepared")
    BY <2>3, <1>3, <1>5, <1>9
  <2> QED
    BY <1>10, <2>1, <2>2, <2>3 DEF PrepareCommit
<1>11. CASE Exact(c)
  <2>1. CASE Load(c, "exact", "persistExact")
    BY <2>1, <1>3, <1>6 DEF Load
  <2>2. CASE Persist(c, "persistExact", "createExact", "reserve")
    BY <2>2, <1>7, <1>8 DEF Persist
  <2>3. CASE Create(c, "createExact", "reserve")
    BY <2>3, <1>3, <1>8, <1>9
  <2> QED
    BY <1>11, <2>1, <2>2, <2>3 DEF Exact
<1> QED
  BY <1>10, <1>11

LEMMA WorkJudged ==
  ASSUME NEW w \in Work, NEW v \in Verdicts, NEW r, r = [w EXCEPT !.verdict = v]
  PROVE  /\ r \in Work
         /\ r.at = w.at /\ r.txn = w.txn /\ r.prepared = w.prepared
BY DEF Work

(* Where the hook is put or not put, and what its handler may answer.       *)
LEMMA HookStep ==
  ASSUME IInv, [Store!Next]_store, UNCHANGED <<home, wonBy>>, NEW c \in Call,
         Prepared(c) \/ Judge(c)
  PROVE  Acts(c) /\ CallOK(c)'
<1> USE DEF At, Subject
<1>0. CallsTyped /\ CallOK(c) /\ home' = home
  BY DEF IInv
<1>1. pc[c] \in {"prepared", "judge"}
  BY DEF Prepared, Judge
<1>2. CASE Return(c)
  BY <1>0, <1>1, <1>2, ReturnActs
<1>3. CASE pc[c] = "prepared" /\ ~AppliesTo(Scope[At(c)], state[Subject(c)]) /\ Continue(c, "enter")
  <2>1. /\ state[Subject(c)] # "Absent"
        /\ Scope[At(c)] = "AllRequests" => state[Subject(c)] \notin Undecided
    BY <1>0, <1>3 DEF CallOK, AppliesTo, Undecided
  <2>2. Keeps(Subject(c))
    BY <1>0, <1>1, StoreStepKeeps DEF IInv, CallOK
  <2> QED
    BY <1>0, <1>3, <2>1, <2>2, ContinueActs DEF CallOK, Places, Entered, Keeps
<1>4. CASE pc[c] = "judge" /\ Continue(c, "withhold")
  BY <1>0, <1>4, ContinueActs DEF CallOK, Places, Entered
<1>5. ASSUME NEW r \in Work, work' = [work EXCEPT ![c] = r], r.at = At(c), r.txn = Subject(c),
             pc' = [pc EXCEPT ![c] = "resolve"] \/ pc' = [pc EXCEPT ![c] = "judge"],
             pc'[c] = "judge" \/ r.verdict # "FollowPolicy" => r.prepared \in Askable,
             UNCHANGED <<token, published>>
      PROVE  Acts(c) /\ CallOK(c)'
  <2>1. /\ pc' \in [Call -> Places] /\ pc'[c] \in {"resolve", "judge"}
        /\ work' \in [Call -> Work] /\ work'[c] = r
    BY <1>0, <1>5 DEF CallsTyped, Places
  <2>2. Acts(c)
    BY <1>0, <1>5, <2>1 DEF CallsTyped, Acts
  <2>3. CallOK(c)'
    BY <1>0, <1>1, <1>5, <2>1 DEF CallOK, Entered
  <2> QED
    BY <2>2, <2>3
<1>6. ASSUME pc[c] = "prepared", work[c].op = "hooked", Prepared(c) PROVE Acts(c) /\ CallOK(c)'
  <2> DEFINE asked == AppliesTo(Scope[At(c)], state[Subject(c)])
             v == IF asked THEN "none" ELSE "FollowPolicy"
             r == [work[c] EXCEPT !.prepared = state[Subject(c)], !.verdict = v]
  <2>1. state[Subject(c)] \in States \cup {"Absent"}
    BY <1>0, <1>6, SameLifecycle DEF IInv, CallOK, Store!TypeOK
  <2>2. asked => state[Subject(c)] \in Askable
    BY DEF AppliesTo, Askable
  <2>3. /\ v \in Verdicts \cup {"none"}
        /\ asked \/ v # "FollowPolicy" => state[Subject(c)] \in Askable
    BY <2>2 DEF Verdicts
  <2>4. /\ work' = [work EXCEPT ![c] = r]
        /\ pc' = [pc EXCEPT ![c] = IF asked THEN "judge" ELSE "resolve"]
        /\ UNCHANGED <<token, published>>
    BY <1>0, <1>6 DEF Prepared, CallsTyped
  <2>5. pc'[c] = IF asked THEN "judge" ELSE "resolve"
    BY <1>0, <2>4 DEF CallsTyped
  <2> HIDE DEF asked, v
  <2>6. /\ r \in Work
        /\ r.at = At(c) /\ r.txn = Subject(c) /\ r.prepared = state[Subject(c)] /\ r.verdict = v
    <3>1. work[c] \in Work
      BY <1>0 DEF CallsTyped
    <3> QED
      BY <2>1, <2>3, <3>1 DEF Work
  <2> HIDE DEF r
  <2>7. CASE asked
    <3>1. pc' = [pc EXCEPT ![c] = "judge"] /\ r.prepared \in Askable
      BY <2>3, <2>4, <2>6, <2>7
    <3> QED
      BY <1>5, <2>4, <2>6, <3>1
  <2>8. CASE ~asked
    <3>1. pc' = [pc EXCEPT ![c] = "resolve"] /\ pc'[c] = "resolve"
      BY <2>4, <2>5, <2>8
    <3>2. r.verdict # "FollowPolicy" => r.prepared \in Askable
      BY <2>3, <2>6
    <3> QED
      BY <1>5, <2>4, <2>6, <3>1, <3>2
  <2> QED
    BY <2>7, <2>8
<1>7. ASSUME NEW verdict \in Verdicts, pc[c] = "judge",
             work' = [work EXCEPT ![c].verdict = verdict],
             pc' = [pc EXCEPT ![c] = "resolve"], UNCHANGED <<token, published>>
      PROVE  Acts(c) /\ CallOK(c)'
  <2> DEFINE r == [work[c] EXCEPT !.verdict = verdict]
  <2>1. r \in Work /\ r.at = At(c) /\ r.txn = Subject(c) /\ r.prepared = work[c].prepared
    BY <1>0, <1>7, WorkJudged DEF CallsTyped
  <2>2. work[c].prepared \in Askable
    BY <1>0, <1>7 DEF CallOK
  <2>3. work' = [work EXCEPT ![c] = r]
    BY <1>0, <1>7 DEF CallsTyped
  <2> HIDE DEF r
  <2> QED
    BY <1>5, <1>7, <2>1, <2>2, <2>3
<1>8. CASE Prepared(c)
  BY <1>2, <1>3, <1>6, <1>8 DEF Prepared
<1>9. CASE Judge(c)
  BY <1>2, <1>4, <1>7, <1>9 DEF Judge
<1> QED
  BY <1>8, <1>9

(* Cancellation and the entry of the boundary.                              *)
LEMMA TokenStep ==
  ASSUME IInv, [Store!Next]_store, UNCHANGED <<home, wonBy>>, NEW c \in Call,
         Cancel(c) \/ Enter(c)
  PROVE  Acts(c) /\ CallOK(c)'
<1> USE DEF At, Subject
<1>0. CallsTyped /\ CallOK(c) /\ home' = home
  BY DEF IInv
<1>1. pc[c] # "idle" /\ Subject(c) \in Txn
  BY <1>0 DEF Cancel, Enter, CallOK
<1>2. Keeps(Subject(c))
  BY <1>1, StoreStepKeeps DEF IInv
<1>3. CASE Cancel(c)
  <2>1. /\ pc' = pc /\ work' = work /\ published' = published /\ pc[c] \notin Entered
        /\ state' = state
    BY <1>0, <1>1, <1>3 DEF Cancel, CallOK, store
  <2>2. Acts(c)
    BY <1>0, <1>3, <2>1 DEF Cancel, CallsTyped, Acts
  <2>3. CallOK(c)'
    BY <1>0, <1>3, <2>1 DEF CallOK
  <2> QED
    BY <2>2, <2>3
<1>4. CASE Enter(c)
  <2>1. CASE EnterCommit(c, "exact")
    BY <1>0, <1>2, <1>4, <2>1, EnterCommitActs DEF Enter, CallOK, Places, Entered, Keeps
  <2>2. CASE Continue(c, "withdraw")
    BY <1>0, <1>1, <2>2, ContinueActs DEF CallOK, Places, Entered
  <2>3. CASE ReturnCancelled(c)
    BY <1>0, <1>1, <2>3, ReturnActs
  <2> QED
    BY <1>4, <2>1, <2>2, <2>3 DEF Enter
<1> QED
  BY <1>3, <1>4

(* The verdict counts only for the state the handler was asked about.       *)
LEMMA ResolveStep ==
  ASSUME IInv, [Store!Next]_store, UNCHANGED <<home, wonBy>>, NEW c \in Call, Resolve(c)
  PROVE  Acts(c) /\ CallOK(c)'
<1> USE DEF At, Subject
<1>0. CallsTyped /\ CallOK(c) /\ home' = home /\ pc[c] = "resolve"
  BY DEF IInv, Resolve
<1>1. Keeps(Subject(c))
  BY <1>0, StoreStepKeeps DEF IInv, CallOK
<1>2. CASE Return(c) \/ ReturnCancelled(c)
  BY <1>0, <1>2, ReturnActs
<1>3. CASE EnterCommit(c, "exact") /\ UnchangedSince(c)
           /\ \/ work[c].verdict = "FollowPolicy" /\ work[c].prepared \in {"AutoApproved", "Approved"}
              \/ work[c].verdict = "Approve" /\ work[c].prepared = "AutoApproved"
  <2>1. state[Subject(c)] \in Undecided => work[c].prepared = "AutoApproved"
    BY <1>3 DEF UnchangedSince, Undecided
  <2> QED
    BY <1>0, <1>1, <1>3, <2>1, EnterCommitActs DEF CallOK, Places, Entered, Keeps
<1>4. CASE EnterCommit(c, "grant") /\ UnchangedSince(c) /\ work[c].prepared = "PendingApproval"
           /\ work[c].now + Ttl \in Time
  <2>1. state[Subject(c)] \notin Undecided
    BY <1>4 DEF UnchangedSince, Undecided
  <2> QED
    BY <1>0, <1>1, <1>4, <2>1, EnterCommitActs DEF CallOK, Places, Entered, Keeps
<1>5. CASE Continue(c, "withhold")
  BY <1>0, <1>5, ContinueActs DEF CallOK, Places, Entered
<1>6. CASE Continue(c, "reject") /\ work[c].verdict = "Reject"
  BY <1>0, <1>6, ContinueActs DEF CallOK, Places, Entered
<1>7. \/ Return(c) \/ ReturnCancelled(c)
      \/ UnchangedSince(c) /\ (Follow(c) \/ Endorse(c) \/ Object(c))
  BY DEF Resolve
<1> QED
  BY <1>2, <1>3, <1>4, <1>5, <1>6, <1>7 DEF Follow, Endorse, Object

(* What the hook or a reviewer did to the record, and the committer's steps.*)
LEMMA EffectStep ==
  ASSUME IInv, [Store!Next]_store, UNCHANGED <<home, wonBy>>, NEW c \in Call,
         \/ Withhold(c) \/ Reject(c) \/ Forget(c) \/ Review(c) \/ Grant(c)
         \/ Committing(c) \/ Release(c)
  PROVE  Acts(c) /\ CallOK(c)'
<1> USE DEF At, Subject
<1>0. CallsTyped /\ CallOK(c) /\ home' = home
  BY DEF IInv
<1>1. pc[c] # "idle"
  BY DEF Withhold, Reject, Forget, Review, Grant, Committing, Release
<1>2. Keeps(Subject(c))
  BY <1>0, <1>1, StoreStepKeeps DEF IInv, CallOK
<1>3. CASE Return(c)
  BY <1>0, <1>1, <1>3, ReturnActs
<1>4. CASE Continue(c, "forget")
  BY <1>0, <1>1, <1>4, ContinueActs DEF CallOK, Places, Entered
<1>5. CASE pc[c] = "committing" /\ (Continue(c, "committing") \/ Continue(c, "release"))
  BY <1>0, <1>2, <1>5, ContinueActs DEF CallOK, Places, Entered, Keeps
<1>6. CASE pc[c] = "grant" /\ Continue(c, "exact") /\ state[Subject(c)] = "PendingApproval"
  <2>1. state[Subject(c)] \notin Undecided
    BY <1>6 DEF Undecided
  <2> QED
    BY <1>0, <1>2, <1>6, <2>1, ContinueActs DEF CallOK, Places, Entered, Keeps
<1>7. Withhold(c) \/ Reject(c) \/ Forget(c) \/ Review(c) \/ Release(c)
      => Return(c) \/ Continue(c, "forget")
  BY DEF Withhold, Reject, Forget, Review, Release
<1>8. CASE Grant(c)
  BY <1>3, <1>6, <1>8 DEF Grant, Store!Approve
<1>9. CASE Committing(c)
  BY <1>5, <1>9 DEF Committing
<1> QED
  BY <1>3, <1>4, <1>7, <1>8, <1>9

-----------------------------------------------------------------------------
(* The two steps that write history.                                        *)
LEMMA StartRunStep ==
  ASSUME IInv, NEW c \in Call, NEW p \in Process, NEW t \in Txn, StartRun(c, p, t)
  PROVE  HomeKept /\ HistoryTyped' /\ wonBy' = wonBy /\ Acts(c) /\ CallOK(c)'
<1>0. CallsTyped /\ HistoryTyped /\ home[t] = None /\ p # None
  BY RuntimeAssumption DEF IInv, StartRun
<1>1. home' = [home EXCEPT ![t] = p] /\ home'[t] = p /\ wonBy' = wonBy
  BY <1>0 DEF StartRun, HistoryTyped
<1>2. HomeKept /\ HistoryTyped'
  BY <1>0, <1>1 DEF HomeKept, HistoryTyped
<1>3. PICK decision \in Store!CreatedIn, auto \in BOOLEAN :
        work' = [work EXCEPT ![c] = [Idle EXCEPT !.at = p, !.op = "run", !.txn = t,
                                                 !.auto = auto, !.receipt = decision]]
  BY DEF StartRun
<1>4. [Idle EXCEPT !.at = p, !.op = "run", !.txn = t, !.auto = auto, !.receipt = decision] \in Work
  BY RuntimeAssumption DEF Idle, Work, Store!CreatedIn
<1>5. work'[c].at = p /\ work'[c].txn = t /\ work'[c].receipt = decision
  BY <1>0, <1>3 DEF CallsTyped, Idle
<1>6. pc' \in [Call -> Places] /\ pc'[c] = "keep"
  BY <1>0 DEF StartRun, CallsTyped, Places
<1>7. Acts(c)
  BY <1>0, <1>3, <1>4, <1>6 DEF StartRun, CallsTyped, Acts
<1>8. CallOK(c)'
  BY <1>0, <1>1, <1>5, <1>6 DEF CallOK, At, Subject, Entered
<1> QED
  BY <1>1, <1>2, <1>7, <1>8

(* The winner: under the configuration of the run, and, unreviewed, only    *)
(* with the verdict that let this state through.                            *)
LEMMA ReserveStep ==
  ASSUME IInv, [Store!Next]_store, NEW c \in Call, Reserve(c)
  PROVE  /\ HomeKept /\ HistoryTyped' /\ WonOK' /\ HookHolds'
         /\ Acts(c) /\ CallOK(c)'
<1> USE DEF At, Subject
<1>0. /\ CallsTyped /\ HistoryTyped /\ CallOK(c) /\ home' = home /\ pc[c] = "reserve"
      /\ Subject(c) \in Txn
  BY DEF IInv, Reserve, CallOK
<1>1. HomeKept
  BY <1>0 DEF HomeKept
<1>2. CASE wonBy' = wonBy /\ Return(c)
  BY <1>0, <1>1, <1>2, ReturnActs, WinnersKept DEF HistoryTyped
<1>3. ASSUME Store!Reserve(Subject(c), work[c].now), Continue(c, "committing"),
             wonBy' = [wonBy EXCEPT ![Subject(c)] = [at |-> At(c), prepared |-> work[c].prepared,
                                                     verdict |-> work[c].verdict]]
      PROVE  /\ HistoryTyped' /\ WonOK' /\ HookHolds' /\ Acts(c) /\ CallOK(c)'
  <2> DEFINE t == Subject(c)
             w == [at |-> At(c), prepared |-> work[c].prepared, verdict |-> work[c].verdict]
  <2>1. /\ state'[t] = "Reserved" /\ approval' = approval
        /\ \/ state[t] = "AutoApproved"
           \/ state[t] = "Approved" /\ approval[t] # NoGrant
    BY <1>0, <1>3 DEF Store!Reserve, Store!Reservable, IInv, Store!TypeOK
  <2>2. w \in Winner
    BY <1>0 DEF CallsTyped, Work, Winner
  <2>3. wonBy'[t] = w /\ \A x \in Txn : x # t => wonBy'[x] = wonBy[x]
    BY <1>0, <1>3 DEF HistoryTyped
  <2>4. HistoryTyped'
    BY <1>0, <1>3, <2>2 DEF HistoryTyped
  <2>5. /\ Scope[At(c)] = Scope[home[t]] /\ home[t] # None
        /\ Scope[At(c)] = "AllRequests" /\ approval[t] = NoGrant =>
             work[c].prepared = "AutoApproved" /\ work[c].verdict \in {"FollowPolicy", "Approve"}
    BY <1>0, <2>1 DEF CallOK, Undecided
  <2>6. ASSUME NEW x \in Txn, x # t, wonBy[x].at # None
        PROVE  state'[x] \in Past /\ home[x] # None
    BY <2>6, StoreStepKeeps DEF IInv, WonOK, Keeps
  <2>7. WonOK'
    BY <1>0, <2>1, <2>3, <2>5, <2>6 DEF WonOK, Past, Consumed
  <2>8. HookHolds'
    BY <1>0, <2>1, <2>3, <2>5 DEF IInv, HookHolds
  <2>9. CallOK(c)'
    BY <1>0, <1>3, <2>1, ContinueActs DEF CallOK, Places, Entered, Past, Consumed
  <2>10. Acts(c)
    BY <1>0, <1>3, ContinueActs DEF Places, Entered
  <2> QED
    BY <2>4, <2>7, <2>8, <2>9, <2>10
<1> QED
  BY <1>1, <1>2, <1>3 DEF Reserve

(* Recovery, discards and death take no call further.                       *)
LEMMA OutsideStep ==
  ASSUME IInv, [Store!Next]_store,
         \/ \E t \in Txn : Recover(t) \/ \E p \in Process : Discard(p, t)
         \/ \E p \in Process : Die(p)
         \/ UNCHANGED vars
  PROVE  IInv'
<1>1. /\ UNCHANGED <<home, wonBy, published>>
      /\ \/ UNCHANGED <<pc, work, token>>
         \/ \E p \in Process :
              /\ pc' = [c \in Call |-> IF At(c) = p THEN "idle" ELSE pc[c]]
              /\ work' = [c \in Call |-> IF At(c) = p THEN Idle ELSE work[c]]
              /\ token' = [c \in Call |-> IF At(c) = p THEN "open" ELSE token[c]]
  BY DEF Recover, Discard, Die, vars, history
<1>2. HomeKept /\ HistoryTyped' /\ WonOK' /\ HookHolds'
  <2>1. HomeKept
    BY <1>1 DEF HomeKept
  <2>2. HistoryTyped'
    BY <1>1 DEF IInv, HistoryTyped
  <2> QED
    BY <1>1, <2>1, <2>2, WinnersKept
<1>3. CallsTyped'
  <2>1. CASE UNCHANGED <<pc, work, token>>
    BY <1>1, <2>1 DEF IInv, CallsTyped
  <2>2. CASE ~UNCHANGED <<pc, work, token>>
    BY <1>1, <2>2, IdleIsWork DEF IInv, CallsTyped, Places
  <2> QED
    BY <2>1, <2>2
<1>4. ASSUME NEW c \in Call
      PROVE  \/ pc'[c] = "idle"
             \/ pc'[c] = pc[c] /\ work'[c] = work[c] /\ token'[c] = token[c]
  BY <1>1
<1>5. \A c \in Call : CallOK(c)'
  <2> SUFFICES ASSUME NEW c \in Call PROVE CallOK(c)'
    OBVIOUS
  <2>1. CASE pc'[c] = "idle"
    BY <2>1 DEF CallOK
  <2>2. CASE pc'[c] = pc[c] /\ work'[c] = work[c] /\ token'[c] = token[c]
    BY <1>2, <2>2, OthersOK
  <2> QED
    BY <1>4, <2>1, <2>2
<1>6. Store!TypeOK'
  BY StoreStepTyped DEF IInv
<1>7. \A t \in published' : home'[t] # None
  BY <1>1 DEF IInv
<1> QED
  BY <1>2, <1>3, <1>5, <1>6, <1>7 DEF IInv

LEMMA Initial == Init => IInv
<1> SUFFICES ASSUME Init PROVE IInv
  OBVIOUS
<1>1. Store!TypeOK
  BY DEF Init, Store!Init, Store!TypeOK
<1>2. CallsTyped
  BY IdleIsWork DEF Init, CallsTyped, Places
<1>3. HistoryTyped /\ \A t \in Txn : wonBy[t].at = None
  BY DEF Init, HistoryTyped, Winner
<1>4. (\A c \in Call : CallOK(c)) /\ published = {}
  BY DEF Init, CallOK
<1> QED
  BY <1>1, <1>2, <1>3, <1>4 DEF IInv, WonOK, HookHolds

LEMMA Inductive == IInv /\ [Next]_vars => IInv'
<1> SUFFICES ASSUME IInv, [Next]_vars PROVE IInv'
  OBVIOUS
<1>1. [Store!Next]_store
  BY StoreStep
<1>2. ASSUME NEW c \in Call, UNCHANGED <<home, wonBy>>, Acts(c), CallOK(c)' PROVE IInv'
  <2>1. HomeKept /\ HistoryTyped'
    BY <1>2 DEF HomeKept, HistoryTyped, IInv
  <2> QED
    BY <1>1, <1>2, <2>1, WinnersKept, Preserved
<1>3. ASSUME NEW c \in Call, NEW p \in Process, NEW t \in Txn, StartRun(c, p, t) PROVE IInv'
  BY <1>1, <1>3, StartRunStep, WinnersKept, Preserved
<1>4. ASSUME NEW c \in Call, NEW p \in Process, NEW t \in Txn, NEW op \in Ops, Start(c, p, t, op)
      PROVE  IInv'
  <2>1. UNCHANGED <<home, wonBy>>
    BY <1>4 DEF Start, history
  <2> QED
    BY <1>2, <1>4, <2>1, StartStep
<1>5. ASSUME NEW c \in Call, Reserve(c) PROVE IInv'
  BY <1>1, <1>5, ReserveStep, Preserved
<1>6. ASSUME NEW c \in Call, Keep(c) \/ Record(c) \/ Answer(c) \/ Withdraw(c) \/ Revoke(c)
      PROVE  IInv'
  <2>1. UNCHANGED <<home, wonBy>>
    BY <1>6 DEF Keep, Record, Answer, Withdraw, Revoke, history
  <2> QED
    BY <1>1, <1>2, <1>6, <2>1, RunStep
<1>7. ASSUME NEW c \in Call, PrepareCommit(c) \/ Exact(c) PROVE IInv'
  <2>1. UNCHANGED <<home, wonBy>>
    BY <1>7 DEF PrepareCommit, Exact, Load, Persist, Create, history
  <2> QED
    BY <1>1, <1>2, <1>7, <2>1, PrepareStep
<1>8. ASSUME NEW c \in Call, Prepared(c) \/ Judge(c) PROVE IInv'
  <2>1. UNCHANGED <<home, wonBy>>
    BY <1>8 DEF Prepared, Judge, history
  <2> QED
    BY <1>1, <1>2, <1>8, <2>1, HookStep
<1>9. ASSUME NEW c \in Call, Cancel(c) \/ Enter(c) PROVE IInv'
  <2>1. UNCHANGED <<home, wonBy>>
    BY <1>9 DEF Cancel, Enter, history
  <2> QED
    BY <1>1, <1>2, <1>9, <2>1, TokenStep
<1>10. ASSUME NEW c \in Call, Resolve(c) PROVE IInv'
  <2>1. UNCHANGED <<home, wonBy>>
    BY <1>10 DEF Resolve, history
  <2> QED
    BY <1>1, <1>2, <1>10, <2>1, ResolveStep
<1>11. ASSUME NEW c \in Call,
              \/ Withhold(c) \/ Reject(c) \/ Forget(c) \/ Review(c) \/ Grant(c)
              \/ Committing(c) \/ Release(c)
       PROVE  IInv'
  <2>1. UNCHANGED <<home, wonBy>>
    BY <1>11 DEF Withhold, Reject, Forget, Review, Grant, Committing, Release, history
  <2> QED
    BY <1>1, <1>2, <1>11, <2>1, EffectStep
<1>12. ASSUME \/ \E t \in Txn : Recover(t) \/ \E p \in Process : Discard(p, t)
              \/ \E p \in Process : Die(p)
              \/ UNCHANGED vars
       PROVE  IInv'
  BY <1>1, <1>12, OutsideStep
<1> QED
  BY <1>3, <1>4, <1>5, <1>6, <1>7, <1>8, <1>9, <1>10, <1>11, <1>12 DEF Next

LEMMA Invariance == Spec => []IInv
BY Initial, Inductive, PTL DEF Spec

-----------------------------------------------------------------------------
(* The callers keep to the store: every behaviour of the runtime, seen      *)
(* through the store's variables, is one of TransactionStore, whose         *)
(* theorems (one reservation, never without a live grant after a review,    *)
(* no way back) therefore hold of it.                                       *)
THEOREM RuntimeKeepsStore == Spec => KeepsStore
<1>1. Init => Store!Init
  BY DEF Init
<1>2. IInv /\ [Next]_vars => [Store!Next]_(Store!vars)
  BY StoreStep DEF store, Store!vars
<1> QED
  BY <1>1, <1>2, Invariance, PTL DEF Spec, KeepsStore, Store!Spec

(* However many calls are cancelled when: none that was is inside the       *)
(* commit boundary.                                                         *)
THEOREM CancellationExcludesCommit == Spec => []CancelledStaysOut
<1>1. IInv => CancelledStaysOut
  <2> SUFFICES ASSUME IInv, NEW c \in Call, Cancelled(c) PROVE pc[c] \notin Entered
    BY DEF CancelledStaysOut
  <2>1. CallOK(c) /\ token[c] = "cancelled"
    BY DEF IInv, Cancelled
  <2> QED
    BY <2>1 DEF CallOK, Entered
<1> QED
  BY <1>1, Invariance, PTL

(* For any number of processes with any hook configurations: a transaction  *)
(* is reserved under the configuration it was run under, and unreviewed in  *)
(* a process that asks about everything only as its handler let it through. *)
THEOREM HookIsNotBypassed == Spec => []HookHolds
<1>1. IInv => HookHolds
  BY DEF IInv
<1> QED
  BY <1>1, Invariance, PTL

-----------------------------------------------------------------------------
(***************************************************************************)
(* What becomes of the previews and the artifacts, for any number of       *)
(* callers, processes, transactions and deaths: a cancelled run leaves     *)
(* nothing that could commit, a durable transaction is always loadable,    *)
(* and a process lets go of what it has reserved.                          *)
(*                                                                         *)
(* The argument is ownership.  Until a run has answered, nobody else knows *)
(* its transaction, so only the run itself takes steps on it; once it has  *)
(* answered Cancelled, nobody ever does.                                   *)
(***************************************************************************)

(* The states of a transaction that only its run has worked on.             *)
Fresh == {"Absent", "Denied", "AutoApproved", "PendingApproval"}

(* Where only a run gets, and where none does.                              *)
RunOnly == {"keep", "record", "answer", "withdraw", "revoke"}
NeverRun == {"judge", "resolve", "withhold", "reject", "forget", "review", "grant"}

Running(c) == pc[c] # "idle" /\ work[c].op = "run"

Unretained(t) == \A p \in Process : t \notin retained[p]

PreviewsTyped ==
  /\ blobs \subseteq Txn /\ withdrawn \subseteq Txn
  /\ retained \in [Process -> SUBSET Txn]
  /\ \A p \in Process : IsFiniteSet(retained[p]) /\ Cardinality(retained[p]) <= MaxEphemeral
  /\ deaths \in 0..MaxDeaths

(* A run owns its transaction, any other call's is public; and what either  *)
(* knows of it where it is.                                                 *)
TaskOK(c) ==
  pc[c] # "idle" =>
    /\ work[c].op = "run" =>
         /\ home[Subject(c)] = At(c) /\ Subject(c) \notin published \cup withdrawn
         /\ pc[c] \notin NeverRun
         /\ pc[c] \notin Entered => state[Subject(c)] \in Fresh
    /\ work[c].op # "run" => Subject(c) \in published /\ pc[c] \notin RunOnly
    /\ pc[c] \in {"keep", "record"} => state[Subject(c)] = "Absent"
    /\ pc[c] \in {"keep", "record", "revoke"} => Unretained(Subject(c))
    /\ pc[c] \in {"record", "create", "createExact"} => Subject(c) \in blobs

(* No two runs have the same transaction.                                   *)
Alone == \A c, d \in Call : Running(c) /\ Running(d) /\ Subject(c) = Subject(d) => c = d

(* Previews stay at home, and what was withdrawn was never published.       *)
HomesOK ==
  /\ \A p \in Process : \A t \in retained[p] : home[t] = p
  /\ \A t \in withdrawn : home[t] # None /\ t \notin published

(* The artifact is on disk before the record is.                            *)
Sealed == \A t \in Txn : state[t] \notin {"Absent", "Denied"} => t \in blobs

(* A record is that of a run.                                               *)
Recorded == \A t \in Txn : state[t] # "Absent" => home[t] # None

PInv ==
  /\ PreviewsTyped /\ HomesOK /\ Sealed /\ Recorded /\ Alone
  /\ \A c \in Call : TaskOK(c)
  /\ CancelledRunWithdrawn

-----------------------------------------------------------------------------
(* One operation of the store, or none, on transaction t.                   *)
Touches(t) ==
  \/ UNCHANGED store
  \/ \E s \in Store!CreatedIn : Store!Create(t, s) /\ (s # "Denied" => t \in blobs)
  \/ \E e, n : Store!CompareAndTransition(t, e, n)
  \/ \E g : Store!Approve(t, g)
  \/ \E now : Store!Reserve(t, now) \/ Store!ReserveExpired(t, now)

(* The others' records stay as they are, and a record appears only over an  *)
(* artifact.                                                                *)
LEMMA TouchedAlone ==
  ASSUME Store!TypeOK, Sealed, NEW t \in Txn, Touches(t)
  PROVE  /\ \A x \in Txn \ {t} : state'[x] = state[x]
         /\ state'[t] \notin {"Absent", "Denied"} => t \in blobs
<1>0. state \in [Txn -> States \cup {"Absent"}]
  BY SameLifecycle DEF Store!TypeOK
<1>1. CASE UNCHANGED store
  BY <1>1 DEF store, Sealed
<1>2. ASSUME NEW s \in Store!CreatedIn, Store!Create(t, s), s # "Denied" => t \in blobs
      PROVE  /\ \A x \in Txn \ {t} : state'[x] = state[x]
             /\ state'[t] \notin {"Absent", "Denied"} => t \in blobs
  BY <1>0, <1>2 DEF Store!Create
<1>3. ASSUME NEW e, NEW n, Store!CompareAndTransition(t, e, n)
      PROVE  /\ \A x \in Txn \ {t} : state'[x] = state[x]
             /\ state'[t] \notin {"Absent", "Denied"} => t \in blobs
  <2>1. e \notin {"Absent", "Denied"}
    BY <1>3 DEF Store!CompareAndTransition, Store!CanTransitionTo, Store!Successors
  <2> QED
    BY <1>0, <1>3, <2>1 DEF Store!CompareAndTransition, Sealed
<1>4. ASSUME NEW g, Store!Approve(t, g)
      PROVE  /\ \A x \in Txn \ {t} : state'[x] = state[x]
             /\ state'[t] \notin {"Absent", "Denied"} => t \in blobs
  BY <1>0, <1>4 DEF Store!Approve, Sealed
<1>5. ASSUME NEW now, Store!Reserve(t, now) \/ Store!ReserveExpired(t, now)
      PROVE  /\ \A x \in Txn \ {t} : state'[x] = state[x]
             /\ state'[t] \notin {"Absent", "Denied"} => t \in blobs
  BY <1>0, <1>5 DEF Store!Reserve, Store!Reservable, Store!ReserveExpired, Sealed
<1> QED
  BY <1>1, <1>2, <1>3, <1>4, <1>5 DEF Touches

-----------------------------------------------------------------------------
(* How a step of a call on t shows outside: nothing of another transaction  *)
(* changes for the better of a commit.                                      *)
Local(t) ==
  /\ blobs \subseteq blobs'
  /\ published \subseteq published' /\ published' \subseteq published \cup {t}
  /\ withdrawn \subseteq withdrawn' /\ withdrawn' \subseteq withdrawn \cup {t}
  /\ \A x \in Txn \ {t} : state'[x] = state[x]
  /\ \A x \in Txn \ {t} : Unretained(x) => \A p \in Process : x \notin retained'[p]

(* Two calls share a transaction only when it is public.                    *)
LEMMA Foreign ==
  ASSUME PInv, NEW c \in Call, NEW d \in Call, c # d, pc[c] # "idle", Running(d)
  PROVE  Subject(d) # Subject(c)
<1>1. CASE work[c].op = "run"
  BY <1>1 DEF PInv, Alone, Running
<1>2. CASE work[c].op # "run"
  <2>1. Subject(c) \in published
    BY <1>2 DEF PInv, TaskOK
  <2>2. Subject(d) \notin published
    BY DEF PInv, TaskOK, Running
  <2> QED
    BY <2>1, <2>2
<1> QED
  BY <1>1, <1>2

LEMMA BystanderKeeps ==
  ASSUME IInv, PInv, HomeKept, NEW t, Local(t),
         NEW d \in Call, pc'[d] = pc[d], work'[d] = work[d], Running(d) => Subject(d) # t
  PROVE  TaskOK(d)'
<1> SUFFICES ASSUME pc[d] # "idle" PROVE TaskOK(d)'
  BY DEF TaskOK
<1>1. /\ TaskOK(d) /\ Subject(d) \in Txn /\ home'[Subject(d)] = home[Subject(d)]
      /\ Subject(d)' = Subject(d) /\ At(d)' = At(d)
  BY DEF IInv, PInv, CallOK, HomeKept, Subject, At
<1>2. CASE work[d].op = "run"
  <2>1. /\ Subject(d) \in Txn \ {t}
        /\ state'[Subject(d)] = state[Subject(d)]
        /\ Unretained(Subject(d)) => \A p \in Process : Subject(d) \notin retained'[p]
        /\ Subject(d) \in published' => Subject(d) \in published
        /\ Subject(d) \in withdrawn' => Subject(d) \in withdrawn
    BY <1>1, <1>2 DEF Local, Running
  <2> QED
    BY <1>1, <1>2, <2>1 DEF TaskOK, Local, Unretained
<1>3. CASE work[d].op # "run"
  BY <1>1, <1>3 DEF TaskOK, Local, RunOnly
<1> QED
  BY <1>2, <1>3

-----------------------------------------------------------------------------
(* The outcome of a step for whoever holds the call's answer.               *)
Silent == UNCHANGED <<published, withdrawn>>

Answers(c) == published' = published \cup {Subject(c)} /\ withdrawn' = withdrawn

Withdraws(c) ==
  /\ published' = published
  /\ \/ work[c].op # "run" /\ withdrawn' = withdrawn
     \/ /\ work[c].op = "run" /\ withdrawn' = withdrawn \cup {Subject(c)}
        /\ state'[Subject(c)] \in {"Absent", "Denied", "PendingApproval"}
        /\ \A p \in Process : Subject(c) \notin retained'[p]

(* What a step of a busy call has to do for the invariant.                  *)
Owns(c) ==
  /\ Local(Subject(c))
  /\ state'[Subject(c)] \notin {"Absent", "Denied"} => Subject(c) \in blobs'
  /\ Silent \/ Answers(c) \/ Withdraws(c)
  /\ PreviewsTyped' /\ \A p \in Process : \A x \in retained'[p] : home[x] = p
  /\ pc'[c] # "idle" => work'[c].txn = Subject(c) /\ work'[c].op = work[c].op
  /\ TaskOK(c)'

LEMMA OwnerKeeps ==
  ASSUME IInv, PInv, home' = home, NEW c \in Call, pc[c] # "idle", Acts(c), Owns(c)
  PROVE  PInv'
<1>1. Subject(c) \in Txn /\ TaskOK(c)
  BY DEF IInv, PInv, CallOK
<1>2. Subject(c) \notin withdrawn
  BY <1>1 DEF PInv, TaskOK, HomesOK
<1>3. \A d \in Call : TaskOK(d)'
  <2> SUFFICES ASSUME NEW d \in Call, d # c PROVE TaskOK(d)'
    BY DEF Owns
  <2>1. pc'[d] = pc[d] /\ work'[d] = work[d]
    BY DEF Acts
  <2>2. Running(d) => Subject(d) # Subject(c)
    BY Foreign
  <2> QED
    BY <2>1, <2>2, BystanderKeeps DEF Owns, HomeKept
<1>4. Alone'
  <2>1. \A d \in Call : Running(d)' => Running(d) /\ Subject(d)' = Subject(d)
    BY DEF Acts, Owns, Running, Subject
  <2> QED
    BY <2>1 DEF Alone, PInv
<1>5. HomesOK'
  <2>1. \A x \in withdrawn' : home[x] # None /\ x \notin published'
    BY <1>1, <1>2 DEF Owns, Silent, Answers, Withdraws, PInv, HomesOK, IInv, CallOK, TaskOK
  <2> QED
    BY <2>1 DEF HomesOK, Owns
<1>6. Sealed'
  <2>1. \A x \in Txn \ {Subject(c)} : state'[x] = state[x]
    BY DEF Owns, Local
  <2> QED
    BY <2>1 DEF Sealed, PInv, Owns, Local
<1>7. Recorded'
  <2>1. \A x \in Txn \ {Subject(c)} : state'[x] = state[x]
    BY DEF Owns, Local
  <2> QED
    BY <1>1, <2>1 DEF Recorded, PInv, IInv, CallOK
<1>8. CancelledRunWithdrawn'
  <2> SUFFICES ASSUME NEW x \in withdrawn'
               PROVE  /\ state'[x] \in {"Absent", "Denied", "PendingApproval"}
                      /\ \A p \in Process : x \notin retained'[p]
    BY DEF CancelledRunWithdrawn
  <2>1. CASE x \in withdrawn
    <3>1. x \in Txn \ {Subject(c)} /\ Unretained(x) /\ state[x] \in {"Absent", "Denied", "PendingApproval"}
      BY <1>2, <2>1 DEF PInv, PreviewsTyped, CancelledRunWithdrawn, Unretained
    <3> QED
      BY <3>1 DEF Owns, Local
  <2>2. CASE x \notin withdrawn
    BY <2>2 DEF Owns, Silent, Answers, Withdraws
  <2> QED
    BY <2>1, <2>2
<1> QED
  BY <1>3, <1>4, <1>5, <1>6, <1>7, <1>8 DEF PInv, Owns

-----------------------------------------------------------------------------
(* Most steps keep the previews or drop the call's own.                     *)
Drops(c) ==
  \/ retained' = retained
  \/ retained' = [retained EXCEPT ![At(c)] = @ \ {Subject(c)}]

LEMMA DropsTyped ==
  ASSUME IInv, PInv, NEW c \in Call, pc[c] # "idle", Drops(c)
  PROVE  /\ retained' \in [Process -> SUBSET Txn]
         /\ \A p \in Process :
              /\ retained'[p] \subseteq retained[p]
              /\ IsFiniteSet(retained'[p]) /\ Cardinality(retained'[p]) <= MaxEphemeral
<1>1. retained \in [Process -> SUBSET Txn] /\ At(c) \in Process
  BY DEF PInv, PreviewsTyped, IInv, CallOK
<1>2. retained' \in [Process -> SUBSET Txn] /\ \A p \in Process : retained'[p] \subseteq retained[p]
  BY <1>1 DEF Drops
<1>3. ASSUME NEW p \in Process
      PROVE  IsFiniteSet(retained'[p]) /\ Cardinality(retained'[p]) <= MaxEphemeral
  <2>1. /\ IsFiniteSet(retained[p]) /\ Cardinality(retained[p]) <= MaxEphemeral
        /\ retained'[p] \subseteq retained[p]
    BY <1>2 DEF PInv, PreviewsTyped
  <2>2. /\ IsFiniteSet(retained'[p])
        /\ Cardinality(retained'[p]) <= Cardinality(retained[p])
    BY <2>1, FS_Subset
  <2>3. Cardinality(retained[p]) \in Nat /\ Cardinality(retained'[p]) \in Nat
    BY <2>1, <2>2, FS_CardinalityType
  <2> QED
    BY <2>1, <2>2, <2>3, RuntimeAssumption
<1> QED
  BY <1>2, <1>3

(* A step of the store at most, or a new artifact for the call's own.       *)
Modest(c) ==
  /\ Touches(Subject(c)) /\ Drops(c)
  /\ blobs' \in {blobs, blobs \cup {Subject(c)}}
  /\ UNCHANGED <<home, deaths>>

LEMMA ModestKeeps ==
  ASSUME IInv, PInv, NEW c \in Call, pc[c] # "idle", Modest(c),
         Silent \/ Answers(c) \/ Withdraws(c)
  PROVE  /\ Local(Subject(c))
         /\ state'[Subject(c)] \notin {"Absent", "Denied"} => Subject(c) \in blobs'
         /\ PreviewsTyped' /\ \A p \in Process : \A x \in retained'[p] : home[x] = p
<1>1. Subject(c) \in Txn /\ At(c) \in Process
  BY DEF IInv, CallOK
<1>2. /\ \A x \in Txn \ {Subject(c)} : state'[x] = state[x]
      /\ state'[Subject(c)] \notin {"Absent", "Denied"} => Subject(c) \in blobs
  BY <1>1, TouchedAlone DEF IInv, PInv, Modest
<1>3. /\ retained' \in [Process -> SUBSET Txn]
      /\ \A p \in Process :
           /\ retained'[p] \subseteq retained[p]
           /\ IsFiniteSet(retained'[p]) /\ Cardinality(retained'[p]) <= MaxEphemeral
  BY DropsTyped DEF Modest
<1>4. /\ published \subseteq published' /\ published' \subseteq published \cup {Subject(c)}
      /\ withdrawn \subseteq withdrawn' /\ withdrawn' \subseteq withdrawn \cup {Subject(c)}
  BY DEF Silent, Answers, Withdraws
<1>5. \A x \in Txn : Unretained(x) => \A p \in Process : x \notin retained'[p]
  BY <1>3 DEF Unretained
<1>6. blobs \subseteq blobs' /\ blobs' \subseteq Txn /\ deaths' \in 0..MaxDeaths /\ withdrawn' \subseteq Txn
  BY <1>1, <1>4 DEF Modest, PInv, PreviewsTyped
<1>7. Local(Subject(c))
  BY <1>2, <1>4, <1>5, <1>6 DEF Local
<1>8. PreviewsTyped'
  BY <1>3, <1>6 DEF PreviewsTyped
<1>9. \A p \in Process : \A x \in retained'[p] : home[x] = p
  BY <1>3 DEF PInv, HomesOK
<1> QED
  BY <1>2, <1>6, <1>7, <1>8, <1>9

LEMMA EndOwns ==
  ASSUME IInv, PInv, NEW c \in Call, pc[c] # "idle", Modest(c), pc'[c] = "idle",
         Silent \/ Answers(c) \/ Withdraws(c)
  PROVE  Owns(c)
BY ModestKeeps DEF Owns, TaskOK

(* What a call that moves on has to have made sure of.                      *)
Ready(c, next) ==
  /\ next \notin {"idle", "keep", "record"}
  /\ work[c].op = "run" => next \notin NeverRun /\ (next \notin Entered => state'[Subject(c)] \in Fresh)
  /\ work[c].op # "run" => next \notin RunOnly
  /\ next = "revoke" => \A p \in Process : Subject(c) \notin retained'[p]
  /\ next \in {"create", "createExact"} => Subject(c) \in blobs'

LEMMA MoveOwns ==
  ASSUME IInv, PInv, NEW c \in Call, pc[c] # "idle", Modest(c), Silent,
         NEW next, pc'[c] = next, Ready(c, next),
         work'[c].txn = Subject(c), work'[c].op = work[c].op, work'[c].at = At(c)
  PROVE  Owns(c)
<1>1. Subject(c)' = Subject(c) /\ At(c)' = At(c) /\ TaskOK(c)
  BY DEF Subject, At, PInv
<1>2. TaskOK(c)'
  BY <1>1 DEF TaskOK, Ready, Silent, Modest, Unretained
<1> QED
  BY <1>2, ModestKeeps DEF Owns

-----------------------------------------------------------------------------
(* The steps that only a run takes.                                         *)
LEMMA CalmTouches == ASSUME UNCHANGED store, NEW t PROVE Touches(t)
BY DEF Touches

LEMMA Busy ==
  ASSUME IInv, PInv, NEW c \in Call, pc[c] # "idle"
  PROVE  /\ CallOK(c) /\ TaskOK(c) /\ Subject(c) \in Txn /\ At(c) \in Process
         /\ CallsTyped /\ PreviewsTyped
         /\ state \in [Txn -> States \cup {"Absent"}]
BY SameLifecycle DEF IInv, PInv, CallOK, Store!TypeOK

LEMMA KeepOwns ==
  ASSUME IInv, PInv, NEW c \in Call, Acts(c), Keep(c)
  PROVE  Owns(c)
<1>0. pc[c] = "keep" /\ UNCHANGED <<home, deaths>>
  BY DEF Keep, history
<1>1. /\ CallOK(c) /\ TaskOK(c) /\ Subject(c) \in Txn /\ At(c) \in Process
      /\ CallsTyped /\ PreviewsTyped /\ state \in [Txn -> States \cup {"Absent"}]
  BY <1>0, Busy
<1>2. /\ work[c].op = "run" /\ state[Subject(c)] = "Absent" /\ Unretained(Subject(c))
      /\ home[Subject(c)] = At(c)
  BY <1>0, <1>1 DEF TaskOK, RunOnly
<1>3. CASE ReturnCancelled(c) /\ UNCHANGED <<store, blobs, retained>>
  <2>1. Modest(c) /\ pc'[c] = "idle" /\ Withdraws(c)
    BY <1>0, <1>1, <1>2, <1>3, CalmTouches
    DEF Modest, Drops, ReturnCancelled, End, Withdraws, store, CallsTyped, Unretained
  <2> QED
    BY <1>0, <2>1, EndOwns
<1>4. CASE End(c) /\ UNCHANGED <<store, blobs, retained, published, withdrawn>>
  <2>1. Modest(c) /\ pc'[c] = "idle" /\ Silent
    BY <1>0, <1>1, <1>4, CalmTouches DEF Modest, Drops, End, Silent, CallsTyped
  <2> QED
    BY <1>0, <2>1, EndOwns
<1>5. CASE /\ Store!Create(Subject(c), "Denied") /\ Continue(c, "answer")
           /\ UNCHANGED <<blobs, retained>>
  <2>1. Modest(c) /\ Silent
    BY <1>0, <1>5 DEF Modest, Drops, Touches, Silent, Continue, Store!CreatedIn
  <2>2. Ready(c, "answer")
    BY <1>1, <1>2, <1>5 DEF Ready, Store!Create, Fresh, NeverRun, Entered
  <2> QED
    BY <1>0, <1>1, <1>5, <2>1, <2>2, ContinueActs, MoveOwns DEF Places, Subject, At
<1>6. CASE blobs' = blobs \cup {Subject(c)} /\ Continue(c, "record") /\ UNCHANGED <<store, retained>>
  <2>1. Modest(c) /\ Silent
    BY <1>0, <1>6, CalmTouches DEF Modest, Drops, Silent, Continue
  <2>2. pc'[c] = "record" /\ work'[c] = work[c]
    BY <1>1, <1>6, ContinueActs DEF Places
  <2>3. TaskOK(c)'
    BY <1>0, <1>1, <1>2, <1>6, <2>1, <2>2
    DEF TaskOK, Subject, At, Silent, Unretained, NeverRun, RunOnly, Fresh, store
  <2> QED
    BY <1>0, <2>1, <2>2, <2>3, ModestKeeps DEF Owns, Subject
<1>7. CASE /\ ~Full(At(c)) /\ retained' = [retained EXCEPT ![At(c)] = @ \cup {Subject(c)}]
           /\ Continue(c, "answer") /\ UNCHANGED <<store, blobs>>
  <2>1. pc'[c] = "answer" /\ work'[c] = work[c] /\ Silent
    BY <1>1, <1>7, ContinueActs DEF Places, Silent, Continue
  <2>2. /\ retained' \in [Process -> SUBSET Txn]
        /\ \A p \in Process \ {At(c)} : retained'[p] = retained[p]
        /\ retained'[At(c)] = retained[At(c)] \cup {Subject(c)}
    BY <1>1, <1>7 DEF PreviewsTyped
  <2>3. IsFiniteSet(retained'[At(c)]) /\ Cardinality(retained'[At(c)]) <= MaxEphemeral
    <3>1. /\ IsFiniteSet(retained[At(c)]) /\ Cardinality(retained[At(c)]) \in Nat
          /\ Subject(c) \notin retained[At(c)]
      BY <1>1, <1>2, FS_CardinalityType DEF PreviewsTyped, Unretained
    <3>2. /\ IsFiniteSet(retained'[At(c)])
          /\ Cardinality(retained'[At(c)]) = Cardinality(retained[At(c)]) + 1
      BY <2>2, <3>1, FS_AddElement
    <3> QED
      BY <1>7, <3>1, <3>2, RuntimeAssumption DEF Full
  <2>4. PreviewsTyped'
    BY <1>0, <1>1, <1>7, <2>1, <2>2, <2>3 DEF PreviewsTyped, Silent
  <2>5. \A p \in Process : \A x \in retained'[p] : home[x] = p
    BY <1>2, <2>2 DEF PInv, HomesOK
  <2>6. Local(Subject(c))
    BY <1>7, <2>1, <2>2 DEF Local, Silent, store, Unretained
  <2>7. TaskOK(c)'
    BY <1>0, <1>1, <1>2, <1>7, <2>1 DEF TaskOK, Subject, At, Silent, NeverRun, Fresh, store
  <2> QED
    BY <1>2, <1>7, <2>1, <2>4, <2>5, <2>6, <2>7 DEF Owns, Subject, store
<1> QED
  BY <1>3, <1>4, <1>5, <1>6, <1>7 DEF Keep

LEMMA RecordOwns ==
  ASSUME IInv, PInv, NEW c \in Call, Acts(c), Record(c)
  PROVE  Owns(c)
<1>0. pc[c] = "record" /\ UNCHANGED <<home, deaths, blobs, retained>>
  BY DEF Record, history
<1>1. /\ CallOK(c) /\ TaskOK(c) /\ Subject(c) \in Txn /\ CallsTyped
      /\ state \in [Txn -> States \cup {"Absent"}]
  BY <1>0, Busy
<1>2. work[c].op = "run" /\ Subject(c) \in blobs /\ work[c].receipt \in Store!CreatedIn
  BY <1>0, <1>1 DEF TaskOK, CallOK, RunOnly
<1>3. Modest(c) /\ Silent
  BY <1>0, <1>2 DEF Record, Modest, Drops, Touches, Silent, Continue
<1>4. Ready(c, "answer")
  BY <1>1, <1>2 DEF Record, Ready, Store!Create, Store!CreatedIn, Fresh, NeverRun, Entered
<1> QED
  BY <1>0, <1>1, <1>3, <1>4, ContinueActs, MoveOwns DEF Record, Places, Subject, At

LEMMA AnswerOwns ==
  ASSUME IInv, PInv, NEW c \in Call, Acts(c), Answer(c)
  PROVE  Owns(c)
<1>0. pc[c] = "answer" /\ UNCHANGED <<store, home, deaths, blobs, retained>>
  BY DEF Answer, history
<1>1. TaskOK(c) /\ CallsTyped
  BY <1>0, Busy
<1>2. work[c].op = "run" /\ state'[Subject(c)] \in Fresh
  BY <1>0, <1>1 DEF TaskOK, RunOnly, Entered, store
<1>3. Modest(c)
  BY <1>0, CalmTouches DEF Modest, Drops
<1>4. CASE Return(c)
  <2>1. pc'[c] = "idle" /\ Answers(c)
    BY <1>1, <1>4 DEF Return, End, Answers, CallsTyped
  <2> QED
    BY <1>0, <1>3, <2>1, EndOwns
<1>5. ASSUME NEW next \in {"withdraw", "enter", "prepare"}, Continue(c, next) PROVE Owns(c)
  <2>1. Ready(c, next) /\ Silent
    BY <1>2, <1>5 DEF Ready, NeverRun, Silent, Continue
  <2> QED
    BY <1>0, <1>1, <1>3, <1>5, <2>1, ContinueActs, MoveOwns DEF Places, Subject, At
<1> QED
  BY <1>4, <1>5 DEF Answer

LEMMA WithdrawOwns ==
  ASSUME IInv, PInv, NEW c \in Call, Acts(c), Withdraw(c)
  PROVE  Owns(c)
<1>0. pc[c] = "withdraw" /\ UNCHANGED <<store, home, deaths, blobs>>
  BY DEF Withdraw, history
<1>1. TaskOK(c) /\ CallsTyped /\ PreviewsTyped
  BY <1>0, Busy
<1>2. /\ work[c].op = "run" /\ state'[Subject(c)] \in Fresh
      /\ home[Subject(c)] = At(c)
  BY <1>0, <1>1 DEF TaskOK, RunOnly, Entered, store
<1>3. Modest(c) /\ Silent
  BY <1>0, CalmTouches DEF Withdraw, Modest, Drops, Silent, Continue
<1>4. \A p \in Process : Subject(c) \notin retained'[p]
  BY <1>1, <1>2 DEF Withdraw, PreviewsTyped, PInv, HomesOK
<1>5. Ready(c, "revoke")
  BY <1>2, <1>4 DEF Ready, NeverRun
<1> QED
  BY <1>0, <1>1, <1>3, <1>5, ContinueActs, MoveOwns DEF Withdraw, Places, Subject, At

LEMMA RevokeOwns ==
  ASSUME IInv, PInv, NEW c \in Call, Acts(c), Revoke(c)
  PROVE  Owns(c)
<1>0. pc[c] = "revoke" /\ UNCHANGED <<home, deaths, blobs, retained>> /\ ReturnCancelled(c)
  BY DEF Revoke, history
<1>1. /\ TaskOK(c) /\ CallsTyped /\ Subject(c) \in Txn
      /\ state \in [Txn -> States \cup {"Absent"}]
  BY <1>0, Busy
<1>2. work[c].op = "run" /\ state[Subject(c)] \in Fresh /\ Unretained(Subject(c))
  BY <1>0, <1>1 DEF TaskOK, RunOnly, Entered
<1>3. Touches(Subject(c)) /\ state'[Subject(c)] \in {"Absent", "Denied", "PendingApproval"}
  <2>1. CASE state[Subject(c)] = "AutoApproved"
    BY <1>1, <2>1 DEF Revoke, Touches, Store!CompareAndTransition
  <2>2. CASE state[Subject(c)] # "AutoApproved"
    BY <1>2, <2>2 DEF Revoke, Touches, store, Fresh
  <2> QED
    BY <2>1, <2>2
<1>4. Modest(c) /\ pc'[c] = "idle" /\ Withdraws(c)
  BY <1>0, <1>1, <1>2, <1>3 DEF Modest, Drops, ReturnCancelled, End, Withdraws, CallsTyped, Unretained
<1> QED
  BY <1>0, <1>4, EndOwns

-----------------------------------------------------------------------------
(* The steps of any call.                                                   *)
LEMMA ReturnOwns ==
  ASSUME IInv, PInv, NEW c \in Call, pc[c] # "idle", Modest(c), Return(c)
  PROVE  Owns(c)
<1>1. pc'[c] = "idle" /\ Answers(c)
  BY DEF Return, End, Answers, IInv, CallsTyped
<1> QED
  BY <1>1, EndOwns

(* Only a call that is no run is told Cancelled outside of a withdrawal.    *)
LEMMA CancelledOwns ==
  ASSUME IInv, PInv, NEW c \in Call, pc[c] # "idle", Modest(c), ReturnCancelled(c),
         work[c].op # "run"
  PROVE  Owns(c)
<1>1. pc'[c] = "idle" /\ Withdraws(c)
  BY DEF ReturnCancelled, End, Withdraws, IInv, CallsTyped
<1> QED
  BY <1>1, EndOwns

LEMMA ContinueOwns ==
  ASSUME IInv, PInv, NEW c \in Call, pc[c] # "idle", Modest(c),
         NEW next \in Places, Continue(c, next) \/ EnterCommit(c, next), Ready(c, next)
  PROVE  Owns(c)
<1>1. pc'[c] = next /\ work'[c] = work[c] /\ Silent
  BY DEF Continue, EnterCommit, Silent, IInv, CallsTyped
<1> QED
  BY <1>1, MoveOwns DEF Subject, At

LEMMA PrepareOwns ==
  ASSUME IInv, PInv, NEW c \in Call, Acts(c), PrepareCommit(c) \/ Exact(c)
  PROVE  Owns(c)
<1>0. pc[c] \in {"prepare", "persist", "create", "exact", "persistExact", "createExact"}
      /\ UNCHANGED <<home, deaths, retained>>
  BY DEF PrepareCommit, Exact, Load, Persist, Create, history
<1>1. /\ TaskOK(c) /\ CallsTyped /\ Subject(c) \in Txn
      /\ state \in [Txn -> States \cup {"Absent"}]
  BY <1>0, Busy
<1>2. ASSUME NEW at, NEW next \in Places \ {"idle", "keep", "record", "revoke"},
             next \notin NeverRun \cup RunOnly, Load(c, at, next),
             work[c].op = "run" /\ next \notin Entered => state[Subject(c)] \in Fresh,
             next \notin {"create", "createExact"}
      PROVE  Owns(c)
  <2>1. Modest(c)
    BY <1>0, <1>2, CalmTouches DEF Load, Modest, Drops
  <2>2. Ready(c, next)
    BY <1>2 DEF Ready, Load, store
  <2> QED
    BY <1>0, <1>2, <2>1, <2>2, ReturnOwns, ContinueOwns DEF Load
<1>3. ASSUME NEW at, NEW create \in {"create", "createExact"}, NEW next \in {"prepared", "reserve"},
             Persist(c, at, create, next),
             work[c].op = "run" /\ (create \notin Entered \/ next \notin Entered)
               => state[Subject(c)] \in Fresh
      PROVE  Owns(c)
  <2>1. Modest(c)
    BY <1>0, <1>3, CalmTouches DEF Persist, Modest, Drops
  <2>2. CASE Continue(c, next)
    <3>1. Ready(c, next)
      BY <1>3 DEF Ready, Persist, store, NeverRun, RunOnly
    <3> QED
      BY <1>0, <2>1, <2>2, <3>1, ContinueOwns DEF Places, Entered
  <2>3. CASE Continue(c, create) /\ blobs' = blobs \cup {Subject(c)}
    <3>1. Ready(c, create)
      BY <1>3, <2>3 DEF Ready, Persist, store, NeverRun, RunOnly
    <3> QED
      BY <1>0, <2>1, <2>3, <3>1, ContinueOwns DEF Places, Entered
  <2> QED
    BY <1>3, <2>2, <2>3 DEF Persist
<1>4. ASSUME NEW at \in {"create", "createExact"}, NEW next \in {"prepared", "reserve"},
             Create(c, at, next)
      PROVE  Owns(c)
  <2>1. Subject(c) \in blobs
    BY <1>1, <1>4 DEF Create, TaskOK
  <2>2. Modest(c)
    BY <1>0, <1>4, <2>1 DEF Create, Modest, Drops, Touches, Store!CreatedIn
  <2>3. CASE Return(c)
    BY <1>0, <2>2, <2>3, ReturnOwns
  <2>4. CASE Store!Create(Subject(c), "AutoApproved") /\ Continue(c, next)
    <3>1. state'[Subject(c)] = "AutoApproved"
      BY <1>1, <2>4 DEF Store!Create
    <3>2. Ready(c, next)
      BY <1>4, <3>1 DEF Ready, NeverRun, RunOnly, Fresh
    <3> QED
      BY <1>0, <2>2, <2>4, <3>2, ContinueOwns DEF Places, Entered
  <2> QED
    BY <1>4, <2>3, <2>4 DEF Create
<1>5. CASE PrepareCommit(c)
  <2>1. work[c].op = "run" => state[Subject(c)] \in Fresh
    BY <1>1, <1>5 DEF PrepareCommit, Load, Persist, Create, TaskOK, Entered
  <2>2. CASE Load(c, "prepare", "persist")
    BY <1>2, <2>1, <2>2 DEF Places, NeverRun, RunOnly
  <2>3. CASE Persist(c, "persist", "create", "prepared") \/ Create(c, "create", "prepared")
    BY <1>3, <1>4, <2>1, <2>3
  <2> QED
    BY <1>5, <2>2, <2>3 DEF PrepareCommit
<1>6. CASE Exact(c)
  <2>1. CASE Load(c, "exact", "persistExact")
    BY <1>2, <2>1 DEF Places, Entered, NeverRun, RunOnly
  <2>2. CASE Persist(c, "persistExact", "createExact", "reserve") \/ Create(c, "createExact", "reserve")
    BY <1>3, <1>4, <2>2 DEF Entered
  <2> QED
    BY <1>6, <2>1, <2>2 DEF Exact
<1> QED
  BY <1>5, <1>6

LEMMA HookOwns ==
  ASSUME IInv, PInv, NEW c \in Call, Acts(c), Prepared(c) \/ Judge(c)
  PROVE  Owns(c)
<1>0. pc[c] \in {"prepared", "judge"} /\ UNCHANGED <<store, home, deaths, blobs, retained>>
  BY DEF Prepared, Judge, history
<1>1. TaskOK(c) /\ CallsTyped
  BY <1>0, Busy
<1>2. Modest(c)
  BY <1>0, CalmTouches DEF Modest, Drops
<1>3. work[c].op = "run" => pc[c] = "prepared" /\ state'[Subject(c)] \in Fresh
  BY <1>0, <1>1 DEF TaskOK, NeverRun, Entered, store
<1>4. CASE Return(c)
  BY <1>0, <1>2, <1>4, ReturnOwns
<1>5. CASE Continue(c, "enter")
  BY <1>0, <1>2, <1>3, <1>5, ContinueOwns DEF Ready, NeverRun, RunOnly, Places
<1>6. CASE Continue(c, "withhold") /\ pc[c] = "judge"
  BY <1>0, <1>2, <1>3, <1>6, ContinueOwns DEF Ready, RunOnly, Places
<1>7. ASSUME NEW next \in {"judge", "resolve"}, work[c].op # "run",
             pc' = [pc EXCEPT ![c] = next], UNCHANGED <<published, withdrawn>>,
             work'[c].txn = work[c].txn, work'[c].op = work[c].op, work'[c].at = work[c].at
      PROVE  Owns(c)
  <2>1. pc'[c] = next /\ Silent /\ Ready(c, next)
    BY <1>1, <1>7 DEF CallsTyped, Silent, Ready, RunOnly
  <2> QED
    BY <1>0, <1>2, <1>7, <2>1, MoveOwns DEF Subject, At
<1>8. ASSUME NEW p, NEW v, work' = [work EXCEPT ![c].prepared = p, ![c].verdict = v]
      PROVE  work'[c].txn = work[c].txn /\ work'[c].op = work[c].op /\ work'[c].at = work[c].at
  BY <1>1, <1>8 DEF CallsTyped, Work
<1>9. ASSUME NEW v, work' = [work EXCEPT ![c].verdict = v]
      PROVE  work'[c].txn = work[c].txn /\ work'[c].op = work[c].op /\ work'[c].at = work[c].at
  BY <1>1, <1>9 DEF CallsTyped, Work
<1>10. CASE Prepared(c)
  <2>1. CASE work[c].op = "hooked"
    <3> DEFINE asked == AppliesTo(Scope[At(c)], state[Subject(c)])
    <3>1. /\ work' = [work EXCEPT ![c].prepared = state[Subject(c)],
                                  ![c].verdict = IF asked THEN "none" ELSE "FollowPolicy"]
          /\ pc' = [pc EXCEPT ![c] = IF asked THEN "judge" ELSE "resolve"]
          /\ UNCHANGED <<published, withdrawn>>
      BY <1>10, <2>1 DEF Prepared
    <3> HIDE DEF asked
    <3>2. work'[c].txn = work[c].txn /\ work'[c].op = work[c].op /\ work'[c].at = work[c].at
      BY <1>8, <3>1
    <3>3. \E next \in {"judge", "resolve"} : pc' = [pc EXCEPT ![c] = next]
      BY <3>1
    <3> QED
      BY <1>7, <2>1, <3>1, <3>2, <3>3
  <2> QED
    BY <1>4, <1>5, <1>10, <2>1 DEF Prepared
<1>11. CASE Judge(c)
  <2>1. pc[c] = "judge" /\ work[c].op # "run"
    BY <1>3, <1>11 DEF Judge
  <2>2. ASSUME NEW v \in Verdicts, work' = [work EXCEPT ![c].verdict = v],
               pc' = [pc EXCEPT ![c] = "resolve"], UNCHANGED <<published, withdrawn>>
        PROVE  Owns(c)
    BY <1>7, <1>9, <2>1, <2>2
  <2> QED
    BY <1>4, <1>6, <1>11, <2>1, <2>2 DEF Judge
<1> QED
  BY <1>10, <1>11

LEMMA TokenOwns ==
  ASSUME IInv, PInv, NEW c \in Call, Acts(c), Cancel(c) \/ Enter(c)
  PROVE  Owns(c)
<1>0. pc[c] # "idle" /\ UNCHANGED <<store, home, deaths, blobs, retained>>
  BY DEF Cancel, Enter, history
<1>1. TaskOK(c) /\ CallsTyped
  BY <1>0, Busy
<1>2. Modest(c)
  BY <1>0, CalmTouches DEF Modest, Drops
<1>3. CASE Cancel(c)
  <2>1. TaskOK(c)' /\ Silent /\ work'[c].txn = Subject(c) /\ work'[c].op = work[c].op
    BY <1>0, <1>1, <1>3 DEF Cancel, TaskOK, Subject, At, Unretained, Silent, store
  <2> QED
    BY <1>0, <1>2, <2>1, ModestKeeps DEF Owns
<1>4. CASE Enter(c)
  <2>1. work[c].op = "run" => state'[Subject(c)] \in Fresh
    BY <1>0, <1>1, <1>4 DEF Enter, TaskOK, Entered, store
  <2>2. CASE EnterCommit(c, "exact")
    BY <1>0, <1>2, <2>2, ContinueOwns DEF Ready, NeverRun, RunOnly, Places, Entered
  <2>3. CASE work[c].op = "run" /\ Continue(c, "withdraw")
    BY <1>0, <1>2, <2>1, <2>3, ContinueOwns DEF Ready, NeverRun, Places
  <2>4. CASE work[c].op # "run" /\ ReturnCancelled(c)
    BY <1>0, <1>2, <2>4, CancelledOwns
  <2> QED
    BY <1>4, <2>2, <2>3, <2>4 DEF Enter
<1> QED
  BY <1>3, <1>4

LEMMA ResolveOwns ==
  ASSUME IInv, PInv, NEW c \in Call, Acts(c), Resolve(c)
  PROVE  Owns(c)
<1>0. pc[c] = "resolve" /\ UNCHANGED <<store, home, deaths, blobs, retained>>
  BY DEF Resolve, history
<1>1. TaskOK(c)
  BY <1>0, Busy
<1>2. work[c].op # "run"
  BY <1>0, <1>1 DEF TaskOK, NeverRun
<1>3. Modest(c)
  BY <1>0, CalmTouches DEF Modest, Drops
<1>4. CASE Return(c)
  BY <1>0, <1>3, <1>4, ReturnOwns
<1>5. CASE ReturnCancelled(c)
  BY <1>0, <1>2, <1>3, <1>5, CancelledOwns
<1>6. ASSUME NEW next \in {"exact", "grant", "withhold", "reject"},
             Continue(c, next) \/ EnterCommit(c, next)
      PROVE  Owns(c)
  <2>1. Ready(c, next) /\ next \in Places
    BY <1>2, <1>6 DEF Ready, RunOnly, Places, Entered
  <2> QED
    BY <1>0, <1>3, <1>6, <2>1, ContinueOwns
<1> QED
  BY <1>4, <1>5, <1>6 DEF Resolve, Follow, Endorse, Object

LEMMA EffectOwns ==
  ASSUME IInv, PInv, NEW c \in Call, Acts(c),
         \/ Withhold(c) \/ Reject(c) \/ Forget(c) \/ Review(c) \/ Grant(c)
         \/ Reserve(c) \/ Committing(c) \/ Release(c)
  PROVE  Owns(c)
<1>0. pc[c] # "idle" /\ UNCHANGED <<home, deaths, blobs>>
  BY DEF Withhold, Reject, Forget, Review, Grant, Reserve, Committing, Release, history
<1>1. TaskOK(c)
  BY <1>0, Busy
<1>2. Modest(c)
  <2>1. Drops(c)
    BY DEF Withhold, Reject, Forget, Review, Grant, Reserve, Committing, Release, Drops
  <2>2. Touches(Subject(c))
    BY DEF Withhold, Reject, Forget, Review, Grant, Reserve, Committing, Release, Touches
  <2> QED
    BY <1>0, <2>1, <2>2 DEF Modest
<1>3. CASE Return(c)
  BY <1>0, <1>2, <1>3, ReturnOwns
<1>4. CASE pc[c] = "reject" /\ Continue(c, "forget")
  <2>1. Ready(c, "forget")
    BY <1>1, <1>4 DEF Ready, TaskOK, NeverRun, RunOnly
  <2> QED
    BY <1>0, <1>2, <1>4, <2>1, ContinueOwns DEF Places
<1>5. ASSUME NEW next \in {"exact", "committing", "release"}, Continue(c, next) PROVE Owns(c)
  <2>1. Ready(c, next) /\ next \in Places
    BY <1>5 DEF Ready, NeverRun, RunOnly, Entered, Places
  <2> QED
    BY <1>0, <1>2, <1>5, <2>1, ContinueOwns
<1>6. Withhold(c) \/ Forget(c) \/ Review(c) \/ Release(c) => Return(c)
  BY DEF Withhold, Forget, Review, Release
<1>7. Grant(c) => Return(c) \/ Continue(c, "exact")
  BY DEF Grant
<1>8. Reserve(c) \/ Committing(c)
      => Return(c) \/ \E next \in {"committing", "release"} : Continue(c, next)
  BY DEF Reserve, Committing
<1>9. Reject(c) => Return(c) \/ (pc[c] = "reject" /\ Continue(c, "forget"))
  BY DEF Reject
<1> QED
  BY <1>3, <1>4, <1>5, <1>6, <1>7, <1>8, <1>9

-----------------------------------------------------------------------------
(* The steps that begin a call, and those of no call.                       *)
Still == UNCHANGED <<state, blobs, retained, published, withdrawn, deaths>>

(* Nothing that is shared changes, and call c begins.                       *)
LEMMA BeginKeeps ==
  ASSUME IInv, PInv, Still, HomeKept, NEW c \in Call, TaskOK(c)',
         \A d \in Call \ {c} : pc'[d] = pc[d] /\ work'[d] = work[d],
         \A d \in Call \ {c} : Running(c)' /\ Running(d) => Subject(d) # Subject(c)'
  PROVE  PInv'
<1>1. ASSUME NEW d \in Call PROVE TaskOK(d)'
  <2>1. CASE d # c
    <3>1. TaskOK(d) /\ (pc[d] # "idle" => home'[Subject(d)] = home[Subject(d)])
      BY DEF PInv, IInv, CallOK, HomeKept
    <3>2. pc'[d] = pc[d] /\ Subject(d)' = Subject(d) /\ At(d)' = At(d) /\ work'[d] = work[d]
      BY <2>1 DEF Subject, At
    <3> QED
      BY <3>1, <3>2 DEF TaskOK, Still, Unretained
  <2> QED
    BY <2>1
<1>2. Alone'
  <2>1. \A d \in Call \ {c} : (Running(d)' <=> Running(d)) /\ Subject(d)' = Subject(d)
    BY DEF Running, Subject
  <2> QED
    BY <2>1 DEF Alone, PInv
<1>3. PreviewsTyped' /\ Sealed' /\ Recorded' /\ CancelledRunWithdrawn'
  BY DEF PInv, PreviewsTyped, Sealed, Recorded, HomeKept, CancelledRunWithdrawn, Still
<1>4. HomesOK'
  <2>1. \A p \in Process : \A x \in retained[p] : x \in Txn /\ p # None
    BY RuntimeAssumption DEF PInv, PreviewsTyped
  <2>2. \A x \in withdrawn : x \in Txn
    BY DEF PInv, PreviewsTyped
  <2> QED
    BY <2>1, <2>2 DEF PInv, HomesOK, HomeKept, Still
<1> QED
  BY <1>1, <1>2, <1>3, <1>4 DEF PInv

LEMMA StartRunKeeps ==
  ASSUME IInv, PInv, NEW c \in Call, NEW p \in Process, NEW t \in Txn, StartRun(c, p, t)
  PROVE  PInv'
<1>1. /\ CallsTyped /\ home[t] = None /\ Still /\ HomeKept /\ home'[t] = p
  BY DEF IInv, StartRun, Still, store, HomeKept, HistoryTyped
<1>2. PICK decision \in Store!CreatedIn, auto \in BOOLEAN :
        work' = [work EXCEPT ![c] = [Idle EXCEPT !.at = p, !.op = "run", !.txn = t,
                                                 !.auto = auto, !.receipt = decision]]
  BY DEF StartRun
<1>3. /\ pc'[c] = "keep" /\ Subject(c)' = t /\ At(c)' = p /\ work'[c].op = "run"
      /\ \A d \in Call \ {c} : pc'[d] = pc[d] /\ work'[d] = work[d]
  BY <1>1, <1>2 DEF StartRun, CallsTyped, Idle, Subject, At
<1>4. t \notin published \cup withdrawn /\ Unretained(t)
  BY <1>1, RuntimeAssumption DEF IInv, PInv, HomesOK, Unretained
<1>5. state[t] = "Absent"
  BY <1>1 DEF PInv, Recorded
<1>6. TaskOK(c)'
  BY <1>1, <1>3, <1>4, <1>5 DEF TaskOK, Still, Unretained, NeverRun, Fresh
<1>7. \A d \in Call \ {c} : Running(d) => Subject(d) # t
  BY <1>1 DEF IInv, CallOK, Running
<1> QED
  BY <1>1, <1>3, <1>6, <1>7, BeginKeeps

LEMMA StartKeeps ==
  ASSUME IInv, PInv, NEW c \in Call, NEW p \in Process, NEW t \in Txn, NEW op \in Ops,
         Start(c, p, t, op)
  PROVE  PInv'
<1>1. CallsTyped /\ Still /\ HomeKept /\ t \in published /\ op # "run"
  BY RuntimeAssumption DEF IInv, Start, Still, store, history, HomeKept
<1>2. PICK now :
        work' = [work EXCEPT ![c] = [Idle EXCEPT !.at = p, !.op = op, !.txn = t, !.now = now]]
  BY DEF Start
<1>3. /\ pc'[c] \in {"review", "enter", "prepare"}
      /\ Subject(c)' = t /\ work'[c].op = op
      /\ \A d \in Call \ {c} : pc'[d] = pc[d] /\ work'[d] = work[d]
  BY <1>1, <1>2 DEF Start, CallsTyped, Idle, Subject
<1>4. TaskOK(c)'
  BY <1>1, <1>3 DEF TaskOK, Still, RunOnly
<1>5. ~Running(c)'
  BY <1>1, <1>3 DEF Running
<1> QED
  BY <1>1, <1>3, <1>4, <1>5, BeginKeeps

(* Recovery finishes a commit, which no run of a fresh transaction is in,   *)
(* and a process that dies takes its calls and its previews along.          *)
LEMMA RecoverKeeps ==
  ASSUME IInv, PInv, NEW t \in Txn, Recover(t)
  PROVE  PInv'
<1>1. UNCHANGED <<blobs, retained, pc, work, published, withdrawn, home, deaths>>
  BY DEF Recover, history
<1>2. /\ state \in [Txn -> States \cup {"Absent"}]
      /\ state[t] \in {"Revalidating", "Committing", "RecoveryRequired"}
      /\ state'[t] \in {"Failed", "RecoveryRequired", "Committed"}
      /\ \A x \in Txn \ {t} : state'[x] = state[x]
  BY SameLifecycle DEF Recover, Store!CompareAndTransition, IInv, Store!TypeOK
<1>3. \A d \in Call : TaskOK(d)'
  <2> SUFFICES ASSUME NEW d \in Call, pc[d] # "idle" PROVE TaskOK(d)'
    BY <1>1 DEF TaskOK
  <2>1. /\ TaskOK(d) /\ Subject(d) \in Txn
        /\ Subject(d)' = Subject(d) /\ At(d)' = At(d) /\ pc'[d] = pc[d] /\ work'[d] = work[d]
    BY <1>1 DEF PInv, IInv, CallOK, Subject, At
  <2>2. /\ state[Subject(d)] \in Fresh => state'[Subject(d)] \in Fresh
        /\ state[Subject(d)] = "Absent" => state'[Subject(d)] = "Absent"
    BY <1>2, <2>1 DEF Fresh
  <2> QED
    BY <1>1, <2>1, <2>2 DEF TaskOK, Unretained
<1>4. PreviewsTyped' /\ HomesOK'
  BY <1>1 DEF PInv, PreviewsTyped, HomesOK
<1>5. Sealed' /\ Recorded'
  BY <1>1, <1>2 DEF PInv, Sealed, Recorded
<1>6. Alone'
  BY <1>1 DEF PInv, Alone, Running, Subject
<1>7. CancelledRunWithdrawn'
  BY <1>1, <1>2 DEF PInv, PreviewsTyped, CancelledRunWithdrawn
<1> QED
  BY <1>3, <1>4, <1>5, <1>6, <1>7 DEF PInv

LEMMA FewerRetained ==
  ASSUME PInv, NEW r \in [Process -> SUBSET Txn], \A p \in Process : r[p] \subseteq retained[p]
  PROVE  \A p \in Process : IsFiniteSet(r[p]) /\ Cardinality(r[p]) <= MaxEphemeral
<1> SUFFICES ASSUME NEW p \in Process
             PROVE  IsFiniteSet(r[p]) /\ Cardinality(r[p]) <= MaxEphemeral
  OBVIOUS
<1>1. IsFiniteSet(retained[p]) /\ Cardinality(retained[p]) <= MaxEphemeral
  BY DEF PInv, PreviewsTyped
<1>2. IsFiniteSet(r[p]) /\ Cardinality(r[p]) <= Cardinality(retained[p])
  BY <1>1, FS_Subset
<1>3. Cardinality(retained[p]) \in Nat /\ Cardinality(r[p]) \in Nat
  BY <1>1, <1>2, FS_CardinalityType
<1> QED
  BY <1>1, <1>2, <1>3, RuntimeAssumption

LEMMA OutsideKeeps ==
  ASSUME IInv, PInv,
         \/ \E p \in Process, t \in Txn : Discard(p, t)
         \/ \E p \in Process : Die(p)
         \/ UNCHANGED vars
  PROVE  PInv'
<1>0. CallsTyped /\ PreviewsTyped
  BY DEF IInv, PInv
<1>1. /\ UNCHANGED <<state, blobs, published, withdrawn, home>>
      /\ retained' \in [Process -> SUBSET Txn]
      /\ \A p \in Process : retained'[p] \subseteq retained[p]
      /\ deaths' \in 0..MaxDeaths
  <2>1. ASSUME NEW p \in Process, NEW t \in Txn, Discard(p, t)
        PROVE  /\ UNCHANGED <<state, blobs, published, withdrawn, home, deaths>>
               /\ retained' \in [Process -> SUBSET Txn]
               /\ \A q \in Process : retained'[q] \subseteq retained[q]
    BY <1>0, <2>1 DEF Discard, store, history, PreviewsTyped
  <2>2. ASSUME NEW p \in Process, Die(p)
        PROVE  /\ UNCHANGED <<state, blobs, published, withdrawn, home>>
               /\ retained' \in [Process -> SUBSET Txn]
               /\ \A q \in Process : retained'[q] \subseteq retained[q]
               /\ deaths' \in 0..MaxDeaths
    BY <1>0, <2>2, RuntimeAssumption DEF Die, store, PreviewsTyped
  <2>3. CASE UNCHANGED vars
    BY <1>0, <2>3 DEF vars, store, history, PreviewsTyped
  <2> QED
    BY <1>0, <2>1, <2>2, <2>3 DEF PreviewsTyped
<1>2. \A d \in Call : pc'[d] = "idle" \/ (pc'[d] = pc[d] /\ work'[d] = work[d])
  <2>1. ASSUME NEW p \in Process, Die(p)
        PROVE  \A d \in Call : pc'[d] = "idle" \/ (pc'[d] = pc[d] /\ work'[d] = work[d])
    BY <2>1 DEF Die
  <2> QED
    BY <2>1 DEF Discard, vars
<1>3. \A d \in Call : TaskOK(d)'
  <2> SUFFICES ASSUME NEW d \in Call, pc'[d] # "idle" PROVE TaskOK(d)'
    BY DEF TaskOK
  <2>1. /\ TaskOK(d)
        /\ Subject(d)' = Subject(d) /\ At(d)' = At(d) /\ pc'[d] = pc[d] /\ work'[d] = work[d]
    BY <1>2 DEF PInv, Subject, At
  <2>2. Unretained(Subject(d)) => \A p \in Process : Subject(d) \notin retained'[p]
    BY <1>1 DEF Unretained
  <2> QED
    BY <1>1, <2>1, <2>2 DEF TaskOK, Unretained
<1>4. PreviewsTyped'
  BY <1>1, FewerRetained DEF PInv, PreviewsTyped
<1>5. HomesOK' /\ Sealed' /\ Recorded' /\ CancelledRunWithdrawn'
  BY <1>1 DEF PInv, HomesOK, Sealed, Recorded, CancelledRunWithdrawn
<1>6. Alone'
  BY <1>2 DEF PInv, Alone, Running, Subject
<1> QED
  BY <1>3, <1>4, <1>5, <1>6 DEF PInv

-----------------------------------------------------------------------------
LEMMA PreviewsInitial == Init => PInv
<1> SUFFICES ASSUME Init PROVE PInv
  OBVIOUS
<1>1. PreviewsTyped
  BY FS_EmptySet, RuntimeAssumption DEF Init, PreviewsTyped
<1>2. \A c \in Call : TaskOK(c) /\ ~Running(c)
  BY DEF Init, TaskOK, Running
<1> QED
  BY <1>1, <1>2
  DEF Init, Store!Init, PInv, HomesOK, Sealed, Recorded, Alone, CancelledRunWithdrawn

LEMMA PreviewsInductive == IInv /\ PInv /\ [Next]_vars => PInv'
<1> SUFFICES ASSUME IInv, PInv, [Next]_vars PROVE PInv'
  OBVIOUS
<1>1. [Store!Next]_store
  BY StoreStep
<1>2. ASSUME NEW c \in Call, NEW p \in Process, NEW t \in Txn,
             StartRun(c, p, t) \/ \E op \in Ops : Start(c, p, t, op)
      PROVE  PInv'
  BY <1>2, StartRunKeeps, StartKeeps
<1>3. ASSUME NEW c \in Call,
             Keep(c) \/ Record(c) \/ Answer(c) \/ Withdraw(c) \/ Revoke(c)
      PROVE  PInv'
  <2>1. UNCHANGED <<home, wonBy>> /\ pc[c] # "idle"
    BY <1>3 DEF Keep, Record, Answer, Withdraw, Revoke, history
  <2>2. Acts(c)
    BY <1>1, <1>3, <2>1, RunStep
  <2> QED
    BY <1>3, <2>1, <2>2, OwnerKeeps, KeepOwns, RecordOwns, AnswerOwns, WithdrawOwns, RevokeOwns
<1>4. ASSUME NEW c \in Call, PrepareCommit(c) \/ Exact(c) PROVE PInv'
  <2>1. UNCHANGED <<home, wonBy>> /\ pc[c] # "idle"
    BY <1>4 DEF PrepareCommit, Exact, Load, Persist, Create, history
  <2> QED
    BY <1>1, <1>4, <2>1, PrepareStep, PrepareOwns, OwnerKeeps
<1>5. ASSUME NEW c \in Call, Prepared(c) \/ Judge(c) PROVE PInv'
  <2>1. UNCHANGED <<home, wonBy>> /\ pc[c] # "idle"
    BY <1>5 DEF Prepared, Judge, history
  <2> QED
    BY <1>1, <1>5, <2>1, HookStep, HookOwns, OwnerKeeps
<1>6. ASSUME NEW c \in Call, Cancel(c) \/ Enter(c) PROVE PInv'
  <2>1. UNCHANGED <<home, wonBy>> /\ pc[c] # "idle"
    BY <1>6 DEF Cancel, Enter, history
  <2> QED
    BY <1>1, <1>6, <2>1, TokenStep, TokenOwns, OwnerKeeps
<1>7. ASSUME NEW c \in Call, Resolve(c) PROVE PInv'
  <2>1. UNCHANGED <<home, wonBy>> /\ pc[c] # "idle"
    BY <1>7 DEF Resolve, history
  <2> QED
    BY <1>1, <1>7, <2>1, ResolveStep, ResolveOwns, OwnerKeeps
<1>8. ASSUME NEW c \in Call,
             \/ Withhold(c) \/ Reject(c) \/ Forget(c) \/ Review(c) \/ Grant(c)
             \/ Committing(c) \/ Release(c)
      PROVE  PInv'
  <2>1. UNCHANGED <<home, wonBy>> /\ pc[c] # "idle"
    BY <1>8 DEF Withhold, Reject, Forget, Review, Grant, Committing, Release, history
  <2>2. Acts(c)
    BY <1>1, <1>8, <2>1, EffectStep
  <2> QED
    BY <1>8, <2>1, <2>2, EffectOwns, OwnerKeeps
<1>9. ASSUME NEW c \in Call, Reserve(c) PROVE PInv'
  <2>1. Acts(c) /\ pc[c] # "idle" /\ home' = home
    BY <1>1, <1>9, ReserveStep DEF Reserve
  <2> QED
    BY <1>9, <2>1, EffectOwns, OwnerKeeps
<1>10. ASSUME NEW t \in Txn, Recover(t) PROVE PInv'
  BY <1>10, RecoverKeeps
<1>11. ASSUME \/ \E p \in Process, t \in Txn : Discard(p, t)
              \/ \E p \in Process : Die(p)
              \/ UNCHANGED vars
       PROVE  PInv'
  BY <1>11, OutsideKeeps
<1> QED
  BY <1>2, <1>3, <1>4, <1>5, <1>6, <1>7, <1>8, <1>9, <1>10, <1>11 DEF Next

LEMMA PreviewsInvariance == Spec => [](IInv /\ PInv)
BY Initial, Inductive, PreviewsInitial, PreviewsInductive, PTL DEF Spec

-----------------------------------------------------------------------------
(* What process p still retains of a reservation it won, a call of its own  *)
(* is on its way to release.                                                *)
Releasing(p, t) ==
  \E c \in Call : At(c) = p /\ Subject(c) = t /\ pc[c] \in {"committing", "release"}

(* A call that stays at the committer keeps its promise.                    *)
LEMMA StillReleasing ==
  ASSUME NEW p, NEW t, Releasing(p, t),
         \A d \in Call : pc[d] \in {"committing", "release"} /\ At(d) = p /\ Subject(d) = t
           => work'[d] = work[d] /\ pc'[d] \in {"committing", "release"}
  PROVE  Releasing(p, t)'
BY DEF Releasing, At, Subject

LEMMA ReleaseInductive ==
  ASSUME IInv, PInv, ReservedIsReleased, [Next]_vars
  PROVE  ReservedIsReleased'
<1> SUFFICES ASSUME NEW t \in Txn, NEW p, p = wonBy'[t].at, p # None, t \in retained'[p]
             PROVE  Releasing(p, t)'
  BY DEF ReservedIsReleased, Releasing, At, Subject
<1> USE DEF At, Subject
<1>0. CallsTyped /\ PreviewsTyped /\ HistoryTyped
  BY DEF IInv, PInv
<1>1. wonBy'[t] = wonBy[t] /\ t \in retained[p] => Releasing(p, t)
  BY DEF ReservedIsReleased, Releasing
(* The step of a call that is not at the committer, or stays there.         *)
<1>2. ASSUME NEW c \in Call, Acts(c), UNCHANGED <<wonBy, retained>>,
             pc[c] \notin {"committing", "release"}
      PROVE  Releasing(p, t)'
  BY <1>1, <1>2, StillReleasing DEF Acts
<1>3. ASSUME NEW c \in Call, Acts(c), UNCHANGED wonBy, Drops(c),
             pc[c] \notin {"committing", "release"}
      PROVE  Releasing(p, t)'
  <2>1. t \in retained[p]
    <3>1. p \in Process
      BY <1>0, <1>3 DEF HistoryTyped, Winner
    <3> QED
      BY <1>0, <1>3, <3>1 DEF Drops, PreviewsTyped
  <2> QED
    BY <1>1, <1>3, <2>1, StillReleasing DEF Acts
<1>4. ASSUME NEW c \in Call, Keep(c) PROVE Releasing(p, t)'
  <2>1. pc[c] = "keep" /\ UNCHANGED <<home, wonBy>>
    BY <1>4 DEF Keep, history
  <2>2. Acts(c) /\ Subject(c) \in Txn /\ At(c) \in Process /\ state[Subject(c)] = "Absent"
    BY <1>4, <2>1, StoreStep, RunStep DEF IInv, PInv, CallOK, TaskOK
  <2>3. t # Subject(c)
    BY <2>1, <2>2 DEF IInv, WonOK, Past, Consumed
  <2>4. p \in Process /\ (retained' = retained \/ retained' = [retained EXCEPT ![At(c)] = @ \cup {Subject(c)}])
    BY <1>0, <1>4, <2>1 DEF Keep, HistoryTyped, Winner
  <2>5. t \in retained[p]
    BY <1>0, <2>2, <2>3, <2>4 DEF PreviewsTyped
  <2> QED
    BY <1>1, <2>1, <2>2, <2>5, StillReleasing DEF Acts
<1>5. ASSUME NEW c \in Call, Record(c) \/ Answer(c) \/ Withdraw(c) \/ Revoke(c)
      PROVE  Releasing(p, t)'
  <2>1. UNCHANGED <<home, wonBy>> /\ Drops(c) /\ pc[c] \notin {"committing", "release"}
    BY <1>5 DEF Record, Answer, Withdraw, Revoke, history, Drops
  <2> QED
    BY <1>3, <1>5, <2>1, StoreStep, RunStep
<1>6. ASSUME NEW c \in Call, PrepareCommit(c) \/ Exact(c) PROVE Releasing(p, t)'
  <2>1. UNCHANGED <<home, wonBy, retained>> /\ pc[c] \notin {"committing", "release"}
    BY <1>6 DEF PrepareCommit, Exact, Load, Persist, Create, history
  <2> QED
    BY <1>2, <1>6, <2>1, StoreStep, PrepareStep
<1>7. ASSUME NEW c \in Call, Prepared(c) \/ Judge(c) PROVE Releasing(p, t)'
  <2>1. UNCHANGED <<home, wonBy, retained>> /\ pc[c] \notin {"committing", "release"}
    BY <1>7 DEF Prepared, Judge, history
  <2> QED
    BY <1>2, <1>7, <2>1, StoreStep, HookStep
<1>8. ASSUME NEW c \in Call, Enter(c) \/ Resolve(c) PROVE Releasing(p, t)'
  <2>1. UNCHANGED <<home, wonBy, retained>> /\ pc[c] \notin {"committing", "release"}
    BY <1>8 DEF Enter, Resolve, history
  <2> QED
    BY <1>2, <1>8, <2>1, StoreStep, TokenStep, ResolveStep
<1>9. ASSUME NEW c \in Call, Withhold(c) \/ Reject(c) \/ Forget(c) \/ Review(c) \/ Grant(c)
      PROVE  Releasing(p, t)'
  <2>1. UNCHANGED <<home, wonBy>> /\ Drops(c) /\ pc[c] \notin {"committing", "release"}
    BY <1>9 DEF Withhold, Reject, Forget, Review, Grant, history, Drops
  <2> QED
    BY <1>3, <1>9, <2>1, StoreStep, EffectStep
<1>10. ASSUME NEW c \in Call, Reserve(c) PROVE Releasing(p, t)'
  <2>1. Acts(c) /\ pc[c] = "reserve" /\ retained' = retained /\ Subject(c) \in Txn
    BY <1>10, StoreStep, ReserveStep DEF Reserve, IInv, CallOK
  <2>2. CASE UNCHANGED wonBy
    BY <1>2, <2>1, <2>2
  <2>3. CASE /\ Continue(c, "committing")
             /\ wonBy' = [wonBy EXCEPT ![Subject(c)] =
                            [at |-> At(c), prepared |-> work[c].prepared, verdict |-> work[c].verdict]]
    <3>1. pc'[c] = "committing" /\ work'[c] = work[c]
      BY <1>0, <2>3 DEF Continue, CallsTyped
    <3>2. CASE t = Subject(c)
      <4>1. p = At(c)
        BY <1>0, <2>1, <2>3, <3>2 DEF HistoryTyped
      <4> QED
        BY <3>1, <3>2, <4>1 DEF Releasing
    <3>3. CASE t # Subject(c)
      <4>1. wonBy'[t] = wonBy[t]
        BY <1>0, <2>3, <3>3 DEF HistoryTyped
      <4> QED
        BY <1>1, <2>1, <4>1, StillReleasing DEF Acts
    <3> QED
      BY <3>2, <3>3
  <2> QED
    BY <1>10, <2>2, <2>3 DEF Reserve
<1>11. ASSUME NEW c \in Call, Committing(c) PROVE Releasing(p, t)'
  <2>1. UNCHANGED <<home, wonBy, retained>>
    BY <1>11 DEF Committing, history
  <2>2. Acts(c)
    BY <1>11, <2>1, StoreStep, EffectStep
  <2>3. work'[c] = work[c] /\ pc'[c] \in {"committing", "release"}
    BY <1>0, <1>11 DEF Committing, Continue, CallsTyped
  <2> QED
    BY <1>1, <2>1, <2>2, <2>3, StillReleasing DEF Acts
<1>12. ASSUME NEW c \in Call, Release(c) PROVE Releasing(p, t)'
  <2>1. UNCHANGED <<home, wonBy>> /\ pc[c] = "release"
    BY <1>12 DEF Release, history
  <2>2. Acts(c) /\ p \in Process /\ At(c) \in Process
    BY <1>0, <1>12, <2>1, StoreStep, EffectStep DEF HistoryTyped, Winner, IInv, CallOK
  <2>3. t \in retained[p] /\ ~(At(c) = p /\ Subject(c) = t)
    BY <1>0, <1>12, <2>2 DEF Release, PreviewsTyped
  <2> QED
    BY <1>1, <2>1, <2>2, <2>3, StillReleasing DEF Acts
<1>13. ASSUME NEW c \in Call, Cancel(c) PROVE Releasing(p, t)'
  BY <1>1, <1>13, StillReleasing DEF Cancel, history
<1>14. ASSUME NEW c \in Call, NEW q \in Process, NEW u \in Txn,
              StartRun(c, q, u) \/ \E op \in Ops : Start(c, q, u, op)
       PROVE  Releasing(p, t)'
  <2>1. UNCHANGED <<wonBy, retained>> /\ pc[c] = "idle"
        /\ \A d \in Call \ {c} : pc'[d] = pc[d] /\ work'[d] = work[d]
    BY <1>0, <1>14 DEF StartRun, Start, history, CallsTyped
  <2> QED
    BY <1>1, <2>1, StillReleasing
<1>15. ASSUME \/ \E u \in Txn : Recover(u) \/ \E q \in Process : Discard(q, u)
              \/ UNCHANGED vars
       PROVE  Releasing(p, t)'
  <2>1. UNCHANGED <<wonBy, pc, work>>
    BY <1>15 DEF Recover, Discard, vars, history
  <2>2. t \in retained[p]
    <3>1. p \in Process
      BY <1>0, <2>1 DEF HistoryTyped, Winner
    <3> QED
      BY <1>0, <1>15, <3>1 DEF Recover, Discard, vars, PreviewsTyped
  <2> QED
    BY <1>1, <2>1, <2>2, StillReleasing
<1>16. ASSUME NEW q \in Process, Die(q) PROVE Releasing(p, t)'
  <2>1. wonBy' = wonBy /\ p \in Process
    BY <1>0, <1>16 DEF Die, HistoryTyped, Winner
  <2>2. t \in retained[p] /\ p # q
    BY <1>0, <1>16, <2>1 DEF Die, PreviewsTyped
  <2> QED
    BY <1>1, <1>16, <2>1, <2>2, StillReleasing DEF Die
<1> QED
  BY <1>4, <1>5, <1>6, <1>7, <1>8, <1>9, <1>10, <1>11, <1>12, <1>13, <1>14, <1>15, <1>16
  DEF Next

-----------------------------------------------------------------------------
(* For any number of callers and deaths: every variable keeps to its type,  *)
(* and no process ever retains more previews than it is configured for.     *)
THEOREM RuntimeTyped == Spec => []TypeOK
<1>1. IInv /\ PInv => TypeOK
  BY DEF IInv, PInv, CallsTyped, HistoryTyped, PreviewsTyped, TypeOK, Places
<1> QED
  BY <1>1, PreviewsInvariance, PTL

(* For any interleaving: a run that was told Cancelled leaves neither an    *)
(* automatic approval nor a retained preview behind, ever.                  *)
THEOREM CancelledRunLeavesNothing == Spec => []CancelledRunWithdrawn
<1>1. PInv => CancelledRunWithdrawn
  BY DEF PInv
<1> QED
  BY <1>1, PreviewsInvariance, PTL

(* For any number of deaths: what a reviewer or a commit could still act on *)
(* can be loaded by every process.                                          *)
THEOREM DurableStaysLoadable == Spec => []DurableIsResumable
<1>1. PInv => DurableIsResumable
  BY DEF PInv, Sealed, DurableIsResumable, Loadable
<1> QED
  BY <1>1, PreviewsInvariance, PTL

(* However a commit ends: the process that reserved the transaction lets go *)
(* of its preview when the call is over.                                    *)
THEOREM ReservedLeavesNoPreview == Spec => []ReservedIsReleased
<1>1. Init => ReservedIsReleased
  BY DEF Init, ReservedIsReleased
<1>2. (IInv /\ PInv) /\ ReservedIsReleased /\ [Next]_vars => ReservedIsReleased'
  BY ReleaseInductive
<1> QED
  BY <1>1, <1>2, PreviewsInvariance, PTL DEF Spec
=============================================================================
