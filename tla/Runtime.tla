------------------------------- MODULE Runtime -------------------------------
(***************************************************************************)
(* Runtime and HookedRuntime: runs, reviews, approvals, commits, discards  *)
(* and cancellations of many callers, in several processes that share one  *)
(* store.  Between any two steps of a call (each a critical section of the *)
(* pending map, one store or blob operation, one use of the cancellation   *)
(* token, or one call of the external handler) the other callers run.      *)
(*                                                                         *)
(* The store is TransactionStore; the committer is known by the states it  *)
(* takes a reserved transaction through (CommitProtocol has the rest).     *)
(* Execution, policy evaluation and evidence are reduced to the decision.  *)
(***************************************************************************)
EXTENDS Lifecycle, FiniteSets

CONSTANTS Txn, Principal, Time, NoGrant,
          Process,        \* opened runtimes, each with its configuration
          Scope,          \* Scope[p]: HookConfig::scope, or "none"
          Call,           \* callers
          None,           \* no process, no transaction
          HookPrincipal,  \* HookConfig::principal
          Ttl,            \* HookConfig::approval_ttl_ms
          MaxEphemeral,   \* ArtifactLimits::max_ephemeral_entries
          Ops,            \* bound: which of these the callers call on a known transaction
          MaxDeaths       \* bound: how often a process dies

ASSUME RuntimeAssumption ==
  /\ Scope \in [Process -> {"none", "ReviewRequired", "AllRequests"}]
  /\ Ops \subseteq {"commit", "hooked", "approve"}
  /\ None \notin Process \cup Txn /\ HookPrincipal \in Principal
  /\ Time \subseteq Nat /\ 0 \in Time /\ {Ttl, MaxEphemeral, MaxDeaths} \subseteq Nat

VARIABLES
  state, approval, wins, wonAt, reviewed,  \* the store, as in TransactionStore
  blobs,      \* transactions whose sealed artifact is in the blob store
  retained,   \* retained[p]: the previews process p keeps in memory only
  pc, work,   \* where each call is, and what it has read
  token,      \* the call's cancellation: "open", "cancelled", "entered"
  home,       \* history: the process that ran t
  published,  \* history: transactions whose id was handed to a caller
  withdrawn,  \* history: transactions whose run returned Cancelled
  wonBy,      \* history: the process and the handler's verdict with which t was reserved
  deaths

store == <<state, approval, wins, wonAt, reviewed>>
history == <<home, wonBy, deaths>>
vars == <<store, blobs, retained, pc, work, token, published, withdrawn, history>>

Store == INSTANCE TransactionStore

Verdicts == {"FollowPolicy", "Approve", "Review", "Reject"}

Idle == [at |-> None, op |-> "none", txn |-> None, auto |-> FALSE, receipt |-> "Absent",
         prepared |-> "Absent", verdict |-> "none", now |-> 0]

Work == [at : Process \cup {None}, op : {"none", "run", "commit", "hooked", "approve"},
         txn : Txn \cup {None}, auto : BOOLEAN, receipt : Store!CreatedIn \cup {"Absent"},
         prepared : States \cup {"Absent"}, verdict : Verdicts \cup {"none"}, now : Time]

Winner == [at : Process \cup {None}, prepared : States \cup {"Absent"},
           verdict : Verdicts \cup {"none"}]

(* Where a call is once it has entered the host commit boundary.            *)
Entered == {"grant", "exact", "persistExact", "createExact", "reserve", "committing", "release"}

TypeOK ==
  /\ Store!TypeOK
  /\ blobs \subseteq Txn /\ published \subseteq Txn /\ withdrawn \subseteq Txn
  /\ retained \in [Process -> SUBSET Txn]
  /\ \A p \in Process : Cardinality(retained[p]) <= MaxEphemeral
  /\ pc \in [Call -> Entered \cup {"idle", "keep", "record", "answer", "withdraw", "revoke",
                                   "review", "enter", "prepare", "persist", "create",
                                   "prepared", "judge", "resolve", "withhold", "reject", "forget"}]
  /\ work \in [Call -> Work]
  /\ token \in [Call -> {"open", "cancelled", "entered"}]
  /\ home \in [Txn -> Process \cup {None}]
  /\ wonBy \in [Txn -> Winner]
  /\ deaths \in 0..MaxDeaths

Init ==
  /\ Store!Init
  /\ blobs = {}
  /\ retained = [p \in Process |-> {}]
  /\ pc = [c \in Call |-> "idle"]
  /\ work = [c \in Call |-> Idle]
  /\ token = [c \in Call |-> "open"]
  /\ home = [t \in Txn |-> None]
  /\ published = {} /\ withdrawn = {}
  /\ wonBy = [t \in Txn |-> [at |-> None, prepared |-> "Absent", verdict |-> "none"]]
  /\ deaths = 0

-----------------------------------------------------------------------------
(* Steps of a call.                                                         *)
At(c) == work[c].at
Subject(c) == work[c].txn
Cancelled(c) == token[c] = "cancelled"

Continue(c, next) ==
  /\ pc' = [pc EXCEPT ![c] = next]
  /\ UNCHANGED <<work, token, published, withdrawn>>

End(c) ==
  /\ pc' = [pc EXCEPT ![c] = "idle"]
  /\ work' = [work EXCEPT ![c] = Idle]
  /\ token' = [token EXCEPT ![c] = "open"]

(* The call returns; its receipt or error names the transaction.            *)
Return(c) ==
  /\ End(c)
  /\ published' = published \cup {Subject(c)}
  /\ UNCHANGED withdrawn

(* VshError::Cancelled: a run so ended never told anyone its transaction.   *)
ReturnCancelled(c) ==
  /\ End(c)
  /\ withdrawn' = IF work[c].op = "run" THEN withdrawn \cup {Subject(c)} ELSE withdrawn
  /\ UNCHANGED published

(* load_pending: the retained artifact, or the durable one...               *)
Loadable(p, t) == t \in retained[p] \/ (state[t] \notin {"Absent", "Denied"} /\ t \in blobs)

(* ...bound to the hook configuration it was made under (validate_policy).  *)
(* Mutation: the binding is not compared.                                   *)
PolicyIgnored(p, t) == TRUE

PolicyHolds(p, t) == Scope[p] = Scope[home[t]]

Usable(c) == Loadable(At(c), Subject(c)) /\ PolicyHolds(At(c), Subject(c))

AppliesTo(scope, s) ==
  \/ scope = "ReviewRequired" /\ s = "PendingApproval"
  \/ scope = "AllRequests" /\ s \in {"AutoApproved", "PendingApproval"}

-----------------------------------------------------------------------------
(* run_cancellable, up to the decision.                                     *)
StartRun(c, p, t) ==
  /\ pc[c] = "idle" /\ home[t] = None
  /\ home' = [home EXCEPT ![t] = p]
  /\ \E decision \in Store!CreatedIn, auto \in BOOLEAN :
       work' = [work EXCEPT ![c] = [Idle EXCEPT !.at = p, !.op = "run", !.txn = t,
                                                !.auto = auto, !.receipt = decision]]
  /\ pc' = [pc EXCEPT ![c] = "keep"]
  /\ UNCHANGED <<store, blobs, retained, token, published, withdrawn, wonBy, deaths>>

(* store_pending keeps an automatically approved preview in memory only.    *)
Ephemeral(c) == work[c].receipt = "AutoApproved" /\ ~work[c].auto

(* Mutation: the limit is compared one entry too late.                      *)
FullPast(p) == Cardinality(retained[p]) > MaxEphemeral

Full(p) == Cardinality(retained[p]) >= MaxEphemeral

Keep(c) ==
  LET p == At(c)
      t == Subject(c) IN
  /\ pc[c] = "keep"
  /\ \/ /\ Cancelled(c) /\ ReturnCancelled(c)
        /\ UNCHANGED <<store, blobs, retained>>
     \/ /\ ~Cancelled(c) /\ work[c].receipt = "Denied"
        /\ Store!Create(t, "Denied") /\ Continue(c, "answer")
        /\ UNCHANGED <<blobs, retained>>
     \/ /\ ~Cancelled(c) /\ Ephemeral(c) /\ ~Full(p)
        /\ retained' = [retained EXCEPT ![p] = @ \cup {t}]
        /\ Continue(c, "answer")
        /\ UNCHANGED <<store, blobs>>
     \/ (* EphemeralCapacity, an error that names no transaction *)
        /\ ~Cancelled(c) /\ Ephemeral(c) /\ Full(p)
        /\ End(c)
        /\ UNCHANGED <<store, blobs, retained, published, withdrawn>>
     \/ /\ ~Cancelled(c) /\ work[c].receipt # "Denied" /\ ~Ephemeral(c)
        /\ blobs' = blobs \cup {t} /\ Continue(c, "record")
        /\ UNCHANGED <<store, retained>>
  /\ UNCHANGED history

Record(c) ==
  /\ pc[c] = "record"
  /\ Store!Create(Subject(c), work[c].receipt)
  /\ Continue(c, "answer")
  /\ UNCHANGED <<blobs, retained, history>>

(* Mutation: a cancelled run only forgets its receipt.                      *)
AnswerForgetting(c) ==
  /\ pc[c] = "answer"
  /\ IF Cancelled(c) THEN ReturnCancelled(c) ELSE Return(c)
  /\ UNCHANGED <<store, blobs, retained, history>>

(* A run in RunMode::Auto goes on to commit_cancellable.                    *)
Answer(c) ==
  LET commits == work[c].auto /\ work[c].receipt = "AutoApproved" IN
  /\ pc[c] = "answer"
  /\ \/ Cancelled(c) /\ Continue(c, "withdraw")
     \/ ~Cancelled(c) /\ commits
          /\ Continue(c, IF Scope[At(c)] = "none" THEN "enter" ELSE "prepare")
     \/ ~Cancelled(c) /\ ~commits /\ Return(c)
  /\ UNCHANGED <<store, blobs, retained, history>>

(* discard_cancelled: first the retained receipt goes...                    *)
Withdraw(c) ==
  /\ pc[c] = "withdraw"
  /\ retained' = [retained EXCEPT ![At(c)] = @ \ {Subject(c)}]
  /\ Continue(c, "revoke")
  /\ UNCHANGED <<store, blobs, history>>

(* Mutation: the state is written whatever it was.                          *)
RevokeUncompared(c) ==
  /\ pc[c] = "revoke"
  /\ state' = [state EXCEPT ![Subject(c)] = "PendingApproval"]
  /\ reviewed' = reviewed \cup {Subject(c)}
  /\ ReturnCancelled(c)
  /\ UNCHANGED <<approval, wins, wonAt, blobs, retained, history>>

(* ...then the durable automatic approval.                                  *)
Revoke(c) ==
  /\ pc[c] = "revoke"
  /\ IF state[Subject(c)] = "AutoApproved"
     THEN Store!CompareAndTransition(Subject(c), "AutoApproved", "PendingApproval")
     ELSE UNCHANGED store
  /\ ReturnCancelled(c)
  /\ UNCHANGED <<blobs, retained, history>>

-----------------------------------------------------------------------------
(* commit_cancellable ("commit"), HookedRuntime::commit ("hooked"), approve.*)
Start(c, p, t, op) ==
  /\ pc[c] = "idle" /\ t \in published
  /\ \E now \in IF op = "approve" THEN {0} ELSE Time :
       work' = [work EXCEPT ![c] = [Idle EXCEPT !.at = p, !.op = op, !.txn = t, !.now = now]]
  /\ pc' = [pc EXCEPT ![c] = CASE op = "approve"                       -> "review"
                               [] op = "commit" /\ Scope[p] = "none"   -> "enter"
                               [] OTHER                                -> "prepare"]
  /\ UNCHANGED <<store, blobs, retained, token, published, withdrawn, history>>

(* load_pending and validate_policy, then persist_ephemeral: a transaction  *)
(* without a record gets its blob, and then the record, unless another call *)
(* was first.                                                               *)
Load(c, at, next) ==
  /\ pc[c] = at
  /\ IF Usable(c) THEN Continue(c, next) ELSE Return(c)
  /\ UNCHANGED <<store, blobs, retained, history>>

(* Mutation: the record is made without its artifact.                       *)
PersistUnsealed(c, at, create, next) ==
  /\ pc[c] = at
  /\ Continue(c, IF state[Subject(c)] # "Absent" THEN next ELSE create)
  /\ UNCHANGED <<store, blobs, retained, history>>

Persist(c, at, create, next) ==
  /\ pc[c] = at
  /\ IF state[Subject(c)] # "Absent"
     THEN Continue(c, next) /\ UNCHANGED blobs
     ELSE Continue(c, create) /\ blobs' = blobs \cup {Subject(c)}
  /\ UNCHANGED <<store, retained, history>>

Create(c, at, next) ==
  /\ pc[c] = at
  /\ IF state[Subject(c)] = "Absent"
     THEN Store!Create(Subject(c), "AutoApproved") /\ Continue(c, next)
     ELSE Return(c) /\ UNCHANGED store
  /\ UNCHANGED <<blobs, retained, history>>

PrepareCommit(c) ==
  \/ Load(c, "prepare", "persist")
  \/ Persist(c, "persist", "create", "prepared")
  \/ Create(c, "create", "prepared")

(* The end of prepare_commit: does the hook apply?  commit_cancellable then *)
(* answers HookRequired; HookedRuntime::commit asks its handler.            *)
Prepared(c) ==
  LET asked == AppliesTo(Scope[At(c)], state[Subject(c)]) IN
  /\ pc[c] = "prepared"
  /\ \/ work[c].op # "hooked" /\ asked /\ Return(c)
     \/ work[c].op # "hooked" /\ ~asked /\ Continue(c, "enter")
     \/ /\ work[c].op = "hooked"
        /\ work' = [work EXCEPT ![c].prepared = state[Subject(c)],
                                ![c].verdict = IF asked THEN "none" ELSE "FollowPolicy"]
        /\ pc' = [pc EXCEPT ![c] = IF asked THEN "judge" ELSE "resolve"]
        /\ UNCHANGED <<token, published, withdrawn>>
  /\ UNCHANGED <<store, blobs, retained, history>>

(* The external handler decides; if it fails, fail_hook withholds an        *)
(* automatic approval.                                                      *)
Judge(c) ==
  /\ pc[c] = "judge"
  /\ \/ /\ \E verdict \in Verdicts : work' = [work EXCEPT ![c].verdict = verdict]
        /\ pc' = [pc EXCEPT ![c] = "resolve"]
        /\ UNCHANGED <<token, published, withdrawn>>
     \/ work[c].prepared = "AutoApproved" /\ Continue(c, "withhold")
     \/ work[c].prepared # "AutoApproved" /\ Return(c)
  /\ UNCHANGED <<store, blobs, retained, history>>

-----------------------------------------------------------------------------
(* ExecutionCancellation: cancel and enter_commit, one compare-and-swap     *)
(* each on the call's token.                                                *)
Cancel(c) ==
  /\ pc[c] # "idle" /\ token[c] = "open"
  /\ token' = [token EXCEPT ![c] = "cancelled"]
  /\ UNCHANGED <<store, blobs, retained, pc, work, published, withdrawn, history>>

(* Mutation: the token is only looked at.                                   *)
EnterCommitChecked(c, next) ==
  /\ ~Cancelled(c)
  /\ pc' = [pc EXCEPT ![c] = next]
  /\ UNCHANGED <<token, work, published, withdrawn>>

EnterCommit(c, next) ==
  /\ token[c] = "open"
  /\ token' = [token EXCEPT ![c] = "entered"]
  /\ pc' = [pc EXCEPT ![c] = next]
  /\ UNCHANGED <<work, published, withdrawn>>

Enter(c) ==
  /\ pc[c] = "enter"
  /\ \/ EnterCommit(c, "exact")
     \/ Cancelled(c) /\ work[c].op = "run" /\ Continue(c, "withdraw")
     \/ Cancelled(c) /\ work[c].op # "run" /\ ReturnCancelled(c)
  /\ UNCHANGED <<store, blobs, retained, history>>

(* resolve_commit_cancellable.  The handler ran without locks: its verdict  *)
(* counts only for the state it was asked about.                            *)
UnchangedSince(c) == state[Subject(c)] = work[c].prepared

(* apply_hook_decision, up to its first effect.                             *)
Follow(c) ==
  /\ work[c].verdict = "FollowPolicy"
  /\ IF work[c].prepared \in {"AutoApproved", "Approved"}
     THEN EnterCommit(c, "exact")
     ELSE Return(c)

Endorse(c) ==
  /\ work[c].verdict = "Approve"
  /\ \/ work[c].prepared = "AutoApproved" /\ EnterCommit(c, "exact")
     \/ /\ work[c].prepared = "PendingApproval"
        /\ IF work[c].now + Ttl \in Time THEN EnterCommit(c, "grant") ELSE Return(c)
     \/ Return(c)   \* IncompleteHookEvidence

Object(c) ==
  \/ /\ work[c].verdict = "Review"
     /\ IF work[c].prepared = "AutoApproved" THEN Continue(c, "withhold") ELSE Return(c)
  \/ work[c].verdict = "Reject" /\ Continue(c, "reject")

Resolve(c) ==
  /\ pc[c] = "resolve"
  /\ \/ Cancelled(c) /\ ReturnCancelled(c)
     \/ ~Cancelled(c) /\ ~(Usable(c) /\ UnchangedSince(c)) /\ Return(c)
     \/ /\ ~Cancelled(c) /\ Usable(c) /\ UnchangedSince(c)
        /\ Follow(c) \/ Endorse(c) \/ Object(c)
  /\ UNCHANGED <<store, blobs, retained, history>>

Withhold(c) ==
  /\ pc[c] = "withhold"
  /\ IF state[Subject(c)] = "AutoApproved"
     THEN Store!CompareAndTransition(Subject(c), "AutoApproved", "PendingApproval")
     ELSE UNCHANGED store
  /\ Return(c)
  /\ UNCHANGED <<blobs, retained, history>>

Reject(c) ==
  /\ pc[c] = "reject"
  /\ IF state[Subject(c)] = work[c].prepared
     THEN Store!CompareAndTransition(Subject(c), work[c].prepared, "Rejected") /\ Continue(c, "forget")
     ELSE Return(c) /\ UNCHANGED store
  /\ UNCHANGED <<blobs, retained, history>>

Forget(c) ==
  /\ pc[c] = "forget"
  /\ retained' = [retained EXCEPT ![At(c)] = @ \ {Subject(c)}]
  /\ Return(c)
  /\ UNCHANGED <<store, blobs, history>>

(* approve: called by a reviewer, with any window, or by the runtime for a  *)
(* hook that approves.                                                      *)
Review(c) ==
  /\ pc[c] = "review"
  /\ \/ /\ Usable(c)
        /\ \E g \in Store!GrantInput : Store!Approve(Subject(c), g)
     \/ UNCHANGED store   \* refused
  /\ Return(c)
  /\ UNCHANGED <<blobs, retained, history>>

HookGrant(c) ==
  [principal |-> HookPrincipal, transaction |-> Subject(c),
   issued |-> work[c].now, expires |-> work[c].now + Ttl]

Grant(c) ==
  /\ pc[c] = "grant"
  /\ \/ /\ Usable(c)
        /\ Store!Approve(Subject(c), HookGrant(c))
        /\ Continue(c, "exact")
     \/ /\ ~(Usable(c) /\ state[Subject(c)] = "PendingApproval" /\ Store!ValidWindow(HookGrant(c)))
        /\ Return(c) /\ UNCHANGED store
  /\ UNCHANGED <<blobs, retained, history>>

-----------------------------------------------------------------------------
(* commit_exact.                                                            *)
Exact(c) ==
  \/ Load(c, "exact", "persistExact")
  \/ Persist(c, "persistExact", "createExact", "reserve")
  \/ Create(c, "createExact", "reserve")

Reserve(c) ==
  LET t == Subject(c)
      now == work[c].now IN
  /\ pc[c] = "reserve"
  /\ \/ /\ Store!Reserve(t, now) /\ Continue(c, "committing")
        /\ wonBy' = [wonBy EXCEPT ![t] = [at |-> At(c), prepared |-> work[c].prepared,
                                           verdict |-> work[c].verdict]]
     \/ Store!ReserveExpired(t, now) /\ Return(c) /\ UNCHANGED wonBy
     \/ /\ ~Store!Reservable(t, now) /\ state[t] # "Approved"
        /\ Return(c) /\ UNCHANGED <<store, wonBy>>
  /\ UNCHANGED <<blobs, retained, home, deaths>>

(* Committer::commit, under the workspace lock once it has left Reserved.   *)
HoldsLock(c) ==
  pc[c] = "committing" /\ state[Subject(c)] \in {"Revalidating", "Committing", "RecoveryRequired"}

Committing(c) ==
  LET t == Subject(c) IN
  /\ pc[c] = "committing"
  /\ \/ /\ \A d \in Call \ {c} : ~HoldsLock(d)
        /\ \E next \in Successors(state[t]) : Store!CompareAndTransition(t, state[t], next)
        /\ Continue(c, "committing")
     \/ Continue(c, "release") /\ UNCHANGED store   \* done, or an error ends it here
  /\ UNCHANGED <<blobs, retained, history>>

(* Mutation: a failed commit returns its error first (`commit?` too early). *)
ReleaseOnSuccess(c) ==
  /\ pc[c] = "release"
  /\ retained' = IF state[Subject(c)] = "Committed"
                 THEN [retained EXCEPT ![At(c)] = @ \ {Subject(c)}] ELSE retained
  /\ Return(c)
  /\ UNCHANGED <<store, blobs, history>>

Release(c) ==
  /\ pc[c] = "release"
  /\ retained' = [retained EXCEPT ![At(c)] = @ \ {Subject(c)}]
  /\ Return(c)
  /\ UNCHANGED <<store, blobs, history>>

-----------------------------------------------------------------------------
(* discard_preview, recover, and the death of a process.                    *)
Discard(p, t) ==
  /\ t \in published \cap retained[p]
  /\ retained' = [retained EXCEPT ![p] = @ \ {t}]
  /\ UNCHANGED <<store, blobs, pc, work, token, published, withdrawn, history>>

Recover(t) ==
  /\ \A c \in Call : ~HoldsLock(c)
  /\ \/ Store!CompareAndTransition(t, "Revalidating", "Failed")
     \/ Store!CompareAndTransition(t, "Committing", "RecoveryRequired")
     \/ Store!CompareAndTransition(t, "RecoveryRequired", "Committed")
     \/ Store!CompareAndTransition(t, "RecoveryRequired", "Failed")
  /\ UNCHANGED <<blobs, retained, pc, work, token, published, withdrawn, history>>

(* The process is opened again at once, with the same configuration.        *)
Die(p) ==
  /\ deaths < MaxDeaths
  /\ deaths' = deaths + 1
  /\ retained' = [retained EXCEPT ![p] = {}]
  /\ pc' = [c \in Call |-> IF At(c) = p THEN "idle" ELSE pc[c]]
  /\ work' = [c \in Call |-> IF At(c) = p THEN Idle ELSE work[c]]
  /\ token' = [c \in Call |-> IF At(c) = p THEN "open" ELSE token[c]]
  /\ UNCHANGED <<store, blobs, published, withdrawn, home, wonBy>>

Next ==
  \/ \E c \in Call :
       \/ \E p \in Process, t \in Txn :
            StartRun(c, p, t) \/ \E op \in Ops : Start(c, p, t, op)
       \/ Keep(c) \/ Record(c) \/ Answer(c) \/ Withdraw(c) \/ Revoke(c)
       \/ PrepareCommit(c) \/ Prepared(c) \/ Judge(c)
       \/ Cancel(c) \/ Enter(c) \/ Resolve(c) \/ Withhold(c) \/ Reject(c) \/ Forget(c)
       \/ Review(c) \/ Grant(c)
       \/ Exact(c) \/ Reserve(c) \/ Committing(c) \/ Release(c)
  \/ \E t \in Txn : Recover(t) \/ \E p \in Process : Discard(p, t)
  \/ \E p \in Process : Die(p)

Spec == Init /\ [][Next]_vars

-----------------------------------------------------------------------------
(* However runs, commits, handlers and crashes interleave, a transaction is *)
(* reserved only under the hook configuration it was run under, and in a    *)
(* process that puts every request to its handler, one without a reviewer's *)
(* grant is reserved only by a call whose handler let exactly that state    *)
(* through (docs/rust/api.md: commit "cannot bypass" the hook).             *)
HookHolds ==
  \A t \in Txn :
    LET w == wonBy[t] IN
    w.at # None =>
      /\ Scope[w.at] = Scope[home[t]]
      /\ Scope[w.at] = "AllRequests" /\ approval[t] = NoGrant =>
           w.prepared = "AutoApproved" /\ w.verdict \in {"FollowPolicy", "Approve"}

(* Cancellation and commit exclude each other: no call whose cancellation   *)
(* was accepted is inside the commit boundary, and none enters it later.    *)
CancelledStaysOut ==
  \A c \in Call : Cancelled(c) => pc[c] \notin Entered

(* A run that returned Cancelled leaves nothing behind that could still     *)
(* commit without a review: no automatic approval, no retained preview.     *)
CancelledRunWithdrawn ==
  \A t \in withdrawn :
    /\ state[t] \in {"Absent", "Denied", "PendingApproval"}
    /\ \A p \in Process : t \notin retained[p]

(* Whatever dies when, a durable transaction that a reviewer or a commit    *)
(* could still act on can be loaded by every process: the artifact is on    *)
(* disk before the record is.                                               *)
DurableIsResumable ==
  \A t \in Txn :
    state[t] \in {"AutoApproved", "PendingApproval", "Approved"} =>
      \A p \in Process : Loadable(p, t)

(* A process that reserved a transaction does not go on retaining its       *)
(* preview once the call is over, however the commit ended                  *)
(* (remove_pending in commit_exact).  What a reserve found expired, and     *)
(* what another process reserved or rejected, stays retained until it is    *)
(* discarded: the code answers the first before remove_pending and never    *)
(* learns of the second.                                                    *)
ReservedIsReleased ==
  \A t \in Txn :
    LET p == wonBy[t].at IN
    p # None /\ t \in retained[p] =>
      \E c \in Call : At(c) = p /\ Subject(c) = t /\ pc[c] \in {"committing", "release"}

(* The callers use the store as it promises to be used: every step of the   *)
(* runtime is a step of TransactionStore or leaves it alone, so what is     *)
(* proved of the store holds of the runtime.                                *)
KeepsStore == Store!Spec
=============================================================================
