# A TLA+ verification of VSH

VSH runs untrusted programs (Monty or Bash) against a snapshot of a workspace, turns
what they did into a canonical diff, lets a policy, a hook and reviewers decide, and
then commits the diff to the real workspace in a recoverable way.  This directory holds
TLA+ models of the parts of VSH that execute, observe, decide, record and commit, the
TLC configurations that check them, and theorems about them checked by TLAPS.

## 1. The system

| Component | State it keeps | Operations | What makes it correct |
|---|---|---|---|
| Lifecycle (`vsh-types`) | none; an enum and its legal edges | `can_transition_to`, `is_terminal` | edges only climb; terminal states are stuck |
| Transaction store (`vsh-store`) | one record per transaction: state, approval, artifact | `create`, `get`, `compare_and_transition`, `approve`, `reserve`; on disk: append, compaction, control switch, refresh, tail repair | a reservation is issued once; a reviewed transaction needs its own live grant; an acknowledged change survives crashes |
| Blob store, data directory (`vsh-store`) | content-addressed files | `put`, `get_bounded`, `contains` | a stored blob is never another's bytes |
| Commit plan (`vsh-commit/plan.rs`) | none; a list of operations | `CommitPlan::new`, `PreparedPlan::prepare`, codec | the order can be performed, undone from any point, and reaches the diff |
| Committer (`vsh-commit/committer.rs`, `journal.rs`, `host.rs`) | workspace lock, a transaction directory with plan, journal, staged and quarantined nodes, owner and commit markers | `commit`, `recover`, rollback, cleanup | all or nothing; nobody else's work is lost; recovery always ends |
| Runtime (`vbash/runtime.rs`, `hook.rs`), cancellation (`vsh-execution`) | retained previews, per-request cancellation token | `run`, `approve`, `commit`, `prepare_commit`/`resolve_commit`/`fail_hook`, `discard_*`, `recover` | a hook cannot be walked around; a cancelled run leaves nothing committable; durable transactions can be resumed |
| VFS and evidence (`vsh-vfs`) | snapshot, overlay, read and write sets, evidence budget | file operations, `canonical_diff` | an overlay is an ordinary filesystem; the diff is exactly the difference; the evidence is enough to judge the run stale |
| Policy (`vsh-policy`) | none | pattern matching, call authorisation, transaction decision | what a pattern protects is what it means; no way around a denial; the decision is monotone |
| Budget, gateway (`vsh-execution`) | counters per request | authorise, charge, traverse, apply | work is charged before it is done; a failing call changes nothing |
| Monty adapter and worker pool (`vsh-monty`), worker (`vsh-worker`) | idle workers, the session in each | checkout, configure, turns, reset, checkin, kill at the deadline | a reused worker is as good as a new one; every request ends and leaves nothing behind |
| Bash host and guest (`vsh-bash`) | leases, idle workers, session and sequence numbers | checkout, handshake, run, filesystem calls, done, ready | no frame of one session is taken for another's; a lease is always given back |
| Python binding and package | none | conversion, CLI, MCP, hooks | as the runtime |

How they interact: `Runtime` calls the execution crates for a diff, binds it, and either
retains the preview in a process-local map or stores the artifact and then its record.
A commit loads the artifact, persists it when it was only retained, asks the hook's
handler outside every lock, takes the reservation from the store and hands it to the
committer, which alone touches the workspace.  Processes share the store (under a file
lock) and the workspace (under another).  `Runtime::open` recovers before it accepts
requests.  Inside `run`, a guest in a worker process sends each filesystem call to the
host, which authorizes and charges it in the gateway and performs it on the overlay of the
run's snapshot; the overlay records what was read and written, and the commit revalidates
that evidence against the host.  The hard behaviours are the crashes between any two steps of a commit, of a
compaction or of persisting a preview; recoveries that are interrupted in turn; other
programs editing the workspace; handlers and cancellations racing commits; two
processes acting on one transaction from what each has read; renames, removals and mode
changes stacked in an overlay whose base is read lazily; calls on whole trees that are
denied or run out of budget half way; and workers that die, fall silent or are cut off at
any point of a protocol and are then to be reused or reaped.

## 2. Modules

| Module | Models | Correspondence |
|---|---|---|
| `Lifecycle` | `TransactionState` | `Successors` is `can_transition_to`; shared by all others |
| `TransactionStore` | the `TransactionStore` trait, as `MemoryTransactionStore` implements it under its mutex | one action per method; `ReserveExpired` is the outcome of `reserve` that changes the record although it returns an error. `wins`, `wonAt`, `reviewed` are history |
| `TransactionStoreProofs` | theorems about it | section 5 |
| `FileStore` | `FileTransactionStore` | `log`, `torn`, `durable` are the two log files, `control`/`synced` the two control slots before and after `fsync`, `cache` each handle's `PersistentState`. A call is `Transact`, then append or compaction as separate writes, syncs and switches, so faults fall between them. It implements `TransactionStore` (`Implements`) through the record each log and control define |
| `Induction`, `FileStoreProofs` | induction over the naturals; what a log replays to, and theorems about `FileStore` | section 5 |
| `CommitPlan` | `plan.rs` and the effect of an operation and of its undo on a tree of nodes | `Prepare` lowers a pair of trees to the ordered operations; `Applied`, `Undone` are `apply_operation` and `undo_operation` without journal and faults |
| `PlanReplay` | performing a plan forwards and undoing it from any point | its specification is `ReplaySpec`, so that it can be reasoned about beside `CommitProtocol` |
| `CommitPlanProofs` | the shape of a plan | section 5 |
| `AtomicCommit` | what a commit promises: before, or after, decided once | the abstract specification `CommitProtocol` implements |
| `CommitProtocol` | `committer.rs`, `journal.rs` and the host access they use | `pc`/`phase` follow `prepare_and_commit` and `apply_operation` through setup, staging, revalidation, and per operation intent, check, system call, result, verification, completion and markers; `rpc` follows `recover` through reading the transaction directory, finalising, undoing, settling and cleanup. `entries`, `torn` are what the transaction directory holds and which of it is incomplete |
| `CommitProtocolProofs` | theorems about it and about `PlanReplay` | section 5 |
| `Runtime` | `runtime.rs`, `hook.rs`, `cancellation.rs` | a call (`pc`, `work`) is one of `run`, `commit`, hooked commit, `approve`; each step is one critical section, store call, or handler call. The store's variables are changed only by `TransactionStore`'s actions |
| `RuntimeProofs` | theorems about it | section 5 |
| `FsTree` | `VPath`, `NodeState` and what each file operation asks of a tree and makes of it | a place is a sequence of names; `…Fault` is the error an operation gives on a tree, shared by the three modules below |
| `PlainFs` | what `VirtualFs` promises: one tree, and a budget that may stop it | the abstract specification `VirtualFs` implements |
| `VirtualFs` | `VirtualFs`, `BaseSnapshot`, `LazyContent`, `EvidenceBudget`, `canonical_diff` | `overlay` and `captured` are the maps of the same name; an operation is a script of the dependencies it records, the content it fetches and the entries and effects it adds, in the code's order, cut off where a reservation fails. `edited` is the host content that changed after the snapshot |
| `VirtualFsTwins` | the same guest over two bases, composed of two instances of `VirtualFs` | `Revalidates` is the committer's `revalidate` of one run's evidence against the other's base |
| `VirtualFsProofs` | theorems about `VirtualFs` | section 5 |
| `Policy` | `vsh-policy`: pattern matchers, risk metrics, `TransactionPolicy`; the matcher of `vsh_glob` | the matchers follow the code's shapes and back-tracking; `Means` and `GlobMeans` are what they are compared with |
| `Gateway` | `FsGateway`, its `copy`, `open` and `walk`, the adapter's calls and tools, `ExecutionBudget`, and the decision at the end of a run | a call is a script of `may` (authorize), `charge`, `list`, `deliver` and changes; `Call` runs it to the first failure and answers as `call_result` does |
| `WorkerProcess` | a child process, its two pipes, the reader thread and its bounded channel | `toGuest`, `toHost`, `channel`, `reading`; `Die` and `Babble` are a death and an undecodable frame |
| `BashWorkers` | `SubprocessBash`, its `Worker` and the guest's `worker_main` and `RpcFs` | `request[r].shell` follows checkout, spawn, handshake, run and release; `session` and `sequence` are the frame fields |
| `Workers` | `SubprocessMonty`, its `Worker`, `ProtocolChild`, and a program that calls the shell | `request[r].stage` follows checkout, configure, feed, answers, reset, checkin or drop; `guest` is the `ChildState` |
| `WorkersProofs` | theorems about `Workers` with its two parts | section 5 |

Each `MC…` module gives the constants of its module their values.  Definitions marked
*Mutation* are deliberately wrong variants of the definition after them; no specification
uses them.  Each shows that a property notices the bug it is there for.

## 3. Runs

Deadlock is not checked where calls and faults are bounded and everything may end; it is
checked in `plan_order`, whose behaviours run back and forth for ever.

| Run | Bounds | Shows |
|---|---|---|
| `store` | 2 transactions, 2 principals, clocks 0..2 | `SingleUse`, `ReviewedNeedsLiveGrant`, `Forward`. Grants are for one transaction, so two suffice to confuse them; three clock readings put a reservation before, at and after an expiry |
| `file_store` | all kinds of fault in any order, a log of 3 units, which two records fill when one of them has a grant, 2 compactions; two handles over one transaction with 2 faults, or one handle at a time over two transactions with 1 fault (the constraint `Scope`) | `NeverCorrupt`: no handle ever reports corruption; `AckedSurvives`: an acknowledged change is never lost; `CacheIsPrefix`: a cache is a prefix of the truth; `ConsumedOnce`; `TransitionsFit`: at the ceiling a new record or grant is refused, and a record that was accepted can still make its next transition; `Implements`: what callers see changes by the operations of `TransactionStore`, except that a power loss may take back a frame that was written, never synced or reported, and yet read by others. Two compactions bring the first log back into use, which a stale cache needs to be taken in. The one combination of faults left out is the departure below, `lost_switch` |
| `plan_order` | every acceptable pair of trees over a chain of three paths | `OrderIsSound`: each operation finds what it needs, forwards and when it is undone from any point; `ReachesBothEnds`. A chain of three is the smallest with a directory both inside and around others |
| `commit` | five kinds of transaction (rewrite and create; directory replaced by a link; mode changes; create only; one operation too many), and per behaviour one of: two or three interruptions of the commit or of recoveries where the code copes with them (three sets of places, below); three interruptions anywhere; two interruptions and two edits by another program | `OutcomeExact`, `ConflictHasCause`, `UserWorkSurvives`, `Implements` everywhere; outside five places `RecoveryCopes` and, under fairness, `Converges` |
| `runtime` | 2 processes, one with a hook that sees all requests and one without; 2 callers, 2 transactions of which the second competes for the one retained preview, clocks 0..1, 1 death | `HookHolds`, `CancelledStaysOut`, `CancelledRunWithdrawn`, `DurableIsResumable`, `ReservedIsReleased`, `KeepsStore` |
| `vfs` | every sequence of 3 operations on two directories with a child each, one a link; the evidence limit starts above what they need or is tightened to 6 records; one base file may be rewritten on the host at any time, and a read that used what it then loads would answer other bytes | `ImplementsPlain`: the guest cannot tell the overlay from a plain tree; `DiffExact`: the diff is the difference, with the bytes bound, a precondition for each entry, and the same when taken again; `EvidenceIsBase`; `Accounted`. Three operations reach removal, re-creation and a rename over the result, and a rename out of a renamed directory |
| `vfs_twins` | every sequence of 2 operations over each pair of 7 bases that differ in a listing, a content, a mode or a kind | `EvidenceSuffices`: if the first run's evidence revalidates against the second base, the guest was answered alike in both |
| `gateway` | 2 calls (any script on 6 places) on two trees under each of 19 policies; limits small enough that each counter is hit by some call | `ProtectedIntact`: nothing protected changes at any moment; `AcceptedIsAllowed`; `WholeOrNothing`: a failing call changes nothing; `WorkCharged`; `PatternsMeant`: the matchers compute their declarative meaning on all paths of up to three names; `MoreIsNotLess`: no part of the changes would have been judged more severely than all of them |
| `workers` | 2 requests (a shell beside a Monty program that calls one, or two plain Monty programs) over 4 process identities, one lease, one parked worker of each kind, channels of 1, one trouble | `ParkedIsFresh`, `NobodyOffended` and, under fairness, `Settles`: every request ends, leases are back, each process is parked or reaped |

Three runs are expected to end in a counterexample, because the code departs from its
documentation; PROJECT.json quotes the lines.

- `commit_lost_rollback`: interrupt a commit in its operations and then the rollback.
  `infer_applied` trusts the completion record, so the second recovery wants to undo what
  the first has undone and reports a conflict, now and for ever.
- `commit_torn_setup`: crash before `plan.bin` is whole.  `recover` fails, and so does
  every later `Runtime::open` of that workspace, although nothing was changed in it.
- `file_store_lost_switch`: a process dies between writing and syncing the control
  record; others follow the record without syncing it; a power loss takes it back, and
  with it every change acknowledged since.

In the last one it can be worse: the next compaction writes its control record over the
only synced one, and a power loss may take both (one handle, one transaction,
`MaxLogBytes = 1`, `MaxGeneration = 2`: `NeverCorrupt` fails).

`NoConflict` and `RecoveryReads` are checked unconditionally only in their runs.
`RecoveryCopes` states when they hold: under any number of interruptions of the commit
and of recoveries, nobody else working in the tree, but for five places (`Tolerable`).
In each of these one interruption, or for the rollback one after another, is enough:

- `"setup"`: the plan or the journal is not whole, and recovery cannot read it
  (`commit_torn_setup`);
- `"mkdir"`: the directory is there and its owner marker is not, and recovery reports a
  conflict about a directory it made itself (committer.rs:2352);
- `"marker"`: the completion marker is torn, and recovery cannot read it (journal.rs:364);
- `"rollback"`: an operation is undone and nothing says so (`commit_lost_rollback`);
- `"cleanup"`: the directory has lost the plan, or the marker, and is still there; the
  effect is that of the torn set-up.

`Converges` also leaves out a store that fails where no directory tells of the record: after
`reserve` (`"reserved"`), or while preparing and again when the call resolves the outcome
(`"prepare"` with `"resolve"`): the record then stays `Reserved` or `Revalidating`
(`Settling`).

The `commit` run stays clear of more departures that have no run of their own.  Three are found with
`MCCommitProtocol`, `Jobs <- OneFile` and a `Troubles` of the one record given:

- `UserWorkSurvives` fails with one edit, no interrupt and `RaceWindow = TRUE`: an edit
  between the check and the rename of a quarantine goes into the quarantine, and rollback
  then answers "not applied" (committer.rs:2304) and removes the directory.
  docs/threat-model.md concedes the window; docs/guides/transactions.md:147 does not.
- `ReservationResolved` fails (under `FairSpec`) with one interrupt in region
  `"reserved"`: a death between `reserve` and the transaction directory leaves the record
  `Reserved` for ever; `recover` only visits directories (docs/guides/transactions.md:20
  says "Runtime completes or recovery resolves").
- A conflict is reported for a record that is already `Stale` when one edit meets one
  interrupt in region `"resolve"`: its directory was left behind and is a conflict to every
  recovery.  `ConflictHasCause` names it as a cause of its own.

A fourth needs a larger workspace: with two entries in a directory that is replaced,
`OutcomeExact` fails with one edit of one of them and `RaceWindow = TRUE`.  The edited
directory is in the quarantine but no longer matches, `infer_applied` answers "not
applied", rollback settles `Failed`, and the entry nobody touched is lost with the rest.

## 4. Fairness

`CommitProtocol` (`Converges`, under `FairSpec`) assumes that the committing call keeps
taking steps until it returns or dies, and that a workspace left with a transaction
directory is opened again and its recovery runs on: `Runtime::open` recovers before
anything else (runtime.rs:598).

`Workers` (`Settles`, under `FairSpec`) assumes of each request that its thread on the
host goes on whenever it can (`Host`) and that its deadline passes some day
(`Interrupt`); every blocking receive in the code polls the deadline.  Of the guests
nothing is assumed: a worker may stay silent for ever, and the request still ends.

Crashes, deaths, errors and edits get no fairness and are bounded.  The calls on the
store, the runtime and the filesystem are made by clients, who owe nobody a next call.

## 5. Theorems

`TransactionStoreProofs` proves, for all sets of transactions, principals and clock
readings (`TimeAssumption`: clocks are naturals; `NoGrantAssumption`: "no grant" is not a
grant), the four properties the run `store` checks on a small instance.

- `TypeCorrect`: `TypeOK` is inductive.
- `ReservedOnce` (`SingleUse`): the strengthening adds that a transaction not yet
  reserved has no wins; it is inductive because none of the callers' edges enters the
  consumed states from outside, and `Reserve` leaves the reservable ones.
- `ReviewIsBinding` (`ReviewedNeedsLiveGrant`): the strengthening says that a reviewed
  transaction is no longer `AutoApproved`, and that one in `Approved` holds a grant for
  itself; so `Reserve` can only take the branch that compares the clock.
- `LifecycleIsForward` (`Forward`): each action moves along an edge, and terminal states
  have none.
- `EdgesClimb` and `TerminalIffStuck` are facts about the lifecycle alone.

`RuntimeProofs` proves, for all sets of callers, processes and transactions, any hook
configuration of each process and any bound on deaths (`RuntimeAssumption`), three of the
properties the run `runtime` checks:

- `RuntimeKeepsStore` (`KeepsStore`): every step is a step of `TransactionStore` or
  leaves it alone, so the store's theorems hold of the runtime (for a "no grant" that is
  not a grant).
- `CancellationExcludesCommit` (`CancelledStaysOut`).
- `HookIsNotBypassed` (`HookHolds`).

They share one inductive invariant, `IInv`.  Its heart is `CallOK`, what a call has made
sure of by the time it is where it is: inside the boundary its token is entered, not
cancelled; from `persistExact` on the process has the configuration of the run; and at
every place from `enter` to `reserve`, *if* the process asks about everything and the
record could still be reserved unreviewed, then the call's handler was asked about an
automatic approval and let it through.  That last part needs no lock because
`Undecided` is left only one way: what the other callers do to the record in the meantime
can make the premise false but never true (`StoreStepKeeps`, `OthersOK`).  `Acts` and
`Preserved` reduce each action to the acting call; one lemma per group of actions does
the rest.

Its second half proves the rest of what `runtime` checks: `RuntimeTyped` (`TypeOK`, with
the limit on retained previews), `CancelledRunLeavesNothing` (`CancelledRunWithdrawn`),
`DurableStaysLoadable` (`DurableIsResumable`) and `ReservedLeavesNoPreview`
(`ReservedIsReleased`).  The argument is ownership, and `PInv` says it: until a run has
answered, its transaction is neither published nor anybody else's (`Alone`, `TaskOK`), so
the record stays in the states only a run produces and the preview at home; once it has
answered Cancelled, nobody ever learns of the transaction, and the artifact is on disk
before there is a record (`Sealed`).

`Induction` derives induction over the naturals from the well-foundedness of `<`, with
sets in the place of predicates (`SetInduction`), and with it lemmas about folds.
The first part of `FileStoreProofs` uses them on `Replay`, which reads a log frame by
frame: a prefix replays to the state at that point, an appended frame adds itself, and the
log a compaction writes replays to the very records it was written from (`ListingReplays`).

`FileStoreProofs` then proves the six invariants of the run `file_store` and the refinement,
for any number of handles, transactions, compactions and faults and any limits.

- `FInv` is the control-record argument: both logs always replay, the control file holds
  the current generation and at most the one before it (`ControlHeld`), a handle's cache
  is behind, or a replayed prefix of the active log (`CachesFit`), and the holder of the
  lock has a legal frame in hand and an up-to-date cache (`HolderSure`).  `StoreTyped`,
  `StoreNeverCorrupt` and `StoreCacheIsPrefix` follow.
- `Outcome` sums up every step: what is visible stays, or takes on the holder's frame.
  From it `StoreAckedSurvives`, `StoreConsumedOnce` and `StoreImplements` (the refinement
  of `TransactionStore`; a frame becomes visible when it is whole in the active log, also
  where the call then reports an error).
- `StoreTransitionsFit` rests on a weight: the records a compaction would write always
  leave the room that `Reserve` of the append checks keep free.
- `AckedHeld` is what a power loss may find: whatever was acknowledged is in the durable
  part of the active log and, while the record of a switch is being written, in that of the
  log it leaves.  `DurableFits` and `SyncedBehind` keep it so: a log is synced as a whole
  before a switch to it, and the synced control record is never ahead of the written one.
- `SwitchesSettle` is the hypothesis of all seven: no power loss takes back a switch whose
  control record was never synced, its writer having died or been refused before.  Any
  other mixture of deaths, failing syncs, torn writes and power losses is covered.  The
  hypothesis is needed, for `file_store_lost_switch` is the counterexample without it
  (section 3).  `StoreRefines` drops the exception `Implements` makes, for behaviours with
  deaths and failing syncs apart from power losses (`PowerApart`): there everything others
  can read has been synced (`Sealed`).

`CommitPlanProofs` proves `PlanShape`: for every finite set of paths and every two
different well-formed trees over it, each operation of the plan `Prepare` makes suits the
difference at its path, quarantines are disjoint and take nothing the diff does not name,
and every other operation has a path of its own and comes after the quarantine that makes
room for it.  `ShallowFirst` is any sort by depth, so the order the code gives siblings
does not matter to the results.

The last part of `CommitProtocolProofs` proves the two properties of the run `plan_order`
for every such set of paths and every acceptable pair of trees: `PlanOrderIsSound`
(`OrderIsSound`) and `PlanReachesBothEnds` (`ReachesBothEnds`).  The invariant says that the tree is a function
of the number of operations performed (`At`); `PlanOrder` gives the order of the parts,
and `ParentReady`, where the order matters, shows that around each operation the parent
directory exists and is writable.  `EndsAreExact` is the coverage of the diff.

Before that it proves of the protocol, for every set of paths, jobs, faults and edits:

- `CommitConflictHasCause` (`ConflictHasCause`).
- `CommitOutcomeExact`: `OutcomeExact` holds in every state of every *quiet* behaviour,
  one without edits between a check and the system call it is for (`RaceWindow = FALSE`),
  or without edits at all.  `CommitOutcomeExactChecked` restates it as the invariant the
  run `commit` checks.  The hypothesis is needed: see the last departure in section 3.
- `CommitIsAtomic` (`Implements`): the protocol refines `AtomicCommit`.
- `CommitSparesUserWork` (`UserWorkSurvives`), for a host without that window.
- `CommitRecoveryCopes` (`RecoveryCopes`).

The inductive invariant has three layers.  `CallInv` ties the two program counters to the
record, the lock, the marker and the journal, and needs no assumption on the edits.
`Placed` says what the workspace shows: before the outcome is settled `Reached(Extent)`,
the effects of some of the first `Extent` operations, with every quarantined subtree
either in place or aside as a whole; from the final verification on, the tree after.
`Extent` is the length of the journal, less the operation whose system call is still to
come, or the cursor of a rollback; an interruption never lowers it, and each undone
operation lowers it by one, so a rollback that completes has reached `0`, which is the
tree before.  It is *some* of the operations because a crash may leave the last one open,
and because a second rollback starts at the end of the journal again.  `Journaled` says
what the next step relies on: staged nodes, the identities the journal names, and that
nothing but an edit has changed a path since it was checked.

`CommitSparesUserWork` has an invariant of its own on top of that one, `WorkInv`.  The
workspace and every quarantined subtree hang together (`Placement`), so a node somebody
creates below a directory of the tree before shows in that directory's data.  Until
revalidation such a newcomer is therefore visible to it (`NewcomersShow`), and what
revalidation lets through is `Clear`: nothing of the other program's lies where an
operation to come acts without looking, below a quarantine root or at the place of a
link.  Later edits keep `Clear` only if they do not fall between a check and its system
call; each operation and each undo step checks the one path it touches
(`MutateWork`, `RollbackWork`).

`CommitRecoveryCopes` has a third invariant, `CopeInv`, for behaviours without faults in the
five places of section 3 and without another program in the tree; elsewhere, in recoveries
too, steps may be cut off or fail any number of times.  `Readable`:
plan, journal and state are there whenever recovery may start, and a marker stands only
over a verified workspace.  `Faithful`: each record names the parent, source and result of
its operation, and only the last one may be open.  `Told`: what a record says is done is
done, and an open operation left a trace if and only if it took effect, namely a
quarantined root, an owner marker, the staged file itself, a link that is no longer
staged, or a mode.  The order of the plan (`PlanOrder`) supplies the rest: the directory an
operation works in is there with the identity its intent names (`ParentOnDisk`), and a
created directory is empty when its turn to be undone comes (`CreatedIsEmpty`).  Hence
`infer_applied` never answers "conflict" and each check of `undo_operation` passes
(`TellsQuarantine`, `TellsMade`, `TellsMode`, `RollbackCopes`).  A recovery
that is cut off before it takes anything back, or while it finishes a marked commit,
starts again from the same evidence; a rollback that runs to its end leaves a terminal
record whatever the store's failures were before, and nothing goes `Stale` in a tree nobody
else works in.

`VirtualFsProofs` proves the four properties of the run `vfs`, for any set of paths
and names, any bases, any sequence of operations and any evidence limits:

- `ReadSetIsBase` (`EvidenceIsBase`) and `EvidenceIsCharged` (`Accounted`).
- `DiffIsExact` (`DiffExact`).
- `OverlayIsPlain` (`ImplementsPlain`): the refinement of `PlainFs`.

All rest on `VirtualFsInvariant`.  The properties themselves are far from inductive: the
canonical diff reads `Resolve`, which depends on every ancestor's overlay entry; an
operation may stop after any step of its script; and a slot moved by `rename` keeps naming
the base path its content will be read from.  `IInv` therefore says, besides the ledger:

- *The tree is rooted.*  While the budget lasts, the tree of the overlay (`TreeOf`, entries
  over base) has a directory above every node.  Then no tombstone hides a node, and what
  `resolve_ref` shows is exactly that tree (`VisibleIs`).
- *Slots tell the truth.*  An entry that still has an origin has the kind and the content of
  the base node there (`FromBase`), so what a moved lazy file records and reads is the base's.
- *Nothing without its precondition.*  Every overlay entry is in the write set, so every
  diff entry has one.
- *A settled diff stays.*  Once diffed, the diff is what it would be now (`Settled`),
  whatever the reviewer captures.

A script is a fold (`Run`), which the provers cannot take apart; `RunHasHistory` turns it
into a sequence of states, and `RunObserves` and `RunPuts` sum up the two kinds of scripts
there are, those that record and those that enter nodes.  One lemma per operation
(`WriteDoes`, `RenameDoes`, ...) then says what it answers and which tree it leaves, and
`PutRooted`, `DropRooted`, `ClearedRooted` and `MovedRooted` that the tree is rooted again.
Those lemmas are also the refinement: a budget that runs out half way through a rename is
`PlainFs`'s `spent`, after which nothing is promised of the tree, while the evidence lemmas
still hold.

The assumptions on the constants: paths are non-empty sequences closed under parents
(`PathAssumption`); "nothing" is neither a node nor a place (`NoneAssumption`) and not a
digest (`IdentityAssumption`); a base is a rooted tree with finitely many nodes
(`BasesAssumption`: a snapshot is a walk that ended); limits are naturals
(`LimitsAssumption`).

`WorkersProofs` proves the two safety properties of the run `workers`, for any number of
requests and worker processes, every front end and all limits: `ParkedFresh`
(`ParkedIsFresh`) and `NoneOffended` (`NobodyOffended`).  Neither is inductive: that a
worker may be parked depends on what each end believes of the conversation at the moment
one of them gives up.  `WorkersInvariant` says, and the runs' states confirm:

- `ChildOK`: a child by itself.  At most one message is on its way to it, and one its state
  expects (an `empty` Monty child can only be sent `Configure`, an `idle` Bash child only
  `Shutdown` or the `Run` of a session it has not had yet); a living one has sent nothing
  malformed, and no child knows a session from `nextSession` on.
- `RequestOK`: which workers a request holds, by where it stands.
- `ShellTalk` and `MontyTalk`: how far the two ends of a conversation have got.  After a
  `Run` the host awaits a call or a completion of this session and the next sequence
  number, or the child has died; after a reset it awaits `Ok`, and only then checks in.
- `Apart`: a worker is held by one request or parked once, and under its own kind.

The reader thread moves frames from the pipe to the channel at moments of its own.
`Stream`, the channel followed by the pipe, does not change when it does, so the invariant
speaks of the stream alone.  A cancellation, deadline or death leads to `drop`, or to
`retire` without `clean`, where only `ChildOK` is asked of the worker: it may be in any
state, but is never parked.  Each handler has a lemma for its own request and worker, and
`OwnChange` carries the rest over.  The assumptions are `WorkerAssumption` (room for a
frame, at least one lease and one process, and `NoWorker` is no process) and
`FrontendAssumption`.

What TLC alone shows: liveness (`Converges`, `ReservationResolved`, `Settles`), which is
out of the prover's reach; `EvidenceSuffices` of `VirtualFsTwins`, which relates two runs
of the guest; and everything about `Gateway` and `Policy`.  `Policy` uses `RECURSIVE`
matchers, so neither it nor `Gateway` can hold a theorem.

## 6. Abstractions

- *Store.* A frame has a size in units; its checksum is the difference between a torn
  and a whole frame, and a torn frame is a short one: a frame of full length with wrong
  bytes makes the store refuse to open by design (persistent.rs:761,
  docs/security.md:31) and does not occur.  Frames of the older format, one byte
  shorter than what a compaction rewrites them to (persistent.rs:28, 870), and repairs of
  headers at first creation are left out.  `CallerEdges` are the transitions the committer
  and the runtime ask for; they do so at more places than the one that is mapped.
- *Plan.* Contents and modes are the few values the code tells apart (readable, read
  only).  Created directories must be `0o700` at first, and changes inside a directory
  that stays read-only are refused by the host, so both are outside `Acceptable`.  That
  POSIX also wants write permission on a directory that moves to another parent
  (committer.rs:1509) is not part of `Applicable`: the quarantine of a read-only directory
  may fail there, as an I/O error of its operation.  Siblings are ordered by depth alone.
- *Committer.* One transaction at a time; the shared snapshot lock, hard-link aliases,
  dependency limits and the deep re-check of unchanged subtrees are abstracted.
  Revalidation and each undo step are atomic.  Faults are process deaths and I/O errors;
  losing unsynced staged data to a power loss is not modelled.  A torn journal record is
  no record.  The other program edits, creates and removes files but does not move
  directories (docs/threat-model.md:68).  File identities are not reused.
- *Runtime.* The decision is an input; artifact contents, evidence and receipts are left
  out, and so is the receipt state a retained preview carries, which is only returned.
  `discard_cancelled` reads and compares in one step: nobody else knows the transaction
  yet.  The committer is reduced to lifecycle steps under the workspace lock and may
  give up anywhere.  Failing reads and writes of the stores, errors of `CommitPlan::new` and
  the cancellation check at the very beginning of `commit_cancellable` (runtime.rs:837), which
  all end a call before it has changed anything, are left out.  `ReservedIsReleased` is about
  the process that reserved: a preview stays retained when its reserve answers "expired"
  (runtime.rs:1129) or when another process reserves or rejects it.  A transaction id is used only by those it was returned to (there
  is no operation that lists transactions).
- *Virtual filesystem.* Content is a sequence of chunks and a digest is the content
  itself.  The budget counts records; its byte charges, and those of effects, are left
  out.  A snapshot is taken at one instant; what changes on the host later is `HostEdit`,
  found when lazy content is first read, or is left to revalidation.  What a rewritten file
  holds is one content, the empty one.  Errors of the blob store, `UnsupportedMode` and the
  limits in bytes are left out.  `MaxOps` bounds the
  operations of a transaction.  In the twins the guest is deterministic and stops being
  compared where its answers first differ.
- *Policy and gateway.* The thresholds are scaled down, the presets' numbers left out.  A
  name is a short sequence of characters; class and case rules do not exist in the code.
  The mapping of host-style paths to virtual ones, result limits, exceptions' wording and
  the content search's regular expressions are left out; what a traversal finds is any
  number of visits up to all.  Timeouts inside a traversal belong to `Workers`.  The
  evidence budget is `VirtualFs`'s and is not charged again here.  On the Bash side the
  answers for `/` that never reach the gateway, and the failures that end a run as outside
  the profile or as an invalid operation (host.rs:782-799), are left out: in the model the
  guest may go on, as a Monty program may.  The risk flag for executable modes and the cap of
  the deletion ratio are not told apart.
- *Workers.* A write is taken by the pipe at once or fails on a dead process, so the
  writer thread of `WorkerInput` and the stderr drain have no steps; the reader thread
  moves a frame as soon as there is room.  Frame limits and decoding errors are one
  "Malformed" frame.  The Monty channel of 64 and the Bash channel of 1 are both `Room`.
  The version check, the bound on a worker's events, the earlier deadline of a nested
  shell, and call ids (at most one call is pending) are left out, as is a cancellation seen
  after the worker was checked in, which changes the answer and nothing else
  (worker.rs:289).  `Worker` bounds the
  processes that live at once; a spawn needs a free identity.

### Not modelled

- *Blob store and data directory.* Content-addressed `put`, `get`, verification.  `put` of
  a blob that is already visible returns without syncing the shard directory; the effect
  on a power loss would need the artifact and the store in one model.
- *Artifact, review and output codecs; Python binding and package; facades.* Deterministic
  conversions without state of their own; the asynchronous hook path of the Python package
  reaches the runtime through the calls `Runtime` models.
- *Several transactions at once in the committer*, a hazard the list names
  (committer.rs:821): `CommitProtocol` follows one.  Of the other hazards without a
  property, committer.rs:986, 1587 and 2043 are departures described in section 3, and
  host.rs:463 is a parked Bash worker that has died: `Workers` has that behaviour, the
  request fails and the worker is replaced, and no document promises a retry.

## 7. Plan

Done: lifecycle, store, durable store, plan, commit protocol, runtime, virtual filesystem,
worker processes and pools, each with its proofs; policy, gateway and budget, checked.
Next, in order of importance:

1. A proof of `EvidenceSuffices`, for which the invariant of `VirtualFsProofs` is the ground.
2. `VirtualFs` composed with `CommitPlan`: every diff is `Acceptable`.
3. `BlobStore`: temporary file, link, verification, concurrent writers of one digest.
4. Two transactions in `CommitProtocol`.
