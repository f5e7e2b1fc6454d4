---------------------------- MODULE CommitProtocol ----------------------------
(***************************************************************************)
(* Committer: one reserved transaction is journaled, revalidated, applied  *)
(* to the workspace, verified and marked complete; recover finishes or     *)
(* rolls back what an interrupted commit left.  Any step may be cut off by *)
(* the death of the process or fail with an I/O error, recovery included,  *)
(* and an editor that knows nothing of VSH works in the same tree.         *)
(*                                                                         *)
(* An inode is a number: the nodes the transaction saw have Original, the  *)
(* nodes it makes have Made, and every node the editor makes has its own.  *)
(* data stands for bytes, size and mtime together; the data of a directory *)
(* is its mtime, which the editor changes by adding or removing an entry.  *)
(* The editor does not move directories: their identity between a check    *)
(* and the system call after it is a stated limit of the program.          *)
(***************************************************************************)
EXTENDS CommitPlan, Lifecycle, FiniteSets

CONSTANTS Jobs,            \* the transactions: records [before, after]
          MaxOperations,   \* CommitConfig::max_operations
          Troubles,        \* what may go wrong together in a behaviour: records
                           \* [regions in which steps are cut off or fail,
                           \*  how many are, edits by the other program]
          RaceWindow       \* TRUE: edits also between a check and its system call

Regions == {"reserved", "setup", "prepare", "mkdir", "operate", "marker", "finish",
            "resolve", "cleanup", "recovery", "rollback"}

Trees == [Path -> Node \cup {None}]

(* The other program's data, and the nodes of the workspace.                *)
Editor == "user"
HostNode == [kind : {"file", "link", "dir"}, data : Contents \cup {"entries", Editor},
             mode : Modes, id : Nat]

ASSUME ProtocolAssumption ==
  /\ None \notin Nat \cup HostNode
  /\ Troubles \subseteq [regions : SUBSET Regions, interrupts : Nat, edits : Nat]
  /\ MaxOperations \in Nat
  /\ RaceWindow \in BOOLEAN
  /\ Jobs \subseteq [before : Trees, after : Trees]
  /\ \A j \in Jobs : /\ WellFormed(j.before) /\ WellFormed(j.after)
                     /\ Acceptable(j.before, j.after)

VARIABLES
  plan,        \* [before, after, operations], as in the plan file
  host,        \* the workspace
  owner,       \* created directories that hold their owner marker
  stage,       \* staged nodes by destination
  quarantine,  \* quarantined nodes by the path they came from
  entries,     \* what the transaction directory holds, itself included
  torn,        \* those of them that were written in part
  journal,     \* the journal's complete records, by operation
  state,       \* the record in the transaction store
  lock,        \* the exclusive workspace lock: "free", "commit", "recover"
  pc,          \* where the committing call is; "done" when it returned or died
  phase,       \* where in the current operation it is
  seen,        \* the witness apply_operation returned
  rpc,         \* where recover is
  cursor,      \* the operation its rollback looks at
  found,       \* its stored_state
  report,      \* how the last recover ended
  touched,     \* history: paths the editor changed
  foreign,     \* history: the editor's last node at a path
  trouble      \* the part of a member of Troubles that may still happen

disk == <<host, owner, stage, quarantine, entries, torn, journal>>
commit == <<pc, phase, seen>>
recovery == <<rpc, cursor, found, report>>
editor == <<touched, foreign>>
vars == <<plan, disk, state, lock, commit, recovery, editor, trouble>>

Original == 0
Made == 1

Before == plan.before
After == plan.after
Operation(i) == plan.operations[i]
Count == Len(plan.operations)

(* The node the transaction saw at p, and the one it makes there.           *)
WithId(node, id) ==
  IF node = None THEN None
  ELSE [kind |-> node.kind, data |-> node.data, mode |-> node.mode, id |-> id]
Base(p) == WithId(Before[p], Original)
New(p) == WithId(After[p], Made)

Nowhere == [p \in Path |-> None]

Init ==
  /\ plan \in {[before |-> j.before, after |-> j.after,
                operations |-> Prepare(j.before, j.after)] : j \in Jobs}
  /\ host = [p \in Path |-> Base(p)]
  /\ owner = {} /\ stage = Nowhere /\ quarantine = Nowhere
  /\ entries = {} /\ torn = {} /\ journal = <<>>
  /\ state = "Reserved"
  /\ lock = "free"
  /\ pc = "reserved" /\ phase = "intent" /\ seen = None
  /\ rpc = "idle" /\ cursor = 0 /\ found = None /\ report = "none"
  /\ touched = {} /\ foreign = Nowhere
  /\ trouble \in Troubles

-----------------------------------------------------------------------------
(* What the checks of the committer compare.                                *)

(* state_matches against a final state: kind, bytes and mode.               *)
Matches(node, want) ==
  IF want = None THEN node = None
  ELSE /\ node # None
       /\ node.kind = want.kind /\ node.mode = want.mode
       /\ node.kind # "dir" => node.data = want.data

Parent(p) == Front(p)
ParentId(p) == IF Len(p) = 1 THEN Original ELSE host[Parent(p)].id

(* The pinned (or witnessed) parent is still the directory at its path.     *)
ParentHeld(p, id) ==
  Len(p) > 1 => IsDir(host, Parent(p)) /\ host[Parent(p)].id = id

HasId(node, id) == node # None /\ node.id = id

Children(p) == {x \in Within(p) : Len(x) = Len(p) + 1}

(* The region the next step of the call, or of recovery, lies in.           *)
Current == Operation(Len(journal))
MakesDirectory == pc = "operate" /\ phase = "verify" /\ Current.op = "CreateDirectory"

Region ==
  CASE rpc = "cleanup" \/ pc = "cleanup" -> "cleanup"
    [] rpc = "rollback"                  -> "rollback"
    [] rpc \notin {"idle", "cleanup", "rollback"} -> "recovery"
    [] pc \in {"workspace", "plan", "journal"} -> "setup"
    [] pc \in {"stage", "revalidate", "enter"} -> "prepare"
    [] MakesDirectory                    -> "mkdir"
    [] pc \in {"operate", "verify", "mark"} /\ ~MakesDirectory -> "operate"
    [] OTHER                             -> pc

Interrupted(region) ==
  /\ region \in trouble.regions /\ trouble.interrupts > 0
  /\ trouble' = [trouble EXCEPT !.interrupts = @ - 1]

-----------------------------------------------------------------------------
(* commit_with_faults: before and after the lock.                           *)
(* Mutation: the call ends and its lock guard is leaked.                    *)
ReturnHoldingLock == pc' = "done" /\ UNCHANGED lock

Return == pc' = "done" /\ lock' = "free"

(* prepare_reserved_plan refuses the plan.                                  *)
RefusePlan ==
  /\ pc = "reserved" /\ Count > MaxOperations
  /\ state' = "Failed" /\ pc' = "done"
  /\ UNCHANGED <<plan, disk, lock, phase, seen, recovery, editor, trouble>>

Begin ==
  /\ pc = "reserved" /\ Count <= MaxOperations
  /\ lock = "free" /\ lock' = "commit"
  /\ state = "Reserved" /\ state' = "Revalidating"
  /\ pc' = "workspace"
  /\ UNCHANGED <<plan, disk, phase, seen, recovery, editor, trouble>>

CreateWorkspace ==
  /\ pc = "workspace"
  /\ entries' = {"directory"}
  /\ pc' = "plan"
  /\ UNCHANGED <<plan, host, owner, stage, quarantine, torn, journal, state, lock, phase, seen,
                 recovery, editor, trouble>>

(* create_transaction_workspace fails, perhaps after the directory exists:  *)
(* the attempt is Failed, unless the store fails too, which is ignored, and *)
(* nothing is cleaned up.                                                   *)
CreateWorkspaceFails ==
  /\ pc = "workspace" /\ Interrupted("setup")
  /\ entries' \in {{}, {"directory"}}
  /\ state' \in {"Failed", state} /\ Return
  /\ UNCHANGED <<plan, host, owner, stage, quarantine, torn, journal, phase, seen, recovery,
                 editor>>

Write(at, entry, onward) ==
  /\ pc = at
  /\ entries' = entries \cup {entry}
  /\ pc' = onward
  /\ UNCHANGED <<plan, host, owner, stage, quarantine, torn, journal, state, lock, phase, seen,
                 recovery, editor, trouble>>

WritePlan == Write("plan", "plan", "journal")

CreateJournal == Write("journal", "journal", "stage")

StageContent ==
  /\ pc = "stage"
  /\ entries' = entries \cup {"stage", "quarantine"}
  /\ stage' = [p \in Path |->
       IF \E i \in 1..Count : Operation(i).path = p /\ Operation(i).op \in {"InstallFile", "InstallSymlink"}
       THEN New(p) ELSE None]
  /\ pc' = "revalidate"
  /\ UNCHANGED <<plan, host, owner, quarantine, torn, journal, state, lock, phase, seen, recovery,
                 editor, trouble>>

(* What the transaction read or writes: its diff, the directories above it  *)
(* and, for a subtree that goes, everything in it.                          *)
Dependencies ==
  LET diff == Changed(Before, After) IN
    diff \cup {p \in Path : \E q \in diff : p = Parent(q)}

(* Revalidation of every dependency, then of the pinned parents.            *)
Revalidate ==
  /\ pc = "revalidate"
  /\ IF \A p \in Dependencies : host[p] = Base(p)
     THEN pc' = "enter" /\ UNCHANGED state
     ELSE pc' = "resolve" /\ state' = "Stale"
  /\ UNCHANGED <<plan, disk, lock, phase, seen, recovery, editor, trouble>>

EnterCommitting ==
  /\ pc = "enter"
  /\ state' = "Committing"
  /\ pc' = "operate"
  /\ UNCHANGED <<plan, disk, lock, phase, seen, recovery, editor, trouble>>

-----------------------------------------------------------------------------
(* One operation: intent, check, system call, check of the result, done.    *)
(* A step that refuses goes to resolve_commit_result.                       *)
InOperation(at) == pc = "operate" /\ phase = at

GoOn(at) == phase' = at /\ UNCHANGED pc
Refuse == pc' = "resolve" /\ UNCHANGED phase

(* operation_source_witness and the synced intent record.                   *)
Source(o) ==
  CASE o.op = "SetFileMode"      -> IF IsKind(host, o.path, "file") THEN {host[o.path].id} ELSE {}
    [] o.op = "SetDirectoryMode" -> IF IsDir(host, o.path) THEN {host[o.path].id} ELSE {}
    [] o.op = "InstallSymlink"   -> {stage[o.path].id}
    [] OTHER                     -> {None}

Intent ==
  /\ InOperation("intent") /\ Len(journal) < Count
  /\ LET o == Operation(Len(journal) + 1) IN
       IF Source(o) = {}
       THEN Refuse /\ UNCHANGED journal
       ELSE /\ \E s \in Source(o) :
                 journal' = Append(journal, [source |-> s, parent |-> ParentId(o.path), done |-> None])
            /\ GoOn("check")
  /\ UNCHANGED <<plan, host, owner, stage, quarantine, entries, torn, state, lock, seen, recovery,
                 editor, trouble>>

(* What must hold of the old node right before the system call.             *)
Expected(o) ==
  LET p == o.path
      witness == Last(journal).source IN
    CASE o.op = "Quarantine"       -> host[p] = Base(p)
      [] o.op = "SetFileMode"      -> host[p] = Base(p) /\ HasId(host[p], witness)
      [] o.op = "SetDirectoryMode" -> /\ IsDir(host, p) /\ host[p].mode = Before[p].mode
                                      /\ HasId(host[p], witness) /\ HasId(host[p], Original)
      [] OTHER                     -> TRUE

Check ==
  /\ InOperation("check")
  /\ IF ParentHeld(Current.path, Last(journal).parent) /\ Expected(Current)
     THEN GoOn("mutate") ELSE Refuse
  /\ UNCHANGED <<plan, disk, state, lock, seen, recovery, editor, trouble>>

(* The subtree at p leaves the tree "from" and replaces what "to" holds.    *)
Moved(from, to, p) == [x \in Path |-> IF x \in Within(p) THEN from[x] ELSE to[x]]

(* Mutation: mkdir and the hard link succeed whatever stands there.         *)
VacantUnchecked(p) == TRUE

Vacant(p) == host[p] = None

(* The system call.  A hard link and mkdir fail on an existing name; rename *)
(* replaces it, a directory excepted.  A mode is changed through the pinned *)
(* file, so when another node took its name the workspace is not affected.  *)
Call(o) ==
  LET p == o.path IN
    CASE o.op = "Quarantine"      -> /\ host[p] # None
                                     /\ quarantine' = Moved(host, quarantine, p)
                                     /\ host' = Without(host, p)
                                     /\ UNCHANGED stage
      [] o.op = "CreateDirectory" -> /\ Vacant(p)
                                     /\ host' = [host EXCEPT ![p] = New(p)]
                                     /\ UNCHANGED <<stage, quarantine>>
      [] o.op = "InstallFile"     -> /\ Vacant(p)
                                     /\ host' = [host EXCEPT ![p] = stage[p]]
                                     /\ UNCHANGED <<stage, quarantine>>
      [] o.op = "InstallSymlink"  -> /\ ~IsDir(host, p)
                                     /\ host' = [host EXCEPT ![p] = stage[p]]
                                     /\ stage' = [stage EXCEPT ![p] = None]
                                     /\ UNCHANGED quarantine
      [] OTHER                    -> /\ HasId(host[p], Last(journal).source)
                                     /\ host' = [host EXCEPT ![p].mode = After[p].mode]
                                     /\ UNCHANGED <<stage, quarantine>>

CallFails(o) ==
  CASE o.op = "Quarantine" -> host[o.path] = None
    [] o.op \in {"CreateDirectory", "InstallFile"} -> ~Vacant(o.path)
    [] o.op = "InstallSymlink" -> IsDir(host, o.path)
    [] OTHER -> ~HasId(host[o.path], Last(journal).source)

Mutate ==
  /\ InOperation("mutate")
  /\ \/ Call(Current) /\ GoOn("verify")
     \/ CallFails(Current) /\ Refuse /\ UNCHANGED <<host, stage, quarantine>>
  /\ UNCHANGED <<plan, owner, entries, torn, journal, state, lock, seen, recovery, editor,
                 trouble>>

(* The result is what was approved; a created directory gets its marker.    *)
Result(o) ==
  LET p == o.path IN
    CASE o.op = "Quarantine"     -> quarantine[p] = Base(p)
      [] o.op = "SetFileMode"    -> host[p] = [Base(p) EXCEPT !.mode = After[p].mode]
      [] o.op \in {"InstallFile", "InstallSymlink"} -> Matches(host[p], After[p])
      [] OTHER                   -> TRUE

Verify ==
  /\ InOperation("verify")
  /\ IF Result(Current)
     THEN /\ seen' = IF Current.op = "Quarantine" THEN quarantine[Current.path].id
                     ELSE host[Current.path].id
          /\ owner' = IF Current.op = "CreateDirectory" THEN owner \cup {Current.path} ELSE owner
          /\ GoOn("done")
     ELSE Refuse /\ UNCHANGED <<seen, owner>>
  /\ UNCHANGED <<plan, host, stage, quarantine, entries, torn, journal, state, lock, recovery,
                 editor, trouble>>

Done ==
  /\ InOperation("done")
  /\ journal' = [journal EXCEPT ![Len(journal)].done = seen]
  /\ GoOn("intent")
  /\ UNCHANGED <<plan, host, owner, stage, quarantine, entries, torn, state, lock, seen, recovery,
                 editor, trouble>>

-----------------------------------------------------------------------------
(* After the last operation.                                                *)
ClearMarkers ==
  /\ InOperation("intent") /\ Len(journal) = Count
  /\ owner' = {}
  /\ pc' = "verify"
  /\ UNCHANGED <<plan, host, stage, quarantine, entries, torn, journal, state, lock, phase, seen,
                 recovery, editor, trouble>>

(* verify_final: every diff path, and the identity of what was changed in   *)
(* place.                                                                   *)
FinalStateHolds ==
  /\ \A p \in Changed(Before, After) : Matches(host[p], After[p])
  /\ \A i \in 1..Count : ModeOperation(Operation(i)) =>
       i <= Len(journal) /\ HasId(host[Operation(i).path], journal[i].done)

VerifyFinal ==
  /\ pc = "verify"
  /\ pc' = IF FinalStateHolds THEN "mark" ELSE "resolve"
  /\ UNCHANGED <<plan, disk, state, lock, phase, seen, recovery, editor, trouble>>

WriteMarker == Write("mark", "marker", "finish")

Finish ==
  /\ pc = "finish"
  /\ state' = "Committed"
  /\ pc' = "cleanup"
  /\ UNCHANGED <<plan, disk, lock, phase, seen, recovery, editor, trouble>>

(* resolve_commit_result on an error.  A transition that fails here is      *)
(* ignored.                                                                 *)
Resolution ==
  CASE state = "Revalidating" -> "Failed"
    [] state = "Committing"   -> "RecoveryRequired"
    [] OTHER                  -> state

Resolve ==
  /\ pc = "resolve"
  /\ \/ state' = Resolution /\ UNCHANGED trouble
     \/ state' = state /\ Resolution # state /\ Interrupted("resolve")
  /\ IF state = "Committing" THEN Return ELSE pc' = "cleanup" /\ UNCHANGED lock
  /\ UNCHANGED <<plan, disk, phase, seen, recovery, editor>>

-----------------------------------------------------------------------------
(* cleanup_transaction: remove_dir_all takes the entries in any order, the  *)
(* directory itself last.                                                   *)
Removed(e) ==
  /\ entries' = entries \ {e}
  /\ torn' = torn \ {e}
  /\ stage' = IF e = "stage" THEN Nowhere ELSE stage
  /\ quarantine' = IF e = "quarantine" THEN Nowhere ELSE quarantine
  /\ journal' = IF e = "journal" THEN <<>> ELSE journal
  /\ UNCHANGED <<host, owner>>

RemoveEntry ==
  /\ \E e \in entries : /\ e = "directory" => entries = {"directory"}
                        /\ Removed(e)
  /\ UNCHANGED <<plan, state, phase, seen, found, cursor, editor, trouble>>

Cleanup ==
  /\ pc = "cleanup" /\ RemoveEntry
  /\ UNCHANGED <<pc, lock, rpc, report>>

CleanedUp ==
  /\ pc = "cleanup" /\ entries = {} /\ Return
  /\ UNCHANGED <<plan, disk, state, phase, seen, recovery, editor, trouble>>

-----------------------------------------------------------------------------
(* A step of the call fails and the call goes on to resolve the error; a    *)
(* failing cleanup is only reported (cleanup_pending); fail_reserved leaves *)
(* the reservation behind when the store fails as well.                     *)
StepFails ==
  /\ pc \notin {"done", "workspace", "resolve"} /\ Interrupted(Region)
  /\ CASE pc = "reserved" -> pc' = "done" /\ state' \in {"Failed", "Reserved"} /\ UNCHANGED lock
       [] pc = "cleanup"  -> Return /\ UNCHANGED state
       [] OTHER           -> pc' = "resolve" /\ UNCHANGED <<state, lock>>
  /\ UNCHANGED <<plan, disk, phase, seen, recovery, editor>>

(* The process of the call dies.                                            *)
Crash ==
  /\ pc # "done" /\ Interrupted(Region)
  /\ pc' = "done"
  /\ lock' = IF lock = "commit" THEN "free" ELSE lock
  /\ UNCHANGED <<plan, disk, state, phase, seen, recovery, editor>>

(* A file is left incomplete, by an error or by the death of the process.   *)
(* (An incomplete journal record reads as no record: read_journal ignores a *)
(* torn tail.)                                                              *)
WriteTears ==
  /\ \E at \in {<<"plan", "plan", "setup">>, <<"journal", "journal", "setup">>,
                <<"mark", "marker", "marker">>} :
       /\ pc = at[1] /\ Interrupted(at[3])
       /\ entries' = entries \cup {at[2]} /\ torn' = torn \cup {at[2]}
  /\ \/ pc' = "resolve" /\ UNCHANGED lock
     \/ Return
  /\ UNCHANGED <<plan, host, owner, stage, quarantine, journal, state, phase, seen, recovery,
                 editor>>

-----------------------------------------------------------------------------
(* recover: under the exclusive lock, for what a transaction directory      *)
(* holds.                                                                   *)
EndRecovery(how) == rpc' = "idle" /\ lock' = "free" /\ report' = how
OnTo(at) == rpc' = at /\ UNCHANGED <<lock, report>>

StartRecovery ==
  /\ lock = "free" /\ rpc = "idle" /\ entries # {}
  /\ lock' = "recover" /\ rpc' = "read"
  /\ UNCHANGED <<plan, disk, state, commit, cursor, found, report, editor, trouble>>

Whole(e) == e \in entries \ torn

(* Mutation: the marker is not looked for.                                  *)
ReadWorkspaceUnmarked ==
  /\ rpc = "read"
  /\ IF Whole("plan") /\ Whole("journal") THEN OnTo("store") ELSE EndRecovery("error")
  /\ UNCHANGED <<plan, disk, state, commit, cursor, found, editor, trouble>>

(* The plan, the marker and the journal are read; whatever is missing or    *)
(* incomplete makes the whole call return an error.                         *)
ReadWorkspace ==
  /\ rpc = "read"
  /\ IF Whole("plan") /\ Whole("journal") /\ "marker" \notin torn
     THEN OnTo(IF "marker" \in entries THEN "finalize" ELSE "store")
     ELSE EndRecovery("error")
  /\ UNCHANGED <<plan, disk, state, commit, cursor, found, editor, trouble>>

(* A marked commit is finished, if the workspace still verifies.            *)
Finalize ==
  /\ rpc = "finalize"
  /\ IF FinalStateHolds /\ state \in {"Committing", "RecoveryRequired", "Committed"}
     THEN state' = "Committed" /\ OnTo("cleanup")
     ELSE EndRecovery("conflict") /\ UNCHANGED state
  /\ UNCHANGED <<plan, disk, commit, cursor, found, editor, trouble>>

(* Mutation: rollback starts at the last completed operation.               *)
ReadStoreCompleted ==
  /\ rpc = "store"
  /\ entries' = entries \cup {"stage", "quarantine"}
  /\ found' = state
  /\ cursor' = Cardinality({i \in 1..Len(journal) : journal[i].done # None})
  /\ IF state = "Committed"
     THEN EndRecovery("conflict") /\ UNCHANGED state
     ELSE /\ state' = IF state = "Committing" THEN "RecoveryRequired" ELSE state
          /\ OnTo("rollback")
  /\ UNCHANGED <<plan, host, owner, stage, quarantine, torn, journal, commit, editor, trouble>>

ReadStore ==
  /\ rpc = "store"
  /\ entries' = entries \cup {"stage", "quarantine"}
  /\ found' = state
  /\ cursor' = Len(journal)
  /\ IF state = "Committed"
     THEN EndRecovery("conflict") /\ UNCHANGED state
     ELSE /\ state' = IF state = "Committing" THEN "RecoveryRequired" ELSE state
          /\ OnTo("rollback")
  /\ UNCHANGED <<plan, host, owner, stage, quarantine, torn, journal, commit, editor, trouble>>

(* verify_mode_owner: still the file whose mode the intent covers.          *)
FileModeOwned(p, record) ==
  /\ IsKind(host, p, "file")
  /\ HasId(host[p], record.source) /\ HasId(host[p], Original)
  /\ record.done # None => HasId(host[p], record.done)
  /\ host[p].data = Before[p].data

DirectoryModeOwned(p, record) ==
  /\ IsDir(host, p)
  /\ HasId(host[p], record.source) /\ HasId(host[p], Original)
  /\ record.done # None => HasId(host[p], record.done)

ModeOwned(o, record) ==
  IF o.op = "SetFileMode" THEN FileModeOwned(o.path, record) ELSE DirectoryModeOwned(o.path, record)

SameFile(p) == stage[p] # None /\ HasId(host[p], stage[p].id) /\ host[p].kind = stage[p].kind

(* infer_applied: did the operation take effect?  A completed one is not    *)
(* looked at, except for modes.                                             *)
Took(o, record) ==
  LET p == o.path IN
    CASE record.done # None /\ ~ModeOperation(o) -> "yes"
      [] record.done = None /\ o.op = "Quarantine" ->
           CASE host[p] # None /\ quarantine[p] = None -> "no"
             [] host[p] = None /\ quarantine[p] # None ->
                  IF quarantine[p] = Base(p) THEN "yes" ELSE "no"
             [] OTHER -> "conflict"
      [] record.done = None /\ o.op = "CreateDirectory" ->
           IF host[p] = None THEN "no" ELSE IF p \in owner THEN "yes" ELSE "conflict"
      [] record.done = None /\ o.op = "InstallFile" ->
           IF host[p] = None THEN "no" ELSE IF SameFile(p) THEN "yes" ELSE "conflict"
      [] record.done = None /\ o.op = "InstallSymlink" ->
           CASE host[p] = None /\ (stage[p] = None \/ HasId(stage[p], record.source)) -> "no"
             [] stage[p] = None /\ HasId(host[p], record.source) /\ Matches(host[p], After[p]) -> "yes"
             [] OTHER -> "conflict"
      [] ModeOperation(o) ->
           IF ~ModeOwned(o, record) THEN "conflict"
           ELSE CASE host[p].mode = After[p].mode  -> "yes"
                  [] host[p].mode = Before[p].mode -> "no"
                  [] OTHER                         -> "conflict"

(* The directory that o made, known by its witness or its marker.           *)
MadeHere(p, record) ==
  /\ IsDir(host, p)
  /\ IF record.done # None THEN HasId(host[p], record.done) ELSE p \in owner

(* undo_operation: what must hold of the node it takes back...              *)
Ours(o, record) ==
  LET p == o.path IN
    CASE o.op = "Quarantine"      -> /\ record.done # None => HasId(quarantine[p], record.done)
                                     /\ quarantine[p] = Base(p)
                                     /\ host[p] = None
      [] o.op = "CreateDirectory" -> /\ MadeHere(p, record)
                                     /\ \A x \in Children(p) : host[x] = None
      [] o.op = "InstallFile"     -> /\ IF record.done # None THEN HasId(host[p], record.done)
                                        ELSE SameFile(p)
                                     /\ Matches(host[p], After[p])
      [] o.op = "InstallSymlink"  -> /\ HasId(host[p], IF record.done # None THEN record.done
                                                       ELSE record.source)
                                     /\ Matches(host[p], After[p])
      [] OTHER                    -> TRUE

(* ...and what that leaves.                                                 *)
Undo(o) ==
  LET p == o.path IN
    CASE o.op = "Quarantine" -> /\ host' = Moved(quarantine, host, p)
                                /\ quarantine' = Without(quarantine, p)
                                /\ UNCHANGED owner
      [] ModeOperation(o)    -> /\ host' = [host EXCEPT ![p].mode = Before[p].mode]
                                /\ UNCHANGED <<quarantine, owner>>
      [] OTHER               -> /\ host' = [host EXCEPT ![p] = None]
                                /\ owner' = owner \ {p}
                                /\ UNCHANGED quarantine

(* A created directory loses its marker before it is removed, and for good  *)
(* when it then cannot be because something is in it.                       *)
Unmarked(o, record) ==
  IF o.op = "CreateDirectory" /\ MadeHere(o.path, record) THEN owner \ {o.path} ELSE owner

(* rollback, one journaled operation after the other, in reverse.           *)
Rollback ==
  /\ rpc = "rollback" /\ cursor > 0
  /\ LET o == Operation(cursor)
         record == journal[cursor]
         took == IF ParentHeld(o.path, record.parent) THEN Took(o, record) ELSE "conflict"
     IN
       \/ /\ took = "no"
          /\ cursor' = cursor - 1
          /\ UNCHANGED <<host, quarantine, owner, rpc, lock, report>>
       \/ /\ took = "yes" /\ Ours(o, record)
          /\ Undo(o)
          /\ cursor' = cursor - 1
          /\ UNCHANGED <<rpc, lock, report>>
       \/ /\ took = "conflict" \/ (took = "yes" /\ ~Ours(o, record))
          /\ EndRecovery("conflict")
          /\ owner' = IF took = "yes" THEN Unmarked(o, record) ELSE owner
          /\ UNCHANGED <<host, quarantine, cursor>>
  /\ UNCHANGED <<plan, stage, entries, torn, journal, state, commit, found, editor, trouble>>

(* Mutation: a transaction that was only revalidating is not settled.       *)
SettleCommittingOnly ==
  /\ rpc = "rollback" /\ cursor = 0
  /\ IF state \in {"RecoveryRequired", "Failed"}
     THEN state' = "Failed" /\ OnTo("cleanup")
     ELSE EndRecovery("conflict") /\ UNCHANGED state
  /\ UNCHANGED <<plan, disk, commit, cursor, found, editor, trouble>>

Settle ==
  /\ rpc = "rollback" /\ cursor = 0
  /\ IF state \in {"RecoveryRequired", "Revalidating", "Reserved", "Failed"}
     THEN state' = "Failed" /\ OnTo("cleanup")
     ELSE EndRecovery("conflict") /\ UNCHANGED state
  /\ UNCHANGED <<plan, disk, commit, cursor, found, editor, trouble>>

CleanRecovered ==
  /\ rpc = "cleanup" /\ RemoveEntry
  /\ UNCHANGED <<pc, lock, rpc, report>>

EndClean ==
  /\ rpc = "cleanup" /\ entries = {} /\ EndRecovery("clean")
  /\ UNCHANGED <<plan, disk, state, commit, cursor, found, editor, trouble>>

(* The recovering process dies, or a step fails and recover returns; in a   *)
(* rollback perhaps when the marker of a directory has gone already.        *)
RecoveryInterrupted ==
  /\ rpc # "idle" /\ Interrupted(Region)
  /\ EndRecovery("none")
  /\ \/ UNCHANGED owner
     \/ /\ rpc = "rollback" /\ cursor > 0
        /\ LET o == Operation(cursor) IN
             /\ ParentHeld(o.path, journal[cursor].parent) /\ Took(o, journal[cursor]) = "yes"
             /\ owner' = Unmarked(o, journal[cursor])
  /\ UNCHANGED <<plan, host, stage, quarantine, entries, torn, journal, state, commit, cursor,
                 found, editor>>

-----------------------------------------------------------------------------
(* The other program.  Its nodes are files with data of its own.            *)

InRace(p) ==
  LET reached == pc = "operate" \/ pc = "enter" IN
  /\ reached
  /\ \E i \in 1..Count :
       /\ i >= Len(journal)
       /\ \/ Operation(i).op = "InstallSymlink" /\ Operation(i).path = p
          \/ Operation(i).op = "Quarantine" /\ IsStrictPrefix(Operation(i).path, p)
          \/ /\ Operation(i).op = "Quarantine" /\ Operation(i).path = p
             /\ i = Len(journal) /\ phase = "mutate"

Put(p, node) ==
  LET above == IF Len(p) > 1 /\ (node = None \/ ~HasId(host[p], node.id)) THEN {Parent(p)} ELSE {} IN
    /\ host' = [x \in Path |-> CASE x = p         -> node
                                 [] x \in above    -> [host[x] EXCEPT !.data = Editor]
                                 [] OTHER          -> host[x]]
    /\ touched' = touched \cup {p} \cup above
    /\ foreign' = [foreign EXCEPT ![p] = node]

Edit(p) ==
  /\ trouble.edits > 0 /\ trouble' = [trouble EXCEPT !.edits = @ - 1]
  /\ RaceWindow \/ ~InRace(p)
  /\ ~IsDir(host, p) /\ (Len(p) > 1 => IsDir(host, Parent(p)))
  /\ \/ Put(p, [kind |-> "file", data |-> Editor, mode |-> "rw", id |-> Made + trouble.edits])
     \/ host[p] # None /\ Put(p, [host[p] EXCEPT !.data = Editor])
     \/ host[p] # None /\ Put(p, None)
  /\ UNCHANGED <<plan, owner, stage, quarantine, entries, torn, journal, state, lock, commit,
                 recovery>>

-----------------------------------------------------------------------------
Committer ==
  \/ RefusePlan \/ Begin \/ CreateWorkspace \/ WritePlan \/ CreateJournal \/ StageContent
  \/ Revalidate \/ EnterCommitting
  \/ Intent \/ Check \/ Mutate \/ Verify \/ Done
  \/ ClearMarkers \/ VerifyFinal \/ WriteMarker \/ Finish
  \/ Resolve \/ Cleanup \/ CleanedUp

Recover ==
  \/ StartRecovery \/ ReadWorkspace \/ Finalize \/ ReadStore
  \/ Rollback \/ Settle \/ CleanRecovered \/ EndClean

Interruption == CreateWorkspaceFails \/ StepFails \/ Crash \/ WriteTears \/ RecoveryInterrupted

Next == Committer \/ Recover \/ Interruption \/ \E p \in Path : Edit(p)

Spec == Init /\ [][Next]_vars

(* A call runs on until it returns, and an interrupted workspace is opened  *)
(* again some day: Runtime::open recovers first.                            *)
FairSpec == Spec /\ WF_vars(Committer) /\ WF_vars(Recover)

-----------------------------------------------------------------------------
(* Once an attempt is decided, every path the editor left alone holds what  *)
(* the decision says: the approved node after Committed, and after Failed   *)
(* or Stale the very node that was there before.                            *)
OutcomeExact ==
  \A p \in Path \ touched :
    /\ state = "Committed" => Matches(host[p], After[p])
    /\ state \in {"Failed", "Stale"} => host[p] = Base(p)

(* The editor's latest node at a path is not destroyed: it is in place, or  *)
(* in the quarantine of a transaction that still exists.                    *)
UserWorkSurvives ==
  \A p \in Path : foreign[p] # None =>
    \E node \in {host[p], quarantine[p]} :
      HasId(node, foreign[p].id) /\ node.data = foreign[p].data

(* Recovery runs to its end on whatever an interruption left behind.        *)
RecoveryReads == report # "error"

(* ...and finds nothing it cannot attribute.                                *)
NoConflict == report # "conflict"

(* A conflict is only reported for a transaction that had begun to mutate,  *)
(* or whose stale record outlived an interrupted cleanup.                   *)
ConflictHasCause ==
  rpc = "idle" /\ report = "conflict" =>
    journal # <<>> \/ "marker" \in entries \/ found = "Stale"

Decided ==
  CASE Whole("marker") \/ state = "Committed" -> "committed"
    [] state \in {"Failed", "Stale"}                       -> "aborted"
    [] OTHER                                               -> "undecided"

Visible == [p \in Path |-> IF host[p] = None THEN None
                           ELSE [kind |-> host[p].kind, data |-> host[p].data, mode |-> host[p].mode]]

(* Nobody else works in the tree, in the whole behaviour.                   *)
Alone == trouble.edits = 0 /\ touched = {}
Outcome == IF Alone THEN Decided ELSE "undecided"

(* The protocol decides once, on the marker, and the decided tree stays     *)
(* (where nobody else changes it).                                          *)
Abstract == INSTANCE AtomicCommit WITH
  job <- [before |-> Before, after |-> After],
  outcome <- Outcome,
  tree <- IF Outcome = "undecided" THEN None ELSE Visible,
  Hidden <- None

Implements == Abstract!Spec

(* Steps are cut off or fail, any number of them, but in none of the five   *)
(* places where the next recovery cannot read or cannot attribute what is   *)
(* left: before the plan and the journal are whole; between mkdir and the   *)
(* owner marker of the new directory; in the completion marker; once a      *)
(* rollback takes back; while the transaction directory is removed.  Nobody *)
(* else works in the tree.                                                  *)
Tolerable ==
  /\ trouble.regions \cap {"setup", "mkdir", "marker", "rollback", "cleanup"} = {}
  /\ Alone

(* Everywhere else recovery runs to its end and finds nothing it cannot     *)
(* attribute: after a fault in the operations, too, and when it was itself  *)
(* cut off while it read, or finished a marked commit.                      *)
RecoveryCopes == Tolerable => RecoveryReads /\ NoConflict

(* Moreover no failing store leaves a record behind that no transaction     *)
(* directory goes with.                                                     *)
Settling ==
  /\ Tolerable
  /\ "reserved" \notin trouble.regions /\ ~{"prepare", "resolve"} \subseteq trouble.regions

(* Every such attempt ends, however often it or its recovery is cut off,    *)
(* with nothing of it left but its record.                                  *)
Converges == Settling => <>[](IsTerminal(state) /\ entries = {})

(* A consumed reservation is completed or resolved.                         *)
ReservationResolved == (state = "Reserved") ~> (state # "Reserved")
=============================================================================
