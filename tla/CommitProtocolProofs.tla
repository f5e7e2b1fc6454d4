-------------------------- MODULE CommitProtocolProofs --------------------------
(***************************************************************************)
(* What the commit protocol guarantees, for every set of paths, jobs and    *)
(* troubles.                                                                *)
(*                                                                          *)
(* The invariant has three layers.  CallInv ties the program counters of    *)
(* the committing call and of recovery to the record, the lock, the marker  *)
(* and the journal.  Placed says what the workspace shows: the effects of   *)
(* some of the first Extent operations, whole subtrees in place or aside;   *)
(* once the attempt is settled, the tree after.  Journaled says what the    *)
(* journal, the stage and the quarantine must hold for the next step to be  *)
(* right about it.  The last two hold in quiet circumstances; what a plan   *)
(* looks like comes from PlanShape.                                         *)
(*                                                                          *)
(* A second invariant, WorkInv, rests on the first: what the other program  *)
(* made last stands where it made it, because no operation still to come    *)
(* has it in its way.                                                       *)
(*                                                                          *)
(* A third, CopeInv, is for the faults that recovery tolerates: what it     *)
(* reads is there, and tells each operation that took effect from one that  *)
(* did not.                                                                 *)
(*                                                                          *)
(* The last part is about the plan alone, performed and undone step by step *)
(* as PlanReplay does.                                                      *)
(***************************************************************************)
EXTENDS CommitProtocol, PlanReplay, CommitPlanProofs

(* The two circumstances in which the outcome is exact: the editor stays out *)
(* of the moment between a check and its system call, or out of the tree.   *)
Quiet == ~RaceWindow \/ Alone

IsQuarantine(i) == Operation(i).op = "Quarantine"
Root(i) == Operation(i).path

(* What operation i, which is no quarantine, makes of the node at its path. *)
Product(i) ==
  LET p == Operation(i).path IN
    IF ModeOperation(Operation(i)) THEN [Base(p) EXCEPT !.mode = After[p].mode] ELSE New(p)

(* The subtree of quarantine i is still (or again) in place, or set aside.  *)
InPlace(i) == \A x \in Within(Root(i)) : quarantine[x] = None
Aside(i) ==
  /\ quarantine[Root(i)] = Base(Root(i))
  /\ \A x \in Within(Root(i)) \ touched : quarantine[x] = Base(x)

Away(p) ==
  \E i \in 1..Count : IsQuarantine(i) /\ p \in Within(Root(i)) /\ quarantine[Root(i)] # None
Ground(p) == IF Away(p) THEN None ELSE Base(p)

Makes(i, p) == ~IsQuarantine(i) /\ Operation(i).path = p

(* The workspace shows at most the first k operations, each of them or not. *)
Reached(k) ==
  /\ \A i \in 1..Count : IsQuarantine(i) => InPlace(i) \/ (i <= k /\ Aside(i))
  /\ \A p \in Path \ touched :
       host[p] = Ground(p) \/ \E i \in 1..Count :
         /\ i <= k /\ Makes(i, p) /\ host[p] = Product(i)
         /\ ModeOperation(Operation(i)) \/ Ground(p) = None

(* The last operation that may have taken effect.                           *)
Pending == pc = "operate" /\ phase \in {"check", "mutate"}
Frontier == IF Pending THEN Len(journal) - 1 ELSE Len(journal)
Extent ==
  IF state \in {"Failed", "Stale"} THEN 0
  ELSE IF rpc = "rollback" THEN cursor ELSE Frontier

Bare(node) ==
  IF node = None THEN None ELSE [kind |-> node.kind, data |-> node.data, mode |-> node.mode]
Exact ==
  \A p \in Path \ touched : Bare(host[p]) = After[p] /\ (host[p] = None <=> After[p] = None)

Control ==
  /\ lock = "commit" <=> pc \notin {"reserved", "done"}
  /\ lock = "recover" <=> rpc # "idle"
  /\ rpc # "idle" \/ report # "none" => pc = "done"
  /\ pc = "reserved" => state = "Reserved"
  /\ pc \in {"reserved", "workspace"} => entries = {}
  /\ pc \in {"workspace", "plan", "journal", "stage", "revalidate", "enter"} =>
       state = "Revalidating"
  /\ pc \in {"reserved", "workspace", "plan", "journal", "stage", "revalidate", "enter"} =>
       phase = "intent"
  /\ pc \in {"operate", "verify", "mark", "finish"} => state = "Committing"
  /\ pc = "resolve" => state \in {"Revalidating", "Stale", "Committing"}
  /\ pc = "cleanup" => state \in {"Revalidating", "Failed", "Stale", "Committed"}
  /\ state \in {"Reserved", "Revalidating", "Stale"} => journal = <<>>
  /\ state = "Failed" /\ pc # "done" => journal = <<>>
  /\ state \in {"Reserved", "Revalidating", "Committing", "Stale", "Failed", "Committed",
                "RecoveryRequired"}
  /\ rpc \in {"idle", "read", "finalize", "store", "rollback", "cleanup"}
  /\ pc \in {"reserved", "workspace", "plan", "journal", "stage", "revalidate", "enter", "operate",
             "verify", "mark", "finish", "resolve", "cleanup", "done"}
  /\ phase \in {"intent", "check", "mutate", "verify", "done"}

Progress ==
  /\ Len(journal) <= Count
  /\ pc = "operate" /\ phase # "intent" => journal # <<>>
  /\ pc \in {"verify", "mark", "finish"} => Len(journal) = Count
  /\ rpc = "rollback" => cursor \in 0..Len(journal)
  /\ rpc = "cleanup" => state \in {"Failed", "Committed"}

Marking ==
  /\ "marker" \in entries => state \in {"Committing", "RecoveryRequired", "Committed"}
  /\ "marker" \in entries => pc \in {"finish", "resolve", "cleanup", "done"}
  /\ pc = "finish" => "marker" \in entries
  /\ rpc = "finalize" => "marker" \in entries \ torn
  /\ rpc \in {"store", "rollback"} => "marker" \notin entries
  /\ rpc \in {"finalize", "store", "rollback"} /\ state = "Committed" => "journal" \in entries
  /\ rpc = "rollback" => state \notin {"Committed", "Committing"} /\ (state = "Stale" => found = "Stale")
  /\ "marker" \in entries /\ state # "Committed" => Len(journal) = Count
  /\ state = "Committed" /\ "journal" \in entries => Len(journal) = Count
  /\ torn \subseteq entries
  /\ state # "Committed" /\ pc = "cleanup" => "marker" \notin entries

Installs(i) == Operation(i).op \in {"InstallFile", "InstallSymlink"}

(* The stage holds the nodes to install, and no other.                      *)
Staged ==
  /\ \A p \in Path : stage[p] \in {None, New(p)}
  /\ pc \in {"revalidate", "enter", "operate"} =>
       \A i \in 1..Count : i > Frontier /\ Installs(i) => stage[Root(i)] = New(Root(i))

(* The journal names the node an operation made, where the editor did not   *)
(* replace it.                                                              *)
MadeRecord(i) ==
  /\ Operation(i).op = "InstallSymlink" => journal[i].source = Made
  /\ ~IsQuarantine(i) /\ ~ModeOperation(Operation(i)) /\ Root(i) \notin touched =>
       journal[i].done \in {None, Made}

(* While operations are performed: all before the current one took effect,  *)
(* and the current one as far as the call has come.                         *)
Underway ==
  LET n == Len(journal) IN
    /\ \A i \in 1..Count : IsQuarantine(i) /\ i <= Frontier => quarantine[Root(i)] = Base(Root(i))
    /\ phase = "mutate" /\ IsQuarantine(n) => host[Root(n)] = Base(Root(n))
    /\ phase = "verify" /\ ~IsQuarantine(n) /\ Root(n) \notin touched => host[Root(n)] = Product(n)
    /\ phase = "done" /\ ~IsQuarantine(n) /\ ~ModeOperation(Operation(n)) /\ Root(n) \notin touched =>
         seen = Made

Journaled ==
  /\ Staged
  /\ \A i \in 1..Len(journal) : MadeRecord(i)
  /\ pc = "operate" => Underway

Placed ==
  /\ state = "Committed" \/ Whole("marker") \/ pc \in {"mark", "finish"} => Exact
  /\ state # "Committed" => Reached(Extent)

Domains == DOMAIN host = Path /\ DOMAIN stage = Path /\ DOMAIN quarantine = Path

Recorded == \E T : journal \in Seq([source : T, parent : T, done : T])

(* Where the two calls are, and what that says about the record. *)
CallInv == Control /\ Progress /\ Marking /\ ConflictHasCause

(* Every step of the committing call keeps the call, the lock, the record   *)
(* and the journal in step (Committer::commit, from reservation to return). *)
LEMMA CommitterCall ==
  ASSUME CallInv, Recorded, Recorded', Count \in Nat, Count > 0, Committer
  PROVE  CallInv'
<1>0. Len(journal) \in Nat /\ Len(journal') \in Nat /\ (journal = <<>> <=> Len(journal) = 0)
      /\ (journal' = <<>> <=> Len(journal') = 0)
  BY DEF Recorded
<1>00. plan' = plan => Count' = Count
  BY DEF Count
<1> USE DEF Return, EndRecovery, OnTo, Interrupted, Write, InOperation, GoOn, Refuse, disk,
        recovery, editor, commit, Whole, CallInv, Control, Progress, Marking, ConflictHasCause
<1>1. CASE RefusePlan
  BY <1>0, <1>00, <1>1 DEF RefusePlan
<1>2. CASE Begin
  BY <1>0, <1>00, <1>2 DEF Begin
<1>3. CASE CreateWorkspace
  BY <1>0, <1>00, <1>3 DEF CreateWorkspace
<1>4. CASE WritePlan
  BY <1>0, <1>00, <1>4 DEF WritePlan
<1>5. CASE CreateJournal
  BY <1>0, <1>00, <1>5 DEF CreateJournal
<1>6. CASE StageContent
  BY <1>0, <1>00, <1>6 DEF StageContent
<1>7. CASE Revalidate
  BY <1>0, <1>00, <1>7 DEF Revalidate
<1>8. CASE EnterCommitting
  BY <1>0, <1>00, <1>8 DEF EnterCommitting
<1>9. CASE Intent
  <2> DEFINE o == Operation(Len(journal) + 1)
  <2>1. PICK T : journal \in Seq([source : T, parent : T, done : T])
    BY DEF Recorded
  <2>2. \/ journal' = journal /\ pc' = "resolve" /\ phase' = phase
        \/ \E r : journal' = Append(journal, r) /\ pc' = pc /\ phase' = "check"
    <3> HIDE DEF o
    <3> QED
      BY <1>9 DEF Intent
  <2>3. pc' = pc => Len(journal') = Len(journal) + 1 /\ journal' # <<>>
    BY <2>1, <2>2, <1>9 DEF Intent
  <2> QED
    BY <1>0, <1>00, <1>9, <2>2, <2>3 DEF Intent
<1>10. CASE Check
  BY <1>0, <1>00, <1>10 DEF Check
<1>11. CASE Mutate
  BY <1>0, <1>00, <1>11 DEF Mutate
<1>12. CASE Verify
  BY <1>0, <1>00, <1>12 DEF Verify
<1>13. CASE Done
  BY <1>0, <1>00, <1>13 DEF Done
<1>14. CASE ClearMarkers
  BY <1>0, <1>00, <1>14 DEF ClearMarkers
<1>15. CASE VerifyFinal
  BY <1>0, <1>00, <1>15 DEF VerifyFinal
<1>16. CASE WriteMarker
  BY <1>0, <1>00, <1>16 DEF WriteMarker
<1>17. CASE Finish
  BY <1>0, <1>00, <1>17 DEF Finish
<1>18. CASE Resolve
  BY <1>0, <1>00, <1>18 DEF Resolve, Resolution
<1>19. CASE Cleanup
  BY <1>0, <1>00, <1>19 DEF Cleanup, RemoveEntry, Removed
<1>20. CASE CleanedUp
  BY <1>0, <1>00, <1>20 DEF CleanedUp
<1> QED
  BY <1>1, <1>2, <1>3, <1>4, <1>5, <1>6, <1>7, <1>8, <1>9, <1>10, <1>11, <1>12, <1>13, <1>14,
     <1>15, <1>16, <1>17, <1>18, <1>19, <1>20 DEF Committer

(* So does every step of recover, every interruption of either, and an      *)
(* edit.                                                                    *)
LEMMA RecoverCall ==
  ASSUME CallInv, Recorded, Recorded', Count \in Nat, Count > 0,
         Recover \/ Interruption \/ \E p \in Path : Edit(p)
  PROVE  CallInv'
<1>0. Len(journal) \in Nat /\ Len(journal') \in Nat /\ (journal = <<>> <=> Len(journal) = 0)
      /\ (journal' = <<>> <=> Len(journal') = 0)
  BY DEF Recorded
<1>00. plan' = plan => Count' = Count
  BY DEF Count
<1> USE DEF Return, EndRecovery, OnTo, Interrupted, disk, recovery, editor, commit, Whole,
        CallInv, Control, Progress, Marking, ConflictHasCause
<1>1. CASE StartRecovery
  BY <1>0, <1>00, <1>1 DEF StartRecovery
<1>2. CASE ReadWorkspace
  BY <1>0, <1>00, <1>2 DEF ReadWorkspace
<1>3. CASE Finalize
  BY <1>0, <1>00, <1>3 DEF Finalize
<1>4. CASE ReadStore
  BY <1>0, <1>00, <1>4 DEF ReadStore
<1>5. CASE Rollback
  BY <1>0, <1>00, <1>5 DEF Rollback
<1>6. CASE Settle
  BY <1>0, <1>00, <1>6 DEF Settle
<1>7. CASE CleanRecovered
  BY <1>0, <1>00, <1>7 DEF CleanRecovered, RemoveEntry, Removed
<1>8. CASE EndClean
  BY <1>0, <1>00, <1>8 DEF EndClean
<1>9. CASE CreateWorkspaceFails
  BY <1>0, <1>00, <1>9 DEF CreateWorkspaceFails
<1>10. CASE StepFails
  BY <1>0, <1>00, <1>10 DEF StepFails
<1>11. CASE Crash
  BY <1>0, <1>00, <1>11 DEF Crash
<1>12. CASE WriteTears
  BY <1>0, <1>00, <1>12 DEF WriteTears
<1>13. CASE RecoveryInterrupted
  BY <1>0, <1>00, <1>13 DEF RecoveryInterrupted
<1>14. ASSUME NEW p \in Path, Edit(p)
       PROVE  CallInv'
  BY <1>0, <1>00, <1>14 DEF Edit, Put
<1> QED
  BY <1>1, <1>2, <1>3, <1>4, <1>5, <1>6, <1>7, <1>8, <1>9, <1>10, <1>11, <1>12, <1>13, <1>14 DEF
     Recover, Interruption

Fits == Before \in Trees /\ After \in Trees /\ Shape(Before, After, plan.operations)

(* A node with an identity is that node: WithId only adds the inode.        *)
LEMMA NodeWithId ==
  ASSUME NEW held \in Trees, NEW p \in Path, NEW id \in Nat, NEW n, n = WithId(held[p], id)
  PROVE  /\ n = None <=> held[p] = None
         /\ Bare(n) = held[p]
         /\ n # None => /\ n.id = id /\ n.kind = held[p].kind /\ n.mode = held[p].mode
                        /\ n.data = held[p].data /\ held[p] \in Node
                        /\ n = [kind |-> n.kind, data |-> n.data, mode |-> n.mode, id |-> id]
<1>1. held[p] \in Node \cup {None}
  BY DEF Trees
<1>2. CASE held[p] = None
  BY <1>2 DEF WithId, Bare
<1>3. CASE held[p] # None
  <2> DEFINE t == held[p]
             r == [kind |-> t.kind, data |-> t.data, mode |-> t.mode, id |-> id]
  <2>1. t \in Node
    BY <1>1, <1>3
  <2>2. r \in HostNode
    BY <2>1 DEF Node, HostNode
  <2>3. r # None
    BY <2>2, ProtocolAssumption
  <2>4. t = [kind |-> t.kind, data |-> t.data, mode |-> t.mode]
    BY <2>1 DEF Node
  <2>5. r.id = id /\ r.kind = t.kind /\ r.mode = t.mode /\ r.data = t.data
    OBVIOUS
  <2>6. n = r
    BY <1>3 DEF WithId
  <2> HIDE DEF r, t
  <2>7. Bare(r) = [kind |-> t.kind, data |-> t.data, mode |-> t.mode]
    BY <2>3, <2>5 DEF Bare
  <2>8. r = [kind |-> r.kind, data |-> r.data, mode |-> r.mode, id |-> id]
    BY <2>5 DEF r
  <2> QED
    BY <1>3, <2>1, <2>3, <2>4, <2>5, <2>6, <2>7, <2>8 DEF t
<1> QED
  BY <1>2, <1>3

(* What the nodes of the plan are. *)
LEMMA PlannedNodes ==
  ASSUME Fits, NEW p \in Path
  PROVE  /\ Base(p) = None <=> Before[p] = None
         /\ Bare(Base(p)) = Before[p]
         /\ Base(p) # None => /\ Base(p).id = Original /\ Base(p).kind = Before[p].kind
                              /\ Base(p).mode = Before[p].mode /\ Base(p).data = Before[p].data
                              /\ Before[p] \in Node
         /\ New(p) = None <=> After[p] = None
         /\ Bare(New(p)) = After[p]
         /\ New(p) # None => /\ New(p).id = Made /\ New(p).kind = After[p].kind
                             /\ New(p).mode = After[p].mode /\ New(p).data = After[p].data
                             /\ After[p] \in Node
<1>1. Before \in Trees /\ After \in Trees /\ Original \in Nat /\ Made \in Nat
  BY DEF Fits, Original, Made
<1>2. PICK b \in Trees : b = Before
  BY <1>1
<1>3. PICK a \in Trees : a = After
  BY <1>1
<1>4. PICK m : m = WithId(b[p], Original)
  OBVIOUS
<1>5. PICK n : n = WithId(a[p], Made)
  OBVIOUS
<1>6. /\ m = None <=> b[p] = None
      /\ Bare(m) = b[p]
      /\ m # None => /\ m.id = Original /\ m.kind = b[p].kind /\ m.mode = b[p].mode
                     /\ m.data = b[p].data /\ b[p] \in Node
  BY <1>1, <1>4, NodeWithId
<1>7. /\ n = None <=> a[p] = None
      /\ Bare(n) = a[p]
      /\ n # None => /\ n.id = Made /\ n.kind = a[p].kind /\ n.mode = a[p].mode
                     /\ n.data = a[p].data /\ a[p] \in Node
  BY <1>1, <1>5, NodeWithId
<1>8. m = Base(p) /\ n = New(p)
  BY <1>2, <1>3, <1>4, <1>5 DEF Base, New
<1> HIDE DEF Base, New
<1> QED
  BY <1>2, <1>3, <1>6, <1>7, <1>8

(* What the operations of the plan are. *)
LEMMA PlannedOperations ==
  ASSUME Fits
  PROVE  /\ Count \in Nat /\ Count > 0
         /\ \A i \in 1..Count : /\ Operation(i).path \in Path /\ Operation(i).op \in OperationNames
                                /\ Suits(Before, After, Operation(i))
         /\ \A i, j \in 1..Count : IsQuarantine(i) /\ IsQuarantine(j) /\ i # j =>
              Within(Root(i)) \cap Within(Root(j)) = {}
         /\ \A i, j \in 1..Count : \A p : Makes(i, p) /\ Makes(j, p) => i = j
         /\ \A i, j \in 1..Count : \A p : IsQuarantine(i) /\ Makes(j, p) /\ p \in Within(Root(i)) =>
              i < j /\ ~ModeOperation(Operation(j))
         /\ \A j \in 1..Count : \A p : Makes(j, p) /\ ~ModeOperation(Operation(j)) /\ Base(p) # None =>
              \E i \in 1..Count : IsQuarantine(i) /\ p \in Within(Root(i))
<1>1. \A p \in Path : Base(p) # None => Present(Before, p)
  BY PlannedNodes DEF Present
<1> DEFINE ops == plan.operations
<1>2. ops \in Seq([op : OperationNames, path : Path]) /\ Count = Len(ops)
  BY DEF Fits, Shape, Count, OperationType
<1>3. \A i : Operation(i) = ops[i]
  BY DEF Operation
<1>4. /\ Count \in Nat /\ Count > 0
      /\ \A i \in 1..Count : /\ ops[i].path \in Path /\ ops[i].op \in OperationNames
                             /\ Suits(Before, After, ops[i])
  <2>1. Len(ops) > 0 /\ \A i \in 1..Len(ops) : Suits(Before, After, ops[i])
    BY DEF Fits, Shape
  <2> DEFINE S == [op : OperationNames, path : Path]
  <2>0. ops \in Seq(S)
    BY <1>2
  <2> HIDE DEF ops, S
  <2>3. Len(ops) \in Nat /\ \A i \in 1..Len(ops) : ops[i] \in S
    BY <2>0
  <2>2. Len(ops) \in Nat /\ \A i \in 1..Len(ops) : ops[i] \in [op : OperationNames, path : Path]
    BY <2>3 DEF S
  <2> QED
    BY <1>2, <2>1, <2>2
<1>5. /\ \A i, j \in 1..Count : ops[i].op = "Quarantine" /\ ops[j].op = "Quarantine" /\ i # j =>
           Within(ops[i].path) \cap Within(ops[j].path) = {}
      /\ \A i, j \in 1..Count : ops[i].op # "Quarantine" /\ ops[j].op # "Quarantine" /\ i # j =>
           ops[i].path # ops[j].path
      /\ \A i, j \in 1..Count :
           ops[i].op = "Quarantine" /\ ops[j].op # "Quarantine" /\ ops[j].path \in Within(ops[i].path) =>
             i < j /\ ~ModeOperation(ops[j])
      /\ \A j \in 1..Count :
           ops[j].op # "Quarantine" /\ ~ModeOperation(ops[j]) /\ Present(Before, ops[j].path) =>
             \E i \in 1..Count : ops[i].op = "Quarantine" /\ ops[j].path \in Within(ops[i].path)
  BY <1>2 DEF Fits, Shape
<1>6. \A i : IsQuarantine(i) <=> ops[i].op = "Quarantine"
  BY <1>3 DEF IsQuarantine
<1>7. \A i : Root(i) = ops[i].path
  BY <1>3 DEF Root
<1>8. \A i, p : Makes(i, p) <=> ops[i].op # "Quarantine" /\ ops[i].path = p
  BY <1>3, <1>6 DEF Makes
<1> HIDE DEF ops
<1>9. /\ Count \in Nat /\ Count > 0
      /\ \A i \in 1..Count : /\ Operation(i).path \in Path /\ Operation(i).op \in OperationNames
                             /\ Suits(Before, After, Operation(i))
  BY <1>3, <1>4
<1>10. \A i, j \in 1..Count : IsQuarantine(i) /\ IsQuarantine(j) /\ i # j =>
         Within(Root(i)) \cap Within(Root(j)) = {}
  BY <1>5, <1>6, <1>7
<1>11. \A i, j \in 1..Count : \A p : Makes(i, p) /\ Makes(j, p) => i = j
  BY <1>5, <1>8
<1>12. \A i, j \in 1..Count : \A p : IsQuarantine(i) /\ Makes(j, p) /\ p \in Within(Root(i)) =>
         i < j /\ ~ModeOperation(Operation(j))
  BY <1>3, <1>5, <1>6, <1>7, <1>8
<1>13. \A j \in 1..Count : \A p : Makes(j, p) /\ ~ModeOperation(Operation(j)) /\ Base(p) # None =>
         \E i \in 1..Count : IsQuarantine(i) /\ p \in Within(Root(i))
  <2> SUFFICES ASSUME NEW j \in 1..Count, NEW p, Makes(j, p), ~ModeOperation(Operation(j)),
                      Base(p) # None
               PROVE  \E i \in 1..Count : IsQuarantine(i) /\ p \in Within(Root(i))
    OBVIOUS
  <2>1. ops[j].op # "Quarantine" /\ ops[j].path = p /\ p \in Path
    BY <1>4, <1>8
  <2>2. Present(Before, p) /\ ~ModeOperation(ops[j])
    BY <1>1, <1>3, <2>1
  <2> QED
    BY <1>5, <1>6, <1>7, <2>1, <2>2
<1> QED
  BY <1>9, <1>10, <1>11, <1>12, <1>13

(* What lies under a quarantined root was there and is changed by the       *)
(* transaction.                                                             *)
LEMMA PlannedSubtrees ==
  ASSUME Fits, NEW i \in 1..Count, IsQuarantine(i), NEW x \in Within(Root(i)), Base(x) # None
  PROVE  x \in Changed(Before, After)
<1>1. x \in Path /\ Before[x] # None
  BY PlannedNodes DEF Within
<1>2. \A j \in 1..Len(plan.operations) : \A y \in Path :
        plan.operations[j].op = "Quarantine" /\ y \in Within(plan.operations[j].path) /\ Present(Before, y) =>
          y \in Changed(Before, After)
  BY DEF Fits, Shape
<1> QED
  BY <1>1, <1>2 DEF IsQuarantine, Root, Operation, Count, Present

(* A quarantined root is an entry of the tree before.                       *)
LEMMA RootWithin ==
  ASSUME Fits, NEW i \in 1..Count, IsQuarantine(i)
  PROVE  Root(i) \in Path /\ Root(i) \in Within(Root(i)) /\ Base(Root(i)) # None
<1>1. Root(i) \in Path /\ Suits(Before, After, Operation(i))
  BY PlannedOperations DEF Root
<1>2. Root(i) \in Seq(Name) /\ Len(Root(i)) \in Nat
  BY <1>1, PathAssumption
<1>3. IsPrefix(Root(i), Root(i))
  BY <1>2 DEF IsPrefix
<1> QED
  BY <1>1, <1>3, PlannedNodes DEF Within, Suits, IsQuarantine, Root, Present

(* Reached looks at the workspace and the quarantine only.                  *)
LEMMA ReachedSame ==
  ASSUME UNCHANGED <<plan, host, quarantine, touched>>, NEW k \in Int, Reached(k)
  PROVE  Reached(k)'
<1>1. Before' = Before /\ After' = After /\ Count' = Count /\ \A i : Operation(i)' = Operation(i)
  BY DEF Before, After, Count, Operation
<1>2. \A p : Base(p)' = Base(p) /\ New(p)' = New(p)
  BY <1>1 DEF Base, New
<1>3. \A i, p : /\ Root(i)' = Root(i) /\ IsQuarantine(i)' = IsQuarantine(i) /\ Makes(i, p)' = Makes(i, p)
                /\ Product(i)' = Product(i)
  BY <1>1, <1>2 DEF Root, IsQuarantine, Makes, Product
<1>4. \A i, p : InPlace(i)' = InPlace(i) /\ Aside(i)' = Aside(i) /\ Ground(p)' = Ground(p)
  BY <1>1, <1>2, <1>3 DEF InPlace, Aside, Ground, Away
<1> QED
  BY <1>1, <1>2, <1>3, <1>4 DEF Reached

(* A workspace that shows at most k operations shows at most m, for k <= m. *)
LEMMA ReachedMore ==
  ASSUME NEW k \in Int, NEW m \in Int, k <= m, Count \in Nat, Reached(k)
  PROVE  Reached(m)
BY DEF Reached

(* Only the quarantine above a path tells whether the path is away. *)
LEMMA AwayWith ==
  ASSUME Fits, NEW i \in 1..Count, IsQuarantine(i), NEW p \in Within(Root(i))
  PROVE  Away(p) <=> quarantine[Root(i)] # None
BY PlannedOperations DEF Away

(* Under a quarantined root the workspace is bare, or as it was while the   *)
(* subtree is in place.                                                     *)
LEMMA GroundIs ==
  ASSUME Fits, NEW k \in Int, Reached(k), NEW i \in 1..Count, IsQuarantine(i),
         NEW p \in Within(Root(i))
  PROVE  /\ InPlace(i) => Ground(p) = Base(p)
         /\ Aside(i) => Ground(p) = None
BY AwayWith, RootWithin DEF InPlace, Aside, Ground

(* Before any operation: everything the editor left alone is as it was. *)
LEMMA NothingReached ==
  ASSUME Fits, Reached(0)
  PROVE  /\ \A p \in Path : Ground(p) = Base(p)
         /\ \A p \in Path \ touched : host[p] = Base(p)
         /\ \A i \in 1..Count : IsQuarantine(i) => InPlace(i)
<1>1. Count \in Nat
  BY PlannedOperations
<1>2. \A i \in 1..Count : IsQuarantine(i) => InPlace(i)
  BY <1>1 DEF Reached
<1>3. \A p \in Path : ~Away(p)
  BY <1>2, RootWithin DEF Away, InPlace
<1> QED
  BY <1>1, <1>2, <1>3 DEF Reached, Ground

(* The plan's definitions are constant while the plan is. *)
LEMMA PlanStays ==
  ASSUME plan' = plan
  PROVE  /\ Count' = Count
         /\ \A p : Base(p)' = Base(p) /\ New(p)' = New(p)
         /\ \A i : Root(i)' = Root(i) /\ IsQuarantine(i)' = IsQuarantine(i) /\ Product(i)' = Product(i)
                   /\ Operation(i)' = Operation(i)
         /\ \A i, p : Makes(i, p)' = Makes(i, p)
<1>1. Before' = Before /\ After' = After /\ Count' = Count /\ \A i : Operation(i)' = Operation(i)
  BY DEF Before, After, Count, Operation
<1>2. \A p : Base(p)' = Base(p) /\ New(p)' = New(p)
  BY <1>1 DEF Base, New
<1> QED
  BY <1>1, <1>2 DEF Root, IsQuarantine, Makes, Product

(* The quarantine is gone, with nothing in it that was needed. *)
LEMMA ReachedFromStart ==
  ASSUME Fits, UNCHANGED <<plan, host, touched>>, \A p \in Path \ touched : host[p] = Base(p),
         \A p \in Path : quarantine'[p] = None
  PROVE  Reached(0)'
<1>1. \A i \in 1..Count : IsQuarantine(i) => InPlace(i)'
  BY PlanStays DEF InPlace, Within
<1>2. \A p \in Path : ~Away(p)'
  BY RootWithin, PlanStays DEF Away
<1>3. \A p \in Path \ touched : host'[p] = Ground(p)'
  BY <1>2, PlanStays DEF Ground
<1> QED
  BY <1>1, <1>3, PlanStays DEF Reached

(* A subtree is renamed into the quarantine. *)
LEMMA QuarantineReaches ==
  ASSUME Fits, NEW k \in 1..Count, Reached(k - 1), IsQuarantine(k), DOMAIN host = Path,
         host[Root(k)] = Base(Root(k)), UNCHANGED <<plan, touched>>,
         quarantine' = Moved(host, quarantine, Root(k)), host' = Without(host, Root(k))
  PROVE  Reached(k)'
<1> DEFINE r == Root(k)
<1>1. Count \in Nat /\ k \in Nat
  BY PlannedOperations
<1>2. InPlace(k)
  BY <1>1 DEF Reached
<1>3. \A x \in Within(r) \ touched : host[x] = Base(x)
  <2> SUFFICES ASSUME NEW x \in Within(r) \ touched PROVE host[x] = Base(x)
    OBVIOUS
  <2>1. Ground(x) = Base(x) /\ x \in Path
    BY <1>1, <1>2, GroundIs DEF Within
  <2>2. \A i \in 1..Count : Makes(i, x) => ~(i <= k - 1)
    BY <1>1, PlannedOperations
  <2> QED
    BY <2>1, <2>2 DEF Reached
<1>4. /\ \A x \in Path : x \in Within(r) => host'[x] = None /\ quarantine'[x] = host[x]
      /\ \A x \in Path : x \notin Within(r) => host'[x] = host[x] /\ quarantine'[x] = quarantine[x]
  BY DEF Moved, Without
<1>5. r \in Path /\ r \in Within(r) /\ Base(r) # None
  BY RootWithin
<1>6. Aside(k)'
  BY <1>3, <1>4, <1>5, PlanStays DEF Aside, Within
<1>7. \A i \in 1..Count : IsQuarantine(i) /\ i # k =>
        /\ quarantine'[Root(i)] = quarantine[Root(i)]
        /\ InPlace(i) => InPlace(i)'
        /\ Aside(i) => Aside(i)'
  <2> SUFFICES ASSUME NEW i \in 1..Count, IsQuarantine(i), i # k
               PROVE  /\ quarantine'[Root(i)] = quarantine[Root(i)]
                      /\ InPlace(i) => InPlace(i)'
                      /\ Aside(i) => Aside(i)'
    OBVIOUS
  <2>1. Within(Root(i)) \cap Within(r) = {} /\ Root(i) \in Within(Root(i)) /\ Root(i) \in Path
    BY PlannedOperations, RootWithin
  <2>2. \A x \in Within(Root(i)) : x \in Path /\ x \notin Within(r)
    BY <2>1 DEF Within
  <2> HIDE DEF r
  <2>3. \A x \in Within(Root(i)) : quarantine'[x] = quarantine[x]
    BY <1>4, <2>2
  <2> QED
    BY <2>1, <2>3, PlanStays DEF InPlace, Aside
<1>8. \A i \in 1..Count : IsQuarantine(i) => InPlace(i)' \/ (i <= k /\ Aside(i)')
  BY <1>1, <1>6, <1>7 DEF Reached
<1>9. \A p \in Path : p \notin Within(r) => Ground(p)' = Ground(p)
  <2> SUFFICES ASSUME NEW p \in Path, p \notin Within(r) PROVE Ground(p)' = Ground(p)
    OBVIOUS
  <2> HIDE DEF r
  <2>1. \A i \in 1..Count : IsQuarantine(i) /\ p \in Within(Root(i)) =>
          quarantine'[Root(i)] = quarantine[Root(i)]
    BY <1>7 DEF r
  <2>2. Away(p)' <=> Away(p)
    BY <2>1, PlanStays DEF Away
  <2> QED
    BY <2>2, PlanStays DEF Ground
<1>10. \A p \in Path : p \in Within(r) => Ground(p)' = None
  <2>1. quarantine'[r] # None
    BY <1>4, <1>5
  <2> QED
    BY <2>1, PlanStays DEF Ground, Away
<1>11. \A p \in Path \ touched' :
       host'[p] = Ground(p)' \/ \E i \in 1..Count :
         /\ i <= k /\ Makes(i, p)' /\ host'[p] = Product(i)'
         /\ ModeOperation(Operation(i)') \/ Ground(p)' = None
  <2> SUFFICES ASSUME NEW p \in Path \ touched
               PROVE  host'[p] = Ground(p)' \/ \E i \in 1..Count :
                        /\ i <= k /\ Makes(i, p)' /\ host'[p] = Product(i)'
                        /\ ModeOperation(Operation(i)') \/ Ground(p)' = None
    OBVIOUS
  <2>1. CASE p \in Within(r)
    BY <1>4, <1>10, <2>1
  <2>2. CASE p \notin Within(r)
    <3>1. host'[p] = host[p] /\ Ground(p)' = Ground(p)
      BY <1>4, <1>9, <2>2
    <3> HIDE DEF r
    <3>2. host[p] = Ground(p) \/ \E i \in 1..Count :
            /\ i <= k - 1 /\ Makes(i, p) /\ host[p] = Product(i)
            /\ ModeOperation(Operation(i)) \/ Ground(p) = None
      BY DEF Reached
    <3> QED
      BY <1>1, <3>1, <3>2, PlanStays
  <2> QED
    BY <2>1, <2>2
<1> QED
  BY <1>8, <1>11, PlanStays DEF Reached

(* While only the workspace changes at paths that no claim is made of, or   *)
(* at the path of an operation.                                             *)
LEMMA GroundSame ==
  ASSUME UNCHANGED <<plan, quarantine, touched>>
  PROVE  /\ \A p : Ground(p)' = Ground(p)
         /\ \A i : InPlace(i)' = InPlace(i) /\ Aside(i)' = Aside(i)
<1>1. \A p : Away(p)' = Away(p)
  BY PlanStays DEF Away
<1> QED
  BY <1>1, PlanStays DEF Ground, InPlace, Aside

(* Operation k, which makes or changes one node, moves the workspace from   *)
(* the first k - 1 operations to the first k.                               *)
LEMMA MakeReaches ==
  ASSUME Fits, NEW k \in 1..Count, Reached(k - 1), NEW p \in Path, Makes(k, p),
         UNCHANGED <<plan, quarantine, touched>>,
         \A x \in Path : x # p => host'[x] = host[x],
         p \notin touched => /\ host'[p] = Product(k)
                             /\ ModeOperation(Operation(k)) \/ Ground(p) = None
  PROVE  Reached(k)'
<1>1. Count \in Nat /\ k \in Nat
  BY PlannedOperations
<1>2. \A i \in 1..Count : IsQuarantine(i) => InPlace(i)' \/ (i <= k /\ Aside(i)')
  BY <1>1, GroundSame DEF Reached
<1>3. ASSUME NEW x \in Path \ touched
      PROVE  host'[x] = Ground(x)' \/ \E i \in 1..Count :
               /\ i <= k /\ Makes(i, x)' /\ host'[x] = Product(i)'
               /\ ModeOperation(Operation(i)') \/ Ground(x)' = None
  <2>1. CASE x = p
    BY <1>1, <2>1, PlanStays, GroundSame
  <2>2. CASE x # p
    <3>1. host'[x] = host[x]
      BY <2>2
    <3>2. host[x] = Ground(x) \/ \E i \in 1..Count :
            /\ i <= k - 1 /\ Makes(i, x) /\ host[x] = Product(i)
            /\ ModeOperation(Operation(i)) \/ Ground(x) = None
      BY DEF Reached
    <3> QED
      BY <1>1, <3>1, <3>2, PlanStays, GroundSame
  <2> QED
    BY <2>1, <2>2
<1> QED
  BY <1>2, <1>3, PlanStays DEF Reached

(* Without operation c: what is left after rollback has looked at it.       *)
Less(j, c) == IF j = c THEN c - 1 ELSE j

(* It had no effect. *)
LEMMA NotTaken ==
  ASSUME Fits, NEW j \in Int, NEW c \in 1..Count, Reached(j),
         UNCHANGED <<plan, host, quarantine, touched>>,
         IsQuarantine(c) => InPlace(c),
         ~IsQuarantine(c) /\ Root(c) \notin touched => host[Root(c)] = Ground(Root(c))
  PROVE  Reached(Less(j, c))'
<1>1. Count \in Nat /\ c \in Nat
  BY PlannedOperations
<1>2. \A i \in 1..Count : IsQuarantine(i) => InPlace(i) \/ (i <= Less(j, c) /\ Aside(i))
  BY <1>1 DEF Reached, Less
<1>3. ASSUME NEW p \in Path \ touched
      PROVE  host[p] = Ground(p) \/ \E i \in 1..Count :
               /\ i <= Less(j, c) /\ Makes(i, p) /\ host[p] = Product(i)
               /\ ModeOperation(Operation(i)) \/ Ground(p) = None
  <2>1. SUFFICES ASSUME host[p] # Ground(p)
                 PROVE  \E i \in 1..Count :
                          /\ i <= Less(j, c) /\ Makes(i, p) /\ host[p] = Product(i)
                          /\ ModeOperation(Operation(i)) \/ Ground(p) = None
    OBVIOUS
  <2>2. PICK i \in 1..Count : /\ i <= j /\ Makes(i, p) /\ host[p] = Product(i)
                              /\ ModeOperation(Operation(i)) \/ Ground(p) = None
    BY <2>1 DEF Reached
  <2>3. i # c
    BY <2>1, <2>2 DEF Makes, Root
  <2> QED
    BY <1>1, <2>2, <2>3 DEF Less
<1>4. Reached(Less(j, c))
  BY <1>2, <1>3 DEF Reached
<1>5. Less(j, c) \in Int
  BY <1>1 DEF Less
<1> HIDE DEF Less
<1> DEFINE m == Less(j, c)
<1>6. m \in Int /\ Reached(m)
  BY <1>4, <1>5
<1> HIDE DEF m
<1>7. Reached(m)'
  BY <1>6, ReachedSame
<1> QED
  BY <1>7 DEF m, Less

(* The node it made, or the mode it set, is taken back. *)
LEMMA MakeUndone ==
  ASSUME Fits, NEW j \in Int, NEW c \in 1..Count, Reached(j), NEW p \in Path, Makes(c, p),
         UNCHANGED <<plan, quarantine, touched>>,
         \A x \in Path : x # p => host'[x] = host[x],
         p \notin touched => host'[p] = Ground(p)
  PROVE  Reached(Less(j, c))'
<1>1. Count \in Nat /\ c \in Nat
  BY PlannedOperations
<1>2. \A i \in 1..Count : IsQuarantine(i) => InPlace(i)' \/ (i <= Less(j, c) /\ Aside(i)')
  BY <1>1, GroundSame DEF Reached, Less, Makes
<1>3. ASSUME NEW x \in Path \ touched
      PROVE  host'[x] = Ground(x)' \/ \E i \in 1..Count :
               /\ i <= Less(j, c) /\ Makes(i, x)' /\ host'[x] = Product(i)'
               /\ ModeOperation(Operation(i)') \/ Ground(x)' = None
  <2>1. CASE x = p
    BY <2>1, GroundSame
  <2>2. CASE x # p
    <3>1. host'[x] = host[x]
      BY <2>2
    <3>2. host[x] = Ground(x) \/ \E i \in 1..Count :
            /\ i <= j /\ Makes(i, x) /\ host[x] = Product(i)
            /\ ModeOperation(Operation(i)) \/ Ground(x) = None
      BY DEF Reached
    <3>3. \A i \in 1..Count : i <= j /\ Makes(i, x) => i <= Less(j, c)
      BY <1>1, <2>2 DEF Less, Makes
    <3> QED
      BY <3>1, <3>2, <3>3, PlanStays, GroundSame
  <2> QED
    BY <2>1, <2>2
<1>4. Reached(Less(j, c))'
  BY <1>2, <1>3, PlanStays DEF Reached, Less
<1> QED
  BY <1>4

(* The subtree is renamed back. *)
LEMMA QuarantineUndone ==
  ASSUME Fits, NEW j \in Int, NEW c \in 1..Count, Reached(j), IsQuarantine(c),
         UNCHANGED <<plan, touched>>,
         quarantine[Root(c)] = Base(Root(c)),
         host' = Moved(quarantine, host, Root(c)), quarantine' = Without(quarantine, Root(c))
  PROVE  Reached(Less(j, c))'
<1> DEFINE r == Root(c)
<1>1. Count \in Nat /\ c \in Nat
  BY PlannedOperations
<1>2. r \in Path /\ r \in Within(r) /\ Base(r) # None
  BY RootWithin
<1>3. Aside(c)
  BY <1>2 DEF Reached, InPlace
<1>4. /\ \A x \in Path : x \in Within(r) => host'[x] = quarantine[x] /\ quarantine'[x] = None
      /\ \A x \in Path : x \notin Within(r) => host'[x] = host[x] /\ quarantine'[x] = quarantine[x]
  BY DEF Moved, Without
<1>5. InPlace(c)'
  BY <1>4, PlanStays DEF InPlace, Within
<1>6. \A i \in 1..Count : IsQuarantine(i) /\ i # c =>
        /\ quarantine'[Root(i)] = quarantine[Root(i)]
        /\ InPlace(i) => InPlace(i)'
        /\ Aside(i) => Aside(i)'
  <2> SUFFICES ASSUME NEW i \in 1..Count, IsQuarantine(i), i # c
               PROVE  /\ quarantine'[Root(i)] = quarantine[Root(i)]
                      /\ InPlace(i) => InPlace(i)'
                      /\ Aside(i) => Aside(i)'
    OBVIOUS
  <2>1. Within(Root(i)) \cap Within(r) = {} /\ Root(i) \in Within(Root(i)) /\ Root(i) \in Path
    BY PlannedOperations, RootWithin
  <2>2. \A x \in Within(Root(i)) : x \in Path /\ x \notin Within(r)
    BY <2>1 DEF Within
  <2> HIDE DEF r
  <2>3. \A x \in Within(Root(i)) : quarantine'[x] = quarantine[x]
    BY <1>4, <2>2
  <2> QED
    BY <2>1, <2>3, PlanStays DEF InPlace, Aside
<1>7. \A i \in 1..Count : IsQuarantine(i) => InPlace(i)' \/ (i <= Less(j, c) /\ Aside(i)')
  BY <1>1, <1>5, <1>6 DEF Reached, Less
<1>8. \A p \in Path : p \notin Within(r) => Ground(p)' = Ground(p)
  <2> SUFFICES ASSUME NEW p \in Path, p \notin Within(r) PROVE Ground(p)' = Ground(p)
    OBVIOUS
  <2> HIDE DEF r
  <2>1. \A i \in 1..Count : IsQuarantine(i) /\ p \in Within(Root(i)) =>
          quarantine'[Root(i)] = quarantine[Root(i)]
    BY <1>6 DEF r
  <2>2. Away(p)' <=> Away(p)
    BY <2>1, PlanStays DEF Away
  <2> QED
    BY <2>2, PlanStays DEF Ground
<1>9. \A p \in Path : p \in Within(r) => Ground(p)' = Base(p)
  <2> SUFFICES ASSUME NEW p \in Path, p \in Within(r) PROVE Ground(p)' = Base(p)
    OBVIOUS
  <2>1. \A i \in 1..Count : IsQuarantine(i) /\ p \in Within(Root(i)) => i = c
    BY PlannedOperations
  <2>2. quarantine'[r] = None
    BY <1>2, <1>4
  <2>3. ~Away(p)'
    BY <2>1, <2>2, PlanStays DEF Away
  <2> QED
    BY <2>3, PlanStays DEF Ground
<1>10. ASSUME NEW p \in Path \ touched
       PROVE  host'[p] = Ground(p)' \/ \E i \in 1..Count :
                /\ i <= Less(j, c) /\ Makes(i, p)' /\ host'[p] = Product(i)'
                /\ ModeOperation(Operation(i)') \/ Ground(p)' = None
  <2>1. CASE p \in Within(r)
    BY <1>3, <1>4, <1>9, <2>1 DEF Aside
  <2>2. CASE p \notin Within(r)
    <3>1. host'[p] = host[p] /\ Ground(p)' = Ground(p)
      BY <1>4, <1>8, <2>2
    <3> HIDE DEF r
    <3>2. host[p] = Ground(p) \/ \E i \in 1..Count :
            /\ i <= j /\ Makes(i, p) /\ host[p] = Product(i)
            /\ ModeOperation(Operation(i)) \/ Ground(p) = None
      BY DEF Reached
    <3>3. \A i \in 1..Count : i <= j /\ Makes(i, p) => i <= Less(j, c)
      BY <1>1 DEF Less, Makes
    <3> QED
      BY <3>1, <3>2, <3>3, PlanStays
  <2> QED
    BY <2>1, <2>2
<1> QED
  BY <1>7, <1>10, PlanStays DEF Reached, Less

(* A mode operation changes the mode and nothing else, and no quarantine is above it. *)
LEMMA ModeProduct ==
  ASSUME Fits, NEW c \in 1..Count, ModeOperation(Operation(c)), NEW p, p = Root(c)
  PROVE  /\ p \in Path /\ Makes(c, p) /\ Ground(p) = Base(p)
         /\ Base(p) # None /\ Base(p).mode = Before[p].mode
         /\ Product(c) # None /\ Product(c).mode = After[p].mode /\ Before[p].mode # After[p].mode
         /\ [Base(p) EXCEPT !.mode = Before[p].mode] = Base(p)
         /\ [Product(c) EXCEPT !.mode = Before[p].mode] = Base(p)
<1>1. p \in Path /\ Suits(Before, After, Operation(c)) /\ Makes(c, p)
  BY PlannedOperations DEF Root, Makes, IsQuarantine, ModeOperation
<1>2. \A i \in 1..Count : IsQuarantine(i) => p \notin Within(Root(i))
  BY <1>1, PlannedOperations
<1>3. ~Away(p)
  BY <1>2 DEF Away
<1>4. Before[p] # None /\ Before[p].mode # After[p].mode
  BY <1>1 DEF Suits, Root, Present
<1> DEFINE n == Base(p)
<1>5. Before \in Trees /\ Original \in Nat /\ n = WithId(Before[p], Original)
  BY DEF Fits, Original, Base
<1>6. /\ n # None /\ n.mode = Before[p].mode
      /\ n = [kind |-> n.kind, data |-> n.data, mode |-> n.mode, id |-> Original]
  <2> HIDE DEF n
  <2> QED
    BY <1>1, <1>4, <1>5, NodeWithId
<1>7. Product(c) = [n EXCEPT !.mode = After[p].mode]
  BY DEF Product, Root
<1>8. /\ Before[p] \in Node /\ After[p] \in Node
  BY <1>1, <1>4 DEF Fits, Trees, Suits, Present, Root
<1>9. n \in HostNode /\ After[p].mode \in Modes
  <2>1. n = [kind |-> Before[p].kind, data |-> Before[p].data, mode |-> Before[p].mode, id |-> Original]
    BY <1>4 DEF Base, WithId
  <2> QED
    BY <1>8, <2>1 DEF Node, HostNode, Original
<1> HIDE DEF n
<1>10. [n EXCEPT !.mode = After[p].mode] \in HostNode
  BY <1>9 DEF HostNode
<1>11. Product(c) # None
  BY <1>7, <1>10, ProtocolAssumption
<1>12. Product(c) = [kind |-> n.kind, data |-> n.data, mode |-> After[p].mode, id |-> Original]
  BY <1>6, <1>7
<1>13. [Product(c) EXCEPT !.mode = Before[p].mode]
          = [kind |-> n.kind, data |-> n.data, mode |-> Before[p].mode, id |-> Original]
  BY <1>12
<1>14. [n EXCEPT !.mode = Before[p].mode]
          = [kind |-> n.kind, data |-> n.data, mode |-> Before[p].mode, id |-> Original]
  BY <1>6
<1>15. Product(c).mode = After[p].mode
  BY <1>12
<1> QED
  BY <1>1, <1>3, <1>4, <1>6, <1>11, <1>13, <1>14, <1>15 DEF Ground, n

(* Any other makes a node of its own. *)
LEMMA MadeProduct ==
  ASSUME Fits, NEW c \in 1..Count, ~IsQuarantine(c), ~ModeOperation(Operation(c)), NEW p,
         p = Root(c)
  PROVE  /\ p \in Path /\ Makes(c, p) /\ Product(c) = New(p) /\ New(p) # None /\ New(p).id = Made
         /\ New(p).kind = After[p].kind
<1>1. p \in Path /\ Suits(Before, After, Operation(c)) /\ Operation(c).op \in OperationNames
  BY PlannedOperations DEF Root
<1>2. After[p] # None
  BY <1>1 DEF Suits, Root, IsQuarantine, ModeOperation, OperationNames, IsDir, IsKind
<1> QED
  BY <1>1, <1>2, PlannedNodes DEF Makes, Root, Product

(* The node at the path of operation c, if the editor left it alone. *)
LEMMA NodeOf ==
  ASSUME Fits, NEW c \in 1..Count, ~IsQuarantine(c), NEW p, p = Root(c), p \notin touched,
         NEW j \in Int, Reached(j)
  PROVE  \/ host[p] = Ground(p)
         \/ host[p] = Product(c) /\ (ModeOperation(Operation(c)) \/ Ground(p) = None)
<1>1. p \in Path /\ Makes(c, p)
  BY PlannedOperations DEF Root, Makes
<1>2. \A i \in 1..Count : Makes(i, p) => i = c
  BY <1>1, PlannedOperations
<1> QED
  BY <1>1, <1>2 DEF Reached

(* Where rollback concludes that a quarantine did not happen, the subtree   *)
(* is in place.                                                             *)
LEMMA TookNoQuarantine ==
  ASSUME Fits, NEW c \in 1..Count, IsQuarantine(c), NEW j \in Int, Reached(j), NEW record,
         Took(Operation(c), record) = "no"
  PROVE  InPlace(c)
<1>1. /\ Root(c) \in Path /\ Base(Root(c)) # None
      /\ Operation(c).op = "Quarantine" /\ Operation(c).path = Root(c)
  BY RootWithin DEF IsQuarantine, Root
<1>2. quarantine[Root(c)] # Base(Root(c))
  BY <1>1 DEF Took, ModeOperation
<1> QED
  BY <1>2 DEF Reached, Aside

(* Where rollback concludes that an operation did not happen, the path      *)
(* holds what it held before it (infer_applied against the staged node and  *)
(* the record).                                                             *)
LEMMA TookNoMake ==
  ASSUME Fits, NEW c \in 1..Count, ~IsQuarantine(c), NEW p, p = Root(c), p \notin touched,
         NEW j \in Int, Reached(j), NEW record, Took(Operation(c), record) = "no"
  PROVE  host[p] = Ground(p)
<1>1. Operation(c).path = p /\ Operation(c).op \in OperationNames \ {"Quarantine"}
  BY PlannedOperations DEF Root, IsQuarantine
<1>2. CASE ModeOperation(Operation(c))
  <2>1. SUFFICES ASSUME host[p] = Product(c) PROVE FALSE
    BY NodeOf
  <2>2. host[p].mode = After[p].mode /\ Before[p].mode # After[p].mode
    BY <1>2, <2>1, ModeProduct
  <2> DEFINE answer == IF ~ModeOwned(Operation(c), record) THEN "conflict"
                       ELSE CASE host[p].mode = After[p].mode  -> "yes"
                              [] host[p].mode = Before[p].mode -> "no"
                              [] OTHER                         -> "conflict"
  <2>3. Took(Operation(c), record) = answer
    <3>1. Operation(c).op \in {"SetFileMode", "SetDirectoryMode"}
      BY <1>2 DEF ModeOperation
    <3> HIDE DEF answer
    <3> QED
      BY <1>1, <1>2, <3>1 DEF Took, answer
  <2>4. answer # "no"
    BY <2>2
  <2> QED
    BY <2>3, <2>4
<1>3. CASE ~ModeOperation(Operation(c))
  <2>1. host[p] = None
    BY <1>1, <1>3 DEF Took, ModeOperation, OperationNames
  <2> QED
    BY <1>3, <2>1, MadeProduct, NodeOf
<1> QED
  BY <1>2, <1>3

(* Where rollback takes a node for the one the transaction made and removes *)
(* it, the path was empty before.                                           *)
LEMMA OursIsMade ==
  ASSUME Fits, NEW c \in 1..Count, ~IsQuarantine(c), ~ModeOperation(Operation(c)), NEW p,
         p = Root(c),
         p \notin touched, NEW j \in Int, Reached(j), MadeRecord(c), stage[p] \in {None, New(p)},
         Ours(Operation(c), journal[c])
  PROVE  Ground(p) = None
<1>1. Operation(c).path = p /\ Operation(c).op \in {"CreateDirectory", "InstallFile", "InstallSymlink"}
  BY PlannedOperations DEF Root, IsQuarantine, ModeOperation, OperationNames
<1>2. SUFFICES ASSUME host[p] = Base(p), Base(p) # None
               PROVE  FALSE
  BY NodeOf DEF Ground
<1>3. p \in Path /\ New(p).id = Made /\ Suits(Before, After, Operation(c))
  BY MadeProduct, PlannedOperations
<1>4. Base(p).id = Original /\ Base(p).kind = Before[p].kind /\ Before[p] # None
  BY <1>2, <1>3, PlannedNodes
<1>5. Original # Made /\ None # Made
  BY ProtocolAssumption DEF Original, Made
<1>6. CASE Operation(c).op = "CreateDirectory"
  <2>1. host[p].kind = "dir"
    BY <1>1, <1>6 DEF Ours, MadeHere, IsDir, IsKind
  <2>2. ~IsDir(Before, p)
    BY <1>1, <1>3, <1>6 DEF Suits
  <2> QED
    BY <1>2, <1>4, <2>1, <2>2 DEF IsDir, IsKind
<1>7. CASE Operation(c).op = "InstallFile"
  <2>1. IF journal[c].done # None THEN HasId(host[p], journal[c].done) ELSE SameFile(p)
    BY <1>1, <1>7 DEF Ours
  <2>2. journal[c].done \in {None, Made}
    BY <1>7 DEF MadeRecord, IsQuarantine, ModeOperation
  <2>3. host[p].id = Made
    BY <1>3, <2>1, <2>2 DEF HasId, SameFile
  <2> QED
    BY <1>2, <1>4, <1>5, <2>3
<1>8. CASE Operation(c).op = "InstallSymlink"
  <2>1. HasId(host[p], IF journal[c].done # None THEN journal[c].done ELSE journal[c].source)
    BY <1>1, <1>8 DEF Ours
  <2>2. journal[c].done \in {None, Made} /\ journal[c].source = Made
    BY <1>8 DEF MadeRecord, IsQuarantine, ModeOperation
  <2>3. host[p].id = Made
    BY <2>1, <2>2 DEF HasId
  <2> QED
    BY <1>2, <1>4, <1>5, <2>3
<1> QED
  BY <1>1, <1>6, <1>7, <1>8

(* One step of rollback undoes operation cursor or finds nothing to undo:   *)
(* the workspace shows at most the operations below the cursor, whether or  *)
(* not the undo has moved it.                                               *)
LEMMA RollbackReaches ==
  ASSUME Fits, DOMAIN host = Path, NEW c \in 1..Count, cursor = c, NEW j \in Int, Reached(j),
         MadeRecord(c), \A p \in Path : stage[p] \in {None, New(p)}, Rollback
  PROVE  \/ cursor' = c /\ Reached(j)'
         \/ cursor' = c - 1 /\ Reached(Less(j, c))'
<1> DEFINE o == Operation(c)
           record == journal[c]
           p == Root(c)
           took == IF ParentHeld(o.path, record.parent) THEN Took(o, record) ELSE "conflict"
<1>1. /\ UNCHANGED <<plan, stage, touched>>
      /\ \/ took = "no" /\ cursor' = c - 1 /\ UNCHANGED <<host, quarantine>>
         \/ took = "yes" /\ Ours(o, record) /\ Undo(o) /\ cursor' = c - 1
         \/ cursor' = c /\ UNCHANGED <<host, quarantine>>
  BY DEF Rollback, editor
<1>2. p \in Path /\ o.path = p /\ o.op \in OperationNames
  BY PlannedOperations DEF Root
<1>3. CASE took = "no" /\ cursor' = c - 1 /\ UNCHANGED <<host, quarantine>>
  <2>1. Took(o, record) = "no"
    BY <1>3
  <2> HIDE DEF record
  <2>2. IsQuarantine(c) => InPlace(c)
    BY <2>1, TookNoQuarantine
  <2>3. ~IsQuarantine(c) /\ p \notin touched => host[p] = Ground(p)
    BY <2>1, TookNoMake
  <2>4. UNCHANGED <<plan, host, quarantine, touched>>
    BY <1>1, <1>3
  <2>5. Reached(Less(j, c))'
    BY <2>2, <2>3, <2>4, NotTaken
  <2> QED
    BY <1>3, <2>5
<1>4. CASE cursor' = c /\ UNCHANGED <<host, quarantine>>
  BY <1>1, <1>4, ReachedSame
<1>5. CASE Ours(o, record) /\ Undo(o) /\ cursor' = c - 1
  <2>1. CASE IsQuarantine(c)
    <3>0. o.op = "Quarantine" /\ ~ModeOperation(o)
      BY <2>1 DEF IsQuarantine, ModeOperation
    <3> HIDE DEF o, record, p
    <3>1. quarantine[p] = Base(p)
      BY <1>2, <1>5, <3>0 DEF Ours
    <3>2. host' = Moved(quarantine, host, p) /\ quarantine' = Without(quarantine, p)
      BY <1>2, <1>5, <3>0 DEF Undo
    <3> USE DEF p
    <3>3. Reached(Less(j, c))'
      BY <1>1, <2>1, <3>1, <3>2, QuarantineUndone
    <3> QED
      BY <1>5, <3>3
  <2>2. CASE ModeOperation(o)
    <3>0. ~IsQuarantine(c) /\ o.op # "Quarantine"
      BY <2>2 DEF IsQuarantine, ModeOperation
    <3>00. host' = [host EXCEPT ![p].mode = Before[p].mode] /\ quarantine' = quarantine
      <4> HIDE DEF o, p
      <4> QED
        BY <1>2, <1>5, <2>2, <3>0 DEF Undo
    <3>1. host' = [host EXCEPT ![p].mode = Before[p].mode] /\ quarantine' = quarantine /\ ~IsQuarantine(c)
      BY <3>0, <3>00
    <3>2. host'[p] = [host[p] EXCEPT !.mode = Before[p].mode] /\ \A x \in Path : x # p => host'[x] = host[x]
      BY <1>2, <3>1
    <3>3. p \notin touched => host[p] \in {Base(p), Product(c)}
      BY <2>2, <3>1, NodeOf, ModeProduct
    <3>4. p \notin touched => host'[p] = Ground(p)
      BY <2>2, <3>2, <3>3, ModeProduct
    <3>5. Makes(c, p)
      BY <2>2, ModeProduct
    <3> QED
      BY <1>1, <1>2, <1>5, <3>1, <3>2, <3>4, <3>5, MakeUndone
  <2>3. CASE ~IsQuarantine(c) /\ ~ModeOperation(o)
    <3>0. o.op # "Quarantine"
      BY <2>3 DEF IsQuarantine
    <3>1. host' = [host EXCEPT ![p] = None] /\ quarantine' = quarantine
      <4> HIDE DEF o, p
      <4> QED
        BY <1>2, <1>5, <2>3, <3>0 DEF Undo
    <3>2. host'[p] = None /\ \A x \in Path : x # p => host'[x] = host[x]
      BY <1>2, <3>1
    <3>3. p \notin touched => Ground(p) = None
      BY <1>2, <1>5, <2>3, OursIsMade
    <3>4. Makes(c, p)
      BY <2>3, MadeProduct
    <3> QED
      BY <1>1, <1>2, <1>5, <3>1, <3>2, <3>3, <3>4, MakeUndone
  <2> QED
    BY <2>1, <2>2, <2>3
<1> QED
  BY <1>1, <1>3, <1>4, <1>5

Ready ==
  /\ Fits /\ Domains /\ Recorded
  /\ trouble \in [regions : SUBSET Regions, interrupts : Int, edits : Int]

(* The plan file is written once; no step changes the plan.                 *)
LEMMA PlanNeverChanges == ASSUME Next PROVE plan' = plan
<1> USE DEF disk, commit, recovery, editor, Write
<1>1. CASE Committer
  BY <1>1 DEF Committer, RefusePlan, Begin, CreateWorkspace, WritePlan, CreateJournal,
     StageContent, Revalidate, EnterCommitting, Intent, Check, Mutate, Verify, Done, ClearMarkers,
     VerifyFinal, WriteMarker, Finish, Resolve, Cleanup, RemoveEntry, CleanedUp
<1>2. CASE Recover
  BY <1>2 DEF Recover, StartRecovery, ReadWorkspace, Finalize, ReadStore, Rollback, Settle,
     CleanRecovered, RemoveEntry, EndClean
<1>3. CASE Interruption
  BY <1>3 DEF Interruption, CreateWorkspaceFails, StepFails, Crash, WriteTears, RecoveryInterrupted
<1>4. CASE \E p \in Path : Edit(p)
  BY <1>4 DEF Edit
<1> QED
  BY <1>1, <1>2, <1>3, <1>4 DEF Next

(* The steps that leave the workspace, the stage, the quarantine and the journal as they are. *)
Still == UNCHANGED <<plan, host, stage, quarantine, journal, touched>>

Calm ==
  \/ RefusePlan \/ Begin \/ CreateWorkspace \/ WritePlan \/ CreateJournal
  \/ Revalidate \/ EnterCommitting \/ Check \/ Verify
  \/ ClearMarkers \/ VerifyFinal \/ WriteMarker \/ Finish \/ Resolve \/ CleanedUp
  \/ StartRecovery \/ ReadWorkspace \/ Finalize \/ ReadStore \/ Settle \/ EndClean
  \/ Interruption

(* A calm step leaves the workspace, the stage, the quarantine and the      *)
(* journal alone.                                                           *)
LEMMA CalmIsStill ==
  ASSUME Calm, trouble \in [regions : SUBSET Regions, interrupts : Int, edits : Int]
  PROVE  Still /\ trouble' \in [regions : SUBSET Regions, interrupts : Int, edits : Int]
         /\ trouble'.edits = trouble.edits
<1> USE DEF disk, commit, recovery, editor, Write, Still
<1>1. Still
  BY DEF Calm, RefusePlan, Begin, CreateWorkspace, WritePlan, CreateJournal, Revalidate,
     EnterCommitting, Check, Verify, ClearMarkers, VerifyFinal, WriteMarker, Finish, Resolve,
     CleanedUp, StartRecovery, ReadWorkspace, Finalize, ReadStore, Settle,
     EndClean, Interruption, CreateWorkspaceFails, StepFails, Crash, WriteTears, RecoveryInterrupted
<1>2. trouble' = trouble \/ \E region : Interrupted(region)
  BY DEF Calm, RefusePlan, Begin, CreateWorkspace, WritePlan, CreateJournal, Revalidate,
     EnterCommitting, Check, Verify, ClearMarkers, VerifyFinal, WriteMarker, Finish, Resolve,
     CleanedUp, StartRecovery, ReadWorkspace, Finalize, ReadStore, Settle,
     EndClean, Interruption, CreateWorkspaceFails, StepFails, Crash, WriteTears, RecoveryInterrupted
<1> QED
  BY <1>1, <1>2 DEF Interrupted

(* A step is calm, or one of the seven that move something, or an edit.     *)
LEMMA StepKinds ==
  ASSUME Next
  PROVE  \/ Calm
         \/ StageContent \/ Intent \/ Mutate \/ Done \/ Cleanup \/ Rollback \/ CleanRecovered
         \/ \E p \in Path : Edit(p)
BY DEF Next, Committer, Recover, Calm

(* An intent is appended to the journal; the records before it stay.        *)
LEMMA JournalGrows ==
  ASSUME Recorded, NEW s, NEW q,
         journal' = Append(journal, [source |-> s, parent |-> q, done |-> None])
  PROVE  /\ Recorded' /\ Len(journal) \in Nat /\ Len(journal') = Len(journal) + 1
         /\ \A i \in 1..Len(journal) : journal'[i] = journal[i]
         /\ journal'[Len(journal')] = [source |-> s, parent |-> q, done |-> None]
<1> DEFINE r == [source |-> s, parent |-> q, done |-> None]
<1>1. PICK T : journal \in Seq([source : T, parent : T, done : T])
  BY DEF Recorded
<1> DEFINE U == T \cup {s, q, None}
           R == [source : T, parent : T, done : T]
           S == [source : U, parent : U, done : U]
<1>2. r \in S /\ R \subseteq S
  OBVIOUS
<1>3. journal \in Seq(R) /\ journal' = Append(journal, r)
  BY <1>1
<1> HIDE DEF r, R, S
<1>4. journal \in Seq(S)
  BY <1>2, <1>3
<1>5. journal' \in Seq(S)
  BY <1>2, <1>3, <1>4
<1>6. Recorded'
  BY <1>5 DEF Recorded, S
<1>7. /\ Len(journal) \in Nat /\ Len(journal') = Len(journal) + 1
      /\ \A i \in 1..Len(journal) : journal'[i] = journal[i]
      /\ journal'[Len(journal')] = r
  BY <1>3
<1> QED
  BY <1>6, <1>7 DEF r

(* A done record completes the last intent; the records before it stay.     *)
LEMMA JournalCompletes ==
  ASSUME Recorded, Len(journal) > 0, journal' = [journal EXCEPT ![Len(journal)].done = seen]
  PROVE  /\ Recorded' /\ Len(journal) \in Nat /\ Len(journal') = Len(journal)
         /\ \A i \in 1..Len(journal) : i # Len(journal) => journal'[i] = journal[i]
         /\ journal'[Len(journal)].done = seen
         /\ journal'[Len(journal)].source = journal[Len(journal)].source
         /\ journal'[Len(journal)].parent = journal[Len(journal)].parent
<1>1. PICK T : journal \in Seq([source : T, parent : T, done : T])
  BY DEF Recorded
<1> DEFINE n == Len(journal)
           U == T \cup {seen}
           R == [source : T, parent : T, done : T]
           S == [source : U, parent : U, done : U]
           r == [journal[n] EXCEPT !.done = seen]
<1>2. n \in Nat /\ n \in 1..n /\ journal \in Seq(R) /\ DOMAIN journal = 1..n /\ journal[n] \in R
  <2>1. journal \in Seq(R)
    BY <1>1
  <2> HIDE DEF R
  <2> QED
    BY <2>1
<1>3. /\ r \in S /\ R \subseteq S
      /\ r.done = seen /\ r.source = journal[n].source /\ r.parent = journal[n].parent
  BY <1>2
<1>4. journal' = [journal EXCEPT ![n] = r]
  OBVIOUS
<1> HIDE DEF r, R, S
<1>5. journal \in Seq(S)
  BY <1>2, <1>3
<1> HIDE DEF n
<1>6. journal' \in Seq(S) /\ Len(journal') = Len(journal)
  BY <1>2, <1>3, <1>4, <1>5
<1>7. Recorded'
  BY <1>6 DEF Recorded, S
<1> QED
  BY <1>2, <1>3, <1>4, <1>6, <1>7 DEF n

(* Every step keeps the plan fitting, the maps total, the journal a list of *)
(* records and the trouble bounded.                                         *)
LEMMA ReadyStays ==
  ASSUME Ready, CallInv, Next
  PROVE  Ready'
<1>1. plan' = plan
  BY PlanNeverChanges
<1>2. Fits'
  BY <1>1 DEF Ready, Fits, Before, After
<1> DEFINE Typed == trouble' \in [regions : SUBSET Regions, interrupts : Int, edits : Int]
<1>3. CASE Calm
  BY <1>2, <1>3, CalmIsStill DEF Ready, Still, Domains, Recorded
<1>4. CASE StageContent
  BY <1>2, <1>4 DEF StageContent, Ready, Domains, Recorded, recovery, editor
<1>5. CASE Intent
  <2>1. \/ journal' = journal
        \/ \E s, q : journal' = Append(journal, [source |-> s, parent |-> q, done |-> None])
    BY <1>5 DEF Intent
  <2>2. Recorded'
    <3>1. CASE journal' = journal
      BY <3>1 DEF Ready, Recorded
    <3>2. ASSUME NEW s, NEW q,
                 journal' = Append(journal, [source |-> s, parent |-> q, done |-> None])
          PROVE  Recorded'
      BY <3>2, JournalGrows DEF Ready
    <3> QED
      BY <2>1, <3>1, <3>2
  <2> QED
    BY <1>2, <1>5, <2>2 DEF Intent, Ready, Domains
<1>6. CASE Mutate
  <2>1. Domains'
    BY <1>6 DEF Mutate, Call, Ready, Domains, Moved, Without, Nowhere
  <2> QED
    BY <1>2, <1>6, <2>1 DEF Mutate, Ready, Recorded, recovery, editor
<1>7. CASE Done
  <2>1. Len(journal) > 0
    BY <1>7 DEF Done, InOperation, CallInv, Progress, Ready, Recorded
  <2>2. Recorded'
    BY <1>7, <2>1, JournalCompletes DEF Done, Ready
  <2> QED
    BY <1>2, <1>7, <2>2 DEF Done, Ready, Domains
<1>8. CASE Cleanup \/ CleanRecovered
  <2>1. RemoveEntry
    BY <1>8 DEF Cleanup, CleanRecovered
  <2>2. journal' = journal \/ journal' = <<>>
    BY <2>1 DEF RemoveEntry, Removed
  <2>3. <<>> \in Seq([source : {}, parent : {}, done : {}])
    OBVIOUS
  <2>4. Recorded'
    <3>1. CASE journal' = journal
      BY <3>1 DEF Ready, Recorded
    <3>2. CASE journal' = <<>>
      BY <2>3, <3>2 DEF Recorded
    <3> QED
      BY <2>2, <3>1, <3>2
  <2> QED
    BY <1>2, <2>1, <2>4 DEF RemoveEntry, Removed, Ready, Domains, Nowhere
<1>9. CASE Rollback
  <2>1. Domains'
    BY <1>9 DEF Rollback, Undo, Ready, Domains, Moved, Without
  <2> QED
    BY <1>2, <1>9, <2>1 DEF Rollback, Ready, Recorded
<1>10. ASSUME NEW p \in Path, Edit(p)
       PROVE  Ready'
  <2>1. journal' = journal /\ stage' = stage /\ quarantine' = quarantine /\ DOMAIN host' = Path
    BY <1>10 DEF Edit, Put
  <2>2. trouble' = [trouble EXCEPT !.edits = trouble.edits - 1]
    BY <1>10 DEF Edit
  <2>3. Recorded' /\ Domains'
    BY <2>1 DEF Ready, Recorded, Domains
  <2>4. Typed
    BY <2>2 DEF Ready
  <2> QED
    BY <1>2, <2>3, <2>4 DEF Ready
<1> QED
  BY <1>3, <1>4, <1>5, <1>6, <1>7, <1>8, <1>9, <1>10, StepKinds

(* What is quiet after a step was quiet before it: edits are only used up.  *)
LEMMA QuietBefore ==
  ASSUME Ready, Next, Quiet'
  PROVE  Quiet
<1>1. RaceWindow' = RaceWindow
  OBVIOUS
<1>2. SUFFICES ASSUME Alone' PROVE Alone
  BY <1>1 DEF Quiet
<1>3. CASE Calm
  BY <1>2, <1>3, CalmIsStill DEF Ready, Still, Alone
<1>4. CASE StageContent \/ Intent \/ Mutate \/ Done \/ Cleanup \/ Rollback \/ CleanRecovered
  BY <1>2, <1>4 DEF StageContent, Intent, Mutate, Done, Cleanup, Rollback, CleanRecovered,
     RemoveEntry, editor, Alone
<1>5. ASSUME NEW p \in Path, Edit(p)
      PROVE  Alone
  <2>1. p \in touched'
    BY <1>5 DEF Edit, Put
  <2> QED
    BY <1>2, <2>1 DEF Alone
<1> QED
  BY <1>3, <1>4, <1>5, StepKinds

(* Reached, for the extent after a step.                                    *)
LEMMA ExtentReached ==
  ASSUME NEW k \in Int, k = Extent', Reached(k)'
  PROVE  Reached(Extent)'
BY DEF Reached

(* Exact looks at the workspace only.                                       *)
LEMMA ExactSame ==
  ASSUME UNCHANGED <<plan, host, touched>>, Exact
  PROVE  Exact'
BY DEF Exact, Bare, After

(* What has to be exact, and how far the workspace may be, only grows. *)
Settled == state = "Committed" \/ Whole("marker") \/ pc \in {"mark", "finish"}

(* A step that does not touch the tree keeps Placed, when it does not       *)
(* settle anything and does not take the extent back.                       *)
LEMMA PlacedStill ==
  ASSUME Ready, Placed, UNCHANGED <<plan, host, quarantine, touched>>,
         Settled' => Settled,
         state' # "Committed" =>
           state # "Committed" /\ Extent \in Int /\ Extent' \in Int /\ Extent <= Extent'
  PROVE  Placed'
<1>1. Settled' => Exact'
  BY ExactSame DEF Placed, Settled
<1>2. ASSUME state' # "Committed"
      PROVE  Reached(Extent)'
  <2>1. PICK k \in Int : k = Extent
    BY <1>2
  <2>2. PICK m \in Int : m = Extent'
    BY <1>2
  <2>3. Reached(k) /\ k <= m
    BY <1>2, <2>1, <2>2 DEF Placed, Reached
  <2>4. Count \in Nat
    BY PlannedOperations DEF Ready
  <2>5. Reached(m)
    BY <2>3, <2>4, ReachedMore
  <2>6. Reached(m)'
    BY <2>5, ReachedSame
  <2> QED
    BY <2>2, <2>6, ExtentReached
<1> QED
  BY <1>1, <1>2 DEF Placed, Settled

(* A step outside the operations keeps Journaled.                           *)
LEMMA JournaledStill ==
  ASSUME Ready, Journaled, Still, pc' # "operate",
         pc' \in {"revalidate", "enter"} => pc \in {"revalidate", "enter"}
  PROVE  Journaled'
<1>1. Staged'
  <2>1. \A p \in Path : stage'[p] \in {None, New(p)'}
    BY PlanStays DEF Still, Journaled, Staged
  <2>2. ASSUME pc' \in {"revalidate", "enter", "operate"}
        PROVE  Frontier' = Frontier /\ pc \in {"revalidate", "enter", "operate"}
    BY <2>2 DEF Still, Frontier, Pending
  <2>3. \A i : Installs(i)' = Installs(i)
    BY PlanStays DEF Installs, Still
  <2> QED
    BY <2>1, <2>2, <2>3, PlanStays DEF Still, Journaled, Staged
<1>2. \A i \in 1..Len(journal') : MadeRecord(i)'
  BY PlanStays DEF Still, Journaled, MadeRecord
<1> QED
  BY <1>1, <1>2 DEF Journaled

(* A calm step never takes the extent back: a failure, a crash or a start   *)
(* of recovery forgets no operation that may have happened.                 *)
LEMMA CalmExtent ==
  ASSUME Ready, CallInv, Calm, state' # "Committed"
  PROVE  state # "Committed" /\ Extent \in Int /\ Extent' \in Int /\ Extent <= Extent'
<1>0. Len(journal) \in Nat /\ (journal = <<>> <=> Len(journal) = 0) /\ journal' = journal
  BY CalmIsStill DEF Ready, Recorded, Still
<1> USE DEF Return, EndRecovery, OnTo, Interrupted, disk, recovery, editor, commit, CallInv,
        Control, Progress, Marking, Extent, Frontier, Pending
<1>1. CASE RefusePlan \/ Begin
  BY <1>0, <1>1 DEF RefusePlan, Begin
<1>2. CASE CreateWorkspace \/ WritePlan \/ CreateJournal \/ WriteMarker
  BY <1>0, <1>2 DEF CreateWorkspace, WritePlan, CreateJournal, WriteMarker, Write
<1>3. CASE Revalidate \/ EnterCommitting
  BY <1>0, <1>3 DEF Revalidate, EnterCommitting
<1>4. CASE Check \/ Verify
  BY <1>0, <1>4 DEF Check, Verify, InOperation, GoOn, Refuse
<1>5. CASE ClearMarkers \/ VerifyFinal \/ Finish
  BY <1>0, <1>5 DEF ClearMarkers, VerifyFinal, Finish, InOperation
<1>6. CASE Resolve \/ CleanedUp
  BY <1>0, <1>6 DEF Resolve, Resolution, CleanedUp
<1>7. CASE StartRecovery \/ ReadWorkspace \/ Finalize \/ ReadStore \/ Settle \/ EndClean
  BY <1>0, <1>7 DEF StartRecovery, ReadWorkspace, Finalize, ReadStore, Settle, EndClean
<1>8. CASE CreateWorkspaceFails \/ Crash \/ WriteTears \/ RecoveryInterrupted
  BY <1>0, <1>8 DEF CreateWorkspaceFails, Crash, WriteTears, RecoveryInterrupted
<1>9. CASE StepFails
  BY <1>0, <1>9 DEF StepFails
<1> QED
  BY <1>1, <1>2, <1>3, <1>4, <1>5, <1>6, <1>7, <1>8, <1>9 DEF Calm, Interruption

(* Among the calm steps only the final verification settles the outcome.    *)
LEMMA CalmSettled ==
  ASSUME CallInv, Calm, Settled', ~VerifyFinal
  PROVE  Settled
<1> USE DEF Return, EndRecovery, OnTo, disk, recovery, editor, commit, CallInv, Control, Progress,
            Marking, Settled, Whole
<1>1. CASE RefusePlan \/ Begin
  BY <1>1 DEF RefusePlan, Begin
<1>2. CASE CreateWorkspace \/ WritePlan \/ CreateJournal \/ WriteMarker
  BY <1>2 DEF CreateWorkspace, WritePlan, CreateJournal, WriteMarker, Write
<1>3. CASE Revalidate \/ EnterCommitting
  BY <1>3 DEF Revalidate, EnterCommitting
<1>4. CASE Check \/ Verify
  BY <1>4 DEF Check, Verify, InOperation, GoOn, Refuse
<1>5. CASE ClearMarkers \/ Finish
  BY <1>5 DEF ClearMarkers, Finish, InOperation
<1>6. CASE Resolve \/ CleanedUp
  BY <1>6 DEF Resolve, Resolution, CleanedUp
<1>7. CASE StartRecovery \/ ReadWorkspace \/ Finalize \/ ReadStore \/ Settle \/ EndClean
  BY <1>7 DEF StartRecovery, ReadWorkspace, Finalize, ReadStore, Settle, EndClean
<1>8. CASE CreateWorkspaceFails \/ Crash \/ WriteTears \/ RecoveryInterrupted
  BY <1>8 DEF CreateWorkspaceFails, Crash, WriteTears, RecoveryInterrupted
<1>9. CASE StepFails
  BY <1>9 DEF StepFails
<1> QED
  BY <1>1, <1>2, <1>3, <1>4, <1>5, <1>6, <1>7, <1>8, <1>9 DEF Calm, Interruption

(* A node of the workspace the editor left alone is the old one, the new    *)
(* one, or none; a directory among them has no data of its own.             *)
LEMMA UntouchedNode ==
  ASSUME Fits, NEW k \in Int, Reached(k), NEW p \in Path \ touched, host[p] # None
  PROVE  \E t \in Node : /\ host[p].kind = t.kind /\ host[p].mode = t.mode /\ host[p].data = t.data
                         /\ Bare(host[p]) = t
<1>1. Before \in Trees /\ After \in Trees /\ Original \in Nat /\ Made \in Nat
  BY DEF Fits, Original, Made
<1>2. CASE host[p] = Base(p)
  BY <1>2, PlannedNodes
<1>3. CASE host[p] = New(p)
  BY <1>3, PlannedNodes
<1>4. ASSUME NEW i \in 1..Count, Makes(i, p), ModeOperation(Operation(i)), host[p] = Product(i)
      PROVE  \E t \in Node : /\ host[p].kind = t.kind /\ host[p].mode = t.mode /\ host[p].data = t.data
                             /\ Bare(host[p]) = t
  <2>1. p = Root(i)
    BY <1>4 DEF Makes, Root
  <2>2. /\ After[p] # None /\ Before[p] # None
        /\ Before[p].kind = After[p].kind /\ Before[p].data = After[p].data
    BY <1>4, <2>1, PlannedOperations DEF Suits, Root, Present
  <2>3. After[p] \in Node /\ Before[p] \in Node
    BY <1>1, <2>2 DEF Trees
  <2>4. Base(p) = [kind |-> Before[p].kind, data |-> Before[p].data, mode |-> Before[p].mode,
                   id |-> Original]
    BY <2>2 DEF Base, WithId
  <2>5. Product(i) = [Base(p) EXCEPT !.mode = After[p].mode]
    BY <1>4, <2>1 DEF Product, Root
  <2> DEFINE t == After[p]
  <2>6. host[p] = [kind |-> t.kind, data |-> t.data, mode |-> t.mode, id |-> Original]
    BY <1>4, <2>2, <2>4, <2>5
  <2>7. t = [kind |-> t.kind, data |-> t.data, mode |-> t.mode] /\ t \in Node
    BY <2>3 DEF Node
  <2> HIDE DEF t
  <2>8. host[p].kind = t.kind /\ host[p].data = t.data /\ host[p].mode = t.mode
    BY <2>6
  <2>9. Bare(host[p]) = t
    BY <2>7, <2>8 DEF Bare
  <2> QED
    BY <2>7, <2>8, <2>9
<1>5. host[p] \in {None, Base(p)} \/ \E i \in 1..Count : Makes(i, p) /\ host[p] = Product(i)
  BY DEF Reached, Ground
<1>6. ASSUME NEW i \in 1..Count, Makes(i, p), ~ModeOperation(Operation(i))
      PROVE  Product(i) = New(p)
  BY <1>6 DEF Product, Makes
<1> QED
  BY <1>2, <1>3, <1>4, <1>5, <1>6

(* When verify_final_state passes on what the operations reached, the       *)
(* workspace holds the tree after.                                          *)
LEMMA FinalIsExact ==
  ASSUME Fits, NEW k \in Int, Reached(k), FinalStateHolds
  PROVE  Exact
<1> SUFFICES ASSUME NEW p \in Path \ touched
             PROVE  Bare(host[p]) = After[p] /\ (host[p] = None <=> After[p] = None)
  BY DEF Exact
<1>1. CASE p \in Changed(Before, After)
  <2>1. Matches(host[p], After[p])
    BY <1>1 DEF FinalStateHolds
  <2>2. CASE After[p] = None
    BY <2>1, <2>2 DEF Matches, Bare
  <2>3. CASE After[p] # None
    <3> DEFINE n == host[p]
               a == After[p]
    <3>1. /\ n # None /\ n.kind = a.kind /\ n.mode = a.mode
          /\ n.kind # "dir" => n.data = a.data
      BY <2>1, <2>3 DEF Matches
    <3>2. a \in Node
      BY <2>3 DEF Fits, Trees
    <3>3. PICK t \in Node : n.kind = t.kind /\ n.mode = t.mode /\ n.data = t.data /\ Bare(n) = t
      BY <3>1, UntouchedNode
    <3> HIDE DEF n, a
    <3>4. t.data = a.data
      BY <3>1, <3>2, <3>3 DEF Node
    <3>5. /\ t = [kind |-> t.kind, data |-> t.data, mode |-> t.mode]
          /\ a = [kind |-> a.kind, data |-> a.data, mode |-> a.mode]
      BY <3>2, <3>3 DEF Node
    <3>6. t = a
      BY <3>1, <3>3, <3>4, <3>5
    <3> QED
      BY <2>3, <3>1, <3>3, <3>6 DEF n, a
  <2> QED
    BY <2>2, <2>3
<1>2. CASE p \notin Changed(Before, After)
  <2>1. Before[p] = After[p]
    BY <1>2 DEF Changed
  <2>2. \A i \in 1..Count : ~Makes(i, p)
    BY <1>2, PlannedOperations DEF Makes, Suits
  <2>3. host[p] = Ground(p)
    BY <2>2 DEF Reached
  <2>4. Away(p) => Base(p) = None
    BY <1>2, PlannedSubtrees DEF Away
  <2>5. host[p] = Base(p)
    BY <2>3, <2>4 DEF Ground
  <2> QED
    BY <2>1, <2>5, PlannedNodes
<1> QED
  BY <1>1, <1>2

Kept == Journaled' /\ Placed'

(* The calm steps keep Journaled and Placed; verify_final_state establishes *)
(* Exact.                                                                   *)
LEMMA CalmKeeps ==
  ASSUME Ready, CallInv, CallInv', Journaled, Placed, Calm
  PROVE  Kept
<1>1. Still
  BY CalmIsStill DEF Ready
<1>2. Placed'
  <2>1. state' # "Committed" =>
          state # "Committed" /\ Extent \in Int /\ Extent' \in Int /\ Extent <= Extent'
    BY CalmExtent
  <2>2. CASE ~VerifyFinal
    BY <1>1, <2>1, <2>2, CalmSettled, PlacedStill DEF Still
  <2>3. CASE VerifyFinal
    <3>1. CASE FinalStateHolds
      <4>1. state = "Committing" /\ state' = "Committing"
        BY <2>3 DEF VerifyFinal, CallInv, Control
      <4>2. PICK k \in Int : k = Extent
        BY <2>1, <4>1
      <4>3. Reached(k)
        BY <4>1, <4>2 DEF Placed, Reached
      <4>4. Exact
        BY <3>1, <4>3, FinalIsExact DEF Ready
      <4>5. Exact'
        BY <1>1, <4>4, ExactSame DEF Still
      <4>6. PICK m \in Int : m = Extent'
        BY <2>1, <4>1
      <4>7. Count \in Nat /\ k <= m
        BY <2>1, <4>1, <4>2, <4>6, PlannedOperations DEF Ready
      <4>8. Reached(m)
        BY <4>3, <4>7, ReachedMore
      <4>9. Reached(m)'
        BY <1>1, <4>8, ReachedSame DEF Still
      <4> QED
        BY <4>5, <4>6, <4>9, ExtentReached DEF Placed
    <3>2. CASE ~FinalStateHolds
      <4>1. Settled' => Settled
        BY <2>3, <3>2 DEF VerifyFinal, Settled, Whole, disk
      <4> QED
        BY <1>1, <2>1, <4>1, PlacedStill DEF Still
    <3> QED
      BY <3>1, <3>2
  <2> QED
    BY <2>2, <2>3
<1>3. CASE EnterCommitting
  <2>1. pc = "enter" /\ pc' = "operate" /\ phase' = phase /\ phase = "intent" /\ journal = <<>>
    BY <1>3 DEF EnterCommitting, commit, CallInv, Control
  <2>2. Frontier' = 0 /\ Frontier = 0 /\ Len(journal) = 0 /\ journal' = <<>>
    BY <1>1, <2>1 DEF Frontier, Pending, Still
  <2>3. Staged'
    BY <1>1, <2>1, <2>2, PlanStays DEF Still, Journaled, Staged, Installs
  <2>4. Count \in Nat
    BY PlannedOperations DEF Ready
  <2>5. Underway'
    BY <1>1, <2>1, <2>2, <2>4, PlanStays DEF Still, Underway
  <2> QED
    BY <1>1, <1>2, <2>2, <2>3, <2>5 DEF Kept, Journaled, Still
<1>4. CASE Check
  <2>1. CASE pc' = "resolve"
    BY <1>1, <1>2, <2>1, JournaledStill DEF Kept
  <2>2. CASE pc' # "resolve"
    <3>1. /\ pc = "operate" /\ pc' = "operate" /\ phase = "check" /\ phase' = "mutate"
          /\ Expected(Current)
      BY <1>4, <2>2 DEF Check, InOperation, GoOn, Refuse
    <3>2. Frontier' = Frontier
      BY <1>1, <3>1 DEF Frontier, Pending, Still
    <3>3. Staged' /\ \A i \in 1..Len(journal') : MadeRecord(i)'
      BY <1>1, <3>1, <3>2, PlanStays DEF Still, Journaled, Staged, Installs, MadeRecord
    <3>4. IsQuarantine(Len(journal)) => host[Root(Len(journal))] = Base(Root(Len(journal)))
      BY <3>1 DEF Expected, IsQuarantine, Current, Root
    <3>5. Underway'
      BY <1>1, <3>1, <3>2, <3>4, PlanStays DEF Still, Journaled, Underway
    <3> QED
      BY <1>2, <3>3, <3>5 DEF Kept, Journaled
  <2> QED
    BY <2>1, <2>2
<1>5. CASE Verify
  <2>1. CASE pc' = "resolve"
    BY <1>1, <1>2, <2>1, JournaledStill DEF Kept
  <2>2. CASE pc' # "resolve"
    <3> DEFINE n == Len(journal)
    <3>1. /\ pc = "operate" /\ pc' = "operate" /\ phase = "verify" /\ phase' = "done"
          /\ Operation(n).op # "Quarantine" => seen' = host[Root(n)].id
      BY <1>5, <2>2 DEF Verify, InOperation, GoOn, Refuse, Current, Root
    <3>2. Frontier' = Frontier
      BY <1>1, <3>1 DEF Frontier, Pending, Still
    <3>3. Staged' /\ \A i \in 1..Len(journal') : MadeRecord(i)'
      BY <1>1, <3>1, <3>2, PlanStays DEF Still, Journaled, Staged, Installs, MadeRecord
    <3>4. n \in 1..Count
      BY <3>1 DEF CallInv, Progress, Ready, Recorded
    <3>5. ~IsQuarantine(n) /\ ~ModeOperation(Operation(n)) /\ Root(n) \notin touched => seen' = Made
      <4> SUFFICES ASSUME ~IsQuarantine(n), ~ModeOperation(Operation(n)), Root(n) \notin touched
                   PROVE  seen' = Made
        OBVIOUS
      <4>1. host[Root(n)] = Product(n)
        BY <3>1 DEF Journaled, Underway
      <4> HIDE DEF n
      <4>2. Product(n) = New(Root(n)) /\ New(Root(n)).id = Made
        BY <3>4, MadeProduct DEF Ready
      <4> QED
        BY <3>1, <4>1, <4>2 DEF IsQuarantine
    <3>6. Underway'
      BY <1>1, <3>1, <3>2, <3>5, PlanStays DEF Still, Journaled, Underway
    <3> QED
      BY <1>2, <3>3, <3>6 DEF Kept, Journaled
  <2> QED
    BY <2>1, <2>2
<1>6. CASE ~EnterCommitting /\ ~Check /\ ~Verify
  <2>1. pc' # "operate" /\ (pc' \in {"revalidate", "enter"} => pc \in {"revalidate", "enter"})
    BY <1>6 DEF Calm, RefusePlan, Begin, CreateWorkspace, WritePlan, CreateJournal, WriteMarker,
       Write, Revalidate, ClearMarkers, VerifyFinal, Finish, Resolve, CleanedUp, Return,
       InOperation, StartRecovery, ReadWorkspace, Finalize, ReadStore, Settle, EndClean, commit,
       CallInv, Control, Interruption, CreateWorkspaceFails, StepFails, Crash, WriteTears,
       RecoveryInterrupted
  <2> QED
    BY <1>1, <1>2, <2>1, JournaledStill DEF Kept
<1> QED
  BY <1>3, <1>4, <1>5, <1>6

(* The contents of the new nodes are staged before anything is performed. *)
LEMMA StageKeeps ==
  ASSUME Ready, CallInv, CallInv', Journaled, Placed, StageContent
  PROVE  Kept
<1>1. /\ pc = "stage" /\ pc' = "revalidate" /\ state = "Revalidating" /\ state' = state
      /\ UNCHANGED <<plan, host, quarantine, touched, torn, journal, phase, rpc, cursor>>
      /\ entries' = entries \cup {"stage", "quarantine"}
  BY DEF StageContent, CallInv, Control, recovery, editor
<1>2. Len(journal) \in Nat /\ "marker" \notin entries
  BY <1>1 DEF Ready, Recorded, CallInv, Marking
<1>3. Placed'
  <2>1. Settled' => Settled
    BY <1>1, <1>2 DEF Settled, Whole
  <2>2. Extent \in Int /\ Extent' \in Int /\ Extent <= Extent'
    BY <1>1, <1>2 DEF Extent, Frontier, Pending, CallInv, Control
  <2> QED
    BY <1>1, <2>1, <2>2, PlacedStill
<1>4. /\ \A p \in Path : stage'[p] \in {None, New(p)}
      /\ \A i \in 1..Count : Installs(i) => stage'[Root(i)] = New(Root(i))
  <2>1. \A p \in Path :
          stage'[p] = IF \E i \in 1..Count : Operation(i).path = p /\ Installs(i) THEN New(p) ELSE None
    BY DEF StageContent, Installs
  <2>2. \A i \in 1..Count : Root(i) \in Path
    BY PlannedOperations DEF Ready, Root
  <2> QED
    BY <2>1, <2>2 DEF Root
<1>5. Staged'
  BY <1>1, <1>4, PlanStays DEF Staged, Installs
<1>6. \A i \in 1..Len(journal') : MadeRecord(i)'
  BY <1>1, PlanStays DEF Journaled, MadeRecord
<1> QED
  BY <1>1, <1>3, <1>5, <1>6 DEF Kept, Journaled

(* A step of the committing call that changes neither the workspace nor     *)
(* what is decided.                                                         *)
LEMMA OperatingPlaced ==
  ASSUME Ready, CallInv, Placed, pc = "operate", state' = state, rpc' = rpc,
         UNCHANGED <<plan, host, quarantine, touched, entries, torn>>,
         pc' \notin {"mark", "finish"}, Frontier' \in Int, Frontier <= Frontier'
  PROVE  Placed'
<1>1. state = "Committing" /\ rpc = "idle" /\ Len(journal) \in Nat
  BY DEF Ready, Recorded, CallInv, Control
<1>2. Extent = Frontier /\ Extent' = Frontier' /\ Frontier \in Int
  BY <1>1 DEF Extent, Frontier, Pending
<1>3. Settled' => Settled
  BY DEF Settled, Whole
<1> QED
  BY <1>1, <1>2, <1>3, PlacedStill

(* Writing the intent of an operation keeps Journaled and Placed.           *)
LEMMA IntentKeeps ==
  ASSUME Ready, CallInv, CallInv', Journaled, Placed, Intent
  PROVE  Kept
<1> DEFINE n == Len(journal)
           o == Operation(n + 1)
<1>1. /\ pc = "operate" /\ phase = "intent" /\ n < Count
      /\ UNCHANGED <<plan, host, quarantine, stage, touched, entries, torn, state, rpc>>
      /\ \/ pc' = "resolve" /\ journal' = journal
         \/ \E s \in Source(o) :
              /\ journal' = Append(journal, [source |-> s, parent |-> ParentId(o.path), done |-> None])
              /\ pc' = pc /\ phase' = "check"
  BY DEF Intent, InOperation, Refuse, GoOn, recovery, editor
<1>2. n \in Nat /\ Count \in Nat /\ Frontier = n
  BY <1>1, PlannedOperations DEF Ready, Recorded, Frontier, Pending
<1>3. CASE pc' = "resolve" /\ journal' = journal
  <2>1. Frontier' = n
    BY <1>1, <1>3 DEF Frontier, Pending
  <2>2. Placed'
    BY <1>1, <1>2, <1>3, <2>1, OperatingPlaced
  <2>3. Journaled'
    BY <1>1, <1>3, JournaledStill DEF Still
  <2> QED
    BY <2>2, <2>3 DEF Kept
<1>4. ASSUME NEW s \in Source(o), pc' = pc, phase' = "check",
             journal' = Append(journal, [source |-> s, parent |-> ParentId(o.path), done |-> None])
      PROVE  Kept
  <2>1. /\ Len(journal') = n + 1
        /\ \A i \in 1..n : journal'[i] = journal[i]
        /\ journal'[n + 1] = [source |-> s, parent |-> ParentId(o.path), done |-> None]
    <3> DEFINE q == ParentId(o.path)
    <3>1. journal' = Append(journal, [source |-> s, parent |-> q, done |-> None])
      BY <1>4
    <3> HIDE DEF q
    <3>2. /\ Len(journal') = n + 1
          /\ \A i \in 1..n : journal'[i] = journal[i]
          /\ journal'[Len(journal')] = [source |-> s, parent |-> q, done |-> None]
      BY <3>1, JournalGrows DEF Ready
    <3> QED
      BY <3>2 DEF q
  <2>2. Frontier' = n
    BY <1>1, <1>2, <1>4, <2>1 DEF Frontier, Pending
  <2>3. Placed'
    BY <1>1, <1>2, <1>4, <2>2, OperatingPlaced
  <2>4. Staged'
    BY <1>1, <1>2, <1>4, <2>2, PlanStays DEF Journaled, Staged, Installs
  <2>5. n + 1 \in 1..Count
    BY <1>1, <1>2
  <2>6. PICK c : c = n + 1
    OBVIOUS
  <2>7. Operation(c).op = "InstallSymlink" => s = Made
    <3> SUFFICES ASSUME Operation(c).op = "InstallSymlink" PROVE s = Made
      OBVIOUS
    <3>1. s = stage[Root(c)].id
      BY <1>4, <2>6 DEF Source, Root
    <3>2. stage[Root(c)] = New(Root(c))
      BY <1>1, <1>2, <2>5, <2>6 DEF Journaled, Staged, Installs
    <3>3. c \in 1..Count /\ ~IsQuarantine(c) /\ ~ModeOperation(Operation(c))
      BY <2>5, <2>6 DEF IsQuarantine, ModeOperation
    <3>4. New(Root(c)).id = Made
      BY <3>3, MadeProduct DEF Ready
    <3> QED
      BY <3>1, <3>2, <3>4
  <2>8. ASSUME NEW i \in 1..Len(journal')
        PROVE  MadeRecord(i)'
    <3>1. CASE i = c
      <4>1. journal'[c].source = s /\ journal'[c].done = None
        BY <2>1, <2>6
      <4> QED
        BY <1>1, <2>7, <3>1, <4>1, PlanStays DEF MadeRecord
    <3>2. CASE i # c
      <4>1. i \in 1..n /\ journal'[i] = journal[i]
        BY <1>2, <2>1, <2>6, <3>2
      <4> QED
        BY <1>1, <4>1, PlanStays DEF Journaled, MadeRecord
    <3> QED
      BY <3>1, <3>2
  <2>9. Underway'
    BY <1>1, <1>2, <1>4, <2>2, PlanStays DEF Journaled, Underway
  <2> QED
    BY <2>3, <2>4, <2>8, <2>9 DEF Kept, Journaled
<1> QED
  BY <1>1, <1>3, <1>4

(* Writing the done record of an operation keeps Journaled and Placed.      *)
LEMMA DoneKeeps ==
  ASSUME Ready, CallInv, CallInv', Journaled, Placed, Done
  PROVE  Kept
<1> DEFINE n == Len(journal)
<1>1. /\ pc = "operate" /\ phase = "done" /\ pc' = "operate" /\ phase' = "intent"
      /\ UNCHANGED <<plan, host, quarantine, stage, touched, entries, torn, state, rpc>>
      /\ journal' = [journal EXCEPT ![n].done = seen]
  BY DEF Done, InOperation, GoOn, recovery, editor
<1>2. n \in Nat /\ n > 0 /\ n <= Count /\ Count \in Nat
  BY <1>1, PlannedOperations DEF Ready, Recorded, CallInv, Progress
<1>3. /\ Len(journal') = n
      /\ \A i \in 1..n : i # n => journal'[i] = journal[i]
      /\ journal'[n].done = seen /\ journal'[n].source = journal[n].source
  BY <1>1, <1>2, JournalCompletes DEF Ready
<1>4. Frontier = n /\ Frontier' = n
  BY <1>1, <1>3 DEF Frontier, Pending
<1>5. Placed'
  BY <1>1, <1>2, <1>4, OperatingPlaced
<1>6. Staged'
  BY <1>1, <1>4, PlanStays DEF Journaled, Staged, Installs
<1>7. PICK c : c = n
  OBVIOUS
<1>8. ASSUME NEW i \in 1..Len(journal')
      PROVE  MadeRecord(i)'
  <2>1. i \in 1..n /\ MadeRecord(i) /\ journal'[i].source = journal[i].source
    BY <1>2, <1>3 DEF Journaled
  <2>2. CASE i = c
    <3>1. ~IsQuarantine(i) /\ ~ModeOperation(Operation(i)) /\ Root(i) \notin touched => seen = Made
      BY <1>1, <1>7, <2>2 DEF Journaled, Underway
    <3>2. journal'[i].done = seen
      BY <1>3, <1>7, <2>2
    <3> QED
      BY <1>1, <2>1, <3>1, <3>2, PlanStays DEF MadeRecord
  <2>3. CASE i # c
    <3>1. journal'[i] = journal[i]
      BY <1>3, <1>7, <2>1, <2>3
    <3> QED
      BY <1>1, <2>1, <3>1, PlanStays DEF MadeRecord
  <2> QED
    BY <2>2, <2>3
<1>9. Underway'
  BY <1>1, <1>4, PlanStays DEF Journaled, Underway
<1> QED
  BY <1>5, <1>6, <1>8, <1>9 DEF Kept, Journaled

(* An operation that was not begun has not changed the node at its path. *)
LEMMA NotYet ==
  ASSUME Fits, NEW c \in 1..Count, ~IsQuarantine(c), NEW p, p = Root(c), p \notin touched,
         NEW j \in Int, j < c, Reached(j)
  PROVE  host[p] = Ground(p)
<1>1. p \in Path /\ Makes(c, p)
  BY PlannedOperations DEF Root, Makes
<1>2. \A i \in 1..Count : Makes(i, p) => i = c
  BY <1>1, PlannedOperations
<1> QED
  BY <1>1, <1>2 DEF Reached

(* Where a node is made, the old one is away: the quarantines came first. *)
LEMMA MadeOnBareGround ==
  ASSUME Fits, NEW c \in 1..Count, ~IsQuarantine(c), ~ModeOperation(Operation(c)), NEW p,
         p = Root(c),
         \A i \in 1..Count : IsQuarantine(i) /\ i < c => quarantine[Root(i)] = Base(Root(i))
  PROVE  Ground(p) = None
<1>1. p \in Path /\ Makes(c, p)
  BY MadeProduct
<1>2. SUFFICES ASSUME Base(p) # None PROVE Away(p)
  BY DEF Ground
<1>3. PICK i \in 1..Count : IsQuarantine(i) /\ p \in Within(Root(i))
  BY <1>1, <1>2, PlannedOperations
<1>4. i < c
  BY <1>1, <1>3, PlannedOperations
<1>5. quarantine[Root(i)] # None
  BY <1>3, <1>4, RootWithin
<1> QED
  BY <1>3, <1>5 DEF Away

(* The system call of an operation keeps Journaled and Placed: a quarantine *)
(* puts a subtree aside whole, everything else makes one node.              *)
LEMMA MutateKeeps ==
  ASSUME Ready, CallInv, CallInv', Journaled, Placed, Mutate
  PROVE  Kept
<1>1. PICK c : c = Len(journal)
  OBVIOUS
<1> DEFINE o == Operation(c)
           p == Root(c)
<1>2. /\ pc = "operate" /\ phase = "mutate" /\ state = "Committing" /\ rpc = "idle"
      /\ UNCHANGED <<plan, touched, entries, torn, journal, state, rpc>>
  BY DEF Mutate, InOperation, recovery, editor, CallInv, Control
<1>3. c \in 1..Count /\ Count \in Nat /\ c \in Nat
  BY <1>1, <1>2, PlannedOperations DEF Ready, Recorded, CallInv, Progress
<1>4. Frontier = c - 1 /\ Extent = c - 1
  BY <1>1, <1>2 DEF Frontier, Pending, Extent
<1>5. p \in Path /\ o.path = p /\ o.op \in OperationNames
  BY <1>3, PlannedOperations DEF Ready, Root
<1>6. CASE pc' = "resolve" /\ UNCHANGED <<host, stage, quarantine>>
  <2>1. Frontier' = c
    BY <1>1, <1>2, <1>6 DEF Frontier, Pending
  <2>2. Placed'
    BY <1>2, <1>3, <1>4, <1>6, <2>1, OperatingPlaced
  <2>3. Journaled'
    BY <1>2, <1>6, JournaledStill DEF Still
  <2> QED
    BY <2>2, <2>3 DEF Kept
<1>7. CASE Call(o) /\ pc' = "operate" /\ phase' = "verify"
  <2>1. Frontier' = c /\ Extent' = c
    BY <1>1, <1>2, <1>7 DEF Frontier, Pending, Extent
  <2>2. PICK k : k = c - 1
    OBVIOUS
  <2>3. k \in Int /\ k < c /\ Reached(k) /\ Reached(c - 1)
    <3>1. k = Extent /\ Reached(Extent) /\ Extent = c - 1
      BY <1>2, <1>4, <2>2 DEF Placed
    <3> QED
      BY <1>3, <2>2, <3>1 DEF Reached
  <2>4. /\ \A i \in 1..Count : IsQuarantine(i) /\ i < c => quarantine[Root(i)] = Base(Root(i))
        /\ IsQuarantine(c) => host[p] = Base(p)
        /\ \A i \in 1..Count : i >= c /\ Installs(i) => stage[Root(i)] = New(Root(i))
        /\ \A x \in Path : stage[x] \in {None, New(x)}
    BY <1>1, <1>2, <1>3, <1>4 DEF Journaled, Underway, Staged
  <2>5. ASSUME /\ Reached(c)'
               /\ \A i \in 1..Count : IsQuarantine(i) /\ i <= c => quarantine'[Root(i)] = Base(Root(i))
               /\ ~IsQuarantine(c) /\ p \notin touched => host'[p] = Product(c)
               /\ \A x \in Path : stage'[x] = stage[x] \/ (x = p /\ stage'[x] = None /\ ~IsQuarantine(c))
        PROVE  Kept
    <3>1. Placed'
      <4>1. ~Settled
        BY <1>2 DEF Settled, Whole, CallInv, Marking
      <4>2. ~Settled'
        BY <1>2, <1>7, <4>1 DEF Settled, Whole
      <4> QED
        BY <1>3, <2>1, <2>5, <4>2, ExtentReached DEF Placed, Settled
    <3>2. Staged'
      <4>1. \A x \in Path : stage'[x] \in {None, New(x)'}
        BY <1>2, <2>4, <2>5, PlanStays
      <4>2. ASSUME NEW i \in 1..Count, i > c, Installs(i)
            PROVE  stage'[Root(i)] = New(Root(i))
        <5>1. Root(i) \in Path
          BY PlannedOperations DEF Ready, Root
        <5>2. Root(i) # p \/ IsQuarantine(c)
          <6>1. ~IsQuarantine(i)
            BY <4>2 DEF Installs, IsQuarantine
          <6>2. Root(i) = p /\ ~IsQuarantine(c) => Makes(i, p) /\ Makes(c, p)
            BY <6>1 DEF Makes, Root
          <6>3. Makes(i, p) /\ Makes(c, p) => i = c
            BY <1>3, PlannedOperations DEF Ready
          <6> QED
            BY <1>3, <4>2, <6>2, <6>3
        <5> QED
          BY <1>3, <2>4, <2>5, <4>2, <5>1, <5>2
      <4>3. \A i : Installs(i)' = Installs(i)
        BY <1>2, PlanStays DEF Installs
      <4> QED
        BY <1>2, <2>1, <4>1, <4>2, <4>3, PlanStays DEF Staged
    <3>3. \A i \in 1..Len(journal') : MadeRecord(i)'
      BY <1>2, PlanStays DEF Journaled, MadeRecord
    <3>4. Underway'
      <4>1. Len(journal') = c
        BY <1>1, <1>2
      <4> DEFINE A == /\ \A i \in 1..Count : IsQuarantine(i) /\ i <= Frontier' =>
                           quarantine'[Root(i)] = Base(Root(i))
                      /\ ~IsQuarantine(c) /\ Root(c) \notin touched => host'[Root(c)] = Product(c)
      <4>2. A
        BY <2>1, <2>5
      <4> QED
        BY <1>1, <1>2, <1>7, <4>2, PlanStays DEF Underway
    <3> QED
      BY <3>1, <3>2, <3>3, <3>4 DEF Kept, Journaled
  <2>6. CASE IsQuarantine(c)
    <3>0. o.op = "Quarantine"
      BY <2>6 DEF IsQuarantine
    <3>1. quarantine' = Moved(host, quarantine, p) /\ host' = Without(host, p) /\ stage' = stage
      <4> HIDE DEF o, p
      <4> QED
        BY <1>5, <1>7, <3>0 DEF Call
    <3>2. Reached(c)'
      <4> HIDE DEF o
      <4> QED
        BY <1>2, <1>3, <2>3, <2>4, <2>6, <3>1, QuarantineReaches DEF Ready, Domains
    <3>3. \A i \in 1..Count : IsQuarantine(i) /\ i <= c => quarantine'[Root(i)] = Base(Root(i))
      <4> SUFFICES ASSUME NEW i \in 1..Count, IsQuarantine(i), i <= c
                   PROVE  quarantine'[Root(i)] = Base(Root(i))
        OBVIOUS
      <4>1. Root(i) \in Path /\ Root(i) \in Within(Root(i)) /\ p \in Within(p)
        BY <1>3, <2>6, RootWithin DEF Ready
      <4>2. CASE i = c
        BY <2>4, <2>6, <3>1, <4>1, <4>2 DEF Moved
      <4>3. CASE i # c
        <5>1. Within(Root(i)) \cap Within(p) = {}
          BY <1>3, <2>6, <4>3, PlannedOperations DEF Ready
        <5>2. Root(i) \notin Within(p)
          BY <4>1, <5>1
        <5> HIDE DEF p
        <5>3. quarantine'[Root(i)] = quarantine[Root(i)]
          BY <3>1, <4>1, <5>2 DEF Moved
        <5> QED
          BY <1>3, <2>4, <4>3, <5>3
      <4> QED
        BY <4>2, <4>3
    <3> QED
      BY <2>5, <2>6, <3>1, <3>2, <3>3
  <2>7. CASE ~IsQuarantine(c)
    <3>0. o.op # "Quarantine" /\ o.op \in OperationNames
      BY <1>5, <2>7 DEF IsQuarantine
    <3>1. Makes(c, p)
      BY <2>7 DEF Makes, Root
    <3>2. /\ quarantine' = quarantine
          /\ \A x \in Path : x # p => host'[x] = host[x]
          /\ \A x \in Path : stage'[x] = stage[x] \/ (x = p /\ stage'[x] = None)
          /\ p \notin touched => host'[p] = Product(c)
          /\ p \notin touched => ModeOperation(o) \/ Ground(p) = None
      <4>1. CASE ModeOperation(o)
        <5>1. quarantine' = quarantine /\ stage' = stage /\ host' = [host EXCEPT ![p].mode = After[p].mode]
          <6>1. o.op \in {"SetFileMode", "SetDirectoryMode"}
            BY <4>1 DEF ModeOperation
          <6> HIDE DEF o, p
          <6> QED
            BY <1>5, <1>7, <6>1 DEF Call
        <5>2. /\ host'[p] = [host[p] EXCEPT !.mode = After[p].mode]
              /\ \A x \in Path : x # p => host'[x] = host[x]
          BY <1>5, <5>1 DEF Ready, Domains
        <5>3. p \notin touched => host[p] = Ground(p)
          BY <1>3, <2>3, <2>7, NotYet DEF Ready
        <5>4. Ground(p) = Base(p)
          BY <1>3, <4>1, ModeProduct DEF Ready
        <5>5. Product(c) = [Base(p) EXCEPT !.mode = After[p].mode]
          BY <4>1 DEF Product, Root
        <5> HIDE DEF o, p
        <5> QED
          BY <4>1, <5>1, <5>2, <5>3, <5>4, <5>5
      <4>2. CASE ~ModeOperation(o)
        <5>1. Ground(p) = None
          BY <1>3, <2>4, <2>7, <4>2, MadeOnBareGround DEF Ready
        <5>2. Product(c) = New(p)
          BY <1>3, <2>7, <4>2, MadeProduct DEF Ready
        <5>3. o.op \in {"CreateDirectory", "InstallFile", "InstallSymlink"}
          BY <3>0, <4>2 DEF ModeOperation, OperationNames
        <5>4. o.op \in {"InstallFile", "InstallSymlink"} => stage[p] = New(p)
          BY <1>3, <2>4 DEF Installs
        <5>5. /\ quarantine' = quarantine
              /\ host' = [host EXCEPT ![p] = IF o.op = "CreateDirectory" THEN New(p) ELSE stage[p]]
              /\ stage' = stage \/ stage' = [stage EXCEPT ![p] = None]
          <6> HIDE DEF o, p
          <6> QED
            BY <1>5, <1>7, <5>3 DEF Call
        <5> HIDE DEF o, p
        <5>6. host'[p] = New(p) /\ \A x \in Path : x # p => host'[x] = host[x]
          BY <1>5, <5>3, <5>4, <5>5 DEF Ready, Domains
        <5>7. \A x \in Path : stage'[x] = stage[x] \/ (x = p /\ stage'[x] = None)
          BY <1>5, <5>5 DEF Ready, Domains
        <5> QED
          BY <5>1, <5>2, <5>5, <5>6, <5>7
      <4> QED
        BY <4>1, <4>2
    <3>3. Reached(c)'
      BY <1>2, <1>3, <1>5, <2>3, <3>1, <3>2, MakeReaches DEF Ready
    <3>4. \A i \in 1..Count : IsQuarantine(i) /\ i <= c => quarantine'[Root(i)] = Base(Root(i))
      <4> SUFFICES ASSUME NEW i \in 1..Count, IsQuarantine(i), i <= c
                   PROVE  quarantine'[Root(i)] = Base(Root(i))
        OBVIOUS
      <4>1. i # c
        BY <2>7
      <4> QED
        BY <1>3, <2>4, <3>2, <4>1
    <3> QED
      BY <2>5, <2>7, <3>2, <3>3, <3>4
  <2> QED
    BY <2>6, <2>7
<1> QED
  <2>1. Current = o
    BY <1>1 DEF Current
  <2>2. \/ Call(Current) /\ GoOn("verify")
        \/ Refuse /\ UNCHANGED <<host, stage, quarantine>>
    BY DEF Mutate
  <2> HIDE DEF o
  <2> QED
    BY <1>2, <1>6, <1>7, <2>1, <2>2 DEF GoOn, Refuse

(* ReachedMore, after a step.                                               *)
LEMMA ReachedMoreAfter ==
  ASSUME NEW k \in Int, NEW m \in Int, k <= m, Count' \in Nat, Reached(k)'
  PROVE  Reached(m)'
BY DEF Reached

(* A step of rollback_operation keeps Journaled and Placed.                 *)
LEMMA RollbackKeeps ==
  ASSUME Ready, CallInv, CallInv', Journaled, Placed, Rollback
  PROVE  Kept
<1>1. PICK c : c = cursor
  OBVIOUS
<1>2. /\ rpc = "rollback" /\ c > 0
      /\ UNCHANGED <<plan, stage, entries, torn, journal, state, pc, phase, touched>>
  BY <1>1 DEF Rollback, commit, editor
<1>3. /\ pc = "done" /\ state \notin {"Committed", "Committing"} /\ "marker" \notin entries
      /\ c \in 0..Len(journal) /\ Len(journal) <= Count
  BY <1>1, <1>2 DEF CallInv, Control, Progress, Marking
<1>4. Len(journal) \in Nat /\ Count \in Nat
  BY PlannedOperations DEF Ready, Recorded
<1>5. c \in 1..Count /\ c \in 1..Len(journal)
  BY <1>2, <1>3, <1>4
<1>6. PICK j : j = Extent
  OBVIOUS
<1>7. j = (IF state \in {"Failed", "Stale"} THEN 0 ELSE c) /\ j \in Int
  BY <1>1, <1>2, <1>5, <1>6 DEF Extent
<1>8. Reached(j)
  BY <1>3, <1>6 DEF Placed, Reached
<1>9. \/ cursor' = c /\ Reached(j)'
      \/ cursor' = c - 1 /\ Reached(Less(j, c))'
  BY <1>1, <1>5, <1>7, <1>8, RollbackReaches DEF Ready, Domains, Journaled, Staged
<1>10. PICK m : m = Extent'
  OBVIOUS
<1>11. m = (IF state \in {"Failed", "Stale"} THEN 0
            ELSE IF rpc' = "rollback" THEN cursor' ELSE Len(journal))
  BY <1>2, <1>3, <1>10 DEF Extent, Frontier, Pending
<1>12. Reached(m)'
  <2>0. Count' \in Nat
    BY <1>2, <1>4, PlanStays
  <2>1. CASE cursor' = c /\ Reached(j)'
    <3>1. m \in Int /\ j <= m
      BY <1>4, <1>5, <1>7, <1>11, <2>1
    <3> QED
      BY <1>7, <2>0, <2>1, <3>1, ReachedMoreAfter
  <2>2. CASE cursor' = c - 1 /\ Reached(Less(j, c))'
    <3>1. PICK l : l = Less(j, c)
      OBVIOUS
    <3>2. l \in Int /\ m \in Int /\ l <= m
      BY <1>4, <1>5, <1>7, <1>11, <2>2, <3>1 DEF Less
    <3>3. Reached(l)'
      BY <2>2, <3>1
    <3> QED
      BY <2>0, <3>2, <3>3, ReachedMoreAfter
  <2> QED
    BY <1>9, <2>1, <2>2
<1>13. Placed'
  <2>1. ~Settled'
    BY <1>2, <1>3 DEF Settled, Whole
  <2>2. m \in Int
    BY <1>4, <1>5, <1>9, <1>11
  <2>3. Reached(Extent)'
    BY <1>10, <1>12, <2>2, ExtentReached
  <2> QED
    BY <2>1, <2>3 DEF Placed, Settled
<1>14. Staged'
  BY <1>2, <1>3, PlanStays DEF Journaled, Staged
<1>15. \A i \in 1..Len(journal') : MadeRecord(i)'
  BY <1>2, PlanStays DEF Journaled, MadeRecord
<1> QED
  BY <1>2, <1>3, <1>13, <1>14, <1>15 DEF Kept, Journaled

(* Cleanup removes what an undone attempt no longer needs. *)
LEMMA RemovalKeeps ==
  ASSUME Ready, CallInv, CallInv', Journaled, Placed, Cleanup \/ CleanRecovered
  PROVE  Kept
<1>1. /\ UNCHANGED <<plan, host, touched, state, phase, pc, rpc, cursor>>
      /\ pc = "cleanup" \/ rpc = "cleanup"
      /\ \E e \in entries :
           /\ entries' = entries \ {e} /\ torn' = torn \ {e}
           /\ stage' \in {stage, Nowhere} /\ quarantine' \in {quarantine, Nowhere}
           /\ journal' \in {journal, <<>>}
  BY DEF Cleanup, CleanRecovered, RemoveEntry, Removed, editor
<1>2. /\ pc \in {"cleanup", "done"}
      /\ state \in {"Revalidating", "Failed", "Stale", "Committed"}
      /\ state \in {"Revalidating", "Stale"} => journal = <<>> /\ rpc # "rollback"
  BY <1>1 DEF CallInv, Control, Progress
<1>3. \A p \in Path : Nowhere[p] = None
  BY DEF Nowhere
<1>4. Settled' => Settled
  BY <1>1 DEF Settled, Whole
<1>5. ASSUME state # "Committed"
      PROVE  Reached(Extent)'
  <2>1. Extent = 0 /\ Extent' = 0
    BY <1>1, <1>2, <1>5 DEF Extent, Frontier, Pending
  <2>2. Reached(0)
    BY <1>5, <2>1 DEF Placed
  <2>3. Reached(0)'
    <3>1. CASE quarantine' = quarantine
      <4>1. 0 \in Int /\ UNCHANGED <<plan, host, quarantine, touched>>
        BY <1>1, <3>1
      <4> QED
        BY <2>2, <4>1, ReachedSame
    <3>2. CASE quarantine' = Nowhere
      BY <1>1, <1>3, <2>2, <3>2, NothingReached, ReachedFromStart DEF Ready
    <3> QED
      BY <1>1, <3>1, <3>2
  <2> QED
    BY <2>1, <2>3, ExtentReached
<1>6. Placed'
  BY <1>1, <1>4, <1>5, ExactSame DEF Placed, Settled
<1>7. Staged'
  BY <1>1, <1>2, <1>3, PlanStays DEF Journaled, Staged
<1>8. \A i \in 1..Len(journal') : MadeRecord(i)'
  BY <1>1, PlanStays DEF Journaled, MadeRecord
<1> QED
  BY <1>1, <1>2, <1>6, <1>7, <1>8 DEF Kept, Journaled

(* The parent of a path lies above it.                                      *)
LEMMA FrontIsAbove ==
  ASSUME NEW p \in Path, Len(p) > 1
  PROVE  IsStrictPrefix(Front(p), p)
<1>1. p \in Seq(Name) /\ Len(p) \in Nat
  BY PathAssumption
<1>2. Front(p) = SubSeq(p, 1, Len(p) - 1) /\ Len(Front(p)) = Len(p) - 1
  BY <1>1 DEF Front
<1>3. SubSeq(Front(p), 1, Len(Front(p))) = SubSeq(p, 1, Len(Front(p)))
  BY <1>1, <1>2
<1> QED
  BY <1>1, <1>2, <1>3 DEF IsStrictPrefix, IsPrefix

(* The other program writes: no claim is made of the paths it touched, and  *)
(* it does not touch the subtree that is about to be renamed.               *)
LEMMA EditKeeps ==
  ASSUME Ready, CallInv, CallInv', Journaled, Placed, Quiet, NEW p \in Path, Edit(p)
  PROVE  Kept
<1>1. /\ UNCHANGED <<plan, quarantine, stage, entries, torn, journal, state, pc, phase, seen, rpc, cursor>>
      /\ touched \subseteq touched'
      /\ \A x \in Path \ touched' : host'[x] = host[x]
      /\ \A x \in Path : x # p /\ ~(Len(p) > 1 /\ x = Front(p)) => host'[x] = host[x]
      /\ ~InRace(p)
  <2>1. UNCHANGED <<plan, quarantine, stage, entries, torn, journal, state, pc, phase, seen, rpc, cursor>>
    BY DEF Edit, commit, recovery
  <2>2. PICK node : Put(p, node)
    BY DEF Edit
  <2>3. /\ touched \subseteq touched'
        /\ \A x \in Path \ touched' : host'[x] = host[x]
        /\ \A x \in Path : x # p /\ ~(Len(p) > 1 /\ x = Front(p)) => host'[x] = host[x]
    BY <2>2 DEF Put, Parent
  <2>4. ~InRace(p)
    BY DEF Edit, Quiet, Alone
  <2> QED
    BY <2>1, <2>3, <2>4
<1>2. Frontier' = Frontier /\ Extent' = Extent
  BY <1>1 DEF Extent, Frontier, Pending
<1>3. Settled' <=> Settled
  BY <1>1 DEF Settled, Whole
<1>4. Exact => Exact'
  BY <1>1 DEF Exact, Bare, After
<1>5. \A k : Reached(k) => Reached(k)'
  <2>1. \A x : Ground(x)' = Ground(x)
    BY <1>1, PlanStays DEF Ground, Away
  <2>2. \A i : (InPlace(i) => InPlace(i)') /\ (Aside(i) => Aside(i)')
    BY <1>1, PlanStays DEF InPlace, Aside
  <2> QED
    BY <1>1, <2>1, <2>2, PlanStays DEF Reached
<1>6. Placed'
  BY <1>1, <1>2, <1>3, <1>4, <1>5 DEF Placed, Settled
<1>7. Staged'
  BY <1>1, <1>2, PlanStays DEF Journaled, Staged, Installs
<1>8. \A i \in 1..Len(journal') : MadeRecord(i)'
  BY <1>1, PlanStays DEF Journaled, MadeRecord
<1>9. ASSUME pc = "operate"
      PROVE  Underway'
  <2>1. PICK n : n = Len(journal)
    OBVIOUS
  <2>2. phase # "intent" => n \in 1..Count /\ Root(n) \in Path
    BY <1>9, <2>1, PlannedOperations DEF Ready, Recorded, CallInv, Progress, Root
  <2>3. phase = "mutate" /\ IsQuarantine(n) => host'[Root(n)] = Base(Root(n))
    <3> SUFFICES ASSUME phase = "mutate", IsQuarantine(n)
                 PROVE  host'[Root(n)] = Base(Root(n))
      OBVIOUS
    <3>1. host[Root(n)] = Base(Root(n))
      BY <1>9, <2>1 DEF Journaled, Underway
    <3>2. n \in 1..Count /\ n >= Len(journal) /\ n = Len(journal)
      BY <2>1, <2>2
    <3>3. Root(n) # p /\ ~IsStrictPrefix(Root(n), p)
      BY <1>1, <1>9, <3>2 DEF InRace, IsQuarantine, Root
    <3>4. host'[Root(n)] = host[Root(n)]
      BY <1>1, <2>2, <3>3, FrontIsAbove
    <3> QED
      BY <3>1, <3>4
  <2>4. \A i \in 1..Count : IsQuarantine(i) /\ i <= Frontier => quarantine'[Root(i)] = Base(Root(i))
    BY <1>1, <1>9 DEF Journaled, Underway
  <2>5. phase = "verify" /\ ~IsQuarantine(n) /\ Root(n) \notin touched' => host'[Root(n)] = Product(n)
    BY <1>1, <1>9, <2>1, <2>2 DEF Journaled, Underway
  <2>6. phase = "done" /\ ~IsQuarantine(n) /\ ~ModeOperation(Operation(n)) /\ Root(n) \notin touched' =>
          seen' = Made
    BY <1>1, <1>9, <2>1 DEF Journaled, Underway
  <2> QED
    BY <1>1, <1>2, <2>1, <2>3, <2>4, <2>5, <2>6, PlanStays DEF Underway
<1> QED
  BY <1>1, <1>6, <1>7, <1>8, <1>9 DEF Kept, Journaled

-----------------------------------------------------------------------------
(* The inductive invariant.                                                 *)
Inv == Ready /\ CallInv /\ (Quiet => Journaled /\ Placed)

(* The plan of a job has the shape that PlanShape proves of prepare.        *)
LEMMA PlanFits ==
  ASSUME plan \in {[before |-> j.before, after |-> j.after,
                    operations |-> Prepare(j.before, j.after)] : j \in Jobs}
  PROVE  Fits /\ [before |-> Before, after |-> After] \in Jobs /\ WellFormed(Before)
<1>1. PICK j \in Jobs : plan = [before |-> j.before, after |-> j.after,
                                operations |-> Prepare(j.before, j.after)]
  OBVIOUS
<1>2. Before = j.before /\ After = j.after /\ plan.operations = Prepare(j.before, j.after)
  BY <1>1 DEF Before, After
<1>3. /\ j \in [before : Trees, after : Trees] /\ WellFormed(j.before) /\ WellFormed(j.after)
      /\ j.before # j.after
  BY ProtocolAssumption DEF Acceptable
<1>4. PICK b, a : b = j.before /\ a = j.after
  OBVIOUS
<1>5. /\ b \in Tree /\ a \in Tree /\ b \in Trees /\ a \in Trees
      /\ WellFormed(b) /\ WellFormed(a) /\ b # a
  BY <1>3, <1>4 DEF Tree, Trees
<1>6. Shape(b, a, Prepare(b, a))
  BY <1>5, PlanShape
<1>7. j = [before |-> b, after |-> a]
  BY <1>3, <1>4
<1> QED
  BY <1>2, <1>4, <1>5, <1>6, <1>7 DEF Fits

(* A reserved transaction has reached nothing.                              *)
LEMMA InitInv == Init => Inv
<1> SUFFICES ASSUME Init PROVE Inv
  OBVIOUS
<1> USE DEF Init
<1>1. Fits
  BY PlanFits
<1>2. Ready
  <2>1. <<>> \in Seq([source : {}, parent : {}, done : {}])
    OBVIOUS
  <2>2. Recorded
    BY <2>1 DEF Recorded
  <2>3. Domains
    BY DEF Domains, Nowhere
  <2>4. trouble \in [regions : SUBSET Regions, interrupts : Int, edits : Int]
    <3>1. trouble \in [regions : SUBSET Regions, interrupts : Nat, edits : Nat]
      BY ProtocolAssumption
    <3> QED
      BY <3>1
  <2> QED
    BY <1>1, <2>2, <2>3, <2>4 DEF Ready
<1>3. Count \in Nat /\ Count > 0
  BY <1>1, PlannedOperations
<1>4. CallInv
  BY <1>3 DEF CallInv, Control, Progress, Marking, ConflictHasCause
<1>5. Journaled
  BY DEF Journaled, Staged, Nowhere
<1>6. Placed
  <2>1. Extent = 0
    BY DEF Extent, Frontier, Pending
  <2>2. \A i \in 1..Count : InPlace(i)
    BY DEF InPlace, Within, Nowhere
  <2>3. \A p \in Path : host[p] = Ground(p)
    BY <1>1, RootWithin DEF Ground, Away, Nowhere
  <2>4. Reached(0)
    BY <2>2, <2>3 DEF Reached
  <2>5. ~Settled
    BY DEF Settled, Whole
  <2> QED
    BY <2>1, <2>4, <2>5 DEF Placed, Settled
<1> QED
  BY <1>2, <1>4, <1>5, <1>6 DEF Inv

(* In quiet circumstances every step keeps Journaled and Placed.            *)
LEMMA KeepsInv ==
  ASSUME Ready, CallInv, CallInv', Journaled, Placed, Quiet, Next
  PROVE  Journaled' /\ Placed'
<1>1. Kept
  BY StepKinds, CalmKeeps, StageKeeps, IntentKeeps, MutateKeeps, DoneKeeps, RemovalKeeps,
     RollbackKeeps, EditKeeps
<1> QED
  BY <1>1 DEF Kept

(* The invariant is inductive.                                              *)
LEMMA NextInv == Inv /\ [Next]_vars => Inv'
<1> SUFFICES ASSUME Inv, [Next]_vars PROVE Inv'
  OBVIOUS
<1>1. CASE Next
  <2>1. Ready /\ CallInv
    BY DEF Inv
  <2>2. Ready'
    BY <1>1, <2>1, ReadyStays
  <2>3. CallInv'
    <3>1. Count \in Nat /\ Count > 0 /\ Recorded /\ Recorded'
      BY <2>1, <2>2, PlannedOperations DEF Ready
    <3> QED
      BY <1>1, <2>1, <3>1, CommitterCall, RecoverCall DEF Next
  <2>4. ASSUME Quiet' PROVE Journaled' /\ Placed'
    <3>1. Quiet
      BY <1>1, <2>1, <2>4, QuietBefore
    <3> QED
      BY <1>1, <2>1, <2>3, <3>1, KeepsInv DEF Inv
  <2> QED
    BY <2>2, <2>3, <2>4 DEF Inv
<1>2. CASE UNCHANGED vars
  <2>1. /\ UNCHANGED <<plan, host, owner, stage, quarantine, entries, torn, journal>>
        /\ UNCHANGED <<state, lock, pc, phase, seen, rpc, cursor, found, report, touched, foreign, trouble>>
    BY <1>2 DEF vars, disk, commit, recovery, editor
  <2>2. Ready'
    BY <2>1 DEF Inv, Ready, Fits, Before, After, Domains, Recorded
  <2>3. CallInv'
    BY <2>1, PlanStays DEF Inv, CallInv, Control, Progress, Marking, ConflictHasCause
  <2>4. Frontier' = Frontier /\ Extent' = Extent /\ (Settled' <=> Settled) /\ (Quiet' <=> Quiet)
    BY <2>1 DEF Frontier, Pending, Extent, Settled, Whole, Quiet, Alone
  <2>5. Quiet => Placed'
    <3> SUFFICES ASSUME Quiet PROVE Placed'
      OBVIOUS
    <3>1. \A k : Reached(k) => Reached(k)'
      <4>1. \A i, p : InPlace(i)' = InPlace(i) /\ Aside(i)' = Aside(i) /\ Ground(p)' = Ground(p)
        BY <2>1, PlanStays DEF InPlace, Aside, Ground, Away
      <4> QED
        BY <2>1, <4>1, PlanStays DEF Reached
    <3>2. Exact => Exact'
      BY <2>1 DEF Exact, Bare, After
    <3> QED
      BY <2>1, <2>4, <3>1, <3>2 DEF Inv, Placed, Settled
  <2>6. Quiet => Journaled'
    <3> SUFFICES ASSUME Quiet PROVE Journaled'
      OBVIOUS
    <3>1. Staged'
      BY <2>1, <2>4, PlanStays DEF Inv, Journaled, Staged, Installs
    <3>2. \A i \in 1..Len(journal') : MadeRecord(i)'
      BY <2>1, PlanStays DEF Inv, Journaled, MadeRecord
    <3>3. pc = "operate" => Underway'
      BY <2>1, <2>4, PlanStays DEF Inv, Journaled, Underway
    <3> QED
      BY <2>1, <3>1, <3>2, <3>3 DEF Journaled
  <2> QED
    BY <2>2, <2>3, <2>4, <2>5, <2>6 DEF Inv
<1> QED
  BY <1>1, <1>2

(* The inductive invariant holds in every reachable state.                  *)
LEMMA SpecInv == Spec => []Inv
BY InitInv, NextInv, PTL DEF Spec

(* Recovery reports a conflict only where there is something to conflict    *)
(* with: a journal, a completion marker, or a stale record                  *)
(* (recover_transaction and rollback).  Whatever is edited, interrupted or  *)
(* retried, an attempt that never wrote its journal is not reported as a    *)
(* conflict.                                                                *)
THEOREM CommitConflictHasCause == Spec => []ConflictHasCause
<1>1. Inv => ConflictHasCause
  BY DEF Inv, CallInv
<1> QED
  BY <1>1, SpecInv, PTL

(* From the invariant to what the runs check.                               *)
LEMMA InvIsExact == Inv /\ Quiet => OutcomeExact
<1> SUFFICES ASSUME Inv, Quiet, NEW p \in Path \ touched
             PROVE  /\ state = "Committed" => Matches(host[p], After[p])
                    /\ state \in {"Failed", "Stale"} => host[p] = Base(p)
  BY DEF OutcomeExact
<1>1. Fits /\ Placed
  BY DEF Inv, Ready
<1>2. ASSUME state = "Committed" PROVE Matches(host[p], After[p])
  <2>1. Bare(host[p]) = After[p] /\ (host[p] = None <=> After[p] = None)
    BY <1>1, <1>2 DEF Placed, Exact
  <2> QED
    BY <2>1 DEF Matches, Bare
<1>3. ASSUME state \in {"Failed", "Stale"} PROVE host[p] = Base(p)
  <2>1. Extent = 0
    BY <1>3 DEF Extent
  <2>2. Reached(0)
    BY <1>1, <1>3, <2>1 DEF Placed
  <2> QED
    BY <1>1, <2>2, NothingReached
<1> QED
  BY <1>2, <1>3

(* Once the record says Committed the workspace holds the tree after, and   *)
(* once it says Failed or Stale the tree before, at every path nobody       *)
(* edited: for every plan, any number of crashes, failures and recoveries,  *)
(* and edits everywhere except between a check and its system call.         *)
THEOREM CommitOutcomeExact == Spec => [](Quiet => OutcomeExact)
BY InvIsExact, SpecInv, PTL

(* As the runs check it: without edits in that window.                      *)
COROLLARY CommitOutcomeExactChecked ==
  ASSUME ~RaceWindow
  PROVE  Spec => []OutcomeExact
<1>1. Inv => OutcomeExact
  BY InvIsExact DEF Quiet
<1> QED
  BY <1>1, SpecInv, PTL

(* A decision is not taken back. *)
Commits == Whole("marker") \/ state = "Committed"
Aborts == state \in {"Failed", "Stale"}

(* Neither the completion marker (or the Committed record) nor a Failed or  *)
(* Stale record is ever taken back.                                         *)
LEMMA DecisionStands ==
  ASSUME CallInv, Next
  PROVE  (Commits => Commits') /\ (Aborts => Aborts')
<1> USE DEF Return, EndRecovery, OnTo, InOperation, disk, recovery, editor, commit, CallInv,
        Control, Progress, Marking, Commits, Aborts, Whole
<1>1. CASE RefusePlan \/ Begin
  BY <1>1 DEF RefusePlan, Begin
<1>2. CASE CreateWorkspace \/ WritePlan \/ CreateJournal \/ WriteMarker
  BY <1>2 DEF CreateWorkspace, WritePlan, CreateJournal, WriteMarker, Write
<1>3. CASE StageContent \/ Revalidate \/ EnterCommitting
  BY <1>3 DEF StageContent, Revalidate, EnterCommitting
<1>4. CASE Intent \/ Check \/ Mutate \/ Verify \/ Done
  BY <1>4 DEF Intent, Check, Mutate, Verify, Done
<1>5. CASE ClearMarkers \/ VerifyFinal \/ Finish
  BY <1>5 DEF ClearMarkers, VerifyFinal, Finish
<1>6. CASE Resolve \/ CleanedUp
  BY <1>6 DEF Resolve, Resolution, CleanedUp
<1>7. CASE Cleanup \/ CleanRecovered
  BY <1>7 DEF Cleanup, CleanRecovered, RemoveEntry, Removed
<1>8. CASE StartRecovery \/ ReadWorkspace \/ Finalize \/ ReadStore \/ Rollback \/ Settle \/ EndClean
  BY <1>8 DEF StartRecovery, ReadWorkspace, Finalize, ReadStore, Rollback, Settle, EndClean
<1>9. CASE CreateWorkspaceFails \/ Crash \/ WriteTears \/ RecoveryInterrupted
  BY <1>9 DEF CreateWorkspaceFails, Crash, WriteTears, RecoveryInterrupted
<1>10. CASE StepFails
  BY <1>10 DEF StepFails
<1>11. ASSUME NEW p \in Path, Edit(p)
       PROVE  (Commits => Commits') /\ (Aborts => Aborts')
  BY <1>11 DEF Edit
<1> QED
  BY <1>1, <1>2, <1>3, <1>4, <1>5, <1>6, <1>7, <1>8, <1>9, <1>10, <1>11 DEF Next, Committer,
     Recover, Interruption

(* Whether anybody else edits the tree is a matter of the whole behaviour.  *)
LEMMA AloneStays ==
  ASSUME Ready, Next
  PROVE  Alone' <=> Alone
<1>1. CASE Calm
  BY <1>1, CalmIsStill DEF Ready, Still, Alone
<1>2. CASE StageContent \/ Intent \/ Mutate \/ Done \/ Cleanup \/ Rollback \/ CleanRecovered
  BY <1>2 DEF StageContent, Intent, Mutate, Done, Cleanup, Rollback, CleanRecovered, RemoveEntry,
     editor, Alone
<1>3. ASSUME NEW p \in Path, Edit(p)
      PROVE  Alone' <=> Alone
  BY <1>3 DEF Edit, Put, Alone
<1> QED
  BY <1>1, <1>2, <1>3, StepKinds

(* What is decided says what the whole workspace holds. *)
LEMMA DecidedTree ==
  ASSUME Inv, Alone
  PROVE  /\ Commits => Visible = After
         /\ Aborts => Visible = Before
         /\ ~(Commits /\ Aborts)
<1>1. Fits /\ Placed /\ CallInv /\ touched = {}
  BY DEF Inv, Ready, Quiet, Alone
<1>2. Before \in [Path -> Node \cup {None}] /\ After \in [Path -> Node \cup {None}]
  BY <1>1 DEF Fits, Trees
<1>3. ~(Commits /\ Aborts)
  BY <1>1 DEF Commits, Aborts, CallInv, Marking, Whole
<1>4. Visible = [p \in Path |-> Bare(host[p])]
  BY DEF Visible, Bare
<1>5. ASSUME Commits PROVE Visible = After
  <2>1. \A p \in Path : Bare(host[p]) = After[p]
    BY <1>1, <1>5 DEF Placed, Commits, Exact
  <2> QED
    BY <1>2, <1>4, <2>1
<1>6. ASSUME Aborts PROVE Visible = Before
  <2>1. Extent = 0 /\ state # "Committed"
    BY <1>6 DEF Aborts, Extent
  <2>2. Reached(0)
    BY <1>1, <2>1 DEF Placed
  <2>3. \A p \in Path : host[p] = Base(p)
    BY <1>1, <2>2, NothingReached
  <2>4. \A p \in Path : Bare(host[p]) = Before[p]
    BY <1>1, <2>3, PlannedNodes
  <2> QED
    BY <1>2, <1>4, <2>4
<1> QED
  BY <1>3, <1>5, <1>6

(* What the refinement needs to know of an outcome. *)
OutcomeSays ==
  /\ Outcome = "committed" <=> Alone /\ Commits
  /\ Outcome = "aborted" <=> Alone /\ Aborts
  /\ Outcome \in {"committed", "aborted", "undecided"}
  /\ Outcome = "committed" => Visible = After
  /\ Outcome = "aborted" => Visible = Before

(* What is decided is what the workspace holds.                             *)
LEMMA OutcomeIs ==
  ASSUME Inv
  PROVE  OutcomeSays
<1>1. CASE ~Alone
  BY <1>1 DEF Outcome, OutcomeSays
<1>2. CASE Alone
  <2>1. ~(Commits /\ Aborts)
    BY <1>2, DecidedTree
  <2>2. Outcome = IF Commits THEN "committed" ELSE IF Aborts THEN "aborted" ELSE "undecided"
    BY <1>2, <2>1 DEF Outcome, Decided, Commits, Aborts
  <2> QED
    BY <1>2, <2>1, <2>2, DecidedTree DEF OutcomeSays
<1> QED
  BY <1>1, <1>2

(* A decided outcome stays, and with it the visible tree.                   *)
LEMMA OutcomeStands ==
  ASSUME Inv, OutcomeSays, OutcomeSays', [Next]_vars
  PROVE  /\ plan' = plan
         /\ Outcome # "undecided" => Outcome' = Outcome /\ Visible' = Visible
<1>1. CASE Next
  <2>1. plan' = plan
    BY <1>1, PlanNeverChanges
  <2>2. Before' = Before /\ After' = After
    BY <2>1 DEF Before, After
  <2>3. (Alone' <=> Alone) /\ (Commits => Commits') /\ (Aborts => Aborts')
    BY <1>1, AloneStays, DecisionStands DEF Inv
  <2>4. CASE Outcome = "committed"
    <3>1. Alone /\ Commits /\ Visible = After
      BY <2>4 DEF OutcomeSays
    <3>2. Outcome' = "committed"
      BY <2>3, <3>1 DEF OutcomeSays
    <3>3. Visible' = After'
      BY <3>2 DEF OutcomeSays
    <3> QED
      BY <2>1, <2>2, <2>4, <3>1, <3>2, <3>3
  <2>5. CASE Outcome = "aborted"
    <3>1. Alone /\ Aborts /\ Visible = Before
      BY <2>5 DEF OutcomeSays
    <3>2. Outcome' = "aborted"
      BY <2>3, <3>1 DEF OutcomeSays
    <3>3. Visible' = Before'
      BY <3>2 DEF OutcomeSays
    <3> QED
      BY <2>1, <2>2, <2>5, <3>1, <3>2, <3>3
  <2> QED
    BY <2>1, <2>4, <2>5 DEF OutcomeSays
<1>2. CASE UNCHANGED vars
  BY <1>2 DEF vars, disk, commit, recovery, editor, Outcome, Alone, Decided, Whole, Visible
<1> QED
  BY <1>1, <1>2

(* The protocol implements AtomicCommit: while nobody else edits the tree,  *)
(* a commit with all its crashes, failures and recoveries decides once, and *)
(* from then on the whole workspace is the approved tree or the original    *)
(* one.                                                                     *)
THEOREM CommitIsAtomic == Spec => Implements
<1>1. Init => Abstract!Init
  <2> SUFFICES ASSUME Init PROVE Abstract!Init
    OBVIOUS
  <2>1. [before |-> Before, after |-> After] \in Jobs
    BY PlanFits DEF Init
  <2>2. Outcome = "undecided"
    BY InitInv, OutcomeIs DEF Init, Commits, Aborts, Whole, OutcomeSays
  <2> QED
    BY <2>1, <2>2 DEF Abstract!Init
<1>2. Inv => OutcomeSays
  BY OutcomeIs
<1>3. Inv /\ OutcomeSays /\ OutcomeSays' /\ [Next]_vars
        => [Abstract!Next]_<<[before |-> Before, after |-> After], Outcome,
                             IF Outcome = "undecided" THEN None ELSE Visible>>
  <2> SUFFICES ASSUME Inv, OutcomeSays, OutcomeSays', [Next]_vars
               PROVE  [Abstract!Next]_<<[before |-> Before, after |-> After], Outcome,
                                        IF Outcome = "undecided" THEN None ELSE Visible>>
    OBVIOUS
  <2>1. plan' = plan /\ (Outcome # "undecided" => Outcome' = Outcome /\ Visible' = Visible)
    BY OutcomeStands
  <2>2. Before' = Before /\ After' = After
    BY <2>1 DEF Before, After
  <2>3. /\ Outcome' \in {"committed", "aborted", "undecided"}
        /\ Outcome' = "committed" => Visible' = After
        /\ Outcome' = "aborted" => Visible' = Before
    BY <2>2 DEF OutcomeSays
  <2>4. CASE Outcome # "undecided" \/ Outcome' = "undecided"
    BY <2>1, <2>2, <2>4
  <2>5. CASE Outcome = "undecided" /\ Outcome' = "committed"
    BY <2>2, <2>3, <2>5 DEF Abstract!Next, Abstract!Decide
  <2>6. CASE Outcome = "undecided" /\ Outcome' = "aborted"
    BY <2>2, <2>3, <2>6 DEF Abstract!Next, Abstract!Decide
  <2> QED
    BY <2>3, <2>4, <2>5, <2>6
<1> QED
  BY <1>1, <1>2, <1>3, SpecInv, PTL DEF Spec, Implements, Abstract!Spec

-----------------------------------------------------------------------------
(* The other program's work.                                                *)

NodesTyped ==
  /\ host \in [Path -> HostNode \cup {None}] /\ quarantine \in [Path -> HostNode \cup {None}]
  /\ DOMAIN foreign = Path

(* A quarantined subtree, too, hangs together.                              *)
AsideWellFormed ==
  \A i \in 1..Count : IsQuarantine(i) =>
    \A x \in Within(Root(i)) \ {Root(i)} : quarantine[x] # None => IsDir(quarantine, Front(x))

(* The editor's latest node at a path is still there.                       *)
UserNodesStand ==
  \A p \in Path : foreign[p] # None =>
    /\ foreign[p].data = Editor
    /\ host[p] # None /\ host[p].kind # "dir" /\ host[p].data = Editor /\ host[p].id = foreign[p].id

(* Before revalidation, what is new shows in the directory above it.        *)
Preparing == pc \in {"reserved", "workspace", "plan", "journal", "stage", "revalidate"}
NewcomersShow ==
  /\ \A p \in Path : IsDir(host, p) => IsDir(Before, p)
  /\ \A p \in Path : Len(p) > 1 /\ Before[p] = None /\ host[p] # None => host[Front(p)].data = Editor

(* The paths operation i takes without looking at what is there.            *)
Sweeps(i, x) ==
  \/ Operation(i).op = "InstallSymlink" /\ Root(i) = x
  \/ IsQuarantine(i) /\ x \in Within(Root(i)) \ {Root(i)}

Clear == \A i \in 1..Count : i > Frontier => \A x \in Path : Sweeps(i, x) => foreign[x] = None

(* Between its check and its system call an operation keeps its parent.     *)
ParentStands == phase = "mutate" /\ Len(Current.path) > 1 => IsDir(host, Front(Current.path))

WorkInv ==
  /\ NodesTyped /\ WellFormed(host) /\ AsideWellFormed /\ UserNodesStand
  /\ Preparing => NewcomersShow
  /\ pc \in {"enter", "operate"} => Clear
  /\ pc = "operate" => ParentStands


(* A path strictly within a subtree has its parent in the subtree, and what *)
(* has its parent there is there itself.                                    *)
LEMMA ParentWithin ==
  ASSUME NEW p \in Path, NEW x \in Path
  PROVE  /\ x \in Within(p) /\ x # p => Len(x) > 1 /\ Front(x) \in Within(p)
         /\ Len(x) > 1 /\ Front(x) \in Within(p) => x \in Within(p)
<1>1. ASSUME x \in Within(p), x # p
      PROVE  Len(x) > 1 /\ Front(x) \in Within(p)
  <2>1. IsPrefix(p, x) /\ IsStrictPrefix(p, x)
    BY <1>1 DEF Within, IsStrictPrefix
  <2>2. /\ Len(p) < Len(x) /\ Len(p) \in Nat /\ Len(p) > 0 /\ Len(x) \in Nat
        /\ \A i \in 1..Len(p) : p[i] = x[i]
    BY <2>1, PrefixIs, DepthIsNatural
  <2>3. Len(x) > 1
    BY <2>2
  <2> DEFINE f == Front(x)
  <2>4. f \in Path /\ Len(f) = Len(x) - 1 /\ \A i \in 1..(Len(x) - 1) : f[i] = x[i]
    BY <2>3, FrontIs
  <2> HIDE DEF f
  <2>5. Len(p) <= Len(f) /\ \A i \in 1..Len(p) : p[i] = f[i]
    BY <2>2, <2>4
  <2>6. IsPrefix(p, f)
    BY <2>4, <2>5, PrefixIs
  <2> QED
    BY <2>3, <2>4, <2>6 DEF Within, f
<1>2. ASSUME Len(x) > 1, Front(x) \in Within(p)
      PROVE  x \in Within(p)
  <2> DEFINE f == Front(x)
  <2>1. f \in Path /\ IsPrefix(p, f) /\ IsPrefix(f, x)
    BY <1>2, FrontIsAbove DEF Within, IsStrictPrefix
  <2> HIDE DEF f
  <2>2. IsPrefix(p, x)
    BY <2>1, PrefixTransitive
  <2> QED
    BY <2>2 DEF Within
<1> QED
  BY <1>1, <1>2

(* What the transaction knows of carries data of its own, the tree before   *)
(* and the tree after as well as the nodes made of them.                    *)
LEMMA PlannedNodesTyped ==
  ASSUME Fits, NEW p \in Path
  PROVE  /\ Base(p) \in HostNode \cup {None} /\ New(p) \in HostNode \cup {None}
         /\ Base(p) # None => Base(p).data # Editor
         /\ After[p] # None => After[p].data # Editor /\ After[p].mode \in Modes
         /\ Before[p] # None => Before[p].mode \in Modes
<1>1. Before[p] \in Node \cup {None} /\ After[p] \in Node \cup {None}
  BY DEF Fits, Trees
<1>2. \A n \in Node : /\ n.data # Editor /\ n.mode \in Modes
                      /\ \A id \in Nat : [kind |-> n.kind, data |-> n.data, mode |-> n.mode, id |-> id] \in HostNode
  BY DEF Node, HostNode, Editor, Contents
<1>3. Original \in Nat /\ Made \in Nat
  BY DEF Original, Made
<1>4. Base(p) \in HostNode \cup {None} /\ New(p) \in HostNode \cup {None}
  BY <1>1, <1>2, <1>3 DEF Base, New, WithId
<1> QED
  BY <1>1, <1>2, <1>4, PlannedNodes

Placement == NodesTyped /\ WellFormed(host) /\ AsideWellFormed /\ UserNodesStand

(* A node put where no directory is, into a directory.                      *)
LEMMA PutKeeps ==
  ASSUME Placement, NEW p \in Path, NEW n \in HostNode, ~IsDir(host, p), foreign[p] = None,
         Len(p) > 1 => IsDir(host, Front(p)), host' = [host EXCEPT ![p] = n],
         UNCHANGED <<plan, quarantine, foreign>>
  PROVE  Placement'
<1>1. /\ host'[p] = n /\ \A x \in Path : x # p => host'[x] = host[x]
      /\ host' \in [Path -> HostNode \cup {None}]
  BY DEF Placement, NodesTyped
<1>2. NodesTyped' /\ AsideWellFormed'
  BY <1>1, PlanStays DEF Placement, NodesTyped, AsideWellFormed
<1>3. WellFormed(host')
  <2> SUFFICES ASSUME NEW x \in Path, Len(x) > 1, Present(host', x)
               PROVE  IsDir(host', Front(x))
    BY DEF WellFormed
  <2>1. IsDir(host, Front(x))
    BY <1>1 DEF Placement, WellFormed, Present
  <2>2. Front(x) # p /\ Front(x) \in Path
    BY <2>1, FrontIs
  <2> QED
    BY <1>1, <2>1, <2>2 DEF IsDir, IsKind
<1>4. UserNodesStand'
  BY <1>1 DEF Placement, UserNodesStand
<1> QED
  BY <1>2, <1>3, <1>4 DEF Placement

(* A node without entries taken out.                                        *)
LEMMA TakeKeeps ==
  ASSUME Placement, NEW p \in Path, foreign[p] = None,
         \A x \in Path : Len(x) > 1 /\ Front(x) = p => host[x] = None,
         host' = [host EXCEPT ![p] = None], UNCHANGED <<plan, quarantine, foreign>>
  PROVE  Placement'
<1>1. /\ host'[p] = None /\ \A x \in Path : x # p => host'[x] = host[x]
      /\ host' \in [Path -> HostNode \cup {None}]
  BY DEF Placement, NodesTyped
<1>2. NodesTyped' /\ AsideWellFormed'
  BY <1>1, PlanStays DEF Placement, NodesTyped, AsideWellFormed
<1>3. WellFormed(host')
  <2> SUFFICES ASSUME NEW x \in Path, Len(x) > 1, Present(host', x)
               PROVE  IsDir(host', Front(x))
    BY DEF WellFormed
  <2>1. host[x] # None
    BY <1>1 DEF Present
  <2>2. IsDir(host, Front(x)) /\ Front(x) \in Path /\ Front(x) # p
    BY <2>1, FrontIs DEF Placement, WellFormed, Present
  <2> QED
    BY <1>1, <2>2 DEF IsDir, IsKind
<1>4. UserNodesStand'
  BY <1>1 DEF Placement, UserNodesStand
<1> QED
  BY <1>2, <1>3, <1>4 DEF Placement

(* A change of mode.                                                        *)
LEMMA ModeKeeps ==
  ASSUME Placement, NEW p \in Path, NEW m \in Modes, host[p] # None,
         host' = [host EXCEPT ![p].mode = m], UNCHANGED <<plan, quarantine, foreign>>
  PROVE  Placement'
<1>1. PICK n : n = host[p]
  OBVIOUS
<1>2. n \in HostNode
  BY <1>1 DEF Placement, NodesTyped
<1>3. PICK k : k = [n EXCEPT !.mode = m]
  OBVIOUS
<1>4. k \in HostNode /\ k.kind = n.kind /\ k.data = n.data /\ k.id = n.id
  BY <1>2, <1>3 DEF HostNode
<1>5. k # None /\ n # None
  BY <1>2, <1>4, ProtocolAssumption
<1>6. host' = [host EXCEPT ![p] = k]
  BY <1>1, <1>3
<1>7. /\ host'[p] = k /\ \A x \in Path : x # p => host'[x] = host[x]
      /\ host' \in [Path -> HostNode \cup {None}]
  BY <1>4, <1>6 DEF Placement, NodesTyped
<1>8. \A x \in Path : /\ IsDir(host', x) <=> IsDir(host, x)
                      /\ host'[x] = None <=> host[x] = None
                      /\ host[x] # None => host'[x].kind = host[x].kind /\ host'[x].data = host[x].data
                                           /\ host'[x].id = host[x].id
  BY <1>1, <1>4, <1>5, <1>7 DEF IsDir, IsKind
<1>9. WellFormed(host')
  BY <1>8, FrontIs DEF Placement, WellFormed, Present
<1>10. NodesTyped' /\ AsideWellFormed'
  BY <1>7, PlanStays DEF Placement, NodesTyped, AsideWellFormed
<1>11. UserNodesStand'
  BY <1>8 DEF Placement, UserNodesStand
<1> QED
  BY <1>9, <1>10, <1>11 DEF Placement

(* A subtree set aside that holds nothing of the editor's.                  *)
LEMMA SetAsideKeeps ==
  ASSUME Fits, Placement, NEW c \in 1..Count, IsQuarantine(c), NEW p, p = Root(c),
         \A x \in Within(p) : foreign[x] = None,
         quarantine' = Moved(host, quarantine, p), host' = Without(host, p),
         UNCHANGED <<plan, foreign>>
  PROVE  Placement'
<1>0. p \in Path
  BY RootWithin
<1>1. \A x \in Path : host'[x] = IF x \in Within(p) THEN None ELSE host[x]
  BY DEF Without
<1>2. \A x \in Path : quarantine'[x] = IF x \in Within(p) THEN host[x] ELSE quarantine[x]
  BY DEF Moved
<1>3. NodesTyped'
  BY DEF Placement, NodesTyped, Without, Moved
<1>4. WellFormed(host')
  <2> SUFFICES ASSUME NEW x \in Path, Len(x) > 1, Present(host', x)
               PROVE  IsDir(host', Front(x))
    BY DEF WellFormed
  <2>1. x \notin Within(p) /\ Present(host, x)
    BY <1>1 DEF Present
  <2>2. Front(x) \in Path /\ Front(x) \notin Within(p) /\ IsDir(host, Front(x))
    BY <1>0, <2>1, FrontIs, ParentWithin DEF Placement, WellFormed
  <2> QED
    BY <1>1, <2>2 DEF IsDir, IsKind
<1>5. AsideWellFormed'
  <2> SUFFICES ASSUME NEW i \in 1..Count, IsQuarantine(i), NEW x \in Within(Root(i)), x # Root(i),
                      quarantine'[x] # None
               PROVE  IsDir(quarantine', Front(x))
    BY PlanStays DEF AsideWellFormed
  <2>1. x \in Path /\ Root(i) \in Path
    BY RootWithin DEF Within
  <2>2. Len(x) > 1 /\ Front(x) \in Within(Root(i)) /\ Front(x) \in Path
    BY <2>1, ParentWithin, FrontIs
  <2>3. CASE i = c
    <3>1. x \in Within(p) /\ Front(x) \in Within(p) /\ host[x] # None
      BY <1>2, <2>1, <2>2, <2>3
    <3>2. IsDir(host, Front(x))
      BY <2>1, <2>2, <3>1 DEF Placement, WellFormed, Present
    <3> QED
      BY <1>2, <2>2, <3>1, <3>2 DEF IsDir, IsKind
  <2>4. CASE i # c
    <3>1. Within(Root(i)) \cap Within(p) = {}
      BY <2>4, PlannedOperations
    <3>2. x \notin Within(p) /\ Front(x) \notin Within(p)
      BY <2>2, <3>1
    <3>3. IsDir(quarantine, Front(x))
      BY <1>2, <2>1, <3>2 DEF Placement, AsideWellFormed
    <3> QED
      BY <1>2, <2>2, <3>2, <3>3 DEF IsDir, IsKind
  <2> QED
    BY <2>3, <2>4
<1>6. UserNodesStand'
  BY <1>1 DEF Placement, UserNodesStand
<1> QED
  BY <1>3, <1>4, <1>5, <1>6 DEF Placement

(* A subtree put back where nothing is.                                     *)
LEMMA PutBackKeeps ==
  ASSUME Fits, Placement, NEW c \in 1..Count, IsQuarantine(c), NEW p, p = Root(c),
         host[p] = None, Len(p) > 1 => IsDir(host, Front(p)),
         host' = Moved(quarantine, host, p), quarantine' = Without(quarantine, p),
         UNCHANGED <<plan, foreign>>
  PROVE  Placement'
<1>0. p \in Path
  BY RootWithin
<1>1. \A x \in Path : host'[x] = IF x \in Within(p) THEN quarantine[x] ELSE host[x]
  BY DEF Moved
<1>2. \A x \in Path : quarantine'[x] = IF x \in Within(p) THEN None ELSE quarantine[x]
  BY DEF Without
<1>3. NodesTyped'
  BY DEF Placement, NodesTyped, Without, Moved
<1>4. WellFormed(host')
  <2> SUFFICES ASSUME NEW x \in Path, Len(x) > 1, Present(host', x)
               PROVE  IsDir(host', Front(x))
    BY DEF WellFormed
  <2>0. Front(x) \in Path
    BY FrontIs
  <2>1. CASE x \in Within(p) /\ x # p
    <3>1. Front(x) \in Within(p)
      BY <1>0, <2>1, ParentWithin
    <3>2. quarantine[x] # None
      BY <1>1, <2>1 DEF Present
    <3>3. IsDir(quarantine, Front(x))
      BY <2>1, <3>2 DEF Placement, AsideWellFormed
    <3> QED
      BY <1>1, <2>0, <3>1, <3>3 DEF IsDir, IsKind
  <2>2. CASE x = p
    <3>1. ~IsPrefix(p, Front(p))
      BY <1>0, <2>0, <2>2, FrontIs, PrefixIs, DepthIsNatural
    <3> QED
      BY <1>1, <2>0, <2>2, <3>1 DEF IsDir, IsKind, Within
  <2>3. CASE x \notin Within(p)
    <3>1. IsDir(host, Front(x))
      BY <1>1, <2>3 DEF Placement, WellFormed, Present
    <3>2. Front(x) \notin Within(p)
      BY <1>0, <2>3, ParentWithin
    <3> QED
      BY <1>1, <2>0, <3>1, <3>2 DEF IsDir, IsKind
  <2> QED
    BY <2>1, <2>2, <2>3
<1>5. AsideWellFormed'
  <2> SUFFICES ASSUME NEW i \in 1..Count, IsQuarantine(i), NEW x \in Within(Root(i)), x # Root(i),
                      quarantine'[x] # None
               PROVE  IsDir(quarantine', Front(x))
    BY PlanStays DEF AsideWellFormed
  <2>1. x \in Path /\ Root(i) \in Path
    BY RootWithin DEF Within
  <2>2. Len(x) > 1 /\ Front(x) \in Within(Root(i)) /\ Front(x) \in Path
    BY <2>1, ParentWithin, FrontIs
  <2>3. i # c
    BY <1>2, <2>1
  <2>4. Within(Root(i)) \cap Within(p) = {}
    BY <2>3, PlannedOperations
  <2>5. Front(x) \notin Within(p) /\ x \notin Within(p)
    BY <2>2, <2>4
  <2>6. IsDir(quarantine, Front(x))
    BY <1>2, <2>1, <2>5 DEF Placement, AsideWellFormed
  <2> QED
    BY <1>2, <2>2, <2>5, <2>6 DEF IsDir, IsKind
<1>6. \A x \in Within(p) : foreign[x] = None
  <2> SUFFICES ASSUME NEW x \in Within(p), foreign[x] # None PROVE FALSE
    OBVIOUS
  <2>1. x \in Path /\ IsPrefix(p, x) /\ host[x] # None
    BY DEF Within, Placement, UserNodesStand
  <2>2. IsStrictPrefix(p, x)
    BY <2>1 DEF IsStrictPrefix
  <2>3. IsDir(host, p)
    BY <1>0, <2>1, <2>2, AncestorsAreDirectories DEF Placement, Present
  <2> QED
    BY <2>3 DEF IsDir, IsKind
<1>7. UserNodesStand'
  BY <1>1, <1>6 DEF Placement, UserNodesStand
<1> QED
  BY <1>3, <1>4, <1>5, <1>7 DEF Placement


(* The paths an operation sweeps are as the transaction saw them, once they *)
(* were revalidated.                                                        *)
LEMMA RevalidatedIsClear ==
  ASSUME Fits, Placement, NewcomersShow, \A p \in Dependencies : host[p] = Base(p)
  PROVE  Clear
<1> SUFFICES ASSUME NEW i \in 1..Count, NEW x \in Path, Sweeps(i, x), foreign[x] # None
             PROVE  FALSE
  BY DEF Clear
<1>1. host[x] # None /\ host[x].data = Editor
  BY DEF Placement, UserNodesStand
<1>2. \A p \in Changed(Before, After) : p \in Path /\ host[p] = Base(p) /\ (host[p] # None => host[p].data # Editor)
  BY PlannedNodesTyped DEF Dependencies, Changed
<1>3. x \notin Changed(Before, After)
  BY <1>1, <1>2
<1>4. Operation(i).op = "InstallSymlink" => Root(i) \in Changed(Before, After)
  BY PlannedOperations DEF Suits, Root
<1>5. IsQuarantine(i) /\ x \in Within(Root(i)) /\ x # Root(i)
  BY <1>3, <1>4 DEF Sweeps
<1>6. Before[x] = None
  BY <1>3, <1>5, PlannedSubtrees, PlannedNodes
<1>7. Len(x) > 1 /\ Front(x) \in Within(Root(i)) /\ Front(x) \in Path
  BY <1>5, RootWithin, ParentWithin, FrontIs
<1>8. IsDir(Before, Front(x)) /\ host[Front(x)].data = Editor /\ host[Front(x)] # None
  BY <1>1, <1>6, <1>7 DEF NewcomersShow, Placement, WellFormed, Present, IsDir, IsKind
<1>9. Front(x) \in Changed(Before, After)
  BY <1>5, <1>7, <1>8, PlannedSubtrees, PlannedNodes DEF IsDir, IsKind
<1> QED
  BY <1>2, <1>8, <1>9

(* Nothing but the quarantine is given up.                                  *)
LEMMA PlacementSame ==
  ASSUME Placement, UNCHANGED <<plan, host, foreign>>,
         quarantine' = quarantine \/ quarantine' = Nowhere
  PROVE  Placement'
<1>1. \A x \in Path : Nowhere[x] = None
  BY DEF Nowhere
<1>2. NodesTyped'
  BY DEF Placement, NodesTyped, Nowhere
<1>3. AsideWellFormed'
  BY <1>1, PlanStays DEF Placement, AsideWellFormed, Within, IsDir, IsKind
<1> QED
  BY <1>2, <1>3 DEF Placement, WellFormed, Present, IsDir, IsKind, UserNodesStand

(* Where the call is after the step matters only for what it still needs.   *)
Needs ==
  /\ Preparing' => Preparing
  /\ pc' \in {"enter", "operate"} => Clear'
  /\ pc' = "operate" => ParentStands'

(* A step that leaves the nodes where they are keeps the invariant.         *)
LEMMA WorkSame ==
  ASSUME WorkInv, UNCHANGED <<plan, host, foreign>>,
         quarantine' = quarantine \/ quarantine' = Nowhere, Needs
  PROVE  WorkInv'
<1>1. Placement'
  BY PlacementSame DEF WorkInv, Placement
<1>2. Preparing' => NewcomersShow'
  BY DEF WorkInv, Needs, NewcomersShow, Before, IsDir, IsKind
<1> QED
  BY <1>1, <1>2 DEF WorkInv, Placement, Needs

(* Fewer operations are to come.                                            *)
LEMMA ClearStays ==
  ASSUME Clear, UNCHANGED <<plan, foreign>>, Count \in Nat, Frontier \in Int, Frontier' \in Int,
         Frontier <= Frontier'
  PROVE  Clear'
<1>1. \A i \in 1..Count : i > Frontier' => i > Frontier
  OBVIOUS
<1>2. \A i, x : Sweeps(i, x)' <=> Sweeps(i, x)
  BY PlanStays DEF Sweeps
<1> QED
  BY <1>1, <1>2, PlanStays DEF Clear

(* A calm step moves no file of the editor's, and after revalidation there  *)
(* is none where an operation is to come.                                   *)
LEMMA CalmWork ==
  ASSUME Ready, CallInv, WorkInv, Calm
  PROVE  WorkInv'
<1>0. /\ UNCHANGED <<plan, host, quarantine, journal>>
      /\ Len(journal) \in Nat /\ Count \in Nat
  BY CalmIsStill, PlannedOperations DEF Ready, Recorded, Still
<1>1. UNCHANGED foreign
  BY DEF disk, commit, recovery, editor, Write, Calm, RefusePlan, Begin, CreateWorkspace, WritePlan,
     CreateJournal, Revalidate, EnterCommitting, Check, Verify, ClearMarkers, VerifyFinal,
     WriteMarker, Finish, Resolve, CleanedUp, StartRecovery, ReadWorkspace, Finalize, ReadStore,
     Settle, EndClean, Interruption, CreateWorkspaceFails, StepFails, Crash, WriteTears,
     RecoveryInterrupted
<1>2. CASE Revalidate
  <2>1. /\ phase = "intent" /\ phase' = phase /\ pc = "revalidate" /\ pc' \in {"enter", "resolve"}
        /\ pc' = "enter" => \A p \in Dependencies : host[p] = Base(p)
    BY <1>2 DEF Revalidate, CallInv, Control
  <2>2. pc' = "enter" => Clear'
    <3> SUFFICES ASSUME pc' = "enter" PROVE Clear'
      OBVIOUS
    <3>1. Clear
      BY <2>1, RevalidatedIsClear DEF Ready, WorkInv, Placement, Preparing
    <3>2. Frontier = Len(journal) /\ Frontier' = Len(journal)
      BY <1>0, <2>1 DEF Frontier, Pending
    <3> QED
      BY <1>0, <1>1, <3>1, <3>2, ClearStays
  <2>3. Needs
    BY <2>1, <2>2 DEF Needs, Preparing
  <2> QED
    BY <1>0, <1>1, <2>3, WorkSame
<1>3. CASE Check
  <2>1. /\ pc = "operate" /\ phase = "check"
        /\ \/ pc' = "resolve"
           \/ pc' = "operate" /\ phase' = "mutate" /\ ParentHeld(Current.path, Last(journal).parent)
    BY <1>3 DEF Check, InOperation, GoOn, Refuse
  <2>2. pc' = "operate" => ParentStands'
    BY <1>0, <2>1, PlanStays DEF ParentStands, ParentHeld, Parent, Current, IsDir, IsKind
  <2>3. pc' = "operate" => Clear'
    <3> SUFFICES ASSUME pc' = "operate" PROVE Clear'
      OBVIOUS
    <3>1. Frontier = Len(journal) - 1 /\ Frontier' = Len(journal) - 1
      BY <1>0, <2>1 DEF Frontier, Pending
    <3> QED
      BY <1>0, <1>1, <2>1, <3>1, ClearStays DEF WorkInv
  <2>4. Needs
    BY <2>1, <2>2, <2>3 DEF Needs, Preparing
  <2> QED
    BY <1>0, <1>1, <2>4, WorkSame
<1>4. CASE ~Revalidate /\ ~Check
  <2>1. /\ Preparing' => Preparing
        /\ pc' = "enter" => pc = "enter"
        /\ pc' = "operate" => pc \in {"enter", "operate"} /\ phase' # "mutate"
        /\ pc' \in {"enter", "operate"} => Frontier' \in Int /\ Frontier \in Int /\ Frontier <= Frontier'
    <3> USE DEF Return, EndRecovery, OnTo, Interrupted, disk, recovery, editor, commit, CallInv,
        Control, Progress, Marking, Frontier, Pending, Preparing
    <3>1. CASE RefusePlan \/ Begin
      BY <1>0, <3>1 DEF RefusePlan, Begin
    <3>2. CASE CreateWorkspace \/ WritePlan \/ CreateJournal \/ WriteMarker
      BY <1>0, <3>2 DEF CreateWorkspace, WritePlan, CreateJournal, WriteMarker, Write
    <3>3. CASE EnterCommitting
      BY <1>0, <3>3 DEF EnterCommitting
    <3>4. CASE Verify
      BY <1>0, <3>4 DEF Verify, InOperation, GoOn, Refuse
    <3>5. CASE ClearMarkers \/ VerifyFinal \/ Finish
      BY <1>0, <3>5 DEF ClearMarkers, VerifyFinal, Finish, InOperation
    <3>6. CASE Resolve \/ CleanedUp
      BY <1>0, <3>6 DEF Resolve, Resolution, CleanedUp
    <3>7. CASE StartRecovery \/ ReadWorkspace \/ Finalize \/ ReadStore \/ Settle \/ EndClean
      BY <1>0, <3>7 DEF StartRecovery, ReadWorkspace, Finalize, ReadStore, Settle, EndClean
    <3>8. CASE CreateWorkspaceFails \/ Crash \/ WriteTears \/ RecoveryInterrupted
      BY <1>0, <3>8 DEF CreateWorkspaceFails, Crash, WriteTears, RecoveryInterrupted
    <3>9. CASE StepFails
      BY <1>0, <3>9 DEF StepFails
    <3> QED
      BY <1>4, <3>1, <3>2, <3>3, <3>4, <3>5, <3>6, <3>7, <3>8, <3>9 DEF Calm, Interruption
  <2>2. pc' \in {"enter", "operate"} => Clear'
    BY <1>0, <1>1, <2>1, ClearStays DEF WorkInv
  <2>3. Needs
    BY <2>1, <2>2 DEF Needs, ParentStands
  <2> QED
    BY <1>0, <1>1, <2>3, WorkSame
<1> QED
  BY <1>2, <1>3, <1>4

(* Neither does one that writes the stage or the journal or removes an      *)
(* entry of the transaction directory.                                      *)
LEMMA PaperWork ==
  ASSUME Ready, CallInv, WorkInv,
         StageContent \/ Intent \/ Done \/ Cleanup \/ CleanRecovered
  PROVE  WorkInv'
<1>0. Len(journal) \in Nat /\ Count \in Nat
  BY PlannedOperations DEF Ready, Recorded
<1>1. CASE StageContent
  <2>1. Needs
    BY <1>1 DEF StageContent, Needs, Preparing
  <2> QED
    BY <1>1, <2>1, WorkSame DEF StageContent, editor
<1>2. CASE Intent
  <2>1. /\ pc = "operate" /\ phase = "intent" /\ UNCHANGED <<plan, host, quarantine, foreign>>
        /\ \/ pc' = "resolve"
           \/ /\ pc' = "operate" /\ phase' = "check"
              /\ \E s, q : journal' = Append(journal, [source |-> s, parent |-> q, done |-> None])
    BY <1>2 DEF Intent, InOperation, GoOn, Refuse, editor
  <2>2. pc' = "operate" => Clear'
    <3> SUFFICES ASSUME pc' = "operate" PROVE Clear'
      OBVIOUS
    <3>1. PICK s, q : journal' = Append(journal, [source |-> s, parent |-> q, done |-> None])
      BY <2>1
    <3>2. Len(journal') = Len(journal) + 1
      BY <3>1, JournalGrows DEF Ready
    <3>3. Frontier = Len(journal) /\ Frontier' = Len(journal)
      BY <1>0, <2>1, <3>2 DEF Frontier, Pending
    <3> QED
      BY <1>0, <2>1, <3>3, ClearStays DEF WorkInv
  <2>3. Needs
    BY <2>1, <2>2 DEF Needs, Preparing, ParentStands
  <2> QED
    BY <2>1, <2>3, WorkSame
<1>3. CASE Done
  <2>1. /\ pc = "operate" /\ phase = "done" /\ pc' = pc /\ phase' = "intent"
        /\ UNCHANGED <<plan, host, quarantine, foreign>>
        /\ journal' = [journal EXCEPT ![Len(journal)].done = seen]
    BY <1>3 DEF Done, InOperation, GoOn, editor
  <2>2. Len(journal') = Len(journal)
    <3>1. PICK T : journal \in Seq([source : T, parent : T, done : T])
      BY DEF Ready, Recorded
    <3>2. Len(journal) > 0
      BY <2>1, <3>1 DEF CallInv, Progress
    <3> QED
      BY <2>1, <3>2, JournalCompletes DEF Ready
  <2>3. Frontier = Len(journal) /\ Frontier' = Len(journal)
    BY <1>0, <2>1, <2>2 DEF Frontier, Pending
  <2>4. Clear'
    BY <1>0, <2>1, <2>3, ClearStays DEF WorkInv
  <2>5. Needs
    BY <2>1, <2>4 DEF Needs, Preparing, ParentStands
  <2> QED
    BY <2>1, <2>5, WorkSame
<1>4. CASE Cleanup \/ CleanRecovered
  <2>1. /\ UNCHANGED <<plan, host, foreign, pc>>
        /\ quarantine' = quarantine \/ quarantine' = Nowhere
    BY <1>4 DEF Cleanup, CleanRecovered, RemoveEntry, Removed, editor
  <2>2. pc \in {"cleanup", "done"}
    BY <1>4 DEF Cleanup, CleanRecovered, CallInv, Control
  <2>3. Needs
    BY <2>1, <2>2 DEF Needs, Preparing
  <2> QED
    BY <2>1, <2>3, WorkSame
<1> QED
  BY <1>1, <1>2, <1>3, <1>4


(* No system call of an operation meets a file of the editor's: it was      *)
(* checked, it has to be absent, or nothing changed since revalidation.     *)
LEMMA MutateWork ==
  ASSUME Ready, CallInv, Journaled, WorkInv, Mutate
  PROVE  WorkInv'
<1> DEFINE c == Len(journal)
           p == Root(c)
           o == Operation(c)
<1>1. /\ c \in 1..Count /\ Count \in Nat /\ Fits
      /\ p \in Path /\ o.op \in OperationNames /\ Suits(Before, After, o) /\ o.path = p
  <2>1. Fits /\ c \in Nat /\ Count \in Nat
    BY PlannedOperations DEF Ready, Recorded
  <2>2. c \in 1..Count
    <3>1. journal # <<>> /\ c <= Count
      BY DEF Mutate, InOperation, CallInv, Progress
    <3>2. c # 0
      BY <3>1 DEF Ready, Recorded
    <3> QED
      BY <2>1, <3>1, <3>2
  <2> QED
    BY <2>1, <2>2, PlannedOperations DEF Root
<1>2. /\ pc = "operate" /\ phase = "mutate" /\ UNCHANGED <<plan, journal, foreign>>
      /\ \/ Call(o) /\ pc' = pc /\ phase' = "verify"
         \/ pc' = "resolve" /\ phase' = phase /\ UNCHANGED <<host, stage, quarantine>>
      /\ Current = o
  BY DEF Mutate, InOperation, GoOn, Refuse, Current, editor
<1>3. Frontier = c - 1
  BY <1>2 DEF Frontier, Pending
<1>4. /\ Placement /\ Clear /\ (Len(p) > 1 => IsDir(host, Front(p)))
  BY <1>1, <1>2 DEF WorkInv, Placement, ParentStands
<1>5. CASE pc' = "resolve"
  <2>1. UNCHANGED <<plan, host, quarantine, foreign>> /\ Needs
    BY <1>2, <1>5 DEF Needs, Preparing
  <2> QED
    BY <2>1, WorkSame
<1>6. CASE pc' # "resolve"
  <2>1. Call(o) /\ pc' = "operate" /\ phase' = "verify"
    BY <1>2, <1>6
  <2>2. Clear'
    <3>1. Frontier' = c
      BY <1>2, <2>1 DEF Frontier, Pending
    <3> QED
      BY <1>1, <1>2, <1>3, <1>4, <3>1, ClearStays
  <2>3. c > Frontier
    BY <1>1, <1>3
  <2> HIDE DEF c, o, p
  <2>4. Placement'
    <3>1. CASE o.op = "Quarantine"
      <4>1. quarantine' = Moved(host, quarantine, p) /\ host' = Without(host, p)
        BY <1>1, <2>1, <3>1 DEF Call
      <4>2. IsQuarantine(c) /\ p = Root(c)
        BY <3>1 DEF IsQuarantine, o, p
      <4>3. host[p] = Base(p)
        BY <1>2, <4>2 DEF Journaled, Underway, c
      <4>4. foreign[p] = None
        BY <1>1, <1>4, <4>3, PlannedNodesTyped DEF Placement, UserNodesStand
      <4>5. \A x \in Within(p) : foreign[x] = None
        BY <1>1, <1>4, <2>3, <4>2, <4>4 DEF Clear, Sweeps, Within
      <4> QED
        BY <1>1, <1>2, <1>4, <4>1, <4>2, <4>5, SetAsideKeeps
    <3>2. CASE o.op \in {"CreateDirectory", "InstallFile", "InstallSymlink"}
      <4>1. PICK n : n = IF o.op = "CreateDirectory" THEN New(p) ELSE stage[p]
        OBVIOUS
      <4>2. n = New(p)
        <5>1. o.op # "CreateDirectory" => stage[p] = New(p)
          BY <1>1, <1>2, <2>3, <3>2 DEF Journaled, Staged, Installs, o, p
        <5> QED
          BY <4>1, <5>1
      <4>3. n \in HostNode
        <5>1. After[p] # None
          BY <1>1, <3>2 DEF Suits, IsDir, IsKind
        <5> QED
          BY <1>1, <4>2, <5>1, PlannedNodesTyped, PlannedNodes
      <4>4. host' = [host EXCEPT ![p] = n] /\ quarantine' = quarantine
        BY <1>1, <2>1, <3>2, <4>1 DEF Call
      <4>5. ~IsDir(host, p) /\ foreign[p] = None
        <5>1. CASE o.op = "InstallSymlink"
          <6>1. ~IsDir(host, p)
            BY <1>1, <2>1, <5>1 DEF Call
          <6>2. foreign[p] = None
            BY <1>1, <1>4, <2>3, <5>1 DEF Clear, Sweeps, o, p
          <6> QED
            BY <6>1, <6>2
        <5>2. CASE o.op # "InstallSymlink"
          <6>1. host[p] = None
            BY <1>1, <2>1, <3>2, <5>2 DEF Call, Vacant
          <6> QED
            BY <1>1, <1>4, <6>1 DEF IsDir, IsKind, Placement, UserNodesStand
        <5> QED
          BY <5>1, <5>2
      <4> QED
        BY <1>1, <1>2, <1>4, <4>3, <4>4, <4>5, PutKeeps
    <3>3. CASE ModeOperation(o)
      <4>1. /\ host' = [host EXCEPT ![p].mode = After[p].mode] /\ quarantine' = quarantine
            /\ host[p] # None
        BY <1>1, <2>1, <3>3 DEF Call, ModeOperation, HasId
      <4>2. PICK m : m = After[p].mode
        OBVIOUS
      <4>3. m \in Modes
        BY <1>1, <3>3, <4>2, PlannedNodesTyped DEF Suits, Present
      <4>4. host' = [host EXCEPT ![p].mode = m]
        BY <4>1, <4>2
      <4> QED
        BY <1>1, <1>2, <1>4, <4>1, <4>3, <4>4, ModeKeeps
    <3> QED
      BY <1>1, <3>1, <3>2, <3>3 DEF OperationNames, ModeOperation
  <2> QED
    BY <2>1, <2>2, <2>4 DEF WorkInv, Placement, Preparing, ParentStands
<1> QED
  BY <1>5, <1>6

(* Undoing an operation removes only what matches what it made, and puts a  *)
(* subtree back only where nothing is.                                      *)
LEMMA RollbackWork ==
  ASSUME Ready, CallInv, WorkInv, Rollback
  PROVE  WorkInv'
<1> DEFINE c == cursor
           p == Root(c)
           o == Operation(c)
           record == journal[c]
<1>1. /\ c \in 1..Count /\ Count \in Nat /\ Fits
      /\ p \in Path /\ o.op \in OperationNames /\ Suits(Before, After, o) /\ o.path = p
  <2>1. Fits /\ Len(journal) \in Nat /\ Count \in Nat
    BY PlannedOperations DEF Ready, Recorded
  <2>2. c \in 1..Count
    BY <2>1 DEF Rollback, CallInv, Progress
  <2> QED
    BY <2>1, <2>2, PlannedOperations DEF Root
<1>2. /\ pc = "done" /\ UNCHANGED <<plan, pc, foreign>>
      /\ \/ UNCHANGED <<host, quarantine>>
         \/ ParentHeld(p, record.parent) /\ Took(o, record) = "yes" /\ Ours(o, record) /\ Undo(o)
  BY <1>1 DEF Rollback, commit, editor, CallInv, Control
<1>3. Needs /\ ~Preparing /\ ~Preparing' /\ pc' = "done"
  BY <1>2 DEF Needs, Preparing
<1>4. CASE UNCHANGED <<host, quarantine>>
  BY <1>2, <1>3, <1>4, WorkSame
<1>5. CASE /\ ParentHeld(p, record.parent) /\ Took(o, record) = "yes" /\ Ours(o, record) /\ Undo(o)
  <2>1. Placement /\ (Len(p) > 1 => IsDir(host, Front(p)))
    BY <1>5 DEF WorkInv, Placement, ParentHeld, Parent
  <2>2. \A x \in Path : foreign[x] # None => host[x] # None /\ host[x].kind # "dir" /\ host[x].data = Editor
    BY <2>1 DEF Placement, UserNodesStand
  <2> HIDE DEF c, o, p, record
  <2>3. Placement'
    <3>1. CASE o.op = "Quarantine"
      <4>1. host[p] = None /\ host' = Moved(quarantine, host, p) /\ quarantine' = Without(quarantine, p)
        BY <1>1, <1>5, <3>1 DEF Ours, Undo, ModeOperation
      <4>2. IsQuarantine(c) /\ p = Root(c)
        BY <3>1 DEF IsQuarantine, o, p
      <4> QED
        BY <1>1, <1>2, <2>1, <4>1, <4>2, PutBackKeeps
    <3>2. CASE o.op \in {"CreateDirectory", "InstallFile", "InstallSymlink"}
      <4>1. host' = [host EXCEPT ![p] = None] /\ quarantine' = quarantine
        BY <1>1, <1>5, <3>2 DEF Undo, ModeOperation
      <4>2. foreign[p] = None /\ \A x \in Path : Len(x) > 1 /\ Front(x) = p => host[x] = None
        <5>1. CASE o.op = "CreateDirectory"
          <6>1. IsDir(host, p) /\ \A x \in Children(p) : host[x] = None
            BY <1>1, <1>5, <5>1 DEF Ours, MadeHere
          <6>2. \A x \in Path : Len(x) > 1 /\ Front(x) = p => x \in Children(p)
            <7> SUFFICES ASSUME NEW x \in Path, Len(x) > 1, Front(x) = p
                         PROVE  x \in Children(p)
              OBVIOUS
            <7>1. IsPrefix(p, x)
              BY FrontIsAbove DEF IsStrictPrefix
            <7>2. Len(x) = Len(p) + 1
              BY FrontIs, DepthIsNatural
            <7> QED
              BY <7>1, <7>2 DEF Children, Within
          <6> QED
            BY <1>1, <2>2, <6>1, <6>2 DEF IsDir, IsKind
        <5>2. CASE o.op # "CreateDirectory"
          <6>1. Matches(host[p], After[p])
            BY <1>1, <1>5, <3>2, <5>2 DEF Ours
          <6>2. After[p] # None /\ After[p].kind # "dir"
            BY <1>1, <3>2, <5>2 DEF Suits, IsKind
          <6>3. host[p].kind # "dir" /\ host[p].data # Editor
            BY <1>1, <6>1, <6>2, PlannedNodesTyped DEF Matches
          <6> QED
            BY <1>1, <2>1, <2>2, <6>3 DEF Placement, WellFormed, Present, IsDir, IsKind
        <5> QED
          BY <5>1, <5>2
      <4> QED
        BY <1>1, <1>2, <2>1, <4>1, <4>2, TakeKeeps
    <3>3. CASE ModeOperation(o)
      <4>1. host' = [host EXCEPT ![p].mode = Before[p].mode] /\ quarantine' = quarantine
        BY <1>1, <1>5, <3>3 DEF Undo, ModeOperation
      <4>2. host[p] # None
        <5> DEFINE answer == CASE host[p].mode = After[p].mode  -> "yes"
                               [] host[p].mode = Before[p].mode -> "no"
                               [] OTHER                         -> "conflict"
        <5>1. Took(o, record) = IF ~ModeOwned(o, record) THEN "conflict" ELSE answer
          <6> HIDE DEF answer
          <6> QED
            BY <1>1, <3>3 DEF Took, ModeOperation, answer
        <5> HIDE DEF answer
        <5>2. ModeOwned(o, record)
          BY <1>5, <5>1
        <5> QED
          BY <1>1, <5>2 DEF ModeOwned, FileModeOwned, DirectoryModeOwned, IsDir, IsKind
      <4>3. PICK m : m = Before[p].mode
        OBVIOUS
      <4>4. m \in Modes
        BY <1>1, <3>3, <4>3, PlannedNodesTyped DEF Suits, Present
      <4>5. host' = [host EXCEPT ![p].mode = m]
        BY <4>1, <4>3
      <4> QED
        BY <1>1, <1>2, <2>1, <4>1, <4>2, <4>4, <4>5, ModeKeeps
    <3> QED
      BY <1>1, <3>1, <3>2, <3>3 DEF OperationNames, ModeOperation
  <2> QED
    BY <1>3, <2>3 DEF WorkInv, Placement
<1> QED
  BY <1>2, <1>4, <1>5


(* An edit puts a file of the editor's own, or nothing, where no directory  *)
(* is, in a directory.                                                      *)
LEMMA EditIs ==
  ASSUME Ready, NodesTyped, NEW p \in Path, Edit(p)
  PROVE  \E n \in HostNode \cup {None} :
           /\ n # None => n.kind # "dir" /\ n.data = Editor
           /\ host' \in [Path -> HostNode \cup {None}] /\ host'[p] = n
           /\ foreign' = [foreign EXCEPT ![p] = n]
           /\ \A x \in Path : x # p =>
                /\ host'[x] = None <=> host[x] = None
                /\ host[x] # None => /\ host'[x].kind = host[x].kind /\ host'[x].id = host[x].id
                                     /\ host'[x].data \in {host[x].data, Editor}
                /\ host'[x] # host[x] => IsDir(host, x)
           /\ Len(p) > 1 /\ host[p] = None /\ n # None => host'[Front(p)].data = Editor
<1>1. ~IsDir(host, p) /\ (Len(p) > 1 => IsDir(host, Front(p)) /\ Front(p) \in Path /\ Front(p) # p)
  BY FrontIs, FrontIsAbove DEF Edit, Parent, IsStrictPrefix
<1>2. \A k \in HostNode : [k EXCEPT !.data = Editor] \in HostNode
  BY DEF HostNode, Editor
<1>3. \A k \in HostNode : LET e == [k EXCEPT !.data = Editor] IN
        e.kind = k.kind /\ e.id = k.id /\ e.data = Editor
  BY DEF HostNode
<1>4. None \notin HostNode
  BY ProtocolAssumption
<1>5. PICK n \in HostNode \cup {None} : (n # None => n.kind # "dir" /\ n.data = Editor) /\ Put(p, n)
  <2>1. trouble.edits \in Int /\ trouble.edits > 0
    BY DEF Ready, Edit
  <2> DEFINE file == [kind |-> "file", data |-> Editor, mode |-> "rw", id |-> Made + trouble.edits]
  <2>2. file \in HostNode /\ file.kind = "file" /\ file.data = Editor
    BY <2>1 DEF HostNode, Modes, Made
  <2> HIDE DEF file
  <2>3. CASE Put(p, file)
    BY <2>2, <2>3
  <2>4. CASE host[p] # None /\ Put(p, [host[p] EXCEPT !.data = Editor])
    <3>1. PICK k : k = host[p]
      OBVIOUS
    <3>2. k \in HostNode /\ k.kind # "dir"
      BY <1>1, <2>4, <3>1 DEF NodesTyped, IsDir, IsKind
    <3>3. PICK e : e = [k EXCEPT !.data = Editor]
      OBVIOUS
    <3>4. e \in HostNode /\ e.kind # "dir" /\ e.data = Editor
      BY <1>2, <1>3, <3>2, <3>3
    <3>5. Put(p, e)
      BY <2>4, <3>1, <3>3
    <3> QED
      BY <3>4, <3>5
  <2>5. CASE Put(p, None)
    BY <2>5
  <2> QED
    BY <2>3, <2>4, <2>5 DEF Edit, file
<1> DEFINE over == IF Len(p) > 1 /\ (n = None \/ ~HasId(host[p], n.id)) THEN {Front(p)} ELSE {}
<1>50. /\ host' = [x \in Path |-> CASE x = p      -> n
                                    [] x \in over -> [host[x] EXCEPT !.data = Editor]
                                    [] OTHER      -> host[x]]
       /\ foreign' = [foreign EXCEPT ![p] = n]
  BY <1>5 DEF Put, Parent
<1>6. PICK above : /\ above = over
                   /\ host' = [x \in Path |-> CASE x = p       -> n
                                                [] x \in above -> [host[x] EXCEPT !.data = Editor]
                                                [] OTHER       -> host[x]]
                   /\ foreign' = [foreign EXCEPT ![p] = n]
  <2> HIDE DEF over
  <2> QED
    BY <1>50
<1>7. host'[p] = n
  BY <1>1, <1>6
<1>8. \A x \in Path : x # p => host'[x] = IF x \in above THEN [host[x] EXCEPT !.data = Editor] ELSE host[x]
  BY <1>6
<1>9. \A x \in above : x \in Path /\ x # p /\ IsDir(host, x) /\ host[x] \in HostNode
  BY <1>1, <1>6 DEF NodesTyped, IsDir, IsKind
<1>10. ASSUME NEW x \in above
       PROVE  /\ host'[x] \in HostNode /\ host'[x].kind = host[x].kind /\ host'[x].id = host[x].id
              /\ host'[x].data = Editor
  <2>1. PICK k : k = host[x]
    OBVIOUS
  <2>2. k \in HostNode /\ host'[x] = [k EXCEPT !.data = Editor]
    BY <1>8, <1>9, <2>1
  <2> QED
    BY <1>2, <1>3, <2>1, <2>2
<1>11. \A x \in Path : host'[x] \in HostNode \cup {None}
  BY <1>5, <1>7, <1>8, <1>10 DEF NodesTyped
<1>12. host' \in [Path -> HostNode \cup {None}]
  <2>1. host' = [x \in Path |-> host'[x]]
    BY <1>6
  <2> QED
    BY <1>11, <2>1
<1>13. \A x \in Path : x # p =>
         /\ host'[x] = None <=> host[x] = None
         /\ host[x] # None => /\ host'[x].kind = host[x].kind /\ host'[x].id = host[x].id
                              /\ host'[x].data \in {host[x].data, Editor}
         /\ host'[x] # host[x] => IsDir(host, x)
  BY <1>4, <1>8, <1>9, <1>10
<1>14. Len(p) > 1 /\ host[p] = None /\ n # None => host'[Front(p)].data = Editor
  BY <1>6, <1>10 DEF HasId
<1> QED
  BY <1>5, <1>6, <1>7, <1>12, <1>13, <1>14

(* An edit replaces the editor's own node at most, and, outside the moment  *)
(* between a check and its system call, nothing an operation will sweep.    *)
LEMMA EditWork ==
  ASSUME Ready, CallInv, WorkInv, ~RaceWindow, NEW p \in Path, Edit(p)
  PROVE  WorkInv'
<1>1. PICK n \in HostNode \cup {None} :
           /\ n # None => n.kind # "dir" /\ n.data = Editor
           /\ host' \in [Path -> HostNode \cup {None}] /\ host'[p] = n
           /\ foreign' = [foreign EXCEPT ![p] = n]
           /\ \A x \in Path : x # p =>
                /\ host'[x] = None <=> host[x] = None
                /\ host[x] # None => /\ host'[x].kind = host[x].kind /\ host'[x].id = host[x].id
                                     /\ host'[x].data \in {host[x].data, Editor}
                /\ host'[x] # host[x] => IsDir(host, x)
           /\ Len(p) > 1 /\ host[p] = None /\ n # None => host'[Front(p)].data = Editor
  BY EditIs DEF WorkInv
<1>2. /\ UNCHANGED <<plan, quarantine, journal, pc, phase>>
      /\ ~IsDir(host, p) /\ ~InRace(p)
      /\ Len(p) > 1 => IsDir(host, Front(p)) /\ Front(p) \in Path /\ Front(p) # p
  BY FrontIs, FrontIsAbove DEF Edit, Parent, IsStrictPrefix, commit
<1>3. foreign'[p] = n /\ \A x \in Path : x # p => foreign'[x] = foreign[x]
  BY <1>1 DEF WorkInv, NodesTyped
<1>4. \A x \in Path : x # p => (IsDir(host', x) <=> IsDir(host, x))
  BY <1>1 DEF IsDir, IsKind
<1>5. ~IsDir(host', p)
  BY <1>1 DEF IsDir, IsKind
<1>6. NodesTyped' /\ AsideWellFormed'
  BY <1>1, <1>2, PlanStays DEF WorkInv, NodesTyped, AsideWellFormed
<1>7. WellFormed(host')
  <2> SUFFICES ASSUME NEW x \in Path, Len(x) > 1, Present(host', x)
               PROVE  IsDir(host', Front(x))
    BY DEF WellFormed
  <2>1. IsDir(host, Front(x)) /\ Front(x) \in Path
    BY <1>1, <1>2, FrontIs DEF WorkInv, WellFormed, Present
  <2> QED
    BY <1>2, <1>4, <2>1
<1>8. UserNodesStand'
  <2> SUFFICES ASSUME NEW x \in Path, foreign'[x] # None
               PROVE  /\ foreign'[x].data = Editor /\ host'[x] # None /\ host'[x].kind # "dir"
                      /\ host'[x].data = Editor /\ host'[x].id = foreign'[x].id
    BY DEF UserNodesStand
  <2>1. CASE x = p
    BY <1>1, <1>3, <2>1
  <2>2. CASE x # p
    <3>1. /\ foreign[x] = foreign'[x] /\ foreign[x].data = Editor /\ host[x] # None
          /\ host[x].kind # "dir" /\ host[x].data = Editor /\ host[x].id = foreign[x].id
      BY <1>3, <2>2 DEF WorkInv, UserNodesStand
    <3>2. host'[x] = host[x]
      BY <1>1, <2>2, <3>1 DEF IsDir, IsKind
    <3> QED
      BY <3>1, <3>2
  <2> QED
    BY <2>1, <2>2
<1>9. Preparing => NewcomersShow'
  <2> SUFFICES ASSUME Preparing PROVE NewcomersShow'
    OBVIOUS
  <2>1. Before' = Before
    BY <1>2 DEF Before
  <2>2. \A x \in Path : IsDir(host', x) => IsDir(Before, x)
    BY <1>4, <1>5 DEF WorkInv, NewcomersShow
  <2>3. ASSUME NEW x \in Path, Len(x) > 1, Before[x] = None, host'[x] # None
        PROVE  host'[Front(x)].data = Editor
    <3>1. CASE host[x] = None
      BY <1>1, <2>3, <3>1
    <3>2. CASE host[x] # None
      <4>1. host[Front(x)].data = Editor /\ IsDir(host, Front(x)) /\ Front(x) \in Path
        BY <2>3, <3>2, FrontIs DEF WorkInv, NewcomersShow, WellFormed, Present
      <4>2. Front(x) # p /\ host[Front(x)] # None
        BY <1>2, <4>1 DEF IsDir, IsKind
      <4> QED
        BY <1>1, <4>1, <4>2
    <3> QED
      BY <3>1, <3>2
  <2> QED
    BY <2>1, <2>2, <2>3 DEF NewcomersShow, IsDir, IsKind
<1>10. pc \in {"enter", "operate"} => Clear'
  <2> SUFFICES ASSUME pc \in {"enter", "operate"}, NEW i \in 1..Count, i > Frontier, NEW x \in Path,
                      Sweeps(i, x), foreign'[x] # None
               PROVE  FALSE
    BY <1>2, PlanStays DEF Clear, Sweeps, Frontier, Pending
  <2>1. x = p
    BY <1>3 DEF WorkInv, Clear
  <2>2. Len(journal) \in Nat /\ i >= Len(journal)
    BY DEF Ready, Recorded, Frontier, Pending
  <2>3. Sweeps(i, p) => \/ Operation(i).op = "InstallSymlink" /\ Operation(i).path = p
                        \/ Operation(i).op = "Quarantine" /\ IsStrictPrefix(Operation(i).path, p)
    BY DEF Sweeps, IsQuarantine, Root, Within, IsStrictPrefix
  <2> QED
    BY <1>2, <2>1, <2>2, <2>3 DEF InRace
<1>11. pc = "operate" => ParentStands'
  <2>1. CASE phase = "mutate" /\ pc = "operate" /\ Len(Current.path) > 1
    <3>1. IsDir(host, Front(Current.path))
      BY <2>1 DEF WorkInv, ParentStands
    <3>2. Current' = Current
      BY <1>2, PlanStays DEF Current
    <3>3. Front(Current.path) \in Path
      <4>1. Len(journal) \in 1..Count
        BY <2>1, PlannedOperations DEF Ready, Recorded, CallInv, Progress
      <4>2. Current.path \in Path
        BY <4>1, PlannedOperations DEF Current, Ready
      <4> QED
        BY <2>1, <4>2, FrontIs
    <3> QED
      BY <1>2, <1>4, <3>1, <3>2, <3>3 DEF ParentStands
  <2>2. CASE phase # "mutate" \/ pc # "operate" \/ ~(Len(Current.path) > 1)
    BY <1>2, <2>2, PlanStays DEF ParentStands, Current
  <2> QED
    BY <2>1, <2>2
<1> QED
  BY <1>2, <1>6, <1>7, <1>8, <1>9, <1>10, <1>11 DEF WorkInv, Preparing

(* The workspace starts as the tree before, with nothing of the editor's.   *)
LEMMA InitWork == Init => WorkInv
<1> SUFFICES ASSUME Init PROVE WorkInv
  OBVIOUS
<1>1. Fits
  BY PlanFits DEF Init
<1>2. WellFormed(Before)
  BY PlanFits DEF Init
<1>3. /\ pc = "reserved" /\ phase = "intent" /\ host = [p \in Path |-> Base(p)]
      /\ \A p \in Path : quarantine[p] = None /\ foreign[p] = None /\ host[p] = Base(p)
      /\ DOMAIN foreign = Path
  BY DEF Init, Nowhere
<1>4. NodesTyped
  BY <1>1, <1>3, PlannedNodesTyped DEF NodesTyped, Init, Nowhere
<1>5. \A p \in Path : /\ IsDir(host, p) <=> IsDir(Before, p)
                      /\ host[p] = None <=> Before[p] = None
  BY <1>1, <1>3, PlannedNodes DEF IsDir, IsKind
<1>6. WellFormed(host)
  BY <1>2, <1>5, FrontIs DEF WellFormed, Present
<1>7. AsideWellFormed
  BY <1>3 DEF AsideWellFormed, Within
<1> QED
  BY <1>3, <1>4, <1>5, <1>6, <1>7 DEF WorkInv, UserNodesStand, NewcomersShow

(* What the editor made last at a path is in place, or the path is empty    *)
(* because the editor removed it: no crash, rollback, retry or cleanup of a *)
(* transaction destroys it, if nothing is edited between a check and its    *)
(* system call.                                                             *)
THEOREM CommitSparesUserWork ==
  ASSUME ~RaceWindow
  PROVE  Spec => []UserWorkSurvives
<1>1. Inv /\ WorkInv /\ [Next]_vars => WorkInv'
  <2> SUFFICES ASSUME Inv, WorkInv, [Next]_vars PROVE WorkInv'
    OBVIOUS
  <2>1. Ready /\ CallInv /\ Journaled
    BY DEF Inv, Quiet
  <2>2. CASE Next
    BY <2>1, <2>2, StepKinds, CalmWork, PaperWork, MutateWork, RollbackWork, EditWork
  <2>3. CASE UNCHANGED vars
    <3>1. UNCHANGED <<plan, host, quarantine, foreign, journal, pc, phase>>
      BY <2>3 DEF vars, disk, commit, editor
    <3>2. Needs
      BY <3>1, PlanStays DEF WorkInv, Needs, Preparing, Clear, Sweeps, Frontier, Pending, ParentStands,
         Current, IsDir, IsKind
    <3> QED
      BY <3>1, <3>2, WorkSame
  <2> QED
    BY <2>2, <2>3
<1>2. WorkInv => UserWorkSurvives
  BY DEF WorkInv, UserNodesStand, UserWorkSurvives, HasId
<1> QED
  BY <1>1, <1>2, InitWork, SpecInv, PTL DEF Spec

-----------------------------------------------------------------------------
(* Recovery after the faults it tolerates.                                  *)

Prepared ==
  /\ plan.operations = Prepare(Before, After)
  /\ WellFormed(Before) /\ WellFormed(After)

(* The identity of the directory operation i works in, and of its node.     *)
ParentMade(i) ==
  \E j \in 1..Count : Operation(j).op = "CreateDirectory" /\ Root(j) = Front(Root(i))
Above(i) == IF Len(Root(i)) > 1 /\ ParentMade(i) THEN Made ELSE Original
Subject(i) == IF IsQuarantine(i) \/ ModeOperation(Operation(i)) THEN Original ELSE Made

Performed(i) ==
  IF IsQuarantine(i) THEN quarantine[Root(i)] = Base(Root(i)) ELSE host[Root(i)] = Product(i)

Clearing == pc = "cleanup" \/ rpc = "cleanup"

(* What is on disk by the time recovery may look for it, and that it never  *)
(* had to give up.                                                          *)
Readable ==
  /\ torn = {} /\ report \notin {"error", "conflict"}
  /\ journal # <<>> => "journal" \in entries
  /\ pc = "journal" => "plan" \in entries
  /\ pc \in {"stage", "revalidate", "enter", "operate", "verify", "mark", "finish", "resolve"} =>
       {"plan", "journal"} \subseteq entries
  /\ pc = "done" /\ entries # {} /\ ~Clearing =>
       /\ {"plan", "journal"} \subseteq entries
       /\ state \in {"Revalidating", "Committing", "RecoveryRequired"}
  /\ rpc \in {"read", "finalize", "store", "rollback"} => entries # {}
  /\ pc = "resolve" => state # "Stale"
  /\ pc = "mark" \/ ("marker" \in entries /\ ~Clearing) => FinalStateHolds

(* A record names its parent, its source and its result; what it says is    *)
(* done is done, and an open operation can be told from one that never      *)
(* happened.                                                                *)
Names(i) ==
  /\ journal[i].parent = Above(i)
  /\ ModeOperation(Operation(i)) => journal[i].source = Original
  /\ Operation(i).op = "InstallSymlink" => journal[i].source = Made
  /\ journal[i].done \in {None, Subject(i)}

Tells(i) ==
  /\ journal[i].done # None => Performed(i)
  /\ Operation(i).op = "InstallFile" => stage[Root(i)] = New(Root(i))
  /\ Operation(i).op = "InstallSymlink" /\ host[Root(i)] = New(Root(i)) => stage[Root(i)] = None
  /\ /\ Operation(i).op = "CreateDirectory" /\ journal[i].done = None /\ host[Root(i)] # None
     /\ ~(pc = "operate" /\ phase = "verify")
     => Root(i) \in owner

Completed == pc \in {"verify", "mark", "finish"} \/ (pc = "operate" /\ phase = "intent")
Faithful ==
  \A i \in 1..Len(journal) :
    Names(i) /\ (i < Len(journal) \/ Completed => journal[i].done # None)

Left == IF rpc = "rollback" THEN cursor ELSE Len(journal)
Told ==
  /\ \A i \in 1..Left : Tells(i)
  /\ pc = "operate" /\ phase \in {"verify", "done"} => Performed(Len(journal))
  /\ pc = "operate" /\ phase = "done" => seen = Subject(Len(journal))

CopeInv == Readable /\ Faithful /\ (~Clearing => Told)

(* The operations come from the six lists, in the order of the parts.       *)
LEMMA PreparedPlan ==
  ASSUME Fits, Prepared
  PROVE  /\ \A i \in 1..Count : Operation(i) \in Listed(Before, After)
         /\ \A o \in Listed(Before, After) : \E i \in 1..Count : Operation(i) = o
         /\ \A i, j \in 1..Count : i < j => StandsBefore(Before, After, Operation(i), Operation(j))
<1> DEFINE s == plan.operations
           S == Listed(Before, After)
<1>1. /\ Arranges(s, S)
      /\ \A i, j \in 1..Len(s) : i < j => StandsBefore(Before, After, s[i], s[j])
  BY PlanOrder DEF Prepared
<1>2. Count = Len(s) /\ \A i : Operation(i) = s[i]
  BY DEF Count, Operation
<1> HIDE DEF s, S
<1>3. \A i \in 1..Len(s) : s[i] \in S
  BY <1>1 DEF Arranges
<1>4. \A o \in S : \E i \in 1..Len(s) : s[i] = o
  BY <1>1 DEF Arranges
<1> QED
  BY <1>1, <1>2, <1>3, <1>4 DEF S

(* The directory an operation works in was there from the start, and stays  *)
(* but for its mode, or an earlier operation of the plan creates it.        *)
LEMMA PlannedParents ==
  ASSUME Fits, Prepared, NEW j \in 1..Count, NEW p, p = Root(j), Len(p) > 1, NEW q, q = Front(p)
  PROVE  /\ q \in Path
         /\ \/ /\ IsDir(Before, q)
               /\ \A i \in 1..Count : IsQuarantine(i) => q \notin Within(Root(i))
               /\ \A i \in 1..Count : Makes(i, q) => ModeOperation(Operation(i))
            \/ /\ ~IsQuarantine(j) /\ ~ModeOperation(Operation(j)) /\ ~IsDir(Before, q)
               /\ \E i \in 1..Count : i < j /\ Operation(i).op = "CreateDirectory" /\ Root(i) = q
<1>1. p \in Path /\ Suits(Before, After, Operation(j)) /\ Operation(j).op \in OperationNames
      /\ Operation(j).path = p
  BY PlannedOperations DEF Root
<1>2. q \in Path /\ Len(q) = Len(p) - 1 /\ Len(p) \in Nat /\ q # p
  BY <1>1, FrontIs, DepthIsNatural
<1>3. \A r \in Path : q \in Within(r) => p \in Within(r)
  BY <1>1, <1>2, ParentWithin
<1>4. ASSUME IsDir(Before, q), \A i \in 1..Count : IsQuarantine(i) => q \notin Within(Root(i)),
             NEW i \in 1..Count, Makes(i, q)
      PROVE  ModeOperation(Operation(i))
  <2>1. Base(q) # None
    BY <1>2, <1>4, PlannedNodes DEF IsDir, IsKind
  <2> QED
    BY <1>4, <2>1, PlannedOperations
<1>5. CASE IsQuarantine(j)
  <2>1. Present(Before, p)
    BY <1>1, <1>5 DEF Suits, IsQuarantine
  <2>2. IsDir(Before, q)
    BY <1>1, <2>1 DEF Prepared, WellFormed
  <2>3. ASSUME NEW i \in 1..Count, IsQuarantine(i), q \in Within(Root(i))
        PROVE  FALSE
    <3>1. p \in Within(Root(i)) /\ p \in Within(p)
      BY <1>3, <1>5, <2>3, RootWithin
    <3>2. i = j
      BY <1>5, <2>3, <3>1, PlannedOperations
    <3>3. q \in Within(p) /\ IsPrefix(p, q)
      BY <2>3, <3>2 DEF Within
    <3> QED
      BY <1>1, <1>2, <3>3, PrefixIs
  <2> QED
    BY <1>2, <1>4, <2>2, <2>3
<1>6. CASE ModeOperation(Operation(j))
  <2>1. Present(Before, p) /\ Makes(j, p)
    BY <1>1, <1>6 DEF Suits, Makes, IsQuarantine, ModeOperation
  <2>2. IsDir(Before, q)
    BY <1>1, <2>1 DEF Prepared, WellFormed
  <2>3. \A i \in 1..Count : IsQuarantine(i) => q \notin Within(Root(i))
    BY <1>3, <1>6, <2>1, PlannedOperations, RootWithin
  <2> QED
    BY <1>2, <1>4, <2>2, <2>3
<1>7. CASE ~IsQuarantine(j) /\ ~ModeOperation(Operation(j))
  <2>1. Operation(j).op \in {"CreateDirectory", "InstallFile", "InstallSymlink"}
    BY <1>1, <1>7 DEF IsQuarantine, ModeOperation, OperationNames
  <2>2. Present(After, p)
    BY <1>1, <2>1 DEF Suits, IsDir, IsKind, Present
  <2>3. IsDir(After, q)
    BY <1>1, <2>2 DEF Prepared, WellFormed
  <2>4. CASE IsDir(Before, q)
    <3>1. ASSUME NEW i \in 1..Count, IsQuarantine(i) PROVE q \notin Within(Root(i))
      <4>1. Operation(i) \in Listed(Before, After)
        BY PreparedPlan
      <4>2. Root(i) \in DestructiveRoots(Before, After)
        BY <3>1, <4>1, ListedIs DEF IsQuarantine, Root
      <4> QED
        BY <1>2, <2>3, <2>4, <4>2, ModesStay DEF Prepared
    <3> QED
      BY <1>2, <1>4, <2>4, <3>1
  <2>5. CASE ~IsDir(Before, q)
    <3>1. q \in Created(Before, After)
      BY <1>2, <2>3, <2>5 DEF Created, Changed, IsDir, IsKind
    <3>2. [op |-> "CreateDirectory", path |-> q] \in Listed(Before, After)
      BY <3>1 DEF Listed, Creations, Operations
    <3>3. PICK i \in 1..Count : Operation(i) = [op |-> "CreateDirectory", path |-> q]
      BY <3>2, PreparedPlan
    <3>4. Operation(i).op = "CreateDirectory" /\ Operation(i).path = q
      BY <3>3
    <3>5. ~(j < i)
      <4> SUFFICES ASSUME j < i PROVE FALSE
        OBVIOUS
      <4>1. StandsBefore(Before, After, Operation(j), Operation(i))
        BY PreparedPlan
      <4>2. Part(Before, After, Operation(i)) = 3
        BY <3>4 DEF Part
      <4>3. /\ Part(Before, After, Operation(j)) \in {3, 4}
            /\ Part(Before, After, Operation(j)) = 3 => Operation(j).op = "CreateDirectory"
        BY <2>1 DEF Part
      <4> QED
        BY <1>1, <1>2, <3>4, <4>1, <4>2, <4>3 DEF StandsBefore
    <3>6. i # j
      BY <1>1, <1>2, <3>4
    <3> QED
      BY <1>2, <1>7, <2>5, <3>4, <3>5, <3>6, PlannedOperations DEF Root
  <2> QED
    BY <2>4, <2>5
<1> QED
  BY <1>5, <1>6, <1>7

(* So when it is an operation's turn, its parent is there, and is the one   *)
(* the intent names.                                                        *)
LEMMA ParentOnDisk ==
  ASSUME Fits, Prepared, touched = {}, NEW j \in 1..Count, Reached(j),
         \A i \in 1..(j - 1) : Performed(i), NEW p, p = Root(j), Len(p) > 1, NEW q, q = Front(p)
  PROVE  IsDir(host, q) /\ host[q].id = Above(j)
<1>1. q \in Path /\ Count \in Nat
  BY PlannedParents, PlannedOperations
<1>2. CASE /\ IsDir(Before, q)
           /\ \A i \in 1..Count : IsQuarantine(i) => q \notin Within(Root(i))
           /\ \A i \in 1..Count : Makes(i, q) => ModeOperation(Operation(i))
  <2>1. ~ParentMade(j)
    BY <1>2 DEF ParentMade, Makes, IsQuarantine, Root, ModeOperation
  <2>2. ~Away(q)
    BY <1>2 DEF Away
  <2>3. Base(q) # None /\ Base(q).id = Original /\ Base(q).kind = "dir"
    BY <1>1, <1>2, PlannedNodes DEF IsDir, IsKind
  <2>4. CASE host[q] = Base(q)
    BY <2>1, <2>3, <2>4 DEF Above, IsDir, IsKind
  <2>5. CASE host[q] # Base(q)
    <3>1. PICK i \in 1..Count : Makes(i, q) /\ host[q] = Product(i)
      BY <1>1, <2>2, <2>5 DEF Reached, Ground
    <3>2. ModeOperation(Operation(i)) /\ q = Root(i)
      BY <1>2, <3>1 DEF Makes, Root
    <3>3. Product(i) = [Base(q) EXCEPT !.mode = After[q].mode]
      BY <3>2 DEF Product, Root
    <3>4. PICK b : b = Base(q)
      OBVIOUS
    <3>5. b \in HostNode
      BY <1>1, <2>3, <3>4, PlannedNodesTyped
    <3>6. [b EXCEPT !.mode = After[q].mode].id = b.id /\ [b EXCEPT !.mode = After[q].mode].kind = b.kind
      BY <3>5 DEF HostNode
    <3>7. Product(i) # None
      BY <3>2, ModeProduct
    <3> QED
      BY <2>1, <2>3, <3>1, <3>3, <3>4, <3>6, <3>7 DEF Above, IsDir, IsKind
  <2> QED
    BY <2>4, <2>5
<1>3. ASSUME NEW i \in 1..Count, i < j, Operation(i).op = "CreateDirectory", Root(i) = q
      PROVE  IsDir(host, q) /\ host[q].id = Above(j)
  <2>1. ~IsQuarantine(i) /\ ~ModeOperation(Operation(i)) /\ ParentMade(j)
    BY <1>3 DEF IsQuarantine, ModeOperation, ParentMade
  <2>2. host[q] = Product(i)
    BY <1>3, <2>1 DEF Performed
  <2>3. Product(i) = New(q) /\ New(q) # None /\ New(q).id = Made /\ New(q).kind = After[q].kind
    BY <1>3, <2>1, MadeProduct
  <2>4. IsDir(After, q)
    BY <1>3, PlannedOperations DEF Suits, Root
  <2> QED
    BY <2>1, <2>2, <2>3, <2>4 DEF Above, IsDir, IsKind
<1> QED
  BY <1>2, <1>3, PlannedParents

(* What goes into a created directory comes later.                          *)
LEMMA CreatedIsEmpty ==
  ASSUME Fits, Prepared, touched = {}, NEW j \in 1..Count, Operation(j).op = "CreateDirectory",
         Reached(j), NEW x \in Children(Root(j))
  PROVE  host[x] = None
<1> DEFINE p == Root(j)
<1>1. /\ x \in Path /\ p \in Path /\ Len(x) > 1 /\ Front(x) = p
  <2>1. x \in Path /\ p \in Path /\ Len(x) = Len(p) + 1 /\ IsPrefix(p, x)
    BY PlannedOperations DEF Children, Within, Root
  <2>2. Len(p) \in Nat /\ Len(p) > 0 /\ Len(x) \in Nat /\ p \in Seq(Name) /\ x \in Seq(Name)
    BY <2>1, DepthIsNatural
  <2>3. Len(Front(x)) = Len(p) /\ \A i \in 1..Len(p) : Front(x)[i] = x[i]
    BY <2>1, <2>2, FrontIs, SMTT(60)
  <2>4. \A i \in 1..Len(p) : p[i] = x[i]
    BY <2>1, PrefixIs
  <2>5. Front(x) \in Seq(Name)
    BY <2>1, <2>2, FrontIs, DepthIsNatural
  <2>6. Front(x) = p
    BY <2>2, <2>3, <2>4, <2>5
  <2> QED
    BY <2>1, <2>2, <2>6
<1>2. ~IsDir(Before, p) /\ Operation(j).path = p
  BY PlannedOperations DEF Suits, Root
<1> HIDE DEF p
<1>3. Base(x) = None
  <2>1. ~Present(Before, x)
    BY <1>1, <1>2 DEF Prepared, WellFormed
  <2> QED
    BY <1>1, <2>1, PlannedNodes DEF Present
<1>4. Ground(x) = None
  BY <1>3 DEF Ground
<1>5. ASSUME NEW i \in 1..Count, i <= j, Makes(i, x) PROVE FALSE
  <2>1. x = Root(i)
    BY <1>5 DEF Makes, Root
  <2>2. PICK k \in 1..Count : k < i /\ Operation(k).op = "CreateDirectory" /\ Root(k) = p
    BY <1>1, <1>2, <2>1, PlannedParents
  <2>3. Makes(k, p) /\ Makes(j, p)
    BY <1>2, <2>2 DEF Makes, IsQuarantine, Root
  <2>4. k = j
    BY <2>3, PlannedOperations
  <2> QED
    BY <1>5, <2>2, <2>4, PlannedOperations
<1> QED
  BY <1>1, <1>4, <1>5 DEF Reached

(* Where a node is to be made there is nothing, or the node.                *)
LEMMA MadeOrNothing ==
  ASSUME Fits, touched = {}, NEW c \in 1..Count, ~IsQuarantine(c), ~ModeOperation(Operation(c)),
         Reached(c), \A i \in 1..(c - 1) : Performed(i), NEW p, p = Root(c)
  PROVE  /\ p \in Path /\ host[p] \in {None, New(p)} /\ Product(c) = New(p)
         /\ New(p) # None /\ New(p).id = Made /\ New(p).kind = After[p].kind /\ Matches(New(p), After[p])
<1>1. p \in Path /\ Product(c) = New(p) /\ New(p) # None /\ New(p).id = Made /\ New(p).kind = After[p].kind
  BY MadeProduct
<1>2. \A i \in 1..Count : IsQuarantine(i) /\ i < c => quarantine[Root(i)] = Base(Root(i))
  BY PlannedOperations DEF Performed
<1>3. Ground(p) = None
  BY <1>2, MadeOnBareGround
<1>4. host[p] = Ground(p) \/ host[p] = Product(c)
  BY NodeOf, PlannedOperations
<1>5. Matches(New(p), After[p])
  BY <1>1, PlannedNodes DEF Matches
<1> QED
  BY <1>1, <1>3, <1>4, <1>5

(* A quarantined root is in one of the two trees.                           *)
LEMMA TellsQuarantine ==
  ASSUME Fits, touched = {}, NEW c \in 1..Count, IsQuarantine(c), Reached(c), NEW o, o = Operation(c),
         NEW record, record = journal[c], Names(c), Tells(c)
  PROVE  Took(o, record) = "no" \/ (Took(o, record) = "yes" /\ Ours(o, record))
<1> DEFINE p == Root(c)
<1>1. /\ p \in Path /\ p \in Within(p) /\ Base(p) # None /\ Base(p).id = Original /\ o.path = p
      /\ o.op = "Quarantine" /\ ~ModeOperation(o)
  BY RootWithin, PlannedNodes DEF Root, IsQuarantine, ModeOperation
<1>2. \A i \in 1..Count : Makes(i, p) => ~(i <= c)
  BY <1>1, PlannedOperations
<1>3. host[p] = Ground(p)
  BY <1>1, <1>2 DEF Reached
<1>4. record.done \in {None, Original}
  BY DEF Names, Subject
<1>5. InPlace(c) \/ Aside(c)
  BY DEF Reached
<1> HIDE DEF p
<1>6. CASE quarantine[p] = Base(p)
  <2>1. host[p] = None
    BY <1>1, <1>3, <1>6, AwayWith DEF Ground, p
  <2>2. Ours(o, record)
    BY <1>1, <1>4, <1>6, <2>1 DEF Ours, HasId
  <2>3. Took(o, record) = "yes"
    BY <1>1, <1>6, <2>1 DEF Took
  <2> QED
    BY <2>2, <2>3
<1>7. CASE quarantine[p] # Base(p)
  <2>1. InPlace(c) /\ record.done = None
    BY <1>5, <1>7 DEF Aside, Tells, Performed, p
  <2>2. quarantine[p] = None /\ host[p] = Base(p)
    BY <1>1, <1>3, <2>1, GroundIs DEF InPlace, p
  <2>3. Took(o, record) = "no"
    BY <1>1, <2>1, <2>2 DEF Took
  <2> QED
    BY <2>3
<1> QED
  BY <1>6, <1>7

(* A created directory is marked, a file is the staged one, a link is no    *)
(* longer staged.                                                           *)
LEMMA TellsMade ==
  ASSUME Fits, Prepared, touched = {}, NEW c \in 1..Count, ~IsQuarantine(c),
         ~ModeOperation(Operation(c)), Reached(c), \A i \in 1..(c - 1) : Performed(i),
         NEW o, o = Operation(c), NEW record, record = journal[c], Names(c), Tells(c),
         pc # "operate", \A p \in Path : stage[p] \in {None, New(p)}
  PROVE  Took(o, record) = "no" \/ (Took(o, record) = "yes" /\ Ours(o, record))
<1> DEFINE p == Root(c)
<1>1. /\ p \in Path /\ host[p] \in {None, New(p)} /\ Product(c) = New(p)
      /\ New(p) # None /\ New(p).id = Made /\ New(p).kind = After[p].kind /\ Matches(New(p), After[p])
  BY MadeOrNothing
<1>2. o.path = p /\ o.op \in {"CreateDirectory", "InstallFile", "InstallSymlink"} /\ ~ModeOperation(o)
  BY PlannedOperations DEF Root, IsQuarantine, ModeOperation, OperationNames
<1>3. record.done \in {None, Made}
  BY DEF Names, Subject
<1>4. record.done # None => host[p] = New(p)
  BY <1>1 DEF Tells, Performed
<1>40. Made # None
  BY ProtocolAssumption DEF Made
<1>5. stage[p] \in {None, New(p)}
  BY <1>1
<1>6. CASE o.op = "CreateDirectory"
  <2>1. record.done = None /\ host[p] # None => p \in owner
    BY <1>6 DEF Tells
  <2>2. \A x \in Children(p) : host[x] = None
    BY <1>6, CreatedIsEmpty
  <2>3. After[p].kind = "dir"
    BY <1>6, PlannedOperations DEF Suits, IsDir, IsKind, Root
  <2> HIDE DEF p
  <2>4. CASE host[p] = None
    <3>1. Took(o, record) = "no"
      BY <1>1, <1>2, <1>4, <1>6, <2>4 DEF Took
    <3> QED
      BY <3>1
  <2>5. CASE host[p] = New(p)
    <3>1. Took(o, record) = "yes"
      BY <1>1, <1>2, <1>6, <2>1, <2>5 DEF Took
    <3>2. Ours(o, record)
      BY <1>1, <1>2, <1>3, <1>6, <2>1, <2>2, <2>3, <2>5 DEF Ours, MadeHere, HasId, IsDir, IsKind
    <3> QED
      BY <3>1, <3>2
  <2> QED
    BY <1>1, <2>4, <2>5
<1>7. CASE o.op = "InstallFile"
  <2>1. stage[p] = New(p)
    BY <1>7 DEF Tells
  <2> HIDE DEF p
  <2>2. CASE host[p] = None
    <3>1. Took(o, record) = "no"
      BY <1>1, <1>2, <1>4, <1>7, <2>2 DEF Took
    <3> QED
      BY <3>1
  <2>3. CASE host[p] = New(p)
    <3>1. SameFile(p)
      BY <1>1, <2>1, <2>3 DEF SameFile, HasId
    <3>2. Took(o, record) = "yes"
      BY <1>1, <1>2, <1>7, <2>3, <3>1 DEF Took
    <3>3. Ours(o, record)
      BY <1>1, <1>2, <1>3, <1>7, <2>3, <3>1 DEF Ours, HasId
    <3> QED
      BY <3>2, <3>3
  <2> QED
    BY <1>1, <2>2, <2>3
<1>8. CASE o.op = "InstallSymlink"
  <2>1. record.source = Made /\ (host[p] = New(p) => stage[p] = None)
    BY <1>8 DEF Tells, Names
  <2> HIDE DEF p
  <2>2. CASE host[p] = None
    <3>1. stage[p] = None \/ HasId(stage[p], record.source)
      BY <1>1, <1>5, <2>1 DEF HasId
    <3>2. record.done = None /\ ~HasId(host[p], record.source)
      BY <1>1, <1>4, <2>2 DEF HasId
    <3>3. Took(o, record) = "no"
      BY <1>2, <1>8, <2>2, <3>1, <3>2 DEF Took
    <3> QED
      BY <3>3
  <2>3. CASE host[p] = New(p)
    <3>1. stage[p] = None /\ HasId(host[p], record.source) /\ host[p] # None
      BY <1>1, <2>1, <2>3 DEF HasId
    <3>2. Took(o, record) = "yes"
      BY <1>1, <1>2, <1>8, <2>3, <3>1 DEF Took
    <3>3. Ours(o, record)
      BY <1>1, <1>2, <1>3, <1>8, <2>1, <2>3, <3>1 DEF Ours, HasId
    <3> QED
      BY <3>2, <3>3
  <2> QED
    BY <1>1, <2>2, <2>3
<1> QED
  BY <1>2, <1>6, <1>7, <1>8

(* A node whose mode was to change has one of the two modes.                *)
LEMMA TellsMode ==
  ASSUME Fits, Prepared, touched = {}, NEW c \in 1..Count, ModeOperation(Operation(c)), Reached(c),
         NEW o, o = Operation(c), NEW record, record = journal[c], Names(c)
  PROVE  Took(o, record) = "no" \/ (Took(o, record) = "yes" /\ Ours(o, record))
<1> DEFINE p == Root(c)
<1>1. /\ p \in Path /\ ~IsQuarantine(c) /\ Ground(p) = Base(p) /\ Base(p) # None
      /\ Product(c) = [Base(p) EXCEPT !.mode = After[p].mode] /\ Before[p].mode # After[p].mode
  BY ModeProduct DEF Product, Root, IsQuarantine, ModeOperation
<1>2. host[p] = Ground(p) \/ host[p] = Product(c)
  BY <1>1, NodeOf, PlannedOperations
<1>3. PICK b : b = Base(p)
  OBVIOUS
<1>4. /\ b \in HostNode /\ b # None /\ b.id = Original /\ b.kind = Before[p].kind
      /\ b.mode = Before[p].mode /\ b.data = Before[p].data
  BY <1>1, <1>3, PlannedNodes, PlannedNodesTyped
<1>5. PICK h : h = host[p]
  OBVIOUS
<1>6. h = b \/ h = [b EXCEPT !.mode = After[p].mode]
  BY <1>1, <1>2, <1>3, <1>5
<1>7. /\ h.id = b.id /\ h.kind = b.kind /\ h.data = b.data
      /\ h.mode = Before[p].mode \/ h.mode = After[p].mode
  BY <1>4, <1>6 DEF HostNode
<1>8. h # None
  BY <1>1, <1>2, <1>3, <1>4, <1>5, ModeProduct
<1>9. o.path = p /\ (o.op = "SetFileMode" \/ o.op = "SetDirectoryMode")
  BY DEF Root, ModeOperation
<1>10. /\ o.op = "SetFileMode" => b.kind = "file"
       /\ o.op = "SetDirectoryMode" => b.kind = "dir"
  <2>1. Operation(c) \in Listed(Before, After)
    BY PreparedPlan
  <2>2. /\ o.op = "SetFileMode" => p \in FileModes(Before, After)
        /\ o.op = "SetDirectoryMode" => p \in DirectoryModes(Before, After)
    BY <1>9, <2>1, ListedIs
  <2> QED
    BY <1>4, <2>2 DEF FileModes, DirectoryModes, IsDir, IsKind
<1>11. record.source = Original /\ record.done \in {None, Original}
  BY DEF Names, Subject
<1> HIDE DEF p
<1>12. ModeOwned(o, record)
  <2>1. HasId(host[p], Original)
    BY <1>4, <1>5, <1>7, <1>8 DEF HasId
  <2>2. CASE o.op = "SetFileMode"
    <3>1. IsKind(host, p, "file") /\ host[p].data = Before[p].data
      BY <1>4, <1>5, <1>7, <1>8, <1>10, <2>2 DEF IsKind
    <3> QED
      BY <1>9, <1>11, <2>1, <2>2, <3>1 DEF ModeOwned, FileModeOwned
  <2>3. CASE o.op = "SetDirectoryMode"
    <3>1. IsDir(host, p)
      BY <1>5, <1>7, <1>8, <1>10, <2>3 DEF IsDir, IsKind
    <3> QED
      BY <1>9, <1>11, <2>1, <2>3, <3>1 DEF ModeOwned, DirectoryModeOwned
  <2> QED
    BY <1>9, <2>2, <2>3
<1>13. Took(o, record) \in {"yes", "no"}
  <2>1. ModeOperation(o)
    BY <1>9 DEF ModeOperation
  <2>2. CASE host[p].mode = After[p].mode
    BY <1>9, <1>12, <2>1, <2>2 DEF Took, ModeOperation
  <2>3. CASE host[p].mode = Before[p].mode
    BY <1>1, <1>9, <1>12, <2>1, <2>3 DEF Took, ModeOperation
  <2> QED
    BY <1>5, <1>7, <2>2, <2>3
<1>14. Ours(o, record)
  BY <1>9 DEF Ours
<1> QED
  BY <1>13, <1>14

(* What is told of an operation lasts while its node, its place in the      *)
(* quarantine and its record do.                                            *)
LEMMA TellsKept ==
  ASSUME NEW i \in 1..Count, Tells(i), plan' = plan, journal'[i] = journal[i],
         IF IsQuarantine(i) THEN quarantine'[Root(i)] = quarantine[Root(i)]
         ELSE host'[Root(i)] = host[Root(i)] /\ stage'[Root(i)] = stage[Root(i)],
         /\ Operation(i).op = "CreateDirectory" /\ journal[i].done = None /\ host[Root(i)] # None
         /\ ~(pc' = "operate" /\ phase' = "verify")
         => Root(i) \in owner'
  PROVE  Tells(i)'
<1>1. /\ Root(i)' = Root(i) /\ IsQuarantine(i)' = IsQuarantine(i) /\ Product(i)' = Product(i)
      /\ Operation(i)' = Operation(i) /\ \A p : Base(p)' = Base(p) /\ New(p)' = New(p)
  BY PlanStays
<1>2. CASE IsQuarantine(i)
  <2>1. Operation(i).op = "Quarantine"
    BY <1>2 DEF IsQuarantine
  <2> QED
    BY <1>1, <1>2, <2>1 DEF Tells, Performed
<1>3. CASE ~IsQuarantine(i)
  BY <1>1, <1>3 DEF Tells, Performed
<1> QED
  BY <1>2, <1>3

(* Undoing an operation leaves the earlier ones as they are.                *)
LEMMA UndoKeeps ==
  ASSUME Fits, Domains, NEW c \in 1..Count, NEW i \in 1..(c - 1), Tells(i), Undo(Operation(c)),
         UNCHANGED <<plan, stage, journal, pc, phase>>
  PROVE  Tells(i)'
<1>1. i \in 1..Count /\ i # c /\ i < c /\ Count \in Nat
  BY PlannedOperations
<1>2. /\ Root(i) \in Path /\ Root(c) \in Path /\ Operation(c).path = Root(c)
      /\ IsQuarantine(i) => Root(i) \in Within(Root(i))
  BY <1>1, PlannedOperations, RootWithin DEF Root
<1>3. CASE IsQuarantine(c)
  <2>1. /\ host' = Moved(quarantine, host, Root(c)) /\ quarantine' = Without(quarantine, Root(c))
        /\ owner' = owner
    BY <1>2, <1>3 DEF Undo, IsQuarantine, ModeOperation
  <2>2. Root(i) \notin Within(Root(c))
    BY <1>1, <1>2, <1>3, PlannedOperations DEF Makes, Root
  <2>3. host'[Root(i)] = host[Root(i)] /\ quarantine'[Root(i)] = quarantine[Root(i)]
    BY <1>2, <2>1, <2>2 DEF Moved, Without
  <2> QED
    BY <1>1, <2>1, <2>3, TellsKept DEF Tells
<1>4. CASE ~IsQuarantine(c)
  <2>1. /\ quarantine' = quarantine
        /\ \A x \in Path : x # Root(c) => host'[x] = host[x]
        /\ \A x \in Path : x # Root(c) /\ x \in owner => x \in owner'
    BY <1>2, <1>4 DEF Undo, IsQuarantine, ModeOperation, Domains
  <2>2. ~IsQuarantine(i) => Root(i) # Root(c)
    BY <1>1, <1>4, PlannedOperations DEF Makes, Root
  <2>3. Operation(i).op = "CreateDirectory" => ~IsQuarantine(i)
    BY DEF IsQuarantine
  <2> QED
    BY <1>1, <1>2, <2>1, <2>2, <2>3, TellsKept DEF Tells
<1> QED
  BY <1>3, <1>4

(* Only edits and interruptions use up the troubles; the regions stay.      *)
LEMMA LateBefore ==
  ASSUME Ready, Next, Tolerable'
  PROVE  Tolerable /\ ~(\E p \in Path : Edit(p))
<1>1. Alone
  BY AloneStays DEF Tolerable
<1>2. ~(\E p \in Path : Edit(p))
  BY <1>1 DEF Alone, Edit
<1>3. CASE trouble' = trouble
  BY <1>1, <1>2, <1>3 DEF Tolerable
<1>4. CASE \E region : Interrupted(region)
  BY <1>1, <1>2, <1>4 DEF Tolerable, Interrupted, Ready
<1>5. trouble' = trouble \/ \E region : Interrupted(region)
  <2> USE DEF disk, commit, recovery, editor, Write
  <2>1. CASE Committer
    BY <2>1 DEF Committer, RefusePlan, Begin, CreateWorkspace, WritePlan, CreateJournal,
       StageContent, Revalidate, EnterCommitting, Intent, Check, Mutate, Verify, Done, ClearMarkers,
       VerifyFinal, WriteMarker, Finish, Resolve, Cleanup, RemoveEntry, CleanedUp
  <2>2. CASE Recover
    BY <2>2 DEF Recover, StartRecovery, ReadWorkspace, Finalize, ReadStore, Rollback, Settle,
       CleanRecovered, RemoveEntry, EndClean
  <2>3. CASE Interruption
    BY <2>3 DEF Interruption, CreateWorkspaceFails, StepFails, Crash, WriteTears, RecoveryInterrupted
  <2> QED
    BY <1>2, <2>1, <2>2, <2>3 DEF Next
<1> QED
  BY <1>2, <1>3, <1>4, <1>5

(* The records are those of the plan's first operations.                    *)
LEMMA JournalFits ==
  ASSUME Ready, CallInv
  PROVE  /\ Count \in Nat /\ Count > 0 /\ Len(journal) \in Nat /\ Len(journal) <= Count
         /\ (journal = <<>> <=> Len(journal) = 0)
         /\ rpc = "rollback" => cursor \in 0..Len(journal)
BY PlannedOperations DEF Ready, Recorded, CallInv, Progress

(* The operations before the last are performed, as far as they are not     *)
(* undone.                                                                  *)
LEMMA EarlierPerformed ==
  ASSUME Faithful, Told, Len(journal) \in Nat, Left \in Int, Left <= Len(journal)
  PROVE  \A i \in 1..(Left - 1) : Performed(i)
BY DEF Faithful, Told, Tells

(* rollback_operation never meets anything it cannot attribute, and what it *)
(* leaves is as told.                                                       *)
LEMMA RollbackCopes ==
  ASSUME Ready, CallInv, Journaled, Placed, Prepared, Tolerable, CopeInv, Rollback
  PROVE  CopeInv'
<1> DEFINE c == cursor
           o == Operation(c)
           record == journal[c]
           took == IF ParentHeld(o.path, record.parent) THEN Took(o, record) ELSE "conflict"
<1>1. /\ rpc = "rollback" /\ pc = "done" /\ cursor \in 0..Len(journal) /\ cursor > 0
      /\ Len(journal) \in Nat /\ Count \in Nat /\ Len(journal) <= Count
  BY JournalFits DEF CallInv, Control, Rollback
<1>2. c \in 1..Count /\ c \in 1..Len(journal) /\ Left = c
  BY <1>1 DEF Left
<1>3. touched = {} /\ Fits /\ Domains /\ \A p \in Path : stage[p] \in {None, New(p)}
  BY DEF Tolerable, Alone, Ready, Journaled, Staged
<1>4. /\ Faithful /\ Told /\ state \in {"Revalidating", "Committing", "RecoveryRequired"}
  BY <1>1 DEF CopeInv, Clearing, Readable
<1>5. Reached(c)
  BY <1>1, <1>4 DEF Placed, Extent
<1>6. \A i \in 1..(c - 1) : Performed(i)
  BY <1>1, <1>2, <1>4, EarlierPerformed
<1>7. Names(c) /\ \A i \in 1..c : Tells(i)
  BY <1>2, <1>4 DEF Faithful, Told
<1>8. ParentHeld(o.path, record.parent)
  <2>1. Len(Root(c)) > 1 => IsDir(host, Front(Root(c))) /\ host[Front(Root(c))].id = Above(c)
    BY <1>2, <1>3, <1>5, <1>6, ParentOnDisk
  <2> QED
    BY <1>7, <2>1 DEF ParentHeld, Parent, Names, Root
<1>9. took = "no" \/ (took = "yes" /\ Ours(o, record))
  <2>1. CASE IsQuarantine(c)
    BY <1>2, <1>3, <1>5, <1>7, <1>8, <2>1, TellsQuarantine
  <2>2. CASE ModeOperation(o)
    BY <1>2, <1>3, <1>5, <1>7, <1>8, <2>2, TellsMode
  <2>3. CASE ~IsQuarantine(c) /\ ~ModeOperation(o)
    <3>1. Tells(c) /\ pc # "operate"
      BY <1>1, <1>2, <1>7
    <3> QED
      BY <1>2, <1>3, <1>5, <1>6, <1>7, <1>8, <2>3, <3>1, TellsMade
  <2> QED
    BY <2>1, <2>2, <2>3
<1> HIDE DEF c
<1>10. /\ UNCHANGED <<plan, stage, entries, torn, journal, state, pc, phase, rpc, lock, report>>
       /\ cursor' = c - 1
       /\ UNCHANGED <<host, quarantine, owner>> \/ Undo(o)
  <2>1. /\ \/ /\ took = "no" /\ cursor' = cursor - 1
              /\ UNCHANGED <<host, quarantine, owner, rpc, lock, report>>
           \/ /\ took = "yes" /\ Ours(o, record) /\ Undo(o) /\ cursor' = cursor - 1
              /\ UNCHANGED <<rpc, lock, report>>
           \/ took = "conflict" \/ (took = "yes" /\ ~Ours(o, record))
        /\ UNCHANGED <<plan, stage, entries, torn, journal, state, pc, phase>>
    BY DEF Rollback, commit, c
  <2> HIDE DEF took, o, record
  <2> QED
    BY <1>9, <2>1 DEF c
<1>11. ASSUME NEW i \in 1..(c - 1) PROVE Tells(i)'
  <2>1. Tells(i) /\ i \in 1..Count
    BY <1>1, <1>2, <1>7
  <2>2. CASE Undo(o)
    BY <1>2, <1>3, <1>10, <2>1, <2>2, UndoKeeps
  <2>3. CASE UNCHANGED <<host, quarantine, owner>>
    BY <1>1, <1>10, <2>1, <2>3, TellsKept DEF Tells
  <2> QED
    BY <1>10, <2>2, <2>3
<1>12. Told' /\ ~Clearing'
  BY <1>1, <1>10, <1>11 DEF Told, Left, Clearing
<1>13. Faithful'
  <2>1. /\ \A i : Above(i)' = Above(i) /\ Subject(i)' = Subject(i) /\ Operation(i)' = Operation(i)
        /\ Completed' = Completed
    BY <1>10, PlanStays DEF Above, ParentMade, Subject, Completed
  <2> QED
    BY <1>4, <1>10, <2>1 DEF Faithful, Names
<1>14. Readable'
  <2>1. "marker" \notin entries
    BY <1>1 DEF CallInv, Marking
  <2> QED
    BY <1>1, <1>10, <2>1 DEF CopeInv, Readable, Clearing
<1> QED
  BY <1>12, <1>13, <1>14 DEF CopeInv

(* The faults come where the plan and the journal are whole, not between    *)
(* mkdir and the marker of the new directory, and before a rollback.        *)
LEMMA TolerableRegion ==
  ASSUME CallInv, Tolerable, Interrupted(Region), pc # "done" \/ rpc # "idle"
  PROVE  /\ ~MakesDirectory
         /\ \/ /\ rpc = "idle"
               /\ pc \in {"reserved", "stage", "revalidate", "enter", "operate", "verify", "mark",
                         "finish", "resolve"}
            \/ rpc \in {"read", "finalize", "store"} /\ pc = "done"
<1>1. Region \notin {"setup", "mkdir", "marker", "rollback", "cleanup"}
  BY DEF Tolerable, Interrupted
<1>2. /\ rpc # "idle" => pc = "done"
      /\ rpc \in {"idle", "read", "finalize", "store", "rollback", "cleanup"}
      /\ pc \in {"reserved", "workspace", "plan", "journal", "stage", "revalidate", "enter", "operate",
                 "verify", "mark", "finish", "resolve", "cleanup", "done"}
  BY DEF CallInv, Control
<1>3. CASE rpc = "idle"
  <2>1. pc # "done" /\ pc # "cleanup"
    BY <1>1, <1>3 DEF Region
  <2>2. pc \notin {"workspace", "plan", "journal"}
    BY <1>1, <1>3 DEF Region
  <2>3. ~MakesDirectory
    BY <1>1, <1>3 DEF Region, MakesDirectory
  <2> QED
    BY <1>2, <1>3, <2>1, <2>2, <2>3
<1>4. CASE rpc # "idle"
  <2>1. pc = "done" /\ ~MakesDirectory
    BY <1>2, <1>4 DEF MakesDirectory
  <2>2. rpc # "cleanup"
    BY <1>1, <2>1 DEF Region
  <2>3. rpc # "rollback"
    BY <1>1, <2>1 DEF Region
  <2> QED
    BY <1>2, <1>4, <2>1, <2>2, <2>3
<1> QED
  BY <1>3, <1>4

(* What is named depends on the plan and the journal.                       *)
LEMMA FaithfulStill ==
  ASSUME UNCHANGED <<plan, journal>>, Faithful, Completed' => Completed \/ Len(journal) = 0
  PROVE  Faithful'
<1>1. \A i : Above(i)' = Above(i) /\ Subject(i)' = Subject(i) /\ Operation(i)' = Operation(i)
  BY PlanStays DEF Above, ParentMade, Subject
<1>2. \A i : Names(i)' <=> Names(i)
  BY <1>1 DEF Names
<1> QED
  BY <1>2 DEF Faithful

(* A step that moves nothing leaves what is told as it is, if a created     *)
(* directory is marked by the time its mkdir is not the current step.       *)
LEMMA ToldStill ==
  ASSUME Ready, CallInv, Still, Told, Left' = Left,
         \A i \in 1..Left :
           /\ Operation(i).op = "CreateDirectory" /\ journal[i].done = None /\ host[Root(i)] # None
           /\ ~(pc' = "operate" /\ phase' = "verify")
           => Root(i) \in owner',
         pc' = "operate" /\ phase' \in {"verify", "done"} => Performed(Len(journal)),
         pc' = "operate" /\ phase' = "done" => seen' = Subject(Len(journal))
  PROVE  Told'
<1>1. /\ UNCHANGED <<plan, host, quarantine, stage, journal>>
      /\ Left \in Int /\ Left <= Count /\ Count \in Nat
  BY JournalFits DEF Still, Left
<1>2. \A i : Performed(i)' = Performed(i) /\ Subject(i)' = Subject(i)
  BY <1>1, PlanStays DEF Performed, Subject
<1>3. ASSUME NEW i \in 1..Left PROVE Tells(i)'
  <2>1. i \in 1..Count /\ Tells(i)
    BY <1>1 DEF Told
  <2> QED
    BY <1>1, <2>1, TellsKept
<1>4. Left' = Left /\ Len(journal') = Len(journal)
  BY <1>1
<1> QED
  BY <1>2, <1>3, <1>4 DEF Told

(* verify_final looks at the plan, the workspace and the journal.           *)
LEMMA FinalStill ==
  ASSUME UNCHANGED <<plan, host, journal>>, FinalStateHolds
  PROVE  FinalStateHolds'
<1>1. Before' = Before /\ After' = After /\ Count' = Count /\ \A i : Operation(i)' = Operation(i)
  BY PlanStays DEF Before, After
<1> QED
  BY <1>1 DEF FinalStateHolds, Matches, HasId

(* Before the first operation there is no journal to be told of.            *)
LEMMA NothingToTell ==
  ASSUME plan' = plan, Len(journal') = 0, ~(pc' = "operate" /\ phase' \in {"verify", "done"}),
         rpc' # "rollback"
  PROVE  Faithful' /\ Told'
<1>1. Left' = 0
  BY DEF Left
<1> QED
  BY <1>1 DEF Faithful, Told

(* A fault ends the call, at once or through resolve_commit_result, or the  *)
(* recovery before it changed anything, and leaves what recovery needs.     *)
LEMMA FaultCopes ==
  ASSUME Ready, CallInv, Prepared, Tolerable, CopeInv, Interruption
  PROVE  CopeInv'
<1>1. ~CreateWorkspaceFails /\ ~WriteTears
  <2>1. ~Interrupted("setup") /\ ~Interrupted("marker")
    BY DEF Tolerable, Interrupted
  <2> QED
    BY <2>1 DEF CreateWorkspaceFails, WriteTears
<1>2. /\ StepFails \/ Crash \/ RecoveryInterrupted
      /\ Interrupted(Region) /\ (pc # "done" \/ rpc # "idle")
  BY <1>1 DEF Interruption, RecoveryInterrupted, StepFails, Crash
<1>3. /\ ~MakesDirectory
      /\ \/ /\ rpc = "idle"
            /\ pc \in {"reserved", "stage", "revalidate", "enter", "operate", "verify", "mark",
                      "finish", "resolve"}
         \/ rpc \in {"read", "finalize", "store"} /\ pc = "done"
  BY <1>2, TolerableRegion
<1>4. CASE pc = "reserved"
  <2>1. /\ rpc = "idle" /\ entries = {} /\ journal = <<>>
        /\ Readable
    BY <1>3, <1>4 DEF CallInv, Control, CopeInv
  <2>2. /\ pc' = "done"
        /\ UNCHANGED <<plan, host, owner, stage, quarantine, entries, torn, journal, rpc, report,
                       cursor, touched>>
    BY <1>2, <1>4, <2>1 DEF StepFails, Crash, RecoveryInterrupted, disk, recovery, editor
  <2>3. Readable'
    BY <2>1, <2>2 DEF Readable, Clearing
  <2>4. Faithful' /\ Told'
    BY <1>4, <2>1, <2>2, NothingToTell
  <2> QED
    BY <2>3, <2>4 DEF CopeInv
<1>5. CASE pc # "reserved"
  <2>1. /\ pc' \in {"resolve", "done"} /\ (pc = "done" => pc' = "done")
        /\ UNCHANGED <<plan, host, owner, stage, quarantine, entries, torn, journal, state, cursor,
                       touched>>
        /\ rpc' = "idle" /\ report' \in {report, "none"}
    <3>1. CASE rpc = "idle"
      BY <1>2, <1>3, <1>5, <3>1 DEF StepFails, Crash, RecoveryInterrupted, disk, recovery, editor
    <3>2. CASE rpc \in {"read", "finalize", "store"}
      BY <1>2, <1>3, <1>5, <3>2
         DEF StepFails, Crash, RecoveryInterrupted, EndRecovery, disk, commit, editor
    <3> QED
      BY <1>3, <3>1, <3>2
  <2>2. /\ Readable /\ Faithful /\ Told /\ ~Clearing /\ ~Clearing'
    BY <1>3, <2>1 DEF CopeInv, Clearing
  <2>3. Readable'
    <3>1. pc # "done" => state \in {"Revalidating", "Committing"}
      BY <1>3, <1>5, <2>2 DEF CallInv, Control, Readable
    <3>2. FinalStateHolds => FinalStateHolds'
      BY <2>1, FinalStill
    <3> QED
      BY <1>3, <1>5, <2>1, <2>2, <3>1, <3>2 DEF Readable, Clearing
  <2>4. Faithful'
    BY <2>1, <2>2, FaithfulStill DEF Completed
  <2>5. Told'
    <3>1. Left' = Left /\ Left = Len(journal) /\ Still
      BY <1>3, <2>1 DEF Left, Still
    <3>2. Len(journal) \in Nat
      BY JournalFits
    <3>3. ASSUME NEW i \in 1..Left, Operation(i).op = "CreateDirectory", journal[i].done = None,
                 host[Root(i)] # None
          PROVE  Root(i) \in owner'
      <4>1. i = Len(journal) \/ pc # "operate"
        BY <2>2, <3>1, <3>2, <3>3 DEF Faithful
      <4>2. ~(pc = "operate" /\ phase = "verify")
        <5>1. i = Len(journal) => Current = Operation(i)
          BY DEF Current
        <5> QED
          BY <1>3, <3>3, <4>1, <5>1 DEF MakesDirectory
      <4> QED
        BY <2>1, <2>2, <3>3, <4>2 DEF Told, Tells
    <3> QED
      BY <2>1, <2>2, <3>1, <3>3, ToldStill
  <2> QED
    BY <2>3, <2>4, <2>5 DEF CopeInv
<1> QED
  BY <1>4, <1>5

(* recover reads the plan, the marker and the journal it needs, verifies a  *)
(* marked workspace and settles an unmarked one.                            *)
LEMMA RecoveryStepCopes ==
  ASSUME Ready, CallInv, Prepared, CopeInv,
         StartRecovery \/ ReadWorkspace \/ Finalize \/ ReadStore \/ Settle \/ EndClean
  PROVE  CopeInv'
<1>1. /\ UNCHANGED <<plan, host, owner, stage, quarantine, torn, journal, pc, phase, seen, touched>>
      /\ entries \subseteq entries' /\ (entries' # {} => entries # {} \/ rpc = "store")
      /\ "marker" \in entries' => "marker" \in entries
  BY DEF StartRecovery, ReadWorkspace, Finalize, ReadStore, Settle, EndClean, disk, commit, editor
<1>2. pc = "done" /\ Completed' = FALSE
  <2>1. CASE StartRecovery
    BY <2>1 DEF StartRecovery, CallInv, Control, Completed, commit
  <2>2. CASE ~StartRecovery
    <3>1. rpc # "idle"
      BY <2>2 DEF ReadWorkspace, Finalize, ReadStore, Settle, EndClean
    <3> QED
      BY <1>1, <3>1 DEF CallInv, Control, Completed
  <2> QED
    BY <2>1, <2>2
<1>3. Faithful' /\ Readable /\ (FinalStateHolds => FinalStateHolds')
  BY <1>1, <1>2, FaithfulStill, FinalStill DEF CopeInv
<1>4. ASSUME ~Clearing, Left' = Left PROVE Told'
  <2>1. Told /\ Still
    BY <1>1, <1>4 DEF CopeInv, Still
  <2>2. \A i \in 1..Left :
          /\ Operation(i).op = "CreateDirectory" /\ journal[i].done = None /\ host[Root(i)] # None
          => Root(i) \in owner'
    BY <1>1, <1>2, <2>1 DEF Told, Tells
  <2> QED
    BY <1>1, <1>2, <1>4, <2>1, <2>2, ToldStill
<1>5. CASE StartRecovery
  <2>1. rpc = "idle" /\ rpc' = "read" /\ entries # {} /\ UNCHANGED <<state, entries, report, cursor>>
    BY <1>5 DEF StartRecovery, disk, commit
  <2>2. ~Clearing /\ ~Clearing' /\ Left' = Left
    BY <1>1, <1>2, <2>1 DEF Clearing, Left
  <2>3. Readable'
    BY <1>1, <1>2, <1>3, <2>1, <2>2 DEF Readable
  <2> QED
    BY <1>3, <1>4, <2>2, <2>3 DEF CopeInv
<1>6. CASE ReadWorkspace
  <2>1. rpc = "read" /\ UNCHANGED <<state, entries, cursor>>
    BY <1>6 DEF ReadWorkspace, disk, commit
  <2>2. Whole("plan") /\ Whole("journal") /\ "marker" \notin torn /\ entries # {} /\ ~Clearing
    BY <1>2, <1>3, <2>1 DEF Readable, Clearing, Whole
  <2>3. rpc' \in {"finalize", "store"} /\ report' = report
    BY <1>6, <2>2 DEF ReadWorkspace, OnTo
  <2>4. ~Clearing' /\ Left' = Left
    BY <1>1, <1>2, <2>1, <2>3 DEF Clearing, Left
  <2>5. Readable'
    BY <1>1, <1>2, <1>3, <2>1, <2>2, <2>3, <2>4 DEF Readable
  <2> QED
    BY <1>3, <1>4, <2>2, <2>4, <2>5 DEF CopeInv
<1>7. CASE Finalize
  <2>1. rpc = "finalize" /\ UNCHANGED <<entries, cursor>>
    BY <1>7 DEF Finalize, disk, commit
  <2>2. FinalStateHolds /\ state \in {"Committing", "RecoveryRequired", "Committed"}
    BY <1>2, <1>3, <2>1 DEF Readable, Clearing, CallInv, Marking
  <2>3. rpc' = "cleanup" /\ report' = report
    BY <1>7, <2>2 DEF Finalize, OnTo
  <2>4. Clearing'
    BY <2>3 DEF Clearing
  <2>5. Readable'
    BY <1>1, <1>2, <1>3, <2>1, <2>2, <2>3, <2>4 DEF Readable
  <2> QED
    BY <1>3, <2>4, <2>5 DEF CopeInv
<1>8. CASE ReadStore
  <2>1. rpc = "store" /\ ~Clearing /\ entries # {}
    BY <1>2, <1>3, <1>8 DEF ReadStore, Clearing, Readable
  <2>2. state \in {"Revalidating", "Committing", "RecoveryRequired"} /\ {"plan", "journal"} \subseteq entries
    BY <1>2, <1>3, <2>1 DEF Readable
  <2>3. /\ rpc' = "rollback" /\ report' = report /\ cursor' = Len(journal)
        /\ state' \in {"Revalidating", "Committing", "RecoveryRequired"}
    BY <1>8, <2>2 DEF ReadStore, OnTo
  <2>4. ~Clearing' /\ Left' = Left
    BY <1>1, <1>2, <2>1, <2>3 DEF Clearing, Left
  <2>5. Readable'
    BY <1>1, <1>2, <1>3, <2>1, <2>2, <2>3, <2>4 DEF Readable
  <2> QED
    BY <1>3, <1>4, <2>1, <2>4, <2>5 DEF CopeInv
<1>9. CASE Settle
  <2>1. rpc = "rollback" /\ ~Clearing /\ entries # {} /\ UNCHANGED <<entries, cursor>>
    BY <1>2, <1>3, <1>9 DEF Settle, Clearing, Readable, disk
  <2>2. state \in {"Revalidating", "RecoveryRequired"}
    BY <1>2, <1>3, <2>1 DEF Readable, CallInv, Marking
  <2>3. rpc' = "cleanup" /\ report' = report
    BY <1>9, <2>2 DEF Settle, OnTo
  <2>4. Clearing'
    BY <2>3 DEF Clearing
  <2>5. Readable'
    BY <1>1, <1>2, <1>3, <2>1, <2>2, <2>3, <2>4 DEF Readable
  <2> QED
    BY <1>3, <2>4, <2>5 DEF CopeInv
<1>10. CASE EndClean
  <2>1. rpc = "cleanup" /\ rpc' = "idle" /\ report' = "clean" /\ entries = {} /\ entries' = {}
    BY <1>10 DEF EndClean, EndRecovery, disk
  <2>2. journal = <<>> /\ journal' = <<>> /\ Left' = 0
    BY <1>1, <1>3, <2>1 DEF Readable, Left
  <2>3. Told'
    BY <1>1, <1>2, <2>2 DEF Told
  <2>4. Readable'
    BY <1>1, <1>2, <1>3, <2>1, <2>2 DEF Readable
  <2> QED
    BY <1>3, <2>3, <2>4 DEF CopeInv
<1> QED
  BY <1>5, <1>6, <1>7, <1>8, <1>9, <1>10

(* What an operation that took effect put there is the node its intent or   *)
(* its result names.                                                        *)
LEMMA PerformedIs ==
  ASSUME Fits, NEW c \in 1..Count, Performed(c)
  PROVE  /\ IsQuarantine(c) => quarantine[Root(c)] # None /\ quarantine[Root(c)].id = Subject(c)
         /\ ~IsQuarantine(c) => host[Root(c)] # None /\ host[Root(c)].id = Subject(c)
<1>1. CASE IsQuarantine(c)
  BY <1>1, RootWithin, PlannedNodes DEF Performed, Subject
<1>2. CASE ~IsQuarantine(c) /\ ModeOperation(Operation(c))
  <2>1. PICK p \in Path : p = Root(c)
    BY PlannedOperations DEF Root
  <2>2. PICK b : b = Base(p)
    OBVIOUS
  <2>3. b # None /\ Product(c) # None /\ Product(c) = [b EXCEPT !.mode = After[p].mode]
    BY <1>2, <2>1, <2>2, ModeProduct DEF Product, Root
  <2>4. b \in HostNode /\ b.id = Original
    BY <2>1, <2>2, <2>3, PlannedNodes, PlannedNodesTyped
  <2>5. Product(c).id = Original
    BY <2>3, <2>4 DEF HostNode
  <2> QED
    BY <1>2, <2>3, <2>5 DEF Performed, Subject
<1>3. CASE ~IsQuarantine(c) /\ ~ModeOperation(Operation(c))
  BY <1>3, MadeProduct DEF Performed, Subject
<1> QED
  BY <1>1, <1>2, <1>3

(* The checks of the call leave what recovery needs.                        *)
LEMMA CheckCopes ==
  ASSUME Ready, CallInv, Prepared, CopeInv, Check \/ Verify
  PROVE  CopeInv'
<1>1. PICK n : n = Len(journal)
  OBVIOUS
<1>2. /\ pc = "operate" /\ phase \in {"check", "verify"}
      /\ UNCHANGED <<plan, host, stage, quarantine, entries, torn, journal, state, rpc, report,
                     cursor, touched>>
  BY DEF Check, Verify, InOperation, disk, recovery, editor
<1>3. /\ n \in 1..Count /\ Count \in Nat /\ rpc = "idle" /\ ~Clearing
      /\ Readable /\ Faithful /\ Told
  BY <1>1, <1>2, JournalFits DEF CallInv, Control, Progress, CopeInv, Clearing
<1>4. Still /\ (FinalStateHolds => FinalStateHolds')
  BY <1>2, FinalStill DEF Still
<1>40. state = "Committing" /\ state' = "Committing"
  BY <1>2 DEF CallInv, Control
<1>5. CASE Check
  <2>1. /\ phase = "check" /\ owner' = owner
        /\ (pc' = "operate" /\ phase' = "mutate") \/ (pc' = "resolve" /\ phase' = phase)
    BY <1>5 DEF Check, InOperation, GoOn, Refuse, disk
  <2>2. Faithful'
    BY <1>2, <1>3, <2>1, FaithfulStill DEF Completed
  <2>3. \A i \in 1..Left :
          /\ Operation(i).op = "CreateDirectory" /\ journal[i].done = None /\ host[Root(i)] # None
          => Root(i) \in owner'
    BY <1>2, <1>3, <2>1 DEF Told, Tells
  <2>4. Told'
    <3>1. Left' = Left
      BY <1>2 DEF Left
    <3> QED
      BY <1>3, <1>4, <2>1, <2>3, <3>1, ToldStill
  <2>5. Readable'
    BY <1>2, <1>3, <1>4, <1>40, <2>1 DEF Readable, Clearing
  <2> QED
    BY <2>2, <2>4, <2>5 DEF CopeInv
<1>6. CASE Verify
  <2>1. Current = Operation(n) /\ Current.path = Root(n) /\ phase = "verify" /\ Performed(n)
    BY <1>1, <1>2, <1>3, <1>6 DEF Current, Root, Verify, InOperation, Told
  <2>2. CASE Result(Current)
    <3>1. /\ pc' = "operate" /\ phase' = "done"
          /\ seen' = IF IsQuarantine(n) THEN quarantine[Root(n)].id ELSE host[Root(n)].id
          /\ owner' = IF Operation(n).op = "CreateDirectory" THEN owner \cup {Root(n)} ELSE owner
      BY <1>2, <1>6, <2>1, <2>2 DEF Verify, GoOn, IsQuarantine
    <3>2. seen' = Subject(n)
      BY <1>3, <2>1, <3>1, PerformedIs DEF Ready
    <3>3. Faithful'
      BY <1>2, <1>3, <3>1, FaithfulStill DEF Completed
    <3>4. ASSUME NEW i \in 1..Left, Operation(i).op = "CreateDirectory", journal[i].done = None
          PROVE  Root(i) \in owner'
      <4>1. i = n
        BY <1>1, <1>2, <1>3, <3>4 DEF Left, Faithful
      <4> QED
        BY <3>1, <3>4, <4>1
    <3>5. Told'
      <4>1. Left' = Left
        BY <1>2 DEF Left
      <4> QED
        BY <1>1, <1>3, <1>4, <2>1, <3>1, <3>2, <3>4, <4>1, ToldStill
    <3>6. Readable'
      BY <1>2, <1>3, <1>4, <1>40, <3>1 DEF Readable, Clearing
    <3> QED
      BY <3>3, <3>5, <3>6 DEF CopeInv
  <2>3. CASE ~Result(Current)
    <3>1. pc' = "resolve" /\ owner' = owner /\ phase' = phase
      BY <1>6, <2>3 DEF Verify, Refuse
    <3>2. Operation(n).op # "CreateDirectory"
      BY <2>1, <2>3 DEF Result
    <3>3. Faithful'
      BY <1>2, <1>3, <3>1, FaithfulStill DEF Completed
    <3>4. ASSUME NEW i \in 1..Left, Operation(i).op = "CreateDirectory", journal[i].done = None
          PROVE  FALSE
      BY <1>1, <1>2, <1>3, <3>2, <3>4 DEF Left, Faithful
    <3>5. Told'
      <4>1. Left' = Left
        BY <1>2 DEF Left
      <4> QED
        BY <1>3, <1>4, <3>1, <3>4, <4>1, ToldStill
    <3>6. Readable'
      BY <1>2, <1>3, <1>4, <1>40, <3>1 DEF Readable, Clearing
    <3> QED
      BY <3>3, <3>5, <3>6 DEF CopeInv
  <2> QED
    BY <2>2, <2>3
<1> QED
  BY <1>5, <1>6

(* After the last operation every record is complete, so the markers of the *)
(* created directories are no longer needed.                                *)
LEMMA FinishingCopes ==
  ASSUME Ready, CallInv, CallInv', Prepared, CopeInv,
         ClearMarkers \/ VerifyFinal \/ WriteMarker \/ Finish
  PROVE  CopeInv'
<1>1. /\ pc \in {"operate", "verify", "mark", "finish"} /\ (pc = "operate" => phase = "intent")
      /\ pc' \in {"verify", "mark", "finish", "resolve", "cleanup"}
      /\ pc' = "mark" => FinalStateHolds
      /\ pc' = "finish" => pc = "mark"
      /\ entries' = entries \/ (pc = "mark" /\ entries' = entries \cup {"marker"})
      /\ UNCHANGED <<plan, host, stage, quarantine, torn, journal, rpc, report, cursor, touched>>
  BY DEF ClearMarkers, VerifyFinal, WriteMarker, Finish, Write, InOperation, disk, recovery, editor
<1>2. rpc = "idle" /\ ~Clearing /\ Readable /\ Faithful /\ Told
  BY <1>1 DEF CallInv, Control, CopeInv, Clearing
<1>3. Completed /\ Still /\ (FinalStateHolds => FinalStateHolds')
  BY <1>1, FinalStill DEF Completed, Still
<1>4. Faithful'
  BY <1>1, <1>2, <1>3, FaithfulStill
<1>50. pc' = "resolve" => state' = "Committing"
  BY <1>1 DEF ClearMarkers, VerifyFinal, WriteMarker, Finish, Write, CallInv, Control
<1>5. Readable'
  BY <1>1, <1>2, <1>3, <1>50 DEF Readable, Clearing
<1>6. Told'
  <2>1. Left' = Left /\ Left = Len(journal) /\ Len(journal) \in Nat
    BY <1>1, <1>2, JournalFits DEF Left
  <2>2. \A i \in 1..Left : journal[i].done # None
    BY <1>2, <1>3, <2>1 DEF Faithful
  <2> QED
    BY <1>1, <1>2, <1>3, <2>1, <2>2, ToldStill
<1> QED
  BY <1>4, <1>5, <1>6 DEF CopeInv

(* The way up to the first operation, and what ends a call that did not get *)
(* there.                                                                   *)
LEMMA SetupCopes ==
  ASSUME Ready, CallInv, CallInv', Placed, Prepared, CopeInv, Tolerable,
         \/ RefusePlan \/ Begin \/ CreateWorkspace \/ WritePlan \/ CreateJournal \/ StageContent
         \/ Revalidate \/ EnterCommitting
  PROVE  CopeInv'
<1>1. /\ pc \in {"reserved", "workspace", "plan", "journal", "stage", "revalidate", "enter"}
      /\ pc' \in {"done", "workspace", "plan", "journal", "stage", "revalidate", "enter", "operate", "resolve"}
      /\ pc' = "operate" => pc = "enter"
      /\ pc' = "journal" => "plan" \in entries'
      /\ pc' = "stage" => "journal" \in entries' /\ pc = "journal"
      /\ pc' = "revalidate" => pc = "stage"
      /\ pc' \in {"enter", "resolve"} => pc = "revalidate"
      /\ pc' = "done" => pc = "reserved"
      /\ pc = "reserved" => entries' = entries
      /\ "marker" \in entries' => "marker" \in entries
      /\ UNCHANGED <<plan, torn, journal, phase, rpc, report>>
  BY DEF RefusePlan, Begin, CreateWorkspace, WritePlan, CreateJournal, StageContent, Revalidate,
     EnterCommitting, Write, disk, recovery
<1>2. /\ rpc = "idle" /\ Len(journal) = 0 /\ journal = <<>> /\ phase = "intent" /\ "marker" \notin entries
      /\ pc = "reserved" => entries = {}
      /\ Readable
  BY <1>1, JournalFits DEF CallInv, Control, Marking, CopeInv
<1>3. Faithful' /\ Told'
  BY <1>1, <1>2, NothingToTell
<1>30. pc' = "resolve" => state' = "Revalidating"
  <2>1. ASSUME Revalidate PROVE state' = state /\ state = "Revalidating"
    <3>1. pc = "revalidate" /\ state = "Revalidating" /\ touched = {} /\ Fits
      BY <2>1 DEF Revalidate, CallInv, Control, Tolerable, Alone, Ready
    <3>2. Reached(0)
      BY <1>2, <3>1 DEF Placed, Extent, Frontier, Pending
    <3>3. \A p \in Dependencies : host[p] = Base(p)
      <4>1. Dependencies \subseteq Path
        BY DEF Dependencies, Changed
      <4> QED
        BY <3>1, <3>2, <4>1, NothingReached
    <3> QED
      BY <2>1, <3>1, <3>3 DEF Revalidate
  <2>2. pc' = "resolve" => Revalidate
    BY <1>1 DEF RefusePlan, Begin, CreateWorkspace, WritePlan, CreateJournal, StageContent,
       EnterCommitting, Write
  <2> QED
    BY <2>1, <2>2
<1>4. CASE entries \subseteq entries'
  <2>1. Readable'
    BY <1>1, <1>2, <1>30, <1>4 DEF Readable, Clearing
  <2> QED
    BY <1>3, <2>1 DEF CopeInv
<1>5. CASE CreateWorkspace
  <2>1. pc' = "plan" /\ entries' = {"directory"}
    BY <1>5 DEF CreateWorkspace
  <2>2. Readable'
    BY <1>1, <1>2, <2>1 DEF Readable, Clearing
  <2> QED
    BY <1>3, <2>2 DEF CopeInv
<1>6. entries \subseteq entries' \/ CreateWorkspace
  BY DEF RefusePlan, Begin, WritePlan, CreateJournal, StageContent, Revalidate, EnterCommitting,
     Write, disk
<1> QED
  BY <1>4, <1>5, <1>6

(* resolve_commit_result, and the end of a cleanup.                         *)
LEMMA EndingCopes ==
  ASSUME Ready, CallInv, Prepared, CopeInv, Tolerable, Resolve \/ CleanedUp
  PROVE  CopeInv'
<1>1. /\ UNCHANGED <<plan, host, owner, stage, quarantine, entries, torn, journal, rpc, report, cursor,
                     touched>>
      /\ pc \in {"resolve", "cleanup"} /\ pc' \in {"done", "cleanup"}
  BY DEF Resolve, CleanedUp, Return, disk, recovery, editor
<1>2. rpc = "idle" /\ Readable /\ Faithful /\ (FinalStateHolds => FinalStateHolds')
  BY <1>1, FinalStill DEF CallInv, Control, CopeInv
<1>3. Faithful'
  BY <1>1, <1>2, FaithfulStill DEF Completed
<1>4. CASE Resolve
  <2>2. /\ pc = "resolve" /\ state' \in {state, Resolution}
        /\ state = "Committing" => pc' = "done"
        /\ state # "Committing" => pc' = "cleanup"
    BY <1>4 DEF Resolve, Return
  <2>3. ~Clearing /\ Told
    BY <1>2, <2>2 DEF Clearing, CopeInv
  <2>4. Readable'
    BY <1>1, <1>2, <2>2, <2>3 DEF Readable, Clearing, Resolution
  <2>5. Told'
    <3>1. Left' = Left /\ Still
      BY <1>1 DEF Left, Still
    <3>2. \A i \in 1..Left :
            /\ Operation(i).op = "CreateDirectory" /\ journal[i].done = None /\ host[Root(i)] # None
            => Root(i) \in owner'
      BY <1>1, <2>2, <2>3 DEF Told, Tells
    <3> QED
      BY <1>1, <2>3, <3>1, <3>2, ToldStill
  <2> QED
    BY <1>3, <2>4, <2>5 DEF CopeInv
<1>5. CASE CleanedUp
  <2>1. pc' = "done" /\ entries = {}
    BY <1>5 DEF CleanedUp, Return
  <2>2. journal = <<>> /\ Left' = 0
    BY <1>1, <1>2, <2>1 DEF Readable, Left
  <2>3. Told'
    BY <1>1, <2>1, <2>2 DEF Told
  <2>4. Readable'
    BY <1>1, <1>2, <2>1, <2>2 DEF Readable, Clearing
  <2> QED
    BY <1>3, <2>3, <2>4 DEF CopeInv
<1> QED
  BY <1>4, <1>5

(* remove_dir_all takes the journal with its entry, and nothing is undone   *)
(* any more.                                                                *)
LEMMA RemovalCopes ==
  ASSUME Ready, CallInv, Prepared, CopeInv, Cleanup \/ CleanRecovered
  PROVE  CopeInv'
<1>1. PICK e \in entries : Removed(e)
  BY DEF Cleanup, CleanRecovered, RemoveEntry
<1>2. /\ entries' = entries \ {e} /\ torn' = torn \ {e}
      /\ journal' = IF e = "journal" THEN <<>> ELSE journal
      /\ UNCHANGED <<plan, state, phase, pc, rpc, report>>
  BY <1>1 DEF Removed, Cleanup, CleanRecovered, RemoveEntry
<1>3. Clearing /\ Clearing' /\ pc \in {"cleanup", "done"} /\ rpc \in {"idle", "cleanup"}
  BY <1>2 DEF Cleanup, CleanRecovered, Clearing, CallInv, Control
<1>4. Readable /\ Faithful
  BY DEF CopeInv
<1>5. Readable'
  BY <1>2, <1>3, <1>4 DEF Readable
<1>6. Faithful'
  <2>1. CASE journal' = journal
    BY <1>2, <1>3, <1>4, <2>1, FaithfulStill DEF Completed
  <2>2. CASE journal' = <<>>
    BY <2>2 DEF Faithful
  <2> QED
    BY <1>2, <2>1, <2>2
<1> QED
  BY <1>3, <1>5, <1>6 DEF CopeInv

(* While operations are performed there is no marker, and the workspace     *)
(* shows the operations before the current one.                             *)
LEMMA OperatingIs ==
  ASSUME Ready, CallInv, Placed, Tolerable, CopeInv, pc = "operate"
  PROVE  /\ rpc = "idle" /\ "marker" \notin entries /\ Left = Len(journal) /\ ~Clearing
         /\ touched = {} /\ state = "Committing" /\ Readable /\ Faithful /\ Told
         /\ Frontier \in Int /\ Reached(Frontier)
<1>1. /\ rpc = "idle" /\ "marker" \notin entries /\ state = "Committing" /\ touched = {}
      /\ Len(journal) \in Nat
  BY JournalFits DEF CallInv, Control, Marking, Tolerable, Alone
<1>2. Frontier \in Int /\ Extent = Frontier
  BY <1>1 DEF Frontier, Extent
<1> QED
  BY <1>1, <1>2 DEF Placed, CopeInv, Clearing, Left

(* The parent an intent names is Above when the directory on disk is.       *)
LEMMA ParentIdIs ==
  ASSUME NEW c, NEW p \in Path, p = Root(c), Len(p) > 1 => host[Front(p)].id = Above(c)
  PROVE  ParentId(p) = Above(c)
<1>1. PICK d \in Nat : d = Len(p) /\ d > 0
  BY DepthIsNatural
<1>2. CASE d = 1
  <2>1. ParentId(p) = Original
    BY <1>1, <1>2 DEF ParentId
  <2>2. Above(c) = Original
    BY <1>1, <1>2 DEF Above
  <2> QED
    BY <2>1, <2>2
<1>3. CASE d > 1
  <2>1. ~(Len(p) = 1)
    BY <1>1, <1>3
  <2>2. Len(p) > 1
    BY <1>1, <1>3
  <2>3. ParentId(p) = host[Front(p)].id
    BY <2>1 DEF ParentId, Parent
  <2> QED
    BY <2>2, <2>3
<1> QED
  BY <1>1, <1>2, <1>3

(* An intent names the parent and the node the operation finds.             *)
LEMMA IntentNames ==
  ASSUME Ready, CallInv, Journaled, Placed, Prepared, Tolerable, CopeInv, pc = "operate",
         phase = "intent", NEW c \in 1..Count, c = Len(journal) + 1, NEW o, o = Operation(c),
         NEW s \in Source(o), NEW p, p = Root(c)
  PROVE  /\ ParentId(o.path) = Above(c)
         /\ ModeOperation(o) => s = Original
         /\ o.op = "InstallSymlink" => s = Made
         /\ Installs(c) => stage[p] = New(p)
         /\ ~IsQuarantine(c) /\ ~ModeOperation(o) => host[p] = None /\ New(p) # None
<1>1. /\ Faithful /\ Told /\ touched = {} /\ Left = Len(journal) /\ Fits
      /\ Count \in Nat /\ Len(journal) \in Nat /\ p \in Path /\ o.path = p
  BY OperatingIs, JournalFits, PlannedOperations DEF Ready, Root
<1>2. Frontier = Len(journal) /\ Len(journal) < c
  BY <1>1 DEF Frontier, Pending
<1>3. PICK k : k = Len(journal)
  OBVIOUS
<1>4. k \in Int /\ k < c /\ Reached(k)
  BY <1>1, <1>2, <1>3, OperatingIs
<1>5. Reached(c)
  BY <1>1, <1>4, ReachedMore
<1>6. \A i \in 1..(c - 1) : Performed(i)
  <2>1. Completed
    BY DEF Completed
  <2> QED
    BY <1>1, <2>1 DEF Faithful, Told, Tells
<1>7. ParentId(o.path) = Above(c)
  <2>1. Len(p) > 1 => host[Front(p)].id = Above(c)
    BY <1>1, <1>5, <1>6, ParentOnDisk
  <2> QED
    BY <1>1, <2>1, ParentIdIs
<1>8. ~IsQuarantine(c) => host[p] = Ground(p)
  BY <1>1, <1>4, NotYet
<1>9. ModeOperation(o) => s = Original
  <2> SUFFICES ASSUME ModeOperation(o) PROVE s = Original
    OBVIOUS
  <2>1. ~IsQuarantine(c) /\ o.op \in {"SetFileMode", "SetDirectoryMode"}
    BY DEF IsQuarantine, ModeOperation
  <2>2. Ground(p) = Base(p) /\ Base(p) # None /\ Base(p).id = Original
    BY <1>1, ModeProduct, PlannedNodes
  <2>3. s = host[p].id
    BY <1>1, <2>1 DEF Source
  <2> QED
    BY <1>8, <2>1, <2>2, <2>3
<1>10. Installs(c) => stage[p] = New(p)
  BY <1>1, <1>2 DEF Journaled, Staged
<1>11. ~IsQuarantine(c) /\ ~ModeOperation(o) => host[p] = None /\ New(p) # None /\ New(p).id = Made
  <2> SUFFICES ASSUME ~IsQuarantine(c), ~ModeOperation(o)
               PROVE  host[p] = None /\ New(p) # None /\ New(p).id = Made
    OBVIOUS
  <2>1. \A i \in 1..Count : IsQuarantine(i) /\ i < c => quarantine[Root(i)] = Base(Root(i))
    BY <1>1, <1>6 DEF Performed
  <2>2. Ground(p) = None
    BY <1>1, <2>1, MadeOnBareGround
  <2> QED
    BY <1>1, <1>8, <2>2, MadeProduct
<1>12. o.op = "InstallSymlink" => s = Made
  <2> SUFFICES ASSUME o.op = "InstallSymlink" PROVE s = Made
    OBVIOUS
  <2>1. s = stage[p].id /\ Installs(c) /\ ~IsQuarantine(c) /\ ~ModeOperation(o)
    BY <1>1 DEF Source, Installs, IsQuarantine, ModeOperation
  <2> QED
    BY <1>10, <1>11, <2>1
<1> QED
  BY <1>7, <1>9, <1>10, <1>11, <1>12

(* Writing an intent.                                                       *)
LEMMA IntentCopes ==
  ASSUME Ready, CallInv, CallInv', Journaled, Placed, Prepared, Tolerable, CopeInv, Intent
  PROVE  CopeInv'
<1> DEFINE n == Len(journal)
<1>1. PICK c : c = n + 1
  OBVIOUS
<1> DEFINE o == Operation(c)
           q == ParentId(o.path)
<1>2. /\ pc = "operate" /\ phase = "intent" /\ n < Count
      /\ UNCHANGED <<plan, host, owner, quarantine, stage, touched, entries, torn, state, rpc, report,
                     cursor>>
      /\ \/ pc' = "resolve" /\ journal' = journal /\ phase' = phase
         \/ \E s \in Source(o) :
              /\ journal' = Append(journal, [source |-> s, parent |-> q, done |-> None])
              /\ pc' = "operate" /\ phase' = "check"
  BY <1>1 DEF Intent, InOperation, Refuse, GoOn, recovery, editor
<1>3. /\ rpc = "idle" /\ "marker" \notin entries /\ Left = n /\ ~Clearing /\ state = "Committing"
      /\ Readable /\ Faithful /\ Told /\ Completed
  BY <1>2, OperatingIs DEF Completed
<1>4. n \in Nat /\ Count \in Nat /\ c \in 1..Count
  BY <1>1, <1>2, JournalFits
<1>5. \A i \in 1..n : journal[i].done # None /\ Names(i) /\ Tells(i)
  BY <1>3, <1>4 DEF Faithful, Told
<1>6. Readable'
  BY <1>2, <1>3 DEF Readable, Clearing
<1>7. CASE pc' = "resolve" /\ journal' = journal /\ phase' = phase
  <2>1. Still /\ Left' = Left
    BY <1>2, <1>3, <1>7 DEF Still, Left
  <2>2. Faithful'
    BY <1>2, <1>3, <1>7, FaithfulStill
  <2>3. Told'
    BY <1>3, <1>5, <1>7, <2>1, ToldStill
  <2> QED
    BY <1>6, <2>2, <2>3 DEF CopeInv
<1>8. ASSUME NEW s \in Source(o), pc' = "operate", phase' = "check",
             journal' = Append(journal, [source |-> s, parent |-> q, done |-> None])
      PROVE  CopeInv'
  <2>1. /\ Len(journal') = c
        /\ \A i \in 1..n : journal'[i] = journal[i]
        /\ journal'[c].source = s /\ journal'[c].parent = q /\ journal'[c].done = None
    <3> HIDE DEF q
    <3>1. /\ Len(journal') = n + 1
          /\ \A i \in 1..n : journal'[i] = journal[i]
          /\ journal'[Len(journal')] = [source |-> s, parent |-> q, done |-> None]
      BY <1>8, JournalGrows DEF Ready
    <3> QED
      BY <1>1, <3>1
  <2>2. /\ q = Above(c)
        /\ ModeOperation(o) => s = Original
        /\ o.op = "InstallSymlink" => s = Made
        /\ Installs(c) => stage[Root(c)] = New(Root(c))
        /\ ~IsQuarantine(c) /\ ~ModeOperation(o) => host[Root(c)] = None /\ New(Root(c)) # None
    BY <1>1, <1>2, <1>4, <1>8, IntentNames
  <2>3. /\ \A i : Above(i)' = Above(i) /\ Subject(i)' = Subject(i) /\ Operation(i)' = Operation(i)
        /\ \A i : Root(i)' = Root(i) /\ \A p : New(p)' = New(p)
    BY <1>2, PlanStays DEF Above, ParentMade, Subject
  <2> HIDE DEF o, q
  <2>4. Names(c)'
    BY <2>1, <2>2, <2>3 DEF Names, o
  <2>5. Tells(c)'
    <3>1. /\ Operation(c).op = "InstallFile" => Installs(c)
          /\ Operation(c).op \in {"CreateDirectory", "InstallSymlink"} => ~IsQuarantine(c) /\ ~ModeOperation(o)
      BY DEF Installs, IsQuarantine, ModeOperation, o
    <3> QED
      BY <1>2, <2>1, <2>2, <2>3, <3>1 DEF Tells
  <2>6. ASSUME NEW i \in 1..n PROVE Names(i)' /\ Tells(i)' /\ journal'[i].done # None
    <3>1. i \in 1..Count /\ journal'[i] = journal[i] /\ journal[i].done # None /\ Names(i) /\ Tells(i)
      BY <1>2, <1>4, <1>5, <2>1
    <3>2. Names(i)'
      BY <2>3, <3>1 DEF Names
    <3>3. Tells(i)'
      BY <1>2, <3>1, TellsKept
    <3> QED
      BY <3>1, <3>2, <3>3
  <2>7. Faithful' /\ Told'
    <3>1. Left' = c /\ Len(journal') = c /\ Completed' = FALSE
      BY <1>2, <1>3, <1>8, <2>1 DEF Left, Completed
    <3>2. \A i \in 1..c : i # c => i \in 1..n
      BY <1>1, <1>4
    <3>3. \A i \in 1..c : Names(i)' /\ Tells(i)'
      BY <2>4, <2>5, <2>6, <3>2
    <3>4. \A i \in 1..c : i < c => journal'[i].done # None
      BY <1>4, <2>6, <3>2
    <3> QED
      BY <1>8, <3>1, <3>3, <3>4 DEF Faithful, Told
  <2> QED
    BY <1>6, <2>7 DEF CopeInv
<1> QED
  BY <1>2, <1>7, <1>8

(* Writing a done record.                                                   *)
LEMMA DoneCopes ==
  ASSUME Ready, CallInv, CallInv', Placed, Prepared, Tolerable, CopeInv, Done
  PROVE  CopeInv'
<1>1. PICK n : n = Len(journal)
  OBVIOUS
<1>2. /\ pc = "operate" /\ phase = "done" /\ pc' = "operate" /\ phase' = "intent"
      /\ UNCHANGED <<plan, host, owner, quarantine, stage, touched, entries, torn, state, rpc, report,
                     cursor>>
      /\ journal' = [journal EXCEPT ![Len(journal)].done = seen]
  BY DEF Done, InOperation, GoOn, recovery, editor
<1>3. /\ rpc = "idle" /\ "marker" \notin entries /\ Left = n /\ ~Clearing /\ state = "Committing"
      /\ Readable /\ Faithful /\ Told
  BY <1>1, <1>2, OperatingIs
<1>4. n \in Nat /\ n > 0 /\ Count \in Nat /\ n \in 1..Count
  BY <1>1, <1>2, JournalFits DEF CallInv, Progress
<1>5. /\ Len(journal') = n
      /\ \A i \in 1..n : i # n => journal'[i] = journal[i]
      /\ journal'[n].done = seen /\ journal'[n].source = journal[n].source
      /\ journal'[n].parent = journal[n].parent
  BY <1>1, <1>2, <1>4, JournalCompletes DEF Ready
<1>6. seen = Subject(n) /\ seen # None /\ Performed(n)
  BY <1>1, <1>2, <1>3, ProtocolAssumption DEF Told, Subject, Original, Made
<1>7. /\ \A i : Above(i)' = Above(i) /\ Subject(i)' = Subject(i) /\ Operation(i)' = Operation(i)
      /\ \A i : Root(i)' = Root(i) /\ Performed(i)' = Performed(i)
      /\ \A p : New(p)' = New(p)
  BY <1>2, PlanStays DEF Above, ParentMade, Subject, Performed
<1>8. ASSUME NEW i \in 1..n PROVE Names(i)' /\ Tells(i)' /\ journal'[i].done # None
  <2>1. i \in 1..Count /\ Names(i) /\ Tells(i) /\ (i # n => journal[i].done # None)
    BY <1>1, <1>3, <1>4 DEF Faithful, Told
  <2>2. CASE i = n
    <3>1. Names(i)'
      BY <1>5, <1>6, <1>7, <2>1, <2>2 DEF Names
    <3>2. Tells(i)'
      BY <1>2, <1>5, <1>6, <1>7, <2>1, <2>2 DEF Tells
    <3> QED
      BY <1>5, <1>6, <2>2, <3>1, <3>2
  <2>3. CASE i # n
    <3>1. journal'[i] = journal[i] /\ journal[i].done # None
      BY <1>5, <2>1, <2>3
    <3>2. Names(i)'
      BY <1>7, <2>1, <3>1 DEF Names
    <3>3. Tells(i)'
      BY <1>2, <2>1, <3>1, TellsKept
    <3> QED
      BY <3>1, <3>2, <3>3
  <2> QED
    BY <2>2, <2>3
<1>9. Faithful' /\ Told'
  <2>1. Left' = n
    BY <1>2, <1>3, <1>5 DEF Left
  <2> QED
    BY <1>2, <1>5, <1>8, <2>1 DEF Faithful, Told
<1>10. Readable'
  BY <1>2, <1>3 DEF Readable, Clearing
<1> QED
  BY <1>9, <1>10 DEF CopeInv

(* What a system call changes besides its own node or subtree: nothing.     *)
LEMMA CallFrame ==
  ASSUME Fits, Domains, NEW c \in 1..Count, Call(Operation(c)), NEW p, p = Root(c)
  PROVE  /\ IsQuarantine(c) => /\ quarantine' = Moved(host, quarantine, p)
                               /\ host' = Without(host, p) /\ stage' = stage
         /\ ~IsQuarantine(c) => /\ quarantine' = quarantine
                                /\ \A x \in Path : x # p => host'[x] = host[x] /\ stage'[x] = stage[x]
         /\ Operation(c).op = "InstallFile" => stage' = stage
         /\ Operation(c).op = "InstallSymlink" => stage'[p] = None
<1> DEFINE o == Operation(c)
<1>1. p \in Path /\ o.path = p /\ o.op \in OperationNames /\ (IsQuarantine(c) <=> o.op = "Quarantine")
  BY PlannedOperations DEF Root, IsQuarantine
<1>2. Call(o) /\ DOMAIN host = Path /\ DOMAIN stage = Path
  BY DEF Domains
<1> HIDE DEF o
<1>3. CASE o.op = "Quarantine"
  BY <1>1, <1>2, <1>3 DEF Call, o
<1>4. CASE o.op # "Quarantine"
  <2>1. /\ quarantine' = quarantine
        /\ stage' = stage \/ (o.op = "InstallSymlink" /\ stage' = [stage EXCEPT ![p] = None])
        /\ o.op = "InstallSymlink" => stage' = [stage EXCEPT ![p] = None]
    BY <1>1, <1>2, <1>4 DEF Call, OperationNames
  <2>2. \E node : host' = [host EXCEPT ![p] = node]
    <3>1. CASE o.op = "CreateDirectory"
      BY <1>1, <1>2, <3>1 DEF Call
    <3>2. CASE o.op \in {"InstallFile", "InstallSymlink"}
      BY <1>1, <1>2, <3>2 DEF Call
    <3>3. CASE o.op \in {"SetFileMode", "SetDirectoryMode"}
      <4>1. host' = [host EXCEPT ![p].mode = After[p].mode]
        BY <1>1, <1>2, <3>3 DEF Call
      <4>2. host' = [host EXCEPT ![p] = [host[p] EXCEPT !.mode = After[p].mode]]
        BY <4>1
      <4> QED
        BY <4>2
    <3> QED
      BY <1>1, <1>4, <3>1, <3>2, <3>3 DEF OperationNames
  <2>3. \A x \in Path : x # p => host'[x] = host[x]
    BY <1>1, <1>2, <2>2
  <2>4. /\ \A x \in Path : x # p => stage'[x] = stage[x]
        /\ o.op = "InstallSymlink" => stage'[p] = None
    BY <1>1, <1>2, <2>1
  <2> QED
    BY <1>1, <1>4, <2>1, <2>3, <2>4 DEF o
<1> QED
  BY <1>3, <1>4

(* So the earlier operations are not disturbed by it.                       *)
LEMMA CallKeeps ==
  ASSUME Fits, Domains, NEW c \in 1..Count, Call(Operation(c)), NEW i \in 1..(c - 1), Tells(i),
         journal[i].done # None, UNCHANGED <<plan, journal>>
  PROVE  Tells(i)'
<1>1. i \in 1..Count /\ i # c /\ i < c /\ Count \in Nat
  BY PlannedOperations
<1>2. Root(i) \in Path /\ Root(c) \in Path /\ (IsQuarantine(i) => Root(i) \in Within(Root(i)))
  BY <1>1, PlannedOperations, RootWithin DEF Root
<1>3. CASE IsQuarantine(c)
  <2>1. /\ quarantine' = Moved(host, quarantine, Root(c)) /\ host' = Without(host, Root(c))
        /\ stage' = stage
    BY <1>3, CallFrame
  <2>2. Root(i) \notin Within(Root(c))
    BY <1>1, <1>2, <1>3, PlannedOperations DEF Makes, Root
  <2>3. host'[Root(i)] = host[Root(i)] /\ quarantine'[Root(i)] = quarantine[Root(i)]
    BY <1>2, <2>1, <2>2 DEF Moved, Without
  <2> QED
    BY <1>1, <2>1, <2>3, TellsKept
<1>4. CASE ~IsQuarantine(c)
  <2>1. /\ quarantine' = quarantine
        /\ \A x \in Path : x # Root(c) => host'[x] = host[x] /\ stage'[x] = stage[x]
    BY <1>4, CallFrame
  <2>2. ~IsQuarantine(i) => Root(i) # Root(c)
    BY <1>1, <1>4, PlannedOperations DEF Makes, Root
  <2> QED
    BY <1>1, <1>2, <2>1, <2>2, TellsKept
<1> QED
  BY <1>3, <1>4

(* The system call.                                                         *)
LEMMA MutateCopes ==
  ASSUME Ready, CallInv, CallInv', Journaled, Journaled', Placed, Prepared, Tolerable, CopeInv, Mutate
  PROVE  CopeInv'
<1>1. PICK n : n = Len(journal)
  OBVIOUS
<1>2. /\ pc = "operate" /\ phase = "mutate" /\ Current = Operation(n)
      /\ UNCHANGED <<plan, owner, touched, entries, torn, journal, state, rpc, report, cursor>>
      /\ \/ Call(Operation(n)) /\ pc' = "operate" /\ phase' = "verify"
         \/ pc' = "resolve" /\ phase' = phase /\ UNCHANGED <<host, stage, quarantine>>
  BY <1>1 DEF Mutate, InOperation, GoOn, Refuse, Current, recovery, editor
<1>3. /\ rpc = "idle" /\ "marker" \notin entries /\ Left = n /\ ~Clearing /\ state = "Committing"
      /\ touched = {} /\ Readable /\ Faithful /\ Told
  BY <1>1, <1>2, OperatingIs
<1>4. n \in Nat /\ n > 0 /\ Count \in Nat /\ n \in 1..Count
  BY <1>1, <1>2, JournalFits DEF CallInv, Progress
<1>5. Readable'
  BY <1>2, <1>3 DEF Readable, Clearing
<1>6. Faithful'
  BY <1>2, <1>3, FaithfulStill DEF Completed
<1>7. Left' = n /\ Len(journal') = n
  BY <1>1, <1>2, <1>3 DEF Left
<1>8. CASE pc' = "resolve" /\ UNCHANGED <<host, stage, quarantine>>
  <2>1. Still
    BY <1>2, <1>8 DEF Still
  <2>2. \A i \in 1..Left :
          /\ Operation(i).op = "CreateDirectory" /\ journal[i].done = None /\ host[Root(i)] # None
          => Root(i) \in owner'
    BY <1>2, <1>3 DEF Told, Tells
  <2>3. Told'
    BY <1>3, <1>7, <1>8, <2>1, <2>2, ToldStill
  <2> QED
    BY <1>5, <1>6, <2>3 DEF CopeInv
<1>9. CASE Call(Operation(n)) /\ pc' = "operate" /\ phase' = "verify"
  <2>1. /\ \A i : /\ Root(i)' = Root(i) /\ IsQuarantine(i)' = IsQuarantine(i) /\ Product(i)' = Product(i)
                  /\ Operation(i)' = Operation(i)
        /\ \A p : Base(p)' = Base(p) /\ New(p)' = New(p)
    BY <1>2, PlanStays
  <2>2. Frontier' = n
    BY <1>7, <1>9 DEF Frontier, Pending
  <2>3. /\ \A i \in 1..Count : IsQuarantine(i) /\ i <= n => quarantine'[Root(i)] = Base(Root(i))
        /\ ~IsQuarantine(n) => host'[Root(n)] = Product(n)
    <3>1. Underway'
      BY <1>9 DEF Journaled
    <3>2. Count' = Count
      BY <1>2, PlanStays
    <3> QED
      BY <1>2, <1>3, <1>7, <1>9, <2>1, <2>2, <3>1, <3>2 DEF Underway
  <2>4. Performed(n)'
    BY <1>4, <2>1, <2>3 DEF Performed
  <2>5. Tells(n)'
    <3>1. Operation(n).op = "InstallFile" => stage'[Root(n)] = New(Root(n))
      BY <1>3, <1>4, <1>9, CallFrame DEF Ready, Told, Tells
    <3>2. Operation(n).op = "InstallSymlink" => stage'[Root(n)] = None
      BY <1>4, <1>9, CallFrame DEF Ready
    <3> QED
      BY <1>9, <2>1, <2>4, <3>1, <3>2 DEF Tells
  <2>6. ASSUME NEW i \in 1..n PROVE Tells(i)'
    <3>1. CASE i = n
      BY <2>5, <3>1
    <3>2. CASE i # n
      <4>1. i \in 1..(n - 1) /\ Tells(i) /\ journal[i].done # None
        BY <1>1, <1>3, <1>4, <3>2 DEF Told, Faithful
      <4> QED
        BY <1>2, <1>4, <1>9, <4>1, CallKeeps DEF Ready
    <3> QED
      BY <3>1, <3>2
  <2>7. Told'
    BY <1>7, <1>9, <2>4, <2>6 DEF Told
  <2> QED
    BY <1>5, <1>6, <2>7 DEF CopeInv
<1> QED
  BY <1>2, <1>8, <1>9

(* Every step leaves what recovery needs.                                   *)
LEMMA StepCopes ==
  ASSUME Inv, Inv', Prepared, Tolerable, CopeInv, Next, ~(\E p \in Path : Edit(p)),
         Journaled, Journaled', Placed
  PROVE  CopeInv'
<1>1. Ready /\ CallInv /\ CallInv'
  BY DEF Inv
<1>2. CASE Calm
  BY <1>1, <1>2, SetupCopes, CheckCopes, FinishingCopes, EndingCopes, RecoveryStepCopes, FaultCopes
     DEF Calm
<1>3. CASE ~Calm
  BY <1>1, <1>3, StepKinds, SetupCopes, IntentCopes, MutateCopes, DoneCopes, RemovalCopes, RollbackCopes
<1> QED
  BY <1>2, <1>3

(* The plan is what prepare made of two well-formed trees, and recovery     *)
(* copes as long as the faults are tolerable.                               *)
Coping == Prepared /\ (Tolerable => CopeInv)

(* It does for a reserved transaction.                                      *)
LEMMA InitCopes == Init => Coping
<1> SUFFICES ASSUME Init PROVE Coping
  OBVIOUS
<1>1. Prepared
  <2>1. PICK j \in Jobs : plan = [before |-> j.before, after |-> j.after,
                                  operations |-> Prepare(j.before, j.after)]
    BY DEF Init
  <2>2. Before = j.before /\ After = j.after /\ plan.operations = Prepare(j.before, j.after)
    BY <2>1 DEF Before, After
  <2> QED
    BY <2>2, ProtocolAssumption DEF Prepared
<1>2. Len(journal) = 0 /\ pc = "reserved" /\ rpc = "idle"
  BY DEF Init
<1>3. Readable
  BY DEF Init, Readable, Clearing
<1>4. Faithful /\ Told
  BY <1>2 DEF Faithful, Told, Left
<1> QED
  BY <1>1, <1>3, <1>4 DEF Coping, CopeInv

(* ... and in every step.                                                   *)
LEMMA NextCopes == Inv /\ Inv' /\ Coping /\ [Next]_vars => Coping'
<1> SUFFICES ASSUME Inv, Inv', Coping, [Next]_vars PROVE Coping'
  OBVIOUS
<1>1. CASE Next
  <2>1. Prepared'
    BY <1>1, PlanNeverChanges DEF Coping, Prepared, Before, After
  <2>2. ASSUME Tolerable' PROVE CopeInv'
    <3>1. Tolerable /\ ~(\E p \in Path : Edit(p))
      BY <1>1, <2>2, LateBefore DEF Inv
    <3>2. Journaled /\ Placed /\ Journaled'
      BY <2>2, <3>1 DEF Inv, Quiet, Tolerable
    <3> QED
      BY <1>1, <3>1, <3>2, StepCopes DEF Coping
  <2> QED
    BY <2>1, <2>2 DEF Coping
<1>2. CASE UNCHANGED vars
  <2>1. /\ UNCHANGED <<plan, host, owner, stage, quarantine, entries, torn, journal>>
        /\ UNCHANGED <<state, lock, pc, phase, seen, rpc, cursor, found, report, touched, foreign, trouble>>
    BY <1>2 DEF vars, disk, commit, recovery, editor
  <2>2. Prepared' /\ (Tolerable' => Tolerable)
    BY <2>1 DEF Coping, Prepared, Before, After, Tolerable, Alone
  <2>3. ASSUME CopeInv PROVE CopeInv'
    <3>1. Still /\ Left' = Left /\ (FinalStateHolds => FinalStateHolds')
      BY <2>1, FinalStill DEF Still, Left
    <3>2. Readable' /\ (Clearing' <=> Clearing)
      BY <2>1, <2>3, <3>1 DEF CopeInv, Readable, Clearing
    <3>3. Faithful'
      BY <2>1, <2>3, FaithfulStill DEF CopeInv, Completed
    <3>4. ASSUME Told PROVE Told'
      BY <2>1, <3>1, <3>4, ToldStill DEF Told, Tells, Inv
    <3> QED
      BY <2>3, <3>2, <3>3, <3>4 DEF CopeInv
  <2> QED
    BY <2>2, <2>3 DEF Coping
<1> QED
  BY <1>1, <1>2

(* recover never fails to read what an interrupted commit left, and never   *)
(* reports a conflict (recover_transaction, rollback_operation,             *)
(* infer_applied, undo_operation), whatever the plan and however many steps *)
(* of the call or of earlier recoveries are cut off or fail in a tree where *)
(* nobody else works: the journal, the stage and the quarantine tell each   *)
(* operation that took effect from one that did not.  Tolerable names the   *)
(* five places it does not hold for: a fault in the set-up, between mkdir   *)
(* and its owner marker, in the completion marker, in a rollback that has   *)
(* begun or in the removal of the transaction directory.                    *)
THEOREM CommitRecoveryCopes == Spec => []RecoveryCopes
<1>1. Inv /\ Coping => RecoveryCopes
  BY DEF Coping, CopeInv, Readable, RecoveryCopes, RecoveryReads, NoConflict
<1>2. Spec => []Coping
  BY InitCopes, NextCopes, SpecInv, PTL DEF Spec
<1> QED
  BY <1>1, <1>2, SpecInv, PTL

-----------------------------------------------------------------------------
(* The plan by itself (PlanReplay), on a tree nobody else touches: for      *)
(* every finite set of paths and every acceptable pair of trees it can be   *)
(* performed from beginning to end and undone from any point, and both ends *)
(* are exactly the trees they should be.                                    *)
-----------------------------------------------------------------------------
(* The tree after the first k operations.                                   *)

Leaves(o) == o.op = "Quarantine"
Establishes(o) == ~Leaves(o) /\ ~ModeOperation(o)

Gone(ops, k, p) == \E i \in 1..k : Leaves(ops[i]) /\ p \in Within(ops[i].path)
Established(ops, k, p) == \E i \in 1..k : Establishes(ops[i]) /\ ops[i].path = p
Moded(ops, k, p) == \E i \in 1..k : ModeOperation(ops[i]) /\ ops[i].path = p

At(old, new, ops, k) ==
  [p \in Path |->
     IF Established(ops, k, p) THEN new[p]
     ELSE IF Gone(ops, k, p) THEN None
     ELSE IF Moded(ops, k, p) THEN [old[p] EXCEPT !.mode = new[p].mode]
     ELSE old[p]]

(* A transaction the committer accepts, and its plan.                       *)
Planned(old, new, ops) ==
  /\ old \in Tree /\ new \in Tree /\ WellFormed(old) /\ WellFormed(new)
  /\ Acceptable(old, new)
  /\ ops = Prepare(old, new)

(* What the lemmas on prepare say of such a plan.                           *)
LEMMA PlannedIs ==
  ASSUME NEW old, NEW new, NEW ops, Planned(old, new, ops)
  PROVE  /\ Len(ops) \in Nat
         /\ \A i \in 1..Len(ops) : ops[i] \in Listed(old, new) /\ ops[i] \in OperationType
                                   /\ ops[i].path \in Path
         /\ \A o \in Listed(old, new) : \E i \in 1..Len(ops) : ops[i] = o
         /\ \A i, j \in 1..Len(ops) : i < j => StandsBefore(old, new, ops[i], ops[j])
<1>1. Arranges(ops, Listed(old, new))
      /\ \A i, j \in 1..Len(ops) : i < j => StandsBefore(old, new, ops[i], ops[j])
  BY PlanOrder DEF Planned
<1>2. Len(ops) \in Nat /\ \A i \in 1..Len(ops) : ops[i] \in Listed(old, new)
  BY <1>1 DEF Arranges
<1>3. \A o \in Listed(old, new) : \E i \in 1..Len(ops) : ops[i] = o
  BY <1>1 DEF Arranges
<1>4. \A o \in Listed(old, new) : o \in OperationType
  BY ListedIs
<1>5. \A o \in OperationType : o.path \in Path
  BY DEF OperationType
<1> QED
  BY <1>1, <1>2, <1>3, <1>4, <1>5

(* The shape of a plan, taken pair by pair.                                 *)
LEMMA PlannedShape ==
  ASSUME NEW old, NEW new, NEW ops, Planned(old, new, ops)
  PROVE  /\ \A i \in 1..Len(ops) : Suits(old, new, ops[i])
         /\ \A i, j \in 1..Len(ops) : Leaves(ops[i]) /\ Leaves(ops[j]) /\ i # j =>
              Within(ops[i].path) \cap Within(ops[j].path) = {}
         /\ \A i, j \in 1..Len(ops) : ~Leaves(ops[i]) /\ ~Leaves(ops[j]) /\ i # j =>
              ops[i].path # ops[j].path
         /\ \A i, j \in 1..Len(ops) :
              Leaves(ops[i]) /\ ~Leaves(ops[j]) /\ ops[j].path \in Within(ops[i].path) =>
                i < j /\ ~ModeOperation(ops[j])
         /\ \A j \in 1..Len(ops) : Establishes(ops[j]) /\ Present(old, ops[j].path) =>
              \E i \in 1..Len(ops) : Leaves(ops[i]) /\ ops[j].path \in Within(ops[i].path)
<1>1. old # new
  BY DEF Planned, Acceptable
<1>2. Shape(old, new, ops)
  BY <1>1, PlanShape DEF Planned
<1> QED
  BY <1>2 DEF Shape, Leaves, Establishes

(* The node an operation finds at its path, and the one it leaves there.    *)
LEMMA NodeBefore ==
  ASSUME NEW old, NEW new, NEW ops, Planned(old, new, ops), NEW k \in Nat, k < Len(ops),
         NEW o, o = ops[k + 1]
  PROVE  /\ Leaves(o) => \A x \in Within(o.path) : At(old, new, ops, k)[x] = old[x]
         /\ ModeOperation(o) => At(old, new, ops, k)[o.path] = old[o.path]
         /\ Establishes(o) => At(old, new, ops, k)[o.path] = None
<1> DEFINE n == Len(ops)
           c == k + 1
           p == o.path
<1>1. n \in Nat /\ c \in 1..n /\ 1..k \subseteq 1..n /\ c \notin 1..k /\ o = ops[c] /\ \A i \in 1..k : i < c
  BY PlannedIs
<1>2. o \in OperationType /\ p \in Path
  BY <1>1, PlannedIs
<1> HIDE DEF n, c
<1>3. CASE Leaves(o)
  <2> SUFFICES ASSUME NEW x \in Within(p) PROVE At(old, new, ops, k)[x] = old[x]
    BY <1>3 DEF Leaves, Establishes, ModeOperation
  <2>1. x \in Path
    BY DEF Within
  <2>2. ~Established(ops, k, x)
    BY <1>1, <1>3, PlannedShape DEF Established, Establishes, n
  <2>3. ~Gone(ops, k, x)
    BY <1>1, <1>3, PlannedShape DEF Gone, n
  <2>4. ~Moded(ops, k, x)
    BY <1>1, <1>3, PlannedShape DEF Moded, n, Leaves, ModeOperation
  <2> QED
    BY <2>1, <2>2, <2>3, <2>4 DEF At
<1>4. CASE ~Leaves(o)
  <2>1. ~Established(ops, k, p) /\ ~Moded(ops, k, p)
    BY <1>1, <1>4, PlannedShape DEF Established, Moded, Establishes, n, Leaves, ModeOperation
  <2>2. ModeOperation(o) => ~Gone(ops, k, p)
    BY <1>1, <1>4, PlannedShape DEF Gone, n
  <2>3. Establishes(o) => Gone(ops, k, p) \/ old[p] = None
    <3> SUFFICES ASSUME Establishes(o), Present(old, p) PROVE Gone(ops, k, p)
      BY DEF Present
    <3>1. PICK i \in 1..n : Leaves(ops[i]) /\ p \in Within(ops[i].path)
      BY <1>1, PlannedShape DEF n
    <3>2. i < c
      BY <1>1, <1>4, <3>1, PlannedShape DEF n
    <3>3. i \in 1..k
      BY <1>1, <3>2 DEF c
    <3> QED
      BY <3>1, <3>3 DEF Gone
  <2> QED
    BY <1>2, <1>4, <2>1, <2>2, <2>3 DEF At, Establishes, Leaves
<1> QED
  BY <1>3, <1>4

(* One operation more.                                                      *)
LEMMA OneMore ==
  ASSUME NEW ops, NEW k \in Nat, NEW o, o = ops[k + 1], NEW x
  PROVE  /\ Gone(ops, k + 1, x) <=> Gone(ops, k, x) \/ (Leaves(o) /\ x \in Within(o.path))
         /\ Established(ops, k + 1, x) <=> Established(ops, k, x) \/ (Establishes(o) /\ o.path = x)
         /\ Moded(ops, k + 1, x) <=> Moded(ops, k, x) \/ (ModeOperation(o) /\ o.path = x)
<1> DEFINE m == k + 1
<1>1. /\ m \in 1..m /\ 1..k \subseteq 1..m /\ o = ops[m]
      /\ \A i \in 1..m : i \in 1..k \/ i = m
  OBVIOUS
<1> HIDE DEF m
<1>2. /\ Gone(ops, m, x) <=> Gone(ops, k, x) \/ (Leaves(o) /\ x \in Within(o.path))
      /\ Established(ops, m, x) <=> Established(ops, k, x) \/ (Establishes(o) /\ o.path = x)
      /\ Moded(ops, m, x) <=> Moded(ops, k, x) \/ (ModeOperation(o) /\ o.path = x)
  BY <1>1 DEF Gone, Established, Moded
<1> QED
  BY <1>2 DEF m

(* apply_operation takes the tree after k operations to the one after       *)
(* k + 1, and undo_operation takes it back.                                 *)
LEMMA StepsAreExact ==
  ASSUME NEW old, NEW new, NEW ops, Planned(old, new, ops), NEW k \in Nat, k < Len(ops),
         NEW o, o = ops[k + 1]
  PROVE  /\ At(old, new, ops, k + 1) = Applied(At(old, new, ops, k), o, new)
         /\ At(old, new, ops, k) = Undone(At(old, new, ops, k + 1), o, old)
<1> DEFINE p == o.path
           c == k + 1
           s == At(old, new, ops, k)
           t == At(old, new, ops, k + 1)
<1>1. Len(ops) \in Nat /\ c \in 1..Len(ops) /\ o = ops[c] /\ 1..k \subseteq 1..Len(ops)
      /\ \A i \in 1..k : i < c
  BY PlannedIs
<1>2. o \in OperationType /\ p \in Path /\ Suits(old, new, o)
  BY <1>1, PlannedIs, PlannedShape
<1>3. /\ Leaves(o) => \A x \in Within(p) : s[x] = old[x]
      /\ ModeOperation(o) => s[p] = old[p]
      /\ Establishes(o) => s[p] = None
  BY NodeBefore
<1>4. s = [x \in Path |-> s[x]] /\ t = [x \in Path |-> t[x]]
  BY DEF At
<1>5. \A x \in Path : ~(Leaves(o) /\ x \in Within(p)) /\ x # p => t[x] = s[x]
  BY OneMore DEF At
<1>6. CASE Leaves(o)
  <2>1. \A x \in Within(p) : x \in Path /\ ~Established(ops, k, x)
    BY <1>1, <1>6, PlannedShape DEF Established, Establishes, Within
  <2>2. \A x \in Within(p) : t[x] = None
    BY <1>6, <2>1, OneMore DEF At, Establishes
  <2>3. \A x \in Path \ Within(p) : t[x] = s[x]
    BY <1>6, OneMore DEF At, Establishes, ModeOperation, Leaves
  <2> HIDE DEF s, t
  <2>4. t = [x \in Path |-> IF x \in Within(p) THEN None ELSE s[x]]
    BY <1>4, <2>2, <2>3
  <2>5. s = [x \in Path |-> IF x \in Within(p) THEN old[x] ELSE t[x]]
    BY <1>3, <1>4, <1>6, <2>3
  <2>6. Applied(s, o, new) = t /\ Undone(t, o, old) = s
    BY <1>6, <2>4, <2>5 DEF Applied, Undone, Without, Leaves, ModeOperation
  <2> QED
    BY <2>6 DEF s, t
<1>7. CASE ModeOperation(o)
  <2>1. ~Leaves(o) /\ ~Establishes(o)
    BY <1>7 DEF Leaves, Establishes, ModeOperation
  <2>2. ~Established(ops, k, p) /\ ~Gone(ops, k, p)
    BY <1>1, <1>7, <2>1, PlannedShape DEF Established, Gone, Establishes
  <2>3. t[p] = [old[p] EXCEPT !.mode = new[p].mode] /\ s[p] = old[p]
    BY <1>2, <1>3, <1>7, <2>1, <2>2, OneMore DEF At
  <2>4. \A x \in Path \ {p} : t[x] = s[x]
    BY <1>5, <2>1
  <2>5. old[p] \in Node
    BY <1>2, <1>7 DEF Suits, Present, Planned, Tree
  <2> HIDE DEF s, t
  <2>6. t = [s EXCEPT ![p].mode = new[p].mode]
    BY <1>2, <1>4, <2>3, <2>4
  <2>7. PICK a : a = old[p] /\ a \in Node
    BY <2>5
  <2>8. a = [[a EXCEPT !.mode = new[p].mode] EXCEPT !.mode = a.mode]
    BY <2>7 DEF Node
  <2>9. s = [t EXCEPT ![p].mode = old[p].mode]
    <3>1. PICK b : b = t[p]
      OBVIOUS
    <3>2. [b EXCEPT !.mode = a.mode] = s[p]
      BY <2>3, <2>7, <2>8, <3>1
    <3>3. [t EXCEPT ![p].mode = a.mode] = [x \in Path |-> IF x = p THEN s[p] ELSE t[x]]
      BY <1>2, <1>4, <3>1, <3>2, SMTT(60)
    <3> QED
      BY <1>4, <2>4, <2>7, <3>3
  <2>10. Applied(s, o, new) = t /\ Undone(t, o, old) = s
    BY <1>7, <2>1, <2>6, <2>9 DEF Applied, Undone, Leaves, ModeOperation
  <2> QED
    BY <2>10 DEF s, t
<1>8. CASE Establishes(o)
  <2>1. ~Leaves(o) /\ ~ModeOperation(o)
    BY <1>8 DEF Establishes
  <2>2. t[p] = new[p] /\ s[p] = None
    BY <1>2, <1>3, <1>8, OneMore DEF At
  <2>3. \A x \in Path \ {p} : t[x] = s[x]
    BY <1>5, <2>1
  <2> HIDE DEF s, t
  <2>4. t = [s EXCEPT ![p] = new[p]] /\ s = [t EXCEPT ![p] = None]
    BY <1>2, <1>4, <2>2, <2>3
  <2>5. Applied(s, o, new) = t /\ Undone(t, o, old) = s
    BY <2>1, <2>4 DEF Applied, Undone, Leaves
  <2> QED
    BY <2>5 DEF s, t
<1> QED
  BY <1>6, <1>7, <1>8 DEF Establishes

-----------------------------------------------------------------------------
(* Both ends.                                                               *)

(* Every listed operation is among the first Len(ops).                      *)
LEMMA ListedIsDone ==
  ASSUME NEW old, NEW new, NEW ops, Planned(old, new, ops), NEW p \in Path
  PROVE  /\ p \in Created(old, new) \cup Files(old, new) \cup Links(old, new)
              => Established(ops, Len(ops), p)
         /\ p \in DirectoryModes(old, new) \cup FileModes(old, new) => Moded(ops, Len(ops), p)
         /\ p \in DestructiveRoots(old, new) =>
              \E i \in 1..Len(ops) : Leaves(ops[i]) /\ ops[i].path = p
<1> DEFINE L == Listed(old, new)
<1>1. /\ p \in Created(old, new) => [op |-> "CreateDirectory", path |-> p] \in L
      /\ p \in Files(old, new) => [op |-> "InstallFile", path |-> p] \in L
      /\ p \in Links(old, new) => [op |-> "InstallSymlink", path |-> p] \in L
      /\ p \in FileModes(old, new) => [op |-> "SetFileMode", path |-> p] \in L
      /\ p \in DirectoryModes(old, new) => [op |-> "SetDirectoryMode", path |-> p] \in L
      /\ p \in DestructiveRoots(old, new) => [op |-> "Quarantine", path |-> p] \in L
  BY DEF Listed, Grants, Quarantines, Creations, Installations, Restrictions, Operations
<1> HIDE DEF L
<1>2. \A o \in L : \E i \in 1..Len(ops) : ops[i] = o
  BY PlannedIs DEF L
<1> QED
  BY <1>1, <1>2 DEF Established, Moded, Establishes, Leaves, ModeOperation

(* A quarantine of the plan is one of a destructive root.                   *)
LEMMA LeavesARoot ==
  ASSUME NEW old, NEW new, NEW ops, Planned(old, new, ops), NEW k \in Nat, k <= Len(ops),
         NEW p, Gone(ops, k, p)
  PROVE  \E r \in DestructiveRoots(old, new) : p \in Within(r) /\ p \in Path
<1>1. PICK i \in 1..k : Leaves(ops[i]) /\ p \in Within(ops[i].path)
  BY DEF Gone
<1>2. i \in 1..Len(ops)
  BY PlannedIs
<1>3. ops[i].path \in DestructiveRoots(old, new)
  BY <1>1, <1>2, PlannedIs, ListedIs DEF Leaves
<1> QED
  BY <1>1, <1>3 DEF Within

(* Nothing performed is the old tree, everything performed the new one: no  *)
(* difference between the two is left out of the plan.                      *)
LEMMA EndsAreExact ==
  ASSUME NEW old, NEW new, NEW ops, Planned(old, new, ops)
  PROVE  At(old, new, ops, 0) = old /\ At(old, new, ops, Len(ops)) = new
<1> DEFINE n == Len(ops)
           t == At(old, new, ops, n)
<1>1. /\ old \in Tree /\ new \in Tree /\ WellFormed(old) /\ WellFormed(new) /\ n \in Nat
      /\ old = [p \in Path |-> old[p]] /\ new = [p \in Path |-> new[p]]
  BY PlannedIs DEF Planned, Tree
<1>2. At(old, new, ops, 0) = old
  <2>1. \A p : ~Established(ops, 0, p) /\ ~Gone(ops, 0, p) /\ ~Moded(ops, 0, p)
    BY DEF Established, Gone, Moded
  <2> QED
    BY <1>1, <2>1 DEF At
<1>3. ASSUME NEW p \in Path PROVE t[p] = new[p]
  <2>1. CASE Established(ops, n, p)
    BY <2>1 DEF At
  <2>2. CASE ~Established(ops, n, p) /\ Gone(ops, n, p)
    <3>1. PICK r \in DestructiveRoots(old, new) : p \in Within(r)
      BY <1>1, <2>2, LeavesARoot
    <3>2. p \notin FileModes(old, new) /\ ~(IsDir(old, p) /\ IsDir(new, p))
      BY <1>1, <3>1, ModesStay
    <3>3. p \notin Created(old, new) \cup Files(old, new) \cup Links(old, new)
      BY <2>2, ListedIsDone
    <3>4. ~Present(new, p)
      <4> SUFFICES ASSUME Present(new, p) PROVE FALSE
        OBVIOUS
      <4>1. p \in Changed(old, new)
        BY <1>1, <3>1, SubtreeChanges DEF Changed, Present
      <4>2. new[p].kind \in {"file", "link", "dir"}
        BY <1>1 DEF Present, Tree, Node
      <4> QED
        BY <3>2, <3>3, <4>1, <4>2 DEF Created, Files, Links, IsDir, IsKind, Present
    <3> QED
      BY <2>2, <3>4 DEF At, Present
  <2>3. CASE ~Established(ops, n, p) /\ ~Gone(ops, n, p) /\ Moded(ops, n, p)
    <3>1. PICK i \in 1..n : ModeOperation(ops[i]) /\ ops[i].path = p
      BY <2>3 DEF Moded
    <3>2. /\ Present(old, p) /\ Present(new, p) /\ old[p].kind = new[p].kind
          /\ old[p].data = new[p].data
      BY <3>1, PlannedShape DEF Suits
    <3>3. PICK a, b : a = old[p] /\ b = new[p] /\ a \in Node /\ b \in Node
      BY <1>1, <3>2 DEF Present, Tree
    <3>4. [a EXCEPT !.mode = b.mode] = b
      BY <3>2, <3>3 DEF Node
    <3> QED
      BY <2>3, <3>3, <3>4 DEF At
  <2>4. CASE ~Established(ops, n, p) /\ ~Gone(ops, n, p) /\ ~Moded(ops, n, p)
    <3>1. t[p] = old[p]
      BY <2>4 DEF At
    <3>2. p \notin Created(old, new) \cup Files(old, new) \cup Links(old, new)
                     \cup DirectoryModes(old, new) \cup FileModes(old, new)
      BY <2>4, ListedIsDone
    <3>3. ~(p \in Changed(old, new) /\ Destructive(old, new, p))
      <4> SUFFICES ASSUME p \in Changed(old, new), Destructive(old, new, p) PROVE FALSE
        OBVIOUS
      <4>1. PICK r \in DestructiveRoots(old, new) : p \in Within(r)
        BY RootAbove
      <4>2. r \in Path
        BY RootIs
      <4> QED
        BY <2>4, <4>1, <4>2, ListedIsDone DEF Gone
    <3>4. p \notin Changed(old, new)
      <4> SUFFICES ASSUME p \in Changed(old, new) PROVE FALSE
        OBVIOUS
      <4>1. Present(old, p) => old[p].kind \in {"file", "link", "dir"}
        BY <1>1 DEF Present, Tree, Node
      <4>2. Present(new, p) => new[p].kind \in {"file", "link", "dir"}
        BY <1>1 DEF Present, Tree, Node
      <4>3. CASE Present(old, p) /\ Present(new, p)
        BY <3>2, <3>3, <4>1, <4>2, <4>3
           DEF Destructive, Present, FileModes, DirectoryModes, IsDir, IsKind
      <4>4. CASE ~Present(old, p) /\ Present(new, p)
        BY <3>2, <4>2, <4>4 DEF Created, Files, Links, FileModes, IsDir, IsKind, Present
      <4>5. CASE ~Present(new, p)
        BY <3>3, <4>5 DEF Destructive, Present, Changed
      <4> QED
        BY <4>3, <4>4, <4>5
    <3> QED
      BY <3>1, <3>4 DEF Changed
  <2> QED
    BY <2>1, <2>2, <2>3, <2>4
<1>4. t = [p \in Path |-> t[p]]
  BY DEF At
<1> QED
  <2> HIDE DEF t
  <2>1. t = new
    BY <1>1, <1>3, <1>4
  <2> QED
    BY <1>2, <2>1 DEF t

-----------------------------------------------------------------------------
(* The parents.                                                             *)

(* A directory that both trees have, around something that changes, is in   *)
(* place and writable just before and just after an operation below it: its *)
(* grant is among the first, its restriction among the last.                *)
LEMMA StayingParent ==
  ASSUME NEW old, NEW new, NEW ops, Planned(old, new, ops),
         NEW c \in 1..Len(ops), Leaves(ops[c]) \/ Establishes(ops[c]),
         NEW m \in {c - 1, c},
         NEW q \in Path, IsDir(old, q), IsDir(new, q), "rw" \in {old[q].mode, new[q].mode}
  PROVE  LET t == At(old, new, ops, m) IN IsDir(t, q) /\ t[q].mode = "rw"
<1> DEFINE o == ops[c]
           t == At(old, new, ops, m)
<1>1. /\ Len(ops) \in Nat /\ m \in Nat /\ 1..m \subseteq 1..Len(ops) /\ m <= Len(ops)
      /\ \A i \in 1..m : i <= c
      /\ \A i \in 1..Len(ops) : i < c => i \in 1..m
  BY PlannedIs
<1>2. old \in Tree /\ new \in Tree /\ WellFormed(old) /\ WellFormed(new)
  BY DEF Planned
<1>3. ~Gone(ops, m, q)
  BY <1>1, <1>2, LeavesARoot, ModesStay
<1>4. ~Established(ops, m, q)
  <2> SUFFICES ASSUME NEW i \in 1..m, Establishes(ops[i]), ops[i].path = q PROVE FALSE
    BY DEF Established
  <2>1. Suits(old, new, ops[i]) /\ ops[i] \in OperationType
    BY <1>1, PlannedShape, PlannedIs
  <2>2. ops[i].op \in {"CreateDirectory", "InstallFile", "InstallSymlink"}
    BY <2>1 DEF Establishes, Leaves, ModeOperation, OperationType, OperationNames
  <2> QED
    BY <2>1, <2>2 DEF Suits, IsDir, IsKind
<1>5. Part(old, new, o) \in {2, 3, 4}
  BY DEF Part, Leaves, Establishes, ModeOperation
<1>6. PICK a, b : a = old[q] /\ b = new[q] /\ a \in Node /\ b \in Node
  BY <1>2 DEF IsDir, IsKind, Tree
<1>7. CASE a.mode = b.mode
  <2>1. a.mode = "rw" /\ [a EXCEPT !.mode = b.mode] = a /\ a.kind = "dir" /\ a # None
    BY <1>6, <1>7 DEF Node, IsDir, IsKind
  <2>2. t[q] = a
    BY <1>3, <1>4, <1>6, <2>1 DEF At
  <2> QED
    BY <2>1, <2>2 DEF IsDir, IsKind
<1>8. CASE a.mode = "rw" /\ b.mode # "rw"
  <2>1. q \notin Access(old, new)
    BY <1>6, <1>8 DEF Access
  <2>2. ~Moded(ops, m, q)
    <3> SUFFICES ASSUME NEW i \in 1..m, ModeOperation(ops[i]), ops[i].path = q PROVE FALSE
      BY DEF Moded
    <3>1. ops[i].op = "SetDirectoryMode"
      <4>1. ops[i] \in Listed(old, new)
        BY <1>1, PlannedIs
      <4>2. q \notin FileModes(old, new)
        BY DEF FileModes, IsDir, IsKind
      <4> QED
        BY <4>1, <4>2, ListedIs DEF ModeOperation
    <3>2. Part(old, new, ops[i]) = 5
      BY <2>1, <3>1 DEF Part
    <3>3. i < c
      BY <1>1, <1>5, <3>2
    <3>4. StandsBefore(old, new, ops[i], o)
      BY <1>1, <3>3, PlannedIs
    <3> QED
      BY <1>5, <3>2, <3>4 DEF StandsBefore
  <2>3. t[q] = a
    BY <1>3, <1>4, <1>6, <2>2 DEF At
  <2> QED
    BY <1>6, <1>8, <2>3 DEF IsDir, IsKind
<1>9. CASE b.mode = "rw" /\ a.mode # "rw"
  <2>1. a.mode = "ro"
    BY <1>6, <1>9 DEF Node, Modes
  <2>2. q \in Access(old, new)
    BY <1>6, <1>9, <2>1 DEF Access, DirectoryModes, Changed
  <2>3. [op |-> "SetDirectoryMode", path |-> q] \in Listed(old, new)
    BY <2>2 DEF Listed, Grants, Operations
  <2>4. PICK i \in 1..Len(ops) : ops[i] = [op |-> "SetDirectoryMode", path |-> q]
    BY <2>3, PlannedIs
  <2>5. Part(old, new, ops[i]) = 1
    BY <2>2, <2>4 DEF Part
  <2>6. i < c
    <3>1. ~(c < i)
      <4> SUFFICES ASSUME c < i PROVE FALSE
        OBVIOUS
      <4>1. StandsBefore(old, new, o, ops[i])
        BY PlannedIs
      <4> QED
        BY <1>5, <2>5, <4>1 DEF StandsBefore
    <3>2. i # c
      BY <1>5, <2>5
    <3> QED
      BY <1>1, <3>1, <3>2
  <2>7. Moded(ops, m, q)
    BY <1>1, <2>4, <2>6 DEF Moded, ModeOperation
  <2>8. t[q] = [a EXCEPT !.mode = b.mode]
    BY <1>3, <1>4, <1>6, <2>7 DEF At
  <2>9. a.kind = "dir"
    BY <1>6 DEF IsDir, IsKind
  <2>10. PICK d : d = [a EXCEPT !.mode = b.mode]
    OBVIOUS
  <2>11. d \in Node /\ d.kind = "dir" /\ d.mode = "rw"
    <3>1. a = [kind |-> "dir", data |-> a.data, mode |-> a.mode] /\ a.data = "entries"
      BY <1>6, <2>9 DEF Node
    <3>2. d = [kind |-> "dir", data |-> "entries", mode |-> "rw"]
      BY <1>9, <2>10, <3>1
    <3> QED
      BY <3>2 DEF Node, Modes
  <2>12. d # None
    BY <2>11, PathAssumption
  <2> QED
    BY <2>8, <2>10, <2>11, <2>12 DEF IsDir, IsKind
<1> QED
  BY <1>6, <1>7, <1>8, <1>9

(* Around an operation that moves or makes a node, the parent is a writable *)
(* directory: it was there, or the plan has made it by then.                *)
LEMMA ParentReady ==
  ASSUME NEW old, NEW new, NEW ops, Planned(old, new, ops),
         NEW c \in 1..Len(ops), Leaves(ops[c]) \/ Establishes(ops[c]), NEW m \in {c - 1, c}
  PROVE  ParentWritable(At(old, new, ops, m), ops[c].path)
<1> DEFINE o == ops[c]
           p == o.path
           q == Front(p)
           t == At(old, new, ops, m)
<1>1. /\ Len(ops) \in Nat /\ c \in Nat /\ m \in Nat
      /\ \A i \in 1..Len(ops) : i < c => i \in 1..m
  BY PlannedIs
<1>2. /\ old \in Tree /\ new \in Tree /\ WellFormed(old) /\ WellFormed(new)
      /\ Acceptable(old, new)
  BY DEF Planned
<1>3. o \in OperationType /\ p \in Path /\ Suits(old, new, o) /\ o \in Listed(old, new)
  BY PlannedIs, PlannedShape
<1>4. p \in Changed(old, new)
  BY <1>3 DEF Suits
<1> SUFFICES ASSUME Len(p) > 1
             PROVE  IsDir(t, q) /\ t[q].mode = "rw"
  BY DEF ParentWritable
<1>5. q \in Path /\ Len(q) = Len(p) - 1 /\ IsStrictPrefix(q, p)
  <2>1. q \in Path /\ Len(q) = Len(p) - 1 /\ \A i \in 1..(Len(p) - 1) : q[i] = p[i]
    BY <1>3, FrontIs
  <2>2. Len(p) \in Nat
    BY <1>3, DepthIsNatural
  <2>3. IsPrefix(q, p) /\ Len(q) < Len(p)
    BY <1>3, <2>1, <2>2, PrefixIs, SMTT(60)
  <2> QED
    BY <1>3, <2>1, <2>3, PrefixIs
<1> HIDE DEF t
<1>6. CASE IsDir(old, q) /\ IsDir(new, q)
  <2>1. "rw" \in {old[q].mode, new[q].mode}
    BY <1>2, <1>4, <1>6 DEF Acceptable
  <2> QED
    BY <1>5, <1>6, <2>1, StayingParent DEF t
<1>7. CASE Leaves(o)
  <2>1. Present(old, p) /\ p \in DestructiveRoots(old, new)
    BY <1>3, <1>7, ListedIs, RootIs DEF Leaves
  <2>2. IsDir(old, q)
    BY <1>2, <1>3, <2>1 DEF WellFormed
  <2>3. IsDir(new, q)
    <3> SUFFICES ASSUME ~IsDir(new, q) PROVE FALSE
      OBVIOUS
    <3>1. q \in Changed(old, new) /\ Destructive(old, new, q)
      BY <1>5, <2>2 DEF Changed, Destructive, IsDir, IsKind, Present
    <3> QED
      BY <1>5, <2>1, <3>1, RootIs
  <2> QED
    BY <1>6, <2>2, <2>3
<1>8. CASE Establishes(o) /\ ~IsDir(old, q)
  <2>1. Present(new, p)
    BY <1>3, <1>8
       DEF Suits, Establishes, Leaves, ModeOperation, OperationType, OperationNames, IsDir, IsKind, Present
  <2>2. IsDir(new, q)
    BY <1>2, <1>3, <2>1 DEF WellFormed
  <2>3. q \in Created(old, new)
    BY <1>5, <1>8, <2>2 DEF Created, Changed, IsDir, IsKind
  <2>4. [op |-> "CreateDirectory", path |-> q] \in Listed(old, new)
    BY <2>3 DEF Listed, Creations, Operations
  <2>5. PICK i \in 1..Len(ops) : ops[i] = [op |-> "CreateDirectory", path |-> q]
    BY <2>4, PlannedIs
  <2>6. Part(old, new, ops[i]) = 3 /\ Part(old, new, o) \in {3, 4}
        /\ (Part(old, new, o) = 3 => o.op = "CreateDirectory")
    BY <1>8, <2>5 DEF Part, Establishes, Leaves, ModeOperation
  <2>7. Len(p) \in Nat /\ Len(q) \in Nat /\ Len(q) < Len(p)
    BY <1>3, <1>5, DepthIsNatural
  <2>8. i < c
    <3>1. ~(c < i)
      <4> SUFFICES ASSUME c < i PROVE FALSE
        OBVIOUS
      <4>1. StandsBefore(old, new, o, ops[i])
        BY PlannedIs
      <4>2. o.op = "CreateDirectory" /\ Len(p) <= Len(q)
        BY <2>5, <2>6, <4>1 DEF StandsBefore
      <4> QED
        BY <2>7, <4>2
    <3>2. i # c
      BY <2>5, <2>7
    <3> QED
      BY <1>1, <3>1, <3>2
  <2>9. Established(ops, m, q)
    BY <1>1, <2>5, <2>8 DEF Established, Establishes, Leaves, ModeOperation
  <2>10. t[q] = new[q]
    BY <1>5, <2>9 DEF t, At
  <2>11. new[q].mode = "rw"
    BY <1>2, <2>3 DEF Acceptable
  <2> QED
    BY <2>2, <2>10, <2>11 DEF IsDir, IsKind
<1>9. CASE Establishes(o) /\ IsDir(old, q)
  <2>1. Present(new, p)
    BY <1>3, <1>9
       DEF Suits, Establishes, Leaves, ModeOperation, OperationType, OperationNames, IsDir, IsKind, Present
  <2>2. IsDir(new, q)
    BY <1>2, <1>3, <2>1 DEF WellFormed
  <2> QED
    BY <1>6, <1>9, <2>2
<1> QED
  BY <1>7, <1>8, <1>9

(* The next operation can be performed.                                     *)
LEMMA NextIsApplicable ==
  ASSUME NEW old, NEW new, NEW ops, Planned(old, new, ops), NEW k \in Nat, k < Len(ops)
  PROVE  Applicable(At(old, new, ops, k), ops[k + 1])
<1> DEFINE c == k + 1
           o == ops[c]
           t == At(old, new, ops, k)
<1>1. c \in 1..Len(ops) /\ k \in {c - 1, c}
  BY PlannedIs
<1>2. o \in OperationType /\ o.path \in Path /\ Suits(old, new, o)
  BY <1>1, PlannedIs, PlannedShape
<1>3. /\ Leaves(o) => \A x \in Within(o.path) : t[x] = old[x]
      /\ ModeOperation(o) => t[o.path] = old[o.path]
      /\ Establishes(o) => t[o.path] = None
  BY NodeBefore
<1>4. o.path \in Within(o.path)
  BY <1>2, DepthIsNatural, PrefixIs DEF Within
<1> HIDE DEF c, t
<1>5. Leaves(o) \/ Establishes(o) => ParentWritable(t, o.path)
  BY <1>1, ParentReady DEF t
<1>6. Applicable(t, o)
  BY <1>2, <1>3, <1>4, <1>5 DEF Applicable, Leaves, Establishes, ModeOperation, Suits, Present
<1> QED
  BY <1>6 DEF c, t

(* The last one performed can be undone.                                    *)
LEMMA LastIsUndoable ==
  ASSUME NEW old, NEW new, NEW ops, Planned(old, new, ops), NEW k \in 1..Len(ops)
  PROVE  Undoable(At(old, new, ops, k), ops[k])
<1> DEFINE o == ops[k]
           p == o.path
           t == At(old, new, ops, k)
<1>1. /\ Len(ops) \in Nat /\ k \in Nat /\ k \in {k - 1, k} /\ 1..k \subseteq 1..Len(ops) /\ k \in 1..k
      /\ \A i \in 1..k : i < k \/ i = k
  BY PlannedIs
<1>2. o \in OperationType /\ p \in Path /\ Suits(old, new, o) /\ o \in Listed(old, new)
  BY <1>1, PlannedIs, PlannedShape
<1>3. Leaves(o) \/ Establishes(o) => ParentWritable(t, p)
  BY <1>1, ParentReady
<1>4. Leaves(o) => ~Present(t, p)
  <2> SUFFICES ASSUME Leaves(o) PROVE t[p] = None
    BY DEF Present
  <2>1. p \in Within(p)
    BY <1>2, DepthIsNatural, PrefixIs DEF Within
  <2>2. Gone(ops, k, p)
    BY <1>1, <2>1 DEF Gone
  <2>3. ~Established(ops, k, p)
    <3> SUFFICES ASSUME NEW i \in 1..k, Establishes(ops[i]), ops[i].path = p PROVE FALSE
      BY DEF Established
    <3>1. k < i
      BY <1>1, <2>1, PlannedShape DEF Establishes
    <3> QED
      BY <1>1, <3>1
  <2> QED
    BY <1>2, <2>2, <2>3 DEF At
<1>5. ModeOperation(o) => Present(t, p)
  <2> SUFFICES ASSUME ModeOperation(o) PROVE t[p] # None
    BY DEF Present
  <2>1. ~Leaves(o) /\ ~Establishes(o)
    BY DEF Leaves, Establishes, ModeOperation
  <2>2. ~Established(ops, k, p) /\ ~Gone(ops, k, p)
    BY <1>1, <2>1, PlannedShape DEF Established, Gone, Establishes
  <2>3. Moded(ops, k, p)
    BY <1>1 DEF Moded
  <2>4. PICK a, b : a = old[p] /\ b = new[p] /\ a \in Node /\ b \in Node
    BY <1>2 DEF Suits, Present, Planned, Tree
  <2>5. t[p] = [a EXCEPT !.mode = b.mode]
    BY <1>2, <2>2, <2>3, <2>4 DEF At
  <2>6. [a EXCEPT !.mode = b.mode] \in Node
    BY <2>4 DEF Node
  <2> QED
    BY <2>5, <2>6, PathAssumption
<1>6. o.op = "CreateDirectory" => \A x \in Within(p) \ {p} : ~Present(t, x)
  <2> SUFFICES ASSUME o.op = "CreateDirectory", NEW x \in Within(p), x # p, t[x] # None
               PROVE  FALSE
    BY DEF Present
  <2>1. x \in Path /\ IsStrictPrefix(p, x)
    BY DEF Within, IsStrictPrefix
  <2>2. Len(x) \in Nat /\ Len(p) \in Nat /\ Len(p) < Len(x)
    BY <1>2, <2>1, DepthIsNatural, PrefixIs
  <2>3. old[x] = None
    BY <1>2, <2>1, AncestorsAreDirectories DEF Suits, Planned, Present
  <2>4. ~Moded(ops, k, x)
    BY <1>1, <2>3, PlannedShape DEF Moded, Suits, Present
  <2>5. ~Established(ops, k, x)
    <3> SUFFICES ASSUME NEW i \in 1..k, Establishes(ops[i]), ops[i].path = x PROVE FALSE
      BY DEF Established
    <3>1. i < k
      BY <1>1, <2>2
    <3>2. StandsBefore(old, new, ops[i], o)
      BY <1>1, <3>1, PlannedIs
    <3>3. Part(old, new, o) = 3 /\ Part(old, new, ops[i]) \in {3, 4}
          /\ (Part(old, new, ops[i]) = 3 => ops[i].op = "CreateDirectory")
      BY DEF Part, Establishes, Leaves, ModeOperation
    <3>4. Len(x) <= Len(p)
      BY <3>2, <3>3 DEF StandsBefore
    <3> QED
      BY <2>2, <3>4
  <2> QED
    BY <2>1, <2>3, <2>4, <2>5 DEF At
<1>7. Establishes(o) => Present(t, p)
  <2> SUFFICES ASSUME Establishes(o) PROVE t[p] # None
    BY DEF Present
  <2>1. t[p] = new[p]
    BY <1>1, <1>2 DEF At, Established
  <2> QED
    BY <1>2, <2>1
       DEF Suits, Establishes, Leaves, ModeOperation, OperationType, OperationNames, IsDir, IsKind
<1> HIDE DEF t
<1>8. Undoable(t, o)
  BY <1>2, <1>3, <1>4, <1>5, <1>6, <1>7
     DEF Undoable, Leaves, Establishes, ModeOperation, OperationType, OperationNames
<1> QED
  BY <1>8 DEF t

-----------------------------------------------------------------------------
(* However far a replay has come, back and forth, the tree is the one the   *)
(* plan and the count of its operations determine.                          *)
OnCourse ==
  /\ Planned(before, after, operations)
  /\ performed \in 0..Len(operations)
  /\ tree = At(before, after, operations, performed)

(* The invariant of a replay.                                               *)
LEMMA ReplayStaysOnCourse == ReplaySpec => []OnCourse
<1>1. ReplayInit => OnCourse
  <2> SUFFICES ASSUME ReplayInit PROVE OnCourse
    OBVIOUS
  <2>1. Planned(before, after, operations)
    BY DEF ReplayInit, Planned, SoundTrees, Tree
  <2> QED
    BY <2>1, PlannedIs, EndsAreExact DEF ReplayInit, OnCourse
<1>2. OnCourse /\ [ReplayNext]_replayVars => OnCourse'
  <2> SUFFICES ASSUME OnCourse, [ReplayNext]_replayVars PROVE OnCourse'
    OBVIOUS
  <2>1. Len(operations) \in Nat /\ performed \in 0..Len(operations)
    BY PlannedIs DEF OnCourse
  <2>2. CASE Perform
    <3>1. performed \in Nat /\ performed < Len(operations) /\ performed + 1 \in 0..Len(operations)
      BY <2>1, <2>2 DEF Perform
    <3>2. At(before, after, operations, performed + 1)
            = Applied(At(before, after, operations, performed), operations[performed + 1], after)
      BY <3>1, StepsAreExact DEF OnCourse
    <3> QED
      BY <2>2, <3>1, <3>2 DEF OnCourse, Perform
  <2>3. CASE TakeBack
    <3>1. PICK k \in Nat : k = performed - 1
      BY <2>1, <2>3 DEF TakeBack
    <3>2. k + 1 = performed /\ k < Len(operations) /\ k \in 0..Len(operations)
      BY <2>1, <3>1
    <3>3. At(before, after, operations, k)
            = Undone(At(before, after, operations, k + 1), operations[k + 1], before)
      BY <3>2, StepsAreExact DEF OnCourse
    <3> QED
      BY <2>3, <3>1, <3>2, <3>3 DEF OnCourse, TakeBack
  <2>4. CASE UNCHANGED replayVars
    BY <2>4 DEF OnCourse, replayVars
  <2> QED
    BY <2>2, <2>3, <2>4 DEF ReplayNext
<1> QED
  BY <1>1, <1>2, PTL DEF ReplaySpec

(* Every operation of prepare finds its old node out of the way and its     *)
(* parent a writable directory, and so does each undo, from any point of    *)
(* the plan: neither a commit nor a rollback can get stuck on the order of  *)
(* the plan.                                                                *)
THEOREM PlanOrderIsSound == ReplaySpec => []OrderIsSound
<1>1. OnCourse => OrderIsSound
  <2> SUFFICES ASSUME OnCourse PROVE OrderIsSound
    OBVIOUS
  <2>1. Len(operations) \in Nat /\ performed \in 0..Len(operations)
    BY PlannedIs DEF OnCourse
  <2>2. performed < Len(operations) => Applicable(tree, operations[performed + 1])
    BY <2>1, NextIsApplicable DEF OnCourse
  <2>3. performed > 0 => Undoable(tree, operations[performed])
    BY <2>1, LastIsUndoable DEF OnCourse
  <2> QED
    BY <2>2, <2>3 DEF OrderIsSound
<1> QED
  BY <1>1, ReplayStaysOnCourse, PTL

(* All operations of prepare together make exactly the approved tree, and   *)
(* undoing all of them, after whatever back and forth, the original one.    *)
THEOREM PlanReachesBothEnds == ReplaySpec => []ReachesBothEnds
<1>1. OnCourse => ReachesBothEnds
  BY EndsAreExact DEF OnCourse, ReachesBothEnds
<1> QED
  BY <1>1, ReplayStaysOnCourse, PTL
=============================================================================
