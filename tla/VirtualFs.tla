------------------------------- MODULE VirtualFs -------------------------------
(***************************************************************************)
(* VirtualFs: one transaction's files as an immutable base snapshot and an *)
(* overlay of changed paths, with the evidence the commit is later checked *)
(* against: which facts of the base were read, which paths were written    *)
(* from which base state, and what the effects were.  Base content is lazy *)
(* and is captured from the host, once, when it is first needed.           *)
(*                                                                         *)
(* An operation is the script of what it records and changes, in the       *)
(* code's order; it stops where the evidence budget refuses a reservation, *)
(* keeping what came before, and the refusal is final.                     *)
(***************************************************************************)
EXTENDS FsTree, FiniteSets

CONSTANTS Bases,      \* the trees a snapshot may hold
          MostRecords,\* max_records to begin with
          Limits,     \* the values a caller may tighten it to
          Editable,   \* the base files other processes may rewrite
          ListLimits, \* the listing limits callers pass
          MaxOps      \* bound: operations in a transaction

ASSUME BasesAssumption ==
  \A b \in Bases : /\ b \in [Path -> Node \cup {None}]
                   /\ Rooted(b)
                   /\ IsFiniteSet({p \in Path : b[p] # None})

ASSUME LimitsAssumption == MostRecords \in Nat /\ Limits \subseteq Nat

VARIABLES base,       \* the snapshot
          edited,     \* base paths whose host content changed since the snapshot
          captured,   \* base paths whose lazy content has been captured
          overlay,    \* changed path -> [node, origin]; node None is a tombstone
          reads,      \* read_set: <<path, aspect, the base fact it fixes>>
          writes,     \* write_set: the paths with a precondition
          ledger,     \* retained effects and adapter denials
          records,    \* EvidenceUsage.records
          limit,      \* EvidenceLimits.max_records
          failed,     \* EvidenceBudget.failure is set
          answer,     \* what the last operation returned
          phase,      \* "open", then "diffed", or "lost" when content was stale
          diff,       \* the last canonical diff
          ops         \* operations so far

evidence == <<reads, writes, ledger, records, limit, failed>>
files == <<base, edited, captured, overlay>>
vars == <<files, evidence, answer, phase, diff, ops>>

Tombstone == [node |-> None, origin |-> None]
Fresh(node) == [node |-> node, origin |-> None]

-----------------------------------------------------------------------------
(* resolve: an overlay entry hides the base node, and a tombstone or a      *)
(* non-directory on the way to a path hides whatever is at the path.        *)
Slot(o, p) == IF p \in DOMAIN o THEN o[p] ELSE [node |-> base[p], origin |-> p]

Hidden(o, p) ==
  \E q \in DOMAIN o : IsStrictPrefix(q, p) /\ (o[q].node = None \/ o[q].node.kind # "dir")

Resolve(o, p) == IF Hidden(o, p) THEN Tombstone ELSE Slot(o, p)

Visible == [p \in Path |-> Resolve(overlay, p).node]

Overlaid(o, p, slot) == [q \in DOMAIN o \cup {p} |-> IF q = p THEN slot ELSE o[q]]

(* What the base says at a path: its state, its content, its listing.  A    *)
(* directory's modification time changes when an entry is added, removed or *)
(* replaced by another kind of node.                                        *)
Stamp(b, p) ==
  IF Kind(b, p) = "none" THEN None
  ELSE <<Kind(b, p), At(b, p).mode,
         IF Kind(b, p) = "dir" THEN {<<x, Kind(b, x)>> : x \in Children(b, p)} ELSE {}>>

Listing(b, p) == {<<x, Stamp(b, x)>> : x \in Children(b, p)}

Fact(b, p, aspect) ==
  CASE aspect = "metadata"  -> Stamp(b, p)
    [] aspect = "content"   -> b[p].data
    [] aspect = "directory" -> Listing(b, p)

-----------------------------------------------------------------------------
(* The steps a script is made of.                                           *)
See(p) == [do |-> "see", at |-> p]                  \* record_metadata_dependency
Want(p) == [do |-> "want", at |-> p]                \* record_write_precondition
Put(p, slot) == [do |-> "put", at |-> p, slot |-> slot]
Emit == [do |-> "emit"]                             \* push_effect
Fetch(p) == [do |-> "fetch", at |-> p]              \* SnapshotNode::read
Content(p, data) == [do |-> "content", at |-> p, data |-> data]
List(p) == [do |-> "list", at |-> p]

(* EvidenceBudget::reserve(1, _).                                           *)
Reserve(s) == IF s.records < limit THEN [s EXCEPT !.records = @ + 1]
              ELSE [s EXCEPT !.failed = TRUE]

(* read_entry: one record for a path, whatever is learnt of it; the first   *)
(* observation of an aspect stands.                                         *)
Learn(s, p, aspect, fact) ==
  LET known == {r \in s.reads : r[1] = p}
      r == IF known = {} THEN Reserve(s) ELSE s IN
    IF (\E k \in known : k[2] = aspect) \/ r.failed THEN r
    ELSE [r EXCEPT !.reads = @ \cup {<<p, aspect, fact>>}]

Depend(s, p) == Learn(s, p, "metadata", Stamp(base, p))

(* Mutation: the precondition is inserted before it is charged.             *)
PreconditionFirst(s, p) ==
  LET seen == Depend(s, Front(p))
      r == IF seen.failed \/ p \in seen.writes THEN seen ELSE Reserve(seen) IN
    [r EXCEPT !.writes = @ \cup {p}]

Precondition(s, p) ==
  LET seen == Depend(s, Front(p))
      r == IF seen.failed \/ p \in seen.writes THEN seen ELSE Reserve(seen) IN
    IF r.failed THEN r ELSE [r EXCEPT !.writes = @ \cup {p}]

(* Mutation: the listing observed is the one the guest is shown.            *)
ListVisible(s, p) ==
  IF Kind(base, p) = "none" THEN s
  ELSE Learn(s, p, "directory", {<<x, Stamp(Visible, x)>> : x \in Children(Visible, p)})

(* The listing of the base directory, when there is one.                    *)
ListBase(s, p) ==
  IF Kind(base, p) = "none" THEN s ELSE Learn(s, p, "directory", Listing(base, p))

Step(s, step) ==
  IF s.failed THEN s ELSE
  CASE step.do = "see"      -> Depend(s, step.at)
    [] step.do = "want"     -> Precondition(s, step.at)
    [] step.do = "put"      -> [s EXCEPT !.overlay = Overlaid(@, step.at, step.slot)]
    [] step.do = "emit"     -> LET r == Reserve(s) IN
                                 IF r.failed THEN r ELSE [r EXCEPT !.ledger = @ + 1]
    [] step.do = "fetch"    -> [s EXCEPT !.captured = @ \cup {step.at}]
    [] step.do = "content"  -> Learn(s, step.at, "content", step.data)
    [] step.do = "list"     -> ListBase(s, step.at)

Refused == <<"EvidenceLimit", None>>

Perform(script, result) ==
  LET s == FoldLeft(Step, [reads |-> reads, writes |-> writes, overlay |-> overlay,
                           captured |-> captured, ledger |-> ledger,
                           records |-> records, failed |-> failed], script) IN
    /\ phase = "open"
    /\ ops < MaxOps
    /\ reads' = s.reads
    /\ writes' = s.writes
    /\ overlay' = s.overlay
    /\ captured' = s.captured
    /\ ledger' = s.ledger
    /\ records' = s.records
    /\ failed' = s.failed
    /\ answer' = IF s.failed THEN Refused ELSE result
    /\ ops' = ops + 1
    /\ UNCHANGED <<base, edited, limit, phase, diff>>

Failing(fault) == <<fault, None>>

(* What is recorded before a refusal, and what an accepted operation does.  *)
Attempt(fault, early, script) ==
  IF fault = "Ok" THEN Perform(script, Failing("Ok")) ELSE Perform(early, Failing(fault))

-----------------------------------------------------------------------------
GetMetadata(p) ==
  Perform(<<See(p), Emit>>,
          IF Kind(Visible, p) = "none" THEN Failing("NotFound")
          ELSE <<"state", <<At(Visible, p).kind, At(Visible, p).mode>>>>)

(* The bytes behind a slot.  Content that is still on the host is loaded    *)
(* between two looks at its stamp, and what another process has made of it  *)
(* meanwhile, here a file emptied, is read but not used.                    *)
Unreadable(slot) == slot.origin \in edited \ captured

Loaded(slot) == IF Unreadable(slot) THEN <<>> ELSE slot.node.data

(* Mutation: base content read at another path than its own is no           *)
(* dependency.                                                              *)
ReadScriptInPlace(p) ==
  LET slot == Resolve(overlay, p) IN
    <<See(p)>> \o (IF slot.origin = p THEN <<Fetch(p), Content(p, Loaded(slot))>> ELSE <<>>)
      \o <<Emit>>

(* Base content is fetched and becomes a dependency on the path it came     *)
(* from, wherever it has been moved since.                                  *)
ReadScript(p) ==
  LET slot == Resolve(overlay, p) IN
    <<See(p)>>
      \o (IF slot.origin = None THEN <<>>
          ELSE <<Fetch(slot.origin), Content(slot.origin, Loaded(slot))>>)
      \o <<Emit>>

(* Mutation: the stamps around the load are not compared.                   *)
ReadResultUnstamped(p, kind) == ReadFault(Visible, p, kind)

ReadResult(p, kind) ==
  IF ReadFault(Visible, p, kind) # "Ok" THEN ReadFault(Visible, p, kind)
  ELSE IF Unreadable(Resolve(overlay, p)) THEN "StaleContent" ELSE "Ok"

Read(p, kind) ==
  IF ReadResult(p, kind) = "Ok" THEN Perform(ReadScript(p), <<"bytes", Loaded(Resolve(overlay, p))>>)
  ELSE Perform(<<See(p)>>, Failing(ReadResult(p, kind)))

(* A listing longer than the caller's limit is refused whole.               *)
ReadDir(p, most) ==
  LET children == Children(Visible, p)
      fault == IF DirFault(Visible, p) = "Ok" /\ Cardinality(children) > most
                 THEN "DirectoryEntryLimit" ELSE DirFault(Visible, p) IN
    IF fault = "Ok" THEN Perform(<<See(p), List(p), Emit>>, <<"listing", children>>)
    ELSE Perform(<<See(p)>>, Failing(fault))

SeeParent(p) == IF p = Root THEN <<>> ELSE <<See(Front(p))>>
SeeItself(p) == IF p = Root THEN <<>> ELSE <<See(p)>>

WriteScript(p, data) ==
  LET mode == IF Visible[p] = None THEN "rw" ELSE Visible[p].mode IN
    SeeParent(p) \o <<Want(p), Put(p, Fresh(FileNode(data, mode))), Emit>>

Write(p, c) == Attempt(WriteFault(Visible, p), SeeParent(p), WriteScript(p, <<c>>))

AppendTo(p, c) ==
  IF ReadResult(p, "file") # "Ok" THEN Perform(<<See(p)>>, Failing(ReadResult(p, "file")))
  ELSE Perform(ReadScript(p) \o WriteScript(p, Append(Loaded(Resolve(overlay, p)), c)),
               Failing("Ok"))

Mkdir(p, mode) ==
  Attempt(MkdirFault(Visible, p), SeeParent(p),
          SeeParent(p) \o <<Want(p), Put(p, Fresh(DirNode(mode))), Emit>>)

(* The node keeps its content and its origin.                               *)
SetMode(p, mode) ==
  LET slot == Resolve(overlay, p)
      seen == IF p = Root THEN <<>> ELSE <<See(p), Emit>> IN
    Attempt(SetModeFault(Visible, p), seen,
            IF slot.node.mode = mode THEN seen
            ELSE seen \o <<Want(p), Put(p, [slot EXCEPT !.node.mode = mode]), Emit>>)

Unlink(p) ==
  Attempt(UnlinkFault(Visible, p), SeeItself(p),
          <<See(p), Want(p), Put(p, Tombstone), Emit>>)

Rmdir(p) ==
  Attempt(RmdirFault(Visible, p),
          IF RmdirFault(Visible, p) = "DirectoryNotEmpty" THEN <<See(p), List(p), Emit>>
          ELSE SeeItself(p),
          <<See(p), List(p), Emit, Want(p), Put(p, Tombstone), Emit>>)

(* Parents before children.                                                 *)
Ordered(paths) ==
  CHOOSE s \in [1..Cardinality(paths) -> paths] :
    \A i, j \in DOMAIN s : i < j => s[i] # s[j] /\ Len(s[i]) <= Len(s[j])
Each(paths, step(_)) == LET s == Ordered(paths) IN [i \in 1..Len(s) |-> step(s[i])]
EachBack(paths, step(_)) ==
  LET s == Ordered(paths) IN [i \in 1..Len(s) |-> step(s[Len(s) + 1 - i])]

(* Mutation: only the root of the tree becomes a tombstone.                 *)
BuriedRoot(paths) == Each({p \in paths : \A q \in paths : IsPrefix(p, q)},
                          LAMBDA p : Put(p, Tombstone))

Buried(paths) == Each(paths, LAMBDA p : Put(p, Tombstone))

(* The preconditions and effects of the whole subtree come first, children  *)
(* before parents.                                                          *)
RemoveTree(p) ==
  LET nodes == Subtree(Visible, p) IN
    Attempt(RemoveTreeFault(Visible, p), SeeItself(p),
            <<See(p)>> \o FlattenSeq(EachBack(nodes, LAMBDA x : <<Want(x), Emit>>))
              \o Buried(nodes))

(* Mutation: what the destination held is not written off first.            *)
RenameScriptUnguarded(from, to) ==
  LET nodes == Subtree(Visible, from) IN
    <<See(from), See(to), See(Front(to))>> \o Each(nodes, Want) \o Buried(nodes)
      \o Each(nodes, LAMBDA x : Put(Rebase(x, from, to), Resolve(overlay, x))) \o <<Emit>>

(* The destination's old node goes first, the evidence of both subtrees     *)
(* next, then the nodes move, each with its origin.                         *)
RenameScript(from, to) ==
  LET nodes == Subtree(Visible, from) IN
    <<See(from), See(to), See(Front(to))>>
      \o (IF Kind(Visible, to) = "none" THEN <<>> ELSE <<Want(to), Put(to, Tombstone)>>)
      \o Each(nodes, Want) \o Each(nodes, LAMBDA x : Want(Rebase(x, from, to)))
      \o Buried(nodes)
      \o Each(nodes, LAMBDA x : Put(Rebase(x, from, to), Resolve(overlay, x)))
      \o <<Emit>>

(* The moved subtree must stay within Path, a bound of the model.           *)
Rename(from, to) ==
  LET fault == RenameFault(Visible, from, to)
      blind == from = to \/ fault \in {"RootMutation", "InvalidRename"} IN
    /\ fault = "Ok" /\ from # to => \A x \in Subtree(Visible, from) : Rebase(x, from, to) \in Path
    /\ Attempt(fault, IF blind THEN <<>> ELSE <<See(from), See(to), See(Front(to))>>,
               IF blind THEN <<>> ELSE RenameScript(from, to))

(* retain_denial: the adapter's record of a policy refusal.                 *)
RetainDenial == Perform(<<Emit>>, Failing("PolicyDenied"))

(* limit_evidence: a limit may be raised only before the first reservation. *)
LimitEvidence(l) ==
  /\ phase = "open"
  /\ ops < MaxOps
  /\ limit' = IF records = 0 \/ l < limit THEN l ELSE limit
  /\ failed' = (failed \/ records > limit')
  /\ ops' = ops + 1
  /\ UNCHANGED <<files, reads, writes, ledger, records, answer, phase, diff>>

(* Another process rewrites a file of the workspace, once: a bound.         *)
HostEdit(p) ==
  /\ Kind(base, p) \in {"file", "link"}
  /\ phase = "open" /\ edited = {}
  /\ edited' = edited \cup {p}
  /\ UNCHANGED <<base, captured, overlay, evidence, answer, phase, diff, ops>>

-----------------------------------------------------------------------------
(* A node's identity as digests see it: base content is known by its stamp  *)
(* until it is captured, a new directory has none.                          *)
Identity(slot, c) ==
  IF slot.node = None THEN None
  ELSE LET kind == slot.node.kind IN
    <<kind, slot.node.mode,
      CASE slot.origin # None /\ (kind = "dir" \/ slot.origin \notin c) -> <<"stamp", slot.origin>>
        [] slot.origin = None /\ kind = "dir"                           -> None
        [] OTHER                                                        -> <<"blob", slot.node.data>>>>

Contents == ({"stamp"} \X Path) \cup ({"blob"} \X Seq(Chunk))
Identities == {"file", "link", "dir"} \X Modes \X (Contents \cup {None})

ASSUME IdentityAssumption == None \notin Contents \cup Identities

BaseSlot(p) == [node |-> base[p], origin |-> p]

Candidates ==
  DOMAIN overlay \cup UNION {Subtree(base, p) : p \in {q \in DOMAIN overlay :
                                       overlay[q].node = None /\ base[q] # None}}

(* Base content that a candidate holds at another path.                     *)
Relocated ==
  {Resolve(overlay, p).origin :
     p \in {q \in Candidates : LET s == Resolve(overlay, q) IN
              s.node # None /\ s.node.kind # "dir" /\ s.origin \notin {None, q}}}

Classify(before, after) ==
  IF before = None THEN "Create"
  ELSE IF after = None THEN "Delete"
  ELSE IF before[1] = after[1] /\ before[3] = after[3] THEN "MetadataChange"
  ELSE "Modify"

(* The diff when the content captured for the after states is `now` and     *)
(* for the before states `then`.                                            *)
Entries(now, then) ==
  LET entry(p) == [path |-> p, before |-> Identity(BaseSlot(p), then),
                   after |-> Identity(Resolve(overlay, p), now)] IN
    {e \in {entry(p) : p \in Candidates} : e.before # e.after}

(* Mutation: the before states are read before the captures.                *)
DiffEarly(before, after) == Entries(after, before)

DiffAfter(before, after) == Entries(after, after)

(* capture everything a set of paths needs, or find some of it stale        *)
Capture(wanted) ==
  IF wanted \cap (edited \ captured) = {}
    THEN /\ captured' = captured \cup wanted
         /\ phase' = "diffed"
         /\ diff' = DiffAfter(captured, captured')
    ELSE /\ \E part \in SUBSET (wanted \ edited) : captured' = captured \cup part
         /\ phase' = "lost"
         /\ diff' = {}

TakeDiff ==
  /\ phase = "open"
  /\ ~failed
  /\ Capture(Relocated)
  /\ UNCHANGED <<base, edited, overlay, evidence, answer, ops>>

(* evaluate_diff: before content captured for a reviewer, as far as policy  *)
(* and the byte limit allow, and the diff taken again.                      *)
Review(paths) ==
  /\ phase = "diffed"
  /\ paths \subseteq {e.path : e \in {d \in diff : d.before # None /\
                                         Classify(d.before, d.after) # "MetadataChange"}}
  /\ Capture({p \in paths : base[p].kind # "dir"})
  /\ UNCHANGED <<base, edited, overlay, evidence, answer, ops>>

-----------------------------------------------------------------------------
Init ==
  /\ base \in Bases
  /\ edited = {}
  /\ captured = {}
  /\ overlay = <<>>
  /\ reads = {}
  /\ writes = {}
  /\ ledger = 0
  /\ records = 0
  /\ limit = MostRecords
  /\ failed = FALSE
  /\ answer = Failing("Ok")
  /\ phase = "open"
  /\ diff = {}
  /\ ops = 0

Observation ==
  \E p \in Place : \/ GetMetadata(p)
                   \/ \E most \in ListLimits : ReadDir(p, most)
                   \/ \E kind \in {"file", "link"} : Read(p, kind)

Mutate ==
  \E p \in Place : \/ \E c \in Chunk : Write(p, c) \/ AppendTo(p, c)
                   \/ Mkdir(p, "rw")
                   \/ \E mode \in Modes : SetMode(p, mode)
                   \/ Unlink(p)
                   \/ Rmdir(p)
                   \/ RemoveTree(p)
                   \/ \E to \in Place : Rename(p, to)

Next ==
  \/ Observation
  \/ Mutate
  \/ RetainDenial
  \/ \E l \in Limits : LimitEvidence(l)
  \/ \E p \in Editable : HostEdit(p)
  \/ TakeDiff
  \/ \E paths \in SUBSET Path : Review(paths)

Spec == Init /\ [][Next]_vars

-----------------------------------------------------------------------------
(* The overlay is an ordinary filesystem: what the guest sees, and what     *)
(* every operation answers, is what a plain tree would show (resolve_ref,   *)
(* the tombstones of rename and remove_tree, mode changes that keep base    *)
(* content).                                                                *)
Plain == INSTANCE PlainFs WITH tree <- Visible, spent <- failed
ImplementsPlain == Plain!Spec

(* The diff names every path whose final node differs from the base, binds  *)
(* the bytes of everything that is not still the base file of that path,    *)
(* has a write precondition for each entry, and lists an unchanged node     *)
(* only where it was replaced (canonical_diff, record_write_precondition).  *)
(* Taken again it is the same diff: the digest that review and approval are *)
(* bound to does not depend on what the first pass captured.                *)
DiffExact ==
  phase = "diffed" =>
    /\ \A p \in Path : base[p] # Visible[p] => \E e \in diff : e.path = p
    /\ \A e \in diff :
         LET slot == Resolve(overlay, e.path) IN
           /\ e.path \in writes
           /\ base[e.path] # slot.node \/ slot.origin # e.path
           /\ slot.node # None /\ slot.node.kind # "dir" /\ slot.origin # e.path
                => e.after[3] = <<"blob", slot.node.data>>
    /\ diff = DiffAfter(captured, captured \cup Relocated)

(* Each fact in the read set is the base's, whatever the overlay held when  *)
(* it was recorded: the commit compares these facts with the host.          *)
EvidenceIsBase == \A r \in reads : r[3] = Fact(base, r[1], r[2])

(* Every retained observation, precondition, effect and denial was charged  *)
(* once, also when an operation was stopped half way.                       *)
Accounted ==
  /\ records = Cardinality({r[1] : r \in reads}) + Cardinality(writes) + ledger
  /\ records > limit => failed
================================================================================
