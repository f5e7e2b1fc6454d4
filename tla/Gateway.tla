-------------------------------- MODULE Gateway --------------------------------
(***************************************************************************)
(* FsGateway and the adapter in front of it: a guest's filesystem calls    *)
(* under a call policy and an execution budget, until the guest completes  *)
(* and the transaction policy decides, or a limit stops it.                *)
(*                                                                         *)
(* A call is the script of what it authorizes, charges, looks at and       *)
(* changes, in the code's order.  The first step that fails ends it, and   *)
(* nothing is taken back.  A denial is kept for the decision, and like any *)
(* filesystem error it goes to the guest as an exception; a limit is final.*)
(*                                                                         *)
(* The files are one plain tree (VirtualFs is shown to be one), and the    *)
(* evidence budget is VirtualFs's.                                         *)
(***************************************************************************)
EXTENDS Policy

CONSTANTS Policies,   \* the call policies: sets of [pattern, denied]
          Bases,      \* the trees a transaction starts from
          Named,      \* bound: the places the guest names
          NameOrder,  \* the names, in order
          Limit,      \* ExecutionLimits: [calls, read, write, entries]
          CallLimit,  \* max_io_call_bytes
          PathLimit   \* max_path_bytes, in components

ASSUME GatewayAssumption ==
  /\ \A b \in Bases : Rooted(b)
  /\ \A rules \in Policies : \A rule \in rules : rule.denied \subseteq Accesses
  /\ Named \subseteq Place

VARIABLES base,       \* the snapshot's tree
          tree,       \* the files as the guest sees them
          policy,     \* CallPolicy
          used,       \* ExecutionStats: what was charged
          done,       \* history: what was read, written and listed
          attempted,  \* denied_accesses is not empty
          renamed,    \* the effects hold a rename
          answer,     \* what the last call returned
          phase,      \* "running", "stopped" by a limit, "decided"
          decision

vars == <<base, tree, policy, used, done, attempted, renamed, answer, phase, decision>>

Nothing == [calls |-> 0, read |-> 0, write |-> 0, entries |-> 0]

LimitFaults == {"OsCalls", "ReadBytes", "WriteBytes", "CallBytes", "DirectoryEntries", "PathBytes"}

(* The paths a rule's pattern matches, by the code and by its meaning.      *)
Rules == UNION Policies
Matched == [rule \in Rules |-> {p \in Place : PatternMatches(rule.pattern, p)}]
Globbed == [rule \in Rules |-> {p \in Path : GlobMatches(rule.pattern, p)}]
Meant == [rule \in Rules |-> {p \in Place : Means(rule.pattern, p)}]

(* CallPolicy::authorize: some rule matches the path and denies the access. *)
Denies(p, access) == \E rule \in policy : access \in rule.denied /\ p \in Matched[rule]

(* hard_denial: the changes that the call policy denies.                    *)
Barred == {entry \in Diff(base, tree) : Denies(entry.path, AccessOf(entry))}

MeantToDeny(p, access) == \E rule \in policy : access \in rule.denied /\ p \in Meant[rule]

-----------------------------------------------------------------------------
(* The steps of a script.                                                   *)
May(p, accesses) == [do |-> "may", at |-> p, accesses |-> accesses]
Need(fault) == [do |-> "need", fault |-> fault]
Charge(what, n) == [do |-> "charge", what |-> what, n |-> n]
List(p) == [do |-> "list", at |-> p]
Deliver(p) == [do |-> "deliver", at |-> p]
Put(p, data, n) == [do |-> "put", at |-> p, data |-> data, n |-> n]  \* n of it submitted
Make(p, mode) == [do |-> "make", at |-> p, mode |-> mode]
Change(fault, new) == [do |-> "change", fault |-> fault, new |-> new]

Fail(s, fault) == [s EXCEPT !.fault = fault]

FaultOf(what) ==
  CASE what = "calls" -> "OsCalls" [] what = "read" -> "ReadBytes"
    [] what = "write" -> "WriteBytes" [] what = "entries" -> "DirectoryEntries"

(* charge: a counter that would pass its limit stays where it is; a read or *)
(* a write has a limit of its own.                                          *)
Spend(s, what, n) ==
  IF what \in {"read", "write"} /\ n > CallLimit THEN Fail(s, "CallBytes")
  ELSE IF s.used[what] + n > Limit[what] THEN Fail(s, FaultOf(what))
  ELSE [s EXCEPT !.used[what] = @ + n]

(* authorize: the path's length, then the accesses in turn.                 *)
Authorize(s, p, accesses) ==
  IF Len(p) > PathLimit THEN Fail(s, "PathBytes")
  ELSE IF \E access \in accesses : Denies(p, access) THEN Fail(s, "Policy")
  ELSE s

(* list_authorized_children: every child is charged, shown or not.          *)
ListChildren(s, p) ==
  LET n == Cardinality(Children(s.tree, p))
      charged == Spend(s, "entries", n) IN
  IF DirFault(s.tree, p) # "Ok" THEN Fail(s, DirFault(s.tree, p))
  ELSE IF charged.fault # "Ok" THEN charged
  ELSE [charged EXCEPT !.done.entries = @ + n]

Outcome(s, fault, new) == IF fault = "Ok" THEN [s EXCEPT !.tree = new] ELSE Fail(s, fault)

Step(s, step) ==
  IF s.fault # "Ok" THEN s ELSE
  CASE step.do = "may"     -> Authorize(s, step.at, step.accesses)
    [] step.do = "need"    -> Fail(s, step.fault)
    [] step.do = "charge"  -> Spend(s, step.what, step.n)
    [] step.do = "list"    -> ListChildren(s, step.at)
    [] step.do = "deliver" -> [s EXCEPT !.done.read = @ + Len(s.tree[step.at].data)]
    [] step.do = "put"     ->
         LET fault == WriteFault(s.tree, step.at) IN
         Outcome([s EXCEPT !.done.write = @ + step.n], fault,
                 IF fault = "Ok" THEN Written(s.tree, step.at, step.data) ELSE s.tree)
    [] step.do = "make"    ->
         LET fault == MkdirFault(s.tree, step.at) IN
         Outcome(s, fault, IF fault = "Ok" THEN [s.tree EXCEPT ![step.at] = DirNode(step.mode)]
                           ELSE s.tree)
    [] step.do = "change"  -> Outcome(s, step.fault, step.new)

(* The guest's request: charge_os_call, the gateway, and call_result.       *)
(* Mutation: a denial the guest catches is forgotten.                       *)
CallForgiving(script) ==
  LET s == FoldLeft(Step, [tree |-> tree, used |-> used, done |-> done, fault |-> "Ok"],
                    <<Charge("calls", 1)>> \o script) IN
  /\ phase = "running" /\ used.calls < Limit.calls
  /\ tree' = s.tree /\ used' = s.used /\ done' = s.done /\ answer' = s.fault
  /\ phase' = IF s.fault \in LimitFaults THEN "stopped" ELSE phase
  /\ UNCHANGED <<base, policy, attempted, decision>>

Call(script) ==
  LET s == FoldLeft(Step, [tree |-> tree, used |-> used, done |-> done, fault |-> "Ok"],
                    <<Charge("calls", 1)>> \o script) IN
  /\ phase = "running" /\ used.calls < Limit.calls
  /\ tree' = s.tree /\ used' = s.used /\ done' = s.done /\ answer' = s.fault
  /\ attempted' = (attempted \/ s.fault = "Policy")
  /\ phase' = IF s.fault \in LimitFaults THEN "stopped" ELSE phase
  /\ UNCHANGED <<base, policy, decision>>

Request(script) == Call(script) /\ UNCHANGED renamed

-----------------------------------------------------------------------------
(* Single calls.                                                            *)
Bytes(p) == IF p = Root \/ Kind(tree, p) = "none" THEN <<>> ELSE tree[p].data

Missing(p) == IF Kind(tree, p) = "none" THEN "NotFound" ELSE "Ok"

MetadataScript(p) == <<May(p, {"MetadataRead"}), Need(Missing(p))>>

ReadScript(p, kind) ==
  <<May(p, {"ContentRead"}), Need(ReadFault(tree, p, kind)),
    Charge("read", Len(Bytes(p))), Deliver(p)>>

WriteScript(p, data) ==
  <<Charge("write", Len(data)), May(p, {"Create", "Modify"}), Put(p, data, Len(data))>>

(* Mutation: what an append reads back is not charged.                      *)
AppendScriptUncharged(p, data) ==
  <<Charge("write", Len(data)), May(p, {"Create", "Modify"})>>
  \o IF Kind(tree, p) = "none" THEN <<Put(p, data, Len(data))>>
     ELSE <<Need(ReadFault(tree, p, "file")), Deliver(p), Put(p, Bytes(p) \o data, Len(data))>>

AppendScript(p, data) ==
  <<Charge("write", Len(data)), May(p, {"Create", "Modify"})>>
  \o IF Kind(tree, p) = "none" THEN <<Put(p, data, Len(data))>>
     ELSE <<Need(ReadFault(tree, p, "file")), Charge("read", Len(Bytes(p))), Deliver(p),
            Put(p, Bytes(p) \o data, Len(data))>>

ReadDirScript(p) == <<May(p, {"DirectoryRead"}), List(p)>>

SetModeScript(p, mode) ==
  <<May(p, {"MetadataRead", "Modify"}),
    Change(SetModeFault(tree, p), IF SetModeFault(tree, p) = "Ok"
                                  THEN [tree EXCEPT ![p].mode = mode] ELSE tree)>>

Unlinking(p) == Change(UnlinkFault(tree, p), Cleared(tree, p))

UnlinkScript(p) == <<May(p, {"Delete"}), Unlinking(p)>>

RmdirScript(p) ==
  <<May(p, {"Delete", "DirectoryRead"}), Need(IF p = Root THEN "RootMutation" ELSE "Ok"),
    List(p), Change(RmdirFault(tree, p), Cleared(tree, p))>>

OpenScript(p, mode) ==
  <<May(p, CASE mode = "Read"                 -> {"ContentRead"}
             [] mode \in {"Write", "Append"}  -> {"Create", "Modify"}
             [] OTHER                         -> {"ContentRead", "Create", "Modify"})>>
  \o IF \/ mode \in {"Write", "WriteUpdate"}
        \/ mode \notin {"Read", "ReadUpdate"} /\ Kind(tree, p) = "none"
       THEN <<Put(p, <<>>, 0)>> ELSE <<Need(ReadFault(tree, p, "file"))>>

(* vsh_patch: a read and, when the text is there, a write of the whole.     *)
PatchScript(p, c) ==
  ReadScript(p, "file")
  \o IF Bytes(p) = <<>> THEN <<Need("ValueError")>>
     ELSE WriteScript(p, [Bytes(p) EXCEPT ![1] = c])

-----------------------------------------------------------------------------
(* Calls on several paths.  A traversal keeps a stack of directories, so of *)
(* the subdirectories of one the last is listed first.                      *)
NameBefore(x, y) ==
  (CHOOSE i \in DOMAIN NameOrder : NameOrder[i] = x) < (CHOOSE i \in DOMAIN NameOrder : NameOrder[i] = y)

Parting(x, y) == CHOOSE i \in 1..Len(x) : x[i] # y[i] /\ SubSeq(x, 1, i - 1) = SubSeq(y, 1, i - 1)

PathBefore(x, y) ==
  \/ IsStrictPrefix(x, y)
  \/ ~IsPrefix(y, x) /\ ~IsPrefix(x, y) /\ NameBefore(x[Parting(x, y)], y[Parting(x, y)])

PoppedBefore(x, y) ==
  IsStrictPrefix(x, y) \/ (~IsStrictPrefix(y, x) /\ PathBefore(y, x))

InOrder(S, Before(_, _)) ==
  [i \in 1..Cardinality(S) |-> CHOOSE x \in S : Cardinality({y \in S : Before(y, x)}) = i - 1]

Listed(p) == InOrder(Children(tree, p), PathBefore)

(* The shell also asks for the metadata of each child it is shown.          *)
ShellReadDirScript(p) ==
  ReadDirScript(p)
  \o FlattenSeq([i \in DOMAIN Listed(p) |->
       IF Denies(Listed(p)[i], "MetadataRead") THEN <<>> ELSE MetadataScript(Listed(p)[i])])

Directories(p) ==
  InOrder({p} \cup {x \in Subtree(tree, p) : Kind(tree, x) = "dir"}, PoppedBefore)

(* What a traversal asks of p, of every directory below it and of every     *)
(* child.                                                                   *)
Traverse(p, accesses, Child(_)) ==
  LET Visit(d) == <<May(d, accesses), List(d)>>
                  \o FlattenSeq([i \in DOMAIN Listed(d) |-> Child(Listed(d)[i])]) IN
  FlattenSeq([i \in DOMAIN Directories(p) |-> Visit(Directories(p)[i])])

(* mkdir_options: every ancestor may have to be created.                    *)
Ancestors(p) ==
  IF p = Root THEN <<>> ELSE [i \in 1..Len(p) - 1 |-> SubSeq(p, 1, Len(p) - i)]

MkdirScript(p, parents, existOk) ==
  LET absent == SelectSeq(Reverse(Ancestors(p)) \o <<p>>, LAMBDA x : Kind(tree, x) = "none")
      above == Front(Head(absent)) IN
  <<May(p, {"Create", "Modify"})>>
  \o (IF parents THEN [i \in DOMAIN Ancestors(p) |-> May(Ancestors(p)[i], {"Create", "Modify"})]
      ELSE <<>>)
  \o IF Kind(tree, p) # "none"
       THEN <<Need(IF existOk /\ Kind(tree, p) = "dir" THEN "Ok" ELSE "AlreadyExists")>>
     ELSE IF ~parents THEN <<Make(p, "rw")>>
     ELSE <<Need(DirFault(tree, above))>> \o [i \in DOMAIN absent |-> Make(absent[i], "rw")]

(* Mutation: only the directories are asked for.                            *)
RemoveTreeScriptShallow(p) ==
  Traverse(p, {"Delete", "DirectoryRead"}, LAMBDA x : <<>>)
  \o <<Change(RemoveTreeFault(tree, p), Cleared(tree, p))>>

RemoveTreeScript(p) ==
  Traverse(p, {"Delete", "DirectoryRead"}, LAMBDA x : <<May(x, {"Delete"})>>)
  \o <<Change(RemoveTreeFault(tree, p), Cleared(tree, p))>>

RemoveScript(p, recursive, missingOk) ==
  <<May(p, {"Delete"})>>
  \o IF Kind(tree, p) = "none" THEN <<Need(IF missingOk THEN "Ok" ELSE "NotFound")>>
     ELSE IF Kind(tree, p) # "dir" THEN <<Unlinking(p)>>
     ELSE IF recursive THEN RemoveTreeScript(p) ELSE RmdirScript(p)

Nested(from, to) == from # to /\ (IsPrefix(from, to) \/ IsPrefix(to, from))

RenameScript(from, to) ==
  <<May(from, {"RenameSource"}), May(to, {"RenameDestination"})>>
  \o IF Root \in {from, to} THEN <<Need("RootMutation")>>
     ELSE IF Nested(from, to) THEN <<Need("InvalidRename")>>
     ELSE IF from = to THEN <<>>
     ELSE <<Need(Missing(from))>>
          \o (IF Kind(tree, from) # "dir" THEN <<>>
              ELSE Traverse(from, {"DirectoryRead"},
                            LAMBDA x : <<May(x, {"RenameSource"}),
                                         May(Rebase(x, from, to), {"RenameDestination"})>>))
          \o <<Change(RenameFault(tree, from, to), Moved(tree, from, to))>>

(* copy: nothing is created before everything was asked for and read.       *)
CopyFileScript(from, to, overwrite) ==
  LET n == Len(Bytes(from)) IN
  IF Kind(tree, to) # "none" /\ ~overwrite THEN <<Need("AlreadyExists")>>
  ELSE IF Kind(tree, to) = "dir" THEN <<Need("IsDirectory")>>
  ELSE <<May(from, {"ContentRead"}), Charge("read", n), Deliver(from), Charge("write", n),
         Put(to, Bytes(from), n)>>

Ready(x, target) ==
  <<May(x, {"MetadataRead"}), May(target, {"Create", "Modify"})>>
  \o CASE Kind(tree, x) = "dir"  -> <<>>
       [] Kind(tree, x) = "link" -> <<Need("InvalidOperation")>>
       [] Kind(tree, x) = "file" ->
            <<May(x, {"ContentRead"}), Charge("read", Len(Bytes(x))), Deliver(x),
              Charge("write", Len(Bytes(x)))>>

Made(x, target) ==
  IF Kind(tree, x) = "dir" THEN <<Make(target, At(tree, x).mode)>>
  ELSE <<Put(target, Bytes(x), Len(Bytes(x)))>>

Shallow(x, y) == Len(x) < Len(y) \/ (Len(x) = Len(y) /\ PathBefore(x, y))

(* Mutation: each child is made as soon as it may be.                       *)
CopyTreeScriptEager(from, to) ==
  Made(from, to)
  \o Traverse(from, {"DirectoryRead"},
              LAMBDA x : Ready(x, Rebase(x, from, to)) \o Made(x, Rebase(x, from, to)))

CopyTreeScript(from, to) ==
  LET nodes == InOrder(Subtree(tree, from), Shallow) IN
  Traverse(from, {"DirectoryRead"}, LAMBDA x : Ready(x, Rebase(x, from, to)))
  \o FlattenSeq([i \in DOMAIN nodes |-> Made(nodes[i], Rebase(nodes[i], from, to))])

CopyScript(from, to, recursive, overwrite) ==
  <<May(from, {"MetadataRead"}), May(to, {"Create", "Modify"})>>
  \o IF IsPrefix(from, to) THEN <<Need("InvalidOperation")>>
     ELSE IF to = Root THEN <<Need("RootMutation")>>
     ELSE IF DirFault(tree, Front(to)) # "Ok" THEN <<Need(DirFault(tree, Front(to)))>>
     ELSE CASE Kind(tree, from) = "none" -> <<Need("NotFound")>>
            [] Kind(tree, from) = "file" -> CopyFileScript(from, to, overwrite)
            [] Kind(tree, from) = "dir" /\ recursive ->
                 IF Kind(tree, to) = "none" THEN CopyTreeScript(from, to)
                 ELSE <<Need(IF overwrite THEN "InvalidOperation" ELSE "AlreadyExists")>>
            [] OTHER                     -> <<Need("InvalidOperation")>>

(* walk_visible, for vsh_glob and vsh_search: what may not be seen is       *)
(* skipped without a word, and the visitor may stop at any node.            *)
Enters(q) == ~Denies(q, "MetadataRead") /\ ~Denies(q, "DirectoryRead")

Shown(root) ==
  {x \in Subtree(tree, root) \ {root} :
     /\ ~Denies(x, "MetadataRead")
     /\ \A q \in Path : IsStrictPrefix(root, q) /\ IsStrictPrefix(q, x) => Enters(q)}

WalkScript(root, Visit(_), visits) ==
  LET nodes == InOrder(Shown(root), PathBefore)
      Enter(x) == IF Kind(tree, x) = "dir" /\ Enters(x) THEN <<List(x)>> ELSE <<>> IN
  <<May(root, {"MetadataRead"}), Need(DirFault(tree, root)), May(root, {"DirectoryRead"}),
    List(root)>>
  \o FlattenSeq([i \in DOMAIN nodes |->
       CASE i < visits -> Visit(nodes[i]) \o Enter(nodes[i])
         [] i = visits -> Visit(nodes[i])
         [] OTHER      -> <<>>])

(* search_file skips what it may not read.                                  *)
SearchFile(x) ==
  IF Kind(tree, x) # "file" \/ Denies(x, "ContentRead") THEN <<>>
  ELSE <<May(x, {"ContentRead"}), Charge("read", Len(Bytes(x))), Deliver(x)>>

GlobScript(root, visits) == WalkScript(root, LAMBDA x : <<>>, visits)

SearchScript(root, visits) ==
  MetadataScript(root)
  \o IF Kind(tree, root) = "dir" THEN WalkScript(root, SearchFile, visits)
     ELSE <<May(root, {"ContentRead"})>> \o SearchFile(root)

-----------------------------------------------------------------------------
Metadata(p) == Request(MetadataScript(p))
Read(p) == \E kind \in {"file", "link"} : Request(ReadScript(p, kind))
Write(p) == \E c \in Chunk : Request(WriteScript(p, <<c>>))
AppendTo(p) == \E c \in Chunk : Request(AppendScript(p, <<c>>))
Patch(p) == \E c \in Chunk : Request(PatchScript(p, c))
Open(p) ==
  \E mode \in {"Read", "ReadUpdate", "Write", "WriteUpdate", "Append", "AppendUpdate"} :
    Request(OpenScript(p, mode))
ReadDir(p) == \E script \in {ReadDirScript(p), ShellReadDirScript(p)} : Request(script)
Mkdir(p) == \E parents, existOk \in BOOLEAN : Request(MkdirScript(p, parents, existOk))
SetMode(p) == \E mode \in Modes : Request(SetModeScript(p, mode))
Unlink(p) == Request(UnlinkScript(p))
Rmdir(p) == Request(RmdirScript(p))
RemovePath(p) == \E recursive, missingOk \in BOOLEAN : Request(RemoveScript(p, recursive, missingOk))
Visits(p) == 1..Cardinality(Subtree(tree, p)) + 1
Glob(p) == \E visits \in Visits(p) : Request(GlobScript(p, visits))
Search(p) == \E visits \in Visits(p) : Request(SearchScript(p, visits))

Rename(from, to) ==
  /\ Call(RenameScript(from, to))
  /\ renamed' = (renamed \/ (answer' = "Ok" /\ from # to))

Copy(from, to) ==
  \E recursive, overwrite \in BOOLEAN : Request(CopyScript(from, to, recursive, overwrite))

(* One call too many: charge_os_call refuses it, whatever it asks for.      *)
OutOfCalls ==
  /\ phase = "running" /\ used.calls = Limit.calls
  /\ phase' = "stopped" /\ answer' = "OsCalls"
  /\ UNCHANGED <<base, tree, policy, used, done, attempted, renamed, decision>>

(* The guest completes; evaluate_diff.                                      *)
Finish ==
  /\ phase = "running"
  /\ phase' = "decided"
  /\ decision' = Evaluate(Diff(base, tree), renamed, Cardinality(Subtree(base, Root)) + 1,
                          attempted, Barred)
  /\ UNCHANGED <<base, tree, policy, used, done, attempted, renamed, answer>>

Init ==
  /\ base \in Bases /\ tree = base
  /\ policy \in Policies
  /\ used = Nothing /\ done = Nothing
  /\ attempted = FALSE /\ renamed = FALSE
  /\ answer = "Ok" /\ phase = "running" /\ decision = "none"

Next ==
  \/ \E p \in Named :
       \/ Metadata(p) \/ Read(p) \/ Write(p) \/ AppendTo(p) \/ Patch(p) \/ Open(p) \/ ReadDir(p)
       \/ Mkdir(p) \/ SetMode(p) \/ Unlink(p) \/ Rmdir(p) \/ RemovePath(p)
       \/ Glob(p) \/ Search(p)
       \/ \E to \in Named : Rename(p, to) \/ Copy(p, to)
  \/ OutOfCalls \/ Finish

Spec == Init /\ [][Next]_vars

-----------------------------------------------------------------------------
(* Whatever sequence of calls a guest makes, renaming, copying and removing *)
(* above or around it, a path that the policy's patterns mean to keep from  *)
(* every mutation is, at any moment, what it was in the snapshot.           *)
ProtectedIntact ==
  \A p \in Path :
    (\A access \in Mutations : MeantToDeny(p, access)) => tree[p] = base[p]

(* The matchers, the policy's and vsh_glob's, with their short cuts by      *)
(* shape and their single points to go back to, find exactly the paths the  *)
(* patterns mean.                                                           *)
PatternsMeant ==
  \A rule \in policy :
    /\ Matched[rule] = Meant[rule]
    /\ Globbed[rule] = {p \in Path : GlobMeans(rule.pattern, p)}

(* A transaction that is not denied changes nothing a pattern means to keep *)
(* from that change: what a rename got past its own accesses is caught by   *)
(* the decision, on the difference of the trees.                            *)
AcceptedIsAllowed ==
  decision \in {"AutoApproved", "PendingApproval"} =>
    /\ \A entry \in Diff(base, tree) : ~MeantToDeny(entry.path, AccessOf(entry))
    /\ answer # "Policy"

(* A call that fails, however far its traversal had come, leaves the files  *)
(* as they were.                                                            *)
WholeOrNothing == [][answer' # "Ok" => tree' = tree]_vars

(* No bytes are read or written and no entries listed that were not charged *)
(* for, and no counter passes its limit.                                    *)
WorkCharged ==
  \A what \in DOMAIN Nothing : done[what] <= used[what] /\ used[what] <= Limit[what]

(* Doing more never makes the decision laxer: of no part of what a guest    *)
(* did would the policy have decided more severely.                         *)
Severity(d) == CASE d = "AutoApproved" -> 0 [] d = "PendingApproval" -> 1 [] d = "Denied" -> 2

MoreIsNotLess ==
  phase = "decided" =>
    \A part \in SUBSET Diff(base, tree) :
      Severity(Evaluate(part, renamed, Cardinality(Subtree(base, Root)) + 1, attempted, Barred))
        <= Severity(decision)
===============================================================================
