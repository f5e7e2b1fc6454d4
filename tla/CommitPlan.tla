------------------------------ MODULE CommitPlan ------------------------------
(***************************************************************************)
(* PreparedPlan::prepare: how the canonical diff of a transaction becomes  *)
(* the sequence of host operations the committer journals and performs,    *)
(* and what each operation does to a tree when nothing interferes.         *)
(*                                                                         *)
(* A path is the sequence of its component names.  A tree maps every path  *)
(* to a node or to None; the node of a directory has no data of its own.   *)
(* Modes are "rw" and "ro": with and without the owner's write bit.        *)
(***************************************************************************)
EXTENDS Naturals, Sequences, FiniteSets, SequencesExt

CONSTANTS Path,   \* the workspace paths, closed under non-empty prefixes
          None    \* no node

Name == UNION {Range(p) : p \in Path}

Contents == {"old", "new"}
Modes == {"rw", "ro"}
Node == [kind : {"file", "link"}, data : Contents, mode : Modes]
          \cup [kind : {"dir"}, data : {"entries"}, mode : Modes]

ASSUME PathAssumption ==
  /\ IsFiniteSet(Path) /\ Path \subseteq Seq(Name)
  /\ \A p \in Path : Len(p) > 0 /\ (Len(p) > 1 => Front(p) \in Path)
  /\ None \notin Node

Present(tree, p) == tree[p] # None
IsKind(tree, p, kind) == tree[p] # None /\ tree[p].kind = kind
IsDir(tree, p) == IsKind(tree, p, "dir")
Within(p) == {x \in Path : IsPrefix(p, x)}

(* Every node sits in a directory.                                          *)
WellFormed(tree) ==
  \A p \in Path : Len(p) > 1 /\ Present(tree, p) => IsDir(tree, Front(p))

(* The paths of the canonical diff.                                         *)
Changed(before, after) == {p \in Path : before[p] # after[p]}

-----------------------------------------------------------------------------
(* The diff entries whose old node must leave its place.                    *)
Destructive(before, after, p) ==
  /\ Present(before, p)
  /\ \/ ~Present(after, p)
     \/ after[p].kind # before[p].kind
     \/ after[p].kind = "link"
     \/ after[p].kind = "file" /\ after[p].data # before[p].data

DestructiveRoots(before, after) ==
  LET gone == {p \in Changed(before, after) : Destructive(before, after, p)} IN
    {p \in gone : ~\E q \in gone : IsStrictPrefix(q, p)}

Created(before, after) ==
  {p \in Changed(before, after) : IsDir(after, p) /\ ~IsDir(before, p)}

(* Same bytes, another mode: changed in place.                              *)
FileModes(before, after) ==
  {p \in Changed(before, after) :
     IsKind(before, p, "file") /\ IsKind(after, p, "file") /\ before[p].data = after[p].data}

Files(before, after) ==
  {p \in Changed(before, after) : IsKind(after, p, "file")} \ FileModes(before, after)

Links(before, after) == {p \in Changed(before, after) : IsKind(after, p, "link")}

DirectoryModes(before, after) ==
  {p \in Changed(before, after) : IsDir(before, p) /\ IsDir(after, p)}

(* Mode changes that give the owner write access to a directory.            *)
Access(before, after) ==
  {p \in DirectoryModes(before, after) : before[p].mode = "ro" /\ after[p].mode = "rw"}

(* What CommitPlan::new accepts, and what the host then permits: a created  *)
(* directory is writable, and nothing changes in a directory that stays     *)
(* read-only.                                                               *)
Acceptable(before, after) ==
  /\ before # after
  /\ \A p \in Created(before, after) : after[p].mode = "rw"
  /\ \A p \in Changed(before, after) :
       Len(p) > 1 /\ IsDir(before, Front(p)) /\ IsDir(after, Front(p))
         => "rw" \in {before[Front(p)].mode, after[Front(p)].mode}

(* The operations by the depth of their paths.  Siblings, which the code    *)
(* orders by name, stand in some fixed order.                               *)
ShallowFirst(operations) ==
  CHOOSE s \in [1..Cardinality(operations) -> operations] :
    \A i, j \in DOMAIN s : i < j => s[i] # s[j] /\ Len(s[i].path) <= Len(s[j].path)

DeepFirst(operations) == Reverse(ShallowFirst(operations))

Operations(name, paths) == {[op |-> name, path |-> p] : p \in paths}

(* Mutation: access grants run where the restrictions do, after the         *)
(* children of the directory.                                               *)
PrepareLate(before, after) ==
  LET modes == DirectoryModes(before, after) IN
       ShallowFirst(Operations("Quarantine", DestructiveRoots(before, after)))
    \o ShallowFirst(Operations("CreateDirectory", Created(before, after)))
    \o ShallowFirst(Operations("SetFileMode", FileModes(before, after))
                    \cup Operations("InstallFile", Files(before, after))
                    \cup Operations("InstallSymlink", Links(before, after)))
    \o DeepFirst(Operations("SetDirectoryMode", modes))

(* The operations in the order the committer performs them.                 *)
Prepare(before, after) ==
  LET access == Access(before, after)
      modes == DirectoryModes(before, after) IN
       ShallowFirst(Operations("SetDirectoryMode", access))
    \o ShallowFirst(Operations("Quarantine", DestructiveRoots(before, after)))
    \o ShallowFirst(Operations("CreateDirectory", Created(before, after)))
    \o ShallowFirst(Operations("SetFileMode", FileModes(before, after))
                    \cup Operations("InstallFile", Files(before, after))
                    \cup Operations("InstallSymlink", Links(before, after)))
    \o DeepFirst(Operations("SetDirectoryMode", modes \ access))

-----------------------------------------------------------------------------
(* What an operation needs from the tree it meets, and what it makes of it. *)
ModeOperation(o) == o.op \in {"SetFileMode", "SetDirectoryMode"}

ParentWritable(tree, p) ==
  Len(p) > 1 => IsDir(tree, Front(p)) /\ tree[Front(p)].mode = "rw"

Applicable(tree, o) ==
  CASE o.op = "Quarantine" -> ParentWritable(tree, o.path) /\ Present(tree, o.path)
    [] ModeOperation(o)    -> Present(tree, o.path)
    [] OTHER               -> ParentWritable(tree, o.path) /\ ~Present(tree, o.path)

Without(tree, p) == [x \in Path |-> IF x \in Within(p) THEN None ELSE tree[x]]

Applied(tree, o, after) ==
  CASE o.op = "Quarantine" -> Without(tree, o.path)
    [] ModeOperation(o)    -> [tree EXCEPT ![o.path].mode = after[o.path].mode]
    [] OTHER               -> [tree EXCEPT ![o.path] = after[o.path]]

(* Mutation: a mode change is never undone.                                 *)
UndoneKeepingModes(tree, o, before) ==
  CASE o.op = "Quarantine" -> [x \in Path |-> IF x \in Within(o.path) THEN before[x] ELSE tree[x]]
    [] ModeOperation(o)    -> tree
    [] OTHER               -> [tree EXCEPT ![o.path] = None]

(* The inverse, with the old nodes at hand.                                 *)
Undone(tree, o, before) ==
  CASE o.op = "Quarantine" -> [x \in Path |-> IF x \in Within(o.path) THEN before[x] ELSE tree[x]]
    [] ModeOperation(o)    -> [tree EXCEPT ![o.path].mode = before[o.path].mode]
    [] OTHER               -> [tree EXCEPT ![o.path] = None]

Undoable(tree, o) ==
  CASE o.op = "Quarantine"      -> ParentWritable(tree, o.path) /\ ~Present(tree, o.path)
    [] ModeOperation(o)         -> Present(tree, o.path)
    [] o.op = "CreateDirectory" -> /\ ParentWritable(tree, o.path)
                                   /\ \A x \in Within(o.path) \ {o.path} : ~Present(tree, x)
    [] OTHER                    -> ParentWritable(tree, o.path) /\ Present(tree, o.path)
=============================================================================
