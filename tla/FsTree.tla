-------------------------------- MODULE FsTree --------------------------------
(***************************************************************************)
(* The file trees of a transaction and what each filesystem operation asks *)
(* of one: for every operation of VirtualFs, the error it answers on a     *)
(* given tree, or "Ok".  The plain filesystem (PlainFs) and the overlay    *)
(* that stands for it (VirtualFs) both read these.                         *)
(*                                                                         *)
(* A path is the sequence of its component names and the root is the empty *)
(* one.  A tree maps every other path to a node or to None.  Contents are  *)
(* sequences of chunks, so that an append is told from a write; a mode is  *)
(* "rw" or "ro".                                                           *)
(***************************************************************************)
EXTENDS Naturals, Sequences, SequencesExt

CONSTANTS Path,   \* the paths other than the root, closed under prefixes
          Chunk,  \* what a write or an append submits
          None    \* no node

Name == UNION {Range(p) : p \in Path}   \* the names of components

ASSUME PathAssumption ==
  /\ Path \subseteq Seq(Name)
  /\ \A p \in Path : Len(p) > 0 /\ (Len(p) > 1 => Front(p) \in Path)

Root == <<>>
Place == Path \cup {Root}
Modes == {"rw", "ro"}
Node == [kind : {"file", "link", "dir"}, data : Seq(Chunk), mode : Modes]

ASSUME NoneAssumption == None \notin Node \cup Place

DirNode(mode) == [kind |-> "dir", data |-> <<>>, mode |-> mode]
FileNode(data, mode) == [kind |-> "file", data |-> data, mode |-> mode]

At(t, p) == IF p = Root THEN DirNode("rw") ELSE t[p]
Kind(t, p) == IF At(t, p) = None THEN "none" ELSE At(t, p).kind
Below(p) == {x \in Path : IsPrefix(p, x)}
Subtree(t, p) == {x \in Below(p) : t[x] # None}
Children(t, p) == {x \in Subtree(t, p) : Len(x) = Len(p) + 1}

(* Every node sits in a directory.                                          *)
Rooted(t) == \A p \in Path : t[p] # None => Kind(t, Front(p)) = "dir"

(* VPath::rebase: where a path below `from` goes when `from` becomes `to`.  *)
Rebase(x, from, to) == to \o SubSeq(x, Len(from) + 1, Len(x))

-----------------------------------------------------------------------------
DirFault(t, p) ==
  CASE Kind(t, p) = "none" -> "NotFound"
    [] Kind(t, p) = "dir"  -> "Ok"
    [] OTHER               -> "NotDirectory"

ReadFault(t, p, kind) ==
  CASE Kind(t, p) = "none" -> "NotFound"
    [] Kind(t, p) = kind   -> "Ok"
    [] OTHER               -> "WrongKind"

WriteFault(t, p) ==
  IF p = Root THEN "RootMutation"
  ELSE IF DirFault(t, Front(p)) # "Ok" THEN DirFault(t, Front(p))
  ELSE IF Kind(t, p) \in {"none", "file"} THEN "Ok" ELSE "WrongKind"

MkdirFault(t, p) ==
  IF p = Root THEN "RootMutation"
  ELSE IF DirFault(t, Front(p)) # "Ok" THEN DirFault(t, Front(p))
  ELSE IF Kind(t, p) = "none" THEN "Ok" ELSE "AlreadyExists"

SetModeFault(t, p) ==
  IF p = Root THEN "RootMutation"
  ELSE CASE Kind(t, p) = "none" -> "NotFound"
         [] Kind(t, p) = "link" -> "SymlinkMode"
         [] OTHER               -> "Ok"

UnlinkFault(t, p) ==
  IF p = Root THEN "RootMutation"
  ELSE CASE Kind(t, p) = "none" -> "NotFound"
         [] Kind(t, p) = "dir"  -> "IsDirectory"
         [] OTHER               -> "Ok"

RmdirFault(t, p) ==
  IF p = Root THEN "RootMutation"
  ELSE IF DirFault(t, p) # "Ok" THEN DirFault(t, p)
  ELSE IF Children(t, p) # {} THEN "DirectoryNotEmpty" ELSE "Ok"

RemoveTreeFault(t, p) ==
  IF p = Root THEN "RootMutation" ELSE IF Kind(t, p) = "none" THEN "NotFound" ELSE "Ok"

(* A directory moves onto an empty directory or onto nothing, any other     *)
(* node onto another such node or onto nothing.                             *)
RenameFault(t, from, to) ==
  IF Root \in {from, to} THEN "RootMutation"
  ELSE IF from = to THEN "Ok"
  ELSE IF IsPrefix(from, to) \/ IsPrefix(to, from) THEN "InvalidRename"
  ELSE IF DirFault(t, Front(to)) # "Ok" THEN DirFault(t, Front(to))
  ELSE IF Kind(t, from) = "none" THEN "NotFound"
  ELSE IF Kind(t, to) = "none" THEN "Ok"
  ELSE IF (Kind(t, from) = "dir") # (Kind(t, to) = "dir") THEN "RenameTypeMismatch"
  ELSE IF Kind(t, to) = "dir" /\ Children(t, to) # {} THEN "DirectoryNotEmpty"
  ELSE "Ok"
-----------------------------------------------------------------------------
(* The tree after an operation that found nothing wrong.                    *)
Written(t, p, data) ==
  [t EXCEPT ![p] = FileNode(data, IF t[p] = None THEN "rw" ELSE t[p].mode)]

Cleared(t, p) == [x \in Path |-> IF x \in Below(p) THEN None ELSE t[x]]

Moved(t, from, to) ==
  [x \in Path |->
     IF x \in Below(to)
       THEN LET y == Rebase(x, to, from) IN IF y \in Path THEN t[y] ELSE None
     ELSE IF x \in Below(from) THEN None
     ELSE t[x]]
===============================================================================
