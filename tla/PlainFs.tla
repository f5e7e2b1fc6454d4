-------------------------------- MODULE PlainFs --------------------------------
(***************************************************************************)
(* What the virtual filesystem promises the guest: an ordinary filesystem  *)
(* held in one tree, each operation applied at once or refused without a   *)
(* trace.  It may also turn an operation away for a reason outside the     *)
(* tree, and its evidence budget may run out, after which no operation has *)
(* an answer.                                                              *)
(***************************************************************************)
EXTENDS FsTree

VARIABLES tree,      \* the files as the guest sees them
          answer,    \* what the last operation returned
          spent      \* the evidence budget ran out

vars == <<tree, answer, spent>>

Init ==
  /\ Rooted(tree)
  /\ answer = <<"Ok", None>>
  /\ spent = FALSE

-----------------------------------------------------------------------------
Observe(what) == answer' = what /\ UNCHANGED <<tree, spent>>

Replace(fault, t) ==
  /\ answer' = <<fault, None>>
  /\ tree' = IF fault = "Ok" THEN t ELSE tree
  /\ UNCHANGED spent

Seen(fault, shown) == Observe(IF fault = "Ok" THEN shown ELSE <<fault, None>>)

Metadata(p) ==
  Seen(IF Kind(tree, p) = "none" THEN "NotFound" ELSE "Ok",
       <<"state", <<At(tree, p).kind, At(tree, p).mode>>>>)

Read(p, kind) == Seen(ReadFault(tree, p, kind), <<"bytes", tree[p].data>>)

ReadDir(p) == Seen(DirFault(tree, p), <<"listing", Children(tree, p)>>)

Write(p, c) == Replace(WriteFault(tree, p), Written(tree, p, <<c>>))

AppendFault(p) == IF ReadFault(tree, p, "file") # "Ok" THEN ReadFault(tree, p, "file")
                  ELSE WriteFault(tree, p)

AppendTo(p, c) ==
  Replace(AppendFault(p), Written(tree, p, Append(tree[p].data, c)))

Mkdir(p, mode) == Replace(MkdirFault(tree, p), [tree EXCEPT ![p] = DirNode(mode)])

SetMode(p, mode) == Replace(SetModeFault(tree, p), [tree EXCEPT ![p].mode = mode])

Unlink(p) == Replace(UnlinkFault(tree, p), [tree EXCEPT ![p] = None])

Rmdir(p) == Replace(RmdirFault(tree, p), [tree EXCEPT ![p] = None])

RemoveTree(p) ==
  Replace(RemoveTreeFault(tree, p), Cleared(tree, p))

Rename(from, to) ==
  Replace(RenameFault(tree, from, to), IF from = to THEN tree ELSE Moved(tree, from, to))

(* Content the host has changed, a policy's refusal, the caller's own limit *)
(* on a listing.                                                            *)
Outside == {"StaleContent", "PolicyDenied", "DirectoryEntryLimit"}

TurnedAway == \E why \in Outside : Observe(<<why, None>>)

(* The budget runs out: what the tree then holds is nobody's business.      *)
Spend == /\ ~spent
         /\ spent' = TRUE

AfterSpend == spent /\ UNCHANGED spent

Next ==
  \/ /\ ~spent
     /\ \/ \E p \in Place : \/ Metadata(p) \/ ReadDir(p)
                            \/ \E kind \in {"file", "link"} : Read(p, kind)
                            \/ \E c \in Chunk : Write(p, c) \/ AppendTo(p, c)
                            \/ \E mode \in Modes : Mkdir(p, mode) \/ SetMode(p, mode)
                            \/ Unlink(p) \/ Rmdir(p) \/ RemoveTree(p)
                            \/ \E to \in Place : Rename(p, to)
        \/ TurnedAway
  \/ Spend
  \/ AfterSpend

Spec == Init /\ [][Next]_vars
================================================================================
