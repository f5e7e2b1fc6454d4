---------------------------- MODULE VirtualFsTwins ----------------------------
(***************************************************************************)
(* Why the evidence of a transaction is enough.  One guest runs the same   *)
(* operations over two bases that may differ anywhere; the commit later    *)
(* compares the first run's evidence with the second base, as it compares  *)
(* it with the host.  As long as that comparison finds no difference, the  *)
(* guest has been answered alike in both runs: what it was told, and so    *)
(* what it did, would have been the same.                                  *)
(***************************************************************************)
EXTENDS FsTree, FiniteSets

CONSTANTS Bases, MostRecords, MaxOps

VARIABLES base1, base2,               \* the two snapshots
          captured1, captured2,       \* and one transaction over each
          overlay1, overlay2,
          reads1, reads2,
          writes1, writes2,
          ledger1, ledger2,
          records1, records2,
          failed1, failed2,
          answer1, answer2,
          edited, limit, phase, diff, ops   \* the same in both

first == <<base1, captured1, overlay1, reads1, writes1, ledger1, records1, failed1, answer1>>
second == <<base2, captured2, overlay2, reads2, writes2, ledger2, records2, failed2, answer2>>
vars == <<first, second, edited, limit, phase, diff, ops>>

One == INSTANCE VirtualFs WITH
  base <- base1, captured <- captured1, overlay <- overlay1, reads <- reads1,
  writes <- writes1, ledger <- ledger1, records <- records1, failed <- failed1,
  answer <- answer1,
  Limits <- {}, Editable <- {}, ListLimits <- {MostRecords}

Two == INSTANCE VirtualFs WITH
  base <- base2, captured <- captured2, overlay <- overlay2, reads <- reads2,
  writes <- writes2, ledger <- ledger2, records <- records2, failed <- failed2,
  answer <- answer2,
  Limits <- {}, Editable <- {}, ListLimits <- {MostRecords}

Init == One!Init /\ Two!Init

(* One operation of the guest, in both runs; a guest answered differently   *)
(* goes its own way.                                                        *)
Same(p) ==
  \/ One!GetMetadata(p) /\ Two!GetMetadata(p)
  \/ One!ReadDir(p, MostRecords) /\ Two!ReadDir(p, MostRecords)
  \/ \E kind \in {"file", "link"} : One!Read(p, kind) /\ Two!Read(p, kind)
  \/ \E c \in Chunk : One!Write(p, c) /\ Two!Write(p, c)
  \/ \E c \in Chunk : One!AppendTo(p, c) /\ Two!AppendTo(p, c)
  \/ One!Mkdir(p, "rw") /\ Two!Mkdir(p, "rw")
  \/ \E mode \in Modes : One!SetMode(p, mode) /\ Two!SetMode(p, mode)
  \/ One!Unlink(p) /\ Two!Unlink(p)
  \/ One!Rmdir(p) /\ Two!Rmdir(p)
  \/ One!RemoveTree(p) /\ Two!RemoveTree(p)
  \/ \E to \in Path : One!Rename(p, to) /\ Two!Rename(p, to)

Next ==
  /\ answer1 = answer2
  /\ \E p \in Place : Same(p)

Spec == Init /\ [][Next]_vars

-----------------------------------------------------------------------------
(* Committer::revalidate: the first run's read set and preconditions,       *)
(* compared with the second base.                                           *)
Revalidates ==
  /\ \A r \in reads1 : /\ r[2] = "content" => base2[r[1]] # None
                       /\ r[3] = One!Fact(base2, r[1], r[2])
  /\ \A p \in writes1 : One!Stamp(base1, p) = One!Stamp(base2, p)

(* The evidence is enough: runs over two bases that agree on every recorded *)
(* fact have been answered alike (the read set and write set of VirtualFs,  *)
(* against which Committer::revalidate judges a transaction stale).         *)
EvidenceSuffices == Revalidates => answer1 = answer2
================================================================================
