--------------------------- MODULE MCCommitProtocol ---------------------------
(* A workspace of a file and a directory with one entry, and the            *)
(* transactions that between them lower to every kind of operation.         *)
EXTENDS CommitProtocol

F == <<"f">>
D == <<"d">>
X == <<"d", "x">>

Workspace == {F, D, X}

Dir(mode) == [kind |-> "dir", data |-> "entries", mode |-> mode]
File(data, mode) == [kind |-> "file", data |-> data, mode |-> mode]
Link(data) == [kind |-> "link", data |-> data, mode |-> "rw"]

Tree(f, d, x) == [p \in Workspace |-> CASE p = F -> f [] p = D -> d [] p = X -> x]

(* Rewrite a file and create a file in a new directory.                     *)
Rewrite == [before |-> Tree(File("old", "rw"), None, None),
            after  |-> Tree(File("new", "rw"), Dir("rw"), File("new", "rw"))]

(* Remove a directory with its file and put a symbolic link in its place.   *)
Replace == [before |-> Tree(None, Dir("rw"), File("old", "rw")),
            after  |-> Tree(None, Link("new"), None)]

(* Change modes: of a file in place, of a read-only directory that also     *)
(* gets a file.                                                             *)
Unlock == [before |-> Tree(File("old", "rw"), Dir("ro"), None),
           after  |-> Tree(File("old", "ro"), Dir("rw"), File("new", "rw"))]

(* Create only.                                                             *)
Create == [before |-> Tree(None, None, None),
           after  |-> Tree(File("new", "rw"), Dir("rw"), File("new", "rw"))]

(* Five operations, one more than the runs' MaxOperations.                  *)
Bulk == [before |-> Tree(File("old", "rw"), File("old", "rw"), None),
         after  |-> Tree(File("new", "rw"), Dir("rw"), File("new", "rw"))]

(* Replace the content of one file.                                         *)
Overwrite == [before |-> Tree(File("old", "rw"), None, None),
              after  |-> Tree(File("new", "rw"), None, None)]

AllJobs == {Rewrite, Replace, Unlock, Create, Bulk}
OneFile == {Overwrite}

Trouble(regions, interrupts, edits) == [regions |-> regions, interrupts |-> interrupts, edits |-> edits]

(* Where recovery copes, with and without faults of the store when the call *)
(* ends; three faults anywhere; two while another program edits twice.      *)
AllTroubles ==
  {Trouble({"prepare", "operate", "finish", "recovery"}, 2, 0),
   Trouble({"reserved", "prepare", "operate", "finish", "resolve", "recovery"}, 3, 0),
   Trouble({"operate", "finish", "resolve", "recovery"}, 3, 0),
   Trouble(Regions, 3, 0),
   Trouble({"prepare", "mkdir", "operate", "finish", "cleanup", "recovery", "rollback"}, 2, 2)}

(* A rollback that is itself cut off; a crash during the set-up.            *)
LostRollback == {Trouble({"operate", "rollback"}, 2, 0)}
TornSetup == {Trouble({"setup"}, 1, 0)}
=============================================================================
