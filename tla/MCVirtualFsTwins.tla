---------------------------- MODULE MCVirtualFsTwins ----------------------------
(* Bases that differ in what a directory holds, in a file's content, mode or    *)
(* kind, and in whether a second directory is there to be renamed over.         *)
EXTENDS VirtualFsTwins, TLC

a == <<"a">>
ax == <<"a", "x">>
b == <<"b">>
bx == <<"b", "x">>
Paths == {a, ax, b, bx}

Tree(nodes) == nodes @@ [p \in Paths |-> None]
Dir == DirNode("rw")
Old == FileNode(<<"c">>, "rw")
Other == FileNode(<<"c", "c">>, "rw")

Trees == {Tree(a :> Dir), Tree(a :> Old), Tree((a :> Dir) @@ (ax :> Old)),
          Tree((a :> Dir) @@ (ax :> Other)), Tree((a :> Dir) @@ (ax :> Dir)),
          Tree((a :> Dir) @@ (ax :> Old) @@ (b :> Dir)),
          Tree((a :> Dir) @@ (ax :> Old) @@ (b :> Dir) @@ (bx :> Other))}
=================================================================================
