------------------------------ MODULE MCVirtualFs ------------------------------
(* Two directories with a child each, one of them a link, and every          *)
(* operation on these four paths and the root.                               *)
EXTENDS VirtualFs, TLC

a == <<"a">>
ax == <<"a", "x">>
b == <<"b">>
bx == <<"b", "x">>
Paths == {a, ax, b, bx}

OneFile == {ax}
Old == FileNode(<<"c", "c">>, "rw")
Link == [kind |-> "link", data |-> <<"c", "c">>, mode |-> "rw"]

Trees == {(a :> DirNode("rw")) @@ (ax :> Old) @@ (b :> DirNode("ro")) @@ (bx :> Link)}
================================================================================
