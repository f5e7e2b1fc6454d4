------------------------------- MODULE MCGateway -------------------------------
(* Two names, one the beginning of the other, paths of up to three of them, *)
(* and policies of one rule whose patterns have every shape the matchers    *)
(* tell apart.                                                              *)
EXTENDS Gateway, TLC

a == <<"a">>
ab == <<"a", "b">>
Names == {a, ab}
Paths == {<<x>> : x \in Names} \cup {<<x, y>> : x, y \in Names} \cup {<<x, y, z>> : x, y, z \in Names}
Order == <<a, ab>>

Places == {<<>>, <<a>>, <<ab>>, <<a, ab>>, <<ab, a>>, <<a, ab, a>>}

File == FileNode(<<"x">>, "rw")
Pair == FileNode(<<"x", "x">>, "rw")
Tree(nodes) == [p \in Path |-> IF p \in DOMAIN nodes THEN nodes[p] ELSE None]
Trees == {Tree((<<a>> :> DirNode("ro")) @@ (<<a, ab>> :> DirNode("rw")) @@ (<<a, ab, a>> :> File)
               @@ (<<ab>> :> [kind |-> "link", data |-> <<"x">>, mode |-> "rw"])),
          Tree((<<a>> :> DirNode("rw")) @@ (<<a, a>> :> Pair) @@ (<<a, ab>> :> Pair)
               @@ (<<ab>> :> DirNode("rw")))}

AnyName == <<"*">>
Patterns == {<<a>>, <<AnyName, ab>>, <<Globstar, a>>, <<<<"a", "b", "*", "b">>>>, <<a, Globstar>>,
             <<<<"*", "a", "*">>, AnyName, a>>, <<Globstar, AnyName, Globstar, ab>>, <<a, Globstar, a>>,
             <<Globstar, ab, Globstar>>, <<Globstar, <<"?", "b">>>>}
Rule(pattern, denied) == {[pattern |-> pattern, denied |-> denied]}
Rulings == {Rule(pattern, Mutations) : pattern \in Patterns}
           \cup {Rule(<<Globstar, ab>>, {access}) : access \in Accesses}
           \cup {{}}

Budget == [calls |-> 2, read |-> 3, write |-> 2, entries |-> 3]

Ceilings == [escalateTouched |-> 2, escalateBytes |-> 3, denyTouched |-> 4, denyBytes |-> 3,
             denyDeleted |-> 3, ratioMinimum |-> 3, denyRatio |-> 8000]
================================================================================
