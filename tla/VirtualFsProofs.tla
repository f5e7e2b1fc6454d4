-------------------------- MODULE VirtualFsProofs --------------------------
(***************************************************************************)
(* A transaction's files, for any set of paths and names, any base, any    *)
(* evidence limits and any sequence of operations: the evidence it keeps   *)
(* is the base's, the budget is charged for all of it, the canonical diff  *)
(* is exact, and what the guest sees is an ordinary filesystem.            *)
(*                                                                         *)
(* Every operation is a check on the visible tree and then a script of     *)
(* small steps, each of which the budget may refuse.  So there are three   *)
(* arguments, in this order: a step keeps a half-finished operation sound  *)
(* (Sound) whether or not the budget runs out; a whole script, when it     *)
(* does not, turns the tree of the overlay (TreeOf) into the tree the      *)
(* operation asks for; and that tree is rooted again, every node below a   *)
(* directory, which is why resolve_ref shows all of it.                    *)
(***************************************************************************)
EXTENDS VirtualFs, Induction, FiniteSetTheorems

Tree == [Path -> Node \cup {None}]

-----------------------------------------------------------------------------
(* Paths.                                                                   *)

(* VPath: a place is a sequence of names, and only the root is empty.       *)
LEMMA PlaceIsSequence ==
  /\ \A p \in Place : p \in Seq(Name) /\ Len(p) \in Nat
  /\ \A p \in Path : p \in Place /\ p # Root /\ Len(p) > 0
  /\ Root \in Place /\ Len(Root) = 0
<1>1. Root \in Seq(Name) /\ Len(Root) = 0 /\ Root \in Place
  BY DEF Root, Place
<1>2. \A p \in Path : p \in Seq(Name) /\ Len(p) > 0 /\ p \in Place
  BY PathAssumption DEF Place
<1>3. \A p \in Path : p # Root /\ Len(p) \in Nat
  BY <1>1, <1>2
<1>4. \A p \in Place : p \in Path \/ p = Root
  BY DEF Place
<1>5. Len(Root) \in Nat
  BY <1>1
<1> QED
  BY <1>1, <1>2, <1>3, <1>4, <1>5

(* VPath::parent drops the last component.                                  *)
LEMMA FrontIs ==
  ASSUME NEW p \in Path
  PROVE  /\ Front(p) \in Place /\ Len(Front(p)) = Len(p) - 1
         /\ \A i \in 1..(Len(p) - 1) : Front(p)[i] = p[i]
<1>1. p \in Seq(Name) /\ Len(p) \in Nat /\ Len(p) > 0
  BY PlaceIsSequence
<1>2. CASE Len(p) > 1
  BY <1>1, <1>2, PathAssumption DEF Front, Place
<1>3. CASE Len(p) = 1
  <2>1. Front(p) = <<>>
    BY <1>1, <1>3 DEF Front
  <2>2. Front(p) \in Place /\ Len(Front(p)) = 0
    BY <2>1 DEF Place, Root
  <2> QED
    BY <1>3, <2>2
<1>4. Len(p) > 1 \/ Len(p) = 1
  BY <1>1
<1> QED
  BY <1>2, <1>3, <1>4

(* A prefix, component by component: what starts_with compares.             *)
LEMMA PrefixIs ==
  ASSUME NEW p \in Place, NEW q \in Place
  PROVE  /\ IsPrefix(p, q) <=> Len(p) <= Len(q) /\ \A i \in 1..Len(p) : p[i] = q[i]
         /\ IsStrictPrefix(p, q) <=> IsPrefix(p, q) /\ Len(p) < Len(q)
<1>1. p \in Seq(Name) /\ q \in Seq(Name) /\ Len(p) \in Nat /\ Len(q) \in Nat
  BY PlaceIsSequence
<1>2. SubSeq(p, 1, Len(p)) = p
  BY <1>1
<1>3. ASSUME Len(p) <= Len(q)
      PROVE  SubSeq(q, 1, Len(p)) = p <=> \A i \in 1..Len(p) : p[i] = q[i]
  BY <1>1, <1>3
<1>4. IsPrefix(p, q) <=> Len(p) <= Len(q) /\ \A i \in 1..Len(p) : p[i] = q[i]
  BY <1>2, <1>3 DEF IsPrefix
<1>5. Len(p) = Len(q) /\ (\A i \in 1..Len(p) : p[i] = q[i]) => p = q
  BY <1>1
<1> QED
  BY <1>1, <1>4, <1>5 DEF IsStrictPrefix

(* starts_with holds of a path and itself.                                  *)
LEMMA PrefixSelf == \A p \in Place : IsPrefix(p, p)
BY PrefixIs, PlaceIsSequence

(* What lies under a subtree of a subtree lies under the subtree.           *)
LEMMA PrefixTransitive ==
  ASSUME NEW p \in Place, NEW q \in Place, NEW r \in Place, IsPrefix(p, q), IsPrefix(q, r)
  PROVE  IsPrefix(p, r)
BY PrefixIs, PlaceIsSequence

(* Of two paths above a third, one is above the other.                      *)
LEMMA PrefixesCompare ==
  ASSUME NEW p \in Place, NEW q \in Place, NEW r \in Place, IsPrefix(p, r), IsPrefix(q, r)
  PROVE  p = q \/ IsStrictPrefix(p, q) \/ IsStrictPrefix(q, p)
<1>1. Len(p) \in Nat /\ Len(q) \in Nat
  BY PlaceIsSequence
<1>2. CASE Len(p) <= Len(q)
  <2>1. IsPrefix(p, q)
    BY <1>1, <1>2, PrefixIs
  <2> QED
    BY <2>1 DEF IsStrictPrefix
<1>3. CASE Len(q) <= Len(p)
  <2>1. IsPrefix(q, p)
    BY <1>1, <1>3, PrefixIs
  <2> QED
    BY <2>1 DEF IsStrictPrefix
<1> QED
  BY <1>1, <1>2, <1>3

(* A path is above another when it is the other or above its parent.        *)
LEMMA PrefixOfFront ==
  ASSUME NEW q \in Place, NEW x \in Path
  PROVE  IsStrictPrefix(q, x) <=> IsPrefix(q, Front(x))
<1>1. /\ Len(q) \in Nat /\ Len(x) \in Nat /\ Len(x) > 0
      /\ Front(x) \in Place /\ Len(Front(x)) = Len(x) - 1 /\ x \in Place
      /\ \A i \in 1..(Len(x) - 1) : Front(x)[i] = x[i]
  BY PlaceIsSequence, FrontIs
<1>2. IsStrictPrefix(q, x) <=> Len(q) < Len(x) /\ \A i \in 1..Len(q) : q[i] = x[i]
  BY <1>1, PrefixIs
<1>3. IsPrefix(q, Front(x)) <=> Len(q) <= Len(x) - 1 /\ \A i \in 1..Len(q) : q[i] = Front(x)[i]
  BY <1>1, PrefixIs
<1> QED
  BY <1>1, <1>2, <1>3

-----------------------------------------------------------------------------
(* Trees.                                                                   *)

(* The nodes the operations make are nodes, with the kind and mode asked for. *)
LEMMA NodesAre ==
  /\ None \notin Node /\ None \notin Path /\ None # Root
  /\ \A n \in Node : n.kind \in {"file", "link", "dir"} /\ n.data \in Seq(Chunk) /\ n.mode \in Modes
  /\ \A m \in Modes : DirNode(m) \in Node /\ DirNode(m).kind = "dir" /\ DirNode(m).mode = m
  /\ \A m \in Modes : \A d \in Seq(Chunk) :
       FileNode(d, m) \in Node /\ FileNode(d, m).kind = "file" /\ FileNode(d, m).mode = m
  /\ "rw" \in Modes
<1>1. \A m \in Modes : DirNode(m) \in Node /\ DirNode(m).kind = "dir" /\ DirNode(m).mode = m
  BY DEF DirNode, Node
<1>2. \A m \in Modes : \A d \in Seq(Chunk) :
        FileNode(d, m) \in Node /\ FileNode(d, m).kind = "file" /\ FileNode(d, m).mode = m
  BY DEF FileNode, Node
<1>3. \A n \in Node : n.kind \in {"file", "link", "dir"} /\ n.data \in Seq(Chunk) /\ n.mode \in Modes
  BY DEF Node
<1>4. "rw" \in Modes
  BY DEF Modes
<1> QED
  BY <1>1, <1>2, <1>3, <1>4, NoneAssumption DEF Place

(* The kind of a path is the kind of the node there, or "none".             *)
LEMMA KindIs ==
  ASSUME NEW t \in Tree
  PROVE  /\ Kind(t, Root) = "dir"
         /\ \A p \in Path : /\ At(t, p) = t[p]
                            /\ Kind(t, p) = "none" <=> t[p] = None
                            /\ t[p] # None => Kind(t, p) = t[p].kind /\ t[p] \in Node
         /\ \A p \in Place : Kind(t, p) \in {"none", "file", "link", "dir"}
<1>1. At(t, Root) = DirNode("rw") /\ DirNode("rw") # None /\ DirNode("rw").kind = "dir"
  BY NodesAre DEF At
<1>2. Kind(t, Root) = "dir"
  BY <1>1 DEF Kind
<1>3. ASSUME NEW p \in Path
      PROVE  /\ At(t, p) = t[p]
             /\ Kind(t, p) = "none" <=> t[p] = None
             /\ t[p] # None => Kind(t, p) = t[p].kind /\ t[p] \in Node
             /\ Kind(t, p) \in {"none", "file", "link", "dir"}
  <2>1. At(t, p) = t[p] /\ t[p] \in Node \cup {None}
    BY PlaceIsSequence DEF At, Tree
  <2>2. t[p] # None => t[p] \in Node /\ t[p].kind \in {"file", "link", "dir"}
    BY <2>1, NodesAre
  <2> QED
    BY <2>1, <2>2 DEF Kind
<1> QED
  BY <1>2, <1>3 DEF Place

(* Above every node of a rooted tree there are directories, and what is     *)
(* below a directory is below one of its children.                          *)
LEMMA AncestorsAreDirectories ==
  ASSUME NEW t \in Tree, Rooted(t), NEW q \in Place, NEW x \in Path, IsStrictPrefix(q, x),
         t[x] # None
  PROVE  Kind(t, q) = "dir" /\ Children(t, q) # {}
<1> DEFINE Goal == Kind(t, q) = "dir" /\ Children(t, q) # {}
           Has(n) == \A y \in Path : Len(y) = n /\ IsStrictPrefix(q, y) /\ t[y] # None => Goal
           N == {n \in Nat : Has(n)}
<1>1. Has(0)
  BY PlaceIsSequence
<1>2. ASSUME NEW n \in Nat, Has(n) PROVE Has(n + 1)
  <2> SUFFICES ASSUME NEW y \in Path, Len(y) = n + 1, IsStrictPrefix(q, y), t[y] # None
               PROVE  Goal
    OBVIOUS
  <2> DEFINE f == Front(y)
  <2>1. f \in Place /\ Len(f) = n /\ IsPrefix(q, f) /\ y \in Place
    BY FrontIs, PrefixOfFront, PlaceIsSequence
  <2>2. Kind(t, f) = "dir"
    BY DEF Rooted
  <2> HIDE DEF f
  <2>3. CASE q = f
    <3>1. y \in Children(t, q)
      <4>1. IsPrefix(q, y)
        BY DEF IsStrictPrefix
      <4>2. y \in Subtree(t, q)
        BY <4>1 DEF Subtree, Below
      <4> QED
        BY <2>1, <2>3, <4>2 DEF Children
    <3> QED
      BY <2>2, <2>3, <3>1
  <2>4. CASE q # f
    <3>1. IsStrictPrefix(q, f)
      BY <2>1, <2>4 DEF IsStrictPrefix
    <3>2. f # Root
      BY <2>1, <3>1, PrefixIs, PlaceIsSequence
    <3>3. f \in Path /\ t[f] # None
      <4>1. f \in Path
        BY <2>1, <3>2 DEF Place
      <4> QED
        BY <2>2, <4>1, KindIs
    <3> HIDE DEF Goal
    <3> QED
      BY <1>2, <2>1, <3>1, <3>3
  <2> QED
    BY <2>3, <2>4
<1> HIDE DEF Has
<1>3. 0 \in N /\ \A n \in N : n + 1 \in N
  BY <1>1, <1>2
<1> HIDE DEF N
<1>4. N = Nat
  BY <1>3, SetInduction DEF N
<1>5. Len(x) \in Nat
  BY PlaceIsSequence
<1> HIDE DEF Goal
<1>6. Goal
  BY <1>4, <1>5 DEF N, Has
<1> QED
  BY <1>6 DEF Goal

-----------------------------------------------------------------------------
(* Scripts.  Run is the fold Perform takes a script through.                *)
Run(s, script) == FoldLeft(Step, s, script)

(* The states a script goes through, from the first to the last.            *)
History(c, a0, script, n) ==
  c[0] = a0 /\ \A i \in 1..n : c[i] = Step(c[i - 1], script[i])

Fits(iter, a0, script, k) ==
  iter = [s \in SUBSET (1..k) |->
            IF s = {} THEN a0 ELSE Step(iter[s \ {Max(s)}], script[Max(s)])]

(* A fold has a function of its intermediate values, whatever it folds.     *)
LEMMA FitExists ==
  ASSUME NEW a0, NEW script, NEW n \in Nat
  PROVE  \E iter : Fits(iter, a0, script, n)
<1> DEFINE S == {k \in Nat : \E iter : Fits(iter, a0, script, k)}
<1>1. 0 \in S
  <2>1. SUBSET (1..0) = {{}}
    OBVIOUS
  <2>2. Fits([s \in {{}} |-> a0], a0, script, 0)
    BY <2>1 DEF Fits
  <2> QED
    BY <2>2
<1>2. ASSUME NEW k \in S PROVE k + 1 \in S
  <2>1. PICK g : Fits(g, a0, script, k)
    OBVIOUS
  <2> DEFINE h == [s \in SUBSET (1..(k + 1)) |->
                     IF k + 1 \in s THEN Step(g[s \ {k + 1}], script[k + 1]) ELSE g[s]]
  <2>2. ASSUME NEW s \in SUBSET (1..(k + 1))
        PROVE  h[s] = IF s = {} THEN a0 ELSE Step(h[s \ {Max(s)}], script[Max(s)])
    <3>1. CASE k + 1 \in s
      <4>1. Max(s) = k + 1
        <5>1. \A y \in s : k + 1 >= y
          OBVIOUS
        <5>2. \A x \in s : (\A y \in s : x >= y) => x = k + 1
          BY <3>1, <5>1
        <5> QED
          BY <3>1, <5>1, <5>2 DEF Max
      <4>2. k + 1 \notin s \ {k + 1} /\ s \ {k + 1} \in SUBSET (1..(k + 1))
        OBVIOUS
      <4>3. h[s \ {k + 1}] = g[s \ {k + 1}]
        BY <4>2
      <4> QED
        BY <3>1, <4>1, <4>3
    <3>2. CASE k + 1 \notin s /\ s # {}
      <4>1. s \in SUBSET (1..k)
        BY <3>2
      <4>2. k + 1 \notin s \ {Max(s)} /\ s \ {Max(s)} \in SUBSET (1..(k + 1))
        BY <3>2
      <4>3. g[s] = Step(g[s \ {Max(s)}], script[Max(s)])
        BY <2>1, <3>2, <4>1 DEF Fits
      <4> QED
        BY <3>2, <4>2, <4>3
    <3>3. CASE s = {}
      BY <2>1, <3>3 DEF Fits
    <3> QED
      BY <3>1, <3>2, <3>3
  <2>3. Fits(h, a0, script, k + 1)
    BY <2>2 DEF Fits
  <2> QED
    BY <2>3
<1> HIDE DEF S
<1>3. S = Nat
  BY <1>1, <1>2, SetInduction DEF S
<1> QED
  BY <1>3 DEF S

(* Run(a0, script) is the last of those values.                             *)
LEMMA RunIsFold ==
  ASSUME NEW a0, NEW script, NEW X, script \in Seq(X)
  PROVE  \E iter : /\ Fits(iter, a0, script, Len(script))
                   /\ Run(a0, script) = iter[1..Len(script)]
<1>1. DOMAIN script = 1..Len(script) /\ Len(script) \in Nat
  OBVIOUS
<1> DEFINE it == CHOOSE iter : Fits(iter, a0, script, Len(script))
<1>2. Fits(it, a0, script, Len(script))
  BY <1>1, FitExists
<1>3. Run(a0, script) = it[1..Len(script)]
  BY <1>1 DEF Run, FoldLeft, MapThenFoldSet, Fits
<1> QED
  BY <1>2, <1>3

(* Every script has a history, from its first state to its last.            *)
LEMMA RunHasHistory ==
  ASSUME NEW a0, NEW script, NEW X, script \in Seq(X)
  PROVE  \E c : /\ History(c, a0, script, Len(script))
                /\ Run(a0, script) = c[Len(script)]
<1> DEFINE n == Len(script)
<1>1. n \in Nat
  OBVIOUS
<1>2. PICK iter : Fits(iter, a0, script, n) /\ Run(a0, script) = iter[1..n]
  BY RunIsFold
<1> HIDE DEF n
<1> DEFINE c == [i \in 0..n |-> iter[1..i]]
<1>3. c[0] = a0
  <2>1. 1..0 = {} /\ {} \in SUBSET (1..n) /\ 0 \in 0..n
    BY <1>1
  <2> QED
    BY <1>2, <2>1 DEF Fits
<1>4. ASSUME NEW i \in 1..n PROVE c[i] = Step(c[i - 1], script[i])
  <2>1. i - 1 \in Nat /\ i - 1 + 1 = i /\ i - 1 \in 0..n /\ i \in 0..n /\ i \in 1..i
    BY <1>1
  <2>2. Max(1..i) = i /\ (1..i) \ {Max(1..i)} = 1..(i - 1)
    BY <2>1, MaxOfInterval
  <2>3. 1..i \in SUBSET (1..n)
    BY <1>1
  <2>4. iter[1..i] = Step(iter[1..(i - 1)], script[i])
    BY <1>2, <2>1, <2>2, <2>3 DEF Fits
  <2> QED
    BY <2>1, <2>4
<1>5. n \in 0..n
  BY <1>1
<1> QED
  BY <1>2, <1>3, <1>4, <1>5 DEF History, n

(* Scripts that agree on n steps are in one state after n steps.            *)
LEMMA HistoriesAgree ==
  ASSUME NEW a0, NEW a, NEW b, NEW n \in Nat, NEW c, NEW d,
         History(c, a0, a, n), History(d, a0, b, n),
         \A i \in 1..n : a[i] = b[i]
  PROVE  c[n] = d[n]
<1> DEFINE S == {k \in Nat : k <= n => c[k] = d[k]}
<1>1. 0 \in S
  BY DEF History
<1>2. ASSUME NEW k \in S PROVE k + 1 \in S
  <2> SUFFICES ASSUME k + 1 <= n PROVE c[k + 1] = d[k + 1]
    OBVIOUS
  <2>1. k + 1 \in 1..n /\ k + 1 - 1 = k /\ c[k] = d[k]
    OBVIOUS
  <2>2. c[k + 1] = Step(c[k], a[k + 1]) /\ d[k + 1] = Step(d[k], b[k + 1])
    BY <2>1 DEF History
  <2> QED
    BY <2>1, <2>2
<1> HIDE DEF S
<1>3. S = Nat
  BY <1>1, <1>2, SetInduction DEF S
<1> QED
  BY <1>3 DEF S

(* An empty script changes nothing.                                         *)
LEMMA RunNothing ==
  ASSUME NEW a0 PROVE Run(a0, <<>>) = a0
<1>1. <<>> \in Seq({}) /\ Len(<<>>) = 0
  OBVIOUS
<1> QED
  BY <1>1, RunHasHistory, ZenonT(60) DEF History

(* One step more, one application more.                                     *)
LEMMA RunAppend ==
  ASSUME NEW a0, NEW X, NEW s \in Seq(X), NEW f \in X
  PROVE  Run(a0, Append(s, f)) = Step(Run(a0, s), f)
<1> DEFINE a == Append(s, f)
           n == Len(s)
<1>1. a \in Seq(X) /\ Len(a) = n + 1 /\ n \in Nat /\ a[n + 1] = f /\ \A i \in 1..n : a[i] = s[i]
  OBVIOUS
<1> HIDE DEF a
<1>2. PICK c : History(c, a0, s, n) /\ Run(a0, s) = c[n]
  BY RunHasHistory
<1>3. PICK d : History(d, a0, a, n + 1) /\ Run(a0, a) = d[n + 1]
  BY <1>1, RunHasHistory
<1>4. History(d, a0, a, n)
  BY <1>1, <1>3 DEF History
<1>5. c[n] = d[n]
  BY <1>1, <1>2, <1>4, HistoriesAgree
<1>6. d[n + 1] = Step(d[n], f)
  BY <1>1, <1>3 DEF History
<1> QED
  BY <1>2, <1>3, <1>5, <1>6 DEF a

-----------------------------------------------------------------------------
(* A script after a script is the two in one.                               *)
LEMMA RunConcat ==
  ASSUME NEW a0, NEW X, NEW p \in Seq(X), NEW q \in Seq(X)
  PROVE  Run(Run(a0, p), q) = Run(a0, p \o q)
<1> DEFINE k == Len(p)
           m == Len(q)
           w == p \o q
<1>1. k \in Nat /\ m \in Nat /\ k + m \in Nat
  OBVIOUS
<1>2. /\ w \in Seq(X) /\ Len(w) = k + m
      /\ \A i \in 1..k : w[i] = p[i]
      /\ \A i \in 1..m : w[k + i] = q[i]
  OBVIOUS
<1> HIDE DEF w
<1>5. PICK c : History(c, a0, w, k + m) /\ Run(a0, w) = c[k + m]
  BY <1>2, RunHasHistory
<1>6. PICK d : History(d, a0, p, k) /\ Run(a0, p) = d[k]
  BY RunHasHistory
<1>7. PICK e : History(e, c[k], q, m) /\ Run(c[k], q) = e[m]
  BY RunHasHistory
<1> HIDE DEF k, m
<1>8. d[k] = c[k]
  <2>1. History(c, a0, w, k)
    BY <1>1, <1>5 DEF History
  <2>2. \A i \in 1..k : p[i] = w[i]
    BY <1>2
  <2> QED
    BY <1>1, <1>6, <2>1, <2>2, HistoriesAgree
<1>9. e[m] = c[k + m]
  <2> DEFINE h == [i \in 0..m |-> c[k + i]]
  <2>1. History(h, c[k], q, m)
    <3>1. h[0] = c[k]
      BY <1>1
    <3>2. ASSUME NEW i \in 1..m PROVE h[i] = Step(h[i - 1], q[i])
      <4> DEFINE x == k + i
      <4>1. i \in 0..m /\ i - 1 \in 0..m /\ x \in 1..(k + m) /\ x - 1 = k + (i - 1)
        BY <1>1
      <4> HIDE DEF x
      <4>2. c[x] = Step(c[x - 1], w[x])
        BY <1>5, <4>1 DEF History
      <4>3. h[i] = c[x] /\ h[i - 1] = c[x - 1] /\ w[x] = q[i]
        BY <1>2, <4>1 DEF x
      <4> QED
        BY <4>2, <4>3
    <3> QED
      BY <3>1, <3>2 DEF History
  <2>2. m \in 0..m /\ h[m] = c[k + m]
    BY <1>1
  <2> HIDE DEF h
  <2> QED
    BY <1>1, <1>7, <2>1, <2>2, HistoriesAgree
<1> QED
  BY <1>5, <1>6, <1>7, <1>8, <1>9 DEF w

-----------------------------------------------------------------------------
(* Lists of paths.                                                          *)

(* s lists every member of S once.                                          *)
Arranges(s, S) ==
  /\ s \in Seq(S)
  /\ \A i, j \in 1..Len(s) : i # j => s[i] # s[j]
  /\ \A o \in S : \E i \in 1..Len(s) : s[i] = o

(* A finite non-empty set of paths has a deepest one.                       *)
LEMMA DeepestExists ==
  ASSUME NEW n \in Nat
  PROVE  \A S \in SUBSET Path :
           IsFiniteSet(S) /\ Cardinality(S) = n + 1 =>
             \E m \in S : \A o \in S : Len(o) <= Len(m)
<1> DEFINE Has(k) == \A S \in SUBSET Path :
                       IsFiniteSet(S) /\ Cardinality(S) = k + 1 =>
                         \E m \in S : \A o \in S : Len(o) <= Len(m)
           N == {k \in Nat : Has(k)}
<1>0. \A o \in Path : Len(o) \in Nat
  BY PlaceIsSequence
<1>1. Has(0)
  <2> SUFFICES ASSUME NEW S \in SUBSET Path, IsFiniteSet(S), Cardinality(S) = 1
               PROVE  \E m \in S : \A o \in S : Len(o) <= Len(m)
    OBVIOUS
  <2>1. PICK m : S = {m}
    BY FS_Singleton
  <2> QED
    BY <1>0, <2>1
<1>2. ASSUME NEW k \in Nat, Has(k) PROVE Has(k + 1)
  <2> SUFFICES ASSUME NEW S \in SUBSET Path, IsFiniteSet(S), Cardinality(S) = k + 2
               PROVE  \E m \in S : \A o \in S : Len(o) <= Len(m)
    OBVIOUS
  <2>1. PICK x \in S : TRUE
    BY FS_EmptySet
  <2>2. IsFiniteSet(S \ {x}) /\ Cardinality(S \ {x}) = k + 1 /\ S \ {x} \in SUBSET Path
    BY FS_RemoveElement
  <2>3. PICK m \in S \ {x} : \A o \in S \ {x} : Len(o) <= Len(m)
    BY <1>2, <2>2
  <2>4. CASE Len(x) <= Len(m)
    BY <2>3, <2>4
  <2>5. CASE Len(m) < Len(x)
    <3>1. \A o \in S : Len(o) <= Len(x)
      BY <1>0, <2>3, <2>5
    <3> QED
      BY <3>1
  <2> QED
    BY <1>0, <2>3, <2>4, <2>5
<1> HIDE DEF Has
<1>3. 0 \in N /\ \A k \in N : k + 1 \in N
  BY <1>1, <1>2
<1> HIDE DEF N
<1>4. N = Nat
  BY <1>3, SetInduction DEF N
<1> QED
  BY <1>4 DEF N, Has

Sorts(s, S) ==
  \A i, j \in DOMAIN s : i < j => s[i] # s[j] /\ Len(s[i]) <= Len(s[j])

(* Any finite set of paths can be listed parents first: take the deepest    *)
(* out of the rest, one after the other.                                    *)
LEMMA SortedExists ==
  ASSUME NEW S \in SUBSET Path, IsFiniteSet(S)
  PROVE  \E s \in [1..Cardinality(S) -> S] : Sorts(s, S)
<1> DEFINE Has(k) == \A T \in SUBSET Path :
                       IsFiniteSet(T) /\ Cardinality(T) = k => \E s \in [1..k -> T] : Sorts(s, T)
           N == {k \in Nat : Has(k)}
<1>1. Has(0)
  <2> SUFFICES ASSUME NEW T PROVE \E s \in [1..0 -> T] : Sorts(s, T)
    OBVIOUS
  <2> DEFINE s == [i \in 1..0 |-> i]
  <2>1. s \in [1..0 -> T] /\ Sorts(s, T)
    BY DEF Sorts
  <2> QED
    BY <2>1
<1>2. ASSUME NEW k \in Nat, Has(k) PROVE Has(k + 1)
  <2> SUFFICES ASSUME NEW T \in SUBSET Path, IsFiniteSet(T), Cardinality(T) = k + 1
               PROVE  \E s \in [1..(k + 1) -> T] : Sorts(s, T)
    OBVIOUS
  <2>1. PICK m \in T : \A o \in T : Len(o) <= Len(m)
    BY DeepestExists
  <2>2. IsFiniteSet(T \ {m}) /\ Cardinality(T \ {m}) = k /\ T \ {m} \in SUBSET Path
    <3>1. IsFiniteSet(T \ {m}) /\ Cardinality(T \ {m}) = Cardinality(T) - 1
      BY FS_RemoveElement
    <3> QED
      BY <3>1
  <2>3. PICK s \in [1..k -> T \ {m}] : Sorts(s, T \ {m})
    BY <1>2, <2>2
  <2> DEFINE t == [i \in 1..(k + 1) |-> IF i = k + 1 THEN m ELSE s[i]]
  <2>4. t \in [1..(k + 1) -> T]
    BY <2>3
  <2>5. ASSUME NEW i \in DOMAIN t, NEW j \in DOMAIN t, i < j
        PROVE  t[i] # t[j] /\ Len(t[i]) <= Len(t[j])
    <3>1. i \in 1..k /\ t[i] = s[i] /\ s[i] \in T \ {m}
      BY <2>3, <2>5
    <3>2. CASE j = k + 1
      BY <2>1, <3>1, <3>2
    <3>3. CASE j # k + 1
      <4>1. j \in 1..k /\ t[j] = s[j] /\ DOMAIN s = 1..k
        BY <2>3, <2>5, <3>3
      <4> QED
        BY <2>3, <2>5, <3>1, <4>1 DEF Sorts
    <3> QED
      BY <3>2, <3>3
  <2>6. Sorts(t, T)
    BY <2>5 DEF Sorts
  <2> HIDE DEF t
  <2> QED
    BY <2>4, <2>6
<1> HIDE DEF Has
<1>3. 0 \in N /\ \A k \in N : k + 1 \in N
  BY <1>1, <1>2
<1> HIDE DEF N
<1>4. N = Nat
  BY <1>3, SetInduction DEF N
<1>5. Cardinality(S) \in Nat
  BY FS_CardinalityType
<1> QED
  BY <1>4, <1>5 DEF N, Has

(* The order the visible subtrees are walked in.                             *)
LEMMA OrderedArranges ==
  ASSUME NEW S \in SUBSET Path, IsFiniteSet(S)
  PROVE  /\ Arranges(Ordered(S), S)
         /\ Sorts(Ordered(S), S)
<1> DEFINE n == Cardinality(S)
           s == Ordered(S)
<1>1. s \in [1..n -> S] /\ Sorts(s, S)
  BY SortedExists DEF Ordered, Sorts
<1>2. n \in Nat
  BY FS_CardinalityType
<1>3. \A i, j \in 1..n : i # j => s[i] # s[j]
  <2> HIDE DEF s, n
  <2> QED
    BY <1>1, <1>2 DEF Sorts
<1>4. s \in Injection(1..n, S)
  <2> HIDE DEF s, n
  <2> QED
    BY <1>1, <1>3 DEF Injection, IsInjective
<1>5. IsFiniteSet(1..n) /\ Cardinality(1..n) = n
  BY <1>2, FS_Interval
<1>6. s \in Surjection(1..n, S)
  <2> HIDE DEF s
  <2> QED
    BY <1>4, <1>5, FS_Injection
<1> HIDE DEF s, n
<1>7. s \in Seq(S) /\ Len(s) = n
  BY <1>1, <1>2
<1>8. \A o \in S : \E i \in 1..n : s[i] = o
  BY <1>6 DEF Surjection
<1>9. Arranges(s, S)
  BY <1>3, <1>7, <1>8 DEF Arranges
<1> QED
  BY <1>1, <1>9 DEF s

-----------------------------------------------------------------------------
(* What a script may find and must leave: the state of an operation half    *)
(* way through is sound.                                                    *)
Aspects == {"metadata", "content", "directory"}

(* Every fact the base holds.                                               *)
Evidence == {<<p, a, Fact(base, p, a)>> : p \in Place, a \in Aspects}

(* A slot that still names its origin still has the origin's content.       *)
FromBase(slot) ==
  slot.origin # None => /\ base[slot.origin] # None
                        /\ slot.node.kind = base[slot.origin].kind
                        /\ slot.node.data = base[slot.origin].data

SoundSlot == {slot \in [node : Node \cup {None}, origin : Path \cup {None}] :
                /\ slot.node = None => slot.origin = None
                /\ FromBase(slot)}

Overlays == UNION {[D -> SoundSlot] : D \in SUBSET Path}

Scribe == [reads : SUBSET Evidence, writes : SUBSET Path, overlay : Overlays,
           captured : SUBSET Path, ledger : Nat, records : Nat, failed : BOOLEAN]

PathsOf(facts) == {r[1] : r \in facts}

Sound(s) ==
  /\ s \in Scribe
  /\ IsFiniteSet(s.reads) /\ IsFiniteSet(s.writes)
  /\ DOMAIN s.overlay \subseteq s.writes
  /\ s.records = Cardinality(PathsOf(s.reads)) + Cardinality(s.writes) + s.ledger
  /\ s.records > limit => s.failed

(* An overlay maps some paths to sound slots.                               *)
LEMMA OverlayIs ==
  ASSUME NEW o
  PROVE  o \in Overlays <=> o \in [DOMAIN o -> SoundSlot] /\ DOMAIN o \subseteq Path
BY DEF Overlays

(* A sound slot is a node and its origin; a tombstone has no origin.        *)
LEMMA SlotIs ==
  ASSUME NEW slot \in SoundSlot
  PROVE  /\ slot.node \in Node \cup {None} /\ slot.origin \in Path \cup {None}
         /\ slot = [node |-> slot.node, origin |-> slot.origin]
         /\ slot.node = None => slot.origin = None
         /\ FromBase(slot)
<1>1. slot \in [node : Node \cup {None}, origin : Path \cup {None}]
  BY DEF SoundSlot
<1> QED
  BY <1>1 DEF SoundSlot

(* Finitely many facts are about finitely many paths.                       *)
LEMMA PathsFinite ==
  ASSUME NEW facts, IsFiniteSet(facts)
  PROVE  IsFiniteSet(PathsOf(facts)) /\ Cardinality(PathsOf(facts)) \in Nat
<1> DEFINE f == [r \in facts |-> r[1]]
<1>1. f \in Surjection(facts, PathsOf(facts))
  BY DEF Surjection, PathsOf
<1> HIDE DEF f
<1>2. IsFiniteSet(PathsOf(facts))
  BY <1>1, FS_Surjection
<1> QED
  BY <1>2, FS_CardinalityType

(* EvidenceBudget::reserve charges one record or fails for good.            *)
LEMMA ReserveIs ==
  ASSUME NEW s \in Scribe, limit \in Nat
  PROVE  /\ Reserve(s) \in Scribe
         /\ Reserve(s).reads = s.reads /\ Reserve(s).writes = s.writes
         /\ Reserve(s).overlay = s.overlay /\ Reserve(s).captured = s.captured
         /\ Reserve(s).ledger = s.ledger
         /\ \/ /\ s.records < limit
               /\ Reserve(s).records = s.records + 1 /\ Reserve(s).failed = s.failed
            \/ Reserve(s).records = s.records /\ Reserve(s).failed = TRUE
<1> USE DEF Scribe
<1>1. CASE s.records < limit
  BY <1>1 DEF Reserve
<1>2. CASE ~(s.records < limit)
  BY <1>2 DEF Reserve
<1> QED
  BY <1>1, <1>2

(* Learning a fact of the base charges its path once.                       *)
LEMMA LearnSound ==
  ASSUME NEW s, Sound(s), ~s.failed, limit \in Nat, NEW p \in Place, NEW a \in Aspects
  PROVE  LET r == Learn(s, p, a, Fact(base, p, a)) IN
           /\ Sound(r)
           /\ r.overlay = s.overlay /\ r.writes = s.writes /\ r.captured = s.captured
           /\ r.ledger = s.ledger /\ s.reads \subseteq r.reads
<1> DEFINE f == <<p, a, Fact(base, p, a)>>
           known == {k \in s.reads : k[1] = p}
           r == IF known = {} THEN Reserve(s) ELSE s
           w == Learn(s, p, a, Fact(base, p, a))
           e == [r EXCEPT !.reads = @ \cup {f}]
<1>1. w = IF (\E k \in known : k[2] = a) \/ r.failed THEN r ELSE e
  BY DEF Learn
<1>2. /\ s \in Scribe /\ r \in Scribe /\ r.reads = s.reads /\ r.writes = s.writes
      /\ r.overlay = s.overlay /\ r.captured = s.captured /\ r.ledger = s.ledger
      /\ s.records \in Nat /\ s.ledger \in Nat /\ s.reads \subseteq Evidence
  BY ReserveIs DEF Sound, Scribe
<1>3. f \in Evidence /\ f[1] = p
  BY DEF Evidence
<1>4. /\ e \in Scribe /\ e.reads = s.reads \cup {f} /\ e.writes = s.writes /\ e.overlay = s.overlay
      /\ e.captured = s.captured /\ e.ledger = s.ledger /\ e.records = r.records
      /\ e.failed = r.failed
  <2> HIDE DEF r, f
  <2>1. r.reads \cup {f} \in SUBSET Evidence
    BY <1>2, <1>3
  <2> QED
    BY <1>2, <2>1 DEF Scribe
<1>5. IsFiniteSet(s.reads) /\ IsFiniteSet(s.reads \cup {f})
  BY FS_AddElement DEF Sound
<1>6. PathsOf(s.reads \cup {f}) = PathsOf(s.reads) \cup {p}
  BY <1>3 DEF PathsOf
<1>7. known = {} <=> p \notin PathsOf(s.reads)
  BY DEF PathsOf
<1>8. /\ Cardinality(PathsOf(s.reads)) \in Nat /\ Cardinality(s.writes) \in Nat
      /\ Cardinality(PathsOf(s.reads) \cup {p}) =
           IF known = {} THEN Cardinality(PathsOf(s.reads)) + 1 ELSE Cardinality(PathsOf(s.reads))
  <2>1. IsFiniteSet(PathsOf(s.reads)) /\ Cardinality(PathsOf(s.reads)) \in Nat
    BY <1>5, PathsFinite
  <2>2. p \in PathsOf(s.reads) => PathsOf(s.reads) \cup {p} = PathsOf(s.reads)
    OBVIOUS
  <2>3. Cardinality(s.writes) \in Nat
    BY FS_CardinalityType DEF Sound
  <2> QED
    BY <1>7, <2>1, <2>2, <2>3, FS_AddElement
<1> DEFINE n == Cardinality(PathsOf(s.reads))
           m == Cardinality(s.writes)
<1>9. s.records = n + m + s.ledger /\ (s.records > limit => s.failed) /\ DOMAIN s.overlay \subseteq s.writes
      /\ IsFiniteSet(s.writes)
  BY DEF Sound
<1>10. CASE known = {} /\ r.failed
  <2>1. w = r /\ r.records = s.records /\ r.failed = TRUE
    <3>1. r = Reserve(s) /\ w = r
      BY <1>1, <1>10
    <3>2. \/ Reserve(s).failed = s.failed
          \/ Reserve(s).records = s.records /\ Reserve(s).failed = TRUE
      BY <1>2, ReserveIs
    <3> QED
      BY <1>10, <3>1, <3>2
  <2> HIDE DEF w, r
  <2> QED
    BY <1>2, <1>5, <1>9, <2>1 DEF Sound, w
<1>11. CASE known = {} /\ ~r.failed
  <2>1. w = e
    BY <1>1, <1>11
  <2>2. r.records = s.records + 1 /\ s.records < limit
    <3>1. r = Reserve(s)
      BY <1>11
    <3> QED
      BY <1>2, <1>11, <3>1, ReserveIs
  <2> DEFINE c == Cardinality(PathsOf(s.reads) \cup {p})
  <2>3. c = n + 1 /\ n \in Nat /\ m \in Nat
    BY <1>8, <1>11
  <2>4. e.records = c + m + e.ledger /\ ~(e.records > limit)
    <3> HIDE DEF e, r, c, n, m
    <3> QED
      BY <1>2, <1>4, <1>9, <2>2, <2>3
  <2>5. c = Cardinality(PathsOf(e.reads))
    BY <1>4, <1>6
  <2> HIDE DEF e, c, w
  <2>6. Sound(e)
    BY <1>4, <1>5, <1>9, <2>4, <2>5 DEF Sound, m
  <2> QED
    BY <1>4, <2>1, <2>6 DEF w
<1>12. CASE known # {}
  <2>1. r = s /\ w \in {s, e}
    BY <1>1, <1>12
  <2>2. PathsOf(e.reads) = PathsOf(s.reads)
    BY <1>4, <1>6, <1>7, <1>12
  <2> HIDE DEF e, w, r
  <2>3. Sound(e)
    BY <1>4, <1>5, <1>9, <2>1, <2>2 DEF Sound, n, m
  <2> QED
    BY <1>4, <2>1, <2>3 DEF w
<1> QED
  BY <1>10, <1>11, <1>12

-----------------------------------------------------------------------------
(* Each step of a script.                                                   *)
LEMMA StepIs ==
  ASSUME NEW s, ~s.failed
  PROVE  /\ \A p : Step(s, See(p)) = Depend(s, p)
         /\ \A p : Step(s, Want(p)) = Precondition(s, p)
         /\ \A p, slot : Step(s, Put(p, slot)) = [s EXCEPT !.overlay = Overlaid(s.overlay, p, slot)]
         /\ Step(s, Emit) = IF Reserve(s).failed THEN Reserve(s)
                            ELSE [Reserve(s) EXCEPT !.ledger = Reserve(s).ledger + 1]
         /\ \A p : Step(s, Fetch(p)) = [s EXCEPT !.captured = s.captured \cup {p}]
         /\ \A p, data : Step(s, Content(p, data)) = Learn(s, p, "content", data)
         /\ \A p : Step(s, List(p)) = ListBase(s, p)
<1>1. \A p : Step(s, See(p)) = Depend(s, p)
  BY DEF Step, See
<1>2. \A p : Step(s, Want(p)) = Precondition(s, p)
  BY DEF Step, Want
<1>3. \A p, slot : Step(s, Put(p, slot)) = [s EXCEPT !.overlay = Overlaid(s.overlay, p, slot)]
  BY DEF Step, Put
<1>4. Step(s, Emit) = IF Reserve(s).failed THEN Reserve(s)
                      ELSE [Reserve(s) EXCEPT !.ledger = Reserve(s).ledger + 1]
  BY DEF Step, Emit
<1>5. \A p : Step(s, Fetch(p)) = [s EXCEPT !.captured = s.captured \cup {p}]
  BY DEF Step, Fetch
<1>6. \A p, data : Step(s, Content(p, data)) = Learn(s, p, "content", data)
  BY DEF Step, Content
<1>7. \A p : Step(s, List(p)) = ListBase(s, p)
  BY DEF Step, List
<1> QED
  BY <1>1, <1>2, <1>3, <1>4, <1>5, <1>6, <1>7

(* After a failed reserve no step of the operation runs: the ? of the code. *)
LEMMA StepStopped ==
  ASSUME NEW s, s.failed, NEW step PROVE Step(s, step) = s
BY DEF Step

(* A step that records and changes no file.                                 *)
Observes(s, r) ==
  /\ Sound(r)
  /\ r.overlay = s.overlay /\ s.writes \subseteq r.writes
  /\ s.failed => r = s

(* Two steps that record are one that records.                              *)
LEMMA ObservesTransitive ==
  ASSUME NEW s, NEW r, NEW t, Observes(s, r), Observes(r, t) PROVE Observes(s, t)
BY DEF Observes

(* record_path_dependency adds a fact of the base and charges for it.       *)
LEMMA DependObserves ==
  ASSUME NEW s, Sound(s), ~s.failed, limit \in Nat, NEW p \in Place
  PROVE  Observes(s, Depend(s, p)) /\ Depend(s, p).writes = s.writes
<1>1. Fact(base, p, "metadata") = Stamp(base, p)
  BY DEF Fact
<1>2. Depend(s, p) = Learn(s, p, "metadata", Fact(base, p, "metadata"))
  BY <1>1 DEF Depend
<1>3. "metadata" \in Aspects
  BY DEF Aspects
<1> QED
  BY <1>2, <1>3, LearnSound DEF Observes

(* push_effect charges one record.                                          *)
LEMMA EmitObserves ==
  ASSUME NEW s, Sound(s), ~s.failed, limit \in Nat
  PROVE  Observes(s, Step(s, Emit))
<1> DEFINE r == Reserve(s)
           e == [r EXCEPT !.ledger = r.ledger + 1]
<1>1. Step(s, Emit) = IF r.failed THEN r ELSE e
  BY StepIs
<1>2. /\ s \in Scribe /\ r \in Scribe /\ r.reads = s.reads /\ r.writes = s.writes
      /\ r.overlay = s.overlay /\ r.captured = s.captured /\ r.ledger = s.ledger
      /\ \/ /\ s.records < limit
            /\ r.records = s.records + 1 /\ r.failed = s.failed
         \/ r.records = s.records /\ r.failed = TRUE
  BY ReserveIs DEF Sound
<1> HIDE DEF r
<1>3. s.records \in Nat /\ s.ledger \in Nat /\ s.failed \in BOOLEAN
  BY <1>2 DEF Scribe
<1>4. CASE r.failed
  <2>1. r.records = s.records /\ r.failed = TRUE
    BY <1>2, <1>4
  <2>2. Sound(r)
    BY <1>2, <2>1 DEF Sound
  <2> QED
    BY <1>1, <1>2, <1>4, <2>2 DEF Observes
<1>5. CASE ~r.failed
  <2>1. /\ e \in Scribe /\ e.reads = s.reads /\ e.writes = s.writes /\ e.overlay = s.overlay
        /\ e.ledger = s.ledger + 1 /\ e.records = s.records + 1 /\ s.records < limit
    BY <1>2, <1>3, <1>5 DEF Scribe
  <2>2. ~(e.records > limit)
    BY <1>3, <2>1
  <2> DEFINE n == Cardinality(PathsOf(s.reads))
             m == Cardinality(s.writes)
  <2>3. s.records = n + m + s.ledger /\ n \in Nat /\ m \in Nat
    BY PathsFinite, FS_CardinalityType DEF Sound
  <2>4. e.records = n + m + e.ledger
    <3> HIDE DEF e, n, m
    <3> QED
      BY <1>3, <2>1, <2>3
  <2> HIDE DEF e
  <2>5. Sound(e)
    BY <2>1, <2>2, <2>4 DEF Sound
  <2> QED
    BY <1>1, <1>5, <2>1, <2>5 DEF Observes
<1> QED
  BY <1>4, <1>5

(* record_write_precondition: the path's precondition is charged once.      *)
LEMMA WantObserves ==
  ASSUME NEW s, Sound(s), ~s.failed, limit \in Nat, NEW p \in Path
  PROVE  /\ Observes(s, Step(s, Want(p)))
         /\ Step(s, Want(p)).failed \/ p \in Step(s, Want(p)).writes
<1> DEFINE d == Depend(s, Front(p))
           r == IF d.failed \/ p \in d.writes THEN d ELSE Reserve(d)
           e == [r EXCEPT !.writes = r.writes \cup {p}]
           w == Step(s, Want(p))
<1>1. w = IF r.failed THEN r ELSE e
  BY StepIs DEF Precondition
<1>2. Observes(s, d) /\ Sound(d) /\ d.writes = s.writes /\ d.overlay = s.overlay
  BY FrontIs, DependObserves DEF Observes
<1>3. d \in Scribe
  BY <1>2 DEF Sound
<1>4. CASE d.failed
  BY <1>1, <1>2, <1>4
<1>5. CASE ~d.failed /\ p \in d.writes
  <2>1. r = d /\ w = e
    BY <1>1, <1>5
  <2>2. e = d
    <3> HIDE DEF d
    <3>1. d.writes \cup {p} = d.writes
      BY <1>5
    <3>2. [d EXCEPT !.writes = d.writes] = d
      BY <1>3 DEF Scribe
    <3> QED
      BY <1>5, <3>1, <3>2
  <2> QED
    BY <1>2, <1>5, <2>1, <2>2
<1>6. CASE ~d.failed /\ p \notin d.writes
  <2>1. r = Reserve(d)
    BY <1>6
  <2>2. /\ r \in Scribe /\ r.reads = d.reads /\ r.writes = d.writes
        /\ r.overlay = d.overlay /\ r.ledger = d.ledger
        /\ \/ /\ d.records < limit
              /\ r.records = d.records + 1 /\ r.failed = d.failed
           \/ r.records = d.records /\ r.failed = TRUE
    BY <1>3, <2>1, ReserveIs
  <2> HIDE DEF r, d
  <2>3. d.records \in Nat /\ d.ledger \in Nat /\ d.failed \in BOOLEAN
    BY <1>3 DEF Scribe
  <2>4. CASE r.failed
    <3>1. Sound(r)
      BY <1>2, <1>6, <2>2, <2>4 DEF Sound
    <3> QED
      BY <1>1, <1>2, <2>2, <2>4, <3>1 DEF Observes
  <2>5. CASE ~r.failed
    <3>1. /\ e \in Scribe /\ e.reads = d.reads /\ e.writes = d.writes \cup {p} /\ e.overlay = d.overlay
          /\ e.ledger = d.ledger /\ e.records = d.records + 1 /\ d.records < limit
      BY <2>2, <2>3, <2>5 DEF Scribe
    <3>2. ~(e.records > limit)
      BY <2>3, <3>1
    <3> DEFINE n == Cardinality(PathsOf(d.reads))
               m == Cardinality(d.writes)
    <3>3. /\ d.records = n + m + d.ledger /\ n \in Nat /\ m \in Nat
          /\ Cardinality(d.writes \cup {p}) = m + 1 /\ IsFiniteSet(d.writes \cup {p})
      BY <1>2, <1>6, PathsFinite, FS_CardinalityType, FS_AddElement DEF Sound
    <3>4. e.records = n + (m + 1) + e.ledger
      <4> HIDE DEF e, n, m
      <4> QED
        BY <2>3, <3>1, <3>3
    <3> HIDE DEF e, m
    <3>5. Sound(e)
      BY <1>2, <3>1, <3>2, <3>3, <3>4 DEF Sound
    <3> QED
      BY <1>1, <1>2, <2>5, <3>1, <3>5 DEF Observes
  <2> QED
    BY <2>4, <2>5
<1> QED
  BY <1>4, <1>5, <1>6

(* base_ref hydrates metadata and records nothing of it.                    *)
LEMMA FetchObserves ==
  ASSUME NEW s, Sound(s), ~s.failed, NEW p \in Path
  PROVE  Observes(s, Step(s, Fetch(p)))
<1> DEFINE e == [s EXCEPT !.captured = s.captured \cup {p}]
<1>1. Step(s, Fetch(p)) = e
  BY StepIs
<1>2. s \in Scribe
  BY DEF Sound
<1>3. /\ e \in Scribe /\ e.reads = s.reads /\ e.writes = s.writes /\ e.overlay = s.overlay
      /\ e.ledger = s.ledger /\ e.records = s.records /\ e.failed = s.failed
  BY <1>2 DEF Scribe
<1> HIDE DEF e
<1>4. Sound(e)
  BY <1>3 DEF Sound
<1> QED
  BY <1>1, <1>3, <1>4 DEF Observes

(* read_lazy hydrates content and records the fact of the base it read.     *)
LEMMA ContentObserves ==
  ASSUME NEW s, Sound(s), ~s.failed, limit \in Nat, NEW p \in Path
  PROVE  Observes(s, Step(s, Content(p, base[p].data)))
<1>1. Fact(base, p, "content") = base[p].data
  BY DEF Fact
<1>2. Step(s, Content(p, base[p].data)) = Learn(s, p, "content", Fact(base, p, "content"))
  BY <1>1, StepIs
<1>3. "content" \in Aspects /\ p \in Place
  BY PlaceIsSequence DEF Aspects
<1> QED
  BY <1>2, <1>3, LearnSound DEF Observes

(* read_dir records the listing of the base, not of the overlay.            *)
LEMMA ListObserves ==
  ASSUME NEW s, Sound(s), ~s.failed, limit \in Nat, NEW p \in Place
  PROVE  Observes(s, Step(s, List(p)))
<1>1. Fact(base, p, "directory") = Listing(base, p)
  BY DEF Fact
<1>2. Step(s, List(p)) = IF Kind(base, p) = "none" THEN s
                         ELSE Learn(s, p, "directory", Fact(base, p, "directory"))
  BY <1>1, StepIs DEF ListBase
<1>3. "directory" \in Aspects
  BY DEF Aspects
<1>4. Observes(s, s)
  BY DEF Observes
<1> QED
  BY <1>2, <1>3, <1>4, LearnSound DEF Observes

(* The steps that record.                                                   *)
Observing ==
  {See(p) : p \in Place} \cup {List(p) : p \in Place} \cup {Want(p) : p \in Path}
    \cup {Fetch(p) : p \in Path} \cup {Content(p, base[p].data) : p \in Path} \cup {Emit}

(* Every recording step keeps a state sound, and Want leaves its path held. *)
LEMMA StepObserves ==
  ASSUME NEW s, Sound(s), limit \in Nat, NEW step \in Observing
  PROVE  /\ Observes(s, Step(s, step))
         /\ \A p \in Path : step = Want(p) => Step(s, step).failed \/ p \in Step(s, step).writes
<1>1. CASE s.failed
  <2>1. Step(s, step) = s
    BY <1>1, StepStopped
  <2> QED
    BY <1>1, <2>1 DEF Observes
<1>2. CASE ~s.failed
  <2>1. ASSUME NEW p \in Place, step = See(p) PROVE Observes(s, Step(s, step))
    BY <1>2, <2>1, StepIs, DependObserves
  <2>2. ASSUME NEW p \in Place, step = List(p) PROVE Observes(s, Step(s, step))
    BY <1>2, <2>2, ListObserves
  <2>3. ASSUME NEW p \in Path, step = Want(p)
        PROVE  /\ Observes(s, Step(s, step))
               /\ Step(s, step).failed \/ p \in Step(s, step).writes
    BY <1>2, <2>3, WantObserves
  <2>4. ASSUME NEW p \in Path, step = Fetch(p) PROVE Observes(s, Step(s, step))
    BY <1>2, <2>4, FetchObserves
  <2>5. ASSUME NEW p \in Path, step = Content(p, base[p].data) PROVE Observes(s, Step(s, step))
    BY <1>2, <2>5, ContentObserves
  <2>6. ASSUME step = Emit PROVE Observes(s, Step(s, step))
    BY <1>2, <2>6, EmitObserves
  <2>7. \/ \E p \in Place : step = See(p) \/ step = List(p)
        \/ \E p \in Path : step = Want(p) \/ step = Fetch(p) \/ step = Content(p, base[p].data)
        \/ step = Emit
    BY DEF Observing
  <2> QED
    BY <2>1, <2>2, <2>3, <2>4, <2>5, <2>6, <2>7
<1> QED
  BY <1>1, <1>2

-----------------------------------------------------------------------------
(* Scripts of one kind.                                                     *)

(* A script of one step is the step.                                        *)
LEMMA RunOne ==
  ASSUME NEW s, NEW step
  PROVE  Run(s, <<step>>) = Step(s, step)
<1>1. <<>> \in Seq({step}) /\ step \in {step} /\ Append(<<>>, step) = <<step>>
  OBVIOUS
<1>2. Run(s, Append(<<>>, step)) = Step(Run(s, <<>>), step)
  BY <1>1, RunAppend
<1> QED
  BY <1>1, <1>2, RunNothing

(* So does a script of recording steps, one after the other.                *)
LEMMA RunObserves ==
  ASSUME NEW s, Sound(s), limit \in Nat, NEW script \in Seq(Observing)
  PROVE  /\ Observes(s, Run(s, script))
         /\ Run(s, script).failed \/ \A i \in 1..Len(script) : \A p \in Path :
                                        script[i] = Want(p) => p \in Run(s, script).writes
<1> DEFINE n == Len(script)
<1>1. n \in Nat /\ \A i \in 1..n : script[i] \in Observing
  OBVIOUS
<1>2. PICK c : History(c, s, script, n) /\ Run(s, script) = c[n]
  BY RunHasHistory
<1> DEFINE Good(k) == /\ Observes(s, c[k])
                      /\ c[k].failed \/ \A i \in 1..k : \A p \in Path :
                                           script[i] = Want(p) => p \in c[k].writes
           N == {k \in Nat : k <= n => Good(k)}
<1>3. Good(0)
  BY <1>2 DEF History, Observes
<1>4. ASSUME NEW k \in Nat, k + 1 <= n, Good(k) PROVE Good(k + 1)
  <2> HIDE DEF n
  <2> DEFINE step == script[k + 1]
  <2>1. k + 1 \in 1..n /\ k + 1 - 1 = k /\ step \in Observing
    BY <1>1, <1>4
  <2>2. c[k + 1] = Step(c[k], step)
    BY <1>2, <2>1 DEF History
  <2>3. Sound(c[k])
    BY <1>4 DEF Observes
  <2>4. Observes(c[k], c[k + 1])
    BY <2>1, <2>2, <2>3, StepObserves
  <2>5. Observes(s, c[k + 1])
    BY <1>4, <2>4, ObservesTransitive
  <2>6. ASSUME ~c[k + 1].failed, NEW i \in 1..(k + 1), NEW p \in Path, script[i] = Want(p)
        PROVE  p \in c[k + 1].writes
    <3>1. CASE i = k + 1
      <4>1. step = Want(p)
        BY <2>6, <3>1
      <4> HIDE DEF step
      <4> QED
        BY <2>1, <2>2, <2>3, <2>6, <4>1, StepObserves
    <3>2. CASE i # k + 1
      <4>1. i \in 1..k
        BY <3>2
      <4>2. ~c[k].failed
        BY <2>4, <2>6 DEF Observes
      <4>3. p \in c[k].writes
        BY <1>4, <2>6, <4>1, <4>2
      <4> QED
        BY <2>4, <4>3 DEF Observes
    <3> QED
      BY <3>1, <3>2
  <2> QED
    BY <2>5, <2>6
<1> HIDE DEF Good
<1>5. 0 \in N /\ \A k \in N : k + 1 \in N
  BY <1>1, <1>3, <1>4
<1> HIDE DEF N
<1>6. N = Nat
  BY <1>5, SetInduction DEF N
<1>7. Good(n)
  BY <1>1, <1>6 DEF N
<1> QED
  BY <1>2, <1>7 DEF Good

(* One overlay entry for a path whose precondition is held.                 *)
LEMMA PutSound ==
  ASSUME NEW s, Sound(s), ~s.failed, NEW p \in s.writes, NEW slot \in SoundSlot
  PROVE  LET r == Step(s, Put(p, slot)) IN
           /\ Sound(r) /\ ~r.failed /\ r.overlay = Overlaid(s.overlay, p, slot)
           /\ r.writes = s.writes /\ r.reads = s.reads
<1> DEFINE o == Overlaid(s.overlay, p, slot)
           r == [s EXCEPT !.overlay = o]
<1>1. Step(s, Put(p, slot)) = r
  BY StepIs
<1>2. s \in Scribe /\ s.overlay \in Overlays /\ p \in Path
  BY DEF Sound, Scribe
<1>3. s.overlay \in [DOMAIN s.overlay -> SoundSlot] /\ DOMAIN s.overlay \subseteq Path
  BY <1>2, OverlayIs
<1>4. DOMAIN o = DOMAIN s.overlay \cup {p} /\ o \in [DOMAIN o -> SoundSlot]
  BY <1>3 DEF Overlaid
<1>5. o \in Overlays
  BY <1>2, <1>3, <1>4, OverlayIs
<1>6. DOMAIN o \subseteq s.writes
  BY <1>4 DEF Sound
<1> HIDE DEF o
<1>7. /\ r \in Scribe /\ r.reads = s.reads /\ r.writes = s.writes /\ r.overlay = o
      /\ r.ledger = s.ledger /\ r.records = s.records /\ r.failed = s.failed
  BY <1>2, <1>5 DEF Scribe
<1> HIDE DEF r
<1>8. Sound(r)
  BY <1>6, <1>7 DEF Sound
<1> QED
  BY <1>1, <1>7, <1>8 DEF o

(* What an overlay holds after entries for the paths at[1], ..., at[n].     *)
Layered(o, old, at, slots, n) ==
  /\ DOMAIN o = DOMAIN old \cup {at[i] : i \in 1..n}
  /\ \A i \in 1..n : o[at[i]] = slots[i]
  /\ \A q \in DOMAIN old : (\A i \in 1..n : at[i] # q) => o[q] = old[q]

(* A script of overlay entries makes exactly those entries and charges nothing. *)
LEMMA RunPuts ==
  ASSUME NEW s, Sound(s), NEW n \in Nat, NEW at, NEW slots, NEW X, NEW script \in Seq(X),
         Len(script) = n,
         \A i \in 1..n : script[i] = Put(at[i], slots[i]),
         \A i \in 1..n : slots[i] \in SoundSlot,
         ~s.failed => \A i \in 1..n : at[i] \in s.writes,
         \A i, j \in 1..n : i # j => at[i] # at[j]
  PROVE  LET r == Run(s, script) IN
           /\ Sound(r)
           /\ r.failed = s.failed /\ r.writes = s.writes /\ r.reads = s.reads
           /\ s.failed => r = s
           /\ ~s.failed => Layered(r.overlay, s.overlay, at, slots, n)
<1>1. PICK c : History(c, s, script, n) /\ Run(s, script) = c[n]
  BY RunHasHistory
<1> DEFINE Good(k) == /\ Sound(c[k])
                      /\ c[k].failed = s.failed /\ c[k].writes = s.writes /\ c[k].reads = s.reads
                      /\ s.failed => c[k] = s
                      /\ ~s.failed => Layered(c[k].overlay, s.overlay, at, slots, k)
           N == {k \in Nat : k <= n => Good(k)}
<1>2. Good(0)
  <2>1. c[0] = s
    BY <1>1 DEF History
  <2>2. Layered(s.overlay, s.overlay, at, slots, 0)
    BY DEF Layered
  <2> QED
    BY <2>1, <2>2
<1>3. ASSUME NEW k \in Nat, k + 1 <= n, Good(k) PROVE Good(k + 1)
  <2> DEFINE j == k + 1
             a == c[k]
             b == c[k + 1]
             p == at[k + 1]
             v == slots[k + 1]
  <2>1. j \in 1..n /\ j - 1 = k
    BY <1>3
  <2>2. b = Step(a, Put(p, v)) /\ v \in SoundSlot
    <3>1. c[j] = Step(c[j - 1], script[j])
      BY <1>1, <2>1 DEF History
    <3> QED
      BY <2>1, <3>1
  <2>3. CASE s.failed
    BY <1>3, <2>2, <2>3, StepStopped
  <2>4. CASE ~s.failed
    <3>1. Sound(a) /\ ~a.failed /\ a.writes = s.writes /\ a.reads = s.reads /\ p \in s.writes
          /\ Layered(a.overlay, s.overlay, at, slots, k) /\ s.failed \in BOOLEAN
      BY <1>3, <2>1, <2>4 DEF Sound, Scribe
    <3> HIDE DEF a, p, v
    <3>2. /\ Sound(b) /\ ~b.failed /\ b.overlay = Overlaid(a.overlay, p, v)
          /\ b.writes = s.writes /\ b.reads = s.reads
      BY <2>2, <3>1, PutSound
    <3>3. b.failed = s.failed
      BY <2>4, <3>1, <3>2 DEF Sound, Scribe
    <3> HIDE DEF b
    <3> DEFINE o == b.overlay
    <3>4. DOMAIN o = DOMAIN a.overlay \cup {p} /\ o[p] = v
          /\ \A q \in DOMAIN a.overlay : q # p => o[q] = a.overlay[q]
      BY <3>2 DEF Overlaid
    <3> HIDE DEF o
    <3>5. \A i \in 1..k : at[i] # p /\ i \in 1..j
      BY <1>3, <2>1 DEF p
    <3>6. \A i \in 1..j : i \in 1..k \/ i = j
      OBVIOUS
    <3>7. at[j] = p /\ slots[j] = v /\ j \in 1..j
      BY DEF p, v
    <3> HIDE DEF j
    <3>8. DOMAIN o = DOMAIN s.overlay \cup {at[i] : i \in 1..j}
      BY <3>1, <3>4, <3>5, <3>6, <3>7 DEF Layered
    <3>9. \A i \in 1..j : o[at[i]] = slots[i]
      BY <3>1, <3>4, <3>5, <3>6, <3>7 DEF Layered
    <3>10. \A q \in DOMAIN s.overlay : (\A i \in 1..j : at[i] # q) => o[q] = s.overlay[q]
      BY <3>1, <3>4, <3>5, <3>6, <3>7 DEF Layered
    <3>11. Layered(b.overlay, s.overlay, at, slots, j)
      BY <3>8, <3>9, <3>10 DEF Layered, o
    <3> QED
      BY <2>4, <3>2, <3>3, <3>11 DEF b, j
  <2>5. s.failed \in BOOLEAN
    BY DEF Sound, Scribe
  <2> QED
    BY <2>3, <2>4, <2>5
<1> HIDE DEF Good
<1>4. 0 \in N /\ \A k \in N : k + 1 \in N
  BY <1>2, <1>3
<1> HIDE DEF N
<1>5. N = Nat
  BY <1>4, SetInduction DEF N
<1>6. Good(n)
  BY <1>5 DEF N
<1> QED
  BY <1>1, <1>6 DEF Good

-----------------------------------------------------------------------------
(* The tree an overlay stands for.                                          *)
TreeOf(o) == [p \in Path |-> IF p \in DOMAIN o THEN o[p].node ELSE base[p]]

(* The base a transaction starts from is a rooted tree.                     *)
LEMMA BaseIs ==
  ASSUME base \in Bases
  PROVE  base \in Tree /\ Rooted(base) /\ IsFiniteSet({p \in Path : base[p] # None})
BY BasesAssumption DEF Tree

(* The tree of an overlay of sound slots is a tree.                         *)
LEMMA TreeOfIs ==
  ASSUME base \in Bases, NEW o \in Overlays
  PROVE  /\ TreeOf(o) \in Tree
         /\ \A p \in Path : TreeOf(o)[p] # None =>
              Slot(o, p) \in SoundSlot /\ Slot(o, p).node = TreeOf(o)[p]
         /\ \A p \in Path : TreeOf(o)[p] = Slot(o, p).node
<1>1. o \in [DOMAIN o -> SoundSlot] /\ DOMAIN o \subseteq Path
  BY OverlayIs
<1>2. base \in [Path -> Node \cup {None}]
  BY BaseIs DEF Tree
<1>3. ASSUME NEW p \in Path
      PROVE  /\ TreeOf(o)[p] \in Node \cup {None} /\ TreeOf(o)[p] = Slot(o, p).node
             /\ TreeOf(o)[p] # None => Slot(o, p) \in SoundSlot
  <2>1. CASE p \in DOMAIN o
    <3>1. Slot(o, p) = o[p] /\ TreeOf(o)[p] = o[p].node /\ o[p] \in SoundSlot
      BY <1>1, <2>1 DEF Slot, TreeOf
    <3> QED
      BY <3>1, SlotIs
  <2>2. CASE p \notin DOMAIN o
    <3>1. Slot(o, p) = [node |-> base[p], origin |-> p] /\ TreeOf(o)[p] = base[p]
      BY <2>2 DEF Slot, TreeOf
    <3>2. p # None
      BY NodesAre
    <3> QED
      BY <1>2, <3>1, <3>2 DEF SoundSlot, FromBase
  <2> QED
    BY <2>1, <2>2
<1>4. TreeOf(o) \in Tree
  BY <1>3 DEF TreeOf, Tree
<1> QED
  BY <1>3, <1>4

(* Where the tree is rooted no tombstone hides anything.                    *)
LEMMA NothingHidden ==
  ASSUME base \in Bases, NEW o \in Overlays, Rooted(TreeOf(o)),
         NEW p \in Path, TreeOf(o)[p] # None
  PROVE  ~Hidden(o, p)
<1> SUFFICES ASSUME NEW q \in DOMAIN o, IsStrictPrefix(q, p),
                    o[q].node = None \/ o[q].node.kind # "dir"
             PROVE  FALSE
  BY DEF Hidden
<1>1. TreeOf(o) \in Tree /\ q \in Path /\ q \in Place
  BY TreeOfIs, OverlayIs, PlaceIsSequence
<1>2. TreeOf(o)[q] = o[q].node
  BY <1>1 DEF TreeOf
<1>3. Kind(TreeOf(o), q) = "dir"
  BY <1>1, AncestorsAreDirectories
<1> QED
  BY <1>1, <1>2, <1>3, KindIs

(* resolve_ref shows every slot of an overlay whose tree is rooted.         *)
LEMMA VisibleIs ==
  ASSUME base \in Bases, overlay \in Overlays, Rooted(TreeOf(overlay))
  PROVE  /\ Visible = TreeOf(overlay)
         /\ \A p \in Path : Resolve(overlay, p).node = TreeOf(overlay)[p]
         /\ \A p \in Path : TreeOf(overlay)[p] # None =>
              /\ Resolve(overlay, p) = Slot(overlay, p)
              /\ Resolve(overlay, p) \in SoundSlot
         /\ \A p \in DOMAIN overlay : overlay[p].node # None => Resolve(overlay, p) = overlay[p]
<1>1. ASSUME NEW p \in Path
      PROVE  /\ Resolve(overlay, p).node = TreeOf(overlay)[p]
             /\ TreeOf(overlay)[p] # None => /\ Resolve(overlay, p) = Slot(overlay, p)
                                             /\ Resolve(overlay, p) \in SoundSlot
  <2>1. CASE TreeOf(overlay)[p] # None
    <3>1. ~Hidden(overlay, p)
      BY <2>1, NothingHidden
    <3> QED
      BY <2>1, <3>1, TreeOfIs DEF Resolve
  <2>2. CASE TreeOf(overlay)[p] = None
    <3>1. Slot(overlay, p).node = None /\ Tombstone.node = None
      BY <2>2, TreeOfIs DEF Tombstone
    <3> QED
      BY <2>2, <3>1 DEF Resolve
  <2> QED
    BY <2>1, <2>2
<1>2. Visible = TreeOf(overlay)
  <2>1. Visible = [p \in Path |-> Resolve(overlay, p).node]
    BY DEF Visible
  <2>2. TreeOf(overlay) = [p \in Path |-> TreeOf(overlay)[p]]
    BY DEF TreeOf
  <2> QED
    BY <1>1, <2>1, <2>2
<1>3. ASSUME NEW p \in DOMAIN overlay, overlay[p].node # None
      PROVE  Resolve(overlay, p) = overlay[p]
  <2>1. p \in Path /\ Slot(overlay, p) = overlay[p] /\ TreeOf(overlay)[p] = overlay[p].node
    BY OverlayIs DEF Slot, TreeOf
  <2> QED
    BY <1>1, <1>3, <2>1
<1> QED
  BY <1>1, <1>2, <1>3

(* Only finitely many nodes are visible, so a subtree can be listed.        *)
LEMMA SubtreeIsFinite ==
  ASSUME base \in Bases, NEW o, DOMAIN o \subseteq Path, IsFiniteSet(DOMAIN o), NEW p \in Place
  PROVE  IsFiniteSet(Subtree(TreeOf(o), p)) /\ Subtree(TreeOf(o), p) \in SUBSET Path
<1> DEFINE B == {x \in Path : base[x] # None}
<1>1. IsFiniteSet(B)
  BY BaseIs
<1>2. IsFiniteSet(B \cup DOMAIN o)
  BY <1>1, FS_Union
<1>3. Subtree(TreeOf(o), p) \in SUBSET (B \cup DOMAIN o)
  BY DEF Subtree, Below, TreeOf
<1>4. IsFiniteSet(Subtree(TreeOf(o), p))
  <2> HIDE DEF B
  <2> QED
    BY <1>2, <1>3, FS_Subset
<1> QED
  BY <1>4 DEF Subtree, Below

-----------------------------------------------------------------------------
(* The invariant.  An evidence budget that has run out ends the promise     *)
(* about the tree; the evidence stays sound.                                *)
Now == [reads |-> reads, writes |-> writes, overlay |-> overlay, captured |-> captured,
        ledger |-> ledger, records |-> records, failed |-> failed]

Settled ==
  /\ ~failed
  /\ Relocated \subseteq captured
  /\ diff = Entries(captured, captured)

IInv ==
  /\ base \in Bases
  /\ limit \in Nat
  /\ Sound(Now)
  /\ ~failed => Rooted(TreeOf(overlay))
  /\ phase = "diffed" => Settled

(* The parts of a sound state.                                              *)
LEMMA NowIs ==
  ASSUME Sound(Now)
  PROVE  /\ Now.reads = reads /\ Now.writes = writes /\ Now.overlay = overlay
         /\ Now.captured = captured /\ Now.ledger = ledger /\ Now.records = records
         /\ Now.failed = failed
         /\ reads \in SUBSET Evidence /\ writes \in SUBSET Path /\ overlay \in Overlays
         /\ captured \in SUBSET Path /\ ledger \in Nat /\ records \in Nat /\ failed \in BOOLEAN
         /\ DOMAIN overlay \subseteq writes /\ IsFiniteSet(writes) /\ IsFiniteSet(DOMAIN overlay)
         /\ records = Cardinality(PathsOf(reads)) + Cardinality(writes) + ledger
         /\ records > limit => failed
<1>1. /\ Now.reads = reads /\ Now.writes = writes /\ Now.overlay = overlay
      /\ Now.captured = captured /\ Now.ledger = ledger /\ Now.records = records
      /\ Now.failed = failed
  BY DEF Now
<1>2. Now \in Scribe
  BY DEF Sound
<1>3. /\ reads \in SUBSET Evidence /\ writes \in SUBSET Path /\ overlay \in Overlays
      /\ captured \in SUBSET Path /\ ledger \in Nat /\ records \in Nat /\ failed \in BOOLEAN
  <2> HIDE DEF Now
  <2> QED
    BY <1>1, <1>2 DEF Scribe
<1>4. /\ DOMAIN overlay \subseteq writes /\ IsFiniteSet(writes)
      /\ records = Cardinality(PathsOf(reads)) + Cardinality(writes) + ledger
      /\ records > limit => failed
  BY <1>1 DEF Sound
<1>5. IsFiniteSet(DOMAIN overlay)
  BY <1>4, FS_Subset
<1> QED
  BY <1>1, <1>3, <1>4, <1>5

(* What is sound of a state that follows is sound there.                    *)
LEMMA SoundNext ==
  ASSUME base' = base, limit' = limit, NEW r, Sound(r), Now' = r
  PROVE  Sound(Now)'
<1>1. Evidence' = Evidence
  BY DEF Evidence
<1>2. SoundSlot' = SoundSlot
  BY DEF SoundSlot, FromBase
<1>3. Scribe' = Scribe
  BY <1>1, <1>2 DEF Scribe, Overlays
<1> QED
  BY <1>3 DEF Sound

(* The tree after a step is the tree of the overlay the step leaves.        *)
LEMMA TreeNext ==
  ASSUME base' = base, NEW o, overlay' = o
  PROVE  TreeOf(overlay)' = TreeOf(o)
BY DEF TreeOf

-----------------------------------------------------------------------------
(* What the guest sees, also when the budget has run out.                   *)
LEMMA VisibleTyped ==
  ASSUME base \in Bases, overlay \in Overlays
  PROVE  /\ Visible \in Tree
         /\ \A p \in Path : Visible[p] = Resolve(overlay, p).node
         /\ \A p \in Path : Visible[p] # None =>
              /\ Resolve(overlay, p) \in SoundSlot
              /\ TreeOf(overlay)[p] = Visible[p]
<1>1. ASSUME NEW p \in Path
      PROVE  /\ Resolve(overlay, p).node \in Node \cup {None}
             /\ Resolve(overlay, p).node # None =>
                  /\ Resolve(overlay, p) \in SoundSlot
                  /\ TreeOf(overlay)[p] = Resolve(overlay, p).node
  <2>1. Tombstone.node = None
    BY DEF Tombstone
  <2>2. /\ TreeOf(overlay)[p] \in Node \cup {None} /\ TreeOf(overlay)[p] = Slot(overlay, p).node
        /\ TreeOf(overlay)[p] # None => Slot(overlay, p) \in SoundSlot
    BY TreeOfIs DEF Tree
  <2>3. CASE Resolve(overlay, p) = Tombstone
    BY <2>1, <2>3
  <2>4. CASE Resolve(overlay, p) = Slot(overlay, p)
    BY <2>2, <2>4
  <2> QED
    BY <2>3, <2>4 DEF Resolve
<1>2. Visible = [p \in Path |-> Resolve(overlay, p).node]
  BY DEF Visible
<1> QED
  BY <1>1, <1>2 DEF Tree

(* visible_subtree is a finite set of paths.                                *)
LEMMA VisibleSubtree ==
  ASSUME base \in Bases, overlay \in Overlays, IsFiniteSet(DOMAIN overlay), NEW p \in Place
  PROVE  IsFiniteSet(Subtree(Visible, p)) /\ Subtree(Visible, p) \in SUBSET Path
<1>1. DOMAIN overlay \subseteq Path
  BY OverlayIs
<1>2. IsFiniteSet(Subtree(TreeOf(overlay), p))
  BY <1>1, SubtreeIsFinite
<1>3. Subtree(Visible, p) \in SUBSET Subtree(TreeOf(overlay), p)
  BY VisibleTyped DEF Subtree, Below
<1> QED
  BY <1>2, <1>3, FS_Subset DEF Subtree, Below

(* One entry changes one path of the tree.                                  *)
LEMMA PutTree ==
  ASSUME NEW o, DOMAIN o \subseteq Path, NEW p \in Path, NEW slot
  PROVE  TreeOf(Overlaid(o, p, slot)) = [TreeOf(o) EXCEPT ![p] = slot.node]
<1>1. ASSUME NEW x \in Path
      PROVE  TreeOf(Overlaid(o, p, slot))[x] = IF x = p THEN slot.node ELSE TreeOf(o)[x]
  BY DEF TreeOf, Overlaid
<1>2. TreeOf(Overlaid(o, p, slot)) = [x \in Path |-> TreeOf(Overlaid(o, p, slot))[x]]
  BY DEF TreeOf
<1>3. [TreeOf(o) EXCEPT ![p] = slot.node] = [x \in Path |-> IF x = p THEN slot.node ELSE TreeOf(o)[x]]
  BY DEF TreeOf
<1> QED
  BY <1>1, <1>2, <1>3

(* A script of one step does nothing once the budget has run out.           *)
LEMMA RunStopped ==
  ASSUME NEW s, Sound(s), s.failed, NEW step PROVE Run(s, <<step>>) = s
BY RunOne, StepStopped

(* The script of an operation that changes one path.                        *)
LEMMA RunPut ==
  ASSUME NEW s, Sound(s), limit \in Nat, NEW obs \in Seq(Observing), NEW p \in Path,
         NEW slot \in SoundSlot, NEW i \in 1..Len(obs), obs[i] = Want(p)
  PROVE  LET r == Run(s, obs \o <<Put(p, slot), Emit>>) IN
           /\ Sound(r) /\ s.writes \subseteq r.writes
           /\ s.failed => r = s
           /\ ~r.failed => r.overlay = Overlaid(s.overlay, p, slot)
<1> DEFINE X == Observing \cup {Put(p, slot)}
           u == <<Put(p, slot)>>
           v == <<Emit>>
           w == <<Put(p, slot), Emit>>
           a == Run(s, obs)
           b == Step(a, Put(p, slot))
           c == Step(b, Emit)
<1>1. Emit \in Observing
  BY DEF Observing
<1>2. obs \in Seq(X) /\ u \in Seq(X) /\ v \in Seq(X) /\ w \in Seq(X) /\ w = u \o v
  <2> HIDE DEF a, b, c
  <2>1. obs \in Seq(X)
    OBVIOUS
  <2>2. Put(p, slot) \in X /\ Emit \in X
    BY <1>1
  <2> HIDE DEF X
  <2> QED
    BY <2>1, <2>2
<1>3. Run(s, obs \o w) = Run(a, w)
  <2> HIDE DEF X, u, v, w, a, b, c
  <2>8. obs \in Seq(X)
    BY <1>2
  <2>9. w \in Seq(X)
    BY <1>2
  <2>1. Run(Run(s, obs), w) = Run(s, obs \o w)
    BY <2>8, <2>9, RunConcat
  <2> QED
    BY <2>1 DEF a
<1>4. Run(a, w) = c
  <2>1. Run(a, u \o v) = Run(Run(a, u), v)
    <3> HIDE DEF X, a, u, v
    <3> QED
      BY <1>2, RunConcat
  <2>2. Run(a, u) = b /\ Run(b, v) = c
    BY RunOne
  <2> HIDE DEF a, b, c, u, v, w, X
  <2> QED
    BY <1>2, <2>1, <2>2
<1> HIDE DEF X, u, v
<1>5. Observes(s, a) /\ (a.failed \/ p \in a.writes)
  BY RunObserves
<1>6. CASE a.failed
  <2>1. b = a /\ c = a
    BY <1>6, StepStopped
  <2> HIDE DEF a, b, c
  <2> QED
    BY <1>3, <1>4, <1>5, <1>6, <2>1 DEF Observes
<1>7. CASE ~a.failed
  <2>1. Sound(a) /\ a.overlay = s.overlay /\ ~s.failed /\ s.writes \subseteq a.writes
    BY <1>5, <1>7 DEF Observes
  <2> HIDE DEF a
  <2>2. Sound(b) /\ ~b.failed /\ b.overlay = Overlaid(a.overlay, p, slot) /\ b.writes = a.writes
    BY <1>5, <1>7, <2>1, PutSound
  <2> HIDE DEF b
  <2>3. Observes(b, c)
    BY <1>1, <2>2, StepObserves
  <2> HIDE DEF c
  <2> QED
    BY <1>3, <1>4, <2>1, <2>2, <2>3 DEF Observes
<1> QED
  BY <1>6, <1>7

-----------------------------------------------------------------------------
(* Operations.  In the lemmas below the operation's own checks have passed. *)

(* A state after an operation: the tree it leaves when the evidence budget  *)
(* did not run out, sound evidence whether or not it did.                   *)
Leaves(r, tree) ==
  /\ Sound(r) /\ Now.writes \subseteq r.writes
  /\ Now.failed => r = Now
  /\ ~r.failed => TreeOf(r.overlay) = tree

(* An operation that only records leaves the tree as it was.                *)
LEMMA ObservingLeaves ==
  ASSUME Sound(Now), limit \in Nat, NEW script \in Seq(Observing)
  PROVE  Leaves(Run(Now, script), TreeOf(overlay))
<1>1. Observes(Now, Run(Now, script))
  BY RunObserves
<1>2. Now.overlay = overlay
  BY NowIs
<1> HIDE DEF Now
<1> QED
  BY <1>1, <1>2 DEF Observes, Leaves

(* An operation that records and enters one slot changes one path.          *)
LEMMA PutLeaves ==
  ASSUME Sound(Now), limit \in Nat, NEW obs \in Seq(Observing), NEW p \in Path,
         NEW slot \in SoundSlot, NEW i \in 1..Len(obs), obs[i] = Want(p)
  PROVE  Leaves(Run(Now, obs \o <<Put(p, slot), Emit>>), [TreeOf(overlay) EXCEPT ![p] = slot.node])
<1> DEFINE r == Run(Now, obs \o <<Put(p, slot), Emit>>)
<1>1. /\ Sound(r) /\ Now.writes \subseteq r.writes
      /\ Now.failed => r = Now
      /\ ~r.failed => r.overlay = Overlaid(Now.overlay, p, slot)
  BY RunPut
<1>2. Now.overlay = overlay /\ DOMAIN overlay \subseteq Path
  BY NowIs, OverlayIs
<1>3. TreeOf(Overlaid(overlay, p, slot)) = [TreeOf(overlay) EXCEPT ![p] = slot.node]
  BY <1>2, PutTree
<1> HIDE DEF r, Now
<1> QED
  BY <1>1, <1>2, <1>3 DEF Leaves, r

-----------------------------------------------------------------------------
(* Scripts made from lists of paths.                                        *)

Flattens(f, q, n) == f = [i \in 1..n |-> IF i = 1 THEN q[i] ELSE f[i - 1] \o q[i]]

(* A list of lists has a function of its partial concatenations.            *)
LEMMA FlattenExists ==
  ASSUME NEW q, NEW n \in Nat
  PROVE  \E f : Flattens(f, q, n)
<1> DEFINE N == {k \in Nat : \E f : Flattens(f, q, k)}
<1>1. 0 \in N
  <2> DEFINE e == [i \in 1..0 |-> i]
  <2>1. Flattens(e, q, 0)
    BY DEF Flattens
  <2> QED
    BY <2>1
<1>2. ASSUME NEW k \in N PROVE k + 1 \in N
  <2>1. PICK g : Flattens(g, q, k)
    OBVIOUS
  <2> DEFINE j == k + 1
             new == IF j = 1 THEN q[j] ELSE g[k] \o q[j]
             h == [i \in 1..j |-> IF i = j THEN new ELSE g[i]]
  <2>2. ASSUME NEW i \in 1..j
        PROVE  h[i] = IF i = 1 THEN q[i] ELSE h[i - 1] \o q[i]
    <3>1. CASE i = j
      <4>1. h[i] = new
        BY <3>1
      <4>2. j # 1 => k \in 1..j /\ k # j /\ i - 1 = k
        BY <3>1
      <4>3. j # 1 => h[i - 1] = g[k]
        BY <4>2
      <4> HIDE DEF h, j
      <4> QED
        BY <3>1, <4>1, <4>3
    <3>2. CASE i # j
      <4>1. i \in 1..k /\ h[i] = g[i]
        BY <3>2
      <4>2. g[i] = IF i = 1 THEN q[i] ELSE g[i - 1] \o q[i]
        BY <2>1, <4>1 DEF Flattens
      <4>3. i # 1 => i - 1 \in 1..j /\ i - 1 # j
        BY <3>2
      <4>4. i # 1 => h[i - 1] = g[i - 1]
        BY <4>3
      <4> HIDE DEF h, j
      <4> QED
        BY <4>1, <4>2, <4>4
    <3> QED
      BY <3>1, <3>2
  <2>3. Flattens(h, q, j)
    BY <2>2 DEF Flattens
  <2> HIDE DEF h
  <2> QED
    BY <2>3
<1> HIDE DEF N
<1>3. N = Nat
  BY <1>1, <1>2, SetInduction DEF N
<1> QED
  BY <1>3 DEF N

(* What the concatenation of two sequences holds.                           *)
LEMMA ConcatIs ==
  ASSUME NEW X, NEW u \in Seq(X), NEW v \in Seq(X)
  PROVE  /\ u \o v \in Seq(X) /\ Len(u \o v) = Len(u) + Len(v)
         /\ Len(u) \in Nat /\ Len(v) \in Nat
         /\ \A m \in 1..Len(u) : (u \o v)[m] = u[m]
         /\ \A m \in 1..Len(v) : (u \o v)[Len(u) + m] = v[m]
OBVIOUS

(* Every element of every list is in the concatenation of the lists.        *)
LEMMA FlattenIs ==
  ASSUME NEW X, NEW q \in Seq(Seq(X))
  PROVE  /\ FlattenSeq(q) \in Seq(X)
         /\ \A j \in 1..Len(q) : \A k \in 1..Len(q[j]) :
              \E m \in 1..Len(FlattenSeq(q)) : FlattenSeq(q)[m] = q[j][k]
<1> DEFINE n == Len(q)
<1>1. n \in Nat /\ \A i \in 1..n : q[i] \in Seq(X)
  OBVIOUS
<1>2. CASE n = 0
  <2>1. FlattenSeq(q) = q /\ q = <<>>
    BY <1>2 DEF FlattenSeq
  <2> QED
    BY <1>2, <2>1
<1>3. CASE n # 0
  <2> DEFINE f == CHOOSE g : Flattens(g, q, n)
  <2>1. Flattens(f, q, n)
    BY <1>1, FlattenExists
  <2>2. FlattenSeq(q) = f[n]
    BY <1>3 DEF FlattenSeq, Flattens
  <2> HIDE DEF f, n
  <2> DEFINE Has(i) == /\ f[i] \in Seq(X)
                       /\ \A j \in 1..i : \A k \in 1..Len(q[j]) : \E m \in 1..Len(f[i]) : f[i][m] = q[j][k]
             N == {i \in Nat : i + 1 <= n => Has(i + 1)}
  <2>3. 1 <= n => Has(1)
    <3> SUFFICES ASSUME 1 <= n PROVE Has(1)
      OBVIOUS
    <3>1. 1 \in 1..n /\ f[1] = q[1]
      BY <1>1, <2>1 DEF Flattens
    <3> QED
      BY <1>1, <3>1
  <2>4. ASSUME NEW i \in Nat, i + 2 <= n, Has(i + 1) PROVE Has(i + 2)
    <3> DEFINE a == i + 1
               b == i + 2
    <3>1. b \in 1..n /\ b # 1 /\ b - 1 = a /\ a \in 1..n
      <4>1. n \in Nat
        BY <1>1 DEF n
      <4> QED
        BY <2>4, <4>1
    <3>a. a \in Nat /\ b = a + 1
      BY <2>4
    <3>0. Has(a)
      BY <2>4
    <3> HIDE DEF a, b
    <3>2. f[b] = f[a] \o q[b]
      BY <2>1, <3>1 DEF Flattens
    <3>3. f[a] \in Seq(X) /\ q[b] \in Seq(X)
      BY <1>1, <3>0, <3>1
    <3>p. PICK u : u = f[a]
      OBVIOUS
    <3>q. PICK v : v = q[b]
      OBVIOUS
    <3>r. PICK w : w = u \o v
      OBVIOUS
    <3>s. w = f[b] /\ u \in Seq(X) /\ v \in Seq(X)
      BY <3>2, <3>3, <3>p, <3>q, <3>r
    <3>t. w \in Seq(X) /\ Len(w) = Len(u) + Len(v) /\ Len(u) \in Nat /\ Len(v) \in Nat
          /\ (\A m \in 1..Len(u) : w[m] = u[m])
          /\ (\A m \in 1..Len(v) : w[Len(u) + m] = v[m])
      BY <3>s, <3>r, ConcatIs
    <3>4. f[b] \in Seq(X) /\ Len(f[b]) = Len(f[a]) + Len(q[b]) /\ Len(f[a]) \in Nat /\ Len(q[b]) \in Nat
          /\ (\A m \in 1..Len(f[a]) : f[b][m] = f[a][m])
          /\ (\A m \in 1..Len(q[b]) : f[b][Len(f[a]) + m] = q[b][m])
      BY <3>t, <3>s, <3>p, <3>q
    <3>5. ASSUME NEW j \in 1..b, NEW k \in 1..Len(q[j])
          PROVE  \E m \in 1..Len(f[b]) : f[b][m] = q[j][k]
      <4>1. CASE j = b
        <5>1. PICK d : d = Len(f[a])
          OBVIOUS
        <5>2. PICK e : e = Len(q[b])
          OBVIOUS
        <5>3. d \in Nat /\ e \in Nat /\ Len(f[b]) = d + e /\ k \in 1..e
          BY <3>4, <3>5, <4>1, <5>1, <5>2
        <5>4. d + k \in 1..(d + e)
          BY <5>3
        <5>5. f[b][d + k] = q[j][k]
          BY <3>4, <4>1, <5>1, <5>2, <5>3
        <5> QED
          BY <5>3, <5>4, <5>5
      <4>2. CASE j # b
        <5>1. j \in 1..a
          BY <3>a, <4>2
        <5>2. PICK m \in 1..Len(f[a]) : f[a][m] = q[j][k]
          BY <3>0, <3>5, <5>1
        <5>4. PICK d : d = Len(f[a])
          OBVIOUS
        <5>5. PICK e : e = Len(q[b])
          OBVIOUS
        <5>6. d \in Nat /\ e \in Nat /\ Len(f[b]) = d + e /\ m \in 1..d
          BY <3>4, <5>2, <5>4, <5>5
        <5>7. m \in 1..(d + e)
          BY <5>6
        <5>3. m \in 1..Len(f[b]) /\ f[b][m] = f[a][m]
          BY <3>4, <5>2, <5>6, <5>7
        <5> QED
          BY <5>2, <5>3
      <4> QED
        BY <4>1, <4>2
    <3>6. Has(b)
      BY <3>4, <3>5
    <3> HIDE DEF Has
    <3> QED
      BY <3>6 DEF b
  <2> HIDE DEF Has
  <2>5. 0 \in N /\ \A i \in N : i + 1 \in N
    <3>1. \A i \in Nat : i + 1 + 1 = i + 2 /\ (i + 2 <= n => i + 1 <= n)
      BY <1>1 DEF n
    <3> QED
      BY <2>3, <2>4, <3>1
  <2> HIDE DEF N
  <2>6. N = Nat
    BY <2>5, SetInduction DEF N
  <2>7. n - 1 \in Nat /\ n - 1 + 1 = n
    BY <1>1, <1>3 DEF n
  <2>8. Has(n)
    BY <2>6, <2>7 DEF N
  <2> QED
    BY <2>2, <2>8 DEF Has, n
<1> QED
  BY <1>2, <1>3

(* The preconditions of a set of paths, one for each.                       *)
LEMMA EachWant ==
  ASSUME NEW S \in SUBSET Path, IsFiniteSet(S)
  PROVE  /\ Each(S, Want) \in Seq(Observing)
         /\ \A x \in S : \E i \in 1..Len(Each(S, Want)) : Each(S, Want)[i] = Want(x)
<1> DEFINE s == Ordered(S)
           e == [i \in 1..Len(s) |-> Want(s[i])]
<1>1. Arranges(s, S)
  BY OrderedArranges
<1>2. Each(S, Want) = e
  BY DEF Each
<1>3. \A x \in S : Want(x) \in Observing
  BY DEF Observing
<1> HIDE DEF s
<1>4. Len(s) \in Nat /\ \A i \in 1..Len(s) : s[i] \in S
  BY <1>1 DEF Arranges
<1>5. e \in Seq(Observing) /\ Len(e) = Len(s)
  BY <1>3, <1>4
<1> QED
  BY <1>1, <1>2, <1>5 DEF Arranges

(* The preconditions of the paths a subtree is moved to.                    *)
LEMMA EachWantThere ==
  ASSUME NEW S \in SUBSET Path, IsFiniteSet(S), NEW from, NEW to,
         \A x \in S : Rebase(x, from, to) \in Path
  PROVE  LET e == Each(S, LAMBDA x : Want(Rebase(x, from, to))) IN
           /\ e \in Seq(Observing)
           /\ \A x \in S : \E i \in 1..Len(e) : e[i] = Want(Rebase(x, from, to))
<1> DEFINE s == Ordered(S)
           e == [i \in 1..Len(s) |-> Want(Rebase(s[i], from, to))]
<1>1. Arranges(s, S)
  BY OrderedArranges
<1>2. Each(S, LAMBDA x : Want(Rebase(x, from, to))) = e
  BY DEF Each
<1>3. \A x \in S : Want(Rebase(x, from, to)) \in Observing
  BY DEF Observing
<1> HIDE DEF s
<1>4. Len(s) \in Nat /\ \A i \in 1..Len(s) : s[i] \in S
  BY <1>1 DEF Arranges
<1>5. e \in Seq(Observing) /\ Len(e) = Len(s)
  BY <1>3, <1>4
<1>6. ASSUME NEW x \in S PROVE \E i \in 1..Len(e) : e[i] = Want(Rebase(x, from, to))
  <2>1. PICK i \in 1..Len(s) : s[i] = x
    BY <1>1 DEF Arranges
  <2>2. e[i] = Want(Rebase(x, from, to))
    BY <2>1
  <2> HIDE DEF e
  <2> QED
    BY <1>5, <2>1, <2>2
<1> HIDE DEF e
<1> QED
  BY <1>2, <1>5, <1>6

(* remove_tree: a precondition and an effect for each node.                 *)
LEMMA EachWantEmit ==
  ASSUME NEW S \in SUBSET Path, IsFiniteSet(S)
  PROVE  LET e == FlattenSeq(EachBack(S, LAMBDA x : <<Want(x), Emit>>)) IN
           /\ e \in Seq(Observing)
           /\ \A x \in S : \E i \in 1..Len(e) : e[i] = Want(x)
<1> DEFINE s == Ordered(S)
           q == [i \in 1..Len(s) |-> <<Want(s[Len(s) + 1 - i]), Emit>>]
<1>1. Arranges(s, S)
  BY OrderedArranges
<1>2. EachBack(S, LAMBDA x : <<Want(x), Emit>>) = q
  BY DEF EachBack
<1>3. \A x \in S : Want(x) \in Observing /\ Emit \in Observing
  BY DEF Observing
<1> HIDE DEF s
<1>4. Len(s) \in Nat /\ \A i \in 1..Len(s) : s[i] \in S
  BY <1>1 DEF Arranges
<1>5. \A x \in S : <<Want(x), Emit>> \in Seq(Observing) /\ Len(<<Want(x), Emit>>) = 2
  BY <1>3
<1>9. \A i \in 1..Len(s) : Len(s) + 1 - i \in 1..Len(s)
  BY <1>4
<1>6. q \in Seq(Seq(Observing)) /\ Len(q) = Len(s)
  BY <1>4, <1>5, <1>9
<1>7. /\ FlattenSeq(q) \in Seq(Observing)
      /\ \A j \in 1..Len(q) : \A k \in 1..Len(q[j]) :
           \E m \in 1..Len(FlattenSeq(q)) : FlattenSeq(q)[m] = q[j][k]
  <2>1. PICK X : X = Observing
    OBVIOUS
  <2>2. q \in Seq(Seq(X))
    BY <1>6, <2>1
  <2> HIDE DEF q
  <2> QED
    BY <2>1, <2>2, FlattenIs
<1>8. ASSUME NEW x \in S PROVE \E m \in 1..Len(FlattenSeq(q)) : FlattenSeq(q)[m] = Want(x)
  <2>a. PICK k \in 1..Len(s) : s[k] = x
    BY <1>1 DEF Arranges
  <2>b. PICK j \in 1..Len(s) : j = Len(s) + 1 - k
    BY <1>9
  <2>1. Len(s) + 1 - j = k
    BY <1>4, <2>b
  <2>2. q[j] = <<Want(x), Emit>>
    BY <2>a, <2>1
  <2>3. 1 \in 1..Len(q[j]) /\ q[j][1] = Want(x)
    BY <2>2
  <2> HIDE DEF q
  <2>4. j \in 1..Len(q)
    BY <1>6
  <2>5. \E m \in 1..Len(FlattenSeq(q)) : FlattenSeq(q)[m] = q[j][1]
    BY <1>7, <2>3, <2>4
  <2> QED
    BY <2>3, <2>5
<1> QED
  <2> HIDE DEF q
  <2> QED
    BY <1>2, <1>7, <1>8

(* A function on 1..n with values in X is a sequence over X.                *)
LEMMA IsSequence ==
  ASSUME NEW X, NEW n \in Nat, NEW s, s = [i \in 1..n |-> s[i]], \A i \in 1..n : s[i] \in X
  PROVE  s \in Seq(X) /\ Len(s) = n
<1>1. s \in [1..n -> X]
  OBVIOUS
<1> QED
  BY <1>1

(* A sequence over a set is one over any larger set.                        *)
LEMMA SequenceOf ==
  ASSUME NEW X, NEW Y, X \subseteq Y, NEW s \in Seq(X)
  PROVE  s \in Seq(Y)
OBVIOUS

(* The steps of the scripts whose paths and slots are proper ones.           *)
Puts == {Put(p, slot) : p \in Path, slot \in SoundSlot}
Steps == Observing \cup Puts

(* A list of overlay entries, one for each path of a finite set: at[x]      *)
(* becomes slots[x].                                                        *)
Entering(S, at, slots) ==
  [i \in 1..Len(Ordered(S)) |-> Put(at[Ordered(S)[i]], slots[Ordered(S)[i]])]

(* The entries of a whole set of paths, when their preconditions are held.  *)
LEMMA EachPut ==
  ASSUME base \in Bases, NEW s, Sound(s), NEW S \in SUBSET Path, IsFiniteSet(S),
         NEW at, NEW slots,
         \A x \in S : at[x] \in Path /\ slots[x] \in SoundSlot,
         \A x, y \in S : x # y => at[x] # at[y],
         ~s.failed => \A x \in S : at[x] \in s.writes
  PROVE  LET r == Run(s, Entering(S, at, slots)) IN
           /\ Entering(S, at, slots) \in Seq(Steps)
           /\ Sound(r)
           /\ r.failed = s.failed /\ r.writes = s.writes
           /\ s.failed => r = s
           /\ ~s.failed => /\ \A x \in S : TreeOf(r.overlay)[at[x]] = slots[x].node
                           /\ \A y \in Path : (\A x \in S : at[x] # y) =>
                                TreeOf(r.overlay)[y] = TreeOf(s.overlay)[y]
<1> DEFINE l == Ordered(S)
           n == Len(l)
           as == [i \in 1..n |-> at[l[i]]]
           ss == [i \in 1..n |-> slots[l[i]]]
           script == Entering(S, at, slots)
           r == Run(s, script)
<1>1. Arranges(l, S)
  BY OrderedArranges
<1> HIDE DEF l
<1>2. n \in Nat /\ \A i \in 1..n : l[i] \in S
  BY <1>1 DEF Arranges
<1>3. \A i \in 1..n : as[i] = at[l[i]] /\ ss[i] = slots[l[i]]
  OBVIOUS
<1>0. script = [i \in 1..n |-> Put(at[l[i]], slots[l[i]])]
  BY DEF Entering, l
<1> HIDE DEF n, as, ss, script
<1>4. \A i \in 1..n : script[i] = Put(as[i], ss[i]) /\ script[i] \in Puts
  <2> SUFFICES ASSUME NEW i \in 1..n
               PROVE  script[i] = Put(as[i], ss[i]) /\ script[i] \in Puts
    OBVIOUS
  <2>1. script[i] = Put(at[l[i]], slots[l[i]])
    BY <1>0
  <2>2. l[i] \in S /\ as[i] = at[l[i]] /\ ss[i] = slots[l[i]]
    BY <1>2, <1>3
  <2> QED
    BY <2>1, <2>2 DEF Puts
<1>5. script \in Seq(Puts) /\ Len(script) = n
  <2>1. script = [i \in 1..n |-> script[i]]
    BY <1>0
  <2>2. \A i \in 1..n : script[i] \in Puts
    BY <1>4
  <2> QED
    BY <1>2, <2>1, <2>2, IsSequence
<1>6. script \in Seq(Steps)
  <2>1. Puts \subseteq Steps
    BY DEF Steps
  <2> QED
    BY <1>5, <2>1, SequenceOf
<1>7. \A i, j \in 1..n : i # j => as[i] # as[j]
  <2>1. \A i, j \in 1..n : i # j => l[i] # l[j]
    BY <1>1 DEF Arranges, n
  <2> SUFFICES ASSUME NEW i \in 1..n, NEW j \in 1..n, i # j PROVE as[i] # as[j]
    OBVIOUS
  <2>2. l[i] \in S /\ l[j] \in S /\ l[i] # l[j]
    BY <1>2, <2>1
  <2>3. as[i] = at[l[i]] /\ as[j] = at[l[j]]
    BY <1>3
  <2> QED
    BY <2>2, <2>3
<1>8. \A i \in 1..n : ss[i] \in SoundSlot
  BY <1>2, <1>3
<1>9. ~s.failed => \A i \in 1..n : as[i] \in s.writes
  BY <1>2, <1>3
<1>10. /\ Sound(r)
       /\ r.failed = s.failed /\ r.writes = s.writes
       /\ s.failed => r = s
       /\ ~s.failed => Layered(r.overlay, s.overlay, as, ss, n)
  <2> PICK X : X = Puts
    OBVIOUS
  <2>1. script \in Seq(X)
    BY <1>5
  <2> QED
    <3>1. Len(script) = n /\ \A i \in 1..n : script[i] = Put(as[i], ss[i])
      BY <1>4, <1>5
    <3> HIDE DEF r
    <3>2. LET q == Run(s, script) IN
            /\ Sound(q)
            /\ q.failed = s.failed /\ q.writes = s.writes /\ q.reads = s.reads
            /\ s.failed => q = s
            /\ ~s.failed => Layered(q.overlay, s.overlay, as, ss, n)
      BY <1>2, <1>7, <1>8, <1>9, <2>1, <3>1, RunPuts
    <3> QED
      BY <3>2 DEF r
<1> HIDE DEF r
<1>11. ASSUME ~s.failed
       PROVE  /\ \A x \in S : TreeOf(r.overlay)[at[x]] = slots[x].node
              /\ \A y \in Path : (\A x \in S : at[x] # y) =>
                                TreeOf(r.overlay)[y] = TreeOf(s.overlay)[y]
  <2>1. PICK o : o = r.overlay
    OBVIOUS
  <2>2. PICK old : old = s.overlay
    OBVIOUS
  <2>3. /\ DOMAIN o = DOMAIN old \cup {as[i] : i \in 1..n}
        /\ \A i \in 1..n : o[as[i]] = ss[i]
        /\ \A q \in DOMAIN old : (\A i \in 1..n : as[i] # q) => o[q] = old[q]
    BY <1>10, <1>11, <2>1, <2>2 DEF Layered
  <2>4. ASSUME NEW x \in S PROVE TreeOf(o)[at[x]] = slots[x].node
    <3>1. PICK i \in 1..n : l[i] = x
      BY <1>1 DEF Arranges, n
    <3>2. as[i] = at[x] /\ ss[i] = slots[x]
      BY <1>3, <3>1
    <3>3. at[x] \in DOMAIN o /\ o[at[x]] = slots[x]
      BY <2>3, <3>2
    <3> QED
      BY <3>3 DEF TreeOf
  <2>5. ASSUME NEW y \in Path, \A x \in S : at[x] # y
        PROVE  TreeOf(o)[y] = TreeOf(old)[y]
    <3>1. \A i \in 1..n : as[i] # y
      <4> TAKE i \in 1..n
      <4>1. l[i] \in S /\ as[i] = at[l[i]]
        BY <1>2, <1>3
      <4> QED
        BY <2>5, <4>1
    <3>2. y \in DOMAIN o <=> y \in DOMAIN old
      BY <2>3, <3>1
    <3>3. y \in DOMAIN old => o[y] = old[y]
      BY <2>3, <3>1
    <3> QED
      BY <3>2, <3>3 DEF TreeOf
  <2> QED
    BY <2>1, <2>2, <2>4, <2>5
<1> QED
  BY <1>6, <1>10, <1>11 DEF r, script

(* write_tombstone enters no node and no origin.                            *)
LEMMA TombstoneIs == Tombstone \in SoundSlot /\ Tombstone.node = None
BY DEF Tombstone, SoundSlot, FromBase

(* write_tombstone for every node of a subtree.                              *)
LEMMA BuriedRun ==
  ASSUME base \in Bases, NEW s, Sound(s), NEW S \in SUBSET Path, IsFiniteSet(S),
         ~s.failed => S \subseteq s.writes
  PROVE  LET r == Run(s, Buried(S)) IN
           /\ Buried(S) \in Seq(Steps)
           /\ Sound(r)
           /\ r.failed = s.failed /\ r.writes = s.writes
           /\ s.failed => r = s
           /\ ~s.failed => \A y \in Path : TreeOf(r.overlay)[y] =
                             IF y \in S THEN None ELSE TreeOf(s.overlay)[y]
<1> DEFINE at == [x \in S |-> x]
           slots == [x \in S |-> Tombstone]
           l == Ordered(S)
           r == Run(s, Buried(S))
<1>1. Arranges(l, S)
  BY OrderedArranges
<1>2. Buried(S) = [i \in 1..Len(l) |-> Put(l[i], Tombstone)]
  BY DEF Buried, Each
<1> HIDE DEF l
<1>3. \A i \in 1..Len(l) : l[i] \in S
  BY <1>1 DEF Arranges
<1>4. Buried(S) = [i \in 1..Len(l) |-> Put(at[l[i]], slots[l[i]])]
  BY <1>2, <1>3
<1>5. \A x \in S : at[x] = x /\ slots[x] = Tombstone
  OBVIOUS
<1> HIDE DEF at, slots
<1>6. \A x \in S : at[x] \in Path /\ slots[x] \in SoundSlot
  BY <1>5, TombstoneIs
<1>7. \A x, y \in S : x # y => at[x] # at[y]
  BY <1>5
<1>8. ~s.failed => \A x \in S : at[x] \in s.writes
  BY <1>5
<1>9. Buried(S) = Entering(S, at, slots)
  BY <1>4 DEF Entering, l
<1>12. /\ Buried(S) \in Seq(Steps)
       /\ Sound(r)
       /\ r.failed = s.failed /\ r.writes = s.writes
       /\ s.failed => r = s
       /\ ~s.failed => /\ \A x \in S : TreeOf(r.overlay)[at[x]] = slots[x].node
                       /\ \A y \in Path : (\A x \in S : at[x] # y) =>
                            TreeOf(r.overlay)[y] = TreeOf(s.overlay)[y]
  <2> HIDE DEF r
  <2>1. LET q == Run(s, Entering(S, at, slots)) IN
         /\ Entering(S, at, slots) \in Seq(Steps)
         /\ Sound(q)
         /\ q.failed = s.failed /\ q.writes = s.writes
         /\ s.failed => q = s
         /\ ~s.failed => /\ \A x \in S : TreeOf(q.overlay)[at[x]] = slots[x].node
                         /\ \A y \in Path : (\A x \in S : at[x] # y) =>
                              TreeOf(q.overlay)[y] = TreeOf(s.overlay)[y]
    BY <1>6, <1>7, <1>8, EachPut
  <2> QED
    BY <1>9, <2>1 DEF r
<1> HIDE DEF r
<1>13. ~s.failed => \A y \in Path : TreeOf(r.overlay)[y] =
                             IF y \in S THEN None ELSE TreeOf(s.overlay)[y]
  BY <1>5, <1>12, TombstoneIs
<1> QED
  BY <1>12, <1>13 DEF r

(* remove_tree, once its checks have passed: the tree without the subtree.  *)
LEMMA RemoveTreeLeaves ==
  ASSUME IInv, NEW p \in Place
  PROVE  LET nodes == Subtree(Visible, p)
             script == <<See(p)>> \o FlattenSeq(EachBack(nodes, LAMBDA x : <<Want(x), Emit>>))
                         \o Buried(nodes) IN
           Leaves(Run(Now, script), Cleared(TreeOf(overlay), p))
<1> DEFINE nodes == Subtree(Visible, p)
           e == FlattenSeq(EachBack(nodes, LAMBDA x : <<Want(x), Emit>>))
           obs == <<See(p)>> \o e
           a == Run(Now, obs)
           r == Run(a, Buried(nodes))
<1>0. base \in Bases /\ limit \in Nat /\ Sound(Now)
  BY DEF IInv
<1>1. IsFiniteSet(nodes) /\ nodes \in SUBSET Path
  BY <1>0, NowIs, VisibleSubtree
<1> HIDE DEF nodes
<1>2. e \in Seq(Observing) /\ \A x \in nodes : \E i \in 1..Len(e) : e[i] = Want(x)
  BY <1>1, EachWantEmit
<1> HIDE DEF e
<1>3. See(p) \in Observing
  BY DEF Observing
<1>4. obs \in Seq(Observing) /\ \A x \in nodes : \E i \in 1..Len(obs) : obs[i] = Want(x)
  <2>1. PICK u : u = <<See(p)>>
    OBVIOUS
  <2>2. u \in Seq(Observing)
    BY <1>3, <2>1
  <2>3. obs = u \o e
    BY <2>1
  <2> HIDE DEF obs
  <2>4. /\ obs \in Seq(Observing) /\ Len(obs) = Len(u) + Len(e)
        /\ Len(u) \in Nat /\ Len(e) \in Nat
        /\ \A m \in 1..Len(e) : obs[Len(u) + m] = e[m]
    BY <1>2, <2>2, <2>3, ConcatIs
  <2>5. ASSUME NEW x \in nodes PROVE \E i \in 1..Len(obs) : obs[i] = Want(x)
    <3>1. PICK m \in 1..Len(e) : e[m] = Want(x)
      BY <1>2
    <3>2. PICK i : i = Len(u) + m
      OBVIOUS
    <3>3. i \in 1..Len(obs)
      BY <2>4, <3>2
    <3> QED
      BY <2>4, <3>1, <3>2, <3>3
  <2> QED
    BY <2>4, <2>5
<1> HIDE DEF obs
<1>5. /\ Observes(Now, a)
      /\ a.failed \/ \A i \in 1..Len(obs) : \A x \in Path : obs[i] = Want(x) => x \in a.writes
  BY <1>0, <1>4, RunObserves
<1> HIDE DEF a
<1>6. ~a.failed => nodes \subseteq a.writes
  BY <1>1, <1>4, <1>5
<1>7. Sound(a) /\ a.overlay = Now.overlay /\ Now.writes \subseteq a.writes /\ (Now.failed => a = Now)
  BY <1>5 DEF Observes
<1>8. /\ Buried(nodes) \in Seq(Steps)
      /\ Sound(r)
      /\ r.failed = a.failed /\ r.writes = a.writes
      /\ a.failed => r = a
      /\ ~a.failed => \A y \in Path : TreeOf(r.overlay)[y] =
                             IF y \in nodes THEN None ELSE TreeOf(a.overlay)[y]
  BY <1>0, <1>1, <1>6, <1>7, BuriedRun
<1>9. r = Run(Now, obs \o Buried(nodes))
  <2>1. obs \in Seq(Steps)
    BY <1>4 DEF Steps
  <2>2. Run(Run(Now, obs), Buried(nodes)) = Run(Now, obs \o Buried(nodes))
    BY <1>8, <2>1, RunConcat
  <2> QED
    BY <2>2 DEF a
<1> HIDE DEF r
<1>10. ASSUME ~r.failed PROVE TreeOf(r.overlay) = Cleared(TreeOf(overlay), p)
  <2>1. ~failed /\ ~Now.failed /\ Now.overlay = overlay
    BY <1>0, <1>7, <1>8, <1>10, NowIs
  <2>2. Visible = TreeOf(overlay)
    BY <1>0, <2>1, NowIs, VisibleIs DEF IInv
  <2>3. \A y \in Path : TreeOf(r.overlay)[y] = IF y \in nodes THEN None ELSE TreeOf(overlay)[y]
    BY <1>7, <1>8, <1>10, <2>1
  <2>4. \A y \in Path : y \in nodes <=> y \in Below(p) /\ TreeOf(overlay)[y] # None
    BY <2>2 DEF nodes, Subtree, Below
  <2>5. \A y \in Path : TreeOf(r.overlay)[y] = IF y \in Below(p) THEN None ELSE TreeOf(overlay)[y]
    BY <2>3, <2>4
  <2>6. TreeOf(r.overlay) = [y \in Path |-> TreeOf(r.overlay)[y]]
    BY DEF TreeOf
  <2> QED
    BY <2>5, <2>6 DEF Cleared
<1>11. Leaves(r, Cleared(TreeOf(overlay), p))
  BY <1>7, <1>8, <1>10 DEF Leaves
<1> QED
  BY <1>9, <1>11 DEF obs, e, nodes

-----------------------------------------------------------------------------
(* VPath::rebase carries what is below one path to what is below another    *)
(* and back.                                                                *)
LEMMA RebaseIs ==
  ASSUME NEW from \in Path, NEW to \in Path, NEW x \in Below(from)
  PROVE  LET y == Rebase(x, from, to) IN
           /\ y \in Seq(Name) /\ Len(y) = Len(to) + (Len(x) - Len(from))
           /\ \A i \in 1..Len(to) : y[i] = to[i]
           /\ \A i \in 1..(Len(x) - Len(from)) : y[Len(to) + i] = x[Len(from) + i]
           /\ Len(x) >= Len(from)
<1>1. x \in Seq(Name) /\ from \in Seq(Name) /\ to \in Seq(Name) /\ Len(x) >= Len(from)
      /\ Len(x) \in Nat /\ Len(from) \in Nat /\ Len(to) \in Nat
  BY PlaceIsSequence, PrefixIs DEF Below
<1>2. PICK m : m = Len(from)
  OBVIOUS
<1>3. PICK n : n = Len(x)
  OBVIOUS
<1>4. m \in Nat /\ n \in Nat /\ m <= n
  BY <1>1, <1>2, <1>3
<1>5. PICK tail : tail = SubSeq(x, m + 1, n)
  OBVIOUS
<1>6. tail \in Seq(Name) /\ Len(tail) = n - m /\ \A i \in 1..(n - m) : tail[i] = x[m + i]
  <2>1. \A i \in 1..n : x[i] \in Name
    BY <1>1, <1>3
  <2>2. tail = [i \in 1..(n - m) |-> x[m + i]]
    BY <1>4, <1>5
  <2>3. \A i \in 1..(n - m) : m + i \in 1..n
    BY <1>4
  <2>4. \A i \in 1..(n - m) : tail[i] = x[m + i] /\ tail[i] \in Name
    BY <2>1, <2>2, <2>3
  <2>5. n - m \in Nat
    BY <1>4
  <2>6. tail = [i \in 1..(n - m) |-> tail[i]]
    BY <2>2
  <2> QED
    BY <2>4, <2>5, <2>6, IsSequence
<1>7. Rebase(x, from, to) = to \o tail
  BY <1>2, <1>3, <1>5 DEF Rebase
<1>8. /\ to \o tail \in Seq(Name) /\ Len(to \o tail) = Len(to) + Len(tail)
      /\ \A i \in 1..Len(to) : (to \o tail)[i] = to[i]
      /\ \A i \in 1..Len(tail) : (to \o tail)[Len(to) + i] = tail[i]
  <2>1. to \in Seq(Name) /\ tail \in Seq(Name)
    BY <1>1, <1>6
  <2>2. PICK X : X = Name
    OBVIOUS
  <2>3. to \in Seq(X) /\ tail \in Seq(X)
    BY <2>1, <2>2
  <2>4. /\ to \o tail \in Seq(X) /\ Len(to \o tail) = Len(to) + Len(tail)
        /\ \A i \in 1..Len(to) : (to \o tail)[i] = to[i]
        /\ \A i \in 1..Len(tail) : (to \o tail)[Len(to) + i] = tail[i]
    BY <2>3, ConcatIs
  <2> QED
    BY <2>2, <2>4
<1> QED
  BY <1>1, <1>2, <1>3, <1>6, <1>7, <1>8

(* Sequences of one length with the same elements are equal.                *)
LEMMA SameSequence ==
  ASSUME NEW X, NEW s \in Seq(X), NEW t \in Seq(X), Len(s) = Len(t),
         \A i \in 1..Len(s) : s[i] = t[i]
  PROVE  s = t
OBVIOUS

(* Rebasing there and back is no change.                                    *)
LEMMA RebaseBack ==
  ASSUME NEW from \in Path, NEW to \in Path, NEW x \in Below(from),
         Rebase(x, from, to) \in Path
  PROVE  /\ Rebase(x, from, to) \in Below(to)
         /\ Rebase(Rebase(x, from, to), to, from) = x
<1>1. PICK y : y = Rebase(x, from, to)
  OBVIOUS
<1>2. PICK m : m = Len(from)
  OBVIOUS
<1>3. PICK k : k = Len(to)
  OBVIOUS
<1>4. PICK n : n = Len(x)
  OBVIOUS
<1>5. /\ y \in Path /\ x \in Path /\ x \in Seq(Name)
      /\ m \in Nat /\ k \in Nat /\ n \in Nat
  BY <1>1, <1>2, <1>3, <1>4, PlaceIsSequence DEF Below
<1>6. /\ Len(y) = k + (n - m) /\ m <= n
      /\ \A i \in 1..k : y[i] = to[i]
      /\ \A i \in 1..(n - m) : y[k + i] = x[m + i]
  BY <1>1, <1>2, <1>3, <1>4, RebaseIs
<1>7. y \in Below(to)
  <2>1. k <= Len(y)
    BY <1>5, <1>6
  <2> QED
    BY <1>3, <1>5, <1>6, <2>1, PlaceIsSequence, PrefixIs DEF Below
<1>8. PICK z : z = Rebase(y, to, from)
  OBVIOUS
<1>9. /\ z \in Seq(Name) /\ Len(z) = m + (Len(y) - k)
      /\ \A i \in 1..m : z[i] = from[i]
      /\ \A i \in 1..(Len(y) - k) : z[m + i] = y[k + i]
  BY <1>2, <1>3, <1>7, <1>8, RebaseIs
<1>10. Len(y) - k = n - m /\ Len(z) = n
  BY <1>5, <1>6, <1>9
<1>11. \A i \in 1..m : x[i] = from[i]
  BY <1>2, <1>5, PlaceIsSequence, PrefixIs DEF Below
<1>12. ASSUME NEW i \in 1..n PROVE z[i] = x[i]
  <2>1. CASE i <= m
    BY <1>5, <1>9, <1>11, <2>1
  <2>2. CASE i > m
    <3>1. PICK j : j = i - m
      OBVIOUS
    <3>2. j \in 1..(n - m) /\ i = m + j
      BY <1>5, <2>2, <3>1
    <3> QED
      BY <1>6, <1>9, <1>10, <3>2
  <2> QED
    BY <1>5, <2>1, <2>2
<1>13. z = x
  BY <1>4, <1>5, <1>9, <1>10, <1>12, SameSequence
<1> QED
  BY <1>1, <1>7, <1>8, <1>13

(* The move of a subtree: from the tree with the subtree and the old        *)
(* destination gone to the tree the rename asks for.                        *)
LEMMA MovedIs ==
  ASSUME NEW t \in Tree, Rooted(t), NEW from \in Path, NEW to \in Path, from # to,
         RenameFault(t, from, to) = "Ok",
         \A x \in Subtree(t, from) : Rebase(x, from, to) \in Path,
         NEW u \in Tree,
         \A x \in Subtree(t, from) : u[Rebase(x, from, to)] = t[x],
         \A y \in Path : (\A x \in Subtree(t, from) : Rebase(x, from, to) # y) =>
            u[y] = IF y \in Subtree(t, from) \/ y = to THEN None ELSE t[y]
  PROVE  u = Moved(t, from, to)
<1>1. /\ ~IsPrefix(from, to) /\ ~IsPrefix(to, from)
      /\ Kind(t, to) = "none" \/ Kind(t, to) # "dir" \/ Children(t, to) = {}
  BY DEF RenameFault
<1>2. from \in Place /\ to \in Place /\ to \in Below(to) /\ from \in Below(from)
  BY PlaceIsSequence, PrefixSelf DEF Below
<1>3. \A y \in Below(to) : y # to => t[y] = None
  <2> SUFFICES ASSUME NEW y \in Below(to), y # to, t[y] # None PROVE FALSE
    OBVIOUS
  <2>1. y \in Path /\ IsStrictPrefix(to, y)
    BY DEF Below, IsStrictPrefix
  <2>2. Kind(t, to) = "dir" /\ Children(t, to) # {}
    BY <1>2, <2>1, AncestorsAreDirectories
  <2> QED
    BY <1>1, <2>2
<1>4. ASSUME NEW y \in Path PROVE u[y] = Moved(t, from, to)[y]
  <2>1. CASE y \in Below(to)
    <3>1. PICK z : z = Rebase(y, to, from)
      OBVIOUS
    <3>2. Moved(t, from, to)[y] = IF z \in Path THEN t[z] ELSE None
      BY <2>1, <3>1 DEF Moved
    <3>3. CASE \E x \in Subtree(t, from) : Rebase(x, from, to) = y
      <4>1. PICK x \in Subtree(t, from) : Rebase(x, from, to) = y
        BY <3>3
      <4>2. x \in Below(from) /\ x \in Path
        BY DEF Subtree, Below
      <4>3. z = x
        BY <3>1, <4>1, <4>2, RebaseBack
      <4> QED
        BY <3>2, <4>1, <4>2, <4>3
    <3>4. CASE \A x \in Subtree(t, from) : Rebase(x, from, to) # y
      <4>1. u[y] = None
        BY <1>3, <2>1, <3>4
      <4>2. z \in Path => z \in Below(from) /\ Rebase(z, from, to) = y
        BY <2>1, <3>1, RebaseBack
      <4>3. z \in Path => t[z] = None
        BY <3>4, <4>2 DEF Subtree
      <4> QED
        BY <3>2, <4>1, <4>3
    <3> QED
      BY <3>3, <3>4
  <2>2. CASE y \notin Below(to)
    <3>1. \A x \in Subtree(t, from) : Rebase(x, from, to) # y
      <4> TAKE x \in Subtree(t, from)
      <4>1. x \in Below(from) /\ Rebase(x, from, to) \in Path
        BY DEF Subtree
      <4> QED
        BY <2>2, <4>1, RebaseBack
    <3>2. u[y] = IF y \in Subtree(t, from) THEN None ELSE t[y]
      BY <1>2, <2>2, <3>1
    <3>3. Moved(t, from, to)[y] = IF y \in Below(from) THEN None ELSE t[y]
      BY <2>2 DEF Moved
    <3> QED
      BY <3>2, <3>3 DEF Subtree
  <2> QED
    BY <2>1, <2>2
<1>5. u = [y \in Path |-> u[y]] /\ Moved(t, from, to) = [y \in Path |-> Moved(t, from, to)[y]]
  BY DEF Tree, Moved
<1> QED
  BY <1>4, <1>5

(* What a part of a script leaves of a state: sound evidence, never less of *)
(* it, and nothing at all once the budget has run out.                      *)
Goes(s, r) ==
  /\ Sound(r)
  /\ s.writes \subseteq r.writes
  /\ s.failed => r = s

(* Two parts of a script in a row.                                          *)
LEMMA GoesTransitive ==
  ASSUME NEW s, NEW r, NEW t, Goes(s, r), Goes(r, t)
  PROVE  Goes(s, t) /\ (~t.failed => ~r.failed)
<1>1. CASE s.failed
  BY <1>1 DEF Goes
<1>2. CASE ~s.failed
  BY <1>2 DEF Goes
<1> QED
  BY <1>1, <1>2

(* The old destination is written off.                                      *)
LEMMA WrittenOff ==
  ASSUME base \in Bases, NEW s, Sound(s), limit \in Nat, NEW o \in Seq(Observing), NEW p \in Path
  PROVE  LET w == <<Want(p), Put(p, Tombstone)>>
             r == Run(s, o \o w) IN
           /\ o \o w \in Seq(Steps)
           /\ Goes(s, r)
           /\ ~r.failed => TreeOf(r.overlay) = [TreeOf(s.overlay) EXCEPT ![p] = None]
<1> DEFINE w == <<Want(p), Put(p, Tombstone)>>
           u == <<Want(p)>>
           v == <<Put(p, Tombstone)>>
           a == Run(s, o)
           b == Step(a, Want(p))
           c == Step(b, Put(p, Tombstone))
<1>1. Want(p) \in Observing /\ Put(p, Tombstone) \in Puts
  BY TombstoneIs DEF Observing, Puts
<1>2. Observing \subseteq Steps /\ Want(p) \in Steps /\ Put(p, Tombstone) \in Steps
  BY <1>1 DEF Steps
<1>3. o \in Seq(Steps) /\ u \in Seq(Steps) /\ v \in Seq(Steps) /\ w \in Seq(Steps) /\ w = u \o v
      /\ o \o w \in Seq(Steps)
  <2>1. o \in Seq(Steps)
    BY <1>2, SequenceOf
  <2>2. u \in Seq(Steps) /\ v \in Seq(Steps) /\ w \in Seq(Steps) /\ w = u \o v
    BY <1>2
  <2> HIDE DEF u, v, w
  <2>3. o \o w \in Seq(Steps)
    BY <2>1, <2>2, ConcatIs
  <2> QED
    BY <2>1, <2>2, <2>3
<1>4. Run(s, o \o w) = c
  <2>1. Run(a, u) = b /\ Run(b, v) = c
    BY RunOne
  <2> HIDE DEF u, v, w, a, b, c
  <2>o. o \in Seq(Steps)
    BY <1>3
  <2>w. w \in Seq(Steps)
    BY <1>3
  <2>2. Run(Run(s, o), w) = Run(s, o \o w)
    BY <2>o, <2>w, RunConcat
  <2>3. Run(Run(a, u), v) = Run(a, u \o v)
    BY <1>3, RunConcat
  <2> QED
    BY <1>3, <2>1, <2>2, <2>3 DEF a
<1> HIDE DEF u, v, w
<1>5. Observes(s, a)
  BY RunObserves
<1>6. Sound(a) /\ a.overlay = s.overlay /\ Goes(s, a)
  BY <1>5 DEF Observes, Goes
<1> HIDE DEF a
<1>7. Observes(a, b) /\ (b.failed \/ p \in b.writes)
  BY <1>1, <1>6, StepObserves
<1>8. Sound(b) /\ b.overlay = s.overlay /\ Goes(a, b)
  BY <1>6, <1>7 DEF Observes, Goes
<1> HIDE DEF b
<1>9. Goes(b, c) /\ (~c.failed => c.overlay = Overlaid(s.overlay, p, Tombstone))
  <2>1. CASE b.failed
    <3>1. c = b
      BY <2>1, StepStopped
    <3> HIDE DEF c
    <3> QED
      BY <1>8, <2>1, <3>1 DEF Goes
  <2>2. CASE ~b.failed
    <3>1. Sound(c) /\ ~c.failed /\ c.overlay = Overlaid(b.overlay, p, Tombstone) /\ c.writes = b.writes
      BY <1>7, <1>8, <2>2, TombstoneIs, PutSound
    <3> HIDE DEF c
    <3> QED
      BY <1>8, <2>2, <3>1 DEF Goes
  <2> QED
    BY <2>1, <2>2
<1> HIDE DEF c
<1>10. Goes(s, c)
  BY <1>6, <1>8, <1>9, GoesTransitive
<1>11. TreeOf(Overlaid(s.overlay, p, Tombstone)) = [TreeOf(s.overlay) EXCEPT ![p] = None]
  <2>1. s.overlay \in Overlays
    BY DEF Sound, Scribe
  <2>2. DOMAIN s.overlay \subseteq Path
    BY <2>1, OverlayIs
  <2>3. PICK old : old = s.overlay
    OBVIOUS
  <2>4. TreeOf(Overlaid(old, p, Tombstone)) = [TreeOf(old) EXCEPT ![p] = Tombstone.node]
    BY <2>2, <2>3, PutTree
  <2> QED
    BY <2>3, <2>4, TombstoneIs
<1> QED
  BY <1>3, <1>4, <1>9, <1>10, <1>11 DEF w

(* A part of a script that records.                                         *)
LEMMA RecordingRun ==
  ASSUME NEW s, Sound(s), limit \in Nat, NEW o \in Seq(Observing)
  PROVE  LET r == Run(s, o) IN
           /\ o \in Seq(Steps)
           /\ Goes(s, r) /\ r.overlay = s.overlay
           /\ ~r.failed => \A i \in 1..Len(o) : \A p \in Path : o[i] = Want(p) => p \in r.writes
<1>1. /\ Observes(s, Run(s, o))
      /\ Run(s, o).failed \/ \A i \in 1..Len(o) : \A p \in Path :
                                        o[i] = Want(p) => p \in Run(s, o).writes
  BY RunObserves
<1>2. Observing \subseteq Steps
  BY DEF Steps
<1>3. o \in Seq(Steps)
  BY <1>2, SequenceOf
<1> QED
  BY <1>1, <1>3 DEF Observes, Goes

(* A script after a script, with the steps the operations use.              *)
LEMMA RunThen ==
  ASSUME NEW s, NEW p \in Seq(Steps), NEW q \in Seq(Steps)
  PROVE  Run(s, p \o q) = Run(Run(s, p), q) /\ p \o q \in Seq(Steps)
<1> PICK X : X = Steps
  OBVIOUS
<1>1. p \in Seq(X)
  OBVIOUS
<1>2. q \in Seq(X)
  OBVIOUS
<1>3. Run(Run(s, p), q) = Run(s, p \o q)
  BY <1>1, <1>2, RunConcat
<1>4. p \o q \in Seq(X)
  BY <1>1, <1>2, ConcatIs
<1> QED
  BY <1>3, <1>4

Wants(S) == Each(S, Want)
WantsThere(S, from, to) == Each(S, LAMBDA x : Want(Rebase(x, from, to)))

(* The four lists of a rename, in the code's order: the preconditions of    *)
(* the old paths and of the new ones, the tombstones, the nodes.            *)
LEMMA MoveRun ==
  ASSUME base \in Bases, limit \in Nat, NEW s, Sound(s), NEW from \in Path, NEW to \in Path,
         NEW S \in SUBSET Path, IsFiniteSet(S), S \subseteq Below(from),
         \A x \in S : Rebase(x, from, to) \in Path,
         NEW at, NEW slots,
         \A x \in S : at[x] = Rebase(x, from, to) /\ slots[x] \in SoundSlot
  PROVE  LET wants == Wants(S)
             theres == WantsThere(S, from, to)
             r == Run(Run(Run(Run(s, wants), theres), Buried(S)), Entering(S, at, slots)) IN
           /\ wants \in Seq(Steps) /\ theres \in Seq(Steps) /\ Buried(S) \in Seq(Steps)
           /\ Entering(S, at, slots) \in Seq(Steps)
           /\ Goes(s, r)
           /\ ~r.failed =>
                /\ \A x \in S : TreeOf(r.overlay)[at[x]] = slots[x].node
                /\ \A y \in Path : (\A x \in S : at[x] # y) =>
                     TreeOf(r.overlay)[y] = IF y \in S THEN None ELSE TreeOf(s.overlay)[y]
<1> DEFINE wants == Wants(S)
           theres == WantsThere(S, from, to)
           moves == Entering(S, at, slots)
           a == Run(s, wants)
           b == Run(a, theres)
           c == Run(b, Buried(S))
           d == Run(c, moves)
<1>1. /\ wants \in Seq(Observing)
      /\ \A x \in S : \E i \in 1..Len(wants) : wants[i] = Want(x)
  BY EachWant DEF Wants
<1>2. /\ theres \in Seq(Observing)
      /\ \A x \in S : \E i \in 1..Len(theres) : theres[i] = Want(Rebase(x, from, to))
  BY EachWantThere DEF WantsThere
<1> HIDE DEF wants, theres, moves
<1>3. /\ wants \in Seq(Steps)
      /\ Goes(s, a) /\ a.overlay = s.overlay
      /\ ~a.failed => \A i \in 1..Len(wants) : \A p \in Path : wants[i] = Want(p) => p \in a.writes
  BY <1>1, RecordingRun
<1> HIDE DEF a
<1>4. Sound(a) /\ (~a.failed => S \subseteq a.writes)
  BY <1>1, <1>3 DEF Goes
<1>5. /\ theres \in Seq(Steps)
      /\ Goes(a, b) /\ b.overlay = a.overlay
      /\ ~b.failed => \A i \in 1..Len(theres) : \A p \in Path : theres[i] = Want(p) => p \in b.writes
  BY <1>2, <1>4, RecordingRun
<1> HIDE DEF b
<1>6. ~b.failed => ~a.failed
  BY <1>3, <1>5, GoesTransitive
<1>7. Sound(b) /\ (~b.failed => S \subseteq b.writes /\ \A x \in S : at[x] \in b.writes)
  <2>1. ASSUME ~b.failed, NEW x \in S PROVE x \in b.writes /\ at[x] \in b.writes
    <3>1. x \in a.writes /\ a.writes \subseteq b.writes
      BY <1>4, <1>5, <1>6, <2>1 DEF Goes
    <3>2. PICK i \in 1..Len(theres) : theres[i] = Want(Rebase(x, from, to))
      BY <1>2
    <3>3. at[x] \in Path /\ theres[i] = Want(at[x])
      BY <3>2
    <3> QED
      BY <1>5, <2>1, <3>1, <3>2, <3>3
  <2> QED
    BY <1>5, <2>1 DEF Goes
<1>8. /\ Buried(S) \in Seq(Steps)
      /\ Sound(c)
      /\ c.failed = b.failed /\ c.writes = b.writes
      /\ b.failed => c = b
      /\ ~b.failed => \A y \in Path : TreeOf(c.overlay)[y] =
                             IF y \in S THEN None ELSE TreeOf(b.overlay)[y]
  BY <1>7, BuriedRun
<1> HIDE DEF c
<1>9. \A x \in S : at[x] \in Path /\ slots[x] \in SoundSlot
  OBVIOUS
<1>10. \A x, y \in S : x # y => at[x] # at[y]
  <2> SUFFICES ASSUME NEW x \in S, NEW y \in S, at[x] = at[y] PROVE x = y
    OBVIOUS
  <2>1. x \in Below(from) /\ y \in Below(from) /\ at[x] = Rebase(x, from, to)
        /\ at[y] = Rebase(y, from, to) /\ at[x] \in Path /\ at[y] \in Path
    OBVIOUS
  <2>2. Rebase(at[x], to, from) = x /\ Rebase(at[y], to, from) = y
    <3>1. Rebase(Rebase(x, from, to), to, from) = x
      BY <2>1, RebaseBack
    <3>2. Rebase(Rebase(y, from, to), to, from) = y
      BY <2>1, RebaseBack
    <3> QED
      BY <2>1, <3>1, <3>2, Zenon
  <2> QED
    BY <2>2
<1>11. ~c.failed => \A x \in S : at[x] \in c.writes
  BY <1>7, <1>8
<1>12. /\ moves \in Seq(Steps)
       /\ Sound(d)
       /\ d.failed = c.failed /\ d.writes = c.writes
       /\ c.failed => d = c
       /\ ~c.failed => /\ \A x \in S : TreeOf(d.overlay)[at[x]] = slots[x].node
                       /\ \A y \in Path : (\A x \in S : at[x] # y) =>
                            TreeOf(d.overlay)[y] = TreeOf(c.overlay)[y]
  BY <1>8, <1>9, <1>10, <1>11, EachPut DEF moves
<1> HIDE DEF d
<1>13. Goes(b, c) /\ Goes(c, d)
  BY <1>8, <1>12 DEF Goes
<1>14. Goes(s, d)
  <2>1. Goes(s, b)
    BY <1>3, <1>5, GoesTransitive
  <2>2. Goes(s, c)
    BY <1>13, <2>1, GoesTransitive
  <2> QED
    BY <1>13, <2>2, GoesTransitive
<1>15. ASSUME ~d.failed
       PROVE  /\ \A x \in S : TreeOf(d.overlay)[at[x]] = slots[x].node
              /\ \A y \in Path : (\A x \in S : at[x] # y) =>
                   TreeOf(d.overlay)[y] = IF y \in S THEN None ELSE TreeOf(s.overlay)[y]
  BY <1>3, <1>5, <1>8, <1>12, <1>15
<1> QED
  BY <1>3, <1>5, <1>8, <1>12, <1>14, <1>15 DEF a, b, c, d, wants, theres, moves

(* rename, once its checks have passed: the tree with the subtree moved.    *)
LEMMA RenameLeaves ==
  ASSUME IInv, NEW from \in Path, NEW to \in Path, from # to,
         RenameFault(Visible, from, to) = "Ok",
         \A x \in Subtree(Visible, from) : Rebase(x, from, to) \in Path
  PROVE  Leaves(Run(Now, RenameScript(from, to)), Moved(TreeOf(overlay), from, to))
<1> DEFINE S == Subtree(Visible, from)
           none == Kind(Visible, to) = "none"
           o1 == <<See(from), See(to), See(Front(to))>>
           pair == <<Want(to), Put(to, Tombstone)>>
           dest == IF none THEN <<>> ELSE pair
           s1 == o1 \o dest
           wants == Wants(S)
           theres == WantsThere(S, from, to)
           buried == Buried(S)
           at == [x \in S |-> Rebase(x, from, to)]
           slots == [x \in S |-> Resolve(overlay, x)]
           moves == Entering(S, at, slots)
           last == <<Emit>>
           a == Run(Now, s1)
           b == Run(Run(Run(Run(a, wants), theres), buried), moves)
           c == Run(b, last)
<1>0. base \in Bases /\ limit \in Nat /\ Sound(Now) /\ overlay \in Overlays
  BY NowIs DEF IInv
<1>1. IsFiniteSet(S) /\ S \in SUBSET Path /\ S \subseteq Below(from)
  <2>1. from \in Place /\ IsFiniteSet(DOMAIN overlay)
    BY <1>0, NowIs, PlaceIsSequence
  <2> QED
    BY <1>0, <2>1, VisibleSubtree DEF Subtree
<1>2. \A x \in S : Rebase(x, from, to) \in Path /\ Resolve(overlay, x) \in SoundSlot
                   /\ Resolve(overlay, x).node = Visible[x]
  BY <1>0, <1>1, VisibleTyped DEF Subtree
<1>3. RenameScript(from, to) = s1 \o wants \o theres \o buried \o moves \o last
  <2>1. moves = Each(S, LAMBDA x : Put(Rebase(x, from, to), Resolve(overlay, x)))
    <3> DEFINE l == Ordered(S)
    <3>1. Arranges(l, S)
      BY <1>1, OrderedArranges
    <3>2. moves = [i \in 1..Len(l) |-> Put(at[l[i]], slots[l[i]])]
      BY DEF Entering
    <3>3. Each(S, LAMBDA x : Put(Rebase(x, from, to), Resolve(overlay, x)))
            = [i \in 1..Len(l) |-> Put(Rebase(l[i], from, to), Resolve(overlay, l[i]))]
      BY DEF Each
    <3> HIDE DEF l, moves
    <3>4. \A i \in 1..Len(l) : l[i] \in S
      BY <3>1 DEF Arranges
    <3>5. \A i \in 1..Len(l) : at[l[i]] = Rebase(l[i], from, to) /\ slots[l[i]] = Resolve(overlay, l[i])
      BY <3>4
    <3> HIDE DEF at, slots
    <3> QED
      BY <3>2, <3>3, <3>5
  <2> HIDE DEF moves
  <2> QED
    BY <2>1 DEF RenameScript, Wants, WantsThere
<1>4. \A x \in S : at[x] = Rebase(x, from, to) /\ slots[x] \in SoundSlot
                   /\ slots[x].node = Visible[x]
  BY <1>2
<1> HIDE DEF S, at, slots, moves, wants, theres, buried
<1>5. /\ s1 \in Seq(Steps)
      /\ Goes(Now, a)
      /\ ~a.failed => /\ ~failed
                      /\ \A y \in Path : TreeOf(a.overlay)[y] =
                           IF y = to /\ ~none THEN None ELSE TreeOf(overlay)[y]
  <2>1. See(from) \in Observing /\ See(to) \in Observing /\ See(Front(to)) \in Observing
    BY FrontIs, PlaceIsSequence DEF Observing
  <2>2. o1 \in Seq(Observing)
    BY <2>1
  <2>o. Now.overlay = overlay /\ Now.failed = failed
    BY <1>0, NowIs
  <2> HIDE DEF o1
  <2>3. CASE none
    <3>1. s1 = o1
      <4>1. dest = <<>>
        BY <2>3
      <4>2. o1 \o <<>> = o1
        BY <2>2
      <4> QED
        BY <4>1, <4>2
    <3> HIDE DEF s1
    <3>2. LET r == Run(Now, o1) IN
           /\ o1 \in Seq(Steps)
           /\ Goes(Now, r) /\ r.overlay = Now.overlay
           /\ ~r.failed => \A i \in 1..Len(o1) : \A p \in Path : o1[i] = Want(p) => p \in r.writes
      BY <1>0, <2>2, RecordingRun
    <3>3. o1 \in Seq(Steps) /\ Goes(Now, a) /\ a.overlay = overlay
      BY <2>o, <3>1, <3>2
    <3> HIDE DEF a
    <3>4. ~a.failed => ~failed
      BY <2>o, <3>3 DEF Goes
    <3> QED
      BY <2>3, <3>1, <3>3, <3>4
  <2>4. CASE ~none
    <3>1. s1 = o1 \o <<Want(to), Put(to, Tombstone)>>
      BY <2>4
    <3>2. LET w == <<Want(to), Put(to, Tombstone)>>
              r == Run(Now, o1 \o w) IN
           /\ o1 \o w \in Seq(Steps)
           /\ Goes(Now, r)
           /\ ~r.failed => TreeOf(r.overlay) = [TreeOf(Now.overlay) EXCEPT ![to] = None]
      BY <1>0, <2>2, WrittenOff
    <3> HIDE DEF s1
    <3>3. /\ s1 \in Seq(Steps) /\ Goes(Now, a)
          /\ ~a.failed => TreeOf(a.overlay) = [TreeOf(overlay) EXCEPT ![to] = None]
      BY <2>o, <3>1, <3>2
    <3> HIDE DEF a
    <3>4. ~a.failed => ~failed
      BY <2>o, <3>3 DEF Goes
    <3>5. DOMAIN TreeOf(overlay) = Path
      BY DEF TreeOf
    <3> QED
      BY <2>4, <3>3, <3>4, <3>5
  <2> QED
    BY <2>3, <2>4
<1> HIDE DEF s1, a
<1>6. /\ wants \in Seq(Steps) /\ theres \in Seq(Steps) /\ buried \in Seq(Steps)
      /\ moves \in Seq(Steps)
      /\ Goes(a, b)
      /\ ~b.failed =>
           /\ \A x \in S : TreeOf(b.overlay)[at[x]] = slots[x].node
           /\ \A y \in Path : (\A x \in S : at[x] # y) =>
                TreeOf(b.overlay)[y] = IF y \in S THEN None ELSE TreeOf(a.overlay)[y]
  <2>1. Sound(a)
    BY <1>5 DEF Goes
  <2>2. \A x \in S : Rebase(x, from, to) \in Path
    BY <1>2
  <2>3. \A x \in S : at[x] = Rebase(x, from, to) /\ slots[x] \in SoundSlot
    BY <1>4
  <2> QED
    <3> HIDE DEF a, b
    <3>1. PICK q : q = a
      OBVIOUS
    <3>2. Sound(q)
      BY <2>1, <3>1
    <3>3. LET wan == Wants(S)
              ther == WantsThere(S, from, to)
              r == Run(Run(Run(Run(q, wan), ther), Buried(S)), Entering(S, at, slots)) IN
           /\ wan \in Seq(Steps) /\ ther \in Seq(Steps) /\ Buried(S) \in Seq(Steps)
           /\ Entering(S, at, slots) \in Seq(Steps)
           /\ Goes(q, r)
           /\ ~r.failed =>
                /\ \A x \in S : TreeOf(r.overlay)[at[x]] = slots[x].node
                /\ \A y \in Path : (\A x \in S : at[x] # y) =>
                     TreeOf(r.overlay)[y] = IF y \in S THEN None ELSE TreeOf(q.overlay)[y]
      <4>1. IsFiniteSet(S)
        BY <1>1
      <4>2. S \in SUBSET Path
        BY <1>1
      <4>3. S \subseteq Below(from)
        BY <1>1
      <4>4. base \in Bases
        BY <1>0
      <4>5. limit \in Nat
        BY <1>0
      <4> QED
        BY <2>2, <2>3, <3>2, <4>1, <4>2, <4>3, <4>4, <4>5, MoveRun, SMTT(60)
    <3> QED
      BY <3>1, <3>3 DEF b, wants, theres, buried, moves
<1> HIDE DEF b
<1>7. last \in Seq(Steps) /\ Goes(b, c) /\ c.overlay = b.overlay
  <2>1. Emit \in Observing
    BY DEF Observing
  <2>2. last \in Seq(Observing)
    BY <2>1
  <2> HIDE DEF last
  <2>3. Sound(b)
    BY <1>6 DEF Goes
  <2> QED
    BY <1>0, <2>2, <2>3, RecordingRun
<1> HIDE DEF c, last
<1>8. c = Run(Now, RenameScript(from, to))
  <2>1. Run(Now, s1 \o wants) = Run(a, wants) /\ s1 \o wants \in Seq(Steps)
    BY <1>5, <1>6, RunThen DEF a
  <2>2. PICK p1 : p1 = s1 \o wants
    OBVIOUS
  <2>p1. p1 \in Seq(Steps)
    BY <2>1, <2>2
  <2>t. theres \in Seq(Steps)
    BY <1>6
  <2>3. Run(Now, p1 \o theres) = Run(Run(Now, p1), theres) /\ p1 \o theres \in Seq(Steps)
    BY <2>p1, <2>t, RunThen
  <2>4. PICK p2 : p2 = p1 \o theres
    OBVIOUS
  <2>p2. p2 \in Seq(Steps)
    BY <2>3, <2>4
  <2>b. buried \in Seq(Steps)
    BY <1>6
  <2>5. Run(Now, p2 \o buried) = Run(Run(Now, p2), buried) /\ p2 \o buried \in Seq(Steps)
    BY <2>p2, <2>b, RunThen
  <2>6. PICK p3 : p3 = p2 \o buried
    OBVIOUS
  <2>p3. p3 \in Seq(Steps)
    BY <2>5, <2>6
  <2>m. moves \in Seq(Steps)
    BY <1>6
  <2>7. Run(Now, p3 \o moves) = Run(Run(Now, p3), moves) /\ p3 \o moves \in Seq(Steps)
    BY <2>p3, <2>m, RunThen
  <2>8. PICK p4 : p4 = p3 \o moves
    OBVIOUS
  <2>p4. p4 \in Seq(Steps)
    BY <2>7, <2>8
  <2>l. last \in Seq(Steps)
    BY <1>7
  <2>9. Run(Now, p4 \o last) = Run(Run(Now, p4), last)
    BY <2>p4, <2>l, RunThen
  <2>10. Run(Now, p4) = b
    BY <2>1, <2>2, <2>3, <2>4, <2>5, <2>6, <2>7, <2>8 DEF b
  <2>11. RenameScript(from, to) = p4 \o last
    BY <1>3, <2>2, <2>4, <2>6, <2>8
  <2> QED
    BY <2>9, <2>10, <2>11 DEF c
<1>9. Goes(Now, c) /\ (~c.failed => ~a.failed /\ ~b.failed)
  <2>1. Goes(Now, b) /\ (~b.failed => ~a.failed)
    BY <1>5, <1>6, GoesTransitive
  <2> QED
    BY <1>7, <2>1, GoesTransitive
<1>10. ASSUME ~c.failed PROVE TreeOf(c.overlay) = Moved(TreeOf(overlay), from, to)
  <2>1. PICK t : t = TreeOf(overlay)
    OBVIOUS
  <2>2. PICK u : u = TreeOf(c.overlay)
    OBVIOUS
  <2>3. ~failed
    BY <1>5, <1>9, <1>10
  <2>4. Visible = t /\ Rooted(t) /\ t \in Tree
    BY <1>0, <2>1, <2>3, VisibleIs, TreeOfIs DEF IInv
  <2>5. c.overlay \in Overlays
    BY <1>9 DEF Goes, Sound, Scribe
  <2>6. u \in Tree
    BY <1>0, <2>2, <2>5, TreeOfIs
  <2>7. S = Subtree(t, from) /\ RenameFault(t, from, to) = "Ok"
    BY <2>4 DEF S
  <2>8. none => t[to] = None
    BY <2>4, KindIs
  <2>9. \A y \in Path : TreeOf(a.overlay)[y] = IF y = to THEN None ELSE t[y]
    BY <1>5, <1>9, <1>10, <2>1, <2>8
  <2>10. \A x \in S : u[Rebase(x, from, to)] = t[x]
    BY <1>4, <1>6, <1>7, <1>9, <1>10, <2>2, <2>4
  <2>11. \A y \in Path : (\A x \in S : Rebase(x, from, to) # y) =>
            u[y] = IF y \in S \/ y = to THEN None ELSE t[y]
    <3> SUFFICES ASSUME NEW y \in Path, \A x \in S : Rebase(x, from, to) # y
                 PROVE  u[y] = IF y \in S \/ y = to THEN None ELSE t[y]
      OBVIOUS
    <3>1. \A x \in S : at[x] # y
      BY <1>4
    <3>2. u[y] = IF y \in S THEN None ELSE TreeOf(a.overlay)[y]
      BY <1>6, <1>7, <1>9, <1>10, <2>2, <3>1
    <3> QED
      BY <2>9, <3>2
  <2>12. \A x \in S : Rebase(x, from, to) \in Path
    BY <1>2
  <2>13. u = Moved(t, from, to)
    BY <2>4, <2>6, <2>7, <2>10, <2>11, <2>12, MovedIs
  <2> QED
    BY <2>1, <2>2, <2>13
<1> QED
  BY <1>8, <1>9, <1>10 DEF Goes, Leaves

-----------------------------------------------------------------------------
(* Every operation keeps each node in a directory.                          *)
LEMMA KindElsewhere ==
  ASSUME NEW t, NEW u, NEW q \in Place, q # Root => u[q] = t[q]
  PROVE  Kind(u, q) = Kind(t, q)
BY DEF Kind, At

(* The parent of a path is another place.                                   *)
LEMMA FrontOf ==
  ASSUME NEW p \in Path
  PROVE  Front(p) \in Place /\ Front(p) # p /\ (Front(p) # Root => Front(p) \in Path)
<1>1. Front(p) \in Place /\ Len(Front(p)) = Len(p) - 1 /\ Len(p) \in Nat
  BY FrontIs, PlaceIsSequence
<1> QED
  BY <1>1 DEF Place

(* A node put into a directory leaves the tree rooted.                      *)
LEMMA PutRooted ==
  ASSUME NEW t \in Tree, Rooted(t), NEW p \in Path, NEW n \in Node, Kind(t, Front(p)) = "dir",
         Kind(t, p) = "dir" => n.kind = "dir"
  PROVE  Rooted([t EXCEPT ![p] = n])
<1> DEFINE u == [t EXCEPT ![p] = n]
<1>1. \A q \in Path : u[q] = IF q = p THEN n ELSE t[q]
  BY DEF Tree
<1> HIDE DEF u
<1>2. ASSUME NEW q \in Path, u[q] # None PROVE Kind(u, Front(q)) = "dir"
  <2>1. Front(q) \in Place /\ Front(q) # q /\ (Front(q) # Root => Front(q) \in Path)
    BY FrontOf
  <2>2. Kind(t, Front(q)) = "dir"
    BY <1>1, <1>2 DEF Rooted
  <2>3. CASE Front(q) = p
    <3>1. u[p] = n /\ p # Root /\ n # None /\ n.kind = "dir"
      BY <1>1, <2>2, <2>3, NodesAre, PlaceIsSequence
    <3> QED
      BY <2>3, <3>1 DEF Kind, At
  <2>4. CASE Front(q) # p
    <3>1. Front(q) # Root => u[Front(q)] = t[Front(q)]
      BY <1>1, <2>1, <2>4
    <3> QED
      BY <2>1, <2>2, <3>1, KindElsewhere
  <2> QED
    BY <2>3, <2>4
<1> QED
  BY <1>2 DEF Rooted, u

(* So does the removal of a node with nothing below it,                     *)
LEMMA DropRooted ==
  ASSUME NEW t \in Tree, Rooted(t), NEW p \in Path, Kind(t, p) # "dir" \/ Children(t, p) = {}
  PROVE  Rooted([t EXCEPT ![p] = None])
<1> DEFINE u == [t EXCEPT ![p] = None]
<1>1. \A q \in Path : u[q] = IF q = p THEN None ELSE t[q]
  BY DEF Tree
<1> HIDE DEF u
<1>2. ASSUME NEW q \in Path, u[q] # None PROVE Kind(u, Front(q)) = "dir"
  <2>1. Front(q) \in Place /\ (Front(q) # Root => Front(q) \in Path)
    BY FrontOf
  <2>2. q # p /\ t[q] # None /\ Kind(t, Front(q)) = "dir"
    BY <1>1, <1>2 DEF Rooted
  <2>3. Front(q) # p
    <3> SUFFICES ASSUME Front(q) = p PROVE FALSE
      OBVIOUS
    <3>1. p \in Place /\ IsPrefix(p, Front(q))
      BY PlaceIsSequence, PrefixSelf
    <3>2. IsStrictPrefix(p, q)
      BY <3>1, PrefixOfFront
    <3>3. Kind(t, p) = "dir" /\ Children(t, p) # {}
      BY <2>2, <3>1, <3>2, AncestorsAreDirectories
    <3> QED
      BY <3>3
  <2>4. Front(q) # Root => u[Front(q)] = t[Front(q)]
    BY <1>1, <2>1, <2>3
  <2> QED
    BY <2>1, <2>2, <2>4, KindElsewhere
<1> QED
  BY <1>2 DEF Rooted, u

(* that of a whole subtree (remove_tree),                                   *)
LEMMA ClearedRooted ==
  ASSUME NEW t \in Tree, Rooted(t), NEW p \in Path
  PROVE  Rooted(Cleared(t, p))
<1> DEFINE u == Cleared(t, p)
<1>1. \A q \in Path : u[q] = IF q \in Below(p) THEN None ELSE t[q]
  BY DEF Cleared
<1> HIDE DEF u
<1>2. ASSUME NEW q \in Path, u[q] # None PROVE Kind(u, Front(q)) = "dir"
  <2>1. Front(q) \in Place /\ (Front(q) # Root => Front(q) \in Path)
    BY FrontOf
  <2>2. q \notin Below(p) /\ t[q] # None /\ Kind(t, Front(q)) = "dir"
    BY <1>1, <1>2 DEF Rooted
  <2>3. Front(q) \notin Below(p)
    <3> SUFFICES ASSUME IsPrefix(p, Front(q)) PROVE IsPrefix(p, q)
      BY <2>2 DEF Below
    <3>1. p \in Place /\ q \in Place
      BY PlaceIsSequence
    <3>2. IsStrictPrefix(p, q)
      BY <3>1, PrefixOfFront
    <3> QED
      BY <3>2 DEF IsStrictPrefix
  <2>4. Front(q) # Root => u[Front(q)] = t[Front(q)]
    BY <1>1, <2>1, <2>3
  <2> QED
    BY <2>1, <2>2, <2>4, KindElsewhere
<1> QED
  BY <1>2 DEF Rooted, u

(* What is below `to` and not `to` itself is carried with its parent.       *)
LEMMA RebaseFront ==
  ASSUME NEW from \in Path, NEW to \in Path, NEW x \in Below(from), x # from,
         Rebase(x, from, to) \in Path
  PROVE  /\ Front(x) \in Below(from)
         /\ Front(Rebase(x, from, to)) = Rebase(Front(x), from, to)
<1>1. PICK y : y = Rebase(x, from, to)
  OBVIOUS
<1>2. PICK m : m = Len(from)
  OBVIOUS
<1>3. PICK k : k = Len(to)
  OBVIOUS
<1>4. PICK n : n = Len(x)
  OBVIOUS
<1>5. x \in Path /\ x \in Place /\ from \in Place /\ y \in Path
      /\ m \in Nat /\ k \in Nat /\ n \in Nat /\ m > 0 /\ k > 0
  BY <1>1, <1>2, <1>3, <1>4, PlaceIsSequence DEF Below
<1>6. /\ Len(y) = k + (n - m) /\ m <= n
      /\ \A i \in 1..k : y[i] = to[i]
      /\ \A i \in 1..(n - m) : y[k + i] = x[m + i]
  BY <1>1, <1>2, <1>3, <1>4, RebaseIs
<1>7. IsStrictPrefix(from, x)
  BY DEF Below, IsStrictPrefix
<1>8. m < n /\ IsPrefix(from, Front(x))
  BY <1>2, <1>4, <1>5, <1>7, PrefixIs, PrefixOfFront
<1>9. Front(x) \in Below(from)
  <2>1. Len(Front(x)) = n - 1 /\ Front(x) \in Place
    BY <1>4, <1>5, FrontIs
  <2>2. Len(Front(x)) > 0
    BY <1>5, <1>8, <2>1
  <2>3. Front(x) # Root
    BY <2>2, PlaceIsSequence
  <2> QED
    BY <1>8, <2>1, <2>3 DEF Below, Place
<1>10. PICK f : f = Front(x)
  OBVIOUS
<1>11. f \in Below(from) /\ Len(f) = n - 1 /\ \A i \in 1..(n - 1) : f[i] = x[i]
  BY <1>4, <1>5, <1>9, <1>10, FrontIs
<1>12. PICK z : z = Rebase(f, from, to)
  OBVIOUS
<1>13. /\ z \in Seq(Name) /\ Len(z) = k + ((n - 1) - m)
       /\ \A i \in 1..k : z[i] = to[i]
       /\ \A i \in 1..((n - 1) - m) : z[k + i] = f[m + i]
  <2>1. PICK e : e = Len(f)
    OBVIOUS
  <2>2. f \in Below(from) /\ e = n - 1
    BY <1>11, <2>1
  <2>f. f \in Below(from)
    BY <1>11
  <2>3. LET w == Rebase(f, from, to) IN
           /\ w \in Seq(Name) /\ Len(w) = Len(to) + (Len(f) - Len(from))
           /\ \A i \in 1..Len(to) : w[i] = to[i]
           /\ \A i \in 1..(Len(f) - Len(from)) : w[Len(to) + i] = f[Len(from) + i]
           /\ Len(f) >= Len(from)
    BY <2>f, RebaseIs
  <2>4. /\ z \in Seq(Name) /\ Len(z) = k + (e - m)
        /\ \A i \in 1..k : z[i] = to[i]
        /\ \A i \in 1..(e - m) : z[k + i] = f[m + i]
    BY <1>2, <1>3, <1>12, <2>1, <2>3
  <2> QED
    BY <2>2, <2>4
<1>14. PICK g : g = Front(y)
  OBVIOUS
<1>15. g \in Seq(Name) /\ Len(g) = Len(y) - 1 /\ \A i \in 1..(Len(y) - 1) : g[i] = y[i]
  BY <1>5, <1>14, FrontIs, PlaceIsSequence
<1>16. Len(g) = Len(z) /\ Len(g) = k + ((n - 1) - m)
  BY <1>5, <1>6, <1>13, <1>15
<1>17. ASSUME NEW i \in 1..Len(g) PROVE g[i] = z[i]
  <2>1. g[i] = y[i]
    BY <1>15, <1>17
  <2>2. CASE i <= k
    <3>1. i \in 1..k
      BY <1>5, <1>16, <1>17, <2>2
    <3> QED
      BY <1>6, <1>13, <2>1, <3>1
  <2>3. CASE i > k
    <3>1. PICK j : j = i - k
      OBVIOUS
    <3>2. j \in 1..((n - 1) - m) /\ i = k + j /\ j \in 1..(n - m) /\ m + j \in 1..(n - 1)
      BY <1>5, <1>8, <1>16, <1>17, <2>3, <3>1
    <3>3. y[k + j] = x[m + j] /\ z[k + j] = f[m + j] /\ f[m + j] = x[m + j]
      BY <1>6, <1>11, <1>13, <3>2
    <3> QED
      BY <2>1, <3>2, <3>3
  <2> QED
    BY <1>5, <1>16, <2>2, <2>3
<1>18. g = z
  BY <1>13, <1>15, <1>16, <1>17, SameSequence
<1> QED
  BY <1>1, <1>9, <1>10, <1>12, <1>14, <1>18

(* and a rename whose checks have passed.                                   *)
LEMMA MovedRooted ==
  ASSUME NEW t \in Tree, Rooted(t), NEW from \in Path, NEW to \in Path, from # to,
         RenameFault(t, from, to) = "Ok"
  PROVE  Rooted(Moved(t, from, to))
<1> DEFINE u == Moved(t, from, to)
<1>1. /\ ~IsPrefix(from, to) /\ ~IsPrefix(to, from)
      /\ DirFault(t, Front(to)) = "Ok"
  BY DEF RenameFault
<1>2. Kind(t, Front(to)) = "dir"
  BY <1>1 DEF DirFault
<1>3. \A q \in Path : u[q] =
        IF q \in Below(to)
          THEN IF Rebase(q, to, from) \in Path THEN t[Rebase(q, to, from)] ELSE None
        ELSE IF q \in Below(from) THEN None ELSE t[q]
  BY DEF Moved
<1> HIDE DEF u
<1>4. from \in Place /\ to \in Place /\ to \in Below(to)
  BY PlaceIsSequence, PrefixSelf DEF Below
<1>5. \A q \in Place, r \in Path : IsPrefix(q, Front(r)) => IsPrefix(q, r) /\ q # r
  BY PrefixOfFront DEF IsStrictPrefix
<1>6. ASSUME NEW q \in Path, u[q] # None PROVE Kind(u, Front(q)) = "dir"
  <2>1. Front(q) \in Place /\ (Front(q) # Root => Front(q) \in Path) /\ q \in Place
    BY FrontOf, PlaceIsSequence
  <2>2. CASE q \notin Below(to)
    <3>1. q \notin Below(from) /\ t[q] # None /\ Kind(t, Front(q)) = "dir"
      BY <1>3, <1>6, <2>2 DEF Rooted
    <3>2. Front(q) \notin Below(to) /\ Front(q) \notin Below(from)
      BY <1>4, <1>5, <2>2, <3>1 DEF Below
    <3>3. Front(q) # Root => u[Front(q)] = t[Front(q)]
      BY <1>3, <2>1, <3>2
    <3> QED
      BY <2>1, <3>1, <3>3, KindElsewhere
  <2>3. CASE q = to
    <3>1. Front(to) \notin Below(to)
      BY <1>4, <1>5 DEF Below
    <3>2. Front(to) \notin Below(from)
      BY <1>1, <1>4, <1>5 DEF Below
    <3>3. Front(q) # Root => u[Front(q)] = t[Front(q)]
      BY <1>3, <2>1, <2>3, <3>1, <3>2
    <3> QED
      BY <1>2, <2>1, <2>3, <3>3, KindElsewhere
  <2>4. CASE q \in Below(to) /\ q # to
    <3>1. PICK z : z = Rebase(q, to, from)
      OBVIOUS
    <3>2. z \in Path /\ u[q] = t[z] /\ t[z] # None
      BY <1>3, <1>6, <2>4, <3>1
    <3>3. Front(q) \in Below(to) /\ Front(z) = Rebase(Front(q), to, from)
      BY <2>4, <3>1, <3>2, RebaseFront
    <3>4. z \in Below(from) /\ Rebase(z, from, to) = q
      BY <2>4, <3>1, <3>2, RebaseBack
    <3>5. z # from
      <4> SUFFICES ASSUME z = from PROVE FALSE
        OBVIOUS
      <4>1. to \in Below(to) /\ from \in Below(from)
        BY <1>4, PrefixSelf DEF Below
      <4>2. PICK y : y = Rebase(from, from, to)
        OBVIOUS
      <4>3. /\ y \in Seq(Name) /\ Len(y) = Len(to) + (Len(from) - Len(from))
            /\ \A i \in 1..Len(to) : y[i] = to[i]
        BY <4>1, <4>2, RebaseIs
      <4>4. Len(to) \in Nat /\ Len(from) \in Nat /\ to \in Seq(Name)
        BY <1>4, PlaceIsSequence
      <4>5. Len(y) = Len(to)
        BY <4>3, <4>4
      <4>6. y = to
        BY <4>3, <4>4, <4>5, SameSequence
      <4> QED
        BY <2>4, <3>4, <4>2, <4>6
    <3>6. Front(z) \in Below(from)
      BY <2>4, <3>4, <3>5, RebaseFront
    <3>7. Front(z) \in Path /\ Front(q) \in Path
      BY <3>3, <3>6 DEF Below
    <3>8. u[Front(q)] = t[Front(z)]
      BY <1>3, <3>3, <3>7
    <3>9. Kind(t, Front(z)) = "dir"
      BY <3>2 DEF Rooted
    <3>10. Front(q) # Root /\ Front(z) # Root
      BY <3>7, PlaceIsSequence
    <3> QED
      BY <3>8, <3>9, <3>10 DEF Kind, At
  <2> QED
    BY <2>2, <2>3, <2>4
<1> QED
  BY <1>6 DEF Rooted, u

-----------------------------------------------------------------------------
(* While the budget lasts the guest sees the tree of the overlay.           *)
LEMMA VisibleIsTree == IInv /\ ~failed => Visible = TreeOf(overlay) /\ Visible \in Tree /\ Rooted(Visible)
BY NowIs, VisibleIs, TreeOfIs DEF IInv

(* VisibleIsTree in the next state.                                         *)
LEMMA VisibleIsTreeNext ==
  (IInv /\ ~failed => Visible = TreeOf(overlay) /\ Visible \in Tree /\ Rooted(Visible))'
BY VisibleIsTree, PTL

(* What an operation answers and leaves, unless the budget has run out.     *)
Does(what, t) == ~failed' => ~failed /\ answer' = what /\ Visible' = t

(* The invariant holds after an operation whose script leaves a rooted tree. *)
LEMMA PerformKeeps ==
  ASSUME IInv, NEW script, NEW result, Perform(script, result),
         NEW t, Leaves(Run(Now, script), t), ~failed => Rooted(t)
  PROVE  IInv' /\ base' = base /\ Does(result, t)
<1> DEFINE r == Run(Now, script)
<1>1. /\ base \in Bases /\ limit \in Nat /\ Sound(Now)
      /\ Now.failed = failed
  BY NowIs DEF IInv
<1>2. /\ reads' = r.reads /\ writes' = r.writes /\ overlay' = r.overlay
      /\ captured' = r.captured /\ ledger' = r.ledger /\ records' = r.records
      /\ failed' = r.failed /\ answer' = IF r.failed THEN Refused ELSE result
      /\ base' = base /\ limit' = limit /\ phase' = "open"
  BY DEF Perform, Run, Now
<1> HIDE DEF r
<1>3. /\ Now.failed => r = Now
      /\ ~r.failed => TreeOf(r.overlay) = t
  BY DEF Leaves, r
<1>a. Sound(r)
  BY DEF Leaves, r
<1>4. Now' = r
  <2>1. r \in Scribe
    BY <1>a DEF Sound
  <2>2. r = [reads |-> r.reads, writes |-> r.writes, overlay |-> r.overlay,
             captured |-> r.captured, ledger |-> r.ledger, records |-> r.records,
             failed |-> r.failed]
    BY <2>1 DEF Scribe
  <2> QED
    BY <1>2, <2>2 DEF Now
<1>5. Sound(Now)'
  BY <1>2, <1>4, <1>a, SoundNext
<1>6. ~failed' => ~failed
  BY <1>1, <1>2, <1>3, <1>a
<1>7. TreeOf(overlay)' = TreeOf(r.overlay)
  BY <1>2, TreeNext
<1>8. ~failed' => Rooted(TreeOf(overlay))'
  <2> SUFFICES ASSUME ~failed' PROVE Rooted(TreeOf(overlay))'
    OBVIOUS
  <2>1. TreeOf(overlay)' = t /\ Rooted(t)
    BY <1>2, <1>3, <1>6, <1>7
  <2> QED
    BY <2>1 DEF Rooted
<1>9. IInv'
  <2>1. base' \in Bases /\ limit' \in Nat /\ phase' # "diffed"
    BY <1>1, <1>2
  <2> QED
    BY <1>5, <1>8, <2>1 DEF IInv
<1>10. ~failed' => Visible' = t
  BY <1>2, <1>3, <1>7, <1>9, VisibleIsTreeNext
<1> QED
  BY <1>2, <1>6, <1>9, <1>10 DEF Does

(* The same for a refusal and for what only looks.                          *)
LEMMA LookKeeps ==
  ASSUME IInv, NEW script \in Seq(Observing), NEW result, Perform(script, result)
  PROVE  IInv' /\ base' = base /\ Does(result, Visible)
<1>1. limit \in Nat /\ Sound(Now) /\ (~failed => Rooted(TreeOf(overlay)))
  BY DEF IInv
<1>2. Leaves(Run(Now, script), TreeOf(overlay))
  BY <1>1, ObservingLeaves
<1>3. PICK t : t = TreeOf(overlay)
  OBVIOUS
<1>4. Leaves(Run(Now, script), t) /\ (~failed => Rooted(t))
  BY <1>1, <1>2, <1>3
<1>5. IInv' /\ base' = base /\ Does(result, t)
  BY <1>4, PerformKeeps
<1>6. ~failed => t = Visible
  BY <1>3, VisibleIsTree
<1> QED
  BY <1>5, <1>6 DEF Does

(* The scripts of refused operations.                                        *)
LEMMA EarlyScripts ==
  /\ <<>> \in Seq(Observing)
  /\ \A p \in Place : /\ <<See(p)>> \in Seq(Observing)
                      /\ <<See(p), Emit>> \in Seq(Observing)
                      /\ <<See(p), List(p), Emit>> \in Seq(Observing)
                      /\ SeeParent(p) \in Seq(Observing)
                      /\ SeeItself(p) \in Seq(Observing)
  /\ \A p, q, r \in Place : <<See(p), See(q), See(r)>> \in Seq(Observing)
<1>1. \A p \in Place : See(p) \in Observing /\ List(p) \in Observing
  BY DEF Observing
<1>2. Emit \in Observing
  BY DEF Observing
<1>3. \A p \in Place : p # Root => Front(p) \in Place
  BY FrontIs DEF Place
<1>4. ASSUME NEW p \in Place
      PROVE  /\ <<See(p)>> \in Seq(Observing)
             /\ <<See(p), Emit>> \in Seq(Observing)
             /\ <<See(p), List(p), Emit>> \in Seq(Observing)
  BY <1>1, <1>2
<1>5. ASSUME NEW p \in Place
      PROVE  SeeParent(p) \in Seq(Observing) /\ SeeItself(p) \in Seq(Observing)
  <2>1. <<>> \in Seq(Observing)
    OBVIOUS
  <2> QED
    BY <1>3, <1>4, <2>1 DEF SeeParent, SeeItself
<1>6. \A p, q, r \in Place : <<See(p), See(q), See(r)>> \in Seq(Observing)
  BY <1>1
<1> QED
  BY <1>4, <1>5, <1>6

(* The content behind a visible slot that has an origin is the origin's.    *)
LEMMA ReadScripts ==
  ASSUME base \in Bases, overlay \in Overlays, NEW p \in Path, Visible[p] # None,
         ~Unreadable(Resolve(overlay, p))
  PROVE  /\ ReadScript(p) \in Seq(Observing)
         /\ Loaded(Resolve(overlay, p)) = Visible[p].data
<1> DEFINE slot == Resolve(overlay, p)
           middle == IF slot.origin = None THEN <<>>
                     ELSE <<Fetch(slot.origin), Content(slot.origin, Loaded(slot))>>
<1>1. slot \in SoundSlot
  BY VisibleTyped
<1>11. Loaded(slot) = slot.node.data
  BY DEF Loaded
<1>12. Visible[p] = slot.node
  BY DEF Visible
<1> HIDE DEF slot
<1>2. middle \in Seq(Observing)
  <2>1. CASE slot.origin = None
    BY <2>1
  <2>2. CASE slot.origin # None
    <3>1. slot.origin \in Path /\ slot.node.data = base[slot.origin].data
      BY <1>1, <2>2, SlotIs DEF FromBase
    <3>2. Fetch(slot.origin) \in Observing
      BY <3>1 DEF Observing
    <3>3. Content(slot.origin, Loaded(slot)) \in Observing
      BY <1>11, <3>1 DEF Observing
    <3> QED
      BY <2>2, <3>2, <3>3
  <2> QED
    BY <2>1, <2>2
<1> HIDE DEF middle
<1>3. <<See(p)>> \in Seq(Observing) /\ <<Emit>> \in Seq(Observing)
  <2>1. See(p) \in Observing /\ Emit \in Observing
    BY PlaceIsSequence DEF Observing
  <2> QED
    BY <2>1
<1>4. PICK X : X = Observing
  OBVIOUS
<1>5. PICK first : first = <<See(p)>>
  OBVIOUS
<1>6. PICK last : last = <<Emit>>
  OBVIOUS
<1>7. first \in Seq(X) /\ middle \in Seq(X) /\ last \in Seq(X)
  BY <1>2, <1>3, <1>4, <1>5, <1>6
<1>8. first \o middle \in Seq(X)
  BY <1>7, ConcatIs
<1>9. first \o middle \o last \in Seq(X)
  BY <1>7, <1>8, ConcatIs
<1>10. ReadScript(p) = first \o middle \o last
  BY <1>5, <1>6 DEF ReadScript, middle, slot
<1> QED
  BY <1>4, <1>9, <1>10, <1>11, <1>12 DEF slot

(* The script of an operation that changes one path.                        *)
LEMMA ChangeLeaves ==
  ASSUME IInv, NEW o \in Seq(Observing), NEW p \in Path, NEW slot \in SoundSlot
  PROVE  Leaves(Run(Now, o \o <<Want(p), Put(p, slot), Emit>>),
                [TreeOf(overlay) EXCEPT ![p] = slot.node])
<1> DEFINE u == <<Want(p)>>
           v == <<Put(p, slot), Emit>>
           w == <<Want(p), Put(p, slot), Emit>>
           obs == o \o u
<1>1. Want(p) \in Observing
  BY DEF Observing
<1>2. u \in Seq(Observing) /\ Len(u) = 1 /\ u[1] = Want(p) /\ w = u \o v
  BY <1>1
<1>3. /\ obs \in Seq(Observing) /\ Len(obs) = Len(o) + 1 /\ Len(o) \in Nat
      /\ obs[Len(o) + 1] = Want(p)
  <2> HIDE DEF u
  <2>1. PICK X : X = Observing
    OBVIOUS
  <2>2. o \in Seq(X) /\ u \in Seq(X)
    BY <1>2, <2>1
  <2>3. /\ obs \in Seq(X) /\ Len(obs) = Len(o) + Len(u) /\ Len(o) \in Nat
        /\ \A m \in 1..Len(u) : obs[Len(o) + m] = u[m]
    BY <2>2, ConcatIs
  <2> QED
    BY <1>2, <2>1, <2>3
<1>4. PICK i : i = Len(o) + 1
  OBVIOUS
<1>5. o \o w = obs \o v
  <2>1. PICK X : X = Observing \cup {Put(p, slot)}
    OBVIOUS
  <2>2. Put(p, slot) \in X /\ Emit \in X /\ Want(p) \in X
    BY <2>1 DEF Observing
  <2>3. v \in Seq(X) /\ u \in Seq(X)
    BY <2>2
  <2>4. o \in Seq(X)
    BY <2>1, SequenceOf
  <2> HIDE DEF u, v, w
  <2>5. o \o (u \o v) = (o \o u) \o v
    BY <2>3, <2>4
  <2> QED
    BY <1>2, <2>5
<1> HIDE DEF obs
<1>6. i \in 1..Len(obs) /\ obs[i] = Want(p)
  BY <1>3, <1>4
<1>7. Sound(Now) /\ limit \in Nat
  BY DEF IInv
<1>8. Leaves(Run(Now, obs \o <<Put(p, slot), Emit>>), [TreeOf(overlay) EXCEPT ![p] = slot.node])
  BY <1>3, <1>6, <1>7, PutLeaves
<1> QED
  BY <1>5, <1>8

(* An operation that changes one path.                                      *)
LEMMA ChangeKeeps ==
  ASSUME IInv, NEW o \in Seq(Observing), NEW p \in Path, NEW slot \in SoundSlot,
         Perform(o \o <<Want(p), Put(p, slot), Emit>>, Failing("Ok")),
         ~failed => Rooted([Visible EXCEPT ![p] = slot.node])
  PROVE  IInv' /\ base' = base /\ Does(<<"Ok", None>>, [Visible EXCEPT ![p] = slot.node])
<1>1. Leaves(Run(Now, o \o <<Want(p), Put(p, slot), Emit>>),
             [TreeOf(overlay) EXCEPT ![p] = slot.node])
  BY ChangeLeaves
<1>2. ~failed => Visible = TreeOf(overlay)
  BY VisibleIsTree
<1>3. PICK t : t = [TreeOf(overlay) EXCEPT ![p] = slot.node]
  OBVIOUS
<1>4. PICK script : script = o \o <<Want(p), Put(p, slot), Emit>>
  OBVIOUS
<1>5. PICK result : result = Failing("Ok")
  OBVIOUS
<1>6. Perform(script, result)
  BY <1>4, <1>5
<1>7. Leaves(Run(Now, script), t) /\ (~failed => Rooted(t) /\ t = [Visible EXCEPT ![p] = slot.node])
  BY <1>1, <1>2, <1>3, <1>4
<1>8. IInv' /\ base' = base /\ Does(result, t)
  BY <1>6, <1>7, PerformKeeps
<1>9. result = <<"Ok", None>>
  BY <1>5 DEF Failing
<1> QED
  BY <1>7, <1>8, <1>9 DEF Does

(* What the operations may rely on.                                         *)
LEMMA Typed ==
  ASSUME IInv
  PROVE  /\ base \in Bases /\ overlay \in Overlays /\ Visible \in Tree
         /\ \A p \in Path : Visible[p] # None => /\ Resolve(overlay, p) \in SoundSlot
                                                 /\ Resolve(overlay, p).node = Visible[p]
                                                 /\ Visible[p] \in Node
  <1>1. base \in Bases /\ overlay \in Overlays
    BY NowIs DEF IInv
  <1>2. Visible \in Tree
    BY <1>1, VisibleTyped
  <1>3. \A p \in Path : Visible[p] # None => /\ Resolve(overlay, p) \in SoundSlot
                                             /\ Resolve(overlay, p).node = Visible[p]
    BY <1>1, VisibleTyped
  <1> QED
    BY <1>1, <1>2, <1>3 DEF Tree

(* A written node has no origin: its content is in the transaction.         *)
LEMMA FreshIs ==
  ASSUME NEW n \in Node PROVE Fresh(n) \in SoundSlot /\ Fresh(n).node = n
BY DEF Fresh, SoundSlot, FromBase

(* The change a write makes, wherever its evidence comes from.              *)
LEMMA WriteChanges ==
  ASSUME IInv, NEW o \in Seq(Observing), NEW p \in Path, NEW data \in Seq(Chunk),
         Kind(Visible, p) \in {"none", "file"},
         ~failed => Kind(Visible, Front(p)) = "dir",
         Perform(o \o WriteScript(p, data), Failing("Ok"))
  PROVE  IInv' /\ base' = base /\ Does(<<"Ok", None>>, Written(Visible, p, data))
<1> DEFINE mode == IF Visible[p] = None THEN "rw" ELSE Visible[p].mode
           n == FileNode(data, mode)
           pre == SeeParent(p)
           w == <<Want(p), Put(p, Fresh(n)), Emit>>
<1>1. p \in Place
  BY PlaceIsSequence
<1>2. mode \in Modes
  BY Typed, NodesAre
<1> HIDE DEF mode
<1>3. n \in Node /\ Fresh(n) \in SoundSlot /\ Fresh(n).node = n
  BY <1>2, NodesAre, FreshIs
<1>4. Written(Visible, p, data) = [Visible EXCEPT ![p] = n]
  BY DEF Written, mode
<1> HIDE DEF n
<1>5. WriteScript(p, data) = pre \o w
  BY DEF WriteScript, mode, n
<1>6. pre \in Seq(Observing)
  BY <1>1, EarlyScripts
<1> HIDE DEF pre
<1>7. o \o pre \in Seq(Observing) /\ o \o (pre \o w) = (o \o pre) \o w
  <2>1. PICK X : X = Observing \cup {Put(p, Fresh(n))}
    OBVIOUS
  <2>2. Put(p, Fresh(n)) \in X /\ Emit \in X /\ Want(p) \in X
    BY <2>1 DEF Observing
  <2>3. w \in Seq(X)
    BY <2>2
  <2>4. o \in Seq(X) /\ pre \in Seq(X)
    BY <1>6, <2>1, SequenceOf
  <2> HIDE DEF w
  <2>5. o \o (pre \o w) = (o \o pre) \o w
    BY <2>3, <2>4
  <2>6. PICK Y : Y = Observing
    OBVIOUS
  <2>7. o \in Seq(Y) /\ pre \in Seq(Y)
    BY <1>6, <2>6
  <2>8. o \o pre \in Seq(Y)
    BY <2>7, ConcatIs
  <2> QED
    BY <2>5, <2>6, <2>8
<1>8. PICK obs : obs = o \o pre
  OBVIOUS
<1>9. Perform(obs \o <<Want(p), Put(p, Fresh(n)), Emit>>, Failing("Ok")) /\ obs \in Seq(Observing)
  BY <1>5, <1>7, <1>8
<1>10. ~failed => Rooted([Visible EXCEPT ![p] = Fresh(n).node])
  BY <1>3, VisibleIsTree, PutRooted
<1>11. PICK slot \in SoundSlot : slot = Fresh(n)
  BY <1>3
<1>12. IInv' /\ base' = base /\ Does(<<"Ok", None>>, [Visible EXCEPT ![p] = slot.node])
  BY <1>9, <1>10, <1>11, ChangeKeeps
<1> QED
  BY <1>3, <1>4, <1>11, <1>12

(* An operation that is refused for a fault of the tree.                    *)
LEMMA RefusedKeeps ==
  ASSUME IInv, NEW early \in Seq(Observing), NEW script, NEW fault, fault # "Ok",
         Attempt(fault, early, script)
  PROVE  IInv' /\ base' = base /\ Does(<<fault, None>>, Visible)
<1>1. Perform(early, Failing(fault))
  BY DEF Attempt
<1>2. PICK result : result = Failing(fault)
  OBVIOUS
<1>3. IInv' /\ base' = base /\ Does(result, Visible)
  BY <1>1, <1>2, LookKeeps
<1> QED
  BY <1>2, <1>3 DEF Failing

(* write_file and symlink put a node with the content asked for.            *)
LEMMA WriteDoes ==
  ASSUME IInv, NEW p \in Place, NEW c \in Chunk, Write(p, c)
  PROVE  /\ IInv' /\ base' = base
         /\ Does(<<WriteFault(Visible, p), None>>,
                 IF WriteFault(Visible, p) = "Ok" THEN Written(Visible, p, <<c>>) ELSE Visible)
<1>1. PICK fault : fault = WriteFault(Visible, p)
  OBVIOUS
<1>2. Attempt(fault, SeeParent(p), WriteScript(p, <<c>>))
  BY <1>1 DEF Write
<1>3. CASE fault = "Ok"
  <2>1. PICK none \in Seq(Observing) : none = <<>>
    BY EarlyScripts
  <2>c. <<c>> \in Seq(Chunk)
    OBVIOUS
  <2>2. PICK data \in Seq(Chunk) : data = <<c>>
    BY <2>c
  <2>3. Perform(WriteScript(p, data), Failing("Ok"))
    BY <1>2, <1>3, <2>2 DEF Attempt
  <2>4. none \o WriteScript(p, data) = WriteScript(p, data)
    <3> DEFINE pre == SeeParent(p)
               mode == IF Visible[p] = None THEN "rw" ELSE Visible[p].mode
               w == <<Want(p), Put(p, Fresh(FileNode(data, mode))), Emit>>
    <3>1. pre \in Seq(Observing)
      BY EarlyScripts
    <3> HIDE DEF pre, mode
    <3>2. PICK X : X = Observing \cup {Put(p, Fresh(FileNode(data, mode))), Want(p), Emit}
      OBVIOUS
    <3>3. pre \in Seq(X)
      BY <3>1, <3>2, SequenceOf
    <3>4. w \in Seq(X)
      <4>1. Put(p, Fresh(FileNode(data, mode))) \in X /\ Want(p) \in X /\ Emit \in X
        BY <3>2
      <4> QED
        BY <4>1
    <3> HIDE DEF w
    <3>5. pre \o w \in Seq(X)
      BY <3>3, <3>4, ConcatIs
    <3>6. WriteScript(p, data) = pre \o w
      BY DEF WriteScript, pre, mode, w
    <3>7. <<>> \o (pre \o w) = pre \o w
      BY <3>5
    <3> QED
      BY <2>1, <3>6, <3>7
  <2>5. Perform(none \o WriteScript(p, data), Failing("Ok"))
    BY <2>3, <2>4
  <2>7. p \in Path /\ Kind(Visible, Front(p)) = "dir" /\ Kind(Visible, p) \in {"none", "file"}
    BY <1>1, <1>3 DEF WriteFault, DirFault, Place
  <2>6. IInv' /\ base' = base /\ Does(<<"Ok", None>>, Written(Visible, p, data))
    BY <2>5, <2>7, WriteChanges
  <2> QED
    BY <1>1, <1>3, <2>2, <2>6
<1>4. CASE fault # "Ok"
  <2>1. SeeParent(p) \in Seq(Observing)
    BY EarlyScripts
  <2>2. IInv' /\ base' = base /\ Does(<<fault, None>>, Visible)
    BY <1>2, <1>4, <2>1, RefusedKeeps
  <2> QED
    BY <1>1, <1>4, <2>2
<1> QED
  BY <1>3, <1>4

(* The operations.  For each: the invariant still holds, and unless the     *)
(* budget has run out the answer and the tree are the ones asked for.       *)
LEMMA MetadataDoes ==
  ASSUME IInv, NEW p \in Place, GetMetadata(p)
  PROVE  /\ IInv' /\ base' = base
         /\ Does(IF Kind(Visible, p) = "none" THEN <<"NotFound", None>>
                 ELSE <<"state", <<At(Visible, p).kind, At(Visible, p).mode>>>>, Visible)
<1>1. PICK script : script = <<See(p), Emit>>
  OBVIOUS
<1>2. PICK result : result = IF Kind(Visible, p) = "none" THEN <<"NotFound", None>>
                             ELSE <<"state", <<At(Visible, p).kind, At(Visible, p).mode>>>>
  OBVIOUS
<1>3. Perform(script, result)
  BY <1>1, <1>2 DEF GetMetadata, Failing
<1>4. script \in Seq(Observing)
  BY <1>1, EarlyScripts
<1>5. IInv' /\ base' = base /\ Does(result, Visible)
  BY <1>3, <1>4, LookKeeps
<1> QED
  BY <1>2, <1>5

(* read_file and read_link answer the visible content and change no file.   *)
LEMMA ReadDoes ==
  ASSUME IInv, NEW p \in Place, NEW kind \in {"file", "link"}, Read(p, kind)
  PROVE  /\ IInv' /\ base' = base
         /\ Does(IF ReadResult(p, kind) = "Ok" THEN <<"bytes", Visible[p].data>>
                 ELSE <<ReadResult(p, kind), None>>, Visible)
<1>1. PICK fault : fault = ReadResult(p, kind)
  OBVIOUS
<1>2. CASE fault = "Ok"
  <2>1. PICK script : script = ReadScript(p)
    OBVIOUS
  <2>2. PICK result : result = <<"bytes", Loaded(Resolve(overlay, p))>>
    OBVIOUS
  <2>3. Perform(script, result)
    BY <1>1, <1>2, <2>1, <2>2 DEF Read
  <2>7. ~Unreadable(Resolve(overlay, p))
    BY <1>1, <1>2 DEF ReadResult
  <2>4. p \in Path /\ Visible[p] # None
    <3>1. ReadFault(Visible, p, kind) = "Ok"
      BY <1>1, <1>2 DEF ReadResult
    <3>2. Kind(Visible, p) = kind
      BY <3>1 DEF ReadFault
    <3>3. p \in Path
      BY <3>2, Typed, KindIs DEF Place
    <3> QED
      BY <3>2, <3>3, Typed, KindIs
  <2>5. script \in Seq(Observing) /\ result = <<"bytes", Visible[p].data>>
    BY <2>1, <2>2, <2>4, <2>7, Typed, ReadScripts
  <2>6. IInv' /\ base' = base /\ Does(result, Visible)
    BY <2>3, <2>5, LookKeeps
  <2> QED
    BY <1>1, <1>2, <2>5, <2>6
<1>3. CASE fault # "Ok"
  <2>1. PICK script : script = <<See(p)>>
    OBVIOUS
  <2>2. PICK result : result = <<fault, None>>
    OBVIOUS
  <2>3. Perform(script, result)
    BY <1>1, <1>3, <2>1, <2>2 DEF Read, Failing
  <2>4. script \in Seq(Observing)
    BY <2>1, EarlyScripts
  <2>5. IInv' /\ base' = base /\ Does(result, Visible)
    BY <2>3, <2>4, LookKeeps
  <2> QED
    BY <1>1, <1>3, <2>2, <2>5
<1> QED
  BY <1>2, <1>3

ListFault(p, most) ==
  IF DirFault(Visible, p) = "Ok" /\ Cardinality(Children(Visible, p)) > most
    THEN "DirectoryEntryLimit" ELSE DirFault(Visible, p)

(* read_dir answers the visible children, within its limit.                 *)
LEMMA ReadDirDoes ==
  ASSUME IInv, NEW p \in Place, NEW most, ReadDir(p, most)
  PROVE  /\ IInv' /\ base' = base
         /\ Does(IF ListFault(p, most) = "Ok" THEN <<"listing", Children(Visible, p)>>
                 ELSE <<ListFault(p, most), None>>, Visible)
<1>1. PICK fault : fault = ListFault(p, most)
  OBVIOUS
<1>2. CASE fault = "Ok"
  <2>1. PICK script : script = <<See(p), List(p), Emit>>
    OBVIOUS
  <2>2. PICK result : result = <<"listing", Children(Visible, p)>>
    OBVIOUS
  <2>3. Perform(script, result)
    BY <1>1, <1>2, <2>1, <2>2 DEF ReadDir, ListFault
  <2>4. script \in Seq(Observing)
    BY <2>1, EarlyScripts
  <2>5. IInv' /\ base' = base /\ Does(result, Visible)
    BY <2>3, <2>4, LookKeeps
  <2> QED
    BY <1>1, <1>2, <2>2, <2>5
<1>3. CASE fault # "Ok"
  <2>1. PICK script : script = <<See(p)>>
    OBVIOUS
  <2>2. PICK result : result = <<fault, None>>
    OBVIOUS
  <2>3. Perform(script, result)
    BY <1>1, <1>3, <2>1, <2>2 DEF ReadDir, ListFault, Failing
  <2>4. script \in Seq(Observing)
    BY <2>1, EarlyScripts
  <2>5. IInv' /\ base' = base /\ Does(result, Visible)
    BY <2>3, <2>4, LookKeeps
  <2> QED
    BY <1>1, <1>3, <2>2, <2>5
<1> QED
  BY <1>2, <1>3

(* append_file adds to what read_file would answer, and never fails half way. *)
LEMMA AppendDoes ==
  ASSUME IInv, NEW p \in Place, NEW c \in Chunk, AppendTo(p, c)
  PROVE  /\ IInv' /\ base' = base
         /\ Does(<<ReadResult(p, "file"), None>>,
                 IF ReadResult(p, "file") = "Ok"
                   THEN Written(Visible, p, Append(Visible[p].data, c)) ELSE Visible)
         /\ ReadResult(p, "file") = "Ok" /\ ~failed => WriteFault(Visible, p) = "Ok"
<1>1. PICK fault : fault = ReadResult(p, "file")
  OBVIOUS
<1>2. CASE fault = "Ok"
  <2>1. ReadFault(Visible, p, "file") = "Ok"
    BY <1>1, <1>2 DEF ReadResult
  <2>2. Kind(Visible, p) = "file"
    BY <2>1 DEF ReadFault
  <2>3. p \in Path
    BY <2>2, Typed, KindIs DEF Place
  <2>4. Visible[p] # None /\ Visible[p].data \in Seq(Chunk)
    BY <2>2, <2>3, Typed, KindIs, NodesAre
  <2>5. PICK data \in Seq(Chunk) : data = Append(Visible[p].data, c)
    <3>1. Append(Visible[p].data, c) \in Seq(Chunk)
      BY <2>4
    <3> QED
      BY <3>1
  <2>b. ~Unreadable(Resolve(overlay, p))
    BY <1>1, <1>2 DEF ReadResult
  <2>c. ReadScript(p) \in Seq(Observing) /\ Loaded(Resolve(overlay, p)) = Visible[p].data
    BY <2>3, <2>4, <2>b, Typed, ReadScripts
  <2>6. PICK o \in Seq(Observing) : o = ReadScript(p)
    BY <2>c
  <2>7. Perform(o \o WriteScript(p, data), Failing("Ok"))
    BY <1>1, <1>2, <2>5, <2>6, <2>c DEF AppendTo
  <2>a. ~failed => Kind(Visible, Front(p)) = "dir"
    BY <2>3, <2>4, VisibleIsTree DEF Rooted
  <2>8. ~failed => WriteFault(Visible, p) = "Ok"
    <3>1. p # Root
      BY <2>3, PlaceIsSequence
    <3> QED
      BY <2>2, <2>a, <3>1 DEF WriteFault, DirFault
  <2>9. IInv' /\ base' = base /\ Does(<<"Ok", None>>, Written(Visible, p, data))
    BY <2>2, <2>3, <2>7, <2>a, WriteChanges
  <2> QED
    BY <1>1, <1>2, <2>5, <2>8, <2>9
<1>3. CASE fault # "Ok"
  <2>1. PICK script : script = <<See(p)>>
    OBVIOUS
  <2>2. PICK result : result = <<fault, None>>
    OBVIOUS
  <2>3. Perform(script, result)
    BY <1>1, <1>3, <2>1, <2>2 DEF AppendTo, Failing
  <2>4. script \in Seq(Observing)
    BY <2>1, EarlyScripts
  <2>5. IInv' /\ base' = base /\ Does(result, Visible)
    BY <2>3, <2>4, LookKeeps
  <2> QED
    BY <1>1, <1>3, <2>2, <2>5
<1> QED
  BY <1>2, <1>3

(* mkdir adds an empty directory.                                           *)
LEMMA MkdirDoes ==
  ASSUME IInv, NEW p \in Place, NEW mode \in Modes, Mkdir(p, mode)
  PROVE  /\ IInv' /\ base' = base
         /\ Does(<<MkdirFault(Visible, p), None>>,
                 IF MkdirFault(Visible, p) = "Ok" THEN [Visible EXCEPT ![p] = DirNode(mode)]
                 ELSE Visible)
<1>1. PICK fault : fault = MkdirFault(Visible, p)
  OBVIOUS
<1>2. PICK o \in Seq(Observing) : o = SeeParent(p)
  BY EarlyScripts
<1>3. Attempt(fault, o, o \o <<Want(p), Put(p, Fresh(DirNode(mode))), Emit>>)
  BY <1>1, <1>2 DEF Mkdir
<1>4. CASE fault = "Ok"
  <2>1. p \in Path /\ Kind(Visible, Front(p)) = "dir" /\ Kind(Visible, p) = "none"
    BY <1>1, <1>4 DEF MkdirFault, DirFault, Place
  <2>2. DirNode(mode) \in Node
    BY NodesAre
  <2>3. PICK slot \in SoundSlot : slot = Fresh(DirNode(mode)) /\ slot.node = DirNode(mode)
    BY <2>2, FreshIs
  <2>4. Perform(o \o <<Want(p), Put(p, slot), Emit>>, Failing("Ok"))
    BY <1>3, <1>4, <2>3 DEF Attempt
  <2>5. ~failed => Rooted([Visible EXCEPT ![p] = DirNode(mode)])
    BY <2>1, <2>2, VisibleIsTree, PutRooted
  <2>6. ~failed => Rooted([Visible EXCEPT ![p] = slot.node])
    BY <2>3, <2>5
  <2>7. IInv' /\ base' = base /\ Does(<<"Ok", None>>, [Visible EXCEPT ![p] = slot.node])
    BY <2>1, <2>4, <2>6, ChangeKeeps
  <2> QED
    BY <1>1, <1>4, <2>3, <2>7
<1>5. CASE fault # "Ok"
  <2>1. IInv' /\ base' = base /\ Does(<<fault, None>>, Visible)
    BY <1>3, <1>5, RefusedKeeps
  <2> QED
    BY <1>1, <1>5, <2>1
<1> QED
  BY <1>4, <1>5

(* set_mode changes the mode and nothing else, also of a lazy file.         *)
LEMMA SetModeDoes ==
  ASSUME IInv, NEW p \in Place, NEW mode \in Modes, SetMode(p, mode)
  PROVE  /\ IInv' /\ base' = base
         /\ Does(<<SetModeFault(Visible, p), None>>,
                 IF SetModeFault(Visible, p) = "Ok" THEN [Visible EXCEPT ![p].mode = mode]
                 ELSE Visible)
<1>1. PICK fault : fault = SetModeFault(Visible, p)
  OBVIOUS
<1>2. PICK o \in Seq(Observing) : o = IF p = Root THEN <<>> ELSE <<See(p), Emit>>
  BY EarlyScripts
<1>3. PICK slot : slot = Resolve(overlay, p)
  OBVIOUS
<1>4. Attempt(fault, o,
              IF slot.node.mode = mode THEN o
              ELSE o \o <<Want(p), Put(p, [slot EXCEPT !.node.mode = mode]), Emit>>)
  BY <1>1, <1>2, <1>3 DEF SetMode
<1>5. CASE fault = "Ok"
  <2>1. p \in Path /\ Kind(Visible, p) # "none"
    BY <1>1, <1>5 DEF SetModeFault, Place
  <2>2. slot \in SoundSlot /\ slot.node = Visible[p] /\ Visible[p] \in Node /\ Visible[p] # None
    BY <1>3, <2>1, Typed, KindIs
  <2>3. DOMAIN Visible = Path
    BY DEF Visible
  <2>4. CASE slot.node.mode = mode
    <3>1. PICK result : result = Failing("Ok")
      OBVIOUS
    <3>2. Perform(o, result)
      BY <1>4, <1>5, <2>4, <3>1 DEF Attempt
    <3>3. IInv' /\ base' = base /\ Does(result, Visible)
      BY <3>2, LookKeeps
    <3>4. [Visible EXCEPT ![p].mode = mode] = Visible
      <4>1. PICK n \in Node : n = Visible[p]
        BY <2>2
      <4>2. [n EXCEPT !.mode = mode] = n
        BY <2>2, <2>4, <4>1 DEF Node
      <4>3. PICK m : m = [n EXCEPT !.mode = mode]
        OBVIOUS
      <4>4. Visible \in Tree
        BY Typed
      <4>5. [Visible EXCEPT ![p] = n] = Visible
        BY <4>1, <4>4 DEF Tree
      <4> QED
        BY <4>1, <4>2, <4>5
    <3>5. result = <<"Ok", None>>
      BY <3>1 DEF Failing
    <3> QED
      BY <1>1, <1>5, <3>3, <3>4, <3>5
  <2>5. CASE slot.node.mode # mode
    <3>1. PICK n \in Node : n = [Visible[p] EXCEPT !.mode = mode] /\ n.kind = Visible[p].kind
                            /\ n.data = Visible[p].data
      <4>1. PICK m \in Node : m = Visible[p]
        BY <2>2
      <4>2. [m EXCEPT !.mode = mode] \in Node /\ [m EXCEPT !.mode = mode].kind = m.kind
            /\ [m EXCEPT !.mode = mode].data = m.data
        BY DEF Node
      <4> QED
        BY <4>1, <4>2
    <3>2. PICK s : s = [slot EXCEPT !.node.mode = mode]
      OBVIOUS
    <3>3. s \in SoundSlot /\ s.node = n
      <4>1. slot = [node |-> slot.node, origin |-> slot.origin] /\ FromBase(slot)
            /\ slot.origin \in Path \cup {None}
        BY <2>2, SlotIs
      <4>2. s = [node |-> n, origin |-> slot.origin]
        BY <2>2, <3>1, <3>2, <4>1
      <4>3. n # None
        BY NodesAre
      <4>4. FromBase(s)
        <5>1. s.origin = slot.origin /\ s.node = n
          BY <4>2
        <5> QED
          BY <2>2, <3>1, <4>1, <5>1 DEF FromBase
      <4> QED
        BY <4>1, <4>2, <4>3, <4>4 DEF SoundSlot
    <3>4. Perform(o \o <<Want(p), Put(p, s), Emit>>, Failing("Ok"))
      BY <1>4, <1>5, <2>5, <3>2 DEF Attempt
    <3>5. ~failed => Rooted([Visible EXCEPT ![p] = n])
      <4>1. Kind(Visible, p) = "dir" => n.kind = "dir"
        BY <2>1, <2>2, <3>1, Typed, KindIs
      <4>2. ~failed => Kind(Visible, Front(p)) = "dir"
        BY <2>1, <2>2, VisibleIsTree DEF Rooted
      <4> QED
        BY <2>1, <4>1, <4>2, VisibleIsTree, PutRooted
    <3>6. ~failed => Rooted([Visible EXCEPT ![p] = s.node])
      BY <3>3, <3>5
    <3>7. IInv' /\ base' = base /\ Does(<<"Ok", None>>, [Visible EXCEPT ![p] = s.node])
      BY <2>1, <3>3, <3>4, <3>6, ChangeKeeps
    <3>8. [Visible EXCEPT ![p].mode = mode] = [Visible EXCEPT ![p] = n]
      BY <3>1
    <3> QED
      BY <1>1, <1>5, <3>3, <3>7, <3>8
  <2> QED
    BY <2>4, <2>5
<1>6. CASE fault # "Ok"
  <2>1. PICK script : script = IF slot.node.mode = mode THEN o
              ELSE o \o <<Want(p), Put(p, [slot EXCEPT !.node.mode = mode]), Emit>>
    OBVIOUS
  <2>2. Attempt(fault, o, script)
    BY <1>4, <2>1
  <2>3. IInv' /\ base' = base /\ Does(<<fault, None>>, Visible)
    BY <1>6, <2>2, RefusedKeeps
  <2> QED
    BY <1>1, <1>6, <2>3
<1> QED
  BY <1>5, <1>6

(* A path with nothing below it goes.                                       *)
LEMMA DropKeeps ==
  ASSUME IInv, NEW o \in Seq(Observing), NEW p \in Path,
         Perform(o \o <<Want(p), Put(p, Tombstone), Emit>>, Failing("Ok")),
         Kind(Visible, p) # "dir" \/ Children(Visible, p) = {}
  PROVE  IInv' /\ base' = base /\ Does(<<"Ok", None>>, [Visible EXCEPT ![p] = None])
<1>1. PICK slot \in SoundSlot : slot = Tombstone /\ slot.node = None
  BY TombstoneIs
<1>2. Perform(o \o <<Want(p), Put(p, slot), Emit>>, Failing("Ok"))
  BY <1>1
<1>3. ~failed => Rooted([Visible EXCEPT ![p] = None])
  BY VisibleIsTree, DropRooted
<1>4. ~failed => Rooted([Visible EXCEPT ![p] = slot.node])
  BY <1>1, <1>3
<1>5. IInv' /\ base' = base /\ Does(<<"Ok", None>>, [Visible EXCEPT ![p] = slot.node])
  BY <1>2, <1>4, ChangeKeeps
<1> QED
  BY <1>1, <1>5

(* unlink removes a file or a link.                                         *)
LEMMA UnlinkDoes ==
  ASSUME IInv, NEW p \in Place, Unlink(p)
  PROVE  /\ IInv' /\ base' = base
         /\ Does(<<UnlinkFault(Visible, p), None>>,
                 IF UnlinkFault(Visible, p) = "Ok" THEN [Visible EXCEPT ![p] = None] ELSE Visible)
<1>1. PICK fault : fault = UnlinkFault(Visible, p)
  OBVIOUS
<1>2. PICK script : script = <<See(p), Want(p), Put(p, Tombstone), Emit>>
  OBVIOUS
<1>3. PICK early \in Seq(Observing) : early = SeeItself(p)
  BY EarlyScripts
<1>4. Attempt(fault, early, script)
  BY <1>1, <1>2, <1>3 DEF Unlink
<1>5. CASE fault = "Ok"
  <2>1. p \in Path /\ Kind(Visible, p) # "dir"
    BY <1>1, <1>5 DEF UnlinkFault, Place
  <2>2. PICK o \in Seq(Observing) : o = <<See(p)>>
    BY EarlyScripts
  <2>3. script = o \o <<Want(p), Put(p, Tombstone), Emit>>
    BY <1>2, <2>2
  <2>4. Perform(o \o <<Want(p), Put(p, Tombstone), Emit>>, Failing("Ok"))
    BY <1>4, <1>5, <2>3 DEF Attempt
  <2>5. IInv' /\ base' = base /\ Does(<<"Ok", None>>, [Visible EXCEPT ![p] = None])
    BY <2>1, <2>4, DropKeeps
  <2> QED
    BY <1>1, <1>5, <2>5
<1>6. CASE fault # "Ok"
  <2>1. IInv' /\ base' = base /\ Does(<<fault, None>>, Visible)
    BY <1>4, <1>6, RefusedKeeps
  <2> QED
    BY <1>1, <1>6, <2>1
<1> QED
  BY <1>5, <1>6

(* rmdir removes an empty directory.                                        *)
LEMMA RmdirDoes ==
  ASSUME IInv, NEW p \in Place, Rmdir(p)
  PROVE  /\ IInv' /\ base' = base
         /\ Does(<<RmdirFault(Visible, p), None>>,
                 IF RmdirFault(Visible, p) = "Ok" THEN [Visible EXCEPT ![p] = None] ELSE Visible)
<1>1. PICK fault : fault = RmdirFault(Visible, p)
  OBVIOUS
<1>2. PICK script : script = <<See(p), List(p), Emit, Want(p), Put(p, Tombstone), Emit>>
  OBVIOUS
<1>3. PICK early \in Seq(Observing) :
        early = IF fault = "DirectoryNotEmpty" THEN <<See(p), List(p), Emit>> ELSE SeeItself(p)
  BY EarlyScripts
<1>4. Attempt(fault, early, script)
  BY <1>1, <1>2, <1>3 DEF Rmdir
<1>5. CASE fault = "Ok"
  <2>1. p \in Path /\ Children(Visible, p) = {}
    BY <1>1, <1>5 DEF RmdirFault, Place
  <2>2. PICK o \in Seq(Observing) : o = <<See(p), List(p), Emit>>
    BY EarlyScripts
  <2>3. script = o \o <<Want(p), Put(p, Tombstone), Emit>>
    BY <1>2, <2>2
  <2>4. Perform(o \o <<Want(p), Put(p, Tombstone), Emit>>, Failing("Ok"))
    BY <1>4, <1>5, <2>3 DEF Attempt
  <2>5. IInv' /\ base' = base /\ Does(<<"Ok", None>>, [Visible EXCEPT ![p] = None])
    BY <2>1, <2>4, DropKeeps
  <2> QED
    BY <1>1, <1>5, <2>5
<1>6. CASE fault # "Ok"
  <2>1. IInv' /\ base' = base /\ Does(<<fault, None>>, Visible)
    BY <1>4, <1>6, RefusedKeeps
  <2> QED
    BY <1>1, <1>6, <2>1
<1> QED
  BY <1>5, <1>6

(* remove_tree removes a path and all below it.                             *)
LEMMA RemoveTreeDoes ==
  ASSUME IInv, NEW p \in Place, RemoveTree(p)
  PROVE  /\ IInv' /\ base' = base
         /\ Does(<<RemoveTreeFault(Visible, p), None>>,
                 IF RemoveTreeFault(Visible, p) = "Ok" THEN Cleared(Visible, p) ELSE Visible)
<1>1. PICK fault : fault = RemoveTreeFault(Visible, p)
  OBVIOUS
<1>2. PICK script : script = <<See(p)>>
         \o FlattenSeq(EachBack(Subtree(Visible, p), LAMBDA x : <<Want(x), Emit>>))
         \o Buried(Subtree(Visible, p))
  OBVIOUS
<1>3. PICK early \in Seq(Observing) : early = SeeItself(p)
  BY EarlyScripts
<1>4. Attempt(fault, early, script)
  BY <1>1, <1>2, <1>3 DEF RemoveTree
<1>5. CASE fault = "Ok"
  <2>1. p \in Path
    BY <1>1, <1>5 DEF RemoveTreeFault, Place
  <2>2. Leaves(Run(Now, script), Cleared(TreeOf(overlay), p))
    BY <1>2, RemoveTreeLeaves
  <2>3. PICK t : t = Cleared(TreeOf(overlay), p)
    OBVIOUS
  <2>4. ~failed => t = Cleared(Visible, p) /\ Rooted(t)
    BY <2>1, <2>3, VisibleIsTree, ClearedRooted
  <2>5. PICK result : result = Failing("Ok")
    OBVIOUS
  <2>6. Perform(script, result)
    BY <1>4, <1>5, <2>5 DEF Attempt
  <2>7. IInv' /\ base' = base /\ Does(result, t)
    BY <2>2, <2>3, <2>4, <2>6, PerformKeeps
  <2>8. result = <<"Ok", None>>
    BY <2>5 DEF Failing
  <2> QED
    BY <1>1, <1>5, <2>4, <2>7, <2>8 DEF Does
<1>6. CASE fault # "Ok"
  <2>1. IInv' /\ base' = base /\ Does(<<fault, None>>, Visible)
    BY <1>4, <1>6, RefusedKeeps
  <2> QED
    BY <1>1, <1>6, <2>1
<1> QED
  BY <1>5, <1>6

(* rename moves a path and all below it over what was there.                *)
LEMMA RenameDoes ==
  ASSUME IInv, NEW from \in Place, NEW to \in Place, Rename(from, to)
  PROVE  /\ IInv' /\ base' = base
         /\ Does(<<RenameFault(Visible, from, to), None>>,
                 IF RenameFault(Visible, from, to) # "Ok" \/ from = to THEN Visible
                 ELSE Moved(Visible, from, to))
<1>1. PICK fault : fault = RenameFault(Visible, from, to)
  OBVIOUS
<1>2. PICK blind : blind = (from = to \/ fault \in {"RootMutation", "InvalidRename"})
  OBVIOUS
<1>3. PICK script : script = IF blind THEN <<>> ELSE RenameScript(from, to)
  OBVIOUS
<1>4. PICK early \in Seq(Observing) :
         early = IF blind THEN <<>> ELSE <<See(from), See(to), See(Front(to))>>
  <2>1. CASE blind
    BY <2>1, EarlyScripts
  <2>2. CASE ~blind
    <3>1. to # Root
      BY <1>1, <1>2, <2>2 DEF RenameFault
    <3>2. Front(to) \in Place
      BY <3>1, FrontIs DEF Place
    <3>3. <<See(from), See(to), See(Front(to))>> \in Seq(Observing)
      BY <3>2, EarlyScripts
    <3> QED
      BY <2>2, <3>3
  <2> QED
    BY <2>1, <2>2
<1>5. /\ fault = "Ok" /\ from # to => \A x \in Subtree(Visible, from) : Rebase(x, from, to) \in Path
      /\ Attempt(fault, early, script)
  BY <1>1, <1>2, <1>3, <1>4 DEF Rename
<1>6. CASE fault # "Ok"
  <2>1. IInv' /\ base' = base /\ Does(<<fault, None>>, Visible)
    BY <1>5, <1>6, RefusedKeeps
  <2> QED
    BY <1>1, <1>6, <2>1
<1>7. CASE fault = "Ok" /\ from = to
  <2>1. PICK s \in Seq(Observing) : s = script
    BY <1>2, <1>3, <1>7, EarlyScripts
  <2>2. PICK result : result = Failing("Ok")
    OBVIOUS
  <2>3. Perform(s, result)
    BY <1>5, <1>7, <2>1, <2>2 DEF Attempt
  <2>4. IInv' /\ base' = base /\ Does(result, Visible)
    BY <2>3, LookKeeps
  <2> QED
    BY <1>1, <1>7, <2>2, <2>4 DEF Failing
<1>8. CASE fault = "Ok" /\ from # to
  <2>1. from \in Path /\ to \in Path
    BY <1>1, <1>8 DEF RenameFault, Place
  <2>2. script = RenameScript(from, to)
    BY <1>2, <1>3, <1>8
  <2>3. Leaves(Run(Now, script), Moved(TreeOf(overlay), from, to))
    BY <1>1, <1>5, <1>8, <2>1, <2>2, RenameLeaves
  <2>4. PICK t : t = Moved(TreeOf(overlay), from, to)
    OBVIOUS
  <2>5. ~failed => t = Moved(Visible, from, to) /\ Rooted(t)
    BY <1>1, <1>8, <2>1, <2>4, VisibleIsTree, MovedRooted
  <2>6. PICK result : result = Failing("Ok")
    OBVIOUS
  <2>7. Perform(script, result)
    BY <1>5, <1>8, <2>6 DEF Attempt
  <2>8. IInv' /\ base' = base /\ Does(result, t)
    BY <2>3, <2>4, <2>5, <2>7, PerformKeeps
  <2>9. result = <<"Ok", None>>
    BY <2>6 DEF Failing
  <2> QED
    BY <1>1, <1>8, <2>5, <2>8, <2>9 DEF Does
<1> QED
  BY <1>6, <1>7, <1>8

(* record_policy_denial changes no file.                                    *)
LEMMA DenialDoes ==
  ASSUME IInv, RetainDenial
  PROVE  IInv' /\ base' = base /\ Does(<<"PolicyDenied", None>>, Visible)
<1>1. <<Emit>> \in Seq(Observing)
  <2>1. Emit \in Observing
    BY DEF Observing
  <2> QED
    BY <2>1
<1>2. PICK script \in Seq(Observing) : script = <<Emit>>
  BY <1>1
<1>3. PICK result : result = <<"PolicyDenied", None>>
  OBVIOUS
<1>4. Perform(script, result)
  BY <1>2, <1>3 DEF RetainDenial, Failing
<1>5. IInv' /\ base' = base /\ Does(result, Visible)
  BY <1>4, LookKeeps
<1> QED
  BY <1>3, <1>5

-----------------------------------------------------------------------------
(* The steps that run no script.                                            *)
LEMMA SameFiles ==
  ASSUME IInv, base' = base, overlay' = overlay
  PROVE  Visible' = Visible /\ Relocated' = Relocated /\ TreeOf(overlay)' = TreeOf(overlay)
<1>1. Visible' = Visible
  BY DEF Visible, Resolve, Hidden, Slot
<1>2. Candidates' = Candidates
  BY DEF Candidates
<1>3. Relocated' = Relocated
  BY <1>2 DEF Relocated, Resolve, Hidden, Slot
<1>4. TreeOf(overlay)' = TreeOf(overlay)
  BY DEF TreeOf
<1> QED
  BY <1>1, <1>3, <1>4

(* set_evidence_limits changes no file.                                     *)
LEMMA LimitDoes ==
  ASSUME IInv, NEW l \in Limits, LimitEvidence(l)
  PROVE  IInv' /\ base' = base /\ Visible' = Visible /\ answer' = answer /\ (failed => failed')
<1>1. /\ base \in Bases /\ limit \in Nat /\ Sound(Now) /\ (~failed => Rooted(TreeOf(overlay)))
      /\ failed \in BOOLEAN
  BY NowIs DEF IInv
<1>2. /\ base' = base /\ overlay' = overlay /\ phase' = "open" /\ answer' = answer
      /\ reads' = reads /\ writes' = writes /\ captured' = captured /\ ledger' = ledger
      /\ records' = records /\ failed' = (failed \/ records > limit')
      /\ limit' \in {l, limit}
  BY DEF LimitEvidence, files
<1>3. limit' \in Nat /\ failed' \in BOOLEAN
  BY <1>1, <1>2, LimitsAssumption
<1>4. Evidence' = Evidence /\ SoundSlot' = SoundSlot
  BY <1>2 DEF Evidence, SoundSlot, FromBase
<1>5. Scribe' = Scribe
  BY <1>4 DEF Scribe, Overlays
<1>6. /\ reads \in SUBSET Evidence /\ writes \in SUBSET Path /\ overlay \in Overlays
      /\ captured \in SUBSET Path /\ ledger \in Nat /\ records \in Nat
      /\ DOMAIN overlay \subseteq writes /\ IsFiniteSet(writes)
      /\ records = Cardinality(PathsOf(reads)) + Cardinality(writes) + ledger
  BY <1>1, NowIs
<1>7. IsFiniteSet(reads)
  BY <1>1 DEF Sound, Now
<1>8. PICK r : r = [reads |-> reads, writes |-> writes, overlay |-> overlay,
                    captured |-> captured, ledger |-> ledger, records |-> records,
                    failed |-> failed']
  OBVIOUS
<1>9. Now' = r /\ r \in Scribe
  <2>1. Now' = r
    BY <1>2, <1>8 DEF Now
  <2>2. r \in Scribe
    BY <1>3, <1>6, <1>8 DEF Scribe
  <2> QED
    BY <2>1, <2>2
<1>10. /\ IsFiniteSet(r.reads) /\ IsFiniteSet(r.writes)
       /\ DOMAIN r.overlay \subseteq r.writes
       /\ r.records = Cardinality(PathsOf(r.reads)) + Cardinality(r.writes) + r.ledger
       /\ r.records > limit' => r.failed
  BY <1>2, <1>6, <1>7, <1>8
<1>11. Sound(Now)'
  BY <1>5, <1>9, <1>10 DEF Sound
<1>12. Visible' = Visible /\ TreeOf(overlay)' = TreeOf(overlay)
  BY <1>2, SameFiles
<1>13. (~failed => Rooted(TreeOf(overlay)))'
  BY <1>1, <1>2, <1>12 DEF Rooted
<1>14. IInv'
  BY <1>1, <1>2, <1>3, <1>11, <1>13 DEF IInv
<1> QED
  BY <1>2, <1>12, <1>14

(* An edit of the workspace by the host does not show in the transaction.   *)
LEMMA HostEditDoes ==
  ASSUME IInv, NEW p, HostEdit(p)
  PROVE  IInv' /\ base' = base /\ Visible' = Visible /\ answer' = answer /\ failed' = failed
<1>1. /\ base' = base /\ overlay' = overlay /\ phase' = "open" /\ answer' = answer
      /\ limit' = limit /\ failed' = failed /\ Now' = Now
  BY DEF HostEdit, Now, evidence
<1>2. /\ base \in Bases /\ limit \in Nat /\ Sound(Now) /\ (~failed => Rooted(TreeOf(overlay)))
  BY DEF IInv
<1>3. PICK r : r = Now
  OBVIOUS
<1>4. Sound(Now)'
  BY <1>1, <1>2, <1>3, SoundNext
<1>5. Visible' = Visible /\ TreeOf(overlay)' = TreeOf(overlay)
  BY <1>1, SameFiles
<1>6. (~failed => Rooted(TreeOf(overlay)))'
  BY <1>1, <1>2, <1>5 DEF Rooted
<1> QED
  BY <1>1, <1>2, <1>4, <1>5, <1>6 DEF IInv

(* What capture_before and canonical_diff leave.                            *)
LEMMA CaptureDoes ==
  ASSUME IInv, NEW wanted \in SUBSET Path, Capture(wanted), ~failed,
         UNCHANGED <<base, edited, overlay, evidence, answer, ops>>,
         Relocated \subseteq captured \cup wanted
  PROVE  IInv' /\ base' = base /\ Visible' = Visible /\ answer' = answer /\ failed' = failed
<1>1. /\ base' = base /\ overlay' = overlay /\ answer' = answer
      /\ limit' = limit /\ failed' = failed /\ reads' = reads /\ writes' = writes
      /\ ledger' = ledger /\ records' = records
  BY DEF evidence
<1>2. /\ base \in Bases /\ limit \in Nat /\ Sound(Now) /\ Rooted(TreeOf(overlay))
      /\ captured \in SUBSET Path
  BY NowIs DEF IInv
<1>3. /\ captured' \in SUBSET Path
      /\ \/ phase' = "lost"
         \/ /\ phase' = "diffed" /\ captured' = captured \cup wanted
            /\ diff' = DiffAfter(captured, captured')
  BY <1>2 DEF Capture
<1>4. PICK c \in SUBSET Path : c = captured'
  BY <1>3
<1>5. PICK r : r = [Now EXCEPT !.captured = c]
  OBVIOUS
<1>6. Now' = r
  BY <1>1, <1>4, <1>5 DEF Now
<1>7. Sound(r)
  <2>1. Now \in Scribe
    BY <1>2 DEF Sound
  <2> HIDE DEF Now
  <2>2. /\ r \in Scribe /\ r.reads = Now.reads /\ r.writes = Now.writes
        /\ r.overlay = Now.overlay /\ r.ledger = Now.ledger /\ r.records = Now.records
        /\ r.failed = Now.failed
    BY <1>5, <2>1 DEF Scribe
  <2> QED
    BY <1>2, <2>2 DEF Sound
<1>8. Sound(Now)'
  BY <1>1, <1>6, <1>7, SoundNext
<1>9. Visible' = Visible /\ TreeOf(overlay)' = TreeOf(overlay) /\ Relocated' = Relocated
  BY <1>1, SameFiles
<1>10. Rooted(TreeOf(overlay))'
  BY <1>2, <1>9 DEF Rooted
<1>11. (phase = "diffed" => Settled)'
  <2> SUFFICES ASSUME phase' = "diffed" PROVE Settled'
    OBVIOUS
  <2>1. captured' = captured \cup wanted /\ diff' = DiffAfter(captured, captured')
    BY <1>3
  <2>2. (Relocated \subseteq captured)'
    BY <1>9, <2>1
  <2>3. Candidates' = Candidates
    BY <1>1 DEF Candidates
  <2>4. Entries(captured, captured)' = Entries(captured', captured')
    BY <1>1, <2>3 DEF Entries, BaseSlot, Resolve, Hidden, Slot
  <2>5. diff' = Entries(captured', captured')
    BY <2>1 DEF DiffAfter
  <2> QED
    BY <1>1, <2>2, <2>4, <2>5 DEF Settled
<1>12. IInv'
  BY <1>1, <1>2, <1>8, <1>10, <1>11 DEF IInv
<1> QED
  BY <1>1, <1>9, <1>12

(* canonical_diff looks at every overlay entry and nothing outside its paths. *)
LEMMA CandidatesAre ==
  ASSUME IInv
  PROVE  /\ DOMAIN overlay \subseteq Candidates /\ Candidates \subseteq Path
         /\ Relocated \subseteq Path
         /\ ~failed => Candidates = DOMAIN overlay
<1>1. base \in Bases /\ overlay \in Overlays /\ DOMAIN overlay \subseteq Path
  BY Typed, OverlayIs
<1>2. DOMAIN overlay \subseteq Candidates /\ Candidates \subseteq Path
  BY <1>1 DEF Candidates, Subtree, Below
<1>3. Relocated \subseteq Path
  <2> SUFFICES ASSUME NEW p \in Candidates, Resolve(overlay, p).node # None,
                      Resolve(overlay, p).origin # None
               PROVE  Resolve(overlay, p).origin \in Path
    BY DEF Relocated
  <2>1. p \in Path
    BY <1>2
  <2>2. Resolve(overlay, p) \in SoundSlot
    BY <1>1, <2>1, VisibleTyped
  <2> QED
    BY <2>2, SlotIs
<1>4. ASSUME ~failed, NEW p \in Candidates PROVE p \in DOMAIN overlay
  <2> SUFFICES ASSUME p \notin DOMAIN overlay PROVE FALSE
    OBVIOUS
  <2>1. PICK q \in DOMAIN overlay : overlay[q].node = None /\ p \in Subtree(base, q)
    BY DEF Candidates
  <2>2. p \in Path /\ q \in Path /\ IsPrefix(q, p) /\ base[p] # None /\ p # q
    BY <1>1, <2>1 DEF Subtree, Below
  <2>3. IsStrictPrefix(q, p) /\ q \in Place
    BY <2>2, PlaceIsSequence DEF IsStrictPrefix
  <2>4. PICK t : t = TreeOf(overlay)
    OBVIOUS
  <2>5. t \in Tree /\ Rooted(t)
    BY <1>4, <2>4, VisibleIsTree
  <2>6. t[p] # None /\ t[q] = None
    BY <2>1, <2>2, <2>4 DEF TreeOf
  <2>7. Kind(t, q) = "dir"
    BY <2>2, <2>3, <2>5, <2>6, AncestorsAreDirectories
  <2> QED
    BY <2>2, <2>5, <2>6, <2>7, KindIs
<1> QED
  BY <1>2, <1>3, <1>4

(* capture_before and canonical_diff change no file.                        *)
LEMMA TakeDiffDoes ==
  ASSUME IInv, TakeDiff
  PROVE  IInv' /\ base' = base /\ Visible' = Visible /\ answer' = answer /\ failed' = failed
<1>1. PICK wanted : wanted = Relocated
  OBVIOUS
<1>2. wanted \in SUBSET Path /\ Relocated \subseteq captured \cup wanted
  BY <1>1, CandidatesAre
<1>3. Capture(wanted) /\ ~failed /\ UNCHANGED <<base, edited, overlay, evidence, answer, ops>>
  BY <1>1 DEF TakeDiff
<1> QED
  BY <1>2, <1>3, CaptureDoes

(* review_effects changes no file.                                          *)
LEMMA ReviewDoes ==
  ASSUME IInv, NEW paths \in SUBSET Path, Review(paths)
  PROVE  IInv' /\ base' = base /\ Visible' = Visible /\ answer' = answer /\ failed' = failed
<1>1. PICK wanted : wanted = {p \in paths : base[p].kind # "dir"}
  OBVIOUS
<1>2. ~failed /\ Relocated \subseteq captured
  BY DEF Review, IInv, Settled
<1>3. wanted \in SUBSET Path /\ Relocated \subseteq captured \cup wanted
  BY <1>1, <1>2
<1>4. Capture(wanted) /\ UNCHANGED <<base, edited, overlay, evidence, answer, ops>>
  BY <1>1 DEF Review
<1> QED
  BY <1>2, <1>3, <1>4, CaptureDoes

-----------------------------------------------------------------------------
(* VirtualFs::new: an empty overlay over a rooted base.                     *)
LEMMA InitKeeps == Init => IInv
<1> SUFFICES ASSUME Init PROVE IInv
  OBVIOUS
<1>1. /\ base \in Bases /\ overlay = <<>> /\ reads = {} /\ writes = {} /\ captured = {}
      /\ ledger = 0 /\ records = 0 /\ limit = MostRecords /\ failed = FALSE /\ phase = "open"
  BY DEF Init
<1>2. limit \in Nat
  BY <1>1, LimitsAssumption
<1>3. overlay \in Overlays /\ DOMAIN overlay = {}
  <2>1. overlay = [x \in {} |-> x] /\ DOMAIN overlay = {}
    BY <1>1
  <2>2. overlay \in [DOMAIN overlay -> SoundSlot] /\ DOMAIN overlay \subseteq Path
    BY <2>1
  <2> QED
    BY <2>1, <2>2, OverlayIs
<1>4. Now \in Scribe
  BY <1>1, <1>3 DEF Now, Scribe
<1>5. PathsOf({}) = {}
  BY DEF PathsOf
<1>6. Cardinality({}) = 0 /\ IsFiniteSet({})
  BY FS_EmptySet
<1>7. Sound(Now)
  <2>1. /\ Now.reads = {} /\ Now.writes = {} /\ Now.overlay = overlay /\ Now.ledger = 0
        /\ Now.records = 0
    BY <1>1 DEF Now
  <2>2. ~(0 > limit)
    BY <1>2
  <2> HIDE DEF Now
  <2>3. Cardinality(PathsOf(Now.reads)) = 0 /\ Cardinality(Now.writes) = 0
    BY <1>5, <1>6, <2>1
  <2>4. IsFiniteSet(Now.reads) /\ IsFiniteSet(Now.writes) /\ DOMAIN Now.overlay \subseteq Now.writes
    BY <1>3, <1>6, <2>1
  <2>5. Now.records = Cardinality(PathsOf(Now.reads)) + Cardinality(Now.writes) + Now.ledger
    BY <2>1, <2>3
  <2>6. ~(Now.records > limit)
    BY <2>1, <2>2
  <2> QED
    BY <1>4, <2>4, <2>5, <2>6 DEF Sound
<1>8. TreeOf(overlay) = base
  <2>1. base \in Tree
    BY <1>1, BaseIs
  <2>2. TreeOf(overlay) = [p \in Path |-> base[p]]
    BY <1>3 DEF TreeOf
  <2> QED
    BY <2>1, <2>2 DEF Tree
<1>9. Rooted(TreeOf(overlay))
  BY <1>1, <1>8, BaseIs
<1> QED
  BY <1>1, <1>2, <1>7, <1>9 DEF IInv

(* A transaction that does nothing keeps the invariant.                     *)
LEMMA StutterKeeps == IInv /\ UNCHANGED vars => IInv'
<1> SUFFICES ASSUME IInv, UNCHANGED vars PROVE IInv'
  OBVIOUS
<1>1. /\ base' = base /\ captured' = captured /\ overlay' = overlay /\ Now' = Now
      /\ limit' = limit /\ failed' = failed /\ phase' = phase /\ diff' = diff
  BY DEF vars, files, evidence, Now
<1>2. PICK r : r = Now
  OBVIOUS
<1>3. Sound(Now)'
  BY <1>1, <1>2, SoundNext DEF IInv
<1>4. TreeOf(overlay)' = TreeOf(overlay) /\ Relocated' = Relocated
  BY <1>1, SameFiles
<1>5. (~failed => Rooted(TreeOf(overlay)))'
  BY <1>1, <1>4 DEF IInv, Rooted
<1>6. Candidates' = Candidates
  BY <1>1 DEF Candidates
<1>7. Entries(captured, captured)' = Entries(captured, captured)
  BY <1>1, <1>6 DEF Entries, BaseSlot, Resolve, Hidden, Slot
<1>8. (phase = "diffed" => Settled)'
  BY <1>1, <1>4, <1>7 DEF IInv, Settled
<1> QED
  BY <1>1, <1>3, <1>5, <1>8 DEF IInv

(* The operations that only look keep the invariant,                        *)
LEMMA ObservationKeeps == ASSUME IInv, Observation PROVE IInv'
BY MetadataDoes, ReadDirDoes, ReadDoes DEF Observation

(* the operations that change files keep it,                                *)
LEMMA MutateKeeps == ASSUME IInv, Mutate PROVE IInv'
<1>1. PICK p \in Place :
         \/ \E c \in Chunk : Write(p, c) \/ AppendTo(p, c)
         \/ Mkdir(p, "rw")
         \/ \E mode \in Modes : SetMode(p, mode)
         \/ Unlink(p)
         \/ Rmdir(p)
         \/ RemoveTree(p)
         \/ \E to \in Place : Rename(p, to)
  BY DEF Mutate
<1>2. CASE \E c \in Chunk : Write(p, c) \/ AppendTo(p, c)
  BY <1>2, WriteDoes, AppendDoes
<1>3. CASE Mkdir(p, "rw")
  <2>1. "rw" \in Modes
    BY NodesAre
  <2> QED
    BY <1>3, <2>1, MkdirDoes
<1>4. CASE \E mode \in Modes : SetMode(p, mode)
  BY <1>4, SetModeDoes
<1>5. CASE Unlink(p)
  BY <1>5, UnlinkDoes
<1>6. CASE Rmdir(p)
  BY <1>6, RmdirDoes
<1>7. CASE RemoveTree(p)
  BY <1>7, RemoveTreeDoes
<1>8. CASE \E to \in Place : Rename(p, to)
  BY <1>8, RenameDoes
<1> QED
  BY <1>1, <1>2, <1>3, <1>4, <1>5, <1>6, <1>7, <1>8

(* and so does every step of the transaction.                               *)
LEMMA NextKeeps == IInv /\ [Next]_vars => IInv'
<1> SUFFICES ASSUME IInv, [Next]_vars PROVE IInv'
  OBVIOUS
<1>1. CASE Observation
  BY <1>1, ObservationKeeps
<1>2. CASE Mutate
  BY <1>2, MutateKeeps
<1>3. CASE RetainDenial
  BY <1>3, DenialDoes
<1>4. CASE \E l \in Limits : LimitEvidence(l)
  BY <1>4, LimitDoes
<1>5. CASE \E p \in Editable : HostEdit(p)
  BY <1>5, HostEditDoes
<1>6. CASE TakeDiff
  BY <1>6, TakeDiffDoes
<1>7. CASE \E paths \in SUBSET Path : Review(paths)
  BY <1>7, ReviewDoes
<1>8. CASE UNCHANGED vars
  BY <1>8, StutterKeeps
<1> QED
  BY <1>1, <1>2, <1>3, <1>4, <1>5, <1>6, <1>7, <1>8 DEF Next

(* The inductive invariant of a transaction's files: the overlay's tree is  *)
(* rooted while the budget lasts, slots that name an origin hold its        *)
(* content, and the evidence sets, their charge and the settled diff agree. *)
THEOREM VirtualFsInvariant == Spec => []IInv
<1>1. Init => IInv
  BY InitKeeps
<1>2. IInv /\ [Next]_vars => IInv'
  BY NextKeeps
<1> QED
  BY <1>1, <1>2, PTL DEF Spec

(* EvidenceIsBase: every fact in the read set is the base's, also where the *)
(* overlay hid or moved the node it was read through (read_entry, Read on a *)
(* renamed lazy file).                                                      *)
THEOREM ReadSetIsBase == Spec => []EvidenceIsBase
<1>1. IInv => EvidenceIsBase
  <2> SUFFICES ASSUME IInv, NEW r \in reads PROVE r[3] = Fact(base, r[1], r[2])
    BY DEF EvidenceIsBase
  <2>1. r \in Evidence
    BY NowIs DEF IInv
  <2>2. PICK p \in Place, a \in Aspects : r = <<p, a, Fact(base, p, a)>>
    BY <2>1 DEF Evidence
  <2> QED
    BY <2>2
<1> QED
  BY <1>1, VirtualFsInvariant, PTL

(* Accounted: one record for each observed path, precondition, effect and   *)
(* denial, whatever step of an operation the budget refused                 *)
(* (EvidenceBudget::reserve, record_write_precondition, push_effect).       *)
THEOREM EvidenceIsCharged == Spec => []Accounted
<1>1. IInv => Accounted
  <2> SUFFICES ASSUME IInv PROVE Accounted
    OBVIOUS
  <2>1. /\ records = Cardinality(PathsOf(reads)) + Cardinality(writes) + ledger
        /\ records > limit => failed
    BY NowIs DEF IInv
  <2> QED
    BY <2>1 DEF Accounted, PathsOf
<1> QED
  BY <1>1, VirtualFsInvariant, PTL

-----------------------------------------------------------------------------
(* The canonical diff.                                                      *)

(* A digest tells a base node from whatever replaces it.                    *)
LEMMA IdentitiesDiffer ==
  ASSUME base \in Bases, NEW p \in Path, NEW slot \in SoundSlot, NEW c, slot.node # base[p]
  PROVE  Identity(BaseSlot(p), c) # Identity(slot, c)
<1>1. /\ slot.node \in Node \cup {None} /\ slot.origin \in Path \cup {None} /\ FromBase(slot)
      /\ base[p] \in Node \cup {None} /\ p \in Path /\ p # None
  BY SlotIs, BaseIs, NodesAre DEF Tree
<1>2. BaseSlot(p).node = base[p] /\ BaseSlot(p).origin = p
  BY DEF BaseSlot
<1> DEFINE Third(s) == CASE s.origin # None /\ (s.node.kind = "dir" \/ s.origin \notin c) -> <<"stamp", s.origin>>
                         [] s.origin = None /\ s.node.kind = "dir" -> None
                         [] OTHER -> <<"blob", s.node.data>>
<1>3. \A s : Identity(s, c) = IF s.node = None THEN None
                              ELSE <<s.node.kind, s.node.mode, Third(s)>>
  BY DEF Identity
<1> HIDE DEF Third
<1>4. \A s : s.node \in Node /\ s.origin \in Path \cup {None} =>
               Third(s) \in Contents \cup {None}
  <2> SUFFICES ASSUME NEW s, s.node \in Node, s.origin \in Path \cup {None}
               PROVE  Third(s) \in Contents \cup {None}
    OBVIOUS
  <2>1. s.node.data \in Seq(Chunk)
    BY NodesAre
  <2>2. <<"blob", s.node.data>> \in Contents
    BY <2>1 DEF Contents
  <2>3. s.origin # None => <<"stamp", s.origin>> \in Contents
    BY DEF Contents
  <2> QED
    BY <2>2, <2>3 DEF Third
<1>5. \A s : s.node \in Node /\ s.origin \in Path \cup {None} =>
               <<s.node.kind, s.node.mode, Third(s)>> # None
  <2> SUFFICES ASSUME NEW s, s.node \in Node, s.origin \in Path \cup {None}
               PROVE  <<s.node.kind, s.node.mode, Third(s)>> # None
    OBVIOUS
  <2>1. <<s.node.kind, s.node.mode, Third(s)>> \in Identities
    BY <1>4, NodesAre DEF Identities
  <2> QED
    BY <2>1, IdentityAssumption
<1>6. CASE base[p] = None
  <2>1. slot.node \in Node /\ slot.node # None
    BY <1>1, <1>6
  <2>2. Identity(BaseSlot(p), c) = None
    BY <1>2, <1>3, <1>6
  <2>3. Identity(slot, c) # None
    BY <1>1, <1>3, <1>5, <2>1
  <2> QED
    BY <2>2, <2>3
<1>7. CASE slot.node = None
  <2>1. base[p] \in Node /\ base[p] # None
    BY <1>1, <1>7
  <2>2. BaseSlot(p).node \in Node /\ BaseSlot(p).origin \in Path \cup {None}
        /\ BaseSlot(p).node # None
    BY <1>2, <2>1
  <2>3. Identity(BaseSlot(p), c) # None
    BY <1>3, <1>5, <2>2
  <2>4. Identity(slot, c) = None
    BY <1>3, <1>7
  <2> QED
    BY <2>3, <2>4
<1>8. CASE base[p] # None /\ slot.node # None
  <2>1. base[p] \in Node /\ slot.node \in Node
    BY <1>1, <1>8
  <2> SUFFICES ASSUME Identity(BaseSlot(p), c) = Identity(slot, c) PROVE FALSE
    OBVIOUS
  <2>2. PICK x : x = Third(BaseSlot(p))
    OBVIOUS
  <2>3. PICK y : y = Third(slot)
    OBVIOUS
  <2>4. <<base[p].kind, base[p].mode, x>> = <<slot.node.kind, slot.node.mode, y>>
    <3>1. Identity(BaseSlot(p), c) = <<base[p].kind, base[p].mode, x>>
      BY <1>2, <1>3, <1>8, <2>2
    <3>2. Identity(slot, c) = <<slot.node.kind, slot.node.mode, y>>
      BY <1>3, <1>8, <2>3
    <3> QED
      BY <3>1, <3>2
  <2>5. base[p].kind = slot.node.kind /\ base[p].mode = slot.node.mode /\ x = y
    BY <2>4
  <2>6. base[p].data # slot.node.data
    <3>1. PICK m \in Node : m = base[p]
      BY <2>1
    <3>2. PICK n \in Node : n = slot.node
      BY <2>1
    <3>3. m # n /\ m.kind = n.kind /\ m.mode = n.mode
      BY <2>5, <3>1, <3>2
    <3>4. m.data # n.data
      BY <3>3 DEF Node
    <3> QED
      BY <3>1, <3>2, <3>4
  <2>7. slot.origin # p
    BY <1>1, <2>6 DEF FromBase
  <2>8. x = IF base[p].kind = "dir" \/ p \notin c THEN <<"stamp", p>> ELSE <<"blob", base[p].data>>
    BY <1>1, <1>2, <2>2 DEF Third
  <2>9. CASE slot.origin # None /\ (slot.node.kind = "dir" \/ slot.origin \notin c)
    <3>1. y = <<"stamp", slot.origin>>
      BY <2>3, <2>9 DEF Third
    <3>2. CASE x = <<"stamp", p>>
      BY <2>5, <2>7, <3>1, <3>2
    <3>3. CASE x = <<"blob", base[p].data>>
      BY <2>5, <3>1, <3>3
    <3> QED
      BY <2>8, <3>2, <3>3
  <2>10. CASE slot.origin = None /\ slot.node.kind = "dir"
    <3>1. y = None /\ x = <<"stamp", p>>
      BY <2>3, <2>5, <2>8, <2>10 DEF Third
    <3>2. <<"stamp", p>> \in Contents
      BY DEF Contents
    <3> QED
      BY <2>5, <3>1, <3>2, IdentityAssumption
  <2>11. CASE ~(slot.origin # None /\ (slot.node.kind = "dir" \/ slot.origin \notin c))
              /\ ~(slot.origin = None /\ slot.node.kind = "dir")
    <3>1. y = <<"blob", slot.node.data>>
      BY <2>3, <2>11 DEF Third
    <3>2. CASE x = <<"stamp", p>>
      BY <2>5, <3>1, <3>2
    <3>3. CASE x = <<"blob", base[p].data>>
      BY <2>5, <2>6, <3>1, <3>3
    <3> QED
      BY <2>8, <3>2, <3>3
  <2> QED
    BY <2>9, <2>10, <2>11
<1> QED
  BY <1>6, <1>7, <1>8

(* DiffExact: the diff names every changed path and only replaced nodes,    *)
(* each with its precondition, binds the bytes that moved, and is the same  *)
(* when it is taken again (canonical_diff, digest).                         *)
THEOREM DiffIsExact == Spec => []DiffExact
<1>1. IInv => DiffExact
  <2> SUFFICES ASSUME IInv, phase = "diffed" PROVE DiffExact
    BY DEF DiffExact
  <2>1. ~failed /\ Relocated \subseteq captured /\ diff = Entries(captured, captured)
    BY DEF IInv, Settled
  <2>2. /\ base \in Bases /\ overlay \in Overlays /\ DOMAIN overlay \subseteq writes
        /\ DOMAIN overlay \subseteq Path
    BY Typed, NowIs, OverlayIs DEF IInv
  <2>3. Visible = TreeOf(overlay) /\ Candidates = DOMAIN overlay
    BY <2>1, VisibleIsTree, CandidatesAre
  <2>4. ASSUME NEW p \in DOMAIN overlay
        PROVE  /\ p \in Path /\ p \in Candidates /\ p \in writes
               /\ Resolve(overlay, p) \in SoundSlot
               /\ Resolve(overlay, p).node = Visible[p]
    <3>1. p \in Path /\ overlay[p] \in SoundSlot
      BY <2>2, OverlayIs
    <3>2. Resolve(overlay, p) \in SoundSlot
      BY <3>1, TombstoneIs DEF Resolve, Slot
    <3> QED
      BY <2>2, <2>3, <3>1, <3>2, VisibleTyped
  <2> DEFINE entry(p) == [path |-> p, before |-> Identity(BaseSlot(p), captured),
                          after |-> Identity(Resolve(overlay, p), captured)]
  <2>5. diff = {e \in {entry(p) : p \in Candidates} : e.before # e.after}
    BY <2>1 DEF Entries
  <2>6. ASSUME NEW p \in Path, base[p] # Visible[p]
        PROVE  \E e \in diff : e.path = p
    <3>1. p \in DOMAIN overlay
      BY <2>3, <2>6 DEF TreeOf
    <3>2. Identity(BaseSlot(p), captured) # Identity(Resolve(overlay, p), captured)
      <4>1. PICK slot \in SoundSlot : slot = Resolve(overlay, p) /\ slot.node # base[p]
        BY <2>4, <2>6, <3>1
      <4>2. PICK c : c = captured
        OBVIOUS
      <4>3. Identity(BaseSlot(p), c) # Identity(slot, c)
        BY <2>2, <4>1, IdentitiesDiffer
      <4> QED
        BY <4>1, <4>2, <4>3
    <3>3. PICK e : e = entry(p)
      OBVIOUS
    <3>4. e.path = p /\ e.before # e.after
      BY <3>2, <3>3
    <3>5. e \in {entry(q) : q \in Candidates}
      BY <2>4, <3>1, <3>3
    <3> HIDE DEF entry
    <3> QED
      BY <2>5, <3>4, <3>5
  <2>7. ASSUME NEW e \in diff
        PROVE  LET slot == Resolve(overlay, e.path) IN
                 /\ e.path \in writes
                 /\ base[e.path] # slot.node \/ slot.origin # e.path
                 /\ slot.node # None /\ slot.node.kind # "dir" /\ slot.origin # e.path
                      => e.after[3] = <<"blob", slot.node.data>>
    <3>1. PICK p \in Candidates : e = entry(p) /\ e.before # e.after
      BY <2>5
    <3>2. /\ e.path = p /\ e.after = Identity(Resolve(overlay, p), captured)
          /\ Identity(BaseSlot(p), captured) # Identity(Resolve(overlay, p), captured)
      BY <3>1
    <3> HIDE DEF entry
    <3>3. p \in DOMAIN overlay
      BY <2>3
    <3>4. PICK slot \in SoundSlot : slot = Resolve(overlay, p)
      BY <2>4, <3>3
    <3>5. slot = [node |-> slot.node, origin |-> slot.origin]
      BY SlotIs
    <3>6. base[p] # slot.node \/ slot.origin # p
      <4> SUFFICES ASSUME base[p] = slot.node, slot.origin = p PROVE FALSE
        OBVIOUS
      <4>1. slot = BaseSlot(p)
        BY <3>5 DEF BaseSlot
      <4> QED
        BY <3>2, <3>4, <4>1
    <3>7. ASSUME slot.node # None, slot.node.kind # "dir", slot.origin # p
          PROVE  e.after[3] = <<"blob", slot.node.data>>
      <4>1. slot.origin # None => slot.origin \in captured
        <5> SUFFICES ASSUME slot.origin # None PROVE slot.origin \in Relocated
          BY <2>1
        <5> QED
          BY <3>4, <3>7 DEF Relocated
      <4>2. Identity(slot, captured) = <<slot.node.kind, slot.node.mode, <<"blob", slot.node.data>>>>
        BY <3>7, <4>1 DEF Identity
      <4> QED
        BY <3>2, <3>4, <4>2
    <3>8. p \in writes
      BY <2>4, <3>3
    <3> QED
      BY <3>2, <3>4, <3>6, <3>7, <3>8
  <2>8. diff = DiffAfter(captured, captured \cup Relocated)
    <3>1. captured \cup Relocated = captured
      BY <2>1
    <3> QED
      BY <2>1, <3>1 DEF DiffAfter
  <2> QED
    BY <2>6, <2>7, <2>8 DEF DiffExact
<1> QED
  BY <1>1, VirtualFsInvariant, PTL

-----------------------------------------------------------------------------
(* The refinement: the overlay is the plain filesystem of PlainFs.          *)

(* The plain filesystem asks its tree the questions the overlay asks.       *)
LEMMA SamePrefixes ==
  /\ \A p, q : Plain!IsPrefix(p, q) = IsPrefix(p, q)
  /\ \A p : Plain!Front(p) = Front(p)
  /\ \A p : Plain!Below(p) = Below(p)
<1>1. \A p, q : Plain!IsPrefix(p, q) = IsPrefix(p, q)
  BY DEF Plain!IsPrefix, IsPrefix
<1>2. \A p : Plain!Front(p) = Front(p)
  BY DEF Plain!Front, Front
<1>3. \A p : Plain!Below(p) = Below(p)
  BY <1>1 DEF Plain!Below, Below
<1> QED
  BY <1>1, <1>2, <1>3

(* Trees, places and kinds,                                                 *)
LEMMA SameTrees ==
  /\ Plain!Root = Root /\ Plain!Place = Place /\ Plain!Modes = Modes
  /\ \A t, p : Plain!At(t, p) = At(t, p)
  /\ \A t, p : Plain!Kind(t, p) = Kind(t, p)
  /\ \A t, p : Plain!Children(t, p) = Children(t, p)
  /\ \A t : Plain!Rooted(t) = Rooted(t)
  /\ \A m : Plain!DirNode(m) = DirNode(m)
<1>1. Plain!Root = Root /\ Plain!Modes = Modes
  BY DEF Plain!Root, Root, Plain!Modes, Modes
<1>2. Plain!Place = Place
  BY <1>1 DEF Plain!Place, Place
<1>3. \A m : Plain!DirNode(m) = DirNode(m)
  BY DEF Plain!DirNode, DirNode
<1>4. \A t, p : Plain!At(t, p) = At(t, p)
  BY <1>1, <1>3 DEF Plain!At, At
<1>5. \A t, p : Plain!Kind(t, p) = Kind(t, p)
  BY <1>4 DEF Plain!Kind, Kind
<1>6. \A t, p : Plain!Children(t, p) = Children(t, p)
  BY SamePrefixes DEF Plain!Children, Children, Plain!Subtree, Subtree
<1>7. \A t : Plain!Rooted(t) = Rooted(t)
  BY <1>5, SamePrefixes DEF Plain!Rooted, Rooted
<1> QED
  BY <1>1, <1>2, <1>3, <1>4, <1>5, <1>6, <1>7

(* the faults of each operation,                                            *)
LEMMA SameFaults ==
  /\ \A t, p : Plain!DirFault(t, p) = DirFault(t, p)
  /\ \A t, p, k : Plain!ReadFault(t, p, k) = ReadFault(t, p, k)
  /\ \A t, p : Plain!WriteFault(t, p) = WriteFault(t, p)
  /\ \A t, p : Plain!MkdirFault(t, p) = MkdirFault(t, p)
  /\ \A t, p : Plain!SetModeFault(t, p) = SetModeFault(t, p)
  /\ \A t, p : Plain!UnlinkFault(t, p) = UnlinkFault(t, p)
  /\ \A t, p : Plain!RmdirFault(t, p) = RmdirFault(t, p)
  /\ \A t, p : Plain!RemoveTreeFault(t, p) = RemoveTreeFault(t, p)
  /\ \A t, p, q : Plain!RenameFault(t, p, q) = RenameFault(t, p, q)
<1>1. \A t, p : Plain!DirFault(t, p) = DirFault(t, p)
  BY SameTrees DEF Plain!DirFault, DirFault
<1>2. \A t, p, k : Plain!ReadFault(t, p, k) = ReadFault(t, p, k)
  BY SameTrees DEF Plain!ReadFault, ReadFault
<1>3. \A t, p : Plain!WriteFault(t, p) = WriteFault(t, p)
  BY SameTrees, SamePrefixes, <1>1 DEF Plain!WriteFault, WriteFault
<1>4. \A t, p : Plain!MkdirFault(t, p) = MkdirFault(t, p)
  BY SameTrees, SamePrefixes, <1>1 DEF Plain!MkdirFault, MkdirFault
<1>5. \A t, p : Plain!SetModeFault(t, p) = SetModeFault(t, p)
  BY SameTrees DEF Plain!SetModeFault, SetModeFault
<1>6. \A t, p : Plain!UnlinkFault(t, p) = UnlinkFault(t, p)
  BY SameTrees DEF Plain!UnlinkFault, UnlinkFault
<1>7. \A t, p : Plain!RmdirFault(t, p) = RmdirFault(t, p)
  BY SameTrees, <1>1 DEF Plain!RmdirFault, RmdirFault
<1>8. \A t, p : Plain!RemoveTreeFault(t, p) = RemoveTreeFault(t, p)
  BY SameTrees DEF Plain!RemoveTreeFault, RemoveTreeFault
<1>9. \A t, p, q : Plain!RenameFault(t, p, q) = RenameFault(t, p, q)
  BY SameTrees, SamePrefixes, <1>1 DEF Plain!RenameFault, RenameFault
<1> QED
  BY <1>1, <1>2, <1>3, <1>4, <1>5, <1>6, <1>7, <1>8, <1>9

(* and the changes they make are the same in both.                          *)
LEMMA SameChanges ==
  /\ \A t, p, d : Plain!Written(t, p, d) = Written(t, p, d)
  /\ \A t, p : Plain!Cleared(t, p) = Cleared(t, p)
  /\ \A t, p, q : Plain!Moved(t, p, q) = Moved(t, p, q)
<1>1. \A t, p, d : Plain!Written(t, p, d) = Written(t, p, d)
  BY DEF Plain!Written, Written, Plain!FileNode, FileNode
<1>2. \A p : Plain!Below(p) = Below(p)
  BY SamePrefixes
<1>3. \A t, p : Plain!Cleared(t, p) = Cleared(t, p)
  BY <1>2 DEF Plain!Cleared, Cleared
<1>4. \A x, p, q : Plain!Rebase(x, p, q) = Rebase(x, p, q)
  BY DEF Plain!Rebase, Rebase
<1>5. \A t, p, q : Plain!Moved(t, p, q) = Moved(t, p, q)
  BY <1>2, <1>4 DEF Plain!Moved, Moved
<1> QED
  BY <1>1, <1>3, <1>5

(* failed is a Boolean,                                                     *)
LEMMA FailedTyped == IInv => failed \in BOOLEAN
BY NowIs DEF IInv

(* after a step too.                                                        *)
LEMMA FailedTypedNext == (IInv => failed \in BOOLEAN)'
BY FailedTyped, PTL

(* Once the budget has run out, or when it runs out, nothing is promised.   *)
LEMMA BudgetPlain ==
  ASSUME IInv, IInv', failed', failed => failed'
  PROVE  Plain!Next
<1>1. failed \in BOOLEAN /\ failed' = TRUE
  BY FailedTyped, FailedTypedNext
<1>2. CASE failed
  BY <1>1, <1>2 DEF Plain!Next, Plain!AfterSpend
<1>3. CASE ~failed
  BY <1>1, <1>3 DEF Plain!Next, Plain!Spend
<1> QED
  BY <1>2, <1>3

(* What an operation answers while the budget lasts.                        *)
LEMMA Lasting ==
  ASSUME IInv, IInv', NEW what, NEW t, Does(what, t), ~failed'
  PROVE  ~failed /\ failed' = failed /\ answer' = what /\ Visible' = t
<1>1. ~failed /\ answer' = what /\ Visible' = t
  BY DEF Does
<1> QED
  BY <1>1, FailedTyped, FailedTypedNext

(* A refusal the plain filesystem knows nothing of leaves its tree alone.   *)
LEMMA TurnedAwayPlain ==
  ASSUME ~failed, failed' = failed, NEW why \in {"StaleContent", "PolicyDenied", "DirectoryEntryLimit"},
         answer' = <<why, None>>, Visible' = Visible
  PROVE  Plain!Next
<1>1. Plain!Observe(<<why, None>>)
  BY DEF Plain!Observe
<1>2. why \in Plain!Outside
  BY DEF Plain!Outside
<1>3. Plain!TurnedAway
  BY <1>1, <1>2 DEF Plain!TurnedAway
<1> QED
  BY <1>3 DEF Plain!Next

(* Each operation is the plain one, unless the budget has run out.          *)
LEMMA ChangePlain ==
  ASSUME IInv, IInv', NEW fault, NEW t, Does(<<fault, None>>, IF fault = "Ok" THEN t ELSE Visible)
  PROVE  failed' \/ (~failed /\ Plain!Replace(fault, t))
<1>1. PICK u : u = IF fault = "Ok" THEN t ELSE Visible
  OBVIOUS
<1>2. Does(<<fault, None>>, u)
  BY <1>1
<1>3. CASE failed'
  BY <1>3
<1>4. CASE ~failed'
  <2>1. PICK what : what = <<fault, None>>
    OBVIOUS
  <2>2. Does(what, u)
    BY <1>2, <2>1
  <2>3. ~failed /\ failed' = failed /\ answer' = what /\ Visible' = u
    BY <1>4, <2>2, Lasting
  <2> QED
    BY <1>1, <2>1, <2>3 DEF Plain!Replace
<1> QED
  BY <1>3, <1>4

(* An operation on which the budget runs out is the plain budget failure.   *)
LEMMA SpentPlain ==
  ASSUME IInv, IInv', NEW what, NEW t, Does(what, t), failed'
  PROVE  Plain!Next
<1>1. failed => failed'
  BY DEF Does
<1> QED
  BY <1>1, BudgetPlain

(* write_file and symlink.                                                  *)
LEMMA WritePlain ==
  ASSUME IInv, NEW p \in Place, NEW c \in Chunk, Write(p, c)
  PROVE  IInv' /\ Plain!Next
<1>1. PICK fault : fault = WriteFault(Visible, p)
  OBVIOUS
<1>2. PICK t : t = Written(Visible, p, <<c>>)
  OBVIOUS
<1>3. IInv' /\ Does(<<fault, None>>, IF fault = "Ok" THEN t ELSE Visible)
  BY <1>1, <1>2, WriteDoes
<1>4. failed' \/ (~failed /\ Plain!Replace(fault, t))
  BY <1>3, ChangePlain
<1>5. CASE failed'
  <2>1. PICK what : what = <<fault, None>>
    OBVIOUS
  <2>2. PICK u : u = IF fault = "Ok" THEN t ELSE Visible
    OBVIOUS
  <2>3. Does(what, u)
    BY <1>3, <2>1, <2>2
  <2> QED
    BY <1>3, <1>5, <2>3, SpentPlain
<1>6. CASE ~failed'
  <2>1. Plain!Write(p, c)
    BY <1>1, <1>2, <1>4, <1>6, SameFaults, SameChanges, SameTrees DEF Plain!Write
  <2>2. p \in Plain!Place
    BY SameTrees
  <2> QED
    BY <1>3, <1>4, <1>6, <2>1, <2>2 DEF Plain!Next
<1> QED
  BY <1>5, <1>6

(* mkdir.                                                                   *)
LEMMA MkdirPlain ==
  ASSUME IInv, NEW p \in Place, NEW mode \in Modes, Mkdir(p, mode)
  PROVE  IInv' /\ Plain!Next
<1>1. PICK fault : fault = MkdirFault(Visible, p)
  OBVIOUS
<1>2. PICK t : t = [Visible EXCEPT ![p] = DirNode(mode)]
  OBVIOUS
<1>3. IInv' /\ Does(<<fault, None>>, IF fault = "Ok" THEN t ELSE Visible)
  BY <1>1, <1>2, MkdirDoes
<1>4. failed' \/ (~failed /\ Plain!Replace(fault, t))
  BY <1>3, ChangePlain
<1>5. CASE failed'
  <2>1. PICK what : what = <<fault, None>>
    OBVIOUS
  <2>2. PICK u : u = IF fault = "Ok" THEN t ELSE Visible
    OBVIOUS
  <2>3. Does(what, u)
    BY <1>3, <2>1, <2>2
  <2> QED
    BY <1>3, <1>5, <2>3, SpentPlain
<1>6. CASE ~failed'
  <2>1. Plain!Mkdir(p, mode)
    BY <1>1, <1>2, <1>4, <1>6, SameFaults, SameChanges, SameTrees DEF Plain!Mkdir
  <2>2. p \in Plain!Place /\ mode \in Plain!Modes
    BY SameTrees
  <2> QED
    BY <1>3, <1>4, <1>6, <2>1, <2>2 DEF Plain!Next
<1> QED
  BY <1>5, <1>6

(* set_mode.                                                                *)
LEMMA SetModePlain ==
  ASSUME IInv, NEW p \in Place, NEW mode \in Modes, SetMode(p, mode)
  PROVE  IInv' /\ Plain!Next
<1>1. PICK fault : fault = SetModeFault(Visible, p)
  OBVIOUS
<1>2. PICK t : t = [Visible EXCEPT ![p].mode = mode]
  OBVIOUS
<1>3. IInv' /\ Does(<<fault, None>>, IF fault = "Ok" THEN t ELSE Visible)
  BY <1>1, <1>2, SetModeDoes
<1>4. failed' \/ (~failed /\ Plain!Replace(fault, t))
  BY <1>3, ChangePlain
<1>5. CASE failed'
  <2>1. PICK what : what = <<fault, None>>
    OBVIOUS
  <2>2. PICK u : u = IF fault = "Ok" THEN t ELSE Visible
    OBVIOUS
  <2>3. Does(what, u)
    BY <1>3, <2>1, <2>2
  <2> QED
    BY <1>3, <1>5, <2>3, SpentPlain
<1>6. CASE ~failed'
  <2>1. Plain!SetMode(p, mode)
    BY <1>1, <1>2, <1>4, <1>6, SameFaults, SameChanges, SameTrees DEF Plain!SetMode
  <2>2. p \in Plain!Place /\ mode \in Plain!Modes
    BY SameTrees
  <2> QED
    BY <1>3, <1>4, <1>6, <2>1, <2>2 DEF Plain!Next
<1> QED
  BY <1>5, <1>6

(* unlink.                                                                  *)
LEMMA UnlinkPlain ==
  ASSUME IInv, NEW p \in Place, Unlink(p)
  PROVE  IInv' /\ Plain!Next
<1>1. PICK fault : fault = UnlinkFault(Visible, p)
  OBVIOUS
<1>2. PICK t : t = [Visible EXCEPT ![p] = None]
  OBVIOUS
<1>3. IInv' /\ Does(<<fault, None>>, IF fault = "Ok" THEN t ELSE Visible)
  BY <1>1, <1>2, UnlinkDoes
<1>4. failed' \/ (~failed /\ Plain!Replace(fault, t))
  BY <1>3, ChangePlain
<1>5. CASE failed'
  <2>1. PICK what : what = <<fault, None>>
    OBVIOUS
  <2>2. PICK u : u = IF fault = "Ok" THEN t ELSE Visible
    OBVIOUS
  <2>3. Does(what, u)
    BY <1>3, <2>1, <2>2
  <2> QED
    BY <1>3, <1>5, <2>3, SpentPlain
<1>6. CASE ~failed'
  <2>1. Plain!Unlink(p)
    BY <1>1, <1>2, <1>4, <1>6, SameFaults, SameChanges, SameTrees DEF Plain!Unlink
  <2>2. p \in Plain!Place
    BY SameTrees
  <2> QED
    BY <1>3, <1>4, <1>6, <2>1, <2>2 DEF Plain!Next
<1> QED
  BY <1>5, <1>6

(* rmdir.                                                                   *)
LEMMA RmdirPlain ==
  ASSUME IInv, NEW p \in Place, Rmdir(p)
  PROVE  IInv' /\ Plain!Next
<1>1. PICK fault : fault = RmdirFault(Visible, p)
  OBVIOUS
<1>2. PICK t : t = [Visible EXCEPT ![p] = None]
  OBVIOUS
<1>3. IInv' /\ Does(<<fault, None>>, IF fault = "Ok" THEN t ELSE Visible)
  BY <1>1, <1>2, RmdirDoes
<1>4. failed' \/ (~failed /\ Plain!Replace(fault, t))
  BY <1>3, ChangePlain
<1>5. CASE failed'
  <2>1. PICK what : what = <<fault, None>>
    OBVIOUS
  <2>2. PICK u : u = IF fault = "Ok" THEN t ELSE Visible
    OBVIOUS
  <2>3. Does(what, u)
    BY <1>3, <2>1, <2>2
  <2> QED
    BY <1>3, <1>5, <2>3, SpentPlain
<1>6. CASE ~failed'
  <2>1. Plain!Rmdir(p)
    BY <1>1, <1>2, <1>4, <1>6, SameFaults, SameChanges, SameTrees DEF Plain!Rmdir
  <2>2. p \in Plain!Place
    BY SameTrees
  <2> QED
    BY <1>3, <1>4, <1>6, <2>1, <2>2 DEF Plain!Next
<1> QED
  BY <1>5, <1>6

(* remove_tree.                                                             *)
LEMMA RemoveTreePlain ==
  ASSUME IInv, NEW p \in Place, RemoveTree(p)
  PROVE  IInv' /\ Plain!Next
<1>1. PICK fault : fault = RemoveTreeFault(Visible, p)
  OBVIOUS
<1>2. PICK t : t = Cleared(Visible, p)
  OBVIOUS
<1>3. IInv' /\ Does(<<fault, None>>, IF fault = "Ok" THEN t ELSE Visible)
  BY <1>1, <1>2, RemoveTreeDoes
<1>4. failed' \/ (~failed /\ Plain!Replace(fault, t))
  BY <1>3, ChangePlain
<1>5. CASE failed'
  <2>1. PICK what : what = <<fault, None>>
    OBVIOUS
  <2>2. PICK u : u = IF fault = "Ok" THEN t ELSE Visible
    OBVIOUS
  <2>3. Does(what, u)
    BY <1>3, <2>1, <2>2
  <2> QED
    BY <1>3, <1>5, <2>3, SpentPlain
<1>6. CASE ~failed'
  <2>1. Plain!RemoveTree(p)
    BY <1>1, <1>2, <1>4, <1>6, SameFaults, SameChanges, SameTrees DEF Plain!RemoveTree
  <2>2. p \in Plain!Place
    BY SameTrees
  <2> QED
    BY <1>3, <1>4, <1>6, <2>1, <2>2 DEF Plain!Next
<1> QED
  BY <1>5, <1>6

(* rename.                                                                  *)
LEMMA RenamePlain ==
  ASSUME IInv, NEW p \in Place, NEW to \in Place, Rename(p, to)
  PROVE  IInv' /\ Plain!Next
<1>1. PICK fault : fault = RenameFault(Visible, p, to)
  OBVIOUS
<1>2. PICK t : t = IF p = to THEN Visible ELSE Moved(Visible, p, to)
  OBVIOUS
<1>3. IInv' /\ Does(<<fault, None>>, IF fault = "Ok" THEN t ELSE Visible)
  <2>1. PICK u : u = IF RenameFault(Visible, p, to) # "Ok" \/ p = to THEN Visible
                     ELSE Moved(Visible, p, to)
    OBVIOUS
  <2>2. IInv' /\ Does(<<fault, None>>, u)
    BY <1>1, <2>1, RenameDoes
  <2>3. u = IF fault = "Ok" THEN t ELSE Visible
    BY <1>1, <1>2, <2>1
  <2> QED
    BY <2>2, <2>3
<1>4. failed' \/ (~failed /\ Plain!Replace(fault, t))
  BY <1>3, ChangePlain
<1>5. CASE failed'
  <2>1. PICK what : what = <<fault, None>>
    OBVIOUS
  <2>2. PICK u : u = IF fault = "Ok" THEN t ELSE Visible
    OBVIOUS
  <2>3. Does(what, u)
    BY <1>3, <2>1, <2>2
  <2> QED
    BY <1>3, <1>5, <2>3, SpentPlain
<1>6. CASE ~failed'
  <2>1. Plain!Rename(p, to)
    BY <1>1, <1>2, <1>4, <1>6, SameFaults, SameChanges DEF Plain!Rename
  <2>2. p \in Plain!Place /\ to \in Plain!Place
    BY SameTrees
  <2> QED
    BY <1>3, <1>4, <1>6, <2>1, <2>2 DEF Plain!Next
<1> QED
  BY <1>5, <1>6

(* append_file.                                                             *)
LEMMA AppendPlain ==
  ASSUME IInv, NEW p \in Place, NEW c \in Chunk, AppendTo(p, c)
  PROVE  IInv' /\ Plain!Next
<1>1. PICK fault : fault = ReadResult(p, "file")
  OBVIOUS
<1>2. PICK t : t = Written(Visible, p, Append(Visible[p].data, c))
  OBVIOUS
<1>3. /\ IInv' /\ Does(<<fault, None>>, IF fault = "Ok" THEN t ELSE Visible)
      /\ fault = "Ok" /\ ~failed => WriteFault(Visible, p) = "Ok"
  BY <1>1, <1>2, AppendDoes
<1>4. failed' \/ (~failed /\ Plain!Replace(fault, t))
  BY <1>3, ChangePlain
<1>5. CASE failed'
  <2>1. PICK what : what = <<fault, None>>
    OBVIOUS
  <2>2. PICK u : u = IF fault = "Ok" THEN t ELSE Visible
    OBVIOUS
  <2>3. Does(what, u)
    BY <1>3, <2>1, <2>2
  <2> QED
    BY <1>3, <1>5, <2>3, SpentPlain
<1>6. CASE ~failed' /\ ReadFault(Visible, p, "file") = "Ok" /\ fault # "Ok"
  <2>1. fault = "StaleContent"
    BY <1>1, <1>6 DEF ReadResult
  <2>2. answer' = <<"StaleContent", None>> /\ Visible' = Visible /\ failed' = failed /\ ~failed
    BY <1>4, <1>6, <2>1 DEF Plain!Replace
  <2>3. Plain!Next
    BY <2>2, TurnedAwayPlain
  <2> QED
    BY <1>3, <2>3
<1>7. CASE ~failed' /\ ~(ReadFault(Visible, p, "file") = "Ok" /\ fault # "Ok")
  <2>1. fault = IF ReadFault(Visible, p, "file") # "Ok" THEN ReadFault(Visible, p, "file")
                ELSE WriteFault(Visible, p)
    BY <1>1, <1>3, <1>4, <1>7 DEF ReadResult
  <2>2. Plain!AppendFault(p) = fault
    BY <2>1, SameFaults DEF Plain!AppendFault
  <2>3. Plain!AppendTo(p, c)
    BY <1>2, <1>4, <1>7, <2>2, SameChanges DEF Plain!AppendTo
  <2>4. p \in Plain!Place
    BY SameTrees
  <2> QED
    BY <1>3, <1>4, <1>7, <2>3, <2>4 DEF Plain!Next
<1> QED
  BY <1>5, <1>6, <1>7

(* metadata.                                                                *)
LEMMA MetadataPlain ==
  ASSUME IInv, NEW p \in Place, GetMetadata(p)
  PROVE  IInv' /\ Plain!Next
<1>1. PICK what : what = IF Kind(Visible, p) = "none" THEN <<"NotFound", None>>
                         ELSE <<"state", <<At(Visible, p).kind, At(Visible, p).mode>>>>
  OBVIOUS
<1>2. IInv' /\ Does(what, Visible)
  BY <1>1, MetadataDoes
<1>3. CASE failed'
  BY <1>2, <1>3, SpentPlain
<1>4. CASE ~failed'
  <2>1. ~failed /\ failed' = failed /\ answer' = what /\ Visible' = Visible
    BY <1>2, <1>4, Lasting
  <2>2. Plain!Observe(what)
    BY <2>1 DEF Plain!Observe
  <2>3. Plain!Metadata(p)
    BY <1>1, <2>2, SameTrees DEF Plain!Metadata, Plain!Seen
  <2>4. p \in Plain!Place
    BY SameTrees
  <2> QED
    BY <1>2, <2>1, <2>3, <2>4 DEF Plain!Next
<1> QED
  BY <1>3, <1>4

(* read_file and read_link.                                                 *)
LEMMA ReadPlain ==
  ASSUME IInv, NEW p \in Place, NEW kind \in {"file", "link"}, Read(p, kind)
  PROVE  IInv' /\ Plain!Next
<1>1. PICK what : what = IF ReadResult(p, kind) = "Ok" THEN <<"bytes", Visible[p].data>>
                         ELSE <<ReadResult(p, kind), None>>
  OBVIOUS
<1>2. IInv' /\ Does(what, Visible)
  BY <1>1, ReadDoes
<1>3. CASE failed'
  BY <1>2, <1>3, SpentPlain
<1>4. CASE ~failed'
  <2>1. ~failed /\ failed' = failed /\ answer' = what /\ Visible' = Visible
    BY <1>2, <1>4, Lasting
  <2>2. Plain!Observe(what)
    BY <2>1 DEF Plain!Observe
  <2>3. CASE ReadResult(p, kind) = ReadFault(Visible, p, kind)
    <3>1. Plain!Read(p, kind)
      BY <1>1, <2>2, <2>3, SameFaults DEF Plain!Read, Plain!Seen
    <3>2. p \in Plain!Place
      BY SameTrees
    <3> QED
      BY <1>2, <2>1, <3>1, <3>2 DEF Plain!Next
  <2>4. CASE ReadResult(p, kind) # ReadFault(Visible, p, kind)
    <3>1. ReadResult(p, kind) = "StaleContent"
      BY <2>4 DEF ReadResult
    <3>2. answer' = <<"StaleContent", None>>
      BY <1>1, <2>1, <3>1
    <3>3. Plain!Next
      BY <2>1, <3>2, TurnedAwayPlain
    <3> QED
      BY <1>2, <3>3
  <2> QED
    BY <2>3, <2>4
<1> QED
  BY <1>3, <1>4

(* read_dir.                                                                *)
LEMMA ReadDirPlain ==
  ASSUME IInv, NEW p \in Place, NEW most, ReadDir(p, most)
  PROVE  IInv' /\ Plain!Next
<1>1. PICK what : what = IF ListFault(p, most) = "Ok" THEN <<"listing", Children(Visible, p)>>
                         ELSE <<ListFault(p, most), None>>
  OBVIOUS
<1>2. IInv' /\ Does(what, Visible)
  BY <1>1, ReadDirDoes
<1>3. CASE failed'
  BY <1>2, <1>3, SpentPlain
<1>4. CASE ~failed'
  <2>1. ~failed /\ failed' = failed /\ answer' = what /\ Visible' = Visible
    BY <1>2, <1>4, Lasting
  <2>2. Plain!Observe(what)
    BY <2>1 DEF Plain!Observe
  <2>3. CASE ListFault(p, most) = DirFault(Visible, p)
    <3>1. Plain!ReadDir(p)
      BY <1>1, <2>2, <2>3, SameFaults, SameTrees DEF Plain!ReadDir, Plain!Seen
    <3>2. p \in Plain!Place
      BY SameTrees
    <3> QED
      BY <1>2, <2>1, <3>1, <3>2 DEF Plain!Next
  <2>4. CASE ListFault(p, most) # DirFault(Visible, p)
    <3>1. ListFault(p, most) = "DirectoryEntryLimit"
      BY <2>4 DEF ListFault
    <3>2. answer' = <<"DirectoryEntryLimit", None>>
      BY <1>1, <2>1, <3>1
    <3>3. Plain!Next
      BY <2>1, <3>2, TurnedAwayPlain
    <3> QED
      BY <1>2, <3>3
  <2> QED
    BY <2>3, <2>4
<1> QED
  BY <1>3, <1>4

(* record_policy_denial.                                                    *)
LEMMA DenialPlain ==
  ASSUME IInv, RetainDenial
  PROVE  IInv' /\ Plain!Next
<1>1. PICK what : what = <<"PolicyDenied", None>>
  OBVIOUS
<1>2. IInv' /\ Does(what, Visible)
  BY <1>1, DenialDoes
<1>3. CASE failed'
  BY <1>2, <1>3, SpentPlain
<1>4. CASE ~failed'
  <2>1. ~failed /\ failed' = failed /\ answer' = what /\ Visible' = Visible
    BY <1>2, <1>4, Lasting
  <2>2. Plain!Next
    BY <1>1, <2>1, TurnedAwayPlain
  <2> QED
    BY <1>2, <2>2
<1> QED
  BY <1>3, <1>4

(* set_evidence_limits.                                                     *)
LEMMA LimitPlain ==
  ASSUME IInv, NEW l \in Limits, LimitEvidence(l)
  PROVE  Plain!Next \/ UNCHANGED Plain!vars
<1>1. IInv' /\ Visible' = Visible /\ answer' = answer /\ (failed => failed')
  BY LimitDoes
<1>2. CASE failed'
  BY <1>1, <1>2, BudgetPlain
<1>3. CASE ~failed'
  <2>1. failed' = failed
    BY <1>1, <1>3, FailedTyped, FailedTypedNext
  <2> QED
    BY <1>1, <2>1 DEF Plain!vars
<1> QED
  BY <1>2, <1>3

(* The operations that only look,                                           *)
LEMMA ObservationPlain == ASSUME IInv, Observation PROVE Plain!Next
BY MetadataPlain, ReadDirPlain, ReadPlain DEF Observation

(* the operations that change files,                                        *)
LEMMA MutatePlain == ASSUME IInv, Mutate PROVE Plain!Next
<1>1. PICK p \in Place :
         \/ \E c \in Chunk : Write(p, c) \/ AppendTo(p, c)
         \/ Mkdir(p, "rw")
         \/ \E mode \in Modes : SetMode(p, mode)
         \/ Unlink(p)
         \/ Rmdir(p)
         \/ RemoveTree(p)
         \/ \E to \in Place : Rename(p, to)
  BY DEF Mutate
<1>2. CASE \E c \in Chunk : Write(p, c) \/ AppendTo(p, c)
  BY <1>2, WritePlain, AppendPlain
<1>3. CASE Mkdir(p, "rw")
  <2>1. "rw" \in Modes
    BY NodesAre
  <2> QED
    BY <1>3, <2>1, MkdirPlain
<1>4. CASE \E mode \in Modes : SetMode(p, mode)
  BY <1>4, SetModePlain
<1>5. CASE Unlink(p)
  BY <1>5, UnlinkPlain
<1>6. CASE Rmdir(p)
  BY <1>6, RmdirPlain
<1>7. CASE RemoveTree(p)
  BY <1>7, RemoveTreePlain
<1>8. CASE \E to \in Place : Rename(p, to)
  BY <1>8, RenamePlain
<1> QED
  BY <1>1, <1>2, <1>3, <1>4, <1>5, <1>6, <1>7, <1>8

(* and every step of the transaction.                                       *)
LEMMA NextPlain == IInv /\ [Next]_vars => [Plain!Next]_(Plain!vars)
<1> SUFFICES ASSUME IInv, [Next]_vars PROVE Plain!Next \/ UNCHANGED Plain!vars
  OBVIOUS
<1>1. CASE Observation
  BY <1>1, ObservationPlain
<1>2. CASE Mutate
  BY <1>2, MutatePlain
<1>3. CASE RetainDenial
  BY <1>3, DenialPlain
<1>4. CASE \E l \in Limits : LimitEvidence(l)
  BY <1>4, LimitPlain
<1>5. CASE \E p \in Editable : HostEdit(p)
  BY <1>5, HostEditDoes DEF Plain!vars
<1>6. CASE TakeDiff
  BY <1>6, TakeDiffDoes DEF Plain!vars
<1>7. CASE \E paths \in SUBSET Path : Review(paths)
  BY <1>7, ReviewDoes DEF Plain!vars
<1>8. CASE UNCHANGED vars
  <2>1. base' = base /\ overlay' = overlay /\ answer' = answer /\ failed' = failed
    BY <1>8 DEF vars, files, evidence
  <2>2. Visible' = Visible
    BY <2>1, SameFiles
  <2> QED
    BY <2>1, <2>2 DEF Plain!vars
<1> QED
  BY <1>1, <1>2, <1>3, <1>4, <1>5, <1>6, <1>7, <1>8 DEF Next

(* ImplementsPlain: what the guest sees and is answered through the overlay *)
(* is what one ordinary tree would show, for every sequence of operations,  *)
(* any base and any budget (resolve_ref, rename, remove_tree, set_mode).    *)
THEOREM OverlayIsPlain == Spec => ImplementsPlain
<1>1. Init => Plain!Init
  <2> SUFFICES ASSUME Init PROVE Plain!Init
    OBVIOUS
  <2>1. IInv /\ failed = FALSE /\ answer = <<"Ok", None>>
    BY InitKeeps DEF Init, Failing
  <2>2. Rooted(Visible)
    BY <2>1, VisibleIsTree
  <2> QED
    BY <2>1, <2>2, SameTrees DEF Plain!Init
<1>2. IInv /\ [Next]_vars => [Plain!Next]_(Plain!vars)
  BY NextPlain
<1>3. Spec => []IInv
  BY VirtualFsInvariant
<1> QED
  BY <1>1, <1>2, <1>3, PTL DEF Spec, ImplementsPlain, Plain!Spec
=============================================================================
