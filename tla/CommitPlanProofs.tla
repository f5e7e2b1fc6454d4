---------------------------- MODULE CommitPlanProofs ----------------------------
(***************************************************************************)
(* What PreparedPlan::prepare yields for every pair of trees: the shape of *)
(* the prepared operations that the committer and its recovery rely on.    *)
(***************************************************************************)
EXTENDS CommitPlan, Induction, FiniteSetTheorems, TLAPS

Tree == [Path -> Node \cup {None}]

OperationNames ==
  {"SetDirectoryMode", "Quarantine", "CreateDirectory", "SetFileMode", "InstallFile",
   "InstallSymlink"}
OperationType == [op : OperationNames, path : Path]

(* s lists every member of S once.                                          *)
Arranges(s, S) ==
  /\ s \in Seq(S)
  /\ \A i, j \in 1..Len(s) : i # j => s[i] # s[j]
  /\ \A o \in S : \E i \in 1..Len(s) : s[i] = o

-----------------------------------------------------------------------------
(* ShallowFirst and DeepFirst list a finite set of operations.              *)

(* A path has components, and their number is what component_depth counts.  *)
LEMMA DepthIsNatural == \A p \in Path : Len(p) \in Nat /\ Len(p) > 0 /\ p \in Seq(Name)
BY PathAssumption

(* A finite non-empty set of operations has a deepest one.                  *)
LEMMA DeepestExists ==
  ASSUME NEW n \in Nat
  PROVE  \A S \in SUBSET OperationType :
           IsFiniteSet(S) /\ Cardinality(S) = n + 1 =>
             \E m \in S : \A o \in S : Len(o.path) <= Len(m.path)
<1> DEFINE Has(k) == \A S \in SUBSET OperationType :
                       IsFiniteSet(S) /\ Cardinality(S) = k + 1 =>
                         \E m \in S : \A o \in S : Len(o.path) <= Len(m.path)
           N == {k \in Nat : Has(k)}
<1>0. \A o \in OperationType : Len(o.path) \in Nat
  BY DepthIsNatural DEF OperationType
<1> HIDE DEF OperationType
<1>1. Has(0)
  <2> SUFFICES ASSUME NEW S \in SUBSET OperationType, IsFiniteSet(S), Cardinality(S) = 1
               PROVE  \E m \in S : \A o \in S : Len(o.path) <= Len(m.path)
    OBVIOUS
  <2>1. PICK m : S = {m}
    BY FS_Singleton
  <2> QED
    BY <1>0, <2>1
<1>2. ASSUME NEW k \in Nat, Has(k) PROVE Has(k + 1)
  <2> SUFFICES ASSUME NEW S \in SUBSET OperationType, IsFiniteSet(S), Cardinality(S) = k + 2
               PROVE  \E m \in S : \A o \in S : Len(o.path) <= Len(m.path)
    OBVIOUS
  <2>1. PICK x \in S : TRUE
    BY FS_EmptySet
  <2>2. IsFiniteSet(S \ {x}) /\ Cardinality(S \ {x}) = k + 1 /\ S \ {x} \in SUBSET OperationType
    BY FS_RemoveElement
  <2>3. PICK m \in S \ {x} : \A o \in S \ {x} : Len(o.path) <= Len(m.path)
    BY <1>2, <2>2
  <2>4. CASE Len(x.path) <= Len(m.path)
    BY <2>3, <2>4
  <2>5. CASE Len(m.path) < Len(x.path)
    <3>1. \A o \in S : Len(o.path) <= Len(x.path)
      BY <1>0, <2>3, <2>5
    <3> QED
      BY <3>1
  <2> QED
    BY <1>0, <2>3, <2>4, <2>5
<1> HIDE DEF Has
<1>3. 0 \in N /\ \A k \in N : k + 1 \in N
  BY <1>1, <1>2
<1> HIDE DEF N
<1>4. N = Nat
  BY <1>3, SetInduction DEF N
<1> QED
  BY <1>4 DEF N, Has

Sorts(s, S) ==
  \A i, j \in DOMAIN s : i < j => s[i] # s[j] /\ Len(s[i].path) <= Len(s[j].path)

(* Any finite set of operations can be sorted as the plan sorts them: take  *)
(* the shallowest out of the rest, one after the other.                     *)
LEMMA SortedExists ==
  ASSUME NEW S \in SUBSET OperationType, IsFiniteSet(S)
  PROVE  \E s \in [1..Cardinality(S) -> S] : Sorts(s, S)
<1> DEFINE Has(k) == \A T \in SUBSET OperationType :
                       IsFiniteSet(T) /\ Cardinality(T) = k => \E s \in [1..k -> T] : Sorts(s, T)
           N == {k \in Nat : Has(k)}
<1>1. Has(0)
  <2> SUFFICES ASSUME NEW T PROVE \E s \in [1..0 -> T] : Sorts(s, T)
    OBVIOUS
  <2> DEFINE s == [i \in 1..0 |-> i]
  <2>1. s \in [1..0 -> T] /\ Sorts(s, T)
    BY DEF Sorts
  <2> QED
    BY <2>1
<1>2. ASSUME NEW k \in Nat, Has(k) PROVE Has(k + 1)
  <2> SUFFICES ASSUME NEW T \in SUBSET OperationType, IsFiniteSet(T), Cardinality(T) = k + 1
               PROVE  \E s \in [1..(k + 1) -> T] : Sorts(s, T)
    OBVIOUS
  <2>1. PICK m \in T : \A o \in T : Len(o.path) <= Len(m.path)
    BY DeepestExists
  <2>2. IsFiniteSet(T \ {m}) /\ Cardinality(T \ {m}) = k /\ T \ {m} \in SUBSET OperationType
    <3>1. IsFiniteSet(T \ {m}) /\ Cardinality(T \ {m}) = Cardinality(T) - 1
      BY FS_RemoveElement
    <3> QED
      BY <3>1
  <2>3. PICK s \in [1..k -> T \ {m}] : Sorts(s, T \ {m})
    BY <1>2, <2>2
  <2> DEFINE t == [i \in 1..(k + 1) |-> IF i = k + 1 THEN m ELSE s[i]]
  <2>4. t \in [1..(k + 1) -> T]
    BY <2>3
  <2>5. ASSUME NEW i \in DOMAIN t, NEW j \in DOMAIN t, i < j
        PROVE  t[i] # t[j] /\ Len(t[i].path) <= Len(t[j].path)
    <3>1. i \in 1..k /\ t[i] = s[i] /\ s[i] \in T \ {m}
      BY <2>3, <2>5
    <3>2. CASE j = k + 1
      BY <2>1, <3>1, <3>2
    <3>3. CASE j # k + 1
      <4>1. j \in 1..k /\ t[j] = s[j] /\ DOMAIN s = 1..k
        BY <2>3, <2>5, <3>3
      <4> QED
        BY <2>3, <2>5, <3>1, <4>1 DEF Sorts
    <3> QED
      BY <3>2, <3>3
  <2>6. Sorts(t, T)
    BY <2>5 DEF Sorts
  <2> HIDE DEF t
  <2> QED
    BY <2>4, <2>6
<1> HIDE DEF Has
<1>3. 0 \in N /\ \A k \in N : k + 1 \in N
  BY <1>1, <1>2
<1> HIDE DEF N
<1>4. N = Nat
  BY <1>3, SetInduction DEF N
<1>5. Cardinality(S) \in Nat
  BY FS_CardinalityType
<1> QED
  BY <1>4, <1>5 DEF N, Has

(* component_depth order: a shallower path never stands after a deeper one. *)
LEMMA ShallowFirstArranges ==
  ASSUME NEW S \in SUBSET OperationType, IsFiniteSet(S)
  PROVE  /\ Arranges(ShallowFirst(S), S)
         /\ Sorts(ShallowFirst(S), S)
<1> DEFINE n == Cardinality(S)
           s == ShallowFirst(S)
<1>1. s \in [1..n -> S] /\ Sorts(s, S)
  BY SortedExists DEF ShallowFirst, Sorts
<1>2. n \in Nat
  BY FS_CardinalityType
<1>3. \A i, j \in 1..n : i # j => s[i] # s[j]
  <2> HIDE DEF s, n
  <2> QED
    BY <1>1, <1>2 DEF Sorts
<1>4. s \in Injection(1..n, S)
  <2> HIDE DEF s, n
  <2> QED
    BY <1>1, <1>3 DEF Injection, IsInjective
<1>5. IsFiniteSet(1..n) /\ Cardinality(1..n) = n
  BY <1>2, FS_Interval
<1>6. s \in Surjection(1..n, S)
  <2> HIDE DEF s
  <2> QED
    BY <1>4, <1>5, FS_Injection
<1> HIDE DEF s, n
<1>7. s \in Seq(S) /\ Len(s) = n
  BY <1>1, <1>2
<1>8. \A o \in S : \E i \in 1..n : s[i] = o
  BY <1>6 DEF Surjection
<1>9. Arranges(s, S)
  BY <1>3, <1>7, <1>8 DEF Arranges
<1> QED
  BY <1>1, <1>9 DEF s

(* The deepest-first sort of prepare lists the same operations the other    *)
(* way round.                                                               *)
LEMMA DeepFirstArranges ==
  ASSUME NEW S \in SUBSET OperationType, IsFiniteSet(S)
  PROVE  Arranges(DeepFirst(S), S)
<1> DEFINE s == ShallowFirst(S)
           n == Len(s)
           r == Reverse(s)
<1>1. Arranges(s, S)
  BY ShallowFirstArranges
<1> HIDE DEF s
<1>2. n \in Nat /\ s \in Seq(S)
  BY <1>1 DEF Arranges
<1>3. r \in Seq(S) /\ Len(r) = n /\ \A i \in 1..n : r[i] = s[(n - i) + 1] /\ (n - i) + 1 \in 1..n
  BY <1>2 DEF Reverse
<1>4. \A i, j \in 1..n : i # j => r[i] # r[j]
  <2> TAKE i, j \in 1..n
  <2> HAVE i # j
  <2> DEFINE a == (n - i) + 1
             b == (n - j) + 1
  <2>1. a \in 1..n /\ b \in 1..n /\ a # b /\ r[i] = s[a] /\ r[j] = s[b]
    BY <1>2, <1>3
  <2> HIDE DEF a, b
  <2> QED
    BY <1>1, <2>1 DEF Arranges
<1>5. ASSUME NEW o \in S PROVE \E i \in 1..n : r[i] = o
  <2>1. PICK k \in 1..n : s[k] = o
    BY <1>1 DEF Arranges
  <2> DEFINE a == (n - k) + 1
  <2>2. a \in 1..n /\ (n - a) + 1 = k
    BY <1>2
  <2>3. r[a] = s[k]
    BY <1>3, <2>2
  <2> HIDE DEF a
  <2> QED
    BY <2>1, <2>2, <2>3
<1> HIDE DEF n, r
<1>6. Arranges(r, S)
  BY <1>3, <1>4, <1>5 DEF Arranges
<1> QED
  BY <1>6 DEF DeepFirst, r, s

(* A list after a list, of other operations.                                *)
LEMMA Joined ==
  ASSUME NEW S, NEW T, NEW s, NEW t, Arranges(s, S), Arranges(t, T), S \cap T = {}
  PROVE  /\ Arranges(s \o t, S \cup T)
         /\ Len(s) \in Nat /\ Len(s) <= Len(s \o t)
         /\ \A i \in 1..Len(s) : (s \o t)[i] = s[i]
<1> DEFINE u == s \o t
           a == Len(s)
           b == Len(t)
<1>1. s \in Seq(S) /\ t \in Seq(T) /\ a \in Nat /\ b \in Nat
  BY DEF Arranges
<1>2. s \in Seq(S \cup T) /\ t \in Seq(S \cup T)
  BY <1>1
<1>3. /\ u \in Seq(S \cup T) /\ Len(u) = a + b
      /\ \A i \in 1..a : u[i] = s[i] /\ s[i] \in S
      /\ \A i \in 1..b : u[a + i] = t[i] /\ t[i] \in T
      /\ \A i \in (a + 1)..(a + b) : i - a \in 1..b /\ u[i] = t[i - a]
  <2>1. u \in Seq(S \cup T) /\ Len(u) = a + b
    BY <1>1, <1>2
  <2>2. \A i \in 1..a : u[i] = s[i] /\ s[i] \in S
    BY <1>1
  <2>3. \A i \in 1..b : u[a + i] = t[i] /\ t[i] \in T
    BY <1>1
  <2>4. \A i \in (a + 1)..(a + b) : i - a \in 1..b /\ u[i] = t[i - a]
    BY <1>1
  <2> QED
    BY <2>1, <2>2, <2>3, <2>4
<1> HIDE DEF u, a, b
<1>4. ASSUME NEW i \in 1..(a + b), NEW j \in 1..(a + b), i < j
      PROVE  u[i] # u[j]
  <2>1. CASE j <= a
    <3>1. i \in 1..a /\ j \in 1..a /\ i # j
      BY <1>1, <1>4, <2>1
    <3> QED
      BY <1>3, <3>1 DEF Arranges, a
  <2>2. CASE i <= a /\ j > a
    <3>1. i \in 1..a /\ j \in (a + 1)..(a + b)
      BY <1>1, <2>2
    <3>2. u[i] \in S /\ u[j] \in T
      BY <1>3, <3>1
    <3> QED
      BY <3>2
  <2>3. CASE i > a
    <3> DEFINE c == i - a
               d == j - a
    <3>1. c \in 1..b /\ d \in 1..b /\ c # d /\ u[i] = t[c] /\ u[j] = t[d]
      BY <1>1, <1>3, <1>4, <2>3
    <3> HIDE DEF c, d
    <3> QED
      BY <3>1 DEF Arranges, b
  <2> QED
    BY <1>1, <2>1, <2>2, <2>3
<1>5. ASSUME NEW o \in S \cup T
      PROVE  \E i \in 1..(a + b) : u[i] = o
  <2>1. CASE o \in S
    <3>1. PICK i \in 1..a : s[i] = o
      BY <2>1 DEF Arranges, a
    <3> QED
      BY <1>1, <1>3, <3>1
  <2>2. CASE o \in T
    <3>1. PICK i \in 1..b : t[i] = o
      BY <2>2 DEF Arranges, b
    <3>2. a + i \in 1..(a + b) /\ u[a + i] = o
      BY <1>1, <1>3, <3>1
    <3> QED
      BY <3>2
  <2> QED
    BY <2>1, <2>2
<1>6. Arranges(u, S \cup T)
  <2>1. \A i, j \in 1..(a + b) : i # j => u[i] # u[j]
    <3> TAKE i, j \in 1..(a + b)
    <3> HAVE i # j
    <3>1. i < j \/ j < i
      BY <1>1
    <3> QED
      BY <1>4, <3>1
  <2> QED
    BY <1>3, <1>5, <2>1 DEF Arranges
<1> QED
  BY <1>1, <1>3, <1>6 DEF u, a

-----------------------------------------------------------------------------
(* Paths and trees.                                                         *)

(* A prefix, component by component: what starts_with compares.             *)
LEMMA PrefixIs ==
  ASSUME NEW p \in Path, NEW q \in Path
  PROVE  /\ IsPrefix(p, q) <=> Len(p) <= Len(q) /\ \A i \in 1..Len(p) : p[i] = q[i]
         /\ IsStrictPrefix(p, q) <=> IsPrefix(p, q) /\ Len(p) < Len(q)
<1>1. p \in Seq(Name) /\ q \in Seq(Name) /\ Len(p) \in Nat /\ Len(q) \in Nat
  BY DepthIsNatural
<1>2. SubSeq(p, 1, Len(p)) = p
  BY <1>1
<1>3. ASSUME Len(p) <= Len(q)
      PROVE  SubSeq(q, 1, Len(p)) = p <=> \A i \in 1..Len(p) : p[i] = q[i]
  BY <1>1, <1>3
<1>4. IsPrefix(p, q) <=> Len(p) <= Len(q) /\ \A i \in 1..Len(p) : p[i] = q[i]
  BY <1>2, <1>3 DEF IsPrefix
<1>5. Len(p) = Len(q) /\ (\A i \in 1..Len(p) : p[i] = q[i]) => p = q
  BY <1>1
<1> QED
  BY <1>1, <1>4, <1>5 DEF IsStrictPrefix

(* What lies under a subtree of a subtree lies under the subtree.           *)
LEMMA PrefixTransitive ==
  ASSUME NEW p \in Path, NEW q \in Path, NEW r \in Path, IsPrefix(p, q), IsPrefix(q, r)
  PROVE  IsPrefix(p, r)
BY PrefixIs, DepthIsNatural

(* Of two paths above a third, one is above the other.                      *)
LEMMA PrefixesCompare ==
  ASSUME NEW p \in Path, NEW q \in Path, NEW r \in Path, IsPrefix(p, r), IsPrefix(q, r)
  PROVE  p = q \/ IsStrictPrefix(p, q) \/ IsStrictPrefix(q, p)
<1>1. Len(p) \in Nat /\ Len(q) \in Nat
  BY DepthIsNatural
<1>2. CASE Len(p) <= Len(q)
  <2>1. IsPrefix(p, q)
    BY <1>1, <1>2, PrefixIs
  <2> QED
    BY <2>1 DEF IsStrictPrefix
<1>3. CASE Len(q) <= Len(p)
  <2>1. IsPrefix(q, p)
    BY <1>1, <1>3, PrefixIs
  <2> QED
    BY <2>1 DEF IsStrictPrefix
<1> QED
  BY <1>1, <1>2, <1>3

(* The parent of a path: its components without the last.                   *)
LEMMA FrontIs ==
  ASSUME NEW p \in Path, Len(p) > 1
  PROVE  /\ Front(p) \in Path /\ Len(Front(p)) = Len(p) - 1
         /\ \A i \in 1..(Len(p) - 1) : Front(p)[i] = p[i]
<1>1. p \in Seq(Name) /\ Len(p) \in Nat
  BY DepthIsNatural
<1> QED
  BY <1>1, PathAssumption DEF Front

(* Above every node of a well-formed tree there are directories.            *)
LEMMA AncestorsAreDirectories ==
  ASSUME NEW tree, WellFormed(tree), NEW q \in Path, NEW x \in Path, IsStrictPrefix(q, x),
         Present(tree, x)
  PROVE  IsDir(tree, q)
<1> DEFINE Has(n) == \A y \in Path : Len(y) = n /\ IsStrictPrefix(q, y) /\ Present(tree, y) =>
                      IsDir(tree, q)
           N == {n \in Nat : Has(n)}
<1>1. Has(0)
  BY DepthIsNatural
<1>2. ASSUME NEW n \in Nat, Has(n) PROVE Has(n + 1)
  <2> SUFFICES ASSUME NEW y \in Path, Len(y) = n + 1, IsStrictPrefix(q, y), Present(tree, y)
               PROVE  IsDir(tree, q)
    OBVIOUS
  <2>1. IsPrefix(q, y) /\ Len(q) < Len(y) /\ Len(q) \in Nat /\ Len(q) > 0
    BY PrefixIs, DepthIsNatural
  <2>2. Len(y) > 1
    BY <2>1
  <2> DEFINE f == Front(y)
  <2>3. f \in Path /\ Len(f) = n /\ \A i \in 1..n : f[i] = y[i]
    BY <2>2, FrontIs
  <2>4. IsDir(tree, f)
    BY <2>2 DEF WellFormed
  <2>5. Len(q) <= n /\ \A i \in 1..Len(q) : q[i] = y[i]
    BY <2>1, PrefixIs
  <2>6. \A i \in 1..Len(q) : q[i] = f[i]
    BY <2>1, <2>3, <2>5
  <2> HIDE DEF f
  <2>7. IsPrefix(q, f)
    BY <2>3, <2>5, <2>6, PrefixIs
  <2>8. CASE q = f
    BY <2>4, <2>8
  <2>9. CASE q # f
    <3>1. IsStrictPrefix(q, f)
      BY <2>7, <2>9 DEF IsStrictPrefix
    <3>2. Present(tree, f)
      BY <2>4 DEF IsDir, IsKind, Present
    <3> QED
      BY <1>2, <2>3, <3>1, <3>2
  <2> QED
    BY <2>8, <2>9
<1> HIDE DEF Has
<1>3. 0 \in N /\ \A n \in N : n + 1 \in N
  BY <1>1, <1>2
<1> HIDE DEF N
<1>4. N = Nat
  BY <1>3, SetInduction DEF N
<1>5. Len(x) \in Nat
  BY DepthIsNatural
<1> QED
  BY <1>4, <1>5 DEF N, Has

-----------------------------------------------------------------------------
(* The quarantines.                                                         *)

(* A destructive root is an entry that goes or changes its kind, and        *)
(* nothing above it does; no other operation touches that very path except  *)
(* to make what replaces it.                                                *)
LEMMA RootIs ==
  ASSUME NEW before, NEW after, NEW r \in DestructiveRoots(before, after)
  PROVE  /\ r \in Changed(before, after) /\ r \in Path /\ Present(before, r)
         /\ ~(IsDir(before, r) /\ IsDir(after, r))
         /\ r \notin FileModes(before, after)
         /\ \A q \in Changed(before, after) : Destructive(before, after, q) => ~IsStrictPrefix(q, r)
<1>1. r \in Changed(before, after) /\ Destructive(before, after, r)
  BY DEF DestructiveRoots
<1>2. \A q \in Changed(before, after) : Destructive(before, after, q) => ~IsStrictPrefix(q, r)
  BY DEF DestructiveRoots
<1>3. r \in Path /\ Present(before, r)
  BY <1>1 DEF Changed, Destructive
<1>4. ~(IsDir(before, r) /\ IsDir(after, r))
  BY <1>1 DEF Destructive, IsDir, IsKind, Present
<1>5. r \notin FileModes(before, after)
  BY <1>1 DEF Destructive, FileModes, IsKind, Present
<1> QED
  BY <1>1, <1>2, <1>3, <1>4, <1>5

(* Everything in a subtree that goes is part of the diff.                   *)
LEMMA SubtreeChanges ==
  ASSUME NEW before, NEW after, WellFormed(before), WellFormed(after),
         NEW r \in DestructiveRoots(before, after), NEW x \in Within(r), Present(before, x)
  PROVE  x \in Changed(before, after)
<1>1. x \in Path /\ IsPrefix(r, x)
  BY DEF Within
<1>2. CASE x = r
  BY <1>2, RootIs
<1>3. CASE x # r
  <2>1. IsStrictPrefix(r, x) /\ r \in Path
    BY <1>1, <1>3, RootIs DEF IsStrictPrefix
  <2>2. IsDir(before, r)
    BY <1>1, <2>1, AncestorsAreDirectories
  <2>3. ~Present(after, x)
    BY <1>1, <2>1, <2>2, AncestorsAreDirectories, RootIs
  <2> QED
    BY <1>1, <2>3 DEF Changed, Present
<1> QED
  BY <1>2, <1>3

(* Nothing that only changes its mode is in such a subtree.                 *)
LEMMA ModesStay ==
  ASSUME NEW before, NEW after, WellFormed(before), WellFormed(after),
         NEW r \in DestructiveRoots(before, after), NEW p \in Path,
         p \in FileModes(before, after) \/ (IsDir(before, p) /\ IsDir(after, p))
  PROVE  p \notin Within(r)
<1> SUFFICES ASSUME p \in Within(r) PROVE FALSE
  OBVIOUS
<1>1. p # r /\ r \in Path
  BY RootIs
<1>2. IsStrictPrefix(r, p)
  BY <1>1 DEF Within, IsStrictPrefix
<1>3. Present(before, p) /\ Present(after, p)
  BY DEF FileModes, IsDir, IsKind, Present
<1>4. IsDir(before, r) /\ IsDir(after, r)
  BY <1>1, <1>2, <1>3, AncestorsAreDirectories
<1> QED
  BY <1>4, RootIs

(* Two quarantines share nothing.                                           *)
LEMMA RootsAreDisjoint ==
  ASSUME NEW before, NEW after, NEW r \in DestructiveRoots(before, after),
         NEW q \in DestructiveRoots(before, after), r # q
  PROVE  Within(r) \cap Within(q) = {}
<1> SUFFICES ASSUME NEW x \in Path, IsPrefix(r, x), IsPrefix(q, x) PROVE FALSE
  BY DEF Within
<1>1. r \in Path /\ q \in Path
  BY RootIs
<1>2. IsStrictPrefix(r, q) \/ IsStrictPrefix(q, r)
  BY <1>1, PrefixesCompare
<1>3. /\ r \in Changed(before, after) /\ Destructive(before, after, r)
      /\ q \in Changed(before, after) /\ Destructive(before, after, q)
  BY DEF DestructiveRoots
<1> QED
  BY <1>2, <1>3, RootIs

(* What must leave its place is in the subtree of a quarantine.             *)
LEMMA RootAbove ==
  ASSUME NEW before, NEW after, NEW p \in Changed(before, after), Destructive(before, after, p)
  PROVE  \E r \in DestructiveRoots(before, after) : p \in Within(r)
<1> DEFINE above == {q \in Path : /\ q \in Changed(before, after) /\ Destructive(before, after, q)
                                  /\ IsPrefix(q, p)}
           T == {n \in Nat : \E q \in above : Len(q) = n}
<1>1. p \in Path
  BY DEF Changed
<1>2. IsPrefix(p, p)
  BY <1>1, DepthIsNatural, PrefixIs
<1>3. T # {}
  BY <1>1, <1>2, DepthIsNatural
<1>4. T \subseteq Nat
  OBVIOUS
<1> HIDE DEF T
<1>5. PICK m \in T : \A n \in T : m <= n
  BY <1>3, <1>4, LeastElement
<1>6. PICK r \in above : Len(r) = m
  BY <1>5 DEF T
<1>7. ASSUME NEW q \in Changed(before, after), Destructive(before, after, q), IsStrictPrefix(q, r)
      PROVE  FALSE
  <2>1. q \in Path /\ r \in Path /\ Len(q) \in Nat /\ Len(r) \in Nat
    BY DepthIsNatural DEF Changed
  <2>2. IsPrefix(q, r) /\ Len(q) < Len(r)
    BY <1>7, <2>1, PrefixIs
  <2>3. IsPrefix(q, p)
    BY <1>1, <1>6, <2>1, <2>2, PrefixTransitive
  <2>4. Len(q) \in T
    BY <1>7, <2>1, <2>3 DEF T
  <2>5. m <= Len(q)
    BY <1>5, <2>4
  <2> QED
    BY <1>6, <2>1, <2>2, <2>5
<1>8. r \in DestructiveRoots(before, after)
  BY <1>6, <1>7 DEF DestructiveRoots
<1> QED
  BY <1>1, <1>6, <1>8 DEF Within

-----------------------------------------------------------------------------
(* The sequence.                                                            *)

(* What push_operations adds: operations of one name, one for each path.    *)
LEMMA OperationsAre ==
  ASSUME NEW name \in OperationNames, NEW paths \in SUBSET Path
  PROVE  /\ Operations(name, paths) \in SUBSET OperationType
         /\ IsFiniteSet(Operations(name, paths))
         /\ \A o \in Operations(name, paths) : o.op = name /\ o.path \in paths
         /\ \A p \in paths : [op |-> name, path |-> p] \in Operations(name, paths)
<1> DEFINE f == [p \in paths |-> [op |-> name, path |-> p]]
<1>1. IsFiniteSet(paths)
  BY PathAssumption, FS_Subset
<1>2. f \in Surjection(paths, Operations(name, paths))
  BY DEF Surjection, Operations
<1>3. IsFiniteSet(Operations(name, paths))
  <2> HIDE DEF f
  <2> QED
    BY <1>1, <1>2, FS_Surjection
<1>4. Operations(name, paths) \in SUBSET OperationType
  BY DEF Operations, OperationType
<1>5. /\ \A o \in Operations(name, paths) : o.op = name /\ o.path \in paths
      /\ \A p \in paths : [op |-> name, path |-> p] \in Operations(name, paths)
  BY DEF Operations
<1> QED
  BY <1>3, <1>4, <1>5

(* The operations of the five parts of a plan.                              *)
Grants(before, after) == Operations("SetDirectoryMode", Access(before, after))
Quarantines(before, after) == Operations("Quarantine", DestructiveRoots(before, after))
Creations(before, after) == Operations("CreateDirectory", Created(before, after))
Installations(before, after) ==
  Operations("SetFileMode", FileModes(before, after))
    \cup Operations("InstallFile", Files(before, after))
    \cup Operations("InstallSymlink", Links(before, after))
Restrictions(before, after) ==
  Operations("SetDirectoryMode", DirectoryModes(before, after) \ Access(before, after))

Ahead(before, after) == Grants(before, after) \cup Quarantines(before, after)
Listed(before, after) ==
  (((Grants(before, after) \cup Quarantines(before, after)) \cup Creations(before, after))
     \cup Installations(before, after)) \cup Restrictions(before, after)

(* What the five parts are made of.                                         *)
LEMMA PartsAre ==
  ASSUME NEW before, NEW after
  PROVE  /\ \A S \in {Grants(before, after), Quarantines(before, after), Creations(before, after),
                       Installations(before, after), Restrictions(before, after)} :
              S \in SUBSET OperationType /\ IsFiniteSet(S)
         /\ \A o \in Grants(before, after) : o.op = "SetDirectoryMode" /\ o.path \in Access(before, after)
         /\ \A o \in Quarantines(before, after) :
              o.op = "Quarantine" /\ o.path \in DestructiveRoots(before, after)
         /\ \A o \in Creations(before, after) :
              o.op = "CreateDirectory" /\ o.path \in Created(before, after)
         /\ \A o \in Installations(before, after) :
              \/ o.op = "SetFileMode" /\ o.path \in FileModes(before, after)
              \/ o.op = "InstallFile" /\ o.path \in Files(before, after)
              \/ o.op = "InstallSymlink" /\ o.path \in Links(before, after)
         /\ \A o \in Restrictions(before, after) :
              /\ o.op = "SetDirectoryMode"
              /\ o.path \in DirectoryModes(before, after) \ Access(before, after)
<1>1. /\ Access(before, after) \in SUBSET Path /\ DestructiveRoots(before, after) \in SUBSET Path
      /\ Created(before, after) \in SUBSET Path /\ FileModes(before, after) \in SUBSET Path
      /\ Files(before, after) \in SUBSET Path /\ Links(before, after) \in SUBSET Path
      /\ DirectoryModes(before, after) \ Access(before, after) \in SUBSET Path
  BY DEF Access, DestructiveRoots, Created, FileModes, Files, Links, DirectoryModes, Changed
<1>2. {"SetDirectoryMode", "Quarantine", "CreateDirectory", "SetFileMode", "InstallFile",
       "InstallSymlink"} \subseteq OperationNames
  BY DEF OperationNames
<1>3. /\ Grants(before, after) \in SUBSET OperationType /\ IsFiniteSet(Grants(before, after))
      /\ \A o \in Grants(before, after) : o.op = "SetDirectoryMode" /\ o.path \in Access(before, after)
  BY <1>1, <1>2, OperationsAre DEF Grants
<1>4. /\ Quarantines(before, after) \in SUBSET OperationType /\ IsFiniteSet(Quarantines(before, after))
      /\ \A o \in Quarantines(before, after) :
           o.op = "Quarantine" /\ o.path \in DestructiveRoots(before, after)
  BY <1>1, <1>2, OperationsAre DEF Quarantines
<1>5. /\ Creations(before, after) \in SUBSET OperationType /\ IsFiniteSet(Creations(before, after))
      /\ \A o \in Creations(before, after) :
           o.op = "CreateDirectory" /\ o.path \in Created(before, after)
  BY <1>1, <1>2, OperationsAre DEF Creations
<1>6. /\ Restrictions(before, after) \in SUBSET OperationType /\ IsFiniteSet(Restrictions(before, after))
      /\ \A o \in Restrictions(before, after) :
           /\ o.op = "SetDirectoryMode"
           /\ o.path \in DirectoryModes(before, after) \ Access(before, after)
  BY <1>1, <1>2, OperationsAre DEF Restrictions
<1>7. /\ Installations(before, after) \in SUBSET OperationType /\ IsFiniteSet(Installations(before, after))
      /\ \A o \in Installations(before, after) :
           \/ o.op = "SetFileMode" /\ o.path \in FileModes(before, after)
           \/ o.op = "InstallFile" /\ o.path \in Files(before, after)
           \/ o.op = "InstallSymlink" /\ o.path \in Links(before, after)
  <2> DEFINE X == Operations("SetFileMode", FileModes(before, after))
             Y == Operations("InstallFile", Files(before, after))
             Z == Operations("InstallSymlink", Links(before, after))
  <2>1. /\ X \in SUBSET OperationType /\ IsFiniteSet(X)
        /\ \A o \in X : o.op = "SetFileMode" /\ o.path \in FileModes(before, after)
    BY <1>1, <1>2, OperationsAre
  <2>2. /\ Y \in SUBSET OperationType /\ IsFiniteSet(Y)
        /\ \A o \in Y : o.op = "InstallFile" /\ o.path \in Files(before, after)
    BY <1>1, <1>2, OperationsAre
  <2>3. /\ Z \in SUBSET OperationType /\ IsFiniteSet(Z)
        /\ \A o \in Z : o.op = "InstallSymlink" /\ o.path \in Links(before, after)
    BY <1>1, <1>2, OperationsAre
  <2>4. Installations(before, after) = X \cup Y \cup Z
    BY DEF Installations
  <2> HIDE DEF X, Y, Z
  <2>5. IsFiniteSet(X \cup Y \cup Z)
    BY <2>1, <2>2, <2>3, FS_Union
  <2> QED
    BY <2>1, <2>2, <2>3, <2>4, <2>5
<1> QED
  BY <1>3, <1>4, <1>5, <1>6, <1>7

(* Prepare lists every operation once, access grants and quarantines first. *)
LEMMA PrepareArranges ==
  ASSUME NEW before, NEW after
  PROVE  LET s == Prepare(before, after) IN
           /\ Arranges(s, Listed(before, after))
           /\ \E k \in Nat : /\ k <= Len(s)
                             /\ \A i \in 1..k : s[i] \in Ahead(before, after)
                             /\ \A o \in Ahead(before, after) : \E i \in 1..k : s[i] = o
<1> DEFINE A == Grants(before, after)
           Q == Quarantines(before, after)
           C == Creations(before, after)
           W == Installations(before, after)
           M == Restrictions(before, after)
           a == ShallowFirst(A)
           q == ShallowFirst(Q)
           c == ShallowFirst(C)
           w == ShallowFirst(W)
           m == DeepFirst(M)
<1>1. Prepare(before, after) = (((a \o q) \o c) \o w) \o m
  BY DEF Prepare, Grants, Quarantines, Creations, Installations, Restrictions
<1>2. Arranges(a, A) /\ Arranges(q, Q) /\ Arranges(c, C) /\ Arranges(w, W) /\ Arranges(m, M)
  BY PartsAre, ShallowFirstArranges, DeepFirstArranges
<1>3. /\ A \cap Q = {} /\ (A \cup Q) \cap C = {} /\ ((A \cup Q) \cup C) \cap W = {}
      /\ (((A \cup Q) \cup C) \cup W) \cap M = {}
  BY PartsAre
<1>4. Listed(before, after) = (((A \cup Q) \cup C) \cup W) \cup M /\ Ahead(before, after) = A \cup Q
  BY DEF Listed, Ahead
<1> HIDE DEF A, Q, C, W, M, a, q, c, w, m
<1> DEFINE s2 == a \o q
           s3 == s2 \o c
           s4 == s3 \o w
           s5 == s4 \o m
           k == Len(s2)
<1>5. Arranges(s2, A \cup Q)
  BY <1>2, <1>3, Joined
<1> HIDE DEF s2
<1>6. Arranges(s3, (A \cup Q) \cup C) /\ k \in Nat /\ k <= Len(s3) /\ \A i \in 1..k : s3[i] = s2[i]
  BY <1>2, <1>3, <1>5, Joined
<1> HIDE DEF s3
<1>7. /\ Arranges(s4, ((A \cup Q) \cup C) \cup W) /\ Len(s3) \in Nat /\ Len(s3) <= Len(s4)
      /\ \A i \in 1..Len(s3) : s4[i] = s3[i]
  BY <1>2, <1>3, <1>6, Joined
<1> HIDE DEF s4
<1>8. /\ Arranges(s5, (((A \cup Q) \cup C) \cup W) \cup M) /\ Len(s4) \in Nat /\ Len(s4) <= Len(s5)
      /\ \A i \in 1..Len(s4) : s5[i] = s4[i]
  BY <1>2, <1>3, <1>7, Joined
<1> HIDE DEF s5
<1>9. k <= Len(s5) /\ \A i \in 1..k : s5[i] = s2[i]
  <2>1. Len(s5) \in Nat
    BY <1>8 DEF Arranges
  <2> HIDE DEF k
  <2> QED
    BY <1>6, <1>7, <1>8, <2>1
<1>10. /\ \A i \in 1..k : s5[i] \in A \cup Q
       /\ \A o \in A \cup Q : \E i \in 1..k : s5[i] = o
  <2>1. \A i \in 1..k : s2[i] \in A \cup Q
    BY <1>5 DEF Arranges
  <2>2. \A o \in A \cup Q : \E i \in 1..k : s2[i] = o
    BY <1>5 DEF Arranges
  <2> QED
    BY <1>9, <2>1, <2>2
<1>11. Prepare(before, after) = s5
  BY <1>1 DEF s2, s3, s4, s5
<1> HIDE DEF k
<1> QED
  BY <1>4, <1>6, <1>8, <1>9, <1>10, <1>11

-----------------------------------------------------------------------------
(* The shape of a prepared plan.                                            *)

(* What an operation is for.                                                *)
Suits(before, after, o) ==
  LET p == o.path IN
    /\ p \in Changed(before, after)
    /\ o.op = "Quarantine" => Present(before, p)
    /\ o.op = "CreateDirectory" => IsDir(after, p) /\ ~IsDir(before, p)
    /\ o.op = "InstallFile" => IsKind(after, p, "file")
    /\ o.op = "InstallSymlink" => IsKind(after, p, "link")
    /\ ModeOperation(o) => /\ Present(before, p) /\ Present(after, p)
                           /\ before[p].kind = after[p].kind
                           /\ before[p].data = after[p].data
                           /\ before[p].mode # after[p].mode

(* Quarantines share nothing and take only what the diff names; every other *)
(* operation has a path of its own; where one of them makes a node, the old *)
(* one is in a quarantine that comes first; modes change outside of these.  *)
Shape(before, after, operations) ==
  LET n == Len(operations)
      Leaves(i) == operations[i].op = "Quarantine" IN
    /\ operations \in Seq(OperationType)
    /\ n > 0
    /\ \A i \in 1..n : Suits(before, after, operations[i])
    /\ \A i \in 1..n : \A x \in Path :
         Leaves(i) /\ x \in Within(operations[i].path) /\ Present(before, x) =>
           x \in Changed(before, after)
    /\ \A i, j \in 1..n : Leaves(i) /\ Leaves(j) /\ i # j =>
         Within(operations[i].path) \cap Within(operations[j].path) = {}
    /\ \A i, j \in 1..n : ~Leaves(i) /\ ~Leaves(j) /\ i # j =>
         operations[i].path # operations[j].path
    /\ \A i, j \in 1..n :
         Leaves(i) /\ ~Leaves(j) /\ operations[j].path \in Within(operations[i].path) =>
           i < j /\ ~ModeOperation(operations[j])
    /\ \A j \in 1..n :
         ~Leaves(j) /\ ~ModeOperation(operations[j]) /\ Present(before, operations[j].path) =>
           \E i \in 1..n : Leaves(i) /\ operations[j].path \in Within(operations[i].path)

(* Two nodes that agree in kind and data differ in their mode, so that a    *)
(* chmod is enough.                                                         *)
LEMMA OnlyTheMode ==
  ASSUME NEW s \in Node, NEW t \in Node, s # t, s.kind = t.kind, s.data = t.data
  PROVE  s.mode # t.mode
<1>1. /\ s = [kind |-> s.kind, data |-> s.data, mode |-> s.mode]
      /\ t = [kind |-> t.kind, data |-> t.data, mode |-> t.mode]
  BY DEF Node
<1> QED
  BY <1>1

(* An operation of the plan comes out of one of its six lists.              *)
LEMMA ListedIs ==
  ASSUME NEW before, NEW after, NEW o \in Listed(before, after)
  PROVE  /\ o \in OperationType
         /\ \/ o.op = "Quarantine" /\ o.path \in DestructiveRoots(before, after)
            \/ o.op = "SetDirectoryMode" /\ o.path \in DirectoryModes(before, after)
            \/ o.op = "CreateDirectory" /\ o.path \in Created(before, after)
            \/ o.op = "SetFileMode" /\ o.path \in FileModes(before, after)
            \/ o.op = "InstallFile" /\ o.path \in Files(before, after)
            \/ o.op = "InstallSymlink" /\ o.path \in Links(before, after)
<1>1. o \in Grants(before, after) \/ o \in Quarantines(before, after) \/ o \in Creations(before, after)
      \/ o \in Installations(before, after) \/ o \in Restrictions(before, after)
  BY DEF Listed
<1>2. \A p \in Access(before, after) : p \in DirectoryModes(before, after)
  BY DEF Access
<1>3. o \in OperationType
  BY <1>1, PartsAre
<1>4. CASE o \in Grants(before, after)
  BY <1>2, <1>3, <1>4, PartsAre
<1>5. CASE o \in Quarantines(before, after)
  BY <1>3, <1>5, PartsAre
<1>6. CASE o \in Creations(before, after)
  BY <1>3, <1>6, PartsAre
<1>7. CASE o \in Installations(before, after)
  BY <1>3, <1>7, PartsAre
<1>8. CASE o \in Restrictions(before, after)
  BY <1>3, <1>8, PartsAre
<1> QED
  BY <1>1, <1>4, <1>5, <1>6, <1>7, <1>8

(* Each listed operation suits the two trees: it makes, at its path, what   *)
(* the tree after holds there out of what the tree before does.             *)
LEMMA ListedSuits ==
  ASSUME NEW before \in Tree, NEW after \in Tree, NEW o \in Listed(before, after)
  PROVE  Suits(before, after, o)
<1> DEFINE p == o.path
<1>1. CASE o.op = "Quarantine" /\ p \in DestructiveRoots(before, after)
  BY <1>1, RootIs DEF Suits, ModeOperation
<1>2. CASE o.op = "CreateDirectory" /\ p \in Created(before, after)
  BY <1>2 DEF Suits, ModeOperation, Created
<1>3. CASE o.op = "InstallFile" /\ p \in Files(before, after)
  BY <1>3 DEF Suits, ModeOperation, Files
<1>4. CASE o.op = "InstallSymlink" /\ p \in Links(before, after)
  BY <1>4 DEF Suits, ModeOperation, Links
<1>5. CASE \/ o.op = "SetDirectoryMode" /\ p \in DirectoryModes(before, after)
           \/ o.op = "SetFileMode" /\ p \in FileModes(before, after)
  <2>1. p \in Path /\ p \in Changed(before, after) /\ before[p] # after[p]
    BY <1>5 DEF DirectoryModes, FileModes, Changed
  <2>2. before[p] # None /\ after[p] # None /\ before[p].kind = after[p].kind
    BY <1>5 DEF DirectoryModes, FileModes, IsDir, IsKind
  <2>3. before[p] \in Node /\ after[p] \in Node
    BY <2>1, <2>2 DEF Tree
  <2>4. before[p].data = after[p].data
    <3>1. CASE p \in FileModes(before, after)
      BY <3>1 DEF FileModes
    <3>2. CASE p \in DirectoryModes(before, after)
      <4>1. before[p].kind = "dir" /\ after[p].kind = "dir"
        BY <3>2 DEF DirectoryModes, IsDir, IsKind
      <4>2. \A t \in Node : t.kind = "dir" => t.data = "entries"
        BY DEF Node
      <4> QED
        BY <2>3, <4>1, <4>2
    <3> QED
      BY <1>5, <3>1, <3>2
  <2>5. before[p].mode # after[p].mode
    BY <2>1, <2>2, <2>3, <2>4, OnlyTheMode
  <2> QED
    BY <1>5, <2>1, <2>2, <2>4, <2>5 DEF Suits, Present
<1> QED
  BY <1>1, <1>2, <1>3, <1>4, <1>5, ListedIs

(* But for the quarantines, the path tells the operation.                   *)
LEMMA PathTells ==
  ASSUME NEW before, NEW after, NEW o \in Listed(before, after), NEW q \in Listed(before, after),
         o.op # "Quarantine", q.op # "Quarantine", o.path = q.path
  PROVE  o = q
<1>1. o \in OperationType /\ q \in OperationType
  BY ListedIs
<1> DEFINE p == o.path
           Told(x) ==
             \/ x.op = "SetDirectoryMode" /\ IsDir(before, p) /\ IsDir(after, p)
             \/ x.op = "CreateDirectory" /\ ~IsDir(before, p) /\ IsDir(after, p)
             \/ x.op = "SetFileMode" /\ p \in FileModes(before, after) /\ IsKind(after, p, "file")
             \/ x.op = "InstallFile" /\ p \notin FileModes(before, after) /\ IsKind(after, p, "file")
             \/ x.op = "InstallSymlink" /\ IsKind(after, p, "link")
<1>2. \A x \in Listed(before, after) : x.op # "Quarantine" /\ x.path = p => Told(x)
  <2> TAKE x \in Listed(before, after)
  <2> HAVE x.op # "Quarantine" /\ x.path = p
  <2>1. \/ x.op = "SetDirectoryMode" /\ p \in DirectoryModes(before, after)
        \/ x.op = "CreateDirectory" /\ p \in Created(before, after)
        \/ x.op = "SetFileMode" /\ p \in FileModes(before, after)
        \/ x.op = "InstallFile" /\ p \in Files(before, after)
        \/ x.op = "InstallSymlink" /\ p \in Links(before, after)
    BY ListedIs
  <2>2. /\ p \in DirectoryModes(before, after) => IsDir(before, p) /\ IsDir(after, p)
        /\ p \in Created(before, after) => ~IsDir(before, p) /\ IsDir(after, p)
        /\ p \in FileModes(before, after) => IsKind(after, p, "file")
        /\ p \in Files(before, after) => p \notin FileModes(before, after) /\ IsKind(after, p, "file")
        /\ p \in Links(before, after) => IsKind(after, p, "link")
    BY DEF DirectoryModes, Created, FileModes, Files, Links
  <2> QED
    BY <2>1, <2>2
<1>3. o.op = q.op
  <2>1. Told(o) /\ Told(q)
    BY <1>2
  <2> QED
    BY <2>1 DEF IsDir, IsKind
<1>4. \A x \in OperationType : x = [op |-> x.op, path |-> x.path]
  BY DEF OperationType
<1> QED
  BY <1>1, <1>3, <1>4

(* Where a node is made over an old one, the old one must leave.            *)
LEMMA MadeOverDestructive ==
  ASSUME NEW before, NEW after, NEW o \in Listed(before, after), o.op # "Quarantine",
         ~ModeOperation(o),
         Present(before, o.path)
  PROVE  o.path \in Changed(before, after) /\ Destructive(before, after, o.path)
<1> DEFINE p == o.path
<1>1. \/ p \in Created(before, after)
      \/ p \in Files(before, after)
      \/ p \in Links(before, after)
  BY ListedIs DEF ModeOperation
<1>2. CASE p \in Created(before, after)
  BY <1>2 DEF Created, Destructive, IsDir, IsKind, Present
<1>3. CASE p \in Files(before, after)
  BY <1>3 DEF Files, FileModes, Destructive, IsKind, Present
<1>4. CASE p \in Links(before, after)
  BY <1>4 DEF Links, Destructive, IsKind, Present
<1> QED
  BY <1>1, <1>2, <1>3, <1>4

(* A transaction that changes something has something to perform, so an     *)
(* empty plan never reaches the committer.                                  *)
LEMMA SomethingListed ==
  ASSUME NEW before \in Tree, NEW after \in Tree, before # after
  PROVE  Listed(before, after) # {}
<1>1. PICK p \in Path : before[p] # after[p]
  BY DEF Tree
<1>2. p \in Changed(before, after)
  BY <1>1 DEF Changed
<1>3. CASE after[p] = None
  <2>1. Destructive(before, after, p)
    BY <1>1, <1>3 DEF Destructive, Present
  <2>2. PICK r \in DestructiveRoots(before, after) : p \in Within(r)
    BY <1>2, <2>1, RootAbove
  <2>3. [op |-> "Quarantine", path |-> r] \in Quarantines(before, after)
    BY <2>2 DEF Quarantines, Operations
  <2> QED
    BY <2>3 DEF Listed
<1>4. CASE after[p] # None
  <2>1. after[p].kind \in {"file", "link", "dir"}
    BY <1>4 DEF Tree, Node
  <2>2. CASE IsDir(after, p) /\ IsDir(before, p)
    <3>1. p \in DirectoryModes(before, after)
      BY <1>2, <2>2 DEF DirectoryModes
    <3>2. \/ [op |-> "SetDirectoryMode", path |-> p] \in Grants(before, after)
          \/ [op |-> "SetDirectoryMode", path |-> p] \in Restrictions(before, after)
      BY <3>1 DEF Grants, Restrictions, Operations
    <3> QED
      BY <3>2 DEF Listed
  <2>3. CASE IsDir(after, p) /\ ~IsDir(before, p)
    <3>1. [op |-> "CreateDirectory", path |-> p] \in Creations(before, after)
      BY <1>2, <2>3 DEF Creations, Created, Operations
    <3> QED
      BY <3>1 DEF Listed
  <2>4. CASE IsKind(after, p, "file")
    <3>1. p \in FileModes(before, after) \/ p \in Files(before, after)
      BY <1>2, <2>4 DEF Files
    <3>2. \/ [op |-> "SetFileMode", path |-> p] \in Installations(before, after)
          \/ [op |-> "InstallFile", path |-> p] \in Installations(before, after)
      BY <3>1 DEF Installations, Operations
    <3> QED
      BY <3>2 DEF Listed
  <2>5. CASE IsKind(after, p, "link")
    <3>1. [op |-> "InstallSymlink", path |-> p] \in Installations(before, after)
      BY <1>2, <2>5 DEF Installations, Links, Operations
    <3> QED
      BY <3>1 DEF Listed
  <2> QED
    BY <1>4, <2>1, <2>2, <2>3, <2>4, <2>5 DEF IsDir, IsKind
<1> QED
  BY <1>3, <1>4

(* PreparedPlan::prepare, for every pair of well-formed trees: each         *)
(* operation suits the difference at its path, quarantines share nothing    *)
(* and take only what the diff names, everything else has a path of its own *)
(* and comes after the quarantine that makes room for it.  This is all the  *)
(* commit protocol relies on.                                               *)
THEOREM PlanShape ==
  ASSUME NEW before \in Tree, NEW after \in Tree, WellFormed(before), WellFormed(after),
         before # after
  PROVE  Shape(before, after, Prepare(before, after))
<1> DEFINE s == Prepare(before, after)
           n == Len(s)
           All == Listed(before, after)
           Early == Ahead(before, after)
           Leaves(i) == s[i].op = "Quarantine"
<1>1. Arranges(s, All)
  BY PrepareArranges
<1>2. PICK k \in Nat : /\ k <= n
                       /\ \A i \in 1..k : s[i] \in Early
                       /\ \A o \in Early : \E i \in 1..k : s[i] = o
  BY PrepareArranges
<1>3. \A o \in All : /\ o \in OperationType /\ Suits(before, after, o)
                     /\ o.op = "Quarantine" => o.path \in DestructiveRoots(before, after)
                     /\ o.op \in {"CreateDirectory", "InstallFile", "InstallSymlink"} => o \notin Early
                     /\ o.op = "Quarantine" => o \in Early
                     /\ o.path \in Path
                     /\ ModeOperation(o) => o.path \in FileModes(before, after)
                                            \/ (IsDir(before, o.path) /\ IsDir(after, o.path))
                     /\ o.op # "Quarantine" /\ ~ModeOperation(o) =>
                          o.op \in {"CreateDirectory", "InstallFile", "InstallSymlink"}
  <2> TAKE o \in All
  <2>1. o \in OperationType /\ Suits(before, after, o) /\ o.path \in Path
    BY ListedIs, ListedSuits DEF OperationType
  <2>2. o.op = "Quarantine" => o.path \in DestructiveRoots(before, after)
    BY ListedIs
  <2>3. o.op \in {"CreateDirectory", "InstallFile", "InstallSymlink"} => o \notin Early
    BY PartsAre DEF Ahead
  <2>4. o.op = "Quarantine" => o \in Early
    BY PartsAre DEF Ahead, Listed
  <2>5. ModeOperation(o) => o.path \in FileModes(before, after)
                            \/ (IsDir(before, o.path) /\ IsDir(after, o.path))
    BY ListedIs DEF ModeOperation, DirectoryModes
  <2>6. o.op # "Quarantine" /\ ~ModeOperation(o) =>
          o.op \in {"CreateDirectory", "InstallFile", "InstallSymlink"}
    BY ListedIs DEF ModeOperation
  <2> QED
    BY <2>1, <2>2, <2>3, <2>4, <2>5, <2>6
<1> HIDE DEF s, n, All, Early
<1>4. n \in Nat /\ s \in Seq(All) /\ \A i \in 1..n : s[i] \in All
  BY <1>1 DEF Arranges, n
<1>5. s \in Seq(OperationType)
  <2>1. All \subseteq OperationType
    BY <1>3
  <2> QED
    BY <1>4, <2>1
<1>6. n > 0
  <2>1. PICK o \in All : TRUE
    BY SomethingListed DEF All
  <2>2. \E i \in 1..n : s[i] = o
    BY <1>1 DEF Arranges, n
  <2> QED
    BY <1>4, <2>2
<1>7. \A i \in 1..n : Suits(before, after, s[i])
  BY <1>3, <1>4
<1>8. \A i \in 1..n : \A x \in Path :
        Leaves(i) /\ x \in Within(s[i].path) /\ Present(before, x) => x \in Changed(before, after)
  BY <1>3, <1>4, SubtreeChanges
<1>9. \A i, j \in 1..n : i # j => s[i] # s[j]
  BY <1>1 DEF Arranges, n
<1>10. \A i, j \in 1..n : Leaves(i) /\ Leaves(j) /\ i # j =>
         Within(s[i].path) \cap Within(s[j].path) = {}
  <2> TAKE i, j \in 1..n
  <2> HAVE Leaves(i) /\ Leaves(j) /\ i # j
  <2>1. s[i].path \in DestructiveRoots(before, after) /\ s[j].path \in DestructiveRoots(before, after)
    BY <1>3, <1>4
  <2>2. s[i].path # s[j].path
    <3>1. \A o \in OperationType : o = [op |-> o.op, path |-> o.path]
      BY DEF OperationType
    <3>2. s[i] \in OperationType /\ s[j] \in OperationType /\ s[i] # s[j]
      BY <1>3, <1>4, <1>9
    <3> QED
      BY <3>1, <3>2
  <2> QED
    BY <2>1, <2>2, RootsAreDisjoint
<1>11. \A i, j \in 1..n : ~Leaves(i) /\ ~Leaves(j) /\ i # j => s[i].path # s[j].path
  BY <1>4, <1>9, PathTells DEF All
<1>12. \A i, j \in 1..n : Leaves(i) /\ ~Leaves(j) /\ s[j].path \in Within(s[i].path) =>
         i < j /\ ~ModeOperation(s[j])
  <2> TAKE i, j \in 1..n
  <2> HAVE Leaves(i) /\ ~Leaves(j) /\ s[j].path \in Within(s[i].path)
  <2>1. s[i] \in All /\ s[j] \in All
    BY <1>4
  <2>2. ~ModeOperation(s[j])
    BY <1>3, <2>1, ModesStay
  <2>3. s[j] \notin Early /\ s[i] \in Early
    BY <1>3, <2>1, <2>2
  <2>4. j > k
    BY <1>2, <1>4, <2>3
  <2>5. i <= k
    <3>1. PICK a \in 1..k : s[a] = s[i]
      BY <1>2, <2>3
    <3>2. a \in 1..n
      BY <1>2, <1>4
    <3>3. a = i
      BY <1>9, <3>1, <3>2
    <3> QED
      BY <3>3
  <2> QED
    BY <1>2, <1>4, <2>2, <2>4, <2>5
<1>13. \A j \in 1..n : ~Leaves(j) /\ ~ModeOperation(s[j]) /\ Present(before, s[j].path) =>
         \E i \in 1..n : Leaves(i) /\ s[j].path \in Within(s[i].path)
  <2> TAKE j \in 1..n
  <2> HAVE ~Leaves(j) /\ ~ModeOperation(s[j]) /\ Present(before, s[j].path)
  <2>1. s[j].path \in Changed(before, after) /\ Destructive(before, after, s[j].path)
    BY <1>4, MadeOverDestructive DEF All
  <2>2. PICK r \in DestructiveRoots(before, after) : s[j].path \in Within(r)
    BY <2>1, RootAbove
  <2> DEFINE o == [op |-> "Quarantine", path |-> r]
  <2>3. o \in All
    BY <2>2 DEF All, Listed, Quarantines, Operations
  <2>4. PICK i \in 1..n : s[i] = o
    BY <1>1, <2>3 DEF Arranges, n
  <2> QED
    BY <2>2, <2>4
<1> QED
  BY <1>5, <1>6, <1>7, <1>8, <1>10, <1>11, <1>12, <1>13 DEF Shape, s, n

-----------------------------------------------------------------------------
(* Any two members of s, in its order, are a pair of D.                     *)
Paired(s, D) == \A i, j \in 1..Len(s) : i < j => <<s[i], s[j]>> \in D

(* A list after a list keeps such an order, if the pairs across keep it.    *)
LEMMA JoinedPairs ==
  ASSUME NEW S, NEW T, NEW s, NEW t, Arranges(s, S), Arranges(t, T), NEW D,
         Paired(s, D), Paired(t, D), S \X T \subseteq D
  PROVE  Paired(s \o t, D)
<1> DEFINE u == s \o t
           a == Len(s)
           b == Len(t)
<1>1. s \in Seq(S) /\ t \in Seq(T) /\ a \in Nat /\ b \in Nat
  BY DEF Arranges
<1>2. /\ Len(u) = a + b
      /\ \A i \in 1..a : u[i] = s[i] /\ s[i] \in S
      /\ \A i \in (a + 1)..(a + b) : i - a \in 1..b /\ u[i] = t[i - a] /\ t[i - a] \in T
  <2>1. Len(u) = a + b
    BY <1>1
  <2>2. \A i \in 1..a : u[i] = s[i] /\ s[i] \in S
    BY <1>1
  <2>3. \A i \in (a + 1)..(a + b) : i - a \in 1..b /\ u[i] = t[i - a] /\ t[i - a] \in T
    BY <1>1
  <2> QED
    BY <2>1, <2>2, <2>3
<1> HIDE DEF u, a, b
<1> SUFFICES ASSUME NEW i \in 1..(a + b), NEW j \in 1..(a + b), i < j
             PROVE  <<u[i], u[j]>> \in D
  BY <1>2 DEF Paired, u
<1>3. CASE j <= a
  <2>1. i \in 1..a /\ j \in 1..a
    BY <1>1, <1>3
  <2> QED
    BY <1>2, <2>1 DEF Paired, a
<1>4. CASE i <= a /\ j > a
  <2>1. i \in 1..a /\ j \in (a + 1)..(a + b)
    BY <1>1, <1>4
  <2>2. u[i] \in S /\ u[j] \in T
    BY <1>2, <2>1
  <2> QED
    BY <2>2
<1>5. CASE i > a
  <2> DEFINE c == i - a
             d == j - a
  <2>1. c \in 1..b /\ d \in 1..b /\ c < d /\ u[i] = t[c] /\ u[j] = t[d]
    BY <1>1, <1>2, <1>5
  <2> HIDE DEF c, d
  <2> QED
    BY <2>1 DEF Paired, b
<1> QED
  BY <1>1, <1>3, <1>4, <1>5

(* The order of a prepared plan.                                            *)

(* The part of the plan an operation stands in.                             *)
Part(old, new, o) ==
  IF o.op = "SetDirectoryMode" THEN IF o.path \in Access(old, new) THEN 1 ELSE 5
  ELSE IF o.op = "Quarantine" THEN 2
  ELSE IF o.op = "CreateDirectory" THEN 3
  ELSE 4

(* May x stand before y?                                                    *)
StandsBefore(old, new, x, y) ==
  \/ Part(old, new, x) < Part(old, new, y)
  \/ /\ Part(old, new, x) = Part(old, new, y)
     /\ x.op = "CreateDirectory" => Len(x.path) <= Len(y.path)

Pairs(old, new) ==
  {pair \in OperationType \X OperationType : StandsBefore(old, new, pair[1], pair[2])}

(* Access grants, quarantines, new directories with the outer ones first,   *)
(* content, restrictions: the order prepare concatenates and sorts.         *)
LEMMA PlanOrder ==
  ASSUME NEW old, NEW new
  PROVE  LET s == Prepare(old, new) IN
           /\ Arranges(s, Listed(old, new))
           /\ \A i, j \in 1..Len(s) : i < j => StandsBefore(old, new, s[i], s[j])
<1> DEFINE A == Grants(old, new)
           Q == Quarantines(old, new)
           C == Creations(old, new)
           W == Installations(old, new)
           M == Restrictions(old, new)
           a == ShallowFirst(A)
           q == ShallowFirst(Q)
           c == ShallowFirst(C)
           w == ShallowFirst(W)
           m == DeepFirst(M)
           D == Pairs(old, new)
<1>1. Prepare(old, new) = (((a \o q) \o c) \o w) \o m
  BY DEF Prepare, Grants, Quarantines, Creations, Installations, Restrictions
<1>2. Arranges(a, A) /\ Arranges(q, Q) /\ Arranges(c, C) /\ Arranges(w, W) /\ Arranges(m, M)
  BY PartsAre, ShallowFirstArranges, DeepFirstArranges
<1>3. Sorts(c, C)
  BY PartsAre, ShallowFirstArranges
<1>4. /\ A \cap Q = {} /\ (A \cup Q) \cap C = {} /\ ((A \cup Q) \cup C) \cap W = {}
      /\ (((A \cup Q) \cup C) \cup W) \cap M = {}
  BY PartsAre
<1>5. /\ \A o \in A : o \in OperationType /\ Part(old, new, o) = 1 /\ o.op # "CreateDirectory"
      /\ \A o \in Q : o \in OperationType /\ Part(old, new, o) = 2 /\ o.op # "CreateDirectory"
      /\ \A o \in C : o \in OperationType /\ Part(old, new, o) = 3
      /\ \A o \in W : o \in OperationType /\ Part(old, new, o) = 4 /\ o.op # "CreateDirectory"
      /\ \A o \in M : o \in OperationType /\ Part(old, new, o) = 5 /\ o.op # "CreateDirectory"
  BY PartsAre DEF Part
<1>6. Listed(old, new) = (((A \cup Q) \cup C) \cup W) \cup M
  BY DEF Listed
<1> HIDE DEF A, Q, C, W, M, a, q, c, w, m
<1>7. ASSUME NEW S \in {A, Q, W, M}, NEW s, Arranges(s, S)
      PROVE  Paired(s, D)
  <2>1. \A i \in 1..Len(s) : s[i] \in S
    BY <1>7 DEF Arranges
  <2> QED
    BY <1>5, <2>1 DEF Paired, Pairs, StandsBefore
<1>8. Paired(c, D)
  <2>1. c \in Seq(C)
    BY <1>2 DEF Arranges
  <2>2. \A i \in 1..Len(c) : c[i] \in C /\ i \in DOMAIN c
    BY <2>1
  <2>3. \A i, j \in 1..Len(c) : i < j => Len(c[i].path) <= Len(c[j].path)
    BY <1>3, <2>2 DEF Sorts
  <2> QED
    BY <1>5, <2>2, <2>3 DEF Paired, Pairs, StandsBefore
<1>9. /\ A \X Q \subseteq D /\ (A \cup Q) \X C \subseteq D /\ ((A \cup Q) \cup C) \X W \subseteq D
      /\ (((A \cup Q) \cup C) \cup W) \X M \subseteq D
  BY <1>5 DEF Pairs, StandsBefore
<1>10. Paired(a, D) /\ Paired(q, D) /\ Paired(w, D) /\ Paired(m, D)
  BY <1>2, <1>7
<1> DEFINE s2 == a \o q
           s3 == s2 \o c
           s4 == s3 \o w
           s5 == s4 \o m
<1> HIDE DEF D
<1>11. Arranges(s2, A \cup Q) /\ Paired(s2, D)
  BY <1>2, <1>4, <1>9, <1>10, Joined, JoinedPairs
<1> HIDE DEF s2
<1>12. Arranges(s3, (A \cup Q) \cup C) /\ Paired(s3, D)
  BY <1>2, <1>4, <1>8, <1>9, <1>11, Joined, JoinedPairs
<1> HIDE DEF s3
<1>13. Arranges(s4, ((A \cup Q) \cup C) \cup W) /\ Paired(s4, D)
  BY <1>2, <1>4, <1>9, <1>10, <1>12, Joined, JoinedPairs
<1> HIDE DEF s4
<1>14. Arranges(s5, (((A \cup Q) \cup C) \cup W) \cup M) /\ Paired(s5, D)
  BY <1>2, <1>4, <1>9, <1>10, <1>13, Joined, JoinedPairs
<1>15. Prepare(old, new) = s5
  BY <1>1 DEF s2, s3, s4
<1> HIDE DEF s5
<1>16. \A i, j \in 1..Len(s5) : i < j => StandsBefore(old, new, s5[i], s5[j])
  BY <1>14 DEF Paired, D, Pairs
<1> QED
  BY <1>6, <1>14, <1>15, <1>16
=============================================================================
