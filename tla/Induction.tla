------------------------------- MODULE Induction -------------------------------
(***************************************************************************)
(* Induction over the naturals in the form the proofs of this directory    *)
(* use it: on a set instead of a predicate.                                *)
(***************************************************************************)
EXTENDS Naturals, FiniteSetsExt, WellFoundedInduction, TLAPS

LEMMA LessIsWellFounded == IsWellFoundedOn({ss \in Nat \X Nat : ss[1] < ss[2]}, Nat)
BY NatLessThanWellFounded DEF OpToRel

(* A non-empty set of naturals has a least element.                         *)
LEMMA LeastElement ==
  ASSUME NEW T, T \subseteq Nat, T # {}
  PROVE  \E m \in T : \A n \in T : m <= n
<1> DEFINE R == {ss \in Nat \X Nat : ss[1] < ss[2]}
<1>1. IsWellFoundedOn(R, Nat)
  BY LessIsWellFounded
<1> HIDE DEF R
<1>2. PICK m \in T : \A n \in T : <<n, m>> \notin R
  BY <1>1, WFMin
<1>3. ASSUME NEW n \in T PROVE m <= n
  <2>1. <<n, m>> \in Nat \X Nat /\ <<n, m>>[1] = n /\ <<n, m>>[2] = m
    OBVIOUS
  <2>2. ~(n < m)
    BY <1>2, <2>1 DEF R
  <2> QED
    BY <2>2
<1> QED
  BY <1>3

(* A set that holds 0 and with every number its successor holds them all.   *)
LEMMA SetInduction ==
  ASSUME NEW S, S \subseteq Nat, 0 \in S, \A n \in S : n + 1 \in S
  PROVE  S = Nat
<1> SUFFICES ASSUME Nat \ S # {} PROVE FALSE
  OBVIOUS
<1>1. PICK m \in Nat \ S : \A n \in Nat \ S : m <= n
  BY LeastElement
<1>2. m # 0 /\ m - 1 \in Nat /\ m - 1 \in S
  BY <1>1
<1> QED
  BY <1>1, <1>2

-----------------------------------------------------------------------------
(* The recursion FoldLeft stands for peels the greatest index off a set.    *)
LEMMA MaxOfInterval ==
  ASSUME NEW k \in Nat
  PROVE  /\ Max(1..(k + 1)) = k + 1
         /\ (1..(k + 1)) \ {Max(1..(k + 1))} = 1..k
<1>1. Max(1..(k + 1)) = k + 1
  <2>1. k + 1 \in 1..(k + 1) /\ \A y \in 1..(k + 1) : k + 1 >= y
    OBVIOUS
  <2>2. \A x \in 1..(k + 1) : (\A y \in 1..(k + 1) : x >= y) => x = k + 1
    <3> TAKE x \in 1..(k + 1)
    <3> HAVE \A y \in 1..(k + 1) : x >= y
    <3> QED BY <2>1
  <2> QED
    BY <2>1, <2>2 DEF Max
<1> QED
  BY <1>1

LEMMA MaxIsMember ==
  ASSUME NEW n \in Nat
  PROVE  \A s \in SUBSET (1..n) : s # {} => Max(s) \in s
<1> DEFINE Has(k) == \A s \in SUBSET (1..k) : s # {} => Max(s) \in s
           S == {k \in Nat : Has(k)}
<1>1. Has(0)
  <2>1. \A s \in SUBSET (1..0) : s = {}
    OBVIOUS
  <2> QED
    BY <2>1
<1>2. ASSUME NEW k \in Nat, Has(k) PROVE Has(k + 1)
  <2> SUFFICES ASSUME NEW s \in SUBSET (1..(k + 1)), s # {} PROVE Max(s) \in s
    OBVIOUS
  <2>1. CASE k + 1 \in s
    <3>1. \A y \in s : k + 1 >= y
      OBVIOUS
    <3>2. \A x \in s : (\A y \in s : x >= y) => x = k + 1
      BY <2>1, <3>1
    <3> QED
      BY <2>1, <3>1, <3>2 DEF Max
  <2>2. CASE k + 1 \notin s
    <3>1. s \in SUBSET (1..k)
      BY <2>2
    <3> QED
      BY <1>2, <3>1
  <2> QED
    BY <2>1, <2>2
<1> HIDE DEF Has
<1>3. 0 \in S /\ \A k \in S : k + 1 \in S
  BY <1>1, <1>2
<1> HIDE DEF S
<1>4. S = Nat
  BY <1>3, SetInduction DEF S
<1> QED
  BY <1>4 DEF S, Has

(* step[<<acc, i>>] folds the i-th of n elements into acc.                  *)
Folds(iter, base, step, k) ==
  iter = [s \in SUBSET (1..k) |->
            IF s = {} THEN base ELSE step[<<iter[s \ {Max(s)}], Max(s)>>]]

LEMMA FoldExists ==
  ASSUME NEW G, NEW base \in G, NEW n \in Nat, NEW step \in [G \X (1..n) -> G]
  PROVE  \E iter \in [SUBSET (1..n) -> G] : Folds(iter, base, step, n)
<1> DEFINE Has(k) == \E iter \in [SUBSET (1..k) -> G] : Folds(iter, base, step, k)
           S == {k \in Nat : k <= n => Has(k)}
<1>1. Has(0)
  <2>1. SUBSET (1..0) = {{}}
    OBVIOUS
  <2> DEFINE z == [s \in {{}} |-> base]
  <2>2. Folds(z, base, step, 0) /\ z \in [SUBSET (1..0) -> G]
    BY <2>1 DEF Folds
  <2> HIDE DEF z
  <2> QED
    BY <2>2
<1>2. ASSUME NEW k \in Nat, k + 1 <= n, Has(k) PROVE Has(k + 1)
  <2>1. PICK g \in [SUBSET (1..k) -> G] : Folds(g, base, step, k)
    BY <1>2
  <2> DEFINE h == [s \in SUBSET (1..(k + 1)) |->
                     IF k + 1 \in s THEN step[<<g[s \ {k + 1}], k + 1>>] ELSE g[s]]
  <2>2. ASSUME NEW s \in SUBSET (1..(k + 1))
        PROVE  h[s] \in G /\ h[s] = IF s = {} THEN base ELSE step[<<h[s \ {Max(s)}], Max(s)>>]
    <3>1. CASE k + 1 \in s
      <4>1. Max(s) = k + 1
        <5>1. \A y \in s : k + 1 >= y
          OBVIOUS
        <5>2. \A x \in s : (\A y \in s : x >= y) => x = k + 1
          BY <3>1, <5>1
        <5> QED
          BY <3>1, <5>1, <5>2 DEF Max
      <4>2. /\ k + 1 \notin s \ {k + 1} /\ s \ {k + 1} \in SUBSET (1..(k + 1))
            /\ s \ {k + 1} \in SUBSET (1..k) /\ k + 1 \in 1..n
        BY <1>2
      <4>3. h[s \ {k + 1}] = g[s \ {k + 1}] /\ g[s \ {k + 1}] \in G
        BY <4>2
      <4>4. h[s] = step[<<g[s \ {k + 1}], k + 1>>]
        BY <3>1
      <4>5. step[<<g[s \ {k + 1}], k + 1>>] \in G
        <5> DEFINE x == g[s \ {k + 1}]
        <5>1. <<x, k + 1>> \in G \X (1..n)
          BY <4>2, <4>3
        <5> HIDE DEF x
        <5> QED
          BY <5>1 DEF x
      <4> QED
        BY <3>1, <4>1, <4>3, <4>4, <4>5
    <3>2. CASE k + 1 \notin s /\ s # {}
      <4>1. s \in SUBSET (1..k)
        BY <3>2
      <4>2. k + 1 \notin s \ {Max(s)} /\ s \ {Max(s)} \in SUBSET (1..(k + 1))
        BY <3>2
      <4>3. g[s] = step[<<g[s \ {Max(s)}], Max(s)>>] /\ g[s] \in G
        BY <2>1, <3>2, <4>1 DEF Folds
      <4> QED
        BY <3>2, <4>2, <4>3
    <3>3. CASE s = {}
      <4>1. g[{}] = base /\ g[{}] \in G
        BY <2>1 DEF Folds
      <4> QED
        BY <3>3, <4>1
    <3> QED
      BY <3>1, <3>2, <3>3
  <2>3. Folds(h, base, step, k + 1) /\ h \in [SUBSET (1..(k + 1)) -> G]
    BY <2>2 DEF Folds
  <2> HIDE DEF h
  <2> QED
    BY <2>3
<1> HIDE DEF Has
<1>3. 0 \in S /\ \A k \in S : k + 1 \in S
  BY <1>1, <1>2
<1> HIDE DEF S
<1>4. S = Nat
  BY <1>3, SetInduction DEF S
<1>5. Has(n)
  BY <1>4 DEF S
<1> QED
  BY <1>5 DEF Has
=============================================================================
