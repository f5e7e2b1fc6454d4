---------------------------- MODULE FileStoreProofs ----------------------------
(***************************************************************************)
(* For any number of handles, transactions, compactions and faults, and    *)
(* any byte and record ceilings: the durable store never reads its own     *)
(* files as corrupt, never loses what it reported, and every step of it is *)
(* one of TransactionStore's operations or invisible to the callers.       *)
(*                                                                         *)
(* First what the replay of a log computes, for every log: it can be read  *)
(* in pieces, every record it yields comes from a valid frame, and the log *)
(* compact writes replays to exactly the records it was given.             *)
(***************************************************************************)
EXTENDS FileStore, Induction, FiniteSetTheorems

-----------------------------------------------------------------------------
(* Replay.                                                                  *)

LEMMA SameSequence ==
  ASSUME NEW X, NEW a \in Seq(X), NEW b \in Seq(X), Len(a) = Len(b),
         \A i \in 1..Len(a) : a[i] = b[i]
  PROVE  a = b
OBVIOUS

(* The part of a log from frame k + 1 to frame j.                           *)
LEMMA PartOf ==
  ASSUME NEW X, NEW s \in Seq(X), NEW k \in Nat, NEW j \in Nat, k <= j, j <= Len(s)
  PROVE  /\ SubSeq(s, k + 1, j) \in Seq(X)
         /\ Len(SubSeq(s, k + 1, j)) = j - k
         /\ \A i \in 1..(j - k) : SubSeq(s, k + 1, j)[i] = s[k + i]
OBVIOUS

LEMMA OneMore ==
  ASSUME NEW X, NEW s \in Seq(X), NEW k \in Nat, k + 1 \in 1..Len(s)
  PROVE  /\ SubSeq(s, 1, k) \in Seq(X)
         /\ SubSeq(s, 1, k + 1) = Append(SubSeq(s, 1, k), s[k + 1])
OBVIOUS

(* The records after each of the first n frames.                            *)
History(c, records, frames, n) ==
  c[0] = records /\ \A i \in 1..n : c[i] = Apply(c[i - 1], frames[i])

Fits(iter, records, frames, k) ==
  iter = [s \in SUBSET (1..k) |->
            IF s = {} THEN records ELSE Apply(iter[s \ {Max(s)}], frames[Max(s)])]

LEMMA FitExists ==
  ASSUME NEW records, NEW frames, NEW n \in Nat
  PROVE  \E iter : Fits(iter, records, frames, n)
<1> DEFINE S == {k \in Nat : \E iter : Fits(iter, records, frames, k)}
<1>1. 0 \in S
  <2>1. SUBSET (1..0) = {{}}
    OBVIOUS
  <2>2. Fits([s \in {{}} |-> records], records, frames, 0)
    BY <2>1 DEF Fits
  <2> QED
    BY <2>2
<1>2. ASSUME NEW k \in S PROVE k + 1 \in S
  <2>1. PICK g : Fits(g, records, frames, k)
    OBVIOUS
  <2> DEFINE h == [s \in SUBSET (1..(k + 1)) |->
                     IF k + 1 \in s THEN Apply(g[s \ {k + 1}], frames[k + 1]) ELSE g[s]]
  <2>2. ASSUME NEW s \in SUBSET (1..(k + 1))
        PROVE  h[s] = IF s = {} THEN records ELSE Apply(h[s \ {Max(s)}], frames[Max(s)])
    <3>1. CASE k + 1 \in s
      <4>1. Max(s) = k + 1
        <5>1. \A y \in s : k + 1 >= y
          OBVIOUS
        <5>2. \A x \in s : (\A y \in s : x >= y) => x = k + 1
          BY <3>1, <5>1
        <5> QED
          BY <3>1, <5>1, <5>2 DEF Max
      <4>2. k + 1 \notin s \ {k + 1} /\ s \ {k + 1} \in SUBSET (1..(k + 1))
        OBVIOUS
      <4>3. h[s \ {k + 1}] = g[s \ {k + 1}]
        BY <4>2
      <4> QED
        BY <3>1, <4>1, <4>3
    <3>2. CASE k + 1 \notin s /\ s # {}
      <4>1. s \in SUBSET (1..k)
        BY <3>2
      <4>2. k + 1 \notin s \ {Max(s)} /\ s \ {Max(s)} \in SUBSET (1..(k + 1))
        BY <3>2
      <4>3. g[s] = Apply(g[s \ {Max(s)}], frames[Max(s)])
        BY <2>1, <3>2, <4>1 DEF Fits
      <4> QED
        BY <3>2, <4>2, <4>3
    <3>3. CASE s = {}
      BY <2>1, <3>3 DEF Fits
    <3> QED
      BY <3>1, <3>2, <3>3
  <2>3. Fits(h, records, frames, k + 1)
    BY <2>2 DEF Fits
  <2> QED
    BY <2>3
<1> HIDE DEF S
<1>3. S = Nat
  BY <1>1, <1>2, SetInduction DEF S
<1> QED
  BY <1>3 DEF S

LEMMA ReplayIsFold ==
  ASSUME NEW records, NEW frames, NEW X, frames \in Seq(X)
  PROVE  \E iter : /\ Fits(iter, records, frames, Len(frames))
                   /\ Replay(records, frames) = iter[1..Len(frames)]
<1>1. DOMAIN frames = 1..Len(frames) /\ Len(frames) \in Nat
  OBVIOUS
<1> DEFINE it == CHOOSE iter : Fits(iter, records, frames, Len(frames))
<1>2. Fits(it, records, frames, Len(frames))
  BY <1>1, FitExists
<1>3. Replay(records, frames) = it[1..Len(frames)]
  BY <1>1 DEF Replay, FoldLeft, MapThenFoldSet, Fits
<1> QED
  BY <1>2, <1>3

LEMMA ReplayHasHistory ==
  ASSUME NEW records, NEW frames, NEW X, frames \in Seq(X)
  PROVE  \E c : /\ History(c, records, frames, Len(frames))
                /\ Replay(records, frames) = c[Len(frames)]
<1> DEFINE n == Len(frames)
<1>1. n \in Nat
  OBVIOUS
<1>2. PICK iter : Fits(iter, records, frames, n) /\ Replay(records, frames) = iter[1..n]
  BY ReplayIsFold
<1> HIDE DEF n
<1> DEFINE c == [i \in 0..n |-> iter[1..i]]
<1>3. c[0] = records
  <2>1. 1..0 = {} /\ {} \in SUBSET (1..n) /\ 0 \in 0..n
    BY <1>1
  <2> QED
    BY <1>2, <2>1 DEF Fits
<1>4. ASSUME NEW i \in 1..n PROVE c[i] = Apply(c[i - 1], frames[i])
  <2>1. i - 1 \in Nat /\ i - 1 + 1 = i /\ i - 1 \in 0..n /\ i \in 0..n /\ i \in 1..i
    BY <1>1
  <2>2. Max(1..i) = i /\ (1..i) \ {Max(1..i)} = 1..(i - 1)
    BY <2>1, MaxOfInterval
  <2>3. 1..i \in SUBSET (1..n)
    BY <1>1
  <2>4. iter[1..i] = Apply(iter[1..(i - 1)], frames[i])
    BY <1>2, <2>1, <2>2, <2>3 DEF Fits
  <2> QED
    BY <2>1, <2>4
<1>5. n \in 0..n
  BY <1>1
<1> QED
  BY <1>2, <1>3, <1>4, <1>5 DEF History, n

LEMMA HistoriesAgree ==
  ASSUME NEW records, NEW a, NEW b, NEW n \in Nat, NEW c, NEW d,
         History(c, records, a, n), History(d, records, b, n),
         \A i \in 1..n : a[i] = b[i]
  PROVE  c[n] = d[n]
<1> DEFINE S == {k \in Nat : k <= n => c[k] = d[k]}
<1>1. 0 \in S
  BY DEF History
<1>2. ASSUME NEW k \in S PROVE k + 1 \in S
  <2> SUFFICES ASSUME k + 1 <= n PROVE c[k + 1] = d[k + 1]
    OBVIOUS
  <2>1. k + 1 \in 1..n /\ k + 1 - 1 = k /\ c[k] = d[k]
    OBVIOUS
  <2>2. c[k + 1] = Apply(c[k], a[k + 1]) /\ d[k + 1] = Apply(d[k], b[k + 1])
    BY <2>1 DEF History
  <2> QED
    BY <2>1, <2>2
<1> HIDE DEF S
<1>3. S = Nat
  BY <1>1, <1>2, SetInduction DEF S
<1> QED
  BY <1>3 DEF S

(* No frame, no change.                                                     *)
LEMMA ReplayNothing ==
  ASSUME NEW records PROVE Replay(records, <<>>) = records
<1>1. <<>> \in Seq({}) /\ Len(<<>>) = 0
  OBVIOUS
<1> QED
  BY <1>1, ReplayHasHistory, ZenonT(60) DEF History

(* One frame more, one application more.                                    *)
LEMMA ReplayAppend ==
  ASSUME NEW records, NEW X, NEW s \in Seq(X), NEW f \in X
  PROVE  Replay(records, Append(s, f)) = Apply(Replay(records, s), f)
<1> DEFINE a == Append(s, f)
           n == Len(s)
<1>1. a \in Seq(X) /\ Len(a) = n + 1 /\ n \in Nat /\ a[n + 1] = f /\ \A i \in 1..n : a[i] = s[i]
  OBVIOUS
<1> HIDE DEF a
<1>2. PICK c : History(c, records, s, n) /\ Replay(records, s) = c[n]
  BY ReplayHasHistory
<1>3. PICK d : History(d, records, a, n + 1) /\ Replay(records, a) = d[n + 1]
  BY <1>1, ReplayHasHistory
<1>4. History(d, records, a, n)
  BY <1>1, <1>3 DEF History
<1>5. c[n] = d[n]
  BY <1>1, <1>2, <1>4, HistoriesAgree
<1>6. d[n + 1] = Apply(d[n], f)
  BY <1>1, <1>3 DEF History
<1> QED
  BY <1>2, <1>3, <1>5, <1>6 DEF a

-----------------------------------------------------------------------------
(* A property of the records that no frame disturbs.                        *)
LEMMA ReplayKeeps ==
  ASSUME NEW X, NEW s \in Seq(X), NEW G, NEW records \in G,
         \A r \in G : \A i \in 1..Len(s) : Apply(r, s[i]) \in G
  PROVE  Replay(records, s) \in G
<1>1. Len(s) \in Nat
  OBVIOUS
<1>2. PICK c : History(c, records, s, Len(s)) /\ Replay(records, s) = c[Len(s)]
  BY ReplayHasHistory
<1> DEFINE S == {k \in Nat : k <= Len(s) => c[k] \in G}
<1>3. 0 \in S
  BY <1>2 DEF History
<1>4. ASSUME NEW k \in S PROVE k + 1 \in S
  <2> SUFFICES ASSUME k + 1 <= Len(s) PROVE c[k + 1] \in G
    OBVIOUS
  <2>1. k + 1 \in 1..Len(s) /\ k + 1 - 1 = k /\ c[k] \in G
    BY <1>1
  <2> QED
    BY <1>2, <2>1 DEF History
<1> HIDE DEF S
<1>5. S = Nat
  BY <1>3, <1>4, SetInduction DEF S
<1> QED
  BY <1>1, <1>2, <1>5 DEF S

(* Reading a log in two pieces is reading it whole.                         *)
LEMMA ReplayConcat ==
  ASSUME NEW records, NEW X, NEW p \in Seq(X), NEW q \in Seq(X)
  PROVE  Replay(Replay(records, p), q) = Replay(records, p \o q)
<1> DEFINE k == Len(p)
           m == Len(q)
           w == p \o q
<1>1. k \in Nat /\ m \in Nat /\ k + m \in Nat
  OBVIOUS
<1>2. /\ w \in Seq(X) /\ Len(w) = k + m
      /\ \A i \in 1..k : w[i] = p[i]
      /\ \A i \in 1..m : w[k + i] = q[i]
  OBVIOUS
<1> HIDE DEF w
<1>5. PICK c : History(c, records, w, k + m) /\ Replay(records, w) = c[k + m]
  BY <1>2, ReplayHasHistory
<1>6. PICK d : History(d, records, p, k) /\ Replay(records, p) = d[k]
  BY ReplayHasHistory
<1>7. PICK e : History(e, c[k], q, m) /\ Replay(c[k], q) = e[m]
  BY ReplayHasHistory
<1> HIDE DEF k, m
<1>8. d[k] = c[k]
  <2>1. History(c, records, w, k)
    BY <1>1, <1>5 DEF History
  <2>2. \A i \in 1..k : p[i] = w[i]
    BY <1>2
  <2> QED
    BY <1>1, <1>6, <2>1, <2>2, HistoriesAgree
<1>9. e[m] = c[k + m]
  <2> DEFINE h == [i \in 0..m |-> c[k + i]]
  <2>1. History(h, c[k], q, m)
    <3>1. h[0] = c[k]
      BY <1>1
    <3>2. ASSUME NEW i \in 1..m PROVE h[i] = Apply(h[i - 1], q[i])
      <4> DEFINE x == k + i
      <4>1. i \in 0..m /\ i - 1 \in 0..m /\ x \in 1..(k + m) /\ x - 1 = k + (i - 1)
        BY <1>1
      <4> HIDE DEF x
      <4>2. c[x] = Apply(c[x - 1], w[x])
        BY <1>5, <4>1 DEF History
      <4>3. h[i] = c[x] /\ h[i - 1] = c[x - 1] /\ w[x] = q[i]
        BY <1>2, <4>1 DEF x
      <4> QED
        BY <4>2, <4>3
    <3> QED
      BY <3>1, <3>2 DEF History
  <2>2. m \in 0..m /\ h[m] = c[k + m]
    BY <1>1
  <2> HIDE DEF h
  <2> QED
    BY <1>1, <1>7, <2>1, <2>2, HistoriesAgree
<1> QED
  BY <1>5, <1>6, <1>7, <1>8, <1>9 DEF w

-----------------------------------------------------------------------------
(* The records after the first n frames of a log.                           *)
After(s, n) == Replay(NoRecords, SubSeq(s, 1, n))

LEMMA AfterAll ==
  ASSUME NEW X, NEW s \in Seq(X)
  PROVE  After(s, Len(s)) = Replay(NoRecords, s) /\ After(s, 0) = NoRecords
<1>1. SubSeq(s, 1, Len(s)) = s /\ SubSeq(s, 1, 0) = <<>>
  OBVIOUS
<1> QED
  BY <1>1, ReplayNothing DEF After

LEMMA ReplayPieces ==
  ASSUME NEW X, NEW s \in Seq(X), NEW k \in Nat, NEW j \in Nat, k <= j, j <= Len(s)
  PROVE  Replay(After(s, k), SubSeq(s, k + 1, j)) = After(s, j)
<1>1. SubSeq(s, 1, k) \o SubSeq(s, k + 1, j) = SubSeq(s, 1, j)
  OBVIOUS
<1>2. SubSeq(s, 1, k) \in Seq(X) /\ SubSeq(s, k + 1, j) \in Seq(X)
  OBVIOUS
<1> DEFINE p == SubSeq(s, 1, k)
           q == SubSeq(s, k + 1, j)
<1> HIDE DEF p, q
<1>3. p \in Seq(X) /\ q \in Seq(X)
  BY <1>2 DEF p, q
<1>4. Replay(Replay(NoRecords, p), q) = Replay(NoRecords, p \o q)
  BY <1>3, ReplayConcat
<1> QED
  BY <1>1, <1>4 DEF After, p, q

LEMMA ReplayRest ==
  ASSUME NEW X, NEW s \in Seq(X), NEW k \in 0..Len(s)
  PROVE  Replay(After(s, k), SubSeq(s, k + 1, Len(s))) = Replay(NoRecords, s)
<1>1. k \in Nat /\ Len(s) \in Nat /\ k <= Len(s) /\ Len(s) <= Len(s)
  OBVIOUS
<1>2. Replay(After(s, k), SubSeq(s, k + 1, Len(s))) = After(s, Len(s))
  BY <1>1, ReplayPieces
<1> QED
  BY <1>2, AfterAll

(* A log is replayable when every frame is one the frames before it allow.  *)
LEMMA ReplayableAt ==
  ASSUME NEW X, NEW s \in Seq(X)
  PROVE  Replayable(NoRecords, s) <=>
           \A i \in 1..Len(s) : /\ ValidRecord(s[i])
                                /\ ValidReplay(After(s, i - 1)[s[i].txn], s[i])
BY DEF Replayable, After

LEMMA ReplayableRest ==
  ASSUME NEW X, NEW s \in Seq(X), Replayable(NoRecords, s), NEW k \in 0..Len(s)
  PROVE  Replayable(After(s, k), SubSeq(s, k + 1, Len(s)))
<1> DEFINE n == Len(s)
           u == SubSeq(s, k + 1, n)
<1>1. n \in Nat /\ k \in Nat
  OBVIOUS
<1>2. u \in Seq(X) /\ Len(u) = n - k /\ \A i \in 1..(n - k) : u[i] = s[k + i]
  BY <1>1
<1> SUFFICES ASSUME NEW i \in 1..Len(u)
             PROVE  /\ ValidRecord(u[i])
                    /\ ValidReplay(Replay(After(s, k), SubSeq(u, 1, i - 1))[u[i].txn], u[i])
  BY DEF Replayable
<1>3. i \in 1..(n - k) /\ i - 1 \in 0..(n - k) /\ k + i \in 1..n /\ k + (i - 1) = k + i - 1
  BY <1>1, <1>2
<1>4. Replay(After(s, k), SubSeq(u, 1, i - 1)) = After(s, k + (i - 1))
  <2> DEFINE j == k + (i - 1)
  <2>1. j \in Nat /\ k <= j /\ j <= n
    BY <1>1, <1>3
  <2>2. SubSeq(u, 1, i - 1) = SubSeq(s, k + 1, j)
    <3>1. /\ SubSeq(u, 1, i - 1) \in Seq(X) /\ Len(SubSeq(u, 1, i - 1)) = i - 1
          /\ \A x \in 1..(i - 1) : SubSeq(u, 1, i - 1)[x] = u[x] /\ u[x] = s[k + x]
      BY <1>1, <1>2, <1>3
    <3>2. /\ SubSeq(s, k + 1, j) \in Seq(X) /\ Len(SubSeq(s, k + 1, j)) = i - 1
          /\ \A x \in 1..(i - 1) : SubSeq(s, k + 1, j)[x] = s[k + x]
      BY <1>1, <1>3
    <3> DEFINE a == SubSeq(u, 1, i - 1)
               b == SubSeq(s, k + 1, j)
    <3>3. a \in Seq(X) /\ b \in Seq(X) /\ Len(a) = Len(b) /\ \A x \in 1..Len(a) : a[x] = b[x]
      BY <1>3, <3>1, <3>2
    <3> HIDE DEF a, b
    <3>4. a = b
      BY <3>3, SameSequence
    <3> QED
      BY <3>4 DEF a, b
  <2> HIDE DEF j
  <2>3. Replay(After(s, k), SubSeq(s, k + 1, j)) = After(s, j)
    BY <1>1, <2>1, ReplayPieces
  <2> QED
    BY <2>2, <2>3 DEF j
<1>5. u[i] = s[k + i]
  BY <1>2, <1>3
<1>6. ValidRecord(s[k + i]) /\ ValidReplay(After(s, k + i - 1)[s[k + i].txn], s[k + i])
  BY <1>3, ReplayableAt
<1> HIDE DEF u, n
<1> QED
  BY <1>3, <1>4, <1>5, <1>6

LEMMA ReplayablePrefix ==
  ASSUME NEW X, NEW s \in Seq(X), Replayable(NoRecords, s), NEW k \in 0..Len(s)
  PROVE  Replayable(NoRecords, SubSeq(s, 1, k))
<1> DEFINE p == SubSeq(s, 1, k)
<1>1. p \in Seq(X) /\ Len(p) = k /\ \A i \in 1..k : p[i] = s[i]
  OBVIOUS
<1>2. ASSUME NEW i \in 1..k PROVE SubSeq(p, 1, i - 1) = SubSeq(s, 1, i - 1)
  OBVIOUS
<1> HIDE DEF p
<1>3. ASSUME NEW i \in 1..k
      PROVE  ValidRecord(p[i]) /\ ValidReplay(After(p, i - 1)[p[i].txn], p[i])
  <2>1. i \in 1..Len(s)
    OBVIOUS
  <2>2. ValidRecord(s[i]) /\ ValidReplay(After(s, i - 1)[s[i].txn], s[i])
    BY <2>1, ReplayableAt
  <2> QED
    BY <1>1, <1>2, <2>2 DEF After
<1>4. Replayable(NoRecords, p)
  BY <1>1, <1>3, ReplayableAt
<1> QED
  BY <1>4 DEF p

LEMMA ReplayableAppend ==
  ASSUME NEW X, NEW s \in Seq(X), NEW f \in X, Replayable(NoRecords, s),
         ValidRecord(f), ValidReplay(Replay(NoRecords, s)[f.txn], f)
  PROVE  Replayable(NoRecords, Append(s, f))
<1> DEFINE a == Append(s, f)
           n == Len(s)
<1>1. /\ n \in Nat /\ a \in Seq(X) /\ Len(a) = n + 1 /\ a[n + 1] = f
      /\ \A i \in 1..n : a[i] = s[i]
  OBVIOUS
<1>2. ASSUME NEW i \in 1..(n + 1) PROVE SubSeq(a, 1, i - 1) = SubSeq(s, 1, i - 1)
  <2>1. i - 1 \in Nat /\ i - 1 <= n /\ i - 1 <= n + 1
    BY <1>1
  <2>2. \A j \in 1..(i - 1) : SubSeq(a, 1, i - 1)[j] = a[j] /\ SubSeq(s, 1, i - 1)[j] = s[j] /\ a[j] = s[j]
    BY <1>1, <2>1
  <2>3. /\ SubSeq(a, 1, i - 1) \in Seq(X) /\ SubSeq(s, 1, i - 1) \in Seq(X)
        /\ Len(SubSeq(a, 1, i - 1)) = i - 1 /\ Len(SubSeq(s, 1, i - 1)) = i - 1
    BY <1>1, <2>1
  <2> QED
    BY <2>2, <2>3
<1> HIDE DEF a
<1>3. ASSUME NEW i \in 1..(n + 1)
      PROVE  ValidRecord(a[i]) /\ ValidReplay(After(a, i - 1)[a[i].txn], a[i])
  <2>1. CASE i \in 1..n
    <3>1. ValidRecord(s[i]) /\ ValidReplay(After(s, i - 1)[s[i].txn], s[i])
      BY <2>1, ReplayableAt
    <3> QED
      BY <1>1, <1>2, <2>1, <3>1 DEF After
  <2>2. CASE i = n + 1
    <3>1. i - 1 = n /\ After(s, n) = Replay(NoRecords, s)
      BY <1>1, <2>2, AfterAll
    <3>2. After(a, n) = After(s, n)
      BY <1>2, <2>2, <3>1 DEF After
    <3> QED
      BY <1>1, <2>2, <3>1, <3>2
  <2> QED
    BY <1>1, <2>1, <2>2
<1>4. Replayable(NoRecords, a)
  BY <1>1, <1>3, ReplayableAt
<1> QED
  BY <1>4 DEF a

-----------------------------------------------------------------------------
(* What every replayed record has been through.                             *)
FrameOf(records, t) ==
  [txn |-> t, state |-> records[t].state, approval |-> records[t].approval, now |-> 0]

SoundRecords ==
  {r \in [Txn -> Record] :
     \A t \in Txn : r[t] # Absent => FrameOf(r, t) \in Frame /\ ValidRecord(FrameOf(r, t))}

LEMMA NoRecordsSound == NoRecords \in SoundRecords /\ Known(NoRecords) = {}
BY DEF NoRecords, SoundRecords, Record, Absent, Known

LEMMA ApplyTyped ==
  ASSUME NEW r \in [Txn -> Record], NEW f \in Frame
  PROVE  /\ Apply(r, f) \in [Txn -> Record]
         /\ \A t \in Txn : Apply(r, f)[t] =
              IF t = f.txn THEN [state |-> f.state, approval |-> f.approval] ELSE r[t]
BY DEF Apply, Frame, Record

LEMMA FrameIsPresent ==
  ASSUME NEW f \in Frame
  PROVE  [state |-> f.state, approval |-> f.approval] # Absent
<1>1. "Absent" \notin States
  BY DEF States
<1> QED
  BY <1>1 DEF Frame, Absent

LEMMA ApplySound ==
  ASSUME NEW r \in SoundRecords, NEW f \in Frame, ValidRecord(f)
  PROVE  Apply(r, f) \in SoundRecords
<1> DEFINE a == Apply(r, f)
<1>1. /\ a \in [Txn -> Record]
      /\ \A t \in Txn : a[t] = IF t = f.txn THEN [state |-> f.state, approval |-> f.approval] ELSE r[t]
  BY ApplyTyped DEF SoundRecords
<1> HIDE DEF a
<1>2. ASSUME NEW t \in Txn, a[t] # Absent
      PROVE  FrameOf(a, t) \in Frame /\ ValidRecord(FrameOf(a, t))
  <2>1. CASE t = f.txn
    <3>1. FrameOf(a, t) = [txn |-> t, state |-> f.state, approval |-> f.approval, now |-> 0]
      BY <1>1, <2>1 DEF FrameOf
    <3> QED
      BY <2>1, <3>1 DEF Frame, ValidRecord
  <2>2. CASE t # f.txn
    BY <1>1, <1>2, <2>2 DEF SoundRecords, FrameOf
  <2> QED
    BY <2>1, <2>2
<1> QED
  BY <1>1, <1>2 DEF SoundRecords, a

LEMMA ReplaySound ==
  ASSUME NEW s \in Seq(Frame), Replayable(NoRecords, s)
  PROVE  Replay(NoRecords, s) \in SoundRecords
<1>1. \A r \in SoundRecords : \A i \in 1..Len(s) : Apply(r, s[i]) \in SoundRecords
  <2> TAKE r \in SoundRecords
  <2> TAKE i \in 1..Len(s)
  <2>1. s[i] \in Frame
    OBVIOUS
  <2>2. ValidRecord(s[i])
    BY ReplayableAt
  <2> QED
    BY <2>1, <2>2, ApplySound
<1> QED
  BY <1>1, NoRecordsSound, ReplayKeeps

FewRecords == {r \in [Txn -> Record] : IsFiniteSet(Known(r))}

LEMMA ApplyFew ==
  ASSUME NEW r \in FewRecords, NEW f \in Frame
  PROVE  /\ Apply(r, f) \in FewRecords
         /\ Known(Apply(r, f)) = Known(r) \cup {f.txn}
<1>1. Known(Apply(r, f)) = Known(r) \cup {f.txn}
  <2>1. f.txn \in Txn /\ r \in [Txn -> Record]
    BY DEF Frame, FewRecords
  <2> DEFINE a == Apply(r, f)
  <2>2. \A t \in Txn : a[t] =
          IF t = f.txn THEN [state |-> f.state, approval |-> f.approval] ELSE r[t]
    BY <2>1, ApplyTyped
  <2>3. [state |-> f.state, approval |-> f.approval] # Absent
    BY FrameIsPresent
  <2> HIDE DEF a
  <2>4. \A t \in Txn : a[t] # Absent <=> (t = f.txn \/ r[t] # Absent)
    BY <2>2, <2>3
  <2>5. Known(a) = Known(r) \cup {f.txn}
    BY <2>1, <2>4 DEF Known
  <2> QED
    BY <2>5 DEF a
<1>2. IsFiniteSet(Known(r) \cup {f.txn})
  BY FS_AddElement DEF FewRecords
<1> QED
  BY <1>1, <1>2, ApplyTyped DEF FewRecords

LEMMA ReplayFew ==
  ASSUME NEW s \in Seq(Frame)
  PROVE  Replay(NoRecords, s) \in FewRecords
<1>1. NoRecords \in FewRecords
  BY NoRecordsSound, FS_EmptySet DEF FewRecords, SoundRecords
<1>2. \A r \in FewRecords : \A i \in 1..Len(s) : Apply(r, s[i]) \in FewRecords
  <2> TAKE r \in FewRecords
  <2> TAKE i \in 1..Len(s)
  <2>1. s[i] \in Frame
    OBVIOUS
  <2> QED
    BY <2>1, ApplyFew
<1> QED
  BY <1>1, <1>2, ReplayKeeps

-----------------------------------------------------------------------------
(* A set written down as a sequence.                                        *)
LEMMA ListOf ==
  ASSUME NEW S, IsFiniteSet(S)
  PROVE  /\ SetToSeq(S) \in Seq(S)
         /\ Len(SetToSeq(S)) = Cardinality(S)
         /\ \A i, j \in 1..Len(SetToSeq(S)) : SetToSeq(S)[i] = SetToSeq(S)[j] => i = j
         /\ \A x \in S : \E i \in 1..Len(SetToSeq(S)) : SetToSeq(S)[i] = x
<1> DEFINE n == Cardinality(S)
<1>1. n \in Nat /\ ExistsBijection(1..n, S)
  BY FS_CardinalityType
<1>2. \E f \in [1..n -> S] : IsInjective(f)
  BY <1>1 DEF ExistsBijection, Bijection, Injection
<1> DEFINE q == SetToSeq(S)
<1>3. q \in [1..n -> S] /\ IsInjective(q)
  BY <1>2 DEF SetToSeq
<1>4. q \in Surjection(1..n, S)
  <2>1. q \in Injection(1..n, S)
    BY <1>3 DEF Injection
  <2>2. Cardinality(1..n) = n
    <3>1. n \in Int /\ 1 \in Int
      BY <1>1
    <3> QED
      BY <1>1, <3>1, FS_Interval
  <2> QED
    BY <2>1, <2>2, FS_Injection
<1> HIDE DEF q, n
<1>5. q \in Seq(S) /\ Len(q) = n
  BY <1>1, <1>3
<1>6. \A i, j \in 1..n : q[i] = q[j] => i = j
  BY <1>3 DEF IsInjective
<1>7. \A x \in S : \E i \in 1..n : q[i] = x
  BY <1>4 DEF Surjection
<1> QED
  BY <1>5, <1>6, <1>7 DEF q, n

(* The log compact writes holds exactly the records it was given.           *)
Listing(records) == SetToSeq({FrameOf(records, t) : t \in Known(records)})

LEMMA ListingHolds ==
  ASSUME NEW r \in SoundRecords, IsFiniteSet(Known(r))
  PROVE  /\ Listing(r) \in Seq(Frame)
         /\ \A i \in 1..Len(Listing(r)) :
              \E t \in Known(r) : Listing(r)[i] = FrameOf(r, t)
         /\ \A t \in Known(r) : \E i \in 1..Len(Listing(r)) : Listing(r)[i] = FrameOf(r, t)
         /\ \A i, j \in 1..Len(Listing(r)) : Listing(r)[i].txn = Listing(r)[j].txn => i = j
<1> DEFINE S == {FrameOf(r, t) : t \in Known(r)}
           q == Listing(r)
<1>1. IsFiniteSet(S)
  <2> DEFINE f == [t \in Known(r) |-> FrameOf(r, t)]
  <2>1. f \in Surjection(Known(r), S)
    BY DEF Surjection
  <2> QED
    BY <2>1, FS_Surjection
<1>2. S \subseteq Frame
  BY DEF SoundRecords, Known
<1>3. /\ q \in Seq(S)
      /\ \A i, j \in 1..Len(q) : q[i] = q[j] => i = j
      /\ \A x \in S : \E i \in 1..Len(q) : q[i] = x
  BY <1>1, ListOf DEF Listing
<1> HIDE DEF q
<1>4. \A i \in 1..Len(q) : q[i] \in S
  <2> HIDE DEF S
  <2> QED BY <1>3
<1>5. q \in Seq(Frame)
  <2> HIDE DEF S
  <2> QED BY <1>2, <1>3
<1>6. \A x, y \in S : x.txn = y.txn => x = y
  BY DEF FrameOf
<1>7. \A i, j \in 1..Len(q) : q[i].txn = q[j].txn => i = j
  <2> HIDE DEF S
  <2> QED BY <1>3, <1>4, <1>6
<1> QED
  BY <1>3, <1>4, <1>5, <1>7 DEF q

LEMMA ListingReplays ==
  ASSUME NEW r \in SoundRecords, IsFiniteSet(Known(r))
  PROVE  /\ Replay(NoRecords, Listing(r)) = r /\ Replayable(NoRecords, Listing(r))
         /\ \A i \in 1..Len(Listing(r)) :
              After(Listing(r), i - 1)[Listing(r)[i].txn] = Absent
<1> DEFINE q == Listing(r)
<1>1. /\ q \in Seq(Frame)
      /\ \A i \in 1..Len(q) : \E t \in Known(r) : q[i] = FrameOf(r, t)
      /\ \A t \in Known(r) : \E i \in 1..Len(q) : q[i] = FrameOf(r, t)
      /\ \A i, j \in 1..Len(q) : q[i].txn = q[j].txn => i = j
  BY ListingHolds
<1> HIDE DEF q
<1> DEFINE n == Len(q)
           Written(k, t) == \E i \in 1..k : q[i].txn = t
           Is(v, k) == /\ v \in [Txn -> Record]
                       /\ \A t \in Txn : v[t] = IF Written(k, t) THEN r[t] ELSE Absent
           S == {k \in Nat : k <= n => Is(After(q, k), k)}
<1>2. n \in Nat
  BY <1>1
<1>3. 0 \in S
  <2>1. After(q, 0) = NoRecords
    BY <1>1, AfterAll
  <2>2. NoRecords \in [Txn -> Record] /\ \A t \in Txn : NoRecords[t] = Absent
    BY NoRecordsSound DEF SoundRecords, NoRecords
  <2> QED
    BY <2>1, <2>2
<1>4. ASSUME NEW k \in S PROVE k + 1 \in S
  <2> SUFFICES ASSUME k + 1 <= n PROVE Is(After(q, k + 1), k + 1)
    OBVIOUS
  <2> DEFINE f == q[k + 1]
             v == After(q, k)
             w == After(q, k + 1)
  <2>1. k \in Nat /\ k + 1 \in 1..n /\ Is(v, k)
    BY <1>2
  <2>2. PICK t \in Known(r) : f = FrameOf(r, t)
    BY <1>1, <2>1
  <2>3. /\ t \in Txn /\ f.txn = t /\ f \in Frame
        /\ [state |-> f.state, approval |-> f.approval] = r[t]
    BY <2>2 DEF FrameOf, Known, SoundRecords, Record
  <2>4. w = Apply(v, f)
    <3>1. SubSeq(q, 1, k) \in Seq(Frame) /\ SubSeq(q, 1, k + 1) = Append(SubSeq(q, 1, k), f)
      BY <1>1, <2>1, OneMore
    <3> DEFINE p == SubSeq(q, 1, k)
    <3> HIDE DEF p, f
    <3>2. p \in Seq(Frame) /\ f \in Frame
      BY <2>3, <3>1 DEF p
    <3>3. Replay(NoRecords, Append(p, f)) = Apply(Replay(NoRecords, p), f)
      BY <3>2, ReplayAppend
    <3> QED
      BY <3>1, <3>3 DEF After, p, f
  <2> HIDE DEF v, w, f
  <2>5. w \in [Txn -> Record] /\ \A u \in Txn : w[u] = IF u = t THEN r[t] ELSE v[u]
    BY <2>1, <2>3, <2>4, ApplyTyped
  <2>6. \A u \in Txn : Written(k + 1, u) <=> (Written(k, u) \/ u = t)
    BY <2>1, <2>3 DEF f
  <2>7. Is(w, k + 1)
    BY <2>1, <2>5, <2>6
  <2> QED
    BY <2>7 DEF w
<1> HIDE DEF S
<1>5. S = Nat
  BY <1>3, <1>4, SetInduction DEF S
<1>6. \A k \in 0..n : Is(After(q, k), k)
  BY <1>2, <1>5 DEF S
<1>7. Replay(NoRecords, q) = r
  <2>1. Is(Replay(NoRecords, q), n)
    <3>1. n \in 0..n
      BY <1>2
    <3> QED
      BY <1>1, <1>6, <3>1, AfterAll
  <2>2. ASSUME NEW t \in Txn, r[t] # Absent PROVE Written(n, t)
    <3>1. t \in Known(r)
      BY <2>2 DEF Known
    <3>2. PICK i \in 1..n : q[i] = FrameOf(r, t)
      BY <1>1, <3>1
    <3>3. q[i].txn = t
      BY <3>2 DEF FrameOf
    <3> QED
      BY <3>3
  <2> QED
    BY <2>1, <2>2 DEF SoundRecords
<1>8. Replayable(NoRecords, q) /\ \A i \in 1..n : After(q, i - 1)[q[i].txn] = Absent
  <2>1. ASSUME NEW i \in 1..n
        PROVE  /\ ValidRecord(q[i]) /\ ValidReplay(After(q, i - 1)[q[i].txn], q[i])
               /\ After(q, i - 1)[q[i].txn] = Absent
    <3>1. PICK t \in Known(r) : q[i] = FrameOf(r, t)
      BY <1>1
    <3>2. ValidRecord(q[i]) /\ q[i].txn = t /\ t \in Txn
      BY <3>1 DEF SoundRecords, Known, FrameOf
    <3>3. i - 1 \in 0..n
      BY <1>2
    <3>4. ~Written(i - 1, t)
      <4> SUFFICES ASSUME NEW j \in 1..(i - 1), q[j].txn = t PROVE FALSE
        OBVIOUS
      <4>1. j \in 1..n /\ j # i
        BY <1>2
      <4> QED
        BY <1>1, <3>2, <4>1
    <3>5. After(q, i - 1)[t] = Absent
      BY <1>6, <3>2, <3>3, <3>4
    <3> QED
      BY <3>2, <3>5 DEF ValidReplay
  <2> QED
    BY <1>1, <2>1, ReplayableAt
<1> QED
  BY <1>7, <1>8 DEF q

-----------------------------------------------------------------------------
(* A frame more leaves the records before it as they were...                *)
LEMMA AfterAppend ==
  ASSUME NEW X, NEW s \in Seq(X), NEW f \in X, NEW k \in 0..Len(s)
  PROVE  After(Append(s, f), k) = After(s, k)
<1>1. SubSeq(Append(s, f), 1, k) = SubSeq(s, 1, k)
  <2>1. k \in Nat /\ k <= Len(s)
    OBVIOUS
  <2>2. \A i \in 1..k : SubSeq(Append(s, f), 1, k)[i] = s[i] /\ SubSeq(s, 1, k)[i] = s[i]
    OBVIOUS
  <2>3. /\ SubSeq(Append(s, f), 1, k) \in Seq(X) /\ SubSeq(s, 1, k) \in Seq(X)
        /\ Len(SubSeq(Append(s, f), 1, k)) = k /\ Len(SubSeq(s, 1, k)) = k
    OBVIOUS
  <2> QED
    BY <2>2, <2>3
<1> QED
  BY <1>1 DEF After

(* ...and the last frame is the last to be applied.                         *)
LEMMA ReplayLast ==
  ASSUME NEW X, NEW s \in Seq(X), s # <<>>
  PROVE  Replay(NoRecords, s) = Apply(After(s, Len(s) - 1), s[Len(s)])
<1> DEFINE k == Len(s) - 1
           p == SubSeq(s, 1, k)
           f == s[Len(s)]
<1>1. k \in Nat /\ k + 1 = Len(s) /\ k + 1 \in 1..Len(s) /\ SubSeq(s, 1, Len(s)) = s /\ f \in X
  OBVIOUS
<1> HIDE DEF k
<1>2. p \in Seq(X) /\ s = Append(p, f)
  BY <1>1, OneMore
<1> HIDE DEF p, f
<1>3. Replay(NoRecords, Append(p, f)) = Apply(Replay(NoRecords, p), f)
  BY <1>1, <1>2, ReplayAppend
<1> QED
  BY <1>2, <1>3 DEF After, p, f, k

-----------------------------------------------------------------------------
(* What a log weighs.                                                       *)
Weighs(c, frames, n) ==
  c[0] = 0 /\ \A i \in 1..n : c[i] \in Nat /\ c[i] = c[i - 1] + Bytes(frames[i])

LEMMA BytesNatural == \A f : Bytes(f) \in Nat
BY DEF Bytes

LEMMA BytesHaveHistory ==
  ASSUME NEW X, NEW frames \in Seq(X)
  PROVE  \E c : Weighs(c, frames, Len(frames)) /\ LogBytes(frames) = c[Len(frames)]
<1> DEFINE n == Len(frames)
           adding == [x \in Nat \X (1..n) |-> x[1] + Bytes(frames[x[2]])]
           Is(it) == it = [s \in SUBSET (1..n) |->
                             IF s = {} THEN 0
                             ELSE it[s \ {Max(s)}] + Bytes(frames[Max(s)])]
<1>1. n \in Nat /\ DOMAIN frames = 1..n
  OBVIOUS
<1>2. \A x \in Nat, i \in 1..n : adding[<<x, i>>] = x + Bytes(frames[i]) /\ adding[<<x, i>>] \in Nat
  <2> TAKE x \in Nat, i \in 1..n
  <2>1. <<x, i>> \in Nat \X (1..n) /\ <<x, i>>[1] = x /\ <<x, i>>[2] = i
    OBVIOUS
  <2>2. adding[<<x, i>>] = x + Bytes(frames[i])
    BY <2>1
  <2> HIDE DEF adding
  <2>3. Bytes(frames[i]) \in Nat
    BY BytesNatural
  <2> QED
    BY <2>2, <2>3
<1>3. adding \in [Nat \X (1..n) -> Nat]
  BY BytesNatural
<1> DEFINE it == CHOOSE iter : Is(iter)
<1>4. LogBytes(frames) = it[1..n]
  BY <1>1 DEF LogBytes, FoldLeft, MapThenFoldSet
<1> HIDE DEF adding
<1>5. PICK iter \in [SUBSET (1..n) -> Nat] : Folds(iter, 0, adding, n)
  <2> HIDE DEF n
  <2> QED
    BY <1>1, <1>3, FoldExists
<1>6. Is(iter)
  <2>1. ASSUME NEW s \in SUBSET (1..n), s # {}
        PROVE  adding[<<iter[s \ {Max(s)}], Max(s)>>] = iter[s \ {Max(s)}] + Bytes(frames[Max(s)])
    <3>1. Max(s) \in 1..n
      BY <1>1, <2>1, MaxIsMember
    <3>2. iter[s \ {Max(s)}] \in Nat
      BY <1>5
    <3> QED
      BY <1>2, <3>1, <3>2
  <2> QED
    BY <1>5, <2>1 DEF Folds
<1>7. Is(it)
  BY <1>6
<1> HIDE DEF it
<1> DEFINE c == [i \in 0..n |-> it[1..i]]
<1>8. c[0] = 0
  <2>1. 1..0 = {} /\ {} \in SUBSET (1..n) /\ 0 \in 0..n
    BY <1>1
  <2> QED
    BY <1>7, <2>1
<1>9. ASSUME NEW i \in 1..n PROVE c[i] = c[i - 1] + Bytes(frames[i])
  <2>1. i - 1 \in Nat /\ i - 1 + 1 = i /\ i - 1 \in 0..n /\ i \in 0..n /\ i \in 1..i
    BY <1>1
  <2>2. Max(1..i) = i /\ (1..i) \ {Max(1..i)} = 1..(i - 1)
    BY <2>1, MaxOfInterval
  <2>3. 1..i \in SUBSET (1..n)
    BY <1>1
  <2>4. it[1..i] = it[1..(i - 1)] + Bytes(frames[i])
    BY <1>7, <2>1, <2>2, <2>3
  <2> QED
    BY <2>1, <2>4
<1> DEFINE S == {k \in Nat : k <= n => c[k] \in Nat}
<1>10. 0 \in S
  BY <1>8
<1>11. ASSUME NEW k \in S PROVE k + 1 \in S
  <2> SUFFICES ASSUME k + 1 <= n PROVE c[k + 1] \in Nat
    OBVIOUS
  <2>1. k + 1 \in 1..n /\ k + 1 - 1 = k /\ c[k] \in Nat
    BY <1>1
  <2> HIDE DEF c
  <2>2. c[k + 1] = c[k] + Bytes(frames[k + 1])
    BY <1>9, <2>1
  <2> QED
    BY <2>1, <2>2, BytesNatural
<1> HIDE DEF S
<1>12. S = Nat
  BY <1>10, <1>11, SetInduction DEF S
<1>13. \A k \in 0..n : c[k] \in Nat
  <2> HIDE DEF c
  <2> QED
    BY <1>1, <1>12 DEF S
<1>14. n \in 0..n /\ c[n] = it[1..n]
  BY <1>1
<1> HIDE DEF c
<1>15. Weighs(c, frames, n)
  BY <1>1, <1>8, <1>9, <1>13 DEF Weighs
<1> QED
  BY <1>4, <1>14, <1>15

LEMMA WeightsAgree ==
  ASSUME NEW a, NEW b, NEW n \in Nat, NEW c, NEW d,
         Weighs(c, a, n), Weighs(d, b, n), \A i \in 1..n : a[i] = b[i]
  PROVE  c[n] = d[n]
<1> DEFINE S == {k \in Nat : k <= n => c[k] = d[k]}
<1>1. 0 \in S
  BY DEF Weighs
<1>2. ASSUME NEW k \in S PROVE k + 1 \in S
  <2> SUFFICES ASSUME k + 1 <= n PROVE c[k + 1] = d[k + 1]
    OBVIOUS
  <2>1. k + 1 \in 1..n /\ k + 1 - 1 = k /\ c[k] = d[k]
    OBVIOUS
  <2>2. c[k + 1] = c[k] + Bytes(a[k + 1]) /\ d[k + 1] = d[k] + Bytes(b[k + 1])
    BY <2>1 DEF Weighs
  <2> QED
    BY <2>1, <2>2
<1> HIDE DEF S
<1>3. S = Nat
  BY <1>1, <1>2, SetInduction DEF S
<1> QED
  BY <1>3 DEF S

LEMMA WeightOfNothing == LogBytes(<<>>) = 0
<1>1. <<>> \in Seq({}) /\ Len(<<>>) = 0
  OBVIOUS
<1> DEFINE e == <<>>
<1> HIDE DEF e
<1>2. PICK c : Weighs(c, e, Len(e)) /\ LogBytes(e) = c[Len(e)]
  BY <1>1, BytesHaveHistory DEF e
<1> QED
  BY <1>1, <1>2 DEF Weighs, e

(* A frame more is a frame's bytes more.                                    *)
LEMMA WeightAppend ==
  ASSUME NEW X, NEW s \in Seq(X), NEW f \in X
  PROVE  LogBytes(s) \in Nat /\ LogBytes(Append(s, f)) = LogBytes(s) + Bytes(f)
<1> DEFINE a == Append(s, f)
           n == Len(s)
<1>1. a \in Seq(X) /\ Len(a) = n + 1 /\ n \in Nat /\ a[n + 1] = f /\ \A i \in 1..n : a[i] = s[i]
  OBVIOUS
<1> HIDE DEF a
<1>2. PICK c : Weighs(c, s, n) /\ LogBytes(s) = c[n]
  BY BytesHaveHistory
<1>3. PICK d : Weighs(d, a, n + 1) /\ LogBytes(a) = d[n + 1]
  BY <1>1, BytesHaveHistory
<1>4. Weighs(d, a, n)
  BY <1>1, <1>3 DEF Weighs
<1>5. c[n] = d[n]
  BY <1>1, <1>2, <1>4, WeightsAgree
<1>6. d[n + 1] = d[n] + Bytes(f)
  BY <1>1, <1>3 DEF Weighs
<1>7. c[n] \in Nat
  BY <1>1, <1>2 DEF Weighs
<1> QED
  BY <1>2, <1>3, <1>5, <1>6, <1>7 DEF a

LEMMA WeightNatural ==
  ASSUME NEW X, NEW s \in Seq(X)
  PROVE  LogBytes(s) \in Nat
<1>1. PICK c : Weighs(c, s, Len(s)) /\ LogBytes(s) = c[Len(s)]
  BY BytesHaveHistory
<1> QED
  BY <1>1 DEF Weighs

(* A log cut back weighs no more.                                           *)
LEMMA WeightOfPrefix ==
  ASSUME NEW X, NEW s \in Seq(X), NEW k \in 0..Len(s)
  PROVE  LogBytes(SubSeq(s, 1, k)) <= LogBytes(s)
<1> DEFINE n == Len(s)
           W(m) == LogBytes(SubSeq(s, 1, m))
           S == {d \in Nat : k + d <= n => W(k) <= W(k + d)}
<1>1. n \in Nat /\ k \in Nat
  OBVIOUS
<1>2. \A m \in 0..n : W(m) \in Nat
  <2> TAKE m \in 0..n
  <2> DEFINE p == SubSeq(s, 1, m)
  <2>1. p \in Seq(X)
    OBVIOUS
  <2> HIDE DEF p
  <2>2. LogBytes(p) \in Nat
    BY <2>1, WeightNatural
  <2> QED
    BY <2>2 DEF p
<1>3. ASSUME NEW m \in Nat, m + 1 <= n PROVE W(m) <= W(m + 1)
  <2> DEFINE p == SubSeq(s, 1, m)
             f == s[m + 1]
  <2>1. p \in Seq(X) /\ SubSeq(s, 1, m + 1) = Append(p, f) /\ f \in X
    BY <1>1, <1>3, OneMore
  <2> HIDE DEF p, f
  <2>2. LogBytes(p) \in Nat /\ LogBytes(Append(p, f)) = LogBytes(p) + Bytes(f)
    BY <2>1, WeightAppend
  <2>3. LogBytes(p) <= LogBytes(Append(p, f))
    BY <2>2, BytesNatural
  <2> QED
    BY <2>1, <2>3 DEF p
<1> HIDE DEF W
<1>4. 0 \in S
  <2>1. k + 0 = k /\ k \in 0..n
    BY <1>1
  <2> QED
    BY <1>2, <2>1
<1>5. ASSUME NEW d \in S PROVE d + 1 \in S
  <2> SUFFICES ASSUME k + (d + 1) <= n PROVE W(k) <= W(k + (d + 1))
    OBVIOUS
  <2> DEFINE m == k + d
  <2>1. m \in Nat /\ m + 1 <= n /\ k + (d + 1) = m + 1 /\ W(k) <= W(m)
    BY <1>1
  <2> HIDE DEF m
  <2>2. W(m) <= W(m + 1) /\ W(k) \in Nat /\ W(m) \in Nat /\ W(m + 1) \in Nat
    <3>1. k \in 0..n /\ m \in 0..n /\ m + 1 \in 0..n
      BY <1>1, <2>1
    <3> QED
      BY <1>2, <1>3, <2>1, <3>1
  <2> QED
    BY <2>1, <2>2
<1> HIDE DEF S
<1>6. S = Nat
  BY <1>4, <1>5, SetInduction DEF S
<1>7. n - k \in Nat /\ k + (n - k) = n /\ n <= n
  BY <1>1
<1>8. W(k) <= W(n)
  <2> DEFINE d == n - k
  <2>1. d \in S /\ k + d = n
    BY <1>6, <1>7
  <2> HIDE DEF d
  <2> QED
    BY <1>7, <2>1 DEF S
<1>9. SubSeq(s, 1, n) = s
  OBVIOUS
<1> QED
  BY <1>8, <1>9 DEF W

(* What the records weigh: a log holds at least that, and the log compact   *)
(* writes holds exactly that.                                               *)
Granted(records) == {t \in Txn : records[t].approval # NoGrant}

Weight(records) == Cardinality(Known(records)) + Cardinality(Granted(records))

LightRecords == {r \in FewRecords : Granted(r) \subseteq Known(r)}

LEMMA WeightIsNatural ==
  ASSUME NEW r \in LightRecords
  PROVE  /\ IsFiniteSet(Known(r)) /\ IsFiniteSet(Granted(r))
         /\ Cardinality(Known(r)) \in Nat /\ Cardinality(Granted(r)) \in Nat
         /\ Weight(r) \in Nat
<1>1. IsFiniteSet(Known(r)) /\ IsFiniteSet(Granted(r))
  BY FS_Subset DEF LightRecords, FewRecords
<1>2. Cardinality(Known(r)) \in Nat /\ Cardinality(Granted(r)) \in Nat
  BY <1>1, FS_CardinalityType
<1> QED
  BY <1>1, <1>2 DEF Weight

LEMMA NoRecordsLight == NoRecords \in LightRecords /\ Weight(NoRecords) = 0
<1>1. Known(NoRecords) = {} /\ Granted(NoRecords) = {} /\ NoRecords \in [Txn -> Record]
  BY NoRecordsSound DEF Granted, NoRecords, Absent, SoundRecords
<1>2. IsFiniteSet({}) /\ Cardinality({}) = 0
  BY FS_EmptySet
<1> QED
  BY <1>1, <1>2 DEF LightRecords, FewRecords, Weight

(* A frame adds at most its own bytes, exactly those when it is the first   *)
(* of its transaction, and nothing when it leaves the approval as it was.   *)
LEMMA ApplyWeighs ==
  ASSUME NEW r \in LightRecords, NEW f \in Frame
  PROVE  /\ Apply(r, f) \in LightRecords
         /\ Weight(Apply(r, f)) <= Weight(r) + Bytes(f)
         /\ r[f.txn] = Absent => Weight(Apply(r, f)) = Weight(r) + Bytes(f)
         /\ r[f.txn] # Absent /\ r[f.txn].approval = f.approval =>
              Weight(Apply(r, f)) = Weight(r)
<1> DEFINE a == Apply(r, f)
           u == f.txn
           K == Known(r)
           G == Granted(r)
           k == Cardinality(K)
           g == Cardinality(G)
<1>1. u \in Txn /\ r \in FewRecords /\ r \in [Txn -> Record]
  BY DEF Frame, LightRecords, FewRecords
<1>2. Known(a) = K \cup {u} /\ a \in FewRecords
  BY <1>1, ApplyFew
<1>3. Granted(a) = IF f.approval = NoGrant THEN G \ {u} ELSE G \cup {u}
  <2>1. \A t \in Txn : a[t].approval = IF t = u THEN f.approval ELSE r[t].approval
    <3>1. \A t \in Txn : a[t] =
            IF t = u THEN [state |-> f.state, approval |-> f.approval] ELSE r[t]
      BY <1>1, ApplyTyped
    <3> HIDE DEF a, u
    <3> QED
      BY <3>1
  <2> HIDE DEF a, u
  <2> QED
    BY <1>1, <2>1 DEF Granted
<1>4. IsFiniteSet(K) /\ IsFiniteSet(G) /\ k \in Nat /\ g \in Nat /\ G \subseteq K
  BY WeightIsNatural DEF LightRecords
<1>5. /\ Cardinality(K \cup {u}) = IF u \in K THEN k ELSE k + 1
      /\ Cardinality(G \cup {u}) = IF u \in G THEN g ELSE g + 1
      /\ Cardinality(G \ {u}) = IF u \in G THEN g - 1 ELSE g
  <2> HIDE DEF K, G, u
  <2>1. Cardinality(K \cup {u}) = IF u \in K THEN k ELSE k + 1
    BY <1>4, FS_AddElement
  <2>2. Cardinality(G \cup {u}) = IF u \in G THEN g ELSE g + 1
    BY <1>4, FS_AddElement
  <2>3. Cardinality(G \ {u}) = IF u \in G THEN g - 1 ELSE g
    BY <1>4, FS_RemoveElement
  <2> QED
    BY <2>1, <2>2, <2>3
<1>6. /\ r[u] = Absent <=> u \notin K
      /\ r[u].approval = NoGrant <=> u \notin G
      /\ Bytes(f) = IF f.approval = NoGrant THEN 1 ELSE 2
  BY <1>1 DEF Known, Granted, Bytes
<1>7. Weight(r) = k + g /\ Weight(a) = Cardinality(Known(a)) + Cardinality(Granted(a))
  BY DEF Weight
<1>8. a \in LightRecords
  BY <1>2, <1>3, <1>4 DEF LightRecords
<1> HIDE DEF a, K, G, k, g
<1>9. Weight(a) <= Weight(r) + Bytes(f)
  BY <1>2, <1>3, <1>4, <1>5, <1>6, <1>7
<1>10. r[u] = Absent => Weight(a) = Weight(r) + Bytes(f)
  BY <1>2, <1>3, <1>4, <1>5, <1>6, <1>7
<1>11. r[u] # Absent /\ r[u].approval = f.approval => Weight(a) = Weight(r)
  BY <1>2, <1>3, <1>4, <1>5, <1>6, <1>7
<1> QED
  BY <1>8, <1>9, <1>10, <1>11 DEF a

LEMMA ReplayLight ==
  ASSUME NEW s \in Seq(Frame)
  PROVE  Replay(NoRecords, s) \in LightRecords
<1>1. \A r \in LightRecords : \A i \in 1..Len(s) : Apply(r, s[i]) \in LightRecords
  <2> TAKE r \in LightRecords
  <2> TAKE i \in 1..Len(s)
  <2>1. s[i] \in Frame
    OBVIOUS
  <2> QED
    BY <2>1, ApplyWeighs
<1> QED
  BY <1>1, NoRecordsLight, ReplayKeeps

(* A frame at a time.                                                       *)
LEMMA NextFrame ==
  ASSUME NEW s \in Seq(Frame), NEW k \in Nat, k + 1 <= Len(s)
  PROVE  /\ s[k + 1] \in Frame
         /\ After(s, k) \in LightRecords
         /\ After(s, k + 1) = Apply(After(s, k), s[k + 1])
         /\ LogBytes(SubSeq(s, 1, k)) \in Nat
         /\ LogBytes(SubSeq(s, 1, k + 1)) = LogBytes(SubSeq(s, 1, k)) + Bytes(s[k + 1])
<1> DEFINE p == SubSeq(s, 1, k)
           f == s[k + 1]
<1>1. k + 1 \in 1..Len(s) /\ f \in Frame
  OBVIOUS
<1>2. p \in Seq(Frame) /\ SubSeq(s, 1, k + 1) = Append(p, f)
  BY <1>1, OneMore
<1> HIDE DEF p, f
<1>3. Replay(NoRecords, Append(p, f)) = Apply(Replay(NoRecords, p), f)
  BY <1>1, <1>2, ReplayAppend
<1>4. Replay(NoRecords, p) \in LightRecords
  BY <1>2, ReplayLight
<1>5. LogBytes(p) \in Nat /\ LogBytes(Append(p, f)) = LogBytes(p) + Bytes(f)
  BY <1>1, <1>2, WeightAppend
<1> QED
  BY <1>1, <1>2, <1>3, <1>4, <1>5 DEF After, p, f

LEMMA RecordsBelowLog ==
  ASSUME NEW s \in Seq(Frame)
  PROVE  Weight(Replay(NoRecords, s)) <= LogBytes(s)
<1> DEFINE n == Len(s)
           W(k) == Weight(After(s, k)) <= LogBytes(SubSeq(s, 1, k))
           S == {k \in Nat : k <= n => W(k)}
<1>1. n \in Nat /\ SubSeq(s, 1, 0) = <<>> /\ SubSeq(s, 1, n) = s
  OBVIOUS
<1>2. W(0)
  <2>1. After(s, 0) = NoRecords
    BY AfterAll
  <2>2. LogBytes(SubSeq(s, 1, 0)) = 0
    BY <1>1, WeightOfNothing
  <2>3. Weight(After(s, 0)) = 0
    BY <2>1, NoRecordsLight
  <2> QED
    BY <2>2, <2>3
<1>3. ASSUME NEW k \in Nat, k + 1 <= n, W(k) PROVE W(k + 1)
  <2> DEFINE r == After(s, k)
             f == s[k + 1]
             b == LogBytes(SubSeq(s, 1, k))
  <2>1. /\ f \in Frame /\ r \in LightRecords /\ After(s, k + 1) = Apply(r, f)
        /\ b \in Nat /\ LogBytes(SubSeq(s, 1, k + 1)) = b + Bytes(f)
    BY <1>3, NextFrame
  <2>2. Weight(r) <= b
    BY <1>3
  <2> HIDE DEF r, f, b
  <2>3. Weight(Apply(r, f)) <= Weight(r) + Bytes(f) /\ Apply(r, f) \in LightRecords
    BY <2>1, ApplyWeighs
  <2>4. Weight(r) \in Nat /\ Weight(Apply(r, f)) \in Nat /\ Bytes(f) \in Nat
    BY <2>1, <2>3, WeightIsNatural, BytesNatural
  <2>5. Weight(Apply(r, f)) <= b + Bytes(f)
    BY <2>1, <2>2, <2>3, <2>4
  <2> QED
    BY <2>1, <2>5
<1> HIDE DEF W
<1>4. 0 \in S /\ \A k \in S : k + 1 \in S
  BY <1>1, <1>2, <1>3
<1> HIDE DEF S
<1>5. S = Nat
  BY <1>4, SetInduction DEF S
<1>6. W(n)
  BY <1>1, <1>5 DEF S
<1> QED
  BY <1>1, <1>6, AfterAll DEF W

LEMMA ListingWeighs ==
  ASSUME NEW r \in SoundRecords, IsFiniteSet(Known(r))
  PROVE  LogBytes(Listing(r)) = Weight(r)
<1> DEFINE s == Listing(r)
           n == Len(s)
           W(k) == Weight(After(s, k)) = LogBytes(SubSeq(s, 1, k))
           S == {k \in Nat : k <= n => W(k)}
<1>1. /\ s \in Seq(Frame) /\ Replay(NoRecords, s) = r
      /\ \A i \in 1..n : After(s, i - 1)[s[i].txn] = Absent
  BY ListingHolds, ListingReplays
<1> HIDE DEF s
<1>2. n \in Nat /\ SubSeq(s, 1, 0) = <<>> /\ SubSeq(s, 1, n) = s
  BY <1>1
<1>3. W(0)
  <2>1. After(s, 0) = NoRecords
    BY <1>1, AfterAll
  <2>2. LogBytes(SubSeq(s, 1, 0)) = 0
    BY <1>2, WeightOfNothing
  <2>3. Weight(After(s, 0)) = 0
    BY <2>1, NoRecordsLight
  <2> QED
    BY <2>2, <2>3
<1>4. ASSUME NEW k \in Nat, k + 1 <= n, W(k) PROVE W(k + 1)
  <2> DEFINE v == After(s, k)
             f == s[k + 1]
             b == LogBytes(SubSeq(s, 1, k))
  <2>1. /\ f \in Frame /\ v \in LightRecords /\ After(s, k + 1) = Apply(v, f)
        /\ LogBytes(SubSeq(s, 1, k + 1)) = b + Bytes(f)
    BY <1>1, <1>4, NextFrame
  <2>2. v[f.txn] = Absent
    <3>1. k + 1 \in 1..n /\ (k + 1) - 1 = k
      BY <1>2, <1>4
    <3> QED
      BY <1>1, <3>1
  <2>3. Weight(v) = b
    BY <1>4
  <2> HIDE DEF v, f, b
  <2>4. Weight(Apply(v, f)) = Weight(v) + Bytes(f)
    BY <2>1, <2>2, ApplyWeighs
  <2> QED
    BY <2>1, <2>3, <2>4
<1> HIDE DEF W
<1>5. 0 \in S /\ \A k \in S : k + 1 \in S
  BY <1>2, <1>3, <1>4
<1> HIDE DEF S
<1>6. S = Nat
  BY <1>5, SetInduction DEF S
<1>7. W(n)
  BY <1>2, <1>6 DEF S
<1>8. Weight(r) = LogBytes(s)
  BY <1>1, <1>2, <1>7, AfterAll DEF W
<1> QED
  BY <1>8 DEF s

-----------------------------------------------------------------------------
(* The store.                                                               *)

Around(c, g) == g \in c /\ c \subseteq {g - 1, g}

Wanted(r, f) ==
  \E t \in Txn :
    \/ \E s \in Store!CreatedIn : f \in Created(r, t, s)
    \/ \E e \in Store!CallerEdges : f \in Transitioned(r, t, e)
    \/ \E g \in Store!Grant : f \in Approved(r, t, g)
    \/ \E now \in Time : f \in Reserved(r, t, now)

LogsReplay == \A s \in Slot : Replayable(NoRecords, log[s])

ControlHeld ==
  /\ Around(control, Generation)
  /\ step = "control" => control = {Generation - 1, Generation}

CachesFit ==
  \A h \in Handle : cache[h].open =>
    /\ cache[h].generation <= Generation
    /\ step = "control" => cache[h].generation # Generation
    /\ cache[h].generation = Generation =>
         /\ cache[h].offset <= Len(log[ActiveSlot])
         /\ cache[h].records = After(log[ActiveSlot], cache[h].offset)

HolderSure ==
  step # "idle" =>
    /\ cache[lock].open
    /\ frame \in Frame /\ ValidRecord(frame) /\ Wanted(Visible, frame)
    /\ cache[lock].records = Visible
    /\ step \in {"append", "compact", "switch"} =>
         cache[lock].generation = Generation /\ cache[lock].offset = Len(log[ActiveSlot])
    /\ step = "sync" =>
         /\ cache[lock].generation = Generation /\ cache[lock].offset = Len(log[ActiveSlot]) - 1
         /\ log[ActiveSlot] # <<>> /\ Last(log[ActiveSlot]) = frame
    /\ step = "switch" => Generation < MaxGeneration /\ log[1 - ActiveSlot] = Compacted(lock)
    /\ step = "control" => log[ActiveSlot] = Compacted(lock)

(* Neither a process dies nor a sync fails in this behaviour.               *)
Apart == "power" \in faults.kinds /\ faults.kinds \cap {"sync", "crash"} = {}

PowerSafe ==
  Apart =>
    /\ step = "control" => Around(synced, Generation - 1)
    /\ step # "control" => Around(synced, Generation)
    /\ step = "sync" => durable[ActiveSlot] = Len(log[ActiveSlot]) - 1
    /\ step # "sync" => durable[ActiveSlot] = Len(log[ActiveSlot])
    /\ step \in {"switch", "control"} => durable[1 - ActiveSlot] = Len(log[1 - ActiveSlot])

FaultsHeld == faults \in [kinds : FaultSets, left : Nat]

(* What is on stable storage is part of what was written, the log that a    *)
(* switch makes active was synced as a whole before it, and the control     *)
(* file as it was synced last names no later generation.                    *)
DurableFits ==
  /\ \A s \in Slot : durable[s] <= Len(log[s])
  /\ step = "switch" => durable[1 - ActiveSlot] = Len(log[1 - ActiveSlot])
  /\ step = "control" => durable[ActiveSlot] = Len(log[ActiveSlot])

SyncedBehind ==
  \E n \in Nat : /\ Around(synced, n) /\ n <= Generation
                 /\ step = "control" => n < Generation

FInv == LogsReplay /\ ControlHeld /\ CachesFit /\ HolderSure /\ PowerSafe /\ FaultsHeld

(* No power loss takes back a switch whose record was never synced.         *)
SwitchesSettle == \A kinds \in FaultSets : "lost_switch" \notin kinds

(* Or, more narrowly, none comes where processes die or syncs fail.         *)
PowerApart == \A kinds \in FaultSets : "power" \in kinds => kinds \cap {"sync", "crash"} = {}

-----------------------------------------------------------------------------
LEMMA NewestIs ==
  ASSUME NEW g \in Nat, NEW c, Around(c, g)
  PROVE  Newest(c) = g
<1>1. g \in c /\ \A o \in c : o <= g
  BY DEF Around
<1>2. \A x \in c : (\A o \in c : o <= x) => x = g
  BY <1>1 DEF Around
<1> QED
  BY <1>1, <1>2 DEF Newest

LEMMA Slots ==
  ASSUME TypeOK, FInv
  PROVE  /\ Generation \in Nat /\ Generation \in control /\ Generation <= MaxGeneration
         /\ ActiveSlot \in Slot /\ 1 - ActiveSlot \in Slot /\ 1 - ActiveSlot # ActiveSlot
         /\ log[ActiveSlot] \in Seq(Frame) /\ log[1 - ActiveSlot] \in Seq(Frame)
<1>1. Generation \in control /\ Generation \in Nat /\ Generation <= MaxGeneration
  BY FileStoreAssumption DEF TypeOK, FInv, ControlHeld, Around
<1>2. Generation % 2 \in {0, 1}
  BY <1>1
<1>3. ActiveSlot \in Slot /\ 1 - ActiveSlot \in Slot /\ 1 - ActiveSlot # ActiveSlot
  BY <1>2 DEF ActiveSlot, Slot
<1> QED
  BY <1>1, <1>3 DEF TypeOK

LEMMA VisibleIs ==
         /\ step = "sync" => Visible = After(log[ActiveSlot], Len(log[ActiveSlot]) - 1)
         /\ step = "control" => Visible = Replay(NoRecords, log[1 - ActiveSlot])
         /\ step \notin {"sync", "control"} => Visible = Replay(NoRecords, log[ActiveSlot])
BY DEF Visible, After, Front

LEMMA VisibleSound ==
  ASSUME TypeOK, FInv
  PROVE  Visible \in SoundRecords /\ Visible \in FewRecords
<1>1. \E s \in Seq(Frame) : Replayable(NoRecords, s) /\ Visible = Replay(NoRecords, s)
  <2>1. CASE step = "sync"
    <3> DEFINE l == log[ActiveSlot]
               p == SubSeq(l, 1, Len(l) - 1)
    <3>1. l \in Seq(Frame) /\ Replayable(NoRecords, l) /\ l # <<>>
      BY <2>1, Slots DEF FInv, LogsReplay, HolderSure
    <3> HIDE DEF l
    <3>2. Len(l) - 1 \in 0..Len(l) /\ p \in Seq(Frame)
      BY <3>1
    <3>3. Replayable(NoRecords, p)
      BY <3>1, <3>2, ReplayablePrefix
    <3>4. Visible = Replay(NoRecords, p)
      BY <2>1, VisibleIs DEF After, l
    <3> QED
      BY <3>2, <3>3, <3>4
  <2>2. CASE step = "control"
    BY <2>2, Slots, VisibleIs DEF FInv, LogsReplay
  <2>3. CASE step \notin {"sync", "control"}
    BY <2>3, Slots, VisibleIs DEF FInv, LogsReplay
  <2> QED
    BY <2>1, <2>2, <2>3
<1> QED
  BY <1>1, ReplaySound, ReplayFew

-----------------------------------------------------------------------------
(* What a call wants persisted is a legal continuation of the record.       *)
LEMMA WantedFits ==
  ASSUME NEW r \in SoundRecords, NEW f, Wanted(r, f)
  PROVE  /\ f.txn \in Txn /\ f \in Frame
         /\ ValidReplay(r[f.txn], f)
         /\ r[f.txn] # Absent =>
              r[f.txn].state \in States /\ CanTransitionTo(r[f.txn].state, f.state)
<1>1. PICK t \in Txn :
        \/ \E s \in Store!CreatedIn : f \in Created(r, t, s)
        \/ \E e \in Store!CallerEdges : f \in Transitioned(r, t, e)
        \/ \E g \in Store!Grant : f \in Approved(r, t, g)
        \/ \E now \in Time : f \in Reserved(r, t, now)
  BY DEF Wanted
<1>2. r[t] # Absent =>
        /\ r[t].state \in States
        /\ r[t].state \in {"Created", "Running", "VirtualComplete", "Denied",
                           "AutoApproved", "PendingApproval"} => r[t].approval = NoGrant
  BY DEF SoundRecords, FrameOf, Frame, ValidRecord
<1>3. r[t].approval \in Store!Grant \cup {NoGrant}
  BY DEF SoundRecords, Record
<1>4. CASE \E s \in Store!CreatedIn : f \in Created(r, t, s)
  BY <1>4 DEF Created, ValidReplay, Frame, Store!CreatedIn, States
<1>5. CASE \E e \in Store!CallerEdges : f \in Transitioned(r, t, e)
  <2>1. PICK e \in Store!CallerEdges : f \in Transitioned(r, t, e)
    BY <1>5
  <2>2. e[2] \in States
    BY DEF Store!CallerEdges, States
  <2> QED
    BY <1>2, <1>3, <2>1, <2>2 DEF Transitioned, ValidReplay, Frame
<1>6. CASE \E g \in Store!Grant : f \in Approved(r, t, g)
  <2>1. f \in Frame
    BY <1>6 DEF Approved, Frame, States
  <2> QED
    BY <1>2, <1>6, <2>1 DEF Approved, ValidReplay, CanTransitionTo, Successors
<1>7. CASE \E now \in Time : f \in Reserved(r, t, now)
  <2>1. f \in Frame
    BY <1>3, <1>7 DEF Reserved, Frame, States
  <2> QED
    BY <1>2, <1>7, <2>1 DEF Reserved, Expired, ValidReplay, CanTransitionTo, Successors
<1> QED
  BY <1>1, <1>4, <1>5, <1>6, <1>7

(* A cache of whatever age, brought up to date, holds the visible records.  *)
Fitting(c) ==
  /\ c.generation \in Nat /\ c.offset \in Nat
  /\ c.generation = Generation =>
       /\ c.offset <= Len(log[ActiveSlot])
       /\ c.records = After(log[ActiveSlot], c.offset)

LEMMA FittingReadable ==
  ASSUME TypeOK, FInv, lock = Free, NEW c, Fitting(c),
         c = [open |-> c.open, generation |-> c.generation, offset |-> c.offset,
              records |-> c.records]
  PROVE  /\ Readable(c)
         /\ Refreshed(c) = [open |-> TRUE, generation |-> Generation,
                            offset |-> Len(log[ActiveSlot]), records |-> Visible]
<1> DEFINE l == log[ActiveSlot]
           b == Base(c)
<1>1. l \in Seq(Frame) /\ Len(l) \in Nat /\ Replayable(NoRecords, l)
  BY Slots DEF FInv, LogsReplay
<1>2. b.offset \in 0..Len(l) /\ b.records = After(l, b.offset)
  <2>1. CASE c.generation = Generation
    BY <1>1, <2>1 DEF Base, Current, Fitting
  <2>2. CASE c.generation # Generation
    <3>1. b.offset = 0 /\ b.records = NoRecords
      BY <2>2 DEF Base, Current
    <3> QED
      BY <1>1, <3>1, AfterAll
  <2> QED
    BY <2>1, <2>2
<1> HIDE DEF l, b
<1> DEFINE k == b.offset
<1>3. Unseen(c) = SubSeq(l, k + 1, Len(l))
  BY DEF Unseen, l, b
<1> HIDE DEF k
<1>4. /\ Replayable(After(l, k), SubSeq(l, k + 1, Len(l)))
      /\ Replay(After(l, k), SubSeq(l, k + 1, Len(l))) = Replay(NoRecords, l)
  <2>1. k \in 0..Len(l)
    BY <1>2 DEF k
  <2> QED
    BY <1>1, <2>1, ReplayableRest, ReplayRest
<1>5. Visible = Replay(NoRecords, l)
  <2>1. step = "idle"
    BY DEF TypeOK
  <2> QED
    BY <2>1, VisibleIs DEF l
<1>6. ControlReadable
  BY Slots DEF ControlReadable, FInv, ControlHeld, Around
<1>7. Readable(c)
  BY <1>2, <1>3, <1>4, <1>6 DEF Readable, k, b, l
<1>8. Refreshed(c) = [open |-> TRUE, generation |-> Generation,
                      offset |-> Len(log[ActiveSlot]), records |-> Visible]
  BY <1>2, <1>3, <1>4, <1>5 DEF Refreshed, k, b, l
<1> QED
  BY <1>7, <1>8
-----------------------------------------------------------------------------
(* What a step may do to what the callers see: nothing, or the effect of    *)
(* the frame the holder is persisting, reported or not.                     *)
Outcome ==
  \/ Visible' = Visible /\ NoEffect /\ UNCHANGED <<acked, issued>>
  \/ /\ step # "idle" /\ Visible' = Apply(Visible, frame) /\ TakesEffect
     /\ UNCHANGED <<acked, issued>> \/ Acknowledge

Keeps == TypeOK' /\ FInv' /\ Outcome /\ corrupt' = corrupt

LEMMA HomeStays ==
  ASSUME control' = control
  PROVE  Generation' = Generation /\ ActiveSlot' = ActiveSlot
BY DEF Generation, ActiveSlot

LEMMA BroughtUp ==
  ASSUME TypeOK, FInv, lock = Free, NEW h \in Handle,
         cache' = [cache EXCEPT ![h] =
                     [open |-> TRUE, generation |-> Generation,
                      offset |-> Len(log[ActiveSlot]), records |-> Visible]],
         RepairTail, faults' = faults, step' \in {"idle", "append", "compact"}
  PROVE  /\ log' = log /\ control' = control /\ synced' = synced
         /\ torn' \in [Slot -> BOOLEAN] /\ durable' \in [Slot -> Nat]
         /\ cache' \in [Handle -> [open : BOOLEAN, generation : Nat, offset : Nat,
                                    records : [Txn -> Record]]]
         /\ Visible' = Visible
         /\ LogsReplay' /\ ControlHeld' /\ CachesFit' /\ PowerSafe' /\ FaultsHeld'
<1>1. step = "idle"
  BY DEF TypeOK
<1>2. log' = log /\ control' = control /\ synced' = synced
  BY DEF RepairTail
<1>3. Generation' = Generation /\ ActiveSlot' = ActiveSlot
  BY <1>2, HomeStays
<1>4. torn' \in [Slot -> BOOLEAN] /\ durable' \in [Slot -> Nat]
  BY Slots DEF RepairTail, TypeOK
<1>5. Visible \in [Txn -> Record]
  BY VisibleSound DEF SoundRecords
<1>6. cache' \in [Handle -> [open : BOOLEAN, generation : Nat, offset : Nat,
                              records : [Txn -> Record]]]
  BY <1>5, Slots DEF TypeOK
<1>7. Visible' = Visible
  BY <1>1, <1>2, <1>3 DEF Visible
<1>8. LogsReplay' /\ FaultsHeld' /\ ControlHeld'
  BY <1>1, <1>2, <1>3 DEF FInv, LogsReplay, FaultsHeld, ControlHeld
<1>9. CachesFit'
  <2>1. Visible = After(log[ActiveSlot], Len(log[ActiveSlot]))
    BY <1>1, Slots, VisibleIs, AfterAll
  <2> SUFFICES ASSUME NEW x \in Handle, cache'[x].open
               PROVE  /\ cache'[x].generation <= Generation
                      /\ cache'[x].generation = Generation =>
                           /\ cache'[x].offset <= Len(log[ActiveSlot])
                           /\ cache'[x].records = After(log[ActiveSlot], cache'[x].offset)
    BY <1>2, <1>3 DEF CachesFit
  <2>2. CASE x = h
    BY <2>1, <2>2, Slots DEF TypeOK
  <2>3. CASE x # h
    BY <2>3 DEF TypeOK, FInv, CachesFit
  <2> QED
    BY <2>2, <2>3
<1>10. PowerSafe'
  <2> SUFFICES ASSUME Apart
               PROVE  /\ Around(synced, Generation)
                      /\ durable'[ActiveSlot] = Len(log[ActiveSlot])
    BY <1>1, <1>2, <1>3, Slots DEF PowerSafe, Apart
  <2>1. Around(synced, Generation) /\ durable[ActiveSlot] = Len(log[ActiveSlot])
    BY <1>1, Slots DEF FInv, PowerSafe, Apart
  <2> QED
    BY <2>1, Slots DEF RepairTail, TypeOK
<1> QED
  BY <1>2, <1>4, <1>6, <1>7, <1>8, <1>9, <1>10

(* What a handle may have in its hands when it takes the lock.              *)
LEMMA CacheFits ==
  ASSUME TypeOK, FInv, NEW h \in Handle
  PROVE  /\ cache[h].open => Fitting(cache[h])
         /\ cache[h] = [open |-> cache[h].open, generation |-> cache[h].generation,
                        offset |-> cache[h].offset, records |-> cache[h].records]
         /\ Fitting([Closed EXCEPT !.generation = Generation])
<1>1. cache[h] \in [open : BOOLEAN, generation : Nat, offset : Nat, records : [Txn -> Record]]
  BY DEF TypeOK
<1>2. cache[h].open => Fitting(cache[h])
  BY <1>1 DEF FInv, CachesFit, Fitting
<1>3. After(log[ActiveSlot], 0) = NoRecords
  BY Slots, AfterAll
<1>4. Fitting([Closed EXCEPT !.generation = Generation])
  BY <1>3, Slots DEF Closed, Fitting
<1> QED
  BY <1>1, <1>2, <1>4

LEMMA RefreshKeeps ==
  ASSUME TypeOK, FInv, NEW h \in Handle, Refresh(h)
  PROVE  Keeps
<1> DEFINE c == IF cache[h].open THEN cache[h] ELSE [Closed EXCEPT !.generation = Generation]
<1>1. lock = Free /\ step = "idle"
  BY DEF Refresh, TypeOK
<1>2. Fitting(c) /\ c = [open |-> c.open, generation |-> c.generation, offset |-> c.offset,
                         records |-> c.records]
  BY CacheFits DEF Closed
<1>3. Readable(c)
      /\ Refreshed(c) = [open |-> TRUE, generation |-> Generation,
                         offset |-> Len(log[ActiveSlot]), records |-> Visible]
  <2> HIDE DEF c
  <2> QED BY <1>1, <1>2, FittingReadable
<1>4. /\ cache' = [cache EXCEPT ![h] = Refreshed(c)] /\ RepairTail
      /\ UNCHANGED <<holder, corrupt, history, faults>>
  BY <1>3 DEF Refresh
<1> HIDE DEF c
<1>5. step' = "idle" /\ lock' = lock /\ frame' = frame /\ faults' = faults
  BY <1>1, <1>4 DEF holder
<1>6. /\ log' = log /\ control' = control /\ synced' = synced
      /\ torn' \in [Slot -> BOOLEAN] /\ durable' \in [Slot -> Nat]
      /\ cache' \in [Handle -> [open : BOOLEAN, generation : Nat, offset : Nat,
                                 records : [Txn -> Record]]]
      /\ Visible' = Visible
      /\ LogsReplay' /\ ControlHeld' /\ CachesFit' /\ PowerSafe' /\ FaultsHeld'
  BY <1>1, <1>3, <1>4, <1>5, BroughtUp
<1>7. TypeOK'
  BY <1>1, <1>5, <1>6 DEF TypeOK
<1>8. HolderSure'
  BY <1>5 DEF HolderSure
<1> QED
  BY <1>4, <1>6, <1>7, <1>8 DEF Keeps, Outcome, FInv, history, NoEffect

(* Whichever call it is, the handle is now holding the lock and a frame the *)
(* visible records allow.                                                   *)
Begins(h, f) ==
  /\ lock = Free /\ cache[h].open
  /\ Wanted(Visible, f) /\ ValidRecord(f)
  /\ f.txn \in Known(Visible) \/ Cardinality(Known(Visible)) < MaxRecords
  /\ cache' = [cache EXCEPT ![h] = Refreshed(cache[h])] /\ RepairTail
  /\ lock' = h /\ frame' = f /\ step' = IF Room(f) THEN "append" ELSE "compact"
  /\ UNCHANGED <<corrupt, history, faults>>

LEMMA CallBegins ==
  ASSUME TypeOK, FInv, NEW h \in Handle, Call(h)
  PROVE  \E f : Begins(h, f)
<1> DEFINE r == Refreshed(cache[h]).records
<1>1. lock = Free /\ cache[h].open
  BY DEF Call, Transact
<1>2. Readable(cache[h]) /\ r = Visible
  <2>1. /\ Readable(cache[h])
        /\ Refreshed(cache[h]) = [open |-> TRUE, generation |-> Generation,
                                  offset |-> Len(log[ActiveSlot]), records |-> Visible]
    BY <1>1, CacheFits, FittingReadable
  <2> QED
    BY <2>1
<1>3. PICK t \in Txn :
        \/ \E s \in Store!CreatedIn : Transact(h, LAMBDA x : Created(x, t, s))
        \/ \E e \in Store!CallerEdges : Transact(h, LAMBDA x : Transitioned(x, t, e))
        \/ \E g \in Store!Grant : Transact(h, LAMBDA x : Approved(x, t, g))
        \/ \E now \in Time : Transact(h, LAMBDA x : Reserved(x, t, now))
  BY DEF Call
<1>4. ASSUME NEW s \in Store!CreatedIn, Transact(h, LAMBDA x : Created(x, t, s))
      PROVE  \E f : Begins(h, f)
  <2>1. PICK f \in Created(Visible, t, s) :
          /\ ValidRecord(f)
          /\ f.txn \in Known(Visible) \/ Cardinality(Known(Visible)) < MaxRecords
          /\ cache' = [cache EXCEPT ![h] = Refreshed(cache[h])] /\ RepairTail
          /\ lock' = h /\ frame' = f /\ step' = IF Room(f) THEN "append" ELSE "compact"
          /\ UNCHANGED <<corrupt, history, faults>>
    BY <1>2, <1>4 DEF Transact
  <2>2. Wanted(Visible, f)
    BY <2>1 DEF Wanted
  <2> QED
    BY <1>1, <2>1, <2>2 DEF Begins
<1>5. ASSUME NEW e \in Store!CallerEdges, Transact(h, LAMBDA x : Transitioned(x, t, e))
      PROVE  \E f : Begins(h, f)
  <2>1. PICK f \in Transitioned(Visible, t, e) :
          /\ ValidRecord(f)
          /\ f.txn \in Known(Visible) \/ Cardinality(Known(Visible)) < MaxRecords
          /\ cache' = [cache EXCEPT ![h] = Refreshed(cache[h])] /\ RepairTail
          /\ lock' = h /\ frame' = f /\ step' = IF Room(f) THEN "append" ELSE "compact"
          /\ UNCHANGED <<corrupt, history, faults>>
    BY <1>2, <1>5 DEF Transact
  <2>2. Wanted(Visible, f)
    BY <2>1 DEF Wanted
  <2> QED
    BY <1>1, <2>1, <2>2 DEF Begins
<1>6. ASSUME NEW g \in Store!Grant, Transact(h, LAMBDA x : Approved(x, t, g))
      PROVE  \E f : Begins(h, f)
  <2>1. PICK f \in Approved(Visible, t, g) :
          /\ ValidRecord(f)
          /\ f.txn \in Known(Visible) \/ Cardinality(Known(Visible)) < MaxRecords
          /\ cache' = [cache EXCEPT ![h] = Refreshed(cache[h])] /\ RepairTail
          /\ lock' = h /\ frame' = f /\ step' = IF Room(f) THEN "append" ELSE "compact"
          /\ UNCHANGED <<corrupt, history, faults>>
    BY <1>2, <1>6 DEF Transact
  <2>2. Wanted(Visible, f)
    BY <2>1 DEF Wanted
  <2> QED
    BY <1>1, <2>1, <2>2 DEF Begins
<1>7. ASSUME NEW now \in Time, Transact(h, LAMBDA x : Reserved(x, t, now))
      PROVE  \E f : Begins(h, f)
  <2>1. PICK f \in Reserved(Visible, t, now) :
          /\ ValidRecord(f)
          /\ f.txn \in Known(Visible) \/ Cardinality(Known(Visible)) < MaxRecords
          /\ cache' = [cache EXCEPT ![h] = Refreshed(cache[h])] /\ RepairTail
          /\ lock' = h /\ frame' = f /\ step' = IF Room(f) THEN "append" ELSE "compact"
          /\ UNCHANGED <<corrupt, history, faults>>
    BY <1>2, <1>7 DEF Transact
  <2>2. Wanted(Visible, f)
    BY <2>1 DEF Wanted
  <2> QED
    BY <1>1, <2>1, <2>2 DEF Begins
<1> QED
  BY <1>3, <1>4, <1>5, <1>6, <1>7

LEMMA CallKeeps ==
  ASSUME TypeOK, FInv, NEW h \in Handle, Call(h)
  PROVE  Keeps
<1>1. PICK f : Begins(h, f)
  BY CallBegins
<1>2. /\ lock = Free /\ cache[h].open
      /\ Wanted(Visible, f) /\ ValidRecord(f)
      /\ cache' = [cache EXCEPT ![h] = Refreshed(cache[h])] /\ RepairTail
      /\ lock' = h /\ frame' = f /\ step' \in {"append", "compact"}
      /\ UNCHANGED <<corrupt, history, faults>>
  BY <1>1 DEF Begins
<1>3. Refreshed(cache[h]) = [open |-> TRUE, generation |-> Generation,
                             offset |-> Len(log[ActiveSlot]), records |-> Visible]
  BY <1>2, CacheFits, FittingReadable
<1>4. /\ log' = log /\ control' = control /\ synced' = synced
      /\ torn' \in [Slot -> BOOLEAN] /\ durable' \in [Slot -> Nat]
      /\ cache' \in [Handle -> [open : BOOLEAN, generation : Nat, offset : Nat,
                                 records : [Txn -> Record]]]
      /\ Visible' = Visible
      /\ LogsReplay' /\ ControlHeld' /\ CachesFit' /\ PowerSafe' /\ FaultsHeld'
  BY <1>2, <1>3, BroughtUp
<1>5. f \in Frame
  BY <1>2, VisibleSound, WantedFits
<1>6. TypeOK'
  BY <1>2, <1>4, <1>5, NothingAssumption DEF TypeOK
<1>7. HolderSure'
  <2>1. cache'[h] = [open |-> TRUE, generation |-> Generation,
                     offset |-> Len(log[ActiveSlot]), records |-> Visible]
    BY <1>2, <1>3 DEF TypeOK
  <2>2. Generation' = Generation /\ ActiveSlot' = ActiveSlot
    BY <1>4, HomeStays
  <2> QED
    BY <1>2, <1>4, <1>5, <2>1, <2>2 DEF HolderSure
<1> QED
  BY <1>2, <1>4, <1>6, <1>7 DEF Keeps, Outcome, FInv, history, NoEffect

-----------------------------------------------------------------------------
(* The steps of append_record.                                              *)
LEMMA FaultLeaves ==
  ASSUME FInv, NEW kind, Fault(kind)
  PROVE  FaultsHeld' /\ faults'.kinds = faults.kinds /\ kind \in faults.kinds
BY DEF Fault, FInv, FaultsHeld

LEMMA AppendFrameKeeps ==
  ASSUME TypeOK, FInv, NEW h \in Handle, AppendFrame(h)
  PROVE  Keeps
<1> DEFINE A == ActiveSlot
           l == log[ActiveSlot]
           m == Append(log[ActiveSlot], frame)
<1>1. /\ lock = h /\ step = "append" /\ log' = [log EXCEPT ![A] = m] /\ step' = "sync"
      /\ UNCHANGED <<torn, durable, control, synced, cache, lock, frame, corrupt, history, faults>>
  BY DEF AppendFrame
<1>2. Generation' = Generation /\ ActiveSlot' = ActiveSlot
  BY <1>1, HomeStays
<1>3. /\ frame \in Frame /\ ValidRecord(frame) /\ Wanted(Visible, frame)
      /\ cache[h].open /\ cache[h].records = Visible
      /\ cache[h].generation = Generation /\ cache[h].offset = Len(l)
  BY <1>1 DEF FInv, HolderSure
<1>4. A \in Slot /\ l \in Seq(Frame) /\ Replayable(NoRecords, l) /\ Visible = Replay(NoRecords, l)
  BY <1>1, Slots, VisibleIs DEF FInv, LogsReplay
<1>5. /\ log' \in [Slot -> Seq(Frame)] /\ log'[A] = m
      /\ \A s \in Slot : s # A => log'[s] = log[s]
  BY <1>1, <1>3, <1>4 DEF TypeOK
<1>6. m \in Seq(Frame) /\ Len(m) = Len(l) + 1 /\ m # <<>> /\ Last(m) = frame /\ Len(l) \in Nat
  BY <1>3, <1>4 DEF Last
<1>7. Visible' = Visible
  <2>1. Visible' = After(m, Len(m) - 1)
    BY <1>1, <1>2, <1>5 DEF Visible, After, Front
  <2>2. Len(m) - 1 = Len(l) /\ Len(l) \in 0..Len(l)
    BY <1>6
  <2>3. After(m, Len(l)) = After(l, Len(l))
    BY <1>3, <1>4, <2>2, AfterAppend
  <2> QED
    BY <1>4, <2>1, <2>2, <2>3, AfterAll
<1>8. LogsReplay'
  <2>1. ValidReplay(Visible[frame.txn], frame)
    BY <1>3, VisibleSound, WantedFits
  <2>2. Replayable(NoRecords, m)
    BY <1>3, <1>4, <2>1, ReplayableAppend
  <2> QED
    BY <1>5, <2>2 DEF LogsReplay, FInv
<1>9. CachesFit'
  <2> SUFFICES ASSUME NEW x \in Handle, cache[x].open
               PROVE  /\ cache[x].generation <= Generation
                      /\ cache[x].generation = Generation =>
                           /\ cache[x].offset <= Len(m)
                           /\ cache[x].records = After(m, cache[x].offset)
    BY <1>1, <1>2, <1>5 DEF CachesFit
  <2>1. /\ cache[x].generation <= Generation
        /\ cache[x].generation = Generation =>
             cache[x].offset <= Len(l) /\ cache[x].records = After(l, cache[x].offset)
    BY DEF FInv, CachesFit
  <2>2. cache[x].offset \in Nat
    BY DEF TypeOK
  <2>3. cache[x].offset <= Len(l) => After(m, cache[x].offset) = After(l, cache[x].offset)
    BY <1>3, <1>4, <2>2, AfterAppend
  <2> QED
    BY <1>6, <2>1, <2>2, <2>3
<1>10. HolderSure'
  BY <1>1, <1>2, <1>3, <1>5, <1>6, <1>7 DEF HolderSure
<1>11. PowerSafe'
  <2>1. Apart => Around(synced, Generation) /\ durable[A] = Len(l)
    BY <1>1 DEF FInv, PowerSafe, Apart
  <2> QED
    BY <1>1, <1>2, <1>5, <1>6, <2>1 DEF PowerSafe, Apart
<1>12. ControlHeld' /\ FaultsHeld'
  BY <1>1, <1>2 DEF FInv, ControlHeld, FaultsHeld
<1>13. TypeOK'
  BY <1>1, <1>5, NothingAssumption DEF TypeOK
<1> QED
  BY <1>1, <1>7, <1>8, <1>9, <1>10, <1>11, <1>12, <1>13 DEF Keeps, Outcome, FInv, history, NoEffect

LEMMA AppendTearsKeeps ==
  ASSUME TypeOK, FInv, NEW h \in Handle, AppendTears(h)
  PROVE  Keeps
<1>1. /\ lock = h /\ step = "append" /\ Fault("write")
      /\ torn' = [torn EXCEPT ![ActiveSlot] = TRUE]
      /\ lock' = Free /\ step' = "idle" /\ frame' = NoFrame
      /\ UNCHANGED <<log, durable, control, synced, cache, corrupt, history>>
  BY DEF AppendTears, Release
<1>2. Generation' = Generation /\ ActiveSlot' = ActiveSlot
  BY <1>1, HomeStays
<1>3. FaultsHeld' /\ faults'.kinds = faults.kinds
  BY <1>1, FaultLeaves
<1>4. Visible' = Visible
  BY <1>1, <1>2 DEF Visible
<1>5. LogsReplay' /\ ControlHeld' /\ HolderSure'
  BY <1>1, <1>2 DEF FInv, LogsReplay, ControlHeld, HolderSure
<1>6. CachesFit'
  BY <1>1, <1>2 DEF FInv, CachesFit
<1>7. PowerSafe'
  BY <1>1, <1>2, <1>3 DEF FInv, PowerSafe, Apart
<1>8. TypeOK'
  BY <1>1 DEF TypeOK
<1> QED
  BY <1>1, <1>3, <1>4, <1>5, <1>6, <1>7, <1>8 DEF Keeps, Outcome, FInv, history, NoEffect

(* When the sync of an append is over, the last frame has taken effect.     *)
LEMMA AppendTakesEffect ==
  ASSUME TypeOK, FInv, step = "sync", step' = "idle", log' = log, control' = control
  PROVE  Visible' = Apply(Visible, frame)
<1> DEFINE l == log[ActiveSlot]
<1>1. l \in Seq(Frame) /\ l # <<>> /\ l[Len(l)] = frame /\ Visible = After(l, Len(l) - 1)
  BY Slots, VisibleIs DEF FInv, HolderSure, Last
<1>2. Visible' = Replay(NoRecords, l)
  BY HomeStays DEF Visible
<1> HIDE DEF l
<1> QED
  BY <1>1, <1>2, ReplayLast

LEMMA SyncAppendKeeps ==
  ASSUME TypeOK, FInv, NEW h \in Handle, SyncAppend(h)
  PROVE  Keeps
<1> DEFINE A == ActiveSlot
           l == log[ActiveSlot]
           c == [open |-> TRUE, generation |-> Generation, offset |-> Len(l),
                 records |-> Apply(Visible, frame)]
<1>1. /\ lock = h /\ step = "sync"
      /\ durable' = [durable EXCEPT ![A] = Len(l)]
      /\ TakesEffect /\ Acknowledge
      /\ lock' = Free /\ step' = "idle" /\ frame' = NoFrame
      /\ UNCHANGED <<log, torn, control, synced, corrupt, faults>>
  BY DEF SyncAppend, Release
<1>2. Generation' = Generation /\ ActiveSlot' = ActiveSlot
  BY <1>1, HomeStays
<1>3. frame \in Frame /\ cache[h].records = Visible
  BY <1>1 DEF FInv, HolderSure
<1>4. cache' = [cache EXCEPT ![h] = c]
  BY <1>3 DEF SyncAppend, CacheFrame, TypeOK
<1>5. Visible' = Apply(Visible, frame)
  BY <1>1, AppendTakesEffect
<1>6. Visible' = Replay(NoRecords, l)
  BY <1>1, <1>2 DEF Visible
<1>7. Apply(Visible, frame) \in [Txn -> Record]
  BY <1>3, VisibleSound, ApplyTyped DEF SoundRecords
<1>8. /\ cache' \in [Handle -> [open : BOOLEAN, generation : Nat, offset : Nat,
                                 records : [Txn -> Record]]]
      /\ cache'[h] = c /\ \A x \in Handle : x # h => cache'[x] = cache[x]
  BY <1>4, <1>7, Slots DEF TypeOK
<1>9. CachesFit'
  <2>1. c.records = After(l, c.offset)
    BY <1>5, <1>6, Slots, AfterAll
  <2> SUFFICES ASSUME NEW x \in Handle, cache'[x].open
               PROVE  /\ cache'[x].generation <= Generation
                      /\ cache'[x].generation = Generation =>
                           /\ cache'[x].offset <= Len(l)
                           /\ cache'[x].records = After(l, cache'[x].offset)
    BY <1>1, <1>2 DEF CachesFit
  <2>2. CASE x = h
    BY <1>8, <2>1, <2>2, Slots
  <2>3. CASE x # h
    BY <1>8, <2>3 DEF FInv, CachesFit
  <2> QED
    BY <2>2, <2>3
<1>10. PowerSafe'
  <2>1. Apart => Around(synced, Generation)
    BY <1>1 DEF FInv, PowerSafe, Apart
  <2>2. durable'[A] = Len(l)
    BY <1>1, Slots DEF TypeOK
  <2> QED
    BY <1>1, <1>2, <2>1, <2>2 DEF PowerSafe, Apart
<1>11. LogsReplay' /\ ControlHeld' /\ HolderSure' /\ FaultsHeld'
  BY <1>1, <1>2 DEF FInv, LogsReplay, ControlHeld, HolderSure, FaultsHeld
<1>12. TypeOK'
  BY <1>1, <1>8, Slots DEF TypeOK
<1> QED
  BY <1>1, <1>5, <1>9, <1>10, <1>11, <1>12 DEF Keeps, Outcome, FInv

LEMMA SyncAppendFailsKeeps ==
  ASSUME TypeOK, FInv, NEW h \in Handle, SyncAppendFails(h)
  PROVE  Keeps
<1>1. /\ lock = h /\ step = "sync" /\ Fault("sync") /\ TakesEffect
      /\ lock' = Free /\ step' = "idle" /\ frame' = NoFrame
      /\ UNCHANGED <<disk, cache, corrupt, acked, issued>>
  BY DEF SyncAppendFails, Release
<1>2. /\ log' = log /\ torn' = torn /\ durable' = durable /\ control' = control
      /\ synced' = synced
  BY <1>1 DEF disk
<1>3. Generation' = Generation /\ ActiveSlot' = ActiveSlot
  BY <1>2, HomeStays
<1>4. FaultsHeld' /\ ~Apart'
  BY <1>1, FaultLeaves DEF Apart
<1>5. Visible' = Apply(Visible, frame)
  BY <1>1, <1>2, AppendTakesEffect
<1>6. LogsReplay' /\ ControlHeld' /\ HolderSure' /\ PowerSafe'
  BY <1>1, <1>2, <1>3, <1>4 DEF FInv, LogsReplay, ControlHeld, HolderSure, PowerSafe, Apart
<1>7. CachesFit'
  BY <1>1, <1>2, <1>3 DEF FInv, CachesFit
<1>8. TypeOK'
  BY <1>1, <1>2 DEF TypeOK
<1> QED
  BY <1>1, <1>4, <1>5, <1>6, <1>7, <1>8 DEF Keeps, Outcome, FInv

-----------------------------------------------------------------------------
(* The steps of compact.                                                    *)
LEMMA CompactedHolds ==
  ASSUME TypeOK, FInv, step \in {"compact", "switch", "control"}
  PROVE  /\ lock \in Handle /\ frame \in Frame
         /\ Compacted(lock) \in Seq(Frame)
         /\ Replayable(NoRecords, Compacted(lock))
         /\ Replay(NoRecords, Compacted(lock)) = Apply(Visible, frame)
         /\ Apply(Visible, frame) \in [Txn -> Record]
<1> DEFINE r == Apply(Visible, frame)
<1>1. lock \in Handle /\ frame \in Frame /\ ValidRecord(frame) /\ cache[lock].records = Visible
  BY DEF TypeOK, FInv, HolderSure
<1>2. r \in SoundRecords /\ r \in FewRecords
  BY <1>1, VisibleSound, ApplySound, ApplyFew
<1>3. Compacted(lock) = Listing(r)
  BY <1>1 DEF Compacted, Listing, FrameOf
<1> HIDE DEF r
<1>4. IsFiniteSet(Known(r)) /\ r \in [Txn -> Record]
  BY <1>2 DEF FewRecords
<1>5. Listing(r) \in Seq(Frame)
  BY <1>2, <1>4, ListingHolds
<1>6. Replay(NoRecords, Listing(r)) = r /\ Replayable(NoRecords, Listing(r))
  BY <1>2, <1>4, ListingReplays
<1> QED
  BY <1>1, <1>3, <1>4, <1>5, <1>6 DEF r

LEMMA CompactLogKeeps ==
  ASSUME TypeOK, FInv, NEW h \in Handle, CompactLog(h)
  PROVE  Keeps
<1> DEFINE A == ActiveSlot
           B == 1 - ActiveSlot
           q == Compacted(h)
<1>1. /\ lock = h /\ step = "compact" /\ Generation < MaxGeneration
      /\ log' = [log EXCEPT ![B] = q]
      /\ torn' = [torn EXCEPT ![B] = FALSE]
      /\ durable' = [durable EXCEPT ![B] = Len(q)]
      /\ step' = "switch"
      /\ UNCHANGED <<control, synced, cache, lock, frame, corrupt, history, faults>>
  BY DEF CompactLog
<1>2. Generation' = Generation /\ ActiveSlot' = ActiveSlot
  BY <1>1, HomeStays
<1>3. q \in Seq(Frame) /\ Replayable(NoRecords, q)
  BY <1>1, CompactedHolds
<1>4. A \in Slot /\ B \in Slot /\ A # B
  BY Slots
<1> HIDE DEF q
<1>5. /\ log' \in [Slot -> Seq(Frame)] /\ log'[A] = log[A] /\ log'[B] = q
      /\ durable' \in [Slot -> Nat] /\ durable'[A] = durable[A] /\ durable'[B] = Len(q)
      /\ torn' \in [Slot -> BOOLEAN]
      /\ \A s \in Slot : s # B => log'[s] = log[s]
  BY <1>1, <1>3, <1>4 DEF TypeOK
<1>6. Visible' = Visible
  BY <1>1, <1>2, <1>5 DEF Visible
<1>7. LogsReplay'
  BY <1>3, <1>5 DEF FInv, LogsReplay
<1>8. CachesFit'
  BY <1>1, <1>2, <1>5 DEF FInv, CachesFit
<1>9. HolderSure'
  <2>1. /\ cache[h].open /\ frame \in Frame /\ ValidRecord(frame) /\ Wanted(Visible, frame)
        /\ cache[h].records = Visible
        /\ cache[h].generation = Generation /\ cache[h].offset = Len(log[A])
    BY <1>1 DEF FInv, HolderSure
  <2>2. Compacted(h)' = q
    BY <1>1 DEF Compacted, q
  <2> QED
    BY <1>1, <1>2, <1>5, <1>6, <2>1, <2>2 DEF HolderSure
<1>10. PowerSafe'
  <2>1. Apart => Around(synced, Generation) /\ durable[A] = Len(log[A])
    BY <1>1 DEF FInv, PowerSafe, Apart
  <2> QED
    BY <1>1, <1>2, <1>5, <2>1 DEF PowerSafe, Apart
<1>11. ControlHeld' /\ FaultsHeld'
  BY <1>1, <1>2 DEF FInv, ControlHeld, FaultsHeld
<1>12. TypeOK'
  BY <1>1, <1>5, NothingAssumption DEF TypeOK
<1> QED
  BY <1>1, <1>6, <1>7, <1>8, <1>9, <1>10, <1>11, <1>12 DEF Keeps, Outcome, FInv, history, NoEffect

LEMMA CompactLogFailsKeeps ==
  ASSUME TypeOK, FInv, NEW h \in Handle, CompactLogFails(h)
  PROVE  Keeps
<1> DEFINE A == ActiveSlot
           B == 1 - ActiveSlot
<1>1. /\ lock = h /\ step = "compact"
      /\ UNCHANGED faults \/ Fault("write")
      /\ log' = [log EXCEPT ![B] = <<>>]
      /\ torn' = [torn EXCEPT ![B] = TRUE]
      /\ durable' = [durable EXCEPT ![B] = 0]
      /\ lock' = Free /\ step' = "idle" /\ frame' = NoFrame
      /\ UNCHANGED <<control, synced, cache, corrupt, history>>
  BY DEF CompactLogFails, Release
<1>2. Generation' = Generation /\ ActiveSlot' = ActiveSlot
  BY <1>1, HomeStays
<1>3. FaultsHeld' /\ faults'.kinds = faults.kinds
  BY <1>1, FaultLeaves DEF FInv, FaultsHeld
<1>4. A \in Slot /\ B \in Slot /\ A # B
  BY Slots
<1>5. /\ log' \in [Slot -> Seq(Frame)] /\ log'[A] = log[A] /\ log'[B] = <<>>
      /\ durable' \in [Slot -> Nat] /\ durable'[A] = durable[A]
      /\ torn' \in [Slot -> BOOLEAN]
      /\ \A s \in Slot : s # B => log'[s] = log[s]
  BY <1>1, <1>4 DEF TypeOK
<1>6. Visible' = Visible
  BY <1>1, <1>2, <1>5 DEF Visible
<1>7. LogsReplay'
  <2>1. Replayable(NoRecords, <<>>)
    BY DEF Replayable
  <2> QED
    BY <1>5, <2>1 DEF FInv, LogsReplay
<1>8. CachesFit'
  BY <1>1, <1>2, <1>5 DEF FInv, CachesFit
<1>9. HolderSure' /\ ControlHeld'
  BY <1>1, <1>2 DEF HolderSure, FInv, ControlHeld
<1>10. PowerSafe'
  <2>1. Apart => Around(synced, Generation) /\ durable[A] = Len(log[A])
    BY <1>1 DEF FInv, PowerSafe, Apart
  <2> QED
    BY <1>1, <1>2, <1>3, <1>5, <2>1 DEF PowerSafe, Apart
<1>11. TypeOK'
  BY <1>1, <1>5 DEF TypeOK
<1> QED
  BY <1>1, <1>3, <1>6, <1>7, <1>8, <1>9, <1>10, <1>11 DEF Keeps, Outcome, FInv, history, NoEffect

(* The next generation lives in the other slot.                             *)
LEMMA OtherSlot ==
  ASSUME NEW g \in Nat PROVE (g + 1) % 2 = 1 - (g % 2)
OBVIOUS

LEMMA NewestWritten ==
  ASSUME NEW g \in Nat, Around(control', g)
  PROVE  Generation' = g /\ ActiveSlot' = g % 2
BY NewestIs DEF Generation, ActiveSlot

LEMMA SwitchControlKeeps ==
  ASSUME TypeOK, FInv, NEW h \in Handle, SwitchControl(h)
  PROVE  Keeps
<1> DEFINE A == ActiveSlot
           B == 1 - ActiveSlot
           g == Generation
<1>1. /\ lock = h /\ step = "switch"
      /\ UNCHANGED <<log, torn, durable, synced, cache, corrupt, history>>
  BY DEF SwitchControl
<1>2. g \in Nat /\ Around(control, g) /\ A \in Slot /\ B \in Slot /\ A # B /\ A = g % 2
  BY Slots DEF FInv, ControlHeld, ActiveSlot
<1>3. /\ cache[h].open /\ frame \in Frame /\ ValidRecord(frame) /\ Wanted(Visible, frame)
      /\ cache[h].records = Visible /\ g < MaxGeneration /\ log[B] = Compacted(h)
  BY <1>1 DEF FInv, HolderSure
<1>4. CASE /\ control' = Overwritten(control) \cup {g + 1}
           /\ step' = "control" /\ UNCHANGED <<lock, frame, faults>>
  <2>1. control' = {g, g + 1} /\ Around(control', g + 1)
    <3>1. control' = (control \ {g - 1}) \cup {g + 1}
      BY <1>4 DEF Overwritten
    <3> HIDE DEF g
    <3>2. g \in control /\ \A x \in control : x = g \/ x = g - 1
      BY <1>2 DEF Around
    <3>3. g # g - 1 /\ g + 1 - 1 = g
      BY <1>2
    <3>4. control' = {g, g + 1}
      BY <3>1, <3>2, <3>3
    <3>5. g + 1 \in control' /\ control' \subseteq {g + 1 - 1, g + 1}
      BY <3>3, <3>4
    <3> QED
      BY <3>4, <3>5 DEF Around
  <2>2. Generation' = g + 1 /\ ActiveSlot' = B
    <3>1. Generation' = g + 1 /\ ActiveSlot' = (g + 1) % 2
      BY <1>2, <2>1, NewestWritten
    <3>2. B = 1 - (g % 2)
      BY <1>2
    <3> HIDE DEF g, B
    <3>3. (g + 1) % 2 = 1 - (g % 2)
      BY <1>2, OtherSlot
    <3> QED
      BY <3>1, <3>2, <3>3
  <2>3. 1 - B = A
    BY <1>2 DEF Slot
  <2> HIDE DEF A, B, g
  <2>4. Visible' = Replay(NoRecords, log[A])
    BY <1>1, <1>4, <2>2, <2>3 DEF Visible
  <2>5. Visible' = Visible
    BY <1>1, <2>4, VisibleIs DEF A
  <2>6. ControlHeld'
    BY <1>2, <2>1, <2>2 DEF ControlHeld
  <2>7. CachesFit'
    <3>1. \A x \in Handle : cache[x].open => cache[x].generation <= g /\ cache[x].generation \in Nat
      BY DEF FInv, CachesFit, TypeOK, g
    <3> QED
      BY <1>1, <1>2, <2>2, <3>1 DEF CachesFit
  <2>8. HolderSure'
    <3>1. Compacted(h)' = Compacted(h)
      BY <1>1, <1>4 DEF Compacted
    <3> QED
      BY <1>1, <1>3, <1>4, <2>2, <2>5, <3>1 DEF HolderSure
  <2>9. PowerSafe'
    <3>1. Apart =>
            Around(synced, g) /\ durable[A] = Len(log[A]) /\ durable[B] = Len(log[B])
      BY <1>1 DEF FInv, PowerSafe, Apart, A, B, g
    <3>2. Generation' - 1 = g /\ ActiveSlot' = B /\ 1 - ActiveSlot' = A
      BY <1>2, <2>2, <2>3
    <3> SUFFICES ASSUME Apart
                 PROVE  /\ Around(synced, Generation' - 1)
                        /\ durable[ActiveSlot'] = Len(log[ActiveSlot'])
                        /\ durable[1 - ActiveSlot'] = Len(log[1 - ActiveSlot'])
      BY <1>1, <1>4 DEF PowerSafe, Apart
    <3>3. Around(synced, g) /\ durable[A] = Len(log[A]) /\ durable[B] = Len(log[B])
      BY <3>1
    <3> QED
      BY <3>2, <3>3
  <2>10. TypeOK'
    <3>1. control' \subseteq 0..MaxGeneration
      BY <1>2, <1>3, <2>1, FileStoreAssumption
    <3> QED
      BY <1>1, <1>4, <3>1, NothingAssumption DEF TypeOK
  <2> QED
    BY <1>1, <1>4, <2>5, <2>6, <2>7, <2>8, <2>9, <2>10
       DEF Keeps, Outcome, FInv, history, NoEffect, LogsReplay, FaultsHeld
<1>5. CASE control' = Overwritten(control) /\ Fault("write") /\ Release
  <2>1. Around(control', g) /\ control' \subseteq control
    BY <1>2, <1>5 DEF Overwritten, Around
  <2>2. Generation' = g /\ ActiveSlot' = A
    BY <1>2, <2>1, NewestWritten
  <2>3. FaultsHeld' /\ faults'.kinds = faults.kinds
    BY <1>5, FaultLeaves
  <2>4. lock' = Free /\ step' = "idle" /\ frame' = NoFrame
    BY <1>5 DEF Release
  <2>5. Visible' = Visible
    BY <1>1, <2>2, <2>4 DEF Visible
  <2>6. ControlHeld' /\ HolderSure' /\ LogsReplay'
    BY <1>1, <2>1, <2>2, <2>4 DEF FInv, ControlHeld, HolderSure, LogsReplay
  <2>7. CachesFit'
    BY <1>1, <2>2, <2>4 DEF FInv, CachesFit
  <2>8. PowerSafe'
    BY <1>1, <2>2, <2>3, <2>4 DEF FInv, PowerSafe, Apart
  <2>9. TypeOK'
    BY <1>1, <2>1, <2>4 DEF TypeOK
  <2> QED
    BY <1>1, <2>3, <2>5, <2>6, <2>7, <2>8, <2>9 DEF Keeps, Outcome, FInv, history, NoEffect
<1> QED
  BY <1>4, <1>5 DEF SwitchControl

(* Once the control file names the compacted log, the record that made room *)
(* necessary has taken effect.                                              *)
LEMMA SwitchTakesEffect ==
  ASSUME TypeOK, FInv, step = "control", step' = "idle",
         ActiveSlot' = ActiveSlot, log'[ActiveSlot] = log[ActiveSlot]
  PROVE  Visible' = Apply(Visible, frame)
<1>1. Visible' = Replay(NoRecords, log[ActiveSlot])
  BY DEF Visible
<1>2. log[ActiveSlot] = Compacted(lock)
  BY DEF FInv, HolderSure
<1> QED
  BY <1>1, <1>2, CompactedHolds

LEMMA SyncControlKeeps ==
  ASSUME TypeOK, FInv, NEW h \in Handle, SyncControl(h)
  PROVE  Keeps
<1> DEFINE A == ActiveSlot
           l == log[ActiveSlot]
           c == [open |-> TRUE, generation |-> Generation, offset |-> Len(l),
                 records |-> Apply(Visible, frame)]
<1>1. /\ lock = h /\ step = "control" /\ synced' = control
      /\ TakesEffect /\ Acknowledge
      /\ lock' = Free /\ step' = "idle" /\ frame' = NoFrame
      /\ UNCHANGED <<log, torn, durable, control, corrupt, faults>>
  BY DEF SyncControl, Release
<1>2. Generation' = Generation /\ ActiveSlot' = ActiveSlot
  BY <1>1, HomeStays
<1>3. frame \in Frame /\ cache[h].records = Visible
  BY <1>1 DEF FInv, HolderSure
<1>4. cache' = [cache EXCEPT ![h] = c]
  BY <1>3 DEF SyncControl, CacheFrame, TypeOK
<1>5. Visible' = Apply(Visible, frame)
  BY <1>1, <1>2, SwitchTakesEffect
<1>6. Visible' = Replay(NoRecords, l)
  BY <1>1, <1>2 DEF Visible
<1>7. Apply(Visible, frame) \in [Txn -> Record]
  BY <1>1, CompactedHolds
<1>8. /\ cache' \in [Handle -> [open : BOOLEAN, generation : Nat, offset : Nat,
                                 records : [Txn -> Record]]]
      /\ cache'[h] = c /\ \A x \in Handle : x # h => cache'[x] = cache[x]
  BY <1>4, <1>7, Slots DEF TypeOK
<1>9. CachesFit'
  <2>1. c.records = After(l, c.offset)
    BY <1>5, <1>6, Slots, AfterAll
  <2> SUFFICES ASSUME NEW x \in Handle, cache'[x].open
               PROVE  /\ cache'[x].generation <= Generation
                      /\ cache'[x].generation = Generation =>
                           /\ cache'[x].offset <= Len(l)
                           /\ cache'[x].records = After(l, cache'[x].offset)
    BY <1>1, <1>2 DEF CachesFit
  <2>2. CASE x = h
    BY <1>8, <2>1, <2>2, Slots
  <2>3. CASE x # h
    BY <1>8, <2>3 DEF FInv, CachesFit
  <2> QED
    BY <2>2, <2>3
<1>10. PowerSafe'
  <2>1. Around(control, Generation)
    BY DEF FInv, ControlHeld
  <2>2. Apart => durable[A] = Len(l)
    BY <1>1 DEF FInv, PowerSafe, Apart
  <2> QED
    BY <1>1, <1>2, <2>1, <2>2 DEF PowerSafe, Apart
<1>11. LogsReplay' /\ ControlHeld' /\ HolderSure' /\ FaultsHeld'
  BY <1>1, <1>2 DEF FInv, LogsReplay, ControlHeld, HolderSure, FaultsHeld
<1>12. TypeOK'
  BY <1>1, <1>8 DEF TypeOK
<1> QED
  BY <1>1, <1>5, <1>9, <1>10, <1>11, <1>12 DEF Keeps, Outcome, FInv

LEMMA SyncControlFailsKeeps ==
  ASSUME TypeOK, FInv, NEW h \in Handle, SyncControlFails(h)
  PROVE  Keeps
<1>1. /\ lock = h /\ step = "control" /\ Fault("sync") /\ TakesEffect
      /\ lock' = Free /\ step' = "idle" /\ frame' = NoFrame
      /\ UNCHANGED <<disk, cache, corrupt, acked, issued>>
  BY DEF SyncControlFails, Release
<1>2. /\ log' = log /\ torn' = torn /\ durable' = durable /\ control' = control
      /\ synced' = synced
  BY <1>1 DEF disk
<1>3. Generation' = Generation /\ ActiveSlot' = ActiveSlot
  BY <1>2, HomeStays
<1>4. FaultsHeld' /\ ~Apart'
  BY <1>1, FaultLeaves DEF Apart
<1>5. Visible' = Apply(Visible, frame)
  BY <1>1, <1>2, <1>3, SwitchTakesEffect
<1>6. LogsReplay' /\ ControlHeld' /\ HolderSure' /\ PowerSafe'
  BY <1>1, <1>2, <1>3, <1>4 DEF FInv, LogsReplay, ControlHeld, HolderSure, PowerSafe, Apart
<1>7. CachesFit'
  BY <1>1, <1>2, <1>3 DEF FInv, CachesFit
<1>8. TypeOK'
  BY <1>1, <1>2 DEF TypeOK
<1> QED
  BY <1>1, <1>4, <1>5, <1>6, <1>7, <1>8 DEF Keeps, Outcome, FInv

-----------------------------------------------------------------------------
(* A process dies, holding the lock or not.                                 *)
LEMMA CrashKeeps ==
  ASSUME TypeOK, FInv, NEW h \in Handle, Crash(h)
  PROVE  Keeps
<1> DEFINE A == ActiveSlot
           g == Generation
<1>1. cache[h].open /\ Fault("crash") /\ cache' = [cache EXCEPT ![h] = Closed]
  BY DEF Crash
<1>2. FaultsHeld' /\ ~Apart'
  BY <1>1, FaultLeaves DEF Apart
<1>3. /\ cache' \in [Handle -> [open : BOOLEAN, generation : Nat, offset : Nat,
                                 records : [Txn -> Record]]]
      /\ cache'[h] = Closed /\ ~cache'[h].open
      /\ \A x \in Handle : x # h => cache'[x] = cache[x]
  BY <1>1, NoRecordsSound DEF TypeOK, Closed, SoundRecords
<1>4. CASE lock # h
  <2>1. UNCHANGED <<disk, holder, corrupt, history>>
    BY <1>4 DEF Crash
  <2>2. /\ log' = log /\ torn' = torn /\ durable' = durable /\ control' = control
        /\ synced' = synced /\ lock' = lock /\ step' = step /\ frame' = frame
    BY <2>1 DEF disk, holder
  <2>3. Generation' = Generation /\ ActiveSlot' = ActiveSlot
    BY <2>2, HomeStays
  <2>4. Visible' = Visible
    BY <2>2, <2>3 DEF Visible
  <2>5. LogsReplay' /\ ControlHeld' /\ PowerSafe'
    BY <1>2, <2>2, <2>3 DEF FInv, LogsReplay, ControlHeld, PowerSafe, Apart
  <2>6. CachesFit'
    BY <1>3, <2>2, <2>3 DEF FInv, CachesFit
  <2>7. HolderSure'
    <3>1. CASE step = "idle"
      BY <2>2, <3>1 DEF HolderSure
    <3>2. CASE step # "idle"
      <4>1. lock \in Handle /\ cache'[lock] = cache[lock]
        BY <1>3, <1>4, <3>2 DEF TypeOK
      <4>2. Compacted(lock)' = Compacted(lock)
        BY <2>2, <4>1 DEF Compacted
      <4> QED
        BY <2>2, <2>3, <2>4, <4>1, <4>2 DEF FInv, HolderSure
    <3> QED
      BY <3>1, <3>2
  <2>8. TypeOK'
    BY <1>3, <2>2 DEF TypeOK
  <2> QED
    BY <1>2, <2>1, <2>4, <2>5, <2>6, <2>7, <2>8 DEF Keeps, Outcome, FInv, history, NoEffect
<1>5. CASE lock = h
  <2>1. /\ lock' = Free /\ step' = "idle" /\ frame' = NoFrame
        /\ torn' \in {torn, [torn EXCEPT ![A] = @ \/ step = "append"]}
        /\ control' \in {control, IF step = "switch" THEN Overwritten(control) ELSE control}
        /\ IF step \in {"sync", "control"} THEN TakesEffect ELSE NoEffect
        /\ UNCHANGED <<log, durable, synced, corrupt, acked, issued>>
    BY <1>5 DEF Crash, Release
  <2>2. Around(control', g) /\ control' \subseteq control /\ g \in Nat
        /\ (control' # control => step = "switch")
    BY <2>1, Slots DEF FInv, ControlHeld, Overwritten, Around
  <2>3. Generation' = Generation /\ ActiveSlot' = ActiveSlot
    BY <2>2, NewestWritten DEF ActiveSlot
  <2>4. torn' \in [Slot -> BOOLEAN]
    <3>1. torn \in [Slot -> BOOLEAN] /\ A \in Slot
      BY Slots DEF TypeOK
    <3> QED
      BY <2>1, <3>1
  <2>5. LogsReplay' /\ ControlHeld' /\ PowerSafe' /\ HolderSure'
    BY <1>2, <2>1, <2>2, <2>3 DEF FInv, LogsReplay, ControlHeld, PowerSafe, Apart, HolderSure
  <2>6. CachesFit'
    BY <1>3, <2>1, <2>3 DEF FInv, CachesFit
  <2>7. TypeOK'
    BY <1>3, <2>1, <2>2, <2>4 DEF TypeOK
  <2>8. Outcome
    <3>1. CASE step = "sync"
      <4>1. control' = control
        BY <2>2, <3>1
      <4> QED
        BY <2>1, <3>1, <4>1, AppendTakesEffect DEF Outcome
    <3>2. CASE step = "control"
      BY <2>1, <2>3, <3>2, SwitchTakesEffect DEF Outcome
    <3>3. CASE step \notin {"sync", "control"}
      <4>1. Visible' = Visible
        BY <2>1, <2>3, <3>3, SMTT(60) DEF Visible
      <4> QED
        BY <2>1, <3>3, <4>1, SMTT(60) DEF Outcome
    <3> QED
      BY <3>1, <3>2, <3>3
  <2> QED
    BY <1>2, <2>1, <2>5, <2>6, <2>7, <2>8 DEF Keeps, FInv
<1> QED
  BY <1>4, <1>5

(* A log cut back to k of its frames.                                       *)
LEMMA CutLog ==
  ASSUME NEW l \in Seq(Frame), Replayable(NoRecords, l), NEW k \in 0..Len(l)
  PROVE  /\ SubSeq(l, 1, k) \in Seq(Frame) /\ Len(SubSeq(l, 1, k)) = k
         /\ Replayable(NoRecords, SubSeq(l, 1, k))
         /\ k = Len(l) => SubSeq(l, 1, k) = l
         /\ Replay(NoRecords, SubSeq(l, 1, k)) = After(l, k)
<1>1. SubSeq(l, 1, k) \in Seq(Frame) /\ Len(SubSeq(l, 1, k)) = k /\ SubSeq(l, 1, Len(l)) = l
  BY SMTT(60)
<1>2. Replayable(NoRecords, SubSeq(l, 1, k))
  BY ReplayablePrefix
<1> QED
  BY <1>1, <1>2 DEF After

(* The control file after a power loss names the current generation or,     *)
(* while that is being switched to, the one before.                         *)
LEMMA ControlLands ==
  ASSUME TypeOK, FInv, SyncedBehind, Anchored, NEW c \in SUBSET (control \cup synced),
         control \cap synced \subseteq c, \A g, o \in c : g % 2 = o % 2 => g = o
  PROVE  \/ Around(c, Generation)
         \/ /\ step = "control" /\ Generation \notin c
            /\ Generation - 1 \in Nat /\ Around(c, Generation - 1)
            /\ (Generation - 1) % 2 = 1 - ActiveSlot
<1> DEFINE g == Generation
<1>1. /\ g \in Nat /\ Around(control, g) /\ ActiveSlot = g % 2
      /\ step = "control" => control = {g - 1, g}
      /\ control \subseteq Nat /\ synced \subseteq Nat
  <2>1. 0..MaxGeneration \subseteq Nat
    BY FileStoreAssumption
  <2>2. control \subseteq Nat /\ synced \subseteq Nat
    BY <2>1 DEF TypeOK
  <2> QED
    BY <2>2, Slots DEF FInv, ControlHeld, ActiveSlot
<1>2. PICK n \in Nat : Around(synced, n) /\ n <= g /\ (step = "control" => n < g)
  BY DEF SyncedBehind
<1>3. g \in synced \/ (step = "control" /\ g - 1 \in synced)
  BY DEF Anchored
<1> HIDE DEF g
<1>4. CASE g \in synced
  <2>1. n = g
    BY <1>1, <1>2, <1>4 DEF Around
  <2>2. Around(c, g)
    BY <1>1, <1>2, <1>4, <2>1 DEF Around
  <2> QED
    BY <2>2 DEF g
<1>5. CASE step = "control" /\ g - 1 \in synced
  <2> DEFINE p == g - 1
  <2>1. p \in Nat /\ g = p + 1 /\ n = p
    BY <1>1, <1>2, <1>5 DEF Around
  <2>2. control = {p, g} /\ synced \subseteq {p - 1, p} /\ p \in synced
    BY <1>1, <1>2, <1>5, <2>1 DEF Around
  <2>3. p \in c /\ c \subseteq {p - 1, p, g} /\ c \subseteq Nat
    BY <1>1, <2>2
  <2> HIDE DEF p
  <2>4. CASE g \in c
    <3>1. p - 1 \in Nat => (p - 1) % 2 = (p + 1) % 2 /\ p - 1 # p + 1
      BY <2>1
    <3>2. p - 1 \notin c
      BY <2>1, <2>3, <2>4, <3>1
    <3>3. Around(c, g)
      BY <2>1, <2>3, <2>4, <3>2 DEF Around
    <3> QED
      BY <3>3 DEF g
  <2>5. CASE g \notin c
    <3>1. Around(c, p)
      BY <2>3, <2>5 DEF Around
    <3>2. (p + 1) % 2 = 1 - (p % 2) /\ p % 2 \in {0, 1}
      BY <2>1, OtherSlot
    <3>3. p % 2 = 1 - ActiveSlot
      BY <1>1, <2>1, <3>2
    <3> QED
      BY <1>5, <2>1, <2>5, <3>1, <3>3 DEF g, p
  <2> QED
    BY <2>4, <2>5
<1> QED
  BY <1>3, <1>4, <1>5

(* The machine loses power.  The log that is active afterwards holds at     *)
(* least its durable frames.  Where no frame that others read is missing on *)
(* stable storage (Sealed), an append whose frame reached the disk has      *)
(* taken effect, and so has a compaction whose control record did; in any   *)
(* other case the log the older control record names is whole.              *)
LEMMA PowerLossKeeps ==
  ASSUME TypeOK, FInv, DurableFits, SyncedBehind, Anchored, PowerLoss
  PROVE  /\ TypeOK' /\ FInv' /\ DurableFits' /\ SyncedBehind' /\ corrupt' = corrupt
         /\ step' = "idle" /\ UNCHANGED <<acked, issued>>
         /\ Sealed => Outcome
         /\ \E s \in Slot : \E k \in durable[s]..Len(log[s]) :
              /\ s = ActiveSlot \/ (step = "control" /\ s = 1 - ActiveSlot)
              /\ Visible' = After(log[s], k)
              /\ After(log'[ActiveSlot'], durable'[ActiveSlot']) = Visible'
<1> DEFINE A == ActiveSlot
           B == 1 - ActiveSlot
           g == Generation
<1>1. /\ Fault("power") /\ cache' = [h \in Handle |-> Closed]
      /\ lock' = Free /\ step' = "idle" /\ frame' = NoFrame
      /\ UNCHANGED <<corrupt, acked, issued>>
  BY DEF PowerLoss, Release
<1>2. PICK keep \in [Slot -> 0..MaxLogBytes], cut \in [Slot -> BOOLEAN],
           c \in SUBSET (control \cup synced) :
        /\ \A s \in Slot : keep[s] \in durable[s]..Len(log[s])
        /\ log' = [s \in Slot |-> SubSeq(log[s], 1, keep[s])]
        /\ durable' = keep /\ torn' = cut
        /\ control \cap synced \subseteq c /\ \A x, y \in c : x % 2 = y % 2 => x = y
        /\ control' = c /\ synced' = c
        /\ IF \/ step = "sync" /\ keep[A] = Len(log[A])
              \/ step = "control" /\ g \in c
           THEN TakesEffect ELSE NoEffect
  BY DEF PowerLoss
<1>3. FaultsHeld'
  BY <1>1, FaultLeaves
<1>4. g \in Nat /\ A \in Slot /\ B \in Slot /\ A # B /\ A = g % 2
  BY Slots DEF ActiveSlot
<1>5. \A s \in Slot : /\ keep[s] \in 0..Len(log[s]) /\ keep[s] \in Nat /\ durable[s] <= keep[s]
                      /\ log[s] \in Seq(Frame) /\ Replayable(NoRecords, log[s])
  BY <1>2, FileStoreAssumption DEF TypeOK, FInv, LogsReplay
<1>6. \A s \in Slot : /\ log'[s] \in Seq(Frame) /\ Len(log'[s]) = keep[s]
                      /\ Replayable(NoRecords, log'[s])
                      /\ keep[s] = Len(log[s]) => log'[s] = log[s]
                      /\ Replay(NoRecords, log'[s]) = After(log[s], keep[s])
                      /\ After(log'[s], keep[s]) = After(log[s], keep[s])
  <2> TAKE s \in Slot
  <2> DEFINE l == log[s]
             k == keep[s]
             m == log'[s]
  <2>1. l \in Seq(Frame) /\ Replayable(NoRecords, l) /\ k \in 0..Len(l) /\ m = SubSeq(l, 1, k)
    BY <1>2, <1>5
  <2> HIDE DEF l, k, m
  <2>2. /\ m \in Seq(Frame) /\ Len(m) = k /\ Replayable(NoRecords, m)
        /\ k = Len(l) => m = l
        /\ Replay(NoRecords, m) = After(l, k)
    BY <2>1, CutLog
  <2>3. After(m, k) = Replay(NoRecords, m)
    BY <2>2, AfterAll
  <2> QED
    BY <2>2, <2>3 DEF l, k, m
<1>7. Visible' = Replay(NoRecords, log'[ActiveSlot'])
  BY <1>1 DEF Visible
<1>8. LogsReplay' /\ CachesFit' /\ HolderSure'
  BY <1>1, <1>6 DEF LogsReplay, CachesFit, HolderSure, Closed
<1>9. TypeOK'
  <2>1. log' \in [Slot -> Seq(Frame)]
    BY <1>2, <1>6
  <2>2. durable' \in [Slot -> Nat] /\ torn' \in [Slot -> BOOLEAN]
    BY <1>2, <1>5
  <2>3. control' \subseteq 0..MaxGeneration /\ synced' \subseteq 0..MaxGeneration
    BY <1>2 DEF TypeOK
  <2>4. cache' \in [Handle -> [open : BOOLEAN, generation : Nat, offset : Nat,
                               records : [Txn -> Record]]]
    BY <1>1, NoRecordsSound DEF Closed, SoundRecords
  <2> QED
    BY <1>1, <2>1, <2>2, <2>3, <2>4 DEF TypeOK
<1>10. ASSUME NEW n \in Nat, Around(c, n), n % 2 \in Slot
       PROVE  /\ Generation' = n /\ ActiveSlot' = n % 2
              /\ FInv' /\ DurableFits' /\ SyncedBehind'
              /\ Visible' = After(log[n % 2], keep[n % 2])
              /\ After(log'[n % 2], durable'[n % 2]) = After(log[n % 2], keep[n % 2])
  <2>1. Around(control', n) /\ Around(synced', n)
    BY <1>2, <1>10
  <2>2. Generation' = n /\ ActiveSlot' = n % 2
    BY <2>1, NewestWritten
  <2>3. ControlHeld' /\ SyncedBehind'
    BY <1>1, <2>1, <2>2 DEF ControlHeld, SyncedBehind
  <2>4. DurableFits'
    BY <1>1, <1>2, <1>5, <1>6 DEF DurableFits
  <2>5. PowerSafe'
    <3>1. durable'[ActiveSlot'] = Len(log'[ActiveSlot'])
      BY <1>2, <1>6, <1>10, <2>2
    <3> QED
      BY <1>1, <2>1, <2>2, <3>1 DEF PowerSafe
  <2> QED
    BY <1>2, <1>3, <1>6, <1>7, <1>8, <1>10, <2>2, <2>3, <2>4, <2>5 DEF FInv
<1>11. CASE Around(c, g)
  <2>1. /\ ActiveSlot' = A /\ FInv' /\ DurableFits' /\ SyncedBehind'
        /\ Visible' = After(log[A], keep[A])
        /\ After(log'[A], durable'[A]) = After(log[A], keep[A])
    BY <1>4, <1>10, <1>11
  <2>2. Sealed => Outcome
    <3> SUFFICES ASSUME Sealed PROVE Outcome
      OBVIOUS
    <3>1. CASE step = "sync" /\ keep[A] = Len(log[A])
      <4>1. Visible' = Replay(NoRecords, log[A])
        BY <1>4, <1>5, <2>1, <3>1, AfterAll
      <4>2. Visible' = Apply(Visible, frame)
        <5> DEFINE l == log[A]
        <5>1. l \in Seq(Frame) /\ l # <<>> /\ l[Len(l)] = frame /\ Visible = After(l, Len(l) - 1)
          BY <3>1, Slots, VisibleIs DEF FInv, HolderSure, Last
        <5>2. Visible' = Replay(NoRecords, l)
          BY <4>1
        <5> HIDE DEF l
        <5> QED
          BY <5>1, <5>2, ReplayLast
      <4> QED
        BY <1>1, <1>2, <3>1, <4>2 DEF Outcome
    <3>2. CASE step = "sync" /\ keep[A] # Len(log[A])
      <4>1. durable[A] = Len(log[A]) - 1 /\ durable[A] <= keep[A] /\ keep[A] \in 0..Len(log[A])
        BY <1>4, <1>5, <3>2 DEF Sealed
      <4>2. keep[A] = Len(log[A]) - 1
        BY <1>4, <1>5, <3>2, <4>1
      <4>3. Visible' = Visible
        BY <2>1, <3>2, <4>2, VisibleIs
      <4> QED
        BY <1>1, <1>2, <3>2, <4>3 DEF Outcome
    <3>3. CASE step # "sync"
      <4>1. durable[A] = Len(log[A]) /\ durable[A] <= keep[A] /\ keep[A] \in 0..Len(log[A])
        BY <1>4, <1>5, <3>3 DEF Sealed, DurableFits
      <4>2. keep[A] = Len(log[A])
        BY <1>4, <1>5, <4>1
      <4>3. Visible' = Replay(NoRecords, log[A]) /\ log'[A] = log[A]
        BY <1>4, <1>5, <1>6, <2>1, <4>2, AfterAll
      <4>4. CASE step # "control"
        <5>1. Visible' = Visible
          BY <3>3, <4>3, <4>4, VisibleIs
        <5> QED
          BY <1>1, <1>2, <3>3, <4>4, <5>1 DEF Outcome
      <4>5. CASE step = "control"
        <5>1. Visible' = Apply(Visible, frame)
          BY <1>1, <2>1, <4>3, <4>5, SwitchTakesEffect
        <5>2. g \in c
          BY <1>11 DEF Around
        <5> QED
          BY <1>1, <1>2, <4>5, <5>1, <5>2 DEF Outcome
      <4> QED
        BY <4>4, <4>5
    <3> QED
      BY <3>1, <3>2, <3>3
  <2> QED
    BY <1>1, <1>2, <1>4, <1>9, <2>1, <2>2
<1>12. CASE /\ step = "control" /\ g \notin c /\ g - 1 \in Nat
            /\ Around(c, g - 1) /\ (g - 1) % 2 = B
  <2>1. /\ ActiveSlot' = B /\ FInv' /\ DurableFits' /\ SyncedBehind'
        /\ Visible' = After(log[B], keep[B])
        /\ After(log'[B], durable'[B]) = After(log[B], keep[B])
    <3> DEFINE p == g - 1
    <3>1. p \in Nat /\ Around(c, p) /\ p % 2 = B
      BY <1>12
    <3> HIDE DEF p, B
    <3> QED
      BY <1>4, <1>10, <3>1
  <2>2. Sealed => Outcome
    <3> SUFFICES ASSUME Sealed PROVE Outcome
      OBVIOUS
    <3>1. durable[B] = Len(log[B]) /\ durable[B] <= keep[B] /\ keep[B] \in 0..Len(log[B])
      BY <1>4, <1>5, <1>12 DEF Sealed
    <3>2. keep[B] = Len(log[B])
      BY <1>4, <1>5, <3>1
    <3>3. Visible' = Visible
      BY <1>4, <1>5, <1>12, <2>1, <3>2, AfterAll, VisibleIs
    <3> QED
      BY <1>1, <1>2, <1>12, <3>3 DEF Outcome
  <2> QED
    BY <1>1, <1>2, <1>4, <1>9, <1>12, <2>1, <2>2
<1>13. Around(c, g) \/ (/\ step = "control" /\ g \notin c /\ g - 1 \in Nat
                       /\ Around(c, g - 1) /\ (g - 1) % 2 = B)
  BY <1>2, ControlLands
<1> QED
  BY <1>11, <1>12, <1>13

-----------------------------------------------------------------------------
(* Every step of every process keeps the invariant.                         *)
LEMMA InitKeeps ==
  ASSUME Init
  PROVE  TypeOK /\ FInv /\ ~corrupt /\ Visible = NoRecords
<1>1. /\ log = [s \in Slot |-> <<>>] /\ torn = [s \in Slot |-> FALSE]
      /\ durable = [s \in Slot |-> 0] /\ control = {0} /\ synced = {0}
      /\ cache = [h \in Handle |-> Closed] /\ lock = Free /\ step = "idle"
      /\ frame = NoFrame /\ corrupt = FALSE
      /\ faults \in [kinds : FaultSets, left : {MaxFailures}]
  BY DEF Init
<1>2. Around(control, 0) /\ Around(synced, 0)
  BY <1>1 DEF Around
<1>3. Generation = 0 /\ ActiveSlot = 0
  BY <1>2, NewestIs DEF Generation, ActiveSlot
<1>4. Visible = NoRecords
  BY <1>1, <1>3, ReplayNothing DEF Visible, Slot
<1>5. LogsReplay /\ ControlHeld /\ CachesFit /\ HolderSure /\ PowerSafe /\ FaultsHeld
  <2>1. LogsReplay
    BY <1>1 DEF LogsReplay, Replayable
  <2>2. PowerSafe
    BY <1>1, <1>2, <1>3 DEF PowerSafe, Apart, Slot
  <2> QED
    BY <1>1, <1>2, <1>3, <2>1, <2>2, FileStoreAssumption
       DEF ControlHeld, CachesFit, HolderSure, FaultsHeld, Closed
<1>6. TypeOK
  <2>1. <<>> \in Seq(Frame)
    OBVIOUS
  <2>2. cache \in [Handle -> [open : BOOLEAN, generation : Nat, offset : Nat,
                              records : [Txn -> Record]]]
    BY <1>1, NoRecordsSound DEF Closed, SoundRecords
  <2> QED
    BY <1>1, <2>1, <2>2, FileStoreAssumption DEF TypeOK
<1> QED
  BY <1>1, <1>4, <1>5, <1>6 DEF FInv

HandleStep(h) ==
  \/ Refresh(h) \/ Call(h)
  \/ AppendFrame(h) \/ AppendTears(h) \/ SyncAppend(h) \/ SyncAppendFails(h)
  \/ CompactLog(h) \/ CompactLogFails(h)
  \/ SwitchControl(h) \/ SyncControl(h) \/ SyncControlFails(h)
  \/ Crash(h)

LEMMA StepKeeps ==
  ASSUME TypeOK, FInv, NEW h \in Handle, HandleStep(h)
  PROVE  Keeps
BY RefreshKeeps, CallKeeps, AppendFrameKeeps, AppendTearsKeeps, SyncAppendKeeps,
   SyncAppendFailsKeeps, CompactLogKeeps, CompactLogFailsKeeps, SwitchControlKeeps,
   SyncControlKeeps, SyncControlFailsKeeps, CrashKeeps DEF HandleStep

LEMMA StutterKeeps ==
  ASSUME TypeOK, FInv, UNCHANGED vars
  PROVE  Keeps
<1>1. /\ UNCHANGED <<log, torn, durable, control, synced, cache, lock, step, frame, corrupt>>
      /\ UNCHANGED <<acked, issued, wins, wonAt, reviewed, faults>>
  BY DEF vars, disk, holder, history
<1>2. Generation' = Generation /\ ActiveSlot' = ActiveSlot
  BY <1>1, HomeStays
<1>3. Visible' = Visible
  BY <1>1, <1>2 DEF Visible
<1>4. LogsReplay' /\ ControlHeld' /\ CachesFit' /\ PowerSafe' /\ FaultsHeld'
  BY <1>1, <1>2 DEF FInv, LogsReplay, ControlHeld, CachesFit, PowerSafe, Apart, FaultsHeld
<1>5. HolderSure'
  <2>1. Compacted(lock)' = Compacted(lock)
    BY <1>1 DEF Compacted
  <2> QED
    BY <1>1, <1>2, <1>3, <2>1 DEF FInv, HolderSure
<1>6. TypeOK'
  BY <1>1 DEF TypeOK
<1> QED
  BY <1>1, <1>3, <1>4, <1>5, <1>6 DEF Keeps, Outcome, FInv, NoEffect

-----------------------------------------------------------------------------
(* What the callers are told.                                               *)
LEMMA RankNeverFalls ==
  ASSUME NEW s, NEW next \in Successors(s)
  PROVE  Rank(s) <= Rank(next)
BY DEF Successors, Rank

LEMMA RankNatural == \A s : Rank(s) \in Nat
BY DEF Rank

LEMMA WantedEdges ==
  ASSUME NEW r \in SoundRecords, NEW f, Wanted(r, f)
  PROVE  /\ f.state = "Reserved" => r[f.txn].state \in {"AutoApproved", "Approved"}
         /\ f.state \in {"AutoApproved", "PendingApproval", "Approved"} =>
              r[f.txn].state \in {"Absent", "AutoApproved", "PendingApproval"}
<1>1. PICK t \in Txn :
        \/ \E s \in Store!CreatedIn : f \in Created(r, t, s)
        \/ \E e \in Store!CallerEdges : f \in Transitioned(r, t, e)
        \/ \E g \in Store!Grant : f \in Approved(r, t, g)
        \/ \E now \in Time : f \in Reserved(r, t, now)
  BY DEF Wanted
<1>2. CASE \E s \in Store!CreatedIn : f \in Created(r, t, s)
  BY <1>2 DEF Created, Absent, Store!CreatedIn
<1>3. CASE \E e \in Store!CallerEdges : f \in Transitioned(r, t, e)
  BY <1>3 DEF Transitioned, Store!CallerEdges
<1>4. CASE \E g \in Store!Grant : f \in Approved(r, t, g)
  BY <1>4 DEF Approved
<1>5. CASE \E now \in Time : f \in Reserved(r, t, now)
  BY <1>5 DEF Reserved
<1> QED
  BY <1>1, <1>2, <1>3, <1>4, <1>5

(* The records q are those of r or later ones.                              *)
Behind(r, q) ==
  \A t \in Txn : r[t] # Absent => q[t] # Absent /\ Rank(r[t].state) <= Rank(q[t].state)

(* A longer part of a log has got at least as far as a shorter one.         *)
LEMMA AfterClimbs ==
  ASSUME NEW l \in Seq(Frame), Replayable(NoRecords, l), NEW j \in 0..Len(l), NEW k \in j..Len(l)
  PROVE  Behind(After(l, j), After(l, k))
<1> DEFINE S == {i \in Nat : j + i <= Len(l) => Behind(After(l, j), After(l, j + i))}
<1>1. j \in Nat /\ k \in Nat /\ Len(l) \in Nat /\ j + 0 = j
  OBVIOUS
<1>2. 0 \in S
  BY <1>1, RankNatural DEF Behind
<1>3. ASSUME NEW i \in S PROVE i + 1 \in S
  <2> SUFFICES ASSUME j + (i + 1) <= Len(l) PROVE Behind(After(l, j), After(l, j + (i + 1)))
    OBVIOUS
  <2> DEFINE n == j + i
             r == After(l, n)
             f == l[n + 1]
  <2>1. i \in Nat /\ n \in Nat /\ n + 1 <= Len(l) /\ j + (i + 1) = n + 1 /\ n + 1 - 1 = n
        /\ n + 1 \in 1..Len(l) /\ n <= Len(l)
    BY <1>1
  <2>2. Behind(After(l, j), r)
    BY <2>1
  <2> HIDE DEF n
  <2>3. f \in Frame /\ r \in LightRecords /\ After(l, n + 1) = Apply(r, f)
    BY <2>1, NextFrame
  <2>4. ValidReplay(r[f.txn], f)
    BY <2>1, ReplayableAt
  <2> HIDE DEF r, f
  <2>5. \A t \in Txn : Apply(r, f)[t] =
          IF t = f.txn THEN [state |-> f.state, approval |-> f.approval] ELSE r[t]
    BY <2>3, ApplyTyped DEF LightRecords, FewRecords
  <2>6. [state |-> f.state, approval |-> f.approval] # Absent
    BY <2>3, FrameIsPresent
  <2>7. Behind(r, Apply(r, f))
    <3>1. r[f.txn] # Absent => Rank(r[f.txn].state) <= Rank(f.state)
      BY <2>4, RankNeverFalls DEF ValidReplay, CanTransitionTo
    <3> QED
      BY <2>5, <2>6, <3>1, RankNatural DEF Behind
  <2>8. Behind(After(l, j), Apply(r, f))
    <3> SUFFICES ASSUME NEW t \in Txn, After(l, j)[t] # Absent
                 PROVE  /\ Apply(r, f)[t] # Absent
                        /\ Rank(After(l, j)[t].state) <= Rank(Apply(r, f)[t].state)
      BY DEF Behind
    <3>1. /\ r[t] # Absent /\ Rank(After(l, j)[t].state) <= Rank(r[t].state)
          /\ Apply(r, f)[t] # Absent /\ Rank(r[t].state) <= Rank(Apply(r, f)[t].state)
      BY <2>2, <2>7 DEF Behind
    <3> QED
      BY <3>1, RankNatural
  <2> QED
    BY <2>1, <2>3, <2>8
<1> HIDE DEF S
<1>4. S = Nat
  <2>1. S \subseteq Nat
    BY DEF S
  <2> QED
    BY <1>2, <1>3, <2>1, SetInduction
<1> DEFINE m == k - j
<1>5. m \in Nat /\ j + m = k /\ k <= Len(l)
  BY <1>1
<1> HIDE DEF m
<1>6. m \in S
  BY <1>4, <1>5
<1> QED
  BY <1>5, <1>6 DEF S

(* What the callers were told holds in records r, or did so before them.    *)
Holds(told, r) ==
  \A t \in Txn : told[t] # "Absent" => r[t] # Absent /\ Rank(told[t]) <= Rank(r[t].state)

LEMMA HoldsLater ==
  ASSUME NEW told, NEW r, NEW q, Holds(told, r), Behind(r, q)
  PROVE  Holds(told, q)
<1> SUFFICES ASSUME NEW t \in Txn, told[t] # "Absent"
             PROVE  q[t] # Absent /\ Rank(told[t]) <= Rank(q[t].state)
  BY DEF Holds
<1>1. /\ r[t] # Absent /\ Rank(told[t]) <= Rank(r[t].state)
      /\ q[t] # Absent /\ Rank(r[t].state) <= Rank(q[t].state)
  BY DEF Holds, Behind
<1> QED
  BY <1>1, RankNatural

(* A reported state is a state, and the visible one is at or behind it.     *)
AckInv ==
  /\ acked \in [Txn -> States \cup {"Absent"}]
  /\ AckedSurvives

(* It is on stable storage as well: in the active log, and during a switch  *)
(* in the log that is left.                                                 *)
AckedHeld ==
  /\ Holds(acked, After(log[ActiveSlot], durable[ActiveSlot]))
  /\ step = "control" => Holds(acked, After(log[1 - ActiveSlot], durable[1 - ActiveSlot]))

LEMMA AckStep ==
  ASSUME TypeOK, FInv, AckInv, Outcome
  PROVE  AckInv'
<1>1. CASE Visible' = Visible /\ NoEffect /\ UNCHANGED <<acked, issued>>
  BY <1>1 DEF AckInv, AckedSurvives
<1>2. CASE /\ step # "idle" /\ Visible' = Apply(Visible, frame) /\ TakesEffect
           /\ UNCHANGED <<acked, issued>> \/ Acknowledge
  <2> DEFINE u == frame.txn
             n == frame.state
  <2>1. frame \in Frame /\ Wanted(Visible, frame)
    BY <1>2 DEF FInv, HolderSure
  <2>2. u \in Txn /\ n \in States
    BY <2>1 DEF Frame
  <2>3. Visible[u] # Absent => Rank(Visible[u].state) <= Rank(n)
    BY <2>1, VisibleSound, WantedFits, RankNeverFalls DEF CanTransitionTo
  <2>4. /\ \A t \in Txn : Visible'[t] =
             IF t = u THEN [state |-> n, approval |-> frame.approval] ELSE Visible[t]
        /\ Visible'[u] # Absent /\ Visible'[u].state = n
    <3>1. Visible \in [Txn -> Record]
      BY VisibleSound DEF SoundRecords
    <3>2. \A t \in Txn : Visible'[t] =
            IF t = u THEN [state |-> n, approval |-> frame.approval] ELSE Visible[t]
      BY <1>2, <2>1, <3>1, ApplyTyped
    <3> QED
      BY <2>1, <2>2, <3>2, FrameIsPresent
  <2>5. acked' = acked \/ acked' = [acked EXCEPT ![u] = n]
    BY <1>2 DEF Acknowledge
  <2>6. acked' \in [Txn -> States \cup {"Absent"}]
    BY <2>2, <2>5 DEF AckInv
  <2>7. ASSUME NEW t \in Txn, acked'[t] # "Absent"
        PROVE  Visible'[t] # Absent /\ Rank(acked'[t]) <= Rank(Visible'[t].state)
    <3>1. acked[t] # "Absent" =>
            Visible[t] # Absent /\ Rank(acked[t]) <= Rank(Visible[t].state)
      BY DEF AckInv, AckedSurvives
    <3>2. CASE t # u
      <4>1. acked'[t] = acked[t] /\ Visible'[t] = Visible[t]
        BY <2>4, <2>5, <3>2 DEF AckInv
      <4> QED
        BY <2>7, <3>1, <4>1
    <3>3. CASE t = u /\ acked'[t] = n
      BY <2>4, <3>3, RankNatural
    <3>4. CASE t = u /\ acked'[t] = acked[t]
      <4>1. Rank(acked[t]) <= Rank(Visible[t].state) /\ Rank(Visible[t].state) <= Rank(n)
        BY <2>3, <2>7, <3>1, <3>4
      <4>2. Rank(acked[t]) <= Rank(n)
        BY <4>1, RankNatural
      <4> QED
        BY <2>4, <3>4, <4>2
    <3> QED
      BY <2>2, <2>5, <3>2, <3>3, <3>4 DEF AckInv
  <2> QED
    BY <2>6, <2>7 DEF AckInv, AckedSurvives
<1> QED
  BY <1>1, <1>2 DEF Outcome

(* Where nothing of what matters to stable storage changed, nothing is lost *)
(* from it.                                                                 *)
LEMMA Untouched ==
  ASSUME DurableFits, SyncedBehind, AckedHeld, UNCHANGED <<log, durable, synced, acked>>,
         Generation' = Generation, ActiveSlot' = ActiveSlot,
         step' \notin {"switch", "control"} \/ step' = step
  PROVE  DurableFits' /\ SyncedBehind' /\ AckedHeld'
<1>1. DurableFits'
  BY DEF DurableFits
<1>2. SyncedBehind'
  BY DEF SyncedBehind
<1>3. AckedHeld'
  BY DEF AckedHeld
<1> QED
  BY <1>1, <1>2, <1>3

(* A log that is durable to its last frame holds what is visible.           *)
LEMMA SyncedHolds ==
  ASSUME TypeOK', FInv', AckInv', step' \notin {"sync", "control"}, ActiveSlot' = ActiveSlot,
         ActiveSlot \in Slot, durable'[ActiveSlot] = Len(log'[ActiveSlot])
  PROVE  AckedHeld'
<1> DEFINE l == log'[ActiveSlot]
<1>1. l \in Seq(Frame) /\ Visible' = Replay(NoRecords, l)
  BY DEF TypeOK, Visible
<1> HIDE DEF l
<1>2. After(l, Len(l)) = Visible'
  BY <1>1, AfterAll
<1>3. Holds(acked', Visible')
  BY DEF AckInv, AckedSurvives, Holds
<1> QED
  BY <1>2, <1>3 DEF AckedHeld, l

LEMMA DurableStep ==
  ASSUME TypeOK, FInv, DurableFits, SyncedBehind, AckInv, AckedHeld,
         NEW h \in Handle, HandleStep(h), Keeps, AckInv'
  PROVE  DurableFits' /\ SyncedBehind' /\ AckedHeld'
<1> DEFINE A == ActiveSlot
           B == 1 - ActiveSlot
<1>1. A \in Slot /\ B \in Slot /\ A # B /\ Generation \in Nat
      /\ log \in [Slot -> Seq(Frame)] /\ durable \in [Slot -> Nat]
  BY Slots DEF TypeOK
<1>2. ASSUME UNCHANGED <<log, control, synced>>, step' \notin {"sync", "switch", "control"},
             durable' = [durable EXCEPT ![A] = Len(log[A])]
      PROVE  DurableFits' /\ SyncedBehind' /\ AckedHeld'
  <2>1. Generation' = Generation /\ ActiveSlot' = ActiveSlot
    BY <1>2, HomeStays
  <2>2. durable'[A] = Len(log'[A]) /\ \A s \in Slot : s # A => durable'[s] = durable[s]
    BY <1>1, <1>2
  <2>3. DurableFits' /\ SyncedBehind'
    BY <1>1, <1>2, <2>1, <2>2 DEF DurableFits, SyncedBehind
  <2>4. AckedHeld'
    BY <1>1, <1>2, <2>1, <2>2, SyncedHolds DEF Keeps
  <2> QED
    BY <2>3, <2>4
<1>3. CASE Refresh(h) \/ Call(h)
  <2>1. /\ RepairTail /\ acked' = acked /\ step' \in {"idle", "append", "compact"}
    <3>1. CASE Refresh(h)
      <4>1. ~ReportCorrupt \/ UNCHANGED <<disk, holder>>
        BY DEF ReportCorrupt
      <4>2. lock = Free /\ step = "idle"
        BY <3>1 DEF Refresh, TypeOK
      <4>3. Refresh(h) => RepairTail /\ UNCHANGED <<holder, history>>
        <5> DEFINE c == IF cache[h].open THEN cache[h] ELSE [Closed EXCEPT !.generation = Generation]
        <5>1. Fitting(c) /\ c = [open |-> c.open, generation |-> c.generation,
                                 offset |-> c.offset, records |-> c.records]
          BY CacheFits DEF Closed
        <5> HIDE DEF c
        <5>2. Readable(c)
          BY <4>2, <5>1, FittingReadable
        <5> QED
          BY <5>2 DEF Refresh, c
      <4> QED
        BY <3>1, <4>2, <4>3 DEF holder, history
    <3>2. CASE Call(h)
      BY <3>2, CallBegins DEF Begins, history
    <3> QED
      BY <1>3, <3>1, <3>2
  <2>2. UNCHANGED <<log, control, synced>>
        /\ (durable' = durable \/ durable' = [durable EXCEPT ![A] = Len(log[A])])
    BY <2>1 DEF RepairTail
  <2>3. CASE durable' = durable
    BY <2>1, <2>2, <2>3, HomeStays, Untouched
  <2> QED
    BY <1>2, <2>1, <2>2, <2>3
<1>4. CASE AppendFrame(h)
  <2> DEFINE l == log[A]
             m == Append(log[A], frame)
  <2>1. /\ step = "append" /\ step' = "sync" /\ log' = [log EXCEPT ![A] = m]
        /\ UNCHANGED <<durable, control, synced, acked>> /\ frame \in Frame
    BY <1>4 DEF AppendFrame, history, FInv, HolderSure
  <2>2. Generation' = Generation /\ ActiveSlot' = ActiveSlot
    BY <2>1, HomeStays
  <2>3. l \in Seq(Frame) /\ durable[A] \in 0..Len(l)
    BY <1>1 DEF DurableFits
  <2> HIDE DEF l
  <2>4. Len(Append(l, frame)) = Len(l) + 1 /\ After(Append(l, frame), durable[A]) = After(l, durable[A])
    BY <2>1, <2>3, AfterAppend
  <2>5. log'[A] = Append(l, frame) /\ \A s \in Slot : s # A => log'[s] = log[s]
    BY <1>1, <2>1 DEF l
  <2>6. DurableFits'
    BY <1>1, <2>1, <2>3, <2>4, <2>5 DEF DurableFits
  <2>7. SyncedBehind'
    BY <2>1, <2>2 DEF SyncedBehind
  <2>8. AckedHeld'
    BY <2>1, <2>2, <2>4, <2>5 DEF AckedHeld, l
  <2> QED
    BY <2>6, <2>7, <2>8
<1>5. CASE AppendTears(h) \/ SyncAppendFails(h) \/ SyncControlFails(h)
  <2>1. UNCHANGED <<log, durable, control, synced, acked>> /\ step' = "idle"
    BY <1>5 DEF AppendTears, SyncAppendFails, SyncControlFails, Release, disk, history
  <2> QED
    BY <2>1, HomeStays, Untouched
<1>6. CASE SyncAppend(h)
  BY <1>2, <1>6 DEF SyncAppend, Release
<1>7. CASE CompactLog(h)
  <2> DEFINE q == Compacted(h)
  <2>1. /\ step = "compact" /\ step' = "switch" /\ lock = h
        /\ log' = [log EXCEPT ![B] = q] /\ durable' = [durable EXCEPT ![B] = Len(q)]
        /\ UNCHANGED <<control, synced, acked>>
    BY <1>7 DEF CompactLog, history
  <2>2. Generation' = Generation /\ ActiveSlot' = ActiveSlot
    BY <2>1, HomeStays
  <2>3. q \in Seq(Frame)
    BY <2>1, CompactedHolds
  <2> HIDE DEF q
  <2>4. /\ log'[B] = q /\ durable'[B] = Len(q) /\ log'[A] = log[A] /\ durable'[A] = durable[A]
        /\ \A s \in Slot : s = A \/ s = B
    BY <1>1, <2>1 DEF Slot
  <2>5. DurableFits'
    BY <1>1, <2>1, <2>2, <2>3, <2>4 DEF DurableFits
  <2>6. SyncedBehind'
    BY <2>1, <2>2 DEF SyncedBehind
  <2>7. AckedHeld'
    BY <2>1, <2>2, <2>4 DEF AckedHeld
  <2> QED
    BY <2>5, <2>6, <2>7
<1>8. CASE CompactLogFails(h)
  <2>1. /\ step = "compact" /\ step' = "idle"
        /\ log' = [log EXCEPT ![B] = <<>>] /\ durable' = [durable EXCEPT ![B] = 0]
        /\ UNCHANGED <<control, synced, acked>>
    BY <1>8 DEF CompactLogFails, Release, history
  <2>2. Generation' = Generation /\ ActiveSlot' = ActiveSlot
    BY <2>1, HomeStays
  <2>3. /\ Len(log'[B]) = 0 /\ durable'[B] = 0 /\ log'[A] = log[A] /\ durable'[A] = durable[A]
        /\ \A s \in Slot : s = A \/ s = B
    BY <1>1, <2>1 DEF Slot
  <2>4. DurableFits'
    BY <1>1, <2>1, <2>2, <2>3 DEF DurableFits
  <2>5. SyncedBehind'
    BY <2>1, <2>2 DEF SyncedBehind
  <2>6. AckedHeld'
    BY <2>1, <2>2, <2>3 DEF AckedHeld
  <2> QED
    BY <2>4, <2>5, <2>6
<1>9. CASE SwitchControl(h)
  <2> DEFINE g == Generation
  <2>1. /\ step = "switch" /\ lock = h
        /\ UNCHANGED <<log, durable, synced, acked>>
        /\ Around(control, g) /\ g \in Nat /\ A = g % 2
    BY <1>1, <1>9 DEF SwitchControl, history, FInv, ControlHeld, ActiveSlot
  <2>2. CASE control' = Overwritten(control) /\ Release
    <3>1. Around(control', g)
      BY <2>1, <2>2 DEF Overwritten, Around
    <3>2. Generation' = Generation /\ ActiveSlot' = ActiveSlot
      BY <2>1, <3>1, NewestWritten
    <3> QED
      BY <2>1, <2>2, <3>2, Untouched DEF Release
  <2>3. CASE control' = Overwritten(control) \cup {g + 1} /\ step' = "control"
    <3>1. Around(control', g + 1)
      BY <2>1, <2>3 DEF Overwritten, Around
    <3>2. Generation' = g + 1 /\ ActiveSlot' = B /\ 1 - B = A
      <4>1. Generation' = g + 1 /\ ActiveSlot' = (g + 1) % 2
        BY <2>1, <3>1, NewestWritten
      <4> HIDE DEF g
      <4>2. (g + 1) % 2 = 1 - (g % 2)
        BY <2>1, OtherSlot
      <4> QED
        BY <1>1, <2>1, <4>1, <4>2 DEF Slot
    <3>3. durable[B] = Len(log[B])
      BY <2>1 DEF DurableFits
    <3>4. DurableFits'
      BY <1>1, <2>1, <2>3, <3>2, <3>3 DEF DurableFits
    <3>5. SyncedBehind'
      <4>1. PICK n \in Nat : Around(synced, n) /\ n <= g
        BY DEF SyncedBehind
      <4>2. n <= Generation' /\ n < Generation'
        BY <2>1, <3>2, <4>1
      <4> QED
        BY <2>1, <4>1, <4>2 DEF SyncedBehind
    <3>6. Holds(acked, After(log[B], durable[B]))
      <4>1. log[B] = Compacted(lock) /\ frame \in Frame /\ Wanted(Visible, frame)
        BY <2>1 DEF FInv, HolderSure
      <4>2. After(log[B], durable[B]) = Apply(Visible, frame)
        BY <1>1, <2>1, <3>3, <4>1, CompactedHolds, AfterAll
      <4>3. Behind(Visible, Apply(Visible, frame))
        <5>1. Visible[frame.txn] # Absent => Rank(Visible[frame.txn].state) <= Rank(frame.state)
          BY <4>1, VisibleSound, WantedFits, RankNeverFalls DEF CanTransitionTo
        <5>2. \A t \in Txn : Apply(Visible, frame)[t] =
                IF t = frame.txn THEN [state |-> frame.state, approval |-> frame.approval]
                ELSE Visible[t]
          BY <4>1, VisibleSound, ApplyTyped DEF SoundRecords
        <5>3. [state |-> frame.state, approval |-> frame.approval] # Absent
          BY <4>1, FrameIsPresent
        <5> QED
          BY <5>1, <5>2, <5>3, RankNatural DEF Behind
      <4>4. Holds(acked, Visible)
        BY DEF AckInv, AckedSurvives, Holds
      <4> QED
        BY <4>2, <4>3, <4>4, HoldsLater
    <3>7. AckedHeld'
      <4>1. Holds(acked, After(log[A], durable[A]))
        BY DEF AckedHeld
      <4> QED
        BY <2>1, <3>2, <3>6, <4>1 DEF AckedHeld
    <3> QED
      BY <3>4, <3>5, <3>7
  <2> QED
    BY <1>9, <2>2, <2>3 DEF SwitchControl
<1>10. CASE SyncControl(h)
  <2>1. /\ step = "control" /\ step' = "idle" /\ synced' = control
        /\ UNCHANGED <<log, durable, control>>
    BY <1>10 DEF SyncControl, Release
  <2>2. Generation' = Generation /\ ActiveSlot' = ActiveSlot
    BY <2>1, HomeStays
  <2>3. durable[A] = Len(log[A])
    BY <2>1 DEF DurableFits
  <2>4. DurableFits'
    BY <2>1, <2>2 DEF DurableFits
  <2>5. SyncedBehind'
    BY <1>1, <2>1, <2>2 DEF SyncedBehind, FInv, ControlHeld
  <2>6. AckedHeld'
    BY <1>1, <2>1, <2>2, <2>3, SyncedHolds DEF Keeps
  <2> QED
    BY <2>4, <2>5, <2>6
<1>11. CASE Crash(h)
  <2>1. /\ UNCHANGED <<log, durable, synced, acked>>
        /\ step' = "idle" \/ step' = step
        /\ control' = control \/ (step = "switch" /\ control' = Overwritten(control))
    <3>1. CASE lock = h
      BY <1>11, <3>1 DEF Crash, Release
    <3>2. CASE lock # h
      BY <1>11, <3>2 DEF Crash, disk, holder, history
    <3> QED
      BY <3>1, <3>2
  <2>2. Around(control', Generation)
    <3>1. Generation \in Nat /\ Around(control, Generation)
      BY <1>1 DEF FInv, ControlHeld
    <3>2. CASE control' = control
      BY <3>1, <3>2
    <3>3. CASE control' = Overwritten(control)
      BY <3>1, <3>3 DEF Overwritten, Around
    <3> QED
      BY <2>1, <3>2, <3>3
  <2>3. Generation' = Generation /\ ActiveSlot' = ActiveSlot
    BY <1>1, <2>2, NewestWritten DEF ActiveSlot
  <2> QED
    BY <2>1, <2>3, Untouched
<1> QED
  BY <1>3, <1>4, <1>5, <1>6, <1>7, <1>8, <1>9, <1>10, <1>11 DEF HandleStep

(* After a power loss the active log still holds what the callers were      *)
(* told.                                                                    *)
LEMMA PowerLossHolds ==
  ASSUME TypeOK, FInv, DurableFits, SyncedBehind, AckInv, AckedHeld, Anchored, PowerLoss
  PROVE  AckInv' /\ AckedHeld'
<1>1. /\ acked' = acked /\ step' = "idle" /\ TypeOK'
      /\ \E s \in Slot : \E k \in durable[s]..Len(log[s]) :
           /\ s = ActiveSlot \/ (step = "control" /\ s = 1 - ActiveSlot)
           /\ Visible' = After(log[s], k)
           /\ After(log'[ActiveSlot'], durable'[ActiveSlot']) = Visible'
  BY PowerLossKeeps
<1>2. PICK s \in Slot : \E k \in durable[s]..Len(log[s]) :
           /\ s = ActiveSlot \/ (step = "control" /\ s = 1 - ActiveSlot)
           /\ Visible' = After(log[s], k)
           /\ After(log'[ActiveSlot'], durable'[ActiveSlot']) = Visible'
  BY <1>1
<1>3. PICK k \in durable[s]..Len(log[s]) :
           /\ s = ActiveSlot \/ (step = "control" /\ s = 1 - ActiveSlot)
           /\ Visible' = After(log[s], k)
           /\ After(log'[ActiveSlot'], durable'[ActiveSlot']) = Visible'
  BY <1>2
<1>4. Holds(acked, After(log[s], durable[s]))
  BY <1>3 DEF AckedHeld
<1>5. Holds(acked, Visible')
  <2> DEFINE l == log[s]
             d == durable[s]
  <2>1. l \in Seq(Frame) /\ Replayable(NoRecords, l) /\ d \in 0..Len(l) /\ k \in d..Len(l)
    BY <1>3 DEF TypeOK, FInv, LogsReplay, DurableFits
  <2>2. Holds(acked, After(l, d)) /\ Visible' = After(l, k)
    BY <1>3, <1>4
  <2> HIDE DEF l, d
  <2>3. Behind(After(l, d), After(l, k))
    BY <2>1, AfterClimbs
  <2> QED
    BY <2>2, <2>3, HoldsLater
<1>6. AckInv'
  BY <1>1, <1>5 DEF AckInv, AckedSurvives, Holds
<1>7. AckedHeld'
  BY <1>1, <1>3, <1>5 DEF AckedHeld
<1> QED
  BY <1>6, <1>7

(* A reservation is handed out once, and from then on what the callers were *)
(* told of the transaction is that it is reserved, or what comes after.     *)
OnceInv ==
  /\ issued \in [Txn -> Nat]
  /\ \A t \in Txn :
       /\ issued[t] <= 1
       /\ issued[t] # 0 => acked[t] # "Absent" /\ Rank("Reserved") <= Rank(acked[t])

LEMMA OnceStep ==
  ASSUME TypeOK, FInv, AckInv, OnceInv,
         UNCHANGED <<acked, issued>> \/ (step # "idle" /\ Acknowledge)
  PROVE  OnceInv'
<1>1. CASE UNCHANGED <<acked, issued>>
  BY <1>1 DEF OnceInv
<1>2. CASE step # "idle" /\ Acknowledge
  <2> DEFINE u == frame.txn
             n == frame.state
  <2>1. frame \in Frame /\ Wanted(Visible, frame)
    BY <1>2 DEF FInv, HolderSure
  <2>2. u \in Txn /\ n \in States /\ n # "Absent"
    BY <2>1 DEF Frame, States
  <2>3. /\ n = "Reserved" => Rank(Visible[u].state) < Rank("Reserved")
        /\ Visible[u] # Absent => Rank(Visible[u].state) <= Rank(n)
    <3>1. n = "Reserved" => Visible[u].state \in {"AutoApproved", "Approved"}
      BY <2>1, VisibleSound, WantedEdges
    <3>2. Visible[u] # Absent => Rank(Visible[u].state) <= Rank(n)
      BY <2>1, VisibleSound, WantedFits, RankNeverFalls DEF CanTransitionTo
    <3> QED
      BY <3>1, <3>2 DEF Rank
  <2>4. issued[u] # 0 =>
          Visible[u] # Absent /\ Rank("Reserved") <= Rank(Visible[u].state)
    <3> SUFFICES ASSUME issued[u] # 0
                 PROVE  Visible[u] # Absent /\ Rank("Reserved") <= Rank(Visible[u].state)
      OBVIOUS
    <3>1. acked[u] # "Absent" /\ Rank("Reserved") <= Rank(acked[u])
      BY <2>2 DEF OnceInv
    <3>2. Visible[u] # Absent /\ Rank(acked[u]) <= Rank(Visible[u].state)
      BY <2>2, <3>1 DEF AckInv, AckedSurvives
    <3> QED
      BY <3>1, <3>2, RankNatural
  <2>5. /\ acked' = [acked EXCEPT ![u] = n]
        /\ issued' = IF n = "Reserved" THEN [issued EXCEPT ![u] = @ + 1] ELSE issued
    BY <1>2 DEF Acknowledge
  <2> HIDE DEF u, n
  <2>6. issued' \in [Txn -> Nat]
    BY <2>2, <2>5 DEF OnceInv
  <2>7. ASSUME NEW t \in Txn
        PROVE  /\ issued'[t] <= 1
               /\ issued'[t] # 0 => acked'[t] # "Absent" /\ Rank("Reserved") <= Rank(acked'[t])
    <3>1. CASE t # u
      <4>1. issued'[t] = issued[t] /\ acked'[t] = acked[t]
        BY <2>5, <3>1 DEF OnceInv, AckInv
      <4> QED
        BY <4>1 DEF OnceInv
    <3>2. CASE t = u /\ n = "Reserved"
      <4>1. issued[u] = 0
        BY <2>3, <2>4, <3>2, RankNatural
      <4>2. issued'[t] = 1 /\ acked'[t] = n
        BY <2>2, <2>5, <3>2, <4>1 DEF OnceInv, AckInv
      <4> QED
        BY <2>2, <3>2, <4>2, RankNatural
    <3>3. CASE t = u /\ n # "Reserved"
      <4>1. issued'[t] = issued[t] /\ acked'[t] = n
        BY <2>2, <2>5, <3>3 DEF OnceInv, AckInv
      <4>2. issued[u] # 0 => Rank("Reserved") <= Rank(n)
        BY <2>3, <2>4, RankNatural
      <4> QED
        BY <2>2, <3>3, <4>1, <4>2 DEF OnceInv
    <3> QED
      BY <3>1, <3>2, <3>3
  <2> QED
    BY <2>6, <2>7 DEF OnceInv
<1> QED
  BY <1>1, <1>2

-----------------------------------------------------------------------------
(* What takes effect is an operation of TransactionStore.                   *)
LEMMA EffectIsOperation ==
  ASSUME TypeOK, FInv, step # "idle", Visible' = Apply(Visible, frame), TakesEffect
  PROVE  Abstract!Next
<1> DEFINE S == [t \in Txn |-> Visible[t].state]
           P == [t \in Txn |-> Visible[t].approval]
           u == frame.txn
<1>1. frame \in Frame /\ ValidRecord(frame) /\ Wanted(Visible, frame)
  BY DEF FInv, HolderSure
<1>2. u \in Txn
  BY <1>1 DEF Frame
<1>3. Visible \in [Txn -> Record]
  BY VisibleSound DEF SoundRecords
<1>4. \A t \in Txn : Visible'[t] =
        IF t = u THEN [state |-> frame.state, approval |-> frame.approval] ELSE Visible[t]
  BY <1>1, <1>3, ApplyTyped
<1>5. /\ S' = [S EXCEPT ![u] = frame.state]
      /\ P' = [P EXCEPT ![u] = frame.approval]
  <2> HIDE DEF u
  <2>1. \A t \in Txn :
          /\ Visible'[t].state = IF t = u THEN frame.state ELSE Visible[t].state
          /\ Visible'[t].approval = IF t = u THEN frame.approval ELSE Visible[t].approval
    BY <1>4
  <2>2. [t \in Txn |-> Visible'[t].state] = [S EXCEPT ![u] = frame.state]
    BY <1>2, <2>1
  <2>3. [t \in Txn |-> Visible'[t].approval] = [P EXCEPT ![u] = frame.approval]
    BY <1>2, <2>1
  <2> QED
    BY <2>2, <2>3
<1>6. S[u] = Visible[u].state /\ P[u] = Visible[u].approval
  BY <1>2
<1>7. frame.approval = P[u] => P' = P
  BY <1>2, <1>5
<1>8. PICK t \in Txn :
        \/ \E s \in Store!CreatedIn : frame \in Created(Visible, t, s)
        \/ \E e \in Store!CallerEdges : frame \in Transitioned(Visible, t, e)
        \/ \E g \in Store!Grant : frame \in Approved(Visible, t, g)
        \/ \E now \in Time : frame \in Reserved(Visible, t, now)
  BY <1>1 DEF Wanted
<1>9. t = u
  BY <1>8 DEF Created, Transitioned, Approved, Reserved
<1> HIDE DEF S, P, u
<1>10. ASSUME NEW s \in Store!CreatedIn, frame \in Created(Visible, t, s)
       PROVE  Abstract!Next
  <2>1. frame.state = s /\ frame.approval = NoGrant /\ Visible[u] = Absent /\ s # "Reserved"
    BY <1>9, <1>10 DEF Created, Store!CreatedIn
  <2>2. S[u] = "Absent" /\ P' = P /\ S' = [S EXCEPT ![u] = s]
    BY <1>5, <1>6, <1>7, <2>1 DEF Absent
  <2>3. /\ wins' = wins /\ wonAt' = wonAt
        /\ reviewed' = IF s = "PendingApproval" THEN reviewed \cup {u} ELSE reviewed
    BY <2>1 DEF TakesEffect, u
  <2>4. Abstract!Create(u, s)
    BY <2>2, <2>3 DEF Abstract!Create, Abstract!Demanded, S, P
  <2>5. s \in Abstract!CreatedIn
    BY DEF Store!CreatedIn, Abstract!CreatedIn
  <2> QED
    BY <1>2, <2>4, <2>5 DEF Abstract!Next
<1>11. ASSUME NEW e \in Store!CallerEdges, frame \in Transitioned(Visible, t, e)
       PROVE  Abstract!Next
  <2>1. /\ frame.state = e[2] /\ frame.approval = Visible[u].approval
        /\ Visible[u].state = e[1] /\ CanTransitionTo(e[1], e[2])
    BY <1>9, <1>11 DEF Transitioned
  <2>2. e[2] # "Reserved"
    BY DEF Store!CallerEdges
  <2>3. S[u] = e[1] /\ P' = P /\ S' = [S EXCEPT ![u] = e[2]]
    BY <1>5, <1>6, <1>7, <2>1
  <2>4. /\ wins' = wins /\ wonAt' = wonAt
        /\ reviewed' = IF e[2] = "PendingApproval" THEN reviewed \cup {u} ELSE reviewed
    BY <2>1, <2>2 DEF TakesEffect, u
  <2>5. Abstract!CompareAndTransition(u, e[1], e[2])
    BY <2>1, <2>3, <2>4 DEF Abstract!CompareAndTransition, Abstract!Demanded, S, P,
       CanTransitionTo, Abstract!CanTransitionTo, Successors, Abstract!Successors
  <2>6. e \in Abstract!CallerEdges
    BY DEF Store!CallerEdges, Abstract!CallerEdges
  <2> QED
    BY <1>2, <2>5, <2>6 DEF Abstract!Next
<1>12. ASSUME NEW g \in Store!Grant, frame \in Approved(Visible, t, g)
       PROVE  Abstract!Next
  <2>1. /\ frame.state = "Approved" /\ frame.approval = g
        /\ g.transaction = u /\ Visible[u].state = "PendingApproval"
    BY <1>9, <1>12 DEF Approved
  <2>2. S[u] = "PendingApproval" /\ S' = [S EXCEPT ![u] = "Approved"] /\ P' = [P EXCEPT ![u] = g]
    BY <1>5, <1>6, <2>1
  <2>3. wins' = wins /\ wonAt' = wonAt /\ reviewed' = reviewed
    BY <2>1 DEF TakesEffect
  <2>4. g \in Abstract!GrantInput /\ Abstract!ValidWindow(g)
    BY DEF Store!Grant, Store!GrantInput, Abstract!GrantInput, Abstract!ValidWindow
  <2>5. Abstract!Approve(u, g)
    BY <2>1, <2>2, <2>3, <2>4 DEF Abstract!Approve, S, P
  <2> QED
    BY <1>2, <2>4, <2>5 DEF Abstract!Next
<1>13. ASSUME NEW now \in Time, frame \in Reserved(Visible, t, now)
       PROVE  Abstract!Next
  <2> DEFINE r == Visible[u]
  <2>1. /\ frame.approval = r.approval /\ frame.now = now
        /\ r.state \in {"AutoApproved", "Approved"}
        /\ frame.state = IF Expired(r, now) THEN "Expired" ELSE "Reserved"
    BY <1>9, <1>13 DEF Reserved
  <2>2. S[u] = r.state /\ P[u] = r.approval /\ P' = P /\ S' = [S EXCEPT ![u] = frame.state]
    BY <1>5, <1>6, <1>7, <2>1
  <2>3. r.state = "Approved" => r.approval # NoGrant
    <3>1. Visible[u] # Absent =>
            ValidRecord([txn |-> u, state |-> r.state, approval |-> r.approval, now |-> 0])
      BY <1>2, VisibleSound DEF SoundRecords, FrameOf
    <3>2. r.state = "Approved" => Visible[u] # Absent
      BY DEF Absent
    <3> QED
      BY <3>1, <3>2 DEF ValidRecord
  <2> HIDE DEF r
  <2>4. CASE Expired(r, now)
    <3>1. /\ frame.state = "Expired" /\ r.state = "Approved" /\ now >= r.approval.expires
      BY <2>1, <2>4 DEF Expired
    <3>2. wins' = wins /\ wonAt' = wonAt /\ reviewed' = reviewed
      BY <3>1 DEF TakesEffect
    <3>3. Abstract!ReserveExpired(u, now)
      BY <2>2, <2>3, <3>1, <3>2 DEF Abstract!ReserveExpired, Abstract!IsExpiredAt, S, P
    <3> QED
      BY <1>2, <3>3 DEF Abstract!Next
  <2>5. CASE ~Expired(r, now)
    <3>1. frame.state = "Reserved"
      BY <2>1, <2>5
    <3>2. /\ wins' = [wins EXCEPT ![u] = @ + 1] /\ wonAt' = [wonAt EXCEPT ![u] = now]
          /\ reviewed' = reviewed
      BY <2>1, <3>1 DEF TakesEffect, u
    <3>3. S[u] = "AutoApproved" \/ (S[u] = "Approved" /\ P[u] # NoGrant /\ ~(now >= P[u].expires))
      BY <2>1, <2>2, <2>3, <2>5 DEF Expired
    <3>4. Abstract!Reserve(u, now)
      BY <2>2, <3>1, <3>2, <3>3
         DEF Abstract!Reserve, Abstract!Reservable, Abstract!IsExpiredAt, S, P
    <3> QED
      BY <1>2, <3>4 DEF Abstract!Next
  <2> QED
    BY <2>4, <2>5
<1> QED
  BY <1>8, <1>10, <1>11, <1>12, <1>13

LEMMA OutcomeIsStep ==
  ASSUME TypeOK, FInv, Outcome
  PROVE  [Abstract!Next]_(Abstract!vars)
<1>1. CASE Visible' = Visible /\ NoEffect
  BY <1>1 DEF NoEffect, Abstract!vars
<1>2. CASE step # "idle" /\ Visible' = Apply(Visible, frame) /\ TakesEffect
  BY <1>2, EffectIsOperation
<1> QED
  BY <1>1, <1>2 DEF Outcome

-----------------------------------------------------------------------------
(* The room for a transaction in flight: no log outgrows its ceiling, no    *)
(* more transactions are kept than allowed, and the holder's frame was      *)
(* checked against both.                                                    *)
RoomInv ==
  /\ \A s \in Slot : LogBytes(log[s]) <= MaxLogBytes
  /\ Cardinality(Known(Visible)) <= MaxRecords
  /\ step # "idle" =>
       frame.txn \in Known(Visible) \/ Cardinality(Known(Visible)) < MaxRecords
  /\ step = "append" => LogBytes(log[ActiveSlot]) + Bytes(frame) <= MaxLogBytes

LEMMA RoomInit ==
  ASSUME Init
  PROVE  RoomInv
<1>1. Visible = NoRecords /\ Known(NoRecords) = {}
  BY InitKeeps, NoRecordsSound
<1>2. Cardinality({}) = 0
  BY FS_EmptySet
<1> QED
  BY <1>1, <1>2, WeightOfNothing, FileStoreAssumption DEF Init, RoomInv

(* What one step does to the logs.                                          *)
LEMMA LogsStayBelow ==
  ASSUME TypeOK, FInv, RoomInv, Next
  PROVE  \A s \in Slot : LogBytes(log'[s]) <= MaxLogBytes
<1>1. CASE log' = log
  BY <1>1 DEF RoomInv
<1>2. ASSUME NEW h \in Handle, AppendFrame(h)
      PROVE  \A s \in Slot : LogBytes(log'[s]) <= MaxLogBytes
  <2> DEFINE l == log[ActiveSlot]
             m == Append(log[ActiveSlot], frame)
  <2>1. /\ step = "append" /\ log' = [log EXCEPT ![ActiveSlot] = m]
    BY <1>2 DEF AppendFrame
  <2>2. frame \in Frame /\ l \in Seq(Frame)
    BY <2>1, Slots DEF FInv, HolderSure
  <2>3. LogBytes(m) = LogBytes(l) + Bytes(frame)
    BY <2>2, WeightAppend
  <2> HIDE DEF m
  <2>4. LogBytes(m) <= MaxLogBytes
    BY <2>1, <2>3 DEF RoomInv
  <2> QED
    BY <2>1, <2>4, Slots DEF TypeOK, RoomInv
<1>3. ASSUME NEW h \in Handle, CompactLog(h)
      PROVE  \A s \in Slot : LogBytes(log'[s]) <= MaxLogBytes
  <2> DEFINE q == Compacted(h)
  <2>1. log' = [log EXCEPT ![1 - ActiveSlot] = q] /\ LogBytes(q) <= MaxLogBytes
    BY <1>3 DEF CompactLog
  <2> HIDE DEF q
  <2> QED
    BY <2>1, Slots DEF TypeOK, RoomInv
<1>4. ASSUME NEW h \in Handle, CompactLogFails(h)
      PROVE  \A s \in Slot : LogBytes(log'[s]) <= MaxLogBytes
  <2> DEFINE e == <<>>
  <2>1. log' = [log EXCEPT ![1 - ActiveSlot] = e] /\ LogBytes(e) <= MaxLogBytes
    BY <1>4, WeightOfNothing, FileStoreAssumption DEF CompactLogFails
  <2> HIDE DEF e
  <2> QED
    BY <2>1, Slots DEF TypeOK, RoomInv
<1>5. ASSUME PowerLoss
      PROVE  \A s \in Slot : LogBytes(log'[s]) <= MaxLogBytes
  <2>1. PICK keep \in [Slot -> 0..MaxLogBytes] :
          /\ \A s \in Slot : keep[s] \in durable[s]..Len(log[s])
          /\ log' = [s \in Slot |-> SubSeq(log[s], 1, keep[s])]
    BY <1>5 DEF PowerLoss
  <2> TAKE s \in Slot
  <2> DEFINE l == log[s]
             k == keep[s]
  <2>2. l \in Seq(Frame) /\ k \in 0..Len(l) /\ log'[s] = SubSeq(l, 1, k)
    BY <2>1 DEF TypeOK
  <2>3. LogBytes(l) <= MaxLogBytes
    BY DEF RoomInv
  <2> HIDE DEF l, k
  <2>4. LogBytes(SubSeq(l, 1, k)) <= LogBytes(l)
    BY <2>2, WeightOfPrefix
  <2>5. SubSeq(l, 1, k) \in Seq(Frame)
    BY <2>2
  <2>6. LogBytes(l) \in Nat /\ LogBytes(SubSeq(l, 1, k)) \in Nat
    <3> DEFINE p == SubSeq(l, 1, k)
    <3>1. p \in Seq(Frame)
      BY <2>5
    <3> HIDE DEF p
    <3>2. LogBytes(l) \in Nat /\ LogBytes(p) \in Nat
      BY <2>2, <3>1, WeightNatural
    <3> QED
      BY <3>2 DEF p
  <2> QED
    BY <2>2, <2>3, <2>4, <2>6, FileStoreAssumption
<1>6. ASSUME NEW h \in Handle, Refresh(h) \/ Call(h)
      PROVE  log' = log
  <2>1. Refresh(h) => log' = log
    BY DEF Refresh, RepairTail, ReportCorrupt, disk
  <2>2. Call(h) => log' = log
    BY CallBegins DEF Begins, RepairTail
  <2> QED
    BY <1>6, <2>1, <2>2
<1>7. ASSUME NEW h \in Handle,
             \/ AppendTears(h) \/ SyncAppend(h) \/ SyncAppendFails(h)
             \/ SwitchControl(h) \/ SyncControl(h) \/ SyncControlFails(h) \/ Crash(h)
      PROVE  log' = log
  BY <1>7 DEF AppendTears, SyncAppend, SyncAppendFails, SwitchControl, SyncControl,
              SyncControlFails, Crash, disk
<1> QED
  BY <1>1, <1>2, <1>3, <1>4, <1>5, <1>6, <1>7 DEF Next

(* Who holds the lock after a step held it before, or has just begun.       *)
LEMMA HolderFrom ==
  ASSUME TypeOK, FInv, Next, step' # "idle"
  PROVE  \/ \E h \in Handle : \E f : Begins(h, f)
         \/ /\ step # "idle" /\ frame' = frame
            /\ step' = "append" => step = "append" /\ log' = log /\ control' = control
<1>1. ASSUME NEW h \in Handle, Refresh(h)
      PROVE  FALSE
  <2>1. lock = Free /\ UNCHANGED <<holder>>
    BY <1>1 DEF Refresh, ReportCorrupt
  <2> QED
    BY <2>1 DEF TypeOK, holder
<1>2. ASSUME NEW h \in Handle, Call(h)
      PROVE  \E f : Begins(h, f)
  BY <1>2, CallBegins
<1>3. ASSUME NEW h \in Handle,
             \/ AppendTears(h) \/ SyncAppend(h) \/ SyncAppendFails(h)
             \/ CompactLogFails(h) \/ SyncControl(h) \/ SyncControlFails(h)
      PROVE  FALSE
  BY <1>3 DEF AppendTears, SyncAppend, SyncAppendFails, CompactLogFails, SyncControl,
              SyncControlFails, Release
<1>4. ASSUME NEW h \in Handle, AppendFrame(h) \/ CompactLog(h) \/ SwitchControl(h)
      PROVE  step # "idle" /\ frame' = frame /\ step' # "append"
  BY <1>4 DEF AppendFrame, CompactLog, SwitchControl, Release
<1>5. ASSUME NEW h \in Handle, Crash(h)
      PROVE  step' = step /\ frame' = frame /\ log' = log /\ control' = control
  <2>1. lock # h
    BY <1>5 DEF Crash, Release
  <2> QED
    BY <1>5, <2>1 DEF Crash, disk, holder
<1>6. ~PowerLoss
  BY DEF PowerLoss, Release
<1> QED
  BY <1>1, <1>2, <1>3, <1>4, <1>5, <1>6 DEF Next

LEMMA RoomStep ==
  ASSUME TypeOK, FInv, RoomInv, NEW p \in Handle, HandleStep(p)
  PROVE  RoomInv'
<1>0. Next
  BY DEF Next, HandleStep
<1>1. Outcome
  BY StepKeeps DEF Keeps
<1>2. Visible \in FewRecords
  BY VisibleSound
<1>3. IsFiniteSet(Known(Visible)) /\ Cardinality(Known(Visible)) \in Nat
  BY <1>2, FS_CardinalityType DEF FewRecords
<1>4. \/ Visible' = Visible
      \/ /\ step # "idle" /\ frame \in Frame
         /\ Known(Visible') = Known(Visible) \cup {frame.txn}
  <2>1. CASE step # "idle" /\ Visible' = Apply(Visible, frame)
    <3>1. frame \in Frame
      BY <2>1 DEF FInv, HolderSure
    <3> QED
      BY <1>2, <2>1, <3>1, ApplyFew
  <2> QED
    BY <1>1, <2>1 DEF Outcome
<1>5. Cardinality(Known(Visible')) <= MaxRecords
  <2> DEFINE K == Known(Visible)
             u == frame.txn
  <2>1. CASE Visible' = Visible
    BY <2>1 DEF RoomInv
  <2>2. CASE step # "idle" /\ Known(Visible') = K \cup {u}
    <3>1. u \in K \/ Cardinality(K) < MaxRecords
      BY <2>2 DEF RoomInv
    <3>2. IsFiniteSet(K) /\ Cardinality(K) \in Nat /\ Cardinality(K) <= MaxRecords
      BY <1>3 DEF RoomInv
    <3> HIDE DEF K, u
    <3>3. Cardinality(K \cup {u}) = IF u \in K THEN Cardinality(K) ELSE Cardinality(K) + 1
      BY <3>2, FS_AddElement
    <3> QED
      BY <2>2, <3>1, <3>2, <3>3, FileStoreAssumption
  <2> QED
    BY <1>4, <2>1, <2>2
<1>6. CASE step' = "idle"
  BY <1>5, <1>6, <1>0, LogsStayBelow DEF RoomInv
<1>7. CASE \E h \in Handle : \E f : Begins(h, f)
  <2>0. PICK h \in Handle : \E f : Begins(h, f)
    BY <1>7
  <2>1. PICK f : Begins(h, f)
    BY <2>0
  <2>2. /\ f.txn \in Known(Visible) \/ Cardinality(Known(Visible)) < MaxRecords
        /\ lock = Free /\ RepairTail /\ frame' = f
        /\ step' = IF Room(f) THEN "append" ELSE "compact"
    BY <2>1 DEF Begins
  <2>3. step = "idle" /\ log' = log /\ control' = control
    BY <2>2 DEF TypeOK, RepairTail
  <2>4. Visible' = Visible /\ ActiveSlot' = ActiveSlot
    BY <1>1, <2>3, HomeStays DEF Outcome
  <2>5. step' = "append" => LogBytes(log[ActiveSlot]) + Bytes(f) <= MaxLogBytes
    BY <2>2 DEF Room
  <2> QED
    BY <1>5, <2>2, <2>3, <2>4, <2>5, <1>0, LogsStayBelow DEF RoomInv
<1>8. CASE /\ step # "idle" /\ frame' = frame
           /\ step' = "append" => step = "append" /\ log' = log /\ control' = control
  <2>1. step' = "append" => LogBytes(log'[ActiveSlot']) + Bytes(frame') <= MaxLogBytes
    BY <1>8, HomeStays DEF RoomInv
  <2>2. frame'.txn \in Known(Visible') \/ Cardinality(Known(Visible')) < MaxRecords
    <3>1. CASE Visible' = Visible
      BY <1>8, <3>1 DEF RoomInv
    <3>2. CASE Known(Visible') = Known(Visible) \cup {frame.txn}
      BY <1>8, <3>2
    <3> QED
      BY <1>4, <3>1, <3>2
  <2> QED
    BY <1>5, <2>1, <2>2, <1>0, LogsStayBelow DEF RoomInv
<1> QED
  BY <1>0, <1>6, <1>7, <1>8, HolderFrom

(* A power loss leaves no records but those of one of the two logs.         *)
LEMMA RoomAfterPowerLoss ==
  ASSUME TypeOK, FInv, DurableFits, SyncedBehind, RoomInv, Anchored, PowerLoss
  PROVE  RoomInv'
<1>1. /\ step' = "idle"
      /\ \E s \in Slot : \E k \in durable[s]..Len(log[s]) :
           /\ s = ActiveSlot \/ (step = "control" /\ s = 1 - ActiveSlot)
           /\ Visible' = After(log[s], k)
  BY PowerLossKeeps
<1>2. PICK s \in Slot : \E k \in durable[s]..Len(log[s]) :
           /\ s = ActiveSlot \/ (step = "control" /\ s = 1 - ActiveSlot)
           /\ Visible' = After(log[s], k)
  BY <1>1
<1>3. PICK k \in durable[s]..Len(log[s]) :
           /\ s = ActiveSlot \/ (step = "control" /\ s = 1 - ActiveSlot)
           /\ Visible' = After(log[s], k)
  BY <1>2
<1> DEFINE l == log[s]
           w == Replay(NoRecords, l)
<1>4. l \in Seq(Frame) /\ Replayable(NoRecords, l) /\ k \in 0..Len(l) /\ Len(l) \in k..Len(l)
  BY <1>3 DEF TypeOK, FInv, LogsReplay, DurableFits
<1>5. Known(Visible') \subseteq Known(w)
  <2>1. Visible' = After(l, k)
    BY <1>3
  <2> HIDE DEF l
  <2>2. Behind(After(l, k), After(l, Len(l))) /\ After(l, Len(l)) = w
    BY <1>4, AfterClimbs, AfterAll
  <2> QED
    BY <2>1, <2>2 DEF Behind, Known
<1>6. w = Visible \/ (step # "idle" /\ frame \in Frame /\ w = Apply(Visible, frame))
  <2>1. CASE step = "sync"
    <3>1. s = ActiveSlot
      BY <1>3, <2>1
    <3>2. l # <<>> /\ l[Len(l)] = frame /\ Visible = After(l, Len(l) - 1) /\ frame \in Frame
      BY <2>1, <3>1, VisibleIs DEF FInv, HolderSure, Last
    <3> HIDE DEF l
    <3> QED
      BY <1>4, <2>1, <3>2, ReplayLast
  <2>2. CASE step = "control" /\ s = ActiveSlot
    <3>1. l = Compacted(lock)
      BY <2>2 DEF FInv, HolderSure
    <3> QED
      BY <2>2, <3>1, CompactedHolds
  <2>3. CASE step = "control" /\ s = 1 - ActiveSlot
    BY <2>3, VisibleIs
  <2>4. CASE step \notin {"sync", "control"}
    BY <1>3, <2>4, VisibleIs
  <2> QED
    BY <1>3, <2>1, <2>2, <2>3, <2>4
<1>7. IsFiniteSet(Known(w)) /\ Cardinality(Known(w)) <= MaxRecords
  <2>1. Visible \in FewRecords
    BY VisibleSound
  <2> DEFINE K == Known(Visible)
             u == frame.txn
  <2>2. IsFiniteSet(K) /\ Cardinality(K) \in Nat /\ Cardinality(K) <= MaxRecords
    BY <2>1, FS_CardinalityType DEF FewRecords, RoomInv
  <2>3. CASE w = Visible
    BY <2>2, <2>3
  <2>4. CASE step # "idle" /\ frame \in Frame /\ w = Apply(Visible, frame)
    <3>1. Known(w) = K \cup {u}
      BY <2>1, <2>4, ApplyFew
    <3>2. u \in K \/ Cardinality(K) < MaxRecords
      BY <2>4 DEF RoomInv
    <3> HIDE DEF K, u, w
    <3>3. Cardinality(K \cup {u}) = IF u \in K THEN Cardinality(K) ELSE Cardinality(K) + 1
      BY <2>2, FS_AddElement
    <3>4. IsFiniteSet(K \cup {u})
      BY <2>2, FS_AddElement
    <3> QED
      BY <2>2, <3>1, <3>2, <3>3, <3>4, FileStoreAssumption
  <2> QED
    BY <1>6, <2>3, <2>4
<1> HIDE DEF w, l
<1>8. Cardinality(Known(Visible')) <= MaxRecords
  <2> DEFINE V == Known(Visible')
             K == Known(w)
  <2>1. V \subseteq K /\ IsFiniteSet(K) /\ Cardinality(K) <= MaxRecords
    BY <1>5, <1>7
  <2> HIDE DEF V, K
  <2>2. IsFiniteSet(V) /\ Cardinality(V) <= Cardinality(K)
    BY <2>1, FS_Subset
  <2>3. Cardinality(V) \in Nat /\ Cardinality(K) \in Nat
    BY <2>1, <2>2, FS_CardinalityType
  <2>4. Cardinality(V) <= MaxRecords
    BY <2>1, <2>2, <2>3, FileStoreAssumption
  <2> QED
    BY <2>4 DEF V
<1>9. Next
  BY DEF Next
<1> QED
  BY <1>1, <1>8, <1>9, LogsStayBelow DEF RoomInv

LEMMA RoomStutters ==
  ASSUME RoomInv, UNCHANGED vars
  PROVE  RoomInv'
<1>1. UNCHANGED <<log, control, step, frame>>
  BY DEF vars, disk, holder
<1>2. ActiveSlot' = ActiveSlot
  BY <1>1, HomeStays
<1>3. Visible' = Visible
  BY <1>1, <1>2 DEF Visible
<1> QED
  BY <1>1, <1>2, <1>3 DEF RoomInv

LEMMA RoomSuffices ==
  ASSUME TypeOK, FInv, RoomInv
  PROVE  TransitionsFit
<1>1. ASSUME step = "compact", Visible[frame.txn] # Absent,
             Visible[frame.txn].approval = frame.approval
      PROVE  LogBytes(Compacted(lock)) <= MaxLogBytes
  <2> DEFINE r == Apply(Visible, frame)
             l == log[ActiveSlot]
  <2>1. frame \in Frame /\ ValidRecord(frame) /\ cache[lock].records = Visible
    BY <1>1 DEF FInv, HolderSure
  <2>2. l \in Seq(Frame) /\ Visible = Replay(NoRecords, l)
    BY <1>1, Slots, VisibleIs
  <2>3. Visible \in LightRecords /\ Weight(Visible) <= LogBytes(l)
    <3> HIDE DEF l
    <3> QED
      BY <2>2, ReplayLight, RecordsBelowLog
  <2>4. Weight(r) = Weight(Visible) /\ r \in LightRecords
    BY <1>1, <2>1, <2>3, ApplyWeighs
  <2>5. r \in SoundRecords
    BY <2>1, VisibleSound, ApplySound
  <2>6. Compacted(lock) = Listing(r)
    BY <2>1 DEF Compacted, Listing, FrameOf
  <2> HIDE DEF r, l
  <2>7. LogBytes(Listing(r)) = Weight(r)
    BY <2>4, <2>5, ListingWeighs DEF LightRecords, FewRecords
  <2>8. LogBytes(l) <= MaxLogBytes
    BY Slots DEF RoomInv, l
  <2>9. Weight(Visible) \in Nat /\ LogBytes(l) \in Nat
    BY <2>2, <2>3, WeightIsNatural, WeightNatural
  <2> QED
    BY <2>3, <2>4, <2>6, <2>7, <2>8, <2>9, FileStoreAssumption
<1> QED
  BY <1>1 DEF RoomInv, TransitionsFit

-----------------------------------------------------------------------------
(* When power is lost, the current generation is on stable storage or being *)
(* put there.                                                               *)
LEMMA LossIsAnchored ==
  ASSUME SwitchesSettle \/ PowerApart, TypeOK, FInv, PowerLoss
  PROVE  Anchored
<1>1. "power" \in faults.kinds /\ faults.kinds \in FaultSets
  BY DEF PowerLoss, Fault, FInv, FaultsHeld
<1>2. CASE SwitchesSettle
  BY <1>1, <1>2 DEF PowerLoss, SwitchesSettle
<1>3. CASE PowerApart
  <2>1. Apart
    BY <1>1, <1>3 DEF PowerApart, Apart
  <2> QED
    BY <2>1 DEF FInv, PowerSafe, Around, Anchored
<1> QED
  BY <1>2, <1>3

(* The whole invariant is inductive, and no step of it reports corruption.  *)
StoreInv ==
  TypeOK /\ FInv /\ DurableFits /\ SyncedBehind /\ AckInv /\ AckedHeld /\ ~corrupt

LEMMA StoreInit ==
  ASSUME Init
  PROVE  StoreInv
<1>1. TypeOK /\ FInv /\ ~corrupt /\ Visible = NoRecords
  BY InitKeeps
<1>2. DurableFits
  BY DEF Init, DurableFits, Slot
<1>3. SyncedBehind
  <2>1. Around(synced, 0)
    BY DEF Init, Around
  <2>2. Generation \in Nat /\ step = "idle"
    BY <1>1, Slots DEF Init
  <2> QED
    BY <2>1, <2>2 DEF SyncedBehind
<1>4. AckInv /\ AckedHeld
  BY DEF Init, AckInv, AckedSurvives, AckedHeld, Holds
<1> QED
  BY <1>1, <1>2, <1>3, <1>4 DEF StoreInv

LEMMA StoreStep ==
  ASSUME SwitchesSettle \/ PowerApart, StoreInv, [Next]_vars
  PROVE  StoreInv'
<1>1. ASSUME NEW h \in Handle, HandleStep(h)
      PROVE  StoreInv'
  <2>1. Keeps
    BY <1>1, StepKeeps DEF StoreInv
  <2>2. AckInv'
    BY <2>1, AckStep DEF StoreInv, Keeps
  <2> QED
    BY <1>1, <2>1, <2>2, DurableStep DEF StoreInv, Keeps
<1>2. CASE PowerLoss
  <2>1. Anchored
    BY <1>2, LossIsAnchored DEF StoreInv
  <2> QED
    BY <1>2, <2>1, PowerLossKeeps, PowerLossHolds DEF StoreInv
<1>3. CASE UNCHANGED vars
  <2>1. Keeps
    BY <1>3, StutterKeeps DEF StoreInv
  <2>2. AckInv'
    BY <2>1, AckStep DEF StoreInv, Keeps
  <2>3. UNCHANGED <<log, durable, control, synced, acked, step>>
    BY <1>3 DEF vars, disk, holder, history
  <2> QED
    BY <2>1, <2>2, <2>3, HomeStays, Untouched DEF StoreInv, Keeps
<1> QED
  BY <1>1, <1>2, <1>3 DEF Next, HandleStep

LEMMA StoreInvariant ==
  ASSUME SwitchesSettle \/ PowerApart
  PROVE  Spec => []StoreInv
<1>1. Init => StoreInv
  BY StoreInit
<1>2. StoreInv /\ [Next]_vars => StoreInv'
  BY StoreStep
<1> QED
  BY <1>1, <1>2, PTL DEF Spec

(* The store's state stays within its types through any mixture of faults   *)
(* but, by SwitchesSettle, the power loss that takes back an unsynced       *)
(* switch of logs (append_control).                                         *)
THEOREM StoreTyped ==
  ASSUME SwitchesSettle
  PROVE  Spec => []TypeOK
<1>1. StoreInv => TypeOK
  BY DEF StoreInv
<1> QED
  BY <1>1, StoreInvariant, PTL

(* No call ever finds the files of the store corrupt: whatever tears, fails *)
(* to sync, dies or loses power, in whatever order, the logs hold frames    *)
(* refresh accepts and the control file names one of them.  Not covered, by *)
(* SwitchesSettle: a power loss that takes back a control record which its  *)
(* writer did not live to sync and which the store has been following.      *)
THEOREM StoreNeverCorrupt ==
  ASSUME SwitchesSettle
  PROVE  Spec => []NeverCorrupt
<1>1. StoreInv => NeverCorrupt
  BY DEF StoreInv, NeverCorrupt
<1> QED
  BY <1>1, StoreInvariant, PTL

(* A cache that passes for current is the replay of what it has read of the *)
(* active log (refresh), whichever handles compacted in between and         *)
(* whatever failed, the same power loss excepted.                           *)
THEOREM StoreCacheIsPrefix ==
  ASSUME SwitchesSettle
  PROVE  Spec => []CacheIsPrefix
<1>1. StoreInv => CacheIsPrefix
  BY DEF StoreInv, FInv, CachesFit, CacheIsPrefix, Current, After
<1> QED
  BY <1>1, StoreInvariant, PTL

(* What a call reported as persisted is still visible, or a later state of  *)
(* the same transaction is, whatever mixture of torn writes, failed syncs,  *)
(* deaths and power losses comes after, under any handle.  Not covered, by  *)
(* SwitchesSettle: the power loss that takes back an unsynced switch.       *)
THEOREM StoreAckedSurvives ==
  ASSUME SwitchesSettle
  PROVE  Spec => []AckedSurvives
<1>1. StoreInv => AckedSurvives
  BY DEF StoreInv, AckInv
<1> QED
  BY <1>1, StoreInvariant, PTL

(* reserve hands out at most one CommitReservation per transaction, through *)
(* the same mixture of faults and with the same exception: what a caller    *)
(* was told of a reservation is on stable storage before it is told.        *)
THEOREM StoreConsumedOnce ==
  ASSUME SwitchesSettle
  PROVE  Spec => []ConsumedOnce
<1>1. Init => OnceInv
  BY DEF Init, OnceInv
<1>2. StoreInv /\ OnceInv /\ [Next]_vars => OnceInv'
  <2> SUFFICES ASSUME StoreInv, OnceInv, [Next]_vars PROVE OnceInv'
    OBVIOUS
  <2>1. UNCHANGED <<acked, issued>> \/ (step # "idle" /\ Acknowledge)
    <3>1. ASSUME NEW h \in Handle, HandleStep(h)
          PROVE  UNCHANGED <<acked, issued>> \/ (step # "idle" /\ Acknowledge)
      BY <3>1, StepKeeps DEF StoreInv, Keeps, Outcome
    <3>2. PowerLoss \/ UNCHANGED vars => UNCHANGED <<acked, issued>>
      BY DEF PowerLoss, vars, history
    <3> QED
      BY <3>1, <3>2 DEF Next, HandleStep
  <2> QED
    BY <2>1, OnceStep DEF StoreInv
<1>3. OnceInv => ConsumedOnce
  BY DEF OnceInv, ConsumedOnce
<1> QED
  BY <1>1, <1>2, <1>3, StoreInvariant, PTL DEF Spec

(* No log outgrows its ceiling, and a record once in the store can always   *)
(* go on: compaction (append) makes room for every transition that adds no  *)
(* grant.  The same power loss is excepted.                                 *)
THEOREM StoreTransitionsFit ==
  ASSUME SwitchesSettle
  PROVE  Spec => []TransitionsFit
<1>1. Init => RoomInv
  BY RoomInit
<1>2. StoreInv /\ RoomInv /\ [Next]_vars => RoomInv'
  <2> SUFFICES ASSUME StoreInv, RoomInv, [Next]_vars PROVE RoomInv'
    OBVIOUS
  <2>1. ASSUME NEW h \in Handle, HandleStep(h)
        PROVE  RoomInv'
    BY <2>1, RoomStep DEF StoreInv
  <2>2. PowerLoss => RoomInv'
    BY LossIsAnchored, RoomAfterPowerLoss DEF StoreInv
  <2> QED
    BY <2>1, <2>2, RoomStutters DEF Next, HandleStep
<1>3. StoreInv /\ RoomInv => TransitionsFit
  BY RoomSuffices DEF StoreInv
<1> QED
  BY <1>1, <1>2, <1>3, StoreInvariant, PTL DEF Spec

(* Where processes do not die and syncs do not fail, whatever others can    *)
(* have read is synced by the time the lock is free again.                  *)
LEMMA ApartIsSealed ==
  ASSUME FInv, Apart
  PROVE  Sealed
BY DEF FInv, PowerSafe, Sealed

LEMMA StepImplements ==
  ASSUME SwitchesSettle \/ PowerApart, StoreInv, [Next]_vars, ~(PowerLoss /\ ~Sealed)
  PROVE  [Abstract!Next]_(Abstract!vars)
<1> SUFFICES Outcome
  BY OutcomeIsStep DEF StoreInv
<1>1. ASSUME NEW h \in Handle, HandleStep(h)
      PROVE  Outcome
  BY <1>1, StepKeeps DEF StoreInv, Keeps
<1>2. CASE PowerLoss
  BY <1>2, LossIsAnchored, PowerLossKeeps DEF StoreInv
<1>3. CASE UNCHANGED vars
  BY <1>3, StutterKeeps DEF StoreInv, Keeps
<1> QED
  BY <1>1, <1>2, <1>3 DEF Next, HandleStep

LEMMA InitImplements ==
  ASSUME Init
  PROVE  Abstract!Init
<1>1. \A t \in Txn : Visible[t].state = "Absent" /\ Visible[t].approval = NoGrant
  BY InitKeeps DEF NoRecords, Absent
<1> QED
  BY <1>1 DEF Init, Abstract!Init

(* The durable store implements TransactionStore through tears, crashes,    *)
(* failed syncs, compactions and power losses in any order: what callers    *)
(* can see changes by that specification's operations alone, but for a      *)
(* power loss over a frame that was read by others and never synced.  The   *)
(* power loss that takes back an unsynced switch is excepted once more.     *)
THEOREM StoreImplements ==
  ASSUME SwitchesSettle
  PROVE  Spec => Implements
<1>1. Init => Abstract!Init
  BY InitImplements
<1>2. StoreInv /\ [Next]_vars =>
       [\/ UNCHANGED Abstract!vars
        \/ Abstract!Next
        \/ PowerLoss /\ ~Sealed]_vars
  BY StepImplements
<1> QED
  BY <1>1, <1>2, StoreInvariant, PTL DEF Spec, Implements

(* Where deaths and failing syncs do not come with power losses, no frame   *)
(* is read before it is synced, and the store implements TransactionStore   *)
(* without exception: at each step of append_record, compact and            *)
(* append_control, through tears and deaths or through tears and power      *)
(* losses.                                                                  *)
THEOREM StoreRefines ==
  ASSUME PowerApart
  PROVE  Spec => Abstract!Spec
<1>1. Init => Abstract!Init
  BY InitImplements
<1>2. StoreInv /\ [Next]_vars => [Abstract!Next]_(Abstract!vars)
  <2>1. StoreInv /\ PowerLoss => Sealed
    BY ApartIsSealed DEF PowerLoss, Fault, StoreInv, FInv, FaultsHeld, PowerApart, Apart
  <2> QED
    BY <2>1, StepImplements
<1> QED
  BY <1>1, <1>2, StoreInvariant, PTL DEF Spec, Abstract!Spec

=============================================================================
