----------------------------- MODULE WorkersProofs -----------------------------
(***************************************************************************)
(* For any number of requests and worker processes and all limits: a       *)
(* parked worker is fresh and nobody's, and neither side of a session ever *)
(* takes the other for a violator.                                         *)
(*                                                                         *)
(* IInv says of every worker what may be on its way in either direction    *)
(* (ChildOK), of every request what it holds by where it stands            *)
(* (RequestOK), of the two together how far their conversation has got     *)
(* (ShellTalk, MontyTalk), and that a worker is held once or parked once   *)
(* (Apart).  Stream is all a child has sent that nobody has taken: where   *)
(* in it the reader thread stands makes no difference.                     *)
(***************************************************************************)
EXTENDS Workers, SequenceTheorems, Induction

-----------------------------------------------------------------------------
(* What is on its way.                                                     *)

Words ==
  {"Shutdown", "Run", "Reply", "Hello", "Call", "Done", "Ready", "Configure", "Feed", "Resume",
   "Reset", "Ok", "Error", "Print", "Tool", "Suspend", "Complete", "Malformed", "Eof"}

Guests ==
  {"dead", "stuck", "born", "idle", "running", "calling", "reset", "empty", "configured",
   "suspended", "finished"}

Frames == [is : Words, session : Nat, sequence : Nat]

Child ==
  [kind : Kinds \cup {"none"}, guest : Guests, session : Nat, sequence : Nat, events : Nat,
   toGuest : Seq(Frames), toHost : Seq(Frames), channel : Seq(Frames), listening : BOOLEAN,
   reading : BOOLEAN, executions : Nat, clean : BOOLEAN, offended : BOOLEAN]

Stream(c) == c.channel \o c.toHost

Quiet(c, guest) == c.guest = guest /\ c.toGuest = <<>> /\ Stream(c) = <<>>

Fresh(c, guest) == c.guest = "dead" \/ Quiet(c, guest)

One(c, what) == Len(Stream(c)) = 1 /\ Stream(c)[1].is \in what

Chatter(s, last) ==
  /\ Len(s) > 0 /\ s[Len(s)].is \in last
  /\ \A i \in 1..(Len(s) - 1) : s[i].is = "Print"

(* A worker by itself.                                                      *)
Alive(c) == c.guest \notin {"dead", "stuck"}

Wired(c) ==
  Alive(c) => c.reading /\ c.listening /\ \A i \in DOMAIN Stream(c) : Stream(c)[i].is # "Malformed"

MontyHears(c) ==
  \/ c.toGuest = <<>>
  \/ /\ Len(c.toGuest) = 1
     /\ <<c.guest, c.toGuest[1].is>> \in
          {<<"empty", "Configure">>, <<"configured", "Feed">>, <<"suspended", "Resume">>,
           <<"suspended", "Reset">>, <<"finished", "Reset">>}

BashHears(c, n) ==
  \/ c.toGuest = <<>>
  \/ /\ Len(c.toGuest) = 1
     /\ LET f == c.toGuest[1] IN
          \/ c.guest = "idle" /\ f.is = "Shutdown"
          \/ c.guest = "idle" /\ f.is = "Run" /\ f.sequence = 0 /\ c.session < f.session
                              /\ f.session < n
          \/ c.guest = "calling" /\ f = Frame("Reply", c.session, c.sequence)

ChildOK(c, n) ==
  /\ c \in Child /\ Len(c.channel) <= Room
  /\ ~c.offended /\ Wired(c)
  /\ c.kind = "none" => c.guest = "dead"
  /\ c.kind = "monty" =>
       /\ c.guest \in {"empty", "configured", "running", "suspended", "finished", "stuck", "dead"}
       /\ MontyHears(c)
  /\ c.kind = "bash" =>
       /\ c.guest \in {"born", "idle", "running", "calling", "reset", "stuck", "dead"}
       /\ BashHears(c, n) /\ c.session < n

-----------------------------------------------------------------------------
(* A Bash worker and the request it runs, session s and sequence q.          *)
Awaited(f, s, q) ==
  \/ f = <<>> \/ f[1].is \in {"Eof", "Malformed"} \/ f[1] = Frame("Call", s, q)
  \/ /\ f[1] = Frame("Done", s, q)
     /\ Len(f) = 1 \/ f[2] = Frame("Ready", s, q) \/ f[2].is \in {"Eof", "Malformed"}

Readied(f, s, q) == f = <<>> \/ f[1].is \in {"Eof", "Malformed"} \/ f[1] = Frame("Ready", s, q)

AwaitTalk(c, s, q) ==
  LET f == Stream(c)
      in == c.session = s /\ c.sequence = q /\ c.toGuest = <<>> IN
  \/ c.guest = "dead" /\ Awaited(f, s, q)
  \/ c.guest = "idle" /\ c.toGuest = <<Frame("Run", s, 0)>> /\ c.session < s /\ f = <<>> /\ q = 1
  \/ c.guest = "running" /\ in /\ f = <<>>
  \/ c.guest = "calling" /\ in /\ f = <<Frame("Call", s, q)>>
  \/ /\ c.guest = "calling" /\ c.session = s /\ c.sequence + 1 = q
     /\ c.toGuest = <<Frame("Reply", s, c.sequence)>> /\ f = <<>>
  \/ c.guest = "reset" /\ in /\ f = <<Frame("Done", s, q)>>
  \/ /\ c.guest = "idle" /\ c.toGuest = <<>>
     /\ f = <<Frame("Done", s, q), Frame("Ready", s, q)>>
  \/ c.guest = "stuck" /\ c.toGuest = <<>> /\ f = <<Signal("Malformed")>>

ReadyTalk(c, s, q) ==
  \/ c.guest = "dead" /\ Readied(Stream(c), s, q)
  \/ c.guest = "reset" /\ c.session = s /\ c.sequence = q /\ c.toGuest = <<>> /\ Stream(c) = <<>>
  \/ c.guest = "idle" /\ c.toGuest = <<>> /\ Stream(c) = <<Frame("Ready", s, q)>>

ShellTalk(rq, c) ==
  /\ rq.shell = "hello" =>
       /\ ~c.clean
       /\ \/ c.guest = "dead" \/ Quiet(c, "born")
          \/ c.guest = "idle" /\ c.toGuest = <<>> /\ One(c, {"Hello"})
  /\ rq.shell = "run" => Fresh(c, "idle")
  /\ rq.shell = "await" => ~c.clean /\ AwaitTalk(c, rq.session, rq.sequence)
  /\ rq.shell = "ready" => ~c.clean /\ ReadyTalk(c, rq.session, rq.sequence)
  /\ rq.shell \in {"release", "retire"} =>
       (c.clean \/ rq.keep => Fresh(c, "idle"))

(* A Monty worker and the request it runs.                                  *)
TurnTalk(c) ==
  LET f == Stream(c) IN
  \/ c.guest = "dead" /\ \A i \in DOMAIN f : f[i].is # "Ok"
  \/ c.guest = "configured" /\ Len(c.toGuest) = 1 /\ c.toGuest[1].is = "Feed" /\ f = <<>>
  \/ c.guest = "suspended" /\ Len(c.toGuest) = 1 /\ c.toGuest[1].is = "Resume" /\ f = <<>>
  \/ c.guest = "running" /\ c.toGuest = <<>> /\ \A i \in DOMAIN f : f[i].is = "Print"
  \/ c.guest = "suspended" /\ c.toGuest = <<>> /\ Chatter(f, {"Call", "Tool", "Suspend"})
  \/ c.guest = "finished" /\ c.toGuest = <<>> /\ Chatter(f, {"Complete", "Error"})
  \/ c.guest = "stuck" /\ c.toGuest = <<>> /\ Chatter(f, {"Malformed"})

MontyTalk(rq, c) ==
  /\ rq.stage = "configure" => Fresh(c, "empty")
  /\ rq.stage = "configuring" =>
       \/ c.guest = "dead" /\ (Stream(c) = <<>> \/ Stream(c)[1].is \in {"Ok", "Eof"})
       \/ /\ c.guest = "empty" /\ Len(c.toGuest) = 1 /\ c.toGuest[1].is = "Configure"
          /\ Stream(c) = <<>>
       \/ c.guest = "configured" /\ c.toGuest = <<>> /\ One(c, {"Ok"})
  /\ rq.stage = "turn" => TurnTalk(c)
  /\ rq.stage = "tool" =>
       /\ c.channel # <<>>
       /\ c.guest = "dead" \/ (c.guest = "suspended" /\ c.toGuest = <<>> /\ One(c, {"Tool"}))
  /\ rq.stage = "settle" => c.guest = "dead" \/ \E g \in {"suspended", "finished"} : Quiet(c, g)
  /\ rq.stage = "resetting" =>
       \/ c.guest = "dead"
       \/ /\ c.guest \in {"suspended", "finished"} /\ Len(c.toGuest) = 1
          /\ c.toGuest[1].is = "Reset" /\ Stream(c) = <<>>
       \/ c.guest = "empty" /\ c.toGuest = <<>> /\ One(c, {"Ok"})

-----------------------------------------------------------------------------
(* What a request holds, by where it stands.                                *)
WithMonty == {"configure", "configuring", "turn", "tool", "settle", "resetting", "drop", "join"}
WithBash == {"hello", "run", "await", "ready", "retire", "kill", "join"}
Results == {"none", "ok", "raised", "failed", "protocol"}

Requests ==
  [kind : {"bash", "monty", "plain"}, stop : {"no", "late", "cancelled"},
   stage : {"start", "shell", "end"} \cup WithMonty, result : Results,
   monty : Worker \cup {NoWorker},
   shell : {"none", "called", "queue", "release", "returned"} \cup WithBash, answer : Results,
   bash : Worker \cup {NoWorker}, leased : BOOLEAN, keep : BOOLEAN,
   session : Nat, sequence : Nat, refused : BOOLEAN]

RequestOK(rq) ==
  /\ rq \in Requests
  /\ rq.stage \in WithMonty <=> rq.monty # NoWorker
  /\ rq.shell \in WithBash => rq.bash # NoWorker
  /\ rq.bash # NoWorker => rq.shell \in WithBash \cup {"release"}
  /\ rq.shell # "none" => rq.stage \in {"shell", "tool"}
  /\ rq.keep => rq.shell = "release" /\ rq.bash # NoWorker
  /\ "protocol" \notin {rq.answer, rq.result}

Rest == [bash |-> "idle", monty |-> "empty"]

Hold(rq, kind) == IF kind = "bash" THEN rq.bash ELSE rq.monty

(* Everything has one owner.                                                *)
Apart(W, Q, I) ==
  \A kind \in Kinds :
    /\ \A i, j \in DOMAIN I[kind] : i # j => I[kind][i] # I[kind][j]
    /\ \A i \in DOMAIN I[kind] : \A r \in Request : Hold(Q[r], kind) # I[kind][i]
    /\ \A r, s \in Request : r # s /\ Hold(Q[r], kind) # NoWorker =>
                               Hold(Q[r], kind) # Hold(Q[s], kind)
    /\ \A i \in DOMAIN I[kind] :
         W[I[kind][i]].kind = kind /\ Fresh(W[I[kind][i]], Rest[kind])
    /\ \A r \in Request : Hold(Q[r], kind) # NoWorker => W[Hold(Q[r], kind)].kind = kind

Talks(rq, W) ==
  /\ rq.bash # NoWorker => ShellTalk(rq, W[rq.bash])
  /\ rq.monty # NoWorker => MontyTalk(rq, W[rq.monty])

Sane(W, Q, I, n) ==
  /\ n \in Nat \ {0} /\ I \in [Kinds -> Seq(Worker)]
  /\ W \in [Worker -> Child] /\ Q \in [Request -> Requests]
  /\ \A w \in Worker : ChildOK(W[w], n)
  /\ \A r \in Request : RequestOK(Q[r]) /\ Talks(Q[r], W)
  /\ Apart(W, Q, I)

IInv == Sane(worker, request, idle, nextSession)

-----------------------------------------------------------------------------
(* Frames on their way.                                                     *)

(* A sequence moved from one pipe to the other in parts stays the same.      *)
LEMMA MovedOn ==
  ASSUME NEW X, NEW u \in Seq(X), NEW v \in Seq(X), NEW n \in 0..Len(v)
  PROVE  /\ SubSeq(v, n + 1, Len(v)) \in Seq(X)
         /\ Len(u \o SubSeq(v, 1, n)) = Len(u) + n
         /\ u \o SubSeq(v, 1, n) \in Seq(X)
         /\ (u \o SubSeq(v, 1, n)) \o SubSeq(v, n + 1, Len(v)) = u \o v
<1>0. /\ Len(v) \in Nat /\ n \in Int /\ 1 \in 1..(Len(v) + 1) /\ n \in 0..Len(v)
      /\ Len(v) \in n..Len(v) /\ Len(u) \in Nat /\ 0 = 1 - 1 /\ n + 1 \in Int /\ Len(v) \in Int
      /\ \A i \in 1..Len(v) : v[i] \in X
  OBVIOUS
<1>1. SubSeq(v, 1, n) \in Seq(X) /\ Len(SubSeq(v, 1, n)) = n
  <2>1. \A i \in 1..n : v[i] \in X
    BY <1>0
  <2>2. /\ SubSeq(v, 1, n) \in Seq(X)
        /\ Len(SubSeq(v, 1, n)) = IF 1 <= n THEN n - 1 + 1 ELSE 0
    BY <1>0, <2>1, SubSeqProperties
  <2> QED
    BY <1>0, <2>2
<1>2. SubSeq(v, n + 1, Len(v)) \in Seq(X)
  <2>1. \A i \in (n + 1)..Len(v) : v[i] \in X
    BY <1>0
  <2> QED
    BY <1>0, <2>1, SubSeqProperties
<1>3. SubSeq(v, 1, n) \o SubSeq(v, n + 1, Len(v)) = SubSeq(v, 1, Len(v))
  BY <1>0, ConcatAdjacentSubSeq
<1>4. PICK a \in Seq(X) : a = SubSeq(v, 1, n)
  BY <1>1
<1>5. PICK b \in Seq(X) : b = SubSeq(v, n + 1, Len(v))
  BY <1>2
<1>6. (u \o a) \o b = u \o (a \o b)
  BY ConcatAssociative, SMTT(60)
<1>7. SubSeq(v, 1, Len(v)) = v
  BY SubSeqFull
<1>8. u \o a \in Seq(X) /\ Len(u \o a) = Len(u) + Len(a)
  BY ConcatProperties
<1> QED
  BY <1>1, <1>2, <1>3, <1>4, <1>5, <1>6, <1>7, <1>8

(* The tail of a sequence and another one.                                  *)
LEMMA TailOfConcat ==
  ASSUME NEW X, NEW u \in Seq(X), NEW v \in Seq(X), u # <<>>
  PROVE  /\ Tail(u) \in Seq(X) /\ Len(Tail(u)) = Len(u) - 1
         /\ Tail(u) \o v = Tail(u \o v) /\ u \o v # <<>> /\ (u \o v)[1] = u[1] /\ Head(u) = u[1]
<1>1. PICK x \in Seq(X) : x = Tail(u) /\ Len(x) = Len(u) - 1 /\ \A i \in 1..Len(x) : x[i] = u[i + 1]
  BY HeadTailProperties
<1>a. /\ u \o v \in Seq(X) /\ Len(u \o v) = Len(u) + Len(v)
      /\ \A i \in 1..(Len(u) + Len(v)) : (u \o v)[i] = IF i <= Len(u) THEN u[i] ELSE v[i - Len(u)]
  BY ConcatProperties
<1>b. PICK y : y = u \o v
  OBVIOUS
<1>2. /\ y \in Seq(X) /\ y = u \o v /\ Len(y) = Len(u) + Len(v)
      /\ \A i \in 1..(Len(u) + Len(v)) : y[i] = IF i <= Len(u) THEN u[i] ELSE v[i - Len(u)]
  BY <1>a, <1>b
<1>3. Len(u) \in Nat /\ Len(u) > 0 /\ Len(v) \in Nat /\ Head(u) = u[1]
  OBVIOUS
<1>4. y # <<>> /\ y[1] = u[1]
  BY <1>2, <1>3
<1>c. PICK z : z = Tail(y)
  OBVIOUS
<1>5. z = Tail(y) /\ z \in Seq(X) /\ Len(z) = Len(y) - 1 /\ \A i \in 1..Len(z) : z[i] = y[i + 1]
  BY <1>2, <1>4, <1>c, HeadTailProperties
<1>d. /\ x \o v \in Seq(X) /\ Len(x \o v) = Len(x) + Len(v)
      /\ \A i \in 1..(Len(x) + Len(v)) : (x \o v)[i] = IF i <= Len(x) THEN x[i] ELSE v[i - Len(x)]
  BY ConcatProperties
<1>e. PICK t : t = x \o v
  OBVIOUS
<1>6. /\ t \in Seq(X) /\ t = x \o v /\ Len(t) = Len(x) + Len(v)
      /\ \A i \in 1..(Len(x) + Len(v)) : t[i] = IF i <= Len(x) THEN x[i] ELSE v[i - Len(x)]
  BY <1>d, <1>e
<1>7. Len(t) = Len(z)
  BY <1>1, <1>2, <1>3, <1>5, <1>6
<1>8. ASSUME NEW i \in 1..Len(t) PROVE t[i] = z[i]
  <2>1. i \in 1..Len(z) /\ i + 1 \in 1..(Len(u) + Len(v)) /\ i \in 1..(Len(x) + Len(v))
    BY <1>1, <1>2, <1>3, <1>5, <1>6, <1>7
  <2>2. z[i] = IF i + 1 <= Len(u) THEN u[i + 1] ELSE v[i + 1 - Len(u)]
    BY <1>2, <1>5, <2>1
  <2>3. t[i] = IF i <= Len(x) THEN x[i] ELSE v[i - Len(x)]
    BY <1>6, <2>1
  <2>4. CASE i <= Len(x)
    BY <1>1, <1>3, <2>1, <2>2, <2>3, <2>4
  <2>5. CASE ~(i <= Len(x))
    BY <1>1, <1>3, <2>1, <2>2, <2>3, <2>5
  <2> QED
    BY <2>4, <2>5
<1>9. t = z
  BY <1>5, <1>6, <1>7, <1>8, SeqEqual
<1> QED
  BY <1>1, <1>2, <1>3, <1>4, <1>5, <1>6, <1>9

(* What every child's pipes and channel hold are frames.                    *)
LEMMA StreamIs ==
  ASSUME NEW c \in Child
  PROVE  /\ Stream(c) \in Seq(Frames) /\ Len(Stream(c)) = Len(c.channel) + Len(c.toHost)
         /\ c.channel \in Seq(Frames) /\ c.toHost \in Seq(Frames) /\ c.toGuest \in Seq(Frames)
         /\ Stream(c) = <<>> <=> c.channel = <<>> /\ c.toHost = <<>>
<1>1. c.channel \in Seq(Frames) /\ c.toHost \in Seq(Frames) /\ c.toGuest \in Seq(Frames)
  BY DEF Child
<1>2. PICK u \in Seq(Frames) : u = c.channel
  BY <1>1
<1>3. PICK v \in Seq(Frames) : v = c.toHost
  BY <1>1
<1>4. u \o v \in Seq(Frames) /\ Len(u \o v) = Len(u) + Len(v)
  BY ConcatProperties
<1>5. u \o v = <<>> <=> u = <<>> /\ v = <<>>
  BY ConcatEqualIffEmpty
<1> QED
  BY <1>1, <1>2, <1>3, <1>4, <1>5 DEF Stream

(* The host takes the first frame there is.                                 *)
LEMMA TakenIs ==
  ASSUME NEW c \in Child, c.channel # <<>>, NEW d, d = [c EXCEPT !.channel = Tail(@)]
  PROVE  /\ d \in Child /\ d = [c EXCEPT !.channel = d.channel]
         /\ Stream(d) = Tail(Stream(c))
         /\ Len(d.channel) <= Len(c.channel)
         /\ Stream(c) # <<>> /\ Head(c.channel) = Stream(c)[1]
<1>1. PICK u \in Seq(Frames) : u = c.channel /\ u # <<>>
  BY DEF Child
<1>2. PICK v \in Seq(Frames) : v = c.toHost
  BY DEF Child
<1>3. /\ Tail(u) \in Seq(Frames) /\ Len(Tail(u)) = Len(u) - 1
      /\ Tail(u) \o v = Tail(u \o v) /\ u \o v # <<>> /\ (u \o v)[1] = u[1] /\ Head(u) = u[1]
  BY <1>1, TailOfConcat, SMTT(60)
<1>4. d \in Child /\ d.channel = Tail(u) /\ d.toHost = v /\ d = [c EXCEPT !.channel = d.channel]
  BY <1>1, <1>2, <1>3 DEF Child
<1>5. Len(Tail(u)) <= Len(u)
  BY <1>3
<1> QED
  BY <1>1, <1>2, <1>3, <1>4, <1>5 DEF Stream

(* The guest writes one more.                                               *)
LEMMA SaysIs ==
  ASSUME NEW c \in Child, NEW f \in Frames
  PROVE  /\ Says(c, f) \in Child /\ Says(c, f) = [c EXCEPT !.toHost = Append(c.toHost, f)]
         /\ Stream(Says(c, f)) = Append(Stream(c), f)
<1>1. PICK u \in Seq(Frames) : u = c.channel
  BY DEF Child
<1>2. PICK v \in Seq(Frames) : v = c.toHost
  BY DEF Child
<1>a. <<f>> \in Seq(Frames)
  OBVIOUS
<1>3. PICK w \in Seq(Frames) : w = <<f>>
  BY <1>a
<1>4. Append(v, f) = v \o w /\ Append(v, f) \in Seq(Frames)
  BY <1>3, AppendIsConcat
<1>5. PICK x \in Seq(Frames) : x = u \o v
  BY ConcatProperties
<1>6. Append(x, f) = x \o w
  BY <1>3, AppendIsConcat
<1>7. (u \o v) \o w = u \o (v \o w)
  BY ConcatAssociative
<1>8. /\ Says(c, f) \in Child /\ Says(c, f).channel = u /\ Says(c, f).toHost = Append(v, f)
      /\ Says(c, f) = [c EXCEPT !.toHost = Append(c.toHost, f)]
  BY <1>1, <1>2, <1>4 DEF Says, Child
<1> QED
  BY <1>1, <1>2, <1>4, <1>5, <1>6, <1>7, <1>8 DEF Stream

-----------------------------------------------------------------------------
(* The reader thread.                                                       *)

(* Min of two numbers.                                                      *)
LEMMA MinIs ==
  ASSUME NEW m \in Nat, NEW n \in Nat
  PROVE  Min({m, n}) \in Nat /\ Min({m, n}) <= m /\ Min({m, n}) <= n
<1>1. \E x \in {m, n} : \A y \in {m, n} : x <= y
  OBVIOUS
<1>2. Min({m, n}) \in {m, n} /\ \A y \in {m, n} : Min({m, n}) <= y
  BY <1>1 DEF Min
<1> QED
  BY <1>2

Eof == Signal("Eof")

(* Every frame is one.                                                      *)
LEMMA FrameIs ==
  ASSUME NEW is \in Words, NEW s \in Nat, NEW q \in Nat
  PROVE  /\ Frame(is, s, q) \in Frames /\ Signal(is) \in Frames
         /\ Frame(is, s, q).is = is /\ Signal(is).is = is
  BY DEF Signal, Frame, Frames

(* A signal is a frame.                                                     *)
LEMMA SignalIs ==
  ASSUME NEW is \in Words
  PROVE  Signal(is) \in Frames /\ Signal(is).is = is
  BY DEF Signal, Frame, Frames

(* What the reader thread does to a child: frames move on, and the end of a *)
(* dead process's output is told once.                                      *)
Grown(c, p) ==
  /\ p \in Child /\ Len(p.channel) <= Room
  /\ p = [c EXCEPT !.channel = p.channel, !.toHost = p.toHost, !.reading = p.reading]
  /\ Stream(p) = Stream(c) \/ (c.guest = "dead" /\ Stream(p) = Append(Stream(c), Eof))
  /\ c.channel # <<>> => p.channel # <<>>
  /\ Alive(c) /\ Wired(c) => p.reading

(* The reader thread never drops, reorders or invents a frame, blocks when  *)
(* the channel is full, and goes on as long as the process lives.           *)
LEMMA Pumps ==
  ASSUME NEW c \in Child, Len(c.channel) <= Room
  PROVE  Grown(c, Pumped(c))
<1> DEFINE n == Min({Room - Len(c.channel), Len(c.toHost)})
           rest == SubSeq(c.toHost, n + 1, Len(c.toHost))
           had == c.channel \o SubSeq(c.toHost, 1, n)
           broken == \E i \in DOMAIN had : had[i].is = "Malformed"
           ended == ~broken /\ c.guest = "dead" /\ rest = <<>> /\ Len(had) < Room
           ch == IF ended THEN Append(had, Eof) ELSE had
<1>1. /\ c.channel \in Seq(Frames) /\ c.toHost \in Seq(Frames) /\ Room \in Nat
      /\ Len(c.channel) \in Nat /\ Len(c.toHost) \in Nat /\ Room - Len(c.channel) \in Nat
      /\ c.reading \in BOOLEAN
  BY WorkerAssumption DEF Child
<1>2. n \in Nat /\ n <= Room - Len(c.channel) /\ n <= Len(c.toHost) /\ n \in 0..Len(c.toHost)
  BY <1>1, MinIs, SMTT(60)
<1> HIDE DEF n
<1>3. /\ rest \in Seq(Frames) /\ had \in Seq(Frames) /\ Len(had) = Len(c.channel) + n
      /\ had \o rest = Stream(c)
  <2>1. PICK u \in Seq(Frames) : u = c.channel
    BY <1>1
  <2>2. PICK v \in Seq(Frames) : v = c.toHost
    BY <1>1
  <2>3. n \in 0..Len(v)
    BY <1>2, <2>2
  <2>4. PICK k \in 0..Len(v) : k = n
    BY <2>3
  <2>5. /\ SubSeq(v, k + 1, Len(v)) \in Seq(Frames)
        /\ Len(u \o SubSeq(v, 1, k)) = Len(u) + k
        /\ u \o SubSeq(v, 1, k) \in Seq(Frames)
        /\ (u \o SubSeq(v, 1, k)) \o SubSeq(v, k + 1, Len(v)) = u \o v
    <3>1. \A U \in Seq(Frames), V \in Seq(Frames) : \A j \in 0..Len(V) :
            /\ SubSeq(V, j + 1, Len(V)) \in Seq(Frames)
            /\ Len(U \o SubSeq(V, 1, j)) = Len(U) + j
            /\ U \o SubSeq(V, 1, j) \in Seq(Frames)
            /\ (U \o SubSeq(V, 1, j)) \o SubSeq(V, j + 1, Len(V)) = U \o V
      BY ONLY MovedOn, Zenon
    <3> QED
      BY <3>1, Zenon
  <2> QED
    BY <2>1, <2>2, <2>4, <2>5 DEF Stream
<1> HIDE DEF rest, had
<1>4. Len(had) <= Room /\ (c.channel # <<>> => had # <<>>)
  <2>1. Len(had) <= Room
    BY <1>1, <1>2, <1>3
  <2>2. c.channel # <<>> => Len(c.channel) > 0
    BY <1>1
  <2>3. PICK h \in Seq(Frames) : h = had
    BY <1>3
  <2>4. Len(h) > 0 => h # <<>>
    OBVIOUS
  <2>5. Len(c.channel) > 0 => Len(h) > 0
    BY <1>1, <1>2, <1>3, <2>3
  <2>6. c.channel # <<>> => had # <<>>
    BY <2>2, <2>3, <2>4, <2>5, Zenon
  <2> QED
    BY <2>1, <2>6, Zenon
<1>5. Eof \in Frames
  BY SignalIs DEF Eof, Words
<1>6. /\ ch \in Seq(Frames) /\ Len(ch) <= Room /\ (c.channel # <<>> => ch # <<>>)
      /\ ch \o rest = Stream(c) \/ (c.guest = "dead" /\ ch \o rest = Append(Stream(c), Eof))
  <2>1. CASE ~ended
    BY <1>3, <1>4, <2>1
  <2>2. CASE ended
    <3>1. had = Stream(c) /\ ch = Append(had, Eof) /\ ch \o rest = ch
      <4>1. had \o rest = had
        BY <1>3, <2>2, ConcatEmptySeq
      <4>2. Append(had, Eof) \in Seq(Frames)
        BY <1>3, <1>5
      <4> QED
        BY <1>3, <2>2, <4>1, <4>2, ConcatEmptySeq
    <3>2. ch \in Seq(Frames) /\ Len(ch) = Len(had) + 1 /\ ch # <<>>
      BY <1>3, <1>5, <2>2, AppendProperties
    <3> QED
      BY <1>1, <1>3, <2>2, <3>1, <3>2
  <2> QED
    BY <2>1, <2>2
<1>7. broken => \E i \in DOMAIN Stream(c) : Stream(c)[i].is = "Malformed"
  <2>1. PICK h \in Seq(Frames) : h = had
    BY <1>3
  <2>2. PICK s \in Seq(Frames) : s = rest
    BY <1>3
  <2>3. /\ h \o s \in Seq(Frames) /\ Len(h \o s) = Len(h) + Len(s)
        /\ \A i \in 1..(Len(h) + Len(s)) : (h \o s)[i] = IF i <= Len(h) THEN h[i] ELSE s[i - Len(h)]
    BY ConcatProperties
  <2>4. PICK x \in Seq(Frames) : x = h \o s
    BY <2>3
  <2>5. \A i \in 1..Len(h) : i \in 1..Len(x) /\ x[i] = h[i]
    BY <2>3, <2>4
  <2>6. DOMAIN h = 1..Len(h) /\ DOMAIN x = 1..Len(x)
    OBVIOUS
  <2> QED
    BY <1>3, <2>1, <2>2, <2>4, <2>5, <2>6
<1>8. CASE ~c.reading
  BY <1>8, ZenonT(60) DEF Pumped, Grown, Wired, Child
<1>9. CASE c.reading /\ ~c.listening
  <2>1. Pumped(c) = [c EXCEPT !.reading = c.guest # "dead" /\ c.toHost = <<>>]
    BY <1>9 DEF Pumped
  <2> QED
    BY <1>9, <2>1 DEF Grown, Wired, Child, Stream
<1>10. CASE c.reading /\ c.listening
  <2>1. Pumped(c) = [c EXCEPT !.toHost = rest, !.reading = ~broken /\ ~ended, !.channel = ch]
    BY <1>10 DEF Pumped, n, rest, had, Eof
  <2> HIDE DEF ch
  <2>2. /\ Pumped(c) \in Child /\ Pumped(c).channel = ch /\ Pumped(c).toHost = rest
        /\ Pumped(c) = [c EXCEPT !.channel = Pumped(c).channel, !.toHost = Pumped(c).toHost,
                                 !.reading = Pumped(c).reading]
        /\ Pumped(c).reading = (~broken /\ ~ended)
    BY <1>3, <1>6, <2>1, ZenonT(60) DEF Child
  <2>3. Alive(c) /\ Wired(c) => ~broken /\ ~ended
    BY <1>7 DEF Alive, Wired
  <2> QED
    BY <1>6, <2>2, <2>3 DEF Grown, Stream
<1> QED
  BY <1>1, <1>8, <1>9, <1>10

(* A sequence and one more.                                                 *)
LEMMA OneMore ==
  ASSUME NEW f \in Seq(Frames), NEW e \in Frames, NEW g, g = Append(f, e)
  PROVE  /\ g \in Seq(Frames) /\ Len(g) = Len(f) + 1 /\ Len(f) \in Nat /\ g[Len(g)] = e
         /\ \A i \in 1..Len(f) : g[i] = f[i]
         /\ DOMAIN f = 1..Len(f) /\ DOMAIN g = 1..Len(g)
         /\ f = <<>> => g[1] = e /\ Len(g) = 1
         /\ f # <<>> => g[1] = f[1] /\ Len(f) >= 1 /\ (Len(f) = 1 \/ Len(f) >= 2)
         /\ Len(f) = 1 => g[2] = e /\ g[1] = f[1]
         /\ Len(f) >= 2 => g[2] = f[2] /\ g[1] = f[1]
         /\ g # <<>>
<1>1. /\ g \in Seq(Frames) /\ Len(g) = Len(f) + 1 /\ Len(f) \in Nat
      /\ \A i \in 1..Len(f) : g[i] = f[i]
      /\ g[Len(f) + 1] = e
  OBVIOUS
<1>2. f = <<>> <=> Len(f) = 0
  OBVIOUS
<1>3. g = <<>> <=> Len(g) = 0
  BY <1>1
<1>4. DOMAIN f = 1..Len(f) /\ DOMAIN g = 1..Len(g)
  BY <1>1
<1>5. Len(f) >= 1 => g[1] = f[1]
  BY <1>1
<1>6. Len(f) >= 2 => g[2] = f[2]
  BY <1>1
<1> QED
  BY <1>1, <1>2, <1>3, <1>4, <1>5, <1>6

(* A sequence of one or two frames, and the end of a sequence.              *)
LEMMA Literal ==
  ASSUME NEW e \in Frames, NEW d \in Frames
  PROVE  /\ <<>> \in Seq(Frames) /\ <<e>> \in Seq(Frames) /\ <<e, d>> \in Seq(Frames)
         /\ Append(<<>>, e) = <<e>> /\ Append(<<e>>, d) = <<e, d>>
         /\ Tail(<<e>>) = <<>> /\ Tail(<<e, d>>) = <<d>>
         /\ Head(<<e>>) = e /\ Head(<<e, d>>) = e
         /\ Len(<<e>>) = 1 /\ Len(<<e, d>>) = 2 /\ <<e>> # <<>> /\ <<e, d>> # <<>>
         /\ <<e>>[1] = e /\ <<e, d>>[1] = e /\ <<e, d>>[2] = d
<1>1. <<>> \in Seq(Frames) /\ <<e>> \in Seq(Frames) /\ <<e, d>> \in Seq(Frames)
  OBVIOUS
<1>2. Append(<<>>, e) = <<e>>
  OBVIOUS
<1>3. Append(<<e>>, d) = <<e, d>>
  <2>a. <<e>> \in Seq(Frames)
    OBVIOUS
  <2>b. <<e, d>> \in Seq(Frames)
    OBVIOUS
  <2>c. PICK a \in Seq(Frames) : a = <<e>>
    BY <2>a
  <2>1. a = <<e>> /\ Len(a) = 1 /\ a[1] = e
    BY <2>c
  <2>2. /\ Append(a, d) \in Seq(Frames) /\ Len(Append(a, d)) = 2
        /\ Append(a, d)[1] = e /\ Append(a, d)[2] = d
    BY <2>1
  <2>3. PICK b \in Seq(Frames) : b = Append(a, d)
    BY <2>2
  <2>d. PICK c \in Seq(Frames) : c = <<e, d>>
    BY <2>b
  <2>4. c = <<e, d>> /\ Len(c) = 2 /\ c[1] = e /\ c[2] = d
    BY <2>d
  <2>5. Len(b) = Len(c) /\ \A i \in 1..Len(b) : b[i] = c[i]
    BY <2>2, <2>3, <2>4
  <2>6. b = c
    BY <2>5, SeqEqual
  <2> QED
    BY <2>1, <2>3, <2>4, <2>6
<1>4. Tail(<<e>>) = <<>>
  OBVIOUS
<1>5. Tail(<<e, d>>) = <<d>>
  OBVIOUS
<1>6. Head(<<e>>) = e /\ Head(<<e, d>>) = e
  OBVIOUS
<1>7. Len(<<e>>) = 1 /\ Len(<<e, d>>) = 2
  OBVIOUS
<1>8. <<e>> # <<>> /\ <<e, d>> # <<>>
  OBVIOUS
<1>9. <<e>>[1] = e /\ <<e, d>>[1] = e /\ <<e, d>>[2] = d
  OBVIOUS
<1> QED
  BY <1>1, <1>2, <1>3, <1>4, <1>5, <1>6, <1>7, <1>8, <1>9

(* The reader thread leaves everything else about a child alone.            *)
LEMMA GrownFields ==
  ASSUME NEW c \in Child, NEW p, Grown(c, p)
  PROVE  /\ p \in Child /\ p.kind = c.kind /\ p.guest = c.guest /\ p.toGuest = c.toGuest
         /\ p.session = c.session /\ p.sequence = c.sequence /\ p.clean = c.clean
         /\ p.offended = c.offended /\ p.listening = c.listening /\ p.events = c.events
         /\ p.executions = c.executions
  BY DEF Grown, Child

(* What the reader thread does matters to nobody.                           *)
LEMMA GrownOK ==
  ASSUME NEW c, NEW p, NEW n, ChildOK(c, n), Grown(c, p)
  PROVE  ChildOK(p, n)
<1>1. c \in Child
  BY DEF ChildOK
<1>2. /\ p \in Child /\ p.kind = c.kind /\ p.guest = c.guest /\ p.toGuest = c.toGuest
      /\ p.session = c.session /\ p.sequence = c.sequence /\ p.clean = c.clean
      /\ p.offended = c.offended /\ p.listening = c.listening
  BY <1>1, GrownFields
<1>3. Wired(p)
  BY <1>2 DEF ChildOK, Grown, Wired, Alive
<1>4. MontyHears(c) => MontyHears(p)
  BY <1>2 DEF MontyHears
<1>5. BashHears(c, n) => BashHears(p, n)
  BY <1>2 DEF BashHears
<1>6. Len(p.channel) <= Room
  BY DEF Grown
<1> QED
  BY <1>2, <1>3, <1>4, <1>5, <1>6 DEF ChildOK

(* What the reader thread does keeps every stage of a conversation.         *)
LEMMA GrownTalk ==
  ASSUME NEW c \in Child, NEW p, Grown(c, p)
  PROVE  /\ \A g : Fresh(c, g) => Fresh(p, g)
         /\ \A rq : ShellTalk(rq, c) => ShellTalk(rq, p)
         /\ \A rq : MontyTalk(rq, c) => MontyTalk(rq, p)
<1>1. /\ p.kind = c.kind /\ p.guest = c.guest /\ p.toGuest = c.toGuest
      /\ p.session = c.session /\ p.sequence = c.sequence /\ p.clean = c.clean
  BY GrownFields
<1>2. Stream(p) = Stream(c) \/ (c.guest = "dead" /\ Stream(p) = Append(Stream(c), Eof))
  BY DEF Grown
<1>3. c.channel # <<>> => p.channel # <<>>
  BY DEF Grown
<1>4. c.guest # "dead" => Stream(p) = Stream(c)
  BY <1>2
<1>a. Eof \in Frames /\ Eof.is = "Eof" /\ Eof.is # "Ok"
  BY SignalIs DEF Eof, Words
<1>b. PICK f \in Seq(Frames) : f = Stream(c)
  BY StreamIs
<1>c. PICK g : g = Stream(p)
  OBVIOUS
<1>5. c.guest = "dead" =>
        \A s, q : /\ Awaited(Stream(c), s, q) => Awaited(Stream(p), s, q)
                  /\ Readied(Stream(c), s, q) => Readied(Stream(p), s, q)
  <2>1. CASE g = f
    BY <1>b, <1>c, <2>1
  <2>2. CASE g = Append(f, Eof)
    <3>1. /\ Len(g) = Len(f) + 1 /\ Len(f) \in Nat
          /\ f = <<>> => g[1] = Eof /\ Len(g) = 1
          /\ f # <<>> => g[1] = f[1] /\ Len(f) >= 1 /\ (Len(f) = 1 \/ Len(f) >= 2)
          /\ Len(f) = 1 => g[2] = Eof
          /\ Len(f) >= 2 => g[2] = f[2]
      BY <1>a, <2>2, OneMore
    <3>5. g # <<>>
      BY <1>a, <2>2, OneMore
    <3>2. g # <<>> /\ Len(f) \in Nat /\ (f # <<>> => Len(f) = 1 \/ Len(f) >= 2)
      BY <3>1, <3>5
    <3>3. ASSUME NEW s, NEW q, Readied(f, s, q) PROVE Readied(g, s, q)
      BY <1>a, <3>1, <3>2, <3>3 DEF Readied
    <3>4. ASSUME NEW s, NEW q, Awaited(f, s, q) PROVE Awaited(g, s, q)
      <4>1. CASE f = <<>>
        BY <1>a, <3>1, <4>1 DEF Awaited
      <4>2. CASE f # <<>> /\ Len(f) = 1
        BY <1>a, <3>1, <3>4, <4>2 DEF Awaited
      <4>3. CASE f # <<>> /\ Len(f) >= 2
        BY <1>a, <3>1, <3>4, <4>3 DEF Awaited
      <4> QED
        BY <3>2, <4>1, <4>2, <4>3
    <3> QED
      BY <1>b, <1>c, <3>3, <3>4
  <2> QED
    BY <1>2, <1>b, <1>c, <2>1, <2>2
<1>6. c.guest = "dead" =>
        /\ Stream(c) = <<>> \/ Stream(c)[1].is \in {"Ok", "Eof"} =>
             Stream(p) = <<>> \/ Stream(p)[1].is \in {"Ok", "Eof"}
        /\ (\A i \in DOMAIN Stream(c) : Stream(c)[i].is # "Ok") =>
             \A i \in DOMAIN Stream(p) : Stream(p)[i].is # "Ok"
  <2>1. CASE g = f
    BY <1>b, <1>c, <2>1
  <2>2. CASE g = Append(f, Eof)
    <3>1. /\ Len(g) = Len(f) + 1 /\ Len(f) \in Nat /\ g[Len(g)] = Eof
          /\ \A i \in 1..Len(f) : g[i] = f[i]
          /\ DOMAIN f = 1..Len(f) /\ DOMAIN g = 1..Len(g)
          /\ f = <<>> => g[1] = Eof
          /\ f # <<>> => g[1] = f[1]
      BY <1>a, <2>2, OneMore
    <3>2. \A i \in DOMAIN g : i \in DOMAIN f \/ i = Len(g)
      BY <3>1
    <3> QED
      BY <1>a, <1>b, <1>c, <3>1, <3>2
  <2> QED
    BY <1>2, <1>b, <1>c, <2>1, <2>2
<1>7. ASSUME NEW g1, Fresh(c, g1) PROVE Fresh(p, g1)
  BY <1>1, <1>4, <1>7 DEF Fresh, Quiet
<1>8. ASSUME NEW rq, ShellTalk(rq, c) PROVE ShellTalk(rq, p)
  <2>1. ~c.clean => ~p.clean
    BY <1>1
  <2>2. AwaitTalk(c, rq.session, rq.sequence) => AwaitTalk(p, rq.session, rq.sequence)
    <3>1. CASE c.guest = "dead"
      BY <1>1, <1>5, <3>1 DEF AwaitTalk
    <3>2. CASE c.guest # "dead"
      BY <1>1, <1>4, <3>2 DEF AwaitTalk
    <3> QED
      BY <3>1, <3>2
  <2>3. ReadyTalk(c, rq.session, rq.sequence) => ReadyTalk(p, rq.session, rq.sequence)
    <3>1. CASE c.guest = "dead"
      BY <1>1, <1>5, <3>1 DEF ReadyTalk
    <3>2. CASE c.guest # "dead"
      BY <1>1, <1>4, <3>2 DEF ReadyTalk
    <3> QED
      BY <3>1, <3>2
  <2>4. Fresh(c, "idle") => Fresh(p, "idle")
    BY <1>7
  <2>5. \/ c.guest = "dead" \/ Quiet(c, "born")
        \/ c.guest = "idle" /\ c.toGuest = <<>> /\ One(c, {"Hello"})
        => \/ p.guest = "dead" \/ Quiet(p, "born")
           \/ p.guest = "idle" /\ p.toGuest = <<>> /\ One(p, {"Hello"})
    BY <1>1, <1>4 DEF Quiet, One
  <2> QED
    BY <1>1, <1>8, <2>1, <2>2, <2>3, <2>4, <2>5 DEF ShellTalk
<1>9. ASSUME NEW rq, MontyTalk(rq, c) PROVE MontyTalk(rq, p)
  <2>1. Fresh(c, "empty") => Fresh(p, "empty")
    BY <1>7
  <2>2. CASE c.guest = "dead"
    BY <1>1, <1>3, <1>6, <1>9, <2>1, <2>2 DEF MontyTalk, TurnTalk
  <2>3. CASE c.guest # "dead"
    BY <1>1, <1>3, <1>4, <1>9, <2>1, <2>3 DEF MontyTalk, TurnTalk, Quiet, One, Chatter
  <2> QED
    BY <2>2, <2>3
<1> QED
  BY <1>7, <1>8, <1>9

-----------------------------------------------------------------------------
(* Who holds what.                                                          *)

(* There are Bash and Monty workers.                                        *)
LEMMA KindsAre == "bash" \in Kinds /\ "monty" \in Kinds
                  /\ \A k \in Kinds : k = "bash" \/ k = "monty"
  BY DEF Kinds

(* A worker has one holder at most, in one place.                           *)
LEMMA Owners ==
  ASSUME NEW W, NEW Q, NEW I, NEW n, Sane(W, Q, I, n)
  PROVE  /\ \A r \in Request : \A k \in Kinds : Hold(Q[r], k) \in Worker \cup {NoWorker}
         /\ \A r \in Request : \A k \in Kinds : Hold(Q[r], k) # NoWorker => Hold(Q[r], k) \in Worker
         /\ \A k \in Kinds : /\ I[k] \in Seq(Worker)
                             /\ \A i \in DOMAIN I[k] : I[k][i] \in Worker
         /\ \A r, s \in Request : \A k, l \in Kinds :
              Hold(Q[r], k) # NoWorker /\ Hold(Q[r], k) = Hold(Q[s], l) => r = s /\ k = l
         /\ \A r \in Request : \A k, l \in Kinds : \A i \in DOMAIN I[l] : Hold(Q[r], k) # I[l][i]
<1>1. ASSUME NEW r \in Request, NEW k \in Kinds
      PROVE  /\ Hold(Q[r], k) \in Worker \cup {NoWorker}
             /\ Hold(Q[r], k) # NoWorker => Hold(Q[r], k) \in Worker
  <2>1. Q[r] \in Requests
    BY DEF Sane
  <2> QED
    BY <2>1 DEF Requests, Hold
<1>2. ASSUME NEW k \in Kinds
      PROVE  I[k] \in Seq(Worker) /\ \A i \in DOMAIN I[k] : I[k][i] \in Worker
  <2>1. I[k] \in Seq(Worker)
    BY DEF Sane
  <2>2. PICK s \in Seq(Worker) : s = I[k]
    BY <2>1
  <2>3. \A i \in DOMAIN s : s[i] \in Worker
    OBVIOUS
  <2> QED
    BY <2>1, <2>2, <2>3
<1>3. ASSUME NEW r \in Request, NEW s \in Request, NEW k \in Kinds, NEW l \in Kinds,
             Hold(Q[r], k) # NoWorker, Hold(Q[r], k) = Hold(Q[s], l)
      PROVE  r = s /\ k = l
  <2>1. W[Hold(Q[r], k)].kind = k /\ W[Hold(Q[s], l)].kind = l
    BY <1>3 DEF Sane, Apart
  <2>2. k = l
    BY <1>3, <2>1
  <2> QED
    BY <1>3, <2>2 DEF Sane, Apart
<1>4. ASSUME NEW r \in Request, NEW k \in Kinds, NEW l \in Kinds, NEW i \in DOMAIN I[l]
      PROVE  Hold(Q[r], k) # I[l][i]
  <2>1. W[I[l][i]].kind = l /\ Hold(Q[r], l) # I[l][i]
    BY DEF Sane, Apart
  <2>2. I[l][i] # NoWorker
    BY <1>2, WorkerAssumption
  <2>3. Hold(Q[r], k) # NoWorker => W[Hold(Q[r], k)].kind = k
    BY DEF Sane, Apart
  <2> QED
    BY <2>1, <2>2, <2>3
<1> QED
  BY <1>1, <1>2, <1>3, <1>4

(* Later session numbers do a worker no harm.                               *)
LEMMA Later ==
  ASSUME NEW c, NEW n \in Nat, NEW m \in Nat, n <= m, ChildOK(c, n)
  PROVE  ChildOK(c, m)
<1>1. c \in Child
  BY DEF ChildOK
<1>2. c.session \in Nat /\ c.toGuest \in Seq(Frames)
  BY <1>1 DEF Child
<1>3. c.session < n => c.session < m
  BY <1>2
<1>4. BashHears(c, n) => BashHears(c, m)
  <2>1. CASE c.toGuest = <<>>
    BY <2>1 DEF BashHears
  <2>2. CASE c.toGuest # <<>> /\ Len(c.toGuest) = 1
    <3>1. c.toGuest[1] \in Frames
      BY <1>2, <2>2
    <3>2. PICK f \in Frames : f = c.toGuest[1]
      BY <3>1
    <3>3. f.session \in Nat
      BY DEF Frames
    <3>4. f.session < n => f.session < m
      BY <3>3
    <3> QED
      BY <2>2, <3>2, <3>4 DEF BashHears
  <2>3. CASE c.toGuest # <<>> /\ Len(c.toGuest) # 1
    BY <2>3 DEF BashHears
  <2> QED
    BY <2>1, <2>2, <2>3
<1> QED
  BY <1>1, <1>3, <1>4 DEF ChildOK

(* A request rq in place of r, whose workers have changed: some it has no   *)
(* longer, the others it may still have.                                    *)
OwnChange(W, Q, r, rq, W2, m) ==
  /\ RequestOK(rq) /\ Talks(rq, W2) /\ W2 \in [Worker -> Child]
  /\ \A w \in Worker : ChildOK(W2[w], m)
  /\ \A w \in Worker : W2[w] = W[w] \/ \E k \in Kinds : Hold(Q[r], k) = w
  /\ \A k \in Kinds : /\ Hold(rq, k) \in {Hold(Q[r], k), NoWorker}
                      /\ Hold(rq, k) # NoWorker => W2[Hold(rq, k)].kind = k

(* What one request does with the workers it holds, and with itself.        *)
LEMMA OwnStep ==
  ASSUME NEW W, NEW Q, NEW I, NEW n, Sane(W, Q, I, n),
         NEW r \in Request, NEW rq, NEW W2, NEW Q2, NEW m \in Nat,
         n <= m, OwnChange(W, Q, r, rq, W2, m), Q2 = [Q EXCEPT ![r] = rq]
  PROVE  Sane(W2, Q2, I, m)
<1> USE DEF OwnChange
<1>1. /\ n \in Nat \ {0} /\ I \in [Kinds -> Seq(Worker)] /\ Q \in [Request -> Requests]
      /\ \A s \in Request : RequestOK(Q[s]) /\ Talks(Q[s], W)
      /\ Apart(W, Q, I)
  BY DEF Sane
<1>2. rq \in Requests
  BY DEF RequestOK
<1>3. /\ Q2 \in [Request -> Requests] /\ Q2[r] = rq
      /\ \A s \in Request : s # r => Q2[s] = Q[s]
  BY <1>1, <1>2
<1>4. m \in Nat \ {0}
  BY <1>1
<1>5. ASSUME NEW s \in Request, s # r, NEW k \in Kinds, Hold(Q[s], k) # NoWorker
      PROVE  W2[Hold(Q[s], k)] = W[Hold(Q[s], k)]
  <2>1. Hold(Q[s], k) \in Worker /\ \A l \in Kinds : Hold(Q[r], l) # Hold(Q[s], k)
    BY <1>5, Owners
  <2> QED
    BY <2>1
<1>6. ASSUME NEW k \in Kinds, NEW i \in DOMAIN I[k]
      PROVE  W2[I[k][i]] = W[I[k][i]]
  BY Owners
<1>7. \A s \in Request : RequestOK(Q2[s]) /\ Talks(Q2[s], W2)
  <2>1. ASSUME NEW s \in Request, s # r PROVE RequestOK(Q2[s]) /\ Talks(Q2[s], W2)
    <3>1. Q2[s] = Q[s] /\ RequestOK(Q[s]) /\ Talks(Q[s], W)
      BY <1>1, <1>3, <2>1
    <3>2. Q[s].bash # NoWorker => W2[Q[s].bash] = W[Q[s].bash]
      BY <1>5, <2>1, KindsAre DEF Hold
    <3>3. Hold(Q[s], "monty") = Q[s].monty
      BY DEF Hold
    <3>4. Q[s].monty # NoWorker => W2[Q[s].monty] = W[Q[s].monty]
      BY <1>5, <2>1, <3>3, KindsAre
    <3> QED
      BY <3>1, <3>2, <3>4 DEF Talks
  <2> QED
    BY <1>3, <2>1
<1>8. Apart(W2, Q2, I)
  <2> SUFFICES ASSUME NEW k \in Kinds
      PROVE /\ \A i, j \in DOMAIN I[k] : i # j => I[k][i] # I[k][j]
            /\ \A i \in DOMAIN I[k] : \A s \in Request : Hold(Q2[s], k) # I[k][i]
            /\ \A s, t \in Request : s # t /\ Hold(Q2[s], k) # NoWorker =>
                                       Hold(Q2[s], k) # Hold(Q2[t], k)
            /\ \A i \in DOMAIN I[k] : W2[I[k][i]].kind = k /\ Fresh(W2[I[k][i]], Rest[k])
            /\ \A s \in Request : Hold(Q2[s], k) # NoWorker => W2[Hold(Q2[s], k)].kind = k
    BY DEF Apart
  <2>1. \A s \in Request : Hold(Q2[s], k) \in {Hold(Q[s], k), NoWorker}
    BY <1>3
  <2>2. \A i \in DOMAIN I[k] : I[k][i] # NoWorker
    BY Owners, WorkerAssumption
  <2>3. \A i, j \in DOMAIN I[k] : i # j => I[k][i] # I[k][j]
    BY <1>1 DEF Apart
  <2>4. \A i \in DOMAIN I[k] : \A s \in Request : Hold(Q2[s], k) # I[k][i]
    BY <2>1, <2>2, Owners
  <2>5. \A s, t \in Request : s # t /\ Hold(Q2[s], k) # NoWorker => Hold(Q2[s], k) # Hold(Q2[t], k)
    BY <2>1, Owners
  <2>6. \A i \in DOMAIN I[k] : W2[I[k][i]].kind = k /\ Fresh(W2[I[k][i]], Rest[k])
    BY <1>1, <1>6 DEF Apart
  <2>7. \A s \in Request : Hold(Q2[s], k) # NoWorker => W2[Hold(Q2[s], k)].kind = k
    <3>1. ASSUME NEW s \in Request, s # r, Hold(Q2[s], k) # NoWorker
          PROVE  W2[Hold(Q2[s], k)].kind = k
      BY <1>1, <1>3, <1>5, <3>1 DEF Apart
    <3> QED
      BY <1>3, <3>1
  <2> QED
    BY <2>3, <2>4, <2>5, <2>6, <2>7
<1> QED
  BY <1>1, <1>3, <1>4, <1>7, <1>8 DEF Sane

(* A request rq in place of r that has a worker w nobody had, idle or new.  *)
GrabChange(W, Q, I, n, r, rq, W2, I2, K, w) ==
  /\ RequestOK(rq) /\ Talks(rq, W2) /\ W2 \in [Worker -> Child]
  /\ \A x \in Worker : ChildOK(W2[x], n)
  /\ \A x \in Worker : x # w => W2[x] = W[x]
  /\ W2[w].kind = K /\ Hold(rq, K) = w
  /\ \A k \in Kinds : k # K => Hold(rq, k) = Hold(Q[r], k)
  /\ \A k \in Kinds : \A s \in Request : Hold(Q[s], k) # w
  /\ I2 \in [Kinds -> Seq(Worker)]
  /\ \A k \in Kinds : \A i \in DOMAIN I2[k] :
       i \in DOMAIN I[k] /\ I2[k][i] = I[k][i] /\ I2[k][i] # w

(* A request takes a worker nobody has.                                     *)
LEMMA GrabStep ==
  ASSUME NEW W, NEW Q, NEW I, NEW n, Sane(W, Q, I, n),
         NEW r \in Request, NEW rq, NEW W2, NEW Q2, NEW I2, NEW K \in Kinds, NEW w \in Worker,
         GrabChange(W, Q, I, n, r, rq, W2, I2, K, w), Q2 = [Q EXCEPT ![r] = rq]
  PROVE  Sane(W2, Q2, I2, n)
<1> USE DEF GrabChange
<1>1. /\ n \in Nat \ {0} /\ I \in [Kinds -> Seq(Worker)] /\ Q \in [Request -> Requests]
      /\ \A s \in Request : RequestOK(Q[s]) /\ Talks(Q[s], W)
      /\ Apart(W, Q, I)
  BY DEF Sane
<1>2. rq \in Requests /\ w # NoWorker
  BY WorkerAssumption DEF RequestOK
<1>3. /\ Q2 \in [Request -> Requests] /\ Q2[r] = rq
      /\ \A s \in Request : s # r => Q2[s] = Q[s]
  BY <1>1, <1>2
<1>5. ASSUME NEW s \in Request, NEW k \in Kinds, Hold(Q[s], k) # NoWorker
      PROVE  W2[Hold(Q[s], k)] = W[Hold(Q[s], k)]
  BY <1>5, Owners
<1>7. \A s \in Request : RequestOK(Q2[s]) /\ Talks(Q2[s], W2)
  <2>1. ASSUME NEW s \in Request, s # r PROVE RequestOK(Q2[s]) /\ Talks(Q2[s], W2)
    <3>1. Q2[s] = Q[s] /\ RequestOK(Q[s]) /\ Talks(Q[s], W)
      BY <1>1, <1>3, <2>1
    <3>2. Q[s].bash # NoWorker => W2[Q[s].bash] = W[Q[s].bash]
      BY <1>5, <2>1, KindsAre DEF Hold
    <3>3. Hold(Q[s], "monty") = Q[s].monty
      BY DEF Hold
    <3>4. Q[s].monty # NoWorker => W2[Q[s].monty] = W[Q[s].monty]
      BY <1>5, <2>1, <3>3, KindsAre
    <3> QED
      BY <3>1, <3>2, <3>4 DEF Talks
  <2> QED
    BY <1>3, <2>1
<1>8. Apart(W2, Q2, I2)
  <2> SUFFICES ASSUME NEW k \in Kinds
      PROVE /\ \A i, j \in DOMAIN I2[k] : i # j => I2[k][i] # I2[k][j]
            /\ \A i \in DOMAIN I2[k] : \A s \in Request : Hold(Q2[s], k) # I2[k][i]
            /\ \A s, t \in Request : s # t /\ Hold(Q2[s], k) # NoWorker =>
                                       Hold(Q2[s], k) # Hold(Q2[t], k)
            /\ \A i \in DOMAIN I2[k] : W2[I2[k][i]].kind = k /\ Fresh(W2[I2[k][i]], Rest[k])
            /\ \A s \in Request : Hold(Q2[s], k) # NoWorker => W2[Hold(Q2[s], k)].kind = k
    BY DEF Apart
  <2>1. \A s \in Request : Hold(Q2[s], k) = Hold(Q[s], k) \/ (s = r /\ k = K /\ Hold(Q2[s], k) = w)
    BY <1>3
  <2>2. \A i \in DOMAIN I2[k] : I2[k][i] \in Worker /\ W2[I2[k][i]] = W[I[k][i]]
    BY Owners
  <2>3. \A i, j \in DOMAIN I2[k] : i # j => I2[k][i] # I2[k][j]
    BY <1>1 DEF Apart
  <2>4. \A i \in DOMAIN I2[k] : \A s \in Request : Hold(Q2[s], k) # I2[k][i]
    BY <2>1, Owners
  <2>5. \A s, t \in Request : s # t /\ Hold(Q2[s], k) # NoWorker => Hold(Q2[s], k) # Hold(Q2[t], k)
    BY <2>1, Owners
  <2>6. \A i \in DOMAIN I2[k] : W2[I2[k][i]].kind = k /\ Fresh(W2[I2[k][i]], Rest[k])
    <3>1. \A i \in DOMAIN I[k] : W[I[k][i]].kind = k /\ Fresh(W[I[k][i]], Rest[k])
      BY <1>1 DEF Apart
    <3> QED
      BY <2>2, <3>1, ZenonT(60)
  <2>7. \A s \in Request : Hold(Q2[s], k) # NoWorker => W2[Hold(Q2[s], k)].kind = k
    <3>1. \A s \in Request : Hold(Q[s], k) # NoWorker => W[Hold(Q[s], k)].kind = k
      BY <1>1 DEF Apart
    <3>2. ASSUME NEW s \in Request, Hold(Q2[s], k) # NoWorker PROVE W2[Hold(Q2[s], k)].kind = k
      <4>1. CASE Hold(Q2[s], k) = Hold(Q[s], k)
        <5>1. Hold(Q[s], k) # NoWorker
          BY ONLY <3>2, <4>1
        <5>2. W2[Hold(Q[s], k)] = W[Hold(Q[s], k)]
          BY ONLY <1>5, <5>1, k \in Kinds, s \in Request
        <5>3. W[Hold(Q[s], k)].kind = k
          BY ONLY <3>1, <5>1, s \in Request
        <5> QED
          BY ONLY <4>1, <5>2, <5>3
      <4>2. CASE k = K /\ Hold(Q2[s], k) = w
        BY <4>2
      <4> QED
        BY <2>1, <4>1, <4>2
    <3> QED
      BY <3>2
  <2> QED
    BY <2>3, <2>4, <2>5, <2>6, <2>7
<1> QED
  BY <1>1, <1>3, <1>7, <1>8 DEF Sane

(* A request rq in place of r that has left its worker w among the idle.    *)
ParkChange(W, Q, I, n, r, rq, W2, I2, K, w) ==
  /\ RequestOK(rq) /\ Talks(rq, W2) /\ W2 \in [Worker -> Child]
  /\ \A x \in Worker : ChildOK(W2[x], n)
  /\ \A x \in Worker : x # w => W2[x] = W[x]
  /\ W2[w].kind = K /\ Fresh(W2[w], Rest[K]) /\ Hold(Q[r], K) = w /\ Hold(rq, K) = NoWorker
  /\ \A k \in Kinds : k # K => Hold(rq, k) = Hold(Q[r], k)
  /\ I2 = [I EXCEPT ![K] = Append(I[K], w)]

(* A request parks the worker it has.                                       *)
LEMMA ParkStep ==
  ASSUME NEW W, NEW Q, NEW I, NEW n, Sane(W, Q, I, n),
         NEW r \in Request, NEW rq, NEW W2, NEW Q2, NEW I2, NEW K \in Kinds, NEW w \in Worker,
         ParkChange(W, Q, I, n, r, rq, W2, I2, K, w), Q2 = [Q EXCEPT ![r] = rq]
  PROVE  Sane(W2, Q2, I2, n)
<1> USE DEF ParkChange
<1>1. /\ n \in Nat \ {0} /\ I \in [Kinds -> Seq(Worker)] /\ Q \in [Request -> Requests]
      /\ \A s \in Request : RequestOK(Q[s]) /\ Talks(Q[s], W)
      /\ Apart(W, Q, I)
  BY DEF Sane
<1>2. rq \in Requests /\ w # NoWorker
  BY WorkerAssumption DEF RequestOK
<1>3. /\ Q2 \in [Request -> Requests] /\ Q2[r] = rq
      /\ \A s \in Request : s # r => Q2[s] = Q[s]
  BY <1>1, <1>2
<1>4. I2 \in [Kinds -> Seq(Worker)]
  <2>1. Append(I[K], w) \in Seq(Worker)
    BY Owners
  <2> QED
    BY <1>1, <2>1
<1>a. \A k \in Kinds : k # K => I2[k] = I[k]
  BY <1>1
<1>b. /\ DOMAIN I[K] = 1..Len(I[K]) /\ DOMAIN I2[K] = 1..(Len(I[K]) + 1) /\ Len(I[K]) \in Nat
      /\ I2[K][Len(I[K]) + 1] = w /\ \A i \in 1..Len(I[K]) : I2[K][i] = I[K][i]
  <2>1. PICK s \in Seq(Worker) : s = I[K]
    BY Owners
  <2>2. PICK t : t = Append(s, w)
    OBVIOUS
  <2>3. /\ DOMAIN s = 1..Len(s) /\ DOMAIN t = 1..(Len(s) + 1) /\ Len(s) \in Nat
        /\ t[Len(s) + 1] = w /\ \A i \in 1..Len(s) : t[i] = s[i]
    BY <2>2
  <2>4. I2[K] = t
    BY <1>1, <2>1, <2>2
  <2> QED
    BY <2>1, <2>3, <2>4
<1>c. \A k \in Kinds : \A i \in DOMAIN I2[k] :
        \/ i \in DOMAIN I[k] /\ I2[k][i] = I[k][i]
        \/ k = K /\ i = Len(I[K]) + 1 /\ I2[k][i] = w
  BY <1>a, <1>b
<1>5. ASSUME NEW s \in Request, NEW k \in Kinds, Hold(Q[s], k) # NoWorker, Hold(Q[s], k) # w
      PROVE  W2[Hold(Q[s], k)] = W[Hold(Q[s], k)]
  BY <1>5, Owners
<1>7. \A s \in Request : RequestOK(Q2[s]) /\ Talks(Q2[s], W2)
  <2>1. ASSUME NEW s \in Request, s # r PROVE RequestOK(Q2[s]) /\ Talks(Q2[s], W2)
    <3>1. Q2[s] = Q[s] /\ RequestOK(Q[s]) /\ Talks(Q[s], W)
      BY <1>1, <1>3, <2>1
    <3>a. \A k \in Kinds : Hold(Q[s], k) # w
      BY <1>2, <2>1, Owners
    <3>2. Q[s].bash # NoWorker => W2[Q[s].bash] = W[Q[s].bash]
      BY <1>5, <2>1, <3>a, KindsAre DEF Hold
    <3>3. Hold(Q[s], "monty") = Q[s].monty
      BY DEF Hold
    <3>4. Q[s].monty # NoWorker => W2[Q[s].monty] = W[Q[s].monty]
      BY <1>5, <2>1, <3>3, <3>a, KindsAre
    <3> QED
      BY <3>1, <3>2, <3>4 DEF Talks
  <2> QED
    BY <1>3, <2>1
<1>8. Apart(W2, Q2, I2)
  <2> SUFFICES ASSUME NEW k \in Kinds
      PROVE /\ \A i, j \in DOMAIN I2[k] : i # j => I2[k][i] # I2[k][j]
            /\ \A i \in DOMAIN I2[k] : \A s \in Request : Hold(Q2[s], k) # I2[k][i]
            /\ \A s, t \in Request : s # t /\ Hold(Q2[s], k) # NoWorker =>
                                       Hold(Q2[s], k) # Hold(Q2[t], k)
            /\ \A i \in DOMAIN I2[k] : W2[I2[k][i]].kind = k /\ Fresh(W2[I2[k][i]], Rest[k])
            /\ \A s \in Request : Hold(Q2[s], k) # NoWorker => W2[Hold(Q2[s], k)].kind = k
    BY DEF Apart
  <2>1. \A s \in Request : Hold(Q2[s], k) = NoWorker
        \/ (Hold(Q2[s], k) = Hold(Q[s], k) /\ Hold(Q[s], k) # w)
    <3>1. ASSUME NEW s \in Request, s # r PROVE Hold(Q2[s], k) = Hold(Q[s], k) /\ Hold(Q[s], k) # w
      BY <1>2, <1>3, <3>1, Owners
    <3>2. k # K => Hold(Q2[r], k) = Hold(Q[r], k) /\ Hold(Q[r], k) # w
      BY <1>2, <1>3, Owners
    <3> QED
      BY <1>3, <3>1, <3>2
  <2>2. \A i \in DOMAIN I[k] : /\ I[k][i] \in Worker /\ I[k][i] # w /\ I[k][i] # NoWorker
                               /\ W2[I[k][i]] = W[I[k][i]]
    <3>1. \A i \in DOMAIN I[k] : I[k][i] \in Worker /\ I[k][i] # w
      BY Owners
    <3> QED
      BY <3>1, WorkerAssumption
  <2>3. \A i, j \in DOMAIN I2[k] : i # j => I2[k][i] # I2[k][j]
    BY <1>1, <1>c, <2>2 DEF Apart
  <2>4. \A i \in DOMAIN I2[k] : \A s \in Request : Hold(Q2[s], k) # I2[k][i]
    BY <1>2, <1>c, <2>1, <2>2, Owners
  <2>5. \A s, t \in Request : s # t /\ Hold(Q2[s], k) # NoWorker => Hold(Q2[s], k) # Hold(Q2[t], k)
    BY <2>1, Owners
  <2>6. \A i \in DOMAIN I2[k] : W2[I2[k][i]].kind = k /\ Fresh(W2[I2[k][i]], Rest[k])
    <3>1. \A i \in DOMAIN I[k] : W[I[k][i]].kind = k /\ Fresh(W[I[k][i]], Rest[k])
      BY <1>1 DEF Apart
    <3> QED
      BY <1>c, <2>2, <3>1
  <2>7. \A s \in Request : Hold(Q2[s], k) # NoWorker => W2[Hold(Q2[s], k)].kind = k
    <3>1. \A s \in Request : Hold(Q[s], k) # NoWorker => W[Hold(Q[s], k)].kind = k
      BY <1>1 DEF Apart
    <3> QED
      BY <1>5, <2>1, <3>1
  <2> QED
    BY <2>3, <2>4, <2>5, <2>6, <2>7
<1> QED
  BY <1>1, <1>3, <1>4, <1>7, <1>8 DEF Sane

(* What a worker does by itself.                                            *)
LEMMA GuestStep ==
  ASSUME NEW W, NEW Q, NEW I, NEW n, Sane(W, Q, I, n), NEW w \in Worker, NEW c, NEW W2,
         ChildOK(c, n), c.kind = W[w].kind, W2 = [W EXCEPT ![w] = c],
         \A g \in {"idle", "empty"} : Fresh(W[w], g) => Fresh(c, g),
         \A r \in Request : RequestOK(Q[r]) /\ c.kind = "bash"
         /\ ShellTalk(Q[r], W[w]) => ShellTalk(Q[r], c),
         \A r \in Request : RequestOK(Q[r]) /\ c.kind = "monty"
         /\ MontyTalk(Q[r], W[w]) => MontyTalk(Q[r], c)
  PROVE  Sane(W2, Q, I, n)
<1>1. /\ n \in Nat \ {0} /\ I \in [Kinds -> Seq(Worker)] /\ Q \in [Request -> Requests]
      /\ W \in [Worker -> Child] /\ \A x \in Worker : ChildOK(W[x], n)
      /\ \A s \in Request : RequestOK(Q[s]) /\ Talks(Q[s], W)
      /\ Apart(W, Q, I)
  BY DEF Sane
<1>2. c \in Child
  BY DEF ChildOK
<1>3. W2 \in [Worker -> Child] /\ W2[w] = c /\ \A x \in Worker : x # w => W2[x] = W[x]
  BY <1>1, <1>2
<1>4. \A x \in Worker : ChildOK(W2[x], n) /\ W2[x].kind = W[x].kind
  BY <1>1, <1>3
<1>5. ASSUME NEW s \in Request PROVE Talks(Q[s], W2)
  <2>1. Talks(Q[s], W) /\ RequestOK(Q[s])
    BY <1>1
  <2>2. Hold(Q[s], "bash") = Q[s].bash /\ Hold(Q[s], "monty") = Q[s].monty
    BY DEF Hold
  <2>3. ASSUME Q[s].bash # NoWorker PROVE ShellTalk(Q[s], W2[Q[s].bash])
    <3>1. Q[s].bash \in Worker /\ W[Q[s].bash].kind = "bash" /\ ShellTalk(Q[s], W[Q[s].bash])
      BY <1>1, <2>1, <2>2, <2>3, Owners, KindsAre DEF Apart, Talks
    <3> QED
      BY <1>3, <2>1, <3>1
  <2>4. ASSUME Q[s].monty # NoWorker PROVE MontyTalk(Q[s], W2[Q[s].monty])
    <3>1. Q[s].monty \in Worker /\ W[Q[s].monty].kind = "monty" /\ MontyTalk(Q[s], W[Q[s].monty])
      BY <1>1, <2>1, <2>2, <2>4, Owners, KindsAre DEF Apart, Talks
    <3> QED
      BY <1>3, <2>1, <3>1
  <2> QED
    BY <2>3, <2>4 DEF Talks
<1>6. ASSUME NEW k \in Kinds, NEW i \in DOMAIN I[k]
      PROVE  W2[I[k][i]].kind = k /\ Fresh(W2[I[k][i]], Rest[k])
  <2>1. I[k][i] \in Worker /\ W[I[k][i]].kind = k /\ Fresh(W[I[k][i]], Rest[k])
    BY <1>1, Owners DEF Apart
  <2>2. Rest[k] \in {"idle", "empty"}
    BY DEF Rest, Kinds
  <2> QED
    BY <1>3, <1>4, <2>1, <2>2
<1>7. ASSUME NEW k \in Kinds, NEW s \in Request, Hold(Q[s], k) # NoWorker
      PROVE  W2[Hold(Q[s], k)].kind = k
  BY <1>1, <1>4, <1>7, Owners DEF Apart
<1>8. Apart(W2, Q, I)
  BY <1>1, <1>6, <1>7 DEF Apart
<1> QED
  BY <1>1, <1>3, <1>4, <1>5, <1>8 DEF Sane

-----------------------------------------------------------------------------
(* The steps of the specification in these terms.                           *)

(* What a request and the workers it holds are.                             *)
LEMMA Holds ==
  ASSUME IInv, NEW r \in Request
  PROVE  /\ request[r] \in Requests /\ RequestOK(request[r])
         /\ nextSession \in Nat \ {0} /\ NoWorker \notin Worker
         /\ request[r].bash \in Worker \cup {NoWorker}
            /\ request[r].monty \in Worker \cup {NoWorker}
         /\ request[r].bash # NoWorker =>
              /\ request[r].bash \in Worker /\ worker[request[r].bash] \in Child
              /\ worker[request[r].bash].kind = "bash"
              /\ ChildOK(worker[request[r].bash], nextSession)
              /\ ShellTalk(request[r], worker[request[r].bash])
         /\ request[r].monty # NoWorker =>
              /\ request[r].monty \in Worker /\ worker[request[r].monty] \in Child
              /\ worker[request[r].monty].kind = "monty"
              /\ ChildOK(worker[request[r].monty], nextSession)
              /\ MontyTalk(request[r], worker[request[r].monty])
<1>1. /\ request[r] \in Requests /\ RequestOK(request[r]) /\ nextSession \in Nat \ {0}
      /\ Talks(request[r], worker) /\ worker \in [Worker -> Child]
      /\ \A w \in Worker : ChildOK(worker[w], nextSession)
  BY DEF IInv, Sane
<1>2. Hold(request[r], "bash") = request[r].bash /\ Hold(request[r], "monty") = request[r].monty
  BY DEF Hold
<1>3. /\ request[r].bash \in Worker \cup {NoWorker}
      /\ request[r].monty \in Worker \cup {NoWorker}
  BY <1>1 DEF Requests
<1>4. request[r].bash # NoWorker => worker[request[r].bash].kind = "bash"
  BY <1>2, KindsAre DEF IInv, Sane, Apart
<1>5. request[r].monty # NoWorker => worker[request[r].monty].kind = "monty"
  BY <1>2, KindsAre DEF IInv, Sane, Apart
<1> QED
  BY <1>1, <1>3, <1>4, <1>5, WorkerAssumption DEF Talks

(* A worker and its reader thread.                                          *)
LEMMA BecomesIs ==
  ASSUME NEW w \in Worker, NEW c, NEW n, worker \in [Worker -> Child], ChildOK(c, n),
         worker' = Becomes(w, c)
  PROVE  /\ worker' \in [Worker -> Child] /\ Grown(c, worker'[w]) /\ c \in Child
         /\ ChildOK(worker'[w], n) /\ worker'[w].kind = c.kind
         /\ worker' = [worker EXCEPT ![w] = worker'[w]]
         /\ \A x \in Worker : x # w => worker'[x] = worker[x]
<1>1. c \in Child /\ Len(c.channel) <= Room
  BY DEF ChildOK
<1>2. Grown(c, Pumped(c))
  BY <1>1, Pumps
<1>3. PICK p : p = Pumped(c)
  OBVIOUS
<1>4. /\ Grown(c, p) /\ p \in Child /\ p.kind = c.kind /\ ChildOK(p, n)
  BY <1>1, <1>2, <1>3, GrownOK, GrownFields
<1>5. worker' = [worker EXCEPT ![w] = p]
  BY <1>3 DEF Becomes
<1> QED
  BY <1>1, <1>4, <1>5

(* The request alone.                                                       *)
LEMMA Shift ==
  ASSUME IInv, NEW r \in Request, NEW rq,
         rq.bash \in {request[r].bash, NoWorker}, rq.monty \in {request[r].monty, NoWorker},
         RequestOK(rq), Talks(rq, worker), Moved(r, rq),
         worker' = worker, idle' = idle, nextSession' = nextSession
  PROVE  IInv'
<1>1. /\ nextSession \in Nat /\ worker \in [Worker -> Child]
      /\ \A w \in Worker : ChildOK(worker[w], nextSession)
      /\ Sane(worker, request, idle, nextSession)
  BY DEF IInv, Sane
<1>2. \A k \in Kinds : /\ Hold(rq, k) \in {Hold(request[r], k), NoWorker}
                       /\ Hold(rq, k) # NoWorker => worker[Hold(rq, k)].kind = k
  BY DEF Hold, Kinds, IInv, Sane, Apart
<1>3. request' = [request EXCEPT ![r] = rq]
  BY DEF Moved
<1>4. /\ nextSession <= nextSession
      /\ \A w \in Worker : worker[w] = worker[w] \/ \E k \in Kinds : Hold(request[r], k) = w
  BY <1>1
<1>5. OwnChange(worker, request, r, rq, worker, nextSession)
  BY <1>1, <1>2, <1>4 DEF OwnChange
<1>6. Sane(worker, request', idle, nextSession)
  BY <1>1, <1>3, <1>4, <1>5, OwnStep
<1> QED
  BY <1>6 DEF IInv

(* A request and the Bash worker it has.                                    *)
LEMMA BashMoves ==
  ASSUME IInv, NEW r \in Request, NEW rq, NEW c,
         request[r].bash # NoWorker, rq.bash = request[r].bash, rq.monty = request[r].monty,
         rq.stage = request[r].stage, RequestOK(rq),
         nextSession' \in Nat, nextSession <= nextSession',
         c.kind = "bash", ChildOK(c, nextSession'), ShellTalk(rq, c),
         Moved(r, rq), worker' = Becomes(request[r].bash, c), idle' = idle
  PROVE  IInv'
<1>1. /\ nextSession \in Nat /\ worker \in [Worker -> Child]
      /\ \A w \in Worker : ChildOK(worker[w], nextSession)
      /\ Sane(worker, request, idle, nextSession) /\ request[r].bash \in Worker
  BY Holds DEF IInv, Sane
<1>w. PICK w \in Worker : w = request[r].bash
  BY <1>1
<1>2. /\ worker' \in [Worker -> Child] /\ Grown(c, worker'[w]) /\ c \in Child
      /\ ChildOK(worker'[w], nextSession') /\ worker'[w].kind = c.kind
      /\ \A x \in Worker : x # w => worker'[x] = worker[x]
  BY <1>1, <1>w, BecomesIs
<1>3. \A x \in Worker : ChildOK(worker'[x], nextSession')
  BY <1>1, <1>2, Later
<1>4. ShellTalk(rq, worker'[w])
  BY <1>2, GrownTalk
<1>5. rq.monty # NoWorker => MontyTalk(rq, worker'[rq.monty])
  <2> SUFFICES ASSUME rq.monty # NoWorker PROVE MontyTalk(rq, worker'[rq.monty])
    OBVIOUS
  <2>1. /\ request[r].monty \in Worker /\ worker[request[r].monty].kind = "monty"
        /\ worker[w].kind = "bash" /\ MontyTalk(request[r], worker[request[r].monty])
    BY <1>w, Holds
  <2>2. request[r].monty # w
    BY <2>1
  <2>3. MontyTalk(rq, worker[request[r].monty])
    BY <2>1 DEF MontyTalk
  <2> QED
    BY <1>2, <2>1, <2>2, <2>3
<1>6. \A k \in Kinds : /\ Hold(rq, k) \in {Hold(request[r], k), NoWorker}
                       /\ Hold(rq, k) # NoWorker => worker'[Hold(rq, k)].kind = k
  <2>1. rq.monty # NoWorker => worker'[rq.monty].kind = "monty"
    <3> SUFFICES ASSUME rq.monty # NoWorker PROVE worker'[rq.monty].kind = "monty"
      OBVIOUS
    <3>1. /\ request[r].monty \in Worker /\ worker[request[r].monty].kind = "monty"
          /\ worker[w].kind = "bash"
      BY <1>w, Holds
    <3> QED
      BY <1>2, <3>1
  <2> QED
    BY <1>2, <1>w, <2>1 DEF Hold, Kinds
<1>7. request' = [request EXCEPT ![r] = rq] /\ Talks(rq, worker')
  BY <1>4, <1>5, <1>w DEF Moved, Talks
<1>8. \A x \in Worker : worker'[x] = worker[x] \/ \E k \in Kinds : Hold(request[r], k) = x
  BY <1>2, <1>w, KindsAre DEF Hold
<1>9. OwnChange(worker, request, r, rq, worker', nextSession')
  BY <1>2, <1>3, <1>6, <1>7, <1>8 DEF OwnChange
<1>10. Sane(worker', request', idle, nextSession')
  BY <1>1, <1>7, <1>9, OwnStep
<1> QED
  BY <1>10 DEF IInv

(* A request and the Monty worker it has.                                   *)
LEMMA MontyMoves ==
  ASSUME IInv, NEW r \in Request, NEW rq, NEW c,
         request[r].monty # NoWorker, rq.bash = NoWorker, rq.monty = request[r].monty,
         RequestOK(rq), nextSession' = nextSession,
         c.kind = "monty", ChildOK(c, nextSession), MontyTalk(rq, c),
         Moved(r, rq), worker' = Becomes(request[r].monty, c), idle' = idle
  PROVE  IInv'
<1>1. /\ nextSession \in Nat /\ worker \in [Worker -> Child]
      /\ \A w \in Worker : ChildOK(worker[w], nextSession)
      /\ Sane(worker, request, idle, nextSession) /\ request[r].monty \in Worker
  BY Holds DEF IInv, Sane
<1>w. PICK w \in Worker : w = request[r].monty
  BY <1>1
<1>2. /\ worker' \in [Worker -> Child] /\ Grown(c, worker'[w]) /\ c \in Child
      /\ ChildOK(worker'[w], nextSession) /\ worker'[w].kind = c.kind
      /\ \A x \in Worker : x # w => worker'[x] = worker[x]
  BY <1>1, <1>w, BecomesIs
<1>3. \A x \in Worker : ChildOK(worker'[x], nextSession)
  BY <1>1, <1>2
<1>4. MontyTalk(rq, worker'[w])
  BY <1>2, GrownTalk
<1>a. Hold(rq, "bash") = NoWorker /\ Hold(rq, "monty") = w /\ Hold(request[r], "monty") = w
  BY <1>w DEF Hold
<1>6. \A k \in Kinds : /\ Hold(rq, k) \in {Hold(request[r], k), NoWorker}
                       /\ Hold(rq, k) # NoWorker => worker'[Hold(rq, k)].kind = k
  BY <1>2, <1>a, KindsAre
<1>7. request' = [request EXCEPT ![r] = rq] /\ Talks(rq, worker')
  BY <1>4, <1>w DEF Moved, Talks
<1>8. \A x \in Worker : worker'[x] = worker[x] \/ \E k \in Kinds : Hold(request[r], k) = x
  BY <1>2, <1>a, KindsAre
<1>b. nextSession <= nextSession
  BY <1>1
<1>9. OwnChange(worker, request, r, rq, worker', nextSession)
  BY <1>2, <1>3, <1>6, <1>7, <1>8 DEF OwnChange
<1>10. Sane(worker', request', idle, nextSession)
  BY <1>1, <1>7, <1>9, <1>b, OwnStep
<1> QED
  BY <1>10 DEF IInv

(* A worker alone.                                                          *)
LEMMA GuestMoves ==
  ASSUME IInv, NEW w \in Worker, NEW c,
         ChildOK(c, nextSession), c.kind = worker[w].kind, worker' = Becomes(w, c),
         \A g \in {"idle", "empty"} : Fresh(worker[w], g) => Fresh(c, g),
         \A rq : RequestOK(rq) /\ c.kind = "bash" /\ ShellTalk(rq, worker[w]) => ShellTalk(rq, c),
         \A rq : RequestOK(rq) /\ c.kind = "monty" /\ MontyTalk(rq, worker[w]) => MontyTalk(rq, c),
         UNCHANGED <<request, idle, nextSession>>
  PROVE  IInv'
<1>1. /\ worker \in [Worker -> Child] /\ Sane(worker, request, idle, nextSession)
  BY DEF IInv, Sane
<1>2. /\ Grown(c, worker'[w]) /\ c \in Child
      /\ ChildOK(worker'[w], nextSession) /\ worker'[w].kind = c.kind
      /\ worker' = [worker EXCEPT ![w] = worker'[w]]
  BY <1>1, BecomesIs
<1>3. PICK p : p = worker'[w]
  OBVIOUS
<1>4. /\ \A g \in {"idle", "empty"} : Fresh(worker[w], g) => Fresh(p, g)
      /\ \A r \in Request : RequestOK(request[r]) /\ p.kind = "bash"
         /\ ShellTalk(request[r], worker[w]) => ShellTalk(request[r], p)
      /\ \A r \in Request : RequestOK(request[r]) /\ p.kind = "monty"
         /\ MontyTalk(request[r], worker[w]) => MontyTalk(request[r], p)
  BY <1>2, <1>3, GrownTalk
<1>5. \A W2 : W2 = worker' => Sane(W2, request, idle, nextSession)
  BY <1>1, <1>2, <1>3, <1>4, GuestStep
<1> QED
  BY <1>5 DEF IInv

-----------------------------------------------------------------------------
(* What a request can hear next.                                            *)

(* What the channel offers is the first frame there is.                     *)
LEMMA Channel ==
  ASSUME NEW c \in Child, c.channel # <<>>
  PROVE  Stream(c) # <<>> /\ Head(c.channel) = Stream(c)[1] /\ Head(c.channel) \in Frames
<1>1. PICK d : d = [c EXCEPT !.channel = Tail(@)]
  OBVIOUS
<1>2. Stream(c) # <<>> /\ Head(c.channel) = Stream(c)[1]
  BY <1>1, TakenIs
<1>3. PICK u \in Seq(Frames) : u = c.channel
  BY DEF Child
<1>4. u # <<>> => Head(u) \in Frames
  OBVIOUS
<1> QED
  BY <1>2, <1>3, <1>4

(* What a call awaits is all that can be on its way to it.                  *)
LEMMA Awaits ==
  ASSUME NEW c \in Child, NEW s \in Nat, NEW q \in Nat, AwaitTalk(c, s, q)
  PROVE  Awaited(Stream(c), s, q)
<1>1. /\ Frame("Call", s, q) \in Frames /\ Frame("Done", s, q) \in Frames
      /\ Frame("Ready", s, q) \in Frames /\ Signal("Malformed") \in Frames
      /\ Signal("Malformed").is = "Malformed"
  BY FrameIs, SignalIs DEF Words
<1>a. PICK a \in Frames : a = Frame("Call", s, q)
  BY <1>1
<1>b. PICK b \in Frames : b = Frame("Done", s, q)
  BY <1>1
<1>c. PICK d \in Frames : d = Frame("Ready", s, q)
  BY <1>1
<1>d. PICK e \in Frames : e = Signal("Malformed")
  BY <1>1
<1>2. <<a>>[1] = a /\ <<e>>[1] = e /\ <<b>>[1] = b /\ Len(<<b>>) = 1
  BY Literal
<1>3. <<b, d>>[1] = b /\ <<b, d>>[2] = d
  BY Literal
<1> QED
  BY <1>1, <1>a, <1>b, <1>c, <1>d, <1>2, <1>3 DEF AwaitTalk, Awaited

(* What a call that has its Done can still get.                             *)
LEMMA Readies ==
  ASSUME NEW c \in Child, NEW s \in Nat, NEW q \in Nat, ReadyTalk(c, s, q)
  PROVE  Readied(Stream(c), s, q)
<1>1. Frame("Ready", s, q) \in Frames
  BY FrameIs DEF Words
<1>c. PICK d \in Frames : d = Frame("Ready", s, q)
  BY <1>1
<1>2. <<d>>[1] = d
  BY Literal
<1> QED
  BY <1>1, <1>c, <1>2 DEF ReadyTalk, Readied

(* No answer of a Bash worker is out of order.                              *)
LEMMA InOrder ==
  ASSUME IInv, NEW r \in Request, request[r].shell \in {"await", "ready"}
  PROVE  ~OutOfOrder(r)
<1>1. /\ request[r].bash # NoWorker /\ request[r].session \in Nat /\ request[r].sequence \in Nat
      /\ worker[request[r].bash] \in Child /\ ShellTalk(request[r], worker[request[r].bash])
  BY Holds DEF RequestOK, WithBash, Requests
<1>2. PICK c \in Child : c = worker[request[r].bash]
  BY <1>1
<1>3. c.channel # <<>> =>
        Stream(c) # <<>> /\ Head(c.channel) = Stream(c)[1] /\ Head(c.channel) \in Frames
  BY Channel
<1>4. \A is, s, q : Frame(is, s, q).is = is
  BY DEF Frame
<1>5. CASE request[r].shell = "await"
  <2>1. Awaited(Stream(c), request[r].session, request[r].sequence)
    BY <1>1, <1>2, <1>5, Awaits DEF ShellTalk
  <2> QED
    BY <1>2, <1>3, <1>4, <1>5, <2>1 DEF OutOfOrder, Expected, Offered, Awaited
<1>6. CASE request[r].shell = "ready"
  <2>1. Readied(Stream(c), request[r].session, request[r].sequence)
    BY <1>1, <1>2, <1>6, Readies DEF ShellTalk
  <2> QED
    BY <1>2, <1>3, <1>4, <1>6, <2>1 DEF OutOfOrder, Expected, Offered, Readied
<1> QED
  BY <1>5, <1>6

(* What a request says of its workers is said by where it stands.           *)
LEMMA SameTalk ==
  ASSUME NEW p, NEW q, NEW c
  PROVE  /\ p.stage = q.stage /\ MontyTalk(p, c) => MontyTalk(q, c)
         /\ /\ p.shell = q.shell /\ p.keep = q.keep /\ p.session = q.session
            /\ p.sequence = q.sequence /\ ShellTalk(p, c)
            => ShellTalk(q, c)
<1>1. p.stage = q.stage /\ MontyTalk(p, c) => MontyTalk(q, c)
  BY DEF MontyTalk
<1>2. /\ p.shell = q.shell /\ p.keep = q.keep /\ p.session = q.session
      /\ p.sequence = q.sequence /\ ShellTalk(p, c)
      => ShellTalk(q, c)
  BY DEF ShellTalk
<1> QED
  BY <1>1, <1>2

(* A request that goes on without talking to its workers.                   *)
LEMMA Quietly ==
  ASSUME IInv, NEW r \in Request, NEW rq, Moved(r, rq), RequestOK(rq),
         rq.bash = request[r].bash \/ rq.bash = NoWorker,
         rq.monty = request[r].monty, rq.stage = request[r].stage,
         rq.bash # NoWorker => ShellTalk(rq, worker[rq.bash]),
         worker' = worker, idle' = idle, nextSession' = nextSession
  PROVE  IInv'
<1>1. rq.monty # NoWorker => MontyTalk(rq, worker[rq.monty])
  BY Holds, SameTalk
<1>2. Talks(rq, worker)
  BY <1>1 DEF Talks
<1> QED
  BY <1>2, Shift

(* The actions of execute_with_budget, one by one.                          *)
LEMMA QueueKeeps == ASSUME IInv, NEW r \in Request, Queue(r) PROVE IInv'
<1>1. PICK rq : /\ rq = (IF Stopped(r) THEN [request[r] EXCEPT !.shell = "returned", !.answer = "failed"]
                         ELSE [request[r] EXCEPT !.shell = "queue"])
                /\ Moved(r, rq)
  BY DEF Queue
<1>2. request[r] \in Requests /\ RequestOK(request[r]) /\ request[r].shell = "called"
  BY Holds DEF Queue
<1>3. rq \in Requests
  BY <1>1, <1>2, ZenonT(60) DEF Requests, Results
<1>4. /\ rq.bash = request[r].bash /\ rq.monty = request[r].monty /\ rq.stage = request[r].stage
      /\ rq.keep = request[r].keep /\ rq.result = request[r].result
      /\ rq.shell \in {"returned", "queue"} /\ rq.answer \in {request[r].answer, "failed"}
  BY <1>1, <1>2 DEF Requests
<1>5. rq.bash = NoWorker
  BY <1>2, <1>4 DEF RequestOK, WithBash
<1>6. RequestOK(rq)
  BY <1>2, <1>3, <1>4, <1>5 DEF RequestOK, WithBash
<1> QED
  BY <1>1, <1>4, <1>5, <1>6, Quietly DEF Queue

(* A call stopped in the queue returns.                                     *)
LEMMA GiveUpKeeps == ASSUME IInv, NEW r \in Request, GiveUp(r) PROVE IInv'
<1>1. PICK rq : /\ rq = [request[r] EXCEPT !.shell = "returned", !.answer = "failed"]
                /\ Moved(r, rq)
  BY DEF GiveUp
<1>2. request[r] \in Requests /\ RequestOK(request[r]) /\ request[r].shell = "queue"
  BY Holds DEF GiveUp
<1>3. rq \in Requests
  BY <1>1, <1>2 DEF Requests, Results
<1>4. /\ rq.bash = request[r].bash /\ rq.monty = request[r].monty /\ rq.stage = request[r].stage
      /\ rq.keep = request[r].keep /\ rq.result = request[r].result
      /\ rq.shell = "returned" /\ rq.answer = "failed"
  BY <1>1, <1>2 DEF Requests
<1>5. rq.bash = NoWorker
  BY <1>2, <1>4 DEF RequestOK, WithBash
<1>6. RequestOK(rq)
  BY <1>2, <1>3, <1>4, <1>5 DEF RequestOK, WithBash
<1> QED
  BY <1>1, <1>4, <1>5, <1>6, Quietly DEF GiveUp

(* A spawn that fails leaves the lease to be released.                      *)
LEMMA SpawnFailsKeeps == ASSUME IInv, NEW r \in Request, SpawnFails(r) PROVE IInv'
<1>1. PICK rq : /\ rq = [Leased(r) EXCEPT !.shell = "release", !.answer = "failed"]
                /\ Moved(r, rq)
  BY DEF SpawnFails
<1>2. request[r] \in Requests /\ RequestOK(request[r]) /\ request[r].shell = "queue"
  BY Holds DEF SpawnFails
<1>3. rq \in Requests
  BY <1>1, <1>2 DEF Requests, Results, Leased
<1>4. /\ rq.bash = request[r].bash /\ rq.monty = request[r].monty /\ rq.stage = request[r].stage
      /\ rq.keep = request[r].keep /\ rq.result = request[r].result
      /\ rq.shell = "release" /\ rq.answer = "failed"
  BY <1>1, <1>2 DEF Requests, Leased
<1>5. rq.bash = NoWorker
  BY <1>2, <1>4 DEF RequestOK, WithBash
<1>6. RequestOK(rq)
  BY <1>2, <1>3, <1>4, <1>5 DEF RequestOK, WithBash
<1> QED
  BY <1>1, <1>4, <1>5, <1>6, Quietly DEF SpawnFails

(* A worker that fails while it is used is dirty, and is dropped.           *)
LEMMA BreakKeeps == ASSUME IInv, NEW r \in Request, Break(r) PROVE IInv'
<1>1. PICK rq : /\ rq = [Failing(r) EXCEPT !.answer = IF OutOfOrder(r) THEN "protocol" ELSE "failed"]
                /\ Moved(r, rq)
  BY DEF Break
<1>2. /\ request[r] \in Requests /\ RequestOK(request[r]) /\ request[r].shell \in {"await", "ready"}
      /\ ~OutOfOrder(r)
  BY Holds, InOrder DEF Break
<1>3. rq \in Requests
  <2>1. PICK q \in Requests : q = request[r]
    BY <1>2
  <2>2. rq = [q EXCEPT !.shell = "release", !.answer = "failed"]
    BY <1>1, <1>2, <2>1 DEF Requests, Failing
  <2> QED
    BY <2>2 DEF Requests, Results
<1>4. /\ rq.bash = request[r].bash /\ rq.monty = request[r].monty /\ rq.stage = request[r].stage
      /\ rq.keep = request[r].keep /\ rq.result = request[r].result
      /\ rq.shell = "release" /\ rq.answer = "failed"
  BY <1>1, <1>2 DEF Requests, Failing
<1>5. /\ request[r].bash # NoWorker /\ ~request[r].keep
      /\ ShellTalk(request[r], worker[request[r].bash])
  BY <1>2, Holds DEF RequestOK, WithBash
<1>6. RequestOK(rq)
  BY <1>2, <1>3, <1>4, <1>5 DEF RequestOK, WithBash
<1>7. ShellTalk(rq, worker[rq.bash])
  BY <1>2, <1>4, <1>5 DEF ShellTalk
<1> QED
  BY <1>1, <1>4, <1>6, <1>7, Quietly DEF Break

(* A deadline or a cancellation changes nothing but the request.            *)
LEMMA InterruptKeeps == ASSUME IInv, NEW r \in Request, Interrupt(r) PROVE IInv'
<1>1. PICK stop \in {"late", "cancelled"} : request' = [request EXCEPT ![r].stop = stop]
  BY DEF Interrupt
<1>2. PICK rq : rq = [request[r] EXCEPT !.stop = stop]
  OBVIOUS
<1>3. Moved(r, rq)
  BY <1>1, <1>2 DEF Moved
<1>4. request[r] \in Requests /\ RequestOK(request[r])
  BY Holds
<1>5. rq \in Requests
  BY <1>2, <1>4 DEF Requests
<1>6. /\ rq.bash = request[r].bash /\ rq.monty = request[r].monty /\ rq.stage = request[r].stage
      /\ rq.keep = request[r].keep /\ rq.result = request[r].result
      /\ rq.shell = request[r].shell /\ rq.answer = request[r].answer
      /\ rq.session = request[r].session /\ rq.sequence = request[r].sequence
  BY <1>2, <1>4 DEF Requests
<1>7. RequestOK(rq)
  BY <1>4, <1>5, <1>6 DEF RequestOK
<1>8. rq.bash # NoWorker => ShellTalk(rq, worker[rq.bash])
  BY <1>6, Holds, SameTalk
<1> QED
  BY <1>3, <1>6, <1>7, <1>8, Quietly DEF Interrupt

(* A Bash request calls execute_with_budget.                                *)
LEMMA StartShellKeeps == ASSUME IInv, NEW r \in Request, StartShell(r) PROVE IInv'
<1>1. PICK rq : /\ rq = [request[r] EXCEPT !.stage = "shell", !.shell = "called"]
                /\ Moved(r, rq)
  BY DEF StartShell
<1>2. request[r] \in Requests /\ RequestOK(request[r]) /\ request[r].stage = "start"
  BY Holds DEF StartShell, At
<1>3. rq \in Requests
  BY <1>1, <1>2 DEF Requests
<1>4. /\ rq.bash = request[r].bash /\ rq.monty = request[r].monty /\ rq.stage = "shell"
      /\ rq.keep = request[r].keep /\ rq.result = request[r].result
      /\ rq.shell = "called" /\ rq.answer = request[r].answer
  BY <1>1, <1>2 DEF Requests
<1>5. rq.bash = NoWorker /\ rq.monty = NoWorker
  BY <1>2, <1>4 DEF RequestOK, WithBash, WithMonty
<1>6. RequestOK(rq)
  BY <1>2, <1>3, <1>4, <1>5 DEF RequestOK, WithBash, WithMonty
<1>7. Talks(rq, worker)
  BY <1>5 DEF Talks
<1>8. worker' = worker /\ idle' = idle /\ nextSession' = nextSession
  BY DEF StartShell
<1>9. Moved(r, rq)
  BY <1>1
<1> QED
  BY <1>5, <1>6, <1>7, <1>8, <1>9, Shift

(* What is left of a request that has returned, whatever it returned.       *)
LEMMA EndedIs ==
  ASSUME IInv, NEW r \in Request, NEW result \in Results \ {"protocol"}, NEW rq,
         rq = Ended(r, result)
  PROVE  /\ rq \in Requests /\ RequestOK(rq) /\ rq.bash = NoWorker /\ rq.monty = NoWorker
         /\ Talks(rq, worker)
<1>1. request[r] \in Requests
  BY Holds
<1>2. /\ rq.stage = "end" /\ rq.result = result /\ rq.shell = "none" /\ rq.answer = "none"
      /\ rq.bash = NoWorker /\ rq.monty = NoWorker /\ rq.keep = FALSE
  BY DEF Ended, Idling
<1>3. request[r].kind \in {"bash", "monty", "plain"}
  BY <1>1 DEF Requests
<1>4. rq \in Requests
  BY <1>3 DEF Requests, Ended, Idling, Results
<1>5. RequestOK(rq)
  BY <1>2, <1>4 DEF RequestOK, WithMonty, WithBash
<1> QED
  BY <1>2, <1>4, <1>5 DEF Talks

(* A Bash request returns what its call returned.                           *)
LEMMA EndShellKeeps == ASSUME IInv, NEW r \in Request, EndShell(r) PROVE IInv'
<1>1. request[r].answer \in Results \ {"protocol"}
  BY Holds DEF RequestOK, Requests
<1>2. PICK rq : rq = Ended(r, request[r].answer) /\ Moved(r, rq)
  BY DEF EndShell
<1>3. RequestOK(rq) /\ rq.bash = NoWorker /\ rq.monty = NoWorker /\ Talks(rq, worker)
  BY <1>1, <1>2, EndedIs, SMTT(60)
<1> QED
  BY <1>2, <1>3, Shift DEF EndShell

-----------------------------------------------------------------------------
(* The host takes a frame.                                                  *)
LEMMA TakenOK ==
  ASSUME NEW c, NEW n, ChildOK(c, n), c.channel # <<>>, NEW d, d = [c EXCEPT !.channel = Tail(@)]
  PROVE  /\ d \in Child /\ ChildOK(d, n) /\ Stream(d) = Tail(Stream(c)) /\ Stream(d) \in Seq(Frames)
         /\ Len(Stream(d)) = Len(Stream(c)) - 1 /\ Len(Stream(c)) \in Nat /\ Len(Stream(c)) >= 1
         /\ \A i \in 1..Len(Stream(d)) : Stream(d)[i] = Stream(c)[i + 1]
         /\ Len(Stream(c)) = 1 => Stream(d) = <<>>
         /\ d.kind = c.kind /\ d.guest = c.guest /\ d.toGuest = c.toGuest
         /\ d.session = c.session /\ d.sequence = c.sequence /\ d.clean = c.clean
         /\ d.offended = c.offended /\ d.listening = c.listening /\ d.reading = c.reading
         /\ d.executions = c.executions /\ Len(d.channel) <= Room /\ Wired(d)
<1>1. c \in Child
  BY DEF ChildOK
<1>2. /\ d \in Child /\ d = [c EXCEPT !.channel = d.channel]
      /\ Stream(d) = Tail(Stream(c))
      /\ Len(d.channel) <= Len(c.channel)
      /\ Stream(c) # <<>>
  BY <1>1, TakenIs
<1>3. /\ d.kind = c.kind /\ d.guest = c.guest /\ d.toGuest = c.toGuest
      /\ d.session = c.session /\ d.sequence = c.sequence /\ d.clean = c.clean
      /\ d.offended = c.offended /\ d.listening = c.listening /\ d.reading = c.reading
      /\ d.executions = c.executions
  BY <1>1, <1>2 DEF Child
<1>4. PICK f \in Seq(Frames) : f = Stream(c)
  BY <1>1, StreamIs
<1>5. PICK g : g = Tail(f)
  OBVIOUS
<1>6. /\ g \in Seq(Frames) /\ Len(g) = Len(f) - 1 /\ Len(f) \in Nat /\ Len(f) >= 1
      /\ \A i \in 1..Len(g) : g[i] = f[i + 1]
      /\ DOMAIN f = 1..Len(f) /\ DOMAIN g = 1..Len(g)
  BY <1>2, <1>4, <1>5, HeadTailProperties
<1>7. Len(f) = 1 => g = <<>>
  BY <1>6
<1>8. \A i \in DOMAIN g : i + 1 \in DOMAIN f /\ g[i] = f[i + 1]
  BY <1>6
<1>9. Wired(d)
  <2>1. Stream(d) = g
    BY <1>2, <1>4, <1>5
  <2>2. Alive(c) => c.reading /\ c.listening /\ \A i \in DOMAIN f : f[i].is # "Malformed"
    BY <1>4 DEF ChildOK, Wired
  <2>3. (\A i \in DOMAIN f : f[i].is # "Malformed") => \A i \in DOMAIN g : g[i].is # "Malformed"
    BY <1>8
  <2> QED
    BY <1>3, <2>1, <2>2, <2>3 DEF Wired, Alive
<1>10. Len(d.channel) <= Room
  <2>1. Len(c.channel) \in Nat /\ Len(d.channel) \in Nat /\ Len(c.channel) <= Room
    <3>1. c.channel \in Seq(Frames) /\ d.channel \in Seq(Frames)
      BY <1>1, <1>2, StreamIs
    <3> QED
      BY <3>1 DEF ChildOK
  <2> QED
    BY <1>2, <2>1, WorkerAssumption
<1>11. (MontyHears(c) => MontyHears(d)) /\ (BashHears(c, n) => BashHears(d, n))
  BY <1>3 DEF MontyHears, BashHears
<1>12. ChildOK(d, n)
  BY <1>2, <1>3, <1>9, <1>10, <1>11 DEF ChildOK
<1> QED
  BY <1>2, <1>3, <1>4, <1>5, <1>6, <1>7, <1>9, <1>10, <1>12, ZenonT(60)

(* A child's mark does not matter to it.                                    *)
LEMMA Marked ==
  ASSUME NEW c, NEW n, ChildOK(c, n), NEW d \in Child,
         d = [c EXCEPT !.executions = d.executions, !.clean = d.clean]
  PROVE  /\ ChildOK(d, n) /\ Stream(d) = Stream(c)
         /\ d.kind = c.kind /\ d.guest = c.guest /\ d.toGuest = c.toGuest
         /\ d.session = c.session /\ d.sequence = c.sequence /\ d.channel = c.channel
<1>1. c \in Child
  BY DEF ChildOK
<1>2. /\ d.kind = c.kind /\ d.guest = c.guest /\ d.toGuest = c.toGuest
      /\ d.session = c.session /\ d.sequence = c.sequence
      /\ d.offended = c.offended /\ d.listening = c.listening /\ d.reading = c.reading
      /\ d.channel = c.channel /\ d.toHost = c.toHost
  BY <1>1 DEF Child
<1>3. Stream(d) = Stream(c)
  BY <1>2 DEF Stream
<1>4. Wired(d)
  BY <1>2, <1>3 DEF ChildOK, Wired, Alive
<1>5. (MontyHears(c) => MontyHears(d)) /\ (BashHears(c, n) => BashHears(d, n))
  BY <1>2 DEF MontyHears, BashHears
<1> QED
  BY <1>2, <1>3, <1>4, <1>5 DEF ChildOK

(* What is offered is the first frame of the stream.                        *)
LEMMA OfferedIs ==
  ASSUME NEW w, worker[w] \in Child, Offered(w) # "nothing"
  PROVE  /\ worker[w].channel # <<>> /\ Head(worker[w].channel) = Stream(worker[w])[1]
         /\ Offered(w) = Stream(worker[w])[1].is
         /\ Stream(worker[w]) # <<>> /\ Head(worker[w].channel) \in Frames
<1>1. worker[w].channel # <<>> /\ Offered(w) = Head(worker[w].channel).is
  BY DEF Offered
<1>2. PICK c \in Child : c = worker[w]
  OBVIOUS
<1>3. Stream(c) # <<>> /\ Head(c.channel) = Stream(c)[1] /\ Head(c.channel) \in Frames
  BY <1>1, <1>2, Channel
<1> QED
  BY <1>1, <1>2, <1>3

(* The Hello is taken, or the new worker is retired.                        *)
LEMMA HandshakeKeeps == ASSUME IInv, NEW r \in Request, Handshake(r) PROVE IInv'
<1>1. PICK w : w = request[r].bash
  OBVIOUS
<1>2. /\ request[r] \in Requests /\ RequestOK(request[r]) /\ request[r].shell = "hello"
      /\ w \in Worker /\ w # NoWorker /\ worker[w] \in Child /\ worker[w].kind = "bash"
      /\ ChildOK(worker[w], nextSession) /\ ShellTalk(request[r], worker[w]) /\ nextSession \in Nat
  BY <1>1, Holds DEF Handshake, RequestOK, WithBash
<1>3. CASE Offered(w) = "Hello" /\ worker' = Becomes(w, [Taken(w) EXCEPT !.clean = TRUE])
           /\ Moved(r, [request[r] EXCEPT !.shell = "run"])
  <2>1. PICK rq : rq = [request[r] EXCEPT !.shell = "run"]
    OBVIOUS
  <2>2. rq \in Requests /\ Moved(r, rq)
    BY <1>2, <1>3, <2>1 DEF Requests, WithBash
  <2>3. /\ rq.bash = request[r].bash /\ rq.monty = request[r].monty /\ rq.stage = request[r].stage
        /\ rq.keep = request[r].keep /\ rq.result = request[r].result
        /\ rq.shell = "run" /\ rq.answer = request[r].answer
    BY <1>2, <2>1 DEF Requests
  <2>4. RequestOK(rq)
    BY <1>2, <2>2, <2>3 DEF RequestOK, WithBash
  <2>5. PICK d : d = Taken(w)
    OBVIOUS
  <2>6. worker[w].channel # <<>> /\ Stream(worker[w]) # <<>>
    BY <1>2, <1>3, OfferedIs
  <2>7. /\ ChildOK(d, nextSession) /\ d.kind = "bash" /\ d.guest = worker[w].guest
        /\ d.toGuest = worker[w].toGuest
        /\ Len(Stream(worker[w])) = 1 => Stream(d) = <<>>
    BY <1>2, <2>5, <2>6, TakenOK DEF Taken
  <2>8. PICK c : c = [d EXCEPT !.clean = TRUE]
    OBVIOUS
  <2>9. /\ ChildOK(c, nextSession) /\ c.kind = "bash" /\ c.guest = worker[w].guest
        /\ c.toGuest = worker[w].toGuest /\ Stream(c) = Stream(d)
    <3>1. d \in Child
      BY <2>7 DEF ChildOK
    <3>2. c \in Child /\ c = [d EXCEPT !.executions = c.executions, !.clean = c.clean]
      BY <2>8, <3>1 DEF Child
    <3> QED
      BY <2>7, <3>2, Marked
  <2>10. Fresh(c, "idle")
    BY <1>2, <2>6, <2>7, <2>9 DEF ShellTalk, One, Quiet, Fresh
  <2>11. ShellTalk(rq, c)
    BY <2>3, <2>10 DEF ShellTalk
  <2>12. worker' = Becomes(w, c) /\ nextSession' = nextSession /\ idle' = idle
    BY <1>3, <2>5, <2>8 DEF Handshake
  <2>13. nextSession' \in Nat /\ nextSession <= nextSession'
    BY <1>2, <2>12
  <2> QED
    BY <1>1, <1>2, <2>2, <2>3, <2>4, <2>9, <2>11, <2>12, <2>13, BashMoves
<1>4. CASE Moved(r, [request[r] EXCEPT !.shell = "retire", !.answer = "failed"]) /\ worker' = worker
  <2>1. PICK rq : rq = [request[r] EXCEPT !.shell = "retire", !.answer = "failed"]
    OBVIOUS
  <2>2. rq \in Requests /\ Moved(r, rq)
    BY <1>2, <1>4, <2>1 DEF Requests, WithBash, Results
  <2>3. /\ rq.bash = request[r].bash /\ rq.monty = request[r].monty /\ rq.stage = request[r].stage
        /\ rq.keep = request[r].keep /\ rq.result = request[r].result
        /\ rq.shell = "retire" /\ rq.answer = "failed"
    BY <1>2, <2>1 DEF Requests
  <2>4. RequestOK(rq) /\ ~rq.keep
    BY <1>2, <2>2, <2>3 DEF RequestOK, WithBash
  <2>5. ShellTalk(rq, worker[w])
    BY <1>2, <2>3, <2>4 DEF ShellTalk
  <2>6. nextSession' = nextSession /\ idle' = idle
    BY DEF Handshake
  <2> QED
    BY <1>1, <1>4, <2>2, <2>3, <2>4, <2>5, <2>6, Quietly
<1> QED
  BY <1>1, <1>3, <1>4 DEF Handshake

(* A run that fails keeps its worker until its lease is given back.         *)
LEMMA FailingIs ==
  ASSUME IInv, NEW r \in Request, request[r].shell \in {"run", "await", "ready"},
         NEW rq, rq = Failing(r)
  PROVE  /\ rq \in Requests /\ RequestOK(rq) /\ rq.bash = request[r].bash
         /\ rq.monty = request[r].monty /\ rq.stage = request[r].stage
         /\ rq.shell = "release" /\ ~rq.keep
         /\ \A c : ~c.clean => ShellTalk(rq, c)
<1>1. request[r] \in Requests /\ RequestOK(request[r])
  BY Holds
<1>2. rq \in Requests
  BY <1>1, ZenonT(60) DEF Requests, Results, Failing
<1>3. /\ rq.bash = request[r].bash /\ rq.monty = request[r].monty /\ rq.stage = request[r].stage
      /\ rq.keep = request[r].keep /\ rq.result = request[r].result
      /\ rq.shell = "release" /\ rq.answer = "failed"
  BY <1>1 DEF Requests, Failing
<1>4. ~rq.keep /\ RequestOK(rq)
  BY <1>1, <1>2, <1>3 DEF RequestOK, WithBash
<1>5. \A c : ~c.clean => ShellTalk(rq, c)
  BY <1>3, <1>4 DEF ShellTalk
<1> QED
  BY <1>2, <1>3, <1>4, <1>5

(* The host tells a child that waits for it.                                *)
LEMMA ToldIs ==
  ASSUME NEW c \in Child, c.toGuest = <<>>, NEW f \in Frames,
         NEW d \in Child, d.toGuest = Append(c.toGuest, f)
  PROVE  d.toGuest = <<f>> /\ Len(d.toGuest) = 1 /\ d.toGuest[1] = f
  BY Literal

(* A run starts a session greater than any before.                          *)
LEMMA RunKeeps == ASSUME IInv, NEW r \in Request, Run(r) PROVE IInv'
<1>1. PICK w : w = request[r].bash
  OBVIOUS
<1>2. /\ request[r] \in Requests /\ RequestOK(request[r]) /\ request[r].shell = "run"
      /\ w \in Worker /\ w # NoWorker /\ worker[w] \in Child /\ worker[w].kind = "bash"
      /\ ChildOK(worker[w], nextSession) /\ ShellTalk(request[r], worker[w]) /\ nextSession \in Nat
  BY <1>1, Holds DEF Run, RequestOK, WithBash
<1>3. /\ nextSession' = nextSession + 1 /\ idle' = idle
      /\ nextSession' \in Nat /\ nextSession <= nextSession'
  BY <1>2 DEF Run
<1>4. CASE Moved(r, Failing(r)) /\ worker' = [worker EXCEPT ![w].clean = FALSE]
  <2>1. PICK rq : rq = Failing(r)
    OBVIOUS
  <2>2. /\ RequestOK(rq) /\ rq.bash = request[r].bash /\ rq.monty = request[r].monty
        /\ rq.stage = request[r].stage /\ \A c : ~c.clean => ShellTalk(rq, c)
    BY <1>2, <2>1, FailingIs
  <2>3. PICK d : d = [worker[w] EXCEPT !.clean = FALSE]
    OBVIOUS
  <2>4. d \in Child /\ d = [worker[w] EXCEPT !.executions = d.executions, !.clean = d.clean]
        /\ ~d.clean
    BY <1>2, <2>3 DEF Child
  <2>5. ChildOK(d, nextSession) /\ d.kind = "bash"
    BY <1>2, <2>4, Marked
  <2>6. PICK W2 : W2 = worker'
    OBVIOUS
  <2>7. /\ worker \in [Worker -> Child] /\ Sane(worker, request, idle, nextSession)
        /\ \A x \in Worker : ChildOK(worker[x], nextSession)
    BY DEF IInv, Sane
  <2>8. /\ W2 \in [Worker -> Child] /\ W2[w] = d /\ \A x \in Worker : x # w => W2[x] = worker[x]
    BY <1>2, <1>4, <2>3, <2>4, <2>6, <2>7
  <2>9. PICK m \in Nat : m = nextSession' /\ nextSession <= m
    BY <1>3
  <2>10. \A x \in Worker : ChildOK(W2[x], m)
    BY <1>2, <2>5, <2>7, <2>8, <2>9, Later
  <2>11. /\ Hold(rq, "bash") = w /\ Hold(request[r], "bash") = w
         /\ Hold(rq, "monty") = Hold(request[r], "monty") /\ Hold(rq, "monty") = rq.monty
    BY <1>1, <2>2 DEF Hold
  <2>12. rq.monty # NoWorker =>
           /\ rq.monty \in Worker /\ W2[rq.monty] = worker[rq.monty]
           /\ worker[rq.monty].kind = "monty" /\ MontyTalk(rq, W2[rq.monty])
    <3> SUFFICES ASSUME rq.monty # NoWorker
                 PROVE  /\ rq.monty \in Worker /\ W2[rq.monty] = worker[rq.monty]
                        /\ worker[rq.monty].kind = "monty" /\ MontyTalk(rq, W2[rq.monty])
      OBVIOUS
    <3>1. /\ rq.monty \in Worker /\ worker[rq.monty].kind = "monty"
          /\ MontyTalk(request[r], worker[rq.monty])
      BY <2>2, Holds
    <3>2. W2[rq.monty] = worker[rq.monty]
      BY <1>2, <2>8, <3>1
    <3> QED
      BY <2>2, <3>1, <3>2, SameTalk
  <2>13. Talks(rq, W2)
    BY <1>1, <2>2, <2>4, <2>8, <2>12 DEF Talks
  <2>14. \A x \in Worker : W2[x] = worker[x] \/ \E k \in Kinds : Hold(request[r], k) = x
    BY <2>8, <2>11, KindsAre
  <2>15. \A k \in Kinds : /\ Hold(rq, k) \in {Hold(request[r], k), NoWorker}
                          /\ Hold(rq, k) # NoWorker => W2[Hold(rq, k)].kind = k
    BY <2>5, <2>8, <2>11, <2>12, KindsAre
  <2>16. OwnChange(worker, request, r, rq, W2, m)
    BY <2>2, <2>8, <2>10, <2>13, <2>14, <2>15 DEF OwnChange
  <2>17. PICK Q2 : Q2 = request' /\ Q2 = [request EXCEPT ![r] = rq]
    BY <1>4, <2>1 DEF Moved
  <2>18. Sane(W2, Q2, idle, m)
    BY <2>7, <2>9, <2>16, <2>17, OwnStep
  <2> QED
    BY <1>3, <2>6, <2>9, <2>17, <2>18 DEF IInv
<1>5. CASE /\ ~Gone(w)
           /\ worker' = Becomes(w, [Told(w, Frame("Run", Session(r), 0)) EXCEPT !.clean = FALSE])
           /\ Moved(r, [request[r] EXCEPT !.shell = "await", !.session = Session(r),
                                          !.sequence = 1, !.refused = FALSE])
  <2>1. PICK rq : rq = [request[r] EXCEPT !.shell = "await", !.session = nextSession,
                                          !.sequence = 1, !.refused = FALSE]
    OBVIOUS
  <2>2. rq \in Requests /\ Moved(r, rq)
    BY <1>2, <1>5, <2>1 DEF Requests, WithBash, Session
  <2>3. /\ rq.bash = request[r].bash /\ rq.monty = request[r].monty /\ rq.stage = request[r].stage
        /\ rq.keep = request[r].keep /\ rq.result = request[r].result
        /\ rq.shell = "await" /\ rq.answer = request[r].answer
        /\ rq.session = nextSession /\ rq.sequence = 1
    BY <1>2, <2>1 DEF Requests
  <2>4. RequestOK(rq)
    BY <1>2, <2>2, <2>3 DEF RequestOK, WithBash
  <2>5. Frame("Run", nextSession, 0) \in Frames
    BY <1>2, FrameIs DEF Words
  <2>6. PICK f \in Frames : f = Frame("Run", nextSession, 0)
    BY <2>5
  <2>7. PICK c : c = [worker[w] EXCEPT !.toGuest = Append(@, f), !.clean = FALSE]
    OBVIOUS
  <2>8. worker' = Becomes(w, c)
    BY <1>2, <1>5, <2>6, <2>7 DEF Told, Session, Child
  <2>9. Quiet(worker[w], "idle")
    BY <1>2, <1>5 DEF ShellTalk, Fresh, Gone
  <2>10. worker[w].toGuest = <<>> /\ worker[w].guest = "idle" /\ Stream(worker[w]) = <<>>
    BY <2>9 DEF Quiet
  <2>11. Append(worker[w].toGuest, f) \in Seq(Frames)
    BY <2>10, Literal
  <2>12. /\ c \in Child /\ c.kind = "bash" /\ c.guest = "idle" /\ ~c.clean
         /\ c.session = worker[w].session /\ c.toGuest = Append(worker[w].toGuest, f)
         /\ c.channel = worker[w].channel /\ c.toHost = worker[w].toHost
         /\ c.reading = worker[w].reading /\ c.listening = worker[w].listening
         /\ c.offended = worker[w].offended
    BY <1>2, <2>7, <2>10, <2>11 DEF Child
  <2>13. c.toGuest = <<f>> /\ Len(c.toGuest) = 1 /\ c.toGuest[1] = f
    BY <1>2, <2>10, <2>12, ToldIs
  <2>14. Stream(c) = <<>> /\ Stream(c) = Stream(worker[w])
    BY <2>10, <2>12 DEF Stream
  <2>15. f.is = "Run" /\ f.session = nextSession /\ f.sequence = 0
    BY <2>6 DEF Frame
  <2>16. c.session \in Nat /\ c.session < nextSession /\ c.session < nextSession'
    BY <1>2, <1>3, <2>12, SMTT(60) DEF ChildOK, Child
  <2>17. BashHears(c, nextSession')
    BY <1>2, <1>3, <2>12, <2>13, <2>15, <2>16 DEF BashHears
  <2>18. Wired(c)
    BY <1>2, <2>10, <2>12, <2>14 DEF ChildOK, Wired, Alive
  <2>19. ChildOK(c, nextSession')
    BY <1>2, <2>12, <2>16, <2>17, <2>18 DEF ChildOK
  <2>20. AwaitTalk(c, rq.session, rq.sequence)
    BY <2>3, <2>6, <2>12, <2>13, <2>14, <2>16 DEF AwaitTalk
  <2>21. ShellTalk(rq, c)
    BY <2>3, <2>12, <2>20 DEF ShellTalk
  <2> QED
    BY <1>1, <1>2, <1>3, <2>2, <2>3, <2>4, <2>8, <2>12, <2>19, <2>21, BashMoves
<1> QED
  BY <1>1, <1>4, <1>5 DEF Run

(* A frame that is expected is the first of the stream.                     *)
LEMMA ExpectedIs ==
  ASSUME IInv, NEW r \in Request, NEW is \in {"Call", "Done", "Ready"}, Expected(r, is),
         request[r].shell \in {"await", "ready"}, NEW w, w = request[r].bash, NEW d, d = Taken(w)
  PROVE  /\ Stream(worker[w])[1] = Frame(is, request[r].session, request[r].sequence)
         /\ Stream(worker[w]) # <<>> /\ ~worker[w].clean /\ ~d.clean
         /\ d \in Child /\ ChildOK(d, nextSession) /\ Stream(d) = Tail(Stream(worker[w]))
         /\ Stream(d) \in Seq(Frames) /\ Stream(worker[w]) \in Seq(Frames)
         /\ Len(Stream(d)) = Len(Stream(worker[w])) - 1 /\ Len(Stream(worker[w])) \in Nat
         /\ \A i \in 1..Len(Stream(d)) : Stream(d)[i] = Stream(worker[w])[i + 1]
         /\ Len(Stream(worker[w])) = 1 => Stream(d) = <<>>
         /\ d.kind = "bash" /\ d.guest = worker[w].guest /\ d.toGuest = worker[w].toGuest
         /\ d.session = worker[w].session /\ d.sequence = worker[w].sequence
         /\ request[r].session \in Nat /\ request[r].sequence \in Nat
<1>1. /\ request[r] \in Requests /\ w # NoWorker /\ worker[w] \in Child /\ worker[w].kind = "bash"
      /\ ChildOK(worker[w], nextSession) /\ ShellTalk(request[r], worker[w])
  BY Holds DEF RequestOK, WithBash
<1>2. Offered(w) # "nothing"
      /\ Head(worker[w].channel) = Frame(is, request[r].session, request[r].sequence)
  BY DEF Expected
<1>3. worker[w].channel # <<>> /\ Head(worker[w].channel) = Stream(worker[w])[1]
      /\ Stream(worker[w]) # <<>>
  BY <1>1, <1>2, OfferedIs
<1>4. ~worker[w].clean
  BY <1>1 DEF ShellTalk
<1>5. Stream(worker[w]) \in Seq(Frames)
  BY <1>1, StreamIs
<1>6. request[r].session \in Nat /\ request[r].sequence \in Nat
  BY <1>1 DEF Requests
<1>7. d = [worker[w] EXCEPT !.channel = Tail(@)]
  BY DEF Taken
<1>c. PICK c \in Child : c = worker[w]
  BY <1>1
<1>d. /\ d \in Child /\ ChildOK(d, nextSession) /\ Stream(d) = Tail(Stream(c))
      /\ Stream(d) \in Seq(Frames)
      /\ Len(Stream(d)) = Len(Stream(c)) - 1 /\ Len(Stream(c)) \in Nat
      /\ \A i \in 1..Len(Stream(d)) : Stream(d)[i] = Stream(c)[i + 1]
      /\ Len(Stream(c)) = 1 => Stream(d) = <<>>
      /\ d.kind = c.kind /\ d.guest = c.guest /\ d.toGuest = c.toGuest
      /\ d.session = c.session /\ d.sequence = c.sequence
      /\ d.clean = c.clean
  <2>1. ChildOK(c, nextSession) /\ c.channel # <<>> /\ d = [c EXCEPT !.channel = Tail(@)]
    BY <1>1, <1>3, <1>7, <1>c
  <2> QED
    BY ONLY <2>1, TakenOK, SMTT(60)
<1>8. /\ d \in Child /\ ChildOK(d, nextSession) /\ Stream(d) = Tail(Stream(worker[w]))
      /\ Stream(d) \in Seq(Frames)
      /\ Len(Stream(d)) = Len(Stream(worker[w])) - 1 /\ Len(Stream(worker[w])) \in Nat
      /\ \A i \in 1..Len(Stream(d)) : Stream(d)[i] = Stream(worker[w])[i + 1]
      /\ Len(Stream(worker[w])) = 1 => Stream(d) = <<>>
      /\ d.kind = worker[w].kind /\ d.guest = worker[w].guest /\ d.toGuest = worker[w].toGuest
      /\ d.session = worker[w].session /\ d.sequence = worker[w].sequence
      /\ d.clean = worker[w].clean
  BY <1>c, <1>d, Zenon
<1> QED
  BY <1>1, <1>2, <1>3, <1>4, <1>5, <1>6, <1>8

(* A frame is taken and the run fails on it.                                *)
LEMMA FailsOn ==
  ASSUME IInv, NEW r \in Request, NEW is \in {"Call", "Done", "Ready"}, Expected(r, is),
         request[r].shell \in {"await", "ready"}, Moved(r, Failing(r)),
         worker' = Becomes(request[r].bash, Taken(request[r].bash)),
         idle' = idle, nextSession' = nextSession
  PROVE  IInv'
<1>1. PICK w : w = request[r].bash
  OBVIOUS
<1>2. PICK d : d = Taken(w)
  OBVIOUS
<1>3. ~d.clean /\ ChildOK(d, nextSession) /\ d.kind = "bash"
  BY <1>1, <1>2, ExpectedIs
<1>4. PICK rq : rq = Failing(r)
  OBVIOUS
<1>5. /\ RequestOK(rq) /\ rq.bash = request[r].bash
      /\ rq.monty = request[r].monty /\ rq.stage = request[r].stage /\ ShellTalk(rq, d)
  BY <1>3, <1>4, FailingIs
<1>6. /\ nextSession' \in Nat /\ nextSession <= nextSession' /\ nextSession \in Nat
      /\ request[r].bash # NoWorker
  BY Holds DEF RequestOK, WithBash
<1>7. worker' = Becomes(request[r].bash, d) /\ Moved(r, rq) /\ ChildOK(d, nextSession')
  BY <1>1, <1>2, <1>3, <1>4
<1> QED
  BY <1>3, <1>5, <1>6, <1>7, BashMoves

(* A call of the guest is answered, or ends the execution.                  *)
LEMMA ServeKeeps == ASSUME IInv, NEW r \in Request, Serve(r) PROVE IInv'
<1>1. PICK w : w = request[r].bash
  OBVIOUS
<1>a. /\ request[r] \in Requests /\ RequestOK(request[r]) /\ request[r].shell = "await"
      /\ w \in Worker /\ w # NoWorker /\ worker[w] \in Child /\ worker[w].kind = "bash"
      /\ ChildOK(worker[w], nextSession) /\ ShellTalk(request[r], worker[w]) /\ nextSession \in Nat
  BY <1>1, Holds DEF Serve, RequestOK, WithBash
<1>b. Expected(r, "Call") /\ idle' = idle /\ nextSession' = nextSession
  BY DEF Serve
<1>2. /\ request[r] \in Requests /\ RequestOK(request[r]) /\ request[r].shell = "await"
      /\ w \in Worker /\ w # NoWorker /\ worker[w] \in Child /\ worker[w].kind = "bash"
      /\ ChildOK(worker[w], nextSession) /\ ShellTalk(request[r], worker[w]) /\ nextSession \in Nat
      /\ Expected(r, "Call") /\ idle' = idle /\ nextSession' = nextSession
      /\ nextSession' \in Nat /\ nextSession <= nextSession'
  BY <1>a, <1>b
<1>3. CASE Moved(r, Failing(r)) /\ worker' = Becomes(w, Taken(w))
  BY <1>1, <1>2, <1>3, FailsOn
<1>4. ASSUME NEW refused \in {request[r].refused, TRUE}, ~Gone(w),
             Moved(r, [request[r] EXCEPT !.sequence = @ + 1, !.refused = refused]),
             worker' = Becomes(w, [Taken(w) EXCEPT !.toGuest =
                             Append(@, Frame("Reply", request[r].session, request[r].sequence))])
      PROVE  IInv'
  <2>1. PICK d : d = Taken(w)
    OBVIOUS
  <2>2. PICK s \in Nat : s = request[r].session
    BY <1>2 DEF Requests
  <2>3. PICK q \in Nat : q = request[r].sequence
    BY <1>2 DEF Requests
  <2>4. PICK rq : rq = [request[r] EXCEPT !.sequence = @ + 1, !.refused = refused]
    OBVIOUS
  <2>m. Moved(r, rq)
    BY <1>4, <2>4, Zenon DEF Moved
  <2>k. request[r].sequence + 1 \in Nat
    BY <2>3
  <2>l. request[r].refused \in BOOLEAN
    BY <1>2 DEF Requests
  <2>n. request[r].sequence + 1 \in Nat /\ refused \in BOOLEAN
    BY <2>k, <2>l, Zenon
  <2>p. [request[r] EXCEPT !.sequence = @ + 1] \in Requests
    BY <1>2, <2>n DEF Requests
  <2>q. rq \in Requests
    BY <2>4, <2>n, <2>p DEF Requests
  <2>5. rq \in Requests /\ Moved(r, rq)
    BY <2>m, <2>q
  <2>6. /\ rq.bash = request[r].bash /\ rq.monty = request[r].monty /\ rq.stage = request[r].stage
        /\ rq.keep = request[r].keep /\ rq.result = request[r].result
        /\ rq.shell = "await" /\ rq.answer = request[r].answer
        /\ rq.session = s /\ rq.sequence = q + 1
    BY <1>2, <2>2, <2>3, <2>4 DEF Requests
  <2>7. RequestOK(rq)
    BY <1>2, <2>5, <2>6 DEF RequestOK
  <2>8. /\ Stream(worker[w])[1] = Frame("Call", s, q) /\ Stream(worker[w]) # <<>> /\ ~d.clean
        /\ d \in Child /\ ChildOK(d, nextSession)
        /\ Len(Stream(worker[w])) = 1 => Stream(d) = <<>>
        /\ d.kind = "bash" /\ d.guest = worker[w].guest /\ d.toGuest = worker[w].toGuest
        /\ d.session = worker[w].session /\ d.sequence = worker[w].sequence
    BY <1>1, <1>2, <2>1, <2>2, <2>3, ExpectedIs
  <2>9. /\ worker[w].guest = "calling" /\ worker[w].toGuest = <<>> /\ worker[w].session = s
        /\ worker[w].sequence = q /\ Len(Stream(worker[w])) = 1
    <3>1. AwaitTalk(worker[w], s, q) /\ worker[w].guest # "dead"
      BY <1>2, <1>4, <2>2, <2>3 DEF ShellTalk, Gone
    <3>2. /\ Frame("Done", s, q) \in Frames /\ Frame("Ready", s, q) \in Frames
          /\ Signal("Malformed") \in Frames /\ Frame("Call", s, q) \in Frames
      BY FrameIs, SignalIs DEF Words
    <3>a. PICK a \in Frames : a = Frame("Call", s, q)
      BY <3>2
    <3>b. PICK b \in Frames : b = Frame("Done", s, q)
      BY <3>2
    <3>c. PICK e \in Frames : e = Frame("Ready", s, q)
      BY <3>2
    <3>d. PICK m \in Frames : m = Signal("Malformed")
      BY <3>2
    <3>3. a # b /\ a # m
      BY <3>a, <3>b, <3>d DEF Frame, Signal
    <3>4. <<a>>[1] = a /\ Len(<<a>>) = 1 /\ <<b>>[1] = b /\ <<b, e>>[1] = b /\ <<m>>[1] = m
      BY Literal
    <3> QED
      BY <2>8, <3>1, <3>3, <3>4, <3>a, <3>b, <3>c, <3>d DEF AwaitTalk
  <2>10. Frame("Reply", s, q) \in Frames
    BY FrameIs DEF Words
  <2>11. PICK f \in Frames : f = Frame("Reply", s, q)
    BY <2>10
  <2>12. PICK c : c = [d EXCEPT !.toGuest = Append(@, f)]
    OBVIOUS
  <2>13. worker' = Becomes(w, c)
    BY <1>4, <2>1, <2>2, <2>3, <2>11, <2>12
  <2>14. d.toGuest = <<>> /\ Append(d.toGuest, f) \in Seq(Frames)
    BY <2>8, <2>9, Literal
  <2>15. /\ c \in Child /\ c.kind = "bash" /\ c.guest = "calling" /\ ~c.clean
         /\ c.session = s /\ c.sequence = q /\ c.toGuest = Append(d.toGuest, f)
         /\ c.channel = d.channel /\ c.toHost = d.toHost
         /\ c.reading = d.reading /\ c.listening = d.listening /\ c.offended = d.offended
    BY <2>8, <2>9, <2>12, <2>14 DEF Child
  <2>16. c.toGuest = <<f>> /\ Len(c.toGuest) = 1 /\ c.toGuest[1] = f
    BY <2>8, <2>14, <2>15, ToldIs
  <2>17. Stream(c) = <<>> /\ Stream(c) = Stream(d)
    BY <2>8, <2>9, <2>15 DEF Stream
  <2>18. BashHears(c, nextSession)
    BY <2>11, <2>15, <2>16 DEF BashHears
  <2>19. Wired(c)
    BY <2>8, <2>9, <2>15, <2>17 DEF ChildOK, Wired, Alive
  <2>20. ChildOK(c, nextSession)
    <3>1. Len(c.channel) <= Room /\ ~c.offended /\ c.session < nextSession
      BY <2>8, <2>9, <2>15 DEF ChildOK
    <3> QED
      BY <2>15, <2>18, <2>19, <3>1 DEF ChildOK
  <2>21. AwaitTalk(c, rq.session, rq.sequence)
    BY <2>6, <2>11, <2>15, <2>16, <2>17 DEF AwaitTalk
  <2>22. ShellTalk(rq, c)
    BY <2>6, <2>15, <2>21 DEF ShellTalk
  <2>23. ChildOK(c, nextSession')
    BY <1>2, <2>20
  <2> QED
    BY <1>1, <1>2, <2>5, <2>6, <2>7, <2>13, <2>15, <2>23, <2>22, BashMoves
<1> QED
  BY <1>1, <1>3, <1>4 DEF Serve

(* The Done is taken.                                                       *)
LEMMA TakeDoneKeeps == ASSUME IInv, NEW r \in Request, TakeDone(r) PROVE IInv'
<1>1. PICK w : w = request[r].bash
  OBVIOUS
<1>2. /\ request[r] \in Requests /\ RequestOK(request[r]) /\ request[r].shell = "await"
      /\ w \in Worker /\ w # NoWorker /\ worker[w] \in Child /\ worker[w].kind = "bash"
      /\ ChildOK(worker[w], nextSession) /\ ShellTalk(request[r], worker[w]) /\ nextSession \in Nat
      /\ Expected(r, "Done") /\ idle' = idle /\ nextSession' = nextSession
      /\ nextSession' \in Nat /\ nextSession <= nextSession'
      /\ worker' = Becomes(w, Taken(w))
  BY <1>1, Holds DEF TakeDone, RequestOK, WithBash
<1>3. CASE Moved(r, Failing(r))
  BY <1>1, <1>2, <1>3, FailsOn
<1>4. CASE Moved(r, [request[r] EXCEPT !.shell = "ready"])
  <2>1. PICK c : c = Taken(w)
    OBVIOUS
  <2>2. PICK s \in Nat : s = request[r].session
    BY <1>2 DEF Requests
  <2>3. PICK q \in Nat : q = request[r].sequence
    BY <1>2 DEF Requests
  <2>4. PICK rq : rq = [request[r] EXCEPT !.shell = "ready"]
    OBVIOUS
  <2>5. rq \in Requests /\ Moved(r, rq)
    BY <1>2, <1>4, <2>4 DEF Requests, WithBash
  <2>6. /\ rq.bash = request[r].bash /\ rq.monty = request[r].monty /\ rq.stage = request[r].stage
        /\ rq.keep = request[r].keep /\ rq.result = request[r].result
        /\ rq.shell = "ready" /\ rq.answer = request[r].answer
        /\ rq.session = s /\ rq.sequence = q
    BY <1>2, <2>2, <2>3, <2>4 DEF Requests
  <2>7. RequestOK(rq)
    BY <1>2, <2>5, <2>6 DEF RequestOK, WithBash
  <2>a. PICK f \in Seq(Frames) : f = Stream(worker[w])
    BY <1>2, StreamIs
  <2>g. PICK g : g = Stream(c)
    OBVIOUS
  <2>i. /\ Stream(worker[w])[1] = Frame("Done", request[r].session, request[r].sequence)
        /\ Stream(worker[w]) # <<>> /\ ~c.clean
        /\ c \in Child /\ ChildOK(c, nextSession) /\ Stream(c) = Tail(Stream(worker[w]))
        /\ Stream(c) \in Seq(Frames)
        /\ Len(Stream(c)) = Len(Stream(worker[w])) - 1 /\ Len(Stream(worker[w])) \in Nat
        /\ \A i \in 1..Len(Stream(c)) : Stream(c)[i] = Stream(worker[w])[i + 1]
        /\ Len(Stream(worker[w])) = 1 => Stream(c) = <<>>
        /\ c.kind = "bash" /\ c.guest = worker[w].guest /\ c.toGuest = worker[w].toGuest
        /\ c.session = worker[w].session /\ c.sequence = worker[w].sequence
    BY <1>1, <1>2, <2>1, ExpectedIs, SMTT(60)
  <2>8. /\ f[1] = Frame("Done", s, q) /\ f # <<>> /\ ~c.clean
        /\ c \in Child /\ ChildOK(c, nextSession)
        /\ Len(f) = 1 => g = <<>>
        /\ g \in Seq(Frames) /\ Len(g) = Len(f) - 1 /\ \A i \in 1..Len(g) : g[i] = f[i + 1]
        /\ g = Tail(f) /\ Len(f) \in Nat
        /\ c.kind = "bash" /\ c.guest = worker[w].guest /\ c.toGuest = worker[w].toGuest
        /\ c.session = worker[w].session /\ c.sequence = worker[w].sequence
    BY <2>2, <2>3, <2>a, <2>g, <2>i
  <2>9. AwaitTalk(worker[w], s, q)
    BY <1>2, <2>2, <2>3 DEF ShellTalk
  <2>10. ReadyTalk(c, s, q)
    <3>2. /\ Frame("Done", s, q) \in Frames /\ Frame("Ready", s, q) \in Frames
          /\ Signal("Malformed") \in Frames /\ Frame("Call", s, q) \in Frames
      BY FrameIs, SignalIs DEF Words
    <3>a. PICK a \in Frames : a = Frame("Call", s, q)
      BY <3>2
    <3>b. PICK b \in Frames : b = Frame("Done", s, q)
      BY <3>2
    <3>c. PICK e \in Frames : e = Frame("Ready", s, q)
      BY <3>2
    <3>d. PICK m \in Frames : m = Signal("Malformed")
      BY <3>2
    <3>3. a # b /\ b # m /\ b.is = "Done" /\ b.is \notin {"Eof", "Malformed"}
      BY <3>a, <3>b, <3>d DEF Frame, Signal
    <3>4. <<a>>[1] = a /\ <<b>>[1] = b /\ Len(<<b>>) = 1 /\ <<b, e>>[1] = b /\ <<m>>[1] = m
      BY Literal
    <3>5. Tail(<<b, e>>) = <<e>>
      BY Literal
    <3>6. CASE worker[w].guest = "dead"
      <4>1. Awaited(f, s, q)
        BY <2>9, <2>a, <3>6 DEF AwaitTalk
      <4>2. Len(f) = 1 \/ f[2] = e \/ f[2].is \in {"Eof", "Malformed"}
        BY <2>8, <3>3, <3>a, <3>b, <3>c, <4>1 DEF Awaited
      <4>3. Len(f) # 1 /\ g # <<>> => g[1] = f[2]
        BY <2>8
      <4>4. Readied(g, s, q)
        BY <2>8, <3>c, <4>2, <4>3 DEF Readied
      <4> QED
        BY <2>8, <2>g, <3>6, <4>4 DEF ReadyTalk
    <3>7. CASE worker[w].guest = "reset" /\ f = <<b>>
      BY <2>8, <2>9, <2>a, <2>g, <3>4, <3>7 DEF AwaitTalk, ReadyTalk
    <3>8. CASE worker[w].guest = "idle" /\ worker[w].toGuest = <<>> /\ f = <<b, e>>
      BY <2>8, <2>a, <2>g, <3>5, <3>8, <3>c DEF ReadyTalk
    <3> QED
      BY <2>8, <2>9, <2>a, <3>3, <3>4, <3>6, <3>7, <3>8, <3>a, <3>b, <3>c, <3>d DEF AwaitTalk
  <2>11. ShellTalk(rq, c)
    BY <2>6, <2>8, <2>10 DEF ShellTalk
  <2>12. worker' = Becomes(w, c) /\ ChildOK(c, nextSession')
    BY <1>2, <2>1, <2>8
  <2> QED
    BY <1>1, <1>2, <2>5, <2>6, <2>7, <2>8, <2>11, <2>12, BashMoves
<1> QED
  BY <1>1, <1>3, <1>4 DEF TakeDone

(* The Ready is taken: only here may the worker be kept.                    *)
LEMMA TakeReadyKeeps == ASSUME IInv, NEW r \in Request, TakeReady(r) PROVE IInv'
<1>1. PICK w : w = request[r].bash
  OBVIOUS
<1>a. /\ request[r] \in Requests /\ RequestOK(request[r]) /\ request[r].shell = "ready"
      /\ w \in Worker /\ w # NoWorker /\ worker[w] \in Child /\ worker[w].kind = "bash"
      /\ ChildOK(worker[w], nextSession) /\ ShellTalk(request[r], worker[w]) /\ nextSession \in Nat
  BY <1>1, Holds DEF TakeReady, RequestOK, WithBash
<1>b. Expected(r, "Ready") /\ idle' = idle /\ nextSession' = nextSession
  BY DEF TakeReady
<1>2. nextSession' \in Nat /\ nextSession <= nextSession'
  BY <1>a, <1>b
<1>3. PICK answer \in {"ok", "failed"}, keep \in BOOLEAN :
        Moved(r, [request[r] EXCEPT !.shell = "release", !.answer = answer, !.keep = keep])
  BY <1>1 DEF TakeReady
<1>4. worker' = Becomes(w, [Taken(w) EXCEPT !.executions = @ + 1, !.clean = TRUE])
  BY <1>1 DEF TakeReady
<1>5. PICK d : d = Taken(w)
  OBVIOUS
<1>6. PICK s \in Nat : s = request[r].session
  BY <1>a DEF Requests
<1>7. PICK q \in Nat : q = request[r].sequence
  BY <1>a DEF Requests
<1>8. /\ Stream(worker[w])[1] = Frame("Ready", s, q) /\ Stream(worker[w]) # <<>>
      /\ d \in Child /\ ChildOK(d, nextSession)
      /\ Len(Stream(worker[w])) = 1 => Stream(d) = <<>>
      /\ d.kind = "bash" /\ d.guest = worker[w].guest /\ d.toGuest = worker[w].toGuest
  BY <1>1, <1>a, <1>b, <1>5, <1>6, <1>7, ExpectedIs
<1>9. PICK c : c = [d EXCEPT !.executions = @ + 1, !.clean = TRUE]
  OBVIOUS
<1>10. c \in Child /\ c = [d EXCEPT !.executions = c.executions, !.clean = c.clean]
  <2>1. d.executions + 1 \in Nat
    BY <1>8 DEF Child
  <2> QED
    BY <1>8, <1>9, <2>1 DEF Child
<1>11. /\ ChildOK(c, nextSession) /\ Stream(c) = Stream(d)
       /\ c.kind = d.kind /\ c.guest = d.guest /\ c.toGuest = d.toGuest
  <2>1. ChildOK(d, nextSession)
    BY <1>8
  <2> QED
    BY <1>10, <2>1, Marked
<1>12. Fresh(c, "idle")
  <2>1. ReadyTalk(worker[w], s, q)
    BY <1>a, <1>6, <1>7 DEF ShellTalk
  <2>2. Frame("Ready", s, q) \in Frames
    BY FrameIs DEF Words
  <2>3. Len(<<Frame("Ready", s, q)>>) = 1
    BY <2>2, Literal
  <2> QED
    BY <1>8, <1>11, <2>1, <2>3 DEF ReadyTalk, Fresh, Quiet
<1>13. PICK rq : rq = [request[r] EXCEPT !.shell = "release", !.answer = answer, !.keep = keep]
  OBVIOUS
<1>14. rq \in Requests /\ Moved(r, rq)
  <2>1. rq \in Requests
    BY <1>a, <1>13 DEF Requests, Results
  <2> QED
    BY <1>3, <1>13, <2>1
<1>15. /\ rq.bash = request[r].bash /\ rq.monty = request[r].monty /\ rq.stage = request[r].stage
       /\ rq.result = request[r].result
       /\ rq.shell = "release" /\ rq.answer = answer
  BY <1>a, <1>13 DEF Requests
<1>16. RequestOK(rq)
  BY <1>1, <1>a, <1>14, <1>15 DEF RequestOK, WithBash
<1>17. ShellTalk(rq, c)
  BY <1>12, <1>15 DEF ShellTalk
<1>18. worker' = Becomes(w, c) /\ ChildOK(c, nextSession')
  BY <1>4, <1>5, <1>9, <1>11, <1>b
<1> QED
  BY <1>1, <1>2, <1>a, <1>b, <1>8, <1>11, <1>14, <1>15, <1>16, <1>17, <1>18, BashMoves

(* A worker is taken from the idle.                                         *)
LEMMA TakesIdle ==
  ASSUME IInv, NEW r \in Request, NEW rq, NEW K \in Kinds, idle[K] # <<>>,
         RequestOK(rq), Hold(rq, K) = Last(idle[K]),
         \A k \in Kinds : k # K => Hold(rq, k) = Hold(request[r], k),
         worker[Last(idle[K])].kind = K
         /\ Fresh(worker[Last(idle[K])], Rest[K]) => Talks(rq, worker),
         Moved(r, rq), worker' = worker, nextSession' = nextSession,
         idle' = [idle EXCEPT ![K] = Front(idle[K])]
  PROVE  IInv'
<1>1. /\ Sane(worker, request, idle, nextSession) /\ idle \in [Kinds -> Seq(Worker)]
      /\ worker \in [Worker -> Child] /\ \A x \in Worker : ChildOK(worker[x], nextSession)
      /\ Apart(worker, request, idle)
  BY DEF IInv, Sane
<1>2. PICK s \in Seq(Worker) : s = idle[K]
  BY <1>1
<1>3. PICK t : t = Front(s)
  OBVIOUS
<1>4. /\ s # <<>> /\ Len(s) \in Nat /\ Len(s) >= 1 /\ DOMAIN s = 1..Len(s)
  BY <1>2
<1>5. t \in Seq(Worker) /\ DOMAIN t = 1..(Len(s) - 1) /\ \A i \in 1..(Len(s) - 1) : t[i] = s[i]
  BY <1>3, <1>4 DEF Front
<1>6. Len(s) \in DOMAIN s /\ Last(idle[K]) = s[Len(s)]
  BY <1>2, <1>4 DEF Last
<1>7. PICK w \in Worker : w = s[Len(s)]
  BY <1>4
<1>8. worker[w].kind = K /\ Fresh(worker[w], Rest[K])
  BY <1>1, <1>2, <1>6, <1>7 DEF Apart
<1>9. PICK I2 : I2 = idle'
  OBVIOUS
<1>10. I2 \in [Kinds -> Seq(Worker)] /\ I2[K] = t /\ \A k \in Kinds : k # K => I2[k] = idle[k]
  BY <1>1, <1>2, <1>3, <1>5, <1>9
<1>11. \A k \in Kinds : \A i \in DOMAIN I2[k] :
         i \in DOMAIN idle[k] /\ idle[k][i] = I2[k][i] /\ I2[k][i] # w
  <2>1. ASSUME NEW i \in DOMAIN t PROVE i \in DOMAIN s /\ t[i] = s[i] /\ t[i] # w
    <3>1. i \in DOMAIN s /\ t[i] = s[i] /\ i # Len(s)
      BY <1>4, <1>5
    <3>2. s[i] # s[Len(s)]
      BY <1>1, <1>2, <1>6, <3>1 DEF Apart
    <3> QED
      BY <1>7, <3>1, <3>2
  <2>2. ASSUME NEW k \in Kinds, k # K, NEW i \in DOMAIN idle[k] PROVE idle[k][i] # w
    BY <1>1, <1>8, <2>2 DEF Apart
  <2> QED
    BY <1>2, <1>10, <2>1, <2>2
<1>12. \A k \in Kinds : \A x \in Request : Hold(request[x], k) # w
  BY <1>1, <1>2, <1>6, <1>7, Owners
<1>13. Talks(rq, worker)
  BY <1>6, <1>7, <1>8
<1>14. GrabChange(worker, request, idle, nextSession, r, rq, worker, I2, K, w)
  BY <1>1, <1>6, <1>7, <1>8, <1>10, <1>11, <1>12, <1>13 DEF GrabChange
<1>15. PICK Q2 : Q2 = request' /\ Q2 = [request EXCEPT ![r] = rq]
  BY DEF Moved
<1>16. Sane(worker, Q2, I2, nextSession)
  BY <1>1, <1>14, <1>15, GrabStep
<1> QED
  BY <1>9, <1>15, <1>16 DEF IInv

(* A process that has just been spawned.                                    *)
Newborn(kind, guest) ==
  [Unborn EXCEPT !.kind = kind, !.guest = guest, !.listening = TRUE, !.reading = TRUE]

(* A free process identity is in order.                                     *)
LEMMA UnbornIs ==
  ASSUME NEW n \in Nat
  PROVE  ChildOK(Unborn, n) /\ Unborn \in Child /\ Unborn.kind = "none" /\ Unborn.guest = "dead"
<1>1. <<>> \in Seq(Frames) /\ Len(<<>>) = 0
  OBVIOUS
<1>2. Unborn \in Child
  BY <1>1 DEF Unborn, Child, Guests, Kinds
<1>3. Len(Unborn.channel) <= Room
  BY <1>1, WorkerAssumption DEF Unborn
<1> QED
  BY <1>2, <1>3 DEF ChildOK, Unborn, Wired, Alive

(* A new process is in order and quiet.                                     *)
LEMMA NewbornIs ==
  ASSUME NEW n \in Nat \ {0}, NEW kind, NEW guest,
         <<kind, guest>> \in {<<"bash", "born">>, <<"monty", "empty">>}
  PROVE  LET c == Newborn(kind, guest) IN
           c \in Child /\ ChildOK(c, n) /\ c.kind = kind /\ ~c.clean /\ Quiet(c, guest)
<1>1. PICK c : c = Newborn(kind, guest)
  OBVIOUS
<1>2. <<>> \in Seq(Frames) /\ Len(<<>>) = 0 /\ <<>> \o <<>> = <<>>
  OBVIOUS
<1>3. kind \in Kinds /\ guest \in Guests
  BY DEF Kinds, Guests
<1>4. /\ c.kind = kind /\ c.guest = guest /\ c.toGuest = <<>> /\ c.channel = <<>> /\ c.toHost = <<>>
      /\ c.listening = TRUE /\ c.reading = TRUE /\ c.clean = FALSE /\ c.offended = FALSE
         /\ c.session = 0
  BY <1>1 DEF Newborn, Unborn
<1>5. c \in Child
  BY <1>1, <1>2, <1>3 DEF Newborn, Unborn, Child
<1>6. Stream(c) = <<>> /\ Quiet(c, guest)
  BY <1>2, <1>4 DEF Stream, Quiet
<1>7. Wired(c)
  BY <1>4, <1>6 DEF Wired
<1>8. Len(c.channel) <= Room
  BY <1>2, <1>4, WorkerAssumption
<1>9. MontyHears(c) /\ BashHears(c, n) /\ c.session < n
  BY <1>4 DEF MontyHears, BashHears
<1>10. ChildOK(c, n)
  BY <1>4, <1>5, <1>7, <1>8, <1>9 DEF ChildOK
<1> QED
  BY <1>1, <1>4, <1>5, <1>6, <1>10

(* The process to be spawned next is nobody's.                              *)
LEMMA FreeIsNobodys ==
  ASSUME IInv, Free # {}
  PROVE  /\ NextFree \in Worker /\ worker[NextFree].kind = "none"
         /\ \A k \in Kinds : \A s \in Request : Hold(request[s], k) # NextFree
         /\ \A k \in Kinds : \A i \in DOMAIN idle[k] : idle[k][i] # NextFree
<1>1. Free \subseteq Nat
  BY WorkerAssumption DEF Free
<1>2. \E m \in Free : \A x \in Free : m <= x
  BY <1>1, LeastElement
<1>3. NextFree \in Free
  BY <1>2 DEF NextFree
<1>4. PICK w : w = NextFree
  OBVIOUS
<1>5. w \in Worker /\ worker[w].kind = "none"
  BY <1>3, <1>4 DEF Free
<1>6. "none" \notin Kinds /\ w # NoWorker
  BY <1>5, WorkerAssumption DEF Kinds
<1>7. \A k \in Kinds : \A s \in Request : Hold(request[s], k) # w
  BY <1>5, <1>6 DEF IInv, Sane, Apart
<1>8. \A k \in Kinds : \A i \in DOMAIN idle[k] : idle[k][i] # w
  BY <1>5, <1>6 DEF IInv, Sane, Apart
<1> QED
  BY <1>4, <1>5, <1>7, <1>8

(* A request gets a process nobody had.                                     *)
LEMMA SpawnsNew ==
  ASSUME IInv, Free # {}, NEW r \in Request, NEW rq, NEW K, NEW guest,
         <<K, guest>> \in {<<"bash", "born">>, <<"monty", "empty">>},
         RequestOK(rq), Hold(rq, K) = NextFree,
         \A k \in Kinds : k # K => Hold(rq, k) = Hold(request[r], k),
         worker' = Spawned(K, guest),
         ~worker'[NextFree].clean /\ Quiet(worker'[NextFree], guest) => Talks(rq, worker'),
         Moved(r, rq), nextSession' = nextSession, idle' = idle
  PROVE  IInv'
<1>1. /\ Sane(worker, request, idle, nextSession) /\ idle \in [Kinds -> Seq(Worker)]
      /\ worker \in [Worker -> Child] /\ \A x \in Worker : ChildOK(worker[x], nextSession)
      /\ Apart(worker, request, idle) /\ nextSession \in Nat \ {0}
  BY DEF IInv, Sane
<1>2. PICK w : w = NextFree
  OBVIOUS
<1>3. /\ w \in Worker
      /\ \A k \in Kinds : \A s \in Request : Hold(request[s], k) # w
      /\ \A k \in Kinds : \A i \in DOMAIN idle[k] : idle[k][i] # w
  BY <1>2, FreeIsNobodys
<1>4. PICK c : c = Newborn(K, guest)
  OBVIOUS
<1>5. c \in Child /\ ChildOK(c, nextSession) /\ c.kind = K /\ ~c.clean /\ Quiet(c, guest)
  BY <1>1, <1>4, NewbornIs
<1>6. PICK W2 : W2 = worker'
  OBVIOUS
<1>7. W2 = [worker EXCEPT ![w] = c]
  BY <1>2, <1>4, <1>6 DEF Spawned, Newborn
<1>8. W2 \in [Worker -> Child] /\ W2[w] = c /\ \A x \in Worker : x # w => W2[x] = worker[x]
  BY <1>1, <1>3, <1>5, <1>7
<1>9. \A x \in Worker : ChildOK(W2[x], nextSession)
  BY <1>1, <1>5, <1>8
<1>10. Talks(rq, W2)
  BY <1>2, <1>5, <1>6, <1>8
<1>11. \A k \in Kinds : \A i \in DOMAIN idle[k] :
         i \in DOMAIN idle[k] /\ idle[k][i] = idle[k][i] /\ idle[k][i] # w
  BY <1>3
<1>12. GrabChange(worker, request, idle, nextSession, r, rq, W2, idle, K, w)
  BY <1>1, <1>2, <1>3, <1>5, <1>8, <1>9, <1>10, <1>11 DEF GrabChange
<1>13. PICK Q2 : Q2 = request' /\ Q2 = [request EXCEPT ![r] = rq]
  BY DEF Moved
<1>a. K \in Kinds
  BY DEF Kinds
<1>14. Sane(W2, Q2, idle, nextSession)
  BY <1>1, <1>3, <1>12, <1>13, <1>a, GrabStep
<1> QED
  BY <1>6, <1>13, <1>14 DEF IInv

(* A worker is left among the idle.                                         *)
LEMMA ParksIdle ==
  ASSUME IInv, NEW r \in Request, NEW rq, NEW K \in Kinds,
         NEW w, w = Hold(request[r], K), w # NoWorker,
         RequestOK(rq), Hold(rq, K) = NoWorker,
         \A k \in Kinds : k # K => Hold(rq, k) = Hold(request[r], k),
         Talks(rq, worker'), Moved(r, rq), nextSession' = nextSession,
         worker' \in [Worker -> Child], worker'[w].kind = K, Fresh(worker'[w], Rest[K]),
         ChildOK(worker'[w], nextSession),
         \A x \in Worker : x # w => worker'[x] = worker[x],
         idle' = [idle EXCEPT ![K] = Append(idle[K], w)]
  PROVE  IInv'
<1>1. /\ Sane(worker, request, idle, nextSession)
         /\ \A x \in Worker : ChildOK(worker[x], nextSession)
  BY DEF IInv, Sane
<1>2. w \in Worker
  BY <1>1, Owners
<1>3. PICK W2 : W2 = worker'
  OBVIOUS
<1>4. \A x \in Worker : ChildOK(W2[x], nextSession)
  BY <1>1, <1>3
<1>5. PICK I2 : I2 = idle'
  OBVIOUS
<1>6. ParkChange(worker, request, idle, nextSession, r, rq, W2, I2, K, w)
  BY <1>3, <1>4, <1>5 DEF ParkChange
<1>7. PICK Q2 : Q2 = request' /\ Q2 = [request EXCEPT ![r] = rq]
  BY DEF Moved
<1>8. Sane(W2, Q2, I2, nextSession)
  <2>1. /\ Sane(worker, request, idle, nextSession) /\ w \in Worker
        /\ ParkChange(worker, request, idle, nextSession, r, rq, W2, I2, K, w)
        /\ Q2 = [request EXCEPT ![r] = rq] /\ r \in Request /\ K \in Kinds
    BY <1>1, <1>2, <1>6, <1>7
  <2> QED
    BY ONLY <2>1, ParkStep
<1> QED
  BY <1>3, <1>5, <1>7, <1>8 DEF IInv

(* A parked Bash worker is leased.                                          *)
LEMMA TakeIdleKeeps == ASSUME IInv, NEW r \in Request, TakeIdle(r) PROVE IInv'
<1>1. /\ request[r] \in Requests /\ RequestOK(request[r]) /\ request[r].shell = "queue"
      /\ idle \in [Kinds -> Seq(Worker)]
  BY Holds DEF TakeIdle, IInv, Sane
<1>2. PICK w : w = Last(idle["bash"])
  OBVIOUS
<1>3. idle["bash"] # <<>> /\ idle["bash"] \in Seq(Worker)
  BY <1>1, KindsAre DEF TakeIdle
<1>4. w \in Worker
  <2>1. PICK s \in Seq(Worker) : s = idle["bash"]
    BY <1>3
  <2>2. s # <<>> => s[Len(s)] \in Worker
    OBVIOUS
  <2> QED
    BY <1>2, <1>3, <2>1, <2>2 DEF Last
<1>5. PICK rq : rq = [Leased(r) EXCEPT !.shell = "run", !.bash = w]
  OBVIOUS
<1>6. Moved(r, rq)
  BY <1>2, <1>5 DEF TakeIdle
<1>7. rq \in Requests
  BY <1>1, <1>4, <1>5 DEF Requests, Leased, WithBash
<1>8. /\ rq.bash = w /\ rq.monty = request[r].monty /\ rq.stage = request[r].stage
      /\ rq.keep = request[r].keep /\ rq.result = request[r].result
      /\ rq.shell = "run" /\ rq.answer = request[r].answer
  BY <1>1, <1>5 DEF Requests, Leased
<1>9. w # NoWorker
  BY <1>4, WorkerAssumption
<1>10. RequestOK(rq)
  BY <1>1, <1>7, <1>8, <1>9 DEF RequestOK, WithBash
<1>11. /\ Hold(rq, "bash") = Last(idle["bash"])
       /\ \A k \in Kinds : k # "bash" => Hold(rq, k) = Hold(request[r], k)
  BY <1>2, <1>8, KindsAre DEF Hold
<1>12. rq.monty # NoWorker => MontyTalk(rq, worker[rq.monty])
  BY <1>8, Holds, SameTalk
<1>13. Rest["bash"] = "idle"
  BY DEF Rest
<1>14. Fresh(worker[w], "idle") => Talks(rq, worker)
  BY <1>8, <1>12 DEF Talks, ShellTalk
<1>15. worker' = worker /\ nextSession' = nextSession
       /\ idle' = [idle EXCEPT !["bash"] = Front(idle["bash"])]
  BY DEF TakeIdle
<1>16. worker[Last(idle["bash"])].kind = "bash"
       /\ Fresh(worker[Last(idle["bash"])], Rest["bash"]) => Talks(rq, worker)
  BY <1>2, <1>13, <1>14
<1> QED
  BY <1>3, <1>6, <1>10, <1>11, <1>15, <1>16, KindsAre, TakesIdle

(* A new Bash worker is leased.                                             *)
LEMMA SpawnKeeps == ASSUME IInv, NEW r \in Request, Spawn(r) PROVE IInv'
<1>1. /\ request[r] \in Requests /\ RequestOK(request[r]) /\ request[r].shell = "queue" /\ Free # {}
  BY Holds DEF Spawn
<1>2. PICK w : w = NextFree
  OBVIOUS
<1>4. w \in Worker /\ w # NoWorker
  BY <1>1, <1>2, FreeIsNobodys, WorkerAssumption
<1>5. PICK rq : rq = [Leased(r) EXCEPT !.shell = "hello", !.bash = w]
  OBVIOUS
<1>6. Moved(r, rq)
  BY <1>2, <1>5 DEF Spawn
<1>7. rq \in Requests
  BY <1>1, <1>4, <1>5 DEF Requests, Leased, WithBash
<1>8. /\ rq.bash = w /\ rq.monty = request[r].monty /\ rq.stage = request[r].stage
      /\ rq.keep = request[r].keep /\ rq.result = request[r].result
      /\ rq.shell = "hello" /\ rq.answer = request[r].answer
  BY <1>1, <1>5 DEF Requests, Leased
<1>10. RequestOK(rq)
  BY <1>1, <1>4, <1>7, <1>8 DEF RequestOK, WithBash
<1>11. /\ Hold(rq, "bash") = NextFree
       /\ \A k \in Kinds : k # "bash" => Hold(rq, k) = Hold(request[r], k)
  BY <1>2, <1>8, KindsAre DEF Hold
<1>12. worker' = Spawned("bash", "born") /\ nextSession' = nextSession /\ idle' = idle
  BY DEF Spawn
<1>13. rq.monty # NoWorker => MontyTalk(rq, worker'[rq.monty])
  <2> SUFFICES ASSUME rq.monty # NoWorker PROVE MontyTalk(rq, worker'[rq.monty])
    OBVIOUS
  <2>1. rq.monty \in Worker /\ MontyTalk(rq, worker[rq.monty])
    BY <1>8, Holds, SameTalk
  <2>2. Hold(request[r], "monty") # w
    BY <1>1, <1>2, FreeIsNobodys, KindsAre
  <2>3. rq.monty # w
    BY <1>8, <2>2 DEF Hold
  <2>4. worker \in [Worker -> Child]
    BY DEF IInv, Sane
  <2>5. worker'[rq.monty] = worker[rq.monty]
    BY <1>2, <1>12, <2>1, <2>3, <2>4 DEF Spawned
  <2> QED
    BY <2>1, <2>5
<1>14. ~worker'[NextFree].clean /\ Quiet(worker'[NextFree], "born") => Talks(rq, worker')
  BY <1>2, <1>8, <1>13 DEF Talks, ShellTalk
<1>15. <<"bash", "born">> \in {<<"bash", "born">>, <<"monty", "empty">>}
  OBVIOUS
<1> QED
  BY <1>1, <1>6, <1>10, <1>11, <1>12, <1>14, <1>15, SpawnsNew

(* Lease::drop: a worker kept is at rest.                                   *)
LEMMA ReleaseKeeps == ASSUME IInv, NEW r \in Request, Release(r) PROVE IInv'
<1>1. /\ request[r] \in Requests /\ RequestOK(request[r]) /\ request[r].shell = "release"
      /\ idle \in [Kinds -> Seq(Worker)] /\ worker \in [Worker -> Child]
  BY Holds DEF Release, IInv, Sane
<1>2. worker' = worker /\ nextSession' = nextSession
  BY DEF Release
<1>3. PICK w : w = request[r].bash
  OBVIOUS
<1>4. CASE request[r].keep /\ Len(idle.bash) < MaxIdle
  <2>1. PICK rq : rq = [request[r] EXCEPT !.leased = FALSE, !.keep = FALSE, !.bash = NoWorker, !.shell = "returned"]
    OBVIOUS
  <2>2. Moved(r, rq) /\ idle' = [idle EXCEPT !["bash"] = Append(idle["bash"], w)]
    BY <1>3, <1>4, <2>1 DEF Release
  <2>3. rq \in Requests
    BY <1>1, <2>1 DEF Requests
  <2>4. /\ rq.bash = NoWorker /\ rq.monty = request[r].monty /\ rq.stage = request[r].stage
        /\ rq.keep = FALSE /\ rq.result = request[r].result
        /\ rq.shell = "returned" /\ rq.answer = request[r].answer
    BY <1>1, <2>1 DEF Requests
  <2>5. RequestOK(rq) /\ w # NoWorker
    BY <1>1, <1>3, <1>4, <2>3, <2>4 DEF RequestOK, WithBash
  <2>6. /\ w \in Worker /\ worker[w].kind = "bash" /\ ChildOK(worker[w], nextSession)
        /\ Fresh(worker[w], Rest["bash"])
    BY <1>1, <1>3, <1>4, <2>5, Holds DEF ShellTalk, Rest
  <2>7. /\ Hold(rq, "bash") = NoWorker /\ Hold(request[r], "bash") = w
        /\ \A k \in Kinds : k # "bash" => Hold(rq, k) = Hold(request[r], k)
    BY <1>3, <2>4, KindsAre DEF Hold
  <2>8. rq.monty # NoWorker => MontyTalk(rq, worker[rq.monty])
    BY <2>4, Holds, SameTalk
  <2>9. Talks(rq, worker)
    BY <2>4, <2>8 DEF Talks
  <2>10. /\ Talks(rq, worker') /\ worker' \in [Worker -> Child] /\ worker'[w].kind = "bash"
         /\ Fresh(worker'[w], Rest["bash"]) /\ ChildOK(worker'[w], nextSession)
         /\ \A x \in Worker : x # w => worker'[x] = worker[x]
    BY <1>1, <1>2, <2>6, <2>9
  <2>11. "bash" \in Kinds
    BY KindsAre
  <2> QED
    BY <1>2, <2>2, <2>5, <2>7, <2>10, <2>11, ParksIdle
<1>5. CASE ~(request[r].keep /\ Len(idle.bash) < MaxIdle)
  <2>1. PICK rq : rq = [request[r] EXCEPT !.leased = FALSE, !.keep = FALSE,
                          !.shell = IF request[r].bash = NoWorker THEN "returned" ELSE "retire"]
    OBVIOUS
  <2>2. Moved(r, rq) /\ idle' = idle
    BY <1>1, <1>5, <2>1 DEF Release, Requests
  <2>3. rq \in Requests
    BY <1>1, <2>1, ZenonT(60) DEF Requests, WithBash
  <2>4. /\ rq.bash = w /\ rq.monty = request[r].monty /\ rq.stage = request[r].stage
        /\ rq.keep = FALSE /\ rq.result = request[r].result
        /\ rq.shell = (IF w = NoWorker THEN "returned" ELSE "retire")
           /\ rq.answer = request[r].answer
    BY <1>1, <1>3, <2>1 DEF Requests
  <2>5. RequestOK(rq)
    BY <1>1, <1>3, <2>3, <2>4 DEF RequestOK, WithBash
  <2>6. rq.bash # NoWorker => ShellTalk(rq, worker[rq.bash])
    <3>1. rq.bash # NoWorker => ShellTalk(request[r], worker[rq.bash])
      BY <1>3, <2>4, Holds
    <3> QED
      BY <1>1, <2>4, <3>1 DEF ShellTalk
  <2> QED
    BY <1>2, <1>3, <2>2, <2>4, <2>5, <2>6, Quietly
<1> QED
  BY <1>4, <1>5

-----------------------------------------------------------------------------
(* The end of a worker.                                                     *)

(* A process that dies stays in order, and what it wrote can be read.       *)
LEMMA DeadOK ==
  ASSUME NEW c, NEW n \in Nat \ {0}, ChildOK(c, n), c.kind \in Kinds, NEW d,
         d = [c EXCEPT !.guest = "dead", !.toGuest = <<>>, !.session = 0, !.sequence = 0, !.events = 0]
  PROVE  /\ d \in Child /\ ChildOK(d, n) /\ d.kind = c.kind /\ d.guest = "dead"
         /\ Stream(d) = Stream(c) /\ d.channel = c.channel /\ d.clean = c.clean
<1>1. c \in Child
  BY DEF ChildOK
<1>2. <<>> \in Seq(Frames)
  OBVIOUS
<1>3. /\ d \in Child
      /\ d.kind = c.kind /\ d.guest = "dead" /\ d.toGuest = <<>> /\ d.session = 0
      /\ d.channel = c.channel /\ d.toHost = c.toHost /\ d.offended = c.offended
         /\ d.clean = c.clean
  BY <1>1, <1>2 DEF Child, Guests
<1>4. Stream(d) = Stream(c)
  BY <1>3 DEF Stream
<1>5. Wired(d) /\ MontyHears(d) /\ BashHears(d, n) /\ d.session < n
  BY <1>3 DEF Wired, Alive, MontyHears, BashHears
<1>6. ~d.offended /\ Len(d.channel) <= Room
  BY <1>3 DEF ChildOK
<1> QED
  BY <1>3, <1>4, <1>5, <1>6 DEF ChildOK

(* So does one that is killed.                                              *)
LEMMA KilledOK ==
  ASSUME NEW w, NEW n \in Nat \ {0}, ChildOK(worker[w], n), worker[w].kind \in Kinds,
         NEW c, c = Killed(w)
  PROVE  ChildOK(c, n) /\ c.kind = worker[w].kind
<1>1. PICK d : d = Dead(worker[w])
  OBVIOUS
<1>2. d \in Child /\ ChildOK(d, n) /\ d.kind = worker[w].kind /\ d.guest = "dead"
  <2>1. PICK e : e = worker[w]
    OBVIOUS
  <2>2. d = [e EXCEPT !.guest = "dead", !.toGuest = <<>>, !.session = 0, !.sequence = 0, !.events = 0]
    BY <1>1, <2>1 DEF Dead
  <2>3. ChildOK(e, n) /\ e.kind \in Kinds
    BY <2>1
  <2>4. d \in Child /\ ChildOK(d, n) /\ d.kind = e.kind /\ d.guest = "dead"
    BY ONLY <2>2, <2>3, n \in Nat \ {0}, DeadOK
  <2> QED
    BY <2>1, <2>4
<1>3. c = [d EXCEPT !.listening = FALSE, !.channel = <<>>, !.clean = FALSE]
  BY <1>1 DEF Killed
<1>4. <<>> \in Seq(Frames) /\ Len(<<>>) = 0
  OBVIOUS
<1>5. /\ c \in Child /\ c.kind = d.kind /\ c.guest = "dead" /\ c.toGuest = d.toGuest
      /\ c.session = d.session /\ c.sequence = d.sequence /\ c.offended = d.offended
         /\ c.channel = <<>>
  BY <1>2, <1>3, <1>4 DEF Child
<1>6. Len(c.channel) <= Room
  BY <1>4, <1>5, WorkerAssumption
<1>7. Wired(c)
  BY <1>5 DEF Wired, Alive
<1>8. MontyHears(d) => MontyHears(c)
  BY <1>2, <1>5 DEF MontyHears
<1>9. BashHears(d, n) => BashHears(c, n)
  BY <1>2, <1>5 DEF BashHears
<1> QED
  BY <1>2, <1>5, <1>6, <1>7, <1>8, <1>9 DEF ChildOK

(* A process is reaped, and its holder lets go of it.                       *)
LEMMA Reaps ==
  ASSUME IInv, NEW r \in Request, NEW rq, NEW K \in Kinds,
         NEW w, w = Hold(request[r], K), w # NoWorker,
         RequestOK(rq), Hold(rq, K) = NoWorker,
         \A k \in Kinds : k # K => Hold(rq, k) = Hold(request[r], k),
         K = "monty" => rq.bash = NoWorker,
         rq.stage = request[r].stage \/ rq.monty = NoWorker,
         worker' = Reaped(w), Moved(r, rq), nextSession' = nextSession, idle' = idle
  PROVE  IInv'
<1>1. /\ Sane(worker, request, idle, nextSession)
         /\ \A x \in Worker : ChildOK(worker[x], nextSession)
      /\ worker \in [Worker -> Child] /\ nextSession \in Nat /\ Apart(worker, request, idle)
  BY DEF IInv, Sane
<1>2. w \in Worker
  BY <1>1, Owners
<1>3. ChildOK(Unborn, nextSession) /\ Unborn \in Child
  BY <1>1, UnbornIs
<1>4. PICK u : u = Unborn
  OBVIOUS
<1>5. PICK W2 : W2 = worker'
  OBVIOUS
<1>6. W2 = [worker EXCEPT ![w] = u]
  BY <1>4, <1>5 DEF Reaped
<1>7. /\ W2 \in [Worker -> Child] /\ \A x \in Worker : x # w => W2[x] = worker[x]
      /\ \A x \in Worker : ChildOK(W2[x], nextSession)
  BY <1>1, <1>2, <1>3, <1>4, <1>6
<1>8. \A x \in Worker : W2[x] = worker[x] \/ \E k \in Kinds : Hold(request[r], k) = x
  BY <1>7
<1>9. ASSUME NEW k \in Kinds, Hold(rq, k) # NoWorker
      PROVE  /\ k # K /\ Hold(rq, k) = Hold(request[r], k) /\ Hold(rq, k) \in Worker
             /\ W2[Hold(rq, k)] = worker[Hold(rq, k)] /\ worker[Hold(rq, k)].kind = k
  <2>1. k # K /\ Hold(rq, k) = Hold(request[r], k)
    BY <1>9
  <2>2. Hold(rq, k) \in Worker /\ Hold(rq, k) # w
    BY <1>1, <1>9, <2>1, Owners
  <2>3. worker[Hold(rq, k)].kind = k
    BY <1>1, <1>9, <2>1 DEF Apart
  <2> QED
    BY <1>7, <2>1, <2>2, <2>3
<1>10. \A k \in Kinds : /\ Hold(rq, k) \in {Hold(request[r], k), NoWorker}
                        /\ Hold(rq, k) # NoWorker => W2[Hold(rq, k)].kind = k
  BY <1>9
<1>11. Talks(rq, W2)
  <2>1. rq.bash = NoWorker
    BY KindsAre DEF Hold
  <2>2. Hold(rq, "monty") = rq.monty /\ Hold(request[r], "monty") = request[r].monty
    BY DEF Hold
  <2>3. rq.monty # NoWorker => MontyTalk(rq, W2[rq.monty])
    <3> SUFFICES ASSUME rq.monty # NoWorker PROVE MontyTalk(rq, W2[rq.monty])
      OBVIOUS
    <3>1. rq.monty = request[r].monty /\ W2[rq.monty] = worker[rq.monty]
          /\ rq.stage = request[r].stage
      BY <1>9, <2>2, KindsAre
    <3>2. MontyTalk(request[r], worker[rq.monty])
      BY <3>1, Holds
    <3> QED
      BY <3>1, <3>2, SameTalk
  <2> QED
    BY <2>1, <2>3 DEF Talks
<1>12. OwnChange(worker, request, r, rq, W2, nextSession)
  BY <1>7, <1>8, <1>10, <1>11 DEF OwnChange
<1>13. PICK Q2 : Q2 = request' /\ Q2 = [request EXCEPT ![r] = rq]
  BY DEF Moved
<1>14. nextSession <= nextSession
  BY <1>1
<1>15. Sane(W2, Q2, idle, nextSession)
  BY <1>1, <1>12, <1>13, <1>14, OwnStep
<1> QED
  BY <1>5, <1>13, <1>15 DEF IInv

(* Drop for a Bash worker.                                                  *)
LEMMA RetireKeeps == ASSUME IInv, NEW r \in Request, Retire(r) PROVE IInv'
<1>1. PICK w : w = request[r].bash
  OBVIOUS
<1>2. /\ request[r] \in Requests /\ RequestOK(request[r])
         /\ request[r].shell \in {"retire", "kill", "join"}
      /\ w \in Worker /\ w # NoWorker /\ worker[w] \in Child /\ worker[w].kind = "bash"
      /\ ChildOK(worker[w], nextSession) /\ ShellTalk(request[r], worker[w])
         /\ nextSession \in Nat \ {0}
  BY <1>1, Holds DEF Retire, RequestOK, WithBash
<1>3. idle' = idle /\ nextSession' = nextSession
  BY DEF Retire
<1>4. nextSession' \in Nat /\ nextSession <= nextSession'
  BY <1>2, <1>3
<1>5. CASE /\ request[r].shell = "retire" /\ worker' = Becomes(w, Farewell(w))
           /\ Moved(r, [request[r] EXCEPT !.shell = "kill"])
  <2>1. PICK rq : rq = [request[r] EXCEPT !.shell = "kill"]
    OBVIOUS
  <2>2. rq \in Requests /\ Moved(r, rq)
    BY <1>2, <1>5, <2>1 DEF Requests, WithBash
  <2>3. /\ rq.bash = request[r].bash /\ rq.monty = request[r].monty /\ rq.stage = request[r].stage
        /\ rq.keep = request[r].keep /\ rq.result = request[r].result
        /\ rq.shell = "kill" /\ rq.answer = request[r].answer
    BY <1>2, <2>1 DEF Requests
  <2>4. RequestOK(rq)
    BY <1>2, <1>5, <2>2, <2>3 DEF RequestOK, WithBash
  <2>5. PICK c : c = Farewell(w)
    OBVIOUS
  <2>6. ChildOK(c, nextSession) /\ c.kind = "bash"
    <3>1. CASE worker[w].clean /\ ~Gone(w)
      <4>1. Quiet(worker[w], "idle")
        BY <1>2, <1>5, <3>1 DEF ShellTalk, Fresh, Gone
      <4>2. Signal("Shutdown") \in Frames /\ Signal("Shutdown").is = "Shutdown"
        BY SignalIs DEF Words
      <4>3. PICK f \in Frames : f = Signal("Shutdown")
        BY <4>2
      <4>4. c = [worker[w] EXCEPT !.toGuest = Append(@, f)]
        BY <1>2, <2>5, <3>1, <4>3 DEF Farewell, Told
      <4>5. worker[w].toGuest = <<>> /\ worker[w].guest = "idle" /\ Stream(worker[w]) = <<>>
        BY <4>1 DEF Quiet
      <4>6. Append(worker[w].toGuest, f) \in Seq(Frames)
        BY <4>5, Literal
      <4>7. /\ c \in Child /\ c.kind = "bash" /\ c.guest = "idle"
            /\ c.session = worker[w].session /\ c.toGuest = Append(worker[w].toGuest, f)
            /\ c.channel = worker[w].channel /\ c.toHost = worker[w].toHost
            /\ c.reading = worker[w].reading /\ c.listening = worker[w].listening
            /\ c.offended = worker[w].offended
        BY <1>2, <4>4, <4>5, <4>6 DEF Child
      <4>8. c.toGuest = <<f>> /\ Len(c.toGuest) = 1 /\ c.toGuest[1] = f
        BY <1>2, <4>5, <4>7, ToldIs
      <4>9. BashHears(c, nextSession)
        BY <4>2, <4>3, <4>7, <4>8 DEF BashHears
      <4>10. Stream(c) = Stream(worker[w])
        BY <4>7 DEF Stream
      <4>11. Wired(c)
        BY <1>2, <4>5, <4>7, <4>10 DEF ChildOK, Wired, Alive
      <4>12. ~c.offended /\ Len(c.channel) <= Room /\ c.session < nextSession
        BY <1>2, <4>7 DEF ChildOK
      <4> QED
        BY <4>7, <4>9, <4>11, <4>12 DEF ChildOK
    <3>2. CASE ~(worker[w].clean /\ ~Gone(w))
      BY <1>2, <2>5, <3>2 DEF Farewell
    <3> QED
      BY <3>1, <3>2
  <2>7. ShellTalk(rq, c)
    BY <2>3 DEF ShellTalk
  <2>8. worker' = Becomes(w, c) /\ ChildOK(c, nextSession')
    BY <1>3, <1>5, <2>5, <2>6
  <2> QED
    BY <1>1, <1>2, <1>3, <1>4, <2>2, <2>3, <2>4, <2>6, <2>7, <2>8, BashMoves
<1>6. CASE /\ request[r].shell = "kill" /\ worker' = Becomes(w, Killed(w))
           /\ Moved(r, [request[r] EXCEPT !.shell = "join"])
  <2>1. PICK rq : rq = [request[r] EXCEPT !.shell = "join"]
    OBVIOUS
  <2>2. rq \in Requests /\ Moved(r, rq)
    BY <1>2, <1>6, <2>1 DEF Requests, WithBash
  <2>3. /\ rq.bash = request[r].bash /\ rq.monty = request[r].monty /\ rq.stage = request[r].stage
        /\ rq.keep = request[r].keep /\ rq.result = request[r].result
        /\ rq.shell = "join" /\ rq.answer = request[r].answer
    BY <1>2, <2>1 DEF Requests
  <2>4. RequestOK(rq)
    BY <1>2, <1>6, <2>2, <2>3 DEF RequestOK, WithBash
  <2>5. PICK c : c = Killed(w)
    OBVIOUS
  <2>6. ChildOK(c, nextSession) /\ c.kind = "bash"
    BY <1>2, <2>5, KilledOK, KindsAre
  <2>7. ShellTalk(rq, c)
    BY <2>3 DEF ShellTalk
  <2>8. worker' = Becomes(w, c) /\ ChildOK(c, nextSession')
    BY <1>3, <1>6, <2>5, <2>6
  <2> QED
    BY <1>1, <1>2, <1>3, <1>4, <2>2, <2>3, <2>4, <2>6, <2>7, <2>8, BashMoves
<1>7. CASE /\ request[r].shell = "join" /\ worker' = Reaped(w)
           /\ Moved(r, [request[r] EXCEPT !.bash = NoWorker,
                    !.shell = IF request[r].leased THEN "release" ELSE "returned"])
  <2>1. PICK rq : rq = [request[r] EXCEPT !.bash = NoWorker,
                    !.shell = IF request[r].leased THEN "release" ELSE "returned"]
    OBVIOUS
  <2>2. rq \in Requests /\ Moved(r, rq)
    BY <1>2, <1>7, <2>1 DEF Requests
  <2>3. /\ rq.bash = NoWorker /\ rq.monty = request[r].monty /\ rq.stage = request[r].stage
        /\ rq.keep = request[r].keep /\ rq.result = request[r].result
        /\ rq.shell \in {"release", "returned"} /\ rq.answer = request[r].answer
    BY <1>2, <2>1 DEF Requests
  <2>4. RequestOK(rq)
    BY <1>2, <1>7, <2>2, <2>3 DEF RequestOK, WithBash
  <2>5. /\ Hold(rq, "bash") = NoWorker /\ w = Hold(request[r], "bash")
        /\ \A k \in Kinds : k # "bash" => Hold(rq, k) = Hold(request[r], k)
    BY <1>1, <2>3, KindsAre DEF Hold
  <2>6. "bash" \in Kinds
    BY KindsAre
  <2> QED
    BY <1>2, <1>3, <1>7, <2>2, <2>3, <2>4, <2>5, <2>6, Reaps
<1> QED
  BY <1>1, <1>5, <1>6, <1>7 DEF Retire

-----------------------------------------------------------------------------
(* A Monty worker and its request.                                          *)

(* What a request is that has a Monty worker.                               *)
LEMMA HoldsMonty ==
  ASSUME IInv, NEW r \in Request, request[r].stage \in WithMonty, NEW w, w = request[r].monty
  PROVE  /\ request[r] \in Requests /\ RequestOK(request[r])
         /\ w \in Worker /\ w # NoWorker /\ worker[w] \in Child /\ worker[w].kind = "monty"
         /\ ChildOK(worker[w], nextSession) /\ MontyTalk(request[r], worker[w])
         /\ nextSession \in Nat \ {0}
         /\ request[r].stage # "tool" => request[r].shell = "none" /\ request[r].bash = NoWorker
<1>1. /\ request[r] \in Requests /\ RequestOK(request[r]) /\ w # NoWorker
  BY Holds DEF RequestOK
<1>2. /\ w \in Worker /\ w # NoWorker /\ worker[w] \in Child /\ worker[w].kind = "monty"
      /\ ChildOK(worker[w], nextSession) /\ MontyTalk(request[r], worker[w])
      /\ nextSession \in Nat \ {0}
  BY <1>1, Holds
<1>3. request[r].stage # "tool" => request[r].shell = "none" /\ request[r].bash = NoWorker
  BY <1>1 DEF RequestOK, WithMonty, WithBash
<1> QED
  BY <1>1, <1>2, <1>3

(* A request on its way to drop its worker.                                 *)
LEMMA DroppingIs ==
  ASSUME IInv, NEW r \in Request, request[r].stage \in WithMonty,
         NEW result \in Results \ {"protocol"},
         NEW rq, rq = Dropping(r, result)
  PROVE  /\ rq \in Requests /\ RequestOK(rq) /\ rq.bash = NoWorker /\ rq.monty = request[r].monty
         /\ \A c : MontyTalk(rq, c)
<1>1. request[r].monty \in Worker /\ request[r].monty # NoWorker
  BY HoldsMonty
<1>2. PICK e : e = Ended(r, result)
  OBVIOUS
<1>3. e \in Requests /\ RequestOK(e) /\ e.bash = NoWorker
  BY <1>2, EndedIs
<1>4. e.shell = "none" /\ e.keep = FALSE
  BY <1>2 DEF Ended, Idling
<1>5. rq = [e EXCEPT !.stage = "drop", !.monty = request[r].monty]
  BY <1>2 DEF Dropping
<1>6. /\ rq.bash = NoWorker /\ rq.monty = request[r].monty /\ rq.stage = "drop" /\ rq.keep = FALSE
      /\ rq.shell = "none" /\ rq.answer = e.answer /\ rq.result = e.result
  BY <1>3, <1>4, <1>5 DEF Requests
<1>7. rq \in Requests
  BY <1>1, <1>3, <1>5, ZenonT(60) DEF Requests, WithMonty
<1>8. RequestOK(rq)
  BY <1>1, <1>3, <1>6, <1>7 DEF RequestOK, WithMonty, WithBash
<1>9. \A c : MontyTalk(rq, c)
  BY <1>6 DEF MontyTalk
<1> QED
  BY <1>6, <1>7, <1>8, <1>9

(* A request leaves its worker to Drop, as it is or after a frame.          *)
LEMMA DropsQuietly ==
  ASSUME IInv, NEW r \in Request, request[r].stage \in WithMonty,
         NEW result \in Results \ {"protocol"},
         Moved(r, Dropping(r, result)), worker' = worker, idle' = idle, nextSession' = nextSession
  PROVE  IInv'
<1>1. PICK rq : rq = Dropping(r, result)
  OBVIOUS
<1>2. /\ RequestOK(rq) /\ rq.bash = NoWorker /\ rq.monty = request[r].monty
         /\ \A c : MontyTalk(rq, c)
  BY <1>1, DroppingIs
<1>3. Talks(rq, worker) /\ Moved(r, rq)
  BY <1>1, <1>2 DEF Talks
<1> QED
  BY <1>2, <1>3, Shift

(* A frame is taken and the worker given up.                                *)
LEMMA DropsOn ==
  ASSUME IInv, NEW r \in Request, request[r].stage \in WithMonty,
         NEW result \in Results \ {"protocol"},
         Moved(r, Dropping(r, result)), worker[request[r].monty].channel # <<>>,
         worker' = Becomes(request[r].monty, Taken(request[r].monty)),
         idle' = idle, nextSession' = nextSession
  PROVE  IInv'
<1>1. PICK rq : rq = Dropping(r, result)
  OBVIOUS
<1>2. /\ RequestOK(rq) /\ rq.bash = NoWorker /\ rq.monty = request[r].monty
         /\ \A c : MontyTalk(rq, c)
  BY <1>1, DroppingIs
<1>3. PICK w : w = request[r].monty
  OBVIOUS
<1>4. w # NoWorker /\ worker[w].kind = "monty" /\ ChildOK(worker[w], nextSession)
  BY <1>3, HoldsMonty
<1>5. PICK c : c = Taken(w)
  OBVIOUS
<1>6. ChildOK(c, nextSession) /\ c.kind = "monty"
  BY <1>3, <1>4, <1>5, TakenOK DEF Taken
<1>7. worker' = Becomes(request[r].monty, c) /\ Moved(r, rq) /\ MontyTalk(rq, c)
  BY <1>1, <1>2, <1>3, <1>5
<1> QED
  BY <1>2, <1>3, <1>4, <1>6, <1>7, MontyMoves

(* What a Monty worker waits for, by where it stands.                       *)
WaitsFor(guest, is) ==
  <<guest, is>> \in {<<"empty", "Configure">>, <<"configured", "Feed">>, <<"suspended", "Resume">>,
                    <<"suspended", "Reset">>, <<"finished", "Reset">>}

Instructed(c, is) == [c EXCEPT !.toGuest = Append(@, Signal(is))]

(* A request tells its worker, which waits for it, to go on.                *)
LEMMA ToldMonty ==
  ASSUME NEW c, NEW n, ChildOK(c, n), c.kind = "monty", c.toGuest = <<>>,
         NEW is \in Words, WaitsFor(c.guest, is),
         NEW d, d = Instructed(c, is)
  PROVE  /\ d \in Child /\ ChildOK(d, n) /\ d.kind = "monty" /\ d.guest = c.guest
         /\ Len(d.toGuest) = 1 /\ d.toGuest[1].is = is /\ Stream(d) = Stream(c)
<1>1. c \in Child
  BY DEF ChildOK
<1>2. Signal(is) \in Frames /\ Signal(is).is = is
  BY SignalIs
<1>3. PICK f \in Frames : f = Signal(is)
  BY <1>2
<1>4. Append(c.toGuest, f) \in Seq(Frames)
  BY Literal
<1>5. d = [c EXCEPT !.toGuest = Append(c.toGuest, f)]
  BY <1>1, <1>3 DEF Instructed, Child
<1>6. /\ d \in Child /\ d.kind = "monty" /\ d.guest = c.guest /\ d.toGuest = Append(c.toGuest, f)
      /\ d.channel = c.channel /\ d.toHost = c.toHost
      /\ d.reading = c.reading /\ d.listening = c.listening /\ d.offended = c.offended
  BY <1>1, <1>4, <1>5 DEF Child
<1>7. d.toGuest = <<f>> /\ Len(d.toGuest) = 1 /\ d.toGuest[1] = f
  BY <1>1, <1>6, ToldIs
<1>8. Stream(d) = Stream(c)
  BY <1>6 DEF Stream
<1>9. Wired(d)
  BY <1>6, <1>8 DEF ChildOK, Wired, Alive
<1>10. MontyHears(d)
  BY <1>2, <1>3, <1>6, <1>7 DEF MontyHears, WaitsFor
<1>11. ~d.offended /\ Len(d.channel) <= Room
  BY <1>6 DEF ChildOK
<1>12. d.guest \in {"empty", "configured", "running", "suspended", "finished", "stuck", "dead"}
  BY <1>6 DEF WaitsFor
<1>13. ChildOK(d, n)
  BY <1>6, <1>9, <1>10, <1>11, <1>12 DEF ChildOK
<1> QED
  BY <1>2, <1>3, <1>6, <1>7, <1>8, <1>13

(* Chatter, first frame by first frame.                                     *)
LEMMA Chat ==
  ASSUME NEW f \in Seq(Frames), NEW last, Chatter(f, last), NEW g, g = Tail(f)
  PROVE  /\ f # <<>>
         /\ f[1].is = "Print" \/ (f[1].is \in last /\ Len(f) = 1)
         /\ "Print" \notin last /\ f[1].is = "Print" => Chatter(g, last)
<1>1. /\ Len(f) \in Nat /\ Len(f) > 0 /\ f[Len(f)].is \in last
      /\ \A i \in 1..(Len(f) - 1) : f[i].is = "Print"
  BY DEF Chatter
<1>2. f # <<>>
  BY <1>1
<1>3. f[1].is = "Print" \/ (f[1].is \in last /\ Len(f) = 1)
  <2>1. CASE Len(f) = 1
    <3>1. f[1] = f[Len(f)]
      BY <2>1
    <3>2. f[1].is \in last
      BY <1>1, <3>1
    <3> QED
      BY <2>1, <3>2
  <2>2. CASE Len(f) # 1
    <3>0. PICK n \in Nat : n = Len(f)
      BY <1>1
    <3>a. n > 0 /\ n # 1
      BY <1>1, <2>2, <3>0
    <3>b. 1 \in 1..(n - 1)
      BY <3>a
    <3>1. 1 \in 1..(Len(f) - 1)
      BY <3>0, <3>b
    <3> QED
      BY <1>1, <3>1
  <2> QED
    BY <2>1, <2>2
<1>4. /\ g \in Seq(Frames) /\ Len(g) = Len(f) - 1
      /\ \A i \in 1..Len(g) : g[i] = f[i + 1]
  BY <1>2, HeadTailProperties
<1>5. ASSUME "Print" \notin last, f[1].is = "Print" PROVE Chatter(g, last)
  <2>1. Len(f) >= 2
    BY <1>1, <1>5
  <2>2. Len(g) > 0 /\ g[Len(g)] = f[Len(f)]
    BY <1>1, <1>4, <2>1
  <2>3. \A i \in 1..(Len(g) - 1) : i + 1 \in 1..(Len(f) - 1) /\ g[i] = f[i + 1]
    BY <1>1, <1>4
  <2> QED
    BY <1>1, <2>2, <2>3 DEF Chatter
<1> QED
  BY <1>2, <1>3, <1>5

(* What a turn hears next, and how it goes on.                              *)
LEMMA TurnHears ==
  ASSUME NEW c \in Child, NEW n, ChildOK(c, n), TurnTalk(c), c.channel # <<>>,
         NEW d, d = [c EXCEPT !.channel = Tail(@)]
  PROVE  /\ Head(c.channel).is # "Ok"
         /\ Head(c.channel).is = "Print" => TurnTalk(d)
         /\ Head(c.channel).is \in {"Call", "Tool", "Suspend"} /\ c.guest # "dead" =>
              /\ c.guest = "suspended" /\ c.toGuest = <<>> /\ Len(Stream(c)) = 1
                 /\ Quiet(d, "suspended")
         /\ Head(c.channel).is \in {"Complete", "Error"} /\ c.guest # "dead" => Quiet(d, "finished")
<1>1. Stream(c) # <<>> /\ Head(c.channel) = Stream(c)[1]
  BY Channel
<1>2. /\ d \in Child /\ ChildOK(d, n) /\ Stream(d) = Tail(Stream(c)) /\ Stream(d) \in Seq(Frames)
      /\ Len(Stream(c)) = 1 => Stream(d) = <<>>
      /\ d.guest = c.guest /\ d.toGuest = c.toGuest
      /\ Len(Stream(d)) = Len(Stream(c)) - 1 /\ Len(Stream(c)) \in Nat /\ Len(Stream(c)) >= 1
      /\ \A i \in 1..Len(Stream(d)) : Stream(d)[i] = Stream(c)[i + 1]
  BY TakenOK
<1>3. PICK f \in Seq(Frames) : f = Stream(c)
  BY StreamIs
<1>4. PICK g \in Seq(Frames) : g = Stream(d)
  BY <1>2
<1>5. /\ f # <<>> /\ Head(c.channel) = f[1] /\ g = Tail(f) /\ (Len(f) = 1 => g = <<>>)
      /\ DOMAIN f = 1..Len(f) /\ DOMAIN g = 1..Len(g) /\ 1 \in 1..Len(f)
      /\ \A i \in 1..Len(g) : i + 1 \in 1..Len(f) /\ g[i] = f[i + 1]
  <2>1. f # <<>> /\ Head(c.channel) = f[1] /\ g = Tail(f) /\ (Len(f) = 1 => g = <<>>)
    BY <1>1, <1>2, <1>3, <1>4
  <2>2. /\ Len(g) = Len(f) - 1 /\ Len(f) \in Nat /\ Len(f) >= 1
        /\ \A i \in 1..Len(g) : g[i] = f[i + 1]
    BY <1>2, <1>3, <1>4
  <2>3. DOMAIN f = 1..Len(f) /\ DOMAIN g = 1..Len(g)
    OBVIOUS
  <2>4. 1 \in 1..Len(f) /\ \A i \in 1..Len(g) : i + 1 \in 1..Len(f)
    BY <2>2
  <2> QED
    BY <2>1, <2>2, <2>3, <2>4
<1>6. CASE c.guest = "dead"
  <2>1. \A i \in DOMAIN f : f[i].is # "Ok"
    BY <1>3, <1>6 DEF TurnTalk
  <2>2. f[1].is # "Ok" /\ \A i \in DOMAIN g : g[i].is # "Ok"
    BY <1>5, <2>1
  <2>3. TurnTalk(d)
    BY <1>2, <1>4, <1>6, <2>2 DEF TurnTalk
  <2> QED
    BY <1>5, <1>6, <2>2, <2>3
<1>7. CASE c.guest = "configured" \/ (c.guest = "suspended" /\ Len(c.toGuest) = 1 /\ f = <<>>)
  BY <1>1, <1>3, <1>5, <1>7 DEF TurnTalk
<1>8. CASE c.guest = "running" /\ c.toGuest = <<>> /\ \A i \in DOMAIN f : f[i].is = "Print"
  <2>1. f[1].is = "Print" /\ \A i \in DOMAIN g : g[i].is = "Print"
    BY <1>5, <1>8
  <2> QED
    BY <1>2, <1>4, <1>5, <1>8, <2>1 DEF TurnTalk
<1>9. CASE c.guest = "suspended" /\ c.toGuest = <<>> /\ Chatter(f, {"Call", "Tool", "Suspend"})
  <2>1. /\ f[1].is = "Print" \/ (f[1].is \in {"Call", "Tool", "Suspend"} /\ Len(f) = 1)
        /\ f[1].is = "Print" => Chatter(g, {"Call", "Tool", "Suspend"})
    BY <1>5, <1>9, Chat
  <2> QED
    BY <1>2, <1>3, <1>4, <1>5, <1>9, <2>1 DEF TurnTalk, Quiet
<1>10. CASE c.guest = "finished" /\ c.toGuest = <<>> /\ Chatter(f, {"Complete", "Error"})
  <2>1. /\ f[1].is = "Print" \/ (f[1].is \in {"Complete", "Error"} /\ Len(f) = 1)
        /\ f[1].is = "Print" => Chatter(g, {"Complete", "Error"})
    BY <1>5, <1>10, Chat
  <2> QED
    BY <1>2, <1>3, <1>4, <1>5, <1>10, <2>1 DEF TurnTalk, Quiet
<1>11. CASE c.guest = "stuck" /\ c.toGuest = <<>> /\ Chatter(f, {"Malformed"})
  <2>1. /\ f[1].is = "Print" \/ (f[1].is \in {"Malformed"} /\ Len(f) = 1)
        /\ f[1].is = "Print" => Chatter(g, {"Malformed"})
    BY <1>5, <1>11, Chat
  <2> QED
    BY <1>2, <1>3, <1>4, <1>5, <1>11, <2>1 DEF TurnTalk, Quiet
<1> QED
  BY <1>3, <1>6, <1>7, <1>8, <1>9, <1>10, <1>11 DEF TurnTalk

-----------------------------------------------------------------------------
(* The steps of a Monty request.                                            *)

InStage(r, stage, result) == [request[r] EXCEPT !.stage = stage, !.result = result]
Beginning(r, w) == [request[r] EXCEPT !.stage = "configure", !.monty = w]

(* A request with a Monty worker that goes on to another stage.             *)
LEMMA Staged ==
  ASSUME IInv, NEW r \in Request, request[r].stage \in WithMonty \ {"tool"},
         NEW stage \in WithMonty \ {"tool"}, NEW result \in Results \ {"protocol"},
         NEW rq, rq = InStage(r, stage, result)
  PROVE  /\ RequestOK(rq) /\ rq.bash = NoWorker /\ rq.monty = request[r].monty
         /\ rq.stage = stage /\ request[r].monty # NoWorker
<1>1. PICK w : w = request[r].monty
  OBVIOUS
<1>2. /\ request[r] \in Requests /\ RequestOK(request[r]) /\ w # NoWorker
      /\ request[r].shell = "none" /\ request[r].bash = NoWorker
  BY <1>1, HoldsMonty
<1>3. rq \in Requests
  BY <1>2 DEF Requests, InStage
<1>4. /\ rq.bash = NoWorker /\ rq.monty = w /\ rq.stage = stage /\ rq.shell = "none"
      /\ rq.keep = request[r].keep /\ rq.answer = request[r].answer /\ rq.result = result
  BY <1>1, <1>2 DEF Requests, InStage
<1>5. RequestOK(rq)
  BY <1>2, <1>3, <1>4 DEF RequestOK, WithMonty
<1> QED
  BY <1>1, <1>2, <1>4, <1>5

(* The result a request keeps is none a violator earns.                     *)
LEMMA Innocent ==
  ASSUME IInv, NEW r \in Request
  PROVE  /\ request[r].result \in Results \ {"protocol"}
            /\ request[r].answer \in Results \ {"protocol"}
         /\ \A stage : [request[r] EXCEPT !.stage = stage] = InStage(r, stage, request[r].result)
<1>1. request[r] \in Requests /\ RequestOK(request[r])
  BY Holds
<1>2. request[r].result \in Results \ {"protocol"} /\ request[r].answer \in Results \ {"protocol"}
  BY <1>1 DEF RequestOK, Requests
<1> QED
  BY <1>1, <1>2 DEF Requests, InStage

(* A request ends without a worker.                                         *)
LEMMA EndsQuietly ==
  ASSUME IInv, NEW r \in Request, Moved(r, Ended(r, "failed")),
         worker' = worker, idle' = idle, nextSession' = nextSession
  PROVE  IInv'
<1>1. PICK rq : rq = Ended(r, "failed")
  OBVIOUS
<1>a. "failed" \in Results \ {"protocol"}
  BY DEF Results
<1>2. RequestOK(rq) /\ rq.bash = NoWorker /\ rq.monty = NoWorker /\ Talks(rq, worker)
      /\ Moved(r, rq)
  BY <1>1, <1>a, EndedIs
<1> QED
  BY <1>2, Shift

(* A request that begins with a worker at rest, idle or new.                *)
LEMMA Begun ==
  ASSUME IInv, NEW r \in Request, request[r].stage = "start", NEW w \in Worker,
         NEW rq, rq = Beginning(r, w)
  PROVE  /\ RequestOK(rq) /\ rq.bash = NoWorker /\ rq.monty = w /\ Hold(rq, "monty") = w
         /\ \A k \in Kinds : k # "monty" => Hold(rq, k) = Hold(request[r], k)
         /\ rq.stage = "configure"
<1>1. request[r] \in Requests /\ RequestOK(request[r])
  BY Holds
<1>2. w # NoWorker
  BY WorkerAssumption
<1>3. rq \in Requests
  BY <1>1 DEF Requests, WithMonty, Beginning
<1>4. /\ rq.bash = request[r].bash /\ rq.monty = w /\ rq.stage = "configure"
      /\ rq.shell = request[r].shell /\ rq.keep = request[r].keep
      /\ rq.answer = request[r].answer /\ rq.result = request[r].result
  BY <1>1 DEF Requests, Beginning
<1>5. request[r].shell = "none" /\ request[r].bash = NoWorker
  BY <1>1 DEF RequestOK, WithBash
<1>6. RequestOK(rq)
  BY <1>1, <1>2, <1>3, <1>4, <1>5 DEF RequestOK, WithMonty
<1>7. Hold(rq, "monty") = w /\ \A k \in Kinds : k # "monty" => Hold(rq, k) = Hold(request[r], k)
  BY <1>4, KindsAre DEF Hold
<1> QED
  BY <1>4, <1>5, <1>6, <1>7

(* A Monty request gets a parked worker, a new one, or an error.            *)
LEMMA CheckoutKeeps == ASSUME IInv, NEW r \in Request, Checkout(r) PROVE IInv'
<1>1. nextSession' = nextSession /\ request[r].stage = "start"
  BY DEF Checkout, At
<1>2. CASE Moved(r, Ended(r, "failed")) /\ UNCHANGED <<worker, idle>>
  BY <1>1, <1>2, EndsQuietly
<1>3. CASE /\ idle.monty # <<>> /\ worker' = worker
           /\ Moved(r, [request[r] EXCEPT !.stage = "configure", !.monty = Last(idle.monty)])
           /\ idle' = [idle EXCEPT !.monty = Front(@)]
  <2>1. idle["monty"] \in Seq(Worker) /\ "monty" \in Kinds
    BY KindsAre DEF IInv, Sane
  <2>2. PICK w : w = Last(idle["monty"])
    OBVIOUS
  <2>3. w \in Worker
    <3>1. PICK s \in Seq(Worker) : s = idle["monty"]
      BY <2>1
    <3>2. s # <<>> => s[Len(s)] \in Worker
      OBVIOUS
    <3> QED
      BY <1>3, <2>2, <3>1, <3>2 DEF Last
  <2>4. PICK rq : rq = Beginning(r, w)
    OBVIOUS
  <2>5. /\ RequestOK(rq) /\ Hold(rq, "monty") = w
        /\ \A k \in Kinds : k # "monty" => Hold(rq, k) = Hold(request[r], k)
        /\ rq.bash = NoWorker /\ rq.monty = w /\ rq.stage = "configure"
    BY <1>1, <2>3, <2>4, Begun
  <2>6. Rest["monty"] = "empty"
    BY DEF Rest
  <2>7. worker[Last(idle["monty"])].kind = "monty"
        /\ Fresh(worker[Last(idle["monty"])], Rest["monty"]) => Talks(rq, worker)
    BY <2>2, <2>5, <2>6 DEF Talks, MontyTalk
  <2>8. Moved(r, rq) /\ idle' = [idle EXCEPT !["monty"] = Front(idle["monty"])]
        /\ idle["monty"] # <<>>
    BY <1>3, <2>2, <2>4 DEF Beginning
  <2>9. Hold(rq, "monty") = Last(idle["monty"]) /\ worker' = worker
    BY <1>3, <2>2, <2>5
  <2> QED
    BY <1>1, <2>1, <2>5, <2>7, <2>8, <2>9, TakesIdle
<1>4. CASE /\ Free # {} /\ worker' = Spawned("monty", "empty") /\ idle' = idle
           /\ Moved(r, [request[r] EXCEPT !.stage = "configure", !.monty = NextFree])
  <2>1. PICK w : w = NextFree
    OBVIOUS
  <2>2. w \in Worker
    BY <1>4, <2>1, FreeIsNobodys
  <2>3. PICK rq : rq = Beginning(r, w)
    OBVIOUS
  <2>4. /\ RequestOK(rq) /\ Hold(rq, "monty") = w
        /\ \A k \in Kinds : k # "monty" => Hold(rq, k) = Hold(request[r], k)
        /\ rq.bash = NoWorker /\ rq.monty = w /\ rq.stage = "configure"
    BY <1>1, <2>2, <2>3, Begun
  <2>5. ~worker'[NextFree].clean /\ Quiet(worker'[NextFree], "empty") => Talks(rq, worker')
    BY <2>1, <2>4 DEF Fresh, Talks, MontyTalk
  <2>6. <<"monty", "empty">> \in {<<"bash", "born">>, <<"monty", "empty">>}
    OBVIOUS
  <2>7. Hold(rq, "monty") = NextFree /\ Moved(r, rq)
    BY <1>4, <2>1, <2>3, <2>4 DEF Beginning
  <2> QED
    BY <1>1, <1>4, <2>4, <2>5, <2>6, <2>7, SpawnsNew
<1> QED
  BY <1>2, <1>3, <1>4 DEF Checkout

(* The Configure is sent.                                                   *)
LEMMA ConfigureKeeps == ASSUME IInv, NEW r \in Request, Configure(r) PROVE IInv'
<1>1. /\ request[r].stage = "configure" /\ request[r].stage \in WithMonty \ {"tool"}
      /\ request[r].stage \in WithMonty /\ idle' = idle /\ nextSession' = nextSession
      /\ "failed" \in Results \ {"protocol"}
  BY DEF Configure, At, WithMonty, Results
<1>2. CASE Moved(r, Dropping(r, "failed")) /\ worker' = worker
  BY <1>1, <1>2, DropsQuietly
<1>3. PICK w : w = request[r].monty
  OBVIOUS
<1>4. CASE /\ ~Gone(w) /\ Moved(r, [request[r] EXCEPT !.stage = "configuring"])
           /\ worker' = Becomes(w, Told(w, Signal("Configure")))
  <2>1. PICK rq : rq = InStage(r, "configuring", request[r].result)
    OBVIOUS
  <2>2. Moved(r, rq) /\ request[r].result \in Results \ {"protocol"}
    BY <1>4, <2>1, Innocent
  <2>3. "configuring" \in WithMonty \ {"tool"}
    BY DEF WithMonty
  <2>4. /\ RequestOK(rq) /\ rq.bash = NoWorker /\ rq.monty = request[r].monty
        /\ rq.stage = "configuring" /\ request[r].monty # NoWorker
    BY ONLY IInv, r \in Request, <1>1, <2>1, <2>2, <2>3, Staged
  <2>5. ChildOK(worker[w], nextSession) /\ worker[w].kind = "monty"
        /\ MontyTalk(request[r], worker[w])
    BY <1>1, <1>3, HoldsMonty
  <2>6. Quiet(worker[w], "empty")
    BY <1>1, <1>4, <2>5 DEF MontyTalk, Fresh, Gone
  <2>7. PICK c : c = Told(w, Signal("Configure"))
    OBVIOUS
  <2>8. worker[w].toGuest = <<>> /\ worker[w].guest = "empty" /\ Stream(worker[w]) = <<>>
    BY <2>6 DEF Quiet
  <2>9. /\ ChildOK(c, nextSession) /\ c.kind = "monty" /\ c.guest = "empty"
        /\ Len(c.toGuest) = 1 /\ c.toGuest[1].is = "Configure" /\ Stream(c) = <<>>
    <3>1. PICK e : e = worker[w]
      OBVIOUS
    <3>2. c = Instructed(e, "Configure")
      BY <2>7, <3>1 DEF Told, Instructed
    <3>3. "Configure" \in Words
      BY DEF Words
    <3>4. /\ ChildOK(e, nextSession) /\ e.kind = "monty" /\ e.toGuest = <<>> /\ e.guest = "empty"
      BY <2>5, <2>8, <3>1
    <3>5. WaitsFor(e.guest, "Configure")
      BY <3>4 DEF WaitsFor
    <3> QED
      BY <2>8, <3>1, <3>2, <3>3, <3>4, <3>5, ToldMonty
  <2>10. MontyTalk(rq, c)
    BY <2>4, <2>9 DEF MontyTalk
  <2>11. worker' = Becomes(request[r].monty, c)
    BY <1>3, <1>4, <2>7
  <2> QED
    BY <1>1, <2>2, <2>4, <2>9, <2>10, <2>11, MontyMoves
<1> QED
  BY <1>2, <1>3, <1>4 DEF Configure

(* A turn goes on with what the request answers.                            *)
LEMMA TellsKeep ==
  ASSUME IInv, NEW r \in Request, request[r].stage \in WithMonty, NEW is \in {"Feed", "Resume"},
         NEW onward, Tell(r, is, onward), NEW w, w = request[r].monty, worker[w].channel # <<>>,
         RequestOK(onward), onward.bash = NoWorker, onward.monty = w, onward.stage = "turn",
         worker[w].guest # "dead" =>
           /\ worker[w].toGuest = <<>> /\ Len(Stream(worker[w])) = 1
           /\ worker[w].guest = (IF is = "Feed" THEN "configured" ELSE "suspended"),
         idle' = idle, nextSession' = nextSession
  PROVE  IInv'
<1>1. /\ w # NoWorker /\ worker[w] \in Child /\ worker[w].kind = "monty"
         /\ ChildOK(worker[w], nextSession)
      /\ "failed" \in Results \ {"protocol"}
  BY HoldsMonty DEF Results
<1>2. CASE Moved(r, Dropping(r, "failed")) /\ worker' = Becomes(w, Taken(w))
  BY <1>1, <1>2, DropsOn
<1>3. CASE /\ ~Gone(w) /\ Moved(r, onward)
           /\ worker' = Becomes(w, [Taken(w) EXCEPT !.toGuest = Append(@, Signal(is))])
  <2>1. /\ worker[w].toGuest = <<>> /\ Len(Stream(worker[w])) = 1
        /\ worker[w].guest = (IF is = "Feed" THEN "configured" ELSE "suspended")
    BY <1>3 DEF Gone
  <2>2. PICK d : d = Taken(w)
    OBVIOUS
  <2>3. /\ ChildOK(d, nextSession) /\ Stream(d) = <<>> /\ d.kind = "monty"
        /\ d.guest = worker[w].guest /\ d.toGuest = <<>>
    BY <1>1, <2>1, <2>2, TakenOK DEF Taken
  <2>4. PICK c : c = Instructed(d, is)
    OBVIOUS
  <2>5. is \in Words /\ WaitsFor(d.guest, is)
    BY <2>1, <2>3 DEF Words, WaitsFor
  <2>6. /\ ChildOK(c, nextSession) /\ c.kind = "monty" /\ c.guest = d.guest
        /\ Len(c.toGuest) = 1 /\ c.toGuest[1].is = is /\ Stream(c) = <<>>
    <3>1. /\ ChildOK(c, nextSession) /\ c.kind = "monty" /\ c.guest = d.guest
          /\ Len(c.toGuest) = 1 /\ c.toGuest[1].is = is /\ Stream(c) = Stream(d)
      BY <2>3, <2>4, <2>5, ToldMonty
    <3> QED
      BY <2>3, <3>1
  <2>7. TurnTalk(c)
    BY <2>1, <2>3, <2>6 DEF TurnTalk
  <2>8. MontyTalk(onward, c)
    BY <2>7 DEF MontyTalk
  <2>9. worker' = Becomes(request[r].monty, c)
    BY <1>3, <2>2, <2>4 DEF Instructed
  <2> QED
    BY <1>1, <1>3, <2>6, <2>8, <2>9, MontyMoves
<1> QED
  BY <1>2, <1>3 DEF Tell

(* What a request that talks to a Monty worker hears from it.               *)
LEMMA Heard ==
  ASSUME IInv, NEW r \in Request, request[r].stage \in WithMonty, NEW w, w = request[r].monty
  PROVE  /\ worker[w].channel = <<>> => Offered(w) = "nothing"
         /\ worker[w].channel # <<>> =>
              /\ Stream(worker[w]) # <<>> /\ Offered(w) = Stream(worker[w])[1].is
              /\ Offered(w) = Head(worker[w].channel).is
<1>1. worker[w] \in Child
  BY HoldsMonty
<1> QED
  BY <1>1, Channel DEF Offered

(* What the answer to Configure can be.                                     *)
LEMMA Configuring ==
  ASSUME IInv, NEW r \in Request, request[r].stage = "configuring", NEW w, w = request[r].monty
  PROVE  /\ Offered(w) \in {"nothing", "Ok", "Eof"}
         /\ Offered(w) = "Ok" =>
              /\ worker[w].channel # <<>>
              /\ worker[w].guest # "dead" =>
                   /\ worker[w].toGuest = <<>> /\ Len(Stream(worker[w])) = 1
                   /\ worker[w].guest = "configured"
<1>1. request[r].stage \in WithMonty
  BY DEF WithMonty
<1>2. MontyTalk(request[r], worker[w])
  BY <1>1, HoldsMonty
<1>3. \/ worker[w].guest = "dead"
         /\ (Stream(worker[w]) = <<>> \/ Stream(worker[w])[1].is \in {"Ok", "Eof"})
      \/ /\ worker[w].guest = "empty" /\ Stream(worker[w]) = <<>>
      \/ worker[w].guest = "configured" /\ worker[w].toGuest = <<>> /\ One(worker[w], {"Ok"})
  BY <1>2 DEF MontyTalk
<1>4. /\ worker[w].channel = <<>> => Offered(w) = "nothing"
      /\ worker[w].channel # <<>> =>
              Stream(worker[w]) # <<>> /\ Offered(w) = Stream(worker[w])[1].is
  BY <1>1, Heard
<1>5. Offered(w) = "Ok" => worker[w].channel # <<>>
  BY <1>4
<1> QED
  BY <1>3, <1>4, <1>5 DEF One

(* What a frame of the turn says of the guest that sent it.                 *)
LEMMA Turning ==
  ASSUME IInv, NEW r \in Request, request[r].stage = "turn", NEW w, w = request[r].monty,
         NEW d, d = Taken(w)
  PROVE  /\ Offered(w) # "Ok"
         /\ Offered(w) # "nothing" => worker[w].channel # <<>> /\ ChildOK(d, nextSession)
            /\ d.kind = "monty" /\ d.guest = worker[w].guest
         /\ Offered(w) = "Print" => TurnTalk(d)
         /\ Offered(w) \in {"Call", "Tool", "Suspend"} /\ worker[w].guest # "dead" =>
              /\ worker[w].guest = "suspended" /\ worker[w].toGuest = <<>>
              /\ Len(Stream(worker[w])) = 1 /\ Quiet(d, "suspended")
         /\ Offered(w) \in {"Complete", "Error"} /\ worker[w].guest # "dead" => Quiet(d, "finished")
<1>1. request[r].stage \in WithMonty
  BY DEF WithMonty
<1>2. /\ worker[w] \in Child /\ worker[w].kind = "monty" /\ ChildOK(worker[w], nextSession)
      /\ TurnTalk(worker[w])
  BY <1>1, HoldsMonty DEF MontyTalk
<1>3. CASE worker[w].channel = <<>>
  BY <1>1, <1>3, Heard, SMTT(60)
<1>4. CASE worker[w].channel # <<>>
  <2>1. Offered(w) = Head(worker[w].channel).is
    BY <1>1, <1>4, Heard
  <2>2. PICK c : c = worker[w]
    OBVIOUS
  <2>3. d = [c EXCEPT !.channel = Tail(@)] /\ c \in Child /\ ChildOK(c, nextSession) /\ TurnTalk(c)
        /\ c.channel # <<>>
    BY <1>2, <1>4, <2>2 DEF Taken
  <2>4. /\ Head(c.channel).is # "Ok"
        /\ Head(c.channel).is = "Print" => TurnTalk(d)
        /\ Head(c.channel).is \in {"Call", "Tool", "Suspend"} /\ c.guest # "dead" =>
             /\ c.guest = "suspended" /\ c.toGuest = <<>> /\ Len(Stream(c)) = 1
                /\ Quiet(d, "suspended")
        /\ Head(c.channel).is \in {"Complete", "Error"} /\ c.guest # "dead" => Quiet(d, "finished")
    BY ONLY <2>3, TurnHears
  <2>5. ChildOK(d, nextSession) /\ d.kind = c.kind /\ d.guest = c.guest
    BY ONLY <2>3, TakenOK
  <2> QED
    BY <1>2, <1>4, <2>1, <2>2, <2>4, <2>5
<1> QED
  BY <1>3, <1>4

(* No answer of a Monty worker is one the host does not expect.             *)
LEMMA AbandonKeeps == ASSUME IInv, NEW r \in Request, Abandon(r) PROVE IInv'
<1>1. ~Unexpected(r)
  <2>1. CASE request[r].stage = "configuring"
    <3>1. Offered(request[r].monty) \in {"nothing", "Ok", "Eof"}
      BY <2>1, Configuring
    <3> QED
      BY <2>1, <3>1 DEF Unexpected, Hands, At
  <2>2. CASE request[r].stage = "turn"
    <3>1. PICK d : d = Taken(request[r].monty)
      OBVIOUS
    <3>2. Offered(request[r].monty) # "Ok"
      BY <2>2, <3>1, Turning
    <3> QED
      BY <2>2, <3>2 DEF Unexpected, Hands, At
  <2> QED
    BY <2>1, <2>2 DEF Abandon
<1>2. request[r].stage \in WithMonty /\ "failed" \in Results \ {"protocol"}
  BY DEF Abandon, WithMonty, Results
<1>3. /\ Moved(r, Dropping(r, "failed")) /\ worker' = worker /\ idle' = idle
      /\ nextSession' = nextSession
  BY <1>1 DEF Abandon
<1> QED
  BY <1>2, <1>3, DropsQuietly

(* The program is fed to a configured worker.                               *)
LEMMA FeedKeeps == ASSUME IInv, NEW r \in Request, Feed(r) PROVE IInv'
<1>1. PICK w : w = request[r].monty
  OBVIOUS
<1>2. /\ request[r].stage = "configuring" /\ Offered(w) = "Ok" /\ idle' = idle
      /\ nextSession' = nextSession /\ Tell(r, "Feed", [request[r] EXCEPT !.stage = "turn"])
  BY <1>1 DEF Feed, At, Hands
<1>3. PICK rq : rq = InStage(r, "turn", request[r].result)
  OBVIOUS
<1>4. Tell(r, "Feed", rq) /\ request[r].result \in Results \ {"protocol"}
  BY <1>2, <1>3, Innocent
<1>5. "turn" \in WithMonty \ {"tool"} /\ request[r].stage \in WithMonty \ {"tool"}
      /\ request[r].stage \in WithMonty
  BY <1>2 DEF WithMonty
<1>6. RequestOK(rq) /\ rq.bash = NoWorker /\ rq.monty = w /\ rq.stage = "turn"
  BY <1>1, <1>3, <1>4, <1>5, Staged
<1>7. /\ worker[w].channel # <<>>
      /\ worker[w].guest # "dead" =>
           /\ worker[w].toGuest = <<>> /\ Len(Stream(worker[w])) = 1
           /\ worker[w].guest = "configured"
  BY <1>1, <1>2, Configuring
<1>8. "Feed" \in {"Feed", "Resume"} /\ (worker[w].guest # "dead" =>
           /\ worker[w].toGuest = <<>> /\ Len(Stream(worker[w])) = 1
           /\ worker[w].guest = (IF "Feed" = "Feed" THEN "configured" ELSE "suspended"))
  BY <1>7
<1> QED
  BY <1>1, <1>2, <1>4, <1>5, <1>6, <1>7, <1>8, TellsKeep

(* Output is taken.                                                         *)
LEMMA OutputKeeps == ASSUME IInv, NEW r \in Request, Output(r) PROVE IInv'
<1>1. PICK w : w = request[r].monty
  OBVIOUS
<1>2. PICK d : d = Taken(w)
  OBVIOUS
<1>3. /\ request[r].stage = "turn" /\ Offered(w) = "Print" /\ idle' = idle
      /\ nextSession' = nextSession /\ worker' = Becomes(w, d)
      /\ request[r].stage \in WithMonty /\ "failed" \in Results \ {"protocol"}
  BY <1>1, <1>2 DEF Output, At, Hands, WithMonty, Results
<1>4. worker[w].channel # <<>> /\ ChildOK(d, nextSession) /\ d.kind = "monty" /\ TurnTalk(d)
  BY <1>1, <1>2, <1>3, Turning
<1>5. CASE request' = request
  <2>1. PICK rq : rq = request[r]
    OBVIOUS
  <2>2. RequestOK(rq) /\ rq.bash = NoWorker /\ request[r].monty # NoWorker
    BY <1>3, <2>1, HoldsMonty
  <2>3. Moved(r, rq)
    BY <1>5, <2>1 DEF Moved, IInv, Sane
  <2>4. MontyTalk(rq, d) /\ rq.monty = request[r].monty /\ worker' = Becomes(request[r].monty, d)
    BY <1>1, <1>3, <1>4, <2>1 DEF MontyTalk
  <2> QED
    BY <1>3, <1>4, <2>2, <2>3, <2>4, MontyMoves
<1>6. CASE Moved(r, Dropping(r, "failed"))
  BY <1>1, <1>2, <1>3, <1>4, <1>6, DropsOn
<1> QED
  BY <1>5, <1>6 DEF Output

(* A call of the program is answered.                                       *)
LEMMA AnswerKeeps == ASSUME IInv, NEW r \in Request, Answer(r) PROVE IInv'
<1>1. PICK w : w = request[r].monty
  OBVIOUS
<1>2. PICK d : d = Taken(w)
  OBVIOUS
<1>3. /\ request[r].stage = "turn" /\ Offered(w) \in {"Call", "Tool"} /\ idle' = idle
      /\ nextSession' = nextSession
      /\ request[r].stage \in WithMonty /\ "failed" \in Results \ {"protocol"}
  BY <1>1 DEF Answer, At, Hands, WithMonty, Results
<1>4. Offered(w) # "nothing" /\ Offered(w) \in {"Call", "Tool", "Suspend"}
  BY <1>3
<1>5. /\ worker[w].channel # <<>>
      /\ worker[w].guest # "dead" =>
           /\ worker[w].toGuest = <<>> /\ Len(Stream(worker[w])) = 1
           /\ worker[w].guest = "suspended"
  BY <1>1, <1>2, <1>3, <1>4, Turning
<1>6. CASE Tell(r, "Resume", request[r])
  <2>1. PICK rq : rq = request[r]
    OBVIOUS
  <2>2. RequestOK(rq) /\ rq.bash = NoWorker /\ rq.monty = w /\ rq.stage = "turn"
    BY <1>1, <1>3, <2>1, HoldsMonty
  <2>3. "Resume" \in {"Feed", "Resume"} /\ (worker[w].guest # "dead" =>
           /\ worker[w].toGuest = <<>> /\ Len(Stream(worker[w])) = 1
           /\ worker[w].guest = (IF "Resume" = "Feed" THEN "configured" ELSE "suspended"))
    BY <1>5
  <2>4. Tell(r, "Resume", rq)
    BY <1>6, <2>1
  <2> QED
    BY <1>1, <1>3, <1>5, <2>2, <2>3, <2>4, TellsKeep
<1>7. CASE Moved(r, Dropping(r, "failed")) /\ worker' = Becomes(w, Taken(w))
  BY <1>1, <1>3, <1>5, <1>7, DropsOn
<1> QED
  BY <1>1, <1>6, <1>7 DEF Answer

(* A call of vsh_bash goes to the Bash pool while the Monty worker waits.   *)
LEMMA CallShellKeeps == ASSUME IInv, NEW r \in Request, CallShell(r) PROVE IInv'
<1>1. PICK w : w = request[r].monty
  OBVIOUS
<1>2. PICK d : d = Taken(w)
  OBVIOUS
<1>3. /\ request[r].stage = "turn" /\ Offered(w) = "Tool" /\ idle' = idle
      /\ nextSession' = nextSession /\ worker' = worker /\ request[r].stage \in WithMonty
  BY <1>1 DEF CallShell, At, Hands, WithMonty
<1>4. /\ worker[w].channel # <<>>
      /\ worker[w].guest # "dead" =>
           /\ worker[w].toGuest = <<>> /\ Len(Stream(worker[w])) = 1
           /\ worker[w].guest = "suspended"
  <2>1. Offered(w) # "nothing" /\ Offered(w) \in {"Call", "Tool", "Suspend"}
    BY <1>3
  <2> QED
    BY <1>1, <1>2, <1>3, <2>1, Turning
<1>5. Stream(worker[w])[1].is = "Tool"
  BY <1>1, <1>3, <1>4, Heard
<1>6. PICK rq : rq = [request[r] EXCEPT !.stage = "tool", !.shell = "called"]
  OBVIOUS
<1>7. /\ request[r] \in Requests /\ RequestOK(request[r]) /\ w # NoWorker
      /\ request[r].bash = NoWorker
  BY <1>1, <1>3, HoldsMonty
<1>8. rq \in Requests /\ Moved(r, rq)
  BY <1>6, <1>7, ZenonT(60) DEF Requests, WithMonty, CallShell
<1>9. /\ rq.bash = NoWorker /\ rq.monty = w /\ rq.stage = "tool" /\ rq.shell = "called"
      /\ rq.keep = request[r].keep /\ rq.answer = request[r].answer /\ rq.result = request[r].result
  BY <1>1, <1>6, <1>7 DEF Requests
<1>10. RequestOK(rq)
  BY <1>7, <1>8, <1>9 DEF RequestOK, WithMonty, WithBash
<1>11. MontyTalk(rq, worker[w])
  BY <1>4, <1>5, <1>9 DEF MontyTalk, One
<1>12. Talks(rq, worker)
  BY <1>9, <1>11 DEF Talks
<1>13. rq.bash \in {request[r].bash, NoWorker} /\ rq.monty \in {request[r].monty, NoWorker}
  BY <1>1, <1>9
<1> QED
  BY <1>3, <1>8, <1>10, <1>12, <1>13, Shift

(* What the Bash pool returned is handed to the program, or ends it.        *)
LEMMA ShellReturnsKeeps == ASSUME IInv, NEW r \in Request, ShellReturns(r) PROVE IInv'
<1>1. PICK w : w = request[r].monty
  OBVIOUS
<1>2. /\ request[r].stage = "tool" /\ request[r].shell = "returned" /\ idle' = idle
      /\ nextSession' = nextSession /\ request[r].stage \in WithMonty
  BY DEF ShellReturns, At, WithMonty
<1>3. /\ request[r] \in Requests /\ RequestOK(request[r]) /\ w # NoWorker
      /\ MontyTalk(request[r], worker[w])
  BY <1>1, <1>2, HoldsMonty
<1>4. /\ worker[w].channel # <<>>
      /\ worker[w].guest # "dead" =>
           /\ worker[w].toGuest = <<>> /\ Len(Stream(worker[w])) = 1
           /\ worker[w].guest = "suspended"
  BY <1>2, <1>3 DEF MontyTalk, One
<1>5. CASE Tell(r, "Resume", [request[r] EXCEPT !.stage = "turn", !.shell = "none", !.answer = "none"])
  <2>1. PICK rq : rq = [request[r] EXCEPT !.stage = "turn", !.shell = "none", !.answer = "none"]
    OBVIOUS
  <2>2. rq \in Requests
    BY <1>3, <2>1, ZenonT(60) DEF Requests, WithMonty, Results
  <2>3. request[r].bash = NoWorker /\ request[r].keep = FALSE
    <3>1. request[r].bash = NoWorker /\ ~request[r].keep
      BY <1>2, <1>3 DEF RequestOK, WithBash
    <3> QED
      BY <1>3, <3>1 DEF Requests
  <2>4. /\ rq.bash = NoWorker /\ rq.monty = w /\ rq.stage = "turn" /\ rq.shell = "none"
        /\ rq.keep = FALSE /\ rq.answer = "none" /\ rq.result = request[r].result
    BY <1>1, <1>3, <2>1, <2>3 DEF Requests
  <2>5. RequestOK(rq)
    BY <1>3, <2>2, <2>4 DEF RequestOK, WithMonty, WithBash
  <2>6. "Resume" \in {"Feed", "Resume"} /\ (worker[w].guest # "dead" =>
           /\ worker[w].toGuest = <<>> /\ Len(Stream(worker[w])) = 1
           /\ worker[w].guest = (IF "Resume" = "Feed" THEN "configured" ELSE "suspended"))
    BY <1>4
  <2>7. Tell(r, "Resume", rq)
    BY <1>5, <2>1
  <2> QED
    BY <1>1, <1>2, <1>4, <2>4, <2>5, <2>6, <2>7, TellsKeep
<1>6. CASE Moved(r, Dropping(r, request[r].answer)) /\ worker' = Becomes(w, Taken(w))
  <2>1. PICK result \in Results \ {"protocol"} : result = request[r].answer
    BY Innocent
  <2>2. Moved(r, Dropping(r, result))
    BY <1>6, <2>1
  <2> QED
    BY <1>1, <1>2, <1>4, <1>6, <2>2, DropsOn
<1> QED
  BY <1>1, <1>5, <1>6 DEF ShellReturns

(* The program has ended, or the turn is given up.                          *)
LEMMA EndTurnKeeps == ASSUME IInv, NEW r \in Request, EndTurn(r) PROVE IInv'
<1>1. PICK w : w = request[r].monty
  OBVIOUS
<1>2. PICK d : d = Taken(w)
  OBVIOUS
<1>3. /\ request[r].stage = "turn" /\ Offered(w) \in {"Complete", "Error", "Suspend"}
         /\ idle' = idle
      /\ nextSession' = nextSession /\ worker' = Becomes(w, d)
      /\ request[r].stage \in WithMonty /\ "failed" \in Results \ {"protocol"}
  BY <1>1, <1>2 DEF EndTurn, At, Hands, WithMonty, Results
<1>4. /\ worker[w].channel # <<>> /\ ChildOK(d, nextSession) /\ d.kind = "monty"
      /\ d.guest = "dead" \/ Quiet(d, "suspended") \/ Quiet(d, "finished")
  <2>1. /\ Offered(w) # "nothing" => worker[w].channel # <<>> /\ ChildOK(d, nextSession)
           /\ d.kind = "monty" /\ d.guest = worker[w].guest
        /\ Offered(w) \in {"Call", "Tool", "Suspend"}
           /\ worker[w].guest # "dead" => Quiet(d, "suspended")
        /\ Offered(w) \in {"Complete", "Error"} /\ worker[w].guest # "dead" => Quiet(d, "finished")
    BY <1>1, <1>2, <1>3, Turning
  <2> QED
    BY <1>3, <2>1
<1>5. CASE Moved(r, Dropping(r, "failed"))
  BY <1>1, <1>2, <1>3, <1>4, <1>5, DropsOn
<1>6. PICK result \in {"ok", "raised"} : result = IF Offered(w) = "Complete" THEN "ok" ELSE "raised"
  OBVIOUS
<1>7. CASE Moved(r, [request[r] EXCEPT !.stage = "settle", !.result = result])
  <2>1. PICK rq : rq = InStage(r, "settle", result)
    OBVIOUS
  <2>2. Moved(r, rq)
    BY <1>7, <2>1 DEF InStage
  <2>3. "settle" \in WithMonty \ {"tool"} /\ request[r].stage \in WithMonty \ {"tool"}
        /\ result \in Results \ {"protocol"}
    BY <1>3 DEF WithMonty, Results
  <2>4. /\ RequestOK(rq) /\ rq.bash = NoWorker /\ rq.monty = request[r].monty /\ rq.stage = "settle"
        /\ request[r].monty # NoWorker
    BY <2>1, <2>3, Staged
  <2>5. MontyTalk(rq, d)
    BY <1>4, <2>4 DEF MontyTalk
  <2>6. worker' = Becomes(request[r].monty, d)
    BY <1>1, <1>3
  <2> QED
    BY <1>3, <1>4, <2>2, <2>4, <2>5, <2>6, MontyMoves
<1> QED
  BY <1>1, <1>5, <1>6, <1>7 DEF EndTurn

(* The Reset is sent.                                                       *)
LEMMA ResetKeeps == ASSUME IInv, NEW r \in Request, Reset(r) PROVE IInv'
<1>1. PICK w : w = request[r].monty
  OBVIOUS
<1>2. /\ request[r].stage = "settle" /\ request[r].stage \in WithMonty /\ idle' = idle
      /\ request[r].stage \in WithMonty \ {"tool"} /\ nextSession' = nextSession
  BY DEF Reset, At, WithMonty
<1>3. ASSUME NEW result \in Results \ {"protocol"}, Moved(r, Dropping(r, result)), worker' = worker
      PROVE  IInv'
  BY <1>2, <1>3, DropsQuietly
<1>4. "failed" \in Results \ {"protocol"} /\ request[r].result \in Results \ {"protocol"}
  BY Innocent DEF Results
<1>5. CASE /\ ~Gone(w) /\ Moved(r, [request[r] EXCEPT !.stage = "resetting"])
           /\ worker' = Becomes(w, Told(w, Signal("Reset")))
  <2>1. PICK rq : rq = InStage(r, "resetting", request[r].result)
    OBVIOUS
  <2>2. Moved(r, rq)
    BY <1>5, <2>1, Innocent
  <2>3. "resetting" \in WithMonty \ {"tool"}
    BY DEF WithMonty
  <2>4. /\ RequestOK(rq) /\ rq.bash = NoWorker /\ rq.monty = request[r].monty
        /\ rq.stage = "resetting" /\ request[r].monty # NoWorker
    BY <1>2, <1>4, <2>1, <2>3, Staged
  <2>5. /\ ChildOK(worker[w], nextSession) /\ worker[w].kind = "monty"
        /\ MontyTalk(request[r], worker[w])
    BY <1>1, <1>2, HoldsMonty
  <2>6. \E g \in {"suspended", "finished"} : Quiet(worker[w], g)
    BY <1>2, <1>5, <2>5 DEF MontyTalk, Gone
  <2>7. PICK c : c = Told(w, Signal("Reset"))
    OBVIOUS
  <2>8. /\ worker[w].toGuest = <<>> /\ worker[w].guest \in {"suspended", "finished"}
        /\ Stream(worker[w]) = <<>>
    BY <2>6 DEF Quiet
  <2>9. /\ ChildOK(c, nextSession) /\ c.kind = "monty" /\ c.guest \in {"suspended", "finished"}
        /\ Len(c.toGuest) = 1 /\ c.toGuest[1].is = "Reset" /\ Stream(c) = <<>>
    <3>1. PICK e : e = worker[w]
      OBVIOUS
    <3>2. c = Instructed(e, "Reset")
      BY <2>7, <3>1 DEF Told, Instructed
    <3>3. "Reset" \in Words
      BY DEF Words
    <3>4. /\ ChildOK(e, nextSession) /\ e.kind = "monty" /\ e.toGuest = <<>>
          /\ e.guest \in {"suspended", "finished"}
      BY <2>5, <2>8, <3>1
    <3>5. WaitsFor(e.guest, "Reset")
      BY <3>4 DEF WaitsFor
    <3> QED
      BY <2>8, <3>1, <3>2, <3>3, <3>4, <3>5, ToldMonty
  <2>10. MontyTalk(rq, c)
    BY <2>4, <2>9 DEF MontyTalk
  <2>11. worker' = Becomes(request[r].monty, c)
    BY <1>1, <1>5, <2>7
  <2> QED
    BY <1>2, <2>2, <2>4, <2>9, <2>10, <2>11, MontyMoves
<1> QED
  BY <1>1, <1>3, <1>4, <1>5 DEF Reset

(* A worker that confirms its reset is as good as new.                      *)
LEMMA ConfirmKeeps == ASSUME IInv, NEW r \in Request, Confirm(r) PROVE IInv'
<1>1. PICK w : w = request[r].monty
  OBVIOUS
<1>2. PICK d : d = Taken(w)
  OBVIOUS
<1>3. /\ request[r].stage = "resetting" /\ request[r].stage \in WithMonty
      /\ Offered(w) = "Ok" /\ worker' = Becomes(w, d) /\ nextSession' = nextSession /\ Parked(r)
  BY <1>1, <1>2 DEF Confirm, At, WithMonty
<1>4. /\ w # NoWorker /\ w \in Worker /\ worker[w].kind = "monty" /\ worker[w] \in Child
      /\ ChildOK(worker[w], nextSession) /\ MontyTalk(request[r], worker[w])
      /\ request[r].bash = NoWorker
  BY <1>1, <1>3, HoldsMonty
<1>5. worker[w].channel # <<>> /\ Stream(worker[w]) # <<>>
  BY <1>1, <1>3, Heard
<1>6. /\ ChildOK(d, nextSession) /\ d.kind = "monty" /\ d.guest = worker[w].guest
      /\ d.toGuest = worker[w].toGuest /\ (Len(Stream(worker[w])) = 1 => Stream(d) = <<>>)
  BY <1>2, <1>4, <1>5, TakenOK DEF Taken
<1>7. Fresh(d, "empty")
  BY <1>3, <1>4, <1>5, <1>6 DEF MontyTalk, Fresh, Quiet, One
<1>8. PICK result \in Results \ {"protocol"} : result = request[r].result
  BY Innocent
<1>9. CASE /\ idle' = [idle EXCEPT !.monty = Append(@, w)] /\ Moved(r, Ended(r, result))
  <2>1. PICK rq : rq = Ended(r, result)
    OBVIOUS
  <2>2. RequestOK(rq) /\ rq.bash = NoWorker /\ rq.monty = NoWorker
    BY <2>1, EndedIs
  <2>3. Talks(rq, worker')
    BY <2>2 DEF Talks
  <2>4. worker \in [Worker -> Child]
    BY DEF IInv, Sane
  <2>5. /\ worker' \in [Worker -> Child] /\ Grown(d, worker'[w]) /\ d \in Child
        /\ ChildOK(worker'[w], nextSession) /\ worker'[w].kind = d.kind
        /\ \A x \in Worker : x # w => worker'[x] = worker[x]
    BY <1>3, <1>4, <1>6, <2>4, BecomesIs
  <2>6. PICK p : p = worker'[w]
    OBVIOUS
  <2>7. Fresh(p, "empty")
    BY <1>7, <2>5, <2>6, GrownTalk
  <2>8. Fresh(worker'[w], Rest["monty"])
    BY <2>6, <2>7 DEF Rest
  <2>9. /\ Hold(rq, "monty") = NoWorker /\ w = Hold(request[r], "monty")
        /\ \A k \in Kinds : k # "monty" => Hold(rq, k) = Hold(request[r], k)
    BY <1>1, <1>4, <2>2, KindsAre DEF Hold
  <2>10. /\ idle' = [idle EXCEPT !["monty"] = Append(idle["monty"], w)] /\ "monty" \in Kinds
         /\ Moved(r, rq) /\ worker'[w].kind = "monty"
    BY <1>6, <1>9, <2>1, <2>5, KindsAre
  <2> QED
    BY <1>3, <1>4, <2>2, <2>3, <2>5, <2>8, <2>9, <2>10, ParksIdle
<1>10. CASE Moved(r, Dropping(r, result)) /\ idle' = idle
  BY <1>1, <1>2, <1>3, <1>5, <1>10, DropsOn
<1> QED
  BY <1>1, <1>3, <1>8, <1>9, <1>10 DEF Parked

(* A reset that fails costs the worker.                                     *)
LEMMA ResetFailsKeeps == ASSUME IInv, NEW r \in Request, ResetFails(r) PROVE IInv'
<1>1. /\ request[r].stage \in WithMonty /\ worker' = worker /\ idle' = idle
      /\ nextSession' = nextSession
  BY DEF ResetFails, At, WithMonty
<1>2. "failed" \in Results \ {"protocol"} /\ request[r].result \in Results \ {"protocol"}
  BY Innocent DEF Results
<1>3. PICK result \in Results \ {"protocol"} : Moved(r, Dropping(r, result))
  BY <1>2 DEF ResetFails
<1> QED
  BY <1>1, <1>3, DropsQuietly

(* The worker is killed.                                                    *)
LEMMA DropKeeps == ASSUME IInv, NEW r \in Request, Drop(r) PROVE IInv'
<1>1. PICK w : w = request[r].monty
  OBVIOUS
<1>2. /\ request[r].stage = "drop" /\ request[r].stage \in WithMonty
      /\ request[r].stage \in WithMonty \ {"tool"} /\ idle' = idle
      /\ nextSession' = nextSession /\ worker' = Becomes(w, Killed(w))
      /\ Moved(r, [request[r] EXCEPT !.stage = "join"])
  BY <1>1 DEF Drop, At, WithMonty
<1>3. /\ w # NoWorker /\ worker[w].kind = "monty" /\ ChildOK(worker[w], nextSession)
      /\ nextSession \in Nat \ {0}
  BY <1>1, <1>2, HoldsMonty
<1>4. PICK c : c = Killed(w)
  OBVIOUS
<1>5. ChildOK(c, nextSession) /\ c.kind = "monty"
  BY <1>3, <1>4, KilledOK, KindsAre
<1>6. PICK rq : rq = InStage(r, "join", request[r].result)
  OBVIOUS
<1>7. Moved(r, rq) /\ request[r].result \in Results \ {"protocol"}
      /\ "join" \in WithMonty \ {"tool"}
  BY <1>2, <1>6, Innocent DEF WithMonty
<1>8. RequestOK(rq) /\ rq.bash = NoWorker /\ rq.monty = request[r].monty /\ rq.stage = "join"
  BY <1>2, <1>6, <1>7, Staged
<1>9. MontyTalk(rq, c)
  BY <1>8 DEF MontyTalk
<1>10. worker' = Becomes(request[r].monty, c) /\ request[r].monty # NoWorker
  BY <1>1, <1>2, <1>3, <1>4
<1> QED
  BY <1>2, <1>5, <1>7, <1>8, <1>9, <1>10, MontyMoves

(* The killed worker is reaped once its reader has ended.                   *)
LEMMA JoinKeeps == ASSUME IInv, NEW r \in Request, Join(r) PROVE IInv'
<1>1. PICK w : w = request[r].monty
  OBVIOUS
<1>2. /\ request[r].stage = "join" /\ request[r].stage \in WithMonty /\ idle' = idle
      /\ nextSession' = nextSession /\ worker' = Reaped(w)
      /\ Moved(r, Ended(r, request[r].result))
  BY <1>1 DEF Join, At, WithMonty
<1>3. w # NoWorker /\ request[r].bash = NoWorker
  BY <1>1, <1>2, HoldsMonty
<1>4. PICK result \in Results \ {"protocol"} : result = request[r].result
  BY Innocent
<1>5. PICK rq : rq = Ended(r, result)
  OBVIOUS
<1>6. RequestOK(rq) /\ rq.bash = NoWorker /\ rq.monty = NoWorker
  BY <1>5, EndedIs
<1>7. Moved(r, rq)
  BY <1>2, <1>4, <1>5
<1>8. /\ Hold(rq, "monty") = NoWorker /\ w = Hold(request[r], "monty")
      /\ \A k \in Kinds : k # "monty" => Hold(rq, k) = Hold(request[r], k)
  BY <1>1, <1>3, <1>6, KindsAre DEF Hold
<1>9. "monty" \in Kinds
  BY KindsAre
<1> QED
  BY <1>2, <1>3, <1>6, <1>7, <1>8, <1>9, Reaps

-----------------------------------------------------------------------------
(* The guests.                                                              *)

(* A process that dies leaves nothing that could be taken amiss.            *)
LEMMA DeadTalks ==
  ASSUME NEW c \in Child, NEW d, d.guest = "dead", Stream(d) = Stream(c), d.channel = c.channel,
         d.clean = c.clean
  PROVE  /\ \A g : Fresh(d, g)
         /\ \A rq : RequestOK(rq) /\ ShellTalk(rq, c) => ShellTalk(rq, d)
         /\ \A rq : MontyTalk(rq, c) => MontyTalk(rq, d)
<1>1. \A g : Fresh(d, g)
  BY DEF Fresh
<1>2. ASSUME NEW rq, RequestOK(rq), ShellTalk(rq, c) PROVE ShellTalk(rq, d)
  <2>1. rq.session \in Nat /\ rq.sequence \in Nat
    BY <1>2 DEF RequestOK, Requests
  <2>2. AwaitTalk(c, rq.session, rq.sequence) => AwaitTalk(d, rq.session, rq.sequence)
    BY <2>1, Awaits DEF AwaitTalk
  <2>3. ReadyTalk(c, rq.session, rq.sequence) => ReadyTalk(d, rq.session, rq.sequence)
    BY <2>1, Readies DEF ReadyTalk
  <2> QED
    BY <1>1, <1>2, <2>2, <2>3 DEF ShellTalk
<1>3. ASSUME NEW rq, MontyTalk(rq, c) PROVE MontyTalk(rq, d)
  <2>1. PICK f \in Seq(Frames) : f = Stream(c)
    BY StreamIs
  <2>2. DOMAIN f = 1..Len(f) /\ Len(f) \in Nat
        /\ \A i \in DOMAIN f : i = Len(f) \/ i \in 1..(Len(f) - 1)
    OBVIOUS
  <2>3. ASSUME NEW last, Chatter(f, last), "Ok" \notin last PROVE \A i \in DOMAIN f : f[i].is # "Ok"
    BY <2>2, <2>3 DEF Chatter
  <2>4. TurnTalk(c) => \A i \in DOMAIN f : f[i].is # "Ok"
    <3>1. f = <<>> => \A i \in DOMAIN f : f[i].is # "Ok"
      BY <2>2
    <3>2. \A last \in {{"Call", "Tool", "Suspend"}, {"Complete", "Error"}, {"Malformed"}} :
            Chatter(f, last) => \A i \in DOMAIN f : f[i].is # "Ok"
      BY <2>3
    <3> QED
      BY <2>1, <3>1, <3>2 DEF TurnTalk
  <2>5. TurnTalk(c) => TurnTalk(d)
    BY <2>1, <2>4 DEF TurnTalk
  <2>6. rq.stage = "configuring" => Stream(c) = <<>> \/ Stream(c)[1].is \in {"Ok", "Eof"}
    BY <1>3 DEF MontyTalk, One
  <2> QED
    BY <1>1, <1>3, <2>5, <2>6 DEF MontyTalk
<1> QED
  BY <1>1, <1>2, <1>3

(* A guest writes a frame.                                                  *)
LEMMA GuestSays ==
  ASSUME NEW e \in Child, NEW f \in Frames, NEW c, c = Says(e, f)
  PROVE  /\ c \in Child /\ Stream(c) = Append(Stream(e), f)
         /\ c.kind = e.kind /\ c.guest = e.guest /\ c.session = e.session /\ c.sequence = e.sequence
         /\ c.toGuest = e.toGuest /\ c.channel = e.channel /\ c.listening = e.listening
         /\ c.reading = e.reading /\ c.clean = e.clean /\ c.offended = e.offended
         /\ Wired(e) /\ f.is # "Malformed" => Wired(c)
         /\ Stream(e) = <<>> => Stream(c) = <<f>>
<1>1. c \in Child /\ c = [e EXCEPT !.toHost = Append(e.toHost, f)]
      /\ Stream(c) = Append(Stream(e), f)
  BY SaysIs
<1>2. /\ c.kind = e.kind /\ c.guest = e.guest /\ c.session = e.session /\ c.sequence = e.sequence
      /\ c.toGuest = e.toGuest /\ c.channel = e.channel /\ c.listening = e.listening
      /\ c.reading = e.reading /\ c.clean = e.clean /\ c.offended = e.offended
  BY <1>1 DEF Child
<1>3. PICK s \in Seq(Frames) : s = Stream(e)
  BY StreamIs
<1>4. PICK t : t = Append(s, f)
  OBVIOUS
<1>5. /\ Len(t) = Len(s) + 1 /\ Len(s) \in Nat /\ t[Len(t)] = f /\ \A i \in 1..Len(s) : t[i] = s[i]
      /\ DOMAIN s = 1..Len(s) /\ DOMAIN t = 1..Len(t)
  BY <1>4, OneMore
<1>6. \A i \in DOMAIN t : i \in DOMAIN s \/ i = Len(t)
  BY <1>5
<1>7. Wired(e) /\ f.is # "Malformed" => Wired(c)
  <2>1. Stream(c) = t
    BY <1>1, <1>3, <1>4
  <2>2. (\A i \in DOMAIN s : s[i].is # "Malformed")
        /\ f.is # "Malformed" => \A i \in DOMAIN t : t[i].is # "Malformed"
    BY <1>5, <1>6
  <2> QED
    BY <1>2, <1>3, <2>1, <2>2 DEF Wired, Alive
<1>8. Stream(e) = <<>> => Stream(c) = <<f>>
  BY <1>1, Literal
<1> QED
  BY <1>1, <1>2, <1>7, <1>8

(* A Bash guest goes on.                                                    *)
LEMMA BashGoesOn ==
  ASSUME IInv, NEW w \in Worker, worker[w].kind = "bash", worker[w].guest # "dead", NEW c,
         ChildOK(c, nextSession), c.kind = "bash", worker' = Becomes(w, c),
         Fresh(worker[w], "idle") => Fresh(c, "idle"),
         \A rq : RequestOK(rq) /\ ShellTalk(rq, worker[w]) => ShellTalk(rq, c),
         UNCHANGED <<request, idle, nextSession>>
  PROVE  IInv'
<1>1. ChildOK(worker[w], nextSession)
  BY DEF IInv, Sane
<1>2. ~Fresh(worker[w], "empty")
  BY <1>1 DEF ChildOK, Fresh, Quiet
<1>3. \A g \in {"idle", "empty"} : Fresh(worker[w], g) => Fresh(c, g)
  BY <1>2
<1>4. \A rq : RequestOK(rq) /\ c.kind = "monty" /\ MontyTalk(rq, worker[w]) => MontyTalk(rq, c)
  OBVIOUS
<1>5. \A rq : RequestOK(rq) /\ c.kind = "bash" /\ ShellTalk(rq, worker[w]) => ShellTalk(rq, c)
  OBVIOUS
<1> QED
  BY <1>3, <1>4, <1>5, GuestMoves

(* A Bash guest that is no longer at rest.                                  *)
LEMMA Restless ==
  ASSUME NEW c, c.guest # "dead", ~Quiet(c, "idle"), NEW rq, RequestOK(rq), ShellTalk(rq, c)
  PROVE  /\ rq.shell # "run"
         /\ rq.shell \in {"release", "retire"} => ~c.clean /\ ~rq.keep
         /\ rq.shell = "hello" \/ rq.shell = "await" \/ rq.shell = "ready" \/
            rq.shell \in {"release", "retire"}
            \/ rq.shell \notin {"hello", "run", "await", "ready", "release", "retire"}
  BY DEF ShellTalk, Fresh

(* A frame of the guest's session.                                          *)
LEMMA StampedIs ==
  ASSUME NEW w, worker[w] \in Child, NEW is \in Words, NEW f, f = Stamped(w, is)
  PROVE  /\ f \in Frames /\ f.is = is
         /\ f = Frame(is, worker[w].session, worker[w].sequence)
<1>1. worker[w].session \in Nat /\ worker[w].sequence \in Nat
  BY DEF Child
<1> QED
  BY <1>1, FrameIs DEF Stamped

(* A new guest says Hello.                                                  *)
LEMMA GreetKeeps ==
  ASSUME IInv, NEW w \in Worker, worker[w].kind = "bash", Greet(w),
         UNCHANGED <<request, idle, nextSession>>
  PROVE  IInv'
<1>1. /\ worker[w] \in Child /\ ChildOK(worker[w], nextSession) /\ nextSession \in Nat
      /\ worker[w].guest = "born"
  BY DEF Greet, IInv, Sane
<1>2. PICK a \in Child : a = worker[w]
  BY <1>1
<1>3. PICK e : e = [a EXCEPT !.guest = "idle"]
  OBVIOUS
<1>4. /\ e \in Child /\ e.kind = a.kind /\ e.guest = "idle" /\ e.session = a.session
      /\ e.toGuest = a.toGuest /\ e.channel = a.channel /\ e.toHost = a.toHost
      /\ e.listening = a.listening /\ e.reading = a.reading /\ e.clean = a.clean
      /\ e.offended = a.offended
  BY <1>3 DEF Child, Guests
<1>5. "Hello" \in Words
  BY DEF Words
<1>a. PICK f : f = Stamped(w, "Hello")
  OBVIOUS
<1>6. f \in Frames /\ f.is = "Hello" /\ f = Stamped(w, "Hello")
  BY <1>1, <1>5, <1>a, StampedIs
<1>7. PICK c : c = Says(e, f)
  OBVIOUS
<1>8. worker' = Becomes(w, c)
  BY <1>2, <1>3, <1>6, <1>7 DEF Greet
<1>9. /\ c \in Child /\ c.kind = e.kind /\ c.guest = e.guest /\ c.session = e.session
      /\ c.toGuest = e.toGuest /\ c.channel = e.channel /\ c.clean = e.clean
         /\ c.offended = e.offended
      /\ Wired(e) /\ f.is # "Malformed" => Wired(c)
      /\ Stream(e) = <<>> => Stream(c) = <<f>>
  BY <1>4, <1>6, <1>7, GuestSays
<1>10. Stream(e) = Stream(a)
  BY <1>4 DEF Stream
<1>11. Wired(c)
  BY <1>1, <1>2, <1>4, <1>6, <1>9, <1>10 DEF ChildOK, Wired, Alive
<1>12. a.toGuest = <<>>
  BY <1>1, <1>2 DEF ChildOK, BashHears
<1>13. ChildOK(c, nextSession)
  BY <1>1, <1>2, <1>4, <1>9, <1>11, <1>12 DEF ChildOK, BashHears
<1>14. ~Quiet(a, "idle") /\ a.guest # "dead"
  BY <1>1, <1>2 DEF Quiet
<1>15. <<f>>[1] = f /\ Len(<<f>>) = 1
  BY <1>6, Literal
<1>16. ASSUME NEW rq, RequestOK(rq), ShellTalk(rq, a) PROVE ShellTalk(rq, c)
  <2>1. /\ rq.shell # "run" /\ (rq.shell \in {"release", "retire"} => ~a.clean /\ ~rq.keep)
    BY <1>14, <1>16, Restless
  <2>2. rq.shell # "await" /\ rq.shell # "ready"
    BY <1>1, <1>2, <1>16 DEF ShellTalk, AwaitTalk, ReadyTalk
  <2>3. rq.shell = "hello" => ~a.clean /\ Quiet(a, "born")
    BY <1>1, <1>2, <1>16 DEF ShellTalk
  <2>4. rq.shell = "hello" => ~c.clean /\ c.guest = "idle" /\ c.toGuest = <<>> /\ One(c, {"Hello"})
    BY <1>4, <1>6, <1>9, <1>10, <1>12, <1>15, <2>3 DEF Quiet, One
  <2> QED
    BY <1>4, <1>9, <2>1, <2>2, <2>4 DEF ShellTalk
<1>17. Fresh(worker[w], "idle") => Fresh(c, "idle")
  BY <1>2, <1>14 DEF Fresh
<1>18. \A rq : RequestOK(rq) /\ ShellTalk(rq, worker[w]) => ShellTalk(rq, c)
  BY <1>2, <1>16
<1> QED
  BY <1>1, <1>2, <1>4, <1>8, <1>9, <1>13, <1>14, <1>17, <1>18, BashGoesOn

(* A guest reads the one frame it has been told.                            *)
LEMMA HearsIs ==
  ASSUME NEW w, worker[w] \in Child, Len(worker[w].toGuest) = 1, NEW d, d = Hears(w)
  PROVE  /\ d \in Child /\ d.toGuest = <<>> /\ Stream(d) = Stream(worker[w])
         /\ Head(worker[w].toGuest) = worker[w].toGuest[1] /\ worker[w].toGuest[1] \in Frames
         /\ worker[w].toGuest # <<>> /\ worker[w].toGuest = <<worker[w].toGuest[1]>>
         /\ d.kind = worker[w].kind /\ d.guest = worker[w].guest /\ d.session = worker[w].session
         /\ d.sequence = worker[w].sequence /\ d.channel = worker[w].channel
         /\ d.listening = worker[w].listening /\ d.reading = worker[w].reading
         /\ d.clean = worker[w].clean /\ d.offended = worker[w].offended
<1>1. PICK a \in Child : a = worker[w]
  OBVIOUS
<1>2. PICK s \in Seq(Frames) : s = a.toGuest
  BY DEF Child
<1>a. Len(s) = 1
  BY <1>1, <1>2
<1>b. <<>> = s => Len(s) = 0
  OBVIOUS
<1>3. s # <<>> /\ Len(s) = 1
  BY <1>a, <1>b
<1>4. Head(s) = s[1] /\ s[1] \in Frames
  BY <1>3
<1>5. PICK t : t = Tail(s)
  OBVIOUS
<1>6. t \in Seq(Frames) /\ Len(t) = 0
  BY <1>3, <1>5, HeadTailProperties
<1>7. t = <<>>
  BY <1>6
<1>8. d = [a EXCEPT !.toGuest = t]
  BY <1>1, <1>2, <1>5 DEF Hears, Child
<1>9. /\ d \in Child /\ d.toGuest = t
      /\ d.kind = a.kind /\ d.guest = a.guest /\ d.session = a.session
      /\ d.sequence = a.sequence /\ d.channel = a.channel /\ d.toHost = a.toHost
      /\ d.listening = a.listening /\ d.reading = a.reading
      /\ d.clean = a.clean /\ d.offended = a.offended
  BY <1>6, <1>8 DEF Child
<1>10. Stream(d) = Stream(a)
  BY <1>9 DEF Stream
<1>11. s = <<s[1]>>
  <2>1. PICK f \in Frames : f = s[1]
    BY <1>4
  <2>2. <<f>> \in Seq(Frames) /\ Len(<<f>>) = 1 /\ <<f>>[1] = f
    OBVIOUS
  <2>3. PICK u \in Seq(Frames) : u = <<f>>
    BY <2>2
  <2>4. Len(u) = Len(s) /\ \A i \in 1..Len(s) : s[i] = u[i]
    BY <1>3, <2>1, <2>2, <2>3
  <2>5. s = u
    BY <2>4, SeqEqual
  <2> QED
    BY <2>1, <2>3, <2>5
<1> QED
  BY <1>1, <1>2, <1>3, <1>4, <1>7, <1>9, <1>10, <1>11

(* A guest at rest takes a Run or a Shutdown.                               *)
LEMMA AcceptKeeps ==
  ASSUME IInv, NEW w \in Worker, worker[w].kind = "bash", Accept(w),
         UNCHANGED <<request, idle, nextSession>>
  PROVE  IInv'
<1>1. /\ worker[w] \in Child /\ ChildOK(worker[w], nextSession) /\ nextSession \in Nat \ {0}
      /\ worker[w].guest = "idle" /\ worker[w].toGuest # <<>>
  BY DEF Accept, IInv, Sane
<1>2. PICK a \in Child : a = worker[w]
  BY <1>1
<1>3. /\ Len(a.toGuest) = 1
      /\ \/ a.toGuest[1].is = "Shutdown"
         \/ /\ a.toGuest[1].is = "Run" /\ a.toGuest[1].sequence = 0
            /\ a.session < a.toGuest[1].session /\ a.toGuest[1].session < nextSession
  BY <1>1, <1>2 DEF ChildOK, BashHears, Frame
<1>4. PICK d : d = Hears(w)
  OBVIOUS
<1>5. /\ d \in Child /\ d.toGuest = <<>> /\ Stream(d) = Stream(a)
      /\ Head(a.toGuest) = a.toGuest[1] /\ a.toGuest[1] \in Frames /\ a.toGuest = <<a.toGuest[1]>>
      /\ d.kind = a.kind /\ d.guest = a.guest /\ d.session = a.session
      /\ d.channel = a.channel /\ d.listening = a.listening /\ d.reading = a.reading
      /\ d.clean = a.clean /\ d.offended = a.offended
  BY <1>1, <1>2, <1>3, <1>4, HearsIs
<1>6. PICK f \in Frames : f = a.toGuest[1]
  BY <1>5
<1>7. f.session \in Nat /\ a.session \in Nat /\ f.sequence \in Nat
  BY DEF Frames, Child
<1>8. ~Quiet(a, "idle") /\ a.guest # "dead"
  BY <1>1, <1>2 DEF Quiet
<1>9. Fresh(worker[w], "idle") => FALSE
  BY <1>2, <1>8 DEF Fresh
<1>10. CASE f.is = "Shutdown"
  <2>1. PICK c : c = Dead(a)
    OBVIOUS
  <2>2. worker' = Becomes(w, c)
    BY <1>2, <1>5, <1>6, <1>10, <2>1 DEF Accept
  <2>3. c = [a EXCEPT !.guest = "dead", !.toGuest = <<>>, !.session = 0, !.sequence = 0, !.events = 0]
    BY <2>1 DEF Dead
  <2>4. /\ ChildOK(a, nextSession) /\ a.kind \in Kinds
    BY <1>1, <1>2, KindsAre
  <2>5. /\ ChildOK(c, nextSession) /\ c.kind = a.kind /\ c.guest = "dead"
        /\ Stream(c) = Stream(a) /\ c.channel = a.channel /\ c.clean = a.clean
    BY ONLY <1>1, <2>3, <2>4, DeadOK, ZenonT(60)
  <2>6. \A rq : RequestOK(rq) /\ ShellTalk(rq, a) => ShellTalk(rq, c)
    BY <2>5, DeadTalks
  <2>7. Fresh(worker[w], "idle") => Fresh(c, "idle")
    BY <1>9
  <2> QED
    BY <1>1, <1>2, <1>8, <2>2, <2>5, <2>6, <2>7, BashGoesOn
<1>11. CASE f.is = "Run"
  <2>1. f.sequence = 0 /\ a.session < f.session /\ f.session < nextSession
    BY <1>3, <1>6, <1>11
  <2>2. PICK c : c = [d EXCEPT !.guest = "running", !.session = f.session, !.sequence = 1]
    OBVIOUS
  <2>3. f.session > a.session
    BY <1>7, <2>1
  <2>4. worker' = Becomes(w, c)
    BY <1>2, <1>4, <1>5, <1>6, <1>11, <2>1, <2>2, <2>3 DEF Accept
  <2>5. /\ c \in Child /\ c.kind = a.kind /\ c.guest = "running" /\ c.session = f.session
           /\ c.sequence = 1
        /\ c.toGuest = <<>> /\ c.channel = d.channel /\ c.toHost = d.toHost
        /\ c.listening = a.listening /\ c.reading = a.reading /\ c.clean = a.clean
        /\ c.offended = a.offended
    BY <1>5, <1>7, <2>2 DEF Child, Guests
  <2>6. Stream(c) = Stream(a)
    BY <1>5, <2>5 DEF Stream
  <2>7. Wired(c)
    BY <1>1, <1>2, <2>5, <2>6 DEF ChildOK, Wired, Alive
  <2>8. ChildOK(c, nextSession)
    BY <1>1, <1>2, <1>5, <2>1, <2>5, <2>7 DEF ChildOK, BashHears
  <2>9. ASSUME NEW rq, RequestOK(rq), ShellTalk(rq, a) PROVE ShellTalk(rq, c)
    <3>1. /\ rq.shell # "run" /\ (rq.shell \in {"release", "retire"} => ~a.clean /\ ~rq.keep)
      BY <1>8, <2>9, Restless
    <3>2. rq.shell # "hello" /\ rq.shell # "ready"
      BY <1>1, <1>2, <2>9 DEF ShellTalk, ReadyTalk, Quiet
    <3>3. rq.shell = "await" => ~a.clean /\ AwaitTalk(a, rq.session, rq.sequence)
      BY <2>9 DEF ShellTalk
    <3>4. rq.shell = "await" =>
            /\ a.toGuest = <<Frame("Run", rq.session, 0)>> /\ Stream(a) = <<>> /\ rq.sequence = 1
      BY <1>1, <1>2, <3>3 DEF AwaitTalk
    <3>a. rq.session \in Nat
      BY <2>9 DEF RequestOK, Requests
    <3>d. "Run" \in Words /\ 0 \in Nat
      BY DEF Words
    <3>e. PICK g : g = Frame("Run", rq.session, 0)
      OBVIOUS
    <3>b. g \in Frames /\ g = Frame("Run", rq.session, 0) /\ g.session = rq.session
      BY <3>a, <3>d, <3>e, FrameIs DEF Frame
    <3>c. <<g>>[1] = g
      BY <3>b, Literal
    <3>5. rq.shell = "await" => f.session = rq.session
      BY <1>6, <3>4, <3>b, <3>c
    <3>6. rq.shell = "await" => AwaitTalk(c, rq.session, rq.sequence)
      BY <2>5, <2>6, <3>4, <3>5 DEF AwaitTalk
    <3> QED
      BY <2>5, <3>1, <3>2, <3>3, <3>6 DEF ShellTalk
  <2>10. Fresh(worker[w], "idle") => Fresh(c, "idle")
    BY <1>9
  <2>11. \A rq : RequestOK(rq) /\ ShellTalk(rq, worker[w]) => ShellTalk(rq, c)
    BY <1>2, <2>9
  <2> QED
    BY <1>1, <1>2, <1>8, <2>4, <2>5, <2>8, <2>10, <2>11, BashGoesOn
<1> QED
  BY <1>3, <1>6, <1>10, <1>11

(* A running guest calls the host.                                          *)
LEMMA CallHostKeeps ==
  ASSUME IInv, NEW w \in Worker, worker[w].kind = "bash", CallHost(w),
         UNCHANGED <<request, idle, nextSession>>
  PROVE  IInv'
<1>1. /\ worker[w] \in Child /\ ChildOK(worker[w], nextSession) /\ nextSession \in Nat
      /\ worker[w].guest = "running"
  BY DEF CallHost, IInv, Sane
<1>2. PICK a \in Child : a = worker[w]
  BY <1>1
<1>3. PICK e : e = [a EXCEPT !.guest = "calling", !.events = @ + 1]
  OBVIOUS
<1>4. /\ e \in Child /\ e.kind = a.kind /\ e.guest = "calling" /\ e.session = a.session
      /\ e.sequence = a.sequence
      /\ e.toGuest = a.toGuest /\ e.channel = a.channel /\ e.toHost = a.toHost
      /\ e.listening = a.listening /\ e.reading = a.reading /\ e.clean = a.clean
      /\ e.offended = a.offended
  <2>1. a.events + 1 \in Nat
    BY DEF Child
  <2> QED
    BY <1>3, <2>1 DEF Child, Guests
<1>5. "Call" \in Words
  BY DEF Words
<1>a. PICK f : f = Stamped(w, "Call")
  OBVIOUS
<1>6. f \in Frames /\ f.is = "Call" /\ f = Stamped(w, "Call")
      /\ f = Frame("Call", a.session, a.sequence)
  BY <1>1, <1>2, <1>5, <1>a, StampedIs
<1>7. PICK c : c = Says(e, f)
  OBVIOUS
<1>8. worker' = Becomes(w, c)
  BY <1>2, <1>3, <1>6, <1>7 DEF CallHost
<1>9. /\ c \in Child /\ c.kind = e.kind /\ c.guest = e.guest /\ c.session = e.session
      /\ c.sequence = e.sequence
      /\ c.toGuest = e.toGuest /\ c.channel = e.channel /\ c.clean = e.clean
         /\ c.offended = e.offended
      /\ Wired(e) /\ f.is # "Malformed" => Wired(c)
      /\ Stream(c) = Append(Stream(e), f)
      /\ Stream(e) = <<>> => Stream(c) = <<f>>
  BY <1>4, <1>6, <1>7, GuestSays
<1>10. Stream(e) = Stream(a)
  BY <1>4 DEF Stream
<1>11. Wired(c)
  BY <1>1, <1>2, <1>4, <1>6, <1>9, <1>10 DEF ChildOK, Wired, Alive
<1>12. a.toGuest = <<>>
  BY <1>1, <1>2 DEF ChildOK, BashHears
<1>13. ChildOK(c, nextSession)
  BY <1>1, <1>2, <1>4, <1>9, <1>11, <1>12 DEF ChildOK, BashHears
<1>14. ~Quiet(a, "idle") /\ a.guest # "dead"
  BY <1>1, <1>2 DEF Quiet
<1>15. ASSUME NEW rq, RequestOK(rq), ShellTalk(rq, a) PROVE ShellTalk(rq, c)
  <2>1. /\ rq.shell # "run" /\ (rq.shell \in {"release", "retire"} => ~a.clean /\ ~rq.keep)
    BY <1>14, <1>15, Restless
  <2>2. rq.shell # "hello" /\ rq.shell # "ready"
    BY <1>1, <1>2, <1>15 DEF ShellTalk, ReadyTalk, Quiet
  <2>3. rq.shell = "await" => ~a.clean /\ AwaitTalk(a, rq.session, rq.sequence)
    BY <1>15 DEF ShellTalk
  <2>4. rq.shell = "await" => a.session = rq.session /\ a.sequence = rq.sequence /\ Stream(a) = <<>>
    BY <1>1, <1>2, <2>3 DEF AwaitTalk
  <2>5. rq.shell = "await" => AwaitTalk(c, rq.session, rq.sequence)
    BY <1>4, <1>6, <1>9, <1>10, <1>12, <2>4 DEF AwaitTalk
  <2> QED
    BY <1>4, <1>9, <2>1, <2>2, <2>3, <2>5 DEF ShellTalk
<1>16. Fresh(worker[w], "idle") => Fresh(c, "idle")
  BY <1>2, <1>14 DEF Fresh
<1>17. \A rq : RequestOK(rq) /\ ShellTalk(rq, worker[w]) => ShellTalk(rq, c)
  BY <1>2, <1>15
<1> QED
  BY <1>1, <1>2, <1>4, <1>8, <1>9, <1>13, <1>14, <1>16, <1>17, BashGoesOn

(* A running guest has finished.                                            *)
LEMMA FinishShellKeeps ==
  ASSUME IInv, NEW w \in Worker, worker[w].kind = "bash", FinishShell(w),
         UNCHANGED <<request, idle, nextSession>>
  PROVE  IInv'
<1>1. /\ worker[w] \in Child /\ ChildOK(worker[w], nextSession) /\ nextSession \in Nat
      /\ worker[w].guest = "running"
  BY DEF FinishShell, IInv, Sane
<1>2. PICK a \in Child : a = worker[w]
  BY <1>1
<1>3. PICK e : e = [a EXCEPT !.guest = "reset", !.events = 0]
  OBVIOUS
<1>4. /\ e \in Child /\ e.kind = a.kind /\ e.guest = "reset" /\ e.session = a.session
      /\ e.sequence = a.sequence
      /\ e.toGuest = a.toGuest /\ e.channel = a.channel /\ e.toHost = a.toHost
      /\ e.listening = a.listening /\ e.reading = a.reading /\ e.clean = a.clean
      /\ e.offended = a.offended
  <2>1. a.events + 1 \in Nat
    BY DEF Child
  <2> QED
    BY <1>3, <2>1 DEF Child, Guests
<1>5. "Done" \in Words
  BY DEF Words
<1>a. PICK f : f = Stamped(w, "Done")
  OBVIOUS
<1>6. f \in Frames /\ f.is = "Done" /\ f = Stamped(w, "Done")
      /\ f = Frame("Done", a.session, a.sequence)
  BY <1>1, <1>2, <1>5, <1>a, StampedIs
<1>7. PICK c : c = Says(e, f)
  OBVIOUS
<1>8. worker' = Becomes(w, c)
  BY <1>2, <1>3, <1>6, <1>7 DEF FinishShell
<1>9. /\ c \in Child /\ c.kind = e.kind /\ c.guest = e.guest /\ c.session = e.session
      /\ c.sequence = e.sequence
      /\ c.toGuest = e.toGuest /\ c.channel = e.channel /\ c.clean = e.clean
         /\ c.offended = e.offended
      /\ Wired(e) /\ f.is # "Malformed" => Wired(c)
      /\ Stream(c) = Append(Stream(e), f)
      /\ Stream(e) = <<>> => Stream(c) = <<f>>
  BY <1>4, <1>6, <1>7, GuestSays
<1>10. Stream(e) = Stream(a)
  BY <1>4 DEF Stream
<1>11. Wired(c)
  BY <1>1, <1>2, <1>4, <1>6, <1>9, <1>10 DEF ChildOK, Wired, Alive
<1>12. a.toGuest = <<>>
  BY <1>1, <1>2 DEF ChildOK, BashHears
<1>13. ChildOK(c, nextSession)
  BY <1>1, <1>2, <1>4, <1>9, <1>11, <1>12 DEF ChildOK, BashHears
<1>14. ~Quiet(a, "idle") /\ a.guest # "dead"
  BY <1>1, <1>2 DEF Quiet
<1>15. ASSUME NEW rq, RequestOK(rq), ShellTalk(rq, a) PROVE ShellTalk(rq, c)
  <2>1. /\ rq.shell # "run" /\ (rq.shell \in {"release", "retire"} => ~a.clean /\ ~rq.keep)
    BY <1>14, <1>15, Restless
  <2>2. rq.shell # "hello" /\ rq.shell # "ready"
    BY <1>1, <1>2, <1>15 DEF ShellTalk, ReadyTalk, Quiet
  <2>3. rq.shell = "await" => ~a.clean /\ AwaitTalk(a, rq.session, rq.sequence)
    BY <1>15 DEF ShellTalk
  <2>4. rq.shell = "await" => a.session = rq.session /\ a.sequence = rq.sequence /\ Stream(a) = <<>>
    BY <1>1, <1>2, <2>3 DEF AwaitTalk
  <2>5. rq.shell = "await" => AwaitTalk(c, rq.session, rq.sequence)
    BY <1>4, <1>6, <1>9, <1>10, <1>12, <2>4 DEF AwaitTalk
  <2> QED
    BY <1>4, <1>9, <2>1, <2>2, <2>3, <2>5 DEF ShellTalk
<1>16. Fresh(worker[w], "idle") => Fresh(c, "idle")
  BY <1>2, <1>14 DEF Fresh
<1>17. \A rq : RequestOK(rq) /\ ShellTalk(rq, worker[w]) => ShellTalk(rq, c)
  BY <1>2, <1>15
<1> QED
  BY <1>1, <1>2, <1>4, <1>8, <1>9, <1>13, <1>14, <1>16, <1>17, BashGoesOn

(* A guest has reset itself.                                                *)
LEMMA SayReadyKeeps ==
  ASSUME IInv, NEW w \in Worker, worker[w].kind = "bash", SayReady(w),
         UNCHANGED <<request, idle, nextSession>>
  PROVE  IInv'
<1>1. /\ worker[w] \in Child /\ ChildOK(worker[w], nextSession) /\ nextSession \in Nat
      /\ worker[w].guest = "reset"
  BY DEF SayReady, IInv, Sane
<1>2. PICK a \in Child : a = worker[w]
  BY <1>1
<1>3. PICK e : e = [a EXCEPT !.guest = "idle", !.sequence = 0]
  OBVIOUS
<1>4. /\ e \in Child /\ e.kind = a.kind /\ e.guest = "idle" /\ e.session = a.session
      /\ e.sequence = 0
      /\ e.toGuest = a.toGuest /\ e.channel = a.channel /\ e.toHost = a.toHost
      /\ e.listening = a.listening /\ e.reading = a.reading /\ e.clean = a.clean
      /\ e.offended = a.offended
  <2>1. a.events + 1 \in Nat
    BY DEF Child
  <2> QED
    BY <1>3, <2>1 DEF Child, Guests
<1>5. "Ready" \in Words
  BY DEF Words
<1>a. PICK f : f = Stamped(w, "Ready")
  OBVIOUS
<1>6. f \in Frames /\ f.is = "Ready" /\ f = Stamped(w, "Ready")
      /\ f = Frame("Ready", a.session, a.sequence)
  BY <1>1, <1>2, <1>5, <1>a, StampedIs
<1>7. PICK c : c = Says(e, f)
  OBVIOUS
<1>8. worker' = Becomes(w, c)
  BY <1>2, <1>3, <1>6, <1>7 DEF SayReady
<1>9. /\ c \in Child /\ c.kind = e.kind /\ c.guest = e.guest /\ c.session = e.session
      /\ c.sequence = e.sequence
      /\ c.toGuest = e.toGuest /\ c.channel = e.channel /\ c.clean = e.clean
         /\ c.offended = e.offended
      /\ Wired(e) /\ f.is # "Malformed" => Wired(c)
      /\ Stream(c) = Append(Stream(e), f)
      /\ Stream(e) = <<>> => Stream(c) = <<f>>
  BY <1>4, <1>6, <1>7, GuestSays
<1>10. Stream(e) = Stream(a)
  BY <1>4 DEF Stream
<1>11. Wired(c)
  BY <1>1, <1>2, <1>4, <1>6, <1>9, <1>10 DEF ChildOK, Wired, Alive
<1>12. a.toGuest = <<>>
  BY <1>1, <1>2 DEF ChildOK, BashHears
<1>13. ChildOK(c, nextSession)
  BY <1>1, <1>2, <1>4, <1>9, <1>11, <1>12 DEF ChildOK, BashHears
<1>14. ~Quiet(a, "idle") /\ a.guest # "dead"
  BY <1>1, <1>2 DEF Quiet
<1>15. ASSUME NEW rq, RequestOK(rq), ShellTalk(rq, a) PROVE ShellTalk(rq, c)
  <2>1. /\ rq.shell # "run" /\ (rq.shell \in {"release", "retire"} => ~a.clean /\ ~rq.keep)
    BY <1>14, <1>15, Restless
  <2>2. rq.shell # "hello"
    BY <1>1, <1>2, <1>15 DEF ShellTalk, Quiet
  <2>3. rq.shell = "await" => ~a.clean /\ AwaitTalk(a, rq.session, rq.sequence)
    BY <1>15 DEF ShellTalk
  <2>4. rq.shell = "await" => /\ a.session = rq.session /\ a.sequence = rq.sequence
                              /\ Stream(a) = <<Frame("Done", rq.session, rq.sequence)>>
    BY <1>1, <1>2, <2>3 DEF AwaitTalk
  <2>5. rq.shell = "ready" => ~a.clean /\ ReadyTalk(a, rq.session, rq.sequence)
    BY <1>15 DEF ShellTalk
  <2>6. rq.shell = "ready" => /\ a.session = rq.session /\ a.sequence = rq.sequence
                              /\ Stream(a) = <<>>
    BY <1>1, <1>2, <2>5 DEF ReadyTalk
  <2>7. rq.shell = "ready" => ReadyTalk(c, rq.session, rq.sequence)
    BY <1>4, <1>6, <1>9, <1>10, <1>12, <2>6 DEF ReadyTalk
  <2>8. rq.shell = "await" => AwaitTalk(c, rq.session, rq.sequence)
    <3>1. rq.session \in Nat /\ rq.sequence \in Nat /\ "Done" \in Words
      BY <1>15 DEF RequestOK, Requests, Words
    <3>2. PICK g : g = Frame("Done", rq.session, rq.sequence)
      OBVIOUS
    <3>3. g \in Frames
      BY <3>1, <3>2, FrameIs
    <3>4. Append(<<g>>, f) = <<g, f>>
      BY <1>6, <3>3, Literal, ZenonT(60)
    <3> QED
      BY <1>4, <1>6, <1>9, <1>10, <1>12, <2>4, <3>2, <3>4 DEF AwaitTalk
  <2> QED
    BY <1>4, <1>9, <2>1, <2>2, <2>3, <2>5, <2>7, <2>8 DEF ShellTalk
<1>16. Fresh(worker[w], "idle") => Fresh(c, "idle")
  BY <1>2, <1>14 DEF Fresh
<1>17. \A rq : RequestOK(rq) /\ ShellTalk(rq, worker[w]) => ShellTalk(rq, c)
  BY <1>2, <1>15
<1> QED
  BY <1>1, <1>2, <1>4, <1>8, <1>9, <1>13, <1>14, <1>16, <1>17, BashGoesOn

(* A guest takes the reply it waits for.                                    *)
LEMMA TakeReplyKeeps ==
  ASSUME IInv, NEW w \in Worker, worker[w].kind = "bash", TakeReply(w),
         UNCHANGED <<request, idle, nextSession>>
  PROVE  IInv'
<1>1. /\ worker[w] \in Child /\ ChildOK(worker[w], nextSession) /\ nextSession \in Nat
      /\ worker[w].guest = "calling" /\ worker[w].toGuest # <<>>
  BY DEF TakeReply, IInv, Sane
<1>2. PICK a \in Child : a = worker[w]
  BY <1>1
<1>3. Len(a.toGuest) = 1 /\ a.toGuest[1] = Frame("Reply", a.session, a.sequence)
  BY <1>1, <1>2 DEF ChildOK, BashHears
<1>4. PICK d : d = Hears(w)
  OBVIOUS
<1>5. /\ d \in Child /\ d.toGuest = <<>> /\ Stream(d) = Stream(a)
      /\ Head(a.toGuest) = a.toGuest[1]
      /\ d.kind = a.kind /\ d.guest = a.guest /\ d.session = a.session /\ d.sequence = a.sequence
      /\ d.channel = a.channel /\ d.listening = a.listening /\ d.reading = a.reading
      /\ d.clean = a.clean /\ d.offended = a.offended
  BY <1>1, <1>2, <1>3, <1>4, HearsIs
<1>6. PICK c : c = [d EXCEPT !.guest = "running", !.sequence = @ + 1]
  OBVIOUS
<1>7. worker' = Becomes(w, c)
  BY <1>2, <1>3, <1>4, <1>5, <1>6 DEF TakeReply, Stamped
<1>8. /\ c \in Child /\ c.kind = a.kind /\ c.guest = "running" /\ c.session = a.session
      /\ c.sequence = a.sequence + 1 /\ c.toGuest = <<>> /\ c.channel = d.channel
         /\ c.toHost = d.toHost
      /\ c.listening = a.listening /\ c.reading = a.reading /\ c.clean = a.clean
      /\ c.offended = a.offended
  <2>1. d.sequence + 1 \in Nat
    BY <1>5 DEF Child
  <2> QED
    BY <1>5, <1>6, <2>1 DEF Child, Guests
<1>9. Stream(c) = Stream(a)
  BY <1>5, <1>8 DEF Stream
<1>10. Wired(c)
  BY <1>1, <1>2, <1>8, <1>9 DEF ChildOK, Wired, Alive
<1>11. ChildOK(c, nextSession)
  BY <1>1, <1>2, <1>5, <1>8, <1>10 DEF ChildOK, BashHears
<1>14. ~Quiet(a, "idle") /\ a.guest # "dead" /\ a.toGuest # <<>>
  BY <1>1, <1>2 DEF Quiet
<1>15. ASSUME NEW rq, RequestOK(rq), ShellTalk(rq, a) PROVE ShellTalk(rq, c)
  <2>1. /\ rq.shell # "run" /\ (rq.shell \in {"release", "retire"} => ~a.clean /\ ~rq.keep)
    BY <1>14, <1>15, Restless
  <2>2. rq.shell # "hello" /\ rq.shell # "ready"
    BY <1>1, <1>2, <1>15 DEF ShellTalk, ReadyTalk, Quiet
  <2>3. rq.shell = "await" => ~a.clean /\ AwaitTalk(a, rq.session, rq.sequence)
    BY <1>15 DEF ShellTalk
  <2>4. rq.shell = "await" => a.session = rq.session /\ a.sequence + 1 = rq.sequence
        /\ Stream(a) = <<>>
    BY <1>1, <1>2, <1>14, <2>3 DEF AwaitTalk
  <2>5. rq.shell = "await" => AwaitTalk(c, rq.session, rq.sequence)
    BY <1>8, <1>9, <2>4 DEF AwaitTalk
  <2> QED
    BY <1>8, <2>1, <2>2, <2>3, <2>5 DEF ShellTalk
<1>16. Fresh(worker[w], "idle") => Fresh(c, "idle")
  BY <1>2, <1>14 DEF Fresh
<1>17. \A rq : RequestOK(rq) /\ ShellTalk(rq, worker[w]) => ShellTalk(rq, c)
  BY <1>2, <1>15
<1> QED
  BY <1>1, <1>2, <1>7, <1>8, <1>11, <1>14, <1>16, <1>17, BashGoesOn

(* Every step of a Bash guest.                                              *)
LEMMA BashGuestKeeps == ASSUME IInv, NEW w \in Worker, BashGuest(w) PROVE IInv'
<1>1. worker[w].kind = "bash" /\ UNCHANGED <<request, idle, nextSession>>
  BY DEF BashGuest
<1>2. CASE Greet(w)
  BY <1>1, <1>2, GreetKeeps
<1>3. CASE Accept(w)
  BY <1>1, <1>3, AcceptKeeps
<1>4. CASE CallHost(w)
  BY <1>1, <1>4, CallHostKeeps
<1>5. CASE TakeReply(w)
  BY <1>1, <1>5, TakeReplyKeeps
<1>6. CASE FinishShell(w)
  BY <1>1, <1>6, FinishShellKeeps
<1>7. CASE SayReady(w)
  BY <1>1, <1>7, SayReadyKeeps
<1> QED
  BY <1>2, <1>3, <1>4, <1>5, <1>6, <1>7 DEF BashGuest

(* A Monty guest goes on.                                                   *)
LEMMA MontyGoesOn ==
  ASSUME IInv, NEW w \in Worker, worker[w].kind = "monty", worker[w].guest # "dead", NEW c,
         ChildOK(c, nextSession), c.kind = "monty", worker' = Becomes(w, c),
         Fresh(worker[w], "empty") => Fresh(c, "empty"),
         \A rq : RequestOK(rq) /\ MontyTalk(rq, worker[w]) => MontyTalk(rq, c),
         UNCHANGED <<request, idle, nextSession>>
  PROVE  IInv'
<1>1. ChildOK(worker[w], nextSession)
  BY DEF IInv, Sane
<1>2. ~Fresh(worker[w], "idle")
  BY <1>1 DEF ChildOK, Fresh, Quiet
<1>3. \A g \in {"idle", "empty"} : Fresh(worker[w], g) => Fresh(c, g)
  BY <1>2
<1>4. \A rq : RequestOK(rq) /\ c.kind = "monty" /\ MontyTalk(rq, worker[w]) => MontyTalk(rq, c)
  OBVIOUS
<1>5. \A rq : RequestOK(rq) /\ c.kind = "bash" /\ ShellTalk(rq, worker[w]) => ShellTalk(rq, c)
  OBVIOUS
<1> QED
  BY <1>3, <1>4, <1>5, GuestMoves

(* What a request stands at whose Monty worker has been told something.     *)
LEMMA Spoken ==
  ASSUME NEW a, a.guest # "dead", a.toGuest # <<>>, NEW rq, MontyTalk(rq, a)
  PROVE  /\ rq.stage \notin {"configure", "tool", "settle"}
         /\ rq.stage \in {"configuring", "turn", "resetting"} => Stream(a) = <<>>
         /\ rq.stage = "configuring" => a.guest = "empty" /\ a.toGuest[1].is = "Configure"
         /\ rq.stage = "turn" =>
              \/ a.guest = "configured" /\ a.toGuest[1].is = "Feed"
              \/ a.guest = "suspended" /\ a.toGuest[1].is = "Resume"
         /\ rq.stage = "resetting" =>
              a.guest \in {"suspended", "finished"} /\ a.toGuest[1].is = "Reset"
<1>1. rq.stage \notin {"configure", "tool", "settle"}
  BY DEF MontyTalk, Fresh, Quiet
<1>2. rq.stage = "configuring" =>
        Stream(a) = <<>> /\ a.guest = "empty" /\ a.toGuest[1].is = "Configure"
  BY DEF MontyTalk
<1>3. rq.stage = "turn" =>
        /\ Stream(a) = <<>>
        /\ \/ a.guest = "configured" /\ a.toGuest[1].is = "Feed"
           \/ a.guest = "suspended" /\ a.toGuest[1].is = "Resume"
  BY DEF MontyTalk, TurnTalk
<1>4. rq.stage = "resetting" =>
        Stream(a) = <<>> /\ a.guest \in {"suspended", "finished"} /\ a.toGuest[1].is = "Reset"
  BY DEF MontyTalk
<1> QED
  BY <1>1, <1>2, <1>3, <1>4

(* ProtocolChild never finds itself in the wrong state.                     *)
LEMMA ObeyKeeps ==
  ASSUME IInv, NEW w \in Worker, worker[w].kind = "monty", Obey(w),
         UNCHANGED <<request, idle, nextSession>>
  PROVE  IInv'
<1>1. /\ worker[w] \in Child /\ ChildOK(worker[w], nextSession) /\ nextSession \in Nat
      /\ worker[w].guest \in {"empty", "configured", "suspended", "finished"}
         /\ worker[w].toGuest # <<>>
  BY DEF Obey, IInv, Sane
<1>2. PICK a \in Child : a = worker[w]
  BY <1>1
<1>3. Len(a.toGuest) = 1 /\ WaitsFor(a.guest, a.toGuest[1].is)
  BY <1>1, <1>2 DEF ChildOK, MontyHears, WaitsFor
<1>4. PICK d : d = Hears(w)
  OBVIOUS
<1>5. /\ d \in Child /\ d.toGuest = <<>> /\ Stream(d) = Stream(a)
      /\ Head(a.toGuest) = a.toGuest[1]
      /\ d.kind = a.kind /\ d.guest = a.guest /\ d.channel = a.channel
      /\ d.listening = a.listening /\ d.reading = a.reading /\ d.offended = a.offended
  BY <1>1, <1>2, <1>3, <1>4, HearsIs
<1>6. PICK is : is = a.toGuest[1].is
  OBVIOUS
<1>7. WaitsFor(a.guest, is) /\ Head(worker[w].toGuest).is = is
  BY <1>2, <1>3, <1>5, <1>6
<1>8. a.guest # "dead" /\ a.guest # "stuck" /\ a.toGuest # <<>> /\ ~Fresh(worker[w], "empty")
  BY <1>1, <1>2 DEF Fresh, Quiet
<1>9. /\ a.reading /\ a.listening /\ \A i \in DOMAIN Stream(a) : Stream(a)[i].is # "Malformed"
      /\ Len(a.channel) <= Room /\ ~a.offended
  BY <1>1, <1>2, <1>8 DEF ChildOK, Wired, Alive
<1>10. CASE is \in {"Feed", "Resume"}
  <2>1. PICK c : c = [d EXCEPT !.guest = "running"]
    OBVIOUS
  <2>2. worker' = Becomes(w, c)
    BY <1>2, <1>4, <1>7, <1>10, <2>1 DEF Obey, WaitsFor
  <2>3. /\ c \in Child /\ c.kind = a.kind /\ c.guest = "running" /\ c.toGuest = <<>>
        /\ c.channel = d.channel /\ c.toHost = d.toHost /\ c.listening = a.listening
        /\ c.reading = a.reading /\ c.offended = a.offended
    BY <1>5, <2>1 DEF Child, Guests
  <2>4. Stream(c) = Stream(a)
    BY <1>5, <2>3 DEF Stream
  <2>5. ChildOK(c, nextSession)
    BY <1>1, <1>2, <1>5, <1>9, <2>3, <2>4 DEF ChildOK, Wired, MontyHears
  <2>6. ASSUME NEW rq, RequestOK(rq), MontyTalk(rq, a) PROVE MontyTalk(rq, c)
    <3>1. /\ rq.stage \notin {"configure", "tool", "settle", "configuring", "resetting"}
          /\ rq.stage = "turn" => Stream(a) = <<>>
      BY <1>6, <1>8, <1>10, <2>6, Spoken
    <3>2. DOMAIN <<>> = {}
      OBVIOUS
    <3>3. rq.stage = "turn" => TurnTalk(c)
      BY <2>3, <2>4, <3>1, <3>2 DEF TurnTalk
    <3> QED
      BY <3>1, <3>3 DEF MontyTalk
  <2> QED
    BY <1>1, <1>2, <1>8, <2>2, <2>3, <2>5, <2>6, MontyGoesOn
<1>11. PICK state \in {"configured", "empty"} : state = IF is = "Configure" THEN "configured" ELSE "empty"
  OBVIOUS
<1>12. CASE is \in {"Configure", "Reset"}
  <2>1. PICK e : e = [d EXCEPT !.guest = state]
    OBVIOUS
  <2>2. /\ e \in Child /\ e.kind = a.kind /\ e.guest = state /\ e.toGuest = <<>>
        /\ e.channel = d.channel /\ e.toHost = d.toHost /\ e.listening = a.listening
        /\ e.reading = a.reading /\ e.offended = a.offended
    BY <1>5, <2>1 DEF Child, Guests
  <2>3. Stream(e) = Stream(a)
    BY <1>5, <2>2 DEF Stream
  <2>4. Wired(e)
    BY <1>9, <2>2, <2>3 DEF Wired
  <2>5. PICK f : f = Signal("Ok")
    OBVIOUS
  <2>6. f \in Frames /\ f.is = "Ok"
    BY <2>5, SignalIs DEF Words
  <2>7. PICK s : s = Says(e, f)
    OBVIOUS
  <2>8. /\ s \in Child /\ s.kind = a.kind /\ s.guest = state /\ s.toGuest = <<>>
        /\ s.channel = e.channel /\ s.offended = a.offended /\ Wired(s)
        /\ (Stream(e) = <<>> => Stream(s) = <<f>>)
    BY <2>2, <2>4, <2>6, <2>7, GuestSays
  <2>9. PICK c : c = IF is = "Configure" THEN s ELSE [s EXCEPT !.events = 0]
    OBVIOUS
  <2>10. /\ c \in Child /\ c.kind = s.kind /\ c.guest = s.guest /\ c.toGuest = s.toGuest
         /\ c.channel = s.channel /\ c.toHost = s.toHost /\ c.offended = s.offended
         /\ c.reading = s.reading /\ c.listening = s.listening
    BY <2>8, <2>9 DEF Child
  <2>11. Stream(c) = Stream(s)
    BY <2>10 DEF Stream
  <2>12. worker' = Becomes(w, c)
    <3>1. CASE is = "Configure"
      BY <1>2, <1>4, <1>7, <1>11, <2>1, <2>5, <2>7, <2>9, <3>1 DEF Obey, Replies, WaitsFor
    <3>2. CASE is = "Reset"
      BY <1>2, <1>4, <1>7, <1>11, <2>1, <2>5, <2>7, <2>9, <3>2 DEF Obey, Replies, WaitsFor
    <3> QED
      BY <1>12, <3>1, <3>2
  <2>13. ChildOK(c, nextSession)
    BY <1>1, <1>2, <1>5, <1>9, <2>2, <2>8, <2>10, <2>11 DEF ChildOK, Wired, Alive, MontyHears
  <2>14. <<f>>[1] = f /\ Len(<<f>>) = 1
    BY <2>6, Literal
  <2>15. ASSUME NEW rq, RequestOK(rq), MontyTalk(rq, a) PROVE MontyTalk(rq, c)
    <3>1. /\ rq.stage \notin {"configure", "tool", "settle", "turn"}
          /\ rq.stage \in {"configuring", "resetting"} => Stream(a) = <<>>
          /\ rq.stage = "configuring" => is = "Configure"
          /\ rq.stage = "resetting" => is = "Reset"
      BY <1>6, <1>8, <1>12, <2>15, Spoken
    <3>2. rq.stage \in {"configuring", "resetting"} => One(c, {"Ok"})
      BY <2>3, <2>6, <2>8, <2>11, <2>14, <3>1 DEF One
    <3> QED
      BY <1>11, <2>8, <2>10, <3>1, <3>2 DEF MontyTalk
  <2> QED
    BY <1>1, <1>2, <1>8, <2>8, <2>10, <2>12, <2>13, <2>15, MontyGoesOn
<1> QED
  BY <1>7, <1>10, <1>12 DEF WaitsFor

(* Output and one more.                                                     *)
LEMMA ChatGrows ==
  ASSUME NEW f \in Seq(Frames), \A i \in DOMAIN f : f[i].is = "Print", NEW e \in Frames,
         NEW g, g = Append(f, e)
  PROVE  /\ e.is = "Print" => \A i \in DOMAIN g : g[i].is = "Print"
         /\ \A last : e.is \in last => Chatter(g, last)
<1>1. /\ Len(g) = Len(f) + 1 /\ Len(f) \in Nat /\ g[Len(g)] = e /\ \A i \in 1..Len(f) : g[i] = f[i]
      /\ DOMAIN f = 1..Len(f) /\ DOMAIN g = 1..Len(g)
  BY OneMore
<1>2. \A i \in DOMAIN g : i \in DOMAIN f \/ i = Len(g)
  BY <1>1
<1>3. e.is = "Print" => \A i \in DOMAIN g : g[i].is = "Print"
  BY <1>1, <1>2
<1>4. Len(g) > 0 /\ \A i \in 1..(Len(g) - 1) : g[i].is = "Print"
  <2>1. Len(g) - 1 = Len(f) /\ Len(g) > 0
    BY <1>1
  <2>2. \A i \in 1..Len(f) : g[i] = f[i] /\ f[i].is = "Print"
    BY <1>1
  <2> QED
    BY <2>1, <2>2
<1>5. \A last : e.is \in last => Chatter(g, last)
  BY <1>1, <1>4 DEF Chatter
<1> QED
  BY <1>3, <1>5

(* A Monty worker at its program is in its request's turn.                  *)
LEMMA Performing ==
  ASSUME NEW a, a.guest = "running", NEW rq, MontyTalk(rq, a)
  PROVE  /\ rq.stage \notin {"configure", "configuring", "tool", "settle", "resetting"}
         /\ rq.stage = "turn" => \A i \in DOMAIN Stream(a) : Stream(a)[i].is = "Print"
<1>1. rq.stage \notin {"configure", "configuring", "tool"}
  BY DEF MontyTalk, Fresh, Quiet
<1>2. rq.stage \notin {"settle", "resetting"}
  BY DEF MontyTalk, Quiet
<1>3. rq.stage = "turn" => \A i \in DOMAIN Stream(a) : Stream(a)[i].is = "Print"
  BY DEF MontyTalk, TurnTalk
<1> QED
  BY <1>1, <1>2, <1>3

(* A step of the program a Monty guest runs.                                *)
LEMMA ProgressKeeps ==
  ASSUME IInv, NEW w \in Worker, worker[w].kind = "monty", Progress(w),
         UNCHANGED <<request, idle, nextSession>>
  PROVE  IInv'
<1>1. /\ worker[w] \in Child /\ ChildOK(worker[w], nextSession) /\ nextSession \in Nat
      /\ worker[w].guest = "running"
  BY DEF Progress, IInv, Sane
<1>2. PICK a \in Child : a = worker[w]
  BY <1>1
<1>3. PICK is \in {"Print", "Call", "Tool", "Suspend", "Complete", "Error"} :
        worker' = Becomes(w, Says([worker[w] EXCEPT
              !.events = IF is \in {"Complete", "Error"} THEN 0 ELSE @ + 1,
              !.guest = CASE is = "Print" -> "running"
                          [] is \in {"Complete", "Error"} -> "finished"
                          [] OTHER -> "suspended"], Signal(is)))
  BY DEF Progress
<1>4. PICK events \in Nat : events = IF is \in {"Complete", "Error"} THEN 0 ELSE a.events + 1
  <2>1. a.events + 1 \in Nat
    BY DEF Child
  <2> QED
    BY <2>1
<1>5. PICK guest \in {"running", "finished", "suspended"} :
        guest = CASE is = "Print" -> "running"
                  [] is \in {"Complete", "Error"} -> "finished"
                  [] OTHER -> "suspended"
  OBVIOUS
<1>6. \/ is = "Print" /\ guest = "running"
      \/ is \in {"Complete", "Error"} /\ guest = "finished"
      \/ is \in {"Call", "Tool", "Suspend"} /\ guest = "suspended"
  BY <1>5
<1>7. PICK e : e = [a EXCEPT !.events = events, !.guest = guest]
  OBVIOUS
<1>8. /\ e \in Child /\ e.kind = a.kind /\ e.guest = guest /\ e.toGuest = a.toGuest
      /\ e.channel = a.channel /\ e.toHost = a.toHost /\ e.listening = a.listening
      /\ e.reading = a.reading /\ e.offended = a.offended
  BY <1>7 DEF Child, Guests
<1>9. PICK f : f = Signal(is)
  OBVIOUS
<1>10. f \in Frames /\ f.is = is
  BY <1>9, SignalIs DEF Words
<1>11. PICK c : c = Says(e, f)
  OBVIOUS
<1>12. worker' = Becomes(w, c)
  BY <1>2, <1>3, <1>4, <1>5, <1>7, <1>9, <1>11
<1>13. /\ c \in Child /\ c.kind = e.kind /\ c.guest = e.guest /\ c.toGuest = e.toGuest
       /\ c.channel = e.channel /\ c.offended = e.offended
       /\ Wired(e) /\ f.is # "Malformed" => Wired(c)
       /\ Stream(c) = Append(Stream(e), f)
  BY <1>8, <1>10, <1>11, GuestSays
<1>14. Stream(e) = Stream(a)
  BY <1>8 DEF Stream
<1>15. Wired(c)
  BY <1>1, <1>2, <1>8, <1>10, <1>13, <1>14 DEF ChildOK, Wired, Alive
<1>16. a.toGuest = <<>>
  BY <1>1, <1>2 DEF ChildOK, MontyHears
<1>17. ChildOK(c, nextSession)
  BY <1>1, <1>2, <1>8, <1>13, <1>15, <1>16 DEF ChildOK, MontyHears
<1>18. ~Fresh(worker[w], "empty")
  BY <1>1 DEF Fresh, Quiet
<1>19. ASSUME NEW rq, RequestOK(rq), MontyTalk(rq, a) PROVE MontyTalk(rq, c)
  <2>1. /\ rq.stage \notin {"configure", "configuring", "tool", "settle", "resetting"}
        /\ rq.stage = "turn" => \A i \in DOMAIN Stream(a) : Stream(a)[i].is = "Print"
    BY <1>1, <1>2, <1>19, Performing
  <2>2. PICK s \in Seq(Frames) : s = Stream(a)
    BY StreamIs
  <2>3. PICK t : t = Append(s, f)
    OBVIOUS
  <2>4. Stream(c) = t
    BY <1>13, <1>14, <2>2, <2>3
  <2>5. rq.stage = "turn" =>
          /\ f.is = "Print" => \A i \in DOMAIN t : t[i].is = "Print"
          /\ \A last : f.is \in last => Chatter(t, last)
    BY <1>10, <2>1, <2>2, <2>3, ChatGrows, ZenonT(60)
  <2>6. rq.stage = "turn" => TurnTalk(c)
    BY <1>6, <1>8, <1>10, <1>13, <1>16, <2>4, <2>5 DEF TurnTalk
  <2> QED
    BY <2>1, <2>6 DEF MontyTalk
<1> QED
  BY <1>1, <1>2, <1>8, <1>12, <1>13, <1>17, <1>18, <1>19, MontyGoesOn

(* Every step of a Monty guest.                                             *)
LEMMA MontyGuestKeeps == ASSUME IInv, NEW w \in Worker, MontyGuest(w) PROVE IInv'
<1>1. worker[w].kind = "monty" /\ UNCHANGED <<request, idle, nextSession>>
  BY DEF MontyGuest
<1> QED
  BY <1>1, ObeyKeeps, ProgressKeeps DEF MontyGuest

(* A process dies, parked or in use.                                        *)
LEMMA DieKeeps == ASSUME IInv, NEW w \in Worker, Die(w) PROVE IInv'
<1>1. /\ worker[w] \in Child /\ ChildOK(worker[w], nextSession) /\ nextSession \in Nat \ {0}
      /\ worker[w].guest # "dead" /\ UNCHANGED <<request, idle, nextSession>>
  BY DEF Die, Gone, IInv, Sane
<1>2. PICK a \in Child : a = worker[w]
  BY <1>1
<1>3. PICK c : c = Dead(a)
  OBVIOUS
<1>4. c = [a EXCEPT !.guest = "dead", !.toGuest = <<>>, !.session = 0, !.sequence = 0, !.events = 0]
  BY <1>3 DEF Dead
<1>5. a.kind \in Kinds /\ ChildOK(a, nextSession)
  BY <1>1, <1>2 DEF ChildOK, Child
<1>6. /\ ChildOK(c, nextSession) /\ c.kind = a.kind /\ c.guest = "dead"
      /\ Stream(c) = Stream(a) /\ c.channel = a.channel /\ c.clean = a.clean
  BY ONLY <1>1, <1>4, <1>5, DeadOK
<1>7. /\ \A g : Fresh(c, g)
      /\ \A rq : RequestOK(rq) /\ ShellTalk(rq, a) => ShellTalk(rq, c)
      /\ \A rq : MontyTalk(rq, a) => MontyTalk(rq, c)
  BY <1>6, DeadTalks
<1>8. worker' = Becomes(w, c)
  BY <1>2, <1>3 DEF Die
<1> QED
  BY <1>1, <1>2, <1>6, <1>7, <1>8, GuestMoves

(* A guest writes a frame that cannot be decoded.                           *)
LEMMA BabbleKeeps == ASSUME IInv, NEW w \in Worker, Babble(w) PROVE IInv'
<1>1. /\ worker[w] \in Child /\ ChildOK(worker[w], nextSession) /\ nextSession \in Nat
      /\ worker[w].guest = "running" /\ UNCHANGED <<request, idle, nextSession>>
  BY DEF Babble, IInv, Sane
<1>2. PICK a \in Child : a = worker[w]
  BY <1>1
<1>3. PICK e : e = [a EXCEPT !.guest = "stuck"]
  OBVIOUS
<1>4. /\ e \in Child /\ e.kind = a.kind /\ e.guest = "stuck" /\ e.session = a.session
      /\ e.toGuest = a.toGuest /\ e.channel = a.channel /\ e.toHost = a.toHost
      /\ e.clean = a.clean /\ e.offended = a.offended
  BY <1>3 DEF Child, Guests
<1>5. PICK f : f = Signal("Malformed")
  OBVIOUS
<1>6. f \in Frames /\ f.is = "Malformed"
  BY <1>5, SignalIs DEF Words
<1>7. PICK c : c = Says(e, f)
  OBVIOUS
<1>8. worker' = Becomes(w, c)
  BY <1>2, <1>3, <1>5, <1>7 DEF Babble
<1>9. /\ c \in Child /\ c.kind = e.kind /\ c.guest = e.guest /\ c.session = e.session
      /\ c.toGuest = e.toGuest /\ c.channel = e.channel /\ c.clean = e.clean
         /\ c.offended = e.offended
      /\ Stream(c) = Append(Stream(e), f)
      /\ Stream(e) = <<>> => Stream(c) = <<f>>
  BY <1>4, <1>6, <1>7, GuestSays
<1>10. Stream(e) = Stream(a)
  BY <1>4 DEF Stream
<1>11. Wired(c)
  BY <1>4, <1>9 DEF Wired, Alive
<1>12. a.kind \in Kinds /\ a.toGuest = <<>>
  <2>1. a.kind \in Kinds \cup {"none"} /\ a.kind # "none" /\ ChildOK(a, nextSession)
    BY <1>1, <1>2 DEF ChildOK, Child
  <2>2. CASE a.kind = "bash"
    BY <1>1, <1>2, <2>1, <2>2 DEF ChildOK, BashHears, Kinds
  <2>3. CASE a.kind = "monty"
    BY <1>1, <1>2, <2>1, <2>3 DEF ChildOK, MontyHears, Kinds
  <2> QED
    BY <2>1, <2>2, <2>3, KindsAre
<1>13. ChildOK(c, nextSession)
  BY <1>1, <1>2, <1>4, <1>9, <1>11, <1>12 DEF ChildOK, BashHears, MontyHears
<1>14. ~Fresh(worker[w], "empty") /\ ~Fresh(worker[w], "idle")
  BY <1>1 DEF Fresh, Quiet
<1>15. ASSUME NEW rq, RequestOK(rq), ShellTalk(rq, a) PROVE ShellTalk(rq, c)
  <2>1. /\ rq.shell # "run" /\ (rq.shell \in {"release", "retire"} => ~a.clean /\ ~rq.keep)
    BY <1>1, <1>2, <1>15, Restless DEF Quiet
  <2>2. rq.shell # "hello" /\ rq.shell # "ready"
    BY <1>1, <1>2, <1>15 DEF ShellTalk, ReadyTalk, Quiet
  <2>3. rq.shell = "await" => ~a.clean /\ AwaitTalk(a, rq.session, rq.sequence)
    BY <1>15 DEF ShellTalk
  <2>4. rq.shell = "await" => Stream(a) = <<>>
    BY <1>1, <1>2, <2>3 DEF AwaitTalk
  <2>5. rq.shell = "await" => AwaitTalk(c, rq.session, rq.sequence)
    BY <1>4, <1>5, <1>9, <1>10, <1>12, <2>4 DEF AwaitTalk
  <2> QED
    BY <1>4, <1>9, <2>1, <2>2, <2>3, <2>5 DEF ShellTalk
<1>16. ASSUME NEW rq, MontyTalk(rq, a) PROVE MontyTalk(rq, c)
  <2>1. /\ rq.stage \notin {"configure", "configuring", "tool", "settle", "resetting"}
        /\ rq.stage = "turn" => \A i \in DOMAIN Stream(a) : Stream(a)[i].is = "Print"
    BY <1>1, <1>2, <1>16, Performing
  <2>2. PICK s \in Seq(Frames) : s = Stream(a)
    BY StreamIs
  <2>3. PICK t : t = Append(s, f)
    OBVIOUS
  <2>4. Stream(c) = t
    BY <1>9, <1>10, <2>2, <2>3
  <2>5. rq.stage = "turn" => \A last : f.is \in last => Chatter(t, last)
    BY <1>6, <2>1, <2>2, <2>3, ChatGrows
  <2>6. rq.stage = "turn" => TurnTalk(c)
    BY <1>4, <1>6, <1>9, <1>12, <2>4, <2>5 DEF TurnTalk
  <2> QED
    BY <2>1, <2>6 DEF MontyTalk
<1> QED
  BY <1>1, <1>2, <1>4, <1>8, <1>9, <1>13, <1>14, <1>15, <1>16, GuestMoves

-----------------------------------------------------------------------------
(* The start: one worker that new() has tried out, parked, or none.         *)
Tried == [Unborn EXCEPT !.kind = "bash", !.guest = "idle", !.listening = TRUE,
                        !.reading = TRUE, !.clean = TRUE]

(* A worker that was tried out is at rest.                                  *)
LEMMA TriedIs ==
  ASSUME NEW n \in Nat \ {0}
  PROVE  /\ Tried \in Child /\ ChildOK(Tried, n) /\ Tried.kind = "bash"
         /\ Fresh(Tried, "idle")
<1>1. PICK c : c = Tried
  OBVIOUS
<1>2. <<>> \in Seq(Frames) /\ Len(<<>>) = 0 /\ <<>> \o <<>> = <<>>
  OBVIOUS
<1>3. /\ c.kind = "bash" /\ c.guest = "idle" /\ c.toGuest = <<>> /\ c.channel = <<>>
         /\ c.toHost = <<>>
      /\ c.listening = TRUE /\ c.reading = TRUE /\ c.clean = TRUE /\ c.offended = FALSE
         /\ c.session = 0
  BY <1>1 DEF Tried, Unborn
<1>4. c \in Child
  BY <1>1, <1>2 DEF Tried, Unborn, Child, Guests, Kinds
<1>5. Stream(c) = <<>>
  BY <1>2, <1>3 DEF Stream
<1>6. Wired(c)
  BY <1>3, <1>5 DEF Wired
<1>7. ChildOK(c, n)
  BY <1>2, <1>3, <1>4, <1>6, WorkerAssumption DEF ChildOK, BashHears
<1> QED
  BY <1>1, <1>3, <1>4, <1>5, <1>7 DEF Fresh, Quiet

(* A request that has not begun holds nothing.                              *)
LEMMA IdlingIs ==
  ASSUME NEW kind \in {"bash", "monty", "plain"}, NEW W
  PROVE  /\ Idling(kind) \in Requests /\ RequestOK(Idling(kind)) /\ Talks(Idling(kind), W)
         /\ \A k \in Kinds : Hold(Idling(kind), k) = NoWorker
<1>1. PICK q : q = Idling(kind)
  OBVIOUS
<1>2. q \in Requests
  BY <1>1 DEF Idling, Requests, WithMonty, WithBash, Results
<1>3. /\ q.stage = "start" /\ q.shell = "none" /\ q.bash = NoWorker /\ q.monty = NoWorker
      /\ q.keep = FALSE /\ q.answer = "none" /\ q.result = "none"
  BY <1>1 DEF Idling
<1> QED
  BY <1>1, <1>2, <1>3 DEF RequestOK, Talks, Hold, WithMonty, WithBash

(* The initial states are sane.                                             *)
LEMMA Starts == Init => IInv
<1> SUFFICES ASSUME Init PROVE IInv
  OBVIOUS
<1>1. PICK first : first = CHOOSE w \in Worker : \A x \in Worker : w <= x
  OBVIOUS
<1>2. first \in Worker
  <2>1. \E w \in Worker : \A x \in Worker : w <= x
    BY WorkerAssumption, LeastElement
  <2> QED
    BY <1>1, <2>1
<1>3. PICK S : S = (IF MaxIdle > 0 THEN <<first>> ELSE <<>>)
  OBVIOUS
<1>4. PICK tried : tried = Tried
  OBVIOUS
<1>5. /\ worker = [w \in Worker |-> IF w = first /\ MaxIdle > 0 THEN tried ELSE Unborn]
      /\ idle = [bash |-> S, monty |-> <<>>]
      /\ nextSession = 1
      /\ \E frontend \in Frontends : request = [r \in Request |-> Idling(frontend[r])]
  BY <1>1, <1>3, <1>4 DEF Init, Tried
<1>6. /\ S \in Seq(Worker) /\ <<>> \in Seq(Worker)
      /\ \A i \in DOMAIN S : S[i] = first /\ i = 1 /\ MaxIdle > 0
  BY <1>2, <1>3
<1>7. idle \in [Kinds -> Seq(Worker)] /\ idle["bash"] = S /\ idle["monty"] = <<>>
  <2>1. PICK T \in Seq(Worker) : T = <<>>
    BY <1>6
  <2>2. PICK I : I = [bash |-> S, monty |-> T]
    OBVIOUS
  <2>3. I.bash = S /\ I.monty = T /\ DOMAIN I = {"bash", "monty"}
    BY <2>2
  <2>4. I = [k \in {"bash", "monty"} |-> I[k]]
    BY <2>2
  <2>5. \A k \in Kinds : I[k] \in Seq(Worker)
    BY <1>6, <2>1, <2>3, KindsAre
  <2>6. I \in [Kinds -> Seq(Worker)]
    BY <2>4, <2>5 DEF Kinds
  <2> QED
    BY <1>5, <2>1, <2>2, <2>3, <2>6
<1>8. /\ tried \in Child /\ ChildOK(tried, 1) /\ tried.kind = "bash" /\ Fresh(tried, "idle")
      /\ Unborn \in Child /\ ChildOK(Unborn, 1)
  <2>1. 1 \in Nat \ {0} /\ 1 \in Nat
    OBVIOUS
  <2> QED
    BY <1>4, <2>1, TriedIs, UnbornIs
<1>9. /\ worker \in [Worker -> Child] /\ \A w \in Worker : ChildOK(worker[w], 1)
      /\ MaxIdle > 0 => worker[first] = tried
  BY <1>2, <1>5, <1>8
<1>10. PICK frontend \in Frontends : request = [r \in Request |-> Idling(frontend[r])]
  BY <1>5
<1>11. \A r \in Request : frontend[r] \in {"bash", "monty", "plain"}
       /\ request[r] = Idling(frontend[r])
  BY <1>10, FrontendAssumption
<1>12. \A r \in Request :
         /\ request[r] \in Requests /\ RequestOK(request[r]) /\ Talks(request[r], worker)
         /\ \A k \in Kinds : Hold(request[r], k) = NoWorker
  BY <1>11, IdlingIs
<1>13. request \in [Request -> Requests]
  BY <1>10, <1>11, <1>12
<1>14. Apart(worker, request, idle)
  <2>1. \A i \in DOMAIN idle["bash"] : idle["bash"][i] = first /\ i = 1 /\ MaxIdle > 0
    BY <1>6, <1>7
  <2>2. DOMAIN idle["monty"] = {}
    BY <1>7
  <2>3. ASSUME NEW k \in Kinds PROVE
          /\ \A i, j \in DOMAIN idle[k] : i # j => idle[k][i] # idle[k][j]
          /\ \A i \in DOMAIN idle[k] : \A r \in Request : Hold(request[r], k) # idle[k][i]
          /\ \A i \in DOMAIN idle[k] :
               worker[idle[k][i]].kind = k /\ Fresh(worker[idle[k][i]], Rest[k])
    <3>1. CASE k = "bash"
      BY <1>2, <1>8, <1>9, <1>12, <2>1, <3>1, WorkerAssumption DEF Rest
    <3>2. CASE k = "monty"
      BY <2>2, <3>2
    <3> QED
      BY <3>1, <3>2, KindsAre
  <2> QED
    BY <1>12, <2>3 DEF Apart
<1> QED
  BY <1>5, <1>7, <1>9, <1>12, <1>13, <1>14 DEF IInv, Sane

-----------------------------------------------------------------------------
(* Nothing but these six variables is looked at.                            *)
LEMMA Stutters == IInv /\ UNCHANGED vars => IInv'
  BY DEF IInv, vars

(* Every step of a request's thread in its Bash call.                       *)
LEMMA BashHostKeeps == ASSUME IInv, NEW r \in Request, BashHost(r) PROVE IInv'
<1>1. CASE Queue(r)
  BY <1>1, QueueKeeps
<1>2. CASE GiveUp(r)
  BY <1>2, GiveUpKeeps
<1>3. CASE TakeIdle(r)
  BY <1>3, TakeIdleKeeps
<1>4. CASE Spawn(r)
  BY <1>4, SpawnKeeps
<1>5. CASE SpawnFails(r)
  BY <1>5, SpawnFailsKeeps
<1>6. CASE Handshake(r)
  BY <1>6, HandshakeKeeps
<1>7. CASE Run(r)
  BY <1>7, RunKeeps
<1>8. CASE Break(r)
  BY <1>8, BreakKeeps
<1>9. CASE Serve(r)
  BY <1>9, ServeKeeps
<1>10. CASE TakeDone(r)
  BY <1>10, TakeDoneKeeps
<1>11. CASE TakeReady(r)
  BY <1>11, TakeReadyKeeps
<1>12. CASE Release(r)
  BY <1>12, ReleaseKeeps
<1>13. CASE Retire(r)
  BY <1>13, RetireKeeps
<1> QED
  BY <1>1, <1>2, <1>3, <1>4, <1>5, <1>6, <1>7, <1>8, <1>9, <1>10, <1>11, <1>12, <1>13 DEF BashHost

(* Every step of a request's thread.                                        *)
LEMMA HostKeeps == ASSUME IInv, NEW r \in Request, Host(r) PROVE IInv'
<1>1. CASE StartShell(r)
  BY <1>1, StartShellKeeps
<1>2. CASE EndShell(r)
  BY <1>2, EndShellKeeps
<1>3. CASE Checkout(r)
  BY <1>3, CheckoutKeeps
<1>4. CASE Configure(r)
  BY <1>4, ConfigureKeeps
<1>5. CASE Abandon(r)
  BY <1>5, AbandonKeeps
<1>6. CASE Feed(r)
  BY <1>6, FeedKeeps
<1>7. CASE Output(r)
  BY <1>7, OutputKeeps
<1>8. CASE Answer(r)
  BY <1>8, AnswerKeeps
<1>9. CASE CallShell(r)
  BY <1>9, CallShellKeeps
<1>10. CASE ShellReturns(r)
  BY <1>10, ShellReturnsKeeps
<1>11. CASE EndTurn(r)
  BY <1>11, EndTurnKeeps
<1>12. CASE Reset(r)
  BY <1>12, ResetKeeps
<1>13. CASE Confirm(r)
  BY <1>13, ConfirmKeeps
<1>14. CASE ResetFails(r)
  BY <1>14, ResetFailsKeeps
<1>15. CASE Drop(r)
  BY <1>15, DropKeeps
<1>16. CASE Join(r)
  BY <1>16, JoinKeeps
<1>17. CASE BashHost(r)
  BY <1>17, BashHostKeeps
<1> QED
  BY <1>1, <1>2, <1>3, <1>4, <1>5, <1>6, <1>7, <1>8, <1>9, <1>10, <1>11, <1>12, <1>13, <1>14,
     <1>15, <1>16, <1>17 DEF Host

(* Every step there is.                                                     *)
LEMMA GoesOn == IInv /\ [Next]_vars => IInv'
<1> SUFFICES ASSUME IInv, [Next]_vars PROVE IInv'
  OBVIOUS
<1>1. CASE \E r \in Request : Host(r) \/ Interrupt(r)
  BY <1>1, HostKeeps, InterruptKeeps
<1>2. CASE \E w \in Worker : BashGuest(w) \/ MontyGuest(w) \/ Die(w) \/ Babble(w)
  BY <1>2, BashGuestKeeps, MontyGuestKeeps, DieKeeps, BabbleKeeps
<1>3. CASE UNCHANGED vars
  BY <1>3, Stutters
<1> QED
  BY <1>1, <1>2, <1>3 DEF Next

-----------------------------------------------------------------------------
(* The theorems.                                                            *)

(* What the invariant says of a parked worker.                              *)
LEMMA SaneParks == IInv => ParkedIsFresh
<1> SUFFICES ASSUME IInv, NEW w \in Parkings
             PROVE  /\ Gone(w) \/ AtRest(w)
                    /\ \A r \in Request : w \notin {request[r].bash, request[r].monty}
  BY DEF ParkedIsFresh
<1>1. w \in Worker /\ \E kind \in Kinds : w \in Range(idle[kind])
  BY DEF Parkings
<1>2. PICK kind \in Kinds : w \in Range(idle[kind])
  BY <1>1
<1>3. PICK i \in DOMAIN idle[kind] : w = idle[kind][i]
  BY <1>2 DEF Range
<1>4. /\ worker[w] \in Child /\ ChildOK(worker[w], nextSession)
      /\ Apart(worker, request, idle)
  BY <1>1 DEF IInv, Sane
<1>5. worker[w].kind = kind /\ Fresh(worker[w], Rest[kind])
  BY <1>3, <1>4 DEF Apart
<1>6. \A r \in Request : \A k \in Kinds : Hold(request[r], k) # w
  <2>1. PICK n : n = nextSession
    OBVIOUS
  <2>2. Sane(worker, request, idle, n)
    BY <2>1 DEF IInv
  <2> QED
    BY <1>3, <2>2, Owners
<1>7. \A r \in Request : w \notin {request[r].bash, request[r].monty}
  <2>1. \A r \in Request : Hold(request[r], "bash") = request[r].bash
        /\ Hold(request[r], "monty") = request[r].monty
    BY DEF Hold
  <2> QED
    BY <1>6, <2>1, KindsAre
<1>8. ASSUME ~Gone(w) PROVE AtRest(w)
  <2>1. Rest[kind] = IF kind = "bash" THEN "idle" ELSE "empty"
    BY KindsAre DEF Rest
  <2>2. Quiet(worker[w], Rest[kind])
    BY <1>5, <1>8 DEF Fresh, Gone
  <2>3. /\ worker[w].guest = Rest[kind] /\ worker[w].toGuest = <<>> /\ Stream(worker[w]) = <<>>
    BY <2>2 DEF Quiet
  <2>4. worker[w].channel = <<>> /\ worker[w].toHost = <<>>
    BY <1>4, <2>3, StreamIs
  <2>5. worker[w].reading
    BY <1>4, <2>1, <2>3 DEF ChildOK, Wired, Alive
  <2> QED
    BY <1>5, <2>1, <2>3, <2>4, <2>5 DEF AtRest
<1> QED
  BY <1>7, <1>8

(* SubprocessMonty with SubprocessBash (vsh-monty, vsh-bash): the sessions, *)
(* the frames in both directions and the ownership of every worker are as   *)
(* IInv says, for every number of requests and workers and all limits.      *)
THEOREM WorkersInvariant == Spec => []IInv
<1> QED
  BY Starts, GoesOn, PTL DEF Spec

(* checkin and Lease::drop: a worker goes to the pool at the start of a     *)
(* session, with nothing under way in either direction, and stays so while  *)
(* it is parked, and no request has it.                                     *)
THEOREM ParkedFresh == Spec => []ParkedIsFresh
<1> QED
  BY WorkersInvariant, SaneParks, PTL

(* SessionState::expect and the guest's checks: as long as the processes    *)
(* keep to the protocol no frame is ever refused by either side, whatever   *)
(* cancellations, deadlines and deaths come in between.                     *)
THEOREM NoneOffended == Spec => []NobodyOffended
<1>1. IInv => NobodyOffended
  BY DEF IInv, Sane, ChildOK, RequestOK, NobodyOffended
<1> QED
  BY <1>1, WorkersInvariant, PTL
===============================================================================
