----------------------------- MODULE WorkerProcess -----------------------------
(***************************************************************************)
(* Worker processes and the threads between them and the requests that use *)
(* them.  A worker is a child process with a pipe in and a pipe out; a     *)
(* reader thread moves whole frames from the pipe to a bounded channel and *)
(* blocks while the channel is full.  Bash and Monty workers have it alike.*)
(*                                                                         *)
(* A request's thread of control is a record of what it holds and where it *)
(* stands; `stop` is what its deadline and its cancellation have done, and *)
(* is looked at wherever the code polls.  A write is taken by the pipe at  *)
(* once, or fails on a dead process.                                       *)
(***************************************************************************)
EXTENDS Naturals, FiniteSets, SequencesExt

CONSTANTS Request,    \* the requests, each a thread of its own
          Worker,     \* bound: process identities, reused once reaped
          Room,       \* the channel's bound
          MaxIdle,    \* max_idle_workers
          MaxActive,  \* max_active_workers
          MaxReuse,   \* MAX_REUSE
          MaxEvents,  \* bound: what a guest does before it ends
          Troubles,   \* bound: deaths, undecodable frames, cancellations and failing spawns
          NoWorker

ASSUME WorkerAssumption ==
  /\ Room \in Nat \ {0} /\ MaxActive \in Nat \ {0} /\ MaxIdle \in 0..MaxActive
  /\ Request \subseteq Nat \ {0} /\ Worker \subseteq Nat /\ Worker # {} /\ NoWorker \notin Worker

VARIABLES worker,       \* the processes and their threads
          request,      \* the requests
          idle,         \* the parked workers of each kind, a stack
          active,       \* the Bash leases
          nextSession,  \* NEXT_SESSION
          trouble       \* history: the troubles so far

vars == <<worker, request, idle, active, nextSession, trouble>>

Kinds == {"bash", "monty"}

Unborn == [kind |-> "none", guest |-> "dead", session |-> 0, sequence |-> 0, events |-> 0,
           toGuest |-> <<>>, toHost |-> <<>>, channel |-> <<>>, listening |-> FALSE,
           reading |-> FALSE, executions |-> 0, clean |-> FALSE, offended |-> FALSE]

Frame(is, session, sequence) == [is |-> is, session |-> session, sequence |-> sequence]
Signal(is) == Frame(is, 0, 0)

(* Nobody reads what a dead process was told.                               *)
Dead(child) ==
  [child EXCEPT !.guest = "dead", !.toGuest = <<>>, !.session = 0, !.sequence = 0, !.events = 0]

Gone(w) == worker[w].guest = "dead"

(* Command::spawn and the reader thread, if the system has a process left.  *)
Free == {w \in Worker : worker[w].kind = "none"}
NextFree == CHOOSE w \in Free : \A x \in Free : w <= x

Spawned(kind, guest) ==
  [worker EXCEPT ![NextFree] =
     [Unborn EXCEPT !.kind = kind, !.guest = guest, !.listening = TRUE, !.reading = TRUE]]

(* The reader thread moves what it can as soon as it can: its delays cannot *)
(* be told from the guest's.  It ends at the end of a dead process's output,*)
(* at a frame it cannot decode, and when nobody listens any more.           *)
Pumped(child) ==
  LET n == Min({Room - Len(child.channel), Len(child.toHost)})
      rest == SubSeq(child.toHost, n + 1, Len(child.toHost))
      had == child.channel \o SubSeq(child.toHost, 1, n)
      broken == \E i \in DOMAIN had : had[i].is = "Malformed"
      ended == ~broken /\ child.guest = "dead" /\ rest = <<>> /\ Len(had) < Room IN
  IF ~child.reading THEN child
  ELSE IF ~child.listening THEN [child EXCEPT !.reading = child.guest # "dead" /\ child.toHost = <<>>]
  ELSE [child EXCEPT !.toHost = rest, !.reading = ~broken /\ ~ended,
                     !.channel = IF ended THEN Append(had, Signal("Eof")) ELSE had]

Becomes(w, child) == [worker EXCEPT ![w] = Pumped(child)]

(* What the host writes and takes, and what the guest does.                 *)
Told(w, frame) == [worker[w] EXCEPT !.toGuest = Append(@, frame)]
Taken(w) == [worker[w] EXCEPT !.channel = Tail(@)]
Hears(w) == [worker[w] EXCEPT !.toGuest = Tail(@)]
Says(child, frame) == [child EXCEPT !.toHost = Append(@, frame)]

(* What the host's channel can give it.                                     *)
Offered(w) == IF worker[w].channel = <<>> THEN "nothing" ELSE Head(worker[w].channel).is
Disconnected(w) == Offered(w) \in {"Eof", "Malformed"} \/ (Offered(w) = "nothing" /\ ~worker[w].reading)

(* While a worker is torn down what else happens to it, or to its request,  *)
(* makes no difference.                                                     *)
TearingDown(r) ==
  request[r].stage \in {"drop", "join", "end"} \/ request[r].shell \in {"retire", "kill", "join"}

Trouble == trouble < Troubles /\ trouble' = trouble + 1

(* A process may die at any time, and what it wrote stays in the pipe; a    *)
(* guest may write what the reader's limits refuse.                         *)
Die(w) ==
  /\ ~Gone(w) /\ \A r \in Request : w \in {request[r].bash, request[r].monty} => ~TearingDown(r)
  /\ Trouble
  /\ worker' = Becomes(w, Dead(worker[w]))
  /\ UNCHANGED <<request, idle, active, nextSession>>

Babble(w) ==
  /\ worker[w].guest = "running"
  /\ Trouble
  /\ worker' = Becomes(w, Says([worker[w] EXCEPT !.guest = "stuck"], Signal("Malformed")))
  /\ UNCHANGED <<request, idle, active, nextSession>>

-----------------------------------------------------------------------------
(* Drop for Worker, which holds up the thread it happens in: a Bash worker  *)
(* at rest is told to shut down and given a moment; then kill, wait, close  *)
(* and join.                                                                *)
Farewell(w) ==
  IF worker[w].kind = "bash" /\ worker[w].clean /\ ~Gone(w) THEN Told(w, Signal("Shutdown"))
  ELSE worker[w]

(* Mutation: the reader is joined while its channel is still open.          *)
KilledHolding(w) == Dead(worker[w])

Killed(w) == [Dead(worker[w]) EXCEPT !.listening = FALSE, !.channel = <<>>, !.clean = FALSE]

Reaped(w) == [worker EXCEPT ![w] = Unborn]

(* The deadline passes, or the caller cancels.                              *)
Interrupt(r) ==
  /\ request[r].stop = "no" /\ ~TearingDown(r)
  /\ \/ request' = [request EXCEPT ![r].stop = "late"] /\ UNCHANGED trouble
     \/ request' = [request EXCEPT ![r].stop = "cancelled"] /\ Trouble
  /\ UNCHANGED <<worker, idle, active, nextSession>>

Stopped(r) == request[r].stop # "no"
Cancelled(r) == request[r].stop = "cancelled"
===============================================================================
