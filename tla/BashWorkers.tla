------------------------------ MODULE BashWorkers ------------------------------
(***************************************************************************)
(* SubprocessBash: the bounded pool, the session protocol between host and *)
(* guest, and the guest's own loop.  A request's `shell` is where its call *)
(* of execute_with_budget stands, "none" outside of one, and `answer` what *)
(* the call returned.                                                      *)
(***************************************************************************)
EXTENDS WorkerProcess

Moved(r, change) == request' = [request EXCEPT ![r] = change]

(* A call that fails gives its lease back, the worker it has is dropped.    *)
Failing(r) == [request[r] EXCEPT !.shell = "release", !.answer = "failed"]

-----------------------------------------------------------------------------
(* checkout.                                                                *)
Queue(r) ==
  /\ request[r].shell = "called"
  /\ Moved(r, IF Stopped(r) THEN [request[r] EXCEPT !.shell = "returned", !.answer = "failed"]
              ELSE [request[r] EXCEPT !.shell = "queue"])
  /\ UNCHANGED <<worker, idle, active, nextSession, trouble>>

GiveUp(r) ==
  /\ request[r].shell = "queue" /\ Stopped(r)
  /\ Moved(r, [request[r] EXCEPT !.shell = "returned", !.answer = "failed"])
  /\ UNCHANGED <<worker, idle, active, nextSession, trouble>>

Leased(r) == [request[r] EXCEPT !.leased = TRUE]

TakeIdle(r) ==
  /\ request[r].shell = "queue" /\ ~Stopped(r) /\ active < MaxActive
  /\ idle.bash # <<>>
  /\ Moved(r, [Leased(r) EXCEPT !.shell = "run", !.bash = Last(idle.bash)])
  /\ idle' = [idle EXCEPT !.bash = Front(@)] /\ active' = active + 1
  /\ UNCHANGED <<worker, nextSession, trouble>>

Spawn(r) ==
  /\ request[r].shell = "queue" /\ ~Stopped(r) /\ active < MaxActive
  /\ idle.bash = <<>> /\ Free # {}
  /\ worker' = Spawned("bash", "born")
  /\ Moved(r, [Leased(r) EXCEPT !.shell = "hello", !.bash = NextFree])
  /\ active' = active + 1
  /\ UNCHANGED <<idle, nextSession, trouble>>

SpawnFails(r) ==
  /\ request[r].shell = "queue" /\ ~Stopped(r) /\ active < MaxActive
  /\ idle.bash = <<>>
  /\ Moved(r, [Leased(r) EXCEPT !.shell = "release", !.answer = "failed"])
  /\ active' = active + 1
  /\ Trouble
  /\ UNCHANGED <<worker, idle, nextSession>>

(* The handshake; a worker that fails it is dropped inside spawn, before    *)
(* the lease is.                                                            *)
Handshake(r) ==
  LET w == request[r].bash IN
  /\ request[r].shell = "hello"
  /\ \/ /\ ~Stopped(r) /\ Offered(w) = "Hello"
        /\ worker' = Becomes(w, [Taken(w) EXCEPT !.clean = TRUE])
        /\ Moved(r, [request[r] EXCEPT !.shell = "run"])
     \/ /\ Stopped(r) \/ Disconnected(w)
        /\ Moved(r, [request[r] EXCEPT !.shell = "retire", !.answer = "failed"])
        /\ UNCHANGED worker
  /\ UNCHANGED <<idle, active, nextSession, trouble>>

-----------------------------------------------------------------------------
(* Worker::execute.                                                         *)
(* Mutation: sessions count the requests as they came, not the runs as they *)
(* start.                                                                   *)
SessionByArrival(r) == r

Session(r) == nextSession

Run(r) ==
  LET w == request[r].bash IN
  /\ request[r].shell = "run"
  /\ nextSession' = nextSession + 1
  /\ IF Stopped(r) \/ Gone(w)
     THEN Moved(r, Failing(r)) /\ worker' = [worker EXCEPT ![w].clean = FALSE]
     ELSE /\ worker' = Becomes(w, [Told(w, Frame("Run", Session(r), 0)) EXCEPT !.clean = FALSE])
          /\ Moved(r, [request[r] EXCEPT !.shell = "await", !.session = Session(r),
                                         !.sequence = 1, !.refused = FALSE])
  /\ UNCHANGED <<idle, active, trouble>>

(* A frame is taken only if it is the next of the request's session.        *)
Expected(r, is) ==
  LET w == request[r].bash IN
  /\ ~Stopped(r) /\ Offered(w) = is
  /\ Head(worker[w].channel) = Frame(is, request[r].session, request[r].sequence)

OutOfOrder(r) ==
  /\ ~Stopped(r) /\ Offered(request[r].bash) \notin {"nothing", "Eof", "Malformed"}
  /\ CASE request[r].shell = "await" -> ~Expected(r, "Call") /\ ~Expected(r, "Done")
       [] request[r].shell = "ready" -> ~Expected(r, "Ready")

Broken(r) == Stopped(r) \/ Disconnected(request[r].bash) \/ OutOfOrder(r)

Break(r) ==
  /\ request[r].shell \in {"await", "ready"} /\ Broken(r)
  /\ Moved(r, [Failing(r) EXCEPT !.answer = IF OutOfOrder(r) THEN "protocol" ELSE "failed"])
  /\ UNCHANGED <<worker, idle, active, nextSession, trouble>>

(* dispatch answers, refuses for good, or ends the execution.               *)
Serve(r) ==
  LET w == request[r].bash IN
  /\ request[r].shell = "await" /\ Expected(r, "Call")
  /\ \/ /\ \E refused \in {request[r].refused, TRUE} :
             Moved(r, IF Gone(w) THEN Failing(r)
                      ELSE [request[r] EXCEPT !.sequence = @ + 1, !.refused = refused])
        /\ worker' = Becomes(w, IF Gone(w) THEN Taken(w)
                     ELSE [Taken(w) EXCEPT !.toGuest =
                             Append(@, Frame("Reply", request[r].session, request[r].sequence))])
     \/ Moved(r, Failing(r)) /\ worker' = Becomes(w, Taken(w))
  /\ UNCHANGED <<idle, active, nextSession, trouble>>

TakeDone(r) ==
  /\ request[r].shell = "await" /\ Expected(r, "Done")
  /\ worker' = Becomes(request[r].bash, Taken(request[r].bash))
  /\ \/ Moved(r, [request[r] EXCEPT !.shell = "ready"])
     \/ Moved(r, Failing(r))                                   \* OutputBytes
  /\ UNCHANGED <<idle, active, nextSession, trouble>>

(* Only a success is worth a parked worker, and not one used up.            *)
TakeReady(r) ==
  LET w == request[r].bash IN
  /\ request[r].shell = "ready" /\ Expected(r, "Ready")
  /\ worker' = Becomes(w, [Taken(w) EXCEPT !.executions = @ + 1, !.clean = TRUE])
  /\ \E failed \in BOOLEAN :                                   \* status, failure, limits
       LET ok == ~failed /\ ~request[r].refused IN
       Moved(r, [request[r] EXCEPT !.shell = "release", !.answer = IF ok THEN "ok" ELSE "failed",
                                   !.keep = ok /\ worker'[w].executions < MaxReuse])
  /\ UNCHANGED <<idle, active, nextSession, trouble>>

(* Lease::drop, then the drop of the worker it still has.                   *)
Release(r) ==
  LET parks == request[r].keep /\ Len(idle.bash) < MaxIdle IN
  /\ request[r].shell = "release"
  /\ active' = active - 1
  /\ idle' = IF parks THEN [idle EXCEPT !.bash = Append(@, request[r].bash)] ELSE idle
  /\ Moved(r, [request[r] EXCEPT !.leased = FALSE, !.keep = FALSE,
                 !.bash = IF parks THEN NoWorker ELSE @,
                 !.shell = IF parks \/ request[r].bash = NoWorker THEN "returned" ELSE "retire"])
  /\ UNCHANGED <<worker, nextSession, trouble>>

Retire(r) ==
  LET w == request[r].bash IN
  \/ /\ request[r].shell = "retire"
     /\ worker' = Becomes(w, Farewell(w))
     /\ Moved(r, [request[r] EXCEPT !.shell = "kill"])
     /\ UNCHANGED <<idle, active, nextSession, trouble>>
  \/ /\ request[r].shell = "kill"
     /\ worker' = Becomes(w, Killed(w))
     /\ Moved(r, [request[r] EXCEPT !.shell = "join"])
     /\ UNCHANGED <<idle, active, nextSession, trouble>>
  \/ /\ request[r].shell = "join" /\ ~worker[w].reading
     /\ worker' = Reaped(w)
     /\ Moved(r, [request[r] EXCEPT !.bash = NoWorker,
                    !.shell = IF request[r].leased THEN "release" ELSE "returned"])
     /\ UNCHANGED <<idle, active, nextSession, trouble>>

BashHost(r) ==
  \/ Queue(r) \/ GiveUp(r) \/ TakeIdle(r) \/ Spawn(r) \/ SpawnFails(r) \/ Handshake(r)
  \/ Run(r) \/ Break(r) \/ Serve(r) \/ TakeDone(r) \/ TakeReady(r)
  \/ Release(r) \/ Retire(r)

-----------------------------------------------------------------------------
(* worker_main and RpcFs::request.                                          *)
Stamped(w, is) == Frame(is, worker[w].session, worker[w].sequence)

Greet(w) ==
  /\ worker[w].guest = "born"
  /\ worker' = Becomes(w, Says([worker[w] EXCEPT !.guest = "idle"], Stamped(w, "Hello")))

Accept(w) ==
  LET frame == Head(worker[w].toGuest) IN
  /\ worker[w].guest = "idle" /\ worker[w].toGuest # <<>>
  /\ worker' = Becomes(w,
       CASE frame.is = "Shutdown" -> Dead(worker[w])
         [] frame.is = "Run" /\ frame.session > worker[w].session /\ frame.sequence = 0 ->
              [Hears(w) EXCEPT !.guest = "running", !.session = frame.session, !.sequence = 1]
         [] OTHER -> [Dead(worker[w]) EXCEPT !.offended = TRUE])

CallHost(w) ==
  /\ worker[w].guest = "running" /\ worker[w].events < MaxEvents
  /\ worker' = Becomes(w, Says([worker[w] EXCEPT !.guest = "calling", !.events = @ + 1],
                               Stamped(w, "Call")))

TakeReply(w) ==
  /\ worker[w].guest = "calling" /\ worker[w].toGuest # <<>>
  /\ worker' = Becomes(w,
       IF Head(worker[w].toGuest) = Stamped(w, "Reply")
       THEN [Hears(w) EXCEPT !.guest = "running", !.sequence = @ + 1]
       ELSE [Hears(w) EXCEPT !.guest = "running", !.offended = TRUE])

FinishShell(w) ==
  /\ worker[w].guest = "running"
  /\ worker' = Becomes(w, Says([worker[w] EXCEPT !.guest = "reset", !.events = 0],
                               Stamped(w, "Done")))

SayReady(w) ==
  /\ worker[w].guest = "reset"
  /\ worker' = Becomes(w, Says([worker[w] EXCEPT !.guest = "idle", !.sequence = 0],
                               Stamped(w, "Ready")))

BashGuest(w) ==
  /\ worker[w].kind = "bash"
  /\ Greet(w) \/ Accept(w) \/ CallHost(w) \/ TakeReply(w) \/ FinishShell(w) \/ SayReady(w)
  /\ UNCHANGED <<request, idle, active, nextSession, trouble>>
===============================================================================
