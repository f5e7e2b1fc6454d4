-------------------------------- MODULE Workers --------------------------------
(***************************************************************************)
(* SubprocessMonty with its pool and the protocol of its workers, composed *)
(* with the Bash workers: a request is a Bash program of its own, or a     *)
(* Monty program whose vsh_bash calls run in the same Bash pool while the  *)
(* Monty worker waits, under the same deadline and cancellation.           *)
(***************************************************************************)
EXTENDS BashWorkers

CONSTANT Frontends   \* bound: what the requests may be

(* A Bash program, a Monty program that may call the shell, or one that may *)
(* not, for which vsh_bash is a call like any other.                        *)
ASSUME FrontendAssumption == Frontends \subseteq [Request -> {"bash", "monty", "plain"}]

Idling(kind) ==
  [kind |-> kind, stop |-> "no", stage |-> "start", result |-> "none", monty |-> NoWorker,
   shell |-> "none", answer |-> "none", bash |-> NoWorker, leased |-> FALSE,
   keep |-> FALSE, session |-> 0, sequence |-> 0, refused |-> FALSE]

At(r, stage) == request[r].stage = stage

(* What is left of a request that has returned.                             *)
Ended(r, result) == [Idling(request[r].kind) EXCEPT !.stage = "end", !.result = result]

(* A request leaves its worker to Drop, with the result it will return.     *)
Dropping(r, result) == [Ended(r, result) EXCEPT !.stage = "drop", !.monty = request[r].monty]

-----------------------------------------------------------------------------
(* A request for the Bash frontend is one call of execute_with_budget.      *)
StartShell(r) ==
  /\ request[r].kind = "bash" /\ At(r, "start")
  /\ Moved(r, [request[r] EXCEPT !.stage = "shell", !.shell = "called"])
  /\ UNCHANGED <<worker, idle, active, nextSession, trouble>>

EndShell(r) ==
  /\ request[r].kind = "bash" /\ At(r, "shell") /\ request[r].shell = "returned"
  /\ Moved(r, Ended(r, request[r].answer))
  /\ UNCHANGED <<worker, idle, active, nextSession, trouble>>

-----------------------------------------------------------------------------
(* execute_inner and checkout: as many workers as requests.                 *)
Checkout(r) ==
  /\ request[r].kind # "bash" /\ At(r, "start")
  /\ \/ /\ Cancelled(r)
        /\ Moved(r, Ended(r, "failed"))
        /\ UNCHANGED <<worker, idle, trouble>>
     \/ /\ ~Cancelled(r) /\ idle.monty # <<>>
        /\ Moved(r, [request[r] EXCEPT !.stage = "configure", !.monty = Last(idle.monty)])
        /\ idle' = [idle EXCEPT !.monty = Front(@)]
        /\ UNCHANGED <<worker, trouble>>
     \/ /\ ~Cancelled(r) /\ idle.monty = <<>> /\ Free # {}
        /\ worker' = Spawned("monty", "empty")
        /\ Moved(r, [request[r] EXCEPT !.stage = "configure", !.monty = NextFree])
        /\ UNCHANGED <<idle, trouble>>
     \/ /\ ~Cancelled(r) /\ idle.monty = <<>>                  \* the spawn fails
        /\ Trouble
        /\ Moved(r, Ended(r, "failed"))
        /\ UNCHANGED <<worker, idle>>
  /\ UNCHANGED <<active, nextSession>>

(* send fails on a dead process, and when the request has been stopped.     *)
Tell(r, is, onward) ==
  LET w == request[r].monty IN
  IF Stopped(r) \/ Gone(w)
  THEN Moved(r, Dropping(r, "failed")) /\ worker' = Becomes(w, Taken(w))
  ELSE /\ Moved(r, onward)
       /\ worker' = Becomes(w, [Taken(w) EXCEPT !.toGuest = Append(@, Signal(is))])

Configure(r) ==
  LET w == request[r].monty IN
  /\ At(r, "configure")
  /\ IF Stopped(r) \/ Gone(w) THEN Moved(r, Dropping(r, "failed")) /\ UNCHANGED worker
     ELSE /\ Moved(r, [request[r] EXCEPT !.stage = "configuring"])
          /\ worker' = Becomes(w, Told(w, Signal("Configure")))
  /\ UNCHANGED <<idle, active, nextSession, trouble>>

(* receive looks at the deadline and the cancellation before the channel.   *)
Hands(r, events) == ~Stopped(r) /\ Offered(request[r].monty) \in events

(* What no child should answer.                                             *)
Unexpected(r) ==
  \/ At(r, "configuring") /\ ~Hands(r, {"nothing", "Ok", "Eof", "Malformed"}) /\ ~Stopped(r)
  \/ At(r, "turn") /\ Hands(r, {"Ok"})

Cut(r) == Stopped(r) \/ Disconnected(request[r].monty) \/ Unexpected(r)

Abandon(r) ==
  /\ request[r].stage \in {"configuring", "turn"} /\ Cut(r)
  /\ Moved(r, Dropping(r, IF Unexpected(r) THEN "protocol" ELSE "failed"))
  /\ UNCHANGED <<worker, idle, active, nextSession, trouble>>

Feed(r) ==
  /\ At(r, "configuring") /\ Hands(r, {"Ok"})
  /\ Tell(r, "Feed", [request[r] EXCEPT !.stage = "turn"])
  /\ UNCHANGED <<idle, active, nextSession, trouble>>

(* One event of the turn: output or a call that stays within the limits     *)
(* goes on, and anything may meet one.                                      *)
Output(r) ==
  LET w == request[r].monty IN
  /\ At(r, "turn") /\ Hands(r, {"Print"})
  /\ worker' = Becomes(w, Taken(w))
  /\ UNCHANGED request \/ Moved(r, Dropping(r, "failed"))
  /\ UNCHANGED <<idle, active, nextSession, trouble>>

Answer(r) ==
  /\ At(r, "turn") /\ Hands(r, IF request[r].kind = "plain" THEN {"Call", "Tool"} ELSE {"Call"})
  /\ \/ Tell(r, "Resume", request[r])
     \/ /\ Moved(r, Dropping(r, "failed"))
        /\ worker' = Becomes(request[r].monty, Taken(request[r].monty))
  /\ UNCHANGED <<idle, active, nextSession, trouble>>

(* run_bash.                                                                *)
CallShell(r) ==
  /\ request[r].kind = "monty" /\ At(r, "turn") /\ Hands(r, {"Tool"})
  /\ Moved(r, [request[r] EXCEPT !.stage = "tool", !.shell = "called"])
  /\ UNCHANGED <<worker, idle, active, nextSession, trouble>>

ShellReturns(r) ==
  /\ At(r, "tool") /\ request[r].shell = "returned"
  /\ IF request[r].answer = "ok"
     THEN Tell(r, "Resume",
               [request[r] EXCEPT !.stage = "turn", !.shell = "none", !.answer = "none"])
     ELSE /\ Moved(r, Dropping(r, request[r].answer))
          /\ worker' = Becomes(request[r].monty, Taken(request[r].monty))
  /\ UNCHANGED <<idle, active, nextSession, trouble>>

EndTurn(r) ==
  LET w == request[r].monty IN
  /\ At(r, "turn") /\ Hands(r, {"Complete", "Error", "Suspend"})
  /\ worker' = Becomes(w, Taken(w))
  /\ \/ Moved(r, [request[r] EXCEPT !.stage = "settle",
                    !.result = IF Offered(w) = "Complete" THEN "ok" ELSE "raised"])
     \/ Moved(r, Dropping(r, "failed"))                        \* ResultBytes, ExceptionBytes
  /\ UNCHANGED <<idle, active, nextSession, trouble>>

-----------------------------------------------------------------------------
(* The end of execute_inner: a run that ended in the guest leaves a worker  *)
(* that can be reset, and one that confirms the reset is parked.            *)
Reset(r) ==
  LET w == request[r].monty IN
  /\ At(r, "settle")
  /\ \/ /\ Cancelled(r)
        /\ Moved(r, Dropping(r, "failed")) /\ UNCHANGED worker
     \/ /\ ~Cancelled(r)
        /\ IF Gone(w) THEN Moved(r, Dropping(r, request[r].result)) /\ UNCHANGED worker
           ELSE /\ Moved(r, [request[r] EXCEPT !.stage = "resetting"])
                /\ worker' = Becomes(w, Told(w, Signal("Reset")))
  /\ UNCHANGED <<idle, active, nextSession, trouble>>

(* checkin.                                                                 *)
Parked(r) ==
  IF Len(idle.monty) < MaxIdle
  THEN /\ idle' = [idle EXCEPT !.monty = Append(@, request[r].monty)]
       /\ Moved(r, Ended(r, request[r].result))
  ELSE Moved(r, Dropping(r, request[r].result)) /\ UNCHANGED idle

(* Mutation: the reset is sent and not waited for.                          *)
ConfirmUnheard(r) ==
  /\ At(r, "resetting") /\ ~Cancelled(r)
  /\ Parked(r) /\ UNCHANGED worker
  /\ UNCHANGED <<active, nextSession, trouble>>

Confirm(r) ==
  /\ At(r, "resetting") /\ ~Cancelled(r) /\ Offered(request[r].monty) = "Ok"
  /\ worker' = Becomes(request[r].monty, Taken(request[r].monty))
  /\ Parked(r)
  /\ UNCHANGED <<active, nextSession, trouble>>

(* The reset has a deadline of its own; a reset that fails costs the worker *)
(* and not the result.                                                      *)
ResetFails(r) ==
  /\ At(r, "resetting")
  /\ Moved(r, Dropping(r, IF Cancelled(r) THEN "failed" ELSE request[r].result))
  /\ UNCHANGED <<worker, idle, active, nextSession, trouble>>

(* Drop for Worker.                                                         *)
Drop(r) ==
  /\ At(r, "drop")
  /\ worker' = Becomes(request[r].monty, Killed(request[r].monty))
  /\ Moved(r, [request[r] EXCEPT !.stage = "join"])
  /\ UNCHANGED <<idle, active, nextSession, trouble>>

Join(r) ==
  /\ At(r, "join") /\ ~worker[request[r].monty].reading
  /\ worker' = Reaped(request[r].monty)
  /\ Moved(r, Ended(r, request[r].result))
  /\ UNCHANGED <<idle, active, nextSession, trouble>>

Host(r) ==
  \/ StartShell(r) \/ EndShell(r) \/ Checkout(r) \/ Configure(r) \/ Abandon(r) \/ Feed(r)
  \/ Output(r) \/ Answer(r) \/ CallShell(r) \/ ShellReturns(r) \/ EndTurn(r)
  \/ Reset(r) \/ Confirm(r) \/ ResetFails(r) \/ Drop(r) \/ Join(r) \/ BashHost(r)

-----------------------------------------------------------------------------
(* ProtocolChild: what each request finds and leaves.  A request in the     *)
(* wrong state is answered with an Error, and all but Configure have then   *)
(* emptied the session.                                                     *)
Replies(w, state, is) ==
  Says([Hears(w) EXCEPT !.guest = state], Signal(is))

Violates(w, state) == [Replies(w, state, "Error") EXCEPT !.offended = TRUE]

Obey(w) ==
  LET at == worker[w].guest
      is == Head(worker[w].toGuest).is IN
  /\ at \in {"empty", "configured", "suspended", "finished"} /\ worker[w].toGuest # <<>>
  /\ worker' = Becomes(w,
       CASE is = "Configure" -> IF at = "empty" THEN Replies(w, "configured", "Ok")
                                ELSE Violates(w, at)
         [] is = "Feed"      -> IF at = "configured"
                                THEN [Hears(w) EXCEPT !.guest = "running"]
                                ELSE Violates(w, "empty")
         [] is = "Resume"    -> IF at = "suspended" THEN [Hears(w) EXCEPT !.guest = "running"]
                                ELSE Violates(w, "empty")
         [] is = "Reset"     -> [Replies(w, "empty", "Ok") EXCEPT !.events = 0])

(* The program: output, a suspension, or its end.                           *)
Progress(w) ==
  /\ worker[w].guest = "running"
  /\ \E is \in {"Print", "Call", "Tool", "Suspend", "Complete", "Error"} :
       /\ is \in {"Complete", "Error"} \/ worker[w].events < MaxEvents
       /\ worker' = Becomes(w, Says([worker[w] EXCEPT
              !.events = IF is \in {"Complete", "Error"} THEN 0 ELSE @ + 1,
              !.guest = CASE is = "Print" -> "running"
                          [] is \in {"Complete", "Error"} -> "finished"
                          [] OTHER -> "suspended"], Signal(is)))

MontyGuest(w) ==
  /\ worker[w].kind = "monty"
  /\ Obey(w) \/ Progress(w)
  /\ UNCHANGED <<request, idle, active, nextSession, trouble>>

-----------------------------------------------------------------------------
(* The Bash pool starts with the worker new() has tried out.                *)
Init ==
  LET first == CHOOSE w \in Worker : \A x \in Worker : w <= x
      tried == [Unborn EXCEPT !.kind = "bash", !.guest = "idle", !.listening = TRUE,
                              !.reading = TRUE, !.clean = TRUE] IN
  /\ worker = [w \in Worker |-> IF w = first /\ MaxIdle > 0 THEN tried ELSE Unborn]
  /\ idle = [bash |-> IF MaxIdle > 0 THEN <<first>> ELSE <<>>, monty |-> <<>>]
  /\ active = 0 /\ nextSession = 1 /\ trouble = 0
  /\ \E frontend \in Frontends :
       request = [r \in Request |-> Idling(frontend[r])]

Next ==
  \/ \E r \in Request : Host(r) \/ Interrupt(r)
  \/ \E w \in Worker : BashGuest(w) \/ MontyGuest(w) \/ Die(w) \/ Babble(w)

Spec == Init /\ [][Next]_vars

(* The host's threads go on, and deadlines pass; of the guests nothing is   *)
(* known.                                                                   *)
Fairness ==
  \A r \in Request : WF_vars(Host(r)) /\ WF_vars(Interrupt(r))

FairSpec == Spec /\ Fairness

-----------------------------------------------------------------------------
AtRest(w) ==
  /\ worker[w].guest = (IF worker[w].kind = "bash" THEN "idle" ELSE "empty")
  /\ worker[w].toGuest = <<>> /\ worker[w].toHost = <<>> /\ worker[w].channel = <<>>
  /\ worker[w].reading

Parkings == {w \in Worker : \E kind \in Kinds : w \in Range(idle[kind])}

(* A parked worker, unless it has died since, is at the start of a session  *)
(* with nothing under way in either direction, and nobody's: whatever the   *)
(* run before did, the next one begins fresh and hears only its own worker. *)
ParkedIsFresh ==
  \A w \in Parkings :
    /\ Gone(w) \/ AtRest(w)
    /\ \A r \in Request : w \notin {request[r].bash, request[r].monty}

(* As long as the processes keep to the protocol, neither side ever takes   *)
(* the other for a violator, however pooling, cancellation, deadlines and   *)
(* deaths interleave.                                                       *)
NobodyOffended ==
  /\ \A w \in Worker : ~worker[w].offended
  /\ \A r \in Request : "protocol" \notin {request[r].answer, request[r].result}

Settled ==
  /\ \A r \in Request : At(r, "end")
  /\ active = 0
  /\ \A w \in Worker : worker[w].kind = "none" \/ w \in Parkings

(* Every request ends, whatever its guest does; its lease is given back and *)
(* its worker parked or reaped, its reader thread with it.                  *)
Settles == <>[]Settled
===============================================================================
