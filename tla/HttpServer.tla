----------------------------- MODULE HttpServer -----------------------------
(***************************************************************************)
(* The process of eventkit-server (and of eventkit-mcp, which has the same *)
(* shape): the HTTP server with its write deadline, the rate limiter and   *)
(* the request timeout in front of handlers that may hang, and the         *)
(* shutdown on SIGINT or SIGTERM.  The token bucket is golang.org/x/time's *)
(* limiter: taking and giving back a reservation are two calls, with other *)
(* requests in between.                                                    *)
(***************************************************************************)
EXTENDS ServerConfig, FiniteSets, FiniteSetsExt

CONSTANTS
    NumReqs,  \* bound: how many requests are sent; their numbers say in what order
    Raws,     \* flags and environments the binaries are started with
    Second,   \* ticks in a second; a token is Second units
    Drain,    \* ticks Shutdown waits for
    MaxTime   \* bound: where the clock stops

ASSUME ServerConstants ==
    /\ NumReqs \in Nat /\ Second \in Nat \ {0} /\ Drain \in Nat /\ MaxTime \in Nat

(* What flags and environment can give, and their defaults.                  *)
ASSUME GivenSettings ==
    /\ Unset \notin Int /\ BadValue \notin Int /\ Unset # BadValue
    /\ {DefaultWriteTimeout, DefaultRequestTimeout, DefaultRPS, DefaultBurst} \subseteq Nat
    /\ \A raw \in Raws : \A s \in {raw.write, raw.request, raw.rps, raw.burst} :
           s.flag \in Int \cup {Unset} /\ s.env \in Int \cup {Unset, BadValue}

(* The tick is so short that a token takes a whole number of ticks to come:  *)
(* slots are not rounded (the limiter's own clock has nanoseconds).          *)
ASSUME WholeTicks ==
    \A raw \in Raws : Accepted(raw) /\ Settings(raw).rps > 0 => Second % Settings(raw).rps = 0

VARIABLES
    main,      \* run: "start", "serve", "exited"
    cfg,       \* the settings in effect
    now,       \* the clock
    lim,       \* the limiter: tokens, time of the last update, last slot given
    req,       \* per request: where it is and its times
    term,      \* SIGINT or SIGTERM has been delivered
    closing,   \* when Shutdown closed the listener, or Open
    excused    \* history: the limiter may have given back less than it took

limiter == <<lim, excused>>
vars == <<main, cfg, now, lim, req, term, closing, excused>>

Reqs == 1..NumReqs
Open == -1
Never == -1
NoSettings == [write |-> 0, request |-> 0, rps |-> 0, burst |-> 0]
Idle == [pc |-> "idle", at |-> 0, slot |-> 0, began |-> Never]

Init ==
    /\ main = "start" /\ cfg = NoSettings /\ now = 0
    /\ lim = [tokens |-> 0, last |-> 0, lastEvent |-> 0]
    /\ req = [r \in Reqs |-> Idle]
    /\ term = FALSE /\ closing = Open /\ excused = FALSE

(* parseConfig, the bind check, and a bucket that starts full.  What else    *)
(* the start needs (a policy, an address that is free) may fail as well.     *)
Start ==
    /\ main = "start"
    /\ \/ \E raw \in Raws :
            /\ Accepted(raw)
            /\ main' = "serve" /\ cfg' = Settings(raw)
            /\ lim' = [lim EXCEPT !.tokens = cfg'.burst * Second]
       \/ main' = "exited" /\ UNCHANGED <<cfg, lim>>
    /\ UNCHANGED <<now, req, term, closing, excused>>

-----------------------------------------------------------------------------
(* The limiter. *)
Limited == cfg.rps > 0 /\ cfg.burst > 0
Least(a, b) == IF a < b THEN a ELSE b
Filled(bucket, t) == Least(cfg.burst * Second, bucket.tokens + cfg.rps * (t - bucket.last))
Holding == {r \in Reqs : req[r].pc \in {"reserved", "refused"}}

(* A connection is accepted and read: the write deadline runs from here.     *)
(* Reserve takes a token, if need be one the bucket will only have later.    *)
Arrive(r) ==
    /\ req[r].pc = "idle" /\ main = "serve" /\ closing = Open /\ r = Min({q \in Reqs : req[q].pc = "idle"})
    /\ IF Limited
       THEN LET tokens == Filled(lim, now) - Second
                slot == now + (IF tokens < 0 THEN (cfg.rps - 1 - tokens) \div cfg.rps ELSE 0)
            IN  /\ lim' = [tokens |-> tokens, last |-> now, lastEvent |-> slot]
                /\ req' = [req EXCEPT ![r] = [pc |-> "reserved", at |-> now, slot |-> slot, began |-> Never]]
                /\ excused' = (excused \/ \E q \in Holding : req[q].pc = "refused" \/ req[q].slot > now)
       ELSE /\ req' = [req EXCEPT ![r] = [pc |-> "running", at |-> now, slot |-> now, began |-> now]]
            /\ UNCHANGED <<lim, excused>>
    /\ UNCHANGED <<main, cfg, now, term, closing>>

(* Mutant of Admit: a delay that rounds to no second counts as none. *)
AdmitWithinTheSecond(r) ==
    /\ main = "serve" /\ req[r].pc = "reserved" /\ req[r].slot - now < Second
    /\ req' = [req EXCEPT ![r].pc = "running", ![r].began = now]
    /\ UNCHANGED <<main, cfg, now, limiter, term, closing>>

(* delay == 0 *)
Admit(r) ==
    /\ main = "serve" /\ req[r].pc = "reserved" /\ req[r].slot <= now
    /\ req' = [req EXCEPT ![r].pc = "running", ![r].began = now]
    /\ UNCHANGED <<main, cfg, now, limiter, term, closing>>

(* delay > 0, but the reservation is still there for the others to see.      *)
Refuse(r) ==
    /\ main = "serve" /\ req[r].pc = "reserved" /\ req[r].slot > now
    /\ req' = [req EXCEPT ![r].pc = "refused"]
    /\ UNCHANGED <<main, cfg, now, limiter, term, closing>>

(* What the client gets, if it can still be written.  The deadline is set    *)
(* when the request has been read, before any timer of a handler: of two     *)
(* that run equally long the deadline is over first.                         *)
Late(r) == cfg.write > 0 /\ now >= req[r].at + cfg.write
Reply(r, status) == req' = [req EXCEPT ![r].pc = IF Late(r) THEN "cut" ELSE status]

(* Mutant of Cancel: the reservation is never given back. *)
CancelNothing(r) ==
    /\ main = "serve" /\ req[r].pc = "refused" /\ Reply(r, "429")
    /\ UNCHANGED <<main, cfg, now, limiter, term, closing>>

(* Cancel: slots given out behind this one keep their place, so what they    *)
(* wait for is not given back; then 429.                                     *)
Cancel(r) ==
    /\ main = "serve" /\ req[r].pc = "refused"
    /\ LET slot == req[r].slot
           back == Second - cfg.rps * (lim.lastEvent - slot)
           before == slot - Second \div cfg.rps
       IN  lim' = IF slot < now \/ back <= 0 THEN lim
                  ELSE [tokens |-> Least(cfg.burst * Second, Filled(lim, now) + back),
                        last |-> now,
                        lastEvent |-> IF slot = lim.lastEvent /\ before >= now THEN before ELSE lim.lastEvent]
    /\ excused' = (excused \/ req[r].slot < now)
    /\ Reply(r, "429")
    /\ UNCHANGED <<main, cfg, now, term, closing>>

-----------------------------------------------------------------------------
(* The handler, which may never return, and the request timeout.             *)

(* Mutant of TimeLimit: a timeout of 0 means none. *)
TimeLimitOff == IF cfg.request <= 0 THEN MaxTime + 1 ELSE cfg.request

TimeLimit == IF cfg.request <= 0 THEN DefaultRequestTimeout ELSE cfg.request

TimedOut(r) ==
    /\ main = "serve" /\ cfg.request # Unset /\ req[r].pc = "running"
    /\ now >= req[r].began + TimeLimit

Return(r) ==
    /\ main = "serve" /\ req[r].pc = "running" /\ Reply(r, "200")
    /\ UNCHANGED <<main, cfg, now, limiter, term, closing>>

Timeout(r) ==
    /\ TimedOut(r) /\ Reply(r, "504")
    /\ UNCHANGED <<main, cfg, now, limiter, term, closing>>

-----------------------------------------------------------------------------
(* Signals and the end of the process. *)
Signal ==
    /\ main = "serve" /\ ~term /\ term' = TRUE
    /\ UNCHANGED <<main, cfg, now, limiter, req, closing>>

(* The goroutine behind ctx.Done(): Shutdown closes the listener first.      *)
Shutdown ==
    /\ main = "serve" /\ term /\ closing = Open /\ closing' = now
    /\ UNCHANGED <<main, cfg, now, limiter, req, term>>

InFlight(r) == req[r].pc \in {"reserved", "refused", "running"}

(* Mutant of ServeReturns: run waits until every request has been answered. *)
ServeReturnsDrained ==
    /\ main = "serve" /\ closing # Open /\ \A r \in Reqs : ~InFlight(r)
    /\ main' = "exited" /\ UNCHANGED <<cfg, now, limiter, req, term, closing>>

(* ListenAndServe returns ErrServerClosed as soon as the listener is closed; *)
(* run and main return, and with the process go the requests in flight.      *)
ServeReturns ==
    /\ main = "serve" /\ closing # Open
    /\ main' = "exited"
    /\ req' = [r \in Reqs |-> IF InFlight(r) THEN [req[r] EXCEPT !.pc = "cut"] ELSE req[r]]
    /\ UNCHANGED <<cfg, now, limiter, term, closing>>

(* Time passes, but not past a request timeout that is due.                  *)
Tick ==
    /\ main = "serve" /\ now < MaxTime /\ now' = now + 1
    /\ \A r \in Reqs : ~TimedOut(r)
    /\ UNCHANGED <<main, cfg, limiter, req, term, closing>>

Step(r) == Admit(r) \/ Refuse(r) \/ Cancel(r) \/ Timeout(r)

Next ==
    \/ Start \/ Signal \/ Shutdown \/ ServeReturns \/ Tick
    \/ \E r \in Reqs : Arrive(r) \/ Step(r) \/ Return(r)

Spec == Init /\ [][Next]_vars

(* The goroutines of the process run; handlers owe nothing.                  *)
FairSpec ==
    /\ Spec /\ WF_vars(Shutdown) /\ WF_vars(ServeReturns)
    /\ \A r \in Reqs : WF_vars(Step(r))

-----------------------------------------------------------------------------
Admitted == {r \in Reqs : req[r].began # Never}   \* the requests that were let through

(***************************************************************************)
(* However reservations are taken and given back, the requests let through *)
(* respect the bucket: of those that come after one moment no more are let *)
(* through by another than the burst and what the rate adds in between     *)
(* (ratelimit.go:9-16).                                                    *)
(***************************************************************************)
AdmittedWithinBudget ==
    Limited => \A r, s \in Admitted :
        LET within == {q \in Admitted : req[q].at >= req[r].at /\ req[q].began <= req[s].began}
        IN  Cardinality(within) * Second
                <= cfg.burst * Second + cfg.rps * Max({0, req[s].began - req[r].at})

(* The bucket, had only those of the first n requests taken a token that     *)
(* were let through.                                                         *)
AdmittedOnly[n \in 0..NumReqs] ==
    IF n = 0 THEN [tokens |-> cfg.burst * Second, last |-> 0]
    ELSE IF n \in Admitted
    THEN [tokens |-> Filled(AdmittedOnly[n - 1], req[n].at) - Second, last |-> req[n].at]
    ELSE AdmittedOnly[n - 1]

(***************************************************************************)
(* A refused request gives the others nothing and in the end costs them    *)
(* nothing: once no reservation is held the bucket is never fuller than    *)
(* the admitted requests alone, each taking its token on arrival, would    *)
(* have left it, and as full.  Excused from the second are a request that  *)
(* came while another held a slot still to come or was being refused, and  *)
(* a reservation given back after its slot: there the limiter gives back   *)
(* less than it took (ratelimit.go:27-42).                                 *)
(***************************************************************************)
RefusedTakeNothing ==
    main = "serve" /\ Limited /\ Holding = {} =>
        LET due == Filled(AdmittedOnly[NumReqs], now)
        IN  /\ Filled(lim, now) <= due
            /\ ~excused => Filled(lim, now) = due

(***************************************************************************)
(* While the process serves, a client loses its answer only to the write   *)
(* deadline, which runs from the request's arrival: a request that was let *)
(* through only where the deadline is no longer than the wait for this and *)
(* the request timeout together, however late its handler returns; one     *)
(* that was refused only if it has been as long in the limiter.  Without a *)
(* write deadline nobody does (main.go:133-139, 293-298; timeout.go:20-28).*)
(***************************************************************************)
OnlyDueCuts ==
    \A r \in Reqs : req[r].pc = "cut" /\ main = "serve" =>
        /\ cfg.write > 0
        /\ cfg.write <=
              IF r \in Admitted
              THEN (req[r].began - req[r].at)
                       + (IF cfg.request <= 0 THEN DefaultRequestTimeout ELSE cfg.request)
              ELSE now - req[r].at

(***************************************************************************)
(* Told to stop, the process ends, whatever the handlers do                *)
(* (main.go:306-324).                                                      *)
(***************************************************************************)
StopsWhenAsked == (term /\ main = "serve") ~> main = "exited"

(***************************************************************************)
(* "SIGINT/SIGTERM triggers a 5s graceful drain" (main.go:11): a request   *)
(* in flight is cut off only when the drain has lasted its time.           *)
(***************************************************************************)
GracefulDrain ==
    [][\A r \in Reqs : main' = "exited" /\ InFlight(r) => now >= closing + Drain]_vars
=============================================================================
