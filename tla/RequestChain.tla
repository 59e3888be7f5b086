---------------------------- MODULE RequestChain ----------------------------
(***************************************************************************)
(* The middleware chain of server.New around a handler.  Two goroutines    *)
(* work on a request: the connection's (Recover, Loopback, RateLimit, the  *)
(* select of RequestTimeout) and the one RequestTimeout starts, which runs *)
(* RequireContentType, Idempotency, Audit and the handler, and goes on     *)
(* when the deadline has answered the client.                              *)
(***************************************************************************)
EXTENDS Integers, FiniteSets, SequencesExt

CONSTANTS
    Requests,   \* the requests of clients, each sent once
    Keys, Cap, Window, MaxTime,   \* as in IdemCache
    NoKey,      \* no Idempotency-Key header
    Nobody      \* no execution's response

ASSUME ChainConstants ==
    /\ Cap \in Nat \ {0} /\ Window \in Nat \ {0} /\ MaxTime \in Nat
    /\ NoKey \notin Keys /\ Nobody \notin Requests

VARIABLES
    entries, order, now,   \* the idemCache; a response is named by the request whose handler wrote it
    req,       \* req[r]: whether r is a write, and its cache key
    serve,     \* serve[r]: the connection's goroutine
    handler,   \* handler[r]: the goroutine RequestTimeout starts
    ctx,       \* ctx[r]: "live", "late" (DeadlineExceeded) or "gone" (Canceled)
    out,       \* out[r]: the response the handler goroutine is writing
    wire,      \* wire[r]: the status committed to the client, and whose body it got
    executed,  \* the requests whose operation the bridge has carried out
    logged,    \* logged[r]: the status in r's audit record, or "none"
    raced,     \* history: keys looked up in vain while another request with the key was under way
    forgotten  \* history: keys whose entry expired or was pushed out

Cache == INSTANCE IdemCache WITH Values <- Requests

cacheVars == <<entries, order, now>>
history == <<raced, forgotten>>
vars == <<cacheVars, req, serve, handler, ctx, out, wire, executed, logged, history>>

Status == {"none", "ok", "refused", "failed", "timeout"}
NoResponse == [status |-> "none", from |-> Nobody]
Response == [status : Status, from : Requests \cup {Nobody}]

Cacheable(r) == req[r].write /\ req[r].key # NoKey
Succeeded(r) == r \in executed /\ out[r] = [status |-> "ok", from |-> r]
UnderWay(r) == handler[r] = "run" \/ (Succeeded(r) /\ handler[r] # "done")

Move(r, step) == handler' = [handler EXCEPT ![r] = step]
Write(r, status, from) == out' = [out EXCEPT ![r] = [status |-> status, from |-> from]]

Send(r, status, from) == wire' = [wire EXCEPT ![r] = [status |-> status, from |-> from]]
Replay(r, q) == Write(r, out[q].status, q)

(* WriteHeader takes effect once, and not when the exchange is over. *)
Commit(r, status) ==
    IF wire[r].status = "none" /\ serve[r] = "waiting"
      THEN Send(r, status, wire[r].from) ELSE UNCHANGED wire
Note == forgotten' = forgotten \cup {k \in Keys : Cache!Present(k) /\ ~Cache!Present(k)'}

Init ==
    /\ Cache!Init
    /\ req = [r \in Requests |-> [write |-> FALSE, key |-> NoKey]]
    /\ serve = [r \in Requests |-> "idle"]
    /\ handler = [r \in Requests |-> "idle"]
    /\ ctx = [r \in Requests |-> "live"]
    /\ out = [r \in Requests |-> NoResponse]
    /\ wire = [r \in Requests |-> NoResponse]
    /\ executed = {}
    /\ logged = [r \in Requests |-> "none"]
    /\ raced = {} /\ forgotten = {}

(* Loopback, RejectMethodOverride and RateLimit may answer themselves;       *)
(* otherwise RequestTimeout starts the handler's goroutine and waits.        *)
Arrive(r) ==
    /\ serve[r] = "idle"
    /\ \E write \in BOOLEAN, key \in Keys \cup {NoKey} :
        req' = [req EXCEPT ![r] = [write |-> write, key |-> key]]
    /\ \/ /\ serve' = [serve EXCEPT ![r] = "returned"]
          /\ Send(r, "refused", Nobody)
          /\ UNCHANGED handler
       \/ /\ serve' = [serve EXCEPT ![r] = "waiting"]
          /\ Move(r, "admit")
          /\ UNCHANGED wire
    /\ UNCHANGED <<cacheVars, ctx, out, executed, logged, history>>

(* RequireContentType answers 415, inside the timeout, outside the audit. *)
Unsupported(r) ==
    /\ handler[r] = "admit" /\ req[r].write
    /\ Write(r, "refused", Nobody) /\ Move(r, "header")
    /\ UNCHANGED <<cacheVars, req, serve, ctx, wire, executed, logged, history>>

(* Idempotency lets reads and requests without a key through. *)
PassBy(r) ==
    /\ handler[r] = "admit" /\ ~Cacheable(r)
    /\ Move(r, "run")
    /\ UNCHANGED <<cacheVars, req, serve, ctx, out, wire, executed, logged, history>>

(* Mutant of Lookup: the key is compared without the path. *)
LookupIgnoringPath(r) ==
    /\ handler[r] = "admit" /\ Cacheable(r)
    /\ \/ /\ \E k \in DOMAIN entries : Cache!Hit(k) /\ Replay(r, entries[k].value)
          /\ Move(r, "header")
       \/ /\ \A k \in DOMAIN entries : ~Cache!Hit(k)
          /\ Move(r, "run") /\ UNCHANGED out
    /\ UNCHANGED <<cacheVars, req, serve, ctx, wire, executed, logged, history>>

Lookup(r) ==
    /\ handler[r] = "admit" /\ Cacheable(r)
    /\ LET k == req[r].key
       IN  /\ Cache!Get(k)
           /\ Note
           /\ IF Cache!Hit(k)
                THEN /\ Replay(r, entries[k].value) /\ Move(r, "header")
                     /\ UNCHANGED raced
                ELSE /\ Move(r, "run") /\ UNCHANGED out
                     /\ raced' = IF \E q \in Requests \ {r} : Cacheable(q) /\ req[q].key = k /\ UnderWay(q)
                                   THEN raced \cup {k} ELSE raced
    /\ UNCHANGED <<req, serve, ctx, wire, executed, logged>>

(* The handler calls the bridge.  A write can fail before or after it took   *)
(* effect (the second index of the scoped layer); a success is an effect.    *)
Run(r) ==
    /\ handler[r] = "run"
    /\ \E status \in {"ok", "failed"}, effect \in BOOLEAN :
        /\ effect => req[r].write
        /\ req[r].write /\ status = "ok" => effect
        /\ executed' = IF effect THEN executed \cup {r} ELSE executed
        /\ Write(r, status, r)
    /\ Move(r, "header")
    /\ UNCHANGED <<cacheVars, req, serve, ctx, wire, logged, history>>

(* recover() in the goroutine's defer; Audit and Idempotency are skipped. *)
Panic(r) ==
    /\ handler[r] = "run"
    /\ \E effect \in BOOLEAN :
        /\ effect => req[r].write
        /\ executed' = IF effect THEN executed \cup {r} ELSE executed
    /\ Move(r, "panicked")
    /\ UNCHANGED <<cacheVars, req, serve, ctx, out, wire, logged, history>>

WriteHeader(r) ==
    /\ handler[r] = "header"
    /\ Commit(r, out[r].status)
    /\ Move(r, "body")
    /\ UNCHANGED <<cacheVars, req, serve, ctx, out, executed, logged, history>>

(* Mutant of WriteBody: a response no one waits for is not audited. *)
WriteBodyIfWaited(r) ==
    /\ handler[r] = "body"
    /\ IF serve[r] = "waiting" THEN Send(r, wire[r].status, out[r].from) ELSE UNCHANGED wire
    /\ Move(r, IF req[r].write /\ out[r].from = r /\ serve[r] = "waiting" THEN "log" ELSE "done")
    /\ UNCHANGED <<cacheVars, req, serve, ctx, out, executed, logged, history>>

(* A write after the connection's goroutine returned reaches no one.  Then   *)
(* the wrappers below unwind: replays and refusals were written above them.  *)
WriteBody(r) ==
    /\ handler[r] = "body"
    /\ IF serve[r] = "waiting" THEN Send(r, wire[r].status, out[r].from) ELSE UNCHANGED wire
    /\ Move(r, IF req[r].write /\ out[r].from = r THEN "log" ELSE "done")
    /\ UNCHANGED <<cacheVars, req, serve, ctx, out, executed, logged, history>>

(* Mutants of Log: a request without a key is cached; one no one waits for  *)
(* is not.                                                                   *)
LogKeyless(r) ==
    /\ handler[r] = "log"
    /\ logged' = [logged EXCEPT ![r] = out[r].status]
    /\ Move(r, IF req[r].write /\ out[r].status = "ok" THEN "store" ELSE "done")
    /\ UNCHANGED <<cacheVars, req, serve, ctx, out, wire, executed, history>>

LogIfWaited(r) ==
    /\ handler[r] = "log"
    /\ logged' = [logged EXCEPT ![r] = out[r].status]
    /\ Move(r, IF Cacheable(r) /\ out[r].status = "ok" /\ serve[r] = "waiting" THEN "store" ELSE "done")
    /\ UNCHANGED <<cacheVars, req, serve, ctx, out, wire, executed, history>>

Log(r) ==
    /\ handler[r] = "log"
    /\ logged' = [logged EXCEPT ![r] = out[r].status]
    /\ Move(r, IF Cacheable(r) /\ out[r].status = "ok" THEN "store" ELSE "done")
    /\ UNCHANGED <<cacheVars, req, serve, ctx, out, wire, executed, history>>

(* Mutant of Store: the map is written past the capacity check. *)
StoreUnbounded(r) ==
    /\ handler[r] = "store"
    /\ entries' = Cache!With(entries, req[r].key, r)
    /\ order' = IF Cache!Present(req[r].key) THEN order ELSE Append(order, req[r].key)
    /\ Move(r, "done")
    /\ UNCHANGED <<now, req, serve, ctx, out, wire, executed, logged, history>>

Store(r) ==
    /\ handler[r] = "store"
    /\ Cache!Put(req[r].key, r)
    /\ Note
    /\ Move(r, "done")
    /\ UNCHANGED <<req, serve, ctx, out, wire, executed, logged, raced>>

(* Mutant of ServeDone: the panic value is dropped. *)
ServeDoneSilent(r) ==
    /\ serve[r] = "waiting" /\ handler[r] \in {"done", "panicked"}
    /\ serve' = [serve EXCEPT ![r] = "returned"]
    /\ UNCHANGED <<cacheVars, req, handler, ctx, out, wire, executed, logged, history>>

(* case <-done: return, or re-raise the panic for Recover to answer 500. *)
ServeDone(r) ==
    /\ serve[r] = "waiting" /\ handler[r] \in {"done", "panicked"}
    /\ IF handler[r] = "panicked" THEN Commit(r, "failed") ELSE UNCHANGED wire
    /\ serve' = [serve EXCEPT ![r] = "returned"]
    /\ UNCHANGED <<cacheVars, req, handler, ctx, out, executed, logged, history>>

(* Mutant of ServeTimeout: the deadline first waits for the handler. *)
ServeTimeoutJoining(r) ==
    /\ serve[r] = "waiting" /\ ctx[r] # "live" /\ handler[r] \in {"done", "panicked"}
    /\ IF ctx[r] = "late" THEN Commit(r, "timeout") ELSE UNCHANGED wire
    /\ serve' = [serve EXCEPT ![r] = "returned"]
    /\ UNCHANGED <<cacheVars, req, handler, ctx, out, executed, logged, history>>

(* case <-ctx.Done(): the select may choose it although done is closed too. *)
ServeTimeout(r) ==
    /\ serve[r] = "waiting" /\ ctx[r] # "live"
    /\ IF ctx[r] = "late" THEN Commit(r, "timeout") ELSE UNCHANGED wire
    /\ serve' = [serve EXCEPT ![r] = "returned"]
    /\ UNCHANGED <<cacheVars, req, handler, ctx, out, executed, logged, history>>

Deadline(r) ==
    /\ serve[r] = "waiting" /\ ctx[r] = "live"
    /\ ctx' = [ctx EXCEPT ![r] = "late"]
    /\ UNCHANGED <<cacheVars, req, serve, handler, out, wire, executed, logged, history>>

Disconnect(r) ==
    /\ serve[r] = "waiting" /\ ctx[r] = "live"
    /\ ctx' = [ctx EXCEPT ![r] = "gone"]
    /\ UNCHANGED <<cacheVars, req, serve, handler, out, wire, executed, logged, history>>

Tick ==
    /\ Cache!Tick
    /\ UNCHANGED <<req, serve, handler, ctx, out, wire, executed, logged, history>>

Step(r) ==
    \/ Arrive(r) \/ Unsupported(r) \/ PassBy(r) \/ Lookup(r) \/ Run(r) \/ Panic(r)
    \/ WriteHeader(r) \/ WriteBody(r) \/ Log(r) \/ Store(r)
    \/ ServeDone(r) \/ ServeTimeout(r) \/ Deadline(r) \/ Disconnect(r)

Next == Tick \/ \E r \in Requests : Step(r)

Spec == Init /\ [][Next]_vars

(* The runtime schedules the connection's goroutine and the timer fires.     *)
(* Nothing is assumed of the handler: the bridge may hang for ever.          *)
FairSpec ==
    /\ Spec
    /\ \A r \in Requests : WF_vars(ServeDone(r) \/ ServeTimeout(r)) /\ WF_vars(Deadline(r))

-----------------------------------------------------------------------------
(* The variables keep their types (server.go:73-83). *)
TypeOK ==
    /\ Cache!TypeOK
    /\ req \in [Requests -> [write : BOOLEAN, key : Keys \cup {NoKey}]]
    /\ serve \in [Requests -> {"idle", "waiting", "returned"}]
    /\ handler \in [Requests -> {"idle", "admit", "run", "header", "body", "log", "store", "done", "panicked"}]
    /\ ctx \in [Requests -> {"live", "late", "gone"}]
    /\ out \in [Requests -> Response]
    /\ wire \in [Requests -> Response]
    /\ executed \subseteq Requests
    /\ logged \in [Requests -> Status]
    /\ raced \subseteq Keys /\ forgotten \subseteq Keys

(***************************************************************************)
(* Two writes with one key both succeed as operations of their own only if *)
(* one was under way when the other looked the key up, or the entry had    *)
(* been forgotten: a replay never slips through for another reason, such   *)
(* as a 504 that hid the first success (idempotency.go:52-65).             *)
(***************************************************************************)
OneExecutionUnlessExcused ==
    \A q, r \in Requests :
        /\ q # r /\ Succeeded(q) /\ Succeeded(r)
        /\ Cacheable(q) /\ Cacheable(r) /\ req[q].key = req[r].key
        => req[r].key \in raced \cup forgotten

(***************************************************************************)
(* A client told 2xx for a write is told so about an operation that was    *)
(* carried out, its own or one sent under the same key; no status or body  *)
(* is taken over from another key (idempotency.go:53-65, 96-110).          *)
(***************************************************************************)
SuccessIsTruthful ==
    \A r \in Requests : req[r].write /\ wire[r].status = "ok" =>
        \E q \in Requests :
            /\ Succeeded(q)
            /\ q = r \/ (Cacheable(r) /\ req[q] = req[r])
            /\ wire[r].from \in {q, Nobody}

(***************************************************************************)
(* A write that succeeded under a key, and whose handler has returned, is  *)
(* replayable until its entry is due to go, also when the client was told  *)
(* 504 or had hung up (idempotency.go:58-65, timeout.go:51-64).            *)
(***************************************************************************)
SuccessIsReplayable ==
    \A r \in Requests : Succeeded(r) /\ Cacheable(r) /\ handler[r] = "done" =>
        req[r].key \in DOMAIN entries \cup forgotten

(***************************************************************************)
(* The concurrent requests together use the cache as its specification     *)
(* allows: they change it by whole gets and puts of real keys only, so     *)
(* what holds of the cache by itself holds of it in the chain              *)
(* (idempotency.go:52-65, 133-188).                                        *)
(***************************************************************************)
ImplementsCache == Cache!Spec

(***************************************************************************)
(* Every write the bridge carried out for a handler that returned is in    *)
(* the audit log, whatever the client was told (audit.go:52-73).           *)
(***************************************************************************)
EffectIsAudited ==
    \A r \in executed : handler[r] = "done" => logged[r] # "none"

(***************************************************************************)
(* A client that waits gets a status: when the connection's goroutine      *)
(* returns, the handler, the deadline or Recover has committed one         *)
(* (timeout.go:41-64, recover.go:18-36).                                   *)
(***************************************************************************)
NoEmptyAnswer ==
    \A r \in Requests : serve[r] = "returned" /\ ctx[r] # "gone" => wire[r].status # "none"

(***************************************************************************)
(* Every request accepted is answered, though its handler may hang: the    *)
(* deadline releases the connection (timeout.go:60-63).                    *)
(***************************************************************************)
EveryRequestAnswered ==
    \A r \in Requests : serve[r] = "waiting" ~> serve[r] = "returned"

=============================================================================
