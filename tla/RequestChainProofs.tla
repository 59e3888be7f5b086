------------------------- MODULE RequestChainProofs -------------------------
(***************************************************************************)
(* Proofs about RequestChain for any number of requests and keys, any      *)
(* capacity and window, and any interleaving of handlers and deadlines.    *)
(***************************************************************************)
EXTENDS RequestChain, TLAPS

(***************************************************************************)
(* What get and put do to the map: keys only leave, or one is set to the   *)
(* response that is put.                                                   *)
(***************************************************************************)
LEMMA GetEffect ==
  ASSUME NEW k, Cache!Get(k)
  PROVE  \A x \in DOMAIN entries' : x \in DOMAIN entries /\ entries'[x] = entries[x]
  BY DEF Cache!Get, Cache!Evict, Cache!EntriesWithout

LEMMA PutEffect ==
  ASSUME NEW k, NEW v, Cache!Put(k, v)
  PROVE  /\ k \in DOMAIN entries'
         /\ \A x \in DOMAIN entries' :
              IF x = k THEN entries'[x].value = v
              ELSE x \in DOMAIN entries /\ entries'[x] = entries[x]
  <1>1. ASSUME NEW f, entries' = Cache!With(f, k, v),
               \A x \in DOMAIN f : x \in DOMAIN entries /\ f[x] = entries[x]
        PROVE  /\ k \in DOMAIN entries'
               /\ \A x \in DOMAIN entries' :
                    IF x = k THEN entries'[x].value = v
                    ELSE x \in DOMAIN entries /\ entries'[x] = entries[x]
    BY <1>1 DEF Cache!With
  <1>2. entries' = Cache!With(entries, k, v)
        \/ entries' = Cache!With(Cache!EntriesWithout(order[1]), k, v)
    BY DEF Cache!Put
  <1> QED
    BY <1>1, <1>2 DEF Cache!EntriesWithout

(* The types of what is written about the requests and in the map. *)
Handlers == {"idle", "admit", "run", "header", "body", "log", "store", "done", "panicked"}
CacheTypes == \A k \in DOMAIN entries : entries[k].value \in Requests

RequestTypes ==
    /\ req \in [Requests -> [write : BOOLEAN, key : Keys \cup {NoKey}]]
    /\ serve \in [Requests -> {"idle", "waiting", "returned"}]
    /\ handler \in [Requests -> Handlers]
    /\ ctx \in [Requests -> {"live", "late", "gone"}]
    /\ out \in [Requests -> Response]
    /\ wire \in [Requests -> Response]
    /\ executed \subseteq Requests
    /\ logged \in [Requests -> Status]
    /\ CacheTypes

(* How a response is built, taken apart and updated. *)
LEMMA Responses ==
  /\ {"none", "ok", "refused", "failed", "timeout"} \subseteq Status
  /\ \A s \in Status, q \in Requests \cup {Nobody} : [status |-> s, from |-> q] \in Response
  /\ \A x \in Response : x.status \in Status /\ x.from \in Requests \cup {Nobody}
  BY DEF Response, Status

LEMMA SendEffect ==
  ASSUME RequestTypes, NEW r \in Requests, NEW s \in Status,
         NEW p \in Requests \cup {Nobody}, Send(r, s, p)
  PROVE  /\ wire' \in [Requests -> Response]
         /\ \A q \in Requests \ {r} : wire'[q] = wire[q]
         /\ wire'[r] = [status |-> s, from |-> p]
  <1>1. wire \in [Requests -> Response] /\ [status |-> s, from |-> p] \in Response
    BY Responses DEF RequestTypes
  <1>2. wire' = [wire EXCEPT ![r] = [status |-> s, from |-> p]]
    BY DEF Send
  <1> QED  BY <1>1, <1>2

(* What a commit does to the client's view of the response. *)
LEMMA CommitEffect ==
  ASSUME RequestTypes, NEW r \in Requests, NEW s \in Status, Commit(r, s)
  PROVE  /\ wire' \in [Requests -> Response]
         /\ \A q \in Requests \ {r} : wire'[q] = wire[q]
         /\ wire'[r] = IF wire[r].status = "none" /\ serve[r] = "waiting"
                         THEN [status |-> s, from |-> wire[r].from] ELSE wire[r]
  <1>1. wire \in [Requests -> Response] /\ wire[r].from \in Requests \cup {Nobody}
    BY Responses DEF RequestTypes
  <1> QED  BY <1>1, Responses, SendEffect DEF Commit

LEMMA WriteEffect ==
  ASSUME RequestTypes, NEW r \in Requests, NEW s \in Status,
         NEW p \in Requests \cup {Nobody}, Write(r, s, p)
  PROVE  /\ out' \in [Requests -> Response]
         /\ \A q \in Requests \ {r} : out'[q] = out[q]
         /\ out'[r] = [status |-> s, from |-> p]
  <1>1. out \in [Requests -> Response] /\ [status |-> s, from |-> p] \in Response
    BY Responses DEF RequestTypes
  <1>2. out' = [out EXCEPT ![r] = [status |-> s, from |-> p]]
    BY DEF Write
  <1> QED  BY <1>1, <1>2

LEMMA MoveEffect ==
  ASSUME RequestTypes, NEW r \in Requests, NEW step \in Handlers, Move(r, step)
  PROVE  /\ handler' \in [Requests -> Handlers]
         /\ \A q \in Requests \ {r} : handler'[q] = handler[q]
         /\ handler'[r] = step
  BY DEF RequestTypes, Move

LEMMA Steps == {"idle", "admit", "run", "header", "body", "log", "store", "done", "panicked"} \subseteq Handlers
  BY DEF Handlers

LEMMA TypesInit == Init => RequestTypes
  <1> SUFFICES ASSUME Init PROVE RequestTypes  OBVIOUS
  <1>1. NoResponse \in Response
    BY DEF NoResponse, Response, Status
  <1>2. CacheTypes
    BY DEF Init, Cache!Init, CacheTypes
  <1> QED
    BY <1>1, <1>2, Responses, Steps DEF Init, RequestTypes

LEMMA TypesStep == RequestTypes /\ [Next]_vars => RequestTypes'
  <1> SUFFICES ASSUME RequestTypes, [Next]_vars PROVE RequestTypes'  OBVIOUS
  <1>0. UNCHANGED cacheVars => CacheTypes'
    BY DEF RequestTypes, CacheTypes, cacheVars
  <1>1. ASSUME NEW r \in Requests, Step(r)  PROVE RequestTypes'
    <2> USE Responses, Steps
    <2>0. /\ req[r] \in [write : BOOLEAN, key : Keys \cup {NoKey}] /\ out[r] \in Response /\ wire[r] \in Response
          /\ executed \cup {r} \subseteq Requests
      BY DEF RequestTypes
    <2>1. CASE Arrive(r)
      <3>1. wire' \in [Requests -> Response] /\ handler' \in [Requests -> Handlers]
        <4>1. UNCHANGED wire \/ Send(r, "refused", Nobody)
          BY <2>1 DEF Arrive
        <4>2. UNCHANGED handler \/ Move(r, "admit")
          BY <2>1 DEF Arrive
        <4> QED  BY <4>1, <4>2, SendEffect, MoveEffect DEF RequestTypes
      <3>2. req' \in [Requests -> [write : BOOLEAN, key : Keys \cup {NoKey}]]
        <4>1. PICK write \in BOOLEAN, key \in Keys \cup {NoKey} :
                req' = [req EXCEPT ![r] = [write |-> write, key |-> key]]
          BY <2>1 DEF Arrive
        <4> QED  BY <4>1 DEF RequestTypes
      <3>3. serve' \in [Requests -> {"idle", "waiting", "returned"}]
        BY <2>1 DEF Arrive, RequestTypes
      <3>4. UNCHANGED <<cacheVars, ctx, out, executed, logged>>
        BY <2>1 DEF Arrive
      <3> QED  BY <1>0, <3>1, <3>2, <3>3, <3>4 DEF RequestTypes
    <2>2. CASE Unsupported(r)
      <3>1. out' \in [Requests -> Response] /\ handler' \in [Requests -> Handlers]
        BY <2>2, WriteEffect, MoveEffect DEF Unsupported
      <3> QED  BY <1>0, <2>2, <3>1 DEF Unsupported, RequestTypes
    <2>3. CASE PassBy(r)
      <3>1. handler' \in [Requests -> Handlers]
        BY <2>3, MoveEffect DEF PassBy
      <3> QED  BY <1>0, <2>3, <3>1 DEF PassBy, RequestTypes
    <2>4. CASE Lookup(r)
      <3>1. CacheTypes'
        BY <2>4, GetEffect DEF Lookup, RequestTypes, CacheTypes
      <3>2. handler' \in [Requests -> Handlers]
        BY <2>4, MoveEffect DEF Lookup
      <3>3. out' \in [Requests -> Response]
        <4> DEFINE q == entries[req[r].key].value
        <4>1. UNCHANGED out \/ (Cache!Hit(req[r].key) /\ Write(r, out[q].status, q))
          BY <2>4 DEF Lookup, Replay
        <4>2. Cache!Hit(req[r].key) => q \in Requests /\ out[q].status \in Status
          BY DEF Cache!Hit, Cache!Present, RequestTypes, CacheTypes
        <4> QED  BY <4>1, <4>2, WriteEffect DEF RequestTypes
      <3> QED  BY <2>4, <3>1, <3>2, <3>3 DEF Lookup, RequestTypes
    <2>5. CASE Run(r)
      <3>1. out' \in [Requests -> Response] /\ handler' \in [Requests -> Handlers]
        BY <2>5, WriteEffect, MoveEffect DEF Run
      <3>2. executed' \subseteq Requests
        BY <2>5, <2>0 DEF Run, RequestTypes
      <3> QED  BY <1>0, <2>5, <3>1, <3>2 DEF Run, RequestTypes
    <2>6. CASE Panic(r)
      <3>1. handler' \in [Requests -> Handlers] /\ executed' \subseteq Requests
        BY <2>6, <2>0, MoveEffect DEF Panic, RequestTypes
      <3> QED  BY <1>0, <2>6, <3>1 DEF Panic, RequestTypes
    <2>7. CASE WriteHeader(r)
      <3>1. wire' \in [Requests -> Response] /\ handler' \in [Requests -> Handlers]
        BY <2>0, <2>7, CommitEffect, MoveEffect DEF WriteHeader
      <3> QED  BY <1>0, <2>7, <3>1 DEF WriteHeader, RequestTypes
    <2>8. CASE WriteBody(r)
      <3>1. wire' \in [Requests -> Response]
        <4>1. UNCHANGED wire \/ Send(r, wire[r].status, out[r].from)
          BY <2>8 DEF WriteBody
        <4> QED  BY <2>0, <4>1, SendEffect DEF RequestTypes
      <3>2. handler' \in [Requests -> Handlers]
        BY <2>8, MoveEffect DEF WriteBody
      <3> QED  BY <1>0, <2>8, <3>1, <3>2 DEF WriteBody, RequestTypes
    <2>9. CASE Log(r)
      <3>1. handler' \in [Requests -> Handlers]
        BY <2>9, MoveEffect DEF Log
      <3>2. logged' \in [Requests -> Status]
        BY <2>0, <2>9 DEF Log, RequestTypes
      <3> QED  BY <1>0, <2>9, <3>1, <3>2 DEF Log, RequestTypes
    <2>10. CASE Store(r)
      <3>1. handler' \in [Requests -> Handlers]
        BY <2>10, MoveEffect DEF Store
      <3>2. CacheTypes'
        <4>1. \A x \in DOMAIN entries' :
                IF x = req[r].key THEN entries'[x].value = r
                ELSE x \in DOMAIN entries /\ entries'[x] = entries[x]
          BY <2>10, PutEffect DEF Store
        <4> QED  BY <4>1 DEF RequestTypes, CacheTypes
      <3> QED  BY <2>10, <3>1, <3>2 DEF Store, RequestTypes
    <2>11. CASE ServeDone(r)
      <3>1. wire' \in [Requests -> Response]
        BY <2>11, CommitEffect DEF ServeDone, RequestTypes
      <3>2. serve' \in [Requests -> {"idle", "waiting", "returned"}]
        BY <2>11 DEF ServeDone, RequestTypes
      <3> QED  BY <1>0, <2>11, <3>1, <3>2 DEF ServeDone, RequestTypes
    <2>12. CASE ServeTimeout(r)
      <3>1. wire' \in [Requests -> Response]
        BY <2>12, CommitEffect DEF ServeTimeout, RequestTypes
      <3>2. serve' \in [Requests -> {"idle", "waiting", "returned"}]
        BY <2>12 DEF ServeTimeout, RequestTypes
      <3> QED  BY <1>0, <2>12, <3>1, <3>2 DEF ServeTimeout, RequestTypes
    <2>13. CASE Deadline(r)
      BY <1>0, <2>13 DEF Deadline, RequestTypes
    <2>14. CASE Disconnect(r)
      BY <1>0, <2>14 DEF Disconnect, RequestTypes
    <2> QED
      BY <1>1, <2>1, <2>2, <2>3, <2>4, <2>5, <2>6, <2>7, <2>8, <2>9, <2>10, <2>11, <2>12, <2>13, <2>14 DEF Step
  <1>2. CASE Tick
    BY <1>2 DEF Tick, Cache!Tick, RequestTypes, CacheTypes
  <1>3. CASE UNCHANGED vars
    BY <1>0, <1>3 DEF vars, RequestTypes
  <1> QED
    BY <1>1, <1>2, <1>3 DEF Next

-----------------------------------------------------------------------------
(* A step of one request leaves the others as they were. *)
Untouched(q) ==
    /\ req'[q] = req[q] /\ serve'[q] = serve[q] /\ handler'[q] = handler[q]
    /\ ctx'[q] = ctx[q] /\ out'[q] = out[q] /\ wire'[q] = wire[q]
    /\ (q \in executed' <=> q \in executed) /\ logged'[q] = logged[q]

LEMMA Frame ==
  ASSUME RequestTypes, NEW r \in Requests, Step(r), NEW q \in Requests, q # r
  PROVE  Untouched(q)
  <1> USE DEF RequestTypes, Untouched, Move, Write, Replay, Commit, Send
  <1>1. CASE Arrive(r)
    BY <1>1 DEF Arrive
  <1>2. CASE Unsupported(r)
    BY <1>2 DEF Unsupported
  <1>3. CASE PassBy(r)
    BY <1>3 DEF PassBy
  <1>4. CASE Lookup(r)
    BY <1>4 DEF Lookup
  <1>5. CASE Run(r)
    BY <1>5 DEF Run
  <1>6. CASE Panic(r)
    BY <1>6 DEF Panic
  <1>7. CASE WriteHeader(r)
    BY <1>7 DEF WriteHeader
  <1>8. CASE WriteBody(r)
    BY <1>8 DEF WriteBody
  <1>9. CASE Log(r)
    BY <1>9 DEF Log
  <1>10. CASE Store(r)
    BY <1>10 DEF Store
  <1>11. CASE ServeDone(r)
    BY <1>11 DEF ServeDone
  <1>12. CASE ServeTimeout(r)
    BY <1>12 DEF ServeTimeout
  <1>13. CASE Deadline(r)
    BY <1>13 DEF Deadline
  <1>14. CASE Disconnect(r)
    BY <1>14 DEF Disconnect
  <1> QED
    BY <1>1, <1>2, <1>3, <1>4, <1>5, <1>6, <1>7, <1>8, <1>9, <1>10, <1>11, <1>12, <1>13, <1>14 DEF Step

-----------------------------------------------------------------------------
(***************************************************************************)
(* What holds of one request by itself: how far its response has come,     *)
(* what has been committed to the client, and that an operation carried    *)
(* out leads through the audit log.                                        *)
(***************************************************************************)
Writing == {"header", "body", "log", "store", "done"}

RequestInv(r) ==
    /\ serve[r] = "idle" => handler[r] = "idle" /\ ctx[r] = "live" /\ wire[r] = NoResponse
    /\ serve[r] = "waiting" => handler[r] # "idle"
    /\ handler[r] = "idle" => wire[r].status \in {"none", "refused"} /\ wire[r].from = Nobody
    /\ handler[r] \notin Writing => out[r] = NoResponse
    /\ handler[r] \in Writing => out[r].status \in {"ok", "refused", "failed"}
    /\ serve[r] = "waiting" /\ handler[r] \in {"body", "log", "store", "done"} => wire[r].status # "none"
    /\ serve[r] = "returned" /\ ctx[r] # "gone" => wire[r].status # "none"
    /\ wire[r].status = "ok" => handler[r] \in {"body", "log", "store", "done"} /\ out[r].status = "ok"
    /\ wire[r].from \in {out[r].from, Nobody}
    /\ r \in executed => /\ req[r].write
                         /\ handler[r] \in Writing \cup {"panicked"}
                         /\ handler[r] # "panicked" => out[r].from = r
                         /\ handler[r] \in {"store", "done"} => logged[r] # "none"
    /\ handler[r] \in Writing /\ out[r].from = r /\ out[r].status = "ok" /\ req[r].write => r \in executed
    /\ handler[r] \in {"log", "store"} => out[r].from = r /\ req[r].write
    /\ handler[r] = "store" => Cacheable(r) /\ out[r].status = "ok"

RequestsInv == \A r \in Requests : RequestInv(r)

(* What the map holds: the responses of writes that succeeded under the key. *)
Backs(q, k) == Succeeded(q) /\ Cacheable(q) /\ req[q].key = k /\ handler[q] = "done"
CacheInv == \A k \in DOMAIN entries : entries[k].value \in Requests /\ Backs(entries[k].value, k)

LEMMA RequestsInit == Init => RequestsInv
  BY ChainConstants DEF Init, RequestsInv, RequestInv, Writing, NoResponse, Cacheable

LEMMA OwnStep ==
  ASSUME RequestTypes, CacheInv, NEW r \in Requests, RequestInv(r), Step(r)
  PROVE  RequestInv(r)'
  <1> USE DEF Writing
  <1>0. /\ out[r] \in Response /\ wire[r] \in Response /\ out[r].status \in Status /\ wire[r].status \in Status
        /\ NoResponse = [status |-> "none", from |-> Nobody] /\ Nobody # r
    BY Responses, ChainConstants DEF RequestTypes, NoResponse
  <1>1. CASE Arrive(r)
    BY <1>0, <1>1 DEF Arrive, RequestTypes, RequestInv, Move, Send
  <1>2. CASE Unsupported(r)
    BY <1>0, <1>2 DEF Unsupported, RequestTypes, RequestInv, Move, Write
  <1>3. CASE PassBy(r)
    BY <1>0, <1>3 DEF PassBy, RequestTypes, RequestInv, Move
  <1>4. CASE Lookup(r)
    <2>1. CASE UNCHANGED out /\ Move(r, "run")
      BY <1>0, <1>4, <2>1 DEF Lookup, RequestTypes, RequestInv, Move
    <2>2. CASE Cache!Hit(req[r].key) /\ Replay(r, entries[req[r].key].value) /\ Move(r, "header")
      <3> DEFINE q == entries[req[r].key].value
      <3>1. handler[r] = "admit" /\ UNCHANGED <<req, serve, ctx, wire, executed, logged>>
        BY <1>4 DEF Lookup
      <3>2. q \in executed /\ out[q].status = "ok" /\ r \notin executed /\ wire[r].from = Nobody
        <4>1. q \in executed /\ out[q].status = "ok"
          <5>1. Succeeded(q)
            BY <2>2 DEF Cache!Hit, Cache!Present, CacheInv, Backs
          <5> HIDE DEF q
          <5> QED  BY <5>1 DEF Succeeded
        <4>2. r \notin executed
          BY <3>1 DEF RequestInv
        <4>3. wire[r].from = Nobody
          BY <1>0, <3>1 DEF RequestInv
        <4> QED  BY <4>1, <4>2, <4>3
      <3>3. handler'[r] = "header" /\ out'[r] = [status |-> "ok", from |-> q]
        BY <2>2, <3>2 DEF Move, Replay, Write, RequestTypes
      <3> HIDE DEF q
      <3> QED  BY <1>0, <3>1, <3>2, <3>3 DEF RequestInv, Cacheable
    <2> QED  BY <1>4, <2>1, <2>2 DEF Lookup
  <1>5. CASE Run(r)
    BY <1>0, <1>5 DEF Run, RequestTypes, RequestInv, Move, Write
  <1>6. CASE Panic(r)
    BY <1>0, <1>6 DEF Panic, RequestTypes, RequestInv, Move
  <1>7. CASE WriteHeader(r)
    BY <1>0, <1>7 DEF WriteHeader, RequestTypes, RequestInv, Move, Commit, Send
  <1>8. CASE WriteBody(r)
    BY <1>0, <1>8 DEF WriteBody, RequestTypes, RequestInv, Move, Send
  <1>9. CASE Log(r)
    BY <1>0, <1>9 DEF Log, RequestTypes, RequestInv, Move, Cacheable
  <1>10. CASE Store(r)
    BY <1>0, <1>10 DEF Store, RequestTypes, RequestInv, Move
  <1>11. CASE ServeDone(r)
    BY <1>0, <1>11 DEF ServeDone, RequestTypes, RequestInv, Commit, Send
  <1>12. CASE ServeTimeout(r)
    <2>1. /\ serve[r] = "waiting" /\ serve'[r] = "returned" /\ ctx[r] # "live"
          /\ UNCHANGED <<req, handler, ctx, out, executed, logged>>
      BY <1>12 DEF ServeTimeout, RequestTypes
    <2>2. CASE wire[r].status = "none" /\ ctx[r] = "late"
      <3>1. wire'[r] = [status |-> "timeout", from |-> wire[r].from]
        BY <1>12, <2>1, <2>2, CommitEffect, Responses DEF ServeTimeout
      <3> QED  BY <1>0, <2>1, <2>2, <3>1 DEF RequestInv, Cacheable
    <2>3. CASE wire[r].status # "none" \/ ctx[r] # "late"
      <3>1. wire'[r] = wire[r] /\ ctx[r] \in {"late", "gone"}
        BY <1>12, <2>1, <2>3, CommitEffect, Responses DEF ServeTimeout, RequestTypes
      <3> QED  BY <1>0, <2>1, <2>3, <3>1 DEF RequestInv, Cacheable
    <2> QED  BY <2>2, <2>3
  <1>13. CASE Deadline(r)
    BY <1>0, <1>13 DEF Deadline, RequestTypes, RequestInv, Cacheable
  <1>14. CASE Disconnect(r)
    BY <1>0, <1>14 DEF Disconnect, RequestTypes, RequestInv, Cacheable
  <1> QED
    BY <1>1, <1>2, <1>3, <1>4, <1>5, <1>6, <1>7, <1>8, <1>9, <1>10, <1>11, <1>12, <1>13, <1>14 DEF Step

LEMMA RequestsStep == RequestTypes /\ CacheInv /\ RequestsInv /\ [Next]_vars => RequestsInv'
  <1> SUFFICES ASSUME RequestTypes, CacheInv, RequestsInv, [Next]_vars, NEW q \in Requests
               PROVE  RequestInv(q)'
    BY DEF RequestsInv
  <1>0. RequestInv(q)
    BY DEF RequestsInv
  <1>1. ASSUME NEW r \in Requests, Step(r)  PROVE RequestInv(q)'
    <2>1. CASE q = r
      BY <1>0, <1>1, <2>1, OwnStep
    <2>2. CASE q # r
      <3>1. Untouched(q)
        BY <1>1, <2>2, Frame
      <3> QED  BY <1>0, <3>1 DEF Untouched, RequestInv, Cacheable
    <2> QED  BY <2>1, <2>2
  <1>2. CASE Tick
    BY <1>0, <1>2 DEF Tick, RequestInv, Cacheable
  <1>3. CASE UNCHANGED vars
    BY <1>0, <1>3 DEF vars, RequestInv, Cacheable
  <1> QED
    BY <1>1, <1>2, <1>3 DEF Next

-----------------------------------------------------------------------------
(* Once the handler has produced its response, it is settled what the        *)
(* request did and what it answers.                                          *)
LEMMA Settled ==
  ASSUME RequestTypes, RequestsInv, [Next]_vars, NEW q \in Requests, handler[q] \in Writing
  PROVE  /\ out'[q] = out[q] /\ req'[q] = req[q] /\ (q \in executed' <=> q \in executed)
         /\ handler'[q] \in Writing
         /\ handler[q] = "done" => handler'[q] = "done"
         /\ Succeeded(q)' = Succeeded(q) /\ Cacheable(q)' = Cacheable(q)
  <1> DEFINE Same == /\ out'[q] = out[q] /\ req'[q] = req[q] /\ (q \in executed' <=> q \in executed)
                     /\ handler'[q] \in Writing
                     /\ handler[q] = "done" => handler'[q] = "done"
  <1>1. ASSUME NEW r \in Requests, Step(r)  PROVE Same
    <2>1. CASE q # r
      BY <1>1, <2>1, Frame DEF Untouched
    <2>2. CASE q = r
      <3>0. serve[q] # "idle" /\ handler[q] \notin {"idle", "admit", "run", "panicked"}
        BY DEF RequestsInv, RequestInv, Writing
      <3>1. \/ WriteHeader(q) \/ WriteBody(q) \/ Log(q) \/ Store(q)
            \/ ServeDone(q) \/ ServeTimeout(q) \/ Deadline(q) \/ Disconnect(q)
        BY <1>1, <2>2, <3>0 DEF Step, Arrive, Unsupported, PassBy, Lookup, Run, Panic
      <3>2. /\ UNCHANGED <<out, req, executed>>
            /\ UNCHANGED handler \/ (handler[q] # "done" /\ \E s \in Writing : Move(q, s))
        BY <3>1 DEF WriteHeader, WriteBody, Log, Store, ServeDone, ServeTimeout, Deadline, Disconnect, Writing
      <3> QED  BY <3>2 DEF Move, RequestTypes
    <2> QED  BY <2>1, <2>2
  <1>2. ASSUME Tick  PROVE Same
    BY <1>2 DEF Tick
  <1>3. ASSUME UNCHANGED vars  PROVE Same
    BY <1>3 DEF vars
  <1>4. Same
    BY <1>1, <1>2, <1>3 DEF Next
  <1> QED
    BY <1>4 DEF Succeeded, Cacheable

(* Who succeeded has a response. *)
LEMMA SucceededIsWriting ==
  ASSUME RequestsInv, NEW q \in Requests, Succeeded(q)
  PROVE  handler[q] \in Writing
  <1>1. out[q].status = "ok" /\ NoResponse.status = "none"
    BY DEF Succeeded, NoResponse
  <1> QED  BY <1>1 DEF RequestsInv, RequestInv

(* What a step may do to the map and to the record of keys forgotten. *)
LEMMA MapStep ==
  ASSUME RequestTypes, RequestsInv, [Next]_vars
  PROVE  /\ \A k \in DOMAIN entries' :
              \/ k \in DOMAIN entries /\ entries'[k] = entries[k]
              \/ \E r \in Requests : Store(r) /\ k = req[r].key /\ entries'[k].value = r
         /\ \A k \in Keys \cap DOMAIN entries : k \in DOMAIN entries' \cup forgotten'
         /\ raced \subseteq raced' /\ forgotten \subseteq forgotten'
  <1> DEFINE Goal == /\ \A k \in DOMAIN entries' :
                          \/ k \in DOMAIN entries /\ entries'[k] = entries[k]
                          \/ \E r \in Requests : Store(r) /\ k = req[r].key /\ entries'[k].value = r
                     /\ \A k \in Keys \cap DOMAIN entries : k \in DOMAIN entries' \cup forgotten'
                     /\ raced \subseteq raced' /\ forgotten \subseteq forgotten'
  <1>1. ASSUME NEW r \in Requests, Step(r)  PROVE Goal
    <2>1. CASE Lookup(r)
      <3>1. \A x \in DOMAIN entries' : x \in DOMAIN entries /\ entries'[x] = entries[x]
        BY <2>1, GetEffect DEF Lookup
      <3>2. raced \subseteq raced' /\ Note
        BY <2>1 DEF Lookup
      <3> QED  BY <3>1, <3>2 DEF Note, Cache!Present
    <2>2. CASE Store(r)
      <3>1. \A x \in DOMAIN entries' :
              IF x = req[r].key THEN entries'[x].value = r
              ELSE x \in DOMAIN entries /\ entries'[x] = entries[x]
        BY <2>2, PutEffect DEF Store
      <3>2. raced' = raced /\ Note
        BY <2>2 DEF Store
      <3> QED  BY <2>2, <3>1, <3>2 DEF Note, Cache!Present
    <2>3. CASE ~Lookup(r) /\ ~Store(r)
      <3>1. UNCHANGED <<entries, raced, forgotten>>
        BY <1>1, <2>3 DEF Step, Arrive, Unsupported, PassBy, Run, Panic, WriteHeader, WriteBody, Log,
                          ServeDone, ServeTimeout, Deadline, Disconnect, cacheVars, history
      <3> QED  BY <3>1
    <2> QED  BY <2>1, <2>2, <2>3
  <1>2. CASE Tick
    BY <1>2 DEF Tick, Cache!Tick, history
  <1>3. CASE UNCHANGED vars
    BY <1>3 DEF vars, cacheVars, history
  <1> QED
    BY <1>1, <1>2, <1>3 DEF Next

LEMMA StoredSucceeded ==
  ASSUME RequestTypes, RequestsInv, NEW r \in Requests, Store(r)
  PROVE  /\ Succeeded(r) /\ Cacheable(r) /\ req[r].key \in Keys
         /\ handler[r] \in Writing /\ handler'[r] = "done"
  <1>1. /\ out[r].status = "ok" /\ out[r].from = r /\ r \in executed /\ Cacheable(r)
        /\ handler[r] = "store"
    BY DEF RequestsInv, RequestInv, Store, Writing
  <1>2. out[r] = [status |-> "ok", from |-> r]
    BY <1>1 DEF RequestTypes, Response
  <1>3. req[r].key \in Keys
    BY <1>1 DEF RequestTypes, Cacheable
  <1>4. handler'[r] = "done"
    BY DEF Store, Move, RequestTypes
  <1> QED  BY <1>1, <1>2, <1>3, <1>4 DEF Succeeded, Writing

LEMMA CacheStep == RequestTypes /\ RequestsInv /\ CacheInv /\ [Next]_vars => CacheInv'
  <1> SUFFICES ASSUME RequestTypes, RequestsInv, CacheInv, [Next]_vars, NEW k \in DOMAIN entries'
               PROVE  entries'[k].value \in Requests /\ Backs(entries[k].value, k)'
    BY DEF CacheInv
  <1>1. CASE k \in DOMAIN entries /\ entries'[k] = entries[k]
    <2>1. PICK q \in Requests : q = entries[k].value /\ Backs(q, k)
      BY <1>1 DEF CacheInv
    <2>2. handler[q] \in Writing
      BY <2>1 DEF Backs, Writing
    <2>3. Succeeded(q)' /\ Cacheable(q)' /\ req'[q].key = k /\ handler'[q] = "done"
      BY <2>1, <2>2, Settled DEF Backs
    <2> QED  BY <1>1, <2>1, <2>3 DEF Backs, Succeeded, Cacheable
  <1>2. ASSUME NEW r \in Requests, Store(r), k = req[r].key, entries'[k].value = r
        PROVE  entries'[k].value \in Requests /\ Backs(entries[k].value, k)'
    <2>1. Succeeded(r)' /\ Cacheable(r)' /\ req'[r].key = k /\ handler'[r] = "done"
      BY <1>2, StoredSucceeded, Settled
    <2> QED  BY <1>2, <2>1 DEF Backs, Succeeded, Cacheable
  <1> QED
    BY <1>1, <1>2, MapStep

-----------------------------------------------------------------------------
(***************************************************************************)
(* What an answer rests on: a success under a write names a request that   *)
(* carried the operation out, the request itself or one with its key.      *)
(***************************************************************************)
RestsOn(r, q) ==
    /\ out[r].from = q /\ Succeeded(q)
    /\ q = r \/ (Cacheable(r) /\ req[q] = req[r])
AnswersInv ==
    \A r \in Requests : handler[r] \in Writing /\ out[r].status = "ok" /\ req[r].write =>
        \E q \in Requests : RestsOn(r, q)

LEMMA AnswersStep ==
  RequestTypes /\ RequestsInv /\ RequestsInv' /\ CacheInv /\ AnswersInv /\ [Next]_vars => AnswersInv'
  <1> SUFFICES ASSUME RequestTypes, RequestsInv, RequestsInv', CacheInv, AnswersInv, [Next]_vars, NEW r \in Requests,
                      handler'[r] \in Writing, out'[r].status = "ok", req'[r].write
               PROVE  \E q \in Requests : RestsOn(r, q)'
    BY DEF AnswersInv
  <1>1. CASE handler[r] \in Writing
    <2>1. out'[r] = out[r] /\ req'[r] = req[r] /\ (Cacheable(r)' <=> Cacheable(r))
      BY <1>1, Settled
    <2>2. PICK q \in Requests : RestsOn(r, q)
      BY <1>1, <2>1 DEF AnswersInv
    <2>3. Succeeded(q)' /\ req'[q] = req[q]
      BY <2>2, SucceededIsWriting, Settled DEF RestsOn
    <2> QED  BY <2>1, <2>2, <2>3 DEF RestsOn
  <1>2. CASE handler[r] \notin Writing
    <2>1. PICK p \in Requests : Step(p) /\ p = r
      <3>1. handler'[r] # handler[r]
        BY <1>2
      <3> QED
        BY <3>1, Frame DEF Next, Tick, vars, Untouched
    <2>2. Run(r) \/ Lookup(r) \/ Unsupported(r)
      BY <1>2, <2>1 DEF Step, Arrive, PassBy, Panic, WriteHeader, WriteBody, Log, Store, ServeDone,
                        ServeTimeout, Deadline, Disconnect, Writing, Move, RequestTypes
    <2>3. ASSUME Run(r)  PROVE RestsOn(r, r)'
      <3>1. out'[r].from = r /\ out'[r] \in Response
        <4>1. PICK s \in {"ok", "failed"} : Write(r, s, r)
          BY <2>3 DEF Run
        <4>2. out'[r] = [status |-> s, from |-> r] /\ out' \in [Requests -> Response]
          BY <4>1, WriteEffect, Responses
        <4> QED  BY <4>2
      <3>2. r \in executed'
        BY <3>1 DEF RequestsInv, RequestInv
      <3>3. out'[r] = [status |-> "ok", from |-> r]
        BY <3>1 DEF Response
      <3> QED  BY <3>2, <3>3 DEF RestsOn, Succeeded
    <2>4. ASSUME Lookup(r)  PROVE \E q \in Requests : RestsOn(r, q)'
      <3> DEFINE k == req[r].key
      <3>1. Cache!Hit(k) /\ Replay(r, entries[k].value) /\ Cacheable(r) /\ req' = req /\ handler[r] = "admit"
        BY <1>2, <2>4 DEF Lookup, Move, RequestTypes, Writing
      <3>2. PICK q \in Requests : q = entries[k].value /\ Backs(q, k)
        BY <3>1 DEF Cache!Hit, Cache!Present, CacheInv
      <3>3. Succeeded(q)' /\ Cacheable(q)
        BY <3>2, SucceededIsWriting, Settled DEF Backs
      <3>4. out'[r].from = q
        <4>1. out[q].status = "ok" /\ Write(r, out[q].status, q)
          BY <3>1, <3>2 DEF Replay, Backs, Succeeded
        <4>2. out'[r] = [status |-> "ok", from |-> q]
          BY <4>1, WriteEffect, Responses
        <4> QED  BY <4>2
      <3>5. req[q] = req[r]
        <4>1. req[q] \in [write : BOOLEAN, key : Keys \cup {NoKey}] /\ req[r] \in [write : BOOLEAN, key : Keys \cup {NoKey}]
          BY DEF RequestTypes
        <4>2. req[q].key = req[r].key /\ req[q].write = TRUE /\ req[r].write = TRUE
          BY <3>1, <3>2, <3>3, <4>1 DEF Backs, Cacheable
        <4> QED  BY <4>1, <4>2
      <3> QED  BY <3>1, <3>3, <3>4, <3>5 DEF RestsOn, Cacheable
    <2>5. ~Unsupported(r)
      <3>1. Write(r, "refused", Nobody) => out'[r] = [status |-> "refused", from |-> Nobody]
        BY WriteEffect, Responses
      <3> QED  BY <3>1 DEF Unsupported
    <2> QED  BY <2>2, <2>3, <2>4, <2>5
  <1> QED  BY <1>1, <1>2

(***************************************************************************)
(* A write that has passed the lookup and runs, or has succeeded: any two  *)
(* with one key are excused.                                               *)
(***************************************************************************)
Owns(r) == Cacheable(r) /\ (handler[r] = "run" \/ Succeeded(r))
Excused(k) == k \in raced \cup forgotten
PairsInv ==
    \A q, r \in Requests :
        q # r /\ Owns(q) /\ Owns(r) /\ req[q].key = req[r].key => Excused(req[r].key)

LEMMA ReplayableStep ==
  RequestTypes /\ RequestsInv /\ SuccessIsReplayable /\ [Next]_vars => SuccessIsReplayable'
  <1> SUFFICES ASSUME RequestTypes, RequestsInv, SuccessIsReplayable, [Next]_vars, NEW r \in Requests,
                      Succeeded(r)', Cacheable(r)', handler'[r] = "done"
               PROVE  req'[r].key \in DOMAIN entries' \cup forgotten'
    BY DEF SuccessIsReplayable
  <1>1. CASE handler[r] = "done"
    <2>1. Succeeded(r) /\ Cacheable(r) /\ req'[r] = req[r]
      BY <1>1, Settled DEF Writing
    <2>2. req[r].key \in Keys
      BY <2>1 DEF Cacheable, RequestTypes
    <2>3. req[r].key \in DOMAIN entries \cup forgotten
      BY <1>1, <2>1 DEF SuccessIsReplayable
    <2> QED  BY <2>1, <2>2, <2>3, MapStep
  <1>2. CASE handler[r] # "done"
    <2>1. PICK p \in Requests : Step(p) /\ p = r
      BY <1>2, Frame DEF Next, Tick, vars, Untouched
    <2>2. WriteBody(r) \/ Log(r) \/ Store(r)
      BY <1>2, <2>1 DEF Step, Arrive, Unsupported, PassBy, Lookup, Run, Panic, WriteHeader, ServeDone,
                        ServeTimeout, Deadline, Disconnect, Move, RequestTypes
    <2>3. handler[r] \in Writing
      BY <2>2 DEF WriteBody, Log, Store, Writing
    <2>4. Succeeded(r) /\ Cacheable(r) /\ req'[r] = req[r]
      BY <2>3, Settled
    <2>5. out[r].status = "ok" /\ out[r].from = r /\ req[r].write
      BY <2>4 DEF Succeeded, Cacheable
    <2>6. ~WriteBody(r) /\ ~Log(r)
      BY <2>4, <2>5 DEF WriteBody, Log, Move, RequestTypes
    <2>7. req[r].key \in DOMAIN entries'
      BY <2>2, <2>6, PutEffect DEF Store
    <2> QED  BY <2>4, <2>7
  <1> QED  BY <1>1, <1>2

LEMMA PairsStep ==
  RequestTypes /\ RequestsInv /\ CacheInv /\ SuccessIsReplayable /\ PairsInv /\ [Next]_vars => PairsInv'
  <1> SUFFICES ASSUME RequestTypes, RequestsInv, CacheInv, SuccessIsReplayable, PairsInv, [Next]_vars
               PROVE  PairsInv'
    OBVIOUS
  (* Only a lookup that misses makes an owner. *)
  <1>1. ASSUME NEW r \in Requests, Owns(r)'
        PROVE  req'[r] = req[r] /\ (Owns(r) \/ (Lookup(r) /\ ~Cache!Hit(req[r].key) /\ Cacheable(r)))
    <2>1. CASE handler[r] \in Writing
      <3>1. /\ req'[r] = req[r] /\ handler'[r] \in Writing
            /\ Succeeded(r)' = Succeeded(r) /\ Cacheable(r)' = Cacheable(r)
        BY <2>1, Settled
      <3> QED  BY <1>1, <3>1 DEF Owns, Writing
    <2>2. CASE handler[r] \notin Writing /\ Untouched(r)
      BY <1>1, <2>2 DEF Untouched, Owns, Succeeded, Cacheable
    <2>3. CASE handler[r] \notin Writing /\ Step(r)
      <3>0. NoResponse.status # "ok" /\ out[r] = NoResponse
        BY <2>3 DEF NoResponse, RequestsInv, RequestInv
      <3>1. CASE Lookup(r)
        <4>1. req' = req /\ Cacheable(r) /\ r \notin executed /\ executed' = executed
          BY <3>1 DEF Lookup, RequestsInv, RequestInv, Writing
        <4>2. handler'[r] = "run"
          BY <1>1, <4>1 DEF Owns, Succeeded
        <4>3. ~Cache!Hit(req[r].key)
          BY <3>1, <4>2 DEF Lookup, Move, RequestTypes
        <4> QED  BY <3>1, <4>1, <4>3
      <3>2. CASE PassBy(r)
        BY <1>1, <3>0, <3>2 DEF PassBy, Owns, Cacheable, Succeeded
      <3>3. CASE Run(r)
        BY <1>1, <3>3 DEF Run, Owns, Cacheable
      <3>4. CASE Arrive(r)
        BY <1>1, <3>0, <3>4 DEF Arrive, Owns, Succeeded, Move, RequestsInv, RequestInv, RequestTypes
      <3>5. CASE Unsupported(r)
        <4>1. Write(r, "refused", Nobody) /\ Move(r, "header")
          BY <3>5 DEF Unsupported
        <4>2. out'[r] = [status |-> "refused", from |-> Nobody]
          BY <4>1, WriteEffect, Responses
        <4>3. handler'[r] = "header"
          BY <4>1, MoveEffect, Steps
        <4> QED  BY <1>1, <4>2, <4>3 DEF Owns, Succeeded
      <3>6. CASE Panic(r)
        BY <1>1, <3>0, <3>6 DEF Panic, Owns, Succeeded, Move, RequestTypes
      <3>7. CASE ServeDone(r) \/ ServeTimeout(r) \/ Deadline(r) \/ Disconnect(r)
        BY <1>1, <3>7 DEF ServeDone, ServeTimeout, Deadline, Disconnect, Owns, Succeeded, Cacheable
      <3> QED
        BY <2>3, <3>1, <3>2, <3>3, <3>4, <3>5, <3>6, <3>7 DEF Step, WriteHeader, WriteBody, Log, Store, Writing
    <2>4. Untouched(r) \/ Step(r)
      BY Frame DEF Next, Tick, vars, Untouched
    <2> QED  BY <2>1, <2>2, <2>3, <2>4
  (* The one who misses finds another owner under way, or its entry gone. *)
  <1>2. ASSUME NEW r \in Requests, NEW q \in Requests, q # r, Owns(q), req[q].key = req[r].key,
               Lookup(r), ~Cache!Hit(req[r].key), Cacheable(r)
        PROVE  Excused(req[r].key)'
    <2> DEFINE k == req[r].key
    <2>1. CASE UnderWay(q)
      BY <1>2, <2>1 DEF Lookup, Excused, Owns
    <2>2. CASE ~UnderWay(q)
      <3>1. Succeeded(q) /\ Cacheable(q) /\ handler[q] = "done"
        BY <1>2, <2>2 DEF Owns, UnderWay
      <3>2. k \in DOMAIN entries \cup forgotten
        BY <1>2, <3>1 DEF SuccessIsReplayable
      <3>3. k \in DOMAIN entries => Cache!Expired(k) /\ k \notin DOMAIN entries'
        BY <1>2 DEF Lookup, Cache!Hit, Cache!Present, Cache!Get, Cache!Evict, Cache!EntriesWithout
      <3>4. k \in Keys
        BY <1>2 DEF Cacheable, RequestTypes
      <3>5. k \in forgotten' /\ req' = req
        BY <1>2, <3>2, <3>3, <3>4, MapStep DEF Lookup
      <3> QED  BY <3>5 DEF Excused
    <2> QED  BY <2>1, <2>2
  <1>3. ASSUME NEW q \in Requests, NEW r \in Requests, q # r, Owns(q)', Owns(r)', req'[q].key = req'[r].key
        PROVE  Excused(req[r].key)'
    <2>1. req'[q] = req[q] /\ req'[r] = req[r]
      BY <1>1, <1>3
    <2>2. CASE Owns(q) /\ Owns(r)
      <3>1. Excused(req[r].key)
        BY <1>3, <2>1, <2>2 DEF PairsInv
      <3> QED  BY <2>1, <3>1, MapStep DEF Excused
    <2>3. CASE ~Owns(r)
      <3>1. Lookup(r) /\ ~Cache!Hit(req[r].key) /\ Cacheable(r)
        BY <1>1, <1>3, <2>3
      <3>2. Owns(q)
        <4>1. Untouched(q)
          BY <1>3, <3>1, Frame DEF Step
        <4> QED  BY <1>3, <4>1 DEF Untouched, Owns, Succeeded, Cacheable
      <3> QED  BY <1>2, <1>3, <2>1, <3>1, <3>2 DEF Excused
    <2>4. CASE ~Owns(q)
      <3>1. Lookup(q) /\ ~Cache!Hit(req[q].key) /\ Cacheable(q)
        BY <1>1, <1>3, <2>4
      <3>2. Owns(r)
        <4>1. Untouched(r)
          BY <1>3, <3>1, Frame DEF Step
        <4> QED  BY <1>3, <4>1 DEF Untouched, Owns, Succeeded, Cacheable
      <3> QED  BY <1>2, <1>3, <2>1, <3>1, <3>2 DEF Excused
    <2> QED  BY <2>2, <2>3, <2>4
  <1> QED
    BY <1>3 DEF PairsInv, Excused

-----------------------------------------------------------------------------
ChainInv ==
    /\ RequestTypes /\ RequestsInv /\ CacheInv
    /\ AnswersInv /\ SuccessIsReplayable /\ PairsInv

LEMMA ChainInvariant == Spec => []ChainInv
  <1>1. Init => ChainInv
    <2> SUFFICES ASSUME Init PROVE ChainInv  OBVIOUS
    <2>1. CacheInv
      BY DEF Init, Cache!Init, CacheInv
    <2>2. \A r \in Requests : handler[r] = "idle" /\ r \notin executed
      BY DEF Init
    <2>3. AnswersInv /\ SuccessIsReplayable /\ PairsInv
      BY <2>2 DEF AnswersInv, SuccessIsReplayable, PairsInv, Writing, Owns, Succeeded
    <2> QED  BY <2>1, <2>3, TypesInit, RequestsInit DEF ChainInv
  <1>2. ChainInv /\ [Next]_vars => ChainInv'
    BY TypesStep, RequestsStep, CacheStep, AnswersStep, ReplayableStep, PairsStep DEF ChainInv
  <1> QED  BY <1>1, <1>2, PTL DEF Spec

(***************************************************************************)
(* Two successes with one key are excused by an overlap of the two         *)
(* requests or by an entry that was due to go (idempotency.go:52-65).      *)
(***************************************************************************)
THEOREM OneExecution == Spec => []OneExecutionUnlessExcused
  <1>1. ChainInv => OneExecutionUnlessExcused
    BY DEF ChainInv, PairsInv, Owns, Excused, OneExecutionUnlessExcused
  <1> QED  BY <1>1, ChainInvariant, PTL

(***************************************************************************)
(* No client is told of a success of a write that was not carried out, nor *)
(* of another key's (idempotency.go:53-65, 96-110).                        *)
(***************************************************************************)
THEOREM SuccessesAreTruthful == Spec => []SuccessIsTruthful
  <1>1. ChainInv => SuccessIsTruthful
    <2> SUFFICES ASSUME ChainInv, NEW r \in Requests, req[r].write, wire[r].status = "ok"
                 PROVE  \E q \in Requests :
                           /\ Succeeded(q)
                           /\ q = r \/ (Cacheable(r) /\ req[q] = req[r])
                           /\ wire[r].from \in {q, Nobody}
      BY DEF SuccessIsTruthful
    <2>1. handler[r] \in Writing /\ out[r].status = "ok" /\ wire[r].from \in {out[r].from, Nobody}
      BY DEF ChainInv, RequestsInv, RequestInv, Writing
    <2>2. PICK q \in Requests : RestsOn(r, q)
      BY <2>1 DEF ChainInv, AnswersInv
    <2> QED  BY <2>1, <2>2 DEF RestsOn
  <1> QED  BY <1>1, ChainInvariant, PTL

(***************************************************************************)
(* A success under a key stays replayable until its entry is due to go,    *)
(* also after a 504 or a hang-up (idempotency.go:58-65).                   *)
(***************************************************************************)
THEOREM SuccessesAreReplayable == Spec => []SuccessIsReplayable
  <1>1. ChainInv => SuccessIsReplayable
    BY DEF ChainInv
  <1> QED  BY <1>1, ChainInvariant, PTL

(***************************************************************************)
(* Every write carried out for a handler that returned has its record in   *)
(* the audit log (audit.go:52-73).                                         *)
(***************************************************************************)
THEOREM EffectsAreAudited == Spec => []EffectIsAudited
  <1>1. ChainInv => EffectIsAudited
    BY DEF ChainInv, RequestTypes, RequestsInv, RequestInv, EffectIsAudited
  <1> QED  BY <1>1, ChainInvariant, PTL

(***************************************************************************)
(* No connection's goroutine returns without a status for a client that    *)
(* still waits (timeout.go:41-64, recover.go:18-36).                       *)
(***************************************************************************)
THEOREM ClientsAreAnswered == Spec => []NoEmptyAnswer
  <1>1. ChainInv => NoEmptyAnswer
    BY DEF ChainInv, RequestsInv, RequestInv, NoEmptyAnswer
  <1> QED  BY <1>1, ChainInvariant, PTL

(***************************************************************************)
(* The chain implements the specification of its cache: each lookup is a   *)
(* get, each store a put of a key and a request, the clock is shared, and  *)
(* every other step leaves the cache alone (idempotency.go:52-65).         *)
(***************************************************************************)
THEOREM ChainImplementsCache == Spec => ImplementsCache
  <1>1. Init => Cache!Init
    BY DEF Init
  <1>2. ChainInv /\ [Next]_vars => [Cache!Next]_Cache!cacheVars
    <2> SUFFICES ASSUME ChainInv, [Next]_vars
                 PROVE  Cache!Next \/ UNCHANGED Cache!cacheVars
      OBVIOUS
    <2>1. ASSUME NEW r \in Requests, Step(r)  PROVE Cache!Next \/ UNCHANGED Cache!cacheVars
      <3>1. CASE Lookup(r)
        <4>1. Cache!Get(req[r].key) /\ Cacheable(r)
          BY <3>1 DEF Lookup
        <4>2. req[r].key \in Keys
          BY <4>1 DEF ChainInv, RequestTypes, Cacheable
        <4> QED  BY <4>1, <4>2 DEF Cache!Next
      <3>2. CASE Store(r)
        <4>1. Cache!Put(req[r].key, r) /\ req[r].key \in Keys
          BY <3>2, StoredSucceeded DEF Store, ChainInv
        <4> QED  BY <4>1 DEF Cache!Next
      <3>3. CASE ~Lookup(r) /\ ~Store(r)
        BY <2>1, <3>3 DEF Step, Arrive, Unsupported, PassBy, Run, Panic, WriteHeader, WriteBody, Log,
                          ServeDone, ServeTimeout, Deadline, Disconnect, cacheVars, Cache!cacheVars
      <3> QED  BY <3>1, <3>2, <3>3
    <2>2. CASE Tick
      BY <2>2 DEF Tick, Cache!Next
    <2>3. CASE UNCHANGED vars
      BY <2>3 DEF vars, cacheVars, Cache!cacheVars
    <2> QED  BY <2>1, <2>2, <2>3 DEF Next
  <1> QED  BY <1>1, <1>2, ChainInvariant, PTL DEF Spec, ImplementsCache, Cache!Spec

-----------------------------------------------------------------------------
(* What IdemCacheProofs proves of a cache holds of the chain's.              *)
Proved == INSTANCE IdemCacheProofs WITH Values <- Requests

LEMMA SameCache == Cache!Spec => Proved!Spec
  <1>1. Cache!cacheVars = Proved!cacheVars /\ (Cache!Init => Proved!Init)
    BY DEF Cache!cacheVars, Proved!cacheVars, Cache!Init, Proved!Init
  <1>2. [Cache!Next]_Cache!cacheVars => [Proved!Next]_Proved!cacheVars
    <2>1. \A k : Cache!OrderWithout(k) = Proved!OrderWithout(k)
      BY DEF Cache!OrderWithout, Proved!OrderWithout, Cache!RemoveFirst, Proved!RemoveFirst,
             Cache!SelectInSeq, Proved!SelectInSeq, Cache!RemoveAt, Proved!RemoveAt, Cache!Min, Proved!Min
    <2>2. ASSUME NEW k, Cache!Get(k)  PROVE Proved!Get(k)
      BY <2>1, <2>2 DEF Cache!Get, Proved!Get, Cache!Evict, Proved!Evict, Cache!EntriesWithout, Proved!EntriesWithout,
                        Cache!Present, Proved!Present, Cache!Expired, Proved!Expired
    <2>3. ASSUME NEW k, NEW v, Cache!Put(k, v)  PROVE Proved!Put(k, v)
      <3>1. \A f : Cache!With(f, k, v) = Proved!With(f, k, v)
        BY DEF Cache!With, Proved!With
      <3>2. \A x : Cache!EntriesWithout(x) = Proved!EntriesWithout(x)
        BY DEF Cache!EntriesWithout, Proved!EntriesWithout
      <3>3. Cache!Present(k) <=> Proved!Present(k)
        BY DEF Cache!Present, Proved!Present
      <3>4. Cache!Full <=> Proved!Full
        BY Zenon DEF Cache!Full, Proved!Full, Cache!Cardinality, Proved!Cardinality
      <3> QED
        BY <2>1, <2>3, <3>1, <3>2, <3>3, <3>4 DEF Cache!Put, Proved!Put
    <2>4. Cache!Tick => Proved!Tick
      BY DEF Cache!Tick, Proved!Tick
    <2> QED
      <3>1. Cache!Next => Proved!Next
        BY <2>2, <2>3, <2>4 DEF Cache!Next, Proved!Next
      <3> QED  BY <3>1 DEF Cache!cacheVars, Proved!cacheVars
  <1> QED
    BY <1>1, <1>2, PTL DEF Cache!Spec, Proved!Spec

(***************************************************************************)
(* Every variable keeps its type, the shared cache's included.             *)
(***************************************************************************)
THEOREM TypesHold == Spec => []TypeOK
  <1> DEFINE Records == raced \subseteq Keys /\ forgotten \subseteq Keys
  <1>1. Spec => []Cache!TypeOK
    <2>1. Proved!Spec => [](Proved!TypeOK /\ Proved!CacheConsistent)
      BY Proved!CacheIsConsistent, ChainConstants
    <2>2. Proved!TypeOK => Cache!TypeOK
      BY DEF Cache!TypeOK, Proved!TypeOK, Cache!Entry, Proved!Entry
    <2> QED  BY <2>1, <2>2, SameCache, ChainImplementsCache, PTL DEF ImplementsCache
  <1>2. Spec => []Records
    <2>1. Init => Records
      BY DEF Init
    <2>2. ChainInv /\ Records /\ [Next]_vars => Records'
      <3> SUFFICES ASSUME ChainInv, Records, [Next]_vars PROVE Records'  OBVIOUS
      <3>1. ASSUME NEW r \in Requests, Step(r)  PROVE Records'
        <4>1. CASE Lookup(r)
          <5>1. req[r].key \in Keys
            BY <4>1 DEF Lookup, Cacheable, ChainInv, RequestTypes
          <5>2. (UNCHANGED raced \/ raced' = raced \cup {req[r].key}) /\ Note
            BY <4>1 DEF Lookup
          <5> QED  BY <5>1, <5>2 DEF Note
        <4>2. CASE Store(r)
          BY <4>2 DEF Store, Note
        <4>3. CASE ~Lookup(r) /\ ~Store(r)
          BY <3>1, <4>3 DEF Step, Arrive, Unsupported, PassBy, Run, Panic, WriteHeader, WriteBody, Log,
                            ServeDone, ServeTimeout, Deadline, Disconnect, history
        <4> QED  BY <4>1, <4>2, <4>3
      <3>2. ASSUME Tick \/ UNCHANGED vars  PROVE Records'
        BY <3>2 DEF Tick, vars, history
      <3> QED  BY <3>1, <3>2 DEF Next
    <2> QED  BY <2>1, <2>2, ChainInvariant, PTL DEF Spec
  <1>3. ChainInv /\ Cache!TypeOK /\ Records => TypeOK
    BY DEF ChainInv, RequestTypes, Handlers, TypeOK
  <1> QED  BY <1>1, <1>2, <1>3, ChainInvariant, PTL
=============================================================================
