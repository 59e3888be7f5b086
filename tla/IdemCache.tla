----------------------------- MODULE IdemCache -----------------------------
(***************************************************************************)
(* idemCache of server/middleware: the bounded cache of responses behind   *)
(* the Idempotency middleware.  get and put hold the mutex from their      *)
(* first to their last line, so each is one action.                        *)
(***************************************************************************)
EXTENDS Integers, FiniteSets, SequencesExt

CONSTANTS
    Keys,      \* cache keys: method, path and Idempotency-Key together
    Values,    \* cached responses
    Cap,       \* maxEntries; the middleware is off when it is not positive
    Window,    \* how long an entry may be replayed
    MaxTime    \* bound: where the clock stops

ASSUME CacheConstants ==
    /\ Cap \in Nat \ {0} /\ Window \in Nat \ {0} /\ MaxTime \in Nat

VARIABLES
    entries,   \* the map: a function from the keys present to entries
    order,     \* the keys in insertion order, the head is the oldest
    now        \* the clock

cacheVars == <<entries, order, now>>

Entry == [value : Values, expiresAt : Nat]
Present(k) == k \in DOMAIN entries
Expired(k) == now > entries[k].expiresAt

(* What the map and the slice are after evict(k). *)
EntriesWithout(k) == [x \in DOMAIN entries \ {k} |-> entries[x]]
OrderWithout(k) == RemoveFirst(order, k)

Evict(k) ==
    /\ entries' = EntriesWithout(k)
    /\ order' = OrderWithout(k)

(* Mutant of Hit: an entry is dead already in its last instant. *)
HitEarlier(k) == Present(k) /\ now < entries[k].expiresAt

(* get: an entry past its time is evicted and not returned. *)
Hit(k) == Present(k) /\ ~Expired(k)

Get(k) ==
    /\ IF Present(k) /\ Expired(k) THEN Evict(k) ELSE UNCHANGED <<entries, order>>
    /\ UNCHANGED now

(* A key's entry is written with a fresh window. *)
With(f, k, v) ==
    [x \in DOMAIN f \cup {k} |->
        IF x = k THEN [value |-> v, expiresAt |-> now + Window] ELSE f[x]]

(* put: a key that is present keeps its place in the order; a full cache     *)
(* first evicts the key inserted longest ago.                                *)
Full == Cardinality(DOMAIN entries) >= Cap

(* Mutants of Put: a refreshed key is listed twice; the newest key leaves. *)
PutListedTwice(k, v) ==
    /\ entries' = With(IF ~Present(k) /\ Full THEN EntriesWithout(order[1]) ELSE entries, k, v)
    /\ order' = Append(IF ~Present(k) /\ Full THEN OrderWithout(order[1]) ELSE order, k)
    /\ UNCHANGED now

PutEvictingNewest(k, v) ==
    /\ IF ~Present(k) /\ Full
         THEN /\ entries' = With(EntriesWithout(order[Len(order)]), k, v)
              /\ order' = Append(OrderWithout(order[Len(order)]), k)
         ELSE /\ entries' = With(entries, k, v)
              /\ order' = IF Present(k) THEN order ELSE Append(order, k)
    /\ UNCHANGED now

Put(k, v) ==
    /\ \/ /\ Present(k)
          /\ entries' = With(entries, k, v)
          /\ UNCHANGED order
       \/ /\ ~Present(k) /\ Full
          /\ entries' = With(EntriesWithout(order[1]), k, v)
          /\ order' = Append(OrderWithout(order[1]), k)
       \/ /\ ~Present(k) /\ ~Full
          /\ entries' = With(entries, k, v)
          /\ order' = Append(order, k)
    /\ UNCHANGED now

Tick ==
    /\ now < MaxTime
    /\ now' = now + 1
    /\ UNCHANGED <<entries, order>>

Init == entries = [k \in {} |-> {}] /\ order = <<>> /\ now = 0

Next == Tick \/ \E k \in Keys : Get(k) \/ \E v \in Values : Put(k, v)

Spec == Init /\ [][Next]_cacheVars

-----------------------------------------------------------------------------
(* The variables keep their types (idempotency.go:133-139). *)
TypeOK ==
    /\ DOMAIN entries \subseteq Keys
    /\ entries \in [DOMAIN entries -> Entry]
    /\ order \in Seq(Keys)
    /\ now \in Nat

(***************************************************************************)
(* The slice lists exactly the keys of the map, each once, and never more  *)
(* than cap of them: otherwise evict(c.order[0]) panics on an empty slice  *)
(* or removes a key that is long gone while the map outgrows its bound     *)
(* (idempotency.go:164-188).                                               *)
(***************************************************************************)
CacheConsistent ==
    /\ IsInjective(order)
    /\ Range(order) = DOMAIN entries
    /\ Len(order) <= Cap

(***************************************************************************)
(* A response stays replayable until its time is over or a full cache has  *)
(* to make room, and then only the oldest leaves: no get or put of another *)
(* key makes it forgotten earlier (idempotency.go:150-188).                *)
(***************************************************************************)
LeavesOnlyWhenDue ==
    [][\A k \in Keys : Present(k) /\ ~Present(k)' =>
          Expired(k) \/ (Len(order) = Cap /\ k = order[1])]_cacheVars
=============================================================================
