-------------------------- MODULE IdemCacheProofs --------------------------
(***************************************************************************)
(* Proofs about IdemCache for any keys, capacity, window and running time. *)
(***************************************************************************)
EXTENDS IdemCache, SequenceTheorems, FiniteSetTheorems, TLAPS

(* evict's append(order[:i], order[i+1:]...): everything but the i-th. *)
LEMMA RemoveAtProperties ==
  ASSUME NEW S, NEW s \in Seq(S), NEW i \in 1..Len(s)
  PROVE  /\ RemoveAt(s, i) \in Seq(S)
         /\ Len(RemoveAt(s, i)) = Len(s) - 1
         /\ \A j \in 1..(Len(s) - 1) : RemoveAt(s, i)[j] = IF j < i THEN s[j] ELSE s[j + 1]
  <1> DEFINE a == SubSeq(s, 1, i - 1)
             b == SubSeq(s, i + 1, Len(s))
  <1>1. /\ Len(s) \in Nat /\ i - 1 \in Int /\ i + 1 \in Int
        /\ \A j \in 1..Len(s) : s[j] \in S
    BY LenProperties, ElementOfSeq
  <1>2. /\ a \in Seq(S) /\ Len(a) = i - 1
        /\ \A j \in 1..(i - 1) : a[j] = s[j]
    BY <1>1, SubSeqProperties
  <1>3. /\ b \in Seq(S) /\ Len(b) = Len(s) - i
        /\ \A j \in 1..(Len(s) - i) : b[j] = s[i + j]
    <2>1. \A j \in (i + 1)..Len(s) : s[j] \in S
      BY <1>1
    <2>2. /\ b \in Seq(S)
          /\ Len(b) = IF i + 1 <= Len(s) THEN Len(s) - (i + 1) + 1 ELSE 0
          /\ \A j \in 1..(Len(s) - (i + 1) + 1) : b[j] = s[(i + 1) + j - 1]
      BY <1>1, <2>1, SubSeqProperties
    <2>3. Len(b) = Len(s) - i
      BY <1>1, <2>2
    <2>4. ASSUME NEW j \in 1..(Len(s) - i)  PROVE b[j] = s[i + j]
      <3>1. j \in 1..(Len(s) - (i + 1) + 1) /\ (i + 1) + j - 1 = i + j
        BY <1>1
      <3>2. b[j] = s[(i + 1) + j - 1]
        BY <2>2, <3>1
      <3> QED  BY <3>1, <3>2
    <2> QED  BY <2>2, <2>3, <2>4
  <1> HIDE DEF a, b
  <1>4. /\ a \o b \in Seq(S) /\ Len(a \o b) = Len(a) + Len(b)
        /\ \A j \in 1..(Len(a) + Len(b)) : (a \o b)[j] = IF j <= Len(a) THEN a[j] ELSE b[j - Len(a)]
    BY <1>2, <1>3, ConcatProperties
  <1>5. RemoveAt(s, i) = a \o b
    BY DEF RemoveAt, a, b
  <1>6. ASSUME NEW j \in 1..(Len(s) - 1)
        PROVE  (a \o b)[j] = IF j < i THEN s[j] ELSE s[j + 1]
    <2>1. CASE j < i
      BY <1>1, <1>2, <1>3, <1>4, <2>1
    <2>2. CASE ~(j < i)
      <3>1. (a \o b)[j] = b[j - (i - 1)]
        BY <1>1, <1>2, <1>3, <1>4, <2>2
      <3>2. j - (i - 1) \in 1..(Len(s) - i) /\ i + (j - (i - 1)) = j + 1
        BY <1>1, <2>2
      <3> QED  BY <1>3, <2>2, <3>1, <3>2
    <2> QED  BY <2>1, <2>2
  <1> QED
    BY <1>1, <1>2, <1>3, <1>4, <1>5, <1>6

LEMMA RemoveFirstIsRemoveAt ==
  ASSUME NEW S, NEW s \in Seq(S), IsInjective(s), NEW i \in 1..Len(s)
  PROVE  RemoveFirst(s, s[i]) = RemoveAt(s, i)
  <1>1. {j \in 1..Len(s) : s[j] = s[i]} = {i}
    BY DEF IsInjective
  <1>2. Min({i}) = i
    BY DEF Min
  <1>3. SelectInSeq(s, LAMBDA v : v = s[i]) = i
    BY <1>1, <1>2 DEF SelectInSeq
  <1> QED
    BY <1>3 DEF RemoveFirst

LEMMA RemovedKey ==
  ASSUME NEW S, NEW s \in Seq(S), IsInjective(s), NEW k \in Range(s)
  PROVE  /\ RemoveFirst(s, k) \in Seq(S)
         /\ IsInjective(RemoveFirst(s, k))
         /\ Range(RemoveFirst(s, k)) = Range(s) \ {k}
         /\ Len(RemoveFirst(s, k)) = Len(s) - 1
  <1>1. PICK i \in 1..Len(s) : s[i] = k
    BY RangeEquality
  <1> DEFINE t == RemoveFirst(s, k)
  <1>2. /\ t \in Seq(S) /\ Len(t) = Len(s) - 1
        /\ \A j \in 1..(Len(s) - 1) : t[j] = IF j < i THEN s[j] ELSE s[j + 1]
    <2>1. t = RemoveAt(s, i)
      BY <1>1, RemoveFirstIsRemoveAt
    <2> HIDE DEF t
    <2> QED  BY <2>1, RemoveAtProperties
  <1> HIDE DEF t
  <1>3. Len(s) \in Nat /\ DOMAIN s = 1..Len(s) /\ DOMAIN t = 1..(Len(s) - 1)
    BY <1>2, LenProperties
  <1>4. IsInjective(t)
    <2> SUFFICES ASSUME NEW a \in 1..(Len(s) - 1), NEW b \in 1..(Len(s) - 1), t[a] = t[b]
                 PROVE  a = b
      BY <1>3 DEF IsInjective
    <2> DEFINE place(j) == IF j < i THEN j ELSE j + 1
    <2>1. ASSUME NEW j \in 1..(Len(s) - 1)
          PROVE  place(j) \in 1..Len(s) /\ t[j] = s[place(j)]
      BY <1>2, <1>3
    <2>2. place(a) = place(b)
      BY <1>3, <2>1 DEF IsInjective
    <2> QED  BY <1>3, <2>2
  <1>5. ASSUME NEW x \in Range(t)  PROVE x \in Range(s) \ {k}
    <2>1. PICK j \in 1..(Len(s) - 1) : t[j] = x
      BY <1>2, RangeEquality
    <2>2. PICK n \in 1..Len(s) : n # i /\ s[n] = x
      BY <1>2, <1>3, <2>1
    <2> QED
      BY <1>1, <1>3, <2>2, RangeEquality DEF IsInjective
  <1>6. ASSUME NEW x \in Range(s) \ {k}  PROVE x \in Range(t)
    <2>1. PICK n \in 1..Len(s) : s[n] = x
      BY RangeEquality
    <2>2. n # i
      BY <1>1, <2>1
    <2>3. \E j \in 1..(Len(s) - 1) : t[j] = x
      <3>1. CASE n < i
        BY <1>2, <1>3, <2>1, <3>1
      <3>2. CASE n > i
        <4>1. n - 1 \in 1..(Len(s) - 1) /\ ~(n - 1 < i) /\ (n - 1) + 1 = n
          BY <1>3, <3>2
        <4>2. t[n - 1] = s[n]
          BY <1>2, <4>1
        <4> QED  BY <2>1, <4>1, <4>2
      <3> QED  BY <1>3, <2>2, <3>1, <3>2
    <2> QED  BY <1>2, <2>3, RangeEquality
  <1> QED
    BY <1>2, <1>4, <1>5, <1>6 DEF t

LEMMA AppendedKey ==
  ASSUME NEW S, NEW s \in Seq(S), IsInjective(s), NEW k \in S, k \notin Range(s)
  PROVE  /\ Append(s, k) \in Seq(S)
         /\ IsInjective(Append(s, k))
         /\ Range(Append(s, k)) = Range(s) \cup {k}
         /\ Len(Append(s, k)) = Len(s) + 1
  <1> DEFINE t == Append(s, k)
  <1>1. /\ t \in Seq(S) /\ Len(t) = Len(s) + 1 /\ t[Len(s) + 1] = k
        /\ \A j \in 1..Len(s) : t[j] = s[j]
    BY AppendProperties
  <1> HIDE DEF t
  <1>2. Len(s) \in Nat /\ DOMAIN s = 1..Len(s) /\ DOMAIN t = 1..(Len(s) + 1)
    BY <1>1, LenProperties
  <1>3. Range(s) = {s[j] : j \in 1..Len(s)} /\ Range(t) = {t[j] : j \in 1..(Len(s) + 1)}
    BY <1>1, RangeEquality
  <1>4. 1..(Len(s) + 1) = (1..Len(s)) \cup {Len(s) + 1}
    BY <1>2
  <1>5. IsInjective(t)
    BY <1>1, <1>2, <1>3, <1>4 DEF IsInjective
  <1>6. Range(t) = Range(s) \cup {k}
    BY <1>1, <1>3, <1>4
  <1> QED
    BY <1>1, <1>5, <1>6 DEF t

(* An injective sequence has as many elements as it is long. *)
LEMMA CountedByOrder ==
  ASSUME NEW S, NEW s \in Seq(S), IsInjective(s)
  PROVE  Cardinality(Range(s)) = Len(s)
  <1>1. Len(s) \in Nat /\ DOMAIN s = 1..Len(s) /\ s \in [1..Len(s) -> S]
    BY LenProperties
  <1>2. Range(s) = {s[j] : j \in 1..Len(s)}
    BY RangeEquality
  <1>3. s \in Bijection(1..Len(s), Range(s))
    BY <1>1, <1>2 DEF Bijection, Injection, Surjection, IsInjective
  <1> QED
    BY <1>1, <1>3, FS_CountingElements DEF ExistsBijection

-----------------------------------------------------------------------------
Inv == TypeOK /\ CacheConsistent

LEMMA InitInv == Init => Inv
  <1> SUFFICES ASSUME Init PROVE Inv  OBVIOUS
  <1>1. DOMAIN entries = {} /\ order = <<>> /\ now = 0
    BY DEF Init
  <1>2. order \in Seq(Keys) /\ Len(order) = 0 /\ DOMAIN order = {}
    BY <1>1
  <1>3. Range(order) = {}
    BY <1>2 DEF Range
  <1>4. entries \in [DOMAIN entries -> Entry]
    BY <1>1 DEF Init
  <1> QED
    BY <1>1, <1>2, <1>3, <1>4, CacheConstants DEF Inv, TypeOK, CacheConsistent, IsInjective

LEMMA EntriesWithType ==
  ASSUME TypeOK, NEW f, DOMAIN f \subseteq Keys, f \in [DOMAIN f -> Entry],
         NEW k \in Keys, NEW v \in Values
  PROVE  /\ DOMAIN With(f, k, v) = DOMAIN f \cup {k}
         /\ With(f, k, v) \in [DOMAIN f \cup {k} -> Entry]
  <1>1. [value |-> v, expiresAt |-> now + Window] \in Entry
    BY CacheConstants DEF TypeOK, Entry
  <1> QED
    BY <1>1 DEF With

LEMMA EntriesWithoutType ==
  ASSUME TypeOK, NEW k
  PROVE  /\ DOMAIN EntriesWithout(k) = DOMAIN entries \ {k}
         /\ EntriesWithout(k) \in [DOMAIN entries \ {k} -> Entry]
  BY DEF TypeOK, EntriesWithout

LEMMA OrderWithoutType ==
  ASSUME Inv, NEW k, Present(k)
  PROVE  /\ OrderWithout(k) \in Seq(Keys)
         /\ IsInjective(OrderWithout(k))
         /\ Range(OrderWithout(k)) = DOMAIN entries \ {k}
         /\ Len(OrderWithout(k)) = Len(order) - 1
  BY RemovedKey DEF Inv, TypeOK, CacheConsistent, Present, OrderWithout

(* A full cache has a head to evict, and it is at its capacity exactly. *)
LEMMA FullOrder ==
  ASSUME Inv
  PROVE  /\ Len(order) \in Nat
         /\ Full => Len(order) = Cap /\ order[1] \in DOMAIN entries
         /\ ~Full => Len(order) < Cap
  <1>1. Len(order) \in Nat /\ order \in Seq(Keys)
    BY LenProperties DEF Inv, TypeOK
  <1>2. Cardinality(DOMAIN entries) = Len(order)
    BY CountedByOrder DEF Inv, TypeOK, CacheConsistent
  <1>3. Full => Len(order) = Cap
    BY <1>1, <1>2, CacheConstants DEF Inv, CacheConsistent, Full
  <1>4. Len(order) = Cap => order[1] \in Range(order)
    BY <1>1, CacheConstants, RangeEquality
  <1> QED
    BY <1>1, <1>2, <1>3, <1>4, CacheConstants DEF Inv, CacheConsistent, Full

LEMMA GetInv ==
  ASSUME Inv, NEW k \in Keys, Get(k)
  PROVE  Inv'
  <1>1. CASE Present(k) /\ Expired(k)
    <2>1. entries' = EntriesWithout(k) /\ order' = OrderWithout(k) /\ now' = now
      BY <1>1 DEF Get, Evict
    <2>2. TypeOK'
      BY <1>1, <2>1, EntriesWithoutType, OrderWithoutType DEF Inv, TypeOK
    <2>3. DOMAIN entries' = DOMAIN entries \ {k}
      BY <2>1, EntriesWithoutType DEF Inv
    <2>4. /\ IsInjective(order') /\ Range(order') = DOMAIN entries \ {k}
          /\ Len(order') = Len(order) - 1
      BY <1>1, <2>1, OrderWithoutType
    <2>5. Len(order') <= Cap
      BY <2>4, FullOrder, CacheConstants DEF Inv, CacheConsistent
    <2> QED  BY <2>2, <2>3, <2>4, <2>5 DEF Inv, CacheConsistent
  <1>2. CASE UNCHANGED cacheVars
    BY <1>2 DEF cacheVars, Inv, TypeOK, CacheConsistent
  <1> QED  BY <1>1, <1>2 DEF Get, cacheVars

LEMMA PutInv ==
  ASSUME Inv, NEW k \in Keys, NEW v \in Values, Put(k, v)
  PROVE  Inv'
  <1> USE DEF Inv
  <1>1. CASE Present(k)
    <2>1. entries' = With(entries, k, v) /\ order' = order /\ now' = now
      BY <1>1 DEF Put
    <2>2. DOMAIN entries' = DOMAIN entries /\ entries' \in [DOMAIN entries -> Entry]
      <3>1. DOMAIN entries \cup {k} = DOMAIN entries
        BY <1>1 DEF Present
      <3>2. DOMAIN entries \subseteq Keys /\ entries \in [DOMAIN entries -> Entry]
        BY DEF TypeOK
      <3> QED  BY <2>1, <3>1, <3>2, EntriesWithType
    <2> QED  BY <2>1, <2>2 DEF TypeOK, CacheConsistent
  <1>2. CASE ~Present(k) /\ Full
    <2> DEFINE o == order[1]
    <2>1. /\ entries' = With(EntriesWithout(o), k, v)
          /\ order' = Append(OrderWithout(o), k) /\ now' = now
      BY <1>2 DEF Put
    <2>2. Present(o) /\ Len(order) = Cap /\ Len(order) \in Nat
      BY <1>2, FullOrder DEF Present
    <2> HIDE DEF o
    <2>3. /\ OrderWithout(o) \in Seq(Keys) /\ IsInjective(OrderWithout(o))
          /\ Range(OrderWithout(o)) = DOMAIN entries \ {o}
          /\ Len(OrderWithout(o)) = Len(order) - 1
      BY <2>2, OrderWithoutType
    <2>4. /\ order' \in Seq(Keys) /\ IsInjective(order')
          /\ Range(order') = (DOMAIN entries \ {o}) \cup {k}
          /\ Len(order') = Len(order)
      BY <1>2, <2>1, <2>2, <2>3, AppendedKey DEF Present
    <2>5. /\ DOMAIN entries' = (DOMAIN entries \ {o}) \cup {k}
          /\ entries' \in [(DOMAIN entries \ {o}) \cup {k} -> Entry]
      <3>1. /\ DOMAIN EntriesWithout(o) = DOMAIN entries \ {o}
            /\ EntriesWithout(o) \in [DOMAIN entries \ {o} -> Entry]
        BY EntriesWithoutType
      <3>2. DOMAIN EntriesWithout(o) \subseteq Keys
        BY <3>1 DEF TypeOK
      <3> QED  BY <2>1, <3>1, <3>2, EntriesWithType
    <2>6. TypeOK'
      BY <2>1, <2>4, <2>5 DEF TypeOK
    <2>7. CacheConsistent'
      BY <2>2, <2>4, <2>5 DEF CacheConsistent
    <2> QED  BY <2>6, <2>7
  <1>3. CASE ~Present(k) /\ ~Full
    <2>1. entries' = With(entries, k, v) /\ order' = Append(order, k) /\ now' = now
      BY <1>3 DEF Put
    <2>2. DOMAIN entries' = DOMAIN entries \cup {k} /\ entries' \in [DOMAIN entries \cup {k} -> Entry]
      BY <2>1, EntriesWithType DEF TypeOK
    <2>3. /\ order' \in Seq(Keys) /\ IsInjective(order')
          /\ Range(order') = DOMAIN entries \cup {k} /\ Len(order') = Len(order) + 1
      BY <1>3, <2>1, AppendedKey DEF TypeOK, CacheConsistent, Present
    <2>4. Len(order') <= Cap
      BY <1>3, <2>3, FullOrder, CacheConstants
    <2> QED  BY <2>1, <2>2, <2>3, <2>4 DEF TypeOK, CacheConsistent
  <1> QED  BY <1>1, <1>2, <1>3

LEMMA NextInv == Inv /\ [Next]_cacheVars => Inv'
  <1> SUFFICES ASSUME Inv, [Next]_cacheVars PROVE Inv'  OBVIOUS
  <1>1. CASE Tick
    BY <1>1 DEF Tick, Inv, TypeOK, CacheConsistent
  <1>2. CASE UNCHANGED cacheVars
    BY <1>2 DEF cacheVars, Inv, TypeOK, CacheConsistent
  <1> QED
    BY <1>1, <1>2, GetInv, PutInv DEF Next

(***************************************************************************)
(* In every reachable state the slice lists the keys of the map, each      *)
(* once, and at most cap of them, so that put always evicts a key that is  *)
(* there (idempotency.go:164-188).                                         *)
(***************************************************************************)
THEOREM CacheIsConsistent == Spec => [](TypeOK /\ CacheConsistent)
  <1>1. Spec => []Inv
    BY InitInv, NextInv, PTL DEF Spec
  <1> QED  BY <1>1, PTL DEF Inv

(***************************************************************************)
(* A response is forgotten only when its window is over or as the oldest   *)
(* of a full cache (idempotency.go:150-188).                               *)
(***************************************************************************)
THEOREM ForgetsOnlyWhenDue == Spec => LeavesOnlyWhenDue
  <1> DEFINE Due == \A k \in Keys : Present(k) /\ ~Present(k)' =>
                       Expired(k) \/ (Len(order) = Cap /\ k = order[1])
  <1>1. ASSUME Inv, [Next]_cacheVars  PROVE [Due]_cacheVars
    <2> SUFFICES ASSUME NEW k \in Keys, Present(k), ~Present(k)', Next
                 PROVE  Expired(k) \/ (Len(order) = Cap /\ k = order[1])
      BY <1>1
    <2>1. ~Tick
      BY DEF Tick, Present
    <2>2. ASSUME NEW j \in Keys, Get(j)  PROVE Expired(k)
      BY <1>1, <2>2, EntriesWithoutType DEF Inv, Get, Evict, Present
    <2>3. ASSUME NEW j \in Keys, NEW v \in Values, Put(j, v)
          PROVE  Len(order) = Cap /\ k = order[1]
      <3>1. CASE Full /\ entries' = With(EntriesWithout(order[1]), j, v)
        <4>1. DOMAIN entries' = (DOMAIN entries \ {order[1]}) \cup {j}
          BY <3>1 DEF With, EntriesWithout
        <4> QED  BY <1>1, <3>1, <4>1, FullOrder DEF Present
      <3>2. CASE entries' = With(entries, j, v)
        BY <3>2 DEF With, Present
      <3> QED  BY <2>3, <3>1, <3>2 DEF Put
    <2> QED  BY <2>1, <2>2, <2>3 DEF Next
  <1>2. Spec => []Inv
    BY InitInv, NextInv, PTL DEF Spec
  <1> QED  BY <1>1, <1>2, PTL DEF Spec, LeavesOnlyWhenDue
=============================================================================
