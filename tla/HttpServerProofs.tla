-------------------------- MODULE HttpServerProofs --------------------------
(***************************************************************************)
(* Proofs about HttpServer for any number of requests, any settings, any   *)
(* length of a second and of the drain, and handlers that may hang.        *)
(***************************************************************************)
EXTENDS HttpServer, FiniteSetTheorems, WellFoundedInduction, TLAPS

(***************************************************************************)
(* Whole multiples, the only arithmetic beyond the linear in what follows. *)
(***************************************************************************)
LEMMA DivideWhole ==
  ASSUME NEW d \in Nat \ {0}, NEW x \in Int
  PROVE  (d * x) \div d = x
  OBVIOUS

LEMMA RoundWhole ==
  ASSUME NEW d \in Nat \ {0}, NEW x \in Nat
  PROVE  (d - 1 + d * x) \div d = x
  OBVIOUS

LEMMA WholeQuotient ==
  ASSUME NEW n \in Nat \ {0}, NEW d \in Nat \ {0}, n % d = 0
  PROVE  n = d * (n \div d) /\ n \div d \in Nat \ {0}
  OBVIOUS

LEMMA TimesMonotone ==
  ASSUME NEW d \in Nat, NEW m \in Int, NEW n \in Int, m =< n
  PROVE  d * m =< d * n
  OBVIOUS

LEMMA TimesOrder ==
  ASSUME NEW d \in Nat \ {0}, NEW m \in Int, NEW n \in Int
  PROVE  (d * m =< d * n <=> m =< n) /\ (d * m < d * n <=> m < n)
  OBVIOUS

(***************************************************************************)
(* A set of numbers of requests has a lowest: the intervals below its      *)
(* members are finite sets, and of those one is the smallest.              *)
(***************************************************************************)
LEMMA LowestIsThere ==
  ASSUME NEW S \in SUBSET Nat, S # {}
  PROVE  Min(S) \in S /\ \A y \in S : Min(S) =< y
<1> DEFINE Below == {0..n : n \in S}
<1>1. Below \subseteq FiniteSubsetsOf(Nat) /\ Below # {}
  <2>1. ASSUME NEW n \in S PROVE 0..n \in FiniteSubsetsOf(Nat)
    BY FS_Interval DEF FiniteSubsetsOf
  <2> QED
    BY <2>1
<1>2. PICK B \in Below : \A C \in Below : ~(<<C, B>> \in StrictSubsetOrdering(Nat))
  <2> HIDE DEF Below
  <2> QED
    BY <1>1, FS_StrictSubsetOrderingWellFounded, WFMin
<1>3. PICK x \in S : B = 0..x
  OBVIOUS
<1>4. ASSUME NEW y \in S PROVE x =< y
  <2> SUFFICES ASSUME y < x PROVE FALSE
    OBVIOUS
  <2>1. 0..y \in SUBSET Nat /\ 0..x \in SUBSET Nat /\ 0..y \subseteq 0..x
    OBVIOUS
  <2>2. x \in 0..x /\ x \notin 0..y
    OBVIOUS
  <2>3. <<0..y, 0..x>> \in StrictSubsetOrdering(Nat)
    BY <2>1, <2>2 DEF StrictSubsetOrdering
  <2> QED
    BY <1>2, <1>3, <2>3
<1> QED
  BY <1>4 DEF Min

(***************************************************************************)
(* And a highest, as it has no member above NumReqs.                       *)
(***************************************************************************)
LEMMA HighestIsThere ==
  ASSUME NEW S \in SUBSET Reqs, S # {}
  PROVE  \E x \in S : \A y \in S : y =< x
<1> DEFINE D == {NumReqs - x : x \in S}
<1>1. D \in SUBSET Nat /\ D # {}
  <2>1. ASSUME NEW x \in S PROVE NumReqs - x \in Nat
    BY ServerConstants DEF Reqs
  <2> QED
    BY <2>1
<1>2. Min(D) \in D /\ \A y \in D : Min(D) =< y
  <2> HIDE DEF D
  <2> QED
    BY <1>1, LowestIsThere
<1>3. PICK x \in S : Min(D) = NumReqs - x
  BY <1>2
<1>4. ASSUME NEW y \in S PROVE y =< x
  <2>1. NumReqs - x =< NumReqs - y
    BY <1>2, <1>3
  <2> QED
    BY <2>1, ServerConstants DEF Reqs
<1> QED
  BY <1>4

(***************************************************************************)
(* What parseConfig accepts are numbers, except that eventkit-mcp has no   *)
(* request timeout.                                                        *)
(***************************************************************************)
LEMMA SettingsAreNumbers ==
  ASSUME NEW raw \in Raws, Accepted(raw)
  PROVE  Settings(raw) \in [write : Int, request : Int \cup {Unset}, rps : Int, burst : Int]
<1> DEFINE Numbers == Int \cup {Unset, BadValue}
<1>1. \A s \in {raw.write, raw.request, raw.rps, raw.burst} :
        s.flag \in Int \cup {Unset} /\ s.env \in Int \cup {Unset, BadValue}
  BY GivenSettings
<1>2. ASSUME NEW s \in {raw.write, raw.request, raw.rps, raw.burst}, NEW d \in Nat
      PROVE  /\ Effective(s, d) \in Int \cup {BadValue}
             /\ EffectiveFromZero(s, d) \in Int \cup {BadValue}
  BY <1>1, <1>2 DEF Effective, EffectiveFromZero
<1>3. \A field \in {"write", "request", "rps", "burst"} : Settings(raw)[field] # BadValue
  BY DEF Accepted, Settings, ServerSettings, McpSettings
<1>4. CASE raw.binary = "server"
  <2>1. Settings(raw) = ServerSettings(raw)
    BY <1>4 DEF Settings
  <2>2. /\ Effective(raw.write, DefaultWriteTimeout) \in Int
        /\ Effective(raw.request, DefaultRequestTimeout) \in Int
        /\ Effective(raw.rps, 0) \in Int /\ Effective(raw.burst, 0) \in Int
    BY <1>2, <1>3, <2>1, GivenSettings DEF ServerSettings
  <2> QED
    BY <2>1, <2>2 DEF ServerSettings
<1>5. CASE raw.binary # "server"
  <2>1. Settings(raw) = McpSettings(raw)
    BY <1>5 DEF Settings
  <2>2. /\ EffectiveFromZero(raw.rps, DefaultRPS) \in Int
        /\ EffectiveFromZero(raw.burst, DefaultBurst) \in Int
    BY <1>2, <1>3, <2>1, GivenSettings DEF McpSettings
  <2> QED
    BY <2>1, <2>2 DEF McpSettings
<1> QED
  BY <1>4, <1>5

-----------------------------------------------------------------------------
Types ==
  /\ main \in {"start", "serve", "exited"}
  /\ cfg \in [write : Int, request : Int \cup {Unset}, rps : Int, burst : Int]
  /\ now \in Nat
  /\ lim \in [tokens : Int, last : Nat, lastEvent : Int]
  /\ req \in [Reqs -> [pc : {"idle", "reserved", "refused", "running", "200", "429", "504", "cut"},
                       at : Nat, slot : Int, began : Nat \cup {Never}]]
  /\ term \in BOOLEAN /\ excused \in BOOLEAN
  /\ closing \in Nat \cup {Open}

(***************************************************************************)
(* The settings stand before the first request; a token of them takes a    *)
(* whole number of ticks; and reservations are held only under a limit.    *)
(***************************************************************************)
Settled ==
  /\ main = "start" => /\ now = 0 /\ lim.last = 0 /\ ~excused /\ ~Limited
                       /\ \A r \in Reqs : req[r] = Idle
  /\ cfg.rps > 0 => Second % cfg.rps = 0
  /\ Holding # {} => Limited

LEMMA InitTypes == Init => Types /\ Settled
<1> SUFFICES ASSUME Init PROVE Types /\ Settled
  OBVIOUS
<1>1. Idle \in [pc : {"idle", "reserved", "refused", "running", "200", "429", "504", "cut"},
                at : Nat, slot : Int, began : Nat \cup {Never}]
  BY DEF Idle
<1>2. NoSettings \in [write : Int, request : Int \cup {Unset}, rps : Int, burst : Int]
  BY DEF NoSettings
<1>3. Types
  <2>1. lim \in [tokens : Int, last : Nat, lastEvent : Int] /\ now \in Nat
    BY DEF Init
  <2>2. cfg = NoSettings /\ req = [r \in Reqs |-> Idle]
    BY DEF Init
  <2>3. /\ main \in {"start", "serve", "exited"} /\ term \in BOOLEAN /\ excused \in BOOLEAN
        /\ closing \in Nat \cup {Open}
    BY DEF Init
  <2> QED
    BY <1>1, <1>2, <2>1, <2>2, <2>3 DEF Types
<1>4. Settled
  BY DEF Init, Settled, NoSettings, Holding, Idle, Limited
<1> QED
  BY <1>3, <1>4

LEMMA TypesStep ==
  ASSUME Types, Settled, [Next]_vars
  PROVE  Types'
<1> USE DEF Types
<1>1. CASE Start
  <2>1. cfg' \in [write : Int, request : Int \cup {Unset}, rps : Int, burst : Int]
    BY <1>1, SettingsAreNumbers DEF Start
  <2>2. main' \in {"start", "serve", "exited"} /\ UNCHANGED <<now, req, term, closing, excused>>
    BY <1>1 DEF Start
  <2>3. lim' \in [tokens : Int, last : Nat, lastEvent : Int]
    <3>1. lim' = [lim EXCEPT !.tokens = cfg'.burst * Second] \/ lim' = lim
      BY <1>1 DEF Start
    <3>2. cfg'.burst * Second \in Int
      BY <2>1, ServerConstants
    <3> QED
      BY <3>1, <3>2
  <2> QED
    BY <2>1, <2>2, <2>3
<1>2. CASE Signal \/ Shutdown
  BY <1>2 DEF Signal, Shutdown, limiter
<1>3. CASE ServeReturns \/ Tick
  BY <1>3 DEF ServeReturns, Tick, limiter
<1>4. ASSUME NEW r \in Reqs, Arrive(r) PROVE Types'
  <2>1. CASE Limited
    <3>1. Filled(lim, now) \in Int
      BY ServerConstants DEF Filled, Least
    <3> DEFINE t == Filled(lim, now) - Second
               s == now + (IF t < 0 THEN (cfg.rps - 1 - t) \div cfg.rps ELSE 0)
    <3>2. t \in Int /\ s \in Int
      BY <3>1, <2>1, ServerConstants DEF Limited
    <3>3. /\ lim' = [tokens |-> t, last |-> now, lastEvent |-> s]
          /\ req' = [req EXCEPT ![r] = [pc |-> "reserved", at |-> now, slot |-> s, began |-> Never]]
          /\ excused' \in BOOLEAN /\ UNCHANGED <<main, cfg, now, term, closing>>
      BY <1>4, <2>1 DEF Arrive
    <3> HIDE DEF t, s
    <3> QED
      BY <3>2, <3>3
  <2>2. CASE ~Limited
    BY <1>4, <2>2 DEF Arrive
  <2> QED
    BY <2>1, <2>2
<1>5. ASSUME NEW r \in Reqs, Admit(r) \/ Refuse(r) PROVE Types'
  BY <1>5 DEF Admit, Refuse, limiter
<1>6. ASSUME NEW r \in Reqs, Cancel(r) PROVE Types'
  <2>1. UNCHANGED <<main, cfg, now, term, closing>> /\ excused' \in BOOLEAN
    BY <1>6 DEF Cancel
  <2>2. req' \in [Reqs -> [pc : {"idle", "reserved", "refused", "running", "200", "429", "504", "cut"},
                           at : Nat, slot : Int, began : Nat \cup {Never}]]
    BY <1>6 DEF Cancel, Reply
  <2>3. lim' \in [tokens : Int, last : Nat, lastEvent : Int]
    <3> DEFINE slot == req[r].slot
               back == Second - cfg.rps * (lim.lastEvent - slot)
               before == slot - Second \div cfg.rps
               tokens == Least(cfg.burst * Second, Filled(lim, now) + back)
    <3>1. Limited
      BY <1>6 DEF Cancel, Settled, Holding
    <3>2. before \in Int /\ lim.lastEvent \in Int
      BY <3>1, ServerConstants DEF Limited
    <3>3. tokens \in Int
      <4>1. back \in Int /\ Filled(lim, now) \in Int /\ cfg.burst * Second \in Int
        BY ServerConstants DEF Filled, Least
      <4> HIDE DEF back
      <4> QED
        BY <4>1 DEF Least
    <3>4. lim' = IF slot < now \/ back <= 0 THEN lim
                 ELSE [tokens |-> tokens, last |-> now,
                       lastEvent |-> IF slot = lim.lastEvent /\ before >= now THEN before ELSE lim.lastEvent]
      BY <1>6 DEF Cancel
    <3> HIDE DEF before, tokens, back, slot
    <3> QED
      BY <3>2, <3>3, <3>4
  <2> QED
    BY <2>1, <2>2, <2>3
<1>7. ASSUME NEW r \in Reqs, Return(r) \/ Timeout(r) PROVE Types'
  BY <1>7 DEF Return, Timeout, Reply, limiter
<1>8. CASE UNCHANGED vars
  BY <1>8 DEF vars, limiter
<1> QED
  BY <1>1, <1>2, <1>3, <1>4, <1>5, <1>6, <1>7, <1>8 DEF Next, Step

LEMMA SettledStep ==
  ASSUME Types, Settled, [Next]_vars
  PROVE  Settled'
<1> USE DEF Types, Settled, Holding, Limited
<1>1. CASE Start
  <2>1. \A r \in Reqs : req'[r] = Idle
    BY <1>1 DEF Start
  <2>2. main' # "start" /\ (cfg'.rps > 0 => Second % cfg'.rps = 0)
    BY <1>1, WholeTicks DEF Start
  <2> QED
    BY <2>1, <2>2 DEF Idle
<1>2. CASE Signal \/ Shutdown \/ ServeReturns \/ Tick \/ UNCHANGED vars
  BY <1>2 DEF Signal, Shutdown, ServeReturns, InFlight, Tick, limiter, vars
<1>3. ASSUME NEW r \in Reqs, Arrive(r) \/ Admit(r) \/ Refuse(r) PROVE Settled'
  BY <1>3 DEF Arrive, Admit, Refuse, limiter
<1>4. ASSUME NEW r \in Reqs, Cancel(r) \/ Return(r) \/ Timeout(r) PROVE Settled'
  <2>1. req' = [req EXCEPT ![r].pc = IF Late(r) THEN "cut" ELSE req'[r].pc] /\ req'[r].pc \notin {"reserved", "refused"}
        /\ main = "serve" /\ UNCHANGED <<main, cfg>>
    BY <1>4 DEF Cancel, Return, Timeout, TimedOut, Reply
  <2> QED
    BY <2>1
<1> QED
  BY <1>1, <1>2, <1>3, <1>4 DEF Next, Step

-----------------------------------------------------------------------------
(***************************************************************************)
(* The bucket in ticks.  Unit is what a token takes, Depth what the whole  *)
(* burst takes; a bucket was empty at EmptyOf, counting as if it had       *)
(* filled from there to what it holds at t.  Time alone does not move this *)
(* moment, except that it is never more than Depth ago; a token moves it   *)
(* ahead by Unit.                                                          *)
(***************************************************************************)
Unit == Second \div cfg.rps
Depth == cfg.burst * Unit
EmptyOf(bucket, t) ==
  LET e == bucket.last - bucket.tokens \div cfg.rps
  IN  IF e < t - Depth THEN t - Depth ELSE e
Empty == EmptyOf(lim, now)

Whole(bucket) == bucket.tokens = cfg.rps * (bucket.tokens \div cfg.rps)
WholeTokens == Limited => Whole(lim) /\ lim.last =< now

LEMMA Rates ==
  ASSUME Types, Settled, Limited
  PROVE  /\ cfg.rps \in Nat \ {0} /\ Unit \in Nat \ {0} /\ Depth \in Nat \ {0}
         /\ Second = cfg.rps * Unit /\ cfg.burst * Second = cfg.rps * Depth
<1>1. cfg.rps \in Nat \ {0} /\ cfg.burst \in Nat \ {0} /\ Second % cfg.rps = 0
  BY DEF Types, Settled, Limited
<1>2. Unit \in Nat \ {0} /\ Second = cfg.rps * Unit
  BY <1>1, WholeQuotient, ServerConstants DEF Unit
<1>3. Depth \in Nat \ {0} /\ cfg.burst * (cfg.rps * Unit) = cfg.rps * Depth
  BY <1>1, <1>2 DEF Depth
<1> QED
  BY <1>1, <1>2, <1>3

LEMMA FilledInTicks ==
  ASSUME Types, Settled, Limited, NEW bucket, NEW t \in Nat, Whole(bucket),
         bucket.tokens \in Int, bucket.last \in Nat
  PROVE  /\ EmptyOf(bucket, t) \in Int /\ t - Depth =< EmptyOf(bucket, t)
         /\ Filled(bucket, t) = cfg.rps * (t - EmptyOf(bucket, t))
<1> DEFINE level == bucket.tokens \div cfg.rps
<1>1. level \in Int /\ bucket.tokens = cfg.rps * level
  BY Rates DEF Whole
<1>2. bucket.tokens + cfg.rps * (t - bucket.last) = cfg.rps * (level + t - bucket.last)
  BY <1>1, Rates
<1>3. Filled(bucket, t) = Least(cfg.rps * Depth, cfg.rps * (level + t - bucket.last))
  BY <1>2, Rates DEF Filled
<1>4. EmptyOf(bucket, t) = IF bucket.last - level < t - Depth THEN t - Depth ELSE bucket.last - level
  BY DEF EmptyOf
<1> HIDE DEF level
<1>5. cfg.rps * Depth < cfg.rps * (level + t - bucket.last) <=> Depth < level + t - bucket.last
  BY <1>1, Rates, TimesOrder
<1>6. Filled(bucket, t) = IF Depth < level + t - bucket.last THEN cfg.rps * Depth
                          ELSE cfg.rps * (level + t - bucket.last)
  BY <1>3, <1>5 DEF Least
<1>7. /\ EmptyOf(bucket, t) \in Int /\ t - Depth =< EmptyOf(bucket, t)
      /\ t - EmptyOf(bucket, t) = IF Depth < level + t - bucket.last THEN Depth
                                  ELSE level + t - bucket.last
  BY <1>1, <1>4, Rates
<1> QED
  BY <1>6, <1>7

(***************************************************************************)
(* What the steps do to the moment: nothing, as long as they leave the     *)
(* bucket and the clock alone.                                             *)
(***************************************************************************)
LEMMA QuietInTicks ==
  ASSUME UNCHANGED <<lim, now, cfg>>
  PROVE  /\ Unit' = Unit /\ Depth' = Depth /\ Empty' = Empty /\ Limited' = Limited
         /\ WholeTokens' = WholeTokens
  BY DEF Unit, Depth, Empty, EmptyOf, Limited, WholeTokens, Whole

LEMMA TickInTicks ==
  ASSUME Types, Settled, WholeTokens, Limited, Tick
  PROVE  /\ Unit' = Unit /\ Depth' = Depth /\ WholeTokens' /\ now' = now + 1
         /\ Empty' = IF Empty < now + 1 - Depth THEN now + 1 - Depth ELSE Empty
<1>1. UNCHANGED <<cfg, lim>> /\ now' = now + 1
  BY DEF Tick, limiter
<1>2. Unit' = Unit /\ Depth' = Depth
  BY <1>1 DEF Unit, Depth
<1>3. WholeTokens'
  BY <1>1 DEF WholeTokens, Whole, Types
<1> DEFINE e == lim.last - lim.tokens \div cfg.rps
<1>4. e \in Int
  BY Rates DEF Types
<1>5. Empty' = IF e < now + 1 - Depth THEN now + 1 - Depth ELSE e
  <2>1. cfg' = cfg /\ lim' = lim
    BY <1>1
  <2>2. Empty' = IF e < now' - Depth' THEN now' - Depth' ELSE e
    BY <2>1 DEF Empty, EmptyOf
  <2>3. now' - Depth' = now + 1 - Depth
    BY <1>1, <1>2, Rates DEF Types
  <2> HIDE DEF e
  <2> QED
    BY <2>2, <2>3
<1>6. Empty = IF e < now - Depth THEN now - Depth ELSE e
  BY DEF Empty, EmptyOf
<1> HIDE DEF e
<1> QED
  BY <1>1, <1>2, <1>3, <1>4, <1>5, <1>6, Rates DEF Types

(***************************************************************************)
(* An arrival takes a token: the slot is when the bucket will have it.     *)
(***************************************************************************)
SlotNow == IF Empty + Unit > now THEN Empty + Unit ELSE now

LEMMA ArriveInTicks ==
  ASSUME Types, Settled, WholeTokens, Limited, NEW r \in Reqs, Arrive(r)
  PROVE  /\ Unit' = Unit /\ Depth' = Depth /\ WholeTokens' /\ UNCHANGED <<cfg, now>>
         /\ Empty' = Empty + Unit /\ Empty \in Int /\ now - Depth =< Empty
         /\ lim'.lastEvent = SlotNow
         /\ req' = [req EXCEPT ![r] = [pc |-> "reserved", at |-> now, slot |-> SlotNow, began |-> Never]]
<1> DEFINE tokens == Filled(lim, now) - Second
           slot == now + (IF tokens < 0 THEN (cfg.rps - 1 - tokens) \div cfg.rps ELSE 0)
<1>1. /\ lim' = [tokens |-> tokens, last |-> now, lastEvent |-> slot]
      /\ req' = [req EXCEPT ![r] = [pc |-> "reserved", at |-> now, slot |-> slot, began |-> Never]]
      /\ UNCHANGED <<cfg, now>>
  BY DEF Arrive
<1>2. /\ Empty \in Int /\ now - Depth =< Empty
      /\ Filled(lim, now) = cfg.rps * (now - Empty) /\ now \in Nat
  BY FilledInTicks DEF Empty, WholeTokens, Types
<1>3. tokens = cfg.rps * (now - Empty - Unit)
  BY <1>2, Rates
<1>4. slot = SlotNow
  <2>1. tokens < 0 <=> now - Empty - Unit < 0
    <3>1. cfg.rps * 0 = 0
      BY Rates
    <3> HIDE DEF tokens
    <3> QED
      BY <1>2, <1>3, <3>1, Rates, TimesOrder
  <2>2. CASE now - Empty - Unit < 0
    <3>1. cfg.rps - 1 - tokens = cfg.rps - 1 + cfg.rps * (Empty + Unit - now)
      BY <1>2, <1>3, Rates
    <3>2. Empty + Unit - now \in Nat
      BY <1>2, <2>2, Rates
    <3>3. (cfg.rps - 1 - tokens) \div cfg.rps = Empty + Unit - now
      BY <3>1, <3>2, RoundWhole, Rates
    <3> HIDE DEF tokens
    <3> QED
      BY <1>2, <2>1, <2>2, <3>3, Rates DEF SlotNow
  <2>3. CASE ~(now - Empty - Unit < 0)
    <3> HIDE DEF tokens
    <3> QED
      BY <1>2, <2>1, <2>3, Rates DEF SlotNow
  <2> QED
    BY <2>2, <2>3
<1>5. Unit' = Unit /\ Depth' = Depth
  BY <1>1 DEF Unit, Depth
<1>6. lim'.tokens \div cfg.rps = now - Empty - Unit
  BY <1>1, <1>2, <1>3, DivideWhole, Rates
<1>7. lim'.last = now /\ lim'.lastEvent = slot /\ lim'.tokens = tokens
  BY <1>1
<1> HIDE DEF tokens, slot
<1>8. WholeTokens'
  BY <1>1, <1>2, <1>3, <1>6, <1>7, Rates DEF WholeTokens, Whole, Limited
<1>9. Empty' = Empty + Unit
  <2>1. Empty' = IF now - (now - Empty - Unit) < now - Depth THEN now - Depth ELSE now - (now - Empty - Unit)
    BY <1>1, <1>5, <1>6, <1>7 DEF Empty, EmptyOf
  <2> QED
    BY <1>2, <2>1, Rates
<1> QED
  BY <1>1, <1>2, <1>4, <1>5, <1>7, <1>8, <1>9

(***************************************************************************)
(* A reservation given back late, or with a token or more given out behind *)
(* it, changes nothing; the last one gives its token back.                 *)
(***************************************************************************)
LEMMA CancelInTicks ==
  ASSUME Types, Settled, WholeTokens, Limited, NEW r \in Reqs, Cancel(r)
  PROVE  /\ Unit' = Unit /\ Depth' = Depth /\ WholeTokens' /\ UNCHANGED <<cfg, now>>
         /\ req[r].slot < now \/ lim.lastEvent - req[r].slot >= Unit => UNCHANGED <<lim, Empty>>
         /\ req[r].slot >= now /\ lim.lastEvent = req[r].slot =>
              /\ Empty' = IF Empty - Unit < now - Depth THEN now - Depth ELSE Empty - Unit
              /\ lim'.lastEvent = IF req[r].slot - Unit >= now THEN req[r].slot - Unit
                                  ELSE req[r].slot
<1> DEFINE slot == req[r].slot
           gap == lim.lastEvent - slot
           back == Second - cfg.rps * gap
           before == slot - Second \div cfg.rps
           tokens == Least(cfg.burst * Second, Filled(lim, now) + back)
<1>1. /\ UNCHANGED <<cfg, now>>
      /\ lim' = IF slot < now \/ back <= 0 THEN lim
                ELSE [tokens |-> tokens, last |-> now,
                      lastEvent |-> IF slot = lim.lastEvent /\ before >= now THEN before
                                    ELSE lim.lastEvent]
  BY DEF Cancel
<1>2. Unit' = Unit /\ Depth' = Depth
  BY <1>1 DEF Unit, Depth
<1>3. /\ Empty \in Int /\ now - Depth =< Empty /\ now \in Nat
      /\ Filled(lim, now) = cfg.rps * (now - Empty)
  BY FilledInTicks DEF Empty, WholeTokens, Types
<1>4. gap \in Int /\ slot \in Int /\ lim.lastEvent \in Int
  BY DEF Types
<1>5. before = slot - Unit
  BY DEF Unit
<1> HIDE DEF gap, slot, before
<1>6. back = cfg.rps * (Unit - gap)
  BY <1>4, Rates
<1>7. back <= 0 <=> Unit =< gap
  <2>1. cfg.rps * 0 = 0
    BY Rates
  <2> HIDE DEF back
  <2> QED
    BY <1>4, <1>6, <2>1, Rates, TimesOrder
<1>8. CASE slot < now \/ Unit =< gap
  <2>1. lim' = lim
    BY <1>1, <1>7, <1>8
  <2>2. lim.lastEvent = slot => gap = 0
    BY <1>4 DEF gap
  <2>3. gap = lim.lastEvent - req[r].slot /\ slot = req[r].slot
    BY DEF gap, slot
  <2>4. UNCHANGED Empty /\ WholeTokens'
    BY <1>1, <2>1, QuietInTicks
  <2> HIDE DEF back, tokens
  <2> QED
    BY <1>1, <1>2, <1>3, <1>4, <1>8, <2>1, <2>2, <2>3, <2>4, Rates
<1>9. CASE ~(slot < now \/ Unit =< gap)
  <2> DEFINE level == IF Depth < now - Empty + Unit - gap THEN Depth ELSE now - Empty + Unit - gap
  <2>1. Filled(lim, now) + back = cfg.rps * (now - Empty + Unit - gap)
    BY <1>3, <1>4, <1>6, Rates
  <2>2. tokens = cfg.rps * level
    <3>1. cfg.rps * Depth < cfg.rps * (now - Empty + Unit - gap) <=> Depth < now - Empty + Unit - gap
      BY <1>3, <1>4, Rates, TimesOrder
    <3> HIDE DEF back
    <3> QED
      BY <2>1, <3>1, Rates DEF Least
  <2>3. level \in Int
    BY <1>3, <1>4, Rates
  <2> HIDE DEF back, tokens, level
  <2>4. /\ lim'.tokens = tokens /\ lim'.last = now
        /\ lim'.lastEvent = IF slot = lim.lastEvent /\ before >= now THEN before ELSE lim.lastEvent
    BY <1>1, <1>7, <1>9
  <2>5. lim'.tokens \div cfg.rps = level
    BY <2>2, <2>3, <2>4, DivideWhole, Rates
  <2>6. WholeTokens'
    BY <1>1, <1>3, <2>2, <2>4, <2>5 DEF WholeTokens, Whole, Limited
  <2>7. Empty' = IF now - level < now - Depth THEN now - Depth ELSE now - level
    <3>1. cfg' = cfg /\ now' = now
      BY <1>1
    <3> QED
      BY <1>2, <2>4, <2>5, <3>1 DEF Empty, EmptyOf
  <2>8. lim.lastEvent = slot => gap = 0
    BY <1>4 DEF gap
  <2>9. gap = 0 => Empty' = IF Empty - Unit < now - Depth THEN now - Depth ELSE Empty - Unit
    BY <1>3, <2>3, <2>7, Rates DEF level
  <2>10. gap = lim.lastEvent - req[r].slot /\ slot = req[r].slot
    BY DEF gap, slot
  <2> QED
    BY <1>1, <1>2, <1>4, <1>5, <1>9, <2>4, <2>6, <2>8, <2>9, <2>10
<1> QED
  BY <1>8, <1>9

(***************************************************************************)
(* A bucket starts full: as if it had been empty Depth before the start.   *)
(***************************************************************************)
LEMMA StartInTicks ==
  ASSUME Types, Settled, Start, Limited'
  PROVE  /\ now' = 0 /\ Empty' = 0 - Depth' /\ Depth' \in Nat \ {0} /\ Unit' \in Nat \ {0}
         /\ WholeTokens' /\ ~excused' /\ \A r \in Reqs : req'[r] = Idle
<1>1. Types' /\ Settled'
  <2>1. Next
    BY DEF Next
  <2> QED
    BY <2>1, TypesStep, SettledStep
<1>2. cfg'.rps \in Nat \ {0} /\ cfg'.burst \in Nat \ {0} /\ Second % cfg'.rps = 0
  BY <1>1 DEF Types, Settled, Limited
<1>3. Unit' \in Nat \ {0} /\ Second = cfg'.rps * Unit'
  BY <1>2, WholeQuotient, ServerConstants DEF Unit
<1>4. Depth' \in Nat \ {0} /\ cfg'.burst * (cfg'.rps * Unit') = cfg'.rps * Depth'
  BY <1>2, <1>3 DEF Depth
<1>5. /\ now' = 0 /\ lim.last = 0 /\ ~excused' /\ \A r \in Reqs : req'[r] = Idle
  BY DEF Start, Settled
<1>6. lim' = [lim EXCEPT !.tokens = cfg'.burst * Second]
  BY DEF Start, Settled, Limited
<1>7. lim'.tokens = cfg'.rps * Depth' /\ lim'.last = 0
  BY <1>3, <1>4, <1>5, <1>6 DEF Types
<1>8. lim'.tokens \div cfg'.rps = Depth'
  BY <1>2, <1>4, <1>7, DivideWhole
<1>9. WholeTokens'
  BY <1>5, <1>7, <1>8 DEF WholeTokens, Whole
<1>10. Empty' = 0 - Depth'
  BY <1>4, <1>5, <1>7, <1>8 DEF Empty, EmptyOf
<1> QED
  BY <1>3, <1>4, <1>5, <1>9, <1>10

-----------------------------------------------------------------------------
(***************************************************************************)
(* The way of a request: it reserves on arrival, is refused only when its  *)
(* slot is still to come, begins at its slot or later, and requests arrive *)
(* in their order.                                                         *)
(***************************************************************************)
Held(q) == req[q].pc \in {"reserved", "refused"}

Way(q) ==
  /\ req[q].pc = "idle" => req[q].began = Never
  /\ req[q].pc # "idle" => req[q].at =< now
  /\ Held(q) => req[q].began = Never /\ req[q].at =< req[q].slot
  /\ req[q].pc = "refused" => req[q].at < req[q].slot
  /\ req[q].pc = "running" => req[q].began # Never
  /\ req[q].began # Never => /\ req[q].at =< req[q].slot /\ req[q].slot =< req[q].began
                             /\ req[q].began =< now

Ways ==
  /\ \A q \in Reqs : Way(q)
  /\ \A p, q \in Reqs : p < q /\ req[q].pc # "idle" => req[p].pc # "idle" /\ req[p].at =< req[q].at

(***************************************************************************)
(* What an arrival sets.                                                   *)
(***************************************************************************)
LEMMA Arrives ==
  ASSUME Types, Settled, WholeTokens, Ways, NEW r \in Reqs, Arrive(r)
  PROVE  /\ req[r].pc = "idle" /\ main = "serve" /\ now' = now
         /\ \A p \in Reqs : p < r => req[p].pc # "idle"
         /\ \A p \in Reqs : p > r => req[p].pc = "idle"
         /\ \A p \in Reqs \ {r} : req'[p] = req[p]
         /\ req'[r].at = now /\ req'[r].slot >= now
         /\ Limited => req'[r].pc = "reserved" /\ req'[r].began = Never
         /\ ~Limited => req'[r].pc = "running" /\ req'[r].began = now /\ req'[r].slot = now
<1>1. req[r].pc = "idle" /\ main = "serve" /\ now' = now
  BY DEF Arrive
<1>2. \A p \in Reqs : p > r => req[p].pc = "idle"
  BY <1>1 DEF Ways, Reqs
<1>3. \A p \in Reqs : p < r => req[p].pc # "idle"
  <2>1. r = Min({q \in Reqs : req[q].pc = "idle"})
    BY DEF Arrive
  <2>2. {q \in Reqs : req[q].pc = "idle"} \in SUBSET Nat /\ {q \in Reqs : req[q].pc = "idle"} # {}
    BY <1>1, ServerConstants DEF Reqs
  <2>3. \A y \in {q \in Reqs : req[q].pc = "idle"} : r =< y
    BY <2>1, <2>2, LowestIsThere
  <2> QED
    BY <2>3 DEF Reqs
<1>4. CASE Limited
  <2>1. /\ Empty \in Int /\ Unit \in Nat
        /\ req' = [req EXCEPT ![r] = [pc |-> "reserved", at |-> now, slot |-> SlotNow, began |-> Never]]
    BY <1>4, ArriveInTicks, Rates
  <2>2. SlotNow >= now /\ SlotNow \in Int
    BY <2>1 DEF SlotNow, Types
  <2> QED
    BY <1>1, <1>2, <1>3, <1>4, <2>1, <2>2 DEF Types
<1>5. CASE ~Limited
  <2>1. req' = [req EXCEPT ![r] = [pc |-> "running", at |-> now, slot |-> now, began |-> now]]
    BY <1>5 DEF Arrive
  <2> QED
    BY <1>1, <1>2, <1>3, <1>5, <2>1 DEF Types
<1> QED
  BY <1>4, <1>5

(***************************************************************************)
(* What the other steps do to a request: its times stay, except that it    *)
(* may begin.                                                              *)
(***************************************************************************)
LEMMA OtherSteps ==
  ASSUME Types, Settled, NEW r \in Reqs, Admit(r) \/ Refuse(r) \/ Cancel(r) \/ Return(r) \/ Timeout(r)
  PROVE  /\ \A p \in Reqs \ {r} : req'[p] = req[p]
         /\ req'[r].at = req[r].at /\ req'[r].slot = req[r].slot
         /\ main = "serve" /\ UNCHANGED <<main, cfg, now>>
         /\ req[r].pc \in {"reserved", "refused", "running"}
         /\ \/ /\ req[r].pc = "reserved" /\ req[r].slot =< now
               /\ req'[r].pc = "running" /\ req'[r].began = now
            \/ /\ req[r].pc = "reserved" /\ req[r].slot > now
               /\ req'[r].pc = "refused" /\ req'[r].began = req[r].began
            \/ /\ req[r].pc \in {"refused", "running"}
               /\ req'[r].pc \in {"200", "429", "504", "cut"} /\ req'[r].began = req[r].began
<1>1. CASE Admit(r)
  BY <1>1 DEF Admit, Types
<1>2. CASE Refuse(r)
  BY <1>2 DEF Refuse, Types
<1>3. CASE Cancel(r) \/ Return(r) \/ Timeout(r)
  <2>1. \E status \in {"200", "429", "504"} : Reply(r, status)
    BY <1>3 DEF Cancel, Return, Timeout
  <2>2. PICK c \in {"200", "429", "504", "cut"} : req' = [req EXCEPT ![r].pc = c]
    BY <2>1 DEF Reply
  <2>3. /\ main = "serve" /\ UNCHANGED <<main, cfg, now>> /\ req[r].pc \in {"refused", "running"}
    BY <1>3 DEF Cancel, Return, Timeout, TimedOut
  <2> QED
    BY <2>2, <2>3 DEF Types
<1> QED
  BY <1>1, <1>2, <1>3

LEMMA WaysStep ==
  ASSUME Types, Settled, WholeTokens, Ways, [Next]_vars
  PROVE  Ways'
<1>1. CASE Start
  <2>1. UNCHANGED <<req, now>>
    BY <1>1 DEF Start
  <2> QED
    BY <2>1 DEF Ways, Way, Held
<1>2. CASE Signal \/ Shutdown \/ UNCHANGED vars
  <2>1. UNCHANGED <<req, now>>
    BY <1>2 DEF Signal, Shutdown, vars
  <2> QED
    BY <2>1 DEF Ways, Way, Held
<1>3. CASE Tick
  <2>1. req' = req /\ now' = now + 1
    BY <1>3 DEF Tick
  <2> QED
    BY <2>1 DEF Ways, Way, Held, Types
<1>4. CASE ServeReturns
  <2>1. now' = now /\ \A q \in Reqs : /\ req'[q].at = req[q].at /\ req'[q].slot = req[q].slot
                                      /\ req'[q].began = req[q].began
                                      /\ req'[q].pc = IF InFlight(q) THEN "cut" ELSE req[q].pc
    BY <1>4 DEF ServeReturns, Types
  <2> QED
    BY <2>1 DEF Ways, Way, Held, InFlight
<1>5. ASSUME NEW r \in Reqs, Arrive(r) PROVE Ways'
  <2>1. \A q \in Reqs \ {r} : Way(q)'
    BY <1>5, Arrives DEF Ways, Way, Held
  <2>2. Way(r)'
    BY <1>5, Arrives DEF Way, Held, Types, Never
  <2>3. ASSUME NEW p \in Reqs, NEW q \in Reqs, p < q, req'[q].pc # "idle"
        PROVE  req'[p].pc # "idle" /\ req'[p].at =< req'[q].at
    <3>1. CASE q = r
      BY <1>5, <2>3, <3>1, Arrives DEF Ways, Way, Reqs
    <3>2. CASE q # r
      <4>1. req[q].pc # "idle" /\ p # r
        BY <1>5, <2>3, <3>2, Arrives DEF Ways
      <4> QED
        BY <1>5, <2>3, <3>2, <4>1, Arrives DEF Ways
    <3> QED
      BY <3>1, <3>2
  <2> QED
    BY <2>1, <2>2, <2>3 DEF Ways
<1>6. ASSUME NEW r \in Reqs, Step(r) \/ Return(r) PROVE Ways'
  <2>0. Admit(r) \/ Refuse(r) \/ Cancel(r) \/ Return(r) \/ Timeout(r)
    BY <1>6 DEF Step
  <2>1. \A q \in Reqs \ {r} : Way(q)'
    BY <2>0, OtherSteps DEF Ways, Way, Held
  <2>2. Way(r)'
    <3>1. Way(r) /\ req[r] \in [pc : {"idle", "reserved", "refused", "running", "200", "429", "504", "cut"},
                       at : Nat, slot : Int, began : Nat \cup {Never}] /\ now \in Nat
      BY DEF Ways, Types
    <3> QED
      BY <2>0, <3>1, OtherSteps DEF Way, Held, Never
  <2>3. \A p \in Reqs : req'[p].at = req[p].at /\ (req'[p].pc = "idle" <=> req[p].pc = "idle")
    BY <2>0, OtherSteps
  <2> QED
    BY <2>1, <2>2, <2>3 DEF Ways
<1> QED
  BY <1>1, <1>2, <1>3, <1>4, <1>5, <1>6 DEF Next, Step

-----------------------------------------------------------------------------
(***************************************************************************)
(* The requests that have a token: let through, or with a reservation that *)
(* has not been given back.                                                *)
(***************************************************************************)
Counted == {q \in Reqs : req[q].began # Never \/ Held(q)}
Since(a) == {q \in Counted : req[q].at >= a}
SinceUpTo(a, q) == {p \in Since(a) : p =< q}
After(q) == {p \in Counted : p > q}

LEMMA Counting ==
  /\ \A S \in SUBSET Reqs : Cardinality(S) \in Nat
  /\ \A S \in SUBSET Reqs : \A T \in SUBSET S : Cardinality(T) =< Cardinality(S)
  /\ \A S \in SUBSET Reqs, x \in Reqs : x \notin S => Cardinality(S \cup {x}) = Cardinality(S) + 1
  /\ \A S \in SUBSET Reqs, x \in Reqs : x \in S =>
       Cardinality(S) >= 1 /\ Cardinality(S \ {x}) = Cardinality(S) - 1
  /\ \A S \in SUBSET Reqs : Cardinality(S) = 0 <=> S = {}
<1>1. IsFiniteSet(Reqs)
  BY FS_Interval, ServerConstants DEF Reqs
<1>2. ASSUME NEW S \in SUBSET Reqs PROVE IsFiniteSet(S) /\ Cardinality(S) \in Nat
  BY <1>1, FS_Subset, FS_CardinalityType
<1>3. ASSUME NEW S \in SUBSET Reqs, NEW T \in SUBSET S PROVE Cardinality(T) =< Cardinality(S)
  BY <1>2, FS_Subset
<1>4. ASSUME NEW S \in SUBSET Reqs, NEW x \in Reqs, x \notin S
      PROVE  Cardinality(S \cup {x}) = Cardinality(S) + 1
  BY <1>2, <1>4, FS_AddElement
<1>5. ASSUME NEW S \in SUBSET Reqs, NEW x \in Reqs, x \in S
      PROVE  Cardinality(S) >= 1 /\ Cardinality(S \ {x}) = Cardinality(S) - 1
  <2>1. Cardinality(S \ {x}) = Cardinality(S) - 1
    BY <1>2, <1>5, FS_RemoveElement
  <2>2. Cardinality(S \ {x}) \in Nat /\ Cardinality(S) \in Nat
    BY <1>2
  <2> QED
    BY <2>1, <2>2
<1>6. ASSUME NEW S \in SUBSET Reqs PROVE Cardinality(S) = 0 <=> S = {}
  BY <1>2, FS_EmptySet
<1> QED
  BY <1>2, <1>3, <1>4, <1>5, <1>6

LEMMA CountedAreReqs ==
  /\ Counted \in SUBSET Reqs
  /\ \A a : Since(a) \in SUBSET Reqs
  /\ \A a, q : SinceUpTo(a, q) \in SUBSET Since(a) /\ SinceUpTo(a, q) \in SUBSET Reqs
  /\ \A q : After(q) \in SUBSET Reqs
  BY DEF Counted, Since, SinceUpTo, After

(***************************************************************************)
(* The tokens out since a moment are no more than the burst and the time   *)
(* since have to give, up to when the bucket was empty.                    *)
(***************************************************************************)
BucketBound ==
  Limited => \A a \in Nat : a =< now => a + Unit * Cardinality(Since(a)) =< Empty + Depth

(***************************************************************************)
(* The same, as it was when a request arrived: its slot is no earlier than *)
(* the bucket has tokens for all that had one then and still has.          *)
(***************************************************************************)
SlotBound ==
  Limited => \A q \in Counted, a \in Nat :
    a =< req[q].at => a + Unit * Cardinality(SinceUpTo(a, q)) =< req[q].slot + Depth

(***************************************************************************)
(* A reservation whose slot has still to come can be given back.  As long  *)
(* as there is one, lastEvent is when the bucket was, or will be, empty,   *)
(* and each request that came behind it has moved that by its token, so    *)
(* only the last one in the row gets its token back.                       *)
(***************************************************************************)
Delayed(q) == Held(q) /\ req[q].at < req[q].slot /\ now =< req[q].slot
LastSlot ==
  Limited => \A q \in Reqs : Delayed(q) =>
    /\ lim.lastEvent = Empty
    /\ \E k \in Nat : Empty = req[q].slot + Unit * k /\ Cardinality(After(q)) =< k

Bounds == BucketBound /\ SlotBound /\ LastSlot

HInv == Types /\ Settled /\ WholeTokens /\ Ways /\ Bounds

(***************************************************************************)
(* Reservations may go, or turn into admissions: the bounds stay.          *)
(***************************************************************************)
LEMMA FewerCounted ==
  ASSUME HInv, UNCHANGED <<lim, now, cfg>>, Counted' \subseteq Counted,
         \A q \in Reqs : req'[q].at = req[q].at /\ req'[q].slot = req[q].slot /\ (Held(q)' => Held(q))
  PROVE  Bounds'
<1> SUFFICES ASSUME Limited PROVE Bounds'
  BY QuietInTicks DEF Bounds, BucketBound, SlotBound, LastSlot
<1>1. Unit' = Unit /\ Depth' = Depth /\ Empty' = Empty /\ Limited' = Limited /\ now' = now
  BY QuietInTicks
<1>2. Unit \in Nat /\ Depth \in Nat
  BY Rates DEF HInv
<1>3. \A a, q : /\ Since(a)' \in SUBSET Since(a) /\ SinceUpTo(a, q)' \in SUBSET SinceUpTo(a, q)
                /\ After(q)' \in SUBSET After(q)
  BY CountedAreReqs DEF Since, SinceUpTo, After
<1>4. \A a, q : /\ Cardinality(Since(a)') =< Cardinality(Since(a))
                /\ Cardinality(SinceUpTo(a, q)') =< Cardinality(SinceUpTo(a, q))
                /\ Cardinality(After(q)') =< Cardinality(After(q))
                /\ Cardinality(Since(a)) \in Nat /\ Cardinality(Since(a)') \in Nat
                /\ Cardinality(SinceUpTo(a, q)) \in Nat /\ Cardinality(SinceUpTo(a, q)') \in Nat
                /\ Cardinality(After(q)) \in Nat /\ Cardinality(After(q)') \in Nat
  BY <1>3, CountedAreReqs, Counting
<1>5. Empty \in Int
  BY FilledInTicks DEF HInv, WholeTokens, Empty, Types
<1>6. BucketBound'
  <2> SUFFICES ASSUME NEW a \in Nat, a =< now
               PROVE  a + Unit * Cardinality(Since(a)') =< Empty + Depth
    BY <1>1 DEF BucketBound
  <2>1. a + Unit * Cardinality(Since(a)) =< Empty + Depth
    BY DEF HInv, Bounds, BucketBound
  <2>2. Unit * Cardinality(Since(a)') =< Unit * Cardinality(Since(a))
    BY <1>2, <1>4, TimesMonotone
  <2>3. Unit * Cardinality(Since(a)) \in Int /\ Unit * Cardinality(Since(a)') \in Int
    BY <1>2, <1>4
  <2> QED
    BY <1>2, <1>5, <2>1, <2>2, <2>3
<1>7. SlotBound'
  <2> SUFFICES ASSUME NEW q \in Counted, NEW a \in Nat, a =< req[q].at
               PROVE  a + Unit * Cardinality(SinceUpTo(a, q)') =< req[q].slot + Depth
    BY <1>1, CountedAreReqs DEF SlotBound
  <2>1. a + Unit * Cardinality(SinceUpTo(a, q)) =< req[q].slot + Depth
    BY DEF HInv, Bounds, SlotBound
  <2>2. Unit * Cardinality(SinceUpTo(a, q)') =< Unit * Cardinality(SinceUpTo(a, q))
    BY <1>2, <1>4, TimesMonotone
  <2>3. req[q].slot \in Int
    BY CountedAreReqs DEF HInv, Types
  <2> QED
    BY <1>2, <1>4, <2>1, <2>2, <2>3
<1>8. LastSlot'
  <2> SUFFICES ASSUME NEW q \in Reqs, Delayed(q)'
               PROVE  /\ lim'.lastEvent = Empty'
                      /\ \E k \in Nat : Empty' = req'[q].slot + Unit' * k /\ Cardinality(After(q)') =< k
    BY DEF LastSlot
  <2>1. Delayed(q)
    BY <1>1 DEF Delayed
  <2>2. lim.lastEvent = Empty /\ lim' = lim
    BY <2>1 DEF HInv, Bounds, LastSlot
  <2>3. PICK k \in Nat : Empty = req[q].slot + Unit * k /\ Cardinality(After(q)) =< k
    BY <2>1 DEF HInv, Bounds, LastSlot
  <2>4. Cardinality(After(q)') =< k
    BY <1>4, <2>3
  <2> QED
    BY <1>1, <2>2, <2>3, <2>4
<1> QED
  BY <1>6, <1>7, <1>8 DEF Bounds

LEMMA TickKeepsBounds ==
  ASSUME HInv, Limited, Tick
  PROVE  Bounds'
<1> USE DEF HInv
<1>1. /\ Unit' = Unit /\ Depth' = Depth /\ now' = now + 1
      /\ Empty' = IF Empty < now + 1 - Depth THEN now + 1 - Depth ELSE Empty
  BY TickInTicks
<1>2. /\ Unit \in Nat \ {0} /\ Depth \in Nat \ {0} /\ Empty \in Int /\ now \in Nat
  BY Rates, FilledInTicks DEF WholeTokens, Empty, Types
<1>3. UNCHANGED <<lim, req, cfg>>
  BY DEF Tick, limiter
<1>4. /\ Counted' = Counted /\ \A a : Since(a)' = Since(a)
      /\ \A a, q : SinceUpTo(a, q)' = SinceUpTo(a, q) /\ After(q)' = After(q)
  BY <1>3 DEF Counted, Held, Since, SinceUpTo, After
<1>5. BucketBound'
  <2> SUFFICES ASSUME NEW a \in Nat, a =< now + 1
               PROVE  a + Unit * Cardinality(Since(a)) =< Empty' + Depth
    BY <1>1, <1>4 DEF BucketBound
  <2>1. CASE a =< now
    <3>1. a + Unit * Cardinality(Since(a)) =< Empty + Depth
      BY <2>1 DEF Bounds, BucketBound
    <3>2. Unit * Cardinality(Since(a)) \in Int
      BY <1>2, Counting, CountedAreReqs
    <3> QED
      BY <1>1, <1>2, <3>1, <3>2
  <2>2. CASE a = now + 1
    <3>1. Since(a) = {}
      BY <1>2, <2>2 DEF Since, Counted, Held, Ways, Way, Types
    <3>2. Unit * Cardinality(Since(a)) = 0
      BY <1>2, <3>1, Counting
    <3> QED
      BY <1>1, <1>2, <2>2, <3>2
  <2> QED
    BY <1>2, <2>1, <2>2
<1>6. SlotBound'
  BY <1>1, <1>3, <1>4 DEF Bounds, SlotBound
<1>7. LastSlot'
  <2> SUFFICES ASSUME NEW q \in Reqs, Delayed(q)'
               PROVE  /\ lim'.lastEvent = Empty'
                      /\ \E k \in Nat : Empty' = req'[q].slot + Unit' * k /\ Cardinality(After(q)') =< k
    BY DEF LastSlot
  <2>1. Delayed(q) /\ now + 1 =< req[q].slot /\ req[q].slot \in Int
    BY <1>1, <1>2, <1>3 DEF Delayed, Held, Types
  <2>2. lim.lastEvent = Empty
    BY <2>1 DEF Bounds, LastSlot
  <2>3. PICK k \in Nat : Empty = req[q].slot + Unit * k /\ Cardinality(After(q)) =< k
    BY <2>1 DEF Bounds, LastSlot
  <2>4. Unit * k \in Nat
    BY <1>2
  <2>5. Empty' = Empty
    BY <1>1, <1>2, <2>1, <2>3, <2>4
  <2> QED
    BY <1>1, <1>3, <1>4, <2>2, <2>3, <2>5
<1> QED
  BY <1>5, <1>6, <1>7 DEF Bounds

LEMMA ArrivalKeepsBounds ==
  ASSUME HInv, Limited, NEW r \in Reqs, Arrive(r)
  PROVE  Bounds'
<1> USE DEF HInv
<1>1. /\ Unit' = Unit /\ Depth' = Depth /\ now' = now /\ Empty' = Empty + Unit
      /\ now - Depth =< Empty /\ lim'.lastEvent = SlotNow
      /\ req' = [req EXCEPT ![r] = [pc |-> "reserved", at |-> now, slot |-> SlotNow, began |-> Never]]
  BY ArriveInTicks
<1>2. /\ Unit \in Nat \ {0} /\ Depth \in Nat \ {0} /\ Empty \in Int /\ now \in Nat
  BY Rates, FilledInTicks DEF WholeTokens, Empty, Types
<1>3. /\ SlotNow \in Int /\ SlotNow >= now /\ SlotNow >= Empty + Unit
      /\ (SlotNow > now => SlotNow = Empty + Unit) /\ (Empty >= now => SlotNow = Empty + Unit)
  BY <1>2 DEF SlotNow
<1>4. /\ \A p \in Reqs \ {r} : req'[p] = req[p]
      /\ req'[r].pc = "reserved" /\ req'[r].at = now /\ req'[r].slot = SlotNow /\ req'[r].began = Never
  BY <1>1 DEF Types
<1>5. r \notin Counted /\ \A p \in Counted : p < r
  BY Arrives DEF Counted, Held, Ways, Way, Reqs
<1>6. Counted' = Counted \cup {r}
  BY <1>4 DEF Counted, Held
<1>7. ASSUME NEW a \in Nat, a =< now
      PROVE  Cardinality(Since(a)') = Cardinality(Since(a)) + 1
  <2>1. Since(a)' = Since(a) \cup {r} /\ r \notin Since(a)
    BY <1>4, <1>5, <1>6, <1>7 DEF Since, Counted
  <2> QED
    BY <2>1, Counting, CountedAreReqs
<1>8. ASSUME NEW a \in Nat, a =< now
      PROVE  a + Unit * Cardinality(Since(a)') =< Empty' + Depth
  <2>1. a + Unit * Cardinality(Since(a)) =< Empty + Depth
    BY <1>8 DEF Bounds, BucketBound
  <2>2. Cardinality(Since(a)) \in Nat
    BY Counting, CountedAreReqs
  <2>3. Unit * Cardinality(Since(a)') = Unit * Cardinality(Since(a)) + Unit /\ Unit * Cardinality(Since(a)) \in Int
    BY <1>2, <1>7, <1>8, <2>2
  <2> QED
    BY <1>1, <1>2, <2>1, <2>3
<1>9. BucketBound'
  BY <1>1, <1>8 DEF BucketBound
<1>10. SlotBound'
  <2> SUFFICES ASSUME NEW q \in Counted', NEW a \in Nat, a =< req'[q].at
               PROVE  a + Unit * Cardinality(SinceUpTo(a, q)') =< req'[q].slot + Depth
    BY <1>1 DEF SlotBound
  <2>1. CASE q = r
    <3>1. SinceUpTo(a, q)' \in SUBSET (Since(a)') /\ Since(a)' \in SUBSET Reqs
      BY CountedAreReqs DEF SinceUpTo, Since, Counted
    <3>2. Cardinality(SinceUpTo(a, q)') =< Cardinality(Since(a)')
          /\ Cardinality(SinceUpTo(a, q)') \in Nat /\ Cardinality(Since(a)') \in Nat
      BY <3>1, Counting
    <3>3. Unit * Cardinality(SinceUpTo(a, q)') =< Unit * Cardinality(Since(a)')
      BY <1>2, <3>2, TimesMonotone
    <3>4. Unit * Cardinality(SinceUpTo(a, q)') \in Int /\ Unit * Cardinality(Since(a)') \in Int
      BY <1>2, <3>2
    <3>5. a + Unit * Cardinality(Since(a)') =< Empty' + Depth
      BY <1>4, <1>8, <2>1
    <3> QED
      BY <1>1, <1>2, <1>3, <1>4, <2>1, <3>3, <3>4, <3>5
  <2>2. CASE q # r
    <3>1. q \in Counted /\ req'[q] = req[q] /\ q < r
      BY <1>4, <1>5, <1>6, <2>2 DEF Counted
    <3>2. SinceUpTo(a, q)' = SinceUpTo(a, q)
      BY <1>4, <1>5, <1>6, <3>1 DEF SinceUpTo, Since, Counted, Reqs
    <3> QED
      BY <3>1, <3>2 DEF Bounds, SlotBound
  <2> QED
    BY <2>1, <2>2
<1>11. LastSlot'
  <2> SUFFICES ASSUME NEW q \in Reqs, Delayed(q)'
               PROVE  /\ lim'.lastEvent = Empty'
                      /\ \E k \in Nat : Empty' = req'[q].slot + Unit' * k /\ Cardinality(After(q)') =< k
    BY DEF LastSlot
  <2>1. CASE q = r
    <3>1. SlotNow = Empty + Unit
      BY <1>3, <1>4, <2>1 DEF Delayed
    <3>2. After(q)' = {}
      BY <1>5, <1>6, <2>1 DEF After, Counted, Reqs
    <3>3. Cardinality(After(q)') =< 0
      BY <3>2, Counting
    <3>4. Empty' = req'[q].slot + Unit' * 0
      BY <1>1, <1>2, <1>4, <2>1, <3>1
    <3> QED
      BY <1>1, <3>1, <3>3, <3>4
  <2>2. CASE q # r
    <3>1. Delayed(q) /\ req'[q] = req[q] /\ now =< req[q].slot /\ req[q].slot \in Int
      BY <1>1, <1>4, <2>2 DEF Delayed, Held, Types
    <3>2. PICK k \in Nat : Empty = req[q].slot + Unit * k /\ Cardinality(After(q)) =< k
      BY <3>1 DEF Bounds, LastSlot
    <3>3. Unit * k \in Nat /\ Unit * (k + 1) = Unit * k + Unit
      BY <1>2
    <3>4. SlotNow = Empty + Unit
      BY <1>2, <1>3, <3>1, <3>2, <3>3
    <3>5. After(q)' \in SUBSET (After(q) \cup {r}) /\ r \notin After(q)
      BY <1>5, <1>6 DEF After
    <3>6. Cardinality(After(q) \cup {r}) = Cardinality(After(q)) + 1 /\ After(q) \cup {r} \in SUBSET Reqs
      BY <3>5, Counting, CountedAreReqs
    <3>7. Cardinality(After(q)') =< k + 1
      <4>1. Cardinality(After(q)') =< Cardinality(After(q) \cup {r})
        BY <3>5, <3>6, Counting
      <4>2. Cardinality(After(q)') \in Nat /\ Cardinality(After(q)) \in Nat
        BY <3>5, <3>6, Counting, CountedAreReqs
      <4> QED
        BY <3>2, <3>6, <4>1, <4>2
    <3>8. Empty' = req'[q].slot + Unit' * (k + 1)
      BY <1>1, <1>2, <3>1, <3>2, <3>3
    <3> QED
      BY <1>1, <3>4, <3>7, <3>8
  <2> QED
    BY <2>1, <2>2
<1> QED
  BY <1>9, <1>10, <1>11 DEF Bounds

(***************************************************************************)
(* A reservation that gives its token back is the last in the row, so no   *)
(* request that came behind it counts on that token.                       *)
(***************************************************************************)
LEMMA LastGivesBack ==
  ASSUME HInv, Limited, NEW r \in Reqs, Cancel(r),
         ~(req[r].slot < now \/ lim.lastEvent - req[r].slot >= Unit)
  PROVE  /\ Delayed(r) /\ lim.lastEvent = req[r].slot /\ Empty = req[r].slot /\ After(r) = {}
         /\ Empty' = IF Empty - Unit < now - Depth THEN now - Depth ELSE Empty - Unit
         /\ lim'.lastEvent = IF Empty - Unit >= now THEN Empty - Unit ELSE Empty
<1> USE DEF HInv
<1>1. /\ Unit \in Nat \ {0} /\ now \in Nat /\ req[r].slot \in Int
  BY Rates DEF Types
<1>2. Delayed(r)
  BY <1>1 DEF Cancel, Delayed, Held, Ways, Way
<1>3. lim.lastEvent = Empty
  BY <1>2 DEF Bounds, LastSlot
<1>4. PICK k \in Nat : Empty = req[r].slot + Unit * k /\ Cardinality(After(r)) =< k
  BY <1>2 DEF Bounds, LastSlot
<1>5. k = 0
  <2>1. Unit * k < Unit * 1
    <3>1. Unit * k \in Int
      BY <1>1
    <3> QED
      BY <1>1, <1>3, <1>4, <3>1
  <2> QED
    BY <1>1, <2>1, TimesOrder
<1>6. Unit * k = 0
  BY <1>1, <1>5
<1>7. Empty = req[r].slot
  BY <1>1, <1>4, <1>6
<1>8. After(r) = {}
  BY <1>4, <1>5, Counting, CountedAreReqs
<1> QED
  BY <1>1, <1>2, <1>3, <1>7, <1>8, CancelInTicks

LEMMA CancelKeepsBounds ==
  ASSUME HInv, Limited, NEW r \in Reqs, Cancel(r)
  PROVE  Bounds'
<1> USE DEF HInv
<1>1. /\ Unit' = Unit /\ Depth' = Depth /\ UNCHANGED <<cfg, now>> /\ Limited'
  BY CancelInTicks DEF Limited
<1>2. /\ Unit \in Nat \ {0} /\ Depth \in Nat \ {0} /\ Empty \in Int /\ now \in Nat
  BY Rates, FilledInTicks DEF WholeTokens, Empty, Types
<1>3. /\ \A p \in Reqs \ {r} : req'[p] = req[p]
      /\ req'[r].at = req[r].at /\ req'[r].slot = req[r].slot
      /\ ~Held(r)' /\ req'[r].began = Never /\ Held(r)
  <2>1. req[r].pc = "refused"
    BY DEF Cancel
  <2> QED
    BY <2>1, OtherSteps DEF Held, Ways, Way
<1>4. Counted' = Counted \ {r} /\ r \in Counted
  BY <1>3 DEF Counted, Held
<1>5. CASE req[r].slot < now \/ lim.lastEvent - req[r].slot >= Unit
  <2>1. UNCHANGED lim
    BY <1>5, CancelInTicks
  <2> QED
    BY <1>1, <1>3, <1>4, <2>1, FewerCounted DEF Held
<1>6. CASE ~(req[r].slot < now \/ lim.lastEvent - req[r].slot >= Unit)
  <2>1. /\ lim.lastEvent = Empty /\ Empty = req[r].slot /\ After(r) = {} /\ now =< req[r].slot
        /\ Empty' = IF Empty - Unit < now - Depth THEN now - Depth ELSE Empty - Unit
        /\ lim'.lastEvent = IF Empty - Unit >= now THEN Empty - Unit ELSE Empty
    BY <1>6, LastGivesBack DEF Delayed
  <2>2. BucketBound'
    <3> SUFFICES ASSUME NEW a \in Nat, a =< now
                 PROVE  a + Unit * Cardinality(Since(a)') =< Empty' + Depth
      BY <1>1 DEF BucketBound
    <3>1. CASE req[r].at >= a
      <4>1. Since(a)' = Since(a) \ {r} /\ r \in Since(a)
        BY <1>3, <1>4, <3>1 DEF Since, Counted
      <4>2. /\ Cardinality(Since(a)') = Cardinality(Since(a)) - 1 /\ Cardinality(Since(a)) \in Nat
        BY <4>1, Counting, CountedAreReqs
      <4>3. Unit * Cardinality(Since(a)') = Unit * Cardinality(Since(a)) - Unit
            /\ Unit * Cardinality(Since(a)) \in Int
        BY <1>2, <4>2
      <4>4. a + Unit * Cardinality(Since(a)) =< Empty + Depth
        BY DEF Bounds, BucketBound
      <4> QED
        BY <1>2, <2>1, <4>3, <4>4
    <3>2. CASE ~(req[r].at >= a)
      <4>1. \A p \in Counted : p # r => p < r
        BY <2>1 DEF After, Counted, Reqs
      <4>2. \A p \in Counted' : req'[p].at < a
        <5>1. ASSUME NEW p \in Counted' PROVE req'[p].at < a
          <6>1. p \in Counted /\ p < r /\ req'[p] = req[p] /\ req[p].at =< req[r].at
            BY <1>3, <1>4, <4>1 DEF Counted, Held, Ways
          <6> QED
            BY <3>2, <6>1 DEF Types, Counted
        <5> QED
          BY <5>1
      <4>3. Since(a)' = {}
        BY <4>2, TypesStep DEF Since, Next, Step, Types, Counted
      <4>4. Unit * Cardinality(Since(a)') = 0
        BY <1>2, <4>3, Counting
      <4> QED
        BY <1>2, <2>1, <4>4
    <3> QED
      BY <3>1, <3>2
  <2>3. SlotBound'
    <3> SUFFICES ASSUME NEW q \in Counted', NEW a \in Nat, a =< req'[q].at
                 PROVE  a + Unit * Cardinality(SinceUpTo(a, q)') =< req'[q].slot + Depth
      BY <1>1 DEF SlotBound
    <3>1. q \in Counted /\ req'[q] = req[q] /\ req[q].slot \in Int
      BY <1>3, <1>4 DEF Counted, Types
    <3>2. SinceUpTo(a, q)' \in SUBSET SinceUpTo(a, q)
      BY <1>3, <1>4 DEF SinceUpTo, Since, Counted
    <3>3. /\ Cardinality(SinceUpTo(a, q)') =< Cardinality(SinceUpTo(a, q))
          /\ Cardinality(SinceUpTo(a, q)') \in Nat /\ Cardinality(SinceUpTo(a, q)) \in Nat
      BY <3>2, Counting, CountedAreReqs
    <3>4. /\ Unit * Cardinality(SinceUpTo(a, q)') =< Unit * Cardinality(SinceUpTo(a, q))
          /\ Unit * Cardinality(SinceUpTo(a, q)') \in Int /\ Unit * Cardinality(SinceUpTo(a, q)) \in Int
      BY <1>2, <3>3, TimesMonotone
    <3>5. a + Unit * Cardinality(SinceUpTo(a, q)) =< req[q].slot + Depth
      BY <3>1 DEF Bounds, SlotBound
    <3> QED
      BY <1>2, <3>1, <3>4, <3>5
  <2>4. LastSlot'
    <3> SUFFICES ASSUME NEW q \in Reqs, Delayed(q)'
                 PROVE  /\ lim'.lastEvent = Empty'
                        /\ \E k \in Nat : Empty' = req'[q].slot + Unit' * k /\ Cardinality(After(q)') =< k
      BY DEF LastSlot
    <3>1. q # r /\ req'[q] = req[q] /\ Delayed(q) /\ now =< req[q].slot /\ req[q].slot \in Int
      BY <1>1, <1>3 DEF Delayed, Held, Types
    <3>2. q < r
      BY <2>1, <3>1 DEF After, Counted, Delayed, Reqs
    <3>3. PICK k \in Nat : Empty = req[q].slot + Unit * k /\ Cardinality(After(q)) =< k
      BY <3>1 DEF Bounds, LastSlot
    <3>4. r \in After(q) /\ After(q)' = After(q) \ {r}
      BY <1>4, <3>2 DEF After
    <3>5. /\ Cardinality(After(q)') = Cardinality(After(q)) - 1 /\ Cardinality(After(q)) >= 1
          /\ Cardinality(After(q)) \in Nat
      BY <3>4, Counting, CountedAreReqs
    <3>6. k - 1 \in Nat /\ Cardinality(After(q)') =< k - 1
      BY <3>3, <3>5
    <3>7. Unit * (k - 1) = Unit * k - Unit /\ Unit * (k - 1) \in Nat
      BY <1>2, <3>6
    <3>8. Empty - Unit = req[q].slot + Unit * (k - 1) /\ Empty - Unit >= now
      BY <1>2, <3>1, <3>3, <3>7
    <3>9. Empty' = Empty - Unit /\ lim'.lastEvent = Empty - Unit
      BY <1>2, <2>1, <3>8
    <3> QED
      BY <1>1, <3>1, <3>6, <3>8, <3>9
  <2> QED
    BY <2>2, <2>3, <2>4 DEF Bounds
<1> QED
  BY <1>5, <1>6

LEMMA InitHInv == Init => HInv
<1> SUFFICES ASSUME Init PROVE HInv
  OBVIOUS
<1>1. ~Limited
  BY DEF Init, NoSettings, Limited
<1>2. Ways
  BY DEF Init, Ways, Way, Held, Idle
<1> QED
  BY <1>1, <1>2, InitTypes DEF HInv, WholeTokens, Bounds, BucketBound, SlotBound, LastSlot

LEMMA HInvStep == HInv /\ [Next]_vars => HInv'
<1> SUFFICES ASSUME HInv, [Next]_vars PROVE HInv'
  OBVIOUS
<1>1. Types' /\ Settled' /\ Ways'
  BY TypesStep, SettledStep, WaysStep DEF HInv
<1>2. WholeTokens' /\ Bounds'
  <2> SUFFICES ASSUME Limited' PROVE WholeTokens' /\ Bounds'
    BY DEF WholeTokens, Bounds, BucketBound, SlotBound, LastSlot
  <2>1. CASE Start
    <3>1. /\ now' = 0 /\ Empty' = 0 - Depth' /\ Depth' \in Nat \ {0} /\ Unit' \in Nat \ {0}
          /\ WholeTokens' /\ \A r \in Reqs : req'[r] = Idle
      BY <2>1, StartInTicks DEF HInv
    <3>2. Counted' = {}
      BY <3>1 DEF Counted, Held, Idle
    <3>3. \A a : Unit' * Cardinality(Since(a)') = 0
      BY <3>1, <3>2, Counting DEF Since
    <3>4. BucketBound'
      BY <3>1, <3>3 DEF BucketBound
    <3>5. SlotBound' /\ LastSlot'
      BY <3>1, <3>2 DEF SlotBound, LastSlot, Delayed, Held, Idle
    <3> QED
      BY <3>1, <3>4, <3>5 DEF Bounds
  <2>2. CASE ~Start
    <3>1. cfg' = cfg /\ Limited
      BY <2>2 DEF Next, Step, Signal, Shutdown, ServeReturns, Tick, Arrive, Admit, Refuse, Cancel,
                  Timeout, Return, vars, Limited
    <3>2. CASE Tick
      BY <3>1, <3>2, TickInTicks, TickKeepsBounds DEF HInv
    <3>3. ASSUME NEW r \in Reqs, Arrive(r) PROVE WholeTokens' /\ Bounds'
      BY <3>1, <3>3, ArriveInTicks, ArrivalKeepsBounds DEF HInv
    <3>4. ASSUME NEW r \in Reqs, Cancel(r) PROVE WholeTokens' /\ Bounds'
      BY <3>1, <3>4, CancelInTicks, CancelKeepsBounds DEF HInv
    <3>5. ASSUME NEW r \in Reqs, Admit(r) \/ Refuse(r) \/ Return(r) \/ Timeout(r)
          PROVE  WholeTokens' /\ Bounds'
      <4>1. UNCHANGED <<lim, now, cfg>>
        BY <3>5 DEF Admit, Refuse, Return, Timeout, limiter
      <4>2. /\ \A q \in Reqs : req'[q].at = req[q].at /\ req'[q].slot = req[q].slot /\ (Held(q)' => Held(q))
            /\ Counted' \subseteq Counted
        BY <3>5, OtherSteps DEF HInv, Held, Counted, Ways, Way
      <4> QED
        BY <4>1, <4>2, QuietInTicks, FewerCounted DEF HInv
    <3>6. CASE ServeReturns
      <4>1. UNCHANGED <<lim, now, cfg>>
        BY <3>6 DEF ServeReturns, limiter
      <4>2. \A q \in Reqs : /\ req'[q].at = req[q].at /\ req'[q].slot = req[q].slot
                            /\ req'[q].began = req[q].began
                            /\ (Held(q)' => Held(q))
        BY <3>6 DEF HInv, Types, ServeReturns, InFlight, Held
      <4>3. Counted' \subseteq Counted
        BY <4>2 DEF Counted
      <4> QED
        BY <4>1, <4>2, <4>3, QuietInTicks, FewerCounted DEF HInv
    <3>7. CASE Signal \/ Shutdown \/ UNCHANGED vars
      <4>1. UNCHANGED <<lim, now, cfg, req>>
        BY <3>7 DEF Signal, Shutdown, limiter, vars
      <4>2. Counted' = Counted
        BY <4>1 DEF Counted, Held
      <4> QED
        BY <4>1, <4>2, QuietInTicks, FewerCounted DEF HInv, Held
    <3> QED
      BY <2>2, <3>2, <3>3, <3>4, <3>5, <3>6, <3>7 DEF Next, Step
  <2> QED
    BY <2>1, <2>2
<1> QED
  BY <1>1, <1>2 DEF HInv

-----------------------------------------------------------------------------
LEMMA MaxWithZero ==
  ASSUME NEW x \in Int
  PROVE  Max({0, x}) = IF x > 0 THEN x ELSE 0
<1>1. \E m \in {0, x} : \A y \in {0, x} : m >= y
  OBVIOUS
<1>2. Max({0, x}) \in {0, x} /\ \A y \in {0, x} : Max({0, x}) >= y
  BY <1>1 DEF Max
<1> QED
  BY <1>2

LEMMA BudgetHolds == HInv => AdmittedWithinBudget
<1> SUFFICES ASSUME HInv, Limited, NEW r \in Admitted, NEW s \in Admitted
             PROVE  Cardinality({q \in Admitted : req[q].at >= req[r].at /\ req[q].began <= req[s].began}) * Second
                      <= cfg.burst * Second + cfg.rps * Max({0, req[s].began - req[r].at})
  BY DEF AdmittedWithinBudget
<1> DEFINE within == {q \in Admitted : req[q].at >= req[r].at /\ req[q].began <= req[s].began}
           a == req[r].at
           room == Max({0, req[s].began - req[r].at})
<1>1. /\ Unit \in Nat \ {0} /\ Depth \in Nat \ {0} /\ cfg.rps \in Nat \ {0}
      /\ Second = cfg.rps * Unit /\ cfg.burst * Second = cfg.rps * Depth
  BY Rates DEF HInv
<1>2. /\ Admitted \in SUBSET Reqs /\ Admitted \subseteq Counted
      /\ \A q \in Admitted : req[q].at \in Nat /\ req[q].slot \in Int /\ req[q].began \in Nat
  BY DEF Admitted, Counted, HInv, Types
<1>3. room \in Nat /\ room >= req[s].began - a
  BY <1>2, MaxWithZero
<1>4. within \in SUBSET Reqs /\ Cardinality(within) \in Nat
  BY <1>2, Counting
<1> HIDE DEF room
<1>5. Unit * Cardinality(within) =< Depth + room
  <2>1. CASE within = {}
    <3>1. Cardinality(within) = 0
      BY <2>1, <1>4, Counting
    <3> QED
      BY <1>1, <1>3, <3>1
  <2>2. CASE within # {}
    <3>1. PICK m \in within : \A y \in within : y =< m
      BY <1>4, <2>2, HighestIsThere
    <3>2. within \in SUBSET SinceUpTo(a, m)
      BY <1>2, <3>1 DEF SinceUpTo, Since
    <3>3. /\ Cardinality(within) =< Cardinality(SinceUpTo(a, m)) /\ Cardinality(SinceUpTo(a, m)) \in Nat
      BY <3>2, Counting, CountedAreReqs
    <3>4. a + Unit * Cardinality(SinceUpTo(a, m)) =< req[m].slot + Depth
      BY <1>2, <3>1 DEF HInv, Bounds, SlotBound
    <3>5. req[m].slot =< req[m].began /\ req[m].began =< req[s].began
      BY <1>2, <3>1 DEF Admitted, HInv, Ways, Way
    <3>6. /\ Unit * Cardinality(within) =< Unit * Cardinality(SinceUpTo(a, m))
          /\ Unit * Cardinality(within) \in Int /\ Unit * Cardinality(SinceUpTo(a, m)) \in Int
      BY <1>1, <1>4, <3>3, TimesMonotone
    <3>7. a \in Nat /\ req[m].slot \in Int /\ req[m].began \in Nat /\ req[s].began \in Nat
      BY <1>2, <3>1
    <3> HIDE DEF a, within
    <3> QED
      BY <1>1, <1>3, <3>4, <3>5, <3>6, <3>7
  <2> QED
    BY <2>1, <2>2
<1> HIDE DEF within, a
<1>6. cfg.rps * (Unit * Cardinality(within)) =< cfg.rps * (Depth + room)
  BY <1>1, <1>3, <1>4, <1>5, TimesMonotone
<1>7. Cardinality(within) * Second = cfg.rps * (Unit * Cardinality(within))
  BY <1>1, <1>4
<1>8. cfg.burst * Second + cfg.rps * room = cfg.rps * (Depth + room)
  BY <1>1, <1>3
<1>9. Cardinality(within) * Second <= cfg.burst * Second + cfg.rps * room
  BY <1>6, <1>7, <1>8
<1> QED
  BY <1>9 DEF within, room, a

(***************************************************************************)
(* However requests race through the limiter, reserving, being refused and *)
(* giving back in any order, those let through are no more than the burst  *)
(* and what the rate adds.  The invariant counts the tokens that are out,  *)
(* admitted or reserved, against the moment at which the bucket was empty; *)
(* it is inductive because a reservation that gives its token back is the  *)
(* last in the row (LastSlot).                                             *)
(***************************************************************************)
THEOREM RateIsKept == Spec => []AdmittedWithinBudget
<1>1. HInv /\ [Next]_vars => HInv'
  BY HInvStep
<1> QED
  BY <1>1, InitHInv, BudgetHolds, PTL DEF Spec

(***************************************************************************)
(* The request timeout ends a handler's time, and the clock waits for it;  *)
(* the binary without one sets no write deadline either.                   *)
(***************************************************************************)
WithinLimit ==
  main = "serve" /\ cfg.request # Unset =>
    \A q \in Reqs : req[q].pc = "running" => now =< req[q].began + TimeLimit

NoDeadline == cfg.request = Unset => cfg.write = 0

LEMMA LimitIsNat ==
  ASSUME Types, cfg.request # Unset
  PROVE  TimeLimit \in Nat
  BY GivenSettings DEF Types, TimeLimit

LEMMA NoDeadlineInMcp ==
  ASSUME NEW raw \in Raws, Accepted(raw), Settings(raw).request = Unset
  PROVE  Settings(raw).write = 0
<1>1. CASE raw.binary = "server"
  <2>1. Settings(raw).request = Effective(raw.request, DefaultRequestTimeout)
    BY <1>1 DEF Settings, ServerSettings
  <2>2. raw.request.flag \in Int \cup {Unset} /\ raw.request.env \in Int \cup {Unset, BadValue}
    BY GivenSettings
  <2>3. Effective(raw.request, DefaultRequestTimeout) # Unset
    BY <2>2, GivenSettings DEF Effective
  <2> QED
    BY <2>1, <2>3
<1>2. CASE raw.binary # "server"
  BY <1>2 DEF Settings, McpSettings
<1> QED
  BY <1>1, <1>2

(***************************************************************************)
(* What a cut request must have waited.                                    *)
(***************************************************************************)
Waited(q) == IF q \in Admitted THEN (req[q].began - req[q].at) + TimeLimit ELSE now - req[q].at
Due == \A q \in Reqs : req[q].pc = "cut" /\ main = "serve" => cfg.write > 0 /\ cfg.write =< Waited(q)

LEMMA DueIsTheProperty == Due <=> OnlyDueCuts
  BY DEF Due, OnlyDueCuts, Waited, TimeLimit

LEMMA CutsStep ==
  ASSUME HInv, WithinLimit, NoDeadline, Due, [Next]_vars
  PROVE  WithinLimit' /\ NoDeadline' /\ Due'
<1> USE DEF HInv
<1>1. CASE Start
  <2>1. \A q \in Reqs : req'[q] = Idle
    BY <1>1 DEF Start, Settled
  <2>2. NoDeadline'
    BY <1>1, NoDeadlineInMcp DEF Start, NoDeadline
  <2> QED
    BY <2>1, <2>2 DEF Idle, WithinLimit, Due
<1> SUFFICES ASSUME ~Start PROVE WithinLimit' /\ NoDeadline' /\ Due'
  BY <1>1
<1>2. cfg' = cfg /\ TimeLimit' = TimeLimit
  BY DEF Next, Step, Signal, Shutdown, ServeReturns, Tick, Arrive, Admit, Refuse, Cancel,
         Timeout, TimedOut, Return, vars, TimeLimit
<1>3. NoDeadline'
  BY <1>2 DEF NoDeadline
<1> SUFFICES ASSUME main' = "serve" PROVE WithinLimit' /\ Due'
  BY <1>3 DEF WithinLimit, Due
<1>4. main = "serve" /\ ~ServeReturns
  BY DEF Next, Step, Signal, Shutdown, ServeReturns, Tick, Arrive, Admit, Refuse, Cancel,
         Timeout, TimedOut, Return, vars
<1>5. now \in Nat /\ cfg.write \in Int /\ (cfg.request # Unset => TimeLimit \in Nat)
  BY LimitIsNat DEF Types
<1>6. ASSUME NEW q \in Reqs, req'[q] = req[q], now' = now
      PROVE  /\ cfg.request # Unset /\ req'[q].pc = "running" => now' =< req'[q].began + TimeLimit
             /\ req'[q].pc = "cut" => cfg.write > 0 /\ cfg.write =< Waited(q)'
  <2>1. Waited(q)' = Waited(q)
    BY <1>2, <1>6 DEF Waited, Admitted
  <2> QED
    BY <1>4, <1>6, <2>1 DEF WithinLimit, Due
<1>7. CASE Tick
  <2>1. req' = req /\ now' = now + 1 /\ \A q \in Reqs : ~TimedOut(q)
    BY <1>7 DEF Tick
  <2>2. ASSUME NEW q \in Reqs, cfg.request # Unset, req[q].pc = "running"
        PROVE  now + 1 =< req[q].began + TimeLimit
    BY <1>4, <1>5, <2>1, <2>2 DEF TimedOut, Types, Ways, Way, Never
  <2>3. ASSUME NEW q \in Reqs, req[q].pc = "cut" PROVE cfg.write > 0 /\ cfg.write =< Waited(q)'
    <3>1. cfg.write > 0 /\ cfg.write =< Waited(q) /\ req[q].at \in Nat
      BY <1>4, <2>3 DEF Due, Types
    <3>2. CASE q \in Admitted
      BY <1>2, <2>1, <3>1, <3>2 DEF Waited, Admitted
    <3>3. CASE q \notin Admitted
      <4>1. q \notin Admitted'
        BY <2>1, <3>3 DEF Admitted
      <4>2. Waited(q) = now - req[q].at /\ Waited(q)' = now' - req'[q].at
        BY <3>3, <4>1 DEF Waited
      <4> QED
        BY <1>5, <2>1, <3>1, <4>2
    <3> QED
      BY <3>2, <3>3
  <2> QED
    BY <1>2, <2>1, <2>2, <2>3 DEF WithinLimit, Due
<1>8. CASE Signal \/ Shutdown \/ UNCHANGED vars
  <2>1. req' = req /\ now' = now
    BY <1>8 DEF Signal, Shutdown, vars
  <2> QED
    BY <1>2, <1>6, <2>1 DEF WithinLimit, Due
<1>9. ASSUME NEW r \in Reqs, Arrive(r) PROVE WithinLimit' /\ Due'
  <2>1. req'[r].pc # "cut" /\ now' = now /\ (req'[r].pc = "running" => req'[r].began = now)
    BY <1>9, Arrives
  <2>2. \A q \in Reqs \ {r} : req'[q] = req[q]
    BY <1>9, Arrives
  <2> QED
    BY <1>2, <1>5, <1>6, <2>1, <2>2 DEF WithinLimit, Due
<1>10. ASSUME NEW r \in Reqs, Admit(r) \/ Refuse(r) \/ Cancel(r) \/ Return(r) \/ Timeout(r)
       PROVE  WithinLimit' /\ Due'
  <2>1. cfg.request # Unset /\ req'[r].pc = "running" => now =< req'[r].began + TimeLimit
    BY <1>5, <1>10, OtherSteps
  <2>2. now' = now /\ \A q \in Reqs : q # r => req'[q] = req[q]
    BY <1>10, OtherSteps
  <2>3. ASSUME req'[r].pc = "cut" PROVE cfg.write > 0 /\ cfg.write =< Waited(r)'
    <3>1. /\ req[r].pc \in {"refused", "running"} /\ Late(r)
          /\ req'[r].began = req[r].began /\ req'[r].at = req[r].at
      BY <1>10, <2>3 DEF Admit, Refuse, Cancel, Return, Timeout, TimedOut, Reply, Types
    <3>2. Waited(r)' = Waited(r)
      BY <1>2, <2>2, <3>1 DEF Waited, Admitted
    <3>3. cfg.write > 0 /\ now >= req[r].at + cfg.write /\ req[r].at \in Nat
      BY <3>1 DEF Late, Types
    <3>4. CASE r \notin Admitted
      BY <1>5, <3>2, <3>3, <3>4 DEF Waited
    <3>5. CASE r \in Admitted
      <4>1. req[r].pc = "running" /\ req[r].began \in Nat
        <5>1. req[r].began # Never
          BY <3>5 DEF Admitted
        <5>2. req[r].pc # "refused"
          BY <5>1 DEF Ways, Way, Held
        <5> QED
          BY <3>1, <5>1, <5>2 DEF Types
      <4>2. cfg.request # Unset
        BY <1>5, <3>3 DEF NoDeadline
      <4>3. now =< req[r].began + TimeLimit
        BY <1>4, <4>1, <4>2 DEF WithinLimit
      <4> QED
        BY <1>5, <3>2, <3>3, <3>5, <4>1, <4>2, <4>3 DEF Waited
    <3> QED
      BY <3>4, <3>5
  <2> QED
    BY <1>2, <1>6, <2>1, <2>2, <2>3 DEF WithinLimit, Due
<1> QED
  BY <1>4, <1>7, <1>8, <1>9, <1>10 DEF Next, Step

(***************************************************************************)
(* While the process serves, a client loses its answer only where the      *)
(* write deadline is no longer than what the request may take: its wait    *)
(* for admission and the request timeout, or the time it was in the        *)
(* limiter when that refused it.  The invariant WithinLimit says that no   *)
(* handler outlasts the request timeout, NoDeadline that the binary        *)
(* without this timeout cuts nobody.                                       *)
(***************************************************************************)
THEOREM CutsAreDue == Spec => []OnlyDueCuts
<1>1. Init => WithinLimit /\ NoDeadline /\ Due
  BY GivenSettings DEF Init, WithinLimit, NoDeadline, NoSettings, Due
<1>2. (HInv /\ WithinLimit /\ NoDeadline /\ Due) /\ [Next]_vars => (HInv /\ WithinLimit /\ NoDeadline /\ Due)'
  BY HInvStep, CutsStep
<1>3. Due <=> OnlyDueCuts
  BY DueIsTheProperty
<1> QED
  BY <1>1, <1>2, <1>3, InitHInv, PTL DEF Spec

-----------------------------------------------------------------------------
(***************************************************************************)
(* The bucket of the admitted requests alone, step by step.  Its recursive *)
(* definition means something because there is such a function on each     *)
(* initial part of the requests: a least part without one would have one.  *)
(***************************************************************************)
FirstBucket == [tokens |-> cfg.burst * Second, last |-> 0]
Taken(bucket, n) ==
  IF n \in Admitted
  THEN [tokens |-> Filled(bucket, req[n].at) - Second, last |-> req[n].at]
  ELSE bucket

LEMMA BucketsExist ==
  ASSUME NEW m \in 0..NumReqs
  PROVE  \E f : f = [n \in 0..m |-> IF n = 0 THEN FirstBucket ELSE Taken(f[n - 1], n)]
<1> DEFINE Has(k) == \E f : f = [n \in 0..k |-> IF n = 0 THEN FirstBucket ELSE Taken(f[n - 1], n)]
           Bad == {k \in 0..NumReqs : ~Has(k)}
<1>1. SUFFICES ASSUME Bad # {} PROVE FALSE
  OBVIOUS
<1>2. Bad \in SUBSET Nat
  BY ServerConstants
<1>3. PICK k \in Bad : \A y \in Bad : k =< y
  <2> HIDE DEF Bad
  <2> QED
    BY <1>1, <1>2, LowestIsThere
<1>4. Has(0)
  <2>1. [n \in 0..0 |-> FirstBucket] = [n \in 0..0 |-> IF n = 0 THEN FirstBucket
                                         ELSE Taken([x \in 0..0 |-> FirstBucket][n - 1], n)]
    OBVIOUS
  <2> QED
    BY <2>1
<1>5. k # 0 /\ k - 1 \in 0..NumReqs /\ ~(k - 1 \in Bad)
  <2>1. k # 0
    BY <1>4
  <2>2. k \in 0..NumReqs
    OBVIOUS
  <2>3. k - 1 \in 0..NumReqs /\ ~(k =< k - 1)
    BY <2>1, <2>2, ServerConstants
  <2> HIDE DEF Bad
  <2> QED
    BY <1>3, <2>1, <2>3
<1>6. PICK f : f = [n \in 0..(k - 1) |-> IF n = 0 THEN FirstBucket ELSE Taken(f[n - 1], n)]
  <2>1. Has(k - 1)
    BY <1>5
  <2> QED
    BY <2>1
<1> DEFINE g == [n \in 0..k |-> IF n = k THEN Taken(f[k - 1], k) ELSE f[n]]
<1>7. ASSUME NEW n \in 0..k
      PROVE  g[n] = IF n = 0 THEN FirstBucket ELSE Taken(g[n - 1], n)
  <2>1. CASE n = k
    <3>1. g[n] = Taken(f[k - 1], k) /\ g[n - 1] = f[k - 1]
      BY <1>5, <2>1
    <3> QED
      BY <1>5, <2>1, <3>1
  <2>2. CASE n # k /\ n = 0
    BY <1>5, <1>6, <2>2
  <2>3. CASE n # k /\ n # 0
    <3>1. n \in 0..(k - 1) /\ n - 1 \in 0..k /\ n - 1 # k
      BY <1>5, <2>3
    <3>2. g[n] = f[n] /\ g[n - 1] = f[n - 1]
      BY <2>3, <3>1
    <3>3. f[n] = Taken(f[n - 1], n)
      BY <1>6, <2>3, <3>1
    <3> HIDE DEF g
    <3> QED
      BY <2>3, <3>2, <3>3
  <2> QED
    BY <2>1, <2>2, <2>3
<1>8. g = [n \in 0..k |-> IF n = 0 THEN FirstBucket ELSE Taken(g[n - 1], n)]
  <2>1. g = [n \in 0..k |-> g[n]]
    OBVIOUS
  <2> HIDE DEF g
  <2> QED
    BY <1>7, <2>1
<1>9. Has(k)
  <2> HIDE DEF g
  <2> QED
    BY <1>8
<1> QED
  BY <1>3, <1>9

LEMMA AdmittedOnlyUnfolds ==
  /\ AdmittedOnly[0] = FirstBucket
  /\ \A n \in Reqs : AdmittedOnly[n] = Taken(AdmittedOnly[n - 1], n)
<1>1. NumReqs \in 0..NumReqs
  BY ServerConstants
<1>2. \E f : f = [n \in 0..NumReqs |-> IF n = 0 THEN FirstBucket ELSE Taken(f[n - 1], n)]
  BY <1>1, BucketsExist
<1>3. AdmittedOnly = [n \in 0..NumReqs |-> IF n = 0 THEN FirstBucket ELSE Taken(AdmittedOnly[n - 1], n)]
  BY <1>2 DEF AdmittedOnly, FirstBucket, Taken
<1> HIDE DEF AdmittedOnly
<1> QED
  BY <1>3, ServerConstants DEF Reqs

(***************************************************************************)
(* When that bucket was empty.  Each admitted request moves this moment    *)
(* ahead by Unit, from Depth before its arrival at the earliest, so that   *)
(* some row of admitted requests without a gap accounts for it.            *)
(***************************************************************************)
EmptyAfter(n) == AdmittedOnly[n].last - AdmittedOnly[n].tokens \div cfg.rps
Row(p, n) == {q \in Admitted : p =< q /\ q =< n}

DueBucket(n) ==
  /\ AdmittedOnly[n].tokens \in Int /\ AdmittedOnly[n].last \in Nat /\ Whole(AdmittedOnly[n])

RowBounds(n) ==
  /\ \A p \in Admitted : p =< n => req[p].at + Unit * Cardinality(Row(p, n)) =< EmptyAfter(n) + Depth
  /\ \/ EmptyAfter(n) + Depth = 0
     \/ \E p \in Admitted : p =< n /\ EmptyAfter(n) + Depth = req[p].at + Unit * Cardinality(Row(p, n))

LEMMA AdmittedAreReqs ==
  ASSUME HInv
  PROVE  /\ Admitted \in SUBSET Reqs /\ Admitted \subseteq Counted
         /\ \A q \in Admitted : req[q].at \in Nat /\ req[q].at =< now
         /\ \A p, q \in Admitted : p =< q => req[p].at =< req[q].at
<1>1. /\ Admitted \in SUBSET Reqs /\ Admitted \subseteq Counted
      /\ \A q \in Admitted : req[q].at \in Nat /\ req[q].pc # "idle"
  BY DEF Admitted, Counted, HInv, Types, Ways, Way
<1>2. \A q \in Admitted : req[q].at =< now
  BY <1>1 DEF HInv, Ways, Way
<1>3. ASSUME NEW p \in Admitted, NEW q \in Admitted, p =< q PROVE req[p].at =< req[q].at
  <2>1. CASE p = q
    BY <1>1, <2>1
  <2>2. CASE p # q
    <3>1. p < q
      BY <1>1, <1>3, <2>2 DEF Reqs
    <3> QED
      BY <1>1, <3>1 DEF HInv, Ways
  <2> QED
    BY <2>1, <2>2
<1> QED
  BY <1>1, <1>2, <1>3

LEMMA TakenInTicks ==
  ASSUME HInv, Limited, NEW n \in Admitted, DueBucket(n - 1)
  PROVE  /\ DueBucket(n) /\ EmptyAfter(n - 1) \in Int
         /\ EmptyAfter(n) = Unit + (IF EmptyAfter(n - 1) < req[n].at - Depth THEN req[n].at - Depth
                                    ELSE EmptyAfter(n - 1))
<1> DEFINE b == AdmittedOnly[n - 1]
           at == req[n].at
           e == EmptyOf(b, at)
<1>1. at \in Nat /\ n \in Reqs
  BY AdmittedAreReqs
<1>2. AdmittedOnly[n] = [tokens |-> Filled(b, at) - Second, last |-> at]
  BY <1>1, AdmittedOnlyUnfolds DEF Taken
<1>3. e \in Int /\ Filled(b, at) = cfg.rps * (at - e)
  BY <1>1, FilledInTicks DEF HInv, DueBucket
<1>4. EmptyAfter(n - 1) \in Int
  BY Rates DEF HInv, DueBucket, EmptyAfter
<1>5. e = IF EmptyAfter(n - 1) < at - Depth THEN at - Depth ELSE EmptyAfter(n - 1)
  BY DEF EmptyOf, EmptyAfter
<1> HIDE DEF b, at, e
<1>6. AdmittedOnly[n].tokens = cfg.rps * (at - e - Unit) /\ AdmittedOnly[n].last = at
  BY <1>1, <1>2, <1>3, Rates DEF HInv
<1>7. AdmittedOnly[n].tokens \div cfg.rps = at - e - Unit
  BY <1>1, <1>3, <1>6, DivideWhole, Rates DEF HInv
<1>8. DueBucket(n)
  BY <1>1, <1>3, <1>6, <1>7, Rates DEF HInv, DueBucket, Whole
<1>9. EmptyAfter(n) = Unit + e
  BY <1>1, <1>3, <1>6, <1>7, Rates DEF HInv, EmptyAfter
<1> QED
  BY <1>4, <1>5, <1>8, <1>9 DEF at

LEMMA RowGrows ==
  ASSUME HInv, Limited, NEW n \in Admitted, DueBucket(n - 1), RowBounds(n - 1)
  PROVE  RowBounds(n)
<1>1. /\ EmptyAfter(n - 1) \in Int
      /\ EmptyAfter(n) = Unit + (IF EmptyAfter(n - 1) < req[n].at - Depth THEN req[n].at - Depth
                                 ELSE EmptyAfter(n - 1))
  BY TakenInTicks
<1>2. /\ Unit \in Nat \ {0} /\ Depth \in Nat \ {0} /\ n \in Nat
      /\ \A q \in Admitted : req[q].at \in Nat /\ q \in Nat
  BY Rates, AdmittedAreReqs, ServerConstants DEF HInv, Reqs
<1>3. Cardinality(Row(n, n)) = 1
  <2>0. n \in Reqs /\ \A q \in Admitted : n =< q /\ q =< n <=> q = n
    BY <1>2, AdmittedAreReqs
  <2>1. Row(n, n) = {} \cup {n} /\ {} \in SUBSET Reqs /\ n \in Reqs
    BY <2>0 DEF Row
  <2>2. Cardinality({}) = 0
    BY <2>1, Counting
  <2> QED
    BY <2>1, <2>2, Counting
<1>4. ASSUME NEW p \in Admitted, p =< n - 1
      PROVE  /\ Cardinality(Row(p, n - 1)) \in Nat
             /\ Unit * Cardinality(Row(p, n)) = Unit * Cardinality(Row(p, n - 1)) + Unit
  <2>0. p =< n /\ ~(n =< n - 1) /\ \A q \in Admitted : q =< n <=> q =< n - 1 \/ q = n
    BY <1>2, <1>4
  <2>1. Row(p, n) = Row(p, n - 1) \cup {n} /\ n \notin Row(p, n - 1)
    BY <2>0 DEF Row
  <2>2. Row(p, n - 1) \in SUBSET Reqs /\ n \in Reqs
    BY AdmittedAreReqs DEF Row
  <2>3. Cardinality(Row(p, n)) = Cardinality(Row(p, n - 1)) + 1 /\ Cardinality(Row(p, n - 1)) \in Nat
    BY <2>1, <2>2, Counting
  <2> QED
    BY <1>2, <2>3
<1>5. Unit * Cardinality(Row(n, n)) = Unit
  BY <1>2, <1>3
<1>6. ASSUME NEW p \in Admitted, p =< n
      PROVE  req[p].at + Unit * Cardinality(Row(p, n)) =< EmptyAfter(n) + Depth
  <2>1. CASE p = n
    BY <1>1, <1>2, <1>5, <2>1
  <2>2. CASE p # n
    <3>1. p =< n - 1
      BY <1>2, <1>6, <2>2
    <3>2. req[p].at + Unit * Cardinality(Row(p, n - 1)) =< EmptyAfter(n - 1) + Depth
      BY <3>1 DEF RowBounds
    <3>3. Unit * Cardinality(Row(p, n - 1)) \in Int
      BY <1>2, <1>4, <3>1
    <3> QED
      BY <1>1, <1>2, <1>4, <3>1, <3>2, <3>3
  <2> QED
    BY <2>1, <2>2
<1>7. \/ EmptyAfter(n) + Depth = 0
      \/ \E p \in Admitted : p =< n /\ EmptyAfter(n) + Depth = req[p].at + Unit * Cardinality(Row(p, n))
  <2>1. CASE EmptyAfter(n - 1) + Depth < req[n].at \/ EmptyAfter(n - 1) + Depth = 0
    <3>1. EmptyAfter(n) + Depth = req[n].at + Unit * Cardinality(Row(n, n))
      BY <1>1, <1>2, <1>5, <2>1
    <3> QED
      BY <1>2, <3>1
  <2>2. CASE ~(EmptyAfter(n - 1) + Depth < req[n].at \/ EmptyAfter(n - 1) + Depth = 0)
    <3>1. PICK p \in Admitted : /\ p =< n - 1
                                /\ EmptyAfter(n - 1) + Depth = req[p].at + Unit * Cardinality(Row(p, n - 1))
      BY <2>2 DEF RowBounds
    <3>2. p =< n /\ p \in Nat
      BY <1>2, <3>1
    <3>3. /\ Cardinality(Row(p, n - 1)) \in Nat
          /\ Unit * Cardinality(Row(p, n)) = Unit * Cardinality(Row(p, n - 1)) + Unit
      BY <1>4, <3>1
    <3>4. Unit * Cardinality(Row(p, n - 1)) \in Int /\ req[p].at \in Nat
      BY <1>2, <3>3
    <3>5. EmptyAfter(n) + Depth = req[p].at + Unit * Cardinality(Row(p, n))
      <4> DEFINE x == Unit * Cardinality(Row(p, n - 1))
                 y == Unit * Cardinality(Row(p, n))
      <4>1. x \in Int /\ y = x + Unit /\ EmptyAfter(n - 1) + Depth = req[p].at + x
        BY <3>1, <3>3, <3>4
      <4> HIDE DEF x, y
      <4>2. EmptyAfter(n) + Depth = req[p].at + y
        BY <1>1, <1>2, <2>2, <3>4, <4>1
      <4> QED
        BY <4>2 DEF y
    <3> QED
      BY <3>2, <3>5
  <2> QED
    BY <2>1, <2>2
<1> QED
  BY <1>6, <1>7 DEF RowBounds

(***************************************************************************)
(* The bounds hold after every request: one of which they do not has a     *)
(* least number.                                                           *)
(***************************************************************************)
LEMMA RowsAreBounded ==
  ASSUME HInv, Limited, NEW m \in 0..NumReqs
  PROVE  DueBucket(m) /\ RowBounds(m)
<1> DEFINE Bad == {n \in 0..NumReqs : ~(DueBucket(n) /\ RowBounds(n))}
<1>1. SUFFICES ASSUME Bad # {} PROVE FALSE
  OBVIOUS
<1>2. Bad \in SUBSET Nat
  BY ServerConstants
<1>3. PICK n \in Bad : \A y \in Bad : n =< y
  <2> HIDE DEF Bad
  <2> QED
    BY <1>1, <1>2, LowestIsThere
<1>4. n \in 0..NumReqs /\ ~(DueBucket(n) /\ RowBounds(n))
  OBVIOUS
<1>5. DueBucket(0) /\ RowBounds(0)
  <2>1. AdmittedOnly[0] = [tokens |-> cfg.rps * Depth, last |-> 0]
    BY AdmittedOnlyUnfolds, Rates DEF FirstBucket, HInv
  <2>2. AdmittedOnly[0].tokens \div cfg.rps = Depth
    BY <2>1, DivideWhole, Rates DEF HInv
  <2>3. DueBucket(0) /\ EmptyAfter(0) + Depth = 0
    BY <2>1, <2>2, Rates DEF HInv, DueBucket, Whole, EmptyAfter
  <2>4. \A p \in Admitted : ~(p =< 0)
    BY AdmittedAreReqs, ServerConstants DEF Reqs
  <2> QED
    BY <2>3, <2>4 DEF RowBounds
<1>6. n \in Reqs /\ n - 1 \in 0..NumReqs /\ ~(n =< n - 1)
  BY <1>4, <1>5, ServerConstants DEF Reqs
<1>7. DueBucket(n - 1) /\ RowBounds(n - 1)
  BY <1>3, <1>6
<1>8. n \notin Admitted
  BY <1>4, <1>7, TakenInTicks, RowGrows
<1>9. AdmittedOnly[n] = AdmittedOnly[n - 1]
  BY <1>6, <1>8, AdmittedOnlyUnfolds DEF Taken
<1>10. \A p \in Admitted : (p =< n <=> p =< n - 1) /\ Row(p, n) = Row(p, n - 1)
  <2>1. \A q \in Admitted : q =< n <=> q =< n - 1
    BY <1>6, <1>8, AdmittedAreReqs, ServerConstants DEF Reqs
  <2> QED
    BY <2>1 DEF Row
<1> QED
  BY <1>4, <1>7, <1>9, <1>10 DEF DueBucket, RowBounds, EmptyAfter

LEMMA NotFuller ==
  ASSUME HInv, Limited
  PROVE  /\ EmptyOf(AdmittedOnly[NumReqs], now) =< Empty /\ Empty \in Int
         /\ EmptyOf(AdmittedOnly[NumReqs], now) \in Int /\ now - Depth =< EmptyOf(AdmittedOnly[NumReqs], now)
         /\ EmptyAfter(NumReqs) \in Int /\ EmptyAfter(NumReqs) =< EmptyOf(AdmittedOnly[NumReqs], now)
         /\ Filled(lim, now) = cfg.rps * (now - Empty)
         /\ Filled(AdmittedOnly[NumReqs], now) = cfg.rps * (now - EmptyOf(AdmittedOnly[NumReqs], now))
<1> DEFINE due == EmptyOf(AdmittedOnly[NumReqs], now)
           e == EmptyAfter(NumReqs)
<1>1. NumReqs \in 0..NumReqs /\ now \in Nat /\ Unit \in Nat \ {0} /\ Depth \in Nat \ {0}
  BY ServerConstants, Rates DEF HInv, Types
<1>2. DueBucket(NumReqs) /\ RowBounds(NumReqs)
  BY <1>1, RowsAreBounded
<1>3. /\ Empty \in Int /\ now - Depth =< Empty
      /\ Filled(lim, now) = cfg.rps * (now - Empty)
  BY <1>1, FilledInTicks DEF HInv, Empty, WholeTokens, Types
<1>4. /\ due \in Int /\ now - Depth =< due
      /\ Filled(AdmittedOnly[NumReqs], now) = cfg.rps * (now - due)
  BY <1>1, <1>2, FilledInTicks DEF HInv, DueBucket
<1>5. e \in Int
  BY <1>2, Rates DEF HInv, DueBucket, EmptyAfter
<1>6. due = IF e < now - Depth THEN now - Depth ELSE e
  BY DEF EmptyOf, EmptyAfter
<1> HIDE DEF due, e
<1>7. e =< Empty
  <2>1. CASE e + Depth = 0
    BY <1>1, <1>3, <1>5, <2>1
  <2>2. ASSUME NEW p \in Admitted, e + Depth = req[p].at + Unit * Cardinality(Row(p, NumReqs))
        PROVE  e =< Empty
    <3>1. Row(p, NumReqs) \in SUBSET Since(req[p].at)
      BY AdmittedAreReqs DEF Row, Since
    <3>2. /\ Cardinality(Row(p, NumReqs)) =< Cardinality(Since(req[p].at))
          /\ Cardinality(Row(p, NumReqs)) \in Nat /\ Cardinality(Since(req[p].at)) \in Nat
      BY <3>1, Counting, CountedAreReqs
    <3>3. req[p].at \in Nat /\ req[p].at + Unit * Cardinality(Since(req[p].at)) =< Empty + Depth
      BY AdmittedAreReqs DEF HInv, Bounds, BucketBound
    <3>4. /\ Unit * Cardinality(Row(p, NumReqs)) =< Unit * Cardinality(Since(req[p].at))
          /\ Unit * Cardinality(Row(p, NumReqs)) \in Int /\ Unit * Cardinality(Since(req[p].at)) \in Int
      BY <1>1, <3>2, TimesMonotone
    <3> QED
      BY <1>1, <1>3, <1>5, <2>2, <3>3, <3>4
  <2>3. e + Depth = 0 \/ \E p \in Admitted : e + Depth = req[p].at + Unit * Cardinality(Row(p, NumReqs))
    BY <1>2 DEF RowBounds, e
  <2> QED
    BY <2>1, <2>2, <2>3
<1>8. due =< Empty /\ e =< due
  BY <1>1, <1>3, <1>4, <1>5, <1>6, <1>7
<1> QED
  BY <1>3, <1>4, <1>5, <1>8 DEF due, e

-----------------------------------------------------------------------------
(***************************************************************************)
(* As long as nothing excuses it, the bucket is empty no later than the    *)
(* tokens that are out account for: a row of them without a gap, or the    *)
(* burst is full.  Then only the last request to arrive waits for a slot   *)
(* or to give one back, and its slot is when the bucket is empty: what it  *)
(* gives back is all it took.                                              *)
(***************************************************************************)
RowFrom(p) == {q \in Counted : p =< q}
Waiting(q) == req[q].pc = "refused" \/ (req[q].pc = "reserved" /\ req[q].slot > now)

AccountedFor ==
  \/ Empty = now - Depth
  \/ \E p \in Counted : Empty + Depth = req[p].at + Unit * Cardinality(RowFrom(p))
LastWaits == \A q \in Reqs : Waiting(q) => \A p \in Reqs : p > q => req[p].pc = "idle"
WaitsForAll == \A q \in Reqs : Waiting(q) /\ req[q].slot >= now => Empty = req[q].slot

Exact == main = "serve" /\ Limited /\ ~excused => AccountedFor /\ LastWaits /\ WaitsForAll

LEMMA ExactHolds == HInv /\ Exact => RefusedTakeNothing
<1> SUFFICES ASSUME HInv, Exact, main = "serve", Limited, Holding = {}
             PROVE  /\ Filled(lim, now) <= Filled(AdmittedOnly[NumReqs], now)
                    /\ ~excused => Filled(lim, now) = Filled(AdmittedOnly[NumReqs], now)
  BY DEF RefusedTakeNothing
<1> DEFINE due == EmptyOf(AdmittedOnly[NumReqs], now)
<1>1. /\ due =< Empty /\ Empty \in Int /\ due \in Int /\ now - Depth =< due
      /\ EmptyAfter(NumReqs) \in Int /\ EmptyAfter(NumReqs) =< due
      /\ Filled(lim, now) = cfg.rps * (now - Empty)
      /\ Filled(AdmittedOnly[NumReqs], now) = cfg.rps * (now - due)
  BY NotFuller
<1>2. cfg.rps \in Nat /\ now \in Nat /\ Unit \in Nat /\ Depth \in Nat
  BY Rates DEF HInv, Types
<1> HIDE DEF due
<1>3. cfg.rps * (now - Empty) =< cfg.rps * (now - due)
  BY <1>1, <1>2, TimesMonotone
<1>4. ASSUME ~excused PROVE Empty = due
  <2>1. AccountedFor
    BY <1>4 DEF Exact
  <2>2. ASSUME NEW p \in Counted, Empty + Depth = req[p].at + Unit * Cardinality(RowFrom(p))
        PROVE  Empty =< EmptyAfter(NumReqs)
    <3>1. Counted = Admitted
      BY DEF Counted, Admitted, Held, Holding
    <3>2. RowFrom(p) = Row(p, NumReqs) /\ p =< NumReqs /\ p \in Admitted
      BY <3>1, AdmittedAreReqs, ServerConstants DEF RowFrom, Row, Reqs
    <3>3. req[p].at + Unit * Cardinality(Row(p, NumReqs)) =< EmptyAfter(NumReqs) + Depth
      BY <3>2, RowsAreBounded, ServerConstants DEF RowBounds
    <3>4. Empty + Depth =< EmptyAfter(NumReqs) + Depth
      BY <2>2, <3>2, <3>3
    <3> QED
      BY <1>1, <1>2, <3>4
  <2>3. Empty =< due
    BY <1>1, <1>2, <2>1, <2>2 DEF AccountedFor
  <2> QED
    BY <1>1, <2>3
<1> QED
  BY <1>1, <1>3, <1>4

(***************************************************************************)
(* Steps that neither touch the bucket nor who has a token.                *)
(***************************************************************************)
LEMMA SameTokens ==
  ASSUME HInv, Exact, UNCHANGED <<main, lim, now, cfg, excused, Counted>>,
         \A q \in Reqs : /\ req'[q].at = req[q].at /\ req'[q].slot = req[q].slot
                         /\ Waiting(q)' => Waiting(q)
                         /\ req'[q].pc = "idle" <=> req[q].pc = "idle"
  PROVE  Exact'
<1> SUFFICES ASSUME main = "serve", Limited, ~excused PROVE (AccountedFor /\ LastWaits /\ WaitsForAll)'
  BY QuietInTicks DEF Exact
<1>1. AccountedFor /\ LastWaits /\ WaitsForAll
  BY DEF Exact
<1>2. Unit' = Unit /\ Depth' = Depth /\ Empty' = Empty
  BY QuietInTicks
<1>3. \A p : RowFrom(p)' = RowFrom(p)
  BY DEF RowFrom
<1>4. AccountedFor'
  BY <1>1, <1>2, <1>3, CountedAreReqs DEF AccountedFor
<1>5. LastWaits' /\ WaitsForAll'
  BY <1>1, <1>2 DEF LastWaits, WaitsForAll
<1> QED
  BY <1>4, <1>5

LEMMA TickKeepsExact ==
  ASSUME HInv, Exact, Tick
  PROVE  Exact'
<1>1. UNCHANGED <<main, lim, cfg, excused, req>> /\ now' = now + 1 /\ now \in Nat
  BY DEF HInv, Types, Tick, limiter
<1> SUFFICES ASSUME main = "serve", Limited, ~excused PROVE (AccountedFor /\ LastWaits /\ WaitsForAll)'
  BY <1>1 DEF Exact, Limited
<1>2. AccountedFor /\ LastWaits /\ WaitsForAll
  BY DEF Exact
<1>3. /\ Unit' = Unit /\ Depth' = Depth /\ Empty \in Int /\ now - Depth =< Empty
      /\ Empty' = IF Empty < now + 1 - Depth THEN now + 1 - Depth ELSE Empty
      /\ Depth \in Nat \ {0}
  BY TickInTicks, FilledInTicks, Rates DEF HInv, Types, WholeTokens, Empty
<1>4. Counted' = Counted /\ \A p : RowFrom(p)' = RowFrom(p)
  BY <1>1 DEF Counted, Held, RowFrom
<1>5. AccountedFor'
  <2>1. CASE Empty < now + 1 - Depth
    BY <1>1, <1>3, <2>1 DEF AccountedFor
  <2>2. CASE ~(Empty < now + 1 - Depth)
    <3>1. PICK p \in Counted : Empty + Depth = req[p].at + Unit * Cardinality(RowFrom(p))
      BY <1>1, <1>2, <1>3, <2>2 DEF AccountedFor
    <3> QED
      BY <1>1, <1>3, <1>4, <2>2, <3>1 DEF AccountedFor
  <2> QED
    BY <2>1, <2>2
<1>6. \A q \in Reqs : Waiting(q)' => Waiting(q)
  BY <1>1 DEF Waiting, HInv, Types
<1>7. LastWaits'
  BY <1>1, <1>2, <1>6 DEF LastWaits
<1>8. WaitsForAll'
  <2> SUFFICES ASSUME NEW q \in Reqs, Waiting(q), req[q].slot >= now + 1 PROVE Empty' = req[q].slot
    BY <1>1, <1>6 DEF WaitsForAll
  <2>1. req[q].slot \in Int
    BY DEF HInv, Types
  <2>2. Empty = req[q].slot
    BY <1>1, <1>2, <2>1 DEF WaitsForAll
  <2> QED
    BY <1>1, <1>3, <2>1, <2>2
<1> QED
  BY <1>5, <1>7, <1>8

(***************************************************************************)
(* A request that comes when nobody waits is last in the row, or starts    *)
(* one where the burst was full.                                           *)
(***************************************************************************)
LEMMA ArrivalKeepsExact ==
  ASSUME HInv, Exact, NEW r \in Reqs, Arrive(r)
  PROVE  Exact'
<1>1. UNCHANGED <<main, cfg, now>>
  BY DEF Arrive
<1> SUFFICES ASSUME main = "serve", Limited, ~excused' PROVE (AccountedFor /\ LastWaits /\ WaitsForAll)'
  BY <1>1 DEF Exact, Limited
<1>2. /\ Unit' = Unit /\ Depth' = Depth /\ Empty \in Int
      /\ Empty' = Empty + Unit /\ req'[r].slot = SlotNow
      /\ Unit \in Nat \ {0} /\ Depth \in Nat \ {0} /\ now \in Nat
  BY ArriveInTicks, Rates DEF HInv, Types
<1>3. /\ \A p \in Reqs : p < r => req[p].pc # "idle"
      /\ \A p \in Reqs : p > r => req[p].pc = "idle"
      /\ \A p \in Reqs \ {r} : req'[p] = req[p]
      /\ req[r].pc = "idle" /\ req'[r].at = now
      /\ req'[r].pc = "reserved" /\ req'[r].began = Never
  BY Arrives DEF HInv
<1>4. ~excused /\ \A q \in Holding : ~(req[q].pc = "refused" \/ req[q].slot > now)
  BY DEF Arrive
<1>5. ~ \E q \in Reqs : Waiting(q)
  BY <1>4 DEF Waiting, Holding
<1>6. AccountedFor
  BY <1>4 DEF Exact
<1>7. /\ Counted' = Counted \cup {r} /\ r \notin Counted
      /\ \A p \in Counted : p < r
  <2>1. Way(r)
    BY DEF HInv, Ways
  <2>2. r \notin Counted /\ r \in Counted'
    BY <1>3, <2>1 DEF Counted, Held, Way
  <2>3. ASSUME NEW p \in Reqs, p # r PROVE p \in Counted' <=> p \in Counted
    BY <1>3, <2>3 DEF Counted, Held
  <2>4. ASSUME NEW p \in Counted PROVE p < r
    <3>1. p \in Reqs /\ req[p].pc # "idle"
      BY DEF HInv, Ways, Way, Counted, Held
    <3> QED
      BY <1>3, <3>1 DEF Reqs
  <2> QED
    BY <2>2, <2>3, <2>4, CountedAreReqs DEF Counted
<1>8. AccountedFor'
  <2>1. CASE Empty = now - Depth
    <3>0. r =< r /\ \A p \in Counted : ~(r =< p)
      BY <1>7, CountedAreReqs DEF Reqs
    <3>1. RowFrom(r)' = {} \cup {r} /\ {} \in SUBSET Reqs
      BY <1>7, <3>0 DEF RowFrom
    <3>2. Cardinality(RowFrom(r)') = 1
      <4>1. Cardinality({}) = 0
        BY <3>1, Counting
      <4> QED
        BY <3>1, <4>1, Counting
    <3>3. Unit * Cardinality(RowFrom(r)') = Unit
      BY <1>2, <3>2
    <3>4. Empty' + Depth = req'[r].at + Unit * Cardinality(RowFrom(r)')
      BY <1>2, <1>3, <2>1, <3>3
    <3> QED
      BY <1>2, <1>7, <3>4 DEF AccountedFor
  <2>2. CASE Empty # now - Depth
    <3>1. PICK p \in Counted : Empty + Depth = req[p].at + Unit * Cardinality(RowFrom(p))
      BY <1>6, <2>2 DEF AccountedFor
    <3>2. p \in Reqs /\ p # r /\ p =< r /\ req[p].at \in Nat
      BY <1>7, CountedAreReqs DEF HInv, Types, Reqs
    <3>3. RowFrom(p)' = RowFrom(p) \cup {r} /\ r \notin RowFrom(p) /\ RowFrom(p) \in SUBSET Reqs
      BY <1>7, <3>2, CountedAreReqs DEF RowFrom
    <3>4. /\ Cardinality(RowFrom(p)') = Cardinality(RowFrom(p)) + 1
          /\ Cardinality(RowFrom(p)) \in Nat
      BY <3>3, Counting
    <3>5. /\ Unit * Cardinality(RowFrom(p)') = Unit * Cardinality(RowFrom(p)) + Unit
          /\ Unit * Cardinality(RowFrom(p)) \in Int
      <4> DEFINE k == Cardinality(RowFrom(p))
      <4>1. Cardinality(RowFrom(p)') = k + 1 /\ k \in Nat
        BY <3>4
      <4> HIDE DEF k
      <4>2. Unit * (k + 1) = Unit * k + Unit /\ Unit * k \in Int
        BY <1>2, <4>1
      <4> QED
        BY <4>1, <4>2 DEF k
    <3>6. Empty' + Depth = req[p].at + Unit * Cardinality(RowFrom(p)')
      BY <1>2, <3>1, <3>2, <3>5
    <3> QED
      BY <1>2, <1>3, <1>7, <3>2, <3>6 DEF AccountedFor
  <2> QED
    BY <2>1, <2>2
<1>9. \A q \in Reqs : Waiting(q)' => q = r
  BY <1>1, <1>3, <1>5 DEF Waiting
<1>10. LastWaits'
  <2>1. \A p \in Reqs : p > r => req'[p].pc = "idle"
    BY <1>3 DEF Reqs
  <2> QED
    BY <1>9, <2>1 DEF LastWaits
<1>11. WaitsForAll'
  <2>1. Waiting(r)' => SlotNow > now
    BY <1>1, <1>2, <1>3 DEF Waiting
  <2>2. SlotNow > now => Empty' = SlotNow
    BY <1>2 DEF SlotNow
  <2> QED
    BY <1>2, <1>9, <2>1, <2>2 DEF WaitsForAll
<1> QED
  BY <1>8, <1>10, <1>11

(***************************************************************************)
(* A reservation given back in time is the last in the row, or was the row.*)
(***************************************************************************)
LEMMA CancelKeepsExact ==
  ASSUME HInv, Exact, NEW r \in Reqs, Cancel(r)
  PROVE  Exact'
<1>1. UNCHANGED <<main, cfg, now>>
  BY DEF Cancel
<1> SUFFICES ASSUME main = "serve", Limited, ~excused' PROVE (AccountedFor /\ LastWaits /\ WaitsForAll)'
  BY <1>1 DEF Exact, Limited
<1>2. ~excused /\ ~(req[r].slot < now) /\ req[r].pc = "refused"
  BY DEF Cancel
<1>3. AccountedFor /\ LastWaits /\ WaitsForAll
  BY <1>2 DEF Exact
<1>4. Unit \in Nat \ {0} /\ Depth \in Nat \ {0} /\ now \in Nat /\ req[r].slot \in Int
  BY Rates DEF HInv, Types
<1>5. Waiting(r) /\ Empty = req[r].slot
  BY <1>2, <1>3, <1>4 DEF Waiting, WaitsForAll
<1>6. lim.lastEvent = Empty
  <2>1. Delayed(r)
    BY <1>2, <1>4 DEF Delayed, Held, HInv, Ways, Way
  <2> QED
    BY <2>1 DEF HInv, Bounds, LastSlot
<1>7. ~(req[r].slot < now \/ lim.lastEvent - req[r].slot >= Unit)
  BY <1>2, <1>4, <1>5, <1>6
<1>8. /\ After(r) = {}
      /\ Empty' = IF Empty - Unit < now - Depth THEN now - Depth ELSE Empty - Unit
  BY <1>7, LastGivesBack
<1>9. Unit' = Unit /\ Depth' = Depth
  BY CancelInTicks DEF HInv
<1>10. /\ \A p \in Reqs \ {r} : req'[p] = req[p]
       /\ req'[r].at = req[r].at
       /\ req'[r].pc \in {"200", "429", "504", "cut"} /\ req'[r].began = req[r].began
  BY <1>2, OtherSteps DEF HInv
<1>11. r \in Counted /\ Counted' = Counted \ {r}
  <2>1. req[r].began = Never
    BY <1>2 DEF HInv, Ways, Way, Held
  <2> QED
    BY <1>2, <1>10, <2>1 DEF Counted, Held
<1>12. \A q \in Reqs : ~Waiting(q)'
  <2>1. ASSUME NEW q \in Reqs, q # r PROVE ~Waiting(q)
    <3>1. q < r \/ q > r
      BY <2>1 DEF Reqs
    <3>2. q < r => ~Waiting(q)
      BY <1>2, <1>3 DEF LastWaits
    <3>3. q > r => ~Waiting(q)
      BY <1>3, <1>5 DEF LastWaits, Waiting
    <3> QED
      BY <3>1, <3>2, <3>3
  <2> QED
    BY <1>1, <1>10, <2>1 DEF Waiting
<1>13. AccountedFor'
  <2>1. CASE Empty - Unit < now - Depth \/ Empty - Unit = now - Depth
    BY <1>1, <1>4, <1>5, <1>8, <1>9, <2>1 DEF AccountedFor
  <2>2. CASE ~(Empty - Unit < now - Depth \/ Empty - Unit = now - Depth)
    <3>1. PICK p \in Counted : Empty + Depth = req[p].at + Unit * Cardinality(RowFrom(p))
      BY <1>3, <1>4, <1>5, <2>2 DEF AccountedFor
    <3>2. p \in Reqs /\ req[p].at \in Nat /\ req[r].at =< now /\ req[r].at \in Nat
      BY <1>2, CountedAreReqs DEF HInv, Types, Ways, Way
    <3>3. p =< r
      BY <1>8, <3>2 DEF After, Reqs
    <3>4. r \in RowFrom(p) /\ RowFrom(p) \in SUBSET Reqs /\ RowFrom(p)' = RowFrom(p) \ {r}
      BY <1>11, <3>3, CountedAreReqs DEF RowFrom
    <3>5. /\ Cardinality(RowFrom(p)') = Cardinality(RowFrom(p)) - 1
          /\ Cardinality(RowFrom(p)) \in Nat
      BY <3>4, Counting
    <3>6. /\ Unit * Cardinality(RowFrom(p)') = Unit * Cardinality(RowFrom(p)) - Unit
          /\ Unit * Cardinality(RowFrom(p)) \in Int
      BY <1>4, <3>5
    <3>7. p # r
      <4> SUFFICES ASSUME p = r PROVE FALSE
        OBVIOUS
      <4>0. \A q \in Counted \ {r} : ~(r =< q)
        <5>1. \A q \in Counted : ~(q > r)
          BY <1>8 DEF After
        <5> QED
          BY <5>1, CountedAreReqs DEF Reqs
      <4>1. RowFrom(r)' = {}
        BY <1>11, <4>0 DEF RowFrom
      <4>2. Cardinality(RowFrom(r)') = 0 /\ {} \in SUBSET Reqs
        BY <4>1, Counting
      <4>3. Unit * Cardinality(RowFrom(r)') = 0
        BY <1>4, <4>2
      <4> QED
        BY <1>4, <1>5, <2>2, <3>1, <3>2, <3>6, <4>3
    <3>8. Empty' + Depth = req[p].at + Unit * Cardinality(RowFrom(p)')
      BY <1>4, <1>5, <1>8, <2>2, <3>1, <3>2, <3>6
    <3> QED
      BY <1>9, <1>10, <1>11, <3>2, <3>7, <3>8 DEF AccountedFor
  <2> QED
    BY <2>1, <2>2
<1> QED
  BY <1>12, <1>13 DEF LastWaits, WaitsForAll

LEMMA ExactStep == HInv /\ Exact /\ [Next]_vars => Exact'
<1> SUFFICES ASSUME HInv, Exact, [Next]_vars PROVE Exact'
  OBVIOUS
<1>1. CASE Start
  <2> SUFFICES ASSUME Limited' PROVE (AccountedFor /\ LastWaits /\ WaitsForAll)'
    BY DEF Exact
  <2>1. now' = 0 /\ Empty' = 0 - Depth' /\ \A r \in Reqs : req'[r] = Idle
    BY <1>1, StartInTicks DEF HInv
  <2> QED
    BY <2>1 DEF AccountedFor, LastWaits, WaitsForAll, Waiting, Idle
<1>2. CASE ServeReturns
  BY <1>2 DEF ServeReturns, Exact
<1>3. CASE Signal \/ Shutdown \/ UNCHANGED vars
  <2>1. UNCHANGED <<main, lim, now, cfg, excused, req>>
    BY <1>3 DEF Signal, Shutdown, limiter, vars
  <2>2. Counted' = Counted /\ \A q \in Reqs : Waiting(q)' = Waiting(q)
    BY <2>1 DEF Counted, Held, Waiting
  <2> QED
    BY <2>1, <2>2, SameTokens
<1>4. ASSUME NEW r \in Reqs, Admit(r) \/ Refuse(r) \/ Return(r) \/ Timeout(r) PROVE Exact'
  <2>1. UNCHANGED <<main, lim, now, cfg, excused>>
    BY <1>4 DEF Admit, Refuse, Return, Timeout, TimedOut, limiter
  <2>2. Way(r) /\ now \in Nat /\ req[r].slot \in Int /\ Never # now
    BY DEF HInv, Ways, Types, Never
  <2>3. /\ \A p \in Reqs \ {r} : req'[p] = req[p]
        /\ req'[r].at = req[r].at /\ req'[r].slot = req[r].slot
        /\ req[r].pc # "idle" /\ req'[r].pc # "idle"
        /\ (Waiting(r)' => Waiting(r)) /\ (r \in Counted' <=> r \in Counted)
    <3>1. /\ \A p \in Reqs \ {r} : req'[p] = req[p]
          /\ req'[r].at = req[r].at /\ req'[r].slot = req[r].slot
      BY <1>4, OtherSteps DEF HInv
    <3>2. CASE req[r].pc = "reserved"
      BY <1>4, <2>1, <2>2, <3>1, <3>2, OtherSteps DEF HInv, Waiting, Counted, Held, Way
    <3>3. CASE req[r].pc # "reserved"
      <4>1. req[r].pc = "running" /\ req[r].began # Never
        BY <1>4, <2>2, <3>3 DEF Admit, Refuse, Return, Timeout, TimedOut, Way
      <4> QED
        BY <1>4, <2>1, <2>2, <3>1, <4>1, OtherSteps DEF HInv, Waiting, Counted, Held
    <3> QED
      BY <3>2, <3>3
  <2>4. Counted' = Counted /\ \A q \in Reqs : Waiting(q)' => Waiting(q)
    BY <2>1, <2>3 DEF Counted, Held, Waiting
  <2> QED
    BY <2>1, <2>3, <2>4, SameTokens
<1> QED
  BY <1>1, <1>2, <1>3, <1>4, TickKeepsExact, ArrivalKeepsExact, CancelKeepsExact DEF Next, Step

(***************************************************************************)
(* A refused request gives the others nothing, and in the end costs them   *)
(* nothing, unless it is excused: Exact says that then the one who waits   *)
(* came last.                                                              *)
(***************************************************************************)
THEOREM RefusalsCostNothing == Spec => []RefusedTakeNothing
<1>1. Init => Exact
  BY DEF Init, Exact
<1>2. (HInv /\ Exact) /\ [Next]_vars => (HInv /\ Exact)'
  BY HInvStep, ExactStep
<1> QED
  BY <1>1, <1>2, InitHInv, ExactHolds, PTL DEF Spec

=============================================================================
