-------------------------- MODULE ToolCallsProofs --------------------------
(***************************************************************************)
(* Proofs about ToolCalls, for any calls, clocks, identifiers and number   *)
(* of tries: what the agent's dates mean, what the calls leave of an item, *)
(* and that a retry changes nothing.                                       *)
(***************************************************************************)
EXTENDS ToolCalls, SequenceTheorems, WellFoundedInduction, TLAPS

-----------------------------------------------------------------------------
(* The calendar: years and months are found, and civil dates survive the     *)
(* way to a day number and back.                                             *)
LEMMA YearLength ==
    ASSUME NEW y \in Int
    PROVE  /\ BeforeYear(y) \in Int
           /\ BeforeYear(y + 1) = BeforeYear(y) + (IF LeapYear(y) THEN 366 ELSE 365)
BY DEF BeforeYear, LeapYear

LEMMA YearsGrow ==
    ASSUME NEW y \in Int, NEW z \in Int, y <= z
    PROVE  BeforeYear(y) <= BeforeYear(z)
BY DEF BeforeYear

LEMMA YearFound ==
    ASSUME NEW day \in Int
    PROVE  /\ Year(day) \in Int
           /\ BeforeYear(Year(day)) <= day /\ day < BeforeYear(Year(day) + 1)
<1> DEFINE guess == (400 * day) \div 146097 + 1
<1>1. guess \in Int /\ BeforeYear(guess - 1) <= day /\ day < BeforeYear(guess + 2)
    BY DEF BeforeYear
<1> HIDE DEF guess
<1>2. \E y \in (guess - 1)..(guess + 1) : BeforeYear(y) <= day /\ day < BeforeYear(y + 1)
  <2>1. /\ guess - 1 \in (guess - 1)..(guess + 1) /\ guess \in (guess - 1)..(guess + 1)
        /\ guess + 1 \in (guess - 1)..(guess + 1)
        /\ (guess - 1) + 1 = guess /\ (guess + 1) + 1 = guess + 2
    BY <1>1
  <2>2. BeforeYear(guess) \in Int /\ BeforeYear(guess + 1) \in Int
    BY <1>1, YearLength
  <2> QED BY <1>1, <2>1, <2>2
<1>3. \A y \in (guess - 1)..(guess + 1) : y \in Int
    BY <1>1
<1> QED BY <1>2, <1>3 DEF Year, guess

LEMMA YearIs ==
    ASSUME NEW y \in Int, NEW day \in Int, BeforeYear(y) <= day, day < BeforeYear(y + 1)
    PROVE  Year(day) = y
<1>1. ~(y < Year(day))
  <2> SUFFICES ASSUME y < Year(day) PROVE FALSE
    OBVIOUS
  <2>1. BeforeYear(y + 1) <= BeforeYear(Year(day))
    BY YearFound, YearsGrow
  <2> QED BY <2>1, YearFound, YearLength
<1>2. ~(Year(day) < y)
  <2> SUFFICES ASSUME Year(day) < y PROVE FALSE
    OBVIOUS
  <2>1. BeforeYear(Year(day) + 1) <= BeforeYear(y)
    BY YearFound, YearsGrow
  <2> QED BY <2>1, YearFound, YearLength
<1> QED BY <1>1, <1>2, YearFound

LEMMA MonthLength ==
    ASSUME NEW y \in Int, NEW m \in 1..12
    PROVE  /\ DaysIn(y, m) \in 28..31
           /\ DayNumber(y, m, 1) = BeforeYear(y) + BeforeMonth(y, m)
           /\ DayNumber(y, m, 1) \in Int
           /\ DayNumber(y, m + 1, 1) = DayNumber(y, m, 1) + DaysIn(y, m)
<1>1. /\ (m - 1) \div 12 = 0 /\ ((m - 1) % 12) + 1 = m
      /\ m < 12 => (m + 1 - 1) \div 12 = 0 /\ ((m + 1 - 1) % 12) + 1 = m + 1
      /\ m = 12 => (m + 1 - 1) \div 12 = 1 /\ ((m + 1 - 1) % 12) + 1 = 1
    OBVIOUS
<1>2. BeforeMonth(y, m) \in Int /\ DaysIn(y, m) \in 28..31
    BY DEF BeforeMonth, DaysIn
<1>3. m < 12 => BeforeMonth(y, m + 1) = BeforeMonth(y, m) + DaysIn(y, m)
    BY DEF BeforeMonth, DaysIn
<1>4. m = 12 => BeforeMonth(y, m) + DaysIn(y, m) = IF LeapYear(y) THEN 366 ELSE 365
    BY DEF BeforeMonth, DaysIn
<1>5. BeforeMonth(y + 1, 1) = 0
    BY DEF BeforeMonth
<1>6. CASE m < 12
    BY <1>1, <1>2, <1>3, <1>6, YearLength DEF DayNumber
<1>7. CASE m = 12
    BY <1>1, <1>2, <1>4, <1>5, <1>7, YearLength DEF DayNumber
<1> QED BY <1>6, <1>7

LEMMA FirstOfYear ==
    ASSUME NEW y \in Int
    PROVE  /\ DayNumber(y, 1, 1) = BeforeYear(y)
           /\ DayNumber(y, 13, 1) = BeforeYear(y + 1)
<1>1. BeforeMonth(y, 1) = 0 /\ BeforeMonth(y + 1, 1) = 0
    BY DEF BeforeMonth
<1> QED BY <1>1, YearLength DEF DayNumber

LEMMA MonthFound ==
    ASSUME NEW day \in Int
    PROVE  /\ Month(day) \in 1..12
           /\ DayNumber(Year(day), Month(day), 1) <= day
           /\ day < DayNumber(Year(day), Month(day) + 1, 1)
<1> DEFINE y == Year(day)
           first(m) == DayNumber(y, m, 1)
<1>1. y \in Int /\ first(1) <= day /\ day < first(13)
    BY YearFound, FirstOfYear
<1>2. \A m \in 1..13 : first(m) \in Int
  <2> SUFFICES ASSUME NEW m \in 1..13 PROVE first(m) \in Int
    OBVIOUS
  <2>1. CASE m = 13
    BY <1>1, <2>1, FirstOfYear, YearLength
  <2>2. CASE m \in 1..12
    BY <1>1, <2>2, MonthLength
  <2> QED BY <2>1, <2>2
<1> HIDE DEF y, first
<1>3. \E m \in 1..12 : first(m) <= day /\ day < first(m + 1)
    BY <1>1, <1>2
<1> QED BY <1>3 DEF Month, y, first

LEMMA MonthsGrow ==
    ASSUME NEW y \in Int, NEW m \in 1..12, NEW n \in 1..12, m < n
    PROVE  DayNumber(y, m + 1, 1) <= DayNumber(y, n, 1)
<1>1. /\ DayNumber(y, m + 1, 1) = BeforeYear(y) + BeforeMonth(y, m + 1)
      /\ DayNumber(y, n, 1) = BeforeYear(y) + BeforeMonth(y, n)
      /\ BeforeYear(y) \in Int
  <2>1. m + 1 \in 1..12
    OBVIOUS
  <2>2. \A k \in 1..12 : DayNumber(y, k, 1) = BeforeYear(y) + BeforeMonth(y, k)
    BY MonthLength
  <2> QED BY <2>1, <2>2, YearLength
<1>2. BeforeMonth(y, m + 1) <= BeforeMonth(y, n)
    BY DEF BeforeMonth
<1> QED BY <1>1, <1>2 DEF BeforeMonth

LEMMA CivilIs ==
    ASSUME NEW y \in Int, NEW m \in 1..12, NEW d \in 1..DaysIn(y, m)
    PROVE  /\ DayNumber(y, m, d) = DayNumber(y, m, 1) + d - 1
           /\ DayNumber(y, m, d) \in Int
           /\ Year(DayNumber(y, m, d)) = y /\ Month(DayNumber(y, m, d)) = m
           /\ DayInMonth(DayNumber(y, m, d)) = d
<1> DEFINE day == DayNumber(y, m, d)
<1>0. /\ DaysIn(y, m) \in 28..31
      /\ DayNumber(y, m, 1) \in Int
      /\ DayNumber(y, m + 1, 1) = DayNumber(y, m, 1) + DaysIn(y, m)
    BY MonthLength
<1>1. /\ DaysIn(y, m) \in 28..31 /\ d \in Int
      /\ DayNumber(y, m, 1) \in Int
      /\ DayNumber(y, m + 1, 1) = DayNumber(y, m, 1) + DaysIn(y, m)
    BY <1>0
<1>2. day = DayNumber(y, m, 1) + d - 1 /\ day \in Int
    <2>1. (m - 1) \div 12 = 0 /\ ((m - 1) % 12) + 1 = m
        OBVIOUS
    <2>2. BeforeYear(y) \in Int /\ BeforeMonth(y, m) \in Int
        BY YearLength DEF BeforeMonth
    <2> QED BY <1>1, <2>1, <2>2 DEF DayNumber
<1> HIDE DEF day
<1>3. DayNumber(y, m, 1) <= day /\ day < DayNumber(y, m + 1, 1)
    BY <1>1, <1>2
<1>4. DayNumber(y, 1, 1) <= DayNumber(y, m, 1)
    <2>1. CASE m = 1
        BY <1>1, <2>1
    <2>2. CASE m # 1
        <3>1. 1 \in 1..12 /\ 1 < m /\ 1 + 1 \in 1..12
            BY <2>2
        <3>2. DayNumber(y, 1 + 1, 1) <= DayNumber(y, m, 1)
            BY <3>1, MonthsGrow
        <3>3. /\ DayNumber(y, 1 + 1, 1) = DayNumber(y, 1, 1) + DaysIn(y, 1)
              /\ DaysIn(y, 1) \in 28..31 /\ DayNumber(y, 1, 1) \in Int
            BY <3>1, MonthLength
        <3> QED BY <1>1, <3>2, <3>3
    <2> QED BY <2>1, <2>2
<1>5. DayNumber(y, m + 1, 1) <= DayNumber(y, 13, 1)
    <2>1. CASE m = 12
        BY <1>1, <2>1
    <2>2. CASE m # 12
        <3>1. 12 \in 1..12 /\ m < 12 /\ 12 + 1 = 13
            BY <2>2
        <3>2. DayNumber(y, m + 1, 1) <= DayNumber(y, 12, 1)
            BY <3>1, MonthsGrow
        <3>3. DayNumber(y, 13, 1) = DayNumber(y, 12, 1) + DaysIn(y, 12) /\ DayNumber(y, 12, 1) \in Int
              /\ DaysIn(y, 12) \in 28..31
            BY <3>1, MonthLength
        <3> QED BY <1>1, <3>2, <3>3
    <2> QED BY <2>1, <2>2
<1>6. Year(day) = y
    <2>1. BeforeYear(y) <= day /\ day < BeforeYear(y + 1)
        BY <1>1, <1>2, <1>3, <1>4, <1>5, FirstOfYear, YearLength
    <2> QED BY <1>2, <2>1, YearIs
<1>7. Month(day) = m
    <2> DEFINE n == Month(day)
    <2>1. n \in 1..12 /\ DayNumber(y, n, 1) <= day /\ day < DayNumber(y, n + 1, 1)
        BY <1>2, <1>6, MonthFound
    <2> HIDE DEF n
    <2>2. DayNumber(y, n, 1) \in Int /\ DayNumber(y, n + 1, 1) \in Int
        <3>1. /\ DayNumber(y, n, 1) \in Int /\ DaysIn(y, n) \in 28..31
              /\ DayNumber(y, n + 1, 1) = DayNumber(y, n, 1) + DaysIn(y, n)
            BY <2>1, MonthLength
        <3> QED BY <3>1
    <2>3. ~(m < n)
        BY <1>1, <1>2, <1>3, <2>1, <2>2, MonthsGrow
    <2>4. ~(n < m)
        BY <1>1, <1>2, <1>3, <2>1, <2>2, MonthsGrow
    <2>5. n = m
        BY <2>1, <2>3, <2>4
    <2> QED BY <2>5 DEF n
<1>8. DayInMonth(day) = d
    BY <1>1, <1>2, <1>6, <1>7 DEF DayInMonth
<1> QED BY <1>2, <1>6, <1>7, <1>8 DEF day

-----------------------------------------------------------------------------
(* A sequence is one over its own elements, and stays so.                    *)
Elements(s) == {s[k] : k \in DOMAIN s}

LEMMA Appended ==
    ASSUME NEW s, s \in Seq(Elements(s)), NEW e
    PROVE  /\ Append(s, e) \in Seq(Elements(Append(s, e)))
           /\ Len(s) \in Nat /\ DOMAIN s = 1..Len(s)
           /\ Len(Append(s, e)) = Len(s) + 1
           /\ DOMAIN Append(s, e) = 1..(Len(s) + 1)
           /\ \A k \in DOMAIN s : Append(s, e)[k] = s[k]
           /\ Append(s, e)[Len(s) + 1] = e
<1> DEFINE S == Elements(s) \cup {e}
           a == Append(s, e)
<1>1. s \in Seq(S) /\ e \in S
    BY SeqMonotonic
<1>2. /\ Len(s) \in Nat /\ DOMAIN s = 1..Len(s)
      /\ a \in Seq(S) /\ Len(a) = Len(s) + 1
      /\ DOMAIN a = 1..(Len(s) + 1)
      /\ \A k \in DOMAIN s : a[k] = s[k]
      /\ a[Len(s) + 1] = e
    BY <1>1
<1>3. a \in [1..(Len(s) + 1) -> S]
    BY <1>2, LenProperties
<1> HIDE DEF a, S
<1>4. \A k \in 1..(Len(s) + 1) : a[k] \in Elements(a)
    BY <1>2 DEF Elements
<1>5. a \in [1..(Len(s) + 1) -> Elements(a)]
    BY <1>3, <1>4
<1>6. a \in Seq(Elements(a))
    BY <1>2, <1>5
<1> QED BY <1>2, <1>6 DEF a

LEMMA Changed ==
    ASSUME NEW s, s \in Seq(Elements(s)), NEW i \in DOMAIN s, NEW e
    PROVE  /\ [s EXCEPT ![i] = e] \in Seq(Elements([s EXCEPT ![i] = e]))
           /\ DOMAIN [s EXCEPT ![i] = e] = DOMAIN s
           /\ Len([s EXCEPT ![i] = e]) = Len(s)
           /\ [s EXCEPT ![i] = e][i] = e
           /\ \A k \in DOMAIN s : k # i => [s EXCEPT ![i] = e][k] = s[k]
<1> DEFINE S == Elements(s) \cup {e}
           a == [s EXCEPT ![i] = e]
<1>1. s \in Seq(S) /\ e \in S
    BY SeqMonotonic
<1>2. Len(s) \in Nat /\ DOMAIN s = 1..Len(s)
    BY <1>1
<1>3. a \in Seq(S) /\ Len(a) = Len(s) /\ DOMAIN a = DOMAIN s
    BY <1>1, <1>2
<1>4. /\ a[i] = e
      /\ \A k \in DOMAIN s : k # i => a[k] = s[k]
    OBVIOUS
<1>5. a \in [1..Len(s) -> S]
    BY <1>2, <1>3, LenProperties
<1> HIDE DEF a, S
<1>6. \A k \in 1..Len(s) : a[k] \in Elements(a)
    BY <1>2, <1>3 DEF Elements
<1>7. a \in [1..Len(s) -> Elements(a)]
    BY <1>5, <1>6
<1>8. a \in Seq(Elements(a))
    BY <1>2, <1>7
<1> QED BY <1>3, <1>4, <1>8 DEF a

-----------------------------------------------------------------------------
(* What the tries and the log have in common.                                *)
Made == Calls \cup FollowUps
Initially == [id \in Ids |-> IF id \in DOMAIN Existing THEN Existing[id] ELSE Null]
ItemsAfter(n) == IF n = 0 THEN Initially ELSE log[n].items

AsAsked(t) ==
    /\ DOMAIN t = {"call", "at", "body", "pc", "answer"}
    /\ t.call \in Made /\ t.at \in Nat
    /\ t.pc = "refused" <=> Refused(t.call, t.at)
    /\ t.pc # "refused" => t.body = Body(t.call, t.at)

TriesAsAsked ==
    /\ now \in Nat /\ tries \in Seq(Elements(tries))
    /\ \A k \in DOMAIN tries : AsAsked(tries[k])

(* The n-th call that took effect found the items as the one before left     *)
(* them, and its answer shows what it made of them.                          *)
AsServed(n) ==
    LET k == log[n].try
        c == tries[k].call
        ids == log[n].ids
        before == ItemsAfter(n - 1)
    IN  /\ k \in DOMAIN tries /\ tries[k].pc \in {"served", "answered", "gone"}
        /\ RulesValid(tries[k].body)
        /\ IF c.tool \in CreateTools
           THEN \E id \in Ids : ids = {id} /\ before[id] = Null /\ \A j \in 1..(n - 1) : id \notin log[j].ids
           ELSE LET there == {id \in c.ids : before[id] # Null /\ before[id].kind = KindOf(c)}
                IN  ids \subseteq there /\ (c.tool \notin BatchTools => ids = there)
        /\ log[n].items = [id \in Ids |-> IF id \in ids THEN Stored(c, tries[k].body, before[id], kit) ELSE before[id]]
        /\ tries[k].answer = [id \in ids |-> Shown(c, log[n].items[id], kit)]

LogAsServed ==
    /\ log \in Seq(Elements(log))
    /\ items = ItemsAfter(Len(log))
    /\ \A n \in DOMAIN log : AsServed(n)

(* An entry of the log stays as it was served while its try keeps its call,  *)
(* its body and its answer.                                                  *)
LEMMA ServedStays ==
    ASSUME LogAsServed, kit' = kit, NEW n \in DOMAIN log, AsServed(n),
           \A m \in DOMAIN log : log'[m] = log[m],
           LET t == tries[log[n].try] t1 == tries'[log[n].try]
           IN  /\ log[n].try \in DOMAIN tries' /\ t1.pc \in {"served", "answered", "gone"}
               /\ t1.call = t.call /\ t1.body = t.body /\ t1.answer = t.answer
    PROVE  AsServed(n)'
<1>1. /\ Len(log) \in Nat /\ DOMAIN log = 1..Len(log)
      /\ log'[n] = log[n] /\ ItemsAfter(n - 1)' = ItemsAfter(n - 1)
      /\ \A j \in 1..(n - 1) : log'[j] = log[j]
    <2>1. Len(log) \in Nat /\ DOMAIN log = 1..Len(log)
        BY LenProperties DEF LogAsServed
    <2>2. n - 1 = 0 \/ n - 1 \in DOMAIN log
        BY <2>1
    <2>3. \A j \in 1..(n - 1) : j \in DOMAIN log
        BY <2>1
    <2> QED BY <2>1, <2>2, <2>3 DEF ItemsAfter, Initially
<1> DEFINE k == log[n].try
           before == ItemsAfter(n - 1)
<1>2. k' = k /\ before' = before
    BY <1>1
<1>3. /\ tries[k]'.call = tries[k].call /\ tries[k]'.body = tries[k].body
      /\ tries[k]'.answer = tries[k].answer
      /\ k \in DOMAIN tries' /\ tries[k]'.pc \in {"served", "answered", "gone"}
    BY <1>2
<1> HIDE DEF k, before
<1>4. RulesValid(tries[k]'.body)
    BY <1>3 DEF AsServed, k
<1>5. IF tries[k]'.call.tool \in CreateTools
      THEN \E id \in Ids : /\ log'[n].ids = {id} /\ before[id] = Null
                          /\ \A j \in 1..(n - 1) : id \notin log'[j].ids
      ELSE LET there == {id \in tries[k]'.call.ids : before[id] # Null /\ before[id].kind = KindOf(tries[k]'.call)}
           IN  log'[n].ids \subseteq there /\ (tries[k]'.call.tool \notin BatchTools => log'[n].ids = there)
    BY <1>1, <1>3 DEF AsServed, k, before
<1>6. log'[n].items = [id \in Ids |-> IF id \in log'[n].ids
                                    THEN Stored(tries[k]'.call, tries[k]'.body, before[id], kit')
                                    ELSE before[id]]
    BY <1>1, <1>3 DEF AsServed, k, before
<1>7. tries[k]'.answer = [id \in log'[n].ids |-> Shown(tries[k]'.call, log'[n].items[id], kit')]
    BY <1>1, <1>3 DEF AsServed, k
<1> QED BY <1>2, <1>3, <1>4, <1>5, <1>6, <1>7 DEF AsServed, k, before

(* Tries keep what they are; one that is served keeps body and answer.       *)
TryKept(k) ==
    LET t == tries[k]
        t1 == tries'[k]
    IN  /\ k \in DOMAIN tries'
        /\ t.pc \in {"served", "answered", "gone"} =>
            /\ t1.pc \in {"served", "answered", "gone"}
            /\ t1.call = t.call /\ t1.body = t.body /\ t1.answer = t.answer

LEMMA LogStays ==
    ASSUME LogAsServed, UNCHANGED <<kit, items, log>>, \A k \in DOMAIN tries : TryKept(k)
    PROVE  LogAsServed'
<1>1. \A n \in DOMAIN log : AsServed(n)'
    <2> SUFFICES ASSUME NEW n \in DOMAIN log PROVE AsServed(n)'
        OBVIOUS
    <2>1. AsServed(n)
        BY DEF LogAsServed
    <2>2. /\ log[n].try \in DOMAIN tries
          /\ tries[log[n].try].pc \in {"served", "answered", "gone"}
        BY <2>1 DEF AsServed
    <2> QED BY <2>1, <2>2, ServedStays DEF TryKept
<1>2. log' \in Seq(Elements(log')) /\ items' = ItemsAfter(Len(log))'
    BY DEF LogAsServed, ItemsAfter, Initially
<1> QED BY <1>1, <1>2 DEF LogAsServed

(* What a step that only moves one try to another place keeps.               *)
LEMMA MovedOn ==
    ASSUME TriesAsAsked, LogAsServed, UNCHANGED <<now, kit, items, log>>,
           NEW k \in DOMAIN tries, tries[k].pc # "refused",
           NEW place, place # "refused",
           tries[k].pc \in {"served", "answered", "gone"} => place \in {"served", "answered", "gone"},
           tries' = [tries EXCEPT ![k].pc = place]
    PROVE  TriesAsAsked' /\ LogAsServed'
<1> DEFINE e == [tries[k] EXCEPT !.pc = place]
<1>1. tries' = [tries EXCEPT ![k] = e]
    OBVIOUS
<1>3. /\ DOMAIN e = DOMAIN tries[k] /\ e.pc = place /\ e.call = tries[k].call /\ e.at = tries[k].at
      /\ e.body = tries[k].body /\ e.answer = tries[k].answer
    BY DEF TriesAsAsked, AsAsked
<1> HIDE DEF e
<1>2. /\ tries' \in Seq(Elements(tries')) /\ DOMAIN tries' = DOMAIN tries
      /\ tries'[k] = e /\ \A j \in DOMAIN tries : j # k => tries'[j] = tries[j]
    <2>1. tries \in Seq(Elements(tries))
        BY DEF TriesAsAsked
    <2>2. /\ [tries EXCEPT ![k] = e] \in Seq(Elements([tries EXCEPT ![k] = e]))
          /\ DOMAIN [tries EXCEPT ![k] = e] = DOMAIN tries /\ [tries EXCEPT ![k] = e][k] = e
          /\ \A j \in DOMAIN tries : j # k => [tries EXCEPT ![k] = e][j] = tries[j]
        BY <2>1, Changed
    <2> HIDE <1>1
    <2>3. tries' = [tries EXCEPT ![k] = e]
        BY <1>1
    <2> QED BY <2>2, <2>3, Zenon
<1>4. TriesAsAsked'
    <2>1. AsAsked(e)
        BY <1>3 DEF TriesAsAsked, AsAsked
    <2> QED BY <1>2, <2>1 DEF TriesAsAsked
<1>5. \A j \in DOMAIN tries : TryKept(j)
    BY <1>2, <1>3 DEF TryKept
<1>6. LogAsServed'
    BY <1>5, LogStays
<1> QED BY <1>4, <1>6

LEMMA AskKeeps ==
    ASSUME TriesAsAsked, LogAsServed, NEW c \in Made, Ask(c)
    PROVE  TriesAsAsked' /\ LogAsServed'
<1> DEFINE e == IF Refused(c, now) THEN [call |-> c, at |-> now, body |-> <<>>, pc |-> "refused", answer |-> Null]
                ELSE [call |-> c, at |-> now, body |-> Body(c, now), pc |-> "sent", answer |-> Null]
<1>1. tries' = Append(tries, e) /\ UNCHANGED <<now, kit, items, log>>
    BY DEF Ask
<1>2. AsAsked(e)
    <2>1. now \in Nat
        BY DEF TriesAsAsked
    <2>2. CASE Refused(c, now)
        BY <2>1, <2>2 DEF AsAsked
    <2>3. CASE ~Refused(c, now)
        <3>1. e = [call |-> c, at |-> now, body |-> Body(c, now), pc |-> "sent", answer |-> Null]
            BY <2>3
        <3>2. "sent" # "refused"
            OBVIOUS
        <3> HIDE DEF e
        <3>3. /\ DOMAIN e = {"call", "at", "body", "pc", "answer"}
              /\ e.call = c /\ e.at = now /\ e.pc # "refused" /\ e.body = Body(c, now)
            BY <3>1
        <3> QED BY <2>1, <2>3, <3>3 DEF AsAsked
    <2> QED BY <2>2, <2>3
<1> HIDE DEF e
<1>3. /\ tries' \in Seq(Elements(tries'))
      /\ Len(tries) \in Nat /\ DOMAIN tries = 1..Len(tries)
      /\ DOMAIN tries' = 1..(Len(tries) + 1)
      /\ \A k \in DOMAIN tries : tries'[k] = tries[k]
      /\ tries'[Len(tries) + 1] = e
    BY <1>1, Appended DEF TriesAsAsked
<1>4. TriesAsAsked'
    <2>1. \A k \in DOMAIN tries' : AsAsked(tries'[k])
        BY <1>2, <1>3 DEF TriesAsAsked
    <2> QED BY <1>1, <1>3, <2>1 DEF TriesAsAsked
<1>5. \A k \in DOMAIN tries : TryKept(k)
    BY <1>3 DEF TryKept
<1> QED BY <1>1, <1>4, <1>5, LogStays

LEMMA ServeKeeps ==
    ASSUME TriesAsAsked, LogAsServed, NEW k \in DOMAIN tries, Serve(k)
    PROVE  /\ TriesAsAsked' /\ LogAsServed'
           /\ log' = Append(log, [try |-> k, ids |-> log'[Len(log) + 1].ids, items |-> items'])
           /\ log'[Len(log) + 1].try = k
<1> DEFINE c == tries[k].call
<1>0. PICK ids \in Reached(c) :
        /\ Pending(k) /\ RulesValid(tries[k].body)
        /\ items' = [id \in Ids |-> IF id \in ids THEN Stored(c, tries[k].body, items[id], kit) ELSE items[id]]
        /\ log' = Append(log, [try |-> k, ids |-> ids, items |-> items'])
        /\ tries' = [tries EXCEPT ![k].pc = IF @ = "sent" THEN "served" ELSE "gone",
                                  ![k].answer = [id \in ids |-> Shown(c, items'[id], kit)]]
        /\ UNCHANGED <<now, waited, kit>>
    BY DEF Serve
<1> DEFINE place == IF tries[k].pc = "sent" THEN "served" ELSE "gone"
           answer == [id \in ids |-> Shown(c, items'[id], kit)]
           e == [tries[k] EXCEPT !.pc = place, !.answer = answer]
           entry == [try |-> k, ids |-> ids, items |-> items']
<1>1. /\ tries[k].pc \in {"sent", "abandoned"} /\ RulesValid(tries[k].body)
      /\ items' = [id \in Ids |-> IF id \in ids THEN Stored(c, tries[k].body, items[id], kit) ELSE items[id]]
      /\ log' = Append(log, entry)
      /\ tries' = [tries EXCEPT ![k] = e]
      /\ UNCHANGED <<now, waited, kit>>
    BY <1>0 DEF Pending
<1>2. /\ DOMAIN e = DOMAIN tries[k] /\ e.pc = place /\ e.answer = answer
      /\ e.call = c /\ e.at = tries[k].at /\ e.body = tries[k].body
      /\ place \in {"served", "gone"}
    BY DEF TriesAsAsked, AsAsked
<1>3. IF c.tool \in CreateTools
      THEN \E id \in Ids : ids = {id} /\ items[id] = Null /\ \A j \in DOMAIN log : id \notin log[j].ids
      ELSE /\ ids \subseteq {id \in c.ids : items[id] # Null /\ items[id].kind = KindOf(c)}
           /\ c.tool \notin BatchTools => ids = {id \in c.ids : items[id] # Null /\ items[id].kind = KindOf(c)}
    <2>1. Unused # {} => Fresh \in Unused
        BY DEF Fresh
    <2>2. CASE c.tool \in CreateTools
        <3>1. Unused # {} /\ ids = {Fresh}
            BY <2>2 DEF Reached, CreateTools, BatchTools
        <3> QED BY <2>1, <2>2, <3>1 DEF Unused
    <2>3. CASE c.tool \notin CreateTools
        <3>1. ids \subseteq Targets(c) /\ (c.tool \notin BatchTools => ids = Targets(c))
            BY <2>3 DEF Reached
        <3> QED BY <2>3, <3>1 DEF Targets
    <2> QED BY <2>2, <2>3
<1>4. entry.try = k /\ entry.ids = ids /\ entry.items = items'
    OBVIOUS
<1> HIDE DEF entry, e, answer, place, c
<1>5. /\ tries' \in Seq(Elements(tries')) /\ DOMAIN tries' = DOMAIN tries
      /\ tries'[k] = e /\ \A j \in DOMAIN tries : j # k => tries'[j] = tries[j]
    <2>1. tries \in Seq(Elements(tries))
        BY DEF TriesAsAsked
    <2>2. /\ [tries EXCEPT ![k] = e] \in Seq(Elements([tries EXCEPT ![k] = e]))
          /\ DOMAIN [tries EXCEPT ![k] = e] = DOMAIN tries /\ [tries EXCEPT ![k] = e][k] = e
          /\ \A j \in DOMAIN tries : j # k => [tries EXCEPT ![k] = e][j] = tries[j]
        BY <2>1, Changed
    <2> HIDE <1>1
    <2>3. tries' = [tries EXCEPT ![k] = e]
        BY <1>1
    <2> QED BY <2>2, <2>3, Zenon
<1>6. /\ log' \in Seq(Elements(log'))
      /\ Len(log) \in Nat /\ DOMAIN log = 1..Len(log)
      /\ Len(log') = Len(log) + 1 /\ DOMAIN log' = 1..(Len(log) + 1)
      /\ \A m \in DOMAIN log : log'[m] = log[m]
      /\ log'[Len(log) + 1] = entry
    BY <1>1, Appended DEF LogAsServed
<1>7. TriesAsAsked'
    <2>1. place # "refused"
        BY <1>2
    <2>2. AsAsked(e)
        BY <1>1, <1>2, <2>1 DEF TriesAsAsked, AsAsked, c
    <2> QED BY <1>1, <1>5, <2>2 DEF TriesAsAsked
<1>8. \A n \in DOMAIN log : AsServed(n)'
    <2> SUFFICES ASSUME NEW n \in DOMAIN log PROVE AsServed(n)'
        OBVIOUS
    <2>1. AsServed(n)
        BY DEF LogAsServed
    <2>2. log[n].try # k
        BY <1>1, <2>1 DEF AsServed
    <2>3. log[n].try \in DOMAIN tries /\ tries[log[n].try].pc \in {"served", "answered", "gone"}
        BY <2>1 DEF AsServed
    <2>4. tries'[log[n].try] = tries[log[n].try] /\ log[n].try \in DOMAIN tries'
        BY <1>5, <2>2, <2>3
    <2> QED BY <1>1, <1>6, <2>1, <2>3, <2>4, ServedStays
<1>9. ASSUME NEW n, n = Len(log) + 1
      PROVE  AsServed(n)'
    <2>1. ItemsAfter(n - 1)' = items
        <3>1. n - 1 = Len(log) /\ items = ItemsAfter(Len(log))
            BY <1>6, <1>9 DEF LogAsServed
        <3>2. Len(log) = 0 \/ Len(log) \in DOMAIN log
            BY <1>6
        <3> QED BY <1>6, <3>1, <3>2 DEF ItemsAfter, Initially
    <2>2. log'[n].try = k /\ log'[n].ids = ids /\ log'[n].items = items'
        BY <1>4, <1>6, <1>9
    <2>3. /\ k \in DOMAIN tries' /\ tries'[k].pc \in {"served", "answered", "gone"}
          /\ tries'[k].call = c /\ tries'[k].body = tries[k].body /\ tries'[k].answer = answer
        BY <1>2, <1>5
    <2>4. IF c.tool \in CreateTools
          THEN \E id \in Ids : /\ ids = {id} /\ items[id] = Null
                              /\ \A j \in 1..(n - 1) : id \notin log'[j].ids
          ELSE /\ ids \subseteq {id \in c.ids : items[id] # Null /\ items[id].kind = KindOf(c)}
               /\ c.tool \notin BatchTools => ids = {id \in c.ids : items[id] # Null /\ items[id].kind = KindOf(c)}
        <3>1. 1..(n - 1) = DOMAIN log /\ \A j \in DOMAIN log : log'[j].ids = log[j].ids
            BY <1>6, <1>9
        <3> QED BY <1>3, <3>1
    <2>5. log'[n].items = [id \in Ids |-> IF id \in ids THEN Stored(c, tries[k].body, items[id], kit') ELSE items[id]]
        BY <1>1, <2>2
    <2>6. answer = [id \in ids |-> Shown(c, log'[n].items[id], kit')]
        BY <1>1, <2>2 DEF answer
    <2> DEFINE before == ItemsAfter(n - 1)
    <2> HIDE DEF before
    <2>7. before' = items
        BY <2>1 DEF before
    <2>8. RulesValid(tries'[k].body)
        BY <1>1, <2>3
    <2>9. IF tries'[k].call.tool \in CreateTools
          THEN \E id \in Ids : /\ log'[n].ids = {id} /\ before'[id] = Null
                              /\ \A j \in 1..(n - 1) : id \notin log'[j].ids
          ELSE LET there == {id \in tries'[k].call.ids :
                                before'[id] # Null /\ before'[id].kind = KindOf(tries'[k].call)}
               IN  log'[n].ids \subseteq there /\ (tries'[k].call.tool \notin BatchTools => log'[n].ids = there)
        BY <2>2, <2>3, <2>4, <2>7
    <2>10. log'[n].items = [id \in Ids |-> IF id \in log'[n].ids
                                        THEN Stored(tries'[k].call, tries'[k].body, before'[id], kit')
                                        ELSE before'[id]]
        BY <2>2, <2>3, <2>5, <2>7
    <2>11. tries'[k].answer = [id \in log'[n].ids |-> Shown(tries'[k].call, log'[n].items[id], kit')]
        BY <2>2, <2>3, <2>6
    <2> QED BY <2>2, <2>3, <2>8, <2>9, <2>10, <2>11 DEF AsServed, before
<1>10. items' = ItemsAfter(Len(log))'
    <2>1. log'[Len(log')].items = items' /\ Len(log') # 0
        BY <1>4, <1>6
    <2> QED BY <2>1 DEF ItemsAfter
<1>11. LogAsServed'
    <2>1. \A n \in DOMAIN log' : AsServed(n)'
        <3>1. \A n \in DOMAIN log' : n \in DOMAIN log \/ n = Len(log) + 1
            BY <1>6
        <3> QED BY <1>8, <1>9, <3>1
    <2> QED BY <1>6, <1>10, <2>1 DEF LogAsServed
<1>12. log'[Len(log) + 1].ids = ids
    BY <1>4, <1>6
<1> QED BY <1>1, <1>4, <1>6, <1>7, <1>11, <1>12 DEF entry

LEMMA NextKeeps ==
    ASSUME TriesAsAsked, LogAsServed, [Next]_vars
    PROVE  TriesAsAsked' /\ LogAsServed'
<1>1. CASE UNCHANGED vars
    <2>1. UNCHANGED <<now, kit, items, tries, log>>
        BY <1>1 DEF vars
    <2>2. TriesAsAsked'
        BY <2>1 DEF TriesAsAsked
    <2>3. \A k \in DOMAIN tries : TryKept(k)
        BY <2>1 DEF TryKept
    <2> QED BY <2>1, <2>2, <2>3, LogStays
<1>2. ASSUME NEW c \in IF tries = <<>> THEN Calls ELSE FollowUps \cup {tries[Len(tries)].call}, Ask(c)
      PROVE  TriesAsAsked' /\ LogAsServed'
    <2>1. c \in Made
        <3>1. tries # <<>> => Len(tries) \in DOMAIN tries
            BY EmptySeq, LenProperties DEF TriesAsAsked
        <3> QED BY <1>2, <3>1 DEF TriesAsAsked, AsAsked, Made
    <2> QED BY <1>2, <2>1, AskKeeps
<1>3. ASSUME NEW k \in DOMAIN tries, Serve(k)
      PROVE  TriesAsAsked' /\ LogAsServed'
    BY <1>3, ServeKeeps
<1>4. ASSUME NEW k \in DOMAIN tries, Fail(k)
      PROVE  TriesAsAsked' /\ LogAsServed'
    <2> DEFINE place == IF tries[k].pc = "sent" THEN "failed" ELSE "gone"
    <2>1. /\ tries' = [tries EXCEPT ![k].pc = place] /\ UNCHANGED <<now, kit, items, log>>
          /\ tries[k].pc \in {"sent", "abandoned"} /\ place # "refused"
        BY <1>4 DEF Fail, Pending
    <2> HIDE DEF place
    <2> QED BY <2>1, MovedOn
<1>5. ASSUME NEW k \in DOMAIN tries, Answer(k)
      PROVE  TriesAsAsked' /\ LogAsServed'
    <2>1. /\ tries' = [tries EXCEPT ![k].pc = "answered"] /\ UNCHANGED <<now, kit, items, log>>
          /\ tries[k].pc = "served"
        BY <1>5 DEF Answer
    <2> QED BY <2>1, MovedOn
<1>6. ASSUME NEW k \in DOMAIN tries, GiveUp(k)
      PROVE  TriesAsAsked' /\ LogAsServed'
    <2>1. UNCHANGED <<now, kit, items, log>>
        BY <1>6 DEF GiveUp
    <2>2. CASE tries[k].pc = "sent" /\ tries' = [tries EXCEPT ![k].pc = "abandoned"]
        BY <2>1, <2>2, MovedOn
    <2>3. CASE tries[k].pc = "served" /\ tries' = [tries EXCEPT ![k].pc = "gone"]
        BY <2>1, <2>3, MovedOn
    <2> QED BY <1>6, <2>2, <2>3 DEF GiveUp
<1>7. ASSUME Wait
      PROVE  TriesAsAsked' /\ LogAsServed'
    <2>1. UNCHANGED <<kit, items, tries, log>> /\ now' \in Nat
        BY <1>7, ToolConstants DEF Wait, TriesAsAsked
    <2>2. \A k \in DOMAIN tries : TryKept(k)
        BY <2>1 DEF TryKept
    <2> QED BY <2>1, <2>2, LogStays DEF TriesAsAsked
<1> QED BY <1>1, <1>2, <1>3, <1>4, <1>5, <1>6, <1>7 DEF Next

LEMMA InitKeeps == Init => TriesAsAsked /\ LogAsServed
<1> SUFFICES ASSUME Init PROVE TriesAsAsked /\ LogAsServed
    OBVIOUS
<1>1. now \in Nat /\ tries = <<>> /\ log = <<>> /\ items = Initially
    BY ToolConstants DEF Init, Initially
<1>2. <<>> \in Seq(Elements(<<>>)) /\ DOMAIN <<>> = {} /\ Len(<<>>) = 0
    OBVIOUS
<1> QED BY <1>1, <1>2 DEF TriesAsAsked, LogAsServed, ItemsAfter

(* Every call is refused or sent as its words are read at that moment, and   *)
(* the log tells, for each call that took effect, which items it found, what *)
(* it made of them and what it answered, however late it did                 *)
(* (client.go:61-106, handlers/events.go:94-162).                            *)
THEOREM EveryEffectIsLogged == Spec => [](TriesAsAsked /\ LogAsServed)
<1>1. Init => TriesAsAsked /\ LogAsServed
    BY InitKeeps
<1>2. TriesAsAsked /\ LogAsServed /\ [Next]_vars => (TriesAsAsked /\ LogAsServed)'
    BY NextKeeps
<1> QED BY <1>1, <1>2, PTL DEF Spec

-----------------------------------------------------------------------------
(* Which parser decides. *)
LEMMA ParsersRefuse ==
    ASSUME NEW text, NEW now0, NEW cfg
    PROVE  /\ text.form \notin {"standard", "monthday"} => TryStandardFormats(text) = NoDate
           /\ text.form # "standard" => ParseDateTimeParts(text) = NoDate
           /\ text.form # "keyword" => Keyword(text, now0, cfg) = NoDate
           /\ text.form # "in" => ParseRelative(text, now0) = NoDate
           /\ text.form # "ago" => ParseAgo(text, now0) = NoDate
           /\ text.form # "next" => ParseNextWeekday(text, now0, cfg) = NoDate
           /\ text.form # "base" => ParseDateWithTime(text, now0) = NoDate
           /\ text.form # "weekday" => /\ ParseWeekdayWithTime(text, now0) = NoDate
                                       /\ StandaloneWeekday(text, now0, cfg) = NoDate
           /\ text.form # "monthday" => ParseMonthDay(text, now0, cfg) = NoDate
           /\ text.form # "time" => ParseTimeOnly(text, now0, cfg) = NoDate
<1>1. /\ text.form \notin {"standard", "monthday"} => TryStandardFormats(text) = NoDate
      /\ text.form # "standard" => ParseDateTimeParts(text) = NoDate
    BY DEF TryStandardFormats, ParseDateTimeParts
<1>2. text.form # "keyword" => Keyword(text, now0, cfg) = NoDate
    BY DEF Keyword
<1>3. /\ text.form # "in" => ParseRelative(text, now0) = NoDate
      /\ text.form # "ago" => ParseAgo(text, now0) = NoDate
    BY DEF ParseRelative, ParseAgo
<1>4. text.form # "next" => ParseNextWeekday(text, now0, cfg) = NoDate
    BY DEF ParseNextWeekday
<1>5. text.form # "base" => ParseDateWithTime(text, now0) = NoDate
    BY DEF ParseDateWithTime
<1>6. text.form # "weekday" => /\ ParseWeekdayWithTime(text, now0) = NoDate
                               /\ StandaloneWeekday(text, now0, cfg) = NoDate
    BY DEF ParseWeekdayWithTime, StandaloneWeekday
<1>7. text.form # "monthday" => ParseMonthDay(text, now0, cfg) = NoDate
    BY DEF ParseMonthDay
<1>8. text.form # "time" => ParseTimeOnly(text, now0, cfg) = NoDate
    BY DEF ParseTimeOnly
<1> QED BY <1>1, <1>2, <1>3, <1>4, <1>5, <1>6, <1>7, <1>8

LEMMA MinIs ==
    ASSUME NEW S, NEW least \in S, \A k \in S : k \in Int /\ least <= k
    PROVE  Min(S) = least
<1>1. /\ Min(S) \in S /\ \A k \in S : Min(S) <= k
    <2>1. \E x \in S : \A k \in S : x <= k
        OBVIOUS
    <2>2. Min(S) = CHOOSE x \in S : \A k \in S : x <= k
        BY Zenon DEF Min
    <2> QED BY <2>1, <2>2
<1>2. Min(S) \in Int /\ least \in Int /\ Min(S) <= least /\ least <= Min(S)
    BY <1>1
<1> QED BY <1>2

LEMMA MaxIs ==
    ASSUME NEW S, NEW most \in S, \A k \in S : k \in Int /\ k <= most
    PROVE  Max(S) = most
<1>1. /\ Max(S) \in S /\ \A k \in S : Max(S) >= k
    <2>1. \E x \in S : \A k \in S : x >= k
        OBVIOUS
    <2>2. Max(S) = CHOOSE x \in S : \A k \in S : x >= k
        BY Zenon DEF Max
    <2> QED BY <2>1, <2>2
<1>2. Max(S) \in Int /\ most \in Int /\ most <= Max(S) /\ Max(S) <= most
    BY <1>1
<1> QED BY <1>2

(* The first attempt that is a date is the answer. *)
LEMMA FirstDecides ==
    ASSUME NEW text, NEW now0, NEW cfg, NEW i \in 1..11,
           \A k \in 1..11 : k < i => Attempts(text, now0, cfg)[k] = NoDate,
           Attempts(text, now0, cfg)[i] # NoDate \/ \A k \in 1..11 : k # i => Attempts(text, now0, cfg)[k] = NoDate
    PROVE  ParseDateRelativeTo(text, now0, cfg) = Attempts(text, now0, cfg)[i]
<1> DEFINE attempts == Attempts(text, now0, cfg)
           hits == {k \in DOMAIN attempts : attempts[k] # NoDate}
<1>1. DOMAIN attempts = 1..11
    BY DEF Attempts
<1>2. ParseDateRelativeTo(text, now0, cfg) = IF hits = {} THEN NoDate ELSE attempts[Min(hits)]
    BY Zenon DEF ParseDateRelativeTo
<1> HIDE DEF attempts
<1>3. CASE attempts[i] # NoDate
    <2>1. i \in hits /\ \A k \in hits : k \in Int /\ i <= k
        BY <1>1, <1>3 DEF attempts
    <2> HIDE DEF hits
    <2>2. Min(hits) = i
        BY <2>1, MinIs
    <2> QED BY <1>2, <2>1, <2>2 DEF attempts
<1>4. CASE attempts[i] = NoDate
    <2>1. hits = {}
        BY <1>1, <1>4 DEF attempts
    <2> QED BY <1>2, <1>4, <2>1 DEF attempts
<1> QED BY <1>3, <1>4

LEMMA FormDecides ==
    ASSUME NEW text, NEW now0, NEW cfg
    PROVE  LET parsed == ParseDateRelativeTo(text, now0, cfg)
           IN  /\ text.form = "standard" =>
                    parsed = IF TryStandardFormats(text) # NoDate THEN TryStandardFormats(text)
                             ELSE ParseDateTimeParts(text)
               /\ text.form = "keyword" => parsed = Keyword(text, now0, cfg)
               /\ text.form = "in" => parsed = ParseRelative(text, now0)
               /\ text.form = "ago" => parsed = ParseAgo(text, now0)
               /\ text.form = "next" => parsed = ParseNextWeekday(text, now0, cfg)
               /\ text.form = "base" => parsed = ParseDateWithTime(text, now0)
               /\ text.form = "weekday" =>
                    parsed = IF ParseWeekdayWithTime(text, now0) # NoDate THEN ParseWeekdayWithTime(text, now0)
                             ELSE StandaloneWeekday(text, now0, cfg)
               /\ text.form = "monthday" =>
                    parsed = IF TryStandardFormats(text) # NoDate THEN TryStandardFormats(text)
                             ELSE ParseMonthDay(text, now0, cfg)
               /\ text.form = "time" => parsed = ParseTimeOnly(text, now0, cfg)
               /\ text.form = "other" => parsed = NoDate
<1> DEFINE a == Attempts(text, now0, cfg)
           parsed == ParseDateRelativeTo(text, now0, cfg)
<1>1. /\ a[1] = TryStandardFormats(text) /\ a[2] = Keyword(text, now0, cfg)
      /\ a[3] = ParseRelative(text, now0) /\ a[4] = ParseAgo(text, now0)
      /\ a[5] = ParseNextWeekday(text, now0, cfg) /\ a[6] = ParseDateWithTime(text, now0)
      /\ a[7] = ParseWeekdayWithTime(text, now0) /\ a[8] = ParseMonthDay(text, now0, cfg)
      /\ a[9] = StandaloneWeekday(text, now0, cfg) /\ a[10] = ParseTimeOnly(text, now0, cfg)
      /\ a[11] = ParseDateTimeParts(text)
    BY DEF Attempts
<1>2. /\ text.form \notin {"standard", "monthday"} => a[1] = NoDate
      /\ text.form # "standard" => a[11] = NoDate
      /\ text.form # "keyword" => a[2] = NoDate
      /\ text.form # "in" => a[3] = NoDate
      /\ text.form # "ago" => a[4] = NoDate
      /\ text.form # "next" => a[5] = NoDate
      /\ text.form # "base" => a[6] = NoDate
      /\ text.form # "weekday" => a[7] = NoDate /\ a[9] = NoDate
      /\ text.form # "monthday" => a[8] = NoDate
      /\ text.form # "time" => a[10] = NoDate
    BY <1>1, ParsersRefuse
<1>3. \A i \in 1..11 :
        /\ \A k \in 1..11 : k < i => a[k] = NoDate
        /\ a[i] # NoDate \/ \A k \in 1..11 : k # i => a[k] = NoDate
        => parsed = a[i]
    BY FirstDecides
<1> HIDE DEF a, parsed
<1>4. text.form = "standard" => parsed = IF a[1] # NoDate THEN a[1] ELSE a[11]
    BY <1>2, <1>3
<1>5. text.form = "keyword" => parsed = a[2]
    BY <1>2, <1>3
<1>6. text.form = "in" => parsed = a[3]
    BY <1>2, <1>3
<1>7. text.form = "ago" => parsed = a[4]
    BY <1>2, <1>3
<1>8. text.form = "next" => parsed = a[5]
    BY <1>2, <1>3
<1>9. text.form = "base" => parsed = a[6]
    BY <1>2, <1>3
<1>10. text.form = "weekday" => parsed = IF a[7] # NoDate THEN a[7] ELSE a[9]
    BY <1>2, <1>3
<1>11. text.form = "monthday" => parsed = IF a[1] # NoDate THEN a[1] ELSE a[8]
    BY <1>2, <1>3
<1>12. text.form = "time" => parsed = a[10]
    BY <1>2, <1>3
<1>13. text.form = "other" => parsed = NoDate
    BY <1>2, <1>3
<1> QED BY <1>1, <1>4, <1>5, <1>6, <1>7, <1>8, <1>9, <1>10, <1>11, <1>12, <1>13 DEF parsed

-----------------------------------------------------------------------------
(* Times of day. *)
LEMMA TimesParsed ==
    ASSUME NEW c \in ClockText
    PROVE  /\ ParseTimeStr(c) \in Nat \cup {NoTime} /\ NoTime \notin Nat
           /\ TimesMeant(c) = IF ParseTimeStr(c) = NoTime THEN {} ELSE {ParseTimeStr(c)}
<1>1. CASE c \in {Nothing, Rubbish}
    BY <1>1 DEF Nothing, Rubbish, ParseTimeStr, TimesMeant, NoTime
<1>2. CASE c \in WrittenTime /\ c.half = "24h"
    <2>1. c.h \in Nat /\ c.m \in Nat /\ c.half = "24h"
        BY <1>2 DEF WrittenTime
    <2>2. /\ ParseTimeStr(c) = IF c.h <= 23 /\ c.m <= 59 THEN 60 * c.h + c.m ELSE NoTime
          /\ TimesMeant(c) = IF c.h <= 23 /\ c.m <= 59 THEN {60 * c.h + c.m} ELSE {}
        BY <2>1 DEF ParseTimeStr, TimesMeant
    <2>3. CASE c.h <= 23 /\ c.m <= 59
        <3>1. 60 * c.h + c.m \in Nat
            BY <2>1
        <3> QED BY <2>2, <2>3, <3>1 DEF NoTime
    <2>4. CASE ~(c.h <= 23 /\ c.m <= 59)
        BY <2>2, <2>4 DEF NoTime
    <2> QED BY <2>3, <2>4
<1>3. CASE c \in WrittenTime /\ c.half \in {"am", "pm"}
    <2>1. c.h \in Nat /\ c.m \in Nat /\ c.half \in {"am", "pm"}
        BY <1>3 DEF WrittenTime
    <2>2. CASE c.h \notin 1..12
        BY <2>1, <2>2 DEF ParseTimeStr, TimesMeant, NoTime
    <2>3. CASE c.h \in 1..12
        <3>1. ParseTimeStr(c) = 60 * HourOfDay(c) + c.m
            BY <2>1, <2>3 DEF ParseTimeStr
        <3>2. HourOfDay(c) \in 0..23
            BY <2>1, <2>3 DEF HourOfDay
        <3>3. \A x \in 0..23 : (x % 12 = c.h % 12 /\ (x < 12) = (c.half = "am")) <=> x = HourOfDay(c)
            BY <2>1, <2>3 DEF HourOfDay
        <3>4. TimesMeant(c) = {60 * x + c.m : x \in {x \in 0..23 : c.h \in 1..12 /\ x % 12 = c.h % 12
                                                                /\ (x < 12) = (c.half = "am")}}
            BY <2>1 DEF TimesMeant
        <3>5. {x \in 0..23 : c.h \in 1..12 /\ x % 12 = c.h % 12 /\ (x < 12) = (c.half = "am")} = {HourOfDay(c)}
            BY <2>3, <3>2, <3>3
        <3>6. TimesMeant(c) = {60 * HourOfDay(c) + c.m}
            BY <3>4, <3>5
        <3> QED BY <2>1, <3>1, <3>2, <3>6 DEF NoTime
    <2> QED BY <2>2, <2>3
<1> QED BY <1>1, <1>2, <1>3 DEF ClockText, WrittenTime

(* What a text of each form is. *)
LEMMA FormsTell ==
    /\ \A text \in StandardText : text.form = "standard"
    /\ \A text \in KeywordText : text.form = "keyword"
    /\ \A text \in ShiftText : text.form \in {"in", "ago"}
    /\ \A text \in WeekdayText : text.form \in {"next", "weekday"}
    /\ \A text \in BaseText : text.form = "base"
    /\ \A text \in MonthDayText : text.form = "monthday"
    /\ \A text \in TimeText : text.form = "time"
    /\ \A text \in OtherText : text.form \in {"empty", "blank", "other"}
<1>1. \A text \in StandardText : text.form = "standard"
    BY DEF StandardText
<1>2. \A text \in KeywordText : text.form = "keyword"
    BY DEF KeywordText
<1>3. \A text \in ShiftText : text.form \in {"in", "ago"}
    BY DEF ShiftText
<1>4. \A text \in WeekdayText : text.form \in {"next", "weekday"}
    BY DEF WeekdayText
<1>5. \A text \in BaseText : text.form = "base"
    BY DEF BaseText
<1>6. \A text \in MonthDayText : text.form = "monthday"
    BY DEF MonthDayText
<1>7. \A text \in TimeText : text.form = "time"
    BY DEF TimeText
<1>8. \A text \in OtherText : text.form \in {"empty", "blank", "other"}
    BY DEF OtherText
<1> QED BY <1>1, <1>2, <1>3, <1>4, <1>5, <1>6, <1>7, <1>8

LEMMA TextForms ==
    ASSUME NEW text \in DateText
    PROVE  /\ text.form = "standard" => text \in StandardText
           /\ text.form = "keyword" => text \in KeywordText
           /\ text.form \in {"in", "ago"} => text \in ShiftText
           /\ text.form \in {"next", "weekday"} => text \in WeekdayText
           /\ text.form = "base" => text \in BaseText
           /\ text.form = "monthday" => text \in MonthDayText
           /\ text.form = "time" => text \in TimeText
<1>1. \/ text \in StandardText \/ text \in KeywordText \/ text \in ShiftText \/ text \in WeekdayText
      \/ text \in BaseText \/ text \in MonthDayText \/ text \in TimeText \/ text \in OtherText
    BY DEF DateText
<1> QED BY <1>1, FormsTell

LEMMA DaysOfTimes ==
    ASSUME NEW t \in Int
    PROVE  /\ DayOf(t) \in Int /\ ClockOf(t) \in 0..(PerDay - 1)
           /\ t = At(DayOf(t), ClockOf(t))
           /\ \A n \in Int : AddDays(t, n) \in Int /\ DayOf(AddDays(t, n)) = DayOf(t) + n
                                /\ ClockOf(AddDays(t, n)) = ClockOf(t)
           /\ \A m \in Int : TodayAt(t, m) \in Int
BY DEF DayOf, ClockOf, At, AddDays, TodayAt, PerDay

LEMMA MonthDayTexts ==
    ASSUME NEW text \in MonthDayText
    PROVE  /\ text.form = "monthday" /\ text.month \in 1..12 /\ text.d \in Nat /\ text.year \in Nat
           /\ text.clock \in ClockText
<1>1. \/ text \in [form : {"monthday"}, month : 1..12, d : Nat, year : Nat, clock : ClockText, written : {"freely"}]
      \/ text \in [form : {"monthday"}, month : 1..12, d : Nat, year : Years, clock : {Nothing},
                   written : {"2 Jan 2006"}]
    BY DEF MonthDayText
<1>2. Years \subseteq Nat /\ Nothing \in ClockText
    BY DEF Years, ClockText
<1> QED BY <1>1, <1>2

(* A month day in a layout is taken by the layouts, and no clock is asked.   *)
LEMMA LayoutDecides ==
    ASSUME NEW text \in MonthDayText, NEW from, NEW cfg
    PROVE  LET day == DayNumber(text.year, text.month, text.d)
           IN  /\ InLayout(text) => /\ day \in Int /\ Civil(day) = <<text.year, text.month, text.d>>
                                    /\ ParseDateRelativeTo(text, from, cfg) = At(day, 0)
               /\ ~InLayout(text) => ParseDateRelativeTo(text, from, cfg) = ParseMonthDay(text, from, cfg)
<1> DEFINE day == DayNumber(text.year, text.month, text.d)
<1>1. text.form = "monthday" /\ text.month \in 1..12 /\ text.d \in Nat /\ text.year \in Nat
    BY MonthDayTexts
<1>2. InLayout(text) <=> AsLayout(text)
    BY <1>1 DEF InLayout, AsLayout, OutsideCalendar
<1>3. TryStandardFormats(text) = IF InLayout(text) THEN At(day, 0) ELSE NoDate
    BY <1>1, <1>2 DEF TryStandardFormats
<1>4. ASSUME InLayout(text)
      PROVE  day \in Int /\ Civil(day) = <<text.year, text.month, text.d>> /\ At(day, 0) # NoDate
    <2>1. day \in Int /\ Civil(day) = <<text.year, text.month, text.d>>
        <3>1. ~OutsideCalendar(text.year, text.month, text.d)
            BY <1>4 DEF InLayout
        <3>2. text.d \in 1..DaysIn(text.year, text.month)
            BY <3>1 DEF OutsideCalendar
        <3> QED BY <1>1, <3>2, CivilIs DEF Civil
    <2> HIDE DEF day
    <2>2. At(day, 0) \in Int
        BY <2>1 DEF At, PerDay
    <2> QED BY <2>1, <2>2, NoDateIsNone
<1> HIDE DEF day
<1>5. ParseDateRelativeTo(text, from, cfg) =
        IF TryStandardFormats(text) # NoDate THEN TryStandardFormats(text) ELSE ParseMonthDay(text, from, cfg)
    BY <1>1, FormDecides
<1> QED BY <1>3, <1>4, <1>5 DEF day

LEMMA SteadyWords ==
    ASSUME NEW text \in DateText, Written(text), NEW t \in Int, NEW u \in Int, Steady(text, t, u)
    PROVE  ParseDateRelativeTo(text, t, ToolOpts) = ParseDateRelativeTo(text, u, ToolOpts)
<1> DEFINE cfg == ToolOpts
<1>1. text.form = "keyword" => text.word \in BaseDays \cup {"now", "eod", "eow", "this week", "next week", "next month"}
    BY TextForms DEF KeywordText
<1>2. Keyword(text, t, cfg) = Keyword(text, u, cfg)
    <2>2. CASE text.form # "keyword"
        BY <2>2 DEF Keyword
    <2>3. CASE text.form = "keyword" /\ text.word = "now"
        <3>1. t = u
            BY <2>3 DEF Steady
        <3> QED BY <3>1
    <2>4. CASE text.form = "keyword" /\ text.word # "now"
        <3>1. DayOf(t) = DayOf(u)
            BY <2>4 DEF Steady
        <3>2. \A target, minutes : NextWeekdayAt(t, target, minutes) = NextWeekdayAt(u, target, minutes)
            BY <3>1 DEF NextWeekdayAt
        <3> QED BY <1>1, <2>4, <3>1, <3>2 DEF Keyword, BaseDays
    <2> QED BY <2>2, <2>3, <2>4
<1>3. ParseRelative(text, t) = ParseRelative(text, u) /\ ParseAgo(text, t) = ParseAgo(text, u)
    <2>1. text.form \in {"in", "ago"} => t = u
        BY DEF Steady
    <2> QED BY <2>1 DEF ParseRelative, ParseAgo
<1>4. /\ ParseNextWeekday(text, t, cfg) = ParseNextWeekday(text, u, cfg)
      /\ ParseWeekdayWithTime(text, t) = ParseWeekdayWithTime(text, u)
      /\ StandaloneWeekday(text, t, cfg) = StandaloneWeekday(text, u, cfg)
    <2>1. text.form \in {"next", "weekday"} => DayOf(t) = DayOf(u)
        BY DEF Steady
    <2> QED BY <2>1 DEF ParseNextWeekday, ParseWeekdayWithTime, StandaloneWeekday, NextWeekdayAt
<1>5. ParseDateWithTime(text, t) = ParseDateWithTime(text, u)
    <2>1. text.form = "base" => DayOf(t) = DayOf(u) /\ text.word \in BaseDays
        <3>1. text.form = "base" => DayOf(t) = DayOf(u)
            BY DEF Steady
        <3>2. text.form = "base" => text.word \in BaseDays
            BY TextForms DEF BaseText
        <3> QED BY <3>1, <3>2
    <2>2. text.word \in BaseDays /\ DayOf(t) = DayOf(u) =>
            DayOf(ResolveBaseDate(text.word, t)) = DayOf(ResolveBaseDate(text.word, u))
        BY DaysOfTimes DEF ResolveBaseDate, BaseDays
    <2> QED BY <2>1, <2>2 DEF ParseDateWithTime, TodayAt
<1>9. CASE text.form = "monthday" /\ InLayout(text)
    <2>1. text \in MonthDayText
        BY <1>9, TextForms
    <2> QED BY <1>9, <2>1, LayoutDecides
<1> SUFFICES ASSUME ~(text.form = "monthday" /\ InLayout(text))
             PROVE  ParseDateRelativeTo(text, t, cfg) = ParseDateRelativeTo(text, u, cfg)
    BY <1>9
<1>6. ParseMonthDay(text, t, cfg) = ParseMonthDay(text, u, cfg)
    <2>1. text.form = "monthday" => text.year \in YearsGiven \/ Year(DayOf(t)) = Year(DayOf(u))
        BY DEF Steady
    <2>2. CASE text.form # "monthday"
        BY <2>2 DEF ParseMonthDay
    <2>3. CASE text.form = "monthday"
        <3> DEFINE y(v) == IF text.year \in YearsGiven THEN text.year ELSE Year(DayOf(v))
                   parsed(year) ==
                       LET time == IF text.year \in YearsGiven \/ text.year = 0 THEN ParseTimeStr(text.clock)
                                   ELSE NoTime
                       IN  IF text.d \notin 1..DaysIn(year, text.month) THEN NoDate
                           ELSE At(DayNumber(year, text.month, text.d),
                                   IF time = NoTime THEN 60 * cfg.defaultHour ELSE time)
        <3>1. y(t) = y(u)
            BY <2>1, <2>3
        <3>2. \A v : ParseMonthDay(text, v, cfg) = parsed(y(v))
            BY <2>3 DEF ParseMonthDay
        <3> HIDE DEF y, parsed
        <3> QED BY <3>1, <3>2
    <2> QED BY <2>2, <2>3
<1>7. ParseTimeOnly(text, t, cfg) = ParseTimeOnly(text, u, cfg)
    <2> SUFFICES ASSUME text.form = "time", ParseTimeStr(text.clock) # NoTime
                 PROVE  ParseTimeOnly(text, t, cfg) = ParseTimeOnly(text, u, cfg)
        BY DEF ParseTimeOnly
    <2> DEFINE x == ParseTimeStr(text.clock)
    <2>1. x \in Nat /\ TimesMeant(text.clock) = {x}
        <3>1. text.clock \in ClockText
            BY TextForms DEF TimeText
        <3> QED BY <3>1, TimesParsed
    <2> HIDE DEF x
    <2>2. /\ DayOf(t) = DayOf(u)
          /\ ~((IF t < u THEN t ELSE u) <= TodayAt(IF t < u THEN t ELSE u, x)
               /\ TodayAt(IF t < u THEN t ELSE u, x) < (IF t < u THEN u ELSE t))
        BY <2>1 DEF Steady
    <2>3. TodayAt(t, x) = TodayAt(u, x) /\ TodayAt(t, x) \in Int
        BY <2>1, <2>2, DaysOfTimes DEF TodayAt
    <2>4. TodayAt(t, x) < t <=> TodayAt(u, x) < u
        BY <2>2, <2>3
    <2> QED BY <2>3, <2>4 DEF ParseTimeOnly, x
<1>8. Attempts(text, t, cfg) = Attempts(text, u, cfg)
    BY <1>2, <1>3, <1>4, <1>5, <1>6, <1>7 DEF Attempts
<1> QED BY <1>8 DEF ParseDateRelativeTo

-----------------------------------------------------------------------------
(* A retry. *)
LEMMA CallsMade ==
    ASSUME NEW c \in Made
    PROVE  /\ WellFormed(c)
           /\ c.tool \in EventTools \cup CreateTools \cup DeleteTools \cup StatusTools \cup RestCalls \cup {"update_reminder"}
BY CallsAreWellFormed DEF Made, WellFormed

LEMMA DateArguments ==
    ASSUME NEW c \in Made, c.tool \notin RestCalls, NEW f \in DOMAIN c.args \cap DateFields
    PROVE  c.args[f] \in DateText
<1>1. c.args[f] \in Holds(f, DateText)
    BY CallsMade DEF WellFormed
<1>2. Holds(f, DateText) = DateText
    BY DEF Holds, DateFields, StringFields, FlagFields
<1> QED BY <1>1, <1>2

LEMMA BodiesAgree ==
    ASSUME NEW c \in Made, c.tool \notin CreateTools, NEW t \in Nat, NEW u \in Nat,
           \A f \in DatesOf(c) : Steady(c.args[f], t, u)
    PROVE  Body(c, t) = Body(c, u)
<1>1. CASE c.tool \in UpdateTools
    <2>1. c.tool \notin RestCalls
        BY <1>1 DEF UpdateTools, RestCalls
    <2>2. \A f \in Named(c.args) \cap DateFields : ParseDate(c.args[f], t) = ParseDate(c.args[f], u)
        <3> SUFFICES ASSUME NEW f \in Named(c.args) \cap DateFields
                     PROVE  ParseDate(c.args[f], t) = ParseDate(c.args[f], u)
            OBVIOUS
        <3>1. f \in DOMAIN c.args \cap DateFields
            BY DEF Named
        <3>2. c.args[f] \in DateText
            BY <2>1, <3>1, DateArguments
        <3>3. CASE Written(c.args[f])
            <4>1. Steady(c.args[f], t, u)
                BY <3>1, <3>3 DEF DatesOf
            <4>2. ParseDateRelativeTo(c.args[f], t, ToolOpts) = ParseDateRelativeTo(c.args[f], u, ToolOpts)
                BY <3>2, <3>3, <4>1, SteadyWords
            <4> QED BY <4>2 DEF ParseDate
        <3>4. CASE ~Written(c.args[f])
            BY <3>4 DEF ParseDate, Written
        <3> QED BY <3>3, <3>4
    <2>3. UpdateBody(c.args, t) = UpdateBody(c.args, u)
        BY <2>2 DEF UpdateBody, Bodied
    <2> QED BY <1>1, <2>3 DEF Body, UpdateTools
<1>2. CASE c.tool \notin UpdateTools
    <2>1. c.tool # "create_event" /\ c.tool # "create_reminder"
        BY DEF CreateTools
    <2> QED BY <1>2, <2>1 DEF Body
<1> QED BY <1>1, <1>2

LEMMA StoredBy ==
    ASSUME NEW c, NEW body, NEW item, NEW withKit
    PROVE  /\ c.tool = "create_event" => Stored(c, body, item, withKit) = NewEvent(MarshalCreateEvent(body))
           /\ c.tool = "create_reminder" =>
                Stored(c, body, item, withKit) = NewReminder(MarshalCreateReminder(body), withKit)
           /\ c.tool \in {"update_event", "patch_event"} =>
                Stored(c, body, item, withKit) = PatchedEvent(item, MarshalUpdateInput(body))
           /\ c.tool \in {"update_reminder", "patch_reminder"} =>
                Stored(c, body, item, withKit) = PatchedReminder(item, MarshalUpdateInput(body), withKit)
           /\ c.tool \in StatusTools =>
                Stored(c, body, item, withKit) = [item EXCEPT !.completed = c.tool = "complete_reminder"]
           /\ c.tool \in DeleteTools => Stored(c, body, item, withKit) = Null
<1> DEFINE tool == c.tool
<1>1. Stored(c, body, item, withKit) =
        CASE tool = "create_event" -> NewEvent(MarshalCreateEvent(body))
          [] tool = "create_reminder" -> NewReminder(MarshalCreateReminder(body), withKit)
          [] tool \in {"update_event", "patch_event"} -> PatchedEvent(item, MarshalUpdateInput(body))
          [] tool \in {"update_reminder", "patch_reminder"} -> PatchedReminder(item, MarshalUpdateInput(body), withKit)
          [] tool \in StatusTools -> [item EXCEPT !.completed = tool = "complete_reminder"]
          [] tool \in DeleteTools -> Null
    BY Zenon DEF Stored
<1> HIDE DEF tool
<1>2. CASE tool = "create_event"
    BY <1>1, <1>2 DEF StatusTools, DeleteTools, tool
<1>3. CASE tool = "create_reminder"
    BY <1>1, <1>3 DEF StatusTools, DeleteTools, tool
<1>4. CASE tool \in {"update_event", "patch_event"}
    BY <1>1, <1>4 DEF StatusTools, DeleteTools, tool
<1>5. CASE tool \in {"update_reminder", "patch_reminder"}
    BY <1>1, <1>5 DEF StatusTools, DeleteTools, tool
<1>6. CASE tool \in StatusTools
    BY <1>1, <1>6 DEF StatusTools, DeleteTools, tool
<1>7. CASE tool \in DeleteTools
    BY <1>1, <1>7 DEF StatusTools, DeleteTools, tool
<1> QED BY <1>2, <1>3, <1>4, <1>5, <1>6, <1>7 DEF tool

LEMMA StoredTwice ==
    ASSUME NEW c \in Made, c.tool \notin CreateTools \cup DeleteTools, NEW body, NEW item, NEW withKit
    PROVE  Stored(c, body, Stored(c, body, item, withKit), withKit) = Stored(c, body, item, withKit)
<1> DEFINE keys == MarshalUpdateInput(body)
<1>1. CASE c.tool \in {"update_event", "patch_event"}
    <2>1. \A x : Stored(c, body, x, withKit) = PatchedEvent(x, keys)
        BY <1>1, StoredBy
    <2> HIDE DEF keys
    <2>2. PatchedEvent(PatchedEvent(item, keys), keys) = PatchedEvent(item, keys)
        BY DEF PatchedEvent
    <2> QED BY <2>1, <2>2
<1>2. CASE c.tool \in {"update_reminder", "patch_reminder"}
    <2>1. \A x : Stored(c, body, x, withKit) = PatchedReminder(x, keys, withKit)
        BY <1>2, StoredBy
    <2> HIDE DEF keys
    <2> DEFINE once == PatchedReminder(item, keys, withKit)
    <2>2. DOMAIN once = DOMAIN item
        BY DEF PatchedReminder
    <2>3. \A f \in DOMAIN item :
            /\ f = "alarms" => once[f] = AlarmsAfter(item, keys)
            /\ f = "recurrenceRules" => once[f] = IF f \in DOMAIN keys THEN NewRules(keys[f]) ELSE item[f]
            /\ f = "flagged" => once[f] = IF withKit THEN FieldIn(keys, f, item[f]) ELSE item[f]
            /\ f \notin {"alarms", "recurrenceRules", "flagged"} => once[f] = FieldIn(keys, f, item[f])
        BY DEF PatchedReminder, FieldIn
    <2> HIDE DEF once
    <2>4. "alarms" \in DOMAIN item => AlarmsAfter(once, keys) = AlarmsAfter(item, keys)
        BY <2>3 DEF AlarmsAfter
    <2>5. \A f \in DOMAIN once :
            (CASE f = "alarms" -> AlarmsAfter(once, keys)
               [] f = "recurrenceRules" /\ f \in DOMAIN keys -> NewRules(keys[f])
               [] f = "flagged" -> IF withKit THEN FieldIn(keys, f, once[f]) ELSE once[f]
               [] OTHER -> FieldIn(keys, f, once[f])) = once[f]
        BY <2>2, <2>3, <2>4 DEF FieldIn
    <2>6. once = [f \in DOMAIN once |-> once[f]]
        BY DEF once, PatchedReminder
    <2>7. PatchedReminder(once, keys, withKit) = once
        BY <2>5, <2>6 DEF PatchedReminder
    <2> QED BY <2>1, <2>7 DEF once
<1>3. CASE c.tool \in StatusTools
    <2>1. \A x : Stored(c, body, x, withKit) = [x EXCEPT !.completed = c.tool = "complete_reminder"]
        BY <1>3, StoredBy
    <2> QED BY <2>1
<1> QED BY <1>1, <1>2, <1>3, CallsMade DEF EventTools, CreateTools, DeleteTools, RestCalls

(* RetriesAgree (annotations.go:39-57) *)
LEMMA RetryChangesNothing ==
    ASSUME TriesAsAsked, LogAsServed
    PROVE  RetriesAgree
<1> SUFFICES ASSUME NEW n \in DOMAIN log \ {1},
                    tries[log[n - 1].try].call = tries[log[n].try].call,
                    tries[log[n].try].call.tool \notin CreateTools,
                    \A f \in DatesOf(tries[log[n].try].call) :
                        Steady(tries[log[n].try].call.args[f], tries[log[n - 1].try].at, tries[log[n].try].at)
             PROVE  \A id \in Ids :
                      \/ log[n].items[id] = log[n - 1].items[id]
                      \/ /\ tries[log[n].try].call.tool \in BatchTools
                         /\ id \in tries[log[n].try].call.ids \ log[n - 1].ids
                         /\ log[n].items[id] = Null
    BY DEF RetriesAgree
<1> DEFINE first == tries[log[n - 1].try]
           second == tries[log[n].try]
           c == second.call
           before == ItemsAfter(n - 2)
           between == log[n - 1].items
           Hit(state) == {id \in c.ids : state[id] # Null /\ state[id].kind = KindOf(c)}
<1>1. n \in Nat /\ n - 1 \in DOMAIN log /\ n - 1 # 0
    BY LenProperties DEF LogAsServed
<1>2. AsServed(n - 1) /\ AsServed(n)
    BY <1>1 DEF LogAsServed
<1>3. ItemsAfter(n - 1) = between /\ (n - 1) - 1 = n - 2
    BY <1>1 DEF ItemsAfter
<1>4. AsAsked(first) /\ AsAsked(second) /\ first.pc # "refused" /\ second.pc # "refused"
    BY <1>2 DEF AsServed, TriesAsAsked
<1>5. c \in Made /\ first.body = second.body
    BY <1>4, BodiesAgree DEF AsAsked
<1> DEFINE body == second.body
<1>6. /\ log[n - 1].ids \subseteq Hit(before) /\ log[n].ids \subseteq Hit(between)
      /\ c.tool \notin BatchTools => log[n - 1].ids = Hit(before) /\ log[n].ids = Hit(between)
      /\ between = [id \in Ids |-> IF id \in log[n - 1].ids THEN Stored(c, body, before[id], kit) ELSE before[id]]
      /\ log[n].items = [id \in Ids |-> IF id \in log[n].ids THEN Stored(c, body, between[id], kit)
                                                            ELSE between[id]]
    BY <1>2, <1>3, <1>5 DEF AsServed
<1> HIDE DEF body, between, before
<1>7. CASE c.tool \in BatchTools
    <2>1. \A item : Stored(c, body, item, kit) = Null
        BY <1>7, StoredBy DEF BatchTools, DeleteTools
    <2>2. \A id \in Ids : id \in log[n].ids => id \in c.ids \ log[n - 1].ids /\ log[n].items[id] = Null
        <3>1. \A id \in Ids : id \in log[n - 1].ids => between[id] = Null
            BY <1>6, <2>1
        <3>2. \A id \in log[n].ids : id \in c.ids /\ between[id] # Null
            BY <1>6
        <3> QED BY <1>6, <2>1, <3>1, <3>2
    <2>3. \A id \in Ids : id \notin log[n].ids => log[n].items[id] = between[id]
        BY <1>6
    <2> QED BY <1>7, <2>2, <2>3 DEF between, c
<1>8. CASE c.tool \notin BatchTools
    <2> HIDE DEF c
    <2>1. \A id \in Ids : id \in Hit(between) => id \in Hit(before)
        BY <1>6, <1>8
    <2>2. \A id \in Ids : id \in Hit(between) => Stored(c, body, between[id], kit) = between[id]
        <3> SUFFICES ASSUME NEW id \in Ids, id \in Hit(between)
                     PROVE  Stored(c, body, between[id], kit) = between[id]
            OBVIOUS
        <3>1. between[id] = Stored(c, body, before[id], kit) /\ between[id] # Null
            BY <1>6, <1>8, <2>1
        <3>2. c.tool \notin DeleteTools
            <4> SUFFICES ASSUME c.tool \in DeleteTools PROVE FALSE
                OBVIOUS
            <4>1. Stored(c, body, before[id], kit) = Null
                BY StoredBy
            <4> QED BY <3>1, <4>1
        <3>3. c.tool \notin CreateTools
            BY DEF c
        <3> QED BY <1>5, <3>1, <3>2, <3>3, StoredTwice
    <2>3. \A id \in Ids : log[n].items[id] = between[id]
        BY <1>6, <1>8, <2>2
    <2> QED BY <2>3 DEF between
<1> QED BY <1>7, <1>8

(* A call made again right after the same one, an update, a completion or a  *)
(* deletion, leaves the items as the first did, however late that took       *)
(* effect, unless its dates mean another moment by then; of a batch it may   *)
(* delete what the first left over (annotations.go:39-57).                   *)
THEOREM RetriesAlwaysAgree == Spec => []RetriesAgree
BY EveryEffectIsLogged, RetryChangesNothing, PTL

-----------------------------------------------------------------------------
(* What each form of text means. *)
LEMMA AtDay ==
    ASSUME NEW day \in Int, NEW minutes \in Int
    PROVE  /\ At(day, minutes) \in Int
           /\ (At(day, minutes) - minutes) % PerDay = 0 /\ DayOf(At(day, minutes) - minutes) = day
BY DEF At, DayOf, PerDay

LEMMA Weekdays ==
    ASSUME NEW day \in Int, NEW k \in Int
    PROVE  Weekday(day) \in 0..6 /\ Weekday(day + k) = (Weekday(day) + k) % 7
BY DEF Weekday

LEMMA Between ==
    ASSUME NEW day \in Int, NEW n \in Nat, NEW x \in day..((day + n) - 1)
    PROVE  \E k \in 0..(n - 1) : x = day + k
<1>1. x - day \in 0..(n - 1) /\ x = day + (x - day)
    OBVIOUS
<1> QED BY <1>1

(* Civil dates of the days of a month, and of the first of the next.         *)
LEMMA DaysOfMonth ==
    ASSUME NEW day \in Int
    PROVE  LET y == Year(day)
               m == Month(day)
               first == DayNumber(y, m, 1)
           IN  /\ y \in Int /\ m \in 1..12 /\ first \in Int
               /\ DaysIn(y, m) \in 28..31
               /\ DayInMonth(day) \in 1..DaysIn(y, m) /\ day = first + DayInMonth(day) - 1
               /\ DayNumber(y, m + 1, 1) = first + DaysIn(y, m)
               /\ \A d \in 1..DaysIn(y, m) : DayInMonth(first + d - 1) = d
<1> DEFINE y == Year(day)
           m == Month(day)
           first == DayNumber(y, m, 1)
<1>1. y \in Int /\ m \in 1..12 /\ first <= day /\ day < DayNumber(y, m + 1, 1)
    BY YearFound, MonthFound
<1>2. first \in Int /\ DaysIn(y, m) \in 28..31 /\ DayNumber(y, m + 1, 1) = first + DaysIn(y, m)
    BY <1>1, MonthLength
<1>3. DayInMonth(day) = day - first + 1
    BY DEF DayInMonth
<1>4. \A d \in 1..DaysIn(y, m) : DayInMonth(first + d - 1) = d
    BY <1>1, CivilIs
<1> HIDE DEF first, y, m
<1>5. DayInMonth(day) \in 1..DaysIn(y, m) /\ day = first + DayInMonth(day) - 1
    BY <1>1, <1>2, <1>3
<1> QED BY <1>1, <1>2, <1>4, <1>5 DEF first, y, m

LEMMA NextMonthIs ==
    ASSUME NEW y \in Int, NEW m \in 1..12
    PROVE  \E z \in Int, n \in 1..12 :
              12 * z + n = 12 * y + m + 1 /\ DayNumber(y, m + 1, 1) = DayNumber(z, n, 1)
<1>1. CASE m < 12
    BY <1>1
<1>2. CASE m = 12
    <2>1. DayNumber(y, 13, 1) = DayNumber(y + 1, 1, 1)
        BY FirstOfYear
    <2>2. y + 1 \in Int /\ 12 * (y + 1) + 1 = 12 * y + m + 1 /\ m + 1 = 13
        BY <1>2
    <2> QED BY <2>1, <2>2
<1> QED BY <1>1, <1>2

LEMMA NextMonthStarts ==
    ASSUME NEW today \in Int
    PROVE  LET first == DayNumber(Year(today), Month(today) + 1, 1)
           IN  /\ first \in Int /\ first >= today + 1 /\ DayInMonth(first) = 1
               /\ \A x \in (today + 1)..(first - 1) : ~(DayInMonth(x) = 1)
<1> DEFINE y == Year(today)
           m == Month(today)
           start == DayNumber(y, m, 1)
           first == DayNumber(y, m + 1, 1)
<1>1. /\ y \in Int /\ m \in 1..12 /\ start \in Int /\ DaysIn(y, m) \in 28..31
      /\ DayInMonth(today) \in 1..DaysIn(y, m) /\ today = start + DayInMonth(today) - 1
      /\ first = start + DaysIn(y, m)
      /\ \A d \in 1..DaysIn(y, m) : DayInMonth(start + d - 1) = d
    BY DaysOfMonth
<1>2. DayInMonth(first) = 1
    <2>1. PICK z \in Int, n \in 1..12 : first = DayNumber(z, n, 1)
        BY <1>1, NextMonthIs, ZenonT(40)
    <2>2. DaysIn(z, n) \in 28..31
        BY MonthLength
    <2>3. 1 \in 1..DaysIn(z, n)
        BY <2>2
    <2> QED BY <2>1, <2>3, CivilIs
<1> HIDE DEF first, start, y, m
<1>3. first \in Int /\ first >= today + 1
    BY <1>1
<1>4. \A x \in (today + 1)..(first - 1) : ~(DayInMonth(x) = 1)
    <2> SUFFICES ASSUME NEW x \in (today + 1)..(first - 1) PROVE DayInMonth(x) # 1
        OBVIOUS
    <2> DEFINE d == x - start + 1
    <2>1. d \in 2..DaysIn(y, m) /\ d \in 1..DaysIn(y, m) /\ x = start + d - 1
        BY <1>1
    <2> HIDE DEF d
    <2>2. DayInMonth(x) = d
        BY <1>1, <2>1
    <2> QED BY <2>1, <2>2
<1> QED BY <1>2, <1>3, <1>4 DEF first, y, m

(* The next such weekday, today or later.                                    *)
LEMMA ThisWeekdayIs ==
    ASSUME NEW today \in Int, NEW target \in 0..7
    PROVE  LET ahead == (target - Weekday(today)) % 7
           IN  /\ ahead \in 0..6 /\ Weekday(today + ahead) = target % 7
               /\ \A x \in today..((today + ahead) - 1) : ~(Weekday(x) = target % 7)
<1> DEFINE w == Weekday(today)
           ahead == (target - w) % 7
<1>1. w \in 0..6
    BY Weekdays
<1> HIDE DEF w
<1>2. ahead \in 0..6 /\ ahead \in Int /\ (w + ahead) % 7 = target % 7
    BY <1>1
<1>3. \A k \in 0..(ahead - 1) : (w + k) % 7 # target % 7
    BY <1>1
<1> HIDE DEF ahead
<1>4. Weekday(today + ahead) = target % 7
    BY <1>2, Weekdays DEF w
<1>5. \A x \in today..((today + ahead) - 1) : ~(Weekday(x) = target % 7)
    <2> SUFFICES ASSUME NEW x \in today..((today + ahead) - 1) PROVE Weekday(x) # target % 7
        OBVIOUS
    <2>1. PICK k \in 0..(ahead - 1) : x = today + k
        BY <1>2, Between
    <2>2. k \in Int
        BY <1>2
    <2> QED BY <1>3, <2>1, <2>2, Weekdays DEF w
<1> QED BY <1>2, <1>4, <1>5 DEF ahead, w

(* The next such weekday after today. *)
ComesNext(day, today, target) ==
    /\ day >= today + 1 /\ Weekday(day) = target
    /\ \A x \in (today + 1)..(day - 1) : ~(Weekday(x) = target)

LEMMA NextWeekdayIs ==
    ASSUME NEW now0 \in Int, NEW target \in 0..6, NEW minutes \in Int
    PROVE  \E day \in Int : /\ NextWeekdayAt(now0, target, minutes) = At(day, minutes)
                           /\ ComesNext(day, DayOf(now0), target)
<1> DEFINE today == DayOf(now0)
           w == Weekday(today)
           ahead == IF target - w <= 0 THEN target - w + 7 ELSE target - w
<1>1. today \in Int /\ w \in 0..6
    BY DaysOfTimes, Weekdays
<1>2. NextWeekdayAt(now0, target, minutes) = At(today + ahead, minutes)
    BY DEF NextWeekdayAt
<1> HIDE DEF w
<1>3. ahead \in 1..7
    BY <1>1
<1>4. (w + ahead) % 7 = target
    BY <1>1
<1>5. \A k \in 1..(ahead - 1) : (w + k) % 7 # target
    BY <1>1
<1> HIDE DEF ahead, today
<1>6. Weekday(today + ahead) = target
    BY <1>1, <1>3, <1>4, Weekdays DEF w
<1>7. \A d \in (today + 1)..((today + ahead) - 1) : ~(Weekday(d) = target)
    <2> SUFFICES ASSUME NEW d \in (today + 1)..((today + ahead) - 1) PROVE Weekday(d) # target
        OBVIOUS
    <2>1. d - today \in 1..(ahead - 1) /\ d = today + (d - today) /\ d - today \in Int
        BY <1>1, <1>3
    <2>2. Weekday(today + (d - today)) = (w + (d - today)) % 7
        BY <1>1, <2>1, Weekdays DEF w
    <2> QED BY <1>5, <2>1, <2>2
<1>8. today + ahead \in Int /\ today + ahead >= today + 1
    BY <1>1, <1>3
<1>9. ComesNext(today + ahead, today, target)
    BY <1>6, <1>7, <1>8 DEF ComesNext
<1> QED BY <1>2, <1>8, <1>9 DEF today

LEMMA KeywordMeans ==
    ASSUME NEW text \in KeywordText, NEW from \in Int
    PROVE  /\ Keyword(text, from, ToolOpts) \in Int
           /\ Means(text, from, Keyword(text, from, ToolOpts))
<1> DEFINE today == DayOf(from)
           t == Keyword(text, from, ToolOpts)
<1>0. 60 * ToolOpts.defaultHour = 540
    BY DEF ToolOpts
<1>1. today \in Int /\ text.form = "keyword"
    BY DaysOfTimes, FormsTell
<1>2. text.word \in {"today", "tomorrow", "yesterday", "now", "eod", "eow", "this week", "next week", "next month"}
    BY DEF KeywordText, BaseDays
<1>3. CASE text.word = "today"
    <2>1. t = At(today, 540)
        BY <1>1, <1>3 DEF Keyword, ToolOpts
    <2>2. Means(text, from, t) <=> \E minutes \in {Nine} : (t - minutes) % PerDay = 0 /\ DayOf(t - minutes) = today + 0
        BY <1>1, <1>3 DEF Means, OnDay
    <2> QED BY <1>1, <2>1, <2>2, AtDay DEF Nine
<1>4. CASE text.word = "tomorrow"
    <2>1. t = At(today + 1, 540)
        BY <1>1, <1>4 DEF Keyword, ToolOpts
    <2>2. Means(text, from, t) <=> \E minutes \in {Nine} : (t - minutes) % PerDay = 0 /\ DayOf(t - minutes) = today + 1
        BY <1>1, <1>4 DEF Means, OnDay
    <2> QED BY <1>1, <2>1, <2>2, AtDay DEF Nine
<1>5. CASE text.word = "yesterday"
    <2>1. t = At(today - 1, 540)
        BY <1>1, <1>5 DEF Keyword, ToolOpts
    <2>2. Means(text, from, t) <=> \E minutes \in {Nine} : (t - minutes) % PerDay = 0 /\ DayOf(t - minutes) = today + -1
        BY <1>1, <1>5 DEF Means, OnDay
    <2>3. today - 1 = today + -1 /\ today - 1 \in Int
        BY <1>1
    <2> QED BY <2>1, <2>2, <2>3, AtDay DEF Nine
<1>6. CASE text.word = "now"
    BY <1>1, <1>6 DEF Keyword, Means
<1>7. CASE text.word = "eod"
    <2>1. t = At(today, 17 * 60)
        BY <1>1, <1>7 DEF Keyword, ToolOpts
    <2>2. Means(text, from, t) <=>
            \E minutes \in {17 * 60} : (t - minutes) % PerDay = 0 /\ DayOf(t - minutes) = today
        BY <1>1, <1>7 DEF Means, OnDay
    <2> QED BY <1>1, <2>1, <2>2, AtDay
<1>8. CASE text.word = "eow"
    <2> DEFINE ahead == (Friday - Weekday(today)) % 7
    <2>1. t = At(today + ahead, 17 * 60)
        BY <1>1, <1>8 DEF Keyword, ToolOpts
    <2>2. Means(text, from, t) <=>
            \E minutes \in {17 * 60} :
                /\ (t - minutes) % PerDay = 0
                /\ LET d == DayOf(t - minutes)
                   IN  d >= today /\ Weekday(d) = Friday /\ \A x \in today..(d - 1) : ~(Weekday(x) = Friday)
        BY <1>1, <1>8 DEF Means, OnDay, FirstSuch
    <2>3. /\ ahead \in 0..6 /\ Weekday(today + ahead) = Friday % 7
          /\ \A x \in today..((today + ahead) - 1) : ~(Weekday(x) = Friday % 7)
        <3>1. Friday \in 0..7
            BY DEF Friday
        <3> QED BY <1>1, <3>1, ThisWeekdayIs
    <2>4. Friday % 7 = Friday
        BY DEF Friday
    <2> HIDE DEF ahead
    <2>5. Weekday(today + ahead) = Friday /\ \A x \in today..((today + ahead) - 1) : ~(Weekday(x) = Friday)
        BY <2>3, <2>4
    <2>6. today + ahead \in Int /\ today + ahead >= today
        BY <1>1, <2>3
    <2> QED BY <2>1, <2>2, <2>5, <2>6, AtDay
<1>9. CASE text.word = "this week"
    <2> DEFINE ahead == (7 - Weekday(today)) % 7
    <2>1. t = At(today + ahead, 23 * 60 + 59)
        BY <1>1, <1>9 DEF Keyword
    <2>2. Means(text, from, t) <=>
            \E minutes \in {PerDay - 1} :
                /\ (t - minutes) % PerDay = 0
                /\ LET d == DayOf(t - minutes)
                   IN  d >= today /\ Weekday(d) = Sunday /\ \A x \in today..(d - 1) : ~(Weekday(x) = Sunday)
        BY <1>1, <1>9 DEF Means, OnDay, FirstSuch
    <2>3. /\ ahead \in 0..6 /\ Weekday(today + ahead) = 7 % 7
          /\ \A x \in today..((today + ahead) - 1) : ~(Weekday(x) = 7 % 7)
        <3>1. 7 \in 0..7
            BY DEF Friday
        <3> QED BY <1>1, <3>1, ThisWeekdayIs
    <2>4. 7 % 7 = Sunday
        BY DEF Sunday
    <2> HIDE DEF ahead
    <2>5. Weekday(today + ahead) = Sunday /\ \A x \in today..((today + ahead) - 1) : ~(Weekday(x) = Sunday)
        BY <2>3, <2>4
    <2>6. today + ahead \in Int /\ today + ahead >= today /\ PerDay - 1 = 23 * 60 + 59
        BY <1>1, <2>3 DEF PerDay
    <2> QED BY <2>1, <2>2, <2>5, <2>6, AtDay
<1>10. CASE text.word = "next week"
    <2>1. t = NextWeekdayAt(from, Monday, 540)
        BY <1>0, <1>1, <1>10 DEF Keyword
    <2>2. Means(text, from, t) <=>
            \E minutes \in {Nine} :
                /\ (t - minutes) % PerDay = 0
                /\ LET d == DayOf(t - minutes)
                   IN  d >= today + 1 /\ Weekday(d) = Monday /\ \A x \in (today + 1)..(d - 1) : ~(Weekday(x) = Monday)
        BY <1>1, <1>10 DEF Means, OnDay, FirstSuch
    <2>3. PICK d \in Int : /\ t = At(d, 540) /\ d >= today + 1 /\ Weekday(d) = Monday
                           /\ \A x \in (today + 1)..(d - 1) : ~(Weekday(x) = Monday)
        <3>1. Monday \in 0..6 /\ 540 \in Int
            BY DEF Monday
        <3>2. \E d \in Int : NextWeekdayAt(from, Monday, 540) = At(d, 540) /\ ComesNext(d, DayOf(from), Monday)
            BY <3>1, NextWeekdayIs
        <3> QED BY <2>1, <3>2 DEF ComesNext
    <2> QED BY <2>2, <2>3, AtDay DEF Nine
<1>11. CASE text.word = "next month"
    <2> DEFINE first == DayNumber(Year(today), Month(today) + 1, 1)
    <2>1. t = At(first, 540)
        BY <1>0, <1>1, <1>11 DEF Keyword
    <2>2. Means(text, from, t) <=>
            \E minutes \in {Nine} :
                /\ (t - minutes) % PerDay = 0
                /\ LET d == DayOf(t - minutes)
                   IN  d >= today + 1 /\ DayInMonth(d) = 1 /\ \A x \in (today + 1)..(d - 1) : ~(DayInMonth(x) = 1)
        BY <1>1, <1>11 DEF Means, OnDay, FirstSuch
    <2>3. /\ first \in Int /\ first >= today + 1 /\ DayInMonth(first) = 1
          /\ \A x \in (today + 1)..(first - 1) : ~(DayInMonth(x) = 1)
        BY <1>1, NextMonthStarts
    <2> HIDE DEF first
    <2> QED BY <2>1, <2>2, <2>3, AtDay DEF Nine
<1> QED BY <1>1, <1>2, <1>3, <1>4, <1>5, <1>6, <1>7, <1>8, <1>9, <1>10, <1>11

LEMMA ShiftedMonths ==
    ASSUME NEW from \in Int, NEW n \in Int
    PROVE  AddMonths(from, n) \in Int /\ SameDayIn(AddMonths(from, n), from, n)
<1> DEFINE today == DayOf(from)
           y == Year(today)
           m == Month(today)
           d == DayInMonth(today)
           z == y + (m + n - 1) \div 12
           k == ((m + n - 1) % 12) + 1
           day == DayNumber(y, m + n, d)
           first == DayNumber(z, k, 1)
           over == d - DaysIn(z, k)
<1>1. /\ today \in Int /\ ClockOf(from) \in 0..(PerDay - 1) /\ ClockOf(from) \in Int
      /\ y \in Int /\ m \in 1..12 /\ d \in 1..31
    <2>1. today \in Int /\ ClockOf(from) \in 0..(PerDay - 1)
        BY DaysOfTimes
    <2>2. y \in Int /\ m \in 1..12 /\ DaysIn(y, m) \in 28..31 /\ d \in 1..DaysIn(y, m)
        BY <2>1, DaysOfMonth
    <2> HIDE DEF d, y, m
    <2> QED BY <2>1, <2>2 DEF PerDay
<1>2. AddMonths(from, n) = At(day, ClockOf(from))
    BY DEF AddMonths
<1> HIDE DEF today, y, m, d
<1>3. z \in Int /\ k \in 1..12 /\ 12 * z + k = 12 * y + m + n
    BY <1>1
<1>4. ((12 * y + m + n) - 1) \div 12 = z /\ (((12 * y + m + n) - 1) % 12) + 1 = k
    BY <1>1
<1>5. day = first + d - 1 /\ first \in Int /\ DaysIn(z, k) \in 28..31
    <2>1. day = BeforeYear(z) + BeforeMonth(z, k) + d - 1
        <3> DEFINE months == m + n
        <3>1. months \in Int /\ z = y + (months - 1) \div 12 /\ k = ((months - 1) % 12) + 1
            BY <1>1
        <3> HIDE DEF months
        <3>2. DayNumber(y, months, d) = BeforeYear(z) + BeforeMonth(z, k) + d - 1
            BY <3>1 DEF DayNumber
        <3> QED BY <3>2 DEF months
    <2>2. first = BeforeYear(z) + BeforeMonth(z, k) /\ first \in Int /\ DaysIn(z, k) \in 28..31
        BY <1>3, MonthLength
    <2>3. BeforeYear(z) \in Int /\ BeforeMonth(z, k) \in Int
        BY <1>3, YearLength DEF BeforeMonth
    <2> HIDE DEF first, day, z, k
    <2> QED BY <1>1, <2>1, <2>2, <2>3
<1> HIDE DEF day, first, z, k
<1>6. IF over <= 0 THEN 12 * Year(day) + Month(day) = 12 * y + m + n /\ DayInMonth(day) = d
      ELSE 12 * Year(day) + Month(day) = 12 * y + m + n + 1 /\ DayInMonth(day) = over
    <2>1. CASE over <= 0
        <3>1. d \in 1..DaysIn(z, k)
            BY <1>1, <1>5, <2>1
        <3>2. DayNumber(z, k, d) = first + d - 1 /\ Year(day) = z /\ Month(day) = k /\ DayInMonth(day) = d
            BY <1>3, <1>5, <3>1, CivilIs DEF first
        <3> QED BY <1>3, <2>1, <3>2
    <2>2. CASE ~(over <= 0)
        <3>1. PICK a \in Int, b \in 1..12 : 12 * a + b = 12 * z + k + 1 /\ DayNumber(z, k + 1, 1) = DayNumber(a, b, 1)
            BY <1>3, NextMonthIs
        <3>2. DayNumber(z, k + 1, 1) = first + DaysIn(z, k)
            BY <1>3, MonthLength DEF first
        <3>3. DaysIn(a, b) \in 28..31
            BY MonthLength
        <3>4. over \in 1..DaysIn(a, b) /\ over \in Int
            BY <1>1, <1>5, <2>2, <3>3
        <3>5. day = DayNumber(a, b, 1) + over - 1
            BY <1>1, <1>5, <3>1, <3>2
        <3> HIDE DEF over
        <3>6. Year(day) = a /\ Month(day) = b /\ DayInMonth(day) = over
            BY <3>4, <3>5, CivilIs
        <3>7. 12 * Year(day) + Month(day) = 12 * y + m + n + 1
            BY <1>1, <1>3, <3>1, <3>6
        <3> QED BY <2>2, <3>6, <3>7
    <2> QED BY <2>1, <2>2
<1>7. day \in Int
    BY <1>1, <1>5
<1> DEFINE t == At(day, ClockOf(from))
<1>8. t \in Int /\ DayOf(t) = day /\ ClockOf(t) = ClockOf(from)
    BY <1>1, <1>7 DEF At, DayOf, ClockOf, PerDay
<1> HIDE DEF t
<1>9. SameDayIn(t, from, n)
    BY <1>4, <1>6, <1>8 DEF SameDayIn, today, y, m, d
<1> QED BY <1>2, <1>8, <1>9 DEF t

LEMMA ShiftMeans ==
    ASSUME NEW from \in Int, NEW n \in Int, NEW unit \in {"minute", "hour", "day", "week", "month"}
    PROVE  Shifted(from, n, unit) \in Int /\ Apart(Shifted(from, n, unit), from, n, unit)
<1>1. CASE unit = "minute"
    BY <1>1 DEF Shifted, Apart
<1>2. CASE unit = "hour"
    BY <1>2 DEF Shifted, Apart
<1>3. CASE unit = "day"
    <2>1. AddDays(from, n) \in Int /\ DayOf(AddDays(from, n)) = DayOf(from) + n /\ DayOf(from) \in Int
          /\ ClockOf(AddDays(from, n)) = ClockOf(from)
        BY DaysOfTimes
    <2>2. Shifted(from, n, unit) = AddDays(from, n)
        BY <1>3 DEF Shifted
    <2>3. DayOf(AddDays(from, n)) - DayOf(from) = n * 1
        BY <2>1
    <2> QED BY <1>3, <2>1, <2>2, <2>3 DEF Apart
<1>4. CASE unit = "week"
    <2>1. 7 * n \in Int
        OBVIOUS
    <2>2. AddDays(from, 7 * n) \in Int /\ DayOf(AddDays(from, 7 * n)) = DayOf(from) + 7 * n /\ DayOf(from) \in Int
          /\ ClockOf(AddDays(from, 7 * n)) = ClockOf(from)
        BY <2>1, DaysOfTimes
    <2>3. Shifted(from, n, unit) = AddDays(from, 7 * n)
        BY <1>4 DEF Shifted
    <2>4. DayOf(AddDays(from, 7 * n)) - DayOf(from) = n * 7
        BY <2>2
    <2> QED BY <1>4, <2>2, <2>3, <2>4 DEF Apart
<1>5. CASE unit = "month"
    BY <1>5, ShiftedMonths DEF Shifted, Apart
<1> QED BY <1>1, <1>2, <1>3, <1>4, <1>5

LEMMA InOrAgoMeans ==
    ASSUME NEW text \in ShiftText, NEW from \in Int
    PROVE  LET t == IF text.form = "in" THEN ParseRelative(text, from) ELSE ParseAgo(text, from)
           IN  t \in Int /\ Means(text, from, t)
<1>1. text.form \in {"in", "ago"} /\ text.n \in Int /\ -text.n \in Int
      /\ text.unit \in {"minute", "hour", "day", "week", "month"}
    <2>1. MostUnits \in Nat
        BY SMT DEF MostUnits
    <2>2. text.form \in {"in", "ago"} /\ text.n \in 0..MostUnits
          /\ text.unit \in {"minute", "hour", "day", "week", "month"}
        BY DEF ShiftText
    <2> QED BY <2>1, <2>2
<1>2. CASE text.form = "in"
    <2>1. ParseRelative(text, from) = Shifted(from, text.n, text.unit)
        BY <1>2 DEF ParseRelative
    <2>2. \A t : Means(text, from, t) <=> Apart(t, from, text.n, text.unit)
        BY <1>2 DEF Means
    <2> QED BY <1>1, <1>2, <2>1, <2>2, ShiftMeans
<1>3. CASE text.form = "ago"
    <2>1. ParseAgo(text, from) = Shifted(from, -text.n, text.unit)
        BY <1>3 DEF ParseAgo
    <2>2. \A t : Means(text, from, t) <=> Apart(t, from, -text.n, text.unit)
        BY <1>3 DEF Means
    <2> QED BY <1>1, <1>3, <2>1, <2>2, ShiftMeans
<1> QED BY <1>1, <1>2, <1>3

LEMMA WeekdayMeans ==
    ASSUME NEW text \in WeekdayText, NEW from \in Int
    PROVE  LET t == ParseDateRelativeTo(text, from, ToolOpts)
           IN  IF t = NoDate THEN Meaningless(text, from) ELSE t \in Int /\ Means(text, from, t)
<1> DEFINE t == ParseDateRelativeTo(text, from, ToolOpts)
           time == ParseTimeStr(text.clock)
           times == IF text.form = "next" \/ text.clock = Nothing THEN TimesOr(text.clock, Nine)
                    ELSE TimesMeant(text.clock)
<1>1. /\ text.form \in {"next", "weekday"} /\ text.weekday \in 0..6 /\ text.clock \in ClockText
      /\ 60 * ToolOpts.defaultHour = 540 /\ Nine = 540
    BY DEF WeekdayText, ToolOpts, Nine
<1>2. /\ time \in Nat \cup {NoTime} /\ NoTime \notin Nat
      /\ TimesMeant(text.clock) = IF time = NoTime THEN {} ELSE {time}
    BY <1>1, TimesParsed
<1>3. time # NoTime => text.clock # Nothing
    BY DEF ParseTimeStr, Nothing
<1>4. \A x : Means(text, from, x) <=>
            \E minutes \in times :
                (x - minutes) % PerDay = 0 /\ ComesNext(DayOf(x - minutes), DayOf(from), text.weekday)
    <2>1. CASE text.form = "next"
        BY <2>1 DEF Means, OnDay, FirstSuch, ComesNext
    <2>2. CASE text.form = "weekday"
        BY <2>2 DEF Means, OnDay, FirstSuch, ComesNext
    <2> QED BY <1>1, <2>1, <2>2
<1>5. ASSUME NEW minutes \in Int, minutes \in times, t = NextWeekdayAt(from, text.weekday, minutes)
      PROVE  t \in Int /\ Means(text, from, t)
    <2>1. PICK day \in Int : t = At(day, minutes) /\ ComesNext(day, DayOf(from), text.weekday)
        <3> DEFINE target == text.weekday
        <3>1. target \in 0..6
            BY <1>1
        <3> HIDE DEF target
        <3>2. \E day \in Int : /\ NextWeekdayAt(from, target, minutes) = At(day, minutes)
                               /\ ComesNext(day, DayOf(from), target)
            BY <3>1, NextWeekdayIs
        <3> QED BY <1>5, <3>2 DEF target
    <2> HIDE DEF t, times
    <2> QED BY <1>4, <1>5, <2>1, AtDay
<1> DEFINE morning == 540
<1>6. morning \in Int
    OBVIOUS
<1> HIDE DEF morning
<1>7. CASE text.form = "next"
    <2>1. t = NextWeekdayAt(from, text.weekday, IF time = NoTime THEN morning ELSE time)
        BY <1>1, <1>7, FormDecides DEF ParseNextWeekday, morning
    <2>2. times = IF time = NoTime THEN {morning} ELSE {time}
        BY <1>1, <1>2, <1>7 DEF TimesOr, morning
    <2>3. t \in Int /\ Means(text, from, t)
        BY <1>2, <1>5, <1>6, <2>1, <2>2
    <2> QED BY <2>3, NoDateIsNone
<1>8. CASE text.form = "weekday" /\ time # NoTime
    <2>1. ParseWeekdayWithTime(text, from) = NextWeekdayAt(from, text.weekday, time)
        BY <1>8 DEF ParseWeekdayWithTime
    <2>2. NextWeekdayAt(from, text.weekday, time) \in Int
        <3> DEFINE target == text.weekday
        <3>1. target \in 0..6 /\ time \in Int
            BY <1>1, <1>2, <1>8
        <3> HIDE DEF target, time
        <3>2. \E day \in Int : NextWeekdayAt(from, target, time) = At(day, time)
            BY <3>1, NextWeekdayIs
        <3> QED BY <3>1, <3>2, AtDay DEF target
    <2>3. t = NextWeekdayAt(from, text.weekday, time)
        BY <1>8, <2>1, <2>2, FormDecides, NoDateIsNone
    <2>4. time \in Int /\ time \in times
        BY <1>2, <1>3, <1>8
    <2>5. t \in Int /\ Means(text, from, t)
        BY <1>5, <2>3, <2>4
    <2> QED BY <2>5, NoDateIsNone
<1>9. CASE text.form = "weekday" /\ time = NoTime /\ text.clock = Nothing
    <2>1. t = NextWeekdayAt(from, text.weekday, morning)
        BY <1>1, <1>9, FormDecides DEF ParseWeekdayWithTime, StandaloneWeekday, morning
    <2>2. morning \in times
        BY <1>1, <1>2, <1>9 DEF TimesOr, morning
    <2>3. t \in Int /\ Means(text, from, t)
        BY <1>5, <1>6, <2>1, <2>2
    <2> QED BY <2>3, NoDateIsNone
<1>10. CASE text.form = "weekday" /\ time = NoTime /\ text.clock # Nothing
    <2>1. t = NoDate
        BY <1>10, FormDecides DEF ParseWeekdayWithTime, StandaloneWeekday
    <2>2. Meaningless(text, from)
        BY <1>2, <1>10 DEF Meaningless
    <2> QED BY <2>1, <2>2
<1> QED BY <1>1, <1>7, <1>8, <1>9, <1>10

DaysAhead(word) == CASE word = "today" -> 0 [] word = "tomorrow" -> 1 [] OTHER -> -1

LEMMA BaseMeans ==
    ASSUME NEW text \in BaseText, NEW from \in Int
    PROVE  LET t == ParseDateRelativeTo(text, from, ToolOpts)
           IN  IF t = NoDate THEN Meaningless(text, from) ELSE t \in Int /\ Means(text, from, t)
<1> DEFINE t == ParseDateRelativeTo(text, from, ToolOpts)
           time == ParseTimeStr(text.clock)
           n == DaysAhead(text.word)
<1>1. text.form = "base" /\ text.word \in BaseDays /\ text.clock \in ClockText
    BY DEF BaseText
<1>2. /\ time \in Nat \cup {NoTime} /\ NoTime \notin Nat
      /\ TimesMeant(text.clock) = IF time = NoTime THEN {} ELSE {time}
    BY <1>1, TimesParsed
<1>3. t = ParseDateWithTime(text, from)
    BY <1>1, FormDecides
<1>4. CASE time = NoTime
    BY <1>1, <1>2, <1>3, <1>4 DEF ParseDateWithTime, Meaningless
<1>5. CASE time # NoTime
    <2>1. n \in Int /\ ResolveBaseDate(text.word, from) = AddDays(from, n)
        BY <1>1 DEF DaysAhead, ResolveBaseDate, BaseDays
    <2>2. t = At(DayOf(from) + n, time)
        <3>1. t = TodayAt(ResolveBaseDate(text.word, from), time)
            BY <1>1, <1>3, <1>5 DEF ParseDateWithTime
        <3>2. DayOf(AddDays(from, n)) = DayOf(from) + n
            BY <2>1, DaysOfTimes
        <3> QED BY <2>1, <3>1, <3>2 DEF TodayAt
    <2>3. \A x : Means(text, from, x) <=>
                \E minutes \in TimesMeant(text.clock) :
                    (x - minutes) % PerDay = 0 /\ DayOf(x - minutes) = DayOf(from) + n
        BY <1>1, Zenon DEF Means, OnDay, DaysAhead
    <2>4. DayOf(from) + n \in Int /\ time \in Int
        BY <1>2, <1>5, <2>1, DaysOfTimes
    <2> HIDE DEF t, n
    <2>5. t \in Int /\ Means(text, from, t)
        BY <1>2, <1>5, <2>2, <2>3, <2>4, AtDay
    <2> QED BY <2>5, NoDateIsNone DEF t
<1> QED BY <1>4, <1>5

LEMMA TimeMeans ==
    ASSUME NEW text \in TimeText, NEW from \in Int
    PROVE  LET t == ParseDateRelativeTo(text, from, ToolOpts)
           IN  IF t = NoDate THEN Meaningless(text, from) ELSE t \in Int /\ Means(text, from, t)
<1> DEFINE t == ParseDateRelativeTo(text, from, ToolOpts)
           time == ParseTimeStr(text.clock)
           today == DayOf(from)
           x == At(today, time)
<1>1. text.form = "time" /\ text.clock \in ClockText
    BY DEF TimeText
<1>2. /\ time \in Nat \cup {NoTime} /\ NoTime \notin Nat
      /\ TimesMeant(text.clock) = IF time = NoTime THEN {} ELSE {time}
    BY <1>1, TimesParsed
<1>3. t = ParseTimeOnly(text, from, ToolOpts)
    BY <1>1, FormDecides
<1>4. CASE time = NoTime
    BY <1>1, <1>2, <1>3, <1>4 DEF ParseTimeOnly, Meaningless
<1>5. CASE time # NoTime
    <2>1. t = IF x < from THEN AddDays(x, 1) ELSE x
        BY <1>1, <1>3, <1>5 DEF ParseTimeOnly, ToolOpts, TodayAt
    <2>2. \A z : Means(text, from, z) <=>
            /\ \E minutes \in TimesMeant(text.clock) :
                 (z - minutes) % PerDay = 0 /\ DayOf(z - minutes) \in {today, today + 1}
            /\ z >= from
            /\ z >= from + PerDay =>
                 \E minutes \in TimesMeant(text.clock) : (z - minutes) % PerDay = 0 /\ DayOf(z - minutes) = today
        BY <1>1, Zenon DEF Means, OnDay
    <2>3. TimesMeant(text.clock) = {time} /\ time \in Nat
        BY <1>2, <1>5
    <2>4. /\ x \in Int /\ (x - time) % PerDay = 0 /\ DayOf(x - time) = today
          /\ AddDays(x, 1) \in Int /\ (AddDays(x, 1) - time) % PerDay = 0 /\ DayOf(AddDays(x, 1) - time) = today + 1
          /\ x < from => AddDays(x, 1) >= from /\ AddDays(x, 1) < from + PerDay
        <3>1. today \in Int /\ today * 1440 <= from /\ from < today * 1440 + 1440
            BY DEF DayOf, PerDay
        <3> HIDE DEF today
        <3> QED BY <2>3, <3>1 DEF At, AddDays, DayOf, PerDay
    <2> HIDE DEF x, time, t, today
    <2>5. t \in Int /\ Means(text, from, t)
        <3>1. PerDay \in Int
            BY DEF PerDay
        <3>2. CASE x < from
            BY <2>1, <2>2, <2>3, <2>4, <3>1, <3>2
        <3>3. CASE ~(x < from)
            BY <2>1, <2>2, <2>3, <2>4, <3>1, <3>3
        <3> QED BY <3>2, <3>3
    <2> QED BY <2>5, NoDateIsNone DEF t
<1> QED BY <1>4, <1>5

LEMMA MonthDayMeans ==
    ASSUME NEW text \in MonthDayText, NEW from \in Int
    PROVE  LET t == ParseDateRelativeTo(text, from, ToolOpts)
           IN  IF t = NoDate THEN Meaningless(text, from) ELSE t \in Int /\ Means(text, from, t)
<1> DEFINE t == ParseDateRelativeTo(text, from, ToolOpts)
           given == text.year \in YearsGiven
           y == IF given THEN text.year ELSE Year(DayOf(from))
           written == ParseTimeStr(text.clock)
           time == IF given \/ text.year = 0 THEN written ELSE NoTime
           minutes == IF time = NoTime THEN 540 ELSE time
           times == IF given \/ text.year = 0 THEN TimesOr(text.clock, Nine) ELSE {Nine}
           day == DayNumber(y, text.month, text.d)
<1>1. /\ text.form = "monthday" /\ text.month \in 1..12 /\ text.d \in Nat /\ text.year \in Nat
      /\ text.clock \in ClockText /\ 60 * ToolOpts.defaultHour = 540 /\ Nine = 540
    BY MonthDayTexts DEF ToolOpts, Nine
<1>10. CASE InLayout(text)
    <2> DEFINE there == DayNumber(text.year, text.month, text.d)
    <2>1. there \in Int /\ Civil(there) = <<text.year, text.month, text.d>> /\ t = At(there, 0)
        BY <1>10, LayoutDecides
    <2>2. \A x : (x - 0) % PerDay = 0 /\ Civil(DayOf(x - 0)) = <<text.year, text.month, text.d>>
                    => Means(text, from, x)
        BY <1>1, <1>10 DEF Means, OnDay
    <2> HIDE DEF there, t
    <2>3. t \in Int /\ (t - 0) % PerDay = 0 /\ DayOf(t - 0) = there
        BY <2>1, AtDay
    <2> QED BY <2>1, <2>2, <2>3, NoDateIsNone DEF t
<1> SUFFICES ASSUME ~InLayout(text)
             PROVE  IF t = NoDate THEN Meaningless(text, from) ELSE t \in Int /\ Means(text, from, t)
    BY <1>10
<1>2. /\ written \in Nat \cup {NoTime} /\ NoTime \notin Nat
      /\ TimesMeant(text.clock) = IF written = NoTime THEN {} ELSE {written}
    <2>1. text.clock \in ClockText
        BY <1>1
    <2> QED BY <2>1, TimesParsed
<1>3. y \in Int
    <2>1. DayOf(from) \in Int
        BY DaysOfTimes
    <2> QED BY <1>1, <2>1, YearFound
<1>4. t = IF text.d \notin 1..DaysIn(y, text.month) THEN NoDate ELSE At(day, minutes)
    <2>1. text.form = "monthday" /\ 60 * ToolOpts.defaultHour = 540
        BY <1>1
    <2>2. t = ParseMonthDay(text, from, ToolOpts)
        BY LayoutDecides
    <2>3. ParseMonthDay(text, from, ToolOpts) =
            IF text.d \notin 1..DaysIn(y, text.month) THEN NoDate
            ELSE At(day, IF time = NoTime THEN 60 * ToolOpts.defaultHour ELSE time)
        BY <2>1 DEF ParseMonthDay
    <2> HIDE DEF t, y, time, day
    <2> QED BY <2>1, <2>2, <2>3
<1> HIDE DEF given
<1>5. minutes \in times /\ minutes \in Int
    <2>1. CASE given \/ text.year = 0
        BY <1>1, <1>2, <2>1 DEF TimesOr
    <2>2. CASE ~(given \/ text.year = 0)
        BY <1>1, <2>2
    <2> QED BY <2>1, <2>2
<1>6. \A x : Means(text, from, x) <=>
            \E m \in times : (x - m) % PerDay = 0 /\ Civil(DayOf(x - m)) = <<y, text.month, text.d>>
    <2>1. text.form = "monthday"
        BY <1>1
    <2> QED BY <2>1 DEF Means, OnDay, given
<1>7. Meaningless(text, from) <=> OutsideCalendar(y, text.month, text.d)
    <2>1. text.form = "monthday"
        BY <1>1
    <2> QED BY <2>1 DEF Meaningless, given
<1> HIDE DEF y, minutes, times
<1>8. CASE text.d \notin 1..DaysIn(y, text.month)
    BY <1>4, <1>7, <1>8 DEF OutsideCalendar
<1>9. CASE text.d \in 1..DaysIn(y, text.month)
    <2>1. day \in Int /\ Civil(day) = <<y, text.month, text.d>>
        BY <1>1, <1>3, <1>9, CivilIs DEF Civil
    <2>2. t = At(day, minutes)
        BY <1>4, <1>9
    <2> HIDE DEF day, t
    <2>3. t \in Int /\ Means(text, from, t)
        BY <1>5, <1>6, <2>1, <2>2, AtDay
    <2> QED BY <2>3, NoDateIsNone DEF t
<1> QED BY <1>8, <1>9

(* What the layouts or, failing them, the parser of times make of a clock.   *)
LEMMA TimesLaidOut ==
    ASSUME NEW c \in WrittenTime
    PROVE  /\ c.half = "24h" => LayoutTime(c) = ParseTimeStr(c)
           /\ c.half \in {"am", "pm"} =>
                LayoutTime(c) = IF c.h <= 12 /\ c.m <= 59 THEN 60 * HourOfDay(c) + c.m ELSE NoTime
           /\ c.half \in {"am", "pm"} =>
                ParseTimeStr(c) = IF c.h \in 1..12 THEN 60 * HourOfDay(c) + c.m ELSE NoTime
<1>1. c.half = "24h" => LayoutTime(c) = IF c.h <= 23 /\ c.m <= 59 THEN 60 * c.h + c.m ELSE NoTime
    BY DEF LayoutTime
<1>2. c.half = "24h" => ParseTimeStr(c) = IF c.h <= 23 /\ c.m <= 59 THEN 60 * c.h + c.m ELSE NoTime
    BY DEF ParseTimeStr
<1>3. c.half \in {"am", "pm"} =>
        LayoutTime(c) = IF c.h <= 12 /\ c.m <= 59 THEN 60 * HourOfDay(c) + c.m ELSE NoTime
    BY DEF LayoutTime
<1>4. c.half \in {"am", "pm"} =>
        ParseTimeStr(c) = IF c.h \in 1..12 THEN 60 * HourOfDay(c) + c.m ELSE NoTime
    BY DEF ParseTimeStr
<1> QED BY <1>1, <1>2, <1>3, <1>4

LEMMA LayoutsParsed ==
    ASSUME NEW c \in ClockText
    PROVE  LET time == IF LayoutTime(c) # NoTime THEN LayoutTime(c) ELSE ParseTimeStr(c)
               times == IF c = Nothing THEN {0}
                        ELSE IF c.h = 0 /\ c.half = "pm" THEN {720 + c.m}
                        ELSE IF c.h = 0 /\ c.half = "am" THEN {c.m}
                        ELSE TimesMeant(c)
           IN  IF time = NoTime
               THEN c # Nothing /\ TimesMeant(c) = {} /\ ~(c.half \in {"am", "pm"} /\ c.h = 0 /\ c.m <= 59)
               ELSE time \in Nat /\ time \in times
<1>1. /\ ParseTimeStr(c) \in Nat \cup {NoTime} /\ NoTime \notin Nat
      /\ TimesMeant(c) = IF ParseTimeStr(c) = NoTime THEN {} ELSE {ParseTimeStr(c)}
    BY TimesParsed
<1>2. CASE c = Nothing
    BY <1>2 DEF LayoutTime, Nothing, NoTime
<1>3. CASE c = Rubbish
    <2>1. LayoutTime(c) = NoTime /\ ParseTimeStr(c) = NoTime
        <3>1. LayoutTime(c) = NoTime
            BY <1>3 DEF LayoutTime, Rubbish
        <3>2. ParseTimeStr(c) = NoTime
            BY <1>3 DEF ParseTimeStr, Rubbish
        <3> QED BY <3>1, <3>2
    <2>2. c # Nothing /\ c.half \notin {"am", "pm"}
        BY <1>3 DEF Rubbish, Nothing
    <2> QED BY <1>1, <2>1, <2>2
<1>4. CASE c \in WrittenTime
    <2>1. c.h \in Nat /\ c.m \in Nat /\ c.half \in {"am", "pm", "24h"} /\ c # Nothing
        BY <1>4 DEF WrittenTime, Nothing
    <2>2. CASE c.half = "24h"
        <3>1. LayoutTime(c) = ParseTimeStr(c)
            BY <1>4, <2>2, TimesLaidOut
        <3> QED BY <1>1, <2>1, <2>2, <3>1
    <2>3. CASE c.half \in {"am", "pm"}
        <3>1. /\ LayoutTime(c) = IF c.h <= 12 /\ c.m <= 59 THEN 60 * HourOfDay(c) + c.m ELSE NoTime
              /\ ParseTimeStr(c) = IF c.h \in 1..12 THEN 60 * HourOfDay(c) + c.m ELSE NoTime
            BY <1>4, <2>3, TimesLaidOut
        <3>2. c.h = 0 => HourOfDay(c) = IF c.half = "pm" THEN 12 ELSE 0
            BY <2>1 DEF HourOfDay
        <3>3. CASE c.h \in 1..12
            <4>1. LayoutTime(c) \in {NoTime, ParseTimeStr(c)} /\ c.h # 0 /\ ParseTimeStr(c) # NoTime
                <5>1. 60 * HourOfDay(c) + c.m \in Nat
                    BY <2>1, <3>3 DEF HourOfDay
                <5> QED BY <2>1, <3>1, <3>3, <5>1 DEF NoTime
            <4> QED BY <1>1, <2>1, <4>1
        <3>4. CASE c.h = 0
            <4>1. ParseTimeStr(c) = NoTime
                BY <3>1, <3>4
            <4>2. CASE c.m > 59
                <5>1. LayoutTime(c) = NoTime /\ ~(c.m <= 59)
                    BY <2>1, <3>1, <4>2
                <5> QED BY <1>1, <2>1, <4>1, <5>1
            <4>3. CASE ~(c.m > 59)
                <5>1. LayoutTime(c) = (IF c.half = "pm" THEN 720 + c.m ELSE c.m) /\ LayoutTime(c) \in Nat
                    BY <2>1, <3>1, <3>2, <3>4, <4>3
                <5>2. LayoutTime(c) # NoTime
                    BY <5>1 DEF NoTime
                <5> QED BY <2>1, <2>3, <3>4, <5>1, <5>2
            <4> QED BY <4>2, <4>3
        <3>5. CASE c.h > 12
            <4>1. ParseTimeStr(c) = NoTime /\ LayoutTime(c) = NoTime /\ c.h # 0
                BY <2>1, <3>1, <3>5
            <4> QED BY <1>1, <2>1, <4>1
        <3> QED BY <2>1, <3>3, <3>4, <3>5
    <2> QED BY <2>1, <2>2, <2>3
<1> QED BY <1>2, <1>3, <1>4 DEF ClockText

LEMMA StandardTexts ==
    ASSUME NEW text \in StandardText
    PROVE  /\ text.form = "standard" /\ text.y \in Int /\ text.m \in Nat /\ text.d \in Nat
           /\ text.east \in Int /\ text.clock \in ClockText
           /\ text.east # 0 => text.clock \in WrittenTime /\ text.clock.half = "24h"
<1> DEFINE InDay == [h : Nat, m : Nat, half : {"24h"}]
           Here == [form : {"standard"}, y : Years, m : Nat, d : Nat, clock : ClockText, east : {0}]
           There == [form : {"standard"}, y : Years, m : Nat, d : Nat, clock : InDay, east : Int]
<1>1. \A c \in InDay : c \in WrittenTime /\ c \in ClockText /\ c.half = "24h"
    BY DEF WrittenTime, ClockText
<1>2. text \in Here \/ text \in There
    BY DEF StandardText
<1> HIDE DEF InDay
<1>3. /\ text.form = "standard" /\ text.y \in Years /\ text.m \in Nat /\ text.d \in Nat
      /\ \/ text.east = 0 /\ text.clock \in ClockText
         \/ text.east \in Int /\ text.clock \in InDay
    BY <1>2
<1> HIDE DEF Here, There
<1>4. text.east \in Int /\ text.clock \in ClockText
    BY <1>1, <1>3
<1>6. text.y \in Int
    <2>1. \A y \in Years : y \in Int
        BY DEF Years
    <2> QED BY <1>3, <2>1
<1>5. ASSUME text.east # 0
      PROVE  text.clock \in WrittenTime /\ text.clock.half = "24h"
    <2>1. text.clock \in InDay
        BY <1>3, <1>5
    <2> QED BY <1>1, <2>1
<1>7. text.form = "standard" /\ text.m \in Nat
    BY <1>3
<1>8. text.d \in Nat
    BY <1>3
<1> QED BY <1>4, <1>5, <1>6, <1>7, <1>8, Zenon

LEMMA StandardMeans ==
    ASSUME NEW text \in StandardText, NEW from \in Int
    PROVE  LET t == ParseDateRelativeTo(text, from, ToolOpts)
           IN  IF t = NoDate THEN Meaningless(text, from) ELSE t \in Int /\ Means(text, from, t)
<1> DEFINE t == ParseDateRelativeTo(text, from, ToolOpts)
           c == text.clock
           time == IF LayoutTime(c) # NoTime THEN LayoutTime(c) ELSE ParseTimeStr(c)
           times == IF c = Nothing THEN {0}
                    ELSE IF c.h = 0 /\ c.half = "pm" THEN {720 + c.m}
                    ELSE IF c.h = 0 /\ c.half = "am" THEN {c.m}
                    ELSE TimesMeant(c)
           day == DayNumber(text.y, text.m, text.d)
<1>1. /\ text.form = "standard" /\ text.y \in Int /\ text.m \in Nat /\ text.d \in Nat
      /\ text.east \in Int /\ c \in ClockText
      /\ text.east # 0 => c \in WrittenTime /\ c.half = "24h"
    BY StandardTexts
<1>2. IF time = NoTime
      THEN c # Nothing /\ TimesMeant(c) = {} /\ ~(c.half \in {"am", "pm"} /\ c.h = 0 /\ c.m <= 59)
      ELSE time \in Nat /\ time \in times
    BY <1>1, LayoutsParsed
<1>3. ~(text.east = 0) => (LayoutTime(c) = NoTime <=> time = NoTime)
    BY <1>1, TimesLaidOut
<1>4. t = IF TryStandardFormats(text) # NoDate THEN TryStandardFormats(text) ELSE ParseDateTimeParts(text)
    BY <1>1, FormDecides
<1>5. \A x : Means(text, from, x) <=>
            \E minutes \in times : ((x + text.east) - minutes) % PerDay = 0
                                   /\ Civil(DayOf((x + text.east) - minutes)) = <<text.y, text.m, text.d>>
    BY <1>1 DEF Means, OnDay
<1>6. Meaningless(text, from) <=>
            \/ OutsideCalendar(text.y, text.m, text.d)
            \/ c # Nothing /\ TimesMeant(c) = {} /\ ~(c.half \in {"am", "pm"} /\ c.h = 0 /\ c.m <= 59)
    BY <1>1 DEF Meaningless
<1>7. CASE ~ValidDay(text)
    BY <1>1, <1>4, <1>6, <1>7 DEF TryStandardFormats, ParseDateTimeParts, ValidDay, OutsideCalendar
<1>8. CASE ValidDay(text) /\ time = NoTime
    <2>1. LayoutTime(c) = NoTime /\ ParseTimeStr(c) = NoTime
        BY <1>8
    <2>2. t = NoDate
        BY <1>1, <1>4, <2>1 DEF TryStandardFormats, ParseDateTimeParts
    <2> QED BY <1>2, <1>6, <1>8, <2>2
<1>9. CASE ValidDay(text) /\ time # NoTime
    <2>1. day \in Int /\ Civil(day) = <<text.y, text.m, text.d>>
        BY <1>1, <1>9, CivilIs DEF ValidDay, Civil
    <2>2. time \in Int /\ time \in times
        BY <1>2, <1>9
    <2>3. /\ LayoutTime(c) # NoTime => TryStandardFormats(text) = At(day, time) - text.east
          /\ LayoutTime(c) = NoTime => /\ text.east = 0
                                       /\ TryStandardFormats(text) = NoDate
                                       /\ ParseDateTimeParts(text) = At(day, time)
        BY <1>1, <1>3, <1>9 DEF TryStandardFormats, ParseDateTimeParts
    <2> DEFINE there == At(day, time)
               lands == LayoutTime(c) # NoTime
    <2> HIDE DEF day, time, times, c
    <2>4. /\ there \in Int /\ there - time \in Int
          /\ (there - time) % PerDay = 0 /\ DayOf(there - time) = day
        BY <2>1, <2>2, AtDay
    <2> HIDE DEF t, there, lands
    <2>5. t \in Int /\ t + text.east = there
        <3>1. there - text.east \in Int /\ (there - text.east) + text.east = there
              /\ (text.east = 0 => there - text.east = there)
            BY <1>1, <2>4
        <3>2. CASE lands
            BY <1>4, <2>3, <3>1, <3>2, NoDateIsNone DEF lands, there
        <3>3. CASE ~lands
            BY <1>4, <2>3, <2>4, <3>1, <3>3 DEF lands, there
        <3> QED BY <3>2, <3>3
    <2>6. Means(text, from, t)
        BY <1>5, <2>1, <2>2, <2>4, <2>5
    <2> QED BY <2>5, <2>6, NoDateIsNone DEF t
<1> QED BY <1>7, <1>8, <1>9

(* A text is refused only when it has no meaning, and else parsed to one.    *)
LEMMA ParsedMeans ==
    ASSUME NEW text \in DateText, Written(text), NEW from \in Int
    PROVE  LET t == ParseDateRelativeTo(text, from, ToolOpts)
           IN  IF t = NoDate THEN Meaningless(text, from) ELSE t \in Int /\ Means(text, from, t)
<1> DEFINE t == ParseDateRelativeTo(text, from, ToolOpts)
<1>1. CASE text \in KeywordText
    <2>1. t = Keyword(text, from, ToolOpts)
        BY <1>1, FormsTell, FormDecides
    <2> QED BY <1>1, <2>1, KeywordMeans, NoDateIsNone
<1>2. CASE text \in ShiftText
    <2>1. t = IF text.form = "in" THEN ParseRelative(text, from) ELSE ParseAgo(text, from)
        BY <1>2, FormsTell, FormDecides
    <2> QED BY <1>2, <2>1, InOrAgoMeans, NoDateIsNone
<1>3. CASE text \in OtherText
    <2>1. text.form = "other"
        BY <1>3, FormsTell DEF Written
    <2>2. t = NoDate
        BY <2>1, FormDecides
    <2>3. Meaningless(text, from)
        BY <2>1 DEF Meaningless
    <2> QED BY <2>2, <2>3
<1> QED BY <1>1, <1>2, <1>3, StandardMeans, WeekdayMeans, BaseMeans, MonthDayMeans, TimeMeans DEF DateText

(* What a tool sends for a date, and when it is refused. *)
LEMMA DateSaid ==
    ASSUME NEW c \in Made, ByTool(c), NEW at \in Int, NEW f \in DatesOf(c)
    PROVE  LET t == ParseDate(c.args[f], at)
           IN  /\ f \in Named(c.args) \cap DateFields
               /\ t = NoDate => Meaningless(c.args[f], at)
               /\ t # NoDate => t \in Int /\ Means(c.args[f], at, t)
<1>1. f \in DOMAIN c.args \cap DateFields /\ c.args[f].form \notin {"empty", "blank"} /\ Written(c.args[f])
    BY DEF DatesOf, Written
<1>2. c.args[f] \in DateText
    BY <1>1, DateArguments DEF ByTool
<1>3. ParseDate(c.args[f], at) = ParseDateRelativeTo(c.args[f], at, ToolOpts)
    BY <1>1 DEF ParseDate
<1>4. f \in Named(c.args)
    BY <1>1 DEF Named, DateFields, StringFields
<1> QED BY <1>1, <1>2, <1>3, <1>4, ParsedMeans

LEMMA DateFieldsOf ==
    ASSUME NEW c \in Made, ByTool(c)
    PROVE  /\ c.tool = "create_event" =>
                {"startDate", "endDate"} \subseteq DOMAIN c.args /\ DOMAIN c.args \cap DateFields = {"startDate", "endDate"}
           /\ c.tool \notin CreateTools \cup UpdateTools => DatesOf(c) = {}
<1>1. Required(c.tool) \subseteq DOMAIN c.args /\ DOMAIN c.args \subseteq Accepted(c.tool)
    BY CallsMade DEF WellFormed
<1>2. CASE c.tool = "create_event"
    <2>1. /\ Required(c.tool) = {"title", "calendar", "startDate", "endDate"}
          /\ Accepted(c.tool) = EventFields
        BY <1>2 DEF Required, Accepted
    <2>2. EventFields \cap DateFields = {"startDate", "endDate"}
        BY DEF EventFields, DateFields
    <2> QED BY <1>1, <1>2, <2>1, <2>2 DEF CreateTools
<1>3. CASE c.tool \notin CreateTools \cup UpdateTools
    <2>1. Accepted(c.tool) = {}
        BY <1>3 DEF Accepted, CreateTools, UpdateTools, RestCalls, ByTool
    <2> QED BY <1>1, <1>3, <2>1 DEF DatesOf, CreateTools
<1>4. CASE c.tool \in CreateTools \cup UpdateTools /\ c.tool # "create_event"
    BY <1>4
<1> QED BY <1>2, <1>3, <1>4

LEMMA ZeroIsADate == ZeroTime # NoDate
BY NoDateIsNone DEF ZeroTime

LEMMA UnreadableMeans ==
    ASSUME NEW c \in Made, ByTool(c), NEW at \in Int, Unreadable(c.args, Named(c.args), at)
    PROVE  \E f \in DatesOf(c) : Meaningless(c.args[f], at)
<1>1. PICK f \in Named(c.args) \cap DateFields : ParseDate(c.args[f], at) = NoDate
    BY DEF Unreadable
<1>2. f \in DatesOf(c)
    BY <1>1, ZeroIsADate DEF DatesOf, Named, Written, ParseDate
<1> QED BY <1>1, <1>2, DateSaid

LEMMA SentMeans ==
    ASSUME NEW c \in Made, ByTool(c), NEW at \in Int, ~Refused(c, at), NEW f \in DatesOf(c)
    PROVE  Means(c.args[f], at, FieldIn(Body(c, at), f, ZeroTime))
<1> DEFINE t == ParseDate(c.args[f], at)
<1>1. /\ f \in Named(c.args) \cap DateFields
      /\ t # NoDate => t \in Int /\ Means(c.args[f], at, t)
    BY DateSaid
<1>2. f \in DOMAIN c.args
    BY DEF DatesOf
<1> SUFFICES FieldIn(Body(c, at), f, ZeroTime) = t /\ t # NoDate
    BY <1>1
<1>3. CASE c.tool = "create_event"
    <2>1. ~CreateEventRefused(c.args, at) /\ Body(c, at) = Bodied(c.args, Named(c.args) \cup {"title", "calendar"}, at)
        BY <1>3 DEF Refused, Body, CreateEventBody, UpdateTools
    <2>2. f \in {"startDate", "endDate"}
        BY <1>1, <1>2, <1>3, DateFieldsOf
    <2> QED BY <1>1, <2>1, <2>2 DEF CreateEventRefused, Bodied, FieldIn
<1>4. CASE c.tool = "create_reminder"
    <2>1. ~Unreadable(c.args, Named(c.args), at) /\ Body(c, at) = CreateReminderBody(c.args, at)
        BY <1>4 DEF Refused, Body, CreateReminderRefused, UpdateTools
    <2>2. t # NoDate
        BY <1>1, <2>1 DEF Unreadable
    <2> DEFINE fields == {g \in Named(c.args) \cup {"title", "list"} :
                            /\ g \in DateFields => ParseDate(c.args[g], at) # ZeroTime
                            /\ g = "priority" => c.args[g] # 0
                            /\ g = "flagged" => c.args[g]}
    <2>3. Body(c, at) = Bodied(c.args, fields, at)
        BY <2>1 DEF CreateReminderBody
    <2>4. f # "priority" /\ f # "flagged"
        BY <1>1 DEF DateFields
    <2>5. f \in fields <=> t # ZeroTime
        BY <1>1, <2>4
    <2> HIDE DEF fields
    <2> QED BY <1>1, <2>2, <2>3, <2>5 DEF Bodied, FieldIn
<1>5. CASE c.tool \in UpdateTools
    <2>1. ~Unreadable(c.args, Named(c.args), at) /\ Body(c, at) = Bodied(c.args, Named(c.args), at)
        BY <1>5 DEF Refused, Body, UpdateRefused, UpdateBody, UpdateTools
    <2>2. t # NoDate
        BY <1>1, <2>1 DEF Unreadable
    <2> QED BY <1>1, <2>1, <2>2 DEF Bodied, FieldIn
<1>6. CASE c.tool \notin CreateTools \cup UpdateTools
    BY <1>6, DateFieldsOf
<1> QED BY <1>3, <1>4, <1>5, <1>6 DEF CreateTools

LEMMA RefusedMeans ==
    ASSUME NEW c \in Made, ByTool(c), NEW at \in Int, Refused(c, at)
    PROVE  \/ c.ids = {} /\ c.tool \notin CreateTools
           \/ c.tool = "create_event" /\ \E f \in {"startDate", "endDate"} : ~Written(c.args[f])
           \/ \E f \in DatesOf(c) : Meaningless(c.args[f], at)
<1>1. CASE c.tool \notin CreateTools /\ c.ids = {}
    BY <1>1
<1>2. CASE c.tool = "create_event" /\ CreateEventRefused(c.args, at)
    <2>1. PICK f \in {"startDate", "endDate"} : ~Written(c.args[f]) \/ ParseDate(c.args[f], at) = NoDate
        BY <1>2 DEF CreateEventRefused, Written
    <2>2. CASE ~Written(c.args[f])
        BY <1>2, <2>1, <2>2
    <2>3. CASE Written(c.args[f]) /\ ParseDate(c.args[f], at) = NoDate
        <3>1. f \in DatesOf(c)
            BY <1>2, <2>1, <2>3, DateFieldsOf DEF DatesOf
        <3> QED BY <2>3, <3>1, DateSaid
    <2> QED BY <2>1, <2>2, <2>3
<1>3. CASE c.tool = "create_reminder" /\ CreateReminderRefused(c.args, at)
    BY <1>3, UnreadableMeans DEF CreateReminderRefused
<1>4. CASE c.tool \in UpdateTools /\ UpdateRefused(c.args, at)
    BY <1>4, UnreadableMeans DEF UpdateRefused
<1> QED BY <1>1, <1>2, <1>3, <1>4 DEF Refused

LEMMA SaidIsMeant ==
    ASSUME TriesAsAsked
    PROVE  DatesMeanWhatTheySay
<1> SUFFICES ASSUME NEW k \in DOMAIN tries, ByTool(tries[k].call)
             PROVE  LET c == tries[k].call
                    IN  IF tries[k].pc # "refused"
                        THEN \A f \in DatesOf(c) :
                                Means(c.args[f], tries[k].at, FieldIn(tries[k].body, f, ZeroTime))
                        ELSE \/ c.ids = {} /\ c.tool \notin CreateTools
                             \/ c.tool = "create_event" /\ \E f \in {"startDate", "endDate"} : ~Written(c.args[f])
                             \/ \E f \in DatesOf(c) : Meaningless(c.args[f], tries[k].at)
    BY Zenon DEF DatesMeanWhatTheySay
<1> DEFINE c == tries[k].call
           at == tries[k].at
           body == tries[k].body
<1>1. /\ c \in Made /\ at \in Int /\ ByTool(c)
      /\ tries[k].pc = "refused" => Refused(c, at)
      /\ tries[k].pc # "refused" => ~Refused(c, at) /\ body = Body(c, at)
    BY DEF TriesAsAsked, AsAsked
<1> HIDE DEF c, at, body
<1>2. CASE tries[k].pc = "refused"
    BY <1>1, <1>2, RefusedMeans DEF c, at
<1>3. CASE tries[k].pc # "refused"
    <2>1. \A f \in DatesOf(c) : Means(c.args[f], at, FieldIn(body, f, ZeroTime))
        BY <1>1, <1>3, SentMeans
    <2> QED BY <1>3, <2>1 DEF c, at, body
<1> QED BY <1>2, <1>3

(* Every date a tool sends is what the words mean when the call is made, and *)
(* a call is refused only for words without a meaning or for what it lacks,  *)
(* whatever the words and whenever they are said                             *)
(* (dateparser.go:82-175, dates.go:28-61).                                   *)
THEOREM DatesAlwaysMean == Spec => []DatesMeanWhatTheySay
BY EveryEffectIsLogged, SaidIsMeant, PTL

-----------------------------------------------------------------------------
(* Recurrence rules survive the way into the store and back.                 *)
LEMMA Ends ==
    ASSUME NEW end \in End
    PROVE  /\ end = [date |-> end.date, count |-> end.count]
           /\ end.date \in Int \cup {Null} /\ end.count \in Int
           /\ end # Null /\ Null \notin Int
<1>1. end = [date |-> end.date, count |-> end.count] /\ end.date \in Int \cup {Null} /\ end.count \in Int
    BY DEF End
<1>2. end # Null /\ Null \notin Int
    BY NullIsNothing
<1> QED BY <1>1, <1>2

LEMMA EndWritten ==
    ASSUME NEW end \in End
    PROVE  LET keys == EndKeys(end)
           IN  /\ DOMAIN keys = {k \in {"date", "count"} : IF k = "date" THEN end.date # Null ELSE end.count > 0}
               /\ \A k \in DOMAIN keys : keys[k] = end[k]
               /\ keys # Null
<1> DEFINE keys == EndKeys(end)
           present == {k \in {"date", "count"} : IF k = "date" THEN end.date # Null ELSE end.count > 0}
<1>1. /\ end = [date |-> end.date, count |-> end.count] /\ end.date \in Int \cup {Null} /\ end.count \in Int
      /\ end # Null
    BY Ends
<1>2. DOMAIN end = {"date", "count"} /\ end["date"] = end.date /\ end["count"] = end.count
    BY <1>1
<1>3. keys = [k \in present |-> end[k]]
    BY <1>1, <1>2 DEF EndKeys, Restrict
<1>4. \A k \in present : end[k] \in Int
    BY <1>1, <1>2
<1>5. present \in {{}, {"date"}, {"count"}, {"date", "count"}}
    OBVIOUS
<1> HIDE DEF present
<1>6. keys \in [present -> Int]
    BY <1>3, <1>4
<1>7. keys \in JsonEnd
    BY <1>5, <1>6 DEF JsonEnd
<1>8. keys # Null
    BY <1>7, NullIsNothing
<1> HIDE DEF keys
<1> QED BY <1>3, <1>8 DEF present, keys

LEMMA EndKept ==
    ASSUME NEW end \in End \cup {Null}
    PROVE  /\ (end # Null => end.date # Null \/ end.count >= 1) =>
                RuleEnd(EndKeys(end)) = IF end # Null /\ end.date # Null THEN [end EXCEPT !.count = 0] ELSE end
           /\ (end # Null => IF end.date = Null THEN end.count >= 1 ELSE end.count = 0) =>
                (IF EndKeys(end) = Null THEN Null
                 ELSE [date |-> IF FieldIn(EndKeys(end), "date", ZeroTime) = ZeroTime THEN Null ELSE EndKeys(end).date,
                       count |-> FieldIn(EndKeys(end), "count", 0)])
                = IF end = Null THEN Null ELSE [end EXCEPT !.date = Date(end.date)]
<1>1. CASE end = Null
    BY <1>1 DEF EndKeys, RuleEnd
<1>2. CASE end \in End /\ end # Null
    <2> DEFINE keys == EndKeys(end)
    <2>1. /\ end = [date |-> end.date, count |-> end.count] /\ end.date \in Int \cup {Null} /\ end.count \in Int
          /\ end # Null /\ Null \notin Int
        BY <1>2, Ends
    <2>2. /\ DOMAIN keys = {k \in {"date", "count"} : IF k = "date" THEN end.date # Null ELSE end.count > 0}
          /\ \A k \in DOMAIN keys : keys[k] = end[k]
          /\ keys # Null
        BY <1>2, EndWritten
    <2> HIDE DEF keys
    <2>3. /\ "date" \in DOMAIN keys <=> end.date # Null
          /\ "count" \in DOMAIN keys <=> end.count > 0
          /\ "date" \in DOMAIN keys => keys.date = end.date
          /\ "count" \in DOMAIN keys => keys.count = end.count
        BY <2>1, <2>2
    <2>4. CASE end.date # Null
        <3>1. RuleEnd(keys) = [date |-> end.date, count |-> 0]
            BY <2>2, <2>3, <2>4 DEF RuleEnd
        <3>2. [end EXCEPT !.count = 0] = [date |-> end.date, count |-> 0]
            BY <2>1
        <3>3. end.count = 0 => FieldIn(keys, "count", 0) = 0
            BY <2>3, <2>1 DEF FieldIn
        <3>4. FieldIn(keys, "date", ZeroTime) = end.date /\ keys.date = end.date
            BY <2>3, <2>4 DEF FieldIn
        <3>5. Date(end.date) = IF end.date = ZeroTime THEN Null ELSE end.date
            BY <2>4 DEF Date
        <3>6. [end EXCEPT !.date = Date(end.date)] = [date |-> Date(end.date), count |-> end.count]
            BY <2>1
        <3> QED BY <1>2, <2>2, <2>4, <3>1, <3>2, <3>3, <3>4, <3>5, <3>6 DEF keys
    <2>5. CASE end.date = Null
        <3>1. end.count >= 1 => RuleEnd(keys) = [date |-> Null, count |-> end.count]
            BY <2>1, <2>2, <2>3, <2>5 DEF RuleEnd
        <3>2. end = [date |-> Null, count |-> end.count]
            BY <2>1, <2>5
        <3>3. end.count >= 1 => FieldIn(keys, "count", 0) = end.count
            BY <2>3, <2>1 DEF FieldIn
        <3>4. FieldIn(keys, "date", ZeroTime) = ZeroTime
            BY <2>3, <2>5 DEF FieldIn
        <3>5. Date(end.date) = Null
            BY <2>5 DEF Date
        <3>6. [end EXCEPT !.date = Date(end.date)] = [date |-> Null, count |-> end.count]
            BY <2>1, <3>5
        <3> QED BY <1>2, <2>2, <2>5, <3>1, <3>2, <3>3, <3>4, <3>5, <3>6 DEF keys
    <2> QED BY <2>4, <2>5
<1> QED BY <1>1, <1>2

LEMMA RuleParts ==
    ASSUME NEW rule \in RecurrenceRule
    PROVE  /\ rule = [frequency |-> rule.frequency, interval |-> rule.interval, only |-> rule.only, end |-> rule.end]
           /\ rule.frequency \in Daily..Yearly /\ rule.interval \in Int /\ rule.only \in Constraints
           /\ rule.end \in End \cup {Null}
           /\ rule.only = [c \in DOMAIN FrequenciesFor |-> rule.only[c]]
           /\ Lists(Restrict(rule.only, Given(rule))) = rule.only
<1>1. /\ rule = [frequency |-> rule.frequency, interval |-> rule.interval, only |-> rule.only, end |-> rule.end]
      /\ rule.frequency \in Daily..Yearly /\ rule.interval \in Int /\ rule.only \in Constraints
      /\ rule.end \in End \cup {Null}
    BY DEF RecurrenceRule
<1>2. rule.only = [c \in DOMAIN FrequenciesFor |-> rule.only[c]]
    BY <1>1 DEF Constraints, FrequenciesFor
<1> DEFINE names == DOMAIN FrequenciesFor
           only == rule.only
<1>3. Given(rule) = {c \in names : only[c] # <<>>}
    BY DEF Given
<1> HIDE DEF names, only
<1>4. \A c \in names : FieldIn(Restrict(only, Given(rule)), c, <<>>) = only[c]
    BY <1>3 DEF FieldIn, Restrict
<1>5. Lists(Restrict(only, Given(rule))) = [c \in names |-> only[c]]
    BY <1>4 DEF Lists, names
<1> QED BY <1>1, <1>2, <1>5 DEF names, only

LEMMA RuleChanged ==
    ASSUME NEW rule, NEW i, NEW o, NEW e
    PROVE  /\ [rule EXCEPT !.only = o, !.end = e]
              = [f \in DOMAIN rule |-> IF f = "end" THEN e ELSE IF f = "only" THEN o ELSE rule[f]]
           /\ [rule EXCEPT !.interval = i, !.only = o, !.end = e]
              = [f \in DOMAIN rule |-> IF f = "end" THEN e ELSE IF f = "only" THEN o
                                       ELSE IF f = "interval" THEN i ELSE rule[f]]
           /\ [rule EXCEPT !.end = e] = [f \in DOMAIN rule |-> IF f = "end" THEN e ELSE rule[f]]
OBVIOUS

LEMMA RuleKept ==
    ASSUME NEW rule \in RecurrenceRule
    PROVE  LET written == [rule EXCEPT !.only = Restrict(@, Given(rule)), !.end = EndKeys(@)]
           IN  /\ Validate(rule) =>
                    /\ AsMeant(rule) \in StoredRule
                    /\ [written EXCEPT !.interval = IF @ < 1 THEN 1 ELSE @, !.only = Lists(@), !.end = RuleEnd(@)]
                       = AsMeant(rule)
               /\ rule \in StoredRule =>
                    [written EXCEPT
                        !.only = Lists(@),
                        !.end = IF @ = Null THEN Null
                                ELSE [date |-> IF FieldIn(@, "date", ZeroTime) = ZeroTime THEN Null ELSE @.date,
                                      count |-> FieldIn(@, "count", 0)]]
                    = [rule EXCEPT !.end = EndShown(@)]
<1> DEFINE written == [rule EXCEPT !.only = Restrict(@, Given(rule)), !.end = EndKeys(@)]
           shortened == Restrict(rule.only, Given(rule))
           meant == IF rule.end # Null /\ rule.end.date # Null THEN [rule.end EXCEPT !.count = 0] ELSE rule.end
           read(keys) == IF keys = Null THEN Null
                         ELSE [date |-> IF FieldIn(keys, "date", ZeroTime) = ZeroTime THEN Null ELSE keys.date,
                               count |-> FieldIn(keys, "count", 0)]
           shown == EndShown(rule.end)
           fields == {"frequency", "interval", "only", "end"}
<1>1. /\ DOMAIN rule = fields
      /\ rule.frequency \in Daily..Yearly /\ rule.interval \in Int /\ rule.only \in Constraints
      /\ rule.end \in End \cup {Null}
      /\ Lists(shortened) = rule.only
    BY RuleParts
<1>2. written = [f \in fields |-> IF f = "end" THEN EndKeys(rule.end) ELSE IF f = "only" THEN shortened ELSE rule[f]]
    BY <1>1, RuleChanged
<1>3. /\ AsMeant(rule) = [f \in fields |-> IF f = "end" THEN meant ELSE rule[f]]
      /\ [rule EXCEPT !.end = EndShown(@)]
         = [f \in fields |-> IF f = "end" THEN shown ELSE rule[f]]
    <2>1. AsMeant(rule) = [rule EXCEPT !.end = meant]
        BY DEF AsMeant
    <2>2. [rule EXCEPT !.end = EndShown(@)] = [rule EXCEPT !.end = shown]
        OBVIOUS
    <2> HIDE DEF meant, shown
    <2> QED BY <1>1, <2>1, <2>2, RuleChanged
<1>4. /\ (rule.end # Null => rule.end.date # Null \/ rule.end.count >= 1) => RuleEnd(EndKeys(rule.end)) = meant
      /\ (rule.end # Null => IF rule.end.date = Null THEN rule.end.count >= 1 ELSE rule.end.count = 0) =>
            read(EndKeys(rule.end)) = shown
    BY <1>1, EndKept DEF EndShown
<1>5. ASSUME Validate(rule)
      PROVE  AsMeant(rule) \in StoredRule
    <2>1. rule.interval >= 1 /\ (rule.end # Null /\ rule.end.date = Null => rule.end.count >= 1)
        BY <1>5 DEF Validate
    <2>2. meant \in End \cup {Null} /\ (meant # Null => IF meant.date = Null THEN meant.count >= 1 ELSE meant.count = 0)
        <3>1. CASE rule.end = Null
            BY <3>1
        <3>2. CASE rule.end \in End
            <4>1. /\ rule.end = [date |-> rule.end.date, count |-> rule.end.count]
                  /\ rule.end.date \in Int \cup {Null} /\ rule.end.count \in Int /\ rule.end # Null
                BY <3>2, Ends
            <4>2. CASE rule.end.date # Null
                <5>1. meant = [date |-> rule.end.date, count |-> 0]
                    BY <4>1, <4>2
                <5> QED BY <4>1, <4>2, <5>1 DEF End
            <4>3. CASE rule.end.date = Null
                BY <2>1, <3>2, <4>1, <4>3
            <4> QED BY <4>2, <4>3
        <3> QED BY <1>1, <3>1, <3>2
    <2> HIDE DEF meant
    <2>3. AsMeant(rule) = [frequency |-> rule.frequency, interval |-> rule.interval, only |-> rule.only, end |-> meant]
        BY <1>1, <1>3
    <2>4. AsMeant(rule) \in RecurrenceRule /\ AsMeant(rule).interval = rule.interval /\ AsMeant(rule).end = meant
        BY <1>1, <2>2, <2>3 DEF RecurrenceRule
    <2> QED BY <2>1, <2>2, <2>4 DEF StoredRule
<1>6. ASSUME Validate(rule)
      PROVE  [written EXCEPT !.interval = IF @ < 1 THEN 1 ELSE @, !.only = Lists(@), !.end = RuleEnd(@)] = AsMeant(rule)
    <2>1. /\ rule.interval >= 1 /\ (rule.end # Null => rule.end.date # Null \/ rule.end.count >= 1)
          /\ ~(rule.interval < 1)
        BY <1>1, <1>6 DEF Validate
    <2> HIDE DEF written, meant, shortened
    <2>2. DOMAIN written = fields /\ written.interval = rule.interval /\ written.only = shortened
          /\ written.end = EndKeys(rule.end) /\ written.frequency = rule.frequency
        BY <1>2
    <2>3. [written EXCEPT !.interval = IF @ < 1 THEN 1 ELSE @, !.only = Lists(@), !.end = RuleEnd(@)]
          = [written EXCEPT !.interval = rule.interval, !.only = rule.only, !.end = meant]
        BY <1>1, <1>4, <2>1, <2>2
    <2>4. [written EXCEPT !.interval = rule.interval, !.only = rule.only, !.end = meant]
          = [f \in fields |-> IF f = "end" THEN meant ELSE IF f = "only" THEN rule.only
                                       ELSE IF f = "interval" THEN rule.interval ELSE written[f]]
        BY <2>2, RuleChanged
    <2> QED BY <1>3, <2>2, <2>3, <2>4
<1>7. ASSUME rule \in StoredRule
      PROVE  [written EXCEPT
                !.only = Lists(@),
                !.end = IF @ = Null THEN Null
                        ELSE [date |-> IF FieldIn(@, "date", ZeroTime) = ZeroTime THEN Null ELSE @.date,
                              count |-> FieldIn(@, "count", 0)]]
             = [rule EXCEPT !.end = EndShown(@)]
    <2>1. rule.end # Null => IF rule.end.date = Null THEN rule.end.count >= 1 ELSE rule.end.count = 0
        BY <1>7 DEF StoredRule
    <2> HIDE DEF written, shown, shortened
    <2>2. DOMAIN written = fields /\ written.interval = rule.interval /\ written.only = shortened
          /\ written.end = EndKeys(rule.end) /\ written.frequency = rule.frequency
        BY <1>2
    <2>3. [written EXCEPT
                !.only = Lists(@),
                !.end = IF @ = Null THEN Null
                        ELSE [date |-> IF FieldIn(@, "date", ZeroTime) = ZeroTime THEN Null ELSE @.date,
                              count |-> FieldIn(@, "count", 0)]]
          = [written EXCEPT !.only = rule.only, !.end = shown]
        BY <1>1, <1>4, <2>1, <2>2
    <2>4. [written EXCEPT !.only = rule.only, !.end = shown]
          = [f \in fields |-> IF f = "end" THEN shown ELSE IF f = "only" THEN rule.only ELSE written[f]]
        BY <2>2, RuleChanged
    <2> QED BY <1>3, <2>2, <2>3, <2>4
<1> QED BY <1>5, <1>6, <1>7

LEMMA RulesKept ==
    ASSUME NEW rules \in Seq(RecurrenceRule)
    PROVE  /\ (\A k \in DOMAIN rules : Validate(rules[k])) =>
                /\ NewRules(MarshalRules(rules)) = [k \in DOMAIN rules |-> AsMeant(rules[k])]
                /\ NewRules(MarshalRules(rules)) \in Seq(StoredRule)
           /\ rules \in Seq(StoredRule) =>
                ConvertRawRules(RulesToDicts(rules)) =
                    [k \in DOMAIN rules |->
                        [rules[k] EXCEPT !.end = EndShown(@)]]
<1> DEFINE written(k) == [rules[k] EXCEPT !.only = Restrict(@, Given(rules[k])), !.end = EndKeys(@)]
<1>1. /\ MarshalRules(rules) = [k \in DOMAIN rules |-> written(k)]
      /\ RulesToDicts(rules) = [k \in DOMAIN rules |-> written(k)]
    BY Zenon DEF MarshalRules, RulesToDicts
<1>2. \A k \in DOMAIN rules : rules[k] \in RecurrenceRule
    OBVIOUS
<1>3. \A k \in DOMAIN rules : Validate(rules[k]) =>
            /\ AsMeant(rules[k]) \in StoredRule
            /\ [written(k) EXCEPT !.interval = IF @ < 1 THEN 1 ELSE @, !.only = Lists(@), !.end = RuleEnd(@)]
               = AsMeant(rules[k])
    BY <1>2, RuleKept
<1>4. \A k \in DOMAIN rules : rules[k] \in StoredRule =>
            [written(k) EXCEPT
                !.only = Lists(@),
                !.end = IF @ = Null THEN Null
                        ELSE [date |-> IF FieldIn(@, "date", ZeroTime) = ZeroTime THEN Null ELSE @.date,
                              count |-> FieldIn(@, "count", 0)]]
            = [rules[k] EXCEPT !.end = EndShown(@)]
    BY <1>2, RuleKept
<1> HIDE DEF written
<1>5. ASSUME \A k \in DOMAIN rules : Validate(rules[k])
      PROVE  /\ NewRules(MarshalRules(rules)) = [k \in DOMAIN rules |-> AsMeant(rules[k])]
             /\ NewRules(MarshalRules(rules)) \in Seq(StoredRule)
    <2>1. NewRules(MarshalRules(rules)) =
            [k \in DOMAIN rules |-> [written(k) EXCEPT !.interval = IF @ < 1 THEN 1 ELSE @, !.only = Lists(@),
                                                       !.end = RuleEnd(@)]]
        BY <1>1 DEF NewRules
    <2>2. NewRules(MarshalRules(rules)) = [k \in DOMAIN rules |-> AsMeant(rules[k])]
        BY <1>3, <1>5, <2>1
    <2>3. Len(rules) \in Nat /\ DOMAIN rules = 1..Len(rules)
        OBVIOUS
    <2>4. \A k \in 1..Len(rules) : AsMeant(rules[k]) \in StoredRule
        BY <1>3, <1>5, <2>3
    <2> DEFINE meant == [k \in DOMAIN rules |-> AsMeant(rules[k])]
    <2>5. meant \in [1..Len(rules) -> StoredRule]
        BY <2>3, <2>4
    <2>6. meant \in Seq(StoredRule)
        BY <2>3, <2>5
    <2> QED BY <2>2, <2>6
<1>6. ASSUME rules \in Seq(StoredRule)
      PROVE  ConvertRawRules(RulesToDicts(rules)) =
                [k \in DOMAIN rules |->
                    [rules[k] EXCEPT !.end = EndShown(@)]]
    <2>1. \A k \in DOMAIN rules : rules[k] \in StoredRule
        BY <1>6
    <2>2. ConvertRawRules(RulesToDicts(rules)) =
            [k \in DOMAIN rules |->
                [written(k) EXCEPT
                    !.only = Lists(@),
                    !.end = IF @ = Null THEN Null
                            ELSE [date |-> IF FieldIn(@, "date", ZeroTime) = ZeroTime THEN Null ELSE @.date,
                                  count |-> FieldIn(@, "count", 0)]]]
        BY <1>1 DEF ConvertRawRules
    <2> QED BY <1>4, <2>1, <2>2
<1> QED BY <1>5, <1>6

-----------------------------------------------------------------------------
(* What a call says of a field, and what becomes of it on the way.           *)
(* What a call with this body says of a field.                               *)
Clears(c) == "clearDueDate" \in DOMAIN c.args /\ c.args.clearDueDate
SaysOf(c, body, withKit, f) ==
    IF c.tool \in StatusTools THEN f = "completed"
    ELSE \/ f = "dueDate" /\ Clears(c)
         \/ f = "alarms" /\ "alarms" \in DOMAIN c.args
         \/ /\ Argument(f) \in DOMAIN c.args
            /\ f = "timeZone" => c.args[f] \in Zones
            /\ f = "flagged" => withKit
            /\ ByTool(c) /\ f \in StringFields => c.args[f] # ""
            /\ ByTool(c) /\ Argument(f) \in DateFields =>
                    /\ c.args[Argument(f)].form # "empty"
                    /\ c.tool \in CreateTools => Argument(f) \in DOMAIN body
SaidOf(c, body, f) ==
    IF f = "completed" /\ c.tool \in StatusTools THEN c.tool = "complete_reminder"
    ELSE IF f = "alarms" THEN IF "alarms" \in DOMAIN c.args THEN c.args.alarms ELSE <<Absolute(body.remindMeDate)>>
    ELSE IF f \in DateFields THEN IF f = "dueDate" /\ Clears(c) THEN Null ELSE body[f]
    ELSE IF f = "recurrenceRules" THEN [j \in DOMAIN c.args[f] |-> AsMeant(c.args[f][j])]
    ELSE c.args[f]

LEMMA NamesAndSaid ==
    ASSUME NEW k, NEW f
    PROVE  /\ Names(k, f) <=> SaysOf(tries[k].call, tries[k].body, kit, f)
           /\ Said(k, f) = SaidOf(tries[k].call, tries[k].body, f)
<1>1. Names(k, f) <=> SaysOf(tries[k].call, tries[k].body, kit, f)
    BY Zenon DEF Names, SaysOf, Clears
<1> DEFINE c == tries[k].call
           body == tries[k].body
           said == Said(k, f)
           meant == SaidOf(c, body, f)
           done == c.tool = "complete_reminder"
           alarms == IF "alarms" \in DOMAIN c.args THEN c.args.alarms ELSE <<Absolute(body.remindMeDate)>>
           date == IF f = "dueDate" /\ Clears(c) THEN Null ELSE body[f]
           rules == [j \in DOMAIN c.args[f] |-> AsMeant(c.args[f][j])]
           argument == c.args[f]
           status == c.tool \in StatusTools
<1>2. said = CASE f = "completed" /\ status -> done
               [] f = "alarms" -> alarms
               [] f \in DateFields -> date
               [] f = "recurrenceRules" -> rules
               [] OTHER -> argument
    BY Zenon DEF Said, Clears
<1>3. meant = IF f = "completed" /\ status THEN done
              ELSE IF f = "alarms" THEN alarms
              ELSE IF f \in DateFields THEN date
              ELSE IF f = "recurrenceRules" THEN rules
              ELSE argument
    BY Zenon DEF SaidOf
<1> HIDE DEF c, body, said, done, meant, alarms, date, rules, argument, status
<1> SUFFICES said = meant
    BY <1>1 DEF c, body, said, meant
<1>4. /\ f = "completed" => f # "alarms" /\ f \notin DateFields /\ f # "recurrenceRules"
      /\ f = "alarms" => f \notin DateFields /\ f # "recurrenceRules"
      /\ f \in DateFields => f # "recurrenceRules"
    BY DEF DateFields
<1>5. CASE f = "completed" /\ status
    BY <1>2, <1>3, <1>4, <1>5, Zenon
<1>6. CASE f = "alarms"
    BY <1>2, <1>3, <1>4, <1>6, Zenon
<1>7. CASE f \in DateFields
    BY <1>2, <1>3, <1>4, <1>7, Zenon
<1>8. CASE f = "recurrenceRules"
    BY <1>2, <1>3, <1>4, <1>8, Zenon
<1>9. CASE /\ ~(f = "completed" /\ status) /\ f # "alarms"
           /\ f \notin DateFields /\ f # "recurrenceRules"
    BY <1>2, <1>3, <1>9, Zenon
<1> QED BY <1>5, <1>6, <1>7, <1>8, <1>9, Zenon

LEMMA HeldBy ==
    ASSUME NEW f, NEW Dates
    PROVE  /\ f \in DateFields => Holds(f, Dates) = Dates
           /\ f \in StringFields => Holds(f, Dates) = Strings
           /\ f \in FlagFields => Holds(f, Dates) = BOOLEAN
           /\ f = "priority" => Holds(f, Dates) = Int
           /\ f = "alarms" => Holds(f, Dates) = Seq(Alarm)
           /\ f = "recurrenceRules" => Holds(f, Dates) = Seq(RecurrenceRule)
<1>1. f \in DateFields => Holds(f, Dates) = Dates
    BY DEF Holds, DateFields, StringFields, FlagFields
<1>2. f \in StringFields => Holds(f, Dates) = Strings
    BY DEF Holds, DateFields, StringFields, FlagFields
<1>3. f \in FlagFields => Holds(f, Dates) = BOOLEAN
    BY DEF Holds, DateFields, StringFields, FlagFields
<1>4. f = "priority" => Holds(f, Dates) = Int
    BY DEF Holds, DateFields, StringFields, FlagFields
<1>5. f = "alarms" => Holds(f, Dates) = Seq(Alarm)
    BY DEF Holds, DateFields, StringFields, FlagFields
<1>6. f = "recurrenceRules" => Holds(f, Dates) = Seq(RecurrenceRule)
    BY DEF Holds, DateFields, StringFields, FlagFields
<1> QED BY <1>1, <1>2, <1>3, <1>4, <1>5, <1>6

LEMMA ArgumentHeld ==
    ASSUME NEW c \in Made, NEW f \in DOMAIN c.args
    PROVE  /\ f \in Accepted(c.tool)
           /\ f \in DateFields => c.args[f] \in IF c.tool \in RestCalls THEN Int ELSE DateText
           /\ f \in StringFields => c.args[f] \in Strings
           /\ f \in FlagFields => c.args[f] \in BOOLEAN
           /\ f = "priority" => c.args[f] \in Int
           /\ f = "alarms" => c.args[f] \in Seq(Alarm)
           /\ f = "recurrenceRules" => c.args[f] \in Seq(RecurrenceRule)
           /\ f \in {"calendar", "list"} /\ c.tool \in CreateTools \cup RestCalls => c.args[f] # ""
<1>1. /\ f \in Accepted(c.tool) /\ c.args[f] \in Holds(f, IF c.tool \in RestCalls THEN Int ELSE DateText)
      /\ f \in {"calendar", "list"} /\ c.tool \in CreateTools \cup RestCalls => c.args[f] # ""
    BY CallsMade DEF WellFormed
<1> DEFINE Dates == IF c.tool \in RestCalls THEN Int ELSE DateText
<1>2. c.args[f] \in Holds(f, Dates)
    BY <1>1
<1> HIDE DEF Dates
<1>3. /\ f \in DateFields => c.args[f] \in Dates
      /\ f \in StringFields => c.args[f] \in Strings
      /\ f \in FlagFields => c.args[f] \in BOOLEAN
      /\ f = "priority" => c.args[f] \in Int
      /\ f = "alarms" => c.args[f] \in Seq(Alarm)
      /\ f = "recurrenceRules" => c.args[f] \in Seq(RecurrenceRule)
    BY <1>2, HeldBy
<1> QED BY <1>1, <1>3 DEF Dates

(* A date that is not refused is sent as a moment. *)
LEMMA DateSent ==
    ASSUME NEW c \in Made, ByTool(c), NEW at \in Int, NEW f \in DOMAIN c.args \cap DateFields,
           ParseDate(c.args[f], at) # NoDate
    PROVE  ParseDate(c.args[f], at) \in Int
<1>1. CASE f \in DatesOf(c)
    BY <1>1, DateSaid
<1>2. CASE f \notin DatesOf(c)
    BY <1>2 DEF DatesOf, Written, ParseDate, ZeroTime
<1> QED BY <1>1, <1>2

LEMMA ReminderBody ==
    ASSUME NEW c \in Made, NEW at \in Int, ~Refused(c, at), NEW body, body = Body(c, at), c.tool = "create_reminder"
    PROVE  /\ \A f \in DOMAIN body : /\ f \in DOMAIN c.args
                                     /\ f \in DateFields => body[f] \in Int
                                     /\ f \notin DateFields => body[f] = c.args[f]
           /\ DOMAIN body \subseteq Named(c.args) \cup {"title", "list"}
           /\ \A f \in (Named(c.args) \cup {"title", "list"}) \ DateFields :
                f \in DOMAIN body <=> (f = "priority" => c.args.priority # 0) /\ (f = "flagged" => c.args.flagged)
<1> DEFINE Sent(f) == /\ f \in DateFields => ParseDate(c.args[f], at) # ZeroTime
                      /\ f = "priority" => c.args[f] # 0
                      /\ f = "flagged" => c.args[f]
           said == Named(c.args) \cup {"title", "list"}
           fields == {f \in said : Sent(f)}
<1>1. ~Unreadable(c.args, Named(c.args), at) /\ body = Bodied(c.args, fields, at)
    BY Zenon DEF Refused, Body, CreateReminderRefused, CreateReminderBody, UpdateTools
<1>2. \A f : f \notin DateFields =>
        (Sent(f) <=> (f = "priority" => c.args.priority # 0) /\ (f = "flagged" => c.args.flagged))
    BY Zenon
<1>3. /\ Required(c.tool) \subseteq DOMAIN c.args /\ Named(c.args) \subseteq DOMAIN c.args
      /\ Required(c.tool) = {"title", "list"} /\ ByTool(c) /\ {"title", "list"} \cap DateFields = {}
    BY CallsMade DEF WellFormed, Named, Required, ByTool, RestCalls, DateFields
<1> HIDE DEF Sent
<1>4. fields \subseteq DOMAIN c.args /\ fields \subseteq said
    BY <1>3
<1>5. \A f \in fields \cap DateFields : f \in Named(c.args) /\ ParseDate(c.args[f], at) # NoDate
    BY <1>1, <1>3 DEF Unreadable
<1>6. \A f \in said : f \in fields <=> Sent(f)
    OBVIOUS
<1> HIDE DEF fields
<1>7. /\ DOMAIN body = fields
      /\ \A f \in fields : /\ f \in DateFields => body[f] \in Int
                           /\ f \notin DateFields => body[f] = c.args[f]
    BY <1>1, <1>3, <1>4, <1>5, DateSent DEF Bodied
<1>8. \A f \in DOMAIN body : /\ f \in DOMAIN c.args
                             /\ f \in DateFields => body[f] \in Int
                             /\ f \notin DateFields => body[f] = c.args[f]
    BY <1>4, <1>7
<1>9. DOMAIN body \subseteq said
    BY <1>4, <1>7
<1>10. \A f \in said \ DateFields :
        f \in DOMAIN body <=> (f = "priority" => c.args.priority # 0) /\ (f = "flagged" => c.args.flagged)
    BY <1>2, <1>6, <1>7, Zenon
<1> QED BY <1>8, <1>9, <1>10, Zenon

LEMMA BodyHeld ==
    ASSUME NEW c \in Made, NEW at \in Int, ~Refused(c, at), NEW body, body = Body(c, at)
    PROVE  /\ \A f \in DOMAIN body : /\ f \in DOMAIN c.args
                                     /\ f \in DateFields => body[f] \in Int
                                     /\ f \notin DateFields => body[f] = c.args[f]
           /\ c.tool \notin CreateTools \cup UpdateTools => body = c.args
           /\ c.tool \in UpdateTools => DOMAIN body = Named(c.args)
           /\ c.tool = "create_event" =>
                DOMAIN body = Named(c.args) \cup {"title", "calendar"} /\ {"startDate", "endDate"} \subseteq DOMAIN body
<1>1. /\ Required(c.tool) \subseteq DOMAIN c.args /\ Named(c.args) \subseteq DOMAIN c.args
    BY CallsMade DEF WellFormed, Named
<1>2. ASSUME NEW fields, fields \subseteq DOMAIN c.args, ByTool(c), body = Bodied(c.args, fields, at),
             \A f \in fields \cap DateFields : ParseDate(c.args[f], at) # NoDate
      PROVE  /\ DOMAIN body = fields
             /\ \A f \in fields : /\ f \in DateFields => body[f] \in Int
                                  /\ f \notin DateFields => body[f] = c.args[f]
    BY <1>2, DateSent DEF Bodied
<1>3. CASE c.tool = "create_event"
    <2> DEFINE fields == Named(c.args) \cup {"title", "calendar"}
    <2>1. ~CreateEventRefused(c.args, at) /\ body = Bodied(c.args, fields, at)
        BY <1>3 DEF Refused, Body, CreateEventBody, UpdateTools
    <2>2. {"title", "calendar", "startDate", "endDate"} \subseteq DOMAIN c.args /\ ByTool(c)
        BY <1>1, <1>3 DEF Required, ByTool, RestCalls
    <2>3. fields \cap DateFields \subseteq {"startDate", "endDate"}
        BY <1>3, <2>2, DateFieldsOf DEF Named, DateFields
    <2>4. \A f \in {"startDate", "endDate"} : c.args[f].form # "empty" /\ ParseDate(c.args[f], at) # NoDate
        BY <2>1 DEF CreateEventRefused
    <2>5. {"startDate", "endDate"} \subseteq Named(c.args)
        BY <2>2, <2>4 DEF Named, StringFields
    <2> HIDE DEF fields
    <2>6. fields \subseteq DOMAIN c.args
        BY <1>1, <2>2 DEF fields
    <2>7. /\ DOMAIN body = fields
          /\ \A f \in fields : /\ f \in DateFields => body[f] \in Int
                               /\ f \notin DateFields => body[f] = c.args[f]
        BY <1>2, <2>1, <2>2, <2>3, <2>4, <2>6
    <2>8. c.tool \notin UpdateTools /\ c.tool # "create_reminder" /\ c.tool \in CreateTools
        BY <1>3 DEF UpdateTools, CreateTools
    <2> QED BY <2>5, <2>6, <2>7, <2>8 DEF fields
<1>4. CASE c.tool = "create_reminder"
    <2>1. /\ \A f \in DOMAIN body : /\ f \in DOMAIN c.args
                                    /\ f \in DateFields => body[f] \in Int
                                    /\ f \notin DateFields => body[f] = c.args[f]
        BY <1>4, ReminderBody
    <2>2. c.tool \notin UpdateTools /\ c.tool # "create_event" /\ c.tool \in CreateTools
        BY <1>4 DEF UpdateTools, CreateTools
    <2> QED BY <2>1, <2>2
<1>5. CASE c.tool \in UpdateTools
    <2> DEFINE fields == Named(c.args)
    <2>1. ~Unreadable(c.args, fields, at) /\ body = Bodied(c.args, fields, at) /\ ByTool(c)
        BY <1>5 DEF Refused, Body, UpdateRefused, UpdateBody, UpdateTools, ByTool, RestCalls
    <2>2. \A f \in fields \cap DateFields : ParseDate(c.args[f], at) # NoDate
        BY <2>1 DEF Unreadable
    <2> HIDE DEF fields
    <2>3. fields \subseteq DOMAIN c.args
        BY <1>1 DEF fields
    <2>6. /\ DOMAIN body = fields
          /\ \A f \in fields : /\ f \in DateFields => body[f] \in Int
                               /\ f \notin DateFields => body[f] = c.args[f]
        BY <1>2, <2>1, <2>2, <2>3
    <2>7. c.tool # "create_reminder" /\ c.tool # "create_event" /\ c.tool \notin CreateTools
        BY <1>5 DEF UpdateTools, CreateTools
    <2> QED BY <1>5, <2>3, <2>6, <2>7 DEF fields
<1>6. CASE c.tool \notin CreateTools \cup UpdateTools
    <2>1. body = c.args /\ c.tool # "create_reminder" /\ c.tool # "create_event"
        BY <1>6 DEF Body, CreateTools
    <2>2. \A f \in DOMAIN c.args : f \in DateFields => c.args[f] \in Int
        <3> SUFFICES ASSUME NEW f \in DOMAIN c.args, f \in DateFields PROVE c.args[f] \in Int
            OBVIOUS
        <3>1. CASE c.tool \in RestCalls
            BY <3>1, ArgumentHeld
        <3>2. CASE c.tool \notin RestCalls
            <4>1. Accepted(c.tool) = {}
                BY <1>6, <3>2 DEF Accepted, CreateTools, UpdateTools, RestCalls
            <4> QED BY <4>1, ArgumentHeld
        <3> QED BY <3>1, <3>2
    <2> QED BY <1>6, <2>1, <2>2
<1> QED BY <1>3, <1>4, <1>5, <1>6 DEF CreateTools

(* The fields one by one. *)
LEMMA SaysEach ==
    ASSUME NEW c, NEW body, NEW withKit, NEW f, c.tool \notin StatusTools
    PROVE  /\ f \in {"title", "calendar", "list", "notes"} =>
                (SaysOf(c, body, withKit, f) <=> f \in DOMAIN c.args /\ (ByTool(c) => c.args[f] # ""))
           /\ f = "timeZone" => (SaysOf(c, body, withKit, f) <=> f \in DOMAIN c.args /\ c.args[f] \in Zones)
           /\ f \in {"priority", "completed", "recurrenceRules"} => (SaysOf(c, body, withKit, f) <=> f \in DOMAIN c.args)
           /\ f = "flagged" => (SaysOf(c, body, withKit, f) <=> f \in DOMAIN c.args /\ withKit)
           /\ f \in {"startDate", "endDate", "dueDate"} =>
                (SaysOf(c, body, withKit, f) <=>
                    \/ f = "dueDate" /\ Clears(c)
                    \/ /\ f \in DOMAIN c.args
                       /\ ByTool(c) => c.args[f].form # "empty" /\ (c.tool \in CreateTools => f \in DOMAIN body))
           /\ f = "alarms" =>
                (SaysOf(c, body, withKit, f) <=>
                    \/ "alarms" \in DOMAIN c.args
                    \/ /\ "remindMeDate" \in DOMAIN c.args
                       /\ ByTool(c) => /\ c.args.remindMeDate.form # "empty"
                                       /\ c.tool \in CreateTools => "remindMeDate" \in DOMAIN body)
<1> DEFINE says == SaysOf(c, body, withKit, f)
           argument == Argument(f)
           tool == ByTool(c)
           clears == Clears(c)
<1>1. says <=> \/ f = "dueDate" /\ clears
               \/ f = "alarms" /\ "alarms" \in DOMAIN c.args
               \/ /\ argument \in DOMAIN c.args
                  /\ f = "timeZone" => c.args[f] \in Zones
                  /\ f = "flagged" => withKit
                  /\ tool /\ f \in StringFields => c.args[f] # ""
                  /\ tool /\ argument \in DateFields =>
                        /\ c.args[argument].form # "empty"
                        /\ c.tool \in CreateTools => argument \in DOMAIN body
    BY Zenon DEF SaysOf
<1>2. argument = IF f = "alarms" THEN "remindMeDate" ELSE f
    BY DEF Argument
<1>3. \A z \in Zones : z # ""
    BY ZonesAreNames
<1> HIDE DEF says, argument, tool, clears
<1>4. f \in {"title", "calendar", "list", "notes"} => (says <=> f \in DOMAIN c.args /\ (tool => c.args[f] # ""))
    BY <1>1, <1>2 DEF StringFields, DateFields
<1>5. f = "timeZone" => (says <=> f \in DOMAIN c.args /\ c.args[f] \in Zones)
    BY <1>1, <1>2, <1>3 DEF StringFields, DateFields
<1>6. f \in {"priority", "completed", "recurrenceRules"} => (says <=> f \in DOMAIN c.args)
    BY <1>1, <1>2 DEF StringFields, DateFields
<1>7. f = "flagged" => (says <=> f \in DOMAIN c.args /\ withKit)
    BY <1>1, <1>2 DEF StringFields, DateFields
<1>8. f \in {"startDate", "endDate", "dueDate"} =>
        (says <=> \/ f = "dueDate" /\ clears
                  \/ /\ f \in DOMAIN c.args
                     /\ tool => c.args[f].form # "empty" /\ (c.tool \in CreateTools => f \in DOMAIN body))
    BY <1>1, <1>2 DEF StringFields, DateFields
<1>9. f = "alarms" =>
        (says <=> \/ "alarms" \in DOMAIN c.args
                  \/ /\ "remindMeDate" \in DOMAIN c.args
                     /\ tool => /\ c.args.remindMeDate.form # "empty"
                                /\ c.tool \in CreateTools => "remindMeDate" \in DOMAIN body)
    BY <1>1, <1>2 DEF StringFields, DateFields
<1> QED BY <1>4, <1>5, <1>6, <1>7, <1>8, <1>9, Zenon DEF says, tool, clears

LEMMA SaidEach ==
    ASSUME NEW c, NEW body, NEW f, c.tool \notin StatusTools
    PROVE  /\ f \in {"title", "calendar", "list", "notes", "timeZone", "priority", "completed", "flagged"} =>
                SaidOf(c, body, f) = c.args[f]
           /\ f \in {"startDate", "endDate", "dueDate"} =>
                SaidOf(c, body, f) = IF f = "dueDate" /\ Clears(c) THEN Null ELSE body[f]
           /\ f = "alarms" =>
                SaidOf(c, body, f) =
                    IF "alarms" \in DOMAIN c.args THEN c.args.alarms ELSE <<Absolute(body.remindMeDate)>>
           /\ f = "recurrenceRules" => SaidOf(c, body, f) = [j \in DOMAIN c.args[f] |-> AsMeant(c.args[f][j])]
<1> DEFINE said == SaidOf(c, body, f)
           alarms == IF "alarms" \in DOMAIN c.args THEN c.args.alarms ELSE <<Absolute(body.remindMeDate)>>
           date == IF f = "dueDate" /\ Clears(c) THEN Null ELSE body[f]
           rules == [j \in DOMAIN c.args[f] |-> AsMeant(c.args[f][j])]
           argument == c.args[f]
<1>1. said = IF f = "alarms" THEN alarms ELSE IF f \in DateFields THEN date
             ELSE IF f = "recurrenceRules" THEN rules ELSE argument
    BY Zenon DEF SaidOf
<1> HIDE DEF said, alarms, date, rules, argument
<1>2. /\ f \in {"title", "calendar", "list", "notes", "timeZone", "priority", "completed", "flagged"} => said = argument
      /\ f \in {"startDate", "endDate", "dueDate"} => said = date
      /\ f = "alarms" => said = alarms
      /\ f = "recurrenceRules" => said = rules
    BY <1>1 DEF DateFields
<1> QED BY <1>2, Zenon DEF said, alarms, date, rules, argument

EventKeys == {"kind", "title", "calendar", "startDate", "endDate", "notes", "timeZone", "recurrenceRules"}
ReminderKeys == {"kind", "title", "list", "notes", "dueDate", "alarms", "priority", "completed", "flagged", "recurrenceRules"}

LEMMA EventParts ==
    ASSUME NEW x
    PROVE  x \in Event <=> /\ x = [f \in EventKeys |-> x[f]]
                           /\ x.kind = "event" /\ x.title \in Strings /\ x.calendar \in Strings
                           /\ x.startDate \in Int /\ x.endDate \in Int /\ x.notes \in Strings
                           /\ x.timeZone \in Strings /\ x.recurrenceRules \in Seq(StoredRule)
<1>1. x \in Event => /\ x = [f \in EventKeys |-> x[f]]
                     /\ x.kind = "event" /\ x.title \in Strings /\ x.calendar \in Strings
                     /\ x.startDate \in Int /\ x.endDate \in Int /\ x.notes \in Strings
                     /\ x.timeZone \in Strings /\ x.recurrenceRules \in Seq(StoredRule)
    BY DEF Event, EventKeys
<1>2. ASSUME x = [f \in EventKeys |-> x[f]]
      PROVE  x = [kind |-> x.kind, title |-> x.title, calendar |-> x.calendar, startDate |-> x.startDate,
                  endDate |-> x.endDate, notes |-> x.notes, timeZone |-> x.timeZone,
                  recurrenceRules |-> x.recurrenceRules]
    BY <1>2 DEF EventKeys
<1> QED BY <1>1, <1>2 DEF Event

LEMMA ReminderParts ==
    ASSUME NEW x
    PROVE  x \in Reminder <=> /\ x = [f \in ReminderKeys |-> x[f]]
                              /\ x.kind = "reminder" /\ x.title \in Strings /\ x.list \in Strings
                              /\ x.notes \in Strings /\ x.dueDate \in Int \cup {Null} /\ x.alarms \in Seq(Alarm)
                              /\ x.priority \in Int /\ x.completed \in BOOLEAN /\ x.flagged \in BOOLEAN
                              /\ x.recurrenceRules \in Seq(StoredRule)
<1>1. x \in Reminder => /\ x = [f \in ReminderKeys |-> x[f]]
                        /\ x.kind = "reminder" /\ x.title \in Strings /\ x.list \in Strings
                        /\ x.notes \in Strings /\ x.dueDate \in Int \cup {Null} /\ x.alarms \in Seq(Alarm)
                        /\ x.priority \in Int /\ x.completed \in BOOLEAN /\ x.flagged \in BOOLEAN
                        /\ x.recurrenceRules \in Seq(StoredRule)
    BY DEF Reminder, ReminderKeys
<1>2. ASSUME x = [f \in ReminderKeys |-> x[f]]
      PROVE  x = [kind |-> x.kind, title |-> x.title, list |-> x.list, notes |-> x.notes, dueDate |-> x.dueDate,
                  alarms |-> x.alarms, priority |-> x.priority, completed |-> x.completed, flagged |-> x.flagged,
                  recurrenceRules |-> x.recurrenceRules]
    BY <1>2 DEF ReminderKeys
<1> QED BY <1>1, <1>2 DEF Reminder

(* What a new item has where the call says nothing. *)
Blank(f) == IF f \in StringFields THEN "" ELSE IF f \in {"alarms", "recurrenceRules"} THEN <<>>
            ELSE IF f = "priority" THEN 0 ELSE IF f \in {"completed", "flagged"} THEN FALSE ELSE Null

LEMMA NewEventAsSaid ==
    ASSUME NEW c \in Made, NEW at \in Int, ~Refused(c, at), NEW body, body = Body(c, at),
           NEW withKit \in BOOLEAN, c.tool = "create_event"
    PROVE  LET new == NewEvent(MarshalCreateEvent(body))
           IN  /\ new \in Event
               /\ \A f \in EventKeys \ {"kind"} :
                    new[f] = IF SaysOf(c, body, withKit, f) THEN SaidOf(c, body, f) ELSE Blank(f)
<1> DEFINE keys == MarshalCreateEvent(body)
           new == NewEvent(keys)
           args == c.args
<1>1. /\ ByTool(c) /\ c.tool \in CreateTools /\ c.tool \notin StatusTools
      /\ {"title", "calendar"} \subseteq DOMAIN args /\ DOMAIN args \subseteq EventFields
    <2>1. Required(c.tool) \subseteq DOMAIN args /\ DOMAIN args \subseteq Accepted(c.tool)
        BY CallsMade DEF WellFormed
    <2>2. Required(c.tool) = {"title", "calendar", "startDate", "endDate"} /\ Accepted(c.tool) = EventFields
        BY DEF Required, Accepted
    <2> QED BY <2>1, <2>2 DEF ByTool, RestCalls, CreateTools, StatusTools
<1>2. /\ \A f \in DOMAIN body : /\ f \in DOMAIN args
                                /\ f \in DateFields => body[f] \in Int
                                /\ f \notin DateFields => body[f] = args[f]
      /\ DOMAIN body = Named(args) \cup {"title", "calendar"} /\ {"startDate", "endDate"} \subseteq DOMAIN body
    <2>1. \A f \in DOMAIN body : /\ f \in DOMAIN c.args
                                 /\ f \in DateFields => body[f] \in Int
                                 /\ f \notin DateFields => body[f] = c.args[f]
        BY BodyHeld
    <2>2. DOMAIN body = Named(c.args) \cup {"title", "calendar"}
        BY BodyHeld
    <2>3. {"startDate", "endDate"} \subseteq DOMAIN body
        BY BodyHeld, Zenon
    <2> QED BY <2>1, <2>2, <2>3, Zenon
<1>3. /\ \A f \in DOMAIN args : f \in StringFields => args[f] \in Strings
      /\ args.calendar # ""
    BY <1>1, ArgumentHeld
<1>4. \A f \in DOMAIN args :
        /\ f \in StringFields => (f \in Named(args) <=> args[f] # "")
        /\ f \in DateFields => (f \in Named(args) <=> args[f].form # "empty")
    BY DEF Named, StringFields, DateFields
<1>5. DOMAIN keys = DOMAIN body /\ \A f \in DOMAIN body : keys[f] = body[f]
    <2>1. \A f \in DOMAIN body : f \in StringFields \ {"title"} => body[f] # ""
        BY <1>2, <1>3, <1>4 DEF StringFields, DateFields
    <2> QED BY <2>1 DEF MarshalCreateEvent, Restrict
<1> HIDE DEF keys
<1>6. new = [kind |-> "event", title |-> keys.title, calendar |-> keys.calendar,
             startDate |-> keys.startDate, endDate |-> keys.endDate,
             notes |-> FieldIn(keys, "notes", ""), recurrenceRules |-> <<>>,
             timeZone |-> IF FieldIn(keys, "timeZone", "") \in Zones THEN keys.timeZone ELSE ""]
    BY Zenon DEF NewEvent
<1> DEFINE notes == FieldIn(keys, "notes", "")
           zone == IF FieldIn(keys, "timeZone", "") \in Zones THEN keys.timeZone ELSE ""
<1>7. /\ notes = IF "notes" \in DOMAIN args /\ args.notes # "" THEN args.notes ELSE ""
      /\ zone = IF "timeZone" \in DOMAIN args /\ args.timeZone \in Zones THEN args.timeZone ELSE ""
    <2>1. \A z \in Zones : z # ""
        BY ZonesAreNames
    <2>2. {"notes", "timeZone"} \subseteq StringFields /\ {"notes", "timeZone"} \cap DateFields = {}
        BY DEF StringFields, DateFields
    <2>3. \A f \in {"notes", "timeZone"} :
            /\ f \in DOMAIN keys <=> f \in DOMAIN args /\ args[f] # ""
            /\ f \in DOMAIN keys => keys[f] = args[f]
        BY <1>2, <1>4, <1>5, <2>2
    <2> QED BY <2>1, <2>3 DEF FieldIn
<1> HIDE DEF notes, zone
<1>8. /\ new = [f \in EventKeys |-> new[f]] /\ new.kind = "event"
      /\ new.title = args.title /\ new.calendar = args.calendar
      /\ new.startDate = body.startDate /\ new.endDate = body.endDate
      /\ new.notes = notes /\ new.recurrenceRules = <<>> /\ new.timeZone = zone
    <2>1. new = [kind |-> "event", title |-> keys.title, calendar |-> keys.calendar,
                 startDate |-> keys.startDate, endDate |-> keys.endDate,
                 notes |-> notes, recurrenceRules |-> <<>>, timeZone |-> zone]
        BY <1>6 DEF notes, zone
    <2>2. keys.title = args.title /\ keys.calendar = args.calendar
          /\ keys.startDate = body.startDate /\ keys.endDate = body.endDate
        BY <1>2, <1>5 DEF DateFields
    <2> HIDE DEF new
    <2> QED BY <2>1, <2>2 DEF EventKeys
<1> HIDE DEF new
<1>9. new \in Event
    <2>1. new.title \in Strings /\ new.calendar \in Strings /\ new.notes \in Strings /\ new.timeZone \in Strings
        <3>1. args.title \in Strings /\ args.calendar \in Strings
            BY <1>1, <1>3 DEF StringFields
        <3>2. notes \in Strings /\ zone \in Strings
            <4>1. \A f \in {"notes", "timeZone"} : f \in DOMAIN args => args[f] \in Strings
                BY <1>3 DEF StringFields
            <4>2. "" \in Strings
                BY DEF Strings
            <4> QED BY <1>7, <4>1, <4>2
        <3> QED BY <1>8, <3>1, <3>2
    <2>2. new.startDate \in Int /\ new.endDate \in Int
        BY <1>2, <1>8 DEF DateFields
    <2>3. <<>> \in Seq(StoredRule)
        OBVIOUS
    <2> QED BY <1>8, <2>1, <2>2, <2>3, EventParts
<1>10. ASSUME NEW f \in EventKeys \ {"kind"}
       PROVE  new[f] = IF SaysOf(c, body, withKit, f) THEN SaidOf(c, body, f) ELSE Blank(f)
    <2> DEFINE says == SaysOf(c, body, withKit, f)
               said == SaidOf(c, body, f)
    <2>1. CASE f = "title"
        <3>1. (says <=> args.title # "") /\ said = args.title /\ Blank(f) = ""
            <4>1. says <=> f \in DOMAIN args /\ (ByTool(c) => args[f] # "")
                BY <1>1, <2>1, SaysEach
            <4>2. said = args[f]
                BY <1>1, <2>1, SaidEach
            <4>3. Blank(f) = ""
                BY <2>1 DEF Blank, StringFields
            <4> QED BY <1>1, <2>1, <4>1, <4>2, <4>3, Zenon
        <3> QED BY <1>8, <2>1, <3>1
    <2>2. CASE f = "calendar"
        <3>1. says /\ said = args.calendar
            <4>1. says <=> f \in DOMAIN args /\ (ByTool(c) => args[f] # "")
                BY <1>1, <2>2, SaysEach
            <4>2. said = args[f]
                BY <1>1, <2>2, SaidEach
            <4> QED BY <1>1, <1>3, <2>2, <4>1, <4>2
        <3> QED BY <1>8, <2>2, <3>1
    <2>3. CASE f = "notes"
        <3>1. (says <=> f \in DOMAIN args /\ args.notes # "") /\ said = args.notes /\ Blank(f) = ""
            <4>1. says <=> f \in DOMAIN args /\ (ByTool(c) => args[f] # "")
                BY <1>1, <2>3, SaysEach
            <4>2. said = args[f]
                BY <1>1, <2>3, SaidEach
            <4>3. Blank(f) = ""
                BY <2>3 DEF Blank, StringFields
            <4> QED BY <1>1, <2>3, <4>1, <4>2, <4>3, Zenon
        <3> QED BY <1>7, <1>8, <2>3, <3>1
    <2>4. CASE f = "timeZone"
        <3>1. (says <=> f \in DOMAIN args /\ args.timeZone \in Zones) /\ said = args.timeZone /\ Blank(f) = ""
            <4>1. says <=> f \in DOMAIN args /\ args[f] \in Zones
                BY <1>1, <2>4, SaysEach
            <4>2. said = args[f]
                BY <1>1, <2>4, SaidEach
            <4>3. Blank(f) = ""
                BY <2>4 DEF Blank, StringFields
            <4> QED BY <1>1, <2>4, <4>1, <4>2, <4>3, Zenon
        <3> QED BY <1>7, <1>8, <2>4, <3>1
    <2>5. CASE f \in {"startDate", "endDate"}
        <3>1. f \in DOMAIN body /\ f \in DOMAIN args /\ args[f].form # "empty"
            BY <1>2, <1>4, <2>5 DEF DateFields
        <3>2. says
            BY <1>1, <2>5, <3>1, SaysEach
        <3>3. said = body[f]
            BY <1>1, <2>5, SaidEach
        <3> QED BY <1>8, <2>5, <3>2, <3>3
    <2>6. CASE f = "recurrenceRules"
        <3>1. f \notin DOMAIN args
            BY <1>1, <2>6 DEF EventFields
        <3>2. ~says /\ Blank(f) = <<>>
            BY <1>1, <2>6, <3>1, SaysEach DEF Blank, StringFields
        <3> QED BY <1>8, <2>6, <3>2
    <2> QED BY <2>1, <2>2, <2>3, <2>4, <2>5, <2>6 DEF EventKeys
<1> QED BY <1>9, <1>10 DEF new, keys

LEMMA NewReminderAsSaid ==
    ASSUME NEW c \in Made, NEW at \in Int, ~Refused(c, at), NEW body, body = Body(c, at),
           NEW withKit \in BOOLEAN, c.tool = "create_reminder"
    PROVE  LET new == NewReminder(MarshalCreateReminder(body), withKit)
           IN  /\ new \in Reminder
               /\ \A f \in ReminderKeys \ {"kind"} :
                    new[f] = IF SaysOf(c, body, withKit, f) THEN SaidOf(c, body, f) ELSE Blank(f)
<1> DEFINE keys == MarshalCreateReminder(body)
           new == NewReminder(keys, withKit)
           args == c.args
<1>1. /\ ByTool(c) /\ c.tool \in CreateTools /\ c.tool \notin StatusTools
      /\ {"title", "list"} \subseteq DOMAIN args /\ DOMAIN args \subseteq ReminderFields
    <2>1. Required(c.tool) \subseteq DOMAIN args /\ DOMAIN args \subseteq Accepted(c.tool)
        BY CallsMade DEF WellFormed
    <2>2. Required(c.tool) = {"title", "list"} /\ Accepted(c.tool) = ReminderFields
        BY DEF Required, Accepted
    <2> QED BY <2>1, <2>2 DEF ByTool, RestCalls, CreateTools, StatusTools
<1>2. /\ \A f \in DOMAIN body : /\ f \in DOMAIN args
                                /\ f \in DateFields => body[f] \in Int
                                /\ f \notin DateFields => body[f] = args[f]
      /\ DOMAIN body \subseteq Named(args) \cup {"title", "list"}
      /\ \A f \in (Named(args) \cup {"title", "list"}) \ DateFields :
            f \in DOMAIN body <=> (f = "priority" => args.priority # 0) /\ (f = "flagged" => args.flagged)
    BY ReminderBody
<1>3. /\ \A f \in DOMAIN args : f \in StringFields => args[f] \in Strings
      /\ args.list # ""
      /\ "priority" \in DOMAIN args => args.priority \in Int
      /\ "flagged" \in DOMAIN args => args.flagged \in BOOLEAN
    <2>1. \A f \in DOMAIN args : f \in StringFields => args[f] \in Strings
        BY ArgumentHeld
    <2>2. args.list # ""
        BY <1>1, ArgumentHeld
    <2>3. "priority" \in DOMAIN args => args.priority \in Int
        BY ArgumentHeld
    <2>4. "flagged" \in DOMAIN args => args.flagged \in BOOLEAN
        BY ArgumentHeld DEF FlagFields
    <2> QED BY <2>1, <2>2, <2>3, <2>4
<1>4. \A f \in DOMAIN args :
        /\ f \in StringFields => (f \in Named(args) <=> args[f] # "")
        /\ f \in DateFields => (f \in Named(args) <=> args[f].form # "empty")
        /\ f \in {"priority", "flagged"} => f \in Named(args)
    BY DEF Named, StringFields, DateFields
<1>5. DOMAIN keys = DOMAIN body /\ \A f \in DOMAIN body : keys[f] = body[f]
    <2>1. \A f \in DOMAIN body : f \in StringFields \ {"title"} => body[f] # ""
        BY <1>2, <1>3, <1>4 DEF StringFields, DateFields
    <2>2. "alarms" \notin DOMAIN body
        BY <1>1, <1>2 DEF ReminderFields
    <2>3. "priority" \in DOMAIN body => body.priority # 0
        BY <1>2, <1>4 DEF DateFields
    <2>4. "flagged" \in DOMAIN body => body.flagged
        BY <1>2, <1>4 DEF DateFields
    <2> DEFINE Kept(f) == /\ f \in StringFields \ {"title"} => body[f] # ""
                          /\ f = "alarms" => body[f] # <<>>
                          /\ f = "priority" => body[f] # 0
                          /\ f = "flagged" => body[f]
    <2>5. keys = Restrict(body, {f \in DOMAIN body : Kept(f)})
        BY Zenon DEF MarshalCreateReminder
    <2>6. \A f \in DOMAIN body : Kept(f)
        BY <2>1, <2>2, <2>3, <2>4, Zenon
    <2> HIDE DEF Kept, keys
    <2>7. {f \in DOMAIN body : Kept(f)} = DOMAIN body
        BY <2>6
    <2> QED BY <2>5, <2>7 DEF Restrict
<1> HIDE DEF keys
<1> DEFINE notes == FieldIn(keys, "notes", "")
           due == FieldIn(keys, "dueDate", Null)
           alarms == IF "remindMeDate" \in DOMAIN keys THEN <<Absolute(keys.remindMeDate)>> ELSE <<>>
           priority == FieldIn(keys, "priority", 0)
           flagged == withKit /\ FieldIn(keys, "flagged", FALSE)
<1>6. /\ notes = IF "notes" \in DOMAIN args /\ args.notes # "" THEN args.notes ELSE ""
      /\ due = IF "dueDate" \in DOMAIN body THEN body.dueDate ELSE Null
      /\ alarms = IF "remindMeDate" \in DOMAIN body THEN <<Absolute(body.remindMeDate)>> ELSE <<>>
      /\ priority = IF "priority" \in DOMAIN args THEN args.priority ELSE 0
    <2>1. /\ "notes" \in DOMAIN keys <=> "notes" \in DOMAIN args /\ args.notes # ""
          /\ "notes" \in DOMAIN keys => keys.notes = args.notes
        BY <1>2, <1>4, <1>5 DEF StringFields, DateFields
    <2>2. /\ "priority" \in DOMAIN keys <=> "priority" \in DOMAIN args /\ args.priority # 0
          /\ "priority" \in DOMAIN keys => keys.priority = args.priority
        BY <1>2, <1>4, <1>5 DEF DateFields
    <2>3. notes = IF "notes" \in DOMAIN args /\ args.notes # "" THEN args.notes ELSE ""
        BY <2>1 DEF FieldIn
    <2>4. priority = IF "priority" \in DOMAIN args THEN args.priority ELSE 0
        BY <2>2 DEF FieldIn
    <2>5. due = IF "dueDate" \in DOMAIN body THEN body.dueDate ELSE Null
        BY <1>5 DEF FieldIn
    <2>6. alarms = IF "remindMeDate" \in DOMAIN body THEN <<Absolute(body.remindMeDate)>> ELSE <<>>
        BY <1>5
    <2> QED BY <2>3, <2>4, <2>5, <2>6
<1>7. flagged = IF "flagged" \in DOMAIN args /\ withKit THEN args.flagged ELSE FALSE
    <2>1. "flagged" \in DOMAIN keys <=> "flagged" \in DOMAIN args /\ args.flagged
        BY <1>2, <1>4, <1>5 DEF DateFields
    <2>2. "flagged" \in DOMAIN keys => keys.flagged = args.flagged
        BY <1>2, <1>5 DEF DateFields
    <2>3. CASE "flagged" \in DOMAIN keys
        BY <1>3, <2>1, <2>2, <2>3 DEF FieldIn
    <2>4. CASE "flagged" \notin DOMAIN keys
        BY <1>3, <2>1, <2>4 DEF FieldIn
    <2> QED BY <2>3, <2>4
<1>8. /\ new = [f \in ReminderKeys |-> new[f]] /\ new.kind = "reminder"
      /\ new.title = args.title /\ new.list = args.list /\ new.notes = notes /\ new.recurrenceRules = <<>>
      /\ new.dueDate = due /\ new.alarms = alarms /\ new.priority = priority
      /\ new.completed = FALSE /\ new.flagged = flagged
    <2>1. new = [kind |-> "reminder", title |-> keys.title, list |-> keys.list,
                 notes |-> notes, recurrenceRules |-> <<>>, dueDate |-> due,
                 alarms |-> alarms \o FieldIn(keys, "alarms", <<>>),
                 priority |-> priority, completed |-> FALSE, flagged |-> flagged]
        BY Zenon DEF NewReminder
    <2>2. keys.title = args.title /\ keys.list = args.list
        BY <1>1, <1>2, <1>5 DEF DateFields
    <2>3. alarms \o FieldIn(keys, "alarms", <<>>) = alarms
        <3>1. FieldIn(keys, "alarms", <<>>) = <<>>
            BY <1>1, <1>2, <1>5 DEF FieldIn, ReminderFields
        <3> DEFINE alarm == Absolute(keys.remindMeDate)
        <3> HIDE DEF alarm
        <3>2. <<alarm>> \o <<>> = <<alarm>> /\ <<>> \o <<>> = <<>>
            OBVIOUS
        <3>3. alarms = <<alarm>> \/ alarms = <<>>
            BY DEF alarm
        <3> QED BY <3>1, <3>2, <3>3
    <2> HIDE DEF new, notes, due, alarms, priority, flagged
    <2> QED BY <2>1, <2>2, <2>3 DEF ReminderKeys
<1> HIDE DEF new, notes, due, alarms, priority, flagged
<1>9. new \in Reminder
    <2>1. args.title \in Strings /\ args.list \in Strings
        BY <1>1, <1>3 DEF StringFields
    <2>2. notes \in Strings
        <3>1. "notes" \in DOMAIN args => args.notes \in Strings
            BY <1>3 DEF StringFields
        <3>2. "" \in Strings
            BY DEF Strings
        <3> QED BY <1>6, <3>1, <3>2
    <2>3. due \in Int \cup {Null}
        BY <1>2, <1>6 DEF DateFields
    <2>4. alarms \in Seq(Alarm)
        <3>1. "remindMeDate" \in DOMAIN body => Absolute(body.remindMeDate) \in Alarm
            BY <1>2 DEF Absolute, Alarm, DateFields
        <3>2. <<>> \in Seq(Alarm)
            OBVIOUS
        <3>3. \A a \in Alarm : <<a>> \in Seq(Alarm)
            OBVIOUS
        <3> QED BY <1>6, <3>1, <3>2, <3>3
    <2>5. priority \in Int
        <3>1. "priority" \in DOMAIN args => args.priority \in Int
            BY ArgumentHeld
        <3>2. priority # 0 => "priority" \in DOMAIN args /\ priority = args.priority
            BY <1>6, Zenon
        <3> QED BY <3>1, <3>2
    <2>7. flagged \in BOOLEAN
        BY <1>3, <1>7, Zenon
    <2>6. <<>> \in Seq(StoredRule)
        OBVIOUS
    <2> QED BY <1>8, <2>1, <2>2, <2>3, <2>4, <2>5, <2>6, <2>7, ReminderParts
<1>10. ASSUME NEW f \in ReminderKeys \ {"kind"}
       PROVE  new[f] = IF SaysOf(c, body, withKit, f) THEN SaidOf(c, body, f) ELSE Blank(f)
    <2> DEFINE says == SaysOf(c, body, withKit, f)
               said == SaidOf(c, body, f)
    <2>1. CASE f = "title"
        <3>1. says <=> f \in DOMAIN args /\ (ByTool(c) => args[f] # "")
            BY <1>1, <2>1, SaysEach
        <3>2. said = args[f]
            BY <1>1, <2>1, SaidEach
        <3>3. Blank(f) = ""
            BY <2>1 DEF Blank, StringFields
        <3> QED BY <1>1, <1>8, <2>1, <3>1, <3>2, <3>3
    <2>2. CASE f = "list"
        <3>1. says <=> f \in DOMAIN args /\ (ByTool(c) => args[f] # "")
            BY <1>1, <2>2, SaysEach
        <3>2. said = args[f]
            BY <1>1, <2>2, SaidEach
        <3> QED BY <1>1, <1>3, <1>8, <2>2, <3>1, <3>2
    <2>3. CASE f = "notes"
        <3>1. says <=> f \in DOMAIN args /\ (ByTool(c) => args[f] # "")
            BY <1>1, <2>3, SaysEach
        <3>2. said = args[f]
            BY <1>1, <2>3, SaidEach
        <3>3. Blank(f) = ""
            BY <2>3 DEF Blank, StringFields
        <3> QED BY <1>1, <1>6, <1>8, <2>3, <3>1, <3>2, <3>3
    <2>4. CASE f = "dueDate"
        <3>1. ~Clears(c)
            BY <1>1 DEF Clears, ReminderFields
        <3>2. says <=> \/ f = "dueDate" /\ Clears(c)
                       \/ /\ f \in DOMAIN args
                          /\ ByTool(c) => args[f].form # "empty" /\ (c.tool \in CreateTools => f \in DOMAIN body)
            BY <1>1, <2>4, SaysEach
        <3>3. f \in DOMAIN body => f \in DOMAIN args /\ args[f].form # "empty"
            BY <1>2, <1>4, <2>4 DEF DateFields
        <3>4. says <=> f \in DOMAIN body
            BY <1>1, <3>1, <3>2, <3>3
        <3>5. said = body[f]
            BY <1>1, <2>4, <3>1, SaidEach
        <3>6. Blank(f) = Null
            BY <2>4 DEF Blank, StringFields
        <3> QED BY <1>6, <1>8, <2>4, <3>4, <3>5, <3>6
    <2>5. CASE f = "alarms"
        <3>1. "alarms" \notin DOMAIN args
            BY <1>1 DEF ReminderFields
        <3>2. says <=> \/ "alarms" \in DOMAIN args
                       \/ /\ "remindMeDate" \in DOMAIN args
                          /\ ByTool(c) => /\ args.remindMeDate.form # "empty"
                                          /\ c.tool \in CreateTools => "remindMeDate" \in DOMAIN body
            BY <1>1, <2>5, SaysEach
        <3>3. "remindMeDate" \in DOMAIN body => "remindMeDate" \in DOMAIN args /\ args.remindMeDate.form # "empty"
            BY <1>2, <1>4 DEF DateFields
        <3>4. says <=> "remindMeDate" \in DOMAIN body
            BY <1>1, <3>1, <3>2, <3>3
        <3>5. said = <<Absolute(body.remindMeDate)>>
            BY <1>1, <2>5, <3>1, SaidEach
        <3>6. Blank(f) = <<>>
            BY <2>5 DEF Blank, StringFields
        <3> QED BY <1>6, <1>8, <2>5, <3>4, <3>5, <3>6
    <2>6. CASE f = "priority"
        <3>1. says <=> f \in DOMAIN args
            BY <1>1, <2>6, SaysEach
        <3>2. said = args[f]
            BY <1>1, <2>6, SaidEach
        <3>3. Blank(f) = 0
            BY <2>6 DEF Blank, StringFields
        <3> QED BY <1>6, <1>8, <2>6, <3>1, <3>2, <3>3
    <2>7. CASE f = "flagged"
        <3>1. says <=> f \in DOMAIN args /\ withKit
            BY <1>1, <2>7, SaysEach
        <3>2. said = args[f]
            BY <1>1, <2>7, SaidEach
        <3>3. Blank(f) = FALSE
            BY <2>7 DEF Blank, StringFields
        <3> QED BY <1>7, <1>8, <2>7, <3>1, <3>2, <3>3, Zenon
    <2>8. CASE f \in {"completed", "recurrenceRules"}
        <3>1. f \notin DOMAIN args
            BY <1>1, <2>8 DEF ReminderFields
        <3>2. ~says
            BY <1>1, <2>8, <3>1, SaysEach
        <3>3. new[f] = Blank(f)
            BY <1>8, <2>8 DEF Blank, StringFields
        <3> QED BY <3>2, <3>3, Zenon
    <2> QED BY <2>1, <2>2, <2>3, <2>4, <2>5, <2>6, <2>7, <2>8 DEF ReminderKeys
<1> QED BY <1>9, <1>10 DEF new, keys

Patches == {"update_event", "patch_event", "update_reminder", "patch_reminder"}

Sent(c, f) ==
    /\ f \in DOMAIN c.args
    /\ ByTool(c) => /\ f \in StringFields => c.args[f] # ""
                    /\ f \in DateFields => c.args[f].form # "empty"

(* The keys of a patch are the fields its call says something of. *)
LEMMA KeysSaid ==
    ASSUME NEW c \in Made, c.tool \in Patches, NEW at \in Int, ~Refused(c, at), NEW body, body = Body(c, at)
    PROVE  LET keys == MarshalUpdateInput(body)
           IN  \A f : f # "clearDueDate" =>
                /\ f \in DOMAIN keys <=> (f = "dueDate" /\ Clears(c)) \/ Sent(c, f)
                /\ f \in DOMAIN keys =>
                    keys[f] = IF f = "dueDate" /\ Clears(c) THEN Null
                              ELSE IF f = "recurrenceRules" THEN MarshalRules(body[f]) ELSE body[f]
                /\ Sent(c, f) => f \in DOMAIN body
<1> DEFINE args == c.args
           keys == MarshalUpdateInput(body)
           clear == "clearDueDate" \in DOMAIN body /\ body.clearDueDate
           clears == Clears(c)
           domain == (DOMAIN body \ {"clearDueDate"}) \cup (IF clear THEN {"dueDate"} ELSE {})
<1>1. \A f : f \in DOMAIN body <=> Sent(c, f)
    <2>1. CASE c.tool \in UpdateTools
        <3>1. DOMAIN body = Named(args)
            BY <2>1, BodyHeld
        <3>2. ByTool(c)
            BY <2>1 DEF ByTool, UpdateTools, RestCalls
        <3>3. \A f : f \in Named(args) <=> f \in DOMAIN args /\ (f \in DateFields => args[f].form # "empty")
                                                          /\ (f \in StringFields => args[f] # "")
            BY Zenon DEF Named
        <3> QED BY <3>1, <3>2, <3>3, Zenon DEF Sent
    <2>2. CASE c.tool \in RestCalls
        <3>1. c.tool \notin CreateTools \cup UpdateTools
            BY <2>2 DEF CreateTools, UpdateTools, RestCalls
        <3>2. body = args
            BY <3>1, BodyHeld
        <3> QED BY <2>2, <3>2, Zenon DEF ByTool, Sent
    <2> QED BY <2>1, <2>2 DEF Patches, UpdateTools, RestCalls
<1>2. clear <=> clears
    <2>1. "clearDueDate" \notin StringFields \cup DateFields
        BY DEF StringFields, DateFields
    <2>2. "clearDueDate" \in DOMAIN body <=> "clearDueDate" \in DOMAIN args
        BY <1>1, <2>1, Zenon DEF Sent
    <2>3. "clearDueDate" \in DOMAIN body => body.clearDueDate = args.clearDueDate
        BY <2>1, BodyHeld
    <2> QED BY <2>2, <2>3, Zenon DEF Clears
<1>3. keys = [f \in domain |-> IF f = "dueDate" /\ clear THEN Null
                               ELSE IF f = "recurrenceRules" THEN MarshalRules(body[f]) ELSE body[f]]
    BY Zenon DEF MarshalUpdateInput
<1> HIDE DEF keys, clear, clears
<1>4. \A f : f # "clearDueDate" => (f \in domain <=> (f = "dueDate" /\ clear) \/ Sent(c, f))
    BY <1>1
<1> HIDE DEF domain
<1>5. DOMAIN keys = domain
    BY <1>3
<1>6. \A f \in domain : keys[f] = IF f = "dueDate" /\ clear THEN Null
                                  ELSE IF f = "recurrenceRules" THEN MarshalRules(body[f]) ELSE body[f]
    BY <1>3
<1>7. \A f : f # "clearDueDate" =>
        /\ f \in DOMAIN keys <=> (f = "dueDate" /\ clears) \/ Sent(c, f)
        /\ f \in DOMAIN keys =>
            keys[f] = IF f = "dueDate" /\ clears THEN Null
                      ELSE IF f = "recurrenceRules" THEN MarshalRules(body[f]) ELSE body[f]
        /\ Sent(c, f) => f \in DOMAIN body
    BY <1>1, <1>2, <1>4, <1>5, <1>6, Zenon
<1> QED BY <1>7, Zenon DEF keys, clears

(* The fields of an item that a patch does not say anything of, or which it  *)
(* sets to what it says.                                                     *)
LEMMA KeysOfFields ==
    ASSUME NEW c \in Made, c.tool \in Patches, NEW at \in Int, ~Refused(c, at), NEW body, body = Body(c, at),
           NEW withKit \in BOOLEAN, NEW f, RulesValid(body)
    PROVE  LET keys == MarshalUpdateInput(body)
           IN  /\ f \in {"title", "calendar", "list", "notes", "startDate", "endDate", "dueDate", "priority", "completed"} =>
                    /\ f \in DOMAIN keys <=> SaysOf(c, body, withKit, f)
                    /\ f \in DOMAIN keys => keys[f] = SaidOf(c, body, f)
               /\ f = "timeZone" =>
                    /\ f \in DOMAIN keys /\ keys[f] \in Zones <=> SaysOf(c, body, withKit, f)
                    /\ f \in DOMAIN keys => keys[f] = SaidOf(c, body, f)
               /\ f = "flagged" =>
                    /\ f \in DOMAIN keys /\ withKit <=> SaysOf(c, body, withKit, f)
                    /\ f \in DOMAIN keys => keys[f] = SaidOf(c, body, f)
               /\ f = "recurrenceRules" =>
                    /\ f \in DOMAIN keys <=> SaysOf(c, body, withKit, f)
                    /\ f \in DOMAIN keys => NewRules(keys[f]) = SaidOf(c, body, f) /\ NewRules(keys[f]) \in Seq(StoredRule)
               /\ f = "alarms" =>
                    /\ "alarms" \in DOMAIN keys \/ "remindMeDate" \in DOMAIN keys <=> SaysOf(c, body, withKit, f)
                    /\ "alarms" \in DOMAIN keys => keys.alarms = SaidOf(c, body, f)
                    /\ "alarms" \notin DOMAIN keys /\ "remindMeDate" \in DOMAIN keys =>
                            <<Absolute(keys.remindMeDate)>> = SaidOf(c, body, f)
<1> DEFINE keys == MarshalUpdateInput(body)
           args == c.args
           says == SaysOf(c, body, withKit, f)
           said == SaidOf(c, body, f)
           clears == Clears(c)
           tool == ByTool(c)
<1>1. \A g : g # "clearDueDate" =>
        /\ g \in DOMAIN keys <=> (g = "dueDate" /\ clears) \/ Sent(c, g)
        /\ g \in DOMAIN keys =>
            keys[g] = IF g = "dueDate" /\ clears THEN Null
                      ELSE IF g = "recurrenceRules" THEN MarshalRules(body[g]) ELSE body[g]
        /\ Sent(c, g) => g \in DOMAIN body
    BY KeysSaid, Zenon
<1>2. \A g \in DOMAIN body : g \in DOMAIN args /\ (g \notin DateFields => body[g] = args[g])
    BY BodyHeld
<1>3. c.tool \notin StatusTools /\ c.tool \notin CreateTools
    BY DEF Patches, StatusTools, CreateTools
<1>4. \A g \in {"title", "calendar", "list", "notes", "timeZone"} :
        g \notin DateFields /\ (Sent(c, g) <=> g \in DOMAIN args /\ (tool => args[g] # ""))
    <2>1. \A g \in {"title", "calendar", "list", "notes", "timeZone"} : g \in StringFields /\ g \notin DateFields
        BY DEF StringFields, DateFields
    <2> QED BY <2>1, Zenon DEF Sent
<1>5. \A g \in {"priority", "completed", "flagged", "alarms", "recurrenceRules"} :
        g \notin DateFields /\ (Sent(c, g) <=> g \in DOMAIN args)
    <2>1. \A g \in {"priority", "completed", "flagged", "alarms", "recurrenceRules"} :
            g \notin StringFields /\ g \notin DateFields
        BY DEF StringFields, DateFields
    <2> QED BY <2>1, Zenon DEF Sent
<1>6. \A g \in {"startDate", "endDate", "dueDate", "remindMeDate"} :
        Sent(c, g) <=> g \in DOMAIN args /\ (tool => args[g].form # "empty")
    <2>1. \A g \in {"startDate", "endDate", "dueDate", "remindMeDate"} : g \notin StringFields /\ g \in DateFields
        BY DEF StringFields, DateFields
    <2> QED BY <2>1, Zenon DEF Sent
<1> HIDE DEF keys
<1>7. ASSUME f \in {"title", "calendar", "list", "notes"}
      PROVE  (f \in DOMAIN keys <=> says) /\ (f \in DOMAIN keys => keys[f] = said)
    <2>1. says <=> f \in DOMAIN args /\ (tool => args[f] # "")
        BY <1>3, <1>7, SaysEach
    <2>2. said = args[f]
        BY <1>3, <1>7, SaidEach
    <2> HIDE DEF says, said, clears, tool
    <2>3. f \in DOMAIN keys <=> says
        BY <1>1, <1>4, <1>7, <2>1
    <2>4. f \in DOMAIN keys => keys[f] = said
        BY <1>1, <1>2, <1>4, <1>7, <2>2
    <2> QED BY <2>3, <2>4
<1>8. ASSUME f \in {"priority", "completed"}
      PROVE  (f \in DOMAIN keys <=> says) /\ (f \in DOMAIN keys => keys[f] = said)
    <2>1. says <=> f \in DOMAIN args
        BY <1>3, <1>8, SaysEach
    <2>2. said = args[f]
        BY <1>3, <1>8, SaidEach
    <2> HIDE DEF says, said, clears, tool
    <2>3. f \in DOMAIN keys <=> says
        BY <1>1, <1>5, <1>8, <2>1
    <2>4. f \in DOMAIN keys => keys[f] = said
        BY <1>1, <1>2, <1>5, <1>8, <2>2
    <2> QED BY <2>3, <2>4
<1>9. ASSUME f \in {"startDate", "endDate", "dueDate"}
      PROVE  (f \in DOMAIN keys <=> says) /\ (f \in DOMAIN keys => keys[f] = said)
    <2>1. says <=> \/ f = "dueDate" /\ clears
                   \/ /\ f \in DOMAIN args
                      /\ tool => args[f].form # "empty" /\ (c.tool \in CreateTools => f \in DOMAIN body)
        BY <1>3, <1>9, SaysEach
    <2>2. said = IF f = "dueDate" /\ clears THEN Null ELSE body[f]
        BY <1>3, <1>9, SaidEach
    <2> HIDE DEF says, said, clears, tool
    <2>3. f \in DOMAIN keys <=> says
        BY <1>1, <1>3, <1>6, <1>9, <2>1
    <2>4. f \in DOMAIN keys => keys[f] = said
        BY <1>1, <1>6, <1>9, <2>2
    <2> QED BY <2>3, <2>4
<1>10. ASSUME f = "timeZone"
       PROVE  /\ f \in DOMAIN keys /\ keys[f] \in Zones <=> says
              /\ f \in DOMAIN keys => keys[f] = said
    <2>1. says <=> f \in DOMAIN args /\ args[f] \in Zones
        BY <1>3, <1>10, SaysEach
    <2>2. said = args[f]
        BY <1>3, <1>10, SaidEach
    <2>3. \A z \in Zones : z # ""
        BY ZonesAreNames
    <2> HIDE DEF says, said, clears, tool
    <2>4. f \in DOMAIN keys => keys[f] = args[f]
        BY <1>1, <1>2, <1>4, <1>10
    <2>5. f \in DOMAIN args /\ args[f] \in Zones => f \in DOMAIN keys
        BY <1>1, <1>4, <1>10, <2>3
    <2>6. f \in DOMAIN keys => f \in DOMAIN args
        <3>1. f \in DOMAIN keys <=> Sent(c, f)
            BY <1>1, <1>10
        <3> QED BY <3>1, Zenon DEF Sent
    <2> QED BY <2>1, <2>2, <2>4, <2>5, <2>6
<1>11. ASSUME f = "flagged"
       PROVE  /\ f \in DOMAIN keys /\ withKit <=> says
              /\ f \in DOMAIN keys => keys[f] = said
    <2>1. says <=> f \in DOMAIN args /\ withKit
        BY <1>3, <1>11, SaysEach
    <2>2. said = args[f]
        BY <1>3, <1>11, SaidEach
    <2> HIDE DEF says, said, clears, tool
    <2>3. f \in DOMAIN keys <=> f \in DOMAIN args
        BY <1>1, <1>5, <1>11
    <2>4. f \in DOMAIN keys => keys[f] = said
        BY <1>1, <1>2, <1>5, <1>11, <2>2
    <2> QED BY <2>1, <2>3, <2>4
<1>12. ASSUME f = "recurrenceRules"
       PROVE  /\ f \in DOMAIN keys <=> says
              /\ f \in DOMAIN keys => NewRules(keys[f]) = said /\ NewRules(keys[f]) \in Seq(StoredRule)
    <2>1. says <=> f \in DOMAIN args
        BY <1>3, <1>12, SaysEach
    <2>2. said = [j \in DOMAIN args[f] |-> AsMeant(args[f][j])]
        BY <1>3, <1>12, SaidEach
    <2> HIDE DEF says, said, clears, tool
    <2>3. f \in DOMAIN keys <=> f \in DOMAIN args
        BY <1>1, <1>5, <1>12
    <2>4. f \in DOMAIN keys => keys[f] = MarshalRules(args[f]) /\ f \in DOMAIN body /\ body[f] = args[f]
        BY <1>1, <1>2, <1>5, <1>12
    <2>5. ASSUME f \in DOMAIN keys
          PROVE  NewRules(keys[f]) = said /\ NewRules(keys[f]) \in Seq(StoredRule)
        <3> DEFINE rules == args[f]
        <3>1. rules \in Seq(RecurrenceRule)
            BY <1>12, <2>3, <2>5, ArgumentHeld
        <3>2. \A j \in DOMAIN rules : Validate(rules[j])
            BY <1>12, <2>4, <2>5 DEF RulesValid, FieldIn
        <3> HIDE DEF rules
        <3>3. /\ NewRules(MarshalRules(rules)) = [j \in DOMAIN rules |-> AsMeant(rules[j])]
              /\ NewRules(MarshalRules(rules)) \in Seq(StoredRule)
            BY <3>1, <3>2, RulesKept
        <3> QED BY <2>2, <2>4, <2>5, <3>3, Zenon DEF rules
    <2> QED BY <2>1, <2>3, <2>5
<1>13. ASSUME f = "alarms"
       PROVE  /\ "alarms" \in DOMAIN keys \/ "remindMeDate" \in DOMAIN keys <=> says
              /\ "alarms" \in DOMAIN keys => keys.alarms = said
              /\ "alarms" \notin DOMAIN keys /\ "remindMeDate" \in DOMAIN keys =>
                    <<Absolute(keys.remindMeDate)>> = said
    <2>1. says <=> \/ "alarms" \in DOMAIN args
                   \/ /\ "remindMeDate" \in DOMAIN args
                      /\ tool => /\ args.remindMeDate.form # "empty"
                                 /\ c.tool \in CreateTools => "remindMeDate" \in DOMAIN body
        BY <1>3, <1>13, SaysEach
    <2>2. said = IF "alarms" \in DOMAIN args THEN args.alarms ELSE <<Absolute(body.remindMeDate)>>
        BY <1>3, <1>13, SaidEach
    <2> HIDE DEF says, said, clears, tool
    <2>3. "alarms" \in DOMAIN keys <=> "alarms" \in DOMAIN args
        BY <1>1, <1>5
    <2>4. "alarms" \in DOMAIN keys => keys.alarms = args.alarms
        BY <1>1, <1>2, <1>5
    <2>5. "remindMeDate" \in DOMAIN keys <=>
            "remindMeDate" \in DOMAIN args /\ (tool => args.remindMeDate.form # "empty")
        BY <1>1, <1>6
    <2>6. "remindMeDate" \in DOMAIN keys => keys.remindMeDate = body.remindMeDate
        BY <1>1
    <2>7. "alarms" \in DOMAIN keys \/ "remindMeDate" \in DOMAIN keys <=> says
        BY <1>3, <2>1, <2>3, <2>5
    <2>8. "alarms" \notin DOMAIN keys /\ "remindMeDate" \in DOMAIN keys => <<Absolute(keys.remindMeDate)>> = said
        BY <2>2, <2>3, <2>6
    <2> QED BY <2>2, <2>3, <2>4, <2>7, <2>8
<1> QED BY <1>7, <1>8, <1>9, <1>10, <1>11, <1>12, <1>13, Zenon DEF keys

LEMMA PatchedEventAsSaid ==
    ASSUME NEW c \in Made, c.tool \in {"update_event", "patch_event"}, NEW at \in Int, ~Refused(c, at),
           NEW body, body = Body(c, at), RulesValid(body), NEW withKit \in BOOLEAN, NEW item \in Event
    PROVE  LET new == PatchedEvent(item, MarshalUpdateInput(body))
           IN  /\ new \in Event
               /\ \A f \in EventKeys \ {"kind"} :
                    new[f] = IF SaysOf(c, body, withKit, f) THEN SaidOf(c, body, f) ELSE item[f]
<1> DEFINE keys == MarshalUpdateInput(body)
           new == PatchedEvent(item, keys)
           args == c.args
<1>1. c.tool \in Patches /\ c.tool \notin StatusTools /\ DOMAIN args \subseteq EventFields \cup {"recurrenceRules"}
    <2>1. DOMAIN args \subseteq Accepted(c.tool)
        BY CallsMade DEF WellFormed
    <2>2. Accepted(c.tool) \subseteq EventFields \cup {"recurrenceRules"}
        BY DEF Accepted
    <2> QED BY <2>1, <2>2 DEF Patches, StatusTools
<1>2. item = [f \in EventKeys |-> item[f]] /\ item.kind = "event" /\ item.title \in Strings /\ item.calendar \in Strings
      /\ item.startDate \in Int /\ item.endDate \in Int /\ item.notes \in Strings /\ item.timeZone \in Strings
      /\ item.recurrenceRules \in Seq(StoredRule)
    BY EventParts
<1>3. new = [f \in EventKeys |->
                IF f \notin DOMAIN keys \/ (f = "timeZone" /\ keys[f] \notin Zones) THEN item[f]
                ELSE IF f = "recurrenceRules" THEN NewRules(keys[f]) ELSE keys[f]]
    BY <1>2 DEF PatchedEvent
<1>4. \A f \in EventKeys :
        new[f] = IF f \notin DOMAIN keys \/ (f = "timeZone" /\ keys[f] \notin Zones) THEN item[f]
                 ELSE IF f = "recurrenceRules" THEN NewRules(keys[f]) ELSE keys[f]
    BY <1>3
<1>5. new = [f \in EventKeys |-> new[f]]
    BY <1>3
<1> HIDE DEF new
<1>6. ASSUME NEW f \in EventKeys \ {"kind"}
      PROVE  new[f] = IF SaysOf(c, body, withKit, f) THEN SaidOf(c, body, f) ELSE item[f]
    <2> DEFINE says == SaysOf(c, body, withKit, f)
               said == SaidOf(c, body, f)
    <2>1. CASE f \in {"title", "calendar", "notes", "startDate", "endDate"}
        <3>1. f \in DOMAIN keys <=> says
            BY <1>1, <2>1, KeysOfFields
        <3>2. f \in DOMAIN keys => keys[f] = said
            BY <1>1, <2>1, KeysOfFields
        <3> HIDE DEF says, said, keys
        <3>3. new[f] = IF says THEN said ELSE item[f]
            BY <1>4, <2>1, <3>1, <3>2
        <3> QED BY <3>3 DEF says, said
    <2>2. CASE f = "timeZone"
        <3>1. f \in DOMAIN keys /\ keys[f] \in Zones <=> says
            BY <1>1, <2>2, KeysOfFields
        <3>2. f \in DOMAIN keys => keys[f] = said
            BY <1>1, <2>2, KeysOfFields
        <3> HIDE DEF says, said, keys
        <3>3. new[f] = IF says THEN said ELSE item[f]
            BY <1>4, <2>2, <3>1, <3>2
        <3> QED BY <3>3 DEF says, said
    <2>3. CASE f = "recurrenceRules"
        <3>1. f \in DOMAIN keys <=> says
            BY <1>1, <2>3, KeysOfFields
        <3>2. f \in DOMAIN keys => NewRules(keys[f]) = said
            BY <1>1, <2>3, KeysOfFields
        <3> HIDE DEF says, said, keys
        <3>3. new[f] = IF says THEN said ELSE item[f]
            BY <1>4, <2>3, <3>1, <3>2
        <3> QED BY <3>3 DEF says, said
    <2> QED BY <2>1, <2>2, <2>3 DEF EventKeys
<1>7. new.kind = "event"
    <2>1. "kind" \notin DOMAIN keys
        <3>1. "kind" \in DOMAIN keys <=> ("kind" = "dueDate" /\ Clears(c)) \/ Sent(c, "kind")
            BY <1>1, KeysSaid
        <3>2. ~Sent(c, "kind")
            BY <1>1 DEF Sent, EventFields
        <3> QED BY <3>1, <3>2
    <2> QED BY <1>2, <1>4, <2>1 DEF EventKeys
<1>8. /\ new.title \in Strings /\ new.calendar \in Strings /\ new.notes \in Strings /\ new.timeZone \in Strings
      /\ new.startDate \in Int /\ new.endDate \in Int /\ new.recurrenceRules \in Seq(StoredRule)
    <2>1. \A f \in {"title", "calendar", "notes", "timeZone", "startDate", "endDate"} :
            f \in DOMAIN keys => f \in DOMAIN args /\ f \in DOMAIN body /\ keys[f] = body[f]
        <3> SUFFICES ASSUME NEW f \in {"title", "calendar", "notes", "timeZone", "startDate", "endDate"}, f \in DOMAIN keys
                     PROVE  f \in DOMAIN args /\ f \in DOMAIN body /\ keys[f] = body[f]
            OBVIOUS
        <3>1. f # "clearDueDate" /\ f # "dueDate" /\ f # "recurrenceRules"
            OBVIOUS
        <3>2. Sent(c, f)
            BY <1>1, <3>1, KeysSaid
        <3>3. keys[f] = body[f] /\ f \in DOMAIN body
            BY <1>1, <3>1, <3>2, KeysSaid
        <3> QED BY <3>2, <3>3 DEF Sent
    <2>2. \A f \in {"title", "calendar", "notes", "timeZone"} : f \in DOMAIN keys => keys[f] \in Strings
        <3> SUFFICES ASSUME NEW f \in {"title", "calendar", "notes", "timeZone"}, f \in DOMAIN keys
                     PROVE  keys[f] \in Strings
            OBVIOUS
        <3>1. f \in StringFields /\ f \notin DateFields
            BY DEF StringFields, DateFields
        <3>2. f \in DOMAIN args /\ f \in DOMAIN body /\ keys[f] = body[f]
            BY <2>1
        <3>3. body[f] = args[f]
            BY <3>1, <3>2, BodyHeld
        <3>4. args[f] \in Strings
            BY <3>1, <3>2, ArgumentHeld
        <3> QED BY <3>2, <3>3, <3>4
    <2>3. \A f \in {"startDate", "endDate"} : f \in DOMAIN keys => keys[f] \in Int
        <3> SUFFICES ASSUME NEW f \in {"startDate", "endDate"}, f \in DOMAIN keys
                     PROVE  keys[f] \in Int
            OBVIOUS
        <3>1. f \in DateFields
            BY DEF DateFields
        <3>2. f \in DOMAIN body /\ keys[f] = body[f]
            BY <2>1
        <3> QED BY <3>1, <3>2, BodyHeld
    <2>4. "recurrenceRules" \in DOMAIN keys => NewRules(keys.recurrenceRules) \in Seq(StoredRule)
        BY <1>1, KeysOfFields
    <2> HIDE DEF keys
    <2>5. new.title \in Strings /\ new.calendar \in Strings /\ new.notes \in Strings /\ new.timeZone \in Strings
        BY <1>2, <1>4, <2>2 DEF EventKeys
    <2>6. new.startDate \in Int /\ new.endDate \in Int
        BY <1>2, <1>4, <2>3 DEF EventKeys
    <2>7. new.recurrenceRules \in Seq(StoredRule)
        BY <1>2, <1>4, <2>4 DEF EventKeys
    <2> QED BY <2>5, <2>6, <2>7
<1>9. new \in Event
    BY <1>5, <1>7, <1>8, EventParts
<1> QED BY <1>6, <1>9 DEF new

LEMMA PatchedReminderAsSaid ==
    ASSUME NEW c \in Made, c.tool \in {"update_reminder", "patch_reminder"}, NEW at \in Int, ~Refused(c, at),
           NEW body, body = Body(c, at), RulesValid(body), NEW withKit \in BOOLEAN, NEW item \in Reminder
    PROVE  LET new == PatchedReminder(item, MarshalUpdateInput(body), withKit)
           IN  /\ new \in Reminder
               /\ \A f \in ReminderKeys \ {"kind"} :
                    new[f] = IF SaysOf(c, body, withKit, f) THEN SaidOf(c, body, f) ELSE item[f]
<1> DEFINE keys == MarshalUpdateInput(body)
           new == PatchedReminder(item, keys, withKit)
           args == c.args
           Plain == {"title", "list", "notes", "dueDate", "priority", "completed"}
<1>1. c.tool \in Patches /\ c.tool \notin StatusTools /\ "kind" \notin DOMAIN args
    <2>1. DOMAIN args \subseteq Accepted(c.tool)
        BY CallsMade DEF WellFormed
    <2>2. CASE c.tool = "update_reminder"
        <3>1. Accepted(c.tool) = ReminderFields \cup {"clearDueDate", "completed"}
            BY <2>2 DEF Accepted
        <3> QED BY <2>1, <2>2, <3>1 DEF Patches, StatusTools, ReminderFields
    <2>3. CASE c.tool = "patch_reminder"
        <3>1. Accepted(c.tool) = ReminderFields \cup {"clearDueDate", "completed", "alarms", "recurrenceRules"}
            BY <2>3 DEF Accepted
        <3> QED BY <2>1, <2>3, <3>1 DEF Patches, StatusTools, ReminderFields
    <2> QED BY <2>2, <2>3
<1>2. item = [f \in ReminderKeys |-> item[f]] /\ item.kind = "reminder" /\ item.title \in Strings /\ item.list \in Strings
      /\ item.notes \in Strings /\ item.dueDate \in Int \cup {Null} /\ item.alarms \in Seq(Alarm)
      /\ item.priority \in Int /\ item.completed \in BOOLEAN /\ item.flagged \in BOOLEAN
      /\ item.recurrenceRules \in Seq(StoredRule)
    BY ReminderParts
<1>3. DOMAIN item = ReminderKeys
    BY <1>2
<1>4. \A f \in ReminderKeys :
        /\ f = "alarms" => new[f] = AlarmsAfter(item, keys)
        /\ f = "recurrenceRules" => new[f] = IF f \in DOMAIN keys THEN NewRules(keys[f]) ELSE item[f]
        /\ f = "flagged" => new[f] = IF withKit /\ f \in DOMAIN keys THEN keys[f] ELSE item[f]
        /\ f \notin {"alarms", "recurrenceRules", "flagged"} => new[f] = IF f \in DOMAIN keys THEN keys[f] ELSE item[f]
    BY <1>3 DEF PatchedReminder, FieldIn
<1>5. new = [f \in ReminderKeys |-> new[f]]
    BY <1>3 DEF PatchedReminder
<1> HIDE DEF new
<1>6. ASSUME NEW f \in ReminderKeys \ {"kind"}
      PROVE  new[f] = IF SaysOf(c, body, withKit, f) THEN SaidOf(c, body, f) ELSE item[f]
    <2> DEFINE says == SaysOf(c, body, withKit, f)
               said == SaidOf(c, body, f)
    <2>1. CASE f \in Plain
        <3>1. f \in DOMAIN keys <=> says
            BY <1>1, <2>1, KeysOfFields
        <3>2. f \in DOMAIN keys => keys[f] = said
            BY <1>1, <2>1, KeysOfFields
        <3> HIDE DEF says, said, keys
        <3>3. new[f] = IF says THEN said ELSE item[f]
            BY <1>4, <2>1, <3>1, <3>2
        <3> QED BY <3>3 DEF says, said
    <2>2. CASE f = "flagged"
        <3>1. f \in DOMAIN keys /\ withKit <=> says
            BY <1>1, <2>2, KeysOfFields
        <3>2. f \in DOMAIN keys => keys[f] = said
            BY <1>1, <2>2, KeysOfFields
        <3> HIDE DEF says, said, keys
        <3>3. new[f] = IF says THEN said ELSE item[f]
            BY <1>4, <2>2, <3>1, <3>2
        <3> QED BY <3>3 DEF says, said
    <2>3. CASE f = "recurrenceRules"
        <3>1. f \in DOMAIN keys <=> says
            BY <1>1, <2>3, KeysOfFields
        <3>2. f \in DOMAIN keys => NewRules(keys[f]) = said
            BY <1>1, <2>3, KeysOfFields
        <3> HIDE DEF says, said, keys
        <3>3. new[f] = IF says THEN said ELSE item[f]
            BY <1>4, <2>3, <3>1, <3>2
        <3> QED BY <3>3 DEF says, said
    <2>4. CASE f = "alarms"
        <3>1. "alarms" \in DOMAIN keys \/ "remindMeDate" \in DOMAIN keys <=> says
            BY <1>1, <2>4, KeysOfFields
        <3>2. "alarms" \in DOMAIN keys => keys.alarms = said
            BY <1>1, <2>4, KeysOfFields
        <3>3. "alarms" \notin DOMAIN keys /\ "remindMeDate" \in DOMAIN keys => <<Absolute(keys.remindMeDate)>> = said
            BY <1>1, <2>4, KeysOfFields
        <3> HIDE DEF says, said, keys
        <3>4. new[f] = AlarmsAfter(item, keys)
            BY <1>4, <2>4
        <3>5. new[f] = IF says THEN said ELSE item[f]
            BY <2>4, <3>1, <3>2, <3>3, <3>4 DEF AlarmsAfter
        <3> QED BY <3>5 DEF says, said
    <2> QED BY <2>1, <2>2, <2>3, <2>4 DEF ReminderKeys
<1>7. new.kind = "reminder"
    <2>1. "kind" \notin DOMAIN keys
        <3>1. "kind" \in DOMAIN keys <=> ("kind" = "dueDate" /\ Clears(c)) \/ Sent(c, "kind")
            BY <1>1, KeysSaid
        <3>2. ~Sent(c, "kind")
            BY <1>1 DEF Sent
        <3> QED BY <3>1, <3>2
    <2> QED BY <1>2, <1>4, <2>1 DEF ReminderKeys
<1>8. \A f \in ReminderKeys \cup {"remindMeDate"} : f \in DOMAIN keys =>
        \/ f = "dueDate" /\ keys[f] = Null
        \/ f = "recurrenceRules"
        \/ f \in DOMAIN args /\ f \in DOMAIN body /\ keys[f] = body[f]
    <2> SUFFICES ASSUME NEW f \in ReminderKeys \cup {"remindMeDate"}, f \in DOMAIN keys,
                        ~(f = "dueDate" /\ keys[f] = Null), f # "recurrenceRules"
                 PROVE  f \in DOMAIN args /\ f \in DOMAIN body /\ keys[f] = body[f]
        OBVIOUS
    <2>1. f # "clearDueDate"
        BY DEF ReminderKeys
    <2>2. keys[f] = IF f = "dueDate" /\ Clears(c) THEN Null
                    ELSE IF f = "recurrenceRules" THEN MarshalRules(body[f]) ELSE body[f]
        BY <1>1, <2>1, KeysSaid
    <2>3. f \in DOMAIN keys <=> (f = "dueDate" /\ Clears(c)) \/ Sent(c, f)
        BY <1>1, <2>1, KeysSaid
    <2>4. Sent(c, f) => f \in DOMAIN body
        BY <1>1, <2>1, KeysSaid
    <2>5. Sent(c, f) => f \in DOMAIN args
        BY DEF Sent
    <2> HIDE DEF keys
    <2> QED BY <2>2, <2>3, <2>4, <2>5
<1>9. \A f \in {"title", "list", "notes"} : f \in DOMAIN keys => keys[f] \in Strings
    <2> SUFFICES ASSUME NEW f \in {"title", "list", "notes"}, f \in DOMAIN keys
                 PROVE  keys[f] \in Strings
        OBVIOUS
    <2>1. f \in StringFields /\ f \notin DateFields
        BY DEF StringFields, DateFields
    <2>2. f \in DOMAIN args /\ f \in DOMAIN body /\ keys[f] = body[f]
        BY <1>8 DEF ReminderKeys
    <2>3. body[f] = args[f]
        BY <2>1, <2>2, BodyHeld
    <2>4. args[f] \in Strings
        BY <2>1, <2>2, ArgumentHeld
    <2> QED BY <2>2, <2>3, <2>4
<1>10. /\ "dueDate" \in DOMAIN keys => keys.dueDate \in Int \cup {Null}
       /\ "remindMeDate" \in DOMAIN keys => keys.remindMeDate \in Int
    <2>1. \A f \in {"dueDate", "remindMeDate"} : f \in DOMAIN body => body[f] \in Int
        BY BodyHeld DEF DateFields
    <2>2. "dueDate" \in DOMAIN keys => keys.dueDate \in Int \cup {Null}
        <3>1. "dueDate" \in DOMAIN keys =>
                keys.dueDate = Null \/ ("dueDate" \in DOMAIN body /\ keys.dueDate = body.dueDate)
            BY <1>8 DEF ReminderKeys
        <3> QED BY <2>1, <3>1
    <2>3. "remindMeDate" \in DOMAIN keys => "remindMeDate" \in DOMAIN body /\ keys.remindMeDate = body.remindMeDate
        BY <1>8
    <2> QED BY <2>1, <2>2, <2>3
<1>11. \A f \in {"priority", "completed", "flagged", "alarms"} : f \in DOMAIN keys => keys[f] = args[f] /\ f \in DOMAIN args
    <2> SUFFICES ASSUME NEW f \in {"priority", "completed", "flagged", "alarms"}, f \in DOMAIN keys
                 PROVE  keys[f] = args[f] /\ f \in DOMAIN args
        OBVIOUS
    <2>1. f \notin DateFields
        BY DEF DateFields
    <2>2. f \in DOMAIN args /\ f \in DOMAIN body /\ keys[f] = body[f]
        BY <1>8 DEF ReminderKeys
    <2>3. body[f] = args[f]
        BY <2>1, <2>2, BodyHeld
    <2> QED BY <2>2, <2>3
<1>12. "priority" \in DOMAIN keys => keys.priority \in Int
    BY <1>11, ArgumentHeld
<1>13. \A f \in {"completed", "flagged"} : f \in DOMAIN keys => keys[f] \in BOOLEAN
    <2> SUFFICES ASSUME NEW f \in {"completed", "flagged"}, f \in DOMAIN keys
                 PROVE  keys[f] \in BOOLEAN
        OBVIOUS
    <2>1. f \in DOMAIN args /\ keys[f] = args[f]
        BY <1>11
    <2>2. args[f] \in BOOLEAN
        BY <2>1, ArgumentHeld DEF FlagFields
    <2> QED BY <2>1, <2>2
<1>14. AlarmsAfter(item, keys) \in Seq(Alarm)
    <2>1. "alarms" \in DOMAIN keys => keys.alarms \in Seq(Alarm)
        BY <1>11, ArgumentHeld
    <2>2. "remindMeDate" \in DOMAIN keys => Absolute(keys.remindMeDate) \in Alarm
        BY <1>10 DEF Absolute, Alarm
    <2>3. \A a \in Alarm : <<a>> \in Seq(Alarm)
        OBVIOUS
    <2> HIDE DEF keys
    <2> QED BY <1>2, <2>1, <2>2, <2>3 DEF AlarmsAfter
<1>15. "recurrenceRules" \in DOMAIN keys => NewRules(keys.recurrenceRules) \in Seq(StoredRule)
    BY <1>1, KeysOfFields
<1> HIDE DEF keys
<1>16. new.title \in Strings /\ new.list \in Strings /\ new.notes \in Strings
    BY <1>2, <1>4, <1>9 DEF ReminderKeys
<1>17. new.dueDate \in Int \cup {Null}
    BY <1>2, <1>4, <1>10 DEF ReminderKeys
<1>18. new.alarms \in Seq(Alarm)
    BY <1>4, <1>14 DEF ReminderKeys
<1>19. new.priority \in Int
    BY <1>2, <1>4, <1>12 DEF ReminderKeys
<1>20. new.completed \in BOOLEAN
    <2>1. new.completed = IF "completed" \in DOMAIN keys THEN keys.completed ELSE item.completed
        BY <1>4 DEF ReminderKeys
    <2> QED BY <1>2, <1>13, <2>1
<1>21. new.flagged \in BOOLEAN
    <2>1. new.flagged = IF withKit /\ "flagged" \in DOMAIN keys THEN keys.flagged ELSE item.flagged
        BY <1>4 DEF ReminderKeys
    <2> QED BY <1>2, <1>13, <2>1
<1>22. new.recurrenceRules \in Seq(StoredRule)
    BY <1>2, <1>4, <1>15 DEF ReminderKeys
<1>23. new \in Reminder
    BY <1>5, <1>7, <1>16, <1>17, <1>18, <1>19, <1>20, <1>21, <1>22, ReminderParts
<1> QED BY <1>6, <1>23 DEF new, keys

KeysFor(kind) == IF kind = "event" THEN EventKeys ELSE ReminderKeys

LEMMA Kinds ==
    ASSUME NEW item \in Event \cup Reminder
    PROVE  /\ item.kind = "event" <=> item \in Event
           /\ item.kind = "reminder" <=> item \in Reminder
           /\ DOMAIN item = KeysFor(item.kind) /\ item # Null
<1>1. \A x \in Event : x.kind = "event" /\ DOMAIN x = EventKeys
    BY EventParts
<1>2. \A x \in Reminder : x.kind = "reminder" /\ DOMAIN x = ReminderKeys
    BY ReminderParts
<1>3. item # Null
    BY NullIsNothing
<1> QED BY <1>1, <1>2, <1>3 DEF KeysFor

LEMMA StatusAsSaid ==
    ASSUME NEW c \in Made, c.tool \in StatusTools, NEW body, NEW withKit, NEW item \in Reminder
    PROVE  LET new == [item EXCEPT !.completed = c.tool = "complete_reminder"]
           IN  /\ new \in Reminder
               /\ \A f \in ReminderKeys \ {"kind"} :
                    new[f] = IF SaysOf(c, body, withKit, f) THEN SaidOf(c, body, f) ELSE item[f]
<1> DEFINE done == c.tool = "complete_reminder"
           new == [item EXCEPT !.completed = done]
<1>1. item = [f \in ReminderKeys |-> item[f]] /\ item.kind = "reminder" /\ item.title \in Strings /\ item.list \in Strings
      /\ item.notes \in Strings /\ item.dueDate \in Int \cup {Null} /\ item.alarms \in Seq(Alarm)
      /\ item.priority \in Int /\ item.completed \in BOOLEAN /\ item.flagged \in BOOLEAN
      /\ item.recurrenceRules \in Seq(StoredRule)
    BY ReminderParts
<1>2. done \in BOOLEAN
    OBVIOUS
<1>3. \A f : /\ SaysOf(c, body, withKit, f) <=> f = "completed"
             /\ f = "completed" => SaidOf(c, body, f) = done
    BY Zenon DEF SaysOf, SaidOf
<1> HIDE DEF done
<1>4. new = [f \in ReminderKeys |-> IF f = "completed" THEN done ELSE item[f]]
    BY <1>1
<1> HIDE DEF new
<1>5. /\ new = [f \in ReminderKeys |-> new[f]]
      /\ \A f \in ReminderKeys : new[f] = IF f = "completed" THEN done ELSE item[f]
    BY <1>4
<1>6. new.kind = "reminder" /\ new.title \in Strings /\ new.list \in Strings
      /\ new.notes \in Strings /\ new.dueDate \in Int \cup {Null} /\ new.alarms \in Seq(Alarm)
      /\ new.priority \in Int /\ new.flagged \in BOOLEAN /\ new.recurrenceRules \in Seq(StoredRule)
    BY <1>1, <1>5 DEF ReminderKeys
<1>7. new.completed \in BOOLEAN
    BY <1>2, <1>5 DEF ReminderKeys
<1>8. new \in Reminder
    BY <1>5, <1>6, <1>7, ReminderParts
<1>9. \A f \in ReminderKeys \ {"kind"} :
        new[f] = IF SaysOf(c, body, withKit, f) THEN SaidOf(c, body, f) ELSE item[f]
    BY <1>3, <1>5, Zenon
<1> QED BY <1>8, <1>9 DEF new, done

(* What a call makes of an item: what it says, and the rest as it was.       *)
LEMMA StoredAsSaid ==
    ASSUME NEW c \in Made, NEW at \in Int, ~Refused(c, at), NEW body, body = Body(c, at), RulesValid(body),
           NEW withKit \in BOOLEAN, NEW item,
           c.tool \notin CreateTools => item \in Event \cup Reminder /\ item.kind = KindOf(c)
    PROVE  LET new == Stored(c, body, item, withKit)
           IN  /\ c.tool \in DeleteTools => new = Null
               /\ c.tool \notin DeleteTools =>
                    /\ new \in Event \cup Reminder /\ new.kind = KindOf(c)
                    /\ \A f \in KeysFor(KindOf(c)) \ {"kind"} :
                        new[f] = IF SaysOf(c, body, withKit, f) THEN SaidOf(c, body, f)
                                 ELSE IF c.tool \in CreateTools THEN Blank(f) ELSE item[f]
<1> DEFINE new == Stored(c, body, item, withKit)
           says(f) == SaysOf(c, body, withKit, f)
           said(f) == SaidOf(c, body, f)
<1>1. CASE c.tool \in DeleteTools
    BY <1>1, StoredBy
<1>2. CASE c.tool = "create_event"
    <2>1. c.tool \in CreateTools /\ c.tool \notin DeleteTools /\ KindOf(c) = "event"
        BY <1>2 DEF CreateTools, DeleteTools, KindOf, EventTools
    <2>2. new = NewEvent(MarshalCreateEvent(body))
        BY <1>2, StoredBy
    <2>3. new \in Event
        BY <1>2, <2>2, NewEventAsSaid
    <2>4. \A f \in EventKeys \ {"kind"} : new[f] = IF says(f) THEN said(f) ELSE Blank(f)
        BY <1>2, <2>2, NewEventAsSaid
    <2> HIDE DEF new, says, said
    <2>5. new.kind = "event" /\ KeysFor(KindOf(c)) = EventKeys
        BY <2>1, <2>3, Kinds DEF KeysFor
    <2>6. \A f \in EventKeys \ {"kind"} :
            new[f] = IF says(f) THEN said(f) ELSE IF c.tool \in CreateTools THEN Blank(f) ELSE item[f]
        BY <2>1, <2>4
    <2> QED BY <2>1, <2>3, <2>5, <2>6 DEF new, says, said
<1>3. CASE c.tool = "create_reminder"
    <2>1. c.tool \in CreateTools /\ c.tool \notin DeleteTools /\ KindOf(c) = "reminder"
        BY <1>3 DEF CreateTools, DeleteTools, KindOf, EventTools
    <2>2. new = NewReminder(MarshalCreateReminder(body), withKit)
        BY <1>3, StoredBy
    <2>3. new \in Reminder
        BY <1>3, <2>2, NewReminderAsSaid
    <2>4. \A f \in ReminderKeys \ {"kind"} : new[f] = IF says(f) THEN said(f) ELSE Blank(f)
        BY <1>3, <2>2, NewReminderAsSaid
    <2> HIDE DEF new, says, said
    <2>5. new.kind = "reminder" /\ KeysFor(KindOf(c)) = ReminderKeys
        BY <2>1, <2>3, Kinds DEF KeysFor
    <2>6. \A f \in ReminderKeys \ {"kind"} :
            new[f] = IF says(f) THEN said(f) ELSE IF c.tool \in CreateTools THEN Blank(f) ELSE item[f]
        BY <2>1, <2>4
    <2> QED BY <2>1, <2>3, <2>5, <2>6 DEF new, says, said
<1>4. CASE c.tool \in {"update_event", "patch_event"}
    <2>1. c.tool \notin CreateTools /\ c.tool \notin DeleteTools /\ KindOf(c) = "event"
        BY <1>4 DEF CreateTools, DeleteTools, KindOf, EventTools
    <2>2. new = PatchedEvent(item, MarshalUpdateInput(body)) /\ item \in Event
        BY <1>4, <2>1, StoredBy, Kinds
    <2>3. new \in Event
        BY <1>4, <2>2, PatchedEventAsSaid
    <2>4. \A f \in EventKeys \ {"kind"} : new[f] = IF says(f) THEN said(f) ELSE item[f]
        BY <1>4, <2>2, PatchedEventAsSaid
    <2> HIDE DEF new, says, said
    <2>5. new.kind = "event" /\ KeysFor(KindOf(c)) = EventKeys
        BY <2>1, <2>3, Kinds DEF KeysFor
    <2>6. \A f \in EventKeys \ {"kind"} :
            new[f] = IF says(f) THEN said(f) ELSE IF c.tool \in CreateTools THEN Blank(f) ELSE item[f]
        BY <2>1, <2>4
    <2> QED BY <2>1, <2>3, <2>5, <2>6 DEF new, says, said
<1>5. CASE c.tool \in {"update_reminder", "patch_reminder"} \cup StatusTools
    <2>1. c.tool \notin CreateTools /\ c.tool \notin DeleteTools /\ KindOf(c) = "reminder"
        BY <1>5 DEF CreateTools, DeleteTools, StatusTools, KindOf, EventTools
    <2>2. item \in Reminder
        BY <2>1, Kinds
    <2>3. new \in Reminder /\ \A f \in ReminderKeys \ {"kind"} : new[f] = IF says(f) THEN said(f) ELSE item[f]
        <3>1. CASE c.tool \in StatusTools
            <4>1. new = [item EXCEPT !.completed = c.tool = "complete_reminder"]
                BY <3>1, StoredBy
            <4>2. new \in Reminder
                BY <2>2, <3>1, <4>1, StatusAsSaid
            <4>3. \A f \in ReminderKeys \ {"kind"} : new[f] = IF says(f) THEN said(f) ELSE item[f]
                BY <2>2, <3>1, <4>1, StatusAsSaid
            <4> QED BY <4>2, <4>3
        <3>2. CASE c.tool \in {"update_reminder", "patch_reminder"}
            <4>1. new = PatchedReminder(item, MarshalUpdateInput(body), withKit)
                BY <3>2, StoredBy
            <4>2. new \in Reminder
                BY <2>2, <3>2, <4>1, PatchedReminderAsSaid
            <4>3. \A f \in ReminderKeys \ {"kind"} : new[f] = IF says(f) THEN said(f) ELSE item[f]
                BY <2>2, <3>2, <4>1, PatchedReminderAsSaid
            <4> QED BY <4>2, <4>3
        <3> QED BY <1>5, <3>1, <3>2
    <2> HIDE DEF new, says, said
    <2>5. new.kind = "reminder" /\ KeysFor(KindOf(c)) = ReminderKeys
        BY <2>1, <2>3, Kinds DEF KeysFor
    <2>6. \A f \in ReminderKeys \ {"kind"} :
            new[f] = IF says(f) THEN said(f) ELSE IF c.tool \in CreateTools THEN Blank(f) ELSE item[f]
        BY <2>1, <2>3
    <2> QED BY <2>1, <2>3, <2>5, <2>6 DEF new, says, said
<1>6. \/ c.tool \in DeleteTools \cup {"create_event", "create_reminder"}
      \/ c.tool \in {"update_event", "patch_event"} \cup {"update_reminder", "patch_reminder"} \cup StatusTools
    BY CallsMade DEF EventTools, CreateTools, DeleteTools, StatusTools, RestCalls
<1> QED BY <1>1, <1>2, <1>3, <1>4, <1>5, <1>6

(* What is read back from the bridge's JSON. *)
LEMMA ReadBack ==
    /\ \A s \in Strings : Text(OrNull(s)) = s
    /\ \A t \in Int : Time(t) = t
    /\ \A t : OptionalTime(t) = Date(t) /\ Date(Date(t)) = Date(t)
<1>1. \A s \in Strings : s # Null
    BY NullIsNothing
<1>2. \A t \in Int : t # Null
    BY NullIsNothing
<1> QED BY <1>1, <1>2 DEF Text, OrNull, Time, OptionalTime, Date

LEMMA AsShownEach ==
    ASSUME NEW c, NEW f, NEW value
    PROVE  /\ f \in DateFields => AsShown(c, f, value) = IF c.tool = "patch_event" THEN value ELSE Date(value)
           /\ f = "priority" => AsShown(c, f, value) = IF c.tool \in RestCalls THEN value ELSE PriorityWord(value)
           /\ f = "alarms" => AsShown(c, f, value) = [k \in DOMAIN value |-> ConvertRawAlarm(value[k])]
           /\ f = "recurrenceRules" =>
                AsShown(c, f, value) = [k \in DOMAIN value |-> [value[k] EXCEPT !.end = EndShown(@)]]
           /\ f = "flagged" => AsShown(c, f, value) = (kit /\ value)
           /\ f \in {"title", "calendar", "list", "notes", "timeZone", "completed"} => AsShown(c, f, value) = value
<1> DEFINE shown == AsShown(c, f, value)
           date == IF c.tool = "patch_event" THEN value ELSE Date(value)
           priority == IF c.tool \in RestCalls THEN value ELSE PriorityWord(value)
           alarms == [k \in DOMAIN value |-> [value[k] EXCEPT !.at = Date(@)]]
           rules == [k \in DOMAIN value |-> [value[k] EXCEPT !.end = EndShown(@)]]
           flag == kit /\ value
<1>1. shown = CASE f \in DateFields -> date
                [] f = "priority" -> priority
                [] f = "alarms" -> alarms
                [] f = "recurrenceRules" -> rules
                [] f = "flagged" -> flag
                [] OTHER -> value
    BY Zenon DEF AsShown
<1>2. alarms = [k \in DOMAIN value |-> ConvertRawAlarm(value[k])]
    BY ReadBack DEF ConvertRawAlarm
<1> HIDE DEF shown, date, priority, alarms, rules, flag
<1>3. f \in DateFields => f # "priority" /\ f # "alarms" /\ f # "recurrenceRules" /\ f # "flagged"
    BY DEF DateFields
<1>4. f \in {"title", "calendar", "list", "notes", "timeZone", "completed"} =>
        f \notin DateFields /\ f # "priority" /\ f # "alarms" /\ f # "recurrenceRules" /\ f # "flagged"
    BY DEF DateFields
<1>5. f \in DateFields => shown = date
    BY <1>1, <1>3, Zenon
<1>6. f = "priority" => shown = priority
    <2>1. f = "priority" => f \notin DateFields /\ f # "alarms" /\ f # "recurrenceRules" /\ f # "flagged"
        BY DEF DateFields
    <2> QED BY <1>1, <2>1, Zenon
<1>7. f = "alarms" => shown = alarms
    <2>1. f = "alarms" => f \notin DateFields /\ f # "priority" /\ f # "recurrenceRules" /\ f # "flagged"
        BY DEF DateFields
    <2> QED BY <1>1, <2>1, Zenon
<1>8. f = "recurrenceRules" => shown = rules
    <2>1. f = "recurrenceRules" => f \notin DateFields /\ f # "priority" /\ f # "alarms" /\ f # "flagged"
        BY DEF DateFields
    <2> QED BY <1>1, <2>1, Zenon
<1>9. f = "flagged" => shown = flag
    <2>1. f = "flagged" => f \notin DateFields /\ f # "priority" /\ f # "alarms" /\ f # "recurrenceRules"
        BY DEF DateFields
    <2> QED BY <1>1, <2>1, Zenon
<1>10. f \in {"title", "calendar", "list", "notes", "timeZone", "completed"} => shown = value
    BY <1>1, <1>4, Zenon
<1> QED BY <1>2, <1>5, <1>6, <1>7, <1>8, <1>9, <1>10, Zenon DEF shown, date, priority, rules, flag

LEMMA StoredRules ==
    ASSUME NEW rules \in Seq(StoredRule)
    PROVE  ConvertRawRules(RulesToDicts(rules)) =
                [k \in DOMAIN rules |-> [rules[k] EXCEPT !.end = EndShown(@)]]
<1>1. rules \in Seq(RecurrenceRule)
    <2>1. StoredRule \subseteq RecurrenceRule
        BY DEF StoredRule
    <2> QED BY <2>1
<1> QED BY <1>1, RulesKept

LEMMA EventRead ==
    ASSUME NEW item \in Event
    PROVE  LET e == ConvertRawEvent(EventToDict(item))
           IN  /\ DOMAIN e = (EventKeys \ {"kind"}) \cup {"recurring"}
               /\ \A f \in EventKeys \ {"kind", "recurrenceRules"} : e[f] = item[f]
               /\ e.recurring = (item.recurrenceRules # <<>>)
               /\ e.recurrenceRules =
                    [k \in DOMAIN item.recurrenceRules |-> [item.recurrenceRules[k] EXCEPT !.end = EndShown(@)]]
<1> DEFINE raw == EventToDict(item)
           notes == OrNull(item.notes)
           zone == OrNull(item.timeZone)
           recurring == item.recurrenceRules # <<>>
           rules == RulesToDicts(item.recurrenceRules)
           read == ConvertRawRules(rules)
           e == ConvertRawEvent(raw)
<1>1. /\ item.notes \in Strings /\ item.timeZone \in Strings /\ item.startDate \in Int /\ item.endDate \in Int
      /\ item.recurrenceRules \in Seq(StoredRule)
    BY EventParts
<1>2. Text(notes) = item.notes /\ Text(zone) = item.timeZone
      /\ Time(item.startDate) = item.startDate /\ Time(item.endDate) = item.endDate
    BY <1>1, ReadBack
<1>3. read = [k \in DOMAIN item.recurrenceRules |-> [item.recurrenceRules[k] EXCEPT !.end = EndShown(@)]]
    BY <1>1, StoredRules
<1>4. raw = [title |-> item.title, notes |-> notes, calendar |-> item.calendar,
             startDate |-> item.startDate, endDate |-> item.endDate, timeZone |-> zone,
             recurring |-> recurring, recurrenceRules |-> rules]
    BY Zenon DEF EventToDict
<1> HIDE DEF raw, notes, zone, recurring, rules
<1>5. e = [raw EXCEPT !.notes = Text(raw.notes), !.startDate = Time(raw.startDate), !.endDate = Time(raw.endDate),
                      !.timeZone = Text(raw.timeZone), !.recurrenceRules = ConvertRawRules(raw.recurrenceRules)]
    BY <1>4 DEF ConvertRawEvent
<1>6. /\ raw.notes = notes /\ raw.timeZone = zone /\ raw.recurrenceRules = rules
      /\ raw.startDate = item.startDate /\ raw.endDate = item.endDate
      /\ raw.title = item.title /\ raw.calendar = item.calendar /\ raw.recurring = recurring
      /\ DOMAIN raw = {"title", "notes", "calendar", "startDate", "endDate", "timeZone", "recurring", "recurrenceRules"}
    BY <1>4
<1> HIDE DEF e, read
<1>7. e = [raw EXCEPT !.notes = item.notes, !.startDate = item.startDate, !.endDate = item.endDate,
                      !.timeZone = item.timeZone, !.recurrenceRules = read]
    BY <1>2, <1>5, <1>6 DEF read
<1>8. /\ DOMAIN e = DOMAIN raw
      /\ e.title = item.title /\ e.calendar = item.calendar /\ e.notes = item.notes /\ e.timeZone = item.timeZone
      /\ e.startDate = item.startDate /\ e.endDate = item.endDate
      /\ e.recurring = recurring /\ e.recurrenceRules = read
    BY <1>6, <1>7
<1>9. DOMAIN e = (EventKeys \ {"kind"}) \cup {"recurring"}
    BY <1>6, <1>8 DEF EventKeys
<1>10. \A f \in EventKeys \ {"kind", "recurrenceRules"} : e[f] = item[f]
    BY <1>8 DEF EventKeys
<1> QED BY <1>3, <1>8, <1>9, <1>10, Zenon DEF e, raw, recurring

LEMMA ReminderRead ==
    ASSUME NEW item \in Reminder
    PROVE  LET r == ConvertRawReminder(ReminderToDict(item, kit))
           IN  /\ DOMAIN r = (ReminderKeys \ {"kind"}) \cup {"hasAlarms", "remindMeDate", "recurring"}
               /\ \A f \in {"title", "list", "notes", "priority", "completed"} : r[f] = item[f]
               /\ r.flagged = (kit /\ item.flagged)
               /\ r.dueDate = Date(item.dueDate)
               /\ r.alarms = [k \in DOMAIN item.alarms |-> ConvertRawAlarm(item.alarms[k])]
               /\ r.hasAlarms = (item.alarms # <<>>)
               /\ r.remindMeDate = Date(RemindMeDate(item.alarms))
               /\ r.recurring = (item.recurrenceRules # <<>>)
               /\ r.recurrenceRules =
                    [k \in DOMAIN item.recurrenceRules |-> [item.recurrenceRules[k] EXCEPT !.end = EndShown(@)]]
<1> DEFINE raw == ReminderToDict(item, kit)
           notes == OrNull(item.notes)
           remind == RemindMeDate(item.alarms)
           flagged == kit /\ item.flagged
           recurring == item.recurrenceRules # <<>>
           some == item.alarms # <<>>
           rules == RulesToDicts(item.recurrenceRules)
           read == ConvertRawRules(rules)
           alarms == [k \in DOMAIN item.alarms |-> ConvertRawAlarm(item.alarms[k])]
           due == Date(item.dueDate)
           reminded == Date(remind)
           r == ConvertRawReminder(raw)
<1>1. item.notes \in Strings /\ item.recurrenceRules \in Seq(StoredRule)
    BY ReminderParts
<1>2. Text(notes) = item.notes
    BY <1>1, ReadBack
<1>3. read = [k \in DOMAIN item.recurrenceRules |-> [item.recurrenceRules[k] EXCEPT !.end = EndShown(@)]]
    BY <1>1, StoredRules
<1>4. raw = [title |-> item.title, notes |-> notes, list |-> item.list,
             completed |-> item.completed, flagged |-> flagged, priority |-> item.priority,
             hasAlarms |-> some, dueDate |-> item.dueDate, alarms |-> item.alarms, remindMeDate |-> remind,
             recurring |-> recurring, recurrenceRules |-> rules]
    BY Zenon DEF ReminderToDict
<1>5. due = OptionalTime(item.dueDate) /\ reminded = OptionalTime(remind)
    BY ReadBack
<1> HIDE DEF raw, notes, remind, flagged, recurring, some, rules
<1>6. r = [raw EXCEPT !.notes = Text(raw.notes), !.dueDate = OptionalTime(raw.dueDate),
                      !.remindMeDate = OptionalTime(raw.remindMeDate),
                      !.recurrenceRules = ConvertRawRules(raw.recurrenceRules),
                      !.alarms = [k \in DOMAIN raw.alarms |-> ConvertRawAlarm(raw.alarms[k])]]
    BY <1>4 DEF ConvertRawReminder
<1>7. /\ raw.notes = notes /\ raw.dueDate = item.dueDate /\ raw.remindMeDate = remind
      /\ raw.recurrenceRules = rules /\ raw.alarms = item.alarms
      /\ raw.title = item.title /\ raw.list = item.list /\ raw.completed = item.completed
      /\ raw.priority = item.priority
      /\ DOMAIN raw = {"title", "notes", "list", "completed", "flagged", "priority", "hasAlarms", "dueDate",
                       "alarms", "remindMeDate", "recurring", "recurrenceRules"}
    BY <1>4
<1>8. raw.flagged = flagged /\ raw.hasAlarms = some /\ raw.recurring = recurring
    BY <1>4
<1> HIDE DEF r, read, alarms, due, reminded
<1>9. r = [raw EXCEPT !.notes = item.notes, !.dueDate = due, !.remindMeDate = reminded,
                      !.recurrenceRules = read, !.alarms = alarms]
    BY <1>2, <1>5, <1>6, <1>7 DEF read, alarms
<1>10. /\ DOMAIN r = DOMAIN raw
       /\ r.title = raw.title /\ r.list = raw.list /\ r.notes = item.notes /\ r.priority = raw.priority
       /\ r.completed = raw.completed /\ r.dueDate = due /\ r.remindMeDate = reminded
       /\ r.recurrenceRules = read /\ r.alarms = alarms
       /\ r.flagged = raw.flagged /\ r.hasAlarms = raw.hasAlarms /\ r.recurring = raw.recurring
    BY <1>7, <1>9
<1>11. DOMAIN r = (ReminderKeys \ {"kind"}) \cup {"hasAlarms", "remindMeDate", "recurring"}
    BY <1>7, <1>10 DEF ReminderKeys
<1>12. \A f \in {"title", "list", "notes", "priority", "completed"} : r[f] = item[f]
    BY <1>7, <1>10
<1> QED BY <1>3, <1>8, <1>10, <1>11, <1>12, Zenon DEF r, raw, flagged, some, recurring, alarms, due, reminded, remind

(* An answer shows of an item what it is. *)
LEMMA ShownAsIs ==
    ASSUME NEW c \in Made, NEW item \in Event \cup Reminder, item.kind = KindOf(c)
    PROVE  LET shown == Shown(c, item, kit)
           IN  /\ \A f \in DOMAIN shown \ {"remindMeDate", "hasAlarms", "recurring"} :
                    f \in KeysFor(item.kind) \ {"kind"} /\ shown[f] = AsShown(c, f, item[f])
               /\ shown.recurring = (item.recurrenceRules # <<>>)
               /\ "remindMeDate" \in DOMAIN shown => item.kind = "reminder"
               /\ item.kind = "reminder" => /\ shown.hasAlarms = (item.alarms # <<>>)
                                            /\ shown.remindMeDate = Date(RemindMeDate(item.alarms))
<1> DEFINE shown == Shown(c, item, kit)
           rest == c.tool \in RestCalls
<1>1. CASE item \in Event
    <2> DEFINE e == ConvertRawEvent(EventToDict(item))
    <2>1. shown = IF rest THEN e ELSE RedactEvent(e)
        BY <1>1, Kinds DEF Shown
    <2>2. DOMAIN e = (EventKeys \ {"kind"}) \cup {"recurring"}
        BY <1>1, EventRead
    <2>3. \A f \in EventKeys \ {"kind", "recurrenceRules"} : e[f] = item[f]
        BY <1>1, EventRead
    <2>4. e.recurring = (item.recurrenceRules # <<>>)
        BY <1>1, EventRead
    <2>5. e.recurrenceRules =
            [k \in DOMAIN item.recurrenceRules |-> [item.recurrenceRules[k] EXCEPT !.end = EndShown(@)]]
        BY <1>1, EventRead
    <2>6. item.kind = "event" /\ KeysFor(item.kind) = EventKeys
        BY <1>1, Kinds DEF KeysFor
    <2>7. rest <=> c.tool = "patch_event"
        BY <2>6 DEF KindOf, RestCalls, EventTools
    <2> HIDE DEF e, shown, rest
    <2>8. RedactEvent(e) = [f \in DOMAIN e \ {"recurrenceRules"} |-> IF f \in DateFields THEN Date(e[f]) ELSE e[f]]
        BY DEF RedactEvent
    <2>9. ASSUME NEW f \in DOMAIN shown \ {"remindMeDate", "hasAlarms", "recurring"}
          PROVE  f \in KeysFor(item.kind) \ {"kind"} /\ shown[f] = AsShown(c, f, item[f])
        <3>1. f \in DOMAIN e /\ (~rest => f # "recurrenceRules") /\ f # "recurring"
            BY <2>1, <2>8, <2>9
        <3>2. f \in EventKeys \ {"kind"}
            BY <2>2, <3>1
        <3>3. shown[f] = IF ~rest /\ f \in DateFields THEN Date(e[f]) ELSE e[f]
            BY <2>1, <2>8, <3>1
        <3>4. CASE f \in {"startDate", "endDate"}
            <4>1. f \in DateFields /\ e[f] = item[f]
                BY <2>3, <3>4 DEF DateFields, EventKeys
            <4>2. AsShown(c, f, item[f]) = IF c.tool = "patch_event" THEN item[f] ELSE Date(item[f])
                BY <4>1, AsShownEach
            <4> QED BY <2>6, <2>7, <3>2, <3>3, <4>1, <4>2
        <3>5. CASE f \in {"title", "calendar", "notes", "timeZone"}
            <4>1. f \notin DateFields /\ e[f] = item[f]
                BY <2>3, <3>5 DEF DateFields, EventKeys
            <4>2. AsShown(c, f, item[f]) = item[f]
                BY <3>5, AsShownEach
            <4> QED BY <2>6, <3>2, <3>3, <4>1, <4>2
        <3>6. CASE f = "recurrenceRules"
            <4>1. f \notin DateFields
                BY <3>6 DEF DateFields
            <4>2. AsShown(c, f, item[f]) = [k \in DOMAIN item[f] |-> [item[f][k] EXCEPT !.end = EndShown(@)]]
                BY <3>6, AsShownEach
            <4>3. shown[f] = AsShown(c, f, item[f])
                BY <2>5, <3>3, <3>6, <4>1, <4>2
            <4> QED BY <2>6, <3>2, <4>3
        <3> QED BY <3>2, <3>4, <3>5, <3>6 DEF EventKeys
    <2>10. "recurring" \in DOMAIN e /\ "recurring" # "recurrenceRules" /\ "recurring" \notin DateFields
           /\ "remindMeDate" \notin DOMAIN e
        BY <2>2 DEF DateFields, EventKeys
    <2>11. shown.recurring = e.recurring /\ "remindMeDate" \notin DOMAIN shown
        BY <2>1, <2>8, <2>10
    <2>12. shown.recurring = (item.recurrenceRules # <<>>)
        BY <2>4, <2>11, Zenon
    <2> QED BY <2>6, <2>9, <2>11, <2>12 DEF shown
<1>2. CASE item \in Reminder
    <2> DEFINE r == ConvertRawReminder(ReminderToDict(item, kit))
    <2>1. shown = IF rest THEN r ELSE RedactReminder(r)
        BY <1>2, Kinds DEF Shown
    <2>2. DOMAIN r = (ReminderKeys \ {"kind"}) \cup {"hasAlarms", "remindMeDate", "recurring"}
        BY <1>2, ReminderRead
    <2>3. \A f \in {"title", "list", "notes", "priority", "completed"} : r[f] = item[f]
        BY <1>2, ReminderRead
    <2>4. r.recurring = (item.recurrenceRules # <<>>)
        BY <1>2, ReminderRead
    <2>5. r.recurrenceRules =
            [k \in DOMAIN item.recurrenceRules |-> [item.recurrenceRules[k] EXCEPT !.end = EndShown(@)]]
        BY <1>2, ReminderRead
    <2>6. item.kind = "reminder" /\ KeysFor(item.kind) = ReminderKeys
        BY <1>2, Kinds DEF KeysFor
    <2>7. c.tool # "patch_event"
        BY <2>6 DEF KindOf, EventTools
    <2>8. r.flagged = (kit /\ item.flagged)
        BY <1>2, ReminderRead
    <2>9. r.dueDate = Date(item.dueDate)
        BY <1>2, ReminderRead
    <2>10. r.alarms = [k \in DOMAIN item.alarms |-> ConvertRawAlarm(item.alarms[k])]
        BY <1>2, ReminderRead
    <2>11. r.hasAlarms = (item.alarms # <<>>)
        BY <1>2, ReminderRead
    <2>12. r.remindMeDate = Date(RemindMeDate(item.alarms))
        BY <1>2, ReminderRead
    <2> HIDE DEF r, shown, rest
    <2>13. /\ DOMAIN RedactReminder(r) = DOMAIN r \ {"alarms", "recurrenceRules"}
           /\ \A f \in DOMAIN r \ {"alarms", "recurrenceRules"} :
                /\ f = "priority" => RedactReminder(r)[f] = PriorityWord(r[f])
                /\ f \in DateFields => RedactReminder(r)[f] = Date(r[f])
                /\ f # "priority" /\ f \notin DateFields => RedactReminder(r)[f] = r[f]
        <3>1. "priority" \notin DateFields
            BY DEF DateFields
        <3> QED BY <3>1 DEF RedactReminder
    <2>14. DOMAIN shown = IF rest THEN DOMAIN r ELSE DOMAIN r \ {"alarms", "recurrenceRules"}
        BY <2>1, <2>13
    <2>15. \A f \in DOMAIN shown :
            shown[f] = IF rest THEN r[f] ELSE IF f = "priority" THEN PriorityWord(r[f])
                       ELSE IF f \in DateFields THEN Date(r[f]) ELSE r[f]
        BY <2>1, <2>13, <2>14
    <2>16. ASSUME NEW f \in DOMAIN shown \ {"remindMeDate", "hasAlarms", "recurring"}
           PROVE  f \in KeysFor(item.kind) \ {"kind"} /\ shown[f] = AsShown(c, f, item[f])
        <3>1. f \in ReminderKeys \ {"kind"} /\ f \in DOMAIN shown
            BY <2>2, <2>14
        <3>2. shown[f] = AsShown(c, f, item[f])
            <4>1. CASE f \in {"title", "list", "notes", "completed"}
                <5>1. f \notin DateFields /\ f # "priority" /\ r[f] = item[f]
                    BY <2>3, <4>1 DEF DateFields
                <5>2. AsShown(c, f, item[f]) = item[f]
                    BY <4>1, AsShownEach
                <5>3. shown[f] = r[f]
                    BY <2>15, <3>1, <5>1, Zenon
                <5> QED BY <5>1, <5>2, <5>3, Zenon
            <4>2. CASE f = "priority"
                <5>1. AsShown(c, f, item[f]) = IF rest THEN item[f] ELSE PriorityWord(item[f])
                    BY <4>2, AsShownEach DEF rest
                <5>2. r[f] = item[f]
                    BY <2>3, <4>2
                <5> QED BY <2>15, <3>1, <4>2, <5>1, <5>2
            <4>3. CASE f = "dueDate"
                <5>1. f \in DateFields /\ f # "priority"
                    BY <4>3 DEF DateFields
                <5>2. AsShown(c, f, item[f]) = Date(item[f])
                    BY <2>7, <5>1, AsShownEach
                <5>3. r[f] = Date(item[f]) /\ Date(r[f]) = r[f]
                    BY <2>9, <4>3, ReadBack
                <5> QED BY <2>15, <3>1, <5>1, <5>2, <5>3
            <4>4. CASE f = "flagged"
                <5>1. f \notin DateFields /\ f # "priority"
                    BY <4>4 DEF DateFields
                <5>2. AsShown(c, f, item[f]) = (kit /\ item.flagged)
                    <6>1. AsShown(c, f, item[f]) = (kit /\ item[f])
                        BY <4>4, AsShownEach
                    <6> QED BY <4>4, <6>1, Zenon
                <5>3. shown[f] = r[f]
                    BY <2>15, <3>1, <5>1, Zenon
                <5> QED BY <2>8, <4>4, <5>2, <5>3, Zenon
            <4>5. CASE f = "alarms"
                <5>1. rest
                    BY <2>14, <3>1, <4>5
                <5>2. AsShown(c, f, item[f]) = [k \in DOMAIN item[f] |-> ConvertRawAlarm(item[f][k])]
                    BY <4>5, AsShownEach
                <5> QED BY <2>10, <2>15, <3>1, <4>5, <5>1, <5>2
            <4>6. CASE f = "recurrenceRules"
                <5>1. rest
                    BY <2>14, <3>1, <4>6
                <5>2. AsShown(c, f, item[f]) = [k \in DOMAIN item[f] |-> [item[f][k] EXCEPT !.end = EndShown(@)]]
                    BY <4>6, AsShownEach
                <5> QED BY <2>5, <2>15, <3>1, <4>6, <5>1, <5>2
            <4> QED BY <3>1, <4>1, <4>2, <4>3, <4>4, <4>5, <4>6 DEF ReminderKeys
        <3> QED BY <2>6, <3>1, <3>2
    <2>17. /\ {"recurring", "hasAlarms", "remindMeDate"} \subseteq DOMAIN shown
           /\ \A f \in {"recurring", "hasAlarms"} : f # "priority" /\ f \notin DateFields
           /\ "remindMeDate" # "priority" /\ "remindMeDate" \in DateFields
        BY <2>2, <2>14 DEF DateFields
    <2>18. shown.recurring = r.recurring /\ shown.hasAlarms = r.hasAlarms
        BY <2>15, <2>17, Zenon
    <2>19. shown.recurring = (item.recurrenceRules # <<>>)
        BY <2>4, <2>18, Zenon
    <2>20. shown.hasAlarms = (item.alarms # <<>>)
        BY <2>11, <2>18, Zenon
    <2>21. shown.remindMeDate = Date(RemindMeDate(item.alarms))
        <3>1. Date(r.remindMeDate) = r.remindMeDate
            BY <2>12, ReadBack
        <3> QED BY <2>12, <2>15, <2>17, <3>1
    <2> QED BY <2>6, <2>16, <2>19, <2>20, <2>21, Zenon DEF shown
<1> QED BY <1>1, <1>2

LEMMA OneAlarm ==
    ASSUME NEW t \in Int
    PROVE  RemindMeDate(<<Absolute(t)>>) = t
<1> DEFINE alarm == Absolute(t)
           alarms == <<alarm>>
<1>1. alarm.at = t /\ t # Null
    BY NullIsNothing DEF Absolute
<1>2. DOMAIN alarms = {1} /\ alarms[1] = alarm
    OBVIOUS
<1> HIDE DEF alarms, alarm
<1>3. {k \in DOMAIN alarms : alarms[k].at # Null} = {1}
    BY <1>1, <1>2
<1>4. Max({1}) = 1
    BY MaxIs
<1>5. RemindMeDate(alarms) = alarms[1].at
    BY <1>3, <1>4 DEF RemindMeDate
<1> QED BY <1>1, <1>2, <1>5 DEF alarms, alarm

LEMMA LeastNatural ==
    ASSUME NEW S \in SUBSET Nat, S # {}
    PROVE  \E n \in S : \A m \in S : n <= m
<1> DEFINE Below == OpToRel(<, Nat)
<1>1. IsWellFoundedOn(Below, Nat)
    BY NatLessThanWellFounded
<1>2. \A m, n \in Nat : m < n => <<m, n>> \in Below
    BY DEF OpToRel
<1> HIDE DEF Below
<1>3. PICK n \in S : \A m \in S : ~ (<<m, n>> \in Below)
    BY <1>1, WFMin
<1>4. \A m \in S : n <= m
    <2> SUFFICES ASSUME NEW m \in S PROVE n <= m
        OBVIOUS
    <2>1. m \in Nat /\ n \in Nat
        OBVIOUS
    <2>2. ~(m < n)
        BY <1>2, <1>3, <2>1
    <2> QED BY <2>1, <2>2
<1> QED BY <1>4

-----------------------------------------------------------------------------
(* What the calls that took effect have left.                                *)
(* The items after the first n calls that took effect, as those calls say.   *)
Untouched(id, n) == \A j \in 1..n : id \notin log[j].ids
ItemAsSaid(id, n) ==
    LET item == ItemsAfter(n)[id]
    IN  /\ item \in Event \cup Reminder \cup {Null}
        /\ item = Null => Deleted(id, n) \/ Untouched(id, n)
        /\ item # Null => \A f \in KeysFor(item.kind) \ {"kind"} : item[f] = LastSaid(id, f, n)
        /\ Deleted(id, n) => item = Null
        /\ Untouched(id, n) => item = Initially[id]

LEMMA UnsaidIs ==
    ASSUME NEW id, NEW f
    PROVE  Unsaid(id, f) = IF id \in DOMAIN Existing THEN Existing[id][f] ELSE Blank(f)
<1> DEFINE unsaid == Unsaid(id, f)
           before == Existing[id][f]
           there == id \in DOMAIN Existing
           list == f \in {"alarms", "recurrenceRules"}
           flag == f \in {"completed", "flagged"}
<1>1. unsaid = IF there THEN before
               ELSE CASE f \in StringFields -> "" [] list -> <<>> [] f = "priority" -> 0
                      [] flag -> FALSE [] OTHER -> Null
    BY Zenon DEF Unsaid
<1>2. Blank(f) = IF f \in StringFields THEN "" ELSE IF list THEN <<>> ELSE IF f = "priority" THEN 0
                 ELSE IF flag THEN FALSE ELSE Null
    BY Zenon DEF Blank
<1>3. /\ f \in StringFields => ~list /\ f # "priority" /\ ~flag
      /\ list => f # "priority" /\ ~flag
      /\ f = "priority" => ~flag
    BY DEF StringFields
<1> HIDE DEF unsaid, before, there, list, flag
<1> SUFFICES unsaid = IF there THEN before ELSE Blank(f)
    BY DEF unsaid, before, there
<1>4. CASE there
    BY <1>1, <1>4, Zenon
<1>5. CASE ~there /\ f \in StringFields
    BY <1>1, <1>2, <1>3, <1>5, Zenon
<1>6. CASE ~there /\ list
    BY <1>1, <1>2, <1>3, <1>6, Zenon
<1>7. CASE ~there /\ f = "priority"
    BY <1>1, <1>2, <1>3, <1>7, Zenon
<1>8. CASE ~there /\ flag
    BY <1>1, <1>2, <1>3, <1>8, Zenon
<1>9. CASE ~there /\ f \notin StringFields /\ ~list /\ f # "priority" /\ ~flag
    BY <1>1, <1>2, <1>9, Zenon
<1> QED BY <1>4, <1>5, <1>6, <1>7, <1>8, <1>9, Zenon

(* One call more: it says something of the field or leaves it as it was.     *)
LEMMA SaidNext ==
    ASSUME NEW n \in Nat \ {0}, NEW id, NEW f
    PROVE  /\ id \in log[n].ids /\ Names(log[n].try, f) => LastSaid(id, f, n) = Said(log[n].try, f)
           /\ ~(id \in log[n].ids /\ Names(log[n].try, f)) => LastSaid(id, f, n) = LastSaid(id, f, n - 1)
           /\ Untouched(id, n) => LastSaid(id, f, n) = Unsaid(id, f)
<1> DEFINE says(j) == id \in log[j].ids /\ Names(log[j].try, f)
           saying(m) == {j \in 1..m : says(j)}
<1>1. \A m : LastSaid(id, f, m) = IF saying(m) = {} THEN Unsaid(id, f) ELSE Said(log[Max(saying(m))].try, f)
    BY Zenon DEF LastSaid
<1>2. says(n) <=> id \in log[n].ids /\ Names(log[n].try, f)
    OBVIOUS
<1>3. Untouched(id, n) => \A j \in 1..n : ~says(j)
    BY DEF Untouched
<1> HIDE DEF says
<1>4. says(n) => Max(saying(n)) = n /\ saying(n) # {}
    <2> SUFFICES ASSUME says(n) PROVE Max(saying(n)) = n /\ saying(n) # {}
        OBVIOUS
    <2>1. n \in saying(n) /\ \A j \in saying(n) : j \in Int /\ j <= n
        OBVIOUS
    <2> HIDE DEF saying
    <2> QED BY <2>1, MaxIs
<1>5. ~says(n) => saying(n) = saying(n - 1)
    <2>1. \A j : j \in 1..n <=> j \in 1..(n - 1) \/ j = n
        OBVIOUS
    <2> QED BY <2>1
<1>6. Untouched(id, n) => saying(n) = {}
    BY <1>3
<1> HIDE DEF saying
<1>7. says(n) => LastSaid(id, f, n) = Said(log[n].try, f)
    BY <1>1, <1>4
<1>8. ~says(n) => LastSaid(id, f, n) = LastSaid(id, f, n - 1)
    BY <1>1, <1>5
<1>9. Untouched(id, n) => LastSaid(id, f, n) = Unsaid(id, f)
    BY <1>1, <1>6
<1> QED BY <1>2, <1>7, <1>8, <1>9

LEMMA SaidAtFirst ==
    ASSUME NEW id, NEW f
    PROVE  LastSaid(id, f, 0) = Unsaid(id, f) /\ ~Deleted(id, 0) /\ Untouched(id, 0)
<1>1. 1..0 = {}
    OBVIOUS
<1> QED BY <1>1 DEF LastSaid, Deleted, Untouched

LEMMA DeletedNext ==
    ASSUME NEW n \in Nat \ {0}, NEW id
    PROVE  /\ Deleted(id, n) <=>
                \/ Deleted(id, n - 1)
                \/ id \in log[n].ids /\ tries[log[n].try].call.tool \in DeleteTools
           /\ Untouched(id, n) <=> Untouched(id, n - 1) /\ id \notin log[n].ids
           /\ Deleted(id, n - 1) => ~Untouched(id, n - 1)
<1>1. \A j : j \in 1..n <=> j \in 1..(n - 1) \/ j = n
    OBVIOUS
<1>2. Deleted(id, n) <=>
        \/ Deleted(id, n - 1)
        \/ id \in log[n].ids /\ tries[log[n].try].call.tool \in DeleteTools
    BY <1>1 DEF Deleted
<1>3. Untouched(id, n) <=> Untouched(id, n - 1) /\ id \notin log[n].ids
    BY <1>1 DEF Untouched
<1>4. Deleted(id, n - 1) => ~Untouched(id, n - 1)
    BY DEF Deleted, Untouched
<1> QED BY <1>2, <1>3, <1>4

LEMMA InitialItems ==
    ASSUME NEW id \in Ids
    PROVE  ItemAsSaid(id, 0)
<1> DEFINE item == Initially[id]
<1>1. ItemsAfter(0)[id] = item
    BY DEF ItemsAfter
<1>2. item = IF id \in DOMAIN Existing THEN Existing[id] ELSE Null
    BY DEF Initially
<1>3. item \in Event \cup Reminder \cup {Null}
    BY <1>2, ItemsAreWellFormed
<1>4. ~Deleted(id, 0) /\ Untouched(id, 0)
    BY SaidAtFirst
<1>5. item # Null => \A f \in KeysFor(item.kind) \ {"kind"} : item[f] = LastSaid(id, f, 0)
    <2>1. item # Null => \A f : item[f] = Unsaid(id, f)
        BY <1>2, UnsaidIs
    <2> QED BY <2>1, SaidAtFirst
<1> HIDE DEF item
<1> QED BY <1>1, <1>3, <1>4, <1>5 DEF ItemAsSaid, item

(* What the log tells of a call that took effect. *)
LEMMA CallServed ==
    ASSUME TriesAsAsked, LogAsServed, NEW n \in DOMAIN log
    PROVE  LET k == log[n].try
               c == tries[k].call
           IN  /\ c \in Made /\ tries[k].at \in Int /\ ~Refused(c, tries[k].at)
               /\ tries[k].body = Body(c, tries[k].at) /\ RulesValid(tries[k].body)
               /\ log[n].ids \subseteq Ids
               /\ tries[k].answer = [id \in log[n].ids |-> Shown(c, ItemsAfter(n)[id], kit)]
               /\ n \in Nat \ {0} /\ n - 1 \in 0..Len(log)
<1> DEFINE k == log[n].try
           c == tries[k].call
<1>1. AsServed(n)
    BY DEF LogAsServed
<1>2. Len(log) \in Nat /\ DOMAIN log = 1..Len(log)
    BY LenProperties DEF LogAsServed
<1>3. n \in Nat \ {0} /\ n - 1 \in 0..Len(log)
    BY <1>2
<1>4. k \in DOMAIN tries /\ tries[k].pc \in {"served", "answered", "gone"}
    BY <1>1 DEF AsServed
<1>5. AsAsked(tries[k]) /\ tries[k].pc # "refused"
    BY <1>4 DEF TriesAsAsked
<1>6. c \in Made /\ tries[k].at \in Int /\ ~Refused(c, tries[k].at) /\ tries[k].body = Body(c, tries[k].at)
    BY <1>5 DEF AsAsked
<1>7. RulesValid(tries[k].body)
    BY <1>1 DEF AsServed
<1>8. log[n].ids \subseteq Ids
    <2>1. CASE c.tool \in CreateTools
        BY <1>1, <2>1 DEF AsServed
    <2>2. CASE c.tool \notin CreateTools
        <3>1. c.ids \subseteq Ids
            BY <1>6, <2>2, CallsMade DEF WellFormed
        <3>2. log[n].ids \subseteq c.ids
            BY <1>1, <2>2 DEF AsServed
        <3> QED BY <3>1, <3>2
    <2> QED BY <2>1, <2>2
<1>9. tries[k].answer = [id \in log[n].ids |-> Shown(c, ItemsAfter(n)[id], kit)]
    <2>1. ItemsAfter(n) = log[n].items
        BY <1>3 DEF ItemsAfter
    <2> QED BY <1>1, <2>1 DEF AsServed
<1> QED BY <1>3, <1>6, <1>7, <1>8, <1>9

LEMMA ItemsNext ==
    ASSUME LogAsServed, NEW n \in DOMAIN log, NEW id \in Ids
    PROVE  LET k == log[n].try
               c == tries[k].call
               before == ItemsAfter(n - 1)[id]
           IN  /\ id \notin log[n].ids => ItemsAfter(n)[id] = before
               /\ id \in log[n].ids =>
                    /\ ItemsAfter(n)[id] = Stored(c, tries[k].body, before, kit)
                    /\ c.tool \in CreateTools => before = Null /\ Untouched(id, n - 1)
                    /\ c.tool \notin CreateTools => before # Null /\ before.kind = KindOf(c)
<1> DEFINE k == log[n].try
           c == tries[k].call
           before == ItemsAfter(n - 1)
<1>1. AsServed(n)
    BY DEF LogAsServed
<1>2. n # 0
    BY LenProperties DEF LogAsServed
<1>3. ItemsAfter(n) = [x \in Ids |-> IF x \in log[n].ids THEN Stored(c, tries[k].body, before[x], kit) ELSE before[x]]
    BY <1>1, <1>2 DEF ItemsAfter, AsServed
<1>4. IF c.tool \in CreateTools
      THEN \E x \in Ids : log[n].ids = {x} /\ before[x] = Null /\ \A j \in 1..(n - 1) : x \notin log[j].ids
      ELSE log[n].ids \subseteq {x \in c.ids : before[x] # Null /\ before[x].kind = KindOf(c)}
    BY <1>1, Zenon DEF AsServed
<1> HIDE DEF before, c, k
<1>5. id \notin log[n].ids => ItemsAfter(n)[id] = before[id]
    BY <1>3
<1>6. id \in log[n].ids => ItemsAfter(n)[id] = Stored(c, tries[k].body, before[id], kit)
    BY <1>3
<1>7. id \in log[n].ids /\ c.tool \in CreateTools => before[id] = Null /\ Untouched(id, n - 1)
    BY <1>4 DEF Untouched
<1>8. id \in log[n].ids /\ c.tool \notin CreateTools => before[id] # Null /\ before[id].kind = KindOf(c)
    BY <1>4
<1> QED BY <1>5, <1>6, <1>7, <1>8, Zenon DEF before, c, k

(* What such a call made of an item. *)
LEMMA ItemServed ==
    ASSUME TriesAsAsked, LogAsServed, kit \in BOOLEAN, NEW n \in DOMAIN log, NEW id \in log[n].ids,
           ItemAsSaid(id, n - 1)
    PROVE  LET k == log[n].try
               c == tries[k].call
               before == ItemsAfter(n - 1)[id]
               new == ItemsAfter(n)[id]
           IN  /\ c.tool \in DeleteTools => new = Null
               /\ c.tool \notin DeleteTools =>
                    /\ new \in Event \cup Reminder /\ new.kind = KindOf(c)
                    /\ \A f \in KeysFor(KindOf(c)) \ {"kind"} :
                        new[f] = IF Names(k, f) THEN Said(k, f)
                                 ELSE IF c.tool \in CreateTools THEN Blank(f) ELSE before[f]
<1> DEFINE k == log[n].try
           c == tries[k].call
           body == tries[k].body
           at == tries[k].at
           before == ItemsAfter(n - 1)[id]
           new == ItemsAfter(n)[id]
<1>1. c \in Made /\ at \in Int /\ ~Refused(c, at) /\ body = Body(c, at) /\ RulesValid(body)
    BY CallServed
<1>2. id \in Ids
    BY CallServed
<1>3. new = Stored(c, body, before, kit)
    BY <1>2, ItemsNext
<1>4. c.tool \notin CreateTools => before # Null /\ before.kind = KindOf(c)
    BY <1>2, ItemsNext
<1>5. before \in Event \cup Reminder \cup {Null}
    BY DEF ItemAsSaid
<1> HIDE DEF before, new, at
<1>6. \A f : /\ Names(k, f) <=> SaysOf(c, body, kit, f)
             /\ Said(k, f) = SaidOf(c, body, f)
    BY NamesAndSaid
<1> HIDE DEF body, c, k
<1>7. c.tool \notin CreateTools => before \in Event \cup Reminder /\ before.kind = KindOf(c)
    BY <1>4, <1>5
<1>8. c.tool \in DeleteTools => new = Null
    BY <1>1, <1>3, <1>7, StoredAsSaid
<1>9. c.tool \notin DeleteTools => new \in Event \cup Reminder /\ new.kind = KindOf(c)
    BY <1>1, <1>3, <1>7, StoredAsSaid
<1>10. c.tool \notin DeleteTools =>
        \A f \in KeysFor(KindOf(c)) \ {"kind"} :
            new[f] = IF SaysOf(c, body, kit, f) THEN SaidOf(c, body, f)
                     ELSE IF c.tool \in CreateTools THEN Blank(f) ELSE before[f]
    BY <1>1, <1>3, <1>7, StoredAsSaid
<1>11. c.tool \notin DeleteTools =>
        \A f \in KeysFor(KindOf(c)) \ {"kind"} :
            new[f] = IF Names(k, f) THEN Said(k, f)
                     ELSE IF c.tool \in CreateTools THEN Blank(f) ELSE before[f]
    BY <1>6, <1>10, Zenon
<1> QED BY <1>8, <1>9, <1>11, Zenon DEF before, new, c, k

LEMMA ItemAsSaidNext ==
    ASSUME TriesAsAsked, LogAsServed, kit \in BOOLEAN, NEW n \in DOMAIN log, NEW id \in Ids,
           ItemAsSaid(id, n - 1)
    PROVE  ItemAsSaid(id, n)
<1> DEFINE k == log[n].try
           c == tries[k].call
           before == ItemsAfter(n - 1)[id]
           new == ItemsAfter(n)[id]
           told(f) == IF Names(k, f) THEN Said(k, f) ELSE IF c.tool \in CreateTools THEN Blank(f) ELSE before[f]
<1>1. n \in Nat \ {0}
    BY CallServed
<1>2. /\ before \in Event \cup Reminder \cup {Null}
      /\ before = Null => Deleted(id, n - 1) \/ Untouched(id, n - 1)
      /\ before # Null => \A f \in KeysFor(before.kind) \ {"kind"} : before[f] = LastSaid(id, f, n - 1)
      /\ Deleted(id, n - 1) => before = Null
      /\ Untouched(id, n - 1) => before = Initially[id]
    BY DEF ItemAsSaid
<1>3. /\ Deleted(id, n) <=> Deleted(id, n - 1) \/ (id \in log[n].ids /\ c.tool \in DeleteTools)
      /\ Untouched(id, n) <=> Untouched(id, n - 1) /\ id \notin log[n].ids
      /\ Deleted(id, n - 1) => ~Untouched(id, n - 1)
    BY <1>1, DeletedNext
<1>4. CASE id \notin log[n].ids
    <2>1. new = before
        BY <1>4, ItemsNext
    <2>2. \A f : LastSaid(id, f, n) = LastSaid(id, f, n - 1)
        BY <1>1, <1>4, SaidNext
    <2> HIDE DEF new, before, c
    <2>3. /\ new \in Event \cup Reminder \cup {Null}
          /\ new = Null => Deleted(id, n) \/ Untouched(id, n)
          /\ Deleted(id, n) => new = Null
          /\ Untouched(id, n) => new = Initially[id]
        BY <1>2, <1>3, <1>4, <2>1
    <2>4. new # Null => \A f \in KeysFor(new.kind) \ {"kind"} : new[f] = LastSaid(id, f, n)
        BY <1>2, <2>1, <2>2
    <2> QED BY <2>3, <2>4 DEF ItemAsSaid, new
<1>5. CASE id \in log[n].ids
    <2>1. c.tool \in DeleteTools => new = Null
        BY <1>5, ItemServed
    <2>2. c.tool \notin DeleteTools => new \in Event \cup Reminder /\ new.kind = KindOf(c)
        BY <1>5, ItemServed
    <2>3. c.tool \notin DeleteTools => \A f \in KeysFor(KindOf(c)) \ {"kind"} : new[f] = told(f)
        BY <1>5, ItemServed
    <2>4. c.tool \in CreateTools => before = Null /\ Untouched(id, n - 1)
        BY <1>5, ItemsNext
    <2>5. c.tool \notin CreateTools => before # Null /\ before.kind = KindOf(c)
        BY <1>5, ItemsNext
    <2>6. \A f : /\ Names(k, f) => LastSaid(id, f, n) = Said(k, f)
                 /\ ~Names(k, f) => LastSaid(id, f, n) = LastSaid(id, f, n - 1)
        BY <1>1, <1>5, SaidNext
    <2>7. new # Null => c.tool \notin DeleteTools
        BY <2>1
    <2>8. \A x \in Event \cup Reminder : x # Null
        BY Kinds
    <2>9. c.tool \in CreateTools => \A f : LastSaid(id, f, n - 1) = Blank(f)
        <3> SUFFICES ASSUME c.tool \in CreateTools, NEW f PROVE LastSaid(id, f, n - 1) = Blank(f)
            OBVIOUS
        <3>1. Initially[id] = Null
            BY <1>2, <2>4
        <3>2. id \notin DOMAIN Existing
            BY <2>8, <3>1, ItemsAreWellFormed DEF Initially
        <3>3. Unsaid(id, f) = Blank(f)
            BY <3>2, UnsaidIs
        <3>4. CASE n - 1 = 0
            BY <3>3, <3>4, SaidAtFirst
        <3>5. CASE n - 1 \in Nat \ {0}
            BY <2>4, <3>3, <3>5, SaidNext, ZenonT(40)
        <3> QED BY <1>1, <3>4, <3>5
    <2> HIDE DEF new, before, c, k
    <2>10. new # Null => \A f \in KeysFor(new.kind) \ {"kind"} : new[f] = LastSaid(id, f, n)
        <3> SUFFICES ASSUME new # Null, NEW f \in KeysFor(new.kind) \ {"kind"} PROVE new[f] = LastSaid(id, f, n)
            OBVIOUS
        <3>1. f \in KeysFor(KindOf(c)) \ {"kind"} /\ c.tool \notin DeleteTools
            BY <2>2, <2>7
        <3>2. new[f] = told(f)
            BY <2>3, <3>1
        <3>3. CASE Names(k, f)
            BY <2>6, <3>2, <3>3
        <3>4. CASE ~Names(k, f) /\ c.tool \in CreateTools
            BY <2>6, <2>9, <3>2, <3>4
        <3>5. CASE ~Names(k, f) /\ c.tool \notin CreateTools
            <4>1. before[f] = LastSaid(id, f, n - 1)
                BY <1>2, <2>5, <3>1, <3>5
            <4> QED BY <2>6, <3>2, <3>5, <4>1
        <3> QED BY <3>3, <3>4, <3>5
    <2>11. new \in Event \cup Reminder \cup {Null}
        BY <2>1, <2>2
    <2>12. new = Null => Deleted(id, n)
        BY <1>3, <1>5, <2>2, <2>8
    <2>13. Deleted(id, n) => new = Null
        <3>1. Deleted(id, n - 1) => FALSE
            BY <1>2, <1>3, <2>4, <2>5
        <3> QED BY <1>3, <2>1, <3>1
    <2>14. ~Untouched(id, n)
        BY <1>3, <1>5
    <2> QED BY <2>10, <2>11, <2>12, <2>13, <2>14 DEF ItemAsSaid, new
<1> QED BY <1>4, <1>5

(* Were some item not as said, there would be a first call after which it    *)
(* is not; but that call found it as said.                                   *)
LEMMA ItemsAlwaysAsSaid ==
    ASSUME TriesAsAsked, LogAsServed, kit \in BOOLEAN, NEW id \in Ids, NEW n \in 0..Len(log)
    PROVE  ItemAsSaid(id, n)
<1> DEFINE wrong == {m \in 0..Len(log) : ~ItemAsSaid(id, m)}
<1>1. Len(log) \in Nat /\ DOMAIN log = 1..Len(log)
    BY LenProperties DEF LogAsServed
<1>2. SUFFICES ASSUME wrong # {} PROVE FALSE
    OBVIOUS
<1>3. wrong \in SUBSET Nat
    BY <1>1
<1>4. PICK m \in wrong : \A j \in wrong : m <= j
    BY <1>2, <1>3, LeastNatural
<1>5. m \in 0..Len(log) /\ ~ItemAsSaid(id, m)
    BY <1>4
<1>6. m # 0
    BY <1>5, InitialItems
<1>7. m \in DOMAIN log /\ m - 1 \in 0..Len(log) /\ ~(m <= m - 1)
    BY <1>1, <1>5, <1>6
<1>8. ItemAsSaid(id, m - 1)
    BY <1>4, <1>7
<1> QED BY <1>5, <1>7, <1>8, ItemAsSaidNext

(* The moment of a remindMeDate that was sent. *)
LEMMA MomentSent ==
    ASSUME NEW c \in Made, NEW at \in Int, ~Refused(c, at), NEW body, body = Body(c, at), NEW withKit,
           c.tool \notin StatusTools, SaysOf(c, body, withKit, "alarms"), "alarms" \notin DOMAIN c.args
    PROVE  body.remindMeDate \in Int
<1>1. /\ "remindMeDate" \in DOMAIN c.args
      /\ ByTool(c) => c.args.remindMeDate.form # "empty" /\ (c.tool \in CreateTools => "remindMeDate" \in DOMAIN body)
    <2>1. SaysOf(c, body, withKit, "alarms") <=>
            \/ "alarms" \in DOMAIN c.args
            \/ /\ "remindMeDate" \in DOMAIN c.args
               /\ ByTool(c) => /\ c.args.remindMeDate.form # "empty"
                               /\ c.tool \in CreateTools => "remindMeDate" \in DOMAIN body
        BY SaysEach
    <2> QED BY <2>1
<1>2. "remindMeDate" \in DOMAIN body
    <2>1. CASE c.tool \in CreateTools
        BY <1>1, <2>1 DEF ByTool, CreateTools, RestCalls
    <2>2. CASE c.tool \in UpdateTools
        <3>1. DOMAIN body = Named(c.args) /\ ByTool(c)
            BY <2>2, BodyHeld DEF ByTool, UpdateTools, RestCalls
        <3> QED BY <1>1, <3>1 DEF Named, StringFields
    <2>3. CASE c.tool \notin CreateTools \cup UpdateTools
        <3>1. body = c.args
            BY <2>3, BodyHeld
        <3> QED BY <1>1, <3>1
    <2> QED BY <2>1, <2>2, <2>3
<1> QED BY <1>2, BodyHeld DEF DateFields

LEMMA AnswersAsSaid ==
    ASSUME TriesAsAsked, LogAsServed, kit \in BOOLEAN, NEW n \in DOMAIN log, NEW id \in log[n].ids
    PROVE  AnswerAsSaid(n, id)
<1> DEFINE k == log[n].try
           c == tries[k].call
           body == tries[k].body
           item == ItemsAfter(n)[id]
           answer == tries[k].answer[id]
           known == {"remindMeDate", "hasAlarms", "recurring"}
           fields == KeysFor(item.kind) \ {"kind"}
           reminded == /\ "remindMeDate" \in DOMAIN answer /\ Names(k, "alarms") /\ "alarms" \notin DOMAIN c.args
<1>1. id \in Ids /\ n \in Nat \ {0} /\ n - 1 \in 0..Len(log) /\ n \in 0..Len(log)
    <2>1. id \in Ids /\ n \in Nat \ {0} /\ n - 1 \in 0..Len(log)
        BY CallServed
    <2>2. Len(log) \in Nat /\ DOMAIN log = 1..Len(log)
        BY LenProperties DEF LogAsServed
    <2> QED BY <2>1, <2>2
<1>2. ItemAsSaid(id, n) /\ ItemAsSaid(id, n - 1)
    BY <1>1, ItemsAlwaysAsSaid
<1>3. answer = Shown(c, item, kit)
    BY CallServed
<1>4. /\ item = Null => Deleted(id, n) \/ Untouched(id, n)
      /\ item # Null => \A f \in fields : item[f] = LastSaid(id, f, n)
      /\ Deleted(id, n) => item = Null
    BY <1>2 DEF ItemAsSaid
<1>5. ~Untouched(id, n)
    BY <1>1, DeletedNext
<1>6. CASE Deleted(id, n)
    <2>1. answer = Null
        BY <1>3, <1>4, <1>6 DEF Shown
    <2> QED BY <1>6, <2>1, Zenon DEF AnswerAsSaid
<1>7. CASE ~Deleted(id, n)
    <2>1. item # Null /\ c.tool \notin DeleteTools
        <3>1. item # Null
            BY <1>4, <1>5, <1>7
        <3>2. c.tool \in DeleteTools => item = Null
            BY <1>2, ItemServed
        <3> QED BY <3>1, <3>2
    <2>2. item \in Event \cup Reminder /\ item.kind = KindOf(c)
        BY <1>2, <2>1, ItemServed
    <2>3. c \in Made /\ tries[k].at \in Int /\ ~Refused(c, tries[k].at) /\ body = Body(c, tries[k].at)
        BY CallServed
    <2>4. \A f \in DOMAIN answer \ known : f \in fields /\ answer[f] = AsShown(c, f, item[f])
        BY <1>3, <2>2, <2>3, ShownAsIs
    <2> HIDE DEF item, c
    <2>5. answer.recurring = (item.recurrenceRules # <<>>)
        <3>1. Shown(c, item, kit).recurring = (item.recurrenceRules # <<>>)
            BY <2>2, <2>3, ShownAsIs
        <3> QED BY <1>3, <3>1, Zenon
    <2>6. "remindMeDate" \in DOMAIN answer => item.kind = "reminder"
        BY <1>3, <2>2, <2>3, ShownAsIs
    <2>7. item.kind = "reminder" => answer.hasAlarms = (item.alarms # <<>>)
        <3>1. item.kind = "reminder" => Shown(c, item, kit).hasAlarms = (item.alarms # <<>>)
            BY <2>2, <2>3, ShownAsIs
        <3> QED BY <1>3, <3>1, Zenon
    <2>8. item.kind = "reminder" => answer.remindMeDate = Date(RemindMeDate(item.alarms))
        <3>1. item.kind = "reminder" => Shown(c, item, kit).remindMeDate = Date(RemindMeDate(item.alarms))
            BY <2>2, <2>3, ShownAsIs
        <3> QED BY <1>3, <3>1
    <2>9. \A f \in fields : item[f] = LastSaid(id, f, n)
        BY <1>4, <2>1
    <2>10. "recurrenceRules" \in fields
        BY DEF KeysFor, EventKeys, ReminderKeys
    <2>11. ASSUME reminded
           PROVE  answer.hasAlarms /\ answer.remindMeDate = Date(body.remindMeDate)
        <3>1. item.kind = "reminder" /\ "alarms" \in fields
            BY <2>6, <2>11 DEF KeysFor, ReminderKeys
        <3>2. item.alarms = Said(k, "alarms")
            <4>1. c.tool \notin DeleteTools => \A f \in KeysFor(KindOf(c)) \ {"kind"} :
                    item[f] = IF Names(k, f) THEN Said(k, f)
                              ELSE IF c.tool \in CreateTools THEN Blank(f) ELSE ItemsAfter(n - 1)[id][f]
                BY <1>2, ItemServed DEF item, c
            <4> QED BY <2>1, <2>2, <2>11, <3>1, <4>1
        <3>3. SaysOf(c, body, kit, "alarms") /\ Said(k, "alarms") = SaidOf(c, body, "alarms")
            BY <2>11, NamesAndSaid DEF c
        <3>4. c.tool \notin StatusTools
            BY <3>3 DEF SaysOf
        <3>5. SaidOf(c, body, "alarms") = <<Absolute(body.remindMeDate)>>
            BY <2>11, <3>4, SaidEach
        <3>6. body.remindMeDate \in Int
            BY <2>3, <2>11, <3>3, <3>4, MomentSent
        <3>7. item.alarms = <<Absolute(body.remindMeDate)>>
            BY <3>2, <3>3, <3>5
        <3>8. RemindMeDate(item.alarms) = body.remindMeDate
            BY <3>6, <3>7, OneAlarm
        <3>9. item.alarms # <<>>
            BY <3>7
        <3>10. answer.hasAlarms
            BY <2>7, <3>1, <3>9
        <3>11. answer.remindMeDate = Date(body.remindMeDate)
            BY <2>8, <3>1, <3>8
        <3> QED BY <3>10, <3>11
    <2> HIDE DEF fields, reminded
    <2>12. \A f \in DOMAIN answer \ known : answer[f] = AsShown(c, f, LastSaid(id, f, n))
        BY <2>4, <2>9
    <2>13. answer.recurring = (LastSaid(id, "recurrenceRules", n) # <<>>)
        BY <2>5, <2>9, <2>10, Zenon
    <2> QED BY <1>7, <2>11, <2>12, <2>13, Zenon DEF AnswerAsSaid, reminded, c
<1> QED BY <1>6, <1>7

LEMMA FieldsFollow == TriesAsAsked /\ LogAsServed /\ kit \in BOOLEAN => FieldsAreAsLastSaid
<1> SUFFICES ASSUME TriesAsAsked, LogAsServed, kit \in BOOLEAN PROVE FieldsAreAsLastSaid
    OBVIOUS
<1>1. Len(log) \in Nat /\ DOMAIN log = 1..Len(log) /\ items = ItemsAfter(Len(log)) /\ Len(log) \in 0..Len(log)
    BY LenProperties DEF LogAsServed
<1>2. ASSUME NEW id \in Ids
      PROVE  IF items[id] = Null THEN Deleted(id, Len(log)) \/ \A j \in DOMAIN log : id \notin log[j].ids
             ELSE \A f \in DOMAIN items[id] \ {"kind"} : items[id][f] = LastSaid(id, f, Len(log))
    <2> DEFINE item == items[id]
    <2>1. ItemAsSaid(id, Len(log))
        BY <1>1, ItemsAlwaysAsSaid
    <2>2. /\ item \in Event \cup Reminder \cup {Null}
          /\ item = Null => Deleted(id, Len(log)) \/ Untouched(id, Len(log))
          /\ item # Null => \A f \in KeysFor(item.kind) \ {"kind"} : item[f] = LastSaid(id, f, Len(log))
        BY <1>1, <2>1 DEF ItemAsSaid
    <2>3. item # Null => DOMAIN item = KeysFor(item.kind)
        BY <2>2, Kinds
    <2> HIDE DEF item
    <2>4. item = Null => Deleted(id, Len(log)) \/ \A j \in DOMAIN log : id \notin log[j].ids
        BY <1>1, <2>2 DEF Untouched
    <2>5. item # Null => \A f \in DOMAIN item \ {"kind"} : item[f] = LastSaid(id, f, Len(log))
        BY <2>2, <2>3
    <2> QED BY <2>4, <2>5 DEF item
<1>3. \A n \in DOMAIN log : \A id \in log[n].ids : AnswerAsSaid(n, id)
    BY AnswersAsSaid
<1> QED BY <1>2, <1>3, Zenon DEF FieldsAreAsLastSaid

LEMMA KitStays == kit \in BOOLEAN /\ [Next]_vars => kit' \in BOOLEAN
<1> SUFFICES ASSUME kit \in BOOLEAN, [Next]_vars PROVE kit' = kit
    OBVIOUS
<1>1. \A c : Ask(c) => kit' = kit
    BY DEF Ask
<1>2. \A k : Serve(k) => kit' = kit
    BY DEF Serve
<1>3. \A k : Fail(k) \/ Answer(k) \/ GiveUp(k) => kit' = kit
    BY DEF Fail, Answer, GiveUp
<1>4. Wait => kit' = kit
    BY DEF Wait
<1> QED BY <1>1, <1>2, <1>3, <1>4 DEF Next, vars

(* An item is, field by field, what the calls that took effect last said of  *)
(* it, in the order in which they did, and for the rest what it was before   *)
(* any of them; and each answer shows it so, for any calls, clocks and       *)
(* attempts, with ReminderKit and without                                    *)
(* (events.go:142-192, reminders.go:140-190, parse.go:330-388).              *)
THEOREM FieldsAlwaysAsLastSaid == Spec => []FieldsAreAsLastSaid
<1>1. Init => kit \in BOOLEAN
    BY DEF Init
<1>2. kit \in BOOLEAN /\ [Next]_vars => (kit \in BOOLEAN)'
    BY KitStays
<1>3. TriesAsAsked /\ LogAsServed /\ kit \in BOOLEAN => FieldsAreAsLastSaid
    BY FieldsFollow
<1> QED BY <1>1, <1>2, <1>3, EveryEffectIsLogged, PTL DEF Spec
=============================================================================
