----------------------------- MODULE Recurrence -----------------------------
(***************************************************************************)
(* Recurrence rules on their way into the store and back.  A rule is       *)
(*   [frequency, interval, only, end]                                      *)
(* where "only" has a list per constraint (daysOfTheWeek, ...), <<>> for   *)
(* none, and end is Null or [date, count].  In JSON both are functions on  *)
(* the keys that are there.                                                *)
(***************************************************************************)
EXTENDS CivilTime, Sequences, Functions

CONSTANT Null    \* JSON null; in an item, a date that is not set

Daily == 0
Weekly == 1
Monthly == 2
Yearly == 3

(* The frequencies a constraint goes with; set positions go with any, but    *)
(* need something to choose from.                                            *)
FrequenciesFor ==
    [daysOfTheWeek |-> {Weekly, Monthly, Yearly}, daysOfTheMonth |-> {Monthly, Yearly},
     monthsOfTheYear |-> {Yearly}, weeksOfTheYear |-> {Yearly}, daysOfTheYear |-> {Yearly},
     setPositions |-> Daily..Yearly]

(* An empty list is no constraint.                                           *)
Given(rule) == {c \in DOMAIN FrequenciesFor : rule.only[c] # <<>>}

NthDay == [day : 1..7, week : Int]
Constraints == [daysOfTheWeek : Seq(NthDay), daysOfTheMonth : Seq(Int), monthsOfTheYear : Seq(Int),
                weeksOfTheYear : Seq(Int), daysOfTheYear : Seq(Int), setPositions : Seq(Int)]
End == [date : Int \cup {Null}, count : Int]
JsonEnd == [{} -> Int] \cup [{"date"} -> Int] \cup [{"count"} -> Int] \cup [{"date", "count"} -> Int]
RecurrenceRule == [frequency : Daily..Yearly, interval : Int, only : Constraints, end : End \cup {Null}]

(* What the store holds: an end by date or by count.                         *)
StoredRule ==
    {rule \in RecurrenceRule :
        /\ rule.interval >= 1
        /\ rule.end # Null => IF rule.end.date = Null THEN rule.end.count >= 1 ELSE rule.end.count = 0}

Validate(rule) ==
    /\ rule.interval >= 1
    /\ \A c \in Given(rule) : rule.frequency \in FrequenciesFor[c]
    /\ Given(rule) # {"setPositions"}
    /\ rule.end # Null /\ rule.end.date = Null => rule.end.count >= 1

(* A count below one is not written (by calendar a negative one is, and      *)
(* ignored by the bridge).                                                   *)
EndKeys(end) ==
    IF end = Null THEN Null
    ELSE Restrict(end, {k \in DOMAIN end : IF k = "date" THEN end.date # Null ELSE end.count > 0})

MarshalRules(rules) ==
    [k \in DOMAIN rules |-> [rules[k] EXCEPT !.only = Restrict(@, Given(rules[k])), !.end = EndKeys(@)]]

-----------------------------------------------------------------------------
FieldIn(keys, f, otherwise) == IF f \in DOMAIN keys THEN keys[f] ELSE otherwise

(* A date wins over a count.                                                 *)
RuleEnd(keys) ==
    IF keys = Null \/ DOMAIN keys = {} THEN Null
    ELSE IF "date" \in DOMAIN keys THEN [date |-> keys.date, count |-> 0]
    ELSE [date |-> Null, count |-> keys.count]

Lists(keys) == [c \in DOMAIN FrequenciesFor |-> FieldIn(keys, c, <<>>)]

NewRules(keys) ==
    [k \in DOMAIN keys |->
        [keys[k] EXCEPT !.interval = IF @ < 1 THEN 1 ELSE @, !.only = Lists(@), !.end = RuleEnd(@)]]

RulesToDicts(rules) ==
    [k \in DOMAIN rules |-> [rules[k] EXCEPT !.only = Restrict(@, Given(rules[k])), !.end = EndKeys(@)]]

(* An end that is there becomes one, whatever it holds.                      *)
ConvertRawRules(raw) ==
    [k \in DOMAIN raw |->
        [raw[k] EXCEPT !.only = Lists(@),
                       !.end = IF @ = Null THEN Null
                               ELSE [date |-> IF FieldIn(@, "date", ZeroTime) = ZeroTime THEN Null ELSE @.date,
                                     count |-> FieldIn(@, "count", 0)]]]
=============================================================================
