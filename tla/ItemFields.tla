----------------------------- MODULE ItemFields -----------------------------
(***************************************************************************)
(* What a write says and what becomes of it on the way: the arguments of   *)
(* an MCP tool, the body of the REST request (the handlers copy it field   *)
(* by field), the keys of the JSON the bridge is given, the event or the   *)
(* reminder, and what is shown of it.  Arguments, bodies and keys are      *)
(* functions on the fields that are there.  "notes" stands for every text  *)
(* that may be empty (location, notes, url).                               *)
(***************************************************************************)
EXTENDS DateParser, Recurrence

CONSTANT Zones    \* time zones EventKit knows

Strings == STRING \cup {""}   \* names and texts, the empty one among them

ASSUME ZonesAreNames == Zones \subseteq Strings \ {""}

StringFields == {"title", "notes", "timeZone", "calendar", "list"}
DateFields == {"startDate", "endDate", "dueDate", "remindMeDate"}
FlagFields == {"clearDueDate", "completed", "flagged"}

Alarm == [at : Int \cup {Null}, before : Int]

Event == [kind : {"event"}, title : Strings, calendar : Strings, startDate : Int, endDate : Int,
          notes : Strings, timeZone : Strings, recurrenceRules : Seq(StoredRule)]
Reminder == [kind : {"reminder"}, title : Strings, list : Strings, notes : Strings, dueDate : Int \cup {Null},
             alarms : Seq(Alarm), priority : Int, completed : BOOLEAN, flagged : BOOLEAN,
             recurrenceRules : Seq(StoredRule)]

ASSUME NullIsNothing == Null \notin Strings \cup Int \cup End \cup JsonEnd \cup Event \cup Reminder

(* What a field of a call may hold; a date is a text to a tool.              *)
Holds(f, Dates) ==
    CASE f \in DateFields -> Dates
      [] f \in StringFields -> Strings
      [] f \in FlagFields -> BOOLEAN
      [] f = "priority" -> Int
      [] f = "alarms" -> Seq(Alarm)
      [] f = "recurrenceRules" -> Seq(RecurrenceRule)

-----------------------------------------------------------------------------
(* The tools.  [form |-> "empty"] is "", [form |-> "blank"] only white space. *)
ParseDate(text, now) ==
    IF text.form \in {"empty", "blank"} THEN ZeroTime ELSE ParseDateRelativeTo(text, now, ToolOpts)

(* Mutant of Named: an empty text is a value like any other. *)
NamedEmpty(args) == {f \in DOMAIN args : f \in DateFields => args[f].form # "empty"}

(* An empty text counts as left out; numbers and flags are pointers.         *)
Named(args) ==
    {f \in DOMAIN args : /\ f \in DateFields => args[f].form # "empty"
                         /\ f \in StringFields => args[f] # ""}

Bodied(args, fields, now) ==
    [f \in fields |-> IF f \in DateFields THEN ParseDate(args[f], now) ELSE args[f]]

Unreadable(args, fields, now) ==
    \E f \in fields \cap DateFields : ParseDate(args[f], now) = NoDate

UpdateBody(args, now) == Bodied(args, Named(args), now)
UpdateRefused(args, now) == Unreadable(args, Named(args), now)

(* create_event requires its dates; the title may be empty.                  *)
CreateEventBody(args, now) == Bodied(args, Named(args) \cup {"title", "calendar"}, now)
CreateEventRefused(args, now) ==
    \E f \in {"startDate", "endDate"} :
        args[f].form \in {"empty", "blank"} \/ ParseDate(args[f], now) = NoDate

(* create_reminder drops the zero time (a blank text is parsed to it), no    *)
(* priority and an unset flag.                                               *)
CreateReminderBody(args, now) ==
    LET fields == {f \in Named(args) \cup {"title", "list"} :
                     /\ f \in DateFields => ParseDate(args[f], now) # ZeroTime
                     /\ f = "priority" => args[f] # 0
                     /\ f = "flagged" => args[f]}
    IN  Bodied(args, fields, now)
CreateReminderRefused(args, now) == Unreadable(args, Named(args), now)

-----------------------------------------------------------------------------
(* Every rule must be valid, or nothing is sent to the bridge.               *)
RulesValid(body) == \A k \in DOMAIN FieldIn(body, "recurrenceRules", <<>>) : Validate(body.recurrenceRules[k])

(* Only fields that are there become keys; clearing beats a due date.        *)
MarshalUpdateInput(body) ==
    LET clear == "clearDueDate" \in DOMAIN body /\ body.clearDueDate
    IN  [f \in (DOMAIN body \ {"clearDueDate"}) \cup (IF clear THEN {"dueDate"} ELSE {}) |->
            IF f = "dueDate" /\ clear THEN Null
            ELSE IF f = "recurrenceRules" THEN MarshalRules(body[f]) ELSE body[f]]

(* Title and dates are always written; what is empty is left out of the      *)
(* rest, and so are no priority and an unset flag.                           *)
MarshalCreateEvent(body) ==
    Restrict(body, {f \in DOMAIN body : f \in StringFields \ {"title"} => body[f] # ""})
MarshalCreateReminder(body) ==
    Restrict(body, {f \in DOMAIN body : /\ f \in StringFields \ {"title"} => body[f] # ""
                                        /\ f = "alarms" => body[f] # <<>>
                                        /\ f = "priority" => body[f] # 0
                                        /\ f = "flagged" => body[f]})

-----------------------------------------------------------------------------
(* The bridge. *)
Absolute(t) == [at |-> t, before |-> 0]

NewEvent(keys) ==
    [kind |-> "event", title |-> keys.title, calendar |-> keys.calendar,
     startDate |-> keys.startDate, endDate |-> keys.endDate,
     notes |-> FieldIn(keys, "notes", ""), recurrenceRules |-> <<>>,
     timeZone |-> IF FieldIn(keys, "timeZone", "") \in Zones THEN keys.timeZone ELSE ""]

(* A zone nobody knows changes nothing; rules replace all the old ones.      *)
PatchedEvent(item, keys) ==
    [f \in DOMAIN item |->
        IF f \notin DOMAIN keys \/ (f = "timeZone" /\ keys[f] \notin Zones) THEN item[f]
        ELSE IF f = "recurrenceRules" THEN NewRules(keys[f]) ELSE keys[f]]

NewReminder(keys, kit) ==
    [kind |-> "reminder", title |-> keys.title, list |-> keys.list,
     notes |-> FieldIn(keys, "notes", ""), recurrenceRules |-> <<>>,
     dueDate |-> FieldIn(keys, "dueDate", Null),
     alarms |-> (IF "remindMeDate" \in DOMAIN keys THEN <<Absolute(keys.remindMeDate)>> ELSE <<>>)
                \o FieldIn(keys, "alarms", <<>>),
     priority |-> FieldIn(keys, "priority", 0), completed |-> FALSE,
     flagged |-> kit /\ FieldIn(keys, "flagged", FALSE)]

(* Mutant of AlarmsAfter: the new alarm joins the others. *)
AlarmsAfterAdding(item, keys) ==
    IF "alarms" \in DOMAIN keys THEN keys.alarms
    ELSE IF "remindMeDate" \in DOMAIN keys THEN Append(item.alarms, Absolute(keys.remindMeDate))
    ELSE item.alarms

(* remindMeDate takes the place of every alarm, alarms that of both.         *)
AlarmsAfter(item, keys) ==
    IF "alarms" \in DOMAIN keys THEN keys.alarms
    ELSE IF "remindMeDate" \in DOMAIN keys THEN <<Absolute(keys.remindMeDate)>>
    ELSE item.alarms

(* The flag is saved through ReminderKit, where there is one.                *)
PatchedReminder(item, keys, kit) ==
    [f \in DOMAIN item |->
        CASE f = "alarms" -> AlarmsAfter(item, keys)
          [] f = "recurrenceRules" /\ f \in DOMAIN keys -> NewRules(keys[f])
          [] f = "flagged" -> IF kit THEN FieldIn(keys, f, item[f]) ELSE item[f]
          [] OTHER -> FieldIn(keys, f, item[f])]

-----------------------------------------------------------------------------
(* What the answer shows: the bridge's JSON, the value read from it, and    *)
(* what the tool gives the agent.                                            *)
OrNull(s) == IF s = "" THEN Null ELSE s
Text(raw) == IF raw = Null THEN "" ELSE raw
Time(raw) == IF raw = Null THEN ZeroTime ELSE raw
OptionalTime(raw) == IF raw = Null \/ Time(raw) = ZeroTime THEN Null ELSE raw
Date(t) == IF t = Null \/ t = ZeroTime THEN Null ELSE t   \* the zero time is shown as none

EventToDict(item) ==
    [title |-> item.title, notes |-> OrNull(item.notes), calendar |-> item.calendar,
     startDate |-> item.startDate, endDate |-> item.endDate, timeZone |-> OrNull(item.timeZone),
     recurring |-> item.recurrenceRules # <<>>, recurrenceRules |-> RulesToDicts(item.recurrenceRules)]

ConvertRawEvent(raw) ==
    [raw EXCEPT !.notes = Text(@), !.startDate = Time(@), !.endDate = Time(@), !.timeZone = Text(@),
                !.recurrenceRules = ConvertRawRules(@)]

(* The rules themselves are not shown. *)
RedactEvent(e) ==
    [f \in DOMAIN e \ {"recurrenceRules"} |-> IF f \in DateFields THEN Date(e[f]) ELSE e[f]]

(* The last absolute alarm, in the order of the list.                        *)
RemindMeDate(alarms) ==
    LET absolute == {k \in DOMAIN alarms : alarms[k].at # Null}
    IN  IF absolute = {} THEN Null ELSE alarms[Max(absolute)].at

ReminderToDict(item, kit) ==
    [title |-> item.title, notes |-> OrNull(item.notes), list |-> item.list,
     completed |-> item.completed, flagged |-> kit /\ item.flagged, priority |-> item.priority,
     hasAlarms |-> item.alarms # <<>>, dueDate |-> item.dueDate,
     alarms |-> item.alarms, remindMeDate |-> RemindMeDate(item.alarms),
     recurring |-> item.recurrenceRules # <<>>, recurrenceRules |-> RulesToDicts(item.recurrenceRules)]

ConvertRawAlarm(raw) == [raw EXCEPT !.at = OptionalTime(@)]

ConvertRawReminder(raw) ==
    [raw EXCEPT !.notes = Text(@), !.dueDate = OptionalTime(@), !.remindMeDate = OptionalTime(@),
                !.recurrenceRules = ConvertRawRules(@),
                !.alarms = [k \in DOMAIN @ |-> ConvertRawAlarm(@[k])]]

PriorityWord(p) ==
    CASE p \in 1..4 -> "high" [] p = 5 -> "medium" [] p \in 6..9 -> "low" [] OTHER -> "none"

(* Neither the alarms nor the rules themselves are shown.                    *)
RedactReminder(r) ==
    [f \in DOMAIN r \ {"alarms", "recurrenceRules"} |->
        CASE f = "priority" -> PriorityWord(r[f])
          [] f \in DateFields -> Date(r[f])
          [] OTHER -> r[f]]
=============================================================================
