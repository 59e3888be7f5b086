----------------------------- MODULE ToolCalls -----------------------------
(***************************************************************************)
(* The MCP tools that write, from the agent to the item in the store: each *)
(* parses its dates by the clock, sends one REST request and waits for the *)
(* answer, but gives up after the client's timeout (or is told 504) while  *)
(* the request is still on its way: it may take effect at any later time,  *)
(* after the agent has tried again or gone on.  Other clients patch items  *)
(* through REST with whatever fields they like.                            *)
(***************************************************************************)
EXTENDS ItemFields

CONSTANTS
    Ids,        \* identifiers
    Calls,      \* calls the agent may begin with: [tool, ids, args]
    FollowUps,  \* calls it may go on with, besides the same once more
    Starts,     \* moments at which the agent starts
    Waits,      \* minutes the agent may let pass
    MaxTries,   \* bound: how many calls are made
    Existing    \* the items there are at the start: a function on Ids

ASSUME ToolConstants == MaxTries \in Nat /\ Waits \subseteq Nat /\ Starts \subseteq Nat

VARIABLES
    now,       \* the clock
    waited,    \* the agent has let time pass
    kit,       \* the private ReminderKit is there
    items,     \* the stores: per id an item, or Null
    tries,     \* the calls made, in order, each with where it is
    log        \* history: the calls that took effect, in order

vars == <<now, waited, kit, items, tries, log>>

EventTools == {"create_event", "update_event", "delete_event", "batch_delete_events", "patch_event"}
CreateTools == {"create_event", "create_reminder"}
DeleteTools == {"delete_event", "batch_delete_events", "delete_reminder", "batch_delete_reminders"}
BatchTools == {"batch_delete_events", "batch_delete_reminders"}
StatusTools == {"complete_reminder", "uncomplete_reminder"}
RestCalls == {"patch_event", "patch_reminder"}
KindOf(c) == IF c.tool \in EventTools THEN "event" ELSE "reminder"

(* The fields that a tool, or the body of a PATCH, must and may have.        *)
Required(tool) ==
    CASE tool = "create_event" -> {"title", "calendar", "startDate", "endDate"}
      [] tool = "create_reminder" -> {"title", "list"}
      [] OTHER -> {}
EventFields == {"title", "calendar", "startDate", "endDate", "notes", "timeZone"}
ReminderFields == {"title", "list", "dueDate", "remindMeDate", "notes", "priority", "flagged"}
Accepted(tool) ==
    CASE tool \in {"create_event", "update_event"} -> EventFields
      [] tool = "patch_event" -> EventFields \cup {"recurrenceRules"}
      [] tool = "create_reminder" -> ReminderFields
      [] tool = "update_reminder" -> ReminderFields \cup {"clearDueDate", "completed"}
      [] tool = "patch_reminder" ->
            ReminderFields \cup {"clearDueDate", "completed", "alarms", "recurrenceRules"}
      [] OTHER -> {}

(* A calendar or a list given by REST, or to create in, is named: the empty  *)
(* name is refused there.                                                    *)
WellFormed(c) ==
    /\ c.tool \in EventTools \cup CreateTools \cup DeleteTools \cup StatusTools \cup RestCalls \cup {"update_reminder"}
    /\ c.tool \in CreateTools \/ c.ids \subseteq Ids
    /\ Required(c.tool) \subseteq DOMAIN c.args /\ DOMAIN c.args \subseteq Accepted(c.tool)
    /\ \A f \in DOMAIN c.args : c.args[f] \in Holds(f, IF c.tool \in RestCalls THEN Int ELSE DateText)
    /\ \A f \in DOMAIN c.args \cap {"calendar", "list"} :
            c.tool \in CreateTools \cup RestCalls => c.args[f] # ""

ASSUME CallsAreWellFormed == \A c \in Calls \cup FollowUps : WellFormed(c)
ASSUME ItemsAreWellFormed ==
    DOMAIN Existing \subseteq Ids /\ \A id \in DOMAIN Existing : Existing[id] \in Event \cup Reminder

Init ==
    /\ now \in Starts /\ waited = FALSE /\ kit \in BOOLEAN
    /\ items = [id \in Ids |-> IF id \in DOMAIN Existing THEN Existing[id] ELSE Null]
    /\ tries = <<>> /\ log = <<>>

-----------------------------------------------------------------------------
(* What a tool sends. *)
UpdateTools == {"update_event", "update_reminder"}
Refused(c, at) ==
    \/ c.tool \notin CreateTools /\ c.ids = {}
    \/ c.tool = "create_event" /\ CreateEventRefused(c.args, at)
    \/ c.tool = "create_reminder" /\ CreateReminderRefused(c.args, at)
    \/ c.tool \in UpdateTools /\ UpdateRefused(c.args, at)

Body(c, at) ==
    CASE c.tool = "create_event" -> CreateEventBody(c.args, at)
      [] c.tool = "create_reminder" -> CreateReminderBody(c.args, at)
      [] c.tool \in UpdateTools -> UpdateBody(c.args, at)
      [] OTHER -> c.args

(* The agent waits for an answer before it makes another call.               *)
Waiting == \E k \in DOMAIN tries : tries[k].pc \in {"sent", "served"}

Ask(c) ==
    /\ Len(tries) < MaxTries /\ ~Waiting
    /\ tries' = Append(tries,
        IF Refused(c, now) THEN [call |-> c, at |-> now, body |-> <<>>, pc |-> "refused", answer |-> Null]
        ELSE [call |-> c, at |-> now, body |-> Body(c, now), pc |-> "sent", answer |-> Null])
    /\ UNCHANGED <<now, waited, kit, items, log>>

-----------------------------------------------------------------------------
(* What the server makes of it. *)
Pending(k) == tries[k].pc \in {"sent", "abandoned"}
Targets(c) == {id \in c.ids : items[id] # Null /\ items[id].kind = KindOf(c)}
Unused == {id \in Ids : items[id] = Null /\ \A n \in DOMAIN log : id \notin log[n].ids}
Fresh == CHOOSE id \in Unused : TRUE

(* The items a call that takes effect may reach: a batch deletes item by     *)
(* item, and any of them may fail without the others.                        *)
Reached(c) ==
    CASE c.tool \in CreateTools -> IF Unused = {} THEN {} ELSE {{Fresh}}
      [] c.tool \in BatchTools -> SUBSET Targets(c) \ {{}}
      [] OTHER -> {Targets(c)} \ {{}}

Stored(c, body, item, withKit) ==
    CASE c.tool = "create_event" -> NewEvent(MarshalCreateEvent(body))
      [] c.tool = "create_reminder" -> NewReminder(MarshalCreateReminder(body), withKit)
      [] c.tool \in {"update_event", "patch_event"} -> PatchedEvent(item, MarshalUpdateInput(body))
      [] c.tool \in {"update_reminder", "patch_reminder"} ->
            PatchedReminder(item, MarshalUpdateInput(body), withKit)
      [] c.tool \in StatusTools -> [item EXCEPT !.completed = c.tool = "complete_reminder"]
      [] c.tool \in DeleteTools -> Null

(* The answer: REST gives the item as it was parsed, a tool what may be shown. *)
Shown(c, item, withKit) ==
    IF item = Null THEN Null
    ELSE IF item.kind = "event"
    THEN LET e == ConvertRawEvent(EventToDict(item)) IN IF c.tool \in RestCalls THEN e ELSE RedactEvent(e)
    ELSE LET r == ConvertRawReminder(ReminderToDict(item, withKit))
         IN  IF c.tool \in RestCalls THEN r ELSE RedactReminder(r)

(* The write takes effect; nobody may be there any more to hear of it.  The  *)
(* identifiers bound the items there can be.                                 *)
Serve(k) ==
    LET c == tries[k].call
    IN \E ids \in Reached(c) :
        /\ Pending(k) /\ RulesValid(tries[k].body)
        /\ items' = [id \in Ids |-> IF id \in ids THEN Stored(c, tries[k].body, items[id], kit) ELSE items[id]]
        /\ log' = Append(log, [try |-> k, ids |-> ids, items |-> items'])
        /\ tries' = [tries EXCEPT ![k].pc = IF @ = "sent" THEN "served" ELSE "gone",
                                  ![k].answer = [id \in ids |-> Shown(c, items'[id], kit)]]
        /\ UNCHANGED <<now, waited, kit>>

(* It is refused, not found, or fails before anything is saved.              *)
Fail(k) ==
    /\ Pending(k)
    /\ tries' = [tries EXCEPT ![k].pc = IF @ = "sent" THEN "failed" ELSE "gone"]
    /\ UNCHANGED <<now, waited, kit, items, log>>

Answer(k) ==
    /\ tries[k].pc = "served"
    /\ tries' = [tries EXCEPT ![k].pc = "answered"]
    /\ UNCHANGED <<now, waited, kit, items, log>>

(* The client's timeout, or a 504 of the server.                             *)
GiveUp(k) ==
    /\ \/ tries[k].pc = "sent" /\ tries' = [tries EXCEPT ![k].pc = "abandoned"]
       \/ tries[k].pc = "served" /\ tries' = [tries EXCEPT ![k].pc = "gone"]
    /\ UNCHANGED <<now, waited, kit, items, log>>

Wait ==
    /\ ~waited /\ waited' = TRUE /\ tries # <<>> /\ ~Waiting
    /\ \E n \in Waits : now' = now + n
    /\ UNCHANGED <<kit, items, tries, log>>

Next ==
    \/ \E c \in IF tries = <<>> THEN Calls ELSE FollowUps \cup {tries[Len(tries)].call} : Ask(c)
    \/ \E k \in DOMAIN tries : Serve(k) \/ Fail(k) \/ Answer(k) \/ GiveUp(k)
    \/ Wait

Spec == Init /\ [][Next]_vars

-----------------------------------------------------------------------------
(* What a text means, as a reader would say it.                              *)
Civil(day) == <<Year(day), Month(day), DayInMonth(day)>>

(* The moments of the day a time names; what is past the 59th minute of an   *)
(* hour carries over, where the parser lets it through.                      *)
TimesMeant(c) ==
    CASE c.half = "24h" -> IF c.h <= 23 /\ c.m <= 59 THEN {60 * c.h + c.m} ELSE {}
      [] c.half \in {"am", "pm"} ->
            {60 * x + c.m : x \in {x \in 0..23 : c.h \in 1..12 /\ x % 12 = c.h % 12 /\ (x < 12) = (c.half = "am")}}
      [] OTHER -> {}
TimesOr(c, default) == IF TimesMeant(c) = {} THEN {default} ELSE TimesMeant(c)

Nine == 9 * 60
FirstSuch(day, from, P(_)) == day >= from /\ P(day) /\ \A d \in from..(day - 1) : ~P(d)
OnDay(t, times, P(_)) == \E minutes \in times : (t - minutes) % PerDay = 0 /\ P(DayOf(t - minutes))

SameDayIn(t, from, months) ==
    LET day == DayOf(t)
        index(d) == 12 * Year(d) + Month(d)
        wanted == index(DayOf(from)) + months
        over == DayInMonth(DayOf(from)) - DaysIn((wanted - 1) \div 12, ((wanted - 1) % 12) + 1)
    IN  /\ ClockOf(t) = ClockOf(from)
        /\ IF over <= 0 THEN index(day) = wanted /\ DayInMonth(day) = DayInMonth(DayOf(from))
           ELSE index(day) = wanted + 1 /\ DayInMonth(day) = over

Apart(t, from, n, unit) ==
    CASE unit = "minute" -> t - from = n
      [] unit = "hour" -> t - from = 60 * n
      [] unit \in {"day", "week"} ->
            ClockOf(t) = ClockOf(from) /\ DayOf(t) - DayOf(from) = n * (IF unit = "week" THEN 7 ELSE 1)
      [] unit = "month" -> SameDayIn(t, from, n)

OutsideCalendar(y, m, d) == m \notin 1..12 \/ d \notin 1..DaysIn(y, m)

(* "21 mar 2026" is in a layout of package time, if there is such a day;     *)
(* "mar 21 2026" and "21 march 2026" are in none.                            *)
InLayout(text) ==
    text.written = "2 Jan 2006" /\ ~OutsideCalendar(text.year, text.month, text.d)

Means(text, from, t) ==
    LET today == DayOf(from)
        On(day, P(_)) == FirstSuch(day, today, P)
        After(day, P(_)) == FirstSuch(day, today + 1, P)
    IN  CASE text.form = "standard" ->
                OnDay(t + text.east,
                      IF text.clock = Nothing THEN {0}
                      ELSE IF text.clock.h = 0 /\ text.clock.half = "pm" THEN {720 + text.clock.m}
                      ELSE IF text.clock.h = 0 /\ text.clock.half = "am" THEN {text.clock.m}
                      ELSE TimesMeant(text.clock),
                      LAMBDA d : Civil(d) = <<text.y, text.m, text.d>>)
          [] text.form = "keyword" ->
                (CASE text.word \in {"today", "tomorrow", "yesterday"} ->
                        OnDay(t, {Nine}, LAMBDA d : d = today + (CASE text.word = "today" -> 0
                                                                   [] text.word = "tomorrow" -> 1
                                                                   [] OTHER -> -1))
                   [] text.word = "now" -> t = from
                   [] text.word = "eod" -> OnDay(t, {17 * 60}, LAMBDA d : d = today)
                   [] text.word = "eow" ->
                        OnDay(t, {17 * 60}, LAMBDA d : On(d, LAMBDA x : Weekday(x) = Friday))
                   [] text.word = "this week" ->
                        OnDay(t, {PerDay - 1}, LAMBDA d : On(d, LAMBDA x : Weekday(x) = Sunday))
                   [] text.word = "next week" ->
                        OnDay(t, {Nine}, LAMBDA d : After(d, LAMBDA x : Weekday(x) = Monday))
                   [] text.word = "next month" ->
                        OnDay(t, {Nine}, LAMBDA d : After(d, LAMBDA x : DayInMonth(x) = 1)))
          [] text.form = "in" -> Apart(t, from, text.n, text.unit)
          [] text.form = "ago" -> Apart(t, from, -text.n, text.unit)
          [] text.form \in {"next", "weekday"} ->
                OnDay(t, IF text.form = "next" \/ text.clock = Nothing THEN TimesOr(text.clock, Nine)
                         ELSE TimesMeant(text.clock),
                      LAMBDA d : After(d, LAMBDA x : Weekday(x) = text.weekday))
          [] text.form = "base" ->
                OnDay(t, TimesMeant(text.clock), LAMBDA d : d = today + (CASE text.word = "today" -> 0
                                                                           [] text.word = "tomorrow" -> 1
                                                                           [] OTHER -> -1))
          [] text.form = "monthday" ->
                LET given == text.year \in YearsGiven \/ InLayout(text)
                IN  OnDay(t, IF InLayout(text) THEN {0}
                             ELSE IF given \/ text.year = 0 THEN TimesOr(text.clock, Nine) ELSE {Nine},
                          LAMBDA d : Civil(d) = <<IF given THEN text.year ELSE Year(today), text.month, text.d>>)
          [] text.form = "time" ->
                /\ OnDay(t, TimesMeant(text.clock), LAMBDA d : d \in {today, today + 1})
                /\ t >= from /\ (t >= from + PerDay => OnDay(t, TimesMeant(text.clock), LAMBDA d : d = today))
          [] OTHER -> FALSE

Meaningless(text, from) ==
    CASE text.form = "standard" ->
            \/ OutsideCalendar(text.y, text.m, text.d)
            \/ /\ text.clock # Nothing /\ TimesMeant(text.clock) = {}
               /\ ~(text.clock.half \in {"am", "pm"} /\ text.clock.h = 0 /\ text.clock.m <= 59)
      [] text.form = "monthday" ->
            ~InLayout(text) /\
            OutsideCalendar(IF text.year \in YearsGiven THEN text.year ELSE Year(DayOf(from)), text.month, text.d)
      [] text.form \in {"time", "base"} -> TimesMeant(text.clock) = {}
      [] text.form = "weekday" -> text.clock # Nothing /\ TimesMeant(text.clock) = {}
      [] OTHER -> text.form = "other"

Written(text) == text.form \notin {"empty", "blank"}
DatesOf(c) == {f \in DOMAIN c.args \cap DateFields : Written(c.args[f])}
ByTool(c) == c.tool \notin RestCalls

(***************************************************************************)
(* Every date a tool sends is what the words mean at the time of the call, *)
(* said without the parser's arithmetic: the first such weekday after      *)
(* today, the same day so many months on or what overflows of it, the next *)
(* time the clock shows it.  A day without a time is meant at nine, as     *)
(* "WithDefaultHour(9) makes bare dates land at 09:00 local time rather    *)
(* than midnight" has it (dates.go:16-19), but where it is in a layout of  *)
(* package time (InLayout, and the form "standard"): there the code        *)
(* departs from the comment and sends midnight.  A call is refused only    *)
(* for words without a meaning, or without an id or a date it must have    *)
(* (dateparser.go:82-175, dates.go:28-61).                                 *)
(***************************************************************************)
DatesMeanWhatTheySay ==
    \A k \in DOMAIN tries :
        LET c == tries[k].call
        IN  ByTool(c) =>
            IF tries[k].pc # "refused"
            THEN \A f \in DatesOf(c) : Means(c.args[f], tries[k].at, FieldIn(tries[k].body, f, ZeroTime))
            ELSE \/ c.ids = {} /\ c.tool \notin CreateTools
                 \/ c.tool = "create_event"
                    /\ \E f \in {"startDate", "endDate"} : ~Written(c.args[f])
                 \/ \E f \in DatesOf(c) : Meaningless(c.args[f], tries[k].at)

(* What a call says of a field of the item.                                  *)
Argument(f) == IF f = "alarms" THEN "remindMeDate" ELSE f   \* the argument that sets f
Names(k, f) ==
    LET c == tries[k].call
    IN  IF c.tool \in StatusTools THEN f = "completed"
        ELSE \/ f = "dueDate" /\ "clearDueDate" \in DOMAIN c.args /\ c.args.clearDueDate
             \/ f = "alarms" /\ "alarms" \in DOMAIN c.args
             \/ /\ Argument(f) \in DOMAIN c.args
                /\ f = "timeZone" => c.args[f] \in Zones
                /\ f = "flagged" => kit
                /\ ByTool(c) /\ f \in StringFields => c.args[f] # ""
                /\ ByTool(c) /\ Argument(f) \in DateFields =>
                        /\ c.args[Argument(f)].form # "empty"
                        /\ c.tool \in CreateTools => Argument(f) \in DOMAIN tries[k].body

(* Where an end is given twice, the date counts.                             *)
AsMeant(rule) == [rule EXCEPT !.end = IF @ # Null /\ @.date # Null THEN [@ EXCEPT !.count = 0] ELSE @]

Said(k, f) ==
    LET c == tries[k].call
    IN  CASE f = "completed" /\ c.tool \in StatusTools -> c.tool = "complete_reminder"
          [] f = "alarms" -> IF "alarms" \in DOMAIN c.args THEN c.args.alarms
                             ELSE <<Absolute(tries[k].body.remindMeDate)>>
          [] f \in DateFields ->
                IF f = "dueDate" /\ "clearDueDate" \in DOMAIN c.args /\ c.args.clearDueDate THEN Null
                ELSE tries[k].body[f]
          [] f = "recurrenceRules" -> [j \in DOMAIN c.args[f] |-> AsMeant(c.args[f][j])]
          [] OTHER -> c.args[f]

Unsaid(id, f) ==
    IF id \in DOMAIN Existing THEN Existing[id][f]
    ELSE CASE f \in StringFields -> "" [] f \in {"alarms", "recurrenceRules"} -> <<>> [] f = "priority" -> 0
           [] f \in {"completed", "flagged"} -> FALSE [] OTHER -> Null

LastSaid(id, f, n) ==   \* by the first n calls that took effect
    LET said == {j \in 1..n : id \in log[j].ids /\ Names(log[j].try, f)}
    IN  IF said = {} THEN Unsaid(id, f) ELSE Said(log[Max(said)].try, f)

Deleted(id, n) == \E j \in 1..n : id \in log[j].ids /\ tries[log[j].try].call.tool \in DeleteTools

EndShown(end) == IF end = Null THEN Null ELSE [end EXCEPT !.date = Date(@)]

AsShown(c, f, value) ==
    CASE f \in DateFields -> IF c.tool = "patch_event" THEN value ELSE Date(value)
      [] f = "priority" -> IF c.tool \in RestCalls THEN value ELSE PriorityWord(value)
      [] f = "alarms" -> [k \in DOMAIN value |-> [value[k] EXCEPT !.at = Date(@)]]
      [] f = "recurrenceRules" ->
            [k \in DOMAIN value |-> [value[k] EXCEPT !.end = EndShown(@)]]
      [] f = "flagged" -> kit /\ value   \* without ReminderKit no flag is seen
      [] OTHER -> value

AnswerAsSaid(n, id) ==
    LET answer == tries[log[n].try].answer[id]
        c == tries[log[n].try].call
    IN  IF Deleted(id, n) THEN answer = Null
        ELSE /\ \A f \in DOMAIN answer \ {"remindMeDate", "hasAlarms", "recurring"} :
                    answer[f] = AsShown(c, f, LastSaid(id, f, n))
             /\ answer.recurring = (LastSaid(id, "recurrenceRules", n) # <<>>)
             /\ "remindMeDate" \in DOMAIN answer /\ Names(log[n].try, "alarms") /\ "alarms" \notin DOMAIN c.args =>
                    answer.hasAlarms /\ answer.remindMeDate = Date(tries[log[n].try].body.remindMeDate)

(***************************************************************************)
(* An item is what the calls that took effect last said of each field, in  *)
(* the order in which they did, and for the rest what it was: a text left  *)
(* empty or a field left out changes nothing, clearDueDate beats dueDate,  *)
(* a remindMeDate takes the place of every alarm, rules that of every old  *)
(* rule; the answer shows it so                                            *)
(* (events.go:142-192, reminders.go:140-190, parse.go:330-388).            *)
(***************************************************************************)
FieldsAreAsLastSaid ==
    /\ \A id \in Ids :
        IF items[id] = Null THEN Deleted(id, Len(log)) \/ \A j \in DOMAIN log : id \notin log[j].ids
        ELSE \A f \in DOMAIN items[id] \ {"kind"} : items[id][f] = LastSaid(id, f, Len(log))
    /\ \A n \in DOMAIN log : \A id \in log[n].ids : AnswerAsSaid(n, id)

(* Asked at t and at u, the words name the same moment.                      *)
Steady(text, t, u) ==
    LET from == IF t < u THEN t ELSE u
        to == IF t < u THEN u ELSE t
        sameDay == DayOf(t) = DayOf(u)
    IN  CASE text.form = "standard" -> TRUE
          [] text.form \in {"in", "ago"} \/ (text.form = "keyword" /\ text.word = "now") -> t = u
          [] text.form = "monthday" -> InLayout(text) \/ text.year \in YearsGiven \/ Year(DayOf(t)) = Year(DayOf(u))
          [] text.form = "time" ->
                sameDay /\ ~\E x \in TimesMeant(text.clock) : from <= TodayAt(from, x) /\ TodayAt(from, x) < to
          [] OTHER -> sameDay

(***************************************************************************)
(* "updates / status changes that produce the same final state when        *)
(* retried" and deletions (annotations.go:39-57), however late the first   *)
(* attempt took effect: a second one finds the items so already, if what   *)
(* its dates say has not changed with the clock in between.  Of a batch,   *)
(* where each id fails on its own, it may delete what the first left over, *)
(* and does nothing else.                                                  *)
(***************************************************************************)
RetriesAgree ==
    \A n \in DOMAIN log \ {1} :
        LET first == tries[log[n - 1].try]
            second == tries[log[n].try]
            leftOver == IF first.call.tool \in BatchTools THEN first.call.ids \ log[n - 1].ids ELSE {}
        IN  first.call = second.call /\ first.call.tool \notin CreateTools
            /\ (\A f \in DatesOf(first.call) : Steady(first.call.args[f], first.at, second.at))
            => \A id \in Ids :
                   log[n].items[id] = log[n - 1].items[id] \/ (id \in leftOver /\ log[n].items[id] = Null)
=============================================================================
