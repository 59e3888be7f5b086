---------------------------- MODULE MCToolCalls ----------------------------
(***************************************************************************)
(* ToolCalls on two events and one reminder: dates in every form, at       *)
(* moments where calendars are awkward, patches of every kind, and a batch *)
(* that fails in part.                                                     *)
(***************************************************************************)
EXTENDS ToolCalls

MCIds == {"e1", "e2", "r1", "n1", "n2"}
MCZones == {"here"}

Moment(y, m, d, h, min) == At(DayNumber(y, m, d), 60 * h + min)
Am(h, m) == [h |-> h, m |-> m, half |-> "am"]
Pm(h, m) == [h |-> h, m |-> m, half |-> "pm"]
H24(h, m) == [h |-> h, m |-> m, half |-> "24h"]

(* A Sunday at nine, the end of January, New Year's Eve on a Friday, and a   *)
(* leap day.                                                                 *)
MCStarts == {Moment(2026, 6, 7, 9, 0), Moment(2026, 1, 31, 17, 30),
             Moment(2027, 12, 31, 23, 30), Moment(2028, 2, 29, 0, 0)}
MCWaits == {45, 1440}

Clocks == {Am(9, 0), Pm(12, 0), Am(12, 30), Pm(11, 75), Pm(0, 0), Pm(13, 0), H24(17, 0),
           H24(24, 0), H24(23, 60), Rubbish}
Few == {Pm(12, 0), Pm(11, 75), Pm(13, 0), H24(24, 0), Rubbish}

Standard(y, m, d, clock, east) ==
    [form |-> "standard", y |-> y, m |-> m, d |-> d, clock |-> clock, east |-> east]
MonthDay(month, d, year, clock) ==
    [form |-> "monthday", month |-> month, d |-> d, year |-> year, clock |-> clock, written |-> "freely"]
InLayoutOf(month, d, year) == [MonthDay(month, d, year, Nothing) EXCEPT !.written = "2 Jan 2006"]

Texts ==
    {[form |-> "keyword", word |-> w] : w \in {"today", "tomorrow", "yesterday", "now", "eod", "eow",
                                              "this week", "next week", "next month"}}
    \cup {[form |-> f, n |-> n, unit |-> u] : f \in {"in", "ago"}, n \in {13},
                                              u \in {"minute", "hour", "day", "week", "month"}}
    \cup {[form |-> "next", weekday |-> d, clock |-> c] : d \in {0, 1, 5}, c \in {Nothing, Pm(3, 75)}}
    \cup {[form |-> "next", weekday |-> 1, clock |-> Rubbish]}
    \cup {[form |-> "weekday", weekday |-> d, clock |-> c] : d \in {0, 5}, c \in {Nothing, Pm(12, 0)}}
    \cup {[form |-> "weekday", weekday |-> 5, clock |-> c] : c \in Few}
    \cup {[form |-> "base", word |-> "tomorrow", clock |-> c] : c \in Few}
    \cup {[form |-> "base", word |-> w, clock |-> Am(9, 0)] : w \in {"yesterday", "today"}}
    \cup {[form |-> "time", clock |-> c] : c \in Clocks}
    \cup {MonthDay(2, 29, y, c) : y \in {0, 999, 2028}, c \in {Nothing, Pm(3, 75)}}
    \cup {MonthDay(2, 29, y, Nothing) : y \in {2027, 10000}}
    \cup {MonthDay(m, 31, 0, Rubbish) : m \in {4, 12}} \cup {MonthDay(12, 0, 0, Rubbish)}
    \cup {InLayoutOf(3, 21, 2026)} \cup {InLayoutOf(2, 29, y) : y \in {999, 2027, 2028}}
    \cup {Standard(2028, 2, 29, c, 0) : c \in Clocks \cup {Nothing}}
    \cup {Standard(2027, 2, 29, Nothing, 0), Standard(2027, 13, 1, Nothing, 0),
          Standard(2026, 5, 29, H24(23, 0), -90), Standard(2026, 5, 29, H24(0, 10), 60)}
    \cup {[form |-> "other"]}

Tomorrow == [form |-> "keyword", word |-> "tomorrow"]
AtNine == [form |-> "time", clock |-> Am(9, 0)]
InAnHour == [form |-> "in", n |-> 1, unit |-> "hour"]
Exactly == Standard(2026, 5, 29, H24(17, 0), 0)
EmptyText == [form |-> "empty"]
BlankText == [form |-> "blank"]

Call(tool, id, args) == [tool |-> tool, ids |-> {id}, args |-> args]

DateCalls == {Call("update_event", "e1", [startDate |-> text]) : text \in Texts}

(* Recurrence rules: two that stand, the first with an end given twice, and  *)
(* five that are refused.                                                    *)
Rule(frequency, interval, only, end) ==
    [frequency |-> frequency, interval |-> interval, only |-> Lists(only), end |-> end]
LastMonday == [day |-> 2, week |-> -1]
NextYear == [date |-> Moment(2029, 1, 1, 0, 0), count |-> 3]
InMonths == Rule(Monthly, 2, [daysOfTheWeek |-> <<LastMonday>>], NextYear)
Thrice == Rule(Daily, 1, <<>>, [date |-> Null, count |-> 3])
Invalid == {Rule(Daily, 0, <<>>, Null), Rule(Daily, 1, [daysOfTheWeek |-> <<LastMonday>>], Null),
            Rule(Weekly, 1, [daysOfTheMonth |-> <<31>>], Null), Rule(Yearly, 1, [setPositions |-> <<1>>], Null),
            Rule(Daily, 1, <<>>, [date |-> Null, count |-> 0])}

(* What the agent may go on with. *)
MCFollowUps ==
    {Call("update_event", "e1", [title |-> "", notes |-> "new", startDate |-> EmptyText, endDate |-> Tomorrow]),
     Call("patch_event", "e1", [title |-> "patched", notes |-> "", recurrenceRules |-> <<InMonths>>]),
     Call("delete_event", "e1", <<>>),
     Call("patch_reminder", "r1", [alarms |-> <<[at |-> Null, before |-> 15]>>, notes |-> ""])}

EventCalls ==
    {Call("patch_event", "e1", [recurrenceRules |-> <<Thrice, rule>>]) : rule \in Invalid} \cup
    {Call("update_event", "e1", [title |-> "new", timeZone |-> "nowhere", endDate |-> BlankText]),
     Call("update_event", "e1", [calendar |-> "new", timeZone |-> "here"]),
     Call("patch_event", "e1", [recurrenceRules |-> <<>>]),
     [tool |-> "delete_event", ids |-> {}, args |-> <<>>],
     [tool |-> "batch_delete_events", ids |-> {"e1", "e2", "r1", "n1"}, args |-> <<>>],
     Call("create_event", "none", [title |-> "", calendar |-> "one", notes |-> "", startDate |-> AtNine,
                                   endDate |-> Exactly]),
     Call("create_event", "none", [title |-> "new", calendar |-> "one", timeZone |-> "here",
                                   startDate |-> AtNine, endDate |-> BlankText])}

ReminderCalls ==
    {Call("update_reminder", "r1", [dueDate |-> AtNine, clearDueDate |-> TRUE, notes |-> ""]),
     Call("update_reminder", "r1", [dueDate |-> InAnHour, clearDueDate |-> FALSE]),
     Call("update_reminder", "r1", [remindMeDate |-> Tomorrow, flagged |-> TRUE]),
     Call("update_reminder", "r1", [remindMeDate |-> Exactly, priority |-> 9, completed |-> TRUE]),
     Call("update_reminder", "r1", [title |-> "new", list |-> "new", dueDate |-> BlankText]),
     Call("patch_reminder", "r1", [title |-> "patched", priority |-> 5, recurrenceRules |-> <<Thrice, InMonths>>]),
     Call("complete_reminder", "r1", <<>>), Call("uncomplete_reminder", "r1", <<>>),
     Call("delete_reminder", "r1", <<>>),
     [tool |-> "batch_delete_reminders", ids |-> {"r1", "n1"}, args |-> <<>>],
     Call("create_reminder", "none", [title |-> "new", list |-> "one", notes |-> "new", dueDate |-> BlankText,
                                      remindMeDate |-> InAnHour, priority |-> 0, flagged |-> TRUE])}

MCCalls == DateCalls \cup EventCalls \cup ReminderCalls \cup MCFollowUps

MCExisting ==
    [id \in {"e1", "e2", "r1"} |->
        IF id \in {"e1", "e2"}
        THEN [kind |-> "event", title |-> "old", calendar |-> "one", startDate |-> Moment(2026, 6, 1, 8, 0),
              endDate |-> Moment(2026, 6, 1, 9, 0), notes |-> "old", timeZone |-> "",
              recurrenceRules |-> <<Rule(Yearly, 1, [monthsOfTheYear |-> <<6>>], Null)>>]
        ELSE [kind |-> "reminder", title |-> "old", list |-> "one", notes |-> "old",
              dueDate |-> Moment(2026, 6, 1, 8, 0),
              alarms |-> <<Absolute(Moment(2026, 6, 1, 7, 0)), [at |-> Null, before |-> 15]>>,
              priority |-> 1, completed |-> FALSE, flagged |-> FALSE,
              recurrenceRules |-> <<>>]]
=============================================================================
