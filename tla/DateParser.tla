----------------------------- MODULE DateParser -----------------------------
(***************************************************************************)
(* dateparser.ParseDateRelativeTo: a text is a record of what its words    *)
(* say, with the form that a pattern of the parser recognises.  The        *)
(* parsers are asked in order, and the first that does not refuse decides: *)
(* some texts two of them know.                                            *)
(***************************************************************************)
EXTENDS CivilTime, Sequences, FiniteSetsExt

CONSTANT NoDate   \* an error instead of a date
ASSUME NoDateIsNone == NoDate \notin Int
NoTime == -1

(* A time of day as written: "3:30pm", "17:00"; "3pm" has no minutes.        *)
(* Halves: "am", "pm", "24h", "none" (nothing written), "other" (no time).   *)
Nothing == [h |-> 0, m |-> 0, half |-> "none"]
Rubbish == [h |-> 0, m |-> 0, half |-> "other"]
WrittenTime == [h : Nat, m : Nat, half : {"am", "pm", "24h"}]
ClockText == {Nothing, Rubbish} \cup WrittenTime

(* The texts, by the form in which a pattern knows them.  Zones are written  *)
(* behind 24 hour times only; a larger number of hours overflows a Duration. *)
BaseDays == {"today", "tomorrow", "yesterday"}
MostUnits == 2562047
Years == 0..9999              \* four digits, as the layouts take them
YearsGiven == 1000..9999      \* a number behind a month that is taken for a year
StandardText ==
    [form : {"standard"}, y : Years, m : Nat, d : Nat, clock : ClockText, east : {0}]
    \cup [form : {"standard"}, y : Years, m : Nat, d : Nat, clock : [h : Nat, m : Nat, half : {"24h"}],
          east : Int]
KeywordText ==
    [form : {"keyword"}, word : BaseDays \cup {"now", "eod", "eow", "this week", "next week", "next month"}]
ShiftText == [form : {"in", "ago"}, n : 0..MostUnits, unit : {"minute", "hour", "day", "week", "month"}]
WeekdayText == [form : {"next", "weekday"}, weekday : 0..6, clock : ClockText]
BaseText == [form : {"base"}, word : BaseDays, clock : ClockText]
MonthDayText ==
    [form : {"monthday"}, month : 1..12, d : Nat, year : Nat, clock : ClockText, written : {"freely"}]
    \cup [form : {"monthday"}, month : 1..12, d : Nat, year : Years, clock : {Nothing}, written : {"2 Jan 2006"}]
TimeText == [form : {"time"}, clock : ClockText]
OtherText == [form : {"empty", "blank", "other"}]
DateText == StandardText \cup KeywordText \cup ShiftText \cup WeekdayText
            \cup BaseText \cup MonthDayText \cup TimeText \cup OtherText

(* parseTimeStr: minutes after am or pm are not checked.                     *)
HourOfDay(c) == (c.h % 12) + (IF c.half = "pm" THEN 12 ELSE 0)
ParseTimeStr(c) ==
    CASE c.half \in {"am", "pm"} -> IF c.h \in 1..12 THEN 60 * HourOfDay(c) + c.m ELSE NoTime
      [] c.half = "24h" -> IF c.h <= 23 /\ c.m <= 59 THEN 60 * c.h + c.m ELSE NoTime
      [] OTHER -> NoTime

(* What the layouts of the time package make of it: 0am and 0pm are times.   *)
LayoutTime(c) ==
    CASE c.half = "none" -> 0
      [] c.half \in {"am", "pm"} -> IF c.h <= 12 /\ c.m <= 59 THEN 60 * HourOfDay(c) + c.m ELSE NoTime
      [] c.half = "24h" -> IF c.h <= 23 /\ c.m <= 59 THEN 60 * c.h + c.m ELSE NoTime
      [] OTHER -> NoTime

TodayAt(t, minutes) == At(DayOf(t), minutes)

(* Mutant of NextWeekdayAt: today counts. *)
NextWeekdayAtToday(now, target, minutes) ==
    LET ahead == target - Weekday(DayOf(now))
    IN  At(DayOf(now) + (IF ahead < 0 THEN ahead + 7 ELSE ahead), minutes)

NextWeekdayAt(now, target, minutes) ==
    LET ahead == target - Weekday(DayOf(now))
    IN  At(DayOf(now) + (IF ahead <= 0 THEN ahead + 7 ELSE ahead), minutes)

-----------------------------------------------------------------------------
(* [form |-> "standard", y, m, d, clock, east]: east is how far the zone     *)
(* written is ahead of the local one.  A month day may be one too: the day   *)
(* first, the month in three letters, a year of four digits, and no more.    *)
ValidDay(text) == text.m \in 1..12 /\ text.d \in 1..DaysIn(text.y, text.m)
AsLayout(text) == text.written = "2 Jan 2006" /\ text.d \in 1..DaysIn(text.year, text.month)

TryStandardFormats(text) ==
    CASE text.form = "standard" ->
            IF ValidDay(text) /\ LayoutTime(text.clock) # NoTime
            THEN At(DayNumber(text.y, text.m, text.d), LayoutTime(text.clock)) - text.east
            ELSE NoDate
      [] text.form = "monthday" ->
            IF AsLayout(text) THEN At(DayNumber(text.year, text.month, text.d), 0) ELSE NoDate
      [] OTHER -> NoDate

ParseDateTimeParts(text) ==
    IF text.form = "standard" /\ text.east = 0 /\ ValidDay(text) /\ ParseTimeStr(text.clock) # NoTime
    THEN At(DayNumber(text.y, text.m, text.d), ParseTimeStr(text.clock))
    ELSE NoDate

(* [form |-> "keyword", word]; eow and end of week skip a Friday on demand.  *)
Keyword(text, now, cfg) ==
    IF text.form # "keyword" THEN NoDate
    ELSE LET today == DayOf(now)
             morning == 60 * cfg.defaultHour
             toFriday == (Friday - Weekday(today)) % 7
             toSunday == (7 - Weekday(today)) % 7
         IN  CASE text.word = "today" -> At(today, morning)
               [] text.word = "tomorrow" -> At(today + 1, morning)
               [] text.word = "yesterday" -> At(today - 1, morning)
               [] text.word = "now" -> now
               [] text.word = "eod" -> At(today, 17 * 60)
               [] text.word = "eow" ->
                    At(today + (IF toFriday = 0 /\ cfg.eowSkipToday THEN 7 ELSE toFriday), 17 * 60)
               [] text.word = "this week" -> At(today + toSunday, 23 * 60 + 59)
               [] text.word = "next week" -> NextWeekdayAt(now, Monday, morning)
               [] text.word = "next month" -> At(DayNumber(Year(today), Month(today) + 1, 1), morning)

(* [form |-> "in" or "ago", n, unit]                                         *)
Shifted(now, n, unit) ==
    CASE unit = "minute" -> now + n
      [] unit = "hour" -> now + 60 * n
      [] unit = "day" -> AddDays(now, n)
      [] unit = "week" -> AddDays(now, 7 * n)
      [] unit = "month" -> AddMonths(now, n)
ParseRelative(text, now) == IF text.form = "in" THEN Shifted(now, text.n, text.unit) ELSE NoDate
ParseAgo(text, now) == IF text.form = "ago" THEN Shifted(now, -text.n, text.unit) ELSE NoDate

(* [form |-> "next", weekday, clock]: a time that is none is passed over.    *)
ParseNextWeekday(text, now, cfg) ==
    IF text.form # "next" THEN NoDate
    ELSE LET time == ParseTimeStr(text.clock)
         IN  NextWeekdayAt(now, text.weekday, IF time = NoTime THEN 60 * cfg.defaultHour ELSE time)

(* [form |-> "base", word, clock]: "tomorrow at 3:30pm"                      *)
ResolveBaseDate(word, now) ==
    AddDays(now, CASE word = "today" -> 0 [] word = "tomorrow" -> 1 [] word = "yesterday" -> -1)
ParseDateWithTime(text, now) ==
    IF text.form = "base" /\ ParseTimeStr(text.clock) # NoTime
    THEN TodayAt(ResolveBaseDate(text.word, now), ParseTimeStr(text.clock))
    ELSE NoDate

(* [form |-> "weekday", weekday, clock]: with a time, and then without.      *)
ParseWeekdayWithTime(text, now) ==
    IF text.form = "weekday" /\ ParseTimeStr(text.clock) # NoTime
    THEN NextWeekdayAt(now, text.weekday, ParseTimeStr(text.clock))
    ELSE NoDate
StandaloneWeekday(text, now, cfg) ==
    IF text.form = "weekday" /\ text.clock = Nothing
    THEN NextWeekdayAt(now, text.weekday, 60 * cfg.defaultHour)
    ELSE NoDate

(* [form |-> "monthday", month, d, year, clock, written], year 0 when there  *)
(* is none.  What follows the day and is neither a year of four digits nor   *)
(* a time is passed over, and a time behind such a number with it.           *)
ParseMonthDay(text, now, cfg) ==
    IF text.form # "monthday" THEN NoDate
    ELSE LET yearGiven == text.year \in YearsGiven
             y == IF yearGiven THEN text.year ELSE Year(DayOf(now))
             time == IF yearGiven \/ text.year = 0 THEN ParseTimeStr(text.clock) ELSE NoTime
         IN  IF text.d \notin 1..DaysIn(y, text.month) THEN NoDate
             ELSE At(DayNumber(y, text.month, text.d),
                     IF time = NoTime THEN 60 * cfg.defaultHour ELSE time)

(* [form |-> "time", clock]: "5pm"                                           *)
ParseTimeOnly(text, now, cfg) ==
    IF text.form # "time" \/ ParseTimeStr(text.clock) = NoTime THEN NoDate
    ELSE LET t == TodayAt(now, ParseTimeStr(text.clock))
         IN  IF cfg.smartTimeRollover /\ t < now THEN AddDays(t, 1) ELSE t

(* The parsers in the order in which they are asked, which counts for the    *)
(* month days that are in a layout; [form |-> "blank"] and [form |-> "other"] *)
(* are refused by all.                                                       *)
Attempts(text, now, cfg) ==
    << TryStandardFormats(text), Keyword(text, now, cfg), ParseRelative(text, now),
       ParseAgo(text, now), ParseNextWeekday(text, now, cfg), ParseDateWithTime(text, now),
       ParseWeekdayWithTime(text, now), ParseMonthDay(text, now, cfg),
       StandaloneWeekday(text, now, cfg), ParseTimeOnly(text, now, cfg), ParseDateTimeParts(text) >>

ParseDateRelativeTo(text, now, cfg) ==
    LET attempts == Attempts(text, now, cfg)
        hits == {k \in DOMAIN attempts : attempts[k] # NoDate}
    IN  IF hits = {} THEN NoDate ELSE attempts[Min(hits)]

(* dateParseOpts of the MCP tools.                                           *)
ToolOpts == [defaultHour |-> 9, smartTimeRollover |-> TRUE, eowSkipToday |-> FALSE]
=============================================================================
