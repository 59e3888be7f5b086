-------------------------- MODULE MCScopedCalendar --------------------------
(***************************************************************************)
(* Two calendars whose accounts, and whose possible titles, differ only in *)
(* case; two events and a handle that is a prefix of both; two policies    *)
(* that disagree about each calendar, and one that allows everything.      *)
(***************************************************************************)
EXTENDS ScopedCalendar

CONSTANTS c1, c2, e1, e2, h, tA, ta, aA, aa, ReadCalls, WriteCalls, BatchCalls

MCCalendars == {c1, c2}
MCEvents == {e1, e2}
MCHandles == {e1, e2, h}
MCTitles == {tA, ta}
MCAccounts == {aA, aa}
MCSourceOf == [c \in MCCalendars |-> IF c = c1 THEN aA ELSE aa]
MCImmutable == {c2}
MCLower == [x \in MCTitles \cup MCAccounts |-> IF x \in MCTitles THEN ta ELSE aa]
MCPrefixOf == [x \in MCHandles |-> IF x = h THEN MCEvents ELSE {x}]

IdRule(c, m) == [id |-> c, source |-> None, mode |-> m]
SourceRule(s, m) == [id |-> None, source |-> s, mode |-> m]
MCPolicies ==
    { [default |-> ModeDeny, entries |-> <<IdRule(c1, ModeReadWrite)>>],
      [default |-> ModeRead, entries |-> <<SourceRule(aa, ModeReadWrite), IdRule(c1, ModeDeny)>>],
      [default |-> ModeReadWrite, entries |-> <<>>] }

A(op, items, title, source) == [op |-> op, items |-> items, title |-> title, source |-> source]

MCReads ==
    { A("Calendars", {}, None, None), A("Events", {}, None, None), A("Calendar", {c1}, None, None),
      A("Event", {e1}, None, None), A("Event", {h}, None, None) }
MCWrites ==
    { A("CreateEvent", {}, tA, None), A("CreateEvent", {}, None, None),
      A("UpdateEvent", {e1}, None, None), A("UpdateEvent", {e1}, tA, None), A("UpdateEvent", {h}, tA, None),
      A("DeleteEvent", {e1}, None, None), A("DeleteEvent", {h}, None, None),
      A("CreateCalendar", {}, None, aa), A("CreateCalendar", {}, None, None),
      A("UpdateCalendar", {c1}, tA, None), A("UpdateCalendar", {c2}, None, None),
      A("DeleteCalendar", {c1}, None, None), A("DeleteCalendar", {c2}, None, None) }
MCBatches ==
    { A("DeleteEvents", {e1, e2}, None, None), A("DeleteEvents", {e1, h}, None, None) }
MCCalls ==
    (IF ReadCalls THEN MCReads ELSE {}) \cup (IF WriteCalls THEN MCWrites ELSE {})
    \cup (IF BatchCalls THEN MCBatches ELSE {})
=============================================================================
