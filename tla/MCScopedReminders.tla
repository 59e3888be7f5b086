------------------------- MODULE MCScopedReminders -------------------------
(***************************************************************************)
(* Two lists whose accounts, and whose possible titles, differ only in     *)
(* case; two reminders and a handle that is a prefix of both; two policies *)
(* that disagree about each list and one that allows everything.           *)
(***************************************************************************)
EXTENDS ScopedReminders

CONSTANTS l1, l2, m1, m2, h, tA, ta, aA, aa

MCLists == {l1, l2}
MCReminders == {m1, m2}
MCHandles == {m1, m2, h}
MCTitles == {tA, ta}
MCAccounts == {aA, aa}
MCSourceOf == [l \in MCLists |-> IF l = l1 THEN aA ELSE aa]
MCImmutable == {l2}
MCLower == [x \in MCTitles \cup MCAccounts |-> IF x \in MCTitles THEN ta ELSE aa]
MCPrefixOf == [x \in MCHandles |-> IF x = h THEN MCReminders ELSE {x}]

IdRule(l, m) == [id |-> l, source |-> None, mode |-> m]
SourceRule(s, m) == [id |-> None, source |-> s, mode |-> m]
MCPolicies ==
    { [default |-> ModeDeny, entries |-> <<IdRule(l1, ModeReadWrite)>>],
      [default |-> ModeRead, entries |-> <<SourceRule(aa, ModeReadWrite), IdRule(l1, ModeRead)>>],
      [default |-> ModeReadWrite, entries |-> <<>>] }

A(op, items, title, source) == [op |-> op, items |-> items, title |-> title, source |-> source]

MCCalls ==
    { A("Lists", {}, None, None), A("Reminders", {}, None, None), A("Reminders", {}, tA, None),
      A("List", {l1}, None, None), A("Reminder", {m1}, None, None), A("Reminder", {h}, None, None),
      A("CreateReminder", {}, tA, None), A("CreateReminder", {}, None, None),
      A("UpdateReminder", {m1}, None, None), A("UpdateReminder", {m1}, tA, None),
      A("UpdateReminder", {h}, tA, None),
      A("DeleteReminder", {m1}, None, None), A("ChangeStatus", {m1}, None, None),
      A("ChangeStatus", {h}, None, None), A("DeleteReminders", {m1, h}, None, None),
      A("CreateList", {}, None, aa), A("CreateList", {}, None, None),
      A("UpdateList", {l1}, tA, None), A("UpdateList", {l2}, None, None),
      A("DeleteList", {l1}, None, None), A("DeleteList", {l2}, None, None) }
=============================================================================
