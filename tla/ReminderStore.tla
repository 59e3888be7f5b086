---------------------------- MODULE ReminderStore ----------------------------
(***************************************************************************)
(* The EventKit reminders database as reminders/bridge_darwin sees it:     *)
(* which lists exist under which title, and which reminder is in which     *)
(* list.  As in CalendarStore each write commits by itself and the writes  *)
(* share one dispatch queue.  Unlike there, a write finds its reminder by  *)
(* the id or prefix anew.  The fields of a reminder, its completion among  *)
(* them, are left out: changing one is a save that leaves it where it is.  *)
(***************************************************************************)
EXTENDS FiniteSets

CONSTANTS
    Lists, Reminders, \* identifiers that exist or may come to exist
    Handles,          \* the ids a client may send: reminder identifiers and prefixes
    Titles, Accounts, \* of lists; an account is the title of an EKSource
    SourceOf,         \* the account a list belongs to
    Immutable,        \* lists EventKit refuses to rename or delete
    Lower,            \* lowercaseString on titles and account names
    PrefixOf,         \* the reminder identifiers a handle is a prefix of
    Unborn, Gone      \* an identifier not yet minted, or deleted for good

ASSUME ReminderConstants ==
    /\ SourceOf \in [Lists -> Accounts]
    /\ Immutable \subseteq Lists
    /\ Lower \in [Titles \cup Accounts -> Titles \cup Accounts]
    /\ PrefixOf \in [Handles -> SUBSET Reminders]
    /\ Reminders \subseteq Handles /\ \A m \in Reminders : PrefixOf[m] = {m}
    /\ Unborn # Gone
    /\ {Unborn, Gone} \cap (Titles \cup Lists) = {}

VARIABLES
    lists,       \* lists[l]: the title of l, or Unborn, or Gone
    reminders    \* reminders[m]: the list m is in, or Unborn, or Gone

storeVars == <<lists, reminders>>

StoreTypeOK ==
    /\ lists \in [Lists -> Titles \cup {Unborn, Gone}]
    /\ reminders \in [Reminders -> Lists \cup {Unborn, Gone}]

Live == {l \in Lists : lists[l] \in Titles}
Present == {m \in Reminders : reminders[m] \in Lists}

(* find_list_by_name: the first list, in no promised order, whose title is   *)
(* equal when case is ignored.                                               *)
NamedLike(t) == {l \in Live : Lower[lists[l]] = Lower[t]}

(* find_reminder_by_id and resolve_reminder_for_write: the exact identifier, *)
(* else the first reminder fetched that has the prefix.                      *)
Matching(h) == PrefixOf[h] \cap Present

(* saveReminder of a new reminder, or of one that may have moved. *)
AddReminder(m, l) == reminders[m] = Unborn /\ reminders' = [reminders EXCEPT ![m] = l] /\ UNCHANGED lists
PutReminder(m, l) == m \in Present /\ reminders' = [reminders EXCEPT ![m] = l] /\ UNCHANGED lists
RemoveReminder(m) == m \in Present /\ reminders' = [reminders EXCEPT ![m] = Gone] /\ UNCHANGED lists

AddList(l, t) == lists[l] = Unborn /\ lists' = [lists EXCEPT ![l] = t] /\ UNCHANGED reminders
Retitle(l, t) == l \in Live /\ lists' = [lists EXCEPT ![l] = t] /\ UNCHANGED reminders

(* removeCalendar deletes the list and all its reminders. *)
RemoveList(l) ==
    /\ l \in Live
    /\ lists' = [lists EXCEPT ![l] = Gone]
    /\ reminders' = [m \in Reminders |-> IF reminders[m] = l THEN Gone ELSE reminders[m]]

(* What Reminders.app, iCloud sync or another program may do at any time. *)
ExternalEdit ==
    \/ \E m \in Reminders, l \in Live : AddReminder(m, l) \/ (reminders[m] # l /\ PutReminder(m, l))
    \/ \E m \in Reminders : RemoveReminder(m)
    \/ \E l \in Lists, t \in Titles : AddList(l, t) \/ (lists[l] # t /\ Retitle(l, t))
    \/ \E l \in Lists : RemoveList(l)
=============================================================================
