---------------------------- MODULE CalendarStore ----------------------------
(***************************************************************************)
(* The EventKit calendar database as the bridge in calendar/bridge_darwin  *)
(* sees it: which calendars exist under which title, and which event lives *)
(* in which calendar.  Every write commits on its own (commit:YES) and the *)
(* bridge's writes are serialized on one dispatch queue, so each is one    *)
(* atomic change; the reads run outside that queue.                        *)
(***************************************************************************)
EXTENDS FiniteSets

CONSTANTS
    Calendars,   \* calendar identifiers that exist or may come to exist
    Events,      \* event identifiers, likewise
    Handles,     \* the ids a client may send: event identifiers and prefixes
    Titles,      \* calendar titles
    Accounts,    \* names of the accounts (EKSource titles)
    SourceOf,    \* the account a calendar belongs to; it never changes
    Immutable,   \* calendars EventKit refuses to rename or delete
    Lower,       \* lowercaseString on titles and account names
    PrefixOf,    \* the event identifiers a handle is a prefix of
    Unborn, Gone \* an identifier not yet minted, or deleted for good

ASSUME StoreConstants ==
    /\ SourceOf \in [Calendars -> Accounts]
    /\ Immutable \subseteq Calendars
    /\ Lower \in [Titles \cup Accounts -> Titles \cup Accounts]
    /\ PrefixOf \in [Handles -> SUBSET Events]
    /\ Events \subseteq Handles /\ \A e \in Events : PrefixOf[e] = {e}
    /\ Unborn # Gone
    /\ {Unborn, Gone} \cap (Titles \cup Calendars) = {}

VARIABLES
    calendars,   \* calendars[c]: the title of c, or Unborn, or Gone
    events       \* events[e]: the calendar e lives in, or Unborn, or Gone

storeVars == <<calendars, events>>

StoreTypeOK ==
    /\ calendars \in [Calendars -> Titles \cup {Unborn, Gone}]
    /\ events \in [Events -> Calendars \cup {Unborn, Gone}]

Live == {c \in Calendars : calendars[c] \in Titles}
Present == {e \in Events : events[e] \in Calendars}

(* find_calendar_by_name: the first calendar, in EventKit's unspecified      *)
(* order, whose title is equal when case is ignored.                         *)
NamedLike(t) == {c \in Live : Lower[calendars[c]] = Lower[t]}

(* ek_cal_get_event: the exact identifier, else any event it is a prefix of. *)
Matches(h) == IF h \in Present THEN {h} ELSE PrefixOf[h] \cap Present

(* saveEvent of a new event in calendar c. *)
AddEvent(e, c) ==
    /\ events[e] = Unborn
    /\ events' = [events EXCEPT ![e] = c]
    /\ UNCHANGED calendars

(* saveEvent of an existing event, which may have moved to calendar c. *)
PutEvent(e, c) ==
    /\ e \in Present
    /\ events' = [events EXCEPT ![e] = c]
    /\ UNCHANGED calendars

(* removeEvent, for each member of S. *)
RemoveEvents(S) ==
    /\ events' = [e \in Events |-> IF e \in S THEN Gone ELSE events[e]]
    /\ UNCHANGED calendars

AddCalendar(c, t) ==
    /\ calendars[c] = Unborn
    /\ calendars' = [calendars EXCEPT ![c] = t]
    /\ UNCHANGED events

Retitle(c, t) ==
    /\ c \in Live
    /\ calendars' = [calendars EXCEPT ![c] = t]
    /\ UNCHANGED events

(* removeCalendar deletes the calendar and all its events. *)
RemoveCalendar(c) ==
    /\ c \in Live
    /\ calendars' = [calendars EXCEPT ![c] = Gone]
    /\ events' = [e \in Events |-> IF events[e] = c THEN Gone ELSE events[e]]

(* What Calendar.app, iCloud sync or another program may do at any time. *)
ExternalEdit ==
    \/ \E e \in Events, c \in Live : AddEvent(e, c)
    \/ \E e \in Events, c \in Live : events[e] # c /\ PutEvent(e, c)
    \/ \E e \in Present : RemoveEvents({e})
    \/ \E c \in Calendars, t \in Titles : AddCalendar(c, t)
    \/ \E c \in Live, t \in Titles : calendars[c] # t /\ Retitle(c, t)
    \/ \E c \in Live : RemoveCalendar(c)
=============================================================================
