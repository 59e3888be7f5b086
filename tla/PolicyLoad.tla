----------------------------- MODULE PolicyLoad -----------------------------
(***************************************************************************)
(* How server/policy turns what an operator wrote into a policy: parseMode *)
(* on the words, buildPackage on the entries, Load on the document.        *)
(***************************************************************************)
EXTENDS Policy

(* A word for a mode; the empty one stands for a key that was left out.      *)
Words == {"", "deny", "read", "readwrite", "read_write", "rw", "write"}
RawEntry == [id : Ids \cup {None}, list_id : Ids \cup {None},
             source : Sources \cup {None}, mode : Words]
RawPackage == [default : Words, allow : Seq(RawEntry)]
RawPolicy == [calendar : RawPackage, reminders : RawPackage]

NoMode == -1   \* parseMode returned an error

(* Mutant of ParseMode: a mode that was left out lets everybody read. *)
ParseModeOpen(s) ==
    CASE s = "deny" -> ModeDeny
      [] s \in {"", "read"} -> ModeRead
      [] s \in {"readwrite", "read_write", "rw"} -> ModeReadWrite
      [] OTHER -> NoMode

ParseMode(s) ==
    CASE s \in {"deny", ""} -> ModeDeny
      [] s = "read" -> ModeRead
      [] s \in {"readwrite", "read_write", "rw"} -> ModeReadWrite
      [] OTHER -> NoMode

(* Calendars are named by id, lists by list_id; the other key is an error.   *)
NameIn(e, useListID) == IF useListID THEN e.list_id ELSE e.id
WrongKey(e, useListID) == (IF useListID THEN e.id ELSE e.list_id) # None

ValidEntry(e, useListID) ==
    /\ ParseMode(e.mode) # NoMode
    /\ ~WrongKey(e, useListID)
    /\ (NameIn(e, useListID) = None) # (e.source = None)

ValidPackage(p, useListID) ==
    /\ ParseMode(p.default) # NoMode
    /\ \A k \in DOMAIN p.allow : ValidEntry(p.allow[k], useListID)

BuildPackage(p, useListID) ==
    [default |-> ParseMode(p.default),
     entries |-> [k \in DOMAIN p.allow |->
        [id |-> NameIn(p.allow[k], useListID), source |-> p.allow[k].source,
         mode |-> ParseMode(p.allow[k].mode)]]]

(* Load: both packages, or an error and nothing.                             *)
Valid(d) == ValidPackage(d.calendar, FALSE) /\ ValidPackage(d.reminders, TRUE)
Build(d) == [Calendar |-> BuildPackage(d.calendar, FALSE),
             Reminders |-> BuildPackage(d.reminders, TRUE)]

DenyAll == [Calendar |-> [default |-> ModeDeny, entries |-> <<>>],
            Reminders |-> [default |-> ModeDeny, entries |-> <<>>]]

(* defaultPolicy: deny-all, but for the default target if there is one.      *)
Only(id) ==
    [default |-> ModeDeny,
     entries |-> IF id = None THEN <<>>
                 ELSE <<[id |-> id, source |-> None, mode |-> ModeReadWrite]>>]
DefaultPolicy(cal, list) == [Calendar |-> Only(cal), Reminders |-> Only(list)]
=============================================================================
