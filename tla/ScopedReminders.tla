-------------------------- MODULE ScopedReminders --------------------------
(***************************************************************************)
(* ScopedReminders of server/scoped: the policy on lists and reminders.    *)
(* As in ScopedCalendar a method is a sequence of bridge calls and loads   *)
(* of the policy pointer that others may run between.  Here the bridge     *)
(* resolves an id prefix again when it writes, a status change is not      *)
(* checked on its way out, and a reminder that is missing when the write   *)
(* comes is a plain error.                                                 *)
(***************************************************************************)
EXTENDS ReminderStore, Integers

CONSTANTS
    Requests,   \* the calls in flight
    Calls,      \* the calls a request may make: [op, items, title, source]
    Policies,   \* the allowlists an operator may load
    None,       \* an absent list, title or source
    MaxChanges  \* bound: policy reloads and changes by other programs

INSTANCE Policy WITH Ids <- Lists, Sources <- Accounts

Items == Handles \cup Lists

OneReminderOps == {"Reminder", "UpdateReminder", "DeleteReminder", "ChangeStatus"}
ReminderOps == OneReminderOps \cup {"DeleteReminders"}
OneListOps == {"List", "UpdateList", "DeleteList"}
ListingOps == {"Lists", "Reminders"}
TargetOps == {"CreateReminder", "CreateList"}
Ops == ReminderOps \cup OneListOps \cup ListingOps \cup TargetOps

Call == [op : Ops, items : SUBSET Items, title : Titles \cup {None},
         source : Accounts \cup {None}]

(* A method on one reminder or list names it; a batch names at least one. *)
WellFormed(c) ==
    /\ c \in Call
    /\ c.op \in OneReminderOps => \E h \in Handles : c.items = {h}
    /\ c.op = "DeleteReminders" => c.items \subseteq Handles /\ c.items # {}
    /\ c.op \in OneListOps => \E l \in Lists : c.items = {l}
    /\ c.op \in ListingOps \cup TargetOps => c.items = {}

ASSUME ScopedConstants ==
    /\ \A c \in Calls : WellFormed(c)
    /\ None \notin Titles \cup Lists \cup Accounts \cup {Unborn, Gone}
    /\ MaxChanges \in Nat

VARIABLES
    policy,    \* what the atomic pointer holds
    pc,        \* pc[r]: the step of the method r is about to take
    call,      \* call[r]: method and arguments
    idx,       \* idx[r]: the listIndex, the titles r saw; None if absent
    at,        \* at[r][x]: the list reminder x was in when r fetched it
    res,       \* res[r][x]: what r has decided about item x
    dest,      \* dest[r]: the list the write is meant for
    landed,    \* landed[r]: the list the bridge says it wrote to
    ans,       \* ans[r]: how the method returned
    touched,   \* history: the lists r's writes have changed
    inForce,   \* history: the policies in force since r began
    quiet,     \* history: no one else changed store or policy since then
    changes

locals == <<call, idx, at, res, dest, landed>>
vars == <<lists, reminders, policy, pc, locals, ans, touched, inForce, quiet, changes>>

Refusals == {"denied", "notfound", "target", "immutable"}
Answers == {"none", "ok", "violation", "error"} \cup Refusals
Verdicts == {"none", "todo", "fetched", "pass", "ok", "shown", "hidden", "denied", "failed"}
Steps == {"idle", "index", "fetch", "check", "dest", "source", "write", "removing",
          "reindex", "verify", "list", "filter", "done"}

NoCall == [op |-> "Lists", items |-> {}, title |-> None, source |-> None]

Active(r) == pc[r] \notin {"idle", "done"}
ModeOf(l) == Resolve(policy, l, SourceOf[l])
Readable(p, l) == CanRead(Resolve(p, l, SourceOf[l]))
Writable(p, l) == CanWrite(Resolve(p, l, SourceOf[l]))

(* Mutant of Snapshot: a list no longer there is still an entry. *)
SnapshotRaw == lists

(* Lists(): what an index or a listing reads from the bridge. *)
Snapshot == [l \in Lists |-> IF l \in Live THEN lists[l] ELSE None]

(* modeForListID: a list the index does not know is denied. *)
IndexedRead(r, l) == idx[r][l] # None /\ CanRead(ModeOf(l))
IndexedWrite(r, l) == idx[r][l] # None /\ CanWrite(ModeOf(l))

WithVerdict(r, x, v) == [res[r] EXCEPT ![x] = v]
Having(f, v) == {x \in Items : f[x] = v}

Go(r, step) == pc' = [pc EXCEPT ![r] = step] /\ UNCHANGED ans
Finish(r, a) == pc' = [pc EXCEPT ![r] = "done"] /\ ans' = [ans EXCEPT ![r] = a]
NoWrite == UNCHANGED <<storeVars, policy, touched, inForce, quiet, changes>>

(* A change to the store by r is foreign to every other running call. *)
Wrote(r, S) ==
    /\ touched' = [touched EXCEPT ![r] = touched[r] \cup S]
    /\ quiet' = [q \in Requests |-> quiet[q] /\ (q = r \/ ~Active(q))]
    /\ UNCHANGED <<policy, inForce, changes>>

(* The bridge's write queue: no other write runs inside a batch delete. *)
QueueFree(r) == \A q \in Requests \ {r} : pc[q] # "removing"

Init ==
    /\ lists \in [Lists -> Titles \cup {Unborn}]
    /\ reminders \in [Reminders -> Live \cup {Unborn}]
    /\ policy \in Policies
    /\ pc = [r \in Requests |-> "idle"]
    /\ call = [r \in Requests |-> NoCall]
    /\ idx = [r \in Requests |-> [l \in Lists |-> None]]
    /\ at = [r \in Requests |-> [x \in Items |-> None]]
    /\ res = [r \in Requests |-> [x \in Items |-> "none"]]
    /\ dest = [r \in Requests |-> None]
    /\ landed = [r \in Requests |-> None]
    /\ ans = [r \in Requests |-> "none"]
    /\ touched = [r \in Requests |-> {}]
    /\ inForce = [r \in Requests |-> {}]
    /\ quiet = [r \in Requests |-> TRUE]
    /\ changes = 0

(* A method is entered.  A create without a target is refused at once. *)
Begin(r) ==
    /\ pc[r] = "idle"
    /\ \E c \in Calls :
        /\ call' = [call EXCEPT ![r] = c]
        /\ res' = [res EXCEPT ![r] = [x \in Items |-> IF x \in c.items THEN "todo" ELSE "none"]]
        /\ \/ /\ \/ c.op = "CreateReminder" /\ c.title = None
                 \/ c.op = "CreateList" /\ c.source = None
              /\ Finish(r, "target")
           \/ c.op = "CreateList" /\ c.source # None /\ Go(r, "source")
           \/ c.op = "Reminder" /\ Go(r, "fetch")
           \/ /\ c.op \notin {"CreateList", "Reminder"}
              /\ c.op = "CreateReminder" => c.title # None
              /\ Go(r, "index")
    /\ inForce' = [inForce EXCEPT ![r] = {policy}]
    /\ quiet' = [quiet EXCEPT ![r] = TRUE]
    /\ UNCHANGED <<storeVars, policy, idx, at, dest, landed, touched, changes>>

(* s.index(), or the first read of Lists(). *)
Index(r) ==
    /\ pc[r] = "index"
    /\ idx' = [idx EXCEPT ![r] = Snapshot]
    /\ LET op == call[r].op
       IN  \/ op = "CreateReminder" /\ Go(r, "dest") /\ UNCHANGED res
           \/ op \in ReminderOps \ {"Reminder"} /\ Go(r, "fetch") /\ UNCHANGED res
           \/ op \in OneListOps \cup {"Reminder"} /\ Go(r, "check") /\ UNCHANGED res
           \/ op = "Reminders" /\ Go(r, "list") /\ UNCHANGED res
           \/ /\ op = "Lists"
              /\ res' = [res EXCEPT ![r] = [x \in Items |-> IF x \in Live THEN "todo" ELSE "none"]]
              /\ IF Live = {} THEN Finish(r, "ok") ELSE Go(r, "filter")
    /\ UNCHANGED <<call, at, dest, landed>> /\ NoWrite

(* The bridge fails; in DeleteReminders every id then carries the error. *)
IndexError(r) ==
    /\ pc[r] = "index"
    /\ IF call[r].op = "DeleteReminders"
         THEN /\ Finish(r, "ok")
              /\ res' = [res EXCEPT ![r] = [x \in Items |-> IF x \in call[r].items THEN "failed" ELSE "none"]]
         ELSE Finish(r, "error") /\ UNCHANGED res
    /\ UNCHANGED <<call, idx, at, dest, landed>> /\ NoWrite

(* bridge.Reminder(id).  An update that names another list than the one the *)
(* reminder is in leaves dest open for CheckDest.                           *)
FetchReminder(r, h) ==
    /\ pc[r] = "fetch" /\ res[r][h] = "todo"
    /\ \E m \in Matching(h) :
        LET l == reminders[m]
            t == call[r].title
        IN  /\ at' = [at EXCEPT ![r] = [at[r] EXCEPT ![h] = l]]
            /\ dest' = [dest EXCEPT ![r] = IF t \in {None, lists[l]} THEN l ELSE None]
    /\ res' = [res EXCEPT ![r] = WithVerdict(r, h, "fetched")]
    /\ Go(r, IF call[r].op = "Reminder" THEN "index" ELSE "check")
    /\ UNCHANGED <<call, idx, landed>> /\ NoWrite

(* After one item of a batch: the next fetch, the bridge call or the return. *)
NextItem(r, f) ==
    /\ res' = [res EXCEPT ![r] = f]
    /\ IF Having(f, "todo") # {} THEN Go(r, "fetch")
       ELSE IF Having(f, "pass") # {} THEN Go(r, "write")
       ELSE Finish(r, "ok")

(* No reminder has the id, or EventKit returned nil for all of them: both   *)
(* are ErrNotFound.                                                         *)
FetchFails(r, h) ==
    /\ pc[r] = "fetch" /\ res[r][h] = "todo"
    /\ IF call[r].op = "DeleteReminders" THEN NextItem(r, WithVerdict(r, h, "failed"))
       ELSE Finish(r, "notfound") /\ UNCHANGED res
    /\ UNCHANGED <<call, idx, at, dest, landed>> /\ NoWrite

(* Mutant of CheckReminder: a status change is taken for a read. *)
CheckReminderStatusAsRead(r, h) ==
    /\ pc[r] = "check" /\ call[r].op \in ReminderOps /\ res[r][h] = "fetched"
    /\ LET l == at[r][h]
           op == call[r].op
           needed == IF op = "ChangeStatus" THEN IndexedRead(r, l) ELSE IndexedWrite(r, l)
       IN  \/ /\ op = "Reminder" /\ UNCHANGED res
              /\ IF IndexedRead(r, l) THEN Finish(r, "ok") ELSE Finish(r, "denied")
           \/ /\ op \in OneReminderOps \ {"Reminder"} /\ UNCHANGED res
              /\ IF ~needed THEN Finish(r, "denied")
                 ELSE Go(r, IF op = "UpdateReminder" /\ dest[r] = None THEN "dest" ELSE "write")
           \/ /\ op = "DeleteReminders"
              /\ NextItem(r, WithVerdict(r, h, IF IndexedWrite(r, l) THEN "pass" ELSE "denied"))
    /\ UNCHANGED <<call, idx, at, dest, landed>> /\ NoWrite

(* The check on the list the reminder was fetched from. *)
CheckReminder(r, h) ==
    /\ pc[r] = "check" /\ call[r].op \in ReminderOps /\ res[r][h] = "fetched"
    /\ LET l == at[r][h]
           op == call[r].op
       IN  \/ /\ op = "Reminder" /\ UNCHANGED res
              /\ IF IndexedRead(r, l) THEN Finish(r, "ok") ELSE Finish(r, "denied")
           \/ /\ op \in OneReminderOps \ {"Reminder"} /\ UNCHANGED res
              /\ IF ~IndexedWrite(r, l) THEN Finish(r, "denied")
                 ELSE Go(r, IF op = "UpdateReminder" /\ dest[r] = None THEN "dest" ELSE "write")
           \/ /\ op = "DeleteReminders"
              /\ NextItem(r, WithVerdict(r, h, IF IndexedWrite(r, l) THEN "pass" ELSE "denied"))
    /\ UNCHANGED <<call, idx, at, dest, landed>> /\ NoWrite

(* modeForListName: the exact title; of several lists the index keeps the    *)
(* last the bridge returned, in no promised order.                           *)
CheckDest(r) ==
    /\ pc[r] = "dest"
    /\ LET named == {l \in Lists : idx[r][l] = call[r].title}
       IN  \/ /\ named = {} /\ Finish(r, "denied") /\ UNCHANGED dest
           \/ \E l \in named :
                IF CanWrite(ModeOf(l))
                  THEN Go(r, "write") /\ dest' = [dest EXCEPT ![r] = l]
                  ELSE Finish(r, "denied") /\ UNCHANGED dest
    /\ UNCHANGED <<call, idx, at, res, landed>> /\ NoWrite

(* CreateList: the policy of the source as the client spells it. *)
CheckSource(r) ==
    /\ pc[r] = "source"
    /\ IF CanWrite(Resolve(policy, None, call[r].source)) THEN Go(r, "write") ELSE Finish(r, "denied")
    /\ UNCHANGED locals /\ NoWrite

CheckList(r, l) ==
    /\ pc[r] = "check" /\ call[r].op \in OneListOps /\ l \in call[r].items
    /\ IF idx[r][l] = None THEN Finish(r, "notfound")
       ELSE IF call[r].op = "List"
              THEN IF CanRead(ModeOf(l)) THEN Finish(r, "ok") ELSE Finish(r, "denied")
       ELSE IF CanWrite(ModeOf(l)) THEN Go(r, "write") ELSE Finish(r, "denied")
    /\ UNCHANGED locals /\ NoWrite

(* The save of bridge.CreateReminder, in a list found by name. *)
CreateTheReminder(r) ==
    /\ pc[r] = "write" /\ call[r].op = "CreateReminder" /\ QueueFree(r)
    /\ \E l \in NamedLike(call[r].title), m \in Reminders :
        /\ AddReminder(m, l)
        /\ landed' = [landed EXCEPT ![r] = l]
        /\ Wrote(r, {l})
    /\ Go(r, "reindex")
    /\ UNCHANGED <<call, idx, at, res, dest>>

(* The save of bridge.UpdateReminder, on a reminder found anew. *)
UpdateTheReminder(r, h) ==
    /\ pc[r] = "write" /\ call[r].op = "UpdateReminder" /\ QueueFree(r) /\ h \in call[r].items
    /\ \E m \in Matching(h) :
        \E l \in IF call[r].title = None THEN {reminders[m]} ELSE NamedLike(call[r].title) :
            /\ PutReminder(m, l)
            /\ landed' = [landed EXCEPT ![r] = l]
            /\ Wrote(r, {reminders[m], l})
    /\ Go(r, "reindex")
    /\ UNCHANGED <<call, idx, at, res, dest>>

DeleteTheReminder(r, h) ==
    /\ pc[r] = "write" /\ call[r].op = "DeleteReminder" /\ QueueFree(r) /\ h \in call[r].items
    /\ \E m \in Matching(h) : RemoveReminder(m) /\ Wrote(r, {reminders[m]})
    /\ Finish(r, "ok")
    /\ UNCHANGED locals

(* bridge.CompleteReminder, bridge.UncompleteReminder: the answer is the     *)
(* bridge's, without another check.                                          *)
ChangeTheStatus(r, h) ==
    /\ pc[r] = "write" /\ call[r].op = "ChangeStatus" /\ QueueFree(r) /\ h \in call[r].items
    /\ \E m \in Matching(h) : PutReminder(m, reminders[m]) /\ Wrote(r, {reminders[m]})
    /\ Finish(r, "ok")
    /\ UNCHANGED locals

(* One turn of the batch loop: an id that names no reminder is skipped and  *)
(* keeps the success DeleteReminders marked it with beforehand.             *)
AfterRemoval(r, f) ==
    /\ res' = [res EXCEPT ![r] = f]
    /\ IF Having(f, "pass") # {} THEN Go(r, "removing") ELSE Finish(r, "ok")

(* Mutant of RemoveOne: the bridge's per-id errors are not merged. *)
RemoveOneOptimistic(r, h) ==
    /\ pc[r] \in {"write", "removing"} /\ call[r].op = "DeleteReminders" /\ QueueFree(r)
    /\ res[r][h] = "pass"
    /\ \/ \E m \in Matching(h) : RemoveReminder(m) /\ Wrote(r, {reminders[m]})
       \/ NoWrite
    /\ AfterRemoval(r, WithVerdict(r, h, "ok"))
    /\ UNCHANGED <<call, idx, at, dest, landed>>

RemoveOne(r, h) ==
    /\ pc[r] \in {"write", "removing"} /\ call[r].op = "DeleteReminders" /\ QueueFree(r)
    /\ res[r][h] = "pass"
    /\ \/ /\ \E m \in Matching(h) : RemoveReminder(m) /\ Wrote(r, {reminders[m]})
          /\ AfterRemoval(r, WithVerdict(r, h, "ok"))
       \/ /\ Matching(h) = {} /\ NoWrite
          /\ AfterRemoval(r, WithVerdict(r, h, "ok"))
       \/ /\ Matching(h) # {} /\ NoWrite
          /\ AfterRemoval(r, WithVerdict(r, h, "failed"))
    /\ UNCHANGED <<call, idx, at, dest, landed>>

CreateTheList(r) ==
    /\ pc[r] = "write" /\ call[r].op = "CreateList" /\ QueueFree(r)
    /\ \E l \in Lists, t \in Titles :
        /\ Lower[SourceOf[l]] = Lower[call[r].source]
        /\ AddList(l, t)
        /\ landed' = [landed EXCEPT ![r] = l]
        /\ Wrote(r, {l})
    /\ Go(r, "verify")
    /\ UNCHANGED <<call, idx, at, res, dest>>

UpdateTheList(r, l) ==
    /\ pc[r] = "write" /\ call[r].op = "UpdateList" /\ QueueFree(r)
    /\ l \in (call[r].items \cap Live) \ Immutable
    /\ \E t \in IF call[r].title = None THEN {lists[l]} ELSE {call[r].title} : Retitle(l, t)
    /\ landed' = [landed EXCEPT ![r] = l]
    /\ Wrote(r, {l})
    /\ Go(r, "verify")
    /\ UNCHANGED <<call, idx, at, res, dest>>

DeleteTheList(r, l) ==
    /\ pc[r] = "write" /\ call[r].op = "DeleteList" /\ QueueFree(r)
    /\ l \in (call[r].items \cap Live) \ Immutable
    /\ RemoveList(l) /\ Wrote(r, {l})
    /\ Finish(r, "ok")
    /\ UNCHANGED locals

(* The bridge refuses the write.  Only the calls on lists tell "not found"   *)
(* and "immutable" from other errors.                                        *)
WriteFails(r) ==
    /\ pc[r] = "write" /\ QueueFree(r)
    /\ LET op == call[r].op
           items == call[r].items
       IN  \/ /\ op # "DeleteReminders"
              /\ op \in OneListOps => (items \cap Live) \ Immutable # {}
              /\ Finish(r, "error") /\ UNCHANGED res
           \/ /\ op \in OneListOps /\ items \cap Live = {}
              /\ Finish(r, "notfound") /\ UNCHANGED res
           \/ /\ op \in OneListOps /\ items \cap Live \cap Immutable # {}
              /\ Finish(r, "immutable") /\ UNCHANGED res
           \/ /\ op = "DeleteReminders"
              /\ Finish(r, "ok")
              /\ res' = [res EXCEPT ![r] = [x \in Items |->
                            IF res[r][x] = "pass" THEN "failed" ELSE res[r][x]]]
    /\ UNCHANGED <<call, idx, at, dest, landed>> /\ NoWrite

(* idx2 of CreateReminder and UpdateReminder: its error is returned although *)
(* the reminder has been saved.                                              *)
Reindex(r) ==
    /\ pc[r] = "reindex"
    /\ \/ idx' = [idx EXCEPT ![r] = Snapshot] /\ Go(r, "verify")
       \/ UNCHANGED idx /\ Finish(r, "error")
    /\ UNCHANGED <<call, at, res, dest, landed>> /\ NoWrite

(* Mutants of Verify: the list is checked but not its mode; the violation    *)
(* is answered as a denial.                                                  *)
VerifyListOnly(r) ==
    /\ pc[r] = "verify"
    /\ IF dest[r] \in {None, landed[r]} THEN Finish(r, "ok") ELSE Finish(r, "violation")
    /\ UNCHANGED locals /\ NoWrite

VerifyDenying(r) ==
    /\ pc[r] = "verify"
    /\ IF CanWrite(ModeOf(landed[r])) THEN Finish(r, "ok") ELSE Finish(r, "denied")
    /\ UNCHANGED locals /\ NoWrite

(* The check on the way out. *)
Verify(r) ==
    /\ pc[r] = "verify"
    /\ LET l == landed[r]
           inScope == IF call[r].op \in {"CreateReminder", "UpdateReminder"}
                        THEN l = dest[r] /\ IndexedWrite(r, l)
                        ELSE CanWrite(ModeOf(l))
       IN  IF inScope THEN Finish(r, "ok") ELSE Finish(r, "violation")
    /\ UNCHANGED locals /\ NoWrite

(* bridge.Reminders(opts): those of the lists with the title asked for, if   *)
(* one is; no such list is an error.                                         *)
ListReminders(r) ==
    /\ pc[r] = "list"
    /\ LET in == IF call[r].title = None THEN Live ELSE NamedLike(call[r].title)
           found == {m \in Present : reminders[m] \in in}
       IN  \/ /\ in # {} \/ call[r].title = None
              /\ at' = [at EXCEPT ![r] = [x \in Items |-> IF x \in found THEN reminders[x] ELSE None]]
              /\ res' = [res EXCEPT ![r] = [x \in Items |-> IF x \in found THEN "todo" ELSE "none"]]
              /\ IF found = {} THEN Finish(r, "ok") ELSE Go(r, "filter")
           \/ Finish(r, "error") /\ UNCHANGED <<at, res>>
    /\ UNCHANGED <<call, idx, dest, landed>> /\ NoWrite

(* Mutant of Filter: whatever the index knows is shown. *)
FilterIndexed(r, x) ==
    /\ pc[r] = "filter" /\ res[r][x] = "todo"
    /\ LET f == WithVerdict(r, x, "shown")
       IN  /\ res' = [res EXCEPT ![r] = f]
           /\ IF Having(f, "todo") = {} THEN Finish(r, "ok") ELSE Go(r, "filter")
    /\ UNCHANGED <<call, idx, at, dest, landed>> /\ NoWrite

(* One turn of a listing's loop; each turn loads the policy anew. *)
Filter(r, x) ==
    /\ pc[r] = "filter" /\ res[r][x] = "todo"
    /\ LET seen == IF call[r].op = "Lists" THEN CanRead(ModeOf(x)) ELSE IndexedRead(r, at[r][x])
           f == WithVerdict(r, x, IF seen THEN "shown" ELSE "hidden")
       IN  /\ res' = [res EXCEPT ![r] = f]
           /\ IF Having(f, "todo") = {} THEN Finish(r, "ok") ELSE Go(r, "filter")
    /\ UNCHANGED <<call, idx, at, dest, landed>> /\ NoWrite

(* SIGHUP: ReplacePolicy swaps the pointer, whatever is in flight. *)
ReplacePolicy(p) ==
    /\ changes < MaxChanges /\ changes' = changes + 1
    /\ p # policy /\ policy' = p
    /\ inForce' = [r \in Requests |-> IF Active(r) THEN inForce[r] \cup {p} ELSE inForce[r]]
    /\ quiet' = [r \in Requests |-> quiet[r] /\ ~Active(r)]
    /\ UNCHANGED <<storeVars, pc, locals, ans, touched>>

OthersEdit ==
    /\ changes < MaxChanges /\ changes' = changes + 1
    /\ ExternalEdit
    /\ quiet' = [r \in Requests |-> quiet[r] /\ ~Active(r)]
    /\ UNCHANGED <<policy, pc, locals, ans, touched, inForce>>

Step(r) ==
    \/ Begin(r) \/ Index(r) \/ IndexError(r) \/ CheckDest(r) \/ CheckSource(r)
    \/ CreateTheReminder(r) \/ CreateTheList(r) \/ WriteFails(r)
    \/ Reindex(r) \/ Verify(r) \/ ListReminders(r)
    \/ \E h \in Handles : \/ FetchReminder(r, h) \/ FetchFails(r, h) \/ CheckReminder(r, h)
                          \/ UpdateTheReminder(r, h) \/ DeleteTheReminder(r, h)
                          \/ ChangeTheStatus(r, h) \/ RemoveOne(r, h)
    \/ \E l \in Lists : CheckList(r, l) \/ UpdateTheList(r, l) \/ DeleteTheList(r, l)
    \/ \E x \in Items : Filter(r, x)

Next ==
    \/ \E r \in Requests : Step(r)
    \/ \E p \in Policies : ReplacePolicy(p)
    \/ OthersEdit

Spec == Init /\ [][Next]_vars

-----------------------------------------------------------------------------
(* The variables keep their types (scoped/reminders.go:34-58). *)
TypeOK ==
    /\ StoreTypeOK
    /\ policy \in Policies
    /\ pc \in [Requests -> Steps]
    /\ call \in [Requests -> Call]
    /\ idx \in [Requests -> [Lists -> Titles \cup {None}]]
    /\ at \in [Requests -> [Items -> Lists \cup {None}]]
    /\ res \in [Requests -> [Items -> Verdicts]]
    /\ dest \in [Requests -> Lists \cup {None}]
    /\ landed \in [Requests -> Lists \cup {None}]
    /\ ans \in [Requests -> Answers]
    /\ touched \in [Requests -> SUBSET Lists]
    /\ inForce \in [Requests -> SUBSET Policies]
    /\ quiet \in [Requests -> BOOLEAN]
    /\ changes \in 0..MaxChanges

Returned(r, op, a) == pc[r] = "done" /\ call[r].op \in op /\ ans[r] \in a
Verified == {"CreateReminder", "UpdateReminder", "CreateList", "UpdateList"}
WritableSince(r, l) == \E p \in inForce[r] : Writable(p, l)
ReadableSince(r, l) == \E p \in inForce[r] : Readable(p, l)

(* No prefix is resolved a second time: the call names exact ids or none. *)
Exact(r) == call[r].op \in ReminderOps => call[r].items \subseteq Reminders

(***************************************************************************)
(* A create or an update that reports success wrote to a list that was     *)
(* writable under a policy in force during the call, and a reminder ended  *)
(* in the list that was checked, whoever renames lists, moves reminders or *)
(* swaps the policy meanwhile, and whichever reminder a prefix names the   *)
(* second time (reminders.go:175-183, 219-227, 328, 356).                  *)
(***************************************************************************)
NoSilentMisplacement ==
    \A r \in Requests : Returned(r, Verified, {"ok"}) =>
        /\ WritableSince(r, landed[r])
        /\ call[r].op \in {"CreateReminder", "UpdateReminder"} => landed[r] = dest[r]

(***************************************************************************)
(* When nothing else changes the store or the policy during a call that    *)
(* names exact ids, a write outside the writable lists is reported as a    *)
(* scope violation, or as an error when the index could not be read again; *)
(* a status change and a delete, which have no check on the way out, make  *)
(* no such write (reminders.go:171-183, 233-246, 298-313).                 *)
(***************************************************************************)
QuietExactWritesGuarded ==
    \A r \in Requests : \A l \in touched[r] :
        Returned(r, Ops, Answers \ {"violation", "error"}) /\ quiet[r] /\ Exact(r)
            => WritableSince(r, l)

(***************************************************************************)
(* Every object a read returns was, where the read saw it, in a list that  *)
(* was readable under a policy in force during the call                    *)
(* (reminders.go:88-150).                                                  *)
(***************************************************************************)
ReadsInScope ==
    \A r \in Requests :
        /\ Returned(r, {"List"}, {"ok"}) => \A l \in call[r].items : ReadableSince(r, l)
        /\ Returned(r, {"Reminder"}, {"ok"}) => \A x \in call[r].items : ReadableSince(r, at[r][x])
        /\ \A x \in Items : res[r][x] = "shown" =>
            IF call[r].op = "Lists" THEN ReadableSince(r, x) ELSE ReadableSince(r, at[r][x])

(***************************************************************************)
(* A call answered as refused has changed nothing, also when the refusal   *)
(* comes from the bridge after the checks have passed                      *)
(* (reminders.go:155-263, 317-384).                                        *)
(***************************************************************************)
RefusedMeansUntouched ==
    \A r \in Requests : ans[r] \in Refusals => touched[r] = {}

(***************************************************************************)
(* An exact reminder id a batch reports as deleted names no reminder any   *)
(* more, although the bridge reports failures only and skips what it does  *)
(* not find (reminders.go:275-285, bridge_darwin.m:1159-1169).             *)
(***************************************************************************)
BatchReportsTruth ==
    \A r \in Requests : \A m \in Reminders : res[r][m] = "ok" => reminders[m] = Gone
=============================================================================
