--------------------------- MODULE ScopedCalendar ---------------------------
(***************************************************************************)
(* ScopedCalendar of server/scoped: the wrapper that enforces the policy   *)
(* on every calendar call.  Each request runs one method.  A method is a   *)
(* sequence of separate bridge calls (index, fetch, write, index again)    *)
(* and separate loads of the policy pointer, and between any two of them   *)
(* another request, another program or a policy reload may run.            *)
(***************************************************************************)
EXTENDS CalendarStore, Integers

CONSTANTS
    Requests,   \* the calls in flight
    Calls,      \* the calls a request may make: [op, items, title, source]
    Policies,   \* the allowlists an operator may load
    None,       \* an absent calendar, title or source
    MaxEdits,   \* bound: changes made to the store by other programs
    MaxSwaps    \* bound: policy reloads

INSTANCE Policy WITH Ids <- Calendars, Sources <- Accounts

Items == Handles \cup Calendars

EventOps == {"Event", "UpdateEvent", "DeleteEvent", "DeleteEvents"}
CalendarOps == {"Calendar", "UpdateCalendar", "DeleteCalendar"}
ListOps == {"Calendars", "Events"}
TargetOps == {"CreateEvent", "CreateCalendar"}
Ops == EventOps \cup CalendarOps \cup ListOps \cup TargetOps

Call == [op : Ops, items : SUBSET Items, title : Titles \cup {None},
         source : Accounts \cup {None}]

(* A method on one event or calendar names it; a batch names at least one. *)
WellFormed(c) ==
    /\ c \in Call
    /\ c.op \in EventOps => c.items \subseteq Handles
    /\ c.op \in CalendarOps => c.items \subseteq Calendars
    /\ c.op = "DeleteEvents" => c.items # {}
    /\ c.op \in (EventOps \ {"DeleteEvents"}) \cup CalendarOps => \E x \in Items : c.items = {x}
    /\ c.op \in ListOps \cup TargetOps => c.items = {}

ASSUME ScopedConstants ==
    /\ \A c \in Calls : WellFormed(c)
    /\ None \notin Titles \cup Calendars \cup Accounts \cup {Unborn, Gone}
    /\ MaxEdits \in Nat /\ MaxSwaps \in Nat

VARIABLES
    policy,    \* what the atomic pointer holds
    pc,        \* pc[r]: the step of the method r is about to take
    call,      \* call[r]: method and arguments
    idx,       \* idx[r]: the calendarIndex, the titles r saw; None if absent
    at,        \* at[r][x]: the calendar event x was in when r fetched it
    res,       \* res[r][x]: what r has decided about item x
    dest,      \* dest[r]: the calendar the write is meant for
    landed,    \* landed[r]: the calendar the bridge says it wrote to
    ans,       \* ans[r]: how the method returned
    touched,   \* history: the calendars r's writes have changed
    inForce,   \* history: the policies in force since r began
    quiet,     \* history: no one else changed store or policy since then
    edits, swaps

locals == <<call, idx, at, res, dest, landed>>
history == <<inForce, quiet>>
vars == <<calendars, events, policy, pc, locals, ans, touched, history, edits, swaps>>

Refusals == {"denied", "notfound", "target", "immutable"}
Answers == {"none", "ok", "violation", "error"} \cup Refusals
Verdicts == {"none", "todo", "fetched", "pass", "ok", "shown", "hidden", "denied", "failed"}
Steps == {"idle", "index", "fetch", "check", "dest", "source", "write", "removing",
          "reindex", "verify", "list", "filter", "done"}

NoCall == [op |-> "Calendars", items |-> {}, title |-> None, source |-> None]
Blank == [x \in Items |-> None]

Active(r) == pc[r] \notin {"idle", "done"}
ModeOf(c) == Resolve(policy, c, SourceOf[c])
Readable(p, c) == CanRead(Resolve(p, c, SourceOf[c]))
Writable(p, c) == CanWrite(Resolve(p, c, SourceOf[c]))

(* Mutant of Snapshot: deleted calendars stay in the index. *)
SnapshotRaw == calendars

(* Calendars(): what an index or a listing reads from the bridge. *)
Snapshot == [c \in Calendars |-> IF c \in Live THEN calendars[c] ELSE None]

(* modeForCalID: a calendar the index does not know is denied. *)
IndexedRead(r, c) == idx[r][c] # None /\ CanRead(ModeOf(c))
IndexedWrite(r, c) == idx[r][c] # None /\ CanWrite(ModeOf(c))

WithVerdict(r, x, v) == [res[r] EXCEPT ![x] = v]
Todo(f) == {x \in Items : f[x] = "todo"}
Passed(f) == {x \in Items : f[x] = "pass"}

Go(r, step) == pc' = [pc EXCEPT ![r] = step] /\ UNCHANGED ans
Finish(r, a) == pc' = [pc EXCEPT ![r] = "done"] /\ ans' = [ans EXCEPT ![r] = a]
NoWrite == UNCHANGED <<storeVars, policy, touched, history, edits, swaps>>

(* A change to the store by r is foreign to every other running call. *)
Disturb(r) == quiet' = [q \in Requests |-> quiet[q] /\ (q = r \/ ~Active(q))]
Wrote(r, S) ==
    /\ touched' = [touched EXCEPT ![r] = touched[r] \cup S]
    /\ Disturb(r)
    /\ UNCHANGED <<policy, inForce, edits, swaps>>

(* The bridge's write queue: no other write runs inside a batch delete. *)
QueueFree(r) == \A q \in Requests \ {r} : pc[q] # "removing"

Init ==
    /\ calendars \in [Calendars -> Titles \cup {Unborn}]
    /\ events \in [Events -> Live \cup {Unborn}]
    /\ policy \in Policies
    /\ pc = [r \in Requests |-> "idle"]
    /\ call = [r \in Requests |-> NoCall]
    /\ idx = [r \in Requests |-> [c \in Calendars |-> None]]
    /\ at = [r \in Requests |-> Blank]
    /\ res = [r \in Requests |-> [x \in Items |-> "none"]]
    /\ dest = [r \in Requests |-> None]
    /\ landed = [r \in Requests |-> None]
    /\ ans = [r \in Requests |-> "none"]
    /\ touched = [r \in Requests |-> {}]
    /\ inForce = [r \in Requests |-> {}]
    /\ quiet = [r \in Requests |-> TRUE]
    /\ edits = 0 /\ swaps = 0

(* A method is entered.  A create without a target is refused at once. *)
Begin(r) ==
    /\ pc[r] = "idle"
    /\ \E c \in Calls :
        /\ call' = [call EXCEPT ![r] = c]
        /\ res' = [res EXCEPT ![r] = [x \in Items |-> IF x \in c.items THEN "todo" ELSE "none"]]
        /\ \/ /\ \/ c.op = "CreateEvent" /\ c.title = None
                 \/ c.op = "CreateCalendar" /\ c.source = None
              /\ Finish(r, "target")
           \/ /\ c.op = "CreateCalendar" /\ c.source # None
              /\ Go(r, "source")
           \/ c.op = "Event" /\ Go(r, "fetch")
           \/ /\ c.op \notin {"CreateCalendar", "Event"}
              /\ c.op = "CreateEvent" => c.title # None
              /\ Go(r, "index")
    /\ inForce' = [inForce EXCEPT ![r] = {policy}]
    /\ quiet' = [quiet EXCEPT ![r] = TRUE]
    /\ UNCHANGED <<storeVars, policy, idx, at, dest, landed, touched, edits, swaps>>

(* s.index(), or the first read of Calendars(). *)
Index(r) ==
    /\ pc[r] = "index"
    /\ idx' = [idx EXCEPT ![r] = Snapshot]
    /\ LET op == call[r].op
       IN  \/ op = "CreateEvent" /\ Go(r, "dest") /\ UNCHANGED res
           \/ op \in {"UpdateEvent", "DeleteEvent", "DeleteEvents"} /\ Go(r, "fetch") /\ UNCHANGED res
           \/ op \in CalendarOps \cup {"Event"} /\ Go(r, "check") /\ UNCHANGED res
           \/ op = "Events" /\ Go(r, "list") /\ UNCHANGED res
           \/ /\ op = "Calendars"
              /\ res' = [res EXCEPT ![r] = [x \in Items |-> IF x \in Live THEN "todo" ELSE "none"]]
              /\ IF Live = {} THEN Finish(r, "ok") ELSE Go(r, "filter")
    /\ UNCHANGED <<call, at, dest, landed>> /\ NoWrite

(* The bridge fails; in DeleteEvents every id then carries the error. *)
IndexError(r) ==
    /\ pc[r] = "index"
    /\ IF call[r].op = "DeleteEvents"
         THEN /\ Finish(r, "ok")
              /\ res' = [res EXCEPT ![r] = [x \in Items |-> IF x \in call[r].items THEN "failed" ELSE "none"]]
         ELSE Finish(r, "error") /\ UNCHANGED res
    /\ UNCHANGED <<call, idx, at, dest, landed>> /\ NoWrite

(* bridge.Event(id).  An update that names another calendar than the one    *)
(* the event is in leaves dest open for CheckDest.                          *)
FetchEvent(r, h) ==
    /\ pc[r] = "fetch" /\ res[r][h] = "todo"
    /\ \E e \in Matches(h) :
        LET c == events[e]
            t == call[r].title
        IN  /\ at' = [at EXCEPT ![r][h] = c]
            /\ dest' = [dest EXCEPT ![r] = IF t \in {None, calendars[c]} THEN c ELSE None]
    /\ res' = [res EXCEPT ![r] = WithVerdict(r, h, "fetched")]
    /\ Go(r, IF call[r].op = "Event" THEN "index" ELSE "check")
    /\ UNCHANGED <<call, idx, landed>> /\ NoWrite

(* After one item of a batch: the next fetch, the bridge call or the return. *)
NextItem(r, f) ==
    /\ res' = [res EXCEPT ![r] = f]
    /\ IF Todo(f) # {} THEN Go(r, "fetch")
       ELSE IF Passed(f) # {} THEN Go(r, "write")
       ELSE Finish(r, "ok")

FetchFails(r, h) ==
    /\ pc[r] = "fetch" /\ res[r][h] = "todo"
    /\ \E a \in {"notfound", "error"} :
        /\ a = "notfound" => h \notin Present  \* the prefix search covers two years only
        /\ IF call[r].op = "DeleteEvents" THEN NextItem(r, WithVerdict(r, h, "failed"))
           ELSE Finish(r, a) /\ UNCHANGED res
    /\ UNCHANGED <<call, idx, at, dest, landed>> /\ NoWrite

(* The check on the calendar the event was fetched from. *)
CheckEvent(r, h) ==
    /\ pc[r] = "check" /\ call[r].op \in EventOps /\ res[r][h] = "fetched"
    /\ LET c == at[r][h]
           op == call[r].op
       IN  \/ /\ op = "Event" /\ UNCHANGED res
              /\ IF IndexedRead(r, c) THEN Finish(r, "ok") ELSE Finish(r, "denied")
           \/ /\ op \in {"UpdateEvent", "DeleteEvent"} /\ UNCHANGED res
              /\ IF ~IndexedWrite(r, c) THEN Finish(r, "denied")
                 ELSE Go(r, IF op = "UpdateEvent" /\ dest[r] = None THEN "dest" ELSE "write")
           \/ /\ op = "DeleteEvents"
              /\ NextItem(r, WithVerdict(r, h, IF IndexedWrite(r, c) THEN "pass" ELSE "denied"))
    /\ UNCHANGED <<call, idx, at, dest, landed>> /\ NoWrite

(* modeForCalName: the exact title; of several calendars the index keeps the *)
(* last EventKit returned, in no promised order.                             *)
CheckDest(r) ==
    /\ pc[r] = "dest"
    /\ LET named == {c \in Calendars : idx[r][c] = call[r].title}
       IN  \/ /\ named = {} /\ Finish(r, "denied") /\ UNCHANGED dest
           \/ \E c \in named :
                IF CanWrite(ModeOf(c))
                  THEN Go(r, "write") /\ dest' = [dest EXCEPT ![r] = c]
                  ELSE Finish(r, "denied") /\ UNCHANGED dest
    /\ UNCHANGED <<call, idx, at, res, landed>> /\ NoWrite

(* CreateCalendar: the policy of the source as the client spells it. *)
CheckSource(r) ==
    /\ pc[r] = "source"
    /\ IF CanWrite(Resolve(policy, None, call[r].source)) THEN Go(r, "write") ELSE Finish(r, "denied")
    /\ UNCHANGED locals /\ NoWrite

CheckCalendar(r, c) ==
    /\ pc[r] = "check" /\ call[r].op \in CalendarOps /\ c \in call[r].items
    /\ IF idx[r][c] = None THEN Finish(r, "notfound")
       ELSE IF call[r].op = "Calendar"
              THEN IF CanRead(ModeOf(c)) THEN Finish(r, "ok") ELSE Finish(r, "denied")
       ELSE IF CanWrite(ModeOf(c)) THEN Go(r, "write") ELSE Finish(r, "denied")
    /\ UNCHANGED locals /\ NoWrite

(* The save of bridge.CreateEvent: a calendar found by name, ignoring case. *)
CreateTheEvent(r) ==
    /\ pc[r] = "write" /\ call[r].op = "CreateEvent" /\ QueueFree(r)
    /\ \E c \in NamedLike(call[r].title), e \in Events :
        /\ AddEvent(e, c)
        /\ landed' = [landed EXCEPT ![r] = c]
        /\ Wrote(r, {c})
    /\ Go(r, "reindex")
    /\ UNCHANGED <<call, idx, at, res, dest>>

(* The save of bridge.UpdateEvent, on the exact id; a title moves the event. *)
UpdateTheEvent(r, h) ==
    /\ pc[r] = "write" /\ call[r].op = "UpdateEvent" /\ QueueFree(r)
    /\ h \in call[r].items \cap Present
    /\ \E c \in IF call[r].title = None THEN {events[h]} ELSE NamedLike(call[r].title) :
        /\ PutEvent(h, c)
        /\ landed' = [landed EXCEPT ![r] = c]
        /\ Wrote(r, {events[h], c})
    /\ Go(r, "reindex")
    /\ UNCHANGED <<call, idx, at, res, dest>>

DeleteTheEvent(r, h) ==
    /\ pc[r] = "write" /\ call[r].op = "DeleteEvent" /\ QueueFree(r)
    /\ h \in call[r].items \cap Present
    /\ RemoveEvents({h})
    /\ Wrote(r, {events[h]})
    /\ Finish(r, "ok")
    /\ UNCHANGED locals

(* One turn of the batch loop: an id EventKit does not know exactly is       *)
(* skipped and keeps the success DeleteEvents marked it with beforehand.     *)
AfterRemoval(r, f) ==
    /\ res' = [res EXCEPT ![r] = f]
    /\ IF Passed(f) # {} THEN Go(r, "removing") ELSE Finish(r, "ok")

(* Mutant of RemoveOne: the bridge's per-id errors are not merged. *)
RemoveOneOptimistic(r, h) ==
    /\ pc[r] \in {"write", "removing"} /\ call[r].op = "DeleteEvents" /\ QueueFree(r)
    /\ res[r][h] = "pass"
    /\ \/ h \in Present /\ RemoveEvents({h}) /\ Wrote(r, {events[h]})
       \/ NoWrite
    /\ AfterRemoval(r, WithVerdict(r, h, "ok"))
    /\ UNCHANGED <<call, idx, at, dest, landed>>

RemoveOne(r, h) ==
    /\ pc[r] \in {"write", "removing"} /\ call[r].op = "DeleteEvents" /\ QueueFree(r)
    /\ res[r][h] = "pass"
    /\ \/ /\ h \in Present
          /\ RemoveEvents({h}) /\ Wrote(r, {events[h]})
          /\ AfterRemoval(r, WithVerdict(r, h, "ok"))
       \/ /\ h \notin Present /\ NoWrite
          /\ AfterRemoval(r, WithVerdict(r, h, "ok"))
       \/ /\ h \in Present /\ NoWrite
          /\ AfterRemoval(r, WithVerdict(r, h, "failed"))
    /\ UNCHANGED <<call, idx, at, dest, landed>>

CreateTheCalendar(r) ==
    /\ pc[r] = "write" /\ call[r].op = "CreateCalendar" /\ QueueFree(r)
    /\ \E c \in Calendars, t \in Titles :
        /\ Lower[SourceOf[c]] = Lower[call[r].source]
        /\ AddCalendar(c, t)
        /\ landed' = [landed EXCEPT ![r] = c]
        /\ Wrote(r, {c})
    /\ Go(r, "verify")
    /\ UNCHANGED <<call, idx, at, res, dest>>

UpdateTheCalendar(r, c) ==
    /\ pc[r] = "write" /\ call[r].op = "UpdateCalendar" /\ QueueFree(r)
    /\ c \in (call[r].items \cap Live) \ Immutable
    /\ \E t \in IF call[r].title = None THEN {calendars[c]} ELSE {call[r].title} : Retitle(c, t)
    /\ landed' = [landed EXCEPT ![r] = c]
    /\ Wrote(r, {c})
    /\ Go(r, "verify")
    /\ UNCHANGED <<call, idx, at, res, dest>>

DeleteTheCalendar(r, c) ==
    /\ pc[r] = "write" /\ call[r].op = "DeleteCalendar" /\ QueueFree(r)
    /\ c \in (call[r].items \cap Live) \ Immutable
    /\ RemoveCalendar(c)
    /\ Wrote(r, {c})
    /\ Finish(r, "ok")
    /\ UNCHANGED locals

(* The bridge refuses the write.  A create answers "not found" as an error;  *)
(* the others return ErrNotFound.                                            *)
WriteFails(r) ==
    /\ pc[r] = "write" /\ QueueFree(r)
    /\ LET op == call[r].op
           items == call[r].items
           missing == \/ op \in EventOps /\ items \cap Present = {}
                      \/ op = "UpdateEvent" /\ call[r].title # None /\ NamedLike(call[r].title) = {}
                      \/ op \in CalendarOps /\ items \cap Live = {}
       IN  \/ /\ op # "DeleteEvents"
              /\ Finish(r, "error") /\ UNCHANGED res
           \/ /\ op \notin {"DeleteEvents"} \cup TargetOps /\ missing
              /\ Finish(r, "notfound") /\ UNCHANGED res
           \/ /\ op \in CalendarOps /\ items \cap Live \cap Immutable # {}
              /\ Finish(r, "immutable") /\ UNCHANGED res
           \/ /\ op = "DeleteEvents"
              /\ Finish(r, "ok")
              /\ res' = [res EXCEPT ![r] = [x \in Items |->
                            IF res[r][x] = "pass" THEN "failed" ELSE res[r][x]]]
    /\ UNCHANGED <<call, idx, at, dest, landed>> /\ NoWrite

(* idx2 of CreateEvent and UpdateEvent: its error is returned although the   *)
(* event has been saved.                                                     *)
Reindex(r) ==
    /\ pc[r] = "reindex"
    /\ \/ idx' = [idx EXCEPT ![r] = Snapshot] /\ Go(r, "verify")
       \/ UNCHANGED idx /\ Finish(r, "error")
    /\ UNCHANGED <<call, at, res, dest, landed>> /\ NoWrite

(* Mutants of Verify: the mode is checked but not the calendar; nothing is   *)
(* checked; the violation is answered as a denial.                           *)
VerifyModeOnly(r) ==
    /\ pc[r] = "verify"
    /\ IF CanWrite(ModeOf(landed[r])) THEN Finish(r, "ok") ELSE Finish(r, "violation")
    /\ UNCHANGED locals /\ NoWrite

VerifyNothing(r) ==
    /\ pc[r] = "verify" /\ Finish(r, "ok")
    /\ UNCHANGED locals /\ NoWrite

VerifyDenying(r) ==
    /\ pc[r] = "verify"
    /\ IF CanWrite(ModeOf(landed[r])) THEN Finish(r, "ok") ELSE Finish(r, "denied")
    /\ UNCHANGED locals /\ NoWrite

(* The check on the way out. *)
Verify(r) ==
    /\ pc[r] = "verify"
    /\ LET c == landed[r]
           inScope == IF call[r].op \in {"CreateEvent", "UpdateEvent"}
                        THEN c = dest[r] /\ IndexedWrite(r, c)
                        ELSE CanWrite(ModeOf(c))
       IN  IF inScope THEN Finish(r, "ok") ELSE Finish(r, "violation")
    /\ UNCHANGED locals /\ NoWrite

(* bridge.Events(start, end). *)
ListEvents(r) ==
    /\ pc[r] = "list"
    /\ \/ /\ at' = [at EXCEPT ![r] = [x \in Items |-> IF x \in Present THEN events[x] ELSE None]]
          /\ res' = [res EXCEPT ![r] = [x \in Items |-> IF x \in Present THEN "todo" ELSE "none"]]
          /\ IF Present = {} THEN Finish(r, "ok") ELSE Go(r, "filter")
       \/ Finish(r, "error") /\ UNCHANGED <<at, res>>
    /\ UNCHANGED <<call, idx, dest, landed>> /\ NoWrite

(* Mutant of Filter: whatever the index knows is shown. *)
FilterIndexed(r, x) ==
    /\ pc[r] = "filter" /\ res[r][x] = "todo"
    /\ LET f == WithVerdict(r, x, "shown")
       IN  /\ res' = [res EXCEPT ![r] = f]
           /\ IF Todo(f) = {} THEN Finish(r, "ok") ELSE Go(r, "filter")
    /\ UNCHANGED <<call, idx, at, dest, landed>> /\ NoWrite

(* One turn of a listing's loop; each turn loads the policy anew. *)
Filter(r, x) ==
    /\ pc[r] = "filter" /\ res[r][x] = "todo"
    /\ LET seen == IF call[r].op = "Calendars" THEN CanRead(ModeOf(x)) ELSE IndexedRead(r, at[r][x])
           f == WithVerdict(r, x, IF seen THEN "shown" ELSE "hidden")
       IN  /\ res' = [res EXCEPT ![r] = f]
           /\ IF Todo(f) = {} THEN Finish(r, "ok") ELSE Go(r, "filter")
    /\ UNCHANGED <<call, idx, at, dest, landed>> /\ NoWrite

(* SIGHUP: ReplacePolicy swaps the pointer, whatever is in flight. *)
ReplacePolicy(p) ==
    /\ swaps < MaxSwaps /\ p # policy
    /\ policy' = p /\ swaps' = swaps + 1
    /\ inForce' = [r \in Requests |-> IF Active(r) THEN inForce[r] \cup {p} ELSE inForce[r]]
    /\ quiet' = [r \in Requests |-> quiet[r] /\ ~Active(r)]
    /\ UNCHANGED <<storeVars, pc, locals, ans, touched, edits>>

OthersEdit ==
    /\ edits < MaxEdits /\ edits' = edits + 1
    /\ ExternalEdit
    /\ quiet' = [r \in Requests |-> quiet[r] /\ ~Active(r)]
    /\ UNCHANGED <<policy, pc, locals, ans, touched, inForce, swaps>>

Step(r) ==
    \/ Begin(r) \/ Index(r) \/ IndexError(r)
    \/ CheckDest(r) \/ CheckSource(r)
    \/ CreateTheEvent(r) \/ CreateTheCalendar(r) \/ WriteFails(r)
    \/ Reindex(r) \/ Verify(r) \/ ListEvents(r)
    \/ \E x \in Handles : \/ FetchEvent(r, x) \/ FetchFails(r, x) \/ CheckEvent(r, x)
                          \/ UpdateTheEvent(r, x) \/ DeleteTheEvent(r, x) \/ RemoveOne(r, x)
    \/ \E c \in Calendars : \/ CheckCalendar(r, c)
                            \/ UpdateTheCalendar(r, c) \/ DeleteTheCalendar(r, c)
    \/ \E x \in Items : Filter(r, x)

Next ==
    \/ \E r \in Requests : Step(r)
    \/ \E p \in Policies : ReplacePolicy(p)
    \/ OthersEdit

Spec == Init /\ [][Next]_vars

-----------------------------------------------------------------------------
(* The variables keep their types (scoped/calendar.go:38-65). *)
TypeOK ==
    /\ StoreTypeOK
    /\ policy \in Policies
    /\ pc \in [Requests -> Steps]
    /\ call \in [Requests -> Call]
    /\ idx \in [Requests -> [Calendars -> Titles \cup {None}]]
    /\ at \in [Requests -> [Items -> Calendars \cup {None}]]
    /\ res \in [Requests -> [Items -> Verdicts]]
    /\ dest \in [Requests -> Calendars \cup {None}]
    /\ landed \in [Requests -> Calendars \cup {None}]
    /\ ans \in [Requests -> Answers]
    /\ touched \in [Requests -> SUBSET Calendars]
    /\ inForce \in [Requests -> SUBSET Policies]
    /\ quiet \in [Requests -> BOOLEAN]
    /\ edits \in 0..MaxEdits /\ swaps \in 0..MaxSwaps

Returned(r, op, a) == pc[r] = "done" /\ call[r].op \in op /\ ans[r] \in a
Verified == {"CreateEvent", "UpdateEvent", "CreateCalendar", "UpdateCalendar"}
WritableSince(r, c) == \E p \in inForce[r] : Writable(p, c)
ReadableSince(r, c) == \E p \in inForce[r] : Readable(p, c)

(***************************************************************************)
(* A create or an update that reports success wrote to a calendar that was *)
(* writable under a policy in force during the call, and an event landed   *)
(* in the calendar that was checked, whoever renames calendars, moves      *)
(* events or swaps the policy meanwhile (calendar.go:188, 233, 315, 343).  *)
(***************************************************************************)
NoSilentMisplacement ==
    \A r \in Requests : Returned(r, Verified, {"ok"}) =>
        /\ WritableSince(r, landed[r])
        /\ call[r].op \in {"CreateEvent", "UpdateEvent"} => landed[r] = dest[r]

(***************************************************************************)
(* When nothing else changes the store or the policy during a call, a      *)
(* write outside the writable calendars is never answered as a success or  *)
(* as a refusal: it is reported as a scope violation, or as an error when  *)
(* the index could not be read again (calendar.go:184-196, 229-241).       *)
(***************************************************************************)
QuietWritesGuarded ==
    \A r \in Requests : \A c \in touched[r] :
        Returned(r, Ops, Answers \ {"violation", "error"}) /\ quiet[r] => WritableSince(r, c)

(***************************************************************************)
(* Every object a read returns was, where the read saw it, in a calendar   *)
(* readable under a policy in force during the call (calendar.go:100-164). *)
(***************************************************************************)
ReadsInScope ==
    \A r \in Requests :
        /\ Returned(r, {"Calendar"}, {"ok"}) => \A c \in call[r].items : ReadableSince(r, c)
        /\ Returned(r, {"Event"}, {"ok"}) => \A x \in call[r].items : ReadableSince(r, at[r][x])
        /\ \A x \in Items : res[r][x] = "shown" =>
            IF call[r].op = "Calendars" THEN ReadableSince(r, x) ELSE ReadableSince(r, at[r][x])

(***************************************************************************)
(* A call answered as refused (404, 409 or 422 without orphan) has changed *)
(* nothing, also when the refusal comes from the bridge after the checks   *)
(* have passed (calendar.go:168-259, 304-369; errors.go:33-43).            *)
(***************************************************************************)
RefusedMeansUntouched ==
    \A r \in Requests : ans[r] \in Refusals => touched[r] = {}

(***************************************************************************)
(* An exact event id a batch reports as deleted names no event any more,   *)
(* although the bridge reports failures only and skips what it does not    *)
(* find (calendar.go:264-300, bridge_darwin.m:1171-1180).                  *)
(***************************************************************************)
BatchReportsTruth ==
    \A r \in Requests : \A e \in Events : res[r][e] = "ok" => events[e] = Gone

-----------------------------------------------------------------------------
(***************************************************************************)
(* The ids a batch reports without an error are those "which ids were      *)
(* actually deleted" (calendar.go:289-292).                                *)
(***************************************************************************)
BatchOkMeansDeleted ==
    \A r \in Requests : \A h \in Handles : res[r][h] = "ok" =>
        \E e \in PrefixOf[h] : events[e] = Gone
=============================================================================
