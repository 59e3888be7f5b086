------------------------ MODULE ScopedCalendarProofs ------------------------
(***************************************************************************)
(* Proofs about ScopedCalendar for any calendars, events, policies and     *)
(* number of concurrent calls, and any number of foreign edits.            *)
(***************************************************************************)
EXTENDS ScopedCalendar, TLAPS

(* The steps of one request r, one at a time. *)
LEMMA TypeInit == Init => TypeOK
  <1> SUFFICES ASSUME Init PROVE TypeOK  OBVIOUS
  <1> USE ScopedConstants, StoreConstants DEF Init
  <1>1. StoreTypeOK  BY DEF StoreTypeOK, Live
  <1>2. call \in [Requests -> Call]
    BY DEF NoCall, Call, Ops, ListOps
  <1>3. res \in [Requests -> [Items -> Verdicts]]  BY DEF Verdicts
  <1>4. at \in [Requests -> [Items -> Calendars \cup {None}]]  BY DEF Blank
  <1>5. pc \in [Requests -> Steps] /\ ans \in [Requests -> Answers]  BY DEF Steps, Answers
  <1> QED  BY <1>1, <1>2, <1>3, <1>4, <1>5 DEF TypeOK

ControlType == pc' \in [Requests -> Steps] /\ ans' \in [Requests -> Answers]

LEMMA ControlStep ==
  ASSUME TypeOK, NEW r \in Requests
  PROVE  /\ \A s \in Steps : Go(r, s) => ControlType
         /\ \A a \in Answers : Finish(r, a) => ControlType
  <1>1. pc \in [Requests -> Steps] /\ ans \in [Requests -> Answers]
    BY DEF TypeOK
  <1>2. ASSUME NEW s \in Steps, Go(r, s)  PROVE ControlType
    BY <1>1, <1>2 DEF Go, ControlType
  <1>3. "done" \in Steps
    BY DEF Steps
  <1>4. ASSUME NEW a \in Answers, Finish(r, a)  PROVE ControlType
    BY <1>1, <1>3, <1>4 DEF Finish, ControlType
  <1> QED  BY <1>2, <1>4

LEMMA Names ==
  /\ {"index", "fetch", "check", "dest", "source", "write", "removing",
      "reindex", "verify", "list", "filter"} \subseteq Steps
  /\ {"ok", "error", "violation", "denied", "notfound", "target", "immutable"} \subseteq Answers
  /\ {"none", "todo", "fetched", "pass", "ok", "shown", "hidden", "denied", "failed"} \subseteq Verdicts
  BY DEF Steps, Answers, Refusals, Verdicts

LEMMA ReplaceOne ==
  ASSUME NEW R, NEW S, NEW f \in [R -> S], NEW r \in R, NEW v \in S
  PROVE  [f EXCEPT ![r] = v] \in [R -> S]
  OBVIOUS

LEMMA SnapshotType == TypeOK => Snapshot \in [Calendars -> Titles \cup {None}]
  BY DEF TypeOK, StoreTypeOK, Snapshot, Live

LEMMA VerdictType ==
  ASSUME TypeOK, NEW r \in Requests, NEW x \in Items, NEW v \in Verdicts
  PROVE  WithVerdict(r, x, v) \in [Items -> Verdicts]
  BY DEF TypeOK, WithVerdict

LEMMA NextItemType ==
  ASSUME TypeOK, NEW r \in Requests, NEW f \in [Items -> Verdicts],
         NextItem(r, f) \/ AfterRemoval(r, f)
  PROVE  ControlType /\ res' \in [Requests -> [Items -> Verdicts]]
  <1>1. res' \in [Requests -> [Items -> Verdicts]]
    BY DEF TypeOK, NextItem, AfterRemoval
  <1>2. Go(r, "fetch") \/ Go(r, "write") \/ Go(r, "removing") \/ Finish(r, "ok")
    BY DEF NextItem, AfterRemoval
  <1> QED  BY <1>1, <1>2, ControlStep, Names

LEMMA TypeStepOfRequest ==
  ASSUME TypeOK, NEW r \in Requests, Step(r)
  PROVE  TypeOK'
  <1> USE ScopedConstants, StoreConstants DEF TypeOK, StoreTypeOK, locals, history, storeVars, NoWrite
  <1>1. CASE Begin(r)
    <2>1. ControlType
      BY <1>1, ControlStep, Names DEF Begin
    <2>2. PICK c \in Calls :
            /\ call' = [call EXCEPT ![r] = c]
            /\ res' = [res EXCEPT ![r] = [x \in Items |-> IF x \in c.items THEN "todo" ELSE "none"]]
      BY <1>1 DEF Begin
    <2>3. call' \in [Requests -> Call]
      BY <2>2 DEF WellFormed
    <2>4. res' \in [Requests -> [Items -> Verdicts]]
      BY <2>2, Names
    <2>5. inForce' \in [Requests -> SUBSET Policies] /\ quiet' \in [Requests -> BOOLEAN]
      BY <1>1 DEF Begin
    <2> QED
      BY <1>1, <2>1, <2>3, <2>4, <2>5 DEF Begin, ControlType
  <1>2. CASE Index(r)
    <2>1. ControlType
      BY <1>2, ControlStep, Names DEF Index
    <2>2. idx' \in [Requests -> [Calendars -> Titles \cup {None}]]
      BY <1>2, SnapshotType DEF Index
    <2>3. res' \in [Requests -> [Items -> Verdicts]]
      <3>1. [x \in Items |-> IF x \in Live THEN "todo" ELSE "none"] \in [Items -> Verdicts]
        BY Names
      <3>2. \/ UNCHANGED res
            \/ res' = [res EXCEPT ![r] = [x \in Items |-> IF x \in Live THEN "todo" ELSE "none"]]
        BY <1>2 DEF Index
      <3> QED  BY <3>1, <3>2
    <2> QED
      BY <1>2, <2>1, <2>2, <2>3 DEF Index, ControlType
  <1>3. CASE IndexError(r)
    <2>1. ControlType
      BY <1>3, ControlStep, Names DEF IndexError
    <2>2. res' \in [Requests -> [Items -> Verdicts]]
      <3>1. [x \in Items |-> IF x \in call[r].items THEN "failed" ELSE "none"] \in [Items -> Verdicts]
        BY Names
      <3>2. \/ UNCHANGED res
            \/ res' = [res EXCEPT ![r] = [x \in Items |-> IF x \in call[r].items THEN "failed" ELSE "none"]]
        BY <1>3 DEF IndexError
      <3> QED  BY <3>1, <3>2
    <2> QED
      BY <1>3, <2>1, <2>2 DEF IndexError, ControlType
  <1>4. CASE CheckDest(r)
    <2>1. ControlType
      BY <1>4, ControlStep, Names DEF CheckDest
    <2>2. dest' \in [Requests -> Calendars \cup {None}]
      BY <1>4 DEF CheckDest
    <2> QED
      BY <1>4, <2>1, <2>2 DEF CheckDest, ControlType
  <1>5. CASE CheckSource(r)
    <2>1. ControlType
      BY <1>5, ControlStep, Names DEF CheckSource
    <2> QED
      BY <1>5, <2>1 DEF CheckSource, ControlType
  <1>6. CASE CreateTheEvent(r)
    BY <1>6 DEF CreateTheEvent, Go, Steps, AddEvent, Wrote, Disturb, NamedLike, Live
  <1>7. CASE CreateTheCalendar(r)
    BY <1>7 DEF CreateTheCalendar, Go, Steps, AddCalendar, Wrote, Disturb
  <1>8. CASE WriteFails(r)
    <2>1. ControlType
      BY <1>8, ControlStep, Names DEF WriteFails
    <2>2. res' \in [Requests -> [Items -> Verdicts]]
      <3>1. [x \in Items |-> IF res[r][x] = "pass" THEN "failed" ELSE res[r][x]] \in [Items -> Verdicts]
        BY Names
      <3>2. \/ UNCHANGED res
            \/ res' = [res EXCEPT ![r] = [x \in Items |-> IF res[r][x] = "pass" THEN "failed" ELSE res[r][x]]]
        BY <1>8 DEF WriteFails
      <3> QED  BY <3>1, <3>2
    <2> QED
      BY <1>8, <2>1, <2>2 DEF WriteFails, ControlType
  <1>9. CASE Reindex(r)
    <2>1. ControlType
      BY <1>9, ControlStep, Names DEF Reindex
    <2>2. idx' \in [Requests -> [Calendars -> Titles \cup {None}]]
      BY <1>9, SnapshotType DEF Reindex
    <2> QED
      BY <1>9, <2>1, <2>2 DEF Reindex, ControlType
  <1>10. CASE Verify(r)
    <2>1. ControlType
      BY <1>10, ControlStep, Names DEF Verify
    <2> QED
      BY <1>10, <2>1 DEF Verify, ControlType
  <1>11. CASE ListEvents(r)
    <2>1. ControlType
      BY <1>11, ControlStep, Names DEF ListEvents
    <2>2. at' \in [Requests -> [Items -> Calendars \cup {None}]]
      <3> DEFINE f == [x \in Items |-> IF x \in Present THEN events[x] ELSE None]
      <3>1. f \in [Items -> Calendars \cup {None}]
        BY DEF Present
      <3>2. UNCHANGED at \/ at' = [at EXCEPT ![r] = f]
        BY <1>11 DEF ListEvents
      <3>3. at \in [Requests -> [Items -> Calendars \cup {None}]]
        OBVIOUS
      <3> HIDE DEF f, TypeOK, StoreTypeOK, locals, history, storeVars, NoWrite
      <3> QED  BY <3>1, <3>2, <3>3
    <2>3. res' \in [Requests -> [Items -> Verdicts]]
      <3>1. [x \in Items |-> IF x \in Present THEN "todo" ELSE "none"] \in [Items -> Verdicts]
        BY Names
      <3>2. \/ UNCHANGED res
            \/ res' = [res EXCEPT ![r] = [x \in Items |-> IF x \in Present THEN "todo" ELSE "none"]]
        BY <1>11 DEF ListEvents
      <3> QED  BY <3>1, <3>2
    <2> QED
      BY <1>11, <2>1, <2>2, <2>3 DEF ListEvents, ControlType
  <1>12. ASSUME NEW h \in Handles, FetchEvent(r, h)  PROVE TypeOK'
    <2>1. ControlType
      BY <1>12, ControlStep, Names DEF FetchEvent
    <2>2. PICK e \in Present :
            /\ at' = [at EXCEPT ![r][h] = events[e]]
            /\ dest' = [dest EXCEPT ![r] = IF call[r].title \in {None, calendars[events[e]]}
                                           THEN events[e] ELSE None]
      BY <1>12 DEF FetchEvent, Matches
    <2>3. events[e] \in Calendars
      BY DEF Present
    <2>4. at' \in [Requests -> [Items -> Calendars \cup {None}]] /\ dest' \in [Requests -> Calendars \cup {None}]
      BY <2>2, <2>3 DEF Items
    <2>5. res' \in [Requests -> [Items -> Verdicts]]
      BY <1>12, VerdictType, Names DEF FetchEvent, Items
    <2> QED
      BY <1>12, <2>1, <2>4, <2>5 DEF FetchEvent, ControlType
  <1>13. ASSUME NEW h \in Handles, FetchFails(r, h)  PROVE TypeOK'
    <2>1. WithVerdict(r, h, "failed") \in [Items -> Verdicts]
      BY VerdictType, Names DEF Items
    <2>2. ControlType /\ res' \in [Requests -> [Items -> Verdicts]]
      BY <1>13, <2>1, NextItemType, ControlStep, Names DEF FetchFails
    <2> QED
      BY <1>13, <2>2 DEF FetchFails, ControlType
  <1>14. ASSUME NEW h \in Handles, CheckEvent(r, h)  PROVE TypeOK'
    <2>1. WithVerdict(r, h, IF IndexedWrite(r, at[r][h]) THEN "pass" ELSE "denied") \in [Items -> Verdicts]
      BY VerdictType, Names DEF Items
    <2>2. ControlType /\ res' \in [Requests -> [Items -> Verdicts]]
      BY <1>14, <2>1, NextItemType, ControlStep, Names DEF CheckEvent
    <2> QED
      BY <1>14, <2>2 DEF CheckEvent, ControlType
  <1>15. ASSUME NEW h \in Handles, UpdateTheEvent(r, h)  PROVE TypeOK'
    BY <1>15 DEF UpdateTheEvent, Go, Steps, PutEvent, Present, NamedLike, Live, Wrote, Disturb
  <1>16. ASSUME NEW h \in Handles, DeleteTheEvent(r, h)  PROVE TypeOK'
    BY <1>16 DEF DeleteTheEvent, Finish, Steps, Answers, RemoveEvents, Present, Wrote, Disturb
  <1>17. ASSUME NEW h \in Handles, RemoveOne(r, h)  PROVE TypeOK'
    <2>1. WithVerdict(r, h, "ok") \in [Items -> Verdicts] /\ WithVerdict(r, h, "failed") \in [Items -> Verdicts]
      BY VerdictType, Names DEF Items
    <2>2. ControlType /\ res' \in [Requests -> [Items -> Verdicts]]
      BY <1>17, <2>1, NextItemType DEF RemoveOne
    <2>3. CASE h \in Present /\ RemoveEvents({h}) /\ Wrote(r, {events[h]})
      BY <1>17, <2>2, <2>3 DEF RemoveOne, ControlType, RemoveEvents, Present, Wrote, Disturb
    <2>4. CASE NoWrite
      BY <1>17, <2>2, <2>4 DEF RemoveOne, ControlType
    <2> QED
      BY <1>17, <2>3, <2>4 DEF RemoveOne
  <1>18. ASSUME NEW c \in Calendars, CheckCalendar(r, c)  PROVE TypeOK'
    <2>1. ControlType
      BY <1>18, ControlStep, Names DEF CheckCalendar
    <2> QED
      BY <1>18, <2>1 DEF CheckCalendar, ControlType
  <1>19. ASSUME NEW c \in Calendars, UpdateTheCalendar(r, c)  PROVE TypeOK'
    BY <1>19 DEF UpdateTheCalendar, Go, Steps, Retitle, Live, Wrote, Disturb, Call
  <1>20. ASSUME NEW c \in Calendars, DeleteTheCalendar(r, c)  PROVE TypeOK'
    BY <1>20 DEF DeleteTheCalendar, Finish, Steps, Answers, RemoveCalendar, Live, Wrote, Disturb
  <1>21. ASSUME NEW x \in Items, Filter(r, x)  PROVE TypeOK'
    <2>1. ControlType
      BY <1>21, ControlStep, Names DEF Filter
    <2>2. \E v \in Verdicts : res' = [res EXCEPT ![r] = WithVerdict(r, x, v)]
      BY <1>21, Names DEF Filter
    <2>3. res' \in [Requests -> [Items -> Verdicts]]
      BY <2>2, VerdictType, ReplaceOne
    <2> QED
      BY <1>21, <2>1, <2>3 DEF Filter, ControlType
  <1> QED
    BY <1>1, <1>2, <1>3, <1>4, <1>5, <1>6, <1>7, <1>8, <1>9, <1>10, <1>11, <1>12, <1>13, <1>14,
       <1>15, <1>16, <1>17, <1>18, <1>19, <1>20, <1>21 DEF Step

LEMMA StoreType ==
  ASSUME StoreTypeOK, ExternalEdit
  PROVE  StoreTypeOK'
  <1> USE DEF StoreTypeOK
  <1>1. ASSUME NEW e \in Events, NEW c \in Calendars, AddEvent(e, c) \/ PutEvent(e, c)  PROVE StoreTypeOK'
    BY <1>1 DEF AddEvent, PutEvent
  <1>2. ASSUME NEW S, RemoveEvents(S)  PROVE StoreTypeOK'
    <2>1. events' = [e \in Events |-> IF e \in S THEN Gone ELSE events[e]] /\ calendars' = calendars
      BY <1>2 DEF RemoveEvents
    <2>2. ASSUME NEW e \in Events
          PROVE  (IF e \in S THEN Gone ELSE events[e]) \in Calendars \cup {Unborn, Gone}
      OBVIOUS
    <2> QED  BY <2>1, <2>2
  <1>3. ASSUME NEW c \in Calendars, NEW t \in Titles, AddCalendar(c, t) \/ Retitle(c, t)  PROVE StoreTypeOK'
    BY <1>3 DEF AddCalendar, Retitle
  <1>4. ASSUME NEW c \in Calendars, RemoveCalendar(c)  PROVE StoreTypeOK'
    <2>1. events' = [e \in Events |-> IF events[e] = c THEN Gone ELSE events[e]]
      BY <1>4 DEF RemoveCalendar
    <2>2. ASSUME NEW e \in Events
          PROVE  (IF events[e] = c THEN Gone ELSE events[e]) \in Calendars \cup {Unborn, Gone}
      OBVIOUS
    <2>3. calendars' \in [Calendars -> Titles \cup {Unborn, Gone}]
      BY <1>4 DEF RemoveCalendar
    <2> QED  BY <2>1, <2>2, <2>3
  <1> QED
    BY <1>1, <1>2, <1>3, <1>4 DEF ExternalEdit, Live, Present

LEMMA TypeStepOfOthers ==
  ASSUME TypeOK, OthersEdit \/ \E p \in Policies : ReplacePolicy(p)
  PROVE  TypeOK'
  <1> USE ScopedConstants, StoreConstants DEF TypeOK, StoreTypeOK, locals, storeVars
  <1>1. CASE OthersEdit
    <2>1. edits' \in 0..MaxEdits
      BY <1>1 DEF OthersEdit
    <2>2. StoreTypeOK'
      BY <1>1, StoreType DEF OthersEdit
    <2> QED
      BY <1>1, <2>1, <2>2 DEF OthersEdit
  <1>2. ASSUME NEW p \in Policies, ReplacePolicy(p)  PROVE TypeOK'
    BY <1>2 DEF ReplacePolicy
  <1> QED  BY <1>1, <1>2

-----------------------------------------------------------------------------
(* What request q knows of itself is changed by no other request. *)
Untouched(q) ==
    /\ pc'[q] = pc[q] /\ call'[q] = call[q] /\ idx'[q] = idx[q] /\ at'[q] = at[q]
    /\ res'[q] = res[q] /\ dest'[q] = dest[q] /\ landed'[q] = landed[q] /\ ans'[q] = ans[q]
    /\ touched'[q] = touched[q] /\ inForce'[q] = inForce[q]

LEMMA Frame ==
  ASSUME TypeOK, NEW r \in Requests, Step(r), NEW q \in Requests, q # r
  PROVE  Untouched(q) /\ policy' = policy
  <1> USE DEF TypeOK, Untouched, Go, Finish, NoWrite, locals, history, storeVars
  <1>1. CASE Begin(r)
    BY <1>1 DEF Begin
  <1>2. CASE Index(r)
    BY <1>2 DEF Index
  <1>3. CASE IndexError(r)
    BY <1>3 DEF IndexError
  <1>4. CASE CheckDest(r)
    BY <1>4 DEF CheckDest
  <1>5. CASE CheckSource(r)
    BY <1>5 DEF CheckSource
  <1>6. CASE CreateTheEvent(r)
    BY <1>6 DEF CreateTheEvent, Wrote
  <1>7. CASE CreateTheCalendar(r)
    BY <1>7 DEF CreateTheCalendar, Wrote
  <1>8. CASE WriteFails(r)
    BY <1>8 DEF WriteFails
  <1>9. CASE Reindex(r)
    BY <1>9 DEF Reindex
  <1>10. CASE Verify(r)
    BY <1>10 DEF Verify
  <1>11. CASE ListEvents(r)
    BY <1>11 DEF ListEvents
  <1>12. ASSUME NEW h \in Handles, FetchEvent(r, h)  PROVE Untouched(q) /\ policy' = policy
    BY <1>12 DEF FetchEvent
  <1>13. ASSUME NEW h \in Handles, FetchFails(r, h)  PROVE Untouched(q) /\ policy' = policy
    BY <1>13 DEF FetchFails, NextItem
  <1>14. ASSUME NEW h \in Handles, CheckEvent(r, h)  PROVE Untouched(q) /\ policy' = policy
    BY <1>14 DEF CheckEvent, NextItem
  <1>15. ASSUME NEW h \in Handles, UpdateTheEvent(r, h)  PROVE Untouched(q) /\ policy' = policy
    BY <1>15 DEF UpdateTheEvent, Wrote
  <1>16. ASSUME NEW h \in Handles, DeleteTheEvent(r, h)  PROVE Untouched(q) /\ policy' = policy
    BY <1>16 DEF DeleteTheEvent, Wrote
  <1>17. ASSUME NEW h \in Handles, RemoveOne(r, h)  PROVE Untouched(q) /\ policy' = policy
    BY <1>17 DEF RemoveOne, AfterRemoval, Wrote
  <1>18. ASSUME NEW c \in Calendars, CheckCalendar(r, c)  PROVE Untouched(q) /\ policy' = policy
    BY <1>18 DEF CheckCalendar
  <1>19. ASSUME NEW c \in Calendars, UpdateTheCalendar(r, c)  PROVE Untouched(q) /\ policy' = policy
    BY <1>19 DEF UpdateTheCalendar, Wrote
  <1>20. ASSUME NEW c \in Calendars, DeleteTheCalendar(r, c)  PROVE Untouched(q) /\ policy' = policy
    BY <1>20 DEF DeleteTheCalendar, Wrote
  <1>21. ASSUME NEW x \in Items, Filter(r, x)  PROVE Untouched(q) /\ policy' = policy
    BY <1>21 DEF Filter
  <1> QED
    BY <1>1, <1>2, <1>3, <1>4, <1>5, <1>6, <1>7, <1>8, <1>9, <1>10, <1>11,
       <1>12, <1>13, <1>14, <1>15, <1>16, <1>17, <1>18, <1>19, <1>20, <1>21 DEF Step

-----------------------------------------------------------------------------
(***************************************************************************)
(* What holds of one request along its way: it remembers the policy in     *)
(* force, it has not returned or written before its time, only listings    *)
(* reach the listing loop, and what its result claims is true.             *)
(***************************************************************************)
BeforeWrite == {"idle", "index", "fetch", "check", "dest", "source", "write", "list", "filter"}

RequestInv(q) ==
    /\ Active(q) => policy \in inForce[q]
    /\ pc[q] # "done" => ans[q] = "none"
    /\ pc[q] \in BeforeWrite => touched[q] = {}
    /\ pc[q] \in {"list", "filter"} => call[q].op \in ListOps
    /\ ans[q] \in Refusals => touched[q] = {}
    /\ Returned(q, Verified, {"ok"}) =>
        /\ WritableSince(q, landed[q])
        /\ call[q].op \in {"CreateEvent", "UpdateEvent"} => landed[q] = dest[q]

RequestsInv == \A q \in Requests : RequestInv(q)

LEMMA RequestInit == Init => RequestsInv
  BY DEF Init, RequestsInv, RequestInv, Active, Refusals, Returned

LEMMA OwnStep ==
  ASSUME TypeOK, NEW r \in Requests, RequestInv(r), Step(r)
  PROVE  RequestInv(r)'
  <1> USE DEF TypeOK, RequestInv, BeforeWrite, Active, Refusals, Returned, Verified, ListOps,
             Go, Finish, NoWrite, locals, history, storeVars
  <1>1. CASE Begin(r)
    BY <1>1 DEF Begin
  <1>2. CASE Index(r)
    BY <1>2 DEF Index
  <1>3. CASE IndexError(r)
    BY <1>3 DEF IndexError
  <1>4. CASE CheckDest(r)
    BY <1>4 DEF CheckDest
  <1>5. CASE CheckSource(r)
    BY <1>5 DEF CheckSource
  <1>6. CASE CreateTheEvent(r)
    BY <1>6 DEF CreateTheEvent, Wrote
  <1>7. CASE CreateTheCalendar(r)
    BY <1>7 DEF CreateTheCalendar, Wrote
  <1>8. CASE WriteFails(r)
    BY <1>8 DEF WriteFails
  <1>9. CASE Reindex(r)
    BY <1>9 DEF Reindex
  <1>10. CASE Verify(r)
    BY <1>10 DEF Verify, WritableSince, IndexedWrite, ModeOf, Writable
  <1>11. CASE ListEvents(r)
    BY <1>11 DEF ListEvents
  <1>12. ASSUME NEW h \in Handles, FetchEvent(r, h)  PROVE RequestInv(r)'
    BY <1>12 DEF FetchEvent
  <1>13. ASSUME NEW h \in Handles, FetchFails(r, h)  PROVE RequestInv(r)'
    BY <1>13 DEF FetchFails, NextItem
  <1>14. ASSUME NEW h \in Handles, CheckEvent(r, h)  PROVE RequestInv(r)'
    BY <1>14 DEF CheckEvent, NextItem
  <1>15. ASSUME NEW h \in Handles, UpdateTheEvent(r, h)  PROVE RequestInv(r)'
    BY <1>15 DEF UpdateTheEvent, Wrote
  <1>16. ASSUME NEW h \in Handles, DeleteTheEvent(r, h)  PROVE RequestInv(r)'
    BY <1>16 DEF DeleteTheEvent, Wrote
  <1>17. ASSUME NEW h \in Handles, RemoveOne(r, h)  PROVE RequestInv(r)'
    BY <1>17 DEF RemoveOne, AfterRemoval, Wrote
  <1>18. ASSUME NEW c \in Calendars, CheckCalendar(r, c)  PROVE RequestInv(r)'
    BY <1>18 DEF CheckCalendar, CalendarOps
  <1>19. ASSUME NEW c \in Calendars, UpdateTheCalendar(r, c)  PROVE RequestInv(r)'
    BY <1>19 DEF UpdateTheCalendar, Wrote
  <1>20. ASSUME NEW c \in Calendars, DeleteTheCalendar(r, c)  PROVE RequestInv(r)'
    BY <1>20 DEF DeleteTheCalendar, Wrote
  <1>21. ASSUME NEW x \in Items, Filter(r, x)  PROVE RequestInv(r)'
    BY <1>21 DEF Filter
  <1> QED
    BY <1>1, <1>2, <1>3, <1>4, <1>5, <1>6, <1>7, <1>8, <1>9, <1>10, <1>11,
       <1>12, <1>13, <1>14, <1>15, <1>16, <1>17, <1>18, <1>19, <1>20, <1>21 DEF Step

LEMMA OthersStep ==
  ASSUME TypeOK, NEW q \in Requests, RequestInv(q),
         OthersEdit \/ \E p \in Policies : ReplacePolicy(p)
  PROVE  RequestInv(q)'
  <1> USE DEF RequestInv, Active, Returned, WritableSince, locals
  <1>1. CASE OthersEdit
    BY <1>1 DEF OthersEdit
  <1>2. ASSUME NEW p \in Policies, ReplacePolicy(p)  PROVE RequestInv(q)'
    BY <1>2 DEF ReplacePolicy, TypeOK
  <1> QED  BY <1>1, <1>2

LEMMA RequestStep == TypeOK /\ RequestsInv /\ [Next]_vars => RequestsInv'
  <1> SUFFICES ASSUME TypeOK, RequestsInv, [Next]_vars, NEW q \in Requests
               PROVE  RequestInv(q)'
    BY DEF RequestsInv
  <1> USE DEF RequestsInv
  <1>1. ASSUME NEW r \in Requests, Step(r), q # r  PROVE RequestInv(q)'
    <2>1. Untouched(q) /\ policy' = policy
      BY <1>1, Frame
    <2> QED
      BY <2>1 DEF Untouched, RequestInv, Active, Returned, WritableSince
  <1>2. ASSUME Step(q)  PROVE RequestInv(q)'
    BY <1>2, OwnStep
  <1>3. CASE UNCHANGED vars
    BY <1>3 DEF vars, locals, history, RequestInv, Active, Returned, WritableSince
  <1> QED
    BY <1>1, <1>2, <1>3, OthersStep DEF Next

-----------------------------------------------------------------------------
(* No event identifier is used again, and none exists before it is minted. *)
StoreGrows ==
    \A e \in Events : /\ events[e] = Gone => events'[e] = Gone
                      /\ events[e] # Unborn => events'[e] # Unborn

LEMMA StoreStep ==
  ASSUME TypeOK, [Next]_vars
  PROVE  StoreGrows
  <1> USE ScopedConstants, StoreConstants DEF TypeOK, StoreTypeOK, StoreGrows, storeVars
  <1>1. ASSUME NEW e \in Events, NEW c \in Calendars, AddEvent(e, c) \/ PutEvent(e, c)  PROVE StoreGrows
    BY <1>1 DEF AddEvent, PutEvent, Present
  <1>2. ASSUME NEW S, RemoveEvents(S)  PROVE StoreGrows
    BY <1>2 DEF RemoveEvents
  <1>3. ASSUME NEW c, RemoveCalendar(c)  PROVE StoreGrows
    BY <1>3 DEF RemoveCalendar, Live
  <1>4. CASE UNCHANGED events
    BY <1>4
  <1>5. ASSUME NEW r \in Requests, Step(r)  PROVE StoreGrows
    <2> USE DEF NoWrite
    <2>1. CASE Begin(r) \/ Index(r) \/ IndexError(r) \/ CheckDest(r) \/ CheckSource(r)
      BY <2>1, <1>4 DEF Begin, Index, IndexError, CheckDest, CheckSource
    <2>2. CASE WriteFails(r) \/ Reindex(r) \/ Verify(r) \/ ListEvents(r)
      BY <2>2, <1>4 DEF WriteFails, Reindex, Verify, ListEvents
    <2>3. CASE CreateTheEvent(r)
      BY <2>3, <1>1 DEF CreateTheEvent, NamedLike, Live
    <2>4. CASE CreateTheCalendar(r)
      BY <2>4, <1>4 DEF CreateTheCalendar, AddCalendar
    <2>5. ASSUME NEW h \in Handles, FetchEvent(r, h) \/ FetchFails(r, h) \/ CheckEvent(r, h)  PROVE StoreGrows
      BY <2>5, <1>4 DEF FetchEvent, FetchFails, CheckEvent
    <2>6. ASSUME NEW h \in Handles, UpdateTheEvent(r, h)  PROVE StoreGrows
      BY <2>6, <1>1 DEF UpdateTheEvent, NamedLike, Live, Present
    <2>7. ASSUME NEW h \in Handles, DeleteTheEvent(r, h) \/ RemoveOne(r, h)  PROVE StoreGrows
      BY <2>7, <1>2, <1>4 DEF DeleteTheEvent, RemoveOne
    <2>8. ASSUME NEW c \in Calendars, CheckCalendar(r, c) \/ UpdateTheCalendar(r, c) \/ DeleteTheCalendar(r, c)
          PROVE StoreGrows
      BY <2>8, <1>3, <1>4 DEF CheckCalendar, UpdateTheCalendar, DeleteTheCalendar, Retitle
    <2>9. ASSUME NEW x \in Items, Filter(r, x)  PROVE StoreGrows
      BY <2>9, <1>4 DEF Filter
    <2> QED
      BY <1>5, <2>1, <2>2, <2>3, <2>4, <2>5, <2>6, <2>7, <2>8, <2>9 DEF Step
  <1>6. CASE OthersEdit
    BY <1>6, <1>1, <1>2, <1>3, <1>4 DEF OthersEdit, ExternalEdit, Live, Present, AddCalendar, Retitle
  <1>7. ASSUME NEW p \in Policies, ReplacePolicy(p)  PROVE StoreGrows
    BY <1>7, <1>4 DEF ReplacePolicy
  <1> QED
    BY <1>4, <1>5, <1>6, <1>7 DEF Next, vars

(***************************************************************************)
(* Why a batch tells the truth: an exact id that was fetched names an      *)
(* event that exists or is gone for good, so an id the bridge skips can    *)
(* only be gone.                                                           *)
(***************************************************************************)
BatchInv(q) ==
    \A e \in Events : /\ res[q][e] \in {"fetched", "pass"} => events[e] # Unborn
                      /\ res[q][e] = "ok" => events[e] = Gone

LEMMA BatchOwnStep ==
  ASSUME TypeOK, NEW r \in Requests, BatchInv(r), Step(r), StoreGrows
  PROVE  BatchInv(r)'
  <1> USE StoreConstants DEF TypeOK, StoreTypeOK, BatchInv, StoreGrows, WithVerdict, Items, NoWrite, locals, storeVars
  <1>1. CASE Begin(r)
    BY <1>1 DEF Begin
  <1>2. CASE Index(r)
    <2>1. \/ UNCHANGED res
          \/ res'[r] = [x \in Items |-> IF x \in Live THEN "todo" ELSE "none"]
      BY <1>2 DEF Index
    <2>2. events' = events
      BY <1>2 DEF Index
    <2> QED
      BY <2>1, <2>2
  <1>3. CASE IndexError(r)
    BY <1>3 DEF IndexError
  <1>4. CASE CheckDest(r)
    BY <1>4 DEF CheckDest
  <1>5. CASE CheckSource(r)
    BY <1>5 DEF CheckSource
  <1>6. CASE CreateTheEvent(r)
    BY <1>6 DEF CreateTheEvent
  <1>7. CASE CreateTheCalendar(r)
    BY <1>7 DEF CreateTheCalendar
  <1>8. CASE WriteFails(r)
    BY <1>8 DEF WriteFails
  <1>9. CASE Reindex(r)
    BY <1>9 DEF Reindex
  <1>10. CASE Verify(r)
    BY <1>10 DEF Verify
  <1>11. CASE ListEvents(r)
    BY <1>11 DEF ListEvents
  <1>12. ASSUME NEW h \in Handles, FetchEvent(r, h)  PROVE BatchInv(r)'
    BY <1>12 DEF FetchEvent, Matches, Present
  <1>13. ASSUME NEW h \in Handles, FetchFails(r, h)  PROVE BatchInv(r)'
    BY <1>13 DEF FetchFails, NextItem
  <1>14. ASSUME NEW h \in Handles, CheckEvent(r, h)  PROVE BatchInv(r)'
    BY <1>14 DEF CheckEvent, NextItem
  <1>15. ASSUME NEW h \in Handles, UpdateTheEvent(r, h)  PROVE BatchInv(r)'
    BY <1>15 DEF UpdateTheEvent
  <1>16. ASSUME NEW h \in Handles, DeleteTheEvent(r, h)  PROVE BatchInv(r)'
    BY <1>16 DEF DeleteTheEvent
  <1>17. ASSUME NEW h \in Handles, RemoveOne(r, h)  PROVE BatchInv(r)'
    BY <1>17 DEF RemoveOne, AfterRemoval, RemoveEvents, Present
  <1>18. ASSUME NEW c \in Calendars, CheckCalendar(r, c)  PROVE BatchInv(r)'
    BY <1>18 DEF CheckCalendar
  <1>19. ASSUME NEW c \in Calendars, UpdateTheCalendar(r, c)  PROVE BatchInv(r)'
    BY <1>19 DEF UpdateTheCalendar
  <1>20. ASSUME NEW c \in Calendars, DeleteTheCalendar(r, c)  PROVE BatchInv(r)'
    BY <1>20 DEF DeleteTheCalendar
  <1>21. ASSUME NEW x \in Items, Filter(r, x)  PROVE BatchInv(r)'
    BY <1>21 DEF Filter
  <1> QED
    BY <1>1, <1>2, <1>3, <1>4, <1>5, <1>6, <1>7, <1>8, <1>9, <1>10, <1>11,
       <1>12, <1>13, <1>14, <1>15, <1>16, <1>17, <1>18, <1>19, <1>20, <1>21 DEF Step

BatchesInv == \A q \in Requests : BatchInv(q)

LEMMA BatchStep == TypeOK /\ BatchesInv /\ [Next]_vars => BatchesInv'
  <1> SUFFICES ASSUME TypeOK, BatchesInv, [Next]_vars, NEW q \in Requests
               PROVE  BatchInv(q)'
    BY DEF BatchesInv
  <1> USE DEF BatchesInv
  <1>1. StoreGrows
    BY StoreStep
  <1>2. CASE res'[q] = res[q]
    BY <1>1, <1>2 DEF BatchInv, StoreGrows
  <1>3. ASSUME NEW r \in Requests, Step(r), q # r  PROVE BatchInv(q)'
    BY <1>3, <1>2, Frame DEF Untouched
  <1>4. ASSUME Step(q)  PROVE BatchInv(q)'
    BY <1>4, <1>1, BatchOwnStep
  <1>5. CASE (\E p \in Policies : ReplacePolicy(p)) \/ OthersEdit \/ UNCHANGED vars
    BY <1>5, <1>2 DEF ReplacePolicy, OthersEdit, vars, locals
  <1> QED
    BY <1>3, <1>4, <1>5 DEF Next

-----------------------------------------------------------------------------
(***************************************************************************)
(* Why a read stays in scope: each step of a method belongs to its kind of *)
(* call, a verdict is given on an item of the call only, and what is shown *)
(* was readable when its turn came.                                        *)
(***************************************************************************)
ReadInv(q) ==
    /\ WellFormed(call[q])
    /\ pc[q] = "fetch" => call[q].op \in EventOps
    /\ pc[q] \in {"reindex", "verify"} => call[q].op \in Verified
    /\ call[q].op \notin ListOps =>
        \A x \in Items : res[q][x] # "shown" /\ (res[q][x] # "none" => x \in call[q].items)
    /\ Returned(q, {"Calendar"}, {"ok"}) => \A c \in call[q].items : ReadableSince(q, c)
    /\ Returned(q, {"Event"}, {"ok"}) => \A x \in call[q].items : ReadableSince(q, at[q][x])
    /\ \A x \in Items : res[q][x] = "shown" =>
        IF call[q].op = "Calendars" THEN ReadableSince(q, x) ELSE ReadableSince(q, at[q][x])

ReadersInv == \A q \in Requests : ReadInv(q)

LEMMA ReadOwnStep ==
  ASSUME TypeOK, NEW r \in Requests, RequestInv(r), ReadInv(r), Step(r)
  PROVE  ReadInv(r)'
  <1> USE DEF TypeOK, RequestInv, ReadInv, Active, Returned, ReadableSince, WithVerdict,
             EventOps, CalendarOps, ListOps, TargetOps, Verified, Items,
             Go, Finish, NoWrite, locals, history, storeVars
  <1>1. CASE Begin(r)
    BY <1>1, ScopedConstants DEF Begin
  <1>2. CASE Index(r)
    BY <1>2 DEF Index
  <1>3. CASE IndexError(r)
    <2>1. CASE call[r].op = "DeleteEvents"
      <3>1. /\ pc' = [pc EXCEPT ![r] = "done"] /\ UNCHANGED <<call, at, inForce>>
            /\ res'[r] = [x \in Items |-> IF x \in call[r].items THEN "failed" ELSE "none"]
        BY <1>3, <2>1 DEF IndexError
      <3> QED  BY <2>1, <3>1
    <2>2. CASE call[r].op # "DeleteEvents"
      BY <1>3, <2>2 DEF IndexError
    <2> QED  BY <2>1, <2>2
  <1>4. CASE CheckDest(r)
    BY <1>4 DEF CheckDest
  <1>5. CASE CheckSource(r)
    BY <1>5 DEF CheckSource
  <1>6. CASE CreateTheEvent(r)
    BY <1>6 DEF CreateTheEvent, Wrote
  <1>7. CASE CreateTheCalendar(r)
    BY <1>7 DEF CreateTheCalendar, Wrote
  <1>8. CASE WriteFails(r)
    BY <1>8 DEF WriteFails
  <1>9. CASE Reindex(r)
    BY <1>9 DEF Reindex
  <1>10. CASE Verify(r)
    BY <1>10 DEF Verify
  <1>11. CASE ListEvents(r)
    BY <1>11 DEF ListEvents
  <1>12. ASSUME NEW h \in Handles, FetchEvent(r, h)  PROVE ReadInv(r)'
    BY <1>12 DEF FetchEvent
  <1>13. ASSUME NEW h \in Handles, FetchFails(r, h)  PROVE ReadInv(r)'
    BY <1>13 DEF FetchFails, NextItem
  <1>14. ASSUME NEW h \in Handles, CheckEvent(r, h)  PROVE ReadInv(r)'
    <2>1. h \in call[r].items /\ UNCHANGED <<call, at, inForce>>
      BY <1>14 DEF CheckEvent
    <2>2. CASE call[r].op = "Event"
      <3>1. \A x \in call[r].items : x = h
        BY <2>1, <2>2 DEF WellFormed
      <3>2. UNCHANGED res /\ pc' = [pc EXCEPT ![r] = "done"]
        BY <1>14, <2>2 DEF CheckEvent
      <3>3. ans'[r] = "ok" => ReadableSince(r, at[r][h])
        BY <1>14, <2>2 DEF CheckEvent, IndexedRead, ModeOf, Readable
      <3> QED  BY <2>1, <2>2, <3>1, <3>2, <3>3
    <2>3. CASE call[r].op \in {"UpdateEvent", "DeleteEvent"}
      BY <1>14, <2>1, <2>3 DEF CheckEvent
    <2>4. CASE call[r].op = "DeleteEvents"
      <3>1. \E v \in {"pass", "denied"} : res' = [res EXCEPT ![r] = WithVerdict(r, h, v)]
        BY <1>14, <2>4 DEF CheckEvent, NextItem
      <3>2. pc'[r] \in {"fetch", "write", "done"}
        BY <1>14, <2>4 DEF CheckEvent, NextItem
      <3>3. \A x \in Items : res'[r][x] # "shown" /\ (res'[r][x] # "none" => x \in call[r].items)
        BY <2>1, <2>4, <3>1
      <3> QED  BY <2>1, <2>4, <3>2, <3>3
    <2> QED  BY <1>14, <2>2, <2>3, <2>4 DEF CheckEvent
  <1>15. ASSUME NEW h \in Handles, UpdateTheEvent(r, h)  PROVE ReadInv(r)'
    BY <1>15 DEF UpdateTheEvent, Wrote
  <1>16. ASSUME NEW h \in Handles, DeleteTheEvent(r, h)  PROVE ReadInv(r)'
    BY <1>16 DEF DeleteTheEvent, Wrote
  <1>17. ASSUME NEW h \in Handles, RemoveOne(r, h)  PROVE ReadInv(r)'
    BY <1>17 DEF RemoveOne, AfterRemoval, Wrote
  <1>18. ASSUME NEW c \in Calendars, CheckCalendar(r, c)  PROVE ReadInv(r)'
    BY <1>18 DEF CheckCalendar, ModeOf, Readable, WellFormed
  <1>19. ASSUME NEW c \in Calendars, UpdateTheCalendar(r, c)  PROVE ReadInv(r)'
    BY <1>19 DEF UpdateTheCalendar, Wrote
  <1>20. ASSUME NEW c \in Calendars, DeleteTheCalendar(r, c)  PROVE ReadInv(r)'
    BY <1>20 DEF DeleteTheCalendar, Wrote
  <1>21. ASSUME NEW x \in Items, Filter(r, x)  PROVE ReadInv(r)'
    BY <1>21 DEF Filter, IndexedRead, ModeOf, Readable
  <1> QED
    BY <1>1, <1>2, <1>3, <1>4, <1>5, <1>6, <1>7, <1>8, <1>9, <1>10, <1>11,
       <1>12, <1>13, <1>14, <1>15, <1>16, <1>17, <1>18, <1>19, <1>20, <1>21 DEF Step

LEMMA ReadStep == TypeOK /\ RequestsInv /\ ReadersInv /\ [Next]_vars => ReadersInv'
  <1> SUFFICES ASSUME TypeOK, RequestsInv, ReadersInv, [Next]_vars, NEW q \in Requests
               PROVE  ReadInv(q)'
    BY DEF ReadersInv
  <1> USE DEF ReadersInv
  <1>1. CASE Untouched(q)
    BY <1>1 DEF Untouched, ReadInv, Returned, ReadableSince
  <1>2. ASSUME NEW r \in Requests, Step(r), q # r  PROVE ReadInv(q)'
    BY <1>1, <1>2, Frame
  <1>3. ASSUME Step(q)  PROVE ReadInv(q)'
    BY <1>3, ReadOwnStep DEF RequestsInv
  <1>4. CASE OthersEdit \/ UNCHANGED vars
    BY <1>1, <1>4 DEF OthersEdit, vars, locals, history, Untouched
  <1>5. ASSUME NEW p \in Policies, ReplacePolicy(p)  PROVE ReadInv(q)'
    BY <1>5 DEF ReplacePolicy, locals, TypeOK, ReadInv, Returned, ReadableSince
  <1> QED
    BY <1>2, <1>3, <1>4, <1>5 DEF Next

LEMMA ReadInit == Init => ReadersInv
  BY DEF Init, ReadersInv, ReadInv, NoCall, WellFormed, Call, Ops, EventOps, CalendarOps, ListOps,
         TargetOps, Returned

-----------------------------------------------------------------------------
(***************************************************************************)
(* Why a quiet write is guarded: while nobody else writes, an exact event  *)
(* id stays in the calendar it was fetched from, which was writable when   *)
(* it was checked; what a write touches besides is where it landed, and    *)
(* the check on the way out decides about that.                            *)
(***************************************************************************)
BeforeReturn == {"index", "fetch", "check", "dest", "write", "removing"}

(* A fetched event is still where it was found. *)
AgreeInv(q) ==
    quiet[q] /\ pc[q] \in BeforeReturn =>
        \A e \in Present : res[q][e] \in {"fetched", "pass"} => at[q][e] = events[e]

(* Whoever is about to write has been checked. *)
CheckedInv(q) ==
    /\ pc[q] = "dest" => call[q].op \in {"CreateEvent", "UpdateEvent"}
    /\ pc[q] = "source" => call[q].op = "CreateCalendar"
    /\ \A h \in Handles : res[q][h] = "pass" => WritableSince(q, at[q][h])
    /\ call[q].op \in {"UpdateEvent", "DeleteEvent"} =>
        /\ pc[q] \in {"check", "dest", "write"} => \A h \in call[q].items : res[q][h] = "fetched"
        /\ pc[q] \in {"dest", "write"} => \A h \in call[q].items : WritableSince(q, at[q][h])
    /\ call[q].op \in {"UpdateCalendar", "DeleteCalendar"} /\ pc[q] = "write" =>
        \A c \in call[q].items : WritableSince(q, c)

(* What has been written is in scope, or is about to be reported. *)
TouchedInv(q) ==
    quiet[q] => \A c \in touched[q] :
        \/ WritableSince(q, c)
        \/ pc[q] \in {"reindex", "verify"} /\ c = landed[q]
        \/ ans[q] \in {"violation", "error"}

GuardInv(q) == AgreeInv(q) /\ CheckedInv(q) /\ TouchedInv(q)

GuardsInv == \A q \in Requests : GuardInv(q)

(* No other request changes what is quiet about q's call unless it ends it. *)
Notices(q) ==
    \/ UNCHANGED storeVars /\ quiet'[q] = quiet[q]
    \/ quiet'[q] = (quiet[q] /\ ~Active(q))

LEMMA QuietFrame ==
  ASSUME TypeOK, NEW r \in Requests, Step(r), NEW q \in Requests, q # r
  PROVE  Notices(q)
  <1> USE DEF TypeOK, NoWrite, history, Notices
  <1>1. ASSUME NEW S, Wrote(r, S)  PROVE Notices(q)
    BY <1>1 DEF Wrote, Disturb
  <1>2. CASE Begin(r)
    BY <1>2 DEF Begin, storeVars
  <1>3. CASE Index(r) \/ IndexError(r) \/ CheckDest(r) \/ CheckSource(r) \/ WriteFails(r)
    BY <1>3 DEF Index, IndexError, CheckDest, CheckSource, WriteFails
  <1>4. CASE Reindex(r) \/ Verify(r) \/ ListEvents(r)
    BY <1>4 DEF Reindex, Verify, ListEvents
  <1>5. CASE CreateTheEvent(r) \/ CreateTheCalendar(r)
    BY <1>1, <1>5 DEF CreateTheEvent, CreateTheCalendar
  <1>6. ASSUME NEW h \in Handles, FetchEvent(r, h) \/ FetchFails(r, h) \/ CheckEvent(r, h)  PROVE Notices(q)
    BY <1>6 DEF FetchEvent, FetchFails, CheckEvent
  <1>7. ASSUME NEW h \in Handles, UpdateTheEvent(r, h) \/ DeleteTheEvent(r, h) \/ RemoveOne(r, h)  PROVE Notices(q)
    BY <1>1, <1>7 DEF UpdateTheEvent, DeleteTheEvent, RemoveOne
  <1>8. ASSUME NEW c \in Calendars, CheckCalendar(r, c) \/ UpdateTheCalendar(r, c) \/ DeleteTheCalendar(r, c)
        PROVE  Notices(q)
    BY <1>1, <1>8 DEF CheckCalendar, UpdateTheCalendar, DeleteTheCalendar
  <1>9. ASSUME NEW x \in Items, Filter(r, x)  PROVE Notices(q)
    BY <1>9 DEF Filter
  <1> QED
    BY <1>2, <1>3, <1>4, <1>5, <1>6, <1>7, <1>8, <1>9 DEF Step

LEMMA AgreeOwnStep ==
  ASSUME TypeOK, NEW r \in Requests, ReadInv(r), CheckedInv(r), AgreeInv(r), Step(r)
  PROVE  AgreeInv(r)'
  <1> USE StoreConstants DEF TypeOK, AgreeInv, BeforeReturn, WithVerdict, Items, Present, Go, Finish, NoWrite, locals, history, storeVars
  <1>1. CASE Begin(r)
    <2>1. \A x \in Items : res'[r][x] \in {"todo", "none"}
      BY <1>1 DEF Begin
    <2> QED  BY <2>1
  <1>2. CASE Index(r)
    BY <1>2 DEF Index
  <1>3. CASE IndexError(r)
    BY <1>3 DEF IndexError
  <1>4. CASE CheckDest(r)
    BY <1>4 DEF CheckDest
  <1>5. CASE CheckSource(r)
    <2>1. \A x \in Items : res[r][x] = "none"
      BY <1>5 DEF CheckSource, CheckedInv, ReadInv, WellFormed, ListOps, TargetOps
    <2>2. UNCHANGED res
      BY <1>5 DEF CheckSource
    <2> QED  BY <2>1, <2>2
  <1>6. CASE CreateTheEvent(r)
    BY <1>6 DEF CreateTheEvent, Wrote, Disturb
  <1>7. CASE CreateTheCalendar(r)
    BY <1>7 DEF CreateTheCalendar, Wrote, Disturb
  <1>8. CASE WriteFails(r)
    BY <1>8 DEF WriteFails
  <1>9. CASE Reindex(r)
    BY <1>9 DEF Reindex
  <1>10. CASE Verify(r)
    BY <1>10 DEF Verify
  <1>11. CASE ListEvents(r)
    BY <1>11 DEF ListEvents
  <1>12. ASSUME NEW h \in Handles, FetchEvent(r, h)  PROVE AgreeInv(r)'
    BY <1>12 DEF FetchEvent, Matches
  <1>13. ASSUME NEW h \in Handles, FetchFails(r, h)  PROVE AgreeInv(r)'
    <2>1. UNCHANGED <<at, events, quiet>>
      BY <1>13 DEF FetchFails
    <2>2. UNCHANGED res \/ res'[r] = [res[r] EXCEPT ![h] = "failed"]
      BY <1>13 DEF FetchFails, NextItem
    <2> QED  BY <1>13, <2>1, <2>2 DEF FetchFails
  <1>14. ASSUME NEW h \in Handles, CheckEvent(r, h)  PROVE AgreeInv(r)'
    <2>1. UNCHANGED <<at, events, quiet>> /\ pc[r] = "check" /\ res[r][h] = "fetched"
      BY <1>14 DEF CheckEvent
    <2>2. \A e \in Items \ {h} : res'[r][e] = res[r][e]
      <3>1. call[r].op # "DeleteEvents" => UNCHANGED res
        BY <1>14 DEF CheckEvent
      <3>2. call[r].op = "DeleteEvents" =>
              res' = [res EXCEPT ![r] = WithVerdict(r, h, IF IndexedWrite(r, at[r][h]) THEN "pass" ELSE "denied")]
        BY <1>14 DEF CheckEvent, NextItem
      <3> QED  BY <3>1, <3>2
    <2>3. \A e \in Events : res'[r][e] \in {"fetched", "pass"} => res[r][e] \in {"fetched", "pass"}
      BY <2>1, <2>2
    <2> QED  BY <2>1, <2>3
  <1>15. ASSUME NEW h \in Handles, UpdateTheEvent(r, h)  PROVE AgreeInv(r)'
    BY <1>15 DEF UpdateTheEvent, Wrote, Disturb
  <1>16. ASSUME NEW h \in Handles, DeleteTheEvent(r, h)  PROVE AgreeInv(r)'
    BY <1>16 DEF DeleteTheEvent, Wrote, Disturb
  <1>17. ASSUME NEW h \in Handles, RemoveOne(r, h)  PROVE AgreeInv(r)'
    <2>1. UNCHANGED at /\ quiet'[r] = quiet[r] /\ pc[r] \in {"write", "removing"}
      BY <1>17 DEF RemoveOne, Wrote, Disturb
    <2>2. \E v \in {"ok", "failed"} : res'[r] = [res[r] EXCEPT ![h] = v]
      BY <1>17 DEF RemoveOne, AfterRemoval
    <2>3. UNCHANGED events \/ events' = [e \in Events |-> IF e = h THEN Gone ELSE events[e]]
      BY <1>17 DEF RemoveOne, RemoveEvents
    <2> QED  BY <2>1, <2>2, <2>3
  <1>18. ASSUME NEW c \in Calendars, CheckCalendar(r, c)  PROVE AgreeInv(r)'
    BY <1>18 DEF CheckCalendar
  <1>19. ASSUME NEW c \in Calendars, UpdateTheCalendar(r, c)  PROVE AgreeInv(r)'
    BY <1>19 DEF UpdateTheCalendar, Wrote, Disturb
  <1>20. ASSUME NEW c \in Calendars, DeleteTheCalendar(r, c)  PROVE AgreeInv(r)'
    BY <1>20 DEF DeleteTheCalendar, Wrote, Disturb
  <1>21. ASSUME NEW x \in Items, Filter(r, x)  PROVE AgreeInv(r)'
    BY <1>21 DEF Filter
  <1> QED
    BY <1>1, <1>2, <1>3, <1>4, <1>5, <1>6, <1>7, <1>8, <1>9, <1>10, <1>11,
       <1>12, <1>13, <1>14, <1>15, <1>16, <1>17, <1>18, <1>19, <1>20, <1>21 DEF Step

LEMMA CheckedOwnStep ==
  ASSUME TypeOK, NEW r \in Requests, RequestInv(r), ReadInv(r), CheckedInv(r), Step(r)
  PROVE  CheckedInv(r)'
  <1> USE StoreConstants DEF TypeOK, CheckedInv, WritableSince, WithVerdict, Items, Go, Finish, NoWrite, locals, history
  <1>1. CASE Begin(r)
    BY <1>1 DEF Begin
  <1>2. CASE Index(r)
    <2>1. UNCHANGED <<call, at, inForce>> /\ pc[r] = "index"
      BY <1>2 DEF Index
    <2>2. /\ pc'[r] = "dest" => call[r].op = "CreateEvent"
          /\ pc'[r] # "source" /\ pc'[r] # "write"
          /\ pc'[r] = "check" => call[r].op \in CalendarOps \cup {"Event"}
      BY <1>2 DEF Index
    <2>3. UNCHANGED res \/ res'[r] = [x \in Items |-> IF x \in Live THEN "todo" ELSE "none"]
      BY <1>2 DEF Index
    <2>4. \A h \in Handles : res'[r][h] = "pass" => res[r][h] = "pass"
      BY <2>3
    <2> QED  BY <2>1, <2>2, <2>4 DEF CalendarOps
  <1>3. CASE IndexError(r)
    <2>1. UNCHANGED <<call, at, inForce>> /\ pc'[r] = "done"
      BY <1>3 DEF IndexError
    <2>2. UNCHANGED res \/ res'[r] = [x \in Items |-> IF x \in call[r].items THEN "failed" ELSE "none"]
      BY <1>3 DEF IndexError
    <2>3. \A h \in Handles : res'[r][h] = "pass" => res[r][h] = "pass"
      BY <2>2
    <2> QED  BY <2>1, <2>3
  <1>4. CASE CheckDest(r)
    BY <1>4 DEF CheckDest
  <1>5. CASE CheckSource(r)
    BY <1>5 DEF CheckSource
  <1>6. CASE CreateTheEvent(r)
    BY <1>6 DEF CreateTheEvent, Wrote, Disturb
  <1>7. CASE CreateTheCalendar(r)
    BY <1>7 DEF CreateTheCalendar, Wrote, Disturb
  <1>8. CASE WriteFails(r)
    <2>1. UNCHANGED <<call, at, inForce>> /\ pc'[r] = "done"
      BY <1>8 DEF WriteFails
    <2>2. \/ UNCHANGED res
          \/ res'[r] = [x \in Items |-> IF res[r][x] = "pass" THEN "failed" ELSE res[r][x]]
      BY <1>8 DEF WriteFails
    <2>3. \A h \in Handles : res'[r][h] = "pass" => res[r][h] = "pass"
      BY <2>2
    <2> QED  BY <2>1, <2>3
  <1>9. CASE Reindex(r)
    BY <1>9 DEF Reindex
  <1>10. CASE Verify(r)
    BY <1>10 DEF Verify
  <1>11. CASE ListEvents(r)
    <2>1. UNCHANGED <<call, inForce>> /\ pc'[r] \in {"filter", "done"}
      BY <1>11 DEF ListEvents
    <2>2. UNCHANGED <<at, res>> \/ res'[r] = [x \in Items |-> IF x \in Present THEN "todo" ELSE "none"]
      BY <1>11 DEF ListEvents
    <2>3. \A h \in Handles : res'[r][h] = "pass" => res[r][h] = "pass" /\ UNCHANGED at
      BY <2>2
    <2> QED  BY <2>1, <2>3
  <1>12. ASSUME NEW h \in Handles, FetchEvent(r, h)  PROVE CheckedInv(r)'
    <2>1. UNCHANGED <<call, inForce>> /\ pc'[r] \in {"index", "check"} /\ h \in call[r].items
      BY <1>12 DEF FetchEvent, ReadInv, ListOps, EventOps
    <2>2. res'[r] = [res[r] EXCEPT ![h] = "fetched"] /\ \A k \in Handles \ {h} : at'[r][k] = at[r][k]
      BY <1>12 DEF FetchEvent
    <2>3. call[r].op \in {"UpdateEvent", "DeleteEvent"} => \A k \in call[r].items : k = h
      BY <2>1 DEF ReadInv, WellFormed, EventOps
    <2> QED  BY <2>1, <2>2, <2>3
  <1>13. ASSUME NEW h \in Handles, FetchFails(r, h)  PROVE CheckedInv(r)'
    <2>1. UNCHANGED <<call, at, inForce>>
      BY <1>13 DEF FetchFails
    <2>2. CASE call[r].op = "DeleteEvents"
      <3>1. res'[r] = [res[r] EXCEPT ![h] = "failed"] /\ pc'[r] \in {"fetch", "write", "done"}
        BY <1>13, <2>2 DEF FetchFails, NextItem
      <3> QED  BY <2>1, <2>2, <3>1
    <2>3. CASE call[r].op # "DeleteEvents"
      BY <1>13, <2>1, <2>3 DEF FetchFails
    <2> QED  BY <2>2, <2>3
  <1>14. ASSUME NEW h \in Handles, CheckEvent(r, h)  PROVE CheckedInv(r)'
    <2>1. UNCHANGED <<call, at, inForce>> /\ h \in call[r].items
      BY <1>14 DEF CheckEvent, ReadInv, ListOps, EventOps
    <2>2. IndexedWrite(r, at[r][h]) => WritableSince(r, at[r][h])
      BY <1>14 DEF CheckEvent, RequestInv, Active, IndexedWrite, ModeOf, Writable
    <2>3. CASE call[r].op = "Event"
      BY <1>14, <2>1, <2>3 DEF CheckEvent
    <2>4. CASE call[r].op \in {"UpdateEvent", "DeleteEvent"}
      <3>1. \A k \in call[r].items : k = h
        BY <2>1, <2>4 DEF ReadInv, WellFormed, EventOps
      <3>2. UNCHANGED res
        BY <1>14, <2>4 DEF CheckEvent
      <3>3. /\ pc'[r] \in {"done", "dest", "write"}
            /\ pc'[r] \in {"dest", "write"} => IndexedWrite(r, at[r][h])
            /\ pc'[r] = "dest" => call[r].op = "UpdateEvent"
        BY <1>14, <2>4 DEF CheckEvent
      <3>4. res[r][h] = "fetched"
        BY <1>14 DEF CheckEvent
      <3> QED  BY <2>1, <2>2, <2>4, <3>1, <3>2, <3>3, <3>4
    <2>5. CASE call[r].op = "DeleteEvents"
      <3>1. res'[r] = [res[r] EXCEPT ![h] = IF IndexedWrite(r, at[r][h]) THEN "pass" ELSE "denied"]
        BY <1>14, <2>5 DEF CheckEvent, NextItem
      <3>2. pc'[r] \in {"fetch", "write", "done"}
        BY <1>14, <2>5 DEF CheckEvent, NextItem
      <3>3. \A k \in Handles : res'[r][k] = "pass" => WritableSince(r, at[r][k])
        BY <2>2, <3>1
      <3> QED  BY <2>1, <2>5, <3>2, <3>3
    <2> QED  BY <1>14, <2>3, <2>4, <2>5 DEF CheckEvent
  <1>15. ASSUME NEW h \in Handles, UpdateTheEvent(r, h)  PROVE CheckedInv(r)'
    BY <1>15 DEF UpdateTheEvent, Wrote, Disturb
  <1>16. ASSUME NEW h \in Handles, DeleteTheEvent(r, h)  PROVE CheckedInv(r)'
    BY <1>16 DEF DeleteTheEvent, Wrote, Disturb
  <1>17. ASSUME NEW h \in Handles, RemoveOne(r, h)  PROVE CheckedInv(r)'
    <2>1. UNCHANGED <<call, at, inForce>> /\ call[r].op = "DeleteEvents" /\ pc'[r] \in {"removing", "done"}
      BY <1>17 DEF RemoveOne, AfterRemoval, Wrote
    <2>2. \E v \in {"ok", "failed"} : res'[r] = [res[r] EXCEPT ![h] = v]
      BY <1>17 DEF RemoveOne, AfterRemoval
    <2> QED  BY <2>1, <2>2
  <1>18. ASSUME NEW c \in Calendars, CheckCalendar(r, c)  PROVE CheckedInv(r)'
    <2>1. UNCHANGED <<call, at, res, inForce>> /\ pc'[r] \in {"write", "done"} /\ call[r].op \in CalendarOps
      BY <1>18 DEF CheckCalendar
    <2>2. \A k \in call[r].items : k = c
      BY <1>18 DEF CheckCalendar, ReadInv, WellFormed
    <2>3. pc'[r] = "write" => WritableSince(r, c)
      BY <1>18 DEF CheckCalendar, RequestInv, Active, ModeOf, Writable
    <2> QED  BY <2>1, <2>2, <2>3 DEF CalendarOps
  <1>19. ASSUME NEW c \in Calendars, UpdateTheCalendar(r, c)  PROVE CheckedInv(r)'
    BY <1>19 DEF UpdateTheCalendar, Wrote, Disturb
  <1>20. ASSUME NEW c \in Calendars, DeleteTheCalendar(r, c)  PROVE CheckedInv(r)'
    BY <1>20 DEF DeleteTheCalendar, Wrote, Disturb
  <1>21. ASSUME NEW x \in Items, Filter(r, x)  PROVE CheckedInv(r)'
    BY <1>21 DEF Filter
  <1> QED
    BY <1>1, <1>2, <1>3, <1>4, <1>5, <1>6, <1>7, <1>8, <1>9, <1>10, <1>11,
       <1>12, <1>13, <1>14, <1>15, <1>16, <1>17, <1>18, <1>19, <1>20, <1>21 DEF Step

LEMMA TouchedOwnStep ==
  ASSUME TypeOK, NEW r \in Requests, RequestInv(r), ReadInv(r), GuardInv(r), Step(r)
  PROVE  TouchedInv(r)'
  <1> USE StoreConstants DEF TypeOK, RequestInv, BeforeWrite, GuardInv, TouchedInv, WritableSince, Go, Finish, NoWrite, locals, history
  <1>1. CASE Begin(r)
    BY <1>1 DEF Begin
  <1>2. CASE Index(r)
    BY <1>2 DEF Index
  <1>3. CASE IndexError(r)
    BY <1>3 DEF IndexError
  <1>4. CASE CheckDest(r)
    BY <1>4 DEF CheckDest
  <1>5. CASE CheckSource(r)
    BY <1>5 DEF CheckSource
  <1>6. CASE CreateTheEvent(r)
    BY <1>6 DEF CreateTheEvent, Wrote, Disturb
  <1>7. CASE CreateTheCalendar(r)
    BY <1>7 DEF CreateTheCalendar, Wrote, Disturb
  <1>8. CASE WriteFails(r)
    BY <1>8 DEF WriteFails
  <1>9. CASE Reindex(r)
    BY <1>9 DEF Reindex
  <1>10. CASE Verify(r)
    <2>1. UNCHANGED <<touched, landed, inForce, quiet>> /\ pc[r] = "verify" /\ pc'[r] = "done"
      BY <1>10 DEF Verify
    <2>2. ans'[r] = "violation" \/ WritableSince(r, landed[r])
      BY <1>10 DEF Verify, IndexedWrite, ModeOf, Writable, Active
    <2>3. quiet[r] => \A c \in touched[r] : WritableSince(r, c) \/ c = landed[r]
      BY <2>1
    <2>4. \A c : WritableSince(r, c)' = WritableSince(r, c)
      BY <2>1
    <2>5. ASSUME quiet'[r], NEW c \in touched'[r]
          PROVE  WritableSince(r, c)' \/ ans'[r] \in {"violation", "error"}
      <3> HIDE DEF WritableSince, TypeOK, RequestInv, GuardInv, TouchedInv
      <3>1. quiet[r] /\ c \in touched[r]
        BY <2>1, <2>5
      <3>2. WritableSince(r, c) \/ c = landed[r]
        BY <2>3, <3>1
      <3> QED
        BY <2>2, <2>4, <3>2
    <2> QED  BY <2>5
  <1>11. CASE ListEvents(r)
    BY <1>11 DEF ListEvents
  <1>12. ASSUME NEW h \in Handles, FetchEvent(r, h)  PROVE TouchedInv(r)'
    BY <1>12 DEF FetchEvent
  <1>13. ASSUME NEW h \in Handles, FetchFails(r, h)  PROVE TouchedInv(r)'
    BY <1>13 DEF FetchFails, NextItem
  <1>14. ASSUME NEW h \in Handles, CheckEvent(r, h)  PROVE TouchedInv(r)'
    BY <1>14 DEF CheckEvent, NextItem
  <1>15. ASSUME NEW h \in Handles, UpdateTheEvent(r, h)  PROVE TouchedInv(r)'
    <2>1. h \in call[r].items /\ h \in Present /\ pc[r] = "write" /\ call[r].op = "UpdateEvent"
      BY <1>15 DEF UpdateTheEvent
    <2>2. quiet[r] => WritableSince(r, events[h])
      BY <2>1 DEF AgreeInv, BeforeReturn, CheckedInv, Present
    <2>3. PICK c : landed'[r] = c /\ Wrote(r, {events[h], c})
      BY <1>15 DEF UpdateTheEvent
    <2>4. pc'[r] = "reindex"
      BY <1>15 DEF UpdateTheEvent
    <2> QED  BY <2>1, <2>2, <2>3, <2>4 DEF Wrote, Disturb
  <1>16. ASSUME NEW h \in Handles, DeleteTheEvent(r, h)  PROVE TouchedInv(r)'
    <2>1. h \in call[r].items /\ h \in Present /\ pc[r] = "write" /\ call[r].op = "DeleteEvent"
      BY <1>16 DEF DeleteTheEvent
    <2>2. quiet[r] => WritableSince(r, events[h])
      BY <2>1 DEF AgreeInv, BeforeReturn, CheckedInv, Present
    <2>3. Wrote(r, {events[h]})
      BY <1>16 DEF DeleteTheEvent
    <2> QED  BY <2>1, <2>2, <2>3 DEF Wrote, Disturb
  <1>17. ASSUME NEW h \in Handles, RemoveOne(r, h)  PROVE TouchedInv(r)'
    <2>1. pc[r] \in {"write", "removing"} /\ res[r][h] = "pass"
      BY <1>17 DEF RemoveOne
    <2>2. h \in Present /\ quiet[r] => WritableSince(r, events[h])
      BY <2>1 DEF AgreeInv, BeforeReturn, CheckedInv
    <2>3. UNCHANGED inForce /\ quiet'[r] = quiet[r]
      BY <1>17 DEF RemoveOne, Wrote, Disturb
    <2>4. touched'[r] = touched[r] \/ (h \in Present /\ touched'[r] = touched[r] \cup {events[h]})
      BY <1>17 DEF RemoveOne, Wrote
    <2>5. ans[r] = "none"
      BY <2>1
    <2>6. \A c : WritableSince(r, c)' = WritableSince(r, c)
      BY <2>3
    <2>7. quiet[r] => \A c \in touched[r] : WritableSince(r, c)
      BY <2>1, <2>5
    <2> HIDE DEF WritableSince, TypeOK, RequestInv, GuardInv
    <2> QED  BY <2>2, <2>3, <2>4, <2>6, <2>7
  <1>18. ASSUME NEW c \in Calendars, CheckCalendar(r, c)  PROVE TouchedInv(r)'
    BY <1>18 DEF CheckCalendar
  <1>19. ASSUME NEW c \in Calendars, UpdateTheCalendar(r, c)  PROVE TouchedInv(r)'
    BY <1>19 DEF UpdateTheCalendar, Wrote, Disturb
  <1>20. ASSUME NEW c \in Calendars, DeleteTheCalendar(r, c)  PROVE TouchedInv(r)'
    <2>1. c \in call[r].items /\ pc[r] = "write" /\ call[r].op = "DeleteCalendar" /\ Wrote(r, {c})
      BY <1>20 DEF DeleteTheCalendar
    <2>2. WritableSince(r, c)
      BY <2>1 DEF CheckedInv
    <2> QED  BY <2>1, <2>2 DEF Wrote, Disturb
  <1>21. ASSUME NEW x \in Items, Filter(r, x)  PROVE TouchedInv(r)'
    BY <1>21 DEF Filter
  <1> QED
    BY <1>1, <1>2, <1>3, <1>4, <1>5, <1>6, <1>7, <1>8, <1>9, <1>10, <1>11,
       <1>12, <1>13, <1>14, <1>15, <1>16, <1>17, <1>18, <1>19, <1>20, <1>21 DEF Step

LEMMA GuardStep == TypeOK /\ RequestsInv /\ ReadersInv /\ GuardsInv /\ [Next]_vars => GuardsInv'
  <1> SUFFICES ASSUME TypeOK, RequestsInv, ReadersInv, GuardsInv, [Next]_vars, NEW q \in Requests
               PROVE  GuardInv(q)'
    BY DEF GuardsInv
  <1>1. GuardInv(q) /\ RequestInv(q) /\ ReadInv(q)
    BY DEF GuardsInv, RequestsInv, ReadersInv
  <1>2. CASE Untouched(q) /\ UNCHANGED storeVars /\ quiet'[q] = quiet[q]
    BY <1>1, <1>2 DEF Untouched, storeVars, GuardInv, AgreeInv, CheckedInv, TouchedInv, WritableSince, Present
  <1>3. CASE Untouched(q) /\ quiet'[q] = (quiet[q] /\ ~Active(q))
    BY <1>1, <1>3 DEF Untouched, GuardInv, AgreeInv, CheckedInv, TouchedInv, WritableSince, BeforeReturn, Active
  <1>4. ASSUME NEW r \in Requests, Step(r), q # r  PROVE GuardInv(q)'
    BY <1>2, <1>3, <1>4, Frame, QuietFrame DEF Notices
  <1>5. ASSUME Step(q)  PROVE GuardInv(q)'
    BY <1>1, <1>5, AgreeOwnStep, CheckedOwnStep, TouchedOwnStep DEF GuardInv
  <1>6. CASE UNCHANGED vars
    BY <1>2, <1>6 DEF vars, locals, history, Untouched, storeVars
  <1>7. CASE OthersEdit
    BY <1>3, <1>7 DEF OthersEdit, locals, Untouched
  <1>8. ASSUME NEW p \in Policies, ReplacePolicy(p)  PROVE GuardInv(q)'
    BY <1>1, <1>8 DEF ReplacePolicy, locals, TypeOK, GuardInv, AgreeInv, CheckedInv, TouchedInv, WritableSince, BeforeReturn, Active
  <1> QED
    BY <1>4, <1>5, <1>6, <1>7, <1>8 DEF Next

LEMMA GuardInit == Init => GuardsInv
  BY DEF Init, GuardsInv, GuardInv, AgreeInv, CheckedInv, TouchedInv, NoCall, BeforeReturn, Items


-----------------------------------------------------------------------------
LEMMA TypeStep == TypeOK /\ [Next]_vars => TypeOK'
  <1> SUFFICES ASSUME TypeOK, [Next]_vars PROVE TypeOK'  OBVIOUS
  <1>1. CASE UNCHANGED vars
    BY <1>1 DEF vars, locals, history, TypeOK, StoreTypeOK
  <1> QED
    BY <1>1, TypeStepOfRequest, TypeStepOfOthers DEF Next

(* Every reachable state of any instance is well typed (calendar.go:38-65). *)
THEOREM ScopedTypes == Spec => []TypeOK
  <1> QED  BY TypeInit, TypeStep, PTL DEF Spec

LEMMA RequestsSound == Spec => []RequestsInv
  BY RequestInit, RequestStep, ScopedTypes, PTL DEF Spec

(***************************************************************************)
(* However many calls, foreign edits and reloads interleave, a create or   *)
(* update that reports success landed where it was checked, in scope       *)
(* (calendar.go:188, 233, 315, 343).                                       *)
(***************************************************************************)
THEOREM NoMisplacement == Spec => []NoSilentMisplacement
  <1>1. RequestsInv => NoSilentMisplacement
    BY DEF RequestsInv, RequestInv, NoSilentMisplacement
  <1> QED  BY <1>1, RequestsSound, PTL

(* A refused call has changed nothing (calendar.go:168-259, 304-369). *)
THEOREM RefusalsAreClean == Spec => []RefusedMeansUntouched
  <1>1. RequestsInv => RefusedMeansUntouched
    BY DEF RequestsInv, RequestInv, RefusedMeansUntouched
  <1> QED  BY <1>1, RequestsSound, PTL

(* An exact id a batch reports as deleted is gone (calendar.go:264-300). *)
THEOREM BatchesAreTruthful == Spec => []BatchReportsTruth
  <1>1. Init => BatchesInv
    BY StoreConstants DEF Init, BatchesInv, BatchInv, Items
  <1>2. Spec => []BatchesInv
    BY <1>1, BatchStep, ScopedTypes, PTL DEF Spec
  <1>3. BatchesInv => BatchReportsTruth
    BY DEF BatchesInv, BatchInv, BatchReportsTruth
  <1> QED  BY <1>2, <1>3, PTL

LEMMA ReadersSound == Spec => []ReadersInv
  BY ReadInit, ReadStep, ScopedTypes, RequestsSound, PTL DEF Spec

(***************************************************************************)
(* Whatever a read returns was, where the read saw it, in a calendar       *)
(* readable under a policy in force during the call (calendar.go:100-164). *)
(***************************************************************************)
THEOREM ReadsStayInScope == Spec => []ReadsInScope
  <1>1. ReadersInv => ReadsInScope
    BY DEF ReadersInv, ReadInv, ReadsInScope
  <1> QED  BY <1>1, ReadersSound, PTL

(***************************************************************************)
(* While nobody else writes, a write outside the writable calendars is     *)
(* reported as a scope violation or an error, never as a success or a      *)
(* refusal (calendar.go:184-196, 229-241).                                 *)
(***************************************************************************)
THEOREM QuietWritesAreGuarded == Spec => []QuietWritesGuarded
  <1>1. Spec => []GuardsInv
    BY GuardInit, GuardStep, ScopedTypes, RequestsSound, ReadersSound, PTL DEF Spec
  <1>2. GuardsInv => QuietWritesGuarded
    BY DEF GuardsInv, GuardInv, TouchedInv, QuietWritesGuarded, Returned
  <1> QED  BY <1>1, <1>2, PTL
=============================================================================
