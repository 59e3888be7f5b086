------------------------ MODULE ScopedRemindersProofs ------------------------
(***************************************************************************)
(* Proofs about ScopedReminders for any lists, reminders, policies and     *)
(* number of concurrent calls, and any number of foreign edits.            *)
(***************************************************************************)
EXTENDS ScopedReminders, TLAPS

(* The steps of one request r, one at a time. *)
LEMMA TypeInit == Init => TypeOK
  <1> SUFFICES ASSUME Init PROVE TypeOK  OBVIOUS
  <1> USE ScopedConstants, ReminderConstants DEF Init
  <1>1. StoreTypeOK  BY DEF StoreTypeOK, Live
  <1>2. call \in [Requests -> Call]
    BY DEF NoCall, Call, Ops, ListingOps
  <1>3. res \in [Requests -> [Items -> Verdicts]]  BY DEF Verdicts
  <1>4. at \in [Requests -> [Items -> Lists \cup {None}]]  OBVIOUS
  <1>5. pc \in [Requests -> Steps] /\ ans \in [Requests -> Answers]  BY DEF Steps, Answers
  <1> QED  BY <1>1, <1>2, <1>3, <1>4, <1>5 DEF TypeOK

ControlType == pc' \in [Requests -> Steps] /\ ans' \in [Requests -> Answers]

LEMMA ControlStep ==
  ASSUME TypeOK, NEW r \in Requests
  PROVE  /\ \A s \in Steps : Go(r, s) => ControlType
         /\ \A a \in Answers : Finish(r, a) => ControlType
  <1>1. pc \in [Requests -> Steps] /\ ans \in [Requests -> Answers]
    BY DEF TypeOK
  <1>2. ASSUME NEW s \in Steps, Go(r, s)  PROVE ControlType
    BY <1>1, <1>2 DEF Go, ControlType
  <1>3. "done" \in Steps
    BY DEF Steps
  <1>4. ASSUME NEW a \in Answers, Finish(r, a)  PROVE ControlType
    BY <1>1, <1>3, <1>4 DEF Finish, ControlType
  <1> QED  BY <1>2, <1>4

LEMMA Names ==
  /\ {"index", "fetch", "check", "dest", "source", "write", "removing",
      "reindex", "verify", "list", "filter"} \subseteq Steps
  /\ {"ok", "error", "violation", "denied", "notfound", "target", "immutable"} \subseteq Answers
  /\ {"none", "todo", "fetched", "pass", "ok", "shown", "hidden", "denied", "failed"} \subseteq Verdicts
  BY DEF Steps, Answers, Refusals, Verdicts

LEMMA ReplaceOne ==
  ASSUME NEW R, NEW S, NEW f \in [R -> S], NEW r \in R, NEW v \in S
  PROVE  [f EXCEPT ![r] = v] \in [R -> S]
  OBVIOUS

LEMMA SnapshotType == TypeOK => Snapshot \in [Lists -> Titles \cup {None}]
  BY DEF TypeOK, StoreTypeOK, Snapshot, Live

LEMMA VerdictType ==
  ASSUME TypeOK, NEW r \in Requests, NEW x \in Items, NEW v \in Verdicts
  PROVE  WithVerdict(r, x, v) \in [Items -> Verdicts]
  BY DEF TypeOK, WithVerdict

LEMMA NextItemType ==
  ASSUME TypeOK, NEW r \in Requests, NEW f \in [Items -> Verdicts],
         NextItem(r, f) \/ AfterRemoval(r, f)
  PROVE  ControlType /\ res' \in [Requests -> [Items -> Verdicts]]
  <1>1. res' \in [Requests -> [Items -> Verdicts]]
    BY DEF TypeOK, NextItem, AfterRemoval
  <1>2. Go(r, "fetch") \/ Go(r, "write") \/ Go(r, "removing") \/ Finish(r, "ok")
    BY DEF NextItem, AfterRemoval
  <1> QED  BY <1>1, <1>2, ControlStep, Names

(* The reminders a listing takes up: those of the lists asked for. *)
Asked(r) ==
    {m \in Present : reminders[m] \in IF call[r].title = None THEN Live ELSE NamedLike(call[r].title)}

LEMMA Listed ==
  ASSUME NEW r \in Requests, ListReminders(r)
  PROVE  /\ Asked(r) \subseteq Present
         /\ \/ /\ at' = [at EXCEPT ![r] = [x \in Items |-> IF x \in Asked(r) THEN reminders[x] ELSE None]]
               /\ res' = [res EXCEPT ![r] = [x \in Items |-> IF x \in Asked(r) THEN "todo" ELSE "none"]]
            \/ UNCHANGED <<at, res>>
  BY DEF ListReminders, Asked

LEMMA TypeStepOfRequest ==
  ASSUME TypeOK, NEW r \in Requests, Step(r)
  PROVE  TypeOK'
  <1> USE ScopedConstants, ReminderConstants DEF TypeOK, StoreTypeOK, locals, storeVars, NoWrite
  <1>1. CASE Begin(r)
    <2>1. ControlType
      BY <1>1, ControlStep, Names DEF Begin
    <2>2. PICK c \in Calls :
            /\ call' = [call EXCEPT ![r] = c]
            /\ res' = [res EXCEPT ![r] = [x \in Items |-> IF x \in c.items THEN "todo" ELSE "none"]]
      BY <1>1 DEF Begin
    <2>3. call' \in [Requests -> Call]
      BY <2>2 DEF WellFormed
    <2>4. res' \in [Requests -> [Items -> Verdicts]]
      BY <2>2, Names
    <2>5. inForce' \in [Requests -> SUBSET Policies] /\ quiet' \in [Requests -> BOOLEAN]
      BY <1>1 DEF Begin
    <2> QED
      BY <1>1, <2>1, <2>3, <2>4, <2>5 DEF Begin, ControlType
  <1>2. CASE Index(r)
    <2>1. ControlType
      BY <1>2, ControlStep, Names DEF Index
    <2>2. idx' \in [Requests -> [Lists -> Titles \cup {None}]]
      BY <1>2, SnapshotType DEF Index
    <2>3. res' \in [Requests -> [Items -> Verdicts]]
      <3>1. [x \in Items |-> IF x \in Live THEN "todo" ELSE "none"] \in [Items -> Verdicts]
        BY Names
      <3>2. \/ UNCHANGED res
            \/ res' = [res EXCEPT ![r] = [x \in Items |-> IF x \in Live THEN "todo" ELSE "none"]]
        BY <1>2 DEF Index
      <3> QED  BY <3>1, <3>2
    <2> QED
      BY <1>2, <2>1, <2>2, <2>3 DEF Index, ControlType
  <1>3. CASE IndexError(r)
    <2>1. ControlType
      BY <1>3, ControlStep, Names DEF IndexError
    <2>2. res' \in [Requests -> [Items -> Verdicts]]
      <3>1. [x \in Items |-> IF x \in call[r].items THEN "failed" ELSE "none"] \in [Items -> Verdicts]
        BY Names
      <3>2. \/ UNCHANGED res
            \/ res' = [res EXCEPT ![r] = [x \in Items |-> IF x \in call[r].items THEN "failed" ELSE "none"]]
        BY <1>3 DEF IndexError
      <3> QED  BY <3>1, <3>2
    <2> QED
      BY <1>3, <2>1, <2>2 DEF IndexError, ControlType
  <1>4. CASE CheckDest(r)
    <2>1. ControlType
      BY <1>4, ControlStep, Names DEF CheckDest
    <2>2. dest' \in [Requests -> Lists \cup {None}]
      BY <1>4 DEF CheckDest
    <2> QED
      BY <1>4, <2>1, <2>2 DEF CheckDest, ControlType
  <1>5. CASE CheckSource(r)
    <2>1. ControlType
      BY <1>5, ControlStep, Names DEF CheckSource
    <2> QED
      BY <1>5, <2>1 DEF CheckSource, ControlType
  <1>6. CASE CreateTheReminder(r)
    BY <1>6 DEF CreateTheReminder, Go, Steps, AddReminder, Wrote, NamedLike, Live
  <1>7. CASE CreateTheList(r)
    BY <1>7 DEF CreateTheList, Go, Steps, AddList, Wrote
  <1>8. CASE WriteFails(r)
    <2>1. ControlType
      BY <1>8, ControlStep, Names DEF WriteFails
    <2>2. res' \in [Requests -> [Items -> Verdicts]]
      <3>1. [x \in Items |-> IF res[r][x] = "pass" THEN "failed" ELSE res[r][x]] \in [Items -> Verdicts]
        BY Names
      <3>2. \/ UNCHANGED res
            \/ res' = [res EXCEPT ![r] = [x \in Items |-> IF res[r][x] = "pass" THEN "failed" ELSE res[r][x]]]
        BY <1>8 DEF WriteFails
      <3> QED  BY <3>1, <3>2
    <2> QED
      BY <1>8, <2>1, <2>2 DEF WriteFails, ControlType
  <1>9. CASE Reindex(r)
    <2>1. ControlType
      BY <1>9, ControlStep, Names DEF Reindex
    <2>2. idx' \in [Requests -> [Lists -> Titles \cup {None}]]
      BY <1>9, SnapshotType DEF Reindex
    <2> QED
      BY <1>9, <2>1, <2>2 DEF Reindex, ControlType
  <1>10. CASE Verify(r)
    <2>1. ControlType
      BY <1>10, ControlStep, Names DEF Verify
    <2> QED
      BY <1>10, <2>1 DEF Verify, ControlType
  <1>11. CASE ListReminders(r)
    <2>1. ControlType
      BY <1>11, ControlStep, Names DEF ListReminders
    <2>2. at' \in [Requests -> [Items -> Lists \cup {None}]]
      <3> DEFINE f == [x \in Items |-> IF x \in Asked(r) THEN reminders[x] ELSE None]
      <3>1. UNCHANGED at \/ at' = [at EXCEPT ![r] = f]
        BY <1>11, Listed
      <3>2. f \in [Items -> Lists \cup {None}]
        BY <1>11, Listed DEF Present
      <3>3. at \in [Requests -> [Items -> Lists \cup {None}]]
        OBVIOUS
      <3> HIDE DEF f, TypeOK, StoreTypeOK, locals, storeVars, NoWrite
      <3> QED  BY <3>1, <3>2, <3>3
    <2>3. res' \in [Requests -> [Items -> Verdicts]]
      <3> DEFINE f == [x \in Items |-> IF x \in Asked(r) THEN "todo" ELSE "none"]
      <3>1. UNCHANGED res \/ res' = [res EXCEPT ![r] = f]
        BY <1>11, Listed
      <3>2. f \in [Items -> Verdicts]
        BY Names
      <3>3. res \in [Requests -> [Items -> Verdicts]]
        OBVIOUS
      <3> HIDE DEF f, TypeOK, StoreTypeOK, locals, storeVars, NoWrite
      <3> QED  BY <3>1, <3>2, <3>3
    <2> QED
      BY <1>11, <2>1, <2>2, <2>3 DEF ListReminders, ControlType
  <1>12. ASSUME NEW h \in Handles, FetchReminder(r, h)  PROVE TypeOK'
    <2>1. ControlType
      BY <1>12, ControlStep, Names DEF FetchReminder
    <2>2. PICK m \in Present :
            /\ at' = [at EXCEPT ![r][h] = reminders[m]]
            /\ dest' = [dest EXCEPT ![r] = IF call[r].title \in {None, lists[reminders[m]]}
                                           THEN reminders[m] ELSE None]
      BY <1>12 DEF FetchReminder, Matching
    <2>3. reminders[m] \in Lists
      BY DEF Present
    <2>4. at' \in [Requests -> [Items -> Lists \cup {None}]] /\ dest' \in [Requests -> Lists \cup {None}]
      BY <2>2, <2>3 DEF Items
    <2>5. res' \in [Requests -> [Items -> Verdicts]]
      BY <1>12, VerdictType, Names DEF FetchReminder, Items
    <2> QED
      BY <1>12, <2>1, <2>4, <2>5 DEF FetchReminder, ControlType
  <1>13. ASSUME NEW h \in Handles, FetchFails(r, h)  PROVE TypeOK'
    <2>1. WithVerdict(r, h, "failed") \in [Items -> Verdicts]
      BY VerdictType, Names DEF Items
    <2>2. ControlType /\ res' \in [Requests -> [Items -> Verdicts]]
      BY <1>13, <2>1, NextItemType, ControlStep, Names DEF FetchFails
    <2> QED
      BY <1>13, <2>2 DEF FetchFails, ControlType
  <1>14. ASSUME NEW h \in Handles, CheckReminder(r, h)  PROVE TypeOK'
    <2>1. WithVerdict(r, h, IF IndexedWrite(r, at[r][h]) THEN "pass" ELSE "denied") \in [Items -> Verdicts]
      BY VerdictType, Names DEF Items
    <2>2. ControlType /\ res' \in [Requests -> [Items -> Verdicts]]
      BY <1>14, <2>1, NextItemType, ControlStep, Names DEF CheckReminder
    <2> QED
      BY <1>14, <2>2 DEF CheckReminder, ControlType
  <1>15. ASSUME NEW h \in Handles, UpdateTheReminder(r, h)  PROVE TypeOK'
    BY <1>15 DEF UpdateTheReminder, Go, Steps, PutReminder, Present, NamedLike, Live, Wrote
  <1>16. ASSUME NEW h \in Handles, DeleteTheReminder(r, h)  PROVE TypeOK'
    BY <1>16 DEF DeleteTheReminder, Finish, Steps, Answers, RemoveReminder, Present, Wrote
  <1>17. ASSUME NEW h \in Handles, RemoveOne(r, h)  PROVE TypeOK'
    <2>1. WithVerdict(r, h, "ok") \in [Items -> Verdicts] /\ WithVerdict(r, h, "failed") \in [Items -> Verdicts]
      BY VerdictType, Names DEF Items
    <2>2. ControlType /\ res' \in [Requests -> [Items -> Verdicts]]
      BY <1>17, <2>1, NextItemType DEF RemoveOne
    <2>3. ASSUME NEW m \in Matching(h), RemoveReminder(m), Wrote(r, {reminders[m]})  PROVE TypeOK'
      BY <1>17, <2>2, <2>3 DEF RemoveOne, ControlType, RemoveReminder, Matching, Present, Wrote
    <2>4. CASE NoWrite
      BY <1>17, <2>2, <2>4 DEF RemoveOne, ControlType
    <2> QED
      BY <1>17, <2>3, <2>4 DEF RemoveOne
  <1>18. ASSUME NEW l \in Lists, CheckList(r, l)  PROVE TypeOK'
    <2>1. ControlType
      BY <1>18, ControlStep, Names DEF CheckList
    <2> QED
      BY <1>18, <2>1 DEF CheckList, ControlType
  <1>19. ASSUME NEW l \in Lists, UpdateTheList(r, l)  PROVE TypeOK'
    BY <1>19 DEF UpdateTheList, Go, Steps, Retitle, Live, Wrote, Call
  <1>20. ASSUME NEW l \in Lists, DeleteTheList(r, l)  PROVE TypeOK'
    BY <1>20 DEF DeleteTheList, Finish, Steps, Answers, RemoveList, Live, Wrote
  <1>21. ASSUME NEW x \in Items, Filter(r, x)  PROVE TypeOK'
    <2>1. ControlType
      BY <1>21, ControlStep, Names DEF Filter
    <2>2. \E v \in Verdicts : res' = [res EXCEPT ![r] = WithVerdict(r, x, v)]
      BY <1>21, Names DEF Filter
    <2>3. res' \in [Requests -> [Items -> Verdicts]]
      BY <2>2, VerdictType, ReplaceOne
    <2> QED
      BY <1>21, <2>1, <2>3 DEF Filter, ControlType
  <1>22. ASSUME NEW h \in Handles, ChangeTheStatus(r, h)  PROVE TypeOK'
    BY <1>22 DEF ChangeTheStatus, Finish, Steps, Answers, PutReminder, Present, Wrote
  <1> QED
    BY <1>1, <1>2, <1>3, <1>4, <1>5, <1>6, <1>7, <1>8, <1>9, <1>10, <1>11, <1>12, <1>13, <1>14,
       <1>15, <1>16, <1>17, <1>18, <1>19, <1>20, <1>21, <1>22 DEF Step

LEMMA StoreType ==
  ASSUME StoreTypeOK, ExternalEdit
  PROVE  StoreTypeOK'
  <1> USE DEF StoreTypeOK
  <1>1. ASSUME NEW m \in Reminders, NEW l \in Lists, AddReminder(m, l) \/ PutReminder(m, l)  PROVE StoreTypeOK'
    BY <1>1 DEF AddReminder, PutReminder
  <1>2. ASSUME NEW m \in Reminders, RemoveReminder(m)  PROVE StoreTypeOK'
    BY <1>2 DEF RemoveReminder
  <1>3. ASSUME NEW l \in Lists, NEW t \in Titles, AddList(l, t) \/ Retitle(l, t)  PROVE StoreTypeOK'
    BY <1>3 DEF AddList, Retitle
  <1>4. ASSUME NEW l \in Lists, RemoveList(l)  PROVE StoreTypeOK'
    <2>1. reminders' = [m \in Reminders |-> IF reminders[m] = l THEN Gone ELSE reminders[m]]
      BY <1>4 DEF RemoveList
    <2>2. ASSUME NEW m \in Reminders
          PROVE  (IF reminders[m] = l THEN Gone ELSE reminders[m]) \in Lists \cup {Unborn, Gone}
      OBVIOUS
    <2>3. lists' \in [Lists -> Titles \cup {Unborn, Gone}]
      BY <1>4 DEF RemoveList
    <2> QED  BY <2>1, <2>2, <2>3
  <1> QED
    BY <1>1, <1>2, <1>3, <1>4 DEF ExternalEdit, Live, Present

LEMMA TypeStepOfOthers ==
  ASSUME TypeOK, OthersEdit \/ \E p \in Policies : ReplacePolicy(p)
  PROVE  TypeOK'
  <1> USE ScopedConstants, ReminderConstants DEF TypeOK, StoreTypeOK, locals, storeVars
  <1>1. CASE OthersEdit
    <2>1. changes' \in 0..MaxChanges
      BY <1>1 DEF OthersEdit
    <2>2. StoreTypeOK'
      BY <1>1, StoreType DEF OthersEdit
    <2> QED
      BY <1>1, <2>1, <2>2 DEF OthersEdit
  <1>2. ASSUME NEW p \in Policies, ReplacePolicy(p)  PROVE TypeOK'
    BY <1>2 DEF ReplacePolicy
  <1> QED  BY <1>1, <1>2

-----------------------------------------------------------------------------
(* What request q knows of itself is changed by no other request. *)
Untouched(q) ==
    /\ pc'[q] = pc[q] /\ call'[q] = call[q] /\ idx'[q] = idx[q] /\ at'[q] = at[q]
    /\ res'[q] = res[q] /\ dest'[q] = dest[q] /\ landed'[q] = landed[q] /\ ans'[q] = ans[q]
    /\ touched'[q] = touched[q] /\ inForce'[q] = inForce[q]

LEMMA Frame ==
  ASSUME TypeOK, NEW r \in Requests, Step(r), NEW q \in Requests, q # r
  PROVE  Untouched(q) /\ policy' = policy
  <1> USE DEF TypeOK, Untouched, Go, Finish, NoWrite, locals, storeVars
  <1>1. CASE Begin(r)
    BY <1>1 DEF Begin
  <1>2. CASE Index(r)
    BY <1>2 DEF Index
  <1>3. CASE IndexError(r)
    BY <1>3 DEF IndexError
  <1>4. CASE CheckDest(r)
    BY <1>4 DEF CheckDest
  <1>5. CASE CheckSource(r)
    BY <1>5 DEF CheckSource
  <1>6. CASE CreateTheReminder(r)
    BY <1>6 DEF CreateTheReminder, Wrote
  <1>7. CASE CreateTheList(r)
    BY <1>7 DEF CreateTheList, Wrote
  <1>8. CASE WriteFails(r)
    BY <1>8 DEF WriteFails
  <1>9. CASE Reindex(r)
    BY <1>9 DEF Reindex
  <1>10. CASE Verify(r)
    BY <1>10 DEF Verify
  <1>11. CASE ListReminders(r)
    BY <1>11 DEF ListReminders
  <1>12. ASSUME NEW h \in Handles, FetchReminder(r, h)  PROVE Untouched(q) /\ policy' = policy
    BY <1>12 DEF FetchReminder
  <1>13. ASSUME NEW h \in Handles, FetchFails(r, h)  PROVE Untouched(q) /\ policy' = policy
    BY <1>13 DEF FetchFails, NextItem
  <1>14. ASSUME NEW h \in Handles, CheckReminder(r, h)  PROVE Untouched(q) /\ policy' = policy
    BY <1>14 DEF CheckReminder, NextItem
  <1>15. ASSUME NEW h \in Handles, UpdateTheReminder(r, h)  PROVE Untouched(q) /\ policy' = policy
    BY <1>15 DEF UpdateTheReminder, Wrote
  <1>16. ASSUME NEW h \in Handles, DeleteTheReminder(r, h)  PROVE Untouched(q) /\ policy' = policy
    BY <1>16 DEF DeleteTheReminder, Wrote
  <1>17. ASSUME NEW h \in Handles, RemoveOne(r, h)  PROVE Untouched(q) /\ policy' = policy
    BY <1>17 DEF RemoveOne, AfterRemoval, Wrote
  <1>18. ASSUME NEW l \in Lists, CheckList(r, l)  PROVE Untouched(q) /\ policy' = policy
    BY <1>18 DEF CheckList
  <1>19. ASSUME NEW l \in Lists, UpdateTheList(r, l)  PROVE Untouched(q) /\ policy' = policy
    BY <1>19 DEF UpdateTheList, Wrote
  <1>20. ASSUME NEW l \in Lists, DeleteTheList(r, l)  PROVE Untouched(q) /\ policy' = policy
    BY <1>20 DEF DeleteTheList, Wrote
  <1>21. ASSUME NEW x \in Items, Filter(r, x)  PROVE Untouched(q) /\ policy' = policy
    BY <1>21 DEF Filter
  <1>22. ASSUME NEW h \in Handles, ChangeTheStatus(r, h)  PROVE Untouched(q) /\ policy' = policy
    BY <1>22 DEF ChangeTheStatus, Wrote
  <1> QED
    BY <1>1, <1>2, <1>3, <1>4, <1>5, <1>6, <1>7, <1>8, <1>9, <1>10, <1>11,
       <1>12, <1>13, <1>14, <1>15, <1>16, <1>17, <1>18, <1>19, <1>20, <1>21, <1>22 DEF Step

-----------------------------------------------------------------------------
(***************************************************************************)
(* What holds of one request along its way: it remembers the policy in     *)
(* force, it has not returned or written before its time, only listings    *)
(* reach the listing loop, and what its result claims is true.             *)
(***************************************************************************)
BeforeWrite == {"idle", "index", "fetch", "check", "dest", "source", "write", "list", "filter"}

RequestInv(q) ==
    /\ Active(q) => policy \in inForce[q]
    /\ pc[q] # "done" => ans[q] = "none"
    /\ pc[q] \in BeforeWrite => touched[q] = {}
    /\ pc[q] \in {"list", "filter"} => call[q].op \in ListingOps
    /\ ans[q] \in Refusals => touched[q] = {}
    /\ Returned(q, Verified, {"ok"}) =>
        /\ WritableSince(q, landed[q])
        /\ call[q].op \in {"CreateReminder", "UpdateReminder"} => landed[q] = dest[q]

RequestsInv == \A q \in Requests : RequestInv(q)

LEMMA RequestInit == Init => RequestsInv
  BY DEF Init, RequestsInv, RequestInv, Active, Refusals, Returned

LEMMA OwnStep ==
  ASSUME TypeOK, NEW r \in Requests, RequestInv(r), Step(r)
  PROVE  RequestInv(r)'
  <1> USE DEF TypeOK, RequestInv, BeforeWrite, Active, Refusals, Returned, Verified, ListingOps,
             Go, Finish, NoWrite, locals, storeVars
  <1>1. CASE Begin(r)
    BY <1>1 DEF Begin
  <1>2. CASE Index(r)
    BY <1>2 DEF Index
  <1>3. CASE IndexError(r)
    BY <1>3 DEF IndexError
  <1>4. CASE CheckDest(r)
    BY <1>4 DEF CheckDest
  <1>5. CASE CheckSource(r)
    BY <1>5 DEF CheckSource
  <1>6. CASE CreateTheReminder(r)
    BY <1>6 DEF CreateTheReminder, Wrote
  <1>7. CASE CreateTheList(r)
    BY <1>7 DEF CreateTheList, Wrote
  <1>8. CASE WriteFails(r)
    BY <1>8 DEF WriteFails
  <1>9. CASE Reindex(r)
    BY <1>9 DEF Reindex
  <1>10. CASE Verify(r)
    BY <1>10 DEF Verify, WritableSince, IndexedWrite, ModeOf, Writable
  <1>11. CASE ListReminders(r)
    BY <1>11 DEF ListReminders
  <1>12. ASSUME NEW h \in Handles, FetchReminder(r, h)  PROVE RequestInv(r)'
    BY <1>12 DEF FetchReminder
  <1>13. ASSUME NEW h \in Handles, FetchFails(r, h)  PROVE RequestInv(r)'
    BY <1>13 DEF FetchFails, NextItem
  <1>14. ASSUME NEW h \in Handles, CheckReminder(r, h)  PROVE RequestInv(r)'
    BY <1>14 DEF CheckReminder, NextItem
  <1>15. ASSUME NEW h \in Handles, UpdateTheReminder(r, h)  PROVE RequestInv(r)'
    BY <1>15 DEF UpdateTheReminder, Wrote
  <1>16. ASSUME NEW h \in Handles, DeleteTheReminder(r, h)  PROVE RequestInv(r)'
    BY <1>16 DEF DeleteTheReminder, Wrote
  <1>17. ASSUME NEW h \in Handles, RemoveOne(r, h)  PROVE RequestInv(r)'
    BY <1>17 DEF RemoveOne, AfterRemoval, Wrote
  <1>18. ASSUME NEW l \in Lists, CheckList(r, l)  PROVE RequestInv(r)'
    BY <1>18 DEF CheckList, OneListOps
  <1>19. ASSUME NEW l \in Lists, UpdateTheList(r, l)  PROVE RequestInv(r)'
    BY <1>19 DEF UpdateTheList, Wrote
  <1>20. ASSUME NEW l \in Lists, DeleteTheList(r, l)  PROVE RequestInv(r)'
    BY <1>20 DEF DeleteTheList, Wrote
  <1>21. ASSUME NEW x \in Items, Filter(r, x)  PROVE RequestInv(r)'
    BY <1>21 DEF Filter
  <1>22. ASSUME NEW h \in Handles, ChangeTheStatus(r, h)  PROVE RequestInv(r)'
    BY <1>22 DEF ChangeTheStatus, Wrote
  <1> QED
    BY <1>1, <1>2, <1>3, <1>4, <1>5, <1>6, <1>7, <1>8, <1>9, <1>10, <1>11,
       <1>12, <1>13, <1>14, <1>15, <1>16, <1>17, <1>18, <1>19, <1>20, <1>21, <1>22 DEF Step

LEMMA OthersStep ==
  ASSUME TypeOK, NEW q \in Requests, RequestInv(q),
         OthersEdit \/ \E p \in Policies : ReplacePolicy(p)
  PROVE  RequestInv(q)'
  <1> USE DEF RequestInv, Active, Returned, WritableSince, locals
  <1>1. CASE OthersEdit
    BY <1>1 DEF OthersEdit
  <1>2. ASSUME NEW p \in Policies, ReplacePolicy(p)  PROVE RequestInv(q)'
    BY <1>2 DEF ReplacePolicy, TypeOK
  <1> QED  BY <1>1, <1>2

LEMMA RequestStep == TypeOK /\ RequestsInv /\ [Next]_vars => RequestsInv'
  <1> SUFFICES ASSUME TypeOK, RequestsInv, [Next]_vars, NEW q \in Requests
               PROVE  RequestInv(q)'
    BY DEF RequestsInv
  <1> USE DEF RequestsInv
  <1>1. ASSUME NEW r \in Requests, Step(r), q # r  PROVE RequestInv(q)'
    <2>1. Untouched(q) /\ policy' = policy
      BY <1>1, Frame
    <2> QED
      BY <2>1 DEF Untouched, RequestInv, Active, Returned, WritableSince
  <1>2. ASSUME Step(q)  PROVE RequestInv(q)'
    BY <1>2, OwnStep
  <1>3. CASE UNCHANGED vars
    BY <1>3 DEF vars, locals, RequestInv, Active, Returned, WritableSince
  <1> QED
    BY <1>1, <1>2, <1>3, OthersStep DEF Next

-----------------------------------------------------------------------------
(* No reminder identifier is used again, and none exists before it is minted. *)
StoreGrows ==
    \A m \in Reminders : /\ reminders[m] = Gone => reminders'[m] = Gone
                         /\ reminders[m] # Unborn => reminders'[m] # Unborn

LEMMA StoreStep ==
  ASSUME TypeOK, [Next]_vars
  PROVE  StoreGrows
  <1> USE ScopedConstants, ReminderConstants DEF TypeOK, StoreTypeOK, StoreGrows, storeVars
  <1>1. ASSUME NEW m \in Reminders, NEW l \in Lists, AddReminder(m, l) \/ PutReminder(m, l)  PROVE StoreGrows
    BY <1>1 DEF AddReminder, PutReminder, Present
  <1>2. ASSUME NEW m, RemoveReminder(m)  PROVE StoreGrows
    BY <1>2 DEF RemoveReminder
  <1>3. ASSUME NEW l, RemoveList(l)  PROVE StoreGrows
    BY <1>3 DEF RemoveList, Live
  <1>4. CASE UNCHANGED reminders
    BY <1>4
  <1>5. ASSUME NEW r \in Requests, Step(r)  PROVE StoreGrows
    <2> USE DEF NoWrite
    <2>1. CASE Begin(r) \/ Index(r) \/ IndexError(r) \/ CheckDest(r) \/ CheckSource(r)
      BY <2>1, <1>4 DEF Begin, Index, IndexError, CheckDest, CheckSource
    <2>2. CASE WriteFails(r) \/ Reindex(r) \/ Verify(r) \/ ListReminders(r)
      BY <2>2, <1>4 DEF WriteFails, Reindex, Verify, ListReminders
    <2>3. CASE CreateTheReminder(r)
      BY <2>3, <1>1 DEF CreateTheReminder, NamedLike, Live
    <2>4. CASE CreateTheList(r)
      BY <2>4, <1>4 DEF CreateTheList, AddList
    <2>5. ASSUME NEW h \in Handles, FetchReminder(r, h) \/ FetchFails(r, h) \/ CheckReminder(r, h)  PROVE StoreGrows
      BY <2>5, <1>4 DEF FetchReminder, FetchFails, CheckReminder
    <2>6. ASSUME NEW h \in Handles, UpdateTheReminder(r, h)  PROVE StoreGrows
      BY <2>6, <1>1 DEF UpdateTheReminder, NamedLike, Live, Matching, Present
    <2>7. ASSUME NEW h \in Handles, DeleteTheReminder(r, h) \/ RemoveOne(r, h)  PROVE StoreGrows
      BY <2>7, <1>2, <1>4 DEF DeleteTheReminder, RemoveOne
    <2>10. ASSUME NEW h \in Handles, ChangeTheStatus(r, h)  PROVE StoreGrows
      BY <2>10, <1>1 DEF ChangeTheStatus, Matching, Present
    <2>8. ASSUME NEW l \in Lists, CheckList(r, l) \/ UpdateTheList(r, l) \/ DeleteTheList(r, l)
          PROVE StoreGrows
      BY <2>8, <1>3, <1>4 DEF CheckList, UpdateTheList, DeleteTheList, Retitle
    <2>9. ASSUME NEW x \in Items, Filter(r, x)  PROVE StoreGrows
      BY <2>9, <1>4 DEF Filter
    <2> QED
      BY <1>5, <2>1, <2>2, <2>3, <2>4, <2>5, <2>6, <2>7, <2>8, <2>9, <2>10 DEF Step
  <1>6. CASE OthersEdit
    BY <1>6, <1>1, <1>2, <1>3, <1>4 DEF OthersEdit, ExternalEdit, Live, Present, AddList, Retitle
  <1>7. ASSUME NEW p \in Policies, ReplacePolicy(p)  PROVE StoreGrows
    BY <1>7, <1>4 DEF ReplacePolicy
  <1> QED
    BY <1>4, <1>5, <1>6, <1>7 DEF Next, vars

(***************************************************************************)
(* Why a batch tells the truth: an exact id that was fetched names a       *)
(* reminder that exists or is gone for good, so an id the bridge skips can *)
(* only be gone.                                                           *)
(***************************************************************************)
BatchInv(q) ==
    \A m \in Reminders : /\ res[q][m] \in {"fetched", "pass"} => reminders[m] # Unborn
                         /\ res[q][m] = "ok" => reminders[m] = Gone

LEMMA BatchOwnStep ==
  ASSUME TypeOK, NEW r \in Requests, BatchInv(r), Step(r), StoreGrows
  PROVE  BatchInv(r)'
  <1> USE ReminderConstants DEF TypeOK, StoreTypeOK, BatchInv, StoreGrows, WithVerdict, Items, NoWrite, locals, storeVars
  <1>1. CASE Begin(r)
    BY <1>1 DEF Begin
  <1>2. CASE Index(r)
    <2>1. \/ UNCHANGED res
          \/ res'[r] = [x \in Items |-> IF x \in Live THEN "todo" ELSE "none"]
      BY <1>2 DEF Index
    <2>2. reminders' = reminders
      BY <1>2 DEF Index
    <2> QED
      BY <2>1, <2>2
  <1>3. CASE IndexError(r)
    BY <1>3 DEF IndexError
  <1>4. CASE CheckDest(r)
    BY <1>4 DEF CheckDest
  <1>5. CASE CheckSource(r)
    BY <1>5 DEF CheckSource
  <1>6. CASE CreateTheReminder(r)
    BY <1>6 DEF CreateTheReminder
  <1>7. CASE CreateTheList(r)
    BY <1>7 DEF CreateTheList
  <1>8. CASE WriteFails(r)
    BY <1>8 DEF WriteFails
  <1>9. CASE Reindex(r)
    BY <1>9 DEF Reindex
  <1>10. CASE Verify(r)
    BY <1>10 DEF Verify
  <1>11. CASE ListReminders(r)
    <2>1. \/ UNCHANGED res
          \/ res'[r] = [x \in Items |-> IF x \in Asked(r) THEN "todo" ELSE "none"]
      <3> HIDE DEF Items
      <3>1. UNCHANGED res \/ res' = [res EXCEPT ![r] = [x \in Items |-> IF x \in Asked(r) THEN "todo" ELSE "none"]]
        BY <1>11, Listed
      <3> QED  BY <3>1
    <2>2. reminders' = reminders
      BY <1>11 DEF ListReminders
    <2> QED
      BY <2>1, <2>2
  <1>12. ASSUME NEW h \in Handles, FetchReminder(r, h)  PROVE BatchInv(r)'
    BY <1>12 DEF FetchReminder, Matching, Present
  <1>13. ASSUME NEW h \in Handles, FetchFails(r, h)  PROVE BatchInv(r)'
    BY <1>13 DEF FetchFails, NextItem
  <1>14. ASSUME NEW h \in Handles, CheckReminder(r, h)  PROVE BatchInv(r)'
    <2>1. res[r][h] = "fetched" /\ reminders' = reminders
      BY <1>14 DEF CheckReminder
    <2>2. \/ UNCHANGED res
          \/ res'[r] = WithVerdict(r, h, IF IndexedWrite(r, at[r][h]) THEN "pass" ELSE "denied")
      BY <1>14 DEF CheckReminder, NextItem
    <2> QED  BY <2>1, <2>2
  <1>15. ASSUME NEW h \in Handles, UpdateTheReminder(r, h)  PROVE BatchInv(r)'
    BY <1>15 DEF UpdateTheReminder
  <1>16. ASSUME NEW h \in Handles, DeleteTheReminder(r, h)  PROVE BatchInv(r)'
    BY <1>16 DEF DeleteTheReminder
  <1>17. ASSUME NEW h \in Handles, RemoveOne(r, h)  PROVE BatchInv(r)'
    <2>1. /\ res[r][h] = "pass"
          /\ res'[r] = WithVerdict(r, h, "ok") \/ res'[r] = WithVerdict(r, h, "failed")
      BY <1>17 DEF RemoveOne, AfterRemoval
    <2>2. /\ \A m \in Reminders \ {h} : res'[r][m] = res[r][m]
          /\ res'[r][h] \in {"ok", "failed"}
      <3>1. res[r] \in [Items -> Verdicts] /\ h \in Items /\ Reminders \subseteq Items
        OBVIOUS
      <3> HIDE DEF Items, TypeOK
      <3> QED  BY <2>1, <3>1
    <2>3. h \in Reminders => Matching(h) = {h} \cap Present
      BY DEF Matching
    <2>4. ASSUME h \in Reminders, res'[r][h] = "ok"  PROVE reminders'[h] = Gone
      <3>1. CASE \E m \in Matching(h) : RemoveReminder(m)
        BY <2>3, <2>4, <3>1 DEF RemoveReminder
      <3>2. CASE Matching(h) = {} /\ UNCHANGED reminders
        BY <2>1, <2>3, <2>4, <3>2 DEF Present
      <3>3. CASE res'[r] = WithVerdict(r, h, "failed")
        BY <2>4, <3>3
      <3> QED  BY <1>17, <3>1, <3>2, <3>3 DEF RemoveOne, AfterRemoval
    <2> QED  BY <2>2, <2>3, <2>4
  <1>18. ASSUME NEW l \in Lists, CheckList(r, l)  PROVE BatchInv(r)'
    BY <1>18 DEF CheckList
  <1>19. ASSUME NEW l \in Lists, UpdateTheList(r, l)  PROVE BatchInv(r)'
    BY <1>19 DEF UpdateTheList
  <1>20. ASSUME NEW l \in Lists, DeleteTheList(r, l)  PROVE BatchInv(r)'
    BY <1>20 DEF DeleteTheList
  <1>21. ASSUME NEW x \in Items, Filter(r, x)  PROVE BatchInv(r)'
    BY <1>21 DEF Filter
  <1>22. ASSUME NEW h \in Handles, ChangeTheStatus(r, h)  PROVE BatchInv(r)'
    BY <1>22 DEF ChangeTheStatus, Wrote
  <1> QED
    BY <1>1, <1>2, <1>3, <1>4, <1>5, <1>6, <1>7, <1>8, <1>9, <1>10, <1>11,
       <1>12, <1>13, <1>14, <1>15, <1>16, <1>17, <1>18, <1>19, <1>20, <1>21, <1>22 DEF Step

BatchesInv == \A q \in Requests : BatchInv(q)

LEMMA BatchStep == TypeOK /\ BatchesInv /\ [Next]_vars => BatchesInv'
  <1> SUFFICES ASSUME TypeOK, BatchesInv, [Next]_vars, NEW q \in Requests
               PROVE  BatchInv(q)'
    BY DEF BatchesInv
  <1> USE DEF BatchesInv
  <1>1. StoreGrows
    BY StoreStep
  <1>2. CASE res'[q] = res[q]
    BY <1>1, <1>2 DEF BatchInv, StoreGrows
  <1>3. ASSUME NEW r \in Requests, Step(r), q # r  PROVE BatchInv(q)'
    BY <1>3, <1>2, Frame DEF Untouched
  <1>4. ASSUME Step(q)  PROVE BatchInv(q)'
    BY <1>4, <1>1, BatchOwnStep
  <1>5. CASE (\E p \in Policies : ReplacePolicy(p)) \/ OthersEdit \/ UNCHANGED vars
    BY <1>5, <1>2 DEF ReplacePolicy, OthersEdit, vars, locals
  <1> QED
    BY <1>3, <1>4, <1>5 DEF Next

-----------------------------------------------------------------------------
(***************************************************************************)
(* Why a read stays in scope: each step of a method belongs to its kind of *)
(* call, a verdict is given on an item of the call only, and what is shown *)
(* was readable when its turn came.                                        *)
(***************************************************************************)
ReadInv(q) ==
    /\ WellFormed(call[q])
    /\ pc[q] = "fetch" => call[q].op \in ReminderOps
    /\ pc[q] \in {"reindex", "verify"} => call[q].op \in Verified
    /\ call[q].op \notin ListingOps =>
        \A x \in Items : res[q][x] # "shown" /\ (res[q][x] # "none" => x \in call[q].items)
    /\ Returned(q, {"List"}, {"ok"}) => \A l \in call[q].items : ReadableSince(q, l)
    /\ Returned(q, {"Reminder"}, {"ok"}) => \A x \in call[q].items : ReadableSince(q, at[q][x])
    /\ \A x \in Items : res[q][x] = "shown" =>
        IF call[q].op = "Lists" THEN ReadableSince(q, x) ELSE ReadableSince(q, at[q][x])

ReadersInv == \A q \in Requests : ReadInv(q)

LEMMA ReadOwnStep ==
  ASSUME TypeOK, NEW r \in Requests, RequestInv(r), ReadInv(r), Step(r)
  PROVE  ReadInv(r)'
  <1> USE DEF TypeOK, RequestInv, ReadInv, Active, Returned, ReadableSince, WithVerdict,
             ReminderOps, OneReminderOps, OneListOps, ListingOps, TargetOps, Verified, Items,
             Go, Finish, NoWrite, locals, storeVars
  <1>1. CASE Begin(r)
    BY <1>1, ScopedConstants DEF Begin
  <1>2. CASE Index(r)
    BY <1>2 DEF Index
  <1>3. CASE IndexError(r)
    <2>1. CASE call[r].op = "DeleteReminders"
      <3>1. /\ pc' = [pc EXCEPT ![r] = "done"] /\ UNCHANGED <<call, at, inForce>>
            /\ res'[r] = [x \in Items |-> IF x \in call[r].items THEN "failed" ELSE "none"]
        BY <1>3, <2>1 DEF IndexError
      <3> QED  BY <2>1, <3>1
    <2>2. CASE call[r].op # "DeleteReminders"
      BY <1>3, <2>2 DEF IndexError
    <2> QED  BY <2>1, <2>2
  <1>4. CASE CheckDest(r)
    BY <1>4 DEF CheckDest
  <1>5. CASE CheckSource(r)
    BY <1>5 DEF CheckSource
  <1>6. CASE CreateTheReminder(r)
    BY <1>6 DEF CreateTheReminder, Wrote
  <1>7. CASE CreateTheList(r)
    BY <1>7 DEF CreateTheList, Wrote
  <1>8. CASE WriteFails(r)
    BY <1>8 DEF WriteFails
  <1>9. CASE Reindex(r)
    BY <1>9 DEF Reindex
  <1>10. CASE Verify(r)
    BY <1>10 DEF Verify
  <1>11. CASE ListReminders(r)
    <2>1. /\ pc[r] = "list" /\ call[r].op \in ListingOps
          /\ pc'[r] \in {"filter", "done"} /\ UNCHANGED <<call, inForce>>
      BY <1>11 DEF ListReminders
    <2>2. UNCHANGED <<at, res>> \/ \A x \in Items : res'[r][x] # "shown"
      <3> HIDE DEF Items
      <3>1. \/ UNCHANGED <<at, res>>
            \/ res' = [res EXCEPT ![r] = [x \in Items |-> IF x \in Asked(r) THEN "todo" ELSE "none"]]
        BY <1>11, Listed
      <3>2. CASE res' = [res EXCEPT ![r] = [x \in Items |-> IF x \in Asked(r) THEN "todo" ELSE "none"]]
        <4>1. res'[r] = [x \in Items |-> IF x \in Asked(r) THEN "todo" ELSE "none"]
          BY <3>2
        <4> QED  BY <4>1
      <3> QED  BY <3>1, <3>2
    <2> QED  BY <2>1, <2>2
  <1>12. ASSUME NEW h \in Handles, FetchReminder(r, h)  PROVE ReadInv(r)'
    BY <1>12 DEF FetchReminder
  <1>13. ASSUME NEW h \in Handles, FetchFails(r, h)  PROVE ReadInv(r)'
    BY <1>13 DEF FetchFails, NextItem
  <1>14. ASSUME NEW h \in Handles, CheckReminder(r, h)  PROVE ReadInv(r)'
    <2>1. h \in call[r].items /\ UNCHANGED <<call, at, inForce>>
      BY <1>14 DEF CheckReminder
    <2>2. CASE call[r].op = "Reminder"
      <3>1. \A x \in call[r].items : x = h
        BY <2>1, <2>2 DEF WellFormed
      <3>2. UNCHANGED res /\ pc' = [pc EXCEPT ![r] = "done"]
        BY <1>14, <2>2 DEF CheckReminder
      <3>3. ans'[r] = "ok" => ReadableSince(r, at[r][h])
        BY <1>14, <2>2 DEF CheckReminder, IndexedRead, ModeOf, Readable
      <3> QED  BY <2>1, <2>2, <3>1, <3>2, <3>3
    <2>3. CASE call[r].op \in {"UpdateReminder", "DeleteReminder"}
      BY <1>14, <2>1, <2>3 DEF CheckReminder
    <2>4. CASE call[r].op = "DeleteReminders"
      <3>1. \E v \in {"pass", "denied"} : res' = [res EXCEPT ![r] = WithVerdict(r, h, v)]
        BY <1>14, <2>4 DEF CheckReminder, NextItem
      <3>2. pc'[r] \in {"fetch", "write", "done"}
        BY <1>14, <2>4 DEF CheckReminder, NextItem
      <3>3. \A x \in Items : res'[r][x] # "shown" /\ (res'[r][x] # "none" => x \in call[r].items)
        BY <2>1, <2>4, <3>1
      <3> QED  BY <2>1, <2>4, <3>2, <3>3
    <2> QED  BY <1>14, <2>2, <2>3, <2>4 DEF CheckReminder
  <1>15. ASSUME NEW h \in Handles, UpdateTheReminder(r, h)  PROVE ReadInv(r)'
    BY <1>15 DEF UpdateTheReminder, Wrote
  <1>16. ASSUME NEW h \in Handles, DeleteTheReminder(r, h)  PROVE ReadInv(r)'
    BY <1>16 DEF DeleteTheReminder, Wrote
  <1>17. ASSUME NEW h \in Handles, RemoveOne(r, h)  PROVE ReadInv(r)'
    BY <1>17 DEF RemoveOne, AfterRemoval, Wrote
  <1>18. ASSUME NEW l \in Lists, CheckList(r, l)  PROVE ReadInv(r)'
    BY <1>18 DEF CheckList, ModeOf, Readable, WellFormed
  <1>19. ASSUME NEW l \in Lists, UpdateTheList(r, l)  PROVE ReadInv(r)'
    BY <1>19 DEF UpdateTheList, Wrote
  <1>20. ASSUME NEW l \in Lists, DeleteTheList(r, l)  PROVE ReadInv(r)'
    BY <1>20 DEF DeleteTheList, Wrote
  <1>21. ASSUME NEW x \in Items, Filter(r, x)  PROVE ReadInv(r)'
    BY <1>21 DEF Filter, IndexedRead, ModeOf, Readable
  <1>22. ASSUME NEW h \in Handles, ChangeTheStatus(r, h)  PROVE ReadInv(r)'
    BY <1>22 DEF ChangeTheStatus, Wrote
  <1> QED
    BY <1>1, <1>2, <1>3, <1>4, <1>5, <1>6, <1>7, <1>8, <1>9, <1>10, <1>11,
       <1>12, <1>13, <1>14, <1>15, <1>16, <1>17, <1>18, <1>19, <1>20, <1>21, <1>22 DEF Step

LEMMA ReadStep == TypeOK /\ RequestsInv /\ ReadersInv /\ [Next]_vars => ReadersInv'
  <1> SUFFICES ASSUME TypeOK, RequestsInv, ReadersInv, [Next]_vars, NEW q \in Requests
               PROVE  ReadInv(q)'
    BY DEF ReadersInv
  <1> USE DEF ReadersInv
  <1>1. CASE Untouched(q)
    BY <1>1 DEF Untouched, ReadInv, Returned, ReadableSince
  <1>2. ASSUME NEW r \in Requests, Step(r), q # r  PROVE ReadInv(q)'
    BY <1>1, <1>2, Frame
  <1>3. ASSUME Step(q)  PROVE ReadInv(q)'
    BY <1>3, ReadOwnStep DEF RequestsInv
  <1>4. CASE OthersEdit \/ UNCHANGED vars
    BY <1>1, <1>4 DEF OthersEdit, vars, locals, Untouched
  <1>5. ASSUME NEW p \in Policies, ReplacePolicy(p)  PROVE ReadInv(q)'
    BY <1>5 DEF ReplacePolicy, locals, TypeOK, ReadInv, Returned, ReadableSince
  <1> QED
    BY <1>2, <1>3, <1>4, <1>5 DEF Next

LEMMA ReadInit == Init => ReadersInv
  BY DEF Init, ReadersInv, ReadInv, NoCall, WellFormed, Call, Ops, ReminderOps, OneReminderOps, OneListOps, ListingOps,
         TargetOps, Returned

-----------------------------------------------------------------------------
(***************************************************************************)
(* Why a quiet write on exact ids is guarded: while nobody else writes, a  *)
(* reminder stays in the list it was fetched from, which was writable when *)
(* it was checked, and the id names the same reminder when the bridge      *)
(* resolves it again; what a write touches besides is where it landed, and *)
(* the check on the way out decides about that.                            *)
(***************************************************************************)
BeforeReturn == {"index", "fetch", "check", "dest", "write", "removing"}

(* A fetched reminder is still where it was found. *)
AgreeInv(q) ==
    quiet[q] /\ pc[q] \in BeforeReturn =>
        \A m \in Present : res[q][m] \in {"fetched", "pass"} => at[q][m] = reminders[m]

(* Whoever is about to write has been checked. *)
CheckedInv(q) ==
    /\ pc[q] = "dest" => call[q].op \in {"CreateReminder", "UpdateReminder"}
    /\ pc[q] = "source" => call[q].op = "CreateList"
    /\ \A h \in Handles : res[q][h] = "pass" => WritableSince(q, at[q][h])
    /\ call[q].op \in OneReminderOps \ {"Reminder"} =>
        /\ pc[q] \in {"check", "dest", "write"} => \A h \in call[q].items : res[q][h] = "fetched"
        /\ pc[q] \in {"dest", "write"} => \A h \in call[q].items : WritableSince(q, at[q][h])
    /\ call[q].op \in {"UpdateList", "DeleteList"} /\ pc[q] = "write" =>
        \A l \in call[q].items : WritableSince(q, l)

(* What has been written is in scope, or is about to be reported. *)
TouchedInv(q) ==
    quiet[q] /\ Exact(q) => \A l \in touched[q] :
        \/ WritableSince(q, l)
        \/ pc[q] \in {"reindex", "verify"} /\ l = landed[q]
        \/ ans[q] \in {"violation", "error"}

GuardInv(q) == AgreeInv(q) /\ CheckedInv(q) /\ TouchedInv(q)

GuardsInv == \A q \in Requests : GuardInv(q)

(* No other request changes what is quiet about q's call unless it ends it. *)
Notices(q) ==
    \/ UNCHANGED storeVars /\ quiet'[q] = quiet[q]
    \/ quiet'[q] = (quiet[q] /\ ~Active(q))

LEMMA QuietFrame ==
  ASSUME TypeOK, NEW r \in Requests, Step(r), NEW q \in Requests, q # r
  PROVE  Notices(q)
  <1> USE DEF TypeOK, NoWrite, Notices
  <1>1. ASSUME NEW S, Wrote(r, S)  PROVE Notices(q)
    BY <1>1 DEF Wrote
  <1>2. CASE Begin(r)
    BY <1>2 DEF Begin, storeVars
  <1>3. CASE Index(r) \/ IndexError(r) \/ CheckDest(r) \/ CheckSource(r) \/ WriteFails(r)
    BY <1>3 DEF Index, IndexError, CheckDest, CheckSource, WriteFails
  <1>4. CASE Reindex(r) \/ Verify(r) \/ ListReminders(r)
    BY <1>4 DEF Reindex, Verify, ListReminders
  <1>5. CASE CreateTheReminder(r) \/ CreateTheList(r)
    BY <1>1, <1>5 DEF CreateTheReminder, CreateTheList
  <1>6. ASSUME NEW h \in Handles, FetchReminder(r, h) \/ FetchFails(r, h) \/ CheckReminder(r, h)  PROVE Notices(q)
    BY <1>6 DEF FetchReminder, FetchFails, CheckReminder
  <1>7. ASSUME NEW h \in Handles, UpdateTheReminder(r, h) \/ DeleteTheReminder(r, h) \/ ChangeTheStatus(r, h) \/ RemoveOne(r, h)
        PROVE  Notices(q)
    BY <1>1, <1>7 DEF UpdateTheReminder, DeleteTheReminder, ChangeTheStatus, RemoveOne
  <1>8. ASSUME NEW l \in Lists, CheckList(r, l) \/ UpdateTheList(r, l) \/ DeleteTheList(r, l)
        PROVE  Notices(q)
    BY <1>1, <1>8 DEF CheckList, UpdateTheList, DeleteTheList
  <1>9. ASSUME NEW x \in Items, Filter(r, x)  PROVE Notices(q)
    BY <1>9 DEF Filter
  <1> QED
    BY <1>2, <1>3, <1>4, <1>5, <1>6, <1>7, <1>8, <1>9 DEF Step

LEMMA AgreeOwnStep ==
  ASSUME TypeOK, NEW r \in Requests, ReadInv(r), CheckedInv(r), AgreeInv(r), Step(r)
  PROVE  AgreeInv(r)'
  <1> USE ReminderConstants DEF TypeOK, AgreeInv, BeforeReturn, WithVerdict, Items, Present, Go, Finish, NoWrite, locals, storeVars
  <1>1. CASE Begin(r)
    <2>1. \A x \in Items : res'[r][x] \in {"todo", "none"}
      BY <1>1 DEF Begin
    <2> QED  BY <2>1
  <1>2. CASE Index(r)
    BY <1>2 DEF Index
  <1>3. CASE IndexError(r)
    BY <1>3 DEF IndexError
  <1>4. CASE CheckDest(r)
    BY <1>4 DEF CheckDest
  <1>5. CASE CheckSource(r)
    <2>1. \A x \in Items : res[r][x] = "none"
      BY <1>5 DEF CheckSource, CheckedInv, ReadInv, WellFormed, ListingOps, TargetOps
    <2>2. UNCHANGED res
      BY <1>5 DEF CheckSource
    <2> QED  BY <2>1, <2>2
  <1>6. CASE CreateTheReminder(r)
    BY <1>6 DEF CreateTheReminder, Wrote
  <1>7. CASE CreateTheList(r)
    BY <1>7 DEF CreateTheList, Wrote
  <1>8. CASE WriteFails(r)
    BY <1>8 DEF WriteFails
  <1>9. CASE Reindex(r)
    BY <1>9 DEF Reindex
  <1>10. CASE Verify(r)
    BY <1>10 DEF Verify
  <1>11. CASE ListReminders(r)
    BY <1>11 DEF ListReminders
  <1>12. ASSUME NEW h \in Handles, FetchReminder(r, h)  PROVE AgreeInv(r)'
    BY <1>12 DEF FetchReminder, Matching
  <1>13. ASSUME NEW h \in Handles, FetchFails(r, h)  PROVE AgreeInv(r)'
    <2>1. UNCHANGED <<at, reminders, quiet>>
      BY <1>13 DEF FetchFails
    <2>2. UNCHANGED res \/ res'[r] = [res[r] EXCEPT ![h] = "failed"]
      BY <1>13 DEF FetchFails, NextItem
    <2> QED  BY <1>13, <2>1, <2>2 DEF FetchFails
  <1>14. ASSUME NEW h \in Handles, CheckReminder(r, h)  PROVE AgreeInv(r)'
    <2>1. UNCHANGED <<at, reminders, quiet>> /\ pc[r] = "check" /\ res[r][h] = "fetched"
      BY <1>14 DEF CheckReminder, OneReminderOps
    <2>2. \A m \in Items \ {h} : res'[r][m] = res[r][m]
      <3>1. call[r].op # "DeleteReminders" => UNCHANGED res
        BY <1>14 DEF CheckReminder, OneReminderOps
      <3>2. call[r].op = "DeleteReminders" =>
              res' = [res EXCEPT ![r] = WithVerdict(r, h, IF IndexedWrite(r, at[r][h]) THEN "pass" ELSE "denied")]
        BY <1>14 DEF CheckReminder, NextItem, OneReminderOps
      <3> QED  BY <3>1, <3>2
    <2>3. \A m \in Reminders : res'[r][m] \in {"fetched", "pass"} => res[r][m] \in {"fetched", "pass"}
      BY <2>1, <2>2
    <2> QED  BY <2>1, <2>3
  <1>15. ASSUME NEW h \in Handles, UpdateTheReminder(r, h)  PROVE AgreeInv(r)'
    BY <1>15 DEF UpdateTheReminder, Wrote
  <1>16. ASSUME NEW h \in Handles, DeleteTheReminder(r, h)  PROVE AgreeInv(r)'
    BY <1>16 DEF DeleteTheReminder, Wrote
  <1>17. ASSUME NEW h \in Handles, RemoveOne(r, h)  PROVE AgreeInv(r)'
    <2>1. UNCHANGED at /\ quiet'[r] = quiet[r] /\ pc[r] \in {"write", "removing"}
      BY <1>17 DEF RemoveOne, Wrote
    <2>2. \E v \in {"ok", "failed"} : res'[r] = [res[r] EXCEPT ![h] = v]
      BY <1>17 DEF RemoveOne, AfterRemoval
    <2>3. \A m \in Reminders : reminders'[m] = reminders[m] \/ reminders'[m] = Gone
      <3>1. UNCHANGED reminders \/ \E m \in Matching(h) : RemoveReminder(m)
        BY <1>17 DEF RemoveOne
      <3>2. reminders \in [Reminders -> Lists \cup {Unborn, Gone}]
        BY DEF StoreTypeOK
      <3> HIDE DEF TypeOK
      <3> QED  BY <3>1, <3>2 DEF RemoveReminder
    <2>4. \A m \in Reminders : res'[r][m] \in {"fetched", "pass"} => res'[r][m] = res[r][m]
      <3>1. res[r] \in [Items -> Verdicts] /\ h \in Items /\ Reminders \subseteq Items
        OBVIOUS
      <3> HIDE DEF Items, TypeOK
      <3> QED  BY <2>2, <3>1
    <2> QED  BY <2>1, <2>3, <2>4
  <1>18. ASSUME NEW l \in Lists, CheckList(r, l)  PROVE AgreeInv(r)'
    BY <1>18 DEF CheckList
  <1>19. ASSUME NEW l \in Lists, UpdateTheList(r, l)  PROVE AgreeInv(r)'
    BY <1>19 DEF UpdateTheList, Wrote
  <1>20. ASSUME NEW l \in Lists, DeleteTheList(r, l)  PROVE AgreeInv(r)'
    BY <1>20 DEF DeleteTheList, Wrote
  <1>21. ASSUME NEW x \in Items, Filter(r, x)  PROVE AgreeInv(r)'
    BY <1>21 DEF Filter
  <1>22. ASSUME NEW h \in Handles, ChangeTheStatus(r, h)  PROVE AgreeInv(r)'
    BY <1>22 DEF ChangeTheStatus, Wrote
  <1> QED
    BY <1>1, <1>2, <1>3, <1>4, <1>5, <1>6, <1>7, <1>8, <1>9, <1>10, <1>11,
       <1>12, <1>13, <1>14, <1>15, <1>16, <1>17, <1>18, <1>19, <1>20, <1>21, <1>22 DEF Step

LEMMA CheckedOwnStep ==
  ASSUME TypeOK, NEW r \in Requests, RequestInv(r), ReadInv(r), CheckedInv(r), Step(r)
  PROVE  CheckedInv(r)'
  <1> USE ReminderConstants DEF TypeOK, OneReminderOps, CheckedInv, WritableSince, WithVerdict, Items, Go, Finish, NoWrite, locals
  <1>1. CASE Begin(r)
    BY <1>1 DEF Begin
  <1>2. CASE Index(r)
    <2>1. UNCHANGED <<call, at, inForce>> /\ pc[r] = "index"
      BY <1>2 DEF Index
    <2>2. /\ pc'[r] = "dest" => call[r].op = "CreateReminder"
          /\ pc'[r] # "source" /\ pc'[r] # "write"
          /\ pc'[r] = "check" => call[r].op \in OneListOps \cup {"Reminder"}
      BY <1>2 DEF Index
    <2>3. UNCHANGED res \/ res'[r] = [x \in Items |-> IF x \in Live THEN "todo" ELSE "none"]
      BY <1>2 DEF Index
    <2>4. \A h \in Handles : res'[r][h] = "pass" => res[r][h] = "pass"
      BY <2>3
    <2> QED  BY <2>1, <2>2, <2>4 DEF OneListOps
  <1>3. CASE IndexError(r)
    <2>1. UNCHANGED <<call, at, inForce>> /\ pc'[r] = "done"
      BY <1>3 DEF IndexError
    <2>2. UNCHANGED res \/ res'[r] = [x \in Items |-> IF x \in call[r].items THEN "failed" ELSE "none"]
      BY <1>3 DEF IndexError
    <2>3. \A h \in Handles : res'[r][h] = "pass" => res[r][h] = "pass"
      BY <2>2
    <2> QED  BY <2>1, <2>3
  <1>4. CASE CheckDest(r)
    BY <1>4 DEF CheckDest
  <1>5. CASE CheckSource(r)
    BY <1>5 DEF CheckSource
  <1>6. CASE CreateTheReminder(r)
    BY <1>6 DEF CreateTheReminder, Wrote
  <1>7. CASE CreateTheList(r)
    BY <1>7 DEF CreateTheList, Wrote
  <1>8. CASE WriteFails(r)
    <2>1. UNCHANGED <<call, at, inForce>> /\ pc'[r] = "done"
      BY <1>8 DEF WriteFails
    <2>2. \/ UNCHANGED res
          \/ res'[r] = [x \in Items |-> IF res[r][x] = "pass" THEN "failed" ELSE res[r][x]]
      BY <1>8 DEF WriteFails
    <2>3. \A h \in Handles : res'[r][h] = "pass" => res[r][h] = "pass"
      BY <2>2
    <2> QED  BY <2>1, <2>3
  <1>9. CASE Reindex(r)
    BY <1>9 DEF Reindex
  <1>10. CASE Verify(r)
    BY <1>10 DEF Verify
  <1>11. CASE ListReminders(r)
    <2>1. UNCHANGED <<call, inForce>> /\ pc'[r] \in {"filter", "done"}
      BY <1>11 DEF ListReminders
    <2>2. UNCHANGED <<at, res>> \/ res'[r] = [x \in Items |-> IF x \in Asked(r) THEN "todo" ELSE "none"]
      <3> HIDE DEF Items
      <3>1. \/ UNCHANGED <<at, res>>
            \/ res' = [res EXCEPT ![r] = [x \in Items |-> IF x \in Asked(r) THEN "todo" ELSE "none"]]
        BY <1>11, Listed
      <3> QED  BY <3>1
    <2>3. \A h \in Handles : res'[r][h] = "pass" => res[r][h] = "pass" /\ UNCHANGED at
      BY <2>2
    <2> QED  BY <2>1, <2>3
  <1>12. ASSUME NEW h \in Handles, FetchReminder(r, h)  PROVE CheckedInv(r)'
    <2>1. UNCHANGED <<call, inForce>> /\ pc'[r] \in {"index", "check"} /\ h \in call[r].items
      BY <1>12 DEF FetchReminder, ReadInv, ListingOps, ReminderOps, OneReminderOps
    <2>2. res'[r] = [res[r] EXCEPT ![h] = "fetched"] /\ \A k \in Handles \ {h} : at'[r][k] = at[r][k]
      BY <1>12 DEF FetchReminder
    <2>3. call[r].op \in OneReminderOps \ {"Reminder"} => \A k \in call[r].items : k = h
      BY <2>1 DEF ReadInv, WellFormed, ReminderOps, OneReminderOps
    <2> QED  BY <2>1, <2>2, <2>3
  <1>13. ASSUME NEW h \in Handles, FetchFails(r, h)  PROVE CheckedInv(r)'
    <2>1. UNCHANGED <<call, at, inForce>>
      BY <1>13 DEF FetchFails
    <2>2. CASE call[r].op = "DeleteReminders"
      <3>1. res'[r] = [res[r] EXCEPT ![h] = "failed"] /\ pc'[r] \in {"fetch", "write", "done"}
        BY <1>13, <2>2 DEF FetchFails, NextItem
      <3> QED  BY <2>1, <2>2, <3>1
    <2>3. CASE call[r].op # "DeleteReminders"
      BY <1>13, <2>1, <2>3 DEF FetchFails
    <2> QED  BY <2>2, <2>3
  <1>14. ASSUME NEW h \in Handles, CheckReminder(r, h)  PROVE CheckedInv(r)'
    <2>1. UNCHANGED <<call, at, inForce>> /\ h \in call[r].items
      BY <1>14 DEF CheckReminder, ReadInv, ListingOps, ReminderOps, OneReminderOps
    <2>2. IndexedWrite(r, at[r][h]) => WritableSince(r, at[r][h])
      BY <1>14 DEF CheckReminder, RequestInv, Active, IndexedWrite, ModeOf, Writable
    <2>3. CASE call[r].op = "Reminder"
      BY <1>14, <2>1, <2>3 DEF CheckReminder, OneReminderOps
    <2>4. CASE call[r].op \in OneReminderOps \ {"Reminder"}
      <3>1. \A k \in call[r].items : k = h
        BY <2>1, <2>4 DEF ReadInv, WellFormed, ReminderOps, OneReminderOps
      <3>2. UNCHANGED res
        BY <1>14, <2>4 DEF CheckReminder, OneReminderOps
      <3>3. /\ pc'[r] \in {"done", "dest", "write"}
            /\ pc'[r] \in {"dest", "write"} => IndexedWrite(r, at[r][h])
            /\ pc'[r] = "dest" => call[r].op = "UpdateReminder"
        BY <1>14, <2>4 DEF CheckReminder, OneReminderOps
      <3>4. res[r][h] = "fetched"
        BY <1>14 DEF CheckReminder, OneReminderOps
      <3> QED  BY <2>1, <2>2, <2>4, <3>1, <3>2, <3>3, <3>4
    <2>5. CASE call[r].op = "DeleteReminders"
      <3>1. res'[r] = [res[r] EXCEPT ![h] = IF IndexedWrite(r, at[r][h]) THEN "pass" ELSE "denied"]
        BY <1>14, <2>5 DEF CheckReminder, NextItem, OneReminderOps
      <3>2. pc'[r] \in {"fetch", "write", "done"}
        BY <1>14, <2>5 DEF CheckReminder, NextItem, OneReminderOps
      <3>3. \A k \in Handles : res'[r][k] = "pass" => WritableSince(r, at[r][k])
        BY <2>2, <3>1
      <3> QED  BY <2>1, <2>5, <3>2, <3>3
    <2> QED  BY <1>14, <2>3, <2>4, <2>5 DEF CheckReminder, OneReminderOps
  <1>15. ASSUME NEW h \in Handles, UpdateTheReminder(r, h)  PROVE CheckedInv(r)'
    BY <1>15 DEF UpdateTheReminder, Wrote
  <1>16. ASSUME NEW h \in Handles, DeleteTheReminder(r, h)  PROVE CheckedInv(r)'
    BY <1>16 DEF DeleteTheReminder, Wrote
  <1>17. ASSUME NEW h \in Handles, RemoveOne(r, h)  PROVE CheckedInv(r)'
    <2>1. UNCHANGED <<call, at, inForce>> /\ call[r].op = "DeleteReminders" /\ pc'[r] \in {"removing", "done"}
      BY <1>17 DEF RemoveOne, AfterRemoval, Wrote
    <2>2. \E v \in {"ok", "failed"} : res'[r] = [res[r] EXCEPT ![h] = v]
      BY <1>17 DEF RemoveOne, AfterRemoval
    <2> QED  BY <2>1, <2>2
  <1>18. ASSUME NEW l \in Lists, CheckList(r, l)  PROVE CheckedInv(r)'
    <2>1. UNCHANGED <<call, at, res, inForce>> /\ pc'[r] \in {"write", "done"} /\ call[r].op \in OneListOps
      BY <1>18 DEF CheckList
    <2>2. \A k \in call[r].items : k = l
      BY <1>18 DEF CheckList, ReadInv, WellFormed
    <2>3. pc'[r] = "write" => WritableSince(r, l)
      BY <1>18 DEF CheckList, RequestInv, Active, ModeOf, Writable
    <2> QED  BY <2>1, <2>2, <2>3 DEF OneListOps
  <1>19. ASSUME NEW l \in Lists, UpdateTheList(r, l)  PROVE CheckedInv(r)'
    BY <1>19 DEF UpdateTheList, Wrote
  <1>20. ASSUME NEW l \in Lists, DeleteTheList(r, l)  PROVE CheckedInv(r)'
    BY <1>20 DEF DeleteTheList, Wrote
  <1>21. ASSUME NEW x \in Items, Filter(r, x)  PROVE CheckedInv(r)'
    BY <1>21 DEF Filter
  <1>22. ASSUME NEW h \in Handles, ChangeTheStatus(r, h)  PROVE CheckedInv(r)'
    BY <1>22 DEF ChangeTheStatus, Wrote
  <1> QED
    BY <1>1, <1>2, <1>3, <1>4, <1>5, <1>6, <1>7, <1>8, <1>9, <1>10, <1>11,
       <1>12, <1>13, <1>14, <1>15, <1>16, <1>17, <1>18, <1>19, <1>20, <1>21, <1>22 DEF Step

(* While r is undisturbed, an exact id that was checked still names a        *)
(* reminder of a writable list.                                              *)
LEMMA OneNamed ==
  ASSUME NEW r \in Requests, AgreeInv(r), CheckedInv(r), quiet[r], Exact(r), pc[r] \in BeforeReturn,
         NEW h \in call[r].items, call[r].op \in ReminderOps,
         \/ call[r].op \in OneReminderOps \ {"Reminder"} /\ pc[r] = "write"
         \/ res[r][h] = "pass",
         NEW m \in Matching(h)
  PROVE  WritableSince(r, reminders[m])
  <1>1. h \in Reminders /\ m = h /\ m \in Present
    BY ReminderConstants DEF Exact, Matching, Present
  <1>2. h \in Handles
    BY <1>1, ReminderConstants
  <1>3. res[r][h] \in {"fetched", "pass"} /\ WritableSince(r, at[r][h])
    BY <1>2 DEF CheckedInv
  <1> QED  BY <1>1, <1>3 DEF AgreeInv

LEMMA TouchedOwnStep ==
  ASSUME TypeOK, NEW r \in Requests, RequestInv(r), ReadInv(r), GuardInv(r), Step(r)
  PROVE  TouchedInv(r)'
  <1> USE ReminderConstants DEF TypeOK, RequestInv, BeforeWrite, Exact, GuardInv, TouchedInv, WritableSince, Go, Finish, NoWrite, locals
  <1>1. CASE Begin(r)
    BY <1>1 DEF Begin
  <1>2. CASE Index(r)
    BY <1>2 DEF Index
  <1>3. CASE IndexError(r)
    BY <1>3 DEF IndexError
  <1>4. CASE CheckDest(r)
    BY <1>4 DEF CheckDest
  <1>5. CASE CheckSource(r)
    BY <1>5 DEF CheckSource
  <1>6. CASE CreateTheReminder(r)
    BY <1>6 DEF CreateTheReminder, Wrote
  <1>7. CASE CreateTheList(r)
    BY <1>7 DEF CreateTheList, Wrote
  <1>8. CASE WriteFails(r)
    BY <1>8 DEF WriteFails
  <1>9. CASE Reindex(r)
    BY <1>9 DEF Reindex
  <1>10. CASE Verify(r)
    <2>1. UNCHANGED <<call, touched, landed, inForce, quiet>> /\ pc[r] = "verify" /\ pc'[r] = "done"
      BY <1>10 DEF Verify
    <2>2. ans'[r] = "violation" \/ WritableSince(r, landed[r])
      BY <1>10 DEF Verify, IndexedWrite, ModeOf, Writable, Active
    <2>3. quiet[r] /\ Exact(r) => \A l \in touched[r] : WritableSince(r, l) \/ l = landed[r]
      BY <2>1
    <2> HIDE DEF Exact
    <2>4. ASSUME quiet'[r], Exact(r)', NEW l \in touched'[r]
          PROVE  WritableSince(r, l)' \/ ans'[r] \in {"violation", "error"}
      <3>1. Exact(r)
        BY <2>1, <2>4 DEF Exact
      <3>2. quiet[r] /\ l \in touched[r]
        BY <2>1, <2>4
      <3>4. WritableSince(r, l) \/ l = landed[r]
        BY <2>3, <3>1, <3>2
      <3>3. inForce' = inForce
        BY <2>1
      <3> QED  BY <2>2, <3>3, <3>4
    <2> QED  BY <2>4
  <1>11. CASE ListReminders(r)
    BY <1>11 DEF ListReminders
  <1>12. ASSUME NEW h \in Handles, FetchReminder(r, h)  PROVE TouchedInv(r)'
    BY <1>12 DEF FetchReminder
  <1>13. ASSUME NEW h \in Handles, FetchFails(r, h)  PROVE TouchedInv(r)'
    BY <1>13 DEF FetchFails, NextItem
  <1>14. ASSUME NEW h \in Handles, CheckReminder(r, h)  PROVE TouchedInv(r)'
    BY <1>14 DEF CheckReminder, NextItem, OneReminderOps
  <1>15. ASSUME NEW h \in Handles, UpdateTheReminder(r, h)  PROVE TouchedInv(r)'
    <2>1. /\ h \in call[r].items /\ pc[r] = "write" /\ call[r].op = "UpdateReminder"
          /\ pc'[r] = "reindex" /\ UNCHANGED call
      BY <1>15 DEF UpdateTheReminder
    <2>2. PICK m \in Matching(h) : Wrote(r, {reminders[m], landed'[r]})
      <3>1. PICK m \in Matching(h), l \in Lists : /\ landed' = [landed EXCEPT ![r] = l]
                                                  /\ Wrote(r, {reminders[m], l})
        BY <1>15 DEF UpdateTheReminder, NamedLike, Live, Matching, Present, TypeOK, StoreTypeOK
      <3> QED
        BY <3>1 DEF TypeOK
    <2>3. quiet[r] /\ Exact(r) => WritableSince(r, reminders[m])
      BY <2>1, <2>2, OneNamed DEF BeforeReturn, ReminderOps, OneReminderOps
    <2> QED  BY <2>1, <2>2, <2>3 DEF Wrote
  <1>16. ASSUME NEW h \in Handles, DeleteTheReminder(r, h)  PROVE TouchedInv(r)'
    <2>1. h \in call[r].items /\ pc[r] = "write" /\ call[r].op = "DeleteReminder" /\ UNCHANGED call
      BY <1>16 DEF DeleteTheReminder
    <2>2. PICK m \in Matching(h) : Wrote(r, {reminders[m]})
      BY <1>16 DEF DeleteTheReminder
    <2>3. quiet[r] /\ Exact(r) => WritableSince(r, reminders[m])
      BY <2>1, <2>2, OneNamed DEF BeforeReturn, ReminderOps, OneReminderOps
    <2> QED  BY <2>1, <2>2, <2>3 DEF Wrote
  <1>17. ASSUME NEW h \in Handles, RemoveOne(r, h)  PROVE TouchedInv(r)'
    <2>1. /\ pc[r] \in {"write", "removing"} /\ res[r][h] = "pass" /\ UNCHANGED call
          /\ call[r].op = "DeleteReminders"
      BY <1>17 DEF RemoveOne
    <2>2. h \in call[r].items /\ ans[r] = "none"
      BY <2>1 DEF ReadInv, ListingOps, Items
    <2>3. UNCHANGED inForce /\ quiet'[r] = quiet[r]
      BY <1>17 DEF RemoveOne, Wrote
    <2>4. touched'[r] = touched[r] \/ \E m \in Matching(h) : touched'[r] = touched[r] \cup {reminders[m]}
      BY <1>17 DEF RemoveOne, Wrote
    <2>5. ASSUME quiet[r], Exact(r), NEW m \in Matching(h)  PROVE WritableSince(r, reminders[m])
      BY <2>1, <2>2, <2>5, OneNamed DEF BeforeReturn, ReminderOps, OneReminderOps
    <2>6. quiet[r] /\ Exact(r) => \A l \in touched[r] : WritableSince(r, l)
      BY <2>1, <2>2
    <2>7. Exact(r)' <=> Exact(r)
      BY <2>1
    <2> HIDE DEF Exact, TypeOK
    <2>8. ASSUME quiet'[r], Exact(r)', NEW l \in touched'[r]  PROVE WritableSince(r, l)'
      <3>1. l \in touched[r] \/ \E m \in Matching(h) : l = reminders[m]
        BY <2>4, <2>8
      <3>2. WritableSince(r, l)
        BY <2>3, <2>5, <2>6, <2>7, <2>8, <3>1
      <3> QED  BY <2>3, <3>2
    <2> QED  BY <2>8
  <1>18. ASSUME NEW l \in Lists, CheckList(r, l)  PROVE TouchedInv(r)'
    BY <1>18 DEF CheckList
  <1>19. ASSUME NEW l \in Lists, UpdateTheList(r, l)  PROVE TouchedInv(r)'
    BY <1>19 DEF UpdateTheList, Wrote
  <1>20. ASSUME NEW l \in Lists, DeleteTheList(r, l)  PROVE TouchedInv(r)'
    <2>1. l \in call[r].items /\ pc[r] = "write" /\ call[r].op = "DeleteList" /\ Wrote(r, {l})
      BY <1>20 DEF DeleteTheList
    <2>2. WritableSince(r, l)
      BY <2>1 DEF CheckedInv
    <2> QED  BY <2>1, <2>2 DEF Wrote
  <1>21. ASSUME NEW x \in Items, Filter(r, x)  PROVE TouchedInv(r)'
    BY <1>21 DEF Filter
  <1>22. ASSUME NEW h \in Handles, ChangeTheStatus(r, h)  PROVE TouchedInv(r)'
    <2>1. h \in call[r].items /\ pc[r] = "write" /\ call[r].op = "ChangeStatus" /\ UNCHANGED call
      BY <1>22 DEF ChangeTheStatus
    <2>2. PICK m \in Matching(h) : Wrote(r, {reminders[m]})
      BY <1>22 DEF ChangeTheStatus
    <2>3. quiet[r] /\ Exact(r) => WritableSince(r, reminders[m])
      BY <2>1, <2>2, OneNamed DEF BeforeReturn, ReminderOps, OneReminderOps
    <2> QED  BY <2>1, <2>2, <2>3 DEF Wrote
  <1> QED
    BY <1>1, <1>2, <1>3, <1>4, <1>5, <1>6, <1>7, <1>8, <1>9, <1>10, <1>11,
       <1>12, <1>13, <1>14, <1>15, <1>16, <1>17, <1>18, <1>19, <1>20, <1>21, <1>22 DEF Step

LEMMA GuardStep == TypeOK /\ RequestsInv /\ ReadersInv /\ GuardsInv /\ [Next]_vars => GuardsInv'
  <1> SUFFICES ASSUME TypeOK, RequestsInv, ReadersInv, GuardsInv, [Next]_vars, NEW q \in Requests
               PROVE  GuardInv(q)'
    BY DEF GuardsInv
  <1>1. GuardInv(q) /\ RequestInv(q) /\ ReadInv(q)
    BY DEF GuardsInv, RequestsInv, ReadersInv
  <1>2. CASE Untouched(q) /\ UNCHANGED storeVars /\ quiet'[q] = quiet[q]
    BY <1>1, <1>2 DEF Untouched, storeVars, GuardInv, AgreeInv, CheckedInv, TouchedInv, Exact, WritableSince, Present
  <1>3. CASE Untouched(q) /\ quiet'[q] = (quiet[q] /\ ~Active(q))
    BY <1>1, <1>3 DEF Untouched, GuardInv, AgreeInv, CheckedInv, TouchedInv, Exact, WritableSince, BeforeReturn, Active
  <1>4. ASSUME NEW r \in Requests, Step(r), q # r  PROVE GuardInv(q)'
    BY <1>2, <1>3, <1>4, Frame, QuietFrame DEF Notices
  <1>5. ASSUME Step(q)  PROVE GuardInv(q)'
    BY <1>1, <1>5, AgreeOwnStep, CheckedOwnStep, TouchedOwnStep DEF GuardInv
  <1>6. CASE UNCHANGED vars
    BY <1>2, <1>6 DEF vars, locals, Untouched, storeVars
  <1>7. CASE OthersEdit
    BY <1>3, <1>7 DEF OthersEdit, locals, Untouched
  <1>8. ASSUME NEW p \in Policies, ReplacePolicy(p)  PROVE GuardInv(q)'
    BY <1>1, <1>8 DEF ReplacePolicy, locals, TypeOK, GuardInv, AgreeInv, CheckedInv, TouchedInv, Exact, WritableSince, BeforeReturn, Active
  <1> QED
    BY <1>4, <1>5, <1>6, <1>7, <1>8 DEF Next

LEMMA GuardInit == Init => GuardsInv
  BY DEF Init, GuardsInv, GuardInv, AgreeInv, CheckedInv, TouchedInv, NoCall, BeforeReturn, Items


-----------------------------------------------------------------------------
LEMMA TypeStep == TypeOK /\ [Next]_vars => TypeOK'
  <1> SUFFICES ASSUME TypeOK, [Next]_vars PROVE TypeOK'  OBVIOUS
  <1>1. CASE UNCHANGED vars
    BY <1>1 DEF vars, locals, TypeOK, StoreTypeOK
  <1> QED
    BY <1>1, TypeStepOfRequest, TypeStepOfOthers DEF Next

(* Every reachable state of any instance is well typed (scoped/reminders.go:34-58). *)
THEOREM ReminderTypes == Spec => []TypeOK
  <1> QED  BY TypeInit, TypeStep, PTL DEF Spec

LEMMA RequestsSound == Spec => []RequestsInv
  BY RequestInit, RequestStep, ReminderTypes, PTL DEF Spec

(***************************************************************************)
(* However many calls, foreign edits and reloads interleave, a create or   *)
(* update that reports success landed where it was checked, in scope       *)
(* (reminders.go:175-183, 219-227, 328, 356).                              *)
(***************************************************************************)
THEOREM ReminderPlacement == Spec => []NoSilentMisplacement
  <1>1. RequestsInv => NoSilentMisplacement
    BY DEF RequestsInv, RequestInv, NoSilentMisplacement
  <1> QED  BY <1>1, RequestsSound, PTL

(* A refused call has changed nothing (reminders.go:155-263, 317-384). *)
THEOREM ReminderRefusalsAreClean == Spec => []RefusedMeansUntouched
  <1>1. RequestsInv => RefusedMeansUntouched
    BY DEF RequestsInv, RequestInv, RefusedMeansUntouched
  <1> QED  BY <1>1, RequestsSound, PTL

(***************************************************************************)
(* An exact id a batch reports as deleted is gone (reminders.go:275-285,   *)
(* bridge_darwin.m:1159-1169).                                             *)
(***************************************************************************)
THEOREM ReminderBatchesAreTruthful == Spec => []BatchReportsTruth
  <1>1. Init => BatchesInv
    BY ReminderConstants DEF Init, BatchesInv, BatchInv, Items
  <1>2. Spec => []BatchesInv
    BY <1>1, BatchStep, ReminderTypes, PTL DEF Spec
  <1>3. BatchesInv => BatchReportsTruth
    BY DEF BatchesInv, BatchInv, BatchReportsTruth
  <1> QED  BY <1>2, <1>3, PTL

LEMMA ReadersSound == Spec => []ReadersInv
  BY ReadInit, ReadStep, ReminderTypes, RequestsSound, PTL DEF Spec

(***************************************************************************)
(* Whatever a read returns was, where the read saw it, in a list readable  *)
(* under a policy in force during the call (reminders.go:88-150).          *)
(***************************************************************************)
THEOREM ReminderReadsStayInScope == Spec => []ReadsInScope
  <1>1. ReadersInv => ReadsInScope
    BY DEF ReadersInv, ReadInv, ReadsInScope
  <1> QED  BY <1>1, ReadersSound, PTL

(***************************************************************************)
(* While nobody else writes, a call that names exact ids and writes        *)
(* outside the writable lists reports a scope violation or an error; a     *)
(* status change or a delete makes no such write                           *)
(* (reminders.go:171-183, 233-246, 298-313).                               *)
(***************************************************************************)
THEOREM QuietExactWritesAreGuarded == Spec => []QuietExactWritesGuarded
  <1>1. Spec => []GuardsInv
    BY GuardInit, GuardStep, ReminderTypes, RequestsSound, ReadersSound, PTL DEF Spec
  <1>2. GuardsInv => QuietExactWritesGuarded
    BY DEF GuardsInv, GuardInv, TouchedInv, QuietExactWritesGuarded, Returned
  <1> QED  BY <1>1, <1>2, PTL
=============================================================================
