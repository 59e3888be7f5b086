------------------------ MODULE ChangeWatcherProofs ------------------------
(***************************************************************************)
(* Proofs about ChangeWatcher for any number of watches, any table of      *)
(* descriptors and any capacities, with files opened and closed elsewhere  *)
(* in the process and finalizers run whenever the collector likes.         *)
(***************************************************************************)
EXTENDS ChangeWatcher, FiniteSetTheorems, WellFoundedInduction, TLAPS

(***************************************************************************)
(* A set of descriptors that is not empty has a lowest one: the intervals  *)
(* below its members are finite sets, and of those one is the smallest.    *)
(***************************************************************************)
LEMMA LowestIsThere ==
  ASSUME NEW S \in SUBSET Nat, S # {}
  PROVE  Min(S) \in S /\ \A y \in S : Min(S) =< y
<1> DEFINE Below == {0..n : n \in S}
<1>1. Below \subseteq FiniteSubsetsOf(Nat) /\ Below # {}
  <2>1. ASSUME NEW n \in S PROVE 0..n \in FiniteSubsetsOf(Nat)
    BY FS_Interval DEF FiniteSubsetsOf
  <2> QED
    BY <2>1
<1>2. PICK B \in Below : \A C \in Below : ~(<<C, B>> \in StrictSubsetOrdering(Nat))
  <2> HIDE DEF Below
  <2> QED
    BY <1>1, FS_StrictSubsetOrderingWellFounded, WFMin
<1>3. PICK x \in S : B = 0..x
  OBVIOUS
<1>4. ASSUME NEW y \in S PROVE x =< y
  <2> SUFFICES ASSUME y < x PROVE FALSE
    OBVIOUS
  <2>1. 0..y \in SUBSET Nat /\ 0..x \in SUBSET Nat /\ 0..y \subseteq 0..x
    OBVIOUS
  <2>2. x \in 0..x /\ x \notin 0..y
    OBVIOUS
  <2>3. <<0..y, 0..x>> \in StrictSubsetOrdering(Nat)
    BY <2>1, <2>2 DEF StrictSubsetOrdering
  <2> QED
    BY <1>2, <1>3, <2>3
<1> QED
  BY <1>4 DEF Min

(***************************************************************************)
(* Capped takes the smaller of two numbers.                                *)
(***************************************************************************)
LEMMA CappedIsLeast ==
  ASSUME NEW a \in Nat, NEW b \in Nat
  PROVE  Capped(a, b) = IF a =< b THEN a ELSE b
<1>1. Min({a, b}) \in {a, b} /\ \A y \in {a, b} : Min({a, b}) =< y
  BY LowestIsThere
<1> QED
  BY <1>1 DEF Capped

(***************************************************************************)
(* pipe(2) gives two different free numbers of the table.                  *)
(***************************************************************************)
LEMMA PipeIsNew ==
  ASSUME TypeOK, pipe = NoPipe, Cardinality(Unused) >= 2, NEW w \in Watches
  PROVE  /\ PipeFor(w).read \in Unused /\ PipeFor(w).write \in Unused
         /\ PipeFor(w).read # PipeFor(w).write
         /\ PipeFor(w) = [read |-> PipeFor(w).read, write |-> PipeFor(w).write]
<1> DEFINE n == Min(Unused)
           m == Min(Unused \ {n})
<1>1. IsFiniteSet(Unused) /\ Unused \in SUBSET Nat
  BY WatcherConstants, FS_Subset DEF Unused
<1>2. Unused # {}
  BY FS_EmptySet
<1>3. n \in Unused
  BY <1>1, <1>2, LowestIsThere
<1>4. Unused \ {n} # {}
  <2>1. Cardinality(Unused \ {n}) = Cardinality(Unused) - 1
    BY <1>1, <1>3, FS_RemoveElement
  <2>2. Cardinality(Unused) \in Nat
    BY <1>1, FS_CardinalityType
  <2> HIDE DEF n
  <2> QED
    BY <2>1, <2>2, FS_EmptySet
<1>5. m \in Unused \ {n}
  BY <1>1, <1>4, LowestIsThere
<1>6. PipeFor(w) = [read |-> n, write |-> m]
  BY DEF PipeFor
<1> QED
  BY <1>3, <1>5, <1>6

(***************************************************************************)
(* A watch is attached from its start until ek_cal_watch_stop, and flagged *)
(* until it clears calWatchActive.                                         *)
(***************************************************************************)
Attached(w) == pump[w] \in {"range", "offer", "stop"}
Flagged(w) == Attached(w) \/ pump[w] = "clear"

(***************************************************************************)
(* The goroutines of a watch go their ways in step: cleaning up begins     *)
(* when the reader has ended, and until then its os.File is referred to.   *)
(***************************************************************************)
Stages ==
  \A w \in Watches :
    /\ pump[w] = "idle" => reader[w] = "idle" /\ file[w] = "none"
    /\ pump[w] # "idle" => reader[w] # "idle"
    /\ pump[w] \in {"stop", "clear", "close", "done"} => reader[w] = "ended"
    /\ reader[w] \in {"check", "read", "send", "wait"} => file[w] = "held"
    /\ reader[w] = "send" => inHand[w] > 0

(***************************************************************************)
(* calWatchActive stands for the one watch that is flagged.                *)
(***************************************************************************)
OneAtATime ==
  /\ \A v, w \in Watches : Flagged(v) /\ Flagged(w) => v = w
  /\ active <=> (\E w \in Watches : Flagged(w))

(***************************************************************************)
(* The observer and the pipe of the globals are those of the watch that is *)
(* attached, and nobody's otherwise.                                       *)
(***************************************************************************)
GlobalsAreOfOne ==
  /\ \A w \in Watches : Attached(w) => observer /\ pipe = ends[w]
  /\ (\A w \in Watches : ~Attached(w)) => ~observer /\ pipe = NoPipe

(***************************************************************************)
(* A descriptor belongs to a watch only as an end of its pipe and while it *)
(* is attached, and the watch keeps its write end, and until the collector *)
(* has come its read end, unless the close of another has hit it.          *)
(***************************************************************************)
TableIsOfOne ==
  \A w \in Watches :
    /\ Attached(w) => /\ ends[w].read \in Fds /\ ends[w].write \in Fds
                      /\ ends[w].read # ends[w].write
    /\ \A n \in Fds : fds[n] = w => Attached(w) /\ n \in {ends[w].read, ends[w].write}
    /\ Attached(w) /\ w \notin robbed => Holds(w, ends[w].write)
    /\ Attached(w) /\ w \notin robbed /\ file[w] = "held" => Holds(w, ends[w].read)

Inv == TypeOK /\ Stages /\ OneAtATime /\ GlobalsAreOfOne /\ TableIsOfOne

LEMMA InitInv == Init => Inv /\ SignalUnderWay
<1>1. Init => TypeOK
  <2>1. 0 \in 0..MaxChanges /\ 0 \in 0..PipeCap /\ 0 \in 0..BufLen /\ 0 \in 0..ChanCap /\ 0 \in 0..MaxOthers
    BY WatcherConstants
  <2>2. NoPipe \in [read : Fds \cup {NoFd}, write : Fds \cup {NoFd}]
    BY DEF NoPipe
  <2> SUFFICES ASSUME Init PROVE TypeOK
    OBVIOUS
  <2>3. /\ version \in 0..MaxChanges /\ due \in BOOLEAN /\ observer \in BOOLEAN /\ active \in BOOLEAN
        /\ poster \in {"idle", "called", "loaded"} /\ target \in Fds \cup {NoFd}
        /\ opened \in 0..MaxOthers /\ robbed \subseteq Watches \cup {Other}
    BY <2>1 DEF Init
  <2>4. /\ pipe \in [read : Fds \cup {NoFd}, write : Fds \cup {NoFd}]
        /\ fds \in [Fds -> Watches \cup {Free, Other}]
        /\ ends \in [Watches -> [read : Fds \cup {NoFd}, write : Fds \cup {NoFd}]]
    BY <2>2 DEF Init
  <2>5. /\ bytes \in [Watches -> 0..PipeCap] /\ inHand \in [Watches -> 0..BufLen]
        /\ inner \in [Watches -> 0..ChanCap] /\ outer \in [Watches -> 0..ChanCap]
        /\ seen \in [Watches -> 0..MaxChanges]
    BY <2>1 DEF Init
  <2>6. /\ file \in [Watches -> {"none", "held", "collected"}] /\ ctx \in [Watches -> BOOLEAN]
        /\ reader \in [Watches -> {"idle", "check", "read", "send", "wait", "ended"}]
        /\ pump \in [Watches -> {"idle", "range", "offer", "stop", "clear", "close", "done"}]
    BY DEF Init
  <2> QED
    BY <2>3, <2>4, <2>5, <2>6 DEF TypeOK
<1>2. Init => Stages /\ OneAtATime /\ GlobalsAreOfOne /\ SignalUnderWay
  BY DEF Init, Stages, OneAtATime, GlobalsAreOfOne, SignalUnderWay, Attached, Flagged, Running
<1>3. Init => TableIsOfOne
  BY WatcherConstants DEF Init, TableIsOfOne, Attached
<1> QED
  BY <1>1, <1>2, <1>3 DEF Inv

(***************************************************************************)
(* Nobody is attached when a watch starts, so it makes a pipe of its own.  *)
(***************************************************************************)
LEMMA StartFindsNoPipe ==
  ASSUME Inv, NEW w \in Watches, Start(w)
  PROVE  /\ pipe = NoPipe /\ \A v \in Watches : ~Flagged(v)
         /\ PipeFor(w).read \in Unused /\ PipeFor(w).write \in Unused
         /\ PipeFor(w).read # PipeFor(w).write
         /\ pipe' = PipeFor(w)
         /\ PipeFor(w) \in [read : Fds, write : Fds]
<1>1. \A v \in Watches : ~Flagged(v)
  BY DEF Inv, OneAtATime, Start
<1>2. pipe = NoPipe
  BY <1>1 DEF Inv, GlobalsAreOfOne, Flagged
<1>3. Cardinality(Unused) >= 2 /\ pipe' = PipeFor(w)
  BY DEF Start
<1>4. /\ PipeFor(w).read \in Unused /\ PipeFor(w).write \in Unused
      /\ PipeFor(w).read # PipeFor(w).write
      /\ PipeFor(w) = [read |-> PipeFor(w).read, write |-> PipeFor(w).write]
  BY <1>2, <1>3, PipeIsNew DEF Inv
<1>5. Unused \subseteq Fds
  BY DEF Unused
<1>6. PipeFor(w) \in [read : Fds, write : Fds]
  BY <1>4, <1>5
<1> QED
  BY <1>1, <1>2, <1>3, <1>4, <1>6

LEMMA TypeStep ==
  ASSUME Inv, [Next]_vars
  PROVE  TypeOK'
<1> USE DEF Inv
<1>1. ASSUME NEW w \in Watches, Start(w) PROVE TypeOK'
  BY <1>1, StartFindsNoPipe DEF Start, TypeOK, posterVars
<1>2. ASSUME NEW w \in Watches, Cancel(w) PROVE TypeOK'
  BY <1>2 DEF Cancel, TypeOK, posterVars, tableVars, readerVars
<1>3. ASSUME NEW w \in Watches, Finalize(w) PROVE TypeOK'
  BY <1>3 DEF Finalize, TypeOK, Close, posterVars, readerVars
<1>4. ASSUME NEW w \in Watches, CheckCtx(w) PROVE TypeOK'
  BY <1>4 DEF CheckCtx, TypeOK, Continue, ReaderFrame, posterVars, tableVars
<1>5. ASSUME NEW w \in Watches, Read(w) PROVE TypeOK'
  <2>1. \A k \in Nat : Capped(k, BufLen) \in 0..BufLen /\ Capped(k, BufLen) =< k
    BY WatcherConstants, CappedIsLeast
  <2>2. 1 \in 0..BufLen
    BY WatcherConstants
  <2>3. bytes[w] \in Nat /\ bytes[w] \in 0..PipeCap
    BY WatcherConstants DEF TypeOK
  <2>4. bytes[w] - Capped(bytes[w], BufLen) \in 0..PipeCap
    BY <2>1, <2>3, WatcherConstants
  <2>5. bytes' \in [Watches -> 0..PipeCap]
    BY <1>5, <2>4 DEF Read, TypeOK
  <2>6. inHand' \in [Watches -> 0..BufLen]
    BY <1>5, <2>1, <2>2, <2>3 DEF Read, TypeOK
  <2>7. reader' \in [Watches -> {"idle", "check", "read", "send", "wait", "ended"}]
    <3>1. \E step \in {"send", "wait", "ended"} : reader' = [reader EXCEPT ![w] = step]
      BY <1>5 DEF Read, Continue
    <3> QED
      BY <3>1 DEF TypeOK
  <2>8. UNCHANGED inner /\ ReaderFrame
    BY <1>5 DEF Read
  <2> QED
    BY <2>5, <2>6, <2>7, <2>8 DEF TypeOK, ReaderFrame, posterVars, tableVars
<1>6. ASSUME NEW w \in Watches, Send(w) PROVE TypeOK'
  <2>1. \A k \in Nat : Capped(k, ChanCap) \in 0..ChanCap
    BY WatcherConstants, CappedIsLeast
  <2>2. inHand[w] > 0
    BY <1>6 DEF Send, Stages
  <2> QED
    BY <1>6, <2>1, <2>2, WatcherConstants
    DEF Send, TypeOK, Continue, ReaderFrame, posterVars, tableVars
<1>7. ASSUME NEW w \in Watches, Wait(w) PROVE TypeOK'
  BY <1>7 DEF Wait, TypeOK, Continue, ReaderFrame, posterVars, tableVars
<1>8. ASSUME NEW w \in Watches, Receive(w) PROVE TypeOK'
  BY <1>8, WatcherConstants DEF Receive, TypeOK, Then, PumpFrame, posterVars, tableVars, readerVars
<1>9. ASSUME NEW w \in Watches, Offer(w) PROVE TypeOK'
  <2>1. \A k \in Nat : Capped(k, ChanCap) \in 0..ChanCap
    BY WatcherConstants, CappedIsLeast
  <2> QED
    BY <1>9, <2>1 DEF Offer, TypeOK, Then, PumpFrame, posterVars, tableVars, readerVars
<1>10. ASSUME NEW w \in Watches, Drained(w) PROVE TypeOK'
  BY <1>10 DEF Drained, TypeOK, Then, PumpFrame, posterVars, tableVars, readerVars
<1>11. ASSUME NEW w \in Watches, Stop(w) PROVE TypeOK'
  <2>1. NoPipe \in [read : Fds \cup {NoFd}, write : Fds \cup {NoFd}]
    BY DEF NoPipe
  <2>2. fds' \in [Fds -> Watches \cup {Free, Other}] /\ robbed' \subseteq Watches \cup {Other}
    BY <1>11 DEF Stop, Close, TypeOK
  <2> QED
    BY <1>11, <2>1, <2>2 DEF Stop, TypeOK, Then, PumpFrame, posterVars, readerVars
<1>12. ASSUME NEW w \in Watches, Clear(w) PROVE TypeOK'
  BY <1>12 DEF Clear, TypeOK, Then, PumpFrame, posterVars, tableVars, readerVars
<1>13. ASSUME NEW w \in Watches, CloseChannel(w) PROVE TypeOK'
  BY <1>13 DEF CloseChannel, TypeOK, Then, PumpFrame, posterVars, tableVars, readerVars
<1>14. ASSUME NEW w \in Watches, Consume(w) PROVE TypeOK'
  BY <1>14, WatcherConstants DEF Consume, TypeOK, posterVars, tableVars, readerVars
<1>15. CASE Change
  BY <1>15, WatcherConstants DEF Change, TypeOK, PosterFrame, tableVars, readerVars
<1>16. CASE Post
  BY <1>16 DEF Post, TypeOK, PosterFrame, tableVars, readerVars
<1>17. CASE Load
  BY <1>17 DEF Load, TypeOK, PosterFrame, tableVars, readerVars
<1>18. CASE WriteByte
  BY <1>18, WatcherConstants DEF WriteByte, TypeOK, PosterFrame, tableVars, readerVars
<1>19. CASE OthersOpen
  <2>1. fds' \in [Fds -> Watches \cup {Free, Other}] 
    BY <1>19 DEF OthersOpen, TypeOK
  <2>2. opened' \in 0..MaxOthers
    BY <1>19, WatcherConstants DEF OthersOpen, TypeOK
  <2> QED
    BY <1>19, <2>1, <2>2 DEF OthersOpen, TypeOK, posterVars, readerVars
<1>20. CASE OthersClose
  BY <1>20 DEF OthersClose, TypeOK, posterVars, readerVars
<1>21. CASE UNCHANGED vars
  BY <1>21 DEF vars, TypeOK, posterVars, tableVars, readerVars
<1> QED
  BY <1>1, <1>2, <1>3, <1>4, <1>5, <1>6, <1>7, <1>8, <1>9, <1>10, <1>11, <1>12,
     <1>13, <1>14, <1>15, <1>16, <1>17, <1>18, <1>19, <1>20, <1>21
  DEF Next, ReaderStep, PumpStep, PosterStep

LEMMA StagesStep ==
  ASSUME Inv, [Next]_vars
  PROVE  Stages'
<1> USE DEF Inv, TypeOK, Stages
<1>1. ASSUME NEW w \in Watches, Start(w) PROVE Stages'
  BY <1>1 DEF Start
<1>2. ASSUME NEW w \in Watches, Cancel(w) PROVE Stages'
  BY <1>2 DEF Cancel, readerVars
<1>3. ASSUME NEW w \in Watches, Finalize(w) PROVE Stages'
  BY <1>3 DEF Finalize, readerVars
<1>4. ASSUME NEW w \in Watches, CheckCtx(w) PROVE Stages'
  BY <1>4 DEF CheckCtx, Continue, ReaderFrame
<1>5. ASSUME NEW w \in Watches, Read(w) PROVE Stages'
  <2>1. reader[w] = "read" /\ UNCHANGED <<file, pump>>
    BY <1>5 DEF Read, ReaderFrame
  <2>2. \A v \in Watches \ {w} : reader'[v] = reader[v] /\ inHand'[v] = inHand[v]
    BY <1>5 DEF Read, Continue
  <2>3. reader'[w] \in {"send", "wait", "ended"} /\ (reader'[w] = "send" => inHand'[w] > 0)
    <3>1. 1 > 0
      OBVIOUS
    <3> QED
      BY <1>5, <3>1 DEF Read, Continue
  <2> QED
    BY <2>1, <2>2, <2>3
<1>6. ASSUME NEW w \in Watches, Send(w) PROVE Stages'
  <2>1. reader[w] = "send" /\ UNCHANGED <<file, pump>>
    BY <1>6 DEF Send, ReaderFrame
  <2>2. \A v \in Watches \ {w} : reader'[v] = reader[v] /\ inHand'[v] = inHand[v]
    BY <1>6 DEF Send, Continue
  <2>3. reader'[w] \in {"send", "check"} /\ (reader'[w] = "send" => inHand'[w] > 0)
    <3>1. inHand[w] \in Nat
      BY WatcherConstants
    <3> QED
      BY <1>6, <3>1 DEF Send, Continue
  <2> QED
    BY <2>1, <2>2, <2>3
<1>7. ASSUME NEW w \in Watches, Wait(w) PROVE Stages'
  BY <1>7 DEF Wait, Continue, ReaderFrame
<1>8. ASSUME NEW w \in Watches, Receive(w) \/ Offer(w) \/ Drained(w) PROVE Stages'
  BY <1>8 DEF Receive, Offer, Drained, Then, PumpFrame, readerVars
<1>9. ASSUME NEW w \in Watches, Stop(w) \/ Clear(w) \/ CloseChannel(w) PROVE Stages'
  BY <1>9 DEF Stop, Clear, CloseChannel, Then, PumpFrame, readerVars
<1>10. ASSUME NEW w \in Watches, Consume(w) PROVE Stages'
  BY <1>10 DEF Consume, readerVars
<1>11. CASE Change \/ PosterStep
  BY <1>11 DEF Change, PosterStep, Post, Load, WriteByte, PosterFrame, readerVars
<1>12. CASE OthersOpen \/ OthersClose \/ UNCHANGED vars
  BY <1>12 DEF OthersOpen, OthersClose, vars, readerVars
<1> HIDE DEF TypeOK, Stages
<1> QED
  BY <1>1, <1>2, <1>3, <1>4, <1>5, <1>6, <1>7, <1>8, <1>9, <1>10, <1>11, <1>12
  DEF Next, ReaderStep, PumpStep

LEMMA OneAtATimeStep ==
  ASSUME Inv, [Next]_vars
  PROVE  OneAtATime'
<1> USE DEF Inv, TypeOK, OneAtATime, Attached, Flagged
<1>1. ASSUME NEW w \in Watches, Start(w) PROVE OneAtATime'
  BY <1>1 DEF Start
<1>2. ASSUME NEW w \in Watches, Cancel(w) \/ Finalize(w) \/ Consume(w) \/ ReaderStep(w) PROVE OneAtATime'
  BY <1>2 DEF Cancel, Finalize, Consume, ReaderStep, CheckCtx, Read, Send, Wait, ReaderFrame
<1>3. ASSUME NEW w \in Watches, Receive(w) \/ Offer(w) \/ Drained(w) \/ Stop(w) PROVE OneAtATime'
  <2>1. /\ Flagged(w) /\ UNCHANGED active
        /\ \E step \in {"range", "offer", "stop", "clear"} : pump' = [pump EXCEPT ![w] = step]
    BY <1>3 DEF Receive, Offer, Drained, Stop, Then
  <2>2. \A v \in Watches : Flagged(v)' = Flagged(v)
    BY <2>1
  <2> HIDE DEF Attached, Flagged, TypeOK
  <2> QED
    BY <2>1, <2>2
<1>4. ASSUME NEW w \in Watches, Clear(w) PROVE OneAtATime'
  BY <1>4 DEF Clear, Then
<1>5. ASSUME NEW w \in Watches, CloseChannel(w) PROVE OneAtATime'
  BY <1>5 DEF CloseChannel, Then
<1>6. CASE Change \/ PosterStep \/ OthersOpen \/ OthersClose \/ UNCHANGED vars
  BY <1>6 DEF Change, PosterStep, Post, Load, WriteByte, PosterFrame, OthersOpen, OthersClose, vars
<1> HIDE DEF TypeOK, OneAtATime
<1> QED
  BY <1>1, <1>2, <1>3, <1>4, <1>5, <1>6 DEF Next, PumpStep

LEMMA GlobalsStep ==
  ASSUME Inv, [Next]_vars
  PROVE  GlobalsAreOfOne'
<1> USE DEF Inv, TypeOK, GlobalsAreOfOne, Attached
<1>1. ASSUME NEW w \in Watches, Start(w) PROVE GlobalsAreOfOne'
  <2>1. \A v \in Watches : pump[v] \notin {"range", "offer", "stop"}
    BY <1>1, StartFindsNoPipe DEF Flagged
  <2>2. observer' = TRUE /\ pipe' = ends'[w] /\ pump' = [pump EXCEPT ![w] = "range"]
    BY <1>1 DEF Start
  <2> QED
    BY <2>1, <2>2
<1>2. ASSUME NEW w \in Watches, Cancel(w) \/ Finalize(w) \/ Consume(w) \/ ReaderStep(w)
      PROVE GlobalsAreOfOne'
  BY <1>2 DEF Cancel, Finalize, Consume, ReaderStep, CheckCtx, Read, Send, Wait, ReaderFrame, tableVars
<1>3. ASSUME NEW w \in Watches, Receive(w) \/ Offer(w) \/ Drained(w) PROVE GlobalsAreOfOne'
  BY <1>3 DEF Receive, Offer, Drained, Then, tableVars
<1>4. ASSUME NEW w \in Watches, Stop(w) PROVE GlobalsAreOfOne'
  BY <1>4 DEF Stop, Then, OneAtATime, Flagged
<1>5. ASSUME NEW w \in Watches, Clear(w) \/ CloseChannel(w) PROVE GlobalsAreOfOne'
  BY <1>5 DEF Clear, CloseChannel, Then, tableVars
<1>6. CASE Change \/ PosterStep \/ OthersOpen \/ OthersClose \/ UNCHANGED vars
  BY <1>6 DEF Change, PosterStep, Post, Load, WriteByte, PosterFrame, OthersOpen, OthersClose,
              vars, tableVars
<1> HIDE DEF TypeOK, GlobalsAreOfOne
<1> QED
  BY <1>1, <1>2, <1>3, <1>4, <1>5, <1>6 DEF Next, PumpStep

LEMMA TableStep ==
  ASSUME Inv, [Next]_vars
  PROVE  TableIsOfOne'
<1> USE DEF Inv, TypeOK, TableIsOfOne, Attached, Holds
<1>0. \A w \in Watches : w # Free /\ w # Other
  BY WatcherConstants
<1>1. ASSUME NEW w \in Watches, Start(w) PROVE TableIsOfOne'
  <2> DEFINE p == PipeFor(w)
  <2>1. /\ \A v \in Watches : pump[v] \notin {"range", "offer", "stop"}
        /\ p.read \in Unused /\ p.write \in Unused /\ p.read # p.write
    BY <1>1, StartFindsNoPipe DEF Flagged
  <2>2. /\ ends' = [ends EXCEPT ![w] = p] /\ pump' = [pump EXCEPT ![w] = "range"]
        /\ fds' = [n \in Fds |-> IF n \in {p.read, p.write} THEN w ELSE fds[n]]
    BY <1>1 DEF Start
  <2>3. Unused \subseteq Fds
    BY DEF Unused
  <2> HIDE DEF p
  <2>4. ASSUME NEW v \in Watches \ {w}
        PROVE  /\ pump'[v] \notin {"range", "offer", "stop"}
               /\ \A n \in Fds : fds'[n] # v
    BY <2>1, <2>2
  <2>5. /\ ends'[w] = p /\ \A n \in Fds : fds'[n] = w => n \in {p.read, p.write}
        /\ fds'[p.read] = w /\ fds'[p.write] = w /\ pump'[w] = "range"
    BY <2>1, <2>2, <2>3
  <2> QED
    BY <2>1, <2>3, <2>4, <2>5
<1>2. ASSUME NEW w \in Watches, Finalize(w) PROVE TableIsOfOne'
  <2>1. /\ fds' = [n \in Fds |-> IF n = ends[w].read THEN Free ELSE fds[n]]
        /\ robbed' = robbed \cup ({fds[n] : n \in {ends[w].read} \cap Fds} \ {Free, w})
        /\ file' = [file EXCEPT ![w] = "collected"] /\ UNCHANGED <<ends, pump>>
    BY <1>2 DEF Finalize, Close
  <2>2. ASSUME NEW v \in Watches \ {w}, v \notin robbed'
        PROVE  v \notin robbed /\ \A n \in Fds : fds[n] = v => fds'[n] = v
    <3>1. ASSUME NEW n \in Fds, fds[n] = v PROVE n # ends[w].read
      <4> SUFFICES ASSUME n = ends[w].read PROVE FALSE
        OBVIOUS
      <4>1. v \in {fds[x] : x \in {ends[w].read} \cap Fds} \ {Free, w}
        BY <1>0, <3>1
      <4> QED
        BY <2>1, <2>2, <4>1
    <3> QED
      BY <2>1, <2>2, <3>1
  <2>3. \A v \in Watches, n \in Fds : fds'[n] = v => fds[n] = v
    BY <1>0, <2>1
  <2>4. /\ file'[w] # "held" /\ \A v \in Watches \ {w} : file'[v] = file[v]
        /\ robbed \subseteq robbed'
    BY <2>1
  <2>5. pump[w] \in {"range", "offer", "stop"} /\ w \notin robbed' => fds'[ends[w].write] = w
    BY <2>1, <2>4
  <2>6. UNCHANGED <<ends, pump>>
    BY <2>1
  <2> QED
    BY <2>2, <2>3, <2>4, <2>5, <2>6
<1>3. ASSUME NEW w \in Watches, Cancel(w) \/ Consume(w) \/ ReaderStep(w) PROVE TableIsOfOne'
  BY <1>3 DEF Cancel, Consume, ReaderStep, CheckCtx, Read, Send, Wait, ReaderFrame, tableVars
<1>4. ASSUME NEW w \in Watches, Receive(w) \/ Offer(w) \/ Drained(w) PROVE TableIsOfOne'
  BY <1>4 DEF Receive, Offer, Drained, Then, PumpFrame, tableVars
<1>5. ASSUME NEW w \in Watches, Stop(w) PROVE TableIsOfOne'
  <2>1. /\ pipe = ends[w] /\ \A v \in Watches : Attached(v) => v = w
    BY <1>5 DEF Stop, GlobalsAreOfOne, OneAtATime, Flagged
  <2>2. /\ fds' = [n \in Fds |-> IF n \in {pipe.read, pipe.write} THEN Free ELSE fds[n]]
        /\ pump' = [pump EXCEPT ![w] = "clear"]
    BY <1>5 DEF Stop, Close, Then
  <2>3. \A v \in Watches : pump'[v] \notin {"range", "offer", "stop"}
    BY <2>1, <2>2
  <2>4. \A v \in Watches, n \in Fds : fds'[n] # v
    BY <1>0, <2>1, <2>2
  <2> QED
    BY <2>3, <2>4
<1>6. ASSUME NEW w \in Watches, Clear(w) \/ CloseChannel(w) PROVE TableIsOfOne'
  BY <1>6 DEF Clear, CloseChannel, Then, PumpFrame, tableVars
<1>7. CASE Change \/ PosterStep \/ UNCHANGED vars
  BY <1>7 DEF Change, PosterStep, Post, Load, WriteByte, PosterFrame, vars, tableVars
<1>8. CASE OthersOpen
  <2>1. Min(Unused) \in Unused
    <3>1. Unused \in SUBSET Nat /\ Unused # {}
      BY <1>8, WatcherConstants DEF Unused, OthersOpen
    <3> QED
      BY <3>1, LowestIsThere
  <2>2. \A n \in Fds, w \in Watches : fds'[n] = w <=> fds[n] = w
    BY <1>0, <1>8, <2>1 DEF OthersOpen, Unused
  <2> QED
    BY <1>8, <2>2 DEF OthersOpen
<1>9. CASE OthersClose
  <2>1. \A n \in Fds, w \in Watches : fds'[n] = w <=> fds[n] = w
    BY <1>0, <1>9 DEF OthersClose
  <2> QED
    BY <1>9, <2>1 DEF OthersClose
<1> HIDE DEF TypeOK, TableIsOfOne
<1> QED
  BY <1>1, <1>2, <1>3, <1>4, <1>5, <1>6, <1>7, <1>8, <1>9 DEF Next, PumpStep

LEMMA InvStep == Inv /\ [Next]_vars => Inv'
  BY TypeStep, StagesStep, OneAtATimeStep, GlobalsStep, TableStep DEF Inv

(***************************************************************************)
(* A running watch holds both ends of the pipe the globals name.           *)
(***************************************************************************)
LEMMA RunningHolds ==
  ASSUME Inv, NEW w \in Watches, Running(w)
  PROVE  /\ observer /\ active /\ pipe = ends[w]
         /\ Holds(w, ends[w].read) /\ Holds(w, ends[w].write)
<1>1. Attached(w) /\ Flagged(w) /\ pump[w] # "idle" /\ reader[w] # "ended" /\ w \notin robbed
  BY DEF Running, Attached, Flagged
<1>2. observer /\ active /\ pipe = ends[w]
  BY <1>1 DEF Inv, OneAtATime, GlobalsAreOfOne
<1>3. file[w] = "held"
  BY <1>1 DEF Inv, Stages, TypeOK
<1> QED
  BY <1>1, <1>2, <1>3 DEF Inv, TableIsOfOne

(***************************************************************************)
(* What a step does to the signals of a watch that runs after it, unless   *)
(* the caller is up to date: none gets lost on its way.                    *)
(***************************************************************************)
LEMMA SignalStep ==
  ASSUME Inv, SignalUnderWay, [Next]_vars
  PROVE  SignalUnderWay'
<1> USE DEF TypeOK
<1> SUFFICES ASSUME NEW v \in Watches, Running(v)', seen'[v] < version'
             PROVE  \/ due' \/ poster' = "called" \/ (poster' = "loaded" /\ target' = ends'[v].write)
                    \/ bytes'[v] + inHand'[v] + inner'[v] + outer'[v] > 0
                    \/ pump'[v] = "offer"
  BY DEF SignalUnderWay
<1> DEFINE Goal == \/ due' \/ poster' = "called" \/ (poster' = "loaded" /\ target' = ends'[v].write)
                   \/ bytes'[v] + inHand'[v] + inner'[v] + outer'[v] > 0
                   \/ pump'[v] = "offer"
           Before == \/ due \/ poster = "called" \/ (poster = "loaded" /\ target = ends[v].write)
                     \/ bytes[v] + inHand[v] + inner[v] + outer[v] > 0
                     \/ pump[v] = "offer"
<1>0. /\ bytes[v] \in Nat /\ inHand[v] \in Nat /\ inner[v] \in Nat /\ outer[v] \in Nat
      /\ seen[v] \in Nat /\ version \in Nat
  BY WatcherConstants DEF Inv
<1>1. Running(v) /\ seen[v] < version => Before
  BY DEF SignalUnderWay
<1>2. pump'[v] \in {"range", "offer"} /\ reader'[v] # "ended" /\ ~ctx'[v] /\ v \notin robbed'
  BY DEF Running
<1>3. ASSUME NEW w \in Watches, Start(w) PROVE Goal
  <2>1. v = w
    BY <1>2, <1>3, StartFindsNoPipe DEF Start, Inv, Flagged, Attached
  <2>2. seen'[w] = version /\ version' = version
    BY <1>3 DEF Start, Inv
  <2> QED
    BY <1>0, <2>1, <2>2
<1>4. ASSUME NEW w \in Watches, Cancel(w) PROVE Goal
  BY <1>1, <1>2, <1>4 DEF Cancel, Running, Inv, posterVars, tableVars, readerVars
<1>5. ASSUME NEW w \in Watches, Finalize(w) PROVE Goal
  BY <1>1, <1>2, <1>5 DEF Finalize, Close, Running, Inv, posterVars, tableVars, readerVars
<1>6. ASSUME NEW w \in Watches, CheckCtx(w) PROVE Goal
  BY <1>1, <1>2, <1>6
  DEF CheckCtx, Continue, ReaderFrame, Running, Inv, posterVars, tableVars
<1>7. ASSUME NEW w \in Watches, Wait(w) PROVE Goal
  BY <1>1, <1>2, <1>7 DEF Wait, Continue, ReaderFrame, Running, Inv, posterVars, tableVars
<1>8. CASE Change
  BY <1>8 DEF Change
<1>9. CASE UNCHANGED vars \/ OthersOpen \/ OthersClose
  BY <1>1, <1>2, <1>9 DEF vars, OthersOpen, OthersClose, Running, posterVars, tableVars, readerVars
<1>10. ASSUME NEW w \in Watches, Clear(w) \/ CloseChannel(w) \/ Drained(w) \/ Stop(w) PROVE Goal
  <2>1. v # w /\ pump'[v] = pump[v] /\ UNCHANGED <<version, posterVars, bytes, ctx, readerVars, inner, outer, seen, ends>>
    BY <1>2, <1>10
    DEF Clear, CloseChannel, Drained, Stop, Then, PumpFrame, Inv, tableVars
  <2>2. robbed \subseteq robbed'
    BY <1>10 DEF Clear, CloseChannel, Drained, Stop, Close, tableVars
  <2> QED
    BY <1>1, <1>2, <2>1, <2>2 DEF Running, posterVars, readerVars
<1>11. ASSUME NEW w \in Watches, Consume(w) PROVE Goal
  <2>1. UNCHANGED <<version, posterVars, bytes, ctx, readerVars, inner, pump, ends, robbed>>
    BY <1>11 DEF Consume, tableVars
  <2>2. v = w => seen'[v] = version
    BY <1>11 DEF Consume, Inv
  <2>3. v # w => seen'[v] = seen[v] /\ outer'[v] = outer[v]
    BY <1>11 DEF Consume, Inv
  <2> QED
    BY <1>0, <1>1, <1>2, <2>1, <2>2, <2>3 DEF Running, posterVars, readerVars
<1>12. ASSUME NEW w \in Watches, Read(w) PROVE Goal
  <2>1. UNCHANGED <<version, posterVars, ctx, inner, pump, outer, seen, ends, fds, robbed>> /\ reader[w] = "read"
    BY <1>12 DEF Read, ReaderFrame, tableVars
  <2>2. CASE v # w
    <3>1. reader'[v] = reader[v] /\ bytes'[v] = bytes[v] /\ inHand'[v] = inHand[v]
      BY <1>12, <2>2 DEF Read, Continue, Inv
    <3> QED
      BY <1>1, <1>2, <2>1, <3>1 DEF Running, posterVars
  <2>3. CASE v = w
    <3>1. Running(v)
      BY <1>2, <2>1, <2>3 DEF Running
    <3>2. fds[ends[w].read] = w
      BY <2>3, <3>1, RunningHolds DEF Holds
    <3>3. Capped(bytes[w], BufLen) \in Nat /\ (Capped(bytes[w], BufLen) = 0 => bytes[w] = 0)
      BY <1>0, <2>3, CappedIsLeast, WatcherConstants
    <3>4. CASE Capped(bytes[w], BufLen) > 0
      <4>1. inHand'[w] > 0 /\ inHand'[w] \in Nat /\ bytes'[w] \in Nat
        BY <1>0, <1>12, <2>3, <3>2, <3>3, <3>4, CappedIsLeast, WatcherConstants DEF Read, Inv
      <4> QED
        BY <1>0, <2>1, <2>3, <4>1
    <3>5. CASE Capped(bytes[w], BufLen) = 0
      <4>1. UNCHANGED <<bytes, inHand>>
        BY <1>12, <3>2, <3>5 DEF Read
      <4> QED
        BY <1>1, <2>1, <3>1, <4>1 DEF posterVars
    <3> QED
      BY <3>3, <3>4, <3>5
  <2> QED
    BY <2>2, <2>3
<1>13. ASSUME NEW w \in Watches, Send(w) PROVE Goal
  <2>1. UNCHANGED <<version, posterVars, ctx, pump, outer, seen, ends, fds, robbed, bytes>> /\ reader[w] = "send"
    BY <1>13 DEF Send, ReaderFrame, tableVars
  <2>2. CASE v # w
    <3>1. reader'[v] = reader[v] /\ inner'[v] = inner[v] /\ inHand'[v] = inHand[v]
      BY <1>13, <2>2 DEF Send, Continue, Inv
    <3> QED
      BY <1>1, <1>2, <2>1, <3>1 DEF Running, posterVars
  <2>3. CASE v = w
    <3>1. inner'[w] > 0 /\ inner'[w] \in Nat
      BY <1>0, <1>13, <2>3, CappedIsLeast, WatcherConstants DEF Send, Inv
    <3>2. inHand'[w] \in Nat
      BY <1>0, <1>13, <2>3 DEF Send, Inv, Stages
    <3> QED
      BY <1>0, <2>1, <2>3, <3>1, <3>2
  <2> QED
    BY <2>2, <2>3
<1>14. ASSUME NEW w \in Watches, Receive(w) PROVE Goal
  BY <1>1, <1>2, <1>14 DEF Receive, Then, PumpFrame, Running, Inv, posterVars, tableVars, readerVars
<1>15. ASSUME NEW w \in Watches, Offer(w) PROVE Goal
  <2>1. UNCHANGED <<version, posterVars, ctx, readerVars, inner, seen, ends, robbed, bytes>> /\ pump[w] = "offer"
    BY <1>15 DEF Offer, PumpFrame, tableVars
  <2>2. CASE v # w
    <3>1. pump'[v] = pump[v] /\ outer'[v] = outer[v]
      BY <1>15, <2>2 DEF Offer, Then, Inv
    <3> QED
      BY <1>1, <1>2, <2>1, <3>1 DEF Running, posterVars, readerVars
  <2>3. CASE v = w
    <3>1. outer'[w] > 0 /\ outer'[w] \in Nat
      BY <1>0, <1>15, <2>3, CappedIsLeast, WatcherConstants DEF Offer, Inv
    <3> QED
      BY <1>0, <2>1, <2>3, <3>1 DEF readerVars
  <2> QED
    BY <2>2, <2>3
<1>16. CASE Post \/ Load \/ WriteByte
  <2>1. UNCHANGED <<version, ctx, reader, inHand, inner, pump, outer, seen, ends, fds, pipe, robbed, observer>>
    BY <1>16 DEF Post, Load, WriteByte, PosterFrame, tableVars, readerVars
  <2>2. Running(v)
    BY <1>2, <2>1 DEF Running
  <2>3. /\ observer /\ pipe = ends[v] /\ Holds(v, ends[v].read) /\ Holds(v, ends[v].write)
    BY <2>2, RunningHolds
  <2>4. CASE Post
    BY <2>3, <2>4 DEF Post
  <2>5. CASE Load
    BY <2>1, <2>3, <2>5 DEF Load
  <2>6. CASE WriteByte
    <3>1. target = ends[v].write => bytes'[v] = bytes[v] + 1
      BY <2>3, <2>6 DEF WriteByte
    <3>2. bytes'[v] \in {bytes[v], bytes[v] + 1} /\ due' = due /\ poster = "loaded"
      BY <2>6 DEF WriteByte
    <3> QED
      BY <1>0, <1>1, <2>1, <2>2, <3>1, <3>2
  <2> QED
    BY <1>16, <2>4, <2>5, <2>6
<1> QED
  BY <1>3, <1>4, <1>5, <1>6, <1>7, <1>8, <1>9, <1>10, <1>11, <1>12, <1>13, <1>14, <1>15, <1>16
  DEF Next, ReaderStep, PumpStep, PosterStep

(***************************************************************************)
(* Type correctness, for any number of watches, descriptors and signals.   *)
(***************************************************************************)
THEOREM WatchTypes == Spec => []TypeOK
<1>1. Inv => TypeOK
  BY DEF Inv
<1>2. Init => Inv
  BY InitInv
<1> QED
  BY <1>1, <1>2, InvStep, PTL DEF Spec

(***************************************************************************)
(* A watch that runs holds both ends of the pipe the observer writes to,   *)
(* whatever descriptors have been given out, closed and given out again    *)
(* around it: calWatchActive is cleared only when ek_cal_watch_stop has    *)
(* given the pipe back, so no start ever finds the pipe of another.        *)
(***************************************************************************)
THEOREM RunningWatchOwnsItsPipe == Spec => []RunningOwnsPipe
<1>1. Inv => RunningOwnsPipe
  BY RunningHolds DEF RunningOwnsPipe
<1>2. Init => Inv
  BY InitInv
<1> QED
  BY <1>1, <1>2, InvStep, PTL DEF Spec

(***************************************************************************)
(* A watch that is done has given everything back, and when all are done   *)
(* nothing stands in the way of the next.                                  *)
(***************************************************************************)
THEOREM DoneWatchLeavesNothing == Spec => []DoneGivesBack
<1>1. Inv => DoneGivesBack
  <2> SUFFICES ASSUME Inv PROVE DoneGivesBack
    OBVIOUS
  <2>1. ASSUME NEW w \in Watches, pump[w] = "done", NEW n \in Fds PROVE fds[n] # w
    BY <2>1 DEF Inv, TableIsOfOne, Attached
  <2>2. ASSUME \A w \in Watches : pump[w] \in {"idle", "done"}
        PROVE  ~active /\ ~observer /\ pipe = NoPipe
    BY <2>2 DEF Inv, OneAtATime, GlobalsAreOfOne, Flagged, Attached
  <2> QED
    BY <2>1, <2>2 DEF DoneGivesBack
<1>2. Init => Inv
  BY InitInv
<1> QED
  BY <1>1, <1>2, InvStep, PTL DEF Spec

(***************************************************************************)
(* Signals are dropped only where another is still on its way: a running   *)
(* watch whose caller is not up to date has a notification due, a block    *)
(* about to write into its pipe, or a byte or a signal somewhere between.  *)
(***************************************************************************)
THEOREM MissedChangeHasSignal == Spec => []SignalUnderWay
<1>1. Init => Inv /\ SignalUnderWay
  BY InitInv
<1>2. (Inv /\ SignalUnderWay) /\ [Next]_vars => (Inv /\ SignalUnderWay)'
  BY InvStep, SignalStep
<1> QED
  BY <1>1, <1>2, PTL DEF Spec

=============================================================================
