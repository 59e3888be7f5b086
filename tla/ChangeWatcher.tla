--------------------------- MODULE ChangeWatcher ---------------------------
(***************************************************************************)
(* WatchChanges of the calendar client; reminders/ has the same code under *)
(* other names.  An observer block in C writes a byte into a pipe for each *)
(* notification, one goroutine reads the pipe and signals a channel, a     *)
(* second one copies the signals to the caller's channel and cleans up.    *)
(* Signals are dropped when a channel is full.  The pipe's descriptors are *)
(* numbers of the process's table, where the lowest free one is given out  *)
(* next, and they are kept in globals that the block reads without a lock. *)
(***************************************************************************)
EXTENDS Integers, FiniteSets, FiniteSetsExt

CONSTANTS
    Watches,     \* the calls of WatchChanges
    Fds,         \* descriptor numbers left to the process
    Free, Other, \* a descriptor not in use, or used elsewhere in the process
    ChanCap,     \* capacity of both channels (16)
    PipeCap,     \* bytes the kernel keeps in the pipe (64 K)
    BufLen,      \* bytes read at once (64)
    MaxChanges,  \* bound: changes of the database
    MaxOthers    \* bound: descriptors opened elsewhere

ASSUME WatcherConstants ==
    /\ Fds \subseteq Nat /\ IsFiniteSet(Fds)
    /\ {Free, Other} \cap Watches = {} /\ Free # Other
    /\ {ChanCap, PipeCap, BufLen} \subseteq Nat \ {0}
    /\ {MaxChanges, MaxOthers} \subseteq Nat

VARIABLES
    version,    \* of the database: counts its changes
    due,        \* EventKit has not yet posted a notification of the last change
    poster,     \* where the notification's block is
    target,     \* the descriptor the block has read from ek_watch_pipe[1]
    observer,   \* the observer is registered
    pipe,       \* ek_watch_pipe
    fds,        \* fds[n]: the watch whose pipe n belongs to, or Free, or Other
    active,     \* calWatchActive
    ends,       \* ends[w]: the numbers of w's pipe when it was made
    bytes,      \* bytes[w]: how many are in w's pipe
    file,       \* file[w]: the os.File, which closes its number when collected
    ctx,        \* ctx[w]: the context is cancelled
    reader,     \* reader[w]: what watchChangesFromFile's goroutine does next
    inHand,     \* inHand[w]: bytes read and not yet signalled
    inner,      \* inner[w]: signals in the channel between the goroutines
    pump,       \* pump[w]: what WatchChanges' goroutine does next
    outer,      \* outer[w]: signals in the channel of the caller
    seen,       \* seen[w]: the version the caller of w fetched last
    opened,     \* descriptors opened elsewhere so far
    robbed      \* history: whose descriptor somebody else's close has hit

posterVars == <<due, poster, target>>
tableVars == <<pipe, fds, ends, opened, robbed>>
readerVars == <<reader, inHand>>
vars == <<version, posterVars, observer, tableVars, active, bytes, file, ctx,
          readerVars, inner, pump, outer, seen>>

NoFd == -1
NoPipe == [read |-> NoFd, write |-> NoFd]
Capped(n, cap) == Min({n, cap})

Unused == {n \in Fds : fds[n] = Free}
Holds(w, n) == n \in Fds /\ fds[n] = w

(* pipe(2): the two lowest free numbers.  ek_cal_watch_start keeps a pipe it *)
(* finds.                                                                    *)
PipeFor(w) ==
    IF pipe # NoPipe THEN pipe
    ELSE LET n == Min(Unused) IN [read |-> n, write |-> Min(Unused \ {n})]

(* close(2) on the numbers in S on behalf of watch w: whoever has them now. *)
Close(w, S) ==
    /\ fds' = [n \in Fds |-> IF n \in S THEN Free ELSE fds[n]]
    /\ robbed' = robbed \cup ({fds[n] : n \in S \cap Fds} \ {Free, w})

Init ==
    /\ version = 0 /\ due = FALSE
    /\ poster = "idle" /\ target = NoFd
    /\ observer = FALSE /\ active = FALSE
    /\ pipe = NoPipe /\ fds = [n \in Fds |-> Free]
    /\ ends = [w \in Watches |-> NoPipe]
    /\ bytes = [w \in Watches |-> 0]
    /\ file = [w \in Watches |-> "none"]
    /\ ctx = [w \in Watches |-> FALSE]
    /\ reader = [w \in Watches |-> "idle"] /\ inHand = [w \in Watches |-> 0]
    /\ inner = [w \in Watches |-> 0]
    /\ pump = [w \in Watches |-> "idle"] /\ outer = [w \in Watches |-> 0]
    /\ seen = [w \in Watches |-> 0]
    /\ opened = 0 /\ robbed = {}

-----------------------------------------------------------------------------
(* WatchChanges, whose first part holds calWatchMu; when a watch is active or *)
(* pipe(2) fails it returns an error and changes nothing.  The caller        *)
(* fetches once it has returned; what it knows is as new as this step.       *)
Start(w) ==
    /\ pump[w] = "idle" /\ ~active
    /\ Cardinality(Unused) >= 2
    /\ LET p == PipeFor(w)
       IN  /\ pipe' = p
           /\ ends' = [ends EXCEPT ![w] = p]
           /\ fds' = [n \in Fds |-> IF n \in {p.read, p.write} THEN w ELSE fds[n]]
    /\ observer' = TRUE /\ active' = TRUE
    /\ file' = [file EXCEPT ![w] = "held"]
    /\ reader' = [reader EXCEPT ![w] = "check"]
    /\ pump' = [pump EXCEPT ![w] = "range"]
    /\ seen' = [seen EXCEPT ![w] = version]
    /\ UNCHANGED <<version, posterVars, opened, robbed, bytes, ctx, inHand, inner, outer>>

Cancel(w) ==
    /\ pump[w] \notin {"idle", "done"} /\ ~ctx[w]
    /\ ctx' = [ctx EXCEPT ![w] = TRUE]
    /\ UNCHANGED <<version, posterVars, observer, tableVars, active, bytes, file,
                   readerVars, inner, pump, outer, seen>>

-----------------------------------------------------------------------------
(* watchChangesFromFile.  Only the descriptor number goes into the kernel:   *)
(* a number that was closed and given out again is read all the same.        *)
ReaderFrame == UNCHANGED <<version, posterVars, observer, tableVars, active, file, ctx,
                           pump, outer, seen>>
Continue(w, step) == reader' = [reader EXCEPT ![w] = step]

CheckCtx(w) ==
    /\ reader[w] = "check"
    /\ Continue(w, IF ctx[w] THEN "ended" ELSE "read")
    /\ UNCHANGED <<bytes, inHand, inner>> /\ ReaderFrame

(* Mutant of Read: the first byte of a read is not signalled. *)
ReadOffByOne(w) ==
    /\ reader[w] = "read"
    /\ LET n == Capped(bytes[w], BufLen)
       IN  IF n > 0
             THEN /\ bytes' = [bytes EXCEPT ![w] = bytes[w] - n]
                  /\ inHand' = [inHand EXCEPT ![w] = n - 1]
                  /\ Continue(w, IF n > 1 THEN "send" ELSE "check")
             ELSE /\ UNCHANGED <<bytes, inHand>>
                  /\ Continue(w, IF Holds(w, ends[w].read) THEN "wait" ELSE "ended")
    /\ UNCHANGED inner /\ ReaderFrame

(* Mutant of Read: the descriptor is left blocking. *)
ReadBlocking(w) ==
    /\ reader[w] = "read"
    /\ IF bytes[w] > 0
         THEN LET n == Capped(bytes[w], BufLen)
              IN  /\ bytes' = [bytes EXCEPT ![w] = bytes[w] - n]
                  /\ inHand' = [inHand EXCEPT ![w] = n]
                  /\ Continue(w, "send")
         ELSE /\ ~Holds(w, ends[w].read)
              /\ UNCHANGED <<bytes, inHand>> /\ Continue(w, "ended")
    /\ UNCHANGED inner /\ ReaderFrame

(* f.Read: data, EAGAIN on an empty pipe, EBADF on a closed number; a number *)
(* somebody else has been given answers as it likes.                         *)
Read(w) ==
    /\ reader[w] = "read"
    /\ LET n == Capped(bytes[w], BufLen)
           holder == fds[ends[w].read]
       IN  \/ /\ holder = w /\ n > 0
              /\ bytes' = [bytes EXCEPT ![w] = bytes[w] - n]
              /\ inHand' = [inHand EXCEPT ![w] = n]
              /\ Continue(w, "send")
           \/ /\ holder = w /\ n = 0
              /\ Continue(w, "wait") /\ UNCHANGED <<bytes, inHand>>
           \/ /\ holder # w
              /\ \/ Continue(w, "ended") /\ UNCHANGED inHand
                 \/ holder # Free /\ Continue(w, "wait") /\ UNCHANGED inHand
                 \/ holder # Free /\ Continue(w, "send") /\ inHand' = [inHand EXCEPT ![w] = 1]
              /\ UNCHANGED bytes
    /\ UNCHANGED inner /\ ReaderFrame

(* Mutant of Send: the channel's capacity is not looked at. *)
SendAlways(w) ==
    /\ reader[w] = "send"
    /\ inner' = [inner EXCEPT ![w] = inner[w] + 1]
    /\ inHand' = [inHand EXCEPT ![w] = inHand[w] - 1]
    /\ Continue(w, IF inHand[w] = 1 THEN "check" ELSE "send")
    /\ UNCHANGED bytes /\ ReaderFrame

(* One turn of the loop over the bytes: a signal, or none if inner is full. *)
Send(w) ==
    /\ reader[w] = "send"
    /\ inner' = [inner EXCEPT ![w] = Capped(inner[w] + 1, ChanCap)]
    /\ inHand' = [inHand EXCEPT ![w] = inHand[w] - 1]
    /\ Continue(w, IF inHand[w] = 1 THEN "check" ELSE "send")
    /\ UNCHANGED bytes /\ ReaderFrame

(* Mutant of Wait: no time.After, the context alone wakes the reader. *)
WaitForCtx(w) ==
    /\ reader[w] = "wait" /\ ctx[w]
    /\ Continue(w, "ended")
    /\ UNCHANGED <<bytes, inHand, inner>> /\ ReaderFrame

(* EAGAIN: the context or 100 ms, whichever the select takes. *)
Wait(w) ==
    /\ reader[w] = "wait"
    /\ \/ ctx[w] /\ Continue(w, "ended")
       \/ Continue(w, "check")
    /\ UNCHANGED <<bytes, inHand, inner>> /\ ReaderFrame

-----------------------------------------------------------------------------
(* The goroutine of WatchChanges: range over inner, then the deferred steps. *)
PumpFrame == UNCHANGED <<version, posterVars, bytes, file, ctx, readerVars, seen>>
Then(w, step) == pump' = [pump EXCEPT ![w] = step]

Receive(w) ==
    /\ pump[w] = "range" /\ inner[w] > 0
    /\ inner' = [inner EXCEPT ![w] = inner[w] - 1]
    /\ Then(w, "offer")
    /\ UNCHANGED <<observer, tableVars, active, outer>> /\ PumpFrame

Offer(w) ==
    /\ pump[w] = "offer"
    /\ outer' = [outer EXCEPT ![w] = Capped(outer[w] + 1, ChanCap)]
    /\ Then(w, "range")
    /\ UNCHANGED <<observer, tableVars, active, inner>> /\ PumpFrame

(* Mutant of Drained: calWatchActive is cleared before ek_cal_watch_stop. *)
DrainedEarlyClear(w) ==
    /\ pump[w] = "range" /\ inner[w] = 0 /\ reader[w] = "ended"
    /\ active' = FALSE
    /\ Then(w, "stop")
    /\ UNCHANGED <<observer, tableVars, inner, outer>> /\ PumpFrame

(* inner is closed and empty. *)
Drained(w) ==
    /\ pump[w] = "range" /\ inner[w] = 0 /\ reader[w] = "ended"
    /\ Then(w, "stop")
    /\ UNCHANGED <<observer, tableVars, active, inner, outer>> /\ PumpFrame

(* Mutant of Stop: the write end is forgotten. *)
StopReadEnd(w) ==
    /\ pump[w] = "stop"
    /\ observer' = FALSE
    /\ pipe' = NoPipe
    /\ Close(w, {pipe.read})
    /\ Then(w, "clear")
    /\ UNCHANGED <<ends, opened, active, inner, outer>> /\ PumpFrame

(* ek_cal_watch_stop. *)
Stop(w) ==
    /\ pump[w] = "stop"
    /\ observer' = FALSE
    /\ pipe' = NoPipe
    /\ Close(w, {pipe.read, pipe.write})
    /\ Then(w, "clear")
    /\ UNCHANGED <<ends, opened, active, inner, outer>> /\ PumpFrame

Clear(w) ==
    /\ pump[w] = "clear"
    /\ active' = FALSE
    /\ Then(w, "close")
    /\ UNCHANGED <<observer, tableVars, inner, outer>> /\ PumpFrame

CloseChannel(w) ==
    /\ pump[w] = "close"
    /\ Then(w, "done")
    /\ UNCHANGED <<observer, tableVars, active, inner, outer>> /\ PumpFrame

(* The reader was the last to refer to the os.File: when the collector gets  *)
(* to it, its finalizer closes the number once more.                         *)
Finalize(w) ==
    /\ file[w] = "held" /\ reader[w] = "ended"
    /\ file' = [file EXCEPT ![w] = "collected"]
    /\ Close(w, {ends[w].read})
    /\ UNCHANGED <<version, posterVars, observer, pipe, ends, opened, active, bytes, ctx,
                   readerVars, inner, pump, outer, seen>>

-----------------------------------------------------------------------------
(* EventKit: a change is due a notification; the notification runs the block *)
(* of the observer registered at that time, on a thread of its own.          *)
PosterFrame == UNCHANGED <<observer, tableVars, active, file, ctx, readerVars, inner,
                           pump, outer, seen>>

Change ==
    /\ version < MaxChanges
    /\ version' = version + 1 /\ due' = TRUE
    /\ UNCHANGED <<poster, target, bytes>> /\ PosterFrame

Post ==
    /\ due /\ poster = "idle"
    /\ due' = FALSE
    /\ poster' = IF observer THEN "called" ELSE "idle"
    /\ UNCHANGED <<version, target, bytes>> /\ PosterFrame

Load ==
    /\ poster = "called"
    /\ poster' = "loaded" /\ target' = pipe.write
    /\ UNCHANGED <<version, due, bytes>> /\ PosterFrame

(* write(2): into the pipe whose write end the number is now, waiting while  *)
(* it is full; without effect on us if it is no such end or nobody can read. *)
WriteByte ==
    /\ poster = "loaded"
    /\ LET into == {w \in Watches : Holds(w, target) /\ ends[w].write = target /\ Holds(w, ends[w].read)}
       IN  /\ \A w \in into : bytes[w] < PipeCap
           /\ bytes' = [w \in Watches |-> IF w \in into THEN bytes[w] + 1 ELSE bytes[w]]
    /\ poster' = "idle" /\ target' = NoFd
    /\ UNCHANGED <<version, due>> /\ PosterFrame

-----------------------------------------------------------------------------
(* The caller: for each signal, fetch. *)
Consume(w) ==
    /\ outer[w] > 0
    /\ outer' = [outer EXCEPT ![w] = outer[w] - 1]
    /\ seen' = [seen EXCEPT ![w] = version]
    /\ UNCHANGED <<version, posterVars, observer, tableVars, active, bytes, file, ctx,
                   readerVars, inner, pump>>

(* Files and connections elsewhere in the process. *)
OthersOpen ==
    /\ opened < MaxOthers /\ Unused # {}
    /\ opened' = opened + 1
    /\ fds' = [fds EXCEPT ![Min(Unused)] = Other]
    /\ UNCHANGED <<version, posterVars, observer, pipe, ends, robbed, active, bytes, file, ctx,
                   readerVars, inner, pump, outer, seen>>

OthersClose ==
    /\ \E n \in Fds : fds[n] = Other /\ fds' = [fds EXCEPT ![n] = Free]
    /\ UNCHANGED <<version, posterVars, observer, pipe, ends, opened, robbed, active, bytes, file, ctx,
                   readerVars, inner, pump, outer, seen>>

-----------------------------------------------------------------------------
ReaderStep(w) == CheckCtx(w) \/ Read(w) \/ Send(w) \/ Wait(w)
PumpStep(w) == Receive(w) \/ Offer(w) \/ Drained(w) \/ Stop(w) \/ Clear(w) \/ CloseChannel(w)
PosterStep == Post \/ Load \/ WriteByte

Next ==
    \/ \E w \in Watches : \/ Start(w) \/ Cancel(w) \/ Finalize(w)
                          \/ ReaderStep(w) \/ PumpStep(w) \/ Consume(w)
    \/ Change \/ PosterStep
    \/ OthersOpen \/ OthersClose

Spec == Init /\ [][Next]_vars

(* The goroutines run, EventKit posts, and the caller ranges over its        *)
(* channel.  Nobody need cancel and the collector need not run.              *)
FairSpec ==
    /\ Spec
    /\ WF_vars(PosterStep)
    /\ \A w \in Watches : WF_vars(ReaderStep(w)) /\ WF_vars(PumpStep(w)) /\ WF_vars(Consume(w))

-----------------------------------------------------------------------------
(* The variables keep their types; no channel or pipe holds more than its    *)
(* capacity (bridge_darwin.go:366-400).                                      *)
TypeOK ==
    /\ version \in 0..MaxChanges /\ due \in BOOLEAN
    /\ poster \in {"idle", "called", "loaded"} /\ target \in Fds \cup {NoFd}
    /\ observer \in BOOLEAN /\ active \in BOOLEAN
    /\ pipe \in [read : Fds \cup {NoFd}, write : Fds \cup {NoFd}]
    /\ fds \in [Fds -> Watches \cup {Free, Other}]
    /\ ends \in [Watches -> [read : Fds \cup {NoFd}, write : Fds \cup {NoFd}]]
    /\ bytes \in [Watches -> 0..PipeCap]
    /\ file \in [Watches -> {"none", "held", "collected"}]
    /\ ctx \in [Watches -> BOOLEAN]
    /\ reader \in [Watches -> {"idle", "check", "read", "send", "wait", "ended"}]
    /\ inHand \in [Watches -> 0..BufLen]
    /\ inner \in [Watches -> 0..ChanCap] /\ outer \in [Watches -> 0..ChanCap]
    /\ pump \in [Watches -> {"idle", "range", "offer", "stop", "clear", "close", "done"}]
    /\ seen \in [Watches -> 0..MaxChanges]
    /\ opened \in 0..MaxOthers
    /\ robbed \subseteq Watches \cup {Other}

Running(w) == /\ pump[w] \in {"range", "offer"} /\ reader[w] # "ended"
              /\ ~ctx[w] /\ w \notin robbed

(***************************************************************************)
(* While a watch runs and its descriptors have not been closed by another, *)
(* a change its caller has not fetched has a signal on the way to it,      *)
(* however many signals the full pipe and channels have swallowed          *)
(* ("this is safe because callers re-fetch anyway").                       *)
(***************************************************************************)
SignalUnderWay ==
    \A w \in Watches : Running(w) /\ seen[w] < version =>
        \/ due \/ poster = "called" \/ (poster = "loaded" /\ target = ends[w].write)
        \/ bytes[w] + inHand[w] + inner[w] + outer[w] > 0
        \/ pump[w] = "offer"

(***************************************************************************)
(* A running watch has both ends of its own pipe and is the one the        *)
(* observer writes to, whatever earlier watches still have to clean up     *)
(* ("Only one watcher may be active per process").                         *)
(***************************************************************************)
RunningOwnsPipe ==
    \A w \in Watches : Running(w) =>
        /\ observer /\ active /\ pipe = ends[w]
        /\ Holds(w, ends[w].read) /\ Holds(w, ends[w].write)

(***************************************************************************)
(* Once the caller sees its channel closed the watch has given back both   *)
(* descriptors, and when no other watch has begun a new one can start at   *)
(* once: no observer, no pipe and no flag are left over.                   *)
(***************************************************************************)
DoneGivesBack ==
    /\ \A w \in Watches : pump[w] = "done" => \A n \in Fds : fds[n] # w
    /\ (\A w \in Watches : pump[w] \in {"idle", "done"}) =>
            ~active /\ ~observer /\ pipe = NoPipe

(***************************************************************************)
(* The channel of a cancelled watch is closed, also when no byte ever      *)
(* arrives for the reader ("The channel is closed when ctx is cancelled"). *)
(***************************************************************************)
CancelCloses == \A w \in Watches : ctx[w] ~> (pump[w] = "done" \/ w \in robbed)

(***************************************************************************)
(* Every change made while a watch runs is fetched by its caller, or the   *)
(* watch ends first: again and again the caller is up to date.             *)
(***************************************************************************)
ChangesAreSeen == \A w \in Watches : []<>(seen[w] = version \/ ~Running(w))

(***************************************************************************)
(* "os.NewFile does not take ownership ... let ek_cal_watch_stop own the   *)
(* fd lifecycle" (docs/prd/change-notifications-prd.md:428): no close hits *)
(* a descriptor number that has been given to somebody else meanwhile.     *)
(***************************************************************************)
NoDoubleClose == robbed = {}
=============================================================================
