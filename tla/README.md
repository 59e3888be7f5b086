# Verification of go-eventkit

TLA+ specifications of the part of go-eventkit that other programs rely on: the
REST server that puts an access policy, an idempotency cache, a rate limiter, a
deadline and an audit log around the macOS calendar and reminders database, the
process it runs in, and the MCP tools through which an agent writes events and
reminders.  Paths below are relative to the repository.

## 1. The system

```
 agent - MCP tools (dates in words, partial arguments) - REST client     curl, other programs
   |  HTTP, a timeout of the client's own; a request given up may still take effect
 net/http -- Recover - Loopback - RejectMethodOverride - RateLimit     one goroutine per request
   |
 RequestTimeout ............. starts a second goroutine per request, waits for it or the deadline
   |
 RequireContentType - Idempotency (cache) - Audit - handler            in the second goroutine
   |
 ScopedCalendar / ScopedReminders  <-- atomic policy pointer <-- SIGHUP reload
   |  several separate bridge calls per method
 calendar / reminders client  (Go, cgo)
   |  JSON over C calls; writes on one serial dispatch queue
 EKEventStore  <-- Calendar.app, iCloud sync, other programs
```

| component | source | state | operations | hard part |
|---|---|---|---|---|
| access policy | `server/policy/policy.go` | immutable allowlist: default mode, entries | `Load`, `Resolve` | several entries for one target, ID against source |
| scoped calendar | `server/scoped/calendar.go` | an atomic pointer to the policy; nothing else, each method builds its index anew | 11 calls, `ReplacePolicy` | check and use are separate bridge calls, the policy may be swapped between them |
| calendar bridge | `calendar/bridge_darwin.{m,go}` | the EventKit store, a write queue | fetch, save, remove, batch remove | name lookup ignores case, ids may be prefixes, batches partly fail |
| idempotency cache | `server/middleware/idempotency.go` | map + insertion order under a mutex | `get`, `put`, `evict` | expiry, refresh and eviction must keep both in step |
| middleware chain | `server/server.go`, `server/middleware/*` | per request: two goroutines, a context, a response | one HTTP exchange | the deadline answers while the handler goes on |
| scoped reminders | `server/scoped/reminders.go` | as scoped calendar | 13 calls, completion among them | as above; completion is not checked again on the way out |
| reminders bridge | `reminders/bridge_darwin.{m,go}` | the reminders store | as the calendar bridge | an id prefix is resolved anew by each write |
| change watcher | `calendar/watch.go`, `reminders/watch.go`, `ek_cal_watch_*` | a pipe, an observer, an atomic flag | start, notify, read, stop | pipe closed under a reader, signals dropped |
| policy file and reload | `server/policy/policy.go`, `server/server.go`, `cmd/eventkit-server/main.go` | two policy pointers, a signal channel of one | load, build, SIGHUP, two swaps | a signal during a reload, a bad file, an edit between open and read |
| rate limiter | `server/middleware/ratelimit.go` | a token bucket | reserve, cancel | a refused request holds a reservation for a moment |
| server process | `cmd/eventkit-server/main.go`, `cmd/eventkit-mcp/main.go` | settings, listener, signal handlers | start, SIGINT, SIGTERM, shutdown | shutdown against requests in flight, one deadline behind another |
| handlers | `server/handlers/*` | none | decode, call, map errors | absent, null and empty fields of a patch |
| date parser | `dateparser/` | none | pure functions of a text and the time | calendar arithmetic at month and year ends, the order of eleven parsers |
| bridge JSON | `calendar/parse.go`, `reminders/parse.go` | none | marshal an input, parse a result | a field that is absent is kept, one that is null is cleared |
| recurrence rules | `eventkit.go`, both bridges | none | validate, to JSON and back, build the rule | which constraint goes with which frequency, an end given in two ways |
| MCP tools and client | `mcp/*` | none | tools that write, one REST request each | client timeout against a late effect, repeated calls |

What makes each of them correct:

- **Policy**: the decision depends on the set of entries, not on their order or
  on how the loop is written; a deny for an ID cannot be outvoted.
- **Scoped calendar**: a call that says "ok" read or wrote where the policy
  allowed it; a call that says "denied" changed nothing; a batch tells the
  truth about each id; all of it while other requests, other programs and
  policy reloads run between its bridge calls.
- **Cache**: the slice and the map describe the same keys, at most `cap` of
  them, and a response is forgotten only when its time is over or it is the
  oldest of a full cache.
- **Chain**: every client gets a status; a success reported is a success that
  happened, under that key; a success that happened can be replayed, also when
  the client was told 504; what was carried out is in the audit log.

- **Reload**: whatever the overlap of signals, edits and reloads, the wrappers
  end up on the file the operator last asked for, never on half of a bad one;
  nothing is granted that the file does not spell out.
- **Server**: the limiter lets no more through than burst and rate; a refused
  request costs the others nothing; the process ends when told to.
- **Tools**: a date means what its words say at the moment of the call; a field
  is what the last call that took effect said of it, and a call that leaves it
  out changes nothing; repeating an update or deletion changes nothing more.

The hazards of the code, each with its line and the properties that would
notice it going wrong, are listed in `PROJECT.json`.

## 2. The modules

| module | models | instantiated by |
|---|---|---|
| `Policy` | modes, validated entries, and the *decision* of a policy stated by what it is | everything below |
| `PolicyResolve` | the two loops of `PackagePolicy.Resolve`, one action per iteration | `MCPolicyResolve` |
| `CalendarStore` | the EventKit store as the bridge sees it: calendars with titles and accounts, events in calendars; atomic commits; edits by others | `ScopedCalendar` |
| `ScopedCalendar` | every method of `ScopedCalendar`, one action per bridge call or load of the policy pointer, any number of calls in flight | `MCScopedCalendar` |
| `IdemCache` | `idemCache`: `Get`, `Put`, and a clock | itself; `RequestChain` by `INSTANCE` |
| `ReminderStore` | the reminders database as its bridge sees it, with prefix lookup on every access | `ScopedReminders` |
| `ScopedReminders` | every method of `ScopedReminders`, in the same way as `ScopedCalendar` | `MCScopedReminders` |
| `ChangeWatcher` | `WatchChanges`: observer block, pipe, two goroutines, two channels, the descriptor table | itself |
| `RequestChain` | the exchange of each request: the connection's goroutine, the handler's goroutine, the context, the shared cache | itself |
| `PolicyLoad` | the document of a policy file, its validation, what it builds, the implicit policy | `PolicyReload` |
| `PolicyReload` | `run` up to `server.New`, `watchReloads`, the signal channel, an operator who edits the file | `MCPolicyReload` |
| `ServerConfig` | how flags and environment become settings, in both binaries | `HttpServer` |
| `HttpServer` | the process: limiter, write deadline, request timeout, shutdown | `MCHttpServer` |
| `CivilTime` | the part of package `time` the parser uses: days, months, weekdays | `DateParser`, `Recurrence` |
| `DateParser` | `ParseDateRelativeTo`: eleven parsers in order, on what a text says | `ItemFields` |
| `Recurrence` | recurrence rules: what `Validate` accepts, the JSON both ways, what the bridges build | `ItemFields` |
| `ItemFields` | the fields of an event or reminder on their way: tool arguments, REST body, bridge JSON, item, answer | `ToolCalls` |
| `ToolCalls` | the tools that write, the client that gives up, requests that take effect late, other clients' patches | `MCToolCalls` |
| `*Proofs` | the theorems about the module they are named after | |

### Policy and PolicyResolve

`Decides(p, id, src, m)` is the precedence of `policy.go:86-123` without loops:
the least mode among the entries for the ID, else the greatest among those for
the source, else the default.  `Resolve` is the mode it determines, and this is
what `ScopedCalendar` asks.  `PolicyResolve` is the code: `ScanId`,
`ReturnIdMode`, `BeginSources`, `ScanSource`, `ReturnSourceMode` are the first
loop, the early return, the start and the body of the second loop, and the last
two returns.  An entry names an ID or a source and never both, which
`buildPackage` refuses (`policy.go:209-244`).

### CalendarStore and ScopedCalendar

`calendars[c]` is a title, `events[e]` the calendar an event is in; `Unborn`
and `Gone` are identifiers not yet minted and deleted.  The bridge's saves are
`commit:YES` and run on one serial queue (`bridge_darwin.m:22-35`), so each
write is one atomic step; a batch delete holds the queue for its whole loop
(`removing`, `QueueFree`), while reads run at any time.  What the bridge does to
names is kept: `NamedLike` picks *any* calendar whose title is equal ignoring
case (`find_calendar_by_name` takes the first in an order EventKit does not
promise), the index of the scoped layer knows exact titles, `Matches` resolves
an exact id or any event it is a prefix of, and deletion takes exact ids only.

`pc[r]` is the step the method of request `r` is about to take:

| step | code |
|---|---|
| `index` | `s.index()`, or `bridge.Calendars()` |
| `fetch` | `bridge.Event(id)`, for each id of a batch |
| `check`, `dest`, `source` | the policy decisions before the write |
| `write`, `removing` | the bridge's write |
| `reindex`, `verify` | the second index and the check on the way out |
| `list`, `filter` | `bridge.Events`, and one turn of the loop over a listing |

`OthersEdit` is any change by Calendar.app or sync, `ReplacePolicy` a reload.
`touched`, `inForce` and `quiet` are history: which calendars a call changed,
which policies were in force while it ran, and whether anybody else changed
anything meanwhile.  `IndexError`, `FetchFails`, `WriteFails` and the failing
branch of `Reindex` are the bridge's error returns.

Left out of the store: the fields of an event, attendees, attachments and
recurrence spans (no scope decision looks at them); `ErrAmbiguousID`; failures of
the JSON encoding of an answer after the save; an account that is renamed
(`SourceOf` is a constant).  The window of the prefix search (two years) is a
fetch that may fail to find an event that exists (`FetchFails`).

### ReminderStore and ScopedReminders

The steps are those of `ScopedCalendar`.  What differs is what the code does
differently, and each difference has its consequence in a property:

- the index is built before the reminder is fetched, except in `Reminder`
  (`Begin`, `Index`, `FetchReminder`);
- the bridge resolves an id or prefix again when it writes
  (`resolve_reminder_for_write`), so the write may find another reminder than
  the one that was checked: `Matching` in `UpdateTheReminder`,
  `DeleteTheReminder`, `ChangeTheStatus` and `RemoveOne`.  This is why
  `QuietExactWritesGuarded` is about calls that name exact ids;
- completion (`ChangeStatus`) is answered by the bridge without another check;
- a reminder that is gone when the write comes is a plain error (`WriteFails`),
  a list that is gone is `ErrNotFound`.

Left out: the fields of a reminder.  URL and flag are saved through a private
API after the first save and stay in the list the first save chose; their
failure is ignored by the code and changes no decision.

### ChangeWatcher

`reader[w]` is the goroutine of `watchChangesFromFile`, `pump[w]` the one of
`WatchChanges`:

| variable | values |
|---|---|
| `reader` | `check` (the context), `read`, `send` (one signal for each byte in hand), `wait` (EAGAIN), `ended` (the inner channel is closed) |
| `pump` | `range`, `offer` (a signal taken, to be passed on), then `stop`, `clear`, `close`: the three deferred steps, and `done` (the caller sees its channel closed) |
| `poster` | `idle`, `called` (the block runs), `loaded` (it has read `ek_watch_pipe[1]`) |

`fds` is the table of descriptors: numbers are what the code keeps, and the
lowest free number is given out next.  `Finalize` is the finalizer `os.NewFile`
sets: when the reader has returned nobody refers to the file, and the collector
closes its number.  `robbed` is history: whose descriptor a close has hit that
was meant for another.  Fairness is in section 3.  The
reminders package has the same code under other names; the two have a pipe and
a flag of their own and share the table only.

### IdemCache and RequestChain

`entries` and `order` are the map and the slice; the mutex makes `Get` and `Put`
atomic.  The middleware calls `get`, then the handler, then `put`, holding no
lock across them; that is `Lookup`, `Run` ... `Store`.

`serve[r]` is the goroutine of the connection, `handler[r]` the one
`RequestTimeout` starts:

| `handler` | what the goroutine is about to do |
|---|---|
| `admit` | `RequireContentType`, then `cache.get` (`Unsupported`, `PassBy`, `Lookup`) |
| `run` | the handler with its bridge calls; may fail before or after its effect, panic, or stay here for ever |
| `header`, `body` | `WriteHeader` and `Write` through `recordingWriter`, or those of a replay |
| `log` | the audit record, after the handler has returned |
| `store` | `cache.put` of a 2xx |
| `done`, `panicked` | the channel is closed, or carries a panic |

`ServeDone` and `ServeTimeout` are the two branches of the `select`, both
enabled when both are ready; `Deadline` and `Disconnect` end the context.
`Commit` is the status line: the first call wins, and after the exchange is over
none has an effect.  `wire[r]` is what the client got and whose body it was.
`raced` and `forgotten` are history.

Loopback, RejectMethodOverride and RateLimit may each answer at once; that is
one alternative of `Arrive` (the limiter itself is in `HttpServer`).  The bodies
of responses are the name of the request whose handler wrote them.  The data
races between the abandoned handler and `net/http` on the header map are not
modelled.

### PolicyLoad and PolicyReload

A document is what the YAML decoder hands to `build`: per package a default and
entries, each a record of words; a file that is missing (`Gone`) or does not
decode (`Garbled`) is a content of its own.  `ValidEntry` and `ValidPackage` are
the refusals of `buildPackage` in one condition, `BuildPackage` what it returns
otherwise, `DefaultPolicy` the implicit policy `server.New` installs.

`main` is where `run` is (`bind`, `load`, `read`, `connect`, `serve`, `exited`),
`watcher` where `watchReloads` is (`absent`, `starting`, `idle`, `load`, `read`,
`swap`, `swapRem`, `returned`).  Opening and decoding are two steps and the file
may be edited between them: `Content` is what a read may see, the old content
when the file was replaced by a rename, the new one when it was written in
place.  `ReplacePolicy` is two stores (`SwapCalendar`, `SwapReminders`).
`raised` is a SIGHUP the runtime holds, `hupCh` the channel of one: `Forward`
drops a signal on a full channel.  `Hup` ends the process while no handler is
installed.  `asked` is history: a SIGHUP has come since the last edit.

### ServerConfig and HttpServer

`Effective` and `EffectiveFromZero` are the two ways the binaries merge flag,
environment and default: eventkit-server takes a flag of 0 for none,
eventkit-mcp does not.  `Accepted` is the bind check and the parse errors.

`lim` is the limiter of golang.org/x/time in integer units (a token is `Second`
units, the rate is units per tick): tokens may go below zero, and `Cancel` gives
back only what no later reservation waits for, as the library does.  The library
is external; the middleware's use of it is `Arrive` (reserve), `Admit`,
`Refuse`, `Cancel`, and the steps of two requests interleave.  `Start` may also
fail for what is not modelled here, a bad policy or an address in use.  `Late` is
the write deadline of `net/http`, which is set when the request has been read;
`TimedOut` the request timeout, whose timer starts later, at admission: of two
that are equally long the deadline is over first, and the 504 is cut off.  The handler may
return at any time or never.  `Shutdown` closes the listener; `ServeReturns` is
`ListenAndServe` returning, then `run`, then the process.  `excused` is history:
a request took its reservation while another was held that would be given back
or not due, where the library itself gives back less than was taken.

### DateParser, Recurrence, ItemFields and ToolCalls

Time is minutes since 1 January of year 1, in a zone of fixed offset.  A text is
a record of what its words say: `form` is the syntax, the other fields are its
numbers and words.  `Attempts` is the order of `ParseDateRelativeTo`; each
parser returns a moment or `NoDate`, an error.  The order decides for the texts
that two parsers know: a month day in the layout "2 Jan 2006" (`written`; "21 mar
2026", with the month in three letters, a year, and no time) is taken by
`TryStandardFormats` if there is such a day, before `ParseMonthDay` sees it.  The arithmetic is that of
`time.Date` and `AddDate`: days past the end of a month overflow into the next.
`DateText` is the set of all texts the patterns recognise, with any numbers that
their digits can spell, up to a year of four digits and an amount of `MostUnits`:
a larger number of hours overflows a `time.Duration`, which is not modelled.

`ItemFields` follows the fields through the layers, one operator each:
`UpdateBody` and `CreateEventBody` (the tool: an empty string is not sent, a
date is parsed), `MarshalUpdateInput` and `MarshalCreateEvent` (the body, field
by field), `PatchedEvent` and `PatchedReminder` (the bridge: absent keeps, null
clears, `clearDueDate` first, `remindMeDate` replaces every alarm), then back:
`EventToDict` and `ReminderToDict` (the bridge's JSON), `ConvertRawEvent` and
`ConvertRawReminder` (the Go parser), `RedactEvent` and `RedactReminder` (what
the tool shows).

A recurrence rule is a frequency, an interval, the constraints that are given
and an end; `only` has a list for each constraint, empty where it is not given,
as the Go struct has.  `Validate` is the check the Go clients make before the
bridge is called; `MarshalRules`, `NewRules`, `RulesToDicts` and
`ConvertRawRules` are its way into EventKit and back, on which empty constraints
and counts below one are dropped and a date wins over a count.  The tools
neither set nor show rules, so it is the REST patches of other clients that
carry them, and `Shown` is what such a client reads: the item without the
redaction of the tools.

In `ToolCalls` a try is `sent`, then `served` and `answered`, or `abandoned`
when the client gave up before the effect, which may still come (`gone`), or
`failed`.  A batch deletes id by id, and each may fail on its own: it reaches any
part of the items it names (`Reached`), every other tool its one item.  `log` is
history: per call that took effect its try, the items it reached and all items
after it.  The calls are constants, and what the clients
cannot send is excluded by `WellFormed`, which is assumed of them: a tool has
the arguments its input struct requires and no others, each of the type of its
field (`Holds`, where `Strings` are names and texts, the empty one among them);
REST and the create tools refuse an empty calendar or list.  Likewise
`Existing`, the items there are at the start, are events and reminders.  The
agent goes on with the same call or another (`FollowUps`) while an abandoned
request is still under way.  `kit` is whether the private ReminderKit is there,
without which a flag is not stored.

## 3. What is checked

| run | instance | states | question |
|---|---|---|---|
| `policy_resolve` | 2 ids, 2 sources, all policies of up to 3 entries | 249 k | do the loops compute the decision? |
| `idem_cache` | 3 keys, capacity 2, window 2, clock to 5 | 615 | do map and slice stay in step, does nothing leave early? |
| `chain` | 2 requests, 2 keys, capacity 1, window 1, clock to 2 | 1.36 M | the safety properties of the chain, that it uses the cache as specified, and that every request is answered |
| `scoped_one` | 1 call of any kind, 2 foreign edits, 1 reload | 3.3 M | the properties of the scoped layer against a changing world |
| `scoped_reminders` | 1 call of any kind, 2 foreign edits or reloads | 1.3 M | the same for reminders and lists |
| `watcher` | 2 watches, 2 changes, 3 descriptors of which others use 1, channels of 1, pipe of 2 | 574 k | is every change signalled, does a cancelled watch end and clean up? |
| `policy_reload` | 12 documents good and bad, 2 edits, 2 signals, started with and without a file | 108 k | do reloads settle on the file, is nothing granted that is not written? |
| `http_server` | 3 requests, a second of 2 ticks, clock to 5, 8 command lines | 1.7 M | does the bucket hold, who is cut off, does the process stop? |
| `tool_calls` | 2 events, 1 reminder, 2 calls, 4 awkward moments, 109 first calls, 7 recurrence rules of which 5 are refused | 557 k | do dates, fields and repeated calls mean what they say? |

The bounds: an early or a lost entry of the cache needs one key that pushes and
one that is pushed (capacity 1 or 2) and a clock that passes one window; a
double execution needs two requests; a third entry is the first that can
contradict two others in `Resolve`.  In the scoped runs the two calendars have
titles and accounts that may differ only in case, one is immutable, two events
share an id prefix, and of the three policies two disagree about every calendar
and one allows all: one foreign edit between check and write is enough to move
an event, rename or delete a calendar, and the second lets it happen before the
check on the way out as well.  A call sees other calls of the scoped layer only
as changes of the store between its own steps, which `OthersEdit` makes as well;
for any number of calls at once the theorems of section 4 hold.  A channel of
one drops signals from the second on, a pipe of two lets one read return more
than one byte, and the second watch is the first that can inherit the descriptor
numbers of another.  Two edits and two signals give a signal during a reload, an
edit between open and read, and a bad file between two good ones.  Two requests
compete for a token, the third sees what a cancelled reservation left; a second
of two ticks leaves room between a request and its slot, and five ticks let a
bucket refill and both deadlines pass, in either order; one command line has them
equally long.  Of two events one may be left when a batch that names both fails
in part, and the batch is among the calls that are tried again.  The month days
of the run are written in a layout and in none.  The agent starts on a
Sunday at nine, on 31 January, on New Year's Eve late on a Friday, and on a leap
day at midnight, and may let 45 minutes or a day pass, which crosses an hour, a
day, a month and a year; two calls are the first of which one can overtake the
other.  Deadlock is not checked, except by `idem_cache`, because the calls,
requests and edits are finite in number and the system then stands still.

The properties:

- `ReturnsTheDecision` - the loops of `Resolve` agree with the precedence rules.
- `CacheConsistent`, `LeavesOnlyWhenDue` - see above.
- `OneExecutionUnlessExcused` - two successes under one key are explained by an
  overlap (the second looked up while the first was under way) or by an entry
  that expired or was pushed out, and by nothing else.
- `SuccessIsTruthful` - a 2xx for a write rests on an operation carried out,
  the request's own or one with the same key; so does its body.
- `SuccessIsReplayable` - a success under a key is in the cache until due to go,
  also when the client got a 504 or had hung up.
- `EffectIsAudited`, `NoEmptyAnswer`, `ImplementsCache`, `EveryRequestAnswered`.
- `NoSilentMisplacement` - a create or update that says "ok" ended in the
  calendar that was checked, and writable.
- `QuietWritesGuarded` - with nobody else at work, a write outside the writable
  calendars is always reported (this is what the check on the way out is for:
  names resolved ignoring case go elsewhere than the name that was checked).
- `QuietExactWritesGuarded` - the same for reminders, when the call names exact
  ids; completion and deletion, which are not checked on the way out, are kept in
  scope by the check on the way in.
- `ReadsInScope` - what a read returns was readable where the read saw it.
- `RefusedMeansUntouched` - a refusal changed nothing, also when it comes from
  the bridge after the checks.
- `BatchReportsTruth` - an exact id reported as deleted is gone.
- `SignalUnderWay`, `ChangesAreSeen` - dropping signals loses no change: while a
  watch runs, a change not yet fetched has a signal on its way, and is fetched.
- `RunningOwnsPipe`, `DoneGivesBack` - stop, flag and channel are given up in an
  order that lets the next watch start as soon as the caller sees the end.
- `CancelCloses` - the channel of a cancelled watch is closed, though no byte comes.
- `SettlesOnTheFile`, `ReloadTakesEffect` - when a SIGHUP came after the last
  edit and nothing is under way, both wrappers run on the file as it is; and
  this comes about.
- `GrantsAreWritten` - with a file each wrapper runs on a document that loaded
  as a whole and allows only what its words spell out; without one, the default
  calendar and list alone.
- `AdmittedWithinBudget` - between the arrival of one request and the admission
  of another no more pass than the burst and what the rate adds.
- `RefusedTakeNothing` - when no reservation is held, the bucket is what the
  admitted requests alone would have left.
- `OnlyDueCuts` - an answer is lost only to the end of the process or to the write
  deadline: that of a request let through, however late its handler, only if the
  deadline is no longer than its wait for admission and the request timeout
  together; that of a refused one only if it was in the limiter for as long.
- `StopsWhenAsked` - the end of the process comes.
- `DatesMeanWhatTheySay` - against a reader's definition without the parser's
  arithmetic; a text is refused only when it has no meaning.  What a bare date
  means is taken from the code here: nine o'clock, or midnight if it is in a layout
  of package `time`.  The comments promise nine o'clock for all of them (see below).
- `FieldsAreAsLastSaid` - each field of an item is what the calls that took
  effect, in that order, last said of it, and the answer shows it.
- `RetriesAgree` - "the same final state when retried" (`annotations.go:39-57`),
  for calls whose dates mean the same at both times.  Of a batch that failed in
  part the second may delete what the first left over, and nothing else.

### Where the code and its comments disagree

Each of these is a run in which TLC finds the behaviour; `PROJECT.json` quotes
the comment.

| run | what happens |
|---|---|
| `scoped_batch_prefix` | an id prefix in a batch passes the check, is skipped by the bridge, and is reported deleted |
| `watch_finalizer` | the file of a stopped watch is collected late and closes the pipe of the next watch |
| `server_drain` | SIGTERM ends the process with requests in flight: `ListenAndServe` returns as soon as `Shutdown` has closed the listener, and nobody waits for the drain |

More of the kind, found while modelling, have no run.

Scoped layer and chain:

- an event moved between check and deletion is deleted outside the scope and the
  call says ok (`scoped/calendar.go:258`);
- a second request with a key whose first is still running runs the handler
  again (`idempotency.go:11-14`; the properties of the chain excuse it by `raced`);
- a handler that hangs after its header leaves a cut 200, not the promised 504
  (`timeout.go:14-15`);
- the cache called LRU evicts in insertion order (`idempotency.go:28`, `170`);
- the audit record that "logs the final outcome" holds the handler's status where
  the client got 504 (`server.go:72`); replays and 415s pass by the log that "logs
  every non-GET" (`audit.go:38`);
- updating, deleting or completing a reminder that does not exist is said to
  return `ErrNotFound` and returns a plain error (`reminders/bridge_darwin.go:154`,
  `183`);
- a listing loads the policy once per element, so that a reload in the middle
  mixes two policies.

Process:

- `readinessTimeout` "caps the EventKit ping done inside /readyz so a stuck bridge
  can't hang the probe" (`handlers/register.go:51-52`); the context it bounds is
  handed to nobody, and the request timeout is all that ends the probe;
- `options.go:37` says that `New` returns an error if no policy is set; it
  installs the implicit one (`server.go:126-171`);
- a refused request cancels its reservation "so other requests can use the slot"
  (`ratelimit.go:40-41`); when
  another reservation was taken in between, the library gives back less, which is
  why `RefusedTakeNothing` has an excuse;
- the precedence "explicit flag, environment variable, built-in default"
  (`main.go:14-15`) does not hold for a flag of 0 in eventkit-server;
- a SIGHUP before `watchReloads` has installed its handler, or without a policy
  file, ends the process.

Dates and fields:

- updates are annotated idempotent, which those with relative dates are not
  (`RetriesAgree` asks for steady dates);
- "only fields you set are changed", but a blank date is parsed to the zero time
  and sent as year 1;
- the comment on `remindMeDate` (`reminders/bridge_darwin.m:990`) says that the
  first alarm is replaced; all are removed;
- "WithDefaultHour sets the hour used when a bare date has no explicit time"
  (`dateparser.go:38`), and "WithDefaultHour(9) makes bare dates land at 09:00 local
  time rather than midnight" (`mcp/tools/dates.go:18-19`); the layouts of package
  `time` are asked first and know no default hour, so that "2026-03-15", "03/15/2026",
  "Jan 15, 2026" and "21 mar 2026" are midnight, where "mar 21 2026", "21 march 2026"
  and "21 mar" are nine o'clock;
- an end of a recurrence should have "exactly one of EndDate or OccurrenceCount"
  (`eventkit.go:190`); with both it is valid, and the count is dropped without a word;
- "3:75pm" is accepted and carries over; "0pm" is accepted after an ISO date only.

### Fairness

`FairSpec` assumes that the connection's goroutine runs when its `select` is
ready (the Go scheduler) and that the timer of the context fires.  It assumes
nothing of the handler: a bridge call into EventKit can hang for ever
(`timeout.go:60-63`).  A client that hangs up ends the exchange as well.

`FairSpec` of `ChangeWatcher` assumes that both goroutines run, that EventKit
posts a notification that is due and its block returns from an unfilled pipe,
and that the caller ranges over its channel.  It does not assume that anybody
cancels, nor that the collector runs.  `FairSpec` of `PolicyReload` assumes that
the watcher's goroutine and the runtime's signal goroutine run, and no edit,
signal or end of the process.  `FairSpec` of `HttpServer` assumes that the
goroutine behind `ctx.Done()`, `ListenAndServe` and the middleware of each
request run, and nothing of handlers, clients, signals or the clock.
`ToolCalls` has safety properties only.  A watch whose descriptor another close
has hit is excused from all promises: `watch_finalizer` shows that this happens.

## 4. What is proved

With TLAPS, for every value of the constants that satisfies the assumptions
named in the modules (`NoneIsNoName`, `PoliciesAreBuilt`, `StoreConstants`,
`ReminderConstants`, `ScopedConstants`, `CacheConstants`, `ChainConstants`,
`ReloadConstants`, `WatcherConstants`, `ServerConstants`, `GivenSettings`,
`WholeTicks`, `NoDateIsNone`, `NullIsNothing`, `ZonesAreNames`, `ToolConstants`,
`CallsAreWellFormed`, `ItemsAreWellFormed`).  Except for `WholeTicks` they say
no more than that capacities and windows are positive, markers are no values,
settings are numbers, and calls and items have the types of the code.
`WholeTicks` says that the tick is a unit of time in which a token takes a whole
number of ticks to come.  Every rate has such units, so no rate is excluded;
what is left out is the rounding of a slot to the clock's resolution, which the
library does at a nanosecond.  (At two requests a second and three ticks in a
second, where slots are rounded up, TLC finds both properties of the limiter to
hold for four requests.)

Every invariant and every action property the runs check is proved, and that the
chain implements the cache:

| module | theorems |
|---|---|
| `IdemCacheProofs` | `CacheIsConsistent`, `ForgetsOnlyWhenDue` |
| `RequestChainProofs` | `TypesHold`, `OneExecution`, `SuccessesAreTruthful`, `SuccessesAreReplayable`, `EffectsAreAudited`, `ClientsAreAnswered`, `ChainImplementsCache` |
| `ScopedCalendarProofs` | `ScopedTypes`, `NoMisplacement`, `RefusalsAreClean`, `BatchesAreTruthful`, `ReadsStayInScope`, `QuietWritesAreGuarded` |
| `ScopedRemindersProofs` | `ReminderTypes`, `ReminderPlacement`, `ReminderRefusalsAreClean`, `ReminderBatchesAreTruthful`, `ReminderReadsStayInScope`, `QuietExactWritesAreGuarded` |
| `ChangeWatcherProofs` | `WatchTypes`, `RunningWatchOwnsItsPipe`, `DoneWatchLeavesNothing`, `MissedChangeHasSignal` |
| `PolicyProofs` | `ResolveTypes`, `ResolveIsCorrect`, `LoopsComputeResolve`; `SettlesAlways`, `GrantsAlwaysWritten` |
| `HttpServerProofs` | `RateIsKept`, `RefusalsCostNothing`, `CutsAreDue` |
| `ToolCallsProofs` | `EveryEffectIsLogged`, `RetriesAlwaysAgree`, `DatesAlwaysMean`, `FieldsAlwaysAsLastSaid` |

The arguments, and the inductive invariants they need:

- **Resolve.**  `LoopInv` states the decision on the prefix already scanned;
  `ReturnsTheDecision` alone says nothing before the last step.  The scoped modules
  do not run the loops but apply the operator `Resolve`; `LoopsComputeResolve` says
  that what the loops return is its value, by `ResolveDecides` (some mode fits the
  precedence rules, and `Resolve` picks it) and `OneDecision` (no other does).
- **Cache.**  Consistency and types are inductive together; the work is in what
  `RemoveFirst` does to an injective sequence.
- **Chain.**  `ChainInv` says: each request's own variables agree with its two
  program counters (`RequestsInv`); a cached response belongs to a request with
  that key that succeeded (`CacheInv`); a success being written or committed is
  backed by one (`AnswersInv`); and for a pair of requests with one key, each
  position of the second relative to the first is excused or impossible
  (`PairsInv`).  Each step of one request leaves the others' variables alone
  (`Frame`), so the per-request part is proved once.  Type correctness of the
  cache inside the chain is not proved again: it follows from the refinement and
  `IdemCacheProofs`.
- **Scoped calendar and reminders.**  `RequestInv` says what each step of a method
  knows of its own call, in particular that nothing was touched before the write;
  `BatchInv` that an item reported deleted is `Gone`, which the store never takes
  back (`StoreGrows`).  `ReadInv` says that a verdict is given on an item of the
  call only, and that what is shown was readable under the policy loaded when its
  turn came, which is among those in force during the call.
  `QuietWritesGuarded` compares what was written with what was checked several
  bridge calls before, so `GuardInv` carries three facts along a call nobody has
  disturbed: a fetched event is still where it was found (`AgreeInv`, for exact
  ids); whoever is about to write has passed its checks (`CheckedInv`); and what a
  write touched is writable, or is where it landed and the check on the way out
  has yet to decide, or has been reported (`TouchedInv`).  The others' steps leave
  it alone because a write of theirs ends the quiet (`Notices`).  For reminders the
  write resolves its id anew, and `OneNamed` shows that an exact id names the
  reminder that was checked.
- **Watcher.**  `OneAtATime` says that the flag stands for the one watch that has
  not cleared it, `GlobalsAreOfOne` that observer and pipe are those of the watch
  that has not stopped yet, `TableIsOfOne` whose descriptors are whose, as the
  numbers are given out again; `Stages` ties the two goroutines of a watch
  together.  `SignalUnderWay` is inductive on top of these: a byte that is lost to a
  full pipe, or a signal to a full channel, was lost because another was there.
  That the next start never finds the pipe of another (`StartFindsNoPipe`) is what
  the order of stop, clear and close is for.
- **Reload.**  `ReloadInv` has three parts.  `SettleInv` follows the file: where a
  SIGHUP came after the last edit and no other reload is due, the one under way
  carries the file's present content from step to step, through both swaps.
  `SettlesOnTheFile` alone says nothing while a reload runs.  `GrantInv` says that
  every policy held anywhere, half way through a reload too, was built of a
  document as a whole; `GrantsAreSpelled` goes from the words of such a document to
  what `Resolve` makes of it.  `ReloadTypes` is type correctness.
- **Limiter.**  The proofs replace the bucket by one moment, `Empty`: when it was,
  or will be, empty.  Time leaves it where it is, a token moves it ahead by
  `Unit`, and it is never more than `Depth` ago (`FilledInTicks` to
  `CancelInTicks`).  `BucketBound` counts the tokens that are out, admitted or
  reserved, since any moment against `Empty`, and `SlotBound` against the slot of
  each request.  Both survive a cancellation because of `LastSlot`: of the
  reservations that wait, `lastEvent` is the last, every request behind one has
  moved `Empty` by its own token, and so only the last in the row gets its token
  back (`LastGivesBack`).  For `RefusedTakeNothing` one direction compares the
  bucket with the recursively defined one of the admitted requests alone:
  `RowsAreBounded` says which row of requests accounts for where it stands, and
  `BucketBound` that the real one stands no earlier (`NotFuller`).  The other
  direction is an invariant of its own, `Exact`: unless something is excused, only
  the request that came last waits, and its slot is `Empty`.
- **Deadlines.**  `Due` is `OnlyDueCuts` with the wait given a name.  A reply that is cut
  off comes no earlier than the write deadline (`Late`), and for a request let
  through no later than its timeout after admission: that is `WithinLimit`, no
  handler is left running past its timeout, as the clock waits for one that is due.
  Together they bound the deadline.  eventkit-mcp has no request timeout, and no
  write deadline either (`NoDeadline`), so that nobody is cut off there.
- **Tools: the log.**  None of the three invariants is inductive.  What carries
  them is `TriesAsAsked /\ LogAsServed`: a try is refused or has the body that its
  words give at the moment it was asked; the n-th entry of the log belongs to a try
  that took effect, found the items as entry n - 1 left them, was about exactly the
  items of its kind that it named and that were there (or one that never was, for a
  create), left each as `Stored` makes it, and its answer is what `Shown` shows of
  them.  A try moves on but keeps its call, moment, body and answer
  (`ServedStays`, `LogStays`), however late it takes effect and in whatever order.
- **Tools: retries.**  Two adjacent entries of one call have equal bodies if the
  moments its dates mean agree (`BodiesAgree`; `SteadyWords` for texts that do not
  look at the clock), and each patch is a projection: done twice it is done once
  (`StoredTwice`), with the alarms that a `remindMeDate` replaces as the case that
  needs a look.  A second batch finds no item that the first reached, so it can
  only reach what that left over.
- **Tools: dates.**  A parsed date is compared with what the text means to a reader
  (`Means`), form by form.  The lemmas below are those of a calendar: days, months
  and years are found and survive the way to a day number and back (`CivilIs`,
  `MonthFound`, `YearFound`), a weekday comes once in seven days (`NextWeekdayIs`,
  `ThisWeekdayIs`), a month is followed by the next (`NextMonthStarts`), and days
  past its end run over (`ShiftedMonths`).  Each parser
  refuses the forms of the others, so that for each text one is left to look at,
  but for the month days in a layout, which two know (`LayoutDecides`).
- **Tools: fields.**  `ItemAsSaid(id, n)` says that after n entries an item has, in
  each field, what the last entry that said something of it said (`LastSaid`), or
  what it had at first.  Were it wrong after some entry, there would be a first such
  entry (`ItemsAlwaysAsSaid`); but that one found the item as said, so it is enough
  to know what one call makes of one item (`StoredAsSaid`): what the body has a key
  for is set, and every other field kept, through marshal, bridge and back.  A
  recurrence rule that `Validate` accepts comes out of both bridges as it went in,
  but for the end that has a date and a count (`RulesKept`).  `ShownAsIs` is the way
  out to the answer.  Whether ReminderKit is there stays as it was at the start.

Induction over numbers is done by a least counterexample: `LowestIsThere` finds
the least member of a set of naturals through the well-foundedness of finite
sets, and serves for `Min` as well as for the recursion of `AdmittedOnly`
(`BucketsExist`, `RowsAreBounded`).  `ToolCallsProofs` takes it from the
well-foundedness of the natural numbers (`LeastNatural`).

Model-checked only:

- `EveryRequestAnswered`, `CancelCloses`, `ChangesAreSeen`, `ReloadTakesEffect` and
  `StopsWhenAsked` are liveness under fairness, out of the prover's reach.  The
  safety half of some is proved: `SignalUnderWay` of `ChangesAreSeen`,
  `SettlesOnTheFile` of `ReloadTakesEffect`;
- the disagreements, which are counterexamples.

## 5. What is not modelled

- Time: changes of a zone's offset (a day has 24 hours), seconds, overflow of an
  amount in the text.  The US and the long layouts of a date are not told from the
  ISO ones, though they take a time in fewer ways.  The clock stands still while a
  tool parses the dates of one call; the code reads it once for each of them, so
  that two may fall on either side of midnight.
- Recognising the words of a text: the regular expressions stand before the
  records of `DateParser`.
- Items: alerts of events, attendees, places, attachments, the URL of a reminder,
  the default calendar's alarms, the organizer.  They pass through the same
  layers as the fields that are modelled, without decisions of their own.
- Occurrences: which days a rule stands for, and the span of a change ("this
  event", "future events"), are EventKit's.
- Reading tools and handlers: listing, search and fetch pass on what the scoped
  layer returns (`ReadsInScope` is about that layer); the tools and handlers that
  create, rename and delete calendars and lists pass on as well.  REST creates
  with recurrence rules or alarms differ from patches in the name of the call.
- The frequency of a rule is one of the four (`CallsAreWellFormed`); the code's is
  an int that nobody checks.
- Decoding: YAML and JSON are a document, a body or a refusal; a document that
  does not decode is one content among others.
- Server: log levels and formats, the public URL, health and OpenAPI
  handlers, the
  session protocol of MCP, which is the SDK's.
- The data races between an abandoned handler and `net/http` on the header map.
  `ServeTimeout` writes the 504 and returns in one step, and a panic with
  `http.ErrAbortHandler`, which no handler here raises, is left out.
- A listener that fails while the process serves.
- The private ReminderKit beyond whether it is there.
- Platforms: the stubs that return `ErrUnsupported` on systems other than macOS.
- Build tooling, scripts that drive a real calendar by hand, and test fakes keep
  no state of the system.

## 6. Plan

Done: `PolicyResolve`, `ScopedCalendar` over `CalendarStore`, `IdemCache`,
`RequestChain` as a refinement of it, `ScopedReminders` over `ReminderStore`,
`ChangeWatcher`, `PolicyReload` over `PolicyLoad`, `HttpServer` over `ServerConfig`,
`ToolCalls` over `ItemFields`, `Recurrence`, `DateParser` and `CivilTime`; proofs of
every safety property of all of them.

Next, in this order:

1. An abstract specification of access: a monitor that admits or refuses a write
   in one step, with the scoped calendar shown to implement it for calls that are
   not disturbed; the invariants `RequestInv` and `GuardInv` are what the mapping
   needs.
2. The limiter as an abstract specification of what may pass, which `HttpServer`
   implements with `Empty` as the mapping.
3. The reading tools (`search`, `fetch` and the listings), whose answers should be
   of items the scoped layer let through at one time or another.
