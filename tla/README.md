# A TLA+ development of aviso-client

aviso-client is the client of ECMWF's notification server: a Rust library
(`crates/aviso`), its SSE parser (`crates/finesse`), and a command line, a C and
a Python interface on top. Its core is the *watch*: a task that keeps a stream
open over reconnects, hands each notification to triggers and to a consumer, and
checkpoints its progress in a state store so that a later process resumes.

All paths below are relative to `src/crates/aviso/src` unless they start with
`crates/`, `aviso-` or `docs/`.

## 1. The system

| Component | State | Operations | Talks to |
|---|---|---|---|
| Watch reducer (`watch/state`) | replay phase, connection status | `transition` | called by the supervisor; pure |
| Watch supervisor (`watch/supervisor`) | resume cursors, pending commit, resolved end, retry flags, gap guard | one task per watch: resolve, back off, refresh, connect, confirm, drain frames, commit, flush | server (HTTP, SSE), store, triggers, auth provider, consumer (bounded channel), cancellation (a oneshot of the stream and a watch channel of the client) |
| Stream (`watch/stream.rs`) | the receiving end of the channel | `recv`, `cancel`, `close`, drop | supervisor |
| Shared connections (`client/watch_transport.rs`) | HTTP clients and how many watches each carries | `acquire`, drop of a lease | every `watch()` of a client, every ending supervisor |
| File store (`state/file`) | snapshot in memory, a JSON file, a mutex, a file lock | `open`, `get`, `put`, `delete` | supervisors of this and of other processes |
| Memory store (`state/memory.rs`) | a map behind a lock | the same | supervisors |
| Watch start (`client/watch_spawn.rs`) | live watches per resume key | `watch` | supervisor |
| Trigger dispatcher (`watch/trigger/dispatcher`) | retry count, log files, the child of a command | `dispatch_triggers` | supervisor, six kinds of trigger |
| Triggers (`watch/trigger`) | settings and compiled templates | constructors, setters, one attempt | shell, HTTP servers, files |
| Multi-watch (`watch/multi.rs`, `client/watch_many.rs`) | several streams, whose turn it is | `watch_many`, `recv`, `close`, drop | streams |
| Refresh coordinator (`client/mod.rs`) | a lock and an epoch | `refresh_once`, `send_with_refresh` | notify, schema, admin; auth provider |
| Authentication (`auth`) | the credential in use, the path it was read from | header, `refresh`, discovery | files, environment |
| Settings and builder (`client/builder.rs`, `resolve.rs`) | what has been set, and where each value came from | setters, `from_file`, `from_environment`, `build`, describe | files, environment |
| SSE parser (`crates/finesse`) | partial line, partial event | `feed`, `end`, `next_frame` | supervisor |
| Command line (`aviso-cli`) | Ctrl+C state, one task per listener | listen, replay, notify, schema, admin | all of the above |
| C interface (`aviso-ffi`) | handles of builders, requests, watches | calls that block, calls with a callback, watch, stop, wait, free | all of the above |
| Python interface (`aviso-py`) | iterators around an optional stream | next, run, close, listen, notify | all of the above |

What makes each of them correct:

* *reducer*: a session is closed only by a fatal event, a stop, or the end of a
  completed replay; each kind of loss asks for its own reconnect policy.
* *supervisor*: nothing skipped or repeated within a process; a checkpoint never
  stands after something that was not handed over; no data before the stream is
  confirmed; one refresh per rejection; an error is the last item; a cancelled
  watch ends; a replay stops at the end the server resolved first.
* *connections*: a lease keeps finding its slot; no more watches on a connection
  than the cap.
* *stores*: a checkpoint never moves back, a finished put is never lost, over
  threads, processes, failures and crashes; a delete drops only what was seen.
* *dispatcher*: Ok is earned by every required trigger; a killed command is gone
  before the next attempt; nothing begins after a cancellation; it returns.
* *templates*: a value stays the value it is, in a shell command, a URL, a body.
* *readers of watches*: whoever is told that watches are over finds them flushed;
  a busy watch does not starve the others; what a reader takes off a stream is
  handed on; whoever stops is heard.
* *refresh*: the requests rejected in one epoch cost one refresh, a request that
  does not refresh relies on a refresh completed after its header was read, and
  a refreshed credential is the one requests carry.
* *settings*: the client that is built is the one that was reported, and every
  interface builds the same one of the same settings.
* *parser*: the frames of a byte stream do not depend on how it is cut.

Where the difficulty is: the commit lags one notification behind the delivery
while reconnects resume from the delivery; the cancellation can arrive at each
await and is looked at only at some of them; retries, refreshes and backoffs
share flags over several turns of one loop; a lease holds an index into a vector
others shorten; file handles write from stale snapshots and a dropped future
leaves its blocking task running; a command outlives its shell and holds its
pipes; files are rewritten between two reads; handles are stopped, waited for
and dropped from threads that know nothing of each other; and four interfaces
parse the same settings with code of their own. `hazards` in PROJECT.json lists
these places line by line.

## 2. The modules

| Module | What it is |
|---|---|
| `WatchReducer` | `WatchState::transition` as operators on a record |
| `Supervisor` | one watch: the task, its channel, the store, its consumer and the server |
| `CheckpointedDelivery` | what a watch promises: delivery of a log with a checkpoint |
| `SupervisorDelivery` | the refinement mapping from `Supervisor` to it, and the inductive invariant behind it |
| `WatchTransport` | the connections shared by the watches of a client |
| `TriggerDispatch` | the triggers of a notification, with their attempts and what they leave behind |
| `MonotoneStore` | what `StateStore::put` promises |
| `JsonFileStore` | the file store, and the refinement mapping to `MonotoneStore` |
| `ManyWatches` | watches as their readers see them, and the merged stream |
| `CWatch`, `PyIterators`, `CliListen` | the three interfaces that read it; each EXTENDS `ManyWatches` |
| `AuthRefresh` | requests that share a credential: `send_with_refresh` and `RefreshCoordinator` |
| `CredentialFile` | the provider that reads its credential again, and the chain around it |
| `SseParser` | the parser as a state machine over chunks, and the frames of a whole stream as its reference |
| `Settings`, `ClientBuilder` | where settings come from; the builders, while files are rewritten |
| `Requests`, `TriggerSettings` | a request, a range, a resume key and a trigger as each interface reads them |
| `Calls`, `Results` | a call, its answer, and what each interface makes of it |
| `CommandLine` | parameters, refusals, hints and exit codes of the command line |
| `CommandText`, `Templates` | the shell tracker with its quoting; the templates of commands, URLs and bodies |
| `MC*` | the instances for TLC |
| `FoldFacts` | what a left fold, and a function that recurses over something with a size, compute |
| `*Proofs` | theorems |

### Supervisor

`pc` is the await, or the decision between two awaits, the task has reached; the
table at the head of the module lists the values. An action is one completed
await and everything the code does up to the next: for instance `Accept` is the
decoding of a notification, the gap guard and the choice whether the previous
one has to be put in the store, `PutSucceeds` is the completed `store.put` with
the assignment of `commit_cursor`. The selects of the code are `biased` with the
cancellation first, so every other completion has the guard `~cancelled`; where
the code does not look at the cancellation (a put, the next frame of a chunk, an
attempt of a trigger) there is no such guard.

`st` and `policy` are the reducer and `last_reconnect_policy`; `commitCursor`,
`pending`, `resolvedEnd`, `refreshed`, `retryAfter` are the locals of the same
names. `shortSession` is `short_sessions > 0`. `out` is every item the process
has put on the channel and `taken` how many the consumer has pulled: the channel
holds the difference. The server is the part of the module that is not the
client's: a log of events up to `head`, and for the open connection the last
event sent (`pos`) and the last it will carry (`limit`). An honest server sends
the events that pass the filter in order (`Notification`); with `MaxAnomalies`
above 0 it may also send any other one (`Anomaly`). `Failure` collects what goes
wrong on its own: statuses, timeouts, lost connections, a store or a trigger
that fails, malformed frames. `Cancel` is a dropped or closed stream or the last
clone of the client; `Restart` is a crash at any step, or the next run.

Left out: lengths of delays (a backoff is zero or longer, because only that
decides whether the reducer is told), retry counters, payloads, heartbeats and
unknown frames (they change nothing), error kinds (an error item is an error
item), arms the constructors make unreachable (a replay without a start, a
refresh without a provider).

Variables under "History" in the module are read by properties only.

### WatchTransport

`slots` is the vector behind the lock, `stage`/`index`/`http` the lease of each
watch. `acquire` is two critical sections with an unlocked build of a client in
between (`Acquire`, `StartBuild`, then `UseRoomFound` or `AddClient`); `Release`
is `Lease::drop` with its release of idle clients at the end of the vector.

### TriggerDispatch

One call of `dispatch_triggers` at a time, over successive notifications. `pc`
is the await the dispatcher has reached; `IsTerminalError` and `IsExhausted`
decide about a retry. The six kinds differ in what one attempt goes through: a
command runs (`child`), is sent a signal at its timeout and then waited for
(`reap`), and its output is collected by two tasks that a process left behind
can keep waiting (`drains`), for at most five seconds. The signal may fail with
the child still running (`TimesOut`), which is logged, and then nothing bounds
the wait; the wait may fail too (`ReapFails`), which is logged and ends the
attempt as a timeout; a request waits for its response and then for the
tail of it; a log line is handed to the file and flushed. An attempt runs to its
end whatever is cancelled, and the cancellation is looked at between triggers
and in the backoff. What is rendered and printed is left out. `Supervisor` uses the
values of `outcome` as the three ways a dispatch ends.

### JsonFileStore

A task is one call of `put` or `delete` on one handle; `call[t].stage` is how
far `write_through` has come. `mutex` is `disk_write_mutex`, `flock` the lock of
the sidecar file, `memory` the snapshot a handle answers `get` from, `disk` the
file. `answered` is the highest a handle has answered since it was opened or
deleted the key itself, and `onlyPuts` whether no delete was asked for and the
file never removed; the properties read them, no action does. The read of the
file and the merge are one step (the lock is held and
nothing is awaited); the write is another, because a crash may come between
them. `DropFuture` is the caller dropping the future: the mutex is released, the
blocking task goes on. `WriteFails` leaves the file old or new, since the
directory is synced after the rename. The documented precondition that nobody
removes the lock file is assumed; the state file itself may be removed
(`RemoveFile`).

### AuthRefresh

A call of `send_with_refresh` moves through the stages listed at the head of the
module; `lock` and `generation` are the coordinator's, `cred` is what the
provider answers with. The provider publishes its credential before `refresh`
returns and the epoch advances only after, and other threads may read both in
between (`Publish`, `FinishRefresh`). The order of the two reads of the first
attempt is `HeaderThenEpoch`. A call may be dropped at every await (`DropCall`),
which frees the lock; a drop in the middle of a refresh leaves the old credential
or the new one, as the contract of the provider demands. `WatchRefresh` is a
watch, which refreshes without the coordinator. Requests, bodies and responses
other than "401" are one thing. The epoch does not identify a credential: a call
that reads its header after `Publish` and its epoch before `FinishRefresh` skips
its refresh and sends the rejected credential again; the code says so ("a request
epoch, not an exact credential version"), and the next call repairs it.

### CredentialFile

`cached` is the credential in use, `text` what the file holds, and a refresh
reads the file (`Read`), parses what it read and swaps it in under the write
lock (`Swap`). Requests refresh one at a time, so they are one refresher, and
each watch is one more. `Begin` is `Chain::refresh`, which asks the members for
a header in their order and refreshes the one that has one; a `mute` member is a
custom provider that has none.

### ManyWatches, CWatch, PyIterators, CliListen

`ManyWatches` reduces a supervisor to what its reader can tell: it sends items,
or an error as its last one, flushes its checkpoint, and is done; the inside is
`Supervisor`. On top it has `MultiNotificationStream`: `turn` is its `next`,
`place` says whether a watch still stands in `entries` or has moved to
`stopped`, and `close` cancels all and waits for each. A reader is one of four:

* a Rust program (`MultiNext`): reads, continues or stops after an error, closes,
  or drops the stream;
* `CWatch`: the task that calls back, `StopSignal` with its flag and its stored
  permit, and the join handle that several threads wait for (`slot`, `joinLock`);
* `PyIterators`: the `Option` behind an asynchronous mutex (`open`, `mutex`,
  `queue`), polls with an interval and a look at the signals, `aclose` with its
  flag and its waiters, futures dropped at any await, and the task that a
  dropped close leaves behind. The future of an asynchronous `__anext__` ends
  when it has taken an item off the stream, and the event loop hands the item to
  the awaiting task in a step of its own (`delivering`); a task cancelled in
  between never gets it, and nobody is told (`DeliveryLost`);
* `CliListen`: the handler of Ctrl+C, one task per listener, the main task, and
  a second Ctrl+C within and after the window.

### SseParser

`feed` takes a chunk, `LineSplitter` finds line ends in the buffer from where it
stopped scanning, `Dispatcher` collects the fields of an event. The stream is a
sequence of symbols: CR, LF, the three bytes of the mark, the names of fields, a
colon, a space, a digit, NUL and one ordinary byte. An action is one call of
`feed` with a chunk, or one of its pieces, one `next_frame`, or `end`.
`Reference` computes the frames of the whole stream from where its line ends
stand, without a buffer.

### The inputs of definitions without state

`Settings`, `Requests`, `TriggerSettings`, `CommandLine`, `Calls`, `CommandText`
and `Templates` translate pure code. Their properties compare two translations
of code that has to agree, or one with a reference: how a shell reads its words
(`ReadBack`), what a URL's parts are, what a whole text would have been.
`ClientBuilder` has a state, since its constructors read files that others
rewrite in between: `lookup` is a constructor between two reads, `handle` the
builder, `report` what its caller was told.

`CommandLine` has two shapes of a command. Most read their input, make one
request and fail with the chain of what was said about the error. `listen`
(`Drive`) builds the request of each listener when the tasks of those before it
are already running: a listener with both cursors ends the command with exit
code 2 although the server may have been asked (`asked`), and a listener that
fails is reported as it is joined, with its hint, while the command itself only
says that some listener failed.

Texts are sequences of symbols that the code tells apart: quotes, braces, a
dollar, a blank, a newline, and `x` for everything else. A resume key is the
sequence of fields its digest is made of; the digest is assumed injective.

## 3. The runs

Every run ends within five minutes on two workers.

| Run | Instance | Question |
|---|---|---|
| `watch_store` | 3 events, live start, store, triggers, provider, startup budget, any number of failures, one cancellation per process, 2 processes | the safety of a watch with everything switched on, and that it implements `CheckpointedDelivery` |
| `watch_anomalies` | 3 events, start after 1, store, 2 dishonest notifications, 2 processes | what backward, repeated and skipped notifications may not do to cursors and checkpoints |
| `replay_range` | 3 events of which 2 match, start and end given as dates, 3 failures, fair | a replay over several connections keeps the end resolved first, is complete when it ends cleanly, and ends |
| `watch_liveness` | 3 events of which 2 match, 2 failures, fair | a cancelled watch ends; a watch that is not delivers |
| `watch_parts` | 5 watches, 4 clients, cap of 2; lists of one and two triggers of every kind, up to 2 retries, 2 notifications, fair | leases and caps; outcomes, children, cancellation and return of a dispatch |
| `state_file` | 2 handles, one with 2 calls at a time, 2 keys, 3 calls, puts and deletes, a file that may be removed, fair | no lost or backward checkpoint until a delete or a removal; what a handle answers never goes back; what deletes may drop; every call returns |
| `consumers` | 2 watches of one item each and an error, 2 waiting threads, 2 calls of an iterator, 1 signal to Python, 2 Ctrl+C, fair | what the readers of watches rely on |
| `client_parts` | 3 calls with 3 credentials; a file rewritten twice and 2 refreshers behind 6 chains; every short stream of marks, line ends and text, and of three lines with any field; files rewritten once during 2 calls of a builder; the inputs of definitions without state, among them two listeners of one command | refreshes, credentials, chunks, builders, and the definitions without state |
| `durable_unpulled`, `live_reconnect`, `delete_undone`, `refresh_overtaken` | smallest that shows it | a statement of the documentation the code does not meet |

`watch_parts` and `client_parts` check several components in one run, *one at a
time*: a variable chosen at the start says which one moves, the others stand
still, and a property of one is guarded by that choice. The components share no
state in the code either (a connection knows nothing of triggers, nor a parser
of credentials), so that their product would hold nothing more. `consumers`
chooses one of the four readers in the same way, over the same watches. Inputs
of definitions without state are initial states without a step.

Why the bounds are enough. A commit involves the event before it and a resume
the one after it, so three events contain every relation the cursors can be in;
`MaxSeq` is also the largest sequence, so the overflow is met. Two processes
make one crash; the second starts from whatever the first left. The number of
failures is unbounded in the safety runs and bounded where the property needs
failures to stop. A cap of two with five watches makes up to two connections
full and two builds race. A list of two triggers has one before and one after;
two retries have a first, a middle and a last attempt, and the second
notification meets what the first left open. With two handles, one of which has
two calls at a time, two calls wait for one mutex while a third comes from
another process; three calls are all there are, so at most one handle has two of
them under way, and giving both handles two would only repeat the same states.
The third call also starts from what two others have left in memory. Two watches
have one that fails and one that waits; one item per watch fills the channel,
whose single slot is what a store enforces. Three calls hold the lock, wait for
it and read their header at the same time; three credentials let each of them,
or a watch in between, refresh. Two refreshers and two rewrites make one hold a
text the other has overtaken. `MaxLine = 4` and `MaxEvent = 3` are below the
longest streams, so both limits are met and passed, and `PieceLen = 2` cuts
between any two symbols; `MaxDigits = 1` makes a number overflow. One rewrite
per file falls between any two reads of a call. `MaxSequence = 3` makes the
successor of a position overflow. `MaxCalls`, `MaxFaults`, `MaxAnomalies`,
`MaxRuns`, `MaxCred`, `MaxRewrites`, `MaxWrites`, `MaxItems`, `MaxNotes`,
`MaxInterrupts` and `MaxSignals` occur in guards only. No run uses symmetry.
Deadlock is not checked where the system stops by itself: a watch that has
returned, calls used up or ended, an input without a step.

Fairness. `WF(Task)`: the runtime polls a task that can make a step; awaits in
`Task` also stand for a store, a trigger and a provider that answer, which their
timeouts or their contracts bound. `CancelTerminates` needs no more than this.
`PeersAreFair` adds a server that sends what it has and a consumer that pulls;
it is a hypothesis of `EventuallyDelivered` and part of the specification of
`replay_range`. Failures, cancellation, publishing and restarts are never fair.
In the store, `WF(Proceed(t))` is the runtime and the blocking pool; the number
of calls is bounded, so a call is not overtaken at the lock for ever, which
`flock` alone would not promise. In `AuthRefresh`, `WF(Proceed(r))` is the
runtime with a server and a provider that answer; a provider that never returns
from `refresh` keeps the lock, and nothing in the code bounds that. In
`TriggerDispatch`, the dispatcher moves and a killed child dies; a command, a
process it leaves behind and a server may run for ever. `DispatchReturns`
therefore says: a dispatch whose commands all have a timeout returns, unless a
command outlives its timeout because it could not be killed
(`OutlivesItsTimeout`): the code then waits for it without a bound. In
`consumers`, supervisors see a cancellation and finish, the task of the C
interface runs and its callbacks return, a call into Python goes on, and the
tasks of the command line run; servers, signals and callers owe nothing.

### Where the documentation and the code disagree

* `durable_unpulled`: with a store the channel has one slot so that item N is
  not on disk while it waits in the channel (`client/watch_spawn.rs`). It may
  be: N is put when N+1 arrives, and the slot may still hold N. The claim made
  to callers, "pulling N+1 implies N is durable", does hold.
  `docs/src/concepts/resume-and-state.md` describes the behaviour as it is.
* `live_reconnect`: a live watch whose first connection ends before its first
  notification has no cursor, so it reconnects at a later head and skips what
  was published in between; the overview says that reconnects do not lose the
  place.
* `delete_undone`: a handle that has not seen a sibling's delete writes the key
  back with its next write of any key, since the merge keeps the keys of the
  candidate.
* `refresh_overtaken`: `auth/config_file.rs` says that a rewrite "is reflected on
  the next `Authorization` header lookup" after a refresh. A refresh that read the
  file before the rewrite may swap its text in after the refresh that read the new
  one, because a watch refreshes beside the coordinator; the old credential is
  then back until the next 401. `RefreshIsSeen`, which holds, speaks of refreshes
  that began while no other one held a text (`alone`); `RewriteIsReflected` is
  the same of every refresh.

Others were met and are not runs:

* The builder's documentation lets "the next run" resume at a first notification
  whose consumer died; nothing is stored before the second one, so that run
  starts at the live head.
* The store's documentation says a failed call leaves the file unchanged; a
  failed sync of the directory comes after the rename (`WriteFails`).
* The shell tracker (`watch/trigger/template/shell/mod.rs`), in the arm that ends
  an escape, forgets the token it interrupted: when a character with a backslash
  before it directly follows `$`, `(`, `<` or `>`, the tracker and a shell may
  part ways, and what the module's documentation says of a placed value is not
  established for such a text. `Follows`, which compares the context the tracker
  arrives at with the one a shell is in, excludes these texts by name
  (`EscapeAfterToken`); `ReadBack` and `QuotedValuesReadBack` speak of a shell
  that is in the context the tracker has arrived at.
* An item that the future of `__anext__` has taken off the stream is lost when the
  asyncio task is cancelled before the event loop delivers it (`DeliveryLost`).
  `HandsOver` names this loss, beside the item a `KeyboardInterrupt` costs.
* A process that is sent no SIGKILL, because the kill is refused, keeps a dispatch
  waiting for ever although its command has a timeout (`OutlivesItsTimeout`).
* `aviso_client_builder_describe` "reports the settings a client built from this
  builder would use". For a builder that was given its address it also resolves
  the config file, which the built client does not use, and for one made from
  files it reads them as they are now. `DescribeFollows` compares the address,
  the credential and the refusal while the files stay as they are.
* A panic inside an asynchronous call of the C interface
  (`aviso-ffi/src/async_ops.rs`) is caught by the runtime, so that
  `on_complete`, which "is called exactly once", never does; watches guard their
  task. No step of the modelled calls panics.
* The command line refuses an `AVISO_BASE_URL` that is not UTF-8 although a flag
  overrides it; the library does not read the variable then (`CliAgrees`).

## 4. The proofs

TLAPS checks every theorem for all values of the constants that satisfy the
named assumptions (`ConfigAssumption`, `RequestAssumption`,
`TransportAssumption`, `RefreshAssumption`, `StoreAssumption`,
`TriggerListsAssumption`, `ManyWatchesAssumption`, `CallsAssumption`,
`VersionsAssumption`, `StreamsAssumption`;
`DeliveryConstants` as a hypothesis): any log, filter, start, end, buffer, list
of triggers, number of watches, handles, calls, failures and runs.

* `SupervisorProofs`, first part: `TypeCorrect`. The invariant is `TypeInv`,
  `TypeOK` with what the types need about the reducer and the channel.
* Second part: `CheckpointOverNoHole` and `SupervisorImplementsDelivery`, under
  the hypothesis `Honest` (no anomalies: a server that skips an event makes a
  hole no client can see with a filter). `NoHole` alone is not inductive.
  `PlaceInv` adds that *all* cursors cover everything below them, not only the
  stored one, since a later put stores them; that a connection stands exactly at
  the last delivered event; and that a notification in the task's hands is the
  next one in the log. Actions that touch none of this are handled together
  (`QuietStep`), the others one lemma each, and the same invariant then maps
  every step to a step of `CheckpointedDelivery` or a stutter.
* Third part, whatever the server sends:
  `PendingAhead`, `CancellationSeenOnce`,
  `ConfirmedBeforeData`, `StartupErrorAlwaysFits`; `ReconnectAfterHighest` from
  `ResumeInv` (both cursors are sequences that were delivered, or the start, and
  the pending one is the highest); `JumpsAreDetected` from `GuardInv` (while
  connected, the guard expects no more than the successor of the last
  notification, counting the one in the task's hands); `SessionsAreOrderly` from
  `SessionInv`, which says what status and phase the reducer has at each `pc`.
  The error of the startup budget fits because nothing was delivered before the
  first confirmation and no error was sent before the task left the loop.
* Fourth part, with `Honest`: `ResumingIsSafe`; and for a watch or a replay with
  a start (`From # Live`) `PlaceIsKept` and `ReplayStaysInRange`. A live watch
  without a start keeps no place before its first notification, it begins again
  at the head, so the hypothesis is needed (`live_reconnect` shows it).
  `ReplayInv` joins `PlaceInv` with: a request is made only while the end lies
  ahead (`EndAhead`), the end resolved first is the target and bounds what each
  later connection may carry (`ConfirmInv`), everything between the first
  confirmed position and the place has been delivered, and a reducer that calls
  the replay complete is right (`RangeInv`).
* Of the abstract specification itself: `CheckpointSafe`, from
  `DeliveryInvariant`. TLC meets the abstract specification as the property
  `ImplementsDelivery`; that it keeps its own promise is proved only.
* `WatchPartsProofs`, first part: `LeasesStayValid`, `CapAlwaysHolds`. The
  invariant is that each slot counts exactly its leases and that a lease's index
  lies within the vector; a release only drops slots without leases.
* `ClientProofs`, first part: `RejectedCallsShareARefresh`, `SkipIsJustified`
  and `LockIsReleased`. `RefreshInv` adds that a call's header is no newer than its
  epoch and its epoch no newer than the coordinator's, that the holder of the
  lock has the current epoch, and that a call which refreshed has left its epoch
  behind; two calls that refreshed can then not share one.
* Second part: `RefreshTakesEffect`, for any chain, set of refreshers and number
  of rewrites. That the header in use is new enough is not inductive: a slower
  refresh may still swap in what it read. `HeldTextsAreNew` says of every text
  a refresh holds that it is as new as what each refresh that began alone asks
  for; the hypothesis of the property, that the refresh began while nobody held
  a text, is what makes it true when it begins.
* Third part: `ClientsAreAsSaid`, for any contents of the files, environment,
  addresses, credentials and numbers of rewrites and calls. `BuilderInv` says of
  a builder with no error that it remembers which credential it found
  (`OriginInv`); that its address, when it came from a config file that is
  pinned, is of the pinned version, which a later search then reads as well; and
  that as long as nothing was rewritten it equals what a resolution of the
  remembered inputs makes (`FollowsInv`), without which `describe` could not be
  shown to agree after a setter. `VersionsAssumption` only says that a file is in
  one of the four states and that its address is labelled with its version.
* Fourth part, for inputs of any size: `CallsEndAlike` (a call that blocks, one
  with `on_complete` and Python tell the same of one answer);
  `ResultsStayInPlace` (the list a caller gets back is a function of the
  answers, whatever order the requests end in: the order is cut at each request,
  and what is told of a list is the union over its prefixes); `ExitCodesTell`,
  which folds over the chain of an error's causes and says by induction on its
  length which cause decides; and `CallersAreTold`, which states the invariant
  `ResultsTell` of the run from those two. Exit code 2 does not mean that nobody
  was asked: for `listen` it means that only listeners before one with both
  cursors were, and `ExitCodesTell` says so, for any number of listeners.
  `SettingsMeanTheSame` says of any flags, environment and files that the
  command line and a library client given the same settings build the same
  client or both none: the address, credential, certificate, timeout and the
  check of certificates each come from the first of the sources that gives one,
  and the two lists of sources are compared place by place. Its hypotheses leave
  out a certificate named by a flag and variables that say where the files are,
  neither of which the library has; where a flag overrides a variable that is
  not unicode it says that the command line refuses, the disagreement of the
  findings above.
* `SseParserProofs`: `ChunksDoNotShow`, for any set of streams, any limits and any
  cut of a stream into chunks, that is the invariant `ChunkingInvisible` of the
  run. It is not inductive, since it only speaks of what was handed out.
  `ParserInv` adds what the parser holds (`Held`: the buffer and the data stay
  within their limits, and there is no line end before the place where the scan
  goes on, but for a CR that waits for its LF), what it still has to do (`Open`:
  there is a boundary in the fed text, its mark stripped, such that the buffer
  and the chunk are all that follows it, the frames are those of the lines
  before it, and the fields gathered are those of the lines since the last blank
  one), and what is left once it closed (`Done`: the frames and the overflow of
  `Reference`). A mark of which one or two bytes have come is neither stripped
  nor settled (`Settles`). `StreamsAssumption` says that a stream is a sequence,
  that the limits are naturals and that a piece is not empty.
* `RequestAndCommandProofs`, on requests:
  * `KeysTellWatchesApart`: watches share a stored position exactly when they
    watch the same event of the same server with the same filter and, where set,
    the same fingerprint. Every field of a key begins with its length, so a key
    can be cut in only one way. Hypotheses: lengths are told apart as they are
    written (`LengthsTold`), and the names of a filter are distinct.
  * `ManyListenersAreOne`, for any arguments of a Python call and any choice of
    what the listeners share; `ReplayIsAListen`, for any well-formed listeners in
    any number of files.
  * `RangesMeanTheSame`: a range is the same on the wire, or refused, from C in
    whatever order its calls are made, Python, the library and the command line.
    Hypotheses: `MaxSequence` is a natural, the event is a text, and the two
    positions are texts that can be read.
* On commands: `QuotedValuesReadBack`, for any text before the placeholder and
  any values. `Settled` is the invariant of the tracker: in single quotes and in
  a comment no token and no escape is half read. From it a shell in the same
  context reads the quoted value as itself, whichever of its characters are
  quotes, backslashes or newlines, and both end in that context. It says nothing
  of how a shell got there (see the tracker in section 3). `TailsAreKept`, for
  any pieces an output arrives in; `ChildrenAreTold`, for any template,
  variables and names.
* On templates: `UrlsKeepTheirShape` and `BodiesAreSent`, for any text and any
  value. `Compile` and the walk over its segments are recursive functions; that
  such a function is what its equation says follows from the size of its
  argument, and each step of the URL tracker is compared with the one it makes
  for the value `x`. Hypotheses: the two digits of a percent-encoded character
  are none of the characters that delimit a URL (`CodesDelimitNothing`); the
  symbols of the model are characters; and the word "default", by which the
  model says that a webhook has no body of its own, is no event.
  `RefusalsAreShownSafely`, for any body and header of a refusal.
* `FoldFacts`, the lemmas under these proofs: a left fold has one value for every
  prefix, each made of the one before (`FoldTrace`), and a function that recurses
  over something with a size is what its equation says. The library's theorems of
  induction cannot be applied here; a set of naturals that holds 0 and is closed
  under the successor holds all of them (`NaturalSets`), and that is enough for
  a property of each prefix. The chain of causes, the bound on the data of an
  event, the sorting of results, the ring of an output and the templates rest on it.
* `ConsumerProofs`, for any number of watches, items, waiting threads, calls and
  signals: `TurnsAreFair`, `EndIsHeardOnce`, `OverIsFlushed`, `IteratorsListen`
  and `ItemsAreHandedOver`. `Inv` has a part for the watches, which all readers
  share (one that is open is being read, one that is closed is done, unless its
  stream was dropped), and a part per reader. `TurnInv`: an item that waits has
  been passed by at most as many as are left before its watch's turn, in the
  order of the merged stream. `CInv`: a watch counted as failed has failed and
  is read no more, so that all are counted only when all failed; the reason kept
  while the task closes is judged by what it will report; a waiter that finds
  the slot empty finds the task ended. `PyInv`: who is at the stages between
  taking and releasing the mutex holds it (hence `CallsAssumption`, that nobody
  is not a call), and a stream that was taken out is closed, being closed by its
  taker, or was dropped. `HandInv` counts what was lost with the signal that is
  still pending, since each signal costs at most one item. An item whose task
  was cancelled before it was delivered stays with its call (`held`), so that
  this loss is one item of that call and no other.
* `JsonFileStoreProofs`: `LocksHaveTheirHolders`; `GetNeverGoesBack` and
  `DeletesDropOnlySeen` from `SnapshotsCovered`, which says of every call at
  every stage that what it is about to install covers what its handle knows, and
  what it is about to write covers the file, but for the key it deletes. The
  second half holds although the file is shared, because the file changes only
  under the lock a loaded call holds; the first although a dropped call goes on,
  because a dropped call installs nothing. `GetNeverGoesBack` is said of all a
  handle has answered (`answered`), so that a lower put accepted after the file
  was removed would break it, and not only of one step: `AnsweredInv` says of a
  call that is about to install that its map covers what was answered, and the
  restore loop and the merge see to it. `ConfirmedPutsAreKept` and
  `FileIsMonotoneStore` speak of the time until a delete is asked for or the file
  is removed (`onlyPuts`), without which both are false: a delete takes a finished
  put away by design, and what deletes may take is the subject of the other two
  theorems.
* `WatchPartsProofs`, second part: `OkIsEarned` from `DispatchInv` (the attempts
  that have ended are those the loop has counted, and each trigger passed has
  succeeded, or was optional and used its attempts), `ChildrenAreReaped` from
  `ChildInv`, and the action property `CancelledIsTheEnd`, for every list of
  triggers and any number of retries.

Only model-checked: the liveness properties (fairness and ENABLED are out of the
prover's reach: `EventuallyDelivered`, `CancelTerminates`, `EveryCallReturns`,
`DispatchReturns`, `StopIsHeard`, `EachCallEnds` and the end of a replay); of
`InterfacesAgree`, that a trigger is the same in a file, in C and in Python
(`SameTrigger`); and of `ValuesStayValues`, that the tracker follows a shell into
its context on the given texts (`Follows`) and that parameters in quotes are read
back (`ParametersReadBack`). The other families of inputs of both properties are
proved for inputs of any size, by the theorems above.

## 5. What is not modelled, and the plan

Not modelled: the memory store (one lock around a map); the count of live
watches per resume key, which drives a warning; the lengths of delays
(`compute_backoff`, `parse_retry_after`); the decoding of a CloudEvent beyond
"a notification or a malformed event"; TLS, timeouts of requests and the bytes
of their bodies; Teams cards, CloudEvent bodies and log lines as texts; the
output of the command line (tables, config dump, banners, completions, tracing)
and the accessors of C outcomes and Python values, which move no state and
decide nothing. What remains of each component is said in PROJECT.json.

What is left to prove: `SameTrigger`, whose setters come in any order;
`ParametersReadBack`; for which texts the tracker is where a shell is, which
needs a grammar of the shell beside the tracker; and a replay that is
complete for a server that filters, which needs the fairness of the supervisor.
