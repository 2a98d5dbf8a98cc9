----------------------------- MODULE Supervisor -----------------------------
(***************************************************************************)
(* One watch of aviso-client: the supervisor task (watch/supervisor), the  *)
(* bounded channel to its consumer, the checkpoint in the state store and  *)
(* the server it is connected to.                                          *)
(*                                                                         *)
(* `pc` names the await, or the decision between two awaits, the task is   *)
(* at.  An action is one await with everything up to the next: the guard   *)
(* `~cancelled` on a completed await is the `biased` select, whose         *)
(* cancellation arms are polled first.                                     *)
(*                                                                         *)
(*   resolve    store.get racing the cancellation                          *)
(*   loop       head of the reconnect loop                                 *)
(*   backoff    sleeping before a reconnect                                *)
(*   refresh    AuthProvider::refresh                                      *)
(*   connect    authorization header, request and response head            *)
(*   opening    reading chunks until the opening control frame             *)
(*   read       waiting for the next chunk                                 *)
(*   frame      draining the frames of a chunk: no cancellation is looked  *)
(*              at before the next frame of the same chunk                 *)
(*   put        store.put of the previous notification                     *)
(*   precheck   the cancellation probe before the triggers                 *)
(*   trigger    the trigger pipeline                                       *)
(*   send       sending the notification on the channel                    *)
(*   failing    sending an error item, then leaving the loop               *)
(*   rejecting  sending an error item, then returning without a flush      *)
(*   expired    the startup budget sending its own error item              *)
(*   flush      exit_flush                                                 *)
(*   done       the task has returned                                      *)
(***************************************************************************)
EXTENDS Integers, Sequences, WatchReducer

CONSTANTS
  MaxSeq,        \* u64::MAX
  Matching,      \* sequences of the events that pass the request's filter
  Mode,          \* WatchRequest::mode
  From,          \* WatchRequest::from: Live, FromDate or a sequence
  Until,         \* WatchRequest::until: NoEnd, UntilDate or a sequence
  HasStore, HasAuth, HasTriggers, FlushOnExit, HasStartupBudget,
  BufferSize,    \* CHANNEL_CAPACITY
  DatePos,       \* the sequence a start date stands right after
  MaxFaults,     \* bound on failures, or Unlimited
  MaxAnomalies,  \* bound on notifications an honest server would not send
  MaxRuns        \* bound on the number of processes

None      == -1  \* Option::None of a sequence
Live      == -1  \* no start: the live head
FromDate  == -2
NoEnd     == -1
UntilDate == -2
Unlimited == -1

Seqs      == 0 .. MaxSeq
OptSeqs   == Seqs \cup {None}
Starts    == Seqs \cup {Live, FromDate}
ErrItem   == -2  \* an `Err` item on the channel
Items     == Seqs \cup {ErrItem}

(* A request with a filter gets the relaxed gap guard.                     *)
Relaxed == Matching # 1 .. MaxSeq

ASSUME ConfigAssumption ==
  /\ MaxSeq \in Nat \ {0}
  /\ Matching \subseteq 1 .. MaxSeq
  /\ Mode \in Modes
  /\ From \in Starts
  /\ Until \in Seqs \cup {NoEnd, UntilDate}
  /\ {HasStore, HasAuth, HasTriggers, FlushOnExit, HasStartupBudget} \subseteq BOOLEAN
  /\ BufferSize \in Nat \ {0}
  /\ DatePos \in Seqs
  /\ MaxFaults \in Nat \cup {Unlimited}
  /\ MaxAnomalies \in Nat
  /\ MaxRuns \in Nat \ {0}

(* What the request constructors and the checks of AvisoClient::watch let  *)
(* through: a replay has a start, only a replay has an end, an end comes   *)
(* after its start, and the start does not overflow.                       *)
ASSUME RequestAssumption ==
  /\ Mode = "replay_only" => From # Live
  /\ Until # NoEnd => Mode = "replay_only"
  /\ From >= 0 /\ Until >= 0 => Until > From
  /\ From < MaxSeq

-----------------------------------------------------------------------------
VARIABLES
  (* Locals of run_supervisor. *)
  pc,
  st,            \* WatchState
  policy,        \* last_reconnect_policy
  shortSession,  \* short_sessions > 0
  retryAfter,    \* retry_after_override, only whether it is zero
  refreshed,     \* refreshed_for_current_attempt
  initialFrom,   \* initial_cursor
  commitCursor, pending, resolvedEnd,
  ready,         \* the readiness watch channel
  (* Locals of one connection. *)
  expected,      \* GapGuard::expected
  item,          \* the notification being delivered
  (* Shared with the consumer. *)
  cancelled,     \* the stream or the client was dropped
  out,           \* every item this process put on the channel, in order
  taken,         \* how many of them the consumer has pulled
  (* Outlives the process. *)
  durable,       \* last_committed_sequence in the store
  (* The server and its end of the connection. *)
  head,          \* sequence of the newest event
  pos,           \* last event sent on, or skipped by, the connection
  limit,         \* last event the connection will carry
  (* Bounds. *)
  faults, anomalies, runs,
  (* History, read by the properties only. *)
  sentEver,      \* notifications any process put on the channel
  pulledEver,    \* notifications the consumer pulled from any process
  triggered,     \* notifications whose trigger pipeline has succeeded
  base,          \* the event right before the first one this watch is owed
  observed,      \* a select has returned on the cancellation
  refreshes,     \* refreshes since the last outcome other than 401
  since,         \* where the first confirmed connection of this process started
  target         \* where its backlog ended, for a replay

reducer == <<st, policy>>
retry   == <<shortSession, retryAfter, refreshed>>
cursors == <<initialFrom, commitCursor, pending, resolvedEnd>>
link    == <<expected, item, pos, limit>>
channel == <<out, taken>>
bounds  == <<faults, anomalies, runs>>
history == <<sentEver, pulledEver, triggered, base, observed, refreshes, since, target>>

(* What no step of the connection phase changes but the one that says so.  *)
steady  == <<cursors, cancelled, channel, durable, head>>
past    == <<sentEver, pulledEver, triggered, base, observed>>

vars == <<pc, reducer, retry, cursors, ready, link, cancelled, channel,
          durable, head, bounds, history>>

-----------------------------------------------------------------------------
(* Helpers.                                                                *)

(* A store forces the channel to one slot.                                 *)
Capacity == IF HasStore THEN 1 ELSE BufferSize

HasRoom == Len(out) - taken < Capacity

(* u64::checked_add(1).  Mutation: an unchecked increment.                 *)
SuccUnchecked(n) == n + 1
Succ(n) == IF n < MaxSeq THEN n + 1 ELSE None

(* last_delivered: where a reconnect resumes.                              *)
LastDelivered == IF pending # None THEN pending ELSE commitCursor

(* The start and the end the next connection asks for.  Mutations: resume  *)
(* from the committed cursor; from one too far; resolve the end each time. *)
WireFromCommitted == IF commitCursor # None THEN commitCursor ELSE initialFrom
WireFromNext      == IF LastDelivered # None THEN LastDelivered + 1 ELSE initialFrom
WireUntilAsked    == Until
WireFrom  == IF LastDelivered # None THEN LastDelivered ELSE initialFrom
WireUntil == IF resolvedEnd # None THEN resolvedEnd ELSE Until

(* replay_end::reached.  Mutation: off by one.                             *)
EndPassed ==
  WireUntil >= 0 /\ LastDelivered # None /\ LastDelivered > WireUntil
EndReached ==
  WireUntil >= 0 /\ LastDelivered # None /\ LastDelivered >= WireUntil

(* GapGuard: the sequence expected first, what counts as a jump, and the   *)
(* sequence expected after an accepted one; a backward one changes nothing.*)
(* Mutation: a reconnect forgets what to expect.                           *)
FirstExpectedForgotten(from) == None
FirstExpected(from) == IF from >= 0 THEN Succ(from) ELSE None
IsJump(s)           == ~Relaxed /\ expected # None /\ s > expected
NextExpected(s)     == IF expected # None /\ s < expected THEN expected ELSE Succ(s)

(* A sent notification becomes pending only above both checkpoints.        *)
(* Mutations: the last one received, or not compared with the committed.   *)
NextPendingLast(s)    == s
NextPendingHighest(s) == IF pending = None \/ s > pending THEN s ELSE pending
NextPending(s) ==
  IF (commitCursor = None \/ s > commitCursor) /\ (pending = None \/ s > pending)
  THEN s ELSE pending

(* StateStore::put is strictly monotonic.                                  *)
StoredAfterPut(n) == IF n > durable THEN n ELSE durable

(* Feed an event to the reducer and remember its reconnect policy.         *)
Feed(e) == st' = Transition(st, e) /\ policy' = ApplyOutcome(policy, st, e)

(* One more failure of the server, the network, the store or a trigger.    *)
Fault ==
  /\ MaxFaults = Unlimited \/ faults < MaxFaults
  /\ faults' = IF MaxFaults = Unlimited THEN faults ELSE faults + 1
  /\ UNCHANGED <<anomalies, runs>>

(* Where the loop goes once no backoff is left to sleep.                   *)
(* Mutation: the refresh that is due is skipped.                           *)
AttemptPcNoRefresh(s) == "connect"
AttemptPc(s) == IF s.status = "refreshing" THEN "refresh" ELSE "connect"

-----------------------------------------------------------------------------
(* Start of a process.                                                     *)

(* run_supervisor up to the loop: the resolved cursor becomes the reducer's*)
(* start and, when it is a sequence, the committed cursor.                 *)
Begin(cursor) ==
  /\ initialFrom' = cursor
  /\ commitCursor' = IF cursor >= 0 THEN cursor ELSE None
  /\ st' = InitialState(Mode, cursor # Live)
  /\ pc' = "loop"
  /\ UNCHANGED <<policy, retry, pending, resolvedEnd, ready, link, cancelled,
                 channel, durable, head, history>>

(* initial_cursor::resolve: an explicit start wins, else the checkpoint    *)
(* (None and Live are the same number), else the live head.                *)
Resolve ==
  /\ pc = "resolve"
  /\ From # Live \/ ~HasStore \/ ~cancelled
  /\ Begin(IF From # Live THEN From ELSE IF HasStore THEN durable ELSE Live)
  /\ UNCHANGED bounds

ResolveCancelled ==
  /\ pc = "resolve" /\ From = Live /\ HasStore /\ cancelled
  /\ observed' = TRUE
  /\ pc' = "done"
  /\ UNCHANGED <<reducer, retry, cursors, ready, link, cancelled, channel, durable,
                 head, bounds, sentEver, pulledEver, triggered, base, refreshes,
                 since, target>>

ResolveFails ==
  /\ pc = "resolve" /\ From = Live /\ HasStore /\ ~cancelled
  /\ Fault
  /\ pc' = "rejecting"
  /\ UNCHANGED <<reducer, retry, cursors, ready, link, cancelled, channel, durable,
                 head, history>>

-----------------------------------------------------------------------------
(* The reconnect loop.                                                     *)

(* A terminal reducer or a finished replay leaves the loop.                *)
LoopEnds ==
  /\ pc = "loop"
  /\ IsTerminal(st) \/ EndReached
  /\ pc' = "flush"
  /\ UNCHANGED <<reducer, retry, cursors, ready, link, cancelled, channel, durable,
                 head, bounds, history>>

(* The delay of the next backoff, only as far as zero differs from longer: *)
(* Retry-After overrides the policy, an Immediate policy after a short     *)
(* session becomes a jittered one, and full jitter may draw zero.          *)
Delays ==
  IF retryAfter # "none" THEN {retryAfter}
  ELSE CASE policy = "immediate" /\ ~shortSession -> {"zero"}
         [] policy = "short"                      -> {"positive"}
         [] OTHER                                 -> {"zero", "positive"}

Backoff ==
  /\ pc = "loop" /\ ~IsTerminal(st) /\ ~EndReached
  /\ policy # NoPolicy
  /\ \E delay \in Delays :
       IF delay = "zero"
       THEN pc' = AttemptPc(st) /\ UNCHANGED st
       ELSE pc' = "backoff" /\ st' = Transition(st, "backoff_started")
  /\ policy' = NoPolicy
  /\ retryAfter' = "none"
  /\ UNCHANGED <<shortSession, refreshed, cursors, ready, link, cancelled, channel,
                 durable, head, bounds, history>>

NoBackoff ==
  /\ pc = "loop" /\ ~IsTerminal(st) /\ ~EndReached
  /\ policy = NoPolicy
  /\ pc' = AttemptPc(st)
  /\ UNCHANGED <<reducer, retry, cursors, ready, link, cancelled, channel, durable,
                 head, bounds, history>>

BackoffElapsed ==
  /\ pc = "backoff" /\ ~cancelled
  /\ Feed("backoff_elapsed")
  /\ pc' = AttemptPc(st')
  /\ UNCHANGED <<retry, cursors, ready, link, cancelled, channel, durable, head,
                 bounds, history>>

(* Every await of the loop that the cancellation ends: no error item, then *)
(* the exit flush.  run_one_connection reports it as Cancelled.            *)
StopObserved ==
  /\ observed' = TRUE
  /\ pc' = "flush"
  /\ UNCHANGED <<retry, cursors, ready, link, cancelled, channel, durable, head,
                 bounds, sentEver, pulledEver, triggered, base, refreshes, since, target>>

BackoffCancelled == pc = "backoff" /\ cancelled /\ StopObserved /\ UNCHANGED reducer

RefreshSucceeds ==
  /\ pc = "refresh" /\ ~cancelled
  /\ Feed("auth_refreshed")
  /\ refreshed' = TRUE
  /\ refreshes' = IF refreshes < 2 THEN refreshes + 1 ELSE refreshes
  /\ pc' = "connect"
  /\ UNCHANGED <<shortSession, retryAfter, cursors, ready, link, cancelled, channel,
                 durable, head, bounds, sentEver, pulledEver, triggered, base,
                 observed, since, target>>

RefreshFails ==
  /\ pc = "refresh" /\ ~cancelled
  /\ Fault
  /\ Feed("auth_refused")
  /\ pc' = "failing"
  /\ UNCHANGED <<retry, cursors, ready, link, cancelled, channel, durable, head,
                 history>>

RefreshCancelled == pc = "refresh" /\ cancelled /\ StopObserved /\ UNCHANGED reducer

-----------------------------------------------------------------------------
(* run_one_connection up to the first frame, and how a connection ends.    *)

(* Building the wire request fails when the start cannot be advanced.      *)
CanAsk == WireFrom >= 0 => Succ(WireFrom) # None

RequestOverflows ==
  /\ pc = "connect" /\ ~CanAsk
  /\ pc' = "failing"
  /\ UNCHANGED <<reducer, retry, ready, link, steady, bounds, history>>

(* An await of the connection is about to be polled.                       *)
Connecting == pc = "connect" /\ CanAsk
Reading    == pc \in {"opening", "read"}

ConnectCancelled == Connecting /\ cancelled /\ StopObserved /\ UNCHANGED reducer

ReadCancelled == Reading /\ cancelled /\ StopObserved /\ Feed("stop")

(* A lost connection: back to the loop, with the policy of event `e`, and  *)
(* with a refresh allowed again.                                           *)
RetryAfterLoss(e, short) ==
  /\ Feed(e)
  /\ shortSession' \in short
  /\ refreshed' = FALSE
  /\ refreshes' = 0
  /\ pc' = "loop"
  /\ UNCHANGED <<ready, link, steady, past, since, target>>

(* A fatal outcome: the error goes to the consumer and the loop ends.      *)
FailWith(e) ==
  /\ Feed(e)
  /\ pc' = "failing"
  /\ UNCHANGED <<retry, ready, link, steady, history>>

(* The same, when the reducer is not told.                                 *)
Fail ==
  /\ pc' = "failing"
  /\ UNCHANGED <<reducer, retry, ready, link, steady, history>>

(* AuthProvider::authorization_header fails, the content type is not that  *)
(* of an event stream, or the first control frame is not the opening one.  *)
OpeningRefused ==
  /\ \/ Connecting
     \/ pc = "opening"
  /\ ~cancelled
  /\ Fault
  /\ Fail

(* The opening deadline: fatal until the watch has been confirmed once.    *)
OpeningExpired ==
  /\ Connecting \/ pc = "opening"
  /\ ~cancelled
  /\ Fault
  /\ IF ready THEN RetryAfterLoss("lost", {FALSE}) /\ UNCHANGED retryAfter
     ELSE Fail

TransportFails ==
  /\ Connecting \/ Reading
  /\ ~cancelled
  /\ Fault
  /\ RetryAfterLoss("lost", BOOLEAN)
  /\ UNCHANGED retryAfter

(* 401: refresh once, then give up; without a provider, give up.           *)
(* Mutation: the refresh is not remembered.                                *)
MayRefreshAgain == HasAuth
MayRefresh      == HasAuth /\ ~refreshed

Unauthorized ==
  /\ Connecting /\ ~cancelled
  /\ Fault
  /\ IF MayRefresh
     THEN /\ Feed("auth_rejected")
          /\ shortSession' \in BOOLEAN
          /\ pc' = "loop"
          /\ UNCHANGED <<retryAfter, refreshed, ready, link, steady, history>>
     ELSE FailWith(IF refreshed THEN "auth_refused" ELSE "fatal")

(* 429 and 503 with the Retry-After they carry, and the other 5xx.         *)
Unavailable ==
  /\ Connecting /\ ~cancelled
  /\ Fault
  /\ RetryAfterLoss("lost", BOOLEAN)
  /\ retryAfter' \in {"none", "zero", "positive"}

(* Any other status that is not 200.                                       *)
StatusRefused ==
  /\ Connecting /\ ~cancelled
  /\ Fault
  /\ FailWith("fatal")

(* A 200 event stream: the gap guard starts from what was asked for, and   *)
(* the server serves from there.  A live start begins at the head of that  *)
(* moment; a replay stops at the head of that moment or at the end asked   *)
(* for, which the server resolves again when it is a date.                 *)
ServedFrom(start) ==
  CASE start >= 0       -> start
    [] start = Live     -> head
    [] start = FromDate -> DatePos

ServedUntil ==
  CASE Mode = "watch"                             -> {MaxSeq}
    [] Mode = "replay_only" /\ WireUntil = NoEnd     -> {head}
    [] Mode = "replay_only" /\ WireUntil = UntilDate -> 0 .. head
    [] Mode = "replay_only" /\ WireUntil >= 0        ->
         {IF WireUntil < head THEN WireUntil ELSE head}

Opened ==
  /\ Connecting /\ ~cancelled
  /\ expected' = FirstExpected(WireFrom)
  /\ item' = None
  /\ pos' = ServedFrom(WireFrom)
  /\ limit' \in ServedUntil
  /\ base' = IF WireFrom = Live THEN head ELSE base
  /\ pc' = "opening"
  /\ UNCHANGED <<reducer, retry, ready, steady, bounds, sentEver, pulledEver,
                 triggered, observed, refreshes, since, target>>

(* The opening control frame: the watch is confirmed, and the first end    *)
(* the server resolves is kept for the later connections of this replay.   *)
OpeningConfirmed ==
  /\ pc = "opening" /\ ~cancelled
  /\ resolvedEnd' = IF resolvedEnd = None /\ Until # NoEnd THEN limit ELSE resolvedEnd
  /\ Feed("established")
  /\ ready' = TRUE
  /\ pc' = "frame"
  /\ since' = IF since = None THEN pos ELSE since
  /\ target' = IF target = None /\ Mode = "replay_only" THEN limit ELSE target
  /\ UNCHANGED <<retry, initialFrom, commitCursor, pending, link, cancelled, channel,
                 durable, head, bounds, past, refreshes>>

(* No chunk within the heartbeat budget, which is longer than a short      *)
(* session; the opening deadline comes first on an unconfirmed stream.     *)
HeartbeatStarved ==
  /\ pc = "read" /\ ~cancelled
  /\ Fault
  /\ RetryAfterLoss("starved", {FALSE})
  /\ UNCHANGED retryAfter

(* The body ends without a close frame, possibly right after the frames of *)
(* its last chunk.                                                         *)
UnexpectedEof ==
  /\ \/ Reading /\ ~cancelled
     \/ pc = "frame"
  /\ Fault
  /\ RetryAfterLoss("lost", BOOLEAN)
  /\ UNCHANGED retryAfter

(* A line or an event longer than the parser holds; it wins over a close   *)
(* frame of the same chunk.                                                *)
ParserOverflow ==
  /\ \/ Reading /\ ~cancelled
     \/ pc = "frame"
  /\ Fault
  /\ FailWith("fatal")

-----------------------------------------------------------------------------
(* drain_frames.                                                           *)

(* The next frame comes with the chunk being drained, or with a new one,   *)
(* which the cancellation is polled before.  Heartbeats, unknown events    *)
(* and a repeated connection_established change nothing and are left out.  *)
(* Mutation: data is looked at before the opening frame.                   *)
FrameArrivesEarly == pc \in {"opening", "frame"} \/ (pc = "read" /\ ~cancelled)
FrameArrives == pc = "frame" \/ (pc = "read" /\ ~cancelled)

(* The chunk has no further frame.                                         *)
ChunkDrained ==
  /\ pc = "frame"
  /\ pc' = "read"
  /\ UNCHANGED <<reducer, retry, ready, link, steady, bounds, history>>

(* What an honest server sends next: the next event in its log that passes *)
(* the filter, up to the end of this connection.                           *)
ServerNext(s) ==
  /\ s \in Matching
  /\ pos < s /\ s <= head /\ s <= limit
  /\ \A t \in Matching : pos < t => s <= t

BacklogServed == \A t \in Matching : pos < t => t > head \/ t > limit

(* Commit-on-next-send: the previous notification is put in the store (or, *)
(* without a store, only committed) before the triggers of this one run.   *)
(* Mutations: committed in memory before the put; the current notification *)
(* is put instead of the previous one.                                     *)
CommittedBeforePut == IF pending # None THEN pending ELSE commitCursor
CommittedOnAccept  == IF pending # None /\ ~HasStore THEN pending ELSE commitCursor

CurrentToStore == item
ToStore        == pending

Accept(s) ==
  /\ expected' = NextExpected(s)
  /\ item' = s
  /\ commitCursor' = CommittedOnAccept
  /\ pc' = IF pending # None /\ HasStore THEN "put" ELSE "precheck"
  /\ UNCHANGED <<reducer, retry, initialFrom, pending, resolvedEnd, ready, limit,
                 cancelled, channel, durable, head, history>>

(* A jump over the expected sequence ends the watch with a history gap.    *)
RefuseJump ==
  /\ Feed("gap")
  /\ pc' = "failing"
  /\ UNCHANGED <<retry, ready, expected, item, limit, steady, history>>

Receive(s) == IF IsJump(s) THEN RefuseJump ELSE Accept(s)

Notification(s) ==
  /\ FrameArrives
  /\ ServerNext(s)
  /\ pos' = s
  /\ Receive(s)
  /\ UNCHANGED bounds

(* A repeated, backward or early notification.                             *)
Anomaly(s) ==
  /\ FrameArrives
  /\ anomalies < MaxAnomalies
  /\ anomalies' = anomalies + 1
  /\ pos' = pos
  /\ Receive(s)
  /\ UNCHANGED <<faults, runs>>

(* No cancellation is looked at before the put or during it.               *)
PutSucceeds ==
  /\ pc = "put"
  /\ durable' = StoredAfterPut(ToStore)
  /\ commitCursor' = ToStore
  /\ pc' = "precheck"
  /\ UNCHANGED <<reducer, retry, initialFrom, pending, resolvedEnd, ready, link,
                 cancelled, channel, head, bounds, history>>

(* A failed put ends the watch; a store that failed after writing may hold *)
(* the value.                                                              *)
PutFails ==
  /\ pc = "put"
  /\ Fault
  /\ durable' \in {durable, StoredAfterPut(ToStore)}
  /\ pc' = "failing"
  /\ UNCHANGED <<reducer, retry, cursors, ready, link, cancelled, channel, head,
                 history>>

(* dispatch_triggers probes the cancellation before the first trigger.     *)
TriggersStart ==
  /\ pc = "precheck"
  /\ ~(HasTriggers /\ cancelled)
  /\ pc' = IF HasTriggers THEN "trigger" ELSE "send"
  /\ UNCHANGED <<reducer, retry, ready, link, steady, bounds, history>>

(* ... and again before the next trigger and in each retry backoff.        *)
TriggersCancelled ==
  /\ pc \in {"precheck", "trigger"}
  /\ HasTriggers /\ cancelled
  /\ StopObserved
  /\ UNCHANGED reducer

TriggersSucceed ==
  /\ pc = "trigger"
  /\ triggered' = triggered \cup {item}
  /\ pc' = "send"
  /\ UNCHANGED <<reducer, retry, ready, link, steady, bounds, sentEver, pulledEver,
                 base, observed, refreshes, since, target>>

(* A required trigger has failed: the notification is not sent.            *)
RequiredTriggerFails ==
  /\ pc = "trigger"
  /\ Fault
  /\ pc' = "failing"
  /\ UNCHANGED <<reducer, retry, ready, link, steady, history>>

SendNotification ==
  /\ pc = "send" /\ ~cancelled /\ HasRoom
  /\ out' = Append(out, item)
  /\ pending' = NextPending(item)
  /\ sentEver' = sentEver \cup {item}
  /\ item' = None
  /\ pc' = "frame"
  /\ UNCHANGED <<reducer, retry, initialFrom, commitCursor, resolvedEnd, ready,
                 expected, pos, limit, cancelled, taken, durable, head, bounds,
                 pulledEver, triggered, base, observed, refreshes, since, target>>

(* Mutations: the cancelled send is taken for a sent one; the send does    *)
(* not race the cancellation.                                              *)
SendCancelledIgnored ==
  /\ pc = "send" /\ cancelled
  /\ observed' = TRUE /\ pc' = "frame"
  /\ UNCHANGED <<reducer, retry, ready, link, steady, bounds, sentEver, pulledEver,
                 triggered, base, refreshes, since, target>>
SendNotRaced  == FALSE
SendCancelled == pc = "send" /\ cancelled /\ StopObserved /\ UNCHANGED reducer

-----------------------------------------------------------------------------
(* Control frames of a confirmed stream.                                   *)

(* Sent once the backlog is.                                               *)
ReplayCompleted ==
  /\ FrameArrives
  /\ BacklogServed
  /\ Feed("replay_completed")
  /\ pc' = "frame"
  /\ UNCHANGED <<retry, ready, link, steady, bounds, history>>

(* The server caps the replay.                                             *)
ReplayLimitReached ==
  /\ FrameArrives
  /\ Fault
  /\ FailWith("gap")

(* A close frame ends the connection; the reducer decides what follows.    *)
ConnectionClosing(reason) ==
  /\ FrameArrives
  /\ RetryAfterLoss(reason, BOOLEAN)
  /\ UNCHANGED retryAfter

(* A replay that has completed is closed with end_of_stream; every other   *)
(* close may come at any time.                                             *)
EndOfReplay ==
  /\ st.phase = "replayed" /\ BacklogServed
  /\ ConnectionClosing("end_of_stream")
  /\ UNCHANGED bounds

ServerCloses(reason) == Fault /\ ConnectionClosing(reason)

(* A malformed notification id, another event type, an error frame or an   *)
(* unknown close reason.                                                   *)
FatalFrame ==
  /\ FrameArrives
  /\ Fault
  /\ FailWith("fatal")

(* A frame whose JSON does not have the shape of its event.                *)
UndecodableFrame ==
  /\ FrameArrives
  /\ Fault
  /\ Fail

-----------------------------------------------------------------------------
(* The end of the task.                                                    *)

(* An error item takes its place on the channel, or the cancellation wins; *)
(* either way the task leaves the loop, or returns when it never entered   *)
(* it.  Mutation: the `break` after the send is missing.                   *)
AfterErrorNoBreak == "loop"
AfterError == IF pc = "rejecting" THEN "done" ELSE "flush"

SendError ==
  /\ pc \in {"failing", "rejecting"}
  /\ ~cancelled /\ HasRoom
  /\ out' = Append(out, ErrItem)
  /\ pc' = AfterError
  /\ UNCHANGED <<reducer, retry, cursors, ready, link, cancelled, taken, durable,
                 head, bounds, history>>

SendErrorCancelled ==
  /\ pc \in {"failing", "rejecting"}
  /\ cancelled
  /\ observed' = TRUE
  /\ pc' = AfterError
  /\ UNCHANGED <<reducer, retry, ready, link, steady, bounds, sentEver, pulledEver,
                 triggered, base, refreshes, since, target>>

(* flush_pending: the pending notification is stored when asked for; a     *)
(* failure is only logged.                                                 *)
FlushPending ==
  /\ pc = "flush"
  /\ IF FlushOnExit /\ HasStore /\ pending # None
     THEN durable' \in {durable, StoredAfterPut(pending)} ELSE UNCHANGED durable
  /\ pc' = "done"
  /\ UNCHANGED <<reducer, retry, cursors, ready, link, cancelled, channel, head,
                 bounds, history>>

(* The startup budget drops the task at an await and reports it itself,    *)
(* without looking at the cancellation.  Mutation: the budget is not ended *)
(* by the first confirmation.                                              *)
BudgetNeverEnds == HasStartupBudget
BudgetRuns      == HasStartupBudget /\ ~ready

StartupExpires ==
  /\ BudgetRuns
  /\ pc \in {"resolve", "backoff", "refresh", "connect", "opening"}
  /\ Fault
  /\ pc' = "expired"
  /\ UNCHANGED <<reducer, retry, cursors, ready, link, cancelled, channel, durable,
                 head, history>>

ReportExpiry ==
  /\ pc = "expired" /\ HasRoom
  /\ out' = Append(out, ErrItem)
  /\ pc' = "done"
  /\ UNCHANGED <<reducer, retry, cursors, ready, link, cancelled, taken, durable,
                 head, bounds, history>>

-----------------------------------------------------------------------------
(* The consumer, the server's log and the process.                         *)

supervisor == <<pc, reducer, retry, cursors, ready, link>>

(* NotificationStream::recv.                                               *)
Pull ==
  /\ taken < Len(out)
  /\ taken' = taken + 1
  /\ pulledEver' = IF out[taken + 1] = ErrItem THEN pulledEver
                   ELSE pulledEver \cup {out[taken + 1]}
  /\ UNCHANGED <<supervisor, cancelled, out, durable, head, bounds, sentEver,
                 triggered, base, observed, refreshes, since, target>>

(* The stream is dropped or closed, or the last clone of the client drops. *)
Cancel ==
  /\ ~cancelled /\ pc # "done"
  /\ cancelled' = TRUE
  /\ UNCHANGED <<supervisor, channel, durable, head, bounds, history>>

Publish ==
  /\ head < MaxSeq
  /\ head' = head + 1
  /\ UNCHANGED <<supervisor, cancelled, channel, durable, bounds, history>>

(* The process ends, by a crash at any step or after its return, and the   *)
(* next one opens the same watch: nothing it held in memory survives.      *)
Restart ==
  /\ runs < MaxRuns
  /\ runs' = runs + 1
  /\ pc' = "resolve"
  /\ st' = InitialState(Mode, FALSE) /\ policy' = NoPolicy
  /\ shortSession' = FALSE /\ retryAfter' = "none" /\ refreshed' = FALSE
  /\ initialFrom' = Live /\ commitCursor' = None /\ pending' = None
  /\ resolvedEnd' = None /\ ready' = FALSE
  /\ expected' = None /\ item' = None /\ pos' = 0 /\ limit' = 0
  /\ cancelled' = FALSE /\ out' = <<>> /\ taken' = 0
  /\ observed' = FALSE /\ refreshes' = 0 /\ since' = None /\ target' = None
  /\ UNCHANGED <<durable, head, faults, anomalies, sentEver, pulledEver, triggered,
                 base>>

Init ==
  /\ pc = "resolve"
  /\ st = InitialState(Mode, FALSE) /\ policy = NoPolicy
  /\ shortSession = FALSE /\ retryAfter = "none" /\ refreshed = FALSE
  /\ initialFrom = Live /\ commitCursor = None /\ pending = None
  /\ resolvedEnd = None /\ ready = FALSE
  /\ expected = None /\ item = None /\ pos = 0 /\ limit = 0
  /\ cancelled = FALSE /\ out = <<>> /\ taken = 0
  /\ observed = FALSE /\ refreshes = 0 /\ since = None /\ target = None
  /\ durable = None
  /\ head \in 0 .. MaxSeq
  /\ faults = 0 /\ anomalies = 0 /\ runs = 1
  /\ sentEver = {} /\ pulledEver = {} /\ triggered = {}
  /\ base = CASE From >= 0 -> From [] From = FromDate -> DatePos [] From = Live -> None

-----------------------------------------------------------------------------
(* The steps of the supervisor task, those of the server and the network,  *)
(* and the specification.                                                  *)

Task ==
  \/ Resolve \/ ResolveCancelled
  \/ LoopEnds \/ Backoff \/ NoBackoff \/ BackoffElapsed \/ BackoffCancelled
  \/ RefreshSucceeds \/ RefreshCancelled
  \/ RequestOverflows \/ ConnectCancelled \/ Opened \/ OpeningConfirmed
  \/ ReadCancelled \/ ChunkDrained
  \/ PutSucceeds
  \/ TriggersStart \/ TriggersCancelled \/ TriggersSucceed
  \/ SendNotification \/ SendCancelled
  \/ SendError \/ SendErrorCancelled \/ FlushPending \/ ReportExpiry

Failure ==
  \/ ResolveFails \/ RefreshFails \/ OpeningRefused \/ OpeningExpired
  \/ TransportFails \/ Unauthorized \/ Unavailable \/ StatusRefused
  \/ HeartbeatStarved \/ UnexpectedEof \/ ParserOverflow
  \/ PutFails \/ RequiredTriggerFails \/ ReplayLimitReached
  \/ FatalFrame \/ UndecodableFrame \/ StartupExpires
  \/ \E reason \in CloseReasons : ServerCloses(reason)

Serve ==
  \/ \E s \in Seqs : Notification(s)
  \/ ReplayCompleted
  \/ EndOfReplay

Next ==
  \/ Task \/ Failure \/ Serve
  \/ \E s \in Seqs : Anomaly(s)
  \/ Pull \/ Cancel \/ Publish \/ Restart

Spec == Init /\ [][Next]_vars

-----------------------------------------------------------------------------
(* Properties.                                                             *)

(* The notifications this process has put on the channel.                  *)
Delivered == {out[i] : i \in 1 .. Len(out)} \ {ErrItem}

Pcs == {"resolve", "loop", "backoff", "refresh", "connect", "opening", "read",
        "frame", "put", "precheck", "trigger", "send", "failing", "rejecting",
        "expired", "flush", "done"}

(* Types of every variable.                                                *)
TypeOK ==
  /\ pc \in Pcs
  /\ st \in WatchStates
  /\ policy \in Policies \cup {NoPolicy}
  /\ shortSession \in BOOLEAN
  /\ retryAfter \in {"none", "zero", "positive"}
  /\ refreshed \in BOOLEAN
  /\ initialFrom \in Starts
  /\ {commitCursor, pending, resolvedEnd, expected, item, durable, base, since,
      target}
       \subseteq OptSeqs
  /\ ready \in BOOLEAN
  /\ cancelled \in BOOLEAN
  /\ out \in Seq(Items)
  /\ taken \in 0 .. Len(out)
  /\ {head, pos, limit} \subseteq Seqs
  /\ faults \in Nat /\ anomalies \in 0 .. MaxAnomalies /\ runs \in 1 .. MaxRuns
  /\ sentEver \subseteq Seqs /\ pulledEver \subseteq Seqs /\ triggered \subseteq Seqs
  /\ observed \in BOOLEAN
  /\ refreshes \in 0 .. 2

(* Commit-on-next-send never moves the checkpoint over a hole: every event *)
(* of the filter from the start of this watch up to the stored checkpoint  *)
(* has been put on a channel, and its triggers have succeeded, in this     *)
(* process or an earlier one, whatever failed, was cancelled or crashed    *)
(* (drain.rs, exit_flush.rs).                                              *)
Handled(s) == s \in sentEver /\ (HasTriggers => s \in triggered)

NoHole ==
  durable # None => \A s \in Matching : base < s /\ s <= durable => Handled(s)

(* "The pending sequence is never below the committed one" (mod.rs).       *)
PendingNotBelowCommitted ==
  pending # None /\ commitCursor # None => commitCursor <= pending

(* A reconnect resumes after the highest notification this process has     *)
(* delivered, or after its initial cursor, although backward notifications *)
(* are delivered too and commits lag behind (mod.rs last_delivered).       *)
ResumeAfterHighest ==
  /\ PendingNotBelowCommitted
  /\ \A s \in Delivered : s <= LastDelivered
  /\ LastDelivered # None => LastDelivered \in Delivered \cup {initialFrom}

(* A process delivers nothing twice and nothing out of order, over any     *)
(* number of reconnects, when the server itself does not (reconnect.rs     *)
(* "so a reconnect delivers nothing twice").                               *)
DeliveredInOrder ==
  \A i, j \in 1 .. Len(out) : i < j /\ out[j] # ErrItem => out[i] < out[j]

(* A cursor the supervisor counts as committed is in the store, also after *)
(* a failed put (drain.rs commits only once put has returned).             *)
CommittedIsDurable ==
  HasStore /\ commitCursor \notin {None, initialFrom} => commitCursor <= durable

(* No resume is unsafe: neither one of this process, which would deliver   *)
(* again, nor one of the next, which would start before what was committed.*)
ResumesSafely == DeliveredInOrder /\ CommittedIsDurable

(* Once a select has returned on the cancellation, the task only winds     *)
(* down: the oneshot receiver would panic if polled again (mod.rs          *)
(* DrainOutcome).                                                          *)
CancellationObservedOnce == observed => pc \in {"flush", "done"}

(* Nothing is delivered, and no trigger runs, before an Aviso stream has   *)
(* been confirmed (opening.rs "No data can precede confirmation").         *)
NoDataBeforeConfirmation ==
  ~ready => /\ Delivered = {} /\ pending = None
            /\ pc \notin {"read", "frame", "put", "precheck", "trigger", "send"}

(* ... so the startup budget, which drops the task and sends its error     *)
(* without racing the cancellation, never waits for the consumer           *)
(* (opening.rs "so this channel has room").                                *)
StartupErrorHasRoom == pc = "expired" => HasRoom

(* An error item is the last one: "`Some(Err(_))` is a terminal error      *)
(* followed by `None`" (stream.rs).                                        *)
ErrorIsLast == \A i \in 1 .. Len(out) : out[i] = ErrItem => i = Len(out)

(* A live watch that was not cancelled does not end without an error, no   *)
(* matter how its connections ended.                                       *)
NoSilentEnd ==
  Mode = "watch" /\ pc = "done" /\ ~cancelled => out # <<>> /\ out[Len(out)] = ErrItem

(* Credentials are refreshed at most once between two outcomes other than  *)
(* 401, so a server that keeps refusing them cannot cause a refresh loop.  *)
RefreshedAtMostOnce == refreshes <= 1

(* A request goes out only when the reducer says so: never with a refresh  *)
(* still due (a backoff must not overwrite it), never during a backoff.    *)
ConnectsOnlyWhenReconnecting ==
  pc = "connect" => st.status = "reconnecting" /\ st.phase \notin {"gap", "closed"}

(* What the nested loops of a session keep between them.                   *)
SessionIsOrderly ==
  /\ NoDataBeforeConfirmation /\ StartupErrorHasRoom
  /\ RefreshedAtMostOnce /\ ConnectsOnlyWhenReconnecting
  /\ ErrorIsLast /\ NoSilentEnd

(* No connection asks for a start at or past its end, which the server     *)
(* refuses (replay_end.rs).                                                *)
NeverAsksPastEnd ==
  pc = "connect" /\ WireFrom >= 0 /\ WireUntil >= 0 => WireFrom < WireUntil

(* A date end is resolved once: no later connection of the same replay     *)
(* delivers past the end the first one reported (connection.rs), or asks   *)
(* beyond it.                                                              *)
EndRespected ==
  /\ NeverAsksPastEnd
  /\ resolvedEnd # None => \A s \in Delivered : s <= resolvedEnd

(* A replay that ends by itself without an error has delivered the whole   *)
(* backlog its first confirmed connection announced, however many          *)
(* connections it took.                                                    *)
CleanReplayEndIsComplete ==
  Mode = "replay_only" /\ pc = "done" /\ ~cancelled /\ ErrItem \notin {out[i] : i \in 1 .. Len(out)}
    => target # None /\ \A s \in Matching : since < s /\ s <= target => s \in Delivered

(* A replay keeps to its range: nothing past its end, and all of it.       *)
ReplayKeepsToItsRange == EndRespected /\ CleanReplayEndIsComplete

(* A watch without a filter does not deliver over a missing sequence,      *)
(* across reconnects too, whatever the server sends (guards.rs GapGuard).  *)
NoUndetectedJump ==
  ~Relaxed /\ initialFrom >= 0 =>
    \A s \in Delivered : s <= initialFrom + 1 \/ s - 1 \in Delivered

(* A reconnect keeps the place: every event after the first confirmed      *)
(* position that the connection has passed has been delivered.             *)
KeepsItsPlace ==
  pc \in {"opening", "read", "frame"} /\ since # None =>
    \A s \in Matching : since < s /\ s <= pos => s \in Delivered

(* "pulling N+1 implies N is durable" and the reason given for a channel   *)
(* of one slot: a notification does not "land on disk while [it] is still  *)
(* buffered ahead of the consumer" (watch_spawn.rs).                       *)
DurableWasPulled == \A s \in sentEver : s <= durable => s \in pulledEver

-----------------------------------------------------------------------------
(* Liveness.  The runtime polls a ready task (WF on Task); awaits inside   *)
(* Task also stand for a store, a trigger or a provider that answers,      *)
(* which their timeouts and contracts bound.  A reachable server goes on   *)
(* sending and a consumer goes on pulling.  Nothing is assumed of          *)
(* failures, cancellation, publishing and restarts.                        *)

TaskFairSpec == Spec /\ WF_vars(Task)

PeersAreFair ==
  /\ WF_vars(\E s \in Seqs : Notification(s))
  /\ WF_vars(ReplayCompleted)
  /\ WF_vars(EndOfReplay)
  /\ WF_vars(Pull)

FairSpec == TaskFairSpec /\ PeersAreFair

(* A cancelled watch ends, whether or not the consumer reads on and the    *)
(* server answers: every await races the cancellation (guards.rs, and      *)
(* stream.rs close, which waits for it).                                   *)
CancelTerminates == cancelled ~> pc = "done"

(* With fair peers every event after the first confirmed position is       *)
(* delivered, unless the watch is cancelled or ends with an error, once    *)
(* failures stop.                                                          *)
HasFailed == ErrItem \in {out[i] : i \in 1 .. Len(out)}

EventuallyDelivered ==
  PeersAreFair =>
    \A s \in Matching :
      since # None /\ since < s /\ s <= head ~> s \in Delivered \/ cancelled \/ HasFailed

(* A replay ends (mode.rs), once failures stop.                            *)
ReplayTerminates == <>(pc = "done")

=============================================================================
