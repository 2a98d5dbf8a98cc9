--------------------------- MODULE TriggerDispatch ---------------------------
(***************************************************************************)
(* The triggers of one watch: dispatch_triggers (watch/trigger/dispatcher) *)
(* and one attempt of each kind of trigger, over successive notifications. *)
(* Supervisor sees the three ways a dispatch ends, which are the values of *)
(* `outcome`.  The dispatcher goes through                                 *)
(*                                                                         *)
(*   between   looking at the cancellation before the next trigger         *)
(*   begin     an attempt: templates, encoding, directories, opening       *)
(*   child     waiting for a command, with its timeout                     *)
(*   reap      waiting for the command it has killed                       *)
(*   drain     collecting what the command has printed, for at most 5 s    *)
(*   send      an HTTP request waiting for its response                    *)
(*   body      reading the tail of the response                            *)
(*   flush     a line handed to the log file, not yet written              *)
(*   sleep     backing off before the next attempt                         *)
(*   ended     the dispatch has returned                                   *)
(*                                                                         *)
(* An attempt runs to completion whatever is cancelled meanwhile.  What is *)
(* rendered, printed and sent is left out.                                 *)
(***************************************************************************)
EXTENDS Integers, Sequences, SequencesExt, FiniteSets

CONSTANTS
  TriggerLists,  \* the lists of triggers a watch may be configured with
  MaxNotes       \* bound on the notifications dispatched

HttpKinds == {"webhook", "teams", "post"}
Kinds     == {"echo", "log", "command"} \cup HttpKinds

(* What a trigger is configured with; of its timeout, whether it has one.  *)
TriggerType ==
  [kind : Kinds, retries : Nat, required : BOOLEAN, failFast : BOOLEAN, timed : BOOLEAN]

(* The constructors: no retries, required, fail fast, no timeout.  HTTP    *)
(* triggers get DEFAULT_WEBHOOK_TIMEOUT.                                   *)
LocalTrigger(kind) ==
  [kind |-> kind, retries |-> 0, required |-> TRUE, failFast |-> TRUE, timed |-> FALSE]
HttpTrigger(kind) == [LocalTrigger(kind) EXCEPT !.timed = TRUE]
Trigger(kind) == IF kind \in HttpKinds THEN HttpTrigger(kind) ELSE LocalTrigger(kind)

(* The setters.  A timeout can be set and not unset.                       *)
Retried(t, n) == [t EXCEPT !.retries = n]
Optional(t)   == [t EXCEPT !.required = FALSE]
Persistent(t) == [t EXCEPT !.failFast = FALSE]
Timed(t)      == [t EXCEPT !.timed = TRUE]

VARIABLES
  triggers,  \* the triggers of this watch
  note,      \* the notification being dispatched
  index, attempt, pc,
  lastError, \* of the attempt that ended last
  outcome,   \* running, ok, cancelled or requiredFailed
  cancels,   \* who has cancelled: the stream, or the last clone of the client
  child,     \* none, running, exited, killed, reaped or dropped
  status,    \* of the child or the response, once it has one: ok or failed
  drains,    \* tasks reading the child's output
  opened,    \* per trigger: TriggerState::log_handle
  file,      \* what has been appended to the log files: <<trigger, note, whole>>
  (* History of this dispatch, read by the properties only. *)
  made,      \* per trigger: attempts that have ended
  won        \* the triggers that have succeeded

attemptVars == <<child, status, drains, opened, file>>
history == <<made, won>>
vars == <<triggers, note, index, attempt, pc, lastError, outcome, cancels, attemptVars, history>>

T == triggers[index]

-----------------------------------------------------------------------------
(* The retry loop.                                                         *)

IsTerminalError(t, e) == t.failFast /\ e \in {"template", "command", "build", "status4xx"}

(* Mutation: the budget counts attempts.                                   *)
IsExhaustedEarly(t) == attempt + 1 >= t.retries
IsExhausted(t)      == attempt >= t.retries

CheckCancelled == cancels # {}

(* Go on to the next trigger, or return Ok after the last.                 *)
Advance ==
  IF index = Len(triggers)
  THEN pc' = "ended" /\ outcome' = "ok" /\ UNCHANGED <<index, attempt>>
  ELSE pc' = "between" /\ index' = index + 1 /\ attempt' = 0 /\ UNCHANGED outcome

GiveUp ==
  IF T.required
  THEN pc' = "ended" /\ outcome' = "requiredFailed" /\ UNCHANGED <<index, attempt>>
  ELSE Advance

Backoff == pc' = "sleep" /\ UNCHANGED <<index, attempt, outcome>>

(* What the loop does with the result of an attempt.                       *)
Succeeds ==
  /\ Advance
  /\ won' = won \cup {index}
  /\ made' = [made EXCEPT ![index] = @ + 1]
  /\ UNCHANGED <<lastError, triggers, note, cancels>>

FailsWith(e) ==
  /\ IF IsTerminalError(T, e) \/ IsExhausted(T) THEN GiveUp ELSE Backoff
  /\ lastError' = e
  /\ made' = [made EXCEPT ![index] = @ + 1]
  /\ UNCHANGED <<won, triggers, note, cancels>>

(* The attempt goes on at `to`.                                            *)
Continue(to) ==
  /\ pc' = to
  /\ UNCHANGED <<triggers, note, index, attempt, lastError, outcome, cancels, history>>

ReturnCancelled ==
  /\ pc' = "ended" /\ outcome' = "cancelled"
  /\ UNCHANGED <<triggers, note, index, attempt, lastError, cancels, attemptVars, history>>

StartTrigger ==
  /\ pc = "between" /\ ~CheckCancelled
  /\ Continue("begin")
  /\ UNCHANGED attemptVars

CancelledBetween == pc = "between" /\ CheckCancelled /\ ReturnCancelled

(* A biased select with the cancellations first.                           *)
CancelledAsleep == pc = "sleep" /\ cancels # {} /\ ReturnCancelled

(* Mutation: the sleep is not raced with the cancellation.                 *)
MaySleepOn  == TRUE
MayRetry    == cancels = {}

Retry ==
  /\ pc = "sleep" /\ MayRetry
  /\ attempt' = attempt + 1
  /\ pc' = "begin"
  /\ UNCHANGED <<triggers, note, index, lastError, outcome, cancels, attemptVars, history>>

-----------------------------------------------------------------------------
(* One attempt: what can fail before anything has happened outside.        *)

CommandPrepareErrors == {"template", "io", "encode"}
WebhookRenderErrors  == {"template", "encode"}
TeamsRenderErrors    == {"template", "encode"} \cup WebhookRenderErrors
PostRenderErrors     == {"encode"} \cup WebhookRenderErrors

PrepareErrors(kind) ==
  CASE kind = "echo"    -> {"io", "encode"}
    [] kind = "log"     -> IF index \in opened THEN {} ELSE {"io"}
    [] kind = "command" -> CommandPrepareErrors
    [] kind = "webhook" -> WebhookRenderErrors
    [] kind = "teams"   -> TeamsRenderErrors
    [] kind = "post"    -> PostRenderErrors

PrepareFails ==
  /\ pc = "begin"
  /\ \E e \in PrepareErrors(T.kind) : FailsWith(e)
  /\ UNCHANGED attemptVars

(* dispatch_echo.                                                          *)
EchoPrints == pc = "begin" /\ T.kind = "echo" /\ Succeeds /\ UNCHANGED attemptVars

(* dispatch_log: opened on first use and kept; write_all hands the line to *)
(* a blocking task, whose result flush waits for.                          *)
LogWrites ==
  /\ pc = "begin" /\ T.kind = "log"
  /\ opened' = opened \cup {index}
  /\ Continue("flush")
  /\ UNCHANGED <<child, status, drains, file>>

LogEncodeFails ==
  /\ pc = "begin" /\ T.kind = "log"
  /\ opened' = opened \cup {index}
  /\ FailsWith("encode")
  /\ UNCHANGED <<child, status, drains, file>>

Appended(whole) == Append(file, <<index, note, whole>>)

LogFlushed ==
  /\ pc = "flush"
  /\ file' = Appended(TRUE)
  /\ Succeeds
  /\ UNCHANGED <<child, status, drains, opened>>

(* Nothing was written, or a part of the line.                             *)
LogFlushFails ==
  /\ pc = "flush"
  /\ file' \in {file, Appended(FALSE)}
  /\ FailsWith("io")
  /\ UNCHANGED <<child, status, drains, opened>>

-----------------------------------------------------------------------------
(* dispatch_command.                                                       *)

Spawn ==
  /\ pc = "begin" /\ T.kind = "command"
  /\ child' = "running"
  /\ drains' = {"stdout", "stderr"}
  /\ Continue("child")
  /\ UNCHANGED <<status, opened, file>>

(* The dispatcher is not involved.                                         *)
Undisturbed ==
  UNCHANGED <<triggers, note, index, attempt, pc, lastError, outcome, cancels, opened, file, history>>

(* The child ends on its own, at any time, or never.                       *)
ChildExits ==
  /\ child = "running"
  /\ child' = "exited"
  /\ status' \in {"ok", "failed"}
  /\ Undisturbed /\ UNCHANGED drains

(* SIGKILL takes effect.                                                   *)
ChildDies ==
  /\ child = "killed"
  /\ child' = "exited"
  /\ status' = "failed"
  /\ Undisturbed /\ UNCHANGED drains

(* A reader of the child's output meets the end of it: no earlier than the *)
(* child's end, and later or never if a descendant has inherited it.  The  *)
(* child may also close its output and go on.                              *)
DrainEnds ==
  /\ \E d \in drains : drains' = drains \ {d}
  /\ Undisturbed /\ UNCHANGED <<child, status>>

ChildWaited ==
  /\ pc = "child" /\ child = "exited"
  /\ child' = "reaped"
  /\ Continue("drain")
  /\ UNCHANGED <<status, drains, opened, file>>

(* The wait itself fails: the handles are dropped, which kills the child   *)
(* and lets the readers run on, out of sight.                              *)
WaitFails ==
  /\ pc = "child"
  /\ child' = "dropped"
  /\ FailsWith("io")
  /\ UNCHANGED <<status, drains, opened, file>>

(* The select is not biased: a child that has just ended may still time    *)
(* out.  SIGKILL may fail with the child still running (it has changed its *)
(* user, say): that is logged, and the child is waited for all the same.   *)
TimesOut ==
  /\ pc = "child" /\ T.timed
  /\ child' \in IF child = "running" THEN {"killed", "running"} ELSE {child}
  /\ Continue("reap")
  /\ UNCHANGED <<status, drains, opened, file>>

(* Mutation: a timeout does not wait for the child it has killed.          *)
ReapsAtOnce == TRUE
MayReap     == child = "exited"

Reaped ==
  /\ pc = "reap" /\ MayReap
  /\ child' = IF child = "exited" THEN "reaped" ELSE child
  /\ drains' = {}
  /\ FailsWith("timeout")
  /\ UNCHANGED <<status, opened, file>>

(* The wait for the killed child fails: logged, and the handle is dropped. *)
ReapFails ==
  /\ pc = "reap"
  /\ child' = "dropped"
  /\ drains' = {}
  /\ FailsWith("timeout")
  /\ UNCHANGED <<status, opened, file>>

(* Both readers have ended, or POST_EXIT_DRAIN_CAP has passed and they are *)
(* aborted: the result is the child's exit status either way.  Mutation:   *)
(* only a complete output ends the attempt.                                *)
DrainsComplete == drains = {}
MayConclude    == TRUE

Drained ==
  /\ pc = "drain" /\ MayConclude
  /\ drains' = {}
  /\ IF status = "ok" THEN Succeeds ELSE FailsWith("command")
  /\ UNCHANGED <<child, status, opened, file>>

-----------------------------------------------------------------------------
(* dispatch_webhook; teams and post build a webhook and call it.           *)

Send ==
  /\ pc = "begin" /\ T.kind \in HttpKinds
  /\ Continue("send")
  /\ UNCHANGED attemptVars

SendFails ==
  /\ pc = "send"
  /\ \E e \in {"build", "transport"} \cup (IF T.timed THEN {"timeout"} ELSE {}) : FailsWith(e)
  /\ UNCHANGED attemptVars

Responds ==
  /\ pc = "send"
  /\ status' \in {"ok", "status4xx", "statusOther"}
  /\ Continue("body")
  /\ UNCHANGED <<child, drains, opened, file>>

(* The body was read, or broke off: the status decides.                    *)
BodyRead ==
  /\ pc = "body"
  /\ IF status = "ok" THEN Succeeds ELSE FailsWith(status)
  /\ UNCHANGED attemptVars

(* The timeout of the request covers its body, whatever the status was.    *)
BodyTimesOut ==
  /\ pc = "body"
  /\ FailsWith(IF T.timed THEN "timeout" ELSE "transport")
  /\ UNCHANGED attemptVars

-----------------------------------------------------------------------------
(* The stream is dropped or cancelled; the last clone of the client goes.  *)
Cancel ==
  /\ pc # "ended"
  /\ \E c \in {"stream", "client"} \ cancels : cancels' = cancels \cup {c}
  /\ UNCHANGED <<triggers, note, index, attempt, pc, lastError, outcome, attemptVars, history>>

(* The supervisor hands over the next notification; the states of the      *)
(* triggers stay.                                                          *)
NextNotification ==
  /\ pc = "ended" /\ outcome = "ok" /\ note < MaxNotes
  /\ note' = note + 1
  /\ index' = 1 /\ attempt' = 0 /\ pc' = "between" /\ outcome' = "running"
  /\ made' = [i \in DOMAIN triggers |-> 0] /\ won' = {}
  /\ UNCHANGED <<triggers, lastError, cancels, attemptVars>>

Init ==
  /\ triggers \in TriggerLists
  /\ note = 1 /\ index = 1 /\ attempt = 0 /\ pc = "between"
  /\ lastError = "none" /\ outcome = "running" /\ cancels = {}
  /\ child = "none" /\ status = "ok" /\ drains = {} /\ opened = {} /\ file = <<>>
  /\ made = [i \in DOMAIN triggers |-> 0] /\ won = {}

Dispatcher ==
  \/ StartTrigger \/ CancelledBetween \/ CancelledAsleep \/ Retry \/ PrepareFails
  \/ EchoPrints \/ LogWrites \/ LogEncodeFails \/ LogFlushed \/ LogFlushFails
  \/ Spawn \/ ChildWaited \/ TimesOut \/ Reaped \/ Drained
  \/ Send \/ SendFails \/ Responds \/ BodyRead \/ BodyTimesOut

Next ==
  \/ Dispatcher \/ WaitFails \/ ReapFails \/ ChildExits \/ ChildDies \/ DrainEnds
  \/ Cancel \/ NextNotification

Spec == Init /\ [][Next]_vars

(* The task is polled and its timers fire; a killed process dies.  A       *)
(* command may run for ever, a server may not answer.                      *)
Fairness == WF_vars(Dispatcher) /\ WF_vars(ChildDies)
FairSpec == Spec /\ Fairness

-----------------------------------------------------------------------------
(* Properties.                                                             *)

(* A failure no retry can mend (watch/trigger/mod.rs, "fail_fast").        *)
Hopeless(t, e) == t.failFast /\ e \in {"template", "command", "build", "status4xx"}

(* "A required trigger that fails after all retries terminates the watch   *)
(* ...; an optional trigger that fails logs a WARN event and the watch     *)
(* continues" (watch/trigger/mod.rs).  Triggers run one after the other; a *)
(* dispatch returns Ok only when each has succeeded or was optional and    *)
(* had all its attempts, and a log trigger that succeeded has its whole    *)
(* line in the file.  The supervisor commits a notification on this Ok.    *)
OutcomeIsEarned ==
  /\ \A i \in DOMAIN triggers :
       /\ i > index => made[i] = 0
       /\ i \in won => /\ made[i] > 0
                       /\ triggers[i].kind = "log" => Contains(file, <<i, note, TRUE>>)
       /\ i < index \/ outcome = "ok" => i \in won \/ (~triggers[i].required /\ made[i] > 0)
       /\ ~triggers[i].failFast /\ (i < index \/ outcome = "ok")
             => i \in won \/ made[i] = triggers[i].retries + 1
  /\ outcome = "requiredFailed" =>
       /\ T.required /\ index \notin won
       /\ Hopeless(T, lastError) \/ made[index] = T.retries + 1
  /\ outcome = "cancelled" => cancels # {}

(* "Between attempts and between triggers, the dispatcher honours both     *)
(* parent_cancel and the per-stream cancel oneshot"                        *)
(* (watch/trigger/mod.rs): once either has fired no attempt begins, and    *)
(* the one that runs is the last.                                          *)
NoAttemptAfterCancel ==
  [][cancels # {} => ~(pc # "begin" /\ pc' = "begin")]_vars

(* An attempt of a command returns only after its child has been reaped    *)
(* and nobody reads its output any more ("the dispatcher kills and reaps   *)
(* the child before returning", command/mod.rs), unless the wait itself    *)
(* failed; so attempts of a command never overlap.                         *)
NothingLeftRunning ==
  pc \notin {"child", "reap", "drain"} =>
    \/ child \in {"none", "reaped"} /\ drains = {}
    \/ child = "dropped"

(* A command that its timeout has not killed runs on, and is waited for.   *)
OutlivesItsTimeout == pc = "reap" /\ child = "running"

(* A dispatch returns, over failures, retries, silent servers, commands    *)
(* that hang and descendants that hold their output, as long as every      *)
(* command has a timeout and none outlives it for ever.  Otherwise it may  *)
(* wait for ever, and no cancellation ends it (command/mod.rs: `None =>    *)
(* child.wait()`, and the unbounded wait after start_kill).                *)
DispatchReturns ==
  (\A i \in DOMAIN triggers : triggers[i].kind = "command" => triggers[i].timed)
    => ([]<>~OutlivesItsTimeout => (pc = "between" ~> pc = "ended"))

=============================================================================
