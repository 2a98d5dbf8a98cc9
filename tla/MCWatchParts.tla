----------------------------- MODULE MCWatchParts -----------------------------
(***************************************************************************)
(* The two parts around a supervisor, one at a time: the connections that  *)
(* watches share (WatchTransport) and the triggers of a notification       *)
(* (TriggerDispatch).                                                      *)
(***************************************************************************)
EXTENDS WatchTransport

CONSTANTS TriggerLists, MaxNotes    \* of TriggerDispatch

VARIABLES
  part,        \* "connections" or "triggers"
  triggers, note, current, attempt, pc, lastError, outcome, cancels,
  child, status, drains, opened, file, made, won   \* of TriggerDispatch

Triggers == INSTANCE TriggerDispatch WITH index <- current

(* A watch without triggers dispatches nothing (HasTriggers of Supervisor).*)
ASSUME TriggerListsAssumption == TriggerLists \subseteq Seq(Triggers!TriggerType) \ {<<>>}

-----------------------------------------------------------------------------
(* Lists of triggers: each kind as its constructor makes it, and with      *)
(* other settings.                                                         *)

Made == INSTANCE TriggerDispatch WITH index <- current, TriggerLists <- {}

Command == Made!Timed(Made!Trigger("command"))
Settings(t) ==
  {t, Made!Retried(t, 1), Made!Optional(t),
   Made!Optional(Made!Persistent(Made!Retried(t, 1)))}

Single == UNION {Settings(Made!Trigger(kind)) : kind \in Made!Kinds}
  \cup Settings(Command) \cup {Made!Retried(Made!Persistent(Command), 2)}

Leading == {Command, Made!Optional(Made!Retried(Command, 1)), Made!Trigger("log"),
            Made!Optional(Made!Trigger("log")),
            Made!Optional(Made!Retried(Made!Trigger("post"), 1))}

SmallLists == {<<t>> : t \in Single} \cup {<<t, u>> : t \in Leading, u \in Single}

-----------------------------------------------------------------------------
(* One part at a time.                                                     *)

dispatch == <<triggers, note, current, attempt, pc, lastError, outcome, cancels,
              child, status, drains, opened, file, made, won>>

(* Where nothing is dispatched.                                            *)
NoDispatch ==
  /\ triggers = <<>> /\ note = 1 /\ current = 1 /\ attempt = 0 /\ pc = "ended"
  /\ lastError = "none" /\ outcome = "ok" /\ cancels = {}
  /\ child = "none" /\ status = "ok" /\ drains = {} /\ opened = {} /\ file = <<>>
  /\ made = <<>> /\ won = {}

PartsInit ==
  \/ part = "connections" /\ Init /\ NoDispatch
  \/ part = "triggers" /\ Triggers!Init /\ Init /\ slots[1].http = CHOOSE c \in Clients : TRUE

PartsNext ==
  \/ part = "connections" /\ Next /\ UNCHANGED <<part, dispatch>>
  \/ part = "triggers" /\ Triggers!Next /\ UNCHANGED <<part, vars>>

PartsSpec == PartsInit /\ [][PartsNext]_<<part, vars, dispatch>> /\ Triggers!Fairness

-----------------------------------------------------------------------------
(* What TriggerDispatch promises, while it runs.                           *)

(* Triggers run in order, and a dispatch returns Ok only when each has     *)
(* succeeded, or was optional and had all its attempts                     *)
(* (dispatch_triggers_with_backoff).                                       *)
OutcomeIsEarned == part = "triggers" => Triggers!OutcomeIsEarned

(* An attempt of a command returns only after its child is reaped and its  *)
(* output is read by nobody any more (dispatch_command).                   *)
NothingLeftRunning == Triggers!NothingLeftRunning

(* No attempt begins once the watch or its client is cancelled             *)
(* (dispatch_triggers_with_backoff, check_cancelled).                      *)
NoAttemptAfterCancel == Triggers!NoAttemptAfterCancel

(* A dispatch returns, whatever commands and servers do, as long as every  *)
(* command has a timeout and none outlives it for ever because its kill    *)
(* failed (dispatch_command).                                              *)
DispatchReturns == Triggers!DispatchReturns
=============================================================================
