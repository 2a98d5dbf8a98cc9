-------------------------------- MODULE CWatch --------------------------------
(***************************************************************************)
(* A watch of the C interface (aviso-ffi/src/watch): the task that reads   *)
(* the merged stream and calls back (run_watch_many, or run_watch for a    *)
(* single request, which is the case of one watch whose error always       *)
(* stops), and the handle that other threads stop, wait for and free.      *)
(*                                                                         *)
(* Left out: null arguments, for which nothing is started, and the text of *)
(* errors.  By contract nobody frees a handle that somebody waits for.     *)
(***************************************************************************)
EXTENDS ManyWatches

CONSTANT Waiters   \* threads that may call aviso_watch_wait

VARIABLES
  cTask,     \* unspawned, start, loop, callback, errorCallback, closing, closed or ended
  reading,   \* what the callback has been given: <<watch, item>>
  stopFlag, permit,  \* StopSignal: the flag and the Notify's stored permit
  failures,  \* the watches on_error has continued past
  reason,    \* EndReason, or none
  startError,\* remembered on the request or the list, reported by on_end
  slot,      \* AvisoWatch::join: the handle of the task is in it
  joinLock,  \* the waiter that holds its lock, or nobody
  waiter,    \* per waiter: idle, locking, joining or returned
  freed,
  ends       \* history: the outcomes handed to on_end

cVars == <<cTask, reading, stopFlag, permit, failures, reason, startError,
           slot, joinLock, waiter, freed, ends>>
loopVars   == <<stopFlag, permit, startError>>
handleVars == <<slot, joinLock, waiter, freed>>


-----------------------------------------------------------------------------
(* The task.                                                               *)

(* aviso_client_watch, aviso_client_watch_many: the request or the list is *)
(* consumed, the task is spawned, whatever error was remembered.           *)
CStart(error) ==
  /\ cTask = "unspawned"
  /\ cTask' = "start" /\ startError' = error /\ slot' = TRUE
  /\ UNCHANGED <<reading, stopFlag, permit, failures, reason, joinLock, waiter, freed, ends, watchVars>>

(* on_end takes the outcome.                                               *)
Deliver(outcome) ==
  /\ ends' = Append(ends, outcome)
  /\ cTask' = "ended"

CStartFails ==
  /\ cTask = "start"
  /\ Deliver("startError")
  /\ IF startError THEN UNCHANGED watchVars
     ELSE \E k \in 0 .. Count - 1 : OpenedInVain(1 .. k)
  /\ UNCHANGED <<reading, failures, reason, loopVars, handleVars>>

COpens ==
  /\ cTask = "start" /\ ~startError
  /\ Open(Watches)
  /\ cTask' = "loop"
  /\ UNCHANGED <<reading, failures, reason, loopVars, handleVars, ends>>

Leave(why) == cTask' = "closing" /\ reason' = why

(* The flag is looked at before each select, whose first branch is the     *)
(* permit.                                                                 *)
CSeesStop ==
  /\ cTask = "loop" /\ (stopFlag \/ permit)
  /\ permit' = IF stopFlag THEN permit ELSE FALSE
  /\ Leave("graceful")
  /\ CloseBegins
  /\ UNCHANGED <<reading, stopFlag, failures, startError, handleVars, ends>>

CReads ==
  /\ cTask = "loop" /\ ~stopFlag /\ ~permit
  /\ \E w \in Watches :
       /\ PollItem(w, "continue")
       /\ reading' = <<w, Head(channel[w])>>
       /\ cTask' = IF Head(channel[w]) = Failure THEN "errorCallback" ELSE "callback"
  /\ UNCHANGED <<failures, reason, loopVars, handleVars, ends>>

CPending ==
  /\ cTask = "loop" /\ PollPending
  /\ place' # place
  /\ UNCHANGED cVars

(* Every watch has ended.  Mutation: one failure makes the end an error.   *)
AnyFailed   == failures # {}
EveryFailed == Cardinality(failures) = Count

CStreamEnds ==
  /\ cTask = "loop" /\ ~stopFlag /\ ~permit
  /\ PollEnd
  /\ Leave(IF EveryFailed THEN "allFailed" ELSE "graceful")
  /\ UNCHANGED <<reading, failures, loopVars, handleVars, ends>>

(* The callback returns true, returns false, or unwinds.                   *)
CallbackReturns ==
  /\ cTask \in {"callback", "errorCallback"}
  /\ cTask' = "loop"
  /\ failures' = IF cTask = "errorCallback" THEN failures \cup {reading[1]} ELSE failures
  /\ UNCHANGED <<reading, reason, loopVars, handleVars, ends, watchVars>>

CallbackStops ==
  /\ cTask \in {"callback", "errorCallback"}
  /\ \/ Leave(IF cTask = "errorCallback" THEN "stopped" ELSE "graceful")
     \/ Leave("panicked")
  /\ CloseBegins
  /\ UNCHANGED <<reading, failures, loopVars, handleVars, ends>>

CCloses ==
  /\ cTask = "closing"
  /\ \E w \in Watches : CloseWaits(w)
  /\ UNCHANGED cVars

CEnds ==
  /\ cTask = "closing" /\ CloseDone
  /\ Deliver(reason)
  /\ UNCHANGED <<reading, failures, reason, loopVars, handleVars, watchVars>>

-----------------------------------------------------------------------------
(* The handle.                                                             *)

(* aviso_watch_stop, from any thread and from a callback.                  *)
CStop ==
  /\ cTask # "unspawned" /\ ~freed /\ ~stopFlag
  /\ stopFlag' = TRUE /\ permit' = TRUE
  /\ UNCHANGED <<cTask, reading, failures, reason, startError, handleVars, ends, watchVars>>

(* aviso_watch_free stops, and detaches the task.                          *)
CFree ==
  /\ cTask # "unspawned" /\ ~freed
  /\ \A t \in Waiters : waiter[t] \in {"idle", "returned"}
  /\ freed' = TRUE /\ stopFlag' = TRUE /\ permit' = TRUE
  /\ UNCHANGED <<cTask, reading, failures, reason, startError, slot, joinLock, waiter, ends, watchVars>>

Waiting(t, at) ==
  /\ waiter' = [waiter EXCEPT ![t] = at]
  /\ UNCHANGED <<cTask, reading, failures, reason, loopVars, freed, ends, watchVars>>

(* aviso_watch_wait, from a thread that is not the runtime's.              *)
WaitCalled(t) ==
  /\ cTask # "unspawned" /\ ~freed /\ waiter[t] = "idle"
  /\ Waiting(t, "locking")
  /\ UNCHANGED <<slot, joinLock>>

(* The task is awaited through the slot, under the lock.  Mutation: it is  *)
(* taken out first.                                                        *)
SlotTaken(held) == FALSE
SlotAfterLock(held) == held

WaitLocks(t) ==
  /\ waiter[t] = "locking" /\ joinLock = Nobody
  /\ IF slot
     THEN /\ Waiting(t, "joining")
          /\ slot' = SlotAfterLock(slot)
          /\ joinLock' = IF slot' THEN t ELSE Nobody
     ELSE Waiting(t, "returned") /\ UNCHANGED <<slot, joinLock>>

WaitReturns(t) ==
  /\ waiter[t] = "joining" /\ cTask = "ended"
  /\ Waiting(t, "returned")
  /\ slot' = FALSE
  /\ joinLock' = IF joinLock = t THEN Nobody ELSE joinLock

-----------------------------------------------------------------------------
CInit ==
  /\ cTask = "unspawned" /\ reading = <<>> /\ stopFlag = FALSE /\ permit = FALSE
  /\ failures = {} /\ reason = "none" /\ startError = FALSE
  /\ slot = FALSE /\ joinLock = Nobody /\ waiter = [t \in Waiters |-> "idle"]
  /\ freed = FALSE /\ ends = <<>>

CTask ==
  \/ CStartFails \/ COpens \/ CSeesStop \/ CReads \/ CPending \/ CStreamEnds
  \/ CallbackReturns \/ CallbackStops \/ CCloses \/ CEnds

CCallers ==
  \/ \E error \in BOOLEAN : CStart(error)
  \/ CStop \/ CFree
  \/ \E t \in Waiters : WaitCalled(t)

CWaits == \E t \in Waiters : WaitLocks(t) \/ WaitReturns(t)

CNext == CTask \/ CCallers \/ CWaits

-----------------------------------------------------------------------------
(* Properties.                                                             *)

(* "on_end fires exactly once" and takes the outcome (handle.rs,           *)
(* many/mod.rs): success after a stop or when every watch has ended, an    *)
(* error when on_error stopped or "when every watch failed".               *)
EndIsReported ==
  /\ Len(ends) <= 1 /\ ((cTask = "ended") <=> (ends # <<>>))
  /\ "allFailed" \in {ends[i] : i \in DOMAIN ends} => Failed = Watches
  /\ \A i \in DOMAIN ends :
       ends[i] = "graceful" /\ ~stopFlag => Cardinality(failures) < Count

=============================================================================
