------------------------------- MODULE CliListen -------------------------------
(***************************************************************************)
(* `aviso listen` and `aviso replay` (aviso-cli/src): the Ctrl+C handler,  *)
(* one task per listener with a stream of its own, and the main task that  *)
(* spawns them, joins them and exits.  A replay is the same with a single  *)
(* listener, which the main task runs itself.                              *)
(*                                                                         *)
(* Left out: banners, hints, and a panic of a listener task, which counts  *)
(* as a failure and drops the stream.                                      *)
(***************************************************************************)
EXTENDS ManyWatches

CONSTANT MaxSignals   \* bound on the signals

VARIABLES
  command,    \* listen or replay
  malformed,  \* the listener whose entry is refused (both from_id and from_date), or 0
  handler,    \* handler_task: waiting, telling or parked
  recent,     \* the last marked signal is at most DOUBLE_SIGINT_WINDOW ago
  signals,    \* signals so far
  cancel,     \* the watch channel
  listener,   \* per watch: unspawned, spawned, reading, closing, returned or joined
  failed,     \* listeners whose task returns an error
  exitCode    \* -1 while the process runs

cliVars == <<command, malformed, handler, recent, signals, cancel, listener, failed, exitCode>>
signalVars == <<handler, recent, signals, cancel>>
Fixed == UNCHANGED <<command, malformed>>

Listeners == IF command = "listen" THEN Watches ELSE {1}
Runs == exitCode = -1
MovesTo(w, where) == listener' = [listener EXCEPT ![w] = where]

-----------------------------------------------------------------------------
(* handler_task.  A signal is lost while no ctrl_c() is awaited.           *)

CannotInstall ==
  /\ Runs /\ handler = "waiting" /\ signals = 0
  /\ handler' = "parked"
  /\ Fixed /\ UNCHANGED <<recent, signals, cancel, listener, failed, exitCode, watchVars>>

Sigint ==
  /\ Runs /\ handler = "waiting" /\ signals < MaxSignals
  /\ signals' = signals + 1
  /\ recent' = TRUE
  /\ IF recent THEN exitCode' = 130 /\ UNCHANGED handler
                 ELSE handler' = "telling" /\ UNCHANGED exitCode
  /\ Fixed /\ UNCHANGED <<cancel, listener, failed, watchVars>>

Tells ==
  /\ Runs /\ handler = "telling"
  /\ cancel' = TRUE
  /\ handler' = "waiting"
  /\ Fixed /\ UNCHANGED <<recent, signals, listener, failed, exitCode, watchVars>>

WindowPasses ==
  /\ Runs /\ recent
  /\ recent' = FALSE
  /\ Fixed /\ UNCHANGED <<handler, signals, cancel, listener, failed, exitCode, watchVars>>

-----------------------------------------------------------------------------
(* The main task.                                                          *)

Spawn(w) ==
  /\ Runs /\ w \in Listeners /\ w # malformed /\ listener[w] = "unspawned"
  /\ \A v \in Listeners : v < w => listener[v] # "unspawned"
  /\ MovesTo(w, "spawned")
  /\ Fixed /\ UNCHANGED <<signalVars, failed, exitCode, watchVars>>

(* build_watch_request refuses it: the JoinSet is dropped, with the tasks  *)
(* spawned before, and the runtime after it.                               *)
Refuses(w) ==
  /\ Runs /\ command = "listen" /\ w = malformed /\ listener[w] = "unspawned"
  /\ \A v \in Listeners : v < w => listener[v] # "unspawned"
  /\ exitCode' = 2
  /\ Fixed /\ UNCHANGED <<signalVars, listener, failed, watchVars>>

(* Every listener has been spawned, then they are joined as they return.   *)
Join(w) ==
  /\ Runs /\ listener[w] = "returned"
  /\ \A v \in Listeners : listener[v] # "unspawned"
  /\ MovesTo(w, "joined")
  /\ Fixed /\ UNCHANGED <<signalVars, failed, exitCode, watchVars>>

(* The loop goes on after a failure, until all have been joined.           *)
Exit ==
  /\ Runs /\ \A w \in Listeners : listener[w] = "joined"
  /\ exitCode' = IF failed # {} THEN 1 ELSE 0
  /\ Fixed /\ UNCHANGED <<signalVars, listener, failed, watchVars>>

-----------------------------------------------------------------------------
(* A listener: spawn_listener_drain, and the loop of the replay.           *)

ListenerSkips(w) ==
  /\ Runs /\ listener[w] = "spawned" /\ cancel /\ command = "listen"
  /\ MovesTo(w, "returned")
  /\ Fixed /\ UNCHANGED <<signalVars, failed, exitCode, watchVars>>

ListenerOpens(w) ==
  /\ Runs /\ listener[w] = "spawned" /\ (~cancel \/ command = "replay")
  /\ \/ MovesTo(w, "reading") /\ Open({w}) /\ UNCHANGED failed
     \/ MovesTo(w, "returned") /\ failed' = failed \cup {w} /\ UNCHANGED watchVars
  /\ Fixed /\ UNCHANGED <<signalVars, exitCode>>

(* The loop is left: the stream is closed.                                 *)
LeavesLoop(w, withError) ==
  /\ MovesTo(w, "closing")
  /\ failed' = IF withError THEN failed \cup {w} ELSE failed
  /\ Fixed /\ UNCHANGED <<signalVars, exitCode>>

(* The select is biased: cancellation, the confirmation, an item.          *)
ListenerCancelled(w) ==
  /\ Runs /\ listener[w] = "reading" /\ cancel
  /\ CancelOne(w) /\ LeavesLoop(w, FALSE)

StatusFails(w) ==
  /\ Runs /\ listener[w] = "reading" /\ ~cancel /\ command = "listen"
  /\ received[w] = <<>> /\ phase[w] = "running"
  /\ CancelOne(w) /\ LeavesLoop(w, TRUE)

ListenerReads(w) ==
  /\ Runs /\ listener[w] = "reading" /\ ~cancel
  /\ HasItem(w) /\ Head(channel[w]) # Failure
  /\ RecvItem(w)
  /\ UNCHANGED cliVars

ListenerFails(w) ==
  /\ Runs /\ listener[w] = "reading" /\ ~cancel
  /\ HasItem(w) /\ Head(channel[w]) = Failure
  /\ Receive(w)
  /\ cancelled' = cancelled \cup {w}
  /\ place' = [place EXCEPT ![w] = "stopped"]
  /\ UNCHANGED <<phase, sent, clientGone, turn>>
  /\ LeavesLoop(w, TRUE)

ListenerEnds(w) ==
  /\ Runs /\ listener[w] = "reading" /\ ~cancel /\ HasEnded(w)
  /\ CancelOne(w) /\ LeavesLoop(w, FALSE)

ListenerCloses(w) ==
  /\ Runs /\ listener[w] = "closing" /\ CloseWaits(w)
  /\ MovesTo(w, "returned")
  /\ Fixed /\ UNCHANGED <<signalVars, failed, exitCode>>

-----------------------------------------------------------------------------
CliInit ==
  /\ command \in {"listen", "replay"} /\ malformed \in {0, Count}
  /\ handler = "waiting" /\ recent = FALSE /\ signals = 0 /\ cancel = FALSE
  /\ listener = [w \in Watches |-> "unspawned"] /\ failed = {} /\ exitCode = -1

(* What the process does by itself.                                        *)
CliTasks(w) ==
  \/ Spawn(w) \/ Refuses(w) \/ Join(w)
  \/ ListenerSkips(w) \/ ListenerOpens(w) \/ ListenerCancelled(w) \/ StatusFails(w)
  \/ ListenerReads(w) \/ ListenerFails(w) \/ ListenerEnds(w) \/ ListenerCloses(w)

CliNext ==
  \/ CannotInstall \/ Sigint \/ Tells \/ WindowPasses
  \/ \E w \in Watches : CliTasks(w)
  \/ Exit

=============================================================================
