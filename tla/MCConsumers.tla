----------------------------- MODULE MCConsumers -----------------------------
(***************************************************************************)
(* Two watches and each of their consumers in turn: a Rust program that    *)
(* reads the merged stream, the C interface, the iterators of the Python   *)
(* interface and the command line.                                         *)
(***************************************************************************)
EXTENDS CWatch, PyIterators, CliListen

VARIABLE consumer

vars == <<watchVars, cVars, pyVars, cliVars, consumer>>

Init ==
  /\ consumer \in {"rust", "c", "python", "cli"}
  /\ WatchesInit /\ CInit /\ PyInit /\ CliInit
  /\ consumer # "cli" => command = "listen" /\ malformed = 0
  /\ consumer # "python" => style = "sync"

(* A Rust program and a Python iterator begin with the stream opened.      *)
Opens ==
  /\ consumer \in {"rust", "python"} /\ Opened = {}
  /\ Open(Watches)
  /\ UNCHANGED <<cVars, pyVars, cliVars>>

Ready == Opened # {}

SupervisorEnds(w) ==
  /\ Runs
  /\ SeesCancel(w) \/ Finishes(w)
  /\ UNCHANGED <<cVars, pyVars, cliVars>>

SupervisorSends(w) ==
  /\ Runs
  /\ SendsItem(w) \/ SendsError(w) \/ EndsItself(w)
  /\ UNCHANGED <<cVars, pyVars, cliVars>>

Rust   == consumer = "rust"   /\ Ready /\ MultiNext /\ UNCHANGED <<cVars, pyVars, cliVars>>
C      == consumer = "c"      /\ CNext              /\ UNCHANGED <<pyVars, cliVars>>
Python == consumer = "python" /\ Ready /\ PyNext    /\ UNCHANGED <<cVars, cliVars>>
Cli    == consumer = "cli"    /\ CliNext            /\ UNCHANGED <<cVars, pyVars>>

Next ==
  /\ \/ Opens \/ Rust \/ C \/ Python \/ Cli
     \/ \E w \in Watches : SupervisorEnds(w) \/ SupervisorSends(w)
  /\ UNCHANGED consumer

(* The runtimes and the executor of the process run what can run, and the  *)
(* user's callbacks return.  Nothing is assumed of the server.             *)
Fairness ==
  /\ \A w \in Watches : WF_vars(SupervisorEnds(w) /\ UNCHANGED consumer)
  /\ WF_vars(CTask /\ UNCHANGED <<pyVars, cliVars, consumer>>)
  /\ \A c \in Calls : WF_vars(Ready /\ PyCall(c) /\ UNCHANGED <<cVars, cliVars, consumer>>)
  /\ \A w \in Watches : WF_vars(CliTasks(w) /\ consumer = "cli" /\ UNCHANGED <<cVars, pyVars, consumer>>)
  /\ WF_vars((Tells \/ Exit) /\ consumer = "cli" /\ UNCHANGED <<cVars, pyVars, consumer>>)

Spec == Init /\ [][Next]_vars /\ Fairness

-----------------------------------------------------------------------------
(* Properties.                                                             *)

(* The consumer has been told that its watches are over.                   *)
Over ==
  CASE consumer = "rust"   -> Ready /\ CloseDone
    [] consumer = "c"      -> ends # <<>> /\ ends[1] # "startError"
    [] consumer = "python" -> ~givenUp /\ \E c \in Calls : kind[c] = "close" /\ call[c] = "returned"
    [] consumer = "cli"    -> exitCode \in {0, 1}

(* "Cancels every watch and waits for each one to flush its checkpoint and *)
(* finish" (multi.rs close, and the same of aclose and the exit of the     *)
(* command line): also for the watch that failed, that ended first, or     *)
(* that another caller is closing.  aviso_watch_wait "blocks until the     *)
(* watch has fully ended and its on_end has returned" (handle.rs), also    *)
(* for a second thread that waits at the same time.                        *)
OverMeansFlushed ==
  /\ Over => \A w \in Opened : phase[w] = "done"
  /\ \A t \in Waiters : waiter[t] = "returned" => cTask = "ended"

(* "A busy watch never starves another" (multi.rs): while an item waits,   *)
(* at most one item of each other watch goes first.                        *)
EachGetsItsTurn == consumer # "cli" => \A w \in Watches : passed[w] <= Count - 1

(* A watch goes on until its iterator closes, although the caller keeps    *)
(* neither the client nor a call in flight (streams.rs Open).              *)
ListensUntilClosed == consumer = "python" /\ open => \A w \in Watches : ~Told(w)

(* What the stream gave to a Python iterator is lost to a signal, or to    *)
(* the cancellation of a task that was about to get it, and to nothing else.*)
HandsOver == consumer = "python" => PyHandsOver

(* Who stops is heard: on_end after aviso_watch_stop, the return of every  *)
(* close and aclose, the exit after Ctrl+C, whatever server and readers do.*)
(* Who has asked goes on asking, so that again and again nobody being left *)
(* unheard is each of them being heard.                                    *)
StopIsHeard ==
  []<>(/\ cTask # "unspawned" /\ stopFlag => cTask = "ended"
       /\ \A c \in Calls : kind[c] = "close" => call[c] \in {"returned", "abandoned"}
       /\ cancel => ~Runs)

=============================================================================
