----------------------------- MODULE PyIterators -----------------------------
(***************************************************************************)
(* The iterators of the Python interface over a merged stream              *)
(* (aviso-py/src/many.rs; streams.rs has the same two over a single one).  *)
(* A call is a thread inside a method of the synchronous iterator, or the  *)
(* future of a method of the asynchronous one.  The stream is an Option    *)
(* behind a fair asynchronous mutex.                                       *)
(*                                                                         *)
(*   next   __next__ of the synchronous iterator, __anext__ of the other   *)
(*   run    run of the asynchronous iterator over a single stream; the     *)
(*          synchronous run is next in a loop, then close                  *)
(*   close  close, aclose                                                  *)
(*   reaper the task spawned by CloseOnDrop                                *)
(***************************************************************************)
EXTENDS ManyWatches, SequencesExt

CONSTANTS
  Calls,          \* calls made over the life of the iterator
  MaxInterrupts   \* bound on the signals

(* The mutex is held by a call, or by nobody.                              *)
ASSUME CallsAssumption == Nobody \notin Calls

VARIABLES
  style,      \* sync or async
  open,       \* the Option is Some: it holds the stream and a clone of the client
  closed, registered, woken,  \* the flag, and the Notify's waiters
  mutex, queue,               \* the call that holds the mutex, those that wait for it
  call, kind,                 \* per call: where it is, what it is
  held,                       \* per call: <<watch, item>> it has and has not returned, or <<>>
  signal, interrupts,         \* a signal is pending; how many there have been
  handed, dropped,            \* history: items returned, per watch; <<watch, item>>s lost to signals
  givenUp                     \* history: a future that was closing has been dropped

mutexVars  == <<mutex, queue>>
notifyVars == <<closed, registered, woken>>
pyHistory  == <<handed, dropped, givenUp>>
pyVars == <<style, open, notifyVars, mutexVars, call, kind, held, signal, interrupts, pyHistory>>

At(c, where) == call' = [call EXCEPT ![c] = where]
Stays == UNCHANGED <<style, kind, held, signal, interrupts>>

(* Calls that have gone no longer wait for anything.                       *)
Release(c) == mutex' = IF mutex = c THEN Nobody ELSE mutex
Unqueue(c) == queue' = SelectSeq(queue, LAMBDA d : d # c)
Unregister(c) == registered' = registered \ {c} /\ woken' = woken \ {c}

-----------------------------------------------------------------------------
(* A call is made.  Every `next` is a call of its own.                     *)
Call(c, k) ==
  /\ call[c] = "idle"
  /\ k \in IF style = "sync" THEN {"next", "close"} ELSE {"next", "run", "close"}
  /\ kind' = [kind EXCEPT ![c] = k]
  /\ At(c, "called")
  /\ UNCHANGED <<style, open, notifyVars, mutexVars, held, signal, interrupts, pyHistory, watchVars>>

(* __anext__ looks at the flag first; aclose sets it.                      *)
Enters(c) ==
  /\ call[c] = "called" /\ (style = "sync" \/ kind[c] = "run" \/ (kind[c] = "next" /\ ~closed))
  /\ queue' = Append(queue, c)
  /\ At(c, "locking")
  /\ Stays /\ UNCHANGED <<open, notifyVars, mutex, pyHistory, watchVars>>

FindsClosed(c) ==
  /\ call[c] = "called" /\ style = "async" /\ kind[c] = "next" /\ closed
  /\ At(c, "returned")
  /\ Stays /\ UNCHANGED <<open, notifyVars, mutexVars, pyHistory, watchVars>>

SetsFlag(c) ==
  /\ call[c] = "called" /\ style = "async" /\ kind[c] = "close"
  /\ closed' = TRUE
  /\ At(c, "waking")
  /\ Stays /\ UNCHANGED <<open, registered, woken, mutexVars, pyHistory, watchVars>>

(* notify_waiters.                                                         *)
Wakes(c) ==
  /\ call[c] = "waking"
  /\ woken' = woken \cup registered
  /\ queue' = Append(queue, c)
  /\ At(c, "locking")
  /\ Stays /\ UNCHANGED <<open, closed, registered, mutex, pyHistory, watchVars>>

Reads(c) == kind[c] \in {"next", "run"}

Locks(c) ==
  /\ call[c] = "locking" /\ mutex = Nobody /\ queue # <<>> /\ Head(queue) = c
  /\ mutex' = c /\ queue' = Tail(queue)
  /\ At(c, IF ~Reads(c) THEN "closing" ELSE IF style = "sync" THEN "checking" ELSE "registering")
  /\ Stays /\ UNCHANGED <<open, notifyVars, pyHistory, watchVars>>

(* Notified::enable, before the flag is looked at again.                   *)
(* Mutation: the flag is looked at first, then the call registers.         *)
CheckedThenRegisters(c) ==
  /\ call[c] = "registering"
  /\ registered' = registered \cup {c} /\ woken' = woken \ {c}
  /\ At(c, "polling")
  /\ Stays /\ UNCHANGED <<open, closed, mutexVars, pyHistory, watchVars>>

Registers(c) ==
  /\ call[c] = "registering"
  /\ registered' = registered \cup {c} /\ woken' = woken \ {c}
  /\ At(c, "checking")
  /\ Stays /\ UNCHANGED <<open, closed, mutexVars, pyHistory, watchVars>>

(* What a reader does next: it waits for an item, or stops.                *)
Checks(c) ==
  /\ call[c] = "checking"
  /\ IF open /\ (style = "sync" \/ ~closed)
     THEN At(c, "polling") /\ UNCHANGED <<mutex, closed, registered, woken>>
     ELSE IF kind[c] = "run"
          THEN At(c, "closing") /\ closed' = TRUE /\ Unregister(c) /\ UNCHANGED mutex
          ELSE At(c, "stopping") /\ Release(c) /\ Unregister(c) /\ UNCHANGED closed
  /\ Stays /\ UNCHANGED <<open, queue, pyHistory, watchVars>>

(* The select is biased to the wake-up.                                    *)
IsWoken(c) ==
  /\ call[c] = "polling" /\ c \in woken
  /\ Unregister(c)
  /\ IF kind[c] = "run" THEN At(c, "closing") /\ closed' = TRUE /\ UNCHANGED mutex
     ELSE At(c, "stopping") /\ Release(c) /\ UNCHANGED closed
  /\ Stays /\ UNCHANGED <<open, queue, pyHistory, watchVars>>

(* run keeps the lock and registers again; an error ends it.               *)
RunGoesOn(c, failed) ==
  IF failed THEN At(c, "closing") /\ closed' = TRUE ELSE At(c, "registering") /\ UNCHANGED closed

(* An item ends the future of an asynchronous next; the event loop has yet *)
(* to hand it to the task that awaits it.                                  *)
Polls(c) ==
  /\ call[c] = "polling" /\ c \notin woken
  /\ \E w \in Watches :
       LET item == Head(channel[w])
       IN /\ PollItem(w, "continue")
          /\ CASE style = "sync" ->
                    /\ held' = [held EXCEPT ![c] = <<w, item>>]
                    /\ At(c, "signals") /\ Release(c) /\ UNCHANGED <<pyHistory, notifyVars>>
               [] style = "async" /\ kind[c] = "next" ->
                    /\ held' = [held EXCEPT ![c] = <<w, item>>]
                    /\ At(c, "delivering") /\ Release(c) /\ Unregister(c)
                    /\ UNCHANGED <<pyHistory, closed>>
               [] style = "async" /\ kind[c] = "run" ->
                    /\ handed' = [handed EXCEPT ![w] = Append(@, item)]
                    /\ RunGoesOn(c, item = Failure) /\ Unregister(c)
                    /\ UNCHANGED <<dropped, givenUp, mutex, held>>
  /\ UNCHANGED <<style, kind, signal, interrupts, open, queue>>

PollsPending(c) ==
  /\ call[c] = "polling" /\ c \notin woken
  /\ PollPending /\ place' # place
  /\ UNCHANGED pyVars

PollsEnd(c) ==
  /\ call[c] = "polling" /\ c \notin woken
  /\ PollEnd
  /\ Unregister(c)
  /\ IF kind[c] = "run" THEN At(c, "closing") /\ closed' = TRUE /\ UNCHANGED mutex
     ELSE At(c, "stopping") /\ Release(c) /\ UNCHANGED closed
  /\ Stays /\ UNCHANGED <<open, queue, pyHistory>>

(* SYNC_RECV_POLL.  Mutation: an item that comes with the timeout is lost. *)
TimeoutTakes  ==
  IF \E w \in Watches : IsNext(w)
  THEN \E w \in Watches : PollItem(w, "continue") ELSE UNCHANGED watchVars
TimeoutLeaves == UNCHANGED watchVars

TimesOut(c) ==
  /\ call[c] = "polling" /\ style = "sync"
  /\ Release(c)
  /\ At(c, "signals")
  /\ TimeoutLeaves
  /\ Stays /\ UNCHANGED <<open, notifyVars, queue, pyHistory>>

(* check_signals comes before the outcome of the poll is looked at.        *)
AtSignals(c) == call[c] \in {"signals", "stopping"}

Interrupted(c) ==
  /\ AtSignals(c) /\ signal /\ style = "sync"
  /\ signal' = FALSE
  /\ dropped' = dropped \cup ({held[c]} \ {<<>>})
  /\ held' = [held EXCEPT ![c] = <<>>]
  /\ At(c, "returned")
  /\ UNCHANGED <<style, open, notifyVars, mutexVars, kind, interrupts, handed, givenUp, watchVars>>

Returns(c) ==
  /\ call[c] = "delivering" \/ (AtSignals(c) /\ (~signal \/ style = "async"))
  /\ IF call[c] = "signals" /\ held[c] = <<>>
     THEN At(c, "locking") /\ queue' = Append(queue, c)
     ELSE At(c, "returned") /\ UNCHANGED queue
  /\ handed' = IF held[c] = <<>> THEN handed
               ELSE [handed EXCEPT ![held[c][1]] = Append(@, held[c][2])]
  /\ held' = [held EXCEPT ![c] = <<>>]
  /\ UNCHANGED <<style, open, notifyVars, mutex, kind, signal, interrupts, dropped, givenUp, watchVars>>

(* The task is cancelled when its future has ended and before the event    *)
(* loop delivers: nobody gets what was read, and nobody is told.           *)
DeliveryLost(c) ==
  /\ call[c] = "delivering"
  /\ At(c, "undelivered")
  /\ Stays /\ UNCHANGED <<open, notifyVars, mutexVars, pyHistory, watchVars>>

(* The stream is taken and closed under the mutex; the clone of the client *)
(* goes with it.                                                           *)
TakesStream(c) ==
  /\ call[c] = "closing"
  /\ open' = FALSE
  /\ IF open THEN At(c, "draining") /\ CloseBegins /\ UNCHANGED mutex
             ELSE At(c, "returned") /\ Release(c) /\ UNCHANGED watchVars
  /\ Stays /\ UNCHANGED <<notifyVars, queue, pyHistory>>

Drains(c) ==
  /\ call[c] = "draining"
  /\ \E w \in Watches : CloseWaits(w)
  /\ UNCHANGED pyVars

CloseReturns(c) ==
  /\ call[c] = "draining" /\ CloseDone
  /\ At(c, "returned") /\ Release(c)
  /\ Stays /\ UNCHANGED <<open, notifyVars, queue, pyHistory, watchVars>>

(* asyncio drops a future at an await, or when all it brings is the end.   *)
(* The lock is released first; a run then closes in the background.  A     *)
(* stream taken to be closed is dropped.                                   *)
Abandoned(c) ==
  /\ style = "async" /\ kind[c] # "reaper" /\ call[c] \in {"locking", "polling", "draining", "stopping"}
  /\ Release(c) /\ Unqueue(c) /\ Unregister(c)
  /\ At(c, IF kind[c] = "run" THEN "dropping" ELSE "abandoned")
  /\ IF call[c] = "draining" THEN DropAll /\ givenUp' = TRUE ELSE UNCHANGED <<watchVars, givenUp>>
  /\ UNCHANGED <<style, kind, held, signal, interrupts, open, closed, handed, dropped>>

(* CloseOnDrop: the flag, then the wake-up, then a task that closes.       *)
ClosesOnDrop(c) ==
  /\ call[c] = "dropping"
  /\ closed' = TRUE
  /\ kind' = [kind EXCEPT ![c] = "reaper"]
  /\ At(c, "waking")
  /\ UNCHANGED <<style, open, registered, woken, mutexVars, held, signal, interrupts, pyHistory, watchVars>>

(* The caller keeps no client of its own, as in                            *)
(* AvisoClient(...).listen(...); the last clone goes with the iterator's.  *)
(* Who has ended does not notice.  Mutation: the iterator holds no clone.  *)
NoClone   == FALSE
CloneHeld == open \/ \E c \in Calls : call[c] = "draining"

LastCloneGoes ==
  /\ ~CloneHeld /\ ~clientGone /\ \E w \in Watches : phase[w] = "running"
  /\ clientGone' = TRUE
  /\ UNCHANGED <<pyVars, taskVars, streamVars>>

Signals ==
  /\ style = "sync" /\ interrupts < MaxInterrupts
  /\ signal' = TRUE /\ interrupts' = interrupts + 1
  /\ UNCHANGED <<style, open, notifyVars, mutexVars, call, kind, held, pyHistory, watchVars>>

-----------------------------------------------------------------------------
PyInit ==
  /\ style \in {"sync", "async"} /\ open = TRUE
  /\ closed = FALSE /\ registered = {} /\ woken = {} /\ mutex = Nobody /\ queue = <<>>
  /\ call = [c \in Calls |-> "idle"] /\ kind = [c \in Calls |-> "none"]
  /\ held = [c \in Calls |-> <<>>]
  /\ signal = FALSE /\ interrupts = 0
  /\ handed = [w \in Watches |-> <<>>] /\ dropped = {} /\ givenUp = FALSE

(* What the runtime drives once a call has been made.                      *)
PyCall(c) ==
  \/ Enters(c) \/ FindsClosed(c) \/ SetsFlag(c) \/ Wakes(c) \/ Locks(c) \/ Registers(c)
  \/ Checks(c) \/ IsWoken(c) \/ Polls(c) \/ PollsPending(c) \/ PollsEnd(c) \/ TimesOut(c)
  \/ Interrupted(c) \/ Returns(c) \/ TakesStream(c) \/ Drains(c) \/ CloseReturns(c)
  \/ ClosesOnDrop(c)

PyCallers ==
  \/ \E c \in Calls : (\E k \in {"next", "run", "close"} : Call(c, k)) \/ Abandoned(c) \/ DeliveryLost(c)
  \/ LastCloneGoes \/ Signals

PyNext == PyCallers \/ \E c \in Calls : PyCall(c)

-----------------------------------------------------------------------------
(* Properties.                                                             *)

ItemsOf(w, pairs) == {p[2] : p \in {q \in pairs \ {<<>>} : q[1] = w}}

(* What the stream gives goes to the caller.  Lost is the item that a read *)
(* held when it raised KeyboardInterrupt, and the one that a cancelled     *)
(* task was about to get (its call holds it still); nothing is lost to a   *)
(* timeout, to a future dropped at an await or to a close.                 *)
PyHandsOver ==
  /\ \A w \in Watches :
       Range(handed[w]) \cup ItemsOf(w, dropped) \cup ItemsOf(w, Range(held)) = Range(received[w])
  /\ \A c \in Calls : held[c] # <<>> => call[c] \in {"signals", "delivering", "undelivered"}
  /\ Cardinality(dropped) <= interrupts

=============================================================================
