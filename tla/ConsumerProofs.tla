---------------------------- MODULE ConsumerProofs ----------------------------
(***************************************************************************)
(* The readers of watches, for any number of watches, items, waiting       *)
(* threads, calls and signals: a Rust program, the C interface, the        *)
(* iterators of the Python interface and the command line, as MCConsumers  *)
(* puts each of them over the same watches.                                *)
(*                                                                         *)
(* Inv is one invariant with a part per reader and a part, WatchTypes and  *)
(* OpenInv, for the watches they share; the readers that were not chosen   *)
(* stay where they began.  TurnInv and HandInv rest on it and are kept     *)
(* apart, for they need arithmetic and cardinalities.  WatchMove lists     *)
(* what a step of any reader does to the watches.                          *)
(***************************************************************************)
EXTENDS MCConsumers, FiniteSetTheorems, TLAPS

Phases  == {"unopened", "running", "flushing", "done"}
PlacesOf == {"unread", "reading", "stopped", "closed"}

WatchTypes ==
  /\ phase \in [Watches -> Phases]
  /\ channel \in [Watches -> Seq(Nat)] /\ sent \in [Watches -> Nat]
  /\ cancelled \subseteq Watches /\ clientGone \in BOOLEAN
  /\ place \in [Watches -> PlacesOf] /\ turn \in Watches
  /\ received \in [Watches -> Seq(Nat)] /\ passed \in [Watches -> Nat]

(* The consumers that were not chosen have not moved.                      *)
OthersStill ==
  /\ consumer \in {"rust", "c", "python", "cli"}
  /\ consumer # "c" => CInit
  /\ consumer # "python" => PyInit
  /\ consumer # "cli" => CliInit

-----------------------------------------------------------------------------
(* A watch is read once it is opened, and closed once it is done.          *)
StartFailed == ends # <<>> /\ ends[1] = "startError"

OpenInv ==
  /\ \A w \in Watches :
       /\ phase[w] = "unopened" => place[w] = "unread" /\ channel[w] = <<>>
       /\ place[w] = "unread" => passed[w] = 0 /\ (phase[w] = "unopened" \/ StartFailed)
       /\ place[w] = "closed" => phase[w] = "done" \/ givenUp
  /\ consumer \in {"rust", "python"} =>
       (\A w \in Watches : phase[w] = "unopened") \/ (\A w \in Watches : phase[w] # "unopened")

(* The turns.                                                              *)
TurnInv ==
  consumer # "cli" =>
    \A w \in Watches :
      /\ passed[w] <= Count - 1
      /\ place[w] = "reading" /\ channel[w] = <<>> => passed[w] = 0
      /\ HasItem(w) => passed[w] + Offset(w) <= Count - 1

(* The C interface.                                                        *)
CStages == {"unspawned", "start", "loop", "callback", "errorCallback", "closing", "ended"}
CTypes ==
  /\ cTask \in CStages /\ stopFlag \in BOOLEAN /\ permit \in BOOLEAN /\ slot \in BOOLEAN
  /\ failures \subseteq Watches
  /\ waiter \in [Waiters -> {"idle", "locking", "joining", "returned"}]

Said == IF cTask = "closing" THEN {reason} ELSE {ends[i] : i \in DOMAIN ends}

EndsOnce ==
  /\ cTask # "ended" => ends = <<>>
  /\ cTask = "ended" => \E outcome : ends = <<outcome>>

ReadsUntilClosed ==
  /\ consumer = "c" /\ cTask \in {"unspawned", "start"} => \A w \in Watches : phase[w] = "unopened"
  /\ cTask \in {"loop", "callback", "errorCallback", "closing"} => \A w \in Watches : place[w] # "unread"
  /\ cTask = "ended" /\ ~StartFailed => \A w \in Watches : place[w] = "closed"

(* A waiter that finds the slot empty finds the task ended.                *)
WaitersWait ==
  /\ \A t \in Waiters : /\ waiter[t] # "idle" => cTask # "unspawned"
                        /\ waiter[t] = "returned" => cTask = "ended"
  /\ ~slot => cTask \in {"unspawned", "ended"}

(* A watch counted as failed has failed, and is not read any more.         *)
FailuresHold ==
  /\ cTask \in {"unspawned", "start"} => failures = {}
  /\ \A w \in failures : w \in Failed /\ place[w] # "reading"
  /\ cTask \in {"callback", "errorCallback"} => reading[1] \in Watches
  /\ cTask = "callback" => reading[1] \notin failures
  /\ cTask = "errorCallback" => reading[1] \in Failed /\ place[reading[1]] # "reading"

ReasonHolds ==
  /\ permit => stopFlag
  /\ "allFailed" \in Said => failures = Watches
  /\ "graceful" \in Said /\ ~stopFlag => failures # Watches

CInv == CTypes /\ EndsOnce /\ ReadsUntilClosed /\ WaitersWait /\ FailuresHold /\ ReasonHolds

(* The Python iterators.                                                   *)
Stages == {"idle", "called", "waking", "locking", "registering", "checking", "polling", "signals",
           "stopping", "closing", "draining", "dropping", "delivering", "returned", "abandoned",
           "undelivered"}
Items == {<<>>} \cup (Watches \X (Nat))
PyTypes ==
  /\ style \in {"sync", "async"} /\ open \in BOOLEAN /\ givenUp \in BOOLEAN /\ signal \in BOOLEAN
  /\ call \in [Calls -> Stages] /\ kind \in [Calls -> {"none", "next", "run", "close", "reaper"}]
  /\ held \in [Calls -> Items] /\ interrupts \in Nat
  /\ handed \in [Watches -> Seq(Nat)] /\ dropped \in SUBSET (Watches \X Nat)

InFlight(w) == ItemsOf(w, Range(held))

(* The mutex keeps the readers and the closer of a stream apart.           *)
CallInv(c) ==
  /\ call[c] \in {"registering", "checking", "polling", "closing", "draining"} => mutex = c
  /\ call[c] = "polling" => open
  /\ call[c] = "draining" => ~open
  /\ call[c] \in {"registering", "checking", "polling", "signals", "stopping", "dropping",
                 "delivering"} => Reads(c)
  /\ held[c] # <<>> => call[c] \in {"signals", "delivering", "undelivered"}

AllClosed == \A w \in Watches : place[w] = "closed"

(* The stream of an iterator is cancelled when it is taken out, and closed *)
(* when the one that took it is done.                                      *)
StreamInv ==
  /\ consumer = "python" /\ open => cancelled = {} /\ ~clientGone
  /\ ~open /\ ~givenUp /\ (\A c \in Calls : call[c] # "draining") => AllClosed
  /\ ~givenUp /\ (\E c \in Calls : kind[c] = "close" /\ call[c] = "returned") => AllClosed

PyInv == PyTypes /\ (\A c \in Calls : CallInv(c)) /\ StreamInv

HandInv == consumer = "python" =>
  /\ \A w \in Watches :
       Range(handed[w]) \cup ItemsOf(w, dropped) \cup InFlight(w) = Range(received[w])
  /\ IsFiniteSet(dropped)
  /\ Cardinality(dropped) + (IF signal THEN 1 ELSE 0) <= interrupts

(* The command line.                                                       *)
CliInv ==
  /\ command \in {"listen", "replay"} /\ exitCode \in Int
  /\ listener \in [Watches -> {"unspawned", "spawned", "reading", "closing", "returned", "joined"}]
  /\ \A w \in Watches :
       /\ consumer = "cli" =>
            /\ listener[w] \in {"unspawned", "spawned"} => phase[w] = "unopened"
            /\ listener[w] \in {"reading", "closing"} => phase[w] # "unopened"
            /\ listener[w] \in {"returned", "joined"} => phase[w] \in {"unopened", "done"}
       /\ w \notin Listeners => listener[w] = "unspawned"
  /\ exitCode \in {0, 1} => \A w \in Listeners : listener[w] = "joined"

Inv == WatchTypes /\ OthersStill /\ OpenInv /\ CInv /\ PyInv /\ CliInv

LEMMA OffsetIs ==
  ASSUME NEW w \in Watches, NEW t \in Watches
  PROVE  (w - t) % Count = IF t <= w THEN w - t ELSE w - t + Count
BY ManyWatchesAssumption DEF Watches

LEMMA AfterIs ==
  ASSUME NEW w \in Watches
  PROVE  AfterTurn(w) = IF w = Count THEN 1 ELSE w + 1
BY ManyWatchesAssumption DEF Watches, AfterTurn

-----------------------------------------------------------------------------
(* How the watches move, whoever reads them.                               *)

Supervised(w) == SendsItem(w) \/ SendsError(w) \/ EndsItself(w) \/ SeesCancel(w) \/ Finishes(w)

(* What a poll that yields leaves, and what ListenerFails does to the      *)
(* watch.                                                                  *)
Polled(w)   == PollItem(w, "stop") \/ PollItem(w, "continue")
FailsOne(w) ==
  /\ HasItem(w) /\ Head(channel[w]) = Failure
  /\ Receive(w)
  /\ cancelled' = cancelled \cup {w}
  /\ place' = [place EXCEPT ![w] = "stopped"]
  /\ UNCHANGED <<phase, sent, clientGone, turn>>

ClientGoes == clientGone' = TRUE /\ UNCHANGED <<taskVars, streamVars>>

OpensAll ==
  /\ Open(Watches)
  /\ \/ consumer \in {"rust", "python"} /\ Opened = {}
     \/ consumer = "c" /\ cTask = "start"

InVain ==
  /\ consumer = "c" /\ cTask = "start" /\ Deliver("startError")
  /\ \E ws \in SUBSET Watches : OpenedInVain(ws)

OpensOne(w) ==
  /\ consumer = "cli" /\ listener[w] = "spawned" /\ MovesTo(w, "reading")
  /\ Open({w})

ReadAlone(w) ==
  /\ consumer = "cli" /\ listener[w] = "reading"
  /\ RecvItem(w) \/ CancelOne(w) \/ FailsOne(w)

WatchMove ==
  \/ UNCHANGED watchVars
  \/ \E w \in Watches : Supervised(w) \/ CloseWaits(w) \/ OpensOne(w) \/ ReadAlone(w)
  \/ consumer # "cli" /\ \E w \in Watches : Polled(w)
  \/ consumer = "python" /\ givenUp' /\ DropAll
  \/ OpensAll \/ InVain \/ PollNothing \/ CloseBegins \/ ClientGoes

LEMMA RustMoves == Rust => WatchMove
BY DEF Rust, MultiNext, WatchMove, Polled, PollNothing, PollEnd

LEMMA CMoves == C => WatchMove
<1> SUFFICES ASSUME C PROVE WatchMove
  OBVIOUS
<1>1. CASE CStartFails
  <2>1. \A k \in 0 .. Count - 1 : 1 .. k \in SUBSET Watches
    BY ManyWatchesAssumption DEF Watches
  <2> QED
    BY <1>1, <2>1 DEF CStartFails, WatchMove, C, InVain
<1>2. CASE COpens
  BY <1>2 DEF COpens, WatchMove, C, OpensAll
<1>3. CASE CTask /\ ~CStartFails /\ ~COpens
  BY <1>3 DEF CTask, CSeesStop, CReads, CPending, CStreamEnds, CallbackReturns, CallbackStops,
              CCloses, CEnds, WatchMove, Polled, PollPending, PollEnd, C
<1>4. CASE CCallers \/ CWaits
  BY <1>4 DEF CCallers, CWaits, CStart, CStop, CFree, WaitCalled, WaitLocks, WaitReturns, Waiting,
              WatchMove
<1> QED
  BY <1>1, <1>2, <1>3, <1>4 DEF C, CNext

LEMMA PythonMoves == Python => WatchMove
<1> SUFFICES ASSUME Python PROVE WatchMove
  OBVIOUS
<1>1. CASE PyCallers
  BY <1>1 DEF PyCallers, Call, Abandoned, DeliveryLost, Stays, LastCloneGoes, Signals, WatchMove, ClientGoes, Python
<1>2. ASSUME NEW c \in Calls, PyCall(c) PROVE WatchMove
  BY <1>2 DEF PyCall, Enters, FindsClosed, SetsFlag, Wakes, Locks, Registers, Checks, IsWoken,
              Polls, PollsPending, PollsEnd, TimesOut, TimeoutLeaves, Interrupted, Returns,
              TakesStream, Drains, CloseReturns, ClosesOnDrop, WatchMove, Polled, PollPending, PollEnd, Python
<1> QED
  BY <1>1, <1>2 DEF Python, PyNext

LEMMA CliMoves == Cli => WatchMove
<1> SUFFICES ASSUME Cli PROVE WatchMove
  OBVIOUS
<1>1. CASE CannotInstall \/ Sigint \/ Tells \/ WindowPasses \/ Exit
  BY <1>1 DEF CannotInstall, Sigint, Tells, WindowPasses, Exit, WatchMove
<1>2. ASSUME NEW w \in Watches, CliTasks(w) PROVE WatchMove
  <2>1. CASE ListenerOpens(w)
    BY <2>1 DEF ListenerOpens, WatchMove, OpensOne, Cli
  <2>2. CASE CliTasks(w) /\ ~ListenerOpens(w)
    BY <2>2 DEF CliTasks, Spawn, Refuses, Join, ListenerSkips, ListenerCancelled, StatusFails,
                ListenerReads, ListenerFails, ListenerEnds, ListenerCloses, WatchMove, FailsOne, ReadAlone, Cli
  <2> QED
    BY <1>2, <2>1, <2>2
<1> QED
  BY <1>1, <1>2 DEF Cli, CliNext

LEMMA NextMoves == [Next]_vars => WatchMove
<1> SUFFICES ASSUME [Next]_vars PROVE WatchMove
  OBVIOUS
<1>1. CASE Opens
  BY <1>1 DEF Opens, WatchMove, OpensAll
<1>2. ASSUME NEW w \in Watches, SupervisorEnds(w) \/ SupervisorSends(w) PROVE WatchMove
  BY <1>2 DEF SupervisorEnds, SupervisorSends, Supervised, WatchMove
<1>3. CASE UNCHANGED vars
  BY <1>3 DEF vars, WatchMove
<1> QED
  BY <1>1, <1>2, <1>3, RustMoves, CMoves, PythonMoves, CliMoves DEF Next

-----------------------------------------------------------------------------
(* The types of the watches.                                               *)

(* A supervisor moves its own watch on, and fills its channel when that is *)
(* empty.                                                                  *)
Supervises(w, at, items) ==
  /\ phase[w] \in {"running", "flushing"} /\ at \in {"running", "flushing", "done"}
  /\ items \in Seq(Nat) /\ (items = channel[w] \/ channel[w] = <<>>)
  /\ phase' = [phase EXCEPT ![w] = at] /\ channel' = [channel EXCEPT ![w] = items]
  /\ sent' \in [Watches -> Nat]
  /\ UNCHANGED <<streamVars, clientGone>>

LEMMA SupervisedEffect ==
  ASSUME WatchTypes, NEW w \in Watches, Supervised(w)
  PROVE  \E at, items : Supervises(w, at, items)
<1> USE DEF WatchTypes
<1>1. CASE SendsItem(w)
  <2>1. channel[w] = <<>> /\ sent[w] + 1 \in Nat /\ phase' = phase /\ phase[w] = "running"
    BY <1>1 DEF SendsItem, HasSlot
  <2>2. Supervises(w, "running", Append(<<>>, sent[w] + 1))
    BY <1>1, <2>1 DEF SendsItem, Supervises
  <2> QED
    BY <2>2
<1>2. CASE SendsError(w)
  <2>1. channel[w] = <<>>
    BY <1>2 DEF SendsError, HasSlot
  <2>2. Supervises(w, "flushing", Append(<<>>, 0))
    BY <1>2, <2>1 DEF SendsError, Supervises, Failure
  <2> QED
    BY <2>2
<1>3. CASE EndsItself(w) \/ SeesCancel(w)
  <2>1. Supervises(w, "flushing", channel[w])
    BY <1>3 DEF EndsItself, SeesCancel, Supervises
  <2> QED
    BY <2>1
<1>4. CASE Finishes(w)
  <2>1. Supervises(w, "done", channel[w])
    BY <1>4 DEF Finishes, Supervises
  <2> QED
    BY <2>1
<1> QED
  BY <1>1, <1>2, <1>3, <1>4 DEF Supervised

LEMMA AfterType == ASSUME NEW w \in Watches PROVE AfterTurn(w) \in Watches
BY AfterIs, ManyWatchesAssumption DEF Watches

LEMMA ReceiveTypes ==
  ASSUME WatchTypes, NEW w \in Watches, HasItem(w), Receive(w)
  PROVE  /\ Head(channel[w]) \in Nat
         /\ received' \in [Watches -> Seq(Nat)] /\ channel' \in [Watches -> Seq(Nat)]
         /\ passed' \in [Watches -> Nat]
<1>1. channel[w] \in Seq(Nat) /\ channel[w] # <<>> /\ received[w] \in Seq(Nat)
  BY DEF WatchTypes, HasItem
<1>2. Head(channel[w]) \in Nat /\ Tail(channel[w]) \in Seq(Nat)
  BY <1>1
<1>3. Append(received[w], Head(channel[w])) \in Seq(Nat)
  BY <1>1, <1>2
<1>4. received' \in [Watches -> Seq(Nat)]
  BY <1>3 DEF WatchTypes, Receive
<1>5. channel' \in [Watches -> Seq(Nat)]
  BY <1>2 DEF WatchTypes, Receive
<1>6. passed' \in [Watches -> Nat]
  BY DEF WatchTypes, Receive
<1> QED
  BY <1>2, <1>4, <1>5, <1>6

LEMMA WatchTypesStep == WatchTypes /\ [Next]_vars => WatchTypes'
<1> SUFFICES ASSUME WatchTypes, WatchMove PROVE WatchTypes'
  BY NextMoves
<1>1. CASE UNCHANGED watchVars
  BY <1>1 DEF WatchTypes, watchVars, taskVars, streamVars
<1>2. ASSUME NEW w \in Watches, Supervised(w) PROVE WatchTypes'
  <2>1. PICK at, items : Supervises(w, at, items)
    BY <1>2, SupervisedEffect
  <2> QED
    BY <2>1 DEF Supervises, WatchTypes, Phases, streamVars
<1>3. ASSUME NEW w \in Watches, Polled(w) PROVE WatchTypes'
  <2>1. HasItem(w) /\ Receive(w) /\ turn' = AfterTurn(w) /\ UNCHANGED <<phase, sent, clientGone>>
    BY <1>3 DEF Polled, PollItem, IsNext
  <2>2. place' \in [Watches -> PlacesOf] /\ cancelled' \subseteq Watches
    BY <1>3 DEF Polled, PollItem, KeepsFailed, WatchTypes, PlacesOf
  <2> QED
    BY <2>1, <2>2, ReceiveTypes, AfterType DEF WatchTypes
<1>4. ASSUME NEW w \in Watches, CloseWaits(w) \/ CancelOne(w) PROVE WatchTypes'
  BY <1>4 DEF CloseWaits, CancelOne, WatchTypes, taskVars, PlacesOf
<1>5. ASSUME NEW w \in Watches, RecvItem(w) \/ FailsOne(w) PROVE WatchTypes'
  <2>1. HasItem(w) /\ Receive(w)
    BY <1>5 DEF RecvItem, FailsOne
  <2> QED
    BY <1>5, <2>1, ReceiveTypes DEF RecvItem, FailsOne, WatchTypes, PlacesOf
<1>6. ASSUME NEW ws \in SUBSET Watches, Open(ws) \/ OpenedInVain(ws) PROVE WatchTypes'
  BY <1>6 DEF Open, OpenedInVain, WatchTypes, Phases, PlacesOf
<1>7. CASE PollNothing \/ CloseBegins \/ DropAll \/ ClientGoes
  BY <1>7 DEF PollNothing, CloseBegins, DropAll, ClientGoes, WatchTypes, taskVars, streamVars, PlacesOf
<1> QED
  BY <1>1, <1>2, <1>3, <1>4, <1>5, <1>6, <1>7 DEF WatchMove, OpensAll, OpensOne, InVain, ReadAlone

LEMMA StillStep == OthersStill /\ [Next]_vars => OthersStill'
<1> SUFFICES ASSUME OthersStill, [Next]_vars PROVE OthersStill'
  OBVIOUS
<1>1. consumer' = consumer
  BY DEF Next, vars
<1>2. consumer # "c" => UNCHANGED cVars
  BY DEF Next, vars, Opens, Rust, C, Python, Cli, SupervisorEnds, SupervisorSends
<1>3. consumer # "python" => UNCHANGED pyVars
  BY DEF Next, vars, Opens, Rust, C, Python, Cli, SupervisorEnds, SupervisorSends
<1>4. consumer # "cli" => UNCHANGED cliVars
  BY DEF Next, vars, Opens, Rust, C, Python, Cli, SupervisorEnds, SupervisorSends
<1>5. consumer # "c" => CInit'
  BY <1>2 DEF OthersStill, CInit, cVars
<1>6. consumer # "python" => PyInit'
  BY <1>3 DEF OthersStill, PyInit, pyVars, notifyVars, mutexVars, pyHistory
<1>7. consumer # "cli" => CliInit'
  BY <1>4 DEF OthersStill, CliInit, cliVars
<1> QED
  BY <1>1, <1>5, <1>6, <1>7 DEF OthersStill

-----------------------------------------------------------------------------
(* Opening and closing.                                                    *)

(* A poll that yields takes the item of the watch whose turn it is, and no *)
(* place is read that was not read before.                                 *)
LEMMA PolledEffect ==
  ASSUME WatchTypes, NEW w \in Watches, Polled(w)
  PROVE  /\ IsNext(w) /\ HasItem(w) /\ Receive(w) /\ turn' = AfterTurn(w)
         /\ \A v \in Watches : \/ place'[v] = place[v]
                               \/ place[v] = "reading" /\ place'[v] = "stopped"
         /\ UNCHANGED <<phase, sent, clientGone>>
BY DEF Polled, PollItem, IsNext, HasItem, HasEnded, KeepsFailed, WatchTypes, PlacesOf

(* What is said at the end, and that a close was given up, stays true.     *)
LEMMA HistoryKept ==
  ASSUME CInv, PyInv, [Next]_vars
  PROVE  (StartFailed => StartFailed') /\ (givenUp => givenUp')
<1>1. ASSUME givenUp PROVE givenUp'
  <2>1. CASE UNCHANGED pyVars
    BY <1>1, <2>1 DEF pyVars, pyHistory
  <2>2. CASE PyCallers
    BY <1>1, <2>2 DEF PyCallers, Call, Abandoned, DeliveryLost, LastCloneGoes, Signals, pyVars, pyHistory
  <2>3. ASSUME NEW c \in Calls, Polls(c) PROVE givenUp'
    <3>1. style \in {"sync", "async"} /\ kind[c] \in {"next", "run"}
      BY <2>3 DEF PyInv, PyTypes, CallInv, Polls, Reads
    <3> QED
      BY <1>1, <2>3, <3>1 DEF Polls, pyHistory
  <2>4. ASSUME NEW c \in Calls, PyCall(c), ~Polls(c) PROVE givenUp' = givenUp
    BY <2>4
       DEF pyVars, pyHistory, PyCall, Enters, FindsClosed, SetsFlag, Wakes, Locks, Registers,
           Checks, IsWoken, PollsPending, PollsEnd, TimesOut, Interrupted, Returns, TakesStream,
           Drains, CloseReturns, ClosesOnDrop
  <2> QED
    BY <1>1, <2>1, <2>2, <2>3, <2>4
       DEF Next, vars, Opens, Rust, C, Python, PyNext, Cli, SupervisorEnds, SupervisorSends
<1>2. ASSUME StartFailed PROVE StartFailed'
  <2>1. ends # <<>> /\ cTask = "ended"
    BY <1>2 DEF StartFailed, CInv, EndsOnce
  <2>2. ends' = ends
    <3>1. CASE UNCHANGED cVars
      BY <3>1 DEF cVars
    <3>2. CASE C
      BY <2>1, <3>2
         DEF C, CNext, CTask, CStartFails, COpens, CSeesStop, CReads, CPending, CStreamEnds,
             CallbackReturns, CallbackStops, CCloses, CEnds, CCallers, CStart, CStop, CFree,
             WaitCalled, CWaits, WaitLocks, WaitReturns, Waiting, cVars
    <3> QED
      BY <3>1, <3>2 DEF Next, vars, Opens, Rust, Python, Cli, SupervisorEnds, SupervisorSends
  <2> QED
    BY <1>2, <2>2 DEF StartFailed
<1> QED
  BY <1>1, <1>2

LEMMA ConsumerStays == [Next]_vars => consumer' = consumer
BY DEF Next, vars

(* A watch is opened once, all of them together but on the command line.   *)
LEMMA OpenedAtOnce ==
  ASSUME Inv, OpensAll
  PROVE  /\ consumer # "cli"
         /\ \A w \in Watches : phase[w] = "unopened" /\ place[w] = "unread" /\ channel[w] = <<>>
                               /\ passed[w] = 0
         /\ \A w \in Watches : phase'[w] = "running" /\ place'[w] = "reading"
         /\ UNCHANGED <<channel, sent, cancelled, clientGone, turn, received, passed>>
<1>1. \A w \in Watches : phase[w] = "unopened"
  BY DEF OpensAll, Opened, Inv, CInv, ReadsUntilClosed
<1> QED
  BY <1>1 DEF OpensAll, Open, Inv, OpenInv

LEMMA OpenStep == Inv /\ [Next]_vars => OpenInv'
<1> SUFFICES ASSUME Inv, [Next]_vars PROVE OpenInv'
  OBVIOUS
<1> USE DEF Inv
<1>0. /\ StartFailed => StartFailed'
      /\ givenUp => givenUp'
      /\ consumer' = consumer
  BY HistoryKept, ConsumerStays
<1>1. CASE UNCHANGED watchVars
  BY <1>0, <1>1 DEF OpenInv, watchVars, taskVars, streamVars
<1>2. ASSUME NEW w \in Watches, Supervised(w) PROVE OpenInv'
  <2>1. PICK at, items : Supervises(w, at, items)
    BY <1>2, SupervisedEffect
  <2> QED
    BY <1>0, <2>1 DEF Supervises, streamVars, OpenInv, WatchTypes
<1>3. ASSUME NEW w \in Watches, Polled(w), consumer # "cli" PROVE OpenInv'
  <2>1. \A v \in Watches : /\ place'[v] = "closed" => place[v] = "closed"
                           /\ place'[v] = "unread" <=> place[v] = "unread"
    BY <1>3, PolledEffect
  <2>2. /\ \A v \in Watches : v # w => channel'[v] = channel[v]
        /\ \A v \in Watches : place[v] = "unread" => passed'[v] = 0
        /\ place[w] = "reading" /\ phase' = phase
    BY <1>3, PolledEffect DEF Receive, HasItem, WatchTypes
  <2> QED
    BY <1>0, <2>1, <2>2 DEF OpenInv
<1>4. ASSUME NEW w \in Watches, CloseWaits(w) PROVE OpenInv'
  BY <1>0, <1>4 DEF CloseWaits, taskVars, OpenInv, WatchTypes
<1>5. ASSUME NEW w \in Watches, OpensOne(w) PROVE OpenInv'
  <2>1. phase[w] = "unopened"
    BY <1>5 DEF OpensOne, CliInv
  <2> QED
    BY <1>0, <1>5, <2>1 DEF OpensOne, Open, OpenInv, WatchTypes
<1>6. ASSUME NEW w \in Watches, ReadAlone(w) PROVE OpenInv'
  <2>1. phase[w] # "unopened" /\ consumer = "cli"
    BY <1>6 DEF ReadAlone, CliInv
  <2>2. CASE RecvItem(w) \/ FailsOne(w)
    <3>1. /\ phase' = phase /\ \A v \in Watches : v # w => channel'[v] = channel[v]
          /\ \A v \in Watches : place'[v] = place[v] \/ (v = w /\ place'[v] = "stopped")
          /\ \A v \in Watches : place[v] = "unread" => passed'[v] = 0
      BY <2>2 DEF RecvItem, FailsOne, Receive, HasItem, WatchTypes
    <3> QED
      BY <1>0, <2>1, <3>1 DEF OpenInv
  <2>3. CASE CancelOne(w)
    BY <1>0, <2>1, <2>3 DEF CancelOne, taskVars, OpenInv, WatchTypes
  <2> QED
    BY <1>6, <2>2, <2>3 DEF ReadAlone
<1>7. CASE consumer = "python" /\ givenUp' /\ DropAll
  BY <1>0, <1>7 DEF DropAll, taskVars, OpenInv, WatchTypes
<1>8. CASE OpensAll
  BY <1>0, <1>8, OpenedAtOnce DEF OpenInv
<1>9. CASE InVain
  <2>1. StartFailed'
    BY <1>9 DEF InVain, Deliver, CInv, EndsOnce, StartFailed
  <2>2. /\ consumer = "c" /\ UNCHANGED <<channel, place, passed>>
        /\ \A w \in Watches : /\ phase'[w] = phase[w] \/ phase'[w] = "running"
                              /\ phase[w] = "unopened"
    BY <1>9 DEF InVain, OpenedInVain, WatchTypes, CInv, ReadsUntilClosed
  <2> QED
    BY <1>0, <2>1, <2>2 DEF OpenInv
<1>10. CASE PollNothing \/ CloseBegins
  <2>1. /\ UNCHANGED <<phase, channel, passed>>
        /\ \A v \in Watches : place'[v] = place[v] \/ (place[v] = "reading" /\ place'[v] = "stopped")
    BY <1>10 DEF PollNothing, CloseBegins, taskVars, HasEnded, WatchTypes
  <2> QED
    BY <1>0, <2>1 DEF OpenInv
<1>11. CASE ClientGoes
  BY <1>0, <1>11 DEF ClientGoes, taskVars, streamVars, OpenInv
<1> QED
  BY <1>1, <1>2, <1>3, <1>4, <1>5, <1>6, <1>7, <1>8, <1>9, <1>10, <1>11, NextMoves DEF WatchMove

-----------------------------------------------------------------------------
(* Turns.  While an item waits, each receipt of another watch brings its   *)
(* own watch nearer to its turn.                                           *)

LEMMA OffsetRange ==
  ASSUME NEW w \in Watches, NEW t \in Watches
  PROVE  (w - t) % Count \in 0 .. Count - 1
BY OffsetIs, ManyWatchesAssumption DEF Watches

LEMMA OffsetFalls ==
  ASSUME NEW v \in Watches, NEW w \in Watches, NEW t \in Watches,
         v # w, (w - t) % Count <= (v - t) % Count
  PROVE  /\ (v - t) % Count > 0
         /\ (v - AfterTurn(w)) % Count <= ((v - t) % Count) - 1
<1>1. AfterTurn(w) \in Watches
  BY AfterType
<1>2. /\ (w - t) % Count = IF t <= w THEN w - t ELSE w - t + Count
      /\ (v - t) % Count = IF t <= v THEN v - t ELSE v - t + Count
  BY OffsetIs
<1>3. (v - AfterTurn(w)) % Count = IF AfterTurn(w) <= v THEN v - AfterTurn(w) ELSE v - AfterTurn(w) + Count
  BY <1>1, OffsetIs
<1>4. AfterTurn(w) = IF w = Count THEN 1 ELSE w + 1
  BY AfterIs
<1>5. v \in 1 .. Count /\ w \in 1 .. Count /\ t \in 1 .. Count /\ Count \in Nat
  BY ManyWatchesAssumption DEF Watches
<1> HIDE DEF AfterTurn
<1> QED
  BY <1>2, <1>3, <1>4, <1>5

LEMMA TurnStep == Inv /\ TurnInv /\ [Next]_vars => TurnInv'
<1> SUFFICES ASSUME Inv, TurnInv, [Next]_vars, consumer # "cli" PROVE TurnInv'
  BY ConsumerStays DEF TurnInv
<1>0. WatchTypes /\ consumer' = consumer /\ (\A v \in Watches : passed[v] \in Nat) /\ turn \in Watches
  BY ConsumerStays DEF Inv, WatchTypes
<1>a. Count \in Nat \ {0}
  BY ManyWatchesAssumption
<1>1. CASE UNCHANGED watchVars
  BY <1>1 DEF TurnInv, HasItem, Offset, watchVars, taskVars, streamVars
<1>2. ASSUME NEW w \in Watches, Supervised(w) PROVE TurnInv'
  <2>1. PICK at, items : Supervises(w, at, items)
    BY <1>0, <1>2, SupervisedEffect
  <2>2. /\ UNCHANGED <<place, passed, turn>>
        /\ \A v \in Watches : channel'[v] = channel[v] \/ channel[v] = <<>>
    BY <1>0, <2>1 DEF Supervises, streamVars, WatchTypes
  <2>3. \A v \in Watches : Offset(v)' = Offset(v) /\ Offset(v) \in 0 .. Count - 1
    BY <1>0, <2>2, OffsetRange DEF Offset
  <2>4. ASSUME NEW v \in Watches, HasItem(v)' PROVE passed[v] + Offset(v) <= Count - 1
    <3>1. place[v] = "reading" /\ (HasItem(v) \/ channel[v] = <<>>)
      BY <2>2, <2>4 DEF HasItem
    <3> QED
      BY <1>0, <1>a, <2>3, <3>1 DEF TurnInv
  <2> QED
    BY <2>2, <2>3, <2>4 DEF TurnInv
<1>3. ASSUME NEW w \in Watches, Polled(w) PROVE TurnInv'
  <2>1. /\ turn' = AfterTurn(w) /\ HasItem(w)
        /\ passed' = [v \in Watches |-> IF v # w /\ HasItem(v) THEN passed[v] + 1 ELSE 0]
        /\ \A v \in Watches : v # w => channel'[v] = channel[v]
        /\ \A v \in Watches : place'[v] = "reading" => place[v] = "reading"
        /\ \A v \in Watches : HasItem(v) => Offset(w) <= Offset(v)
    BY <1>0, <1>3, PolledEffect DEF Receive, IsNext, WatchTypes
  <2>2. \A v \in Watches : Offset(v)' = (v - AfterTurn(w)) % Count /\ Offset(v)' \in 0 .. Count - 1
    BY <1>0, <2>1, AfterType, OffsetRange DEF Offset
  <2>3. ASSUME NEW v \in Watches, v # w, HasItem(v)
        PROVE  passed[v] + 1 <= Count - 1 /\ passed[v] + 1 + Offset(v)' <= Count - 1
    <3>1. Offset(v) > 0 /\ Offset(v)' <= Offset(v) - 1
      BY <1>0, <2>1, <2>2, <2>3, OffsetFalls DEF Offset
    <3>2. Offset(v) \in 0 .. Count - 1
      BY <1>0, OffsetRange DEF Offset
    <3> QED
      BY <1>0, <1>a, <2>2, <2>3, <3>1, <3>2 DEF TurnInv
  <2>4. ASSUME NEW v \in Watches
        PROVE  /\ passed'[v] <= Count - 1
               /\ place'[v] = "reading" /\ channel'[v] = <<>> => passed'[v] = 0
               /\ HasItem(v)' => passed'[v] + Offset(v)' <= Count - 1
    <3>1. CASE v # w /\ HasItem(v)
      BY <2>1, <2>3, <3>1 DEF HasItem
    <3>2. CASE ~(v # w /\ HasItem(v))
      BY <1>a, <2>1, <2>2, <3>2
    <3> QED
      BY <3>1, <3>2
  <2> QED
    BY <2>4 DEF TurnInv
<1>4. CASE \/ \E w \in Watches : CloseWaits(w)
           \/ DropAll \/ PollNothing \/ CloseBegins \/ ClientGoes \/ InVain
  <2>1. /\ UNCHANGED <<channel, passed, turn>>
        /\ \A v \in Watches : place'[v] = "reading" => place[v] = "reading"
    BY <1>0, <1>4 DEF CloseWaits, DropAll, PollNothing, CloseBegins, ClientGoes, InVain, OpenedInVain,
                      taskVars, streamVars, WatchTypes
  <2>2. \A v \in Watches : Offset(v)' = Offset(v) /\ (HasItem(v)' => HasItem(v))
    BY <2>1 DEF Offset, HasItem
  <2> QED
    BY <2>1, <2>2 DEF TurnInv
<1>5. CASE OpensAll
  <2>1. UNCHANGED <<channel, passed>> /\ \A v \in Watches : passed[v] = 0 /\ channel[v] = <<>>
    BY <1>5, OpenedAtOnce
  <2> QED
    BY <1>0, <1>a, <2>1 DEF TurnInv, HasItem
<1> QED
  BY <1>1, <1>2, <1>3, <1>4, <1>5, NextMoves DEF WatchMove, OpensOne, ReadAlone

-----------------------------------------------------------------------------
(* The C interface.                                                        *)

(* Places only move on, and what is not read is not received.              *)
ReadsOn ==
  \A v \in Watches :
    /\ place[v] # "unread" => place'[v] # "unread"
    /\ place[v] = "closed" => place'[v] = "closed"
    /\ place[v] # "reading" => place'[v] # "reading" /\ received'[v] = received[v]

(* A step of the task that leaves the handle alone, and one of the handle. *)
Loops == COpens \/ CSeesStop \/ CReads \/ CPending \/ CStreamEnds \/ CallbackReturns \/ CallbackStops \/ CCloses
Ends  == CStartFails \/ CEnds
Called == (\E error \in BOOLEAN : CStart(error)) \/ CStop \/ CFree
Waited(t) == WaitCalled(t) \/ WaitLocks(t) \/ WaitReturns(t)

LEMMA CSteps == C => Loops \/ Ends \/ Called \/ \E t \in Waiters : Waited(t)
BY DEF C, CNext, CTask, CCallers, CWaits, Loops, Ends, Called, Waited

LEMMA CStopped ==
  ASSUME CInv, CSeesStop
  PROVE  stopFlag
BY DEF CInv, ReasonHolds, CSeesStop

LEMMA CTypesStep ==
  ASSUME Inv, C
  PROVE  CTypes'
<1> USE DEF CTypes, CStages
<1>0. CTypes /\ FailuresHold /\ WatchTypes
  BY DEF Inv, CInv
<1>1. CASE Ends
  BY <1>0, <1>1 DEF Ends, CStartFails, CEnds, Deliver, loopVars, handleVars
<1>2. CASE CallbackReturns
  BY <1>0, <1>2 DEF CallbackReturns, FailuresHold, loopVars, handleVars
<1>3. CASE Loops /\ ~CallbackReturns
  BY <1>0, <1>3 DEF Loops, COpens, CSeesStop, CReads, CPending, CStreamEnds, CallbackStops, CCloses,
              Leave, loopVars, handleVars, cVars
<1>4. CASE Called
  BY <1>0, <1>4 DEF Called, CStart, CStop, CFree, handleVars
<1>5. ASSUME NEW t \in Waiters, Waited(t) PROVE CTypes'
  BY <1>0, <1>5 DEF Waited, WaitCalled, WaitLocks, WaitReturns, Waiting, SlotAfterLock, loopVars
<1> QED
  BY <1>1, <1>2, <1>3, <1>4, <1>5, CSteps

LEMMA EndsOnceStep ==
  ASSUME Inv, C
  PROVE  EndsOnce'
<1> USE DEF EndsOnce
<1>0. EndsOnce
  BY DEF Inv, CInv
<1>1. CASE Ends
  <2>1. PICK outcome : ends' = Append(<<>>, outcome) /\ cTask' = "ended"
    BY <1>0, <1>1 DEF Ends, CStartFails, CEnds, Deliver
  <2>2. ends' = <<outcome>>
    BY <2>1
  <2> QED
    BY <2>1, <2>2
<1>2. CASE Loops
  BY <1>0, <1>2 DEF Loops, COpens, CSeesStop, CReads, CPending, CStreamEnds, CallbackReturns,
                    CallbackStops, CCloses, Leave, cVars
<1>3. CASE Called
  BY <1>0, <1>3 DEF Called, CStart, CStop, CFree
<1>4. ASSUME NEW t \in Waiters, Waited(t) PROVE EndsOnce'
  BY <1>0, <1>4 DEF Waited, WaitCalled, WaitLocks, WaitReturns, Waiting
<1> QED
  BY <1>1, <1>2, <1>3, <1>4, CSteps

LEMMA WaitersStep ==
  ASSUME Inv, C
  PROVE  WaitersWait'
<1> USE DEF WaitersWait
<1>0. WaitersWait /\ CTypes
  BY DEF Inv, CInv
<1>1. CASE Ends
  BY <1>0, <1>1 DEF Ends, CStartFails, CEnds, Deliver, handleVars
<1>2. CASE Loops
  BY <1>0, <1>2 DEF Loops, COpens, CSeesStop, CReads, CPending, CStreamEnds, CallbackReturns,
                    CallbackStops, CCloses, Leave, handleVars, cVars
<1>3. CASE Called
  BY <1>0, <1>3 DEF Called, CStart, CStop, CFree, handleVars
<1>4. ASSUME NEW t \in Waiters, WaitCalled(t) PROVE WaitersWait'
  BY <1>0, <1>4 DEF WaitCalled, Waiting, CTypes
<1>5. ASSUME NEW t \in Waiters, WaitLocks(t) PROVE WaitersWait'
  <2>1. waiter[t] = "locking" /\ cTask' = cTask
    BY <1>5 DEF WaitLocks, Waiting
  <2> QED
    BY <1>0, <1>5, <2>1 DEF WaitLocks, Waiting, SlotAfterLock, CTypes
<1>6. ASSUME NEW t \in Waiters, WaitReturns(t) PROVE WaitersWait'
  BY <1>0, <1>6 DEF WaitReturns, Waiting, CTypes
<1> QED
  BY <1>1, <1>2, <1>3, <1>4, <1>5, <1>6, CSteps DEF Waited

LEMMA CReadsOn ==
  ASSUME Inv, C, ~COpens
  PROVE  ReadsOn
<1> USE DEF ReadsOn
<1>0. WatchTypes /\ ReadsUntilClosed /\ OpenInv
  BY DEF Inv, CInv
<1>1. CASE UNCHANGED watchVars
  BY <1>1 DEF watchVars, taskVars, streamVars
<1>2. CASE CStartFails
  BY <1>0, <1>1, <1>2 DEF CStartFails, OpenedInVain
<1>3. CASE CloseBegins \/ PollNothing
  BY <1>0, <1>3 DEF CloseBegins, PollNothing, HasEnded, WatchTypes
<1>4. ASSUME NEW w \in Watches, CloseWaits(w) PROVE ReadsOn
  BY <1>0, <1>4 DEF CloseWaits, WatchTypes
<1>5. ASSUME NEW w \in Watches, PollItem(w, "continue") PROVE ReadsOn
  <2>1. HasItem(w) /\ \A v \in Watches : v # w => received'[v] = received[v]
    BY <1>0, <1>5, PolledEffect DEF Polled, Receive, WatchTypes
  <2> QED
    BY <1>0, <1>5, <2>1, PolledEffect DEF Polled, HasItem
<1>6. CASE Loops
  BY <1>1, <1>3, <1>4, <1>5, <1>6
     DEF Loops, CSeesStop, CReads, CPending, CStreamEnds, CallbackReturns, CallbackStops, CCloses,
         PollPending, PollEnd
<1>7. CASE CEnds \/ Called \/ \E t \in Waiters : Waited(t)
  BY <1>1, <1>7 DEF CEnds, Called, CStart, CStop, CFree, Waited, WaitCalled, WaitLocks, WaitReturns, Waiting
<1> QED
  BY <1>2, <1>6, <1>7, CSteps DEF Ends

LEMMA ReadsUntilClosedStep ==
  ASSUME Inv, C
  PROVE  ReadsUntilClosed'
<1>0. WatchTypes /\ ReadsUntilClosed /\ EndsOnce
  BY DEF Inv, CInv
<1>1. CASE COpens
  <2>1. cTask' = "loop" /\ \A w \in Watches : place'[w] = "reading"
    BY <1>1 DEF COpens, Open
  <2> QED
    BY <2>1 DEF ReadsUntilClosed
<1>2. CASE CStartFails
  <2>1. cTask' = "ended" /\ StartFailed'
    BY <1>0, <1>2 DEF CStartFails, Deliver, EndsOnce, StartFailed
  <2> QED
    BY <2>1 DEF ReadsUntilClosed
<1>3. CASE CEnds
  <2>1. /\ cTask = "closing" /\ cTask' = "ended" /\ place' = place
        /\ \A w \in Watches : place[w] \in {"unread", "closed"}
    BY <1>3 DEF CEnds, Deliver, CloseDone, watchVars, streamVars
  <2> QED
    BY <1>0, <2>1 DEF ReadsUntilClosed
<1>4. CASE Loops /\ ~COpens
  <2>1. ReadsOn
    BY <1>4, CReadsOn DEF Loops, COpens
  <2>2. /\ cTask \in {"loop", "callback", "errorCallback", "closing"}
        /\ cTask' \in {"loop", "callback", "errorCallback", "closing"}
    BY <1>4 DEF Loops, CSeesStop, CReads, CPending, CStreamEnds, CallbackReturns,
                CallbackStops, CCloses, Leave, cVars
  <2> QED
    BY <1>0, <2>1, <2>2 DEF ReadsUntilClosed, ReadsOn
<1>5. CASE Called \/ \E t \in Waiters : Waited(t)
  <2>1. /\ UNCHANGED <<place, phase, ends, watchVars>>
        /\ cTask' = cTask \/ (cTask = "unspawned" /\ cTask' = "start")
    BY <1>5 DEF Called, CStart, CStop, CFree, Waited, WaitCalled, WaitLocks, WaitReturns, Waiting,
                watchVars, taskVars, streamVars
  <2>2. StartFailed' = StartFailed
    BY <2>1 DEF StartFailed
  <2> QED
    BY <1>0, <2>1, <2>2 DEF ReadsUntilClosed, C
<1> QED
  BY <1>1, <1>2, <1>3, <1>4, <1>5, CSteps DEF Ends

LEMMA AllCounted ==
  ASSUME NEW S \in SUBSET Watches
  PROVE  Cardinality(S) \in Nat /\ Cardinality(S) <= Count /\ (Cardinality(S) = Count <=> S = Watches)
<1>1. IsFiniteSet(Watches) /\ Cardinality(Watches) = Count
  BY ManyWatchesAssumption, FS_Interval DEF Watches
<1>2. /\ IsFiniteSet(S) /\ Cardinality(S) <= Count
      /\ Cardinality(S) = Count => S = Watches
  BY <1>1, FS_Subset
<1> QED
  BY <1>1, <1>2, FS_CardinalityType

LEMMA FailedStays ==
  ASSUME NEW v \in Watches, v \in Failed, received'[v] = received[v]
  PROVE  v \in Failed'
BY DEF Failed

LEMMA FailuresStep ==
  ASSUME Inv, C
  PROVE  FailuresHold'
<1>0. WatchTypes /\ FailuresHold /\ CTypes
  BY DEF Inv, CInv
<1>1. CASE CReads
  <2>1. PICK w \in Watches :
          /\ PollItem(w, "continue") /\ reading' = <<w, Head(channel[w])>>
          /\ cTask' = IF Head(channel[w]) = Failure THEN "errorCallback" ELSE "callback"
    BY <1>1 DEF CReads
  <2>2. failures' = failures /\ ReadsOn
    BY <1>1, CReadsOn DEF CReads, COpens
  <2>3. \A v \in failures : v \in Failed' /\ place'[v] # "reading"
    BY <1>0, <2>2, FailedStays DEF FailuresHold, ReadsOn, CTypes
  <2>4. reading'[1] = w /\ w \notin failures
    BY <1>0, <2>1, PolledEffect DEF Polled, HasItem, FailuresHold
  <2>5. ASSUME Head(channel[w]) = Failure PROVE w \in Failed' /\ place'[w] # "reading"
    <3>1. received'[w] = Append(received[w], Failure) /\ received[w] \in Seq(Nat)
      BY <1>0, <2>1, <2>5 DEF PollItem, Receive, WatchTypes
    <3>2. received'[w] # <<>> /\ received'[w][Len(received'[w])] = Failure
      BY <3>1
    <3>3. place'[w] = "stopped"
      BY <2>1, <2>5 DEF PollItem, KeepsFailed
    <3> QED
      BY <3>2, <3>3 DEF Failed
  <2> QED
    BY <2>1, <2>2, <2>3, <2>4, <2>5 DEF FailuresHold
<1>2. CASE CallbackReturns
  <2>1. UNCHANGED <<place, received>> /\ cTask' = "loop"
        /\ failures' = IF cTask = "errorCallback" THEN failures \cup {reading[1]} ELSE failures
    BY <1>2 DEF CallbackReturns, watchVars, streamVars
  <2>2. Failed' = Failed
    BY <2>1 DEF Failed
  <2> QED
    BY <1>0, <2>1, <2>2 DEF FailuresHold
<1>3. CASE COpens
  BY <1>0, <1>3 DEF COpens, FailuresHold
<1>4. CASE (Loops /\ ~CReads /\ ~CallbackReturns /\ ~COpens) \/ Ends
  <2>1. failures' = failures /\ cTask' \notin {"callback", "errorCallback", "unspawned", "start"}
    BY <1>4 DEF Loops, CSeesStop, CPending, CStreamEnds, CallbackStops, CCloses, Leave, cVars, Ends,
                CStartFails, CEnds, Deliver
  <2>2. ReadsOn
    BY <1>4, CReadsOn DEF Loops, Ends, CStartFails, CEnds, COpens, Deliver
  <2> QED
    BY <1>0, <2>1, <2>2, FailedStays DEF FailuresHold, ReadsOn, CTypes
<1>5. CASE Called \/ \E t \in Waiters : Waited(t)
  <2>1. /\ UNCHANGED <<place, received, failures, reading>>
        /\ cTask' = cTask \/ (cTask = "unspawned" /\ cTask' = "start")
    BY <1>5 DEF Called, CStart, CStop, CFree, Waited, WaitCalled, WaitLocks, WaitReturns, Waiting,
                watchVars, streamVars
  <2>2. Failed' = Failed
    BY <2>1 DEF Failed
  <2> QED
    BY <1>0, <2>1, <2>2 DEF FailuresHold
<1> QED
  BY <1>1, <1>2, <1>3, <1>4, <1>5, CSteps DEF Loops

LEMMA ReasonStep ==
  ASSUME Inv, C
  PROVE  ReasonHolds'
<1>0. CTypes /\ EndsOnce /\ FailuresHold /\ ReasonHolds /\ EndsOnce'
  BY EndsOnceStep DEF Inv, CInv
<1>1. CASE CSeesStop
  <2>1. Said' = {"graceful"} /\ stopFlag' = stopFlag /\ stopFlag
    BY <1>0, <1>1 DEF CSeesStop, Leave, Said, ReasonHolds
  <2> QED
    BY <2>1 DEF ReasonHolds
<1>2. CASE CStreamEnds
  <2>1. /\ Said' = {IF EveryFailed THEN "allFailed" ELSE "graceful"}
        /\ UNCHANGED <<failures, stopFlag, permit>>
    BY <1>2 DEF CStreamEnds, Leave, Said, loopVars
  <2>2. EveryFailed <=> failures = Watches
    BY <1>0, AllCounted DEF EveryFailed, CTypes
  <2> QED
    BY <1>0, <2>1, <2>2 DEF ReasonHolds
<1>3. CASE CallbackStops
  <2>1. /\ Said' \in {{"stopped"}, {"graceful"}, {"panicked"}}
        /\ Said' = {"graceful"} => cTask = "callback"
        /\ UNCHANGED <<failures, stopFlag, permit>>
    BY <1>3 DEF CallbackStops, Leave, Said, loopVars
  <2>2. cTask = "callback" => failures # Watches
    BY <1>0 DEF FailuresHold
  <2> QED
    BY <1>0, <2>1, <2>2 DEF ReasonHolds
<1>4. CASE Ends
  <2>1. PICK outcome : /\ ends' = <<outcome>> /\ cTask' = "ended"
                       /\ outcome = "startError" \/ (cTask = "closing" /\ outcome = reason)
    <3>1. ends = <<>>
      BY <1>0, <1>4 DEF Ends, CStartFails, CEnds, EndsOnce
    <3>2. CASE CStartFails
      BY <3>1, <3>2 DEF CStartFails, Deliver
    <3>3. CASE CEnds
      BY <3>1, <3>3 DEF CEnds, Deliver
    <3> QED
      BY <1>4, <3>2, <3>3 DEF Ends
  <2>2. Said' = {outcome} /\ UNCHANGED <<failures, stopFlag, permit>>
    BY <1>4, <2>1 DEF Said, Ends, CStartFails, CEnds, loopVars
  <2>3. outcome = "startError" \/ outcome \in Said
    BY <2>1 DEF Said
  <2> QED
    BY <1>0, <2>2, <2>3 DEF ReasonHolds
<1>5. CASE CCloses
  BY <1>0, <1>5 DEF CCloses, cVars, ReasonHolds, Said
<1>6. CASE COpens \/ CReads \/ CPending \/ CallbackReturns
  <2>1. cTask' \in {"loop", "callback", "errorCallback"} /\ UNCHANGED <<stopFlag, permit>>
    BY <1>6 DEF COpens, CReads, CPending, CallbackReturns, loopVars, cVars
  <2>2. Said' = {}
    BY <1>0, <2>1 DEF Said, EndsOnce
  <2> QED
    BY <1>0, <2>1, <2>2 DEF ReasonHolds
<1>7. CASE Called \/ \E t \in Waiters : Waited(t)
  <2>1. /\ UNCHANGED <<failures, reason, ends>>
        /\ cTask' = cTask \/ (cTask = "unspawned" /\ cTask' = "start")
        /\ UNCHANGED <<stopFlag, permit>> \/ stopFlag' = TRUE
    BY <1>7 DEF Called, CStart, CStop, CFree, Waited, WaitCalled, WaitLocks, WaitReturns, Waiting, loopVars
  <2>2. Said' = Said
    BY <2>1 DEF Said
  <2> QED
    BY <1>0, <2>1, <2>2 DEF ReasonHolds
<1> QED
  BY <1>1, <1>2, <1>3, <1>4, <1>5, <1>6, <1>7, CSteps DEF Loops

(* A supervisor that moves disturbs none of it.                            *)
LEMMA CInvStep == Inv /\ [Next]_vars => CInv'
<1> SUFFICES ASSUME Inv, [Next]_vars PROVE CInv'
  OBVIOUS
<1>0. consumer' = consumer /\ OthersStill' /\ CInv /\ WatchTypes
  BY ConsumerStays, StillStep DEF Inv
<1>1. CASE consumer # "c"
  <2>1. CInit'
    BY <1>0, <1>1 DEF OthersStill
  <2>2. Said' = {}
    BY <2>1 DEF CInit, Said
  <2>3. CTypes' /\ EndsOnce' /\ WaitersWait'
    BY <2>1 DEF CInit, CTypes, CStages, EndsOnce, WaitersWait
  <2>4. ReadsUntilClosed'
    BY <1>0, <1>1, <2>1 DEF CInit, ReadsUntilClosed
  <2>5. FailuresHold' /\ ReasonHolds'
    BY <2>1, <2>2 DEF CInit, FailuresHold, ReasonHolds
  <2> QED
    BY <2>3, <2>4, <2>5 DEF CInv
<1>2. CASE C
  BY <1>2, CTypesStep, EndsOnceStep, WaitersStep, ReadsUntilClosedStep, FailuresStep, ReasonStep DEF CInv
<1>3. CASE UNCHANGED cVars /\ UNCHANGED <<place, received>> /\ \A v \in Watches : phase[v] = "unopened" => phase'[v] = "unopened"
  <2>1. Failed' = Failed /\ StartFailed' = StartFailed /\ Said' = Said
    BY <1>3 DEF Failed, StartFailed, Said, cVars
  <2> QED
    BY <1>0, <1>3, <2>1
       DEF cVars, CInv, CTypes, EndsOnce, ReadsUntilClosed, WaitersWait, FailuresHold, ReasonHolds
<1>4. ASSUME NEW w \in Watches, SupervisorEnds(w) \/ SupervisorSends(w)
      PROVE  CInv'
  <2>1. Supervised(w) /\ UNCHANGED cVars
    BY <1>4 DEF SupervisorEnds, SupervisorSends, Supervised
  <2>2. PICK at, items : Supervises(w, at, items)
    BY <1>0, <2>1, SupervisedEffect
  <2> QED
    BY <1>0, <1>3, <2>1, <2>2 DEF Supervises, streamVars, WatchTypes
<1>5. CASE UNCHANGED vars
  BY <1>3, <1>5 DEF vars, watchVars, taskVars, streamVars
<1> QED
  BY <1>1, <1>2, <1>4, <1>5 DEF Next, Opens, Rust, Python, Cli

-----------------------------------------------------------------------------
(* The iterators.                                                          *)

PyStep(c) == PyCall(c) \/ (\E k \in {"next", "run", "close"} : Call(c, k)) \/ Abandoned(c) \/ DeliveryLost(c)

(* What the other calls can see of a call that moves.                      *)
Moved(c) ==
  /\ \A d \in Calls \ {c} : call'[d] = call[d] /\ kind'[d] = kind[d] /\ held'[d] = held[d]
  /\ mutex' = mutex \/ (mutex = c /\ mutex' = Nobody) \/ (mutex = Nobody /\ mutex' = c)
  /\ open' = open \/ (open' = FALSE /\ call[c] = "closing")

(* A call enters, waits for the mutex, or leaves.                          *)
Quiet(c) ==
  Enters(c) \/ FindsClosed(c) \/ SetsFlag(c) \/ Wakes(c) \/ Locks(c) \/ Registers(c)
  \/ Checks(c) \/ IsWoken(c) \/ TimesOut(c) \/ ClosesOnDrop(c)

LEMMA PySteps ==
  ASSUME NEW c \in Calls, PyStep(c)
  PROVE  \/ Quiet(c) \/ Polls(c) \/ PollsPending(c) \/ PollsEnd(c)
         \/ Interrupted(c) \/ Returns(c) \/ TakesStream(c) \/ Drains(c) \/ CloseReturns(c)
         \/ (\E k \in {"next", "run", "close"} : Call(c, k)) \/ Abandoned(c) \/ DeliveryLost(c)
BY DEF PyStep, PyCall, Quiet

(* What a poll brings: call c holds it, or has handed it over.             *)
Brings(c, w) ==
  LET item == Head(channel[w])
  IN /\ PollItem(w, "continue") /\ item \in Nat
     /\ \/ /\ \/ call' = [call EXCEPT ![c] = "signals"]
              \/ call' = [call EXCEPT ![c] = "delivering"]
           /\ held' = [held EXCEPT ![c] = <<w, item>>] /\ handed' = handed /\ Release(c)
        \/ /\ \/ call' = [call EXCEPT ![c] = "closing"]
              \/ call' = [call EXCEPT ![c] = "registering"]
           /\ mutex' = mutex
           /\ handed' = [handed EXCEPT ![w] = Append(@, item)] /\ held' = held
     /\ UNCHANGED <<style, kind, open, signal, interrupts, dropped, givenUp>>

LEMMA PolledItem ==
  ASSUME WatchTypes, PyTypes, NEW c \in Calls, Polls(c), CallInv(c)
  PROVE  \E w \in Watches : Brings(c, w)
<1> USE DEF Brings
<1>0. style \in {"sync", "async"} /\ kind[c] \in {"next", "run"} /\ UNCHANGED <<style, kind, open, signal, interrupts>>
  BY DEF Polls, CallInv, Reads, PyTypes
<1>1. ASSUME NEW w \in Watches, PollItem(w, "continue") PROVE Head(channel[w]) \in Nat
  BY <1>1 DEF PollItem, IsNext, HasItem, WatchTypes
<1>2. CASE style = "sync"
  BY <1>0, <1>1, <1>2 DEF Polls, At, pyHistory
<1>3. CASE style = "async" /\ kind[c] = "next"
  BY <1>0, <1>1, <1>3 DEF Polls, At, pyHistory
<1>4. CASE style = "async" /\ kind[c] = "run"
  BY <1>0, <1>1, <1>4 DEF Polls, At, pyHistory, RunGoesOn
<1> QED
  BY <1>0, <1>2, <1>3, <1>4

LEMMA QuietSteps ==
  ASSUME PyTypes, NEW c \in Calls, CallInv(c), Quiet(c)
  PROVE  /\ Moved(c) /\ PyTypes' /\ CallInv(c)'
         /\ UNCHANGED <<open, place, cancelled, clientGone, received, givenUp, held, handed, dropped,
                        signal, interrupts>>
         /\ call[c] # "draining" /\ call'[c] # "draining"
         /\ kind'[c] = "close" /\ call'[c] = "returned" => kind[c] = "close" /\ call[c] = "returned"
<1> USE DEF Moved, CallInv, Reads, Stays, At, Release, Unregister, mutexVars, notifyVars, pyHistory,
            watchVars, streamVars
<1>0. call \in [Calls -> Stages] /\ style \in {"sync", "async"} /\ kind \in [Calls -> {"none", "next", "run", "close", "reaper"}]
  BY DEF PyTypes
<1>1. CASE Enters(c) \/ FindsClosed(c) \/ SetsFlag(c) \/ Wakes(c)
  BY <1>0, <1>1 DEF Enters, FindsClosed, SetsFlag, Wakes, PyTypes, Stages
<1>2. CASE Locks(c)
  BY <1>0, <1>2 DEF Locks, PyTypes, Stages
<1>3. CASE Registers(c) \/ TimesOut(c)
  BY <1>0, <1>3 DEF Registers, TimesOut, TimeoutLeaves, PyTypes, Stages
<1>4. CASE Checks(c)
  BY <1>0, <1>4 DEF Checks, PyTypes, Stages
<1>5. CASE IsWoken(c)
  BY <1>0, <1>5 DEF IsWoken, PyTypes, Stages
<1>6. CASE ClosesOnDrop(c)
  BY <1>0, <1>6 DEF ClosesOnDrop, PyTypes, Stages
<1> QED
  BY <1>1, <1>2, <1>3, <1>4, <1>5, <1>6 DEF Quiet

(* Where an item that was held goes.                                       *)
LEMMA HeldItem ==
  ASSUME PyTypes, NEW c \in Calls, Interrupted(c) \/ Returns(c)
  PROVE  /\ \/ held[c] = <<>> /\ UNCHANGED <<handed, dropped>>
            \/ \E v \in Watches, i \in Nat :
                 /\ held[c] = <<v, i>>
                 /\ \/ Returns(c) /\ handed' = [handed EXCEPT ![v] = Append(handed[v], i)] /\ dropped' = dropped
                    \/ Interrupted(c) /\ handed' = handed /\ dropped' = dropped \cup {<<v, i>>}
         /\ Interrupted(c) => signal /\ signal' = FALSE
         /\ Returns(c) => signal' = signal
<1>1. CASE held[c] = <<>>
  BY <1>1 DEF Interrupted, Returns
<1>2. CASE held[c] # <<>>
  <2>1. held[c] \in Watches \X Nat
    BY <1>2 DEF PyTypes, Items
  <2>2. PICK v \in Watches, i \in Nat : held[c] = <<v, i>>
    BY <2>1
  <2>3. held[c][1] = v /\ held[c][2] = i
    BY <2>2
  <2>4. Returns(c) => handed' = [handed EXCEPT ![v] = Append(handed[v], i)]
    BY <1>2, <2>3 DEF Returns
  <2>5. Interrupted(c) => dropped' = dropped \cup {<<v, i>>}
    BY <1>2, <2>2 DEF Interrupted
  <2> QED
    BY <2>2, <2>4, <2>5 DEF Interrupted, Returns
<1> QED
  BY <1>1, <1>2

(* The steps that read the stream, or hand over what was read.             *)
LEMMA ReadSteps ==
  ASSUME PyTypes, WatchTypes, NEW c \in Calls, CallInv(c),
         Polls(c) \/ PollsPending(c) \/ PollsEnd(c) \/ Interrupted(c) \/ Returns(c)
  PROVE  /\ Moved(c) /\ PyTypes' /\ CallInv(c)'
         /\ UNCHANGED <<open, cancelled, clientGone, givenUp>> /\ (~open => place' = place)
         /\ call[c] # "draining" /\ call'[c] # "draining" /\ kind'[c] \in {"next", "run"}
<1>0. /\ style \in {"sync", "async"} /\ Reads(c) /\ call \in [Calls -> Stages] /\ held \in [Calls -> Items]
      /\ handed \in [Watches -> Seq(Nat)]
  BY DEF PyTypes, CallInv, Polls, PollsPending, PollsEnd, Interrupted, AtSignals, Returns
<1>1. CASE Polls(c)
  <2>1. PICK w \in Watches : Brings(c, w)
    BY <1>1, PolledItem
  <2> USE DEF Brings
  <2>2. call[c] = "polling" /\ open /\ held[c] = <<>> /\ mutex = c
    BY <1>1 DEF Polls, CallInv
  <2>3. UNCHANGED <<cancelled, clientGone>>
    BY <2>1 DEF PollItem
  <2>4. Moved(c) /\ CallInv(c)'
    BY <1>0, <2>1, <2>2 DEF Moved, CallInv, Release, Reads
  <2>5. held' \in [Calls -> Items] /\ handed' \in [Watches -> Seq(Nat)]
    <3>1. <<w, Head(channel[w])>> \in Items
      BY <2>1 DEF Items
    <3>2. Append(handed[w], Head(channel[w])) \in Seq(Nat)
      BY <1>0, <2>1
    <3> QED
      BY <1>0, <2>1, <3>1, <3>2
  <2>6. PyTypes'
    BY <2>1, <2>5 DEF PyTypes, Stages
  <2> QED
    BY <1>0, <2>1, <2>2, <2>3, <2>4, <2>6 DEF Reads
<1>2. CASE PollsPending(c)
  BY <1>0, <1>2
     DEF PollsPending, PollPending, PollNothing, CallInv, Moved, PyTypes, pyVars, notifyVars, mutexVars,
         pyHistory, Reads
<1>3. CASE PollsEnd(c)
  BY <1>0, <1>3
     DEF PollsEnd, PollEnd, PollNothing, CallInv, Moved, PyTypes, Stays, At, Release, Stages, pyHistory, Reads
<1>4. CASE Interrupted(c) \/ Returns(c)
  <2>1. /\ AtSignals(c) \/ call[c] = "delivering"
        /\ held' = [held EXCEPT ![c] = <<>>]
        /\ \/ call' = [call EXCEPT ![c] = "returned"]
           \/ call' = [call EXCEPT ![c] = "locking"]
        /\ UNCHANGED <<style, kind, open, mutex, interrupts, givenUp, watchVars>>
    BY <1>4 DEF Interrupted, Returns, At, mutexVars
  <2>3. handed' \in [Watches -> Seq(Nat)] /\ dropped' \in SUBSET (Watches \X Nat)
    <3>1. CASE UNCHANGED <<handed, dropped>>
      BY <3>1 DEF PyTypes
    <3>2. ASSUME NEW v \in Watches, NEW i \in Nat, handed' = [handed EXCEPT ![v] = Append(handed[v], i)]
          PROVE  handed' \in [Watches -> Seq(Nat)]
      <4>1. Append(handed[v], i) \in Seq(Nat)
        BY <1>0
      <4> QED
        BY <1>0, <3>2, <4>1
    <3>3. ASSUME NEW v \in Watches, NEW i \in Nat, dropped' = dropped \cup {<<v, i>>}
          PROVE  dropped' \in SUBSET (Watches \X Nat)
      BY <3>3 DEF PyTypes
    <3> QED
      BY <1>4, <3>1, <3>2, <3>3, HeldItem DEF PyTypes
  <2>4. signal' \in BOOLEAN
    BY <1>4 DEF Interrupted, Returns, PyTypes
  <2>5. PyTypes'
    BY <1>0, <2>1, <2>3, <2>4 DEF PyTypes, Stages, Items
  <2>6. Moved(c) /\ CallInv(c)'
    BY <1>0, <2>1 DEF Moved, CallInv, AtSignals, Reads
  <2> QED
    BY <1>0, <2>1, <2>5, <2>6 DEF AtSignals, watchVars, streamVars, Reads
<1> QED
  BY <1>1, <1>2, <1>3, <1>4

(* The steps that close the stream, or are made from outside.              *)
LEMMA CloseSteps ==
  ASSUME PyTypes, NEW c \in Calls, CallInv(c),
         TakesStream(c) \/ Drains(c) \/ CloseReturns(c)
         \/ (\E k \in {"next", "run", "close"} : Call(c, k)) \/ Abandoned(c) \/ DeliveryLost(c)
  PROVE  /\ Moved(c) /\ PyTypes' /\ CallInv(c)'
         /\ UNCHANGED <<clientGone, received, held, handed, dropped, signal, interrupts>>
<1> USE DEF Moved, CallInv, Reads, Stays, At, Release, PyTypes, Stages
<1>0. call \in [Calls -> Stages] /\ kind \in [Calls -> {"none", "next", "run", "close", "reaper"}]
  OBVIOUS
<1>1. CASE TakesStream(c)
  BY <1>0, <1>1 DEF TakesStream, CloseBegins, watchVars, streamVars, notifyVars, pyHistory
<1>2. CASE Drains(c)
  BY <1>0, <1>2 DEF Drains, CloseWaits, pyVars, mutexVars, pyHistory
<1>3. CASE CloseReturns(c)
  BY <1>0, <1>3 DEF CloseReturns, watchVars, streamVars, pyHistory
<1>4. ASSUME NEW k \in {"next", "run", "close"}, Call(c, k)
      PROVE  Moved(c) /\ PyTypes' /\ CallInv(c)' /\ UNCHANGED <<clientGone, received, held, handed, dropped, signal, interrupts>>
  BY <1>0, <1>4 DEF Call, watchVars, streamVars, mutexVars, pyHistory
<1>5. CASE Abandoned(c)
  <2>1. call' = [call EXCEPT ![c] = IF kind[c] = "run" THEN "dropping" ELSE "abandoned"]
        /\ UNCHANGED <<style, kind, held, signal, interrupts, open, handed, dropped>>
        /\ mutex' = (IF mutex = c THEN Nobody ELSE mutex) /\ givenUp' \in BOOLEAN
    BY <1>5 DEF Abandoned
  <2>2. UNCHANGED <<clientGone, received>>
    BY <1>5 DEF Abandoned, DropAll, watchVars, streamVars
  <2>3. call[c] \in {"locking", "polling", "draining", "stopping"}
    BY <1>5 DEF Abandoned
  <2> QED
    BY <1>0, <2>1, <2>2, <2>3
<1>6. CASE DeliveryLost(c)
  BY <1>0, <1>6 DEF DeliveryLost, watchVars, streamVars, mutexVars, pyHistory
<1> QED
  BY <1>1, <1>2, <1>3, <1>4, <1>5, <1>6

(* A call that moves leaves what is known of the others.                   *)
LEMMA OthersHold ==
  ASSUME NEW c \in Calls, NEW d \in Calls, c # d, CallInv(c), CallInv(d), Moved(c)
  PROVE  CallInv(d)'
<1>1. call'[d] = call[d] /\ kind'[d] = kind[d] /\ held'[d] = held[d] /\ c # Nobody /\ d # Nobody
  BY CallsAssumption DEF Moved
<1>2. mutex = d => mutex' = d
  BY <1>1 DEF Moved
<1>3. mutex = d => open' = open
  BY DEF Moved, CallInv
<1>4. ~open => ~open'
  BY DEF Moved
<1> QED
  BY <1>1, <1>2, <1>3, <1>4 DEF CallInv, Reads

LEMMA StepHolds ==
  ASSUME PyTypes, WatchTypes, \A d \in Calls : CallInv(d), NEW c \in Calls, PyStep(c)
  PROVE  Moved(c) /\ PyTypes' /\ \A d \in Calls : CallInv(d)'
<1>1. Moved(c) /\ PyTypes' /\ CallInv(c)'
  BY PySteps, QuietSteps, ReadSteps, CloseSteps
<1> QED
  BY <1>1, OthersHold

(* Nobody reads, sends to or opens a watch that is closed.                 *)
LEMMA StaysClosed ==
  ASSUME Inv, ~givenUp, consumer = "python", AllClosed, [Next]_vars
  PROVE  AllClosed'
<1>0. WatchTypes /\ OpenInv /\ 1 \in Watches
  BY ManyWatchesAssumption DEF Inv, CInv, Watches
<1>1. \A w \in Watches : phase[w] # "unopened" /\ place[w] = "closed"
  BY <1>0 DEF AllClosed, OpenInv, WatchTypes
<1>2. CASE UNCHANGED place
  BY <1>2 DEF AllClosed
<1>3. ASSUME NEW w \in Watches, Polled(w) \/ CloseWaits(w) PROVE AllClosed'
  BY <1>1, <1>3 DEF Polled, PollItem, IsNext, HasItem, CloseWaits
<1>4. CASE PollNothing \/ CloseBegins \/ DropAll
  BY <1>0, <1>1, <1>4 DEF PollNothing, HasEnded, CloseBegins, DropAll, AllClosed
<1>5. ~OpensAll
  BY <1>0, <1>1, OpenedAtOnce
<1>6. ASSUME NEW w \in Watches, Supervised(w) PROVE UNCHANGED place
  BY <1>6 DEF Supervised, SendsItem, SendsError, EndsItself, SeesCancel, Finishes, streamVars
<1> QED
  BY <1>2, <1>3, <1>4, <1>5, <1>6, NextMoves
     DEF WatchMove, OpensOne, ReadAlone, InVain, ClientGoes, watchVars, streamVars

LEMMA StreamStep ==
  ASSUME Inv, Python, [Next]_vars
  PROVE  StreamInv'
<1>0. /\ WatchTypes /\ OpenInv /\ PyTypes /\ StreamInv /\ (\A d \in Calls : CallInv(d))
      /\ consumer = "python" /\ consumer' = consumer
  BY ConsumerStays DEF Inv, PyInv, Python
<1>1. AllClosed /\ ~givenUp => AllClosed'
  BY <1>0, StaysClosed
<1>2. \A w \in Watches : place[w] # "unread"
  <2>1. ~StartFailed
    BY <1>0 DEF Inv, OthersStill, CInit, StartFailed
  <2>2. \A w \in Watches : phase[w] # "unopened"
    BY <1>0 DEF Python, Ready, Opened, OpenInv
  <2> QED
    BY <1>0, <2>1, <2>2 DEF OpenInv
<1>3. ASSUME UNCHANGED <<open, givenUp, call, kind>>, open => UNCHANGED <<cancelled, clientGone>>
      PROVE  StreamInv'
  BY <1>0, <1>1, <1>3 DEF StreamInv
<1>4. CASE LastCloneGoes \/ Signals
  <2>1. UNCHANGED <<open, givenUp, call, kind>>
    BY <1>4 DEF LastCloneGoes, Signals, pyVars, pyHistory
  <2>2. open => UNCHANGED <<cancelled, clientGone>>
    BY <1>4 DEF LastCloneGoes, CloneHeld, Signals, watchVars, streamVars
  <2> QED
    BY <1>3, <2>1, <2>2
<1>5. ASSUME NEW c \in Calls, PyStep(c) PROVE StreamInv'
  <2>0. Moved(c) /\ CallInv(c) /\ (\A d \in Calls : CallInv(d)') /\ call \in [Calls -> Stages]
    BY <1>0, <1>5, StepHolds DEF PyTypes
  <2>1. ASSUME UNCHANGED <<open, givenUp>>, open => UNCHANGED <<cancelled, clientGone>>,
               call[c] # "draining" \/ call'[c] = "draining",
               kind'[c] = "close" /\ call'[c] = "returned" => kind[c] = "close" /\ call[c] = "returned"
        PROVE  StreamInv'
    <3>1. (\A d \in Calls : call'[d] # "draining") => \A d \in Calls : call[d] # "draining"
      BY <2>0, <2>1 DEF Moved
    <3>2. (\E d \in Calls : kind'[d] = "close" /\ call'[d] = "returned")
            => \E d \in Calls : kind[d] = "close" /\ call[d] = "returned"
      BY <2>0, <2>1 DEF Moved
    <3> QED
      BY <1>0, <1>1, <2>1, <3>1, <3>2 DEF StreamInv
  <2>2. CASE Quiet(c)
    BY <1>0, <2>0, <2>1, <2>2, QuietSteps
  <2>3. CASE Polls(c) \/ PollsPending(c) \/ PollsEnd(c) \/ Interrupted(c) \/ Returns(c)
    BY <1>0, <2>0, <2>1, <2>3, ReadSteps
  <2>4. CASE TakesStream(c)
    <3>1. open' = FALSE /\ givenUp' = givenUp /\ mutex = c /\ c # Nobody
      BY <2>0, <2>4, CallsAssumption DEF TakesStream, CallInv, pyHistory
    <3>2. CASE open
      <4>1. call'[c] = "draining"
        BY <2>0, <2>4, <3>2 DEF TakesStream, At
      <4>2. (\E d \in Calls : kind'[d] = "close" /\ call'[d] = "returned")
              => \E d \in Calls : kind[d] = "close" /\ call[d] = "returned"
        BY <2>0, <4>1 DEF Moved
      <4> QED
        BY <1>0, <1>1, <3>1, <4>1, <4>2 DEF StreamInv
    <3>3. CASE ~open
      <4>1. \A d \in Calls : call[d] # "draining"
        BY <1>0, <2>4, <3>1 DEF TakesStream, CallInv
      <4> QED
        BY <1>0, <1>1, <3>1, <3>3, <4>1 DEF StreamInv
    <3> QED
      BY <1>0, <3>2, <3>3 DEF PyTypes
  <2>5. CASE Drains(c)
    BY <2>0, <2>1, <2>5 DEF Drains, CloseWaits, pyVars, pyHistory
  <2>6. CASE CloseReturns(c)
    <3>1. ~open /\ UNCHANGED <<place, open>> /\ CloseDone
      BY <2>0, <2>6 DEF CloseReturns, CallInv, watchVars, streamVars
    <3>2. AllClosed'
      BY <1>2, <3>1 DEF CloseDone, AllClosed
    <3> QED
      BY <3>1, <3>2 DEF StreamInv
  <2>7. ASSUME NEW k \in {"next", "run", "close"}, Call(c, k) PROVE StreamInv'
    BY <2>0, <2>1, <2>7 DEF Call, At, pyHistory, watchVars, streamVars
  <2>8. CASE Abandoned(c)
    <3>1. CASE call[c] = "draining"
      <4>1. givenUp' /\ ~open'
        BY <2>0, <2>8, <3>1 DEF Abandoned, CallInv
      <4> QED
        BY <4>1 DEF StreamInv
    <3>2. CASE call[c] # "draining"
      <4>1. call'[c] \in {"dropping", "abandoned"}
        BY <2>0, <2>8 DEF Abandoned, At
      <4>2. UNCHANGED <<open, givenUp, cancelled, clientGone>>
        BY <2>8, <3>2 DEF Abandoned, watchVars, streamVars
      <4> QED
        BY <2>1, <3>2, <4>1, <4>2
    <3> QED
      BY <3>1, <3>2
  <2>9. CASE DeliveryLost(c)
    BY <2>0, <2>1, <2>9 DEF DeliveryLost, At, pyHistory, watchVars, streamVars
  <2> QED
    BY <1>5, <2>2, <2>3, <2>4, <2>5, <2>6, <2>7, <2>8, <2>9, PySteps
<1> QED
  BY <1>4, <1>5 DEF Python, PyNext, PyCallers, PyStep

LEMMA PyInvStep == Inv /\ [Next]_vars => PyInv'
<1> SUFFICES ASSUME Inv, [Next]_vars PROVE PyInv'
  OBVIOUS
<1>0. /\ consumer' = consumer /\ OthersStill' /\ OpenInv /\ WatchTypes /\ StreamInv
      /\ PyTypes /\ \A d \in Calls : CallInv(d)
  BY ConsumerStays, StillStep DEF Inv, PyInv
<1>1. CASE consumer # "python"
  <2>1. PyInit'
    BY <1>0, <1>1 DEF OthersStill
  <2>2. PyTypes'
    <3>1. <<>> \in Items /\ <<>> \in Seq(Nat)
      BY DEF Items
    <3>2. held' \in [Calls -> Items] /\ handed' \in [Watches -> Seq(Nat)] /\ dropped' \in SUBSET (Watches \X Nat)
      BY <2>1, <3>1 DEF PyInit
    <3> QED
      BY <2>1, <3>2 DEF PyInit, PyTypes, Stages
  <2>4. \A d \in Calls : CallInv(d)'
    BY <2>1 DEF PyInit, CallInv
  <2>3. StreamInv'
    BY <1>0, <1>1, <2>1 DEF PyInit, StreamInv
  <2> QED
    BY <2>2, <2>3, <2>4 DEF PyInv
<1>2. CASE Python
  <2>1. StreamInv'
    BY <1>2, StreamStep
  <2>2. ASSUME NEW c \in Calls, PyStep(c) PROVE PyTypes' /\ \A d \in Calls : CallInv(d)'
    BY <1>0, <2>2, StepHolds
  <2>3. CASE LastCloneGoes \/ Signals
    <3>1. UNCHANGED <<style, open, mutex, call, kind, held, handed, dropped, givenUp>>
      BY <2>3 DEF LastCloneGoes, Signals, pyVars, mutexVars, notifyVars, pyHistory
    <3>2. (UNCHANGED <<signal, interrupts>>) \/ (signal' = TRUE /\ interrupts' = interrupts + 1)
      BY <2>3 DEF LastCloneGoes, Signals, pyVars
    <3>3. PyTypes'
      <4>1. signal' \in BOOLEAN
        BY <1>0, <3>2 DEF PyTypes
      <4>2. interrupts' \in Nat
        BY <1>0, <3>2 DEF PyTypes
      <4> QED
        BY <1>0, <3>1, <4>1, <4>2 DEF PyTypes
    <3>4. \A d \in Calls : CallInv(d)'
      BY <1>0, <3>1 DEF CallInv, Reads
    <3> QED
      BY <2>1, <3>3, <3>4 DEF PyInv
  <2> QED
    BY <1>2, <2>1, <2>2, <2>3 DEF PyInv, Python, PyNext, PyCallers, PyStep
<1>3. CASE consumer = "python" /\ UNCHANGED pyVars /\ UNCHANGED <<cancelled, clientGone>>
  <2>1. ~givenUp /\ AllClosed => AllClosed'
    BY <1>3, StaysClosed
  <2>2. UNCHANGED <<style, open, mutex, call, kind, held, signal, interrupts, handed, dropped, givenUp>>
    BY <1>3 DEF pyVars, mutexVars, notifyVars, pyHistory
  <2>3. PyTypes' /\ \A d \in Calls : CallInv(d)'
    BY <1>0, <2>2 DEF PyTypes, CallInv, Reads
  <2>4. StreamInv'
    BY <1>0, <1>3, <2>1, <2>2 DEF StreamInv
  <2> QED
    BY <2>3, <2>4 DEF PyInv
<1>4. consumer = "python" => Python \/ (UNCHANGED pyVars /\ UNCHANGED <<cancelled, clientGone>>)
  <2>1. ASSUME NEW w \in Watches, SupervisorEnds(w) \/ SupervisorSends(w)
        PROVE  UNCHANGED pyVars /\ UNCHANGED <<cancelled, clientGone>>
    BY <2>1 DEF SupervisorEnds, SupervisorSends, SendsItem, SendsError, EndsItself, SeesCancel, Finishes, streamVars
  <2>2. CASE Opens
    BY <2>2 DEF Opens, Open
  <2>3. CASE UNCHANGED vars
    BY <2>3 DEF vars, watchVars, streamVars
  <2>4. CASE Next
    BY <2>1, <2>2, <2>4 DEF Next, Rust, C, Cli
  <2> QED
    BY <2>3, <2>4
<1> QED
  BY <1>1, <1>2, <1>3, <1>4

-----------------------------------------------------------------------------
(* What the iterators hand over.                                           *)

LEMMA RangeAppend ==
  ASSUME NEW s \in Seq(Nat), NEW i \in Nat
  PROVE  Range(Append(s, i)) = Range(s) \cup {i}
<1>1. /\ DOMAIN s = 1 .. Len(s) /\ DOMAIN Append(s, i) = 1 .. Len(s) + 1 /\ Len(s) \in Nat
      /\ Append(s, i)[Len(s) + 1] = i /\ \A k \in 1 .. Len(s) : Append(s, i)[k] = s[k]
  OBVIOUS
<1>2. ASSUME NEW x PROVE x \in Range(Append(s, i)) => x \in Range(s) \cup {i}
  BY <1>1 DEF Range
<1>3. i \in Range(Append(s, i))
  BY <1>1 DEF Range
<1>4. ASSUME NEW x \in Range(s) PROVE x \in Range(Append(s, i))
  <2>1. PICK k \in 1 .. Len(s) : x = s[k]
    BY <1>1, <1>4 DEF Range
  <2>2. k \in DOMAIN Append(s, i) /\ Append(s, i)[k] = x
    BY <1>1, <2>1
  <2> QED
    BY <2>2 DEF Range
<1> QED
  BY <1>2, <1>3, <1>4

LEMMA RangeKept ==
  ASSUME NEW f, NEW v \in Watches, NEW w \in Watches, NEW i \in Nat, f \in [Watches -> Seq(Nat)]
  PROVE  Range([f EXCEPT ![w] = Append(f[w], i)][v]) = Range(f[v]) \cup (IF v = w THEN {i} ELSE {})
BY RangeAppend

(* What a set of pairs, or the calls, have of a watch.                     *)
LEMMA ItemAdded ==
  ASSUME NEW v \in Watches, NEW w \in Watches, NEW i \in Nat, NEW S
  PROVE  ItemsOf(v, S \cup {<<w, i>>}) = ItemsOf(v, S) \cup (IF v = w THEN {i} ELSE {})
<1>1. ASSUME NEW x, NEW T PROVE x \in ItemsOf(v, T) <=> \E p \in T : p # <<>> /\ p[1] = v /\ p[2] = x
  BY DEF ItemsOf
<1>2. <<w, i>> # <<>> /\ <<w, i>>[1] = w /\ <<w, i>>[2] = i
  OBVIOUS
<1> DEFINE p == <<w, i>>
<1> HIDE DEF p
<1>4. p # <<>> /\ p[1] = w /\ p[2] = i
  BY <1>2 DEF p
<1>5. ASSUME NEW x
      PROVE  x \in ItemsOf(v, S \cup {p}) <=> x \in ItemsOf(v, S) \/ (v = w /\ x = i)
  <2>1. x \in ItemsOf(v, S \cup {p}) <=> \E q \in S \cup {p} : q # <<>> /\ q[1] = v /\ q[2] = x
    BY <1>1
  <2>2. x \in ItemsOf(v, S) <=> \E q \in S : q # <<>> /\ q[1] = v /\ q[2] = x
    BY <1>1
  <2>3. (\E q \in S \cup {p} : q # <<>> /\ q[1] = v /\ q[2] = x)
          <=> (\E q \in S : q # <<>> /\ q[1] = v /\ q[2] = x) \/ (p # <<>> /\ p[1] = v /\ p[2] = x)
    OBVIOUS
  <2> QED
    BY <2>1, <2>2, <2>3, <1>4
<1>3. ASSUME NEW x
      PROVE  x \in ItemsOf(v, S \cup {<<w, i>>}) <=> x \in ItemsOf(v, S) \/ (v = w /\ x = i)
  BY <1>5 DEF p
<1> QED
  BY <1>3

LEMMA FlightIs ==
  ASSUME held \in [Calls -> Items], NEW v \in Watches, NEW x
  PROVE  x \in InFlight(v) <=> \E d \in Calls : held[d] # <<>> /\ held[d][1] = v /\ held[d][2] = x
BY DEF InFlight, ItemsOf, Range

(* An item is in flight while a call holds it.                             *)
LEMMA FlightTaken ==
  ASSUME held \in [Calls -> Items], NEW c \in Calls, held[c] = <<>>,
         NEW w \in Watches, NEW i \in Nat, held' = [held EXCEPT ![c] = <<w, i>>], NEW v \in Watches
  PROVE  InFlight(v)' = InFlight(v) \cup (IF v = w THEN {i} ELSE {})
<1>1. ASSUME NEW x PROVE x \in InFlight(v) <=> \E d \in Calls : held[d] # <<>> /\ held[d][1] = v /\ held[d][2] = x
  BY FlightIs
<1>2. ASSUME NEW x PROVE x \in InFlight(v)' <=> \E d \in Calls : held'[d] # <<>> /\ held'[d][1] = v /\ held'[d][2] = x
  BY DEF InFlight, ItemsOf, Range
<1>3. held'[c] # <<>> /\ held'[c][1] = w /\ held'[c][2] = i /\ \A d \in Calls \ {c} : held'[d] = held[d]
  OBVIOUS
<1>4. ASSUME NEW x, x \in InFlight(v)' PROVE x \in InFlight(v) \/ (v = w /\ x = i)
  BY <1>1, <1>2, <1>3, <1>4
<1>5. ASSUME NEW x, x \in InFlight(v) PROVE x \in InFlight(v)'
  BY <1>1, <1>2, <1>3, <1>5
<1>6. v = w => i \in InFlight(v)'
  BY <1>2, <1>3
<1> QED
  BY <1>4, <1>5, <1>6

LEMMA FlightEnds ==
  ASSUME held \in [Calls -> Items], NEW c \in Calls, NEW w \in Watches, NEW i \in Nat,
         held[c] = <<w, i>>, held' = [held EXCEPT ![c] = <<>>], NEW v \in Watches
  PROVE  InFlight(v) = InFlight(v)' \cup (IF v = w THEN {i} ELSE {})
<1>1. ASSUME NEW x PROVE x \in InFlight(v) <=> \E d \in Calls : held[d] # <<>> /\ held[d][1] = v /\ held[d][2] = x
  BY FlightIs
<1>2. ASSUME NEW x PROVE x \in InFlight(v)' <=> \E d \in Calls : held'[d] # <<>> /\ held'[d][1] = v /\ held'[d][2] = x
  BY DEF InFlight, ItemsOf, Range
<1>3. held[c] # <<>> /\ held[c][1] = w /\ held[c][2] = i /\ held'[c] = <<>> /\ \A d \in Calls \ {c} : held'[d] = held[d]
  OBVIOUS
<1>4. ASSUME NEW x, x \in InFlight(v) PROVE x \in InFlight(v)' \/ (v = w /\ x = i)
  BY <1>1, <1>2, <1>3, <1>4
<1>5. ASSUME NEW x, x \in InFlight(v)' PROVE x \in InFlight(v)
  BY <1>1, <1>2, <1>3, <1>5
<1>6. v = w => i \in InFlight(v)
  BY <1>1, <1>3
<1> QED
  BY <1>4, <1>5, <1>6

Handed(w) == Range(handed[w]) \cup ItemsOf(w, dropped) \cup InFlight(w) = Range(received[w])
Raised    == IF signal THEN 1 ELSE 0

LEMMA PollHands ==
  ASSUME PyTypes, WatchTypes, NEW c \in Calls, CallInv(c), Polls(c), \A v \in Watches : Handed(v)
  PROVE  (\A v \in Watches : Handed(v)') /\ UNCHANGED <<dropped, signal, interrupts>>
<1>0. /\ held[c] = <<>> /\ held \in [Calls -> Items] /\ received \in [Watches -> Seq(Nat)]
      /\ handed \in [Watches -> Seq(Nat)]
  BY DEF Polls, CallInv, PyTypes, WatchTypes
<1>1. PICK w \in Watches : Brings(c, w)
  BY PolledItem
<1> USE DEF Brings
<1>2. received' = [received EXCEPT ![w] = Append(received[w], Head(channel[w]))]
  BY <1>1 DEF PollItem, Receive
<1>3. ASSUME NEW v \in Watches PROVE Handed(v)'
  <2>1. Range(received'[v]) = Range(received[v]) \cup (IF v = w THEN {Head(channel[w])} ELSE {})
    BY <1>0, <1>1, <1>2, RangeKept
  <2>2. CASE handed' = handed /\ held' = [held EXCEPT ![c] = <<w, Head(channel[w])>>]
    <3>1. InFlight(v)' = InFlight(v) \cup (IF v = w THEN {Head(channel[w])} ELSE {})
      BY <1>0, <1>1, <2>2, FlightTaken
    <3> QED
      BY <1>1, <2>1, <2>2, <3>1 DEF Handed
  <2>3. CASE held' = held /\ handed' = [handed EXCEPT ![w] = Append(handed[w], Head(channel[w]))]
    <3>1. InFlight(v)' = InFlight(v)
      BY <2>3 DEF InFlight
    <3>2. Range(handed'[v]) = Range(handed[v]) \cup (IF v = w THEN {Head(channel[w])} ELSE {})
      BY <1>0, <1>1, <2>3, RangeKept
    <3> QED
      BY <1>1, <2>1, <3>1, <3>2 DEF Handed
  <2> QED
    BY <1>1, <2>2, <2>3
<1> QED
  BY <1>1, <1>3

LEMMA SignalHands ==
  ASSUME PyTypes, WatchTypes, NEW c \in Calls, CallInv(c), Interrupted(c) \/ Returns(c),
         \A v \in Watches : Handed(v),
         IsFiniteSet(dropped), Cardinality(dropped) + Raised <= interrupts
  PROVE  (\A v \in Watches : Handed(v)') /\ IsFiniteSet(dropped') /\ Cardinality(dropped') + Raised' <= interrupts'
<1>0. /\ held' = [held EXCEPT ![c] = <<>>] /\ UNCHANGED <<received, interrupts>>
      /\ held \in [Calls -> Items] /\ handed \in [Watches -> Seq(Nat)] /\ interrupts \in Nat
      /\ dropped \in SUBSET (Watches \X Nat) /\ signal \in BOOLEAN
  BY DEF Interrupted, Returns, PyTypes, watchVars, streamVars
<1>1. Cardinality(dropped) \in Nat
  BY FS_CardinalityType
<1>2. CASE held[c] = <<>> /\ UNCHANGED <<handed, dropped>>
  <2>1. held' = held
    BY <1>0, <1>2
  <2>2. \A v \in Watches : InFlight(v)' = InFlight(v)
    BY <2>1 DEF InFlight
  <2>3. \A v \in Watches : Handed(v)'
    BY <1>0, <1>2, <2>2 DEF Handed
  <2>4. dropped' = dropped
    BY <1>2
  <2>5. Raised' <= Raised /\ Raised \in Nat /\ Raised' \in Nat
    <3>1. signal' = FALSE \/ signal' = signal
      BY HeldItem
    <3> QED
      BY <3>1 DEF Raised
  <2> QED
    BY <1>0, <1>1, <2>3, <2>4, <2>5
<1>3. ASSUME NEW w \in Watches, NEW i \in Nat, held[c] = <<w, i>>, Returns(c),
             handed' = [handed EXCEPT ![w] = Append(handed[w], i)], dropped' = dropped
      PROVE  (\A v \in Watches : Handed(v)') /\ Raised' = Raised
  <2>1. ASSUME NEW v \in Watches PROVE Handed(v)'
    <3>1. InFlight(v) = InFlight(v)' \cup (IF v = w THEN {i} ELSE {})
      BY <1>0, <1>3, FlightEnds
    <3>2. Range(handed'[v]) = Range(handed[v]) \cup (IF v = w THEN {i} ELSE {})
      BY <1>0, <1>3, RangeKept
    <3> QED
      BY <1>0, <1>3, <3>1, <3>2 DEF Handed
  <2>2. Raised' = Raised
    <3>1. signal' = signal
      BY <1>3 DEF Returns
    <3> QED
      BY <3>1 DEF Raised
  <2> QED
    BY <2>1, <2>2
<1>4. ASSUME NEW w \in Watches, NEW i \in Nat, held[c] = <<w, i>>, Interrupted(c), handed' = handed,
             dropped' = dropped \cup {<<w, i>>}
      PROVE  /\ \A v \in Watches : Handed(v)'
             /\ Raised = 1 /\ Raised' = 0
  <2>1. ASSUME NEW v \in Watches PROVE Handed(v)'
    <3>1. InFlight(v) = InFlight(v)' \cup (IF v = w THEN {i} ELSE {})
      BY <1>0, <1>4, FlightEnds
    <3>2. ItemsOf(v, dropped') = ItemsOf(v, dropped) \cup (IF v = w THEN {i} ELSE {})
      BY <1>4, ItemAdded
    <3> QED
      BY <1>0, <1>4, <3>1, <3>2 DEF Handed
  <2> QED
    BY <1>4, <2>1, HeldItem DEF Raised
<1>5. ASSUME NEW i
      PROVE  /\ IsFiniteSet(dropped \cup {i}) /\ Cardinality(dropped \cup {i}) \in Nat
             /\ Cardinality(dropped \cup {i}) <= Cardinality(dropped) + 1
  <2>1. /\ IsFiniteSet(dropped \cup {i})
        /\ Cardinality(dropped \cup {i}) = (IF i \in dropped THEN Cardinality(dropped)
                                           ELSE Cardinality(dropped) + 1)
    BY FS_AddElement
  <2> QED
    BY <1>1, <2>1
<1>6. Raised \in Nat
  BY DEF Raised
<1>7. (\E w \in Watches, i \in Nat :
        /\ held[c] = <<w, i>>
        /\ \/ Returns(c) /\ handed' = [handed EXCEPT ![w] = Append(handed[w], i)] /\ dropped' = dropped
           \/ Interrupted(c) /\ handed' = handed /\ dropped' = dropped \cup {<<w, i>>})
      \/ (held[c] = <<>> /\ UNCHANGED <<handed, dropped>>)
  BY HeldItem
<1>8. ASSUME NEW w \in Watches, NEW i \in Nat, held[c] = <<w, i>>, Interrupted(c), handed' = handed,
             dropped' = dropped \cup {<<w, i>>}
      PROVE  (\A v \in Watches : Handed(v)') /\ IsFiniteSet(dropped') /\ Cardinality(dropped') + Raised' <= interrupts'
  <2>1. /\ \A v \in Watches : Handed(v)'
        /\ Raised = 1 /\ Raised' = 0
    BY <1>4, <1>8
  <2>2. IsFiniteSet(dropped') /\ Cardinality(dropped') \in Nat /\ Cardinality(dropped') <= Cardinality(dropped) + 1
    BY <1>5, <1>8
  <2> QED
    BY <1>0, <1>1, <2>1, <2>2
<1> QED
  BY <1>0, <1>1, <1>2, <1>3, <1>6, <1>7, <1>8

LEMMA HandStep == Inv /\ HandInv /\ [Next]_vars => HandInv'
<1> SUFFICES ASSUME Inv, HandInv, [Next]_vars, consumer = "python" PROVE HandInv'
  BY ConsumerStays DEF HandInv
<1>0. /\ WatchTypes /\ PyTypes /\ (\A c \in Calls : CallInv(c)) /\ (\A v \in Watches : Handed(v))
      /\ IsFiniteSet(dropped) /\ Cardinality(dropped) + Raised <= interrupts
      /\ interrupts \in Nat /\ Cardinality(dropped) \in Nat
  BY FS_CardinalityType DEF Inv, PyInv, HandInv, Handed, Raised, PyTypes
<1>1. SUFFICES (\A v \in Watches : Handed(v)') /\ IsFiniteSet(dropped') /\ Cardinality(dropped') + Raised' <= interrupts'
  BY DEF HandInv, Handed, Raised
<1>2. CASE UNCHANGED <<received, held, handed, dropped, signal, interrupts>>
  <2>1. \A v \in Watches : InFlight(v)' = InFlight(v)
    BY <1>2 DEF InFlight
  <2>2. Raised' = Raised
    BY <1>2 DEF Raised
  <2> QED
    BY <1>0, <1>2, <2>1, <2>2 DEF Handed
<1>3. ASSUME NEW c \in Calls, PyStep(c)
      PROVE  (\A v \in Watches : Handed(v)') /\ IsFiniteSet(dropped') /\ Cardinality(dropped') + Raised' <= interrupts'
  <2>1. CASE Quiet(c)
    BY <1>0, <1>2, <2>1, QuietSteps
  <2>2. CASE Polls(c)
    <3>1. (\A v \in Watches : Handed(v)') /\ UNCHANGED <<dropped, signal, interrupts>>
      BY <1>0, <2>2, PollHands
    <3>2. Raised' = Raised
      BY <3>1 DEF Raised
    <3> QED
      BY <1>0, <3>1, <3>2
  <2>3. CASE PollsPending(c) \/ PollsEnd(c)
    BY <1>2, <2>3
       DEF PollsPending, PollPending, PollsEnd, PollEnd, PollNothing, Stays, pyVars, pyHistory
  <2>4. CASE Interrupted(c) \/ Returns(c)
    BY <1>0, <2>4, SignalHands
  <2>5. CASE TakesStream(c) \/ Drains(c) \/ CloseReturns(c)
             \/ (\E k \in {"next", "run", "close"} : Call(c, k)) \/ Abandoned(c) \/ DeliveryLost(c)
    BY <1>0, <1>2, <2>5, CloseSteps
  <2> QED
    BY <1>3, <2>1, <2>2, <2>3, <2>4, <2>5, PySteps
<1>4. CASE Signals
  <2>1. UNCHANGED <<received, held, handed, dropped>> /\ interrupts' = interrupts + 1 /\ signal' = TRUE
    BY <1>4 DEF Signals, watchVars, streamVars, pyHistory
  <2>2. \A v \in Watches : InFlight(v)' = InFlight(v)
    BY <2>1 DEF InFlight
  <2>3. Raised \in Nat /\ Raised' = 1
    BY <2>1 DEF Raised
  <2> QED
    BY <1>0, <2>1, <2>2, <2>3 DEF Handed
<1>5. CASE LastCloneGoes \/ (UNCHANGED pyVars /\ UNCHANGED received)
  BY <1>2, <1>5 DEF LastCloneGoes, pyVars, pyHistory, streamVars
<1>6. Python \/ (UNCHANGED pyVars /\ UNCHANGED received)
  <2>1. ASSUME NEW w \in Watches, SupervisorEnds(w) \/ SupervisorSends(w)
        PROVE  UNCHANGED pyVars /\ UNCHANGED received
    BY <2>1 DEF SupervisorEnds, SupervisorSends, SendsItem, SendsError, EndsItself, SeesCancel, Finishes, streamVars
  <2>2. CASE Opens
    BY <2>2 DEF Opens, Open
  <2>3. CASE UNCHANGED vars
    BY <2>3 DEF vars, watchVars, streamVars
  <2>4. CASE Next
    BY <2>1, <2>2, <2>4 DEF Next, Rust, C, Cli
  <2> QED
    BY <2>3, <2>4
<1> QED
  BY <1>3, <1>4, <1>5, <1>6 DEF Python, PyNext, PyCallers, PyStep

-----------------------------------------------------------------------------
(* The command line.                                                       *)

LEMMA CliStep == Inv /\ [Next]_vars => CliInv'
<1> SUFFICES ASSUME Inv, [Next]_vars PROVE CliInv'
  OBVIOUS
<1>0. /\ consumer' = consumer /\ OthersStill' /\ WatchTypes /\ CliInv
      /\ listener \in [Watches -> {"unspawned", "spawned", "reading", "closing", "returned", "joined"}]
      /\ exitCode \in Int /\ 1 \in Watches /\ phase \in [Watches -> Phases]
  BY ConsumerStays, StillStep, ManyWatchesAssumption DEF Inv, CliInv, WatchTypes, Watches
<1>1. CASE consumer # "cli"
  <2>1. CliInit'
    BY <1>0, <1>1 DEF OthersStill
  <2> QED
    BY <1>0, <1>1, <2>1 DEF CliInit, CliInv
<1>2. CASE consumer = "cli" /\ UNCHANGED vars
  BY <1>0, <1>2 DEF CliInv, vars, cliVars, Listeners, watchVars, taskVars
<1>3. ASSUME consumer = "cli", NEW w \in Watches, SupervisorEnds(w) \/ SupervisorSends(w) PROVE CliInv'
  <2>1. Supervised(w) /\ UNCHANGED cliVars
    BY <1>3 DEF SupervisorEnds, SupervisorSends, Supervised
  <2>2. PICK at, items : Supervises(w, at, items)
    BY <1>0, <2>1, SupervisedEffect
  <2>3. /\ phase[w] \in {"running", "flushing"} /\ at \in {"running", "flushing", "done"}
        /\ phase' = [phase EXCEPT ![w] = at] /\ UNCHANGED <<command, listener, exitCode>>
    BY <2>1, <2>2 DEF Supervises, cliVars
  <2> QED
    BY <1>0, <1>3, <2>3 DEF CliInv, Listeners
<1>4. CASE Cli /\ (CannotInstall \/ Sigint \/ Tells \/ WindowPasses)
  <2>1. UNCHANGED <<command, listener, phase>> /\ (exitCode' = exitCode \/ exitCode' = 130)
    BY <1>4 DEF CannotInstall, Sigint, Tells, WindowPasses, Fixed, watchVars, taskVars
  <2> QED
    BY <1>0, <2>1 DEF CliInv, Listeners
<1>5. CASE Cli /\ Exit
  <2>1. UNCHANGED <<command, listener, phase>> /\ exitCode' \in {0, 1} /\ \A w \in Listeners : listener[w] = "joined"
    BY <1>5 DEF Exit, Fixed, watchVars, taskVars
  <2> QED
    BY <1>0, <2>1 DEF CliInv, Listeners
<1>6. ASSUME Cli, NEW w \in Watches, CliTasks(w) PROVE CliInv'
  <2>1. ASSUME Runs, UNCHANGED <<command, exitCode, phase>>, NEW where, MovesTo(w, where),
               where \in {"spawned", "reading", "closing", "returned", "joined"}, w \in Listeners,
               where = "spawned" => phase[w] = "unopened",
               where \in {"reading", "closing"} => phase[w] # "unopened",
               where \in {"returned", "joined"} => phase[w] \in {"unopened", "done"}
        PROVE  CliInv'
    BY <1>0, <1>6, <2>1 DEF CliInv, Listeners, MovesTo, Runs, Cli
  <2>2. listener[w] # "unspawned" => w \in Listeners
    BY <1>0 DEF CliInv
  <2>3. CASE Refuses(w)
    <3>1. UNCHANGED <<command, listener, phase>> /\ exitCode' = 2
      BY <2>3 DEF Refuses, Fixed, watchVars, taskVars
    <3> QED
      BY <1>0, <3>1 DEF CliInv, Listeners
  <2>4. CASE Spawn(w)
    <3>1. /\ Runs /\ UNCHANGED <<command, exitCode, phase>> /\ MovesTo(w, "spawned")
          /\ w \in Listeners /\ listener[w] = "unspawned"
      BY <2>4 DEF Spawn, Fixed, watchVars, taskVars
    <3>2. phase[w] = "unopened"
      BY <1>0, <1>6, <3>1 DEF CliInv, Cli
    <3> QED
      BY <2>1, <3>1, <3>2
  <2>5. CASE Join(w)
    <3>1. /\ Runs /\ UNCHANGED <<command, exitCode, phase>> /\ MovesTo(w, "joined")
          /\ listener[w] = "returned"
      BY <2>5 DEF Join, Fixed, watchVars, taskVars
    <3>2. phase[w] \in {"unopened", "done"}
      BY <1>0, <1>6, <3>1 DEF CliInv, Cli
    <3> QED
      BY <2>1, <2>2, <3>1, <3>2
  <2>6. CASE ListenerSkips(w) \/ (ListenerOpens(w) /\ MovesTo(w, "returned") /\ UNCHANGED watchVars)
    <3>1. /\ Runs /\ UNCHANGED <<command, exitCode, phase>> /\ MovesTo(w, "returned")
          /\ listener[w] = "spawned"
      BY <2>6 DEF ListenerSkips, ListenerOpens, Fixed, watchVars, taskVars
    <3>2. phase[w] = "unopened"
      BY <1>0, <1>6, <3>1 DEF CliInv, Cli
    <3> QED
      BY <2>1, <2>2, <3>1, <3>2
  <2>7. CASE ListenerOpens(w) /\ MovesTo(w, "reading") /\ Open({w})
    <3>1. /\ Runs /\ UNCHANGED <<command, exitCode>> /\ listener[w] = "spawned"
          /\ listener' = [listener EXCEPT ![w] = "reading"]
          /\ phase' = [phase EXCEPT ![w] = "running"]
      BY <1>0, <2>7 DEF ListenerOpens, Fixed, MovesTo, Open
    <3> QED
      BY <1>0, <1>6, <2>2, <3>1 DEF CliInv, Listeners, Runs, Cli
  <2>8. CASE ListenerCancelled(w) \/ StatusFails(w) \/ ListenerFails(w) \/ ListenerEnds(w)
    <3>1. /\ Runs /\ UNCHANGED <<command, exitCode, phase>> /\ MovesTo(w, "closing")
          /\ listener[w] = "reading"
      BY <2>8 DEF ListenerCancelled, StatusFails, ListenerFails, ListenerEnds, LeavesLoop, CancelOne, Fixed, taskVars
    <3>2. phase[w] # "unopened"
      BY <1>0, <1>6, <3>1 DEF CliInv, Cli
    <3> QED
      BY <2>1, <2>2, <3>1, <3>2
  <2>9. CASE ListenerReads(w)
    <3>1. UNCHANGED <<command, exitCode, phase, listener>>
      BY <2>9 DEF ListenerReads, RecvItem, cliVars
    <3> QED
      BY <1>0, <3>1 DEF CliInv, Listeners
  <2>10. CASE ListenerCloses(w)
    <3>1. /\ Runs /\ UNCHANGED <<command, exitCode, phase>> /\ MovesTo(w, "returned")
          /\ listener[w] = "closing" /\ phase[w] = "done"
      BY <2>10 DEF ListenerCloses, CloseWaits, Fixed, taskVars
    <3> QED
      BY <2>1, <2>2, <3>1
  <2> QED
    BY <1>6, <2>3, <2>4, <2>5, <2>6, <2>7, <2>8, <2>9, <2>10 DEF CliTasks, ListenerOpens
<1> QED
  BY <1>1, <1>2, <1>3, <1>4, <1>5, <1>6 DEF Next, Opens, Rust, C, Python, Cli, CliNext

-----------------------------------------------------------------------------
(* The theorems.                                                           *)

LEMMA InvInit == Init => Inv /\ TurnInv /\ HandInv
<1> SUFFICES ASSUME Init PROVE Inv /\ TurnInv /\ HandInv
  OBVIOUS
<1>0. WatchesInit /\ CInit /\ PyInit /\ CliInit /\ consumer \in {"rust", "c", "python", "cli"} /\ 1 \in Watches
  BY ManyWatchesAssumption DEF Init, Watches
<1>1. WatchTypes
  <2>1. <<>> \in Seq(Nat) /\ 0 \in Nat
    OBVIOUS
  <2>2. /\ channel \in [Watches -> Seq(Nat)] /\ received \in [Watches -> Seq(Nat)]
        /\ sent \in [Watches -> Nat] /\ passed \in [Watches -> Nat]
    BY <1>0, <2>1 DEF WatchesInit
  <2> QED
    BY <1>0, <2>2 DEF WatchesInit, WatchTypes, Phases, PlacesOf
<1>2. OthersStill /\ OpenInv
  BY <1>0 DEF OthersStill, OpenInv, WatchesInit
<1>3. CInv
  <2>1. Said = {}
    BY <1>0 DEF CInit, Said
  <2>2. CTypes /\ EndsOnce /\ WaitersWait
    BY <1>0 DEF CInit, CTypes, CStages, EndsOnce, WaitersWait
  <2>3. ReadsUntilClosed /\ FailuresHold /\ ReasonHolds
    BY <1>0, <2>1 DEF CInit, WatchesInit, ReadsUntilClosed, FailuresHold, ReasonHolds
  <2> QED
    BY <2>2, <2>3 DEF CInv
<1>4. PyInv
  <2>1. <<>> \in Items /\ <<>> \in Seq(Nat)
    BY DEF Items
  <2>2. held \in [Calls -> Items] /\ handed \in [Watches -> Seq(Nat)] /\ dropped \in SUBSET (Watches \X Nat)
    BY <1>0, <2>1 DEF PyInit
  <2>3. PyTypes
    BY <1>0, <2>2 DEF PyInit, PyTypes, Stages
  <2>4. \A c \in Calls : CallInv(c)
    BY <1>0 DEF PyInit, CallInv
  <2>5. StreamInv
    BY <1>0 DEF PyInit, WatchesInit, StreamInv
  <2> QED
    BY <2>3, <2>4, <2>5 DEF PyInv
<1>5. CliInv
  BY <1>0 DEF CliInit, CliInv, WatchesInit
<1>6. TurnInv
  BY <1>0, ManyWatchesAssumption DEF WatchesInit, TurnInv, HasItem
<1>7. HandInv
  <2>1. dropped = {}
    BY <1>0 DEF PyInit
  <2>2. IsFiniteSet(dropped) /\ Cardinality(dropped) = 0
    BY <2>1, FS_EmptySet
  <2>3. \A w \in Watches : InFlight(w) = {} /\ ItemsOf(w, dropped) = {} /\ handed[w] = received[w]
    BY <1>0, <2>1 DEF PyInit, WatchesInit, InFlight, ItemsOf, Range
  <2>4. signal = FALSE /\ interrupts = 0
    BY <1>0 DEF PyInit
  <2> QED
    BY <2>2, <2>3, <2>4 DEF HandInv
<1> QED
  BY <1>1, <1>2, <1>3, <1>4, <1>5, <1>6, <1>7 DEF Inv

LEMMA InvStep == Inv /\ [Next]_vars => Inv'
BY WatchTypesStep, StillStep, OpenStep, CInvStep, PyInvStep, CliStep DEF Inv

LEMMA InvHolds == Spec => [](Inv /\ TurnInv /\ HandInv)
<1>1. Inv /\ TurnInv /\ HandInv /\ [Next]_vars => (Inv /\ TurnInv /\ HandInv)'
  BY InvStep, TurnStep, HandStep
<1> QED
  BY InvInit, <1>1, PTL DEF Spec

(* A busy watch never starves another (multi.rs poll_next), whatever the   *)
(* number of watches and of their items.                                   *)
THEOREM TurnsAreFair == Spec => []EachGetsItsTurn
<1>1. TurnInv => EachGetsItsTurn
  BY DEF TurnInv, EachGetsItsTurn
<1> QED
  BY InvHolds, <1>1, PTL

(* on_end is called once, when the task ends, and with the outcome that    *)
(* the failures and the stop make it (handle.rs, many/mod.rs).             *)
THEOREM EndIsHeardOnce == Spec => []EndIsReported
<1>1. Inv => EndIsReported
  <2> SUFFICES ASSUME CInv PROVE EndIsReported
    BY DEF Inv
  <2>1. CTypes /\ EndsOnce /\ FailuresHold /\ ReasonHolds
    BY DEF CInv
  <2>2. CASE cTask # "ended"
    BY <2>1, <2>2 DEF EndsOnce, EndIsReported
  <2>3. CASE cTask = "ended"
    <3>1. PICK outcome : ends = <<outcome>>
      BY <2>1, <2>3 DEF EndsOnce
    <3>2. Len(ends) = 1 /\ ends # <<>> /\ DOMAIN ends = {1} /\ ends[1] = outcome
      BY <3>1
    <3>3. Said = {outcome}
      BY <2>3, <3>2 DEF Said
    <3>4. {ends[i] : i \in DOMAIN ends} = {outcome}
      BY <3>2
    <3>5. outcome = "allFailed" => failures = Watches
      BY <2>1, <3>3 DEF ReasonHolds
    <3>6. failures \subseteq Failed /\ Failed \subseteq Watches
      BY <2>1 DEF FailuresHold, Failed
    <3>7. outcome = "graceful" /\ ~stopFlag => Cardinality(failures) < Count
      <4>1. failures \in SUBSET Watches
        BY <2>1 DEF CTypes
      <4> QED
        BY <2>1, <3>3, <4>1, AllCounted, ManyWatchesAssumption DEF ReasonHolds
    <3>8. "allFailed" \in {ends[i] : i \in DOMAIN ends} => Failed = Watches
      BY <3>4, <3>5, <3>6
    <3>9. \A i \in DOMAIN ends : ends[i] = "graceful" /\ ~stopFlag => Cardinality(failures) < Count
      BY <3>2, <3>7
    <3> QED
      BY <2>3, <3>2, <3>8, <3>9 DEF EndIsReported
  <2> QED
    BY <2>2, <2>3
<1> QED
  BY InvHolds, <1>1, PTL

(* Whoever has been told that its watches are over finds their checkpoints *)
(* written, in each of the four interfaces, and a thread that has waited   *)
(* finds the task of the C interface ended.                                *)
THEOREM OverIsFlushed == Spec => []OverMeansFlushed
<1>1. Inv => OverMeansFlushed
  <2> SUFFICES ASSUME Inv PROVE OverMeansFlushed
    OBVIOUS
  <2>0. /\ consumer \in {"rust", "c", "python", "cli"} /\ WatchTypes /\ OpenInv
        /\ ReadsUntilClosed /\ EndsOnce /\ WaitersWait /\ StreamInv /\ CliInv
        /\ consumer # "c" => ~StartFailed
        /\ consumer # "python" => ~givenUp
    BY DEF Inv, CInv, PyInv, OthersStill, CInit, PyInit, StartFailed
  <2>1. \A t \in Waiters : waiter[t] = "returned" => cTask = "ended"
    BY <2>0 DEF WaitersWait
  <2>2. AllClosed /\ ~givenUp => \A w \in Opened : phase[w] = "done"
    BY <2>0 DEF AllClosed, Opened, OpenInv
  <2>3. ASSUME consumer = "rust", Ready, CloseDone PROVE AllClosed
    <3>1. \A w \in Watches : phase[w] # "unopened"
      BY <2>0, <2>3 DEF Ready, Opened, OpenInv
    <3> QED
      BY <2>0, <2>3, <3>1 DEF AllClosed, CloseDone, OpenInv
  <2>4. ASSUME consumer = "c", ends # <<>>, ends[1] # "startError" PROVE AllClosed
    BY <2>0, <2>4 DEF ReadsUntilClosed, EndsOnce, StartFailed, AllClosed
  <2>5. ASSUME ~givenUp, \E c \in Calls : kind[c] = "close" /\ call[c] = "returned" PROVE AllClosed
    BY <2>0, <2>5 DEF StreamInv
  <2>6. ASSUME consumer = "cli", exitCode \in {0, 1}, NEW w \in Watches, phase[w] # "unopened"
        PROVE  phase[w] = "done"
    BY <2>0, <2>6 DEF CliInv
  <2>7. Over => \A w \in Opened : phase[w] = "done"
    BY <2>0, <2>2, <2>3, <2>4, <2>5, <2>6 DEF Over, Opened
  <2> QED
    BY <2>1, <2>7 DEF OverMeansFlushed
<1> QED
  BY InvHolds, <1>1, PTL

(* The watches of an iterator go on until it closes: nothing cancels them, *)
(* and the clone of the client it holds keeps them, although the caller    *)
(* keeps neither the client nor a call in flight (streams.rs Open).        *)
THEOREM IteratorsListen == Spec => []ListensUntilClosed
<1>1. Inv => ListensUntilClosed
  BY DEF Inv, PyInv, StreamInv, ListensUntilClosed, Told
<1> QED
  BY InvHolds, <1>1, PTL

(* Nothing a poll brings to an iterator is lost to a timeout, to a future  *)
(* dropped at an await or to a close; to a KeyboardInterrupt at most the   *)
(* item that the interrupted read was holding; and to the cancellation of  *)
(* a task that was about to get it, the one item of its own call           *)
(* (many.rs and streams.rs, __next__ and __anext__).                       *)
THEOREM ItemsAreHandedOver == Spec => []HandsOver
<1>1. Inv /\ HandInv => HandsOver
  <2> SUFFICES ASSUME Inv, HandInv, consumer = "python" PROVE PyHandsOver
    BY DEF HandsOver
  <2>1. Cardinality(dropped) \in Nat /\ Cardinality(dropped) + Raised <= interrupts /\ interrupts \in Nat
    BY FS_CardinalityType DEF HandInv, Raised, Inv, PyInv, PyTypes
  <2>2. Raised \in Nat
    BY DEF Raised
  <2>3. Cardinality(dropped) <= interrupts
    BY <2>1, <2>2
  <2>4. \A c \in Calls : held[c] # <<>> => call[c] \in {"signals", "delivering", "undelivered"}
    BY DEF Inv, PyInv, CallInv
  <2> QED
    BY <2>3, <2>4 DEF PyHandsOver, HandInv, InFlight
<1> QED
  BY InvHolds, <1>1, PTL
===============================================================================
