----------------------------- MODULE ManyWatches -----------------------------
(***************************************************************************)
(* Watches as their readers see them, opened together by watch_many and    *)
(* merged into one stream by MultiNotificationStream (watch/multi.rs).     *)
(*                                                                         *)
(* A watch is its supervisor, which fills a channel and ends in a flush of *)
(* the checkpoint, and its NotificationStream, which reads the channel and *)
(* cancels the supervisor.  Supervisor models the inside of one; here a    *)
(* supervisor sends its items, or an error as its last one, or just ends.  *)
(*                                                                         *)
(* Items of a watch are numbered from 1; 0 is an error.  The channel has a *)
(* single slot, as it has when a store is configured.                      *)
(***************************************************************************)
EXTENDS Integers, Sequences, FiniteSets

CONSTANTS
  Count,     \* number of watches
  MaxItems   \* bound on the notifications of a watch

ASSUME ManyWatchesAssumption == Count \in Nat \ {0} /\ MaxItems \in Nat

Watches == 1 .. Count
Failure == 0
Nobody  == "nobody"

VARIABLES
  phase,      \* per watch: unopened, running, flushing or done
  channel,    \* per watch: what it has sent and nobody has received
  sent,       \* per watch: notifications sent
  cancelled,  \* the watches whose stream has dropped its sender
  clientGone, \* the last clone of the client has been dropped
  place,      \* per watch, in the merged stream: unread, reading, stopped or closed
  turn,       \* MultiNotificationStream::next
  (* History, read by the properties only. *)
  received,   \* per watch: what has been received
  passed      \* per watch: items of others received while one of its own waited

taskVars   == <<phase, channel, sent>>
streamVars == <<cancelled, place, turn, received, passed>>
watchVars  == <<taskVars, streamVars, clientGone>>

-----------------------------------------------------------------------------
(* The supervisor of watch w, as far as its reader can tell.               *)

HasSlot(w) == Len(channel[w]) = 0
Told(w)    == w \in cancelled \/ clientGone

SendsItem(w) ==
  /\ phase[w] = "running" /\ ~Told(w) /\ HasSlot(w) /\ sent[w] < MaxItems
  /\ sent' = [sent EXCEPT ![w] = @ + 1]
  /\ channel' = [channel EXCEPT ![w] = Append(@, sent[w] + 1)]
  /\ UNCHANGED <<phase, streamVars, clientGone>>

(* An error is the last item; the flush follows it.                        *)
SendsError(w) ==
  /\ phase[w] = "running" /\ HasSlot(w)
  /\ channel' = [channel EXCEPT ![w] = Append(@, Failure)]
  /\ phase' = [phase EXCEPT ![w] = "flushing"]
  /\ UNCHANGED <<sent, streamVars, clientGone>>

(* The server has ended the session for good.                              *)
EndsItself(w) ==
  /\ phase[w] = "running"
  /\ phase' = [phase EXCEPT ![w] = "flushing"]
  /\ UNCHANGED <<channel, sent, streamVars, clientGone>>

SeesCancel(w) ==
  /\ phase[w] = "running" /\ Told(w)
  /\ phase' = [phase EXCEPT ![w] = "flushing"]
  /\ UNCHANGED <<channel, sent, streamVars, clientGone>>

(* The checkpoint is written; done_signal is sent, then the sender of the  *)
(* channel is dropped.                                                     *)
Finishes(w) ==
  /\ phase[w] = "flushing"
  /\ phase' = [phase EXCEPT ![w] = "done"]
  /\ UNCHANGED <<channel, sent, streamVars, clientGone>>

-----------------------------------------------------------------------------
(* Opening.  watch_many checks every request before it opens the first.    *)

Open(ws) ==
  /\ phase' = [w \in Watches |-> IF w \in ws THEN "running" ELSE phase[w]]
  /\ place' = [w \in Watches |-> IF w \in ws THEN "reading" ELSE place[w]]
  /\ UNCHANGED <<channel, sent, cancelled, clientGone, turn, received, passed>>

(* The watch after those in ws could not be opened: these are dropped.     *)
OpenedInVain(ws) ==
  /\ phase' = [w \in Watches |-> IF w \in ws THEN "running" ELSE phase[w]]
  /\ cancelled' = cancelled \cup ws
  /\ UNCHANGED <<channel, sent, clientGone, place, turn, received, passed>>

-----------------------------------------------------------------------------
(* MultiNotificationStream::poll_next.                                     *)

HasItem(w)  == place[w] = "reading" /\ channel[w] # <<>>
HasEnded(w) == place[w] = "reading" /\ channel[w] = <<>> /\ phase[w] = "done"

(* How far from `turn` watch w is looked at.                               *)
Offset(w) == (w - turn) % Count

IsNext(w) == HasItem(w) /\ \A v \in Watches : HasItem(v) => Offset(w) <= Offset(v)

(* Mutation: a busy watch keeps its turn.                                  *)
SameTurn(w)  == w
AfterTurn(w) == (w % Count) + 1

(* Watches that stop being read are kept, so that close waits for them.    *)
(* Mutation: a failed watch is dropped where it stands.                    *)
DropsFailed(w) == "closed"
KeepsFailed(w) == "stopped"

Receive(w) ==
  /\ received' = [received EXCEPT ![w] = Append(@, Head(channel[w]))]
  /\ channel' = [channel EXCEPT ![w] = Tail(@)]
  /\ passed' = [v \in Watches |-> IF v # w /\ HasItem(v) THEN passed[v] + 1 ELSE 0]

(* The poll yields the item of w, or its error; under Stop the other       *)
(* watches are cancelled.                                                  *)
PollItem(w, policy) ==
  LET failed   == Head(channel[w]) = Failure
      stopping == failed /\ policy = "stop"
      ended    == {v \in Watches : HasEnded(v) /\ Offset(v) < Offset(w)}
      others   == {v \in Watches \ {w} : stopping /\ place[v] = "reading"}
  IN /\ IsNext(w)
     /\ Receive(w)
     /\ turn' = AfterTurn(w)
     /\ place' = [v \in Watches |->
                    IF v = w /\ failed THEN KeepsFailed(v)
                    ELSE IF v \in ended \cup others THEN "stopped" ELSE place[v]]
     /\ cancelled' = cancelled \cup (others \ ended)
     /\ UNCHANGED <<phase, sent, clientGone>>

(* The poll finds nothing: ended watches stop being read.                  *)
PollNothing ==
  /\ ~\E w \in Watches : HasItem(w)
  /\ place' = [v \in Watches |-> IF HasEnded(v) THEN "stopped" ELSE place[v]]
  /\ UNCHANGED <<taskVars, cancelled, clientGone, turn, received, passed>>

AllStopped == \A w \in Watches : place[w] # "reading"

(* The poll says that the stream has ended.                                *)
PollEnd == PollNothing /\ \A w \in Watches : place'[w] # "reading"

(* It is pending, and will be polled again.                                *)
PollPending == PollNothing /\ ~\A w \in Watches : place'[w] # "reading"

(* close: cancel all, then wait for each.                                  *)
CloseBegins ==
  /\ cancelled' = cancelled \cup {w \in Watches : place[w] = "reading"}
  /\ place' = [w \in Watches |-> IF place[w] = "reading" THEN "stopped" ELSE place[w]]
  /\ UNCHANGED <<taskVars, clientGone, turn, received, passed>>

CloseWaits(w) ==
  /\ place[w] = "stopped" /\ phase[w] = "done"
  /\ place' = [place EXCEPT ![w] = "closed"]
  /\ UNCHANGED <<taskVars, cancelled, clientGone, turn, received, passed>>

CloseDone == \A w \in Watches : place[w] \in {"unread", "closed"}

-----------------------------------------------------------------------------
(* NotificationStream: one watch, read on its own.                         *)

RecvItem(w) ==
  /\ HasItem(w)
  /\ Receive(w)
  /\ UNCHANGED <<phase, sent, cancelled, clientGone, place, turn>>

CancelOne(w) ==
  /\ cancelled' = cancelled \cup {w}
  /\ place' = [place EXCEPT ![w] = "stopped"]
  /\ UNCHANGED <<taskVars, clientGone, turn, received, passed>>

(* Dropped with all it still holds: nobody waits.                          *)
DropAll ==
  /\ cancelled' = cancelled \cup Watches
  /\ place' = [w \in Watches |-> IF place[w] = "unread" THEN place[w] ELSE "closed"]
  /\ UNCHANGED <<taskVars, clientGone, turn, received, passed>>

-----------------------------------------------------------------------------
(* A program that reads the merged stream under Stop, and closes it.       *)
MultiNext ==
  \/ \E w \in Watches : PollItem(w, "stop")
  \/ PollNothing /\ place' # place
  \/ CloseBegins /\ place' # place
  \/ AllStopped /\ \E w \in Watches : CloseWaits(w)

-----------------------------------------------------------------------------
WatchesInit ==
  /\ phase = [w \in Watches |-> "unopened"]
  /\ channel = [w \in Watches |-> <<>>] /\ sent = [w \in Watches |-> 0]
  /\ cancelled = {} /\ clientGone = FALSE
  /\ place = [w \in Watches |-> "unread"] /\ turn = 1
  /\ received = [w \in Watches |-> <<>>] /\ passed = [w \in Watches |-> 0]

Opened   == {w \in Watches : phase[w] # "unopened"}
Failed   == {w \in Watches : received[w] # <<>> /\ received[w][Len(received[w])] = Failure}

=============================================================================
