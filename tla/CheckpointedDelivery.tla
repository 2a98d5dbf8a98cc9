------------------------ MODULE CheckpointedDelivery ------------------------
(***************************************************************************)
(* What a watch with a checkpoint promises, without connections, channels  *)
(* or failures: the events of a log that match a filter are handed over in *)
(* order, each right after the one before it, and a checkpoint follows     *)
(* what has been handed over.  A process that starts takes its place from  *)
(* the checkpoint or from the start it was given; one that has neither     *)
(* takes the head of the log when it subscribes.                           *)
(*                                                                         *)
(* The supervisor implements this specification (SupervisorDelivery).      *)
(***************************************************************************)
EXTENDS Integers

CONSTANTS
  Matching,   \* sequences of the events a watch asks for
  FixedStart  \* the position the request names, or None

None == -1

(* What the theorems ask of the constants.                                 *)
DeliveryConstants ==
  /\ Matching \subseteq Nat
  /\ FixedStart \in Nat \cup {None}

VARIABLES
  head,      \* sequence of the newest event
  base,      \* the event right before the first one that is owed
  position,  \* the last event handed over by this process, or its start
  durable,   \* the checkpoint
  handled    \* events handed over by any process

vars == <<head, base, position, durable, handled>>

-----------------------------------------------------------------------------

(* Where the next event is looked for.                                     *)
Floor == IF position # None THEN position ELSE base

IsNext(s) ==
  /\ s \in Matching
  /\ Floor < s /\ s <= head
  /\ \A t \in Matching : Floor < t => s <= t

Publish == head' = head + 1 /\ UNCHANGED <<base, position, durable, handled>>

(* A process picks up its place.                                           *)
Start ==
  /\ position = None
  /\ position' \in {durable, FixedStart} \ {None}
  /\ UNCHANGED <<head, base, durable, handled>>

(* A live subscription without a place begins at the head, and may do so   *)
(* again as long as nothing is committed.                                  *)
Subscribe ==
  /\ FixedStart = None /\ position = None /\ durable = None
  /\ base' = head
  /\ UNCHANGED <<head, position, durable, handled>>

Deliver(s) ==
  /\ base # None
  /\ IsNext(s)
  /\ position' = s
  /\ handled' = handled \cup {s}
  /\ UNCHANGED <<head, base, durable>>

(* What this process may commit.                                           *)
Committable == {s \in handled : s <= position}

Commit ==
  /\ durable' \in Committable
  /\ durable < durable'
  /\ UNCHANGED <<head, base, position, handled>>

(* The process ends; its position goes with it.                            *)
Stop ==
  /\ position' = None
  /\ UNCHANGED <<head, base, durable, handled>>

Init ==
  /\ head \in Nat
  /\ base \in Nat \cup {None}
  /\ FixedStart # None => base = FixedStart
  /\ position = None
  /\ durable = None
  /\ handled = {}

Next ==
  \/ Publish \/ Start \/ Subscribe \/ Commit \/ Stop
  \/ \E s \in Matching : Deliver(s)

Spec == Init /\ [][Next]_vars

-----------------------------------------------------------------------------
(* Properties.                                                             *)

DeliveryTypeOK ==
  /\ head \in Nat
  /\ {base, position, durable} \subseteq Nat \cup {None}
  /\ handled \subseteq Matching

(* The checkpoint never covers an event that was not handed over, by this  *)
(* process or an earlier one (what drain.rs and exit_flush.rs put).        *)
CheckpointCoversHandled ==
  durable # None => \A s \in Matching : base < s /\ s <= durable => s \in handled

(* The strengthening that is inductive: neither does the position, and a   *)
(* fixed start is where the owed events begin.                             *)
PositionCoversHandled ==
  position # None => \A s \in Matching : base < s /\ s <= position => s \in handled

DeliveryInv ==
  /\ DeliveryTypeOK
  /\ CheckpointCoversHandled
  /\ PositionCoversHandled
  /\ FixedStart # None => base = FixedStart
  /\ durable # None => base # None
  /\ handled # {} => base # None
=============================================================================
