------------------------- MODULE SupervisorDelivery -------------------------
(***************************************************************************)
(* A supervisor connected to an honest server implements the checkpointed  *)
(* delivery of its log: the place is last_delivered, which a reconnect     *)
(* keeps and a crash forgets; the checkpoint is what the store holds; an   *)
(* event is handed over when it is put on the channel.                     *)
(***************************************************************************)
EXTENDS Supervisor

FixedStart == IF From >= 0 THEN From ELSE None

Delivery == INSTANCE CheckpointedDelivery WITH
  position   <- LastDelivered,
  handled    <- sentEver

(* Every behaviour of the supervisor, over reconnects, failures, crashes   *)
(* and restarts, is one of the checkpointed delivery: nothing is skipped   *)
(* or repeated within a process, and the store never runs ahead of the     *)
(* channel (drain.rs, reconnect.rs, exit_flush.rs).                        *)
ImplementsDelivery == Delivery!Spec

-----------------------------------------------------------------------------
(* Why it does: where the task, its cursors and the connection stand.      *)

Connected == {"opening", "read", "frame"}
Holding   == {"put", "precheck", "trigger", "send"}
Running   == {"loop", "backoff", "refresh", "connect"} \cup Connected \cup Holding

(* Nothing that is owed up to `n` is missing.                              *)
Covered(n) == \A s \in Matching : base < s /\ s <= n => Handled(s)

(* What is owed begins where the request says.                             *)
StartOwed ==
  /\ From >= 0 => base = From
  /\ From = FromDate => base = DatePos
  /\ pc \in Running =>
       /\ IF From # Live THEN initialFrom = From ELSE initialFrom \in OptSeqs
       /\ initialFrom >= 0 => commitCursor # None

(* The cursors and the checkpoint lie over no hole, within the log, in     *)
(* order; without a base nothing has been delivered.                       *)
CursorsInOrder ==
  /\ Covered(commitCursor) /\ Covered(pending) /\ Covered(durable)
  /\ durable <= head /\ pending <= head
  /\ pending # None => pending \in sentEver /\ commitCursor <= pending
  /\ base = None => durable = None /\ commitCursor = None /\ pending = None
  /\ pc = "resolve" => commitCursor = None /\ pending = None
  /\ pc = "put" => pending # None /\ HasStore
  /\ ~HasStore => durable = None
  /\ pc \in Running /\ initialFrom = Live /\ LastDelivered = None => durable = None

(* A connection stands at the last delivered event, and a notification in  *)
(* the task's hands is the next one, with its triggers run before it is    *)
(* sent.                                                                   *)
ConnectionInPlace ==
  /\ pc \in Connected => base # None /\ pos = Delivery!Floor
  /\ pc \in Holding   => base # None /\ pos = item /\ Delivery!IsNext(item)
  /\ pc = "send" /\ HasTriggers => item \in triggered

PlaceInv == StartOwed /\ CursorsInOrder /\ ConnectionInPlace
=============================================================================
