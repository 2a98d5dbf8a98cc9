-------------------------- MODULE SupervisorProofs --------------------------
(***************************************************************************)
(* The supervisor keeps its types, and, connected to a server that sends   *)
(* its log in order, implements the checkpointed delivery: its checkpoint  *)
(* never lies over a hole.  For every request, every configuration and any *)
(* number of failures and restarts.                                        *)
(*                                                                         *)
(* Then its other invariants: whatever the server sends, repeated,         *)
(* backward and missing notifications included, the cursors (ResumeInv),   *)
(* the gap guard (GuardInv) and the session of the reducer (SessionInv);   *)
(* with an honest server, the order of what is delivered, and the range    *)
(* of a replay (ReplayInv).                                                *)
(***************************************************************************)
EXTENDS SupervisorDelivery, TLAPS

(* A notification in the task's hands is one.                              *)
ItemHeld == pc \in Holding => item \in Seqs

TypeInv == TypeOK /\ ItemHeld

-----------------------------------------------------------------------------
(* The operators of the reducer and of the supervisor stay in their types. *)

LEMMA TransitionType ==
  ASSUME NEW s \in WatchStates, NEW e
  PROVE  Transition(s, e) \in WatchStates
<1>1. PhaseAfter(s, e) \in Phases
  BY DEF PhaseAfter, PhaseAfterReplay, WatchStates, Phases
<1>2. StatusAfter(s, e) \in Statuses
  BY DEF StatusAfter, WatchStates, Statuses
<1>3. [s EXCEPT !.phase = PhaseAfter(s, e), !.status = StatusAfter(s, e)]
        \in WatchStates
  BY <1>1, <1>2 DEF WatchStates
<1>4. QED
  BY <1>3 DEF Transition

LEMMA PolicyType ==
  ASSUME NEW p \in Policies \cup {NoPolicy}, NEW s, NEW e
  PROVE  ApplyOutcome(p, s, e) \in Policies \cup {NoPolicy}
BY DEF ApplyOutcome, PolicyFor, Policies, NoPolicy

LEMMA FeedType ==
  ASSUME TypeOK, NEW e, Feed(e)
  PROVE  st' \in WatchStates /\ policy' \in Policies \cup {NoPolicy}
<1>1. st \in WatchStates /\ policy \in Policies \cup {NoPolicy}
  BY DEF TypeOK
<1>2. QED
  BY <1>1, TransitionType, PolicyType DEF Feed

LEMMA StartType ==
  ASSUME NEW b \in BOOLEAN
  PROVE  InitialState(Mode, b) \in WatchStates
BY ConfigAssumption DEF InitialState, WatchStates, Modes, Phases, Statuses

LEMMA CursorTypes ==
  ASSUME NEW n \in OptSeqs
  PROVE  /\ Succ(n) \in OptSeqs
         /\ TypeOK => StoredAfterPut(n) \in OptSeqs
         /\ TypeOK => NextPending(n) \in OptSeqs
         /\ TypeOK => NextExpected(n) \in OptSeqs
         /\ TypeOK => FirstExpected(n) \in OptSeqs
BY ConfigAssumption
   DEF Succ, StoredAfterPut, NextPending, NextExpected, FirstExpected, TypeOK,
       OptSeqs, Seqs, None

LEMMA FaultType ==
  ASSUME TypeOK, Fault
  PROVE  faults' \in Nat /\ anomalies' = anomalies /\ runs' = runs
BY DEF Fault, TypeOK

-----------------------------------------------------------------------------
(* TypeInv holds initially and is kept by the ways a connection ends and   *)
(* by every action.                                                        *)

BoundsOK == faults \in Nat /\ anomalies \in 0 .. MaxAnomalies /\ runs \in 1 .. MaxRuns

LEMMA RetryType ==
  ASSUME TypeInv, BoundsOK', NEW e, NEW short \in SUBSET BOOLEAN,
         RetryAfterLoss(e, short), retryAfter' \in {"none", "zero", "positive"}
  PROVE  TypeInv'
<1>1. st' \in WatchStates /\ policy' \in Policies \cup {NoPolicy}
  BY FeedType DEF RetryAfterLoss, TypeInv
<1>2. shortSession' \in BOOLEAN /\ refreshed' \in BOOLEAN
  BY DEF RetryAfterLoss
<1>3. QED
  BY <1>1, <1>2 DEF RetryAfterLoss, TypeInv, TypeOK, ItemHeld, Holding, BoundsOK, Pcs,
         link, steady, past, cursors, channel

LEMMA FailWithType ==
  ASSUME TypeInv, BoundsOK', NEW e, FailWith(e)
  PROVE  TypeInv'
<1>1. st' \in WatchStates /\ policy' \in Policies \cup {NoPolicy}
  BY FeedType DEF FailWith, TypeInv
<1>2. QED
  BY <1>1 DEF FailWith, TypeInv, TypeOK, ItemHeld, Holding, BoundsOK, Pcs,
         retry, link, steady, cursors, channel, history

LEMMA FailType ==
  ASSUME TypeInv, BoundsOK', Fail
  PROVE  TypeInv'
BY DEF Fail, TypeInv, TypeOK, ItemHeld, Holding, BoundsOK, Pcs,
       reducer, retry, link, steady, cursors, channel, history

LEMMA StopType ==
  ASSUME TypeInv, StopObserved,
         st' \in WatchStates /\ policy' \in Policies \cup {NoPolicy}
  PROVE  TypeInv'
BY DEF StopObserved, TypeInv, TypeOK, ItemHeld, Holding, Pcs,
       retry, link, cursors, channel, bounds

LEMMA FaultBounds ==
  ASSUME TypeInv, Fault
  PROVE  BoundsOK'
BY FaultType DEF BoundsOK, TypeInv, TypeOK

LEMMA SameBounds ==
  ASSUME TypeInv, UNCHANGED bounds
  PROVE  BoundsOK'
BY DEF BoundsOK, TypeInv, TypeOK, bounds

LEMMA InitType == Init => TypeInv
<1> SUFFICES ASSUME Init PROVE TypeInv
  OBVIOUS
<1>1. st \in WatchStates
  BY StartType DEF Init
<1>2. base \in OptSeqs
  BY ConfigAssumption DEF Init, Starts, OptSeqs, Seqs, None, Live, FromDate
<1>3. out \in Seq(Items) /\ taken \in 0 .. Len(out)
  BY DEF Init
<1>4. {commitCursor, pending, resolvedEnd, expected, item, durable, since, target}
        \subseteq OptSeqs
  BY DEF Init, OptSeqs
<1>5. initialFrom \in Starts /\ {head, pos, limit} \subseteq Seqs
  BY ConfigAssumption DEF Init, Starts, Seqs, Live
<1>6. BoundsOK
  BY ConfigAssumption DEF Init, BoundsOK
<1>7. sentEver \subseteq Seqs /\ pulledEver \subseteq Seqs /\ triggered \subseteq Seqs
  BY DEF Init
<1>8. /\ shortSession \in BOOLEAN /\ refreshed \in BOOLEAN /\ ready \in BOOLEAN
      /\ cancelled \in BOOLEAN /\ observed \in BOOLEAN
  BY DEF Init
<1>9. pc = "resolve" /\ policy = NoPolicy /\ retryAfter = "none" /\ refreshes = 0
  BY DEF Init
<1>10. QED
  BY <1>1, <1>2, <1>3, <1>4, <1>5, <1>6, <1>7, <1>8, <1>9
     DEF TypeInv, TypeOK, ItemHeld, Holding, Pcs, BoundsOK

(* The actions of the reconnect loop.                                      *)
LEMMA LoopType ==
  ASSUME TypeInv,
         \/ Resolve \/ ResolveCancelled \/ ResolveFails \/ LoopEnds
         \/ Backoff \/ NoBackoff \/ BackoffElapsed \/ BackoffCancelled
         \/ RefreshSucceeds \/ RefreshFails \/ RefreshCancelled
  PROVE  TypeInv'
<1> USE DEF TypeInv, TypeOK, ItemHeld, Holding, Pcs, reducer, retry, cursors, link,
        channel, bounds, history
<1>1. CASE Resolve
  <2>1. ASSUME NEW c \in Starts, c # FromDate => c \in OptSeqs, Begin(c),
               UNCHANGED bounds
        PROVE  TypeInv'
    <3>1. st' \in WatchStates
      BY <2>1, StartType DEF Begin
    <3>2. commitCursor' \in OptSeqs /\ initialFrom' \in Starts
      BY <2>1 DEF Begin, Starts, OptSeqs, Seqs, None, Live, FromDate
    <3>3. QED
      BY <2>1, <3>1, <3>2 DEF Begin
  <2>2. From \in Starts /\ (From # FromDate => From \in OptSeqs)
    BY ConfigAssumption DEF Starts, OptSeqs, Seqs, None, Live, FromDate
  <2>3. durable \in Starts /\ durable \in OptSeqs /\ Live \in Starts /\ Live \in OptSeqs
    BY DEF Starts, OptSeqs, Seqs, None, Live, FromDate
  <2>4. QED
    BY <1>1, <2>1, <2>2, <2>3 DEF Resolve
<1>2. CASE ResolveCancelled
  <2>1. observed' \in BOOLEAN
    BY <1>2 DEF ResolveCancelled
  <2>2. QED
    BY <1>2, <2>1 DEF ResolveCancelled
<1>3. CASE ResolveFails
  BY <1>3, FaultType DEF ResolveFails
<1>4. CASE LoopEnds
  BY <1>4 DEF LoopEnds
<1>5. CASE Backoff
  <2>1. st' \in WatchStates
    BY <1>5, TransitionType DEF Backoff
  <2>2. QED
    BY <1>5, <2>1 DEF Backoff, AttemptPc
<1>6. CASE NoBackoff
  BY <1>6 DEF NoBackoff, AttemptPc
<1>7. CASE BackoffElapsed
  BY <1>7, FeedType DEF BackoffElapsed, AttemptPc
<1>8. CASE BackoffCancelled
  BY <1>8, StopType DEF BackoffCancelled
<1>9. CASE RefreshSucceeds
  <2>1. refreshed' \in BOOLEAN
    BY <1>9 DEF RefreshSucceeds
  <2>2. refreshes' \in 0 .. 2
    BY <1>9 DEF RefreshSucceeds
  <2>3. QED
    BY <1>9, <2>1, <2>2, FeedType DEF RefreshSucceeds
<1>10. CASE RefreshFails
  BY <1>10, FeedType, FaultType DEF RefreshFails
<1>11. CASE RefreshCancelled
  BY <1>11, StopType DEF RefreshCancelled
<1>12. QED
  BY <1>1, <1>2, <1>3, <1>4, <1>5, <1>6, <1>7, <1>8, <1>9, <1>10, <1>11

(* The actions of a connection up to its end.                              *)
LEMMA ConnectionType ==
  ASSUME TypeInv,
         \/ RequestOverflows \/ ConnectCancelled \/ ReadCancelled \/ OpeningRefused
         \/ OpeningExpired \/ TransportFails \/ Unauthorized \/ Unavailable
         \/ StatusRefused \/ Opened \/ OpeningConfirmed \/ HeartbeatStarved
         \/ UnexpectedEof \/ ParserOverflow
  PROVE  TypeInv'
<1> USE DEF TypeInv
<1>a. st \in WatchStates /\ policy \in Policies \cup {NoPolicy}
      /\ retryAfter \in {"none", "zero", "positive"}
  BY DEF TypeOK
<1>1. CASE RequestOverflows
  BY <1>1, SameBounds, FailType DEF RequestOverflows, Fail
<1>2. CASE ConnectCancelled
  BY <1>2, <1>a, StopType DEF ConnectCancelled, reducer
<1>3. CASE ReadCancelled
  BY <1>3, StopType, FeedType DEF ReadCancelled
<1>4. CASE OpeningRefused
  BY <1>4, FaultBounds, FailType DEF OpeningRefused
<1>5. CASE OpeningExpired
  BY <1>5, <1>a, FaultBounds, FailType, RetryType DEF OpeningExpired
<1>6. CASE TransportFails
  BY <1>6, <1>a, FaultBounds, RetryType DEF TransportFails
<1>7. CASE Unauthorized
  <2>1. CASE MayRefresh
    <3>1. st' \in WatchStates /\ policy' \in Policies \cup {NoPolicy}
      BY <1>7, <2>1, FeedType DEF Unauthorized
    <3>2. shortSession' \in BOOLEAN
      BY <1>7, <2>1 DEF Unauthorized
    <3>3. BoundsOK'
      BY <1>7, FaultBounds DEF Unauthorized
    <3>4. QED
      BY <1>7, <2>1, <3>1, <3>2, <3>3
         DEF Unauthorized, TypeOK, ItemHeld, Holding, BoundsOK, Pcs, link, steady,
             cursors, channel, history
  <2>2. CASE ~MayRefresh
    BY <1>7, <2>2, FaultBounds, FailWithType DEF Unauthorized
  <2>3. QED
    BY <2>1, <2>2
<1>8. CASE Unavailable
  BY <1>8, FaultBounds, RetryType DEF Unavailable
<1>9. CASE StatusRefused
  BY <1>9, FaultBounds, FailWithType DEF StatusRefused
<1>10. CASE Opened
  <2>1. WireFrom \in Starts /\ expected' \in OptSeqs
    BY <1>10, ConfigAssumption
       DEF Opened, WireFrom, LastDelivered, FirstExpected, Succ, TypeOK, Starts, OptSeqs,
           Seqs, None, Live, FromDate
  <2>2. pos' \in Seqs
    BY <1>10, <2>1, ConfigAssumption
       DEF Opened, ServedFrom, TypeOK, Starts, Seqs, Live, FromDate
  <2>3. limit' \in Seqs
    <3>1. head \in Seqs /\ resolvedEnd \in OptSeqs
      BY DEF TypeOK
    <3>2. limit' \in ServedUntil
      BY <1>10 DEF Opened
    <3>3. WireUntil \in Seqs \cup {NoEnd, UntilDate} /\ Mode \in Modes
      BY <3>1, ConfigAssumption DEF WireUntil, OptSeqs
    <3>4. ServedUntil \subseteq Seqs
      BY <3>1, <3>3, ConfigAssumption DEF ServedUntil, Seqs, NoEnd, UntilDate, Modes
    <3> QED
      BY <3>2, <3>4
  <2>4. QED
    BY <1>10, <2>1, <2>2, <2>3
       DEF Opened, TypeOK, ItemHeld, Holding, Pcs, OptSeqs, reducer, retry, steady,
           cursors, channel, bounds
<1>11. CASE OpeningConfirmed
  <2>1. ready' \in BOOLEAN
    BY <1>11 DEF OpeningConfirmed
  <2>2. QED
    BY <1>11, <2>1, FeedType
       DEF OpeningConfirmed, TypeOK, ItemHeld, Holding, Pcs, OptSeqs, retry, link,
           channel, bounds, past
<1>12. CASE HeartbeatStarved
  BY <1>12, <1>a, FaultBounds, RetryType DEF HeartbeatStarved
<1>13. CASE UnexpectedEof
  BY <1>13, <1>a, FaultBounds, RetryType DEF UnexpectedEof
<1>14. CASE ParserOverflow
  BY <1>14, FaultBounds, FailWithType DEF ParserOverflow
<1>15. QED
  BY <1>1, <1>2, <1>3, <1>4, <1>5, <1>6, <1>7, <1>8, <1>9, <1>10, <1>11, <1>12,
     <1>13, <1>14

(* The actions of drain_frames.                                            *)
LEMMA ReceiveType ==
  ASSUME TypeInv, BoundsOK', NEW s \in Seqs, Receive(s), pos' \in Seqs
  PROVE  TypeInv'
<1>1. CASE IsJump(s)
  <2>1. st' \in WatchStates /\ policy' \in Policies \cup {NoPolicy}
    BY <1>1, FeedType DEF Receive, RefuseJump, TypeInv
  <2>2. QED
    BY <1>1, <2>1
       DEF Receive, RefuseJump, TypeInv, TypeOK, ItemHeld, Holding, BoundsOK, Pcs,
           retry, steady, cursors, channel, history
<1>2. CASE ~IsJump(s)
  <2>1. s \in OptSeqs /\ expected' \in OptSeqs /\ commitCursor' \in OptSeqs
    BY <1>2, CursorTypes
       DEF Receive, Accept, CommittedOnAccept, TypeInv, TypeOK, OptSeqs
  <2>2. QED
    BY <1>2, <2>1
       DEF Receive, Accept, TypeInv, TypeOK, ItemHeld, Holding, BoundsOK, Pcs, OptSeqs,
           reducer, retry, channel, history
<1>3. QED
  BY <1>1, <1>2

LEMMA FrameType ==
  ASSUME TypeInv,
         \/ ChunkDrained \/ PutSucceeds \/ PutFails
         \/ TriggersStart \/ TriggersCancelled \/ TriggersSucceed \/ RequiredTriggerFails
         \/ SendNotification \/ SendCancelled
         \/ ReplayCompleted \/ ReplayLimitReached \/ EndOfReplay
         \/ FatalFrame \/ UndecodableFrame
         \/ \E s \in Seqs : Notification(s) \/ Anomaly(s)
         \/ \E reason \in CloseReasons : ServerCloses(reason)
  PROVE  TypeInv'
<1> USE DEF TypeInv
<1>a. st \in WatchStates /\ policy \in Policies \cup {NoPolicy}
      /\ retryAfter \in {"none", "zero", "positive"}
  BY DEF TypeOK
<1>1. CASE ChunkDrained
  BY <1>1 DEF ChunkDrained, TypeOK, ItemHeld, Holding, Pcs, reducer, retry, link, steady,
              cursors, channel, bounds, history
<1>2. CASE PutSucceeds
  <2>1. durable' \in OptSeqs /\ commitCursor' \in OptSeqs
    BY <1>2, CursorTypes DEF PutSucceeds, ToStore, TypeOK
  <2>2. QED
    BY <1>2, <2>1 DEF PutSucceeds, TypeOK, ItemHeld, Holding, Pcs, reducer, retry, link,
                      channel, bounds, history
<1>3. CASE PutFails
  <2>1. durable' \in OptSeqs
    BY <1>3, CursorTypes DEF PutFails, ToStore, TypeOK
  <2>2. BoundsOK'
    BY <1>3, FaultBounds DEF PutFails
  <2>3. QED
    BY <1>3, <2>1, <2>2 DEF PutFails, TypeOK, ItemHeld, Holding, Pcs, BoundsOK, reducer,
                            retry, cursors, link, channel, history
<1>4. CASE TriggersStart
  BY <1>4 DEF TriggersStart, TypeOK, ItemHeld, Holding, Pcs, reducer, retry, link, steady,
              cursors, channel, bounds, history
<1>5. CASE TriggersCancelled
  BY <1>5, <1>a, StopType DEF TriggersCancelled, reducer
<1>6. CASE TriggersSucceed
  BY <1>6 DEF TriggersSucceed, TypeOK, ItemHeld, Holding, Pcs, reducer, retry, link,
              steady, cursors, channel, bounds
<1>7. CASE RequiredTriggerFails
  BY <1>7, FaultBounds, FailType DEF RequiredTriggerFails, Fail
<1>8. CASE SendNotification
  <2>1. item \in Seqs /\ item \in Items /\ pending' \in OptSeqs
    BY <1>8, CursorTypes
       DEF SendNotification, ItemHeld, Holding, Items, Seqs, OptSeqs
  <2>2. out' \in Seq(Items) /\ taken' \in 0 .. Len(out')
    BY <1>8, <2>1 DEF SendNotification, TypeOK
  <2>3. item' \in OptSeqs
    BY <1>8 DEF SendNotification, OptSeqs
  <2>4. QED
    BY <1>8, <2>1, <2>2, <2>3
       DEF SendNotification, TypeOK, ItemHeld, Holding, Pcs, reducer, retry, bounds
<1>9. CASE SendCancelled
  BY <1>9, <1>a, StopType DEF SendCancelled, reducer
<1>10. CASE ReplayCompleted
  BY <1>10, FeedType
     DEF ReplayCompleted, TypeOK, ItemHeld, Holding, Pcs, retry, link, steady, cursors,
         channel, bounds, history
<1>11. CASE ReplayLimitReached
  BY <1>11, FaultBounds, FailWithType DEF ReplayLimitReached
<1>12. CASE EndOfReplay
  BY <1>12, <1>a, SameBounds, RetryType DEF EndOfReplay, ConnectionClosing
<1>13. CASE FatalFrame
  BY <1>13, FaultBounds, FailWithType DEF FatalFrame
<1>14. CASE UndecodableFrame
  BY <1>14, FaultBounds, FailType DEF UndecodableFrame
<1>15. ASSUME NEW s \in Seqs, Notification(s) PROVE TypeInv'
  BY <1>15, SameBounds, ReceiveType DEF Notification
<1>16. ASSUME NEW s \in Seqs, Anomaly(s) PROVE TypeInv'
  <2>1. BoundsOK'
    BY <1>16, ConfigAssumption DEF Anomaly, TypeOK, BoundsOK
  <2>2. pos' \in Seqs
    BY <1>16 DEF Anomaly, TypeOK
  <2>3. QED
    BY <1>16, <2>1, <2>2, ReceiveType DEF Anomaly
<1>17. ASSUME NEW reason \in CloseReasons, ServerCloses(reason) PROVE TypeInv'
  BY <1>17, <1>a, FaultBounds, RetryType DEF ServerCloses, ConnectionClosing
<1>18. QED
  BY <1>1, <1>2, <1>3, <1>4, <1>5, <1>6, <1>7, <1>8, <1>9, <1>10, <1>11, <1>12,
     <1>13, <1>14, <1>15, <1>16, <1>17

(* The end of the task, the consumer, the log and the process.             *)
LEMMA EndType ==
  ASSUME TypeInv,
         \/ SendError \/ SendErrorCancelled \/ FlushPending
         \/ StartupExpires \/ ReportExpiry
         \/ Pull \/ Cancel \/ Publish \/ Restart
  PROVE  TypeInv'
<1> USE DEF TypeInv
<1>1. CASE SendError \/ ReportExpiry
  <2>1. out' \in Seq(Items) /\ taken' \in 0 .. Len(out')
    BY <1>1 DEF SendError, ReportExpiry, TypeOK, Items
  <2>2. pc' \in {"done", "flush"}
    BY <1>1 DEF SendError, ReportExpiry, AfterError
  <2>3. QED
    BY <1>1, <2>1, <2>2
       DEF SendError, ReportExpiry, TypeOK, ItemHeld, Holding, Pcs, reducer, retry,
           cursors, link, bounds, history
<1>2. CASE SendErrorCancelled
  <2>1. observed' \in BOOLEAN /\ pc' \in {"done", "flush"}
    BY <1>2 DEF SendErrorCancelled, AfterError
  <2>2. QED
    BY <1>2, <2>1
       DEF SendErrorCancelled, TypeOK, ItemHeld, Holding, Pcs, reducer, retry, link,
           steady, cursors, channel, bounds
<1>3. CASE FlushPending
  <2>1. durable' \in OptSeqs
    BY <1>3, CursorTypes DEF FlushPending, TypeOK
  <2>2. QED
    BY <1>3, <2>1 DEF FlushPending, TypeOK, ItemHeld, Holding, Pcs, reducer, retry,
                      cursors, link, channel, bounds, history
<1>4. CASE StartupExpires
  <2>1. BoundsOK'
    BY <1>4, FaultBounds DEF StartupExpires
  <2>2. QED
    BY <1>4, <2>1
       DEF StartupExpires, TypeOK, ItemHeld, Holding, Pcs, BoundsOK, reducer, retry,
           cursors, link, channel, history
<1>5. CASE Pull
  <2>1. taken' \in 0 .. Len(out')
    BY <1>5 DEF Pull, TypeOK
  <2>2. pulledEver' \subseteq Seqs
    <3>1. out[taken + 1] \in Items
      BY <1>5 DEF Pull, TypeOK
    <3>2. QED
      BY <1>5, <3>1 DEF Pull, TypeOK, Items
  <2>3. QED
    BY <1>5, <2>1, <2>2
       DEF Pull, TypeOK, ItemHeld, supervisor, reducer, retry, cursors, link, bounds
<1>6. CASE Cancel
  <2>1. cancelled' \in BOOLEAN
    BY <1>6 DEF Cancel
  <2>2. QED
    BY <1>6, <2>1
       DEF Cancel, TypeOK, ItemHeld, supervisor, reducer, retry, cursors, link, channel,
           bounds, history
<1>7. CASE Publish
  <2>1. head' \in Seqs
    BY <1>7, ConfigAssumption DEF Publish, TypeOK, Seqs
  <2>2. QED
    BY <1>7, <2>1
       DEF Publish, TypeOK, ItemHeld, supervisor, reducer, retry, cursors, link, channel,
           bounds, history
<1>8. CASE Restart
  <2>1. st' \in WatchStates
    BY <1>8, StartType DEF Restart
  <2>2. /\ shortSession' \in BOOLEAN /\ refreshed' \in BOOLEAN /\ ready' \in BOOLEAN
        /\ cancelled' \in BOOLEAN /\ observed' \in BOOLEAN
    BY <1>8 DEF Restart
  <2>3. out' \in Seq(Items) /\ taken' \in 0 .. Len(out')
    BY <1>8 DEF Restart
  <2>4. {commitCursor', pending', resolvedEnd', expected', item', durable', base', since',
         target'} \subseteq OptSeqs
    BY <1>8 DEF Restart, TypeOK, OptSeqs
  <2>5. initialFrom' \in Starts /\ {head', pos', limit'} \subseteq Seqs
    BY <1>8, ConfigAssumption DEF Restart, TypeOK, Starts, Seqs, Live
  <2>6. BoundsOK'
    BY <1>8, ConfigAssumption DEF Restart, TypeOK, BoundsOK
  <2>7. /\ pc' = "resolve" /\ policy' = NoPolicy /\ retryAfter' = "none"
        /\ refreshes' = 0 /\ UNCHANGED <<sentEver, pulledEver, triggered>>
    BY <1>8 DEF Restart
  <2>8. QED
    BY <2>1, <2>2, <2>3, <2>4, <2>5, <2>6, <2>7
       DEF TypeOK, ItemHeld, Holding, Pcs, BoundsOK
<1>9. QED
  BY <1>1, <1>2, <1>3, <1>4, <1>5, <1>6, <1>7, <1>8

LEMMA TypeStep == TypeInv /\ [Next]_vars => TypeInv'
<1>1. ASSUME TypeInv, UNCHANGED vars PROVE TypeInv'
  BY <1>1 DEF TypeInv, TypeOK, ItemHeld, vars, reducer, retry, cursors, link, channel,
              bounds, history
<1>2. ASSUME TypeInv, Next PROVE TypeInv'
  BY <1>2, LoopType, ConnectionType, FrameType, EndType DEF Next, Task, Failure, Serve
<1>3. QED
  BY <1>1, <1>2

(* Every variable keeps its type, for every request and configuration.     *)
THEOREM TypeCorrect == Spec => []TypeOK
<1>1. TypeInv => TypeOK
  BY DEF TypeInv
<1>2. QED
  BY <1>1, InitType, TypeStep, PTL DEF Spec

-----------------------------------------------------------------------------
(* The checkpointed delivery.  The argument is PlaceInv (in                *)
(* SupervisorDelivery): only ten actions touch what it speaks of, every    *)
(* other step is a QuietStep.                                              *)

Honest == MaxAnomalies = 0

placed == <<initialFrom, commitCursor, pending, durable, head, base, pos, item,
            sentEver, triggered>>

(* A step that moves neither the cursors nor the connection.               *)
QuietStep ==
  /\ UNCHANGED placed
  /\ \/ pc' = pc
     \/ /\ pc' \notin Holding \cup {"resolve"}
        /\ pc' \in Connected => pc \in Connected
        /\ pc' \in Running => pc \in Running

Inv == TypeInv /\ PlaceInv

-----------------------------------------------------------------------------

LEMMA QuietLoop ==
  ASSUME TypeInv,
         \/ ResolveCancelled \/ ResolveFails \/ LoopEnds
         \/ Backoff \/ NoBackoff \/ BackoffElapsed \/ BackoffCancelled
         \/ RefreshSucceeds \/ RefreshFails \/ RefreshCancelled
  PROVE  QuietStep
<1> USE DEF QuietStep, placed, cursors, link, history, Holding, Connected, Running,
        AttemptPc
<1>1. CASE ResolveCancelled
  BY <1>1 DEF ResolveCancelled
<1>2. CASE ResolveFails
  BY <1>2 DEF ResolveFails
<1>3. CASE LoopEnds
  BY <1>3 DEF LoopEnds
<1>4. CASE Backoff
  BY <1>4 DEF Backoff
<1>5. CASE NoBackoff
  BY <1>5 DEF NoBackoff
<1>6. CASE BackoffElapsed
  BY <1>6 DEF BackoffElapsed
<1>7. CASE BackoffCancelled
  BY <1>7 DEF BackoffCancelled, StopObserved
<1>8. CASE RefreshSucceeds
  BY <1>8 DEF RefreshSucceeds
<1>9. CASE RefreshFails
  BY <1>9 DEF RefreshFails
<1>10. CASE RefreshCancelled
  BY <1>10 DEF RefreshCancelled, StopObserved
<1>11. QED
  BY <1>1, <1>2, <1>3, <1>4, <1>5, <1>6, <1>7, <1>8, <1>9, <1>10

(* How a connection ends, whatever the reason.                             *)
LEMMA QuietOutcome ==
  ASSUME \/ Fail \/ StopObserved
         \/ \E e \in Events : FailWith(e)
         \/ \E e \in Events, short \in SUBSET BOOLEAN : RetryAfterLoss(e, short),
         pc \in Running
  PROVE  QuietStep
BY DEF Fail, FailWith, RetryAfterLoss, StopObserved, QuietStep, placed, steady, past,
       cursors, link, history, Holding, Connected, Running

LEMMA QuietConnection ==
  ASSUME TypeInv,
         \/ RequestOverflows \/ ConnectCancelled \/ ReadCancelled \/ OpeningRefused
         \/ OpeningExpired \/ TransportFails \/ Unauthorized \/ Unavailable
         \/ StatusRefused \/ OpeningConfirmed \/ HeartbeatStarved
         \/ UnexpectedEof \/ ParserOverflow
  PROVE  QuietStep
<1> USE DEF Connecting, Reading, Running, Connected, Events
<1>1. CASE RequestOverflows
  BY <1>1 DEF RequestOverflows, QuietStep, placed, steady, cursors, link, history, Holding
<1>2. CASE ConnectCancelled
  BY <1>2, QuietOutcome DEF ConnectCancelled
<1>3. CASE ReadCancelled
  BY <1>3, QuietOutcome DEF ReadCancelled
<1>4. CASE OpeningRefused
  BY <1>4, QuietOutcome DEF OpeningRefused
<1>5. CASE OpeningExpired
  BY <1>5, QuietOutcome DEF OpeningExpired
<1>6. CASE TransportFails
  BY <1>6, QuietOutcome DEF TransportFails
<1>7. CASE Unauthorized
  <2>1. CASE MayRefresh
    BY <1>7, <2>1 DEF Unauthorized, QuietStep, placed, steady, cursors, link, history,
                      Holding
  <2>2. CASE ~MayRefresh
    BY <1>7, <2>2, QuietOutcome DEF Unauthorized
  <2>3. QED
    BY <2>1, <2>2
<1>8. CASE Unavailable
  BY <1>8, QuietOutcome DEF Unavailable
<1>9. CASE StatusRefused
  BY <1>9, QuietOutcome DEF StatusRefused
<1>10. CASE OpeningConfirmed
  BY <1>10 DEF OpeningConfirmed, QuietStep, placed, past, link, Holding
<1>11. CASE HeartbeatStarved
  BY <1>11, QuietOutcome DEF HeartbeatStarved
<1>12. CASE UnexpectedEof
  BY <1>12, QuietOutcome DEF UnexpectedEof
<1>13. CASE ParserOverflow
  BY <1>13, QuietOutcome DEF ParserOverflow
<1>14. QED
  BY <1>1, <1>2, <1>3, <1>4, <1>5, <1>6, <1>7, <1>8, <1>9, <1>10, <1>11, <1>12, <1>13

LEMMA QuietFrame ==
  ASSUME TypeInv,
         \/ ChunkDrained \/ TriggersCancelled \/ RequiredTriggerFails \/ SendCancelled
         \/ ReplayCompleted \/ ReplayLimitReached \/ EndOfReplay
         \/ FatalFrame \/ UndecodableFrame
         \/ \E reason \in CloseReasons : ServerCloses(reason)
  PROVE  QuietStep
<1> USE DEF FrameArrives, Running, Connected, Holding, Events
<1>1. CASE ChunkDrained
  BY <1>1 DEF ChunkDrained, QuietStep, placed, steady, cursors, link, history
<1>2. CASE TriggersCancelled
  BY <1>2, QuietOutcome DEF TriggersCancelled
<1>3. CASE RequiredTriggerFails
  BY <1>3 DEF RequiredTriggerFails, QuietStep, placed, steady, cursors, link, history
<1>4. CASE SendCancelled
  BY <1>4, QuietOutcome DEF SendCancelled
<1>5. CASE ReplayCompleted
  BY <1>5 DEF ReplayCompleted, QuietStep, placed, steady, cursors, link, history
<1>6. CASE ReplayLimitReached
  BY <1>6, QuietOutcome DEF ReplayLimitReached
<1>7. ASSUME NEW reason \in CloseReasons, ConnectionClosing(reason) PROVE QuietStep
  BY <1>7, QuietOutcome DEF ConnectionClosing
<1>8. CASE EndOfReplay
  BY <1>7, <1>8 DEF EndOfReplay, CloseReasons
<1>9. CASE FatalFrame
  BY <1>9, QuietOutcome DEF FatalFrame
<1>10. CASE UndecodableFrame
  BY <1>10, QuietOutcome DEF UndecodableFrame
<1>11. QED
  BY <1>1, <1>2, <1>3, <1>4, <1>5, <1>6, <1>7, <1>8, <1>9, <1>10 DEF ServerCloses

LEMMA QuietEnd ==
  ASSUME TypeInv,
         \/ SendError \/ SendErrorCancelled \/ StartupExpires \/ ReportExpiry
         \/ Pull \/ Cancel
         \/ UNCHANGED vars
  PROVE  QuietStep
<1> USE DEF QuietStep, placed, cursors, link, history, Holding, Connected, Running,
        AfterError
<1>1. CASE SendError
  BY <1>1 DEF SendError
<1>2. CASE SendErrorCancelled
  BY <1>2 DEF SendErrorCancelled, steady
<1>3. CASE StartupExpires
  BY <1>3 DEF StartupExpires
<1>4. CASE ReportExpiry
  BY <1>4 DEF ReportExpiry
<1>5. CASE Pull
  BY <1>5 DEF Pull, supervisor
<1>6. CASE Cancel
  BY <1>6 DEF Cancel, supervisor
<1>7. CASE UNCHANGED vars
  BY <1>7 DEF vars
<1>8. QED
  BY <1>1, <1>2, <1>3, <1>4, <1>5, <1>6, <1>7

(* Every step is quiet or one of the steps that move a cursor or the       *)
(* connection.                                                             *)
Moves ==
  \/ Resolve \/ Opened \/ PutSucceeds \/ PutFails \/ TriggersStart \/ TriggersSucceed
  \/ SendNotification \/ FlushPending \/ Publish \/ Restart
  \/ \E s \in Seqs : Notification(s)

LEMMA StepCases ==
  ASSUME TypeInv, [Next]_vars
  PROVE  QuietStep \/ Moves \/ \E s \in Seqs : Anomaly(s)
BY QuietLoop, QuietConnection, QuietFrame, QuietEnd
   DEF Next, Task, Failure, Serve, Moves

LEMMA HonestStepCases ==
  ASSUME Honest, TypeInv, [Next]_vars
  PROVE  QuietStep \/ Moves
<1>1. ASSUME NEW s \in Seqs, Anomaly(s) PROVE FALSE
  BY <1>1 DEF Anomaly, Honest, TypeInv, TypeOK
<1>2. QED
  BY <1>1, StepCases

-----------------------------------------------------------------------------
(* What PlaceInv is about, in arithmetic.                                  *)

LEMMA QuietPlace ==
  ASSUME TypeInv, PlaceInv, QuietStep
  PROVE  PlaceInv'
BY DEF PlaceInv, StartOwed, CursorsInOrder, ConnectionInPlace, QuietStep, placed,
       Covered, Handled, LastDelivered, Delivery!Floor, Delivery!IsNext, Delivery!None,
       Holding, Connected, Running

LEMMA NextIsAbove ==
  ASSUME TypeInv, NEW s \in Seqs, pos = Delivery!Floor, ServerNext(s)
  PROVE  Delivery!IsNext(s)
BY DEF ServerNext, Delivery!IsNext

(* A process takes its place.                                              *)
LEMMA ResolvePlace ==
  ASSUME TypeInv, PlaceInv, Resolve
  PROVE  PlaceInv'
<1> DEFINE cursor == IF From # Live THEN From ELSE IF HasStore THEN durable ELSE Live
<1>1. /\ pc = "resolve" /\ pc' = "loop"
      /\ initialFrom' = cursor
      /\ commitCursor' = IF cursor >= 0 THEN cursor ELSE None
      /\ UNCHANGED <<pending, durable, head, base, pos, item, sentEver, triggered>>
  BY DEF Resolve, Begin, link, history
<1>2. cursor \in Starts /\ cursor \in Int
  BY ConfigAssumption DEF TypeInv, TypeOK, OptSeqs, Starts, Seqs, None, Live, FromDate
<1>3. StartOwed'
  BY <1>1, <1>2, ConfigAssumption
     DEF PlaceInv, StartOwed, TypeInv, TypeOK, OptSeqs, Starts, Seqs, None, Live, FromDate,
         Running, Connected, Holding
<1>4. Covered(commitCursor)'
  BY <1>1, <1>2, ConfigAssumption
     DEF PlaceInv, StartOwed, CursorsInOrder, Covered, Handled, None, Live, Seqs
<1>5. CursorsInOrder'
  BY <1>1, <1>2, <1>4, ConfigAssumption
     DEF PlaceInv, StartOwed, CursorsInOrder, Covered, Handled, LastDelivered, TypeInv,
         TypeOK, OptSeqs, Starts, Seqs, None, Live, FromDate, Running, Connected, Holding
<1>6. ConnectionInPlace'
  BY <1>1 DEF ConnectionInPlace, Connected, Holding
<1>7. QED
  BY <1>3, <1>5, <1>6 DEF PlaceInv

(* A connection opens where the last one stood; a live one that has no     *)
(* place yet takes the head of the log, and owes nothing from before it.   *)
LEMMA OpenedPlace ==
  ASSUME TypeInv, PlaceInv, Opened
  PROVE  PlaceInv'
<1>1. /\ pc = "connect" /\ pc' = "opening"
      /\ pos' = ServedFrom(WireFrom)
      /\ base' = IF WireFrom = Live THEN head ELSE base
      /\ UNCHANGED <<initialFrom, commitCursor, pending, durable, head, sentEver,
                     triggered>>
  BY DEF Opened, Connecting, steady, cursors
<1>2. /\ LastDelivered # None => WireFrom = LastDelivered /\ LastDelivered \in Seqs
      /\ LastDelivered = None => WireFrom = initialFrom
      /\ LastDelivered = None => pending = None /\ commitCursor = None
      /\ initialFrom \in Starts
  BY DEF WireFrom, LastDelivered, TypeInv, TypeOK, OptSeqs
<1>3. LastDelivered' = LastDelivered
  BY <1>1 DEF LastDelivered
<1>4. IF From # Live THEN initialFrom = From ELSE initialFrom \in OptSeqs
  BY <1>1 DEF PlaceInv, StartOwed, Running
<1>5. CASE WireFrom = Live
  <2>1. LastDelivered = None /\ initialFrom = Live /\ From = Live
    BY <1>2, <1>4, <1>5 DEF Seqs, Live
  <2>2. durable = None
    BY <1>1, <2>1 DEF PlaceInv, CursorsInOrder, Running
  <2>3. pos' = head /\ base' = head /\ head \in Seqs
    BY <1>1, <1>5 DEF ServedFrom, Live, FromDate, TypeInv, TypeOK
  <2>4. QED
    BY <1>1, <1>2, <1>3, <1>4, <2>1, <2>2, <2>3, ConfigAssumption
       DEF PlaceInv, StartOwed, CursorsInOrder, ConnectionInPlace, Covered,
           Delivery!Floor, Delivery!None, Running, Connected, Holding, None, Live, Seqs,
           FromDate
<1>6. CASE WireFrom # Live
  <2>1. base' = base
    BY <1>1, <1>6
  <2>2. pos' = Delivery!Floor
    <3>1. CASE LastDelivered # None
      BY <1>1, <1>2, <3>1
         DEF ServedFrom, Delivery!Floor, Delivery!None, None, Seqs, Live, FromDate
    <3>2. CASE LastDelivered = None
      <4>1. initialFrom = FromDate /\ From = FromDate
        BY <1>1, <1>2, <1>4, <1>6, <3>2
           DEF PlaceInv, StartOwed, Running, Starts, OptSeqs, Seqs, None, Live, FromDate
      <4>2. QED
        BY <1>1, <1>2, <3>2, <4>1
           DEF ServedFrom, PlaceInv, StartOwed, Delivery!Floor, Delivery!None, None, Live,
               FromDate
    <3>3. QED
      BY <3>1, <3>2
  <2>3. Delivery!Floor' = Delivery!Floor
    BY <1>3, <2>1 DEF Delivery!Floor
  <2>4. base # None
    <3>1. pos' \in Seqs
      BY TypeStep DEF Next, Task, TypeInv, TypeOK
    <3>2. QED
      BY <2>2, <3>1
         DEF Delivery!Floor, Delivery!None, PlaceInv, CursorsInOrder, LastDelivered, None,
             Seqs
  <2>5. QED
    BY <1>1, <1>3, <2>1, <2>2, <2>3, <2>4
       DEF PlaceInv, StartOwed, CursorsInOrder, ConnectionInPlace, Covered, Handled,
           Running, Connected, Holding
<1>7. QED
  BY <1>5, <1>6

(* A notification is refused, or it is the next one and in the task's      *)
(* hands.                                                                  *)
LEMMA NotificationPlace ==
  ASSUME TypeInv, PlaceInv, NEW s \in Seqs, Notification(s)
  PROVE  PlaceInv'
<1>1. /\ pc \in Connected /\ pos' = s /\ ServerNext(s) /\ Receive(s)
      /\ UNCHANGED <<initialFrom, pending, durable, head, base, sentEver, triggered>>
  BY DEF Notification, FrameArrives, Connected, Receive, RefuseJump, Accept, steady,
         cursors, history
<1>2. base # None /\ Delivery!IsNext(s)
  BY <1>1, NextIsAbove DEF PlaceInv, ConnectionInPlace
<1>3. CASE RefuseJump
  <2>1. pc' = "failing" /\ UNCHANGED commitCursor
    BY <1>3 DEF RefuseJump, steady, cursors
  <2>2. QED
    BY <1>1, <2>1
       DEF PlaceInv, StartOwed, CursorsInOrder, ConnectionInPlace, Covered, Handled,
           Running, Connected, Holding
<1>4. CASE Accept(s)
  <2>1. /\ item' = s
        /\ commitCursor' = IF pending # None /\ ~HasStore THEN pending ELSE commitCursor
        /\ pc' = IF pending # None /\ HasStore THEN "put" ELSE "precheck"
    BY <1>4 DEF Accept, CommittedOnAccept
  <2>2. LastDelivered' = LastDelivered
    BY <1>1, <2>1 DEF LastDelivered
  <2>3. Delivery!Floor' = Delivery!Floor
    BY <1>1, <2>2 DEF Delivery!Floor
  <2>4. Delivery!IsNext(item)'
    BY <1>1, <1>2, <2>1, <2>3 DEF Delivery!IsNext
  <2>5. ConnectionInPlace'
    BY <1>1, <1>2, <2>1, <2>4 DEF ConnectionInPlace, Connected, Holding
  <2>6. StartOwed'
    BY <1>1, <2>1 DEF PlaceInv, StartOwed, Running, Connected, Holding
  <2>7. commitCursor' \in {pending, commitCursor} /\ commitCursor' \in OptSeqs
    BY <2>1 DEF TypeInv, TypeOK
  <2>8. CursorsInOrder'
    BY <1>1, <1>2, <2>1, <2>2, <2>7
       DEF PlaceInv, CursorsInOrder, Covered, Handled, TypeInv, TypeOK, OptSeqs, Seqs,
           None, Running, Connected, Holding
  <2>9. QED
    BY <2>5, <2>6, <2>8 DEF PlaceInv
<1>5. QED
  BY <1>1, <1>3, <1>4 DEF Receive

(* Only what has been delivered is put in the store.                       *)
LEMMA StoredPlace ==
  ASSUME TypeInv, PlaceInv, durable' \in {durable, StoredAfterPut(pending)},
         pc' \notin Running \cup {"resolve"},
         UNCHANGED <<initialFrom, commitCursor, pending, head, base, sentEver, triggered>>,
         HasStore \/ durable' = durable
  PROVE  PlaceInv'
<1>1. durable' \in {durable, pending}
  BY DEF StoredAfterPut
<1>2. base = None => durable' = None
  BY <1>1 DEF PlaceInv, CursorsInOrder
<1>3. QED
  BY <1>1, <1>2
     DEF PlaceInv, StartOwed, CursorsInOrder, ConnectionInPlace, Covered, Handled,
         Running, Connected, Holding

LEMMA PutPlace ==
  ASSUME TypeInv, PlaceInv, PutSucceeds \/ PutFails
  PROVE  PlaceInv'
<1>1. pc = "put" /\ pending # None /\ HasStore
  BY DEF PutSucceeds, PutFails, PlaceInv, CursorsInOrder
<1>2. CASE PutFails
  BY <1>1, <1>2, StoredPlace
     DEF PutFails, ToStore, cursors, link, history, Running, Connected, Holding
<1>3. CASE PutSucceeds
  <2>1. /\ durable' \in {durable, pending} /\ commitCursor' = pending
        /\ pc' = "precheck"
        /\ UNCHANGED <<initialFrom, pending, head, base, pos, item, sentEver, triggered>>
    BY <1>3 DEF PutSucceeds, ToStore, StoredAfterPut, link, history
  <2>2. LastDelivered' = LastDelivered /\ LastDelivered = pending
    BY <1>1, <2>1 DEF LastDelivered
  <2>3. Delivery!IsNext(item)' = Delivery!IsNext(item)
    BY <2>1, <2>2 DEF Delivery!IsNext, Delivery!Floor
  <2>4. base # None
    BY <1>1 DEF PlaceInv, ConnectionInPlace, Holding
  <2>5. QED
    BY <1>1, <2>1, <2>2, <2>3, <2>4
       DEF PlaceInv, StartOwed, CursorsInOrder, ConnectionInPlace, Covered, Handled,
           TypeInv, TypeOK, OptSeqs, Seqs, None, Running, Connected, Holding
<1>4. QED
  BY <1>2, <1>3

LEMMA TriggerPlace ==
  ASSUME TypeInv, PlaceInv, TriggersStart \/ TriggersSucceed
  PROVE  PlaceInv'
<1>1. /\ pc \in {"precheck", "trigger"} /\ pc' \in {"trigger", "send"}
      /\ pc' = "send" /\ HasTriggers => item \in triggered'
      /\ triggered \subseteq triggered'
      /\ UNCHANGED <<initialFrom, commitCursor, pending, durable, head, base, pos, item,
                     sentEver>>
  BY DEF TriggersStart, TriggersSucceed, steady, cursors, link, history
<1>2. LastDelivered' = LastDelivered
  BY <1>1 DEF LastDelivered
<1>3. Delivery!IsNext(item)' = Delivery!IsNext(item)
  BY <1>1, <1>2 DEF Delivery!IsNext, Delivery!Floor
<1>4. QED
  BY <1>1, <1>2, <1>3
     DEF PlaceInv, StartOwed, CursorsInOrder, ConnectionInPlace, Covered, Handled,
         Running, Connected, Holding

(* What is sent is the next event, and becomes the pending one.            *)
LEMMA SendFacts ==
  ASSUME TypeInv, PlaceInv, SendNotification
  PROVE  /\ item \in Seqs /\ item \in Matching /\ base # None /\ Delivery!IsNext(item)
         /\ pending' = item /\ LastDelivered' = item
         /\ Covered(LastDelivered) /\ LastDelivered \in OptSeqs
         /\ HasTriggers => item \in triggered
<1>1. pc = "send" /\ pending' = NextPending(item) /\ UNCHANGED commitCursor
  BY DEF SendNotification
<1>2. /\ item \in Seqs /\ base # None /\ Delivery!IsNext(item) /\ item \in Matching
      /\ HasTriggers => item \in triggered
  BY <1>1 DEF PlaceInv, ConnectionInPlace, Holding, TypeInv, ItemHeld, Delivery!IsNext
<1>3. Covered(LastDelivered) /\ LastDelivered \in OptSeqs
  BY DEF LastDelivered, PlaceInv, CursorsInOrder, TypeInv, TypeOK
<1>4. (commitCursor = None \/ item > commitCursor) /\ (pending = None \/ item > pending)
  BY <1>2
     DEF Delivery!IsNext, Delivery!Floor, Delivery!None, LastDelivered, PlaceInv,
         CursorsInOrder, TypeInv, TypeOK, OptSeqs, Seqs, None
<1>5. pending' = item /\ item # None
  BY <1>1, <1>2, <1>4 DEF NextPending, Seqs, None
<1>6. QED
  BY <1>2, <1>3, <1>5 DEF LastDelivered

LEMMA SendPlace ==
  ASSUME TypeInv, PlaceInv, SendNotification
  PROVE  PlaceInv'
<1>1. /\ pc = "send" /\ pc' = "frame"
      /\ sentEver' = sentEver \cup {item}
      /\ UNCHANGED <<initialFrom, commitCursor, durable, head, base, pos, triggered>>
  BY DEF SendNotification
<1>2. pos = item /\ item <= head
  BY <1>1, SendFacts DEF PlaceInv, ConnectionInPlace, Holding, Delivery!IsNext
<1>3. Covered(pending)'
  <2> SUFFICES ASSUME NEW s \in Matching, base < s, s <= item PROVE Handled(s)'
    BY <1>1, SendFacts DEF Covered
  <2>1. CASE s = item
    BY <1>1, <2>1, SendFacts DEF Handled
  <2>2. CASE s # item
    <3>1. s <= LastDelivered
      BY <2>2, SendFacts, ConfigAssumption
         DEF Delivery!IsNext, Delivery!Floor, Delivery!None, OptSeqs, Seqs, None, TypeInv,
             TypeOK
    <3>2. QED
      BY <1>1, <3>1, SendFacts DEF Covered, Handled
  <2>3. QED
    BY <2>1, <2>2
<1>4. Covered(commitCursor)' /\ Covered(durable)'
  BY <1>1 DEF Covered, Handled, PlaceInv, CursorsInOrder
<1>5. commitCursor <= item
  BY SendFacts
     DEF Delivery!IsNext, Delivery!Floor, Delivery!None, LastDelivered, PlaceInv,
         CursorsInOrder, TypeInv, TypeOK, OptSeqs, Seqs, None
<1>6. CursorsInOrder'
  BY <1>1, <1>2, <1>3, <1>4, <1>5, SendFacts DEF CursorsInOrder, PlaceInv, Seqs, None
<1>7. StartOwed'
  BY <1>1 DEF PlaceInv, StartOwed, Running, Connected, Holding
<1>8. ConnectionInPlace'
  BY <1>1, <1>2, SendFacts
     DEF ConnectionInPlace, Connected, Holding, Delivery!Floor, Delivery!None, Seqs
<1>9. QED
  BY <1>6, <1>7, <1>8 DEF PlaceInv

LEMMA RemainingPlace ==
  ASSUME TypeInv, PlaceInv, FlushPending \/ Publish \/ Restart
  PROVE  PlaceInv'
<1>1. CASE FlushPending
  BY <1>1, StoredPlace
     DEF FlushPending, cursors, link, history, Running, Connected, Holding
<1>2. CASE Publish
  <2>1. /\ head' = head + 1
        /\ UNCHANGED <<pc, initialFrom, commitCursor, pending, durable, base, pos, item,
                       sentEver, triggered>>
    BY <1>2 DEF Publish, supervisor, cursors, link, history
  <2>2. LastDelivered' = LastDelivered
    BY <2>1 DEF LastDelivered
  <2>3. Delivery!IsNext(item) => Delivery!IsNext(item)'
    BY <2>1, <2>2, ConfigAssumption
       DEF Delivery!IsNext, Delivery!Floor, TypeInv, TypeOK, Seqs
  <2>4. Delivery!Floor' = Delivery!Floor
    BY <2>1, <2>2 DEF Delivery!Floor
  <2>5. QED
    BY <2>1, <2>2, <2>3, <2>4
       DEF PlaceInv, StartOwed, CursorsInOrder, ConnectionInPlace, Covered, Handled,
           TypeInv, TypeOK, OptSeqs, Seqs, None
<1>3. CASE Restart
  <2>1. /\ pc' = "resolve" /\ commitCursor' = None /\ pending' = None
        /\ UNCHANGED <<durable, head, base, sentEver, triggered>>
    BY <1>3 DEF Restart
  <2>2. QED
    BY <2>1, ConfigAssumption
       DEF PlaceInv, StartOwed, CursorsInOrder, ConnectionInPlace, Covered, Handled,
           TypeInv, TypeOK, Seqs, None, Running, Connected, Holding
<1>4. QED
  BY <1>1, <1>2, <1>3

LEMMA InitPlace == Init => PlaceInv
<1> SUFFICES ASSUME Init PROVE PlaceInv
  OBVIOUS
<1>1. /\ pc = "resolve" /\ commitCursor = None /\ pending = None /\ durable = None
      /\ head \in Seqs
      /\ base = CASE From >= 0 -> From [] From = FromDate -> DatePos [] From = Live -> None
  BY DEF Init, Seqs
<1>2. QED
  BY <1>1, ConfigAssumption
     DEF PlaceInv, StartOwed, CursorsInOrder, ConnectionInPlace, Covered, Starts, Seqs,
         None, Live, FromDate, Running, Connected, Holding

LEMMA PlaceStep ==
  ASSUME Honest, Inv, [Next]_vars
  PROVE  Inv'
<1>1. TypeInv'
  BY TypeStep DEF Inv
<1>2. CASE QuietStep
  BY <1>1, <1>2, QuietPlace DEF Inv
<1>3. CASE Moves
  BY <1>1, <1>3, ResolvePlace, OpenedPlace, NotificationPlace, PutPlace, TriggerPlace,
     SendPlace, RemainingPlace DEF Inv, Moves
<1>4. QED
  BY <1>2, <1>3, HonestStepCases DEF Inv

LEMMA InvAlways ==
  ASSUME Honest
  PROVE  Spec => []Inv
<1>1. Init => Inv
  BY InitType, InitPlace DEF Inv
<1>2. Inv /\ [Next]_vars => Inv'
  BY PlaceStep
<1>3. QED
  BY <1>1, <1>2, PTL DEF Spec

(* The checkpoint in the store never lies over an event of the filter that *)
(* was not put on a channel with its triggers run, for any request and     *)
(* store configuration and any number of failures, cancellations, crashes  *)
(* and restarts, when the server sends its log in order (drain.rs,         *)
(* exit_flush.rs).                                                         *)
THEOREM CheckpointOverNoHole ==
  ASSUME Honest
  PROVE  Spec => []NoHole
<1>1. Inv => NoHole
  BY DEF Inv, PlaceInv, CursorsInOrder, Covered, NoHole
<1>2. QED
  BY <1>1, InvAlways, PTL

-----------------------------------------------------------------------------
(* The refinement: every step of the supervisor is one of the checkpointed *)
(* delivery, or changes nothing of it.                                     *)

LEMMA InitRefines == Init => Delivery!Init
<1> SUFFICES ASSUME Init PROVE Delivery!Init
  OBVIOUS
<1>1. /\ commitCursor = None /\ pending = None /\ durable = None /\ sentEver = {}
      /\ head \in Seqs
      /\ base = CASE From >= 0 -> From [] From = FromDate -> DatePos [] From = Live -> None
  BY DEF Init, Seqs
<1>2. LastDelivered = None
  BY <1>1 DEF LastDelivered
<1>3. QED
  BY <1>1, <1>2, ConfigAssumption
     DEF Delivery!Init, Delivery!None, FixedStart, Starts, Seqs, None, Live, FromDate

LEMMA QuietRefines ==
  ASSUME QuietStep
  PROVE  UNCHANGED Delivery!vars
BY DEF QuietStep, placed, Delivery!vars, LastDelivered

(* A put of the pending notification is a commit, or comes too late.       *)
LEMMA StoreRefines ==
  ASSUME TypeInv, PlaceInv, durable' \in {durable, StoredAfterPut(pending)},
         LastDelivered' = LastDelivered, pending # None \/ durable' = durable,
         UNCHANGED <<head, base, sentEver>>
  PROVE  Delivery!Commit \/ UNCHANGED Delivery!vars
<1>1. CASE durable' = durable
  BY <1>1 DEF Delivery!vars
<1>2. CASE durable' # durable
  <2>1. durable' = pending /\ durable < durable' /\ pending # None
    BY <1>2 DEF StoredAfterPut
  <2>2. LastDelivered = pending /\ pending \in sentEver /\ pending <= LastDelivered
    BY <2>1
       DEF LastDelivered, PlaceInv, CursorsInOrder, TypeInv, TypeOK, OptSeqs, Seqs, None
  <2>3. QED
    BY <2>1, <2>2 DEF Delivery!Commit, Delivery!Committable
<1>3. QED
  BY <1>1, <1>2

LEMMA ResolveRefines ==
  ASSUME TypeInv, PlaceInv, Resolve
  PROVE  Delivery!Start \/ UNCHANGED Delivery!vars
<1> DEFINE cursor == IF From # Live THEN From ELSE IF HasStore THEN durable ELSE Live
<1>1. /\ commitCursor' = IF cursor >= 0 THEN cursor ELSE None
      /\ UNCHANGED <<pending, durable, head, base, sentEver>>
  BY DEF Resolve, Begin, history
<1>2. commitCursor = None /\ pending = None
  BY DEF Resolve, PlaceInv, CursorsInOrder
<1>3. LastDelivered = None /\ LastDelivered' = commitCursor'
  BY <1>1, <1>2 DEF LastDelivered
<1>4. CASE cursor >= 0
  <2>1. commitCursor' \in {durable, FixedStart} \ {None}
    BY <1>1, <1>4, ConfigAssumption
       DEF FixedStart, Starts, Seqs, None, Live, FromDate, TypeInv, TypeOK, OptSeqs
  <2>2. QED
    BY <1>1, <1>3, <2>1 DEF Delivery!Start, Delivery!None, None
<1>5. CASE ~(cursor >= 0)
  BY <1>1, <1>2, <1>3, <1>5 DEF Delivery!vars
<1>6. QED
  BY <1>4, <1>5

LEMMA OpenedRefines ==
  ASSUME TypeInv, PlaceInv, Opened
  PROVE  Delivery!Subscribe \/ UNCHANGED Delivery!vars
<1>1. /\ pc = "connect"
      /\ base' = IF WireFrom = Live THEN head ELSE base
      /\ UNCHANGED <<commitCursor, pending, durable, head, sentEver>>
  BY DEF Opened, Connecting, steady, cursors
<1>2. LastDelivered' = LastDelivered
  BY <1>1 DEF LastDelivered
<1>3. CASE WireFrom = Live
  <2>1. LastDelivered = None /\ initialFrom = Live
    BY <1>3
       DEF WireFrom, LastDelivered, TypeInv, TypeOK, OptSeqs, Seqs, None, Live
  <2>2. From = Live /\ durable = None
    BY <1>1, <2>1 DEF PlaceInv, StartOwed, CursorsInOrder, Running
  <2>3. QED
    BY <1>1, <1>2, <1>3, <2>1, <2>2
       DEF Delivery!Subscribe, Delivery!None, FixedStart, None, Live
<1>4. CASE WireFrom # Live
  BY <1>1, <1>2, <1>4 DEF Delivery!vars
<1>5. QED
  BY <1>3, <1>4

LEMMA NotificationRefines ==
  ASSUME TypeInv, PlaceInv, NEW s \in Seqs, Notification(s)
  PROVE  UNCHANGED Delivery!vars
<1>1. /\ commitCursor' = commitCursor \/ (pending # None /\ commitCursor' = pending)
      /\ UNCHANGED <<pending, durable, head, base, sentEver>>
  BY DEF Notification, Receive, RefuseJump, Accept, CommittedOnAccept, steady, cursors,
         history
<1>2. QED
  BY <1>1 DEF Delivery!vars, LastDelivered

LEMMA SendRefines ==
  ASSUME TypeInv, PlaceInv, SendNotification
  PROVE  \E s \in Matching : Delivery!Deliver(s)
<1>1. sentEver' = sentEver \cup {item} /\ UNCHANGED <<head, base, durable>>
  BY DEF SendNotification
<1>2. Delivery!Deliver(item)
  BY <1>1, SendFacts DEF Delivery!Deliver, Delivery!None, None
<1>3. QED
  BY <1>2, SendFacts

LEMMA StepRefines ==
  ASSUME Honest, Inv, [Next]_vars
  PROVE  [Delivery!Next]_(Delivery!vars)
<1> USE DEF Inv, Delivery!Next
<1>1. CASE QuietStep
  BY <1>1, QuietRefines
<1>2. CASE Resolve
  BY <1>2, ResolveRefines
<1>3. CASE Opened
  BY <1>3, OpenedRefines
<1>4. CASE PutSucceeds \/ PutFails
  <2>1. pc = "put" /\ pending # None
    BY <1>4 DEF PutSucceeds, PutFails, PlaceInv, CursorsInOrder
  <2>2. LastDelivered' = LastDelivered
    BY <1>4, <2>1 DEF PutSucceeds, PutFails, ToStore, cursors, LastDelivered
  <2>3. durable' \in {durable, StoredAfterPut(pending)} /\ UNCHANGED <<head, base, sentEver>>
    BY <1>4 DEF PutSucceeds, PutFails, ToStore, history
  <2>4. QED
    BY <2>1, <2>2, <2>3, StoreRefines
<1>5. CASE TriggersStart \/ TriggersSucceed
  BY <1>5 DEF TriggersStart, TriggersSucceed, steady, cursors, history, Delivery!vars,
              LastDelivered
<1>6. CASE SendNotification
  BY <1>6, SendRefines
<1>7. CASE FlushPending
  <2>1. durable' \in {durable, StoredAfterPut(pending)} /\ UNCHANGED <<head, base, sentEver>>
        /\ (pending # None \/ durable' = durable)
    BY <1>7 DEF FlushPending, history
  <2>2. LastDelivered' = LastDelivered
    BY <1>7 DEF FlushPending, cursors, LastDelivered
  <2>3. QED
    BY <2>1, <2>2, StoreRefines
<1>8. CASE Publish
  BY <1>8 DEF Publish, supervisor, cursors, history, LastDelivered, Delivery!Publish
<1>9. CASE Restart
  BY <1>9 DEF Restart, LastDelivered, Delivery!Stop, Delivery!None, None
<1>10. ASSUME NEW s \in Seqs, Notification(s) PROVE UNCHANGED Delivery!vars
  BY <1>10, NotificationRefines
<1>11. QED
  BY <1>1, <1>2, <1>3, <1>4, <1>5, <1>6, <1>7, <1>8, <1>9, <1>10, HonestStepCases DEF Moves

(* The supervisor implements the checkpointed delivery of its server's     *)
(* log: whatever fails, is cancelled or restarts, a process hands over the *)
(* owed events one by one in order and the store follows (reconnect.rs,    *)
(* drain.rs, initial_cursor.rs).                                           *)
THEOREM SupervisorImplementsDelivery ==
  ASSUME Honest
  PROVE  Spec => ImplementsDelivery
<1>1. Inv /\ [Next]_vars => [Delivery!Next]_(Delivery!vars)
  BY StepRefines
<1>2. QED
  BY <1>1, InvAlways, InitRefines, PTL DEF Spec, ImplementsDelivery, Delivery!Spec

-----------------------------------------------------------------------------
(* What the abstract delivery keeps.  The checkpoint alone is not          *)
(* inductive: a commit moves it up to the position, so the same must be    *)
(* known of the position (DeliveryInv of CheckpointedDelivery).            *)

LEMMA DeliveryInit ==
  ASSUME Delivery!DeliveryConstants PROVE Delivery!Init => Delivery!DeliveryInv
BY DEF Delivery!DeliveryConstants, Delivery!Init, Delivery!DeliveryInv, Delivery!DeliveryTypeOK,
       Delivery!CheckpointCoversHandled, Delivery!PositionCoversHandled, Delivery!None

(* Each action keeps the invariant.  Deliver is the only one that extends  *)
(* the position: nothing of the filter lies between the old and the new.   *)
LEMMA DeliveryStep ==
  ASSUME Delivery!DeliveryConstants
  PROVE  Delivery!DeliveryInv /\ [Delivery!Next]_(Delivery!vars) => Delivery!DeliveryInv'
<1> SUFFICES ASSUME Delivery!DeliveryInv, [Delivery!Next]_(Delivery!vars)
             PROVE  Delivery!DeliveryInv'
  OBVIOUS
<1> USE DEF Delivery!DeliveryConstants, Delivery!DeliveryInv, Delivery!DeliveryTypeOK,
            Delivery!CheckpointCoversHandled, Delivery!PositionCoversHandled, Delivery!None
<1>1. CASE Delivery!Publish
  BY <1>1 DEF Delivery!Publish
<1>2. CASE Delivery!Start
  BY <1>2 DEF Delivery!Start
<1>3. CASE Delivery!Subscribe
  BY <1>3 DEF Delivery!Subscribe
<1>4. CASE Delivery!Commit
  BY <1>4 DEF Delivery!Commit, Delivery!Committable
<1>5. CASE Delivery!Stop
  BY <1>5 DEF Delivery!Stop
<1>6. ASSUME NEW s \in Matching, Delivery!Deliver(s) PROVE Delivery!DeliveryInv'
  <2>1. \A t \in Matching : Delivery!Floor < t => s <= t
    BY <1>6 DEF Delivery!Deliver, Delivery!IsNext
  <2>2. LastDelivered' = s /\ sentEver' = sentEver \cup {s} /\ base # -1
        /\ UNCHANGED <<head, base, durable>>
    BY <1>6 DEF Delivery!Deliver
  <2>3. \A t \in Matching : base < t /\ t <= s => t \in sentEver'
    BY <2>1, <2>2 DEF Delivery!Floor
  <2>4. QED
    BY <2>2, <2>3
<1>7. CASE UNCHANGED Delivery!vars
  BY <1>7 DEF Delivery!vars
<1>8. QED
  BY <1>1, <1>2, <1>3, <1>4, <1>5, <1>6, <1>7 DEF Delivery!Next

(* In every behaviour the stored checkpoint covers handed-over events only *)
(* (the promise commit-on-next-send makes, drain.rs).                      *)
THEOREM CheckpointSafe ==
  ASSUME Delivery!DeliveryConstants
  PROVE  Delivery!Spec => []Delivery!CheckpointCoversHandled
<1>1. Delivery!DeliveryInv => Delivery!CheckpointCoversHandled
  BY DEF Delivery!DeliveryInv
<1>2. QED
  BY <1>1, DeliveryInit, DeliveryStep, PTL DEF Delivery!Spec

-----------------------------------------------------------------------------
(* Invariants of the supervisor.                                           *)

(* Steps of the consumer, the log and the client, which leave the task     *)
(* where it is.                                                            *)
LEMMA OutsideSteps ==
  ASSUME Pull \/ Cancel \/ Publish \/ UNCHANGED vars
  PROVE  UNCHANGED <<pc, st, policy, ready, pending, commitCursor, out, observed>>
BY DEF Pull, Cancel, Publish, vars, supervisor, reducer, cursors, channel, history

-----------------------------------------------------------------------------
(* Only a process that has resolved its start has a pending notification.  *)
CursorOrder ==
  /\ PendingNotBelowCommitted
  /\ pc = "resolve" => pending = None

LEMMA CursorOrderStep == TypeInv /\ CursorOrder /\ [Next]_vars => CursorOrder'
<1> SUFFICES ASSUME TypeInv, CursorOrder, [Next]_vars PROVE CursorOrder'
  OBVIOUS
<1> USE DEF CursorOrder, PendingNotBelowCommitted
<1>1. {pending, commitCursor} \subseteq Int
  BY DEF TypeInv, TypeOK, OptSeqs, Seqs, None
<1>2. CASE QuietStep
  BY <1>2 DEF QuietStep, placed
<1>3. CASE Resolve
  BY <1>3 DEF Resolve, Begin
<1>4. CASE Opened \/ TriggersStart \/ TriggersSucceed \/ Publish
  BY <1>4 DEF Opened, TriggersStart, TriggersSucceed, Publish, supervisor, steady, cursors
<1>5. CASE PutSucceeds \/ PutFails \/ FlushPending
  BY <1>1, <1>5 DEF PutSucceeds, PutFails, FlushPending, ToStore, cursors
<1>6. CASE SendNotification
  <2>1. item \in Int
    BY DEF TypeInv, TypeOK, OptSeqs, Seqs, None
  <2>2. QED
    BY <1>1, <1>6, <2>1 DEF SendNotification, NextPending
<1>7. CASE Restart
  BY <1>7 DEF Restart
<1>8. ASSUME NEW s \in Seqs, Notification(s) \/ Anomaly(s) PROVE CursorOrder'
  BY <1>1, <1>8
     DEF Notification, Anomaly, Receive, RefuseJump, Accept, CommittedOnAccept, steady,
         cursors
<1>9. QED
  BY <1>2, <1>3, <1>4, <1>5, <1>6, <1>7, <1>8, StepCases DEF Moves

(* The pending notification is never below the committed one, so a         *)
(* reconnect never goes back behind the checkpoint (mod.rs last_delivered).*)
THEOREM PendingAhead == Spec => []PendingNotBelowCommitted
<1>1. Init => CursorOrder
  BY DEF Init, CursorOrder, PendingNotBelowCommitted
<1>2. CursorOrder => PendingNotBelowCommitted
  BY DEF CursorOrder
<1>3. QED
  BY <1>1, <1>2, InitType, TypeStep, CursorOrderStep, PTL DEF Spec

-----------------------------------------------------------------------------
(* Cancellation is observed at most once: a task that has seen it is on    *)
(* its way out, so no select polls the oneshot receiver again (mod.rs      *)
(* DrainOutcome).                                                          *)
LEMMA CancellationStep ==
  CancellationObservedOnce /\ [Next]_vars => CancellationObservedOnce'
<1> SUFFICES ASSUME CancellationObservedOnce, [Next]_vars PROVE CancellationObservedOnce'
  OBVIOUS
<1> USE DEF CancellationObservedOnce
<1>1. CASE observed
  <2>1. pc \in {"flush", "done"}
    BY <1>1
  <2>2. CASE FlushPending \/ Restart
    BY <2>2 DEF FlushPending, Restart, history
  <2>3. CASE Pull \/ Cancel \/ Publish \/ UNCHANGED vars
    BY <2>3, OutsideSteps
  <2>4. \/ FlushPending \/ Restart \/ Pull \/ Cancel \/ Publish \/ UNCHANGED vars
    BY <2>1
       DEF Next, Task, Failure, Serve, Resolve, ResolveCancelled, ResolveFails, LoopEnds,
           Backoff, NoBackoff, BackoffElapsed, BackoffCancelled, RefreshSucceeds,
           RefreshFails, RefreshCancelled, RequestOverflows, ConnectCancelled, Opened,
           OpeningConfirmed, ReadCancelled, ChunkDrained, PutSucceeds, PutFails,
           TriggersStart, TriggersCancelled, TriggersSucceed, RequiredTriggerFails,
           SendNotification, SendCancelled, SendError, SendErrorCancelled, ReportExpiry,
           OpeningRefused, OpeningExpired, TransportFails, Unauthorized, Unavailable,
           StatusRefused, HeartbeatStarved, UnexpectedEof, ParserOverflow,
           ReplayLimitReached, FatalFrame, UndecodableFrame, StartupExpires, ServerCloses,
           ConnectionClosing, Notification, Anomaly, ReplayCompleted, EndOfReplay,
           FrameArrives, Connecting, Reading
  <2>5. QED
    BY <2>2, <2>3, <2>4
<1>2. CASE ~observed /\ observed'
  <2>1. \/ ResolveCancelled \/ BackoffCancelled \/ RefreshCancelled \/ ConnectCancelled
        \/ ReadCancelled \/ TriggersCancelled \/ SendCancelled \/ SendErrorCancelled
    <3>1. CASE Task
      BY <1>2, <3>1
         DEF Task, Resolve, Begin, LoopEnds, Backoff, NoBackoff, BackoffElapsed,
             RefreshSucceeds, RequestOverflows, Opened, OpeningConfirmed, ChunkDrained,
             PutSucceeds, TriggersStart, TriggersSucceed, SendNotification, SendError,
             FlushPending, ReportExpiry, history, past
    <3>2. CASE Failure
      BY <1>2, <3>2
         DEF Failure, ResolveFails, RefreshFails, OpeningRefused, OpeningExpired,
             TransportFails, Unauthorized, Unavailable, StatusRefused, HeartbeatStarved,
             UnexpectedEof, ParserOverflow, PutFails, RequiredTriggerFails,
             ReplayLimitReached, FatalFrame, UndecodableFrame, StartupExpires,
             ServerCloses, ConnectionClosing, Fail, FailWith, RetryAfterLoss, history, past
    <3>3. CASE Serve \/ \E s \in Seqs : Anomaly(s)
      BY <1>2, <3>3
         DEF Serve, Notification, Anomaly, Receive, RefuseJump, Accept, ReplayCompleted,
             EndOfReplay, ConnectionClosing, RetryAfterLoss, history, past
    <3>4. CASE Pull \/ Cancel \/ Publish \/ UNCHANGED vars
      BY <1>2, <3>4, OutsideSteps
    <3>5. CASE Restart
      BY <1>2, <3>5 DEF Restart
    <3>6. QED
      BY <3>1, <3>2, <3>3, <3>4, <3>5 DEF Next
  <2>2. QED
    BY <2>1
       DEF ResolveCancelled, BackoffCancelled, RefreshCancelled, ConnectCancelled,
           ReadCancelled, TriggersCancelled, SendCancelled, SendErrorCancelled,
           StopObserved, AfterError
<1>3. QED
  BY <1>1, <1>2

THEOREM CancellationSeenOnce == Spec => []CancellationObservedOnce
<1>1. Init => CancellationObservedOnce
  BY DEF Init, CancellationObservedOnce
<1>2. QED
  BY <1>1, CancellationStep, PTL DEF Spec

-----------------------------------------------------------------------------
(* Until a stream is confirmed the task has nothing to deliver: whatever   *)
(* is on the channel is the error it ended with.                           *)
Data == {"read", "frame"} \cup Holding

NothingYet ==
  /\ ~ready => /\ pending = None
               /\ pc \notin Data
               /\ \A i \in 1 .. Len(out) : out[i] = ErrItem
               /\ pc \notin {"flush", "done"} => out = <<>>
  /\ pc = "expired" => ~ready

(* A step that neither sends nor confirms, and reaches no data.            *)
StillStep ==
  /\ UNCHANGED <<ready, pending, out>>
  /\ \/ pc' = pc
     \/ /\ pc' \in Data => pc \in Data
        /\ pc' # "expired"
        /\ pc \in {"flush", "done"} => pc' \in {"flush", "done"}

LEMMA StillKeeps ==
  ASSUME TypeInv, NothingYet, StillStep
  PROVE  NothingYet'
BY DEF NothingYet, StillStep

LEMMA StillOutcome ==
  ASSUME \/ Fail \/ StopObserved
         \/ \E e \in Events : FailWith(e)
         \/ \E e \in Events, short \in SUBSET BOOLEAN : RetryAfterLoss(e, short),
         pc \in Running
  PROVE  StillStep
BY DEF Fail, FailWith, RetryAfterLoss, StopObserved, StillStep, steady, cursors, channel,
       Data, Holding, Connected, Running

LEMMA StillLoop ==
  ASSUME \/ Resolve \/ ResolveCancelled \/ ResolveFails \/ LoopEnds
         \/ Backoff \/ NoBackoff \/ BackoffElapsed \/ BackoffCancelled
         \/ RefreshSucceeds \/ RefreshFails \/ RefreshCancelled \/ RequestOverflows
         \/ ConnectCancelled \/ ReadCancelled \/ OpeningRefused \/ OpeningExpired
         \/ TransportFails \/ Unauthorized \/ Unavailable \/ StatusRefused \/ Opened
         \/ HeartbeatStarved \/ UnexpectedEof \/ ParserOverflow
  PROVE  StillStep
<1> USE DEF Connecting, Reading, Running, Connected, Events
<1>1. CASE Resolve \/ ResolveCancelled \/ ResolveFails \/ LoopEnds \/ Backoff
           \/ NoBackoff \/ BackoffElapsed \/ RefreshSucceeds \/ RefreshFails
           \/ RequestOverflows \/ Opened
  BY <1>1
     DEF Resolve, Begin, ResolveCancelled, ResolveFails, LoopEnds, Backoff, NoBackoff,
         BackoffElapsed, RefreshSucceeds, RefreshFails, RequestOverflows, Opened,
         StillStep, AttemptPc, steady, cursors, channel, Data, Holding
<1>2. CASE BackoffCancelled \/ RefreshCancelled \/ ConnectCancelled \/ ReadCancelled
  BY <1>2, StillOutcome
     DEF BackoffCancelled, RefreshCancelled, ConnectCancelled, ReadCancelled
<1>3. CASE OpeningRefused \/ OpeningExpired
  BY <1>3, StillOutcome DEF OpeningRefused, OpeningExpired
<1>4. CASE TransportFails
  BY <1>4, StillOutcome DEF TransportFails
<1>5. CASE Unauthorized
  <2>1. CASE MayRefresh
    BY <1>5, <2>1 DEF Unauthorized, StillStep, steady, cursors, channel, Data, Holding
  <2>2. CASE ~MayRefresh
    BY <1>5, <2>2, StillOutcome DEF Unauthorized
  <2>3. QED
    BY <2>1, <2>2
<1>6. CASE Unavailable \/ StatusRefused
  BY <1>6, StillOutcome DEF Unavailable, StatusRefused
<1>7. CASE HeartbeatStarved
  BY <1>7, StillOutcome DEF HeartbeatStarved
<1>8. CASE UnexpectedEof \/ ParserOverflow
  BY <1>8, StillOutcome DEF UnexpectedEof, ParserOverflow
<1>9. QED
  BY <1>1, <1>2, <1>3, <1>4, <1>5, <1>6, <1>7, <1>8

(* The frames of a stream that has been confirmed.                         *)
LEMMA StillFrame ==
  ASSUME \/ ChunkDrained \/ PutSucceeds \/ PutFails \/ TriggersStart
         \/ TriggersCancelled \/ TriggersSucceed \/ RequiredTriggerFails \/ SendCancelled
         \/ ReplayCompleted \/ ReplayLimitReached \/ EndOfReplay
         \/ FatalFrame \/ UndecodableFrame
         \/ \E s \in Seqs : Notification(s) \/ Anomaly(s)
         \/ \E reason \in CloseReasons : ServerCloses(reason)
  PROVE  StillStep
<1> USE DEF FrameArrives, Running, Connected, Holding, Events
<1>1. CASE ChunkDrained \/ PutSucceeds \/ PutFails \/ TriggersStart \/ TriggersSucceed
           \/ RequiredTriggerFails \/ ReplayCompleted
  BY <1>1
     DEF ChunkDrained, PutSucceeds, PutFails, TriggersStart, TriggersSucceed,
         RequiredTriggerFails, ReplayCompleted, StillStep, steady, cursors, channel, Data
<1>2. CASE TriggersCancelled \/ SendCancelled
  BY <1>2, StillOutcome DEF TriggersCancelled, SendCancelled
<1>3. CASE ReplayLimitReached \/ FatalFrame \/ UndecodableFrame
  BY <1>3, StillOutcome DEF ReplayLimitReached, FatalFrame, UndecodableFrame
<1>4. ASSUME NEW reason \in CloseReasons, ConnectionClosing(reason) PROVE StillStep
  BY <1>4, StillOutcome DEF ConnectionClosing
<1>5. CASE EndOfReplay
  BY <1>4, <1>5 DEF EndOfReplay, CloseReasons
<1>6. ASSUME NEW s \in Seqs, Notification(s) \/ Anomaly(s) PROVE StillStep
  BY <1>6
     DEF Notification, Anomaly, Receive, RefuseJump, Accept, StillStep, steady, cursors,
         channel, Data
<1>7. QED
  BY <1>1, <1>2, <1>3, <1>4, <1>5, <1>6 DEF ServerCloses

LEMMA NothingYetStep == TypeInv /\ NothingYet /\ [Next]_vars => NothingYet'
<1> SUFFICES ASSUME TypeInv, NothingYet, [Next]_vars PROVE NothingYet'
  OBVIOUS
<1>1. CASE StillStep
  BY <1>1, StillKeeps
<1>2. CASE OpeningConfirmed
  BY <1>2 DEF OpeningConfirmed, NothingYet
<1>3. CASE SendNotification
  BY <1>3 DEF SendNotification, NothingYet, Data, Holding
<1>4. CASE SendError \/ ReportExpiry
  <2>1. /\ out' = Append(out, ErrItem) /\ pc' \in {"flush", "done"}
        /\ pc \notin {"flush", "done"}
        /\ UNCHANGED <<ready, pending>>
    BY <1>4 DEF SendError, ReportExpiry, AfterError, cursors
  <2>2. out \in Seq(Items)
    BY DEF TypeInv, TypeOK
  <2>3. ASSUME ~ready PROVE \A i \in 1 .. Len(out') : out'[i] = ErrItem
    BY <2>1, <2>3 DEF NothingYet
  <2>4. QED
    BY <2>1, <2>3 DEF NothingYet, Data, Holding
<1>5. CASE SendErrorCancelled \/ FlushPending
  <2>1. StillStep
    BY <1>5 DEF SendErrorCancelled, FlushPending, AfterError, StillStep, steady, cursors,
                channel, Data, Holding
  <2>2. QED
    BY <2>1, StillKeeps
<1>6. CASE StartupExpires
  BY <1>6 DEF StartupExpires, BudgetRuns, NothingYet, cursors, channel, Data, Holding
<1>7. CASE Restart
  BY <1>7 DEF Restart, NothingYet, Data, Holding
<1>8. CASE Pull \/ Cancel \/ Publish \/ UNCHANGED vars
  <2>1. StillStep
    BY <1>8, OutsideSteps DEF StillStep
  <2>2. QED
    BY <2>1, StillKeeps
<1>9. QED
  BY <1>1, <1>2, <1>3, <1>4, <1>5, <1>6, <1>7, <1>8, StillLoop, StillFrame
     DEF Next, Task, Failure, Serve

LEMMA NothingYetAlways == Spec => [](TypeInv /\ NothingYet)
<1>1. Init => NothingYet
  BY DEF Init, NothingYet, Data, Holding
<1>2. QED
  BY <1>1, InitType, TypeStep, NothingYetStep, PTL DEF Spec

(* No notification is delivered and no trigger runs before an Aviso stream *)
(* has been confirmed (opening.rs "No data can precede confirmation").     *)
THEOREM ConfirmedBeforeData == Spec => []NoDataBeforeConfirmation
<1>1. TypeInv /\ NothingYet => NoDataBeforeConfirmation
  BY DEF NothingYet, NoDataBeforeConfirmation, Delivered, Data, Holding
<1>2. QED
  BY <1>1, NothingYetAlways, PTL

(* The startup budget, which does not race its error against the           *)
(* cancellation, always finds room for it (opening.rs "so this channel has *)
(* room").                                                                 *)
THEOREM StartupErrorAlwaysFits == Spec => []StartupErrorHasRoom
<1>1. ASSUME TypeInv, NothingYet, pc = "expired" PROVE HasRoom
  <2>1. out = <<>>
    BY <1>1 DEF NothingYet
  <2>2. Len(out) = 0 /\ taken = 0
    BY <1>1, <2>1 DEF TypeInv, TypeOK
  <2>3. Capacity > 0 /\ Capacity \in Int
    BY ConfigAssumption DEF Capacity
  <2>4. QED
    BY <2>2, <2>3 DEF HasRoom
<1>2. TypeInv /\ NothingYet => StartupErrorHasRoom
  BY <1>1 DEF StartupErrorHasRoom
<1>3. QED
  BY <1>2, NothingYetAlways, PTL

-----------------------------------------------------------------------------
(* What is on the channel, and what a connection was asked and told.       *)

kept == <<out, expected, limit, resolvedEnd, since, target, ready>>

LEMMA KeptOutcome ==
  ASSUME \/ Fail \/ StopObserved
         \/ \E e \in Events : FailWith(e)
         \/ \E e \in Events, short \in SUBSET BOOLEAN : RetryAfterLoss(e, short)
  PROVE  UNCHANGED kept
BY DEF Fail, FailWith, RetryAfterLoss, StopObserved, steady, cursors, channel, link, history, kept

(* The steps that touch them.                                              *)
KeptMoves ==
  \/ SendNotification \/ SendError \/ ReportExpiry \/ Opened \/ OpeningConfirmed \/ Restart
  \/ \E s \in Seqs : Notification(s) \/ Anomaly(s)

LEMMA KeptSteps ==
  ASSUME [Next]_vars
  PROVE  UNCHANGED kept \/ KeptMoves
<1> USE DEF Events, cursors, channel, link, history, kept
<1>1. CASE Task
  <2>1. CASE \/ BackoffCancelled \/ RefreshCancelled \/ ConnectCancelled \/ ReadCancelled
             \/ TriggersCancelled \/ SendCancelled
    BY <2>1, KeptOutcome DEF BackoffCancelled, RefreshCancelled, ConnectCancelled, ReadCancelled,
                             TriggersCancelled, SendCancelled
  <2>2. CASE \/ Resolve \/ ResolveCancelled \/ LoopEnds \/ Backoff \/ NoBackoff \/ BackoffElapsed
             \/ RefreshSucceeds \/ RequestOverflows
    BY <2>2 DEF Resolve, Begin, ResolveCancelled, LoopEnds, Backoff, NoBackoff, BackoffElapsed,
                RefreshSucceeds, RequestOverflows, steady
  <2>3. CASE \/ ChunkDrained \/ PutSucceeds \/ TriggersStart \/ TriggersSucceed
             \/ SendErrorCancelled \/ FlushPending
    BY <2>3 DEF ChunkDrained, PutSucceeds, TriggersStart, TriggersSucceed, SendErrorCancelled,
                FlushPending, steady
  <2> QED
    BY <1>1, <2>1, <2>2, <2>3 DEF Task, KeptMoves
<1>2. CASE Failure
  <2>1. CASE OpeningRefused \/ OpeningExpired
    BY <2>1, KeptOutcome DEF OpeningRefused, OpeningExpired
  <2>2. CASE TransportFails \/ Unavailable
    BY <2>2, KeptOutcome DEF TransportFails, Unavailable
  <2>3. CASE HeartbeatStarved \/ UnexpectedEof
    BY <2>3, KeptOutcome DEF HeartbeatStarved, UnexpectedEof
  <2>4. CASE StatusRefused \/ ParserOverflow
    BY <2>4, KeptOutcome DEF StatusRefused, ParserOverflow
  <2>5. CASE ReplayLimitReached \/ FatalFrame \/ UndecodableFrame
    BY <2>5, KeptOutcome DEF ReplayLimitReached, FatalFrame, UndecodableFrame
  <2>6. CASE Unauthorized /\ ~MayRefresh
    BY <2>6, KeptOutcome DEF Unauthorized
  <2>7. CASE Unauthorized /\ MayRefresh
    BY <2>7 DEF Unauthorized, steady
  <2>8. CASE ResolveFails \/ RefreshFails \/ PutFails \/ RequiredTriggerFails \/ StartupExpires
    BY <2>8 DEF ResolveFails, RefreshFails, PutFails, RequiredTriggerFails, StartupExpires, steady
  <2>9. ASSUME NEW reason \in CloseReasons, ServerCloses(reason) PROVE UNCHANGED kept
    BY <2>9, KeptOutcome DEF ServerCloses, ConnectionClosing
  <2> QED
    BY <1>2, <2>1, <2>2, <2>3, <2>4, <2>5, <2>6, <2>7, <2>8, <2>9 DEF Failure
<1>3. CASE Serve
  <2>1. CASE ReplayCompleted
    BY <2>1 DEF ReplayCompleted, steady
  <2>2. CASE EndOfReplay
    BY <2>2, KeptOutcome DEF EndOfReplay, ConnectionClosing, CloseReasons
  <2> QED
    BY <1>3, <2>1, <2>2 DEF Serve, KeptMoves
<1>4. CASE Pull \/ Cancel \/ Publish
  BY <1>4 DEF Pull, Cancel, Publish, supervisor
<1>5. CASE UNCHANGED vars
  BY <1>5 DEF vars
<1> QED
  BY <1>1, <1>2, <1>3, <1>4, <1>5 DEF Next, KeptMoves

(* What the channel carries after one more item.                           *)
LEMMA DeliveredAfter ==
  ASSUME TypeInv, NEW x \in Items, out' = Append(out, x)
  PROVE  /\ x \in Seqs => Delivered' = Delivered \cup {x}
         /\ x = ErrItem => Delivered' = Delivered
<1>1. out \in Seq(Items) /\ Len(out) \in Nat
  BY DEF TypeInv, TypeOK
<1>2. /\ Len(out') = Len(out) + 1 /\ out'[Len(out) + 1] = x
      /\ \A i \in 1 .. Len(out) : out'[i] = out[i]
  BY <1>1
<1>3. {out'[i] : i \in 1 .. Len(out')} = {out[i] : i \in 1 .. Len(out)} \cup {x}
  BY <1>1, <1>2
<1>4. ErrItem \notin Seqs
  BY DEF ErrItem, Seqs
<1> QED
  BY <1>3, <1>4 DEF Delivered

LEMMA DeliveredType ==
  ASSUME TypeInv
  PROVE  Delivered \subseteq Seqs
BY DEF TypeInv, TypeOK, Delivered, Items

LEMMA DeliveredSteps ==
  ASSUME TypeInv, [Next]_vars
  PROVE  Delivered' = Delivered \/ SendNotification \/ Restart
<1>1. CASE SendError \/ ReportExpiry
  BY <1>1, DeliveredAfter DEF SendError, ReportExpiry, Items
<1>2. CASE out' = out
  BY <1>2 DEF Delivered
<1>3. CASE \/ Opened \/ OpeningConfirmed \/ \E s \in Seqs : Notification(s) \/ Anomaly(s)
  BY <1>2, <1>3
     DEF Opened, OpeningConfirmed, Notification, Anomaly, Receive, RefuseJump, Accept, steady, channel
<1> QED
  BY <1>1, <1>2, <1>3, KeptSteps DEF KeptMoves, kept

-----------------------------------------------------------------------------
(* Where a reconnect resumes.                                              *)

(* The cursors stand on delivered notifications, or on the start, and none *)
(* that was delivered is above them, whether the server repeats, goes back *)
(* or leaves out.                                                          *)
ResumeInv ==
  /\ PendingNotBelowCommitted
  /\ \A s \in Delivered : s <= LastDelivered
  /\ pending # None => pending \in Delivered
  /\ commitCursor # None => commitCursor \in Delivered \cup {initialFrom}
  /\ initialFrom >= 0 => commitCursor # None
  /\ pc = "resolve" => commitCursor = None /\ pending = None /\ Delivered = {}
  /\ pc = "put" => pending # None

LEMMA ResumeStep == TypeInv /\ ResumeInv /\ [Next]_vars => ResumeInv'
<1> SUFFICES ASSUME TypeInv, ResumeInv, [Next]_vars PROVE ResumeInv'
  OBVIOUS
<1> USE DEF ResumeInv, PendingNotBelowCommitted
<1>1. /\ pending \in Int /\ commitCursor \in Int /\ initialFrom \in Int
      /\ pending # None => 0 <= pending
      /\ commitCursor # None => 0 <= commitCursor
  BY ConfigAssumption DEF TypeInv, TypeOK, OptSeqs, Seqs, None, Starts, Live, FromDate
<1>2. \A s \in Delivered : s \in Int /\ 0 <= s
  BY DeliveredType, ConfigAssumption DEF Seqs
<1>3. CASE SendNotification
  <2>1. pc = "send" /\ item \in Seqs
    BY <1>3 DEF SendNotification, TypeInv, ItemHeld, Holding
  <2>2. /\ pc' = "frame" /\ pending' = NextPending(item)
        /\ commitCursor' = commitCursor /\ initialFrom' = initialFrom
        /\ Delivered' = Delivered \cup {item}
    BY <1>3, <2>1, DeliveredAfter DEF SendNotification, Items
  <2>3. item \in Int /\ 0 <= item /\ item # None
    BY <2>1, ConfigAssumption DEF Seqs, None
  <2>4. /\ pending' # None => pending' \in Delivered' /\ 0 <= pending'
        /\ pending # None => pending' # None /\ pending <= pending'
        /\ pending' # None /\ commitCursor' # None => commitCursor' <= pending'
        /\ \/ pending' # None /\ item <= pending'
           \/ pending' = None /\ commitCursor # None /\ item <= commitCursor
    BY <1>1, <2>2, <2>3 DEF NextPending
  <2>5. \A s \in Delivered' : s <= LastDelivered'
    <3>1. pending' \in Int
      BY <1>1, <2>2, <2>3 DEF NextPending
    <3> QED
      BY <1>1, <1>2, <2>2, <2>3, <2>4, <3>1 DEF LastDelivered, None
  <2> QED
    BY <2>2, <2>4, <2>5
<1>4. CASE Restart
  <2>1. Delivered' = {}
    BY <1>4 DEF Restart, Delivered
  <2> QED
    BY <1>4, <2>1 DEF Restart, Live
<1>5. ASSUME Delivered' = Delivered, QuietStep PROVE ResumeInv'
  BY <1>5 DEF QuietStep, placed, Holding, LastDelivered
<1>6. ASSUME Delivered' = Delivered, Resolve PROVE ResumeInv'
  <2>1. ASSUME NEW c, Begin(c), c \in Int, pc = "resolve" PROVE ResumeInv'
    BY <1>1, <1>6, <2>1 DEF Begin, LastDelivered, None
  <2>2. From \in Int /\ durable \in Int /\ Live \in Int
    BY ConfigAssumption DEF TypeInv, TypeOK, OptSeqs, Seqs, None, Starts, Live, FromDate
  <2> QED
    BY <1>6, <2>1, <2>2 DEF Resolve
<1>7. ASSUME Delivered' = Delivered, Opened \/ TriggersStart \/ TriggersSucceed \/ FlushPending \/ Publish
      PROVE  ResumeInv'
  BY <1>7 DEF Opened, TriggersStart, TriggersSucceed, FlushPending, Publish, supervisor, steady, cursors,
              LastDelivered
<1>8. ASSUME Delivered' = Delivered, PutSucceeds \/ PutFails PROVE ResumeInv'
  BY <1>1, <1>8 DEF PutSucceeds, PutFails, ToStore, cursors, LastDelivered
<1>9. ASSUME Delivered' = Delivered, NEW s \in Seqs, Notification(s) \/ Anomaly(s) PROVE ResumeInv'
  <2>1. \/ UNCHANGED <<commitCursor, pending, initialFrom>> /\ pc' = "failing"
        \/ /\ commitCursor' = CommittedOnAccept /\ UNCHANGED <<pending, initialFrom>>
           /\ pc' = IF pending # None /\ HasStore THEN "put" ELSE "precheck"
    BY <1>9 DEF Notification, Anomaly, Receive, RefuseJump, Accept, steady, cursors
  <2> QED
    BY <1>1, <1>9, <2>1 DEF CommittedOnAccept, LastDelivered
<1> QED
  BY <1>3, <1>4, <1>5, <1>6, <1>7, <1>8, <1>9, DeliveredSteps, StepCases DEF Moves

LEMMA ResumeInvariant == Spec => [](TypeInv /\ ResumeInv)
<1>1. Init => ResumeInv
  BY DEF Init, ResumeInv, PendingNotBelowCommitted, Delivered, LastDelivered, Live, None
<1> QED
  BY <1>1, InitType, TypeStep, ResumeStep, PTL DEF Spec

(* A reconnect resumes at the highest notification this process has        *)
(* delivered, or at its start: last_delivered is never behind and never    *)
(* ahead, whatever the server repeats or sends backward (mod.rs).          *)
THEOREM ReconnectAfterHighest == Spec => []ResumeAfterHighest
<1>1. ResumeInv => ResumeAfterHighest
  BY DEF ResumeInv, ResumeAfterHighest, LastDelivered
<1> QED
  BY <1>1, ResumeInvariant, PTL

-----------------------------------------------------------------------------
(* No jump over a missing notification.                                    *)

(* The last notification, once the one in the task's hands is delivered.   *)
Reach == IF pc \in Holding /\ item > LastDelivered THEN item ELSE LastDelivered

(* Without a filter, and from a known start, what was delivered has no     *)
(* hole, and the guard of a connection lets through what leaves none.      *)
GuardInv ==
  ~Relaxed /\ initialFrom >= 0 =>
    /\ \A s \in Seqs : initialFrom < s /\ s <= LastDelivered => s \in Delivered
    /\ pc \in Connected \cup Holding =>
         /\ expected # None => expected <= Reach + 1
         /\ expected = None => Reach = MaxSeq
    /\ pc \in Holding => item <= LastDelivered + 1

JumpInv == TypeInv /\ ResumeInv /\ GuardInv

(* The guard starts at the notification after the last one delivered.      *)
LEMMA GuardOpened ==
  ASSUME JumpInv, Opened
  PROVE  GuardInv'
<1> USE DEF JumpInv, ResumeInv
<1>1. /\ pc' = "opening" /\ expected' = FirstExpected(WireFrom)
      /\ UNCHANGED <<initialFrom, commitCursor, pending, out>>
  BY DEF Opened, steady, cursors, channel
<1>2. LastDelivered' = LastDelivered /\ Delivered' = Delivered
  BY <1>1 DEF LastDelivered, Delivered
<1>3. ASSUME initialFrom >= 0
      PROVE  /\ expected' # None => expected' = LastDelivered + 1
             /\ expected' = None => LastDelivered = MaxSeq
  <2>1. LastDelivered \in Seqs /\ LastDelivered # None
    BY <1>3, ConfigAssumption DEF LastDelivered, TypeInv, TypeOK, OptSeqs, Seqs, None
  <2>2. WireFrom = LastDelivered /\ LastDelivered >= 0
    BY <2>1, ConfigAssumption DEF WireFrom, Seqs
  <2> QED
    BY <1>1, <2>1, <2>2, ConfigAssumption DEF FirstExpected, Succ, Seqs, None
<1>4. LastDelivered \in Int
  BY DEF LastDelivered, TypeInv, TypeOK, OptSeqs, Seqs, None
<1> QED
  BY <1>1, <1>2, <1>3, <1>4 DEF GuardInv, Reach, Holding, Connected

(* Accepting a notification that is no jump moves the guard past it.       *)
LEMMA GuardAccepted ==
  ASSUME JumpInv, NEW s \in Seqs, Accept(s), ~IsJump(s), pc \in {"frame", "read"}
  PROVE  GuardInv'
<1> USE DEF JumpInv, ResumeInv
<1>1. /\ expected' = NextExpected(s) /\ item' = s /\ pc' \in Holding
      /\ commitCursor' = CommittedOnAccept
      /\ UNCHANGED <<initialFrom, pending, out>>
  BY DEF Accept, channel, Holding
<1>2. LastDelivered' = LastDelivered /\ Delivered' = Delivered
  BY <1>1 DEF LastDelivered, Delivered, CommittedOnAccept
<1>3. SUFFICES ASSUME ~Relaxed, initialFrom >= 0 PROVE GuardInv'
  BY <1>1 DEF GuardInv
<1>4. /\ LastDelivered \in Seqs
      /\ expected # None => expected <= LastDelivered + 1
      /\ expected = None => LastDelivered = MaxSeq
      /\ \A t \in Seqs : initialFrom < t /\ t <= LastDelivered => t \in Delivered
  <2>1. commitCursor # None
    BY <1>3
  <2>2. LastDelivered \in Seqs
    BY <2>1 DEF LastDelivered, TypeInv, TypeOK, OptSeqs
  <2>3. pc \in Connected /\ pc \notin Holding
    BY DEF Connected, Holding
  <2> QED
    BY <1>3, <2>2, <2>3 DEF GuardInv, Reach
<1>5. s \in Int /\ LastDelivered \in Int /\ MaxSeq \in Int /\ expected \in Int
      /\ 0 <= s /\ s <= MaxSeq /\ LastDelivered <= MaxSeq
  BY <1>4, ConfigAssumption DEF TypeInv, TypeOK, OptSeqs, Seqs, None
<1>6. s <= LastDelivered + 1
  BY <1>3, <1>4, <1>5 DEF IsJump
<1>7. Reach' = IF s > LastDelivered THEN s ELSE LastDelivered
  BY <1>1, <1>2 DEF Reach
<1> DEFINE after == IF s > LastDelivered THEN s ELSE LastDelivered
<1>8. /\ after \in Int /\ s <= after /\ LastDelivered <= after
      /\ s = MaxSeq \/ LastDelivered = MaxSeq => after = MaxSeq
  BY <1>5
<1> HIDE DEF after
<1>9. expected' # None => expected' <= after + 1
  <2>1. CASE expected # None /\ s < expected
    BY <1>1, <1>4, <1>5, <1>8, <2>1 DEF NextExpected, None
  <2>2. CASE ~(expected # None /\ s < expected)
    BY <1>1, <1>5, <1>8, <2>2 DEF NextExpected, Succ, None
  <2> QED
    BY <2>1, <2>2
<1>10. expected' = None => after = MaxSeq
  <2>1. CASE expected # None /\ s < expected
    BY <1>1, <2>1 DEF NextExpected
  <2>2. CASE ~(expected # None /\ s < expected)
    BY <1>1, <1>5, <1>8, <2>2 DEF NextExpected, Succ, None
  <2> QED
    BY <2>1, <2>2
<1>11. Reach' = after
  BY <1>7 DEF after
<1> QED
  BY <1>1, <1>2, <1>4, <1>6, <1>9, <1>10, <1>11 DEF GuardInv

LEMMA GuardSent ==
  ASSUME JumpInv, SendNotification
  PROVE  GuardInv'
<1> USE DEF JumpInv, ResumeInv, PendingNotBelowCommitted
<1>1. pc = "send" /\ item \in Seqs /\ pc \in Holding
  BY DEF SendNotification, TypeInv, ItemHeld, Holding
<1>2. /\ pc' = "frame" /\ pending' = NextPending(item)
      /\ UNCHANGED <<commitCursor, initialFrom, expected>>
      /\ Delivered' = Delivered \cup {item}
  BY <1>1, DeliveredAfter DEF SendNotification, Items
<1>3. SUFFICES ASSUME ~Relaxed, initialFrom >= 0 PROVE GuardInv'
  BY <1>2 DEF GuardInv
<1>4. commitCursor # None
  BY <1>3
<1>5. /\ LastDelivered \in Seqs /\ item \in Int /\ LastDelivered \in Int /\ item # None
      /\ pending \in Int /\ commitCursor \in Int
  BY <1>1, <1>4, ConfigAssumption DEF LastDelivered, TypeInv, TypeOK, OptSeqs, Seqs, None
<1>6. LastDelivered' = Reach
  BY <1>1, <1>2, <1>4, <1>5 DEF LastDelivered, NextPending, Reach
<1>7. Reach' = LastDelivered'
  BY <1>2 DEF Reach, Holding
<1>8. \A s \in Seqs : initialFrom < s /\ s <= LastDelivered' => s \in Delivered'
  <2> SUFFICES ASSUME NEW s \in Seqs, initialFrom < s, s <= Reach PROVE s \in Delivered'
    BY <1>2, <1>6
  <2>1. item <= LastDelivered + 1
    BY <1>1, <1>3 DEF GuardInv
  <2>2. s \in Int
    BY ConfigAssumption DEF Seqs
  <2>3. s <= LastDelivered \/ s = item
    BY <1>1, <1>5, <2>1, <2>2 DEF Reach
  <2>4. s <= LastDelivered => s \in Delivered
    BY <1>3 DEF GuardInv
  <2> QED
    BY <1>2, <2>3, <2>4
<1>9. /\ expected # None => expected <= Reach + 1
      /\ expected = None => Reach = MaxSeq
  BY <1>1, <1>3 DEF GuardInv
<1> QED
  BY <1>2, <1>6, <1>7, <1>8, <1>9 DEF GuardInv, Holding

(* A step that keeps the last notification, what was delivered and what is *)
(* expected.                                                               *)
LEMMA GuardKept ==
  ASSUME GuardInv, Delivered' = Delivered, LastDelivered' = LastDelivered,
         UNCHANGED <<initialFrom, expected, item>>,
         \/ pc' \notin Connected \cup Holding
         \/ pc \in Connected /\ pc' \in Connected
         \/ pc \in Holding /\ pc' \in Holding
  PROVE  GuardInv'
BY DEF GuardInv, Reach, Connected, Holding

LEMMA GuardStep == JumpInv /\ [Next]_vars => GuardInv'
<1> SUFFICES ASSUME JumpInv, [Next]_vars PROVE GuardInv'
  OBVIOUS
<1>1. CASE Opened
  BY <1>1, GuardOpened
<1>2. CASE SendNotification
  BY <1>2, GuardSent
<1>3. CASE Restart
  BY <1>3 DEF Restart, GuardInv, Live
<1>4. ASSUME NEW s \in Seqs, Notification(s) \/ Anomaly(s) PROVE GuardInv'
  <2>1. pc \in {"frame", "read"} /\ Receive(s)
    BY <1>4 DEF Notification, Anomaly, FrameArrives
  <2>2. CASE IsJump(s)
    <3>1. /\ UNCHANGED <<initialFrom, expected, item, commitCursor, pending, out>>
          /\ pc' = "failing"
      BY <2>1, <2>2 DEF Receive, RefuseJump, steady, cursors, channel
    <3> QED
      BY <3>1, GuardKept DEF JumpInv, LastDelivered, Delivered, Connected, Holding
  <2>3. CASE ~IsJump(s)
    BY <2>1, <2>3, GuardAccepted DEF Receive
  <2> QED
    BY <2>2, <2>3
<1>5. CASE UNCHANGED kept \/ OpeningConfirmed \/ SendError \/ ReportExpiry
  <2>1. expected' = expected
    BY <1>5 DEF kept, OpeningConfirmed, SendError, ReportExpiry, link
  <2>2. Delivered' = Delivered \/ SendNotification \/ Restart
    BY DeliveredSteps DEF JumpInv
  <2>3. ASSUME Delivered' = Delivered PROVE GuardInv'
    <3>1. CASE QuietStep
      <4>1. LastDelivered' = LastDelivered /\ UNCHANGED <<initialFrom, item>>
        BY <3>1 DEF QuietStep, placed, LastDelivered
      <4>2. pc' = pc \/ (pc' \notin Holding /\ (pc' \in Connected => pc \in Connected))
        BY <3>1 DEF QuietStep
      <4> QED
        BY <2>1, <2>3, <4>1, <4>2, GuardKept DEF JumpInv
    <3>2. CASE Resolve
      <4>1. Delivered = {} /\ pending = None
        BY <3>2 DEF Resolve, Begin, JumpInv, ResumeInv
      <4>2. initialFrom' >= 0 => LastDelivered' = initialFrom'
        BY <3>2, <4>1 DEF Resolve, Begin, LastDelivered
      <4>3. pc' = "loop"
        BY <3>2 DEF Resolve, Begin
      <4>4. initialFrom' \in Int
        BY <3>2, ConfigAssumption
           DEF Resolve, Begin, JumpInv, TypeInv, TypeOK, OptSeqs, Starts, Seqs, None, Live, FromDate
      <4>5. initialFrom' >= 0 => \A s \in Seqs : ~(initialFrom' < s /\ s <= LastDelivered')
        BY <4>2, <4>4, ConfigAssumption DEF Seqs
      <4> QED
        BY <4>3, <4>5 DEF GuardInv, Connected, Holding
    <3>3. CASE PutSucceeds \/ PutFails
      <4>1. LastDelivered' = LastDelivered /\ UNCHANGED <<initialFrom, item>>
        BY <3>3 DEF PutSucceeds, PutFails, ToStore, cursors, link, LastDelivered, JumpInv, ResumeInv
      <4>2. pc = "put" /\ pc' \in {"precheck", "failing"}
        BY <3>3 DEF PutSucceeds, PutFails
      <4> QED
        BY <2>1, <2>3, <4>1, <4>2, GuardKept DEF JumpInv, Connected, Holding
    <3>4. CASE TriggersStart \/ TriggersSucceed \/ FlushPending \/ Publish
      <4>1. LastDelivered' = LastDelivered /\ UNCHANGED <<initialFrom, item>>
        BY <3>4 DEF TriggersStart, TriggersSucceed, FlushPending, Publish, supervisor, steady, cursors,
                    link, LastDelivered
      <4>2. pc' = pc \/ pc' = "done" \/ (pc \in Holding /\ pc' \in Holding)
        BY <3>4 DEF TriggersStart, TriggersSucceed, FlushPending, Publish, supervisor, Holding
      <4> QED
        BY <2>1, <2>3, <4>1, <4>2, GuardKept DEF JumpInv, Connected, Holding
    <3> QED
      BY <1>1, <1>2, <1>3, <1>4, <3>1, <3>2, <3>3, <3>4, StepCases DEF JumpInv, Moves
  <2> QED
    BY <1>2, <1>3, <2>2, <2>3
<1> QED
  BY <1>1, <1>2, <1>3, <1>4, <1>5, KeptSteps DEF KeptMoves

(* A watch without a filter delivers nothing over a missing sequence,      *)
(* within a connection and across reconnects, whatever the server sends    *)
(* (guards.rs GapGuard, with the start it is given on each connection).    *)
THEOREM JumpsAreDetected == Spec => []NoUndetectedJump
<1>1. Init => JumpInv
  <2>1. Init => GuardInv
    BY DEF Init, GuardInv, Live
  <2>2. Init => ResumeInv
    BY DEF Init, ResumeInv, PendingNotBelowCommitted, Delivered, LastDelivered, Live, None
  <2> QED
    BY <2>1, <2>2, InitType DEF JumpInv
<1>2. JumpInv /\ [Next]_vars => JumpInv'
  BY TypeStep, ResumeStep, GuardStep DEF JumpInv
<1>3. JumpInv => NoUndetectedJump
  <2> SUFFICES ASSUME JumpInv, ~Relaxed, initialFrom >= 0, NEW s \in Delivered
               PROVE  s <= initialFrom + 1 \/ s - 1 \in Delivered
    BY DEF NoUndetectedJump
  <2>1. s \in Seqs /\ s <= LastDelivered
    BY DeliveredType DEF JumpInv, ResumeInv
  <2>2. initialFrom \in Int /\ LastDelivered \in Int /\ s \in Int /\ s \in 0 .. MaxSeq
    BY <2>1, ConfigAssumption
       DEF JumpInv, TypeInv, TypeOK, LastDelivered, OptSeqs, Starts, Seqs, None, Live, FromDate
  <2>3. CASE initialFrom + 1 < s
    <3>1. s - 1 \in Seqs /\ initialFrom < s - 1 /\ s - 1 <= LastDelivered
      BY <2>1, <2>2, <2>3, ConfigAssumption DEF Seqs
    <3> QED
      BY <3>1 DEF JumpInv, GuardInv
  <2> QED
    BY <2>2, <2>3
<1> QED
  BY <1>1, <1>2, <1>3, PTL DEF Spec

-----------------------------------------------------------------------------
(* The reducer, the retries and the error item.                            *)

AtWork == {"backoff", "refresh", "connect"} \cup Connected \cup Holding
Ended  == {"flush", "done"}

(* The reducer is where the task is: a refresh that is due waits in the    *)
(* loop with no backoff to sleep, a gap or a closed session is on its way  *)
(* out, and only a replay comes back to the loop closed.  Until the task   *)
(* has ended no error is on the channel, and a watch ends with one.        *)
SessionInv ==
  /\ st.mode = Mode
  /\ refreshes <= 1 /\ (refreshes = 0 \/ refreshed)
  /\ pc \in AtWork => st.phase \notin {"gap", "closed"} /\ policy = NoPolicy
  /\ pc = "loop" => /\ st.phase # "gap"
                    /\ st.phase = "closed" => Mode = "replay_only"
                    /\ st.phase # "closed" => st.status \in {"reconnecting", "refreshing"}
  /\ pc \in {"loop", "refresh"} /\ st.status = "refreshing" => ~refreshed /\ policy = NoPolicy
  /\ pc = "backoff" => st.status = "backoff"
  /\ pc = "refresh" => st.status = "refreshing"
  /\ pc \in {"connect", "opening"} => st.status = "reconnecting"
  /\ \A i \in 1 .. Len(out) : out[i] = ErrItem => i = Len(out) /\ pc \in Ended
  /\ Mode = "watch" /\ pc \in Ended /\ ~cancelled => out # <<>> /\ out[Len(out)] = ErrItem
  /\ Until = NoEnd => resolvedEnd = None

LEMMA TransitionFields ==
  ASSUME NEW s \in WatchStates, NEW e
  PROVE  /\ Transition(s, e).mode = s.mode
         /\ s.phase = "closed" => Transition(s, e) = s
         /\ s.phase # "closed" => /\ Transition(s, e).phase = PhaseAfter(s, e)
                                  /\ Transition(s, e).status = StatusAfter(s, e)
BY DEF Transition, IsTerminal, WatchStates

LEMMA StartFields ==
  ASSUME NEW b
  PROVE  /\ InitialState(Mode, b).mode = Mode /\ InitialState(Mode, b).status = "reconnecting"
         /\ InitialState(Mode, b).phase \in {"live", "replaying"}
BY DEF InitialState

LEMMA FeedFields ==
  ASSUME TypeInv, NEW e, Feed(e), st.phase # "closed"
  PROVE  /\ st'.mode = st.mode
         /\ st'.phase = PhaseAfter(st, e) /\ st'.status = StatusAfter(st, e)
         /\ policy' = IF PolicyFor(st, e) = NoPolicy THEN policy ELSE PolicyFor(st, e)
BY TransitionFields DEF Feed, ApplyOutcome, TypeInv, TypeOK

LEMMA FeedMode ==
  ASSUME TypeInv, NEW e, Feed(e)
  PROVE  st'.mode = st.mode
BY TransitionFields DEF Feed, TypeInv, TypeOK

(* The task is on its way out: with an error to report, or cancelled.      *)
LEMMA SessionEnds ==
  ASSUME SessionInv, pc \notin Ended, st'.mode = st.mode,
         UNCHANGED <<out, refreshed, refreshes, resolvedEnd, cancelled>>,
         pc' \in {"failing", "rejecting", "expired"} \/ (pc' \in Ended /\ cancelled)
  PROVE  SessionInv'
BY DEF SessionInv, AtWork, Connected, Holding, Ended

(* A connection is lost: the reducer asks for another one, or ends a       *)
(* replay that has completed.                                              *)
LEMMA SessionLost ==
  ASSUME TypeInv, SessionInv, pc \in AtWork,
         NEW e \in CloseReasons \cup {"lost", "starved"}, NEW short, RetryAfterLoss(e, short)
  PROVE  SessionInv'
<1>1. st.phase \notin {"gap", "closed"} /\ st.mode = Mode
  BY DEF SessionInv
<1>2. /\ Feed(e) /\ pc' = "loop" /\ refreshed' = FALSE /\ refreshes' = 0
      /\ UNCHANGED <<out, resolvedEnd, cancelled>>
  BY DEF RetryAfterLoss, steady, cursors, channel
<1>3. st'.mode = Mode /\ st'.phase = PhaseAfter(st, e) /\ st'.status = StatusAfter(st, e)
  BY <1>1, <1>2, FeedFields
<1>4. e \in {"lost", "starved", "max_duration_reached", "server_shutdown", "end_of_stream"}
  BY DEF CloseReasons
<1>5. CASE e = "end_of_stream" /\ EndsReplay(st)
  <2>1. st'.phase = "closed" /\ Mode = "replay_only"
    BY <1>1, <1>3, <1>5 DEF PhaseAfter, EndsReplay
  <2>2. policy' = NoPolicy
    <3>1. policy = NoPolicy /\ PolicyFor(st, e) = NoPolicy
      BY <1>5 DEF SessionInv, PolicyFor, IsTerminal
    <3> QED
      BY <1>1, <1>2, <3>1, FeedFields
  <2> QED
    BY <1>2, <1>3, <2>1, <2>2 DEF SessionInv, AtWork, Connected, Holding, Ended
<1>6. CASE ~(e = "end_of_stream" /\ EndsReplay(st))
  <2>1. st'.phase = st.phase /\ st'.status = "reconnecting"
    BY <1>3, <1>4, <1>6 DEF PhaseAfter, StatusAfter
  <2> QED
    BY <1>1, <1>2, <1>3, <2>1 DEF SessionInv, AtWork, Connected, Holding, Ended
<1> QED
  BY <1>5, <1>6

(* The frames of a connection.                                             *)
LEMMA SessionWorks ==
  ASSUME TypeInv, SessionInv, pc \in Connected \cup Holding, pc' \in {"read", "frame"} \cup Holding,
         st'.mode = st.mode, st'.phase \notin {"gap", "closed"},
         UNCHANGED <<policy, refreshed, refreshes, cancelled>>,
         out' = out \/ \E s \in Seqs : out' = Append(out, s),
         Until = NoEnd => resolvedEnd' = None
  PROVE  SessionInv'
<1>1. pc \notin Ended /\ pc \in AtWork /\ pc' \notin Ended /\ pc' \in AtWork
      /\ pc' \notin {"loop", "backoff", "refresh", "connect", "opening"}
  BY DEF Connected, Holding, Ended, AtWork
<1>2. out \in Seq(Items) /\ \A i \in 1 .. Len(out) : out[i] # ErrItem
  BY <1>1 DEF SessionInv, TypeInv, TypeOK
<1>3. \A i \in 1 .. Len(out') : out'[i] # ErrItem
  <2>1. CASE out' = out
    BY <1>2, <2>1
  <2>2. ASSUME NEW s \in Seqs, out' = Append(out, s) PROVE \A i \in 1 .. Len(out') : out'[i] # ErrItem
    <3>1. s # ErrItem
      BY DEF ErrItem, Seqs
    <3>2. Len(out') = Len(out) + 1 /\ \A i \in 1 .. Len(out') : out'[i] = IF i = Len(out) + 1 THEN s ELSE out[i]
      BY <1>2, <2>2
    <3> QED
      BY <1>2, <3>1, <3>2
  <2> QED
    BY <2>1, <2>2
<1> QED
  BY <1>1, <1>3 DEF SessionInv

(* The reconnect loop, up to a connection.                                 *)
LEMMA SessionLoop ==
  ASSUME TypeInv, SessionInv,
         \/ Resolve \/ LoopEnds \/ Backoff \/ NoBackoff \/ BackoffElapsed
         \/ RefreshSucceeds \/ Opened \/ (Unauthorized /\ MayRefresh)
  PROVE  SessionInv'
<1> DEFINE Clear == /\ out' = out /\ resolvedEnd' = resolvedEnd /\ cancelled' = cancelled
                    /\ pc \notin Ended
<1>1. CASE Resolve
  <2>1. Clear /\ pc' = "loop" /\ UNCHANGED <<refreshed, refreshes>>
    BY <1>1 DEF Resolve, Begin, retry, channel, history, Ended
  <2>2. /\ st'.mode = Mode /\ st'.status = "reconnecting" /\ st'.phase \in {"live", "replaying"}
    BY <1>1, StartFields DEF Resolve, Begin
  <2> QED
    BY <2>1, <2>2 DEF SessionInv, AtWork, Connected, Holding, Ended
<1>2. CASE LoopEnds
  <2>1. Clear /\ pc = "loop" /\ pc' = "flush" /\ UNCHANGED <<st, policy, refreshed, refreshes>>
    BY <1>2 DEF LoopEnds, reducer, retry, cursors, channel, history, Ended
  <2>2. Mode # "watch"
    <3>1. ASSUME Mode = "watch" PROVE ~EndReached
      <4>1. Until = NoEnd /\ resolvedEnd = None
        BY <3>1, RequestAssumption DEF SessionInv
      <4> QED
        BY <4>1 DEF EndReached, WireUntil, NoEnd
    <3>2. IsTerminal(st) => Mode = "replay_only"
      BY <2>1 DEF SessionInv, IsTerminal
    <3> QED
      BY <1>2, <3>1, <3>2 DEF LoopEnds
  <2> QED
    BY <2>1, <2>2 DEF SessionInv, AtWork, Connected, Holding, Ended
<1>3. CASE Backoff
  <2>1. /\ Clear /\ pc = "loop" /\ policy # NoPolicy /\ policy' = NoPolicy
        /\ UNCHANGED <<refreshed, refreshes>>
        /\ \/ pc' = AttemptPc(st) /\ st' = st
           \/ pc' = "backoff" /\ st' = Transition(st, "backoff_started")
    BY <1>3 DEF Backoff, cursors, channel, history, Ended
  <2>2. st.phase \notin {"gap", "closed"} /\ st.status = "reconnecting" /\ st.mode = Mode
    BY <1>3, <2>1 DEF Backoff, IsTerminal, SessionInv
  <2>3. CASE pc' = AttemptPc(st) /\ st' = st
    BY <2>1, <2>2, <2>3 DEF AttemptPc, SessionInv, AtWork, Connected, Holding, Ended
  <2>4. CASE pc' = "backoff" /\ st' = Transition(st, "backoff_started")
    <3>1. st'.mode = Mode /\ st'.phase = st.phase /\ st'.status = "backoff"
      BY <2>2, <2>4, TransitionFields DEF TypeInv, TypeOK, PhaseAfter, StatusAfter
    <3> QED
      BY <2>1, <2>2, <2>4, <3>1 DEF SessionInv, AtWork, Connected, Holding, Ended
  <2> QED
    BY <2>1, <2>3, <2>4
<1>4. CASE NoBackoff
  <2>1. /\ Clear /\ pc = "loop" /\ policy = NoPolicy /\ pc' = AttemptPc(st)
        /\ UNCHANGED <<st, policy, refreshed, refreshes>>
    BY <1>4 DEF NoBackoff, reducer, retry, cursors, channel, history, Ended
  <2>2. st.phase \notin {"gap", "closed"} /\ st.status \in {"reconnecting", "refreshing"}
    BY <1>4, <2>1 DEF NoBackoff, IsTerminal, SessionInv
  <2>3. pc' = IF st.status = "refreshing" THEN "refresh" ELSE "connect"
    BY <2>1 DEF AttemptPc
  <2> QED
    BY <2>1, <2>2, <2>3 DEF SessionInv, AtWork, Connected, Holding, Ended
<1>5. CASE BackoffElapsed
  <2>1. /\ Clear /\ pc = "backoff" /\ Feed("backoff_elapsed") /\ pc' = AttemptPc(st')
        /\ UNCHANGED <<refreshed, refreshes>>
    BY <1>5 DEF BackoffElapsed, retry, cursors, channel, history, Ended
  <2>2. st.phase \notin {"gap", "closed"} /\ st.status = "backoff" /\ st.mode = Mode /\ policy = NoPolicy
    BY <2>1 DEF SessionInv, AtWork
  <2>3. /\ st'.mode = Mode /\ st'.phase = st.phase /\ st'.status = "reconnecting" /\ policy' = NoPolicy
    BY <2>1, <2>2, FeedFields DEF PhaseAfter, StatusAfter, PolicyFor
  <2>4. pc' = "connect"
    BY <2>1, <2>3 DEF AttemptPc
  <2> QED
    BY <2>1, <2>2, <2>3, <2>4 DEF SessionInv, AtWork, Connected, Holding, Ended
<1>6. CASE RefreshSucceeds
  <2>1. /\ Clear /\ pc = "refresh" /\ Feed("auth_refreshed") /\ pc' = "connect" /\ refreshed' = TRUE
        /\ refreshes' = IF refreshes < 2 THEN refreshes + 1 ELSE refreshes
    BY <1>6 DEF RefreshSucceeds, cursors, channel, Ended
  <2>2. /\ st.phase \notin {"gap", "closed"} /\ st.mode = Mode /\ policy = NoPolicy
        /\ st.status = "refreshing" /\ refreshes = 0
    BY <2>1 DEF SessionInv, AtWork
  <2>3. /\ st'.mode = Mode /\ st'.phase = st.phase /\ st'.status = "reconnecting" /\ policy' = NoPolicy
    BY <2>1, <2>2, FeedFields DEF PhaseAfter, StatusAfter, PolicyFor
  <2>4. refreshes' = 1
    BY <2>1, <2>2
  <2> QED
    BY <2>1, <2>2, <2>3, <2>4 DEF SessionInv, AtWork, Connected, Holding, Ended
<1>7. CASE Opened
  <2>1. /\ Clear /\ pc = "connect" /\ pc' = "opening" /\ UNCHANGED <<st, policy, refreshed, refreshes>>
    BY <1>7 DEF Opened, Connecting, reducer, retry, steady, cursors, channel, Ended
  <2> QED
    BY <2>1 DEF SessionInv, AtWork, Connected, Holding, Ended
<1>8. CASE Unauthorized /\ MayRefresh
  <2>1. /\ Clear /\ pc = "connect" /\ Feed("auth_rejected") /\ pc' = "loop"
        /\ UNCHANGED <<refreshed, refreshes>> /\ ~refreshed
    BY <1>8 DEF Unauthorized, MayRefresh, Connecting, steady, cursors, channel, history, Ended
  <2>2. st.phase \notin {"gap", "closed"} /\ st.mode = Mode /\ policy = NoPolicy
    BY <2>1 DEF SessionInv, AtWork
  <2>3. /\ st'.mode = Mode /\ st'.phase = st.phase /\ st'.status = "refreshing" /\ policy' = NoPolicy
    BY <2>1, <2>2, FeedFields DEF PhaseAfter, StatusAfter, PolicyFor
  <2> QED
    BY <2>1, <2>2, <2>3 DEF SessionInv, AtWork, Connected, Holding, Ended
<1> QED
  BY <1>1, <1>2, <1>3, <1>4, <1>5, <1>6, <1>7, <1>8

(* What the frames of a connection do to the session.                      *)
LEMMA SessionFrames ==
  ASSUME TypeInv, SessionInv,
         \/ OpeningConfirmed \/ ChunkDrained \/ PutSucceeds \/ TriggersStart \/ TriggersSucceed
         \/ SendNotification \/ ReplayCompleted
         \/ \E s \in Seqs : Notification(s) \/ Anomaly(s)
  PROVE  SessionInv'
<1> USE DEF reducer, retry, cursors, channel, history, steady
<1>0. /\ st.mode = Mode /\ (Until = NoEnd => resolvedEnd = None)
      /\ pc \in AtWork => st.phase \notin {"gap", "closed"} /\ policy = NoPolicy
      /\ Connected \cup Holding \subseteq AtWork
  BY DEF SessionInv, AtWork
<1>1. CASE OpeningConfirmed
  <2>1. /\ pc \in Connected /\ pc' = "frame" /\ Feed("established")
        /\ UNCHANGED <<refreshed, refreshes, cancelled, out>>
        /\ resolvedEnd' = IF resolvedEnd = None /\ Until # NoEnd THEN limit ELSE resolvedEnd
    BY <1>1 DEF OpeningConfirmed, Connected
  <2>2. st'.mode = st.mode /\ st'.phase = st.phase /\ policy' = policy
    BY <1>0, <2>1, FeedFields DEF PhaseAfter, PolicyFor
  <2> QED
    BY <1>0, <2>1, <2>2, SessionWorks
<1>2. CASE ChunkDrained \/ PutSucceeds \/ TriggersStart \/ TriggersSucceed
  <2>1. /\ pc \in Connected \cup Holding /\ pc' \in {"read"} \cup Holding
        /\ UNCHANGED <<st, policy, refreshed, refreshes, cancelled, out, resolvedEnd>>
    BY <1>2 DEF ChunkDrained, PutSucceeds, TriggersStart, TriggersSucceed, Connected, Holding
  <2> QED
    BY <1>0, <2>1, SessionWorks
<1>3. CASE SendNotification
  <2>1. /\ pc \in Holding /\ pc' = "frame" /\ out' = Append(out, item)
        /\ UNCHANGED <<st, policy, refreshed, refreshes, cancelled, resolvedEnd>>
    BY <1>3 DEF SendNotification, Holding
  <2>2. item \in Seqs
    BY <2>1 DEF TypeInv, ItemHeld
  <2> QED
    BY <1>0, <2>1, <2>2, SessionWorks
<1>4. CASE ReplayCompleted
  <2>1. /\ pc \in Connected /\ pc' = "frame" /\ Feed("replay_completed")
        /\ UNCHANGED <<refreshed, refreshes, cancelled, out, resolvedEnd>>
    BY <1>4 DEF ReplayCompleted, FrameArrives, Connected
  <2>2. st'.mode = st.mode /\ st'.phase = PhaseAfterReplay(st) /\ policy' = policy
    BY <1>0, <2>1, FeedFields DEF PhaseAfter, PolicyFor
  <2>3. st'.phase \notin {"gap", "closed"}
    BY <1>0, <2>1, <2>2 DEF PhaseAfterReplay
  <2> QED
    BY <1>0, <2>1, <2>2, <2>3, SessionWorks
<1>5. ASSUME NEW s \in Seqs, Notification(s) \/ Anomaly(s) PROVE SessionInv'
  <2>1. pc \in Connected /\ Receive(s)
    BY <1>5 DEF Notification, Anomaly, FrameArrives, Connected
  <2>2. CASE IsJump(s)
    <3>1. /\ pc' = "failing" /\ Feed("gap")
          /\ UNCHANGED <<refreshed, refreshes, cancelled, out, resolvedEnd>>
      BY <2>1, <2>2 DEF Receive, RefuseJump
    <3> QED
      BY <2>1, <3>1, FeedMode, SessionEnds DEF Connected, Ended
  <2>3. CASE ~IsJump(s)
    <3>1. /\ pc' \in Holding
          /\ UNCHANGED <<st, policy, refreshed, refreshes, cancelled, out, resolvedEnd>>
      BY <2>1, <2>3 DEF Receive, Accept, Holding
    <3> QED
      BY <1>0, <2>1, <3>1, SessionWorks
  <2> QED
    BY <2>2, <2>3
<1> QED
  BY <1>1, <1>2, <1>3, <1>4, <1>5

(* The ways a connection is lost.                                          *)
LEMMA SessionLosses ==
  ASSUME TypeInv, SessionInv,
         \/ (OpeningExpired /\ ready) \/ TransportFails \/ Unavailable \/ HeartbeatStarved
         \/ UnexpectedEof \/ EndOfReplay \/ \E reason \in CloseReasons : ServerCloses(reason)
  PROVE  SessionInv'
<1> USE DEF AtWork, Connected, Holding
<1>1. CASE OpeningExpired /\ ready
  BY <1>1, SessionLost DEF OpeningExpired, Connecting
<1>2. CASE TransportFails \/ Unavailable
  BY <1>2, SessionLost DEF TransportFails, Unavailable, Connecting, Reading
<1>3. CASE HeartbeatStarved \/ UnexpectedEof
  BY <1>3, SessionLost DEF HeartbeatStarved, UnexpectedEof, Reading
<1>4. CASE EndOfReplay
  BY <1>4, SessionLost DEF EndOfReplay, ConnectionClosing, FrameArrives, CloseReasons
<1>5. ASSUME NEW reason \in CloseReasons, ServerCloses(reason) PROVE SessionInv'
  BY <1>5, SessionLost DEF ServerCloses, ConnectionClosing, FrameArrives
<1> QED
  BY <1>1, <1>2, <1>3, <1>4, <1>5

LEMMA SessionOut ==
  ASSUME TypeInv, SessionInv, pc \notin Ended,
         \/ Fail \/ (StopObserved /\ cancelled /\ st'.mode = st.mode) \/ \E e \in Events : FailWith(e)
  PROVE  SessionInv'
<1>1. ASSUME NEW e \in Events, FailWith(e) PROVE SessionInv'
  BY <1>1, FeedMode, SessionEnds DEF FailWith, retry, steady, cursors, channel, history
<1>2. CASE Fail
  BY <1>2, SessionEnds DEF Fail, reducer, retry, steady, cursors, channel, history
<1>3. CASE StopObserved /\ cancelled /\ st'.mode = st.mode
  BY <1>3, SessionEnds DEF StopObserved, retry, cursors, channel, Ended
<1> QED
  BY <1>1, <1>2, <1>3

(* The ways the task leaves the loop.                                      *)
LEMMA SessionExits ==
  ASSUME TypeInv, SessionInv,
         \/ ResolveCancelled \/ ResolveFails \/ BackoffCancelled \/ RefreshFails \/ RefreshCancelled
         \/ RequestOverflows \/ ConnectCancelled \/ ReadCancelled \/ OpeningRefused
         \/ (OpeningExpired /\ ~ready) \/ (Unauthorized /\ ~MayRefresh) \/ StatusRefused
         \/ ParserOverflow \/ PutFails \/ TriggersCancelled \/ RequiredTriggerFails \/ SendCancelled
         \/ ReplayLimitReached \/ FatalFrame \/ UndecodableFrame \/ StartupExpires
         \/ SendErrorCancelled
  PROVE  SessionInv'
<1> USE DEF Ended, Events
<1>1. CASE \/ BackoffCancelled \/ RefreshCancelled \/ ConnectCancelled \/ TriggersCancelled
           \/ SendCancelled
  BY <1>1, SessionOut
     DEF BackoffCancelled, RefreshCancelled, ConnectCancelled, TriggersCancelled, SendCancelled,
         Connecting, reducer
<1>2. CASE ReadCancelled
  BY <1>2, FeedMode, SessionOut DEF ReadCancelled, Reading
<1>3. CASE OpeningRefused \/ (OpeningExpired /\ ~ready)
  BY <1>3, SessionOut DEF OpeningRefused, OpeningExpired, Connecting
<1>4. CASE (Unauthorized /\ ~MayRefresh) \/ StatusRefused
  BY <1>4, SessionOut DEF Unauthorized, StatusRefused, Connecting
<1>5. CASE ParserOverflow \/ ReplayLimitReached
  BY <1>5, SessionOut DEF ParserOverflow, ReplayLimitReached, FrameArrives, Reading
<1>6. CASE FatalFrame \/ UndecodableFrame
  BY <1>6, SessionOut DEF FatalFrame, UndecodableFrame, FrameArrives
<1>7. CASE RefreshFails
  BY <1>7, FeedMode, SessionEnds DEF RefreshFails, retry, cursors, channel, history
<1>8. CASE ResolveCancelled \/ ResolveFails \/ RequestOverflows \/ PutFails \/ RequiredTriggerFails
           \/ SendErrorCancelled
  BY <1>8, SessionEnds
     DEF ResolveCancelled, ResolveFails, RequestOverflows, PutFails, RequiredTriggerFails,
         SendErrorCancelled, AfterError, reducer, retry, cursors, channel, history, steady
<1>9. CASE StartupExpires
  BY <1>9, SessionEnds DEF StartupExpires, reducer, retry, cursors, channel, history
<1> QED
  BY <1>1, <1>2, <1>3, <1>4, <1>5, <1>6, <1>7, <1>8, <1>9

LEMMA SessionStep == TypeInv /\ SessionInv /\ [Next]_vars => SessionInv'
<1> SUFFICES ASSUME TypeInv, SessionInv, [Next]_vars PROVE SessionInv'
  OBVIOUS
<1>1. CASE SendError \/ ReportExpiry
  <2>1. /\ out' = Append(out, ErrItem) /\ pc' \in Ended /\ pc \notin Ended
        /\ UNCHANGED <<st, refreshed, refreshes, resolvedEnd, cancelled>>
    BY <1>1 DEF SendError, ReportExpiry, AfterError, Ended, reducer, retry, cursors, history
  <2>2. out \in Seq(Items) /\ \A i \in 1 .. Len(out) : out[i] # ErrItem
    BY <2>1 DEF SessionInv, TypeInv, TypeOK
  <2>3. /\ out' # <<>> /\ out'[Len(out')] = ErrItem
        /\ \A i \in 1 .. Len(out') : out'[i] = ErrItem => i = Len(out')
    BY <2>1, <2>2
  <2> QED
    BY <2>1, <2>3 DEF SessionInv, AtWork, Connected, Holding, Ended
<1>2. CASE FlushPending
  BY <1>2 DEF FlushPending, SessionInv, reducer, retry, cursors, channel, history, AtWork, Connected,
              Holding, Ended
<1>3. CASE Pull \/ Publish \/ UNCHANGED vars
  <2>1. UNCHANGED <<pc, st, policy, refreshed, refreshes, resolvedEnd, cancelled, out>>
    BY <1>3 DEF Pull, Publish, vars, supervisor, reducer, retry, cursors, channel, history
  <2> QED
    BY <2>1 DEF SessionInv
<1>4. CASE Cancel
  BY <1>4 DEF Cancel, SessionInv, supervisor, reducer, retry, cursors, channel, history
<1>5. CASE Restart
  <2>1. /\ st'.mode = Mode /\ pc' = "resolve" /\ refreshes' = 0 /\ resolvedEnd' = None /\ out' = <<>>
    BY <1>5, StartFields DEF Restart
  <2> QED
    BY <2>1 DEF SessionInv, AtWork, Connected, Holding, Ended
<1> QED
  BY <1>1, <1>2, <1>3, <1>4, <1>5, SessionLoop, SessionFrames, SessionLosses, SessionExits
     DEF Next, Task, Failure, Serve

(* What the nested loops of a session keep between them, whatever fails    *)
(* and whatever the server sends: nothing before the confirmation, room    *)
(* for the error of the startup budget, one refresh between two outcomes   *)
(* other than 401, no request while a refresh or a backoff is due, no item *)
(* after an error, and no watch that ends without one (mod.rs, drain.rs,   *)
(* stream.rs).                                                             *)
THEOREM SessionsAreOrderly == Spec => []SessionIsOrderly
<1>1. Init => SessionInv
  <2> SUFFICES ASSUME Init PROVE SessionInv
    OBVIOUS
  <2>1. /\ st.mode = Mode /\ pc = "resolve" /\ refreshes = 0 /\ resolvedEnd = None /\ out = <<>>
    BY StartFields DEF Init
  <2> QED
    BY <2>1 DEF SessionInv, AtWork, Connected, Holding, Ended
<1>2. SessionInv =>
        RefreshedAtMostOnce /\ ConnectsOnlyWhenReconnecting /\ ErrorIsLast /\ NoSilentEnd
  BY DEF SessionInv, RefreshedAtMostOnce, ConnectsOnlyWhenReconnecting, ErrorIsLast, NoSilentEnd,
         AtWork, Ended
<1>3. Spec => [](TypeInv /\ SessionInv)
  BY <1>1, InitType, TypeStep, SessionStep, PTL DEF Spec
<1>4. NoDataBeforeConfirmation /\ StartupErrorHasRoom /\ SessionInv => SessionIsOrderly
  BY <1>2 DEF SessionIsOrderly
<1> QED
  BY <1>3, <1>4, ConfirmedBeforeData, StartupErrorAlwaysFits, PTL

-----------------------------------------------------------------------------
(* From here on the server is honest: it sends its log in order.  What is  *)
(* delivered is then in order, and safe to resume from.                    *)

LEMMA CommittedStep == TypeInv /\ CommittedIsDurable /\ [Next]_vars => CommittedIsDurable'
<1> SUFFICES ASSUME TypeInv, CommittedIsDurable, [Next]_vars PROVE CommittedIsDurable'
  OBVIOUS
<1> USE DEF CommittedIsDurable
<1>1. durable \in Int /\ pending \in Int /\ commitCursor \in Int
  BY DEF TypeInv, TypeOK, OptSeqs, Seqs, None
<1>2. \A n \in Int : n <= StoredAfterPut(n) /\ durable <= StoredAfterPut(n) /\ StoredAfterPut(n) \in Int
  BY <1>1 DEF StoredAfterPut
<1>3. CASE QuietStep
  BY <1>3 DEF QuietStep, placed
<1>4. CASE Resolve
  BY <1>4 DEF Resolve, Begin, None
<1>5. CASE Opened \/ TriggersStart \/ TriggersSucceed \/ SendNotification \/ Publish
  BY <1>5 DEF Opened, TriggersStart, TriggersSucceed, SendNotification, Publish, supervisor, steady, cursors
<1>6. CASE PutSucceeds
  BY <1>1, <1>2, <1>6 DEF PutSucceeds, ToStore
<1>7. CASE PutFails \/ FlushPending
  <2>1. durable' \in {durable, StoredAfterPut(pending)} /\ UNCHANGED <<commitCursor, initialFrom>>
    BY <1>7 DEF PutFails, FlushPending, ToStore, cursors
  <2>2. durable <= durable' /\ durable' \in Int
    BY <1>1, <1>2, <2>1
  <2> QED
    BY <1>1, <2>1, <2>2
<1>8. CASE Restart
  BY <1>8 DEF Restart
<1>9. ASSUME NEW s \in Seqs, Notification(s) \/ Anomaly(s) PROVE CommittedIsDurable'
  BY <1>9 DEF Notification, Anomaly, Receive, RefuseJump, Accept, CommittedOnAccept, steady, cursors
<1> QED
  BY <1>3, <1>4, <1>5, <1>6, <1>7, <1>8, <1>9, StepCases DEF Moves

(* What is sent comes after all that was delivered.                        *)
LEMMA SentIsAbove ==
  ASSUME Inv, ResumeInv, SendNotification
  PROVE  \A i \in 1 .. Len(out) : out[i] < item
<1>1. item \in Seqs /\ base # None /\ Delivery!IsNext(item)
  BY SendFacts DEF Inv
<1>2. item \in Int /\ 0 <= item
  BY <1>1, ConfigAssumption DEF Seqs
<1>3. ASSUME NEW i \in 1 .. Len(out) PROVE out[i] < item
  <2>1. CASE out[i] = ErrItem
    BY <1>2, <2>1 DEF ErrItem
  <2>2. CASE out[i] # ErrItem
    <3>1. out[i] \in Delivered /\ out[i] \in Seqs /\ out[i] <= LastDelivered
      BY <2>2, DeliveredType DEF Delivered, Inv, ResumeInv
    <3>2. out[i] \in Int /\ 0 <= out[i] /\ LastDelivered \in Int
      BY <3>1, ConfigAssumption DEF Seqs, Inv, TypeInv, TypeOK, LastDelivered, OptSeqs, None
    <3>3. LastDelivered < item
      BY <1>1, <3>1, <3>2 DEF Delivery!IsNext, Delivery!Floor, Delivery!None, None
    <3> QED
      BY <1>2, <3>1, <3>2, <3>3
  <2> QED
    BY <2>1, <2>2
<1> QED
  BY <1>3

LEMMA OrderStep == Inv /\ ResumeInv /\ DeliveredInOrder /\ [Next]_vars => DeliveredInOrder'
<1> SUFFICES ASSUME Inv, ResumeInv, DeliveredInOrder, [Next]_vars PROVE DeliveredInOrder'
  OBVIOUS
<1>1. out \in Seq(Items)
  BY DEF Inv, TypeInv, TypeOK
<1>2. CASE out' = out
  BY <1>2 DEF DeliveredInOrder
<1>3. CASE SendNotification
  <2>1. out' = Append(out, item) /\ \A i \in 1 .. Len(out) : out[i] < item
    BY <1>3, SentIsAbove DEF SendNotification
  <2>2. Len(out') = Len(out) + 1 /\ \A i \in 1 .. Len(out') : out'[i] = IF i = Len(out) + 1 THEN item ELSE out[i]
    BY <1>1, <2>1
  <2> QED
    BY <1>1, <2>1, <2>2 DEF DeliveredInOrder
<1>4. CASE SendError \/ ReportExpiry
  <2>1. out' = Append(out, ErrItem)
    BY <1>4 DEF SendError, ReportExpiry
  <2>2. Len(out') = Len(out) + 1 /\ \A i \in 1 .. Len(out') : out'[i] = IF i = Len(out) + 1 THEN ErrItem ELSE out[i]
    BY <1>1, <2>1
  <2> QED
    BY <1>1, <2>2 DEF DeliveredInOrder
<1>5. CASE Restart
  BY <1>5 DEF Restart, DeliveredInOrder
<1>6. CASE \/ Opened \/ OpeningConfirmed \/ \E s \in Seqs : Notification(s) \/ Anomaly(s)
  BY <1>2, <1>6
     DEF Opened, OpeningConfirmed, Notification, Anomaly, Receive, RefuseJump, Accept, steady, channel
<1> QED
  BY <1>2, <1>3, <1>4, <1>5, <1>6, KeptSteps DEF KeptMoves, kept

(* Resuming is safe: a process delivers nothing twice and nothing out of   *)
(* order over its reconnects, and the next one starts at a checkpoint that *)
(* is in the store (reconnect.rs, drain.rs).                               *)
THEOREM ResumingIsSafe ==
  ASSUME Honest
  PROVE  Spec => []ResumesSafely
<1>1. Init => DeliveredInOrder /\ CommittedIsDurable
  BY DEF Init, DeliveredInOrder, CommittedIsDurable
<1>2. Inv => TypeInv
  BY DEF Inv
<1>3. DeliveredInOrder /\ CommittedIsDurable => ResumesSafely
  BY DEF ResumesSafely
<1> QED
  BY <1>1, <1>2, <1>3, InvAlways, ResumeInvariant, OrderStep, CommittedStep, PTL DEF Spec

-----------------------------------------------------------------------------
(* A replay with an honest server: what its connections were told, and     *)
(* what it has delivered of it.                                            *)

Retrying == {"backoff", "refresh", "connect"}

(* A request is only sent after a look at the end of the replay, and no    *)
(* cursor moves in between.                                                *)
EndAhead == pc \in Retrying => ~EndReached

LEMMA RetryingSteps ==
  ASSUME [Next]_vars, pc' \in Retrying
  PROVE  /\ UNCHANGED cursors
         /\ pc \in Retrying \/ (pc = "loop" /\ ~EndReached)
<1>1. \/ Backoff \/ NoBackoff \/ BackoffElapsed \/ RefreshSucceeds
      \/ Pull \/ Cancel \/ Publish \/ UNCHANGED vars
  BY DEF Retrying, Next, Task, Failure, Serve, Resolve, Begin, ResolveCancelled, ResolveFails,
         LoopEnds, BackoffCancelled, RefreshFails, RefreshCancelled, RequestOverflows,
         ConnectCancelled, Opened, OpeningConfirmed, ReadCancelled, ChunkDrained, PutSucceeds,
         PutFails, TriggersStart, TriggersCancelled, TriggersSucceed, RequiredTriggerFails,
         SendNotification, SendCancelled, SendError, SendErrorCancelled, AfterError, FlushPending,
         ReportExpiry, OpeningRefused, OpeningExpired, TransportFails, Unauthorized, Unavailable,
         StatusRefused, HeartbeatStarved, UnexpectedEof, ParserOverflow, ReplayLimitReached,
         FatalFrame, UndecodableFrame, StartupExpires, ServerCloses, ConnectionClosing,
         Notification, Anomaly, Receive, RefuseJump, Accept, ReplayCompleted, EndOfReplay, Fail,
         FailWith, RetryAfterLoss, StopObserved, Restart
<1>2. CASE Backoff \/ NoBackoff \/ BackoffElapsed \/ RefreshSucceeds
  BY <1>2 DEF Retrying, Backoff, NoBackoff, BackoffElapsed, RefreshSucceeds
<1>3. CASE Pull \/ Cancel \/ Publish \/ UNCHANGED vars
  BY <1>3 DEF Pull, Cancel, Publish, vars, supervisor
<1> QED
  BY <1>1, <1>2, <1>3

LEMMA EndAheadStep == EndAhead /\ [Next]_vars => EndAhead'
<1> SUFFICES ASSUME EndAhead, [Next]_vars, pc' \in Retrying PROVE ~EndReached'
  BY DEF EndAhead
<1>1. EndReached' = EndReached
  BY RetryingSteps DEF cursors, EndReached, WireUntil, LastDelivered
<1> QED
  BY <1>1, RetryingSteps DEF EndAhead

(* What the connections of a replay were told: the first confirmed one     *)
(* fixes its start and its end, and no later one is served beyond that end *)
(* or short of it.                                                         *)
ConfirmInv ==
  /\ ready <=> since # None
  /\ target # None => since # None /\ target <= head
  /\ Mode = "replay_only" /\ since # None => target # None
  /\ since = None => resolvedEnd = None
  /\ since # None /\ Until # NoEnd => resolvedEnd = target
  /\ pc = "resolve" => since = None
  /\ Mode = "replay_only" /\ pc \in Connected \cup Holding =>
       /\ limit <= head
       /\ target # None => target <= limit
       /\ resolvedEnd # None => limit <= resolvedEnd

LEMMA ConfirmOpened ==
  ASSUME TypeInv, SessionInv, ConfirmInv, Opened
  PROVE  ConfirmInv'
<1>1. /\ limit' \in ServedUntil /\ pc' = "opening" /\ pc = "connect"
      /\ UNCHANGED <<ready, since, target, resolvedEnd, head>>
  BY DEF Opened, Connecting, steady, cursors
<1>2. /\ head \in Seqs /\ target \in OptSeqs /\ resolvedEnd \in OptSeqs
      /\ Until = NoEnd => resolvedEnd = None
  BY DEF TypeInv, TypeOK, SessionInv
<1>3. Until \in Seqs \cup {NoEnd, UntilDate}
  BY ConfigAssumption
<1>4. ASSUME Mode = "replay_only"
      PROVE  /\ limit' <= head
             /\ target # None => target <= limit'
             /\ resolvedEnd # None => limit' <= resolvedEnd
  <2>1. CASE resolvedEnd # None
    <3>1. resolvedEnd = target /\ target <= head /\ WireUntil = target /\ target \in 0 .. MaxSeq
      BY <1>2, <2>1 DEF ConfirmInv, WireUntil, OptSeqs, Seqs
    <3>2. target \in Int /\ target >= 0 /\ head \in Int
      BY <1>2, <3>1, ConfigAssumption DEF Seqs
    <3>3. limit' = target
      BY <1>1, <1>4, <3>1, <3>2 DEF ServedUntil, NoEnd, UntilDate
    <3> QED
      BY <3>1, <3>2, <3>3
  <2>2. CASE resolvedEnd = None
    <3>1. WireUntil = Until
      BY <2>2 DEF WireUntil
    <3>2. head \in Int /\ limit' \in Int /\ limit' <= head
      BY <1>1, <1>2, <1>3, <1>4, <3>1, ConfigAssumption DEF ServedUntil, Seqs, NoEnd, UntilDate
    <3>3. ASSUME target # None PROVE target <= limit'
      <4>1. Until = NoEnd
        BY <2>2, <3>3 DEF ConfirmInv
      <4>2. limit' = head
        BY <1>1, <1>4, <3>1, <4>1 DEF ServedUntil, NoEnd, UntilDate
      <4> QED
        BY <3>3, <4>2 DEF ConfirmInv
    <3> QED
      BY <2>2, <3>2, <3>3
  <2> QED
    BY <2>1, <2>2
<1> QED
  BY <1>1, <1>4 DEF ConfirmInv

LEMMA ConfirmConfirmed ==
  ASSUME TypeInv, ConfirmInv, OpeningConfirmed
  PROVE  ConfirmInv'
<1>1. /\ pc = "opening" /\ pc' = "frame" /\ ready' = TRUE
      /\ resolvedEnd' = IF resolvedEnd = None /\ Until # NoEnd THEN limit ELSE resolvedEnd
      /\ since' = IF since = None THEN pos ELSE since
      /\ target' = IF target = None /\ Mode = "replay_only" THEN limit ELSE target
      /\ UNCHANGED <<limit, head>>
  BY DEF OpeningConfirmed, link
<1>2. pos # None /\ limit # None /\ {limit, head, target, resolvedEnd} \subseteq Int
  BY ConfigAssumption DEF TypeInv, TypeOK, OptSeqs, Seqs, None
<1>3. since' # None /\ (since # None => since' = since)
  BY <1>1, <1>2
<1>4. Until # NoEnd => Mode = "replay_only"
  BY RequestAssumption
<1>5. pc \in Connected /\ pc' # "resolve"
  BY <1>1 DEF Connected
<1>6. /\ Mode = "replay_only" => target' # None /\ target' <= head /\ target' <= limit
      /\ target' # None => target' <= head
  BY <1>1, <1>2, <1>5 DEF ConfirmInv
<1>7. Until # NoEnd => resolvedEnd' = target'
  BY <1>1, <1>2, <1>4 DEF ConfirmInv
<1>8. Mode = "replay_only" => limit <= head /\ (resolvedEnd' # None => limit <= resolvedEnd')
  BY <1>1, <1>2, <1>5 DEF ConfirmInv
<1> QED
  BY <1>1, <1>3, <1>5, <1>6, <1>7, <1>8 DEF ConfirmInv

(* A step that confirms nothing and keeps the connection, or leaves it.    *)
LEMMA ConfirmKept ==
  ASSUME TypeInv, TypeInv', ConfirmInv, UNCHANGED <<limit, resolvedEnd, since, target, ready>>,
         head <= head',
         \/ pc' = pc
         \/ pc' # "resolve" /\ (pc' \in Connected \cup Holding => pc \in Connected \cup Holding)
  PROVE  ConfirmInv'
<1>1. {head, limit, target, head'} \subseteq Int
  BY ConfigAssumption DEF TypeInv, TypeOK, OptSeqs, Seqs, None
<1> QED
  BY <1>1 DEF ConfirmInv

LEMMA ConfirmStep ==
  TypeInv /\ SessionInv /\ ConfirmInv /\ [Next]_vars => ConfirmInv'
<1> SUFFICES ASSUME TypeInv, SessionInv, ConfirmInv, [Next]_vars PROVE ConfirmInv'
  OBVIOUS
<1>1. CASE Opened
  BY <1>1, ConfirmOpened
<1>2. CASE OpeningConfirmed
  BY <1>2, ConfirmConfirmed
<1>3. CASE Restart
  BY <1>3 DEF Restart, ConfirmInv, Connected, Holding
<1>4. head \in Int /\ TypeInv'
  BY TypeStep, ConfigAssumption DEF TypeInv, TypeOK, Seqs
<1>5. ASSUME NEW s \in Seqs, Notification(s) \/ Anomaly(s) PROVE ConfirmInv'
  <2>1. /\ pc \in Connected /\ pc' # "resolve"
        /\ UNCHANGED <<limit, resolvedEnd, since, target, ready, head>>
    BY <1>5 DEF Notification, Anomaly, FrameArrives, Receive, RefuseJump, Accept, steady, cursors,
                history, Connected
  <2> QED
    BY <1>4, <2>1, ConfirmKept
<1>6. CASE SendNotification \/ SendError \/ ReportExpiry
  <2>1. UNCHANGED <<limit, resolvedEnd, since, target, ready, head>>
    BY <1>6 DEF SendNotification, SendError, ReportExpiry, link, cursors, history
  <2>2. pc' # "resolve" /\ (pc' \in Connected \cup Holding => pc \in Connected \cup Holding)
    BY <1>6 DEF SendNotification, SendError, ReportExpiry, AfterError, Connected, Holding
  <2> QED
    BY <1>4, <2>1, <2>2, ConfirmKept
<1>7. CASE UNCHANGED kept
  <2>1. UNCHANGED <<limit, resolvedEnd, since, target, ready>>
    BY <1>7 DEF kept
  <2>2. CASE QuietStep
    BY <1>4, <2>1, <2>2, ConfirmKept DEF QuietStep, placed
  <2>3. CASE \/ Resolve \/ PutSucceeds \/ PutFails \/ TriggersStart \/ TriggersSucceed
             \/ FlushPending \/ Publish
    <3>1. head <= head'
      BY <1>4, <2>3
         DEF Resolve, Begin, PutSucceeds, PutFails, TriggersStart, TriggersSucceed, FlushPending,
             Publish, steady
    <3>2. \/ pc' = pc
          \/ pc' # "resolve" /\ (pc' \in Connected \cup Holding => pc \in Connected \cup Holding)
      BY <2>3
         DEF Resolve, Begin, PutSucceeds, PutFails, TriggersStart, TriggersSucceed, FlushPending,
             Publish, supervisor, Connected, Holding
    <3> QED
      BY <1>4, <2>1, <3>1, <3>2, ConfirmKept
  <2> QED
    BY <1>1, <1>3, <1>5, <1>6, <2>2, <2>3, StepCases DEF Moves
<1> QED
  BY <1>1, <1>2, <1>3, <1>5, <1>6, <1>7, KeptSteps DEF KeptMoves

(* How the phase of the reducer changes: nothing but the completion frame  *)
(* completes a replay, and only the end of the stream closes one on the    *)
(* way back to the loop.                                                   *)
LEMMA FeedPhase ==
  ASSUME TypeInv, NEW e, Feed(e)
  PROVE  /\ e # "replay_completed" /\ st'.phase = "replayed" => st.phase = "replayed"
         /\ st.phase = "closed" => st'.phase = "closed"
         /\ st'.phase = "closed" =>
              \/ e \in {"auth_refused", "fatal", "stop"} \/ st.phase \in {"closed", "replayed"}
<1>1. st \in WatchStates
  BY DEF TypeInv, TypeOK
<1>2. CASE st.phase = "closed"
  BY <1>1, <1>2, TransitionFields DEF Feed
<1>3. CASE st.phase # "closed"
  <2>1. st'.phase = PhaseAfter(st, e)
    BY <1>3, FeedFields
  <2> QED
    BY <1>3, <2>1 DEF PhaseAfter, PhaseAfterReplay, EndsReplay
<1> QED
  BY <1>2, <1>3

(* The phase is not completed by this step, and not brought closed to the  *)
(* loop.                                                                   *)
PhaseMoves ==
  /\ st'.phase = "replayed" => st.phase = "replayed"
  /\ pc' = "loop" /\ st'.phase = "closed" =>
       st.phase = "replayed" \/ (pc = "loop" /\ st.phase = "closed")

LEMMA PhaseOutcome ==
  ASSUME TypeInv,
         \/ Fail \/ (StopObserved /\ UNCHANGED st) \/ (StopObserved /\ Feed("stop"))
         \/ \E e \in Events \ {"replay_completed"} : FailWith(e)
         \/ /\ st.phase # "closed"
            /\ \E e \in CloseReasons \cup {"lost", "starved"}, short \in SUBSET BOOLEAN :
                 RetryAfterLoss(e, short)
  PROVE  PhaseMoves
<1>1. CASE Fail \/ (StopObserved /\ UNCHANGED st)
  BY <1>1 DEF Fail, StopObserved, reducer, PhaseMoves
<1>2. CASE StopObserved /\ Feed("stop")
  BY <1>2, FeedPhase DEF StopObserved, PhaseMoves
<1>3. ASSUME NEW e \in Events \ {"replay_completed"}, FailWith(e) PROVE PhaseMoves
  BY <1>3, FeedPhase DEF FailWith, PhaseMoves
<1>4. ASSUME NEW e \in CloseReasons \cup {"lost", "starved"}, NEW short, RetryAfterLoss(e, short),
             st.phase # "closed"
      PROVE  PhaseMoves
  BY <1>4, FeedPhase DEF RetryAfterLoss, PhaseMoves, CloseReasons
<1> QED
  BY <1>1, <1>2, <1>3, <1>4

LEMMA PhaseLoop ==
  ASSUME TypeInv, SessionInv,
         \/ Resolve \/ ResolveCancelled \/ ResolveFails \/ LoopEnds \/ Backoff \/ NoBackoff
         \/ BackoffElapsed \/ BackoffCancelled \/ RefreshSucceeds \/ RefreshFails \/ RefreshCancelled
         \/ RequestOverflows \/ ConnectCancelled \/ Opened \/ OpeningConfirmed \/ ReadCancelled
         \/ OpeningRefused \/ OpeningExpired \/ TransportFails \/ Unauthorized \/ Unavailable
         \/ StatusRefused \/ HeartbeatStarved \/ UnexpectedEof \/ ParserOverflow
  PROVE  PhaseMoves
<1> USE DEF Events
<1>1. CASE ResolveCancelled \/ ResolveFails \/ LoopEnds \/ NoBackoff \/ RequestOverflows \/ Opened
  BY <1>1
     DEF ResolveCancelled, ResolveFails, LoopEnds, NoBackoff, RequestOverflows, Opened, AttemptPc,
         reducer, PhaseMoves
<1>2. CASE Resolve
  BY <1>2, StartFields DEF Resolve, Begin, PhaseMoves
<1>3. CASE Backoff
  <2>1. pc' # "loop"
    BY <1>3 DEF Backoff, AttemptPc
  <2>2. st' = st \/ st' = Transition(st, "backoff_started")
    BY <1>3 DEF Backoff
  <2>3. st'.phase = st.phase
    BY <2>2, TransitionFields DEF TypeInv, TypeOK, PhaseAfter
  <2> QED
    BY <2>1, <2>3 DEF PhaseMoves
<1>4. CASE BackoffElapsed \/ RefreshSucceeds \/ RefreshFails \/ OpeningConfirmed
  <2>1. /\ pc' # "loop"
        /\ \E e \in Events \ {"replay_completed"} : Feed(e)
    BY <1>4 DEF BackoffElapsed, RefreshSucceeds, RefreshFails, OpeningConfirmed, AttemptPc
  <2> QED
    BY <2>1, FeedPhase DEF PhaseMoves
<1>5. CASE BackoffCancelled \/ RefreshCancelled \/ ConnectCancelled \/ ReadCancelled
  BY <1>5, PhaseOutcome
     DEF BackoffCancelled, RefreshCancelled, ConnectCancelled, ReadCancelled, reducer
<1>6. Connecting \/ Reading \/ pc = "frame" => st.phase # "closed"
  BY DEF SessionInv, AtWork, Connected, Connecting, Reading
<1>7. CASE OpeningRefused \/ OpeningExpired
  BY <1>6, <1>7, PhaseOutcome DEF OpeningRefused, OpeningExpired, Reading
<1>8. CASE TransportFails \/ Unavailable
  BY <1>6, <1>8, PhaseOutcome DEF TransportFails, Unavailable
<1>9. CASE Unauthorized
  <2>1. CASE MayRefresh
    BY <1>6, <1>9, <2>1, FeedPhase DEF Unauthorized, PhaseMoves
  <2>2. CASE ~MayRefresh
    BY <1>9, <2>2, PhaseOutcome DEF Unauthorized
  <2> QED
    BY <2>1, <2>2
<1>10. CASE StatusRefused \/ ParserOverflow
  BY <1>10, PhaseOutcome DEF StatusRefused, ParserOverflow
<1>11. CASE HeartbeatStarved \/ UnexpectedEof
  BY <1>6, <1>11, PhaseOutcome DEF HeartbeatStarved, UnexpectedEof, Reading
<1> QED
  BY <1>1, <1>2, <1>3, <1>4, <1>5, <1>7, <1>8, <1>9, <1>10, <1>11

LEMMA PhaseFrame ==
  ASSUME TypeInv, SessionInv,
         \/ ChunkDrained \/ PutSucceeds \/ PutFails \/ TriggersStart \/ TriggersCancelled
         \/ TriggersSucceed \/ RequiredTriggerFails \/ SendNotification \/ SendCancelled
         \/ ReplayLimitReached \/ EndOfReplay \/ FatalFrame \/ UndecodableFrame
         \/ \E s \in Seqs : Notification(s) \/ Anomaly(s)
         \/ \E reason \in CloseReasons : ServerCloses(reason)
  PROVE  PhaseMoves
<1> USE DEF Events
<1>1. CASE \/ ChunkDrained \/ PutSucceeds \/ PutFails \/ TriggersStart \/ TriggersSucceed
           \/ RequiredTriggerFails \/ SendNotification
  BY <1>1
     DEF ChunkDrained, PutSucceeds, PutFails, TriggersStart, TriggersSucceed, RequiredTriggerFails,
         SendNotification, reducer, PhaseMoves
<1>2. CASE TriggersCancelled \/ SendCancelled
  BY <1>2, PhaseOutcome DEF TriggersCancelled, SendCancelled, reducer
<1>3. CASE ReplayLimitReached \/ FatalFrame \/ UndecodableFrame
  BY <1>3, PhaseOutcome DEF ReplayLimitReached, FatalFrame, UndecodableFrame
<1>4. ASSUME NEW reason \in CloseReasons, ConnectionClosing(reason) PROVE PhaseMoves
  <2>1. st.phase # "closed"
    BY <1>4 DEF ConnectionClosing, FrameArrives, SessionInv, AtWork, Connected
  <2> QED
    BY <1>4, <2>1, PhaseOutcome DEF ConnectionClosing
<1>5. CASE EndOfReplay
  BY <1>4, <1>5 DEF EndOfReplay, CloseReasons
<1>6. ASSUME NEW s \in Seqs, Notification(s) \/ Anomaly(s) PROVE PhaseMoves
  <2>1. Receive(s)
    BY <1>6 DEF Notification, Anomaly
  <2>2. CASE IsJump(s)
    BY <2>1, <2>2, FeedPhase DEF Receive, RefuseJump, PhaseMoves
  <2>3. CASE ~IsJump(s)
    BY <2>1, <2>3 DEF Receive, Accept, reducer, PhaseMoves
  <2> QED
    BY <2>2, <2>3
<1> QED
  BY <1>1, <1>2, <1>3, <1>4, <1>5, <1>6 DEF ServerCloses

LEMMA PhaseSteps ==
  ASSUME TypeInv, SessionInv, [Next]_vars
  PROVE  PhaseMoves \/ ReplayCompleted
<1>1. CASE SendError \/ SendErrorCancelled \/ FlushPending \/ StartupExpires \/ ReportExpiry
  BY <1>1 DEF SendError, SendErrorCancelled, FlushPending, StartupExpires, ReportExpiry, AfterError,
              reducer, PhaseMoves
<1>2. CASE Pull \/ Cancel \/ Publish \/ UNCHANGED vars
  BY <1>2, OutsideSteps DEF PhaseMoves
<1>3. CASE Restart
  BY <1>3, StartFields DEF Restart, PhaseMoves
<1> QED
  BY <1>1, <1>2, <1>3, PhaseLoop, PhaseFrame DEF Next, Task, Failure, Serve

(* The task ends in the loop, with an error or cancelled.                  *)
Clean == pc \in Ended /\ ~cancelled /\ ~HasFailed

LEMMA CleanSteps ==
  ASSUME TypeInv, [Next]_vars, Clean'
  PROVE  Clean \/ LoopEnds
<1>1. CASE SendError \/ ReportExpiry
  <2>1. out' = Append(out, ErrItem) /\ out \in Seq(Items)
    BY <1>1 DEF SendError, ReportExpiry, TypeInv, TypeOK
  <2>2. out'[Len(out) + 1] = ErrItem /\ Len(out) + 1 \in 1 .. Len(out')
    BY <2>1
  <2>3. HasFailed'
    BY <2>2 DEF HasFailed
  <2> QED
    BY <2>3 DEF Clean
<1>2. CASE FlushPending
  BY <1>2 DEF FlushPending, Clean, HasFailed, Ended, channel
<1>3. CASE Pull \/ Cancel \/ Publish \/ UNCHANGED vars
  BY <1>3 DEF Pull, Cancel, Publish, vars, supervisor, channel, Clean, HasFailed, Ended
<1>4. CASE cancelled /\ cancelled' = cancelled
  BY <1>4 DEF Clean
<1>5. \/ SendError \/ ReportExpiry \/ FlushPending \/ LoopEnds
      \/ Pull \/ Cancel \/ Publish \/ UNCHANGED vars
      \/ (cancelled /\ cancelled' = cancelled)
  BY DEF Clean, Ended, Next, Task, Failure, Serve, Resolve, Begin, ResolveCancelled, ResolveFails,
         Backoff, NoBackoff, AttemptPc, BackoffElapsed, BackoffCancelled, RefreshSucceeds,
         RefreshFails, RefreshCancelled, RequestOverflows, ConnectCancelled, Opened,
         OpeningConfirmed, ReadCancelled, ChunkDrained, PutSucceeds, PutFails, TriggersStart,
         TriggersCancelled, TriggersSucceed, RequiredTriggerFails, SendNotification, SendCancelled,
         SendErrorCancelled, OpeningRefused, OpeningExpired, TransportFails, Unauthorized,
         Unavailable, StatusRefused, HeartbeatStarved, UnexpectedEof, ParserOverflow,
         ReplayLimitReached, FatalFrame, UndecodableFrame, StartupExpires, ServerCloses,
         ConnectionClosing, Notification, Anomaly, Receive, RefuseJump, Accept, ReplayCompleted,
         EndOfReplay, Fail, FailWith, RetryAfterLoss, StopObserved, Restart, steady
<1> QED
  BY <1>1, <1>2, <1>3, <1>4, <1>5

(* The whole backlog of the replay has been delivered.                     *)
Complete ==
  /\ target # None
  /\ \A s \in Matching : since < s /\ s <= target => s \in Delivered

(* A replay leaves nothing behind its place, and lets nothing through      *)
(* beyond its end; a replay that has completed, or ended well, is complete.*)
RangeInv ==
  /\ since # None => \A s \in Matching : since < s /\ s <= Delivery!Floor => s \in Delivered
  /\ pc \in Holding => item <= limit
  /\ resolvedEnd # None => \A s \in Delivered : s <= resolvedEnd
  /\ st.phase = "replayed" \/ (pc = "loop" /\ st.phase = "closed") => Complete
  /\ Mode = "replay_only" /\ Clean => Complete

ReplayInv ==
  /\ Inv /\ NothingYet /\ ResumeInv /\ SessionInv
  /\ EndAhead /\ ConfirmInv /\ RangeInv

(* The place only moves with a notification that is sent.                  *)
LEMMA FloorSteps ==
  ASSUME Honest, From # Live, Inv, ResumeInv, [Next]_vars
  PROVE  Delivery!Floor' = Delivery!Floor \/ Resolve \/ SendNotification \/ Restart
<1>1. CASE QuietStep
  BY <1>1 DEF QuietStep, placed, Delivery!Floor, LastDelivered
<1>2. CASE Opened
  <2>1. WireFrom # Live
    <3>1. initialFrom = From
      BY <1>2 DEF Opened, Connecting, Inv, PlaceInv, StartOwed, Running
    <3> QED
      BY <3>1 DEF WireFrom, None, Live
  <2> QED
    BY <1>2, <2>1 DEF Opened, steady, cursors, Delivery!Floor, LastDelivered
<1>3. CASE PutSucceeds \/ PutFails
  BY <1>3 DEF PutSucceeds, PutFails, ToStore, ResumeInv, cursors, history, Delivery!Floor, LastDelivered
<1>4. CASE TriggersStart \/ TriggersSucceed \/ FlushPending \/ Publish
  BY <1>4
     DEF TriggersStart, TriggersSucceed, FlushPending, Publish, supervisor, steady, cursors, history,
         Delivery!Floor, LastDelivered
<1>5. ASSUME NEW s \in Seqs, Notification(s) PROVE Delivery!Floor' = Delivery!Floor
  BY <1>5
     DEF Notification, Receive, RefuseJump, Accept, CommittedOnAccept, steady, cursors, history,
         Delivery!Floor, LastDelivered
<1> QED
  BY <1>1, <1>2, <1>3, <1>4, <1>5, HonestStepCases DEF Inv, Moves

(* The start and the end of a replay stay what the first confirmation made *)
(* them, until the process ends.                                           *)
LEMMA StoryKept ==
  ASSUME ConfirmInv, [Next]_vars
  PROVE  \/ Restart
         \/ /\ since # None => since' = since
            /\ target # None => target' = target
            /\ resolvedEnd # None => resolvedEnd' = resolvedEnd
            /\ UNCHANGED <<since, target, resolvedEnd>> \/ OpeningConfirmed
<1>1. CASE \/ SendNotification \/ SendError \/ ReportExpiry \/ Opened
           \/ \E s \in Seqs : Notification(s) \/ Anomaly(s)
  BY <1>1
     DEF SendNotification, SendError, ReportExpiry, Opened, Notification, Anomaly, Receive, RefuseJump,
         Accept, steady, cursors, history
<1>2. CASE OpeningConfirmed
  BY <1>2 DEF OpeningConfirmed
<1> QED
  BY <1>1, <1>2, KeptSteps DEF KeptMoves, kept

LEMMA CompleteKept ==
  ASSUME TypeInv, ConfirmInv, Complete, [Next]_vars
  PROVE  Complete' \/ Restart
<1>1. CASE SendNotification
  <2>1. Delivered \subseteq Delivered'
    <3>1. item \in Seqs
      BY <1>1 DEF SendNotification, TypeInv, ItemHeld, Holding
    <3> QED
      BY <1>1, <3>1, DeliveredAfter DEF SendNotification, Items
  <2> QED
    BY <1>1, <2>1 DEF SendNotification, Complete
<1>2. CASE Delivered' = Delivered
  BY <1>2, StoryKept DEF Complete, ConfirmInv
<1> QED
  BY <1>1, <1>2, DeliveredSteps

(* Nothing between the start of the replay and its place is missing.       *)
LEMMA PlaceCovered ==
  ASSUME Honest, From # Live, ReplayInv, [Next]_vars, since' # None
  PROVE  \A s \in Matching : since' < s /\ s <= Delivery!Floor' => s \in Delivered'
<1> USE DEF ReplayInv
<1>1. CASE SendNotification
  <2>1. /\ since' = since /\ since # None
        /\ Delivered' = Delivered \cup {item}
        /\ LastDelivered' = item /\ Delivery!IsNext(item) /\ item \in Seqs
    BY <1>1, SendFacts, DeliveredAfter DEF SendNotification, Inv, Items
  <2>2. Delivery!Floor' = item
    BY <2>1 DEF Delivery!Floor, Delivery!None, Seqs
  <2>3. SUFFICES ASSUME NEW s \in Matching, since < s, s <= item PROVE s \in Delivered \cup {item}
    BY <2>1, <2>2
  <2>4. CASE s <= Delivery!Floor
    BY <2>1, <2>3, <2>4 DEF RangeInv
  <2>5. CASE ~(s <= Delivery!Floor)
    <3>1. Delivery!Floor \in Int /\ s \in Int /\ item \in Int
      BY <2>1, ConfigAssumption
         DEF Inv, TypeInv, TypeOK, Delivery!Floor, LastDelivered, OptSeqs, Seqs, None
    <3>2. item <= s
      BY <2>5, <3>1, <2>1 DEF Delivery!IsNext
    <3> QED
      BY <2>3, <3>1, <3>2
  <2> QED
    BY <2>4, <2>5
<1>2. CASE Resolve
  BY <1>2 DEF Resolve, Begin, history, ConfirmInv
<1>3. CASE Restart
  BY <1>3 DEF Restart
<1>4. CASE Delivery!Floor' = Delivery!Floor /\ Delivered' = Delivered
  <2>1. CASE since # None
    <3>1. since' = since
      BY <1>3, <2>1, StoryKept DEF Restart
    <3> QED
      BY <1>4, <2>1, <3>1 DEF RangeInv
  <2>2. CASE since = None
    <3>1. OpeningConfirmed
      BY <1>3, <2>2, StoryKept DEF Restart
    <3>2. since' = pos /\ pos = Delivery!Floor
      BY <2>2, <3>1 DEF OpeningConfirmed, Inv, PlaceInv, ConnectionInPlace, Connected
    <3>3. pos \in Int /\ \A s \in Matching : s \in Int
      BY ConfigAssumption DEF Inv, TypeInv, TypeOK, Seqs
    <3> QED
      BY <1>4, <3>2, <3>3
  <2> QED
    BY <2>1, <2>2
<1> QED
  BY <1>1, <1>2, <1>3, <1>4, FloorSteps, DeliveredSteps DEF Inv

(* Nothing beyond the end of a connection reaches the task's hands.        *)
LEMMA HeldInRange ==
  ASSUME Honest, Inv, RangeInv, [Next]_vars, pc' \in Holding
  PROVE  item' <= limit'
<1>1. ASSUME NEW s \in Seqs, Notification(s) PROVE item' <= limit'
  BY <1>1 DEF Notification, ServerNext, Receive, RefuseJump, Accept, Holding
<1>2. CASE QuietStep
  <2>1. pc \in Holding /\ item' = item
    BY <1>2 DEF QuietStep, placed
  <2>2. limit' = limit \/ KeptMoves
    BY KeptSteps DEF kept
  <2>3. CASE limit' = limit
    BY <2>1, <2>3 DEF RangeInv
  <2>4. CASE KeptMoves
    <3>1. ~Opened /\ ~OpeningConfirmed /\ ~Restart
      BY <2>1 DEF Opened, Connecting, OpeningConfirmed, Restart, Holding
    <3>2. ASSUME NEW s \in Seqs, Notification(s) \/ Anomaly(s) PROVE FALSE
      BY <2>1, <3>2 DEF Notification, Anomaly, FrameArrives, Holding
    <3>3. SendNotification \/ SendError \/ ReportExpiry
      BY <2>4, <3>1, <3>2 DEF KeptMoves
    <3>4. limit' = limit
      BY <3>3 DEF SendNotification, SendError, ReportExpiry, link
    <3> QED
      BY <2>1, <3>4 DEF RangeInv
  <2> QED
    BY <2>2, <2>3, <2>4
<1>3. CASE PutSucceeds \/ TriggersStart \/ TriggersSucceed
  <2>1. pc \in Holding /\ UNCHANGED <<item, limit>>
    BY <1>3 DEF PutSucceeds, TriggersStart, TriggersSucceed, link, Holding
  <2> QED
    BY <2>1 DEF RangeInv
<1>4. CASE Publish
  BY <1>4 DEF Publish, supervisor, link, RangeInv
<1>5. CASE Resolve \/ Opened \/ PutFails \/ SendNotification \/ FlushPending \/ Restart
  BY <1>5 DEF Resolve, Begin, Opened, PutFails, SendNotification, FlushPending, Restart, Holding
<1> QED
  BY <1>1, <1>2, <1>3, <1>4, <1>5, HonestStepCases DEF Inv, Moves

(* ... and so nothing beyond the end of the replay is delivered.           *)
LEMMA EndKept ==
  ASSUME ReplayInv, [Next]_vars, resolvedEnd' # None
  PROVE  \A s \in Delivered' : s <= resolvedEnd'
<1> USE DEF ReplayInv
<1>1. CASE SendNotification
  <2>1. /\ resolvedEnd' = resolvedEnd /\ pc \in Holding /\ item \in Seqs
        /\ Delivered' = Delivered \cup {item}
    BY <1>1, DeliveredAfter DEF SendNotification, Inv, TypeInv, ItemHeld, Holding, Items
  <2>2. Mode = "replay_only"
    BY <2>1, RequestAssumption DEF SessionInv
  <2>3. item <= limit /\ limit <= resolvedEnd
    BY <2>1, <2>2 DEF RangeInv, ConfirmInv
  <2>4. {item, limit, resolvedEnd} \subseteq Int
    BY ConfigAssumption DEF Inv, TypeInv, TypeOK, OptSeqs, Seqs, None
  <2>5. item <= resolvedEnd
    BY <2>3, <2>4
  <2> QED
    BY <2>1, <2>5 DEF RangeInv
<1>2. CASE Restart
  BY <1>2 DEF Restart
<1>3. CASE Delivered' = Delivered /\ resolvedEnd # None
  BY <1>2, <1>3, StoryKept DEF RangeInv
<1>4. CASE Delivered' = Delivered /\ resolvedEnd = None
  <2>1. CASE OpeningConfirmed
    <3>1. Until # NoEnd /\ Mode = "replay_only"
      BY <1>4, <2>1, RequestAssumption DEF OpeningConfirmed
    <3>2. since = None
      BY <1>4, <3>1 DEF ConfirmInv
    <3>3. \A i \in 1 .. Len(out) : out[i] = ErrItem
      BY <3>2 DEF ConfirmInv, NothingYet
    <3> QED
      BY <1>4, <3>3 DEF Delivered
  <2> QED
    BY <1>2, <1>4, <2>1, StoryKept
<1> QED
  BY <1>1, <1>2, <1>3, <1>4, DeliveredSteps DEF Inv

(* A completion frame comes when the connection has carried its backlog,   *)
(* which reaches as far as the replay.                                     *)
LEMMA CompletedIsComplete ==
  ASSUME ReplayInv, ReplayCompleted, st'.phase = "replayed"
  PROVE  Complete
<1> USE DEF ReplayInv
<1>1. CASE st.phase = "replayed"
  BY <1>1 DEF RangeInv
<1>2. CASE st.phase # "replayed"
  <2>1. pc \in {"read", "frame"} /\ BacklogServed /\ Feed("replay_completed")
    BY DEF ReplayCompleted, FrameArrives
  <2>2. Mode = "replay_only"
    <3>1. st.phase # "closed" /\ st.mode = Mode
      BY <2>1 DEF SessionInv, AtWork, Connected
    <3>2. st'.phase = PhaseAfterReplay(st)
      BY <2>1, <3>1, FeedFields DEF Inv, PhaseAfter
    <3>3. st.mode # "watch"
      BY <1>2, <3>2 DEF PhaseAfterReplay
    <3> QED
      BY <3>1, <3>3, ConfigAssumption DEF Modes
  <2>3. since # None
    BY <2>1 DEF NothingYet, Data, ConfirmInv
  <2>4. target # None /\ target <= limit /\ limit <= head /\ pos = Delivery!Floor
    BY <2>1, <2>2, <2>3 DEF ConfirmInv, Connected, Inv, PlaceInv, ConnectionInPlace
  <2>5. ASSUME NEW s \in Matching, since < s, s <= target PROVE s \in Delivered
    <3>1. {pos, head, limit, target, s} \subseteq Int
      BY ConfigAssumption DEF Inv, TypeInv, TypeOK, OptSeqs, Seqs, None
    <3>2. ~(pos < s)
      BY <2>1, <2>4, <2>5, <3>1 DEF BacklogServed
    <3> QED
      BY <2>3, <2>4, <2>5, <3>1, <3>2 DEF RangeInv
  <2> QED
    BY <2>4, <2>5 DEF Complete
<1> QED
  BY <1>1, <1>2

(* A replay that leaves the loop because its end is reached is complete:   *)
(* before the first confirmation the end lies after the start.             *)
LEMMA LoopEndsComplete ==
  ASSUME From # Live, ReplayInv, LoopEnds
  PROVE  Complete
<1> USE DEF ReplayInv
<1>1. pc = "loop"
  BY DEF LoopEnds
<1>2. CASE IsTerminal(st)
  BY <1>1, <1>2 DEF IsTerminal, RangeInv
<1>3. CASE EndReached
  <2>1. WireUntil >= 0 /\ LastDelivered # None /\ LastDelivered >= WireUntil
    BY <1>3 DEF EndReached
  <2>2. {LastDelivered, target, resolvedEnd, Until, From, since} \subseteq Int
    BY ConfigAssumption
       DEF LastDelivered, Inv, TypeInv, TypeOK, OptSeqs, Starts, Seqs, None, Live, FromDate, NoEnd,
           UntilDate
  <2>3. Until # NoEnd /\ Mode = "replay_only"
    BY <2>1, RequestAssumption DEF WireUntil, SessionInv, NoEnd
  <2>4. CASE since = None
    <3>1. resolvedEnd = None /\ WireUntil = Until
      BY <2>4 DEF ConfirmInv, WireUntil
    <3>2. pending = None /\ Delivered = {}
      BY <2>4 DEF ConfirmInv, NothingYet, Delivered
    <3>3. LastDelivered = initialFrom
      BY <2>1, <3>2 DEF LastDelivered, ResumeInv
    <3>4. initialFrom = From
      BY <1>1 DEF Inv, PlaceInv, StartOwed, Running
    <3>5. From >= 0 /\ Until >= 0 /\ From >= Until
      BY <2>1, <2>2, <3>1, <3>3, <3>4
    <3> QED
      BY <2>2, <3>5, RequestAssumption
  <2>5. CASE since # None
    <3>1. resolvedEnd = target /\ target # None /\ WireUntil = target
      BY <2>3, <2>5 DEF ConfirmInv, WireUntil
    <3>2. Delivery!Floor = LastDelivered
      BY <2>1 DEF Delivery!Floor, Delivery!None, None
    <3>3. \A s \in Matching : s \in Int
      BY ConfigAssumption DEF Seqs
    <3>4. ASSUME NEW s \in Matching, since < s, s <= target PROVE s \in Delivered
      <4>1. s <= Delivery!Floor
        BY <2>1, <2>2, <3>1, <3>2, <3>3, <3>4
      <4> QED
        BY <2>5, <3>4, <4>1 DEF RangeInv
    <3> QED
      BY <3>1, <3>4 DEF Complete
  <2> QED
    BY <2>4, <2>5
<1> QED
  BY <1>2, <1>3 DEF LoopEnds

LEMMA RangeStep ==
  ASSUME Honest, From # Live, ReplayInv, [Next]_vars
  PROVE  RangeInv'
<1>1. since' # None => \A s \in Matching : since' < s /\ s <= Delivery!Floor' => s \in Delivered'
  BY PlaceCovered
<1>2. pc' \in Holding => item' <= limit'
  BY HeldInRange DEF ReplayInv
<1>3. resolvedEnd' # None => \A s \in Delivered' : s <= resolvedEnd'
  BY EndKept
<1>4. ASSUME st'.phase = "replayed" \/ (pc' = "loop" /\ st'.phase = "closed") PROVE Complete'
  <2>1. ~Restart
    BY <1>4, StartFields DEF Restart
  <2>2. Complete
    <3>1. CASE PhaseMoves
      BY <1>4, <3>1 DEF PhaseMoves, ReplayInv, RangeInv
    <3>2. CASE ReplayCompleted
      <4>1. st'.phase = "replayed"
        BY <1>4, <3>2 DEF ReplayCompleted
      <4> QED
        BY <3>2, <4>1, CompletedIsComplete
    <3> QED
      BY <3>1, <3>2, PhaseSteps DEF ReplayInv, Inv
  <2> QED
    BY <2>1, <2>2, CompleteKept DEF ReplayInv, Inv
<1>5. ASSUME Mode = "replay_only", Clean' PROVE Complete'
  <2>1. ~Restart
    BY <1>5 DEF Restart, Clean, Ended
  <2>2. Complete
    BY <1>5, CleanSteps, LoopEndsComplete DEF ReplayInv, Inv, RangeInv
  <2> QED
    BY <2>1, <2>2, CompleteKept DEF ReplayInv, Inv
<1> QED
  BY <1>1, <1>2, <1>3, <1>4, <1>5 DEF RangeInv

LEMMA ReplayInvariant ==
  ASSUME Honest, From # Live
  PROVE  Spec => []ReplayInv
<1>1. Init => ReplayInv
  <2> SUFFICES ASSUME Init PROVE ReplayInv
    OBVIOUS
  <2>1. /\ pc = "resolve" /\ out = <<>> /\ since = None /\ target = None /\ resolvedEnd = None
        /\ ready = FALSE /\ pending = None /\ commitCursor = None /\ initialFrom = Live
        /\ st.phase \in {"live", "replaying"} /\ st.mode = Mode /\ refreshes = 0
    BY StartFields DEF Init
  <2>2. Delivered = {}
    BY <2>1 DEF Delivered
  <2>3. NothingYet /\ ResumeInv /\ SessionInv
    BY <2>1, <2>2
       DEF NothingYet, ResumeInv, PendingNotBelowCommitted, SessionInv, AtWork, Connected, Holding,
           Ended, Data, Live, None
  <2>4. EndAhead /\ ConfirmInv
    BY <2>1 DEF EndAhead, Retrying, ConfirmInv, Connected, Holding
  <2>5. RangeInv
    BY <2>1, <2>2 DEF RangeInv, Holding, Clean, Ended
  <2> QED
    BY <2>3, <2>4, <2>5, InitType, InitPlace DEF ReplayInv, Inv
<1>2. ReplayInv /\ [Next]_vars => ReplayInv'
  <2> SUFFICES ASSUME ReplayInv, [Next]_vars PROVE ReplayInv'
    OBVIOUS
  <2>1. Inv' /\ RangeInv'
    BY PlaceStep, RangeStep DEF ReplayInv
  <2> QED
    BY <2>1, NothingYetStep, ResumeStep, SessionStep, EndAheadStep, ConfirmStep DEF ReplayInv, Inv
<1> QED
  BY <1>1, <1>2, PTL DEF Spec

(* A reconnect keeps the place: all that the connection has passed since   *)
(* the first confirmed position has been delivered.  A live watch without  *)
(* a start keeps no place before its first notification: it begins again   *)
(* at the head (reconnect.rs, initial_cursor.rs).                          *)
THEOREM PlaceIsKept ==
  ASSUME Honest, From # Live
  PROVE  Spec => []KeepsItsPlace
<1>1. ReplayInv => KeepsItsPlace
  BY DEF ReplayInv, RangeInv, Inv, PlaceInv, ConnectionInPlace, Connected, KeepsItsPlace
<1> QED
  BY <1>1, ReplayInvariant, PTL

(* A replay, over any number of connections, asks for nothing past its     *)
(* end, delivers nothing past it, and does not end by itself without an    *)
(* error before it has delivered all of its first announced backlog        *)
(* (replay_end.rs, connection.rs, mode.rs).                                *)
THEOREM ReplayStaysInRange ==
  ASSUME Honest, From # Live
  PROVE  Spec => []ReplayKeepsToItsRange
<1>1. ReplayInv => NeverAsksPastEnd
  <2> SUFFICES ASSUME ReplayInv, pc = "connect", WireFrom >= 0, WireUntil >= 0
               PROVE  WireFrom < WireUntil
    BY DEF NeverAsksPastEnd
  <2>1. LastDelivered # None
    BY DEF WireFrom, LastDelivered, ReplayInv, ResumeInv, PendingNotBelowCommitted
  <2>2. WireFrom = LastDelivered /\ ~EndReached
    BY <2>1 DEF WireFrom, ReplayInv, EndAhead, Retrying
  <2>3. LastDelivered \in Int /\ WireUntil \in Int
    BY ConfigAssumption
       DEF ReplayInv, Inv, TypeInv, TypeOK, LastDelivered, WireUntil, OptSeqs, Seqs, None, NoEnd,
           UntilDate
  <2> QED
    BY <2>1, <2>2, <2>3 DEF EndReached
<1>2. ReplayInv => EndRespected
  BY <1>1 DEF EndRespected, ReplayInv, RangeInv
<1>3. ReplayInv => CleanReplayEndIsComplete
  BY DEF CleanReplayEndIsComplete, ReplayInv, RangeInv, Clean, HasFailed, Ended, Complete
<1>4. ReplayInv => ReplayKeepsToItsRange
  BY <1>2, <1>3 DEF ReplayKeepsToItsRange
<1> QED
  BY <1>4, ReplayInvariant, PTL
=============================================================================
