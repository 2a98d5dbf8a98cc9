---------------------------- MODULE JsonFileStore ----------------------------
(***************************************************************************)
(* The file-backed state store (state/file): handles opened on one file,   *)
(* by one process or by several, each with a snapshot in memory, and their *)
(* `put` and `delete` calls.  A call runs write_through:                   *)
(*                                                                         *)
(*   waiting   for disk_write_mutex, the mutex of the handle               *)
(*   computed  the candidate is built and the blocking task spawned; it    *)
(*             waits for the flock                                         *)
(*   loaded    it holds the flock, has read the file and merged            *)
(*   written   it has written the file and released the flock; the caller  *)
(*             is about to install the result in memory                    *)
(*                                                                         *)
(* A caller that drops the future of a call gives up the mutex, while its  *)
(* blocking task goes on (attached = FALSE).                               *)
(***************************************************************************)
EXTENDS Integers, FiniteSets

CONSTANTS
  Handles,     \* results of JsonFileStore::open on the same path
  Slots,       \* per handle: the calls it may have under way at a time
  Keys,        \* resume keys
  MaxSeq,      \* largest sequence
  Ops,         \* the methods in use: put, delete
  Removable,   \* whether the file may be removed from outside
  MaxCalls,    \* bound on the number of calls
  Nobody

None == -1  \* no checkpoint

Tasks       == UNION {{h} \X Slots[h] : h \in Handles}
Handle(t)   == t[1]
Maps        == [Keys -> 0 .. MaxSeq \cup {None}]
Empty       == [k \in Keys |-> None]

ASSUME StoreAssumption ==
  /\ MaxSeq \in Nat
  /\ MaxCalls \in Nat
  /\ Ops \subseteq {"put", "delete"}
  /\ Removable \in BOOLEAN
  /\ Nobody \notin Tasks

VARIABLES
  disk,      \* the checkpoints in the file; Empty when it is absent
  memory,    \* per handle: JsonFileStore::inner
  mutex,     \* per handle: the task holding disk_write_mutex
  flock,     \* the task holding the lock on <path>.lock
  call,      \* per task: the call it is in
  calls,     \* how many calls were made (bound)
  (* History, read by the properties only. *)
  acked,     \* per key: the highest sequence whose put has returned Ok
  deleted,   \* keys a delete has removed and that were not put since
  answered,  \* per handle and key: the highest `get` had to answer since
             \* the handle was opened, or deleted the key itself
  onlyPuts   \* no delete was asked for, and nobody removed the file

vars == <<disk, memory, mutex, flock, call, calls, acked, deleted, answered, onlyPuts>>

Idle == [stage |-> "idle", op |-> "none", key |-> "none", seq |-> None, map |-> Empty,
         forgotten |-> Empty, dirty |-> FALSE, attached |-> FALSE]

-----------------------------------------------------------------------------
(* Helpers.                                                                *)

Higher(m, n) == IF m > n THEN m ELSE n

(* The key keeps the sequence of `pre` when the mutation left a lower one, *)
(* unless it removed it.  Mutation: the candidate is taken as it is.       *)
NotRestored(pre, map) == map
Restored(pre, map) ==
  [k \in Keys |-> IF map[k] # None /\ map[k] <= pre[k] THEN pre[k] ELSE map[k]]

(* What the call wants the file to hold.                                   *)
Candidate(c, pre) ==
  Restored(pre, [pre EXCEPT ![c.key] = IF c.op = "put" THEN c.seq ELSE None])

(* The intentional deletes, with the sequence the handle had observed.     *)
Forgotten(c, pre) ==
  [k \in Keys |-> IF Candidate(c, pre)[k] = None THEN pre[k] ELSE None]

(* merge_monotonic.  Mutations: the candidate wins; a delete wins over a   *)
(* newer checkpoint; keys of which the handle knows nothing are lost.      *)
CandidateWins(c, file) ==
  [k \in Keys |-> IF c.map[k] = None /\ c.forgotten[k] = None THEN file[k] ELSE c.map[k]]
DeleteWins(c, file) ==
  [k \in Keys |-> IF c.forgotten[k] # None THEN None ELSE Higher(c.map[k], file[k])]
Merged(c, file) ==
  [k \in Keys |->
     IF c.forgotten[k] # None /\ file[k] <= c.forgotten[k] THEN None
     ELSE Higher(c.map[k], file[k])]

(* The call of `t` ends.  A dropped future has released the mutex already. *)
(* Mutation: an error return keeps it.                                     *)
MutexKept(t) == mutex
MutexAfter(t) ==
  IF call[t].attached THEN [mutex EXCEPT ![Handle(t)] = Nobody] ELSE mutex

(* What a handle has told of its keys once the call has been installed.    *)
Told(c, before) ==
  [k \in Keys |-> IF c.op = "delete" /\ c.key = k THEN c.map[k] ELSE Higher(before[k], c.map[k])]

(* Mutation: the lock is not waited for.                                   *)
FlockIgnored == TRUE
FlockFree    == flock = Nobody

-----------------------------------------------------------------------------
(* put and delete.                                                         *)

Begin(t, op, k, n) ==
  /\ call[t] = Idle /\ calls < MaxCalls
  /\ op = "delete" => n = None
  /\ op = "put" => n # None
  /\ calls' = calls + 1
  /\ call' = [call EXCEPT ![t] =
       [Idle EXCEPT !.stage = "waiting", !.op = op, !.key = k, !.seq = n, !.attached = TRUE]]
  /\ deleted' = IF op = "put" THEN deleted \ {k} ELSE deleted
  /\ onlyPuts' = (onlyPuts /\ op = "put")
  /\ UNCHANGED <<disk, memory, mutex, flock, acked, answered>>

(* disk_write_mutex is free: the candidate comes from the snapshot.        *)
Compute(t) ==
  /\ call[t].stage = "waiting" /\ mutex[Handle(t)] = Nobody
  /\ mutex' = [mutex EXCEPT ![Handle(t)] = t]
  /\ LET pre == memory[Handle(t)]
     IN  call' = [call EXCEPT ![t] =
           [@ EXCEPT !.stage = "computed", !.map = Candidate(call[t], pre),
                     !.forgotten = Forgotten(call[t], pre)]]
  /\ UNCHANGED <<disk, memory, flock, calls, acked, deleted, answered, onlyPuts>>

(* The blocking task takes the flock, reads the file and merges.           *)
LoadAndMerge(t) ==
  /\ call[t].stage = "computed" /\ FlockFree
  /\ flock' = t
  /\ LET merged == Merged(call[t], disk)
     IN  call' = [call EXCEPT ![t] =
           [@ EXCEPT !.stage = "loaded", !.map = merged, !.dirty = merged # disk]]
  /\ UNCHANGED <<disk, memory, mutex, calls, acked, deleted, answered, onlyPuts>>

(* The lock file cannot be opened or locked, or the state file not read.   *)
LoadFails(t) ==
  /\ call[t].stage = "computed"
  /\ call' = [call EXCEPT ![t] = Idle]
  /\ mutex' = MutexAfter(t)
  /\ UNCHANGED <<disk, memory, flock, calls, acked, deleted, answered, onlyPuts>>

(* Keys a delete finds gone when it has written, unless a put of the same  *)
(* key is under way.                                                       *)
BeingPut == {call[u].key : u \in {u \in Tasks : call[u].op = "put"}}
Removed(t) ==
  IF call[t].op = "delete" /\ call[t].map[call[t].key] = None
  THEN {call[t].key} \ BeingPut ELSE {}

(* The atomic write; nothing is written when nothing would change.         *)
Write(t) ==
  /\ call[t].stage = "loaded"
  /\ disk' = IF call[t].dirty THEN call[t].map ELSE disk
  /\ flock' = Nobody
  /\ call' = [call EXCEPT ![t] = IF @.attached THEN [@ EXCEPT !.stage = "written"] ELSE Idle]
  /\ deleted' = deleted \cup Removed(t)
  /\ UNCHANGED <<memory, mutex, calls, acked, answered, onlyPuts>>

(* The write fails before the rename, or after it: the directory is synced *)
(* last (atomic_write.rs).                                                 *)
WriteFails(t) ==
  /\ call[t].stage = "loaded" /\ call[t].dirty
  /\ disk' \in {disk, call[t].map}
  /\ flock' = Nobody
  /\ call' = [call EXCEPT ![t] = Idle]
  /\ mutex' = MutexAfter(t)
  /\ UNCHANGED <<memory, calls, acked, deleted, answered, onlyPuts>>

(* The merged map becomes the snapshot and the call returns Ok.            *)
Install(t) ==
  /\ call[t].stage = "written"
  /\ memory' = [memory EXCEPT ![Handle(t)] = call[t].map]
  /\ call' = [call EXCEPT ![t] = Idle]
  /\ mutex' = MutexAfter(t)
  /\ acked' = IF call[t].op = "put"
              THEN [acked EXCEPT ![call[t].key] = Higher(@, call[t].seq)] ELSE acked
  /\ answered' = [answered EXCEPT ![Handle(t)] = Told(call[t], @)]
  /\ UNCHANGED <<disk, flock, calls, deleted, onlyPuts>>

(* The caller drops the future: before the blocking task exists nothing is *)
(* left of the call, after it has ended nothing is installed, and between  *)
(* the two it goes on by itself.                                           *)
DropFuture(t) ==
  /\ call[t].attached
  /\ call' = [call EXCEPT ![t] = IF @.stage \in {"computed", "loaded"}
                                 THEN [@ EXCEPT !.attached = FALSE] ELSE Idle]
  /\ mutex' = IF mutex[Handle(t)] = t THEN [mutex EXCEPT ![Handle(t)] = Nobody] ELSE mutex
  /\ UNCHANGED <<disk, memory, flock, calls, acked, deleted, answered, onlyPuts>>

(* The process of a handle ends at any step and another opens the file.    *)
Crash(h) ==
  /\ call' = [t \in Tasks |-> IF Handle(t) = h THEN Idle ELSE call[t]]
  /\ mutex' = [mutex EXCEPT ![h] = Nobody]
  /\ flock' = IF flock # Nobody /\ Handle(flock) = h THEN Nobody ELSE flock
  /\ memory' = [memory EXCEPT ![h] = disk]
  /\ answered' = [answered EXCEPT ![h] = disk]
  /\ UNCHANGED <<disk, calls, acked, deleted, onlyPuts>>

(* A handle is replaced by a new one while a task it spawned still runs.   *)
Reopen(h) ==
  /\ \A t \in Tasks : Handle(t) = h => ~call[t].attached
  /\ memory' = [memory EXCEPT ![h] = disk]
  /\ answered' = [answered EXCEPT ![h] = disk]
  /\ UNCHANGED <<disk, mutex, flock, call, calls, acked, deleted, onlyPuts>>

(* Someone removes the state file.                                         *)
RemoveFile ==
  /\ Removable
  /\ disk' = Empty /\ onlyPuts' = FALSE
  /\ UNCHANGED <<memory, mutex, flock, call, calls, acked, deleted, answered>>

Init ==
  /\ disk = Empty
  /\ memory = [h \in Handles |-> Empty]
  /\ mutex = [h \in Handles |-> Nobody]
  /\ flock = Nobody
  /\ call = [t \in Tasks |-> Idle]
  /\ calls = 0
  /\ acked = Empty
  /\ deleted = {}
  /\ answered = memory
  /\ onlyPuts = TRUE

Proceed(t) ==
  Compute(t) \/ LoadAndMerge(t) \/ Write(t) \/ Install(t)

Next ==
  \/ \E t \in Tasks :
       \/ \E op \in Ops, k \in Keys, n \in 0 .. MaxSeq \cup {None} : Begin(t, op, k, n)
       \/ Proceed(t) \/ LoadFails(t) \/ WriteFails(t) \/ DropFuture(t)
  \/ \E h \in Handles : Crash(h) \/ Reopen(h)
  \/ RemoveFile

Spec == Init /\ [][Next]_vars

-----------------------------------------------------------------------------
(* Properties.                                                             *)

Call == [stage : {"idle", "waiting", "computed", "loaded", "written"},
         op : Ops \cup {"none"}, key : Keys \cup {"none"}, seq : 0 .. MaxSeq \cup {None},
         map : Maps, forgotten : Maps, dirty : BOOLEAN, attached : BOOLEAN]

(* Types, and who holds which lock: the mutex its handle's caller, from    *)
(* the candidate to the install, and the flock the one task between its    *)
(* read and its write of the file (write_through).                         *)
TypeOK ==
  /\ disk \in Maps /\ acked \in Maps
  /\ memory \in [Handles -> Maps] /\ answered \in [Handles -> Maps]
  /\ mutex \in [Handles -> Tasks \cup {Nobody}]
  /\ flock \in Tasks \cup {Nobody}
  /\ call \in [Tasks -> Call]
  /\ calls \in 0 .. MaxCalls
  /\ deleted \subseteq Keys /\ onlyPuts \in BOOLEAN
  /\ \A t \in Tasks :
       /\ mutex[Handle(t)] = t <=>
            call[t].attached /\ call[t].stage \in {"computed", "loaded", "written"}
       /\ flock = t <=> call[t].stage = "loaded"

Store == INSTANCE MonotoneStore WITH stored <- disk

(* Until a delete is asked for the file is a monotone store: a write raises*)
(* the key it was asked to and touches no other, over concurrent calls,    *)
(* handles and processes with stale snapshots, failed writes, dropped      *)
(* futures and crashes (file/mod.rs "no checkpoint goes backwards under    *)
(* concurrent writers").                                                   *)
ImplementsStore == Store!Spec

(* A put that has returned is in the file ("no commit is silently lost").  *)
AckedIsDurable == \A k \in Keys : acked[k] <= disk[k]

(* A handle never answers `get` with a checkpoint that a crash would lose. *)
MemoryNotAheadOfDisk ==
  \A h \in Handles, k \in Keys : memory[h][k] <= disk[k]

(* Both, until a delete is asked for: no crash takes back what a caller    *)
(* has been told.                                                          *)
PutsKept    == AckedIsDurable /\ MemoryNotAheadOfDisk
PutsAreKept == onlyPuts => PutsKept

(* `get` on one handle never goes back, not even when a lower sequence is  *)
(* put after the file was removed, or a sibling deleted the key: only a    *)
(* delete of the handle's own, or opening the file anew, lowers what it    *)
(* answers (the restore loop of write_through).                            *)
MemoryNeverRegresses ==
  \A h \in Handles, k \in Keys : answered[h][k] <= memory[h][k]

(* A checkpoint leaves the file only by a delete of its key whose caller   *)
(* had seen it at least as high, or with the whole file (merge rule 3).    *)
DeleteDropsOnlySeen ==
  [][\A k \in Keys :
       disk'[k] < disk[k] =>
         \/ disk' = Empty /\ call' = call
         \/ \E t \in Tasks : /\ call[t].stage = "loaded" /\ call[t].op = "delete"
                             /\ call[t].key = k /\ disk[k] <= call[t].forgotten[k]]_vars

(* "Intentional deletes are honoured unless the on-disk sequence has       *)
(* advanced past the value the handle observed at delete time" (file/mod.rs*)
(* module documentation): a deleted key stays away until someone puts it.  *)
DeleteHonoured == \A k \in deleted : disk[k] = None

-----------------------------------------------------------------------------
(* Every call makes progress whenever it can: the runtime polls it, the    *)
(* blocking thread pool runs it, and a lock that stays free is taken.      *)
FairSpec == Spec /\ \A t \in Tasks : WF_vars(Proceed(t))

(* Every call ends, so no error, dropped future or crash leaves a lock     *)
(* behind that others wait for.  The number of calls is bounded: none is   *)
(* overtaken at the flock for ever, and all have ended when the last one   *)
(* has.                                                                    *)
EveryCallReturns == []<>(\A t \in Tasks : call[t] = Idle)
=============================================================================
