------------------------ MODULE JsonFileStoreProofs ------------------------
(***************************************************************************)
(* Proofs about JsonFileStore, for any number of handles, calls, keys and  *)
(* sequences, over crashes, failed writes and dropped futures.             *)
(***************************************************************************)
EXTENDS JsonFileStore, TLAPS

(* TypeOK with what its lock ownership needs: only a call whose caller     *)
(* waits can wait for the mutex or install its result, and an idle task    *)
(* has no call.                                                            *)
StagesFit ==
  \A t \in Tasks :
    /\ call[t].stage \in {"waiting", "written"} => call[t].attached
    /\ call[t].stage = "idle" => call[t] = Idle
    /\ call[t].stage # "idle" =>
         /\ call[t].key \in Keys /\ call[t].op \in Ops
         /\ call[t].op = "put" => call[t].seq # None

TypeInv == TypeOK /\ StagesFit

-----------------------------------------------------------------------------
(* The operators on maps.                                                  *)

LEMMA IdleType == Idle \in Call
BY StoreAssumption DEF Idle, Call, Maps, Empty, None

(* The records the stages of a call leave.                                 *)
Computed(c, map, forgotten) == [c EXCEPT !.stage = "computed", !.map = map, !.forgotten = forgotten]
Loaded(c, map, file)        == [c EXCEPT !.stage = "loaded", !.map = map, !.dirty = map # file]
Written(c)                  == [c EXCEPT !.stage = "written"]
Dropped(c)                  == [c EXCEPT !.attached = FALSE]

(* What a stage keeps of the call.                                         *)
SameCall(c, d) == /\ d.op = c.op /\ d.key = c.key /\ d.seq = c.seq

LEMMA IdleFields == Idle.stage = "idle" /\ ~Idle.attached /\ Idle.op = "none"
BY DEF Idle

LEMMA ComputedCall ==
  ASSUME NEW c \in Call, NEW map \in Maps, NEW forgotten \in Maps
  PROVE  LET d == Computed(c, map, forgotten) IN
         /\ d \in Call /\ SameCall(c, d) /\ (d.attached <=> c.attached)
         /\ d.stage = "computed" /\ d.map = map /\ d.forgotten = forgotten
BY DEF Call, Computed, SameCall

LEMMA LoadedCall ==
  ASSUME NEW c \in Call, NEW map \in Maps, NEW file \in Maps
  PROVE  LET d == Loaded(c, map, file) IN
         /\ d \in Call /\ SameCall(c, d) /\ (d.attached <=> c.attached)
         /\ d.stage = "loaded" /\ d.map = map /\ d.forgotten = c.forgotten
         /\ d.dirty <=> map # file
BY DEF Call, Loaded, SameCall

LEMMA WrittenCall ==
  ASSUME NEW c \in Call
  PROVE  LET d == Written(c) IN
         /\ d \in Call /\ SameCall(c, d) /\ (d.attached <=> c.attached)
         /\ d.stage = "written" /\ d.map = c.map /\ d.forgotten = c.forgotten
BY DEF Call, Written, SameCall

LEMMA DroppedCall ==
  ASSUME NEW c \in Call
  PROVE  LET d == Dropped(c) IN
         /\ d \in Call /\ SameCall(c, d) /\ ~d.attached
         /\ d.stage = c.stage /\ d.map = c.map /\ d.forgotten = c.forgotten /\ d.dirty = c.dirty
BY DEF Call, Dropped, SameCall

(* A mutex that is taken passes from nobody to the task.                   *)
LEMMA MutexTaken ==
  ASSUME mutex \in [Handles -> Tasks \cup {Nobody}], NEW t \in Tasks,
         mutex[Handle(t)] = Nobody, mutex' = [mutex EXCEPT ![Handle(t)] = t]
  PROVE  \A u \in Tasks : mutex'[Handle(u)] = u <=> u = t \/ mutex[Handle(u)] = u
<1>1. \A u \in Tasks : Handle(u) \in Handles
  BY DEF Handle, Tasks
<1>2. Nobody \notin Tasks
  BY StoreAssumption
<1> QED
  BY <1>1, <1>2

LEMMA HigherType ==
  ASSUME NEW m \in 0 .. MaxSeq \cup {None}, NEW n \in 0 .. MaxSeq \cup {None}
  PROVE  /\ Higher(m, n) \in 0 .. MaxSeq \cup {None}
         /\ m <= Higher(m, n) /\ n <= Higher(m, n)
         /\ m <= n => Higher(m, n) = n
BY StoreAssumption DEF Higher, None

(* What a handle is to answer is what the call installs or, but for the key*)
(* it deletes, what the handle has answered before.                        *)
LEMMA ToldType ==
  ASSUME NEW c, c.map \in Maps, NEW before \in Maps
  PROVE  /\ Told(c, before) \in Maps
         /\ \A k \in Keys : \/ Told(c, before)[k] = c.map[k]
                            \/ ~(c.op = "delete" /\ c.key = k) /\ Told(c, before)[k] = before[k]
<1>1. \A k \in Keys : c.map[k] \in 0 .. MaxSeq \cup {None} /\ before[k] \in 0 .. MaxSeq \cup {None}
  BY DEF Maps
<1>2. \A k \in Keys : Higher(before[k], c.map[k]) \in {before[k], c.map[k]}
  BY DEF Higher
<1> QED
  BY <1>1, <1>2 DEF Told, Maps

(* A task calls a handle that exists.                                      *)
LEMMA TaskHandle == \A t \in Tasks : Handle(t) \in Handles
BY DEF Handle, Tasks

(* A call under way asks for a map, and so does what comes of it.          *)
Asks(c) == c \in Call /\ c.key \in Keys /\ c.op \in Ops /\ (c.op = "put" => c.seq # None)

(* The candidate leaves the other keys as the handle knows them, and never *)
(* lowers the key it puts (the restore loop of write_through).             *)
LEMMA CandidateKeeps ==
  ASSUME NEW c, Asks(c), NEW pre \in Maps
  PROVE  /\ Candidate(c, pre) \in Maps
         /\ \A k \in Keys \ {c.key} : Candidate(c, pre)[k] = pre[k]
         /\ c.op = "put" => /\ c.seq <= Candidate(c, pre)[c.key]
                            /\ pre[c.key] <= Candidate(c, pre)[c.key]
         /\ c.op = "delete" => Candidate(c, pre)[c.key] = None
<1> USE StoreAssumption DEF Asks, Call, Maps, None, Candidate, Restored
<1>1. c.key \in Keys /\ c.seq \in 0 .. MaxSeq \cup {-1} /\ c.op \in {"put", "delete"}
  OBVIOUS
<1>2. Candidate(c, pre) \in Maps
  BY <1>1
<1>3. \A k \in Keys \ {c.key} : Candidate(c, pre)[k] = pre[k]
  BY <1>1
<1>4. c.op = "put" => c.seq <= Candidate(c, pre)[c.key] /\ pre[c.key] <= Candidate(c, pre)[c.key]
  BY <1>1
<1>5. c.op = "delete" => Candidate(c, pre)[c.key] = None
  BY <1>1
<1> QED
  BY <1>2, <1>3, <1>4, <1>5

(* Only the key a call deletes counts as forgotten.                        *)
LEMMA ForgottenIsDeleted ==
  ASSUME NEW c, Asks(c), NEW pre \in Maps
  PROVE  /\ Forgotten(c, pre) \in Maps
         /\ \A k \in Keys : Forgotten(c, pre)[k] # None => c.op = "delete" /\ k = c.key
<1>1. \A k \in Keys \ {c.key} : Candidate(c, pre)[k] = pre[k]
  BY CandidateKeeps
<1>2. c.op = "put" => Candidate(c, pre)[c.key] # None
  BY CandidateKeeps, StoreAssumption DEF Asks, Call, Maps, None
<1>3. c.op \in {"put", "delete"}
  BY StoreAssumption DEF Asks
<1>4. Forgotten(c, pre) \in Maps
  BY StoreAssumption DEF Forgotten, Maps, None
<1>5. \A k \in Keys : Forgotten(c, pre)[k] # None => c.op = "delete" /\ k = c.key
  BY <1>1, <1>2, <1>3 DEF Forgotten
<1> QED
  BY <1>4, <1>5

(* merge_monotonic goes below the file only for a forgotten key the caller *)
(* had seen as high, and below the candidate never otherwise.              *)
LEMMA MergeKeeps ==
  ASSUME NEW c \in Call, NEW file \in Maps
  PROVE  /\ Merged(c, file) \in Maps
         /\ \A k \in Keys :
              \/ c.forgotten[k] # None /\ file[k] <= c.forgotten[k] /\ Merged(c, file)[k] = None
              \/ /\ file[k] <= Merged(c, file)[k] /\ c.map[k] <= Merged(c, file)[k]
                 /\ c.map[k] <= file[k] => Merged(c, file)[k] = file[k]
<1> USE DEF Call, Maps
<1>1. \A k \in Keys : /\ c.map[k] \in 0 .. MaxSeq \cup {None} /\ file[k] \in 0 .. MaxSeq \cup {None}
  OBVIOUS
<1>2. \A k \in Keys : /\ Higher(c.map[k], file[k]) \in 0 .. MaxSeq \cup {None}
                      /\ c.map[k] <= Higher(c.map[k], file[k]) /\ file[k] <= Higher(c.map[k], file[k])
                      /\ c.map[k] <= file[k] => Higher(c.map[k], file[k]) = file[k]
  BY <1>1, HigherType
<1>3. Merged(c, file) \in Maps
  BY <1>2 DEF Merged
<1> QED
  BY <1>2, <1>3 DEF Merged
-----------------------------------------------------------------------------
(* Types and locks.                                                        *)

LEMMA TypeInit == Init => TypeInv
BY StoreAssumption, IdleType
   DEF Init, TypeInv, TypeOK, StagesFit, Idle, Maps, Empty, None, Tasks, Handle

(* The stages of a call, and the two locks it holds in them.               *)
LEMMA TypeStep == TypeInv /\ [Next]_vars => TypeInv'
<1> SUFFICES ASSUME TypeInv, [Next]_vars PROVE TypeInv'
  OBVIOUS
<1> USE StoreAssumption, IdleType DEF TypeInv, TypeOK, StagesFit
<1>1. ASSUME NEW t \in Tasks, NEW op \in Ops, NEW k \in Keys, NEW n \in 0 .. MaxSeq \cup {None},
             Begin(t, op, k, n)
      PROVE  TypeInv'
  <2>1. [Idle EXCEPT !.stage = "waiting", !.op = op, !.key = k, !.seq = n, !.attached = TRUE] \in Call
    BY DEF Call, Idle, Maps, Empty, None
  <2> QED
    BY <1>1, <2>1 DEF Begin, Idle
<1>2. ASSUME NEW t \in Tasks, Compute(t) PROVE TypeInv'
  <2> DEFINE pre  == memory[Handle(t)]
             next == Computed(call[t], Candidate(call[t], pre), Forgotten(call[t], pre))
  <2>1. Handle(t) \in Handles /\ pre \in Maps
    BY DEF Handle, Tasks
  <2>2. Asks(call[t])
    BY <1>2 DEF Compute, Asks
  <2>3. Candidate(call[t], pre) \in Maps /\ Forgotten(call[t], pre) \in Maps
    BY <2>1, <2>2, CandidateKeeps, ForgottenIsDeleted
  <2>4. call' = [call EXCEPT ![t] = next]
    BY <1>2 DEF Compute, Computed
  <2>5. next \in Call /\ next.stage = "computed" /\ (next.attached <=> call[t].attached) /\ SameCall(call[t], next)
    BY <2>3, ComputedCall
  <2>6. /\ mutex' = [mutex EXCEPT ![Handle(t)] = t] /\ mutex[Handle(t)] = Nobody
        /\ call[t].stage = "waiting" /\ call[t].attached
        /\ UNCHANGED <<disk, memory, flock, calls, acked, deleted, answered, onlyPuts>>
    BY <1>2 DEF Compute
  <2> HIDE DEF next
  <2>7. StagesFit'
    BY <2>2, <2>4, <2>5, <2>6 DEF Asks, SameCall
  <2>8. \A u \in Tasks : mutex'[Handle(u)] = u <=>
          call'[u].attached /\ call'[u].stage \in {"computed", "loaded", "written"}
    <3>1. \A u \in Tasks : mutex'[Handle(u)] = u <=> u = t \/ mutex[Handle(u)] = u
      BY <2>6, MutexTaken
    <3>2. call'[t].attached /\ call'[t].stage = "computed"
      BY <2>4, <2>5, <2>6
    <3>3. \A u \in Tasks \ {t} : call'[u] = call[u]
      BY <2>4
    <3> QED
      BY <3>1, <3>2, <3>3
  <2>9. mutex' \in [Handles -> Tasks \cup {Nobody}]
    BY <2>1, <2>6
  <2> QED
    BY <2>4, <2>5, <2>6, <2>7, <2>8, <2>9
<1>3. ASSUME NEW t \in Tasks, LoadAndMerge(t) PROVE TypeInv'
  <2> DEFINE merged == Merged(call[t], disk)
             next   == Loaded(call[t], merged, disk)
  <2>1. merged \in Maps
    BY MergeKeeps
  <2>2. call' = [call EXCEPT ![t] = next]
    BY <1>3 DEF LoadAndMerge, Loaded
  <2>3. next \in Call /\ next.stage = "loaded" /\ (next.attached <=> call[t].attached) /\ SameCall(call[t], next)
    BY <2>1, LoadedCall
  <2>4. /\ flock' = t /\ flock = Nobody /\ call[t].stage = "computed"
        /\ UNCHANGED <<disk, memory, mutex, calls, acked, deleted, answered, onlyPuts>>
    BY <1>3 DEF LoadAndMerge, FlockFree
  <2> HIDE DEF next
  <2>5. StagesFit'
    BY <2>2, <2>3, <2>4 DEF SameCall
  <2> QED
    BY <2>2, <2>3, <2>4, <2>5
<1>4. ASSUME NEW t \in Tasks, LoadFails(t) PROVE TypeInv'
  BY <1>4, TaskHandle DEF LoadFails, MutexAfter, Idle
<1>5. ASSUME NEW t \in Tasks, Write(t) PROVE TypeInv'
  <2> DEFINE next == IF call[t].attached THEN Written(call[t]) ELSE Idle
  <2>1. call' = [call EXCEPT ![t] = next]
    BY <1>5 DEF Write, Written
  <2>2. /\ next \in Call
        /\ call[t].attached => next.stage = "written" /\ next.attached /\ SameCall(call[t], next)
        /\ ~call[t].attached => next = Idle
    BY WrittenCall
  <2>3. /\ flock' = Nobody /\ call[t].stage = "loaded" /\ flock = t
        /\ UNCHANGED <<memory, mutex, calls, acked, answered, onlyPuts>>
    BY <1>5 DEF Write
  <2>4. disk' \in Maps /\ deleted' \subseteq Keys
    BY <1>5 DEF Write, Removed, Call
  <2> HIDE DEF next
  <2>5. StagesFit'
    BY <2>1, <2>2, <2>3, IdleFields DEF SameCall
  <2> QED
    BY <2>1, <2>2, <2>3, <2>4, <2>5, IdleFields
<1>6. ASSUME NEW t \in Tasks, WriteFails(t) PROVE TypeInv'
  <2>1. disk' \in Maps /\ flock' = Nobody /\ flock = t /\ call' = [call EXCEPT ![t] = Idle]
    BY <1>6 DEF WriteFails, Call
  <2> QED
    BY <1>6, <2>1, TaskHandle DEF WriteFails, MutexAfter, Idle
<1>7. ASSUME NEW t \in Tasks, Install(t) PROVE TypeInv'
  <2>1. memory' \in [Handles -> Maps]
    BY <1>7, TaskHandle DEF Install, Call
  <2>2. acked' \in Maps
    <3>1. call[t] \in Call /\ acked \in Maps /\ call[t].key \in Keys
      BY <1>7 DEF Install
    <3>2. acked[call[t].key] \in 0 .. MaxSeq \cup {None} /\ call[t].seq \in 0 .. MaxSeq \cup {None}
      BY <3>1 DEF Maps, Call
    <3>3. Higher(acked[call[t].key], call[t].seq) \in 0 .. MaxSeq \cup {None}
      BY <3>2, HigherType
    <3>4. \/ acked' = acked
          \/ acked' = [acked EXCEPT ![call[t].key] = Higher(acked[call[t].key], call[t].seq)]
      BY <1>7 DEF Install
    <3> QED
      BY <3>1, <3>3, <3>4 DEF Maps
  <2>3. answered' \in [Handles -> Maps]
    <3>1. Handle(t) \in Handles /\ call[t].map \in Maps /\ answered[Handle(t)] \in Maps
      BY TaskHandle DEF Call
    <3>2. Told(call[t], answered[Handle(t)]) \in Maps
      BY <3>1, ToldType
    <3>3. answered' = [answered EXCEPT ![Handle(t)] = Told(call[t], answered[Handle(t)])]
      BY <1>7 DEF Install
    <3> QED
      BY <3>2, <3>3
  <2> QED
    BY <1>7, <2>1, <2>2, <2>3, TaskHandle DEF Install, MutexAfter, Idle
<1>8. ASSUME NEW t \in Tasks, DropFuture(t) PROVE TypeInv'
  <2> DEFINE next == IF call[t].stage \in {"computed", "loaded"} THEN Dropped(call[t]) ELSE Idle
  <2>1. call' = [call EXCEPT ![t] = next]
    BY <1>8 DEF DropFuture, Dropped
  <2>2. /\ next \in Call /\ ~next.attached
        /\ next.stage = "loaded" <=> call[t].stage = "loaded"
        /\ next = Idle \/ /\ next.stage = call[t].stage /\ call[t].stage \in {"computed", "loaded"}
                          /\ SameCall(call[t], next)
    BY DroppedCall, IdleFields
  <2>3. /\ mutex' \in [Handles -> Tasks \cup {Nobody}]
        /\ mutex'[Handle(t)] # t
        /\ \A u \in Tasks \ {t} : mutex'[Handle(u)] = u <=> mutex[Handle(u)] = u
    BY <1>8, TaskHandle DEF DropFuture
  <2> HIDE DEF next
  <2>4. StagesFit'
    BY <2>1, <2>2, IdleFields DEF SameCall
  <2>5. UNCHANGED <<disk, memory, flock, calls, acked, deleted, answered, onlyPuts>> /\ call[t].attached
    BY <1>8 DEF DropFuture
  <2>6. \A u \in Tasks : mutex'[Handle(u)] = u <=>
          call'[u].attached /\ call'[u].stage \in {"computed", "loaded", "written"}
    BY <2>1, <2>2, <2>3
  <2> QED
    BY <2>1, <2>2, <2>3, <2>4, <2>5, <2>6
<1>9. ASSUME NEW h \in Handles, Crash(h) PROVE TypeInv'
  BY <1>9, TaskHandle DEF Crash, Idle
<1>10. ASSUME NEW h \in Handles, Reopen(h) PROVE TypeInv'
  BY <1>10 DEF Reopen
<1>11. CASE RemoveFile
  BY <1>11 DEF RemoveFile, Empty, Maps, None
<1>12. CASE UNCHANGED vars
  BY <1>12 DEF vars
<1> QED
  BY <1>1, <1>2, <1>3, <1>4, <1>5, <1>6, <1>7, <1>8, <1>9, <1>10, <1>11, <1>12 DEF Next, Proceed

(* TypeInv is inductive.                                                   *)
LEMMA TypeInvariant == Spec => []TypeInv
BY TypeInit, TypeStep, PTL DEF Spec

(* Types, and each lock has at most the one holder its calls say it has    *)
(* (write_through): TypeOK for every instance.                             *)
THEOREM LocksHaveTheirHolders == Spec => []TypeOK
<1>1. TypeInv => TypeOK
  BY DEF TypeInv
<1> QED
  BY <1>1, TypeInvariant, PTL

-----------------------------------------------------------------------------
(* Snapshots and deletes.                                                  *)

Deletes(c, k) == c.op = "delete" /\ c.key = k

(* Of a call whose handle knows `known` while the file holds `file`: it    *)
(* forgets only the key it deletes; what it is to install covers what the  *)
(* handle knows, and what it is to write covers the file, but for that key.*)
Covers(c, known, file) ==
  /\ c.stage \in {"computed", "loaded"} => \A k \in Keys : c.forgotten[k] # None => Deletes(c, k)
  /\ c.attached /\ c.stage \in {"computed", "loaded", "written"} =>
       \A k \in Keys : Deletes(c, k) \/ known[k] <= c.map[k]
  /\ c.stage = "loaded" =>
       \A k \in Keys : c.map[k] < file[k] => Deletes(c, k) /\ file[k] <= c.forgotten[k]

SnapshotsCovered == \A t \in Tasks : Covers(call[t], memory[Handle(t)], disk)

LEMMA EmptyIsLowest == Empty \in Maps /\ \A map \in Maps, k \in Keys : ~(map[k] < Empty[k])
BY StoreAssumption DEF Empty, Maps, None

LEMMA MapValues == \A map \in Maps, k \in Keys : map[k] \in Int /\ None <= map[k]
BY StoreAssumption DEF Maps, None

(* A call outside the locked stages covers whatever there is.              *)
LEMMA OutsideCovers ==
  ASSUME NEW c, c.stage \in {"idle", "waiting"}, NEW known, NEW file
  PROVE  Covers(c, known, file)
BY DEF Covers

LEMMA ComputedCovers ==
  ASSUME NEW c, Asks(c), NEW known \in Maps, NEW file
  PROVE  Covers(Computed(c, Candidate(c, known), Forgotten(c, known)), known, file)
<1> DEFINE d == Computed(c, Candidate(c, known), Forgotten(c, known))
<1>1. /\ Candidate(c, known) \in Maps /\ Forgotten(c, known) \in Maps
      /\ \A k \in Keys \ {c.key} : Candidate(c, known)[k] = known[k]
      /\ c.op = "put" => known[c.key] <= Candidate(c, known)[c.key]
      /\ \A k \in Keys : Forgotten(c, known)[k] # None => c.op = "delete" /\ k = c.key
  BY CandidateKeeps, ForgottenIsDeleted
<1>2. /\ SameCall(c, d) /\ d.stage = "computed" /\ d.map = Candidate(c, known)
      /\ d.forgotten = Forgotten(c, known)
  BY <1>1, ComputedCall DEF Asks
<1>3. (c.op = "put" \/ c.op = "delete") /\ \A k \in Keys : known[k] \in Int
  BY MapValues, StoreAssumption DEF Asks
<1>4. \A k \in Keys : d.forgotten[k] # None => Deletes(d, k)
  BY <1>1, <1>2 DEF Deletes, SameCall
<1>5. \A k \in Keys : Deletes(d, k) \/ known[k] <= d.map[k]
  <2> TAKE k \in Keys
  <2>1. CASE k = c.key
    BY <2>1, <1>1, <1>2, <1>3 DEF Deletes, SameCall
  <2>2. CASE k # c.key
    BY <2>2, <1>1, <1>2, <1>3
  <2> QED
    BY <2>1, <2>2
<1> HIDE DEF d
<1>6. Covers(d, known, file)
  BY <1>2, <1>4, <1>5 DEF Covers
<1> QED
  BY <1>6 DEF d

LEMMA LoadedCovers ==
  ASSUME NEW c \in Call, c.stage = "computed", NEW known \in Maps, NEW file \in Maps,
         Covers(c, known, file)
  PROVE  Covers(Loaded(c, Merged(c, file), file), known, file)
<1> DEFINE d == Loaded(c, Merged(c, file), file)
<1>1. Merged(c, file) \in Maps
  BY MergeKeeps
<1>2. /\ SameCall(c, d) /\ d.stage = "loaded" /\ d.map = Merged(c, file)
      /\ d.forgotten = c.forgotten /\ (d.attached <=> c.attached)
  BY <1>1, LoadedCall
<1> HIDE DEF d
<1>3. \A k \in Keys : Deletes(d, k) <=> Deletes(c, k)
  BY <1>2 DEF Deletes, SameCall
<1>4. /\ \A k \in Keys : c.forgotten[k] # None => Deletes(c, k)
      /\ c.attached => \A k \in Keys : Deletes(c, k) \/ known[k] <= c.map[k]
  BY DEF Covers
<1>5. \A k \in Keys : c.map[k] \in Int /\ d.map[k] \in Int /\ file[k] \in Int /\ known[k] \in Int
  BY <1>1, <1>2, StoreAssumption DEF Maps, Call, None
<1>6. \A k \in Keys : \/ c.forgotten[k] # None /\ file[k] <= c.forgotten[k]
                      \/ file[k] <= d.map[k] /\ c.map[k] <= d.map[k]
  BY <1>2, MergeKeeps
<1>7. \A k \in Keys : d.map[k] < file[k] => Deletes(d, k) /\ file[k] <= d.forgotten[k]
  BY <1>2, <1>3, <1>4, <1>5, <1>6
<1>8. d.attached => \A k \in Keys : Deletes(d, k) \/ known[k] <= d.map[k]
  BY <1>2, <1>3, <1>4, <1>5, <1>6
<1>9. \A k \in Keys : d.forgotten[k] # None => Deletes(d, k)
  BY <1>2, <1>3, <1>4
<1>10. Covers(d, known, file)
  BY <1>2, <1>7, <1>8, <1>9 DEF Covers
<1> QED
  BY <1>10 DEF d

LEMMA WrittenCovers ==
  ASSUME NEW c \in Call, c.stage = "loaded", NEW known, NEW file, NEW after, Covers(c, known, file)
  PROVE  Covers(Written(c), known, after)
<1> DEFINE d == Written(c)
<1>1. /\ SameCall(c, d) /\ (d.attached <=> c.attached)
      /\ d.stage = "written" /\ d.map = c.map
  BY WrittenCall
<1> HIDE DEF d
<1>2. Covers(d, known, after)
  BY <1>1 DEF Covers, SameCall, Deletes
<1> QED
  BY <1>2 DEF d

LEMMA DroppedCovers ==
  ASSUME NEW c \in Call, NEW known, NEW file, Covers(c, known, file)
  PROVE  Covers(Dropped(c), known, file)
<1> DEFINE d == Dropped(c)
<1>1. /\ SameCall(c, d) /\ ~d.attached
      /\ d.stage = c.stage /\ d.map = c.map /\ d.forgotten = c.forgotten
  BY DroppedCall
<1> HIDE DEF d
<1>2. Covers(d, known, file)
  BY <1>1 DEF Covers, SameCall, Deletes
<1> QED
  BY <1>2 DEF d

LEMMA CoveredInit == Init => SnapshotsCovered
BY IdleFields, OutsideCovers DEF Init, SnapshotsCovered

LEMMA CoveredStep == TypeInv /\ SnapshotsCovered /\ [Next]_vars => SnapshotsCovered'
<1> SUFFICES ASSUME TypeInv, SnapshotsCovered, [Next]_vars,
                    NEW u \in Tasks
             PROVE  Covers(call[u], memory[Handle(u)], disk)'
  BY DEF SnapshotsCovered
<1> DEFINE known == memory[Handle(u)]
<1>0. /\ call \in [Tasks -> Call] /\ call[u] \in Call /\ disk \in Maps
      /\ Handle(u) \in Handles /\ known \in Maps
      /\ Covers(call[u], known, disk)
  BY DEF TypeInv, TypeOK, SnapshotsCovered, Handle, Tasks
<1>1. ASSUME NEW t \in Tasks, NEW op \in Ops, NEW k \in Keys, NEW n \in 0 .. MaxSeq \cup {None},
             Begin(t, op, k, n)
      PROVE  Covers(call[u], memory[Handle(u)], disk)'
  <2>1. CASE u = t
    <3>1. call'[u].stage = "waiting"
      BY <1>0, <1>1, <2>1 DEF Begin, Idle
    <3> QED
      BY <3>1, OutsideCovers
  <2>2. CASE u # t
    BY <1>0, <1>1, <2>2 DEF Begin
  <2> QED
    BY <2>1, <2>2
<1>2. ASSUME NEW t \in Tasks, Compute(t) PROVE Covers(call[u], memory[Handle(u)], disk)'
  <2>1. CASE u = t
    <3>1. Asks(call[u])
      BY <1>0, <1>2, <2>1 DEF TypeInv, StagesFit, Compute, Asks
    <3>2. call'[u] = Computed(call[u], Candidate(call[u], known), Forgotten(call[u], known))
      BY <1>0, <1>2, <2>1 DEF Compute, Computed
    <3>3. memory' = memory /\ disk' = disk
      BY <1>2 DEF Compute
    <3>4. Covers(call'[u], known, disk)
      BY <1>0, <3>1, <3>2, ComputedCovers
    <3> QED
      BY <3>3, <3>4
  <2>2. CASE u # t
    BY <1>0, <1>2, <2>2 DEF Compute
  <2> QED
    BY <2>1, <2>2
<1>3. ASSUME NEW t \in Tasks, LoadAndMerge(t) PROVE Covers(call[u], memory[Handle(u)], disk)'
  <2>1. CASE u = t
    <3>1. call'[u] = Loaded(call[u], Merged(call[u], disk), disk)
      BY <1>0, <1>3, <2>1 DEF LoadAndMerge, Loaded
    <3>2. memory' = memory /\ disk' = disk /\ call[u].stage = "computed"
      BY <1>3, <2>1 DEF LoadAndMerge
    <3>3. Covers(call'[u], known, disk)
      BY <1>0, <3>1, <3>2, LoadedCovers
    <3> QED
      BY <3>2, <3>3
  <2>2. CASE u # t
    BY <1>0, <1>3, <2>2 DEF LoadAndMerge
  <2> QED
    BY <2>1, <2>2
<1>4. ASSUME NEW t \in Tasks, LoadFails(t) PROVE Covers(call[u], memory[Handle(u)], disk)'
  <2>1. call'[u] = Idle \/ call'[u] = call[u]
    BY <1>0, <1>4 DEF LoadFails
  <2> QED
    BY <1>0, <1>4, <2>1, IdleFields, OutsideCovers DEF LoadFails
<1>5. ASSUME NEW t \in Tasks, Write(t) PROVE Covers(call[u], memory[Handle(u)], disk)'
  <2>1. memory' = memory /\ call[t].stage = "loaded"
    BY <1>5 DEF Write
  <2>2. CASE u = t
    <3>1. call'[u] = Written(call[u]) \/ call'[u] = Idle
      BY <1>0, <1>5, <2>2 DEF Write, Written
    <3>2. Covers(Written(call[u]), known, disk') /\ Covers(Idle, known, disk')
      BY <1>0, <2>1, <2>2, WrittenCovers, IdleFields, OutsideCovers
    <3> QED
      BY <2>1, <3>1, <3>2
  <2>3. CASE u # t
    <3>1. call'[u] = call[u] /\ call[u].stage # "loaded"
      BY <1>0, <1>5, <2>1, <2>3 DEF Write, TypeInv, TypeOK
    <3>2. Covers(call[u], known, disk')
      BY <1>0, <3>1 DEF Covers
    <3> QED
      BY <2>1, <3>1, <3>2
  <2> QED
    BY <2>2, <2>3
<1>6. ASSUME NEW t \in Tasks, WriteFails(t) PROVE Covers(call[u], memory[Handle(u)], disk)'
  <2>1. memory' = memory /\ call[t].stage = "loaded"
    BY <1>6 DEF WriteFails
  <2>2. CASE u = t
    <3>1. call'[u].stage = "idle"
      BY <1>0, <1>6, <2>2, IdleFields DEF WriteFails
    <3> QED
      BY <3>1, OutsideCovers
  <2>3. CASE u # t
    <3>1. call'[u] = call[u] /\ call[u].stage # "loaded"
      BY <1>0, <1>6, <2>1, <2>3 DEF WriteFails, TypeInv, TypeOK
    <3>2. Covers(call[u], known, disk')
      BY <1>0, <3>1 DEF Covers
    <3> QED
      BY <2>1, <3>1, <3>2
  <2> QED
    BY <2>2, <2>3
<1>7. ASSUME NEW t \in Tasks, Install(t) PROVE Covers(call[u], memory[Handle(u)], disk)'
  <2>1. CASE u = t
    <3>1. call'[u].stage = "idle"
      BY <1>0, <1>7, <2>1, IdleFields DEF Install
    <3> QED
      BY <3>1, OutsideCovers
  <2>2. CASE u # t
    <3>1. call'[u] = call[u] /\ disk' = disk
      BY <1>0, <1>7, <2>2 DEF Install
    <3>2. Handle(t) # Handle(u) => memory'[Handle(u)] = known
      BY <1>0, <1>7 DEF Install, TypeInv, TypeOK
    <3>3. Handle(t) = Handle(u) =>
            ~(call[u].attached /\ call[u].stage \in {"computed", "loaded", "written"})
      BY <1>7, <2>2 DEF Install, TypeInv, TypeOK, StagesFit
    <3>4. Handle(t) = Handle(u) => Covers(call[u], memory'[Handle(u)], disk)
      BY <1>0, <3>3 DEF Covers
    <3> QED
      BY <1>0, <3>1, <3>2, <3>4
  <2> QED
    BY <2>1, <2>2
<1>8. ASSUME NEW t \in Tasks, DropFuture(t) PROVE Covers(call[u], memory[Handle(u)], disk)'
  <2>1. memory' = memory /\ disk' = disk
    BY <1>8 DEF DropFuture
  <2>2. call'[u] = call[u] \/ call'[u] = Dropped(call[u]) \/ call'[u] = Idle
    BY <1>0, <1>8 DEF DropFuture, Dropped
  <2>3. Covers(Dropped(call[u]), known, disk) /\ Covers(Idle, known, disk)
    BY <1>0, DroppedCovers, IdleFields, OutsideCovers
  <2> QED
    BY <1>0, <2>1, <2>2, <2>3
<1>9. ASSUME NEW h \in Handles, Crash(h) PROVE Covers(call[u], memory[Handle(u)], disk)'
  <2>1. CASE Handle(u) = h
    <3>1. call'[u].stage = "idle"
      BY <1>9, <2>1, IdleFields DEF Crash
    <3> QED
      BY <3>1, OutsideCovers
  <2>2. CASE Handle(u) # h
    <3>1. call'[u] = call[u] /\ disk' = disk /\ memory'[Handle(u)] = known
      BY <1>0, <1>9, <2>2 DEF Crash, TypeInv, TypeOK
    <3> QED
      BY <1>0, <3>1
  <2> QED
    BY <2>1, <2>2
<1>10. ASSUME NEW h \in Handles, Reopen(h) PROVE Covers(call[u], memory[Handle(u)], disk)'
  <2>1. call' = call /\ disk' = disk
    BY <1>10 DEF Reopen
  <2>2. Handle(u) # h => memory'[Handle(u)] = known
    BY <1>0, <1>10 DEF Reopen, TypeInv, TypeOK
  <2>3. Handle(u) = h => ~call[u].attached
    BY <1>10 DEF Reopen
  <2>4. Handle(u) = h => Covers(call[u], memory'[Handle(u)], disk)
    BY <1>0, <2>3 DEF Covers
  <2> QED
    BY <1>0, <2>1, <2>2, <2>4
<1>11. CASE RemoveFile
  <2>1. call' = call /\ disk' = Empty /\ memory' = memory
    BY <1>11 DEF RemoveFile
  <2>2. \A k \in Keys : ~(call[u].map[k] < Empty[k])
    BY <1>0, EmptyIsLowest DEF Call
  <2>3. Covers(call[u], known, Empty)
    BY <1>0, <2>2 DEF Covers
  <2> QED
    BY <2>1, <2>3
<1>12. CASE UNCHANGED vars
  BY <1>0, <1>12 DEF vars
<1> QED
  BY <1>1, <1>2, <1>3, <1>4, <1>5, <1>6, <1>7, <1>8, <1>9, <1>10, <1>11, <1>12 DEF Next, Proceed

SnapshotInv == TypeInv /\ SnapshotsCovered

LEMMA SnapshotInvariant == Spec => []SnapshotInv
<1>1. Init => SnapshotInv
  BY TypeInit, CoveredInit DEF SnapshotInv
<1>2. SnapshotInv /\ [Next]_vars => SnapshotInv'
  BY TypeStep, CoveredStep DEF SnapshotInv
<1> QED
  BY <1>1, <1>2, PTL DEF Spec

LEMMA UnlessLower ==
  ASSUME NEW known \in Maps, NEW k \in Keys
  PROVE  ~(known[k] < known[k])
BY MapValues

(* The invariant with what makes it one: no answer is above the snapshot.  *)
AnsweredInv == SnapshotInv /\ MemoryNeverRegresses

(* What a call installs is not below an answer, but for the key it deletes.*)
LEMMA InstallTells ==
  ASSUME AnsweredInv, NEW t \in Tasks, Install(t), NEW k \in Keys
  PROVE  answered'[Handle(t)][k] <= memory'[Handle(t)][k]
<1> DEFINE h     == Handle(t)
           known == memory[h]
           told  == answered[h]
<1>1. /\ h \in Handles /\ call[t] \in Call /\ call[t].map \in Maps /\ known \in Maps /\ told \in Maps
      /\ memory \in [Handles -> Maps] /\ answered \in [Handles -> Maps]
  BY DEF AnsweredInv, SnapshotInv, TypeInv, TypeOK, Handle, Tasks, Call
<1>2. memory'[h] = call[t].map /\ answered'[h] = Told(call[t], told)
  BY <1>1 DEF Install
<1>3. call[t].stage = "written" /\ call[t].attached /\ Covers(call[t], known, disk)
  BY DEF Install, AnsweredInv, SnapshotInv, TypeInv, StagesFit, SnapshotsCovered
<1>4. Deletes(call[t], k) \/ known[k] <= call[t].map[k]
  BY <1>3 DEF Covers
<1>5. told[k] <= known[k]
  BY <1>1 DEF AnsweredInv, MemoryNeverRegresses
<1>6. told[k] \in Int /\ known[k] \in Int /\ call[t].map[k] \in Int
  BY <1>1, MapValues
<1>7. \/ Told(call[t], told)[k] = call[t].map[k]
      \/ ~Deletes(call[t], k) /\ Told(call[t], told)[k] = told[k]
  BY <1>1, ToldType DEF Deletes
<1> QED
  BY <1>2, <1>4, <1>5, <1>6, <1>7

(* `get` on a handle never goes back but for a delete of its own or a new  *)
(* opening (the restore loop and the merge of write_through): a lower put  *)
(* changes nothing, whatever has become of the file.                       *)
THEOREM GetNeverGoesBack == Spec => []MemoryNeverRegresses
<1>1. Init => AnsweredInv
  <2>1. Init => SnapshotInv
    BY TypeInit, CoveredInit DEF SnapshotInv
  <2>2. Init => MemoryNeverRegresses
    BY MapValues, EmptyIsLowest DEF Init, MemoryNeverRegresses
  <2> QED
    BY <2>1, <2>2 DEF AnsweredInv
<1>2. AnsweredInv /\ [Next]_vars => AnsweredInv'
  <2> SUFFICES ASSUME AnsweredInv, [Next]_vars PROVE AnsweredInv'
    OBVIOUS
  <2>1. SnapshotInv'
    BY TypeStep, CoveredStep DEF AnsweredInv, SnapshotInv
  <2>2. /\ memory \in [Handles -> Maps] /\ answered \in [Handles -> Maps] /\ disk \in Maps
        /\ \A h \in Handles, k \in Keys : answered[h][k] <= memory[h][k]
    BY DEF AnsweredInv, SnapshotInv, TypeInv, TypeOK, MemoryNeverRegresses
  <2>3. ASSUME NEW t \in Tasks, Install(t) PROVE MemoryNeverRegresses'
    <3> SUFFICES ASSUME NEW h \in Handles, NEW k \in Keys
                 PROVE  answered'[h][k] <= memory'[h][k]
      BY DEF MemoryNeverRegresses
    <3>1. CASE h = Handle(t)
      BY <2>3, <3>1, InstallTells
    <3>2. CASE h # Handle(t)
      <4>1. memory'[h] = memory[h] /\ answered'[h] = answered[h]
        BY <2>2, <2>3, <3>2 DEF Install
      <4> QED
        BY <2>2, <4>1
    <3> QED
      BY <3>1, <3>2
  <2>4. ASSUME NEW g \in Handles, Crash(g) \/ Reopen(g) PROVE MemoryNeverRegresses'
    <3>1. memory' = [memory EXCEPT ![g] = disk] /\ answered' = [answered EXCEPT ![g] = disk]
      BY <2>4 DEF Crash, Reopen
    <3>2. \A k \in Keys : disk[k] <= disk[k]
      BY <2>2, MapValues
    <3> QED
      BY <2>2, <3>1, <3>2 DEF MemoryNeverRegresses
  <2>5. ASSUME UNCHANGED <<memory, answered>> PROVE MemoryNeverRegresses'
    <3>1. memory' = memory /\ answered' = answered
      BY <2>5
    <3>2. ASSUME NEW h \in Handles, NEW k \in Keys PROVE answered'[h][k] <= memory'[h][k]
      BY <2>2, <3>1
    <3> QED
      BY <3>2 DEF MemoryNeverRegresses
  <2>6. \/ \E t \in Tasks : Install(t)
        \/ \E g \in Handles : Crash(g) \/ Reopen(g)
        \/ UNCHANGED <<memory, answered>>
    BY DEF Next, Proceed, Begin, Compute, LoadAndMerge, LoadFails, Write, WriteFails, DropFuture,
           RemoveFile, vars
  <2>7. MemoryNeverRegresses'
    BY <2>3, <2>4, <2>5, <2>6
  <2> QED
    BY <2>1, <2>7 DEF AnsweredInv
<1>3. AnsweredInv => MemoryNeverRegresses
  BY DEF AnsweredInv
<1> QED
  BY <1>1, <1>2, <1>3, PTL DEF Spec

(* What a step may take from the file.                                     *)
DiskStep ==
  \A k \in Keys :
    disk'[k] < disk[k] =>
      \/ disk' = Empty /\ call' = call
      \/ \E t \in Tasks : /\ call[t].stage = "loaded" /\ call[t].op = "delete"
                          /\ call[t].key = k /\ disk[k] <= call[t].forgotten[k]

(* A checkpoint leaves the file only with a delete whose caller had seen   *)
(* it, or with the whole file (merge_monotonic under the flock).           *)
THEOREM DeletesDropOnlySeen == Spec => DeleteDropsOnlySeen
<1>1. SnapshotInv /\ [Next]_vars => DiskStep
  <2> SUFFICES ASSUME SnapshotInv, [Next]_vars, NEW k \in Keys, disk'[k] < disk[k]
               PROVE  \/ disk' = Empty /\ call' = call
                      \/ \E t \in Tasks : /\ call[t].stage = "loaded" /\ call[t].op = "delete"
                                          /\ call[t].key = k /\ disk[k] <= call[t].forgotten[k]
    BY DEF DiskStep
  <2>1. disk \in Maps /\ disk' # disk
    BY UnlessLower DEF SnapshotInv, TypeInv, TypeOK
  <2>2. ASSUME NEW t \in Tasks, Write(t) \/ WriteFails(t)
        PROVE  /\ call[t].stage = "loaded" /\ call[t].op = "delete"
               /\ call[t].key = k /\ disk[k] <= call[t].forgotten[k]
    <3>1. call[t].stage = "loaded" /\ disk' = call[t].map
      BY <2>1, <2>2 DEF Write, WriteFails
    <3>2. Covers(call[t], memory[Handle(t)], disk)
      BY DEF SnapshotInv, SnapshotsCovered
    <3> QED
      BY <3>1, <3>2 DEF Covers, Deletes
  <2>3. CASE RemoveFile
    BY <2>3 DEF RemoveFile
  <2> QED
    BY <2>1, <2>2, <2>3
       DEF Next, Proceed, Begin, Compute, LoadAndMerge, LoadFails, Install, DropFuture,
           Crash, Reopen, vars
<1> QED
  BY <1>1, SnapshotInvariant, PTL DEF DeleteDropsOnlySeen, DiskStep, Spec

-----------------------------------------------------------------------------
(* As long as nobody deletes, nor removes the file.                        *)

PutsOnly == onlyPuts /\ onlyPuts'

NoDeletes == \A t \in Tasks : call[t].op # "delete"

(* Of a put under way while the file holds `file`: it raises its own key   *)
(* and nothing else, from the candidate to the install.                    *)
Raises(c, file) ==
  /\ c.stage = "computed" =>
       /\ c.seq <= c.map[c.key]
       /\ \A k \in Keys \ {c.key} : c.map[k] <= file[k]
  /\ c.stage = "loaded" =>
       /\ c.seq <= c.map[c.key] /\ file[c.key] <= c.map[c.key]
       /\ \A k \in Keys \ {c.key} : c.map[k] = file[k]
       /\ c.dirty <=> c.map # file
  /\ c.stage = "written" =>
       /\ c.seq <= file[c.key]
       /\ \A k \in Keys : c.map[k] <= file[k]

PutsRaise == \A t \in Tasks : Raises(call[t], disk)

PutFacts == SnapshotInv /\ NoDeletes /\ PutsKept /\ PutsRaise
PutInv   == SnapshotInv /\ (onlyPuts => PutFacts)

LEMMA OutsideRaises ==
  ASSUME NEW c, c.stage \in {"idle", "waiting"}, NEW file
  PROVE  Raises(c, file)
BY DEF Raises

(* What holds of a call over a file holds over a higher one, unless the    *)
(* call is between its read and its write.                                 *)
LEMMA RaisesOverHigher ==
  ASSUME NEW c \in Call, c.stage # "idle" => c.key \in Keys, c.stage # "loaded",
         NEW file \in Maps, NEW after \in Maps,
         Raises(c, file), \A k \in Keys : file[k] <= after[k]
  PROVE  Raises(c, after)
<1>1. c.map \in Maps /\ c.seq \in Int
  BY StoreAssumption DEF Call, None
<1>2. \A k \in Keys : /\ c.map[k] \in Int /\ file[k] \in Int /\ after[k] \in Int
                      /\ c.map[k] <= file[k] => c.map[k] <= after[k]
                      /\ c.seq <= file[k] => c.seq <= after[k]
  BY <1>1, MapValues
<1> QED
  BY <1>2 DEF Raises

LEMMA ComputedRaises ==
  ASSUME NEW c, Asks(c), c.op = "put", NEW known \in Maps, NEW file \in Maps,
         \A k \in Keys : known[k] <= file[k]
  PROVE  Raises(Computed(c, Candidate(c, known), Forgotten(c, known)), file)
<1> DEFINE d == Computed(c, Candidate(c, known), Forgotten(c, known))
<1>1. /\ Candidate(c, known) \in Maps /\ Forgotten(c, known) \in Maps
      /\ \A k \in Keys \ {c.key} : Candidate(c, known)[k] = known[k]
      /\ c.seq <= Candidate(c, known)[c.key]
  BY CandidateKeeps, ForgottenIsDeleted
<1>2. SameCall(c, d) /\ d.stage = "computed" /\ d.map = Candidate(c, known)
  BY <1>1, ComputedCall DEF Asks
<1> HIDE DEF d
<1>3. Raises(d, file)
  BY <1>1, <1>2 DEF Raises, SameCall
<1> QED
  BY <1>3 DEF d

LEMMA LoadedRaises ==
  ASSUME NEW c, Asks(c), c.op = "put", c.stage = "computed", NEW known, NEW file \in Maps,
         Covers(c, known, file), Raises(c, file)
  PROVE  Raises(Loaded(c, Merged(c, file), file), file)
<1> DEFINE d == Loaded(c, Merged(c, file), file)
<1>0. c \in Call /\ c.key \in Keys
  BY DEF Asks
<1>1. Merged(c, file) \in Maps
  BY <1>0, MergeKeeps
<1>2. /\ SameCall(c, d) /\ d.stage = "loaded" /\ d.map = Merged(c, file)
      /\ d.dirty <=> Merged(c, file) # file
  BY <1>0, <1>1, LoadedCall
<1>3. \A k \in Keys : c.forgotten[k] = None
  BY DEF Covers, Deletes
<1>4. \A k \in Keys : /\ file[k] <= Merged(c, file)[k] /\ c.map[k] <= Merged(c, file)[k]
                      /\ c.map[k] <= file[k] => Merged(c, file)[k] = file[k]
  BY <1>0, <1>3, MergeKeeps
<1>5. c.seq <= c.map[c.key] /\ \A k \in Keys \ {c.key} : c.map[k] <= file[k]
  BY DEF Raises
<1>6. c.seq \in Int /\ c.map[c.key] \in Int /\ Merged(c, file)[c.key] \in Int
  BY <1>0, <1>1, MapValues, StoreAssumption DEF Call, None
<1> HIDE DEF d
<1>7. d.seq <= d.map[d.key] /\ file[d.key] <= d.map[d.key]
  BY <1>0, <1>2, <1>4, <1>5, <1>6 DEF SameCall
<1>8. Raises(d, file)
  BY <1>2, <1>4, <1>5, <1>7 DEF Raises, SameCall
<1> QED
  BY <1>8 DEF d

LEMMA WrittenRaises ==
  ASSUME NEW c \in Call, c.stage = "loaded", c.key \in Keys, NEW file \in Maps, Raises(c, file)
  PROVE  /\ Raises(Written(c), c.map)
         /\ ~c.dirty => c.map = file
         /\ \A k \in Keys : file[k] <= c.map[k]
         /\ c.map \in Maps
<1> DEFINE d == Written(c)
<1>1. SameCall(c, d) /\ d.stage = "written" /\ d.map = c.map
  BY WrittenCall
<1>2. c.map \in Maps /\ \A k \in Keys : c.map[k] <= c.map[k] /\ file[k] <= file[k]
  BY MapValues DEF Call
<1> HIDE DEF d
<1>3. Raises(d, c.map)
  BY <1>1, <1>2 DEF Raises, SameCall
<1>4. (~c.dirty => c.map = file) /\ \A k \in Keys : file[k] <= c.map[k]
  BY <1>2 DEF Raises
<1> QED
  BY <1>2, <1>3, <1>4 DEF d

LEMMA DroppedRaises ==
  ASSUME NEW c \in Call, NEW file, Raises(c, file)
  PROVE  Raises(Dropped(c), file)
<1> DEFINE d == Dropped(c)
<1>1. SameCall(c, d) /\ d.stage = c.stage /\ d.map = c.map /\ d.dirty = c.dirty
  BY DroppedCall
<1> HIDE DEF d
<1>2. Raises(d, file)
  BY <1>1 DEF Raises, SameCall
<1> QED
  BY <1>2 DEF d

(* Without deletes a step leaves the file as it is or writes a merged map. *)
LEMMA FileStep ==
  ASSUME PutsOnly, PutFacts, [Next]_vars, disk' # disk
  PROVE  \E t \in Tasks : /\ call[t].stage = "loaded" /\ disk' = call[t].map
                         /\ flock = t /\ memory' = memory /\ acked' = acked
<1>1. ASSUME NEW t \in Tasks, Write(t) \/ WriteFails(t)
      PROVE  /\ call[t].stage = "loaded" /\ disk' = call[t].map
             /\ flock = t /\ memory' = memory /\ acked' = acked
  BY <1>1 DEF Write, WriteFails, PutFacts, SnapshotInv, TypeInv, TypeOK
<1>2. ~RemoveFile
  BY DEF RemoveFile, PutsOnly
<1> QED
  BY <1>1, <1>2
     DEF Next, Proceed, Begin, Compute, LoadAndMerge, LoadFails, Install, DropFuture,
         Crash, Reopen, vars

LEMMA FileRises ==
  ASSUME PutsOnly, PutFacts, [Next]_vars
  PROVE  disk' \in Maps /\ \A k \in Keys : disk[k] <= disk'[k]
<1>1. disk \in Maps /\ \A k \in Keys : disk[k] <= disk[k]
  BY MapValues DEF PutFacts, SnapshotInv, TypeInv, TypeOK
<1>2. CASE disk' # disk
  <2> PICK t \in Tasks : call[t].stage = "loaded" /\ disk' = call[t].map
    BY <1>2, FileStep
  <2>1. call[t] \in Call /\ call[t].key \in Keys /\ Raises(call[t], disk)
    BY DEF PutFacts, SnapshotInv, TypeInv, TypeOK, StagesFit, PutsRaise
  <2> QED
    BY <1>1, <2>1, WrittenRaises
<1> QED
  BY <1>1, <1>2

LEMMA KeptStep == PutsOnly /\ PutFacts /\ [Next]_vars => PutsKept'
<1> SUFFICES ASSUME PutsOnly, PutFacts, [Next]_vars PROVE PutsKept'
  OBVIOUS
<1>0. /\ disk \in Maps /\ acked \in Maps /\ memory \in [Handles -> Maps]
      /\ \A k \in Keys : acked[k] <= disk[k]
      /\ \A h \in Handles, k \in Keys : memory[h][k] <= disk[k]
  BY DEF PutFacts, SnapshotInv, TypeInv, TypeOK, PutsKept, AckedIsDurable, MemoryNotAheadOfDisk
<1>1. disk' \in Maps /\ \A k \in Keys : disk[k] <= disk'[k]
  BY FileRises
<1>2. \A k \in Keys : acked'[k] <= disk[k]
  <2>1. ASSUME NEW t \in Tasks, Install(t), NEW k \in Keys PROVE acked'[k] <= disk[k]
    <3>1. call[t] \in Call /\ Raises(call[t], disk) /\ call[t].stage = "written"
      BY <2>1 DEF PutFacts, SnapshotInv, TypeInv, TypeOK, PutsRaise, Install
    <3>2. call[t].seq <= disk[call[t].key]
      BY <3>1 DEF Raises
    <3>3. acked' = [acked EXCEPT ![call[t].key] = Higher(@, call[t].seq)] \/ acked' = acked
      BY <2>1 DEF Install
    <3>4. \/ acked'[k] = acked[k]
          \/ k = call[t].key /\ acked'[k] = Higher(acked[k], call[t].seq)
      BY <1>0, <3>3 DEF Maps
    <3> QED
      BY <1>0, <3>2, <3>4 DEF Higher
  <2>2. CASE acked' = acked
    BY <1>0, <2>2
  <2> QED
    BY <2>1, <2>2
       DEF Next, Proceed, Begin, Compute, LoadAndMerge, LoadFails, Write, WriteFails, DropFuture,
           Crash, Reopen, RemoveFile, vars
<1>3. memory' \in [Handles -> Maps] /\ acked' \in Maps
  BY TypeStep DEF PutFacts, SnapshotInv, TypeInv, TypeOK
<1>4. \A h \in Handles, k \in Keys : memory'[h][k] <= disk[k]
  <2>1. ASSUME NEW t \in Tasks, Install(t), NEW h \in Handles, NEW k \in Keys
        PROVE  memory'[h][k] <= disk[k]
    <3>1. call[t] \in Call /\ Raises(call[t], disk) /\ call[t].stage = "written"
      BY <2>1 DEF PutFacts, SnapshotInv, TypeInv, TypeOK, PutsRaise, Install
    <3>2. call[t].map[k] <= disk[k]
      BY <3>1 DEF Raises
    <3>3. memory'[h] = memory[h] \/ memory'[h] = call[t].map
      BY <1>0, <2>1 DEF Install
    <3> QED
      BY <1>0, <3>2, <3>3
  <2>2. ASSUME NEW g \in Handles, Crash(g) \/ Reopen(g), NEW h \in Handles, NEW k \in Keys
        PROVE  memory'[h][k] <= disk[k]
    <3>1. memory'[h] = memory[h] \/ memory'[h] = disk
      BY <1>0, <2>2 DEF Crash, Reopen
    <3> QED
      BY <1>0, <3>1, MapValues
  <2>3. CASE memory' = memory
    BY <1>0, <2>3
  <2> QED
    BY <2>1, <2>2, <2>3
       DEF Next, Proceed, Begin, Compute, LoadAndMerge, LoadFails, Write, WriteFails, DropFuture,
           RemoveFile, vars
<1>5. \A k \in Keys : acked'[k] \in Int /\ disk[k] \in Int /\ disk'[k] \in Int
  BY <1>0, <1>1, <1>3, MapValues
<1>6. \A h \in Handles, k \in Keys : memory'[h][k] \in Int
  BY <1>3, MapValues
<1>7. AckedIsDurable'
  BY <1>1, <1>2, <1>5 DEF AckedIsDurable
<1>8. MemoryNotAheadOfDisk'
  BY <1>1, <1>4, <1>5, <1>6 DEF MemoryNotAheadOfDisk
<1> QED
  BY <1>7, <1>8 DEF PutsKept

LEMMA NoDeleteStep == PutsOnly /\ PutFacts /\ [Next]_vars => NoDeletes'
<1> SUFFICES ASSUME PutsOnly, PutFacts, [Next]_vars, NEW u \in Tasks PROVE call'[u].op # "delete"
  BY DEF NoDeletes
<1>1. call \in [Tasks -> Call] /\ call[u] \in Call /\ call[u].op # "delete"
  BY DEF PutFacts, NoDeletes, SnapshotInv, TypeInv, TypeOK
<1>3. ASSUME NEW t \in Tasks, NEW op \in Ops, NEW k \in Keys, NEW n \in 0 .. MaxSeq \cup {None},
             Begin(t, op, k, n)
      PROVE  call'[u].op # "delete"
  <2>1. op = "put"
    BY <1>3 DEF Begin, PutsOnly
  <2>2. call'[u] = call[u] \/ call'[u].op = op
    BY <1>1, <1>3 DEF Begin, Idle
  <2> QED
    BY <1>1, <2>1, <2>2
<1>4. ASSUME NEW t \in Tasks, Compute(t) \/ LoadAndMerge(t) \/ Write(t) \/ DropFuture(t)
      PROVE  call'[u].op # "delete"
  <2>1. call[t] \in Call /\ call[t].op # "delete"
    BY DEF PutFacts, NoDeletes, SnapshotInv, TypeInv, TypeOK
  <2>2. ASSUME NEW d, d.op = call[t].op, call' = [call EXCEPT ![t] = d] PROVE call'[u].op # "delete"
    BY <1>1, <2>1, <2>2
  <2>3. ASSUME call' = [call EXCEPT ![t] = Idle] PROVE call'[u].op # "delete"
    BY <1>1, <2>3, IdleFields
  <2>4. CASE Compute(t)
    <3> DEFINE pre == memory[Handle(t)]
               d   == Computed(call[t], Candidate(call[t], pre), Forgotten(call[t], pre))
    <3>1. call' = [call EXCEPT ![t] = d]
      BY <2>4 DEF Compute, Computed
    <3>2. d.op = call[t].op
      BY <2>1 DEF Computed, Call
    <3> QED
      BY <2>2, <3>1, <3>2
  <2>5. CASE LoadAndMerge(t)
    <3> DEFINE d == Loaded(call[t], Merged(call[t], disk), disk)
    <3>1. call' = [call EXCEPT ![t] = d]
      BY <2>5 DEF LoadAndMerge, Loaded
    <3>2. d.op = call[t].op
      BY <2>1 DEF Loaded, Call
    <3> QED
      BY <2>2, <3>1, <3>2
  <2>6. CASE Write(t)
    <3>1. \/ call' = [call EXCEPT ![t] = Written(call[t])]
          \/ call' = [call EXCEPT ![t] = Idle]
      BY <2>6 DEF Write, Written
    <3>2. Written(call[t]).op = call[t].op
      BY <2>1 DEF Written, Call
    <3> QED
      BY <2>2, <2>3, <3>1, <3>2
  <2>7. CASE DropFuture(t)
    <3>1. \/ call' = [call EXCEPT ![t] = Dropped(call[t])]
          \/ call' = [call EXCEPT ![t] = Idle]
      BY <2>7 DEF DropFuture, Dropped
    <3>2. Dropped(call[t]).op = call[t].op
      BY <2>1 DEF Dropped, Call
    <3> QED
      BY <2>2, <2>3, <3>1, <3>2
  <2> QED
    BY <1>4, <2>4, <2>5, <2>6, <2>7
<1>5. ASSUME NEW t \in Tasks, LoadFails(t) \/ WriteFails(t) \/ Install(t) PROVE call'[u].op # "delete"
  <2>1. call'[u] = call[u] \/ call'[u] = Idle
    BY <1>1, <1>5 DEF LoadFails, WriteFails, Install
  <2> QED
    BY <1>1, <2>1, IdleFields
<1>6. ASSUME NEW h \in Handles, Crash(h) \/ Reopen(h) PROVE call'[u].op # "delete"
  <2>1. call'[u] = call[u] \/ call'[u] = Idle
    BY <1>1, <1>6 DEF Crash, Reopen
  <2> QED
    BY <1>1, <2>1, IdleFields
<1>7. CASE RemoveFile \/ UNCHANGED vars
  BY <1>1, <1>7 DEF RemoveFile, vars
<1> QED
  BY <1>3, <1>4, <1>5, <1>6, <1>7 DEF Next, Proceed

LEMMA RaiseStep == PutsOnly /\ PutFacts /\ [Next]_vars => PutsRaise'
<1> SUFFICES ASSUME PutsOnly, PutFacts, [Next]_vars, NEW u \in Tasks
             PROVE  Raises(call[u], disk)'
  BY DEF PutsRaise
<1>0. /\ call \in [Tasks -> Call] /\ call[u] \in Call /\ disk \in Maps
      /\ Handle(u) \in Handles /\ memory[Handle(u)] \in Maps
      /\ \A k \in Keys : memory[Handle(u)][k] <= disk[k]
      /\ Raises(call[u], disk) /\ Covers(call[u], memory[Handle(u)], disk)
      /\ call[u].stage # "idle" => Asks(call[u]) /\ call[u].op = "put"
      /\ flock = u <=> call[u].stage = "loaded"
  <2>1. /\ call \in [Tasks -> Call] /\ call[u] \in Call /\ disk \in Maps
        /\ Handle(u) \in Handles /\ memory[Handle(u)] \in Maps
        /\ call[u].stage # "idle" => Asks(call[u])
        /\ flock = u <=> call[u].stage = "loaded"
    BY TaskHandle DEF PutFacts, SnapshotInv, TypeInv, TypeOK, StagesFit, Asks
  <2>2. /\ \A k \in Keys : memory[Handle(u)][k] <= disk[k]
        /\ Raises(call[u], disk) /\ Covers(call[u], memory[Handle(u)], disk)
    BY <2>1 DEF PutFacts, SnapshotInv, PutsRaise, SnapshotsCovered, PutsKept, MemoryNotAheadOfDisk
  <2>3. call[u].op # "delete"
    BY DEF PutFacts, NoDeletes
  <2> QED
    BY <2>1, <2>2, <2>3, StoreAssumption DEF Asks
<1>1. disk' \in Maps /\ \A k \in Keys : disk[k] <= disk'[k]
  BY FileRises
<1>2. CASE call'[u] = call[u]
  <2>1. CASE disk' = disk
    BY <1>0, <1>2, <2>1
  <2>2. CASE disk' # disk /\ call[u].stage # "loaded"
    BY <1>0, <1>1, <1>2, <2>2, RaisesOverHigher DEF Asks
  <2>3. CASE disk' # disk /\ call[u].stage = "loaded"
    <3>1. flock = u
      BY <1>0, <2>3
    <3>2. ASSUME NEW t \in Tasks, Write(t) \/ WriteFails(t) PROVE FALSE
      <4>1. t = u
        BY <3>1, <3>2 DEF Write, WriteFails, PutFacts, SnapshotInv, TypeInv, TypeOK
      <4>2. call'[u].stage # "loaded"
        <5>1. call'[u] = Idle \/ call'[u] = Written(call[u])
          BY <1>0, <3>2, <4>1 DEF Write, WriteFails, Written
        <5>2. Written(call[u]).stage = "written"
          BY <1>0, WrittenCall
        <5> QED
          BY <5>1, <5>2, IdleFields
      <4> QED
        BY <1>2, <2>3, <4>2
    <3>3. ~RemoveFile
      BY DEF RemoveFile, PutsOnly
    <3> QED
      BY <2>3, <3>2, <3>3
         DEF Next, Proceed, Begin, Compute, LoadAndMerge, LoadFails, Install, DropFuture,
             Crash, Reopen, vars
  <2> QED
    BY <2>1, <2>2, <2>3
<1>3. ASSUME NEW op \in Ops, NEW k \in Keys, NEW n \in 0 .. MaxSeq \cup {None}, Begin(u, op, k, n)
      PROVE  Raises(call[u], disk)'
  <2>1. call'[u].stage = "waiting"
    BY <1>0, <1>3 DEF Begin, Idle
  <2> QED
    BY <2>1, OutsideRaises
<1>4. CASE Compute(u)
  <2>1. Asks(call[u]) /\ call[u].op = "put"
    BY <1>0, <1>4 DEF Compute
  <2>2. disk' = disk /\ call'[u] = Computed(call[u], Candidate(call[u], memory[Handle(u)]),
                                           Forgotten(call[u], memory[Handle(u)]))
    BY <1>0, <1>4 DEF Compute, Computed
  <2>3. Raises(call'[u], disk)
    BY <1>0, <2>1, <2>2, ComputedRaises
  <2> QED
    BY <2>2, <2>3
<1>5. CASE LoadAndMerge(u)
  <2>1. Asks(call[u]) /\ call[u].op = "put" /\ call[u].stage = "computed"
    BY <1>0, <1>5 DEF LoadAndMerge
  <2>2. disk' = disk /\ call'[u] = Loaded(call[u], Merged(call[u], disk), disk)
    BY <1>0, <1>5 DEF LoadAndMerge, Loaded
  <2>3. Raises(call'[u], disk)
    BY <1>0, <2>1, <2>2, LoadedRaises
  <2> QED
    BY <2>2, <2>3
<1>6. CASE Write(u)
  <2>1. /\ call'[u] = IF call[u].attached THEN Written(call[u]) ELSE Idle
        /\ disk' = IF call[u].dirty THEN call[u].map ELSE disk
        /\ call[u].stage = "loaded"
    BY <1>0, <1>6 DEF Write, Written
  <2>2. /\ Raises(Written(call[u]), call[u].map) /\ (~call[u].dirty => call[u].map = disk)
    BY <1>0, <2>1, WrittenRaises DEF Asks
  <2>3. disk' = call[u].map
    BY <2>1, <2>2
  <2> QED
    BY <2>1, <2>2, <2>3, IdleFields, OutsideRaises
<1>7. CASE call'[u] = Idle
  BY <1>7, IdleFields, OutsideRaises
<1>8. CASE DropFuture(u)
  <2>1. disk' = disk /\ (call'[u] = Dropped(call[u]) \/ call'[u] = Idle)
    BY <1>0, <1>8 DEF DropFuture, Dropped
  <2> QED
    BY <1>0, <1>7, <2>1, DroppedRaises
<1>9. ASSUME NEW t \in Tasks,
             \/ \E op \in Ops, k \in Keys, n \in 0 .. MaxSeq \cup {None} : Begin(t, op, k, n)
             \/ Compute(t) \/ LoadAndMerge(t) \/ Write(t) \/ DropFuture(t)
      PROVE  Raises(call[u], disk)'
  <2>1. CASE t = u
    BY <1>3, <1>4, <1>5, <1>6, <1>8, <1>9, <2>1
  <2>2. CASE t # u
    <3>1. call'[u] = call[u]
      BY <1>0, <1>9, <2>2 DEF Begin, Compute, LoadAndMerge, Write, DropFuture
    <3> QED
      BY <3>1, <1>2
  <2> QED
    BY <2>1, <2>2
<1>10. ASSUME NEW t \in Tasks, LoadFails(t) \/ WriteFails(t) \/ Install(t)
       PROVE  call'[u] = call[u] \/ call'[u] = Idle
  BY <1>0, <1>10 DEF LoadFails, WriteFails, Install
<1>11. ASSUME NEW h \in Handles, Crash(h) \/ Reopen(h)
       PROVE  call'[u] = call[u] \/ call'[u] = Idle
  BY <1>0, <1>11 DEF Crash, Reopen
<1>12. CASE RemoveFile \/ UNCHANGED vars
  BY <1>2, <1>12 DEF RemoveFile, vars
<1> QED
  BY <1>2, <1>7, <1>9, <1>10, <1>11, <1>12 DEF Next, Proceed

(* The inductive invariant: a snapshot knows no more than the file, so its *)
(* candidate exceeds the file at the key of the put alone, and the merged  *)
(* map is the file with that key raised.                                   *)
LEMMA PutsEndOnce == [Next]_vars /\ onlyPuts' => onlyPuts
BY DEF Next, Proceed, Begin, Compute, LoadAndMerge, LoadFails, Write, WriteFails, Install, DropFuture,
       Crash, Reopen, RemoveFile, vars

LEMMA PutInvariant == Spec => []PutInv
<1>1. Init => PutInv
  <2> SUFFICES ASSUME Init PROVE PutInv
    OBVIOUS
  <2>1. SnapshotInv
    BY TypeInit, CoveredInit DEF SnapshotInv
  <2>2. PutsKept
    BY MapValues, EmptyIsLowest
       DEF Init, PutsKept, AckedIsDurable, MemoryNotAheadOfDisk, Empty, None
  <2>3. PutsRaise /\ NoDeletes
    BY IdleFields, OutsideRaises DEF Init, PutsRaise, NoDeletes
  <2> QED
    BY <2>1, <2>2, <2>3 DEF PutInv, PutFacts
<1>2. PutInv /\ [Next]_vars => PutInv'
  <2> SUFFICES ASSUME PutInv, [Next]_vars PROVE PutInv'
    OBVIOUS
  <2>1. SnapshotInv'
    BY TypeStep, CoveredStep DEF PutInv, SnapshotInv
  <2>2. ASSUME onlyPuts' PROVE PutFacts'
    <3>1. PutsOnly /\ PutFacts
      BY <2>2, PutsEndOnce DEF PutsOnly, PutInv
    <3> QED
      BY <2>1, <3>1, KeptStep, RaiseStep, NoDeleteStep DEF PutFacts
  <2> QED
    BY <2>1, <2>2 DEF PutInv
<1> QED
  BY <1>1, <1>2, PTL DEF Spec

(* "No commit is silently lost": until a delete is asked for, or the file  *)
(* removed, it holds whatever a put has confirmed and a handle may answer, *)
(* across failed writes, dropped futures and crashes.                      *)
THEOREM ConfirmedPutsAreKept == Spec => []PutsAreKept
<1>1. PutInv => PutsAreKept
  BY DEF PutInv, PutFacts, PutsAreKept
<1> QED
  BY <1>1, PutInvariant, PTL

(* A write raises one key.                                                 *)
LEMMA StoreStep ==
  ASSUME PutsOnly, PutFacts, [Next]_vars
  PROVE  [Store!Next]_<<disk, onlyPuts>>
<1>1. CASE disk' # disk
  <2> PICK t \in Tasks : call[t].stage = "loaded" /\ disk' = call[t].map
    BY <1>1, FileStep
  <2> DEFINE key == call[t].key
             n   == call[t].map[key]
  <2>1. /\ disk \in Maps /\ call[t] \in Call /\ call[t].map \in Maps /\ key \in Keys
        /\ Raises(call[t], disk)
    BY DEF PutFacts, SnapshotInv, TypeInv, TypeOK, StagesFit, PutsRaise, Call
  <2>2. disk[key] <= n /\ \A k \in Keys \ {key} : call[t].map[k] = disk[k]
    BY DEF Raises, PutFacts, PutsRaise
  <2>3. disk' = [disk EXCEPT ![key] = n]
    BY <2>1, <2>2 DEF Maps
  <2>4. n # disk[key]
    BY <1>1, <2>1, <2>3 DEF Maps
  <2>5. n \in 0 .. MaxSeq /\ n > disk[key]
    BY <2>1, <2>2, <2>4, StoreAssumption DEF Maps, None
  <2> QED
    BY <2>1, <2>3, <2>5 DEF Store!Next, Store!Put, PutsOnly
<1>2. CASE disk' = disk
  BY <1>2 DEF PutsOnly
<1> QED
  BY <1>1, <1>2

(* Until a delete is asked for, or the file removed, it is the monotone    *)
(* store a watch relies on: each step raises the sequence of one key or    *)
(* leaves the file alone.                                                  *)
THEOREM FileIsMonotoneStore == Spec => ImplementsStore
<1>1. Init => Store!Init
  BY DEF Init, Store!Init, Empty, None, Store!None
<1>2. PutInv /\ PutInv' /\ [Next]_vars => [Store!Next]_<<disk, onlyPuts>>
  <2> SUFFICES ASSUME PutInv, PutInv', [Next]_vars PROVE [Store!Next]_<<disk, onlyPuts>>
    OBVIOUS
  <2>1. CASE onlyPuts'
    <3>1. PutsOnly /\ PutFacts
      BY <2>1, PutsEndOnce DEF PutsOnly, PutInv
    <3> QED
      BY <3>1, StoreStep
  <2>2. CASE ~onlyPuts'
    <3>1. onlyPuts' = FALSE
      BY <2>2 DEF PutInv, SnapshotInv, TypeInv, TypeOK
    <3> QED
      BY <3>1 DEF Store!Next
  <2> QED
    BY <2>1, <2>2
<1> QED
  BY <1>1, <1>2, PutInvariant, PTL DEF Spec, ImplementsStore, Store!Spec
=============================================================================
