--------------------------- MODULE WatchPartsProofs ---------------------------
(***************************************************************************)
(* The accounting of WatchTransport for any number of watches and clients. *)
(* A lease points at the slot of its client and a slot counts the leases   *)
(* that point at it; with distinct clients the cap on a slot is the cap on *)
(* its client.                                                             *)
(*                                                                         *)
(* Then the triggers of a notification, for any list of triggers, any      *)
(* number of notifications and whatever commands, servers and files do,    *)
(* of TriggerDispatch as MCWatchParts instantiates it.                     *)
(***************************************************************************)
EXTENDS MCWatchParts, FiniteSetTheorems, SequenceTheorems, TLAPS

SlotsWithinCap == \A i \in 1 .. Len(slots) : slots[i].active <= PerConnection

TransportInv ==
  /\ TypeOK
  /\ LeaseFindsItsSlot
  /\ ActiveCountsLeases
  /\ ClientsDistinct
  /\ SlotsWithinCap

-----------------------------------------------------------------------------

LEMMA HoldersFinite ==
  \A i : IsFiniteSet(Holders(i)) /\ Cardinality(Holders(i)) \in Nat
BY TransportAssumption, FS_Subset, FS_CardinalityType DEF Holders

LEMMA SlotType ==
  ASSUME TypeOK, NEW i \in 1 .. Len(slots)
  PROVE  /\ slots[i] \in Slot
         /\ slots[i].http \in Clients /\ slots[i].active \in Nat
<1>1. slots[i] \in Slot
  BY ElementOfSeq DEF TypeOK
<1>2. QED
  BY <1>1 DEF Slot

(* Changing the count of a slot changes nothing else.                      *)
LEMMA CountChanged ==
  ASSUME TypeOK, NEW i \in 1 .. Len(slots), NEW m \in Nat
  PROVE  LET changed == [slots EXCEPT ![i].active = m]
         IN  /\ Len(changed) = Len(slots)
             /\ \A j \in 1 .. Len(slots) :
                  changed[j] = [http   |-> slots[j].http,
                                active |-> IF j = i THEN m ELSE slots[j].active]
             /\ changed \in Seq(Slot)
<1> DEFINE e == [http |-> slots[i].http, active |-> m]
<1>1. slots \in Seq(Slot) /\ \A j \in 1 .. Len(slots) : slots[j] \in Slot
  BY ElementOfSeq DEF TypeOK
<1>2. e \in Slot /\ [slots[i] EXCEPT !.active = m] = e
  BY <1>1 DEF Slot
<1>3. [slots EXCEPT ![i].active = m] = [slots EXCEPT ![i] = e]
  BY <1>2
<1>4. \A j \in 1 .. Len(slots) : slots[j] = [http |-> slots[j].http, active |-> slots[j].active]
  BY <1>1 DEF Slot
<1>5. QED
  BY <1>1, <1>2, <1>3, <1>4, ExceptSeq

LEMMA TransportInit == Init => TransportInv
<1> SUFFICES ASSUME Init PROVE TransportInv
  OBVIOUS
<1>1. PICK c \in Clients : slots = <<[http |-> c, active |-> 0]>>
                           /\ http = [w \in Watches |-> c]
  BY DEF Init
<1>2. Len(slots) = 1 /\ slots[1] = [http |-> c, active |-> 0] /\ slots \in Seq(Slot)
  BY <1>1 DEF Slot
<1>3. Holders(1) = {}
  BY DEF Init, Holders
<1>4. TypeOK
  BY <1>1, <1>2 DEF Init, TypeOK
<1>5. LeaseFindsItsSlot
  BY DEF Init, LeaseFindsItsSlot
<1>6. \A i \in 1 .. Len(slots) : i = 1 /\ slots[i].active = 0
  BY <1>2
<1>7. ActiveCountsLeases
  BY <1>3, <1>6, FS_EmptySet DEF ActiveCountsLeases
<1>8. ClientsDistinct /\ SlotsWithinCap
  BY <1>6, TransportAssumption DEF ClientsDistinct, SlotsWithinCap
<1>9. QED
  BY <1>4, <1>5, <1>7, <1>8 DEF TransportInv

(* A watch that had no lease takes the first slot with room.               *)
LEMMA LeaseKeeps ==
  ASSUME TransportInv, NEW w \in Watches, stage[w] # "leased", LeaseFirstFree(w)
  PROVE  TransportInv'
<1> USE DEF TransportInv, TypeOK
<1>1. PICK i \in 1 .. Len(slots) :
        /\ IsFree(i)
        /\ slots' = [slots EXCEPT ![i].active = @ + 1]
        /\ stage' = [stage EXCEPT ![w] = "leased"]
        /\ index' = [index EXCEPT ![w] = i]
        /\ http'  = [http EXCEPT ![w] = slots[i].http]
  BY DEF LeaseFirstFree, FirstFree, Claim
<1>2. /\ Len(slots') = Len(slots)
      /\ \A j \in 1 .. Len(slots) :
           slots'[j] = [http   |-> slots[j].http,
                        active |-> IF j = i THEN slots[j].active + 1 ELSE slots[j].active]
      /\ slots' \in Seq(Slot)
  <2> DEFINE m == slots[i].active + 1
  <2>1. m \in Nat
    BY SlotType
  <2>2. slots' = [slots EXCEPT ![i].active = m]
    BY <1>1
  <2> HIDE DEF m
  <2>3. /\ Len(slots') = Len(slots)
        /\ \A j \in 1 .. Len(slots) :
             slots'[j] = [http   |-> slots[j].http,
                          active |-> IF j = i THEN m ELSE slots[j].active]
        /\ slots' \in Seq(Slot)
    BY <2>1, <2>2, CountChanged
  <2>4. QED
    BY <2>3 DEF m
<1>3. TypeOK'
  BY <1>1, <1>2 DEF Slot
<1>4. LeaseFindsItsSlot'
  BY <1>1, <1>2 DEF LeaseFindsItsSlot
<1>5. Holders(i)' = Holders(i) \cup {w} /\ w \notin Holders(i)
  BY <1>1 DEF Holders
<1>6. \A j \in 1 .. Len(slots) : j # i => Holders(j)' = Holders(j)
  BY <1>1 DEF Holders
<1>7. ActiveCountsLeases'
  <2>1. Cardinality(Holders(i)') = Cardinality(Holders(i)) + 1
    BY <1>5, HoldersFinite, FS_AddElement
  <2>2. QED
    BY <1>1, <1>2, <1>6, <2>1 DEF ActiveCountsLeases
<1>8. ClientsDistinct' /\ SlotsWithinCap'
  BY <1>1, <1>2, TransportAssumption DEF ClientsDistinct, SlotsWithinCap, IsFree, Slot
<1>9. QED
  BY <1>3, <1>4, <1>7, <1>8

(* A new client gets a slot of its own, at the end.                        *)
LEMMA AddKeeps ==
  ASSUME TransportInv, NEW w \in Watches, NEW c \in Clients, AddClient(w, c)
  PROVE  TransportInv'
<1> USE DEF TransportInv, TypeOK
<1>a. PICK n \in Nat : n = Len(slots)
  OBVIOUS
<1>1. /\ stage[w] = "building" /\ IsFresh(c)
      /\ slots' = Append(slots, [http |-> c, active |-> 1])
      /\ stage' = [stage EXCEPT ![w] = "leased"]
      /\ index' = [index EXCEPT ![w] = n + 1]
      /\ http'  = [http EXCEPT ![w] = c]
  BY <1>a DEF AddClient, Claim
<1>2. /\ Len(slots') = n + 1
      /\ slots'[n + 1] = [http |-> c, active |-> 1]
      /\ \A j \in 1 .. n : slots'[j] = slots[j]
      /\ slots' \in Seq(Slot)
  BY <1>a, <1>1 DEF Slot
<1>3. TypeOK'
  BY <1>a, <1>1, <1>2
<1>4. LeaseFindsItsSlot'
  BY <1>a, <1>1, <1>2 DEF LeaseFindsItsSlot
<1>5. \A j : j = n + 1 => Holders(j)' = {w}
  <2>1. ASSUME NEW v \in Watches, v # w, stage[v] = "leased" PROVE index[v] # n + 1
    BY <1>a, <2>1 DEF LeaseFindsItsSlot
  <2>2. \A v \in Watches : stage'[v] = "leased" /\ index'[v] = n + 1 <=> v = w
    BY <1>1, <2>1
  <2>3. QED
    BY <2>2 DEF Holders
<1>6. \A j \in 1 .. n : Holders(j)' = Holders(j)
  BY <1>a, <1>1 DEF Holders
<1>7. ActiveCountsLeases'
  <2> SUFFICES ASSUME NEW j \in 1 .. n + 1
               PROVE  slots'[j].active = Cardinality(Holders(j)')
    BY <1>2 DEF ActiveCountsLeases
  <2>1. CASE j = n + 1
    <3>1. Holders(j)' = {w}
      BY <1>5, <2>1
    <3>2. Cardinality(Holders(j)') = 1
      BY <3>1, FS_Singleton
    <3>3. slots'[j].active = 1
      BY <1>2, <2>1
    <3>4. QED
      BY <3>2, <3>3
  <2>2. CASE j \in 1 .. n
    BY <1>a, <1>2, <1>6, <2>2 DEF ActiveCountsLeases
  <2>3. QED
    BY <2>1, <2>2
<1>8. ClientsDistinct'
  BY <1>a, <1>1, <1>2 DEF ClientsDistinct, IsFresh
<1>9. SlotsWithinCap'
  BY <1>a, <1>2, TransportAssumption DEF SlotsWithinCap
<1>10. QED
  BY <1>3, <1>4, <1>7, <1>8, <1>9

(* A released lease is counted off, and only slots nobody points at go.    *)
LEMMA ReleaseKeeps ==
  ASSUME TransportInv, NEW w \in Watches, Release(w)
  PROVE  TransportInv'
<1> USE DEF TransportInv, TypeOK
<1>1. /\ stage[w] = "leased" /\ stage' = [stage EXCEPT ![w] = "idle"]
      /\ UNCHANGED <<index, http>>
  BY DEF Release
<1>2. PICK k \in 1 .. Len(slots) : k = index[w]
  BY <1>1 DEF LeaseFindsItsSlot
<1>3. PICK c \in Nat : c = slots[k].active /\ c = Cardinality(Holders(k))
  BY SlotType DEF ActiveCountsLeases
<1>4. w \in Holders(k) /\ c > 0
  <2>1. w \in Holders(k)
    BY <1>1, <1>2 DEF Holders
  <2>2. Cardinality(Holders(k)) # 0
    BY <2>1, HoldersFinite, FS_EmptySet
  <2>3. QED
    BY <1>3, <2>1, <2>2
<1>5. PICK left \in Seq(Slot) :
        /\ left = [slots EXCEPT ![k].active = c - 1]
        /\ Len(left) = Len(slots)
        /\ \A j \in 1 .. Len(slots) :
             left[j] = [http   |-> slots[j].http,
                        active |-> IF j = k THEN c - 1 ELSE slots[j].active]
  <2> DEFINE m == c - 1
  <2>1. m \in Nat
    BY <1>4
  <2> HIDE DEF m
  <2>2. /\ [slots EXCEPT ![k].active = m] \in Seq(Slot)
        /\ Len([slots EXCEPT ![k].active = m]) = Len(slots)
        /\ \A j \in 1 .. Len(slots) :
             [slots EXCEPT ![k].active = m][j] =
               [http |-> slots[j].http, active |-> IF j = k THEN m ELSE slots[j].active]
    BY <2>1, CountChanged
  <2>3. QED
    BY <2>2 DEF m
<1>6. left = [slots EXCEPT ![index[w]].active = IF @ > 0 THEN @ - 1 ELSE 0]
  BY <1>2, <1>3, <1>4, <1>5
<1>7. PICK n \in 1 .. Len(slots) :
        /\ slots' = SubSeq(left, 1, n)
        /\ \A j \in n + 1 .. Len(slots) : left[j].active = 0
  <2>1. PICK n \in Kept(left) : slots' = SubSeq(left, 1, n)
    BY <1>6 DEF Release
  <2>2. Len(left) = Len(slots)
    BY <1>5
  <2>3. n \in 1 .. Len(slots) /\ \A j \in n + 1 .. Len(slots) : left[j].active = 0
    BY <2>2 DEF Kept
  <2>4. QED
    BY <2>1, <2>3
<1>8. /\ Len(slots') = n
      /\ \A j \in 1 .. n : slots'[j] = left[j]
      /\ slots' \in Seq(Slot)
  <2>1. \A j \in 1 .. n : left[j] \in Slot
    BY <1>5, <1>7, ElementOfSeq
  <2>2. Len(left) = Len(slots) /\ n \in 1 .. Len(left)
    BY <1>5, <1>7
  <2>3. /\ Len(SubSeq(left, 1, n)) = n
        /\ \A j \in 1 .. n : SubSeq(left, 1, n)[j] = left[j]
    BY <2>2
  <2>4. SubSeq(left, 1, n) \in Seq(Slot)
    BY <2>1, <2>2, SubSeqProperties
  <2>5. QED
    BY <1>7, <2>3, <2>4
<1>9. \A j \in 1 .. Len(slots) :
        /\ left[j].http = slots[j].http
        /\ j # k => left[j].active = slots[j].active
        /\ j = k => left[j].active = c - 1
  BY <1>5
<1>10. TypeOK'
  BY <1>1, <1>7, <1>8
<1>11. Holders(k)' = Holders(k) \ {w}
  BY <1>1 DEF Holders
<1>12. \A j : j # k => Holders(j)' = Holders(j)
  BY <1>1, <1>2 DEF Holders
<1>13. Cardinality(Holders(k)') = c - 1
  BY <1>3, <1>4, <1>11, HoldersFinite, FS_RemoveElement
<1>14. ASSUME NEW j \in 1 .. Len(slots) PROVE left[j].active = Cardinality(Holders(j)')
  <2>1. CASE j = k
    <3>1. Holders(j)' = Holders(k) \ {w}
      BY <1>1, <2>1 DEF Holders
    <3>2. Cardinality(Holders(j)') = c - 1
      BY <1>3, <1>4, <3>1, HoldersFinite, FS_RemoveElement
    <3>3. QED
      BY <1>9, <2>1, <3>2
  <2>2. CASE j # k
    <3>1. Holders(j)' = Holders(j) /\ left[j].active = slots[j].active
      BY <1>9, <1>12, <2>2
    <3>2. slots[j].active = Cardinality(Holders(j))
      BY DEF ActiveCountsLeases
    <3>3. QED
      BY <3>1, <3>2
  <2>3. QED
    BY <2>1, <2>2
<1>15. ActiveCountsLeases'
  <2> SUFFICES ASSUME NEW j \in 1 .. n PROVE slots'[j].active = Cardinality(Holders(j)')
    BY <1>8 DEF ActiveCountsLeases
  <2>1. j \in 1 .. Len(slots) /\ slots'[j] = left[j]
    BY <1>7, <1>8
  <2>2. QED
    BY <1>14, <2>1
<1>16. LeaseFindsItsSlot'
  <2> SUFFICES ASSUME NEW v \in Watches, stage'[v] = "leased"
               PROVE  index[v] \in 1 .. n /\ slots'[index[v]].http = http[v]
    BY <1>1, <1>8 DEF LeaseFindsItsSlot
  <2>1. PICK j \in 1 .. Len(slots) : j = index[v] /\ slots[j].http = http[v]
    BY <1>1 DEF LeaseFindsItsSlot
  <2>2. v \in Holders(j)' /\ IsFiniteSet(Holders(j)')
    BY <1>1, <2>1, TransportAssumption, FS_Subset DEF Holders
  <2>3. Cardinality(Holders(j)') # 0
    BY <2>2, FS_EmptySet
  <2>4. left[j].active # 0
    BY <1>14, <2>3
  <2>5. j \in 1 .. n
    BY <1>7, <2>4
  <2>6. slots'[j].http = slots[j].http
    BY <1>8, <1>9, <2>5
  <2>7. QED
    BY <2>1, <2>5, <2>6
<1>17. \A j \in 1 .. n :
         /\ j \in 1 .. Len(slots) /\ slots'[j].http = slots[j].http
         /\ slots'[j].active <= slots[j].active
  <2> SUFFICES ASSUME NEW j \in 1 .. n
               PROVE  /\ j \in 1 .. Len(slots) /\ slots'[j].http = slots[j].http
                      /\ slots'[j].active <= slots[j].active
    OBVIOUS
  <2>1. j \in 1 .. Len(slots) /\ slots[j].active \in Nat
    BY <1>7, SlotType
  <2>2. slots'[j].http = slots[j].http
    BY <1>8, <1>9, <2>1
  <2>3. CASE j = k
    <3>1. slots'[j].active = c - 1 /\ slots[j].active = c
      BY <1>3, <1>8, <1>9, <2>1, <2>3
    <3>2. QED
      BY <2>1, <2>2, <3>1
  <2>4. CASE j # k
    <3>1. slots'[j].active = slots[j].active
      BY <1>8, <1>9, <2>1, <2>4
    <3>2. QED
      BY <2>1, <2>2, <3>1
  <2>5. QED
    BY <2>3, <2>4
<1>18. ClientsDistinct'
  BY <1>8, <1>17 DEF ClientsDistinct
<1>19. SlotsWithinCap'
  <2> SUFFICES ASSUME NEW j \in 1 .. n PROVE slots'[j].active <= PerConnection
    BY <1>8 DEF SlotsWithinCap
  <2>1. slots[j].active \in Nat /\ slots[j].active <= PerConnection
    BY <1>17, SlotType DEF SlotsWithinCap
  <2>2. slots'[j] \in Slot
    BY <1>8, ElementOfSeq
  <2>3. QED
    BY <1>17, <2>1, <2>2, TransportAssumption DEF Slot
<1>20. QED
  BY <1>10, <1>15, <1>16, <1>18, <1>19

LEMMA TransportStep == TransportInv /\ [Next]_vars => TransportInv'
<1> SUFFICES ASSUME TransportInv, [Next]_vars PROVE TransportInv'
  OBVIOUS
<1>1. ASSUME NEW w \in Watches, Acquire(w) \/ UseRoomFound(w) PROVE TransportInv'
  BY <1>1, LeaseKeeps DEF Acquire, UseRoomFound
<1>2. ASSUME NEW w \in Watches, StartBuild(w) \/ BuildFails(w) PROVE TransportInv'
  <2>1. /\ \A v \in Watches : stage'[v] = "leased" <=> stage[v] = "leased"
        /\ stage' \in [Watches -> {"idle", "building", "leased"}]
        /\ UNCHANGED <<slots, index, http>>
    BY <1>2 DEF StartBuild, BuildFails, TransportInv, TypeOK
  <2>2. \A i : Holders(i)' = Holders(i)
    BY <2>1 DEF Holders
  <2>3. QED
    BY <2>1, <2>2
       DEF TransportInv, TypeOK, LeaseFindsItsSlot, ActiveCountsLeases, ClientsDistinct,
           SlotsWithinCap
<1>3. ASSUME NEW w \in Watches, Release(w) PROVE TransportInv'
  BY <1>3, ReleaseKeeps
<1>4. ASSUME NEW w \in Watches, NEW c \in Clients, AddClient(w, c) PROVE TransportInv'
  BY <1>4, AddKeeps
<1>5. CASE UNCHANGED vars
  BY <1>5
     DEF vars, TransportInv, TypeOK, LeaseFindsItsSlot, ActiveCountsLeases,
         ClientsDistinct, SlotsWithinCap, Holders
<1>6. QED
  BY <1>1, <1>2, <1>3, <1>4, <1>5 DEF Next

LEMMA TransportAlways == Spec => []TransportInv
BY TransportInit, TransportStep, PTL DEF Spec

(* A live lease always finds the slot of its client, whatever is added and *)
(* released around it (Lease::drop).                                       *)
THEOREM LeasesStayValid == Spec => []LeaseFindsItsSlot
<1>1. TransportInv => LeaseFindsItsSlot
  BY DEF TransportInv
<1>2. QED
  BY <1>1, TransportAlways, PTL

(* No client carries more than PerConnection watches (module documentation *)
(* of watch_transport.rs, "the cap holds across them").                    *)
THEOREM CapAlwaysHolds == Spec => []CapHolds
<1>1. ASSUME TransportInv, NEW c \in Clients
      PROVE  Cardinality({w \in Watches : stage[w] = "leased" /\ http[w] = c})
               <= PerConnection
  <2> DEFINE S == {w \in Watches : stage[w] = "leased" /\ http[w] = c}
  <2>1. CASE S = {}
    BY <2>1, FS_EmptySet, TransportAssumption
  <2>2. CASE S # {}
    <3>1. PICK v \in S : TRUE
      BY <2>2
    <3>2. index[v] \in 1 .. Len(slots) /\ slots[index[v]].http = c
      BY <1>1 DEF TransportInv, LeaseFindsItsSlot
    <3>3. S \subseteq Holders(index[v])
      BY <1>1, <3>2 DEF TransportInv, LeaseFindsItsSlot, ClientsDistinct, Holders
    <3>4. Cardinality(S) <= Cardinality(Holders(index[v])) /\ Cardinality(S) \in Nat
      BY <3>3, HoldersFinite, FS_Subset, FS_CardinalityType
    <3>5. Cardinality(Holders(index[v])) <= PerConnection
      BY <1>1, <3>2 DEF TransportInv, ActiveCountsLeases, SlotsWithinCap
    <3>6. QED
      BY <3>4, <3>5, HoldersFinite, TransportAssumption
  <2>3. QED
    BY <2>1, <2>2
<1>2. TransportInv => CapHolds
  BY <1>1 DEF CapHolds
<1>3. QED
  BY <1>2, TransportAlways, PTL

-----------------------------------------------------------------------------
(* The dispatcher.                                                         *)

Stages == {"between", "begin", "child", "reap", "drain", "send", "body", "flush", "sleep",
           "ended"}
Places == 1 .. Len(triggers)
Lines  == Places \X Nat \X BOOLEAN

DispatchType ==
  /\ triggers \in TriggerLists /\ note \in Nat
  /\ current \in Places /\ attempt \in Nat /\ pc \in Stages
  /\ outcome \in {"running", "ok", "cancelled", "requiredFailed"}
  /\ made \in [Places -> Nat] /\ won \subseteq Places
  /\ file \in Seq(Lines)

(* Only an attempt of the right kind is at a stage of its own.             *)
StageFits ==
  /\ pc \in {"child", "reap", "drain"} => Triggers!T.kind = "command"
  /\ pc \in {"send", "body"} => Triggers!T.kind \in Triggers!HttpKinds
  /\ pc = "flush" => Triggers!T.kind = "log"

(* The attempts that have ended are those the loop has counted, and the    *)
(* budget is not passed.                                                   *)
AttemptsCounted ==
  /\ outcome = "running" <=> pc # "ended"
  /\ outcome = "running" =>
       /\ current \notin won
       /\ attempt <= Triggers!T.retries
       /\ pc # "sleep" => made[current] = attempt
       /\ pc = "sleep" => made[current] = attempt + 1 /\ attempt < Triggers!T.retries
       /\ pc = "between" => attempt = 0

(* A trigger the dispatch has gone past.                                   *)
Earned(i) ==
  /\ i \in won \/ (~triggers[i].required /\ made[i] > 0)
  /\ ~triggers[i].failFast => i \in won \/ made[i] = triggers[i].retries + 1

LineWritten(i) == triggers[i].kind = "log" => Triggers!Contains(file, <<i, note, TRUE>>)

Progress ==
  /\ \A i \in Places :
       /\ i > current => made[i] = 0 /\ i \notin won
       /\ i \in won => made[i] > 0 /\ LineWritten(i)
       /\ i < current \/ outcome = "ok" => Earned(i)
  /\ outcome = "requiredFailed" =>
       /\ Triggers!T.required /\ current \notin won
       /\ \/ Triggers!Hopeless(Triggers!T, lastError)
          \/ made[current] = Triggers!T.retries + 1
  /\ outcome = "cancelled" => cancels # {}

DispatchInv == DispatchType /\ StageFits /\ AttemptsCounted /\ Progress

(* The child, while the dispatcher waits for it.                           *)
ChildInv ==
  /\ pc = "child" => child \in {"running", "exited"}
  /\ pc = "reap"  => child \in {"killed", "running", "exited"}
  /\ pc = "drain" => child = "reaped"
  /\ Triggers!NothingLeftRunning

-----------------------------------------------------------------------------
(* What is known of a trigger, and of the files.                           *)

LEMMA TriggerFields ==
  ASSUME DispatchType, NEW i \in Places
  PROVE  /\ triggers[i].kind \in Triggers!Kinds /\ triggers[i].retries \in Nat
         /\ triggers[i].required \in BOOLEAN /\ triggers[i].failFast \in BOOLEAN
         /\ triggers[i].timed \in BOOLEAN
<1>1. triggers \in Seq(Triggers!TriggerType)
  BY TriggerListsAssumption DEF DispatchType
<1>2. triggers[i] \in Triggers!TriggerType
  BY <1>1 DEF Places
<1> QED
  BY <1>2 DEF Triggers!TriggerType

(* A file only grows, by whole lines or by parts.                          *)
FileGrows ==
  /\ file' \in Seq(Lines)
  /\ \A line \in Lines : Triggers!Contains(file, line) => Triggers!Contains(file', line)

LEMMA AppendGrows ==
  ASSUME DispatchType, NEW whole \in BOOLEAN, file' = Triggers!Appended(whole)
  PROVE  FileGrows /\ Triggers!Contains(file', <<current, note, whole>>)
<1> DEFINE line == <<current, note, whole>>
<1>1. line \in Lines /\ file \in Seq(Lines) /\ file' = Append(file, line)
  BY DEF DispatchType, Lines, Triggers!Appended
<1> HIDE DEF line
<1>2. /\ file' \in Seq(Lines) /\ Len(file') = Len(file) + 1 /\ file'[Len(file) + 1] = line
      /\ \A i \in 1 .. Len(file) : file'[i] = file[i]
  BY <1>1
<1>3. Len(file) + 1 \in 1 .. Len(file') /\ \A i \in 1 .. Len(file) : i \in 1 .. Len(file')
  BY <1>1, <1>2
<1>4. Triggers!Contains(file', line)
  BY <1>2, <1>3 DEF Triggers!Contains
<1>5. \A x \in Lines : Triggers!Contains(file, x) => Triggers!Contains(file', x)
  BY <1>2, <1>3 DEF Triggers!Contains
<1> QED
  BY <1>2, <1>4, <1>5 DEF FileGrows, line

LEMMA SameFile ==
  ASSUME DispatchType, file' = file
  PROVE  FileGrows
BY DEF DispatchType, FileGrows, Triggers!Contains

-----------------------------------------------------------------------------
(* The end of an attempt.                                                  *)

(* What every attempt that ends does: it is counted.                       *)
AttemptEnds ==
  /\ outcome = "running" /\ pc # "sleep"
  /\ made' = [made EXCEPT ![current] = @ + 1]
  /\ FileGrows
  /\ UNCHANGED <<triggers, note, cancels>>

LEMMA CountAfter ==
  ASSUME DispatchInv, AttemptEnds
  PROVE  /\ made' \in [Places -> Nat]
         /\ made'[current] = attempt + 1
         /\ \A i \in Places \ {current} : made'[i] = made[i]
BY DEF AttemptEnds, DispatchInv, DispatchType, AttemptsCounted, Places

LEMMA LinesKept ==
  ASSUME DispatchInv, AttemptEnds, NEW i \in Places, LineWritten(i)
  PROVE  LineWritten(i)'
BY DEF LineWritten, AttemptEnds, FileGrows, DispatchInv, DispatchType, Lines, Places

(* The loop goes on to the next trigger, or returns Ok.                    *)
LEMMA GoesOn ==
  ASSUME DispatchInv, AttemptEnds, Triggers!Advance, NEW c, c = current,
         won' = won \/ (won' = won \cup {c} /\ LineWritten(c)'),
         Earned(c)'
  PROVE  DispatchInv'
<1> USE DEF DispatchInv
<1>1. /\ current \in Places /\ attempt \in Nat /\ Places' = Places /\ Len(triggers) \in Nat
      /\ made' \in [Places -> Nat] /\ made'[current] = attempt + 1
      /\ \A i \in Places \ {current} : made'[i] = made[i]
  BY CountAfter, TriggerListsAssumption DEF DispatchType, AttemptEnds, Places
<1>2. /\ Lines' = Lines
      /\ UNCHANGED <<triggers, note, cancels>>
  BY <1>1 DEF Lines, AttemptEnds
<1>3. \/ /\ current = Len(triggers) /\ current' = current /\ attempt' = attempt
         /\ pc' = "ended" /\ outcome' = "ok"
      \/ /\ current # Len(triggers) /\ current' = current + 1 /\ attempt' = 0
         /\ pc' = "between" /\ outcome' = "running"
  BY DEF Triggers!Advance, AttemptEnds
<1>4. current' \in Places /\ current <= current' /\ (current' # current => current' = current + 1)
  BY <1>1, <1>3 DEF Places
<1>5. DispatchType'
  BY <1>1, <1>2, <1>3, <1>4 DEF DispatchType, AttemptEnds, FileGrows, Stages
<1>6. StageFits'
  BY <1>3 DEF StageFits
<1>7. ASSUME NEW i \in Places, i # current
      PROVE  /\ i \in won' <=> i \in won
             /\ made'[i] = made[i]
             /\ LineWritten(i) => LineWritten(i)'
             /\ Earned(i) => Earned(i)'
  <2>1. (i \in won' <=> i \in won) /\ made'[i] = made[i]
    BY <1>1, <1>7
  <2>2. LineWritten(i) => LineWritten(i)'
    BY LinesKept
  <2>3. Earned(i) => Earned(i)'
    BY <1>2, <2>1 DEF Earned
  <2> QED
    BY <2>1, <2>2, <2>3
<1>8. \A i \in Places : i < current \/ i = current \/ i > current
  BY <1>1 DEF Places
<1>9. \A i \in Places : (i > current' => i > current) /\ (i < current' => i < current \/ i = current)
  BY <1>1, <1>4 DEF Places
<1>10. c \in won' => LineWritten(c)' /\ made'[c] > 0
  <2>1. current \notin won
    BY DEF AttemptEnds, AttemptsCounted
  <2> QED
    BY <1>1, <2>1
<1>11. ASSUME NEW i \in Places
       PROVE  /\ i > current' => made'[i] = 0 /\ i \notin won'
              /\ i \in won' => made'[i] > 0 /\ LineWritten(i)'
              /\ i < current' \/ outcome' = "ok" => Earned(i)'
  <2>1. CASE i = c
    <3>1. ~(i > current')
      BY <1>1, <1>4, <2>1
    <3> QED
      BY <1>10, <2>1, <3>1
  <2>2. CASE i # c
    <3>1. i > current => made[i] = 0 /\ i \notin won
      BY DEF Progress
    <3>2. i \in won => made[i] > 0 /\ LineWritten(i)
      BY DEF Progress
    <3>3. i < current => Earned(i)
      BY DEF Progress
    <3>4. outcome' = "ok" => i < current
      BY <1>3, <1>1, <2>2 DEF Places
    <3> QED
      BY <1>7, <1>9, <2>2, <3>1, <3>2, <3>3, <3>4
  <2> QED
    BY <2>1, <2>2
<1>12. Progress'
  BY <1>1, <1>3, <1>11 DEF Progress
<1>13. AttemptsCounted'
  <2>1. CASE outcome' = "ok"
    BY <1>3, <2>1 DEF AttemptsCounted
  <2>2. CASE outcome' = "running"
    <3>1. current' = current + 1 /\ attempt' = 0 /\ pc' = "between"
      BY <1>3, <2>2
    <3>2. current' > current /\ current' # current
      BY <1>1, <3>1 DEF Places
    <3>3. made[current'] = 0 /\ current' \notin won
      BY <1>4, <3>2 DEF Progress
    <3>4. made'[current'] = 0 /\ current' \notin won'
      BY <1>4, <1>7, <3>2, <3>3
    <3>5. triggers'[current'].retries \in Nat
      BY <1>2, <1>4, TriggerFields
    <3> QED
      BY <2>2, <3>1, <3>4, <3>5 DEF AttemptsCounted, Triggers!T
  <2> QED
    BY <1>3, <2>1, <2>2
<1> QED
  BY <1>5, <1>6, <1>12, <1>13

(* An attempt that succeeds.                                               *)
LEMMA SuccessKeeps ==
  ASSUME DispatchInv, outcome = "running", pc # "sleep", Triggers!Succeeds, FileGrows,
         Triggers!T.kind = "log" => Triggers!Contains(file', <<current, note, TRUE>>)
  PROVE  DispatchInv'
<1>1. AttemptEnds /\ won' = won \cup {current} /\ Triggers!Advance
  BY DEF Triggers!Succeeds, AttemptEnds
<1>2. ASSUME NEW c, c = current PROVE LineWritten(c)' /\ Earned(c)'
  <2>1. c \in won' /\ UNCHANGED <<triggers, note>>
    BY <1>1, <1>2 DEF AttemptEnds
  <2>2. LineWritten(c)'
    BY <1>2, <2>1 DEF LineWritten, Triggers!T
  <2>3. Earned(c)'
    BY <2>1 DEF Earned
  <2> QED
    BY <2>2, <2>3
<1> QED
  BY <1>1, <1>2, GoesOn

(* An attempt that fails: given up when no other one can mend it or the    *)
(* budget is used up, else tried again.                                    *)
LEMMA FailureKeeps ==
  ASSUME DispatchInv, outcome = "running", pc # "sleep", NEW e, Triggers!FailsWith(e), FileGrows
  PROVE  DispatchInv'
<1> USE DEF DispatchInv
<1>1. AttemptEnds /\ won' = won /\ lastError' = e
  BY DEF Triggers!FailsWith, AttemptEnds
<1>2. /\ current \in Places /\ attempt \in Nat /\ Places' = Places /\ Lines' = Lines
      /\ made' \in [Places -> Nat] /\ made'[current] = attempt + 1
      /\ \A i \in Places \ {current} : made'[i] = made[i]
      /\ UNCHANGED <<triggers, note, cancels>>
  BY <1>1, CountAfter DEF DispatchType, AttemptEnds, Places, Lines
<1>3. /\ triggers[current].retries \in Nat /\ triggers[current].failFast \in BOOLEAN
      /\ attempt <= triggers[current].retries /\ current \notin won
  BY <1>2, TriggerFields DEF AttemptsCounted, Triggers!T
<1> DEFINE last == Triggers!IsTerminalError(Triggers!T, e) \/ Triggers!IsExhausted(Triggers!T)
<1>4. last => \/ Triggers!Hopeless(Triggers!T, e)
              \/ made'[current] = triggers[current].retries + 1
  BY <1>2, <1>3 DEF Triggers!IsTerminalError, Triggers!IsExhausted, Triggers!Hopeless, Triggers!T
<1>5. ~last => attempt < triggers[current].retries
  BY <1>2, <1>3 DEF Triggers!IsExhausted, Triggers!T
<1>6. IF last THEN Triggers!GiveUp ELSE Triggers!Backoff
  BY DEF Triggers!FailsWith
<1> HIDE DEF last
<1>7. ASSUME NEW i \in Places, i # current
      PROVE  /\ made'[i] = made[i]
             /\ LineWritten(i) => LineWritten(i)'
             /\ Earned(i) => Earned(i)'
  <2>1. made'[i] = made[i]
    BY <1>2, <1>7
  <2>2. LineWritten(i) => LineWritten(i)'
    BY <1>1, LinesKept
  <2>3. Earned(i) => Earned(i)'
    BY <1>1, <1>2, <2>1 DEF Earned
  <2> QED
    BY <2>1, <2>2, <2>3
<1>8. CASE last /\ ~Triggers!T.required
  <2>1. Triggers!Advance
    BY <1>6, <1>8 DEF Triggers!GiveUp
  <2>2. ASSUME NEW c, c = current PROVE Earned(c)'
    <3>1. triggers[c].failFast \/ made'[c] = triggers[c].retries + 1
      BY <1>4, <1>8, <2>2 DEF Triggers!Hopeless, Triggers!T
    <3>2. made'[c] > 0 /\ ~triggers[c].required
      BY <1>2, <1>8, <2>2 DEF Triggers!T
    <3> QED
      BY <1>2, <3>1, <3>2 DEF Earned
  <2> QED
    BY <1>1, <2>1, <2>2, GoesOn
<1>9. CASE ~(last /\ ~Triggers!T.required)
  <2>1. /\ UNCHANGED <<current, attempt>>
        /\ \/ last /\ Triggers!T.required /\ pc' = "ended" /\ outcome' = "requiredFailed"
           \/ ~last /\ pc' = "sleep" /\ outcome' = "running"
    BY <1>6, <1>9 DEF Triggers!GiveUp, Triggers!Backoff
  <2>2. Triggers!T' = Triggers!T
    BY <1>2, <2>1 DEF Triggers!T
  <2>3. DispatchType'
    BY <1>1, <1>2, <2>1 DEF DispatchType, AttemptEnds, FileGrows, Stages
  <2>4. StageFits'
    BY <2>1 DEF StageFits
  <2>5. AttemptsCounted'
    BY <1>1, <1>2, <1>3, <1>5, <2>1, <2>2 DEF AttemptsCounted, Triggers!T
  <2>6. ASSUME NEW i \in Places
        PROVE  /\ i > current' => made'[i] = 0 /\ i \notin won'
               /\ i \in won' => made'[i] > 0 /\ LineWritten(i)'
               /\ i < current' \/ outcome' = "ok" => Earned(i)'
    <3>1. CASE i = current
      <4>1. ~(i > current') /\ ~(i < current')
        BY <1>2, <2>1, <3>1 DEF Places
      <4> QED
        BY <1>1, <1>3, <2>1, <3>1, <4>1
    <3>2. CASE i # current
      BY <1>1, <1>7, <2>1, <3>2 DEF Progress
    <3> QED
      BY <3>1, <3>2
  <2>7. Progress'
    BY <1>1, <1>2, <1>3, <1>4, <2>1, <2>2, <2>6 DEF Progress, Triggers!T
  <2> QED
    BY <2>3, <2>4, <2>5, <2>7
<1> QED
  BY <1>8, <1>9

-----------------------------------------------------------------------------
(* The steps between the ends of attempts.                                 *)

(* What no step but the end of an attempt and the next notification        *)
(* changes.                                                                *)
progress == <<triggers, note, current, made, won, file>>

LEMMA ContinueKeeps ==
  ASSUME DispatchInv, NEW to \in Stages \ {"between", "sleep", "ended"}, Triggers!Continue(to),
         pc \notin {"sleep", "ended"}, file' = file,
         to \in {"child", "reap", "drain"} => Triggers!T.kind = "command",
         to \in {"send", "body"} => Triggers!T.kind \in Triggers!HttpKinds,
         to = "flush" => Triggers!T.kind = "log"
  PROVE  DispatchInv'
<1>1. UNCHANGED <<progress, attempt, outcome, cancels, lastError>> /\ pc' = to
  BY DEF Triggers!Continue, Triggers!history, progress
<1>2. Triggers!T' = Triggers!T
  BY <1>1 DEF progress, Triggers!T
<1>3. DispatchType'
  BY <1>1 DEF progress, DispatchInv, DispatchType, Places, Lines
<1>4. StageFits'
  BY <1>1, <1>2 DEF StageFits
<1>5. AttemptsCounted'
  BY <1>1, <1>2 DEF progress, DispatchInv, AttemptsCounted
<1>6. Progress'
  BY <1>1, <1>2 DEF progress, DispatchInv, Progress, Places, Earned, LineWritten, Triggers!Contains
<1> QED
  BY <1>3, <1>4, <1>5, <1>6 DEF DispatchInv

LEMMA WaitsKeep ==
  ASSUME DispatchInv,
         \/ Triggers!CancelledBetween \/ Triggers!CancelledAsleep \/ Triggers!Retry
         \/ Triggers!Cancel
         \/ Triggers!ChildExits \/ Triggers!ChildDies \/ Triggers!DrainEnds
         \/ UNCHANGED Triggers!vars
  PROVE  DispatchInv'
<1> DEFINE Ends == /\ pc' = "ended" /\ outcome' = "cancelled" /\ cancels # {} /\ pc # "ended"
                   /\ UNCHANGED <<attempt, cancels, lastError>>
<1> DEFINE Retries == /\ pc = "sleep" /\ pc' = "begin" /\ attempt' = attempt + 1
                      /\ UNCHANGED <<outcome, cancels, lastError>>
<1> DEFINE Stays == /\ UNCHANGED <<pc, attempt, outcome, lastError>> /\ (cancels # {} => cancels' # {})
<1>1. UNCHANGED progress /\ (Ends \/ Retries \/ Stays)
  <2>1. CASE Triggers!CancelledBetween \/ Triggers!CancelledAsleep
    BY <2>1
       DEF Triggers!CancelledBetween, Triggers!CancelledAsleep, Triggers!CheckCancelled,
           Triggers!ReturnCancelled, Triggers!attemptVars, Triggers!history, progress
  <2>2. CASE Triggers!Retry
    BY <2>2 DEF Triggers!Retry, Triggers!attemptVars, Triggers!history, progress
  <2>3. CASE Triggers!Cancel
    BY <2>3 DEF Triggers!Cancel, Triggers!attemptVars, Triggers!history, progress
  <2>4. CASE Triggers!ChildExits \/ Triggers!ChildDies \/ Triggers!DrainEnds
    BY <2>4 DEF Triggers!ChildExits, Triggers!ChildDies, Triggers!DrainEnds, Triggers!Undisturbed,
                Triggers!history, progress
  <2>5. CASE UNCHANGED Triggers!vars
    BY <2>5 DEF Triggers!vars, Triggers!attemptVars, Triggers!history, progress
  <2> QED
    BY <2>1, <2>2, <2>3, <2>4, <2>5
<1>2. /\ Triggers!T' = Triggers!T /\ Places' = Places
      /\ \A i \in Places : (Earned(i)' <=> Earned(i)) /\ (LineWritten(i)' <=> LineWritten(i))
  BY <1>1 DEF progress, Triggers!T, Places, Earned, LineWritten, Triggers!Contains
<1>3. attempt \in Nat /\ Triggers!T.retries \in Nat
  BY TriggerFields DEF DispatchInv, DispatchType, Triggers!T
<1>4. DispatchType'
  BY <1>1, <1>3 DEF progress, DispatchInv, DispatchType, Places, Lines, Stages
<1>5. StageFits'
  BY <1>1, <1>2 DEF DispatchInv, StageFits
<1>6. AttemptsCounted'
  BY <1>1, <1>2, <1>3 DEF progress, DispatchInv, AttemptsCounted
<1>7. Progress'
  <2>1. UNCHANGED progress /\ (outcome' = "ok" => outcome = "ok")
        /\ (outcome' = "requiredFailed" => outcome = "requiredFailed" /\ lastError' = lastError)
        /\ (outcome' = "cancelled" => cancels' # {})
    BY <1>1 DEF DispatchInv, Progress
  <2> QED
    BY <1>2, <2>1 DEF progress, DispatchInv, Progress
<1> QED
  BY <1>4, <1>5, <1>6, <1>7 DEF DispatchInv

(* The next notification finds nothing done yet.                           *)
LEMMA NextNotificationKeeps ==
  ASSUME DispatchInv, Triggers!NextNotification
  PROVE  DispatchInv'
<1>1. /\ note' = note + 1 /\ current' = 1 /\ attempt' = 0 /\ pc' = "between" /\ outcome' = "running"
      /\ made' = [i \in Places |-> 0] /\ won' = {}
      /\ UNCHANGED <<triggers, file>>
  BY TriggerListsAssumption
     DEF Triggers!NextNotification, Triggers!attemptVars, DispatchInv, DispatchType, Places
<1>2. 1 \in Places /\ Places' = Places /\ Lines' = Lines
  BY <1>1 DEF DispatchInv, DispatchType, Places, Lines
<1>3. triggers[1].retries \in Nat
  BY <1>2, TriggerFields DEF DispatchInv
<1>4. DispatchType'
  BY <1>1, <1>2 DEF DispatchInv, DispatchType, Stages
<1>5. StageFits' /\ AttemptsCounted'
  BY <1>1, <1>2, <1>3 DEF StageFits, AttemptsCounted, Triggers!T
<1>6. Progress'
  BY <1>1, <1>2 DEF Progress, Places
<1> QED
  BY <1>4, <1>5, <1>6 DEF DispatchInv

-----------------------------------------------------------------------------
(* Every step.                                                             *)

LEMMA AttemptKeeps ==
  ASSUME DispatchInv,
         \/ Triggers!PrepareFails \/ Triggers!EchoPrints \/ Triggers!LogWrites
         \/ Triggers!LogEncodeFails \/ Triggers!LogFlushed \/ Triggers!LogFlushFails
  PROVE  DispatchInv'
<1> USE DEF DispatchInv, Triggers!attemptVars
<1>0. pc # "ended" => outcome = "running"
  BY DEF AttemptsCounted
<1>1. CASE Triggers!PrepareFails
  <2>1. /\ \E e : Triggers!FailsWith(e)
        /\ pc = "begin" /\ file' = file
    BY <1>1 DEF Triggers!PrepareFails
  <2> QED
    BY <1>0, <2>1, SameFile, FailureKeeps
<1>2. CASE Triggers!EchoPrints
  <2>1. Triggers!Succeeds /\ pc = "begin" /\ file' = file /\ Triggers!T.kind # "log"
    BY <1>2 DEF Triggers!EchoPrints
  <2> QED
    BY <1>0, <2>1, SameFile, SuccessKeeps
<1>3. CASE Triggers!LogWrites
  <2>1. Triggers!Continue("flush") /\ pc = "begin" /\ file' = file /\ Triggers!T.kind = "log"
    BY <1>3 DEF Triggers!LogWrites
  <2> QED
    BY <2>1, ContinueKeeps DEF Stages
<1>4. CASE Triggers!LogEncodeFails
  <2>1. Triggers!FailsWith("encode") /\ pc = "begin" /\ file' = file
    BY <1>4 DEF Triggers!LogEncodeFails
  <2> QED
    BY <1>0, <2>1, SameFile, FailureKeeps
<1>5. CASE Triggers!LogFlushed
  <2>1. Triggers!Succeeds /\ pc = "flush" /\ file' = Triggers!Appended(TRUE)
    BY <1>5 DEF Triggers!LogFlushed
  <2>2. FileGrows /\ Triggers!Contains(file', <<current, note, TRUE>>)
    BY <2>1, AppendGrows
  <2> QED
    BY <1>0, <2>1, <2>2, SuccessKeeps
<1>6. CASE Triggers!LogFlushFails
  <2>1. Triggers!FailsWith("io") /\ pc = "flush" /\ file' \in {file, Triggers!Appended(FALSE)}
    BY <1>6 DEF Triggers!LogFlushFails
  <2>2. FileGrows
    BY <2>1, SameFile, AppendGrows
  <2> QED
    BY <1>0, <2>1, <2>2, FailureKeeps
<1> QED
  BY <1>1, <1>2, <1>3, <1>4, <1>5, <1>6

LEMMA CommandKeeps ==
  ASSUME DispatchInv,
         \/ Triggers!Spawn \/ Triggers!ChildWaited \/ Triggers!WaitFails \/ Triggers!TimesOut
         \/ Triggers!Reaped \/ Triggers!ReapFails \/ Triggers!Drained
  PROVE  DispatchInv'
<1> USE DEF DispatchInv
<1>0. /\ pc # "ended" => outcome = "running"
      /\ pc \in {"child", "reap", "drain"} => Triggers!T.kind = "command"
  BY DEF AttemptsCounted, StageFits
<1>1. CASE Triggers!Spawn
  <2>1. Triggers!Continue("child") /\ pc = "begin" /\ file' = file /\ Triggers!T.kind = "command"
    BY <1>1 DEF Triggers!Spawn
  <2> QED
    BY <2>1, ContinueKeeps DEF Stages
<1>2. CASE Triggers!ChildWaited
  <2>1. Triggers!Continue("drain") /\ pc = "child" /\ file' = file
    BY <1>2 DEF Triggers!ChildWaited
  <2> QED
    BY <1>0, <2>1, ContinueKeeps DEF Stages
<1>3. CASE Triggers!TimesOut
  <2>1. Triggers!Continue("reap") /\ pc = "child" /\ file' = file
    BY <1>3 DEF Triggers!TimesOut
  <2> QED
    BY <1>0, <2>1, ContinueKeeps DEF Stages
<1>4. CASE Triggers!WaitFails \/ Triggers!Reaped \/ Triggers!ReapFails
  <2>1. /\ Triggers!FailsWith("io") \/ Triggers!FailsWith("timeout")
        /\ pc \in {"child", "reap"} /\ file' = file
    BY <1>4 DEF Triggers!WaitFails, Triggers!Reaped, Triggers!ReapFails
  <2> QED
    BY <1>0, <2>1, SameFile, FailureKeeps
<1>5. CASE Triggers!Drained
  <2>1. /\ Triggers!Succeeds \/ Triggers!FailsWith("command")
        /\ pc = "drain" /\ file' = file
    BY <1>5 DEF Triggers!Drained
  <2> QED
    BY <1>0, <2>1, SameFile, FailureKeeps, SuccessKeeps
<1> QED
  BY <1>1, <1>2, <1>3, <1>4, <1>5

LEMMA RequestKeeps ==
  ASSUME DispatchInv,
         \/ Triggers!Send \/ Triggers!SendFails \/ Triggers!Responds \/ Triggers!BodyRead
         \/ Triggers!BodyTimesOut
  PROVE  DispatchInv'
<1> USE DEF DispatchInv, Triggers!attemptVars
<1>0. /\ pc # "ended" => outcome = "running"
      /\ pc \in {"send", "body"} => Triggers!T.kind \in Triggers!HttpKinds
      /\ "log" \notin Triggers!HttpKinds
  BY DEF AttemptsCounted, StageFits, Triggers!HttpKinds
<1>1. CASE Triggers!Send
  <2>1. Triggers!Continue("send") /\ pc = "begin" /\ file' = file
        /\ Triggers!T.kind \in Triggers!HttpKinds
    BY <1>1 DEF Triggers!Send
  <2> QED
    BY <2>1, ContinueKeeps DEF Stages
<1>2. CASE Triggers!Responds
  <2>1. Triggers!Continue("body") /\ pc = "send" /\ file' = file
    BY <1>2 DEF Triggers!Responds
  <2> QED
    BY <1>0, <2>1, ContinueKeeps DEF Stages
<1>3. CASE Triggers!SendFails \/ Triggers!BodyRead \/ Triggers!BodyTimesOut
  <2>1. /\ (pc = "body" /\ Triggers!Succeeds) \/ \E e : Triggers!FailsWith(e)
        /\ pc \in {"send", "body"} /\ file' = file
    <3>1. CASE Triggers!SendFails
      BY <3>1 DEF Triggers!SendFails
    <3>2. CASE Triggers!BodyRead
      BY <3>2 DEF Triggers!BodyRead
    <3>3. CASE Triggers!BodyTimesOut
      BY <3>3 DEF Triggers!BodyTimesOut
    <3> QED
      BY <1>3, <3>1, <3>2, <3>3
  <2> QED
    BY <1>0, <2>1, SameFile, FailureKeeps, SuccessKeeps
<1> QED
  BY <1>1, <1>2, <1>3

LEMMA DispatchStep == DispatchInv /\ [Triggers!Next]_(Triggers!vars) => DispatchInv'
<1> SUFFICES ASSUME DispatchInv, [Triggers!Next]_(Triggers!vars) PROVE DispatchInv'
  OBVIOUS
<1>1. CASE Triggers!StartTrigger
  <2>1. Triggers!Continue("begin") /\ pc = "between" /\ file' = file
    BY <1>1 DEF Triggers!StartTrigger, Triggers!attemptVars
  <2> QED
    BY <2>1, ContinueKeeps DEF Stages
<1> QED
  BY <1>1, AttemptKeeps, CommandKeeps, RequestKeeps, WaitsKeep, NextNotificationKeeps
     DEF Triggers!Next, Triggers!Dispatcher

(* A dispatch that returns Ok has earned it, however often and in whatever *)
(* way its attempts fail: each trigger has succeeded, with its whole line  *)
(* in the file when it writes one, or was optional and had its attempts;   *)
(* one that gives up has a required trigger no further attempt was left    *)
(* for (dispatcher/mod.rs).                                                *)
THEOREM OkIsEarned == Triggers!Spec => []OutcomeIsEarned
<1>1. Triggers!Init => DispatchInv
  <2> SUFFICES ASSUME Triggers!Init PROVE DispatchInv
    OBVIOUS
  <2>1. /\ triggers \in TriggerLists /\ note = 1 /\ current = 1 /\ attempt = 0 /\ pc = "between"
        /\ outcome = "running" /\ file = <<>> /\ made = [i \in DOMAIN triggers |-> 0] /\ won = {}
    BY DEF Triggers!Init
  <2>2. Len(triggers) \in Nat /\ Len(triggers) > 0 /\ DOMAIN triggers = Places
    BY <2>1, TriggerListsAssumption DEF Places
  <2>3. DispatchType
    BY <2>1, <2>2 DEF DispatchType, Places, Stages
  <2>4. Triggers!T.retries \in Nat
    BY <2>3, TriggerFields DEF Triggers!T, DispatchType
  <2>5. StageFits /\ AttemptsCounted
    BY <2>1, <2>2, <2>4 DEF StageFits, AttemptsCounted, Places
  <2>6. Progress
    BY <2>1, <2>2 DEF Progress, Places
  <2> QED
    BY <2>3, <2>5, <2>6 DEF DispatchInv
<1>2. DispatchInv => OutcomeIsEarned
  <2> SUFFICES ASSUME DispatchInv PROVE Triggers!OutcomeIsEarned
    BY DEF OutcomeIsEarned
  <2>1. DOMAIN triggers = Places
    BY TriggerListsAssumption DEF DispatchInv, DispatchType, Places
  <2>2. \A i \in Places :
          /\ i > current => made[i] = 0
          /\ i \in won => /\ made[i] > 0
                          /\ triggers[i].kind = "log" => Triggers!Contains(file, <<i, note, TRUE>>)
          /\ i < current \/ outcome = "ok" => i \in won \/ (~triggers[i].required /\ made[i] > 0)
          /\ ~triggers[i].failFast /\ (i < current \/ outcome = "ok")
               => i \in won \/ made[i] = triggers[i].retries + 1
    BY DEF DispatchInv, Progress, Earned, LineWritten
  <2> QED
    BY <2>1, <2>2 DEF Triggers!OutcomeIsEarned, DispatchInv, Progress
<1> QED
  BY <1>1, <1>2, DispatchStep, PTL DEF Triggers!Spec

-----------------------------------------------------------------------------
(* The child.                                                              *)

(* Where the loop goes from the end of an attempt.                         *)
LEMMA AfterAttempt ==
  ASSUME Triggers!Succeeds \/ \E e : Triggers!FailsWith(e)
  PROVE  pc' \in {"ended", "between", "sleep"}
BY DEF Triggers!Succeeds, Triggers!FailsWith, Triggers!GiveUp, Triggers!Advance, Triggers!Backoff

LEMMA ChildStep == ChildInv /\ [Triggers!Next]_(Triggers!vars) => ChildInv'
<1> SUFFICES ASSUME ChildInv, [Triggers!Next]_(Triggers!vars) PROVE ChildInv'
  OBVIOUS
<1> USE DEF ChildInv, Triggers!NothingLeftRunning
<1> DEFINE Out(p) == p \notin {"child", "reap", "drain"}
<1>1. CASE Out(pc) /\ Out(pc') /\ UNCHANGED <<child, drains>>
  BY <1>1
<1>2. ASSUME \/ Triggers!StartTrigger \/ Triggers!CancelledBetween \/ Triggers!CancelledAsleep
             \/ Triggers!Retry \/ Triggers!PrepareFails \/ Triggers!EchoPrints
             \/ Triggers!LogWrites \/ Triggers!LogEncodeFails \/ Triggers!LogFlushed
             \/ Triggers!LogFlushFails \/ Triggers!Send \/ Triggers!SendFails \/ Triggers!Responds
             \/ Triggers!BodyRead \/ Triggers!BodyTimesOut \/ Triggers!NextNotification
      PROVE  ChildInv'
  <2>1. CASE \/ Triggers!StartTrigger \/ Triggers!CancelledBetween \/ Triggers!CancelledAsleep
             \/ Triggers!Retry \/ Triggers!LogWrites \/ Triggers!Send \/ Triggers!Responds
             \/ Triggers!NextNotification
    BY <1>1, <2>1
       DEF Triggers!StartTrigger, Triggers!CancelledBetween, Triggers!CancelledAsleep, Triggers!Retry,
           Triggers!LogWrites, Triggers!Send, Triggers!Responds, Triggers!NextNotification,
           Triggers!Continue, Triggers!ReturnCancelled, Triggers!attemptVars
  <2>2. CASE \/ Triggers!PrepareFails \/ Triggers!EchoPrints \/ Triggers!LogEncodeFails
             \/ Triggers!LogFlushed \/ Triggers!LogFlushFails \/ Triggers!SendFails
             \/ Triggers!BodyRead \/ Triggers!BodyTimesOut
    <3>1. /\ pc \in {"begin", "flush", "send", "body"} /\ UNCHANGED <<child, drains>>
          /\ Triggers!Succeeds \/ \E e : Triggers!FailsWith(e)
      BY <2>2
         DEF Triggers!PrepareFails, Triggers!EchoPrints, Triggers!LogEncodeFails, Triggers!LogFlushed,
             Triggers!LogFlushFails, Triggers!SendFails, Triggers!BodyRead, Triggers!BodyTimesOut,
             Triggers!attemptVars
    <3> QED
      BY <1>1, <3>1, AfterAttempt
  <2> QED
    BY <1>2, <2>1, <2>2
<1>3. CASE Triggers!Spawn \/ Triggers!ChildWaited \/ Triggers!TimesOut
  BY <1>3 DEF Triggers!Spawn, Triggers!ChildWaited, Triggers!TimesOut, Triggers!Continue
<1>4. CASE Triggers!WaitFails \/ Triggers!ReapFails
  <2>1. pc' \in {"ended", "between", "sleep"} /\ child' = "dropped"
    BY <1>4, AfterAttempt DEF Triggers!WaitFails, Triggers!ReapFails
  <2> QED
    BY <2>1
<1>5. CASE Triggers!Reaped \/ Triggers!Drained
  <2>1. /\ pc' \in {"ended", "between", "sleep"} /\ drains' = {}
        /\ child' = "reaped"
    BY <1>5, AfterAttempt DEF Triggers!Reaped, Triggers!Drained, Triggers!MayReap
  <2> QED
    BY <2>1
<1>6. CASE Triggers!ChildExits \/ Triggers!ChildDies
  BY <1>6 DEF Triggers!ChildExits, Triggers!ChildDies, Triggers!Undisturbed
<1>7. CASE Triggers!DrainEnds
  BY <1>7 DEF Triggers!DrainEnds, Triggers!Undisturbed
<1>8. CASE Triggers!Cancel \/ UNCHANGED Triggers!vars
  BY <1>8 DEF Triggers!Cancel, Triggers!vars, Triggers!attemptVars
<1> QED
  BY <1>2, <1>3, <1>4, <1>5, <1>6, <1>7, <1>8 DEF Triggers!Next, Triggers!Dispatcher

(* Whatever a command does and however its wait races its timeout, an      *)
(* attempt returns after the child has been reaped and its readers are     *)
(* gone, or the wait itself has failed; so a retry never runs beside the   *)
(* child it replaces (command/mod.rs).                                     *)
THEOREM ChildrenAreReaped == Triggers!Spec => []NothingLeftRunning
<1>1. Triggers!Init => ChildInv
  BY DEF Triggers!Init, ChildInv, Triggers!NothingLeftRunning
<1>2. ChildInv => NothingLeftRunning
  BY DEF ChildInv, NothingLeftRunning
<1> QED
  BY <1>1, <1>2, ChildStep, PTL DEF Triggers!Spec

(* Once the stream or the client has cancelled no attempt begins, not even *)
(* the next one of a trigger that is backing off (dispatcher/mod.rs).      *)
THEOREM CancelledIsTheEnd == Triggers!Spec => NoAttemptAfterCancel
<1>1. [Triggers!Next]_(Triggers!vars)
        => [cancels # {} => ~(pc # "begin" /\ pc' = "begin")]_(Triggers!vars)
  <2> SUFFICES ASSUME Triggers!Next, cancels # {}, pc # "begin" PROVE pc' # "begin"
    OBVIOUS
  <2>1. CASE Triggers!StartTrigger \/ Triggers!Retry
    BY <2>1 DEF Triggers!StartTrigger, Triggers!CheckCancelled, Triggers!Retry, Triggers!MayRetry
  <2>2. CASE Triggers!Succeeds \/ \E e : Triggers!FailsWith(e)
    BY <2>2, AfterAttempt
  <2>3. \/ Triggers!StartTrigger \/ Triggers!Retry \/ pc' # "begin"
        \/ Triggers!Succeeds \/ \E e : Triggers!FailsWith(e)
    BY DEF Triggers!Next, Triggers!Dispatcher, Triggers!CancelledBetween, Triggers!CancelledAsleep,
           Triggers!ReturnCancelled, Triggers!PrepareFails, Triggers!EchoPrints, Triggers!LogWrites,
           Triggers!LogEncodeFails, Triggers!LogFlushed, Triggers!LogFlushFails, Triggers!Spawn,
           Triggers!ChildWaited, Triggers!TimesOut, Triggers!Reaped, Triggers!Drained,
           Triggers!Send, Triggers!SendFails, Triggers!Responds, Triggers!BodyRead,
           Triggers!BodyTimesOut, Triggers!WaitFails, Triggers!ReapFails, Triggers!ChildExits, Triggers!ChildDies,
           Triggers!DrainEnds, Triggers!Undisturbed, Triggers!Cancel, Triggers!NextNotification,
           Triggers!Continue
  <2> QED
    BY <2>1, <2>2, <2>3
<1> QED
  BY <1>1, PTL DEF Triggers!Spec, NoAttemptAfterCancel, Triggers!NoAttemptAfterCancel
=============================================================================
