--------------------------- MODULE WatchTransport ---------------------------
(***************************************************************************)
(* The set of HTTP clients the watches of one AvisoClient, and of its      *)
(* clones, lease from (client/watch_transport.rs).  A slot is one client   *)
(* with the number of watches it carries; a lease remembers the index of   *)
(* its slot and the client.  `slots` is behind a mutex: every critical     *)
(* section is one action.  A new client is built outside the lock, so      *)
(* other watches come and go between the two halves of `acquire`.          *)
(***************************************************************************)
EXTENDS Integers, Sequences, FiniteSets

CONSTANTS
  Watches,        \* the callers of acquire
  Clients,        \* identities of HTTP clients
  PerConnection   \* WATCHES_PER_CONNECTION

ASSUME TransportAssumption ==
  /\ IsFiniteSet(Watches)
  /\ PerConnection \in Nat \ {0}

VARIABLES
  slots,   \* WatchTransport::slots
  stage,   \* per watch: idle, building (in acquire, unlocked) or leased
  index,   \* per watch: Lease::index, while leased
  http     \* per watch: Lease::http, while leased

vars == <<slots, stage, index, http>>

-----------------------------------------------------------------------------
(* Helpers.  Mutation: one watch too many.                                 *)
IsFreeByOne(i) == slots[i].active <= PerConnection
IsFree(i)      == slots[i].active < PerConnection

AllFull == \A i \in 1 .. Len(slots) : ~IsFree(i)

FirstFree(i) == /\ i \in 1 .. Len(slots)
                /\ IsFree(i)
                /\ \A j \in 1 .. i - 1 : ~IsFree(j)

(* A client the factory builds is none of those in use.                    *)
IsFresh(c) ==
  /\ \A i \in 1 .. Len(slots) : slots[i].http # c
  /\ \A w \in Watches : stage[w] = "leased" => http[w] # c

Claim(w, i, c) ==
  /\ stage' = [stage EXCEPT ![w] = "leased"]
  /\ index' = [index EXCEPT ![w] = i]
  /\ http'  = [http EXCEPT ![w] = c]

(* lease_first_free.  Mutation: the lock does not cover the count.         *)
LeaseUncounted(w) ==
  \E i \in 1 .. Len(slots) : FirstFree(i) /\ UNCHANGED slots /\ Claim(w, i, slots[i].http)
LeaseFirstFree(w) ==
  \E i \in 1 .. Len(slots) :
    /\ FirstFree(i)
    /\ slots' = [slots EXCEPT ![i].active = @ + 1]
    /\ Claim(w, i, slots[i].http)

(* How many slots are left once the idle ones at the end are released, the *)
(* first one never: one number.  Mutation: the set is cut at the first     *)
(* idle slot.                                                              *)
ToFirstIdle(s) == {n \in 1 .. Len(s) : /\ n = Len(s) \/ s[n + 1].active = 0
                                      /\ \A i \in 2 .. n : s[i].active > 0}
Kept(s) == {n \in 1 .. Len(s) : /\ n = 1 \/ s[n].active > 0
                                /\ \A i \in n + 1 .. Len(s) : s[i].active = 0}

-----------------------------------------------------------------------------
(* WatchTransport::acquire, its first half: a slot with room is leased,    *)
(* else the lock is given up to build a client.                            *)
Acquire(w) ==
  /\ stage[w] = "idle"
  /\ LeaseFirstFree(w)

StartBuild(w) ==
  /\ stage[w] = "idle"
  /\ AllFull
  /\ stage' = [stage EXCEPT ![w] = "building"]
  /\ UNCHANGED <<slots, index, http>>

(* Its second half looks again, and adds the new client only when every    *)
(* client is still full.                                                   *)
UseRoomFound(w) ==
  /\ stage[w] = "building"
  /\ LeaseFirstFree(w)

AddClient(w, c) ==
  /\ stage[w] = "building"
  /\ AllFull
  /\ IsFresh(c)
  /\ slots' = Append(slots, [http |-> c, active |-> 1])
  /\ Claim(w, Len(slots) + 1, c)

(* The HTTP library rejects the configuration; watch() returns the error.  *)
BuildFails(w) ==
  /\ stage[w] = "building"
  /\ stage' = [stage EXCEPT ![w] = "idle"]
  /\ UNCHANGED <<slots, index, http>>

(* Lease::drop, when the supervisor ends.                                  *)
Release(w) ==
  /\ stage[w] = "leased"
  /\ LET left == [slots EXCEPT ![index[w]].active = IF @ > 0 THEN @ - 1 ELSE 0]
     IN  \E n \in Kept(left) : slots' = SubSeq(left, 1, n)
  /\ stage' = [stage EXCEPT ![w] = "idle"]
  /\ UNCHANGED <<index, http>>

(* WatchTransport::new builds the first client.                            *)
Init ==
  /\ \E c \in Clients : /\ slots = <<[http |-> c, active |-> 0]>>
                        /\ http = [w \in Watches |-> c]
  /\ stage = [w \in Watches |-> "idle"]
  /\ index = [w \in Watches |-> 1]

Next == \E w \in Watches :
  \/ Acquire(w) \/ StartBuild(w) \/ UseRoomFound(w) \/ BuildFails(w) \/ Release(w)
  \/ \E c \in Clients : AddClient(w, c)

Spec == Init /\ [][Next]_vars

-----------------------------------------------------------------------------
(* Properties.                                                             *)

Slot == [http : Clients, active : Nat]

TypeOK ==
  /\ slots \in Seq(Slot)
  /\ Len(slots) >= 1
  /\ stage \in [Watches -> {"idle", "building", "leased"}]
  /\ index \in [Watches -> Nat]
  /\ http \in [Watches -> Clients]

(* "no live lease's index ever points past the end", nor at the slot of    *)
(* another client, while slots are added, freed and released around it     *)
(* (Lease::drop).                                                          *)
LeaseFindsItsSlot ==
  \A w \in Watches : stage[w] = "leased" =>
    /\ index[w] \in 1 .. Len(slots)
    /\ slots[index[w]].http = http[w]

Holders(i) == {w \in Watches : stage[w] = "leased" /\ index[w] = i}

(* The count of a slot is the number of leases that point at it: no lease  *)
(* is lost in the unlocked build or counted twice.                         *)
ActiveCountsLeases ==
  \A i \in 1 .. Len(slots) : slots[i].active = Cardinality(Holders(i))

(* No client ever carries more watches than a server's stream limit        *)
(* allows, however the watches race (module documentation).                *)
CapHolds ==
  \A c \in Clients :
    Cardinality({w \in Watches : stage[w] = "leased" /\ http[w] = c}) <= PerConnection

(* Two slots never share a client (what makes the count of a slot that of  *)
(* its client).                                                            *)
ClientsDistinct ==
  \A i, j \in 1 .. Len(slots) : slots[i].http = slots[j].http => i = j

=============================================================================
