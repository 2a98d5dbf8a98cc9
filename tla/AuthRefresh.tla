----------------------------- MODULE AuthRefresh -----------------------------
(***************************************************************************)
(* Requests that share the credential of one client: send_with_refresh and *)
(* its RefreshCoordinator (client/mod.rs), used by notify, notify_many,    *)
(* schema and admin calls.  A call goes through                            *)
(*                                                                         *)
(*   header      AuthProvider::authorization_header of the first attempt   *)
(*   epoch       reading the epoch of the coordinator                      *)
(*   send        waiting for the response                                  *)
(*   lock        rejected; waiting for the coordinator's lock              *)
(*   refresh     AuthProvider::refresh, holding the lock                   *)
(*   published   the provider has the new credential, the epoch is old     *)
(*   again       authorization_header of the retry                         *)
(*   resend      waiting for the response to the retry                     *)
(*   ended       returned or dropped                                       *)
(*                                                                         *)
(* Credentials are numbered in the order the provider publishes them.      *)
(***************************************************************************)
EXTENDS Integers, Sequences

CONSTANTS
  Calls,    \* calls of send_with_refresh, over all clones of the client
  MaxCred,  \* bound on the credentials the provider can publish
  Nobody

ASSUME RefreshAssumption == MaxCred \in Nat /\ Nobody \notin Calls

VARIABLES
  cred,        \* the credential the provider answers with
  generation,  \* RefreshCoordinator::generation
  lock,        \* the call holding RefreshCoordinator::lock
  stage,       \* per call: see above
  sent,        \* per call: the credential of its first attempt
  observed,    \* per call: the epoch it captured
  outcome,     \* per call: what its 401 led to: none, refreshed or skipped
  (* History, read by the properties only. *)
  readAt       \* per call: the epoch when its first header was read

vars == <<cred, generation, lock, stage, sent, observed, outcome, readAt>>

Stages == {"header", "epoch", "send", "lock", "refresh", "published", "again",
           "resend", "ended"}

-----------------------------------------------------------------------------
(* Helpers.                                                                *)

(* "Capture the refresh epoch right after the credential is attached".     *)
(* Mutation: before it.                                                    *)
EpochThenHeader == <<"epoch", "header">>
HeaderThenEpoch == <<"header", "epoch">>
After(s) == IF s = HeaderThenEpoch[1] THEN HeaderThenEpoch[2] ELSE "send"

(* refresh_once: another refresh has completed since.  Mutation: each call *)
(* refreshes for itself.                                                   *)
NeverOvertaken(r) == FALSE
Overtaken(r)      == generation # observed[r]

(* The guard of the lock is dropped on every way out of refresh_once.      *)
(* Mutation: a call that gives up keeps it.                                *)
LockKept(r)  == lock
LockAfter(r) == IF lock = r THEN Nobody ELSE lock

Go(r, s) == stage' = [stage EXCEPT ![r] = s]

-----------------------------------------------------------------------------
(* The first attempt.                                                      *)

ReadHeader(r) ==
  /\ stage[r] = "header"
  /\ sent' = [sent EXCEPT ![r] = cred]
  /\ readAt' = [readAt EXCEPT ![r] = generation]
  /\ Go(r, After("header"))
  /\ UNCHANGED <<cred, generation, lock, observed, outcome>>

ReadEpoch(r) ==
  /\ stage[r] = "epoch"
  /\ observed' = [observed EXCEPT ![r] = generation]
  /\ Go(r, After("epoch"))
  /\ UNCHANGED <<cred, generation, lock, sent, outcome, readAt>>

(* 401 with a provider.                                                    *)
Rejected(r) ==
  /\ stage[r] = "send"
  /\ Go(r, "lock")
  /\ UNCHANGED <<cred, generation, lock, sent, observed, outcome, readAt>>

(* Any other response, a response to the retry, a transport error or a     *)
(* header that could not be produced is returned as it is.                 *)
Return(r) ==
  /\ stage[r] \in {"header", "send", "again", "resend"}
  /\ Go(r, "ended")
  /\ UNCHANGED <<cred, generation, lock, sent, observed, outcome, readAt>>

-----------------------------------------------------------------------------
(* refresh_once.                                                           *)

Skip(r) ==
  /\ stage[r] = "lock" /\ lock = Nobody
  /\ Overtaken(r)
  /\ outcome' = [outcome EXCEPT ![r] = "skipped"]
  /\ Go(r, "again")
  /\ UNCHANGED <<cred, generation, lock, sent, observed, readAt>>

StartRefresh(r) ==
  /\ stage[r] = "lock" /\ lock = Nobody
  /\ ~Overtaken(r)
  /\ lock' = r
  /\ Go(r, "refresh")
  /\ UNCHANGED <<cred, generation, sent, observed, outcome, readAt>>

(* The provider publishes before its refresh returns, and other threads    *)
(* may read the credential in between.                                     *)
Publish(r) ==
  /\ stage[r] = "refresh" /\ cred < MaxCred
  /\ cred' = cred + 1
  /\ Go(r, "published")
  /\ UNCHANGED <<generation, lock, sent, observed, outcome, readAt>>

FinishRefresh(r) ==
  /\ stage[r] = "published"
  /\ generation' = generation + 1
  /\ outcome' = [outcome EXCEPT ![r] = "refreshed"]
  /\ lock' = LockAfter(r)
  /\ Go(r, "again")
  /\ UNCHANGED <<cred, sent, observed, readAt>>

(* A refresh that fails, even after it has published, is returned; the     *)
(* epoch stays, so that the next waiter tries for itself.                  *)
RefreshFails(r) ==
  /\ stage[r] \in {"refresh", "published"}
  /\ lock' = LockAfter(r)
  /\ Go(r, "ended")
  /\ UNCHANGED <<cred, generation, sent, observed, outcome, readAt>>

ReadHeaderAgain(r) ==
  /\ stage[r] = "again"
  /\ Go(r, "resend")
  /\ UNCHANGED <<cred, generation, lock, sent, observed, outcome, readAt>>

-----------------------------------------------------------------------------
(* The caller drops the call's future, at any await.                       *)
DropCall(r) ==
  /\ stage[r] # "ended"
  /\ lock' = LockAfter(r)
  /\ Go(r, "ended")
  /\ UNCHANGED <<cred, generation, sent, observed, outcome, readAt>>

(* A watch refreshes after its own 401 without the coordinator             *)
(* (watch/supervisor/reconnect.rs).                                        *)
WatchRefresh ==
  /\ cred < MaxCred
  /\ cred' = cred + 1
  /\ UNCHANGED <<generation, lock, stage, sent, observed, outcome, readAt>>

Init ==
  /\ cred = 0
  /\ generation = 0
  /\ lock = Nobody
  /\ stage = [r \in Calls |-> HeaderThenEpoch[1]]
  /\ sent = [r \in Calls |-> 0]
  /\ observed = [r \in Calls |-> 0]
  /\ outcome = [r \in Calls |-> "none"]
  /\ readAt = [r \in Calls |-> 0]

Proceed(r) ==
  \/ ReadHeader(r) \/ ReadEpoch(r) \/ Return(r)
  \/ Skip(r) \/ StartRefresh(r) \/ Publish(r) \/ FinishRefresh(r) \/ RefreshFails(r)
  \/ ReadHeaderAgain(r)

Next ==
  \/ \E r \in Calls : Proceed(r) \/ Rejected(r) \/ DropCall(r)
  \/ WatchRefresh

Spec == Init /\ [][Next]_vars

-----------------------------------------------------------------------------
(* Properties.                                                             *)

(* Types; and the lock is held by the one call inside refresh_once beyond  *)
(* the wait, so a failed or dropped refresh has released it.               *)
TypeOK ==
  /\ cred \in 0 .. MaxCred /\ generation \in Nat
  /\ lock \in Calls \cup {Nobody}
  /\ stage \in [Calls -> Stages]
  /\ sent \in [Calls -> 0 .. MaxCred]
  /\ observed \in [Calls -> Nat] /\ readAt \in [Calls -> Nat]
  /\ outcome \in [Calls -> {"none", "refreshed", "skipped"}]
  /\ \A r \in Calls : lock = r <=> stage[r] \in {"refresh", "published"}

(* "Callers that share an `observed` collapse into one refresh"            *)
(* (client/mod.rs): of all calls rejected in one epoch a single one        *)
(* refreshes, however many are waiting for the lock.                       *)
OneRefreshPerEpoch ==
  \A q, r \in Calls :
    outcome[q] = "refreshed" /\ outcome[r] = "refreshed" /\ observed[q] = observed[r] => q = r

(* "a 401 only skips its own refresh when another refresh completed after  *)
(* this attempt read its credential (not merely during the read)"          *)
(* (client/mod.rs).                                                        *)
SkipMeansRefreshed ==
  \A r \in Calls : outcome[r] = "skipped" => readAt[r] < generation

-----------------------------------------------------------------------------
(* The runtime polls every call; the server and the provider answer.       *)
Fairness == \A r \in Calls : WF_vars(Proceed(r))
FairSpec == Spec /\ Fairness

(* Every call ends: no failed or dropped refresh leaves the others waiting *)
(* for the lock.                                                           *)
EveryCallEnds == \A r \in Calls : <>(stage[r] = "ended")
=============================================================================
