---------------------------- MODULE WatchReducer ----------------------------
(***************************************************************************)
(* The pure reducer of a watch session (watch/state/mod.rs): the replay    *)
(* phase, the connection status and the reconnect policy an event asks     *)
(* for.  It owns no cursor and does no I/O; the supervisor feeds it events *)
(* and keeps the policy of the last `Reconnect` outcome.                   *)
(*                                                                         *)
(* Data that no decision reads is left out: the start of `Replaying`, the  *)
(* reasons inside `GapDetected` and `Closed`, the duration of a backoff.   *)
(* `Replaying { replay_completed: true }` is the phase "replayed".         *)
(***************************************************************************)

Modes    == {"watch", "replay_only"}
Phases   == {"live", "replaying", "replayed", "gap", "closed"}
Statuses == {"connected", "reconnecting", "backoff", "refreshing"}

WatchStates == [mode : Modes, phase : Phases, status : Statuses]

Policies == {"immediate", "short", "exponential"}
NoPolicy == "none"

(* The three reasons of a `connection-closing` frame.                      *)
CloseReasons == {"max_duration_reached", "server_shutdown", "end_of_stream"}

Events == CloseReasons \cup
  {"established", "lost", "starved", "backoff_started", "backoff_elapsed",
   "auth_rejected", "auth_refreshed", "auth_refused", "replay_completed",
   "gap", "fatal", "stop"}

-----------------------------------------------------------------------------

(* WatchState::watch and WatchState::replay_only.  `hasStart` says whether *)
(* a resume position was resolved; the supervisor never builds a           *)
(* replay-only session without one.                                        *)
InitialState(mode, hasStart) ==
  [mode   |-> mode,
   phase  |-> IF hasStart THEN "replaying" ELSE "live",
   status |-> "reconnecting"]

IsTerminal(s) == s.phase = "closed"

(* handle_end_of_stream: only a replay-only session whose replay has       *)
(* completed ends here; every other one reconnects at once.  Mutations:    *)
(* a live watch ends too; a replay ends before it has completed.           *)
EndsLive(s)   == s.phase \in {"live", "replayed"}
EndsEarly(s)  == s.mode = "replay_only"
EndsReplay(s) == s.mode = "replay_only" /\ s.phase = "replayed"

(* handle_replay_completed: the no-op rows of the table are the ELSE.      *)
(* Mutation: the mode is not looked at.                                    *)
LiveAfterReplay(s) == IF s.phase # "replaying" THEN s.phase ELSE "live"
PhaseAfterReplay(s) ==
  IF s.phase # "replaying" THEN s.phase
  ELSE IF s.mode = "watch" THEN "live" ELSE "replayed"

(* The policy of the `Reconnect` outcome of an event, if it has one.       *)
PolicyFor(s, e) ==
  IF IsTerminal(s) THEN NoPolicy
  ELSE CASE e \in {"lost", "starved"}               -> "exponential"
         [] e = "server_shutdown"                   -> "short"
         [] e = "max_duration_reached"              -> "immediate"
         [] e = "end_of_stream" /\ ~EndsReplay(s)   -> "immediate"
         [] OTHER                                   -> NoPolicy

(* The status an event leaves behind; an event that does not name one      *)
(* keeps the status.                                                       *)
StatusAfter(s, e) ==
  CASE e = "established"     -> "connected"
    [] e = "backoff_started" -> "backoff"
    [] e = "auth_rejected"   -> "refreshing"
    [] e = "backoff_elapsed" /\ s.status = "backoff" -> "reconnecting"
    [] e \in {"lost", "starved", "auth_refreshed",
              "max_duration_reached", "server_shutdown"} -> "reconnecting"
    [] e = "end_of_stream" /\ ~EndsReplay(s) -> "reconnecting"
    [] OTHER -> s.status

PhaseAfter(s, e) ==
  CASE e \in {"auth_refused", "fatal", "stop"}  -> "closed"
    [] e = "end_of_stream" /\ EndsReplay(s)     -> "closed"
    [] e = "gap"                                -> "gap"
    [] e = "replay_completed"                   -> PhaseAfterReplay(s)
    [] OTHER -> s.phase

(* WatchState::transition: a closed session absorbs every event.           *)
Transition(s, e) ==
  IF IsTerminal(s) THEN s
  ELSE [s EXCEPT !.phase = PhaseAfter(s, e), !.status = StatusAfter(s, e)]

(* apply_outcome: a `Reconnect` outcome replaces the remembered policy,    *)
(* every other outcome leaves it.                                          *)
ApplyOutcome(policy, s, e) ==
  IF PolicyFor(s, e) = NoPolicy THEN policy ELSE PolicyFor(s, e)

=============================================================================
