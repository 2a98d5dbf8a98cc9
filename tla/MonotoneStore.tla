---------------------------- MODULE MonotoneStore ----------------------------
(***************************************************************************)
(* What StateStore::put promises (state/mod.rs): a checkpoint per resume   *)
(* key that only ever moves forward, one key at a time, whatever callers,  *)
(* handles and processes do.  JsonFileStore implements it as long as no    *)
(* checkpoint is deleted; a watch relies on it (Supervisor).               *)
(***************************************************************************)
EXTENDS Integers

CONSTANTS
  Keys,    \* resume keys
  MaxSeq   \* largest sequence

None == -1  \* no checkpoint

VARIABLES
  stored,   \* per key: last_committed_sequence, or None
  onlyPuts  \* no checkpoint was deleted, nor the whole store

Put(k, n) ==
  /\ n > stored[k]
  /\ stored' = [stored EXCEPT ![k] = n]

Init == stored = [k \in Keys |-> None] /\ onlyPuts = TRUE

(* A delete ends the promise.                                              *)
Next ==
  \/ onlyPuts' = onlyPuts /\ \E k \in Keys, n \in 0 .. MaxSeq : Put(k, n)
  \/ onlyPuts' = FALSE

Spec == Init /\ [][Next]_<<stored, onlyPuts>>
=============================================================================
