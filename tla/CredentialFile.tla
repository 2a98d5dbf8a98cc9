---------------------------- MODULE CredentialFile ----------------------------
(***************************************************************************)
(* A credential that stands in a file and is read again after a 401: the   *)
(* provider ConfigFile (auth/config_file.rs), alone or as a member of a    *)
(* Chain (auth/chain.rs).  Requests refresh one at a time (AuthRefresh),   *)
(* but each watch refreshes beside them, so several refreshes of one       *)
(* provider overlap.  A refresh goes through                               *)
(*                                                                         *)
(*   idle       not asked, or dropped by its caller                        *)
(*   read       about to read the file                                     *)
(*   swap       holds the text it read; the cached credential is the old   *)
(*   ok         returned Ok                                                *)
(*   failed     returned an error                                          *)
(*                                                                         *)
(* A text is the number of the rewrite that made it and whether it parses  *)
(* to one usable credential.                                               *)
(***************************************************************************)
EXTENDS Naturals, Sequences

CONSTANTS
  Refreshers,  \* the requests of a client, as one, and each of its watches
  Chains,      \* the chains to start from
  MaxRewrites  \* bound on the rewrites of the file

VARIABLES
  members,  \* Chain::providers: "file", "static" or "mute", which has no header to give
  text,     \* what the file holds
  cached,   \* ConfigFile::inner, as the text it was made of
  refresh,  \* per refresher: see above
  content,  \* per refresher: the text it read
  (* History, read by the properties only. *)
  asked,    \* per refresher: the rewrite the file held when the refresh began
  alone     \* per refresher: nobody held a text read earlier when it began

vars == <<members, text, cached, refresh, content, asked, alone>>

States == {"good", "malformed", "gone"}
Text(rewrite, state) == [rewrite |-> rewrite, state |-> state]

-----------------------------------------------------------------------------
(* Helpers.                                                                *)

(* The member whose header the requests carry.  Mutation: the first member *)
(* is taken for it.                                                        *)
FirstMember(chain) == chain
Answering(chain)   == SelectSeq(chain, LAMBDA member : member # "mute")

(* The text is parsed before the lock is taken, so that a malformed        *)
(* rewrite leaves the credential as it is.  Mutation: the credential is    *)
(* taken out first.                                                        *)
TakenOut(new) == new
Parsed(new)   == IF new.state = "good" THEN new ELSE cached

Become(r, state) == refresh' = [refresh EXCEPT ![r] = state]

-----------------------------------------------------------------------------
(* ConfigFile::from_path fails unless the file holds one credential.       *)
Init ==
  /\ members \in Chains
  /\ text = Text(0, "good") /\ cached = text
  /\ refresh = [r \in Refreshers |-> "idle"]
  /\ content = [r \in Refreshers |-> text]
  /\ asked = [r \in Refreshers |-> 0]
  /\ alone = [r \in Refreshers |-> TRUE]

(* The user writes a new credential, a text that is none or is half        *)
(* written, or removes the file.                                           *)
Rewrite(state) ==
  /\ text.rewrite < MaxRewrites
  /\ text' = Text(text.rewrite + 1, state)
  /\ UNCHANGED <<members, cached, refresh, content, asked, alone>>

(* Chain::refresh finds the member that answers; a static one, or none,    *)
(* has nothing to refresh.                                                 *)
Begin(r) ==
  /\ refresh[r] \in {"idle", "ok", "failed"}
  /\ LET answering == Answering(members)
     IN Become(r, IF answering # <<>> /\ Head(answering) = "file" THEN "read" ELSE "ok")
  /\ asked' = [asked EXCEPT ![r] = text.rewrite]
  /\ alone' = [alone EXCEPT ![r] = \A other \in Refreshers : refresh[other] # "swap"]
  /\ UNCHANGED <<members, text, cached, content>>

(* ConfigFile::refresh: the file is read,                                  *)
Read(r) ==
  /\ refresh[r] = "read"
  /\ IF text.state = "gone"
       THEN Become(r, "failed") /\ UNCHANGED content
       ELSE Become(r, "swap") /\ content' = [content EXCEPT ![r] = text]
  /\ UNCHANGED <<members, text, cached, asked, alone>>

(* parsed, and swapped in under the write lock.                            *)
Swap(r) ==
  /\ refresh[r] = "swap"
  /\ cached' = Parsed(content[r])
  /\ Become(r, IF content[r].state = "good" THEN "ok" ELSE "failed")
  /\ UNCHANGED <<members, text, content, asked, alone>>

(* The caller drops the refresh, at the read or at the lock.               *)
DropRefresh(r) ==
  /\ refresh[r] \in {"read", "swap"}
  /\ Become(r, "idle")
  /\ UNCHANGED <<members, text, cached, content, asked, alone>>

Next ==
  \/ \E state \in States : Rewrite(state)
  \/ \E r \in Refreshers : Begin(r) \/ Read(r) \/ Swap(r) \/ DropRefresh(r)

Spec == Init /\ [][Next]_vars

-----------------------------------------------------------------------------
(* Chain::authorization_header: the first member that answers.             *)
CarriesFile(chain) ==
  LET answering == SelectSeq(chain, LAMBDA member : member # "mute")
  IN answering # <<>> /\ Head(answering) = "file"
FromFile == CarriesFile(members)

(* A refresh that returned Ok is seen by the requests after it: they carry *)
(* a credential that is as new as the file was when the refresh began      *)
(* (ConfigFile::refresh, Chain::refresh).  This is said of a refresh that  *)
(* began when no other one held a text it had read; RewriteIsReflected is  *)
(* the same of every refresh, and does not hold.  And no refresh that      *)
(* fails or is dropped takes a usable credential away.                     *)
RefreshIsSeen ==
  /\ cached.state = "good"
  /\ \A r \in Refreshers :
       refresh[r] = "ok" /\ alone[r] /\ FromFile => cached.rewrite >= asked[r]

(* The same of every refresh, as the documentation of the provider has it: *)
(* "so a user-side credential rewrite is reflected on the next             *)
(* `Authorization` header lookup" (auth/config_file.rs).  A refresh that   *)
(* read the file before the rewrite and swaps last undoes the newer one.   *)
RewriteIsReflected ==
  \A r \in Refreshers : refresh[r] = "ok" /\ FromFile => cached.rewrite >= asked[r]
=============================================================================
