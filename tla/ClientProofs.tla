----------------------------- MODULE ClientProofs -----------------------------
(***************************************************************************)
(* A client: who refreshes its credential (AuthRefresh), for any number of *)
(* calls and refreshes; which text a refresh takes from its file           *)
(* (CredentialFile), for any number of refreshers and rewrites and behind  *)
(* any chain; how it is built (ClientBuilder), from any files,             *)
(* environment and order of calls, however often the files are rewritten;  *)
(* how its calls end (Calls), through every interface and in any order;    *)
(* and what the command line tells of it (CommandLine).                    *)
(***************************************************************************)
EXTENDS MCClientParts, FiniteSetTheorems, SequenceTheorems, TLAPS

(* What a call has read is not newer than the coordinator, and the header  *)
(* was read before the epoch.                                              *)
ReadInOrder ==
  \A r \in Calls :
    /\ readAt[r] <= generation
    /\ observed[r] <= generation
    /\ stage[r] \notin {"header", "epoch", "ended"} => readAt[r] <= observed[r]

(* The holder of the lock has found its epoch to be the current one.       *)
HolderIsCurrent ==
  \A r \in Calls : stage[r] \in {"refresh", "published"} => observed[r] = generation

(* A call that refreshed has left its epoch behind; one that has not got   *)
(* that far has no outcome.                                                *)
OutcomeIsLate ==
  \A r \in Calls :
    /\ outcome[r] = "refreshed" => observed[r] < generation
    /\ outcome[r] # "none" => stage[r] \in {"again", "resend", "ended"}

RefreshInv ==
  /\ TypeOK /\ ReadInOrder /\ HolderIsCurrent /\ OutcomeIsLate
  /\ OneRefreshPerEpoch /\ SkipMeansRefreshed

-----------------------------------------------------------------------------
LEMMA InitEstablishes == Init => RefreshInv
  BY RefreshAssumption
  DEF Init, RefreshInv, TypeOK, ReadInOrder, HolderIsCurrent, OutcomeIsLate,
      OneRefreshPerEpoch, SkipMeansRefreshed, HeaderThenEpoch, Stages

-----------------------------------------------------------------------------
(* One lemma for the invariant's every part that a step of a call or of a  *)
(* watch can disturb.                                                      *)

LEMMA TypeStep == RefreshInv /\ [Next]_vars => TypeOK'
<1> SUFFICES ASSUME RefreshInv, [Next]_vars PROVE TypeOK'
  OBVIOUS
<1> USE RefreshAssumption DEF TypeOK, RefreshInv, Go, Stages
<1>1. ASSUME NEW r \in Calls, ReadHeader(r) PROVE TypeOK'
  BY <1>1 DEF ReadHeader, After, HeaderThenEpoch
<1>2. ASSUME NEW r \in Calls, ReadEpoch(r) PROVE TypeOK'
  BY <1>2 DEF ReadEpoch, After, HeaderThenEpoch
<1>3. ASSUME NEW r \in Calls, Rejected(r) \/ Return(r) PROVE TypeOK'
  BY <1>3 DEF Rejected, Return
<1>4. ASSUME NEW r \in Calls, Skip(r) PROVE TypeOK'
  BY <1>4 DEF Skip
<1>5. ASSUME NEW r \in Calls, StartRefresh(r) PROVE TypeOK'
  BY <1>5 DEF StartRefresh
<1>6. ASSUME NEW r \in Calls, Publish(r) PROVE TypeOK'
  BY <1>6 DEF Publish
<1>7. ASSUME NEW r \in Calls, FinishRefresh(r) PROVE TypeOK'
  BY <1>7 DEF FinishRefresh, LockAfter
<1>8. ASSUME NEW r \in Calls, RefreshFails(r) \/ DropCall(r) PROVE TypeOK'
  BY <1>8 DEF RefreshFails, DropCall, LockAfter
<1>9. ASSUME NEW r \in Calls, ReadHeaderAgain(r) PROVE TypeOK'
  BY <1>9 DEF ReadHeaderAgain
<1>10. ASSUME WatchRefresh PROVE TypeOK'
  BY <1>10 DEF WatchRefresh
<1>11. ASSUME UNCHANGED vars PROVE TypeOK'
  BY <1>11 DEF vars
<1> QED
  BY <1>1, <1>2, <1>3, <1>4, <1>5, <1>6, <1>7, <1>8, <1>9, <1>10, <1>11
  DEF Next, Proceed

(* Steps that leave the epochs and the outcomes alone and do not enter the *)
(* critical section.                                                       *)
Moves(r) ==
  \/ Rejected(r) \/ Return(r) \/ Publish(r) \/ RefreshFails(r)
  \/ ReadHeaderAgain(r) \/ DropCall(r)

LEMMA MoveStep ==
  ASSUME RefreshInv, NEW r \in Calls, Moves(r)
  PROVE  /\ UNCHANGED <<generation, observed, outcome, readAt>>
         /\ \A q \in Calls \ {r} : stage'[q] = stage[q]
         /\ stage[r] \in {"header", "epoch"} => stage'[r] = "ended"
         /\ stage'[r] \in {"refresh", "published"} => stage[r] = "refresh"
         /\ stage[r] \in {"again", "resend"} => stage'[r] \in {"resend", "ended"}
         /\ stage'[r] \in {"lock", "published", "resend", "ended"}
         /\ stage[r] # "ended"
  BY DEF Moves, Rejected, Return, Publish, RefreshFails, ReadHeaderAgain, DropCall,
         Go, RefreshInv, TypeOK, Stages

LEMMA EpochStep ==
  RefreshInv /\ [Next]_vars => ReadInOrder' /\ HolderIsCurrent' /\ OutcomeIsLate'
<1> SUFFICES ASSUME RefreshInv, [Next]_vars
             PROVE  (ReadInOrder /\ HolderIsCurrent /\ OutcomeIsLate)'
  OBVIOUS
<1> DEFINE Goal == (ReadInOrder /\ HolderIsCurrent /\ OutcomeIsLate)'
<1> USE DEF ReadInOrder, HolderIsCurrent, OutcomeIsLate, RefreshInv, TypeOK, Go
<1>1. ASSUME NEW r \in Calls, Moves(r) PROVE Goal
  <2>1. /\ UNCHANGED <<generation, observed, outcome, readAt>>
        /\ \A q \in Calls \ {r} : stage'[q] = stage[q]
        /\ stage[r] \in {"header", "epoch"} => stage'[r] = "ended"
        /\ stage'[r] \in {"refresh", "published"} => stage[r] = "refresh"
        /\ stage[r] \in {"again", "resend"} => stage'[r] \in {"resend", "ended"}
        /\ stage'[r] \in {"lock", "published", "resend", "ended"}
        /\ stage[r] # "ended"
    BY <1>1, MoveStep
  <2>2. ReadInOrder'
    BY <2>1
  <2>3. HolderIsCurrent'
    BY <2>1
  <2>4. OutcomeIsLate'
    BY <2>1
  <2> QED
    BY <2>2, <2>3, <2>4
<1>2. ASSUME NEW r \in Calls, ReadHeader(r) PROVE Goal
  BY <1>2 DEF ReadHeader, After, HeaderThenEpoch
<1>3. ASSUME NEW r \in Calls, ReadEpoch(r) PROVE Goal
  BY <1>3 DEF ReadEpoch, After, HeaderThenEpoch
<1>4. ASSUME NEW r \in Calls, Skip(r) PROVE Goal
  BY <1>4 DEF Skip
<1>5. ASSUME NEW r \in Calls, StartRefresh(r) PROVE Goal
  BY <1>5 DEF StartRefresh, Overtaken
<1>6. ASSUME NEW r \in Calls, FinishRefresh(r) PROVE Goal
  BY <1>6 DEF FinishRefresh
<1>7. ASSUME WatchRefresh PROVE Goal
  BY <1>7 DEF WatchRefresh
<1>8. ASSUME UNCHANGED vars PROVE Goal
  BY <1>8 DEF vars
<1> QED
  BY <1>1, <1>2, <1>3, <1>4, <1>5, <1>6, <1>7, <1>8 DEF Next, Proceed, Moves

(* The call that finishes a refresh observed the current epoch; those that *)
(* finished one before have left theirs behind.  A call that skips read    *)
(* its header no later than the epoch it compares.                         *)
LEMMA OutcomeStep ==
  RefreshInv /\ [Next]_vars => OneRefreshPerEpoch' /\ SkipMeansRefreshed'
<1> SUFFICES ASSUME RefreshInv, [Next]_vars
             PROVE  (OneRefreshPerEpoch /\ SkipMeansRefreshed)'
  OBVIOUS
<1> DEFINE Goal == (OneRefreshPerEpoch /\ SkipMeansRefreshed)'
<1> USE DEF OneRefreshPerEpoch, SkipMeansRefreshed, RefreshInv, TypeOK, Go
<1>1. ASSUME NEW r \in Calls, Moves(r) PROVE Goal
  BY <1>1, MoveStep
<1>2. ASSUME NEW r \in Calls, ReadHeader(r) PROVE Goal
  BY <1>2 DEF ReadHeader, OutcomeIsLate
<1>3. ASSUME NEW r \in Calls, ReadEpoch(r) PROVE Goal
  BY <1>3 DEF ReadEpoch, OutcomeIsLate
<1>4. ASSUME NEW r \in Calls, Skip(r) PROVE Goal
  BY <1>4 DEF Skip, Overtaken, ReadInOrder
<1>5. ASSUME NEW r \in Calls, StartRefresh(r) PROVE Goal
  BY <1>5 DEF StartRefresh
<1>6. ASSUME NEW r \in Calls, FinishRefresh(r) PROVE Goal
  BY <1>6 DEF FinishRefresh, HolderIsCurrent, OutcomeIsLate
<1>7. ASSUME WatchRefresh PROVE Goal
  BY <1>7 DEF WatchRefresh
<1>8. ASSUME UNCHANGED vars PROVE Goal
  BY <1>8 DEF vars
<1> QED
  BY <1>1, <1>2, <1>3, <1>4, <1>5, <1>6, <1>7, <1>8 DEF Next, Proceed, Moves

-----------------------------------------------------------------------------
LEMMA RefreshInvariant == Spec => []RefreshInv
<1>1. RefreshInv /\ [Next]_vars => RefreshInv'
  BY TypeStep, EpochStep, OutcomeStep DEF RefreshInv
<1> QED
  BY <1>1, InitEstablishes, PTL DEF Spec

(* The lock is held exactly by the call inside refresh_once beyond the     *)
(* wait: no failed or dropped refresh keeps it.                            *)
THEOREM LockIsReleased == Spec => []TypeOK
  BY RefreshInvariant, PTL DEF RefreshInv

(* However many calls are rejected in one epoch, a single one refreshes    *)
(* (RefreshCoordinator::refresh_once).                                     *)
THEOREM RejectedCallsShareARefresh == Spec => []OneRefreshPerEpoch
  BY RefreshInvariant, PTL DEF RefreshInv

(* A call skips its refresh only after another refresh has completed since *)
(* its header was read (send_with_refresh).                                *)
THEOREM SkipIsJustified == Spec => []SkipMeansRefreshed
  BY RefreshInvariant, PTL DEF RefreshInv
-----------------------------------------------------------------------------
(* The credential file.                                                    *)

Texts == [rewrite : Nat, state : Credential!States]
RefreshStages == {"idle", "read", "swap", "ok", "failed"}

CredentialType ==
  /\ text \in Texts /\ cached \in Texts
  /\ refresh \in [Refreshers -> RefreshStages]
  /\ content \in [Refreshers -> Texts]
  /\ asked \in [Refreshers -> Nat]
  /\ alone \in [Refreshers -> BOOLEAN]

(* Rewrites are counted, so the file holds the latest.                     *)
FileIsLatest == \A r \in Refreshers : asked[r] <= text.rewrite

(* A refresh holds a text at least as new as the file was when it began;   *)
(* one that began alone knows the same of every text that is held, since   *)
(* the others were read after it began.                                    *)
HeldTextsAreNew ==
  \A r \in Refreshers :
    /\ refresh[r] = "swap" => asked[r] <= content[r].rewrite
    /\ alone[r] /\ refresh[r] \in {"read", "swap", "ok"} =>
         \A other \in Refreshers :
           refresh[other] = "swap" => asked[r] <= content[other].rewrite

CredentialInv == CredentialType /\ FileIsLatest /\ HeldTextsAreNew /\ Credential!RefreshIsSeen

LEMMA CredentialInit == Credential!Init => CredentialInv
BY DEF Credential!Init, CredentialInv, CredentialType, FileIsLatest, HeldTextsAreNew,
       Credential!RefreshIsSeen, Texts, RefreshStages, Credential!States, Credential!Text

LEMMA TextFields ==
  ASSUME NEW n \in Nat, NEW state \in Credential!States
  PROVE  /\ Credential!Text(n, state) \in Texts
         /\ Credential!Text(n, state).rewrite = n /\ Credential!Text(n, state).state = state
BY DEF Credential!Text, Texts

LEMMA RewriteStep ==
  ASSUME CredentialInv, NEW state \in Credential!States, Credential!Rewrite(state)
  PROVE  CredentialInv'
<1>1. /\ text' \in Texts /\ text'.rewrite = text.rewrite + 1
      /\ UNCHANGED <<members, cached, refresh, content, asked, alone>>
  BY TextFields DEF Credential!Rewrite, CredentialInv, CredentialType, Texts
<1>2. CredentialType' /\ FileIsLatest'
  BY <1>1 DEF CredentialInv, CredentialType, FileIsLatest, Texts
<1>3. HeldTextsAreNew' /\ Credential!RefreshIsSeen'
  BY <1>1 DEF CredentialInv, HeldTextsAreNew, Credential!RefreshIsSeen, Credential!FromFile
<1> QED
  BY <1>2, <1>3 DEF CredentialInv

LEMMA BeginStep ==
  ASSUME CredentialInv, NEW r \in Refreshers, Credential!Begin(r)
  PROVE  CredentialInv'
<1> DEFINE next == IF Credential!FromFile THEN "read" ELSE "ok"
<1>1. /\ refresh' = [refresh EXCEPT ![r] = next]
      /\ asked' = [asked EXCEPT ![r] = text.rewrite]
      /\ alone' = [alone EXCEPT ![r] = \A other \in Refreshers : refresh[other] # "swap"]
      /\ refresh[r] # "swap"
      /\ UNCHANGED <<members, text, cached, content>>
  BY DEF Credential!Begin, Credential!Become, Credential!Answering, Credential!FromFile, Credential!CarriesFile
<1>2. Credential!FromFile' = Credential!FromFile
  BY <1>1 DEF Credential!FromFile
<1>3. CredentialType'
  BY <1>1 DEF CredentialInv, CredentialType, Texts, RefreshStages
<1>4. FileIsLatest'
  BY <1>1 DEF CredentialInv, CredentialType, FileIsLatest, Texts
<1>5. HeldTextsAreNew'
  BY <1>1 DEF CredentialInv, CredentialType, HeldTextsAreNew
<1>6. Credential!RefreshIsSeen'
  BY <1>1, <1>2 DEF CredentialInv, CredentialType, Credential!RefreshIsSeen
<1> QED
  BY <1>3, <1>4, <1>5, <1>6 DEF CredentialInv

LEMMA ReadStep ==
  ASSUME CredentialInv, NEW r \in Refreshers, Credential!Read(r)
  PROVE  CredentialInv'
<1>1. /\ refresh[r] = "read" /\ UNCHANGED <<members, text, cached, asked, alone>>
      /\ \/ refresh' = [refresh EXCEPT ![r] = "failed"] /\ content' = content
         \/ /\ refresh' = [refresh EXCEPT ![r] = "swap"]
            /\ content' = [content EXCEPT ![r] = text]
  BY DEF Credential!Read, Credential!Become
<1>2. CredentialType' /\ FileIsLatest'
  BY <1>1 DEF CredentialInv, CredentialType, FileIsLatest, RefreshStages
<1>3. HeldTextsAreNew'
  BY <1>1 DEF CredentialInv, CredentialType, FileIsLatest, HeldTextsAreNew, Texts
<1>4. Credential!RefreshIsSeen'
  BY <1>1 DEF CredentialInv, CredentialType, Credential!RefreshIsSeen, Credential!FromFile
<1> QED
  BY <1>2, <1>3, <1>4 DEF CredentialInv

(* The text swapped in is at least as new as every refresh that began      *)
(* alone asks for.                                                         *)
LEMMA SwapStep ==
  ASSUME CredentialInv, NEW r \in Refreshers, Credential!Swap(r)
  PROVE  CredentialInv'
<1> DEFINE good == content[r].state = "good"
<1>1. /\ refresh[r] = "swap" /\ UNCHANGED <<members, text, content, asked, alone>>
      /\ cached' = IF good THEN content[r] ELSE cached
      /\ refresh' = [refresh EXCEPT ![r] = IF good THEN "ok" ELSE "failed"]
  BY DEF Credential!Swap, Credential!Become, Credential!Parsed
<1>2. CredentialType' /\ FileIsLatest'
  BY <1>1 DEF CredentialInv, CredentialType, FileIsLatest, RefreshStages
<1>3. HeldTextsAreNew'
  BY <1>1 DEF CredentialInv, CredentialType, HeldTextsAreNew
<1>4. Credential!RefreshIsSeen'
  <2>1. cached'.state = "good"
    BY <1>1 DEF CredentialInv, Credential!RefreshIsSeen
  <2>2. Credential!FromFile' = Credential!FromFile
    BY <1>1 DEF Credential!FromFile
  <2>3. ASSUME NEW s \in Refreshers, refresh'[s] = "ok", alone[s], Credential!FromFile
        PROVE  cached'.rewrite >= asked[s]
    <3>1. CASE s = r
      BY <1>1, <2>3, <3>1 DEF CredentialInv, CredentialType, HeldTextsAreNew, Texts
    <3>2. CASE s # r
      BY <1>1, <2>3, <3>2
         DEF CredentialInv, CredentialType, HeldTextsAreNew, Credential!RefreshIsSeen, Texts
    <3> QED
      BY <3>1, <3>2
  <2> QED
    BY <1>1, <2>1, <2>2, <2>3 DEF Credential!RefreshIsSeen
<1> QED
  BY <1>2, <1>3, <1>4 DEF CredentialInv

LEMMA DropStep ==
  ASSUME CredentialInv, NEW r \in Refreshers, Credential!DropRefresh(r)
  PROVE  CredentialInv'
<1>1. /\ refresh' = [refresh EXCEPT ![r] = "idle"]
      /\ UNCHANGED <<members, text, cached, content, asked, alone>>
  BY DEF Credential!DropRefresh, Credential!Become
<1>2. CredentialType' /\ FileIsLatest'
  BY <1>1 DEF CredentialInv, CredentialType, FileIsLatest, RefreshStages
<1>3. HeldTextsAreNew'
  BY <1>1 DEF CredentialInv, CredentialType, HeldTextsAreNew
<1>4. Credential!RefreshIsSeen'
  BY <1>1 DEF CredentialInv, CredentialType, Credential!RefreshIsSeen, Credential!FromFile
<1> QED
  BY <1>2, <1>3, <1>4 DEF CredentialInv

(* A refresh that returned Ok is seen: the requests after it carry a       *)
(* credential as new as the file was when the refresh began, unless        *)
(* another one held an older text then; and no refresh takes a usable      *)
(* credential away (ConfigFile::refresh, Chain::refresh).                  *)
THEOREM RefreshTakesEffect == Credential!Spec => []RefreshIsSeen
<1>1. CredentialInv /\ [Credential!Next]_(Credential!vars) => CredentialInv'
  <2> SUFFICES ASSUME CredentialInv, [Credential!Next]_(Credential!vars) PROVE CredentialInv'
    OBVIOUS
  <2>1. CASE Credential!Next
    BY <2>1, RewriteStep, BeginStep, ReadStep, SwapStep, DropStep DEF Credential!Next
  <2>2. CASE UNCHANGED Credential!vars
    BY <2>2 DEF Credential!vars, CredentialInv, CredentialType, FileIsLatest, HeldTextsAreNew,
                Credential!RefreshIsSeen, Credential!FromFile
  <2> QED
    BY <2>1, <2>2
<1>2. CredentialInv => RefreshIsSeen
  BY DEF CredentialInv, RefreshIsSeen
<1> QED
  BY CredentialInit, <1>1, <1>2, PTL DEF Credential!Spec

-----------------------------------------------------------------------------
(* The builder.  A record is known by its fields.                          *)

Fields(r, names) == r = [name \in names |-> r[name]]

IsBuilder(b) == Fields(b, {"url", "auth", "foundIn", "timeout", "ca", "danger"})
IsInputs(i)  == Fields(i, {"url", "timeout", "danger", "auth"})
IsOrigin(o)  == Fields(o, {"url", "auth", "again"})
IsHandle(h) ==
  /\ Fields(h, {"inner", "error", "inputs", "readsEnv", "searched", "file", "pinned"})
  /\ IsBuilder(h.inner) /\ IsInputs(h.inputs) /\ h.file \in {"config", "named"}

FilesInv ==
  /\ files = [f \in {"config", "named", "credentials"} |-> files[f]]
  /\ \A f \in DOMAIN files : SoundFile(files[f])
  /\ writes \in Nat

(* What a lookup has read, and what a handle has pinned, is a version of   *)
(* its file; the latest one while nothing is rewritten.                    *)
LookupInv ==
  Builder!IsGiven(lookup) =>
    LET l == lookup[1]
    IN /\ l.file \in {"config", "named"} /\ SoundFile(l.content) /\ IsInputs(l.inputs)
       /\ writes = 0 => l.content = files[l.file]

PinnedInv ==
  Builder!IsGiven(handle.pinned) =>
    /\ SoundFile(handle.pinned[1])
    /\ writes = 0 => handle.pinned[1] = files[handle.file]

(* The builder knows by itself which credential it found.                  *)
OriginInv ==
  LET b == handle.inner
  IN /\ b.foundIn = "none" <=> origin.auth \in {"none", "code"}
     /\ origin.url = "config file" /\ Builder!IsGiven(handle.pinned) => b.url[1].of = handle.pinned[1].version

(* While nothing is rewritten, the builder is what a resolution of the     *)
(* inputs the handle remembers would make.                                 *)
FollowsInv ==
  LET b     == handle.inner
      file  == files[handle.file]
      found == Builder!Discover(Env, file, files["credentials"])
  IN /\ b.url = Builder!Address(handle.inputs, Env, handle.readsEnv, file).value
     /\ CASE Builder!IsGiven(handle.inputs.auth) -> b.auth = handle.inputs.auth[1] /\ b.foundIn = "none"
          [] ~Builder!IsGiven(handle.inputs.auth) /\ handle.searched ->
               found.ok => b.auth = found.value.credential /\ b.foundIn = found.value.source
          [] ~Builder!IsGiven(handle.inputs.auth) /\ ~handle.searched ->
               b.auth = Builder!Nothing /\ b.foundIn = "none"

HandleInv ==
  /\ IsHandle(handle) /\ IsOrigin(origin) /\ PinnedInv /\ Builder!OneSnapshot
  /\ ~Builder!HasHandle => origin = Builder!NoOrigin
  /\ handle.error = "none" => OriginInv /\ (writes = 0 => FollowsInv)

(* A report is what the builder was made of.                               *)
Sources == {"none", "code", "environment", "config file", "credentials file"}
ReportInv ==
  Builder!IsGiven(report) =>
    LET r == report[1]
    IN /\ handle.error = "none" /\ handle.inner = Builder!FromResolution(r)
       /\ r.auth.source = "none" => r.auth.credential = Builder!Nothing
       /\ r.refused <=> Builder!Refused(r.auth.source, r.url.value)

OutcomeInv ==
  Builder!IsGiven(built) =>
    /\ Builder!HasHandle
    /\ built = Builder!Given(IF handle.error # "none" THEN Builder!Err(handle.error)
                             ELSE Builder!BuildResult(handle.inner))

BuilderInv == FilesInv /\ LookupInv /\ HandleInv /\ ReportInv /\ OutcomeInv

(* The least of a few places.                                              *)
LEMMA MinIs ==
  ASSUME NEW n \in Nat, NEW I \in SUBSET (1 .. n), NEW m \in I, \A i \in I : m <= i
  PROVE  Builder!Min(I) = m
<1> DEFINE least == CHOOSE x \in I : \A i \in I : x <= i
<1>1. least \in I /\ \A i \in I : least <= i
  BY Zenon
<1> HIDE DEF least
<1>2. least = m
  BY <1>1
<1> QED
  BY <1>2 DEF least, Builder!Min

(* The first option that is given, and the default when none is.           *)
IsFirst(options, k) ==
  /\ Len(options) \in Nat /\ k \in 1 .. Len(options) /\ Builder!IsGiven(options[k][1])
  /\ \A j \in 1 .. Len(options) : j < k => ~Builder!IsGiven(options[j][1])

LEMMA FirstIs ==
  ASSUME NEW options, NEW default, NEW k, IsFirst(options, k)
  PROVE  Builder!FirstGiven(options, default) = Builder!Sourced(options[k][1], options[k][2])
<1> DEFINE n == Len(options)
           I == {i \in 1 .. n : Builder!IsGiven(options[i][1])}
<1>1. n \in Nat /\ I \in SUBSET (1 .. n) /\ k \in I /\ \A i \in I : k <= i
  BY DEF IsFirst
<1>2. Builder!Min(I) = k
  <2> HIDE DEF I
  <2> QED
    BY <1>1, MinIs
<1>3. I # {} /\ k # 0
  BY <1>1
<1> QED
  BY <1>2, <1>3 DEF Builder!FirstGiven, Builder!SelectInSeq

LEMMA NoneGiven ==
  ASSUME NEW options, NEW default, NEW n \in Nat, Len(options) = n,
         \A j \in 1 .. n : ~Builder!IsGiven(options[j][1])
  PROVE  Builder!FirstGiven(options, default) = Builder!Sourced(default, "default")
<1>1. {i \in 1 .. n : Builder!IsGiven(options[i][1])} = {}
  OBVIOUS
<1> QED
  BY <1>1 DEF Builder!FirstGiven, Builder!SelectInSeq

LEMMA FirstOfThree ==
  ASSUME NEW a, NEW b, NEW c, NEW sa, NEW sb, NEW sc, NEW default
  PROVE  Builder!FirstGiven(<<<<a, sa>>, <<b, sb>>, <<c, sc>>>>, default) =
           IF Builder!IsGiven(a) THEN Builder!Sourced(a, sa)
           ELSE IF Builder!IsGiven(b) THEN Builder!Sourced(b, sb)
           ELSE IF Builder!IsGiven(c) THEN Builder!Sourced(c, sc)
           ELSE Builder!Sourced(default, "default")
<1> DEFINE options == <<<<a, sa>>, <<b, sb>>, <<c, sc>>>>
<1>1. /\ Len(options) = 3 /\ options[1] = <<a, sa>> /\ options[2] = <<b, sb>> /\ options[3] = <<c, sc>>
      /\ options[1][1] = a /\ options[2][1] = b /\ options[3][1] = c
      /\ options[1][2] = sa /\ options[2][2] = sb /\ options[3][2] = sc
  OBVIOUS
<1> HIDE DEF options
<1>2. CASE Builder!IsGiven(a)
  <2>1. IsFirst(options, 1)
    BY <1>1, <1>2 DEF IsFirst
  <2>2. Builder!FirstGiven(options, default) = Builder!Sourced(options[1][1], options[1][2])
    BY <2>1, FirstIs
  <2> QED
    BY <1>1, <1>2, <2>2 DEF options
<1>3. CASE ~Builder!IsGiven(a) /\ Builder!IsGiven(b)
  <2>1. IsFirst(options, 2)
    BY <1>1, <1>3 DEF IsFirst
  <2>2. Builder!FirstGiven(options, default) = Builder!Sourced(options[2][1], options[2][2])
    BY <2>1, FirstIs
  <2> QED
    BY <1>1, <1>3, <2>2 DEF options
<1>4. CASE ~Builder!IsGiven(a) /\ ~Builder!IsGiven(b) /\ Builder!IsGiven(c)
  <2>1. IsFirst(options, 3)
    BY <1>1, <1>4 DEF IsFirst
  <2>2. Builder!FirstGiven(options, default) = Builder!Sourced(options[3][1], options[3][2])
    BY <2>1, FirstIs
  <2> QED
    BY <1>1, <1>4, <2>2 DEF options
<1>5. CASE ~Builder!IsGiven(a) /\ ~Builder!IsGiven(b) /\ ~Builder!IsGiven(c)
  <2>1. \A j \in 1 .. 3 : ~Builder!IsGiven(options[j][1])
    BY <1>1, <1>5
  <2> QED
    BY <1>1, <1>5, <2>1, NoneGiven DEF options
<1> QED
  BY <1>2, <1>3, <1>4, <1>5

(* The address is the first one that is given (resolve).                   *)
LEMMA AddressIs ==
  ASSUME NEW inputs, NEW readsEnv, NEW file
  PROVE  LET address == Builder!EnvAddress(inputs, Env, readsEnv)
         IN Builder!Address(inputs, Env, readsEnv, file) =
           IF Builder!IsGiven(inputs.url) THEN Builder!Sourced(inputs.url, "code")
           ELSE IF Builder!IsGiven(address) THEN Builder!Sourced(address, "environment")
           ELSE IF Builder!IsGiven(file.url) THEN Builder!Sourced(file.url, "config file")
           ELSE Builder!Sourced(Builder!Unset, "default")
<1> DEFINE a == inputs.url
           b == Builder!EnvAddress(inputs, Env, readsEnv)
           c == file.url
           source == "config file"
<1>1. Builder!Address(inputs, Env, readsEnv, file) =
        Builder!FirstGiven(<<<<a, "code">>, <<b, "environment">>, <<c, source>>>>, Builder!Unset)
  BY DEF Builder!Address
<1> HIDE DEF a, b, c, source
<1>2. Builder!FirstGiven(<<<<a, "code">>, <<b, "environment">>, <<c, source>>>>, Builder!Unset) =
        IF Builder!IsGiven(a) THEN Builder!Sourced(a, "code")
        ELSE IF Builder!IsGiven(b) THEN Builder!Sourced(b, "environment")
        ELSE IF Builder!IsGiven(c) THEN Builder!Sourced(c, source)
        ELSE Builder!Sourced(Builder!Unset, "default")
  BY FirstOfThree
<1> QED
  BY <1>1, <1>2 DEF a, b, c, source

(* An address that the caller gives wins, and one that comes from the      *)
(* config file is the one in it.                                           *)
LEMMA UrlSource ==
  ASSUME NEW inputs, NEW readsEnv, NEW file
  PROVE  LET first == Builder!Address(inputs, Env, readsEnv, file)
         IN /\ Builder!IsGiven(inputs.url) => first.value = inputs.url /\ first.source = "code"
            /\ first.source = "config file" => Builder!IsGiven(file.url) /\ first.value = file.url
<1> DEFINE address == Builder!EnvAddress(inputs, Env, readsEnv)
           first   == Builder!Address(inputs, Env, readsEnv, file)
<1>1. first = IF Builder!IsGiven(inputs.url) THEN Builder!Sourced(inputs.url, "code")
              ELSE IF Builder!IsGiven(address) THEN Builder!Sourced(address, "environment")
              ELSE IF Builder!IsGiven(file.url) THEN Builder!Sourced(file.url, "config file")
              ELSE Builder!Sourced(Builder!Unset, "default")
  BY AddressIs
<1> HIDE DEF address, first
<1>2. /\ Builder!IsGiven(inputs.url) => first.value = inputs.url /\ first.source = "code"
      /\ first.source = "config file" => Builder!IsGiven(file.url) /\ first.value = file.url
  BY <1>1 DEF Builder!Sourced
<1> QED
  BY <1>2 DEF first

LEMMA NamedUrl ==
  ASSUME NEW inputs, NEW readsEnv, NEW file, Builder!IsGiven(inputs.url)
  PROVE  Builder!Address(inputs, Env, readsEnv, file).value = inputs.url
BY UrlSource

(* What an option, a result or a found credential is made of.              *)
LEMMA OkIs == ASSUME NEW v PROVE Builder!Ok(v).ok /\ Builder!Ok(v).value = v
BY DEF Builder!Ok

LEMMA FromIs ==
  ASSUME NEW s, NEW c PROVE Builder!From(s, c).source = s /\ Builder!From(s, c).credential = c
BY DEF Builder!From

(* A credential that was found names its source, and the version of the    *)
(* config file it was in.                                                  *)
LEMMA Found ==
  ASSUME NEW env, NEW config, NEW credentials, SoundFile(config),
         Builder!Discover(env, config, credentials).ok
  PROVE  LET found == Builder!Discover(env, config, credentials).value
         IN \/ found = Builder!NotFound
            \/ /\ found.source \in {"environment", "config file", "credentials file"}
               /\ found.source = "config file" => found.credential.of = config.version
<1> DEFINE e == Builder!EnvProvider(env)
           c == Builder!ConfigFileCredential(config)
           f == Builder!CredentialsFileCredential(credentials)
           d == Builder!Discover(env, config, credentials)
<1>1. d = IF e.ok
          THEN IF ~Builder!IsNone(e.value) THEN Builder!Ok(Builder!From("environment", e.value))
               ELSE IF c.ok
                    THEN IF ~Builder!IsNone(c.value) THEN Builder!Ok(Builder!From("config file", c.value))
                         ELSE IF f.ok
                              THEN IF ~Builder!IsNone(f.value) THEN Builder!Ok(Builder!From("credentials file", f.value))
                                   ELSE Builder!Ok(Builder!NotFound)
                              ELSE f
                    ELSE c
          ELSE e
  BY DEF Builder!Discover, Builder!Then
<1>2. c.ok /\ ~Builder!IsNone(c.value) => c.value.of = config.version
  BY DEF SoundFile, Builder!ConfigFileCredential, Builder!AuthBlock, Builder!Ok, Builder!Err, Builder!Bearer,
         Builder!Basic, Builder!IsNone, Builder!Nothing
<1> HIDE DEF e, c, f, d
<1>3. d.ok => \/ d = Builder!Ok(Builder!NotFound)
              \/ \E v : d = Builder!Ok(Builder!From("environment", v)) \/ d = Builder!Ok(Builder!From("credentials file", v))
              \/ d = Builder!Ok(Builder!From("config file", c.value)) /\ c.value.of = config.version
  BY <1>1, <1>2
<1>4. d.ok
  BY DEF d
<1>5. \/ d.value = Builder!NotFound
      \/ \E v : d.value = Builder!From("environment", v) \/ d.value = Builder!From("credentials file", v)
      \/ d.value = Builder!From("config file", c.value) /\ c.value.of = config.version
  BY <1>3, <1>4, OkIs
<1> DEFINE w == d.value
<1> HIDE DEF w
<1>6. \/ w = Builder!NotFound
      \/ \E v : w = Builder!From("environment", v) \/ w = Builder!From("credentials file", v)
      \/ w = Builder!From("config file", c.value) /\ c.value.of = config.version
  BY <1>5 DEF w
<1>7. ASSUME NEW v, w = Builder!From("environment", v) \/ w = Builder!From("credentials file", v)
      PROVE  w.source \in {"environment", "credentials file"}
  <2>1. CASE w = Builder!From("environment", v)
    BY <2>1 DEF Builder!From
  <2>2. CASE w = Builder!From("credentials file", v)
    BY <2>2 DEF Builder!From
  <2> QED
    BY <1>7, <2>1, <2>2
<1>8. ASSUME NEW v, w = Builder!From("config file", v)
      PROVE  w.source = "config file" /\ w.credential = v
  BY <1>8 DEF Builder!From
<1>9. \/ w = Builder!NotFound
      \/ w.source \in {"environment", "credentials file"}
      \/ w.source = "config file" /\ w.credential.of = config.version
  BY <1>6, <1>7, <1>8
<1> QED
  BY <1>9 DEF d, w

(* What a resolution says, and that its errors are errors of its own.      *)
LEMMA Resolved ==
  ASSUME NEW inputs, NEW readsEnv, NEW file, NEW body, NEW credentials
  PROVE  LET r    == Builder!Resolve(inputs, Env, readsEnv, file, body, credentials)
             auth == Builder!ResolveAuth(inputs, Env, body, credentials)
         IN r.ok => auth.ok /\ r.value = Builder!Resolution(inputs, Env, readsEnv, file, auth.value)
<1> DEFINE auth    == Builder!ResolveAuth(inputs, Env, body, credentials)
           address == Builder!EnvAddress(inputs, Env, readsEnv)
           garbled == Builder!IsGiven(address) /\ address[1].scheme = "not unicode"
           r == Builder!Resolve(inputs, Env, readsEnv, file, body, credentials)
<1>1. r = IF garbled THEN Builder!Err("config")
          ELSE IF auth.ok THEN Builder!Ok(Builder!Resolution(inputs, Env, readsEnv, file, auth.value))
          ELSE auth
  BY DEF Builder!Resolve, Builder!Then
<1> HIDE DEF auth, garbled, r
<1> SUFFICES ASSUME r.ok
             PROVE  auth.ok /\ r.value = Builder!Resolution(inputs, Env, readsEnv, file, auth.value)
  BY DEF r, auth
<1>2. ~garbled
  BY <1>1 DEF Builder!Err
<1>3. auth.ok
  BY <1>1, <1>2
<1>4. r = Builder!Ok(Builder!Resolution(inputs, Env, readsEnv, file, auth.value))
  BY <1>1, <1>2, <1>3
<1> QED
  BY <1>3, <1>4, OkIs

(* The fields of a resolution that the builder and the reports look at.    *)
LEMMA ResolutionFields ==
  ASSUME NEW inputs, NEW readsEnv, NEW file, NEW auth
  PROVE  LET r == Builder!Resolution(inputs, Env, readsEnv, file, auth)
         IN /\ r.url = Builder!Address(inputs, Env, readsEnv, file)
            /\ r.auth = auth /\ r.refused = Builder!Refused(auth.source, r.url.value)
BY DEF Builder!Resolution

(* A search that fails says why.                                           *)
LEMMA SearchErrs ==
  ASSUME NEW env, NEW config, NEW credentials, SoundFile(config), SoundFile(credentials),
         ~Builder!Discover(env, config, credentials).ok
  PROVE  Builder!Discover(env, config, credentials).error \in {"config", "auth"}
<1> DEFINE e == Builder!EnvProvider(env)
           c == Builder!ConfigFileCredential(config)
           f == Builder!CredentialsFileCredential(credentials)
           d == Builder!Discover(env, config, credentials)
<1>1. d = IF e.ok
          THEN IF ~Builder!IsNone(e.value) THEN Builder!Ok(Builder!From("environment", e.value))
               ELSE IF c.ok
                    THEN IF ~Builder!IsNone(c.value) THEN Builder!Ok(Builder!From("config file", c.value))
                         ELSE IF f.ok
                              THEN IF ~Builder!IsNone(f.value) THEN Builder!Ok(Builder!From("credentials file", f.value))
                                   ELSE Builder!Ok(Builder!NotFound)
                              ELSE f
                    ELSE c
          ELSE e
  BY DEF Builder!Discover, Builder!Then
<1>2. ~e.ok => e.error \in {"config", "auth"}
  <2> DEFINE g == Builder!EnvCredential(env)
             bearer == Builder!Bearer(env.token, "environment")
             basic  == Builder!Basic(env.username, "environment")
  <2>1. (~bearer.ok => bearer.error = "config") /\ (~basic.ok => basic.error = "config")
    BY OkIs DEF Builder!Bearer, Builder!Basic, Builder!Err
  <2>2. g = bearer \/ g = basic \/ g = Builder!Err("config") \/ g = Builder!Err("auth")
    BY DEF Builder!EnvCredential, Builder!HasValue
  <2>3. Builder!Err("config").error = "config" /\ Builder!Err("auth").error = "auth"
    BY DEF Builder!Err
  <2>4. e = Builder!Ok(Builder!Nothing) \/ e = g
    BY DEF Builder!EnvProvider
  <2> HIDE DEF e, g, bearer, basic
  <2> QED
    BY <2>1, <2>2, <2>3, <2>4, OkIs
<1>3. ~c.ok => c.error \in {"config", "auth"}
  BY DEF SoundFile, Builder!ConfigFileCredential, Builder!AuthBlock, Builder!Ok, Builder!Err, Builder!Bearer,
         Builder!Basic
<1>4. ~f.ok => f.error \in {"config", "auth"}
  BY DEF SoundFile, Builder!CredentialsFileCredential, Builder!AuthBlock, Builder!Ok, Builder!Err,
         Builder!Bearer, Builder!Basic
<1> HIDE DEF e, c, f, d
<1>5. ~d.ok => (d = e /\ ~e.ok) \/ (d = c /\ ~c.ok) \/ (d = f /\ ~f.ok)
  BY <1>1, OkIs
<1>6. ~d.ok => d.error \in {"config", "auth"}
  BY <1>2, <1>3, <1>4, <1>5
<1> QED
  BY <1>6 DEF d

(* A resolution that fails says why, and is not mistaken for a handle that *)
(* has no error (builder_from).                                            *)
LEMMA ResolveErrs ==
  ASSUME NEW inputs, NEW readsEnv, NEW file, NEW body, NEW credentials,
         SoundFile(body), SoundFile(credentials),
         ~Builder!Resolve(inputs, Env, readsEnv, file, body, credentials).ok
  PROVE  Builder!Resolve(inputs, Env, readsEnv, file, body, credentials).error \in {"config", "auth"}
<1> DEFINE auth    == Builder!ResolveAuth(inputs, Env, body, credentials)
           address == Builder!EnvAddress(inputs, Env, readsEnv)
           garbled == Builder!IsGiven(address) /\ address[1].scheme = "not unicode"
           r == Builder!Resolve(inputs, Env, readsEnv, file, body, credentials)
<1>1. r = IF garbled THEN Builder!Err("config")
          ELSE IF auth.ok THEN Builder!Ok(Builder!Resolution(inputs, Env, readsEnv, file, auth.value))
          ELSE auth
  BY DEF Builder!Resolve, Builder!Then
<1>2. ~auth.ok => auth.error \in {"config", "auth"}
  BY SearchErrs, OkIs DEF Builder!ResolveAuth
<1> HIDE DEF auth, garbled, r
<1>3. ~r.ok => r.error \in {"config", "auth"}
  BY <1>1, <1>2, OkIs DEF Builder!Err
<1> QED
  BY <1>3 DEF r

(* The credential of a resolution: the one named, or the one found.        *)
LEMMA AuthOf ==
  ASSUME NEW inputs, NEW body, NEW credentials, SoundFile(body),
         Builder!ResolveAuth(inputs, Env, body, credentials).ok
  PROVE  LET auth  == Builder!ResolveAuth(inputs, Env, body, credentials).value
             found == Builder!Discover(Env, body, credentials)
         IN /\ Builder!IsGiven(inputs.auth) => auth = Builder!From("code", inputs.auth[1])
            /\ ~Builder!IsGiven(inputs.auth) => found.ok /\ auth = found.value
<1>1. CASE Builder!IsGiven(inputs.auth)
  BY <1>1, OkIs DEF Builder!ResolveAuth
<1>2. CASE ~Builder!IsGiven(inputs.auth)
  BY <1>2 DEF Builder!ResolveAuth
<1> QED
  BY <1>1, <1>2

(* Where that credential is from, and when it was found rather than named. *)
LEMMA AuthIs ==
  ASSUME NEW inputs, NEW body, NEW credentials, SoundFile(body),
         Builder!ResolveAuth(inputs, Env, body, credentials).ok
  PROVE  LET auth  == Builder!ResolveAuth(inputs, Env, body, credentials).value
         IN /\ auth.source = "none" => auth.credential = Builder!Nothing
            /\ auth.source = "config file" => auth.credential.of = body.version
            /\ auth.source \in {"none", "code"} <=> Builder!IsGiven(inputs.auth) \/ auth = Builder!NotFound
<1> DEFINE auth  == Builder!ResolveAuth(inputs, Env, body, credentials).value
<1>1. CASE Builder!IsGiven(inputs.auth)
  <2>1. auth = Builder!From("code", inputs.auth[1])
    BY <1>1, AuthOf
  <2> HIDE DEF auth
  <2>2. auth.source = "code"
    BY <2>1 DEF Builder!From
  <2>3. /\ auth.source = "none" => auth.credential = Builder!Nothing
        /\ auth.source = "config file" => auth.credential.of = body.version
        /\ auth.source \in {"none", "code"} <=> Builder!IsGiven(inputs.auth) \/ auth = Builder!NotFound
    BY <1>1, <2>2
  <2> QED
    BY <2>3 DEF auth
<1>2. CASE ~Builder!IsGiven(inputs.auth)
  <2>1. \/ auth = Builder!NotFound
        \/ /\ auth.source \in {"environment", "config file", "credentials file"}
           /\ auth.source = "config file" => auth.credential.of = body.version
    <3> DEFINE found == Builder!Discover(Env, body, credentials)
    <3>1. found.ok /\ auth = found.value
      BY <1>2, AuthOf
    <3>2. \/ found.value = Builder!NotFound
          \/ /\ found.value.source \in {"environment", "config file", "credentials file"}
             /\ found.value.source = "config file" => found.value.credential.of = body.version
      BY <3>1, Found
    <3> HIDE DEF auth, found
    <3> QED
      BY <3>1, <3>2
  <2> HIDE DEF auth
  <2>2. Builder!NotFound.source = "none" /\ Builder!NotFound.credential = Builder!Nothing
    BY DEF Builder!NotFound, Builder!From
  <2>3. /\ auth.source = "none" => auth.credential = Builder!Nothing
        /\ auth.source = "config file" => auth.credential.of = body.version
        /\ auth.source \in {"none", "code"} <=> Builder!IsGiven(inputs.auth) \/ auth = Builder!NotFound
    BY <1>2, <2>1, <2>2
  <2> QED
    BY <2>3 DEF auth
<1> QED
  BY <1>1, <1>2

-----------------------------------------------------------------------------
(* What the builder's operations leave in its fields.                      *)

LEMMA WithUrlIs ==
  ASSUME NEW b, IsBuilder(b), NEW url
  PROVE  LET c == Builder!WithUrl(b, url)
         IN IsBuilder(c) /\ c.url = Builder!Given(url) /\ c.auth = b.auth /\ c.foundIn = b.foundIn
BY DEF IsBuilder, Fields, Builder!WithUrl

LEMMA WithAuthIs ==
  ASSUME NEW b, IsBuilder(b), NEW credential
  PROVE  LET c == Builder!WithAuth(b, credential)
         IN IsBuilder(c) /\ c.url = b.url /\ c.auth = credential /\ c.foundIn = "none" /\ c.danger = b.danger
BY DEF IsBuilder, Fields, Builder!WithAuth

LEMMA FoundAuthIs ==
  ASSUME NEW b, IsBuilder(b), NEW found
  PROVE  LET c == Builder!FoundAuth(b, found)
         IN /\ IsBuilder(c) /\ c.url = b.url /\ c.auth = found.credential /\ c.foundIn = found.source
            /\ c.danger = b.danger
BY DEF IsBuilder, Fields, Builder!FoundAuth

(* A builder before anything is set.                                       *)
LEMMA EmptyIs ==
  /\ IsBuilder(Builder!EmptyBuilder)
  /\ Builder!EmptyBuilder.auth = Builder!Nothing /\ Builder!EmptyBuilder.foundIn = "none"
  /\ Builder!EmptyBuilder.url = Builder!Unset
BY DEF IsBuilder, Fields, Builder!EmptyBuilder

(* The builder a resolution makes: a found credential keeps its source.    *)
LEMMA FromResolutionIs ==
  ASSUME NEW r
  PROVE  LET b == Builder!FromResolution(r)
         IN /\ IsBuilder(b) /\ b.url = r.url.value /\ b.danger = r.danger.value[1]
            /\ r.auth.source = "none" => b.auth = Builder!Nothing
            /\ r.auth.source # "none" => b.auth = r.auth.credential
            /\ r.auth.source \in {"none", "code"} => b.foundIn = "none"
            /\ r.auth.source \notin {"none", "code"} => b.foundIn = r.auth.source
<1> DEFINE b == [Builder!EmptyBuilder EXCEPT !.url = r.url.value, !.timeout = r.timeout.value,
                                !.ca = r.ca.value, !.danger = r.danger.value[1]]
           c == Builder!FromResolution(r)
<1>1. /\ IsBuilder(b) /\ b.url = r.url.value /\ b.danger = r.danger.value[1]
      /\ b.auth = Builder!Nothing /\ b.foundIn = "none"
  BY EmptyIs DEF IsBuilder, Fields
<1>2. /\ r.auth.source = "none" => c = b
      /\ r.auth.source = "code" => c = Builder!WithAuth(b, r.auth.credential)
      /\ r.auth.source \notin {"none", "code"} => c = Builder!FoundAuth(b, r.auth)
  BY DEF Builder!FromResolution
<1> HIDE DEF b, c
<1>3. CASE r.auth.source = "none"
  BY <1>1, <1>2, <1>3 DEF c
<1>4. CASE r.auth.source = "code"
  BY <1>1, <1>2, <1>4, WithAuthIs DEF c
<1>5. CASE r.auth.source \notin {"none", "code"}
  <2>1. c = Builder!FoundAuth(b, r.auth) /\ IsBuilder(b)
    BY <1>1, <1>2, <1>5
  <2>2. /\ IsBuilder(c) /\ c.url = b.url /\ c.auth = r.auth.credential /\ c.foundIn = r.auth.source
        /\ c.danger = b.danger
    BY <2>1, FoundAuthIs
  <2> QED
    BY <1>1, <1>5, <2>2 DEF c
<1> QED
  BY <1>3, <1>4, <1>5

(* What build refuses, and what it hands on.                               *)
LEMMA BuildIs ==
  ASSUME NEW b
  PROVE  LET result == Builder!BuildResult(b)
         IN /\ result.ok => result.value = b
            /\ (~result.ok /\ result.error = "refused")
                 <=> (/\ Builder!IsGiven(b.url) /\ b.url[1].scheme \in {"http", "https"}
                      /\ b.foundIn # "none" /\ Builder!PublicPlaintext(b.url[1]))
<1> DEFINE result == Builder!BuildResult(b)
           given   == Builder!IsGiven(b.url)
           valid   == b.url[1].scheme \in {"http", "https"}
           refused == b.foundIn # "none" /\ Builder!PublicPlaintext(b.url[1])
<1>1. \/ (~given \/ ~valid) /\ result = Builder!Err("config")
      \/ given /\ valid /\ refused /\ result = Builder!Err("refused")
      \/ given /\ valid /\ ~refused /\ result = Builder!Ok(b)
  <2>1. CASE ~given
    BY <2>1 DEF Builder!BuildResult
  <2>2. CASE given /\ ~valid
    <3>1. Builder!IsGiven(b.url) /\ b.url[1].scheme \notin {"http", "https"}
      BY <2>2
    <3>2. ~Builder!PublicPlaintext(b.url[1])
      BY <3>1 DEF Builder!PublicPlaintext
    <3> HIDE DEF given, valid, refused
    <3> QED
      BY <2>2, <3>1, <3>2 DEF Builder!BuildResult
  <2>3. CASE given /\ valid /\ refused
    BY <2>3 DEF Builder!BuildResult
  <2>4. CASE given /\ valid /\ ~refused
    BY <2>4 DEF Builder!BuildResult
  <2> QED
    BY <2>1, <2>2, <2>3, <2>4
<1> HIDE DEF result, given, valid, refused
<1>2. /\ ~Builder!Err("config").ok /\ Builder!Err("config").error = "config"
      /\ ~Builder!Err("refused").ok /\ Builder!Err("refused").error = "refused"
  BY DEF Builder!Err
<1>3. (result.ok => result.value = b) /\ ((~result.ok /\ result.error = "refused") <=> (given /\ valid /\ refused))
  BY <1>1, <1>2, OkIs
<1> QED
  BY <1>3 DEF result, given, valid, refused

-----------------------------------------------------------------------------
(* The inductive invariant, step by step.                                  *)

LEMMA SoundOnDisk ==
  ASSUME FilesInv, NEW f \in {"config", "named", "credentials"}
  PROVE  SoundFile(files[f])
BY DEF FilesInv

(* Whatever may be written is sound, and so is what is read.               *)
LEMMA SoundContents ==
  ASSUME NEW f \in {"config", "named", "credentials"}, NEW file \in Builder!Range(Versions[f])
  PROVE  SoundFile(file)
BY VersionsAssumption DEF Range, Builder!Range

(* The address depends on what the caller gave as one.                     *)
LEMMA SameAddress ==
  ASSUME NEW i, NEW j, i.url = j.url, NEW readsEnv, NEW file
  PROVE  Builder!Address(i, Env, readsEnv, file) = Builder!Address(j, Env, readsEnv, file)
BY DEF Builder!Address, Builder!EnvAddress

(* A handle that has only just been made.                                  *)
LEMMA NoHandleIs ==
  LET h == Builder!NoHandle
  IN /\ IsHandle(h) /\ h.inner = Builder!EmptyBuilder /\ h.error = "no handle"
     /\ h.inputs = Builder!NoInputs /\ h.pinned = Builder!Unset /\ ~h.searched
     /\ h.inputs.auth = Builder!Unset /\ IsOrigin(Builder!NoOrigin) /\ Builder!NoOrigin.auth = "none"
     /\ Builder!NoOrigin.url = "none"
<1>1. /\ Fields(Builder!NoHandle, {"inner", "error", "inputs", "readsEnv", "searched", "file", "pinned"})
      /\ Builder!NoHandle.inner = Builder!EmptyBuilder /\ Builder!NoHandle.error = "no handle"
      /\ Builder!NoHandle.inputs = Builder!NoInputs /\ Builder!NoHandle.pinned = Builder!Unset
      /\ ~Builder!NoHandle.searched /\ Builder!NoHandle.file = "config"
  BY DEF Fields, Builder!NoHandle
<1>2. IsInputs(Builder!NoInputs) /\ Builder!NoInputs.auth = Builder!Unset
  BY DEF Fields, IsInputs, Builder!NoInputs
<1>3. IsOrigin(Builder!NoOrigin) /\ Builder!NoOrigin.auth = "none" /\ Builder!NoOrigin.url = "none"
  BY DEF Fields, IsOrigin, Builder!NoOrigin
<1> QED
  BY <1>1, <1>2, <1>3, EmptyIs DEF IsHandle

(* Before anything is built.                                               *)
LEMMA InitHolds == Builder!Init => BuilderInv
<1> SUFFICES ASSUME Builder!Init
             PROVE  BuilderInv
  OBVIOUS
<1> USE DEF Builder!Init, Builder!IsGiven
<1>1. FilesInv
  <2>1. files = [f \in {"config", "named", "credentials"} |-> files[f]]
    OBVIOUS
  <2>2. \A f \in DOMAIN files : SoundFile(files[f])
    BY <2>1, SoundContents
  <2> QED
    BY <2>1, <2>2 DEF FilesInv
<1>2. LookupInv /\ ReportInv /\ OutcomeInv
  BY DEF LookupInv, ReportInv, OutcomeInv
<1>3. HandleInv
  BY NoHandleIs DEF HandleInv, PinnedInv, Builder!OneSnapshot, Builder!HasHandle
<1> QED
  BY <1>1, <1>2, <1>3 DEF BuilderInv

(* A step that leaves the files alone keeps what is known of them.         *)
LEMMA FilesStay ==
  ASSUME BuilderInv, UNCHANGED <<files, writes>> PROVE FilesInv'
BY DEF BuilderInv, FilesInv

LEMMA LookupStays ==
  ASSUME BuilderInv, UNCHANGED <<files, writes, lookup>> PROVE LookupInv'
BY DEF BuilderInv, LookupInv

(* A rewrite changes a file and nothing else; from then on nothing is said *)
(* of what the files held.                                                 *)
LEMMA RewriteHolds ==
  ASSUME BuilderInv, NEW f \in DOMAIN files, Builder!Rewrite(f) PROVE BuilderInv'
<1>0. /\ FilesInv /\ LookupInv /\ HandleInv /\ ReportInv /\ OutcomeInv
      /\ writes' = writes + 1 /\ writes \in Nat /\ f \in {"config", "named", "credentials"}
  BY DEF BuilderInv, FilesInv, Builder!Rewrite
<1>1. PICK file \in Builder!Range(Versions[f]) : files' = [files EXCEPT ![f] = file]
  BY DEF Builder!Rewrite
<1>2. SoundFile(file)
  BY <1>0, <1>1, SoundContents
<1>3. FilesInv'
  <2>1. files' = [g \in {"config", "named", "credentials"} |-> files'[g]]
    BY <1>0, <1>1 DEF FilesInv
  <2>2. ASSUME NEW g \in DOMAIN files' PROVE SoundFile(files'[g])
    BY <1>0, <1>1, <1>2, <2>2 DEF FilesInv
  <2> QED
    BY <1>0, <2>1, <2>2 DEF FilesInv
<1>4. writes' # 0 /\ UNCHANGED <<lookup, handle, report, built, origin, calls>>
  BY <1>0 DEF Builder!Rewrite
<1>5. LookupInv'
  BY <1>0, <1>4 DEF LookupInv
<1>6. HandleInv'
  BY <1>0, <1>4 DEF HandleInv, PinnedInv, OriginInv, Builder!OneSnapshot, Builder!HasHandle
<1>7. ReportInv' /\ OutcomeInv'
  BY <1>0, <1>4 DEF ReportInv, OutcomeInv, Builder!HasHandle
<1> QED
  BY <1>3, <1>5, <1>6, <1>7 DEF BuilderInv

(* A builder that is given its address (aviso_client_builder_new).         *)
LEMMA NewBuilderHolds ==
  ASSUME BuilderInv, NEW url, Builder!NewBuilder(url) PROVE BuilderInv'
<1>0. /\ FilesInv /\ LookupInv /\ HandleInv /\ ReportInv /\ OutcomeInv
      /\ UNCHANGED <<files, lookup, report, built, writes, calls>>
      /\ ~Builder!HasHandle /\ handle = Builder!NoHandle
      /\ origin = Builder!NoOrigin /\ origin' = [origin EXCEPT !.url = "named"]
      /\ handle' = [Builder!NoHandle EXCEPT !.inner = Builder!WithUrl(Builder!EmptyBuilder, url), !.error = "none",
                                            !.inputs.url = Builder!Given(url)]
  BY DEF BuilderInv, HandleInv, Builder!NewBuilder, Builder!HasHandle
<1> DEFINE inputs == [Builder!NoInputs EXCEPT !.url = Builder!Given(url)]
           inner  == Builder!WithUrl(Builder!EmptyBuilder, url)
<1>1. /\ IsInputs(inputs) /\ inputs.url = Builder!Given(url) /\ inputs.auth = Builder!Unset
  BY NoHandleIs DEF IsHandle, IsInputs, Fields
<1>2. /\ IsBuilder(inner) /\ inner.url = Builder!Given(url) /\ inner.auth = Builder!Nothing
      /\ inner.foundIn = "none"
  BY EmptyIs, WithUrlIs
<1> HIDE DEF inputs, inner
<1>3. /\ IsHandle(handle') /\ handle'.inner = inner /\ handle'.inputs = inputs /\ handle'.error = "none"
      /\ handle'.pinned = Builder!Unset /\ ~handle'.searched
  <2>1. handle' = [Builder!NoHandle EXCEPT !.inner = inner, !.error = "none", !.inputs = inputs]
    BY <1>0, NoHandleIs DEF inner, inputs, IsHandle, Fields
  <2> QED
    BY <1>1, <1>2, <2>1, NoHandleIs DEF IsHandle, Fields
<1>4. IsOrigin(origin') /\ origin'.url = "named" /\ origin'.auth = "none"
  BY <1>0, NoHandleIs DEF IsOrigin, Fields
<1>5. FilesInv' /\ LookupInv'
  BY <1>0, FilesStay, LookupStays
<1>6. ~Builder!IsGiven(report) /\ ~Builder!IsGiven(built)
  BY <1>0, NoHandleIs DEF ReportInv, OutcomeInv
<1>7. ReportInv' /\ OutcomeInv'
  BY <1>0, <1>6 DEF ReportInv, OutcomeInv
<1>8. PinnedInv' /\ Builder!OneSnapshot' /\ OriginInv' /\ Builder!HasHandle'
  BY <1>2, <1>3, <1>4, NoHandleIs DEF PinnedInv, Builder!OneSnapshot, OriginInv, Builder!IsGiven, Builder!HasHandle
<1>9. FollowsInv'
  <2>1. Builder!Address(inputs, Env, handle'.readsEnv, files'[handle'.file]).value = inputs.url
    <3>1. Builder!IsGiven(inputs.url)
      BY <1>1 DEF Builder!IsGiven, Builder!Given, Builder!Unset
    <3> QED
      BY <3>1, NamedUrl
  <2> QED
    BY <1>1, <1>2, <1>3, <2>1 DEF FollowsInv, Builder!IsGiven
<1> QED
  BY <1>3, <1>4, <1>5, <1>7, <1>8, <1>9 DEF BuilderInv, HandleInv

(* What a constructor may be given is a record of inputs.                  *)
LEMMA InputsAre ==
  ASSUME NEW inputs \in Builder!Inputs PROVE IsInputs(inputs)
<1>1. IsInputs(Builder!NoInputs)
  BY NoHandleIs DEF IsHandle
<1> QED
  BY <1>1 DEF IsInputs, Fields, Builder!Inputs

(* The config file is read, or the handle keeps the error.                 *)
LEMMA ReadConfigHolds ==
  ASSUME BuilderInv, NEW file \in {"config", "named"}, NEW readsEnv, NEW inputs \in Builder!Inputs,
         Builder!ReadConfig(file, readsEnv, inputs)
  PROVE  BuilderInv'
<1>0. /\ FilesInv /\ LookupInv /\ HandleInv /\ ReportInv /\ OutcomeInv
      /\ UNCHANGED <<files, report, built, origin, writes, calls>>
      /\ ~Builder!HasHandle /\ handle = Builder!NoHandle /\ origin = Builder!NoOrigin
  BY DEF BuilderInv, HandleInv, Builder!ReadConfig, Builder!HasHandle
<1> DEFINE l == [file |-> file, readsEnv |-> readsEnv, inputs |-> inputs, content |-> files[file]]
<1>1. \/ lookup' = Builder!Given(l) /\ UNCHANGED handle
      \/ handle' = [Builder!NoHandle EXCEPT !.error = "config"] /\ UNCHANGED lookup
  BY DEF Builder!ReadConfig
<1>2. ~Builder!IsGiven(report) /\ ~Builder!IsGiven(built)
  BY <1>0, NoHandleIs DEF ReportInv, OutcomeInv
<1>3. FilesInv' /\ ReportInv' /\ OutcomeInv'
  BY <1>0, <1>2, FilesStay DEF ReportInv, OutcomeInv
<1>4. CASE lookup' = Builder!Given(l) /\ UNCHANGED handle
  <2>1. /\ l.file \in {"config", "named"} /\ SoundFile(l.content) /\ IsInputs(l.inputs)
        /\ l.content = files'[l.file]
    BY <1>0, InputsAre, SoundOnDisk
  <2> HIDE DEF l
  <2>2. LookupInv'
    BY <1>4, <2>1 DEF LookupInv, Builder!Given
  <2>3. HandleInv'
    BY <1>0, <1>4 DEF HandleInv, PinnedInv, OriginInv, FollowsInv, Builder!OneSnapshot, Builder!HasHandle
  <2> QED
    BY <1>3, <2>2, <2>3 DEF BuilderInv
<1>5. CASE handle' = [Builder!NoHandle EXCEPT !.error = "config"] /\ UNCHANGED lookup
  <2>1. LookupInv'
    BY <1>0, <1>5, LookupStays
  <2>2. IsHandle(handle') /\ handle'.error = "config" /\ handle'.pinned = Builder!Unset
    BY <1>5, NoHandleIs DEF IsHandle, Fields
  <2>3. HandleInv'
    BY <1>0, <2>2, NoHandleIs DEF HandleInv, PinnedInv, Builder!OneSnapshot, Builder!HasHandle, Builder!IsGiven
  <2> QED
    BY <1>3, <2>1, <2>3 DEF BuilderInv
<1> QED
  BY <1>1, <1>4, <1>5

(* A lookup that succeeds makes the builder its resolution describes.      *)
FinishedHandle(l) ==
  [Builder!NoHandle EXCEPT !.inputs = l.inputs, !.readsEnv = l.readsEnv, !.searched = TRUE, !.file = l.file,
                           !.pinned = IF l.file = "named" THEN Builder!Given(l.content) ELSE Builder!Unset]

FinishResolution(l) == Builder!Resolve(l.inputs, Env, l.readsEnv, l.content, l.content, files["credentials"])

FinishFails(l, r) ==
  /\ ~r.ok \/ r.value.ca.value = Builder!Given("not a certificate")
  /\ handle' = [FinishedHandle(l) EXCEPT !.error = IF r.ok THEN "config" ELSE r.error]
  /\ UNCHANGED <<report, origin>>

FinishSucceeds(l, r) ==
  /\ r.ok
  /\ handle' = [FinishedHandle(l) EXCEPT !.inner = Builder!FromResolution(r.value), !.error = "none"]
  /\ report' = Builder!Given(r.value)
  /\ origin' = [origin EXCEPT !.url = r.value.url.source, !.auth = r.value.auth.source]

(* The two ends of a lookup.                                               *)
LEMMA FinishEffect ==
  ASSUME Builder!Finish
  PROVE  /\ Builder!IsGiven(lookup) /\ ~Builder!HasHandle /\ UNCHANGED <<files, lookup, built, writes, calls>>
         /\ \/ FinishFails(lookup[1], FinishResolution(lookup[1]))
            \/ FinishSucceeds(lookup[1], FinishResolution(lookup[1]))
<1> DEFINE l == lookup[1]
           r == FinishResolution(l)
           bad == ~r.ok \/ r.value.ca.value = Builder!Given("not a certificate")
<1>1. IF bad
      THEN /\ handle' = [FinishedHandle(l) EXCEPT !.error = IF r.ok THEN "config" ELSE r.error]
           /\ UNCHANGED <<report, origin>>
      ELSE /\ handle' = [FinishedHandle(l) EXCEPT !.inner = Builder!FromResolution(r.value), !.error = "none"]
           /\ report' = Builder!Given(r.value)
           /\ origin' = [origin EXCEPT !.url = r.value.url.source, !.auth = r.value.auth.source]
  BY DEF Builder!Finish, FinishedHandle, FinishResolution, Builder!Content
<1>2. Builder!IsGiven(lookup) /\ ~Builder!HasHandle /\ UNCHANGED <<files, lookup, built, writes, calls>>
  BY DEF Builder!Finish
<1> HIDE DEF l, r
<1>3. FinishFails(l, r) \/ FinishSucceeds(l, r)
  <2>1. CASE bad
    <3> HIDE DEF bad
    <3>1. ~r.ok \/ r.value.ca.value = Builder!Given("not a certificate")
      BY <2>1 DEF bad
    <3> QED
      BY <1>1, <2>1, <3>1 DEF FinishFails
  <2>2. CASE ~bad
    <3>1. r.ok
      BY <2>2
    <3> HIDE DEF bad
    <3> QED
      BY <1>1, <2>2, <3>1 DEF FinishSucceeds
  <2> QED
    BY <2>1, <2>2
<1> QED
  BY <1>2, <1>3 DEF r, l

(* What a handle made from files remembers.                                *)
LEMMA FinishedHandleIs ==
  ASSUME NEW l, IsInputs(l.inputs), l.file \in {"config", "named"}
  PROVE  LET h == FinishedHandle(l)
         IN /\ IsHandle(h) /\ h.inputs = l.inputs /\ h.readsEnv = l.readsEnv /\ h.searched /\ h.file = l.file
            /\ Builder!IsGiven(h.pinned) => h.pinned[1] = l.content
<1> DEFINE pinned == IF l.file = "named" THEN Builder!Given(l.content) ELSE Builder!Unset
           h == FinishedHandle(l)
<1>1. Builder!IsGiven(pinned) => pinned[1] = l.content
  BY DEF Builder!IsGiven, Builder!Given, Builder!Unset
<1>2. h = [Builder!NoHandle EXCEPT !.inputs = l.inputs, !.readsEnv = l.readsEnv, !.searched = TRUE, !.file = l.file,
                                   !.pinned = pinned]
  BY DEF FinishedHandle
<1> HIDE DEF pinned, h
<1>3. /\ Fields(h, {"inner", "error", "inputs", "readsEnv", "searched", "file", "pinned"})
      /\ h.inner = Builder!NoHandle.inner /\ h.inputs = l.inputs /\ h.readsEnv = l.readsEnv /\ h.searched = TRUE
      /\ h.file = l.file /\ h.pinned = pinned
  BY <1>2, NoHandleIs DEF IsHandle, Fields
<1>4. IsHandle(h)
  BY <1>3, NoHandleIs DEF IsHandle
<1> QED
  BY <1>1, <1>3, <1>4 DEF h

(* The rest of resolve: the address and the credential come from the text  *)
(* that was read, and the report is what the builder is made of.           *)
LEMMA FinishHolds ==
  ASSUME BuilderInv, Builder!Finish PROVE BuilderInv'
<1> DEFINE l == lookup[1]
           r == FinishResolution(l)
<1>0. /\ FilesInv /\ LookupInv /\ HandleInv /\ ReportInv /\ OutcomeInv
      /\ UNCHANGED <<files, lookup, built, writes, calls>>
      /\ Builder!IsGiven(lookup) /\ ~Builder!HasHandle /\ handle = Builder!NoHandle /\ origin = Builder!NoOrigin
  BY FinishEffect DEF BuilderInv, HandleInv, Builder!HasHandle
<1>1. /\ l.file \in {"config", "named"} /\ SoundFile(l.content) /\ IsInputs(l.inputs)
      /\ writes = 0 => l.content = files[l.file]
  BY <1>0 DEF LookupInv
<1>2. SoundFile(files["credentials"])
  BY <1>0, SoundOnDisk
<1>3. ~Builder!IsGiven(report) /\ ~Builder!IsGiven(built)
  BY <1>0, NoHandleIs DEF ReportInv, OutcomeInv
<1>4. FilesInv' /\ LookupInv' /\ OutcomeInv'
  BY <1>0, <1>3, FilesStay, LookupStays DEF OutcomeInv
<1>5. LET h == FinishedHandle(l)
      IN /\ IsHandle(h) /\ h.inputs = l.inputs /\ h.readsEnv = l.readsEnv /\ h.searched /\ h.file = l.file
         /\ Builder!IsGiven(h.pinned) => h.pinned[1] = l.content
  BY <1>1, FinishedHandleIs
<1>6. ~r.ok => r.error \in {"config", "auth"}
  BY <1>1, <1>2, ResolveErrs DEF FinishResolution
<1>7. FinishFails(l, r) \/ FinishSucceeds(l, r)
  BY FinishEffect
<1> DEFINE auth == Builder!ResolveAuth(l.inputs, Env, l.content, files["credentials"])
           found == Builder!Discover(Env, l.content, files["credentials"])
           v == r.value
<1>8. r.ok => /\ auth.ok /\ v.auth = auth.value
              /\ v.url = Builder!Address(l.inputs, Env, l.readsEnv, l.content)
              /\ v.refused = Builder!Refused(v.auth.source, v.url.value)
  BY Resolved, ResolutionFields DEF FinishResolution
<1>9. r.ok => /\ v.auth.source = "none" => v.auth.credential = Builder!Nothing
              /\ v.auth.source = "config file" => v.auth.credential.of = l.content.version
              /\ v.auth.source \in {"none", "code"} <=> Builder!IsGiven(l.inputs.auth) \/ v.auth = Builder!NotFound
              /\ Builder!IsGiven(l.inputs.auth) => v.auth = Builder!From("code", l.inputs.auth[1])
              /\ ~Builder!IsGiven(l.inputs.auth) => found.ok /\ v.auth = found.value
  <2> SUFFICES ASSUME r.ok
               PROVE  /\ v.auth.source = "none" => v.auth.credential = Builder!Nothing
                      /\ v.auth.source = "config file" => v.auth.credential.of = l.content.version
                      /\ v.auth.source \in {"none", "code"} <=> Builder!IsGiven(l.inputs.auth) \/ v.auth = Builder!NotFound
                      /\ Builder!IsGiven(l.inputs.auth) => v.auth = Builder!From("code", l.inputs.auth[1])
                      /\ ~Builder!IsGiven(l.inputs.auth) => found.ok /\ v.auth = found.value
    OBVIOUS
  <2>1. auth.ok /\ v.auth = auth.value
    BY <1>8
  <2>2. /\ auth.value.source = "none" => auth.value.credential = Builder!Nothing
        /\ auth.value.source = "config file" => auth.value.credential.of = l.content.version
        /\ auth.value.source \in {"none", "code"} <=> Builder!IsGiven(l.inputs.auth) \/ auth.value = Builder!NotFound
    <3> DEFINE i == l.inputs
               c == l.content
               k == files["credentials"]
    <3>1. SoundFile(c) /\ Builder!ResolveAuth(i, Env, c, k).ok
      BY <1>1, <2>1
    <3> HIDE DEF i, c, k
    <3>2. LET a == Builder!ResolveAuth(i, Env, c, k).value
          IN /\ a.source = "none" => a.credential = Builder!Nothing
             /\ a.source = "config file" => a.credential.of = c.version
             /\ a.source \in {"none", "code"} <=> Builder!IsGiven(i.auth) \/ a = Builder!NotFound
      BY <3>1, AuthIs
    <3> QED
      BY <3>2 DEF i, c, k
  <2>3. /\ Builder!IsGiven(l.inputs.auth) => auth.value = Builder!From("code", l.inputs.auth[1])
        /\ ~Builder!IsGiven(l.inputs.auth) => found.ok /\ auth.value = found.value
    BY <1>1, <2>1, AuthOf
  <2> HIDE DEF auth, found, v, r, l
  <2> QED
    BY <2>1, <2>2, <2>3
<1>10. r.ok => (v.url.source = "config file" => v.url.value[1].of = l.content.version)
  <2> DEFINE address == Builder!Address(l.inputs, Env, l.readsEnv, l.content)
  <2>1. address.source = "config file" => Builder!IsGiven(l.content.url) /\ address.value = l.content.url
    BY UrlSource
  <2>2. r.ok => v.url = address
    BY <1>8
  <2> HIDE DEF address, v, r, l
  <2> QED
    BY <1>1, <2>1, <2>2 DEF SoundFile
<1> HIDE DEF l, r, auth, found, v
<1>11. CASE FinishFails(l, r)
  <2>1. /\ IsHandle(handle') /\ handle'.error # "none" /\ handle'.file = l.file
        /\ Builder!IsGiven(handle'.pinned) => handle'.pinned[1] = l.content
    <3>1. handle' = [FinishedHandle(l) EXCEPT !.error = IF r.ok THEN "config" ELSE r.error]
      BY <1>11 DEF FinishFails
    <3>2. (IF r.ok THEN "config" ELSE r.error) # "none"
      BY <1>6
    <3> QED
      BY <1>5, <3>1, <3>2 DEF IsHandle, Fields
  <2>2. UNCHANGED <<report, origin>>
    BY <1>11 DEF FinishFails
  <2>3. ReportInv'
    BY <1>3, <2>2 DEF ReportInv
  <2>4. HandleInv'
    BY <1>0, <1>1, <2>1, <2>2, NoHandleIs DEF HandleInv, PinnedInv, Builder!OneSnapshot, Builder!HasHandle
  <2> QED
    BY <1>4, <2>3, <2>4 DEF BuilderInv
<1>12. CASE FinishSucceeds(l, r)
  <2> DEFINE b == Builder!FromResolution(v)
  <2>0. r.ok
    BY <1>12 DEF FinishSucceeds
  <2>1. /\ IsBuilder(b) /\ b.url = v.url.value
        /\ v.auth.source = "none" => b.auth = Builder!Nothing
        /\ v.auth.source # "none" => b.auth = v.auth.credential
        /\ v.auth.source \in {"none", "code"} => b.foundIn = "none"
        /\ v.auth.source \notin {"none", "code"} => b.foundIn = v.auth.source
    BY FromResolutionIs
  <2> HIDE DEF b
  <2>2. b.auth = v.auth.credential
    BY <1>9, <2>0, <2>1
  <2>3. handle' = [FinishedHandle(l) EXCEPT !.inner = b, !.error = "none"]
    BY <1>12 DEF FinishSucceeds, b, v
  <2>4. /\ IsHandle(handle') /\ handle'.error = "none" /\ handle'.file = l.file /\ handle'.inner = b
        /\ Builder!IsGiven(handle'.pinned) => handle'.pinned[1] = l.content
        /\ handle'.inputs = l.inputs /\ handle'.readsEnv = l.readsEnv /\ handle'.searched
    BY <1>5, <2>1, <2>3 DEF IsHandle, Fields
  <2>5. report' = Builder!Given(v)
    BY <1>12 DEF FinishSucceeds, v
  <2>6. IsOrigin(origin') /\ origin'.url = v.url.source /\ origin'.auth = v.auth.source
    <3>1. origin' = [origin EXCEPT !.url = v.url.source, !.auth = v.auth.source]
      BY <1>12 DEF FinishSucceeds, v
    <3> QED
      BY <1>0, <3>1, NoHandleIs DEF IsOrigin, Fields
  <2>7. ReportInv'
    BY <1>8, <1>9, <2>0, <2>4, <2>5 DEF ReportInv, Builder!Given, b
  <2>8. PinnedInv' /\ Builder!HasHandle'
    BY <1>0, <1>1, <2>4, NoHandleIs DEF PinnedInv, Builder!HasHandle
  <2>9. OriginInv'
    <3>1. b.foundIn = "none" <=> v.auth.source \in {"none", "code"}
      BY <2>1
    <3>2. v.url.source = "config file" /\ Builder!IsGiven(handle'.pinned)
            => b.url[1].of = handle'.pinned[1].version
      BY <1>10, <2>0, <2>1, <2>4
    <3> QED
      BY <2>4, <2>6, <3>1, <3>2 DEF OriginInv
  <2>10. Builder!OneSnapshot'
    <3>1. v.url.source = "config file" /\ v.auth.source = "config file" => b.auth.of = b.url[1].of
      BY <1>9, <1>10, <2>0, <2>1, <2>2
    <3> QED
      BY <2>4, <2>6, <3>1 DEF Builder!OneSnapshot
  <2>11. writes' = 0 => FollowsInv'
    <3> SUFFICES ASSUME writes' = 0 PROVE FollowsInv'
      OBVIOUS
    <3>1. files'[handle'.file] = l.content
      BY <1>0, <1>1, <2>4
    <3>2. b.url = Builder!Address(handle'.inputs, Env, handle'.readsEnv, files'[handle'.file]).value
      BY <1>8, <2>0, <2>1, <2>4, <3>1
    <3>3. found = Builder!Discover(Env, files'[handle'.file], files'["credentials"])
      BY <1>0, <3>1 DEF found
    <3>4. Builder!IsGiven(l.inputs.auth) => b.auth = l.inputs.auth[1] /\ b.foundIn = "none"
      <4> DEFINE c == l.inputs.auth[1]
      <4>1. Builder!From("code", c).source = "code" /\ Builder!From("code", c).credential = c
        BY DEF Builder!From
      <4> HIDE DEF c
      <4>2. Builder!IsGiven(l.inputs.auth) => v.auth = Builder!From("code", c)
        BY <1>9, <2>0 DEF c
      <4>3. Builder!IsGiven(l.inputs.auth) => b.auth = c /\ b.foundIn = "none"
        BY <2>1, <2>2, <4>1, <4>2
      <4> QED
        BY <4>3 DEF c
    <3>5. ~Builder!IsGiven(l.inputs.auth) => b.auth = found.value.credential /\ b.foundIn = found.value.source
      <4>1. Builder!NotFound.source = "none"
        BY DEF Builder!NotFound, Builder!From
      <4> QED
        BY <1>9, <2>0, <2>1, <2>2, <4>1
    <3> QED
      BY <2>4, <3>2, <3>3, <3>4, <3>5 DEF FollowsInv
  <2> QED
    BY <1>4, <2>4, <2>6, <2>7, <2>8, <2>9, <2>10, <2>11 DEF BuilderInv, HandleInv
<1> QED
  BY <1>7, <1>11, <1>12

(* The setters: the inner builder and the inputs change together.          *)
Changed(inner, inputs) == handle' = [handle EXCEPT !.inner = inner, !.inputs = inputs]

LEMMA ChangedIs ==
  ASSUME IsHandle(handle), NEW inner, IsBuilder(inner), NEW inputs, IsInputs(inputs), Changed(inner, inputs)
  PROVE  /\ IsHandle(handle') /\ handle'.inner = inner /\ handle'.inputs = inputs
         /\ handle'.error = handle.error /\ handle'.readsEnv = handle.readsEnv
         /\ handle'.searched = handle.searched /\ handle'.file = handle.file /\ handle'.pinned = handle.pinned
BY DEF IsHandle, Fields, Changed

(* What a setter finds, and what it leaves alone.                          *)
LEMMA SetterHolds ==
  ASSUME BuilderInv, Builder!Usable, Builder!Called
  PROVE  /\ FilesInv /\ LookupInv /\ HandleInv /\ OriginInv /\ (writes = 0 => FollowsInv) /\ IsHandle(handle)
         /\ handle.error = "none" /\ IsOrigin(origin) /\ handle # Builder!NoHandle
         /\ UNCHANGED <<files, lookup, built, writes>>
         /\ FilesInv' /\ LookupInv' /\ ReportInv' /\ OutcomeInv'
<1>1. /\ FilesInv /\ LookupInv /\ HandleInv /\ ReportInv /\ OutcomeInv
      /\ handle.error = "none" /\ ~Builder!IsGiven(built) /\ handle # Builder!NoHandle
      /\ UNCHANGED <<files, lookup, built, writes>> /\ report' = Builder!Unset
  BY DEF BuilderInv, Builder!Usable, Builder!Called, Builder!HasHandle
<1>2. OriginInv /\ (writes = 0 => FollowsInv) /\ IsHandle(handle) /\ IsOrigin(origin)
  BY <1>1 DEF HandleInv
<1>3. FilesInv' /\ LookupInv'
  BY <1>1, FilesStay, LookupStays
<1>4. ReportInv' /\ OutcomeInv'
  BY <1>1 DEF ReportInv, OutcomeInv, Builder!IsGiven
<1> QED
  BY <1>1, <1>2, <1>3, <1>4

(* What was pinned stays pinned.                                           *)
LEMMA PinnedStays ==
  ASSUME PinnedInv, UNCHANGED <<files, writes>>, handle'.pinned = handle.pinned, handle'.file = handle.file
  PROVE  PinnedInv'
BY DEF PinnedInv

(* base_url: the address is the one the caller named.                      *)
LEMMA SetUrlHolds ==
  ASSUME BuilderInv, NEW url, Builder!SetUrl(url) PROVE BuilderInv'
<1> DEFINE inner  == Builder!WithUrl(handle.inner, url)
           inputs == [handle.inputs EXCEPT !.url = Builder!Given(url)]
<1>1. Builder!Usable /\ Builder!Called /\ origin' = [origin EXCEPT !.url = "named"]
  BY DEF Builder!SetUrl
<1>2. /\ FilesInv /\ LookupInv /\ HandleInv /\ OriginInv /\ (writes = 0 => FollowsInv) /\ IsHandle(handle)
      /\ handle.error = "none" /\ IsOrigin(origin) /\ handle # Builder!NoHandle
      /\ UNCHANGED <<files, lookup, built, writes>>
      /\ FilesInv' /\ LookupInv' /\ ReportInv' /\ OutcomeInv'
  BY <1>1, SetterHolds
<1>3. Changed(inner, inputs)
  BY <1>2 DEF Builder!SetUrl, Changed, IsHandle, Fields
<1>4. /\ IsBuilder(inner) /\ inner.url = Builder!Given(url) /\ inner.auth = handle.inner.auth
      /\ inner.foundIn = handle.inner.foundIn
  BY <1>2, WithUrlIs DEF IsHandle
<1>5. IsInputs(inputs) /\ inputs.url = Builder!Given(url) /\ inputs.auth = handle.inputs.auth
  BY <1>2 DEF IsHandle, IsInputs, Fields
<1> HIDE DEF inner, inputs
<1>6. /\ IsHandle(handle') /\ handle'.inner = inner /\ handle'.inputs = inputs
      /\ handle'.error = handle.error /\ handle'.readsEnv = handle.readsEnv
      /\ handle'.searched = handle.searched /\ handle'.file = handle.file /\ handle'.pinned = handle.pinned
  BY <1>2, <1>3, <1>4, <1>5, ChangedIs
<1>7. IsOrigin(origin') /\ origin'.url = "named" /\ origin'.auth = origin.auth
  BY <1>1, <1>2 DEF IsOrigin, Fields
<1>8. PinnedInv' /\ Builder!HasHandle'
  BY <1>2, <1>6, PinnedStays, NoHandleIs DEF HandleInv, Builder!HasHandle
<1>9. OriginInv' /\ Builder!OneSnapshot'
  BY <1>2, <1>4, <1>6, <1>7 DEF OriginInv, Builder!OneSnapshot
<1>10. writes' = 0 => FollowsInv'
  <2>1. Builder!Address(inputs, Env, handle.readsEnv, files[handle.file]).value = Builder!Given(url)
    <3>1. Builder!IsGiven(inputs.url)
      BY <1>5 DEF Builder!IsGiven, Builder!Given, Builder!Unset
    <3>2. Builder!Address(inputs, Env, handle.readsEnv, files[handle.file]).value = inputs.url
      BY <3>1, NamedUrl
    <3> QED
      BY <1>5, <3>2
  <2> QED
    BY <1>2, <1>4, <1>5, <1>6, <2>1 DEF FollowsInv
<1> QED
  BY <1>2, <1>6, <1>7, <1>8, <1>9, <1>10 DEF BuilderInv, HandleInv

(* A credential, or none, that the caller names.                           *)
LEMMA NamedHolds ==
  ASSUME BuilderInv, Builder!Usable, Builder!Called, NEW credential,
         handle' = [handle EXCEPT !.inner = Builder!WithAuth(@, credential), !.inputs.auth = Builder!Given(credential)],
         origin' = [origin EXCEPT !.auth = "code"]
  PROVE  BuilderInv'
<1> DEFINE inner  == Builder!WithAuth(handle.inner, credential)
           inputs == [handle.inputs EXCEPT !.auth = Builder!Given(credential)]
<1>2. /\ FilesInv /\ LookupInv /\ HandleInv /\ OriginInv /\ (writes = 0 => FollowsInv) /\ IsHandle(handle)
      /\ handle.error = "none" /\ IsOrigin(origin) /\ handle # Builder!NoHandle
      /\ UNCHANGED <<files, lookup, built, writes>>
      /\ FilesInv' /\ LookupInv' /\ ReportInv' /\ OutcomeInv'
  BY SetterHolds
<1>3. Changed(inner, inputs)
  BY <1>2 DEF Changed, IsHandle, Fields
<1>4. /\ IsBuilder(inner) /\ inner.url = handle.inner.url /\ inner.auth = credential /\ inner.foundIn = "none"
  BY <1>2, WithAuthIs DEF IsHandle
<1>5. IsInputs(inputs) /\ inputs.url = handle.inputs.url /\ inputs.auth = Builder!Given(credential)
  BY <1>2 DEF IsHandle, IsInputs, Fields
<1> HIDE DEF inner, inputs
<1>6. /\ IsHandle(handle') /\ handle'.inner = inner /\ handle'.inputs = inputs
      /\ handle'.error = handle.error /\ handle'.readsEnv = handle.readsEnv
      /\ handle'.searched = handle.searched /\ handle'.file = handle.file /\ handle'.pinned = handle.pinned
  BY <1>2, <1>3, <1>4, <1>5, ChangedIs
<1>7. IsOrigin(origin') /\ origin'.url = origin.url /\ origin'.auth = "code"
  BY <1>2 DEF IsOrigin, Fields
<1>8. PinnedInv' /\ Builder!HasHandle'
  BY <1>2, <1>6, PinnedStays, NoHandleIs DEF HandleInv, Builder!HasHandle
<1>9. OriginInv' /\ Builder!OneSnapshot'
  BY <1>2, <1>4, <1>6, <1>7 DEF OriginInv, Builder!OneSnapshot
<1>10. writes' = 0 => FollowsInv'
  <2>1. Builder!Address(inputs, Env, handle.readsEnv, files[handle.file])
          = Builder!Address(handle.inputs, Env, handle.readsEnv, files[handle.file])
    BY <1>5, SameAddress
  <2>2. Builder!IsGiven(inputs.auth) /\ inputs.auth[1] = credential
    BY <1>5 DEF Builder!IsGiven, Builder!Given, Builder!Unset
  <2> QED
    BY <1>2, <1>4, <1>6, <2>1, <2>2 DEF FollowsInv
<1> QED
  BY <1>2, <1>6, <1>7, <1>8, <1>9, <1>10 DEF BuilderInv, HandleInv

(* A setter that fails leaves its error.                                   *)
LEMMA FailedHolds ==
  ASSUME BuilderInv, Builder!Usable, Builder!Called, NEW error \in {"config", "auth"}, NEW searched,
         handle' = [handle EXCEPT !.searched = searched, !.error = error], UNCHANGED origin
  PROVE  BuilderInv'
<1>1. /\ FilesInv /\ LookupInv /\ HandleInv /\ OriginInv /\ (writes = 0 => FollowsInv) /\ IsHandle(handle)
      /\ handle.error = "none" /\ IsOrigin(origin) /\ handle # Builder!NoHandle
      /\ UNCHANGED <<files, lookup, built, writes>>
      /\ FilesInv' /\ LookupInv' /\ ReportInv' /\ OutcomeInv'
  BY SetterHolds
<1>2. /\ IsHandle(handle') /\ handle'.inner = handle.inner /\ handle'.error = error
      /\ handle'.file = handle.file /\ handle'.pinned = handle.pinned
  BY <1>1 DEF IsHandle, Fields
<1>3. handle' # Builder!NoHandle
  BY <1>2, NoHandleIs
<1>4. HandleInv'
  BY <1>1, <1>2, <1>3, PinnedStays DEF HandleInv, Builder!HasHandle, Builder!OneSnapshot
<1> QED
  BY <1>1, <1>4 DEF BuilderInv

(* bearer_auth and basic_auth: a credential of the caller, or an error.    *)
LEMMA NameCredentialHolds ==
  ASSUME BuilderInv, NEW credential, Builder!NameCredential(credential) PROVE BuilderInv'
<1> DEFINE made == IF credential.kind = "bearer" THEN Builder!Bearer(credential.secret, "code")
                   ELSE Builder!Basic(credential.secret, "code")
<1>1. Builder!Usable /\ Builder!Called
  BY DEF Builder!NameCredential
<1>2. \/ /\ made.ok
         /\ handle' = [handle EXCEPT !.inner = Builder!WithAuth(@, made.value),
                                     !.inputs.auth = Builder!Given(made.value)]
         /\ origin' = [origin EXCEPT !.auth = "code"]
      \/ /\ ~made.ok /\ handle' = [handle EXCEPT !.error = made.error] /\ UNCHANGED origin
  <2>1. IF made.ok
        THEN /\ handle' = [handle EXCEPT !.inner = Builder!WithAuth(@, made.value),
                                         !.inputs.auth = Builder!Given(made.value)]
             /\ origin' = [origin EXCEPT !.auth = "code"]
        ELSE handle' = [handle EXCEPT !.error = made.error] /\ UNCHANGED origin
    BY DEF Builder!NameCredential
  <2> HIDE DEF made
  <2> QED
    BY <2>1
<1>3. ~made.ok => made.error = "config"
  BY OkIs DEF Builder!Bearer, Builder!Basic, Builder!Err
<1> HIDE DEF made
<1>4. CASE made.ok
  <2> DEFINE value == made.value
  <2>1. /\ handle' = [handle EXCEPT !.inner = Builder!WithAuth(@, value), !.inputs.auth = Builder!Given(value)]
        /\ origin' = [origin EXCEPT !.auth = "code"]
    BY <1>2, <1>4
  <2> HIDE DEF value
  <2> QED
    BY <1>1, <2>1, NamedHolds
<1>5. CASE ~made.ok
  <2>1. handle' = [handle EXCEPT !.error = "config"] /\ UNCHANGED origin
    BY <1>2, <1>3, <1>5
  <2>2. IsHandle(handle)
    BY <1>1, SetterHolds
  <2>3. handle' = [handle EXCEPT !.searched = handle.searched, !.error = "config"]
    BY <2>1, <2>2 DEF IsHandle, Fields
  <2> QED
    BY <1>1, <2>1, <2>3, FailedHolds
<1> QED
  BY <1>4, <1>5

(* anonymous: no credential, by name.                                      *)
LEMMA BeAnonymousHolds ==
  ASSUME BuilderInv, Builder!BeAnonymous PROVE BuilderInv'
<1>1. /\ Builder!Usable /\ Builder!Called /\ origin' = [origin EXCEPT !.auth = "code"]
      /\ handle' = [handle EXCEPT !.inner = Builder!WithAuth(@, Builder!Nothing),
                                  !.inputs.auth = Builder!Given(Builder!Nothing)]
  BY DEF Builder!BeAnonymous, Builder!Anonymous
<1> QED
  BY <1>1, NamedHolds

(* The search finds nothing new, finds a credential or fails.              *)
SearchResult == Builder!Discover(Env, Builder!SearchedFile, files["credentials"])
SearchFails(d) == ~d.ok /\ handle' = [handle EXCEPT !.searched = TRUE, !.error = d.error] /\ UNCHANGED origin
SearchFindsNone(d) ==
  d.ok /\ d.value = Builder!NotFound /\ handle' = [handle EXCEPT !.searched = TRUE] /\ UNCHANGED origin
SearchFinds(d) ==
  /\ d.ok /\ d.value # Builder!NotFound
  /\ handle' = [handle EXCEPT !.searched = TRUE, !.inner = Builder!FoundAuth(@, d.value), !.inputs.auth = Builder!Unset]
  /\ origin' = [origin EXCEPT !.auth = d.value.source, !.again = TRUE]

(* The ends of the search, told apart.                                     *)
LEMMA DiscoverAuthEffect ==
  ASSUME Builder!DiscoverAuth, IsHandle(handle)
  PROVE  /\ Builder!Usable /\ Builder!Called
         /\ SearchFails(SearchResult) \/ SearchFindsNone(SearchResult) \/ SearchFinds(SearchResult)
<1> DEFINE d     == SearchResult
           after == [handle EXCEPT !.searched = TRUE]
<1>1. (CASE ~d.ok -> handle' = [after EXCEPT !.error = d.error] /\ UNCHANGED origin
        [] d.ok /\ d.value = Builder!NotFound -> handle' = after /\ UNCHANGED origin
        [] OTHER -> /\ handle' = [after EXCEPT !.inner = Builder!FoundAuth(@, d.value),
                                               !.inputs.auth = Builder!Unset]
                    /\ origin' = [origin EXCEPT !.auth = d.value.source, !.again = TRUE])
  BY DEF Builder!DiscoverAuth, SearchResult
<1>2. Builder!Usable /\ Builder!Called
  BY DEF Builder!DiscoverAuth
<1> HIDE DEF d
<1>3. CASE ~d.ok
  BY <1>1, <1>2, <1>3 DEF SearchFails, d, IsHandle, Fields
<1>4. CASE d.ok /\ d.value = Builder!NotFound
  BY <1>1, <1>2, <1>4 DEF SearchFindsNone, d
<1>5. CASE d.ok /\ d.value # Builder!NotFound
  <2>1. /\ handle' = [after EXCEPT !.inner = Builder!FoundAuth(@, d.value), !.inputs.auth = Builder!Unset]
        /\ origin' = [origin EXCEPT !.auth = d.value.source, !.again = TRUE]
    BY <1>1, <1>5
  <2>2. handle' = [handle EXCEPT !.searched = TRUE, !.inner = Builder!FoundAuth(@, d.value),
                                 !.inputs.auth = Builder!Unset]
    BY <2>1 DEF IsHandle, Fields
  <2>3. SearchFinds(d)
    BY <1>5, <2>1, <2>2 DEF SearchFinds
  <2> QED
    BY <1>2, <2>3 DEF d
<1> QED
  BY <1>3, <1>4, <1>5

(* The search reads what is pinned, or else what the file holds now.       *)
LEMMA SearchedFileIs ==
  ASSUME FilesInv, PinnedInv, handle.file \in {"config", "named"}
  PROVE  /\ SoundFile(Builder!SearchedFile)
         /\ writes = 0 => Builder!SearchedFile = files[handle.file]
         /\ Builder!IsGiven(handle.pinned) => Builder!SearchedFile = handle.pinned[1]
BY SoundOnDisk DEF PinnedInv, Builder!SearchedFile

(* aviso_client_builder_discover_auth: a credential that it finds is       *)
(* marked as found, and comes from the pinned text where there is one.     *)
LEMMA DiscoverAuthHolds ==
  ASSUME BuilderInv, Builder!DiscoverAuth PROVE BuilderInv'
<1> DEFINE d == SearchResult
<1>1. IsHandle(handle)
  BY DEF BuilderInv, HandleInv
<1>2. /\ Builder!Usable /\ Builder!Called
      /\ SearchFails(d) \/ SearchFindsNone(d) \/ SearchFinds(d)
  BY <1>1, DiscoverAuthEffect
<1>3. /\ FilesInv /\ LookupInv /\ HandleInv /\ OriginInv /\ (writes = 0 => FollowsInv) /\ IsHandle(handle)
      /\ handle.error = "none" /\ IsOrigin(origin) /\ handle # Builder!NoHandle
      /\ UNCHANGED <<files, lookup, built, writes>>
      /\ FilesInv' /\ LookupInv' /\ ReportInv' /\ OutcomeInv'
  BY <1>2, SetterHolds
<1>4. /\ SoundFile(Builder!SearchedFile) /\ SoundFile(files["credentials"])
      /\ writes = 0 => Builder!SearchedFile = files[handle.file]
      /\ Builder!IsGiven(handle.pinned) => Builder!SearchedFile = handle.pinned[1]
  BY <1>3, SearchedFileIs, SoundOnDisk DEF HandleInv, IsHandle
<1>5. ~d.ok => d.error \in {"config", "auth"}
  BY <1>4, SearchErrs DEF SearchResult
<1>6. d.ok => \/ d.value = Builder!NotFound
              \/ /\ d.value.source \in {"environment", "config file", "credentials file"}
                 /\ d.value.source = "config file" => d.value.credential.of = Builder!SearchedFile.version
  BY <1>4, Found DEF SearchResult
<1>7. writes = 0 => d = Builder!Discover(Env, files[handle.file], files["credentials"])
  BY <1>4 DEF SearchResult
<1> HIDE DEF d
<1>8. CASE SearchFails(d)
  <2> DEFINE error == d.error
  <2>1. error \in {"config", "auth"} /\ handle' = [handle EXCEPT !.searched = TRUE, !.error = error] /\ UNCHANGED origin
    BY <1>5, <1>8 DEF SearchFails
  <2> HIDE DEF error
  <2> QED
    BY <1>2, <2>1, FailedHolds
<1>9. CASE SearchFindsNone(d)
  <2>1. /\ IsHandle(handle') /\ handle'.inner = handle.inner /\ handle'.error = "none" /\ handle'.inputs = handle.inputs
        /\ handle'.readsEnv = handle.readsEnv /\ handle'.searched
        /\ handle'.file = handle.file /\ handle'.pinned = handle.pinned
    BY <1>3, <1>9 DEF SearchFindsNone, IsHandle, Fields
  <2>2. UNCHANGED origin /\ d.ok /\ d.value = Builder!NotFound
    BY <1>9 DEF SearchFindsNone
  <2>3. PinnedInv' /\ Builder!HasHandle' /\ Builder!OneSnapshot' /\ OriginInv'
    BY <1>3, <2>1, <2>2, PinnedStays, NoHandleIs DEF HandleInv, Builder!HasHandle, Builder!OneSnapshot, OriginInv
  <2>4. writes' = 0 => FollowsInv'
    <3> SUFFICES ASSUME writes' = 0 PROVE FollowsInv'
      OBVIOUS
    <3>1. FollowsInv /\ d = Builder!Discover(Env, files[handle.file], files["credentials"])
      BY <1>3, <1>7
    <3>2. d.value.source = "none" /\ d.value.credential = Builder!Nothing
      BY <2>2 DEF Builder!NotFound, Builder!From
    <3>3. ~Builder!IsGiven(handle.inputs.auth)
            => handle.inner.auth = d.value.credential /\ handle.inner.foundIn = d.value.source
      <4>1. CASE handle.searched
        BY <2>2, <3>1, <4>1 DEF FollowsInv
      <4>2. CASE ~handle.searched
        BY <3>1, <3>2, <4>2 DEF FollowsInv
      <4> QED
        BY <4>1, <4>2
    <3>4. handle.inner.url
            = Builder!Address(handle.inputs, Env, handle.readsEnv, files[handle.file]).value
      BY <3>1 DEF FollowsInv
    <3>5. Builder!IsGiven(handle.inputs.auth)
            => handle.inner.auth = handle.inputs.auth[1] /\ handle.inner.foundIn = "none"
      BY <3>1 DEF FollowsInv
    <3> QED
      BY <1>3, <2>1, <3>1, <3>3, <3>4, <3>5 DEF FollowsInv
  <2> QED
    BY <1>3, <2>1, <2>2, <2>3, <2>4 DEF BuilderInv, HandleInv
<1>10. CASE SearchFinds(d)
  <2> DEFINE v      == d.value
             inner  == Builder!FoundAuth(handle.inner, v)
             inputs == [handle.inputs EXCEPT !.auth = Builder!Unset]
  <2>1. /\ v.source \in {"environment", "config file", "credentials file"}
        /\ v.source = "config file" => v.credential.of = Builder!SearchedFile.version
    BY <1>6, <1>10 DEF SearchFinds
  <2>2. handle' = [handle EXCEPT !.searched = TRUE, !.inner = inner, !.inputs = inputs]
    BY <1>3, <1>10 DEF SearchFinds, IsHandle, Fields
  <2>3. origin' = [origin EXCEPT !.auth = v.source, !.again = TRUE]
    BY <1>10 DEF SearchFinds
  <2> HIDE DEF v
  <2>4. /\ IsBuilder(inner) /\ inner.url = handle.inner.url /\ inner.auth = v.credential /\ inner.foundIn = v.source
    BY <1>3, FoundAuthIs DEF IsHandle
  <2>5. IsInputs(inputs) /\ inputs.url = handle.inputs.url /\ inputs.auth = Builder!Unset
    BY <1>3 DEF IsHandle, IsInputs, Fields
  <2> HIDE DEF inner, inputs
  <2>6. /\ IsHandle(handle') /\ handle'.inner = inner /\ handle'.error = "none" /\ handle'.inputs = inputs
        /\ handle'.readsEnv = handle.readsEnv /\ handle'.searched
        /\ handle'.file = handle.file /\ handle'.pinned = handle.pinned
    BY <1>3, <2>2, <2>4, <2>5 DEF IsHandle, Fields
  <2>7. IsOrigin(origin') /\ origin'.url = origin.url /\ origin'.auth = v.source /\ origin'.again
    BY <1>3, <2>3 DEF IsOrigin, Fields
  <2>8. PinnedInv' /\ Builder!HasHandle'
    BY <1>3, <2>6, PinnedStays, NoHandleIs DEF HandleInv, Builder!HasHandle
  <2>9. OriginInv'
    <3>1. (inner.foundIn = "none" <=> v.source \in {"none", "code"})
      BY <2>1, <2>4
    <3>2. origin.url = "config file" /\ Builder!IsGiven(handle.pinned)
            => inner.url[1].of = handle.pinned[1].version
      BY <1>3, <2>4 DEF OriginInv
    <3> QED
      BY <2>6, <2>7, <3>1, <3>2 DEF OriginInv
  <2>10. Builder!OneSnapshot'
    <3>1. origin.url = "config file" /\ v.source = "config file" /\ Builder!IsGiven(handle.pinned)
            => inner.auth.of = inner.url[1].of
      BY <1>3, <1>4, <2>1, <2>4 DEF OriginInv
    <3> QED
      BY <2>6, <2>7, <3>1 DEF Builder!OneSnapshot
  <2>11. writes' = 0 => FollowsInv'
    <3> SUFFICES ASSUME writes' = 0 PROVE FollowsInv'
      OBVIOUS
    <3>1. FollowsInv /\ d = Builder!Discover(Env, files[handle.file], files["credentials"])
      BY <1>3, <1>7
    <3>2. inner.url = Builder!Address(handle.inputs, Env, handle.readsEnv, files[handle.file]).value
      BY <2>4, <3>1 DEF FollowsInv
    <3>3. Builder!Address(inputs, Env, handle.readsEnv, files[handle.file])
            = Builder!Address(handle.inputs, Env, handle.readsEnv, files[handle.file])
      BY <2>5, SameAddress
    <3>4. inner.auth = d.value.credential /\ inner.foundIn = d.value.source
      BY <2>4 DEF v
    <3> QED
      BY <1>3, <2>5, <2>6, <3>1, <3>2, <3>3, <3>4 DEF FollowsInv, Builder!IsGiven
  <2> QED
    BY <1>3, <2>6, <2>7, <2>8, <2>9, <2>10, <2>11 DEF BuilderInv, HandleInv
<1> QED
  BY <1>2, <1>8, <1>9, <1>10

(* A step that leaves the handle and the files alone.                      *)
LEMMA HandleStays ==
  ASSUME BuilderInv, UNCHANGED <<files, writes, handle, origin>> PROVE HandleInv'
BY DEF BuilderInv, HandleInv, PinnedInv, OriginInv, FollowsInv, Builder!OneSnapshot, Builder!HasHandle

(* build: the outcome is what the builder says it is.                      *)
LEMMA BuildHolds ==
  ASSUME BuilderInv, Builder!Build PROVE BuilderInv'
<1>1. /\ UNCHANGED <<files, lookup, handle, report, origin, writes, calls>>
      /\ Builder!HasHandle
      /\ built' = Builder!Given(IF handle.error # "none" THEN Builder!Err(handle.error)
                                ELSE Builder!BuildResult(handle.inner))
  BY DEF Builder!Build
<1>2. FilesInv' /\ LookupInv' /\ HandleInv'
  BY <1>1, FilesStay, LookupStays, HandleStays
<1>3. ReportInv' /\ OutcomeInv'
  BY <1>1 DEF BuilderInv, ReportInv, OutcomeInv, Builder!HasHandle
<1> QED
  BY <1>2, <1>3 DEF BuilderInv

(* The handle is freed.                                                    *)
LEMMA StartOverHolds ==
  ASSUME BuilderInv, Builder!StartOver PROVE BuilderInv'
<1>1. /\ UNCHANGED <<files, writes, calls>> /\ handle' = Builder!NoHandle /\ origin' = Builder!NoOrigin
      /\ lookup' = Builder!Unset /\ report' = Builder!Unset /\ built' = Builder!Unset
  BY DEF Builder!StartOver
<1>2. FilesInv'
  BY <1>1, FilesStay
<1>3. LookupInv' /\ ReportInv' /\ OutcomeInv'
  BY <1>1 DEF LookupInv, ReportInv, OutcomeInv, Builder!IsGiven
<1>4. HandleInv'
  BY <1>1, NoHandleIs DEF HandleInv, PinnedInv, Builder!OneSnapshot, Builder!HasHandle, Builder!IsGiven
<1> QED
  BY <1>2, <1>3, <1>4 DEF BuilderInv

(* Every step.                                                             *)
LEMMA BuilderNextHolds ==
  ASSUME BuilderInv, [Builder!Next]_(Builder!vars) PROVE BuilderInv'
<1>1. CASE UNCHANGED Builder!vars
  <2>1. UNCHANGED <<files, lookup, handle, report, built, origin, writes, calls>>
    BY <1>1 DEF Builder!vars
  <2>2. FilesInv' /\ LookupInv' /\ HandleInv'
    BY <2>1, FilesStay, LookupStays, HandleStays
  <2>3. ReportInv' /\ OutcomeInv'
    BY <2>1 DEF BuilderInv, ReportInv, OutcomeInv, Builder!HasHandle
  <2> QED
    BY <2>2, <2>3 DEF BuilderInv
<1>2. ASSUME NEW f \in DOMAIN files, Builder!Rewrite(f) PROVE BuilderInv'
  BY <1>2, RewriteHolds
<1>3. ASSUME NEW url \in Urls, Builder!NewBuilder(url) PROVE BuilderInv'
  BY <1>3, NewBuilderHolds
<1>4. ASSUME NEW url \in Urls, Builder!SetUrl(url) PROVE BuilderInv'
  BY <1>4, SetUrlHolds
<1>5. ASSUME NEW file \in {"config", "named"}, NEW readsEnv \in BOOLEAN, NEW inputs \in Builder!Inputs,
             Builder!ReadConfig(file, readsEnv, inputs)
      PROVE  BuilderInv'
  BY <1>5, ReadConfigHolds
<1>6. ASSUME NEW credential \in Credentials, Builder!NameCredential(credential) PROVE BuilderInv'
  BY <1>6, NameCredentialHolds
<1>7. CASE Builder!Finish
  BY <1>7, FinishHolds
<1>8. CASE Builder!DiscoverAuth
  BY <1>8, DiscoverAuthHolds
<1>9. CASE Builder!BeAnonymous
  BY <1>9, BeAnonymousHolds
<1>10. CASE Builder!Build
  BY <1>10, BuildHolds
<1>11. CASE Builder!StartOver
  BY <1>11, StartOverHolds
<1> QED
  BY <1>1, <1>2, <1>3, <1>4, <1>5, <1>6, <1>7, <1>8, <1>9, <1>10, <1>11 DEF Builder!Next

(* A client is refused exactly when a found credential would go out in the *)
(* clear.                                                                  *)
LEMMA RefusalFollows ==
  ASSUME BuilderInv PROVE Builder!RefusedExactly
<1> SUFFICES ASSUME Builder!IsGiven(built), handle.error = "none"
             PROVE  LET b == handle.inner
                        valid == Builder!IsGiven(b.url) /\ b.url[1].scheme \in {"http", "https"}
                        found == origin.auth \notin {"none", "code"}
                    IN (~built[1].ok /\ built[1].error = "refused")
                         <=> (valid /\ found /\ Builder!PublicPlaintext(b.url[1]))
  BY DEF Builder!RefusedExactly
<1> DEFINE b      == handle.inner
           result == Builder!BuildResult(b)
<1>1. built[1] = result
  BY DEF BuilderInv, OutcomeInv, Builder!Given
<1>2. b.foundIn = "none" <=> origin.auth \in {"none", "code"}
  BY DEF BuilderInv, HandleInv, OriginInv
<1>3. (~result.ok /\ result.error = "refused")
        <=> (/\ Builder!IsGiven(b.url) /\ b.url[1].scheme \in {"http", "https"}
             /\ b.foundIn # "none" /\ Builder!PublicPlaintext(b.url[1]))
  BY BuildIs
<1> HIDE DEF result
<1> QED
  BY <1>1, <1>2, <1>3

(* What a constructor reports is what is built.                            *)
LEMMA ReportFollows ==
  ASSUME BuilderInv PROVE Builder!ReportAgrees
<1> DEFINE r       == report[1]
           result  == Builder!BuildResult(handle.inner)
           b       == handle.inner
<1> SUFFICES ASSUME Builder!IsGiven(report), Builder!IsGiven(built)
             PROVE  /\ (~built[1].ok /\ built[1].error = "refused") <=> r.refused
                    /\ built[1].ok => /\ built[1].value.url = r.url.value
                                      /\ built[1].value.auth = r.auth.credential
                                      /\ built[1].value.danger = r.danger.value[1]
  BY DEF Builder!ReportAgrees
<1>1. /\ handle.error = "none" /\ b = Builder!FromResolution(r)
      /\ r.auth.source = "none" => r.auth.credential = Builder!Nothing
      /\ r.refused <=> Builder!Refused(r.auth.source, r.url.value)
  BY DEF BuilderInv, ReportInv
<1>2. built[1] = result
  BY <1>1 DEF BuilderInv, OutcomeInv, Builder!Given
<1>3. /\ b.url = r.url.value /\ b.danger = r.danger.value[1]
      /\ r.auth.source = "none" => b.auth = Builder!Nothing
      /\ r.auth.source # "none" => b.auth = r.auth.credential
      /\ r.auth.source \in {"none", "code"} => b.foundIn = "none"
      /\ r.auth.source \notin {"none", "code"} => b.foundIn = r.auth.source
  BY <1>1, FromResolutionIs
<1>4. /\ result.ok => result.value = b
      /\ (~result.ok /\ result.error = "refused")
           <=> (/\ Builder!IsGiven(b.url) /\ b.url[1].scheme \in {"http", "https"}
                /\ b.foundIn # "none" /\ Builder!PublicPlaintext(b.url[1]))
  BY BuildIs
<1>5. Builder!PublicPlaintext(b.url[1]) => b.url[1].scheme \in {"http", "https"}
  BY DEF Builder!PublicPlaintext
<1> HIDE DEF r, result, b
<1>6. b.foundIn # "none" <=> r.auth.source \notin {"none", "code"}
  BY <1>3
<1>7. (~result.ok /\ result.error = "refused") <=> r.refused
  BY <1>1, <1>3, <1>4, <1>5, <1>6 DEF Builder!Refused
<1> QED
  BY <1>1, <1>2, <1>3, <1>4, <1>7

(* What describe says is what the builder has, until a file is rewritten.  *)
LEMMA DescriptionFollows ==
  ASSUME BuilderInv PROVE Builder!DescribeFollows
<1> DEFINE b    == handle.inner
           file == Builder!SearchedFile
           k    == files["credentials"]
           i    == IF Builder!IsGiven(handle.inputs.auth) \/ handle.searched THEN handle.inputs
                   ELSE [handle.inputs EXCEPT !.auth = Builder!Given(Builder!Nothing)]
           r    == Builder!Resolve(i, Env, handle.readsEnv, file, file, k)
           d    == r.value
<1> SUFFICES ASSUME handle.error = "none", writes = 0, Builder!Described.ok
             PROVE  /\ Builder!Described.value.url.value = b.url
                    /\ Builder!Described.value.auth.credential = b.auth
                    /\ Builder!Described.value.refused
                         <=> (/\ Builder!IsGiven(b.url) /\ b.foundIn # "none"
                              /\ Builder!PublicPlaintext(b.url[1]))
  BY DEF Builder!DescribeFollows
<1>1. /\ FilesInv /\ PinnedInv /\ OriginInv /\ FollowsInv /\ IsHandle(handle)
  BY DEF BuilderInv, HandleInv
<1>2. SoundFile(file) /\ file = files[handle.file] /\ SoundFile(k)
  BY <1>1, SearchedFileIs, SoundOnDisk DEF IsHandle
<1>3. Builder!Described = r
  <2> DEFINE loaded == Builder!LoadSettings(file)
  <2>1. Builder!Described =
          IF loaded.ok THEN Builder!Resolve(i, Env, handle.readsEnv, loaded.value, loaded.value, k) ELSE loaded
    BY DEF Builder!Described, Builder!Then
  <2>2. (loaded.ok /\ loaded.value = file) \/ ~loaded.ok
    BY <1>2, OkIs DEF SoundFile, Builder!LoadSettings, Builder!Err
  <2> HIDE DEF loaded, i, file, k
  <2>3. loaded.ok
    BY <2>1
  <2> QED
    BY <2>1, <2>2, <2>3 DEF r
<1>4. r.ok
  BY <1>3
<1>5. /\ i.url = handle.inputs.url
      /\ Builder!IsGiven(handle.inputs.auth) => i.auth = handle.inputs.auth
      /\ ~Builder!IsGiven(handle.inputs.auth) /\ handle.searched => i.auth = handle.inputs.auth
      /\ ~Builder!IsGiven(handle.inputs.auth) /\ ~handle.searched
           => Builder!IsGiven(i.auth) /\ i.auth[1] = Builder!Nothing
  BY <1>1 DEF IsHandle, IsInputs, Fields, Builder!IsGiven, Builder!Given, Builder!Unset
<1> DEFINE auth  == Builder!ResolveAuth(i, Env, file, k)
           found == Builder!Discover(Env, file, k)
<1>6. auth.ok /\ d = Builder!Resolution(i, Env, handle.readsEnv, file, auth.value)
  <2> HIDE DEF i, file, k
  <2> QED
    BY <1>4, Resolved
<1> HIDE DEF b, file, k, i
<1>7. /\ d.url = Builder!Address(i, Env, handle.readsEnv, file) /\ d.auth = auth.value
      /\ d.refused = Builder!Refused(d.auth.source, d.url.value)
  BY <1>6, ResolutionFields
<1>8. /\ d.auth.source \in {"none", "code"} <=> Builder!IsGiven(i.auth) \/ d.auth = Builder!NotFound
  <2>1. auth.value.source \in {"none", "code"} <=> Builder!IsGiven(i.auth) \/ auth.value = Builder!NotFound
    BY <1>2, <1>6, AuthIs
  <2> QED
    BY <1>7, <2>1
<1>9. /\ Builder!IsGiven(i.auth) => d.auth = Builder!From("code", i.auth[1])
      /\ ~Builder!IsGiven(i.auth) => found.ok /\ d.auth = found.value
  <2>1. /\ Builder!IsGiven(i.auth) => auth.value = Builder!From("code", i.auth[1])
        /\ ~Builder!IsGiven(i.auth) => found.ok /\ auth.value = found.value
    BY <1>2, <1>6, AuthOf
  <2> QED
    BY <1>7, <2>1
<1>10. b.url = d.url.value
  <2>1. b.url = Builder!Address(handle.inputs, Env, handle.readsEnv, file).value
    BY <1>1, <1>2 DEF FollowsInv, b
  <2>2. Builder!Address(i, Env, handle.readsEnv, file)
          = Builder!Address(handle.inputs, Env, handle.readsEnv, file)
    BY <1>5, SameAddress
  <2> QED
    BY <1>7, <2>1, <2>2
<1> HIDE DEF auth, d, r
<1>11. d.auth.credential = b.auth /\ (b.foundIn = "none" <=> d.auth.source \in {"none", "code"})
  <2>1. CASE Builder!IsGiven(i.auth)
    <3> DEFINE c == i.auth[1]
    <3>1. Builder!From("code", c).credential = c
      BY DEF Builder!From
    <3> HIDE DEF c
    <3>2. d.auth.credential = c /\ d.auth.source \in {"none", "code"}
      BY <1>8, <1>9, <2>1, <3>1 DEF c
    <3>3. b.auth = c /\ b.foundIn = "none"
      <4>1. CASE Builder!IsGiven(handle.inputs.auth)
        BY <1>1, <1>5, <4>1 DEF FollowsInv, b, c
      <4>2. CASE ~Builder!IsGiven(handle.inputs.auth)
        BY <1>1, <1>5, <2>1, <4>2 DEF FollowsInv, b, c
      <4> QED
        BY <4>1, <4>2
    <3> QED
      BY <3>2, <3>3
  <2>2. CASE ~Builder!IsGiven(i.auth)
    <3>1. ~Builder!IsGiven(handle.inputs.auth) /\ handle.searched
      BY <1>5, <2>2
    <3>2. found = Builder!Discover(Env, files[handle.file], files["credentials"])
      BY <1>2 DEF k
    <3>3. found.ok /\ d.auth = found.value
      BY <1>9, <2>2
    <3> HIDE DEF found
    <3>4. b.auth = found.value.credential /\ b.foundIn = found.value.source
      BY <1>1, <3>1, <3>2, <3>3 DEF FollowsInv, b
    <3>5. Builder!NotFound.source = "none"
      BY DEF Builder!NotFound, Builder!From
    <3>6. d.auth.source \in {"none", "code"} <=> d.auth = Builder!NotFound
      BY <1>8, <2>2
    <3>7. b.foundIn = d.auth.source /\ b.auth = d.auth.credential
      BY <3>3, <3>4
    <3> QED
      BY <3>5, <3>6, <3>7
  <2> QED
    BY <2>1, <2>2
<1>12. d.refused <=> (/\ Builder!IsGiven(b.url) /\ b.foundIn # "none" /\ Builder!PublicPlaintext(b.url[1]))
  BY <1>7, <1>10, <1>11 DEF Builder!Refused
<1>13. Builder!Described.value = d
  BY <1>3 DEF d
<1> QED
  BY <1>10, <1>11, <1>12, <1>13 DEF b

(* A client is what its caller was told it is, whatever the files, the     *)
(* environment and the order of the calls (AvisoClientBuilder::build,      *)
(* resolve, aviso_client_builder_describe).                                *)
THEOREM ClientsAreAsSaid == Builder!Spec => []BuiltAsSaid
<1>1. Builder!Init => BuilderInv
  BY InitHolds
<1>2. BuilderInv /\ [Builder!Next]_(Builder!vars) => BuilderInv'
  BY BuilderNextHolds
<1>3. BuilderInv => BuiltAsSaid
  <2> SUFFICES ASSUME BuilderInv PROVE BuiltAsSaid
    OBVIOUS
  <2>1. Builder!OneSnapshot
    BY DEF BuilderInv, HandleInv
  <2> QED
    BY <2>1, RefusalFollows, ReportFollows, DescriptionFollows DEF BuiltAsSaid
<1> QED
  BY <1>1, <1>2, <1>3, PTL DEF Builder!Spec

-----------------------------------------------------------------------------
(* What the library makes of an answer: a value, or one of four errors, of *)
(* which only a refusal of the server carries anything of the answer.      *)
AskedKinds == {"Config", "Transport", "Decode", "Http"}
IsAnswer(r) ==
  /\ r.ok \in BOOLEAN
  /\ ~r.ok => /\ r.error.kind \in AskedKinds
              /\ r.error.trigger = Remote!Unset /\ r.error.cause = Remote!Unset
              /\ r.error.kind # "Http" => r.error.status = 0 /\ r.error.requestId = Remote!Unset

LEMMA ErrIs ==
  ASSUME NEW e
  PROVE  Remote!Err(e).ok = FALSE /\ Remote!Err(e).error = e
  BY DEF Remote!Err

LEMMA RemoteOkIs ==
  ASSUME NEW v
  PROVE  Remote!Ok(v).ok = TRUE /\ Remote!Ok(v).value = v
  BY DEF Remote!Ok

LEMMA ClientErrorIs ==
  ASSUME NEW kind
  PROVE  /\ Remote!ClientError(kind).kind = kind
         /\ Remote!ClientError(kind).status = 0 /\ Remote!ClientError(kind).requestId = Remote!Unset
         /\ Remote!ClientError(kind).trigger = Remote!Unset /\ Remote!ClientError(kind).cause = Remote!Unset
  BY DEF Remote!ClientError

LEMMA HttpErrorIs ==
  ASSUME NEW a
  PROVE  LET e == Remote!HttpError(a) IN
         /\ e.kind = "Http" /\ e.status = a.status /\ e.requestId = a.requestId
         /\ e.trigger = Remote!Unset /\ e.cause = Remote!Unset
  BY DEF Remote!HttpError, Remote!ClientError

LEMMA ErrorsAreAnswers ==
  /\ \A kind \in AskedKinds : IsAnswer(Remote!Err(Remote!ClientError(kind)))
  /\ \A a : IsAnswer(Remote!Err(Remote!HttpError(a)))
  /\ \A v : IsAnswer(Remote!Ok(v))
<1>1. ASSUME NEW kind \in AskedKinds PROVE IsAnswer(Remote!Err(Remote!ClientError(kind)))
  <2> DEFINE e == Remote!ClientError(kind)
  <2>1. /\ e.kind = kind /\ e.status = 0 /\ e.requestId = Remote!Unset
        /\ e.trigger = Remote!Unset /\ e.cause = Remote!Unset
    BY ClientErrorIs
  <2> HIDE DEF e
  <2>2. Remote!Err(e).ok = FALSE /\ Remote!Err(e).error = e
    BY ErrIs
  <2>3. IsAnswer(Remote!Err(e))
    BY <2>1, <2>2 DEF IsAnswer
  <2> QED
    BY <2>3 DEF e
<1>2. ASSUME NEW a PROVE IsAnswer(Remote!Err(Remote!HttpError(a)))
  <2> DEFINE e == Remote!HttpError(a)
  <2>1. e.kind = "Http" /\ e.trigger = Remote!Unset /\ e.cause = Remote!Unset
    BY HttpErrorIs
  <2> HIDE DEF e
  <2>2. Remote!Err(e).ok = FALSE /\ Remote!Err(e).error = e
    BY ErrIs
  <2>3. IsAnswer(Remote!Err(e))
    BY <2>1, <2>2 DEF IsAnswer, AskedKinds
  <2> QED
    BY <2>3 DEF e
<1>3. ASSUME NEW v PROVE IsAnswer(Remote!Ok(v))
  BY RemoteOkIs DEF IsAnswer
<1> QED
  BY <1>1, <1>2, <1>3

LEMMA ParsedIs ==
  ASSUME NEW a
  PROVE  IsAnswer(Remote!ParseJsonResponse(a)) /\ IsAnswer(Remote!ParseJsonResponseOptional(a))
<1> USE ErrorsAreAnswers
<1>1. IsAnswer(Remote!ParseJsonResponse(a))
  BY DEF Remote!ParseJsonResponse, AskedKinds
<1>2. IsAnswer(Remote!ParseJsonResponseOptional(a))
  BY DEF Remote!ParseJsonResponseOptional, AskedKinds
<1> QED
  BY <1>1, <1>2

LEMMA AskIs ==
  ASSUME NEW operation, NEW name, NEW a
  PROVE  IsAnswer(Remote!Ask(operation, name, a))
  BY ErrorsAreAnswers, ParsedIs DEF Remote!Ask, AskedKinds

(* The two mappings of an error of the library name one kind of error, and *)
(* carry the same of it (map_error, map_client_error).                     *)
LEMMA MappedAlike ==
  ASSUME NEW r, IsAnswer(r), ~r.ok
  PROVE  LET c == Remote!MapError(r.error)
             p == Remote!MapClientError(r.error)
         IN /\ \E kind \in DOMAIN Remote!CKinds : c.kind = Remote!CKinds[kind] /\ p.class = Remote!PyClasses[kind]
            /\ c.status = p.status /\ c.requestId = p.requestId
            /\ c.trigger = p.trigger /\ c.cause = p.cause
<1> DEFINE e == r.error
<1>1. /\ e.kind \in AskedKinds /\ e.trigger = Remote!Unset /\ e.cause = Remote!Unset
      /\ e.kind # "Http" => e.status = 0 /\ e.requestId = Remote!Unset
  BY DEF IsAnswer
<1> HIDE DEF e
<1>2. e.kind \in DOMAIN Remote!CKinds /\ e.kind \in DOMAIN Remote!PyClasses
  BY <1>1 DEF AskedKinds, Remote!CKinds, Remote!PyClasses
<1>3. \A known : Remote!LabelOf(Remote!Unset, known) = Remote!Unset
  BY DEF Remote!LabelOf, Remote!IsGiven
<1>4. LET c == Remote!MapError(e) IN
        /\ c.kind = Remote!CKinds[e.kind] /\ c.status = e.status /\ c.requestId = e.requestId
        /\ c.trigger = Remote!Unset /\ c.cause = Remote!Unset
  BY <1>1, <1>2, <1>3 DEF Remote!MapError
<1>5. LET p == Remote!MapClientError(e) IN
        /\ p.class = Remote!PyClasses[e.kind] /\ p.status = e.status /\ p.requestId = e.requestId
        /\ p.trigger = Remote!Unset /\ p.cause = Remote!Unset
  BY <1>1, <1>2 DEF Remote!MapClientError, AskedKinds
<1> QED
  BY <1>2, <1>4, <1>5 DEF e

(* A call that blocks, one that does not and Python end alike, whatever    *)
(* they are given and whatever the server answers (aviso_client_...,       *)
(* aviso_client_..._async, the methods of AvisoClient).                    *)
THEOREM CallsEndAlike ==
  ASSUME NEW call, NEW a, call.onRuntime \in BOOLEAN
  PROVE  Remote!SameOutcome(call, a)
<1> DEFINE blocking == Remote!CBlocking(call, a)
           async    == Remote!CAsync(call, a)
           python   == Remote!PyCall(call, a)
           r        == Remote!Ask(call.operation, call.name, a)
<1>1. call.onComplete # "null" => Len(async) = 1
  BY DEF Remote!CAsync
<1>2. ~call.onRuntime /\ async # <<>> => async[1] = blocking
  BY DEF Remote!CAsync, Remote!AsyncRefuses, Remote!CBlocking
<1>3. ASSUME call.client # "null", ~call.onRuntime, ~Remote!BadArguments(call)
      PROVE  /\ Remote!IsOk(blocking) <=> python.ok
             /\ ~python.ok => LET c == blocking.error[1]
                                  p == python.error
                              IN /\ \E kind \in DOMAIN Remote!CKinds :
                                      c.kind = Remote!CKinds[kind] /\ p.class = Remote!PyClasses[kind]
                                 /\ <<c.status, c.requestId, c.trigger, c.cause>>
                                      = <<p.status, p.requestId, p.trigger, p.cause>>
  <2>1. blocking = Remote!Answered(call, a)
    BY <1>3 DEF Remote!CBlocking
  <2>2. ~Remote!BadPyArguments(call)
    <3>1. ASSUME call.operation = "notify"
          PROVE  ~Remote!BadIdentifier(call.identifier) /\ ~Remote!BadPayload(call.payload)
      <4>1. Remote!BadArguments(call) <=>
              (\/ ~Remote!IsText(call.name) \/ Remote!BadIdentifier(call.identifier)
               \/ Remote!BadPayload(call.payload))
        BY <3>1 DEF Remote!BadArguments, Remote!Named
      <4> QED
        BY <1>3, <4>1
    <3> QED
      BY <3>1 DEF Remote!BadPyArguments, Remote!BadIdentifier, Remote!BadPayload
  <2>3. IsAnswer(r)
    BY AskIs
  <2> HIDE DEF r
  <2>4. python = IF r.ok THEN r ELSE Remote!Err(Remote!MapClientError(r.error))
    BY <2>2 DEF Remote!PyCall, r
  <2>5. blocking = IF call.operation \in Remote!Unvalued THEN Remote!NoText(r) ELSE Remote!JsonText(r)
    BY <2>1 DEF Remote!Answered, r
  <2> HIDE DEF blocking, python
  <2>6. CASE r.ok
    <3>1. blocking.error = Remote!Unset
      BY <2>5, <2>6 DEF Remote!NoText, Remote!JsonText, Remote!Outcome
    <3> QED
      BY <2>4, <2>6, <3>1 DEF Remote!IsOk
  <2>7. CASE ~r.ok
    <3> DEFINE c == Remote!MapError(r.error)
               p == Remote!MapClientError(r.error)
    <3>1. python.ok = FALSE /\ python.error = p
      BY <2>4, <2>7, ErrIs
    <3>2. blocking.error = Remote!Given(c)
      BY <2>5, <2>7 DEF Remote!NoText, Remote!JsonText, Remote!OutcomeOf
    <3>3. /\ \E kind \in DOMAIN Remote!CKinds : c.kind = Remote!CKinds[kind] /\ p.class = Remote!PyClasses[kind]
          /\ c.status = p.status /\ c.requestId = p.requestId
          /\ c.trigger = p.trigger /\ c.cause = p.cause
      BY <2>3, <2>7, MappedAlike
    <3> HIDE DEF c, p
    <3>4. blocking.error[1] = c /\ ~Remote!IsOk(blocking)
      BY <3>2 DEF Remote!Given, Remote!Unset, Remote!IsOk
    <3> QED
      BY <3>1, <3>3, <3>4
  <2> QED
    BY <2>3, <2>6, <2>7
<1> HIDE DEF blocking, async, python
<1> QED
  BY <1>1, <1>2, <1>3 DEF Remote!SameOutcome, blocking, async, python

-----------------------------------------------------------------------------
(* The fold by which format_chain gathers, and what is known of natural    *)
(* numbers beside it.                                                      *)
Telling == INSTANCE FoldFacts WITH Op <- Cli!Told

LEMMA NaturalSets ==
  ASSUME NEW S, 0 \in S, \A n \in Nat : n \in S => n + 1 \in S
  PROVE  Nat \subseteq S
BY Telling!NaturalSets

(* A sequence of 1 .. n that grows all the way is 1 .. n itself.           *)
LEMMA GrowingIsIdentity ==
  ASSUME NEW n \in Nat, NEW f \in [1 .. n -> 1 .. n],
         \A i, j \in 1 .. n : i < j => f[i] < f[j]
  PROVE  \A i \in 1 .. n : f[i] = i
<1> DEFINE low  == {k \in Nat : k \in 1 .. n => f[k] >= k}
           high == {k \in Nat : k < n => f[n - k] <= n - k}
<1>1. Nat \subseteq low
  <2>1. 0 \in low
    OBVIOUS
  <2>2. ASSUME NEW k \in Nat, k \in low PROVE k + 1 \in low
    <3>1. CASE k + 1 \in 1 .. n /\ k >= 1
      <4>1. k \in 1 .. n /\ f[k] >= k /\ f[k] < f[k + 1]
        BY <2>2, <3>1
      <4> QED
        BY <4>1, <3>1
    <3>2. CASE k = 0
      BY <3>2
    <3> QED
      BY <3>1, <3>2
  <2> HIDE DEF low
  <2> QED
    BY <2>1, <2>2, NaturalSets
<1>2. Nat \subseteq high
  <2>1. 0 \in high
    OBVIOUS
  <2>2. ASSUME NEW k \in Nat, k \in high PROVE k + 1 \in high
    <3>1. CASE k + 1 < n
      <4>1. n - k \in 1 .. n /\ n - (k + 1) \in 1 .. n /\ n - (k + 1) < n - k
        BY <3>1
      <4>2. f[n - k] <= n - k /\ f[n - (k + 1)] < f[n - k]
        BY <2>2, <3>1, <4>1
      <4>3. f[n - k] \in Int /\ f[n - (k + 1)] \in Int
        BY <4>1
      <4> QED
        BY <4>1, <4>2, <4>3
    <3> QED
      BY <3>1
  <2> HIDE DEF high
  <2> QED
    BY <2>1, <2>2, NaturalSets
<1> SUFFICES ASSUME NEW i \in 1 .. n PROVE f[i] = i
  OBVIOUS
<1>3. f[i] >= i
  BY <1>1
<1>4. f[i] <= i
  <2>1. n - i \in Nat /\ n - i < n /\ n - (n - i) = i
    OBVIOUS
  <2> QED
    BY <1>2, <2>1
<1> QED
  BY <1>3, <1>4

-----------------------------------------------------------------------------
(* The results of a list of requests, in whatever order they end.          *)
LEMMA NotifyManyIs ==
  ASSUME NEW n \in Nat, NEW answers, NEW order \in [1 .. n -> 1 .. n], IsInjective(order)
  PROVE  Remote!NotifyMany(answers, order) = [i \in 1 .. n |-> Remote!Ask("notify", "", answers[i])]
<1> DEFINE Result(i) == Remote!Ask("notify", "", answers[i])
           Item(i)   == [index |-> i, result |-> Result(i)]
           indexed   == [i \in 1 .. n |-> Item(order[i])]
           InOrder(s) == /\ Range(s) = Range(indexed)
                         /\ \A i, j \in DOMAIN indexed : i < j => s[i].index <= s[j].index
           S      == [DOMAIN indexed -> Range(indexed)]
           sorted == CHOOSE s \in S : InOrder(s)
           places == [i \in 1 .. n |-> Item(i)]
<1>1. \A v \in 1 .. n : \E i \in 1 .. n : order[i] = v
  <2>1. IsFiniteSet(1 .. n)
    BY FS_Interval
  <2>2. order \in Injection(1 .. n, 1 .. n)
    BY DEF Injection, IsInjective
  <2>3. order \in Surjection(1 .. n, 1 .. n)
    BY <2>1, <2>2, FS_Injection
  <2> QED
    BY <2>3 DEF Surjection
<1>2. \A i : Item(i).index = i /\ Item(i).result = Result(i)
  OBVIOUS
<1> HIDE DEF Item
<1>3. Range(indexed) = {Item(v) : v \in 1 .. n}
  BY <1>1 DEF Range
<1>4. places \in S /\ InOrder(places)
  <2>1. Range(places) = {Item(v) : v \in 1 .. n}
    BY DEF Range
  <2>2. ASSUME NEW i \in 1 .. n, NEW j \in 1 .. n, i < j PROVE places[i].index <= places[j].index
    <3>1. places[i] = Item(i) /\ places[j] = Item(j)
      OBVIOUS
    <3>2. places[i].index = i /\ places[j].index = j
      BY <1>2, <3>1
    <3> QED
      BY <2>2, <3>2
  <2>3. places \in S
    BY <1>3
  <2> QED
    BY <1>3, <2>1, <2>2, <2>3
<1>5. sorted \in S /\ InOrder(sorted)
  BY <1>4
<1> HIDE DEF sorted
<1>6. sorted \in [1 .. n -> {Item(v) : v \in 1 .. n}]
  BY <1>3, <1>5
<1> DEFINE key == [i \in 1 .. n |-> sorted[i].index]
<1>7. \A i \in 1 .. n : key[i] \in 1 .. n /\ sorted[i] = Item(key[i])
  <2> SUFFICES ASSUME NEW i \in 1 .. n PROVE key[i] \in 1 .. n /\ sorted[i] = Item(key[i])
    OBVIOUS
  <2>1. sorted[i] \in {Item(v) : v \in 1 .. n}
    BY <1>6
  <2>2. PICK v \in 1 .. n : sorted[i] = Item(v)
    BY <2>1
  <2>3. key[i] = v
    BY <1>2, <2>2
  <2> QED
    BY <2>2, <2>3
<1>8. key \in [1 .. n -> 1 .. n]
  BY <1>7
<1>9. \A v \in 1 .. n : \E i \in 1 .. n : key[i] = v
  <2>1. ASSUME NEW v \in 1 .. n PROVE \E i \in 1 .. n : key[i] = v
    <3>1. Item(v) \in Range(sorted)
      BY <1>3, <1>5
    <3>2. PICK i \in 1 .. n : sorted[i] = Item(v)
      BY <1>6, <3>1 DEF Range
    <3> QED
      BY <1>2, <3>2
  <2> QED
    BY <2>1
<1>10. \A i, j \in 1 .. n : i < j => key[i] <= key[j]
  BY <1>5
<1> HIDE DEF key
<1>11. \A i, j \in 1 .. n : i < j => key[i] < key[j]
  <2>1. IsFiniteSet(1 .. n)
    BY FS_Interval
  <2>2. key \in Surjection(1 .. n, 1 .. n)
    BY <1>8, <1>9 DEF Surjection
  <2>3. key \in Injection(1 .. n, 1 .. n)
    BY <2>1, <2>2, FS_SurjSameCardinalityImpliesInj
  <2>4. \A i, j \in 1 .. n : key[i] = key[j] => i = j
    BY <2>3 DEF Injection, IsInjective
  <2> QED
    BY <1>8, <1>10, <2>4
<1>12. \A i \in 1 .. n : key[i] = i
  BY <1>8, <1>11, GrowingIsIdentity
<1>13. \A i \in 1 .. n : sorted[i].result = Result(i)
  BY <1>2, <1>7, <1>12
<1>14. Remote!SortedByIndex(indexed) = sorted
  BY DEF Remote!SortedByIndex, sorted, Range, Remote!Range
<1>15. Remote!NotifyMany(answers, order) = [i \in DOMAIN sorted |-> sorted[i].result]
  BY <1>14 DEF Remote!NotifyMany, Item
<1> HIDE DEF Result
<1> QED
  BY <1>6, <1>13, <1>15 DEF Result

-----------------------------------------------------------------------------
(* The result of a request stands at its place, for a list of any length,  *)
(* any answers and any order in which they come, for C and Python alike    *)
(* (notify_many, aviso_client_notify_many, build_results).                 *)
THEOREM ResultsStayInPlace ==
  ASSUME NEW n \in Nat, NEW list, DOMAIN list = 1 .. n, NEW concurrency \in Nat, NEW answers,
         NEW order \in [1 .. n -> 1 .. n], IsInjective(order)
  PROVE  Remote!EachAtItsPlace(list, concurrency, answers, order)
<1> DEFINE Result(i) == Remote!Ask("notify", "", answers[i])
           results   == Remote!NotifyMany(answers, order)
           bad       == \E i \in DOMAIN list : Remote!BadNotification(list[i])
           cItem(i)  == [index |-> i, status |-> IF results[i].ok THEN "ok" ELSE "error",
                         error |-> IF results[i].ok THEN Remote!Unset
                                   ELSE Remote!Given(Remote!MapError(results[i].error))]
           pItem(i)  == [index |-> i, error |-> IF results[i].ok THEN Remote!Unset
                                                ELSE Remote!Given(Remote!MapClientError(results[i].error))]
           cList == [i \in DOMAIN results |-> cItem(i)]
           pList == [i \in DOMAIN results |-> pItem(i)]
           c == Remote!CNotifyMany(list, answers, order)
           p == Remote!PyNotifyMany(list, concurrency, answers, order)
<1>1. results = [i \in 1 .. n |-> Result(i)]
  BY NotifyManyIs
<1>2. c = IF bad THEN Remote!Err("INVALID_INPUT") ELSE Remote!Ok(cList)
  BY DEF Remote!CNotifyMany
<1>3. p = IF bad THEN Remote!Err("raised") ELSE Remote!Ok(pList)
  BY DEF Remote!PyNotifyMany
<1>4. \A i : /\ cItem(i).index = i /\ cItem(i).status = (IF results[i].ok THEN "ok" ELSE "error")
             /\ ~results[i].ok => cItem(i).error = Remote!Given(Remote!MapError(results[i].error))
  OBVIOUS
<1>5. \A i : /\ pItem(i).index = i
             /\ ~results[i].ok => pItem(i).error = Remote!Given(Remote!MapClientError(results[i].error))
  OBVIOUS
<1> HIDE DEF cItem, pItem
<1>6. \A i \in 1 .. n : cList[i] = cItem(i) /\ pList[i] = pItem(i)
  BY <1>1
<1> HIDE DEF cList, pList, bad, c, p, results
<1>7. CASE bad
  <2>1. c.ok = FALSE /\ p.ok = FALSE
    BY <1>2, <1>3, <1>7, ErrIs
  <2> QED
    BY <2>1 DEF Remote!EachAtItsPlace, c, p
<1>8. CASE ~bad
  <2>1. c.ok = TRUE /\ p.ok = TRUE /\ c.value = cList /\ p.value = pList
    BY <1>2, <1>3, <1>8, RemoteOkIs
  <2>2. ASSUME NEW i \in 1 .. n
        PROVE  /\ c.value[i].index = i /\ p.value[i].index = i
               /\ (c.value[i].status = "ok") <=> Result(i).ok
               /\ ~Result(i).ok =>
                    /\ c.value[i].error = Remote!Given(Remote!MapError(Result(i).error))
                    /\ p.value[i].error = Remote!Given(Remote!MapClientError(Result(i).error))
    <3>1. results[i] = Result(i)
      BY <1>1
    <3> HIDE DEF Result
    <3>2. c.value[i] = cItem(i) /\ p.value[i] = pItem(i)
      BY <1>6, <2>1
    <3> QED
      BY <1>4, <1>5, <3>1, <3>2
  <2> QED
    BY <2>1, <2>2 DEF Remote!EachAtItsPlace, c, p
<1> QED
  BY <1>7, <1>8

-----------------------------------------------------------------------------
(* Short sequences.                                                        *)
LEMMA SingleIs ==
  ASSUME NEW a
  PROVE  Append(<<>>, a) = <<a>> /\ <<>> \o <<a>> = <<a>>
  OBVIOUS

LEMMA PairIs ==
  ASSUME NEW a, NEW b
  PROVE  Append(<<a>>, b) = <<a, b>> /\ <<a>> \o <<b>> = <<a, b>>
<1> DEFINE S == {a, b}
<1>1. <<a>> \in Seq(S) /\ <<b>> \in Seq(S) /\ <<a, b>> \in Seq(S) /\ b \in S
  OBVIOUS
<1>2. /\ Append(<<a>>, b) \in Seq(S) /\ Len(Append(<<a>>, b)) = 2
      /\ Append(<<a>>, b)[1] = a /\ Append(<<a>>, b)[2] = b
  OBVIOUS
<1>3. Append(<<a>>, b) = <<a>> \o <<b>>
  BY <1>1, AppendIsConcat, Zenon
<1> DEFINE s == Append(<<a>>, b)
           t == <<a, b>>
<1>4. Len(t) = 2 /\ t[1] = a /\ t[2] = b
  OBVIOUS
<1>5. Len(s) = Len(t) /\ \A i \in 1 .. Len(s) : s[i] = t[i]
  <2> HIDE DEF s, t
  <2> QED BY <1>2, <1>4 DEF s
<1>6. s \in Seq(S) /\ t \in Seq(S)
  BY <1>1, <1>2
<1>7. s = t
  <2> HIDE DEF s, t, S
  <2> QED BY <1>5, <1>6, SeqEqual
<1> QED
  BY <1>3, <1>7

LEMMA TripleIs ==
  ASSUME NEW a, NEW b, NEW c
  PROVE  <<a, b>> \o <<c>> = <<a, b, c>> /\ Append(<<a, b>>, c) = <<a, b, c>>
<1> DEFINE S == {a, b, c}
           s == <<a, b>> \o <<c>>
           t == <<a, b, c>>
           two == <<a, b>>
           one == <<c>>
<1>1. one \in Seq(S) /\ two \in Seq(S) /\ t \in Seq(S) /\ c \in S
  OBVIOUS
<1>2. Len(one) = 1 /\ one[1] = c /\ Len(two) = 2 /\ two[1] = a /\ two[2] = b
  OBVIOUS
<1>3. Len(t) = 3 /\ t[1] = a /\ t[2] = b /\ t[3] = c
  OBVIOUS
<1>4. Append(two, c) = s
  <2>1. two \in Seq(S) /\ c \in S
    BY <1>1
  <2> HIDE DEF two, S
  <2>2. Append(two, c) = two \o <<c>>
    BY <2>1, AppendIsConcat
  <2> QED BY <2>2 DEF two
<1> HIDE DEF one, two, S, t
<1>5. /\ s \in Seq(S) /\ Len(s) = Len(two) + Len(one)
      /\ \A i \in 1 .. Len(two) + Len(one) : s[i] = IF i <= Len(two) THEN two[i] ELSE one[i - Len(two)]
  BY <1>1, ConcatProperties DEF one, two
<1> HIDE DEF s
<1>6. Len(s) = Len(t) /\ \A i \in 1 .. Len(s) : s[i] = t[i]
  BY <1>2, <1>3, <1>5
<1>7. s = t
  BY <1>1, <1>5, <1>6, SeqEqual
<1> QED
  BY <1>4, <1>7 DEF s, t, two

-----------------------------------------------------------------------------
(* The chain of a request that failed, with a hint or without.             *)
Hinted   == <<"suggestion", "operation", "ClientError">>
Unhinted == <<"operation", "ClientError">>

LEMMA ToldIs ==
  /\ Cli!Told([notes |-> <<>>, causes |-> <<>>], "suggestion") = [notes |-> <<"suggestion">>, causes |-> <<>>]
  /\ \A some : /\ Cli!Told([notes |-> some, causes |-> <<>>], "operation")
                    = [notes |-> some, causes |-> <<"operation">>]
               /\ Cli!Told([notes |-> some, causes |-> <<"operation">>], "ClientError")
                    = [notes |-> some, causes |-> <<"operation", "ClientError">>]
<1>1. \A t : Cli!Told(t, "suggestion") = [t EXCEPT !.notes = Append(@, "suggestion")]
  BY DEF Cli!Told
<1>2. \A t : Cli!Told(t, "operation") = [t EXCEPT !.causes = Append(@, "operation")]
  BY DEF Cli!Told
<1>3. \A t : Cli!Told(t, "ClientError") = [t EXCEPT !.causes = Append(@, "ClientError")]
  BY DEF Cli!Told
<1>4. /\ Append(<<>>, "suggestion") = <<"suggestion">> /\ Append(<<>>, "operation") = <<"operation">>
      /\ Append(<<"operation">>, "ClientError") = <<"operation", "ClientError">>
  BY SingleIs, PairIs
<1>5. Cli!Told([notes |-> <<>>, causes |-> <<>>], "suggestion") = [notes |-> <<"suggestion">>, causes |-> <<>>]
  <2>1. PICK none : none = <<>>
    OBVIOUS
  <2>2. Append(none, "suggestion") = <<"suggestion">>
    BY <1>4, <2>1
  <2>3. PICK t : t = [notes |-> none, causes |-> <<>>]
    OBVIOUS
  <2>4. Cli!Told(t, "suggestion") = [notes |-> Append(none, "suggestion"), causes |-> <<>>]
    BY <1>1, <2>3
  <2> QED
    BY <2>1, <2>2, <2>3, <2>4, Zenon
<1>6. ASSUME NEW some
      PROVE  Cli!Told([notes |-> some, causes |-> <<>>], "operation") = [notes |-> some, causes |-> <<"operation">>]
  BY <1>2, <1>4
<1>7. ASSUME NEW some
      PROVE  Cli!Told([notes |-> some, causes |-> <<"operation">>], "ClientError")
               = [notes |-> some, causes |-> <<"operation", "ClientError">>]
  BY <1>3, <1>4
<1> QED
  BY <1>5, <1>6, <1>7

(* The values a fold of Told goes through.                                 *)
LEMMA ToldSteps ==
  ASSUME NEW base, NEW chain, NEW n \in Nat
  PROVE  \E at : Telling!Trace(at, base, chain, n) /\ Telling!Fold(base, chain, n) = at[n]
  BY Telling!FoldTrace

(* What format_chain gathers from the chain of a failure.                  *)
Gathered(base, chain) == Cli!FoldLeft(Cli!Told, base, chain)
Nothing == [notes |-> <<>>, causes |-> <<>>]

LEMMA ToldTrace ==
  ASSUME NEW base, NEW n \in Nat, NEW chain, DOMAIN chain = 1 .. n
  PROVE  \E at : Telling!Trace(at, base, chain, n) /\ Gathered(base, chain) = at[n]
<1> DEFINE told == Gathered(base, chain)
<1>1. told = Telling!Fold(base, chain, n)
  BY DEF Gathered, Telling!Fold, Telling!Solution, Telling!Solves, Telling!Folded, Telling!Max,
     Cli!FoldLeft, Cli!MapThenFoldSet, Cli!Max
<1> HIDE DEF told
<1>2. \E at : Telling!Trace(at, base, chain, n) /\ told = at[n]
  BY <1>1, ToldSteps, Zenon
<1> QED
  BY <1>2 DEF told

LEMMA GatheredIs == Gathered(Nothing, Hinted).causes = Unhinted /\ Gathered(Nothing, Unhinted).causes = Unhinted
<1>1. Gathered(Nothing, Hinted).causes = Unhinted
  <2>1. DOMAIN Hinted = 1 .. 3 /\ Hinted[1] = "suggestion" /\ Hinted[2] = "operation" /\ Hinted[3] = "ClientError"
    BY DEF Hinted
  <2>0. \A n \in Nat : DOMAIN Hinted = 1 .. n =>
          \E at : Telling!Trace(at, Nothing, Hinted, n) /\ Gathered(Nothing, Hinted) = at[n]
    BY ToldTrace
  <2>2. PICK at : /\ at[0] = Nothing
                  /\ \A k \in 1 .. 3 : at[k] = Cli!Told(at[k - 1], Hinted[k])
                  /\ Gathered(Nothing, Hinted) = at[3]
    BY <2>0, <2>1 DEF Telling!Trace
  <2>3. /\ at[1] = Cli!Told(at[0], "suggestion") /\ at[2] = Cli!Told(at[1], "operation")
        /\ at[3] = Cli!Told(at[2], "ClientError")
    BY <2>1, <2>2
  <2>4. at[1] = [notes |-> <<"suggestion">>, causes |-> <<>>]
    BY <2>2, <2>3, ToldIs DEF Nothing
  <2>5. at[3] = [notes |-> <<"suggestion">>, causes |-> Unhinted]
    BY <2>3, <2>4, ToldIs DEF Unhinted
  <2> QED
    BY <2>2, <2>5
<1>2. Gathered(Nothing, Unhinted).causes = Unhinted
  <2>1. DOMAIN Unhinted = 1 .. 2 /\ Unhinted[1] = "operation" /\ Unhinted[2] = "ClientError"
    BY DEF Unhinted
  <2>0. \A n \in Nat : DOMAIN Unhinted = 1 .. n =>
          \E at : Telling!Trace(at, Nothing, Unhinted, n) /\ Gathered(Nothing, Unhinted) = at[n]
    BY ToldTrace
  <2>2. PICK at : /\ at[0] = Nothing
                  /\ \A k \in 1 .. 2 : at[k] = Cli!Told(at[k - 1], Unhinted[k])
                  /\ Gathered(Nothing, Unhinted) = at[2]
    BY <2>0, <2>1 DEF Telling!Trace
  <2>3. at[1] = Cli!Told(at[0], "operation") /\ at[2] = Cli!Told(at[1], "ClientError")
    BY <2>1, <2>2
  <2>4. at[2] = [notes |-> <<>>, causes |-> Unhinted]
    BY <2>2, <2>3, ToldIs DEF Nothing, Unhinted
  <2> QED
    BY <2>2, <2>4
<1> QED
  BY <1>1, <1>2

LEMMA ToldOfAFailure ==
  ASSUME NEW chain, chain = Hinted \/ chain = Unhinted
  PROVE  /\ Cli!FormatChain(chain).summary = "operation"
         /\ Cli!FormatChain(chain).causedBy = Cli!ClientError
<1> DEFINE told == Gathered(Nothing, chain)
<1>1. told.causes = Unhinted
  BY GatheredIs
<1> HIDE DEF told
<1>2. told.causes # <<>> /\ Head(told.causes) = "operation" /\ Tail(told.causes) = Cli!ClientError
  BY <1>1 DEF Unhinted, Cli!ClientError
<1>3. Cli!FormatChain(chain) = [summary  |-> IF told.causes = <<>> THEN "operation failed" ELSE Head(told.causes),
                                notes    |-> told.notes,
                                causedBy |-> IF told.causes = <<>> THEN <<>> ELSE Tail(told.causes)]
  BY DEF Cli!FormatChain, told, Gathered, Nothing
<1> QED
  BY <1>2, <1>3

(* What listen tells of a listener that failed begins with the failure.    *)
LEMMA ReportBegins == ASSUME NEW error PROVE Head(Cli!ListenerReport(error)) = Head(Cli!ClientError)
<1> DEFINE hint == IF Cli!IsGiven(Cli!Hint("listen", error)) THEN <<"hint">> ELSE <<>>
<1>1. Cli!ListenerReport(error) = <<"ClientError">> \o hint /\ (hint = <<"hint">> \/ hint = <<>>)
  BY DEF Cli!ListenerReport, Cli!ClientError
<1>2. /\ <<"ClientError">> \o <<"hint">> = <<"ClientError", "hint">>
      /\ <<"ClientError">> \o <<>> = <<"ClientError">>
  <2>1. <<"ClientError">> \o <<>> = <<"ClientError">>
    OBVIOUS
  <2> QED
    BY <2>1, PairIs, Zenon
<1> HIDE DEF hint
<1>3. Cli!ListenerReport(error) = <<"ClientError", "hint">> \/ Cli!ListenerReport(error) = <<"ClientError">>
  BY <1>1, <1>2
<1> QED
  BY <1>3 DEF Cli!ClientError

(* A command that ends with one cause and no other has it as its summary.  *)
LEMMA ToldOfListeners ==
  /\ Cli!FormatChain(Cli!ListenersFailed).summary = "ListenersFailed"
  /\ Cli!FormatChain(Cli!ListenersFailed).causedBy = <<>>
<1> DEFINE chain == Cli!ListenersFailed
           told  == Gathered(Nothing, chain)
<1>1. DOMAIN chain = 1 .. 1 /\ chain[1] = "ListenersFailed"
  BY DEF Cli!ListenersFailed
<1> HIDE DEF chain
<1>2. \A n \in Nat : DOMAIN chain = 1 .. n =>
        \E at : Telling!Trace(at, Nothing, chain, n) /\ Gathered(Nothing, chain) = at[n]
  BY ToldTrace
<1>3. PICK at : /\ at[0] = Nothing
                /\ \A k \in 1 .. 1 : at[k] = Cli!Told(at[k - 1], chain[k])
                /\ told = at[1]
  BY <1>1, <1>2 DEF Telling!Trace
<1>4. at[1] = Cli!Told(at[0], "ListenersFailed")
  BY <1>1, <1>3
<1>5. \A t : Cli!Told(t, "ListenersFailed") = [t EXCEPT !.causes = Append(@, "ListenersFailed")]
  BY DEF Cli!Told
<1>6. told.causes = <<"ListenersFailed">>
  BY <1>3, <1>4, <1>5, SingleIs DEF Nothing
<1> HIDE DEF told
<1>7. told.causes # <<>> /\ Head(told.causes) = "ListenersFailed" /\ Tail(told.causes) = <<>>
  BY <1>6
<1>8. Cli!FormatChain(chain) = [summary  |-> IF told.causes = <<>> THEN "operation failed" ELSE Head(told.causes),
                                notes    |-> told.notes,
                                causedBy |-> IF told.causes = <<>> THEN <<>> ELSE Tail(told.causes)]
  BY DEF Cli!FormatChain, told, Gathered, Nothing
<1> QED
  BY <1>7, <1>8 DEF chain

(* The first listener with both cursors, if there is one.                  *)
Malformed(listeners) == Cli!SelectInSeq(listeners, LAMBDA cursors : cursors = "both")

LEMMA MalformedIs ==
  ASSUME NEW n \in Nat, NEW listeners, DOMAIN listeners = 1 .. n, Len(listeners) = n
  PROVE  LET m == Malformed(listeners) IN
         \/ m = 0 /\ \A i \in 1 .. n : listeners[i] # "both"
         \/ m \in 1 .. n /\ listeners[m] = "both" /\ \A i \in 1 .. m - 1 : listeners[i] # "both"
<1> DEFINE I == {i \in 1 .. n : listeners[i] = "both"}
<1>1. Malformed(listeners) = IF I # {} THEN Cli!Min(I) ELSE 0
  BY DEF Malformed, Cli!SelectInSeq
<1>2. CASE I = {}
  BY <1>1, <1>2
<1>3. CASE I # {}
  <2>1. I \subseteq Nat
    OBVIOUS
  <2>2. PICK m \in I : \A i \in I : m <= i
    <3> HIDE DEF I
    <3> QED
      BY <1>3, <2>1, Telling!Least
  <2> DEFINE least == CHOOSE x \in I : \A y \in I : x <= y
  <2>3. least \in I /\ \A y \in I : least <= y
    <3> HIDE DEF I
    <3> QED
      BY <2>2, Zenon
  <2>4. Malformed(listeners) = least
    BY <1>1, <1>3 DEF Cli!Min
  <2> HIDE DEF least
  <2>5. \A i \in 1 .. least - 1 : listeners[i] # "both"
    <3> SUFFICES ASSUME NEW i \in 1 .. least - 1, listeners[i] = "both" PROVE FALSE
      OBVIOUS
    <3>1. i \in I /\ ~(least <= i)
      BY <2>3
    <3> QED
      BY <2>3, <3>1
  <2> QED
    BY <2>3, <2>4, <2>5
<1> QED
  BY <1>2, <1>3

(* What a command with its listeners asks of the server.                   *)
ToAsk(command) == IF command.name = "listen" THEN DOMAIN command.listeners ELSE {1}

(* How a dispatch ends: without a request, with listeners of which one is  *)
(* malformed, with all listeners joined, or with the one request answered. *)
Unasked(d, command)  == /\ d.asked = {} /\ (d.chain = <<>> => command.name \notin Cli!Asks)
CutShort(d, command) ==
  /\ command.name = "listen" /\ d.chain = Cli!UsageError
  /\ \E m \in DOMAIN command.listeners :
       command.listeners[m] = "both" /\ d.asked = 1 .. m - 1 /\ \A i \in d.asked :
         i \in DOMAIN command.listeners /\ i < m /\ command.listeners[i] # "both"
Joined(d, command, answers) ==
  /\ command.name = "listen" /\ d.asked = DOMAIN command.listeners
  /\ LET failed == {i \in DOMAIN command.listeners : ~answers[i].ok}
     IN /\ failed = {} => d.chain = <<>>
        /\ failed # {} => d.chain = Cli!ListenersFailed
        /\ DOMAIN d.reports = failed
        /\ \A i \in failed : d.reports[i] = Cli!ListenerReport(answers[i].error)
Answered1(d, command, answers) ==
  /\ command.name # "listen" /\ Cli!Confirmed(command) /\ d.asked = {1}
  /\ d.chain = IF answers[1].ok THEN <<>> ELSE Cli!Failed(command.name, answers[1].error)

LEMMA DriveIs ==
  ASSUME NEW command, NEW answers, command.name = "listen", NEW n \in Nat,
         DOMAIN command.listeners = 1 .. n, Len(command.listeners) = n
  PROVE  LET d == Cli!Drive(command.listeners, answers)
         IN CutShort(d, command) \/ Joined(d, command, answers)
<1> DEFINE listeners == command.listeners
           m         == Malformed(listeners)
           failed    == {i \in DOMAIN listeners : ~answers[i].ok}
           d         == Cli!Drive(command.listeners, answers)
<1>1. d = IF m # 0
          THEN [chain |-> Cli!UsageError, asked |-> 1 .. m - 1, reports |-> <<>>]
          ELSE [chain |-> IF failed = {} THEN <<>> ELSE Cli!ListenersFailed, asked |-> DOMAIN listeners,
                reports |-> [i \in failed |-> Cli!ListenerReport(answers[i].error)]]
  BY DEF Cli!Drive, Malformed
<1>2. \/ m = 0
      \/ m \in 1 .. n /\ listeners[m] = "both" /\ \A i \in 1 .. m - 1 : listeners[i] # "both"
  BY MalformedIs
<1> SUFFICES CutShort(d, command) \/ Joined(d, command, answers)
  OBVIOUS
<1> HIDE DEF m, d
<1>3. CASE m = 0
  BY <1>1, <1>3 DEF Joined
<1>4. CASE m \in 1 .. n /\ listeners[m] = "both" /\ \A i \in 1 .. m - 1 : listeners[i] # "both"
  <2>1. d.chain = Cli!UsageError /\ d.asked = 1 .. m - 1
    BY <1>1, <1>4
  <2>2. \A i \in 1 .. m - 1 : i \in 1 .. n /\ i < m
    BY <1>4
  <2> QED
    BY <1>4, <2>1, <2>2 DEF CutShort
<1> QED
  BY <1>2, <1>3, <1>4

LEMMA DispatchIs ==
  ASSUME NEW command, NEW settings, NEW client, NEW answers, NEW n \in Nat,
         command.name = "listen" => DOMAIN command.listeners = 1 .. n /\ Len(command.listeners) = n
  PROVE  LET d == Cli!Dispatch(command, settings, client, answers)
         IN \/ Unasked(d, command) \/ CutShort(d, command)
            \/ Joined(d, command, answers) \/ Answered1(d, command, answers)
<1> DEFINE d == Cli!Dispatch(command, settings, client, answers)
<1>1. \A e : Cli!AsChain(e) # <<>>
  BY DEF Cli!AsChain, Cli!UsageError, Cli!ClientError
<1>2. \/ Unasked(d, command)
      \/ command.name = "listen" /\ d = Cli!Drive(command.listeners, answers)
      \/ /\ command.name # "listen" /\ Cli!Confirmed(command)
         /\ d = [chain |-> IF answers[1].ok THEN <<>> ELSE Cli!Failed(command.name, answers[1].error),
                 asked |-> {1}, reports |-> <<>>]
  BY <1>1 DEF Cli!Dispatch, Cli!Asks, Unasked
<1> SUFFICES Unasked(d, command) \/ CutShort(d, command) \/ Joined(d, command, answers) \/ Answered1(d, command, answers)
  OBVIOUS
<1> HIDE DEF d
<1>3. CASE command.name = "listen" /\ d = Cli!Drive(command.listeners, answers)
  BY <1>3, DriveIs
<1>4. CASE /\ command.name # "listen" /\ Cli!Confirmed(command)
           /\ d = [chain |-> IF answers[1].ok THEN <<>> ELSE Cli!Failed(command.name, answers[1].error),
                   asked |-> {1}, reports |-> <<>>]
  BY <1>4 DEF Answered1
<1> QED
  BY <1>2, <1>3, <1>4

(* The chain of a request that failed.                                     *)
LEMMA FailureIs ==
  ASSUME NEW name, NEW error
  PROVE  Cli!Failed(name, error) = Hinted \/ Cli!Failed(name, error) = Unhinted
<1> DEFINE hint   == IF Cli!IsGiven(Cli!Hint(name, error)) THEN <<"suggestion">> ELSE <<>>
           failed == Cli!Failed(name, error)
<1>1. failed = hint \o <<"operation">> \o <<"ClientError">> /\ (hint = <<"suggestion">> \/ hint = <<>>)
  BY DEF Cli!Failed, Cli!ClientError
<1>2. /\ <<"suggestion">> \o <<"operation">> \o <<"ClientError">> = Hinted
      /\ <<>> \o <<"operation">> \o <<"ClientError">> = Unhinted
  <2>1. <<"suggestion">> \o <<"operation">> = <<"suggestion", "operation">> /\ <<>> \o <<"operation">> = <<"operation">>
    BY SingleIs, PairIs, Zenon
  <2>2. /\ <<"suggestion", "operation">> \o <<"ClientError">> = Hinted
        /\ <<"operation">> \o <<"ClientError">> = Unhinted
    BY PairIs, TripleIs, Zenon DEF Hinted, Unhinted
  <2> QED
    BY <2>1, <2>2, Zenon
<1> HIDE DEF failed, hint
<1> QED
  BY <1>1, <1>2 DEF failed

LEMMA CodesAre ==
  /\ Cli!ExitCode(Cli!UsageError) = 2
  /\ Cli!ListenersFailed # <<>> /\ Cli!ExitCode(Cli!ListenersFailed) = 1
  /\ \A name, error : Cli!Failed(name, error) # <<>> /\ Cli!ExitCode(Cli!Failed(name, error)) = 1
<1>1. \A chain : chain = Hinted \/ chain = Unhinted => chain # <<>> /\ Cli!ExitCode(chain) = 1
  <2> SUFFICES ASSUME NEW chain, chain = Hinted \/ chain = Unhinted
               PROVE  chain # <<>> /\ Cli!ExitCode(chain) = 1
    OBVIOUS
  <2>1. chain # <<>> /\ \A i \in DOMAIN chain : chain[i] # "tag"
    BY DEF Hinted, Unhinted
  <2> QED
    BY <2>1 DEF Cli!ExitCode, Cli!Range
<1>2. Cli!ExitCode(Cli!UsageError) = 2
  <2>1. 2 \in DOMAIN Cli!UsageError /\ Cli!UsageError[2] = "tag"
    BY DEF Cli!UsageError
  <2> QED
    BY <2>1 DEF Cli!ExitCode, Cli!Range
<1>3. Cli!ListenersFailed # <<>> /\ \A i \in DOMAIN Cli!ListenersFailed : Cli!ListenersFailed[i] # "tag"
  BY DEF Cli!ListenersFailed
<1>4. Cli!ExitCode(Cli!ListenersFailed) = 1
  BY <1>3 DEF Cli!ExitCode, Cli!Range
<1> QED
  BY <1>1, <1>2, <1>3, <1>4, FailureIs

(* The exit code of a command says what happened, whatever was asked, the  *)
(* settings, the client, the listeners and the answers (run, dispatch,     *)
(* exit_code_for_anyhow, and drive of listen): with 2 the server was asked *)
(* by no more than the listeners before one with both cursors.             *)
THEOREM ExitCodesTell ==
  ASSUME NEW command, NEW settings, NEW client, NEW answers, NEW n \in Nat,
         command.refused \in BOOLEAN, command.yes \in BOOLEAN,
         command.name = "listen" => DOMAIN command.listeners = 1 .. n /\ Len(command.listeners) = n,
         \A i \in ToAsk(command) : answers[i].ok \in BOOLEAN
  PROVE  Cli!ExitCodeTells(command, settings, client, answers)
<1> DEFINE d == Cli!Dispatch(command, settings, client, answers)
           r == Cli!RunCommand(command, settings, client, answers)
           listens  == command.name = "listen"
           requests == IF listens THEN DOMAIN command.listeners ELSE {1}
           Code2 == r.code = 2 => \A i \in r.asked :
                      /\ listens /\ command.listeners[i] # "both"
                      /\ \E j \in requests : i < j /\ command.listeners[j] = "both"
           Code0 == r.code = 0 /\ command.name \in Cli!Asks =>
                      r.asked = requests /\ \A i \in requests : answers[i].ok
           Meant == r.asked # {} /\ command.name = "admin" => command.yes
           Code1 == r.code = 1 /\ r.asked # {} =>
                      /\ r.asked = requests
                      /\ listens => /\ r.told.summary = "ListenersFailed" /\ r.told.causedBy = <<>>
                                    /\ DOMAIN r.reports = {i \in requests : ~answers[i].ok}
                                    /\ \A i \in DOMAIN r.reports : Head(r.reports[i]) = Head(Cli!ClientError)
                      /\ ~listens => r.told.summary = "operation" /\ r.told.causedBy = Cli!ClientError
<1>1. Cli!ExitCodeTells(command, settings, client, answers) <=> Code2 /\ Code0 /\ Meant /\ Code1
  BY DEF Cli!ExitCodeTells
<1>2. CASE command.refused
  <2>1. r.code = 2 /\ r.asked = {}
    BY <1>2 DEF Cli!RunCommand
  <2> HIDE DEF r
  <2> QED
    BY <1>1, <2>1
<1>3. CASE ~command.refused
  <2>1. /\ r.code = IF d.chain = <<>> THEN 0 ELSE Cli!ExitCode(d.chain)
        /\ r.asked = d.asked /\ r.reports = d.reports /\ r.told = Cli!FormatChain(d.chain)
    BY <1>3 DEF Cli!RunCommand
  <2>2. \/ Unasked(d, command) \/ CutShort(d, command)
        \/ Joined(d, command, answers) \/ Answered1(d, command, answers)
    BY DispatchIs
  <2>3. r.code = 0 => d.chain = <<>>
    BY <2>1 DEF Cli!ExitCode
  <2> HIDE DEF d, r
  <2>4. CASE Unasked(d, command)
    BY <1>1, <2>1, <2>3, <2>4 DEF Unasked
  <2>5. CASE CutShort(d, command)
    <3>1. d.chain = Cli!UsageError /\ Cli!UsageError # <<>> /\ listens
      BY <2>5 DEF CutShort, Cli!UsageError
    <3>2. r.code = 2 /\ r.asked = d.asked
      BY <2>1, <3>1, CodesAre
    <3>3. \A i \in r.asked : /\ command.listeners[i] # "both"
                             /\ \E j \in requests : i < j /\ command.listeners[j] = "both"
      BY <2>5, <3>1, <3>2 DEF CutShort
    <3>4. command.name # "admin"
      BY <3>1
    <3> QED
      BY <1>1, <3>1, <3>2, <3>3, <3>4
  <2>6. CASE Joined(d, command, answers)
    <3> DEFINE failed == {i \in DOMAIN command.listeners : ~answers[i].ok}
    <3>1. /\ listens /\ requests = DOMAIN command.listeners /\ r.asked = requests
          /\ failed = {} => d.chain = <<>>
          /\ failed # {} => d.chain = Cli!ListenersFailed
          /\ DOMAIN r.reports = failed
          /\ \A i \in failed : r.reports[i] = Cli!ListenerReport(answers[i].error)
      BY <2>1, <2>6 DEF Joined
    <3>2. Meant
      BY <3>1
    <3>3. CASE failed = {}
      <4>1. r.code = 0
        BY <2>1, <3>1, <3>3
      <4>2. \A i \in requests : answers[i].ok
        BY <3>1, <3>3
      <4> QED
        BY <1>1, <3>1, <3>2, <4>1, <4>2
    <3>4. CASE failed # {}
      <4>1. r.code = 1 /\ r.told = Cli!FormatChain(Cli!ListenersFailed)
        BY <2>1, <3>1, <3>4, CodesAre
      <4>2. \A i \in DOMAIN r.reports : Head(r.reports[i]) = Head(Cli!ClientError)
        BY <3>1, ReportBegins
      <4> QED
        BY <1>1, <3>1, <3>2, <4>1, <4>2, ToldOfListeners
    <3> QED
      BY <3>3, <3>4
  <2>7. CASE Answered1(d, command, answers)
    <3> DEFINE failed == Cli!Failed(command.name, answers[1].error)
    <3>1. /\ ~listens /\ requests = {1} /\ r.asked = {1} /\ answers[1].ok \in BOOLEAN
          /\ d.chain = IF answers[1].ok THEN <<>> ELSE failed
      BY <2>1, <2>7 DEF Answered1, ToAsk
    <3>2. Meant
      BY <2>7 DEF Answered1, Cli!Confirmed
    <3>3. CASE answers[1].ok
      <4>1. r.code = 0
        BY <2>1, <3>1, <3>3
      <4> QED
        BY <1>1, <3>1, <3>2, <3>3, <4>1
    <3>4. CASE ~answers[1].ok
      <4>1. r.code = 1 /\ r.told = Cli!FormatChain(failed)
        BY <2>1, <3>1, <3>4, CodesAre
      <4>2. Cli!FormatChain(failed).summary = "operation" /\ Cli!FormatChain(failed).causedBy = Cli!ClientError
        BY FailureIs, ToldOfAFailure
      <4> QED
        BY <1>1, <3>1, <3>2, <4>1, <4>2
    <3> QED
      BY <3>1, <3>3, <3>4
  <2> QED
    BY <2>2, <2>4, <2>5, <2>6, <2>7
<1> QED
  BY <1>2, <1>3

-----------------------------------------------------------------------------
(* What the inputs of ResultsTell are.                                     *)
TellsOf(i) ==
  /\ i.family = "notify_many" =>
       /\ i.list \in [1 .. 3 -> Notifications] /\ i.concurrency \in {0, 1, 2}
       /\ i.order \in [1 .. 3 -> 1 .. 3] /\ IsInjective(i.order)
  /\ i.family = "command" =>
       /\ i.command.refused \in BOOLEAN /\ i.command.yes \in BOOLEAN
       /\ \E n \in Nat : i.command.name = "listen" =>
                          DOMAIN i.command.listeners = 1 .. n /\ Len(i.command.listeners) = n
       /\ \A a \in ToAsk(i.command) : i.answers[a].ok \in BOOLEAN

LEMMA OrdersAre == ASSUME NEW order \in Orders PROVE order \in [1 .. 3 -> 1 .. 3] /\ IsInjective(order)
<1>1. order \in SeqOf(1 .. 3, 3) /\ Len(order) = 3 /\ IsInjective(order)
  BY DEF Orders
<1>2. PICK m \in 0 .. 3 : order \in [1 .. m -> 1 .. 3]
  BY <1>1 DEF SeqOf
<1>3. order \in Seq(1 .. 3) /\ DOMAIN order = 1 .. m
  BY <1>2, SeqDef
<1>4. 1 .. m = 1 .. 3
  BY <1>1, <1>3, LenProperties
<1>5. m = 3
  BY <1>2, <1>4
<1> QED
  BY <1>1, <1>2, <1>5

LEMMA NotifyTells == ASSUME NEW i \in NotifyInputs PROVE TellsOf(i)
<1>1. /\ i.family = "notify_many" /\ i.list \in [1 .. 3 -> Notifications] /\ i.concurrency \in {0, 1, 2}
      /\ i.order \in Orders
  BY DEF NotifyInputs
<1>2. i.family # "command"
  BY <1>1, Zenon
<1> QED
  BY <1>1, <1>2, OrdersAre, Zenon DEF TellsOf

LEMMA AnsweredIs == ASSUME NEW S, NEW a \in Answered(S) PROVE a.ok \in BOOLEAN
<1>1. a = [ok |-> TRUE, value |-> "value"] \/ \E error \in S : a = [ok |-> FALSE, error |-> error]
  BY Zenon DEF Answered
<1>2. ASSUME NEW error, a = [ok |-> FALSE, error |-> error] PROVE a.ok = FALSE
  BY <1>2
<1>3. ASSUME a = [ok |-> TRUE, value |-> "value"] PROVE a.ok = TRUE
  BY <1>3
<1> QED
  BY <1>1, <1>2, <1>3, Zenon

(* The inputs of a command that asks once.                                 *)
OneAnswer(i) ==
  /\ i.family = "command" /\ i.command.refused \in BOOLEAN /\ i.command.yes \in BOOLEAN
  /\ i.command.name # "listen"
  /\ \E S : \E a \in Answered(S) : i.answers = <<a>>

(* The inputs of listen: at most two listeners.                            *)
TwoAnswers(i) ==
  /\ i.family = "command" /\ i.command.refused \in BOOLEAN /\ i.command.yes \in BOOLEAN
  /\ i.command.name = "listen"
  /\ i.command.listeners \in SeqOf({"one", "both"}, 2)
  /\ \E S : i.answers \in [1 .. 2 -> Answered(S)]

LEMMA CommandRecord ==
  ASSUME NEW R, NEW A, NEW B, NEW i \in [family : {"command"}, resolved : R, command : A, answers : B]
  PROVE  i.family = "command" /\ i.command \in A /\ i.answers \in B
  OBVIOUS

LEMMA CommandFields ==
  ASSUME NEW names, NEW listeners, NEW c \in CommandsOf(names, listeners)
  PROVE  c.name \in names /\ c.yes \in BOOLEAN /\ c.refused \in BOOLEAN /\ c.listeners \in listeners
  BY DEF CommandsOf

LEMMA CommandsAre == ASSUME NEW i \in CommandInputs PROVE OneAnswer(i) \/ TwoAnswers(i)
<1> DEFINE once == {<<answer>> : answer \in Answered(ServerErrors)}
           both == [1 .. 2 -> Answered(Listened)]
<1>1. \/ i \in [family : {"command"}, resolved : ResolvedAs, command : AskedOnce, answers : once]
      \/ i \in [family : {"command"}, resolved : ResolvedAs, command : Listening, answers : both]
  BY Zenon DEF CommandInputs
<1>2. \A given \in once : \E S : \E a \in Answered(S) : given = <<a>>
  BY Zenon
<1>3. \A given \in both : \E S : given \in [1 .. 2 -> Answered(S)]
  BY Zenon
<1> HIDE DEF once, both
<1>4. CASE i \in [family : {"command"}, resolved : ResolvedAs, command : AskedOnce, answers : once]
  <2>1. i.family = "command" /\ i.command \in AskedOnce /\ i.answers \in once
    BY <1>4, CommandRecord
  <2>2. /\ i.command.name \in (Cli!Asks \ {"listen"}) \cup {"config_dump", "completions"}
        /\ i.command.yes \in BOOLEAN /\ i.command.refused \in BOOLEAN
    BY <2>1, CommandFields DEF AskedOnce
  <2>3. i.command.name # "listen"
    BY <2>2
  <2> QED
    BY <1>2, <2>1, <2>2, <2>3 DEF OneAnswer
<1>5. CASE i \in [family : {"command"}, resolved : ResolvedAs, command : Listening, answers : both]
  <2>1. i.family = "command" /\ i.command \in Listening /\ i.answers \in both
    BY <1>5, CommandRecord
  <2>2. i.command \in CommandsOf({"listen"}, SeqOf({"one", "both"}, 2) \ {<<>>})
    BY <2>1 DEF Listening
  <2>3. /\ i.command.name \in {"listen"} /\ i.command.yes \in BOOLEAN /\ i.command.refused \in BOOLEAN
        /\ i.command.listeners \in SeqOf({"one", "both"}, 2) \ {<<>>}
    BY <2>2, CommandFields
  <2> QED
    BY <1>3, <2>1, <2>3 DEF TwoAnswers
<1> QED
  BY <1>1, <1>4, <1>5

LEMMA CommandTells == ASSUME NEW i \in CommandInputs PROVE TellsOf(i)
<1>1. i.family # "notify_many"
  BY CommandsAre DEF OneAnswer, TwoAnswers
<1>2. CASE OneAnswer(i)
  <2>0. PICK S : \E a \in Answered(S) : i.answers = <<a>>
    BY <1>2 DEF OneAnswer
  <2>1. PICK a \in Answered(S) : i.answers = <<a>>
    BY <2>0
  <2>2. i.answers[1].ok \in BOOLEAN
    BY <2>1, AnsweredIs
  <2>3. ToAsk(i.command) = {1} /\ i.command.name # "listen"
    BY <1>2 DEF OneAnswer, ToAsk
  <2>4. \A k \in ToAsk(i.command) : i.answers[k].ok \in BOOLEAN
    BY <2>2, <2>3
  <2> QED
    BY <1>1, <1>2, <2>3, <2>4 DEF OneAnswer, TellsOf
<1>3. CASE TwoAnswers(i)
  <2> DEFINE listeners == i.command.listeners
  <2>1. PICK S : i.answers \in [1 .. 2 -> Answered(S)]
    BY <1>3 DEF TwoAnswers
  <2>2. i.answers[1].ok \in BOOLEAN /\ i.answers[2].ok \in BOOLEAN
    <3>1. i.answers[1] \in Answered(S) /\ i.answers[2] \in Answered(S)
      BY <2>1
    <3> QED
      BY <3>1, AnsweredIs
  <2>3. PICK m \in 0 .. 2 : listeners \in [1 .. m -> {"one", "both"}]
    BY <1>3 DEF TwoAnswers, SeqOf
  <2>4. m \in Nat /\ DOMAIN listeners = 1 .. m /\ Len(listeners) = m
    <3>1. listeners \in Seq({"one", "both"}) /\ DOMAIN listeners = 1 .. m
      BY <2>3, SeqDef
    <3>2. 1 .. m = 1 .. Len(listeners) /\ Len(listeners) \in Nat
      BY <3>1, LenProperties
    <3> QED
      BY <2>3, <3>1, <3>2
  <2>5. \A k \in ToAsk(i.command) : i.answers[k].ok \in BOOLEAN
    <3>1. ToAsk(i.command) = 1 .. m /\ 1 .. m \subseteq {1, 2}
      BY <1>3, <2>3, <2>4 DEF TwoAnswers, ToAsk
    <3> QED
      BY <2>2, <3>1
  <2> QED
    BY <1>1, <1>3, <2>4, <2>5 DEF TwoAnswers, TellsOf
<1> QED
  BY <1>2, <1>3, CommandsAre

LEMMA OthersTell ==
  ASSUME NEW i, i.family \in {"settings", "range", "many", "listen", "trigger", "key", "pairs", "call", "shell",
                              "url", "body", "tail", "child", "diagnostic"}
  PROVE  TellsOf(i)
<1>1. i.family # "notify_many" /\ i.family # "command"
  BY Zenon
<1> QED
  BY <1>1, Zenon DEF TellsOf

LEMMA FamiliesAre ==
  ASSUME NEW i
  PROVE  /\ i \in SettingsInputs => i.family = "settings"
         /\ i \in RangeInputs => i.family = "range"
         /\ i \in ManyInputs => i.family = "many"
         /\ i \in ListenInputs => i.family = "listen"
         /\ i \in TriggerInputs => i.family = "trigger"
         /\ i \in KeyInputs => i.family = "key"
         /\ i \in PairInputs => i.family = "pairs"
         /\ i \in CallInputs => i.family = "call"
         /\ i \in ShellInputs => i.family = "shell"
         /\ i \in UrlInputs => i.family = "url"
         /\ i \in BodyInputs => i.family = "body"
         /\ i \in TailInputs => i.family = "tail"
         /\ i \in ChildInputs => i.family = "child"
         /\ i \in DiagnosticInputs => i.family = "diagnostic"
<1>1. i \in SettingsInputs => i.family = "settings"
  BY DEF SettingsInputs
<1>2. i \in RangeInputs => i.family = "range"
  BY DEF RangeInputs
<1>3. i \in ManyInputs => i.family = "many"
  BY DEF ManyInputs
<1>4. i \in ListenInputs => i.family = "listen"
  BY DEF ListenInputs
<1>5. i \in TriggerInputs => i.family = "trigger"
  BY DEF TriggerInputs
<1>6. i \in KeyInputs => i.family = "key"
  BY DEF KeyInputs
<1>7. i \in PairInputs => i.family = "pairs"
  BY DEF PairInputs
<1>8. i \in CallInputs => i.family = "call"
  BY DEF CallInputs
<1>9. i \in ShellInputs => i.family = "shell"
  BY DEF ShellInputs
<1>10. i \in UrlInputs => i.family = "url"
  BY DEF UrlInputs
<1>11. i \in BodyInputs => i.family = "body"
  BY DEF BodyInputs
<1>12. i \in TailInputs => i.family = "tail"
  BY DEF TailInputs
<1>13. i \in ChildInputs => i.family = "child"
  BY DEF ChildInputs
<1>14. i \in DiagnosticInputs => i.family = "diagnostic"
  BY DEF DiagnosticInputs
<1> QED
  BY <1>1, <1>2, <1>3, <1>4, <1>5, <1>6, <1>7, <1>8, <1>9, <1>10, <1>11, <1>12, <1>13, <1>14

InputsTell == part = "input" => TellsOf(input)

LEMMA PartsInitTells == PartsInit => InputsTell
<1> SUFFICES ASSUME PartsInit, part = "input" PROVE TellsOf(input)
  BY DEF InputsTell
<1>1. \/ input \in SettingsInputs \/ input \in RangeInputs \/ input \in ManyInputs \/ input \in ListenInputs
      \/ input \in TriggerInputs \/ input \in KeyInputs \/ input \in PairInputs
      \/ input \in CommandInputs \/ input \in CallInputs \/ input \in NotifyInputs
      \/ input \in ShellInputs \/ input \in UrlInputs \/ input \in BodyInputs \/ input \in TailInputs
      \/ input \in ChildInputs \/ input \in DiagnosticInputs
  BY Zenon DEF PartsInit
<1>2. CASE input \in NotifyInputs
  BY <1>2, NotifyTells
<1>3. CASE input \in CommandInputs
  BY <1>3, CommandTells
<1>4. CASE ~(input \in NotifyInputs \/ input \in CommandInputs)
  <2>1. input.family \in {"settings", "range", "many", "listen", "trigger", "key", "pairs", "call", "shell",
                          "url", "body", "tail", "child", "diagnostic"}
    BY <1>1, <1>4, FamiliesAre
  <2> QED
    BY <2>1, OthersTell
<1> QED
  BY <1>2, <1>3, <1>4

LEMMA PartsStepTells ==
  InputsTell /\ [PartsNext]_<<part, input, vars, credentialVars, parserVars, builderVars>> => InputsTell'
<1> SUFFICES ASSUME InputsTell, [PartsNext]_<<part, input, vars, credentialVars, parserVars, builderVars>>
             PROVE  InputsTell'
  OBVIOUS
<1>1. part' = part /\ input' = input
  BY Zenon DEF PartsNext
<1> QED
  BY <1>1, Zenon DEF InputsTell

LEMMA TellsResults == InputsTell => ResultsTell
<1> SUFFICES ASSUME TellsOf(input)
             PROVE  CASE input.family = "notify_many" ->
                           Remote!EachAtItsPlace(input.list, input.concurrency, input.answers, input.order)
                      [] input.family = "command" ->
                           Cli!ExitCodeTells(input.command, input.resolved.settings, input.resolved.client, input.answers)
                      [] OTHER -> TRUE
  BY Zenon DEF InputsTell, ResultsTell
<1>1. input.family = "notify_many" =>
        Remote!EachAtItsPlace(input.list, input.concurrency, input.answers, input.order)
  <2> SUFFICES ASSUME input.family = "notify_many"
               PROVE  Remote!EachAtItsPlace(input.list, input.concurrency, input.answers, input.order)
    OBVIOUS
  <2>1. /\ input.list \in [1 .. 3 -> Notifications] /\ input.concurrency \in {0, 1, 2}
        /\ input.order \in [1 .. 3 -> 1 .. 3] /\ IsInjective(input.order)
    BY Zenon DEF TellsOf
  <2>2. DOMAIN input.list = 1 .. 3
    BY <2>1, Zenon
  <2>3. input.concurrency \in Nat /\ 3 \in Nat
    <3>1. {0, 1, 2} \subseteq Nat /\ 3 \in Nat
      OBVIOUS
    <3> QED
      BY <2>1, <3>1, Zenon
  <2> QED
    BY <2>1, <2>2, <2>3, ResultsStayInPlace
<1>2. input.family = "command" =>
        Cli!ExitCodeTells(input.command, input.resolved.settings, input.resolved.client, input.answers)
  BY ExitCodesTell DEF TellsOf
<1> QED
  BY <1>1, <1>2, Zenon

(* Every caller is told what happened, in every state the parts of a client  *)
(* can be in.                                                               *)
THEOREM CallersAreTold == PartsSpec => []ResultsTell
<1>1. PartsInit => InputsTell
  BY PartsInitTells
<1>2. InputsTell /\ [PartsNext]_<<part, input, vars, credentialVars, parserVars, builderVars>> => InputsTell'
  BY PartsStepTells
<1>3. InputsTell => ResultsTell
  BY TellsResults
<1> QED
  BY <1>1, <1>2, <1>3, PTL DEF PartsSpec

-----------------------------------------------------------------------------
(* The command line and the library, given the same settings.              *)

LEMMA SourcedIs == ASSUME NEW x, NEW s PROVE Builder!Sourced(x, s).value = x
BY DEF Builder!Sourced

LEMMA ErrFails == ASSUME NEW kind PROVE ~Builder!Err(kind).ok
BY DEF Builder!Err

LEMMA FirstOfTwo ==
  ASSUME NEW a, NEW b, NEW sa, NEW sb, NEW default
  PROVE  Builder!FirstGiven(<<<<a, sa>>, <<b, sb>>>>, default).value =
           IF Builder!IsGiven(a) THEN a ELSE IF Builder!IsGiven(b) THEN b ELSE default
<1> DEFINE options == <<<<a, sa>>, <<b, sb>>>>
<1>1. Len(options) = 2 /\ options[1][1] = a /\ options[2][1] = b
  OBVIOUS
<1> HIDE DEF options
<1>2. CASE Builder!IsGiven(a)
  <2>1. IsFirst(options, 1)
    BY <1>1, <1>2 DEF IsFirst
  <2>2. Builder!FirstGiven(options, default) = Builder!Sourced(options[1][1], options[1][2])
    BY <2>1, FirstIs
  <2> QED
    BY <1>1, <1>2, <2>2, SourcedIs DEF options
<1>3. CASE ~Builder!IsGiven(a) /\ Builder!IsGiven(b)
  <2>1. IsFirst(options, 2)
    BY <1>1, <1>3 DEF IsFirst
  <2>2. Builder!FirstGiven(options, default) = Builder!Sourced(options[2][1], options[2][2])
    BY <2>1, FirstIs
  <2> QED
    BY <1>1, <1>3, <2>2, SourcedIs DEF options
<1>4. CASE ~Builder!IsGiven(a) /\ ~Builder!IsGiven(b)
  <2>1. \A j \in 1 .. 2 : ~Builder!IsGiven(options[j][1])
    BY <1>1, <1>4
  <2>2. Builder!FirstGiven(options, default) = Builder!Sourced(default, "default")
    BY <1>1, <2>1, NoneGiven
  <2> QED
    BY <1>4, <2>2, SourcedIs DEF options
<1> QED
  BY <1>2, <1>3, <1>4

LEMMA OnlyOne ==
  ASSUME NEW a, NEW sa, NEW default
  PROVE  Builder!FirstGiven(<<<<a, sa>>>>, default).value = IF Builder!IsGiven(a) THEN a ELSE default
<1> DEFINE options == <<<<a, sa>>>>
<1>1. Len(options) = 1 /\ options[1][1] = a /\ \A j \in 1 .. 1 : j = 1
  OBVIOUS
<1> HIDE DEF options
<1>2. CASE Builder!IsGiven(a)
  <2>1. IsFirst(options, 1)
    BY <1>1, <1>2 DEF IsFirst
  <2>2. Builder!FirstGiven(options, default) = Builder!Sourced(options[1][1], options[1][2])
    BY <2>1, FirstIs
  <2> QED
    BY <1>1, <1>2, <2>2, SourcedIs DEF options
<1>3. CASE ~Builder!IsGiven(a)
  <2>1. \A j \in 1 .. 1 : ~Builder!IsGiven(options[j][1])
    BY <1>1, <1>3
  <2>2. Builder!FirstGiven(options, default) = Builder!Sourced(default, "default")
    BY <1>1, <2>1, NoneGiven
  <2> QED
    BY <1>3, <2>2, SourcedIs DEF options
<1> QED
  BY <1>2, <1>3

(* What a named credential is to the command line.                         *)
LEMMA ProviderIs ==
  ASSUME NEW flags, NEW env, NEW file, NEW credentials
  PROVE  LET named == Builder!FlagCredential(flags)
             found == Builder!Discover(env, file, credentials)
         IN Builder!ResolveProvider(flags, env, file, credentials) =
              IF ~named.ok THEN named
              ELSE IF Builder!IsNone(named.value) THEN found
              ELSE Builder!Ok(Builder!From("flag", named.value))
BY DEF Builder!ResolveProvider, Builder!Then

(* What the command line makes of its flags, the environment and a file.   *)
LEMMA CliResolveIs ==
  ASSUME NEW flags, NEW env, NEW file, NEW credentials,
         ~Builder!NotUnicode(env, {"configFile", "stateFile"})
  PROVE  LET cli  == Builder!CliResolve(flags, env, file, credentials)
             auth == Builder!ResolveProvider(flags, env, file, credentials)
         IN /\ cli.ok <=> env.baseUrl.scheme # "not unicode" /\ Builder!LoadSettings(file).ok /\ auth.ok
            /\ cli.ok => /\ cli.value.url     = Builder!CliAddress(flags, env, file)
                         /\ cli.value.timeout = Builder!FirstGiven(<<<<file.timeout, "config file">>>>, Builder!Unset)
                         /\ cli.value.ca      = Builder!CaBundle(flags, file)
                         /\ cli.value.danger  = Builder!AcceptInvalidCerts(flags, file)
                         /\ cli.value.auth    = auth.value
<1> DEFINE auth == Builder!ResolveProvider(flags, env, file, credentials)
           url  == Builder!CliAddress(flags, env, file)
           timeout == Builder!FirstGiven(<<<<file.timeout, "config file">>>>, Builder!Unset)
           ca      == Builder!CaBundle(flags, file)
           danger  == Builder!AcceptInvalidCerts(flags, file)
           settings == [url |-> url, timeout |-> timeout, ca |-> ca, danger |-> danger, auth |-> auth.value]
           garbled  == env.baseUrl.scheme = "not unicode"
           cli      == Builder!CliResolve(flags, env, file, credentials)
           loaded   == Builder!LoadSettings(file).ok
           why      == IF auth.error = "auth" THEN "usage" ELSE auth.error
<1>1. cli = CASE garbled -> Builder!Err("usage")
              [] ~garbled /\ ~loaded -> Builder!Err("config")
              [] ~garbled /\ loaded /\ ~auth.ok -> Builder!Err(why)
              [] OTHER -> Builder!Ok(settings)
  BY DEF Builder!CliResolve
<1>2. /\ settings.url = url /\ settings.timeout = timeout /\ settings.ca = ca /\ settings.danger = danger
      /\ settings.auth = auth.value
  BY Zenon
<1> HIDE DEF garbled, loaded, auth, settings, cli, why, url, timeout, ca, danger
<1>3. CASE garbled
  BY <1>1, <1>3, ErrFails DEF garbled, cli
<1>4. CASE ~garbled /\ ~loaded
  BY <1>1, <1>4, ErrFails DEF loaded, cli
<1>5. CASE ~garbled /\ loaded /\ ~auth.ok
  BY <1>1, <1>5, ErrFails DEF auth, cli
<1>6. CASE ~garbled /\ loaded /\ auth.ok
  <2>1. cli = Builder!Ok(settings)
    BY <1>1, <1>6
  <2>2. cli.ok /\ cli.value = settings
    BY <2>1, OkIs
  <2> QED
    BY <1>2, <1>6, <2>2 DEF garbled, loaded, auth, cli, url, timeout, ca, danger
<1> QED
  BY <1>3, <1>4, <1>5, <1>6

(* What the command line builds.                                           *)
LEMMA CliBuildIs ==
  ASSUME NEW s
  PROVE  LET result == Builder!CliBuild(s)
             url    == s.url.value
         IN /\ result.ok <=> /\ Builder!IsGiven(url)
                             /\ ~(s.auth.source \notin {"flag", "none"} /\ Builder!PublicPlaintext(url[1]))
                             /\ s.ca.value # Builder!Given("not a certificate")
                             /\ url[1].scheme \in {"http", "https"}
            /\ result.ok => result.value = s
<1> DEFINE url     == s.url.value
           given   == Builder!IsGiven(url)
           refused == s.auth.source \notin {"flag", "none"} /\ Builder!PublicPlaintext(url[1])
           broken  == s.ca.value = Builder!Given("not a certificate")
           valid   == url[1].scheme \in {"http", "https"}
           result  == Builder!CliBuild(s)
<1>1. /\ ~given => result = Builder!Err("usage")
      /\ given /\ refused => result = Builder!Err("usage")
      /\ given /\ ~refused /\ broken => result = Builder!Err("usage")
      /\ given /\ ~refused /\ ~broken /\ ~valid => result = Builder!Err("config")
      /\ given /\ ~refused /\ ~broken /\ valid => result = Builder!Ok(s)
  BY DEF Builder!CliBuild
<1> HIDE DEF given, refused, broken, valid, result
<1>2. /\ result.ok <=> given /\ ~refused /\ ~broken /\ valid
      /\ result.ok => result.value = s
  BY <1>1, ErrFails, OkIs
<1> QED
  BY <1>2 DEF given, refused, broken, valid, result

(* A variable, or the address that was read from it, that is not unicode;  *)
(* and the timeout that the command line resolves.                         *)
Unreadable(address) == Builder!IsGiven(address) /\ address[1].scheme = "not unicode"
NotReadable(env)    == env.baseUrl.scheme = "not unicode"
CliTimeout(file)    == Builder!FirstGiven(<<<<file.timeout, "config file">>>>, Builder!Unset)

(* What a library client resolves of the same sources.                     *)
LEMMA LibraryResolveIs ==
  ASSUME NEW yes, NEW inputs, NEW env, NEW file, NEW credentials
  PROVE  LET r    == Builder!Resolve(inputs, env, yes, file, file, credentials)
             auth == Builder!ResolveAuth(inputs, env, file, credentials)
         IN /\ r.ok <=> ~Unreadable(Builder!EnvAddress(inputs, env, yes)) /\ auth.ok
            /\ r.ok => r.value = Builder!Resolution(inputs, env, yes, file, auth.value)
<1> DEFINE r    == Builder!Resolve(inputs, env, yes, file, file, credentials)
           auth == Builder!ResolveAuth(inputs, env, file, credentials)
           address == Builder!EnvAddress(inputs, env, yes)
           garbled == Builder!IsGiven(address) /\ address[1].scheme = "not unicode"
           whole   == Builder!Resolution(inputs, env, yes, file, auth.value)
<1>1. r = IF garbled THEN Builder!Err("config") ELSE IF auth.ok THEN Builder!Ok(whole) ELSE auth
  BY DEF Builder!Resolve, Builder!Then
<1> HIDE DEF r, auth, garbled, whole
<1>2. /\ r.ok <=> ~garbled /\ auth.ok
      /\ r.ok => r.value = whole
  BY <1>1, ErrFails, OkIs
<1> QED
  BY <1>2 DEF r, auth, garbled, whole, Unreadable

(* The address is the same, and so is a variable that cannot be read: one  *)
(* that a flag overrides does not matter to the library.                   *)
Wanted(yes) == yes = TRUE

LEMMA AddressesAgree ==
  ASSUME NEW yes, Wanted(yes), NEW flags, NEW env, NEW file, NEW inputs, inputs.url = flags.url
  PROVE  /\ Builder!CliAddress(flags, env, file).value = Builder!Address(inputs, env, yes, file).value
         /\ Unreadable(Builder!EnvAddress(inputs, env, yes)) <=> ~Builder!IsGiven(flags.url) /\ NotReadable(env)
<1> DEFINE a == flags.url
           b == Builder!EnvUrl(env)
           c == file.url
           d == Builder!EnvAddress(inputs, env, yes)
           source == "config file"
           none   == Builder!Unset
           garbled == "not unicode"
<1>1. /\ Builder!CliAddress(flags, env, file) =
           Builder!FirstGiven(<<<<a, "flag">>, <<b, "environment">>, <<c, source>>>>, none)
      /\ Builder!Address(inputs, env, yes, file) =
           Builder!FirstGiven(<<<<a, "code">>, <<d, "environment">>, <<c, source>>>>, none)
  BY DEF Builder!CliAddress, Builder!Address
<1>2. d = IF Builder!IsGiven(a) THEN none ELSE b
  BY DEF Builder!EnvAddress, Wanted
<1>3. /\ ~Builder!IsGiven(none)
      /\ env.baseUrl.scheme = garbled => b = Builder!Given(env.baseUrl)
      /\ b = Builder!Given(env.baseUrl) \/ b = none
  <2>1. garbled \notin {"unset", ""}
    BY Zenon DEF garbled
  <2> HIDE DEF garbled
  <2> QED
    BY <2>1 DEF Builder!EnvUrl, Builder!HasValue, Builder!IsGiven
<1>4. \A x : Builder!IsGiven(Builder!Given(x)) /\ Builder!Given(x)[1] = x
  BY DEF Builder!IsGiven, Builder!Given, Builder!Unset
<1> HIDE DEF a, b, c, d, source, none, garbled
<1>5. Builder!CliAddress(flags, env, file).value =
        IF Builder!IsGiven(a) THEN a ELSE IF Builder!IsGiven(b) THEN b ELSE IF Builder!IsGiven(c) THEN c ELSE none
  <2>1. Builder!FirstGiven(<<<<a, "flag">>, <<b, "environment">>, <<c, source>>>>, none) =
          IF Builder!IsGiven(a) THEN Builder!Sourced(a, "flag")
          ELSE IF Builder!IsGiven(b) THEN Builder!Sourced(b, "environment")
          ELSE IF Builder!IsGiven(c) THEN Builder!Sourced(c, source)
          ELSE Builder!Sourced(none, "default")
    BY FirstOfThree
  <2> QED
    BY <1>1, <2>1, SourcedIs
<1>6. Builder!Address(inputs, env, yes, file).value =
        IF Builder!IsGiven(a) THEN a ELSE IF Builder!IsGiven(d) THEN d ELSE IF Builder!IsGiven(c) THEN c ELSE none
  <2>1. Builder!FirstGiven(<<<<a, "code">>, <<d, "environment">>, <<c, source>>>>, none) =
          IF Builder!IsGiven(a) THEN Builder!Sourced(a, "code")
          ELSE IF Builder!IsGiven(d) THEN Builder!Sourced(d, "environment")
          ELSE IF Builder!IsGiven(c) THEN Builder!Sourced(c, source)
          ELSE Builder!Sourced(none, "default")
    BY FirstOfThree
  <2> QED
    BY <1>1, <2>1, SourcedIs
<1>7. (Builder!IsGiven(d) /\ d[1].scheme = garbled) <=> ~Builder!IsGiven(a) /\ env.baseUrl.scheme = garbled
  BY <1>2, <1>3, <1>4
<1>8. Builder!CliAddress(flags, env, file).value = Builder!Address(inputs, env, yes, file).value
  BY <1>2, <1>3, <1>5, <1>6
<1> QED
  BY <1>7, <1>8 DEF a, d, garbled, Unreadable, NotReadable

(* So are the settings of TLS, where no flag names a certificate.          *)
LEMMA TlsAgrees ==
  ASSUME NEW yes, NEW flags, NEW file, NEW env, NEW inputs, NEW auth,
         flags.ca = Builder!Unset, inputs.danger = flags.danger
  PROVE  LET r == Builder!Resolution(inputs, env, yes, file, auth)
         IN /\ Builder!CaBundle(flags, file).value = r.ca.value
            /\ Builder!AcceptInvalidCerts(flags, file).value = r.danger.value
<1> DEFINE ca      == file.ca
           danger  == file.danger
           tlsCa   == Builder!TlsValue(file, file.ca, "none")
           tlsDanger == Builder!TlsValue(file, file.danger, FALSE)
           none    == Builder!Given("none")
           no      == Builder!Given(FALSE)
           flag    == flags.danger
           unset   == Builder!Unset
           source  == "config file"
           r       == Builder!Resolution(inputs, env, yes, file, auth)
<1>1. /\ Builder!CaBundle(flags, file) = Builder!FirstGiven(<<<<unset, "flag">>, <<tlsCa, source>>>>, none)
      /\ Builder!AcceptInvalidCerts(flags, file) = Builder!FirstGiven(<<<<flag, "flag">>, <<tlsDanger, source>>>>, no)
  BY DEF Builder!CaBundle, Builder!AcceptInvalidCerts
<1>2. /\ r.ca = Builder!FirstGiven(<<<<ca, source>>>>, none)
      /\ r.danger = Builder!FirstGiven(<<<<flag, "code">>, <<danger, source>>>>, no)
  BY DEF Builder!Resolution
<1>3. /\ tlsCa = IF Builder!IsGiven(ca) \/ Builder!IsGiven(danger)
                 THEN IF Builder!IsGiven(ca) THEN ca ELSE none ELSE unset
      /\ tlsDanger = IF Builder!IsGiven(ca) \/ Builder!IsGiven(danger)
                     THEN IF Builder!IsGiven(danger) THEN danger ELSE no ELSE unset
  BY DEF Builder!TlsValue, Builder!HasTls
<1>4. ~Builder!IsGiven(unset) /\ Builder!IsGiven(none) /\ Builder!IsGiven(no)
  BY DEF Builder!IsGiven, Builder!Given, Builder!Unset
<1> HIDE DEF ca, danger, tlsCa, tlsDanger, none, no, flag, unset, source, r
<1>5. /\ Builder!CaBundle(flags, file).value =
           IF Builder!IsGiven(unset) THEN unset ELSE IF Builder!IsGiven(tlsCa) THEN tlsCa ELSE none
      /\ Builder!AcceptInvalidCerts(flags, file).value =
           IF Builder!IsGiven(flag) THEN flag ELSE IF Builder!IsGiven(tlsDanger) THEN tlsDanger ELSE no
  BY <1>1, FirstOfTwo
<1>6. r.ca.value = IF Builder!IsGiven(ca) THEN ca ELSE none
  BY <1>2, OnlyOne
<1>7. r.danger.value = IF Builder!IsGiven(flag) THEN flag ELSE IF Builder!IsGiven(danger) THEN danger ELSE no
  BY <1>2, FirstOfTwo
<1>8. Builder!CaBundle(flags, file).value = r.ca.value
  BY <1>3, <1>4, <1>5, <1>6
<1>9. Builder!AcceptInvalidCerts(flags, file).value = r.danger.value
  BY <1>3, <1>4, <1>5, <1>7
<1> QED
  BY <1>8, <1>9 DEF r

LEMMA TimeoutAgrees ==
  ASSUME NEW yes, NEW inputs, NEW env, NEW file, NEW auth, inputs.timeout = Builder!Unset
  PROVE  CliTimeout(file).value = Builder!Resolution(inputs, env, yes, file, auth).timeout.value
<1> DEFINE unset   == Builder!Unset
           source  == "config file"
           timeout == file.timeout
           r       == Builder!Resolution(inputs, env, yes, file, auth)
<1>1. r.timeout = Builder!FirstGiven(<<<<unset, "code">>, <<timeout, source>>>>, unset)
  BY DEF Builder!Resolution
<1>2. ~Builder!IsGiven(unset)
  BY DEF Builder!IsGiven
<1> HIDE DEF unset, source, timeout, r
<1>3. /\ r.timeout.value = IF Builder!IsGiven(unset) THEN unset ELSE IF Builder!IsGiven(timeout) THEN timeout ELSE unset
      /\ Builder!FirstGiven(<<<<timeout, source>>>>, unset).value = IF Builder!IsGiven(timeout) THEN timeout ELSE unset
  BY <1>1, FirstOfTwo, OnlyOne
<1> QED
  BY <1>2, <1>3 DEF unset, source, timeout, r, CliTimeout

(* What was searched is found in one of three places, or nowhere.          *)
LEMMA SearchedIn ==
  ASSUME NEW env, NEW file, NEW credentials, Builder!Discover(env, file, credentials).ok
  PROVE  LET found == Builder!Discover(env, file, credentials).value
         IN \/ found = Builder!NotFound
            \/ \E v : \/ found = Builder!From("environment", v) \/ found = Builder!From("config file", v)
                      \/ found = Builder!From("credentials file", v)
<1> DEFINE e == Builder!EnvProvider(env)
           c == Builder!ConfigFileCredential(file)
           f == Builder!CredentialsFileCredential(credentials)
           d == Builder!Discover(env, file, credentials)
<1>1. d = IF e.ok
          THEN IF ~Builder!IsNone(e.value) THEN Builder!Ok(Builder!From("environment", e.value))
               ELSE IF c.ok
                    THEN IF ~Builder!IsNone(c.value) THEN Builder!Ok(Builder!From("config file", c.value))
                         ELSE IF f.ok
                              THEN IF ~Builder!IsNone(f.value) THEN Builder!Ok(Builder!From("credentials file", f.value))
                                   ELSE Builder!Ok(Builder!NotFound)
                              ELSE f
                    ELSE c
          ELSE e
  BY DEF Builder!Discover, Builder!Then
<1>2. d.ok
  OBVIOUS
<1> HIDE DEF e, c, f, d
<1>3. \/ d = Builder!Ok(Builder!NotFound) \/ d = Builder!Ok(Builder!From("environment", e.value))
      \/ d = Builder!Ok(Builder!From("config file", c.value))
      \/ d = Builder!Ok(Builder!From("credentials file", f.value))
  BY <1>1, <1>2
<1> QED
  BY <1>3, OkIs DEF d

(* What is found keeps its source in the builder, and what is named does   *)
(* not, so that both refuse the same credentials.                          *)

LEMMA SameCredential ==
  ASSUME NEW yes, NEW named, NEW inputs, NEW env, NEW file, NEW credentials,
         inputs.auth = IF Builder!IsNone(named) THEN Builder!Unset ELSE Builder!Given(named)
  PROVE  LET cli   == IF Builder!IsNone(named) THEN Builder!Discover(env, file, credentials)
                      ELSE Builder!Ok(Builder!From("flag", named))
             auth  == Builder!ResolveAuth(inputs, env, file, credentials)
             made == Builder!FromResolution(Builder!Resolution(inputs, env, yes, file, auth.value))
         IN /\ cli.ok <=> auth.ok
            /\ cli.ok => /\ cli.value.credential = made.auth
                         /\ cli.value.source \in {"flag", "none"} <=> made.foundIn = "none"
<1> DEFINE found == Builder!Discover(env, file, credentials)
           auth  == Builder!ResolveAuth(inputs, env, file, credentials)
           r     == Builder!Resolution(inputs, env, yes, file, auth.value)
           b     == Builder!FromResolution(r)
<1>1. r.auth = auth.value
  BY DEF Builder!Resolution
<1>2. /\ r.auth.source = "none" => b.auth = Builder!Nothing
      /\ r.auth.source # "none" => b.auth = r.auth.credential
      /\ r.auth.source \in {"none", "code"} => b.foundIn = "none"
      /\ r.auth.source \notin {"none", "code"} => b.foundIn = r.auth.source
  BY FromResolutionIs
<1>3. auth = IF Builder!IsGiven(inputs.auth) THEN Builder!Ok(Builder!From("code", inputs.auth[1])) ELSE found
  BY DEF Builder!ResolveAuth
<1> HIDE DEF found, auth, r, b
<1>4. CASE ~Builder!IsNone(named)
  <2>1. Builder!IsGiven(inputs.auth) /\ inputs.auth[1] = named
    BY <1>4 DEF Builder!IsGiven, Builder!Given, Builder!Unset
  <2>2. auth = Builder!Ok(Builder!From("code", named))
    BY <1>3, <2>1
  <2>3. auth.ok /\ auth.value.source = "code" /\ auth.value.credential = named
    BY <2>2, OkIs, FromIs
  <2>4. b.auth = named /\ b.foundIn = "none"
    BY <1>1, <1>2, <2>3
  <2>5. LET cli == Builder!Ok(Builder!From("flag", named))
        IN cli.ok /\ cli.value.source = "flag" /\ cli.value.credential = named
    BY OkIs, FromIs
  <2> QED
    BY <1>4, <2>3, <2>4, <2>5 DEF auth, r, b
<1>5. CASE Builder!IsNone(named)
  <2>1. auth = found
    BY <1>3, <1>5 DEF Builder!IsGiven
  <2>2. ASSUME found.ok
        PROVE  /\ found.value.credential = b.auth
               /\ found.value.source \in {"flag", "none"} <=> b.foundIn = "none"
    <3> DEFINE v == found.value
    <3>1. \/ v = Builder!NotFound
          \/ \E w : \/ v = Builder!From("environment", w) \/ v = Builder!From("config file", w)
                    \/ v = Builder!From("credentials file", w)
      BY <2>2, SearchedIn DEF found
    <3> HIDE DEF v
    <3>2. r.auth = v
      BY <1>1, <2>1 DEF v
    <3>3. Builder!NotFound = Builder!From("none", Builder!Nothing)
      BY DEF Builder!NotFound
    <3>4. /\ v.source = "none" => v.credential = Builder!Nothing
          /\ v.source \in {"none", "environment", "config file", "credentials file"}
      <4>1. v = Builder!NotFound => v.source = "none" /\ v.credential = Builder!Nothing
        BY <3>3, FromIs
      <4>2. \A s, w : v = Builder!From(s, w) => v.source = s
        BY FromIs
      <4>3. \/ v.source = "none" /\ v.credential = Builder!Nothing
            \/ v.source \in {"environment", "config file", "credentials file"}
        BY <3>1, <4>1, <4>2, Zenon
      <4> QED
        BY <4>3, Zenon
    <3>5. v.credential = b.auth /\ (v.source \in {"flag", "none"} <=> b.foundIn = "none")
      <4>1. CASE v.source = "none"
        BY <1>2, <3>2, <3>4, <4>1
      <4>2. CASE v.source # "none"
        <5>1. v.source \notin {"none", "code", "flag"}
          BY <3>4, <4>2, Zenon
        <5> QED
          BY <1>2, <3>2, <5>1
      <4> QED
        BY <4>1, <4>2
    <3> QED
      BY <3>5 DEF v
  <2> QED
    BY <1>5, <2>1, <2>2 DEF found, auth, r, b
<1> QED
  BY <1>4, <1>5

LEMMA FromResolutionKeeps ==
  ASSUME NEW r
  PROVE  LET b == Builder!FromResolution(r)
         IN b.timeout = r.timeout.value /\ b.ca = r.ca.value
BY DEF Builder!FromResolution, Builder!WithAuth, Builder!FoundAuth, Builder!EmptyBuilder

LEMMA BuildOkIs ==
  ASSUME NEW b
  PROVE  LET result == Builder!BuildResult(b)
         IN /\ result.ok <=> /\ Builder!IsGiven(b.url) /\ b.url[1].scheme \in {"http", "https"}
                             /\ ~(b.foundIn # "none" /\ Builder!PublicPlaintext(b.url[1]))
            /\ result.ok => result.value = b
<1> DEFINE given   == Builder!IsGiven(b.url)
           valid   == b.url[1].scheme \in {"http", "https"}
           refused == b.foundIn # "none" /\ Builder!PublicPlaintext(b.url[1])
           result  == Builder!BuildResult(b)
<1>1. /\ ~given => result = Builder!Err("config")
      /\ given /\ ~valid => result = Builder!Err("config")
      /\ given /\ valid /\ refused => result = Builder!Err("refused")
      /\ given /\ valid /\ ~refused => result = Builder!Ok(b)
  <2>1. given /\ valid /\ refused => result = Builder!Err("refused")
    BY DEF Builder!BuildResult
  <2>2. given /\ ~valid => ~Builder!PublicPlaintext(b.url[1])
    BY DEF Builder!PublicPlaintext
  <2> QED
    BY <2>1, <2>2 DEF Builder!BuildResult
<1> HIDE DEF given, valid, refused, result
<1>2. /\ result.ok <=> given /\ valid /\ ~refused
      /\ result.ok => result.value = b
  BY <1>1, ErrFails, OkIs
<1> QED
  BY <1>2 DEF given, valid, refused, result

LEMMA SettingsAgree ==
  ASSUME NEW yes, Wanted(yes), NEW flags, NEW env, NEW file, NEW inputs, NEW auth, flags.ca = Builder!Unset,
         inputs.url = flags.url, inputs.danger = flags.danger, inputs.timeout = Builder!Unset
  PROVE  LET r == Builder!Resolution(inputs, env, yes, file, auth)
         IN /\ Builder!CliAddress(flags, env, file).value = r.url.value
            /\ Builder!CaBundle(flags, file).value = r.ca.value
            /\ Builder!AcceptInvalidCerts(flags, file).value = r.danger.value
            /\ CliTimeout(file).value = r.timeout.value
<1>1. Builder!CliAddress(flags, env, file).value = Builder!Address(inputs, env, yes, file).value
  BY AddressesAgree
<1>2. LET r == Builder!Resolution(inputs, env, yes, file, auth)
      IN r.url.value = Builder!Address(inputs, env, yes, file).value
  BY DEF Builder!Resolution
<1>3. LET r == Builder!Resolution(inputs, env, yes, file, auth)
      IN /\ Builder!CaBundle(flags, file).value = r.ca.value
         /\ Builder!AcceptInvalidCerts(flags, file).value = r.danger.value
  BY TlsAgrees
<1>4. LET r == Builder!Resolution(inputs, env, yes, file, auth)
      IN CliTimeout(file).value = r.timeout.value
  BY TimeoutAgrees
<1> QED
  BY <1>1, <1>2, <1>3, <1>4

(* The command line and a library client given the same settings build the *)
(* same client or both none, from any flags that clap lets through, any    *)
(* environment and any files: the address, the timeout, the credential,    *)
(* the certificate and whether certificates are checked are the same       *)
(* (aviso-cli config.rs; client/resolve.rs, client/builder.rs).  Out of    *)
(* its scope are a certificate named by a flag and variables that say      *)
(* where the files are.                                                    *)
THEOREM SettingsMeanTheSame ==
  \A flags, env, file, credentials :
    /\ file.state \in {"absent", "good", "unreadable", "unparseable"}
    /\ flags.ca = Builder!Unset /\ ~Builder!NotUnicode(env, {"configFile", "stateFile"})
    => Builder!CliAgrees(flags, env, file, credentials)
<1> SUFFICES ASSUME NEW flags, NEW env, NEW file, NEW credentials,
                    file.state \in {"absent", "good", "unreadable", "unparseable"},
                    flags.ca = Builder!Unset, ~Builder!NotUnicode(env, {"configFile", "stateFile"})
             PROVE  Builder!CliAgrees(flags, env, file, credentials)
  OBVIOUS
<1> PICK yes : Wanted(yes)
  BY DEF Wanted
<1> DEFINE resolved == Builder!CliResolve(flags, env, file, credentials)
           cli      == Builder!Then(resolved, Builder!CliBuild)
           named    == Builder!FlagCredential(flags)
           read     == Builder!LoadSettings(file)
           inputs   == Builder!LibraryInputs(flags, named.value)
           r        == Builder!Resolve(inputs, env, yes, file, file, credentials)
           b        == Builder!FromResolution(r.value)
           made     == IF r.value.ca.value = Builder!Given("not a certificate") THEN Builder!Err("config")
                       ELSE Builder!BuildResult(b)
           library  == IF named.ok THEN IF read.ok THEN IF r.ok THEN made ELSE r ELSE read ELSE named
           garbled  == NotReadable(env)
           auth     == Builder!ResolveAuth(inputs, env, file, credentials)
           provider == Builder!ResolveProvider(flags, env, file, credentials)
           whole    == Builder!Resolution(inputs, env, yes, file, auth.value)
<1>1. read.ok => read.value = file
  BY OkIs, ErrFails DEF Builder!LoadSettings
<1>2. library = Builder!Then(named, LAMBDA n : Builder!Then(read, LAMBDA f :
                  Builder!Then(Builder!Resolve(Builder!LibraryInputs(flags, n), env, TRUE, f, f, credentials),
                    LAMBDA settings :
                      IF settings.ca.value = Builder!Given("not a certificate") THEN Builder!Err("config")
                      ELSE Builder!BuildResult(Builder!FromResolution(settings)))))
  <2> DEFINE same == Builder!Resolve(inputs, env, TRUE, file, file, credentials)
  <2>1. yes = TRUE
    BY DEF Wanted
  <2>2. same = r
    BY <2>1, Zenon
  <2>3. Builder!Then(named, LAMBDA n : Builder!Then(read, LAMBDA f :
          Builder!Then(Builder!Resolve(Builder!LibraryInputs(flags, n), env, TRUE, f, f, credentials),
            LAMBDA settings :
              IF settings.ca.value = Builder!Given("not a certificate") THEN Builder!Err("config")
              ELSE Builder!BuildResult(Builder!FromResolution(settings)))))
          = IF named.ok
            THEN IF read.ok
                 THEN IF same.ok
                      THEN IF same.value.ca.value = Builder!Given("not a certificate") THEN Builder!Err("config")
                           ELSE Builder!BuildResult(Builder!FromResolution(same.value))
                      ELSE same
                 ELSE read
            ELSE named
    BY <1>1 DEF Builder!Then
  <2> HIDE DEF same, r
  <2> QED
    BY <2>2, <2>3
<1>3. Builder!CliAgrees(flags, env, file, credentials) =
        IF Builder!IsGiven(flags.url) /\ garbled THEN ~cli.ok
        ELSE (cli.ok <=> library.ok) /\ (cli.ok => Builder!SameClient(cli.value, library.value))
  BY <1>2 DEF Builder!CliAgrees, NotReadable
<1>4. /\ inputs.url = flags.url /\ inputs.danger = flags.danger /\ inputs.timeout = Builder!Unset
      /\ inputs.auth = IF Builder!IsNone(named.value) THEN Builder!Unset ELSE Builder!Given(named.value)
  BY DEF Builder!LibraryInputs, Builder!NoInputs
<1>5. /\ resolved.ok <=> ~garbled /\ read.ok /\ provider.ok
      /\ resolved.ok =>
           /\ resolved.value.url     = Builder!CliAddress(flags, env, file)
           /\ resolved.value.timeout = CliTimeout(file)
           /\ resolved.value.ca      = Builder!CaBundle(flags, file)
           /\ resolved.value.danger  = Builder!AcceptInvalidCerts(flags, file)
           /\ resolved.value.auth    = provider.value
  BY CliResolveIs DEF CliTimeout, NotReadable
<1>6. cli = IF resolved.ok THEN Builder!CliBuild(resolved.value) ELSE resolved
  BY DEF Builder!Then
<1>7. /\ ~named.ok => ~provider.ok
      /\ named.ok => /\ provider.ok <=> auth.ok
                     /\ provider.ok =>
                          LET built2 == Builder!FromResolution(whole)
                          IN /\ provider.value.credential = built2.auth
                             /\ provider.value.source \in {"flag", "none"} <=> built2.foundIn = "none"
  <2> DEFINE name == named.value
             chosen == IF Builder!IsNone(name) THEN Builder!Discover(env, file, credentials)
                       ELSE Builder!Ok(Builder!From("flag", name))
  <2>1. provider = IF ~named.ok THEN named ELSE chosen
    BY ProviderIs
  <2>2. /\ chosen.ok <=> auth.ok
        /\ chosen.ok => LET built2 == Builder!FromResolution(whole)
                        IN /\ chosen.value.credential = built2.auth
                           /\ chosen.value.source \in {"flag", "none"} <=> built2.foundIn = "none"
    <3> HIDE DEF name, inputs
    <3>1. inputs.auth = IF Builder!IsNone(name) THEN Builder!Unset ELSE Builder!Given(name)
      BY <1>4 DEF name
    <3> QED
      BY <3>1, SameCredential
  <2> HIDE DEF provider, named, chosen, auth, whole
  <2> QED
    BY <2>1, <2>2
<1>8. /\ r.ok <=> ~(~Builder!IsGiven(flags.url) /\ garbled) /\ auth.ok
      /\ r.ok => r.value = whole
  <2> HIDE DEF inputs
  <2>1. Unreadable(Builder!EnvAddress(inputs, env, yes)) <=> ~Builder!IsGiven(flags.url) /\ garbled
    BY <1>4, AddressesAgree
  <2>2. /\ r.ok <=> ~Unreadable(Builder!EnvAddress(inputs, env, yes)) /\ auth.ok
        /\ r.ok => r.value = whole
    BY LibraryResolveIs
  <2> QED
    BY <2>1, <2>2
<1>9. resolved.ok =>
        /\ resolved.value.url.value = whole.url.value
        /\ resolved.value.timeout.value = whole.timeout.value
        /\ resolved.value.ca.value = whole.ca.value
        /\ resolved.value.danger.value = whole.danger.value
  <2> DEFINE chosen == auth.value
  <2> HIDE DEF inputs, chosen
  <2>1. inputs.url = flags.url /\ inputs.danger = flags.danger /\ inputs.timeout = Builder!Unset
    BY <1>4
  <2>2. LET resolution == Builder!Resolution(inputs, env, yes, file, chosen)
        IN /\ Builder!CliAddress(flags, env, file).value = resolution.url.value
           /\ Builder!CaBundle(flags, file).value = resolution.ca.value
           /\ Builder!AcceptInvalidCerts(flags, file).value = resolution.danger.value
           /\ CliTimeout(file).value = resolution.timeout.value
    BY <2>1, SettingsAgree
  <2> HIDE DEF resolved, provider, read, garbled
  <2> QED
    BY <1>5, <2>2 DEF chosen
<1> DEFINE s == resolved.value
           w == Builder!FromResolution(whole)
<1>10. /\ w.url = whole.url.value /\ w.danger = whole.danger.value[1]
       /\ w.timeout = whole.timeout.value /\ w.ca = whole.ca.value
  BY FromResolutionIs, FromResolutionKeeps
<1>11. LET result == Builder!CliBuild(s)
       IN /\ result.ok <=> /\ Builder!IsGiven(s.url.value)
                           /\ ~(s.auth.source \notin {"flag", "none"} /\ Builder!PublicPlaintext(s.url.value[1]))
                           /\ s.ca.value # Builder!Given("not a certificate")
                           /\ s.url.value[1].scheme \in {"http", "https"}
          /\ result.ok => result.value = s
  BY CliBuildIs
<1>12. LET result == Builder!BuildResult(w)
       IN /\ result.ok <=> /\ Builder!IsGiven(w.url) /\ w.url[1].scheme \in {"http", "https"}
                           /\ ~(w.foundIn # "none" /\ Builder!PublicPlaintext(w.url[1]))
          /\ result.ok => result.value = w
  BY BuildOkIs
<1>13. r.ok => made = IF whole.ca.value = Builder!Given("not a certificate") THEN Builder!Err("config")
                      ELSE Builder!BuildResult(w)
  BY <1>8
<1> HIDE DEF resolved, named, read, inputs, r, made, garbled, auth, provider, whole, s, w
<1>14. CASE Builder!IsGiven(flags.url) /\ garbled
  BY <1>3, <1>5, <1>6, <1>14
<1>15. CASE ~(Builder!IsGiven(flags.url) /\ garbled) /\ ~(resolved.ok /\ named.ok /\ r.ok)
  <2>1. ~resolved.ok /\ ~(named.ok /\ read.ok /\ r.ok)
    BY <1>5, <1>7, <1>8, <1>15
  <2> QED
    BY <1>3, <1>6, <1>15, <2>1
<1>16. CASE resolved.ok /\ named.ok /\ r.ok
  <2>1. ~garbled /\ read.ok /\ provider.ok
    BY <1>5, <1>16
  <2>2. cli = Builder!CliBuild(s) /\ library = made
    BY <1>6, <1>16, <2>1 DEF s
  <2>3. /\ s.url.value = w.url /\ s.timeout.value = w.timeout /\ s.ca.value = w.ca
        /\ s.danger.value[1] = w.danger
    BY <1>9, <1>10, <1>16 DEF s
  <2>4. s.auth.credential = w.auth /\ (s.auth.source \in {"flag", "none"} <=> w.foundIn = "none")
    BY <1>5, <1>7, <1>16, <2>1 DEF s, w
  <2>5. /\ made.ok <=> s.ca.value # Builder!Given("not a certificate") /\ Builder!BuildResult(w).ok
        /\ made.ok => made = Builder!BuildResult(w)
    BY <1>10, <1>13, <1>16, <2>3, ErrFails
  <2>6. cli.ok <=> library.ok
    BY <1>11, <1>12, <2>2, <2>3, <2>4, <2>5
  <2>7. cli.ok => cli.value = s /\ library.value = w
    BY <1>11, <1>12, <2>2, <2>5, <2>6
  <2>8. cli.ok => Builder!SameClient(cli.value, library.value)
    BY <2>3, <2>4, <2>7 DEF Builder!SameClient
  <2> QED
    BY <1>3, <2>1, <2>6, <2>8
<1> QED
  BY <1>14, <1>15, <1>16
=============================================================================
