---------------------------- MODULE ClientBuilder ----------------------------
(***************************************************************************)
(* Building a client (client/builder.rs) directly, through the handle of   *)
(* the C interface (aviso-ffi client/mod.rs, auth.rs, describe.rs) or from *)
(* the arguments of a Python constructor (aviso-py client_args.rs), while  *)
(* somebody else rewrites the files it is read from.                       *)
(*                                                                         *)
(* Left out: the user agent, the state store and the flush option, which   *)
(* are handed on as they are, and the heartbeat interval, which goes where *)
(* the timeout goes.                                                       *)
(***************************************************************************)
EXTENDS Settings

CONSTANTS Versions,     \* the contents a file may be given, by file name
          Env,          \* the environment of the process
          Urls,         \* addresses a caller may name
          Credentials,  \* credentials a caller may name
          MaxWrites,    \* how often a file is rewritten
          MaxCalls      \* how many setters are called

VARIABLES
  files,      \* what is on disk now: "config", "named" and "credentials"
  lookup,     \* the lookup under way: which sources, and the file it has read
  handle,     \* the builder, with what the C handle remembers beside it
  report,     \* the settings a constructor reports, while they still describe the builder
  outcome,    \* what build has returned
  origin,     \* (ghost) how the address and the credential got into the builder
  writes, calls

vars == <<files, lookup, handle, report, outcome, origin, writes, calls>>

NoInputs == [url |-> Unset, timeout |-> Unset, danger |-> Unset, auth |-> Unset]

-----------------------------------------------------------------------------
(* AvisoClientBuilder.                                                     *)

EmptyBuilder == [url |-> Unset, auth |-> Nothing, foundIn |-> "none", timeout |-> Unset,
                 ca |-> Given("none"), danger |-> FALSE]

WithUrl(b, url) == [b EXCEPT !.url = Given(url)]
WithAuth(b, credential) == [b EXCEPT !.auth = credential, !.foundIn = "none"]
Anonymous(b) == WithAuth(b, Nothing)

(* Mutation: the builder forgets that it found the credential by itself.   *)
FoundAuthUnmarked(b, found) == [b EXCEPT !.auth = found.credential]
FoundAuth(b, found) == [b EXCEPT !.auth = found.credential, !.foundIn = found.source]

(* from_resolution.                                                        *)
FromResolution(settings) ==
  LET b == [EmptyBuilder EXCEPT !.url = settings.url.value, !.timeout = settings.timeout.value,
                                !.ca = settings.ca.value, !.danger = settings.danger.value[1]]
  IN CASE settings.auth.source = "none" -> b
       [] settings.auth.source = "code" -> WithAuth(b, settings.auth.credential)
       [] settings.auth.source \notin {"none", "code"} -> FoundAuth(b, settings.auth)

(* AvisoClientBuilder::build.                                              *)
BuildResult(b) ==
  CASE ~IsGiven(b.url) -> Err("config")
    [] IsGiven(b.url) /\ b.url[1].scheme \notin {"http", "https"} -> Err("config")
    [] IsGiven(b.url) /\ b.foundIn # "none" /\ PublicPlaintext(b.url[1]) -> Err("refused")
    [] OTHER -> Ok(b)

-----------------------------------------------------------------------------
(* The handle: a builder, the first error, and what `describe` resolves.   *)

NoHandle == [inner |-> EmptyBuilder, error |-> "no handle", inputs |-> NoInputs,
             readsEnv |-> FALSE, searched |-> FALSE, file |-> "config", pinned |-> Unset]
HasHandle == handle # NoHandle
Usable    == HasHandle /\ handle.error = "none" /\ ~IsGiven(outcome) /\ calls < MaxCalls

NoOrigin == [url |-> "none", auth |-> "none", again |-> FALSE]

Init ==
  /\ files \in [{"config", "named", "credentials"} -> UNION {Range(Versions[f]) : f \in DOMAIN Versions}]
  /\ \A f \in DOMAIN files : files[f] \in Range(Versions[f])
  /\ lookup = Unset /\ handle = NoHandle /\ report = Unset /\ outcome = Unset
  /\ origin = NoOrigin
  /\ writes = 0 /\ calls = 0

(* Another program rewrites a file.                                        *)
Rewrite(f) ==
  /\ writes < MaxWrites
  /\ \E content \in Range(Versions[f]) \ {files[f]} : files' = [files EXCEPT ![f] = content]
  /\ writes' = writes + 1
  /\ UNCHANGED <<lookup, handle, report, outcome, origin, calls>>

(* aviso_client_builder_new, AvisoClient::builder with an address.         *)
NewBuilder(url) ==
  /\ ~HasHandle /\ ~IsGiven(lookup)
  /\ handle' = [NoHandle EXCEPT !.inner = WithUrl(EmptyBuilder, url), !.error = "none",
                                !.inputs.url = Given(url)]
  /\ origin' = [origin EXCEPT !.url = "named"]
  /\ UNCHANGED <<files, lookup, report, outcome, writes, calls>>

(* from_file, from_environment, from_file_at and the constructors of the   *)
(* Python interface: the config file is read.  One named must be there.    *)
ReadConfig(file, readsEnv, inputs) ==
  /\ ~HasHandle /\ ~IsGiven(lookup)
  /\ IF LoadSettings(files[file]).ok /\ (file = "named" => files[file].state # "absent")
     THEN /\ lookup' = Given([file |-> file, readsEnv |-> readsEnv, inputs |-> inputs,
                              content |-> files[file]])
          /\ UNCHANGED handle
     ELSE /\ handle' = [NoHandle EXCEPT !.error = "config"]
          /\ UNCHANGED lookup
  /\ UNCHANGED <<files, report, outcome, origin, writes, calls>>

(* The rest of resolve: the credential is searched for in the environment, *)
(* in what was read of the config file, and in the credentials file.       *)
(* Mutation: the config file is opened again for its auth block.           *)
ContentReread(l) == files[l.file]
Content(l)       == l.content

Finish ==
  /\ IsGiven(lookup) /\ ~HasHandle
  /\ LET l        == lookup[1]
         resolved == Resolve(l.inputs, Env, l.readsEnv, l.content, Content(l), files.credentials)
         fresh    == [NoHandle EXCEPT !.inputs = l.inputs, !.readsEnv = l.readsEnv, !.searched = TRUE,
                                      !.file = l.file,
                                      !.pinned = IF l.file = "named" THEN Given(l.content) ELSE Unset]
     IN IF ~resolved.ok \/ resolved.value.ca.value = Given("not a certificate")
        THEN /\ handle' = [fresh EXCEPT !.error = IF resolved.ok THEN "config" ELSE resolved.error]
             /\ UNCHANGED <<report, origin>>
        ELSE /\ handle' = [fresh EXCEPT !.inner = FromResolution(resolved.value), !.error = "none"]
             /\ report' = Given(resolved.value)
             /\ origin' = [origin EXCEPT !.url = resolved.value.url.source,
                                         !.auth = resolved.value.auth.source]
  /\ UNCHANGED <<files, lookup, outcome, writes, calls>>

(* A setter: the report no longer describes the builder.                   *)
Called == calls' = calls + 1 /\ report' = Unset /\ UNCHANGED <<files, lookup, outcome, writes>>

SetUrl(url) ==
  /\ Usable /\ Called
  /\ handle' = [handle EXCEPT !.inner = WithUrl(@, url), !.inputs.url = Given(url)]
  /\ origin' = [origin EXCEPT !.url = "named"]

(* bearer_auth, basic_auth.                                                *)
NameCredential(credential) ==
  /\ Usable /\ Called
  /\ LET made == IF credential.kind = "bearer" THEN Bearer(credential.secret, "code")
                 ELSE Basic(credential.secret, "code")
     IN IF made.ok
        THEN /\ handle' = [handle EXCEPT !.inner = WithAuth(@, made.value),
                                         !.inputs.auth = Given(made.value)]
             /\ origin' = [origin EXCEPT !.auth = "code"]
        ELSE /\ handle' = [handle EXCEPT !.error = made.error]
             /\ UNCHANGED origin

BeAnonymous ==
  /\ Usable /\ Called
  /\ handle' = [handle EXCEPT !.inner = Anonymous(@), !.inputs.auth = Given(Nothing)]
  /\ origin' = [origin EXCEPT !.auth = "code"]

(* aviso_client_builder_discover_auth.                                     *)
SearchedFile == IF IsGiven(handle.pinned) THEN handle.pinned[1] ELSE files[handle.file]

DiscoverAuth ==
  /\ Usable /\ Called
  /\ LET found == Discover(Env, SearchedFile, files.credentials)
         after == [handle EXCEPT !.searched = TRUE]
     IN CASE ~found.ok -> handle' = [after EXCEPT !.error = found.error] /\ UNCHANGED origin
          [] found.ok /\ found.value = NotFound -> handle' = after /\ UNCHANGED origin
          [] OTHER -> /\ handle' = [after EXCEPT !.inner = FoundAuth(@, found.value),
                                                 !.inputs.auth = Unset]
                      /\ origin' = [origin EXCEPT !.auth = found.value.source, !.again = TRUE]

(* aviso_client_builder_describe: what a resolution says now.              *)
Described ==
  LET inputs == IF IsGiven(handle.inputs.auth) \/ handle.searched THEN handle.inputs
                ELSE [handle.inputs EXCEPT !.auth = Given(Nothing)]
  IN Then(LoadSettings(SearchedFile), LAMBDA file :
       Resolve(inputs, Env, handle.readsEnv, file, file, files.credentials))

Build ==
  /\ HasHandle /\ ~IsGiven(outcome)
  /\ outcome' = Given(IF handle.error # "none" THEN Err(handle.error) ELSE BuildResult(handle.inner))
  /\ UNCHANGED <<files, lookup, handle, report, origin, writes, calls>>

(* The handle is gone, and the caller may start over.                      *)
StartOver ==
  /\ IsGiven(outcome)
  /\ lookup' = Unset /\ handle' = NoHandle /\ report' = Unset /\ outcome' = Unset
  /\ origin' = NoOrigin
  /\ UNCHANGED <<files, writes, calls>>

Inputs == {NoInputs} \cup {[NoInputs EXCEPT !.url = Given(url)] : url \in Urls}
            \cup {[NoInputs EXCEPT !.auth = Given(c)] : c \in {Nothing}}

Next ==
  \/ \E f \in DOMAIN files : Rewrite(f)
  \/ \E url \in Urls : NewBuilder(url) \/ SetUrl(url)
  \/ \E file \in {"config", "named"}, readsEnv \in BOOLEAN, inputs \in Inputs :
        ReadConfig(file, readsEnv, inputs)
  \/ Finish \/ DiscoverAuth \/ BeAnonymous \/ Build \/ StartOver
  \/ \E credential \in Credentials : NameCredential(credential)

Spec == Init /\ [][Next]_vars

-----------------------------------------------------------------------------
(* A client is refused exactly when the credential it would send was found *)
(* for it, rather than named, and the address is plain http on a host that *)
(* is not loopback, whatever the order of the calls that led there.        *)
RefusedExactly ==
  IsGiven(outcome) /\ handle.error = "none" =>
    LET b == handle.inner
        valid == IsGiven(b.url) /\ b.url[1].scheme \in {"http", "https"}
        found == origin.auth \notin {"none", "code"}
    IN (~outcome[1].ok /\ outcome[1].error = "refused")
         <=> (valid /\ found /\ PublicPlaintext(b.url[1]))

(* The address and the credential of a client never come from two versions *)
(* of one config file, unless its caller searched again in a file that is  *)
(* read by its place and not by its content.                               *)
OneSnapshot ==
  LET b == handle.inner
  IN origin.url = "config file" /\ origin.auth = "config file" /\ ~(origin.again /\ ~IsGiven(handle.pinned))
       => b.auth.of = b.url[1].of

(* What a constructor reports is the client it builds: the same address,   *)
(* the credential of the source it names, and a refusal where it says so.  *)
ReportAgrees ==
  IsGiven(report) /\ IsGiven(outcome) =>
    LET r == report[1]
        refused == ~outcome[1].ok /\ outcome[1].error = "refused"
    IN /\ refused <=> r.refused
       /\ outcome[1].ok => /\ outcome[1].value.url = r.url.value
                           /\ outcome[1].value.auth = r.auth.credential
                           /\ outcome[1].value.danger = r.danger.value[1]

(* What aviso_client_builder_describe says of a builder, before and after  *)
(* any setter, is the address and the credential it has, and whether it    *)
(* would be refused, as long as nobody rewrites the files.                 *)
DescribeFollows ==
  HasHandle /\ handle.error = "none" /\ writes = 0 /\ Described.ok =>
    LET d == Described.value
        b == handle.inner
    IN /\ d.url.value = b.url /\ d.auth.credential = b.auth
       /\ d.refused <=> IsGiven(b.url) /\ b.foundIn # "none" /\ PublicPlaintext(b.url[1])

(* The command line and a library client given the same settings, in the   *)
(* same environment, end up with the same client or both with none.  Only  *)
(* an address variable that is not UTF-8 is refused by the command line    *)
(* where the library would not have read it, a flag being there.           *)
LibraryInputs(flags, named) ==
  [NoInputs EXCEPT !.url = flags.url, !.danger = flags.danger,
                   !.auth = IF IsNone(named) THEN Unset ELSE Given(named)]

SameClient(settings, builder) ==
  /\ settings.url.value = builder.url
  /\ settings.timeout.value = builder.timeout
  /\ settings.auth.credential = builder.auth
  /\ settings.ca.value = builder.ca
  /\ settings.danger.value[1] = builder.danger

CliAgrees(flags, env, file, credentials) ==
  LET cli     == Then(CliResolve(flags, env, file, credentials), CliBuild)
      made(settings) == IF settings.ca.value = Given("not a certificate") THEN Err("config")
                        ELSE BuildResult(FromResolution(settings))
      library == Then(FlagCredential(flags), LAMBDA named : Then(LoadSettings(file), LAMBDA read :
                   Then(Resolve(LibraryInputs(flags, named), env, TRUE, read, read, credentials), made)))
      overridden == IsGiven(flags.url) /\ env.baseUrl.scheme = "not unicode"
  IN IF overridden THEN ~cli.ok
     ELSE /\ cli.ok <=> library.ok
          /\ cli.ok => SameClient(cli.value, library.value)
=============================================================================
