---------------------------- MODULE MCClientParts ----------------------------
(***************************************************************************)
(* The parts of a client that a call or a watch passes through, one at a   *)
(* time: the requests of all its clones, with their refresh (AuthRefresh), *)
(* the file its credential is read from (CredentialFile), the bytes of an  *)
(* event stream (SseParser), the files and calls a client is built from    *)
(* (ClientBuilder), and the inputs of the definitions that keep no state   *)
(* (Settings, TriggerSettings, Requests, CommandLine, Calls, CommandText   *)
(* and Templates), each an initial state of its own.                       *)
(***************************************************************************)
EXTENDS AuthRefresh, SequencesExt, FiniteSetsExt, TLC

CONSTANTS
  Refreshers, Chains, MaxRewrites,                   \* of CredentialFile
  Versions, Env, Urls, Credentials, MaxWrites, MaxCalls,   \* of ClientBuilder
  Streams, MaxLine, MaxEvent, PieceLen, MaxDigits    \* of SseParser

VARIABLES
  part,     \* "refresh", "credential", "stream", "builder" or "input"
  input,    \* an input of a definition that keeps no state
  members, text, cached, refresh, content, asked, alone,              \* of CredentialFile
  wire, pc, chunk, buf, scanFrom, bomResolved, pendingEvent, pendingData, lastId,
  queue, closed, overflow, fed, ended, popped,                        \* of SseParser
  files, lookup, handle, report, built, origin, writes, calls         \* of ClientBuilder

credentialVars == <<members, text, cached, refresh, content, asked, alone>>
parserVars  == <<wire, pc, chunk, buf, scanFrom, bomResolved, pendingEvent, pendingData, lastId,
                 queue, closed, overflow, fed, ended, popped>>
builderVars == <<files, lookup, handle, report, built, origin, writes, calls>>

Parser == INSTANCE SseParser

(* One credentials file behind each chain a client may have, with requests *)
(* and a watch that refresh it.                                            *)
SmallChains == {<<"file">>, <<"mute", "file">>, <<"file", "static">>, <<"static", "file">>, <<"mute">>, <<>>}
Credential == INSTANCE CredentialFile

-----------------------------------------------------------------------------
(* Streams: every way in which marks and line ends can be mixed with text, *)
(* and lines with every field, in every order.                             *)

Framing == SeqOf({"ef", "bb", "bf", "cr", "lf", "x"}, 4)
  \cup {<<"ef", "bb", "bf">> \o s : s \in SeqOf({"ef", "cr", "lf", "x"}, 3)}

StreamLines == {<<>>, <<"data">>, <<"data", ":", "x">>, <<"data", ":", "sp", "x">>,
          <<"event", ":", "x">>, <<"id", ":", "digit">>, <<"id", ":", "nul">>,
          <<"retry", ":", "digit">>, <<"retry", ":", "x">>,
          <<"retry", ":", "digit", "digit">>, <<":", "x">>}

Terminated(l) == {l \o <<"lf">>, l \o <<"cr">>, l \o <<"cr", "lf">>}

StreamEvents == {FlattenSeq([i \in DOMAIN s |-> s[i] \o <<"lf">>]) : s \in SeqOf(StreamLines, 3)}
  \cup {s \o d \o e : s \in Terminated(<<"id", ":", "x">>), d \in Terminated(<<"data", ":", "x">>),
                      e \in Terminated(<<>>)}

SmallStreams == Framing \cup StreamEvents

ASSUME StreamsAssumption ==
  /\ \A stream \in Streams : stream \in Seq(Range(stream))
  /\ MaxLine \in Nat /\ MaxEvent \in Nat /\ PieceLen \in Nat \ {0}

-----------------------------------------------------------------------------
(* Files, environments and addresses.                                      *)

Unset == <<>>
Given(x) == <<x>>
Option(S) == {Unset} \cup {Given(x) : x \in S}

Url(scheme, host, of) == [scheme |-> scheme, host |-> host, userinfo |-> FALSE, of |-> of]
File(state, version, url, auth) ==
  [state |-> state, version |-> version, url |-> url, auth |-> auth, secret |-> "secret",
   timeout |-> Unset, ca |-> Unset, danger |-> Unset, stateFile |-> Unset]
Absent == File("absent", "none", Unset, "none")

SmallVersions ==
  [config      |-> <<File("good", "v1", Given(Url("https", "public", "v1")), "bearer"),
                     File("good", "v2", Given(Url("http", "public", "v2")), "basic"),
                     File("good", "v3", Unset, "none"), Absent>>,
   named       |-> <<File("good", "w1", Given(Url("https", "public", "w1")), "bearer"),
                     File("good", "w2", Given(Url("http", "localhost", "w2")), "bearer"), Absent>>,
   credentials |-> <<File("good", "c1", Unset, "bearer"), File("good", "c2", Unset, "both"), Absent>>]

NoEnvironment == [token |-> "unset", username |-> "unset", password |-> "unset",
                  configFile |-> "unset", stateFile |-> "unset", baseUrl |-> Url("unset", "", "env")]
SmallEnv  == [NoEnvironment EXCEPT !.baseUrl = Url("http", "public", "env")]
SmallUrls == {Url("http", "public", "code"), Url("https", "public", "code"), Url("unparseable", "", "code")}
SmallCredentials == {[kind |-> "bearer", secret |-> "mine"], [kind |-> "basic", secret |-> "a:b"]}

Builder == INSTANCE ClientBuilder WITH outcome <- built

(* The address of a file and its credential are of the same version.       *)
SoundFile(file) ==
  /\ file.state \in {"absent", "good", "unreadable", "unparseable"}
  /\ file.auth \in {"none", "bearer", "basic", "both", "malformed"}
  /\ Builder!IsGiven(file.url) => file.url[1].of = file.version

ASSUME VersionsAssumption ==
  /\ DOMAIN Versions = {"config", "named", "credentials"}
  /\ \A f \in DOMAIN Versions : \A file \in Range(Versions[f]) : SoundFile(file)

JsonSamples == {<<"1">>, <<"{", "}">>, <<"[", ",", "]">>, <<"dq", "x", "dq">>, <<"dq", ",", "dq">>}
Cli == INSTANCE CommandLine WITH MaxSequence <- 3, JsonTexts <- JsonSamples

(* Settings, on the command line and in a library.  Arguments clap refuses *)
(* are left out.                                                           *)
NoInline == [event |-> Unset, json |-> Unset, entries |-> <<>>]
NoFlags == [url |-> Unset, token |-> Unset, username |-> Unset,
            password |-> Unset, ca |-> Unset, danger |-> Unset]

FlagSets ==
  {flags \in
     {[NoFlags EXCEPT !.url = url, !.danger = danger, !.token = token, !.username = user, !.password = password] :
        url \in Option({Url("http", "public", "flag"), Url("https", "public", "flag")}),
        danger \in Option({TRUE}), token \in Option({"", "mine"}),
        user \in Option({"", "me", "a:b"}), password \in Option({"p"})} :
   ~Cli!ClapRefuses(flags, NoInline)}

Environments ==
  {[NoEnvironment EXCEPT !.token = token, !.username = user, !.password = password, !.baseUrl = url] :
     token \in {"unset", "", "t", "not unicode"}, user \in {"unset", "", "u"}, password \in {"unset", "", "p"},
     url \in {Url("unset", "", "env"), Url("", "", "env"), Url("http", "localhost", "env"),
              Url("not unicode", "", "env"), Url("ftp", "public", "env")}}

ConfigFiles ==
  {[File(state, "v1", url, auth) EXCEPT !.ca = ca, !.danger = danger] :
     state \in {"good", "unreadable", "unparseable"},
     url \in Option({Url("http", "public", "v1")}),
     auth \in {"none", "bearer", "both", "malformed"},
     ca \in Option({"a bundle", "not a certificate"}), danger \in Option({TRUE, FALSE})}
  \cup {Absent}

CredentialsFiles == Range(SmallVersions.credentials)

SettingsInputs ==
  [family : {"settings"}, flags : FlagSets, env : Environments, file : {Absent}, credentials : {Absent}]
  \cup [family : {"settings"}, flags : {f \in FlagSets : f.username = Unset}, env : {NoEnvironment, SmallEnv},
        file : ConfigFiles, credentials : CredentialsFiles]

-----------------------------------------------------------------------------
(* Requests and triggers.                                                  *)

Digits(n) == [form |-> "digits", number |-> n, second |-> 0, nanos |-> 0]
Positions == {Digits(n) : n \in 0 .. 3}
  \cup {[form |-> form, number |-> 1, second |-> 5, nanos |-> 1500] : form \in {"day", "fraction"}}

RangeInputs == [family : {"range"}, from : Option(Positions), until : Option(Positions), replay : BOOLEAN]

(* Listeners with positions of their own, in a config file, in files named *)
(* on the command line or given there.                                     *)
Listeners ==
  [name : Option({"n"}), event : {"e", "f"}, identifiers : {Cli!NoFilter, "a" :> "1"}, triggers : {<<>>},
   fromId : Option({1}), fromDate : Option({"a day"})]
Inlines ==
  {NoInline,
   [NoInline EXCEPT !.event = Given("e"), !.json = Given([text |-> "object", object |-> "a" :> "1"])],
   [NoInline EXCEPT !.event = Given("e"), !.entries = <<[form |-> "value", key |-> "a", value |-> "1"]>>]}

ListenInputs ==
  [family : {"listen"}, configured : SeqOf(Listeners, 1),
   files : {<<>>, <<[ok |-> FALSE, error |-> "usage"]>>}
             \cup {<<[ok |-> TRUE, value |-> <<l>>], [ok |-> TRUE, value |-> <<[l EXCEPT !.name = name]>>]>> :
                     l \in Listeners, name \in Option({"n"})},
   args : Inlines, name : Option({"n", "other"}), from : {Digits(1), Digits(3), Digits(4)}]

(* A value that is neither a number nor a string has no other part.        *)
PyPositions == {[type |-> "int", int |-> n, str |-> ""] : n \in {-1, 1, 2, 4}}
  \cup {[type |-> type, int |-> 0, str |-> "a day"] : type \in {"str", "bool"}}

Function(callable, async) == Cli!PyFunction([callable |-> callable, async |-> async], "required" :> FALSE)
PyTriggers ==
  {[type |-> "sequence", items |-> items] :
     items \in {<<Function(TRUE, TRUE).value>>, <<Cli!Made("echo", ""), Function(TRUE, FALSE).value>>,
               <<[kind |-> "not a trigger"]>>}}
  \cup {[type |-> "other"]}
PyFilters ==
  {"a" :> [nesting |-> nesting, cyclic |-> cyclic, leaf |-> leaf] :
     nesting \in {0, Cli!MaxIdentifierNesting, Cli!MaxIdentifierNesting + 1},
     cyclic \in BOOLEAN, leaf \in {"1", "nan"}}

ManyInputs ==
  [family : {"many"}, split : SUBSET {"start", "until", "mode"}, start : Option(PyPositions),
   until : Option(PyPositions), mode : Option({"watch", "replay_only", "other"}),
   filter : {Unset}, triggers : {Unset}, asynchronous : {TRUE}]
  \cup [family : {"many"}, split : {{"start"}}, start : {Given([type |-> "int", int |-> 1, str |-> ""])},
        until : {Unset}, mode : {Unset},
        filter : Option(PyFilters), triggers : Option(PyTriggers), asynchronous : BOOLEAN]

PyArguments(i) ==
  [Cli!PyNone EXCEPT !.event = Given("e"), !.start = i.start, !.until = i.until, !.mode = i.mode,
                     !.filter = i.filter, !.triggers = i.triggers]

(* What is said of a trigger: one of two values for each of a few fields.  *)
FieldValues ==
  [retries |-> <<0, 3>>, required |-> <<TRUE, FALSE>>, timeout |-> <<0, 5>>, failFast |-> <<TRUE, FALSE>>,
   label |-> <<"", "l">>, env |-> <<"a" :> "1", [a |-> "1", b |-> "2"]>>, workingDir |-> <<"", "dir">>,
   method |-> <<"PUT", "TRACE">>, headers |-> <<"a" :> "1", "b" :> "2">>,
   bodyTemplate |-> <<"", "body">>, titleTemplate |-> <<"", "title">>]

TriggerInputs ==
  [family : {"trigger"}, kind : Cli!Kinds,
   said : UNION {[fields -> {1, 2}] : fields \in {F \in SUBSET DOMAIN FieldValues : Cardinality(F) <= 4}}]

SaidOf(i) == [field \in DOMAIN i.said |-> FieldValues[field][i.said[field]]]

(* Watches whose parts, put end to end, could be mistaken for each other.  *)
FilterNames == <<"a", "b">>
Watched ==
  [url : [scheme : {"http", "https"}, host : {"h"}, port : {"none", "443"}, path : {<<>>, <<"slash">>, <<"slash", "a">>}],
   event : {<<>>, <<"a">>, <<"1", "a">>, <<"a", "none">>},
   filter : {Cli!NoFilter, "a" :> "1", [a |-> "1", b |-> "a"], "b" :> "1"},
   fingerprint : Option({<<>>, <<"a">>})]

SmallWatched == {w \in Watched : w.url.scheme = "http" => w.url.port = "none" /\ w.filter = Cli!NoFilter}
KeyInputs == [family : {"key"}, a : SmallWatched, b : {w \in SmallWatched : w.url.port = "none"}]

-----------------------------------------------------------------------------
(* Commands and calls.                                                     *)

PairValues == SeqOf({"x", ",", "=", "{", "sp"}, 2)
PairInputs == [family : {"pairs"}, pairs : SeqOf([name : {"a", "b"}, value : PairValues], 2)]

Outcomes(kinds) == {[ok |-> TRUE, value |-> "value"]} \cup {[ok |-> FALSE, error |-> kind] : kind \in kinds}
ServerErrors ==
  [kind : {"Http"}, status : {400, 401, 404, 500},
   phrases : {S \in SUBSET {"unknown event type", "missing for watch", "not found", "too long"} : Cardinality(S) <= 2}]
  \cup {[kind |-> "Transport", status |-> 0, phrases |-> {}]}
Answered(errors) ==
  {[ok |-> TRUE, value |-> "value"]} \cup {[ok |-> FALSE, error |-> error] : error \in errors}
CommandsOf(names, listeners) ==
  [name : names, yes : BOOLEAN, refused : BOOLEAN, input : Outcomes({"usage", "config"}), listeners : listeners]
ResolvedAs == [settings : Outcomes({"usage", "config"}), client : Outcomes({"usage", "config"})]
AskedOnce  == CommandsOf((Cli!Asks \ {"listen"}) \cup {"config_dump", "completions"}, {<<>>})
Listening  == {c \in CommandsOf({"listen"}, SeqOf({"one", "both"}, 2) \ {<<>>}) : ~c.yes /\ ~c.refused}
Listened   == {e \in ServerErrors : Cardinality(e.phrases) <= 1 /\ e.status \in {0, 401, 404}}
CommandInputs ==
  [family : {"command"}, resolved : ResolvedAs, command : AskedOnce,
   answers : {<<answer>> : answer \in Answered(ServerErrors)}]
  \cup [family : {"command"}, resolved : ResolvedAs, command : Listening,
        answers : [1 .. 2 -> Answered(Listened)]]

Words == Option({<<"x">>, <<"x", "url">>, <<"control">>})
DiagnosticInputs ==
  [family : {"diagnostic"},
   body : [code : {"UNKNOWN_EVENT_TYPE", "INTERNAL_ERROR", "OTHER"}, message : Words, details : Words,
           requestId : Words, types : Words],
   header : Words]

Remote == INSTANCE Calls

Answers == Option([status : {200, 204, 401, 500}, body : {"expected", "other", "cut off"},
                   requestId : Option({"id"})])
CallInputs ==
  [family : {"call"},
   call : [operation : Remote!Operations, name : {"null", "not unicode", "", "..", "a/b", "control", "name"},
           identifier : {"null", "not unicode", "not json", "array", "object"},
           payload : {"null", "not json", "json"}, client : {"null", "client"},
           onRuntime : BOOLEAN, onComplete : {"null", "function"}],
   answer : {Unset, Given([status |-> 200, body |-> "expected", requestId |-> Unset])}]
  \cup [family : {"call"},
        call : [operation : Remote!Operations, name : {"..", "name"}, identifier : {"object"}, payload : {"json"},
                client : {"client"}, onRuntime : {FALSE}, onComplete : {"function"}],
        answer : Answers]

Notifications ==
  [type : {"object"}, eventType : {"string", "missing"}, identifier : {"missing", "object", "array"},
   payload : {"missing"}]
Orders == {order \in SeqOf(1 .. 3, 3) : Len(order) = 3 /\ IsInjective(order)}
Replies ==
  {<<a, b, c>> : a \in {Unset}, b \in Option({[status |-> 200, body |-> "expected", requestId |-> Unset]}),
                 c \in Option([status : {200, 401}, body : {"expected"}, requestId : {Given("id")}])}
NotifyInputs ==
  [family : {"notify_many"}, list : [1 .. 3 -> Notifications], concurrency : {0, 1, 2}, order : Orders,
   answers : Replies]

-----------------------------------------------------------------------------
(* Texts.                                                                  *)

T == INSTANCE Templates

(* Pieces of a command that are complete in themselves, what they grow     *)
(* into, and what may stand open where a value is placed.                  *)
Atoms == {<<>>, <<"x">>, <<"bs", "sq">>, <<"bs", "dq">>, <<"sq", "dq", "bs", "sq">>, <<"dq", "sq", "dq">>,
          <<"dq", "bs", "dq", "dq">>, <<"x", "#", "sq", "x", "sq">>, <<"sp", "#", "sq", "nl">>, <<"bs", "nl">>}
Grown(S) ==
  S \cup {<<"$", "(">> \o f \o <<")">> : f \in S} \cup {<<"sp">> \o f : f \in S}
    \cup {<<"dq", "$", "(">> \o f \o <<")", "dq">> : f \in S}
Closed == {f \o g : f \in Grown(Atoms), g \in Grown(Atoms)}
Opening == [singleQuoted |-> <<"sq">>, doubleQuoted |-> <<"dq">>, bare |-> <<>>, comment |-> <<"sp", "#">>]

Started(context) == {<<"x", "sp">> \o f \o Opening[context] \o last : f \in Closed, last \in {<<>>, <<"bs">>}}
Nested(context) ==
  {<<"x", "sp", "dq", "$", "(">> \o f \o Opening[context] : f \in Closed}

ShellInputs == UNION
  {[family : {"shell"}, before : Started(c), context : {c}, depth : {1}]
     \cup [family : {"shell"}, before : Nested(c), context : {c}, depth : {2}] : c \in DOMAIN Opening}

ShellValues == SeqOf({"x", "sq", "dq", "bs", "$", "nl", "sp", ")"}, 2)

Placeholder == <<"lb", "lb", "notification", "dot", "x", "rb", "rb">>
UrlTexts ==
  {scheme \o <<"x", "dot", "x">> \o path \o Placeholder \o rest :
     scheme \in {<<>>, <<"x", "colon">>, <<"x", "colon", "slash", "slash">>},
     path \in {<<>>, <<"slash">>, <<"?">>, <<"#", "x">>, <<"colon", "slash", "slash">>},
     rest \in {<<>>, <<"slash", "x">>, Placeholder}}
UrlInputs == [family : {"url"}, text : UrlTexts, value : SeqOf(T!Delimiters \cup {"x", "lb"}, 2)]

BodyInputs ==
  [family : {"body"}, body : SeqOf({"x", "bs", "lb", "rb"}, 6), raw : {T!Missing, T!Json(<<"bs", "lb", "lb", "x">>, T!NoMembers)}]

Variables == {<<"AVISO_TOKEN">>, <<"AVISO_SEQUENCE">>, <<"x">>}
SomeOf(value) == UNION {[names -> {value}] : names \in SUBSET Variables}
ChildInputs ==
  [family : {"child"}, template : {<<>>} \cup {<<"lb", "lb", "env", "dot">> \o name \o <<"rb", "rb">> : name \in Variables},
   process : SomeOf("process"), injected : SomeOf("injected"), cfg : SomeOf("operator")]
TailInputs == [family : {"tail"}, pieces : SeqOf(SeqOf({"a", "b"}, 2), 3), cap : 1 .. 4]

-----------------------------------------------------------------------------
(* One part at a time.                                                     *)

NoStream == wire = <<>> /\ Parser!Init
NoClient == /\ files = [f \in DOMAIN SmallVersions |-> Absent] /\ lookup = Unset
            /\ handle = Builder!NoHandle /\ report = Unset /\ built = Unset
            /\ origin = Builder!NoOrigin /\ writes = 0 /\ calls = 0
NoCalls ==
  /\ cred = 0 /\ generation = 0 /\ lock = Nobody /\ stage = [r \in Calls |-> "ended"]
  /\ sent = [r \in Calls |-> 0] /\ observed = sent /\ readAt = sent
  /\ outcome = [r \in Calls |-> "none"]

NoCredential == Credential!Init /\ members = <<>>

PartsInit ==
  \/ part = "refresh" /\ input = "none" /\ Init /\ NoCredential /\ NoStream /\ NoClient
  \/ part = "credential" /\ input = "none" /\ NoCalls /\ Credential!Init /\ NoStream /\ NoClient
  \/ part = "stream" /\ input = "none" /\ NoCalls /\ NoCredential /\ Parser!Init /\ NoClient
  \/ part = "builder" /\ input = "none" /\ NoCalls /\ NoCredential /\ NoStream /\ Builder!Init
  \/ /\ part = "input" /\ NoCalls /\ NoCredential /\ NoStream /\ NoClient
     /\ \/ input \in SettingsInputs \/ input \in RangeInputs \/ input \in ManyInputs \/ input \in ListenInputs
        \/ input \in TriggerInputs \/ input \in KeyInputs \/ input \in PairInputs
        \/ input \in CommandInputs \/ input \in CallInputs \/ input \in NotifyInputs
        \/ input \in ShellInputs \/ input \in UrlInputs \/ input \in BodyInputs \/ input \in TailInputs
        \/ input \in ChildInputs \/ input \in DiagnosticInputs

PartsNext ==
  \/ part = "refresh" /\ Next /\ UNCHANGED <<part, input, credentialVars, parserVars, builderVars>>
  \/ part = "credential" /\ Credential!Next /\ UNCHANGED <<part, input, vars, parserVars, builderVars>>
  \/ part = "stream" /\ Parser!Next /\ UNCHANGED <<part, input, vars, credentialVars, builderVars>>
  \/ part = "builder" /\ Builder!Next /\ UNCHANGED <<part, input, vars, credentialVars, parserVars>>

PartsSpec ==
  PartsInit /\ [][PartsNext]_<<part, input, vars, credentialVars, parserVars, builderVars>> /\ Fairness

-----------------------------------------------------------------------------
(* Every call of a client ends: no failed or dropped refresh leaves the    *)
(* others waiting for the lock (refresh_once).                             *)
EachCallEnds == part = "refresh" => EveryCallEnds

(* A credential that was rewritten and refreshed is the one the requests   *)
(* carry, unless another refresh had read the file before and swaps its    *)
(* text in afterwards (MCCredentialFile shows that case), and a rewrite    *)
(* that is no credential takes none away, whoever else refreshes meanwhile *)
(* (ConfigFile::refresh, Chain::refresh).                                  *)
RefreshIsSeen == part = "credential" => Credential!RefreshIsSeen

(* However the bytes are cut into chunks, the caller of the parser sees    *)
(* the frames and the overflow that the whole stream has, and the parser   *)
(* never holds more than it says (Parser::feed).                           *)
ChunkingInvisible == part = "stream" => Parser!ChunkingInvisible

(* A client is what its caller was told it is.  It is refused exactly when *)
(* the credential it would send was found for it, rather than named, and   *)
(* the address is plain http on a host that is not loopback, whatever the  *)
(* order of the calls that led there (AvisoClientBuilder::build); the      *)
(* reports of the constructor and of describe say so beforehand; and its   *)
(* address and its credential never come from two versions of one config   *)
(* file, though it is rewritten while it is read (resolve), unless its     *)
(* caller searched again in a file read by its place.                      *)
BuiltAsSaid ==
  part = "builder" =>
    /\ Builder!RefusedExactly /\ Builder!OneSnapshot
    /\ Builder!ReportAgrees /\ Builder!DescribeFollows

(* The interfaces agree.  The command line and the library make the same   *)
(* client of the same settings; a range is the same on the wire or refused *)
(* by all of them; listen and replay ask for the same events; listen_many  *)
(* watches what listen would; a trigger is the same in a listener file, in *)
(* C and in Python; and a call that blocks, one that does not and Python   *)
(* end alike.                                                              *)
InterfacesAgree ==
  part = "input" =>
    CASE input.family = "settings" -> Builder!CliAgrees(input.flags, input.env, input.file, input.credentials)
      [] input.family = "range"    -> Cli!RangesAgree("e", input.from, input.until, input.replay)
      [] input.family = "listen"   -> Cli!ReplayIsListen(input.configured, input.files, input.args, input.name, input.from)
      [] input.family = "many"     -> Cli!ManyIsOne(PyArguments(input), input.split, input.asynchronous)
      [] input.family = "trigger"  -> Cli!SameTrigger(input.kind, "main", SaidOf(input))
      [] input.family = "call"     -> Remote!SameOutcome(input.call, input.answer)
      [] OTHER -> TRUE

(* A caller is told what happened: the result of a notification stands at  *)
(* its place in the list, in whatever order the requests end               *)
(* (notify_many), and the exit code of a command tells whether the server  *)
(* was asked and agreed (exit_code_for_anyhow, dispatch).                  *)
ResultsTell ==
  part = "input" =>
    CASE input.family = "notify_many" ->
           Remote!EachAtItsPlace(input.list, input.concurrency, input.answers, input.order)
      [] input.family = "command" ->
           Cli!ExitCodeTells(input.command, input.resolved.settings, input.resolved.client, input.answers)
      [] OTHER -> TRUE

(* A value stays the value it is, whatever is in it: a shell reads it back *)
(* in the context the tracker has arrived at, which is the shell's own     *)
(* when no escape follows a token; it changes nothing of a URL around it,  *)
(* a body is sent as it is, a parameter in quotes is read as one, the end  *)
(* of an output is kept however it arrives, a child of a command finds no  *)
(* credential, a terminal obeys nothing the server said, and no two        *)
(* watches that differ share a resume key (Quote, PercentEncode,           *)
(* EscapedBraces, SplitParameters, Ringed, ChildEnvironment,               *)
(* SanitizeServerText, WriteField).                                        *)
ValuesStayValues ==
  part = "input" =>
    CASE input.family = "shell" -> /\ T!Follows(input.before, input.context, input.depth)
                                   /\ T!ReadBack(input.before, ShellValues)
      [] input.family = "url"   -> T!UrlKeepsItsShape(input.text, input.value)
      [] input.family = "body"  -> T!BodyIsSent(input.body, input.raw)
      [] input.family = "tail"  -> T!TailIsKept(input.pieces, input.cap)
      [] input.family = "child" -> T!ChildIsTold(input.template, input.process, input.injected, input.cfg)
      [] input.family = "diagnostic" -> Cli!ShownSafely(input.body, input.header)
      [] input.family = "pairs" -> Cli!ParametersReadBack(input.pairs)
      [] input.family = "key"   -> Cli!SameKeyIsSameWatch(input.a, input.b, FilterNames)
      [] OTHER -> TRUE
=============================================================================
