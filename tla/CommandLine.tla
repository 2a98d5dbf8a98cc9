----------------------------- MODULE CommandLine -----------------------------
(***************************************************************************)
(* The commands of aviso-cli: the parameters of notify                     *)
(* (commands/notify.rs, identifiers.rs), what each command checks before   *)
(* it asks the server (lib.rs, commands/admin.rs, schema.rs), the error it *)
(* ends with and what is told of it (exit.rs, error.rs, and the hints of   *)
(* every command).                                                         *)
(*                                                                         *)
(* A text is a sequence of characters: "sp", "dq" and "bs" are a space, a  *)
(* double quote and a backslash; others are themselves.  Left out: the     *)
(* wording of messages, tables, banners, colours, logs, the hints about a  *)
(* failed trigger, and listeners that panic.                               *)
(***************************************************************************)
EXTENDS Requests

CONSTANT JsonTexts    \* the texts that are valid JSON, of those that occur

-----------------------------------------------------------------------------
(* Parameters: key=value or key:=JSON, separated by commas.                *)

Trim(text) ==
  LET from == SelectInSeq(text, LAMBDA c : c # "sp")
      to   == SelectLastInSeq(text, LAMBDA c : c # "sp")
  IN IF from = 0 THEN <<>> ELSE SubSeq(text, from, to)

Word(text) == FoldLeft(LAMBDA word, c : word \o c, "", text)

(* push_kv: the value is what follows the equals sign, as it stands.       *)
PushKv(entries, slice) ==
  LET text  == Trim(slice)
      eq    == SelectInSeq(text, LAMBDA c : c = "=")
      typed == eq > 1 /\ text[eq - 1] = ":"
      key   == Trim(SubSeq(text, 1, IF typed THEN eq - 2 ELSE eq - 1))
  IN CASE text = <<>> -> Ok(entries)
       [] text # <<>> /\ (eq = 0 \/ key = <<>>) -> Err("usage")
       [] OTHER -> Ok(Append(entries, [key |-> Word(key), value |-> SubSeq(text, eq + 1, Len(text)),
                                       typed |-> typed]))

(* split_parameters: a comma within quotes or brackets separates nothing.  *)
SplitChar(text, s, i) ==
  LET c == text[i] IN
  CASE s.quoted /\ s.escaped  -> Ok([s EXCEPT !.escaped = FALSE])
    [] s.quoted /\ ~s.escaped -> Ok([s EXCEPT !.escaped = c = "bs", !.quoted = c # "dq"])
    [] ~s.quoted /\ c = "dq"  -> Ok([s EXCEPT !.quoted = TRUE])
    [] ~s.quoted /\ c \in {"{", "["} -> Ok([s EXCEPT !.depth = @ + 1])
    [] ~s.quoted /\ c \in {"}", "]"} ->
         IF s.depth = 0 THEN Err("usage") ELSE Ok([s EXCEPT !.depth = @ - 1])
    [] ~s.quoted /\ c = "," /\ s.depth = 0 ->
         Then(PushKv(s.entries, SubSeq(text, s.from, i - 1)), LAMBDA entries :
           Ok([s EXCEPT !.entries = entries, !.from = i + 1]))
    [] OTHER -> Ok(s)

SplitParameters(text) ==
  LET start == [quoted |-> FALSE, escaped |-> FALSE, depth |-> 0, from |-> 1, entries |-> <<>>]
      read  == FoldLeft(LAMBDA r, i : Then(r, LAMBDA s : SplitChar(text, s, i)),
                        Ok(start), [i \in DOMAIN text |-> i])
  IN Then(read, LAMBDA s : IF s.quoted \/ s.depth > 0 THEN Err("usage")
                           ELSE PushKv(s.entries, SubSeq(text, s.from, Len(text))))

(* A JSON string is the same value however it is written.                  *)
Inner(text)     == SubSeq(text, 2, Len(text) - 1)
IsQuoted(text)  == Len(text) >= 2 /\ Head(text) = "dq" /\ Last(text) = "dq"
StringOf(text)  == [kind |-> "string", text |-> text]
JsonOf(text)    == IF text \notin JsonTexts THEN Err("usage")
                   ELSE Ok(IF IsQuoted(text) THEN StringOf(Inner(text))
                           ELSE [kind |-> "json", text |-> text])

(* strip_outer_quotes.                                                     *)
StripOuterQuotes(text) == IF IsQuoted(text) THEN Inner(text) ELSE text

(* parse_identifier_value.                                                 *)
ParseIdentifierValue(value, typed) ==
  LET text == Trim(value)
  IN IF typed \/ (text # <<>> /\ Head(text) \in {"{", "["}) THEN JsonOf(text)
     ELSE Ok(StringOf(StripOuterQuotes(value)))

(* build_request_parts.                                                    *)
AddEntry(parts, entry) ==
  LET reserved(option) == entry.typed \/ IsGiven(option) \/ entry.value = <<>> IN
  CASE entry.key = "event" ->
         IF reserved(parts.event) THEN Err("usage")
         ELSE Ok([parts EXCEPT !.event = Given(entry.value)])
    [] entry.key = "data" ->
         IF reserved(parts.data) THEN Err("usage")
         ELSE Then(JsonOf(entry.value), LAMBDA json : Ok([parts EXCEPT !.data = Given(json)]))
    [] entry.key \notin {"event", "data"} /\ entry.key \in DOMAIN parts.identifier -> Err("usage")
    [] OTHER -> Then(ParseIdentifierValue(entry.value, entry.typed), LAMBDA value :
                  Ok([parts EXCEPT !.identifier = (entry.key :> value) @@ @]))

BuildRequestParts(entries) ==
  LET none == [event |-> Unset, data |-> Unset, identifier |-> NoFilter]
  IN Then(FoldLeft(LAMBDA r, entry : Then(r, LAMBDA parts : AddEntry(parts, entry)), Ok(none), entries),
          LAMBDA parts : IF IsGiven(parts.event) THEN Ok(parts) ELSE Err("usage"))

(* An argument of --identifier: nothing in it is interpreted.              *)
RepeatedEntry(text) ==
  LET eq    == SelectInSeq(text, LAMBDA c : c = "=")
      typed == eq > 1 /\ text[eq - 1] = ":"
      key   == Trim(SubSeq(text, 1, IF typed THEN eq - 2 ELSE eq - 1))
      value == SubSeq(text, eq + 1, Len(text))
      json  == JsonOf(Trim(value))
  IN [form  |-> CASE eq = 0 -> "no equals"
                  [] eq # 0 /\ key = <<>> -> "no key"
                  [] eq # 0 /\ key # <<>> /\ typed /\ ~json.ok -> "not json"
                  [] OTHER -> "value",
      key   |-> Word(key),
      value |-> IF typed /\ json.ok THEN json.value ELSE StringOf(value)]

(* notify::run, as far as its request.                                     *)
NotifyRequest(parameters, repeated) ==
  Then(SplitParameters(parameters), LAMBDA entries : Then(BuildRequestParts(entries), LAMBDA parts :
    Then(AppendIdentifiers(parts.identifier, [i \in DOMAIN repeated |-> RepeatedEntry(repeated[i])], TRUE),
         LAMBDA identifier : Ok([parts EXCEPT !.identifier = identifier]))))

-----------------------------------------------------------------------------
(* Arguments clap refuses before anything of the program runs.             *)

ClapRefuses(flags, inline) ==
  \/ IsGiven(flags.token) /\ (IsGiven(flags.username) \/ IsGiven(flags.password))
  \/ IsGiven(flags.username) # IsGiven(flags.password)
  \/ IsGiven(inline.json) /\ inline.entries # <<>>
  \/ IsGiven(inline.event) # (IsGiven(inline.json) \/ inline.entries # <<>>)

-----------------------------------------------------------------------------
(* Commands.  An error is a chain of what was said about it, outermost     *)
(* first; UsageErrorTag marks what the caller got wrong.                   *)

UsageError  == <<"message", "tag">>
ClientError == <<"ClientError">>
AsChain(error) == IF error = "usage" THEN UsageError ELSE ClientError
ListenersFailed == <<"ListenersFailed">>

(* exit_code_for_anyhow.                                                   *)
ExitCode(chain) == IF "tag" \in Range(chain) THEN 2 ELSE 1

(* format_chain: what is suggested stands before what went wrong.          *)
Told(t, entry) ==
  CASE entry = "tag"        -> t
    [] entry = "suggestion" -> [t EXCEPT !.notes = Append(@, entry)]
    [] entry \notin {"tag", "suggestion"} -> [t EXCEPT !.causes = Append(@, entry)]

FormatChain(chain) ==
  LET t == FoldLeft(Told, [notes |-> <<>>, causes |-> <<>>], chain)
  IN [summary  |-> IF t.causes = <<>> THEN "operation failed" ELSE Head(t.causes),
      notes    |-> t.notes,
      causedBy |-> IF t.causes = <<>> THEN <<>> ELSE Tail(t.causes)]

(* What a server's answer is searched for, in this order: polygon_         *)
(* violation_hint and constraint_violation_hint after the command's own.   *)
Constraints == <<"too long", "not allowed", "outside range", "not a date", "not a time">>
NotifyPhrases == <<"unknown event type", "not a polygon", "missing for notify">> \o Constraints
ListenPhrases == <<"unknown event type", "missing for watch", "not a polygon">> \o Constraints
ReplayPhrases == <<"unknown event type", "missing for watch", "missing for replay",
                   "not a polygon">> \o Constraints
HintPhrases(command) ==
  CASE command = "notify" -> NotifyPhrases
    [] command = "listen" -> ListenPhrases
    [] command = "replay" -> ReplayPhrases
    [] command \notin {"notify", "listen", "replay"} -> <<>>

AdminPhrases == {<<400, "not an id">>, <<404, "not found">>, <<500, "failed to delete">>}
SchemaPhrases == {<<404, "available types">>}

(* hint_for_client_error and its namesakes: what is suggested, if anything.*)
Hint(command, error) ==
  LET phrases == HintPhrases(command)
      i       == SelectInSeq(phrases, LAMBDA phrase : phrase \in error.phrases)
      with(pairs) == {phrase \in error.phrases : <<error.status, phrase>> \in pairs}
      special == CASE command = "admin" -> with(AdminPhrases)
                   [] command = "schema" -> with(SchemaPhrases)
                   [] OTHER -> {}
  IN CASE error.kind # "Http"                        -> Unset
       [] error.kind = "Http" /\ i # 0               -> Given(phrases[i])
       [] error.kind = "Http" /\ special # {}        -> Given(CHOOSE phrase \in special : TRUE)
       [] OTHER -> IF error.status \in {401, 403} THEN Given("credentials") ELSE Unset

(* The chain of a request that failed.                                     *)
Failed(command, error) ==
  (IF IsGiven(Hint(command, error)) THEN <<"suggestion">> ELSE <<>>)
    \o <<"operation">> \o ClientError

Asks    == {"notify", "listen", "replay", "schema", "admin"}
(* Mutation: nobody asks for --yes.                                        *)
Unconfirmed(command) == TRUE
Confirmed(command) == command.name = "admin" => command.yes

(* What listen tells of a listener that failed, as it joins it.            *)
ListenerReport(error) ==
  ClientError \o (IF IsGiven(Hint("listen", error)) THEN <<"hint">> ELSE <<>>)

(* drive: the request of a listener is built when those before it have     *)
(* been spawned, and may have reached the server.  One with both cursors   *)
(* ends the command there, before any is joined; else all are joined, and  *)
(* the error says no more than that some of them failed.                   *)
Drive(listeners, answers) ==
  LET malformed == SelectInSeq(listeners, LAMBDA cursors : cursors = "both")
      failed    == {i \in DOMAIN listeners : ~answers[i].ok}
  IN IF malformed # 0
     THEN [chain |-> UsageError, asked |-> 1 .. malformed - 1, reports |-> <<>>]
     ELSE [chain |-> IF failed = {} THEN <<>> ELSE ListenersFailed,
           asked |-> DOMAIN listeners,
           reports |-> [i \in failed |-> ListenerReport(answers[i].error)]]

(* dispatch: `settings` and `client` are what config::resolve and          *)
(* client_builder::build return, `input` what the command makes of its own *)
(* arguments, and `answers` the server's, one to each request: `asked` are *)
(* the requests that may have been made.  The chain is empty for success.  *)
Dispatch(command, settings, client, answers) ==
  LET stopped(error) == [chain |-> AsChain(error), asked |-> {}, reports |-> <<>>]
      done           == [chain |-> <<>>, asked |-> {}, reports |-> <<>>]
  IN CASE command.name = "completions" -> done
       [] command.name # "completions" /\ ~settings.ok -> stopped(settings.error)
       [] OTHER ->
     CASE ~Confirmed(command) -> stopped("usage")
       [] Confirmed(command) /\ ~command.input.ok -> stopped(command.input.error)
       [] OTHER ->
     CASE command.name = "config_dump" -> done
       [] command.name # "config_dump" /\ ~client.ok -> stopped(client.error)
       [] OTHER ->
     IF command.name = "listen" THEN Drive(command.listeners, answers)
     ELSE [chain |-> IF answers[1].ok THEN <<>> ELSE Failed(command.name, answers[1].error),
           asked |-> {1}, reports |-> <<>>]

(* run.                                                                    *)
RunCommand(command, settings, client, answers) ==
  IF command.refused THEN [code |-> 2, asked |-> {}, reports |-> <<>>, told |-> FormatChain(<<>>)]
  ELSE LET r == Dispatch(command, settings, client, answers)
       IN [code |-> IF r.chain = <<>> THEN 0 ELSE ExitCode(r.chain), asked |-> r.asked,
           reports |-> r.reports, told |-> FormatChain(r.chain)]

-----------------------------------------------------------------------------
(* diagnostics.rs: what is shown of a refusal of the watch endpoint.       *)

KnownCodes == {"INVALID_JSON", "UNKNOWN_FIELD", "INVALID_REQUEST_SHAPE", "INVALID_WATCH_REQUEST",
               "UNKNOWN_EVENT_TYPE", "SSE_STREAM_INITIALIZATION_FAILED", "INTERNAL_ERROR"}

(* sanitize_server_text: a word that holds an address is left out, control *)
(* characters are escaped.                                                 *)
SanitizeServerText(words) ==
  [i \in DOMAIN words |-> CASE words[i] = "url"     -> "[URL omitted]"
                            [] words[i] = "control" -> "escaped"
                            [] words[i] \notin {"url", "control"} -> words[i]]

RecognizedFields(body, header) ==
  LET shown(option) == IF IsGiven(option) THEN Given(SanitizeServerText(option[1])) ELSE Unset
  IN IF body.code \notin KnownCodes \/ (~IsGiven(body.message) /\ ~IsGiven(body.details)) THEN Unset
     ELSE Given([code |-> body.code, message |-> shown(body.message), details |-> shown(body.details),
                 requestId |-> shown(OrElse(body.requestId, header)),
                 types |-> IF body.code = "UNKNOWN_EVENT_TYPE" THEN shown(body.types) ELSE Unset])

-----------------------------------------------------------------------------
ReadAlike(inline, repeated, pairs) ==
  LET distinct == IsInjective([i \in DOMAIN pairs |-> pairs[i].name])
  IN /\ inline.ok <=> distinct
     /\ repeated.ok <=> distinct
     /\ distinct => /\ inline = repeated
                    /\ \A i \in DOMAIN pairs :
                         inline.value.identifier[pairs[i].name] = StringOf(pairs[i].value)

(* A quoted value with no quote and no backslash in it is read back as it  *)
(* was written, commas, brackets and equals signs included, and is the     *)
(* same value as in an argument of --identifier; a name is taken once.     *)
ParametersReadBack(pairs) ==
  LET event  == <<"event", "=", "x">>
      quoted == FlattenSeq([i \in DOMAIN pairs |->
                  <<",", pairs[i].name, "=", "dq">> \o pairs[i].value \o <<"dq">>])
  IN ReadAlike(NotifyRequest(event \o quoted, <<>>),
               NotifyRequest(event, [i \in DOMAIN pairs |-> <<pairs[i].name, "=">> \o pairs[i].value]),
               pairs)

(* The exit code says what happened: with 2 the server was not asked, but  *)
(* for the listeners that stand before one with both cursors; with 0       *)
(* whoever had to be asked agreed, and nothing is deleted without --yes.   *)
(* A hint never stands where what failed is told, and listen tells of      *)
(* every listener that failed, by itself.                                  *)
ExitCodeTells(command, settings, client, answers) ==
  LET r        == RunCommand(command, settings, client, answers)
      listens  == command.name = "listen"
      requests == IF listens THEN DOMAIN command.listeners ELSE {1}
  IN /\ r.code = 2 => \A i \in r.asked : /\ listens /\ command.listeners[i] # "both"
                                        /\ \E j \in requests : i < j /\ command.listeners[j] = "both"
     /\ r.code = 0 /\ command.name \in Asks => r.asked = requests /\ \A i \in requests : answers[i].ok
     /\ r.asked # {} /\ command.name = "admin" => command.yes
     /\ r.code = 1 /\ r.asked # {} =>
          /\ r.asked = requests
          /\ listens => /\ r.told.summary = "ListenersFailed" /\ r.told.causedBy = <<>>
                        /\ DOMAIN r.reports = {i \in requests : ~answers[i].ok}
                        /\ \A i \in DOMAIN r.reports : Head(r.reports[i]) = Head(ClientError)
          /\ ~listens => r.told.summary = "operation" /\ r.told.causedBy = ClientError

(* What a server says of a refusal is shown without its addresses and with *)
(* nothing a terminal would obey.                                          *)
ShownSafely(body, header) ==
  LET fields == RecognizedFields(body, header)
  IN IsGiven(fields) =>
       \A field \in {"message", "details", "requestId", "types"} :
         IsGiven(fields[1][field]) => Range(fields[1][field][1]) \cap {"url", "control"} = {}
=============================================================================
