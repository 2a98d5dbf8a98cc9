------------------------------- MODULE Requests -------------------------------
(***************************************************************************)
(* A watch request: the library's (watch/request.rs), how it goes on the   *)
(* wire (watch/wire.rs), the key its position is stored under              *)
(* (state/resume_key.rs), and how it is asked for through the C interface  *)
(* (aviso-ffi watch/request.rs), in Python (aviso-py requests.rs,          *)
(* watch.rs, many.rs) and on the command line (aviso-cli listener.rs,      *)
(* from_value.rs, identifiers.rs, listener_file.rs, listen.rs, replay.rs). *)
(*                                                                         *)
(* A text that names a position has a form, a number and, for a time, its  *)
(* fraction in nanoseconds.  Sequences are unsigned numbers up to          *)
(* MaxSequence.  A filter maps names to values.                            *)
(***************************************************************************)
EXTENDS TriggerSettings

CONSTANT MaxSequence    \* u64::MAX

AfterSequence(n) == [kind |-> "sequence", at |-> n]
Date(text)       == [kind |-> "date", at |-> text]
IsSequence(option) == IsGiven(option) /\ option[1].kind = "sequence"

NoFilter == [name \in {} |-> ""]

-----------------------------------------------------------------------------
(* WatchRequest.                                                           *)

Watch(event) ==
  [event |-> event, filter |-> NoFilter, from |-> Unset, until |-> Unset, mode |-> "watch",
   triggers |-> <<>>]
WatchFrom(event, start)  == [Watch(event) EXCEPT !.from = Given(start)]
ReplayOnly(event, start) == [WatchFrom(event, start) EXCEPT !.mode = "replay_only"]
ReplayRange(event, start, end) == [ReplayOnly(event, start) EXCEPT !.until = Given(end)]

WithFilter(request, filter)     == [request EXCEPT !.filter = filter]
WithTriggers(request, triggers) == [request EXCEPT !.triggers = triggers]

(* WireWatchRequest::from_parts: the server counts from the one after the  *)
(* last seen, and to the end itself.                                       *)
FromParts(request) ==
  LET from == request.from
      until == request.until
      at(option, kind) == IF IsGiven(option) /\ option[1].kind = kind THEN Given(option[1].at) ELSE Unset
  IN IF IsSequence(from) /\ from[1].at = MaxSequence THEN Err("config")
     ELSE Ok([event |-> request.event, identifier |-> request.filter,
              fromId |-> IF IsSequence(from) THEN Given(from[1].at + 1) ELSE Unset,
              fromDate |-> at(from, "date"), toId |-> at(until, "sequence"), toDate |-> at(until, "date")])

EndsBeforeStart(from, until) == IsSequence(from) /\ IsSequence(until) /\ until[1].at <= from[1].at

(* WireWatchRequest::from_public.                                          *)
FromPublic(request) ==
  IF EndsBeforeStart(request.from, request.until) THEN Err("config") ELSE FromParts(request)

-----------------------------------------------------------------------------
(* ResumeKey: what is hashed, as the sequence of its pieces.  Characters   *)
(* are strings, and so is a length.                                        *)

DefaultPort == [http |-> "80", https |-> "443"]

(* normalize_base_url: the default port, the query and the user are left   *)
(* out, and an empty path is "/".                                          *)
NormalizeBaseUrl(url) ==
  LET port == IF url.port \in {"none", DefaultPort[url.scheme]} THEN <<>> ELSE <<"colon", url.port>>
      path == IF url.path = <<>> THEN <<"slash">> ELSE url.path
  IN <<url.scheme, "separator", url.host>> \o port \o path

(* The canonical form of a filter: its entries by name.                    *)
CanonicalFilter(filter, names) ==
  FlattenSeq([i \in DOMAIN names |->
    IF names[i] \in DOMAIN filter THEN <<names[i], "colon", filter[names[i]], "comma">> ELSE <<>>])

(* Mutation: a piece goes without its length.                              *)
BareField(text)  == text
WriteField(text) == <<ToString(Len(text))>> \o text
WriteOptionalField(text) == IF IsGiven(text) THEN <<"some">> \o WriteField(text[1]) ELSE <<"none">>

(* ResumeKey::new; the hash itself is taken to tell any two inputs apart.  *)
ResumeKey(watched, names) ==
  <<"version">> \o WriteField(NormalizeBaseUrl(watched.url)) \o WriteField(watched.event)
    \o WriteField(CanonicalFilter(watched.filter, names)) \o WriteOptionalField(watched.fingerprint)

-----------------------------------------------------------------------------
(* The C interface: a handle, and the calls that fill it.                  *)

NewRequest(event) ==
  IF BadText(event) THEN [spec |-> Unset, error |-> Given("invalid input")]
  ELSE [spec |-> Given([event |-> event, filter |-> Unset, start |-> Unset, replay |-> FALSE,
                        until |-> Unset, triggers |-> <<>>]),
        error |-> Unset]

(* with_spec: nothing is taken after an error.                             *)
WithSpec(request, setting, value) ==
  IF IsGiven(request.error) THEN request ELSE [request EXCEPT !.spec[1][setting] = value]
Remember(request, error) ==
  IF IsGiven(request.error) THEN request ELSE [request EXCEPT !.error = Given(error)]

(* aviso_watch_request_set_filter_json, with parse_filter: a null pointer  *)
(* takes the filter away.                                                  *)
SetFilterJson(request, json) ==
  CASE json.text = "null"   -> WithSpec(request, "filter", Unset)
    [] json.text = "object" -> WithSpec(request, "filter", Given(json.object))
    [] json.text \in {"not unicode", "not json", "not an object"} -> Remember(request, "invalid input")

(* ..._watch_from_sequence, ..._replay_from_date and the two others.       *)
SetStart(request, start, replay) ==
  IF start.kind = "date" /\ BadText(start.at) THEN Remember(request, "invalid input")
  ELSE WithSpec(WithSpec(request, "start", Given(start)), "replay", replay)

(* ..._replay_until_sequence, ..._replay_until_date.                       *)
SetUntil(request, until) ==
  IF until.kind = "date" /\ BadText(until.at) THEN Remember(request, "invalid input")
  ELSE WithSpec(request, "until", Given(until))

(* ..._add_trigger: the trigger is taken from its owner in any case, and   *)
(* its error with it.  One whose slot is empty is not there.               *)
AddTrigger(request, handle) ==
  CASE IsGiven(handle.error) -> Remember(request, handle.error[1])
    [] ~IsGiven(handle.error) /\ IsGiven(handle.trigger) /\ IsGiven(request.spec) ->
         WithSpec(request, "triggers", Append(request.spec[1].triggers, handle.trigger[1]))
    [] OTHER -> request

CallMade(request, call) ==
  CASE call.name = "filter"  -> SetFilterJson(request, call.value)
    [] call.name = "watch"   -> SetStart(request, call.value, FALSE)
    [] call.name = "replay"  -> SetStart(request, call.value, TRUE)
    [] call.name = "until"   -> SetUntil(request, call.value)
    [] call.name = "trigger" -> AddTrigger(request, call.value)

(* RequestSpec::into_request: only a replay has an end.                    *)
IntoRequest(spec) ==
  LET request ==
        CASE spec.replay /\ IsGiven(spec.until)  -> ReplayRange(spec.event, spec.start[1], spec.until[1])
          [] spec.replay /\ ~IsGiven(spec.until) -> ReplayOnly(spec.event, spec.start[1])
          [] ~spec.replay /\ IsGiven(spec.start) -> WatchFrom(spec.event, spec.start[1])
          [] OTHER                               -> Watch(spec.event)
      filtered == IF IsGiven(spec.filter) THEN WithFilter(request, spec.filter[1]) ELSE request
  IN IF IsGiven(spec.until) /\ ~spec.replay THEN Err("invalid input")
     ELSE Ok(WithTriggers(filtered, spec.triggers))

CRequest(event, calls) ==
  LET request == FoldLeft(CallMade, NewRequest(event), calls)
  IN IF IsGiven(request.error) THEN Err(request.error[1]) ELSE IntoRequest(request.spec[1])

-----------------------------------------------------------------------------
(* The Python interface.  A value has its Python type.                     *)

PyPosition(value) ==
  CASE value.type \in {"bool", "other"} -> Err("type")
    [] value.type = "int" -> IF value.int < 0 \/ value.int > MaxSequence THEN Err("value")
                             ELSE Ok(AfterSequence(value.int))
    [] value.type = "str" -> Ok(Date(value.str))

(* validate_identifier: `nesting` is how deep a value goes.                *)
MaxIdentifierNesting == 100
ValidateIdentifier(filter) ==
  LET values == Range(filter) IN
  CASE \E v \in values : v.nesting > MaxIdentifierNesting -> Err("value")
    [] \E v \in values : v.cyclic \/ v.leaf = "nan"       -> Err("type")
    [] OTHER -> Ok([name \in DOMAIN filter |-> filter[name].leaf])

(* extract_triggers: a sequence of triggers, and nothing else.             *)
ExtractTriggers(value) ==
  IF value.type = "sequence" /\ \A i \in DOMAIN value.items : value.items[i].kind # "not a trigger"
  THEN Ok(SplitTriggers(value.items)) ELSE Err("aviso")

PyNone == [event |-> Unset, filter |-> Unset, start |-> Unset, until |-> Unset, mode |-> Unset,
           triggers |-> Unset, request |-> Unset]

(* The request itself, with neither filter nor triggers.                   *)
EffectiveMode(args) ==
  CASE IsGiven(args.mode) -> args.mode[1]
    [] ~IsGiven(args.mode) /\ IsGiven(args.until)  -> "replay_only"
    [] ~IsGiven(args.mode) /\ ~IsGiven(args.until) -> "watch"

PyBase(args) ==
  LET mode  == EffectiveMode(args)
      event == args.event[1]
  IN CASE mode = "watch" /\ IsGiven(args.until) -> Err("aviso")
       [] mode = "watch" /\ ~IsGiven(args.until) ->
            IF IsGiven(args.start)
            THEN Then(PyPosition(args.start[1]), LAMBDA start : Ok(WatchFrom(event, start)))
            ELSE Ok(Watch(event))
       [] mode = "replay_only" /\ IsGiven(args.start) ->
            Then(PyPosition(args.start[1]), LAMBDA start :
              IF ~IsGiven(args.until) THEN Ok(ReplayOnly(event, start))
              ELSE Then(PyPosition(args.until[1]), LAMBDA until : Ok(ReplayRange(event, start, until))))
       [] mode = "replay_only" /\ ~IsGiven(args.start) -> Err("aviso")
       [] mode \notin {"watch", "replay_only"} -> Err("aviso")

(* build_watch_request: the request, and the functions Python runs.        *)
PyRequest(args) ==
  LET filter   == IF IsGiven(args.filter) THEN ValidateIdentifier(args.filter[1]) ELSE Ok(NoFilter)
      triggers == IF IsGiven(args.triggers) THEN ExtractTriggers(args.triggers[1])
                  ELSE Ok(SplitTriggers(<<>>))
  IN CASE IsGiven(args.request) ->
            IF [args EXCEPT !.request = Unset] = PyNone THEN Ok(args.request[1]) ELSE Err("aviso")
       [] ~IsGiven(args.request) /\ ~IsGiven(args.event) -> Err("aviso")
       [] ~IsGiven(args.request) /\ IsGiven(args.event) ->
            Then(PyBase(args), LAMBDA base : Then(filter, LAMBDA f : Then(triggers, LAMBDA t :
              Ok([request |-> WithTriggers(WithFilter(base, f), t.native), functions |-> t.functions]))))

(* AvisoClient.listen and AsyncAvisoClient.listen, up to the watch.        *)
PyListen(args, asynchronous) ==
  Then(PyRequest(args), LAMBDA spec :
    IF asynchronous THEN Ok(spec)
    ELSE Then(RefuseAsyncFunctions(spec.functions), LAMBDA checked : Ok(spec)))

(* many.rs entry_spec: an entry's own arguments go before the shared ones. *)
EntryKeys == {"event", "filter", "start", "until", "mode", "triggers"}
EntrySpec(entry, shared) ==
  CASE entry.type = "request" -> Ok(entry.spec)
    [] entry.type = "other"   -> Err("type")
    [] entry.type = "dict" /\ entry.keys \ EntryKeys # {} -> Err("value")
    [] entry.type = "dict" /\ entry.keys \ EntryKeys = {} /\ ~IsGiven(entry.args.event) -> Err("value")
    [] OTHER -> PyRequest([entry.args EXCEPT !.start = OrElse(@, shared.start),
                                             !.until = OrElse(@, shared.until),
                                             !.mode = OrElse(@, shared.mode)])

ParseOnError(value) ==
  CASE ~IsGiven(value) -> Ok("raise")
    [] IsGiven(value) /\ value[1].type = "str" ->
         IF value[1].str \in {"raise", "continue"} THEN Ok(value[1].str) ELSE Err("value")
    [] IsGiven(value) /\ value[1].type = "callable" -> Ok("function")
    [] IsGiven(value) /\ value[1].type \notin {"str", "callable"} -> Err("type")

(* listen_many, as far as the requests of its listeners: all of them are   *)
(* checked before the first is watched.                                    *)
ListenMany(listeners, shared, onError, asynchronous) ==
  LET entry(l) == Then(EntrySpec(l.entry, shared), LAMBDA spec :
                    Then(FromPublic(spec.request), LAMBDA wire :
                      Then(IF asynchronous THEN Ok(spec) ELSE RefuseAsyncFunctions(spec.functions),
                           LAMBDA checked : Ok([name |-> l.name, spec |-> spec]))))
      specs    == [i \in DOMAIN listeners |->
                    IF listeners[i].name = "" THEN Err("value") ELSE entry(listeners[i])]
      modes    == IF shared.mode \in {Unset, Given("watch"), Given("replay_only")} THEN Ok("") ELSE Err("value")
      place(option) == IF IsGiven(option) THEN PyPosition(option[1]) ELSE Ok("")
  IN Then(ParseOnError(onError), LAMBDA parsed :
       IF listeners = <<>> THEN Err("value")
       ELSE Then(modes, LAMBDA m : Then(place(shared.start), LAMBDA s :
              Then(place(shared.until), LAMBDA u : Collected(specs)))))

-----------------------------------------------------------------------------
(* The command line.                                                       *)

TimeForms == {"minutes", "seconds", "T", "TZ", "fraction"}

(* What is left of a time is what its form can say, to the microsecond.    *)
Stamped(day, second, nanos) == ToString(<<day, second, nanos \div 1000>>)

(* from_value::parse_position.                                             *)
ParsePosition(text) ==
  CASE text.form = "digits" -> IF text.number <= MaxSequence THEN Ok(AfterSequence(text.number))
                               ELSE Err("usage")
    [] text.form = "day"     -> Ok(Date(Stamped(text.number, 0, 0)))
    [] text.form \in TimeForms ->
         Ok(Date(Stamped(text.number, text.second, IF text.form = "fraction" THEN text.nanos ELSE 0)))
    [] text.form \notin {"digits", "day"} \cup TimeForms -> Err("usage")

(* identifiers::append: key=value, or key:=JSON.  A name is taken once.    *)
AddIdentifier(entry, taken, notify) ==
  IF \/ entry.form \in {"no equals", "no key", "not json"}
     \/ notify /\ entry.key \in {"event", "data"}
     \/ entry.key \in DOMAIN taken
  THEN Err("usage") ELSE Ok((entry.key :> entry.value) @@ taken)

AppendIdentifiers(identifiers, entries, notify) ==
  FoldLeft(LAMBDA r, entry : Then(r, LAMBDA taken : AddIdentifier(entry, taken, notify)),
           Ok(identifiers), entries)

(* build_inline_listener_spec, inline_listener_spec, InlineListenerArgs.   *)
InlineSpec(event, identifiers) ==
  [name |-> Given("ad-hoc"), event |-> event, identifiers |-> identifiers,
   fromId |-> Unset, fromDate |-> Unset, triggers |-> <<Made("echo", "")>>]

InlineListener(args) ==
  CASE ~IsGiven(args.event) -> Ok(Unset)
    [] IsGiven(args.event) /\ IsGiven(args.json) ->
         IF args.json[1].text = "object" THEN Ok(Given(InlineSpec(args.event[1], args.json[1].object)))
         ELSE Err("usage")
    [] IsGiven(args.event) /\ ~IsGiven(args.json) ->
         Then(AppendIdentifiers(NoFilter, args.entries, FALSE), LAMBDA identifiers :
           Ok(Given(InlineSpec(args.event[1], identifiers))))

(* triggers_for_listener: every echo tells which listener it is of.        *)
TriggersFor(spec) ==
  [i \in DOMAIN spec.triggers |->
    IF IsGiven(spec.name) THEN Set(spec.triggers[i], "label", spec.name[1]) ELSE spec.triggers[i]]

(* listener::build_watch_request.                                          *)
CliWatch(spec) ==
  LET request == CASE IsGiven(spec.fromId)   -> WatchFrom(spec.event, AfterSequence(spec.fromId[1]))
                   [] IsGiven(spec.fromDate) /\ ~IsGiven(spec.fromId) ->
                        WatchFrom(spec.event, Date(spec.fromDate[1]))
                   [] OTHER -> Watch(spec.event)
  IN IF IsGiven(spec.fromId) /\ IsGiven(spec.fromDate) THEN Err("usage")
     ELSE Ok(WithTriggers(WithFilter(request, spec.identifiers), TriggersFor(spec)))

(* listener_file::load_concatenated: the listeners of all files, in order. *)
LoadConcatenated(files) ==
  Then(Collected(files), LAMBDA lists : Ok(FlattenSeq(lists)))

ResolveListeners(configured, files) ==
  IF files = <<>> THEN Ok(configured) ELSE LoadConcatenated(files)

(* listen.rs apply_cursor_override: --from is the start of every listener. *)
WithCursor(spec, cursor) ==
  [spec EXCEPT !.fromId = IF cursor.kind = "sequence" THEN Given(cursor.at) ELSE Unset,
               !.fromDate = IF cursor.kind = "date" THEN Given(cursor.at) ELSE Unset]

(* listen::run, as far as what is listened to.                             *)
CliListeners(configured, files, inline, from) ==
  LET specs == IF IsGiven(inline) THEN Ok(inline) ELSE ResolveListeners(configured, files)
  IN Then(specs, LAMBDA list :
       IF list = <<>> THEN Err("usage")
       ELSE IF ~IsGiven(from) THEN Ok(list)
       ELSE Then(ParsePosition(from[1]), LAMBDA cursor :
              Ok([i \in DOMAIN list |-> WithCursor(list[i], cursor)])))

(* replay.rs resolve_listener: the first of the name, or the only one.     *)
ReplayListener(configured, files, inline, name) ==
  LET pick(list) ==
        LET named == SelectInSeq(list, LAMBDA spec : spec.name = name) IN
        CASE IsGiven(name)  -> IF named = 0 THEN Err("usage") ELSE Ok(list[named])
          [] ~IsGiven(name) -> IF Len(list) = 1 THEN Ok(list[1]) ELSE Err("usage")
  IN IF IsGiven(inline) THEN Ok(inline[1]) ELSE Then(ResolveListeners(configured, files), pick)

(* collect_triggers: a replay with no trigger shows what it replays.       *)
ReplayTriggers(spec) ==
  IF spec.triggers = <<>> THEN TriggersFor([spec EXCEPT !.triggers = <<Made("echo", "")>>])
  ELSE TriggersFor(spec)

(* listener::build_replay_request.                                         *)
CliReplayRequest(spec, cursor, until) ==
  LET request == IF IsGiven(until) THEN ReplayRange(spec.event, cursor, until[1])
                 ELSE ReplayOnly(spec.event, cursor)
  IN WithTriggers(WithFilter(request, spec.identifiers), ReplayTriggers(spec))

(* replay::run, as far as its request.                                     *)
CliReplay(spec, from, until) ==
  Then(ParsePosition(from), LAMBDA cursor :
    Then(IF IsGiven(until) THEN Then(ParsePosition(until[1]), LAMBDA end : Ok(Given(end))) ELSE Ok(Unset),
         LAMBDA end : IF EndsBeforeStart(Given(cursor), end) THEN Err("usage")
                      ELSE Then(spec, LAMBDA s : Ok(CliReplayRequest(s, cursor, end)))))

-----------------------------------------------------------------------------
(* What is asked for with the same positions goes on the wire the same, or *)
(* is refused, whichever interface asks and in whatever order its calls    *)
(* are made: an end before the start, an end of a live watch, no start.    *)
RangesAgree(event, from, until, replay) ==
  LET place(option) == IF IsGiven(option) THEN Given(ParsePosition(option[1]).value) ELSE Unset
      start == place(from)
      end   == place(until)
      call(name, option) == IF IsGiven(option) THEN <<[name |-> name, value |-> option[1]]>> ELSE <<>>
      starts == call(IF replay THEN "replay" ELSE "watch", start)
      ends   == call("until", end)
      c(calls) == Then(CRequest(event, calls), FromPublic)
      said(option) == CASE ~IsGiven(option) -> Unset
                        [] IsSequence(option) -> Given([type |-> "int", int |-> option[1].at])
                        [] OTHER -> Given([type |-> "str", str |-> option[1].at])
      python(mode) == Then(PyRequest([PyNone EXCEPT !.event = Given(event), !.start = said(start),
                                                    !.until = said(end), !.mode = mode]),
                           LAMBDA spec : FromPublic(spec.request))
      listener == [name |-> Unset, event |-> event, identifiers |-> NoFilter, triggers |-> <<>>,
                   fromId |-> Unset, fromDate |-> Unset]
      modes == {Given(IF replay THEN "replay_only" ELSE "watch")}
                 \cup (IF IsGiven(until) = replay THEN {Unset} ELSE {})
      library == CASE replay /\ IsGiven(start) ->
                        {FromPublic(IF IsGiven(end) THEN ReplayRange(event, start[1], end[1])
                                    ELSE ReplayOnly(event, start[1])),
                         Then(CliReplay(Ok(listener), from[1], until), FromPublic)}
                   [] ~replay /\ ~IsGiven(end) ->
                        {FromPublic(IF IsGiven(start) THEN WatchFrom(event, start[1]) ELSE Watch(event)),
                         Then(CliWatch(IF IsGiven(start) THEN WithCursor(listener, start[1]) ELSE listener),
                              FromPublic)}
                   [] OTHER -> {Err("cannot be said")}
      inC   == replay => IsGiven(start)
      wires == (IF inC THEN {c(starts \o ends), c(ends \o starts)} ELSE {})
                 \cup {python(mode) : mode \in modes} \cup library
  IN \A a, b \in wires : a.ok = b.ok /\ (a.ok => a = b)

(* listen and replay ask for the same events of a listener from the same   *)
(* position, or refuse it, whatever position the listener has of its own.  *)
ReplayIsListen(configured, files, args, name, from) ==
  LET inline == InlineListener(args)
      chosen == ReplayListener(configured, files, inline.value, name)
      replay == Then(CliReplay(chosen, from, Unset), FromPublic)
      listen == CliListeners(configured, files, inline.value, Given(from))
      wire(spec) == Then(CliWatch(spec), FromPublic)
  IN inline.ok /\ chosen.ok =>
       IF listen.ok THEN \E i \in DOMAIN listen.value :
                           listen.value[i].name = chosen.value.name /\ wire(listen.value[i]) = replay
       ELSE ~replay.ok

(* A listener of listen_many is the watch that listen makes of the same    *)
(* arguments, whichever of them are shared between the listeners; both     *)
(* refuse an async function where nothing awaits it.                       *)
ManyIsOne(args, split, asynchronous) ==
  LET own    == [f \in DOMAIN args |-> IF f \in split THEN Unset ELSE args[f]]
      shared == [f \in {"start", "until", "mode"} |-> IF f \in split THEN args[f] ELSE Unset]
      many   == ListenMany(<<[name |-> "n", entry |-> [type |-> "dict", keys |-> {"event"}, args |-> own]]>>,
                           shared, Unset, asynchronous)
      one    == Then(PyListen(args, asynchronous), LAMBDA spec :
                  Then(FromPublic(spec.request), LAMBDA wire : Ok(spec)))
  IN /\ many.ok <=> one.ok
     /\ one.ok => many.value[1].spec = one.value

(* Two watches share a stored position exactly when they watch the same    *)
(* event of the same server with the same filter and, where one is set,    *)
(* the same fingerprint of the server.                                     *)
SameKeyIsSameWatch(a, b, names) ==
  (ResumeKey(a, names) = ResumeKey(b, names))
    <=> /\ NormalizeBaseUrl(a.url) = NormalizeBaseUrl(b.url)
        /\ a.event = b.event /\ a.filter = b.filter /\ a.fingerprint = b.fingerprint
=============================================================================
