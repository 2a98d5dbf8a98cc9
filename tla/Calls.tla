-------------------------------- MODULE Calls --------------------------------
(***************************************************************************)
(* The calls of a client that ask the server once: notify, notify_many,    *)
(* schema, schema_for, wipe_stream, wipe_all and delete_notification       *)
(* (aviso notify.rs, schema.rs, admin.rs, client/helpers.rs), and how they *)
(* are made and answered through the C interface, blocking and not         *)
(* (aviso-ffi client/mod.rs, async_ops.rs, outcome.rs, error.rs), and in   *)
(* Python (aviso-py clients.rs, error.rs).                                 *)
(*                                                                         *)
(* An answer of the server is a status, a body that is JSON of the right   *)
(* shape or not, and a request id; what AuthRefresh has of a request is    *)
(* left out.  A JSON text or value is named by its type.                   *)
(***************************************************************************)
EXTENDS Integers, FiniteSets, Results

Operations == {"notify", "schema", "schema_for", "wipe_stream", "wipe_all", "delete"}
Unvalued   == {"wipe_stream", "wipe_all", "delete"}
Named      == {"schema_for", "wipe_stream", "delete"}

-----------------------------------------------------------------------------
(* The library.                                                            *)

ClientError(kind) == [kind |-> kind, status |-> 0, requestId |-> Unset, trigger |-> Unset, cause |-> Unset]

(* parse_json_response.                                                    *)
HttpError(answer) == [ClientError("Http") EXCEPT !.status = answer.status, !.requestId = answer.requestId]
Succeeded(answer) == answer.status \in 200 .. 299

ParseJsonResponse(answer) ==
  CASE answer.body = "cut off" -> Err(ClientError("Transport"))
    [] answer.body # "cut off" /\ ~Succeeded(answer) -> Err(HttpError(answer))
    [] OTHER -> IF answer.body = "expected" THEN Ok(answer.requestId) ELSE Err(ClientError("Decode"))

(* parse_json_response_optional: the body of a success is not looked at.   *)
ParseJsonResponseOptional(answer) ==
  CASE answer.body = "cut off" -> Err(ClientError("Transport"))
    [] answer.body # "cut off" /\ ~Succeeded(answer) -> Err(HttpError(answer))
    [] OTHER -> Ok(Unset)

(* validate_path_segment: a name that would lead to another endpoint.      *)
ValidatePathSegment(name) == name \notin {"", ".", "..", "a/b", "a?b", "control"}

(* The request, as the server sees it, and what is made of its answer.     *)
Ask(operation, name, answer) ==
  CASE operation \in {"schema_for", "delete"} /\ ~ValidatePathSegment(name) -> Err(ClientError("Config"))
    [] operation \in Unvalued /\ (operation = "delete" => ValidatePathSegment(name)) ->
         IF IsGiven(answer) THEN ParseJsonResponseOptional(answer[1]) ELSE Err(ClientError("Transport"))
    [] OTHER -> IF IsGiven(answer) THEN ParseJsonResponse(answer[1]) ELSE Err(ClientError("Transport"))

(* notify_many: the requests end in any order, the results go back to the  *)
(* order of the requests.  Mutation: they stay as they came.               *)
DefaultConcurrency == 16
Concurrency(asked) == IF asked = 0 THEN DefaultConcurrency ELSE asked
AsTheyCame(indexed) == indexed
SortedByIndex(indexed) ==
  CHOOSE sorted \in [DOMAIN indexed -> Range(indexed)] :
    /\ Range(sorted) = Range(indexed)
    /\ \A i, j \in DOMAIN indexed : i < j => sorted[i].index <= sorted[j].index

NotifyMany(answers, order) ==
  LET indexed == [i \in DOMAIN order |->
                   [index |-> order[i], result |-> Ask("notify", "", answers[order[i]])]]
      sorted  == SortedByIndex(indexed)
  IN [i \in DOMAIN sorted |-> sorted[i].result]

(* At most `limit` of them are under way: the order in which they end.     *)
CanEnd(order, limit) ==
  \A i \in DOMAIN order : order[i] - 1 - Cardinality({j \in 1 .. i - 1 : order[j] < order[i]}) < limit

-----------------------------------------------------------------------------
(* The C interface.  A call is its texts, its client, and the thread it is *)
(* made on.  An outcome has a value or an error; kinds of errors are the   *)
(* constants of aviso.h.                                                   *)

OutcomeError(kind) == [kind |-> kind, status |-> 0, requestId |-> Unset, trigger |-> Unset, cause |-> Unset]
Outcome(success)   == [success |-> success, error |-> Unset]
OutcomeOf(error)   == [success |-> "empty", error |-> Given(error)]

(* map_error, trigger_kind_label, trigger_error_label.                     *)
CKinds == [Transport |-> "TRANSPORT", Http |-> "HTTP", Auth |-> "AUTH", Decode |-> "DECODE",
           MalformedEvent |-> "MALFORMED_EVENT", HistoryGap |-> "HISTORY_GAP",
           StreamProtocol |-> "STREAM_PROTOCOL", Config |-> "CONFIG", StateStore |-> "STATE_STORE",
           TriggerFailed |-> "TRIGGER"]
TriggerKinds  == {"echo", "log", "command", "webhook", "teams", "post"}
TriggerCauses == {"io", "encode", "command", "timeout", "webhook", "webhook_build", "template"}
LabelOf(option, known) ==
  CASE ~IsGiven(option) -> Unset
    [] IsGiven(option) /\ option[1] \in known    -> option
    [] IsGiven(option) /\ option[1] \notin known -> Given("unknown")

MapError(err) ==
  IF err.kind \notin DOMAIN CKinds THEN OutcomeError("UNKNOWN")
  ELSE [kind |-> CKinds[err.kind], status |-> err.status, requestId |-> err.requestId,
        trigger |-> LabelOf(err.trigger, TriggerKinds), cause |-> LabelOf(err.cause, TriggerCauses)]

(* AvisoOutcome::json_text: a success whose text holds no NUL.             *)
JsonText(result) ==
  IF result.ok THEN Outcome("text") ELSE OutcomeOf(MapError(result.error))
NoText(result) ==
  IF result.ok THEN Outcome("empty") ELSE OutcomeOf(MapError(result.error))

(* cstr_opt, cstr_nullable, parse_identifier and the payload.              *)
IsText(text) == text \notin {"null", "not unicode"}
Invalid == OutcomeOf(OutcomeError("INVALID_INPUT"))

BadIdentifier(text) == text \in {"not unicode", "not json", "array", "string"}
BadPayload(text)    == text \in {"not unicode", "not json"}

BadArguments(call) ==
  CASE call.operation = "notify" ->
         ~IsText(call.name) \/ BadIdentifier(call.identifier) \/ BadPayload(call.payload)
    [] call.operation \in Named -> ~IsText(call.name)
    [] OTHER -> FALSE

Answered(call, answer) ==
  LET result == Ask(call.operation, call.name, answer)
  IN IF call.operation \in Unvalued THEN NoText(result) ELSE JsonText(result)

(* aviso_client_...: on a thread of the runtime it would never return.     *)
CBlocking(call, answer) ==
  CASE call.client = "null" -> Invalid
    [] call.client # "null" /\ call.onRuntime -> OutcomeOf(OutcomeError("INVALID_USAGE"))
    [] OTHER -> IF BadArguments(call) THEN Invalid ELSE Answered(call, answer)

(* aviso_client_..._async: what on_complete is called with, each time.     *)
AsyncRefuses(call) == call.client = "null" \/ BadArguments(call)
CAsync(call, answer) ==
  CASE call.onComplete = "null" -> <<>>
    [] call.onComplete # "null" /\ AsyncRefuses(call) -> <<Invalid>>
    [] OTHER -> <<Answered(call, answer)>>

(* aviso_outcome_is_ok.                                                    *)
IsOk(outcome) == outcome.error = Unset

(* parse_notification_request: an element of notifications_json.           *)
BadNotification(item) ==
  \/ item.type # "object" \/ item.eventType # "string"
  \/ item.identifier \notin {"missing", "null", "object"}

(* aviso_client_notify_many: one bad element, and nothing is sent.         *)
CNotifyMany(list, answers, order) ==
  IF list = <<>> \/ \A i \in DOMAIN list : ~BadNotification(list[i])
  THEN LET results == NotifyMany(answers, order)
       IN Ok([i \in DOMAIN results |->
               [index |-> i, status |-> IF results[i].ok THEN "ok" ELSE "error",
                error |-> IF results[i].ok THEN Unset ELSE Given(MapError(results[i].error))]])
  ELSE Err("INVALID_INPUT")

-----------------------------------------------------------------------------
(* Python.  An exception is its class and what it carries.                 *)

PyClasses == [Transport |-> "TransportError", Http |-> "HttpError", Auth |-> "AuthError",
              Decode |-> "DecodeError", MalformedEvent |-> "MalformedEventError",
              HistoryGap |-> "HistoryGapError", StreamProtocol |-> "StreamProtocolError",
              Config |-> "ConfigError", StateStore |-> "StateStoreError",
              TriggerFailed |-> "TriggerError"]

(* map_client_error.                                                       *)
MapClientError(err) ==
  [class     |-> IF err.kind \in DOMAIN PyClasses THEN PyClasses[err.kind] ELSE "AvisoError",
   status    |-> IF err.kind = "Http" THEN err.status ELSE 0,
   requestId |-> IF err.kind \in {"Http", "StreamProtocol"} THEN err.requestId ELSE Unset,
   trigger   |-> IF err.kind = "TriggerFailed" THEN LabelOf(err.trigger, TriggerKinds) ELSE Unset,
   cause     |-> IF err.kind = "TriggerFailed" THEN LabelOf(err.cause, TriggerCauses) ELSE Unset]

Raised(class) == [class |-> class, status |-> 0, requestId |-> Unset, trigger |-> Unset, cause |-> Unset]

(* identifier_from_py and depythonize, as what is wrong with an argument.  *)
BadPyArguments(call) ==
  call.operation = "notify" /\ (call.identifier \in {"array", "string"} \/ call.payload = "not json")

(* The methods of AvisoClient and AsyncAvisoClient.                        *)
PyCall(call, answer) ==
  IF BadPyArguments(call) THEN Err(Raised("TypeError"))
  ELSE LET result == Ask(call.operation, call.name, answer)
       IN IF result.ok THEN result ELSE Err(MapClientError(result.error))

(* resolve_concurrency, request_from_mapping, build_results.               *)
PyNotifyMany(list, concurrency, answers, order) ==
  LET results == NotifyMany(answers, order)
  IN CASE concurrency < 0 -> Err("ValueError")
       [] concurrency >= 0 /\ (\E i \in DOMAIN list : BadNotification(list[i])) -> Err("raised")
       [] OTHER -> Ok([i \in DOMAIN results |->
                        [index |-> i, error |-> IF results[i].ok THEN Unset
                                                ELSE Given(MapClientError(results[i].error))]])

-----------------------------------------------------------------------------
(* Properties.                                                             *)

(* A call that blocks, one that does not and Python agree on whether the   *)
(* server was asked, on its answer and on the class of the error; only a   *)
(* call with on_complete from a thread of the runtime goes through.        *)
SameOutcome(call, answer) ==
  LET blocking == CBlocking(call, answer)
      async    == CAsync(call, answer)
      python   == PyCall(call, answer)
  IN /\ call.onComplete # "null" => Len(async) = 1
     /\ ~call.onRuntime /\ async # <<>> => async[1] = blocking
     /\ call.client # "null" /\ ~call.onRuntime /\ ~BadArguments(call) =>
          /\ IsOk(blocking) <=> python.ok
          /\ ~python.ok => LET c == blocking.error[1]
                               p == python.error
                           IN /\ \E kind \in DOMAIN CKinds : c.kind = CKinds[kind] /\ p.class = PyClasses[kind]
                              /\ <<c.status, c.requestId, c.trigger, c.cause>>
                                   = <<p.status, p.requestId, p.trigger, p.cause>>

(* The result of a request stands at its place in the list, in whatever    *)
(* order the requests end, for C and Python alike.                         *)
EachAtItsPlace(list, concurrency, answers, order) ==
  LET c == CNotifyMany(list, answers, order)
      p == PyNotifyMany(list, concurrency, answers, order)
      result(i) == Ask("notify", "", answers[i])
  IN CanEnd(order, Concurrency(concurrency)) =>
     /\ c.ok <=> p.ok
     /\ c.ok => \A i \in DOMAIN list :
                  /\ c.value[i].index = i /\ p.value[i].index = i
                  /\ (c.value[i].status = "ok") <=> result(i).ok
                  /\ ~result(i).ok => /\ c.value[i].error = Given(MapError(result(i).error))
                                      /\ p.value[i].error = Given(MapClientError(result(i).error))
=============================================================================
