--------------------------- MODULE TriggerSettings ---------------------------
(***************************************************************************)
(* How a trigger is described: with the library's builder                  *)
(* (watch/trigger/mod.rs, webhook/builders.rs, teams.rs, post.rs), in a    *)
(* listener file (yaml.rs), through a handle of the C interface (aviso-ffi *)
(* triggers.rs) and with the arguments and methods of the Python one       *)
(* (aviso-py triggers.rs).                                                 *)
(*                                                                         *)
(* A setting is a name and a value; what a trigger kind does not have      *)
(* stays at its default.  Left out: that templates are compiled here (a    *)
(* bad one is only reported when it is rendered), and platforms that have  *)
(* no command trigger.                                                     *)
(***************************************************************************)
EXTENDS Integers, FiniteSets, Results

Kinds   == {"echo", "log", "command", "webhook", "teams", "post"}
Http    == {"webhook", "teams", "post"}
Methods == {"POST", "GET", "PUT", "PATCH", "DELETE"}

DefaultTimeout == 30
DefaultTitle   == "default title"

(* The factories: Trigger::echo, log, command, webhook, teams, post.       *)
Made(kind, main) ==
  [kind |-> kind, main |-> main, label |-> Unset,
   retries |-> 0, required |-> TRUE, failFast |-> TRUE,
   timeout |-> IF kind \in Http THEN Given(DefaultTimeout) ELSE Unset,
   env |-> [name \in {} |-> ""], workingDir |-> Unset,
   method |-> "POST", headers |-> <<>>, bodyTemplate |-> Unset, titleTemplate |-> DefaultTitle]

(* The kinds whose setter does something; the others hand back the trigger *)
(* as it is.                                                               *)
TakenBy(setting) ==
  CASE setting \in {"retries", "required", "timeout", "failFast"} -> Kinds
    [] setting = "label"                                  -> {"echo"}
    [] setting \in {"env", "workingDir"}                  -> {"command"}
    [] setting \in {"method", "header", "bodyTemplate"}   -> {"webhook"}
    [] setting = "titleTemplate"                          -> {"teams"}
    [] setting = "postHeader"                             -> {"post"}

Optional == {"label", "timeout", "workingDir", "bodyTemplate"}

(* One call of a setter.  An environment entry replaces the one of its     *)
(* name; a header is added to those there are.                             *)
Set(trigger, setting, value) ==
  IF trigger.kind \notin TakenBy(setting) THEN trigger ELSE
  CASE setting = "env" -> [trigger EXCEPT !.env = (value[1] :> value[2]) @@ @]
    [] setting \in {"header", "postHeader"} -> [trigger EXCEPT !.headers = Append(@, value)]
    [] setting \in Optional -> [trigger EXCEPT ![setting] = Given(value)]
    [] OTHER -> [trigger EXCEPT ![setting] = value]

(* A call is a pair <<setting, value>>.                                    *)
Calling(trigger, calls) ==
  FoldLeft(LAMBDA t, call : Set(t, call[1], call[2]), trigger, calls)

(* One call for each entry of a map.                                       *)
EachEntry(setting, map) ==
  LET names == SetToSeq(DOMAIN map)
  IN [i \in DOMAIN names |-> <<setting, <<names[i], map[names[i]]>>>>]

-----------------------------------------------------------------------------
(* A listener file: `said` maps what an entry says to what it says.        *)

CommonFields == {"retries", "required"}
YamlFields(kind) ==
  CommonFields \cup
  CASE kind \in {"echo", "log"} -> {}
    [] kind = "command" -> {"env", "workingDir", "timeout", "failFast"}
    [] kind = "webhook" -> {"method", "headers", "bodyTemplate", "timeout", "failFast"}
    [] kind = "teams"   -> {"titleTemplate", "timeout", "failFast"}
    [] kind = "post"    -> {"headers", "timeout", "failFast"}

(* The values a type is deserialised from; a duration has a unit.          *)
YamlValue(field, value) ==
  CASE field = "method"  -> value \in Methods
    [] field \in {"retries", "timeout"} -> value >= 0
    [] OTHER             -> TRUE

HeaderSetter(kind) == IF kind = "post" THEN "postHeader" ELSE "header"
CallsFor(kind, field, value) ==
  CASE field = "env"     -> EachEntry("env", value)
    [] field = "headers" -> EachEntry(HeaderSetter(kind), value)
    [] OTHER             -> <<<<field, value>>>>

(* Mutation: a flag the file does not mention is off.                      *)
UnsaidIsOff(kind, main) == [Made(kind, main) EXCEPT !.required = FALSE]
FromFileDefaults(kind, main) == Made(kind, main)

(* TriggerConfig and into_trigger.                                         *)
FromYaml(kind, main, said) ==
  LET fields == SetToSeq(DOMAIN said)
      calls  == FlattenSeq([i \in DOMAIN fields |-> CallsFor(kind, fields[i], said[fields[i]])])
  IN IF \E field \in DOMAIN said : field \notin YamlFields(kind) \/ ~YamlValue(field, said[field])
     THEN Err("config")
     ELSE Ok(Calling(FromFileDefaults(kind, main), calls))

-----------------------------------------------------------------------------
(* The C interface.  A text is "null" or "not unicode" where a pointer is  *)
(* no good; a handle keeps its first error, and ignores what follows.      *)

BadText(text) == text \in {"null", "not unicode"}

Factory(kind, main) ==
  IF kind # "echo" /\ BadText(main) THEN [trigger |-> Unset, error |-> Given("invalid input")]
  ELSE [trigger |-> Given(Made(kind, main)), error |-> Unset]

(* AvisoTrigger::apply.                                                    *)
Apply(handle, setting, value) ==
  IF IsGiven(handle.error) THEN handle
  ELSE [handle EXCEPT !.trigger[1] = Set(@, setting, value)]

BadCall(setting, value) ==
  CASE setting = "method" -> value \notin Methods
    [] setting \in {"label", "bodyTemplate", "workingDir"} -> BadText(value)
    [] setting \in {"header", "env"} -> BadText(value[1]) \/ BadText(value[2])
    [] OTHER -> FALSE

(* aviso_trigger_set_...                                                   *)
CSetters == {"label", "retries", "required", "timeout", "failFast", "method", "header",
             "bodyTemplate", "env", "workingDir"}
CSet(handle, setting, value) ==
  IF ~IsGiven(handle.error) /\ BadCall(setting, value)
  THEN [handle EXCEPT !.error = Given("invalid input")]
  ELSE Apply(handle, setting, value)

FromC(kind, main, calls) ==
  FoldLeft(LAMBDA handle, call : CSet(handle, call[1], call[2]), Factory(kind, main), calls)

-----------------------------------------------------------------------------
(* The Python interface.  A number of seconds is "nan" or a number.        *)

Seconds(value) ==
  IF value = Unset \/ value[1] < 0 THEN Err("config") ELSE Ok(value[1])

ParseMethod(text) == IF text \in Methods THEN Ok(text) ELSE Err("value")

PyParameters(kind) ==
  CASE kind = "echo" -> {"retries", "required", "label"}
    [] kind = "log"  -> {"retries", "required"}
    [] kind = "command" -> {"env", "workingDir", "retries", "required", "timeout", "failFast"}
    [] kind = "webhook" -> {"method", "headers", "bodyTemplate", "retries", "required", "timeout", "failFast"}
    [] kind \in {"teams", "post"} -> {"retries", "required", "timeout", "failFast"}
    [] kind = "function" -> {"retries", "required", "label"}

(* A static method; an argument that is not one of its parameters is a     *)
(* TypeError of the interpreter.                                           *)
PyMade(kind, main, args) ==
  LET names   == SetToSeq(DOMAIN args)
      calls   == FlattenSeq([i \in DOMAIN names |-> CallsFor(kind, names[i], args[names[i]])])
      method  == IF "method" \in DOMAIN args THEN ParseMethod(args.method) ELSE Ok("POST")
      timeout == IF "timeout" \in DOMAIN args THEN Seconds(Given(args.timeout)) ELSE Ok(0)
  IN CASE ~(DOMAIN args \subseteq PyParameters(kind)) -> Err("type")
       [] DOMAIN args \subseteq PyParameters(kind) /\ ~method.ok -> method
       [] DOMAIN args \subseteq PyParameters(kind) /\ method.ok  ->
            Then(timeout, LAMBDA checked : Ok(Calling(Made(kind, main), calls)))

(* Trigger.function: what it runs, and whether that is an async function.  *)
PyFunction(func, args) ==
  IF func.callable
  THEN Ok([kind |-> "function", func |-> func,
           retries |-> IF "retries" \in DOMAIN args THEN args.retries ELSE 0,
           required |-> IF "required" \in DOMAIN args THEN args.required ELSE TRUE,
           label |-> IF "label" \in DOMAIN args THEN Given(args.label) ELSE Unset])
  ELSE Err("type")

IsFunction(trigger) == trigger.kind = "function"

(* The methods retries, required, label, timeout and fail_fast: a new      *)
(* trigger.  The last two do not apply to a function.                      *)
PySet(trigger, setting, value) ==
  LET set == CASE setting = "label" -> [trigger EXCEPT !.label = Given(value)]
               [] setting # "label" -> [trigger EXCEPT ![setting] = value]
  IN CASE setting = "timeout" /\ ~Seconds(Given(value)).ok -> Seconds(Given(value))
       [] IsFunction(trigger) /\ setting \in {"timeout", "failFast"} /\
            (setting = "timeout" => Seconds(Given(value)).ok) -> Err("value")
       [] IsFunction(trigger) /\ setting \notin {"timeout", "failFast"} -> Ok(set)
       [] OTHER -> Ok(Set(trigger, setting, value))

(* SplitTriggers: the library runs the native ones, Python the functions.  *)
SplitTriggers(triggers) ==
  [native    |-> SelectSeq(triggers, LAMBDA t : ~IsFunction(t)),
   functions |-> SelectSeq(triggers, LAMBDA t : IsFunction(t))]

RefuseAsyncFunctions(functions) ==
  IF \E i \in DOMAIN functions : functions[i].func.async THEN Err("type") ELSE Ok(functions)

-----------------------------------------------------------------------------
(* What is said of a trigger in a listener file, with the setters of a C   *)
(* handle in any order, with the arguments of a Python constructor and     *)
(* with the methods of a Python trigger is the same trigger, or refused,   *)
(* as far as each of them can say it.                                      *)

Ordered(calls) == {calls} \cup {Reverse(calls)}
PyMethods == {"retries", "required", "label", "timeout", "failFast"}

SameTrigger(kind, main, said) ==
  LET yaml  == FromYaml(kind, main, said)
      names == SetToSeq(DOMAIN said)
      calls == FlattenSeq([i \in DOMAIN names |-> CallsFor(kind, names[i], said[names[i]])])
      inC   == \A i \in DOMAIN calls : calls[i][1] \in CSetters
      inPy  == DOMAIN said \subseteq PyParameters(kind)
      inFile == DOMAIN said \subseteq YamlFields(kind)
  IN inFile =>
       /\ inC => \A order \in Ordered(calls) :
                   LET c == FromC(kind, main, order)
                   IN /\ yaml.ok <=> ~IsGiven(c.error)
                      /\ yaml.ok => c.trigger[1] = yaml.value
       /\ inPy => LET py   == PyMade(kind, main, said)
                      bare == PyMade(kind, main, Restrict(said, DOMAIN said \ PyMethods))
                      chained(order) ==
                        FoldLeft(LAMBDA r, call : Then(r, LAMBDA t : PySet(t, call[1], call[2])), bare, order)
                  IN /\ yaml.ok <=> py.ok
                     /\ yaml.ok => py.value = yaml.value
                     /\ \A order \in Ordered(SelectSeq(calls, LAMBDA call : call[1] \in PyMethods)) :
                          chained(order) = py
=============================================================================
