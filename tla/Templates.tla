------------------------------ MODULE Templates ------------------------------
(***************************************************************************)
(* Trigger templates (watch/trigger/template/mod.rs, url.rs), the bodies   *)
(* built around them (post.rs, teams.rs), and what a command is given and  *)
(* what is kept of its output (command/mod.rs).                            *)
(*                                                                         *)
(* A text is a sequence of the characters CommandText has, with "colon",   *)
(* "dot" and "?", and names taken whole.  Left out: the wording of a card, *)
(* and the JSON a value that is not a string is written as.                *)
(***************************************************************************)
EXTENDS Integers, FiniteSets, FiniteSetsExt, Functions, CommandText

NoSegments == <<>>
Literal(text) == [kind |-> "literal", text |-> text]
Path(names)   == [kind |-> "notification", path |-> names]
EnvVar(name)  == [kind |-> "env", name |-> name]
Bad(field)    == [kind |-> "bad", field |-> field]

-----------------------------------------------------------------------------
(* compile.                                                                *)

StartsWith(text, prefix) == IsPrefix(prefix, text)
Rest(text, n) == SubSeq(text, n + 1, Len(text))

(* str::split at a dot.                                                    *)
Split[text \in Seq(STRING)] ==
  LET i == SelectInSeq(text, LAMBDA c : c = "dot")
  IN IF i = 0 THEN <<text>> ELSE <<SubSeq(text, 1, i - 1)>> \o Split[Rest(text, i)]

Trimmed(text) ==
  LET from == SelectInSeq(text, LAMBDA c : c # "sp")
      to   == SelectLastInSeq(text, LAMBDA c : c # "sp")
  IN IF from = 0 THEN <<>> ELSE SubSeq(text, from, to)

(* The inside of a pair of braces.                                         *)
Expression(inside) ==
  LET expr == Trimmed(inside)
      rest == Rest(expr, 2)
  IN CASE expr = <<"notification">> -> Path(<<>>)
       [] StartsWith(expr, <<"notification", "dot">>) ->
            IF <<>> \in Range(Split[rest]) THEN Bad("empty_path_segment") ELSE Path(Split[rest])
       [] StartsWith(expr, <<"env", "dot">>) ->
            IF rest = <<>> THEN Bad("empty_path_segment") ELSE EnvVar(rest)
       [] OTHER -> Bad("unknown_namespace")

(* parse_expression, after the opening braces: <<segment, characters read>>.*)
ParseExpression(text) ==
  LET close  == SelectInSeq([i \in 1 .. Len(text) - 1 |-> SubSeq(text, i, i + 1)],
                            LAMBDA pair : pair = <<"rb", "rb">>)
      escape == SelectInSeq(text, LAMBDA c : c = "bs")
  IN CASE escape # 0 /\ (close = 0 \/ escape < close) -> <<Bad("escape_inside_expr"), 0>>
       [] close = 0 /\ escape = 0 -> <<Bad("unclosed_braces"), 0>>
       [] OTHER -> <<Expression(SubSeq(text, 1, close - 1)), close + 1>>

(* An opening escaped with a backslash, and one that is not.               *)
EscapedOpen == <<"bs", "lb", "lb">>
Open        == <<"lb", "lb">>

Flushed(literal) == IF literal = <<>> THEN NoSegments ELSE <<Literal(literal)>>

(* The segments of the text that is left, after the literal characters     *)
(* read so far.                                                            *)
Compiled[at \in Seq(STRING) \X Seq(STRING)] ==
  LET text    == at[1]
      literal == at[2]
      parsed  == ParseExpression(Rest(text, 2))
  IN CASE text = <<>> -> Flushed(literal)
       [] StartsWith(text, EscapedOpen) -> Compiled[<<Rest(text, 3), literal \o Open>>]
       [] StartsWith(text, <<"bs", "lb">>) /\ ~StartsWith(text, EscapedOpen) ->
            Compiled[<<Rest(text, 2), literal \o <<"bs", "lb">>>>]
       [] StartsWith(text, Open) ->
            IF parsed[1].kind = "bad" THEN <<parsed[1]>>
            ELSE Flushed(literal) \o <<parsed[1]>> \o Compiled[<<Rest(text, 2 + parsed[2]), <<>>>>]
       [] OTHER -> Compiled[<<Tail(text), Append(literal, Head(text))>>]

Compile(text) == Compiled[<<text, <<>>>>]
BadSyntax(segments) == \E i \in DOMAIN segments : segments[i].kind = "bad"

(* CompiledTemplate::env_names.                                            *)
EnvNames(segments) == {segments[i].name : i \in {j \in DOMAIN segments : segments[j].kind = "env"}}

-----------------------------------------------------------------------------
(* Rendering.  A JSON value has the text it renders as and its members.    *)

Json(text, fields) == [text |-> text, fields |-> fields]
NoMembers == [name \in {} |-> <<>>]
Missing == [missing |-> TRUE]
IsMissing(json) == "missing" \in DOMAIN json

WalkPath(json, path) ==
  FoldLeft(LAMBDA cursor, name : IF IsMissing(cursor) \/ name \notin DOMAIN cursor.fields
                                 THEN Missing ELSE cursor.fields[name],
           json, path)

(* UrlTracker: how much of "://" has matched, whether it has been passed,  *)
(* and whether the path has begun.                                         *)
NewUrl == [matched |-> 0, separated |-> FALSE, inPath |-> FALSE]

UrlChar(u, c) ==
  CASE u.inPath -> u
    [] ~u.inPath /\ u.separated -> [u EXCEPT !.inPath = c \in {"slash", "?", "#"}]
    [] OTHER -> LET matched == CASE c = "colon" -> 1
                                 [] c = "slash" /\ u.matched \in {1, 2} -> u.matched + 1
                                 [] OTHER -> 0
                IN [u EXCEPT !.matched = matched, !.separated = matched = 3]

UrlAdvance(u, text) == FoldLeft(UrlChar, u, text)

(* percent_encode: everything but letters, digits, "-", "_" and "~".       *)
KeptInUrl == Letters \cup {"dash", "notification"}
PercentEncode(value) ==
  FlattenSeq([i \in DOMAIN value |->
    IF value[i] \in KeptInUrl THEN <<value[i]>> ELSE <<"percent", value[i] \o "-hex">>])

Started == [out |-> <<>>, shell |-> NewTracker, url |-> NewUrl, error |-> "none"]
Refused(r, kind) == [r EXCEPT !.error = kind]

(* Text of the operator's own, read as written.                            *)
Written(r, sink, text) ==
  [r EXCEPT !.out   = @ \o text,
            !.shell = IF sink = "shell" THEN Advance(@, text) ELSE @,
            !.url   = IF sink = "url" THEN UrlAdvance(@, text) ELSE @]

(* A value of a notification, made safe for where it stands.               *)
Placed(r, sink, value) ==
  CASE sink = "raw" -> [r EXCEPT !.out = @ \o value]
    [] sink = "shell" /\ Unsupported(r.shell) # "none" ->
         Refused(r, "ValueAfterUnsupportedShellSyntax")
    [] sink = "shell" /\ Unsupported(r.shell) = "none" ->
         LET quoted == Quote(r.shell, value)
         IN [r EXCEPT !.out = @ \o quoted, !.shell = AdvanceValue(@, quoted)]
    [] sink = "url" /\ ~r.url.inPath -> Refused(r, "ValueInUrlAuthority")
    [] sink = "url" /\ r.url.inPath ->
         [r EXCEPT !.out = @ \o PercentEncode(value), !.url = UrlAdvance(@, PercentEncode(value))]

RenderSegment(r, sink, segment, notification, env) ==
  CASE segment.kind = "literal" -> Written(r, sink, segment.text)
    [] segment.kind = "notification" ->
         LET json == WalkPath(notification, segment.path)
         IN IF IsMissing(json) THEN Refused(r, "Missing") ELSE Placed(r, sink, json.text)
    [] segment.kind = "env" ->
         IF segment.name \in DOMAIN env THEN Written(r, sink, env[segment.name])
         ELSE Refused(r, "EnvNotSet")

(* CompiledTemplate::render_with_env, or the error of its compilation.     *)
Render(segments, sink, notification, env) ==
  IF BadSyntax(segments) THEN Refused(Started, "BadSyntax")
  ELSE FoldLeft(LAMBDA r, segment : IF r.error # "none" THEN r
                                    ELSE RenderSegment(r, sink, segment, notification, env),
                Started, segments)

RenderText(text, sink, notification, env) == Render(Compile(text), sink, notification, env)

-----------------------------------------------------------------------------
(* Requests.                                                               *)

(* The URL, then the headers, then the body: the first that fails is the   *)
(* error, and nothing is sent.                                             *)
FirstError(rendered) ==
  LET i == SelectInSeq(rendered, LAMBDA r : r.error # "none")
  IN IF i = 0 THEN "none" ELSE rendered[i].error

Request(url, names, headers, body) ==
  [url |-> url.out, body |-> body.out,
   headers |-> [i \in DOMAIN headers |-> [name |-> names[i], value |-> headers[i].out]],
   error |-> FirstError(<<url>> \o headers \o <<body>>)]

RenderWebhook(cfg, notification, env) ==
  Request(RenderText(cfg.url, "url", notification, env),
          [i \in DOMAIN cfg.headers |-> cfg.headers[i].name],
          [i \in DOMAIN cfg.headers |-> RenderText(cfg.headers[i].value, "raw", notification, env)],
          IF cfg.body = <<"default">> THEN [Started EXCEPT !.out = notification.text]
          ELSE RenderText(cfg.body, "raw", notification, env))

(* Header names that differ only in case.                                  *)
Lowercase(name) == IF name = "Content-Type" THEN "content-type" ELSE name
WithContentType(headers, default) ==
  IF \E i \in DOMAIN headers : Lowercase(headers[i].name) = "content-type" THEN headers
  ELSE Append(headers, [name |-> "Content-Type", value |-> default])

(* str::replace of two braces by their escape.                             *)
Replaced[text \in Seq(STRING)] ==
  CASE text = <<>>            -> <<>>
    [] StartsWith(text, Open) -> EscapedOpen \o Replaced[Rest(text, 2)]
    [] OTHER                  -> <<Head(text)>> \o Replaced[Tail(text)]

(* Mutation: the body is handed to the template engine as it is.           *)
UnescapedBraces(body) == body
EscapedBraces(body) == Replaced[body]

(* A CloudEvent as it was received, or one made of the notification.       *)
Envelope(notification, raw) ==
  IF IsMissing(raw) THEN <<"reconstructed">> \o notification.text ELSE raw.text

PostConfig(url, headers, envelope) ==
  [url |-> url, headers |-> WithContentType(headers, <<"cloudevents+json">>),
   body |-> EscapedBraces(envelope)]

TeamsCard(url, shown, notification) ==
  [error |-> shown.error,
   cfg   |-> [url |-> url, headers |-> <<[name |-> "Content-Type", value |-> <<"json">>]>>,
              body |-> EscapedBraces(<<"card">> \o shown.out \o notification.text)]]

TeamsConfig(url, title, notification, env) ==
  TeamsCard(url, RenderText(title, "raw", notification, env), notification)

-----------------------------------------------------------------------------
(* Commands.                                                               *)

RemovedVars == {<<"AVISO_TOKEN">>, <<"AVISO_USERNAME">>, <<"AVISO_PASSWORD">>}

(* Entries that override those before them.                                *)
Over(entries, before) ==
  [name \in DOMAIN entries \cup DOMAIN before |->
    IF name \in DOMAIN entries THEN entries[name] ELSE before[name]]

(* What the child finds in its environment: the client's own, what is told *)
(* about the notification, less the credentials and what the template read,*)
(* and the operator's entries over all of them.                            *)
ChildEnvironment(process, injected, segments, cfg) ==
  LET told    == Over(injected, process)
      removed == RemovedVars \cup EnvNames(segments)
  IN Over(cfg, Restrict(told, DOMAIN told \ removed))

(* drain_to_ring, capture_body_tail: the last `cap` of what is read.       *)
(* Mutation: what is dropped is counted without the new piece.             *)
LateOverflow(ring, piece, cap) ==
  LET overflow == Max({0, Len(ring) - cap})
  IN Rest(ring, overflow) \o piece
Ringed(ring, piece, cap) ==
  LET n == Len(piece) IN
  CASE Len(ring) + n > cap /\ n >= cap -> Rest(piece, n - cap)
    [] Len(ring) + n > cap /\ n < cap  -> Rest(ring, Len(ring) + n - cap) \o piece
    [] OTHER                           -> ring \o piece

RingTail(pieces, cap) ==
  FoldLeft(LAMBDA ring, piece : Ringed(ring, piece, cap), <<>>, pieces)

-----------------------------------------------------------------------------
(* Where a value may stand in a URL, it changes neither the authority nor  *)
(* the number of segments, and begins no query and no fragment; whether it *)
(* may stand there does not depend on what it is.                          *)
Delimiters == {"colon", "slash", "?", "#", "dot", "sp"}
WithMember(text, value) == Json(text, [name \in {<<"x">>} |-> Json(value, NoMembers)])
WithValue(value) == WithMember(<<>>, value)
NoEnv == [name \in {} |-> <<>>]

Structure(shape, c) == IF c \in Delimiters THEN Append(shape, c) ELSE shape
Shape(url) == FoldLeft(Structure, <<>>, url.out)

SameShape(url, other) ==
  /\ url.error = other.error
  /\ url.error = "none" => Shape(url) = Shape(other)

UrlKeepsItsShape(text, value) ==
  SameShape(RenderText(text, "url", WithValue(value), NoEnv),
            RenderText(text, "url", WithValue(<<"x">>), NoEnv))

(* A body made of a notification is sent as it is, though it goes through  *)
(* the template engine: what looks like a placeholder in it is text.       *)
IsSent(request, body) == request.error = "none" /\ request.body = body

CardIsSent(teams, notification) ==
  /\ teams.error = "none"
  /\ IsSent(RenderWebhook(teams.cfg, notification, NoEnv),
            <<"card">> \o notification.text \o notification.text)

BodyIsSent(body, raw) ==
  LET notification == WithMember(body, body)
      envelope     == Envelope(notification, raw)
      title        == Open \o <<"notification", "dot", "x">> \o <<"rb", "rb">>
  IN /\ IsSent(RenderWebhook(PostConfig(<<"slash">>, <<>>, envelope), notification, NoEnv), envelope)
     /\ CardIsSent(TeamsConfig(<<"slash">>, title, notification, NoEnv), notification)

(* The child of a command gets no credential of the client and nothing     *)
(* that was placed in its text, unless the operator says so, whoever else  *)
(* set a variable of that name; all else it is told.                       *)
ChildIsTold(template, process, injected, cfg) ==
  LET child  == ChildEnvironment(process, injected, Compile(template), cfg)
      hidden == RemovedVars \cup EnvNames(Compile(template))
  IN /\ hidden \cap DOMAIN child \subseteq DOMAIN cfg
     /\ \A name \in DOMAIN injected \ (hidden \cup DOMAIN cfg) : child[name] = injected[name]
     /\ \A name \in DOMAIN cfg : child[name] = cfg[name]

(* Whatever pieces a child writes its output in, the end of it is kept.    *)
TailIsKept(pieces, cap) ==
  LET all == FlattenSeq(pieces)
  IN RingTail(pieces, cap) = Rest(all, Max({0, Len(all) - cap}))
=============================================================================
