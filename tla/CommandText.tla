----------------------------- MODULE CommandText -----------------------------
(***************************************************************************)
(* How a command trigger places notification values in its text            *)
(* (watch/trigger/template/shell).  A tracker reads the text as the shell  *)
(* will, and each value is quoted for the context it lands in, or refused. *)
(*                                                                         *)
(* A text is a sequence of characters: "sq", "dq", "bt" are the quotes,    *)
(* "bs" the backslash, "lb" and "rb" the braces, "sp" and "nl" what parts  *)
(* words and lines.  Characters the tracker does not tell apart are one:   *)
(* "x" is any letter, "dash" a dash or a digit, "op" stands for the        *)
(* control operators; "case", "eval" and "env" are the letters of a word   *)
(* the tracker knows: a case statement, a command that reads its arguments *)
(* again, and one whose first argument is a command.                       *)
(* Left out: that a word is kept up to eight characters.                   *)
(***************************************************************************)
EXTENDS Sequences, SequencesExt

Letters == {"x", "case", "eval", "env"}

EmptyWord == [text |-> <<>>, assignment |-> FALSE, redirectOperand |-> FALSE, opaque |-> FALSE]

(* ShellTracker; `word` and `reparsing` of a level are its outer_ fields.  *)
Outermost == [context |-> "bare", opener |-> "none", commandWord |-> FALSE,
              reparsing |-> FALSE, redirectOperand |-> FALSE]
NewTracker ==
  [levels |-> <<Outermost>>, wordStart |-> TRUE, word |-> EmptyWord,
   commandWord |-> TRUE, reparsing |-> FALSE,
   escape |-> FALSE, token |-> "none", unsupported |-> "none"]

Context(t) == Last(t.levels).context
Opener(t)  == Last(t.levels).opener

SetContext(t, c)  == [t EXCEPT !.levels[Len(t.levels)].context = c]
InWord(t)         == [t EXCEPT !.wordStart = FALSE]
Opaque(t)         == [t EXCEPT !.wordStart = FALSE, !.word.opaque = TRUE]
Expects(t, token) == [InWord(t) EXCEPT !.token = token]
Flag(t, what)     == IF t.unsupported = "none" THEN [t EXCEPT !.unsupported = what] ELSE t

(* Word::push.                                                             *)
Push(w, c) ==
  CASE c = "slash" -> [w EXCEPT !.text = <<>>]
    [] c = "eq"    -> [w EXCEPT !.text = Append(@, c), !.assignment = TRUE]
    [] OTHER       -> [w EXCEPT !.text = Append(@, c)]

WordIsEmpty(w) == w = EmptyWord

(* A first word after which the command name is still to come.             *)
LeavesCommandPositionOpen(w) ==
  \/ w.text = <<"env">> \/ w.assignment
  \/ w.text # <<>> /\ Head(w.text) = "dash"

ReparsesItsArguments(w) == w.text = <<"eval">>

-----------------------------------------------------------------------------
(* Levels.                                                                 *)

OpenLevel(t, opener) ==
  LET nested  == opener # "group"
      outer   == t.reparsing \/ (t.commandWord /\ nested)
      level   == [context |-> "bare", opener |-> opener, commandWord |-> t.commandWord,
                  reparsing |-> outer, redirectOperand |-> t.word.redirectOperand]
  IN [t EXCEPT !.levels = Append(@, level), !.wordStart = TRUE, !.word = EmptyWord,
               !.commandWord = opener # "brace",
               !.reparsing = outer \/ (t.word.redirectOperand /\ nested)]

CloseLevel(t) ==
  LET level == Last(t.levels)
      word  == IF level.opener = "group" THEN t.word
               ELSE [t.word EXCEPT !.opaque = TRUE, !.redirectOperand = level.redirectOperand]
  IN IF Len(t.levels) = 1 THEN t
     ELSE [t EXCEPT !.levels = Front(@), !.commandWord = level.commandWord,
                    !.reparsing = level.reparsing, !.word = word]

EndWord(t, startsCommand) ==
  LET seen   == IF t.word.text = <<"case">> THEN Flag(t, "case") ELSE t
      counts == /\ ~WordIsEmpty(t.word) /\ ~t.word.redirectOperand
                /\ ~LeavesCommandPositionOpen(t.word)
      again  == counts /\ ((t.commandWord /\ t.word.opaque) \/ ReparsesItsArguments(t.word))
  IN [seen EXCEPT !.word = EmptyWord,
                  !.commandWord = startsCommand \/ (@ /\ ~counts),
                  !.reparsing = ~startsCommand /\ (@ \/ again)]

-----------------------------------------------------------------------------
(* Reading.                                                                *)

(* One character of bare or double-quoted text.                            *)
StepChar(t, c) ==
  CASE c = "$"  -> Opaque(Expects(t, "dollar"))
    [] c = "bt" -> Flag(t, "backticks")
    [] c # "$" /\ c # "bt" /\ Context(t) = "doubleQuoted" ->
         IF c = "dq" THEN InWord(SetContext(t, "bare")) ELSE t
    [] OTHER ->
  CASE c = "#" /\ t.wordStart -> SetContext(t, "comment")
    [] c = "sq" -> [SetContext(t, "singleQuoted") EXCEPT !.word.opaque = TRUE]
    [] c = "dq" -> [SetContext(t, "doubleQuoted") EXCEPT !.word.opaque = TRUE]
    [] c = "<"  -> Expects(t, "less")
    [] c = ">"  -> Expects(t, "redirect")
    [] OTHER ->
  CASE Opener(t) = "brace" -> IF c = "rb" THEN InWord(CloseLevel(t)) ELSE t
    [] Opener(t) # "brace" /\ c = "(" -> OpenLevel(EndWord(t, TRUE), "group")
    [] Opener(t) # "brace" /\ c = ")" ->
         LET ended  == CloseLevel(EndWord(t, TRUE))
             starts == Opener(t) \in {"none", "group"}
         IN [ended EXCEPT !.wordStart = starts, !.commandWord = @ \/ starts]
    [] Opener(t) # "brace" /\ c = "sp" -> [EndWord(t, FALSE) EXCEPT !.wordStart = TRUE]
    [] Opener(t) # "brace" /\ c \in {"nl", "op"} -> [EndWord(t, TRUE) EXCEPT !.wordStart = TRUE]
    [] OTHER -> [t EXCEPT !.word = Push(IF t.wordStart THEN EmptyWord ELSE @, c),
                          !.wordStart = FALSE]

(* A character that may complete the token before it.                      *)
StepToken(t, token, c) ==
  CASE token = "dollar" /\ c = "("      -> [t EXCEPT !.token = "dollarParen"]
    [] token = "dollarParen" /\ c = "(" -> Flag(t, "arithmetic")
    [] token = "dollarParen" /\ c # "(" -> StepChar(OpenLevel(t, "substitution"), c)
    [] token = "dollar" /\ c = "lb" ->
         OpenLevel(IF Context(t) = "doubleQuoted" THEN Flag(t, "quotedBrace") ELSE t, "brace")
    [] token = "less" /\ c = "<" -> Flag(t, "hereDocument")
    [] token = "dollar" /\ c \in Letters \cup {"dash", "#", "$"} -> Opaque(t)
    [] token = "dollar" /\ c \notin Letters \cup {"dash", "#", "$", "(", "lb"} -> StepChar(Opaque(t), c)
    [] token \in {"less", "redirect"} /\ c \in {">", "sp"} -> [t EXCEPT !.token = "redirect"]
    [] token \in {"less", "redirect"} /\ c \notin {">", "sp"} /\ ~(token = "less" /\ c = "<") ->
         StepChar([t EXCEPT !.word = [EmptyWord EXCEPT !.redirectOperand = TRUE],
                            !.wordStart = FALSE], c)
    [] token = "none" -> StepChar(t, c)

StepBare(t, c) ==
  LET ready == [t EXCEPT !.escape = FALSE, !.token = "none"]
  IN CASE t.escape /\ c = "nl"  -> [t EXCEPT !.escape = FALSE]
       [] t.escape /\ c # "nl"  -> Opaque(ready)
       [] ~t.escape /\ c = "bs" -> [t EXCEPT !.escape = TRUE]
       [] OTHER                 -> StepToken(ready, t.token, c)

Step(t, c) ==
  CASE Context(t) = "singleQuoted" ->
         IF c = "sq" THEN InWord(SetContext(t, "bare")) ELSE t
    [] Context(t) = "comment" ->
         IF c = "nl"
         THEN [SetContext(t, "bare") EXCEPT !.wordStart = TRUE, !.commandWord = TRUE,
                                            !.reparsing = FALSE]
         ELSE t
    [] OTHER -> StepBare(t, c)

Advance(t, text)        == FoldLeft(Step, t, text)
AdvanceValue(t, quoted) == [Advance(t, quoted) EXCEPT !.word.opaque = TRUE]

(* ShellTracker::unsupported: why a value cannot stand here, or "none".    *)
Unsupported(t) ==
  CASE t.unsupported # "none" -> t.unsupported
    [] t.unsupported = "none" /\ Context(t) # "singleQuoted"
         /\ t.token \in {"dollar", "dollarParen"} -> "dollar"
    [] t.unsupported = "none" /\ Context(t) # "singleQuoted"
         /\ t.token \in {"less", "redirect"} -> "redirection"
    [] OTHER ->
  CASE Opener(t) = "brace" -> "openBrace"
    [] Opener(t) # "brace" /\ Context(t) = "comment" -> "none"
    [] OTHER ->
  CASE t.word.redirectOperand -> "redirection"
    [] ~t.word.redirectOperand /\ t.commandWord -> "commandWord"
    [] ~t.word.redirectOperand /\ ~t.commandWord /\ t.reparsing -> "reparsing"
    [] OTHER -> "none"

-----------------------------------------------------------------------------
(* Quoting.                                                                *)

(* str::replace of one character.                                          *)
Substituted(text, c, by) ==
  FlattenSeq([i \in DOMAIN text |-> IF text[i] = c THEN by ELSE <<text[i]>>])

EscapedQuote == <<"sq", "bs", "sq", "sq">>

QuoteInContext(t, value) ==
  CASE Context(t) = "bare"         -> <<"sq">> \o Substituted(value, "sq", EscapedQuote) \o <<"sq">>
    [] Context(t) = "singleQuoted" -> Substituted(value, "sq", EscapedQuote)
    [] Context(t) = "doubleQuoted" ->
         FlattenSeq([i \in DOMAIN value |->
           IF value[i] \in {"bs", "$", "bt", "dq"} THEN <<"bs", value[i]>> ELSE <<value[i]>>])
    [] Context(t) = "comment"      -> Substituted(value, "nl", <<"sp">>)

(* Mutation: the backslash before the placeholder is forgotten.            *)
QuoteUnescaped(t, value) == QuoteInContext(t, value)
Quote(t, value) ==
  (IF t.escape /\ Context(t) # "singleQuoted" THEN <<"nl">> ELSE <<>>) \o QuoteInContext(t, value)

(* The tracker at a placeholder with `before` before it.                   *)
Before(before) == Advance(NewTracker, before)

-----------------------------------------------------------------------------
(* The shell: what it reads from a quoted piece, its quotes removed.  `ok` *)
(* is lost at a character it would not take as it stands.                  *)

ShellChar(s, c) ==
  CASE s.context = "singleQuoted" ->
         IF c = "sq" THEN [s EXCEPT !.context = "bare"] ELSE [s EXCEPT !.word = Append(@, c)]
    [] s.context = "comment" -> [s EXCEPT !.ok = @ /\ c # "nl"]
    [] s.context \in {"bare", "doubleQuoted"} /\ s.escape ->
         [s EXCEPT !.escape = FALSE,
                   !.word = IF c = "nl" THEN @
                            ELSE IF s.context = "bare" \/ c \in {"bs", "$", "bt", "dq"} THEN Append(@, c)
                            ELSE @ \o <<"bs", c>>]
    [] s.context = "doubleQuoted" /\ ~s.escape ->
         CASE c = "dq" -> [s EXCEPT !.context = "bare"]
           [] c = "bs" -> [s EXCEPT !.escape = TRUE]
           [] OTHER    -> [s EXCEPT !.word = Append(@, c), !.ok = @ /\ c \notin {"$", "bt"}]
    [] s.context = "bare" /\ ~s.escape ->
         CASE c = "sq" -> [s EXCEPT !.context = "singleQuoted"]
           [] c = "dq" -> [s EXCEPT !.context = "doubleQuoted"]
           [] c = "bs" -> [s EXCEPT !.escape = TRUE]
           [] OTHER    -> [s EXCEPT !.word = Append(@, c), !.ok = @ /\ c \in Letters]

ShellReads(t, piece) ==
  FoldLeft(ShellChar, [context |-> Context(t), escape |-> t.escape, word |-> <<>>, ok |-> TRUE], piece)

-----------------------------------------------------------------------------
(* StepBare forgets a token that is still being read when an escaped       *)
(* character follows it, so the tracker no longer goes the way of a shell. *)
EscapeAfterToken(text) ==
  \E i \in 2 .. Len(text) : text[i] = "bs" /\ text[i - 1] \in {"$", "(", "<", ">"}

(* The tracker reads such a text as a shell does, unless an escape stands  *)
(* directly after a token: where it lets a value stand, the text before it *)
(* has left the shell in that context, that deep.                          *)
Follows(before, context, depth) ==
  LET t == Before(before)
  IN Unsupported(t) = "none" /\ ~EscapeAfterToken(before) =>
       Context(t) = context /\ Len(t.levels) = depth

(* A shell in the context the tracker has arrived at reads the value there *)
(* as it was, whatever characters are in it, and goes on in that context;  *)
(* in a comment the value ends nothing.  That a shell is in that context   *)
(* is not said here (Follows).                                             *)
ReadBack(before, values) ==
  LET t == Before(before)
      quoted(value) == Quote(t, value)
  IN Unsupported(t) = "none" =>
       \A value \in values :
         LET read  == ShellReads(t, quoted(value))
             after == AdvanceValue(t, quoted(value))
         IN /\ read.ok /\ ~read.escape /\ read.context = Context(t)
            /\ Context(t) # "comment" => read.word = value
            /\ ~after.escape /\ after.token = "none"
            /\ <<after.levels, after.commandWord, after.reparsing>> = <<t.levels, t.commandWord, t.reparsing>>
=============================================================================
