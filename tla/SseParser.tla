------------------------------ MODULE SseParser ------------------------------
(***************************************************************************)
(* The parser of server-sent events (crates/finesse).  The caller hands it *)
(* the bytes of a connection in chunks of any size (feed), takes complete  *)
(* frames (next_frame), and says when the stream has ended (end).          *)
(*                                                                         *)
(* A byte is a member of a small set.  The three bytes of the byte order   *)
(* mark, the line ends, the colon, the space, NUL and a digit are          *)
(* themselves; the name of a field is one byte here, because the parser    *)
(* compares whole names.  Decoding to UTF-8 is left out.                   *)
(*                                                                         *)
(* feed and end run to completion before anything else sees the parser;    *)
(* they are several steps here (`pc`) so that what is held in between can  *)
(* be bounded.                                                             *)
(***************************************************************************)
EXTENDS Integers, Sequences, FiniteSets, SequencesExt, FiniteSetsExt

CONSTANTS
  Streams,   \* the byte sequences a server may send
  MaxLine,   \* Limits::max_line_bytes
  MaxEvent,  \* Limits::max_event_bytes
  PieceLen,  \* FEED_PIECE_BYTES
  MaxDigits  \* digits of the largest u64

CR  == "cr"
LF  == "lf"
BOM == <<"ef", "bb", "bf">>
None == <<"none">>  \* an id that was never set; longer than any id of a stream

VARIABLES
  wire,       \* bytes the caller has not handed over yet
  pc,         \* idle, or inside feed (copy, lines) or end (ending)
  chunk,      \* the part of the chunk that feed has not copied yet
  (* LineSplitter *)
  buf, scanFrom, bomResolved,
  (* Dispatcher; the data lines of one event, not yet joined *)
  pendingEvent, pendingData, lastId,
  (* Parser *)
  queue, closed,
  overflow,   \* what feed or end returned: "none", "line" or "event"
  (* History, read by the properties only. *)
  fed,        \* every byte given to feed before the parser closed
  ended,      \* end was called before the parser closed
  popped      \* the frames the caller has taken

splitter   == <<buf, scanFrom, bomResolved>>
dispatcher == <<pendingEvent, pendingData, lastId>>
history    == <<fed, ended, popped>>
vars == <<wire, pc, chunk, splitter, dispatcher, queue, closed, overflow, history>>

-----------------------------------------------------------------------------
(* LineSplitter.                                                           *)

IsTerminator(b) == b \in {CR, LF}

(* resolve_bom: enough bytes to tell, other bytes, or no more to come.     *)
BomDecided == bomResolved \/ Len(buf) >= 3 \/ ~IsPrefix(buf, BOM) \/ pc = "ending"
AtBom      == ~bomResolved /\ IsPrefix(BOM, buf)

(* The buffer and the scan position next_line starts from.                 *)
Unread  == IF AtBom THEN SubSeq(buf, 4, Len(buf)) ELSE buf
Scanned == IF AtBom THEN 0 ELSE scanFrom

(* A CR at the end of the buffer may be half of a CRLF.  Mutation: it is   *)
(* taken for a line end at once.                                           *)
HoldsNoCr(i) == FALSE
HoldsCr(i)   == Unread[i] = CR /\ i = Len(Unread) /\ pc # "ending"

(* The first line end at or after the scan position, or 0.                 *)
LineEnd == SelectInSubSeq(Unread, Scanned + 1, Len(Unread), IsTerminator)

HasLine == LineEnd # 0 /\ ~HoldsCr(LineEnd)
Line    == SubSeq(Unread, 1, LineEnd - 1)
Rest    == LET i == LineEnd
               crlf == Unread[i] = CR /\ i < Len(Unread) /\ Unread[i + 1] = LF
           IN SubSeq(Unread, (IF crlf THEN i + 2 ELSE i + 1), Len(Unread))

(* Bytes of the current line without its terminator, as check_bound counts *)
(* them.                                                                   *)
Content == IF LineEnd # 0 THEN LineEnd - 1 ELSE Len(Unread)

LineTooLong == BomDecided /\ Content > MaxLine

(* take_line starts the scan again.  Mutation: it goes on where it was.    *)
ScanFromHere  == scanFrom
ScanFromStart == 0

-----------------------------------------------------------------------------
(* Fields and frames.                                                      *)

IsBlank(l)   == l = <<>>
IsComment(l) == l # <<>> /\ l[1] = ":"

(* classify_line: the name up to the first colon, then the value without   *)
(* one leading space.                                                      *)
Field(l) ==
  LET colon == SelectInSeq(l, LAMBDA b : b = ":")
      rest  == SubSeq(l, colon + 1, Len(l))
  IN IF colon = 0 THEN [name |-> l, value |-> <<>>]
     ELSE [name  |-> SubSeq(l, 1, colon - 1),
           value |-> IF rest # <<>> /\ rest[1] = "sp" THEN Tail(rest) ELSE rest]

Is(f, name)   == f.name = <<name>>
ValidId(v)    == ~Contains(v, "nul")
ValidRetry(v) == v # <<>> /\ Len(v) <= MaxDigits /\ \A i \in DOMAIN v : v[i] = "digit"

(* A data line counts with the line feed that joins it to the next.        *)
Counted(n, v) == n + Len(v) + 1
Size(data)    == FoldLeft(Counted, 0, data)

Message(event, data, id) == [kind |-> "message", event |-> event, data |-> data, id |-> id]
Retry(millis)            == [kind |-> "retry", millis |-> millis]

EventTooLong(f) == Is(f, "data") /\ Size(pendingData) + Len(f.value) + 1 > MaxEvent

-----------------------------------------------------------------------------
(* Actions.                                                                *)

(* feed, of the first n bytes that are left.                               *)
Feed(n) ==
  /\ pc = "idle" /\ ~closed
  /\ chunk' = SubSeq(wire, 1, n)
  /\ wire' = SubSeq(wire, n + 1, Len(wire))
  /\ fed' = fed \o chunk'
  /\ pc' = "copy"
  /\ UNCHANGED <<splitter, dispatcher, queue, closed, overflow, ended, popped>>

(* feed after end or after an overflow does nothing.                       *)
FeedClosed ==
  /\ pc = "idle" /\ closed /\ wire # <<>>
  /\ wire' = <<>>
  /\ UNCHANGED <<pc, chunk, splitter, dispatcher, queue, closed, overflow, history>>

(* The chunk is copied in pieces.  Mutation: whole.                        *)
WholeChunk == chunk
NextPiece  == SubSeq(chunk, 1, Min({PieceLen, Len(chunk)}))

CopyPiece ==
  /\ pc = "copy" /\ chunk # <<>>
  /\ buf' = buf \o NextPiece
  /\ chunk' = SubSeq(chunk, Len(NextPiece) + 1, Len(chunk))
  /\ pc' = "lines"
  /\ UNCHANGED <<wire, scanFrom, bomResolved, dispatcher, queue, closed, overflow, history>>

FeedReturns ==
  /\ pc = "copy" /\ chunk = <<>>
  /\ pc' = "idle"
  /\ UNCHANGED <<wire, chunk, splitter, dispatcher, queue, closed, overflow, history>>

Draining == pc \in {"lines", "ending"}

(* abandon: the parser drops what it holds and is closed.                  *)
Abandon(why) ==
  /\ overflow' = why /\ closed' = TRUE
  /\ pc' = "idle" /\ chunk' = <<>>
  /\ buf' = <<>> /\ scanFrom' = 0 /\ bomResolved' = FALSE
  /\ pendingEvent' = <<>> /\ pendingData' = <<>> /\ lastId' = None
  /\ UNCHANGED <<wire, queue, history>>

LineOverflow == Draining /\ LineTooLong /\ Abandon("line")

(* next_line returns a line; the splitter keeps the rest.                  *)
TakeLine ==
  /\ Draining /\ HasLine /\ ~LineTooLong
  /\ buf' = Rest /\ scanFrom' = ScanFromStart /\ bomResolved' = TRUE
  /\ UNCHANGED <<wire, pc, chunk, closed, overflow, history>>

Comment ==
  /\ TakeLine /\ IsComment(Line)
  /\ UNCHANGED <<dispatcher, queue>>

(* dispatch                                                                *)
Blank ==
  /\ TakeLine /\ IsBlank(Line)
  /\ queue' = IF pendingData = <<>> THEN queue
              ELSE Append(queue, Message(pendingEvent, pendingData, lastId))
  /\ pendingEvent' = <<>> /\ pendingData' = <<>>
  /\ UNCHANGED lastId

(* process_field                                                           *)
FieldLine ==
  LET f == Field(Line) IN
  /\ ~IsBlank(Line) /\ ~IsComment(Line)
  /\ ~EventTooLong(f)
  /\ TakeLine
  /\ pendingEvent' = IF Is(f, "event") THEN f.value ELSE pendingEvent
  /\ pendingData' = IF Is(f, "data") THEN Append(pendingData, f.value) ELSE pendingData
  /\ lastId' = IF Is(f, "id") /\ ValidId(f.value) THEN f.value ELSE lastId
  /\ queue' = IF Is(f, "retry") /\ ValidRetry(f.value)
              THEN Append(queue, Retry(f.value)) ELSE queue

EventOverflow ==
  /\ Draining /\ HasLine /\ ~LineTooLong
  /\ ~IsBlank(Line) /\ ~IsComment(Line)
  /\ EventTooLong(Field(Line))
  /\ Abandon("event")

(* next_line has no line: the scan stops at the end, or at a held CR.      *)
NeedMore ==
  /\ Draining /\ ~HasLine /\ ~LineTooLong
  /\ buf' = Unread
  /\ scanFrom' = Content
  /\ bomResolved' = BomDecided
  /\ closed' = (pc = "ending")
  /\ pc' = IF pc = "ending" THEN "idle" ELSE "copy"
  /\ UNCHANGED <<wire, chunk, dispatcher, queue, overflow, history>>

(* end                                                                     *)
End ==
  /\ pc = "idle" /\ ~closed
  /\ pc' = "ending" /\ ended' = TRUE
  /\ UNCHANGED <<wire, chunk, splitter, dispatcher, queue, closed, overflow, fed, popped>>

NextFrame ==
  /\ pc = "idle" /\ queue # <<>>
  /\ popped' = Append(popped, Head(queue))
  /\ queue' = Tail(queue)
  /\ UNCHANGED <<wire, pc, chunk, splitter, dispatcher, closed, overflow, fed, ended>>

Init ==
  /\ wire \in Streams
  /\ pc = "idle" /\ chunk = <<>>
  /\ buf = <<>> /\ scanFrom = 0 /\ bomResolved = FALSE
  /\ pendingEvent = <<>> /\ pendingData = <<>> /\ lastId = None
  /\ queue = <<>> /\ closed = FALSE /\ overflow = "none"
  /\ fed = <<>> /\ ended = FALSE /\ popped = <<>>

Next ==
  \/ \E n \in 1 .. Len(wire) : Feed(n)
  \/ FeedClosed \/ CopyPiece \/ FeedReturns
  \/ LineOverflow \/ Comment \/ Blank \/ FieldLine \/ EventOverflow \/ NeedMore
  \/ End \/ NextFrame

Spec == Init /\ [][Next]_vars

-----------------------------------------------------------------------------
(* The reference: the frames of a whole stream, by position.               *)

(* The content of a stream: no mark, and no CR that may yet be half of a   *)
(* CRLF.                                                                   *)
Stripped(s) == IF IsPrefix(BOM, s) THEN SubSeq(s, 4, Len(s)) ELSE s
Text(s, done) ==
  LET t == Stripped(s)
  IN IF ~done /\ t # <<>> /\ t[Len(t)] = CR THEN SubSeq(t, 1, Len(t) - 1) ELSE t

(* A line ends at a CR, and at an LF that does not follow one.             *)
EndsLine(t, i) == t[i] = CR \/ (t[i] = LF /\ ~(i > 1 /\ t[i - 1] = CR))
Ends(t)        == {i \in DOMAIN t : EndsLine(t, i)}

(* Where the next line begins after a line end.                            *)
Starts(t, i) == IF i > 0 /\ t[i] = CR /\ i < Len(t) /\ t[i + 1] = LF THEN i + 2 ELSE i + 1

(* The lines, each at its end, and last of all what no line end has closed.*)
Lines(t) ==
  [p \in Ends(t) \cup {Len(t) + 1} |->
     SubSeq(t, Starts(t, Max({0} \cup {q \in Ends(t) : q < p})), p - 1)]

Fields(l, name) == ~IsBlank(l) /\ ~IsComment(l) /\ Is(Field(l), name)

(* A set of positions, in order.                                           *)
InOrder(K) ==
  [i \in 1 .. Cardinality(K) |-> Min({n \in K : Cardinality({m \in K : m < n}) = i - 1})]

(* Of the event that is open before position p: where it began, its lines  *)
(* with a field, its data and its type; and the last id of the stream.     *)
EventStart(lines, p) == Max({0} \cup {q \in DOMAIN lines : q < p /\ IsBlank(lines[q])})
With(lines, name, p) ==
  LET start == EventStart(lines, p)
  IN {q \in DOMAIN lines : start < q /\ q < p /\ Fields(lines[q], name)}
Ids(lines, p) ==
  {q \in DOMAIN lines : q < p /\ Fields(lines[q], "id") /\ ValidId(Field(lines[q]).value)}

Data(lines, p) ==
  LET K == InOrder(With(lines, "data", p)) IN [i \in DOMAIN K |-> Field(lines[K[i]]).value]
LastOf(lines, K, none) == IF K = {} THEN none ELSE Field(lines[Max(K)]).value

(* The frames of the lines before position p.                              *)
MakesFrame(lines, p) ==
  \/ IsBlank(lines[p]) /\ Data(lines, p) # <<>>
  \/ Fields(lines[p], "retry") /\ ValidRetry(Field(lines[p]).value)
FrameAt(lines, p) ==
  IF IsBlank(lines[p])
  THEN Message(LastOf(lines, With(lines, "event", p), <<>>), Data(lines, p),
               LastOf(lines, Ids(lines, p), None))
  ELSE Retry(Field(lines[p]).value)
Frames(lines, p) ==
  LET K == InOrder({q \in DOMAIN lines : q < p /\ MakesFrame(lines, q)})
  IN [i \in DOMAIN K |-> FrameAt(lines, K[i])]

(* The lines that break a bound: one that is too long, where the           *)
(* unfinished one counts only when it cannot be a mark any more, and one   *)
(* that makes its event too long.                                          *)
TooLong(s, done, lines, last) ==
  {p \in DOMAIN lines : Len(lines[p]) > MaxLine /\ (p = last => done \/ ~IsPrefix(s, BOM))}
TooMuch(lines, last) == {p \in DOMAIN lines : p < last /\ Size(Data(lines, p + 1)) > MaxEvent}

Reference(s, done) ==
  LET t     == Text(s, done)
      last  == Len(t) + 1
      lines == Lines(t)
      long  == TooLong(s, done, lines, last)
      much  == TooMuch(lines, last)
      stop  == Min(long \cup much \cup {last})
  IN [frames   |-> Frames(lines, stop),
      overflow |-> IF stop \in long THEN "line" ELSE IF stop \in much THEN "event" ELSE "none"]

-----------------------------------------------------------------------------
(* Properties.                                                             *)

(* "What the parser holds is therefore at most a bound plus one piece"     *)
(* (lib.rs, feed), and a held CR, which is no content; for data, a bound.  *)
(* What was scanned lies within it, and holds no end of a line.            *)
HeldIsBounded ==
  /\ Len(buf) <= (IF MaxLine > 2 THEN MaxLine ELSE 2) + 1 + PieceLen
  /\ Size(pendingData) <= MaxEvent
  /\ scanFrom \in 0 .. Len(buf) /\ \A i \in 1 .. scanFrom : ~IsTerminator(buf[i])

(* However the bytes are cut into chunks, the caller sees the frames and   *)
(* the overflow that the whole stream has (WHATWG, "parsing an event       *)
(* stream"): a mark, a CRLF or a line on a cut makes no difference, an     *)
(* unfinished event is not dispatched, frames before an overflow are kept. *)
(* Nor does the parser ever hold more than it says.                        *)
ChunkingInvisible ==
  /\ pc = "idle" =>
       [frames |-> popped \o queue, overflow |-> overflow] = Reference(fed, ended)
  /\ HeldIsBounded
=============================================================================
