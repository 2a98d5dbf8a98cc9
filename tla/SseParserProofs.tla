---------------------------- MODULE SseParserProofs ----------------------------
(***************************************************************************)
(* What the parser makes of a stream (SseParser) does not depend on how    *)
(* the stream is cut into chunks: for any stream, limits and cuts, and in  *)
(* every state, the frames handed out, the frames that wait and the        *)
(* overflow are those of the stream as a whole.  The facts about positions *)
(* and lines come first, then what a line adds to what was gathered, then  *)
(* the invariant (ParserInv) and one lemma for each action.                *)
(***************************************************************************)
EXTENDS MCClientParts, FiniteSetTheorems, SequenceTheorems, TLAPS

(* The fold that computes the size of the data, and what is known of       *)
(* natural numbers beside it.                                              *)
Sizing == INSTANCE FoldFacts WITH Op <- Parser!Counted

LEMMA Least ==
  ASSUME NEW S, S \subseteq Nat, S # {}
  PROVE  \E least \in S : \A n \in S : least <= n
BY Sizing!Least

LEMMA NaturalSets ==
  ASSUME NEW S, 0 \in S, \A n \in Nat : n \in S => n + 1 \in S
  PROVE  Nat \subseteq S
BY Sizing!NaturalSets

(* The least and the greatest of a set of positions.                       *)
LEMMA LeastIs ==
  ASSUME NEW S, S \subseteq Nat, S # {}
  PROVE  Parser!Min(S) \in S /\ \A i \in S : Parser!Min(S) <= i
<1>1. \E least \in S : \A n \in S : least <= n
  BY Least
<1> QED
  BY <1>1 DEF Parser!Min

LEMMA GreatestIs ==
  ASSUME NEW bound \in Nat, NEW S \in SUBSET (0 .. bound), S # {}
  PROVE  Parser!Max(S) \in S /\ \A i \in S : i <= Parser!Max(S)
<1> DEFINE above == {n \in Nat : \A i \in S : i <= n}
<1>1. PICK top \in above : \A n \in above : top <= n
  <2>1. above \subseteq Nat /\ bound \in above
    OBVIOUS
  <2> HIDE DEF above
  <2> QED
    BY <2>1, Least
<1>2. top \in S
  <2> SUFFICES ASSUME top \notin S PROVE FALSE
    OBVIOUS
  <2>1. \A i \in S : i <= top - 1
    BY <1>1
  <2>2. PICK i \in S : i <= top - 1
    BY <2>1
  <2>3. top - 1 \in above
    BY <1>1, <2>1, <2>2
  <2> QED
    BY <1>1, <2>3
<1>3. \E x \in S : \A y \in S : x >= y
  BY <1>1, <1>2
<1> QED
  BY <1>3 DEF Parser!Max

LEMMA PositionsAreFinite ==
  ASSUME NEW bound \in Nat, NEW K \in SUBSET (0 .. bound)
  PROVE  IsFiniteSet(K) /\ Cardinality(K) \in Nat
<1>1. IsFiniteSet(0 .. bound)
  BY FS_Interval
<1>2. IsFiniteSet(K)
  BY <1>1, FS_Subset
<1> QED
  BY <1>2, FS_CardinalityType

(* The positions of a set, in order; one behind all of them comes last.    *)
Below(K, n) == {m \in K : m < n}
Placed(K, i) == {n \in K : Cardinality(Below(K, n)) = i - 1}
Nth(K, i) == Parser!Min(Placed(K, i))

LEMMA SameCardinality == ASSUME NEW S PROVE Parser!Cardinality(S) = Cardinality(S)
  BY DEF Parser!Cardinality, Parser!IsFiniteSet, Cardinality, IsFiniteSet

LEMMA InOrderIs ==
  ASSUME NEW K
  PROVE  Parser!InOrder(K) = [i \in 1 .. Cardinality(K) |-> Nth(K, i)]
<1>1. \A i : {n \in K : Parser!Cardinality({m \in K : m < n}) = i - 1} = Placed(K, i)
  BY SameCardinality DEF Placed, Below
<1> QED
  BY <1>1, SameCardinality DEF Parser!InOrder, Nth

LEMMA NthGrows ==
  ASSUME NEW bound \in Nat, NEW K \in SUBSET (0 .. bound), NEW p \in Nat, \A q \in K : q < p
  PROVE  /\ Cardinality(K \cup {p}) = Cardinality(K) + 1
         /\ \A i \in 1 .. Cardinality(K) : Nth(K \cup {p}, i) = Nth(K, i)
         /\ Nth(K \cup {p}, Cardinality(K) + 1) = p
<1> DEFINE L == K \cup {p}
<1>1. IsFiniteSet(K) /\ Cardinality(K) \in Nat
  BY PositionsAreFinite
<1>2. p \notin K
  OBVIOUS
<1>3. Cardinality(L) = Cardinality(K) + 1
  BY <1>1, <1>2, FS_AddElement
<1>4. \A n \in K : Below(L, n) = Below(K, n)
  BY DEF Below
<1>5. Below(L, p) = K
  <2>1. \A m \in L : m < p <=> m \in K
    OBVIOUS
  <2> QED
    BY <2>1, Zenon DEF Below
<1>6. ASSUME NEW n \in K PROVE Cardinality(Below(K, n)) < Cardinality(K)
  <2>1. Below(K, n) \subseteq K /\ n \in K /\ n \notin Below(K, n)
    BY DEF Below
  <2>2. Below(K, n) # K
    BY <2>1
  <2>3. /\ IsFiniteSet(Below(K, n)) /\ Cardinality(Below(K, n)) \in Nat
        /\ Cardinality(Below(K, n)) <= Cardinality(K)
        /\ Cardinality(Below(K, n)) = Cardinality(K) => Below(K, n) = K
    BY <1>1, <2>1, FS_Subset, FS_CardinalityType
  <2> QED
    BY <1>1, <2>2, <2>3
<1>7. ASSUME NEW i \in 1 .. Cardinality(K) PROVE Placed(L, i) = Placed(K, i)
  <2>1. Cardinality(Below(L, p)) # i - 1
    BY <1>1, <1>5
  <2> QED
    BY <1>4, <2>1 DEF Placed
<1>8. Placed(L, Cardinality(K) + 1) = {p}
  <2>1. (Cardinality(K) + 1) - 1 = Cardinality(K)
    BY <1>1
  <2>2. \A n \in K : Cardinality(Below(L, n)) # Cardinality(K)
    <3>1. ASSUME NEW n \in K PROVE Cardinality(Below(L, n)) # Cardinality(K)
      <4>1. Cardinality(Below(K, n)) \in Nat
        <5>1. Below(K, n) \in SUBSET (0 .. bound)
          BY DEF Below
        <5> QED
          BY <5>1, PositionsAreFinite
      <4> QED
        BY <1>1, <1>4, <1>6, <4>1
    <3> QED
      BY <3>1
  <2>3. Cardinality(Below(L, p)) = Cardinality(K)
    BY <1>5
  <2> QED
    BY <2>1, <2>2, <2>3 DEF Placed
<1>9. Parser!Min({p}) = p
  BY LeastIs
<1> QED
  BY <1>3, <1>7, <1>8, <1>9 DEF Nth

LEMMA NthIn ==
  ASSUME NEW bound \in Nat, NEW K \in SUBSET (0 .. bound), NEW i \in 1 .. Cardinality(K)
  PROVE  Nth(K, i) \in K
<1> DEFINE Fine(S) == \A j \in 1 .. Cardinality(S) : Nth(S, j) \in S
           sizes == {n \in Nat : \A S \in SUBSET (0 .. bound) : Cardinality(S) = n => Fine(S)}
<1>1. 0 \in sizes
  OBVIOUS
<1>2. ASSUME NEW n \in Nat, n \in sizes PROVE n + 1 \in sizes
  <2>1. ASSUME NEW S \in SUBSET (0 .. bound), Cardinality(S) = n + 1 PROVE Fine(S)
    <3>1. IsFiniteSet(S) /\ S # {}
      <4>1. IsFiniteSet(S) /\ (Cardinality(S) = 0 <=> S = {})
        BY PositionsAreFinite, FS_EmptySet
      <4> QED
        BY <2>1, <4>1
    <3> DEFINE p == Parser!Max(S)
               R == S \ {p}
    <3>2. p \in S /\ \A q \in S : q <= p
      BY <3>1, GreatestIs
    <3> HIDE DEF p
    <3>3. R \in SUBSET (0 .. bound) /\ p \in Nat /\ (\A q \in R : q < p) /\ R \cup {p} = S
      BY <3>2
    <3>4. Cardinality(R) \in Nat
      BY <3>3, PositionsAreFinite
    <3>5. /\ Cardinality(S) = Cardinality(R) + 1
          /\ \A j \in 1 .. Cardinality(R) : Nth(S, j) = Nth(R, j)
          /\ Nth(S, Cardinality(R) + 1) = p
      <4> HIDE DEF R
      <4> QED
        BY <3>3, NthGrows
    <3>6. Cardinality(R) = n
      BY <2>1, <3>4, <3>5
    <3>7. Fine(R)
      BY <1>2, <3>3, <3>6
    <3>8. ASSUME NEW j \in 1 .. Cardinality(S) PROVE Nth(S, j) \in S
      <4>1. CASE j = n + 1
        BY <3>2, <3>5, <3>6, <4>1
      <4>2. CASE j \in 1 .. n
        BY <3>5, <3>6, <3>7, <4>2
      <4> QED
        BY <2>1, <3>8, <4>1, <4>2
    <3> QED
      BY <3>8
  <2> QED
    BY <2>1
<1> HIDE DEF sizes
<1>3. Nat \subseteq sizes
  BY <1>1, <1>2, NaturalSets
<1>4. Cardinality(K) \in sizes
  BY <1>3, PositionsAreFinite
<1> QED
  BY <1>4 DEF sizes

(* Sequences given by their elements.                                      *)
LEMMA ElementsMake ==
  ASSUME NEW n \in Nat, NEW f, f = [i \in 1 .. n |-> f[i]], NEW e
  PROVE  /\ Len(f) = n /\ Len(Append(f, e)) = n + 1
         /\ Append(f, e) = [i \in 1 .. n + 1 |-> IF i = n + 1 THEN e ELSE f[i]]
         /\ f # <<>> <=> n # 0
<1> DEFINE S == {f[i] : i \in 1 .. n} \cup {e}
           g == [i \in 1 .. n + 1 |-> IF i = n + 1 THEN e ELSE f[i]]
<1>1. \A i \in 1 .. n : f[i] \in S
  OBVIOUS
<1>2. f \in [1 .. n -> S] /\ g \in [1 .. n + 1 -> S] /\ e \in S
  <2> HIDE DEF S
  <2>1. e \in S
    BY DEF S
  <2> QED
    BY <1>1, <2>1
<1> HIDE DEF S, g
<1>3. f \in Seq(S) /\ g \in Seq(S)
  BY <1>2, SeqDef
<1>4. Len(f) = n /\ Len(g) = n + 1
  BY <1>2, <1>3, LenProperties
<1>5. /\ Append(f, e) \in Seq(S) /\ Len(Append(f, e)) = n + 1
      /\ \A i \in 1 .. n : Append(f, e)[i] = f[i]
      /\ Append(f, e)[n + 1] = e
  BY <1>2, <1>3, <1>4, AppendProperties
<1>6. \A i \in 1 .. n + 1 : Append(f, e)[i] = g[i]
  BY <1>5 DEF g
<1>7. Append(f, e) = g
  BY <1>3, <1>4, <1>5, <1>6, SeqEqual
<1> QED
  BY <1>4, <1>5, <1>7, EmptySeq DEF g

-----------------------------------------------------------------------------
(* Lines at positions: what has been gathered of an event, and the frames, *)
(* at a position.                                                          *)
Lined(L, bound) == bound \in Nat /\ DOMAIN L \in SUBSET (1 .. bound)
Value(L, q) == Parser!Field(L[q]).value
Values(L, K) == [i \in 1 .. Cardinality(K) |-> Value(L, Nth(K, i))]
Event(L, x) == Parser!LastOf(L, Parser!With(L, "event", x), <<>>)
Id(L, x)    == Parser!LastOf(L, Parser!Ids(L, x), Parser!None)
Framed(L, x) == {q \in DOMAIN L : q < x /\ Parser!MakesFrame(L, q)}

LEMMA DataIs == ASSUME NEW L, NEW x PROVE Parser!Data(L, x) = Values(L, Parser!With(L, "data", x))
<1> DEFINE K == Parser!With(L, "data", x)
           s == Parser!InOrder(K)
<1>1. s = [i \in 1 .. Cardinality(K) |-> Nth(K, i)]
  BY InOrderIs
<1>2. Parser!Data(L, x) = [i \in DOMAIN s |-> Value(L, s[i])]
  BY DEF Parser!Data, Value
<1> HIDE DEF K, s
<1> QED
  BY <1>1, <1>2 DEF Values, K

LEMMA FramesAre ==
  ASSUME NEW L, NEW x
  PROVE  Parser!Frames(L, x)
           = [i \in 1 .. Cardinality(Framed(L, x)) |-> Parser!FrameAt(L, Nth(Framed(L, x), i))]
<1> DEFINE K == Framed(L, x)
           s == Parser!InOrder(K)
<1>1. s = [i \in 1 .. Cardinality(K) |-> Nth(K, i)]
  BY InOrderIs
<1>2. Parser!Frames(L, x) = [i \in DOMAIN s |-> Parser!FrameAt(L, s[i])]
  BY DEF Parser!Frames, Framed
<1> HIDE DEF K, s
<1> QED
  BY <1>1, <1>2 DEF K

LEMMA ValuesGrow ==
  ASSUME NEW bound \in Nat, NEW K \in SUBSET (0 .. bound), NEW p \in Nat, \A q \in K : q < p, NEW L
  PROVE  Values(L, K \cup {p}) = Append(Values(L, K), Value(L, p))
<1> DEFINE n == Cardinality(K)
           f == Values(L, K)
           e == Value(L, p)
           g == [i \in 1 .. n + 1 |-> IF i = n + 1 THEN e ELSE f[i]]
<1>1. /\ Cardinality(K \cup {p}) = n + 1
      /\ \A i \in 1 .. n : Nth(K \cup {p}, i) = Nth(K, i)
      /\ Nth(K \cup {p}, n + 1) = p
  BY NthGrows
<1>2. n \in Nat
  BY PositionsAreFinite
<1>3. f = [i \in 1 .. n |-> f[i]]
  BY DEF Values
<1>4. \A i \in 1 .. n : f[i] = Value(L, Nth(K, i))
  BY DEF Values
<1>5. Values(L, K \cup {p}) = g
  <2> HIDE DEF n, e, f
  <2>1. Values(L, K \cup {p}) = [i \in 1 .. n + 1 |-> Value(L, Nth(K \cup {p}, i))]
    BY <1>1 DEF Values
  <2>2. \A i \in 1 .. n + 1 : Value(L, Nth(K \cup {p}, i)) = IF i = n + 1 THEN e ELSE f[i]
    BY <1>1, <1>2, <1>4 DEF e
  <2> QED
    BY <2>1, <2>2
<1> HIDE DEF n, f, e
<1>6. Append(f, e) = g
  BY <1>2, <1>3, ElementsMake
<1> QED
  BY <1>5, <1>6 DEF f, e

(* Where no line ends, nothing is gathered.                                *)
LEMMA NothingBetween ==
  ASSUME NEW L, NEW x \in Nat, NEW y \in Nat, NEW bound, Lined(L, bound),
         x <= y, \A q \in DOMAIN L : q < x \/ y <= q
  PROVE  /\ Parser!EventStart(L, x) = Parser!EventStart(L, y)
         /\ \A name : Parser!With(L, name, x) = Parser!With(L, name, y)
         /\ Parser!Data(L, x) = Parser!Data(L, y)
         /\ Event(L, x) = Event(L, y) /\ Id(L, x) = Id(L, y)
         /\ Parser!Frames(L, x) = Parser!Frames(L, y)
<1>1. \A q \in DOMAIN L : q < x <=> q < y
  BY DEF Lined
<1>2. Parser!EventStart(L, x) = Parser!EventStart(L, y)
  <2>1. {q \in DOMAIN L : q < x /\ Parser!IsBlank(L[q])} = {q \in DOMAIN L : q < y /\ Parser!IsBlank(L[q])}
    BY <1>1
  <2> QED
    BY <2>1 DEF Parser!EventStart
<1>3. \A name : Parser!With(L, name, x) = Parser!With(L, name, y)
  BY <1>1, <1>2 DEF Parser!With
<1>4. Parser!Ids(L, x) = Parser!Ids(L, y)
  BY <1>1 DEF Parser!Ids
<1>5. Parser!Frames(L, x) = Parser!Frames(L, y)
  <2>1. Framed(L, x) = Framed(L, y)
    BY <1>1 DEF Framed
  <2> QED
    BY <2>1, FramesAre
<1> QED
  BY <1>2, <1>3, <1>4, <1>5, DataIs DEF Event, Id

(* What one line adds.                                                     *)
LEMMA StartIs ==
  ASSUME NEW L, NEW bound, Lined(L, bound), NEW x \in Nat
  PROVE  LET S == {0} \cup {q \in DOMAIN L : q < x /\ Parser!IsBlank(L[q])}
         IN /\ Parser!EventStart(L, x) \in S
            /\ \A q \in S : q <= Parser!EventStart(L, x)
<1> DEFINE S == {0} \cup {q \in DOMAIN L : q < x /\ Parser!IsBlank(L[q])}
<1>1. S \in SUBSET (0 .. bound) /\ S # {} /\ bound \in Nat
  BY DEF Lined
<1>2. Parser!EventStart(L, x) = Parser!Max(S)
  BY DEF Parser!EventStart
<1> HIDE DEF S
<1>3. Parser!Max(S) \in S /\ \A q \in S : q <= Parser!Max(S)
  BY <1>1, GreatestIs
<1> QED
  BY <1>2, <1>3 DEF S

LEMMA NoValues == ASSUME NEW L PROVE Values(L, {}) = <<>>
<1> DEFINE f == Values(L, {})
<1>1. f = [i \in 1 .. 0 |-> f[i]]
  BY FS_EmptySet DEF Values
<1> HIDE DEF f
<1>2. f = <<>>
  BY <1>1, ElementsMake
<1> QED
  BY <1>2 DEF f

LEMMA BlankEnds ==
  ASSUME NEW L, NEW bound, Lined(L, bound), NEW p \in DOMAIN L, Parser!IsBlank(L[p])
  PROVE  /\ Parser!Data(L, p + 1) = <<>> /\ Event(L, p + 1) = <<>> /\ Id(L, p + 1) = Id(L, p)
<1>1. p \in Nat /\ p # 0 /\ \A q \in DOMAIN L : q \in Nat /\ (q < p + 1 <=> q <= p)
  BY DEF Lined
<1>2. Parser!EventStart(L, p + 1) = p
  <2>1. /\ Parser!EventStart(L, p + 1) \in {0} \cup {q \in DOMAIN L : q < p + 1 /\ Parser!IsBlank(L[q])}
        /\ \A q \in {0} \cup {q \in DOMAIN L : q < p + 1 /\ Parser!IsBlank(L[q])} : q <= Parser!EventStart(L, p + 1)
    BY <1>1, StartIs
  <2> QED
    BY <1>1, <2>1
<1>3. \A name : Parser!With(L, name, p + 1) = {}
  BY <1>1, <1>2 DEF Parser!With
<1>4. Parser!Ids(L, p + 1) = Parser!Ids(L, p)
  <2>1. ~Parser!Fields(L[p], "id")
    BY DEF Parser!Fields
  <2> QED
    BY <1>1, <2>1 DEF Parser!Ids
<1> QED
  BY <1>3, <1>4, DataIs, NoValues DEF Event, Id, Parser!LastOf

LEMMA LastIs ==
  ASSUME NEW L, NEW bound \in Nat, NEW K \in SUBSET (0 .. bound), NEW p \in Nat, \A q \in K : q < p, NEW none
  PROVE  Parser!LastOf(L, K \cup {p}, none) = Value(L, p)
<1> DEFINE S == K \cup {p}
           top == IF p <= bound THEN bound ELSE p
<1>1. top \in Nat /\ S \in SUBSET (0 .. top) /\ S # {} /\ p \in S
  OBVIOUS
<1>2. \A q \in S : q <= p
  OBVIOUS
<1> HIDE DEF S, top
<1>3. PICK m : m = Parser!Max(S)
  OBVIOUS
<1>4. m \in S /\ p <= m
  BY <1>1, <1>3, GreatestIs
<1>5. m \in Nat /\ m <= p
  BY <1>1, <1>2, <1>4
<1>6. Parser!Max(S) = p
  BY <1>3, <1>4, <1>5
<1> QED
  BY <1>1, <1>6 DEF Parser!LastOf, Value, S

LEMMA LineAdds ==
  ASSUME NEW L, NEW bound, Lined(L, bound), NEW p \in DOMAIN L, ~Parser!IsBlank(L[p])
  PROVE  /\ Parser!Data(L, p + 1) = IF Parser!Fields(L[p], "data") THEN Append(Parser!Data(L, p), Value(L, p))
                                    ELSE Parser!Data(L, p)
         /\ Event(L, p + 1) = IF Parser!Fields(L[p], "event") THEN Value(L, p) ELSE Event(L, p)
         /\ Id(L, p + 1) = IF Parser!Fields(L[p], "id") /\ Parser!ValidId(Value(L, p)) THEN Value(L, p)
                           ELSE Id(L, p)
<1>1. /\ p \in Nat /\ bound \in Nat /\ \A q \in DOMAIN L : q \in 0 .. bound /\ (q < p + 1 <=> q < p \/ q = p)
  BY DEF Lined
<1>2. Parser!EventStart(L, p + 1) = Parser!EventStart(L, p)
  <2>1. {q \in DOMAIN L : q < p + 1 /\ Parser!IsBlank(L[q])} = {q \in DOMAIN L : q < p /\ Parser!IsBlank(L[q])}
    BY <1>1
  <2> QED
    BY <2>1 DEF Parser!EventStart
<1>3. Parser!EventStart(L, p) < p
  <2>1. Parser!EventStart(L, p) \in {0} \cup {q \in DOMAIN L : q < p /\ Parser!IsBlank(L[q])}
    BY <1>1, StartIs
  <2>2. p # 0
    BY DEF Lined
  <2> QED
    BY <1>1, <2>1, <2>2
<1>4. \A name : /\ Parser!With(L, name, p) \in SUBSET (0 .. bound)
                /\ \A q \in Parser!With(L, name, p) : q < p
  BY <1>1 DEF Parser!With
<1>5. ASSUME NEW name
      PROVE  Parser!With(L, name, p + 1) = IF Parser!Fields(L[p], name) THEN Parser!With(L, name, p) \cup {p}
                                           ELSE Parser!With(L, name, p)
  BY <1>1, <1>2, <1>3 DEF Parser!With
<1>6. Parser!Data(L, p + 1) = IF Parser!Fields(L[p], "data") THEN Append(Parser!Data(L, p), Value(L, p))
                              ELSE Parser!Data(L, p)
  BY <1>1, <1>4, <1>5, DataIs, ValuesGrow
<1>7. Event(L, p + 1) = IF Parser!Fields(L[p], "event") THEN Value(L, p) ELSE Event(L, p)
  <2> DEFINE K == Parser!With(L, "event", p)
  <2>1. K \in SUBSET (0 .. bound) /\ \A q \in K : q < p
    BY <1>4
  <2>2. Parser!With(L, "event", p + 1) = IF Parser!Fields(L[p], "event") THEN K \cup {p} ELSE K
    BY <1>5
  <2> HIDE DEF K
  <2>3. Parser!LastOf(L, K \cup {p}, <<>>) = Value(L, p)
    BY <1>1, <2>1, LastIs
  <2> QED
    BY <2>2, <2>3 DEF Event, K
<1>8. Id(L, p + 1) = IF Parser!Fields(L[p], "id") /\ Parser!ValidId(Value(L, p)) THEN Value(L, p)
                     ELSE Id(L, p)
  <2>1. Parser!Ids(L, p) \in SUBSET (0 .. bound) /\ \A q \in Parser!Ids(L, p) : q < p
    BY <1>1 DEF Parser!Ids
  <2>2. Parser!Ids(L, p + 1) = IF Parser!Fields(L[p], "id") /\ Parser!ValidId(Value(L, p))
                               THEN Parser!Ids(L, p) \cup {p} ELSE Parser!Ids(L, p)
    BY <1>1 DEF Parser!Ids, Value
  <2> DEFINE K == Parser!Ids(L, p)
  <2> HIDE DEF K
  <2>3. Parser!LastOf(L, K \cup {p}, Parser!None) = Value(L, p)
    BY <1>1, <2>1, LastIs DEF K
  <2> QED
    BY <2>2, <2>3 DEF Id, K
<1> QED
  BY <1>6, <1>7, <1>8

LEMMA FramesGrow ==
  ASSUME NEW L, NEW bound, Lined(L, bound), NEW p \in DOMAIN L
  PROVE  Parser!Frames(L, p + 1) = IF Parser!MakesFrame(L, p)
                                   THEN Append(Parser!Frames(L, p), Parser!FrameAt(L, p))
                                   ELSE Parser!Frames(L, p)
<1> DEFINE K == Framed(L, p)
           n == Cardinality(K)
           f == Parser!Frames(L, p)
           e == Parser!FrameAt(L, p)
           g == [i \in 1 .. n + 1 |-> IF i = n + 1 THEN e ELSE f[i]]
<1>1. /\ p \in Nat /\ bound \in Nat /\ \A q \in DOMAIN L : q \in 0 .. bound /\ (q < p + 1 <=> q < p \/ q = p)
  BY DEF Lined
<1>2. Framed(L, p + 1) = IF Parser!MakesFrame(L, p) THEN K \cup {p} ELSE K
  BY <1>1 DEF Framed
<1>3. K \in SUBSET (0 .. bound) /\ \A q \in K : q < p
  BY <1>1 DEF Framed
<1>4. f = [i \in 1 .. n |-> Parser!FrameAt(L, Nth(K, i))]
  BY FramesAre
<1>5. CASE ~Parser!MakesFrame(L, p)
  BY <1>2, <1>5, FramesAre
<1>6. CASE Parser!MakesFrame(L, p)
  <2>1. Parser!Frames(L, p + 1) = [i \in 1 .. Cardinality(K \cup {p}) |-> Parser!FrameAt(L, Nth(K \cup {p}, i))]
    BY <1>2, <1>6, FramesAre
  <2> HIDE DEF K, f, e
  <2>2. /\ Cardinality(K \cup {p}) = n + 1
        /\ \A i \in 1 .. n : Nth(K \cup {p}, i) = Nth(K, i)
        /\ Nth(K \cup {p}, n + 1) = p
    BY <1>1, <1>3, NthGrows
  <2>3. n \in Nat
    BY <1>1, <1>3, PositionsAreFinite
  <2> HIDE DEF n
  <2>4. \A i \in 1 .. n + 1 : Parser!FrameAt(L, Nth(K \cup {p}, i)) = IF i = n + 1 THEN e ELSE f[i]
    <3> SUFFICES ASSUME NEW i \in 1 .. n + 1
                 PROVE  Parser!FrameAt(L, Nth(K \cup {p}, i)) = IF i = n + 1 THEN e ELSE f[i]
      OBVIOUS
    <3>1. CASE i = n + 1
      BY <2>2, <3>1 DEF e
    <3>2. CASE i # n + 1
      <4>1. i \in 1 .. n
        BY <2>3, <3>2
      <4> QED
        BY <1>4, <2>2, <3>2, <4>1
    <3> QED
      BY <3>1, <3>2
  <2>5. Parser!Frames(L, p + 1) = g
    BY <2>1, <2>2, <2>4
  <2>6. f = [i \in 1 .. n |-> f[i]]
    BY <1>4
  <2>7. Append(f, e) = g
    BY <2>3, <2>6, ElementsMake
  <2> QED
    BY <1>6, <2>5, <2>7 DEF f, e
<1> QED
  BY <1>5, <1>6

(* What is gathered at a position depends on the lines before it only.     *)
Alike(L, M, x) ==
  \A q \in Nat : q < x => (q \in DOMAIN L <=> q \in DOMAIN M) /\ (q \in DOMAIN L => L[q] = M[q])

LEMMA SameGathered ==
  ASSUME NEW bound, NEW L, Lined(L, bound), NEW M, Lined(M, bound), NEW x \in Nat, Alike(L, M, x)
  PROVE  /\ Parser!Data(L, x) = Parser!Data(M, x) /\ Event(L, x) = Event(M, x) /\ Id(L, x) = Id(M, x)
<1>1. \A q : /\ q \in DOMAIN L /\ q < x <=> q \in DOMAIN M /\ q < x
             /\ q \in DOMAIN L /\ q < x => L[q] = M[q]
  BY DEF Lined, Alike
<1>2. Parser!EventStart(L, x) = Parser!EventStart(M, x)
  <2>1. {q \in DOMAIN L : q < x /\ Parser!IsBlank(L[q])} = {q \in DOMAIN M : q < x /\ Parser!IsBlank(M[q])}
    BY <1>1
  <2> QED
    BY <2>1 DEF Parser!EventStart
<1>3. \A name : Parser!With(L, name, x) = Parser!With(M, name, x)
  BY <1>1, <1>2 DEF Parser!With
<1>4. Parser!Ids(L, x) = Parser!Ids(M, x)
  BY <1>1 DEF Parser!Ids
<1>5. ASSUME NEW K \in SUBSET (0 .. bound), \A q \in K : q \in DOMAIN L /\ q < x
      PROVE  Values(L, K) = Values(M, K)
  <2>1. \A i \in 1 .. Cardinality(K) : Nth(K, i) \in K
    BY <1>5, NthIn DEF Lined
  <2>2. \A i \in 1 .. Cardinality(K) : L[Nth(K, i)] = M[Nth(K, i)]
    BY <1>1, <1>5, <2>1
  <2> QED
    BY <2>2 DEF Values, Value
<1>6. ASSUME NEW K \in SUBSET (0 .. bound), \A q \in K : q \in DOMAIN L /\ q < x, NEW none
      PROVE  Parser!LastOf(L, K, none) = Parser!LastOf(M, K, none)
  <2>1. CASE K = {}
    BY <2>1 DEF Parser!LastOf
  <2>2. CASE K # {}
    <3>1. Parser!Max(K) \in K
      BY <2>2, GreatestIs DEF Lined
    <3>2. L[Parser!Max(K)] = M[Parser!Max(K)]
      BY <1>1, <1>6, <3>1
    <3> QED
      BY <2>2, <3>2 DEF Parser!LastOf
  <2> QED
    BY <2>1, <2>2
<1>7. DOMAIN L \in SUBSET (0 .. bound)
  BY DEF Lined
<1>8. Parser!Data(L, x) = Parser!Data(M, x)
  <2> DEFINE K == Parser!With(L, "data", x)
  <2>1. K \in SUBSET (0 .. bound) /\ \A q \in K : q \in DOMAIN L /\ q < x
    BY <1>7 DEF Parser!With
  <2> HIDE DEF K
  <2>2. Values(L, K) = Values(M, K)
    BY <1>5, <2>1
  <2> QED
    BY <1>3, <2>2, DataIs DEF K
<1>9. Event(L, x) = Event(M, x)
  <2> DEFINE K == Parser!With(L, "event", x)
  <2>1. K \in SUBSET (0 .. bound) /\ \A q \in K : q \in DOMAIN L /\ q < x
    BY <1>7 DEF Parser!With
  <2> HIDE DEF K
  <2>2. Parser!LastOf(L, K, <<>>) = Parser!LastOf(M, K, <<>>)
    BY <1>6, <2>1
  <2> QED
    BY <1>3, <2>2 DEF K, Event
<1>10. Id(L, x) = Id(M, x)
  <2> DEFINE K == Parser!Ids(L, x)
  <2>1. K \in SUBSET (0 .. bound) /\ \A q \in K : q \in DOMAIN L /\ q < x
    BY <1>7 DEF Parser!Ids
  <2> HIDE DEF K
  <2>2. Parser!LastOf(L, K, Parser!None) = Parser!LastOf(M, K, Parser!None)
    BY <1>6, <2>1
  <2> QED
    BY <1>4, <2>2 DEF K, Id
<1> QED
  BY <1>8, <1>9, <1>10

LEMMA FrameAtIs ==
  ASSUME NEW L, NEW p
  PROVE  Parser!FrameAt(L, p) = IF Parser!IsBlank(L[p])
                                THEN Parser!Message(Event(L, p), Parser!Data(L, p), Id(L, p))
                                ELSE Parser!Retry(Value(L, p))
  BY DEF Parser!FrameAt, Event, Id, Value

LEMMA SameFrames ==
  ASSUME NEW bound, NEW L, Lined(L, bound), NEW M, Lined(M, bound), NEW x \in Nat, Alike(L, M, x)
  PROVE  Parser!Frames(L, x) = Parser!Frames(M, x)
<1> DEFINE K == Framed(L, x)
<1>1. \A q : /\ q \in DOMAIN L /\ q < x <=> q \in DOMAIN M /\ q < x
             /\ q \in DOMAIN L /\ q < x => L[q] = M[q]
  BY DEF Lined, Alike
<1>2. ASSUME NEW q \in DOMAIN L, q < x
      PROVE  /\ L[q] = M[q] /\ Parser!Data(L, q) = Parser!Data(M, q)
             /\ Event(L, q) = Event(M, q) /\ Id(L, q) = Id(M, q)
  <2>1. q \in Nat /\ Alike(L, M, q)
    BY <1>2 DEF Lined, Alike
  <2> QED
    BY <1>1, <1>2, <2>1, SameGathered
<1>3. ASSUME NEW q \in DOMAIN L, q < x
      PROVE  Parser!MakesFrame(L, q) <=> Parser!MakesFrame(M, q)
  BY <1>2, <1>3 DEF Parser!MakesFrame
<1>4. ASSUME NEW q \in DOMAIN L, q < x
      PROVE  Parser!FrameAt(L, q) = Parser!FrameAt(M, q)
  BY <1>2, <1>4, FrameAtIs DEF Value
<1>5. Framed(L, x) = Framed(M, x)
  BY <1>1, <1>3 DEF Framed
<1>6. \A i \in 1 .. Cardinality(K) : Nth(K, i) \in DOMAIN L /\ Nth(K, i) < x
  <2>1. K \in SUBSET (0 .. bound) /\ bound \in Nat /\ \A q \in K : q \in DOMAIN L /\ q < x
    BY DEF Lined, Framed
  <2> HIDE DEF K
  <2> QED
    BY <2>1, NthIn
<1>7. \A i \in 1 .. Cardinality(K) : Parser!FrameAt(L, Nth(K, i)) = Parser!FrameAt(M, Nth(K, i))
  BY <1>4, <1>6
<1>8. Parser!Frames(M, x) = [i \in 1 .. Cardinality(K) |-> Parser!FrameAt(M, Nth(K, i))]
  BY <1>5, FramesAre
<1>9. Parser!Frames(L, x) = [i \in 1 .. Cardinality(K) |-> Parser!FrameAt(L, Nth(K, i))]
  BY FramesAre
<1> HIDE DEF K
<1> QED
  BY <1>7, <1>8, <1>9

-----------------------------------------------------------------------------
(* The lines of a text, by position.                                       *)

LEMMA SameSubSeq ==
  ASSUME NEW S, NEW s, NEW t, NEW a \in Int, NEW b \in Int, NEW c \in Int, NEW d \in Int, b - a = d - c,
         \A i \in a .. b : s[i] \in S /\ t[i - a + c] = s[i]
  PROVE  SubSeq(s, a, b) = SubSeq(t, c, d)
<1> DEFINE u == SubSeq(s, a, b)
           v == SubSeq(t, c, d)
<1>1. /\ u \in Seq(S) /\ Len(u) = IF a <= b THEN b - a + 1 ELSE 0
      /\ \A i \in 1 .. b - a + 1 : u[i] = s[a + i - 1]
  BY SubSeqProperties
<1>2. \A i \in c .. d : t[i] \in S
  <2>1. ASSUME NEW i \in c .. d PROVE t[i] \in S
    <3>1. i - c + a \in a .. b /\ (i - c + a) - a + c = i
      OBVIOUS
    <3> QED
      BY <3>1
  <2> QED
    BY <2>1
<1>3. /\ v \in Seq(S) /\ Len(v) = IF c <= d THEN d - c + 1 ELSE 0
      /\ \A i \in 1 .. d - c + 1 : v[i] = t[c + i - 1]
  BY <1>2, SubSeqProperties
<1> HIDE DEF u, v
<1>4. Len(u) = Len(v)
  BY <1>1, <1>3
<1>5. ASSUME NEW i \in 1 .. Len(u) PROVE u[i] = v[i]
  <2>1. /\ a + i - 1 \in a .. b /\ (a + i - 1) - a + c = c + i - 1
        /\ i \in 1 .. b - a + 1 /\ i \in 1 .. d - c + 1
    BY <1>1
  <2>2. t[c + i - 1] = s[a + i - 1]
    BY <2>1
  <2> QED
    BY <1>1, <1>3, <2>1, <2>2
<1>6. u = v
  BY <1>1, <1>3, <1>4, <1>5, SeqEqual
<1> QED
  BY <1>6 DEF u, v

(* What has been read of a text ends between two lines.                    *)
Terminates(b) == b = Parser!CR \/ b = Parser!LF
Boundary(t, c) ==
  /\ c \in 0 .. Len(t)
  /\ c # 0 => Terminates(t[c]) /\ ~(t[c] = Parser!CR /\ c < Len(t) /\ t[c + 1] = Parser!LF)

LastEnd(t, p) == Parser!Max({0} \cup {q \in Parser!Ends(t) : q < p})

LEMMA MarksDiffer == Parser!CR # Parser!LF
  BY DEF Parser!CR, Parser!LF

LEMMA LinesAre ==
  ASSUME NEW S, NEW t \in Seq(S)
  PROVE  /\ Len(t) \in Nat /\ DOMAIN t = 1 .. Len(t) /\ Lined(Parser!Lines(t), Len(t) + 1)
         /\ Parser!Ends(t) = {p \in 1 .. Len(t) : Parser!EndsLine(t, p)}
         /\ DOMAIN Parser!Lines(t) = Parser!Ends(t) \cup {Len(t) + 1}
         /\ \A p \in DOMAIN Parser!Lines(t) :
              Parser!Lines(t)[p] = SubSeq(t, Parser!Starts(t, LastEnd(t, p)), p - 1)
<1>1. Len(t) \in Nat /\ DOMAIN t = 1 .. Len(t)
  BY LenProperties
<1>2. Parser!Ends(t) = {p \in 1 .. Len(t) : Parser!EndsLine(t, p)}
  BY <1>1 DEF Parser!Ends
<1>3. Parser!Lines(t) = [p \in Parser!Ends(t) \cup {Len(t) + 1} |-> SubSeq(t, Parser!Starts(t, LastEnd(t, p)), p - 1)]
  BY DEF Parser!Lines, LastEnd
<1>4. Parser!Ends(t) \cup {Len(t) + 1} \in SUBSET (1 .. Len(t) + 1)
  BY <1>1, <1>2
<1> DEFINE L == Parser!Lines(t)
           P == Parser!Ends(t) \cup {Len(t) + 1}
           f == [p \in P |-> SubSeq(t, Parser!Starts(t, LastEnd(t, p)), p - 1)]
<1>5. DOMAIN f = P /\ \A p \in P : f[p] = SubSeq(t, Parser!Starts(t, LastEnd(t, p)), p - 1)
  OBVIOUS
<1>6. L = f
  BY <1>3
<1> HIDE DEF L, f
<1>7. DOMAIN L = P /\ \A p \in P : L[p] = SubSeq(t, Parser!Starts(t, LastEnd(t, p)), p - 1)
  BY <1>5, <1>6
<1>8. Lined(L, Len(t) + 1)
  BY <1>1, <1>4, <1>7 DEF Lined
<1> QED
  BY <1>1, <1>2, <1>7, <1>8 DEF L

LEMMA LastEndIs ==
  ASSUME NEW S, NEW t \in Seq(S), NEW p \in Nat
  PROVE  /\ LastEnd(t, p) \in {0} \cup {q \in Parser!Ends(t) : q < p}
         /\ \A q \in Parser!Ends(t) : q < p => q <= LastEnd(t, p)
<1> DEFINE E == {0} \cup {q \in Parser!Ends(t) : q < p}
<1>1. Len(t) \in Nat /\ E \in SUBSET (0 .. Len(t)) /\ E # {}
  <2>1. Len(t) \in Nat /\ Parser!Ends(t) = {q \in 1 .. Len(t) : Parser!EndsLine(t, q)}
    BY LinesAre
  <2>2. Parser!Ends(t) \subseteq 0 .. Len(t)
    BY <2>1
  <2> QED
    BY <2>1, <2>2
<1> HIDE DEF E
<1>2. Parser!Max(E) \in E /\ \A q \in E : q <= Parser!Max(E)
  BY <1>1, GreatestIs
<1> QED
  BY <1>2 DEF E, LastEnd

(* The line that begins at a boundary.                                     *)
LEMMA LineBegins ==
  ASSUME NEW S, NEW t \in Seq(S), NEW c, Boundary(t, c), NEW p \in (c + 1) .. (Len(t) + 1),
         \A i \in (c + 1) .. (p - 1) : ~Terminates(t[i])
  PROVE  Parser!Starts(t, LastEnd(t, p)) = c + 1
<1>0. Len(t) \in Nat /\ c \in Nat /\ c <= Len(t) /\ p \in Nat /\ p > c /\ p <= Len(t) + 1
  BY LinesAre DEF Boundary
<1> DEFINE m == LastEnd(t, p)
<1>1. \A q \in Parser!Ends(t) : q \in 1 .. Len(t) /\ Terminates(t[q]) /\ (q < p => q <= c)
  <2>1. \A q \in Parser!Ends(t) : q \in 1 .. Len(t) /\ Terminates(t[q])
    <3>1. Parser!Ends(t) = {q \in 1 .. Len(t) : Parser!EndsLine(t, q)}
      BY LinesAre
    <3> QED
      BY <3>1 DEF Parser!EndsLine, Terminates
  <2>2. ASSUME NEW q \in Parser!Ends(t), q < p PROVE q <= c
    <3>1. q \in 1 .. Len(t) /\ Terminates(t[q])
      BY <2>1
    <3>2. q \notin (c + 1) .. (p - 1)
      BY <3>1
    <3> QED
      BY <1>0, <2>2, <3>1, <3>2
  <2> QED
    BY <2>1, <2>2
<1>2. /\ m \in {0} \cup {q \in Parser!Ends(t) : q < p}
      /\ \A q \in Parser!Ends(t) : q < p => q <= m
  BY <1>0, LastEndIs
<1> HIDE DEF m
<1>3. CASE c = 0
  <2>1. m = 0
    BY <1>0, <1>1, <1>2, <1>3
  <2> QED
    BY <1>3, <2>1 DEF Parser!Starts, m
<1>4. CASE c # 0 /\ c \in Parser!Ends(t)
  <2>1. m = c
    BY <1>0, <1>1, <1>2, <1>4
  <2> QED
    BY <1>0, <1>4, <2>1 DEF Parser!Starts, Boundary, m
<1>5. CASE c # 0 /\ c \notin Parser!Ends(t)
  <2>0. Parser!Ends(t) = {q \in 1 .. Len(t) : Parser!EndsLine(t, q)}
    BY LinesAre
  <2>1. c > 1 /\ t[c] = Parser!LF /\ t[c - 1] = Parser!CR
    <3>1. c \in 1 .. Len(t) /\ Terminates(t[c]) /\ ~Parser!EndsLine(t, c)
      BY <1>0, <1>5, <2>0 DEF Boundary
    <3> QED
      BY <1>0, <3>1 DEF Terminates, Parser!EndsLine
  <2>2. c - 1 \in Parser!Ends(t) /\ c - 1 < p
    BY <1>0, <2>0, <2>1 DEF Parser!EndsLine
  <2>3. m = c - 1
    BY <1>0, <1>1, <1>2, <1>5, <2>2
  <2>4. m > 0 /\ t[m] = Parser!CR /\ m < Len(t) /\ t[m + 1] = Parser!LF /\ m + 2 = c + 1
    BY <1>0, <2>1, <2>3
  <2> QED
    BY <2>4 DEF Parser!Starts, m
<1> QED
  BY <1>3, <1>4, <1>5

-----------------------------------------------------------------------------
(* A text and a boundary of it, in numbers.                                *)
LEMMA BoundaryIs ==
  ASSUME NEW S, NEW t \in Seq(S), NEW c, Boundary(t, c)
  PROVE  /\ Len(t) \in Nat /\ c \in Nat /\ c <= Len(t)
         /\ Parser!Ends(t) = {q \in 1 .. Len(t) : Parser!EndsLine(t, q)}
         /\ DOMAIN Parser!Lines(t) = Parser!Ends(t) \cup {Len(t) + 1}
<1>1. Len(t) \in Nat
  BY LenProperties
<1>2. c \in Nat /\ c <= Len(t)
  BY <1>1 DEF Boundary
<1>3. Parser!Ends(t) = {q \in 1 .. Len(t) : Parser!EndsLine(t, q)}
  BY LinesAre
<1>4. DOMAIN Parser!Lines(t) = Parser!Ends(t) \cup {Len(t) + 1}
  BY LinesAre
<1> QED
  BY <1>1, <1>2, <1>3, <1>4

(* Two texts that agree up to a boundary have the same lines there.        *)
LEMMA AgreeTo ==
  ASSUME NEW S, NEW t \in Seq(S), NEW u \in Seq(S), NEW c, Boundary(t, c), Boundary(u, c),
         \A i \in 1 .. c : u[i] = t[i]
  PROVE  Alike(Parser!Lines(t), Parser!Lines(u), c + 1)
<1>1. /\ Len(t) \in Nat /\ Len(u) \in Nat /\ c \in Nat /\ c <= Len(t) /\ c <= Len(u)
      /\ Parser!Ends(t) = {q \in 1 .. Len(t) : Parser!EndsLine(t, q)}
      /\ Parser!Ends(u) = {q \in 1 .. Len(u) : Parser!EndsLine(u, q)}
  BY BoundaryIs
<1>2. \A q \in 1 .. c : t[q] = u[q] /\ (q > 1 => t[q - 1] = u[q - 1])
  BY <1>1
<1>3. \A q : q \in Parser!Ends(t) /\ q <= c <=> q \in Parser!Ends(u) /\ q <= c
  <2>1. \A q \in 1 .. c : Parser!EndsLine(t, q) <=> Parser!EndsLine(u, q)
    BY <1>2 DEF Parser!EndsLine
  <2> QED
    BY <1>1, <2>1
<1>4. \A q \in Nat : q < c + 1 => /\ q \in DOMAIN Parser!Lines(t) <=> q \in Parser!Ends(t)
                                  /\ q \in DOMAIN Parser!Lines(u) <=> q \in Parser!Ends(u)
  <2>1. /\ DOMAIN Parser!Lines(t) = Parser!Ends(t) \cup {Len(t) + 1}
        /\ DOMAIN Parser!Lines(u) = Parser!Ends(u) \cup {Len(u) + 1}
    BY LinesAre
  <2> QED
    BY <1>1, <2>1
<1>5. ASSUME NEW q \in Parser!Ends(t), q <= c PROVE Parser!Lines(t)[q] = Parser!Lines(u)[q]
  <2>1. q \in 1 .. c
    BY <1>1, <1>5
  <2>2. LastEnd(t, q) = LastEnd(u, q)
    <3>1. {r \in Parser!Ends(t) : r < q} = {r \in Parser!Ends(u) : r < q}
      <4>1. \A r : r \in Parser!Ends(t) /\ r < q <=> r \in Parser!Ends(u) /\ r < q
        BY <1>1, <1>3, <2>1
      <4> QED
        BY <4>1
    <3> QED
      BY <3>1 DEF LastEnd
  <2> DEFINE m == LastEnd(t, q)
  <2>3. m \in 0 .. c /\ m < q
    <3>1. m \in {0} \cup {r \in Parser!Ends(t) : r < q}
      BY <2>1, LastEndIs
    <3> QED
      BY <1>1, <2>1, <3>1
  <2> HIDE DEF m
  <2>4. Parser!Starts(t, m) = Parser!Starts(u, m) /\ Parser!Starts(t, m) \in {m + 1, m + 2}
    <3>1. m > 0 => m \in 1 .. c /\ m + 1 \in 1 .. c /\ m < Len(t) /\ m < Len(u)
      BY <1>1, <2>1, <2>3
    <3>2. m > 0 => t[m] = u[m] /\ t[m + 1] = u[m + 1]
      BY <1>2, <3>1
    <3> QED
      BY <3>1, <3>2 DEF Parser!Starts
  <2> DEFINE a == Parser!Starts(t, m)
  <2>5. a \in Int /\ a >= 1
    BY <2>3, <2>4
  <2> HIDE DEF a
  <2>6. \A i \in a .. q - 1 : i \in 1 .. c
    BY <1>1, <2>1, <2>5
  <2>7. \A i \in a .. q - 1 : t[i] \in S /\ u[i] = t[i]
    <3>1. \A i \in 1 .. c : t[i] \in S
      BY <1>1, ElementOfSeq
    <3> QED
      BY <1>2, <2>6, <3>1
  <2>8. SubSeq(t, a, q - 1) = SubSeq(u, a, q - 1)
    <3>1. \A i \in a .. q - 1 : t[i] \in S /\ u[i - a + a] = t[i]
      BY <2>5, <2>7
    <3> QED
      BY <2>1, <2>5, <3>1, SameSubSeq
  <2>9. Parser!Lines(t)[q] = SubSeq(t, a, q - 1)
    BY <1>5, LinesAre DEF a, m
  <2>10. Parser!Lines(u)[q] = SubSeq(u, a, q - 1)
    <3>1. q \in DOMAIN Parser!Lines(u)
      BY <1>3, <1>5, LinesAre
    <3>2. Parser!Lines(u)[q] = SubSeq(u, Parser!Starts(u, LastEnd(u, q)), q - 1)
      BY <3>1, LinesAre
    <3> QED
      BY <2>2, <2>4, <3>2 DEF a, m
  <2> QED
    BY <2>8, <2>9, <2>10
<1>6. \A q \in Nat : q < c + 1 <=> q <= c
  BY <1>1
<1> QED
  BY <1>3, <1>4, <1>5, <1>6 DEF Alike

(* The line that ends at the next terminator, and what follows it.         *)
Onward(t, p) == Parser!Starts(t, p) - 1

LEMMA NextLine ==
  ASSUME NEW S, NEW t \in Seq(S), NEW c, Boundary(t, c), NEW p \in (c + 1) .. Len(t),
         Terminates(t[p]), \A i \in (c + 1) .. (p - 1) : ~Terminates(t[i])
  PROVE  /\ p \in DOMAIN Parser!Lines(t) /\ p \in Parser!Ends(t)
         /\ Parser!Lines(t)[p] = SubSeq(t, c + 1, p - 1)
         /\ Onward(t, p) = IF t[p] = Parser!CR /\ p < Len(t) /\ t[p + 1] = Parser!LF THEN p + 1 ELSE p
         /\ Boundary(t, Onward(t, p))
         /\ \A q \in DOMAIN Parser!Lines(t) : q \in Nat /\ (q < c + 1 \/ q = p \/ Onward(t, p) + 1 <= q)
<1>1. /\ Len(t) \in Nat /\ c \in Nat /\ c <= Len(t) /\ p \in Nat /\ p > c /\ p <= Len(t)
      /\ Parser!Ends(t) = {q \in 1 .. Len(t) : Parser!EndsLine(t, q)}
      /\ DOMAIN Parser!Lines(t) = Parser!Ends(t) \cup {Len(t) + 1}
  <2>1. /\ Len(t) \in Nat /\ c \in Nat /\ c <= Len(t)
        /\ Parser!Ends(t) = {q \in 1 .. Len(t) : Parser!EndsLine(t, q)}
        /\ DOMAIN Parser!Lines(t) = Parser!Ends(t) \cup {Len(t) + 1}
    BY BoundaryIs
  <2>2. p \in Nat /\ p > c /\ p <= Len(t)
    BY <2>1
  <2> QED
    BY <2>1, <2>2
<1>2. p \in Parser!Ends(t)
  <2>1. CASE t[p] = Parser!CR
    BY <1>1, <2>1 DEF Parser!EndsLine
  <2>2. CASE t[p] = Parser!LF
    <3>1. ~(p > 1 /\ t[p - 1] = Parser!CR)
      <4>1. CASE p - 1 = c
        <5>1. c # 0 => ~(t[c] = Parser!CR /\ c < Len(t) /\ t[c + 1] = Parser!LF)
          BY DEF Boundary
        <5>2. c + 1 = p /\ c < Len(t)
          BY <1>1, <4>1
        <5>3. p > 1 => c # 0
          BY <1>1, <4>1
        <5> QED
          BY <2>2, <4>1, <5>1, <5>2, <5>3
      <4>2. CASE p - 1 # c
        <5>1. p - 1 \in (c + 1) .. (p - 1)
          BY <1>1, <4>2
        <5> QED
          BY <5>1 DEF Terminates
      <4> QED
        BY <4>1, <4>2
    <3> QED
      BY <1>1, <2>2, <3>1 DEF Parser!EndsLine
  <2> QED
    BY <2>1, <2>2 DEF Terminates
<1>3. Parser!Lines(t)[p] = SubSeq(t, c + 1, p - 1)
  <2>1. Parser!Starts(t, LastEnd(t, p)) = c + 1
    BY <1>1, LineBegins
  <2>2. Parser!Lines(t)[p] = SubSeq(t, Parser!Starts(t, LastEnd(t, p)), p - 1)
    BY <1>1, <1>2, LinesAre
  <2> QED
    BY <2>1, <2>2
<1>4. Onward(t, p) = IF t[p] = Parser!CR /\ p < Len(t) /\ t[p + 1] = Parser!LF THEN p + 1 ELSE p
  BY <1>1 DEF Onward, Parser!Starts
<1>5. Boundary(t, Onward(t, p))
  <2>1. CASE t[p] = Parser!CR /\ p < Len(t) /\ t[p + 1] = Parser!LF
    BY <1>1, <1>4, <2>1, MarksDiffer DEF Boundary, Terminates
  <2>2. CASE ~(t[p] = Parser!CR /\ p < Len(t) /\ t[p + 1] = Parser!LF)
    BY <1>1, <1>4, <2>2 DEF Boundary
  <2> QED
    BY <2>1, <2>2
<1>6. ASSUME NEW q \in DOMAIN Parser!Lines(t) PROVE q \in Nat /\ (q < c + 1 \/ q = p \/ Onward(t, p) + 1 <= q)
  <2>1. CASE q = Len(t) + 1
    <3>1. Onward(t, p) <= Len(t) /\ Onward(t, p) \in Nat
      BY <1>1, <1>4
    <3> QED
      BY <1>1, <2>1, <3>1
  <2>2. CASE q \in Parser!Ends(t)
    <3>1. q \in 1 .. Len(t) /\ Parser!EndsLine(t, q)
      BY <1>1, <2>2
    <3>2. ~(q \in (c + 1) .. (p - 1))
      BY <3>1 DEF Parser!EndsLine, Terminates
    <3>3. Onward(t, p) = p + 1 => q # p + 1
      <4> SUFFICES ASSUME Onward(t, p) = p + 1, q = p + 1 PROVE FALSE
        OBVIOUS
      <4>1. t[p] = Parser!CR /\ t[p + 1] = Parser!LF /\ p + 1 > 1 /\ (p + 1) - 1 = p
        BY <1>1, <1>4
      <4> QED
        BY <3>1, <4>1, MarksDiffer DEF Parser!EndsLine
    <3> QED
      BY <1>1, <1>4, <3>1, <3>2, <3>3
  <2> QED
    BY <1>1, <2>1, <2>2
<1> QED
  BY <1>1, <1>2, <1>3, <1>4, <1>5, <1>6

(* The line that no terminator has closed.                                 *)
LEMMA OpenLine ==
  ASSUME NEW S, NEW t \in Seq(S), NEW c, Boundary(t, c), \A i \in (c + 1) .. Len(t) : ~Terminates(t[i])
  PROVE  /\ Len(t) + 1 \in DOMAIN Parser!Lines(t)
         /\ Parser!Lines(t)[Len(t) + 1] = SubSeq(t, c + 1, Len(t))
         /\ \A q \in DOMAIN Parser!Lines(t) : q \in Nat /\ (q < c + 1 \/ q = Len(t) + 1)
<1>1. /\ Len(t) \in Nat /\ c \in Nat /\ c <= Len(t)
      /\ Parser!Ends(t) = {q \in 1 .. Len(t) : Parser!EndsLine(t, q)}
      /\ DOMAIN Parser!Lines(t) = Parser!Ends(t) \cup {Len(t) + 1}
  BY BoundaryIs
<1> DEFINE p == Len(t) + 1
<1>2. p \in (c + 1) .. (Len(t) + 1) /\ p - 1 = Len(t)
  BY <1>1
<1>3. Parser!Starts(t, LastEnd(t, p)) = c + 1
  BY <1>2, LineBegins
<1>4. Parser!Lines(t)[p] = SubSeq(t, Parser!Starts(t, LastEnd(t, p)), p - 1)
  BY <1>1, LinesAre
<1>5. ASSUME NEW q \in DOMAIN Parser!Lines(t) PROVE q \in Nat /\ (q < c + 1 \/ q = Len(t) + 1)
  <2>1. CASE q \in Parser!Ends(t)
    <3>1. q \in 1 .. Len(t) /\ Parser!EndsLine(t, q)
      BY <1>1, <2>1
    <3>2. ~(q \in (c + 1) .. Len(t))
      BY <3>1 DEF Parser!EndsLine, Terminates
    <3> QED
      BY <1>1, <3>1, <3>2
  <2> QED
    BY <1>1, <2>1
<1> QED
  BY <1>1, <1>2, <1>3, <1>4, <1>5

-----------------------------------------------------------------------------
(* The size of the data of an event, line after line.                      *)

LEMMA SizeSteps ==
  ASSUME NEW data, NEW n \in Nat
  PROVE  \E at : Sizing!Trace(at, 0, data, n) /\ Sizing!Fold(0, data, n) = at[n]
  BY Sizing!FoldTrace

LEMMA SizeTrace ==
  ASSUME NEW n \in Nat, NEW data, DOMAIN data = 1 .. n
  PROVE  \E at : Sizing!Trace(at, 0, data, n) /\ Parser!Size(data) = at[n]
<1> DEFINE size == Parser!Size(data)
<1>1. size = Sizing!Fold(0, data, n)
  BY DEF Parser!Size, Sizing!Fold, Sizing!Solution, Sizing!Solves, Sizing!Folded, Sizing!Max,
     Parser!FoldLeft, Parser!MapThenFoldSet, Parser!Max
<1> HIDE DEF size
<1>2. \E at : Sizing!Trace(at, 0, data, n) /\ size = at[n]
  BY <1>1, SizeSteps, Zenon
<1> QED
  BY <1>2 DEF size

LEMMA SizeGrows ==
  /\ Parser!Size(<<>>) = 0
  /\ \A n \in Nat : \A data : \A v :
       data = [i \in 1 .. n |-> data[i]] => Parser!Size(Append(data, v)) = Parser!Size(data) + Len(v) + 1
<1>1. Parser!Size(<<>>) = 0
  <2>0. \A n \in Nat : DOMAIN <<>> = 1 .. n => \E at : Sizing!Trace(at, 0, <<>>, n) /\ Parser!Size(<<>>) = at[n]
    BY SizeTrace
  <2>1. DOMAIN <<>> = 1 .. 0 /\ 0 \in Nat
    OBVIOUS
  <2>2. PICK at : Sizing!Trace(at, 0, <<>>, 0) /\ Parser!Size(<<>>) = at[0]
    BY <2>0, <2>1
  <2> QED
    BY <2>2 DEF Sizing!Trace
<1>2. ASSUME NEW n \in Nat, NEW data, NEW v, data = [i \in 1 .. n |-> data[i]]
      PROVE  Parser!Size(Append(data, v)) = Parser!Size(data) + Len(v) + 1
  <2> DEFINE more == Append(data, v)
             g == [i \in 1 .. n + 1 |-> IF i = n + 1 THEN v ELSE data[i]]
  <2>1. more = g
    BY <1>2, ElementsMake
  <2>2. DOMAIN data = 1 .. n
    BY <1>2
  <2>3. DOMAIN g = 1 .. n + 1 /\ g[n + 1] = v /\ \A k \in 1 .. n : g[k] = data[k]
    OBVIOUS
  <2> HIDE DEF more, g
  <2>4. DOMAIN more = 1 .. n + 1 /\ more[n + 1] = v /\ \A k \in 1 .. n : more[k] = data[k]
    BY <2>1, <2>3
  <2>5. PICK at : Sizing!Trace(at, 0, data, n) /\ Parser!Size(data) = at[n]
    BY <2>2, SizeTrace
  <2>6. PICK on : Sizing!Trace(on, 0, more, n + 1) /\ Parser!Size(more) = on[n + 1]
    <3>0. \A m \in Nat : DOMAIN more = 1 .. m => \E on : Sizing!Trace(on, 0, more, m) /\ Parser!Size(more) = on[m]
      BY SizeTrace
    <3>1. n + 1 \in Nat
      OBVIOUS
    <3> QED
      BY <2>4, <3>0, <3>1
  <2> DEFINE same == {k \in Nat : k <= n => on[k] = at[k]}
  <2>7. 0 \in same
    BY <2>5, <2>6 DEF Sizing!Trace
  <2>8. ASSUME NEW k \in Nat, k \in same PROVE k + 1 \in same
    <3> SUFFICES ASSUME k + 1 <= n PROVE on[k + 1] = at[k + 1]
      OBVIOUS
    <3>1. k + 1 \in 1 .. n /\ k + 1 \in 1 .. n + 1 /\ (k + 1) - 1 = k /\ on[k] = at[k]
      BY <2>8
    <3>2. at[k + 1] = Parser!Counted(at[k], data[k + 1])
      BY <2>5, <3>1 DEF Sizing!Trace
    <3>3. on[k + 1] = Parser!Counted(on[k], more[k + 1])
      BY <2>6, <3>1 DEF Sizing!Trace
    <3>4. more[k + 1] = data[k + 1]
      BY <2>4, <3>1
    <3> QED
      BY <3>1, <3>2, <3>3, <3>4
  <2>9. Nat \subseteq same
    <3> HIDE DEF same
    <3> QED
      BY <2>7, <2>8, NaturalSets
  <2>10. on[n] = at[n]
    BY <2>9
  <2>11. on[n + 1] = Parser!Counted(on[n], more[n + 1])
    <3>1. n + 1 \in 1 .. n + 1 /\ (n + 1) - 1 = n
      OBVIOUS
    <3> QED
      BY <2>6, <3>1 DEF Sizing!Trace
  <2>12. Parser!Size(more) = Parser!Counted(Parser!Size(data), v)
    BY <2>4, <2>5, <2>6, <2>10, <2>11
  <2> QED
    BY <2>12 DEF Parser!Counted, more
<1> QED
  BY <1>1, <1>2

-----------------------------------------------------------------------------
(* What has been read of a text: what is gathered of the lines before a    *)
(* boundary, none of which breaks a bound.                                 *)
Within(t, c) ==
  \A p \in Parser!Ends(t) :
    p <= c => /\ ~(Len(Parser!Lines(t)[p]) > MaxLine)
              /\ ~(Parser!Size(Parser!Data(Parser!Lines(t), p + 1)) > MaxEvent)
Collected(t, c, d, e, i, f) ==
  /\ d = Parser!Data(Parser!Lines(t), c + 1) /\ e = Event(Parser!Lines(t), c + 1)
  /\ i = Id(Parser!Lines(t), c + 1) /\ f = Parser!Frames(Parser!Lines(t), c + 1)

LEMMA LinedMore ==
  ASSUME NEW L, NEW a, NEW b \in Nat, Lined(L, a), a <= b
  PROVE  Lined(L, b)
  BY DEF Lined

LEMMA SameView ==
  ASSUME NEW S, NEW t \in Seq(S), NEW u \in Seq(S), NEW c, Boundary(t, c), Boundary(u, c),
         \A i \in 1 .. c : u[i] = t[i]
  PROVE  /\ Within(t, c) => Within(u, c)
         /\ \A d, e, i, f : Collected(t, c, d, e, i, f) => Collected(u, c, d, e, i, f)
<1> DEFINE L == Parser!Lines(t)
           M == Parser!Lines(u)
           b == IF Len(t) <= Len(u) THEN Len(u) + 1 ELSE Len(t) + 1
<1>1. /\ Len(t) \in Nat /\ Len(u) \in Nat /\ c \in Nat /\ c <= Len(t) /\ c <= Len(u)
      /\ DOMAIN L = Parser!Ends(t) \cup {Len(t) + 1} /\ DOMAIN M = Parser!Ends(u) \cup {Len(u) + 1}
      /\ Parser!Ends(t) \subseteq Nat /\ Parser!Ends(u) \subseteq Nat
  <2>1. /\ Len(t) \in Nat /\ c \in Nat /\ c <= Len(t) /\ DOMAIN L = Parser!Ends(t) \cup {Len(t) + 1}
        /\ Parser!Ends(t) = {q \in 1 .. Len(t) : Parser!EndsLine(t, q)}
    BY BoundaryIs
  <2>2. /\ Len(u) \in Nat /\ c <= Len(u) /\ DOMAIN M = Parser!Ends(u) \cup {Len(u) + 1}
        /\ Parser!Ends(u) = {q \in 1 .. Len(u) : Parser!EndsLine(u, q)}
    BY BoundaryIs
  <2> QED
    BY <2>1, <2>2
<1>2. Lined(L, Len(t) + 1) /\ Lined(M, Len(u) + 1)
  BY LinesAre
<1>3. Alike(L, M, c + 1)
  BY AgreeTo
<1> HIDE DEF L, M
<1>4. b \in Nat /\ Len(t) + 1 <= b /\ Len(u) + 1 <= b
  BY <1>1
<1> HIDE DEF b
<1>5. Lined(L, b) /\ Lined(M, b)
  BY <1>2, <1>4, LinedMore
<1>6. /\ Parser!Data(L, c + 1) = Parser!Data(M, c + 1) /\ Event(L, c + 1) = Event(M, c + 1)
      /\ Id(L, c + 1) = Id(M, c + 1) /\ Parser!Frames(L, c + 1) = Parser!Frames(M, c + 1)
  <2>1. c + 1 \in Nat
    BY <1>1
  <2> QED
    BY <1>3, <1>5, <2>1, SameGathered, SameFrames
<1>7. ASSUME Within(t, c), NEW p \in Parser!Ends(u), p <= c
      PROVE  ~(Len(M[p]) > MaxLine) /\ ~(Parser!Size(Parser!Data(M, p + 1)) > MaxEvent)
  <2>1. p \in Nat /\ p < c + 1 /\ p \in DOMAIN M /\ p # Len(t) + 1
    BY <1>1, <1>7
  <2>2. p \in DOMAIN L /\ L[p] = M[p]
    BY <1>3, <2>1 DEF Alike
  <2>3. p \in Parser!Ends(t)
    BY <1>1, <2>1, <2>2
  <2>4. ~(Len(L[p]) > MaxLine) /\ ~(Parser!Size(Parser!Data(L, p + 1)) > MaxEvent)
    BY <1>7, <2>3 DEF Within, L
  <2>5. p + 1 \in Nat /\ Alike(L, M, p + 1)
    BY <1>1, <1>3, <1>7, <2>1 DEF Alike
  <2>6. Parser!Data(L, p + 1) = Parser!Data(M, p + 1)
    BY <1>5, <2>5, SameGathered
  <2> QED
    BY <2>2, <2>4, <2>6
<1>8. Within(t, c) => Within(u, c)
  BY <1>7 DEF Within, M
<1> QED
  BY <1>6, <1>8 DEF Collected, L, M

(* Nothing is gathered at the beginning.                                   *)
LEMMA NothingYet ==
  ASSUME NEW S, NEW t \in Seq(S)
  PROVE  Boundary(t, 0) /\ Within(t, 0) /\ Collected(t, 0, <<>>, <<>>, Parser!None, <<>>)
<1> DEFINE L == Parser!Lines(t)
<1>1. Len(t) \in Nat /\ DOMAIN L = Parser!Ends(t) \cup {Len(t) + 1}
      /\ Parser!Ends(t) = {q \in 1 .. Len(t) : Parser!EndsLine(t, q)}
  BY LinesAre
<1>2. \A q \in DOMAIN L : q \in Nat /\ ~(q < 0 + 1)
  BY <1>1
<1>3. Boundary(t, 0)
  BY <1>1 DEF Boundary
<1>4. Within(t, 0)
  BY <1>1 DEF Within
<1> HIDE DEF L
<1>5. \A name : Parser!With(L, name, 0 + 1) = {}
  BY <1>2 DEF Parser!With
<1>6. Parser!Ids(L, 0 + 1) = {}
  BY <1>2 DEF Parser!Ids
<1>7. Framed(L, 0 + 1) = {}
  BY <1>2 DEF Framed
<1>8. Parser!Data(L, 0 + 1) = <<>> /\ Event(L, 0 + 1) = <<>> /\ Id(L, 0 + 1) = Parser!None
  BY <1>5, <1>6, DataIs, NoValues DEF Event, Id, Parser!LastOf
<1>9. Parser!Frames(L, 0 + 1) = <<>>
  <2> DEFINE f == Parser!Frames(L, 0 + 1)
  <2>1. f = [i \in 1 .. 0 |-> Parser!FrameAt(L, Nth(Framed(L, 0 + 1), i))]
    BY <1>7, FramesAre, FS_EmptySet
  <2>2. f = [i \in 1 .. 0 |-> f[i]]
    BY <2>1
  <2> HIDE DEF f
  <2>3. f = <<>>
    BY <2>2, ElementsMake
  <2> QED
    BY <2>3 DEF f
<1> QED
  BY <1>3, <1>4, <1>8, <1>9 DEF Collected, L

-----------------------------------------------------------------------------
(* What a line adds to what was gathered, as blank and process_field do.   *)
BlankAdds(t, o, d, e, i, f) ==
  Collected(t, o, <<>>, <<>>, i, IF d = <<>> THEN f ELSE Append(f, Parser!Message(e, d, i)))

FieldAdds(t, o, l, d, e, i, f) ==
  LET value == Parser!Field(l).value
  IN Collected(t, o,
       IF Parser!Fields(l, "data") THEN Append(d, value) ELSE d,
       IF Parser!Fields(l, "event") THEN value ELSE e,
       IF Parser!Fields(l, "id") /\ Parser!ValidId(value) THEN value ELSE i,
       IF Parser!Fields(l, "retry") /\ Parser!ValidRetry(value) THEN Append(f, Parser!Retry(value)) ELSE f)

StaysWithin(t, c, o, l) ==
  Within(t, c) /\ ~(Len(l) > MaxLine) /\ ~(Parser!Size(Parser!Data(Parser!Lines(t), o + 1)) > MaxEvent)
    => Within(t, o)

LEMMA LineTaken ==
  ASSUME NEW S, NEW t \in Seq(S), NEW c, Boundary(t, c), NEW p \in (c + 1) .. Len(t),
         Terminates(t[p]), \A i \in (c + 1) .. (p - 1) : ~Terminates(t[i]),
         NEW l, l = SubSeq(t, c + 1, p - 1),
         NEW d, NEW e, NEW i, NEW f, Collected(t, c, d, e, i, f)
  PROVE  /\ Boundary(t, Onward(t, p))
         /\ Parser!Data(Parser!Lines(t), p + 1) = Parser!Data(Parser!Lines(t), Onward(t, p) + 1)
         /\ Parser!IsBlank(l) => BlankAdds(t, Onward(t, p), d, e, i, f)
         /\ ~Parser!IsBlank(l) => FieldAdds(t, Onward(t, p), l, d, e, i, f)
         /\ StaysWithin(t, c, Onward(t, p), l)
<1> DEFINE L == Parser!Lines(t)
           o == Onward(t, p)
<1>1. /\ Len(t) \in Nat /\ c \in Nat /\ DOMAIN L = Parser!Ends(t) \cup {Len(t) + 1}
      /\ p \in Nat /\ c + 1 <= p /\ Lined(L, Len(t) + 1)
  <2>1. Len(t) \in Nat /\ c \in Nat /\ DOMAIN L = Parser!Ends(t) \cup {Len(t) + 1}
    BY BoundaryIs
  <2>2. Lined(L, Len(t) + 1)
    BY LinesAre
  <2> QED
    BY <2>1, <2>2
<1>2. /\ p \in DOMAIN L /\ p \in Parser!Ends(t) /\ L[p] = l
      /\ o \in {p, p + 1} /\ Boundary(t, o)
      /\ \A q \in DOMAIN L : q \in Nat /\ (q < c + 1 \/ q = p \/ o + 1 <= q)
  <2>1. p \in DOMAIN L /\ p \in Parser!Ends(t) /\ L[p] = l
    BY NextLine
  <2>2. o = IF t[p] = Parser!CR /\ p < Len(t) /\ t[p + 1] = Parser!LF THEN p + 1 ELSE p
    BY NextLine
  <2>3. Boundary(t, o) /\ \A q \in DOMAIN L : q \in Nat /\ (q < c + 1 \/ q = p \/ o + 1 <= q)
    BY NextLine
  <2> QED
    BY <2>1, <2>2, <2>3
<1>3. /\ d = Parser!Data(L, c + 1) /\ e = Event(L, c + 1)
      /\ i = Id(L, c + 1) /\ f = Parser!Frames(L, c + 1)
  BY DEF Collected
<1> HIDE DEF L, o
<1>4. d = Parser!Data(L, p) /\ e = Event(L, p) /\ i = Id(L, p) /\ f = Parser!Frames(L, p)
  <2>1. ASSUME NEW q \in DOMAIN L PROVE q < c + 1 \/ p <= q
    <3>1. q \in Nat /\ (q < c + 1 \/ q = p \/ o + 1 <= q)
      BY <1>2
    <3>2. o = p \/ o = p + 1
      BY <1>2
    <3> QED
      BY <1>1, <3>1, <3>2
  <2>2. c + 1 \in Nat
    BY <1>1
  <2> QED
    BY <1>1, <1>3, <2>1, <2>2, NothingBetween
<1>5. /\ Parser!Data(L, o + 1) = Parser!Data(L, p + 1) /\ Event(L, o + 1) = Event(L, p + 1)
      /\ Id(L, o + 1) = Id(L, p + 1) /\ Parser!Frames(L, o + 1) = Parser!Frames(L, p + 1)
  <2>1. p + 1 \in Nat /\ o + 1 \in Nat /\ p + 1 <= o + 1
    <3>1. o = p \/ o = p + 1
      BY <1>2
    <3> QED
      BY <1>1, <3>1
  <2>2. ASSUME NEW q \in DOMAIN L PROVE q < p + 1 \/ o + 1 <= q
    <3>1. q \in Nat /\ (q < c + 1 \/ q = p \/ o + 1 <= q)
      BY <1>2
    <3> QED
      BY <1>1, <3>1
  <2> QED
    BY <1>1, <2>1, <2>2, NothingBetween
<1>6. Parser!FrameAt(L, p) = IF Parser!IsBlank(l) THEN Parser!Message(e, d, i)
                             ELSE Parser!Retry(Parser!Field(l).value)
  BY <1>2, <1>4, FrameAtIs DEF Value
<1>7. Parser!MakesFrame(L, p) <=> \/ Parser!IsBlank(l) /\ d # <<>>
                                  \/ Parser!Fields(l, "retry") /\ Parser!ValidRetry(Parser!Field(l).value)
  BY <1>2, <1>4 DEF Parser!MakesFrame
<1>8. Parser!Frames(L, p + 1) = IF Parser!MakesFrame(L, p) THEN Append(f, Parser!FrameAt(L, p)) ELSE f
  BY <1>1, <1>2, <1>4, FramesGrow
<1>9. ASSUME Parser!IsBlank(l)
      PROVE  Collected(t, o, <<>>, <<>>, i, IF d = <<>> THEN f ELSE Append(f, Parser!Message(e, d, i)))
  <2>1. Parser!Data(L, p + 1) = <<>> /\ Event(L, p + 1) = <<>> /\ Id(L, p + 1) = Id(L, p)
    BY <1>1, <1>2, <1>9, BlankEnds
  <2>2. ~Parser!Fields(l, "retry")
    BY <1>9 DEF Parser!Fields
  <2>3. Parser!Frames(L, p + 1) = IF d = <<>> THEN f ELSE Append(f, Parser!Message(e, d, i))
    BY <1>6, <1>7, <1>8, <1>9, <2>2
  <2> QED
    BY <1>4, <1>5, <2>1, <2>3 DEF Collected, L
<1>10. ASSUME ~Parser!IsBlank(l)
       PROVE  Collected(t, o,
                IF Parser!Fields(l, "data") THEN Append(d, Parser!Field(l).value) ELSE d,
                IF Parser!Fields(l, "event") THEN Parser!Field(l).value ELSE e,
                IF Parser!Fields(l, "id") /\ Parser!ValidId(Parser!Field(l).value)
                THEN Parser!Field(l).value ELSE i,
                IF Parser!Fields(l, "retry") /\ Parser!ValidRetry(Parser!Field(l).value)
                THEN Append(f, Parser!Retry(Parser!Field(l).value)) ELSE f)
  <2>0. Value(L, p) = Parser!Field(l).value
    BY <1>2 DEF Value
  <2>1. Parser!Data(L, p + 1) = IF Parser!Fields(l, "data") THEN Append(d, Parser!Field(l).value) ELSE d
    BY <1>1, <1>2, <1>4, <1>10, <2>0, LineAdds
  <2>2. Event(L, p + 1) = IF Parser!Fields(l, "event") THEN Parser!Field(l).value ELSE e
    BY <1>1, <1>2, <1>4, <1>10, <2>0, LineAdds
  <2>3. Id(L, p + 1) = IF Parser!Fields(l, "id") /\ Parser!ValidId(Parser!Field(l).value)
                       THEN Parser!Field(l).value ELSE i
    BY <1>1, <1>2, <1>4, <1>10, <2>0, LineAdds
  <2>4. Parser!Frames(L, p + 1) = IF Parser!Fields(l, "retry") /\ Parser!ValidRetry(Parser!Field(l).value)
                                  THEN Append(f, Parser!Retry(Parser!Field(l).value)) ELSE f
    BY <1>6, <1>7, <1>8, <1>10
  <2> QED
    BY <1>5, <2>1, <2>2, <2>3, <2>4 DEF Collected, L
<1>11. ASSUME Within(t, c), ~(Len(l) > MaxLine), ~(Parser!Size(Parser!Data(L, o + 1)) > MaxEvent)
       PROVE  Within(t, o)
  <2> SUFFICES ASSUME NEW q \in Parser!Ends(t), q <= o
               PROVE  ~(Len(L[q]) > MaxLine) /\ ~(Parser!Size(Parser!Data(L, q + 1)) > MaxEvent)
    BY DEF Within, L
  <2>1. q \in Nat /\ (q < c + 1 \/ q = p)
    <3>1. q \in DOMAIN L
      BY <1>1
    <3> QED
      BY <1>1, <1>2, <3>1
  <2>2. CASE q = p
    BY <1>2, <1>5, <1>11, <2>2
  <2>3. CASE q < c + 1
    <3>1. q <= c
      BY <1>1, <2>1, <2>3
    <3> QED
      BY <1>11, <3>1 DEF Within, L
  <2> QED
    BY <2>1, <2>2, <2>3
<1>12. Parser!IsBlank(l) => BlankAdds(t, o, d, e, i, f)
  BY <1>9 DEF BlankAdds
<1>13. ~Parser!IsBlank(l) => FieldAdds(t, o, l, d, e, i, f)
  BY <1>10 DEF FieldAdds
<1>14. StaysWithin(t, c, o, l)
  BY <1>11 DEF StaysWithin, L
<1> QED
  BY <1>2, <1>5, <1>12, <1>13, <1>14 DEF L, o

-----------------------------------------------------------------------------
(* Where the reference stops: at the first line behind a boundary, when it *)
(* breaks a bound or is the last of all.                                   *)
Long(s, done, t, p) ==
  Len(Parser!Lines(t)[p]) > MaxLine /\ (p = Len(t) + 1 => done \/ ~Parser!IsPrefix(s, Parser!BOM))
Much(t, p) == p < Len(t) + 1 /\ Parser!Size(Parser!Data(Parser!Lines(t), p + 1)) > MaxEvent

LEMMA Stops ==
  ASSUME NEW S, NEW s, NEW done, NEW t \in Seq(S), t = Parser!Text(s, done),
         NEW c, Boundary(t, c), Within(t, c),
         NEW p \in DOMAIN Parser!Lines(t), c + 1 <= p,
         \A q \in DOMAIN Parser!Lines(t) : q < c + 1 \/ p <= q,
         p = Len(t) + 1 \/ Long(s, done, t, p) \/ Much(t, p)
  PROVE  Parser!Reference(s, done)
           = [frames   |-> Parser!Frames(Parser!Lines(t), c + 1),
              overflow |-> IF Long(s, done, t, p) THEN "line" ELSE IF Much(t, p) THEN "event" ELSE "none"]
<1> DEFINE L == Parser!Lines(t)
           last == Len(t) + 1
           long == Parser!TooLong(s, done, L, last)
           much == Parser!TooMuch(L, last)
           K == long \cup much \cup {last}
           stop == Parser!Min(K)
<1>1. /\ Len(t) \in Nat /\ c \in Nat /\ c <= Len(t) /\ DOMAIN L = Parser!Ends(t) \cup {last}
      /\ Lined(L, last) /\ last \in Nat
  <2>1. Len(t) \in Nat /\ c \in Nat /\ c <= Len(t) /\ DOMAIN L = Parser!Ends(t) \cup {last}
    BY BoundaryIs
  <2>2. Lined(L, last)
    BY LinesAre
  <2> QED
    BY <2>1, <2>2
<1>2. /\ long = {q \in DOMAIN L : Long(s, done, t, q)}
      /\ much = {q \in DOMAIN L : Much(t, q)}
  BY DEF Parser!TooLong, Parser!TooMuch, Long, Much
<1>3. Parser!Reference(s, done)
        = [frames   |-> Parser!Frames(L, stop),
           overflow |-> IF stop \in long THEN "line" ELSE IF stop \in much THEN "event" ELSE "none"]
  BY DEF Parser!Reference
<1>4. /\ p \in DOMAIN L /\ c + 1 <= p /\ (p = last \/ Long(s, done, t, p) \/ Much(t, p))
      /\ \A q \in DOMAIN L : q \in Nat /\ q <= last /\ (q < c + 1 \/ p <= q)
  BY <1>1 DEF Lined
<1>5. ASSUME NEW q \in DOMAIN L, q < c + 1 PROVE ~Long(s, done, t, q) /\ ~Much(t, q)
  <2>1. q \in Parser!Ends(t) /\ q <= c
    BY <1>1, <1>4, <1>5
  <2> QED
    BY <2>1 DEF Within, Long, Much
<1> HIDE DEF L, last, long, much, stop
<1>6. K \subseteq Nat /\ p \in K /\ \A q \in K : p <= q
  <2>1. p \in DOMAIN L /\ (p = last \/ Long(s, done, t, p) \/ Much(t, p))
    BY DEF L, last
  <2>2. p \in K
    BY <1>2, <2>1
  <2>3. ASSUME NEW q \in K PROVE q \in Nat /\ p <= q
    <3>1. CASE q = last
      BY <1>1, <1>4, <2>1, <3>1
    <3>2. CASE q \in long \cup much
      BY <1>2, <1>4, <1>5, <3>2
    <3> QED
      BY <3>1, <3>2
  <2> QED
    BY <2>2, <2>3
<1> HIDE DEF K
<1>7. stop = p
  <2>1. Parser!Min(K) \in K /\ \A q \in K : Parser!Min(K) <= q
    BY <1>6, LeastIs
  <2>2. PICK m : m = Parser!Min(K)
    OBVIOUS
  <2>3. m \in Nat /\ p \in Nat /\ m <= p /\ p <= m
    BY <1>6, <2>1, <2>2
  <2> QED
    BY <2>2, <2>3 DEF stop
<1>8. Parser!Frames(L, p) = Parser!Frames(L, c + 1)
  <2>1. c + 1 \in Nat /\ p \in Nat /\ c + 1 <= p /\ \A q \in DOMAIN L : q < c + 1 \/ p <= q
    BY <1>1, <1>4, <1>6
  <2> QED
    BY <1>1, <2>1, NothingBetween
<1>9. (stop \in long <=> Long(s, done, t, p)) /\ (stop \in much <=> Much(t, p))
  <2>1. p \in DOMAIN L
    BY <1>4
  <2>2. (p \in long <=> Long(s, done, t, p)) /\ (p \in much <=> Much(t, p))
    BY <1>2, <2>1, Zenon
  <2> QED
    BY <1>7, <2>2, Zenon
<1> QED
  BY <1>3, <1>7, <1>8, <1>9 DEF L

LEMMA LineLength ==
  ASSUME NEW S, NEW t \in Seq(S), NEW a \in Nat, NEW b \in Nat, a <= b, b <= Len(t)
  PROVE  SubSeq(t, a + 1, b) \in Seq(S) /\ Len(SubSeq(t, a + 1, b)) = b - a
<1>1. Len(t) \in Nat /\ \A i \in 1 .. Len(t) : t[i] \in S
  BY ElementOfSeq, LenProperties
<1>2. \A i \in a + 1 .. b : t[i] \in S
  BY <1>1
<1>3. /\ SubSeq(t, a + 1, b) \in Seq(S)
      /\ Len(SubSeq(t, a + 1, b)) = IF a + 1 <= b THEN b - (a + 1) + 1 ELSE 0
  BY <1>2, SubSeqProperties
<1> QED
  BY <1>3

(* Nothing but an unfinished line is left.                                 *)
LEMMA RefSettled ==
  ASSUME NEW S, NEW s, NEW done \in BOOLEAN, NEW t \in Seq(S), t = Parser!Text(s, done),
         NEW c, Boundary(t, c), Within(t, c), \A i \in (c + 1) .. Len(t) : ~Terminates(t[i]),
         MaxLine \in Nat, Len(t) - c <= MaxLine \/ (~done /\ Parser!IsPrefix(s, Parser!BOM)),
         NEW d, NEW e, NEW i, NEW f, Collected(t, c, d, e, i, f)
  PROVE  Parser!Reference(s, done) = [frames |-> f, overflow |-> "none"]
<1> DEFINE L == Parser!Lines(t)
           p == Len(t) + 1
<1>1. Len(t) \in Nat /\ c \in Nat /\ c <= Len(t)
  BY BoundaryIs
<1>2. /\ p \in DOMAIN L /\ L[p] = SubSeq(t, c + 1, Len(t))
      /\ \A q \in DOMAIN L : q \in Nat /\ (q < c + 1 \/ q = p)
  BY OpenLine
<1>3. Len(L[p]) = Len(t) - c
  BY <1>1, <1>2, LineLength
<1>4. ~Long(s, done, t, p)
  BY <1>1, <1>3 DEF Long
<1>5. ~Much(t, p)
  BY <1>1 DEF Much
<1>6. c + 1 <= p /\ \A q \in DOMAIN L : q < c + 1 \/ p <= q
  BY <1>1, <1>2
<1>7. Parser!Reference(s, done)
        = [frames   |-> Parser!Frames(L, c + 1),
           overflow |-> IF Long(s, done, t, p) THEN "line" ELSE IF Much(t, p) THEN "event" ELSE "none"]
  BY <1>2, <1>6, Stops
<1>8. f = Parser!Frames(L, c + 1)
  BY DEF Collected
<1> QED
  BY <1>4, <1>5, <1>7, <1>8

(* A line is too long, finished or not.                                    *)
Overlong(t, c, n) ==
  n \in Nat /\ n > MaxLine /\ c + n <= Len(t) /\ \A i \in (c + 1) .. (c + n) : ~Terminates(t[i])

LEMMA RefLong ==
  ASSUME NEW S, NEW s, NEW done \in BOOLEAN, NEW t \in Seq(S), t = Parser!Text(s, done),
         NEW c, Boundary(t, c), Within(t, c), MaxLine \in Nat,
         NEW n, Overlong(t, c, n),
         done \/ ~Parser!IsPrefix(s, Parser!BOM),
         NEW d, NEW e, NEW i, NEW f, Collected(t, c, d, e, i, f)
  PROVE  Parser!Reference(s, done) = [frames |-> f, overflow |-> "line"]
<1> DEFINE L == Parser!Lines(t)
           Q == {q \in (c + 1) .. Len(t) : Terminates(t[q])}
<1>0. n \in Nat /\ n > MaxLine /\ c + n <= Len(t) /\ \A i1 \in (c + 1) .. (c + n) : ~Terminates(t[i1])
  BY DEF Overlong
<1>1. Len(t) \in Nat /\ c \in Nat /\ c <= Len(t)
  BY BoundaryIs
<1>2. \E p \in DOMAIN L :
        /\ p \in Nat /\ c + n + 1 <= p /\ p <= Len(t) + 1 /\ L[p] = SubSeq(t, c + 1, p - 1)
        /\ \A q \in DOMAIN L : q < c + 1 \/ p <= q
  <2>1. CASE Q = {}
    <3>1. \A q \in (c + 1) .. Len(t) : ~Terminates(t[q])
      BY <2>1
    <3>2. /\ Len(t) + 1 \in DOMAIN L /\ L[Len(t) + 1] = SubSeq(t, c + 1, Len(t))
          /\ \A q \in DOMAIN L : q \in Nat /\ (q < c + 1 \/ q = Len(t) + 1)
      BY <3>1, OpenLine
    <3>3. (Len(t) + 1) - 1 = Len(t) /\ Len(t) + 1 \in Nat /\ c + n + 1 <= Len(t) + 1
      BY <1>0, <1>1
    <3> HIDE DEF L
    <3> QED
      BY <3>2, <3>3
  <2>2. CASE Q # {}
    <3>1. Q \subseteq Nat
      BY <1>1
    <3>2. PICK p \in Q : \A q \in Q : p <= q
      BY <2>2, <3>1, Least
    <3>3. /\ p \in (c + 1) .. Len(t) /\ p \in Nat /\ Terminates(t[p])
          /\ \A j \in (c + 1) .. (p - 1) : ~Terminates(t[j])
      <4>1. p \in (c + 1) .. Len(t) /\ p \in Nat /\ Terminates(t[p])
        BY <1>0, <1>1, <3>2
      <4>2. ASSUME NEW j \in (c + 1) .. (p - 1) PROVE ~Terminates(t[j])
        <5>1. j \in (c + 1) .. Len(t) /\ ~(p <= j)
          BY <1>1, <4>1
        <5> QED
          BY <3>2, <5>1
      <4> QED
        BY <4>1, <4>2
    <3>4. p \in DOMAIN L /\ L[p] = SubSeq(t, c + 1, p - 1)
      BY <3>3, NextLine
    <3>5. \A q \in DOMAIN L : q \in Nat /\ (q < c + 1 \/ q = p \/ Onward(t, p) + 1 <= q)
      BY <3>3, NextLine
    <3>6. Onward(t, p) \in {p, p + 1}
      <4>1. Onward(t, p) = IF t[p] = Parser!CR /\ p < Len(t) /\ t[p + 1] = Parser!LF THEN p + 1 ELSE p
        BY <3>3, NextLine
      <4> QED
        BY <4>1
    <3> HIDE DEF L
    <3>7. ASSUME NEW q \in DOMAIN L PROVE q < c + 1 \/ p <= q
      <4>1. q \in Nat /\ (q < c + 1 \/ q = p \/ Onward(t, p) + 1 <= q)
        BY <3>5
      <4>2. Onward(t, p) = p \/ Onward(t, p) = p + 1
        BY <3>6
      <4> QED
        BY <3>3, <4>1, <4>2
    <3>8. c + n + 1 <= p
      <4>1. ~(p \in (c + 1) .. (c + n))
        BY <1>0, <3>3
      <4> QED
        BY <1>0, <1>1, <3>3, <4>1
    <3>9. p <= Len(t) + 1
      BY <1>1, <3>3
    <3> QED
      BY <3>3, <3>4, <3>7, <3>8, <3>9
  <2> QED
    BY <2>1, <2>2
<1>3. PICK p \in DOMAIN L :
        /\ p \in Nat /\ c + n + 1 <= p /\ p <= Len(t) + 1 /\ L[p] = SubSeq(t, c + 1, p - 1)
        /\ \A q \in DOMAIN L : q < c + 1 \/ p <= q
  BY <1>2
<1>4. Len(L[p]) = p - 1 - c
  <2>1. p - 1 \in Nat /\ c <= p - 1 /\ p - 1 <= Len(t)
    BY <1>0, <1>1, <1>3
  <2>2. Len(SubSeq(t, c + 1, p - 1)) = p - 1 - c
    BY <1>1, <2>1, LineLength
  <2> QED
    BY <1>3, <2>2
<1>5. Long(s, done, t, p)
  BY <1>0, <1>1, <1>3, <1>4 DEF Long
<1>6. Parser!Reference(s, done)
        = [frames   |-> Parser!Frames(L, c + 1),
           overflow |-> IF Long(s, done, t, p) THEN "line" ELSE IF Much(t, p) THEN "event" ELSE "none"]
  <2>1. c + 1 <= p
    BY <1>0, <1>1, <1>3
  <2> QED
    BY <1>3, <1>5, <2>1, Stops
<1>7. f = Parser!Frames(L, c + 1)
  BY DEF Collected
<1> QED
  BY <1>5, <1>6, <1>7

(* A line makes its event too long.                                        *)
LEMMA RefMuch ==
  ASSUME NEW S, NEW s, NEW done \in BOOLEAN, NEW t \in Seq(S), t = Parser!Text(s, done),
         NEW c, Boundary(t, c), Within(t, c), MaxLine \in Nat,
         NEW p \in (c + 1) .. Len(t), Terminates(t[p]), \A i \in (c + 1) .. (p - 1) : ~Terminates(t[i]),
         p - 1 - c <= MaxLine, Parser!Size(Parser!Data(Parser!Lines(t), p + 1)) > MaxEvent,
         NEW d, NEW e, NEW i, NEW f, Collected(t, c, d, e, i, f)
  PROVE  Parser!Reference(s, done) = [frames |-> f, overflow |-> "event"]
<1> DEFINE L == Parser!Lines(t)
<1>1. Len(t) \in Nat /\ c \in Nat /\ c <= Len(t)
  BY BoundaryIs
<1>2. p \in Nat /\ c + 1 <= p /\ p <= Len(t)
  BY <1>1
<1>3. p \in DOMAIN L /\ L[p] = SubSeq(t, c + 1, p - 1)
  BY NextLine
<1>4. \A q \in DOMAIN L : q < c + 1 \/ p <= q
  <2>1. \A q \in DOMAIN L : q \in Nat /\ (q < c + 1 \/ q = p \/ Onward(t, p) + 1 <= q)
    BY NextLine
  <2>2. Onward(t, p) = IF t[p] = Parser!CR /\ p < Len(t) /\ t[p + 1] = Parser!LF THEN p + 1 ELSE p
    BY NextLine
  <2> HIDE DEF L
  <2>3. ASSUME NEW q \in DOMAIN L PROVE q < c + 1 \/ p <= q
    <3>1. q \in Nat /\ (q < c + 1 \/ q = p \/ Onward(t, p) + 1 <= q)
      BY <2>1
    <3>2. Onward(t, p) = p \/ Onward(t, p) = p + 1
      BY <2>2
    <3> QED
      BY <1>2, <3>1, <3>2
  <2> QED
    BY <2>3
<1>5. Len(L[p]) = p - 1 - c
  <2>1. p - 1 \in Nat /\ c <= p - 1 /\ p - 1 <= Len(t)
    BY <1>1, <1>2
  <2>2. Len(SubSeq(t, c + 1, p - 1)) = p - 1 - c
    BY <1>1, <2>1, LineLength
  <2> QED
    BY <1>3, <2>2
<1>6. ~Long(s, done, t, p)
  BY <1>1, <1>2, <1>5 DEF Long
<1>7. Much(t, p)
  BY <1>1, <1>2 DEF Much
<1>8. Parser!Reference(s, done)
        = [frames   |-> Parser!Frames(L, c + 1),
           overflow |-> IF Long(s, done, t, p) THEN "line" ELSE IF Much(t, p) THEN "event" ELSE "none"]
  BY <1>2, <1>3, <1>4, <1>7, Stops
<1>9. f = Parser!Frames(L, c + 1)
  BY DEF Collected
<1> QED
  BY <1>6, <1>7, <1>8, <1>9

-----------------------------------------------------------------------------
(* The byte order mark, and the content of a stream.                       *)
Bytes == {"ef", "bb", "bf", "none"} \cup UNION {Range(stream) : stream \in Streams}

LEMMA MarkIs == Parser!BOM \in Seq(Bytes) /\ Len(Parser!BOM) = 3 /\ \A i \in 1 .. 3 : ~Terminates(Parser!BOM[i])
<1>1. \A x, y, z \in Bytes : <<x, y, z>> \in Seq(Bytes) /\ Len(<<x, y, z>>) = 3
  OBVIOUS
<1>2. "ef" \in Bytes /\ "bb" \in Bytes /\ "bf" \in Bytes
  BY DEF Bytes
<1>3. Parser!BOM \in Seq(Bytes) /\ Len(Parser!BOM) = 3
  BY <1>1, <1>2 DEF Parser!BOM
<1>4. Parser!BOM[1] = "ef" /\ Parser!BOM[2] = "bb" /\ Parser!BOM[3] = "bf"
  BY DEF Parser!BOM
<1>5. \A i \in 1 .. 3 : i = 1 \/ i = 2 \/ i = 3
  OBVIOUS
<1>6. ~Terminates("ef") /\ ~Terminates("bb") /\ ~Terminates("bf")
  BY DEF Terminates, Parser!CR, Parser!LF
<1> QED
  BY <1>3, <1>4, <1>5, <1>6

LEMMA PrefixIs ==
  ASSUME NEW a \in Seq(Bytes), NEW b \in Seq(Bytes)
  PROVE  Parser!IsPrefix(a, b) <=> Len(a) <= Len(b) /\ \A i \in 1 .. Len(a) : a[i] = b[i]
<1>1. Len(a) \in Nat /\ Len(b) \in Nat /\ \A i \in 1 .. Len(a) : a[i] \in Bytes
  BY ElementOfSeq, LenProperties
<1> DEFINE u == SubSeq(a, 1, Len(a))
           v == SubSeq(b, 1, Len(a))
<1>2. ASSUME Len(a) <= Len(b) PROVE u = v <=> \A i \in 1 .. Len(a) : a[i] = b[i]
  <2>1. ASSUME \A i \in 1 .. Len(a) : a[i] = b[i] PROVE u = v
    <3>1. \A i \in 1 .. Len(a) : a[i] \in Bytes /\ b[i - 1 + 1] = a[i]
      BY <1>1, <2>1
    <3> QED
      BY <1>1, <3>1, SameSubSeq
  <2>2. /\ \A i \in 1 .. Len(a) : u[i] = a[i]
        /\ \A i \in 1 .. Len(a) : v[i] = b[i]
    <3>1. \A i \in 1 .. Len(a) : b[i] \in Bytes
      BY <1>1, <1>2, ElementOfSeq
    <3>2. \A i \in 1 .. Len(a) - 1 + 1 : u[i] = a[1 + i - 1]
      BY <1>1, SubSeqProperties
    <3>3. \A i \in 1 .. Len(a) - 1 + 1 : v[i] = b[1 + i - 1]
      BY <1>1, <3>1, SubSeqProperties
    <3> HIDE DEF u, v
    <3>4. \A i \in 1 .. Len(a) : i \in 1 .. Len(a) - 1 + 1 /\ 1 + i - 1 = i
      BY <1>1
    <3> QED
      BY <3>2, <3>3, <3>4
  <2> HIDE DEF u, v
  <2> QED
    BY <2>1, <2>2
<1>3. Parser!IsPrefix(a, b) <=> Len(a) <= Len(b) /\ u = v
  BY DEF Parser!IsPrefix
<1> HIDE DEF u, v
<1> QED
  BY <1>2, <1>3

Marked(s) == 3 <= Len(s) /\ \A i \in 1 .. 3 : s[i] = Parser!BOM[i]

LEMMA StrippedIs ==
  ASSUME NEW s \in Seq(Bytes)
  PROVE  /\ Parser!IsPrefix(Parser!BOM, s) <=> Marked(s)
         /\ Parser!Stripped(s) \in Seq(Bytes) /\ Len(s) \in Nat
         /\ Marked(s) => /\ Len(Parser!Stripped(s)) = Len(s) - 3
                         /\ \A i \in 1 .. Len(s) - 3 : Parser!Stripped(s)[i] = s[i + 3]
         /\ ~Marked(s) => Parser!Stripped(s) = s
<1>1. Len(s) \in Nat /\ \A i \in 1 .. Len(s) : s[i] \in Bytes
  BY ElementOfSeq, LenProperties
<1>2. Parser!IsPrefix(Parser!BOM, s) <=> Marked(s)
  <2>1. Parser!IsPrefix(Parser!BOM, s) <=>
          Len(Parser!BOM) <= Len(s) /\ \A i \in 1 .. Len(Parser!BOM) : Parser!BOM[i] = s[i]
    BY MarkIs, PrefixIs
  <2> QED
    BY <2>1, MarkIs DEF Marked
<1> DEFINE u == SubSeq(s, 4, Len(s))
<1>3. /\ u \in Seq(Bytes) /\ Len(u) = IF 4 <= Len(s) THEN Len(s) - 4 + 1 ELSE 0
      /\ \A i \in 1 .. Len(s) - 4 + 1 : u[i] = s[4 + i - 1]
  <2>1. \A i \in 4 .. Len(s) : s[i] \in Bytes
    BY <1>1
  <2> QED
    BY <1>1, <2>1, SubSeqProperties
<1>4. Parser!Stripped(s) = IF Marked(s) THEN u ELSE s
  BY <1>2 DEF Parser!Stripped
<1> HIDE DEF u
<1>5. Marked(s) => Len(u) = Len(s) - 3 /\ \A i \in 1 .. Len(s) - 3 : u[i] = s[i + 3]
  <2> SUFFICES ASSUME Marked(s) PROVE Len(u) = Len(s) - 3 /\ \A i \in 1 .. Len(s) - 3 : u[i] = s[i + 3]
    OBVIOUS
  <2>1. 3 <= Len(s)
    BY DEF Marked
  <2>0. Len(u) = IF 4 <= Len(s) THEN Len(s) - 4 + 1 ELSE 0
    BY <1>3
  <2>2. Len(u) = Len(s) - 3
    <3>1. Len(s) \in Nat
      BY <1>1
    <3>2. PICK n, m : n = Len(s) /\ m = Len(u)
      OBVIOUS
    <3> QED
      BY <2>0, <2>1, <3>1, <3>2
  <2>3. \A i \in 1 .. Len(s) - 3 : i \in 1 .. Len(s) - 4 + 1 /\ 4 + i - 1 = i + 3
    BY <1>1
  <2> QED
    BY <1>3, <2>2, <2>3
<1> QED
  BY <1>1, <1>2, <1>3, <1>4, <1>5

LEMMA TextIs ==
  ASSUME NEW s \in Seq(Bytes), NEW done \in BOOLEAN, NEW t, t = Parser!Text(s, done),
         NEW u, u = Parser!Stripped(s)
  PROVE  /\ t \in Seq(Bytes) /\ u \in Seq(Bytes) /\ Len(u) \in Nat
         /\ \/ t = u /\ (done \/ Len(u) = 0 \/ u[Len(u)] # Parser!CR)
            \/ /\ ~done /\ Len(u) > 0 /\ u[Len(u)] = Parser!CR
               /\ Len(t) = Len(u) - 1 /\ \A i \in 1 .. Len(t) : t[i] = u[i]
<1>1. u \in Seq(Bytes) /\ Len(u) \in Nat /\ \A i \in 1 .. Len(u) : u[i] \in Bytes
  <2>1. u \in Seq(Bytes)
    BY StrippedIs
  <2> QED
    BY <2>1, ElementOfSeq, LenProperties
<1>2. u # <<>> <=> Len(u) > 0
  BY <1>1, EmptySeq
<1> DEFINE v == SubSeq(u, 1, Len(u) - 1)
<1>3. t = IF ~done /\ u # <<>> /\ u[Len(u)] = Parser!CR THEN v ELSE u
  BY DEF Parser!Text
<1>4. /\ v \in Seq(Bytes) /\ Len(v) = IF 1 <= Len(u) - 1 THEN Len(u) - 1 - 1 + 1 ELSE 0
      /\ \A i \in 1 .. Len(u) - 1 - 1 + 1 : v[i] = u[1 + i - 1]
  <2>1. \A i \in 1 .. Len(u) - 1 : u[i] \in Bytes
    BY <1>1
  <2> QED
    BY <1>1, <2>1, SubSeqProperties
<1> HIDE DEF v
<1>5. CASE ~(~done /\ u # <<>> /\ u[Len(u)] = Parser!CR)
  BY <1>1, <1>2, <1>3, <1>5
<1>6. CASE ~done /\ u # <<>> /\ u[Len(u)] = Parser!CR
  <2>0. Len(v) = IF 1 <= Len(u) - 1 THEN Len(u) - 1 - 1 + 1 ELSE 0
    BY <1>4
  <2>1. Len(u) > 0 /\ t = v /\ Len(v) = Len(u) - 1
    <3>1. Len(u) \in Nat /\ Len(u) > 0 /\ t = v
      BY <1>1, <1>2, <1>3, <1>6
    <3>2. PICK n, m : n = Len(u) /\ m = Len(v)
      OBVIOUS
    <3> QED
      BY <2>0, <3>1, <3>2
  <2>2. \A i \in 1 .. Len(v) : i \in 1 .. Len(u) - 1 - 1 + 1 /\ 1 + i - 1 = i
    BY <1>1, <2>1
  <2> QED
    BY <1>1, <1>4, <1>6, <2>1, <2>2
<1> QED
  BY <1>5, <1>6

-----------------------------------------------------------------------------
(* The state of the parser.  What it holds is the end of what was given to *)
(* it, behind a boundary; what it has gathered is what the lines before    *)
(* that boundary say.                                                      *)
Frame == [kind : {"message"}, event : Seq(Bytes), data : Seq(Seq(Bytes)), id : Seq(Bytes)]
  \cup [kind : {"retry"}, millis : Seq(Bytes)]

ParserTypes ==
  /\ wire \in Seq(Bytes) /\ chunk \in Seq(Bytes) /\ buf \in Seq(Bytes) /\ fed \in Seq(Bytes)
  /\ pc \in {"idle", "copy", "lines", "ending"}
  /\ bomResolved \in BOOLEAN /\ closed \in BOOLEAN /\ ended \in BOOLEAN
  /\ pendingEvent \in Seq(Bytes) /\ pendingData \in Seq(Seq(Bytes)) /\ lastId \in Seq(Bytes)
  /\ queue \in Seq(Frame) /\ popped \in Seq(Frame)

(* Of a text, c bytes have been read; b and then k are the rest.           *)
Holds(t, c, b, k) ==
  /\ c \in Nat /\ Len(t) = c + Len(b) + Len(k)
  /\ \A i \in 1 .. Len(b) : t[c + i] = b[i]
  /\ \A i \in 1 .. Len(k) : t[c + Len(b) + i] = k[i]

(* No byte order mark may come any more.                                   *)
Settles(s) == Len(s) >= 3 \/ ~Parser!IsPrefix(s, Parser!BOM)

(* c is the boundary in the content of the stream that the splitter is at. *)
ReadTo(t, c, b) ==
  /\ Boundary(t, c) /\ Within(t, c) /\ Holds(t, c, b, chunk)
  /\ Collected(t, c, pendingData, pendingEvent, lastId, popped \o queue)
  /\ c # 0 /\ t[c] = Parser!CR /\ b = <<>> => pc = "ending"

Untouched ==
  /\ pendingEvent = <<>> /\ pendingData = <<>> /\ lastId = Parser!None
  /\ queue = <<>> /\ popped = <<>>

Open ==
  /\ overflow = "none" /\ (ended <=> pc = "ending")
  /\ pc \in {"idle", "ending"} => chunk = <<>>
  /\ ~bomResolved => Holds(fed, 0, buf, chunk) /\ Untouched
  /\ bomResolved => /\ Settles(fed) \/ pc = "ending"
                    /\ \E c \in 0 .. Len(fed) : ReadTo(Parser!Stripped(fed), c, buf)

Most == (IF MaxLine > 2 THEN MaxLine ELSE 2) + 1

Held ==
  /\ scanFrom \in 0 .. Len(buf) /\ \A i \in 1 .. scanFrom : ~Parser!IsTerminator(buf[i])
  /\ Parser!Size(pendingData) \in 0 .. MaxEvent
  /\ Len(buf) <= Most + PieceLen /\ (pc \in {"idle", "copy"} => Len(buf) <= Most)
  /\ pc \in {"idle", "copy"} /\ ~closed =>
       /\ scanFrom = Len(buf) \/ (scanFrom = Len(buf) - 1 /\ buf[Len(buf)] = Parser!CR)
       /\ IF bomResolved THEN scanFrom <= MaxLine ELSE ~Settles(buf)

Done == pc = "idle" /\ [frames |-> popped \o queue, overflow |-> overflow] = Parser!Reference(fed, ended)

ParserInv == ParserTypes /\ Held /\ (~closed => Open) /\ (closed => Done)

(* A stream that cannot begin with a mark any more keeps its content.      *)
LEMMA SettledIs ==
  ASSUME NEW s \in Seq(Bytes)
  PROVE  /\ ~Settles(s) => Len(s) < 3 /\ \A i \in 1 .. Len(s) : s[i] = Parser!BOM[i]
         /\ Settles(s) => Len(s) >= 3 \/ \E i \in 1 .. Len(s) : i <= 2 /\ s[i] # Parser!BOM[i]
<1>1. Len(s) \in Nat
  BY LenProperties
<1>2. Parser!IsPrefix(s, Parser!BOM) <=> Len(s) <= 3 /\ \A i \in 1 .. Len(s) : s[i] = Parser!BOM[i]
  BY MarkIs, PrefixIs
<1> QED
  BY <1>1, <1>2 DEF Settles

LEMMA SettlesLonger ==
  ASSUME NEW s \in Seq(Bytes), NEW u \in Seq(Bytes), Settles(s), Len(s) <= Len(u),
         \A i \in 1 .. Len(s) : u[i] = s[i]
  PROVE  Settles(u) /\ (Marked(u) <=> Marked(s))
<1>1. Len(s) \in Nat /\ Len(u) \in Nat
  BY LenProperties
<1>2. CASE Len(s) >= 3
  <2>1. \A i \in 1 .. 3 : i \in 1 .. Len(s)
    BY <1>1, <1>2
  <2>2. Marked(u) <=> Marked(s)
    BY <1>1, <1>2, <2>1 DEF Marked
  <2> QED
    BY <1>1, <1>2, <2>2 DEF Settles
<1>3. CASE ~(Len(s) >= 3)
  <2>1. PICK i \in 1 .. Len(s) : i <= 2 /\ s[i] # Parser!BOM[i]
    BY <1>3, SettledIs
  <2>2. i \in 1 .. 3 /\ i \in 1 .. Len(u) /\ u[i] # Parser!BOM[i]
    BY <1>1, <2>1
  <2>3. ~Marked(u) /\ ~Marked(s)
    BY <2>1, <2>2 DEF Marked
  <2>4. ~Parser!IsPrefix(u, Parser!BOM)
    <3>1. Parser!IsPrefix(u, Parser!BOM) => \A j \in 1 .. Len(u) : u[j] = Parser!BOM[j]
      BY MarkIs, PrefixIs
    <3> QED
      BY <2>2, <3>1
  <2> QED
    BY <2>3, <2>4 DEF Settles
<1> QED
  BY <1>2, <1>3

LEMMA FedMore ==
  ASSUME NEW s \in Seq(Bytes), NEW x \in Seq(Bytes), Settles(s), NEW c, NEW b \in Seq(Bytes),
         Holds(Parser!Stripped(s), c, b, <<>>)
  PROVE  /\ Settles(s \o x) /\ Holds(Parser!Stripped(s \o x), c, b, x)
         /\ Len(Parser!Stripped(s)) \in Nat /\ Len(Parser!Stripped(s)) <= Len(Parser!Stripped(s \o x))
         /\ \A i \in 1 .. Len(Parser!Stripped(s)) : Parser!Stripped(s \o x)[i] = Parser!Stripped(s)[i]
<1> DEFINE u == s \o x
           t == Parser!Stripped(s)
           v == Parser!Stripped(u)
<1>1. /\ u \in Seq(Bytes) /\ Len(u) = Len(s) + Len(x) /\ Len(s) \in Nat /\ Len(x) \in Nat
      /\ \A i \in 1 .. Len(s) : u[i] = s[i]
      /\ \A i \in 1 .. Len(x) : u[Len(s) + i] = x[i]
  <2>1. Len(s) \in Nat /\ Len(x) \in Nat
    BY LenProperties
  <2>2. /\ u \in Seq(Bytes) /\ Len(u) = Len(s) + Len(x)
        /\ \A i \in 1 .. Len(s) + Len(x) : u[i] = IF i <= Len(s) THEN s[i] ELSE x[i - Len(s)]
    BY ConcatProperties
  <2> HIDE DEF u
  <2>3. \A i \in 1 .. Len(s) : i \in 1 .. Len(s) + Len(x) /\ i <= Len(s)
    BY <2>1
  <2>4. \A i \in 1 .. Len(x) : Len(s) + i \in 1 .. Len(s) + Len(x) /\ ~(Len(s) + i <= Len(s)) /\ Len(s) + i - Len(s) = i
    BY <2>1
  <2> QED
    BY <2>1, <2>2, <2>3, <2>4
<1> HIDE DEF u
<1>2. Settles(u) /\ (Marked(u) <=> Marked(s))
  <2>1. Len(s) <= Len(u)
    BY <1>1
  <2> QED
    BY <1>1, <2>1, SettlesLonger
<1>3. /\ Marked(s) => Len(t) = Len(s) - 3 /\ \A i \in 1 .. Len(s) - 3 : t[i] = s[i + 3]
      /\ ~Marked(s) => t = s
      /\ Marked(s) => 3 <= Len(s)
  BY StrippedIs DEF Marked
<1>4. /\ Marked(u) => Len(v) = Len(u) - 3 /\ \A i \in 1 .. Len(u) - 3 : v[i] = u[i + 3]
      /\ ~Marked(u) => v = u
  BY <1>1, StrippedIs
<1> HIDE DEF t, v
<1>5. /\ Len(t) \in Nat /\ Len(v) = Len(t) + Len(x)
      /\ \A i \in 1 .. Len(t) : v[i] = t[i]
      /\ \A i \in 1 .. Len(x) : v[Len(t) + i] = x[i]
  <2>1. CASE Marked(s)
    <3>1. Len(t) \in Nat /\ Len(t) = Len(s) - 3 /\ Len(v) = Len(t) + Len(x)
      BY <1>1, <1>2, <1>3, <1>4, <2>1
    <3>2. ASSUME NEW i \in 1 .. Len(t) PROVE v[i] = t[i]
      <4>1. i \in 1 .. Len(u) - 3 /\ i \in 1 .. Len(s) - 3 /\ i + 3 \in 1 .. Len(s)
        BY <1>1, <3>1
      <4> QED
        BY <1>1, <1>2, <1>3, <1>4, <2>1, <4>1
    <3>3. ASSUME NEW i \in 1 .. Len(x) PROVE v[Len(t) + i] = x[i]
      <4>1. Len(t) + i \in 1 .. Len(u) - 3 /\ Len(t) + i + 3 = Len(s) + i
        BY <1>1, <3>1
      <4> QED
        BY <1>1, <1>2, <1>4, <2>1, <4>1
    <3> QED
      BY <3>1, <3>2, <3>3
  <2>2. CASE ~Marked(s)
    BY <1>1, <1>2, <1>3, <1>4, <2>2
  <2> QED
    BY <2>1, <2>2
<1>6. /\ c \in Nat /\ Len(t) = c + Len(b) /\ Len(b) \in Nat
      /\ \A i \in 1 .. Len(b) : t[c + i] = b[i]
  <2>1. Len(<<>>) = 0 /\ Len(b) \in Nat
    BY LenProperties
  <2> QED
    BY <2>1 DEF Holds, t
<1>7. Holds(v, c, b, x)
  <2>1. Len(v) = c + Len(b) + Len(x)
    BY <1>1, <1>5, <1>6
  <2>2. ASSUME NEW i \in 1 .. Len(b) PROVE v[c + i] = b[i]
    <3>1. c + i \in 1 .. Len(t)
      BY <1>6
    <3> QED
      BY <1>5, <1>6, <3>1
  <2>3. ASSUME NEW i \in 1 .. Len(x) PROVE v[c + Len(b) + i] = x[i]
    BY <1>5, <1>6
  <2> QED
    BY <1>6, <2>1, <2>2, <2>3 DEF Holds
<1> QED
  BY <1>1, <1>2, <1>5, <1>7 DEF u, t, v

(* Where the next line ends in what the splitter holds.                    *)
LEMMA UnreadIs ==
  ASSUME ParserTypes, Held
  PROVE  /\ Parser!Unread \in Seq(Bytes) /\ Len(Parser!Unread) \in Nat /\ Len(Parser!Unread) <= Len(buf)
         /\ Parser!Unread = IF ~bomResolved /\ Marked(buf) THEN Parser!Stripped(buf) ELSE buf
         /\ Parser!Scanned \in 0 .. Len(Parser!Unread)
         /\ \A i \in 1 .. Parser!Scanned : ~Terminates(Parser!Unread[i])
<1>1. buf \in Seq(Bytes)
  BY DEF ParserTypes
<1>2. /\ Parser!IsPrefix(Parser!BOM, buf) <=> Marked(buf)
      /\ Parser!Stripped(buf) \in Seq(Bytes) /\ Len(buf) \in Nat
      /\ Marked(buf) => Len(Parser!Stripped(buf)) = Len(buf) - 3
  BY <1>1, StrippedIs
<1>3. Parser!AtBom <=> ~bomResolved /\ Marked(buf)
  BY <1>2 DEF Parser!AtBom
<1>4. Parser!Unread = IF ~bomResolved /\ Marked(buf) THEN Parser!Stripped(buf) ELSE buf
  BY <1>2, <1>3 DEF Parser!Unread, Parser!Stripped
<1>5. Parser!Unread \in Seq(Bytes) /\ Len(Parser!Unread) \in Nat /\ Len(Parser!Unread) <= Len(buf)
  <2>1. Parser!Unread \in Seq(Bytes)
    BY <1>1, <1>2, <1>4
  <2>2. Len(Parser!Unread) \in Nat
    BY <2>1, LenProperties
  <2> QED
    BY <1>2, <1>4, <2>1, <2>2
<1>6. Parser!Scanned = IF ~bomResolved /\ Marked(buf) THEN 0 ELSE scanFrom
  BY <1>3 DEF Parser!Scanned
<1>7. scanFrom \in 0 .. Len(buf) /\ \A i \in 1 .. scanFrom : ~Terminates(buf[i])
  BY DEF Held, Parser!IsTerminator, Terminates
<1>8. CASE ~bomResolved /\ Marked(buf)
  <2>1. Parser!Scanned = 0
    BY <1>6, <1>8
  <2> QED
    BY <1>4, <1>5, <2>1
<1>9. CASE ~(~bomResolved /\ Marked(buf))
  <2>1. Parser!Scanned = scanFrom /\ Parser!Unread = buf
    BY <1>4, <1>6, <1>9
  <2> QED
    BY <1>4, <1>5, <1>7, <2>1
<1> QED
  BY <1>8, <1>9

LEMMA LineEndIs ==
  ASSUME ParserTypes, Held
  PROVE  LET u == Parser!Unread
             e == Parser!LineEnd
         IN /\ e \in 0 .. Len(u)
            /\ e = 0 => \A i \in 1 .. Len(u) : ~Terminates(u[i])
            /\ e # 0 => Terminates(u[e]) /\ \A i \in 1 .. e - 1 : ~Terminates(u[i])
<1> DEFINE u == Parser!Unread
           n == Parser!Scanned
           e == Parser!LineEnd
           Q == {i \in n + 1 .. Len(u) : Terminates(u[i])}
<1>1. Len(u) \in Nat /\ n \in 0 .. Len(u) /\ \A i \in 1 .. n : ~Terminates(u[i])
  BY UnreadIs
<1>2. e = IF Q # {} THEN Parser!Min(Q) ELSE 0
  <2>1. {i \in n + 1 .. Len(u) : Parser!IsTerminator(u[i])} = Q
    BY DEF Parser!IsTerminator, Terminates
  <2>2. e = IF {i \in n + 1 .. Len(u) : Parser!IsTerminator(u[i])} # {}
            THEN Parser!Min({i \in n + 1 .. Len(u) : Parser!IsTerminator(u[i])}) ELSE 0
    BY DEF Parser!LineEnd, Parser!SelectInSubSeq
  <2> QED
    BY <2>1, <2>2
<1> HIDE DEF u, n, e
<1>3. \A i \in 1 .. Len(u) : Terminates(u[i]) => i \in Q
  BY <1>1
<1>4. CASE Q = {}
  BY <1>1, <1>2, <1>3, <1>4 DEF u, e
<1>5. CASE Q # {}
  <2>1. Q \subseteq Nat
    BY <1>1
  <2>2. Parser!Min(Q) \in Q /\ \A i \in Q : Parser!Min(Q) <= i
    BY <1>5, <2>1, LeastIs
  <2>3. e \in Q /\ \A i \in Q : e <= i
    BY <1>2, <1>5, <2>2
  <2>4. e \in 1 .. Len(u) /\ Terminates(u[e])
    BY <1>1, <2>3
  <2>5. ASSUME NEW i \in 1 .. e - 1 PROVE ~Terminates(u[i])
    <3>1. i \in 1 .. Len(u) /\ ~(e <= i)
      BY <1>1, <2>4
    <3> QED
      BY <1>3, <2>3, <3>1
  <2> QED
    BY <1>1, <2>4, <2>5 DEF u, e
<1> QED
  BY <1>4, <1>5

(* Once a mark can be told, what is held is the end of the content.        *)
LEMMA Reading ==
  ASSUME ParserTypes, Held, Open, Parser!BomDecided
  PROVE  /\ Settles(fed) \/ pc = "ending"
         /\ \E c \in 0 .. Len(fed) : ReadTo(Parser!Stripped(fed), c, Parser!Unread)
<1>1. buf \in Seq(Bytes) /\ fed \in Seq(Bytes) /\ chunk \in Seq(Bytes)
  BY DEF ParserTypes
<1>2. CASE bomResolved
  <2>1. Parser!Unread = buf
    BY <1>2, UnreadIs
  <2> QED
    BY <1>2, <2>1 DEF Open
<1>3. CASE ~bomResolved
  <2>0. Len(buf) \in Nat /\ Len(fed) \in Nat /\ Len(chunk) \in Nat
    BY <1>1, LenProperties
  <2>1. Holds(fed, 0, buf, chunk) /\ Untouched
    BY <1>3 DEF Open
  <2>2. /\ Len(fed) = Len(buf) + Len(chunk) /\ \A i \in 1 .. Len(buf) : fed[i] = buf[i]
        /\ \A i \in 1 .. Len(chunk) : fed[Len(buf) + i] = chunk[i]
    <3>1. /\ Len(fed) = 0 + Len(buf) + Len(chunk) /\ \A i \in 1 .. Len(buf) : fed[0 + i] = buf[i]
          /\ \A i \in 1 .. Len(chunk) : fed[0 + Len(buf) + i] = chunk[i]
      BY <2>1 DEF Holds
    <3>2. /\ 0 + Len(buf) = Len(buf) /\ \A i \in 1 .. Len(buf) : 0 + i = i
      BY <2>0
    <3> QED
      BY <3>1, <3>2
  <2>3. Settles(buf) \/ pc = "ending"
    BY <1>3 DEF Parser!BomDecided, Settles
  <2>4. (Settles(fed) \/ pc = "ending") /\ (Marked(fed) <=> Marked(buf))
    <3>1. CASE Settles(buf)
      <4>1. Len(buf) <= Len(fed)
        BY <2>0, <2>2
      <4>2. Settles(fed) /\ (Marked(fed) <=> Marked(buf))
        BY <1>1, <2>2, <3>1, <4>1, SettlesLonger
      <4> QED
        BY <4>2
    <3>2. CASE pc = "ending"
      <4>1. chunk = <<>>
        BY <3>2 DEF Open
      <4>2. Len(chunk) = 0
        BY <4>1, EmptySeq
      <4>3. Len(fed) = Len(buf)
        BY <2>0, <2>2, <4>2
      <4>4. fed = buf
        BY <1>1, <2>2, <4>3, SeqEqual
      <4> QED
        BY <3>2, <4>4
    <3> QED
      BY <2>3, <3>1, <3>2
  <2> DEFINE t == Parser!Stripped(fed)
             u == Parser!Unread
  <2>5. t \in Seq(Bytes) /\ u \in Seq(Bytes) /\ Len(u) \in Nat
    BY <1>1, StrippedIs, UnreadIs
  <2>6. u = IF Marked(buf) THEN Parser!Stripped(buf) ELSE buf
    BY <1>3, UnreadIs
  <2>7. /\ Marked(fed) => Len(t) = Len(fed) - 3 /\ \A i \in 1 .. Len(fed) - 3 : t[i] = fed[i + 3]
        /\ ~Marked(fed) => t = fed
    BY <1>1, StrippedIs
  <2>8. /\ Marked(buf) => Len(u) = Len(buf) - 3 /\ \A i \in 1 .. Len(buf) - 3 : u[i] = buf[i + 3]
        /\ ~Marked(buf) => u = buf
        /\ Marked(buf) => 3 <= Len(buf)
    BY <1>1, <2>6, StrippedIs DEF Marked
  <2> HIDE DEF t, u
  <2>9. /\ Len(t) = Len(u) + Len(chunk)
        /\ \A i \in 1 .. Len(u) : t[i] = u[i]
        /\ \A i \in 1 .. Len(chunk) : t[Len(u) + i] = chunk[i]
    <3>1. CASE Marked(buf)
      <4>1. Len(t) = Len(fed) - 3 /\ Len(u) = Len(buf) - 3 /\ 3 <= Len(buf)
        BY <2>4, <2>7, <2>8, <3>1
      <4>2. ASSUME NEW i \in 1 .. Len(u) PROVE t[i] = u[i]
        <5>1. i \in 1 .. Len(fed) - 3 /\ i \in 1 .. Len(buf) - 3 /\ i + 3 \in 1 .. Len(buf)
          BY <2>0, <2>2, <4>1
        <5> QED
          BY <2>2, <2>4, <2>7, <2>8, <3>1, <5>1
      <4>3. ASSUME NEW i \in 1 .. Len(chunk) PROVE t[Len(u) + i] = chunk[i]
        <5>1. Len(u) + i \in 1 .. Len(fed) - 3 /\ Len(u) + i + 3 = Len(buf) + i
          BY <2>0, <2>2, <4>1
        <5> QED
          BY <2>2, <2>4, <2>7, <3>1, <5>1
      <4> QED
        BY <2>0, <2>2, <4>1, <4>2, <4>3
    <3>2. CASE ~Marked(buf)
      <4>1. t = fed /\ u = buf
        BY <2>4, <2>7, <2>8, <3>2
      <4> QED
        BY <2>2, <4>1
    <3> QED
      BY <3>1, <3>2
  <2>10. Holds(t, 0, u, chunk)
    <3>1. 0 + Len(u) = Len(u) /\ \A i \in 1 .. Len(u) : 0 + i = i
      BY <2>5
    <3> QED
      BY <2>9, <3>1 DEF Holds
  <2>11. Boundary(t, 0) /\ Within(t, 0) /\ Collected(t, 0, <<>>, <<>>, Parser!None, <<>>)
    BY <2>5, NothingYet
  <2>12. popped \o queue = <<>>
    <3>1. popped = <<>> /\ queue = <<>> /\ <<>> \in Seq({})
      BY <2>1, EmptySeq DEF Untouched
    <3> QED
      BY <3>1, ConcatEmptySeq
  <2>13. ReadTo(t, 0, u)
    BY <2>1, <2>10, <2>11, <2>12 DEF ReadTo, Untouched
  <2> QED
    BY <2>0, <2>4, <2>13 DEF t, u
<1> QED
  BY <1>2, <1>3

LEMMA LineDecided ==
  ASSUME ParserTypes, Held, Parser!LineEnd # 0
  PROVE  Parser!BomDecided
<1> SUFFICES ASSUME ~Parser!BomDecided PROVE FALSE
  OBVIOUS
<1>1. buf \in Seq(Bytes) /\ Len(buf) \in Nat
  BY LenProperties DEF ParserTypes
<1>2. ~bomResolved /\ ~Settles(buf)
  BY DEF Parser!BomDecided, Settles
<1>3. Len(buf) < 3 /\ \A i \in 1 .. Len(buf) : buf[i] = Parser!BOM[i]
  BY <1>1, <1>2, SettledIs
<1>4. Parser!Unread = buf
  <2>1. ~Marked(buf)
    BY <1>1, <1>3 DEF Marked
  <2> QED
    BY <2>1, UnreadIs
<1>5. Parser!LineEnd \in 1 .. Len(buf) /\ Terminates(buf[Parser!LineEnd])
  BY <1>1, <1>4, LineEndIs
<1>6. Parser!LineEnd \in 1 .. 3
  BY <1>1, <1>3, <1>5
<1> QED
  BY <1>3, <1>5, <1>6, MarkIs

(* The line that next_line returns, and what it leaves.                    *)
Taken(t, c, p) ==
  /\ p \in (c + 1) .. Len(t) /\ Terminates(t[p]) /\ \A i \in (c + 1) .. (p - 1) : ~Terminates(t[i])
  /\ p = c + Parser!LineEnd /\ Parser!Line = SubSeq(t, c + 1, p - 1)
  /\ Onward(t, p) \in 0 .. Len(fed) /\ Holds(t, Onward(t, p), Parser!Rest, chunk)
  /\ t[Onward(t, p)] = Parser!CR /\ Parser!Rest = <<>> => pc = "ending"
  /\ Parser!Rest \in Seq(Bytes) /\ Len(Parser!Rest) <= Len(buf)
  /\ p = Len(t) /\ t[p] = Parser!CR => pc = "ending"

LEMMA Taking ==
  ASSUME ParserTypes, Held, Open, Parser!Draining, Parser!HasLine
  PROVE  \E c \in 0 .. Len(fed) : \E p \in Nat :
           ReadTo(Parser!Stripped(fed), c, Parser!Unread) /\ Taken(Parser!Stripped(fed), c, p)
<1> DEFINE t == Parser!Stripped(fed)
           u == Parser!Unread
           e == Parser!LineEnd
           r == Parser!Rest
<1>1. /\ fed \in Seq(Bytes) /\ buf \in Seq(Bytes) /\ chunk \in Seq(Bytes)
      /\ Len(chunk) \in Nat /\ Len(buf) \in Nat /\ Len(fed) \in Nat
  BY LenProperties DEF ParserTypes
<1>2. t \in Seq(Bytes) /\ Len(t) \in Nat /\ Len(t) <= Len(fed) /\ \A i \in 1 .. Len(t) : t[i] \in Bytes
  <2>1. /\ t \in Seq(Bytes) /\ Len(fed) \in Nat /\ (~Marked(fed) => t = fed)
        /\ (Marked(fed) => Len(t) = Len(fed) - 3)
    BY <1>1, StrippedIs
  <2> HIDE DEF t
  <2>2. Len(t) \in Nat /\ \A i \in 1 .. Len(t) : t[i] \in Bytes
    BY <2>1, LenProperties, ElementOfSeq
  <2> QED
    BY <2>1, <2>2
<1>3. u \in Seq(Bytes) /\ Len(u) \in Nat /\ Len(u) <= Len(buf) /\ \A i \in 1 .. Len(u) : u[i] \in Bytes
  <2>1. u \in Seq(Bytes) /\ Len(u) \in Nat /\ Len(u) <= Len(buf)
    BY UnreadIs
  <2> HIDE DEF u
  <2> QED
    BY <2>1, ElementOfSeq
<1>4. e \in 1 .. Len(u) /\ Terminates(u[e]) /\ \A i \in 1 .. e - 1 : ~Terminates(u[i])
  <2>1. e # 0
    BY DEF Parser!HasLine
  <2> QED
    BY <2>1, LineEndIs
<1>5. u[e] = Parser!CR /\ e = Len(u) => pc = "ending"
  BY DEF Parser!HasLine, Parser!HoldsCr
<1>6. pc = "ending" => chunk = <<>>
  BY DEF Open
<1>7. PICK c \in 0 .. Len(fed) : ReadTo(t, c, u)
  <2>1. Parser!BomDecided
    BY LineDecided DEF Parser!HasLine
  <2> QED
    BY <2>1, Reading
<1>8. r = SubSeq(u, (IF u[e] = Parser!CR /\ e < Len(u) /\ u[e + 1] = Parser!LF THEN e + 2 ELSE e + 1), Len(u))
  BY DEF Parser!Rest
<1>9. Parser!Line = SubSeq(u, 1, e - 1)
  BY DEF Parser!Line
<1>10. Holds(t, c, u, chunk)
  BY <1>7 DEF ReadTo
<1> HIDE DEF t, u, e, r
<1>11. /\ c \in Nat /\ Len(t) = c + Len(u) + Len(chunk)
       /\ \A i \in 1 .. Len(u) : t[c + i] = u[i]
       /\ \A i \in 1 .. Len(chunk) : t[c + Len(u) + i] = chunk[i]
  BY <1>10 DEF Holds
<1> DEFINE p == c + e
           crlf == u[e] = Parser!CR /\ e < Len(u) /\ u[e + 1] = Parser!LF
           k == IF crlf THEN e + 1 ELSE e
<1>12. p \in (c + 1) .. Len(t) /\ p \in Nat /\ e \in Nat /\ p - 1 = c + (e - 1)
  BY <1>1, <1>3, <1>4, <1>11
<1>13. t[p] = u[e] /\ Terminates(t[p])
  BY <1>4, <1>11
<1>14. ASSUME NEW i \in (c + 1) .. (p - 1) PROVE ~Terminates(t[i])
  <2>1. i - c \in 1 .. e - 1 /\ i - c \in 1 .. Len(u) /\ c + (i - c) = i
    BY <1>3, <1>4, <1>11, <1>12
  <2>2. t[c + (i - c)] = u[i - c]
    BY <1>11, <2>1
  <2> QED
    BY <1>4, <2>1, <2>2
<1>15. Parser!Line = SubSeq(t, c + 1, p - 1)
  <2>1. \A i \in 1 .. e - 1 : u[i] \in Bytes /\ t[i - 1 + (c + 1)] = u[i]
    <3>1. \A i \in 1 .. e - 1 : i \in 1 .. Len(u) /\ i - 1 + (c + 1) = c + i
      BY <1>3, <1>4, <1>11
    <3> QED
      BY <1>3, <1>11, <3>1
  <2>2. /\ 1 \in Int /\ e - 1 \in Int /\ c + 1 \in Int /\ p - 1 \in Int
        /\ (e - 1) - 1 = (p - 1) - (c + 1)
    BY <1>11, <1>12
  <2>3. SubSeq(u, 1, e - 1) = SubSeq(t, c + 1, p - 1)
    <3> HIDE DEF p
    <3>1. PICK b, d : b = e - 1 /\ d = p - 1
      OBVIOUS
    <3>2. /\ b \in Int /\ c + 1 \in Int /\ d \in Int /\ b - 1 = d - (c + 1)
          /\ \A i \in 1 .. b : u[i] \in Bytes /\ t[i - 1 + (c + 1)] = u[i]
      BY <2>1, <2>2, <3>1
    <3>3. SubSeq(u, 1, b) = SubSeq(t, c + 1, d)
      BY <3>2, SameSubSeq
    <3> QED
      BY <3>1, <3>3
  <2> QED
    BY <1>9, <2>3
<1>16. p = Len(t) /\ t[p] = Parser!CR => pc = "ending"
  BY <1>1, <1>4, <1>5, <1>11, <1>13
<1>17. Onward(t, p) = c + k /\ k \in 1 .. Len(u)
  <2>1. Onward(t, p) = IF t[p] = Parser!CR /\ p < Len(t) /\ t[p + 1] = Parser!LF THEN p + 1 ELSE p
    <3>1. Boundary(t, c)
      BY <1>7 DEF ReadTo
    <3> QED
      BY <1>2, <1>12, <1>13, <1>14, <3>1, NextLine
  <2>2. CASE e < Len(u)
    <3>1. t[p + 1] = u[e + 1] /\ p < Len(t)
      <4>1. e + 1 \in 1 .. Len(u) /\ c + (e + 1) = p + 1
        BY <1>3, <1>4, <1>11, <2>2
      <4>2. t[c + (e + 1)] = u[e + 1]
        BY <1>11, <4>1
      <4>3. p < Len(t)
        BY <1>1, <1>3, <1>4, <1>11, <2>2
      <4> QED
        BY <4>1, <4>2, <4>3
    <3>2. Onward(t, p) = IF crlf THEN p + 1 ELSE p
      BY <1>13, <2>1, <2>2, <3>1
    <3> QED
      BY <1>3, <1>4, <1>11, <2>2, <3>2
  <2>3. CASE e = Len(u)
    <3>1. ~crlf
      BY <1>3, <2>3
    <3>2. ~(t[p] = Parser!CR /\ p < Len(t) /\ t[p + 1] = Parser!LF)
      <4> SUFFICES ASSUME t[p] = Parser!CR, p < Len(t) PROVE FALSE
        OBVIOUS
      <4>1. pc = "ending"
        BY <1>5, <1>13, <2>3
      <4>2. Len(chunk) = 0
        BY <1>6, <4>1, EmptySeq
      <4> QED
        BY <1>3, <1>11, <2>3, <4>2
    <3> QED
      BY <1>3, <1>4, <1>11, <2>1, <2>3, <3>1, <3>2
  <2> QED
    BY <1>3, <1>4, <2>2, <2>3
<1>18. r = SubSeq(u, k + 1, Len(u))
  <2>1. k + 1 = IF crlf THEN e + 2 ELSE e + 1
    BY <1>12
  <2> QED
    BY <1>8, <2>1
<1> HIDE DEF p, k
<1>19. r \in Seq(Bytes) /\ Len(r) = Len(u) - k /\ \A i \in 1 .. Len(u) - k : r[i] = u[k + i]
  <2>1. \A i \in k + 1 .. Len(u) : u[i] \in Bytes
    BY <1>3, <1>17
  <2>2. /\ r \in Seq(Bytes) /\ Len(r) = IF k + 1 <= Len(u) THEN Len(u) - (k + 1) + 1 ELSE 0
        /\ \A i \in 1 .. Len(u) - (k + 1) + 1 : r[i] = u[(k + 1) + i - 1]
    BY <1>3, <1>17, <1>18, <2>1, SubSeqProperties
  <2>3. \A i \in 1 .. Len(u) - k : i \in 1 .. Len(u) - (k + 1) + 1 /\ (k + 1) + i - 1 = k + i
    BY <1>3, <1>17
  <2>4. Len(r) = Len(u) - k
    <3>1. Len(r) = IF k + 1 <= Len(u) THEN Len(u) - (k + 1) + 1 ELSE 0
      BY <2>2
    <3> QED
      BY <1>3, <1>17, <3>1
  <2> QED
    BY <2>2, <2>3, <2>4
<1>20. Holds(t, Onward(t, p), r, chunk)
  <2> DEFINE o == c + k
  <2>1. o \in Nat /\ Len(t) = o + Len(r) + Len(chunk)
    BY <1>1, <1>3, <1>11, <1>17, <1>19
  <2>2. ASSUME NEW i \in 1 .. Len(r) PROVE t[o + i] = r[i]
    <3>1. k + i \in 1 .. Len(u) /\ i \in 1 .. Len(u) - k /\ c + (k + i) = o + i
      BY <1>3, <1>11, <1>17, <1>19
    <3>2. t[c + (k + i)] = u[k + i] /\ r[i] = u[k + i]
      BY <1>11, <1>19, <3>1
    <3> QED
      BY <3>1, <3>2
  <2>3. ASSUME NEW i \in 1 .. Len(chunk) PROVE t[o + Len(r) + i] = chunk[i]
    <3>1. o + Len(r) + i = c + Len(u) + i
      BY <1>1, <1>3, <1>11, <1>17, <1>19
    <3> QED
      BY <1>11, <3>1
  <2>4. Holds(t, o, r, chunk)
    BY <2>1, <2>2, <2>3 DEF Holds
  <2> QED
    BY <1>17, <2>4
<1>21. t[Onward(t, p)] = Parser!CR /\ r = <<>> => pc = "ending"
  <2> SUFFICES ASSUME t[c + k] = Parser!CR, r = <<>> PROVE pc = "ending"
    BY <1>17
  <2>1. Len(r) = 0 /\ k = Len(u)
    <3>1. Len(r) = 0
      BY EmptySeq
    <3> QED
      BY <1>3, <1>17, <1>19, <3>1
  <2>2. u[k] = Parser!CR
    BY <1>11, <1>17
  <2>3. CASE crlf
    BY <2>2, <2>3, <1>12, MarksDiffer DEF k
  <2>4. CASE ~crlf
    BY <1>5, <2>1, <2>2, <2>4 DEF k
  <2> QED
    BY <2>3, <2>4
<1>22. Onward(t, p) \in 0 .. Len(fed) /\ Len(r) <= Len(buf)
  BY <1>1, <1>2, <1>3, <1>11, <1>17, <1>19
<1>23. Taken(t, c, p)
  <2>1. p = c + Parser!LineEnd
    BY DEF p, e
  <2> QED
    BY <1>12, <1>13, <1>14, <1>15, <1>16, <1>19, <1>20, <1>21, <1>22, <2>1 DEF Taken, r
<1> QED
  BY <1>7, <1>12, <1>23 DEF t, u

-----------------------------------------------------------------------------
(* What stays when a text becomes longer, or loses a CR at its end.        *)
LEMMA SameBoundary ==
  ASSUME NEW t \in Seq(Bytes), NEW u \in Seq(Bytes), NEW c, Boundary(t, c), c <= Len(u),
         \A i \in 1 .. c : u[i] = t[i],
         c # 0 /\ c < Len(u) /\ t[c] = Parser!CR => u[c + 1] # Parser!LF
  PROVE  /\ Boundary(u, c) /\ (Within(t, c) => Within(u, c))
         /\ \A d, e, i, f : Collected(t, c, d, e, i, f) => Collected(u, c, d, e, i, f)
<1>1. Len(t) \in Nat /\ Len(u) \in Nat /\ c \in 0 .. Len(u)
  <2>1. Len(t) \in Nat /\ Len(u) \in Nat
    BY LenProperties
  <2> QED
    BY <2>1 DEF Boundary
<1>2. c # 0 => u[c] = t[c] /\ Terminates(t[c])
  BY <1>1 DEF Boundary
<1>3. Boundary(u, c)
  BY <1>1, <1>2 DEF Boundary
<1>4. Within(t, c) => Within(u, c)
  BY <1>3, SameView
<1>5. \A d, e, i, f : Collected(t, c, d, e, i, f) => Collected(u, c, d, e, i, f)
  BY <1>3, SameView
<1> QED
  BY <1>3, <1>4, <1>5

LEMMA TextView ==
  ASSUME NEW s \in Seq(Bytes), NEW done \in BOOLEAN, NEW c, NEW t, t = Parser!Stripped(s),
         NEW v, v = Parser!Text(s, done), Boundary(t, c), Within(t, c),
         NEW d, NEW e, NEW i, NEW f, Collected(t, c, d, e, i, f),
         c = Len(t) /\ c # 0 /\ t[c] = Parser!CR => done
  PROVE  /\ t \in Seq(Bytes) /\ v \in Seq(Bytes) /\ Boundary(v, c) /\ Within(v, c) /\ Collected(v, c, d, e, i, f)
         /\ Len(t) \in Nat /\ Len(v) \in Nat /\ c \in Nat /\ c <= Len(v) /\ Len(v) <= Len(t)
         /\ \A j \in 1 .. Len(v) : v[j] = t[j]
         /\ \/ Len(v) = Len(t) /\ (done \/ Len(t) = 0 \/ t[Len(t)] # Parser!CR)
            \/ Len(v) = Len(t) - 1 /\ t[Len(t)] = Parser!CR /\ ~done
<1>1. /\ t \in Seq(Bytes) /\ v \in Seq(Bytes) /\ Len(t) \in Nat
      /\ \/ v = t /\ (done \/ Len(t) = 0 \/ t[Len(t)] # Parser!CR)
         \/ /\ ~done /\ Len(t) > 0 /\ t[Len(t)] = Parser!CR
            /\ Len(v) = Len(t) - 1 /\ \A j \in 1 .. Len(v) : v[j] = t[j]
  BY TextIs
<1>2. c \in 0 .. Len(t) /\ (c # 0 => ~(t[c] = Parser!CR /\ c < Len(t) /\ t[c + 1] = Parser!LF))
  BY DEF Boundary
<1>3. CASE v = t /\ (done \/ Len(t) = 0 \/ t[Len(t)] # Parser!CR)
  BY <1>1, <1>2, <1>3
<1>4. CASE /\ ~done /\ Len(t) > 0 /\ t[Len(t)] = Parser!CR
           /\ Len(v) = Len(t) - 1 /\ \A j \in 1 .. Len(v) : v[j] = t[j]
  <2>1. c <= Len(v) /\ Len(v) \in Nat /\ Len(v) <= Len(t)
    BY <1>1, <1>2, <1>4
  <2>2. \A j \in 1 .. c : v[j] = t[j]
    BY <1>2, <1>4, <2>1
  <2>3. c # 0 /\ c < Len(v) /\ t[c] = Parser!CR => v[c + 1] # Parser!LF
    <3>1. c < Len(v) => c + 1 \in 1 .. Len(v) /\ c < Len(t)
      BY <1>2, <2>1
    <3> QED
      BY <1>2, <1>4, <3>1
  <2>4. /\ Boundary(v, c) /\ (Within(t, c) => Within(v, c))
        /\ \A d1, e1, i1, f1 : Collected(t, c, d1, e1, i1, f1) => Collected(v, c, d1, e1, i1, f1)
    BY <1>1, <2>1, <2>2, <2>3, SameBoundary
  <2>5. Collected(v, c, d, e, i, f)
    BY <2>4
  <2> QED
    BY <1>1, <1>2, <1>4, <2>1, <2>4, <2>5
<1> QED
  BY <1>1, <1>3, <1>4

LEMMA HoldsMore ==
  ASSUME NEW s \in Seq(Bytes), NEW x \in Seq(Bytes), NEW c, NEW b \in Seq(Bytes), Holds(s, c, b, <<>>)
  PROVE  Holds(s \o x, c, b, x)
<1> DEFINE u == s \o x
<1>1. Len(s) \in Nat /\ Len(x) \in Nat /\ Len(b) \in Nat /\ Len(<<>>) = 0
  BY LenProperties
<1>2. /\ Len(u) = Len(s) + Len(x)
      /\ \A i \in 1 .. Len(s) + Len(x) : u[i] = IF i <= Len(s) THEN s[i] ELSE x[i - Len(s)]
  BY ConcatProperties
<1>3. c \in Nat /\ Len(s) = c + Len(b) /\ \A i \in 1 .. Len(b) : s[c + i] = b[i]
  BY <1>1 DEF Holds
<1> HIDE DEF u
<1>4. ASSUME NEW i \in 1 .. Len(b) PROVE u[c + i] = b[i]
  <2>1. c + i \in 1 .. Len(s) + Len(x) /\ c + i <= Len(s)
    BY <1>1, <1>3
  <2> QED
    BY <1>2, <1>3, <2>1
<1>5. ASSUME NEW i \in 1 .. Len(x) PROVE u[c + Len(b) + i] = x[i]
  <2>0. PICK j : j = c + Len(b) + i
    OBVIOUS
  <2>1. j \in 1 .. Len(s) + Len(x) /\ ~(j <= Len(s)) /\ j - Len(s) = i
    BY <1>1, <1>3, <2>0
  <2>2. u[j] = x[j - Len(s)]
    BY <1>2, <2>1
  <2> QED
    BY <2>0, <2>1, <2>2
<1>6. Len(u) = c + Len(b) + Len(x)
  BY <1>1, <1>2, <1>3
<1> QED
  BY <1>3, <1>4, <1>5, <1>6 DEF Holds, u

(* A piece of the chunk goes to the buffer.                                *)
LEMMA PieceIs ==
  ASSUME NEW b \in Seq(Bytes), NEW k \in Seq(Bytes), NEW m \in 0 .. Len(k),
         NEW piece, piece = SubSeq(k, 1, m), NEW rest, rest = SubSeq(k, m + 1, Len(k))
  PROVE  /\ piece \in Seq(Bytes) /\ Len(piece) = m /\ rest \in Seq(Bytes)
         /\ b \o piece \in Seq(Bytes) /\ Len(b \o piece) = Len(b) + m
         /\ \A i \in 1 .. Len(b) : (b \o piece)[i] = b[i]
         /\ \A t, c : Holds(t, c, b, k) => Holds(t, c, b \o piece, rest)
<1>1. Len(b) \in Nat /\ Len(k) \in Nat /\ \A i \in 1 .. Len(k) : k[i] \in Bytes
  BY LenProperties, ElementOfSeq
<1>2. /\ piece \in Seq(Bytes) /\ Len(piece) = m /\ \A i \in 1 .. m : piece[i] = k[i]
  <2>1. \A i \in 1 .. m : k[i] \in Bytes
    BY <1>1
  <2>2. /\ piece \in Seq(Bytes) /\ Len(piece) = IF 1 <= m THEN m - 1 + 1 ELSE 0
        /\ \A i \in 1 .. m - 1 + 1 : piece[i] = k[1 + i - 1]
    BY <1>1, <2>1, SubSeqProperties
  <2>3. m \in Nat /\ \A i \in 1 .. m : i \in 1 .. m - 1 + 1 /\ 1 + i - 1 = i
    BY <1>1
  <2>4. Len(piece) = m
    <3>1. Len(piece) = IF 1 <= m THEN m - 1 + 1 ELSE 0
      BY <2>2
    <3> QED
      BY <2>3, <3>1
  <2> QED
    BY <2>2, <2>3, <2>4
<1>3. /\ rest \in Seq(Bytes) /\ Len(rest) = Len(k) - m /\ \A i \in 1 .. Len(rest) : rest[i] = k[m + i]
  <2>1. \A i \in m + 1 .. Len(k) : k[i] \in Bytes
    BY <1>1
  <2>2. /\ rest \in Seq(Bytes) /\ Len(rest) = IF m + 1 <= Len(k) THEN Len(k) - (m + 1) + 1 ELSE 0
        /\ \A i \in 1 .. Len(k) - (m + 1) + 1 : rest[i] = k[(m + 1) + i - 1]
    BY <1>1, <2>1, SubSeqProperties
  <2>3. Len(rest) = Len(k) - m
    <3>1. Len(rest) = IF m + 1 <= Len(k) THEN Len(k) - (m + 1) + 1 ELSE 0
      BY <2>2
    <3> QED
      BY <1>1, <3>1
  <2>4. \A i \in 1 .. Len(k) - m : i \in 1 .. Len(k) - (m + 1) + 1 /\ (m + 1) + i - 1 = m + i
    BY <1>1
  <2> QED
    BY <2>2, <2>3, <2>4
<1> DEFINE u == b \o piece
<1>4. /\ u \in Seq(Bytes) /\ Len(u) = Len(b) + m
      /\ \A i \in 1 .. Len(b) + m : u[i] = IF i <= Len(b) THEN b[i] ELSE piece[i - Len(b)]
  <2>1. /\ u \in Seq(Bytes) /\ Len(u) = Len(b) + Len(piece)
        /\ \A i \in 1 .. Len(b) + Len(piece) : u[i] = IF i <= Len(b) THEN b[i] ELSE piece[i - Len(b)]
    BY <1>2, ConcatProperties
  <2> QED
    BY <1>2, <2>1
<1> HIDE DEF u
<1>5. \A i \in 1 .. Len(b) : u[i] = b[i]
  BY <1>1, <1>4
<1>6. ASSUME NEW t, NEW c, Holds(t, c, b, k) PROVE Holds(t, c, u, rest)
  <2>1. /\ c \in Nat /\ Len(t) = c + Len(b) + Len(k)
        /\ \A i \in 1 .. Len(b) : t[c + i] = b[i]
        /\ \A i \in 1 .. Len(k) : t[c + Len(b) + i] = k[i]
    BY <1>6 DEF Holds
  <2>2. Len(t) = c + Len(u) + Len(rest)
    <3>1. c \in Nat /\ Len(b) \in Nat /\ Len(k) \in Nat /\ Len(t) = c + Len(b) + Len(k)
      <4>1. Len(b) \in Nat /\ Len(k) \in Nat
        BY LenProperties
      <4> QED
        BY <2>1, <4>1
    <3>2. Len(u) = Len(b) + m /\ Len(rest) = Len(k) - m
      BY <1>3, <1>4, Zenon
    <3>3. PICK x, y, z : x = Len(u) /\ y = Len(rest) /\ z = Len(t)
      OBVIOUS
    <3>4. z = c + x + y
      BY <3>1, <3>2, <3>3
    <3> QED
      BY <3>3, <3>4
  <2>3. ASSUME NEW i \in 1 .. Len(u) PROVE t[c + i] = u[i]
    <3>1. CASE i <= Len(b)
      BY <1>1, <1>5, <2>1, <3>1
    <3>2. CASE ~(i <= Len(b))
      <4>1. i - Len(b) \in 1 .. m /\ i - Len(b) \in 1 .. Len(k) /\ c + Len(b) + (i - Len(b)) = c + i
        BY <1>1, <1>4, <2>1, <3>2
      <4>2. t[c + Len(b) + (i - Len(b))] = k[i - Len(b)]
        BY <2>1, <4>1
      <4>3. u[i] = piece[i - Len(b)]
        BY <1>4, <3>2
      <4> QED
        BY <1>2, <4>1, <4>2, <4>3
    <3> QED
      BY <3>1, <3>2
  <2>4. ASSUME NEW i \in 1 .. Len(rest) PROVE t[c + Len(u) + i] = rest[i]
    <3>1. m + i \in 1 .. Len(k) /\ c + Len(b) + (m + i) = c + Len(u) + i
      BY <1>1, <1>3, <1>4, <2>1
    <3>2. t[c + Len(b) + (m + i)] = k[m + i]
      BY <2>1, <3>1
    <3> QED
      BY <1>3, <3>1, <3>2
  <2> QED
    BY <2>1, <2>2, <2>3, <2>4 DEF Holds
<1> QED
  BY <1>2, <1>3, <1>4, <1>5, <1>6 DEF u

-----------------------------------------------------------------------------
(* The value of a field is a part of its line.                             *)
LEMMA FieldIs ==
  ASSUME NEW l \in Seq(Bytes)
  PROVE  Parser!Field(l).value \in Seq(Bytes)
<1> DEFINE C == {i \in 1 .. Len(l) : l[i] = ":"}
           k == IF C # {} THEN Parser!Min(C) ELSE 0
           rest == SubSeq(l, k + 1, Len(l))
<1>1. Len(l) \in Nat /\ \A i \in 1 .. Len(l) : l[i] \in Bytes
  BY ElementOfSeq, LenProperties
<1>2. Parser!Field(l).value = IF k = 0 THEN <<>>
                              ELSE IF rest # <<>> /\ rest[1] = "sp" THEN Tail(rest) ELSE rest
  BY DEF Parser!Field, Parser!SelectInSeq, Parser!SelectInSubSeq
<1>3. k \in Nat
  <2>1. CASE C = {}
    BY <2>1
  <2>2. CASE C # {}
    <3>1. C \subseteq Nat
      BY <1>1
    <3>2. Parser!Min(C) \in C
      BY <2>2, <3>1, LeastIs
    <3> QED
      BY <2>2, <3>1, <3>2
  <2> QED
    BY <2>1, <2>2
<1> HIDE DEF k
<1>4. rest \in Seq(Bytes)
  <2>1. \A i \in k + 1 .. Len(l) : l[i] \in Bytes
    BY <1>1, <1>3
  <2> QED
    BY <1>1, <1>3, <2>1, SubSeqProperties
<1> HIDE DEF rest
<1>5. rest # <<>> => Tail(rest) \in Seq(Bytes)
  BY <1>4, HeadTailProperties
<1>6. <<>> \in Seq(Bytes)
  BY EmptySeq
<1> QED
  BY <1>2, <1>4, <1>5, <1>6

(* A frame that is queued comes last of what the caller sees, and a frame  *)
(* that is taken stays where it was.                                       *)
LEMMA QueuedLast ==
  ASSUME NEW a \in Seq(Frame), NEW b \in Seq(Frame), NEW x \in Frame
  PROVE  Append(b, x) \in Seq(Frame) /\ a \o Append(b, x) = Append(a \o b, x)
<1>1. /\ Append(b, x) \in Seq(Frame) /\ Append(b, x) = b \o <<x>>
      /\ a \o b \in Seq(Frame) /\ Append(a \o b, x) = (a \o b) \o <<x>>
  BY AppendProperties, AppendIsConcat, ConcatProperties
<1>2. <<x>> \in Seq(Frame)
  OBVIOUS
<1>3. (a \o b) \o <<x>> = a \o (b \o <<x>>)
  BY <1>2, ConcatAssociative
<1> QED
  BY <1>1, <1>3

LEMMA TakenFirst ==
  ASSUME NEW a \in Seq(Frame), NEW b \in Seq(Frame), b # <<>>
  PROVE  /\ Append(a, Head(b)) \in Seq(Frame) /\ Tail(b) \in Seq(Frame)
         /\ Append(a, Head(b)) \o Tail(b) = a \o b
<1>1. Head(b) \in Frame /\ Tail(b) \in Seq(Frame)
  BY HeadTailProperties
<1>2. /\ Append(a, Head(b)) \in Seq(Frame) /\ Append(a, Head(b)) = a \o <<Head(b)>>
  BY <1>1, AppendProperties, AppendIsConcat
<1>3. <<Head(b)>> \in Seq(Frame)
  BY <1>1
<1>4. (a \o <<Head(b)>>) \o Tail(b) = a \o (<<Head(b)>> \o Tail(b))
  BY <1>1, <1>3, ConcatAssociative
<1>5. <<Head(b)>> \o Tail(b) = b
  <2> DEFINE h == <<Head(b)>> \o Tail(b)
  <2>1. Len(b) \in Nat /\ Len(b) > 0 /\ Len(Tail(b)) = Len(b) - 1
    BY EmptySeq, HeadTailProperties
  <2>2. Len(<<Head(b)>>) = 1 /\ <<Head(b)>>[1] = Head(b) /\ Head(b) = b[1]
    OBVIOUS
  <2>3. /\ h \in Seq(Frame) /\ Len(h) = 1 + Len(Tail(b))
        /\ \A i \in 1 .. 1 + Len(Tail(b)) : h[i] = IF i <= 1 THEN <<Head(b)>>[i] ELSE Tail(b)[i - 1]
    BY <1>1, <1>3, <2>2, ConcatProperties
  <2>4. \A i \in 1 .. Len(Tail(b)) : Tail(b)[i] = b[i + 1]
    BY HeadTailProperties
  <2> HIDE DEF h
  <2>5. Len(h) = Len(b)
    BY <2>1, <2>3
  <2>6. ASSUME NEW i \in 1 .. Len(b) PROVE h[i] = b[i]
    <3>1. CASE i = 1
      BY <2>1, <2>2, <2>3, <3>1
    <3>2. CASE i # 1
      <4>1. /\ i \in 1 .. 1 + Len(Tail(b)) /\ ~(i <= 1) /\ i - 1 \in 1 .. Len(Tail(b)) /\ (i - 1) + 1 = i
        BY <2>1, <3>2
      <4>2. h[i] = Tail(b)[i - 1]
        BY <2>3, <4>1
      <4>3. Tail(b)[i - 1] = b[(i - 1) + 1]
        BY <2>4, <4>1
      <4> QED
        BY <4>1, <4>2, <4>3
    <3> QED
      BY <3>1, <3>2
  <2>7. h = b
    BY <2>3, <2>5, <2>6, SeqEqual
  <2> QED
    BY <2>7 DEF h
<1> QED
  BY <1>1, <1>2, <1>4, <1>5

LEMMA FramesFit ==
  /\ \A e \in Seq(Bytes), d \in Seq(Seq(Bytes)), i \in Seq(Bytes) : Parser!Message(e, d, i) \in Frame
  /\ \A v \in Seq(Bytes) : Parser!Retry(v) \in Frame
  BY DEF Frame, Parser!Message, Parser!Retry

(* A data line more.                                                       *)
LEMMA MoreData ==
  ASSUME NEW d \in Seq(Seq(Bytes)), NEW v \in Seq(Bytes)
  PROVE  /\ Append(d, v) \in Seq(Seq(Bytes)) /\ Len(v) \in Nat
         /\ Parser!Size(Append(d, v)) = Parser!Size(d) + Len(v) + 1
<1>1. Len(d) \in Nat /\ d = [i \in 1 .. Len(d) |-> d[i]]
  BY LenProperties
<1>2. Parser!Size(Append(d, v)) = Parser!Size(d) + Len(v) + 1
  BY <1>1, SizeGrows
<1>3. Append(d, v) \in Seq(Seq(Bytes))
  BY AppendProperties
<1>4. Len(v) \in Nat
  BY LenProperties
<1> QED
  BY <1>2, <1>3, <1>4

-----------------------------------------------------------------------------
(* A parser that was given nothing.                                        *)
LEMMA ParserStarts == Parser!Init => ParserInv
<1> SUFFICES ASSUME Parser!Init PROVE ParserInv
  OBVIOUS
<1>1. wire \in Seq(Bytes)
  <2>1. wire \in Streams
    BY DEF Parser!Init
  <2>2. wire \in Seq(Range(wire)) /\ Range(wire) \subseteq Bytes
    BY <2>1, StreamsAssumption DEF Bytes
  <2> QED
    BY <2>2, SeqMonotonic
<1>2. /\ <<>> \in Seq(Bytes) /\ <<>> \in Seq(Seq(Bytes)) /\ <<>> \in Seq(Frame) /\ Len(<<>>) = 0
  BY EmptySeq
<1>3. Parser!None \in Seq(Bytes)
  <2>1. "none" \in Bytes
    BY DEF Bytes
  <2> QED
    BY <2>1 DEF Parser!None
<1>4. /\ pc = "idle" /\ chunk = <<>> /\ buf = <<>> /\ scanFrom = 0 /\ bomResolved = FALSE
      /\ pendingEvent = <<>> /\ pendingData = <<>> /\ lastId = Parser!None
      /\ queue = <<>> /\ closed = FALSE /\ overflow = "none"
      /\ fed = <<>> /\ ended = FALSE /\ popped = <<>>
  BY DEF Parser!Init
<1>5. ParserTypes
  BY <1>1, <1>2, <1>3, <1>4 DEF ParserTypes
<1>6. Held
  <2>1. ~Settles(<<>>)
    <3>1. Parser!IsPrefix(<<>>, Parser!BOM)
      <4>1. Len(<<>>) <= Len(Parser!BOM) /\ \A i \in 1 .. Len(<<>>) : <<>>[i] = Parser!BOM[i]
        BY <1>2, MarkIs
      <4> QED
        BY <1>2, <4>1, MarkIs, PrefixIs
    <3> QED
      BY <1>2, <3>1 DEF Settles
  <2>2. Parser!Size(<<>>) = 0
    BY SizeGrows
  <2>3. MaxLine \in Nat /\ MaxEvent \in Nat /\ PieceLen \in Nat
    BY StreamsAssumption
  <2> QED
    BY <1>2, <1>4, <2>1, <2>2, <2>3 DEF Held, Most
<1>7. Open
  <2>1. Holds(<<>>, 0, <<>>, <<>>)
    BY <1>2 DEF Holds
  <2> QED
    BY <1>4, <2>1 DEF Open, Untouched
<1> QED
  BY <1>4, <1>5, <1>6, <1>7 DEF ParserInv

-----------------------------------------------------------------------------
(* Steps that read nothing.                                                *)
LEMMA OpenOrDone ==
  ASSUME ParserInv, pc # "idle" PROVE ParserTypes /\ Held /\ Open /\ ~closed
  BY DEF ParserInv, Done

LEMMA ParserStutters == ParserInv /\ UNCHANGED Parser!vars => ParserInv'
<1> SUFFICES ASSUME ParserInv, UNCHANGED Parser!vars PROVE ParserInv'
  OBVIOUS
<1>1. /\ UNCHANGED <<wire, pc, chunk, buf, scanFrom, bomResolved, pendingEvent, pendingData, lastId>>
      /\ UNCHANGED <<queue, closed, overflow, fed, ended, popped>>
  BY DEF Parser!vars, Parser!splitter, Parser!dispatcher, Parser!history
<1> QED
  BY <1>1 DEF ParserInv, ParserTypes, Held, Open, Done, ReadTo, Untouched

LEMMA FeedClosedKeeps == ParserInv /\ Parser!FeedClosed => ParserInv'
<1> SUFFICES ASSUME ParserInv, Parser!FeedClosed PROVE ParserInv'
  OBVIOUS
<1>1. /\ closed /\ wire' = <<>>
      /\ UNCHANGED <<pc, chunk, buf, scanFrom, bomResolved, pendingEvent, pendingData, lastId>>
      /\ UNCHANGED <<queue, closed, overflow, fed, ended, popped>>
  BY DEF Parser!FeedClosed, Parser!splitter, Parser!dispatcher, Parser!history
<1>2. <<>> \in Seq(Bytes)
  BY EmptySeq
<1> QED
  BY <1>1, <1>2 DEF ParserInv, ParserTypes, Held, Done

LEMMA FeedReturnsKeeps == ParserInv /\ Parser!FeedReturns => ParserInv'
<1> SUFFICES ASSUME ParserInv, Parser!FeedReturns PROVE ParserInv'
  OBVIOUS
<1>1. /\ pc = "copy" /\ pc' = "idle" /\ chunk = <<>>
      /\ UNCHANGED <<wire, chunk, buf, scanFrom, bomResolved, pendingEvent, pendingData, lastId>>
      /\ UNCHANGED <<queue, closed, overflow, fed, ended, popped>>
  BY DEF Parser!FeedReturns, Parser!splitter, Parser!dispatcher, Parser!history
<1>2. ParserTypes /\ Held /\ Open /\ ~closed
  BY <1>1, OpenOrDone
<1>3. ParserTypes'
  BY <1>1, <1>2 DEF ParserTypes
<1>4. Held'
  BY <1>1, <1>2 DEF Held
<1>5. Open'
  BY <1>1, <1>2 DEF Open, ReadTo, Untouched
<1> QED
  BY <1>1, <1>2, <1>3, <1>4, <1>5 DEF ParserInv

LEMMA EndKeeps == ParserInv /\ Parser!End => ParserInv'
<1> SUFFICES ASSUME ParserInv, Parser!End PROVE ParserInv'
  OBVIOUS
<1>1. /\ pc = "idle" /\ ~closed /\ pc' = "ending" /\ ended' = TRUE
      /\ UNCHANGED <<wire, chunk, buf, scanFrom, bomResolved, pendingEvent, pendingData, lastId>>
      /\ UNCHANGED <<queue, closed, overflow, fed, popped>>
  BY DEF Parser!End, Parser!splitter, Parser!dispatcher
<1>2. ParserTypes /\ Held /\ Open
  BY <1>1 DEF ParserInv
<1>3. ParserTypes'
  BY <1>1, <1>2 DEF ParserTypes
<1>4. Held'
  BY <1>1, <1>2 DEF Held
<1>5. Open'
  BY <1>1, <1>2 DEF Open, ReadTo, Untouched
<1> QED
  BY <1>1, <1>3, <1>4, <1>5 DEF ParserInv

(* The caller takes a frame, of an open parser or of a closed one.         *)
LEMMA NextFrameKeeps == ParserInv /\ Parser!NextFrame => ParserInv'
<1> SUFFICES ASSUME ParserInv, Parser!NextFrame PROVE ParserInv'
  OBVIOUS
<1>1. /\ queue # <<>> /\ popped' = Append(popped, Head(queue)) /\ queue' = Tail(queue)
      /\ UNCHANGED <<wire, pc, chunk, buf, scanFrom, bomResolved, pendingEvent, pendingData, lastId>>
      /\ UNCHANGED <<closed, overflow, fed, ended>>
  BY DEF Parser!NextFrame, Parser!splitter, Parser!dispatcher
<1>2. /\ ParserTypes /\ Held /\ (~closed => Open) /\ (closed => Done)
      /\ queue \in Seq(Frame) /\ popped \in Seq(Frame)
  BY DEF ParserInv, ParserTypes
<1>3. popped' \in Seq(Frame) /\ queue' \in Seq(Frame) /\ popped' \o queue' = popped \o queue
  BY <1>1, <1>2, TakenFirst
<1>4. ParserTypes'
  BY <1>1, <1>2, <1>3 DEF ParserTypes
<1>5. Held'
  BY <1>1, <1>2 DEF Held
<1>6. Done => Done'
  BY <1>1, <1>3 DEF Done
<1>7. Open => Open'
  BY <1>1, <1>3 DEF Open, ReadTo, Untouched
<1> QED
  BY <1>1, <1>2, <1>4, <1>5, <1>6, <1>7 DEF ParserInv

(* What an overflow leaves, if the reference has it.                       *)
LEMMA Abandoned ==
  ASSUME ParserTypes, NEW why, Parser!Abandon(why),
         Parser!Reference(fed, ended) = [frames |-> popped \o queue, overflow |-> why]
  PROVE  ParserInv'
<1>1. /\ overflow' = why /\ closed' = TRUE /\ pc' = "idle" /\ chunk' = <<>>
      /\ buf' = <<>> /\ scanFrom' = 0 /\ bomResolved' = FALSE
      /\ pendingEvent' = <<>> /\ pendingData' = <<>> /\ lastId' = Parser!None
      /\ UNCHANGED <<wire, queue, fed, ended, popped>>
  BY DEF Parser!Abandon, Parser!history
<1>2. <<>> \in Seq(Bytes) /\ <<>> \in Seq(Seq(Bytes)) /\ Len(<<>>) = 0
  BY EmptySeq
<1>3. Parser!None \in Seq(Bytes)
  <2>1. "none" \in Bytes
    BY DEF Bytes
  <2> QED
    BY <2>1 DEF Parser!None
<1>4. ParserTypes'
  BY <1>1, <1>2, <1>3 DEF ParserTypes
<1>5. Held'
  <2>1. Parser!Size(<<>>) = 0
    BY SizeGrows
  <2>2. MaxLine \in Nat /\ MaxEvent \in Nat /\ PieceLen \in Nat
    BY StreamsAssumption
  <2> QED
    BY <1>1, <1>2, <2>1, <2>2 DEF Held, Most
<1>6. Done'
  BY <1>1 DEF Done
<1> QED
  BY <1>1, <1>4, <1>5, <1>6 DEF ParserInv

-----------------------------------------------------------------------------
(* Steps that hand over bytes.                                             *)
LEMMA FeedKeeps == ASSUME ParserInv, NEW n \in 1 .. Len(wire), Parser!Feed(n) PROVE ParserInv'
<1>1. /\ pc = "idle" /\ ~closed /\ pc' = "copy"
      /\ chunk' = SubSeq(wire, 1, n) /\ wire' = SubSeq(wire, n + 1, Len(wire)) /\ fed' = fed \o chunk'
      /\ UNCHANGED <<buf, scanFrom, bomResolved, pendingEvent, pendingData, lastId>>
      /\ UNCHANGED <<queue, closed, overflow, ended, popped>>
  BY DEF Parser!Feed, Parser!splitter, Parser!dispatcher
<1>2. ParserTypes /\ Held /\ Open /\ fed \in Seq(Bytes) /\ buf \in Seq(Bytes) /\ wire \in Seq(Bytes) /\ chunk = <<>>
  BY <1>1 DEF ParserInv, ParserTypes, Open
<1>3. chunk' \in Seq(Bytes) /\ wire' \in Seq(Bytes)
  <2>1. Len(wire) \in Nat /\ \A i \in 1 .. Len(wire) : wire[i] \in Bytes
    BY <1>2, ElementOfSeq, LenProperties
  <2>2. (\A i \in 1 .. n : wire[i] \in Bytes) /\ \A i \in n + 1 .. Len(wire) : wire[i] \in Bytes
    BY <2>1
  <2>3. SubSeq(wire, 1, n) \in Seq(Bytes)
    BY <2>1, <2>2, SubSeqProperties
  <2>4. SubSeq(wire, n + 1, Len(wire)) \in Seq(Bytes)
    BY <2>1, <2>2, SubSeqProperties
  <2> QED
    BY <1>1, <2>3, <2>4
<1>4. fed' \in Seq(Bytes) /\ Len(fed') = Len(fed) + Len(chunk') /\ Len(fed) \in Nat /\ Len(chunk') \in Nat
  <2>1. fed \o chunk' \in Seq(Bytes) /\ Len(fed \o chunk') = Len(fed) + Len(chunk')
    BY <1>2, <1>3, ConcatProperties
  <2> QED
    BY <1>1, <1>2, <1>3, <2>1, LenProperties
<1>5. ParserTypes'
  BY <1>1, <1>2, <1>3, <1>4 DEF ParserTypes
<1>6. Held'
  BY <1>1, <1>2 DEF Held
<1>7. CASE ~bomResolved
  <2>1. Holds(fed, 0, buf, <<>>) /\ Untouched
    BY <1>2, <1>7 DEF Open
  <2>2. Holds(fed \o chunk', 0, buf, chunk')
    BY <1>2, <1>3, <2>1, HoldsMore
  <2>3. Holds(fed', 0, buf', chunk') /\ Untouched'
    BY <1>1, <2>1, <2>2 DEF Untouched
  <2>4. Open'
    BY <1>1, <1>2, <1>7, <2>3 DEF Open
  <2> QED
    BY <1>1, <1>5, <1>6, <2>4 DEF ParserInv
<1>8. CASE bomResolved
  <2> DEFINE t == Parser!Stripped(fed)
             v == Parser!Stripped(fed \o chunk')
  <2>1. Settles(fed)
    BY <1>1, <1>2, <1>8 DEF Open
  <2>2. PICK c \in 0 .. Len(fed) : ReadTo(t, c, buf)
    BY <1>2, <1>8 DEF Open
  <2>3. /\ Boundary(t, c) /\ Within(t, c) /\ Holds(t, c, buf, <<>>)
        /\ Collected(t, c, pendingData, pendingEvent, lastId, popped \o queue)
        /\ c # 0 /\ t[c] = Parser!CR => buf # <<>>
    BY <1>1, <1>2, <2>2 DEF ReadTo
  <2>4. /\ Settles(fed \o chunk') /\ Holds(v, c, buf, chunk')
        /\ Len(t) \in Nat /\ Len(t) <= Len(v) /\ \A i \in 1 .. Len(t) : v[i] = t[i]
    BY <1>2, <1>3, <2>1, <2>3, FedMore
  <2>5. t \in Seq(Bytes) /\ v \in Seq(Bytes)
    BY <1>1, <1>2, <1>4, StrippedIs
  <2> HIDE DEF t, v
  <2>6. /\ c \in Nat /\ Len(v) \in Nat /\ c <= Len(t) /\ c <= Len(v) /\ Len(t) = c + Len(buf)
        /\ (buf # <<>> => c < Len(t)) /\ \A i \in 1 .. c : v[i] = t[i]
    <3>1. Len(<<>>) = 0 /\ Len(buf) \in Nat /\ Len(v) \in Nat /\ (buf # <<>> => Len(buf) > 0)
      BY <1>2, <2>5, EmptySeq, LenProperties
    <3>2. c \in Nat /\ Len(t) = c + Len(buf)
      BY <2>3, <3>1 DEF Holds
    <3> QED
      BY <2>4, <3>1, <3>2
  <2>7. c # 0 /\ c < Len(v) /\ t[c] = Parser!CR => v[c + 1] # Parser!LF
    <3> SUFFICES ASSUME c # 0, t[c] = Parser!CR PROVE v[c + 1] # Parser!LF
      OBVIOUS
    <3>1. c < Len(t) /\ c + 1 \in 1 .. Len(t)
      BY <2>3, <2>4, <2>6
    <3>2. t[c + 1] # Parser!LF
      BY <2>3, <3>1 DEF Boundary
    <3> QED
      BY <2>4, <3>1, <3>2
  <2>8. /\ Boundary(v, c) /\ Within(v, c)
        /\ Collected(v, c, pendingData, pendingEvent, lastId, popped \o queue)
    BY <2>3, <2>5, <2>6, <2>7, SameBoundary
  <2>9. ~(c # 0 /\ v[c] = Parser!CR /\ buf = <<>>)
    BY <2>3, <2>6
  <2>10. PICK w : w = v
    OBVIOUS
  <2>11. ReadTo(w, c, buf)' /\ w = Parser!Stripped(fed')
    BY <1>1, <2>4, <2>8, <2>9, <2>10 DEF ReadTo, v
  <2>12. c \in 0 .. Len(fed')
    BY <1>4
  <2>13. Settles(fed')
    BY <1>1, <2>4
  <2>14. \E d \in 0 .. Len(fed') : ReadTo(Parser!Stripped(fed), d, buf)'
    BY <2>11, <2>12
  <2>15. Open'
    BY <1>1, <1>2, <1>8, <2>13, <2>14 DEF Open
  <2> QED
    BY <1>1, <1>5, <1>6, <2>15 DEF ParserInv
<1> QED
  BY <1>7, <1>8

LEMMA CopyPieceKeeps == ASSUME ParserInv, Parser!CopyPiece PROVE ParserInv'
<1> DEFINE m == Parser!Min({PieceLen, Len(chunk)})
           piece == SubSeq(chunk, 1, m)
           rest == SubSeq(chunk, m + 1, Len(chunk))
<1>1. /\ pc = "copy" /\ chunk # <<>> /\ pc' = "lines"
      /\ buf' = buf \o Parser!NextPiece /\ chunk' = SubSeq(chunk, Len(Parser!NextPiece) + 1, Len(chunk))
      /\ UNCHANGED <<wire, scanFrom, bomResolved, pendingEvent, pendingData, lastId>>
      /\ UNCHANGED <<queue, closed, overflow, fed, ended, popped>>
  BY DEF Parser!CopyPiece, Parser!dispatcher, Parser!history
<1>2. ParserTypes /\ Held /\ Open /\ ~closed /\ buf \in Seq(Bytes) /\ chunk \in Seq(Bytes)
  BY <1>1, OpenOrDone DEF ParserTypes
<1>3. m \in 1 .. Len(chunk) /\ m <= PieceLen /\ PieceLen \in Nat /\ Len(chunk) \in Nat /\ Len(buf) \in Nat
  <2>1. PieceLen \in Nat /\ PieceLen > 0
    BY StreamsAssumption
  <2>2. Len(chunk) \in Nat /\ Len(chunk) > 0 /\ Len(buf) \in Nat
    BY <1>1, <1>2, EmptySeq, LenProperties
  <2>3. {PieceLen, Len(chunk)} \subseteq Nat /\ {PieceLen, Len(chunk)} # {}
    BY <2>1, <2>2
  <2>4. m \in {PieceLen, Len(chunk)} /\ \A i \in {PieceLen, Len(chunk)} : m <= i
    BY <2>3, LeastIs
  <2> HIDE DEF m
  <2> QED
    BY <2>1, <2>2, <2>4
<1>4. Parser!NextPiece = piece
  BY DEF Parser!NextPiece
<1> HIDE DEF m
<1>5. /\ piece \in Seq(Bytes) /\ Len(piece) = m /\ rest \in Seq(Bytes)
      /\ buf \o piece \in Seq(Bytes) /\ Len(buf \o piece) = Len(buf) + m
      /\ \A i \in 1 .. Len(buf) : (buf \o piece)[i] = buf[i]
      /\ \A t, c : Holds(t, c, buf, chunk) => Holds(t, c, buf \o piece, rest)
  <2>1. m \in 0 .. Len(chunk)
    BY <1>3
  <2> QED
    BY <1>2, <2>1, PieceIs
<1>6. buf' = buf \o piece /\ chunk' = rest
  BY <1>1, <1>4, <1>5
<1> HIDE DEF piece, rest
<1>7. /\ buf' \in Seq(Bytes) /\ chunk' \in Seq(Bytes) /\ Len(buf') = Len(buf) + m
      /\ \A i \in 1 .. Len(buf) : buf'[i] = buf[i]
      /\ \A t, c : Holds(t, c, buf, chunk) => Holds(t, c, buf', chunk')
  BY <1>5, <1>6
<1>8. ParserTypes'
  BY <1>1, <1>2, <1>7 DEF ParserTypes
<1>9. Held'
  <2>1. scanFrom \in 0 .. Len(buf) /\ \A i \in 1 .. scanFrom : ~Parser!IsTerminator(buf[i])
    BY <1>2 DEF Held
  <2>2. scanFrom \in 0 .. Len(buf') /\ \A i \in 1 .. scanFrom : ~Parser!IsTerminator(buf'[i])
    <3>1. Len(buf') \in Nat /\ Len(buf) <= Len(buf') /\ \A i \in 1 .. scanFrom : i \in 1 .. Len(buf)
      BY <1>3, <1>7, <2>1
    <3> QED
      BY <1>3, <1>7, <2>1, <3>1
  <2>3. Len(buf) <= Most
    BY <1>1, <1>2 DEF Held
  <2>4. Len(buf') <= Most + PieceLen
    <3>1. Most \in Nat
      BY StreamsAssumption DEF Most
    <3>2. PICK x, y : x = Len(buf) /\ y = Len(buf')
      OBVIOUS
    <3>3. x \in Nat /\ y = x + m /\ x <= Most
      BY <1>3, <1>7, <2>3, <3>2
    <3>4. y <= Most + PieceLen
      BY <1>3, <3>1, <3>3
    <3> QED
      BY <3>2, <3>4
  <2>5. Parser!Size(pendingData) \in 0 .. MaxEvent
    BY <1>2 DEF Held
  <2> QED
    BY <1>1, <2>2, <2>4, <2>5 DEF Held, Most
<1>10. Open'
  <2>1. buf' # <<>>
    BY <1>3, <1>7, EmptySeq
  <2>3. ~bomResolved => Holds(fed, 0, buf', chunk') /\ Untouched'
    BY <1>1, <1>2, <1>7 DEF Open, Untouched
  <2>4. bomResolved => Settles(fed) /\ \E c \in 0 .. Len(fed) : ReadTo(Parser!Stripped(fed), c, buf)
    BY <1>1, <1>2 DEF Open
  <2>5. bomResolved => \E c \in 0 .. Len(fed) : ReadTo(Parser!Stripped(fed), c, buf)'
    BY <1>1, <1>7, <2>1, <2>4 DEF ReadTo
  <2> QED
    BY <1>1, <1>2, <2>3, <2>4, <2>5 DEF Open
<1> QED
  BY <1>1, <1>2, <1>8, <1>9, <1>10 DEF ParserInv

-----------------------------------------------------------------------------
(* What the reference sees of a stream of which c bytes have been read.    *)
LEMMA Viewed ==
  ASSUME ParserTypes, Open, NEW t, t = Parser!Stripped(fed), NEW v, v = Parser!Text(fed, ended),
         NEW c, NEW u \in Seq(Bytes), ReadTo(t, c, u)
  PROVE  /\ t \in Seq(Bytes) /\ v \in Seq(Bytes) /\ Boundary(v, c) /\ Within(v, c)
         /\ Collected(v, c, pendingData, pendingEvent, lastId, popped \o queue)
         /\ Len(t) \in Nat /\ Len(v) \in Nat /\ Len(u) \in Nat /\ Len(chunk) \in Nat /\ c \in Nat
         /\ c <= Len(v) /\ Len(v) <= Len(t) /\ Len(t) = c + Len(u) + Len(chunk)
         /\ (\A j \in 1 .. Len(v) : v[j] = t[j]) /\ \A j \in 1 .. Len(u) : t[c + j] = u[j]
         /\ \/ Len(v) = Len(t) /\ (ended \/ Len(t) = 0 \/ t[Len(t)] # Parser!CR)
            \/ Len(v) = Len(t) - 1 /\ t[Len(t)] = Parser!CR /\ ~ended
<1>1. fed \in Seq(Bytes) /\ ended \in BOOLEAN /\ chunk \in Seq(Bytes) /\ (ended <=> pc = "ending")
  BY DEF ParserTypes, Open
<1>2. Len(u) \in Nat /\ Len(chunk) \in Nat /\ (u # <<>> => Len(u) > 0)
  BY <1>1, EmptySeq, LenProperties
<1>3. /\ Boundary(t, c) /\ Within(t, c) /\ Holds(t, c, u, chunk)
      /\ Collected(t, c, pendingData, pendingEvent, lastId, popped \o queue)
      /\ c # 0 /\ t[c] = Parser!CR /\ u = <<>> => ended
  BY <1>1 DEF ReadTo
<1>4. /\ c \in Nat /\ Len(t) = c + Len(u) + Len(chunk) /\ \A j \in 1 .. Len(u) : t[c + j] = u[j]
  BY <1>3 DEF Holds
<1>5. c = Len(t) => u = <<>>
  BY <1>2, <1>4
<1>6. c = Len(t) /\ c # 0 /\ t[c] = Parser!CR => ended
  BY <1>3, <1>5
<1>7. /\ t \in Seq(Bytes) /\ v \in Seq(Bytes) /\ Boundary(v, c) /\ Within(v, c)
      /\ Collected(v, c, pendingData, pendingEvent, lastId, popped \o queue)
      /\ Len(t) \in Nat /\ Len(v) \in Nat /\ c \in Nat /\ c <= Len(v) /\ Len(v) <= Len(t)
      /\ \A j \in 1 .. Len(v) : v[j] = t[j]
      /\ \/ Len(v) = Len(t) /\ (ended \/ Len(t) = 0 \/ t[Len(t)] # Parser!CR)
         \/ Len(v) = Len(t) - 1 /\ t[Len(t)] = Parser!CR /\ ~ended
  BY <1>1, <1>3, <1>6, TextView
<1> QED
  BY <1>2, <1>4, <1>7

(* Something was read, so the stream is more than a part of a mark.        *)
LEMMA PastMark ==
  ASSUME ParserTypes, Open, Settles(fed) \/ pc = "ending", Len(Parser!Stripped(fed)) > 0
  PROVE  ended \/ ~Parser!IsPrefix(fed, Parser!BOM)
<1> SUFFICES ASSUME pc # "ending", Parser!IsPrefix(fed, Parser!BOM) PROVE FALSE
  BY DEF Open
<1>1. fed \in Seq(Bytes) /\ Len(fed) \in Nat
  BY LenProperties DEF ParserTypes
<1>2. Len(fed) <= 3 /\ \A i \in 1 .. Len(fed) : fed[i] = Parser!BOM[i]
  BY <1>1, MarkIs, PrefixIs
<1>3. Len(fed) >= 3 /\ Len(fed) <= 3
  BY <1>2 DEF Settles
<1>4. Len(fed) = 3 /\ Marked(fed)
  <2>1. Len(fed) = 3
    <3>1. PICK n : n = Len(fed)
      OBVIOUS
    <3>2. n \in Nat /\ n >= 3 /\ n <= 3
      BY <1>1, <1>3, <3>1, Zenon
    <3>3. n = 3
      BY <3>2
    <3> QED
      BY <3>1, <3>3
  <2> QED
    BY <1>2, <2>1 DEF Marked
<1>5. Len(Parser!Stripped(fed)) = Len(fed) - 3
  BY <1>1, <1>4, StrippedIs
<1> QED
  BY <1>4, <1>5

LEMMA LineOverflowKeeps == ASSUME ParserInv, Parser!LineOverflow PROVE ParserInv'
<1> DEFINE u == Parser!Unread
           e == Parser!LineEnd
           n == Parser!Content
<1>1. /\ Parser!BomDecided /\ n > MaxLine /\ Parser!Abandon("line") /\ pc # "idle"
      /\ n = IF e # 0 THEN e - 1 ELSE Len(u)
  BY DEF Parser!LineOverflow, Parser!LineTooLong, Parser!Draining, Parser!Content
<1>2. ParserTypes /\ Held /\ Open /\ fed \in Seq(Bytes) /\ ended \in BOOLEAN /\ MaxLine \in Nat
  BY <1>1, OpenOrDone, StreamsAssumption DEF ParserTypes
<1>3. u \in Seq(Bytes) /\ Len(u) \in Nat
  BY <1>2, UnreadIs
<1>4. /\ e \in 0 .. Len(u)
      /\ e = 0 => \A i \in 1 .. Len(u) : ~Terminates(u[i])
      /\ e # 0 => Terminates(u[e]) /\ \A i \in 1 .. e - 1 : ~Terminates(u[i])
  BY <1>2, LineEndIs
<1>5. /\ Settles(fed) \/ pc = "ending"
      /\ \E c \in 0 .. Len(fed) : ReadTo(Parser!Stripped(fed), c, u)
  BY <1>1, <1>2, Reading
<1>6. PICK c \in 0 .. Len(fed) : ReadTo(Parser!Stripped(fed), c, u)
  BY <1>5
<1> HIDE DEF u, e, n
<1>7. n \in Nat /\ n > 0 /\ n <= Len(u) /\ \A i \in 1 .. n : ~Terminates(u[i])
  BY <1>1, <1>2, <1>3, <1>4
<1>8. PICK t, v : t = Parser!Stripped(fed) /\ v = Parser!Text(fed, ended)
  OBVIOUS
<1>9. /\ t \in Seq(Bytes) /\ v \in Seq(Bytes) /\ Boundary(v, c) /\ Within(v, c)
      /\ Collected(v, c, pendingData, pendingEvent, lastId, popped \o queue)
      /\ Len(t) \in Nat /\ Len(v) \in Nat /\ Len(u) \in Nat /\ Len(chunk) \in Nat /\ c \in Nat
      /\ c <= Len(v) /\ Len(v) <= Len(t) /\ Len(t) = c + Len(u) + Len(chunk)
      /\ (\A j \in 1 .. Len(v) : v[j] = t[j]) /\ \A j \in 1 .. Len(u) : t[c + j] = u[j]
      /\ \/ Len(v) = Len(t)
         \/ Len(v) = Len(t) - 1 /\ t[Len(t)] = Parser!CR /\ ~ended
  BY <1>2, <1>3, <1>6, <1>8, Viewed
<1>10. ASSUME NEW i \in (c + 1) .. (c + n) PROVE ~Terminates(t[i]) /\ i <= Len(t)
  <2>1. i - c \in 1 .. n /\ i - c \in 1 .. Len(u) /\ c + (i - c) = i
    BY <1>7, <1>9
  <2>2. t[c + (i - c)] = u[i - c]
    BY <1>9, <2>1
  <2> QED
    BY <1>7, <1>9, <2>1, <2>2
<1>11. c + n <= Len(v)
  <2> SUFFICES ASSUME Len(v) = Len(t) - 1, t[Len(t)] = Parser!CR, c + n = Len(t) PROVE FALSE
    BY <1>7, <1>9
  <2>1. Len(t) \in (c + 1) .. (c + n)
    BY <1>7, <1>9
  <2> QED
    BY <1>10, <2>1 DEF Terminates
<1>12. \A i \in (c + 1) .. (c + n) : ~Terminates(v[i])
  <2>1. \A i \in (c + 1) .. (c + n) : i \in 1 .. Len(v)
    BY <1>7, <1>9, <1>11
  <2> QED
    BY <1>9, <1>10, <2>1
<1>13. ended \/ ~Parser!IsPrefix(fed, Parser!BOM)
  <2>1. Len(Parser!Stripped(fed)) > 0
    BY <1>7, <1>8, <1>9
  <2> QED
    BY <1>2, <1>5, <2>1, PastMark
<1>14. Parser!Reference(fed, ended) = [frames |-> popped \o queue, overflow |-> "line"]
  <2>1. /\ v \in Seq(Bytes) /\ v = Parser!Text(fed, ended) /\ Boundary(v, c) /\ Within(v, c)
        /\ Collected(v, c, pendingData, pendingEvent, lastId, popped \o queue)
    BY <1>8, <1>9
  <2>2. MaxLine \in Nat /\ n \in Nat /\ n > MaxLine /\ ended \in BOOLEAN
    BY <1>1, <1>2, <1>7
  <2>3. Overlong(v, c, n)
    BY <1>11, <1>12, <2>2 DEF Overlong
  <2>4. PICK f : f = popped \o queue
    OBVIOUS
  <2>5. Collected(v, c, pendingData, pendingEvent, lastId, f)
    BY <2>1, <2>4
  <2>6. Parser!Reference(fed, ended) = [frames |-> f, overflow |-> "line"]
    BY <1>13, <2>1, <2>2, <2>3, <2>5, RefLong
  <2> QED
    BY <2>4, <2>6
<1> QED
  BY <1>1, <1>2, <1>14, Abandoned

-----------------------------------------------------------------------------
(* The line that is taken next.                                            *)
LEMMA LineIs ==
  ASSUME ParserTypes, Held, Open, Parser!HasLine, ~Parser!LineTooLong,
         NEW t, t = Parser!Stripped(fed), NEW c, NEW p \in Nat, ReadTo(t, c, Parser!Unread), Taken(t, c, p)
  PROVE  /\ t \in Seq(Bytes) /\ Len(t) \in Nat /\ c \in Nat /\ p \in (c + 1) .. Len(t)
         /\ Parser!Line \in Seq(Bytes) /\ Len(Parser!Line) = p - 1 - c /\ p - 1 - c <= MaxLine
         /\ MaxLine \in Nat /\ MaxEvent \in Nat /\ Parser!Field(Parser!Line).value \in Seq(Bytes)
<1>1. /\ p \in (c + 1) .. Len(t) /\ p = c + Parser!LineEnd /\ Parser!Line = SubSeq(t, c + 1, p - 1)
  BY DEF Taken
<1>2. t \in Seq(Bytes) /\ Len(t) \in Nat
  <2>1. t \in Seq(Bytes)
    BY StrippedIs DEF ParserTypes
  <2> QED
    BY <2>1, LenProperties
<1>3. c \in Nat
  BY DEF ReadTo, Holds
<1>4. Parser!Line \in Seq(Bytes) /\ Len(Parser!Line) = p - 1 - c
  <2>1. p - 1 \in Nat /\ c <= p - 1 /\ p - 1 <= Len(t)
    BY <1>1, <1>2, <1>3
  <2>2. SubSeq(t, c + 1, p - 1) \in Seq(Bytes) /\ Len(SubSeq(t, c + 1, p - 1)) = p - 1 - c
    BY <1>2, <1>3, <2>1, LineLength
  <2> QED
    BY <1>1, <2>2
<1>5. MaxLine \in Nat /\ MaxEvent \in Nat
  BY StreamsAssumption
<1>6. p - 1 - c <= MaxLine
  <2> DEFINE e == Parser!LineEnd
  <2>1. e # 0 /\ Parser!BomDecided
    BY LineDecided DEF Parser!HasLine
  <2>2. e - 1 = Parser!Content
    BY <2>1 DEF Parser!Content
  <2>3. ~(e - 1 > MaxLine)
    BY <2>1, <2>2 DEF Parser!LineTooLong
  <2>4. e \in 0 .. Len(Parser!Unread)
    BY LineEndIs
  <2>5. p = c + e
    BY <1>1
  <2> HIDE DEF e
  <2>6. e \in Int
    BY <1>3, <2>4, UnreadIs
  <2> QED
    BY <1>3, <1>5, <2>3, <2>5, <2>6
<1>7. Parser!Field(Parser!Line).value \in Seq(Bytes)
  BY <1>4, FieldIs
<1> QED
  BY <1>1, <1>2, <1>3, <1>4, <1>5, <1>6, <1>7

LEMMA EventOverflowKeeps == ASSUME ParserInv, Parser!EventOverflow PROVE ParserInv'
<1> DEFINE l == Parser!Line
           value == Parser!Field(l).value
<1>1. /\ Parser!Draining /\ Parser!HasLine /\ ~Parser!LineTooLong /\ pc # "idle"
      /\ ~Parser!IsBlank(l) /\ ~Parser!IsComment(l) /\ Parser!Abandon("event")
      /\ Parser!Is(Parser!Field(l), "data") /\ Parser!Size(pendingData) + Len(value) + 1 > MaxEvent
  BY DEF Parser!EventOverflow, Parser!Draining, Parser!EventTooLong
<1>2. /\ ParserTypes /\ Held /\ Open /\ ended \in BOOLEAN /\ (ended <=> pc = "ending")
      /\ pendingData \in Seq(Seq(Bytes))
  BY <1>1, OpenOrDone DEF ParserTypes, Open
<1>3. PICK t, v : t = Parser!Stripped(fed) /\ v = Parser!Text(fed, ended)
  OBVIOUS
<1>4. PICK c \in 0 .. Len(fed), p \in Nat : ReadTo(t, c, Parser!Unread) /\ Taken(t, c, p)
  BY <1>1, <1>2, <1>3, Taking
<1>5. /\ t \in Seq(Bytes) /\ Len(t) \in Nat /\ c \in Nat /\ p \in (c + 1) .. Len(t)
      /\ l \in Seq(Bytes) /\ p - 1 - c <= MaxLine
      /\ MaxLine \in Nat /\ MaxEvent \in Nat /\ value \in Seq(Bytes)
  BY <1>1, <1>2, <1>3, <1>4, LineIs
<1>6. /\ Terminates(t[p]) /\ \A i \in (c + 1) .. (p - 1) : ~Terminates(t[i])
      /\ l = SubSeq(t, c + 1, p - 1) /\ (p = Len(t) /\ t[p] = Parser!CR => ended)
  BY <1>2, <1>4 DEF Taken
<1>7. Parser!Unread \in Seq(Bytes)
  BY <1>2, UnreadIs
<1>8. PICK f : f = popped \o queue
  OBVIOUS
<1>9. /\ v \in Seq(Bytes) /\ Boundary(v, c) /\ Within(v, c)
      /\ Collected(v, c, pendingData, pendingEvent, lastId, f)
      /\ Len(v) \in Nat /\ \A j \in 1 .. Len(v) : v[j] = t[j]
      /\ Len(v) = Len(t) \/ (Len(v) = Len(t) - 1 /\ t[Len(t)] = Parser!CR /\ ~ended)
  BY <1>2, <1>3, <1>4, <1>7, <1>8, Viewed
<1> HIDE DEF l, value
<1>10. p \in (c + 1) .. Len(v) /\ p \in 1 .. Len(v) /\ \A i \in (c + 1) .. (p - 1) : i \in 1 .. Len(v)
  BY <1>5, <1>6, <1>9
<1>11. Terminates(v[p]) /\ \A i \in (c + 1) .. (p - 1) : ~Terminates(v[i])
  BY <1>6, <1>9, <1>10
<1>12. l = SubSeq(v, c + 1, p - 1)
  <2>1. \A i \in 1 .. Len(t) : t[i] \in Bytes
    BY <1>5, ElementOfSeq
  <2>2. \A i \in c + 1 .. p - 1 : t[i] \in Bytes /\ v[i - (c + 1) + (c + 1)] = t[i]
    <3>1. \A i \in c + 1 .. p - 1 : i \in 1 .. Len(t) /\ i - (c + 1) + (c + 1) = i
      BY <1>5
    <3> QED
      BY <1>9, <1>10, <2>1, <3>1
  <2>3. PICK a, b : a = c + 1 /\ b = p - 1
    OBVIOUS
  <2>4. a \in Int /\ b \in Int /\ \A i \in a .. b : t[i] \in Bytes /\ v[i - a + a] = t[i]
    BY <1>5, <2>2, <2>3
  <2>5. SubSeq(t, a, b) = SubSeq(v, a, b)
    BY <2>4, SameSubSeq
  <2> QED
    BY <1>6, <2>3, <2>5
<1>13. Parser!Fields(l, "data")
  BY <1>1 DEF Parser!Fields, l
<1>14. /\ Parser!Data(Parser!Lines(v), p + 1) = Parser!Data(Parser!Lines(v), Onward(v, p) + 1)
       /\ FieldAdds(v, Onward(v, p), l, pendingData, pendingEvent, lastId, f)
  <2>1. ~Parser!IsBlank(l)
    BY <1>1 DEF l
  <2>2. v \in Seq(Bytes) /\ Boundary(v, c) /\ Collected(v, c, pendingData, pendingEvent, lastId, f)
    BY <1>9
  <2> QED
    BY <1>10, <1>11, <1>12, <2>1, <2>2, LineTaken
<1>15. Parser!Data(Parser!Lines(v), p + 1) = Append(pendingData, value)
  BY <1>13, <1>14 DEF FieldAdds, Collected, value
<1>16. Parser!Size(Parser!Data(Parser!Lines(v), p + 1)) > MaxEvent
  <2>1. Parser!Size(Append(pendingData, value)) = Parser!Size(pendingData) + Len(value) + 1
    BY <1>2, <1>5, MoreData
  <2> QED
    BY <1>1, <1>15, <2>1 DEF value, l
<1>17. Parser!Reference(fed, ended) = [frames |-> f, overflow |-> "event"]
  <2>1. /\ v \in Seq(Bytes) /\ v = Parser!Text(fed, ended) /\ Boundary(v, c) /\ Within(v, c)
        /\ Collected(v, c, pendingData, pendingEvent, lastId, f)
    BY <1>3, <1>9
  <2>2. ended \in BOOLEAN /\ MaxLine \in Nat /\ p - 1 - c <= MaxLine
    BY <1>2, <1>5
  <2> QED
    BY <1>10, <1>11, <1>16, <2>1, <2>2, RefMuch
<1> QED
  BY <1>1, <1>2, <1>8, <1>17, Abandoned

-----------------------------------------------------------------------------
(* Steps that read a line.                                                 *)
LEMMA LineLeaves ==
  ASSUME ParserTypes, Held, Open, ~closed, Parser!TakeLine,
         NEW t, t = Parser!Stripped(fed), NEW c, NEW p \in Nat, ReadTo(t, c, Parser!Unread), Taken(t, c, p),
         Boundary(t, Onward(t, p)), StaysWithin(t, c, Onward(t, p), Parser!Line),
         NEW d \in Seq(Seq(Bytes)), NEW e \in Seq(Bytes), NEW i \in Seq(Bytes), NEW f,
         pendingData' = d, pendingEvent' = e, lastId' = i, queue' \in Seq(Frame), popped \o queue' = f,
         Collected(t, Onward(t, p), d, e, i, f), Parser!Size(d) \in 0 .. MaxEvent
  PROVE  ParserInv'
<1>1. /\ Parser!Draining /\ Parser!HasLine /\ ~Parser!LineTooLong /\ pc \notin {"idle", "copy"}
      /\ buf' = Parser!Rest /\ scanFrom' = 0 /\ bomResolved' = TRUE
      /\ UNCHANGED <<wire, pc, chunk, closed, overflow, fed, ended, popped>>
  BY DEF Parser!TakeLine, Parser!Draining, Parser!ScanFromStart, Parser!history
<1>2. /\ t \in Seq(Bytes) /\ Len(Parser!Line) = p - 1 - c /\ p - 1 - c <= MaxLine
      /\ MaxLine \in Nat /\ MaxEvent \in Nat /\ c \in Nat
  BY <1>1, LineIs
<1>3. PICK o : o = Onward(t, p)
  OBVIOUS
<1>4. Within(t, o)
  <2>1. d = Parser!Data(Parser!Lines(t), o + 1)
    BY <1>3 DEF Collected
  <2>2. ~(Parser!Size(Parser!Data(Parser!Lines(t), o + 1)) > MaxEvent)
    BY <1>2, <2>1
  <2>3. ~(Len(Parser!Line) > MaxLine)
    BY <1>2
  <2>4. Within(t, c)
    BY DEF ReadTo
  <2> QED
    BY <1>3, <2>2, <2>3, <2>4 DEF StaysWithin
<1>5. /\ o \in 0 .. Len(fed) /\ Holds(t, o, buf', chunk')
      /\ (t[o] = Parser!CR /\ buf' = <<>> => pc = "ending")
      /\ buf' \in Seq(Bytes) /\ Len(buf') <= Len(buf)
  BY <1>1, <1>3 DEF Taken
<1>6. ParserTypes'
  BY <1>1, <1>5 DEF ParserTypes
<1>7. Held'
  <2>1. Len(buf') <= Most + PieceLen
    <3>1. PICK x, y, z : x = Len(buf) /\ y = Len(buf') /\ z = Most + PieceLen
      OBVIOUS
    <3>2. x \in Nat /\ y \in Nat /\ z \in Nat
      <4>1. Most \in Nat /\ PieceLen \in Nat
        BY StreamsAssumption DEF Most
      <4>2. Len(buf) \in Nat /\ Len(buf') \in Nat
        BY <1>5, LenProperties DEF ParserTypes
      <4> QED
        BY <3>1, <4>1, <4>2
    <3>3. y <= x /\ x <= z
      BY <1>5, <3>1 DEF Held
    <3> QED
      BY <3>1, <3>2, <3>3
  <2>2. Len(buf') \in Nat
    BY <1>5, LenProperties
  <2> QED
    BY <1>1, <2>1, <2>2 DEF Held, Most
<1>8. Open'
  <2>1. Settles(fed) \/ pc = "ending"
    <3>1. Parser!BomDecided
      BY <1>1, LineDecided DEF Parser!HasLine
    <3> QED
      BY <3>1, Reading
  <2>2. ReadTo(t, o, buf)'
    BY <1>1, <1>3, <1>4, <1>5 DEF ReadTo
  <2>3. t = Parser!Stripped(fed') /\ o \in 0 .. Len(fed')
    BY <1>1, <1>5
  <2>4. \E a \in 0 .. Len(fed') : ReadTo(Parser!Stripped(fed), a, buf)'
    BY <2>2, <2>3
  <2>5. Settles(fed') \/ pc' = "ending"
    BY <1>1, <2>1
  <2> QED
    BY <1>1, <2>4, <2>5 DEF Open
<1> QED
  BY <1>1, <1>6, <1>7, <1>8 DEF ParserInv

(* What a line step begins with: line l of the content, and what it adds.  *)
Begins(t, c, p, l) ==
  /\ t = Parser!Stripped(fed) /\ ReadTo(t, c, Parser!Unread) /\ Taken(t, c, p) /\ l = Parser!Line
  /\ Boundary(t, Onward(t, p)) /\ StaysWithin(t, c, Onward(t, p), l)
  /\ Parser!IsBlank(l) => BlankAdds(t, Onward(t, p), pendingData, pendingEvent, lastId, popped \o queue)
  /\ ~Parser!IsBlank(l) => FieldAdds(t, Onward(t, p), l, pendingData, pendingEvent, lastId, popped \o queue)

LEMMA LineBeginsWith ==
  ASSUME ParserInv, Parser!TakeLine
  PROVE  /\ ParserTypes /\ Held /\ Open /\ ~closed /\ popped' = popped
         /\ Parser!Field(Parser!Line).value \in Seq(Bytes)
         /\ \E t, c, l : \E p \in Nat : Begins(t, c, p, l)
<1>1. Parser!Draining /\ Parser!HasLine /\ ~Parser!LineTooLong /\ pc # "idle" /\ popped' = popped
  BY DEF Parser!TakeLine, Parser!Draining, Parser!history
<1>2. ParserTypes /\ Held /\ Open /\ ~closed
  BY <1>1, OpenOrDone
<1>3. PICK t, f, l : t = Parser!Stripped(fed) /\ f = popped \o queue /\ l = Parser!Line
  OBVIOUS
<1>4. PICK c \in 0 .. Len(fed), p \in Nat : ReadTo(t, c, Parser!Unread) /\ Taken(t, c, p)
  BY <1>1, <1>2, <1>3, Taking
<1>5. /\ t \in Seq(Bytes) /\ p \in (c + 1) .. Len(t) /\ Parser!Field(Parser!Line).value \in Seq(Bytes)
  BY <1>1, <1>2, <1>3, <1>4, LineIs
<1>6. /\ Terminates(t[p]) /\ (\A j \in (c + 1) .. (p - 1) : ~Terminates(t[j])) /\ l = SubSeq(t, c + 1, p - 1)
  BY <1>3, <1>4 DEF Taken
<1>7. Boundary(t, c) /\ Collected(t, c, pendingData, pendingEvent, lastId, f)
  BY <1>3, <1>4 DEF ReadTo
<1>8. /\ Boundary(t, Onward(t, p)) /\ StaysWithin(t, c, Onward(t, p), l)
      /\ Parser!IsBlank(l) => BlankAdds(t, Onward(t, p), pendingData, pendingEvent, lastId, f)
      /\ ~Parser!IsBlank(l) => FieldAdds(t, Onward(t, p), l, pendingData, pendingEvent, lastId, f)
  BY <1>5, <1>6, <1>7, LineTaken
<1>9. Begins(t, c, p, l)
  BY <1>3, <1>4, <1>8 DEF Begins
<1> QED
  BY <1>1, <1>2, <1>5, <1>9

LEMMA CommentKeeps == ASSUME ParserInv, Parser!Comment PROVE ParserInv'
<1>1. /\ Parser!TakeLine /\ Parser!IsComment(Parser!Line)
      /\ UNCHANGED <<pendingEvent, pendingData, lastId, queue>>
  BY DEF Parser!Comment, Parser!dispatcher
<1>2. ParserTypes /\ Held /\ Open /\ ~closed
  BY <1>1, LineBeginsWith
<1>3. PICK t, c, l : \E p \in Nat : Begins(t, c, p, l)
  BY <1>1, LineBeginsWith
<1>4. PICK p \in Nat : Begins(t, c, p, l)
  BY <1>3
<1>5. /\ t = Parser!Stripped(fed) /\ ReadTo(t, c, Parser!Unread) /\ Taken(t, c, p) /\ l = Parser!Line
      /\ Boundary(t, Onward(t, p)) /\ StaysWithin(t, c, Onward(t, p), Parser!Line)
      /\ ~Parser!IsBlank(l) => FieldAdds(t, Onward(t, p), l, pendingData, pendingEvent, lastId, popped \o queue)
  BY <1>4 DEF Begins
<1>6. ~Parser!IsBlank(l) /\ \A name : ~Parser!Fields(l, name)
  BY <1>1, <1>5 DEF Parser!IsComment, Parser!IsBlank, Parser!Fields
<1>7. PICK f : f = popped \o queue
  OBVIOUS
<1>8. Collected(t, Onward(t, p), pendingData, pendingEvent, lastId, f)
  BY <1>5, <1>6, <1>7 DEF FieldAdds
<1>9. /\ pendingData \in Seq(Seq(Bytes)) /\ pendingEvent \in Seq(Bytes) /\ lastId \in Seq(Bytes)
      /\ queue' \in Seq(Frame) /\ Parser!Size(pendingData) \in 0 .. MaxEvent
  BY <1>1, <1>2 DEF ParserTypes, Held
<1>10. pendingData' = pendingData /\ pendingEvent' = pendingEvent /\ lastId' = lastId /\ popped \o queue' = f
  BY <1>1, <1>7
<1> QED
  BY <1>1, <1>2, <1>5, <1>8, <1>9, <1>10, LineLeaves

LEMMA BlankKeeps == ASSUME ParserInv, Parser!Blank PROVE ParserInv'
<1> DEFINE message == Parser!Message(pendingEvent, pendingData, lastId)
<1>1. /\ Parser!TakeLine /\ Parser!IsBlank(Parser!Line)
      /\ queue' = (IF pendingData = <<>> THEN queue ELSE Append(queue, message))
      /\ pendingEvent' = <<>> /\ pendingData' = <<>> /\ lastId' = lastId
  BY DEF Parser!Blank
<1>2. /\ ParserTypes /\ Held /\ Open /\ ~closed
      /\ queue \in Seq(Frame) /\ popped \in Seq(Frame) /\ lastId \in Seq(Bytes)
      /\ pendingData \in Seq(Seq(Bytes)) /\ pendingEvent \in Seq(Bytes)
  BY <1>1, LineBeginsWith DEF ParserTypes
<1>3. PICK t, c, l : \E p \in Nat : Begins(t, c, p, l)
  BY <1>1, LineBeginsWith
<1>4. PICK p \in Nat : Begins(t, c, p, l)
  BY <1>3
<1>5. /\ t = Parser!Stripped(fed) /\ ReadTo(t, c, Parser!Unread) /\ Taken(t, c, p) /\ l = Parser!Line
      /\ Boundary(t, Onward(t, p)) /\ StaysWithin(t, c, Onward(t, p), Parser!Line)
      /\ Parser!IsBlank(l) => BlankAdds(t, Onward(t, p), pendingData, pendingEvent, lastId, popped \o queue)
  BY <1>4 DEF Begins
<1>6. message \in Frame
  BY <1>2, FramesFit
<1>7. Append(queue, message) \in Seq(Frame) /\ popped \o Append(queue, message) = Append(popped \o queue, message)
  BY <1>2, <1>6, QueuedLast
<1>8. PICK f : f = popped \o queue'
  OBVIOUS
<1>9. /\ queue' \in Seq(Frame)
      /\ f = IF pendingData = <<>> THEN popped \o queue ELSE Append(popped \o queue, message)
  BY <1>1, <1>2, <1>7, <1>8
<1>10. Collected(t, Onward(t, p), <<>>, <<>>, lastId, f)
  BY <1>1, <1>5, <1>9 DEF BlankAdds
<1>11. <<>> \in Seq(Seq(Bytes)) /\ <<>> \in Seq(Bytes) /\ Parser!Size(<<>>) \in 0 .. MaxEvent
  BY EmptySeq, SizeGrows, StreamsAssumption
<1> HIDE DEF message
<1> QED
  BY <1>1, <1>2, <1>5, <1>8, <1>9, <1>10, <1>11, LineLeaves

LEMMA FieldLineKeeps == ASSUME ParserInv, Parser!FieldLine PROVE ParserInv'
<1> DEFINE field == Parser!Field(Parser!Line)
           value == field.value
<1>1. /\ Parser!TakeLine /\ ~Parser!IsBlank(Parser!Line) /\ ~Parser!IsComment(Parser!Line)
      /\ ~(Parser!Is(field, "data") /\ Parser!Size(pendingData) + Len(value) + 1 > MaxEvent)
      /\ pendingEvent' = (IF Parser!Is(field, "event") THEN value ELSE pendingEvent)
      /\ pendingData' = (IF Parser!Is(field, "data") THEN Append(pendingData, value) ELSE pendingData)
      /\ lastId' = (IF Parser!Is(field, "id") /\ Parser!ValidId(value) THEN value ELSE lastId)
      /\ queue' = (IF Parser!Is(field, "retry") /\ Parser!ValidRetry(value)
                    THEN Append(queue, Parser!Retry(value)) ELSE queue)
  BY DEF Parser!FieldLine, Parser!EventTooLong
<1>2. /\ ParserTypes /\ Held /\ Open /\ ~closed /\ value \in Seq(Bytes)
      /\ queue \in Seq(Frame) /\ popped \in Seq(Frame) /\ lastId \in Seq(Bytes)
      /\ pendingData \in Seq(Seq(Bytes)) /\ pendingEvent \in Seq(Bytes)
  BY <1>1, LineBeginsWith DEF ParserTypes
<1>3. PICK t, c, l : \E p \in Nat : Begins(t, c, p, l)
  BY <1>1, LineBeginsWith
<1>4. PICK p \in Nat : Begins(t, c, p, l)
  BY <1>3
<1>5. /\ t = Parser!Stripped(fed) /\ ReadTo(t, c, Parser!Unread) /\ Taken(t, c, p) /\ l = Parser!Line
      /\ Boundary(t, Onward(t, p)) /\ StaysWithin(t, c, Onward(t, p), Parser!Line)
      /\ ~Parser!IsBlank(l) => FieldAdds(t, Onward(t, p), l, pendingData, pendingEvent, lastId, popped \o queue)
  BY <1>4 DEF Begins
<1>6. /\ ~Parser!IsBlank(l) /\ field = Parser!Field(l) /\ value = Parser!Field(l).value
      /\ \A name : Parser!Fields(l, name) <=> Parser!Is(field, name)
  BY <1>1, <1>5 DEF Parser!Fields
<1>7. /\ Append(queue, Parser!Retry(value)) \in Seq(Frame)
      /\ popped \o Append(queue, Parser!Retry(value)) = Append(popped \o queue, Parser!Retry(value))
  <2>1. Parser!Retry(value) \in Frame
    BY <1>2, FramesFit
  <2> QED
    BY <1>2, <2>1, QueuedLast
<1>8. /\ Append(pendingData, value) \in Seq(Seq(Bytes)) /\ Len(value) \in Nat
      /\ Parser!Size(Append(pendingData, value)) = Parser!Size(pendingData) + Len(value) + 1
  BY <1>2, MoreData
<1> HIDE DEF field, value
<1>9. PICK d, e, i, f : d = pendingData' /\ e = pendingEvent' /\ i = lastId' /\ f = popped \o queue'
  OBVIOUS
<1>10. /\ queue' \in Seq(Frame) /\ d \in Seq(Seq(Bytes)) /\ e \in Seq(Bytes) /\ i \in Seq(Bytes)
  BY <1>1, <1>2, <1>7, <1>8, <1>9
<1>11. f = IF Parser!Is(field, "retry") /\ Parser!ValidRetry(value)
           THEN Append(popped \o queue, Parser!Retry(value)) ELSE popped \o queue
  BY <1>1, <1>7, <1>9
<1>12. Collected(t, Onward(t, p), d, e, i, f)
  <2>1. FieldAdds(t, Onward(t, p), l, pendingData, pendingEvent, lastId, popped \o queue)
    BY <1>5, <1>6
  <2>2. Collected(t, Onward(t, p),
          IF Parser!Is(field, "data") THEN Append(pendingData, value) ELSE pendingData,
          IF Parser!Is(field, "event") THEN value ELSE pendingEvent,
          IF Parser!Is(field, "id") /\ Parser!ValidId(value) THEN value ELSE lastId,
          IF Parser!Is(field, "retry") /\ Parser!ValidRetry(value)
          THEN Append(popped \o queue, Parser!Retry(value)) ELSE popped \o queue)
    BY <1>6, <2>1 DEF FieldAdds
  <2> QED
    BY <1>1, <1>9, <1>11, <2>2
<1>13. Parser!Size(d) \in 0 .. MaxEvent
  <2>1. Parser!Size(pendingData) \in 0 .. MaxEvent /\ MaxEvent \in Nat
    BY <1>2, StreamsAssumption DEF Held
  <2>2. CASE Parser!Is(field, "data")
    <3>1. d = Append(pendingData, value) /\ ~(Parser!Size(pendingData) + Len(value) + 1 > MaxEvent)
      BY <1>1, <1>9, <2>2
    <3> QED
      BY <1>8, <2>1, <3>1
  <2>3. CASE ~Parser!Is(field, "data")
    BY <1>1, <1>9, <2>1, <2>3
  <2> QED
    BY <2>2, <2>3
<1> QED
  BY <1>1, <1>2, <1>5, <1>9, <1>10, <1>12, <1>13, LineLeaves

-----------------------------------------------------------------------------
(* The scan has come to the end of what is held, or to a CR there.         *)
LEMMA ScannedAll ==
  ASSUME ParserTypes, Held, ~Parser!HasLine, NEW u, u = Parser!Unread, NEW n, n = Parser!Content
  PROVE  /\ u \in Seq(Bytes) /\ Len(u) \in Nat /\ n \in 0 .. Len(u) /\ \A i \in 1 .. n : ~Terminates(u[i])
         /\ \/ n = Len(u)
            \/ n = Len(u) - 1 /\ u[Len(u)] = Parser!CR /\ pc # "ending" /\ Parser!LineEnd # 0
<1> DEFINE e == Parser!LineEnd
<1>1. u \in Seq(Bytes) /\ Len(u) \in Nat
  BY UnreadIs
<1>2. /\ e \in 0 .. Len(u)
      /\ e = 0 => \A i \in 1 .. Len(u) : ~Terminates(u[i])
      /\ e # 0 => Terminates(u[e]) /\ \A i \in 1 .. e - 1 : ~Terminates(u[i])
  BY LineEndIs
<1>3. n = IF e # 0 THEN e - 1 ELSE Len(u)
  BY DEF Parser!Content
<1>4. e # 0 => u[e] = Parser!CR /\ e = Len(u) /\ pc # "ending"
  BY DEF Parser!HasLine, Parser!HoldsCr
<1> HIDE DEF e
<1>5. CASE e = 0
  BY <1>1, <1>2, <1>3, <1>5
<1>6. CASE e # 0
  <2>1. n = Len(u) - 1 /\ n = e - 1 /\ e \in 1 .. Len(u)
    BY <1>1, <1>2, <1>3, <1>4, <1>6
  <2> QED
    BY <1>1, <1>2, <1>4, <1>6, <2>1 DEF e
<1> QED
  BY <1>5, <1>6

(* At the end of the stream the parser has said what the reference says.   *)
LEMMA EndSettles ==
  ASSUME ParserTypes, Held, Open, pc = "ending", ~Parser!HasLine, ~Parser!LineTooLong
  PROVE  Parser!Reference(fed, ended) = [frames |-> popped \o queue, overflow |-> overflow]
<1> DEFINE u == Parser!Unread
           n == Parser!Content
<1>1. ended \in BOOLEAN /\ ended /\ overflow = "none" /\ Len(chunk) = 0
  BY EmptySeq DEF ParserTypes, Open
<1>2. /\ u \in Seq(Bytes) /\ Len(u) \in Nat /\ n = Len(u) /\ \A i \in 1 .. Len(u) : ~Terminates(u[i])
  BY ScannedAll
<1>3. Parser!BomDecided
  BY DEF Parser!BomDecided
<1>4. ~(n > MaxLine) /\ MaxLine \in Nat
  BY <1>3, StreamsAssumption DEF Parser!LineTooLong
<1>5. PICK t, v, f : t = Parser!Stripped(fed) /\ v = Parser!Text(fed, ended) /\ f = popped \o queue
  OBVIOUS
<1>6. PICK c \in 0 .. Len(fed) : ReadTo(t, c, u)
  BY <1>3, <1>5, Reading
<1> HIDE DEF u, n
<1>7. /\ v \in Seq(Bytes) /\ Boundary(v, c) /\ Within(v, c)
      /\ Collected(v, c, pendingData, pendingEvent, lastId, f)
      /\ Len(t) \in Nat /\ Len(v) \in Nat /\ c \in Nat /\ Len(t) = c + Len(u) + Len(chunk)
      /\ (\A j \in 1 .. Len(v) : v[j] = t[j]) /\ (\A j \in 1 .. Len(u) : t[c + j] = u[j])
      /\ \/ Len(v) = Len(t)
         \/ Len(v) = Len(t) - 1 /\ t[Len(t)] = Parser!CR /\ ~ended
  <2>1. t = Parser!Stripped(fed) /\ v = Parser!Text(fed, ended) /\ f = popped \o queue
    BY <1>5
  <2>2. /\ t \in Seq(Bytes) /\ v \in Seq(Bytes) /\ Boundary(v, c) /\ Within(v, c)
        /\ Collected(v, c, pendingData, pendingEvent, lastId, popped \o queue)
        /\ Len(t) \in Nat /\ Len(v) \in Nat /\ Len(u) \in Nat /\ Len(chunk) \in Nat /\ c \in Nat
        /\ c <= Len(v) /\ Len(v) <= Len(t) /\ Len(t) = c + Len(u) + Len(chunk)
        /\ (\A j \in 1 .. Len(v) : v[j] = t[j]) /\ \A j \in 1 .. Len(u) : t[c + j] = u[j]
        /\ \/ Len(v) = Len(t) /\ (ended \/ Len(t) = 0 \/ t[Len(t)] # Parser!CR)
           \/ Len(v) = Len(t) - 1 /\ t[Len(t)] = Parser!CR /\ ~ended
    BY <1>2, <1>6, <2>1, Viewed
  <2> QED
    BY <2>1, <2>2
<1>8. Len(v) = c + Len(u) /\ Len(v) = Len(t)
  BY <1>1, <1>2, <1>7
<1>9. ASSUME NEW i \in (c + 1) .. Len(v) PROVE ~Terminates(v[i])
  <2>1. i - c \in 1 .. Len(u) /\ c + (i - c) = i /\ i \in 1 .. Len(v)
    BY <1>2, <1>7, <1>8
  <2>2. t[c + (i - c)] = u[i - c]
    BY <1>7, <2>1
  <2> QED
    BY <1>2, <1>7, <2>1, <2>2
<1>10. Len(v) - c <= MaxLine
  BY <1>2, <1>4, <1>7, <1>8
<1>11. v \in Seq(Bytes) /\ Boundary(v, c) /\ Within(v, c) /\ Collected(v, c, pendingData, pendingEvent, lastId, f)
  BY <1>7
<1>12. Parser!Reference(fed, ended) = [frames |-> f, overflow |-> "none"]
  <2>1. Len(v) - c <= MaxLine \/ (~ended /\ Parser!IsPrefix(fed, Parser!BOM))
    BY <1>10
  <2>2. ended \in BOOLEAN /\ MaxLine \in Nat /\ v = Parser!Text(fed, ended)
    BY <1>1, <1>4, <1>5
  <2>3. PICK done \in BOOLEAN : done = ended
    BY <2>2
  <2>4. Parser!Reference(fed, done) = [frames |-> f, overflow |-> "none"]
    BY <1>9, <1>11, <2>1, <2>2, <2>3, RefSettled
  <2> QED
    BY <2>3, <2>4
<1> QED
  BY <1>1, <1>5, <1>12

LEMMA NeedMoreKeeps == ASSUME ParserInv, Parser!NeedMore PROVE ParserInv'
<1> DEFINE u == Parser!Unread
           n == Parser!Content
<1>1. /\ pc \in {"lines", "ending"} /\ ~Parser!HasLine /\ ~Parser!LineTooLong
      /\ buf' = u /\ scanFrom' = n /\ bomResolved' = Parser!BomDecided
      /\ closed' = (pc = "ending") /\ pc' = (IF pc = "ending" THEN "idle" ELSE "copy")
      /\ UNCHANGED <<wire, chunk, pendingEvent, pendingData, lastId, queue, overflow, fed, ended, popped>>
  BY DEF Parser!NeedMore, Parser!Draining, Parser!dispatcher, Parser!history
<1>2. /\ ParserTypes /\ Held /\ Open /\ ~closed /\ MaxLine \in Nat /\ MaxEvent \in Nat /\ PieceLen \in Nat
  BY <1>1, OpenOrDone, StreamsAssumption
<1>3. /\ u \in Seq(Bytes) /\ Len(u) \in Nat /\ n \in 0 .. Len(u) /\ (\A i \in 1 .. n : ~Terminates(u[i]))
      /\ \/ n = Len(u)
         \/ n = Len(u) - 1 /\ u[Len(u)] = Parser!CR /\ pc # "ending" /\ Parser!LineEnd # 0
  BY <1>1, <1>2, ScannedAll
<1>4. Parser!BomDecided => ~(n > MaxLine)
  BY <1>1 DEF Parser!LineTooLong
<1>5. Parser!BomDecided \in BOOLEAN /\ (pc = "ending" => Parser!BomDecided)
  BY <1>2 DEF Parser!BomDecided, ParserTypes
<1>6. ~Parser!BomDecided => /\ ~bomResolved /\ ~Settles(buf) /\ Len(buf) < 3 /\ u = buf /\ n = Len(u)
  <2> SUFFICES ASSUME ~Parser!BomDecided
               PROVE  ~bomResolved /\ ~Settles(buf) /\ Len(buf) < 3 /\ u = buf /\ n = Len(u)
    OBVIOUS
  <2>1. ~bomResolved /\ ~Settles(buf)
    BY DEF Parser!BomDecided, Settles
  <2>2. buf \in Seq(Bytes) /\ Len(buf) \in Nat
    BY <1>2, LenProperties DEF ParserTypes
  <2>3. Len(buf) < 3
    BY <2>1, <2>2, SettledIs
  <2>4. ~Marked(buf)
    BY <2>2, <2>3 DEF Marked
  <2>5. u = buf
    BY <1>2, <2>4, UnreadIs
  <2>6. n = Len(u)
    BY <1>2, <1>3, LineDecided
  <2> QED
    BY <2>1, <2>3, <2>5, <2>6
<1> HIDE DEF u, n
<1>7. ParserTypes'
  BY <1>1, <1>2, <1>3, <1>5 DEF ParserTypes
<1>8. Len(u) <= Most /\ Most \in Nat
  <2>1. CASE Parser!BomDecided
    BY <1>2, <1>3, <1>4, <2>1 DEF Most
  <2>2. CASE ~Parser!BomDecided
    BY <1>2, <1>3, <1>6, <2>2 DEF Most
  <2> QED
    BY <2>1, <2>2
<1>9. Held'
  <2>1. scanFrom' \in 0 .. Len(buf') /\ \A i \in 1 .. scanFrom' : ~Parser!IsTerminator(buf'[i])
    BY <1>1, <1>3 DEF Terminates, Parser!IsTerminator
  <2>2. Parser!Size(pendingData') \in 0 .. MaxEvent
    BY <1>1, <1>2 DEF Held
  <2>3. Len(buf') <= Most + PieceLen /\ Len(buf') <= Most
    BY <1>1, <1>2, <1>3, <1>8
  <2>4. scanFrom' = Len(buf') \/ (scanFrom' = Len(buf') - 1 /\ buf'[Len(buf')] = Parser!CR)
    BY <1>1, <1>3
  <2>5. IF bomResolved' THEN scanFrom' <= MaxLine ELSE ~Settles(buf')
    <3>1. CASE Parser!BomDecided
      BY <1>1, <1>2, <1>3, <1>4, <3>1
    <3>2. CASE ~Parser!BomDecided
      BY <1>1, <1>6, <3>2
    <3> QED
      BY <3>1, <3>2
  <2> QED
    BY <2>1, <2>2, <2>3, <2>4, <2>5 DEF Held, Most
<1>10. CASE pc = "ending"
  <2>1. Parser!Reference(fed, ended) = [frames |-> popped \o queue, overflow |-> overflow]
    BY <1>1, <1>2, <1>10, EndSettles
  <2>2. Done'
    BY <1>1, <1>10, <2>1 DEF Done
  <2> QED
    BY <1>1, <1>7, <1>9, <1>10, <2>2 DEF ParserInv
<1>11. CASE pc = "lines"
  <2>1. /\ pc' = "copy" /\ ~closed' /\ overflow' = "none" /\ ended' = ended /\ ~ended
    BY <1>1, <1>2, <1>11 DEF Open
  <2>2. CASE Parser!BomDecided
    <3>1. Settles(fed) /\ \E c \in 0 .. Len(fed) : ReadTo(Parser!Stripped(fed), c, u)
      BY <1>2, <1>11, <2>2, Reading DEF u
    <3>2. PICK c \in 0 .. Len(fed) : ReadTo(Parser!Stripped(fed), c, u)
      BY <3>1
    <3>3. PICK t : t = Parser!Stripped(fed)
      OBVIOUS
    <3>4. ReadTo(t, c, buf)' /\ t = Parser!Stripped(fed')
      BY <1>1, <1>11, <3>2, <3>3 DEF ReadTo
    <3>5. c \in 0 .. Len(fed') /\ Settles(fed') /\ bomResolved'
      BY <1>1, <2>2, <3>1
    <3>6. \E a \in 0 .. Len(fed') : ReadTo(Parser!Stripped(fed), a, buf)'
      BY <3>4, <3>5
    <3>7. Open'
      BY <2>1, <3>5, <3>6 DEF Open
    <3> QED
      BY <1>7, <1>9, <2>1, <3>7 DEF ParserInv
  <2>3. CASE ~Parser!BomDecided
    <3>1. ~bomResolved' /\ buf' = buf
      BY <1>1, <1>6, <2>3
    <3>2. Holds(fed, 0, buf, chunk) /\ Untouched
      BY <1>2, <1>6, <2>3 DEF Open
    <3>3. Holds(fed', 0, buf', chunk') /\ Untouched'
      BY <1>1, <3>1, <3>2 DEF Untouched
    <3>4. Open'
      BY <2>1, <3>1, <3>3 DEF Open
    <3> QED
      BY <1>7, <1>9, <2>1, <3>4 DEF ParserInv
  <2> QED
    BY <2>2, <2>3
<1> QED
  BY <1>1, <1>10, <1>11

-----------------------------------------------------------------------------
(* Between two calls the caller has seen what the reference says.          *)
LEMMA NothingDecided ==
  ASSUME ParserTypes, Held, Open, pc = "idle", ~closed, ~bomResolved
  PROVE  [frames |-> popped \o queue, overflow |-> overflow] = Parser!Reference(fed, ended)
<1>1. /\ fed \in Seq(Bytes) /\ buf \in Seq(Bytes) /\ overflow = "none" /\ ended \in BOOLEAN /\ ~ended
      /\ Holds(fed, 0, buf, <<>>) /\ Untouched /\ ~Settles(buf) /\ MaxLine \in Nat
  BY StreamsAssumption DEF ParserTypes, Open, Held
<1>2. Len(buf) \in Nat /\ Len(fed) \in Nat /\ Len(<<>>) = 0
  BY <1>1, LenProperties
<1>3. fed = buf
  <2>1. Len(fed) = Len(buf)
    BY <1>1, <1>2 DEF Holds
  <2>2. \A i \in 1 .. Len(buf) : 0 + i = i
    BY <1>2
  <2>3. \A i \in 1 .. Len(buf) : fed[i] = buf[i]
    BY <1>1, <2>2 DEF Holds
  <2> QED
    BY <1>1, <2>1, <2>3, SeqEqual
<1>4. Len(fed) < 3 /\ (\A i \in 1 .. Len(fed) : fed[i] = Parser!BOM[i]) /\ Parser!IsPrefix(fed, Parser!BOM)
  BY <1>1, <1>3, SettledIs DEF Settles
<1>5. PICK t, v, f : t = Parser!Stripped(fed) /\ v = Parser!Text(fed, ended) /\ f = popped \o queue
  OBVIOUS
<1>6. t = fed
  <2>1. ~Marked(fed)
    BY <1>2, <1>4 DEF Marked
  <2> QED
    BY <1>1, <1>5, <2>1, StrippedIs
<1>7. v \in Seq(Bytes) /\ Len(v) \in Nat /\ Len(v) <= Len(fed) /\ \A i \in 1 .. Len(v) : v[i] = fed[i]
  <2>1. /\ v \in Seq(Bytes)
        /\ \/ v = t /\ (ended \/ Len(t) = 0 \/ t[Len(t)] # Parser!CR)
           \/ /\ ~ended /\ Len(t) > 0 /\ t[Len(t)] = Parser!CR
              /\ Len(v) = Len(t) - 1 /\ \A i \in 1 .. Len(v) : v[i] = t[i]
    BY <1>1, <1>5, TextIs
  <2>2. Len(v) \in Nat
    BY <2>1, LenProperties
  <2> QED
    BY <1>2, <1>6, <2>1, <2>2
<1>8. \A i \in 0 + 1 .. Len(v) : ~Terminates(v[i])
  <2>1. \A i \in 0 + 1 .. Len(v) : i \in 1 .. 3 /\ i \in 1 .. Len(fed) /\ i \in 1 .. Len(v)
    BY <1>2, <1>4, <1>7
  <2> QED
    BY <1>4, <1>7, <2>1, MarkIs
<1>9. f = <<>>
  <2>1. popped = <<>> /\ queue = <<>> /\ <<>> \in Seq({})
    BY <1>1, EmptySeq DEF Untouched
  <2> QED
    BY <1>5, <2>1, ConcatEmptySeq
<1>10. Boundary(v, 0) /\ Within(v, 0) /\ Collected(v, 0, <<>>, <<>>, Parser!None, f)
  BY <1>7, <1>9, NothingYet
<1>11. Parser!Reference(fed, ended) = [frames |-> f, overflow |-> "none"]
  <2>1. Len(v) - 0 <= MaxLine \/ (~ended /\ Parser!IsPrefix(fed, Parser!BOM))
    BY <1>1, <1>4
  <2>2. PICK done \in BOOLEAN : done = ended
    BY <1>1
  <2>3. v \in Seq(Bytes) /\ v = Parser!Text(fed, ended) /\ MaxLine \in Nat
    BY <1>1, <1>5, <1>7
  <2>4. Parser!Reference(fed, done) = [frames |-> f, overflow |-> "none"]
    BY <1>8, <1>10, <2>1, <2>2, <2>3, RefSettled
  <2> QED
    BY <2>2, <2>4
<1> QED
  BY <1>1, <1>5, <1>11

LEMMA ReadSoFar ==
  ASSUME ParserTypes, Held, Open, pc = "idle", ~closed, bomResolved
  PROVE  [frames |-> popped \o queue, overflow |-> overflow] = Parser!Reference(fed, ended)
<1>1. /\ buf \in Seq(Bytes) /\ overflow = "none" /\ ended \in BOOLEAN /\ ~ended /\ chunk = <<>>
      /\ MaxLine \in Nat
  BY StreamsAssumption DEF ParserTypes, Open
<1>2. PICK t, v, f : t = Parser!Stripped(fed) /\ v = Parser!Text(fed, ended) /\ f = popped \o queue
  OBVIOUS
<1>3. PICK c \in 0 .. Len(fed) : ReadTo(t, c, buf)
  BY <1>2 DEF Open
<1>4. Len(chunk) = 0 /\ Len(buf) \in Nat
  BY <1>1, EmptySeq, LenProperties
<1>5. /\ scanFrom \in 0 .. Len(buf) /\ (\A i \in 1 .. scanFrom : ~Terminates(buf[i]))
      /\ scanFrom = Len(buf) \/ (scanFrom = Len(buf) - 1 /\ buf[Len(buf)] = Parser!CR)
      /\ scanFrom <= MaxLine
  BY DEF Held, Parser!IsTerminator, Terminates
<1>6. /\ v \in Seq(Bytes) /\ Boundary(v, c) /\ Within(v, c)
      /\ Collected(v, c, pendingData, pendingEvent, lastId, f)
      /\ Len(t) \in Nat /\ Len(v) \in Nat /\ c \in Nat /\ c <= Len(v) /\ Len(v) <= Len(t)
      /\ Len(t) = c + Len(buf) + Len(chunk)
      /\ (\A j \in 1 .. Len(v) : v[j] = t[j]) /\ (\A j \in 1 .. Len(buf) : t[c + j] = buf[j])
      /\ \/ Len(v) = Len(t) /\ (ended \/ Len(t) = 0 \/ t[Len(t)] # Parser!CR)
         \/ Len(v) = Len(t) - 1 /\ t[Len(t)] = Parser!CR /\ ~ended
  BY <1>1, <1>2, <1>3, Viewed
<1>7. Len(v) <= c + scanFrom
  <2>1. CASE scanFrom = Len(buf)
    BY <1>4, <1>6, <2>1
  <2>2. CASE scanFrom = Len(buf) - 1 /\ buf[Len(buf)] = Parser!CR
    <3>1. Len(buf) \in 1 .. Len(buf) /\ Len(t) = c + Len(buf) /\ Len(t) # 0
      BY <1>4, <1>5, <1>6, <2>2
    <3>2. t[c + Len(buf)] = Parser!CR
      BY <1>6, <2>2, <3>1
    <3>3. Len(v) = Len(t) - 1
      BY <1>1, <1>6, <3>1, <3>2
    <3> QED
      BY <1>4, <1>6, <2>2, <3>1, <3>3
  <2> QED
    BY <1>5, <2>1, <2>2
<1>8. ASSUME NEW i \in (c + 1) .. Len(v) PROVE ~Terminates(v[i])
  <2>0. PICK x, y : x = Len(v) /\ y = Len(buf)
    OBVIOUS
  <2>a. x \in Nat /\ y \in Nat /\ c \in Nat /\ scanFrom \in 0 .. y /\ x <= c + scanFrom /\ i \in (c + 1) .. x
    BY <1>4, <1>5, <1>6, <1>7, <2>0
  <2>b. i - c \in 1 .. scanFrom /\ i - c \in 1 .. y /\ c + (i - c) = i /\ i \in 1 .. x
    BY <2>a
  <2>1. i - c \in 1 .. scanFrom /\ i - c \in 1 .. Len(buf) /\ c + (i - c) = i /\ i \in 1 .. Len(v)
    BY <2>0, <2>b
  <2>2. t[c + (i - c)] = buf[i - c]
    BY <1>6, <2>1
  <2> QED
    BY <1>5, <1>6, <2>1, <2>2
<1>9. Parser!Reference(fed, ended) = [frames |-> f, overflow |-> "none"]
  <2>1. Len(v) - c <= MaxLine \/ (~ended /\ Parser!IsPrefix(fed, Parser!BOM))
    BY <1>1, <1>4, <1>5, <1>6, <1>7
  <2>2. PICK done \in BOOLEAN : done = ended
    BY <1>1
  <2>3. /\ v \in Seq(Bytes) /\ v = Parser!Text(fed, ended) /\ MaxLine \in Nat /\ Boundary(v, c) /\ Within(v, c)
        /\ Collected(v, c, pendingData, pendingEvent, lastId, f)
    BY <1>1, <1>2, <1>6
  <2>4. Parser!Reference(fed, done) = [frames |-> f, overflow |-> "none"]
    BY <1>8, <2>1, <2>2, <2>3, RefSettled
  <2> QED
    BY <2>2, <2>4
<1> QED
  BY <1>1, <1>2, <1>9

LEMMA ChunksHidden == ParserInv => ChunkingInvisible
<1> SUFFICES ASSUME ParserInv PROVE Parser!ChunkingInvisible
  BY DEF ChunkingInvisible
<1>1. ParserTypes /\ Held /\ (~closed => Open) /\ (closed => Done)
  BY DEF ParserInv
<1>2. pc = "idle" => [frames |-> popped \o queue, overflow |-> overflow] = Parser!Reference(fed, ended)
  <2>1. CASE closed
    BY <1>1, <2>1 DEF Done
  <2>2. CASE ~closed /\ bomResolved
    BY <1>1, <2>2, ReadSoFar
  <2>3. CASE ~closed /\ ~bomResolved
    BY <1>1, <2>3, NothingDecided
  <2> QED
    BY <2>1, <2>2, <2>3
<1>3. Parser!HeldIsBounded
  <2>1. Parser!Size(pendingData) <= MaxEvent
    BY <1>1, StreamsAssumption DEF Held
  <2> QED
    BY <1>1, <2>1 DEF Held, Most, Parser!HeldIsBounded
<1> QED
  BY <1>2, <1>3 DEF Parser!ChunkingInvisible

LEMMA ParserSteps == ParserInv /\ [Parser!Next]_Parser!vars => ParserInv'
<1> SUFFICES ASSUME ParserInv, [Parser!Next]_Parser!vars PROVE ParserInv'
  OBVIOUS
<1>1. CASE \E n \in 1 .. Len(wire) : Parser!Feed(n)
  BY <1>1, FeedKeeps
<1>2. CASE Parser!FeedClosed
  BY <1>2, FeedClosedKeeps
<1>3. CASE Parser!CopyPiece
  BY <1>3, CopyPieceKeeps
<1>4. CASE Parser!FeedReturns
  BY <1>4, FeedReturnsKeeps
<1>5. CASE Parser!LineOverflow
  BY <1>5, LineOverflowKeeps
<1>6. CASE Parser!Comment
  BY <1>6, CommentKeeps
<1>7. CASE Parser!Blank
  BY <1>7, BlankKeeps
<1>8. CASE Parser!FieldLine
  BY <1>8, FieldLineKeeps
<1>9. CASE Parser!EventOverflow
  BY <1>9, EventOverflowKeeps
<1>10. CASE Parser!NeedMore
  BY <1>10, NeedMoreKeeps
<1>11. CASE Parser!End
  BY <1>11, EndKeeps
<1>12. CASE Parser!NextFrame
  BY <1>12, NextFrameKeeps
<1>13. CASE UNCHANGED Parser!vars
  BY <1>13, ParserStutters
<1> QED
  BY <1>1, <1>2, <1>3, <1>4, <1>5, <1>6, <1>7, <1>8, <1>9, <1>10, <1>11, <1>12, <1>13 DEF Parser!Next

(* However a stream is cut into chunks, and whenever the caller looks, the *)
(* parser of crates/finesse has given it the frames and the overflow of    *)
(* the bytes it was handed, read as a whole; and it never holds more than  *)
(* its bounds allow.                                                       *)
THEOREM ChunksDoNotShow == Parser!Spec => []ChunkingInvisible
<1>1. Parser!Init => ParserInv
  BY ParserStarts
<1>2. ParserInv /\ [Parser!Next]_Parser!vars => ParserInv'
  BY ParserSteps
<1>3. ParserInv => ChunkingInvisible
  BY ChunksHidden
<1> QED
  BY <1>1, <1>2, <1>3, PTL DEF Parser!Spec
=============================================================================
