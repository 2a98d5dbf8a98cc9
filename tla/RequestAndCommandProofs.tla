---------------------- MODULE RequestAndCommandProofs -----------------------
(***************************************************************************)
(* What the client makes of the texts it is handed, whatever they are.     *)
(*                                                                         *)
(* Requests: the key a position is stored under tells watches apart        *)
(* (resume_key.rs); many listeners are the lists each of them is; the      *)
(* replay command is a listen over what it is given; and a range of a      *)
(* watch means the same through the library, the C interface, Python and   *)
(* the command line.                                                       *)
(*                                                                         *)
(* Commands: a value of a notification, placed in the text of a command    *)
(* trigger, is read as that value by a shell that is where the tracker     *)
(* takes it to be (template/shell); the end of an output is kept, in       *)
(* whatever pieces it arrives; and a child finds no credential of the      *)
(* client (command/mod.rs).                                                *)
(*                                                                         *)
(* Templates: what is placed in a URL leaves its parts as they are         *)
(* (template/url.rs), and a body made of a notification is sent as it is   *)
(* (post.rs, teams.rs), for which the recursive functions that read a      *)
(* template are shown to be what their equations say.                      *)
(*                                                                         *)
(* Refusals: what a server says is shown without what a terminal would     *)
(* obey (diagnostics.rs).                                                  *)
(***************************************************************************)
EXTENDS CommandLine, Templates, FiniteSetTheorems, SequenceTheorems, TLAPS

Making == INSTANCE FoldFacts WITH Op <- CallMade

(* An option that is given.                                                *)
LEMMA OptionsAre ==
  /\ ~IsGiven(Unset)
  /\ \A x : IsGiven(Given(x)) /\ Given(x)[1] = x
BY DEF IsGiven, Unset, Given

-----------------------------------------------------------------------------
(* The key a position is stored under.                                     *)

(* Lengths are told apart as they are written.                             *)
LengthsTold == \A m, n \in Nat : ToString(m) = ToString(n) => m = n

(* Two sequences put together.                                             *)
Glued(z, p, q) ==
  /\ Len(p) \in Nat /\ Len(q) \in Nat /\ Len(z) = Len(p) + Len(q)
  /\ \A i \in 1 .. Len(p) : z[i] = p[i]
  /\ \A i \in 1 .. Len(q) : z[Len(p) + i] = q[i]

LEMMA GluedIs ==
  ASSUME NEW S, NEW p, p \in Seq(S), NEW q, q \in Seq(S), NEW z, z = p \o q
  PROVE  z \in Seq(S) /\ Glued(z, p, q)
<1>1. Len(p) \in Nat /\ Len(q) \in Nat
  BY LenProperties
<1>2. /\ p \o q \in Seq(S)
      /\ Len(p \o q) = Len(p) + Len(q)
      /\ \A i \in 1 .. Len(p) + Len(q) : (p \o q)[i] = IF i <= Len(p) THEN p[i] ELSE q[i - Len(p)]
  BY ConcatProperties
<1>3. \A i \in 1 .. Len(p) + Len(q) : z[i] = IF i <= Len(p) THEN p[i] ELSE q[i - Len(p)]
  BY <1>2
<1>4. \A i \in 1 .. Len(q) : z[Len(p) + i] = q[i]
  <2> SUFFICES ASSUME NEW i \in 1 .. Len(q)
               PROVE  z[Len(p) + i] = q[i]
    OBVIOUS
  <2>1. Len(p) + i \in 1 .. Len(p) + Len(q) /\ ~(Len(p) + i <= Len(p)) /\ Len(p) + i - Len(p) = i
    BY <1>1
  <2> QED
    BY <1>3, <2>1
<1> QED
  BY <1>1, <1>2, <1>3, <1>4 DEF Glued

Joined(x, y) == x \o y

(* What begins with a field is that field and what follows it.             *)
LEMMA FieldsSplit ==
  ASSUME LengthsTold, NEW S, NEW x \in Seq(S), NEW y \in Seq(S), NEW r \in Seq(S), NEW s \in Seq(S),
         Joined(WriteField(x), r) = Joined(WriteField(y), s)
  PROVE  x = y /\ r = s
<1> DEFINE T == S \cup {ToString(Len(x)), ToString(Len(y))}
           hx == <<ToString(Len(x))>>
           hy == <<ToString(Len(y))>>
           fx == WriteField(x)
           fy == WriteField(y)
           a  == fx \o r
           b  == fy \o s
<1>1. /\ hx \in Seq(T) /\ Len(hx) = 1 /\ hx[1] = ToString(Len(x))
      /\ hy \in Seq(T) /\ Len(hy) = 1 /\ hy[1] = ToString(Len(y))
  OBVIOUS
<1>2. x \in Seq(T) /\ y \in Seq(T) /\ r \in Seq(T) /\ s \in Seq(T)
  OBVIOUS
<1>3. Len(x) \in Nat /\ Len(y) \in Nat /\ Len(r) \in Nat /\ Len(s) \in Nat
  BY LenProperties
<1>4. fx = hx \o x /\ fy = hy \o y
  BY DEF WriteField
<1> HIDE DEF hx, hy, fx, fy, T
<1>5. /\ fx \in Seq(T)
      /\ Len(fx) = 1 + Len(x) /\ fx[1] = hx[1]
      /\ \A i \in 1 .. Len(x) : fx[1 + i] = x[i]
  <2>1. fx \in Seq(T) /\ Glued(fx, hx, x)
    BY <1>1, <1>2, <1>4, GluedIs, Zenon
  <2> QED
    BY <1>1, <2>1 DEF Glued
<1>6. /\ fy \in Seq(T)
      /\ Len(fy) = 1 + Len(y) /\ fy[1] = hy[1]
      /\ \A i \in 1 .. Len(y) : fy[1 + i] = y[i]
  <2>1. fy \in Seq(T) /\ Glued(fy, hy, y)
    BY <1>1, <1>2, <1>4, GluedIs, Zenon
  <2> QED
    BY <1>1, <2>1 DEF Glued
<1>7. /\ a \in Seq(T) /\ Len(a) = Len(fx) + Len(r)
      /\ \A i \in 1 .. Len(fx) : a[i] = fx[i]
      /\ \A i \in 1 .. Len(r) : a[Len(fx) + i] = r[i]
  <2>1. a \in Seq(T) /\ Glued(a, fx, r)
    BY <1>2, <1>5, GluedIs, Zenon
  <2> QED
    BY <2>1 DEF Glued
<1>8. /\ b \in Seq(T) /\ Len(b) = Len(fy) + Len(s)
      /\ \A i \in 1 .. Len(fy) : b[i] = fy[i]
      /\ \A i \in 1 .. Len(s) : b[Len(fy) + i] = s[i]
  <2>1. b \in Seq(T) /\ Glued(b, fy, s)
    BY <1>2, <1>6, GluedIs, Zenon
  <2> QED
    BY <2>1 DEF Glued
<1>9. a = b
  BY DEF fx, fy, Joined
<1> HIDE DEF a, b
<1>10. a[1] = hx[1] /\ b[1] = hy[1]
  BY <1>3, <1>5, <1>6, <1>7, <1>8
<1>11. Len(x) = Len(y)
  BY <1>1, <1>3, <1>9, <1>10 DEF LengthsTold
<1>12. ASSUME NEW i \in 1 .. Len(x)
       PROVE  x[i] = y[i]
  <2>1. 1 + i \in 1 .. Len(fx) /\ 1 + i \in 1 .. Len(fy) /\ i \in 1 .. Len(y)
    BY <1>3, <1>5, <1>6, <1>11
  <2>2. a[1 + i] = x[i]
    BY <1>5, <1>7, <2>1
  <2>3. b[1 + i] = y[i]
    BY <1>6, <1>8, <2>1
  <2> QED
    BY <1>9, <2>2, <2>3
<1>13. x = y
  BY <1>2, <1>11, <1>12, SeqEqual
<1>14. Len(r) = Len(s)
  BY <1>3, <1>5, <1>6, <1>7, <1>8, <1>9, <1>11
<1>15. ASSUME NEW i \in 1 .. Len(r)
       PROVE  r[i] = s[i]
  <2>1. i \in 1 .. Len(s) /\ Len(fx) = Len(fy)
    BY <1>5, <1>6, <1>11, <1>14
  <2>2. a[Len(fx) + i] = r[i] /\ b[Len(fy) + i] = s[i]
    BY <1>7, <1>8, <2>1
  <2> QED
    BY <1>9, <2>1, <2>2
<1>16. r = s
  BY <1>2, <1>14, <1>15, SeqEqual
<1> QED
  BY <1>13, <1>16

LEMMA FieldIsSeq ==
  ASSUME NEW S, NEW x \in Seq(S), NEW T, S \subseteq T, \A n \in Nat : ToString(n) \in T
  PROVE  WriteField(x) \in Seq(T)
<1> DEFINE h == <<ToString(Len(x))>>
<1>1. ToString(Len(x)) \in T
  BY LenProperties
<1>2. h \in Seq(T)
  BY <1>1
<1>3. x \in Seq(T)
  OBVIOUS
<1> HIDE DEF h
<1>4. h \o x \in Seq(T)
  BY <1>2, <1>3, ConcatProperties
<1> QED
  BY <1>4 DEF WriteField, h

(* What a filter becomes, name after name.                                 *)
Block(filter, name) == IF name \in DOMAIN filter THEN <<name, "colon", filter[name], "comma">> ELSE <<>>
Flattens(at, seqs, n) == at[1] = seqs[1] /\ \A k \in 2 .. n : at[k] = Joined(at[k - 1], seqs[k])
Flattening(seqs, n) ==
  CHOOSE at : at = [i \in 1 .. n |-> IF i = 1 THEN seqs[i] ELSE Joined(at[i - 1], seqs[i])]

LEMMA FlatteningIs ==
  ASSUME NEW seqs, NEW n \in Nat, n # 0
  PROVE  Flattens(Flattening(seqs, n), seqs, n)
<1> DEFINE Builds(at, m) == at = [i \in 1 .. m |-> IF i = 1 THEN seqs[i] ELSE Joined(at[i - 1], seqs[i])]
           solved == {m \in Nat : \E at : Builds(at, m)}
<1>1. 0 \in solved
  <2>1. Builds([i \in 1 .. 0 |-> 0], 0)
    OBVIOUS
  <2> QED
    BY <2>1
<1>2. ASSUME NEW m \in Nat, m \in solved
      PROVE  m + 1 \in solved
  <2> PICK at : Builds(at, m)
    BY <1>2
  <2> DEFINE next == [i \in 1 .. m + 1 |->
                       IF i <= m THEN at[i] ELSE IF i = 1 THEN seqs[i] ELSE Joined(at[i - 1], seqs[i])]
  <2>1. ASSUME NEW i \in 1 .. m + 1
        PROVE  next[i] = IF i = 1 THEN seqs[i] ELSE Joined(next[i - 1], seqs[i])
    <3>1. CASE i <= m
      <4>1. i \in 1 .. m /\ next[i] = at[i]
        BY <3>1
      <4>2. i # 1 => i - 1 \in 1 .. m + 1 /\ i - 1 <= m /\ next[i - 1] = at[i - 1]
        BY <3>1
      <4>3. at[i] = IF i = 1 THEN seqs[i] ELSE Joined(at[i - 1], seqs[i])
        BY <4>1
      <4> HIDE DEF next
      <4> QED
        BY <4>1, <4>2, <4>3
    <3>2. CASE ~(i <= m)
      <4>1. i # 1 => i - 1 \in 1 .. m + 1 /\ i - 1 <= m /\ next[i - 1] = at[i - 1]
        BY <3>2
      <4>2. next[i] = IF i = 1 THEN seqs[i] ELSE Joined(at[i - 1], seqs[i])
        BY <3>2
      <4> HIDE DEF next
      <4> QED
        BY <4>1, <4>2
    <3> QED
      BY <3>1, <3>2
  <2>2. next = [i \in 1 .. m + 1 |-> next[i]]
    OBVIOUS
  <2> HIDE DEF next
  <2>3. Builds(next, m + 1)
    BY <2>1, <2>2
  <2> QED
    BY <2>3
<1>3. n \in solved
  <2> HIDE DEF solved
  <2> QED
    BY <1>1, <1>2, Making!NaturalSets
<1>4. \E at : Builds(at, n)
  BY <1>3
<1>5. Builds(Flattening(seqs, n), n)
  BY <1>4 DEF Flattening
<1> DEFINE at == Flattening(seqs, n)
<1> HIDE DEF at
<1>6. at = [i \in 1 .. n |-> IF i = 1 THEN seqs[i] ELSE Joined(at[i - 1], seqs[i])]
  BY <1>5 DEF at
<1>7. Flattens(at, seqs, n)
  BY <1>6 DEF Flattens
<1> QED
  BY <1>7 DEF at

(* The whole of it.                                                        *)
Grows(at, filter, names) ==
  /\ at[0] = <<>>
  /\ \A k \in 1 .. Len(names) : at[k] = Joined(at[k - 1], Block(filter, names[k]))

ValuesIn(filter, S) == \A name \in DOMAIN filter : filter[name] \in S

LEMMA BlockIs ==
  ASSUME NEW S, "colon" \in S, "comma" \in S, NEW filter, ValuesIn(filter, S), NEW name \in S
  PROVE  /\ Block(filter, name) \in Seq(S)
         /\ IF name \in DOMAIN filter
            THEN /\ Len(Block(filter, name)) = 4
                 /\ Block(filter, name)[1] = name /\ Block(filter, name)[3] = filter[name]
            ELSE Len(Block(filter, name)) = 0
BY DEF Block, ValuesIn

LEMMA CanonicalGrows ==
  ASSUME NEW S, "colon" \in S, "comma" \in S, NEW names \in Seq(S), NEW filter, ValuesIn(filter, S)
  PROVE  \E at : Grows(at, filter, names) /\ CanonicalFilter(filter, names) = at[Len(names)]
<1> DEFINE n == Len(names)
           blocks == [i \in DOMAIN names |-> IF names[i] \in DOMAIN filter
                        THEN <<names[i], "colon", filter[names[i]], "comma">> ELSE <<>>]
           flat == Flattening(blocks, n)
           at == [k \in 0 .. n |-> IF k = 0 THEN <<>> ELSE flat[k]]
<1>1. n \in Nat /\ DOMAIN names = 1 .. n
  BY LenProperties
<1>2. \A k \in 1 .. n : names[k] \in S /\ blocks[k] = Block(filter, names[k])
  BY <1>1 DEF Block
<1>3. blocks \in Seq(Seq(S)) /\ Len(blocks) = n
  <2>1. \A k \in 1 .. n : blocks[k] \in Seq(S)
    BY <1>2, BlockIs
  <2>2. DOMAIN blocks = 1 .. n
    BY <1>1
  <2>3. blocks = [k \in 1 .. n |-> blocks[k]]
    BY <2>2
  <2> HIDE DEF blocks
  <2>4. blocks \in [1 .. n -> Seq(S)]
    BY <2>1, <2>3
  <2>5. blocks \in Seq(Seq(S))
    BY <1>1, <2>4, SeqDef
  <2>6. DOMAIN blocks = 1 .. Len(blocks) /\ Len(blocks) \in Nat
    BY <2>5, LenProperties
  <2> QED
    BY <1>1, <2>2, <2>5, <2>6
<1>4. CanonicalFilter(filter, names) = FlattenSeq(blocks)
  BY DEF CanonicalFilter
<1> HIDE DEF blocks, n
<1>5. FlattenSeq(blocks) = IF n = 0 THEN blocks ELSE flat[n]
  BY <1>3 DEF FlattenSeq, Flattening, Joined
<1>6. CASE n = 0
  <2>1. blocks = <<>>
    BY <1>3, <1>6, EmptySeq
  <2>2. Grows(at, filter, names) /\ at[n] = <<>>
    BY <1>6 DEF Grows, n
  <2> QED
    BY <1>4, <1>5, <1>6, <2>1, <2>2 DEF n
<1>7. CASE n # 0
  <2>1. Flattens(flat, blocks, n)
    BY <1>1, <1>7, FlatteningIs
  <2> HIDE DEF flat
  <2>2. at[0] = <<>> /\ \A k \in 1 .. n : at[k] = flat[k]
    BY <1>1
  <2> HIDE DEF at
  <2>3. ASSUME NEW k \in 1 .. n
        PROVE  at[k] = Joined(at[k - 1], Block(filter, names[k]))
    <3>1. CASE k = 1
      <4>1. at[1] = blocks[1] /\ blocks[1] \in Seq(S)
        BY <1>1, <1>2, <1>3, <1>7, <2>1, <2>2, <3>1 DEF Flattens
      <4>2. Joined(<<>>, blocks[1]) = blocks[1]
        BY <4>1, ConcatEmptySeq DEF Joined
      <4> QED
        BY <1>2, <2>2, <3>1, <4>1, <4>2
    <3>2. CASE k # 1
      <4>1. k \in 2 .. n /\ k - 1 \in 1 .. n
        BY <1>1, <3>2
      <4>2. flat[k] = Joined(flat[k - 1], blocks[k])
        BY <2>1, <4>1 DEF Flattens
      <4> QED
        BY <1>2, <2>2, <4>1, <4>2
    <3> QED
      BY <3>1, <3>2
  <2>4. Grows(at, filter, names)
    BY <2>2, <2>3 DEF Grows, n
  <2>5. at[n] = flat[n]
    BY <1>1, <1>7, <2>2
  <2> QED
    BY <1>4, <1>5, <1>7, <2>4, <2>5 DEF n
<1> QED
  BY <1>6, <1>7

(* Every fourth piece is a name that has been taken.                       *)
Headed(s, names, k) ==
  \E m \in Nat : Len(s) = 4 * m /\ \A j \in Nat : j < m => \E i \in 1 .. k : s[4 * j + 1] = names[i]

LEMMA GrownIs ==
  ASSUME NEW S, "colon" \in S, "comma" \in S, NEW names \in Seq(S), NEW filter, ValuesIn(filter, S),
         NEW at, Grows(at, filter, names)
  PROVE  \A k \in 0 .. Len(names) : at[k] \in Seq(S) /\ Headed(at[k], names, k)
<1> DEFINE n == Len(names)
           good == {k \in Nat : k <= n => at[k] \in Seq(S) /\ Headed(at[k], names, k)}
<1>1. n \in Nat
  BY LenProperties
<1> HIDE DEF n
<1>2. 0 \in good
  <2>1. at[0] = <<>>
    BY DEF Grows
  <2>2. <<>> \in Seq(S) /\ Len(<<>>) = 0
    BY EmptySeq
  <2>3. Headed(<<>>, names, 0)
    BY <2>2 DEF Headed
  <2> QED
    BY <2>1, <2>2, <2>3
<1>3. ASSUME NEW k \in Nat, k \in good
      PROVE  k + 1 \in good
  <2> SUFFICES ASSUME k + 1 <= n
               PROVE  at[k + 1] \in Seq(S) /\ Headed(at[k + 1], names, k + 1)
    OBVIOUS
  <2> DEFINE old == at[k]
             new == at[k + 1]
             name == names[k + 1]
             block == Block(filter, name)
  <2>1. k + 1 \in 1 .. n /\ k + 1 - 1 = k
    BY <1>1
  <2>2. new = Joined(old, block)
    BY <2>1 DEF Grows, n
  <2>3. old \in Seq(S) /\ Headed(old, names, k)
    BY <1>3, <1>1
  <2>4. name \in S
    BY <2>1 DEF n
  <2> HIDE DEF block
  <2>5. /\ block \in Seq(S)
        /\ name \in DOMAIN filter => Len(block) = 4 /\ block[1] = name
        /\ name \notin DOMAIN filter => Len(block) = 0
    BY <2>4, BlockIs DEF block
  <2>6. new \in Seq(S) /\ Glued(new, old, block)
    <3> HIDE DEF old, new
    <3> QED
      BY <2>2, <2>3, <2>5, GluedIs DEF Joined
  <2> PICK m \in Nat : Len(old) = 4 * m /\ \A j \in Nat : j < m => \E i \in 1 .. k : old[4 * j + 1] = names[i]
    BY <2>3 DEF Headed
  <2> HIDE DEF old, new
  <2>7. ASSUME NEW j \in Nat, j < m
        PROVE  \E i \in 1 .. k + 1 : new[4 * j + 1] = names[i]
    <3>1. 4 * j + 1 \in 1 .. Len(old)
      BY <2>7
    <3>2. new[4 * j + 1] = old[4 * j + 1]
      BY <2>6, <3>1 DEF Glued
    <3>3. \E i \in 1 .. k : old[4 * j + 1] = names[i]
      BY <2>7
    <3>4. \A i \in 1 .. k : i \in 1 .. k + 1
      OBVIOUS
    <3> QED
      BY <3>2, <3>3, <3>4
  <2>8. CASE name \in DOMAIN filter
    <3>0. Len(block) = 4 /\ block[1] = name /\ 1 \in 1 .. 4
      BY <2>5, <2>8
    <3>1. Len(new) = 4 * (m + 1)
      <4> HIDE DEF name
      <4>1. Len(new) = 4 * m + 4
        BY <2>6, <3>0 DEF Glued
      <4> QED
        BY <4>1
    <3>2. new[4 * m + 1] = name
      <4> HIDE DEF name
      <4> QED
        BY <2>6, <3>0 DEF Glued
    <3>3. k + 1 \in 1 .. k + 1
      OBVIOUS
    <3>4. ASSUME NEW j \in Nat, j < m + 1
          PROVE  \E i \in 1 .. k + 1 : new[4 * j + 1] = names[i]
      <4>1. CASE j < m
        BY <2>7, <4>1
      <4>2. CASE ~(j < m)
        <5>1. j = m
          BY <3>4, <4>2
        <5> QED
          BY <3>2, <3>3, <5>1
      <4> QED
        BY <4>1, <4>2
    <3>5. Headed(new, names, k + 1)
      <4>1. m + 1 \in Nat
        OBVIOUS
      <4> QED
        BY <3>1, <3>4, <4>1 DEF Headed
    <3> QED
      BY <2>6, <3>5 DEF new
  <2>9. CASE name \notin DOMAIN filter
    <3>1. Len(new) = 4 * m
      BY <2>5, <2>6, <2>9 DEF Glued
    <3>2. Headed(new, names, k + 1)
      BY <2>7, <3>1 DEF Headed
    <3> QED
      BY <2>6, <3>2 DEF new
  <2> QED
    BY <2>8, <2>9
<1>4. Nat \subseteq good
  <2> HIDE DEF good
  <2> QED
    BY <1>2, <1>3, Making!NaturalSets
<1> QED
  BY <1>4, <1>1 DEF n

Distinct(names) == \A i, j \in 1 .. Len(names) : names[i] = names[j] => i = j
Agree(f, g, name) == (name \in DOMAIN f <=> name \in DOMAIN g) /\ (name \in DOMAIN f => f[name] = g[name])

(* A name that only one of the filters has shows.                          *)
LEMMA NamesShow ==
  ASSUME NEW S, NEW names \in Seq(S), Distinct(names), NEW k \in Nat, k + 1 \in 1 .. Len(names),
         NEW old \in Seq(S), Headed(old, names, k), NEW block \in Seq(S),
         Len(block) = 4, block[1] = names[k + 1], NEW other \in Seq(S), Headed(other, names, k),
         NEW new, Glued(new, old, block)
  PROVE  new # other
<1> SUFFICES ASSUME new = other PROVE FALSE
  OBVIOUS
<1> PICK m \in Nat : Len(old) = 4 * m
  BY DEF Headed
<1> PICK w \in Nat : Len(other) = 4 * w /\ \A j \in Nat : j < w => \E i \in 1 .. k : other[4 * j + 1] = names[i]
  BY DEF Headed
<1>1. Len(new) = 4 * m + 4 /\ new[4 * m + 1] = names[k + 1]
  BY DEF Glued
<1>2. m < w
  BY <1>1
<1> PICK i \in 1 .. k : other[4 * m + 1] = names[i]
  BY <1>2
<1>3. names[i] = names[k + 1]
  BY <1>1
<1>4. Len(names) \in Nat
  BY LenProperties
<1>5. i \in 1 .. Len(names) /\ i # k + 1
  BY <1>4
<1> QED
  BY <1>3, <1>5 DEF Distinct

LEMMA CanonicalTells ==
  ASSUME NEW S, "colon" \in S, "comma" \in S, NEW names \in Seq(S), Distinct(names),
         NEW f, ValuesIn(f, S), NEW g, ValuesIn(g, S),
         CanonicalFilter(f, names) = CanonicalFilter(g, names)
  PROVE  \A i \in 1 .. Len(names) : Agree(f, g, names[i])
<1> DEFINE n == Len(names)
<1>1. n \in Nat
  BY LenProperties
<1> PICK a : Grows(a, f, names) /\ CanonicalFilter(f, names) = a[Len(names)]
  BY CanonicalGrows
<1> PICK b : Grows(b, g, names) /\ CanonicalFilter(g, names) = b[Len(names)]
  BY CanonicalGrows
<1>2. \A k \in 0 .. n : a[k] \in Seq(S) /\ Headed(a[k], names, k)
  BY GrownIs
<1>3. \A k \in 0 .. n : b[k] \in Seq(S) /\ Headed(b[k], names, k)
  BY GrownIs
<1> DEFINE good == {k \in Nat : k <= n /\ a[k] = b[k] => \A i \in 1 .. k : Agree(f, g, names[i])}
<1>4. 0 \in good
  OBVIOUS
<1>5. ASSUME NEW k \in Nat, k \in good
      PROVE  k + 1 \in good
  <2> SUFFICES ASSUME k + 1 <= n, a[k + 1] = b[k + 1]
               PROVE  \A i \in 1 .. k + 1 : Agree(f, g, names[i])
    OBVIOUS
  <2> DEFINE name == names[k + 1]
             x == Block(f, name)
             y == Block(g, name)
             oldA == a[k]
             newA == a[k + 1]
             oldB == b[k]
             newB == b[k + 1]
  <2>1. k \in 0 .. n /\ k + 1 \in 1 .. n /\ k + 1 - 1 = k /\ name \in S
    <3>1. k \in 0 .. n /\ k + 1 \in 1 .. n /\ k + 1 - 1 = k
      BY <1>1
    <3> QED
      BY <3>1
  <2>2. newA = Joined(oldA, x) /\ newB = Joined(oldB, y)
    BY <2>1 DEF Grows
  <2>3. oldA \in Seq(S) /\ oldB \in Seq(S) /\ Headed(oldA, names, k) /\ Headed(oldB, names, k)
    BY <1>2, <1>3, <2>1
  <2> HIDE DEF x, y, n
  <2>4. /\ x \in Seq(S)
        /\ name \in DOMAIN f => Len(x) = 4 /\ x[1] = name /\ x[3] = f[name]
        /\ name \notin DOMAIN f => Len(x) = 0
    BY <2>1, BlockIs DEF x
  <2>5. /\ y \in Seq(S)
        /\ name \in DOMAIN g => Len(y) = 4 /\ y[1] = name /\ y[3] = g[name]
        /\ name \notin DOMAIN g => Len(y) = 0
    BY <2>1, BlockIs DEF y
  <2> HIDE DEF oldA, newA, oldB, newB
  <2>6. /\ newA \in Seq(S) /\ Glued(newA, oldA, x)
        /\ newB \in Seq(S) /\ Glued(newB, oldB, y)
    BY <2>2, <2>3, <2>4, <2>5, GluedIs DEF Joined
  <2>7. newA = newB
    BY DEF newA, newB
  <2>8. name \notin DOMAIN f => newA = oldA
    <3> HIDE DEF name
    <3>1. name \notin DOMAIN f => Len(newA) = Len(oldA) /\ \A i \in 1 .. Len(newA) : newA[i] = oldA[i]
      BY <2>4, <2>6 DEF Glued
    <3> QED
      BY <2>3, <2>6, <3>1, SeqEqual
  <2>9. name \notin DOMAIN g => newB = oldB
    <3> HIDE DEF name
    <3>1. name \notin DOMAIN g => Len(newB) = Len(oldB) /\ \A i \in 1 .. Len(newB) : newB[i] = oldB[i]
      BY <2>5, <2>6 DEF Glued
    <3> QED
      BY <2>3, <2>6, <3>1, SeqEqual
  <2>10. ~(name \in DOMAIN f /\ name \notin DOMAIN g)
    <3> SUFFICES ASSUME name \in DOMAIN f, name \notin DOMAIN g PROVE FALSE
      OBVIOUS
    <3>1. newA # oldB
      BY <2>1, <2>3, <2>4, <2>6, NamesShow DEF n
    <3> QED
      BY <2>7, <2>9, <3>1
  <2>11. ~(name \in DOMAIN g /\ name \notin DOMAIN f)
    <3> SUFFICES ASSUME name \in DOMAIN g, name \notin DOMAIN f PROVE FALSE
      OBVIOUS
    <3>1. newB # oldA
      BY <2>1, <2>3, <2>5, <2>6, NamesShow DEF n
    <3> QED
      BY <2>7, <2>8, <3>1
  <2>12. oldA = oldB /\ Agree(f, g, name)
    <3>1. CASE name \in DOMAIN f
      <4>1. name \in DOMAIN g
        BY <2>10, <3>1
      <4> HIDE DEF name
      <4>2. Len(oldA) = Len(oldB)
        BY <2>4, <2>5, <2>6, <2>7, <3>1, <4>1 DEF Glued
      <4>3. \A i \in 1 .. Len(oldA) : oldA[i] = oldB[i]
        BY <2>6, <2>7, <4>2 DEF Glued
      <4>4. oldA = oldB
        BY <2>3, <4>2, <4>3, SeqEqual
      <4>5. newA[Len(oldA) + 3] = f[name] /\ newB[Len(oldB) + 3] = g[name]
        <5>0. Len(x) = 4 /\ Len(y) = 4 /\ x[3] = f[name] /\ y[3] = g[name]
          BY <2>4, <2>5, <3>1, <4>1
        <5>1. 3 \in 1 .. Len(x) /\ 3 \in 1 .. Len(y)
          BY <5>0
        <5> QED
          BY <2>6, <5>0, <5>1 DEF Glued
      <4>6. f[name] = g[name]
        BY <2>7, <4>4, <4>5
      <4> QED
        BY <3>1, <4>1, <4>4, <4>6 DEF Agree
    <3>2. CASE name \notin DOMAIN f
      <4>1. name \notin DOMAIN g
        BY <2>11, <3>2
      <4> QED
        BY <2>7, <2>8, <2>9, <3>2, <4>1 DEF Agree
    <3> QED
      BY <3>1, <3>2
  <2>13. \A i \in 1 .. k : Agree(f, g, names[i])
    BY <1>1, <1>5, <2>1, <2>12 DEF oldA, oldB
  <2>14. \A i \in 1 .. k + 1 : i \in 1 .. k \/ i = k + 1
    OBVIOUS
  <2> QED
    BY <2>12, <2>13, <2>14
<1>6. Nat \subseteq good
  <2> HIDE DEF good
  <2> QED
    BY <1>4, <1>5, Making!NaturalSets
<1>7. n \in good
  BY <1>1, <1>6
<1>8. n <= n /\ a[n] = b[n]
  <2>1. a[Len(names)] = b[Len(names)]
    OBVIOUS
  <2> QED
    BY <1>1, <2>1
<1> QED
  BY <1>7, <1>8

LEMMA JoinsAre ==
  ASSUME NEW T, NEW x \in Seq(T), NEW y \in Seq(T), NEW z \in Seq(T)
  PROVE  /\ Joined(x, y) \in Seq(T)
         /\ Joined(Joined(x, y), z) = Joined(x, Joined(y, z))
BY ConcatProperties, ConcatAssociative DEF Joined

(* What the key is a key of.                                               *)
IsWatched(w, S, names) ==
  /\ NormalizeBaseUrl(w.url) \in Seq(S) /\ w.event \in Seq(S)
  /\ w.filter = [name \in DOMAIN w.filter |-> w.filter[name]]
  /\ DOMAIN w.filter \subseteq {names[i] : i \in 1 .. Len(names)} /\ ValuesIn(w.filter, S)
  /\ w.fingerprint = Unset \/ \E f \in Seq(S) : w.fingerprint = Given(f)

Pieces(w, names) ==
  Joined(<<"version">>, Joined(WriteField(NormalizeBaseUrl(w.url)), Joined(WriteField(w.event),
    Joined(WriteField(CanonicalFilter(w.filter, names)), WriteOptionalField(w.fingerprint)))))

LEMMA OptionalIs ==
  ASSUME NEW S, NEW T, S \subseteq T, \A n \in Nat : ToString(n) \in T, "some" \in T, "none" \in T,
         NEW option, option = Unset \/ \E f \in Seq(S) : option = Given(f)
  PROVE  WriteOptionalField(option) \in Seq(T)
<1>1. CASE option = Unset
  <2>1. WriteOptionalField(option) = <<"none">>
    BY <1>1 DEF WriteOptionalField, IsGiven, Unset
  <2> QED
    BY <2>1
<1>2. CASE \E f \in Seq(S) : option = Given(f)
  <2> PICK f \in Seq(S) : option = Given(f)
    BY <1>2
  <2> DEFINE some == <<"some">>
             field == WriteField(f)
  <2>1. WriteOptionalField(option) = some \o field
    BY OptionsAre DEF WriteOptionalField
  <2>2. some \in Seq(T)
    OBVIOUS
  <2>3. field \in Seq(T)
    BY FieldIsSeq
  <2> HIDE DEF some, field
  <2> QED
    BY <2>1, <2>2, <2>3, ConcatProperties
<1> QED
  BY <1>1, <1>2

LEMMA OptionalsTell ==
  ASSUME LengthsTold, NEW S, NEW p, NEW q,
         p = Unset \/ \E f \in Seq(S) : p = Given(f),
         q = Unset \/ \E f \in Seq(S) : q = Given(f),
         WriteOptionalField(p) = WriteOptionalField(q)
  PROVE  p = q
<1> DEFINE T == S \cup {ToString(n) : n \in Nat} \cup {"some", "none"}
           some == <<"some">>
           none == <<"none">>
           empty == <<>>
<1>1. S \subseteq T /\ (\A n \in Nat : ToString(n) \in T) /\ some \in Seq(T) /\ empty \in Seq(T)
  OBVIOUS
<1>2. some[1] = "some" /\ none[1] = "none" /\ Len(some) = 1
  OBVIOUS
<1>3. "some" # "none"
  OBVIOUS
<1> HIDE DEF T, some, none, empty
<1>4. ASSUME NEW f \in Seq(S)
      PROVE  /\ WriteField(f) \in Seq(T) /\ (some \o WriteField(f))[1] = "some"
             /\ WriteField(f) \o empty = WriteField(f)
  <2>1. WriteField(f) \in Seq(T)
    BY <1>1, FieldIsSeq
  <2> DEFINE z == some \o WriteField(f)
  <2>2. Glued(z, some, WriteField(f))
    BY <1>1, <2>1, GluedIs
  <2>3. z[1] = some[1]
    <3> HIDE DEF z
    <3> QED
      BY <1>2, <2>2 DEF Glued
  <2>4. WriteField(f) \o empty = WriteField(f)
    BY <2>1, ConcatEmptySeq DEF empty
  <2> QED
    BY <1>2, <2>1, <2>3, <2>4
<1>5. \A f : WriteOptionalField(Given(f)) = some \o WriteField(f)
  BY OptionsAre DEF WriteOptionalField, some
<1>6. WriteOptionalField(Unset) = none
  BY OptionsAre DEF WriteOptionalField, none
<1>7. CASE p = Unset /\ q = Unset
  BY <1>7
<1>8. CASE p = Unset /\ q # Unset
  BY <1>2, <1>3, <1>4, <1>5, <1>6, <1>8
<1>9. CASE p # Unset /\ q = Unset
  BY <1>2, <1>3, <1>4, <1>5, <1>6, <1>9
<1>10. CASE p # Unset /\ q # Unset
  <2> PICK f \in Seq(S) : p = Given(f)
    BY <1>10
  <2> PICK g \in Seq(S) : q = Given(g)
    BY <1>10
  <2> DEFINE wf == WriteField(f)
             wg == WriteField(g)
  <2>1. some \o wf = some \o wg
    BY <1>5
  <2>2. wf \in Seq(T) /\ wg \in Seq(T)
    BY <1>4
  <2> HIDE DEF wf, wg
  <2>3. wf = wg
    BY <1>1, <2>1, <2>2, ConcatSimplifications
  <2>4. Joined(WriteField(f), empty) = Joined(WriteField(g), empty)
    BY <2>3 DEF wf, wg
  <2>5. f \in Seq(T) /\ g \in Seq(T)
    BY <1>1, SeqMonotonic
  <2>6. f = g
    BY <1>1, <2>4, <2>5, FieldsSplit
  <2> QED
    BY <2>6
<1> QED
  BY <1>7, <1>8, <1>9, <1>10

LEMMA KeyIs ==
  ASSUME NEW S, "colon" \in S, "comma" \in S, NEW names \in Seq(S), NEW w, IsWatched(w, S, names),
         NEW T, S \subseteq T, \A n \in Nat : ToString(n) \in T, {"some", "none", "version"} \subseteq T
  PROVE  /\ CanonicalFilter(w.filter, names) \in Seq(S)
         /\ WriteOptionalField(w.fingerprint) \in Seq(T)
         /\ ResumeKey(w, names) = Pieces(w, names)
<1> DEFINE v == <<"version">>
           u == WriteField(NormalizeBaseUrl(w.url))
           e == WriteField(w.event)
           c == WriteField(CanonicalFilter(w.filter, names))
           p == WriteOptionalField(w.fingerprint)
<1>1. CanonicalFilter(w.filter, names) \in Seq(S)
  <2>1. ValuesIn(w.filter, S)
    BY DEF IsWatched
  <2> PICK at : Grows(at, w.filter, names) /\ CanonicalFilter(w.filter, names) = at[Len(names)]
    BY <2>1, CanonicalGrows
  <2>2. \A k \in 0 .. Len(names) : at[k] \in Seq(S) /\ Headed(at[k], names, k)
    BY <2>1, GrownIs
  <2>3. Len(names) \in 0 .. Len(names)
    BY LenProperties
  <2>4. at[Len(names)] \in Seq(S)
    BY <2>2, <2>3
  <2> QED
    BY <2>4
<1>2. v \in Seq(T)
  OBVIOUS
<1>3. u \in Seq(T) /\ e \in Seq(T) /\ c \in Seq(T)
  <2>1. NormalizeBaseUrl(w.url) \in Seq(S) /\ w.event \in Seq(S)
    BY DEF IsWatched
  <2> QED
    BY <1>1, <2>1, FieldIsSeq
<1>4. p \in Seq(T)
  <2>1. w.fingerprint = Unset \/ \E f \in Seq(S) : w.fingerprint = Given(f)
    BY DEF IsWatched
  <2>2. "some" \in T /\ "none" \in T
    OBVIOUS
  <2> QED
    BY <2>1, <2>2, OptionalIs
<1>5. ResumeKey(w, names) = Joined(Joined(Joined(Joined(v, u), e), c), p)
  BY DEF ResumeKey, Joined
<1>6. Pieces(w, names) = Joined(v, Joined(u, Joined(e, Joined(c, p))))
  BY DEF Pieces
<1> HIDE DEF v, u, e, c, p
<1>7. Joined(Joined(Joined(Joined(v, u), e), c), p) = Joined(v, Joined(u, Joined(e, Joined(c, p))))
  <2>1. Joined(v, u) \in Seq(T) /\ Joined(Joined(v, u), e) \in Seq(T)
    BY <1>2, <1>3, JoinsAre
  <2>2. Joined(c, p) \in Seq(T) /\ Joined(e, Joined(c, p)) \in Seq(T)
    BY <1>3, <1>4, JoinsAre
  <2>3. Joined(Joined(Joined(Joined(v, u), e), c), p) = Joined(Joined(Joined(v, u), e), Joined(c, p))
    BY <1>3, <1>4, <2>1, JoinsAre
  <2>4. Joined(Joined(Joined(v, u), e), Joined(c, p)) = Joined(Joined(v, u), Joined(e, Joined(c, p)))
    BY <1>3, <2>1, <2>2, JoinsAre
  <2>5. Joined(Joined(v, u), Joined(e, Joined(c, p))) = Joined(v, Joined(u, Joined(e, Joined(c, p))))
    BY <1>2, <1>3, <2>2, JoinsAre
  <2> QED
    BY <2>3, <2>4, <2>5
<1> QED
  BY <1>1, <1>4, <1>5, <1>6, <1>7 DEF p

(* Two watches share a stored position exactly when they watch the same    *)
(* event of the same server with the same filter and, where one is set,    *)
(* the same fingerprint: no piece of the key can be taken for a part of    *)
(* its neighbour, whatever the texts are (ResumeKey::new, write_field).    *)
THEOREM KeysTellWatchesApart ==
  \A S, names, a, b :
    LengthsTold /\ "colon" \in S /\ "comma" \in S /\ names \in Seq(S) /\ Distinct(names)
      /\ IsWatched(a, S, names) /\ IsWatched(b, S, names)
      => SameKeyIsSameWatch(a, b, names)
<1> SUFFICES ASSUME NEW S, NEW names, NEW a, NEW b,
                    LengthsTold, "colon" \in S, "comma" \in S, names \in Seq(S), Distinct(names),
                    IsWatched(a, S, names), IsWatched(b, S, names)
             PROVE  SameKeyIsSameWatch(a, b, names)
  OBVIOUS
<1> DEFINE T == S \cup {ToString(n) : n \in Nat} \cup {"some", "none", "version"}
           ua == NormalizeBaseUrl(a.url)
           ub == NormalizeBaseUrl(b.url)
           ca == CanonicalFilter(a.filter, names)
           cb == CanonicalFilter(b.filter, names)
           oa == WriteOptionalField(a.fingerprint)
           ob == WriteOptionalField(b.fingerprint)
           v  == <<"version">>
<1>1. S \subseteq T /\ (\A n \in Nat : ToString(n) \in T) /\ {"some", "none", "version"} \subseteq T /\ v \in Seq(T)
  OBVIOUS
<1> HIDE DEF T
<1>2. /\ ca \in Seq(S) /\ oa \in Seq(T) /\ ResumeKey(a, names) = Pieces(a, names)
      /\ cb \in Seq(S) /\ ob \in Seq(T) /\ ResumeKey(b, names) = Pieces(b, names)
  BY <1>1, KeyIs
<1>3. ua \in Seq(S) /\ a.event \in Seq(S) /\ ub \in Seq(S) /\ b.event \in Seq(S)
  BY DEF IsWatched
<1>4. ASSUME ResumeKey(a, names) = ResumeKey(b, names)
      PROVE  ua = ub /\ a.event = b.event /\ a.filter = b.filter /\ a.fingerprint = b.fingerprint
  <2> DEFINE ra == Joined(WriteField(ca), oa)
             rb == Joined(WriteField(cb), ob)
             sa == Joined(WriteField(a.event), ra)
             sb == Joined(WriteField(b.event), rb)
             ta == Joined(WriteField(ua), sa)
             tb == Joined(WriteField(ub), sb)
  <2>1. Joined(v, ta) = Joined(v, tb)
    BY <1>2, <1>4 DEF Pieces
  <2> HIDE DEF v, ua, ub, ca, cb, oa, ob
  <2>2. /\ WriteField(ua) \in Seq(T) /\ WriteField(a.event) \in Seq(T) /\ WriteField(ca) \in Seq(T)
        /\ WriteField(ub) \in Seq(T) /\ WriteField(b.event) \in Seq(T) /\ WriteField(cb) \in Seq(T)
    BY <1>1, <1>2, <1>3, FieldIsSeq
  <2>3. /\ ua \in Seq(T) /\ a.event \in Seq(T) /\ ca \in Seq(T)
        /\ ub \in Seq(T) /\ b.event \in Seq(T) /\ cb \in Seq(T)
    BY <1>1, <1>2, <1>3, SeqMonotonic
  <2>4. ra \in Seq(T) /\ rb \in Seq(T)
    BY <1>2, <2>2, JoinsAre
  <2> HIDE DEF ra, rb
  <2>5. sa \in Seq(T) /\ sb \in Seq(T)
    BY <2>2, <2>4, JoinsAre
  <2> HIDE DEF sa, sb
  <2>6. ta \in Seq(T) /\ tb \in Seq(T)
    BY <2>2, <2>5, JoinsAre
  <2> HIDE DEF ta, tb
  <2>7. ta = tb
    BY <1>1, <2>1, <2>6, ConcatSimplifications DEF Joined
  <2>8. ua = ub /\ sa = sb
    <3>1. Joined(WriteField(ua), sa) = Joined(WriteField(ub), sb)
      BY <2>7 DEF ta, tb
    <3> QED
      BY <3>1, <2>3, <2>5, FieldsSplit
  <2>9. a.event = b.event /\ ra = rb
    <3>1. Joined(WriteField(a.event), ra) = Joined(WriteField(b.event), rb)
      BY <2>8 DEF sa, sb
    <3> QED
      BY <3>1, <2>3, <2>4, FieldsSplit
  <2>10. ca = cb /\ oa = ob
    <3>1. Joined(WriteField(ca), oa) = Joined(WriteField(cb), ob)
      BY <2>9 DEF ra, rb
    <3> QED
      BY <3>1, <1>2, <2>3, FieldsSplit
  <2>11. a.fingerprint = b.fingerprint
    <3>1. /\ a.fingerprint = Unset \/ \E f \in Seq(S) : a.fingerprint = Given(f)
          /\ b.fingerprint = Unset \/ \E f \in Seq(S) : b.fingerprint = Given(f)
      BY DEF IsWatched
    <3> QED
      BY <2>10, <3>1, OptionalsTell DEF oa, ob
  <2>12. a.filter = b.filter
    <3>1. ValuesIn(a.filter, S) /\ ValuesIn(b.filter, S)
      BY DEF IsWatched
    <3>2. \A i \in 1 .. Len(names) : Agree(a.filter, b.filter, names[i])
      BY <2>10, <3>1, CanonicalTells DEF ca, cb
    <3>3. /\ DOMAIN a.filter \subseteq {names[i] : i \in 1 .. Len(names)}
          /\ DOMAIN b.filter \subseteq {names[i] : i \in 1 .. Len(names)}
          /\ a.filter = [name \in DOMAIN a.filter |-> a.filter[name]]
          /\ b.filter = [name \in DOMAIN b.filter |-> b.filter[name]]
      BY DEF IsWatched
    <3>4. DOMAIN a.filter = DOMAIN b.filter
      BY <3>2, <3>3 DEF Agree
    <3>5. \A name \in DOMAIN a.filter : a.filter[name] = b.filter[name]
      BY <3>2, <3>3 DEF Agree
    <3> QED
      BY <3>3, <3>4, <3>5
  <2> QED
    BY <2>8, <2>9, <2>11, <2>12
<1>5. ASSUME ua = ub, a.event = b.event, a.filter = b.filter, a.fingerprint = b.fingerprint
      PROVE  ResumeKey(a, names) = ResumeKey(b, names)
  BY <1>5 DEF ResumeKey
<1> QED
  BY <1>4, <1>5 DEF SameKeyIsSameWatch

-----------------------------------------------------------------------------
(* The optional arguments of a Python call.                                *)
IsOption(option)  == option = Unset \/ option = Given(option[1])
IsArguments(args) ==
  /\ args = [event |-> args.event, filter |-> args.filter, start |-> args.start, until |-> args.until,
             mode |-> args.mode, triggers |-> args.triggers, request |-> args.request]
  /\ IsGiven(args.event) /\ ~IsGiven(args.request)
  /\ IsOption(args.start) /\ IsOption(args.until) /\ IsOption(args.mode)

LEMMA CliOkIs ==
  /\ \A x : Ok(x).ok /\ Ok(x).value = x
  /\ \A kind : ~Err(kind).ok
BY DEF Ok, Err

(* The results of one.                                                     *)
LEMMA CollectedOfOne ==
  ASSUME NEW r
  PROVE  /\ Collected(<<r>>).ok <=> r.ok
         /\ r.ok => Collected(<<r>>).value[1] = r.value
<1> DEFINE I == {i \in 1 .. 1 : ~(<<r>>[i]).ok}
           all == [j \in DOMAIN <<r>> |-> <<r>>[j].value]
<1>1. Collected(<<r>>) = IF (IF I # {} THEN Min(I) ELSE 0) = 0 THEN Ok(all)
                             ELSE <<r>>[IF I # {} THEN Min(I) ELSE 0]
  BY DEF Collected, SelectInSeq
<1>2. all[1] = r.value
  OBVIOUS
<1>3. /\ r.ok => I = {}
      /\ ~r.ok => I = {1}
  OBVIOUS
<1>4. Min({1}) = 1
  <2> DEFINE least == CHOOSE x \in {1} : \A y \in {1} : x <= y
  <2>1. least \in {1}
    <3>1. \E x \in {1} : \A y \in {1} : x <= y
      OBVIOUS
    <3> QED
      BY <3>1, Zenon
  <2> QED
    BY <2>1 DEF Min
<1> HIDE DEF all, I
<1>5. /\ r.ok => Collected(<<r>>) = Ok(all)
      /\ ~r.ok => Collected(<<r>>) = r
  BY <1>1, <1>3, <1>4
<1> QED
  BY <1>2, <1>5, CliOkIs

(* What an entry takes from the shared arguments makes up what it left     *)
(* out.                                                                    *)
OwnArguments(args, split)    == [f \in DOMAIN args |-> IF f \in split THEN Unset ELSE args[f]]
SharedArguments(args, split) ==
  [f \in {"start", "until", "mode"} |-> IF f \in split THEN args[f] ELSE Unset]
MadeUp(own, shared) ==
  [own EXCEPT !.start = OrElse(@, shared.start), !.until = OrElse(@, shared.until),
              !.mode = OrElse(@, shared.mode)]

LEMMA SharedMakesUp ==
  ASSUME NEW args, IsArguments(args), NEW split, split \subseteq {"start", "until", "mode"}
  PROVE  LET own    == OwnArguments(args, split)
             shared == SharedArguments(args, split)
         IN /\ MadeUp(own, shared) = args /\ own.event = args.event
            /\ shared.start \in {Unset, args.start} /\ shared.until \in {Unset, args.until}
            /\ shared.mode \in {Unset, args.mode}
<1> DEFINE own    == [f \in DOMAIN args |-> IF f \in split THEN Unset ELSE args[f]]
           shared == [f \in {"start", "until", "mode"} |-> IF f \in split THEN args[f] ELSE Unset]
           made   == [own EXCEPT !.start = OrElse(@, shared.start), !.until = OrElse(@, shared.until),
                                 !.mode = OrElse(@, shared.mode)]
           names  == {"event", "filter", "start", "until", "mode", "triggers", "request"}
<1>1. DOMAIN args = names
  BY DEF IsArguments
<1>2. args = [f \in names |-> args[f]]
  BY <1>1 DEF IsArguments
<1>3. \A f \in names : own[f] = IF f \in split THEN Unset ELSE args[f]
  BY <1>1
<1>4. \A f \in {"start", "until", "mode"} :
        /\ shared[f] = IF f \in split THEN args[f] ELSE Unset
        /\ OrElse(own[f], shared[f]) = args[f]
  BY <1>3 DEF OrElse, IsGiven
<1>5. made = [f \in names |-> args[f]]
  <2>1. made = [f \in names |-> IF f \in {"start", "until", "mode"} THEN OrElse(own[f], shared[f]) ELSE own[f]]
    <3> HIDE DEF shared
    <3> QED
      BY <1>1
  <2> HIDE DEF own, shared, made
  <2>2. \A f \in names : f \notin {"start", "until", "mode"} => own[f] = args[f]
    BY <1>3
  <2> QED
    BY <2>1, <2>2, <1>4
<1>6. own.event = args.event
  BY <1>3
<1>7. /\ shared.start \in {Unset, args.start} /\ shared.until \in {Unset, args.until}
      /\ shared.mode \in {Unset, args.mode}
  BY <1>4
<1> QED
  BY <1>2, <1>5, <1>6, <1>7 DEF OwnArguments, SharedArguments, MadeUp

(* Arguments that make a request have a known mode and positions that are  *)
(* positions, whichever of them the mode needs.                            *)
LEMMA RequestHasPositions ==
  ASSUME NEW args, IsArguments(args), PyRequest(args).ok
  PROVE  /\ args.mode \in {Unset, Given("watch"), Given("replay_only")}
         /\ IsGiven(args.start) => PyPosition(args.start[1]).ok
         /\ IsGiven(args.until) => PyPosition(args.until[1]).ok
<1> DEFINE mode  == EffectiveMode(args)
           base  == PyBase(args)
           start == PyPosition(args.start[1])
           until == PyPosition(args.until[1])
           live  == "watch"
           past  == "replay_only"
<1>1. base.ok
  <2> DEFINE rest == PyRequest(args)
  <2>1. IsGiven(args.event) /\ ~IsGiven(args.request)
    BY DEF IsArguments
  <2>2. rest = base \/ base.ok
    <3> HIDE DEF base
    <3>1. ~base.ok => PyRequest(args) = base
      BY <2>1 DEF PyRequest, Then, base
    <3> QED
      BY <3>1 DEF rest
  <2> QED
    BY <2>2
<1>2. mode = IF IsGiven(args.mode) THEN args.mode[1] ELSE IF IsGiven(args.until) THEN past ELSE live
  BY DEF EffectiveMode
<1>3. /\ mode \in {live, past}
      /\ mode = live /\ IsGiven(args.until) => ~base.ok
      /\ mode = live /\ ~IsGiven(args.until) /\ IsGiven(args.start) /\ ~start.ok => base = start
      /\ mode = past => IsGiven(args.start)
      /\ mode = past /\ ~start.ok => base = start
      /\ mode = past /\ start.ok /\ IsGiven(args.until) /\ ~until.ok => base = until
  <2>1. ~Err("aviso").ok
    BY CliOkIs
  <2>2. base = CASE mode = live /\ IsGiven(args.until) -> Err("aviso")
       [] mode = live /\ ~IsGiven(args.until) ->
            IF IsGiven(args.start)
            THEN Then(start, LAMBDA s : Ok(WatchFrom(args.event[1], s)))
            ELSE Ok(Watch(args.event[1]))
       [] mode = past /\ IsGiven(args.start) ->
            Then(start, LAMBDA s :
              IF ~IsGiven(args.until) THEN Ok(ReplayOnly(args.event[1], s))
              ELSE Then(until, LAMBDA u : Ok(ReplayRange(args.event[1], s, u))))
       [] mode = past /\ ~IsGiven(args.start) -> Err("aviso")
       [] mode \notin {live, past} -> Err("aviso")
    BY DEF PyBase
  <2>3. live # past
    OBVIOUS
  <2> HIDE DEF mode, base, start, until, live, past
  <2> QED
    BY <1>1, <2>1, <2>2, <2>3 DEF Then
<1> HIDE DEF base, start, until
<1>4. args.mode \in {Unset, Given("watch"), Given("replay_only")}
  BY <1>2, <1>3 DEF IsArguments, IsOption, IsGiven
<1>5. /\ IsGiven(args.start) => start.ok
      /\ IsGiven(args.until) => until.ok
  BY <1>1, <1>2, <1>3
<1> QED
  BY <1>4, <1>5 DEF start, until

(* What listen_many makes of one of its listeners.                         *)
ListenerMade(l, shared, asynchronous) ==
  IF l.name = "" THEN Err("value")
  ELSE Then(EntrySpec(l.entry, shared), LAMBDA spec :
         Then(FromPublic(spec.request), LAMBDA public :
           Then(IF asynchronous THEN Ok(spec) ELSE RefuseAsyncFunctions(spec.functions),
                    LAMBDA checked : Ok([name |-> l.name, spec |-> spec]))))

(* A listener of listen_many, from any arguments of a Python call, is the  *)
(* watch that listen makes of them, whichever of them are shared between   *)
(* the listeners (aviso-py many.rs entry_spec, watch.rs                    *)
(* build_watch_request).                                                   *)
THEOREM ManyListenersAreOne ==
  \A args, split, asynchronous :
    IsArguments(args) /\ split \subseteq {"start", "until", "mode"} => ManyIsOne(args, split, asynchronous)
<1> SUFFICES ASSUME NEW args, NEW split, NEW asynchronous,
                    IsArguments(args), split \subseteq {"start", "until", "mode"}
             PROVE  ManyIsOne(args, split, asynchronous)
  OBVIOUS
<1> DEFINE own    == OwnArguments(args, split)
           shared == SharedArguments(args, split)
           dict   == [type |-> "dict", keys |-> {"event"}, args |-> own]
           listeners == <<[name |-> "n", entry |-> dict]>>
           r      == PyRequest(args)
           free(spec) == IF asynchronous THEN Ok(spec) ELSE RefuseAsyncFunctions(spec.functions)
           entry  == Then(r, LAMBDA spec :
                       Then(FromPublic(spec.request), LAMBDA public :
                         Then(free(spec), LAMBDA checked : Ok([name |-> "n", spec |-> spec]))))
           many   == ListenMany(listeners, shared, Unset, asynchronous)
           one    == Then(PyListen(args, asynchronous), LAMBDA spec :
                       Then(FromPublic(spec.request), LAMBDA public : Ok(spec)))
           modes  == shared.mode \in {Unset, Given("watch"), Given("replay_only")}
           start  == IF IsGiven(shared.start) THEN PyPosition(shared.start[1]) ELSE Ok("")
           until  == IF IsGiven(shared.until) THEN PyPosition(shared.until[1]) ELSE Ok("")
<1>0. /\ MadeUp(own, shared) = args /\ own.event = args.event
      /\ shared.start \in {Unset, args.start} /\ shared.until \in {Unset, args.until}
      /\ shared.mode \in {Unset, args.mode}
  BY SharedMakesUp
<1>1. EntrySpec(dict, shared) = r
  <2>2. IsGiven(args.event)
    BY DEF IsArguments
  <2> HIDE DEF own, shared
  <2>3. dict.type = "dict" /\ dict.keys = {"event"} /\ dict.args = own
    OBVIOUS
  <2>4. dict.keys \ EntryKeys = {}
    BY <2>3 DEF EntryKeys
  <2> HIDE DEF dict
  <2> QED
    BY <1>0, <2>2, <2>3, <2>4 DEF EntrySpec, MadeUp
<1>2. many = IF ~modes THEN Err("value") ELSE IF ~start.ok THEN start ELSE IF ~until.ok THEN until
             ELSE Collected(<<entry>>)
  <2> DEFINE item  == [name |-> "n", entry |-> dict]
             specs == [i \in DOMAIN listeners |-> ListenerMade(listeners[i], shared, asynchronous)]
  <2>1. specs = <<entry>>
    <3>1. ListenerMade(item, shared, asynchronous) = entry
      <4>1. item.name = "n" /\ item.entry = dict /\ "n" # ""
        OBVIOUS
      <4> HIDE DEF item, dict, r, shared
      <4> QED
        BY <1>1, <4>1 DEF ListenerMade, Then
    <3>2. listeners = <<item>>
      OBVIOUS
    <3> HIDE DEF item, entry, listeners
    <3>3. specs = [i \in 1 .. 1 |-> ListenerMade(item, shared, asynchronous)]
      BY <3>2
    <3> HIDE DEF specs
    <3> QED
      BY <3>1, <3>3
  <2>2. many = Then(ParseOnError(Unset), LAMBDA parsed :
                 IF listeners = <<>> THEN Err("value")
                 ELSE Then(IF modes THEN Ok("") ELSE Err("value"), LAMBDA m :
                        Then(start, LAMBDA s : Then(until, LAMBDA u : Collected(specs)))))
    BY DEF ListenMany, ListenerMade
  <2>3. ParseOnError(Unset).ok /\ listeners # <<>>
    BY CliOkIs DEF ParseOnError, IsGiven
  <2> HIDE DEF many, listeners, specs, start, until, modes, entry
  <2> QED
    BY <2>1, <2>2, <2>3, CliOkIs DEF Then
<1>3. ~(modes /\ start.ok /\ until.ok) => ~r.ok
  <2>2. r.ok => /\ args.mode \in {Unset, Given("watch"), Given("replay_only")}
                /\ IsGiven(args.start) => PyPosition(args.start[1]).ok
                /\ IsGiven(args.until) => PyPosition(args.until[1]).ok
    BY RequestHasPositions
  <2>3. ~IsGiven(Unset)
    BY DEF IsGiven
  <2> HIDE DEF shared, r
  <2> QED
    BY <1>0, <2>2, <2>3, CliOkIs
<1>4. /\ entry.ok <=> one.ok
      /\ one.ok => entry.value.spec = one.value
  <2> DEFINE spec == r.value
             public == FromPublic(spec.request)
             allowed == free(spec).ok
  <2>1. entry = IF ~r.ok THEN r ELSE IF ~public.ok THEN public ELSE IF ~allowed THEN free(spec)
                ELSE Ok([name |-> "n", spec |-> spec])
    BY DEF Then
  <2>2. PyListen(args, asynchronous) =
          IF ~r.ok THEN r ELSE IF asynchronous THEN Ok(spec)
          ELSE IF RefuseAsyncFunctions(spec.functions).ok THEN Ok(spec)
          ELSE RefuseAsyncFunctions(spec.functions)
    BY DEF PyListen, Then
  <2>3. one = IF ~PyListen(args, asynchronous).ok THEN PyListen(args, asynchronous)
              ELSE IF ~FromPublic(PyListen(args, asynchronous).value.request).ok
                   THEN FromPublic(PyListen(args, asynchronous).value.request)
                   ELSE Ok(PyListen(args, asynchronous).value)
    BY DEF Then
  <2> DEFINE refused == RefuseAsyncFunctions(spec.functions)
             listen  == PyListen(args, asynchronous)
  <2>4. allowed <=> asynchronous \/ refused.ok
    BY CliOkIs
  <2> HIDE DEF r, refused, listen, entry, one
  <2>5. /\ listen.ok <=> r.ok /\ allowed
        /\ listen.ok => listen.value = spec
    BY <2>2, <2>4, CliOkIs DEF listen, refused
  <2>6. /\ one.ok <=> listen.ok /\ FromPublic(listen.value.request).ok
        /\ one.ok => one.value = listen.value
    BY <2>3, CliOkIs DEF listen
  <2>7. [name |-> "n", spec |-> spec].spec = spec
    OBVIOUS
  <2> HIDE DEF spec, public, allowed
  <2>8. /\ entry.ok <=> r.ok /\ public.ok /\ allowed
        /\ entry.ok => entry.value.spec = spec
    BY <2>1, <2>7, CliOkIs DEF allowed
  <2> QED
    BY <2>5, <2>6, <2>8 DEF public
<1>5. /\ Collected(<<entry>>).ok <=> entry.ok
      /\ entry.ok => Collected(<<entry>>).value[1] = entry.value
  BY CollectedOfOne
<1>6. ManyIsOne(args, split, asynchronous) <=>
        (many.ok <=> one.ok) /\ (one.ok => many.value[1].spec = one.value)
  BY DEF ManyIsOne, OwnArguments, SharedArguments
<1>7. entry.ok => r.ok
  BY DEF Then
<1> HIDE DEF many, one, entry, r, modes, start, until
<1> QED
  BY <1>2, <1>3, <1>4, <1>5, <1>6, <1>7, CliOkIs

(* What of a request goes on the wire.                                     *)
WireFields(request) == <<request.event, request.filter, request.from, request.until>>

LEMMA FieldsAre ==
  ASSUME NEW event, NEW start, NEW end, NEW filter, NEW triggers
  PROVE  LET set(request)  == WithTriggers(WithFilter(request, filter), triggers)
             bare(request) == WithTriggers(request, triggers) IN
         /\ WireFields(Watch(event)) = <<event, NoFilter, Unset, Unset>>
         /\ WireFields(WatchFrom(event, start)) = <<event, NoFilter, Given(start), Unset>>
         /\ WireFields(ReplayOnly(event, start)) = <<event, NoFilter, Given(start), Unset>>
         /\ WireFields(ReplayRange(event, start, end)) = <<event, NoFilter, Given(start), Given(end)>>
         /\ WireFields(bare(Watch(event))) = <<event, NoFilter, Unset, Unset>>
         /\ WireFields(bare(WatchFrom(event, start))) = <<event, NoFilter, Given(start), Unset>>
         /\ WireFields(bare(ReplayOnly(event, start))) = <<event, NoFilter, Given(start), Unset>>
         /\ WireFields(bare(ReplayRange(event, start, end))) =
              <<event, NoFilter, Given(start), Given(end)>>
         /\ WireFields(set(Watch(event))) = <<event, filter, Unset, Unset>>
         /\ WireFields(set(WatchFrom(event, start))) = <<event, filter, Given(start), Unset>>
         /\ WireFields(set(ReplayOnly(event, start))) = <<event, filter, Given(start), Unset>>
         /\ WireFields(set(ReplayRange(event, start, end))) = <<event, filter, Given(start), Given(end)>>
BY DEF WireFields, WithTriggers, WithFilter, Watch, WatchFrom, ReplayOnly, ReplayRange

LEMMA SameWire ==
  ASSUME NEW a, NEW b, WireFields(a) = WireFields(b)
  PROVE  FromPublic(a) = FromPublic(b)
<1>1. a.event = b.event /\ a.filter = b.filter /\ a.from = b.from /\ a.until = b.until
  BY DEF WireFields
<1> QED
  BY <1>1 DEF FromPublic, FromParts

(* A position that can be read is a sequence or a date.                    *)
LEMMA PositionsAre ==
  ASSUME NEW said
  PROVE  LET r == ParsePosition(said)
         IN r.ok => \/ \E n : r.value = AfterSequence(n) /\ n = said.number /\ n <= MaxSequence
                    \/ \E at : r.value = Date(at)
<1> DEFINE r == ParsePosition(said)
           time == Date(Stamped(said.number, said.second, IF said.form = "fraction" THEN said.nanos ELSE 0))
           day  == Date(Stamped(said.number, 0, 0))
<1>1. \/ r = Ok(AfterSequence(said.number)) /\ said.number <= MaxSequence
      \/ r = Ok(day) \/ r = Ok(time) \/ r = Err("usage")
  BY DEF ParsePosition
<1> HIDE DEF r
<1>2. \/ r.value = AfterSequence(said.number) /\ said.number <= MaxSequence
      \/ r.value = day \/ r.value = time \/ ~r.ok
  BY <1>1, CliOkIs
<1> QED
  BY <1>2 DEF r

(* Listeners, and the list they come in.                                   *)
IsListener(l) ==
  l = [name |-> l.name, event |-> l.event, identifiers |-> l.identifiers,
       fromId |-> l.fromId, fromDate |-> l.fromDate, triggers |-> l.triggers]
AreListeners(list) == list \in Seq(Range(list)) /\ \A i \in DOMAIN list : IsListener(list[i])

(* A listener with the position of the command line goes on the wire as    *)
(* its replay from there.                                                  *)
LEMMA CursorIsStart ==
  ASSUME NEW spec, IsListener(spec), NEW cursor,
         (\E n : cursor = AfterSequence(n)) \/ (\E at : cursor = Date(at))
  PROVE  LET set == WithCursor(spec, cursor)
             watch == CliWatch(set)
         IN /\ set.name = spec.name /\ watch.ok
            /\ WireFields(watch.value) = WireFields(CliReplayRequest(spec, cursor, Unset))
<1> DEFINE set == WithCursor(spec, cursor)
           watch == CliWatch(set)
           from == WatchFrom(spec.event, cursor)
<1>1. /\ set.name = spec.name /\ set.event = spec.event /\ set.identifiers = spec.identifiers
      /\ set.fromId = IF cursor.kind = "sequence" THEN Given(cursor.at) ELSE Unset
      /\ set.fromDate = IF cursor.kind = "date" THEN Given(cursor.at) ELSE Unset
  BY DEF IsListener, WithCursor
<1>2. \/ cursor.kind = "sequence" /\ cursor = AfterSequence(cursor.at)
      \/ cursor.kind = "date" /\ cursor = Date(cursor.at)
  BY DEF AfterSequence, Date
<1>3. /\ ~IsGiven(Unset)
      /\ \A x : IsGiven(Given(x)) /\ Given(x)[1] = x
  BY DEF IsGiven, Unset, Given
<1> HIDE DEF set
<1>4. watch = Ok(WithTriggers(WithFilter(from, spec.identifiers), TriggersFor(set)))
  <2>1. CASE cursor.kind = "sequence"
    BY <1>1, <1>2, <1>3, <2>1 DEF CliWatch
  <2>2. CASE cursor.kind = "date"
    BY <1>1, <1>2, <1>3, <2>2 DEF CliWatch
  <2> QED
    BY <1>2, <2>1, <2>2
<1>5. CliReplayRequest(spec, cursor, Unset) =
        WithTriggers(WithFilter(ReplayOnly(spec.event, cursor), spec.identifiers), ReplayTriggers(spec))
  BY <1>3 DEF CliReplayRequest
<1> HIDE DEF watch
<1>6. watch.ok /\ watch.value = WithTriggers(WithFilter(from, spec.identifiers), TriggersFor(set))
  BY <1>4, CliOkIs
<1>7. /\ WireFields(watch.value) = <<spec.event, spec.identifiers, Given(cursor), Unset>>
      /\ WireFields(CliReplayRequest(spec, cursor, Unset)) = <<spec.event, spec.identifiers, Given(cursor), Unset>>
  <2>1. WireFields(watch.value) = <<spec.event, spec.identifiers, Given(cursor), Unset>>
    BY <1>6, FieldsAre
  <2>2. WireFields(CliReplayRequest(spec, cursor, Unset)) = <<spec.event, spec.identifiers, Given(cursor), Unset>>
    BY <1>5, FieldsAre
  <2> QED
    BY <2>1, <2>2
<1> QED
  BY <1>1, <1>6, <1>7 DEF set, watch

(* The first of a list that passes a test is one of the list.              *)
FirstNamed(list, name) == SelectInSeq(list, LAMBDA spec : spec.name = name)

LEMMA NamedIs ==
  ASSUME NEW list, list \in Seq(Range(list)), NEW name
  PROVE  FirstNamed(list, name) # 0 => FirstNamed(list, name) \in 1 .. Len(list)
<1> DEFINE I == {i \in 1 .. Len(list) : list[i].name = name}
           least == CHOOSE x \in I : \A y \in I : x <= y
<1>1. Len(list) \in Nat
  BY LenProperties
<1>2. ASSUME I # {}
      PROVE  Min(I) \in I
  <2>1. I \subseteq Nat
    BY <1>1
  <2>2. \E x \in I : \A y \in I : x <= y
    BY <1>2, <2>1, Making!Least
  <2>3. least \in I
    <3> HIDE DEF I
    <3> QED
      BY <2>2, Zenon
  <2> QED
    BY <2>3 DEF Min
<1>3. FirstNamed(list, name) = IF I # {} THEN Min(I) ELSE 0
  BY DEF FirstNamed, SelectInSeq
<1> QED
  BY <1>2, <1>3

LEMMA InlineIs ==
  ASSUME NEW args, InlineListener(args).ok
  PROVE  LET inline == InlineListener(args).value
         IN IsGiven(inline) => inline = <<inline[1]>> /\ IsListener(inline[1])
<1> DEFINE r == InlineListener(args)
           read == AppendIdentifiers(NoFilter, args.entries, FALSE)
<1>1. \/ r = Ok(Unset) \/ ~r.ok
      \/ r = Ok(Given(InlineSpec(args.event[1], args.json[1].object)))
      \/ r = Ok(Given(InlineSpec(args.event[1], read.value)))
  <2>1. ~Err("usage").ok
    BY CliOkIs
  <2> HIDE DEF read
  <2> QED
    BY <2>1 DEF InlineListener, Then, read
<1>2. \A event, identifiers : IsListener(InlineSpec(event, identifiers))
  BY DEF IsListener, InlineSpec
<1> HIDE DEF r, read
<1>3. \/ r.value = Unset
      \/ \E spec : r.value = Given(spec) /\ IsListener(spec)
  BY <1>1, <1>2, CliOkIs DEF r
<1> QED
  BY <1>3 DEF r, IsGiven, Given

(* listen and replay ask for the same events of a listener from the same   *)
(* position, or refuse it, for any listeners in any number of files, any   *)
(* listener on the command line and any position (aviso-cli listen.rs      *)
(* apply_cursor_override, replay.rs resolve_listener, listener.rs).        *)
THEOREM ReplayIsAListen ==
  \A configured, lists, args, name, from :
    (ResolveListeners(configured, lists).ok => AreListeners(ResolveListeners(configured, lists).value))
      => ReplayIsListen(configured, lists, args, name, from)
<1> SUFFICES ASSUME NEW configured, NEW lists, NEW args, NEW name, NEW from,
                    ResolveListeners(configured, lists).ok
                      => AreListeners(ResolveListeners(configured, lists).value),
                    InlineListener(args).ok,
                    ReplayListener(configured, lists, InlineListener(args).value, name).ok
             PROVE  LET inline == InlineListener(args)
                        chosen == ReplayListener(configured, lists, inline.value, name)
                        replay == Then(CliReplay(chosen, from, Unset), FromPublic)
                        listen == CliListeners(configured, lists, inline.value, Given(from))
                    IN IF listen.ok
                       THEN \E i \in DOMAIN listen.value :
                              /\ listen.value[i].name = chosen.value.name
                              /\ Then(CliWatch(listen.value[i]), FromPublic) = replay
                       ELSE ~replay.ok
  BY DEF ReplayIsListen
<1> DEFINE inline == InlineListener(args).value
           found  == ResolveListeners(configured, lists)
           specs  == IF IsGiven(inline) THEN Ok(inline) ELSE found
           list   == specs.value
           chosen == ReplayListener(configured, lists, inline, name)
           named  == FirstNamed(found.value, name)
           read   == ParsePosition(from)
           listen == CliListeners(configured, lists, inline, Given(from))
           replay == Then(CliReplay(chosen, from, Unset), FromPublic)
           set    == [i \in DOMAIN list |-> WithCursor(list[i], read.value)]
<1>1. /\ ~IsGiven(Unset)
      /\ \A x : IsGiven(Given(x)) /\ Given(x)[1] = x
  BY DEF IsGiven, Unset, Given
<1>2. /\ specs.ok /\ list # <<>>
      /\ \E i \in DOMAIN list : chosen.value = list[i] /\ IsListener(list[i])
  <2>1. CASE IsGiven(inline)
    <3>1. inline = <<inline[1]>> /\ IsListener(inline[1])
      BY <2>1, InlineIs
    <3>2. chosen = Ok(inline[1])
      BY <2>1 DEF ReplayListener
    <3> HIDE DEF inline, chosen
    <3>3. specs = Ok(inline)
      BY <2>1
    <3>4. specs.ok /\ list = inline /\ chosen.value = inline[1]
      BY <3>2, <3>3, CliOkIs
    <3> HIDE DEF list, specs
    <3> QED
      BY <3>1, <3>4
  <2>2. CASE ~IsGiven(inline)
    <3>1. chosen = IF ~found.ok THEN found
                   ELSE IF IsGiven(name)
                        THEN IF named = 0 THEN Err("usage") ELSE Ok(found.value[named])
                        ELSE IF Len(found.value) = 1 THEN Ok(found.value[1]) ELSE Err("usage")
      <4> HIDE DEF found, inline
      <4>1. chosen = Then(found, LAMBDA all :
                       CASE IsGiven(name) ->
                              IF FirstNamed(all, name) = 0 THEN Err("usage") ELSE Ok(all[FirstNamed(all, name)])
                         [] ~IsGiven(name) -> IF Len(all) = 1 THEN Ok(all[1]) ELSE Err("usage"))
        BY <2>2 DEF ReplayListener, FirstNamed, found
      <4> HIDE DEF chosen
      <4> QED
        BY <4>1 DEF Then
    <3>2. chosen.ok
      OBVIOUS
    <3>3. found.ok
      <4> HIDE DEF chosen, found, named
      <4> QED
        BY <3>1, <3>2
    <3>4. AreListeners(found.value)
      BY <3>3
    <3>5. found.value \in Seq(Range(found.value)) /\ \A i \in DOMAIN found.value : IsListener(found.value[i])
      BY <3>4 DEF AreListeners
    <3>6. DOMAIN found.value = 1 .. Len(found.value) /\ Len(found.value) \in Nat
      BY <3>5, LenProperties
    <3>7. named # 0 => named \in 1 .. Len(found.value)
      BY <3>5, NamedIs
    <3> HIDE DEF chosen, found, named
    <3>8. \E i \in DOMAIN found.value : chosen.value = found.value[i]
      <4>1. \/ named # 0 /\ chosen.value = found.value[named]
            \/ Len(found.value) = 1 /\ chosen.value = found.value[1]
        BY <3>1, <3>2, <3>3, CliOkIs
      <4> QED
        BY <4>1, <3>6, <3>7
    <3>9. specs = found
      BY <2>2
    <3>10. found.value # <<>>
      BY <3>6, <3>8
    <3> QED
      BY <3>3, <3>5, <3>8, <3>9, <3>10
  <2> QED
    BY <2>1, <2>2
<1> PICK i \in DOMAIN list : chosen.value = list[i] /\ IsListener(list[i])
  BY <1>2
<1>3. listen = IF read.ok THEN Ok(set) ELSE read
  <2> HIDE DEF inline, found, read
  <2>1. listen = Then(specs, LAMBDA all :
          IF all = <<>> THEN Err("usage")
          ELSE IF ~IsGiven(Given(from)) THEN Ok(all)
          ELSE Then(ParsePosition(Given(from)[1]), LAMBDA cursor :
                 Ok([j \in DOMAIN all |-> WithCursor(all[j], cursor)])))
    BY DEF CliListeners, found
  <2> HIDE DEF specs, listen
  <2> QED
    BY <1>1, <1>2, <2>1 DEF Then, read
<1>4. ~read.ok => ~replay.ok
  <2> HIDE DEF chosen
  <2>1. ~read.ok => CliReplay(chosen, from, Unset) = read
    BY DEF CliReplay, Then
  <2> HIDE DEF read
  <2> QED
    BY <2>1 DEF Then
<1>5. ASSUME read.ok
      PROVE  replay = FromPublic(CliReplayRequest(list[i], read.value, Unset))
  <2>1. chosen.ok
    OBVIOUS
  <2> HIDE DEF chosen, read, list
  <2>2. ~EndsBeforeStart(Given(read.value), Unset)
    BY <1>1 DEF EndsBeforeStart, IsSequence
  <2>3. CliReplay(chosen, from, Unset) =
          Ok(CliReplayRequest(list[i], read.value, Unset))
    <3>1. Ok(Unset).ok /\ Ok(Unset).value = Unset
      BY CliOkIs
    <3> QED
      BY <1>1, <1>5, <2>1, <2>2, <3>1 DEF CliReplay, Then, read
  <2>4. Ok(CliReplayRequest(list[i], read.value, Unset)).ok
        /\ Ok(CliReplayRequest(list[i], read.value, Unset)).value
             = CliReplayRequest(list[i], read.value, Unset)
    BY CliOkIs
  <2> QED
    BY <2>3, <2>4 DEF Then
<1>6. ASSUME read.ok
      PROVE  LET w == CliWatch(WithCursor(list[i], read.value))
             IN /\ WithCursor(list[i], read.value).name = list[i].name /\ w.ok
                /\ FromPublic(w.value) = FromPublic(CliReplayRequest(list[i], read.value, Unset))
  <2> DEFINE spec == list[i]
             cursor == read.value
  <2>1. (\E n : cursor = AfterSequence(n)) \/ (\E at : cursor = Date(at))
    BY <1>6, PositionsAre
  <2>2. IsListener(spec)
    OBVIOUS
  <2> HIDE DEF spec, cursor
  <2>3. LET w == CliWatch(WithCursor(spec, cursor))
        IN /\ WithCursor(spec, cursor).name = spec.name /\ w.ok
           /\ WireFields(w.value) = WireFields(CliReplayRequest(spec, cursor, Unset))
    BY <2>1, <2>2, CursorIsStart
  <2>4. LET w == CliWatch(WithCursor(spec, cursor))
        IN FromPublic(w.value) = FromPublic(CliReplayRequest(spec, cursor, Unset))
    BY <2>3, SameWire
  <2> QED
    BY <2>3, <2>4 DEF spec, cursor
<1> HIDE DEF listen, replay, read, list, chosen, inline
<1>7. CASE ~read.ok
  <2>1. ~listen.ok /\ ~replay.ok
    BY <1>3, <1>4, <1>7
  <2> QED
    BY <2>1 DEF listen, replay, chosen, inline
<1>8. CASE read.ok
  <2>1. listen.ok /\ listen.value = set
    BY <1>3, <1>8, CliOkIs
  <2>2. i \in DOMAIN listen.value /\ listen.value[i] = WithCursor(list[i], read.value)
    BY <2>1
  <2> HIDE DEF set
  <2>3. listen.value[i].name = chosen.value.name
    BY <1>6, <1>8, <2>2
  <2>4. Then(CliWatch(listen.value[i]), FromPublic) = replay
    BY <1>5, <1>6, <1>8, <2>2 DEF Then
  <2>5. \E j \in DOMAIN listen.value :
          /\ listen.value[j].name = chosen.value.name
          /\ Then(CliWatch(listen.value[j]), FromPublic) = replay
    BY <2>2, <2>3, <2>4
  <2> QED
    BY <2>1, <2>5 DEF listen, replay, chosen, inline
<1> QED
  BY <1>7, <1>8

(* Positions as they are asked for: sequences the server may have, and     *)
(* dates whose text is good.                                               *)
IsPosition(p) == \/ \E n \in 0 .. MaxSequence : p = AfterSequence(n)
                 \/ \E at : p = Date(at) /\ ~BadText(at)
IsPlace(option) == option = Unset \/ \E p : IsPosition(p) /\ option = Given(p)

(* The request that is meant, whether there is one, and that a result says *)
(* so: an end needs a replay, and a replay a start.                        *)
Asked(event, start, end) == [event |-> event, filter |-> NoFilter, from |-> start, until |-> end]
Possible(start, end, replay) == IF replay THEN IsGiven(start) ELSE ~IsGiven(end)
Says(result, event, start, end, replay) ==
  LET public == FromPublic(Asked(event, start, end))
  IN IF Possible(start, end, replay) THEN result.ok = public.ok /\ (result.ok => result = public)
     ELSE result.ok = FALSE

LEMMA RequestSays ==
  ASSUME NEW event, NEW start, NEW end, NEW replay, Possible(start, end, replay),
         NEW request, WireFields(request) = <<event, NoFilter, start, end>>
  PROVE  Says(FromPublic(request), event, start, end, replay)
<1>1. WireFields(Asked(event, start, end)) = <<event, NoFilter, start, end>>
  BY DEF WireFields, Asked
<1>2. FromPublic(request) = FromPublic(Asked(event, start, end))
  BY <1>1, SameWire
<1> QED
  BY <1>2 DEF Says

-----------------------------------------------------------------------------
(* Over the C interface.                                                   *)

LEMMA MakingSteps ==
  ASSUME NEW base, NEW made, NEW n \in Nat
  PROVE  \E at : Making!Trace(at, base, made, n) /\ Making!Fold(base, made, n) = at[n]
  BY Making!FoldTrace

AllMade(base, made) == FoldLeft(CallMade, base, made)

LEMMA MakingTrace ==
  ASSUME NEW base, NEW n \in Nat, NEW made, DOMAIN made = 1 .. n
  PROVE  \E at : Making!Trace(at, base, made, n) /\ AllMade(base, made) = at[n]
<1> DEFINE all == AllMade(base, made)
<1>1. all = Making!Fold(base, made, n)
  BY DEF AllMade, Making!Fold, Making!Solution, Making!Solves, Making!Folded, Making!Max,
     FoldLeft, MapThenFoldSet, Max
<1> HIDE DEF all
<1>2. \E at : Making!Trace(at, base, made, n) /\ all = at[n]
  BY <1>1, MakingSteps, Zenon
<1> QED
  BY <1>2 DEF all

(* At most two calls, one after the other.                                 *)
LEMMA NoneMade ==
  ASSUME NEW base
  PROVE  AllMade(base, <<>>) = base
<1>1. \E at : Making!Trace(at, base, <<>>, 0) /\ AllMade(base, <<>>) = at[0]
  <2> DEFINE none == <<>>
  <2>1. DOMAIN none = 1 .. 0 /\ 0 \in Nat
    OBVIOUS
  <2> HIDE DEF none
  <2>2. \E at : Making!Trace(at, base, none, 0) /\ AllMade(base, none) = at[0]
    BY <2>1, MakingTrace
  <2> QED
    BY <2>2 DEF none
<1> QED
  BY <1>1 DEF Making!Trace

LEMMA OneMade ==
  ASSUME NEW base, NEW a
  PROVE  AllMade(base, <<a>>) = CallMade(base, a)
<1> DEFINE one == <<a>>
<1>1. DOMAIN one = 1 .. 1 /\ one[1] = a
  OBVIOUS
<1> HIDE DEF one
<1>2. \E at : Making!Trace(at, base, one, 1) /\ AllMade(base, one) = at[1]
  BY <1>1, MakingTrace
<1>3. PICK at : at[0] = base /\ (\A k \in 1 .. 1 : at[k] = CallMade(at[k - 1], one[k])) /\ AllMade(base, one) = at[1]
  BY <1>2 DEF Making!Trace
<1>4. at[1] = CallMade(at[0], one[1])
  BY <1>3
<1> QED
  BY <1>1, <1>3, <1>4 DEF one

LEMMA TwoMade ==
  ASSUME NEW base, NEW a, NEW b
  PROVE  AllMade(base, <<a, b>>) = CallMade(CallMade(base, a), b)
<1> DEFINE two == <<a, b>>
<1>1. DOMAIN two = 1 .. 2 /\ two[1] = a /\ two[2] = b
  OBVIOUS
<1> HIDE DEF two
<1>0. \A n \in Nat : DOMAIN two = 1 .. n => \E at : Making!Trace(at, base, two, n) /\ AllMade(base, two) = at[n]
  BY MakingTrace
<1>2. \E at : Making!Trace(at, base, two, 2) /\ AllMade(base, two) = at[2]
  BY <1>0, <1>1
<1>3. PICK at : at[0] = base /\ (\A k \in 1 .. 2 : at[k] = CallMade(at[k - 1], two[k])) /\ AllMade(base, two) = at[2]
  BY <1>2 DEF Making!Trace
<1>4. at[1] = CallMade(at[0], two[1]) /\ at[2] = CallMade(at[1], two[2])
  BY <1>3
<1> QED
  BY <1>1, <1>3, <1>4 DEF two

(* A handle that has no error and says this much.                          *)
Filled(event, start, replay, end) ==
  [spec |-> Given([event |-> event, filter |-> Unset, start |-> start, replay |-> replay,
                       until |-> end, triggers |-> <<>>]),
   error |-> Unset]

StartCall(replay, p) == [name |-> IF replay THEN "replay" ELSE "watch", value |-> p]
UntilCall(p) == [name |-> "until", value |-> p]

LEMMA StartFills ==
  ASSUME NEW event, NEW s, NEW u, NEW before, NEW replay \in BOOLEAN, NEW p, IsPosition(p)
  PROVE  CallMade(Filled(event, s, before, u), StartCall(replay, p)) = Filled(event, Given(p), replay, u)
<1> DEFINE made == Filled(event, s, before, u)
<1>1. ~(p.kind = "date" /\ BadText(p.at))
  BY DEF IsPosition, AfterSequence, Date
<1>2. ~IsGiven(made.error)
  BY OptionsAre DEF Filled
<1>3. WithSpec(WithSpec(made, "start", Given(p)), "replay", replay) = Filled(event, Given(p), replay, u)
  <2>1. WithSpec(made, "start", Given(p)) = Filled(event, Given(p), before, u)
    BY <1>2 DEF WithSpec, Filled, Given
  <2>2. WithSpec(Filled(event, Given(p), before, u), "replay", replay) = Filled(event, Given(p), replay, u)
    BY OptionsAre DEF WithSpec, Filled, Given
  <2> QED
    BY <2>1, <2>2
<1> HIDE DEF made
<1>4. CASE replay = TRUE
  <2>1. CallMade(made, [name |-> "replay", value |-> p]) = SetStart(made, p, TRUE)
    BY DEF CallMade
  <2> QED
    BY <1>1, <1>3, <1>4, <2>1 DEF SetStart, StartCall, made
<1>5. CASE replay = FALSE
  <2>1. CallMade(made, [name |-> "watch", value |-> p]) = SetStart(made, p, FALSE)
    BY DEF CallMade
  <2> QED
    BY <1>1, <1>3, <1>5, <2>1 DEF SetStart, StartCall, made
<1> QED
  BY <1>4, <1>5

LEMMA UntilFills ==
  ASSUME NEW event, NEW s, NEW u, NEW before, NEW p, IsPosition(p)
  PROVE  CallMade(Filled(event, s, before, u), UntilCall(p)) = Filled(event, s, before, Given(p))
<1> DEFINE made == Filled(event, s, before, u)
<1>1. ~(p.kind = "date" /\ BadText(p.at))
  BY DEF IsPosition, AfterSequence, Date
<1>2. ~IsGiven(made.error)
  BY OptionsAre DEF Filled
<1>3. WithSpec(made, "until", Given(p)) = Filled(event, s, before, Given(p))
  BY <1>2 DEF WithSpec, Filled, Given
<1> HIDE DEF made
<1>4. CallMade(made, UntilCall(p)) = SetUntil(made, p)
  BY DEF CallMade, UntilCall
<1> QED
  BY <1>1, <1>3, <1>4 DEF SetUntil, made

LEMMA TwoPieces ==
  ASSUME NEW a, NEW b
  PROVE  /\ <<a>> \o <<b>> = <<a, b>>
         /\ <<a>> \o <<>> = <<a>> /\ <<>> \o <<a>> = <<a>> /\ <<>> \o <<>> = <<>>
<1>1. <<a>> \o <<b>> = <<a, b>>
  <2> DEFINE S == {a, b}
             p == <<a>>
             q == <<b>>
             s == p \o q
             t == <<a, b>>
  <2>1. /\ p \in Seq(S) /\ Len(p) = 1 /\ p[1] = a
        /\ q \in Seq(S) /\ Len(q) = 1 /\ q[1] = b
    OBVIOUS
  <2>2. t \in Seq(S) /\ Len(t) = 2 /\ t[1] = a /\ t[2] = b
    OBVIOUS
  <2> HIDE DEF S, p, q, t
  <2>3. s \in Seq(S) /\ Glued(s, p, q)
    BY <2>1, GluedIs
  <2> HIDE DEF s
  <2>4. Len(s) = 2 /\ s[1] = a /\ s[2] = b
    BY <2>1, <2>3 DEF Glued
  <2>5. \A i \in 1 .. 2 : s[i] = t[i]
    BY <2>2, <2>4
  <2>6. s = t
    BY <2>2, <2>3, <2>4, <2>5, SeqEqual
  <2> QED
    BY <2>6 DEF s, p, q, t
<1>2. <<a>> \o <<>> = <<a>> /\ <<>> \o <<a>> = <<a>>
  OBVIOUS
<1> QED
  BY <1>1, <1>2

LEMMA CallsMake ==
  ASSUME NEW event, ~BadText(event), NEW start, IsPlace(start), NEW end, IsPlace(end),
         NEW replay \in BOOLEAN, replay => IsGiven(start)
  PROVE  LET starts == IF IsGiven(start) THEN <<StartCall(replay, start[1])>> ELSE <<>>
             ends   == IF IsGiven(end) THEN <<UntilCall(end[1])>> ELSE <<>>
         IN /\ AllMade(NewRequest(event), starts \o ends) = Filled(event, start, replay, end)
            /\ AllMade(NewRequest(event), ends \o starts) = Filled(event, start, replay, end)
<1> DEFINE new == NewRequest(event)
           none == Unset
           starts == IF IsGiven(start) THEN <<StartCall(replay, start[1])>> ELSE <<>>
           ends   == IF IsGiven(end) THEN <<UntilCall(end[1])>> ELSE <<>>
<1>1. new = Filled(event, none, FALSE, none)
  BY DEF NewRequest, Filled
<1> PICK p : start = none \/ (IsPosition(p) /\ start = Given(p))
  BY DEF IsPlace
<1> PICK q : end = none \/ (IsPosition(q) /\ end = Given(q))
  BY DEF IsPlace
<1>2. /\ start = none \/ (IsPosition(p) /\ start = Given(p))
      /\ end = none \/ (IsPosition(q) /\ end = Given(q))
  OBVIOUS
<1> DEFINE a == StartCall(replay, p)
           b == UntilCall(q)
<1>3. /\ start = none => starts = <<>> /\ replay = FALSE
      /\ start # none => starts = <<a>>
      /\ end = none => ends = <<>>
      /\ end # none => ends = <<b>>
  BY <1>2, OptionsAre
<1>4. ASSUME NEW s, NEW u, NEW before, IsPosition(p)
      PROVE  CallMade(Filled(event, s, before, u), a) = Filled(event, Given(p), replay, u)
  BY <1>4, StartFills
<1>5. ASSUME NEW s, NEW u, NEW before, IsPosition(q)
      PROVE  CallMade(Filled(event, s, before, u), b) = Filled(event, s, before, Given(q))
  BY <1>5, UntilFills
<1> HIDE DEF a, b, starts, ends, new, none
<1>6. CASE start = none /\ end = none
  <2>1. starts \o ends = <<>> /\ ends \o starts = <<>>
    BY <1>3, <1>6
  <2>2. AllMade(new, <<>>) = new
    BY NoneMade
  <2> QED
    BY <1>1, <1>3, <1>6, <2>1, <2>2 DEF starts, ends, new, none
<1>7. CASE start # none /\ end = none
  <2>1. starts \o ends = <<a>> /\ ends \o starts = <<a>>
    BY <1>3, <1>7, TwoPieces
  <2>2. AllMade(new, <<a>>) = CallMade(new, a)
    BY OneMade
  <2>3. CallMade(new, a) = Filled(event, start, replay, end)
    BY <1>1, <1>2, <1>4, <1>7
  <2> QED
    BY <2>1, <2>2, <2>3 DEF starts, ends, new, none
<1>8. CASE start = none /\ end # none
  <2>1. starts \o ends = <<b>> /\ ends \o starts = <<b>>
    BY <1>3, <1>8, TwoPieces
  <2>2. AllMade(new, <<b>>) = CallMade(new, b)
    BY OneMade
  <2>3. CallMade(new, b) = Filled(event, start, replay, end)
    BY <1>1, <1>2, <1>3, <1>5, <1>8
  <2> QED
    BY <2>1, <2>2, <2>3 DEF starts, ends, new, none
<1>9. CASE start # none /\ end # none
  <2>1. starts \o ends = <<a, b>> /\ ends \o starts = <<b, a>>
    <3>1. starts = <<a>> /\ ends = <<b>>
      BY <1>3, <1>9
    <3>2. <<a>> \o <<b>> = <<a, b>>
      BY TwoPieces
    <3>3. <<b>> \o <<a>> = <<b, a>>
      BY TwoPieces
    <3> QED
      BY <3>1, <3>2, <3>3
  <2>2. AllMade(new, <<a, b>>) = CallMade(CallMade(new, a), b)
    BY TwoMade
  <2>3. AllMade(new, <<b, a>>) = CallMade(CallMade(new, b), a)
    BY TwoMade
  <2>4. /\ CallMade(new, a) = Filled(event, start, replay, none)
        /\ CallMade(new, b) = Filled(event, none, FALSE, end)
    BY <1>1, <1>2, <1>4, <1>5, <1>9
  <2>5. /\ CallMade(Filled(event, start, replay, none), b) = Filled(event, start, replay, end)
        /\ CallMade(Filled(event, none, FALSE, end), a) = Filled(event, start, replay, end)
    BY <1>2, <1>4, <1>5, <1>9
  <2> QED
    BY <2>1, <2>2, <2>3, <2>4, <2>5 DEF starts, ends, new, none
<1> QED
  BY <1>6, <1>7, <1>8, <1>9

LEMMA CSays ==
  ASSUME NEW event, ~BadText(event), NEW start, IsPlace(start), NEW end, IsPlace(end),
         NEW replay \in BOOLEAN, replay => IsGiven(start),
         NEW made, AllMade(NewRequest(event), made) = Filled(event, start, replay, end)
  PROVE  Says(Then(CRequest(event, made), FromPublic), event, start, end, replay)
<1> DEFINE spec == [event |-> event, filter |-> Unset, start |-> start, replay |-> replay,
                    until |-> end, triggers |-> <<>>]
           into == IntoRequest(spec)
           c    == CRequest(event, made)
<1>1. c = into
  <2>1. Filled(event, start, replay, end).error = Unset /\ Filled(event, start, replay, end).spec[1] = spec
    BY DEF Filled, Given
  <2> HIDE DEF spec
  <2> QED
    BY <2>1, OptionsAre DEF CRequest, AllMade
<1>2. Possible(start, end, replay) <=> ~(IsGiven(end) /\ ~replay)
  BY DEF Possible
<1>3. CASE IsGiven(end) /\ ~replay
  <2>1. spec.until = end /\ (spec.replay <=> replay)
    OBVIOUS
  <2> HIDE DEF spec
  <2>2. into.ok = FALSE
    <3>1. into = Err("invalid input")
      BY <1>3, <2>1 DEF IntoRequest
    <3> HIDE DEF into
    <3> QED
      BY <3>1 DEF Err
  <2>3. Then(c, FromPublic).ok = FALSE
    BY <1>1, <2>2 DEF Then
  <2> QED
    BY <1>2, <1>3, <2>3 DEF Says
<1>4. CASE ~(IsGiven(end) /\ ~replay)
  <2> PICK p, q : /\ start = Unset \/ start = Given(p)
                  /\ end = Unset \/ end = Given(q)
    BY DEF IsPlace
  <2> DEFINE request ==
               CASE replay /\ IsGiven(end)  -> ReplayRange(event, start[1], end[1])
                 [] replay /\ ~IsGiven(end) -> ReplayOnly(event, start[1])
                 [] ~replay /\ IsGiven(start) -> WatchFrom(event, start[1])
                 [] OTHER -> Watch(event)
             whole == WithTriggers(request, <<>>)
  <2>1. into = Ok(whole)
    <3>1. /\ spec.event = event /\ spec.filter = Unset /\ spec.start = start /\ (spec.replay <=> replay)
          /\ spec.until = end /\ spec.triggers = <<>>
      OBVIOUS
    <3> HIDE DEF spec
    <3> QED
      BY <1>4, <3>1, OptionsAre DEF IntoRequest
  <2>2. WireFields(whole) = <<event, NoFilter, start, end>>
    <3> HIDE DEF spec, into, c
    <3>1. CASE replay /\ IsGiven(end)
      <4>1. start = Given(p) /\ end = Given(q) /\ request = ReplayRange(event, p, q)
        BY <3>1, OptionsAre
      <4> HIDE DEF request
      <4> QED
        BY <4>1, FieldsAre
    <3>2. CASE replay /\ ~IsGiven(end)
      <4>1. start = Given(p) /\ end = Unset /\ request = ReplayOnly(event, p)
        BY <3>2, OptionsAre
      <4> HIDE DEF request
      <4> QED
        BY <4>1, FieldsAre
    <3>3. CASE ~replay /\ IsGiven(start)
      <4>1. start = Given(p) /\ end = Unset /\ request = WatchFrom(event, p)
        BY <1>4, <3>3, OptionsAre
      <4> HIDE DEF request
      <4> QED
        BY <4>1, FieldsAre
    <3>4. CASE ~replay /\ ~IsGiven(start)
      <4>1. start = Unset /\ end = Unset /\ request = Watch(event)
        BY <1>4, <3>4, OptionsAre
      <4> HIDE DEF request
      <4> QED
        BY <4>1, FieldsAre
    <3> QED
      BY <3>1, <3>2, <3>3, <3>4
  <2> HIDE DEF spec, into, c, whole
  <2>3. Then(c, FromPublic) = FromPublic(whole)
    BY <1>1, <2>1, CliOkIs DEF Then
  <2>4. Possible(start, end, replay)
    BY <1>2, <1>4
  <2>5. Says(FromPublic(whole), event, start, end, replay)
    BY <2>2, <2>4, RequestSays
  <2> QED
    BY <2>3, <2>5 DEF c
<1> QED
  BY <1>3, <1>4

-----------------------------------------------------------------------------
(* In Python.                                                              *)

Said(option) ==
  CASE ~IsGiven(option) -> Unset
    [] IsSequence(option) -> Given([type |-> "int", int |-> option[1].at])
    [] OTHER -> Given([type |-> "str", str |-> option[1].at])

LEMMA SaidIs ==
  ASSUME MaxSequence \in Nat, NEW p, IsPosition(p)
  PROVE  IsGiven(Said(Given(p))) /\ PyPosition(Said(Given(p))[1]) = Ok(p)
<1>1. IsGiven(Given(p)) /\ Given(p)[1] = p
  BY OptionsAre
<1>2. CASE \E n \in 0 .. MaxSequence : p = AfterSequence(n)
  <2> PICK n \in 0 .. MaxSequence : p = AfterSequence(n)
    BY <1>2
  <2> DEFINE value == [type |-> "int", int |-> n]
  <2>1. IsSequence(Given(p)) /\ p.at = n
    BY <1>1 DEF IsSequence, AfterSequence
  <2>2. Said(Given(p)) = Given(value)
    BY <1>1, <2>1 DEF Said
  <2>3. PyPosition(value) = Ok(AfterSequence(n))
    BY DEF PyPosition
  <2> HIDE DEF value
  <2> QED
    BY <2>2, <2>3, OptionsAre
<1>3. CASE \E at : p = Date(at) /\ ~BadText(at)
  <2> PICK at : p = Date(at)
    BY <1>3
  <2> DEFINE value == [type |-> "str", str |-> at]
  <2>1. ~IsSequence(Given(p)) /\ p.at = at
    BY <1>1 DEF IsSequence, Date
  <2>2. Said(Given(p)) = Given(value)
    BY <1>1, <2>1 DEF Said
  <2>3. PyPosition(value) = Ok(Date(at))
    BY DEF PyPosition
  <2> HIDE DEF value
  <2> QED
    BY <2>2, <2>3, OptionsAre
<1> QED
  BY <1>2, <1>3 DEF IsPosition

(* The mode that is given, or follows from the end.                        *)
ModeFits(mode, end, replay) ==
  \/ mode = Given("replay_only") /\ replay
  \/ mode = Given("watch") /\ ~replay
  \/ mode = Unset /\ (IsGiven(end) <=> replay)

Arguments(event, start, end, mode) ==
  [PyNone EXCEPT !.event = Given(event), !.start = Said(start), !.until = Said(end), !.mode = mode]

Meant(value, event, start, end) ==
  \/ value = Watch(event) /\ start = Unset /\ end = Unset
  \/ \E p : value = WatchFrom(event, p) /\ start = Given(p) /\ end = Unset
  \/ \E p : value = ReplayOnly(event, p) /\ start = Given(p) /\ end = Unset
  \/ \E p, q : value = ReplayRange(event, p, q) /\ start = Given(p) /\ end = Given(q)

LEMMA PyBaseIs ==
  ASSUME MaxSequence \in Nat, NEW event, NEW start, IsPlace(start), NEW end, IsPlace(end), NEW replay \in BOOLEAN,
         NEW mode, ModeFits(mode, end, replay)
  PROVE  LET base == PyBase(Arguments(event, start, end, mode))
         IN /\ base.ok = (IF Possible(start, end, replay) THEN TRUE ELSE FALSE)
            /\ base.ok => Meant(base.value, event, start, end)
<1> DEFINE args == Arguments(event, start, end, mode)
           base == PyBase(args)
           live == "watch"
           past == "replay_only"
           first == PyPosition(args.start[1])
           last  == PyPosition(args.until[1])
<1> PICK p : start = Unset \/ (IsPosition(p) /\ start = Given(p))
  BY DEF IsPlace
<1> PICK q : end = Unset \/ (IsPosition(q) /\ end = Given(q))
  BY DEF IsPlace
<1>1. args.event = Given(event) /\ args.start = Said(start) /\ args.until = Said(end) /\ args.mode = mode
  BY DEF Arguments, PyNone
<1>2. /\ start # Unset => IsGiven(args.start) /\ first = Ok(p)
      /\ end # Unset => IsGiven(args.until) /\ last = Ok(q)
  <2>1. ASSUME start # Unset
        PROVE  IsGiven(args.start) /\ first = Ok(p)
    <3>1. IsPosition(p) /\ start = Given(p)
      BY <2>1
    <3> HIDE DEF args
    <3> QED
      BY <1>1, <3>1, SaidIs
  <2>2. ASSUME end # Unset
        PROVE  IsGiven(args.until) /\ last = Ok(q)
    <3>1. IsPosition(q) /\ end = Given(q)
      BY <2>2
    <3> HIDE DEF args
    <3> QED
      BY <1>1, <3>1, SaidIs
  <2> QED
    BY <2>1, <2>2
<1>3. /\ start = Unset => ~IsGiven(args.start)
      /\ end = Unset => ~IsGiven(args.until)
  <2> HIDE DEF args
  <2> QED
    BY <1>1, OptionsAre DEF Said, IsSequence
<1>4. args.event[1] = event
  BY <1>1, OptionsAre
<1>5. EffectiveMode(args) = IF replay THEN past ELSE live
  <2>1. IsGiven(args.until) <=> IsGiven(end)
    BY <1>2, <1>3 DEF IsGiven
  <2> HIDE DEF args
  <2> QED
    BY <1>1, <2>1, OptionsAre DEF EffectiveMode, ModeFits
<1> DEFINE chosen == EffectiveMode(args)
<1>6. base = CASE chosen = live /\ IsGiven(args.until) -> Err("aviso")
       [] chosen = live /\ ~IsGiven(args.until) ->
            IF IsGiven(args.start)
            THEN Then(first, LAMBDA s : Ok(WatchFrom(args.event[1], s)))
            ELSE Ok(Watch(args.event[1]))
       [] chosen = past /\ IsGiven(args.start) ->
            Then(first, LAMBDA s :
              IF ~IsGiven(args.until) THEN Ok(ReplayOnly(args.event[1], s))
              ELSE Then(last, LAMBDA u : Ok(ReplayRange(args.event[1], s, u))))
       [] chosen = past /\ ~IsGiven(args.start) -> Err("aviso")
       [] chosen \notin {live, past} -> Err("aviso")
  <2> HIDE DEF args
  <2> QED
    BY DEF PyBase
<1>7. live # past
  OBVIOUS
<1> HIDE DEF args, base, live, past, first, last, chosen
<1>8. CASE ~replay /\ end # Unset
  <2>1. base = Err("aviso")
    BY <1>2, <1>5, <1>6, <1>7, <1>8 DEF chosen
  <2>2. base.ok = FALSE
    BY <2>1 DEF Err
  <2>3. ~Possible(start, end, replay)
    BY <1>8 DEF Possible, IsGiven, Unset
  <2> QED
    BY <2>2, <2>3 DEF base, args
<1>9. CASE ~replay /\ end = Unset /\ start = Unset
  <2>1. base = Ok(Watch(event))
    BY <1>3, <1>4, <1>5, <1>6, <1>7, <1>9 DEF chosen
  <2>2. base.ok = TRUE /\ base.value = Watch(event) /\ Possible(start, end, replay)
    BY <1>9, <2>1, CliOkIs, OptionsAre DEF Possible
  <2> QED
    BY <1>9, <2>2 DEF base, args, Meant
<1>10. CASE ~replay /\ end = Unset /\ start # Unset
  <2>1. base = Ok(WatchFrom(event, p))
    BY <1>2, <1>3, <1>4, <1>5, <1>6, <1>7, <1>10, CliOkIs DEF chosen, Then
  <2>2. base.ok = TRUE /\ base.value = WatchFrom(event, p) /\ Possible(start, end, replay) /\ start = Given(p)
    BY <1>10, <2>1, CliOkIs, OptionsAre DEF Possible
  <2> QED
    BY <1>10, <2>2 DEF base, args, Meant
<1>11. CASE replay /\ start = Unset
  <2>1. base = Err("aviso")
    BY <1>3, <1>5, <1>6, <1>7, <1>11 DEF chosen
  <2>2. base.ok = FALSE
    BY <2>1 DEF Err
  <2>3. ~Possible(start, end, replay)
    BY <1>11 DEF Possible, IsGiven, Unset
  <2> QED
    BY <2>2, <2>3 DEF base, args
<1>12. CASE replay /\ start # Unset /\ end = Unset
  <2>1. base = Ok(ReplayOnly(event, p))
    BY <1>2, <1>3, <1>4, <1>5, <1>6, <1>7, <1>12, CliOkIs DEF chosen, Then
  <2>2. base.ok = TRUE /\ base.value = ReplayOnly(event, p) /\ Possible(start, end, replay) /\ start = Given(p)
    BY <1>12, <2>1, CliOkIs, OptionsAre DEF Possible
  <2> QED
    BY <1>12, <2>2 DEF base, args, Meant
<1>13. CASE replay /\ start # Unset /\ end # Unset
  <2>1. base = Ok(ReplayRange(event, p, q))
    BY <1>2, <1>4, <1>5, <1>6, <1>7, <1>13, CliOkIs DEF chosen, Then
  <2>2. base.ok = TRUE /\ base.value = ReplayRange(event, p, q) /\ Possible(start, end, replay)
        /\ start = Given(p) /\ end = Given(q)
    BY <1>13, <2>1, CliOkIs, OptionsAre DEF Possible
  <2> QED
    BY <2>2 DEF base, args, Meant
<1> QED
  BY <1>8, <1>9, <1>10, <1>11, <1>12, <1>13

LEMMA PythonSays ==
  ASSUME MaxSequence \in Nat, NEW event, NEW start, IsPlace(start), NEW end, IsPlace(end), NEW replay \in BOOLEAN,
         NEW mode, ModeFits(mode, end, replay)
  PROVE  Says(Then(PyRequest(Arguments(event, start, end, mode)),
                       LAMBDA spec : FromPublic(spec.request)), event, start, end, replay)
<1> DEFINE args == Arguments(event, start, end, mode)
           base == PyBase(args)
           none == SplitTriggers(<<>>)
           whole == WithTriggers(WithFilter(base.value, NoFilter), none.native)
           result == Then(PyRequest(args), LAMBDA spec : FromPublic(spec.request))
<1>1. /\ IsGiven(args.event) /\ ~IsGiven(args.request) /\ ~IsGiven(args.filter)
      /\ ~IsGiven(args.triggers)
  BY OptionsAre DEF Arguments, PyNone
<1>2. /\ base.ok = (IF Possible(start, end, replay) THEN TRUE ELSE FALSE)
      /\ base.ok => Meant(base.value, event, start, end)
  BY PyBaseIs
<1> HIDE DEF args, base, none
<1>3. PyRequest(args) = IF ~base.ok THEN base
                            ELSE Ok([request |-> whole, functions |-> none.functions])
  BY <1>1, CliOkIs DEF PyRequest, Then, base, none
<1>4. [request |-> whole, functions |-> none.functions].request = whole
  OBVIOUS
<1>5. CASE ~base.ok
  <2>1. result = base
    BY <1>3, <1>5 DEF Then
  <2> HIDE DEF result
  <2> QED
    BY <1>2, <1>5, <2>1 DEF Says, result, args
<1>6. CASE base.ok
  <2>1. WireFields(whole) = <<event, NoFilter, start, end>>
    <3>1. ASSUME base.value = Watch(event), start = Unset, end = Unset
          PROVE  WireFields(whole) = <<event, NoFilter, start, end>>
      BY <3>1, FieldsAre
    <3>2. ASSUME NEW p, base.value = WatchFrom(event, p), start = Given(p), end = Unset
          PROVE  WireFields(whole) = <<event, NoFilter, start, end>>
      BY <3>2, FieldsAre
    <3>3. ASSUME NEW p, base.value = ReplayOnly(event, p), start = Given(p), end = Unset
          PROVE  WireFields(whole) = <<event, NoFilter, start, end>>
      BY <3>3, FieldsAre
    <3>4. ASSUME NEW p, NEW q, base.value = ReplayRange(event, p, q), start = Given(p), end = Given(q)
          PROVE  WireFields(whole) = <<event, NoFilter, start, end>>
      BY <3>4, FieldsAre
    <3> HIDE DEF whole
    <3> QED
      BY <1>2, <1>6, <3>1, <3>2, <3>3, <3>4 DEF Meant
  <2> HIDE DEF whole
  <2>2. result = FromPublic(whole)
    BY <1>3, <1>4, <1>6, CliOkIs DEF Then
  <2>3. Says(FromPublic(whole), event, start, end, replay)
    BY <1>2, <1>6, <2>1, RequestSays
  <2> QED
    BY <2>2, <2>3 DEF result, args
<1> QED
  BY <1>5, <1>6

-----------------------------------------------------------------------------
(* In the library, and on the command line.                                *)

BareListener(event) == [name |-> Unset, event |-> event, identifiers |-> NoFilter, triggers |-> <<>>,
                        fromId |-> Unset, fromDate |-> Unset]

(* A text that is a position, and the position.                            *)
IsReadable(option) == option = Unset \/ \E said : /\ option = Given(said)
                                                      /\ ParsePosition(said).ok
                                                      /\ IsPosition(ParsePosition(said).value)
Place(option) == IF IsGiven(option) THEN Given(ParsePosition(option[1]).value) ELSE Unset

LEMMA PlacesAre ==
  ASSUME NEW option, IsReadable(option)
  PROVE  /\ IsPlace(Place(option))
         /\ IsGiven(Place(option)) <=> IsGiven(option)
         /\ IsGiven(option) => ParsePosition(option[1]).ok
BY OptionsAre DEF IsReadable, Place, IsPlace

LEMMA LibrarySays ==
  ASSUME NEW event, NEW start, IsPlace(start), NEW end, IsPlace(end)
  PROVE  /\ IsGiven(start) =>
              Says(FromPublic(IF IsGiven(end) THEN ReplayRange(event, start[1], end[1])
                                  ELSE ReplayOnly(event, start[1])), event, start, end, TRUE)
         /\ ~IsGiven(end) =>
              Says(FromPublic(IF IsGiven(start) THEN WatchFrom(event, start[1]) ELSE Watch(event)),
                   event, start, end, FALSE)
<1> PICK p, q : /\ start = Unset \/ start = Given(p)
                /\ end = Unset \/ end = Given(q)
  BY DEF IsPlace
<1>1. CASE IsGiven(start)
  <2>1. start = Given(start[1]) /\ Possible(start, end, TRUE)
    BY <1>1, OptionsAre DEF Possible
  <2>2. CASE IsGiven(end)
    <3>1. start = Given(p) /\ start[1] = p /\ end = Given(q) /\ end[1] = q
      BY <1>1, <2>2, OptionsAre
    <3>2. WireFields(ReplayRange(event, p, q)) = <<event, NoFilter, start, end>>
      BY <3>1, FieldsAre
    <3>3. Says(FromPublic(ReplayRange(event, p, q)), event, start, end, TRUE)
      BY <2>1, <3>2, RequestSays
    <3> QED
      BY <2>2, <3>1, <3>3
  <2>3. CASE ~IsGiven(end)
    <3>1. end = Unset /\ Possible(start, end, FALSE)
      BY <2>3, OptionsAre DEF Possible
    <3>2. /\ WireFields(ReplayOnly(event, start[1])) = <<event, NoFilter, start, end>>
          /\ WireFields(WatchFrom(event, start[1])) = <<event, NoFilter, start, end>>
      BY <2>1, <3>1, FieldsAre
    <3> QED
      BY <1>1, <2>1, <2>3, <3>1, <3>2, RequestSays
  <2> QED
    BY <2>2, <2>3
<1>2. CASE ~IsGiven(start)
  <2>1. ASSUME ~IsGiven(end)
        PROVE  Says(FromPublic(Watch(event)), event, start, end, FALSE)
    <3>1. start = Unset /\ end = Unset /\ Possible(start, end, FALSE)
      BY <1>2, <2>1, OptionsAre DEF Possible
    <3>2. WireFields(Watch(event)) = <<event, NoFilter, start, end>>
      BY <3>1, FieldsAre
    <3> QED
      BY <3>1, <3>2, RequestSays
  <2> QED
    BY <1>2, <2>1
<1> QED
  BY <1>1, <1>2

LEMMA CliWatchSays ==
  ASSUME NEW event, NEW start, IsPlace(start), NEW end, ~IsGiven(end), IsPlace(end)
  PROVE  Says(Then(CliWatch(IF IsGiven(start) THEN WithCursor(BareListener(event), start[1])
                                    ELSE BareListener(event)), FromPublic), event, start, end, FALSE)
<1> PICK p : start = Unset \/ (IsPosition(p) /\ start = Given(p))
  BY DEF IsPlace
<1> DEFINE l == BareListener(event)
           listener == IF IsGiven(start) THEN WithCursor(l, start[1]) ELSE l
           watch == CliWatch(listener)
<1>1. end = Unset /\ Possible(start, end, FALSE)
  BY OptionsAre DEF Possible, IsPlace
<1>2. /\ IsListener(l) /\ l.event = event /\ l.identifiers = NoFilter
      /\ l.fromId = Unset /\ l.fromDate = Unset
  BY DEF IsListener, BareListener
<1>3. watch.ok /\ WireFields(watch.value) = <<event, NoFilter, start, end>>
  <2>1. CASE start = Unset
    <3>1. listener = l
      BY <2>1, OptionsAre
    <3> HIDE DEF l, listener
    <3>2. watch = Ok(WithTriggers(WithFilter(Watch(event), NoFilter), TriggersFor(l)))
      BY <1>2, <3>1, OptionsAre DEF CliWatch
    <3> HIDE DEF watch
    <3>3. watch.ok /\ watch.value = WithTriggers(WithFilter(Watch(event), NoFilter), TriggersFor(l))
      BY <3>2, CliOkIs
    <3> QED
      BY <1>1, <2>1, <3>3, FieldsAre
  <2>2. CASE start # Unset
    <3>1. start = Given(p) /\ listener = WithCursor(l, p)
      BY <2>2, OptionsAre
    <3>2. (\E n : p = AfterSequence(n)) \/ (\E at : p = Date(at))
      BY <2>2 DEF IsPosition
    <3> HIDE DEF l, listener
    <3>3. /\ watch.ok
          /\ WireFields(watch.value) = WireFields(CliReplayRequest(l, p, Unset))
      BY <1>2, <3>1, <3>2, CursorIsStart
    <3>4. CliReplayRequest(l, p, Unset) =
            WithTriggers(WithFilter(ReplayOnly(event, p), NoFilter), ReplayTriggers(l))
      BY <1>2, OptionsAre DEF CliReplayRequest
    <3>5. WireFields(CliReplayRequest(l, p, Unset)) = <<event, NoFilter, Given(p), Unset>>
      BY <3>4, FieldsAre
    <3> QED
      BY <1>1, <3>1, <3>3, <3>5
  <2> QED
    BY <2>1, <2>2
<1> HIDE DEF watch
<1>4. Then(watch, FromPublic) = FromPublic(watch.value)
  BY <1>3 DEF Then
<1>5. Says(FromPublic(watch.value), event, start, end, FALSE)
  BY <1>1, <1>3, RequestSays
<1> QED
  BY <1>4, <1>5 DEF watch

LEMMA CliReplaySays ==
  ASSUME NEW event, NEW from, IsReadable(from), IsGiven(from), NEW until, IsReadable(until)
  PROVE  Says(Then(CliReplay(Ok(BareListener(event)), from[1], until), FromPublic),
              event, Place(from), Place(until), TRUE)
<1> DEFINE l == BareListener(event)
           start == Place(from)
           end == Place(until)
           first == ParsePosition(from[1])
           last == ParsePosition(until[1])
           request == CliReplayRequest(l, first.value, end)
           replay == CliReplay(Ok(l), from[1], until)
<1>1. /\ first.ok /\ start = Given(first.value) /\ Possible(start, end, TRUE)
      /\ IsGiven(until) => last.ok /\ end = Given(last.value)
      /\ ~IsGiven(until) => end = Unset
      /\ IsGiven(end) <=> IsGiven(until)
  BY PlacesAre, OptionsAre DEF Place, Possible
<1>2. l.event = event /\ l.identifiers = NoFilter
  BY DEF BareListener
<1> HIDE DEF l, start, end
<1>3. replay = IF EndsBeforeStart(start, end) THEN Err("usage") ELSE Ok(request)
  <2>1. Ok(l).ok /\ Ok(l).value = l
    BY CliOkIs
  <2>2. /\ Ok(Given(last.value)).ok /\ Ok(Given(last.value)).value = Given(last.value)
        /\ Ok(Unset).ok /\ Ok(Unset).value = Unset
    BY CliOkIs
  <2> HIDE DEF first, last
  <2>3. CASE IsGiven(until)
    BY <1>1, <2>1, <2>2, <2>3 DEF CliReplay, Then, first, last
  <2>4. CASE ~IsGiven(until)
    BY <1>1, <2>1, <2>2, <2>4 DEF CliReplay, Then, first, last
  <2> QED
    BY <2>3, <2>4
<1> HIDE DEF first, last, replay
<1>4. CASE EndsBeforeStart(start, end)
  <2>1. replay.ok = FALSE
    BY <1>3, <1>4 DEF Err
  <2>2. Then(replay, FromPublic).ok = FALSE
    BY <2>1 DEF Then
  <2>3. FromPublic(Asked(event, start, end)).ok = FALSE
    BY <1>4 DEF FromPublic, Asked, Err
  <2> QED
    BY <2>2, <2>3 DEF Says, replay, l, start, end
<1>5. CASE ~EndsBeforeStart(start, end)
  <2>1. replay.ok /\ replay.value = request
    BY <1>3, <1>5, CliOkIs
  <2>2. WireFields(request) = <<event, NoFilter, start, end>>
    <3>1. CASE IsGiven(end)
      <4>1. request = WithTriggers(WithFilter(ReplayRange(event, first.value, last.value), NoFilter), ReplayTriggers(l))
        BY <1>1, <1>2, <3>1, OptionsAre DEF CliReplayRequest
      <4> HIDE DEF request
      <4> QED
        BY <1>1, <3>1, <4>1, FieldsAre
    <3>2. CASE ~IsGiven(end)
      <4>1. request = WithTriggers(WithFilter(ReplayOnly(event, first.value), NoFilter), ReplayTriggers(l))
        BY <1>1, <1>2, <3>2, OptionsAre DEF CliReplayRequest
      <4> HIDE DEF request
      <4> QED
        BY <1>1, <3>2, <4>1, FieldsAre
    <3> QED
      BY <3>1, <3>2
  <2> HIDE DEF request
  <2>3. Then(replay, FromPublic) = FromPublic(request)
    BY <2>1 DEF Then
  <2>4. Says(FromPublic(request), event, start, end, TRUE)
    BY <1>1, <2>2, RequestSays
  <2> QED
    BY <2>3, <2>4 DEF replay, l, start, end
<1> QED
  BY <1>4, <1>5

-----------------------------------------------------------------------------
(* All of them.                                                            *)

CWire(event, made) == Then(CRequest(event, made), FromPublic)
PyWire(event, start, end, mode) ==
  Then(PyRequest(Arguments(event, start, end, mode)), LAMBDA spec : FromPublic(spec.request))
PlacedCall(name, option) == IF IsGiven(option) THEN <<[name |-> name, value |-> option[1]]>> ELSE <<>>
PyModes(until, replay) ==
  {Given(IF replay THEN "replay_only" ELSE "watch")}
    \cup (IF IsGiven(until) = replay THEN {Unset} ELSE {})
CWires(event, start, end, replay) ==
  LET starts == PlacedCall(IF replay THEN "replay" ELSE "watch", start)
      ends   == PlacedCall("until", end)
  IN IF replay => IsGiven(start) THEN {CWire(event, starts \o ends), CWire(event, ends \o starts)} ELSE {}
RustWires(event, from, until, start, end, replay) ==
  CASE replay /\ IsGiven(start) ->
         {FromPublic(IF IsGiven(end) THEN ReplayRange(event, start[1], end[1])
                         ELSE ReplayOnly(event, start[1])),
          Then(CliReplay(Ok(BareListener(event)), from[1], until), FromPublic)}
    [] ~replay /\ ~IsGiven(end) ->
         {FromPublic(IF IsGiven(start) THEN WatchFrom(event, start[1]) ELSE Watch(event)),
          Then(CliWatch(IF IsGiven(start) THEN WithCursor(BareListener(event), start[1])
                                ELSE BareListener(event)), FromPublic)}
    [] OTHER -> {Err("cannot be said")}

LEMMA CWiresSay ==
  ASSUME NEW event, ~BadText(event), NEW start, IsPlace(start), NEW end, IsPlace(end), NEW replay \in BOOLEAN
  PROVE  \A w \in CWires(event, start, end, replay) : Says(w, event, start, end, replay)
<1> DEFINE starts == PlacedCall(IF replay THEN "replay" ELSE "watch", start)
           ends   == PlacedCall("until", end)
<1>1. CASE replay => IsGiven(start)
  <2>1. /\ starts = IF IsGiven(start) THEN <<StartCall(replay, start[1])>> ELSE <<>>
        /\ ends = IF IsGiven(end) THEN <<UntilCall(end[1])>> ELSE <<>>
    BY DEF StartCall, UntilCall, PlacedCall
  <2> HIDE DEF starts, ends
  <2>2. /\ AllMade(NewRequest(event), starts \o ends) = Filled(event, start, replay, end)
        /\ AllMade(NewRequest(event), ends \o starts) = Filled(event, start, replay, end)
    BY <1>1, <2>1, CallsMake
  <2>3. Says(CWire(event, starts \o ends), event, start, end, replay)
    BY <1>1, <2>2, CSays DEF CWire
  <2>4. Says(CWire(event, ends \o starts), event, start, end, replay)
    BY <1>1, <2>2, CSays DEF CWire
  <2>5. CWires(event, start, end, replay) = {CWire(event, starts \o ends), CWire(event, ends \o starts)}
    BY <1>1 DEF CWires, starts, ends
  <2> QED
    BY <2>3, <2>4, <2>5
<1>2. CASE ~(replay => IsGiven(start))
  <2>1. CWires(event, start, end, replay) = {}
    BY <1>2 DEF CWires
  <2> QED
    BY <2>1
<1> QED
  BY <1>1, <1>2

LEMMA PyWiresSay ==
  ASSUME MaxSequence \in Nat, NEW event, NEW start, IsPlace(start), NEW end, IsPlace(end), NEW replay \in BOOLEAN,
         NEW until, IsGiven(until) <=> IsGiven(end), NEW mode \in PyModes(until, replay)
  PROVE  Says(PyWire(event, start, end, mode), event, start, end, replay)
<1>1. ModeFits(mode, end, replay)
  BY DEF ModeFits, PyModes
<1> QED
  BY <1>1, PythonSays DEF PyWire

LEMMA RustWiresSay ==
  ASSUME NEW event, NEW from, IsReadable(from), NEW until, IsReadable(until), NEW replay \in BOOLEAN
  PROVE  \A w \in RustWires(event, from, until, Place(from), Place(until), replay) :
           Says(w, event, Place(from), Place(until), replay)
<1> DEFINE start == Place(from)
           end == Place(until)
           wires == RustWires(event, from, until, start, end, replay)
<1>1. /\ IsPlace(start) /\ IsPlace(end)
      /\ IsGiven(start) <=> IsGiven(from)
  BY PlacesAre
<1>2. CASE replay /\ IsGiven(start)
  <2> DEFINE a == FromPublic(IF IsGiven(end) THEN ReplayRange(event, start[1], end[1])
                                 ELSE ReplayOnly(event, start[1]))
             b == Then(CliReplay(Ok(BareListener(event)), from[1], until), FromPublic)
  <2>1. Says(b, event, start, end, TRUE)
    BY <1>1, <1>2, CliReplaySays
  <2>2. Says(a, event, start, end, TRUE)
    <3> HIDE DEF start, end
    <3> QED
      BY <1>1, <1>2, LibrarySays
  <2>3. wires = {a, b}
    <3> HIDE DEF start, end
    <3> QED
      BY <1>2 DEF RustWires
  <2>4. replay = TRUE
    BY <1>2
  <2> HIDE DEF start, end, wires, a, b
  <2> QED
    BY <2>1, <2>2, <2>3, <2>4 DEF wires, start, end
<1>3. CASE ~replay /\ ~IsGiven(end)
  <2> DEFINE a == FromPublic(IF IsGiven(start) THEN WatchFrom(event, start[1]) ELSE Watch(event))
             b == Then(CliWatch(IF IsGiven(start) THEN WithCursor(BareListener(event), start[1])
                                        ELSE BareListener(event)), FromPublic)
  <2> HIDE DEF start, end
  <2>1. Says(b, event, start, end, FALSE)
    BY <1>1, <1>3, CliWatchSays
  <2>2. Says(a, event, start, end, FALSE)
    BY <1>1, <1>3, LibrarySays
  <2>3. wires = {a, b}
    BY <1>3 DEF RustWires
  <2>4. replay = FALSE
    BY <1>3
  <2> HIDE DEF wires, a, b
  <2> QED
    BY <2>1, <2>2, <2>3, <2>4 DEF wires, start, end
<1>4. CASE ~(replay /\ IsGiven(start)) /\ ~(~replay /\ ~IsGiven(end))
  <2> DEFINE none == Err("cannot be said")
  <2> HIDE DEF start, end
  <2>1. wires = {none}
    BY <1>4 DEF RustWires
  <2>2. none.ok = FALSE
    BY DEF Err
  <2>3. ~Possible(start, end, replay)
    BY <1>4 DEF Possible
  <2> HIDE DEF wires, none
  <2>4. Says(none, event, start, end, replay)
    BY <2>2, <2>3 DEF Says
  <2> QED
    BY <2>1, <2>4 DEF wires, start, end
<1> QED
  BY <1>2, <1>3, <1>4

(* What is asked for with the same positions goes on the wire the same, or *)
(* is refused, over the C interface in whatever order its calls are made,  *)
(* in Python, in the library and on the command line, for every event and  *)
(* every two texts that are positions (RequestSpec::into_request,          *)
(* build_watch_request, replay.rs run, WireWatchRequest::from_public).     *)
THEOREM RangesMeanTheSame ==
  ASSUME MaxSequence \in Nat
  PROVE  \A event, from, until : \A replay \in BOOLEAN :
           ~BadText(event) /\ IsReadable(from) /\ IsReadable(until)
             => RangesAgree(event, from, until, replay)
<1> SUFFICES ASSUME NEW event, NEW from, NEW until, NEW replay \in BOOLEAN,
                    ~BadText(event), IsReadable(from), IsReadable(until)
             PROVE  RangesAgree(event, from, until, replay)
  OBVIOUS
<1> DEFINE start == Place(from)
           end == Place(until)
           wires == CWires(event, start, end, replay)
                      \cup {PyWire(event, start, end, mode) : mode \in PyModes(until, replay)}
                      \cup RustWires(event, from, until, start, end, replay)
<1>1. ASSUME NEW w \in wires
      PROVE  Says(w, event, start, end, replay)
  <2>1. IsPlace(start) /\ IsPlace(end) /\ (IsGiven(until) <=> IsGiven(end))
    BY PlacesAre
  <2>2. ASSUME NEW mode \in PyModes(until, replay)
        PROVE  Says(PyWire(event, start, end, mode), event, start, end, replay)
    <3> HIDE DEF start, end
    <3> QED
      BY <2>1, PyWiresSay
  <2>3. \A v \in RustWires(event, from, until, start, end, replay) : Says(v, event, start, end, replay)
    BY RustWiresSay
  <2>4. \A v \in CWires(event, start, end, replay) : Says(v, event, start, end, replay)
    <3> HIDE DEF start, end
    <3> QED
      BY <2>1, CWiresSay
  <2> HIDE DEF start, end
  <2> QED
    BY <2>2, <2>3, <2>4
<1>2. ASSUME \A a, b \in wires : a.ok = b.ok /\ (a.ok => a = b)
      PROVE  RangesAgree(event, from, until, replay)
  BY <1>2 DEF RangesAgree, Place, CWires, PyWire, PyModes, RustWires, CWire, PlacedCall, Arguments, Said, BareListener
<1> HIDE DEF wires, start, end
<1>3. \A a, b \in wires : a.ok = b.ok /\ (a.ok => a = b)
  BY <1>1 DEF Says
<1> QED
  BY <1>2, <1>3
-----------------------------------------------------------------------------
(* Commands: what the tracker may look like, over texts of characters in S.*)
Contexts == {"bare", "singleQuoted", "doubleQuoted", "comment"}
Levels ==
  [context : Contexts, opener : {"none", "group", "substitution", "brace"}, commandWord : BOOLEAN,
   reparsing : BOOLEAN, redirectOperand : BOOLEAN]
Words(S) == [text : Seq(S), assignment : BOOLEAN, redirectOperand : BOOLEAN, opaque : BOOLEAN]
Trackers(S) ==
  [levels : Seq(Levels), wordStart : BOOLEAN, word : Words(S), commandWord : BOOLEAN, reparsing : BOOLEAN,
   escape : BOOLEAN, token : {"none", "dollar", "dollarParen", "less", "redirect"},
   unsupported : {"none", "case", "backticks", "arithmetic", "quotedBrace", "hereDocument"}]
IsTracker(t, S) == t \in Trackers(S) /\ Len(t.levels) # 0

(* Nothing stands open between two characters; in single quotes and in a   *)
(* comment nothing ever does.                                              *)
Ready(t)   == ~t.escape /\ t.token = "none"
Settled(t) == Context(t) \in {"singleQuoted", "comment"} => Ready(t)

LEMMA StartIsSettled == \A S : IsTracker(NewTracker, S) /\ Settled(NewTracker)
<1> SUFFICES ASSUME NEW S PROVE IsTracker(NewTracker, S) /\ Settled(NewTracker)
  OBVIOUS
<1>1. Outermost \in Levels
  BY DEF Outermost, Levels, Contexts
<1>2. EmptyWord \in Words(S)
  BY EmptySeq DEF EmptyWord, Words
<1>3. <<Outermost>> \in Seq(Levels) /\ Len(<<Outermost>>) = 1
  BY <1>1
<1>4. NewTracker \in Trackers(S) /\ NewTracker.levels = <<Outermost>>
  BY <1>2, <1>3 DEF NewTracker, Trackers
<1> QED
  BY <1>3, <1>4 DEF IsTracker, Settled, Ready, NewTracker

-----------------------------------------------------------------------------
(* The operators of the tracker.                                           *)

LEMMA TopIs ==
  ASSUME NEW S, NEW t, IsTracker(t, S)
  PROVE  /\ Len(t.levels) \in Nat \ {0} /\ Last(t.levels) \in Levels
         /\ Context(t) \in Contexts
         /\ Context(t) = t.levels[Len(t.levels)].context
<1>1. t.levels \in Seq(Levels) /\ Len(t.levels) # 0
  BY DEF IsTracker, Trackers
<1>2. Len(t.levels) \in 1 .. Len(t.levels)
  BY <1>1
<1>3. t.levels[Len(t.levels)] \in Levels
  BY <1>1, <1>2, ElementOfSeq
<1> QED
  BY <1>1, <1>2, <1>3 DEF Last, Context, Levels

LEMMA SetContextIs ==
  ASSUME NEW S, NEW t, IsTracker(t, S), NEW c \in Contexts
  PROVE  LET u == SetContext(t, c)
         IN /\ IsTracker(u, S) /\ Context(u) = c
            /\ u.escape = t.escape /\ u.token = t.token /\ u.word = t.word
            /\ u.commandWord = t.commandWord /\ u.reparsing = t.reparsing
<1> DEFINE n == Len(t.levels)
           top == t.levels[n]
           newTop == [top EXCEPT !.context = c]
           levels == [t.levels EXCEPT ![n] = newTop]
           u == [t EXCEPT !.levels = levels]
<1>1. t.levels \in Seq(Levels) /\ n \in 1 .. n /\ top \in Levels
  BY TopIs DEF IsTracker, Trackers, Last
<1>2. newTop \in Levels /\ newTop.context = c
  BY <1>1 DEF Levels
<1>3. levels \in Seq(Levels) /\ Len(levels) = n /\ levels[n] = newTop
  <2> HIDE DEF newTop
  <2> QED
    BY <1>1, <1>2, ExceptSeq
<1>4. SetContext(t, c) = u
  BY <1>1 DEF SetContext
<1>5. /\ u \in Trackers(S) /\ u.levels = levels
      /\ u.escape = t.escape /\ u.token = t.token /\ u.word = t.word
      /\ u.commandWord = t.commandWord /\ u.reparsing = t.reparsing
  <2> HIDE DEF levels
  <2> QED
    BY <1>3 DEF IsTracker, Trackers
<1>6. Len(u.levels) = n /\ u.levels[Len(u.levels)] = newTop
  BY <1>3, <1>5
<1>7. IsTracker(u, S)
  BY <1>5, <1>6, <1>1 DEF IsTracker
<1>8. Context(u) = c
  BY <1>2, <1>6 DEF Context, Last
<1> QED
  BY <1>4, <1>5, <1>7, <1>8

(* Small changes.                                                          *)
LEMMA SmallChanges ==
  ASSUME NEW S, NEW t, IsTracker(t, S)
  PROVE  /\ IsTracker(InWord(t), S) /\ IsTracker(Opaque(t), S)
         /\ \A token \in {"none", "dollar", "dollarParen", "less", "redirect"} : IsTracker(Expects(t, token), S)
         /\ \A what \in {"case", "backticks", "arithmetic", "quotedBrace", "hereDocument"} :
              IsTracker(Flag(t, what), S)
<1>1. t \in Trackers(S)
  BY DEF IsTracker
<1>2. InWord(t) \in Trackers(S) /\ InWord(t).levels = t.levels
  BY <1>1 DEF InWord, Trackers
<1>3. [t.word EXCEPT !.opaque = TRUE] \in Words(S)
  BY <1>1 DEF Words, Trackers
<1>4. Opaque(t) \in Trackers(S) /\ Opaque(t).levels = t.levels
  <2> DEFINE w == [t.word EXCEPT !.opaque = TRUE]
  <2>1. Opaque(t) = [t EXCEPT !.wordStart = FALSE, !.word = w]
    BY <1>1 DEF Opaque, Trackers
  <2> HIDE DEF w
  <2>2. w \in Words(S)
    BY <1>3 DEF w
  <2> QED
    BY <1>1, <2>1, <2>2 DEF Trackers
<1>5. ASSUME NEW token \in {"none", "dollar", "dollarParen", "less", "redirect"}
      PROVE  Expects(t, token) \in Trackers(S) /\ Expects(t, token).levels = t.levels
  BY <1>1 DEF Expects, InWord, Trackers
<1>6. ASSUME NEW what \in {"case", "backticks", "arithmetic", "quotedBrace", "hereDocument"}
      PROVE  Flag(t, what) \in Trackers(S) /\ Flag(t, what).levels = t.levels
  BY <1>1 DEF Flag, Trackers
<1> QED
  BY <1>2, <1>4, <1>5, <1>6 DEF IsTracker

(* Only the levels say in which context a tracker is.                      *)
LEMMA SmallKeep ==
  ASSUME NEW S, NEW t, IsTracker(t, S)
  PROVE  /\ \A u \in {InWord(t), Opaque(t)} :
              /\ u.levels = t.levels /\ u.escape = t.escape /\ u.token = t.token
              /\ u.commandWord = t.commandWord /\ u.reparsing = t.reparsing
         /\ \A what : Flag(t, what).levels = t.levels /\ Flag(t, what).escape = t.escape
                      /\ Flag(t, what).token = t.token
         /\ \A token : Expects(t, token).levels = t.levels
<1>1. t \in Trackers(S)
  BY DEF IsTracker
<1> QED
  BY <1>1 DEF Trackers, InWord, Opaque, Flag, Expects

LEMMA PushIs ==
  ASSUME NEW S, NEW w \in Words(S), NEW c \in S
  PROVE  Push(w, c) \in Words(S)
<1>1. Append(w.text, c) \in Seq(S) /\ <<>> \in Seq(S)
  BY AppendProperties, EmptySeq DEF Words
<1> QED
  BY <1>1 DEF Push, Words

LEMMA EmptyWordIs == \A S : EmptyWord \in Words(S)
BY EmptySeq DEF EmptyWord, Words

LEMMA OpenLevelIs ==
  ASSUME NEW S, NEW t, IsTracker(t, S), NEW opener \in {"group", "substitution", "brace"}
  PROVE  LET u == OpenLevel(t, opener)
         IN IsTracker(u, S) /\ Context(u) = "bare" /\ u.escape = t.escape /\ u.token = t.token
<1>1. t \in Trackers(S) /\ t.word \in Words(S) /\ EmptyWord \in Words(S)
  BY EmptyWordIs DEF IsTracker, Trackers
<1> DEFINE nested == opener # "group"
           outer  == t.reparsing \/ (t.commandWord /\ nested)
           level  == [context |-> "bare", opener |-> opener, commandWord |-> t.commandWord,
                      reparsing |-> outer, redirectOperand |-> t.word.redirectOperand]
           levels == Append(t.levels, level)
           again  == outer \/ (t.word.redirectOperand /\ nested)
<1>2. level \in Levels /\ level.context = "bare"
  BY <1>1 DEF Levels, Contexts, Trackers, Words
<1>3. again \in BOOLEAN
  OBVIOUS
<1>4. levels \in Seq(Levels) /\ Len(levels) = Len(t.levels) + 1 /\ levels[Len(levels)] = level
      /\ Len(t.levels) \in Nat
  <2> HIDE DEF level
  <2> QED
    BY <1>1, <1>2, AppendProperties DEF Trackers
<1>5. OpenLevel(t, opener) = [t EXCEPT !.levels = levels, !.wordStart = TRUE, !.word = EmptyWord,
                                       !.commandWord = (opener # "brace"), !.reparsing = again]
  BY <1>1 DEF OpenLevel, Trackers
<1> HIDE DEF levels, again
<1>6. /\ OpenLevel(t, opener) \in Trackers(S) /\ OpenLevel(t, opener).levels = levels
      /\ OpenLevel(t, opener).escape = t.escape /\ OpenLevel(t, opener).token = t.token
  BY <1>1, <1>3, <1>4, <1>5 DEF Trackers
<1> QED
  BY <1>2, <1>4, <1>6 DEF IsTracker, Context, Last

LEMMA CloseLevelIs ==
  ASSUME NEW S, NEW t, IsTracker(t, S)
  PROVE  LET u == CloseLevel(t)
         IN IsTracker(u, S) /\ u.escape = t.escape /\ u.token = t.token
<1>1. t \in Trackers(S) /\ t.word \in Words(S) /\ t.levels \in Seq(Levels)
  BY DEF IsTracker, Trackers
<1> DEFINE level == Last(t.levels)
           word  == IF level.opener = "group" THEN t.word
                    ELSE [t.word EXCEPT !.opaque = TRUE, !.redirectOperand = level.redirectOperand]
           levels == Front(t.levels)
           u == [t EXCEPT !.levels = levels, !.commandWord = level.commandWord,
                          !.reparsing = level.reparsing, !.word = word]
<1>2. level \in Levels
  BY TopIs
<1>3. word \in Words(S)
  <2> HIDE DEF level
  <2> QED
    BY <1>1, <1>2 DEF Words, Levels
<1>4. CASE Len(t.levels) = 1
  BY <1>4 DEF CloseLevel
<1>5. CASE Len(t.levels) # 1
  <2>1. Len(t.levels) - 1 \in Nat \ {0} /\ Len(t.levels) \in Nat
    BY <1>5, TopIs
  <2>2. levels \in Seq(Levels) /\ Len(levels) = Len(t.levels) - 1
    BY <1>1, <2>1, SubSeqProperties DEF Front
  <2>3. CloseLevel(t) = u
    BY <1>1, <1>5 DEF CloseLevel, Trackers
  <2> HIDE DEF levels, word, level
  <2>4. u \in Trackers(S) /\ u.levels = levels /\ u.escape = t.escape /\ u.token = t.token
    BY <1>1, <1>2, <1>3, <2>2 DEF Trackers, Levels
  <2>5. Len(levels) # 0
    BY <2>1, <2>2
  <2> HIDE DEF u
  <2> QED
    BY <2>3, <2>4, <2>5 DEF IsTracker
<1> QED
  BY <1>4, <1>5

LEMMA EndWordIs ==
  ASSUME NEW S, NEW t, IsTracker(t, S), NEW startsCommand \in BOOLEAN
  PROVE  LET u == EndWord(t, startsCommand)
         IN IsTracker(u, S) /\ u.levels = t.levels /\ u.escape = t.escape /\ u.token = t.token
<1> DEFINE seen   == IF t.word.text = <<"case">> THEN Flag(t, "case") ELSE t
           counts == /\ ~WordIsEmpty(t.word) /\ ~t.word.redirectOperand
                     /\ ~LeavesCommandPositionOpen(t.word)
           again  == counts /\ ((t.commandWord /\ t.word.opaque) \/ ReparsesItsArguments(t.word))
           first  == startsCommand \/ (seen.commandWord /\ ~counts)
           more   == ~startsCommand /\ (seen.reparsing \/ again)
<1>1. IsTracker(seen, S) /\ seen.levels = t.levels /\ seen.escape = t.escape /\ seen.token = t.token
  <2>1. IsTracker(Flag(t, "case"), S)
    BY SmallChanges
  <2>2. Flag(t, "case").levels = t.levels /\ Flag(t, "case").escape = t.escape /\ Flag(t, "case").token = t.token
    BY SmallKeep
  <2> QED
    BY <2>1, <2>2
<1>2. first \in BOOLEAN /\ more \in BOOLEAN /\ EmptyWord \in Words(S)
  BY EmptyWordIs
<1> HIDE DEF seen
<1>3. EndWord(t, startsCommand) = [seen EXCEPT !.word = EmptyWord, !.commandWord = first, !.reparsing = more]
  BY <1>1 DEF EndWord, seen, IsTracker, Trackers
<1> HIDE DEF first, more
<1>4. LET u == [seen EXCEPT !.word = EmptyWord, !.commandWord = first, !.reparsing = more]
      IN u \in Trackers(S) /\ u.levels = seen.levels /\ u.escape = seen.escape /\ u.token = seen.token
  BY <1>1, <1>2 DEF IsTracker, Trackers
<1> QED
  BY <1>1, <1>3, <1>4 DEF IsTracker

-----------------------------------------------------------------------------
(* One character.                                                          *)

LEMMA ReadyIsSettled ==
  ASSUME NEW t, Ready(t) PROVE Settled(t)
BY DEF Settled

(* A character of bare or double-quoted text: nothing is left open but what*)
(* it opens itself, outside single quotes and comments.                    *)
LEMMA StepCharIs ==
  ASSUME NEW S, NEW t, IsTracker(t, S), Ready(t), Context(t) \notin {"singleQuoted", "comment"}, NEW c \in S
  PROVE  IsTracker(StepChar(t, c), S) /\ Settled(StepChar(t, c))
<1> DEFINE P(u) == IsTracker(u, S) /\ Settled(u)
           Q(u) == IsTracker(u, S) /\ Ready(u)
<1>0. Q(t) /\ \A u : Q(u) => P(u)
  BY ReadyIsSettled
<1>1. \A token \in {"dollar", "less", "redirect"} : P(Expects(t, token)) /\ P(Opaque(Expects(t, token)))
  <2> TAKE token \in {"dollar", "less", "redirect"}
  <2>1. IsTracker(Expects(t, token), S) /\ Expects(t, token).levels = t.levels
    BY SmallChanges, SmallKeep
  <2>2. IsTracker(Opaque(Expects(t, token)), S) /\ Opaque(Expects(t, token)).levels = t.levels
    BY <2>1, SmallChanges, SmallKeep
  <2> QED
    BY <2>1, <2>2 DEF Settled, Context
<1>2. P(Flag(t, "backticks"))
  <2>1. IsTracker(Flag(t, "backticks"), S) /\ Ready(Flag(t, "backticks"))
    BY SmallChanges, SmallKeep DEF Ready
  <2> QED
    BY <2>1, <1>0
<1>3. \A d \in Contexts : Q(SetContext(t, d)) /\ Q(InWord(SetContext(t, d)))
  <2> TAKE d \in Contexts
  <2>1. Q(SetContext(t, d))
    BY SetContextIs DEF Ready
  <2>2. Q(InWord(SetContext(t, d)))
    BY <2>1, SmallChanges, SmallKeep DEF Ready
  <2> QED
    BY <2>1, <2>2
<1>4. \A d \in Contexts : Q([SetContext(t, d) EXCEPT !.word.opaque = TRUE])
  <2> TAKE d \in Contexts
  <2> DEFINE u == SetContext(t, d)
             w == [u.word EXCEPT !.opaque = TRUE]
  <2>1. Q(u)
    BY <1>3
  <2> HIDE DEF u
  <2>2. w \in Words(S) /\ u \in Trackers(S)
    BY <2>1 DEF IsTracker, Trackers, Words
  <2>3. [u EXCEPT !.word.opaque = TRUE] = [u EXCEPT !.word = w]
    BY <2>2 DEF Trackers
  <2> HIDE DEF w
  <2>4. Q([u EXCEPT !.word = w])
    BY <2>1, <2>2 DEF IsTracker, Trackers, Ready
  <2> QED
    BY <2>3, <2>4 DEF u
<1>5. Q(InWord(CloseLevel(t)))
  <2>1. Q(CloseLevel(t))
    BY CloseLevelIs DEF Ready
  <2> QED
    BY <2>1, SmallChanges, SmallKeep DEF Ready
<1>6. \A b \in BOOLEAN : Q(EndWord(t, b)) /\ Q([EndWord(t, b) EXCEPT !.wordStart = TRUE])
  <2> TAKE b \in BOOLEAN
  <2> DEFINE u == EndWord(t, b)
  <2>1. Q(u)
    BY EndWordIs DEF Ready
  <2> HIDE DEF u
  <2>2. Q([u EXCEPT !.wordStart = TRUE])
    BY <2>1 DEF IsTracker, Trackers, Ready
  <2> QED
    BY <2>1, <2>2 DEF u
<1>7. Q(OpenLevel(EndWord(t, TRUE), "group"))
  <2> DEFINE e == EndWord(t, TRUE)
  <2>1. Q(e)
    BY <1>6
  <2> HIDE DEF e
  <2>2. Q(OpenLevel(e, "group"))
    BY <2>1, OpenLevelIs DEF Ready
  <2> QED
    BY <2>2 DEF e
<1>8. ASSUME NEW starts \in BOOLEAN
      PROVE  Q([CloseLevel(EndWord(t, TRUE)) EXCEPT !.wordStart = starts, !.commandWord = @ \/ starts])
  <2> DEFINE u == CloseLevel(EndWord(t, TRUE))
  <2>1. Q(u)
    <3>1. Q(EndWord(t, TRUE))
      BY <1>6
    <3> QED
      BY <3>1, CloseLevelIs DEF Ready
  <2> HIDE DEF u
  <2>2. Q([u EXCEPT !.wordStart = starts, !.commandWord = (u.commandWord \/ starts)])
    BY <2>1 DEF IsTracker, Trackers, Ready
  <2>3. u \in Trackers(S)
    BY <2>1 DEF IsTracker
  <2>4. [u EXCEPT !.wordStart = starts, !.commandWord = @ \/ starts]
          = [u EXCEPT !.wordStart = starts, !.commandWord = (u.commandWord \/ starts)]
    BY <2>3 DEF Trackers
  <2> QED
    BY <2>2, <2>4 DEF u
<1>9. Q([t EXCEPT !.word = Push(IF t.wordStart THEN EmptyWord ELSE @, c), !.wordStart = FALSE])
  <2> DEFINE old == IF t.wordStart THEN EmptyWord ELSE t.word
             w == Push(old, c)
  <2>1. t \in Trackers(S) /\ old \in Words(S)
    BY EmptyWordIs DEF IsTracker, Trackers
  <2> HIDE DEF old
  <2>2. w \in Words(S)
    BY <2>1, PushIs
  <2>3. [t EXCEPT !.word = Push(IF t.wordStart THEN EmptyWord ELSE @, c), !.wordStart = FALSE]
          = [t EXCEPT !.word = w, !.wordStart = FALSE]
    BY <2>1 DEF Trackers, old
  <2> HIDE DEF w
  <2>4. Q([t EXCEPT !.word = w, !.wordStart = FALSE])
    BY <1>0, <2>2 DEF IsTracker, Trackers, Ready
  <2> QED
    BY <2>3, <2>4
<1> DEFINE u == StepChar(t, c)
<1> SUFFICES P(u)
  OBVIOUS
<1> HIDE DEF P, Q
<1>10. CASE c \in {"$", "bt"}
  <2>1. u \in {Opaque(Expects(t, "dollar")), Flag(t, "backticks")}
    BY <1>10 DEF StepChar
  <2> HIDE DEF u
  <2> QED
    BY <2>1, <1>1, <1>2
<1>11. CASE c \notin {"$", "bt"} /\ Context(t) = "doubleQuoted"
  <2>1. u \in {InWord(SetContext(t, "bare")), t}
    BY <1>11 DEF StepChar
  <2> HIDE DEF u
  <2> QED
    BY <2>1, <1>0, <1>3 DEF Contexts
<1> DEFINE bare   == c \notin {"$", "bt"} /\ Context(t) # "doubleQuoted"
           opens  == (c = "#" /\ t.wordStart) \/ c \in {"sq", "dq", "<", ">"}
<1>12. CASE bare /\ opens
  <2>1. u \in {SetContext(t, "comment"), [SetContext(t, "singleQuoted") EXCEPT !.word.opaque = TRUE],
               [SetContext(t, "doubleQuoted") EXCEPT !.word.opaque = TRUE],
               Expects(t, "less"), Expects(t, "redirect")}
    BY <1>12 DEF StepChar
  <2> HIDE DEF u
  <2> QED
    BY <2>1, <1>0, <1>1, <1>3, <1>4 DEF Contexts
<1>13. CASE bare /\ ~opens /\ Opener(t) = "brace"
  <2>1. u \in {InWord(CloseLevel(t)), t}
    BY <1>13 DEF StepChar
  <2> HIDE DEF u
  <2> QED
    BY <2>1, <1>0, <1>5
<1>14. CASE bare /\ ~opens /\ Opener(t) # "brace" /\ c \in {"(", "sp", "nl", "op"}
  <2>1. \/ u = OpenLevel(EndWord(t, TRUE), "group")
        \/ u = [EndWord(t, TRUE) EXCEPT !.wordStart = TRUE]
        \/ u = [EndWord(t, FALSE) EXCEPT !.wordStart = TRUE]
    BY <1>14 DEF StepChar
  <2> HIDE DEF u
  <2> QED
    BY <2>1, <1>0, <1>6, <1>7
<1>15. CASE bare /\ ~opens /\ Opener(t) # "brace" /\ c = ")"
  <2> DEFINE starts == Opener(t) \in {"none", "group"}
  <2>1. u = [CloseLevel(EndWord(t, TRUE)) EXCEPT !.wordStart = starts, !.commandWord = @ \/ starts]
    BY <1>15 DEF StepChar
  <2>2. starts \in BOOLEAN
    OBVIOUS
  <2> HIDE DEF u, starts
  <2> QED
    BY <2>1, <2>2, <1>0, <1>8
<1>16. CASE bare /\ ~opens /\ Opener(t) # "brace" /\ c \notin {"(", ")", "sp", "nl", "op"}
  <2>1. u = [t EXCEPT !.word = Push(IF t.wordStart THEN EmptyWord ELSE @, c), !.wordStart = FALSE]
    BY <1>16 DEF StepChar
  <2> HIDE DEF u
  <2> QED
    BY <2>1, <1>0, <1>9
<1> QED
  BY <1>10, <1>11, <1>12, <1>13, <1>14, <1>15, <1>16

LEMMA StepTokenIs ==
  ASSUME NEW S, NEW t, IsTracker(t, S), Ready(t), Context(t) \notin {"singleQuoted", "comment"}, NEW c \in S,
         NEW token \in {"none", "dollar", "dollarParen", "less", "redirect"}
  PROVE  IsTracker(StepToken(t, token, c), S) /\ Settled(StepToken(t, token, c))
<1> DEFINE Free(v) == IsTracker(v, S) /\ Ready(v) /\ Context(v) \notin {"singleQuoted", "comment"}
           P(v) == IsTracker(v, S) /\ Settled(v)
           u == StepToken(t, token, c)
<1>0. \A v : Free(v) => P(v) /\ P(StepChar(v, c))
  BY ReadyIsSettled, StepCharIs
<1>1. \A next \in {"dollarParen", "redirect"} : P([t EXCEPT !.token = next])
  <2> TAKE next \in {"dollarParen", "redirect"}
  <2>1. IsTracker([t EXCEPT !.token = next], S) /\ [t EXCEPT !.token = next].levels = t.levels
    BY DEF IsTracker, Trackers
  <2> QED
    BY <2>1 DEF Settled, Context
<1>2. /\ Free(t) /\ Free(Opaque(t))
      /\ \A what \in {"arithmetic", "hereDocument", "quotedBrace"} : Free(Flag(t, what))
  BY SmallChanges, SmallKeep DEF Ready, Context
<1>3. Free(OpenLevel(t, "substitution"))
  BY OpenLevelIs DEF Ready
<1>4. \A v : Free(v) => Free(OpenLevel(v, "brace"))
  BY OpenLevelIs DEF Ready
<1>5. Free([t EXCEPT !.word = [EmptyWord EXCEPT !.redirectOperand = TRUE], !.wordStart = FALSE])
  <2> DEFINE w == [EmptyWord EXCEPT !.redirectOperand = TRUE]
             v == [t EXCEPT !.word = w, !.wordStart = FALSE]
  <2>1. w \in Words(S)
    BY EmptySeq DEF Words, EmptyWord
  <2> HIDE DEF w
  <2>2. v \in Trackers(S) /\ v.levels = t.levels /\ v.escape = t.escape /\ v.token = t.token
    BY <2>1 DEF IsTracker, Trackers
  <2> HIDE DEF v
  <2>3. Free(v)
    BY <2>2 DEF IsTracker, Ready, Context
  <2> QED
    BY <2>3 DEF v, w
<1> SUFFICES P(u)
  OBVIOUS
<1> HIDE DEF P, Free
<1>6. CASE token = "none"
  <2>1. u = StepChar(t, c)
    BY <1>6 DEF StepToken
  <2> HIDE DEF u
  <2> QED
    BY <2>1, <1>0, <1>2
<1>7. CASE token = "dollarParen"
  <2>1. u \in {Flag(t, "arithmetic"), StepChar(OpenLevel(t, "substitution"), c)}
    BY <1>7 DEF StepToken
  <2> HIDE DEF u
  <2> QED
    BY <2>1, <1>0, <1>2, <1>3
<1>8. CASE token = "dollar"
  <2> DEFINE v == IF Context(t) = "doubleQuoted" THEN Flag(t, "quotedBrace") ELSE t
  <2>1. u \in {[t EXCEPT !.token = "dollarParen"], OpenLevel(v, "brace"), Opaque(t), StepChar(Opaque(t), c)}
    BY <1>8 DEF StepToken, Letters
  <2>2. Free(v)
    BY <1>2
  <2> HIDE DEF u, v
  <2> QED
    BY <2>1, <2>2, <1>0, <1>1, <1>2, <1>4
<1>9. CASE token \in {"less", "redirect"}
  <2> DEFINE v == [t EXCEPT !.word = [EmptyWord EXCEPT !.redirectOperand = TRUE], !.wordStart = FALSE]
  <2>1. u \in {Flag(t, "hereDocument"), [t EXCEPT !.token = "redirect"], StepChar(v, c)}
    BY <1>9 DEF StepToken
  <2>2. Free(v)
    BY <1>5
  <2> HIDE DEF u, v
  <2> QED
    BY <2>1, <2>2, <1>0, <1>1, <1>2
<1> QED
  BY <1>6, <1>7, <1>8, <1>9

(* Any character.                                                          *)
LEMMA StepIs ==
  ASSUME NEW S, NEW t, IsTracker(t, S), Settled(t), NEW c \in S
  PROVE  IsTracker(Step(t, c), S) /\ Settled(Step(t, c))
<1> DEFINE P(v) == IsTracker(v, S) /\ Settled(v)
           u == Step(t, c)
           ready == [t EXCEPT !.escape = FALSE, !.token = "none"]
<1>1. \A d \in Contexts : Ready(t) => P(SetContext(t, d)) /\ P(InWord(SetContext(t, d)))
  <2> SUFFICES ASSUME NEW d \in Contexts, Ready(t) PROVE P(SetContext(t, d)) /\ P(InWord(SetContext(t, d)))
    OBVIOUS
  <2>1. IsTracker(SetContext(t, d), S) /\ Ready(SetContext(t, d))
    BY SetContextIs DEF Ready
  <2>2. IsTracker(InWord(SetContext(t, d)), S) /\ Ready(InWord(SetContext(t, d)))
    BY <2>1, SmallChanges, SmallKeep DEF Ready
  <2> QED
    BY <2>1, <2>2, ReadyIsSettled
<1>2. /\ IsTracker(ready, S) /\ Ready(ready) /\ Context(ready) = Context(t)
      /\ IsTracker([t EXCEPT !.escape = TRUE], S) /\ Context([t EXCEPT !.escape = TRUE]) = Context(t)
      /\ IsTracker([t EXCEPT !.escape = FALSE], S) /\ Context([t EXCEPT !.escape = FALSE]) = Context(t)
  BY DEF IsTracker, Trackers, Ready, Context
<1>3. P(Opaque(ready))
  <2> HIDE DEF ready
  <2>1. IsTracker(Opaque(ready), S) /\ Ready(Opaque(ready))
    BY <1>2, SmallChanges, SmallKeep DEF Ready
  <2> QED
    BY <2>1, ReadyIsSettled
<1>4. CASE Context(t) = "singleQuoted"
  <2>1. u \in {InWord(SetContext(t, "bare")), t}
    BY <1>4 DEF Step
  <2>2. Ready(t) /\ P(t)
    BY <1>4 DEF Settled
  <2> HIDE DEF u, P
  <2>3. P(u)
    BY <2>1, <2>2, <1>1 DEF Contexts
  <2> QED
    BY <2>3 DEF P, u
<1>5. CASE Context(t) = "comment"
  <2> DEFINE b == SetContext(t, "bare")
             v == [b EXCEPT !.wordStart = TRUE, !.commandWord = TRUE, !.reparsing = FALSE]
  <2>1. u \in {v, t}
    BY <1>5 DEF Step
  <2>2. Ready(t) /\ P(t)
    BY <1>5 DEF Settled
  <2>3. IsTracker(b, S) /\ Ready(b)
    BY <2>2, SetContextIs DEF Ready, Contexts
  <2> HIDE DEF b
  <2>4. IsTracker(v, S) /\ Ready(v)
    BY <2>3 DEF IsTracker, Trackers, Ready
  <2> HIDE DEF v
  <2>5. P(v)
    BY <2>4, ReadyIsSettled
  <2> HIDE DEF u, P
  <2>6. P(u)
    BY <2>1, <2>2, <2>5
  <2> QED
    BY <2>6 DEF P, u
<1>6. CASE Context(t) \notin {"singleQuoted", "comment"}
  <2>1. u \in {[t EXCEPT !.escape = FALSE], Opaque(ready), [t EXCEPT !.escape = TRUE], StepToken(ready, t.token, c)}
    BY <1>6 DEF Step, StepBare
  <2>2. P([t EXCEPT !.escape = FALSE]) /\ P([t EXCEPT !.escape = TRUE])
    BY <1>2, <1>6 DEF Settled
  <2>3. t.token \in {"none", "dollar", "dollarParen", "less", "redirect"}
    BY DEF IsTracker, Trackers
  <2> HIDE DEF ready
  <2>4. P(StepToken(ready, t.token, c))
    BY <1>2, <1>6, <2>3, StepTokenIs
  <2> HIDE DEF u, P
  <2>5. P(u)
    BY <2>1, <2>2, <2>4, <1>3
  <2> QED
    BY <2>5 DEF P, u
<1> QED
  BY <1>4, <1>5, <1>6

-----------------------------------------------------------------------------
(* Whole texts.                                                            *)

Reading  == INSTANCE FoldFacts WITH Op <- Step
Shelling == INSTANCE FoldFacts WITH Op <- ShellChar

LEMMA ReadingIs ==
  ASSUME NEW S, NEW t, NEW text \in Seq(S)
  PROVE  Advance(t, text) = Reading!Fold(t, text, Len(text))
<1> DEFINE n == Len(text)
<1>1. n \in Nat /\ DOMAIN text = 1 .. n
  OBVIOUS
<1> HIDE DEF n
<1>2. Advance(t, text) = Reading!Fold(t, text, n)
  BY <1>1 DEF Advance, Reading!Fold, Reading!Solution, Reading!Solves, Reading!Folded, Reading!Max,
     FoldLeft, MapThenFoldSet, Max
<1> QED
  BY <1>2 DEF n

ShellGoes(s, text) == FoldLeft(ShellChar, s, text)

LEMMA ShellingIs ==
  ASSUME NEW S, NEW s, NEW text \in Seq(S)
  PROVE  ShellGoes(s, text) = Shelling!Fold(s, text, Len(text))
<1> DEFINE n == Len(text)
<1>1. n \in Nat /\ DOMAIN text = 1 .. n
  OBVIOUS
<1> HIDE DEF n
<1>2. ShellGoes(s, text) = Shelling!Fold(s, text, n)
  BY <1>1 DEF ShellGoes, Shelling!Fold, Shelling!Solution, Shelling!Solves, Shelling!Folded, Shelling!Max,
     FoldLeft, MapThenFoldSet, Max
<1> QED
  BY <1>2 DEF n

LEMMA BeforeIs ==
  ASSUME NEW S, NEW before \in Seq(S)
  PROVE  IsTracker(Before(before), S) /\ Settled(Before(before))
<1> DEFINE P == {u \in Trackers(S) : Len(u.levels) # 0 /\ Settled(u)}
           n == Len(before)
<1>1. NewTracker \in P
  BY StartIsSettled DEF IsTracker
<1>2. n \in Nat /\ \A i \in 1 .. n : before[i] \in S
  BY ElementOfSeq
<1>3. ASSUME NEW p \in P, NEW i \in 1 .. n PROVE Step(p, before[i]) \in P
  <2>1. IsTracker(p, S) /\ Settled(p) /\ before[i] \in S
    BY <1>2 DEF IsTracker
  <2>2. IsTracker(Step(p, before[i]), S) /\ Settled(Step(p, before[i]))
    BY <2>1, StepIs
  <2> QED
    BY <2>2 DEF IsTracker
<1> HIDE DEF P, n
<1>4. Reading!Fold(NewTracker, before, n) \in P
  BY <1>1, <1>2, <1>3, Reading!FoldStays
<1>5. Before(before) \in P
  BY <1>4, ReadingIs DEF Before, n
<1> QED
  BY <1>5 DEF P, IsTracker

(* Pieces put end to end: each leads from one place to the next.           *)
LEMMA PiecesRead ==
  ASSUME NEW S, NEW seqs \in Seq(Seq(S)), NEW P, NEW base \in P[0],
         \A k \in 1 .. Len(seqs) : \A p \in P[k - 1] : Advance(p, seqs[k]) \in P[k]
  PROVE  FlattenSeq(seqs) \in Seq(S) /\ Advance(base, FlattenSeq(seqs)) \in P[Len(seqs)]
<1> DEFINE n == Len(seqs)
           flat == FlattenSeq(seqs)
           at == Flattening(seqs, n)
<1>1. n \in Nat /\ \A k \in 1 .. n : seqs[k] \in Seq(S)
  BY ElementOfSeq
<1>2. CASE n = 0
  <2>1. flat = <<>> /\ flat \in Seq(S) /\ Len(flat) = 0
    BY <1>2, EmptySeq DEF FlattenSeq
  <2>2. Advance(base, flat) = Reading!Fold(base, flat, 0)
    <3> HIDE DEF flat
    <3> QED
      BY <2>1, ReadingIs
  <2>3. Advance(base, flat) = base
    BY <2>2, Reading!FoldOfFew
  <2> QED
    BY <1>2, <2>1, <2>3
<1>3. CASE n # 0
  <2>1. Flattens(at, seqs, n)
    BY <1>1, <1>3, FlatteningIs
  <2>2. flat = at[n]
    BY <1>3 DEF FlattenSeq, Flattening, Joined
  <2>3. \A k \in 1 .. n : \A p \in P[k - 1] : Reading!Fold(p, seqs[k], Len(seqs[k])) \in P[k]
    BY <1>1, ReadingIs
  <2>4. n \in Nat \ {0} /\ at[1] = seqs[1] /\ \A k \in 2 .. n : at[k] = at[k - 1] \o seqs[k]
    BY <1>1, <1>3, <2>1 DEF Flattens, Joined
  <2> HIDE DEF n, at, flat
  <2>5. at[n] \in Seq(S) /\ Reading!Fold(base, at[n], Len(at[n])) \in P[n]
    BY <1>1, <2>3, <2>4, Reading!FoldOfPieces
  <2>6. flat \in Seq(S) /\ Advance(base, flat) \in P[n]
    BY <2>2, <2>5, ReadingIs
  <2> QED
    BY <2>6 DEF flat, n
<1> QED
  BY <1>2, <1>3

LEMMA PiecesShell ==
  ASSUME NEW S, NEW seqs \in Seq(Seq(S)), NEW P, NEW base \in P[0],
         \A k \in 1 .. Len(seqs) : \A p \in P[k - 1] : ShellGoes(p, seqs[k]) \in P[k]
  PROVE  FlattenSeq(seqs) \in Seq(S) /\ ShellGoes(base, FlattenSeq(seqs)) \in P[Len(seqs)]
<1> DEFINE n == Len(seqs)
           flat == FlattenSeq(seqs)
           at == Flattening(seqs, n)
<1>1. n \in Nat /\ \A k \in 1 .. n : seqs[k] \in Seq(S)
  BY ElementOfSeq
<1>2. CASE n = 0
  <2>1. flat = <<>> /\ flat \in Seq(S) /\ Len(flat) = 0
    BY <1>2, EmptySeq DEF FlattenSeq
  <2>2. ShellGoes(base, flat) = Shelling!Fold(base, flat, 0)
    <3> HIDE DEF flat
    <3> QED
      BY <2>1, ShellingIs
  <2>3. ShellGoes(base, flat) = base
    BY <2>2, Shelling!FoldOfFew
  <2> QED
    BY <1>2, <2>1, <2>3
<1>3. CASE n # 0
  <2>1. Flattens(at, seqs, n)
    BY <1>1, <1>3, FlatteningIs
  <2>2. flat = at[n]
    BY <1>3 DEF FlattenSeq, Flattening, Joined
  <2>3. \A k \in 1 .. n : \A p \in P[k - 1] : Shelling!Fold(p, seqs[k], Len(seqs[k])) \in P[k]
    BY <1>1, ShellingIs
  <2>4. n \in Nat \ {0} /\ at[1] = seqs[1] /\ \A k \in 2 .. n : at[k] = at[k - 1] \o seqs[k]
    BY <1>1, <1>3, <2>1 DEF Flattens, Joined
  <2> HIDE DEF n, at, flat
  <2>5. at[n] \in Seq(S) /\ Shelling!Fold(base, at[n], Len(at[n])) \in P[n]
    BY <1>1, <2>3, <2>4, Shelling!FoldOfPieces
  <2>6. flat \in Seq(S) /\ ShellGoes(base, flat) \in P[n]
    BY <2>2, <2>5, ShellingIs
  <2> QED
    BY <2>6 DEF flat, n
<1> QED
  BY <1>2, <1>3

(* One text after another, and texts of one character.                     *)
LEMMA ReadOn ==
  ASSUME NEW S, NEW x \in Seq(S), NEW y \in Seq(S)
  PROVE  /\ \A t : Advance(t, x \o y) = Advance(Advance(t, x), y)
         /\ \A s : ShellGoes(s, x \o y) = ShellGoes(ShellGoes(s, x), y)
<1>1. x \o y \in Seq(S)
  BY ConcatProperties
<1>2. ASSUME NEW t PROVE Advance(t, x \o y) = Advance(Advance(t, x), y)
  <2> DEFINE z == x \o y
             mid == Reading!Fold(t, x, Len(x))
  <2>1. Advance(t, x) = mid
    BY ReadingIs
  <2>2. Reading!Fold(t, z, Len(z)) = Reading!Fold(mid, y, Len(y))
    BY Reading!FoldOfJoined
  <2> HIDE DEF z, mid
  <2>3. Advance(t, z) = Reading!Fold(t, z, Len(z))
    BY <1>1, ReadingIs DEF z
  <2>4. Advance(mid, y) = Reading!Fold(mid, y, Len(y))
    BY ReadingIs
  <2> QED
    BY <2>1, <2>2, <2>3, <2>4 DEF z
<1>3. ASSUME NEW s PROVE ShellGoes(s, x \o y) = ShellGoes(ShellGoes(s, x), y)
  <2> DEFINE z == x \o y
             mid == Shelling!Fold(s, x, Len(x))
  <2>1. ShellGoes(s, x) = mid
    BY ShellingIs
  <2>2. Shelling!Fold(s, z, Len(z)) = Shelling!Fold(mid, y, Len(y))
    BY Shelling!FoldOfJoined
  <2> HIDE DEF z, mid
  <2>3. ShellGoes(s, z) = Shelling!Fold(s, z, Len(z))
    BY <1>1, ShellingIs DEF z
  <2>4. ShellGoes(mid, y) = Shelling!Fold(mid, y, Len(y))
    BY ShellingIs
  <2> QED
    BY <2>1, <2>2, <2>3, <2>4 DEF z
<1> QED
  BY <1>2, <1>3

LEMMA ReadOne ==
  ASSUME NEW c
  PROVE  /\ \A t : Advance(t, <<c>>) = Step(t, c) /\ Advance(t, <<>>) = t
         /\ \A s : ShellGoes(s, <<c>>) = ShellChar(s, c) /\ ShellGoes(s, <<>>) = s
<1>1. <<c>> \in Seq({c}) /\ Len(<<c>>) = 1 /\ <<c>>[1] = c /\ <<>> \in Seq({c}) /\ Len(<<>>) = 0
  OBVIOUS
<1>2. ASSUME NEW t PROVE Advance(t, <<c>>) = Step(t, c) /\ Advance(t, <<>>) = t
  <2>1. Reading!Fold(t, <<c>>, 1) = Step(t, c) /\ Reading!Fold(t, <<>>, 0) = t
    BY <1>1, Reading!FoldOfFew
  <2> QED
    BY <1>1, <2>1, ReadingIs
<1>3. ASSUME NEW s PROVE ShellGoes(s, <<c>>) = ShellChar(s, c) /\ ShellGoes(s, <<>>) = s
  <2>1. Shelling!Fold(s, <<c>>, 1) = ShellChar(s, c) /\ Shelling!Fold(s, <<>>, 0) = s
    BY <1>1, Shelling!FoldOfFew
  <2> QED
    BY <1>1, <2>1, ShellingIs
<1> QED
  BY <1>2, <1>3

LEMMA ReadTwo ==
  ASSUME NEW c, NEW d
  PROVE  /\ \A t : Advance(t, <<c, d>>) = Step(Step(t, c), d)
         /\ \A s : ShellGoes(s, <<c, d>>) = ShellChar(ShellChar(s, c), d)
<1> DEFINE T == {c, d}
           x == <<c>>
           y == <<d>>
           z == <<c, d>>
<1>1. x \in Seq(T) /\ y \in Seq(T) /\ z \in Seq(T) /\ Len(x) = 1 /\ Len(y) = 1 /\ Len(z) = 2
      /\ x[1] = c /\ y[1] = d /\ z[1] = c /\ z[2] = d
  OBVIOUS
<1>2. z = x \o y
  <2> HIDE DEF x, y, z, T
  <2>1. x \o y \in Seq(T) /\ Len(x \o y) = 2 /\ (x \o y)[1] = c /\ (x \o y)[2] = d
    <3>1. /\ x \o y \in Seq(T) /\ Len(x \o y) = Len(x) + Len(y)
          /\ \A i \in 1 .. Len(x) + Len(y) :
               (x \o y)[i] = IF i <= Len(x) THEN x[i] ELSE y[i - Len(x)]
      BY <1>1, ConcatProperties, Zenon
    <3>2. /\ (x \o y)[1] = IF 1 <= Len(x) THEN x[1] ELSE y[1 - Len(x)]
          /\ (x \o y)[2] = IF 2 <= Len(x) THEN x[2] ELSE y[2 - Len(x)]
      BY <1>1, <3>1
    <3> QED
      BY <1>1, <3>1, <3>2
  <2> DEFINE w == x \o y
  <2>2. w \in Seq(T) /\ Len(w) = 2 /\ w[1] = c /\ w[2] = d
    BY <2>1
  <2> HIDE DEF w
  <2>3. \A i \in 1 .. Len(z) : z[i] = w[i]
    BY <1>1, <2>2
  <2>4. z = w
    BY <1>1, <2>2, <2>3, SeqEqual
  <2> QED
    BY <2>4 DEF w
<1>3. ASSUME NEW t PROVE Advance(t, z) = Step(Step(t, c), d)
  <2>1. Advance(t, x) = Step(t, c) /\ Advance(Step(t, c), y) = Step(Step(t, c), d)
    BY ReadOne
  <2> HIDE DEF x, y, z, T
  <2> QED
    BY <1>1, <1>2, <2>1, ReadOn
<1>4. ASSUME NEW s PROVE ShellGoes(s, z) = ShellChar(ShellChar(s, c), d)
  <2>1. ShellGoes(s, x) = ShellChar(s, c) /\ ShellGoes(ShellChar(s, c), y) = ShellChar(ShellChar(s, c), d)
    BY ReadOne
  <2> HIDE DEF x, y, z, T
  <2> QED
    BY <1>1, <1>2, <2>1, ReadOn
<1> QED
  BY <1>3, <1>4

-----------------------------------------------------------------------------
(* A tracker that reads a quoted value comes back to where it was.         *)

(* As t is, but for its context, and perhaps after a backslash.            *)
At(t, S, c, escaped) ==
  {u \in Trackers(S) : /\ u.levels = SetContext(t, c).levels
                       /\ u.commandWord = t.commandWord /\ u.reparsing = t.reparsing
                       /\ u.escape = escaped /\ u.token = "none"}

LEMMA AtIs ==
  ASSUME NEW S, NEW t, IsTracker(t, S), NEW c \in Contexts, NEW escaped, NEW u \in At(t, S, c, escaped)
  PROVE  IsTracker(u, S) /\ Context(u) = c
<1>1. IsTracker(SetContext(t, c), S) /\ Context(SetContext(t, c)) = c
  BY SetContextIs
<1> QED
  BY <1>1 DEF At, IsTracker, Context

LEMMA LevelsBack ==
  ASSUME NEW S, NEW t, IsTracker(t, S), NEW c \in Contexts, NEW d \in Contexts,
         NEW u \in Trackers(S), u.levels = SetContext(t, c).levels
  PROVE  SetContext(u, d).levels = SetContext(t, d).levels
<1> DEFINE L == t.levels
           n == Len(L)
           M == [L EXCEPT ![n] = [L[n] EXCEPT !.context = c]]
<1>1. L \in Seq(Levels) /\ n \in 1 .. n /\ L[n] \in Levels /\ t \in Trackers(S)
  BY TopIs DEF IsTracker, Trackers, Last
<1>2. SetContext(t, c).levels = M /\ SetContext(t, d).levels = [L EXCEPT ![n] = [L[n] EXCEPT !.context = d]]
  BY <1>1 DEF SetContext, Trackers
<1>3. [L[n] EXCEPT !.context = c] \in Levels
  <2> DEFINE top == L[n]
  <2>1. top \in Levels
    BY <1>1
  <2> HIDE DEF top
  <2>2. [top EXCEPT !.context = c] \in Levels
    BY <2>1 DEF Levels
  <2> QED
    BY <2>2 DEF top
<1>4. M \in Seq(Levels) /\ Len(M) = n /\ M[n] = [L[n] EXCEPT !.context = c]
      /\ \A i \in 1 .. n : i # n => M[i] = L[i]
  <2> DEFINE e == [L[n] EXCEPT !.context = c]
  <2>1. e \in Levels
    BY <1>3
  <2> HIDE DEF e
  <2>2. [L EXCEPT ![n] = e] \in Seq(Levels) /\ Len([L EXCEPT ![n] = e]) = n /\ [L EXCEPT ![n] = e][n] = e
        /\ \A i \in 1 .. n : i # n => [L EXCEPT ![n] = e][i] = L[i]
    BY <1>1, <2>1, ExceptSeq
  <2> QED
    BY <2>2 DEF e
<1>5. SetContext(u, d).levels = [M EXCEPT ![n] = [M[n] EXCEPT !.context = d]]
  <2> HIDE DEF M
  <2>1. u.levels = M /\ Len(u.levels) = n
    BY <1>2, <1>4
  <2>2. SetContext(u, d).levels = [u.levels EXCEPT ![Len(u.levels)] = [u.levels[Len(u.levels)] EXCEPT !.context = d]]
    BY DEF SetContext, Trackers
  <2> QED
    BY <2>1, <2>2
<1>6. [M[n] EXCEPT !.context = d] = [L[n] EXCEPT !.context = d]
  <2> DEFINE top == L[n]
  <2>1. top \in Levels /\ M[n] = [top EXCEPT !.context = c]
    BY <1>1, <1>4
  <2> HIDE DEF top, M
  <2>2. [[top EXCEPT !.context = c] EXCEPT !.context = d] = [top EXCEPT !.context = d]
    BY <2>1 DEF Levels
  <2> QED
    BY <2>1, <2>2 DEF top
<1>7. [M EXCEPT ![n] = [L[n] EXCEPT !.context = d]] = [L EXCEPT ![n] = [L[n] EXCEPT !.context = d]]
  <2> DEFINE e == [L[n] EXCEPT !.context = d]
             f == [L[n] EXCEPT !.context = c]
  <2>1. M = [L EXCEPT ![n] = f]
    OBVIOUS
  <2> HIDE DEF e, f, M
  <2>2. [M EXCEPT ![n] = e] = [L EXCEPT ![n] = e]
    BY <1>1, <2>1
  <2> QED
    BY <2>2 DEF e
<1> QED
  BY <1>2, <1>5, <1>6, <1>7

LEMMA ContextSet ==
  ASSUME NEW S, NEW t, IsTracker(t, S), NEW c \in Contexts, NEW d \in Contexts, NEW u \in At(t, S, c, FALSE)
  PROVE  /\ SetContext(u, d) \in At(t, S, d, FALSE) /\ InWord(SetContext(u, d)) \in At(t, S, d, FALSE)
         /\ [SetContext(u, d) EXCEPT !.word.opaque = TRUE] \in At(t, S, d, FALSE)
<1> DEFINE v == SetContext(u, d)
<1>1. IsTracker(u, S) /\ u \in Trackers(S) /\ u.levels = SetContext(t, c).levels
  BY AtIs DEF At
<1>2. v.levels = SetContext(t, d).levels
  BY <1>1, LevelsBack
<1>3. IsTracker(v, S) /\ v.escape = u.escape /\ v.token = u.token
      /\ v.commandWord = u.commandWord /\ v.reparsing = u.reparsing
  BY <1>1, SetContextIs
<1> HIDE DEF v
<1>4. v \in At(t, S, d, FALSE)
  BY <1>2, <1>3 DEF At, IsTracker
<1>5. InWord(v) \in At(t, S, d, FALSE)
  BY <1>3, <1>4 DEF At, IsTracker, Trackers, InWord
<1>6. [v EXCEPT !.word.opaque = TRUE] \in At(t, S, d, FALSE)
  <2> DEFINE w == [v.word EXCEPT !.opaque = TRUE]
  <2>1. v \in Trackers(S) /\ w \in Words(S)
    BY <1>3 DEF IsTracker, Trackers, Words
  <2>2. [v EXCEPT !.word.opaque = TRUE] = [v EXCEPT !.word = w]
    BY <2>1 DEF Trackers
  <2> HIDE DEF w
  <2>3. [v EXCEPT !.word = w] \in At(t, S, d, FALSE)
    BY <1>4, <2>1 DEF At, Trackers
  <2> QED
    BY <2>2, <2>3
<1> QED
  BY <1>4, <1>5, <1>6 DEF v

(* Backslashes.                                                            *)
LEMMA Backslashes ==
  ASSUME NEW S, NEW t, IsTracker(t, S), NEW c \in {"bare", "doubleQuoted"}
  PROVE  /\ \A u \in At(t, S, c, FALSE) : Step(u, "bs") \in At(t, S, c, TRUE)
         /\ \A u \in At(t, S, c, TRUE) : \A d : Step(u, d) \in At(t, S, c, FALSE)
<1>0. c \in Contexts
  BY DEF Contexts
<1>1. ASSUME NEW u \in At(t, S, c, FALSE) PROVE Step(u, "bs") \in At(t, S, c, TRUE)
  <2>1. Context(u) = c /\ ~u.escape
    BY <1>0, AtIs DEF At
  <2>2. Step(u, "bs") = [u EXCEPT !.escape = TRUE]
    BY <2>1 DEF Step, StepBare
  <2> QED
    BY <2>2 DEF At, Trackers
<1>2. ASSUME NEW u \in At(t, S, c, TRUE), NEW d PROVE Step(u, d) \in At(t, S, c, FALSE)
  <2> DEFINE ready == [u EXCEPT !.escape = FALSE, !.token = "none"]
             v == [u EXCEPT !.escape = FALSE]
  <2>1. Context(u) = c /\ u.escape
    BY <1>0, AtIs DEF At
  <2>2. Step(u, d) \in {v, Opaque(ready)}
    BY <2>1 DEF Step, StepBare
  <2>3. v \in At(t, S, c, FALSE) /\ ready \in At(t, S, c, FALSE)
    BY DEF At, Trackers
  <2> HIDE DEF ready, v
  <2>4. Opaque(ready) \in At(t, S, c, FALSE)
    <3> DEFINE w == [ready.word EXCEPT !.opaque = TRUE]
    <3>1. ready \in Trackers(S) /\ w \in Words(S)
      BY <2>3 DEF At, Trackers, Words
    <3>2. Opaque(ready) = [ready EXCEPT !.wordStart = FALSE, !.word = w]
      BY <3>1 DEF Opaque, Trackers
    <3> HIDE DEF w
    <3>3. [ready EXCEPT !.wordStart = FALSE, !.word = w] \in At(t, S, c, FALSE)
      BY <2>3, <3>1 DEF At, Trackers
    <3> QED
      BY <3>2, <3>3
  <2> QED
    BY <2>2, <2>3, <2>4
<1> QED
  BY <1>1, <1>2

(* Quotes, and characters that quotes keep.                                *)
LEMMA QuotesRead ==
  ASSUME NEW S, NEW t, IsTracker(t, S)
  PROVE  /\ \A u \in At(t, S, "bare", FALSE) : Step(u, "sq") \in At(t, S, "singleQuoted", FALSE)
         /\ \A u \in At(t, S, "singleQuoted", FALSE) :
              /\ Step(u, "sq") \in At(t, S, "bare", FALSE)
              /\ \A d : d # "sq" => Step(u, d) = u
         /\ \A u \in At(t, S, "comment", FALSE) : \A d : d # "nl" => Step(u, d) = u
         /\ \A u \in At(t, S, "doubleQuoted", FALSE) :
              \A d : d \notin {"bs", "$", "bt", "dq"} => Step(u, d) = u
<1>0. \A c \in Contexts : \A u \in At(t, S, c, FALSE) :
        Context(u) = c /\ u \in Trackers(S) /\ u.escape = FALSE /\ u.token = "none"
  BY AtIs DEF At
<1> DEFINE ready(u) == [u EXCEPT !.escape = FALSE, !.token = "none"]
<1>1. \A u \in Trackers(S) : u.escape = FALSE /\ u.token = "none" => ready(u) = u
  BY DEF Trackers
<1>2. ASSUME NEW u \in At(t, S, "bare", FALSE)
      PROVE  Step(u, "sq") \in At(t, S, "singleQuoted", FALSE)
  <2>1. Context(u) = "bare" /\ u.escape = FALSE /\ u.token = "none" /\ ready(u) = u
    BY <1>0, <1>1 DEF Contexts
  <2>2. Step(u, "sq") = StepChar(ready(u), "sq")
    BY <2>1 DEF Step, StepBare, StepToken
  <2>3. StepChar(u, "sq") = [SetContext(u, "singleQuoted") EXCEPT !.word.opaque = TRUE]
    BY <2>1 DEF StepChar
  <2>4. [SetContext(u, "singleQuoted") EXCEPT !.word.opaque = TRUE] \in At(t, S, "singleQuoted", FALSE)
    BY ContextSet DEF Contexts
  <2> QED
    BY <2>1, <2>2, <2>3, <2>4
<1>3. ASSUME NEW u \in At(t, S, "singleQuoted", FALSE)
      PROVE  Step(u, "sq") \in At(t, S, "bare", FALSE) /\ \A d : d # "sq" => Step(u, d) = u
  <2>1. Context(u) = "singleQuoted"
    BY <1>0 DEF Contexts
  <2>2. Step(u, "sq") = InWord(SetContext(u, "bare")) /\ \A d : d # "sq" => Step(u, d) = u
    BY <2>1 DEF Step
  <2>3. InWord(SetContext(u, "bare")) \in At(t, S, "bare", FALSE)
    BY ContextSet DEF Contexts
  <2> QED
    BY <2>2, <2>3
<1>4. ASSUME NEW u \in At(t, S, "comment", FALSE), NEW d, d # "nl" PROVE Step(u, d) = u
  <2>1. Context(u) = "comment"
    BY <1>0 DEF Contexts
  <2> QED
    BY <1>4, <2>1 DEF Step
<1>5. ASSUME NEW u \in At(t, S, "doubleQuoted", FALSE), NEW d, d \notin {"bs", "$", "bt", "dq"}
      PROVE  Step(u, d) = u
  <2>1. Context(u) = "doubleQuoted" /\ u.escape = FALSE /\ u.token = "none" /\ ready(u) = u
    BY <1>0, <1>1 DEF Contexts
  <2>2. Step(u, d) = StepChar(ready(u), d)
    BY <1>5, <2>1 DEF Step, StepBare, StepToken
  <2>3. StepChar(u, d) = u
    BY <1>5, <2>1 DEF StepChar
  <2> QED
    BY <2>1, <2>2, <2>3
<1> QED
  BY <1>2, <1>3, <1>4, <1>5

-----------------------------------------------------------------------------
(* A quoted value, in each context.                                        *)

(* A shell that has read `word` and found nothing it would act on.         *)
ShellAt(context, escaped, word) == [context : {context}, escape : {escaped}, word : {word}, ok : {TRUE}]

LEMMA ShellQuotes ==
  ASSUME NEW w, NEW d
  PROVE  /\ \A s \in ShellAt("singleQuoted", FALSE, w) :
              ShellChar(s, d) \in IF d = "sq" THEN ShellAt("bare", FALSE, w)
                                  ELSE ShellAt("singleQuoted", FALSE, Append(w, d))
         /\ \A s \in ShellAt("bare", FALSE, w) : ShellChar(s, "sq") \in ShellAt("singleQuoted", FALSE, w)
<1> DEFINE v == Append(w, d)
<1>1. ASSUME NEW s \in ShellAt("singleQuoted", FALSE, w), d = "sq" PROVE ShellChar(s, d) \in ShellAt("bare", FALSE, w)
  <2>1. ShellChar(s, d) = [s EXCEPT !.context = "bare"]
    BY <1>1 DEF ShellChar, ShellAt
  <2> QED
    BY <2>1 DEF ShellAt
<1>2. ASSUME NEW s \in ShellAt("singleQuoted", FALSE, w), d # "sq" PROVE ShellChar(s, d) \in ShellAt("singleQuoted", FALSE, v)
  <2>1. s.context = "singleQuoted" /\ s.word = w
    BY DEF ShellAt
  <2>2. ShellChar(s, d) = [s EXCEPT !.word = Append(s.word, d)]
    BY <1>2, <2>1 DEF ShellChar
  <2>3. ShellChar(s, d) = [s EXCEPT !.word = v]
    BY <2>1, <2>2
  <2> HIDE DEF v
  <2> QED
    BY <2>3 DEF ShellAt
<1>3. ASSUME NEW s \in ShellAt("bare", FALSE, w) PROVE ShellChar(s, "sq") \in ShellAt("singleQuoted", FALSE, w)
  <2>1. s.context = "bare" /\ s.escape = FALSE
    BY DEF ShellAt
  <2>2. ShellChar(s, "sq") = [s EXCEPT !.context = "singleQuoted"]
    BY <2>1 DEF ShellChar
  <2> QED
    BY <2>2 DEF ShellAt
<1> QED
  BY <1>1, <1>2, <1>3

LEMMA ShellBackslashes ==
  ASSUME NEW w, NEW d
  PROVE  /\ \A c \in {"bare", "doubleQuoted"} :
              /\ \A s \in ShellAt(c, FALSE, w) : ShellChar(s, "bs") \in ShellAt(c, TRUE, w)
              /\ \A s \in ShellAt(c, TRUE, w) : ShellChar(s, "nl") \in ShellAt(c, FALSE, w)
         /\ d # "nl" => \A s \in ShellAt("bare", TRUE, w) : ShellChar(s, d) \in ShellAt("bare", FALSE, Append(w, d))
         /\ d \in {"bs", "$", "bt", "dq"} =>
              \A s \in ShellAt("doubleQuoted", TRUE, w) : ShellChar(s, d) \in ShellAt("doubleQuoted", FALSE, Append(w, d))
         /\ d \notin {"bs", "$", "bt", "dq"} =>
              \A s \in ShellAt("doubleQuoted", FALSE, w) : ShellChar(s, d) \in ShellAt("doubleQuoted", FALSE, Append(w, d))
<1> DEFINE v == Append(w, d)
<1>1. ASSUME NEW c \in {"bare", "doubleQuoted"}, NEW s \in ShellAt(c, FALSE, w) PROVE ShellChar(s, "bs") \in ShellAt(c, TRUE, w)
  <2>1. s.context = c /\ s.escape = FALSE
    BY DEF ShellAt
  <2>2. ShellChar(s, "bs") = [s EXCEPT !.escape = TRUE]
    BY <2>1 DEF ShellChar
  <2> QED
    BY <2>2 DEF ShellAt
<1>2. ASSUME NEW c \in {"bare", "doubleQuoted"}, NEW s \in ShellAt(c, TRUE, w) PROVE ShellChar(s, "nl") \in ShellAt(c, FALSE, w)
  <2>1. s.context = c /\ s.escape = TRUE /\ s.word = w
    BY DEF ShellAt
  <2>2. ShellChar(s, "nl") = [s EXCEPT !.escape = FALSE, !.word = s.word]
    BY <2>1 DEF ShellChar
  <2>3. ShellChar(s, "nl") = [s EXCEPT !.escape = FALSE, !.word = w]
    BY <2>1, <2>2
  <2> QED
    BY <2>3 DEF ShellAt
<1>3. ASSUME NEW c \in {"bare", "doubleQuoted"}, NEW s \in ShellAt(c, TRUE, w), d # "nl", c = "bare" \/ d \in {"bs", "$", "bt", "dq"}
      PROVE  ShellChar(s, d) \in ShellAt(c, FALSE, v)
  <2>1. s.context = c /\ s.escape = TRUE /\ s.word = w
    BY DEF ShellAt
  <2>2. ShellChar(s, d) = [s EXCEPT !.escape = FALSE, !.word = Append(s.word, d)]
    BY <1>3, <2>1 DEF ShellChar
  <2>3. ShellChar(s, d) = [s EXCEPT !.escape = FALSE, !.word = v]
    BY <2>1, <2>2
  <2> HIDE DEF v
  <2> QED
    BY <2>3 DEF ShellAt
<1>4. ASSUME NEW s \in ShellAt("doubleQuoted", FALSE, w), d \notin {"bs", "$", "bt", "dq"}
      PROVE  ShellChar(s, d) \in ShellAt("doubleQuoted", FALSE, v)
  <2>1. s.context = "doubleQuoted" /\ s.escape = FALSE /\ s.word = w /\ s.ok = TRUE
    BY DEF ShellAt
  <2>2. ShellChar(s, d) = [s EXCEPT !.word = Append(s.word, d), !.ok = s.ok /\ d \notin {"$", "bt"}]
    BY <1>4, <2>1 DEF ShellChar
  <2>3. (s.ok /\ d \notin {"$", "bt"}) = TRUE
    BY <1>4, <2>1
  <2>4. ShellChar(s, d) = [s EXCEPT !.word = v, !.ok = TRUE]
    BY <2>1, <2>2, <2>3
  <2> HIDE DEF v
  <2>5. [s EXCEPT !.word = v, !.ok = TRUE] \in ShellAt("doubleQuoted", FALSE, v)
    BY DEF ShellAt
  <2> QED
    BY <2>4, <2>5
<1> QED
  BY <1>1, <1>2, <1>3, <1>4

LEMMA ShellComments ==
  ASSUME NEW e, NEW w, NEW s \in ShellAt("comment", e, w), NEW d, d # "nl"
  PROVE  ShellChar(s, d) \in ShellAt("comment", e, w)
<1>1. s.context = "comment" /\ s.ok = TRUE
  BY DEF ShellAt
<1>2. ShellChar(s, d) = [s EXCEPT !.ok = s.ok /\ d # "nl"]
  BY <1>1 DEF ShellChar
<1>3. (s.ok /\ d # "nl") = TRUE
  BY <1>1
<1>4. ShellChar(s, d) = [s EXCEPT !.ok = TRUE]
  BY <1>2, <1>3
<1> QED
  BY <1>4 DEF ShellAt

LEMMA PrefixGrows ==
  ASSUME NEW S, NEW value \in Seq(S)
  PROVE  /\ SubSeq(value, 1, 0) = <<>> /\ SubSeq(value, 1, Len(value)) = value
         /\ \A k \in 1 .. Len(value) : Append(SubSeq(value, 1, k - 1), value[k]) = SubSeq(value, 1, k)
<1>1. Len(value) \in Nat
  OBVIOUS
<1>2. SubSeq(value, 1, 0) = <<>>
  OBVIOUS
<1>3. SubSeq(value, 1, Len(value)) = value
  <2> DEFINE s == SubSeq(value, 1, Len(value))
  <2>1. s \in Seq(S) /\ Len(s) = Len(value) /\ \A i \in 1 .. Len(value) : s[i] = value[i]
    BY SubSeqProperties
  <2> HIDE DEF s
  <2>2. s = value
    BY <2>1, SeqEqual
  <2> QED
    BY <2>2 DEF s
<1>4. ASSUME NEW k \in 1 .. Len(value) PROVE Append(SubSeq(value, 1, k - 1), value[k]) = SubSeq(value, 1, k)
  <2> DEFINE a == SubSeq(value, 1, k - 1)
             b == SubSeq(value, 1, k)
             c == Append(a, value[k])
  <2>1. a \in Seq(S) /\ Len(a) = k - 1 /\ \A i \in 1 .. k - 1 : a[i] = value[i]
    BY SubSeqProperties
  <2>2. b \in Seq(S) /\ Len(b) = k /\ \A i \in 1 .. k : b[i] = value[i]
    BY SubSeqProperties
  <2>3. value[k] \in S
    BY ElementOfSeq
  <2> HIDE DEF a, b
  <2>4. c \in Seq(S) /\ Len(c) = k /\ c[k] = value[k] /\ \A i \in 1 .. k - 1 : c[i] = value[i]
    BY <2>1, <2>3, AppendProperties
  <2> HIDE DEF c
  <2>5. \A i \in 1 .. k : c[i] = b[i]
    BY <2>2, <2>4
  <2>6. c = b
    BY <2>2, <2>4, <2>5, SeqEqual
  <2> QED
    BY <2>6 DEF a, b, c
<1> QED
  BY <1>2, <1>3, <1>4

LEMMA EscapedQuoteGoes ==
  /\ \A t : Advance(t, EscapedQuote) = Step(Step(Step(Step(t, "sq"), "bs"), "sq"), "sq")
  /\ \A s : ShellGoes(s, EscapedQuote) = ShellChar(ShellChar(ShellChar(ShellChar(s, "sq"), "bs"), "sq"), "sq")
<1> DEFINE T == {"sq", "bs"}
           x == <<"sq", "bs">>
           y == <<"sq", "sq">>
           z == EscapedQuote
<1>1. x \in Seq(T) /\ y \in Seq(T) /\ z \in Seq(T) /\ Len(x) = 2 /\ Len(y) = 2 /\ Len(z) = 4
      /\ x[1] = "sq" /\ x[2] = "bs" /\ y[1] = "sq" /\ y[2] = "sq" /\ z[1] = "sq" /\ z[2] = "bs" /\ z[3] = "sq" /\ z[4] = "sq"
  BY DEF EscapedQuote
<1>2. z = x \o y
  <2> DEFINE w == x \o y
  <2> HIDE DEF x, y, z, T
  <2>1. x \o y \in Seq(T) /\ Len(x \o y) = 4 /\ (x \o y)[1] = "sq" /\ (x \o y)[2] = "bs"
        /\ (x \o y)[2 + 1] = "sq" /\ (x \o y)[2 + 2] = "sq"
    BY <1>1, ConcatProperties
  <2>2. w[1] = "sq" /\ w[2] = "bs" /\ w[2 + 1] = "sq" /\ w[2 + 2] = "sq"
    BY <2>1
  <2>5. w \in Seq(T) /\ Len(w) = 4
    BY <2>1
  <2> HIDE DEF w
  <2>3. \A i \in 1 .. Len(z) : z[i] = w[i]
    <3>1. \A i \in 1 .. Len(z) : i = 1 \/ i = 2 \/ i = 2 + 1 \/ i = 2 + 2
      BY <1>1
    <3> QED
      BY <1>1, <2>2, <3>1
  <2>4. z = w
    BY <1>1, <2>5, <2>3, SeqEqual
  <2> QED
    BY <2>4 DEF w
<1>3. ASSUME NEW t PROVE Advance(t, z) = Step(Step(Step(Step(t, "sq"), "bs"), "sq"), "sq")
  <2> DEFINE m == Step(Step(t, "sq"), "bs")
  <2>1. Advance(t, x) = m
    BY ReadTwo
  <2>2. Advance(m, y) = Step(Step(m, "sq"), "sq")
    BY ReadTwo
  <2> HIDE DEF x, y, z, T, m
  <2>3. Advance(t, z) = Step(Step(m, "sq"), "sq")
    BY <1>1, <1>2, <2>1, <2>2, ReadOn
  <2> QED
    BY <2>3 DEF m
<1>4. ASSUME NEW s PROVE ShellGoes(s, z) = ShellChar(ShellChar(ShellChar(ShellChar(s, "sq"), "bs"), "sq"), "sq")
  <2> DEFINE m == ShellChar(ShellChar(s, "sq"), "bs")
  <2>1. ShellGoes(s, x) = m
    BY ReadTwo
  <2>2. ShellGoes(m, y) = ShellChar(ShellChar(m, "sq"), "sq")
    BY ReadTwo
  <2> HIDE DEF x, y, z, T, m
  <2>3. ShellGoes(s, z) = ShellChar(ShellChar(m, "sq"), "sq")
    BY <1>1, <1>2, <2>1, <2>2, ReadOn
  <2> QED
    BY <2>3 DEF m
<1> QED
  BY <1>3, <1>4

LEMMA EscapedQuoteRead ==
  /\ \A S, t : IsTracker(t, S) =>
       \A u \in At(t, S, "singleQuoted", FALSE) : Advance(u, EscapedQuote) \in At(t, S, "singleQuoted", FALSE)
  /\ \A w : \A s \in ShellAt("singleQuoted", FALSE, w) :
       ShellGoes(s, EscapedQuote) \in ShellAt("singleQuoted", FALSE, Append(w, "sq"))
<1>1. ASSUME NEW S, NEW t, IsTracker(t, S), NEW u \in At(t, S, "singleQuoted", FALSE)
      PROVE  Advance(u, EscapedQuote) \in At(t, S, "singleQuoted", FALSE)
  <2>1. Step(u, "sq") \in At(t, S, "bare", FALSE)
    BY <1>1, QuotesRead
  <2>2. Step(Step(u, "sq"), "bs") \in At(t, S, "bare", TRUE)
    BY <1>1, <2>1, Backslashes
  <2>3. Step(Step(Step(u, "sq"), "bs"), "sq") \in At(t, S, "bare", FALSE)
    BY <1>1, <2>2, Backslashes
  <2>4. Step(Step(Step(Step(u, "sq"), "bs"), "sq"), "sq") \in At(t, S, "singleQuoted", FALSE)
    BY <1>1, <2>3, QuotesRead
  <2> QED
    BY <2>4, EscapedQuoteGoes
<1>2. ASSUME NEW w, NEW s \in ShellAt("singleQuoted", FALSE, w)
      PROVE  ShellGoes(s, EscapedQuote) \in ShellAt("singleQuoted", FALSE, Append(w, "sq"))
  <2> DEFINE v == Append(w, "sq")
  <2>1. ShellChar(s, "sq") \in ShellAt("bare", FALSE, w)
    BY ShellQuotes
  <2>2. ShellChar(ShellChar(s, "sq"), "bs") \in ShellAt("bare", TRUE, w)
    BY <2>1, ShellBackslashes
  <2>3. ShellChar(ShellChar(ShellChar(s, "sq"), "bs"), "sq") \in ShellAt("bare", FALSE, v)
    BY <2>2, ShellBackslashes
  <2> HIDE DEF v
  <2>4. ShellChar(ShellChar(ShellChar(ShellChar(s, "sq"), "bs"), "sq"), "sq") \in ShellAt("singleQuoted", FALSE, v)
    BY <2>3, ShellQuotes
  <2> QED
    BY <2>4, EscapedQuoteGoes DEF v
<1> QED
  BY <1>1, <1>2

(* A value whose characters are replaced one by one.                       *)
LEMMA ValueRead ==
  ASSUME NEW S, NEW value \in Seq(S), NEW seqs \in Seq(Seq(S)), Len(seqs) = Len(value), NEW A, NEW c,
         \A k \in 1 .. Len(value) : \A u \in A : Advance(u, seqs[k]) \in A,
         \A k \in 1 .. Len(value) : \A w : \A s \in ShellAt(c, FALSE, w) :
           ShellGoes(s, seqs[k]) \in ShellAt(c, FALSE, Append(w, value[k]))
  PROVE  /\ FlattenSeq(seqs) \in Seq(S)
         /\ \A u \in A : Advance(u, FlattenSeq(seqs)) \in A
         /\ \A s \in ShellAt(c, FALSE, <<>>) : ShellGoes(s, FlattenSeq(seqs)) \in ShellAt(c, FALSE, value)
<1> DEFINE n == Len(value)
           P == [k \in 0 .. n |-> A]
           R(k) == ShellAt(c, FALSE, SubSeq(value, 1, k))
           Q == [k \in 0 .. n |-> R(k)]
<1>1. n \in Nat /\ \A k \in 1 .. n : k - 1 \in 0 .. n /\ k \in 0 .. n
  OBVIOUS
<1>2. P[0] = A /\ P[n] = A /\ \A k \in 1 .. n : P[k - 1] = A /\ P[k] = A
  BY <1>1
<1>3. Q[0] = R(0) /\ Q[n] = R(n) /\ \A k \in 1 .. n : Q[k - 1] = R(k - 1) /\ Q[k] = R(k)
  <2> HIDE DEF R
  <2> QED
    BY <1>1
<1>4. Q[0] = ShellAt(c, FALSE, <<>>) /\ Q[n] = ShellAt(c, FALSE, value)
  BY <1>3, PrefixGrows
<1>5. \A k \in 1 .. n : \A u \in P[k - 1] : Advance(u, seqs[k]) \in P[k]
  BY <1>2
<1>6. ASSUME NEW k \in 1 .. n, NEW s \in Q[k - 1] PROVE ShellGoes(s, seqs[k]) \in Q[k]
  <2> DEFINE w == SubSeq(value, 1, k - 1)
  <2>1. s \in ShellAt(c, FALSE, w)
    BY <1>3
  <2>2. Append(w, value[k]) = SubSeq(value, 1, k)
    BY PrefixGrows
  <2> HIDE DEF w
  <2>3. ShellGoes(s, seqs[k]) \in ShellAt(c, FALSE, Append(w, value[k]))
    BY <2>1
  <2> QED
    BY <1>3, <2>2, <2>3
<1> HIDE DEF P, Q, n
<1>7. ASSUME NEW u \in A PROVE FlattenSeq(seqs) \in Seq(S) /\ Advance(u, FlattenSeq(seqs)) \in A
  <2>1. u \in P[0]
    BY <1>2
  <2>2. FlattenSeq(seqs) \in Seq(S) /\ Advance(u, FlattenSeq(seqs)) \in P[Len(seqs)]
    BY <1>5, <2>1, PiecesRead DEF n
  <2> QED
    BY <1>2, <2>2 DEF n
<1>8. ASSUME NEW s \in ShellAt(c, FALSE, <<>>)
      PROVE  FlattenSeq(seqs) \in Seq(S) /\ ShellGoes(s, FlattenSeq(seqs)) \in ShellAt(c, FALSE, value)
  <2>1. s \in Q[0]
    BY <1>4
  <2>2. FlattenSeq(seqs) \in Seq(S) /\ ShellGoes(s, FlattenSeq(seqs)) \in Q[Len(seqs)]
    BY <1>6, <2>1, PiecesShell DEF n
  <2> QED
    BY <1>4, <2>2 DEF n
<1>9. [context |-> c, escape |-> FALSE, word |-> <<>>, ok |-> TRUE] \in ShellAt(c, FALSE, <<>>)
  BY DEF ShellAt
<1> QED
  BY <1>7, <1>8, <1>9

LEMMA SubstitutedPieces ==
  ASSUME NEW S, NEW value \in Seq(S), NEW c, NEW by \in Seq(S)
  PROVE  \E seqs \in Seq(Seq(S)) :
           /\ Substituted(value, c, by) = FlattenSeq(seqs) /\ Len(seqs) = Len(value)
           /\ \A k \in 1 .. Len(value) : seqs[k] = IF value[k] = c THEN by ELSE <<value[k]>>
<1> DEFINE seqs == [i \in DOMAIN value |-> IF value[i] = c THEN by ELSE <<value[i]>>]
<1>1. DOMAIN value = 1 .. Len(value) /\ Len(value) \in Nat /\ \A i \in 1 .. Len(value) : value[i] \in S
  BY ElementOfSeq
<1>2. \A d \in S : <<d>> \in Seq(S)
  OBVIOUS
<1>3. seqs \in Seq(Seq(S)) /\ Len(seqs) = Len(value)
  BY <1>1, <1>2
<1>4. \A k \in 1 .. Len(value) : seqs[k] = IF value[k] = c THEN by ELSE <<value[k]>>
  BY <1>1
<1>5. Substituted(value, c, by) = FlattenSeq(seqs)
  BY DEF Substituted
<1> HIDE DEF seqs
<1> QED
  BY <1>3, <1>4, <1>5

(* Single quotes: every quote leaves them and comes back.                  *)
LEMMA SingleQuotedValue ==
  ASSUME NEW S, {"sq", "bs"} \subseteq S, NEW t, IsTracker(t, S), NEW value \in Seq(S)
  PROVE  LET q == Substituted(value, "sq", EscapedQuote)
             A == At(t, S, "singleQuoted", FALSE)
         IN /\ q \in Seq(S)
            /\ \A u \in A : Advance(u, q) \in A
            /\ \A s \in ShellAt("singleQuoted", FALSE, <<>>) : ShellGoes(s, q) \in ShellAt("singleQuoted", FALSE, value)
<1> DEFINE A == At(t, S, "singleQuoted", FALSE)
<1>1. EscapedQuote \in Seq(S)
  BY DEF EscapedQuote
<1>2. PICK seqs \in Seq(Seq(S)) :
        /\ Substituted(value, "sq", EscapedQuote) = FlattenSeq(seqs) /\ Len(seqs) = Len(value)
        /\ \A k \in 1 .. Len(value) : seqs[k] = IF value[k] = "sq" THEN EscapedQuote ELSE <<value[k]>>
  BY <1>1, SubstitutedPieces
<1>3. ASSUME NEW k \in 1 .. Len(value), NEW u \in A PROVE Advance(u, seqs[k]) \in A
  <2>1. CASE value[k] = "sq"
    BY <1>2, <2>1, EscapedQuoteRead
  <2>2. CASE value[k] # "sq"
    <3>1. Advance(u, <<value[k]>>) = Step(u, value[k])
      BY ReadOne
    <3>2. Step(u, value[k]) = u
      BY <2>2, QuotesRead
    <3> QED
      BY <1>2, <2>2, <3>1, <3>2
  <2> QED
    BY <2>1, <2>2
<1>4. ASSUME NEW k \in 1 .. Len(value), NEW w, NEW s \in ShellAt("singleQuoted", FALSE, w)
      PROVE  ShellGoes(s, seqs[k]) \in ShellAt("singleQuoted", FALSE, Append(w, value[k]))
  <2>1. CASE value[k] = "sq"
    <3>1. ShellGoes(s, EscapedQuote) \in ShellAt("singleQuoted", FALSE, Append(w, "sq"))
      BY EscapedQuoteRead
    <3> QED
      BY <1>2, <2>1, <3>1
  <2>2. CASE value[k] # "sq"
    <3>1. ShellGoes(s, <<value[k]>>) = ShellChar(s, value[k])
      BY ReadOne
    <3>2. ShellChar(s, value[k]) \in ShellAt("singleQuoted", FALSE, Append(w, value[k]))
      BY <2>2, ShellQuotes
    <3> QED
      BY <1>2, <2>2, <3>1, <3>2
  <2> QED
    BY <2>1, <2>2
<1> DEFINE q == FlattenSeq(seqs)
<1>5. /\ q \in Seq(S) /\ \A u \in A : Advance(u, q) \in A
      /\ \A s \in ShellAt("singleQuoted", FALSE, <<>>) : ShellGoes(s, q) \in ShellAt("singleQuoted", FALSE, value)
  <2> HIDE DEF A
  <2> QED
    BY <1>2, <1>3, <1>4, ValueRead
<1> QED
  BY <1>2, <1>5

(* Double quotes: a backslash before what the shell acts on.               *)
LEMMA DoubleQuotedValue ==
  ASSUME NEW S, {"sq", "bs"} \subseteq S, NEW t, IsTracker(t, S), NEW value \in Seq(S)
  PROVE  LET q == FlattenSeq([i \in DOMAIN value |->
                    IF value[i] \in {"bs", "$", "bt", "dq"} THEN <<"bs", value[i]>> ELSE <<value[i]>>])
             A == At(t, S, "doubleQuoted", FALSE)
         IN /\ q \in Seq(S)
            /\ \A u \in A : Advance(u, q) \in A
            /\ \A s \in ShellAt("doubleQuoted", FALSE, <<>>) : ShellGoes(s, q) \in ShellAt("doubleQuoted", FALSE, value)
<1> DEFINE A == At(t, S, "doubleQuoted", FALSE)
           special == {"bs", "$", "bt", "dq"}
           seqs == [i \in DOMAIN value |-> IF value[i] \in special THEN <<"bs", value[i]>> ELSE <<value[i]>>]
           q == FlattenSeq(seqs)
<1>1. DOMAIN value = 1 .. Len(value) /\ Len(value) \in Nat /\ \A i \in 1 .. Len(value) : value[i] \in S
  BY ElementOfSeq
<1>2. \A d \in S : <<d>> \in Seq(S) /\ <<"bs", d>> \in Seq(S)
  OBVIOUS
<1>3. \A k \in 1 .. Len(value) : seqs[k] = IF value[k] \in special THEN <<"bs", value[k]>> ELSE <<value[k]>>
  BY <1>1
<1>4. seqs \in Seq(Seq(S)) /\ Len(seqs) = Len(value)
  <2> HIDE DEF special
  <2> QED
    BY <1>1, <1>2
<1>5. ASSUME NEW k \in 1 .. Len(value), NEW u \in A PROVE Advance(u, seqs[k]) \in A
  <2> DEFINE d == value[k]
  <2>1. CASE d \in special
    <3>1. Advance(u, <<"bs", d>>) = Step(Step(u, "bs"), d)
      BY ReadTwo
    <3>2. Step(u, "bs") \in At(t, S, "doubleQuoted", TRUE)
      BY Backslashes
    <3>3. Step(Step(u, "bs"), d) \in A
      BY <3>2, Backslashes
    <3> QED
      BY <1>3, <2>1, <3>1, <3>3
  <2>2. CASE d \notin special
    <3>1. Advance(u, <<d>>) = Step(u, d)
      BY ReadOne
    <3>2. Step(u, d) = u
      BY <2>2, QuotesRead
    <3> QED
      BY <1>3, <2>2, <3>1, <3>2
  <2> QED
    BY <2>1, <2>2
<1>6. ASSUME NEW k \in 1 .. Len(value), NEW w, NEW s \in ShellAt("doubleQuoted", FALSE, w)
      PROVE  ShellGoes(s, seqs[k]) \in ShellAt("doubleQuoted", FALSE, Append(w, value[k]))
  <2> DEFINE d == value[k]
             v == Append(w, d)
  <2>1. CASE d \in special
    <3>1. ShellGoes(s, <<"bs", d>>) = ShellChar(ShellChar(s, "bs"), d)
      BY ReadTwo
    <3>2. ShellChar(s, "bs") \in ShellAt("doubleQuoted", TRUE, w)
      BY ShellBackslashes
    <3>3. ShellChar(ShellChar(s, "bs"), d) \in ShellAt("doubleQuoted", FALSE, v)
      BY <2>1, <3>2, ShellBackslashes
    <3> QED
      BY <1>3, <2>1, <3>1, <3>3
  <2>2. CASE d \notin special
    <3>1. ShellGoes(s, <<d>>) = ShellChar(s, d)
      BY ReadOne
    <3>2. ShellChar(s, d) \in ShellAt("doubleQuoted", FALSE, v)
      BY <2>2, ShellBackslashes
    <3> QED
      BY <1>3, <2>2, <3>1, <3>2
  <2> QED
    BY <2>1, <2>2
<1>7. /\ q \in Seq(S) /\ \A u \in A : Advance(u, q) \in A
      /\ \A s \in ShellAt("doubleQuoted", FALSE, <<>>) : ShellGoes(s, q) \in ShellAt("doubleQuoted", FALSE, value)
  <2> HIDE DEF A, seqs
  <2> QED
    BY <1>4, <1>5, <1>6, ValueRead
<1> QED
  BY <1>7

(* Comments: no line ends.                                                 *)
LEMMA CommentedValue ==
  ASSUME NEW S, {"sq", "sp"} \subseteq S, NEW t, IsTracker(t, S), NEW value \in Seq(S)
  PROVE  LET q == Substituted(value, "nl", <<"sp">>)
             A == At(t, S, "comment", FALSE)
             B == ShellAt("comment", FALSE, <<>>)
         IN /\ q \in Seq(S) /\ (\A u \in A : Advance(u, q) \in A) /\ \A s \in B : ShellGoes(s, q) \in B
<1> DEFINE A == At(t, S, "comment", FALSE)
           B == ShellAt("comment", FALSE, <<>>)
           n == Len(value)
           P == [k \in 0 .. n |-> A]
           Q == [k \in 0 .. n |-> B]
<1>1. n \in Nat /\ <<"sp">> \in Seq(S) /\ \A k \in 1 .. n : k - 1 \in 0 .. n /\ k \in 0 .. n
  OBVIOUS
<1>2. PICK seqs \in Seq(Seq(S)) :
        /\ Substituted(value, "nl", <<"sp">>) = FlattenSeq(seqs) /\ Len(seqs) = Len(value)
        /\ \A k \in 1 .. Len(value) : seqs[k] = IF value[k] = "nl" THEN <<"sp">> ELSE <<value[k]>>
  <2> DEFINE blank == <<"sp">>
  <2>1. blank \in Seq(S)
    BY <1>1
  <2> HIDE DEF blank
  <2>2. \E seqs \in Seq(Seq(S)) :
          /\ Substituted(value, "nl", blank) = FlattenSeq(seqs) /\ Len(seqs) = Len(value)
          /\ \A k \in 1 .. Len(value) : seqs[k] = IF value[k] = "nl" THEN blank ELSE <<value[k]>>
    BY <2>1, SubstitutedPieces
  <2> QED
    BY <2>2 DEF blank
<1>3. \A k \in 1 .. n : \E d : d # "nl" /\ seqs[k] = <<d>>
  <2> SUFFICES ASSUME NEW k \in 1 .. n PROVE \E d : d # "nl" /\ seqs[k] = <<d>>
    OBVIOUS
  <2>1. CASE value[k] = "nl"
    BY <1>2, <2>1
  <2>2. CASE value[k] # "nl"
    BY <1>2, <2>2
  <2> QED
    BY <2>1, <2>2
<1>4. ASSUME NEW k \in 1 .. n
      PROVE  (\A u \in A : Advance(u, seqs[k]) \in A) /\ \A s \in B : ShellGoes(s, seqs[k]) \in B
  <2> PICK d : d # "nl" /\ seqs[k] = <<d>>
    BY <1>3
  <2>1. \A u \in A : Advance(u, <<d>>) \in A
    <3> TAKE u \in A
    <3>1. Advance(u, <<d>>) = Step(u, d)
      BY ReadOne
    <3>2. Step(u, d) = u
      BY QuotesRead
    <3> QED
      BY <3>1, <3>2
  <2>2. \A s \in B : ShellGoes(s, <<d>>) \in B
    <3> TAKE s \in B
    <3>1. ShellGoes(s, <<d>>) = ShellChar(s, d)
      BY ReadOne
    <3>2. ShellChar(s, d) \in B
      BY ShellComments
    <3> QED
      BY <3>1, <3>2
  <2> QED
    BY <2>1, <2>2
<1>5. /\ P[0] = A /\ P[n] = A /\ \A k \in 1 .. n : P[k - 1] = A /\ P[k] = A
      /\ Q[0] = B /\ Q[n] = B /\ \A k \in 1 .. n : Q[k - 1] = B /\ Q[k] = B
  <2> HIDE DEF A, B
  <2> QED
    BY <1>1
<1> HIDE DEF A, P, Q, n
<1>6. ASSUME NEW u \in A PROVE Advance(u, FlattenSeq(seqs)) \in A
  <2>1. u \in P[0] /\ \A k \in 1 .. Len(seqs) : \A v \in P[k - 1] : Advance(v, seqs[k]) \in P[k]
    BY <1>2, <1>4, <1>5 DEF n
  <2>2. Advance(u, FlattenSeq(seqs)) \in P[Len(seqs)]
    BY <2>1, PiecesRead
  <2> QED
    BY <1>2, <1>5, <2>2 DEF n
<1>7. ASSUME NEW s \in B PROVE FlattenSeq(seqs) \in Seq(S) /\ ShellGoes(s, FlattenSeq(seqs)) \in B
  <2> HIDE DEF B
  <2>1. s \in Q[0] /\ \A k \in 1 .. Len(seqs) : \A v \in Q[k - 1] : ShellGoes(v, seqs[k]) \in Q[k]
    BY <1>2, <1>4, <1>5 DEF n
  <2>2. FlattenSeq(seqs) \in Seq(S) /\ ShellGoes(s, FlattenSeq(seqs)) \in Q[Len(seqs)]
    BY <2>1, PiecesShell
  <2> QED
    BY <1>2, <1>5, <2>2 DEF n
<1>8. [context |-> "comment", escape |-> FALSE, word |-> <<>>, ok |-> TRUE] \in B
  BY DEF ShellAt
<1> QED
  BY <1>2, <1>6, <1>7, <1>8 DEF A

(* Outside quotes: single quotes around the value.                         *)
LEMMA BareValue ==
  ASSUME NEW S, {"sq", "bs"} \subseteq S, NEW t, IsTracker(t, S), NEW value \in Seq(S)
  PROVE  LET q == <<"sq">> \o Substituted(value, "sq", EscapedQuote) \o <<"sq">>
             A == At(t, S, "bare", FALSE)
         IN /\ q \in Seq(S)
            /\ \A u \in A : Advance(u, q) \in A
            /\ \A s \in ShellAt("bare", FALSE, <<>>) : ShellGoes(s, q) \in ShellAt("bare", FALSE, value)
<1> DEFINE x == <<"sq">>
           y == Substituted(value, "sq", EscapedQuote)
           z == x \o y
           q == z \o x
<1>1. x \in Seq(S)
  OBVIOUS
<1>2. /\ y \in Seq(S)
      /\ \A u \in At(t, S, "singleQuoted", FALSE) : Advance(u, y) \in At(t, S, "singleQuoted", FALSE)
      /\ \A s \in ShellAt("singleQuoted", FALSE, <<>>) : ShellGoes(s, y) \in ShellAt("singleQuoted", FALSE, value)
  BY SingleQuotedValue
<1>3. (\A u : Advance(u, x) = Step(u, "sq")) /\ \A s : ShellGoes(s, x) = ShellChar(s, "sq")
  BY ReadOne
<1> HIDE DEF x, y
<1>4. z \in Seq(S)
  BY <1>1, <1>2, ConcatProperties
<1>5. /\ \A u : Advance(u, z) = Advance(Step(u, "sq"), y)
      /\ \A s : ShellGoes(s, z) = ShellGoes(ShellChar(s, "sq"), y)
  BY <1>1, <1>2, <1>3, ReadOn
<1> HIDE DEF z
<1>6. q \in Seq(S)
  BY <1>1, <1>4, ConcatProperties
<1>7. /\ \A u : Advance(u, q) = Step(Advance(Step(u, "sq"), y), "sq")
      /\ \A s : ShellGoes(s, q) = ShellChar(ShellGoes(ShellChar(s, "sq"), y), "sq")
  BY <1>1, <1>3, <1>4, <1>5, ReadOn
<1>8. \A u \in At(t, S, "bare", FALSE) : Advance(u, q) \in At(t, S, "bare", FALSE)
  BY <1>2, <1>7, QuotesRead
<1>9. ASSUME NEW s \in ShellAt("bare", FALSE, <<>>) PROVE ShellGoes(s, q) \in ShellAt("bare", FALSE, value)
  <2> HIDE DEF q
  <2>1. ShellChar(s, "sq") \in ShellAt("singleQuoted", FALSE, <<>>)
    BY ShellQuotes
  <2>2. ShellGoes(ShellChar(s, "sq"), y) \in ShellAt("singleQuoted", FALSE, value)
    BY <1>2, <2>1
  <2>3. ShellChar(ShellGoes(ShellChar(s, "sq"), y), "sq") \in ShellAt("bare", FALSE, value)
    BY <2>2, ShellQuotes
  <2> QED
    BY <1>7, <2>3
<1> QED
  BY <1>6, <1>8, <1>9 DEF x, y, z, q

(* In any context.                                                         *)
LEMMA QuotedValue ==
  ASSUME NEW S, {"sq", "bs", "sp"} \subseteq S, NEW t, IsTracker(t, S), NEW value \in Seq(S)
  PROVE  LET q == QuoteInContext(t, value)
             c == Context(t)
         IN /\ q \in Seq(S)
            /\ \A u \in At(t, S, c, FALSE) : Advance(u, q) \in At(t, S, c, FALSE)
            /\ \A s \in ShellAt(c, FALSE, <<>>) :
                 ShellGoes(s, q) \in ShellAt(c, FALSE, IF c = "comment" THEN <<>> ELSE value)
<1> DEFINE q == QuoteInContext(t, value)
           c == Context(t)
<1>1. c \in {"bare", "singleQuoted", "doubleQuoted", "comment"}
  BY TopIs DEF Context, Levels, Contexts
<1>2. CASE c = "bare"
  <2>1. q = <<"sq">> \o Substituted(value, "sq", EscapedQuote) \o <<"sq">>
    BY <1>2 DEF QuoteInContext
  <2> HIDE DEF c
  <2> QED
    BY <1>2, <2>1, BareValue DEF c
<1>3. CASE c = "singleQuoted"
  <2>1. q = Substituted(value, "sq", EscapedQuote)
    BY <1>3 DEF QuoteInContext
  <2> QED
    BY <1>3, <2>1, SingleQuotedValue
<1>4. CASE c = "doubleQuoted"
  <2>1. q = FlattenSeq([i \in DOMAIN value |->
              IF value[i] \in {"bs", "$", "bt", "dq"} THEN <<"bs", value[i]>> ELSE <<value[i]>>])
    BY <1>4 DEF QuoteInContext
  <2> QED
    BY <1>4, <2>1, DoubleQuotedValue
<1>5. CASE c = "comment"
  <2>1. q = Substituted(value, "nl", <<"sp">>)
    BY <1>5 DEF QuoteInContext
  <2> QED
    BY <1>5, <2>1, CommentedValue
<1> QED
  BY <1>1, <1>2, <1>3, <1>4, <1>5

(* Where the tracker lets a value stand, no token is open before it.       *)
LEMMA NothingOpen ==
  ASSUME NEW S, NEW t, IsTracker(t, S), Settled(t), Unsupported(t) = "none"
  PROVE  /\ t.token = "none" /\ Context(t) \in Contexts
         /\ t.escape => Context(t) \in {"bare", "doubleQuoted"}
         /\ t \in At(t, S, Context(t), t.escape)
<1>1. Context(t) \in Contexts
  BY TopIs DEF Context, Levels
<1>2. t.token = "none"
  <2>1. CASE Context(t) = "singleQuoted"
    BY <2>1 DEF Settled, Ready
  <2>2. CASE Context(t) # "singleQuoted"
    <3>1. t.token \in {"none", "dollar", "dollarParen", "less", "redirect"}
      BY DEF IsTracker, Trackers
    <3> QED
      BY <2>2, <3>1 DEF Unsupported
  <2> QED
    BY <2>1, <2>2
<1>3. t.escape => Context(t) \in {"bare", "doubleQuoted"}
  BY <1>1 DEF Settled, Ready, Contexts
<1>4. SetContext(t, Context(t)).levels = t.levels
  <2> DEFINE L == t.levels
             n == Len(L)
             top == L[n]
  <2>1. L \in Seq(Levels) /\ n \in 1 .. n /\ top \in Levels /\ t \in Trackers(S)
    BY TopIs DEF IsTracker, Trackers, Last
  <2>2. SetContext(t, Context(t)).levels = [L EXCEPT ![n] = [top EXCEPT !.context = top.context]]
    BY <2>1 DEF SetContext, Context, Trackers, Last
  <2> HIDE DEF top
  <2>3. [top EXCEPT !.context = top.context] = top
    BY <2>1 DEF Levels
  <2> HIDE DEF L, n
  <2>4. [L EXCEPT ![n] = top] = L
    BY <2>1 DEF top
  <2> QED
    BY <2>2, <2>3, <2>4 DEF L
<1>5. t \in At(t, S, Context(t), t.escape)
  BY <1>2, <1>4 DEF At, IsTracker
<1> QED
  BY <1>1, <1>2, <1>3, <1>5

(* Wherever the code lets a value of a notification stand in a command,    *)
(* after any text: a shell that is in the context the tracker has arrived  *)
(* at, an escape before the placeholder included, reads exactly that value *)
(* from what quote puts there, be its characters what they may, and both   *)
(* the shell and the tracker go on in that context.  Whether a shell is in *)
(* that context is not part of it.                                         *)
THEOREM QuotedValuesReadBack ==
  ASSUME NEW S, NEW before \in Seq(S), NEW values \in SUBSET Seq(S)
  PROVE  ReadBack(before, values)
<1> DEFINE T == S \cup {"sq", "bs", "sp", "nl"}
           t == Before(before)
           c == Context(t)
           start == [context |-> c, escape |-> t.escape, word |-> <<>>, ok |-> TRUE]
<1>1. before \in Seq(T) /\ \A value \in values : value \in Seq(T)
  OBVIOUS
<1>2. {"sq", "bs", "sp"} \subseteq T /\ "nl" \in T
  OBVIOUS
<1> HIDE DEF T
<1>3. IsTracker(t, T) /\ Settled(t)
  BY <1>1, BeforeIs
<1> HIDE DEF t
<1> SUFFICES ASSUME Unsupported(t) = "none", NEW value \in values
             PROVE  LET read  == ShellReads(t, Quote(t, value))
                        after == AdvanceValue(t, Quote(t, value))
                    IN /\ read.ok /\ ~read.escape /\ read.context = c
                       /\ c # "comment" => read.word = value
                       /\ ~after.escape /\ after.token = "none"
                       /\ <<after.levels, after.commandWord, after.reparsing>>
                            = <<t.levels, t.commandWord, t.reparsing>>
  BY DEF ReadBack, t
<1> DEFINE x == IF t.escape /\ c # "singleQuoted" THEN <<"nl">> ELSE <<>>
           y == QuoteInContext(t, value)
           z == x \o y
           A == At(t, T, c, FALSE)
           word == IF c = "comment" THEN <<>> ELSE value
           u == Advance(t, z)
           s == ShellGoes(start, z)
<1>4. Quote(t, value) = z
  BY DEF Quote
<1>5. /\ t.token = "none" /\ c \in Contexts /\ t \in At(t, T, c, t.escape)
      /\ t.escape => c \in {"bare", "doubleQuoted"}
  BY <1>3, NothingOpen
<1>6. t.escape \in BOOLEAN
  BY <1>3 DEF IsTracker, Trackers
<1>7. x \in Seq(T)
  BY <1>2
<1>8. /\ y \in Seq(T) /\ (\A v \in A : Advance(v, y) \in A)
      /\ \A r \in ShellAt(c, FALSE, <<>>) : ShellGoes(r, y) \in ShellAt(c, FALSE, word)
  BY <1>1, <1>2, <1>3, QuotedValue
<1>9. Advance(t, x) \in A /\ ShellGoes(start, x) \in ShellAt(c, FALSE, <<>>)
  <2>1. start \in ShellAt(c, t.escape, <<>>)
    BY DEF ShellAt
  <2>2. CASE t.escape
    <3>1. x = <<"nl">> /\ t.escape = TRUE /\ c \in {"bare", "doubleQuoted"}
      BY <1>5, <2>2
    <3> HIDE DEF start, c
    <3>2. Step(t, "nl") \in A
      BY <1>3, <1>5, <3>1, Backslashes
    <3>3. ShellChar(start, "nl") \in ShellAt(c, FALSE, <<>>)
      BY <2>1, <3>1, ShellBackslashes
    <3>4. Advance(t, <<"nl">>) = Step(t, "nl") /\ ShellGoes(start, <<"nl">>) = ShellChar(start, "nl")
      BY ReadOne
    <3> QED
      BY <3>1, <3>2, <3>3, <3>4
  <2>3. CASE ~t.escape
    <3>1. x = <<>> /\ t.escape = FALSE
      BY <1>6, <2>3
    <3> HIDE DEF start, c
    <3>2. Advance(t, <<>>) = t /\ ShellGoes(start, <<>>) = start
      BY ReadOne
    <3> QED
      BY <1>5, <2>1, <3>1, <3>2
  <2> QED
    BY <2>2, <2>3
<1>10. u \in A /\ s \in ShellAt(c, FALSE, word)
  <2> HIDE DEF x, y, A, word, start
  <2>1. Advance(t, z) = Advance(Advance(t, x), y) /\ ShellGoes(start, z) = ShellGoes(ShellGoes(start, x), y)
    BY <1>7, <1>8, ReadOn
  <2> QED
    BY <1>8, <1>9, <2>1
<1>11. ShellReads(t, z) = s
  BY DEF ShellReads, ShellGoes
<1>12. AdvanceValue(t, z) = [u EXCEPT !.word.opaque = TRUE]
  BY DEF AdvanceValue
<1> HIDE DEF u, s, z, x, y
<1>13. s.ok = TRUE /\ s.escape = FALSE /\ s.context = c /\ s.word = word
  BY <1>10 DEF ShellAt
<1>14. u \in Trackers(T) /\ u.levels = t.levels /\ u.commandWord = t.commandWord /\ u.reparsing = t.reparsing
       /\ u.escape = FALSE /\ u.token = "none"
  BY <1>5, <1>10 DEF At
<1> DEFINE after == [u EXCEPT !.word.opaque = TRUE]
<1>15. after.levels = u.levels /\ after.commandWord = u.commandWord /\ after.reparsing = u.reparsing
       /\ after.escape = u.escape /\ after.token = u.token
  BY <1>14 DEF Trackers
<1> HIDE DEF after
<1> QED
  BY <1>4, <1>11, <1>12, <1>13, <1>14, <1>15 DEF after

-----------------------------------------------------------------------------
(* The end of an output, kept in a ring of Cap characters.                 *)
CONSTANT Cap

KeptOf(ring, piece) == Ringed(ring, piece, Cap)
Ringing == INSTANCE FoldFacts WITH Op <- KeptOf

(* The end of a text that a ring of Cap characters holds.                  *)
IsTail(ring, text, S) ==
  /\ ring \in Seq(S)
  /\ Len(ring) = IF Len(text) > Cap THEN Cap ELSE Len(text)
  /\ \A i \in 1 .. Len(ring) : ring[i] = text[Len(text) - Len(ring) + i]

LEMMA RestIs ==
  ASSUME NEW S, NEW text \in Seq(S), NEW n \in 0 .. Len(text)
  PROVE  /\ Rest(text, n) \in Seq(S) /\ Len(Rest(text, n)) = Len(text) - n
         /\ \A i \in 1 .. Len(text) - n : Rest(text, n)[i] = text[n + i]
<1>1. Len(text) \in Nat /\ n \in Nat /\ n <= Len(text)
  OBVIOUS
<1>2. SubSeq(text, n + 1, Len(text)) \in Seq(S)
  BY <1>1, SubSeqProperties
<1> DEFINE s == SubSeq(text, n + 1, Len(text))
<1>3. Len(s) = Len(text) - n /\ \A i \in 1 .. Len(text) - n : s[i] = text[n + i]
  BY <1>1, SubSeqProperties
<1> QED
  BY <1>2, <1>3 DEF Rest

LEMMA RingedIsTail ==
  ASSUME NEW S, Cap \in Nat, NEW text \in Seq(S), NEW piece \in Seq(S), NEW ring, IsTail(ring, text, S)
  PROVE  text \o piece \in Seq(S) /\ IsTail(KeptOf(ring, piece), text \o piece, S)
<1> DEFINE all == text \o piece
           t == Len(text)
           p == Len(piece)
           r == Len(ring)
           made == KeptOf(ring, piece)
<1>1. t \in Nat /\ p \in Nat /\ r \in Nat /\ ring \in Seq(S)
      /\ r = (IF t > Cap THEN Cap ELSE t) /\ \A i \in 1 .. r : ring[i] = text[t - r + i]
  <2>1. ring \in Seq(S) /\ r = (IF t > Cap THEN Cap ELSE t) /\ \A i \in 1 .. r : ring[i] = text[t - r + i]
    BY DEF IsTail
  <2>2. t \in Nat /\ p \in Nat /\ r \in Nat
    BY <2>1
  <2> QED
    BY <2>1, <2>2
<1> SUFFICES all \in Seq(S) /\ IsTail(made, all, S)
  OBVIOUS
<1>2. all \in Seq(S) /\ Len(all) = t + p /\ (\A i \in 1 .. t : all[i] = text[i]) /\ \A i \in 1 .. p : all[t + i] = piece[i]
  BY ConcatProperties
<1> HIDE DEF all
<1>3. CASE r + p > Cap /\ p >= Cap
  <2>1. made = Rest(piece, p - Cap)
    BY <1>3 DEF KeptOf, Ringed
  <2> HIDE DEF made
  <2>2. made \in Seq(S) /\ Len(made) = Cap /\ \A i \in 1 .. Cap : made[i] = piece[p - Cap + i]
    <3> DEFINE d == p - Cap
    <3>1. d \in 0 .. p /\ p - d = Cap
      BY <1>1, <1>3
    <3> HIDE DEF d
    <3>2. Rest(piece, d) \in Seq(S) /\ Len(Rest(piece, d)) = p - d /\ \A i \in 1 .. p - d : Rest(piece, d)[i] = piece[d + i]
      BY <3>1, RestIs
    <3> QED
      BY <2>1, <3>1, <3>2 DEF d
  <2> HIDE DEF p, t, r
  <2>3. Len(all) - Cap = t + (p - Cap) /\ (IF Len(all) > Cap THEN Cap ELSE Len(all)) = Cap
    BY <1>1, <1>2, <1>3
  <2>4. \A i \in 1 .. Cap : made[i] = all[Len(all) - Cap + i]
    <3> TAKE i \in 1 .. Cap
    <3>1. p - Cap + i \in 1 .. p /\ Len(all) - Cap + i = t + (p - Cap + i)
      BY <1>1, <1>3, <2>3
    <3> QED
      BY <1>2, <2>2, <3>1
  <2>5. IsTail(made, all, S)
    BY <2>2, <2>3, <2>4 DEF IsTail
  <2> QED
    BY <1>2, <2>5
<1>4. CASE r + p > Cap /\ p < Cap
  <2> DEFINE old == Rest(ring, r + p - Cap)
  <2>1. made = old \o piece
    BY <1>4 DEF KeptOf, Ringed
  <2>2. old \in Seq(S) /\ Len(old) = Cap - p /\ \A i \in 1 .. Cap - p : old[i] = ring[r + p - Cap + i]
    <3> DEFINE d == r + p - Cap
    <3>1. d \in 0 .. r /\ r - d = Cap - p
      BY <1>1, <1>4
    <3> HIDE DEF d
    <3>2. Rest(ring, d) \in Seq(S) /\ Len(Rest(ring, d)) = r - d /\ \A i \in 1 .. r - d : Rest(ring, d)[i] = ring[d + i]
      BY <1>1, <3>1, RestIs
    <3> QED
      BY <3>1, <3>2 DEF d
  <2> HIDE DEF old, made, p
  <2>3. old \o piece \in Seq(S) /\ Len(old \o piece) = Cap - p + p
        /\ (\A i \in 1 .. Cap - p : (old \o piece)[i] = old[i])
        /\ \A i \in 1 .. p : (old \o piece)[(Cap - p) + i] = piece[i]
    BY <1>1, <2>2, ConcatProperties DEF p
  <2> HIDE DEF t, r
  <2>4. made \in Seq(S) /\ Len(made) = Cap /\ (\A i \in 1 .. Cap - p : made[i] = old[i])
        /\ \A i \in 1 .. p : made[(Cap - p) + i] = piece[i]
    <3>1. Cap - p + p = Cap
      BY <1>1
    <3> QED
      BY <2>1, <2>3, <3>1
  <2>5. Len(all) = t + p /\ t + p > Cap /\ r <= t
    BY <1>1, <1>2, <1>4
  <2>6. ASSUME NEW i \in 1 .. Cap PROVE made[i] = all[Len(all) - Cap + i]
    <3>1. CASE i <= Cap - p
      <4>1. i \in 1 .. Cap - p /\ r + p - Cap + i \in 1 .. r
        BY <1>1, <1>4, <3>1
      <4>2. made[i] = ring[r + p - Cap + i]
        BY <2>2, <2>4, <4>1
      <4>3. ring[r + p - Cap + i] = text[t - r + (r + p - Cap + i)]
        BY <1>1, <4>1
      <4>4. t - r + (r + p - Cap + i) = Len(all) - Cap + i /\ Len(all) - Cap + i \in 1 .. t
        BY <1>1, <1>4, <2>5, <3>1
      <4> QED
        BY <1>2, <4>2, <4>3, <4>4
    <3>2. CASE ~(i <= Cap - p)
      <4>1. i - (Cap - p) \in 1 .. p /\ (Cap - p) + (i - (Cap - p)) = i
            /\ Len(all) - Cap + i = t + (i - (Cap - p))
        BY <1>1, <1>4, <2>5, <3>2
      <4> QED
        BY <1>2, <2>4, <4>1
    <3> QED
      BY <3>1, <3>2
  <2>7. IsTail(made, all, S)
    <3>1. Len(all) > Cap
      BY <2>5
    <3> QED
      BY <2>4, <2>6, <3>1 DEF IsTail
  <2> QED
    BY <1>2, <2>7
<1>5. CASE ~(r + p > Cap)
  <2>1. made = ring \o piece
    BY <1>5, Zenon DEF KeptOf, Ringed
  <2>2. r + p = (IF t + p > Cap THEN Cap ELSE t + p) /\ r <= t
    BY <1>1, <1>5
  <2>3. ring \o piece \in Seq(S) /\ Len(ring \o piece) = r + p /\ (\A i \in 1 .. r : (ring \o piece)[i] = ring[i])
        /\ \A i \in 1 .. p : (ring \o piece)[r + i] = piece[i]
    <3> DEFINE w == ring \o piece
    <3>1. w \in Seq(S) /\ Len(w) = r + p /\ \A i \in 1 .. r + p : w[i] = IF i <= r THEN ring[i] ELSE piece[i - r]
      BY <1>1, ConcatProperties, Zenon
    <3> HIDE DEF w, r, p
    <3>2. \A i \in 1 .. r : i \in 1 .. r + p /\ i <= r
      BY <1>1
    <3>3. \A i \in 1 .. p : r + i \in 1 .. r + p /\ ~(r + i <= r) /\ (r + i) - r = i
      BY <1>1
    <3>4. (\A i \in 1 .. r : w[i] = ring[i]) /\ \A i \in 1 .. p : w[r + i] = piece[i]
      BY <3>1, <3>2, <3>3
    <3> QED
      BY <3>1, <3>4 DEF w
  <2> HIDE DEF made, t, p, r
  <2>4. made \in Seq(S) /\ Len(made) = r + p /\ (\A i \in 1 .. r : made[i] = ring[i])
        /\ \A i \in 1 .. p : made[r + i] = piece[i]
    BY <2>1, <2>3
  <2>5. ASSUME NEW i \in 1 .. r + p PROVE made[i] = all[t + p - (r + p) + i]
    <3>1. CASE i <= r
      <4>1. i \in 1 .. r /\ t - r + i \in 1 .. t /\ t + p - (r + p) + i = t - r + i
        BY <1>1, <2>2, <3>1
      <4> QED
        BY <1>1, <1>2, <2>4, <4>1
    <3>2. CASE ~(i <= r)
      <4>1. i - r \in 1 .. p /\ r + (i - r) = i /\ t + p - (r + p) + i = t + (i - r)
        BY <1>1, <3>2
      <4> QED
        BY <1>2, <2>4, <4>1
    <3> QED
      BY <3>1, <3>2
  <2>6. IsTail(made, all, S)
    <3>1. \A i \in 1 .. Len(made) : made[i] = all[Len(all) - Len(made) + i]
      <4> TAKE i \in 1 .. Len(made)
      <4>1. i \in 1 .. r + p
        BY <2>4
      <4>2. Len(all) = t + p /\ Len(made) = r + p
        BY <1>2, <2>4, Zenon
      <4>3. made[i] = all[t + p - (r + p) + i]
        BY <2>5, <4>1
      <4> QED
        BY <1>1, <4>2, <4>3
    <3>2. Len(made) = IF Len(all) > Cap THEN Cap ELSE Len(all)
      BY <1>2, <2>2, <2>4
    <3> QED
      BY <2>4, <3>1, <3>2 DEF IsTail
  <2> QED
    BY <1>2, <2>6
<1> QED
  BY <1>3, <1>4, <1>5

(* Whatever pieces a child writes its output in, its end is kept, as much  *)
(* of it as the cap allows (command/mod.rs drain_to_ring).                 *)
THEOREM TailsAreKept ==
  ASSUME Cap \in Nat, NEW S, NEW pieces \in Seq(Seq(S))
  PROVE  TailIsKept(pieces, Cap)
<1> DEFINE n == Len(pieces)
           all == FlattenSeq(pieces)
           ring == RingTail(pieces, Cap)
           flat == Flattening(pieces, n)
<1>1. n \in Nat /\ DOMAIN pieces = 1 .. n /\ \A k \in 1 .. n : pieces[k] \in Seq(S)
  BY ElementOfSeq
<1> HIDE DEF n
<1>2. ring = Ringing!Fold(<<>>, pieces, n)
  BY <1>1 DEF RingTail, Ringing!Fold, Ringing!Solution, Ringing!Solves, Ringing!Folded, Ringing!Max,
     FoldLeft, MapThenFoldSet, FoldFunction, Max, KeptOf
<1> HIDE DEF ring
<1>3. PICK at : Ringing!Trace(at, <<>>, pieces, n) /\ Ringing!Fold(<<>>, pieces, n) = at[n]
  BY <1>1, Ringing!FoldTrace
<1>4. at[0] = <<>> /\ \A k \in 1 .. n : at[k] = KeptOf(at[k - 1], pieces[k])
  BY <1>3 DEF Ringing!Trace
<1>5. all \in Seq(S) /\ IsTail(ring, all, S)
  <2>1. IsTail(<<>>, <<>>, S)
    BY EmptySeq DEF IsTail
  <2>2. CASE n = 0
    <3>1. all = <<>>
      BY <1>1, <2>2 DEF FlattenSeq
    <3> QED
      BY <1>2, <1>3, <1>4, <2>1, <2>2, <3>1, EmptySeq
  <2>3. CASE n # 0
    <3>1. Flattens(flat, pieces, n)
      BY <1>1, <2>3, FlatteningIs
    <3>2. all = flat[n]
      BY <1>1, <2>3 DEF FlattenSeq, Flattening, Joined, n
    <3> HIDE DEF flat, all
    <3> DEFINE good == {k \in Nat : k + 1 <= n => flat[k + 1] \in Seq(S) /\ IsTail(at[k + 1], flat[k + 1], S)}
    <3>3. 0 \in good
      <4>1. 1 \in 1 .. n /\ 1 - 1 = 0 /\ pieces[1] \in Seq(S)
        BY <1>1, <2>3
      <4>2. <<>> \o pieces[1] = pieces[1]
        BY <4>1, ConcatEmptySeq
      <4>3. IsTail(KeptOf(<<>>, pieces[1]), <<>> \o pieces[1], S)
        BY <2>1, <4>1, RingedIsTail, EmptySeq
      <4>4. at[1] = KeptOf(<<>>, pieces[1]) /\ flat[1] = pieces[1]
        BY <1>4, <3>1, <4>1 DEF Flattens
      <4>5. flat[1] \in Seq(S) /\ IsTail(at[1], flat[1], S)
        BY <4>1, <4>2, <4>3, <4>4
      <4> QED
        BY <4>5
    <3>4. ASSUME NEW k \in Nat, k \in good PROVE k + 1 \in good
      <4> SUFFICES ASSUME k + 1 + 1 <= n
                   PROVE  flat[k + 1 + 1] \in Seq(S) /\ IsTail(at[k + 1 + 1], flat[k + 1 + 1], S)
        OBVIOUS
      <4> DEFINE m == k + 1
      <4>1. m + 1 \in 2 .. n /\ m + 1 \in 1 .. n /\ (m + 1) - 1 = m /\ flat[m] \in Seq(S) /\ IsTail(at[m], flat[m], S)
        BY <1>1, <3>4
      <4> HIDE DEF m
      <4>2. pieces[m + 1] \in Seq(S) /\ at[m + 1] = KeptOf(at[m], pieces[m + 1])
        BY <1>1, <1>4, <4>1
      <4>3. flat[m + 1] = flat[m] \o pieces[m + 1]
        BY <3>1, <4>1 DEF Flattens, Joined
      <4>4. flat[m] \o pieces[m + 1] \in Seq(S) /\ IsTail(KeptOf(at[m], pieces[m + 1]), flat[m] \o pieces[m + 1], S)
        BY <4>1, <4>2, RingedIsTail
      <4> QED
        BY <4>2, <4>3, <4>4 DEF m
    <3> HIDE DEF good
    <3>5. n - 1 \in good
      BY <1>1, <2>3, <3>3, <3>4, Ringing!NaturalSets
    <3>6. flat[n] \in Seq(S) /\ IsTail(at[n], flat[n], S)
      BY <1>1, <2>3, <3>5 DEF good
    <3> QED
      BY <1>2, <1>3, <3>2, <3>6
  <2> QED
    BY <2>2, <2>3
<1> HIDE DEF all
<1> DEFINE m == Len(all)
           cut == IF m > Cap THEN m - Cap ELSE 0
           rest == Rest(all, cut)
<1>6. m \in Nat /\ cut \in 0 .. m /\ cut \in Int
  BY <1>5
<1>7. Max({0, m - Cap}) = cut
  <2>1. m - Cap \in Int
    BY <1>6
  <2> DEFINE d == m - Cap
             top == CHOOSE x \in {0, d} : \A y \in {0, d} : y <= x
  <2>2. d \in Int /\ cut = IF d > 0 THEN d ELSE 0
    BY <1>6
  <2> HIDE DEF d, cut
  <2>3. \E x \in {0, d} : \A y \in {0, d} : y <= x
    BY <2>2
  <2>4. top \in {0, d} /\ \A y \in {0, d} : y <= top
    BY <2>3
  <2> HIDE DEF top
  <2>5. top = cut
    BY <2>2, <2>4
  <2>6. Max({0, d}) = top
    BY DEF Max, top
  <2> QED
    BY <2>5, <2>6 DEF d
<1>8. rest = ring
  <2>1. rest \in Seq(S) /\ Len(rest) = m - cut /\ \A i \in 1 .. m - cut : rest[i] = all[cut + i]
    BY <1>5, <1>6, RestIs
  <2>2. ring \in Seq(S) /\ Len(ring) = m - cut /\ \A i \in 1 .. Len(ring) : ring[i] = all[m - Len(ring) + i]
    <3>1. ring \in Seq(S) /\ Len(ring) = (IF m > Cap THEN Cap ELSE m)
          /\ \A i \in 1 .. Len(ring) : ring[i] = all[m - Len(ring) + i]
      BY <1>5 DEF IsTail
    <3> HIDE DEF m
    <3>2. (IF m > Cap THEN Cap ELSE m) = m - cut
      BY <1>6
    <3> QED
      BY <3>1, <3>2
  <2> HIDE DEF rest, m, cut
  <2>3. m - (m - cut) = cut
    BY <1>6
  <2>4. \A i \in 1 .. Len(ring) : ring[i] = rest[i]
    BY <1>6, <2>1, <2>2, <2>3
  <2> QED
    BY <2>1, <2>2, <2>4, SeqEqual
<1> QED
  BY <1>7, <1>8 DEF TailIsKept, all, ring, rest, m

-----------------------------------------------------------------------------
(* The environment of a child.                                             *)

(* The child of a command is told what it should be and gets no credential *)
(* of the client and nothing its text was given, for any template, any     *)
(* variables and any names (dispatch_command, env_injection).              *)
THEOREM ChildrenAreTold ==
  ASSUME NEW template, NEW process, NEW injected, NEW cfg
  PROVE  ChildIsTold(template, process, injected, cfg)
<1> DEFINE hidden == RemovedVars \cup EnvNames(Compile(template))
           told == Over(injected, process)
           kept == Restrict(told, DOMAIN told \ hidden)
           child == Over(cfg, kept)
<1> HIDE DEF hidden
<1>1. DOMAIN told = DOMAIN injected \cup DOMAIN process /\ \A name \in DOMAIN injected : told[name] = injected[name]
  BY DEF Over
<1> HIDE DEF told
<1>2. DOMAIN kept = DOMAIN told \ hidden /\ \A name \in DOMAIN told \ hidden : kept[name] = told[name]
  BY DEF Restrict
<1> HIDE DEF kept
<1>3. /\ DOMAIN child = DOMAIN cfg \cup DOMAIN kept /\ \A name \in DOMAIN cfg : child[name] = cfg[name]
      /\ \A name \in DOMAIN kept \ DOMAIN cfg : child[name] = kept[name]
  BY DEF Over
<1> HIDE DEF child
<1>4. ChildEnvironment(process, injected, Compile(template), cfg) = child
  BY DEF ChildEnvironment, child, kept, told, hidden
<1>5. /\ hidden \cap DOMAIN child \subseteq DOMAIN cfg
      /\ \A name \in DOMAIN injected \ (hidden \cup DOMAIN cfg) : child[name] = injected[name]
      /\ \A name \in DOMAIN cfg : child[name] = cfg[name]
  BY <1>1, <1>2, <1>3
<1> QED
  BY <1>4, <1>5 DEF ChildIsTold, hidden

-----------------------------------------------------------------------------
(* What is shown of a refusal.                                             *)

(* Whatever a server says of a refusal, in its body or in the header, is   *)
(* shown without its addresses and without what a terminal would obey      *)
(* (diagnostics.rs sanitize_server_text, for every field that is shown).   *)
THEOREM RefusalsAreShownSafely ==
  ASSUME NEW body, NEW header
  PROVE  ShownSafely(body, header)
<1>1. ASSUME NEW words
      PROVE  Range(SanitizeServerText(words)) \cap {"url", "control"} = {}
  BY DEF SanitizeServerText, Range
<1> DEFINE shown(option) == IF IsGiven(option) THEN Given(SanitizeServerText(option[1])) ELSE Unset
<1>2. ASSUME NEW option, IsGiven(shown(option))
      PROVE  Range(shown(option)[1]) \cap {"url", "control"} = {}
  BY <1>1, <1>2 DEF IsGiven, Given, Unset
<1>3. ASSUME NEW x PROVE Given(x)[1] = x
  BY DEF Given
<1> SUFFICES ASSUME IsGiven(RecognizedFields(body, header))
             PROVE  \A field \in {"message", "details", "requestId", "types"} :
                      IsGiven(RecognizedFields(body, header)[1][field]) =>
                        Range(RecognizedFields(body, header)[1][field][1]) \cap {"url", "control"} = {}
  BY DEF ShownSafely
<1> DEFINE fields == [code |-> body.code, message |-> shown(body.message), details |-> shown(body.details),
                      requestId |-> shown(OrElse(body.requestId, header)),
                      types |-> IF body.code = "UNKNOWN_EVENT_TYPE" THEN shown(body.types) ELSE Unset]
<1>4. RecognizedFields(body, header) = Given(fields)
  BY DEF RecognizedFields, IsGiven
<1>5. RecognizedFields(body, header)[1] = fields
  BY <1>3, <1>4
<1>6. ~IsGiven(Unset)
  BY DEF IsGiven, Unset
<1>7. \E option : fields.message = shown(option)
  OBVIOUS
<1>8. \E option : fields.details = shown(option)
  OBVIOUS
<1>9. \E option : fields.requestId = shown(option)
  OBVIOUS
<1>10. fields.types = Unset \/ \E option : fields.types = shown(option)
  OBVIOUS
<1> HIDE DEF fields, shown
<1> QED
  BY <1>2, <1>5, <1>6, <1>7, <1>8, <1>9, <1>10

-----------------------------------------------------------------------------
(* The segments of a template: recursive functions over its characters.    *)
Characters == STRING
Texts == Seq(Characters)
LengthOf == [text \in Texts |-> Len(text)]

SplitOp(f, text) ==
  LET i == SelectInSeq(text, LAMBDA c : c = "dot")
  IN IF i = 0 THEN <<text>> ELSE <<SubSeq(text, 1, i - 1)>> \o f[Rest(text, i)]
Splitting == INSTANCE FoldFacts WITH Op <- SplitOp

(* The first and the last of the places where a text passes a test.        *)
First(I)  == IF I # {} THEN Min(I) ELSE 0
Latest(I) == IF I # {} THEN Max(I) ELSE 0

LEMMA FirstIs ==
  ASSUME NEW n, n \in Int, NEW I, I \subseteq 1 .. n
  PROVE  /\ First(I) \in {0} \cup I
         /\ First(I) = 0 <=> I = {}
         /\ \A i \in I : First(I) <= i
<1>1. CASE I = {}
  BY <1>1 DEF First
<1>2. CASE I # {}
  <2>1. \E least \in I : \A i \in I : least <= i
    <3>1. I \subseteq Nat
      OBVIOUS
    <3> QED
      BY <1>2, <3>1, Splitting!Least
  <2> DEFINE least == CHOOSE x \in I : \A y \in I : x <= y
  <2>2. least \in I /\ \A y \in I : least <= y
    BY <2>1
  <2>3. First(I) = least
    BY <1>2 DEF First, Min
  <2> HIDE DEF least
  <2> QED
    BY <1>2, <2>2, <2>3
<1> QED
  BY <1>1, <1>2

LEMMA LatestIs ==
  ASSUME NEW n \in Nat, NEW I, I \subseteq 1 .. n
  PROVE  /\ Latest(I) \in {0} \cup I
         /\ Latest(I) = 0 <=> I = {}
         /\ \A i \in I : i <= Latest(I)
<1>1. CASE I = {}
  BY <1>1 DEF Latest
<1>2. CASE I # {}
  <2> DEFINE above == {m \in Nat : \A i \in I : i <= m}
  <2>1. n \in above /\ above \subseteq Nat
    OBVIOUS
  <2>2. PICK top \in above : \A m \in above : top <= m
    BY <2>1, Splitting!Least
  <2>3. top \in I
    <3>1. ASSUME top \notin I
          PROVE  FALSE
      <4>1. \A i \in I : i < top
        BY <3>1, <2>2
      <4>2. top # 0
        <5>1. PICK i \in I : TRUE
          BY <1>2
        <5>2. i \in 1 .. n /\ i < top
          BY <4>1, <5>1
        <5> QED
          BY <5>2
      <4>3. top - 1 \in above
        BY <4>1, <4>2, <2>2
      <4> QED
        BY <4>3, <2>2
    <3> QED
      BY <3>1
  <2>4. \E x \in I : \A y \in I : x >= y
    BY <2>2, <2>3
  <2> DEFINE last == CHOOSE x \in I : \A y \in I : x >= y
  <2>5. last \in I /\ \A y \in I : last >= y
    BY <2>4
  <2>6. Latest(I) = last
    BY <1>2 DEF Latest, Max
  <2> HIDE DEF last
  <2> QED
    BY <1>2, <2>5, <2>6
<1> QED
  BY <1>1, <1>2

LEMMA OneMore ==
  ASSUME NEW S, NEW x \in S, NEW s \in Seq(S)
  PROVE  /\ <<x>> \in Seq(S) /\ <<x>> \o s \in Seq(S)
         /\ Len(<<x>>) = 1 /\ Len(<<x>> \o s) = Len(s) + 1
         /\ (<<x>> \o s)[1] = x /\ \A i \in 1 .. Len(s) : (<<x>> \o s)[i + 1] = s[i]
<1>1. <<x>> \in Seq(S) /\ Len(<<x>>) = 1 /\ <<x>>[1] = x
  OBVIOUS
<1> QED
  BY <1>1, ConcatProperties

LEMMA PieceIs ==
  ASSUME NEW S, NEW text \in Seq(S), NEW m, NEW n, m \in Nat \ {0}, n \in Nat, n <= Len(text)
  PROVE  /\ SubSeq(text, m, n) \in Seq(S)
         /\ Len(SubSeq(text, m, n)) = IF m <= n THEN n - m + 1 ELSE 0
         /\ \A i \in 1 .. n - m + 1 : SubSeq(text, m, n)[i] = text[m + i - 1]
<1>1. \A i \in m .. n : text[i] \in S
  OBVIOUS
<1> QED
  BY <1>1, SubSeqProperties

LEMMA RestOfText ==
  ASSUME NEW text \in Texts, NEW n, n \in Nat, n <= Len(text)
  PROVE  /\ Rest(text, n) \in Texts /\ Len(Rest(text, n)) = Len(text) - n
         /\ \A i \in 1 .. Len(text) - n : Rest(text, n)[i] = text[n + i]
<1>1. Len(text) \in Nat
  BY DEF Texts
<1> DEFINE s == SubSeq(text, n + 1, Len(text))
<1>2. s \in Texts /\ (Len(s) = IF n + 1 <= Len(text) THEN Len(text) - (n + 1) + 1 ELSE 0)
      /\ \A i \in 1 .. Len(text) - (n + 1) + 1 : s[i] = text[(n + 1) + i - 1]
  BY <1>1, PieceIs DEF Texts
<1>3. Rest(text, n) = s
  BY DEF Rest
<1> HIDE DEF s
<1>4. Len(text) - (n + 1) + 1 = Len(text) - n /\ Len(s) = Len(text) - n
  BY <1>1, <1>2
<1>5. \A i \in 1 .. Len(text) - n : (n + 1) + i - 1 = n + i
  BY <1>1
<1> QED
  BY <1>2, <1>3, <1>4, <1>5

-----------------------------------------------------------------------------
(* A path.                                                                 *)
LEMMA SplitIs ==
  \A text \in Texts : Split[text] \in Seq(Texts) /\ Split[text] = SplitOp(Split, text)
<1> DEFINE dots(text) == {i \in 1 .. Len(text) : text[i] = "dot"}
<1>1. ASSUME NEW f, NEW text
      PROVE  SplitOp(f, text) = IF First(dots(text)) = 0 THEN <<text>>
                                ELSE <<SubSeq(text, 1, First(dots(text)) - 1)>> \o f[Rest(text, First(dots(text)))]
  BY DEF SplitOp, SelectInSeq, First
<1>2. ASSUME NEW text \in Texts, First(dots(text)) # 0
      PROVE  /\ SubSeq(text, 1, First(dots(text)) - 1) \in Texts /\ Rest(text, First(dots(text))) \in Texts
             /\ Len(Rest(text, First(dots(text)))) < Len(text)
  <2>1. Len(text) \in Nat
    BY DEF Texts
  <2>2. First(dots(text)) \in {0} \cup dots(text)
    BY <2>1, FirstIs
  <2>3. First(dots(text)) \in 1 .. Len(text)
    BY <1>2, <2>2
  <2> HIDE DEF dots
  <2> DEFINE d == First(dots(text))
  <2> HIDE DEF d
  <2>4. d \in 1 .. Len(text)
    BY <2>3 DEF d
  <2>5. SubSeq(text, 1, d - 1) \in Texts
    BY <2>1, <2>4, PieceIs DEF Texts
  <2>6. Rest(text, d) \in Texts /\ Len(Rest(text, d)) < Len(text)
    BY <2>1, <2>4, RestOfText
  <2> QED
    BY <2>5, <2>6 DEF d
<1> HIDE DEF dots
<1>3. Splitting!Smaller(Texts, LengthOf)
  <2>1. ASSUME NEW f, NEW g, NEW text \in Texts, \A y \in Texts : LengthOf[y] < LengthOf[text] => f[y] = g[y]
        PROVE  SplitOp(f, text) = SplitOp(g, text)
    <3>1. CASE First(dots(text)) = 0
      BY <1>1, <3>1
    <3>2. CASE First(dots(text)) # 0
      <4> DEFINE rest == Rest(text, First(dots(text)))
      <4>1. rest \in Texts /\ LengthOf[rest] < LengthOf[text]
        BY <1>2, <3>2 DEF LengthOf
      <4>2. f[rest] = g[rest]
        BY <2>1, <4>1
      <4> QED
        BY <1>1, <3>2, <4>2
    <3> QED
      BY <3>1, <3>2
  <2> QED
    BY <2>1 DEF Splitting!Smaller
<1>4. \A text \in Texts : LengthOf[text] \in Nat
  BY DEF LengthOf, Texts
<1>5. \E f : f = [text \in Texts |-> SplitOp(f, text)]
  BY <1>3, <1>4, Splitting!RecursiveFunction
<1>6. Split = [text \in Texts |-> SplitOp(Split, text)]
  BY <1>5 DEF Split, SplitOp, Texts, Characters
<1>7. ASSUME NEW text \in Texts
      PROVE  Split[text] = SplitOp(Split, text)
  BY <1>6
<1> DEFINE good == {text \in Texts : Split[text] \in Seq(Texts)}
<1>8. ASSUME NEW text \in Texts, \A y \in Texts : LengthOf[y] < LengthOf[text] => y \in good
      PROVE  text \in good
  <2>1. CASE First(dots(text)) = 0
    <3>1. Split[text] = <<text>>
      BY <1>1, <1>7, <2>1
    <3>2. <<>> \in Seq(Texts)
      OBVIOUS
    <3>3. <<text>> \in Seq(Texts)
      BY <3>2, OneMore
    <3> QED
      BY <3>1, <3>3
  <2>2. CASE First(dots(text)) # 0
    <3> DEFINE rest  == Rest(text, First(dots(text)))
               piece == SubSeq(text, 1, First(dots(text)) - 1)
    <3>1. rest \in Texts /\ LengthOf[rest] < LengthOf[text] /\ piece \in Texts
      BY <1>2, <2>2 DEF LengthOf
    <3>2. Split[rest] \in Seq(Texts)
      BY <1>8, <3>1
    <3>3. Split[text] = <<piece>> \o Split[rest]
      BY <1>1, <1>7, <2>2
    <3> HIDE DEF rest, piece
    <3>4. <<piece>> \o Split[rest] \in Seq(Texts)
      BY <3>1, <3>2, OneMore
    <3> QED
      BY <3>3, <3>4
  <2> QED
    BY <2>1, <2>2
<1> QED
  <2>1. Texts \subseteq good
    <3> HIDE DEF good
    <3> QED
      BY <1>4, <1>8, Splitting!SmallerFirst
  <2> QED
    BY <1>7, <2>1

(* What a template is compiled to.                                         *)
Faults == {"empty_path_segment", "unknown_namespace", "escape_inside_expr", "unclosed_braces"}
Segments ==
  [kind : {"literal"}, text : Texts] \cup [kind : {"notification"}, path : Seq(Texts)]
    \cup [kind : {"env"}, name : Texts] \cup [kind : {"bad"}, field : Faults]

LEMMA StartsIs ==
  ASSUME NEW S, NEW text \in Seq(S), NEW T, NEW prefix \in Seq(T)
  PROVE  StartsWith(text, prefix) <=>
           Len(prefix) <= Len(text) /\ \A i \in 1 .. Len(prefix) : text[i] = prefix[i]
<1> DEFINE n == Len(prefix)
           a == SubSeq(prefix, 1, n)
           b == SubSeq(text, 1, n)
<1>1. n \in Nat /\ Len(text) \in Nat
  OBVIOUS
<1>2. StartsWith(text, prefix) <=> n <= Len(text) /\ a = b
  BY DEF StartsWith, IsPrefix
<1>3. a \in Seq(T) /\ Len(a) = n /\ \A i \in 1 .. n : a[i] = prefix[i]
  <2>1. /\ a \in Seq(T) /\ Len(a) = IF 1 <= n THEN n - 1 + 1 ELSE 0
        /\ \A i \in 1 .. n - 1 + 1 : a[i] = prefix[1 + i - 1]
    BY <1>1, PieceIs
  <2> HIDE DEF a, n
  <2> QED
    BY <1>1, <2>1
<1>4. ASSUME n <= Len(text)
      PROVE  b \in Seq(S) /\ Len(b) = n /\ \A i \in 1 .. n : b[i] = text[i]
  <2>1. /\ b \in Seq(S) /\ Len(b) = IF 1 <= n THEN n - 1 + 1 ELSE 0
        /\ \A i \in 1 .. n - 1 + 1 : b[i] = text[1 + i - 1]
    BY <1>1, <1>4, PieceIs
  <2> HIDE DEF b, n
  <2> QED
    BY <1>1, <2>1
<1> HIDE DEF a, b
<1>5. ASSUME n <= Len(text)
      PROVE  a = b <=> \A i \in 1 .. n : text[i] = prefix[i]
  <2> HIDE DEF n
  <2>1. ASSUME \A i \in 1 .. n : text[i] = prefix[i]
        PROVE  a = b
    <3>1. \A i \in 1 .. Len(a) : a[i] = b[i]
      BY <1>3, <1>4, <1>5, <2>1
    <3> QED
      BY <1>3, <1>4, <1>5, <3>1, SeqEqual
  <2> QED
    BY <1>3, <1>4, <1>5, <2>1
<1> QED
  BY <1>2, <1>5

LEMMA ShortTexts ==
  ASSUME NEW S, NEW a \in S, NEW b \in S, NEW c \in S
  PROVE  /\ <<a, b>> \in Seq(S) /\ Len(<<a, b>>) = 2 /\ <<a, b>>[1] = a /\ <<a, b>>[2] = b
         /\ <<a, b, c>> \in Seq(S) /\ Len(<<a, b, c>>) = 3
         /\ <<a, b, c>>[1] = a /\ <<a, b, c>>[2] = b /\ <<a, b, c>>[3] = c
         /\ <<a>> \in Seq(S) /\ <<>> \in Seq(S) /\ Len(<<a>>) = 1 /\ <<a>>[1] = a
<1>1. <<a, b>> \in Seq(S) /\ Len(<<a, b>>) = 2 /\ <<a, b>>[1] = a /\ <<a, b>>[2] = b
  OBVIOUS
<1>2. <<a, b, c>> \in Seq(S) /\ Len(<<a, b, c>>) = 3
  OBVIOUS
<1>3. <<a, b, c>>[1] = a /\ <<a, b, c>>[2] = b /\ <<a, b, c>>[3] = c
  OBVIOUS
<1>4. <<a>> \in Seq(S) /\ <<>> \in Seq(S) /\ Len(<<a>>) = 1 /\ <<a>>[1] = a
  OBVIOUS
<1> QED
  BY <1>1, <1>2, <1>3, <1>4

LEMMA TrimmedIs ==
  ASSUME NEW text \in Texts
  PROVE  Trimmed(text) \in Texts
<1> DEFINE I == {i \in 1 .. Len(text) : text[i] # "sp"}
           from == First(I)
           to   == Latest(I)
<1>1. Len(text) \in Nat
  BY DEF Texts
<1>2. Trimmed(text) = IF from = 0 THEN <<>> ELSE SubSeq(text, from, to)
  BY DEF Trimmed, SelectInSeq, SelectLastInSeq, First, Latest
<1>3. from \in {0} \cup I /\ to \in {0} \cup I
  BY <1>1, FirstIs, LatestIs
<1>4. from \in 0 .. Len(text) /\ to \in 0 .. Len(text)
  BY <1>1, <1>3
<1> HIDE DEF from, to
<1>5. CASE from = 0
  BY <1>2, <1>5 DEF Texts
<1>6. CASE from # 0
  <2>1. from \in Nat \ {0} /\ to \in Nat /\ to <= Len(text)
    BY <1>1, <1>4, <1>6
  <2> QED
    BY <1>2, <1>6, <2>1, PieceIs DEF Texts
<1> QED
  BY <1>5, <1>6

LEMMA ExpressionIs ==
  ASSUME NEW inside \in Texts
  PROVE  Expression(inside) \in Segments
<1> DEFINE expr == Trimmed(inside)
           rest == Rest(expr, 2)
           P == <<"notification", "dot">>
           E == <<"env", "dot">>
<1>1. expr \in Texts
  BY TrimmedIs
<1>2. /\ P \in Seq({"notification", "dot"}) /\ E \in Seq({"env", "dot"}) /\ Len(P) = 2 /\ Len(E) = 2
      /\ P[1] = "notification" /\ E[1] = "env"
  <2> HIDE DEF expr
  <2>1. P \in Seq({"notification", "dot"}) /\ Len(P) = 2 /\ P[1] = "notification"
    OBVIOUS
  <2>2. E \in Seq({"env", "dot"}) /\ Len(E) = 2 /\ E[1] = "env"
    OBVIOUS
  <2> QED
    BY <2>1, <2>2
<1>3. Expression(inside) = CASE expr = <<"notification">> -> Path(<<>>)
       [] StartsWith(expr, P) -> IF <<>> \in Range(Split[rest]) THEN Bad("empty_path_segment") ELSE Path(Split[rest])
       [] StartsWith(expr, E) -> IF rest = <<>> THEN Bad("empty_path_segment") ELSE EnvVar(rest)
       [] OTHER -> Bad("unknown_namespace")
  BY DEF Expression
<1> HIDE DEF expr, P, E
<1>4. ASSUME StartsWith(expr, P) \/ StartsWith(expr, E)
      PROVE  rest \in Texts
  <2>1. 2 <= Len(expr)
    BY <1>1, <1>2, <1>4, StartsIs DEF Texts
  <2> QED
    BY <1>1, <2>1, RestOfText
<1>5. Bad("empty_path_segment") \in Segments /\ Bad("unknown_namespace") \in Segments
  BY DEF Bad, Segments, Faults
<1>6. \A names \in Seq(Texts) : Path(names) \in Segments
  BY DEF Path, Segments
<1>7. \A name \in Texts : EnvVar(name) \in Segments
  BY DEF EnvVar, Segments
<1>8. StartsWith(expr, P) => Split[rest] \in Seq(Texts)
  BY <1>4, SplitIs
<1>9. <<>> \in Seq(Texts)
  OBVIOUS
<1> HIDE DEF rest
<1>10. StartsWith(expr, P) => expr[1] = "notification" /\ Len(expr) >= 2
  <2>1. StartsWith(expr, P) <=> Len(P) <= Len(expr) /\ \A i \in 1 .. Len(P) : expr[i] = P[i]
    BY <1>1, <1>2, StartsIs DEF Texts
  <2>2. 1 \in 1 .. Len(P)
    BY <1>2
  <2> QED
    BY <1>1, <1>2, <2>1, <2>2
<1>11. StartsWith(expr, E) => expr[1] = "env" /\ Len(expr) >= 2
  <2>1. StartsWith(expr, E) <=> Len(E) <= Len(expr) /\ \A i \in 1 .. Len(E) : expr[i] = E[i]
    BY <1>1, <1>2, StartsIs DEF Texts
  <2>2. 1 \in 1 .. Len(E)
    BY <1>2
  <2> QED
    BY <1>1, <1>2, <2>1, <2>2
<1>12. CASE expr = <<"notification">>
  <2>1. Len(expr) = 1
    BY <1>12
  <2>2. ~StartsWith(expr, P) /\ ~StartsWith(expr, E)
    BY <1>10, <1>11, <2>1
  <2> QED
    BY <1>3, <1>6, <1>9, <1>12, <2>2
<1>13. CASE expr # <<"notification">> /\ StartsWith(expr, P)
  <2>1. ~StartsWith(expr, E)
    BY <1>10, <1>11, <1>13
  <2> QED
    BY <1>3, <1>5, <1>6, <1>8, <1>13, <2>1
<1>14. CASE expr # <<"notification">> /\ ~StartsWith(expr, P) /\ StartsWith(expr, E)
  BY <1>3, <1>4, <1>5, <1>7, <1>14
<1>15. CASE expr # <<"notification">> /\ ~StartsWith(expr, P) /\ ~StartsWith(expr, E)
  BY <1>3, <1>5, <1>15
<1> QED
  BY <1>12, <1>13, <1>14, <1>15

(* What is parsed lies within the text, and is a segment.                  *)
LEMMA ParsedIs ==
  ASSUME NEW text \in Texts
  PROVE  /\ ParseExpression(text)[1] \in Segments /\ ParseExpression(text)[2] \in Nat
         /\ ParseExpression(text)[2] <= Len(text)
<1> DEFINE pairs  == [i \in 1 .. Len(text) - 1 |-> SubSeq(text, i, i + 1)]
           I      == {i \in 1 .. Len(pairs) : pairs[i] = <<"rb", "rb">>}
           close  == First(I)
           escape == First({i \in 1 .. Len(text) : text[i] = "bs"})
           inside == SubSeq(text, 1, close - 1)
           parsed == ParseExpression(text)
<1>1. parsed = CASE escape # 0 /\ (close = 0 \/ escape < close) -> <<Bad("escape_inside_expr"), 0>>
                 [] close = 0 /\ escape = 0 -> <<Bad("unclosed_braces"), 0>>
                 [] OTHER -> <<Expression(inside), close + 1>>
  BY DEF ParseExpression, SelectInSeq, First
<1>2. Len(text) \in Nat
  BY DEF Texts
<1>3. Len(pairs) = IF Len(text) = 0 THEN 0 ELSE Len(text) - 1
  <2>1. CASE Len(text) = 0
    <3>1. 1 .. Len(text) - 1 = 1 .. 0
      BY <2>1
    <3> QED
      BY <2>1, <3>1
  <2>2. CASE Len(text) # 0
    <3>1. Len(text) - 1 \in Nat
      BY <1>2, <2>2
    <3> QED
      BY <2>2, <3>1
  <2> QED
    BY <2>1, <2>2
<1> HIDE DEF pairs
<1>4. close \in 0 .. Len(pairs)
  <2>1. Len(pairs) \in Nat
    BY <1>2, <1>3
  <2>2. close \in {0} \cup I
    BY <2>1, FirstIs
  <2> QED
    BY <2>1, <2>2
<1>5. close \in Nat /\ (close = 0 \/ close + 1 <= Len(text))
  BY <1>2, <1>3, <1>4
<1>6. ASSUME close # 0
      PROVE  Expression(inside) \in Segments
  <2>1. close - 1 \in Nat /\ close - 1 <= Len(text)
    BY <1>2, <1>5, <1>6
  <2> HIDE DEF close
  <2>2. inside \in Texts
    BY <2>1, PieceIs DEF Texts
  <2> QED
    BY <2>2, ExpressionIs
<1>7. Bad("escape_inside_expr") \in Segments /\ Bad("unclosed_braces") \in Segments
  BY DEF Bad, Segments, Faults
<1>8. escape \in Nat
  <2>1. escape \in {0} \cup {i \in 1 .. Len(text) : text[i] = "bs"}
    BY <1>2, FirstIs
  <2> QED
    BY <2>1
<1> HIDE DEF close, escape, inside, parsed
<1>9. CASE escape # 0 /\ (close = 0 \/ escape < close)
  <2>1. parsed = <<Bad("escape_inside_expr"), 0>>
    BY <1>1, <1>9
  <2> QED
    BY <1>2, <1>7, <2>1 DEF parsed
<1>10. CASE close = 0 /\ escape = 0
  <2>1. parsed = <<Bad("unclosed_braces"), 0>>
    BY <1>1, <1>10
  <2> QED
    BY <1>2, <1>7, <2>1 DEF parsed
<1>11. CASE close # 0 /\ ~(escape # 0 /\ (close = 0 \/ escape < close))
  <2>1. parsed = <<Expression(inside), close + 1>>
    BY <1>1, <1>11
  <2> QED
    BY <1>5, <1>6, <1>11, <2>1 DEF parsed
<1> QED
  BY <1>5, <1>8, <1>9, <1>10, <1>11

TextPairs == Texts \X Texts
LeftOf == [at \in TextPairs |-> Len(at[1])]

CompileOp(f, at) ==
  LET text    == at[1]
      literal == at[2]
      parsed  == ParseExpression(Rest(text, 2))
  IN CASE text = <<>> -> Flushed(literal)
       [] StartsWith(text, EscapedOpen) -> f[<<Rest(text, 3), literal \o Open>>]
       [] StartsWith(text, <<"bs", "lb">>) /\ ~StartsWith(text, EscapedOpen) ->
            f[<<Rest(text, 2), literal \o <<"bs", "lb">>>>]
       [] StartsWith(text, Open) ->
            IF parsed[1].kind = "bad" THEN <<parsed[1]>>
            ELSE Flushed(literal) \o <<parsed[1]>> \o f[<<Rest(text, 2 + parsed[2]), <<>>>>]
       [] OTHER -> f[<<Tail(text), Append(literal, Head(text))>>]
Compiling == INSTANCE FoldFacts WITH Op <- CompileOp

Escaped(text)  == Len(text) >= 3 /\ text[1] = "bs" /\ text[2] = "lb" /\ text[3] = "lb"
Half(text)     == Len(text) >= 2 /\ text[1] = "bs" /\ text[2] = "lb"
Opens(text)    == Len(text) >= 2 /\ text[1] = "lb" /\ text[2] = "lb"
IsPlain(text)  == text # <<>> /\ ~Half(text) /\ ~Opens(text)

LEMMA StartsAre ==
  ASSUME NEW text \in Texts
  PROVE  /\ StartsWith(text, EscapedOpen) <=> Escaped(text)
         /\ StartsWith(text, <<"bs", "lb">>) <=> Half(text)
         /\ StartsWith(text, Open) <=> Opens(text)
<1> DEFINE H == <<"bs", "lb">>
<1>1. EscapedOpen \in Seq({"bs", "lb"}) /\ Len(EscapedOpen) = 3
      /\ EscapedOpen[1] = "bs" /\ EscapedOpen[2] = "lb" /\ EscapedOpen[3] = "lb"
  BY DEF EscapedOpen
<1>2. H \in Seq({"bs", "lb"}) /\ Len(H) = 2 /\ H[1] = "bs" /\ H[2] = "lb"
  OBVIOUS
<1>3. Open \in Seq({"lb"}) /\ Len(Open) = 2 /\ Open[1] = "lb" /\ Open[2] = "lb"
  BY DEF Open
<1> HIDE DEF H
<1>4. Len(text) \in Nat /\ text \in Seq(Characters)
  BY DEF Texts
<1>5. StartsWith(text, EscapedOpen) <=>
        Len(EscapedOpen) <= Len(text) /\ \A i \in 1 .. Len(EscapedOpen) : text[i] = EscapedOpen[i]
  BY <1>1, <1>4, StartsIs
<1>6. StartsWith(text, H) <=> Len(H) <= Len(text) /\ \A i \in 1 .. Len(H) : text[i] = H[i]
  BY <1>2, <1>4, StartsIs
<1>7. StartsWith(text, Open) <=> Len(Open) <= Len(text) /\ \A i \in 1 .. Len(Open) : text[i] = Open[i]
  BY <1>3, <1>4, StartsIs
<1>8. 1 .. 3 = {1, 2, 3} /\ 1 .. 2 = {1, 2}
  OBVIOUS
<1>9. (\A i \in 1 .. 3 : text[i] = EscapedOpen[i]) <=> text[1] = "bs" /\ text[2] = "lb" /\ text[3] = "lb"
  BY <1>1, <1>8
<1>10. (\A i \in 1 .. 2 : text[i] = H[i]) <=> text[1] = "bs" /\ text[2] = "lb"
  BY <1>2, <1>8
<1>11. (\A i \in 1 .. 2 : text[i] = Open[i]) <=> text[1] = "lb" /\ text[2] = "lb"
  BY <1>3, <1>8
<1>12. StartsWith(text, EscapedOpen) <=> Escaped(text)
  BY <1>1, <1>4, <1>5, <1>9 DEF Escaped
<1>13. StartsWith(text, H) <=> Half(text)
  BY <1>2, <1>4, <1>6, <1>10 DEF Half
<1>14. StartsWith(text, Open) <=> Opens(text)
  BY <1>3, <1>4, <1>7, <1>11 DEF Opens
<1> QED
  BY <1>12, <1>13, <1>14 DEF H

(* What is parsed after an opening.                                        *)
ParsedIn(text) == ParseExpression(Rest(text, 2))
IsBad(segment) == segment.kind = "bad"

OpIs(f, text, literal) ==
  /\ text = <<>> => CompileOp(f, <<text, literal>>) = Flushed(literal)
  /\ Escaped(text) => CompileOp(f, <<text, literal>>) = f[<<Rest(text, 3), literal \o Open>>]
  /\ Half(text) /\ ~Escaped(text) =>
       CompileOp(f, <<text, literal>>) = f[<<Rest(text, 2), literal \o <<"bs", "lb">>>>]
  /\ Opens(text) =>
       CompileOp(f, <<text, literal>>) =
         IF IsBad(ParsedIn(text)[1]) THEN <<ParsedIn(text)[1]>>
         ELSE Flushed(literal) \o <<ParsedIn(text)[1]>> \o f[<<Rest(text, 2 + ParsedIn(text)[2]), <<>>>>]
  /\ IsPlain(text) => CompileOp(f, <<text, literal>>) = f[<<Tail(text), Append(literal, Head(text))>>]

LEMMA CompileOpIs ==
  ASSUME NEW f, NEW text \in Texts, NEW literal \in Texts
  PROVE  OpIs(f, text, literal)
<1> DEFINE at == <<text, literal>>
           a == StartsWith(text, EscapedOpen)
           h == StartsWith(text, <<"bs", "lb">>)
           o == StartsWith(text, Open)
           fa == f[<<Rest(text, 3), literal \o Open>>]
           fh == f[<<Rest(text, 2), literal \o <<"bs", "lb">>>>]
           fo == IF IsBad(ParsedIn(text)[1]) THEN <<ParsedIn(text)[1]>>
                 ELSE Flushed(literal) \o <<ParsedIn(text)[1]>> \o f[<<Rest(text, 2 + ParsedIn(text)[2]), <<>>>>]
           fp == f[<<Tail(text), Append(literal, Head(text))>>]
<1>1. CompileOp(f, at) = CASE text = <<>> -> Flushed(literal)
                           [] a -> fa
                           [] h /\ ~a -> fh
                           [] o -> fo
                           [] OTHER -> fp
  BY DEF CompileOp, ParsedIn, IsBad
<1>2. /\ a <=> Escaped(text)
      /\ h <=> Half(text)
      /\ o <=> Opens(text)
  BY StartsAre
<1>3. /\ Escaped(text) => Half(text) /\ ~Opens(text) /\ text # <<>>
      /\ Half(text) => ~Opens(text) /\ text # <<>>
      /\ Opens(text) => text # <<>>
      /\ IsPlain(text) => text # <<>> /\ ~Half(text) /\ ~Opens(text)
  BY DEF Escaped, Half, Opens, IsPlain
<1> HIDE DEF a, h, o, fa, fh, fo, fp, at
<1>4. text = <<>> => CompileOp(f, at) = Flushed(literal)
  BY <1>1, <1>2, <1>3
<1>5. Escaped(text) => CompileOp(f, at) = fa
  BY <1>1, <1>2, <1>3
<1>6. Half(text) /\ ~Escaped(text) => CompileOp(f, at) = fh
  BY <1>1, <1>2, <1>3
<1>7. Opens(text) => CompileOp(f, at) = fo
  BY <1>1, <1>2, <1>3
<1>8. IsPlain(text) => CompileOp(f, at) = fp
  BY <1>1, <1>2, <1>3
<1> QED
  BY <1>4, <1>5, <1>6, <1>7, <1>8 DEF at, fa, fh, fo, fp, OpIs

LEMMA PairIs ==
  ASSUME NEW a \in Texts, NEW b \in Texts
  PROVE  <<a, b>> \in TextPairs
  BY DEF TextPairs

LEMMA LessIsLeft ==
  ASSUME NEW text \in Texts, NEW literal \in Texts
  PROVE  /\ Escaped(text) => <<Rest(text, 3), literal \o Open>> \in TextPairs /\ Len(Rest(text, 3)) < Len(text)
         /\ Half(text) => <<Rest(text, 2), literal \o <<"bs", "lb">>>> \in TextPairs /\ Len(Rest(text, 2)) < Len(text)
         /\ Opens(text) => /\ ParsedIn(text)[1] \in Segments
                           /\ <<Rest(text, 2 + ParsedIn(text)[2]), <<>>>> \in TextPairs
                           /\ Len(Rest(text, 2 + ParsedIn(text)[2])) < Len(text)
         /\ text # <<>> => <<Tail(text), Append(literal, Head(text))>> \in TextPairs /\ Len(Tail(text)) < Len(text)
<1>1. Len(text) \in Nat /\ literal \in Seq(Characters) /\ text \in Seq(Characters)
  BY DEF Texts
<1>2. ASSUME NEW a \in Characters, NEW b \in Characters
      PROVE  literal \o <<a, b>> \in Texts
  <2>1. <<a, b>> \in Seq(Characters)
    BY ShortTexts
  <2> QED
    BY <1>1, <2>1, ConcatProperties DEF Texts
<1>3. ASSUME Escaped(text)
      PROVE  <<Rest(text, 3), literal \o Open>> \in TextPairs /\ Len(Rest(text, 3)) < Len(text)
  <2>1. Len(text) >= 3 /\ text[2] = "lb" /\ text[3] = "lb"
    BY <1>3 DEF Escaped
  <2>2. "lb" \in Characters
    BY <1>1, <2>1
  <2>3. literal \o Open \in Texts
    BY <1>2, <2>2 DEF Open
  <2>4. Rest(text, 3) \in Texts /\ Len(Rest(text, 3)) = Len(text) - 3
    BY <1>1, <2>1, RestOfText
  <2>5. <<Rest(text, 3), literal \o Open>> \in TextPairs
    BY <2>3, <2>4, PairIs, Zenon
  <2> QED
    BY <1>1, <2>4, <2>5
<1>4. ASSUME Half(text)
      PROVE  <<Rest(text, 2), literal \o <<"bs", "lb">>>> \in TextPairs /\ Len(Rest(text, 2)) < Len(text)
  <2>1. Len(text) >= 2 /\ text[1] = "bs" /\ text[2] = "lb"
    BY <1>4 DEF Half
  <2>2. "bs" \in Characters /\ "lb" \in Characters
    BY <1>1, <2>1
  <2>3. literal \o <<"bs", "lb">> \in Texts
    BY <1>2, <2>2
  <2>4. Rest(text, 2) \in Texts /\ Len(Rest(text, 2)) = Len(text) - 2
    BY <1>1, <2>1, RestOfText
  <2>5. <<Rest(text, 2), literal \o <<"bs", "lb">>>> \in TextPairs
    BY <2>3, <2>4, PairIs, Zenon
  <2> QED
    BY <1>1, <2>4, <2>5
<1>5. ASSUME Opens(text)
      PROVE  /\ ParsedIn(text)[1] \in Segments
             /\ <<Rest(text, 2 + ParsedIn(text)[2]), <<>>>> \in TextPairs
             /\ Len(Rest(text, 2 + ParsedIn(text)[2])) < Len(text)
  <2> DEFINE rest == Rest(text, 2)
             n    == ParsedIn(text)[2]
  <2>1. rest \in Texts /\ Len(rest) = Len(text) - 2 /\ Len(text) >= 2
    BY <1>1, <1>5, RestOfText DEF Opens
  <2>2. ParsedIn(text)[1] \in Segments /\ n \in Nat /\ n <= Len(rest)
    BY <2>1, ParsedIs DEF ParsedIn
  <2> HIDE DEF rest, n
  <2>3. 2 + n \in Nat /\ 2 + n <= Len(text)
    BY <1>1, <2>1, <2>2
  <2>4. Rest(text, 2 + n) \in Texts /\ Len(Rest(text, 2 + n)) = Len(text) - (2 + n)
    BY <2>3, RestOfText
  <2>5. Len(text) - (2 + n) < Len(text)
    BY <1>1, <2>2
  <2>6. <<>> \in Texts
    BY DEF Texts
  <2>7. <<Rest(text, 2 + n), <<>>>> \in TextPairs
    BY <2>4, <2>6, PairIs
  <2> QED
    BY <2>2, <2>4, <2>5, <2>7 DEF n
<1>6. ASSUME text # <<>>
      PROVE  <<Tail(text), Append(literal, Head(text))>> \in TextPairs /\ Len(Tail(text)) < Len(text)
  <2>1. Tail(text) \in Texts /\ Len(Tail(text)) = Len(text) - 1 /\ Head(text) \in Characters
    BY <1>1, <1>6, HeadTailProperties DEF Texts
  <2>2. Append(literal, Head(text)) \in Texts
    BY <1>1, <2>1, AppendProperties DEF Texts
  <2>3. <<Tail(text), Append(literal, Head(text))>> \in TextPairs
    BY <2>1, <2>2, PairIs, Zenon
  <2> QED
    BY <1>1, <2>1, <2>3
<1> QED
  BY <1>3, <1>4, <1>5, <1>6

LEMMA FlushedIs ==
  ASSUME NEW literal \in Texts
  PROVE  Flushed(literal) \in Seq(Segments)
<1>1. Literal(literal) \in Segments
  BY DEF Literal, Segments
<1>2. <<>> \in Seq(Segments) /\ <<Literal(literal)>> \in Seq(Segments)
  BY <1>1, ShortTexts
<1> QED
  BY <1>2 DEF Flushed, NoSegments

Following(literal, segment, segments) == Flushed(literal) \o <<segment>> \o segments

LEMMA CompiledAt ==
  ASSUME NEW text \in Texts, NEW literal \in Texts
  PROVE  Compiled[<<text, literal>>] = CompileOp(Compiled, <<text, literal>>)
<1>1. \A at \in TextPairs : LeftOf[at] \in Nat
  BY DEF LeftOf, TextPairs, Texts
<1>2. ASSUME NEW rest \in Texts, NEW read \in Texts
      PROVE  <<rest, read>> \in TextPairs /\ LeftOf[<<rest, read>>] = Len(rest)
  BY DEF LeftOf, TextPairs
<1>3. ASSUME NEW t, NEW l, <<t, l>> \in TextPairs
      PROVE  t \in Texts /\ l \in Texts /\ LeftOf[<<t, l>>] = Len(t)
  BY <1>3 DEF LeftOf, TextPairs
<1>4. Compiling!Smaller(TextPairs, LeftOf)
  <2>1. ASSUME NEW f, NEW g, NEW t \in Texts, NEW l \in Texts,
               \A y \in TextPairs : LeftOf[y] < LeftOf[<<t, l>>] => f[y] = g[y]
        PROVE  CompileOp(f, <<t, l>>) = CompileOp(g, <<t, l>>)
    <3>1. ASSUME NEW a, NEW b, <<a, b>> \in TextPairs, Len(a) < Len(t)
          PROVE  f[<<a, b>>] = g[<<a, b>>]
      <4>1. LeftOf[<<a, b>>] < LeftOf[<<t, l>>]
        BY <1>2, <1>3, <3>1
      <4> QED
        BY <2>1, <3>1, <4>1
    <3>0. OpIs(f, t, l) /\ OpIs(g, t, l)
      BY CompileOpIs
    <3>2. CASE t = <<>>
      BY <3>0, <3>2 DEF OpIs
    <3>3. CASE Escaped(t)
      <4>1. f[<<Rest(t, 3), l \o Open>>] = g[<<Rest(t, 3), l \o Open>>]
        BY <3>1, <3>3, LessIsLeft
      <4> QED
        BY <3>0, <3>3, <4>1 DEF OpIs
    <3>4. CASE Half(t) /\ ~Escaped(t)
      <4>1. f[<<Rest(t, 2), l \o <<"bs", "lb">>>>] = g[<<Rest(t, 2), l \o <<"bs", "lb">>>>]
        BY <3>1, <3>4, LessIsLeft
      <4> QED
        BY <3>0, <3>4, <4>1 DEF OpIs
    <3>5. CASE Opens(t)
      <4> DEFINE y == <<Rest(t, 2 + ParsedIn(t)[2]), <<>>>>
      <4>1. f[y] = g[y]
        BY <3>1, <3>5, LessIsLeft
      <4>2. CompileOp(f, <<t, l>>) = IF IsBad(ParsedIn(t)[1]) THEN <<ParsedIn(t)[1]>>
                                     ELSE Following(l, ParsedIn(t)[1], f[y])
        BY <3>0, <3>5 DEF OpIs, Following
      <4>3. CompileOp(g, <<t, l>>) = IF IsBad(ParsedIn(t)[1]) THEN <<ParsedIn(t)[1]>>
                                     ELSE Following(l, ParsedIn(t)[1], g[y])
        BY <3>0, <3>5 DEF OpIs, Following
      <4> HIDE DEF y
      <4> QED
        BY <4>1, <4>2, <4>3
    <3>6. CASE IsPlain(t)
      <4>1. f[<<Tail(t), Append(l, Head(t))>>] = g[<<Tail(t), Append(l, Head(t))>>]
        BY <3>1, <3>6, LessIsLeft DEF IsPlain
      <4> QED
        BY <3>0, <3>6, <4>1 DEF OpIs
    <3> QED
      BY <3>2, <3>3, <3>4, <3>5, <3>6 DEF IsPlain
  <2>2. ASSUME NEW f, NEW g, NEW at \in TextPairs, \A y \in TextPairs : LeftOf[y] < LeftOf[at] => f[y] = g[y]
        PROVE  CompileOp(f, at) = CompileOp(g, at)
    <3>1. PICK t \in Texts, l \in Texts : at = <<t, l>>
      BY DEF TextPairs
    <3>2. \A y \in TextPairs : LeftOf[y] < LeftOf[<<t, l>>] => f[y] = g[y]
      BY <2>2, <3>1
    <3> QED
      BY <2>1, <3>1, <3>2
  <2> QED
    BY <2>2 DEF Compiling!Smaller
<1>5. \E f : f = [at \in TextPairs |-> CompileOp(f, at)]
  BY <1>1, <1>4, Compiling!RecursiveFunction
<1>6. Compiled = [at \in TextPairs |-> CompileOp(Compiled, at)]
  BY <1>5 DEF Compiled, CompileOp, TextPairs, Texts, Characters
<1> QED
  BY <1>2, <1>6

LEMMA CompiledIs ==
  ASSUME NEW text \in Texts, NEW literal \in Texts
  PROVE  Compiled[<<text, literal>>] \in Seq(Segments)
<1> DEFINE good == {t \in Texts : \A l \in Texts : Compiled[<<t, l>>] \in Seq(Segments)}
<1>1. \A t \in Texts : LengthOf[t] \in Nat /\ LengthOf[t] = Len(t)
  BY DEF LengthOf, Texts
<1>2. ASSUME NEW t \in Texts, \A y \in Texts : LengthOf[y] < LengthOf[t] => y \in good
      PROVE  t \in good
  <2>1. ASSUME NEW a, NEW b, <<a, b>> \in TextPairs, Len(a) < Len(t)
        PROVE  Compiled[<<a, b>>] \in Seq(Segments)
    <3>1. a \in Texts /\ b \in Texts
      BY <2>1 DEF TextPairs
    <3>2. a \in good
      BY <1>1, <1>2, <2>1, <3>1
    <3> QED
      BY <3>1, <3>2
  <2>2. ASSUME NEW l \in Texts
        PROVE  Compiled[<<t, l>>] \in Seq(Segments)
    <3> HIDE DEF good
    <3>1. Compiled[<<t, l>>] = CompileOp(Compiled, <<t, l>>)
      BY CompiledAt
    <3>0. OpIs(Compiled, t, l)
      BY CompileOpIs
    <3>2. CASE t = <<>>
      BY <3>0, <3>1, <3>2, FlushedIs DEF OpIs
    <3>3. CASE Escaped(t)
      <4>1. Compiled[<<Rest(t, 3), l \o Open>>] \in Seq(Segments)
        BY <2>1, <3>3, LessIsLeft
      <4> QED
        BY <3>0, <3>1, <3>3, <4>1 DEF OpIs
    <3>4. CASE Half(t) /\ ~Escaped(t)
      <4>1. Compiled[<<Rest(t, 2), l \o <<"bs", "lb">>>>] \in Seq(Segments)
        BY <2>1, <3>4, LessIsLeft
      <4> QED
        BY <3>0, <3>1, <3>4, <4>1 DEF OpIs
    <3>5. CASE Opens(t)
      <4> DEFINE y == <<Rest(t, 2 + ParsedIn(t)[2]), <<>>>>
      <4>1. Compiled[y] \in Seq(Segments) /\ ParsedIn(t)[1] \in Segments
        BY <2>1, <3>5, LessIsLeft
      <4>2. Compiled[<<t, l>>] = IF IsBad(ParsedIn(t)[1]) THEN <<ParsedIn(t)[1]>>
                                 ELSE Flushed(l) \o <<ParsedIn(t)[1]>> \o Compiled[y]
        BY <3>0, <3>1, <3>5 DEF OpIs
      <4> HIDE DEF y
      <4>3. Flushed(l) \in Seq(Segments) /\ <<ParsedIn(t)[1]>> \in Seq(Segments)
        BY <4>1, FlushedIs, ShortTexts
      <4>4. Flushed(l) \o <<ParsedIn(t)[1]>> \in Seq(Segments)
        BY <4>3, ConcatProperties
      <4>5. (Flushed(l) \o <<ParsedIn(t)[1]>>) \o Compiled[y] \in Seq(Segments)
        BY <4>1, <4>4, ConcatProperties
      <4> QED
        BY <4>2, <4>3, <4>5
    <3>6. CASE IsPlain(t)
      <4>1. Compiled[<<Tail(t), Append(l, Head(t))>>] \in Seq(Segments)
        BY <2>1, <3>6, LessIsLeft DEF IsPlain
      <4> QED
        BY <3>0, <3>1, <3>6, <4>1 DEF OpIs
    <3> QED
      BY <3>2, <3>3, <3>4, <3>5, <3>6 DEF IsPlain
  <2> QED
    BY <2>2
<1>3. Texts \subseteq good
  <2> HIDE DEF good
  <2>1. \A t \in Texts : LengthOf[t] \in Nat
    BY <1>1
  <2>2. \A t \in Texts : (\A y \in Texts : LengthOf[y] < LengthOf[t] => y \in good) => t \in good
    BY <1>2
  <2> QED
    BY <2>1, <2>2, Splitting!SmallerFirst
<1> QED
  BY <1>3

-----------------------------------------------------------------------------
(* A value in a URL: the template rendered with it, side by side with the  *)
(* template rendered with one that says nothing.                           *)
CONSTANT Value

WithX == WithValue(<<"x">>)
UrlOp(r, segment)   == IF r.error # "none" THEN r ELSE RenderSegment(r, "url", segment, WithValue(Value), NoEnv)
PlainOp(r, segment) == IF r.error # "none" THEN r ELSE RenderSegment(r, "url", segment, WithX, NoEnv)
WalkOp(cursor, name) ==
  IF IsMissing(cursor) \/ name \notin DOMAIN cursor.fields THEN Missing ELSE cursor.fields[name]

Placing  == INSTANCE FoldFacts WITH Op <- UrlOp
Standing == INSTANCE FoldFacts WITH Op <- PlainOp
Walking  == INSTANCE FoldFacts WITH Op <- WalkOp
Shaping  == INSTANCE FoldFacts WITH Op <- Structure
Tracking == INSTANCE FoldFacts WITH Op <- UrlChar

(* Two readings of a path, one where the value stands and one where an x   *)
(* does, find something or nothing alike.                                  *)
Bare(text) == Json(text, NoMembers)
SameFind(a, b) ==
  \/ a = WithValue(Value) /\ b = WithX
  \/ a = Bare(Value) /\ b = Bare(<<"x">>)
  \/ a = Missing /\ b = Missing

LEMMA JsonsAre ==
  /\ IsMissing(Missing)
  /\ \A text, fields : /\ ~IsMissing(Json(text, fields)) /\ Json(text, fields).fields = fields
                       /\ Json(text, fields).text = text
  BY DEF IsMissing, Missing, Json

LEMMA SameStep ==
  ASSUME NEW a, NEW b, SameFind(a, b), NEW name
  PROVE  SameFind(WalkOp(a, name), WalkOp(b, name))
<1> DEFINE A == [n \in {<<"x">>} |-> Bare(Value)]
           B == [n \in {<<"x">>} |-> Bare(<<"x">>)]
<1>1. WithValue(Value) = Json(<<>>, A) /\ WithX = Json(<<>>, B)
  BY DEF WithValue, WithMember, WithX, Bare
<1>2. DOMAIN A = {<<"x">>} /\ DOMAIN B = {<<"x">>} /\ A[<<"x">>] = Bare(Value) /\ B[<<"x">>] = Bare(<<"x">>)
  OBVIOUS
<1> HIDE DEF A, B
<1>3. DOMAIN NoMembers = {}
  BY DEF NoMembers
<1>4. CASE a = WithValue(Value) /\ b = WithX
  <2>1. ~IsMissing(a) /\ ~IsMissing(b) /\ a.fields = A /\ b.fields = B
    BY <1>1, <1>4, JsonsAre
  <2>2. CASE name = <<"x">>
    <3>1. WalkOp(a, name) = Bare(Value) /\ WalkOp(b, name) = Bare(<<"x">>)
      BY <1>2, <2>1, <2>2 DEF WalkOp
    <3> QED
      BY <3>1 DEF SameFind
  <2>3. CASE name # <<"x">>
    <3>1. WalkOp(a, name) = Missing /\ WalkOp(b, name) = Missing
      BY <1>2, <2>1, <2>3 DEF WalkOp
    <3> QED
      BY <3>1 DEF SameFind
  <2> QED
    BY <2>2, <2>3
<1>5. CASE a = Bare(Value) /\ b = Bare(<<"x">>)
  <2>1. a.fields = NoMembers /\ b.fields = NoMembers
    BY <1>5, JsonsAre DEF Bare
  <2>2. WalkOp(a, name) = Missing /\ WalkOp(b, name) = Missing
    BY <1>3, <2>1 DEF WalkOp
  <2> QED
    BY <2>2 DEF SameFind
<1>6. CASE a = Missing /\ b = Missing
  <2>1. WalkOp(a, name) = Missing /\ WalkOp(b, name) = Missing
    BY <1>6, JsonsAre DEF WalkOp
  <2> QED
    BY <2>1 DEF SameFind
<1> QED
  BY <1>4, <1>5, <1>6 DEF SameFind

LEMMA WalkIs ==
  ASSUME NEW json, NEW S, NEW path \in Seq(S)
  PROVE  WalkPath(json, path) = Walking!Fold(json, path, Len(path))
<1>1. Len(path) \in Nat /\ DOMAIN path = 1 .. Len(path)
  OBVIOUS
<1> DEFINE n == Len(path)
<1> HIDE DEF n
<1>2. WalkPath(json, path) = Walking!Fold(json, path, n)
  BY <1>1 DEF n, WalkPath, Walking!Fold, Walking!Solution, Walking!Solves, Walking!Folded, Walking!Max,
     FoldLeft, MapThenFoldSet, FoldFunction, Max, WalkOp
<1> QED
  BY <1>2 DEF n

LEMMA WalksAlike ==
  ASSUME NEW S, NEW path \in Seq(S)
  PROVE  SameFind(WalkPath(WithValue(Value), path), WalkPath(WithX, path))
<1> DEFINE n == Len(path)
<1>1. n \in Nat
  OBVIOUS
<1>2. /\ WalkPath(WithValue(Value), path) = Walking!Fold(WithValue(Value), path, n)
      /\ WalkPath(WithX, path) = Walking!Fold(WithX, path, n)
  BY WalkIs
<1> HIDE DEF n
<1>3. PICK at : Walking!Trace(at, WithValue(Value), path, n) /\ Walking!Fold(WithValue(Value), path, n) = at[n]
  BY <1>1, Walking!FoldTrace
<1>4. PICK bt : Walking!Trace(bt, WithX, path, n) /\ Walking!Fold(WithX, path, n) = bt[n]
  BY <1>1, Walking!FoldTrace
<1> DEFINE good == {k \in Nat : k <= n => SameFind(at[k], bt[k])}
<1>5. 0 \in good
  <2>1. at[0] = WithValue(Value) /\ bt[0] = WithX
    BY <1>3, <1>4 DEF Walking!Trace
  <2>2. SameFind(at[0], bt[0])
    BY <2>1 DEF SameFind
  <2> QED
    BY <2>2
<1>6. ASSUME NEW k \in Nat, k \in good
      PROVE  k + 1 \in good
  <2> SUFFICES ASSUME k + 1 <= n PROVE SameFind(at[k + 1], bt[k + 1])
    OBVIOUS
  <2>1. k + 1 \in 1 .. n /\ (k + 1) - 1 = k /\ SameFind(at[k], bt[k])
    BY <1>1, <1>6
  <2>2. at[k + 1] = WalkOp(at[k], path[k + 1]) /\ bt[k + 1] = WalkOp(bt[k], path[k + 1])
    BY <1>3, <1>4, <2>1 DEF Walking!Trace
  <2> QED
    BY <2>1, <2>2, SameStep
<1> HIDE DEF good
<1>7. n \in good
  BY <1>1, <1>5, <1>6, Walking!NaturalSets
<1> QED
  BY <1>1, <1>2, <1>3, <1>4, <1>7 DEF good

(* What a percent-encoded value adds to a URL.                             *)
Shown == Characters \cup {"x"}
UrlCharacters == Shown \cup {"percent"} \cup {c \o "-hex" : c \in Shown}

NoDelimiter(text) == \A i \in 1 .. Len(text) : text[i] \notin Delimiters
CodesDelimitNothing(value) ==
  \A i \in 1 .. Len(value) : value[i] \in KeptInUrl \/ value[i] \o "-hex" \notin Delimiters

LEMMA ShapeStays ==
  ASSUME NEW T, NEW text \in Seq(T), NoDelimiter(text), NEW shape
  PROVE  Shaping!Fold(shape, text, Len(text)) = shape
<1>1. Len(text) \in Nat
  OBVIOUS
<1> DEFINE P == {shape}
<1>2. \A p \in P : \A i \in 1 .. Len(text) : Structure(p, text[i]) \in P
  BY DEF NoDelimiter, Structure
<1>3. shape \in P
  OBVIOUS
<1> HIDE DEF P
<1>4. Shaping!Fold(shape, text, Len(text)) \in P
  BY <1>1, <1>2, <1>3, Shaping!FoldStays
<1> QED
  BY <1>4 DEF P

LEMMA UrlStays ==
  ASSUME NEW T, NEW text \in Seq(T), NEW u, u.inPath
  PROVE  UrlAdvance(u, text) = u
<1> DEFINE n == Len(text)
<1>1. n \in Nat /\ DOMAIN text = 1 .. n
  OBVIOUS
<1> HIDE DEF n
<1> DEFINE P == {u}
<1>2. \A p \in P : \A i \in 1 .. n : UrlChar(p, text[i]) \in P
  BY DEF UrlChar
<1>3. u \in P
  OBVIOUS
<1> HIDE DEF P
<1>4. Tracking!Fold(u, text, n) \in P
  BY <1>1, <1>2, <1>3, Tracking!FoldStays
<1>5. UrlAdvance(u, text) = Tracking!Fold(u, text, n)
  BY <1>1 DEF UrlAdvance, Tracking!Fold, Tracking!Solution, Tracking!Solves, Tracking!Folded, Tracking!Max,
     FoldLeft, MapThenFoldSet, FoldFunction, Max
<1> QED
  BY <1>4, <1>5 DEF P

CodeOf(c) == IF c \in KeptInUrl THEN <<c>> ELSE <<"percent", c \o "-hex">>

LEMMA CodeIs ==
  ASSUME NEW c \in Shown, c \in KeptInUrl \/ c \o "-hex" \notin Delimiters
  PROVE  CodeOf(c) \in Seq(UrlCharacters) /\ NoDelimiter(CodeOf(c))
<1>1. c \in UrlCharacters /\ "percent" \in UrlCharacters /\ c \o "-hex" \in UrlCharacters
  BY DEF UrlCharacters
<1> DEFINE hex == c \o "-hex"
<1> HIDE DEF hex
<1>2. hex \in UrlCharacters /\ (c \in KeptInUrl \/ hex \notin Delimiters)
  BY <1>1 DEF hex
<1>3. CASE c \in KeptInUrl
  <2>1. CodeOf(c) = <<c>>
    BY <1>3 DEF CodeOf
  <2>2. c \notin Delimiters
    BY <1>3 DEF KeptInUrl, Letters, Delimiters
  <2> QED
    BY <1>1, <2>1, <2>2 DEF NoDelimiter
<1>4. CASE c \notin KeptInUrl
  <2>1. CodeOf(c) = <<"percent", hex>>
    BY <1>4 DEF CodeOf, hex
  <2>2. "percent" \notin Delimiters
    BY DEF Delimiters
  <2>3. <<"percent", hex>> \in Seq(UrlCharacters) /\ Len(<<"percent", hex>>) = 2
    BY <1>1, <1>2
  <2>4. \A i \in 1 .. 2 : <<"percent", hex>>[i] \notin Delimiters
    BY <1>2, <1>4, <2>2
  <2> QED
    BY <2>1, <2>3, <2>4 DEF NoDelimiter
<1> QED
  BY <1>3, <1>4

LEMMA EncodedIs ==
  ASSUME NEW value \in Seq(Shown), CodesDelimitNothing(value)
  PROVE  PercentEncode(value) \in Seq(UrlCharacters) /\ NoDelimiter(PercentEncode(value))
<1> DEFINE n == Len(value)
           codes == [i \in 1 .. n |-> CodeOf(value[i])]
           flat == Flattening(codes, n)
<1>1. n \in Nat /\ DOMAIN value = 1 .. n /\ \A i \in 1 .. n : value[i] \in Shown
  OBVIOUS
<1>2. PercentEncode(value) = FlattenSeq(codes)
  BY <1>1 DEF PercentEncode, CodeOf
<1>3. \A i \in 1 .. n : codes[i] \in Seq(UrlCharacters) /\ NoDelimiter(codes[i])
  BY <1>1, CodeIs DEF CodesDelimitNothing
<1>4. DOMAIN codes = 1 .. n /\ Len(codes) = n
  BY <1>1
<1> HIDE DEF codes
<1>5. CASE n = 0
  <2>1. FlattenSeq(codes) = codes
    BY <1>4, <1>5 DEF FlattenSeq
  <2>2. codes \in Seq(UrlCharacters) /\ Len(codes) = 0
    BY <1>4, <1>5
  <2> HIDE DEF n
  <2> QED
    BY <1>2, <2>1, <2>2 DEF NoDelimiter
<1>6. CASE n # 0
  <2> HIDE DEF n
  <2>1. Flattens(flat, codes, n)
    BY <1>1, <1>6, FlatteningIs
  <2>2. FlattenSeq(codes) = flat[n]
    BY <1>4, <1>6 DEF FlattenSeq, Flattening, Joined
  <2> HIDE DEF flat
  <2> DEFINE good == {k \in Nat : k + 1 <= n => flat[k + 1] \in Seq(UrlCharacters) /\ NoDelimiter(flat[k + 1])}
  <2>3. 0 \in good
    <3>1. 1 \in 1 .. n /\ flat[1] = codes[1]
      BY <1>1, <1>6, <2>1 DEF Flattens
    <3> QED
      BY <1>3, <3>1
  <2>4. ASSUME NEW k \in Nat, k \in good
        PROVE  k + 1 \in good
    <3> SUFFICES ASSUME k + 1 + 1 <= n
                 PROVE  flat[k + 1 + 1] \in Seq(UrlCharacters) /\ NoDelimiter(flat[k + 1 + 1])
      OBVIOUS
    <3> DEFINE m == k + 1
    <3>1. m + 1 \in 2 .. n /\ m + 1 \in 1 .. n /\ (m + 1) - 1 = m /\ flat[m] \in Seq(UrlCharacters) /\ NoDelimiter(flat[m])
      BY <1>1, <2>4
    <3> HIDE DEF m
    <3>2. codes[m + 1] \in Seq(UrlCharacters) /\ NoDelimiter(codes[m + 1])
      BY <1>3, <3>1
    <3>3. flat[m + 1] = flat[m] \o codes[m + 1]
      BY <2>1, <3>1 DEF Flattens, Joined
    <3> DEFINE a == flat[m]
               b == codes[m + 1]
    <3> HIDE DEF a, b
    <3>4. a \in Seq(UrlCharacters) /\ b \in Seq(UrlCharacters) /\ NoDelimiter(a) /\ NoDelimiter(b) /\ flat[m + 1] = a \o b
      BY <3>1, <3>2, <3>3 DEF a, b
    <3>5. a \o b \in Seq(UrlCharacters) /\ Len(a \o b) = Len(a) + Len(b)
          /\ (\A i \in 1 .. Len(a) : (a \o b)[i] = a[i])
          /\ \A i \in 1 .. Len(b) : (a \o b)[Len(a) + i] = b[i]
      BY <3>4, ConcatProperties
    <3>6. \A i \in 1 .. Len(a \o b) : i \in 1 .. Len(a) \/ (i - Len(a) \in 1 .. Len(b) /\ Len(a) + (i - Len(a)) = i)
      BY <3>4, <3>5
    <3>7. NoDelimiter(a \o b)
      BY <3>4, <3>5, <3>6 DEF NoDelimiter
    <3> QED
      BY <3>4, <3>5, <3>7 DEF m
  <2> HIDE DEF good
  <2>5. n - 1 \in Nat /\ n - 1 + 1 = n
    BY <1>1, <1>6
  <2>6. n - 1 \in good
    BY <2>3, <2>4, <2>5, Shaping!NaturalSets
  <2>7. flat[n] \in Seq(UrlCharacters) /\ NoDelimiter(flat[n])
    BY <1>1, <2>5, <2>6 DEF good
  <2> QED
    BY <1>2, <2>2, <2>7
<1> QED
  BY <1>5, <1>6

(* Two renderings of a URL, one of which has an x where the other has the  *)
(* value.                                                                  *)
Rendering(r) == r = [out |-> r.out, shell |-> r.shell, url |-> r.url, error |-> r.error]
ShapeOf(out) == Shaping!Fold(<<>>, out, Len(out))

RenderedAlike(r, q) ==
  /\ Rendering(r) /\ Rendering(q)
  /\ r.out \in Seq(UrlCharacters) /\ q.out \in Seq(UrlCharacters)
  /\ r.url = q.url /\ r.error = q.error
  /\ ShapeOf(r.out) = ShapeOf(q.out)

LEMMA StartsAlike == RenderedAlike(Started, Started)
<1>1. Rendering(Started) /\ Started.out = <<>>
  BY DEF Started, Rendering
<1>2. <<>> \in Seq(UrlCharacters)
  OBVIOUS
<1> QED
  BY <1>1, <1>2 DEF RenderedAlike

LEMMA RefusedAlike ==
  ASSUME NEW r, NEW q, RenderedAlike(r, q), NEW kind
  PROVE  RenderedAlike(Refused(r, kind), Refused(q, kind))
<1>1. ASSUME NEW s, Rendering(s)
      PROVE  /\ Rendering(Refused(s, kind)) /\ Refused(s, kind).out = s.out
             /\ Refused(s, kind).url = s.url /\ Refused(s, kind).error = kind
  <2> DEFINE a == s.out
             b == s.shell
             c == s.url
             d == s.error
  <2>1. s = [out |-> a, shell |-> b, url |-> c, error |-> d]
    BY <1>1 DEF Rendering
  <2> HIDE DEF a, b, c, d
  <2>2. Refused(s, kind) = [out |-> a, shell |-> b, url |-> c, error |-> kind]
    BY <2>1 DEF Refused
  <2> QED
    BY <2>1, <2>2 DEF Rendering
<1> QED
  BY <1>1 DEF RenderedAlike

(* What is added to both leaves them alike if it has the same delimiters.  *)
Longer(r, text, url) == [out |-> r.out \o text, shell |-> r.shell, url |-> url, error |-> r.error]

LEMMA LongerAlike ==
  ASSUME NEW r, NEW q, RenderedAlike(r, q), NEW url, NEW x \in Seq(UrlCharacters), NEW y \in Seq(UrlCharacters),
         x = y \/ (NoDelimiter(x) /\ NoDelimiter(y))
  PROVE  RenderedAlike(Longer(r, x, url), Longer(q, y, url))
<1>1. ASSUME NEW s \in Seq(UrlCharacters), NEW t \in Seq(UrlCharacters)
      PROVE  s \o t \in Seq(UrlCharacters) /\ ShapeOf(s \o t) = Shaping!Fold(ShapeOf(s), t, Len(t))
  <2>1. s \o t \in Seq(UrlCharacters)
    BY ConcatProperties
  <2>2. ShapeOf(s \o t) = Shaping!Fold(Shaping!Fold(<<>>, s, Len(s)), t, Len(t))
    BY Shaping!FoldOfJoined DEF ShapeOf
  <2> QED
    BY <2>1, <2>2 DEF ShapeOf
<1>2. r.out \in Seq(UrlCharacters) /\ q.out \in Seq(UrlCharacters) /\ ShapeOf(r.out) = ShapeOf(q.out) /\ r.error = q.error
  BY DEF RenderedAlike
<1> DEFINE shape == ShapeOf(r.out)
<1>3. ShapeOf(r.out \o x) = Shaping!Fold(shape, x, Len(x)) /\ ShapeOf(q.out \o y) = Shaping!Fold(shape, y, Len(y))
  BY <1>1, <1>2
<1> HIDE DEF shape
<1>4. Shaping!Fold(shape, x, Len(x)) = Shaping!Fold(shape, y, Len(y))
  <2>1. CASE x = y
    BY <2>1
  <2>2. CASE NoDelimiter(x) /\ NoDelimiter(y)
    <3>1. Shaping!Fold(shape, x, Len(x)) = shape
      BY <2>2, ShapeStays
    <3>2. Shaping!Fold(shape, y, Len(y)) = shape
      BY <2>2, ShapeStays
    <3> QED
      BY <3>1, <3>2
  <2> QED
    BY <2>1, <2>2
<1>5. r.out \o x \in Seq(UrlCharacters) /\ q.out \o y \in Seq(UrlCharacters)
  BY <1>1, <1>2
<1> DEFINE a == r.out \o x
           b == q.out \o y
<1>6. a \in Seq(UrlCharacters) /\ b \in Seq(UrlCharacters) /\ ShapeOf(a) = ShapeOf(b)
  BY <1>3, <1>4, <1>5
<1>7. Longer(r, x, url) = [out |-> a, shell |-> r.shell, url |-> url, error |-> r.error]
  BY DEF Longer
<1>8. Longer(q, y, url) = [out |-> b, shell |-> q.shell, url |-> url, error |-> q.error]
  BY DEF Longer
<1> HIDE DEF a, b
<1> QED
  BY <1>2, <1>6, <1>7, <1>8 DEF RenderedAlike, Rendering

LEMMA WrittenIs ==
  ASSUME NEW r, Rendering(r), NEW text
  PROVE  Written(r, "url", text) = Longer(r, text, UrlAdvance(r.url, text))
<1> DEFINE a == r.out
           b == r.shell
           c == r.url
           d == r.error
           out == a \o text
           url == UrlAdvance(c, text)
<1>1. r = [out |-> a, shell |-> b, url |-> c, error |-> d]
  BY DEF Rendering
<1>2. Written(r, "url", text) = [r EXCEPT !.out = out, !.shell = b, !.url = url]
  BY <1>1 DEF Written
<1>3. Longer(r, text, UrlAdvance(r.url, text)) = [out |-> out, shell |-> b, url |-> url, error |-> d]
  BY DEF Longer
<1> HIDE DEF a, b, c, d, out, url
<1> QED
  BY <1>1, <1>2, <1>3

RecordIs(r, a, b, c, d) == r = [out |-> a, shell |-> b, url |-> c, error |-> d]

LEMMA Changed ==
  ASSUME NEW r, NEW a, NEW b, NEW c, NEW d, RecordIs(r, a, b, c, d), NEW x, NEW y
  PROVE  RecordIs([r EXCEPT !.out = x, !.url = y], x, b, y, d)
<1> DEFINE h == [r EXCEPT !.out = x]
<1>1. h = [out |-> x, shell |-> b, url |-> c, error |-> d]
  BY DEF RecordIs
<1>2. [r EXCEPT !.out = x, !.url = y] = [h EXCEPT !.url = y]
  OBVIOUS
<1> HIDE DEF h
<1>3. [h EXCEPT !.url = y] = [out |-> x, shell |-> b, url |-> y, error |-> d]
  BY <1>1
<1> QED
  BY <1>2, <1>3 DEF RecordIs

LEMMA PlacedIs ==
  ASSUME NEW r, Rendering(r), NEW value
  PROVE  /\ ~r.url.inPath => Placed(r, "url", value) = Refused(r, "ValueInUrlAuthority")
         /\ r.url.inPath =>
              Placed(r, "url", value) =
                Longer(r, PercentEncode(value), UrlAdvance(r.url, PercentEncode(value)))
<1> DEFINE a == r.out
           b == r.shell
           c == r.url
           d == r.error
           code == PercentEncode(value)
           out == a \o code
           url == UrlAdvance(c, code)
<1>1. r = [out |-> a, shell |-> b, url |-> c, error |-> d]
  BY DEF Rendering
<1>2. ~r.url.inPath => Placed(r, "url", value) = Refused(r, "ValueInUrlAuthority")
  BY DEF Placed
<1>3. r.url.inPath => Placed(r, "url", value) = [r EXCEPT !.out = out, !.url = url]
  BY <1>1 DEF Placed
<1>4. Longer(r, PercentEncode(value), UrlAdvance(r.url, PercentEncode(value)))
        = [out |-> out, shell |-> b, url |-> url, error |-> d]
  BY DEF Longer
<1>5. [r EXCEPT !.out = out, !.url = url] = [out |-> out, shell |-> b, url |-> url, error |-> d]
  <2> HIDE DEF a, b, c, d, out, url
  <2>1. RecordIs(r, a, b, c, d)
    BY <1>1 DEF RecordIs
  <2>2. RecordIs([r EXCEPT !.out = out, !.url = url], out, b, url, d)
    BY <2>1, Changed
  <2> QED
    BY <2>2 DEF RecordIs
<1> QED
  BY <1>2, <1>3, <1>4, <1>5

LEMMA StepAlike ==
  ASSUME Value \in Texts, CodesDelimitNothing(Value),
         NEW r, NEW q, RenderedAlike(r, q), NEW segment \in Segments, ~IsBad(segment)
  PROVE  RenderedAlike(UrlOp(r, segment), PlainOp(q, segment))
<1>1. Rendering(r) /\ Rendering(q) /\ r.url = q.url /\ r.error = q.error
  BY DEF RenderedAlike
<1>2. Texts \subseteq Seq(UrlCharacters)
  BY DEF Texts, Shown, UrlCharacters
<1>8. Texts \subseteq Seq(Shown)
  BY DEF Texts, Shown
<1>3. CASE r.error # "none"
  <2>1. UrlOp(r, segment) = r /\ PlainOp(q, segment) = q
    BY <1>1, <1>3 DEF UrlOp, PlainOp
  <2> QED
    BY <2>1
<1>4. CASE r.error = "none" /\ segment.kind = "literal"
  <2> DEFINE text == segment.text
  <2>1. text \in Seq(UrlCharacters)
    BY <1>2, <1>4 DEF Segments
  <2>2. UrlOp(r, segment) = Written(r, "url", text) /\ PlainOp(q, segment) = Written(q, "url", text)
    BY <1>1, <1>4 DEF UrlOp, PlainOp, RenderSegment
  <2> HIDE DEF text
  <2> DEFINE url == UrlAdvance(r.url, text)
  <2>3. UrlOp(r, segment) = Longer(r, text, url) /\ PlainOp(q, segment) = Longer(q, text, url)
    BY <1>1, <2>2, WrittenIs
  <2> HIDE DEF url
  <2> QED
    BY <2>1, <2>3, LongerAlike
<1>5. CASE r.error = "none" /\ segment.kind = "env"
  <2>1. segment.name \notin DOMAIN NoEnv
    BY DEF NoEnv
  <2>2. UrlOp(r, segment) = Refused(r, "EnvNotSet") /\ PlainOp(q, segment) = Refused(q, "EnvNotSet")
    BY <1>1, <1>5, <2>1 DEF UrlOp, PlainOp, RenderSegment
  <2> QED
    BY <2>2, RefusedAlike
<1>6. CASE r.error = "none" /\ segment.kind = "notification"
  <2> DEFINE a == WalkPath(WithValue(Value), segment.path)
             b == WalkPath(WithX, segment.path)
  <2>1. segment.path \in Seq(Texts)
    BY <1>6 DEF Segments
  <2>2. SameFind(a, b)
    BY <2>1, WalksAlike
  <2>3. /\ UrlOp(r, segment) = IF IsMissing(a) THEN Refused(r, "Missing") ELSE Placed(r, "url", a.text)
        /\ PlainOp(q, segment) = IF IsMissing(b) THEN Refused(q, "Missing") ELSE Placed(q, "url", b.text)
    BY <1>1, <1>6 DEF UrlOp, PlainOp, RenderSegment
  <2> HIDE DEF a, b
  <2>4. CASE a = Missing /\ b = Missing
    <3>1. UrlOp(r, segment) = Refused(r, "Missing") /\ PlainOp(q, segment) = Refused(q, "Missing")
      BY <2>3, <2>4, JsonsAre
    <3> QED
      BY <3>1, RefusedAlike
  <2>5. ASSUME NEW v \in Seq(Shown), NEW w \in Seq(Shown), ~IsMissing(a), ~IsMissing(b), a.text = v, b.text = w,
               CodesDelimitNothing(v), CodesDelimitNothing(w)
        PROVE  RenderedAlike(UrlOp(r, segment), PlainOp(q, segment))
    <3>1. UrlOp(r, segment) = Placed(r, "url", v) /\ PlainOp(q, segment) = Placed(q, "url", w)
      BY <2>3, <2>5
    <3>2. CASE ~r.url.inPath
      <4>1. Placed(r, "url", v) = Refused(r, "ValueInUrlAuthority")
        BY <1>1, <3>2, PlacedIs
      <4>2. Placed(q, "url", w) = Refused(q, "ValueInUrlAuthority")
        BY <1>1, <3>2, PlacedIs
      <4> QED
        BY <3>1, <4>1, <4>2, RefusedAlike
    <3>3. CASE r.url.inPath
      <4> DEFINE x == PercentEncode(v)
                 y == PercentEncode(w)
      <4>1. x \in Seq(UrlCharacters) /\ NoDelimiter(x)
        BY <2>5, EncodedIs
      <4>2. y \in Seq(UrlCharacters) /\ NoDelimiter(y)
        BY <2>5, EncodedIs
      <4>3. Placed(r, "url", v) = Longer(r, x, UrlAdvance(r.url, x))
        BY <1>1, <3>3, PlacedIs
      <4>4. Placed(q, "url", w) = Longer(q, y, UrlAdvance(q.url, y))
        BY <1>1, <3>3, PlacedIs
      <4> HIDE DEF x, y
      <4>5. UrlAdvance(r.url, x) = r.url
        BY <3>3, <4>1, UrlStays
      <4>6. UrlAdvance(q.url, y) = r.url
        BY <1>1, <3>3, <4>2, UrlStays
      <4>7. RenderedAlike(Longer(r, x, r.url), Longer(q, y, r.url))
        BY <4>1, <4>2, LongerAlike
      <4> QED
        BY <3>1, <4>3, <4>4, <4>5, <4>6, <4>7
    <3> QED
      BY <3>2, <3>3
  <2>6. CASE a = WithValue(Value) /\ b = WithX
    <3>1. ~IsMissing(a) /\ ~IsMissing(b) /\ a.text = <<>> /\ b.text = <<>>
      BY <2>6, JsonsAre DEF WithX, WithValue, WithMember
    <3>2. <<>> \in Seq(Shown) /\ CodesDelimitNothing(<<>>)
      BY DEF CodesDelimitNothing
    <3> QED
      BY <2>5, <3>1, <3>2
  <2>7. CASE a = Bare(Value) /\ b = Bare(<<"x">>)
    <3>1. ~IsMissing(a) /\ ~IsMissing(b) /\ a.text = Value /\ b.text = <<"x">>
      BY <2>7, JsonsAre DEF Bare
    <3>2. <<"x">> \in Seq(Shown) /\ CodesDelimitNothing(<<"x">>)
      BY DEF CodesDelimitNothing, KeptInUrl, Letters, Shown
    <3> QED
      BY <1>8, <2>5, <3>1, <3>2
  <2> QED
    BY <2>2, <2>4, <2>6, <2>7 DEF SameFind
<1>7. segment.kind \in {"literal", "notification", "env"}
  BY DEF Segments, IsBad
<1> QED
  BY <1>3, <1>4, <1>5, <1>6, <1>7

(* Where a template lets a value of a notification stand in a URL, it      *)
(* changes neither the authority nor the number of segments, and begins no *)
(* query and no fragment; whether it may stand there does not depend on    *)
(* what it is (template/url.rs).  The template may be any text, and the    *)
(* value any, given that the digits of a percent-encoded character are     *)
(* none of those that delimit the parts of a URL.                          *)
THEOREM UrlsKeepTheirShape ==
  ASSUME Value \in Texts, CodesDelimitNothing(Value), NEW text \in Texts
  PROVE  UrlKeepsItsShape(text, Value)
<1> DEFINE segments == Compile(text)
           n == Len(segments)
           r == RenderText(text, "url", WithValue(Value), NoEnv)
           q == RenderText(text, "url", WithX, NoEnv)
<1>1. segments \in Seq(Segments)
  <2>1. <<>> \in Texts
    BY DEF Texts
  <2> QED
    BY <2>1, CompiledIs DEF Compile
<1>2. n \in Nat /\ DOMAIN segments = 1 .. n /\ \A i \in 1 .. n : segments[i] \in Segments
  BY <1>1
<1> HIDE DEF segments, n
<1>3. RenderedAlike(r, q)
  <2>1. CASE BadSyntax(segments)
    <3>1. r = Refused(Started, "BadSyntax") /\ q = Refused(Started, "BadSyntax")
      BY <2>1 DEF RenderText, Render, segments
    <3> HIDE DEF r, q
    <3> QED
      BY <3>1, StartsAlike, RefusedAlike
  <2>2. CASE ~BadSyntax(segments)
    <3>1. \A i \in 1 .. n : ~IsBad(segments[i])
      BY <1>2, <2>2 DEF BadSyntax, IsBad
    <3>2. r = Placing!Fold(Started, segments, n)
      <4>1. r = FoldLeft(UrlOp, Started, segments)
        BY <2>2 DEF RenderText, Render, segments, UrlOp
      <4> HIDE DEF r
      <4> QED
        BY <1>2, <4>1 DEF Placing!Fold, Placing!Solution, Placing!Solves, Placing!Folded, Placing!Max,
           FoldLeft, MapThenFoldSet, FoldFunction, Max
    <3>3. q = Standing!Fold(Started, segments, n)
      <4>1. q = FoldLeft(PlainOp, Started, segments)
        BY <2>2 DEF RenderText, Render, segments, PlainOp
      <4> HIDE DEF q
      <4> QED
        BY <1>2, <4>1 DEF Standing!Fold, Standing!Solution, Standing!Solves, Standing!Folded, Standing!Max,
           FoldLeft, MapThenFoldSet, FoldFunction, Max
    <3> HIDE DEF r, q
    <3>4. PICK at : Placing!Trace(at, Started, segments, n) /\ Placing!Fold(Started, segments, n) = at[n]
      BY <1>2, Placing!FoldTrace
    <3>5. PICK bt : Standing!Trace(bt, Started, segments, n) /\ Standing!Fold(Started, segments, n) = bt[n]
      BY <1>2, Standing!FoldTrace
    <3> DEFINE good == {k \in Nat : k <= n => RenderedAlike(at[k], bt[k])}
    <3>6. 0 \in good
      <4>1. at[0] = Started /\ bt[0] = Started
        BY <3>4, <3>5 DEF Placing!Trace, Standing!Trace
      <4> QED
        BY <4>1, StartsAlike
    <3>7. ASSUME NEW k \in Nat, k \in good
          PROVE  k + 1 \in good
      <4> SUFFICES ASSUME k + 1 <= n PROVE RenderedAlike(at[k + 1], bt[k + 1])
        OBVIOUS
      <4>1. k + 1 \in 1 .. n /\ (k + 1) - 1 = k /\ RenderedAlike(at[k], bt[k])
        BY <1>2, <3>7
      <4>2. at[k + 1] = UrlOp(at[k], segments[k + 1])
        BY <3>4, <4>1 DEF Placing!Trace
      <4>3. bt[k + 1] = PlainOp(bt[k], segments[k + 1])
        BY <3>5, <4>1 DEF Standing!Trace
      <4>4. segments[k + 1] \in Segments /\ ~IsBad(segments[k + 1])
        BY <1>2, <3>1, <4>1
      <4> QED
        BY <4>1, <4>2, <4>3, <4>4, StepAlike
    <3> HIDE DEF good
    <3>8. n \in good
      BY <1>2, <3>6, <3>7, Shaping!NaturalSets
    <3> QED
      BY <1>2, <3>2, <3>3, <3>4, <3>5, <3>8 DEF good
  <2> QED
    BY <2>1, <2>2
<1>4. ASSUME NEW S, NEW s, s.out \in Seq(S)
      PROVE  Shape(s) = ShapeOf(s.out)
  <2> DEFINE m == Len(s.out)
             out == s.out
  <2>1. m \in Nat /\ DOMAIN out = 1 .. m
    BY <1>4
  <2> HIDE DEF m, out
  <2>2. Shape(s) = FoldLeft(Structure, <<>>, out)
    BY DEF Shape, out
  <2>3. Shape(s) = Shaping!Fold(<<>>, out, m)
    BY <2>1, <2>2 DEF Shaping!Fold, Shaping!Solution, Shaping!Solves, Shaping!Folded, Shaping!Max,
       FoldLeft, MapThenFoldSet, FoldFunction, Max
  <2> QED
    BY <2>3 DEF ShapeOf, m, out
<1> HIDE DEF r, q
<1>5. r.error = q.error /\ Shape(r) = Shape(q)
  BY <1>3, <1>4 DEF RenderedAlike
<1> QED
  BY <1>5 DEF UrlKeepsItsShape, SameShape, WithX, r, q

-----------------------------------------------------------------------------
(* A body whose braces are escaped is read back as it is.                  *)
Replace(f, text) ==
  CASE text = <<>>            -> <<>>
    [] StartsWith(text, Open) -> EscapedOpen \o f[Rest(text, 2)]
    [] OTHER                  -> <<Head(text)>> \o f[Tail(text)]
Replacing == INSTANCE FoldFacts WITH Op <- Replace

(* Escaped braces are read back as the braces they were.                   *)
Two(a, b, rest) == <<a, b>> \o rest
One(a, rest)    == <<a>> \o rest
Three(rest)     == EscapedOpen \o rest

ReplaceIs(f, text) ==
  /\ text = <<>> => Replace(f, text) = <<>>
  /\ Opens(text) => Replace(f, text) = Three(f[Rest(text, 2)])
  /\ text # <<>> /\ ~Opens(text) => Replace(f, text) = One(Head(text), f[Tail(text)])

LEMMA ReplaceSteps ==
  ASSUME NEW f, NEW text \in Texts
  PROVE  ReplaceIs(f, text)
<1>1. StartsWith(text, Open) <=> Opens(text)
  BY StartsAre
<1>2. Opens(text) => text # <<>>
  BY DEF Opens
<1> DEFINE o == StartsWith(text, Open)
<1>3. Replace(f, text) = CASE text = <<>> -> <<>> [] o -> Three(f[Rest(text, 2)]) [] OTHER -> One(Head(text), f[Tail(text)])
  BY DEF Replace, Three, One
<1> HIDE DEF o
<1> QED
  BY <1>1, <1>2, <1>3 DEF ReplaceIs, o

LEMMA ShorterTexts ==
  ASSUME NEW text \in Texts
  PROVE  /\ Len(text) \in Nat /\ LengthOf[text] = Len(text)
         /\ Len(text) >= 2 => Rest(text, 2) \in Texts /\ Len(Rest(text, 2)) = Len(text) - 2
         /\ text # <<>> => Head(text) \in Characters /\ Tail(text) \in Texts /\ Len(Tail(text)) = Len(text) - 1
<1>1. Len(text) \in Nat /\ LengthOf[text] = Len(text) /\ text \in Seq(Characters)
  BY DEF LengthOf, Texts
<1>2. Len(text) >= 2 => Rest(text, 2) \in Texts /\ Len(Rest(text, 2)) = Len(text) - 2
  BY <1>1, RestOfText
<1>3. text # <<>> => Head(text) \in Characters /\ Tail(text) \in Texts /\ Len(Tail(text)) = Len(text) - 1
  BY <1>1, HeadTailProperties DEF Texts
<1> QED
  BY <1>1, <1>2, <1>3

LEMMA ReplacedAt ==
  ASSUME NEW text \in Texts
  PROVE  ReplaceIs(Replaced, text) /\ Replaced[text] = Replace(Replaced, text)
<1>1. \A t \in Texts : LengthOf[t] \in Nat
  BY ShorterTexts
<1>2. Replacing!Smaller(Texts, LengthOf)
  <2>1. ASSUME NEW f, NEW g, NEW t \in Texts, \A y \in Texts : LengthOf[y] < LengthOf[t] => f[y] = g[y]
        PROVE  Replace(f, t) = Replace(g, t)
    <3>1. ReplaceIs(f, t) /\ ReplaceIs(g, t)
      BY ReplaceSteps
    <3>2. CASE t = <<>>
      BY <3>1, <3>2 DEF ReplaceIs
    <3>3. CASE Opens(t)
      <4>1. Rest(t, 2) \in Texts /\ Len(Rest(t, 2)) < Len(t)
        BY <3>3, ShorterTexts DEF Opens
      <4>2. LengthOf[Rest(t, 2)] < LengthOf[t]
        BY <4>1, ShorterTexts
      <4>3. f[Rest(t, 2)] = g[Rest(t, 2)]
        BY <2>1, <4>1, <4>2
      <4> QED
        BY <3>1, <3>3, <4>3 DEF ReplaceIs
    <3>4. CASE t # <<>> /\ ~Opens(t)
      <4>1. Tail(t) \in Texts /\ Len(Tail(t)) < Len(t)
        BY <3>4, ShorterTexts
      <4>2. LengthOf[Tail(t)] < LengthOf[t]
        BY <4>1, ShorterTexts
      <4>3. f[Tail(t)] = g[Tail(t)]
        BY <2>1, <4>1, <4>2
      <4> QED
        BY <3>1, <3>4, <4>3 DEF ReplaceIs
    <3> QED
      BY <3>2, <3>3, <3>4
  <2> QED
    BY <2>1 DEF Replacing!Smaller
<1>3. \E f : f = [t \in Texts |-> Replace(f, t)]
  BY <1>1, <1>2, Replacing!RecursiveFunction
<1>4. Replaced = [t \in Texts |-> Replace(Replaced, t)]
  BY <1>3 DEF Replaced, Replace, Texts, Characters
<1> QED
  BY <1>4, ReplaceSteps

(* What stands first in a text whose braces are escaped.                   *)
EscapedWell(text) ==
  /\ Replaced[text] \in Texts
  /\ Replaced[text] = <<>> <=> text = <<>>
  /\ text # <<>> => Replaced[text][1] = IF Opens(text) THEN "bs" ELSE text[1]

LEMMA ThreeIs ==
  ASSUME "bs" \in Characters, "lb" \in Characters, NEW rest \in Texts
  PROVE  /\ Three(rest) \in Texts /\ Len(Three(rest)) = Len(rest) + 3
         /\ Three(rest)[1] = "bs" /\ Three(rest)[2] = "lb" /\ Three(rest)[3] = "lb"
         /\ Rest(Three(rest), 3) = rest
<1>1. EscapedOpen \in Seq(Characters) /\ Len(EscapedOpen) = 3
      /\ EscapedOpen[1] = "bs" /\ EscapedOpen[2] = "lb" /\ EscapedOpen[3] = "lb"
  BY ShortTexts DEF EscapedOpen
<1>2. rest \in Seq(Characters) /\ Len(rest) \in Nat
  BY DEF Texts
<1> DEFINE t == Three(rest)
<1>3. t \in Seq(Characters) /\ Len(t) = 3 + Len(rest) /\ (\A i \in 1 .. 3 : t[i] = EscapedOpen[i])
      /\ \A i \in 1 .. Len(rest) : t[3 + i] = rest[i]
  <2>1. EscapedOpen \in Seq(Characters) /\ rest \in Seq(Characters)
    BY <1>1, <1>2
  <2>2. EscapedOpen \o rest \in Seq(Characters) /\ Len(EscapedOpen \o rest) = Len(EscapedOpen) + Len(rest)
        /\ \A i \in 1 .. Len(EscapedOpen) + Len(rest) : (EscapedOpen \o rest)[i] =
             IF i <= Len(EscapedOpen) THEN EscapedOpen[i] ELSE rest[i - Len(EscapedOpen)]
    BY <2>1, ConcatProperties, Zenon
  <2>3. t = EscapedOpen \o rest
    BY DEF Three
  <2> HIDE DEF t
  <2>4. t \in Seq(Characters) /\ Len(t) = 3 + Len(rest)
        /\ \A i \in 1 .. 3 + Len(rest) : t[i] = IF i <= 3 THEN EscapedOpen[i] ELSE rest[i - 3]
    BY <1>1, <2>2, <2>3
  <2>5. \A i \in 1 .. 3 : i \in 1 .. 3 + Len(rest)
    BY <1>2
  <2>6. \A i \in 1 .. Len(rest) : 3 + i \in 1 .. 3 + Len(rest) /\ ~(3 + i <= 3) /\ 3 + i - 3 = i
    BY <1>2
  <2> QED
    BY <2>4, <2>5, <2>6
<1> HIDE DEF t
<1>4. t[1] = "bs" /\ t[2] = "lb" /\ t[3] = "lb"
  BY <1>1, <1>3
<1>5. t \in Texts /\ 3 <= Len(t) /\ Len(t) - 3 = Len(rest)
  BY <1>2, <1>3 DEF Texts
<1>6. Rest(t, 3) \in Texts /\ Len(Rest(t, 3)) = Len(t) - 3 /\ \A i \in 1 .. Len(t) - 3 : Rest(t, 3)[i] = t[3 + i]
  BY <1>5, RestOfText
<1>7. \A i \in 1 .. Len(rest) : Rest(t, 3)[i] = rest[i]
  BY <1>3, <1>5, <1>6
<1>8. Rest(t, 3) = rest
  BY <1>2, <1>5, <1>6, <1>7, SeqEqual DEF Texts
<1> QED
  BY <1>2, <1>3, <1>4, <1>5, <1>8 DEF t

LEMMA OneIs ==
  ASSUME NEW a \in Characters, NEW rest \in Texts
  PROVE  /\ One(a, rest) \in Texts /\ Len(One(a, rest)) = Len(rest) + 1
         /\ One(a, rest)[1] = a /\ (rest # <<>> => One(a, rest)[2] = rest[1])
         /\ Head(One(a, rest)) = a /\ Tail(One(a, rest)) = rest
<1> DEFINE t == One(a, rest)
<1>1. rest \in Seq(Characters) /\ Len(rest) \in Nat
  BY DEF Texts
<1>2. t \in Seq(Characters) /\ Len(t) = Len(rest) + 1 /\ t[1] = a /\ \A i \in 1 .. Len(rest) : t[i + 1] = rest[i]
  BY <1>1, OneMore DEF One
<1> HIDE DEF t
<1>3. t # <<>>
  BY <1>1, <1>2
<1>4. Head(t) = a /\ Tail(t) \in Seq(Characters) /\ Len(Tail(t)) = Len(rest)
      /\ \A i \in 1 .. Len(Tail(t)) : Tail(t)[i] = t[i + 1]
  BY <1>1, <1>2, <1>3, HeadTailProperties
<1>5. \A i \in 1 .. Len(Tail(t)) : Tail(t)[i] = rest[i]
  BY <1>2, <1>4
<1>6. Tail(t) = rest
  BY <1>1, <1>4, <1>5, SeqEqual
<1>7. rest # <<>> => t[2] = rest[1]
  BY <1>1, <1>2
<1> QED
  BY <1>2, <1>4, <1>6, <1>7 DEF t, Texts

LEMMA ReplacedIs ==
  ASSUME "bs" \in Characters, "lb" \in Characters, NEW text \in Texts
  PROVE  EscapedWell(text)
<1> DEFINE good == {t \in Texts : EscapedWell(t)}
<1>1. \A t \in Texts : LengthOf[t] \in Nat
  BY ShorterTexts
<1>2. ASSUME NEW t \in Texts, \A y \in Texts : LengthOf[y] < LengthOf[t] => y \in good
      PROVE  t \in good
  <2>1. ReplaceIs(Replaced, t) /\ Replaced[t] = Replace(Replaced, t)
    BY ReplacedAt
  <2>2. CASE t = <<>>
    <3>1. Replaced[t] = <<>> /\ <<>> \in Texts
      BY <2>1, <2>2 DEF ReplaceIs
    <3> QED
      BY <2>2, <3>1 DEF EscapedWell
  <2>3. CASE Opens(t)
    <3> DEFINE rest == Replaced[Rest(t, 2)]
    <3>1. Rest(t, 2) \in Texts /\ LengthOf[Rest(t, 2)] < LengthOf[t] /\ t # <<>>
      BY <2>3, ShorterTexts DEF Opens
    <3>2. rest \in Texts
      BY <1>2, <3>1 DEF EscapedWell
    <3>3. Replaced[t] = Three(rest)
      BY <2>1, <2>3 DEF ReplaceIs
    <3> HIDE DEF rest
    <3>4. Replaced[t] \in Texts /\ Replaced[t][1] = "bs" /\ Replaced[t] # <<>>
      <4>1. Three(rest) \in Texts /\ Len(Three(rest)) = Len(rest) + 3 /\ Three(rest)[1] = "bs" /\ Len(rest) \in Nat
        BY <3>2, ThreeIs, ShorterTexts
      <4> HIDE DEF good
      <4>2. Len(Three(rest)) # 0
        BY <4>1
      <4> QED
        BY <3>3, <4>1, <4>2
    <3> QED
      BY <2>3, <3>1, <3>4 DEF EscapedWell
  <2>4. CASE t # <<>> /\ ~Opens(t)
    <3> DEFINE rest == Replaced[Tail(t)]
    <3>1. Tail(t) \in Texts /\ LengthOf[Tail(t)] < LengthOf[t] /\ Head(t) \in Characters
      <4> HIDE DEF good
      <4>1. Tail(t) \in Texts /\ Len(Tail(t)) < Len(t) /\ Head(t) \in Characters
        BY <2>4, ShorterTexts
      <4>2. LengthOf[Tail(t)] < LengthOf[t]
        BY <4>1, ShorterTexts
      <4> QED
        BY <4>1, <4>2
    <3>2. rest \in Texts
      BY <1>2, <3>1 DEF EscapedWell
    <3>3. Replaced[t] = One(Head(t), rest) /\ Head(t) = t[1]
      BY <2>1, <2>4 DEF ReplaceIs, Texts
    <3> HIDE DEF rest
    <3>4. Replaced[t] \in Texts /\ Replaced[t][1] = t[1] /\ Replaced[t] # <<>>
      <4> DEFINE a == Head(t)
      <4> HIDE DEF a
      <4>1. One(a, rest) \in Texts /\ Len(One(a, rest)) = Len(rest) + 1 /\ One(a, rest)[1] = a /\ Len(rest) \in Nat
        BY <3>1, <3>2, OneIs, ShorterTexts DEF a
      <4>2. Len(One(a, rest)) # 0
        BY <4>1
      <4> HIDE DEF good
      <4> QED
        BY <3>3, <4>1, <4>2 DEF a
    <3> QED
      BY <2>4, <3>4 DEF EscapedWell
  <2> QED
    BY <2>2, <2>3, <2>4
<1>3. Texts \subseteq good
  <2> HIDE DEF good
  <2>1. \A t \in Texts : (\A y \in Texts : LengthOf[y] < LengthOf[t] => y \in good) => t \in good
    BY <1>2
  <2> QED
    BY <1>1, <2>1, Splitting!SmallerFirst
<1> QED
  BY <1>3

LEMMA CompiledSteps ==
  ASSUME NEW text \in Texts, NEW literal \in Texts
  PROVE  OpIs(Compiled, text, literal) /\ Compiled[<<text, literal>>] = CompileOp(Compiled, <<text, literal>>)
<1>1. Compiled[<<text, literal>>] = CompileOp(Compiled, <<text, literal>>)
  BY CompiledAt
<1>2. OpIs(Compiled, text, literal)
  BY CompileOpIs
<1> QED
  BY <1>1, <1>2

LEMMA TailIs ==
  ASSUME NEW text \in Texts, text # <<>>
  PROVE  /\ Len(text) \in Nat /\ Len(text) >= 1 /\ Head(text) = text[1] /\ Tail(text) \in Texts
         /\ Len(Tail(text)) = Len(text) - 1 /\ \A i \in 1 .. Len(text) - 1 : Tail(text)[i] = text[i + 1]
<1>1. text \in Seq(Characters) /\ Len(text) \in Nat
  BY DEF Texts
<1>2. Tail(text) \in Seq(Characters) /\ Len(Tail(text)) = Len(text) - 1 /\ Head(text) = text[1]
      /\ \A i \in 1 .. Len(Tail(text)) : Tail(text)[i] = text[i + 1]
  BY <1>1, HeadTailProperties
<1>3. Len(text) # 0
  BY <1>1
<1> QED
  BY <1>1, <1>2, <1>3 DEF Texts

LEMMA TailsAre ==
  ASSUME NEW text \in Texts, Len(text) >= 2
  PROVE  /\ Rest(text, 2) = Tail(Tail(text)) /\ Rest(text, 2) \in Texts
         /\ Tail(text) # <<>> /\ Tail(text)[1] = text[2]
         /\ Len(Rest(text, 2)) = Len(text) - 2
         /\ \A i \in 1 .. Len(text) - 2 : Rest(text, 2)[i] = text[2 + i]
<1> DEFINE t == Tail(text)
           r == Rest(text, 2)
<1>1. text # <<>>
  OBVIOUS
<1>2. Len(text) \in Nat /\ t \in Texts /\ Len(t) = Len(text) - 1 /\ \A i \in 1 .. Len(text) - 1 : t[i] = text[i + 1]
  BY <1>1, TailIs
<1>3. r \in Texts /\ Len(r) = Len(text) - 2 /\ \A i \in 1 .. Len(text) - 2 : r[i] = text[2 + i]
  <2>1. 2 \in Nat /\ 2 <= Len(text)
    BY <1>2
  <2> QED
    BY <2>1, RestOfText, Zenon
<1> HIDE DEF t, r
<1>4. t # <<>> /\ t[1] = text[2]
  BY <1>2
<1> DEFINE u == Tail(t)
<1>5. u \in Texts /\ Len(u) = Len(t) - 1 /\ \A i \in 1 .. Len(t) - 1 : u[i] = t[i + 1]
  BY <1>2, <1>4, TailIs
<1> HIDE DEF u
<1>6. Len(u) = Len(r)
  BY <1>2, <1>3, <1>5
<1>7. ASSUME NEW i \in 1 .. Len(r)
      PROVE  r[i] = u[i]
  <2>1. i \in 1 .. Len(text) - 2 /\ i \in 1 .. Len(t) - 1 /\ i + 1 \in 1 .. Len(text) - 1 /\ i + 1 + 1 = 2 + i
    BY <1>2, <1>3
  <2>2. u[i] = t[i + 1] /\ t[i + 1] = text[i + 1 + 1] /\ r[i] = text[2 + i]
    BY <1>2, <1>3, <1>5, <2>1
  <2> QED
    BY <2>1, <2>2
<1>8. r = u
  BY <1>3, <1>5, <1>6, <1>7, SeqEqual DEF Texts
<1> QED
  BY <1>3, <1>4, <1>8 DEF t, r, u

(* What was read and what is left make up the same text.                   *)
LEMMA ReadOneMore ==
  ASSUME NEW read \in Texts, NEW text \in Texts, text # <<>>
  PROVE  /\ Append(read, Head(text)) \in Texts
         /\ Append(read, Head(text)) \o Tail(text) = read \o text
<1> DEFINE a == Head(text)
           t == Tail(text)
<1>1. a \in Characters /\ t \in Texts
  BY ShorterTexts
<1>2. text = <<a>> \o t
  <2>1. text \in Seq(Characters)
    BY DEF Texts
  <2>2. <<a>> \o t \in Seq(Characters) /\ Len(<<a>> \o t) = Len(t) + 1
        /\ (<<a>> \o t)[1] = a /\ \A i \in 1 .. Len(t) : (<<a>> \o t)[i + 1] = t[i]
    BY <1>1, OneMore DEF Texts
  <2> DEFINE s == <<a>> \o t
  <2> HIDE DEF s
  <2>3. s \in Seq(Characters) /\ Len(s) = Len(t) + 1 /\ s[1] = a /\ \A i \in 1 .. Len(t) : s[i + 1] = t[i]
    BY <2>2 DEF s
  <2>4. /\ Len(text) \in Nat /\ Len(text) >= 1 /\ a = text[1] /\ Len(t) = Len(text) - 1
        /\ \A i \in 1 .. Len(text) - 1 : t[i] = text[i + 1]
    BY TailIs
  <2> HIDE DEF a, t
  <2>5. ASSUME NEW i \in 1 .. Len(text)
        PROVE  s[i] = text[i]
    <3>1. CASE i = 1
      BY <2>3, <2>4, <3>1
    <3>2. CASE i # 1
      <4>1. i - 1 \in 1 .. Len(t) /\ i - 1 \in 1 .. Len(text) - 1 /\ i - 1 + 1 = i
        BY <2>4, <3>2
      <4>2. s[i - 1 + 1] = t[i - 1] /\ t[i - 1] = text[i - 1 + 1]
        BY <2>3, <2>4, <4>1
      <4> QED
        BY <4>1, <4>2
    <3> QED
      BY <3>1, <3>2
  <2>6. Len(s) = Len(text)
    BY <2>3, <2>4
  <2>7. text = s
    BY <2>1, <2>3, <2>5, <2>6, SeqEqual
  <2> QED
    BY <2>7 DEF s
<1> HIDE DEF a, t
<1>3. Append(read, a) = read \o <<a>> /\ <<a>> \in Seq(Characters) /\ Append(read, a) \in Texts
  BY <1>1, AppendIsConcat, AppendProperties DEF Texts
<1>4. (read \o <<a>>) \o t = read \o (<<a>> \o t)
  BY <1>1, <1>3, ConcatAssociative DEF Texts
<1> QED
  BY <1>2, <1>3, <1>4 DEF a, t

LEMMA ReadTwoMore ==
  ASSUME NEW read \in Texts, NEW text \in Texts, Len(text) >= 2
  PROVE  /\ read \o <<text[1], text[2]>> \in Texts
         /\ (read \o <<text[1], text[2]>>) \o Rest(text, 2) = read \o text
<1> DEFINE a == text[1]
           b == text[2]
           t == Tail(text)
           r == Rest(text, 2)
           once == Append(read, a)
<1>1. text # <<>> /\ t # <<>> /\ t \in Texts /\ r = Tail(t) /\ Head(text) = a /\ Head(t) = b /\ r \in Texts
  <2>1. text # <<>>
    OBVIOUS
  <2>2. t # <<>> /\ t[1] = b /\ r = Tail(t) /\ r \in Texts
    BY TailsAre
  <2>3. t \in Texts /\ Head(text) = a
    BY <2>1, TailIs
  <2>4. Head(t) = b
    BY <2>2, <2>3, TailIs
  <2> QED
    BY <2>1, <2>2, <2>3, <2>4
<1>2. once \in Texts /\ once \o t = read \o text
  BY <1>1, ReadOneMore
<1>3. Append(once, b) \in Texts /\ Append(once, b) \o r = once \o t
  <2> HIDE DEF once, t, r, b
  <2> QED
    BY <1>1, <1>2, ReadOneMore
<1>4. Append(once, b) = read \o <<a, b>>
  <2>1. a \in Characters /\ b \in Characters /\ read \in Seq(Characters)
    BY DEF Texts
  <2>2. Append(Append(read, a), b) = read \o <<a, b>>
    BY <2>1
  <2> QED
    BY <2>2
<1> QED
  BY <1>2, <1>3, <1>4

LEMMA EscapesReadBack ==
  ASSUME "bs" \in Characters, "lb" \in Characters, NEW body \in Texts, NEW literal \in Texts
  PROVE  Compiled[<<Replaced[body], literal>>] = Flushed(literal \o body)
<1> DEFINE Back(b) == \A l \in Texts : Compiled[<<Replaced[b], l>>] = Flushed(l \o b)
           good == {b \in Texts : Back(b)}
<1>1. \A t \in Texts : LengthOf[t] \in Nat /\ LengthOf[t] = Len(t) /\ Len(t) \in Nat
  BY ShorterTexts
<1>2. ASSUME NEW b \in Texts, \A y \in Texts : LengthOf[y] < LengthOf[b] => y \in good
      PROVE  b \in good
  <2>1. ASSUME NEW y \in Texts, Len(y) < Len(b), NEW l \in Texts
        PROVE  Compiled[<<Replaced[y], l>>] = Flushed(l \o y)
    BY <1>1, <1>2, <2>1
  <2> HIDE DEF good
  <2>2. ReplaceIs(Replaced, b) /\ Replaced[b] = Replace(Replaced, b)
    BY ReplacedAt
  <2>3. \A y \in Texts : EscapedWell(y)
    BY ReplacedIs
  <2>4. ASSUME NEW l \in Texts
        PROVE  Compiled[<<Replaced[b], l>>] = Flushed(l \o b)
    <3> DEFINE t == Replaced[b]
    <3>1. t \in Texts /\ Len(b) \in Nat
      BY <1>1, <2>3 DEF EscapedWell
    <3> HIDE DEF t
    <3>2. OpIs(Compiled, t, l) /\ Compiled[<<t, l>>] = CompileOp(Compiled, <<t, l>>)
      BY <3>1, CompiledSteps
    <3>3. CASE b = <<>>
      <4>1. t = <<>>
        BY <2>2, <3>3 DEF ReplaceIs, t
      <4>2. Compiled[<<t, l>>] = Flushed(l)
        BY <3>2, <4>1 DEF OpIs
      <4>3. l \o b = l
        BY <3>3, ConcatEmptySeq DEF Texts
      <4> QED
        BY <4>2, <4>3 DEF t
    <3>4. CASE Opens(b)
      <4> DEFINE y == Rest(b, 2)
      <4>1. Len(b) >= 2 /\ b[1] = "lb" /\ b[2] = "lb"
        BY <3>4 DEF Opens
      <4>2. y \in Texts /\ Len(y) < Len(b)
        BY <3>1, <4>1, TailsAre
      <4>3. l \o Open \in Texts /\ (l \o Open) \o y = l \o b
        <5>1. l \o <<b[1], b[2]>> \in Texts /\ (l \o <<b[1], b[2]>>) \o Rest(b, 2) = l \o b
          BY <4>1, ReadTwoMore
        <5>2. <<b[1], b[2]>> = Open
          BY <4>1 DEF Open
        <5> QED
          BY <5>1, <5>2
      <4>4. t = Three(Replaced[y])
        BY <2>2, <3>4 DEF ReplaceIs, t
      <4> HIDE DEF y
      <4> DEFINE s == Replaced[y]
      <4>5. s \in Texts
        BY <2>3, <4>2 DEF EscapedWell
      <4> HIDE DEF s
      <4>6. Len(t) >= 3 /\ t[1] = "bs" /\ t[2] = "lb" /\ t[3] = "lb" /\ Rest(t, 3) = s
        <5>1. Len(s) \in Nat
          BY <1>1, <4>5
        <5>2. t = Three(s)
          BY <4>4 DEF s
        <5> QED
          BY <4>5, <5>1, <5>2, ThreeIs
      <4>7. Escaped(t)
        BY <4>6 DEF Escaped
      <4>8. Compiled[<<t, l>>] = Compiled[<<s, l \o Open>>]
        BY <3>2, <4>6, <4>7 DEF OpIs
      <4>9. Compiled[<<s, l \o Open>>] = Flushed((l \o Open) \o y)
        BY <2>1, <4>2, <4>3 DEF s
      <4> QED
        BY <4>3, <4>8, <4>9 DEF t
    <3>5. ASSUME b # <<>>, ~Opens(b)
          PROVE  /\ t = One(Head(b), Replaced[Tail(b)]) /\ Head(b) = b[1] /\ Head(b) \in Characters
                 /\ Tail(b) \in Texts /\ Len(Tail(b)) < Len(b) /\ Replaced[Tail(b)] \in Texts
      <4>1. Tail(b) \in Texts /\ Len(Tail(b)) < Len(b) /\ Head(b) = b[1] /\ Head(b) \in Characters
        BY <3>1, <3>5, TailIs, ShorterTexts
      <4>2. Replaced[Tail(b)] \in Texts
        BY <2>3, <4>1 DEF EscapedWell
      <4> QED
        BY <2>2, <3>5, <4>1, <4>2 DEF ReplaceIs, t
    <3>6. ASSUME b # <<>>, ~Opens(b), IsPlain(t)
          PROVE  Compiled[<<t, l>>] = Flushed(l \o b)
      <4> DEFINE a == Head(b)
                 s == Replaced[Tail(b)]
      <4>1. t = One(a, s) /\ a \in Characters /\ s \in Texts /\ Tail(b) \in Texts /\ Len(Tail(b)) < Len(b)
        BY <3>5, <3>6
      <4>2. Append(l, a) \in Texts /\ Append(l, a) \o Tail(b) = l \o b
        BY <3>6, ReadOneMore
      <4>3. Compiled[<<s, Append(l, a)>>] = Flushed(Append(l, a) \o Tail(b))
        BY <2>1, <4>1, <4>2
      <4> HIDE DEF a, s
      <4>4. Head(t) = a /\ Tail(t) = s
        BY <4>1, OneIs
      <4>5. Compiled[<<t, l>>] = Compiled[<<s, Append(l, a)>>]
        BY <3>2, <3>6, <4>4 DEF OpIs
      <4> QED
        BY <4>2, <4>3, <4>5
    <3>7. CASE b # <<>> /\ ~Opens(b) /\ Half(b) /\ ~Opens(Tail(b))
      <4> DEFINE c == Tail(b)
                 y == Rest(b, 2)
                 s == Replaced[y]
      <4>1. Len(b) >= 2 /\ b[1] = "bs" /\ b[2] = "lb"
        BY <3>7 DEF Half
      <4>2. y \in Texts /\ y = Tail(c) /\ c # <<>> /\ c[1] = "lb" /\ Len(y) = Len(b) - 2
            /\ \A i \in 1 .. Len(b) - 2 : y[i] = b[2 + i]
        BY <4>1, TailsAre
      <4>3. c \in Texts /\ Len(c) = Len(b) - 1 /\ \A i \in 1 .. Len(b) - 1 : c[i] = b[i + 1]
        BY <3>7, TailIs
      <4>4. l \o <<"bs", "lb">> \in Texts /\ (l \o <<"bs", "lb">>) \o y = l \o b
        <5>1. l \o <<b[1], b[2]>> \in Texts /\ (l \o <<b[1], b[2]>>) \o Rest(b, 2) = l \o b
          BY <4>1, ReadTwoMore
        <5>2. <<b[1], b[2]>> = <<"bs", "lb">>
          BY <4>1
        <5> QED
          BY <5>1, <5>2
      <4>5. t = One("bs", Replaced[c])
        BY <3>5, <3>7, <4>1
      <4>6. ~Opens(c) /\ Len(y) < Len(b)
        BY <3>1, <3>7, <4>2
      <4> HIDE DEF c, y
      <4>7. s \in Texts /\ EscapedWell(y)
        BY <2>3, <4>2 DEF EscapedWell
      <4>8. Replaced[c] = One("lb", s)
        <5>1. ReplaceIs(Replaced, c) /\ Replaced[c] = Replace(Replaced, c)
          BY <4>3, ReplacedAt
        <5>2. Head(c) = "lb"
          BY <4>2, <4>3, TailIs
        <5> QED
          BY <4>2, <4>6, <5>1, <5>2 DEF ReplaceIs
      <4>9. ASSUME s # <<>>
            PROVE  s[1] # "lb"
        <5>1. y # <<>> /\ s[1] = IF Opens(y) THEN "bs" ELSE y[1]
          BY <4>7, <4>9 DEF EscapedWell
        <5>2. ASSUME y[1] = "lb" PROVE FALSE
          <6>1. Len(y) \in Nat /\ Len(y) # 0
            BY <1>1, <4>2, <5>1 DEF Texts
          <6>2. 1 \in 1 .. Len(b) - 2 /\ 2 \in 1 .. Len(b) - 1 /\ Len(c) >= 2
            <7>1. Len(y) = Len(b) - 2 /\ Len(c) = Len(b) - 1
              BY <4>2, <4>3
            <7> QED
              BY <3>1, <6>1, <7>1
          <6>3. y[1] = b[2 + 1] /\ c[2] = b[2 + 1]
            BY <4>2, <4>3, <6>2
          <6> QED
            BY <4>2, <4>6, <5>2, <6>2, <6>3 DEF Opens
        <5> QED
          BY <5>1, <5>2
      <4> HIDE DEF s
      <4> DEFINE u == One("lb", s)
      <4>10. u \in Texts /\ Len(u) = Len(s) + 1 /\ u[1] = "lb" /\ (s # <<>> => u[2] = s[1]) /\ Tail(u) = s /\ Len(s) \in Nat
        BY <1>1, <4>7, OneIs
      <4> HIDE DEF u
      <4>11. t = One("bs", u)
        BY <4>5, <4>8 DEF u
      <4>12. u # <<>> /\ Len(t) = Len(u) + 1 /\ t[1] = "bs" /\ t[2] = u[1] /\ Tail(t) = u
        <5>1. Len(u) # 0
          BY <4>10
        <5>2. u # <<>>
          BY <5>1
        <5> QED
          BY <4>10, <4>11, <5>2, OneIs
      <4>13. Len(t) >= 2 /\ Half(t)
        BY <4>10, <4>12 DEF Half
      <4>14. ~Escaped(t)
        <5> SUFFICES ASSUME Len(t) >= 3, t[3] = "lb" PROVE FALSE
          BY DEF Escaped
        <5>1. Len(s) # 0 /\ 2 \in 1 .. Len(t) - 1
          BY <4>10, <4>12
        <5>2. s # <<>>
          BY <5>1
        <5>3. t # <<>>
          BY <4>13
        <5>4. Tail(t)[2] = t[2 + 1]
          BY <3>1, <5>1, <5>3, TailIs
        <5> QED
          BY <4>9, <4>10, <4>12, <5>2, <5>4
      <4>15. Rest(t, 2) = s
        BY <3>1, <4>10, <4>12, <4>13, TailsAre
      <4>16. Compiled[<<t, l>>] = Compiled[<<s, l \o <<"bs", "lb">>>>]
        BY <3>2, <4>13, <4>14, <4>15 DEF OpIs
      <4>17. Compiled[<<s, l \o <<"bs", "lb">>>>] = Flushed((l \o <<"bs", "lb">>) \o y)
        BY <2>1, <4>2, <4>4, <4>6 DEF s
      <4> QED
        BY <4>4, <4>16, <4>17 DEF t
    <3>8. CASE b # <<>> /\ ~Opens(b) /\ ~(Half(b) /\ ~Opens(Tail(b)))
      <4> DEFINE a == Head(b)
                 c == Tail(b)
                 s == Replaced[c]
      <4>1. t = One(a, s) /\ a = b[1] /\ a \in Characters /\ c \in Texts /\ s \in Texts
        BY <3>5, <3>8
      <4>2. EscapedWell(c)
        BY <2>3, <4>1
      <4>3. c # <<>> => Len(b) >= 2 /\ c[1] = b[2]
        <5>1. Len(c) = Len(b) - 1 /\ \A i \in 1 .. Len(b) - 1 : c[i] = b[i + 1]
          BY <3>8, TailIs
        <5> HIDE DEF c
        <5>2. c # <<>> => Len(c) # 0 /\ Len(c) \in Nat
          BY <1>1, <4>1 DEF Texts
        <5>3. c # <<>> => 1 \in 1 .. Len(b) - 1 /\ Len(b) >= 2
          BY <3>1, <5>1, <5>2
        <5> QED
          BY <5>1, <5>3
      <4>4. Half(b) => Opens(c)
        BY <3>8
      <4>5. s = <<>> <=> c = <<>>
        BY <4>2 DEF EscapedWell
      <4>6. c # <<>> => s[1] = IF Opens(c) THEN "bs" ELSE c[1]
        BY <4>2 DEF EscapedWell
      <4> HIDE DEF a, c, s
      <4>7. Len(t) = Len(s) + 1 /\ t[1] = a /\ (s # <<>> => t[2] = s[1]) /\ Len(s) \in Nat
        BY <1>1, <4>1, OneIs
      <4>8. Len(t) >= 2 => s # <<>>
        BY <4>7
      <4>9. ~Half(t)
        <5> SUFFICES ASSUME Half(t) PROVE FALSE
          OBVIOUS
        <5>1. Len(t) >= 2 /\ t[1] = "bs" /\ t[2] = "lb"
          BY DEF Half
        <5>2. s # <<>> /\ c # <<>> /\ s[1] = "lb"
          BY <4>5, <4>7, <4>8, <5>1
        <5>3. ~Opens(c) /\ c[1] = "lb"
          BY <4>6, <5>2
        <5>4. Half(b)
          BY <4>1, <4>3, <4>7, <5>1, <5>2, <5>3 DEF Half
        <5> QED
          BY <4>4, <5>3, <5>4
      <4>10. ~Opens(t)
        <5> SUFFICES ASSUME Opens(t) PROVE FALSE
          OBVIOUS
        <5>1. Len(t) >= 2 /\ t[1] = "lb" /\ t[2] = "lb"
          BY DEF Opens
        <5>2. s # <<>> /\ c # <<>> /\ s[1] = "lb"
          BY <4>5, <4>7, <4>8, <5>1
        <5>3. c[1] = "lb"
          BY <4>6, <5>2
        <5>4. Opens(b)
          BY <4>1, <4>3, <4>7, <5>1, <5>2, <5>3 DEF Opens
        <5> QED
          BY <3>8, <5>4
      <4>11. t # <<>>
        <5>1. Len(t) # 0
          BY <4>7
        <5> QED
          BY <5>1
      <4>12. IsPlain(t)
        BY <4>9, <4>10, <4>11 DEF IsPlain
      <4> QED
        BY <3>6, <3>8, <4>12 DEF t
    <3> QED
      BY <3>3, <3>4, <3>7, <3>8
  <2> QED
    BY <2>4 DEF good
<1>3. Texts \subseteq good
  <2> HIDE DEF good
  <2>1. \A t \in Texts : LengthOf[t] \in Nat
    BY <1>1
  <2>2. \A t \in Texts : (\A y \in Texts : LengthOf[y] < LengthOf[t] => y \in good) => t \in good
    BY <1>2
  <2> QED
    BY <2>1, <2>2, Splitting!SmallerFirst
<1> QED
  BY <1>3

(* What is sent.                                                           *)
Notified == WithMember(Value, Value)
RawOp(r, segment)     == IF r.error # "none" THEN r ELSE RenderSegment(r, "raw", segment, Notified, NoEnv)
AddressOp(r, segment) == IF r.error # "none" THEN r ELSE RenderSegment(r, "url", segment, Notified, NoEnv)
Sending    == INSTANCE FoldFacts WITH Op <- RawOp
Addressing == INSTANCE FoldFacts WITH Op <- AddressOp

LEMMA StartedIs ==
  /\ Started.error = "none" /\ Started.out = <<>>
  /\ DOMAIN Started = {"out", "shell", "url", "error"}
  /\ Started = [out |-> <<>>, shell |-> Started.shell, url |-> Started.url, error |-> "none"]
BY DEF Started

(* A template of one segment, or of none, in a body and in a URL.          *)
LEMMA RawOfOne ==
  ASSUME NEW segment, segment.kind # "bad"
  PROVE  /\ Render(<<segment>>, "raw", Notified, NoEnv) = RenderSegment(Started, "raw", segment, Notified, NoEnv)
         /\ Render(<<>>, "raw", Notified, NoEnv) = Started
<1>1. ASSUME NEW segments, NEW n \in Nat, DOMAIN segments = 1 .. n, Len(segments) = n, ~BadSyntax(segments)
      PROVE  \E at : /\ Render(segments, "raw", Notified, NoEnv) = at[n] /\ at[0] = Started
                     /\ \A i \in 1 .. n : at[i] = RawOp(at[i - 1], segments[i])
  <2>1. Render(segments, "raw", Notified, NoEnv) = FoldLeft(RawOp, Started, segments)
    BY <1>1 DEF Render, RawOp
  <2>2. FoldLeft(RawOp, Started, segments) = Sending!Fold(Started, segments, n)
    BY <1>1 DEF Sending!Fold, Sending!Solution, Sending!Solves, Sending!Folded, Sending!Max,
       FoldLeft, MapThenFoldSet, FoldFunction, Max
  <2>3. PICK at : Sending!Trace(at, Started, segments, n) /\ Sending!Fold(Started, segments, n) = at[n]
    BY Sending!FoldTrace
  <2>4. at[0] = Started /\ \A i \in 1 .. n : at[i] = RawOp(at[i - 1], segments[i])
    BY <2>3 DEF Sending!Trace
  <2> QED
    BY <2>1, <2>2, <2>3, <2>4
<1>2. Render(<<>>, "raw", Notified, NoEnv) = Started
  <2>1. Len(<<>>) = 0 /\ DOMAIN <<>> = 1 .. 0 /\ ~BadSyntax(<<>>)
    BY DEF BadSyntax
  <2> QED
    BY <1>1, <2>1
<1>3. Render(<<segment>>, "raw", Notified, NoEnv) = RenderSegment(Started, "raw", segment, Notified, NoEnv)
  <2>1. Len(<<segment>>) = 1 /\ DOMAIN <<segment>> = 1 .. 1 /\ <<segment>>[1] = segment
    OBVIOUS
  <2>2. ~BadSyntax(<<segment>>)
    BY <2>1 DEF BadSyntax
  <2>3. PICK at : /\ Render(<<segment>>, "raw", Notified, NoEnv) = at[1] /\ at[0] = Started
                  /\ \A i \in 1 .. 1 : at[i] = RawOp(at[i - 1], <<segment>>[i])
    BY <1>1, <2>1, <2>2
  <2>4. at[1] = RawOp(Started, segment)
    BY <2>1, <2>3
  <2> QED
    BY <2>3, <2>4, StartedIs DEF RawOp
<1> QED
  BY <1>2, <1>3

LEMMA UrlOfOne ==
  ASSUME NEW segment, segment.kind # "bad"
  PROVE  Render(<<segment>>, "url", Notified, NoEnv) = RenderSegment(Started, "url", segment, Notified, NoEnv)
<1> DEFINE segments == <<segment>>
<1>1. Len(segments) = 1 /\ DOMAIN segments = 1 .. 1 /\ segments[1] = segment
  OBVIOUS
<1> HIDE DEF segments
<1>2. ~BadSyntax(segments)
  BY <1>1 DEF BadSyntax
<1>3. Render(segments, "url", Notified, NoEnv) = FoldLeft(AddressOp, Started, segments)
  BY <1>2 DEF Render, AddressOp
<1>4. FoldLeft(AddressOp, Started, segments) = Addressing!Fold(Started, segments, 1)
  BY <1>1 DEF Addressing!Fold, Addressing!Solution, Addressing!Solves, Addressing!Folded, Addressing!Max,
     FoldLeft, MapThenFoldSet, FoldFunction, Max
<1>5. PICK at : Addressing!Trace(at, Started, segments, 1) /\ Addressing!Fold(Started, segments, 1) = at[1]
  BY <1>1, Addressing!FoldTrace
<1>6. at[0] = Started /\ at[1] = AddressOp(at[0], segments[1])
  BY <1>5 DEF Addressing!Trace
<1>7. AddressOp(Started, segment) = RenderSegment(Started, "url", segment, Notified, NoEnv)
  BY StartedIs DEF AddressOp
<1> QED
  BY <1>1, <1>3, <1>4, <1>5, <1>6, <1>7 DEF segments

LEMMA StartedWith ==
  ASSUME NEW sink, NEW text \in Texts
  PROVE  Written(Started, sink, text).error = "none" /\ Written(Started, sink, text).out = text
<1>1. <<>> \o text = text
  BY ConcatEmptySeq DEF Texts
<1>2. DOMAIN Started = {"out", "shell", "url", "error"} /\ Started.out = <<>> /\ Started.error = "none"
  BY StartedIs
<1> QED
  BY <1>1, <1>2 DEF Written

(* A template that is a text alone is that text.                           *)
LEMMA TextIsSent ==
  ASSUME NEW text, NEW body \in Texts, Compile(text) = Flushed(body)
  PROVE  /\ RenderText(text, "raw", Notified, NoEnv).error = "none"
         /\ RenderText(text, "raw", Notified, NoEnv).out = body
         /\ body # <<>> => /\ RenderText(text, "url", Notified, NoEnv).error = "none"
                           /\ RenderText(text, "url", Notified, NoEnv).out = body
<1> DEFINE segment == Literal(body)
<1>1. segment.kind = "literal" /\ segment.text = body /\ segment.kind # "bad"
  BY DEF Literal
<1>2. CASE body = <<>>
  <2>1. RenderText(text, "raw", Notified, NoEnv) = Started
    BY <1>1, <1>2, RawOfOne DEF RenderText, Flushed, NoSegments
  <2> QED
    BY <1>2, <2>1, StartedIs
<1>3. CASE body # <<>>
  <2>1. Compile(text) = <<segment>>
    BY <1>3 DEF Flushed
  <2> HIDE DEF segment
  <2>2. RenderText(text, "raw", Notified, NoEnv) = Written(Started, "raw", body)
    BY <1>1, <2>1, RawOfOne DEF RenderText, RenderSegment
  <2>3. RenderText(text, "url", Notified, NoEnv) = Written(Started, "url", body)
    BY <1>1, <2>1, UrlOfOne DEF RenderText, RenderSegment
  <2> QED
    BY <2>2, <2>3, StartedWith
<1> QED
  BY <1>2, <1>3

(* One character, and nothing else.                                        *)
LEMMA CharacterIsCompiled ==
  ASSUME NEW c \in Characters
  PROVE  Compile(<<c>>) = Flushed(<<c>>) /\ <<c>> \in Texts /\ <<c>> # <<>>
<1> DEFINE t == <<c>>
<1>1. t \in Texts /\ Len(t) = 1 /\ t # <<>> /\ Head(t) = c /\ Tail(t) = <<>> /\ <<>> \in Texts
  BY DEF Texts
<1>2. Append(<<>>, c) = t
  OBVIOUS
<1> HIDE DEF t
<1>3. IsPlain(t)
  BY <1>1 DEF IsPlain, Half, Opens
<1>4. Compiled[<<t, <<>>>>] = Compiled[<<<<>>, t>>]
  BY <1>1, <1>2, <1>3, CompiledSteps DEF OpIs
<1>5. Compiled[<<<<>>, t>>] = Flushed(t)
  BY <1>1, CompiledSteps DEF OpIs
<1> QED
  BY <1>1, <1>4, <1>5 DEF t, Compile

LEMMA ThreeTogether ==
  ASSUME NEW a, NEW b, NEW c
  PROVE  <<a>> \o <<b>> \o <<c>> = <<a, b, c>>
<1> DEFINE S == {a, b, c}
           two == <<a, b>>
           three == <<a, b, c>>
<1>1. <<a>> \in Seq(S) /\ <<b>> \in Seq(S) /\ <<c>> \in Seq(S) /\ Len(<<a>>) = 1 /\ <<a>>[1] = a /\ a \in S /\ b \in S /\ c \in S
  OBVIOUS
<1>2. two \in Seq(S) /\ Len(two) = 2 /\ two[1] = a /\ two[2] = b
  BY <1>1
<1>3. three \in Seq(S) /\ Len(three) = 3 /\ three[1] = a /\ three[2] = b /\ three[3] = c
  BY <1>1
<1> HIDE DEF S, two, three
<1>4. <<a>> \o <<b>> = Append(<<a>>, b) /\ two \o <<c>> = Append(two, c)
  BY <1>1, <1>2, AppendIsConcat
<1>5. Append(<<a>>, b) = two
  <2> DEFINE one == <<a>>
             x == Append(one, b)
  <2>1. one \in Seq(S) /\ Len(one) = 1 /\ one[1] = a
    BY <1>1
  <2> HIDE DEF one
  <2>2. x \in Seq(S) /\ Len(x) = 2 /\ x[1] = a /\ x[2] = b
    BY <1>1, <2>1, AppendProperties
  <2> HIDE DEF x
  <2>3. \A i \in 1 .. Len(x) : x[i] = two[i]
    BY <1>2, <2>2
  <2> QED
    BY <1>2, <2>2, <2>3, SeqEqual DEF x, one
<1>6. Append(two, c) = three
  <2> DEFINE x == Append(two, c)
  <2>1. x \in Seq(S) /\ Len(x) = Len(two) + 1 /\ (\A i \in 1 .. Len(two) : x[i] = two[i]) /\ x[Len(two) + 1] = c
    BY <1>1, <1>2, AppendProperties
  <2> HIDE DEF x
  <2>2. Len(x) = 3 /\ x[1] = a /\ x[2] = b /\ x[3] = c
    BY <1>2, <2>1
  <2>3. \A i \in 1 .. Len(x) : x[i] = three[i]
    BY <1>3, <2>2
  <2> QED
    BY <1>3, <2>1, <2>2, <2>3, SeqEqual DEF x
<1> QED
  BY <1>4, <1>5, <1>6 DEF two, three

(* What three renderings without an error make is no error.                *)
LEMMA NoError ==
  ASSUME NEW a, NEW b, NEW c, a.error = "none", b.error = "none", c.error = "none"
  PROVE  FirstError(<<a>> \o <<b>> \o <<c>>) = "none"
<1> DEFINE s == <<a, b, c>>
<1>1. <<a>> \o <<b>> \o <<c>> = s
  BY ThreeTogether
<1>2. Len(s) = 3 /\ s[1] = a /\ s[2] = b /\ s[3] = c
  OBVIOUS
<1> HIDE DEF s
<1>3. {i \in 1 .. Len(s) : s[i].error # "none"} = {}
  BY <1>2
<1>4. FirstError(s) = "none"
  BY <1>3 DEF FirstError, SelectInSeq
<1> QED
  BY <1>1, <1>4

(* The title of a card, in the middle of which a value is placed.          *)
LEMMA FiveTogether ==
  ASSUME NEW S, NEW a \in S, NEW b \in S, NEW c \in S, NEW d \in S, NEW e \in S
  PROVE  /\ <<a, b, c, d, e>> \in Seq(S) /\ Len(<<a, b, c, d, e>>) = 5
         /\ <<a, b, c, d, e>>[1] = a /\ <<a, b, c, d, e>>[2] = b /\ <<a, b, c, d, e>>[3] = c
         /\ <<a, b, c, d, e>>[4] = d /\ <<a, b, c, d, e>>[5] = e
OBVIOUS

Named == <<"notification", "dot", "x">>
Closed == <<"notification", "dot", "x", "rb", "rb">>
Literals == {"bs", "lb", "rb", "notification", "dot", "x"}

LEMMA FirstAt ==
  ASSUME NEW n \in Nat, NEW I, I \subseteq 1 .. n, NEW k \in I, \A i \in I : k <= i
  PROVE  First(I) = k
<1> DEFINE f == First(I)
<1>1. n \in Int
  OBVIOUS
<1>2. f \in {0} \cup I
  BY <1>1, FirstIs
<1>3. f = 0 <=> I = {}
  BY <1>1, FirstIs
<1>4. \A i \in I : f <= i
  BY <1>1, FirstIs
<1> HIDE DEF f
<1>5. f \in I /\ k \in I /\ f <= k /\ k <= f
  BY <1>2, <1>3, <1>4
<1>6. f \in 1 .. n /\ k \in 1 .. n
  BY <1>5
<1> QED
  BY <1>5, <1>6 DEF f

LEMMA TitlePartsAre ==
  ASSUME Literals \subseteq Characters
  PROVE  /\ Named \in Texts /\ Len(Named) = 3 /\ Named[1] = "notification" /\ Named[2] = "dot" /\ Named[3] = "x"
         /\ Closed \in Texts /\ Len(Closed) = 5 /\ Closed[1] = "notification" /\ Closed[2] = "dot" /\ Closed[3] = "x"
         /\ Closed[4] = "rb" /\ Closed[5] = "rb"
<1>1. "notification" \in Characters /\ "dot" \in Characters /\ "x" \in Characters /\ "rb" \in Characters
  BY DEF Literals
<1>2. Named \in Seq(Characters) /\ Len(Named) = 3 /\ Named[1] = "notification" /\ Named[2] = "dot" /\ Named[3] = "x"
  BY <1>1, ShortTexts DEF Named
<1>3. /\ Closed \in Seq(Characters) /\ Len(Closed) = 5
      /\ Closed[1] = "notification" /\ Closed[2] = "dot" /\ Closed[3] = "x" /\ Closed[4] = "rb" /\ Closed[5] = "rb"
  BY <1>1, FiveTogether DEF Closed
<1> QED
  BY <1>2, <1>3 DEF Texts

LEMMA NamedIsTrimmed ==
  ASSUME Literals \subseteq Characters
  PROVE  Trimmed(Named) = Named
<1> DEFINE I == {i \in 1 .. Len(Named) : Named[i] # "sp"}
<1>1. Named \in Texts /\ Len(Named) = 3 /\ Named[1] = "notification" /\ Named[2] = "dot" /\ Named[3] = "x"
  BY TitlePartsAre
<1>2. I = 1 .. 3
  BY <1>1
<1>3. Trimmed(Named) = IF First(I) = 0 THEN <<>> ELSE SubSeq(Named, First(I), Latest(I))
  BY DEF Trimmed, SelectInSeq, SelectLastInSeq, First, Latest
<1>4. First(I) = 1
  BY <1>2, FirstAt
<1>5. Latest(I) = 3
  <2>1. Latest(I) \in {0} \cup I /\ \A i \in I : i <= Latest(I)
    BY <1>2, LatestIs
  <2> QED
    BY <1>2, <2>1
<1>6. SubSeq(Named, 1, 3) \in Seq(Characters) /\ Len(SubSeq(Named, 1, 3)) = 3
      /\ \A i \in 1 .. 3 : SubSeq(Named, 1, 3)[i] = Named[i]
  <2> DEFINE s == SubSeq(Named, 1, 3)
  <2>1. 1 \in Nat \ {0} /\ 3 \in Nat /\ 3 <= Len(Named) /\ Named \in Seq(Characters)
    BY <1>1 DEF Texts
  <2>2. s \in Seq(Characters) /\ Len(s) = (IF 1 <= 3 THEN 3 - 1 + 1 ELSE 0)
        /\ \A i \in 1 .. 3 - 1 + 1 : s[i] = Named[1 + i - 1]
    BY <2>1, PieceIs
  <2> HIDE DEF s
  <2>3. Len(s) = 3 /\ s[1] = Named[1] /\ s[2] = Named[2] /\ s[3] = Named[3]
    BY <2>2
  <2>4. \A i \in 1 .. 3 : s[i] = Named[i]
    BY <2>3
  <2> QED
    BY <2>2, <2>3, <2>4 DEF s
<1>7. SubSeq(Named, 1, 3) = Named
  BY <1>1, <1>6, SeqEqual DEF Texts
<1> HIDE DEF I
<1> QED
  BY <1>3, <1>4, <1>5, <1>7

LEMMA SplitIsOne ==
  ASSUME Literals \subseteq Characters
  PROVE  Split[<<"x">>] = <<<<"x">>>>
<1> DEFINE t == <<"x">>
<1>1. t \in Texts /\ Len(t) = 1 /\ t[1] = "x"
  BY ShortTexts DEF Literals, Texts
<1> HIDE DEF t
<1>2. Split[t] = SplitOp(Split, t)
  BY <1>1, SplitIs
<1>3. {i \in 1 .. Len(t) : t[i] = "dot"} = {}
  BY <1>1
<1>4. SplitOp(Split, t) = <<t>>
  BY <1>3 DEF SplitOp, SelectInSeq
<1> QED
  BY <1>2, <1>4 DEF t

LEMMA NamedExpression ==
  ASSUME Literals \subseteq Characters
  PROVE  Expression(Named) = Path(<<<<"x">>>>)
<1> DEFINE P == <<"notification", "dot">>
           rest == Rest(Named, 2)
<1>1. Named \in Texts /\ Len(Named) = 3 /\ Named[1] = "notification" /\ Named[2] = "dot" /\ Named[3] = "x"
  BY TitlePartsAre
<1>2. P \in Seq({"notification", "dot"}) /\ Len(P) = 2 /\ P[1] = "notification" /\ P[2] = "dot"
  OBVIOUS
<1>3. Named # <<"notification">>
  <2>1. Len(<<"notification">>) = 1
    OBVIOUS
  <2> QED
    BY <1>1, <2>1
<1>4. StartsWith(Named, P)
  <2> HIDE DEF P
  <2>1. StartsWith(Named, P) <=> Len(P) <= Len(Named) /\ \A i \in 1 .. Len(P) : Named[i] = P[i]
    BY <1>1, <1>2, StartsIs DEF Texts
  <2> QED
    BY <1>1, <1>2, <2>1
<1>5. rest = <<"x">>
  <2>1. rest \in Seq(Characters) /\ Len(rest) = 1 /\ rest[1] = "x"
    <3>1. 2 \in Nat /\ 2 <= Len(Named)
      BY <1>1
    <3>2. rest \in Texts /\ Len(rest) = Len(Named) - 2 /\ \A i \in 1 .. Len(Named) - 2 : rest[i] = Named[2 + i]
      BY <1>1, <3>1, RestOfText, Zenon
    <3> HIDE DEF rest
    <3> QED
      BY <1>1, <3>2 DEF Texts
  <2> HIDE DEF rest
  <2> QED
    BY <2>1
<1>6. Split[rest] = <<<<"x">>>>
  BY <1>5, SplitIsOne
<1>7. <<>> \notin Range(Split[rest])
  <2>1. <<>> # <<"x">>
    OBVIOUS
  <2> QED
    BY <1>6, <2>1 DEF Range
<1> HIDE DEF P, rest
<1>8. Expression(Named) =
        CASE Named = <<"notification">> -> Path(<<>>)
          [] StartsWith(Named, P) -> IF <<>> \in Range(Split[rest]) THEN Bad("empty_path_segment") ELSE Path(Split[rest])
          [] StartsWith(Named, <<"env", "dot">>) -> IF rest = <<>> THEN Bad("empty_path_segment") ELSE EnvVar(rest)
          [] OTHER -> Bad("unknown_namespace")
  BY NamedIsTrimmed DEF Expression, P, rest
<1>9. ~StartsWith(Named, <<"env", "dot">>)
  <2> DEFINE E == <<"env", "dot">>
  <2>1. E \in Seq({"env", "dot"}) /\ Len(E) = 2 /\ E[1] = "env"
    OBVIOUS
  <2> HIDE DEF E
  <2>2. StartsWith(Named, E) <=> Len(E) <= Len(Named) /\ \A i \in 1 .. Len(E) : Named[i] = E[i]
    BY <1>1, <2>1, StartsIs DEF Texts
  <2> QED
    BY <1>1, <2>1, <2>2 DEF E
<1> QED
  BY <1>3, <1>4, <1>6, <1>7, <1>8, <1>9

LEMMA ClosedIs ==
  ASSUME Literals \subseteq Characters
  PROVE  ParseExpression(Closed) = <<Path(<<<<"x">>>>), 5>>
<1> DEFINE pairs  == [i \in 1 .. Len(Closed) - 1 |-> SubSeq(Closed, i, i + 1)]
           I      == {i \in 1 .. Len(pairs) : pairs[i] = <<"rb", "rb">>}
           close  == First(I)
           escape == First({i \in 1 .. Len(Closed) : Closed[i] = "bs"})
<1>1. ParseExpression(Closed) =
        CASE escape # 0 /\ (close = 0 \/ escape < close) -> <<Bad("escape_inside_expr"), 0>>
          [] close = 0 /\ escape = 0 -> <<Bad("unclosed_braces"), 0>>
          [] OTHER -> <<Expression(SubSeq(Closed, 1, close - 1)), close + 1>>
  BY DEF ParseExpression, SelectInSeq, First
<1>2. /\ Closed \in Texts /\ Len(Closed) = 5 /\ Closed[1] = "notification" /\ Closed[2] = "dot" /\ Closed[3] = "x"
      /\ Closed[4] = "rb" /\ Closed[5] = "rb"
      /\ Named \in Texts /\ Len(Named) = 3 /\ Named[1] = "notification" /\ Named[2] = "dot" /\ Named[3] = "x"
  BY TitlePartsAre
<1>3. Len(pairs) = 4 /\ \A i \in 1 .. 4 : pairs[i] = SubSeq(Closed, i, i + 1)
  BY <1>2
<1> HIDE DEF pairs
<1>4. escape = 0
  <2>1. {i \in 1 .. Len(Closed) : Closed[i] = "bs"} = {}
    BY <1>2
  <2> QED
    BY <2>1 DEF First
<1>5. ASSUME NEW i \in 1 .. 4
      PROVE  SubSeq(Closed, i, i + 1)[1] = Closed[i] /\ SubSeq(Closed, i, i + 1)[2] = Closed[i + 1]
             /\ SubSeq(Closed, i, i + 1) \in Seq(Characters) /\ Len(SubSeq(Closed, i, i + 1)) = 2
  <2>1. i \in Nat \ {0} /\ i + 1 \in Nat /\ i + 1 <= Len(Closed)
    BY <1>2
  <2>2. /\ SubSeq(Closed, i, i + 1) \in Seq(Characters)
        /\ Len(SubSeq(Closed, i, i + 1)) = IF i <= i + 1 THEN (i + 1) - i + 1 ELSE 0
        /\ \A j \in 1 .. (i + 1) - i + 1 : SubSeq(Closed, i, i + 1)[j] = Closed[i + j - 1]
    <3> DEFINE m == i + 1
    <3> HIDE DEF m
    <3>1. m \in Nat /\ m <= Len(Closed) /\ Closed \in Seq(Characters)
      BY <1>2, <2>1 DEF Texts, m
    <3>2. /\ SubSeq(Closed, i, m) \in Seq(Characters)
          /\ Len(SubSeq(Closed, i, m)) = IF i <= m THEN m - i + 1 ELSE 0
          /\ \A j \in 1 .. m - i + 1 : SubSeq(Closed, i, m)[j] = Closed[i + j - 1]
      BY <2>1, <3>1, PieceIs
    <3> QED
      BY <3>2 DEF m
  <2>3. (i + 1) - i + 1 = 2 /\ i + 1 - 1 = i /\ i + 2 - 1 = i + 1 /\ i <= i + 1
    OBVIOUS
  <2>4. 1 \in 1 .. 2 /\ 2 \in 1 .. 2
    OBVIOUS
  <2> QED
    BY <2>2, <2>3, <2>4
<1>6. 4 \in I /\ \A i \in I : 4 <= i
  <2>1. pairs[4] = <<"rb", "rb">>
    <3> DEFINE s == SubSeq(Closed, 4, 4 + 1)
    <3>1. s \in Seq(Characters) /\ Len(s) = 2 /\ s[1] = "rb" /\ s[2] = "rb"
      BY <1>2, <1>5
    <3>2. pairs[4] = s
      BY <1>3
    <3> HIDE DEF s
    <3>3. s = <<"rb", "rb">>
      BY <3>1
    <3> QED
      BY <3>2, <3>3
  <2>2. ASSUME NEW i \in 1 .. 4, pairs[i] = <<"rb", "rb">>
        PROVE  i = 4
    <3>1. Closed[i] = "rb"
      BY <1>3, <1>5, <2>2
    <3> QED
      BY <1>2, <3>1
  <2> QED
    BY <1>3, <2>1, <2>2
<1>7. close = 4
  <2>1. I \subseteq 1 .. 4
    BY <1>3
  <2> HIDE DEF I
  <2> QED
    BY <1>6, <2>1, FirstAt
<1> HIDE DEF close, escape
<1>8. ParseExpression(Closed) = <<Expression(SubSeq(Closed, 1, 3)), 5>>
  BY <1>1, <1>4, <1>7
<1>9. SubSeq(Closed, 1, 3) = Named
  <2> DEFINE s == SubSeq(Closed, 1, 3)
  <2>1. 1 \in Nat \ {0} /\ 3 \in Nat /\ 3 <= Len(Closed) /\ Closed \in Seq(Characters)
    BY <1>2 DEF Texts
  <2>2. s \in Seq(Characters) /\ Len(s) = (IF 1 <= 3 THEN 3 - 1 + 1 ELSE 0)
        /\ \A i \in 1 .. 3 - 1 + 1 : s[i] = Closed[1 + i - 1]
    BY <2>1, PieceIs
  <2> HIDE DEF s
  <2>3. Len(s) = 3 /\ s[1] = Named[1] /\ s[2] = Named[2] /\ s[3] = Named[3]
    BY <1>2, <2>2
  <2>4. \A i \in 1 .. 3 : s[i] = Named[i]
    BY <2>3
  <2> QED
    BY <1>2, <2>2, <2>3, <2>4, SeqEqual DEF s, Texts
<1> QED
  BY <1>8, <1>9, NamedExpression

Title == Open \o <<"notification", "dot", "x">> \o <<"rb", "rb">>

LEMMA TitleIs ==
  ASSUME Literals \subseteq Characters
  PROVE  Title \in Texts /\ Opens(Title) /\ Rest(Title, 2) = Closed /\ Len(Title) = 7
<1>1. /\ Named \in Seq(Characters) /\ Len(Named) = 3 /\ Named[1] = "notification" /\ Named[2] = "dot" /\ Named[3] = "x"
      /\ Closed \in Seq(Characters) /\ Len(Closed) = 5 /\ Closed[1] = "notification" /\ Closed[2] = "dot"
      /\ Closed[3] = "x" /\ Closed[4] = "rb" /\ Closed[5] = "rb"
  BY TitlePartsAre DEF Texts
<1> DEFINE close == <<"rb", "rb">>
           a == Open \o Named
           t == a \o close
<1>2. /\ close \in Seq(Characters) /\ Len(close) = 2 /\ close[1] = "rb" /\ close[2] = "rb"
      /\ Open \in Seq(Characters) /\ Len(Open) = 2 /\ Open[1] = "lb" /\ Open[2] = "lb"
  BY ShortTexts DEF Literals, Open
<1> HIDE DEF close
<1>3. a \in Seq(Characters) /\ Len(a) = 5 /\ (\A i \in 1 .. 5 : a[i] = IF i <= 2 THEN Open[i] ELSE Named[i - 2])
  <2>1. Open \o Named \in Seq(Characters) /\ Len(Open \o Named) = Len(Open) + Len(Named)
        /\ \A i \in 1 .. Len(Open) + Len(Named) : (Open \o Named)[i] =
             IF i <= Len(Open) THEN Open[i] ELSE Named[i - Len(Open)]
    BY <1>1, <1>2, ConcatProperties, Zenon
  <2> QED
    BY <1>1, <1>2, <2>1
<1> HIDE DEF a
<1>4. t \in Seq(Characters) /\ Len(t) = 7 /\ (\A i \in 1 .. 7 : t[i] = IF i <= 5 THEN a[i] ELSE close[i - 5])
  <2>1. a \o close \in Seq(Characters) /\ Len(a \o close) = Len(a) + Len(close)
        /\ \A i \in 1 .. Len(a) + Len(close) : (a \o close)[i] =
             IF i <= Len(a) THEN a[i] ELSE close[i - Len(a)]
    BY <1>2, <1>3, ConcatProperties, Zenon
  <2> QED
    BY <1>2, <1>3, <2>1
<1>5. Title = t
  BY DEF Title, Named, close, a
<1> HIDE DEF t
<1>6. /\ t[1] = "lb" /\ t[2] = "lb" /\ t[3] = "notification" /\ t[4] = "dot" /\ t[5] = "x"
      /\ t[6] = "rb" /\ t[7] = "rb"
  BY <1>1, <1>2, <1>3, <1>4
<1>7. t \in Texts /\ Opens(t)
  BY <1>4, <1>6 DEF Texts, Opens
<1>8. Rest(t, 2) = Closed
  <2> DEFINE r == Rest(t, 2)
  <2>1. r \in Texts /\ Len(r) = 5 /\ \A i \in 1 .. 5 : r[i] = t[2 + i]
    <3>1. 2 \in Nat /\ 2 <= Len(t)
      BY <1>4
    <3>2. r \in Texts /\ Len(r) = Len(t) - 2 /\ \A i \in 1 .. Len(t) - 2 : r[i] = t[2 + i]
      BY <1>7, <3>1, RestOfText, Zenon
    <3> HIDE DEF r
    <3> QED
      BY <1>4, <3>2
  <2> HIDE DEF r
  <2>2. r[1] = t[3] /\ r[2] = t[4] /\ r[3] = t[5] /\ r[4] = t[6] /\ r[5] = t[7]
    BY <2>1
  <2>3. \A i \in 1 .. 5 : r[i] = Closed[i]
    BY <1>1, <1>6, <2>2
  <2>4. r = Closed
    BY <1>1, <2>1, <2>3, SeqEqual DEF Texts
  <2> QED
    BY <2>4 DEF r
<1> QED
  BY <1>4, <1>5, <1>7, <1>8

LEMMA TitleIsCompiled ==
  ASSUME Literals \subseteq Characters
  PROVE  Compile(Title) = <<Path(<<<<"x">>>>)>>
<1>1. Title \in Texts /\ Opens(Title) /\ Rest(Title, 2) = Closed /\ Len(Title) = 7 /\ <<>> \in Texts
  BY TitleIs DEF Texts
<1>2. ParsedIn(Title) = <<Path(<<<<"x">>>>), 5>>
  BY <1>1, ClosedIs DEF ParsedIn
<1> DEFINE p == Path(<<<<"x">>>>)
<1>3. ~IsBad(p)
  BY DEF IsBad, Path
<1> HIDE DEF p
<1>4. ParsedIn(Title)[1] = p /\ ParsedIn(Title)[2] = 5
  BY <1>2 DEF p
<1>5. Compiled[<<Title, <<>>>>] = Flushed(<<>>) \o <<p>> \o Compiled[<<Rest(Title, 2 + 5), <<>>>>]
  <2>1. OpIs(Compiled, Title, <<>>) /\ Compiled[<<Title, <<>>>>] = CompileOp(Compiled, <<Title, <<>>>>)
    BY <1>1, CompiledSteps
  <2> QED
    BY <1>1, <1>3, <1>4, <2>1 DEF OpIs
<1>6. Rest(Title, 2 + 5) = <<>>
  <2> DEFINE r == Rest(Title, 7)
  <2>1. 7 \in Nat /\ 7 <= Len(Title)
    BY <1>1
  <2>2. r \in Texts /\ Len(r) = Len(Title) - 7
    BY <1>1, <2>1, RestOfText, Zenon
  <2> HIDE DEF r
  <2>3. r = <<>>
    BY <1>1, <2>2 DEF Texts
  <2> QED
    BY <2>3 DEF r
<1>7. Compiled[<<<<>>, <<>>>>] = Flushed(<<>>)
  <2>1. OpIs(Compiled, <<>>, <<>>) /\ Compiled[<<<<>>, <<>>>>] = CompileOp(Compiled, <<<<>>, <<>>>>)
    BY <1>1, CompiledSteps
  <2> QED
    BY <2>1 DEF OpIs
<1>8. Flushed(<<>>) = <<>>
  BY DEF Flushed, NoSegments
<1>9. <<>> \o <<p>> \o <<>> = <<p>>
  <2>1. <<p>> \in Seq({p})
    OBVIOUS
  <2> QED
    BY <2>1, ConcatEmptySeq
<1> QED
  BY <1>5, <1>6, <1>7, <1>8, <1>9 DEF p, Compile

(* Where the title names the value, it is the value.                       *)
LEMMA ValueIsFound ==
  WalkPath(Notified, <<<<"x">>>>) = Json(Value, NoMembers)
<1> DEFINE path == <<<<"x">>>>
<1>1. Len(path) = 1 /\ DOMAIN path = 1 .. 1 /\ path[1] = <<"x">>
  OBVIOUS
<1> HIDE DEF path
<1>2. WalkPath(Notified, path) = FoldLeft(WalkOp, Notified, path)
  BY DEF WalkPath, WalkOp
<1>3. FoldLeft(WalkOp, Notified, path) = Walking!Fold(Notified, path, 1)
  BY <1>1 DEF Walking!Fold, Walking!Solution, Walking!Solves, Walking!Folded, Walking!Max,
     FoldLeft, MapThenFoldSet, FoldFunction, Max
<1>4. PICK at : Walking!Trace(at, Notified, path, 1) /\ Walking!Fold(Notified, path, 1) = at[1]
  BY <1>1, Walking!FoldTrace
<1>5. at[0] = Notified /\ at[1] = WalkOp(at[0], path[1])
  BY <1>4 DEF Walking!Trace
<1>6. WalkOp(Notified, <<"x">>) = Json(Value, NoMembers)
  <2>1. ~IsMissing(Notified)
    BY DEF IsMissing, Notified, WithMember, Json
  <2>2. Notified.fields = [name \in {<<"x">>} |-> Json(Value, NoMembers)]
    BY DEF Notified, WithMember, Json
  <2> QED
    BY <2>1, <2>2 DEF WalkOp
<1> QED
  BY <1>1, <1>2, <1>3, <1>4, <1>5, <1>6 DEF path

LEMMA TitleIsShown ==
  ASSUME Literals \subseteq Characters, Value \in Texts
  PROVE  /\ RenderText(Title, "raw", Notified, NoEnv).error = "none"
         /\ RenderText(Title, "raw", Notified, NoEnv).out = Value
<1> DEFINE p == Path(<<<<"x">>>>)
<1>1. p.kind = "notification" /\ p.kind # "bad" /\ p.path = <<<<"x">>>>
  BY DEF Path
<1> HIDE DEF p
<1>2. RenderText(Title, "raw", Notified, NoEnv) = RenderSegment(Started, "raw", p, Notified, NoEnv)
  BY <1>1, TitleIsCompiled, RawOfOne DEF RenderText, p
<1> DEFINE json == WalkPath(Notified, <<<<"x">>>>)
<1>3. json = Json(Value, NoMembers) /\ json.text = Value /\ ~IsMissing(json)
  BY ValueIsFound DEF Json, IsMissing
<1>4. RenderSegment(Started, "raw", p, Notified, NoEnv) = Placed(Started, "raw", Value)
  BY <1>1, <1>3 DEF RenderSegment
<1>5. Placed(Started, "raw", Value) = [Started EXCEPT !.out = @ \o Value]
  BY DEF Placed
<1>6. <<>> \o Value = Value
  BY ConcatEmptySeq DEF Texts
<1>7. DOMAIN Started = {"out", "shell", "url", "error"} /\ Started.out = <<>> /\ Started.error = "none"
  BY StartedIs
<1> QED
  BY <1>2, <1>4, <1>5, <1>6, <1>7

(* The text of a template that stands for no template at all.              *)
Default == <<"default">>

LEMMA NotDefault ==
  ASSUME "bs" \in Characters, "lb" \in Characters, NEW e \in Texts, e # Default
  PROVE  Replaced[e] # Default
<1> SUFFICES ASSUME Replaced[e] = Default PROVE FALSE
  OBVIOUS
<1>1. ReplaceIs(Replaced, e) /\ Replaced[e] = Replace(Replaced, e)
  BY ReplacedAt
<1>2. Default # <<>> /\ Len(Default) = 1 /\ Default[1] = "default"
  BY DEF Default
<1>3. \A y \in Texts : EscapedWell(y) /\ Len(y) \in Nat
  BY ReplacedIs, ShorterTexts
<1>4. CASE e = <<>>
  BY <1>1, <1>2, <1>4 DEF ReplaceIs
<1>5. CASE Opens(e)
  <2> DEFINE y == Rest(e, 2)
  <2>1. y \in Texts
    BY <1>5, ShorterTexts DEF Opens
  <2>2. Replaced[y] \in Texts
    BY <1>3, <2>1 DEF EscapedWell
  <2>3. Replaced[e] = Three(Replaced[y])
    BY <1>1, <1>5 DEF ReplaceIs
  <2> HIDE DEF y
  <2>4. Len(Three(Replaced[y])) = Len(Replaced[y]) + 3 /\ Len(Replaced[y]) \in Nat
    BY <1>3, <2>2, ThreeIs
  <2> DEFINE s == Replaced[y]
  <2> HIDE DEF s
  <2>5. Len(Default) = Len(s) + 3 /\ Len(s) \in Nat
    BY <2>3, <2>4 DEF s
  <2> QED
    BY <1>2, <2>5
<1>6. CASE e # <<>> /\ ~Opens(e)
  <2> DEFINE y == Tail(e)
             a == Head(e)
  <2>1. y \in Texts /\ a \in Characters /\ Len(y) = Len(e) - 1 /\ a = e[1] /\ Len(e) \in Nat
    BY <1>6, TailIs, ShorterTexts
  <2>2. Replaced[y] \in Texts /\ (Replaced[y] = <<>> <=> y = <<>>)
    BY <1>3, <2>1 DEF EscapedWell
  <2>3. Replaced[e] = One(a, Replaced[y])
    BY <1>1, <1>6 DEF ReplaceIs
  <2> HIDE DEF y, a
  <2>4. Len(One(a, Replaced[y])) = Len(Replaced[y]) + 1 /\ Len(Replaced[y]) \in Nat /\ One(a, Replaced[y])[1] = a
    BY <1>3, <2>1, <2>2, OneIs
  <2>5. Len(Replaced[y]) = 0 /\ a = "default"
    <3> DEFINE s == Replaced[y]
    <3> HIDE DEF s
    <3>1. Default = One(a, s) /\ Len(One(a, s)) = Len(s) + 1 /\ Len(s) \in Nat /\ One(a, s)[1] = a
      BY <2>3, <2>4 DEF s
    <3>2. Len(Default) = Len(s) + 1 /\ Default[1] = a
      BY <3>1
    <3>3. Len(s) = 0
      <4> DEFINE n == Len(s)
      <4>1. n \in Nat /\ 1 = n + 1
        BY <1>2, <3>1, <3>2, Zenon
      <4> HIDE DEF n
      <4>2. n = 0
        BY <4>1
      <4> QED
        BY <4>2 DEF n
    <3> QED
      BY <1>2, <3>2, <3>3, Zenon DEF s
  <2>6. Replaced[y] = <<>>
    BY <2>2, <2>5 DEF Texts
  <2>7. Len(y) = 0
    BY <2>2, <2>6
  <2>8. Len(e) = 1 /\ e[1] = "default" /\ e \in Seq(Characters)
    BY <2>1, <2>5, <2>7 DEF Texts
  <2>9. Default \in Seq({"default"})
    BY DEF Default
  <2>10. e = Default
    BY <1>2, <2>8, <2>9, SeqEqual
  <2> QED
    BY <2>10
<1> QED
  BY <1>4, <1>5, <1>6

(* A request with one header and a body made of a text, its braces escaped. *)
LEMMA BodyGoesThrough ==
  ASSUME "bs" \in Characters, "lb" \in Characters, "slash" \in Characters,
         NEW e \in Texts, e # Default, NEW v \in Characters, NEW name, NEW cfg,
         cfg.url = <<"slash">>, cfg.headers = <<[name |-> name, value |-> <<v>>]>>, cfg.body = EscapedBraces(e)
  PROVE  IsSent(RenderWebhook(cfg, Notified, NoEnv), e)
<1> DEFINE u == RenderText(<<"slash">>, "url", Notified, NoEnv)
           h == RenderText(<<v>>, "raw", Notified, NoEnv)
           b == RenderText(Replaced[e], "raw", Notified, NoEnv)
           hs == [i \in DOMAIN cfg.headers |-> RenderText(cfg.headers[i].value, "raw", Notified, NoEnv)]
           names == [i \in DOMAIN cfg.headers |-> cfg.headers[i].name]
<1>1. u.error = "none"
  BY CharacterIsCompiled, TextIsSent
<1>2. h.error = "none"
  BY CharacterIsCompiled, TextIsSent
<1>3. b.error = "none" /\ b.out = e
  <2>1. <<>> \in Texts /\ <<>> \o e = e
    BY ConcatEmptySeq DEF Texts
  <2>2. Compile(Replaced[e]) = Flushed(e)
    BY <2>1, EscapesReadBack DEF Compile
  <2> QED
    BY <2>2, TextIsSent
<1>4. DOMAIN cfg.headers = 1 .. 1 /\ cfg.headers[1].value = <<v>>
  OBVIOUS
<1>5. hs = <<h>>
  <2>1. hs = [i \in 1 .. 1 |-> RenderText(cfg.headers[i].value, "raw", Notified, NoEnv)]
    BY <1>4
  <2>2. \A i \in 1 .. 1 : RenderText(cfg.headers[i].value, "raw", Notified, NoEnv) = h
    BY <1>4
  <2> HIDE DEF h
  <2>3. hs = [i \in 1 .. 1 |-> h]
    BY <2>1, <2>2
  <2> HIDE DEF hs
  <2> QED
    BY <2>3
<1>6. EscapedBraces(e) # <<"default">>
  BY NotDefault DEF EscapedBraces, Default
<1>7. RenderWebhook(cfg, Notified, NoEnv) = Request(u, names, hs, b)
  <2> HIDE DEF names, hs, u, b
  <2> QED
    BY <1>6 DEF RenderWebhook, EscapedBraces, names, hs, u, b
<1> HIDE DEF u, h, b, hs, names
<1> DEFINE rq == Request(u, names, hs, b)
<1>8. rq.body = b.out /\ rq.error = FirstError(<<u>> \o hs \o <<b>>)
  BY DEF Request
<1>9. rq.error = "none"
  BY <1>1, <1>2, <1>3, <1>5, <1>8, NoError
<1> QED
  BY <1>3, <1>7, <1>8, <1>9 DEF IsSent

WordsOfBodies == {"slash", "reconstructed", "card", "json", "cloudevents+json"}

(* The body made of a notification is sent as it is, whatever the          *)
(* notification and the event it came in contain: what looks like a        *)
(* placeholder in it is text (post.rs and teams.rs                         *)
(* synthesise_webhook_config, which escape the braces; webhook.rs, which   *)
(* puts the body through the template engine).  "default" alone is how the *)
(* model writes that a webhook has no body of its own; no event is that.   *)
THEOREM BodiesAreSent ==
  ASSUME Literals \cup WordsOfBodies \subseteq Characters, Value \in Texts,
         NEW raw, IsMissing(raw) \/ raw.text \in Texts \ {Default}
  PROVE  BodyIsSent(Value, raw)
<1>1. /\ "bs" \in Characters /\ "lb" \in Characters /\ "slash" \in Characters /\ Literals \subseteq Characters
      /\ "reconstructed" \in Characters /\ "card" \in Characters /\ "json" \in Characters
      /\ "cloudevents+json" \in Characters
  BY DEF Literals, WordsOfBodies
<1>2. Notified.text = Value
  BY DEF Notified, WithMember, Json
<1>3. ASSUME NEW a \in Characters, a # "default", NEW rest \in Texts
      PROVE  <<a>> \o rest \in Texts \ {Default}
  <2>1. <<a>> \o rest \in Texts /\ (<<a>> \o rest)[1] = a
    BY OneMore DEF Texts
  <2>2. Default[1] = "default"
    BY DEF Default
  <2> QED
    BY <1>3, <2>1, <2>2
<1> DEFINE envelope == Envelope(Notified, raw)
           post == PostConfig(<<"slash">>, <<>>, envelope)
<1>4. envelope \in Texts \ {Default}
  <2>1. CASE IsMissing(raw)
    <3>1. <<"reconstructed">> \o Value \in Texts \ {Default}
      BY <1>1, <1>3
    <3> QED
      BY <1>2, <2>1, <3>1 DEF Envelope
  <2>2. CASE ~IsMissing(raw)
    BY <2>2 DEF Envelope
  <2> QED
    BY <2>1, <2>2
<1>5. IsSent(RenderWebhook(post, Notified, NoEnv), envelope)
  <2>1. post.url = <<"slash">> /\ post.body = EscapedBraces(envelope)
        /\ post.headers = WithContentType(<<>>, <<"cloudevents+json">>)
    BY DEF PostConfig
  <2>2. WithContentType(<<>>, <<"cloudevents+json">>) = <<[name |-> "Content-Type", value |-> <<"cloudevents+json">>]>>
    BY DEF WithContentType
  <2> HIDE DEF post, envelope
  <2> QED
    BY <1>1, <1>4, <2>1, <2>2, BodyGoesThrough
<1> DEFINE teams == TeamsConfig(<<"slash">>, Title, Notified, NoEnv)
           whole == <<"card">> \o Value \o Value
<1>6. CardIsSent(teams, Notified)
  <2>1. teams = TeamsCard(<<"slash">>, RenderText(Title, "raw", Notified, NoEnv), Notified)
    BY DEF TeamsConfig
  <2>2. RenderText(Title, "raw", Notified, NoEnv).error = "none"
        /\ RenderText(Title, "raw", Notified, NoEnv).out = Value
    BY <1>1, TitleIsShown
  <2> DEFINE shown == RenderText(Title, "raw", Notified, NoEnv)
  <2> HIDE DEF shown
  <2>3. teams.error = "none" /\ teams.cfg.url = <<"slash">> /\ teams.cfg.body = EscapedBraces(whole)
        /\ teams.cfg.headers = <<[name |-> "Content-Type", value |-> <<"json">>]>>
    BY <1>2, <2>1, <2>2 DEF TeamsCard, shown
  <2>4. whole \in Texts \ {Default}
    <3>1. Value \o Value \in Texts /\ <<"card">> \in Seq(Characters) /\ Value \in Seq(Characters)
      BY <1>1, ConcatProperties, OneMore DEF Texts
    <3>2. whole = <<"card">> \o (Value \o Value)
      BY <3>1, ConcatAssociative
    <3> QED
      BY <1>1, <1>3, <3>1, <3>2
  <2> HIDE DEF teams, whole
  <2>5. IsSent(RenderWebhook(teams.cfg, Notified, NoEnv), whole)
    BY <1>1, <2>3, <2>4, BodyGoesThrough
  <2> QED
    BY <1>2, <2>3, <2>5 DEF CardIsSent, whole
<1> QED
  BY <1>5, <1>6 DEF BodyIsSent, Notified, Title, envelope, post, teams
=============================================================================
