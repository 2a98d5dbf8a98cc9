------------------------------ MODULE FoldFacts ------------------------------
(***************************************************************************)
(* What a fold to the left computes, for any operator: the values it goes  *)
(* through, one for every prefix of the sequence.  The definition of the   *)
(* community modules is recursive over sets of positions; here it is shown *)
(* to have a solution, from the well-foundedness of the numbers.  So is a  *)
(* recursive function over anything that has a size.                       *)
(***************************************************************************)
EXTENDS Integers, SequencesExt, FiniteSetTheorems, SequenceTheorems, TLAPS

CONSTANT Op(_, _)

LEMMA Least ==
  ASSUME NEW S, S \subseteq Nat, S # {}
  PROVE  \E least \in S : \A n \in S : least <= n
<1> DEFINE below == {0 .. n : n \in S}
<1>1. IsWellFoundedOn(StrictSubsetOrdering(Nat), FiniteSubsetsOf(Nat))
  BY FS_StrictSubsetOrderingWellFounded
<1>2. below \subseteq FiniteSubsetsOf(Nat) /\ below # {}
  <2>1. ASSUME NEW n \in S PROVE 0 .. n \in FiniteSubsetsOf(Nat)
    <3>1. IsFiniteSet(0 .. n)
      BY FS_Interval
    <3>2. 0 .. n \in SUBSET Nat
      OBVIOUS
    <3> QED BY <3>1, <3>2, Zenon DEF FiniteSubsetsOf
  <2> QED BY <2>1
<1>3. \E b \in below : \A c \in below : <<c, b>> \notin StrictSubsetOrdering(Nat)
  <2> HIDE DEF below
  <2> QED BY <1>1, <1>2, WFMin
<1>4. PICK m \in S : \A n \in S : <<0 .. n, 0 .. m>> \notin StrictSubsetOrdering(Nat)
  BY <1>3
<1>5. ASSUME NEW n \in S PROVE m <= n
  <2>1. 0 .. n \in SUBSET Nat /\ 0 .. m \in SUBSET Nat
    OBVIOUS
  <2>2. ~(0 .. n \subseteq 0 .. m) \/ 0 .. n = 0 .. m
    BY <1>4, <2>1, Zenon DEF StrictSubsetOrdering
  <2>3. m \in Nat /\ n \in Nat
    OBVIOUS
  <2>4. CASE n < m
    <3>1. 0 .. n \subseteq 0 .. m
      BY <2>3, <2>4
    <3>2. m \in 0 .. m /\ m \notin 0 .. n
      BY <2>3, <2>4
    <3> QED BY <2>2, <3>1, <3>2
  <2> QED BY <2>3, <2>4
<1> QED BY <1>5

(* Induction, for a set of natural numbers rather than for a predicate.    *)
LEMMA NaturalSets ==
  ASSUME NEW S, 0 \in S, \A n \in Nat : n \in S => n + 1 \in S
  PROVE  Nat \subseteq S
<1> SUFFICES ASSUME Nat \ S # {} PROVE FALSE
  OBVIOUS
<1>0. Nat \ S \subseteq Nat
  OBVIOUS
<1>1. PICK m \in Nat \ S : \A n \in Nat \ S : m <= n
  BY <1>0, Least
<1>2. m # 0 /\ m - 1 \in Nat
  BY <1>1
<1>3. m - 1 \in S
  BY <1>1, <1>2
<1> QED BY <1>1, <1>2, <1>3

(* The greatest of a set of positions.                                     *)
LEMMA MaxIs ==
  ASSUME NEW S, S \subseteq Nat, S # {}, NEW bound \in Nat, \A i \in S : i <= bound
  PROVE  Max(S) \in S /\ \A i \in S : i <= Max(S)
<1> DEFINE above == {n \in Nat : \A i \in S : i <= n}
<1>1. PICK top \in above : \A n \in above : top <= n
  BY Least
<1>2. top \in S
  <2> SUFFICES ASSUME top \notin S PROVE FALSE
    OBVIOUS
  <2>1. \A i \in S : i <= top - 1
    BY <1>1
  <2>2. PICK i \in S : i <= top - 1
    BY <2>1
  <2>3. top - 1 \in above
    BY <1>1, <2>1, <2>2
  <2> QED
    BY <1>1, <2>3
<1>3. \E x \in S : \A y \in S : x >= y
  BY <1>1, <1>2
<1> QED
  BY <1>3 DEF Max

(* The first k positions, without the greatest of them.                    *)
LEMMA ShorterPrefix ==
  ASSUME NEW k \in Nat \ {0}
  PROVE  Max(1 .. k) = k /\ (1 .. k) \ {k} = 1 .. k - 1
<1> DEFINE S == 1 .. k
<1>1. S \subseteq Nat /\ S # {} /\ k \in S /\ \A i \in S : i <= k
  OBVIOUS
<1>2. Max(S) \in S /\ \A i \in S : i <= Max(S)
  BY <1>1, MaxIs, Zenon
<1>3. Max(S) = k
  BY <1>1, <1>2
<1> QED
  BY <1>3

(* Without its greatest element, a set of the first k + 1 positions is one *)
(* of the first k.                                                         *)
LEMMA WithoutGreatest ==
  ASSUME NEW k \in Nat, NEW s \in SUBSET (1 .. k + 1), s # {}
  PROVE  s \ {Max(s)} \in SUBSET (1 .. k)
<1>1. s \subseteq Nat /\ k + 1 \in Nat /\ \A i \in s : i <= k + 1
  OBVIOUS
<1>2. Max(s) \in s /\ \A i \in s : i <= Max(s)
  BY <1>1, MaxIs
<1> DEFINE m == Max(s)
<1>3. m \in 1 .. k + 1 /\ \A i \in s : i <= m
  BY <1>2
<1> HIDE DEF m
<1>4. ASSUME NEW i \in s, i # m PROVE i \in 1 .. k
  <2>1. i \in 1 .. k + 1 /\ i <= m
    BY <1>3
  <2> QED
    BY <1>3, <1>4, <2>1
<1>5. s \ {m} \in SUBSET (1 .. k)
  BY <1>4
<1> QED
  BY <1>5 DEF m

-----------------------------------------------------------------------------
(* One step of the recursion, and its solution over the first k positions. *)
Folded(g, base, seq, s) == IF s = {} THEN base ELSE Op(g[s \ {Max(s)}], seq[Max(s)])
Solves(g, base, seq, k) == g = [s \in SUBSET (1 .. k) |-> Folded(g, base, seq, s)]

LEMMA NextSolution ==
  ASSUME NEW base, NEW seq, NEW k \in Nat, NEW g, Solves(g, base, seq, k)
  PROVE  \E h : Solves(h, base, seq, k + 1)
<1> DEFINE h == [s \in SUBSET (1 .. k + 1) |-> Folded(g, base, seq, s)]
<1>1. ASSUME NEW s \in SUBSET (1 .. k) PROVE h[s] = g[s]
  BY DEF Solves
<1>2. ASSUME NEW s \in SUBSET (1 .. k + 1) PROVE Folded(h, base, seq, s) = Folded(g, base, seq, s)
  <2>1. CASE s = {}
    BY <2>1 DEF Folded
  <2>2. CASE s # {}
    <3>1. s \ {Max(s)} \in SUBSET (1 .. k)
      BY <2>2, WithoutGreatest
    <3>2. h[s \ {Max(s)}] = g[s \ {Max(s)}]
      BY <1>1, <3>1
    <3> HIDE DEF h
    <3> QED
      BY <2>2, <3>2 DEF Folded
  <2> QED
    BY <2>1, <2>2
<1>3. h = [s \in SUBSET (1 .. k + 1) |-> Folded(h, base, seq, s)]
  BY <1>2
<1> QED
  BY <1>3 DEF Solves

LEMMA HasSolution ==
  ASSUME NEW base, NEW seq, NEW n \in Nat
  PROVE  \E g : Solves(g, base, seq, n)
<1> DEFINE solved == {k \in Nat : \E g : Solves(g, base, seq, k)}
<1>1. 0 \in solved
  <2> DEFINE g == [s \in SUBSET (1 .. 0) |-> base]
  <2>1. \A s \in SUBSET (1 .. 0) : s = {}
    OBVIOUS
  <2>2. \A s \in SUBSET (1 .. 0) : Folded(g, base, seq, s) = base
    BY <2>1 DEF Folded
  <2>3. Solves(g, base, seq, 0)
    BY <2>2 DEF Solves
  <2> QED
    BY <2>3
<1>2. \A k \in Nat : k \in solved => k + 1 \in solved
  BY NextSolution
<1> HIDE DEF solved
<1>3. Nat \subseteq solved
  BY <1>1, <1>2, NaturalSets
<1> QED
  BY <1>3 DEF solved

(* A fold to the left, and the values it goes through.                     *)
Solution(base, seq, n) == CHOOSE g : Solves(g, base, seq, n)
Fold(base, seq, n)     == Solution(base, seq, n)[1 .. n]

Trace(at, base, seq, n) == at[0] = base /\ \A k \in 1 .. n : at[k] = Op(at[k - 1], seq[k])

THEOREM FoldTrace ==
  ASSUME NEW base, NEW n \in Nat, NEW seq
  PROVE  \E at : Trace(at, base, seq, n) /\ Fold(base, seq, n) = at[n]
<1> DEFINE iter == Solution(base, seq, n)
           at   == [k \in 0 .. n |-> iter[1 .. k]]
<1>1. Solves(iter, base, seq, n)
  BY HasSolution DEF Solution
<1> HIDE DEF iter
<1>2. \A k \in 0 .. n : iter[1 .. k] = Folded(iter, base, seq, 1 .. k)
  BY <1>1 DEF Solves
<1>3. at[0] = base
  <2>1. iter[1 .. 0] = Folded(iter, base, seq, 1 .. 0)
    BY <1>2
  <2>2. Folded(iter, base, seq, {}) = base
    BY DEF Folded
  <2>3. 1 .. 0 = {}
    OBVIOUS
  <2> QED
    BY <2>1, <2>2, <2>3
<1>4. ASSUME NEW k \in 1 .. n PROVE at[k] = Op(at[k - 1], seq[k])
  <2>1. Max(1 .. k) = k /\ (1 .. k) \ {k} = 1 .. k - 1 /\ 1 .. k # {}
    BY ShorterPrefix
  <2>2. Folded(iter, base, seq, 1 .. k) = Op(iter[1 .. k - 1], seq[k])
    BY <2>1 DEF Folded
  <2> QED
    BY <1>2, <2>2
<1>5. at[n] = Fold(base, seq, n)
  BY DEF Fold, iter
<1> HIDE DEF at
<1> QED
  BY <1>3, <1>4, <1>5 DEF Trace

(* Two traces of the same elements are the same.                           *)
LEMMA TraceUnique ==
  ASSUME NEW base, NEW n \in Nat, NEW s, NEW r, \A i \in 1 .. n : s[i] = r[i],
         NEW at, Trace(at, base, s, n), NEW bt, Trace(bt, base, r, n)
  PROVE  \A k \in 0 .. n : at[k] = bt[k]
<1> DEFINE same == {k \in Nat : k <= n => at[k] = bt[k]}
<1>1. 0 \in same
  BY DEF Trace
<1>2. ASSUME NEW k \in Nat, k \in same PROVE k + 1 \in same
  <2> SUFFICES ASSUME k + 1 <= n PROVE at[k + 1] = bt[k + 1]
    OBVIOUS
  <2>1. k + 1 \in 1 .. n /\ (k + 1) - 1 = k /\ at[k] = bt[k]
    BY <1>2
  <2>2. at[k + 1] = Op(at[k], s[k + 1]) /\ bt[k + 1] = Op(bt[k], r[k + 1]) /\ s[k + 1] = r[k + 1]
    BY <2>1 DEF Trace
  <2> QED
    BY <2>1, <2>2
<1> HIDE DEF same
<1>3. Nat \subseteq same
  BY <1>1, <1>2, NaturalSets
<1> QED
  BY <1>3 DEF same

(* A fold over one sequence after another goes on where it was.            *)
LEMMA FoldGoesOn ==
  ASSUME NEW base, NEW x, NEW n \in Nat, NEW y, NEW m \in Nat, NEW z,
         \A i \in 1 .. n : z[i] = x[i], \A i \in 1 .. m : z[n + i] = y[i]
  PROVE  Fold(base, z, n + m) = Fold(Fold(base, x, n), y, m)
<1>1. PICK at : Trace(at, base, z, n + m) /\ Fold(base, z, n + m) = at[n + m]
  BY FoldTrace
<1>2. PICK bt : Trace(bt, base, x, n) /\ Fold(base, x, n) = bt[n]
  BY FoldTrace
<1>3. at[n] = bt[n]
  <2>1. Trace(at, base, z, n)
    BY <1>1 DEF Trace
  <2>2. \A k \in 0 .. n : at[k] = bt[k]
    BY <1>2, <2>1, TraceUnique
  <2> QED
    BY <2>2
<1> DEFINE mid == bt[n]
           dt  == [k \in 0 .. m |-> at[n + k]]
<1>4. PICK ct : Trace(ct, mid, y, m) /\ Fold(mid, y, m) = ct[m]
  BY FoldTrace
<1>5. Trace(dt, mid, y, m)
  <2>1. dt[0] = mid
    BY <1>3
  <2>2. ASSUME NEW k \in 1 .. m PROVE dt[k] = Op(dt[k - 1], y[k])
    <3>1. n + k \in 1 .. n + m /\ (n + k) - 1 = n + (k - 1) /\ k - 1 \in 0 .. m /\ k \in 0 .. m
      OBVIOUS
    <3>2. at[n + k] = Op(at[n + (k - 1)], z[n + k]) /\ z[n + k] = y[k]
      BY <1>1, <3>1 DEF Trace
    <3> QED
      BY <3>1, <3>2
  <2> HIDE DEF dt, mid
  <2> QED
    BY <2>1, <2>2 DEF Trace
<1>6. dt[m] = ct[m]
  <2> HIDE DEF dt, mid
  <2>1. \A k \in 0 .. m : dt[k] = ct[k]
    BY <1>4, <1>5, TraceUnique
  <2> QED
    BY <2>1
<1> QED
  BY <1>1, <1>2, <1>4, <1>6

LEMMA FoldOfFew ==
  ASSUME NEW base, NEW s
  PROVE  Fold(base, s, 0) = base /\ Fold(base, s, 1) = Op(base, s[1])
<1>1. PICK at : Trace(at, base, s, 0) /\ Fold(base, s, 0) = at[0]
  BY FoldTrace
<1>2. PICK bt : Trace(bt, base, s, 1) /\ Fold(base, s, 1) = bt[1]
  BY FoldTrace
<1>3. bt[1] = Op(bt[0], s[1])
  <2>1. 1 \in 1 .. 1 /\ 1 - 1 = 0
    OBVIOUS
  <2> QED
    BY <1>2, <2>1 DEF Trace
<1> QED
  BY <1>1, <1>2, <1>3 DEF Trace

(* A fold stays where each of its steps does.                              *)
LEMMA FoldStays ==
  ASSUME NEW P, NEW base \in P, NEW n \in Nat, NEW s, \A p \in P : \A i \in 1 .. n : Op(p, s[i]) \in P
  PROVE  Fold(base, s, n) \in P
<1>1. PICK at : Trace(at, base, s, n) /\ Fold(base, s, n) = at[n]
  BY FoldTrace
<1> DEFINE within == {k \in Nat : k <= n => at[k] \in P}
<1>2. 0 \in within
  BY <1>1 DEF Trace
<1>3. ASSUME NEW k \in Nat, k \in within PROVE k + 1 \in within
  <2> SUFFICES ASSUME k + 1 <= n PROVE at[k + 1] \in P
    OBVIOUS
  <2>1. k + 1 \in 1 .. n /\ (k + 1) - 1 = k /\ at[k] \in P
    BY <1>3
  <2>2. at[k + 1] = Op(at[k], s[k + 1])
    BY <1>1, <2>1 DEF Trace
  <2> QED
    BY <2>1, <2>2
<1> HIDE DEF within
<1>4. Nat \subseteq within
  BY <1>2, <1>3, NaturalSets
<1> QED
  BY <1>1, <1>4 DEF within

LEMMA FoldOfJoined ==
  ASSUME NEW T, NEW base, NEW x \in Seq(T), NEW y \in Seq(T)
  PROVE  Fold(base, x \o y, Len(x \o y)) = Fold(Fold(base, x, Len(x)), y, Len(y))
<1> DEFINE z == x \o y
           n == Len(x)
           m == Len(y)
<1>1. /\ n \in Nat /\ m \in Nat /\ Len(z) = n + m
      /\ \A i \in 1 .. n : z[i] = x[i]
      /\ \A i \in 1 .. m : z[n + i] = y[i]
  BY ConcatProperties
<1> HIDE DEF z, n, m
<1>2. Fold(base, z, n + m) = Fold(Fold(base, x, n), y, m)
  BY <1>1, FoldGoesOn
<1> QED
  BY <1>1, <1>2 DEF z, n, m

(* Over sequences put end to end, a fold passes through the places that    *)
(* each of them leads to.                                                  *)
LEMMA FoldOfPieces ==
  ASSUME NEW T, NEW n \in Nat \ {0}, NEW seqs, \A k \in 1 .. n : seqs[k] \in Seq(T),
         NEW at, at[1] = seqs[1], \A k \in 2 .. n : at[k] = at[k - 1] \o seqs[k],
         NEW P, NEW base \in P[0],
         \A k \in 1 .. n : \A p \in P[k - 1] : Fold(p, seqs[k], Len(seqs[k])) \in P[k]
  PROVE  at[n] \in Seq(T) /\ Fold(base, at[n], Len(at[n])) \in P[n]
<1> DEFINE Passes(k) == at[k] \in Seq(T) /\ Fold(base, at[k], Len(at[k])) \in P[k]
           passed == {k \in Nat : 1 <= k /\ k <= n => Passes(k)}
<1>1. 0 \in passed
  OBVIOUS
<1>2. ASSUME NEW k \in Nat, k \in passed PROVE k + 1 \in passed
  <2> SUFFICES ASSUME k + 1 <= n PROVE Passes(k + 1)
    OBVIOUS
  <2>0. k + 1 \in 1 .. n /\ (k + 1) - 1 = k
    OBVIOUS
  <2>1. CASE k = 0
    <3>1. 1 \in 1 .. n /\ 1 - 1 = 0 /\ at[1] = seqs[1] /\ k + 1 = 1
      BY <2>1
    <3>2. seqs[1] \in Seq(T) /\ Fold(base, seqs[1], Len(seqs[1])) \in P[1]
      BY <3>1
    <3> QED
      BY <3>1, <3>2
  <2>2. CASE k # 0
    <3>1. k + 1 \in 2 .. n /\ Passes(k)
      BY <1>2, <2>2
    <3> DEFINE x == at[k]
               y == seqs[k + 1]
               z == at[k + 1]
    <3>2. z = x \o y /\ x \in Seq(T) /\ y \in Seq(T)
      BY <3>1, <2>0
    <3> HIDE DEF x, y, z
    <3>3. z \in Seq(T)
      BY <3>2, ConcatProperties
    <3>4. Fold(base, z, Len(z)) = Fold(Fold(base, x, Len(x)), y, Len(y))
      BY <3>2, FoldOfJoined
    <3>5. Fold(base, x, Len(x)) \in P[k]
      BY <3>1 DEF x
    <3>6. Fold(Fold(base, x, Len(x)), y, Len(y)) \in P[k + 1]
      BY <2>0, <3>5 DEF y
    <3> QED
      BY <3>3, <3>4, <3>6 DEF z
  <2> QED
    BY <2>1, <2>2
<1> HIDE DEF passed
<1>3. Nat \subseteq passed
  BY <1>1, <1>2, NaturalSets
<1>4. n \in passed /\ 1 <= n /\ n <= n
  BY <1>3
<1> QED
  BY <1>4 DEF passed

(* It is the fold of the community modules.                                *)
THEOREM FoldLeftIs ==
  ASSUME NEW base, NEW n \in Nat, NEW seq, DOMAIN seq = 1 .. n
  PROVE  FoldLeft(Op, base, seq) = Fold(base, seq, n)
  BY DEF FoldLeft, MapThenFoldSet, Fold, Solution, Solves, Folded

(* A recursive function is one, when what it is at a point depends on what *)
(* it is at smaller ones only.                                             *)
Smaller(D, size) ==
  \A f, g : \A x \in D : (\A y \in D : size[y] < size[x] => f[y] = g[y]) => Op(f, x) = Op(g, x)
Partly(f, D, size, m) == \A x \in D : size[x] < m => f[x] = Op(f, x)

LEMMA PartsExist ==
  ASSUME NEW D, NEW size, \A x \in D : size[x] \in Nat, Smaller(D, size), NEW m \in Nat
  PROVE  \E f : Partly(f, D, size, m)
<1> DEFINE solved == {n \in Nat : \E f : Partly(f, D, size, n)}
<1>1. 0 \in solved
  BY DEF Partly
<1>2. ASSUME NEW n \in Nat, n \in solved PROVE n + 1 \in solved
  <2> PICK f : Partly(f, D, size, n)
    BY <1>2
  <2> DEFINE h == [x \in D |-> Op(f, x)]
  <2>1. \A x \in D : h[x] = Op(f, x)
    OBVIOUS
  <2> HIDE DEF h
  <2>2. \A x \in D : size[x] < n => h[x] = f[x]
    BY <2>1 DEF Partly
  <2>3. ASSUME NEW x \in D, size[x] < n + 1 PROVE h[x] = Op(h, x)
    <3>1. \A y \in D : size[y] < size[x] => h[y] = f[y]
      BY <2>2, <2>3
    <3>2. Op(h, x) = Op(f, x)
      BY <3>1 DEF Smaller
    <3> QED
      BY <2>1, <3>2
  <2>4. Partly(h, D, size, n + 1)
    BY <2>3 DEF Partly
  <2> QED
    BY <2>4
<1> HIDE DEF solved
<1>3. m \in solved
  BY <1>1, <1>2, NaturalSets
<1> QED
  BY <1>3 DEF solved

LEMMA PartsAgree ==
  ASSUME NEW D, NEW size, \A x \in D : size[x] \in Nat, Smaller(D, size),
         NEW m \in Nat, NEW k \in Nat, m <= k, NEW f, NEW g, Partly(f, D, size, m), Partly(g, D, size, k)
  PROVE  \A x \in D : size[x] < m => f[x] = g[x]
<1> DEFINE agree == {n \in Nat : n <= m => \A x \in D : size[x] < n => f[x] = g[x]}
<1>1. 0 \in agree
  OBVIOUS
<1>2. ASSUME NEW n \in Nat, n \in agree PROVE n + 1 \in agree
  <2> SUFFICES ASSUME n + 1 <= m, NEW x \in D, size[x] < n + 1 PROVE f[x] = g[x]
    OBVIOUS
  <2>1. \A y \in D : size[y] < size[x] => f[y] = g[y]
    BY <1>2
  <2>2. Op(f, x) = Op(g, x)
    BY <2>1 DEF Smaller
  <2>3. f[x] = Op(f, x) /\ g[x] = Op(g, x)
    BY DEF Partly
  <2> QED
    BY <2>2, <2>3
<1> HIDE DEF agree
<1>3. m \in agree
  BY <1>1, <1>2, NaturalSets
<1> QED
  BY <1>3 DEF agree

LEMMA RecursiveFunction ==
  ASSUME NEW D, NEW size, \A x \in D : size[x] \in Nat, Smaller(D, size)
  PROVE  \E f : f = [x \in D |-> Op(f, x)]
<1> DEFINE part(x) == CHOOSE f : Partly(f, D, size, size[x] + 1)
           F == [x \in D |-> part(x)[x]]
<1>1. ASSUME NEW x \in D PROVE Partly(part(x), D, size, size[x] + 1)
  <2>1. \E f : Partly(f, D, size, size[x] + 1)
    BY PartsExist
  <2> QED
    BY <2>1
<1> HIDE DEF part
<1>2. \A x \in D : F[x] = part(x)[x]
  OBVIOUS
<1>3. F = [x \in D |-> F[x]]
  OBVIOUS
<1> HIDE DEF F
<1>4. ASSUME NEW x \in D PROVE F[x] = Op(F, x)
  <2>1. ASSUME NEW y \in D, size[y] < size[x] PROVE F[y] = part(x)[y]
    <3>1. size[y] + 1 \in Nat /\ size[x] + 1 \in Nat /\ size[y] + 1 <= size[x] + 1 /\ size[y] < size[y] + 1
      BY <2>1
    <3>2. part(y)[y] = part(x)[y]
      BY <1>1, <3>1, PartsAgree
    <3> QED
      BY <1>2, <3>2
  <2>2. Op(F, x) = Op(part(x), x)
    BY <2>1 DEF Smaller
  <2>3. part(x)[x] = Op(part(x), x)
    BY <1>1 DEF Partly
  <2> QED
    BY <1>2, <2>2, <2>3
<1> QED
  BY <1>3, <1>4

(* What holds wherever it holds at all that is smaller holds everywhere.   *)
LEMMA SmallerFirst ==
  ASSUME NEW D, NEW size, \A x \in D : size[x] \in Nat, NEW good,
         \A x \in D : (\A y \in D : size[y] < size[x] => y \in good) => x \in good
  PROVE  D \subseteq good
<1> DEFINE reached == {n \in Nat : \A x \in D : size[x] < n => x \in good}
<1>1. 0 \in reached
  OBVIOUS
<1>2. ASSUME NEW n \in Nat, n \in reached
      PROVE  n + 1 \in reached
  <2>1. ASSUME NEW x \in D, size[x] < n + 1
        PROVE  x \in good
    <3>1. ASSUME NEW y \in D, size[y] < size[x]
          PROVE  y \in good
      <4>1. size[y] < n
        BY <2>1, <3>1
      <4> QED
        BY <1>2, <4>1
    <3> QED
      BY <3>1
  <2> QED
    BY <2>1
<1>3. Nat \subseteq reached
  <2> HIDE DEF reached
  <2> QED
    BY <1>1, <1>2, NaturalSets
<1>4. ASSUME NEW x \in D
      PROVE  x \in good
  <2>1. size[x] + 1 \in reached /\ size[x] < size[x] + 1
    BY <1>3
  <2> QED
    BY <2>1
<1> QED
  BY <1>4
=============================================================================
