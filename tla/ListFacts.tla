----------------------------- MODULE ListFacts -----------------------------
(* What the proofs need of numbers and sequences and the library does not    *)
(* state without an operator for a parameter: least elements, functions that *)
(* go on from their last value, and sequences of sequences put together.     *)
EXTENDS Integers, Sequences, SequencesExt, SequenceTheorems, WellFoundedInduction, NaturalsInduction, TLAPS

(* A set of numbers that is not empty has a least one. *)
LEMMA LeastNumber ==
  ASSUME NEW S, S \subseteq Nat, S # {}
  PROVE  \E x \in S : \A y \in S : x <= y
<1> DEFINE Before == OpToRel(<, Nat)
<1>1. IsWellFoundedOn(Before, Nat)
  BY NatLessThanWellFounded, Zenon
<1>2. \A x, y \in Nat : x < y => <<x, y>> \in Before
  BY DEF OpToRel
<1> HIDE DEF Before
<1>3. PICK x \in S : \A y \in S : ~(<<y, x>> \in Before)
  BY <1>1, WFMin
<1>4. ASSUME NEW y \in S
      PROVE  x <= y
  <2>1. x \in Nat /\ y \in Nat
    OBVIOUS
  <2>2. ~(y < x)
    BY <1>2, <1>3, <2>1
  <2> QED
    BY <2>1, <2>2
<1> QED
  BY <1>4

(* What holds of the first number, and of n when it holds of n - 1, holds up *)
(* to a bound.                                                               *)
LEMMA Climbs ==
  ASSUME NEW lo \in Nat, NEW hi \in Int, NEW Bad, Bad \subseteq lo..hi, lo \notin Bad,
         \A n \in lo + 1..hi : n \in Bad => n - 1 \in Bad
  PROVE  Bad = {}
<1> SUFFICES ASSUME Bad # {} PROVE FALSE
  OBVIOUS
<1>1. PICK n \in Bad : \A k \in Bad : n <= k
  <2>1. Bad \subseteq Nat
    OBVIOUS
  <2> QED
    BY <2>1, LeastNumber
<1>2. n \in lo + 1..hi /\ ~(n <= n - 1)
  OBVIOUS
<1> QED
  BY <1>1, <1>2

(* Numbers none of which is below the one before rise. *)
LEMMA Rising ==
  ASSUME NEW lo \in Nat, NEW hi \in Int, NEW h,
         \A i \in lo..hi : h[i] \in Int, \A i \in lo + 1..hi : h[i - 1] <= h[i]
  PROVE  \A a, b \in lo..hi : a <= b => h[a] <= h[b]
<1> SUFFICES ASSUME NEW a \in lo..hi
             PROVE  \A b \in a..hi : h[a] <= h[b]
  OBVIOUS
<1> DEFINE Bad == {b \in a..hi : ~(h[a] <= h[b])}
<1>1. a \in Nat /\ Bad \subseteq a..hi /\ a \notin Bad
  OBVIOUS
<1>2. ASSUME NEW n \in a + 1..hi, n - 1 \notin Bad
      PROVE  n \notin Bad
  <2>1. n - 1 \in a..hi /\ n \in lo + 1..hi /\ n \in lo..hi /\ n - 1 \in lo..hi
    OBVIOUS
  <2>2. h[a] <= h[n - 1] /\ h[n - 1] <= h[n] /\ h[a] \in Int /\ h[n] \in Int /\ h[n - 1] \in Int
    BY <1>2, <2>1
  <2> QED
    BY <2>2
<1> HIDE DEF Bad
<1>3. Bad = {}
  BY <1>1, <1>2, Climbs
<1> QED
  BY <1>3 DEF Bad

(* A function that goes on from its last value exists. *)
Continues(q, base, g, hi) == q[0] = base /\ \A n \in 1..hi : q[n] = g[n][q[n - 1]]

LEMMA Recursion ==
  ASSUME NEW hi \in Nat, NEW base, NEW g
  PROVE  \E q : Continues(q, base, g, hi)
<1> DEFINE Step(q, n) == IF n = 0 THEN base ELSE g[n][q[n - 1]]
           Exists(m) == \E q : q = [n \in 0..m |-> Step(q, n)]
           Bad == {m \in 0..hi : ~Exists(m)}
<1>1. 0 \notin Bad
  <2>1. [n \in 0..0 |-> base] = [n \in 0..0 |-> Step([i \in 0..0 |-> base], n)]
    OBVIOUS
  <2> QED
    BY <2>1
<1>2. ASSUME NEW m \in 1..hi, m - 1 \notin Bad
      PROVE  m \notin Bad
  <2>1. PICK q : q = [n \in 0..m - 1 |-> Step(q, n)]
    BY <1>2
  <2> DEFINE r == [n \in 0..m |-> Step(q, n)]
  <2>2. ASSUME NEW n \in 0..m
        PROVE  Step(r, n) = Step(q, n)
    <3>1. CASE n = 0
      BY <3>1
    <3>2. CASE n # 0
      <4>1. n - 1 \in 0..m /\ n - 1 \in 0..m - 1
        BY <3>2
      <4>2. r[n - 1] = q[n - 1]
        <5> HIDE DEF Step
        <5> QED
          BY <2>1, <4>1
      <4> HIDE DEF r
      <4> QED
        BY <3>2, <4>2
    <3> QED
      BY <3>1, <3>2
  <2>3. r = [n \in 0..m |-> Step(r, n)]
    <3> HIDE DEF Step
    <3> QED
      BY <2>2
  <2>4. Exists(m)
    <3> HIDE DEF r
    <3> QED
      BY <2>3
  <2> QED
    BY <2>4
<1> HIDE DEF Bad
<1>3. Bad = {}
  <2>1. 0 \in Nat /\ hi \in Int /\ Bad \subseteq 0..hi
    BY DEF Bad
  <2>2. \A n \in 0 + 1..hi : n \in 1..hi
    OBVIOUS
  <2> QED
    BY <1>1, <1>2, <2>1, <2>2, Climbs
<1>4. PICK q : q = [n \in 0..hi |-> Step(q, n)]
  BY <1>3 DEF Bad
<1>5. \A n \in 0..hi : q[n] = Step(q, n)
  <2> HIDE DEF Step
  <2> QED
    BY <1>4
<1>6. q[0] = base /\ \A n \in 1..hi : q[n] = g[n][q[n - 1]]
  <2>1. 0 \in 0..hi /\ \A n \in 1..hi : n \in 0..hi /\ n # 0
    OBVIOUS
  <2> QED
    BY <1>5, <2>1
<1>7. Continues(q, base, g, hi)
  BY <1>6 DEF Continues
<1> QED
  BY <1>7

(* It is typed when its base and its steps are. *)
LEMMA StaysIn ==
  ASSUME NEW hi \in Nat, NEW X, NEW q, q[0] \in X,
         \A n \in 1..hi : q[n - 1] \in X => q[n] \in X
  PROVE  \A n \in 0..hi : q[n] \in X
<1> DEFINE Bad == {n \in 0..hi : q[n] \notin X}
<1>1. Bad \subseteq 0..hi /\ 0 \notin Bad /\ \A n \in 0 + 1..hi : n \in Bad => n - 1 \in Bad
  OBVIOUS
<1>0. 0 \in Nat /\ hi \in Int
  OBVIOUS
<1> HIDE DEF Bad
<1>2. Bad = {}
  BY <1>0, <1>1, Climbs
<1> QED
  BY <1>2 DEF Bad

-----------------------------------------------------------------------------
(* The sequences of a sequence put together one after the other. *)
LEMMA FlatExists ==
  ASSUME NEW S, NEW q \in Seq(Seq(S)), Len(q) > 0
  PROVE  \E f : f = [i \in 1..Len(q) |-> IF i = 1 THEN q[i] ELSE f[i - 1] \o q[i]]
<1> DEFINE N == Len(q)
           X == Seq(S)
           g == [n \in 1..N |-> [x \in X |-> x \o q[n]]]
<1>0. N \in Nat /\ N > 0 /\ \A i \in 1..N : q[i] \in X
  OBVIOUS
<1>1. \A n \in 1..N : \A x \in X : g[n][x] = x \o q[n]
  OBVIOUS
<1>2. N \in Nat
  BY <1>0
<1> HIDE DEF g
<1>3. PICK r : r[0] = <<>> /\ \A n \in 1..N : r[n] = g[n][r[n - 1]]
  <2> HIDE DEF N, X
  <2>1. PICK r : Continues(r, <<>>, g, N)
    BY <1>2, Recursion
  <2> QED
    BY <2>1 DEF Continues
<1>4. \A n \in 0..N : r[n] \in X
  <2>1. r[0] \in X
    BY <1>3
  <2>2. \A x \in X : \A y \in X : x \o y \in X
    OBVIOUS
  <2> HIDE DEF X, N
  <2>3. ASSUME NEW n \in 1..N, r[n - 1] \in X
        PROVE  r[n] \in X
    <3>1. r[n] = r[n - 1] \o q[n] /\ q[n] \in X
      BY <1>0, <1>1, <1>3, <2>3
    <3> QED
      BY <2>2, <2>3, <3>1
  <2> QED
    BY <1>0, <2>1, <2>3, StaysIn
<1>5. \A n \in 1..N : r[n] = r[n - 1] \o q[n]
  <2>1. \A n \in 1..N : n - 1 \in 0..N
    BY <1>0
  <2> HIDE DEF X, N
  <2> QED
    BY <1>1, <1>3, <1>4, <2>1
<1>6. r[1] = q[1]
  <2>1. 1 \in 1..N /\ 1 - 1 = 0 /\ q[1] \in X
    BY <1>0
  <2>2. \A x \in X : <<>> \o x = x
    OBVIOUS
  <2> QED
    BY <1>3, <1>5, <2>1, <2>2
<1> DEFINE f == [i \in 1..N |-> r[i]]
<1>7. ASSUME NEW i \in 1..N
      PROVE  f[i] = IF i = 1 THEN q[i] ELSE f[i - 1] \o q[i]
  <2>1. CASE i = 1
    BY <2>1, <1>6
  <2>2. CASE i # 1
    <3>1. i - 1 \in 1..N
      BY <1>0, <2>2
    <3> QED
      BY <1>5, <3>1, <2>2
  <2> QED
    BY <2>1, <2>2
<1>8. f = [i \in 1..N |-> f[i]]
  OBVIOUS
<1> HIDE DEF f
<1>9. f = [i \in 1..N |-> IF i = 1 THEN q[i] ELSE f[i - 1] \o q[i]]
  BY <1>7, <1>8
<1> QED
  BY <1>9

LEMMA FlatSteps ==
  ASSUME NEW S, NEW q \in Seq(Seq(S))
  PROVE  \E f : /\ f[0] = <<>> /\ FlattenSeq(q) = f[Len(q)] /\ \A i \in 0..Len(q) : f[i] \in Seq(S)
                /\ \A i \in 1..Len(q) : f[i] = f[i - 1] \o q[i]
<1> DEFINE N == Len(q)
           X == Seq(S)
<1>0. N \in Nat /\ \A i \in 1..N : q[i] \in X
  OBVIOUS
<1>1. CASE N = 0
  <2>1. q = <<>> /\ FlattenSeq(q) = q
    BY <1>1 DEF FlattenSeq
  <2> DEFINE f == [i \in {0} |-> <<>>]
  <2>2. f[0] = <<>> /\ <<>> \in X /\ (\A i \in 0..N : i = 0) /\ \A i \in 1..N : FALSE
    BY <1>1
  <2> HIDE DEF f
  <2>3. \A i \in 0..N : f[i] \in X
    BY <2>2
  <2> QED
    BY <1>1, <2>1, <2>2, <2>3
<1>2. CASE N > 0
  <2> DEFINE flatten[i \in 1..N] == IF i = 1 THEN q[i] ELSE flatten[i - 1] \o q[i]
  <2>1. flatten = [i \in 1..N |-> IF i = 1 THEN q[i] ELSE flatten[i - 1] \o q[i]]
    <3>1. \E f : f = [i \in 1..Len(q) |-> IF i = 1 THEN q[i] ELSE f[i - 1] \o q[i]]
      BY <1>2, FlatExists
    <3> QED
      BY <3>1
  <2>2. FlattenSeq(q) = flatten[N]
    BY <1>2 DEF FlattenSeq
  <2> HIDE DEF flatten
  <2> DEFINE f == [i \in 0..N |-> IF i = 0 THEN <<>> ELSE flatten[i]]
  <2>3. f[0] = <<>> /\ FlattenSeq(q) = f[N]
    BY <1>0, <1>2, <2>2
  <2>4. \A x \in X : <<>> \o x = x
    OBVIOUS
  <2>5. ASSUME NEW i \in 1..N
        PROVE  f[i] = f[i - 1] \o q[i]
    <3>1. f[i] = flatten[i]
      BY <1>0
    <3>4. flatten[i] = IF i = 1 THEN q[i] ELSE flatten[i - 1] \o q[i]
      <4> HIDE DEF N, f
      <4> QED
        BY <2>1
    <3>2. CASE i = 1
      <4>1. f[i - 1] = <<>> /\ f[i] = q[i] /\ q[i] \in X
        BY <3>1, <3>4, <3>2, <1>0
      <4> QED
        BY <4>1, <2>4
    <3>3. CASE i # 1
      <4>1. i - 1 \in 1..N /\ f[i - 1] = flatten[i - 1]
        BY <1>0, <3>3
      <4> QED
        BY <3>1, <3>4, <3>3, <4>1
    <3> QED
      BY <3>2, <3>3
  <2> HIDE DEF f
  <2>6. \A i \in 0..N : f[i] \in X
    <3>1. f[0] \in X
      BY <2>3
    <3>2. \A x \in X : \A y \in X : x \o y \in X
      OBVIOUS
    <3> HIDE DEF X, N
    <3>3. \A n \in 1..N : f[n - 1] \in X => f[n] \in X
      BY <1>0, <2>5, <3>2
    <3> QED
      BY <1>0, <3>1, <3>3, StaysIn
  <2>7. /\ f[0] = <<>> /\ FlattenSeq(q) = f[Len(q)] /\ \A i \in 0..Len(q) : f[i] \in Seq(S)
        /\ \A i \in 1..Len(q) : f[i] = f[i - 1] \o q[i]
    BY <2>3, <2>5, <2>6
  <2> HIDE DEF N, X
  <2> QED
    BY <2>7, Zenon
<1>3. N = 0 \/ N > 0
  BY <1>0
<1> QED
  BY <1>1, <1>2, <1>3, Zenon

(* Where the parts stand in the whole: off counts what is before each. *)
LaidOut(off, q, s) ==
  /\ off[0] = 0 /\ off[Len(q)] = Len(s)
  /\ \A i \in 0..Len(q) : off[i] \in Nat
  /\ \A i \in 1..Len(q) : off[i] = off[i - 1] + Len(q[i])
  /\ \A i \in 1..Len(q) : \A k \in 1..Len(q[i]) : s[off[i - 1] + k] = q[i][k]

LEMMA Appending ==
  ASSUME NEW S, NEW x \in Seq(S), NEW y \in Seq(S)
  PROVE  /\ Len(x \o y) = Len(x) + Len(y)
         /\ \A k \in 1..Len(x) : (x \o y)[k] = x[k]
         /\ \A k \in 1..Len(y) : (x \o y)[Len(x) + k] = y[k]
<1> DEFINE z == x \o y
           a == Len(x)
           b == Len(y)
<1>1. Len(z) = a + b /\ a \in Nat /\ b \in Nat /\ \A k \in 1..a + b : z[k] = IF k <= a THEN x[k] ELSE y[k - a]
  BY ConcatProperties
<1> HIDE DEF z, a, b
<1>2. \A k \in 1..a : k \in 1..a + b /\ k <= a
  BY <1>1
<1>3. \A k \in 1..b : a + k \in 1..a + b /\ ~(a + k <= a) /\ (a + k) - a = k
  BY <1>1
<1> QED
  BY <1>1, <1>2, <1>3 DEF z, a, b

LEMMA FlatPlaced ==
  ASSUME NEW S, NEW q \in Seq(Seq(S))
  PROVE  FlattenSeq(q) \in Seq(S) /\ \E off : LaidOut(off, q, FlattenSeq(q))
<1> DEFINE N == Len(q)
           X == Seq(S)
<1>0. N \in Nat /\ \A i \in 1..N : q[i] \in X
  OBVIOUS
<1>1. PICK f : /\ f[0] = <<>> /\ FlattenSeq(q) = f[N] /\ \A i \in 0..N : f[i] \in X
               /\ \A i \in 1..N : f[i] = f[i - 1] \o q[i]
  BY FlatSteps
<1> DEFINE off == [i \in 0..N |-> Len(f[i])]
           Holds(m) == \A i \in 1..m : \A k \in 1..Len(q[i]) : f[m][off[i - 1] + k] = q[i][k]
           Bad == {m \in 0..N : ~Holds(m)}
<1>2. \A x \in X : Len(x) \in Nat
  OBVIOUS
<1>3. \A x \in X : \A y \in X : /\ Len(x \o y) = Len(x) + Len(y)
                                /\ \A k \in 1..Len(x) : (x \o y)[k] = x[k]
                                /\ \A k \in 1..Len(y) : (x \o y)[Len(x) + k] = y[k]
  BY Appending
<1>4. /\ off[0] = 0 /\ off[N] = Len(f[N]) /\ \A i \in 0..N : off[i] \in Nat /\ off[i] = Len(f[i])
  <2>1. 0 \in 0..N /\ N \in 0..N /\ Len(<<>>) = 0
    BY <1>0
  <2> HIDE DEF X, N
  <2> QED
    BY <1>1, <1>2, <2>1
<1> HIDE DEF off, X, N
<1>5. \A i \in 1..N : i - 1 \in 0..N /\ i \in 0..N
  BY <1>0
<1>6. \A i \in 1..N : off[i] = off[i - 1] + Len(q[i])
  <2> SUFFICES ASSUME NEW i \in 1..N PROVE off[i] = off[i - 1] + Len(q[i])
    OBVIOUS
  <2>1. f[i - 1] \in X /\ q[i] \in X /\ f[i] = f[i - 1] \o q[i]
    BY <1>0, <1>1, <1>5
  <2>2. Len(f[i - 1] \o q[i]) = Len(f[i - 1]) + Len(q[i])
    BY <1>3, <2>1
  <2>3. off[i] = Len(f[i]) /\ off[i - 1] = Len(f[i - 1])
    BY <1>4, <1>5
  <2> QED
    BY <2>1, <2>2, <2>3
<1>7. \A a, b \in 0..N : a <= b => off[a] <= off[b]
  <2>1. \A i \in 0 + 1..N : off[i - 1] <= off[i]
    <3> SUFFICES ASSUME NEW i \in 1..N PROVE off[i - 1] <= off[i]
      OBVIOUS
    <3>1. off[i - 1] \in Nat /\ Len(q[i]) \in Nat /\ off[i] = off[i - 1] + Len(q[i])
      BY <1>0, <1>2, <1>4, <1>5, <1>6
    <3> QED
      BY <3>1
  <2>2. 0 \in Nat /\ N \in Int /\ \A i \in 0..N : off[i] \in Int
    BY <1>0, <1>4
  <2> QED
    BY <2>1, <2>2, Rising
<1>8. ASSUME NEW m \in 1..N, Holds(m - 1)
      PROVE  Holds(m)
  <2> SUFFICES ASSUME NEW i \in 1..m, NEW k \in 1..Len(q[i]) PROVE f[m][off[i - 1] + k] = q[i][k]
    OBVIOUS
  <2>0. i \in 1..N /\ i - 1 \in 0..N /\ m - 1 \in 0..N /\ m \in 0..N
    BY <1>0
  <2>1. f[m] = f[m - 1] \o q[m] /\ f[m - 1] \in X /\ q[m] \in X /\ Len(q[i]) \in Nat
    BY <1>0, <1>1, <1>2, <2>0
  <2>2. CASE i = m
    <3>1. off[i - 1] = Len(f[m - 1])
      BY <1>4, <2>0, <2>2
    <3>2. (f[m - 1] \o q[m])[Len(f[m - 1]) + k] = q[m][k]
      BY <2>1, <2>2, <1>3
    <3> QED
      BY <2>1, <2>2, <3>1, <3>2
  <2>3. CASE i # m
    <3>1. i \in 1..m - 1 /\ i \in 0..N /\ i <= m - 1
      BY <2>0, <2>3
    <3>2. f[m - 1][off[i - 1] + k] = q[i][k]
      BY <1>8, <3>1
    <3>3. off[i] <= off[m - 1] /\ off[i] = off[i - 1] + Len(q[i]) /\ off[i - 1] \in Nat /\ off[m - 1] = Len(f[m - 1])
          /\ off[m - 1] \in Nat
      BY <1>4, <1>6, <1>7, <2>0, <3>1
    <3>4. off[i - 1] + k \in 1..Len(f[m - 1])
      BY <3>3, <2>1
    <3>5. (f[m - 1] \o q[m])[off[i - 1] + k] = f[m - 1][off[i - 1] + k]
      BY <2>1, <3>4, <1>3
    <3> QED
      BY <2>1, <3>2, <3>5
  <2> QED
    BY <2>2, <2>3
<1>9. Bad = {}
  <2>1. 0 \in Nat /\ N \in Int /\ Bad \subseteq 0..N /\ 0 \notin Bad
    BY <1>0
  <2>2. ASSUME NEW n \in 0 + 1..N, n \in Bad PROVE n - 1 \in Bad
    <3>1. n - 1 \in 0..N /\ n \in 1..N
      BY <1>0
    <3> HIDE DEF Holds
    <3>2. ~Holds(n)
      BY <2>2
    <3>3. ~Holds(n - 1)
      BY <1>8, <3>1, <3>2
    <3> QED
      BY <3>1, <3>3
  <2> HIDE DEF Bad
  <2> QED
    BY <2>1, <2>2, Climbs
<1>10. Holds(N)
  <2> HIDE DEF Holds
  <2> QED
    BY <1>0, <1>9
<1>11. LaidOut(off, q, f[N])
  BY <1>4, <1>6, <1>10 DEF LaidOut, N
<1>12. f[N] \in X
  BY <1>0, <1>1
<1> QED
  BY <1>1, <1>11, <1>12 DEF X

(* Everything in the whole stands in a part, and later ones in no earlier    *)
(* part.                                                                     *)
LEMMA Located ==
  ASSUME NEW q, NEW s, NEW off, LaidOut(off, q, s), Len(q) \in Nat, \A i \in 1..Len(q) : Len(q[i]) \in Nat
  PROVE  /\ \A p \in 1..Len(s) : \E i \in 1..Len(q) : off[i - 1] < p /\ p <= off[i]
         /\ \A a, b \in 0..Len(q) : a <= b => off[a] <= off[b]
<1> DEFINE N == Len(q)
<1>1. /\ off[0] = 0 /\ off[N] = Len(s) /\ N \in Nat
      /\ \A i \in 0..N : off[i] \in Nat
      /\ \A i \in 1..N : off[i] = off[i - 1] + Len(q[i]) /\ Len(q[i]) \in Nat
  BY DEF LaidOut
<1> HIDE DEF N
<1>2. \A i \in 1..N : i - 1 \in 0..N /\ i \in 0..N
  BY <1>1
<1>3. \A a, b \in 0..N : a <= b => off[a] <= off[b]
  <2>1. \A i \in 0 + 1..N : off[i - 1] <= off[i]
    <3> SUFFICES ASSUME NEW i \in 1..N PROVE off[i - 1] <= off[i]
      OBVIOUS
    <3>1. off[i - 1] \in Nat /\ Len(q[i]) \in Nat /\ off[i] = off[i - 1] + Len(q[i])
      BY <1>1, <1>2
    <3> QED
      BY <3>1
  <2>2. 0 \in Nat /\ N \in Int /\ \A i \in 0..N : off[i] \in Int
    BY <1>1
  <2> QED
    BY <2>1, <2>2, Rising
<1>4. ASSUME NEW p \in 1..Len(s)
      PROVE  \E i \in 1..N : off[i - 1] < p /\ p <= off[i]
  <2> DEFINE Over == {i \in 0..N : p <= off[i]}
  <2>1. N \in Over /\ 0 \notin Over /\ Over \subseteq Nat
    BY <1>1
  <2>2. PICK i \in Over : \A j \in Over : i <= j
    <3> HIDE DEF Over
    <3> QED
      BY <2>1, LeastNumber
  <2>3. i \in 1..N /\ i - 1 \in 0..N /\ ~(i <= i - 1)
    BY <1>1, <2>1
  <2>4. ~(p <= off[i - 1]) /\ off[i - 1] \in Nat
    BY <1>1, <2>2, <2>3
  <2> QED
    BY <2>2, <2>3, <2>4
<1> QED
  BY <1>3, <1>4 DEF N

(* What stands in the whole stands in one of the parts. *)
LEMMA FlatHas ==
  ASSUME NEW S, NEW q \in Seq(Seq(S))
  PROVE  /\ FlattenSeq(q) \in Seq(S)
         /\ ToSet(FlattenSeq(q)) = UNION {ToSet(q[i]) : i \in 1..Len(q)}
<1> DEFINE s == FlattenSeq(q)
<1>1. Len(q) \in Nat /\ \A i \in 1..Len(q) : q[i] \in Seq(S) /\ Len(q[i]) \in Nat /\ DOMAIN q[i] = 1..Len(q[i])
  OBVIOUS
<1>2. PICK off : s \in Seq(S) /\ LaidOut(off, q, s)
  BY FlatPlaced
<1>3. DOMAIN s = 1..Len(s) /\ Len(s) \in Nat
  BY <1>2
<1> HIDE DEF s
<1>4. /\ \A p \in 1..Len(s) : \E i \in 1..Len(q) : off[i - 1] < p /\ p <= off[i]
      /\ \A a, b \in 0..Len(q) : a <= b => off[a] <= off[b]
  BY <1>1, <1>2, Located
<1>5. /\ off[Len(q)] = Len(s)
      /\ \A i \in 0..Len(q) : off[i] \in Nat
      /\ \A i \in 1..Len(q) : off[i] = off[i - 1] + Len(q[i])
      /\ \A i \in 1..Len(q) : \A k \in 1..Len(q[i]) : s[off[i - 1] + k] = q[i][k]
  BY <1>2 DEF LaidOut
<1>6. \A i \in 1..Len(q) : i - 1 \in 0..Len(q) /\ i \in 0..Len(q) /\ i <= Len(q) /\ Len(q) \in 0..Len(q)
  BY <1>1
<1>7. ASSUME NEW p \in 1..Len(s)
      PROVE  \E i \in 1..Len(q) : \E k \in 1..Len(q[i]) : s[p] = q[i][k]
  <2>1. PICK i \in 1..Len(q) : off[i - 1] < p /\ p <= off[i]
    BY <1>4
  <2>2. off[i - 1] \in Nat /\ off[i] = off[i - 1] + Len(q[i]) /\ Len(q[i]) \in Nat
    BY <1>1, <1>5, <1>6
  <2>3. p - off[i - 1] \in 1..Len(q[i]) /\ off[i - 1] + (p - off[i - 1]) = p
    BY <2>1, <2>2
  <2> QED
    BY <1>5, <2>3
<1>8. ASSUME NEW i \in 1..Len(q), NEW k \in 1..Len(q[i])
      PROVE  \E p \in 1..Len(s) : s[p] = q[i][k]
  <2>1. off[i - 1] \in Nat /\ off[i] = off[i - 1] + Len(q[i]) /\ Len(q[i]) \in Nat /\ off[i] <= Len(s)
    BY <1>1, <1>4, <1>5, <1>6
  <2>2. off[i - 1] + k \in 1..Len(s)
    BY <1>3, <2>1
  <2> QED
    BY <1>5, <2>2
<1>9. ASSUME NEW x
      PROVE  x \in ToSet(s) <=> \E i \in 1..Len(q) : x \in ToSet(q[i])
  <2>1. x \in ToSet(s) <=> \E p \in 1..Len(s) : x = s[p]
    BY <1>3 DEF ToSet
  <2>2. \A i \in 1..Len(q) : x \in ToSet(q[i]) <=> \E k \in 1..Len(q[i]) : x = q[i][k]
    BY <1>1 DEF ToSet
  <2>3. ASSUME NEW p \in 1..Len(s), x = s[p] PROVE \E i \in 1..Len(q) : \E k \in 1..Len(q[i]) : x = q[i][k]
    BY <1>7, <2>3
  <2>4. ASSUME NEW i \in 1..Len(q), NEW k \in 1..Len(q[i]), x = q[i][k] PROVE \E p \in 1..Len(s) : x = s[p]
    BY <1>8, <2>4
  <2> QED
    BY <2>1, <2>2, <2>3, <2>4
<1>10. ToSet(s) = UNION {ToSet(q[i]) : i \in 1..Len(q)}
  BY <1>9
<1> QED
  BY <1>2, <1>10 DEF s
=============================================================================
