----------------------------- MODULE EventProofs -----------------------------
(* Proofs about two parts of a page that timers and events drive.            *)
(*                                                                           *)
(* That what is typed gets into the text once and is not lost to a key, for  *)
(* any characters and any limit of the field.                                *)
(*                                                                           *)
(* What the field holds beyond prevInput is new: it was never in the text.   *)
(* What it holds when its text is selected is not read, but replaced by the  *)
(* next character.  While the editor has the focus prevInput stands in front *)
(* of the cursor, and what is not read yet is polled for fast.               *)
(*                                                                           *)
(* That QUnit's queue keeps the tests apart, waits for those that ask for it *)
(* and reports their end when all have run, for any tests and plans.         *)
(*                                                                           *)
(* The queue never holds a phase without the ones after it, and what was     *)
(* begun goes on at its head; no phase is there twice, nor in the queue and  *)
(* among those that ran.  While a test waits it is the current one and the   *)
(* semaphore counts the calls it still makes.  A loop that is on, a timer    *)
(* that will begin one and a call of done are one and the same ticket: there *)
(* is one of them at a time, and none but a timer while the queue is held.   *)
EXTENDS EditorInput, TestQueue, ListFacts, SequenceTheorems, TLAPS

(* The states of text and field, and what holds of them with a set of        *)
(* characters not used yet and a menu, or none, that has the field.          *)
Fields == [doc : Seq(Chars), from : Nat, to : Nat, input : Seq(Chars), marked : BOOLEAN, prev : Seq(Chars),
           apart : BOOLEAN, astray : BOOLEAN, changed : BOOLEAN]
Placed(s) == s \in Fields /\ s.from <= s.to /\ s.to <= Len(s.doc) /\ IsInjective(s.doc)
Unused(s, unused) == \A c \in unused : c \notin ToSet(s.doc) \cup ToSet(s.input) \cup ToSet(s.prev)
NewFrom(q, k, s) ==
  \A i \in k + 1..Len(q) : q[i] \notin ToSet(s.doc) /\ \A j \in k + 1..Len(q) : q[i] = q[j] => i = j
Readable(s, m) ==
  IF s.marked THEN m # NoMenu => s.input = m
  ELSE NewFrom(s.input, IF m = NoMenu THEN Common(s.prev, s.input) ELSE 0, s)
Good(s, unused, m) == Placed(s) /\ Unused(s, unused) /\ Readable(s, m)
Ends(q, d, n) == Len(q) <= n /\ \A i \in 1..Len(q) : q[i] = d[(n - Len(q)) + i]
InFront(s) == ~s.apart /\ ~s.astray => Ends(s.prev, s.doc, s.from)
AllRead(s) == s.marked \/ s.input = s.prev

InputTypes == InputTypeOK /\ apart \in BOOLEAN /\ astray \in BOOLEAN
PollOK == (focused => poll # "none") /\ (pollingFast => poll \in {"fast", "again"})
InputInv ==
  /\ InputTypes /\ Good(Now, fresh, menu) /\ PollOK
  /\ focused /\ menu = NoMenu => InFront(Now)
  /\ focused /\ menu = NoMenu /\ ~readOnly /\ ~astray => AllRead(Now) \/ pollingFast
  /\ readOnly \/ astray \/ lost = {}

-----------------------------------------------------------------------------
(* The beginning that two sequences share, and only that, has these marks. *)
Shared(a, b, k) ==
  /\ k \in Nat /\ k <= Len(a) /\ k <= Len(b) /\ \A i \in 1..k : a[i] = b[i]
  /\ k < Len(a) /\ k < Len(b) => a[k + 1] # b[k + 1]

LEMMA SharedIsUnique ==
  ASSUME NEW a \in Seq(Chars), NEW b \in Seq(Chars), NEW k, NEW m, Shared(a, b, k), Shared(a, b, m)
  PROVE  k = m
<1>1. ASSUME NEW x, NEW y, Shared(a, b, x), Shared(a, b, y), x < y
      PROVE  FALSE
  <2>1. x \in Nat /\ y \in Nat /\ x < Len(a) /\ x < Len(b) /\ x + 1 \in 1..y
    BY <1>1 DEF Shared
  <2> QED
    BY <1>1, <2>1 DEF Shared
<1>2. k \in Nat /\ m \in Nat
  BY DEF Shared
<1>3. ~(k < m)
  BY <1>1
<1>4. ~(m < k)
  BY <1>1
<1> QED
  BY <1>2, <1>3, <1>4

LEMMA CommonIsShared ==
  ASSUME NEW a \in Seq(Chars), NEW b \in Seq(Chars)
  PROVE  Shared(a, b, Common(a, b))
<1> DEFINE M == Smaller(Len(a), Len(b))
           L == {n \in 0..M : SubSeq(a, 1, n) = SubSeq(b, 1, n)}
           D == {M - n : n \in L}
<1>1. Len(a) \in Nat /\ Len(b) \in Nat /\ M \in Nat /\ M <= Len(a) /\ M <= Len(b) /\ (M = Len(a) \/ M = Len(b))
  BY DEF Smaller
<1> HIDE DEF M
<1>2. ASSUME NEW n \in 0..M
      PROVE  n \in L <=> \A i \in 1..n : a[i] = b[i]
  <2>1. \A i \in 1..n : i \in 1..Len(a) /\ i \in 1..Len(b) /\ a[i] \in Chars /\ b[i] \in Chars
    BY <1>1
  <2>2. /\ SubSeq(a, 1, n) \in Seq(Chars) /\ Len(SubSeq(a, 1, n)) = n
        /\ \A i \in 1..n : SubSeq(a, 1, n)[i] = a[i]
    <3>1. \A i \in 1..n : (1 + i) - 1 = i
      OBVIOUS
    <3> QED
      BY <1>1, <2>1, <3>1, SubSeqProperties
  <2>3. /\ SubSeq(b, 1, n) \in Seq(Chars) /\ Len(SubSeq(b, 1, n)) = n
        /\ \A i \in 1..n : SubSeq(b, 1, n)[i] = b[i]
    <3>1. \A i \in 1..n : (1 + i) - 1 = i
      OBVIOUS
    <3> QED
      BY <1>1, <2>1, <3>1, SubSeqProperties
  <2>4. (\A i \in 1..n : a[i] = b[i]) => SubSeq(a, 1, n) = SubSeq(b, 1, n)
    BY <2>2, <2>3, SeqEqual
  <2> QED
    BY <2>2, <2>3, <2>4
<1>3. 0 \in L
  BY <1>1, <1>2
<1>4. D \subseteq Nat /\ D # {}
  <2>1. \A n \in L : n \in 0..M /\ M - n \in Nat
    BY <1>1
  <2> HIDE DEF L
  <2> QED
    BY <1>3, <2>1
<1>5. PICK d \in D : \A e \in D : d <= e
  <2> HIDE DEF D
  <2> QED
    BY <1>4, LeastNumber
<1>6. PICK top \in L : d = M - top
  BY <1>5
<1>7. \A m \in L : m <= top
  <2> SUFFICES ASSUME NEW m \in L PROVE m <= top
    OBVIOUS
  <2>1. M - top <= M - m
    BY <1>5, <1>6
  <2> QED
    BY <1>1, <2>1
<1>8. Common(a, b) \in L /\ \A m \in L : m <= Common(a, b)
  <2>1. Common(a, b) = CHOOSE n \in L : \A m \in L : m <= n
    BY DEF Common, M
  <2> HIDE DEF L
  <2> QED
    BY <1>7, <2>1
<1> DEFINE k == Common(a, b)
<1>9. k \in 0..M /\ \A i \in 1..k : a[i] = b[i]
  BY <1>2, <1>8
<1>10. ASSUME k < Len(a), k < Len(b), a[k + 1] = b[k + 1]
       PROVE  FALSE
  <2> HIDE DEF k
  <2>1. k \in Nat /\ k + 1 \in 0..M
    BY <1>1, <1>9, <1>10
  <2>2. \A i \in 1..k + 1 : a[i] = b[i]
    <3>1. \A i \in 1..k + 1 : i \in 1..k \/ i = k + 1
      BY <2>1
    <3> QED
      BY <1>9, <1>10, <3>1
  <2>3. k + 1 \in L
    BY <1>2, <2>1, <2>2
  <2>4. k + 1 <= k
    BY <1>8, <2>3 DEF k
  <2> QED
    BY <2>1, <2>4
<1> HIDE DEF k
<1>11. k \in Nat /\ k <= Len(a) /\ k <= Len(b)
  BY <1>1, <1>9
<1>12. Shared(a, b, k)
  BY <1>9, <1>10, <1>11 DEF Shared
<1> QED
  BY <1>12 DEF k

(* A new character behind b, or in place of its last one, is not shared. *)
LEMMA CommonAfter ==
  ASSUME NEW a \in Seq(Chars), NEW b \in Seq(Chars), NEW c \in Chars, c \notin ToSet(a)
  PROVE  /\ Common(a, b \o <<c>>) = Common(a, b)
         /\ Common(a, a) = Len(a)
         /\ Common(<<>>, b) = 0
<1>1. Shared(a, b, Common(a, b))
  BY CommonIsShared
<1> DEFINE k == Common(a, b)
           r == b \o <<c>>
<1>2. /\ r \in Seq(Chars) /\ Len(r) = Len(b) + 1 /\ Len(b) \in Nat /\ Len(a) \in Nat /\ r[Len(b) + 1] = c
      /\ \A i \in 1..Len(b) : r[i] = b[i]
  OBVIOUS
<1>3. \A i \in 1..Len(a) : a[i] # c
  BY DEF ToSet
<1> HIDE DEF k, r
<1>4. Shared(a, r, k)
  <2>1. k \in Nat /\ k <= Len(a) /\ k <= Len(b) /\ \A i \in 1..k : a[i] = b[i]
    BY <1>1 DEF Shared, k
  <2>2. \A i \in 1..k : i \in 1..Len(b)
    BY <1>2, <2>1
  <2>3. k < Len(a) /\ k < Len(r) => a[k + 1] # r[k + 1]
    <3>1. CASE k < Len(b)
      <4>1. k + 1 \in 1..Len(b)
        BY <1>2, <2>1, <3>1
      <4> QED
        BY <1>1, <1>2, <3>1, <4>1 DEF Shared, k
    <3>2. CASE k = Len(b)
      <4>1. k < Len(a) => k + 1 \in 1..Len(a)
        BY <1>2, <2>1
      <4> QED
        BY <1>2, <1>3, <3>2, <4>1
    <3> QED
      BY <1>2, <2>1, <3>1, <3>2
  <2> QED
    BY <1>2, <2>1, <2>2, <2>3 DEF Shared
<1>5. Common(a, r) = k
  BY <1>2, <1>4, CommonIsShared, SharedIsUnique
<1>6. Common(a, a) = Len(a)
  <2>1. Shared(a, a, Len(a))
    BY <1>2 DEF Shared
  <2> QED
    BY <2>1, CommonIsShared, SharedIsUnique
<1>7. Common(<<>>, b) = 0
  <2>1. <<>> \in Seq(Chars) /\ Len(<<>>) = 0
    OBVIOUS
  <2> DEFINE e == <<>>
  <2> HIDE DEF e
  <2>2. Shared(e, b, Common(e, b))
    BY <2>1, CommonIsShared DEF e
  <2> QED
    BY <2>1, <2>2 DEF Shared, e
<1> QED
  BY <1>5, <1>6, <1>7 DEF k, r

LEMMA CommonCorrected ==
  ASSUME NEW a \in Seq(Chars), NEW b \in Seq(Chars), NEW c \in Chars, c \notin ToSet(a), b # <<>>
  PROVE  Common(a, Front(b) \o <<c>>) = IF Common(a, b) < Len(b) THEN Common(a, b) ELSE Len(b) - 1
<1> DEFINE k == Common(a, b)
           f == Front(b)
<1>1. Shared(a, b, k)
  BY CommonIsShared
<1>2. Len(b) \in Nat /\ Len(b) > 0
  BY EmptySeq
<1>3. /\ f \in Seq(Chars) /\ Len(f) = Len(b) - 1 /\ \A i \in 1..Len(b) - 1 : f[i] = b[i]
  <2>1. \A i \in 1..Len(b) - 1 : i \in 1..Len(b) /\ b[i] \in Chars /\ (1 + i) - 1 = i
    BY <1>2
  <2> QED
    <3>1. 1 \in Int /\ Len(b) - 1 \in Int /\ (Len(b) - 1) - 1 + 1 = Len(b) - 1
      BY <1>2
    <3> DEFINE n == Len(b) - 1
    <3>2. f = SubSeq(b, 1, n)
      BY DEF Front
    <3>3. n \in Nat /\ \A i \in 1..n : b[i] \in Chars /\ (1 + i) - 1 = i
      BY <1>2, <2>1
    <3> HIDE DEF n, f
    <3>4. f \in Seq(Chars) /\ Len(f) = n /\ \A i \in 1..n : f[i] = b[i]
      BY <3>2, <3>3, SubSeqProperties
    <3> QED
      BY <3>4 DEF n
<1> DEFINE m == IF k < Len(b) THEN k ELSE Len(b) - 1
<1> HIDE DEF k, f
<1>4. Shared(a, f, m)
  <2>1. k \in Nat /\ k <= Len(a) /\ k <= Len(b) /\ \A i \in 1..k : a[i] = b[i]
    BY <1>1 DEF Shared
  <2>2. m \in Nat /\ m <= k /\ m <= Len(b) - 1
    BY <1>2, <2>1
  <2>3. \A i \in 1..m : i \in 1..k /\ i \in 1..Len(b) - 1
    BY <1>2, <2>1, <2>2
  <2>4. m < Len(f) => m = k /\ k < Len(b) /\ k + 1 \in 1..Len(b) - 1
    BY <1>2, <1>3, <2>1
  <2>5. m < Len(a) /\ m < Len(f) => a[m + 1] # f[m + 1]
    BY <1>1, <1>3, <2>4 DEF Shared
  <2> HIDE DEF m
  <2>6. \A i \in 1..m : a[i] = f[i]
    BY <1>3, <2>1, <2>3
  <2>7. m <= Len(a) /\ m <= Len(f)
    BY <1>2, <1>3, <2>1, <2>2
  <2> QED
    BY <2>2, <2>5, <2>6, <2>7 DEF Shared
<1>5. Common(a, f) = m
  BY <1>3, <1>4, CommonIsShared, SharedIsUnique
<1> QED
  BY <1>3, <1>5, CommonAfter DEF f, k

-----------------------------------------------------------------------------
(* Parts of a text. *)
LEMMA PartOf ==
  ASSUME NEW q \in Seq(Chars), NEW a \in Nat, NEW b \in Nat, a <= b, b <= Len(q)
  PROVE  /\ SubSeq(q, a + 1, b) \in Seq(Chars) /\ Len(SubSeq(q, a + 1, b)) = b - a
         /\ \A i \in 1..b - a : SubSeq(q, a + 1, b)[i] = q[a + i]
<1> DEFINE m == a + 1
           p == SubSeq(q, m, b)
<1>1. Len(q) \in Nat /\ m \in Int /\ b \in Int
  OBVIOUS
<1>2. \A i \in m..b : q[i] \in Chars
  BY <1>1
<1>3. b - m + 1 = b - a /\ (IF m <= b THEN b - m + 1 ELSE 0) = b - a /\ \A i \in 1..b - a : m + i - 1 = a + i
  OBVIOUS
<1> HIDE DEF m
<1>4. /\ p \in Seq(Chars) /\ Len(p) = (IF m <= b THEN b - m + 1 ELSE 0)
      /\ \A i \in 1..b - m + 1 : p[i] = q[m + i - 1]
  BY <1>1, <1>2, SubSeqProperties
<1> HIDE DEF p
<1> QED
  BY <1>3, <1>4 DEF p, m

(* Where the characters stand after the text between a and b was replaced.   *)
Replaced(r, d, a, b, new) ==
  /\ r \in Seq(Chars) /\ Len(r) = a + Len(new) + (Len(d) - b) /\ DOMAIN r = 1..Len(r)
  /\ \A i \in 1..a : r[i] = d[i]
  /\ \A i \in 1..Len(new) : r[a + i] = new[i]
  /\ \A i \in 1..Len(d) - b : r[(a + Len(new)) + i] = d[b + i]

LEMMA Spliced ==
  ASSUME NEW d \in Seq(Chars), NEW a \in Nat, NEW b \in Nat, a <= b, b <= Len(d), NEW new \in Seq(Chars)
  PROVE  Replaced(SubSeq(d, 1, a) \o new \o SubSeq(d, b + 1, Len(d)), d, a, b, new)
<1> DEFINE x == SubSeq(d, 1, a)
           y == SubSeq(d, b + 1, Len(d))
           N == Len(new)
<1>1. x \in Seq(Chars) /\ Len(x) = a /\ \A i \in 1..a : x[i] = d[i]
  <2>1. 0 \in Nat /\ 0 <= a /\ a <= Len(d) /\ 0 + 1 = 1 /\ a - 0 = a
    OBVIOUS
  <2>2. \A i \in 1..a : 0 + i = i
    OBVIOUS
  <2>3. /\ SubSeq(d, 0 + 1, a) \in Seq(Chars) /\ Len(SubSeq(d, 0 + 1, a)) = a - 0
        /\ \A i \in 1..a - 0 : SubSeq(d, 0 + 1, a)[i] = d[0 + i]
    BY <2>1, PartOf
  <2> QED
    BY <2>1, <2>2, <2>3
<1>2. y \in Seq(Chars) /\ Len(y) = Len(d) - b /\ \A i \in 1..Len(d) - b : y[i] = d[b + i]
  BY PartOf
<1>3. Len(d) \in Nat /\ N \in Nat /\ DOMAIN new = 1..N
  OBVIOUS
<1> HIDE DEF x, y, N
<1> DEFINE u == x \o new
           r == u \o y
<1>4. /\ u \in Seq(Chars) /\ Len(u) = a + N
      /\ \A i \in 1..a + N : u[i] = IF i <= a THEN x[i] ELSE new[i - a]
  BY <1>1, <1>3, ConcatProperties DEF N
<1> HIDE DEF u
<1>5. /\ r \in Seq(Chars) /\ Len(r) = (a + N) + (Len(d) - b) /\ DOMAIN r = 1..Len(r)
      /\ \A i \in 1..(a + N) + (Len(d) - b) : r[i] = IF i <= a + N THEN u[i] ELSE y[i - (a + N)]
  <2>1. r \in Seq(Chars) /\ Len(r) = Len(u) + Len(y) /\ \A i \in 1..Len(u) + Len(y) : r[i] = IF i <= Len(u) THEN u[i] ELSE y[i - Len(u)]
    BY <1>2, <1>4, ConcatProperties
  <2> HIDE DEF r
  <2> QED
    BY <1>2, <1>4, <2>1
<1> HIDE DEF r
<1>6. \A i \in 1..a : r[i] = d[i]
  <2> SUFFICES ASSUME NEW i \in 1..a PROVE r[i] = d[i]
    OBVIOUS
  <2>1. i \in 1..(a + N) + (Len(d) - b) /\ i <= a + N /\ i \in 1..a + N /\ i <= a
    BY <1>3
  <2> QED
    BY <1>1, <1>4, <1>5, <2>1
<1>7. \A i \in 1..N : r[a + i] = new[i]
  <2> SUFFICES ASSUME NEW i \in 1..N PROVE r[a + i] = new[i]
    OBVIOUS
  <2>1. /\ a + i \in 1..(a + N) + (Len(d) - b) /\ a + i <= a + N /\ a + i \in 1..a + N
        /\ ~(a + i <= a) /\ (a + i) - a = i
    BY <1>3
  <2> QED
    BY <1>4, <1>5, <2>1
<1>8. \A i \in 1..Len(d) - b : r[(a + N) + i] = d[b + i]
  <2> SUFFICES ASSUME NEW i \in 1..Len(d) - b PROVE r[(a + N) + i] = d[b + i]
    OBVIOUS
  <2>1. /\ (a + N) + i \in 1..(a + N) + (Len(d) - b) /\ ~((a + N) + i <= a + N) /\ ((a + N) + i) - (a + N) = i
    BY <1>3
  <2> QED
    BY <1>2, <1>5, <2>1
<1> QED
  BY <1>3, <1>5, <1>6, <1>7, <1>8 DEF Replaced, r, u, x, y, N

(* New characters, all different, keep those of a text all different. *)
LEMMA StaysInjective ==
  ASSUME NEW d \in Seq(Chars), NEW a \in Nat, NEW b \in Nat, a <= b, b <= Len(d), NEW new \in Seq(Chars),
         NEW r, Replaced(r, d, a, b, new), IsInjective(d), IsInjective(new), ToSet(new) \cap ToSet(d) = {}
  PROVE  IsInjective(r) /\ ToSet(r) \subseteq ToSet(d) \cup ToSet(new)
<1> DEFINE N == Len(new)
           E == a + N
           Origin(i) == IF i <= a THEN i ELSE (i - E) + b
<1>1. /\ Len(d) \in Nat /\ N \in Nat /\ E \in Nat /\ DOMAIN d = 1..Len(d) /\ DOMAIN new = 1..N
      /\ DOMAIN r = 1..E + (Len(d) - b) /\ a <= E
  BY DEF Replaced
<1>2. ASSUME NEW i \in DOMAIN r
      PROVE  \/ a < i /\ i <= E /\ i - a \in DOMAIN new /\ r[i] = new[i - a]
             \/ (i <= a \/ E < i) /\ Origin(i) \in DOMAIN d /\ r[i] = d[Origin(i)]
  <2>1. CASE i <= a
    BY <1>1, <2>1 DEF Replaced
  <2>2. CASE a < i /\ i <= E
    <3>1. i - a \in 1..N /\ a + (i - a) = i
      BY <1>1, <2>2
    <3> QED
      BY <1>1, <2>2, <3>1 DEF Replaced
  <2>3. CASE E < i
    <3>1. i - E \in 1..Len(d) - b /\ E + (i - E) = i /\ Origin(i) = b + (i - E) /\ b + (i - E) \in 1..Len(d)
      BY <1>1, <2>3
    <3>2. r[E + (i - E)] = d[b + (i - E)]
      BY <3>1 DEF Replaced
    <3> QED
      BY <1>1, <2>3, <3>1, <3>2
  <2> QED
    BY <1>1, <2>1, <2>2, <2>3
<1>3. \A i, j \in DOMAIN r :
        (i <= a \/ E < i) /\ (j <= a \/ E < j) /\ Origin(i) = Origin(j) => i = j
  BY <1>1
<1>4. \A i, j \in DOMAIN r : i - a = j - a => i = j
  BY <1>1
<1>5. \A x \in DOMAIN new, y \in DOMAIN d : new[x] # d[y]
  BY DEF ToSet
<1> HIDE DEF Origin, E, N
<1>6. IsInjective(r)
  <2> SUFFICES ASSUME NEW i \in DOMAIN r, NEW j \in DOMAIN r, r[i] = r[j] PROVE i = j
    BY DEF IsInjective
  <2>1. CASE r[i] = new[i - a] /\ i - a \in DOMAIN new /\ r[j] = new[j - a] /\ j - a \in DOMAIN new
    <3>1. i - a = j - a
      BY <2>1 DEF IsInjective
    <3> QED
      BY <1>4, <3>1
  <2>2. CASE /\ (i <= a \/ E < i) /\ Origin(i) \in DOMAIN d /\ r[i] = d[Origin(i)]
             /\ (j <= a \/ E < j) /\ Origin(j) \in DOMAIN d /\ r[j] = d[Origin(j)]
    <3>1. Origin(i) = Origin(j)
      BY <2>2 DEF IsInjective
    <3> QED
      BY <1>3, <2>2, <3>1
  <2> QED
    BY <1>2, <1>5, <2>1, <2>2
<1>7. ToSet(r) \subseteq ToSet(d) \cup ToSet(new)
  <2> SUFFICES ASSUME NEW i \in DOMAIN r PROVE r[i] \in ToSet(d) \cup ToSet(new)
    BY DEF ToSet
  <2> QED
    BY <1>2 DEF ToSet
<1> QED
  BY <1>6, <1>7

(* replaceSelection with new characters. *)
LEMMA Replaces ==
  ASSUME NEW s, Placed(s), NEW new \in Seq(Chars), IsInjective(new), ToSet(new) \cap ToSet(s.doc) = {}
  PROVE  /\ Placed(ReplaceSelection(s, new))
         /\ Replaced(ReplaceSelection(s, new).doc, s.doc, s.from, s.to, new)
         /\ ReplaceSelection(s, new).from = s.from + Len(new)
         /\ ReplaceSelection(s, new).to = s.from + Len(new)
         /\ ReplaceSelection(s, new).input = s.input /\ ReplaceSelection(s, new).prev = s.prev
         /\ ReplaceSelection(s, new).marked = s.marked /\ ReplaceSelection(s, new).apart = s.apart
         /\ ReplaceSelection(s, new).astray = s.astray /\ ReplaceSelection(s, new).changed = s.changed
         /\ ToSet(ReplaceSelection(s, new).doc) \subseteq ToSet(s.doc) \cup ToSet(new)
<1> DEFINE r == ReplaceSelection(s, new)
           d == SubSeq(s.doc, 1, s.from) \o new \o SubSeq(s.doc, s.to + 1, Len(s.doc))
<1>1. s \in Fields /\ s.from <= s.to /\ s.to <= Len(s.doc) /\ IsInjective(s.doc)
  BY DEF Placed
<1>2. s.doc \in Seq(Chars) /\ s.from \in Nat /\ s.to \in Nat /\ Len(new) \in Nat /\ Len(s.doc) \in Nat
  BY <1>1 DEF Fields
<1>3. Replaced(d, s.doc, s.from, s.to, new)
  BY <1>1, <1>2, Spliced
<1>4. IsInjective(d) /\ ToSet(d) \subseteq ToSet(s.doc) \cup ToSet(new)
  BY <1>1, <1>2, <1>3, StaysInjective
<1>5. d \in Seq(Chars) /\ s.from + Len(new) \in Nat /\ s.from + Len(new) <= Len(d)
  BY <1>1, <1>2, <1>3 DEF Replaced
<1> HIDE DEF d
<1>6. r = [s EXCEPT !.doc = d, !.from = s.from + Len(new), !.to = s.from + Len(new)]
  BY DEF ReplaceSelection, d
<1> HIDE DEF r
<1>7. /\ r \in Fields /\ r.doc = d /\ r.from = s.from + Len(new) /\ r.to = s.from + Len(new)
      /\ r.input = s.input /\ r.prev = s.prev /\ r.marked = s.marked /\ r.apart = s.apart
      /\ r.astray = s.astray /\ r.changed = s.changed
  BY <1>1, <1>2, <1>5, <1>6 DEF Fields
<1>8. Placed(r)
  BY <1>2, <1>4, <1>5, <1>7 DEF Placed
<1> QED
  BY <1>3, <1>4, <1>7, <1>8 DEF r

-----------------------------------------------------------------------------
(* readInput where it reads: r is what becomes of the state s. *)
LEMMA ReadsNew ==
  ASSUME InputLimit \in Nat, NEW s, NEW unused, Good(s, unused, NoMenu), menu = NoMenu, focused, ~s.marked,
         ~readOnly, s.input # s.prev, s.from - (Len(s.prev) - Common(s.prev, s.input)) >= 0
  PROVE  /\ Good(ReadInput(s), unused, NoMenu)
         /\ ReadInput(s).changed = TRUE /\ ReadInput(s).input = ReadInput(s).prev /\ ReadInput(s).marked = FALSE
         /\ ReadInput(s).apart = s.apart /\ ReadInput(s).astray = s.astray
         /\ InFront(s) => InFront(ReadInput(s))
<1> DEFINE same  == Common(s.prev, s.input)
           start == s.from - (Len(s.prev) - same)
           new   == SubSeq(s.input, same + 1, Len(s.input))
           t     == [s EXCEPT !.from = start]
           read  == ReplaceSelection(t, new)
           full  == Len(s.input) > InputLimit
           kept  == IF full THEN <<>> ELSE s.input
           r     == ReadInput(s)
<1>1. /\ Placed(s) /\ s \in Fields /\ s.doc \in Seq(Chars) /\ s.input \in Seq(Chars) /\ s.prev \in Seq(Chars)
      /\ s.from \in Nat /\ s.to \in Nat /\ s.from <= s.to /\ s.to <= Len(s.doc) /\ IsInjective(s.doc)
  BY DEF Good, Placed, Fields
<1>2. Shared(s.prev, s.input, same)
  BY <1>1, CommonIsShared
<1>3. /\ same \in Nat /\ same <= Len(s.prev) /\ same <= Len(s.input) /\ Len(s.prev) \in Nat /\ Len(s.input) \in Nat
      /\ \A i \in 1..same : s.input[i] = s.prev[i]
  BY <1>1, <1>2 DEF Shared
<1>4. start \in Nat /\ start <= s.from
  BY <1>1, <1>3
<1>5. new \in Seq(Chars) /\ Len(new) = Len(s.input) - same /\ \A i \in 1..Len(new) : new[i] = s.input[same + i]
  <2> HIDE DEF same
  <2>1. /\ SubSeq(s.input, same + 1, Len(s.input)) \in Seq(Chars)
        /\ Len(SubSeq(s.input, same + 1, Len(s.input))) = Len(s.input) - same
        /\ \A i \in 1..Len(s.input) - same : SubSeq(s.input, same + 1, Len(s.input))[i] = s.input[same + i]
    BY <1>1, <1>3, PartOf
  <2> QED
    BY <2>1
<1>6. NewFrom(s.input, same, s)
  BY DEF Good, Readable
<1> HIDE DEF same
<1> HIDE DEF new, start
<1>7. /\ IsInjective(new) /\ ToSet(new) \cap ToSet(s.doc) = {} /\ ToSet(new) \subseteq ToSet(s.input)
  <2>1. DOMAIN new = 1..Len(new) /\ \A i \in 1..Len(new) : same + i \in same + 1..Len(s.input) /\ same + i \in DOMAIN s.input
    BY <1>1, <1>3, <1>5
  <2>2. ASSUME NEW i \in DOMAIN new, NEW j \in DOMAIN new, new[i] = new[j]
        PROVE  i = j
    <3>1. same + i = same + j
      BY <1>5, <1>6, <2>1, <2>2 DEF NewFrom
    <3> QED
      BY <1>3, <2>1, <3>1
  <2>3. ASSUME NEW i \in DOMAIN new
        PROVE  new[i] \notin ToSet(s.doc) /\ new[i] \in ToSet(s.input)
    BY <1>5, <1>6, <2>1 DEF NewFrom, ToSet
  <2> QED
    BY <2>2, <2>3 DEF IsInjective, ToSet
<1>8. /\ t \in Fields /\ t.from = start /\ t.doc = s.doc /\ t.to = s.to /\ t.input = s.input /\ t.prev = s.prev
      /\ t.marked = s.marked /\ t.apart = s.apart /\ t.astray = s.astray
  BY <1>1, <1>4 DEF Fields
<1> HIDE DEF t
<1>9. Placed(t)
  BY <1>1, <1>4, <1>8 DEF Placed
<1>10. /\ Placed(read) /\ Replaced(read.doc, s.doc, start, s.to, new) /\ read.from = start + Len(new)
       /\ read.to = start + Len(new) /\ read.input = s.input /\ read.prev = s.prev /\ read.marked = s.marked
       /\ read.apart = s.apart /\ read.astray = s.astray
       /\ ToSet(read.doc) \subseteq ToSet(s.doc) \cup ToSet(new)
  BY <1>5, <1>7, <1>8, <1>9, Replaces
<1>11. r = [read EXCEPT !.prev = kept, !.input = kept, !.changed = TRUE]
  <2>1. ~(menu # NoMenu \/ ~focused \/ s.marked \/ readOnly \/ s.input = s.prev)
    OBVIOUS
  <2>2. ~(start < 0)
    BY <1>4
  <2> QED
    BY <2>1, <2>2 DEF ReadInput, start, same, new, t
<1> HIDE DEF read, r
<1>12. kept \in Seq(Chars) /\ ToSet(kept) \subseteq ToSet(s.input)
  BY <1>1 DEF ToSet
<1> HIDE DEF kept
<1>13. /\ r \in Fields /\ r.doc = read.doc /\ r.from = read.from /\ r.to = read.to /\ r.input = kept /\ r.prev = kept
       /\ r.changed = TRUE /\ r.marked = s.marked /\ r.apart = s.apart /\ r.astray = s.astray
  BY <1>10, <1>11, <1>12 DEF Fields, Placed
<1>14. Placed(r)
  BY <1>10, <1>13 DEF Placed
<1>15. Unused(r, unused)
  <2>1. Unused(s, unused)
    BY DEF Good
  <2> QED
    BY <1>7, <1>10, <1>12, <1>13, <2>1 DEF Unused
<1>16. Readable(r, NoMenu)
  <2>1. Common(kept, kept) = Len(kept)
    <3>1. Shared(kept, kept, Len(kept))
      BY <1>12 DEF Shared
    <3> QED
      BY <1>12, <3>1, CommonIsShared, SharedIsUnique
  <2>2. Len(kept) + 1..Len(kept) = {}
    BY <1>12
  <2> QED
    BY <1>13, <2>1, <2>2 DEF Readable, NewFrom
<1>17. ASSUME InFront(s)
       PROVE  InFront(r)
  <2> SUFFICES ASSUME ~s.apart, ~s.astray PROVE Ends(kept, read.doc, start + Len(new))
    BY <1>10, <1>13 DEF InFront
  <2>1. Len(s.prev) <= s.from /\ \A i \in 1..Len(s.prev) : s.prev[i] = s.doc[(s.from - Len(s.prev)) + i]
    BY <1>17 DEF InFront, Ends
  <2>2. CASE full
    BY <1>4, <1>5, <2>2 DEF Ends, kept
  <2>3. CASE ~full
    <3>1. kept = s.input /\ Len(s.input) = same + Len(new) /\ same <= start /\ Len(new) \in Nat
      BY <1>1, <1>3, <1>5, <2>1, <2>3 DEF kept, start
    <3>2. ASSUME NEW i \in 1..Len(s.input)
          PROVE  s.input[i] = read.doc[((start + Len(new)) - Len(s.input)) + i]
      <4>1. ((start + Len(new)) - Len(s.input)) + i = (start - same) + i
        BY <1>3, <1>4, <3>1
      <4>2. CASE i <= same
        <5>1. (start - same) + i = (s.from - Len(s.prev)) + i /\ (start - same) + i \in 1..start /\ i \in 1..Len(s.prev) /\ i \in 1..same
          <6>1. start - same = s.from - Len(s.prev)
            BY <1>1, <1>3 DEF start
          <6>2. start - same + i \in 1..start /\ i \in 1..Len(s.prev) /\ i \in 1..same
            BY <1>3, <1>4, <3>1, <4>2
          <6> QED
            BY <6>1, <6>2
        <5>2. read.doc[(start - same) + i] = s.doc[(start - same) + i]
          BY <1>10, <5>1 DEF Replaced
        <5> QED
          BY <1>3, <2>1, <4>1, <5>1, <5>2
      <4>3. CASE i > same
        <5>1. i - same \in 1..Len(new) /\ same + (i - same) = i /\ start + (i - same) = (start - same) + i
          BY <1>3, <1>4, <3>1, <4>3
        <5>2. read.doc[start + (i - same)] = new[i - same]
          BY <1>10, <5>1 DEF Replaced
        <5> QED
          BY <1>5, <4>1, <5>1, <5>2
      <4> QED
        BY <1>3, <4>2, <4>3
    <3>3. Len(s.input) <= start + Len(new)
      BY <1>3, <1>4, <3>1
    <3> QED
      BY <3>1, <3>2, <3>3 DEF Ends
  <2> QED
    BY <2>2, <2>3
<1> QED
  BY <1>13, <1>14, <1>15, <1>16, <1>17 DEF Good, r

(* readInput as a whole. *)
LEMMA Reads ==
  ASSUME InputLimit \in Nat, NEW s, NEW unused, Good(s, unused, menu)
  PROVE  /\ Good(ReadInput(s), unused, menu)
         /\ ReadInput(s).apart = s.apart /\ (s.astray => ReadInput(s).astray)
         /\ InFront(s) => InFront(ReadInput(s))
         /\ ReadInput(s).changed => s.changed \/ AllRead(ReadInput(s))
         /\ focused /\ menu = NoMenu /\ ~readOnly => AllRead(ReadInput(s)) \/ ReadInput(s).astray
<1> DEFINE same == Common(s.prev, s.input)
           rests == menu # NoMenu \/ ~focused \/ s.marked \/ readOnly \/ s.input = s.prev
<1>1. /\ Placed(s) /\ s \in Fields /\ Unused(s, unused) /\ Readable(s, menu)
  BY DEF Good, Placed
<1>2. CASE rests
  <2>1. ReadInput(s) = s
    BY <1>2 DEF ReadInput
  <2> QED
    BY <1>2, <2>1 DEF AllRead
<1>3. CASE ~rests /\ s.from - (Len(s.prev) - same) >= 0
  <2>1. /\ Good(ReadInput(s), unused, NoMenu)
        /\ ReadInput(s).changed = TRUE /\ ReadInput(s).input = ReadInput(s).prev /\ ReadInput(s).marked = FALSE
        /\ ReadInput(s).apart = s.apart /\ ReadInput(s).astray = s.astray
        /\ InFront(s) => InFront(ReadInput(s))
    BY <1>3, ReadsNew
  <2> QED
    BY <1>3, <2>1 DEF AllRead
<1>4. CASE ~rests /\ ~(s.from - (Len(s.prev) - same) >= 0)
  <2> DEFINE r == [s EXCEPT !.astray = TRUE]
  <2>1. s.from - (Len(s.prev) - same) < 0
    <3>1. s.from \in Int /\ Len(s.prev) \in Int /\ same \in Int
      BY <1>1, CommonIsShared DEF Fields, Shared
    <3> QED
      BY <1>4, <3>1
  <2>2. ReadInput(s) = r
    BY <1>4, <2>1 DEF ReadInput
  <2>3. /\ r \in Fields /\ r.doc = s.doc /\ r.from = s.from /\ r.to = s.to /\ r.input = s.input /\ r.prev = s.prev
        /\ r.marked = s.marked /\ r.apart = s.apart /\ r.astray = TRUE /\ r.changed = s.changed
    BY <1>1 DEF Fields
  <2> HIDE DEF r
  <2>4. Good(r, unused, menu) /\ InFront(r)
    BY <1>1, <2>3 DEF Good, Placed, Unused, Readable, NewFrom, InFront
  <2> QED
    BY <2>2, <2>3, <2>4
<1> QED
  BY <1>2, <1>3, <1>4
-----------------------------------------------------------------------------
(* A change of the last operator's bookkeeping is none of the fields. *)
LEMMA Settles ==
  ASSUME NEW s \in Fields, Becomes([s EXCEPT !.changed = FALSE])
  PROVE  Becomes(s)
BY DEF Becomes, Fields

(* What is good of a state holds of the state after it. *)
LEMMA Stands ==
  ASSUME NEW s, Becomes(s), Good(s, fresh', menu'), fresh' \subseteq Chars, lost' \subseteq Chars,
         focused' \in BOOLEAN, pollingFast' \in BOOLEAN, readOnly' \in BOOLEAN,
         poll' \in {"none", "slow", "fast", "again"}, PollOK',
         focused' /\ menu' = NoMenu => InFront(s),
         focused' /\ menu' = NoMenu /\ ~readOnly' /\ ~s.astray => AllRead(s) \/ pollingFast',
         readOnly' \/ s.astray \/ lost' = {}
  PROVE  InputInv'
<1> DEFINE n == Now'
<1>1. /\ n.doc = s.doc /\ n.from = s.from /\ n.to = s.to /\ n.input = s.input /\ n.marked = s.marked
      /\ n.prev = s.prev /\ n.apart = s.apart /\ n.astray = s.astray /\ n.changed = FALSE
  BY DEF Becomes, Now
<1>2. /\ s.doc \in Seq(Chars) /\ s.from \in Nat /\ s.to \in Nat /\ s.input \in Seq(Chars) /\ s.marked \in BOOLEAN
      /\ s.prev \in Seq(Chars) /\ s.apart \in BOOLEAN /\ s.astray \in BOOLEAN /\ s.from <= s.to /\ s.to <= Len(s.doc)
  BY DEF Good, Placed, Fields
<1>3. n \in Fields
  BY <1>1, <1>2 DEF Now, Fields, Becomes
<1> HIDE DEF n
<1>4. Good(n, fresh', menu')
  BY <1>1, <1>3 DEF Good, Placed, Unused, Readable, NewFrom
<1>5. (InFront(s) => InFront(n)) /\ (AllRead(s) => AllRead(n))
  BY <1>1 DEF InFront, AllRead
<1>6. InputTypes'
  <2>1. s.from \in 0..Len(s.doc) /\ s.to \in s.from..Len(s.doc)
    BY <1>2
  <2> QED
    BY <1>2, <2>1 DEF InputTypes, InputTypeOK, Becomes
<1>7. astray' = s.astray
  BY DEF Becomes
<1> QED
  BY <1>4, <1>5, <1>6, <1>7 DEF InputInv, n
(* What is selected in the text is a part of it. *)
LEMMA Selects ==
  ASSUME NEW s, Placed(s)
  PROVE  /\ Selected(s) \in Seq(Chars) /\ ToSet(Selected(s)) \subseteq ToSet(s.doc)
<1>1. s.doc \in Seq(Chars) /\ s.from \in Nat /\ s.to \in Nat /\ s.from <= s.to /\ s.to <= Len(s.doc)
  BY DEF Placed, Fields
<1>2. /\ Selected(s) \in Seq(Chars) /\ Len(Selected(s)) = s.to - s.from
      /\ \A i \in 1..s.to - s.from : Selected(s)[i] = s.doc[s.from + i]
  <2>1. /\ SubSeq(s.doc, s.from + 1, s.to) \in Seq(Chars) /\ Len(SubSeq(s.doc, s.from + 1, s.to)) = s.to - s.from
        /\ \A i \in 1..s.to - s.from : SubSeq(s.doc, s.from + 1, s.to)[i] = s.doc[s.from + i]
    BY <1>1, PartOf
  <2> QED
    BY <2>1 DEF Selected
<1>3. ASSUME NEW i \in DOMAIN Selected(s)
      PROVE  Selected(s)[i] \in ToSet(s.doc)
  <2>1. i \in 1..s.to - s.from /\ s.from + i \in DOMAIN s.doc
    BY <1>1, <1>2
  <2> QED
    BY <1>2, <2>1 DEF ToSet
<1> QED
  BY <1>2, <1>3 DEF ToSet

(* resetInput, where it does something. *)
LEMMA Resets ==
  ASSUME NEW s, NEW unused, Placed(s), Unused(s, unused), NEW user, user \/ s.from # s.to
  PROVE  /\ Good(ResetInput(s, user), unused, NoMenu) /\ InFront(ResetInput(s, user))
         /\ AllRead(ResetInput(s, user)) /\ ResetInput(s, user).astray = s.astray
         /\ ResetInput(s, user).doc = s.doc
<1> DEFINE q == IF s.from # s.to THEN Selected(s) ELSE <<>>
           n == s.from # s.to
           r == ResetInput(s, user)
<1>1. s \in Fields /\ s.from <= s.to /\ s.to <= Len(s.doc) /\ IsInjective(s.doc) /\ s.from \in Nat /\ s.to \in Nat
  BY DEF Placed, Fields
<1>2. q \in Seq(Chars) /\ ToSet(q) \subseteq ToSet(s.doc) /\ (~n => q = <<>>)
  BY Selects DEF ToSet
<1>3. r = [s EXCEPT !.prev = <<>>, !.input = q, !.marked = n, !.apart = FALSE]
  <2>1. CASE s.from # s.to
    BY <2>1 DEF ResetInput
  <2>2. CASE s.from = s.to
    <3>1. user = TRUE \/ user
      BY <2>2
    <3> QED
      BY <2>2, <3>1 DEF ResetInput
  <2> QED
    BY <2>1, <2>2
<1> HIDE DEF q, n, r
<1>4. n \in BOOLEAN
  BY DEF n
<1> DEFINE e == <<>>
<1>5. e \in Seq(Chars) /\ ToSet(e) = {}
  BY DEF ToSet
<1> HIDE DEF e
<1>6. /\ r \in Fields /\ r.doc = s.doc /\ r.from = s.from /\ r.to = s.to /\ r.input = q /\ r.prev = e
      /\ r.marked = n /\ r.apart = FALSE /\ r.astray = s.astray
  <2>1. r = [s EXCEPT !.prev = e, !.input = q, !.marked = n, !.apart = FALSE]
    BY <1>3 DEF e
  <2>2. CASE n = TRUE
    BY <1>1, <1>2, <1>5, <2>1, <2>2 DEF Fields
  <2>3. CASE n = FALSE
    BY <1>1, <1>2, <1>5, <2>1, <2>3 DEF Fields
  <2> QED
    BY <1>4, <2>2, <2>3
<1>9. Placed(r) /\ Unused(r, unused)
  <2>1. Placed(r)
    BY <1>1, <1>6 DEF Placed
  <2>2. ToSet(r.doc) = ToSet(s.doc) /\ ToSet(r.input) = ToSet(q) /\ ToSet(r.prev) = {}
    BY <1>5, <1>6
  <2>3. Unused(r, unused)
    BY <1>2, <2>2 DEF Unused
  <2> QED
    BY <2>1, <2>3
<1>7. Readable(r, NoMenu)
  <2>1. CASE n
    BY <1>6, <2>1 DEF Readable
  <2>2. CASE ~n
    <3>1. q = <<>> /\ Common(<<>>, <<>>) \in Nat
      BY <1>2, <2>2, CommonIsShared DEF Shared
    <3>2. Common(<<>>, <<>>) + 1..Len(q) = {}
      BY <3>1
    <3> QED
      BY <1>6, <2>2, <3>1, <3>2 DEF e, Readable, NewFrom
  <2> QED
    BY <2>1, <2>2
<1>8. InFront(r) /\ AllRead(r)
  <2>1. Ends(<<>>, r.doc, r.from)
    BY <1>1, <1>6 DEF Ends
  <2> QED
    BY <1>2, <1>6, <2>1 DEF InFront, AllRead, e
<1> QED
  BY <1>6, <1>7, <1>8, <1>9 DEF Good, r

(* The end of an operation. *)
LEMMA Ended ==
  ASSUME NEW s, NEW unused, Good(s, unused, menu), NEW user
  PROVE  /\ Good(EndOperation(s, user), unused, menu)
         /\ EndOperation(s, user).astray = s.astray /\ EndOperation(s, user).doc = s.doc
         /\ EndOperation(s, user) \in Fields
         /\ \/ EndOperation(s, user) = s
            \/ InFront(EndOperation(s, user)) /\ AllRead(EndOperation(s, user))
         /\ focused /\ menu = NoMenu /\ user =>
               InFront(EndOperation(s, user)) /\ AllRead(EndOperation(s, user))
<1>1. Placed(s) /\ Unused(s, unused) /\ s \in Fields
  BY DEF Good, Placed
<1>2. CASE focused /\ menu = NoMenu /\ (user \/ s.from # s.to)
  <2>1. EndOperation(s, user) = ResetInput(s, user)
    BY <1>2 DEF EndOperation
  <2>2. /\ Good(ResetInput(s, user), unused, NoMenu) /\ InFront(ResetInput(s, user))
        /\ AllRead(ResetInput(s, user)) /\ ResetInput(s, user).astray = s.astray
        /\ ResetInput(s, user).doc = s.doc
    BY <1>1, <1>2, Resets
  <2> QED
    BY <1>2, <2>1, <2>2 DEF Good, Placed
<1>3. CASE ~(focused /\ menu = NoMenu /\ (user \/ s.from # s.to))
  <2>1. EndOperation(s, user) = s
    <3>1. CASE ~(focused /\ menu = NoMenu)
      BY <3>1 DEF EndOperation
    <3>2. CASE focused /\ menu = NoMenu
      <4>1. ~user /\ s.from = s.to
        BY <1>3, <3>2
      <4> QED
        BY <3>2, <4>1 DEF EndOperation, ResetInput
    <3> QED
      BY <3>1, <3>2
  <2> QED
    BY <1>1, <1>3, <2>1
<1> QED
  BY <1>2, <1>3
(* A new character behind what the field holds, in place of it when it is    *)
(* selected.                                                                 *)
Behind(s, c) == [s EXCEPT !.input = (IF s.marked THEN <<>> ELSE @) \o <<c>>, !.marked = FALSE]

LEMMA Appends ==
  ASSUME NEW s, NEW unused, NEW m, Good(s, unused, m), NEW c \in unused, c \in Chars
  PROVE  /\ Good(Behind(s, c), unused \ {c}, m) /\ Behind(s, c).astray = s.astray
         /\ InFront(s) => InFront(Behind(s, c))
<1> DEFINE b == IF s.marked THEN <<>> ELSE s.input
           q == b \o <<c>>
           k == IF m = NoMenu THEN Common(s.prev, b) ELSE 0
           r == Behind(s, c)
<1>1. s \in Fields /\ s.input \in Seq(Chars) /\ s.prev \in Seq(Chars) /\ Placed(s) /\ Unused(s, unused)
  BY DEF Good, Placed, Fields
<1>2. c \notin ToSet(s.doc) /\ c \notin ToSet(s.input) /\ c \notin ToSet(s.prev)
  BY <1>1 DEF Unused
<1>3. b \in Seq(Chars) /\ ToSet(b) \subseteq ToSet(s.input)
  BY <1>1 DEF ToSet
<1>4. k \in Nat
  BY <1>1, <1>3, CommonIsShared DEF Shared
<1>5. NewFrom(b, k, s)
  <2>1. CASE s.marked
    <3>1. k + 1..Len(b) = {}
      BY <1>4, <2>1
    <3> QED
      BY <3>1 DEF NewFrom
  <2>2. CASE ~s.marked
    BY <2>2 DEF Good, Readable
  <2> QED
    BY <2>1, <2>2
<1> HIDE DEF b, k
<1>6. /\ q \in Seq(Chars) /\ Len(q) = Len(b) + 1 /\ Len(b) \in Nat /\ q[Len(b) + 1] = c
      /\ \A i \in 1..Len(b) : q[i] = b[i] /\ b[i] # c
  <2>1. \A i \in 1..Len(b) : b[i] # c
    BY <1>2, <1>3 DEF ToSet
  <2> QED
    BY <1>3, <2>1
<1>7. Common(s.prev, q) = Common(s.prev, b)
  BY <1>1, <1>2, <1>3, CommonAfter
<1> HIDE DEF q
<1>8. /\ r \in Fields /\ r.doc = s.doc /\ r.from = s.from /\ r.to = s.to /\ r.input = q /\ r.prev = s.prev
      /\ r.marked = FALSE /\ r.apart = s.apart /\ r.astray = s.astray
  <2>1. r = [s EXCEPT !.input = q, !.marked = FALSE]
    BY <1>1 DEF Behind, Fields, q, b
  <2> HIDE DEF r
  <2> QED
    BY <1>1, <1>6, <2>1 DEF Fields
<1> HIDE DEF r
<1>9. ToSet(q) \subseteq ToSet(s.input) \cup {c}
  <2>1. \A i \in 1..Len(q) : i \in 1..Len(b) \/ i = Len(b) + 1
    BY <1>6
  <2>2. \A i \in 1..Len(b) : b[i] \in ToSet(b)
    <3>1. DOMAIN b = 1..Len(b)
      BY <1>3
    <3> QED
      BY <3>1 DEF ToSet
  <2>3. \A i \in 1..Len(q) : q[i] \in ToSet(s.input) \cup {c}
    BY <1>3, <1>6, <2>1, <2>2
  <2>4. DOMAIN q = 1..Len(q)
    BY <1>6
  <2>5. ToSet(q) = {q[i] : i \in 1..Len(q)}
    BY <2>4 DEF ToSet
  <2> QED
    BY <2>3, <2>5
<1>10. Unused(r, unused \ {c})
  BY <1>1, <1>8, <1>9 DEF Unused
<1>11. NewFrom(q, k, r)
  <2>1. \A i \in k + 1..Len(q) : (i \in k + 1..Len(b) /\ i \in 1..Len(b)) \/ i = Len(b) + 1
    BY <1>4, <1>6
  <2> QED
    BY <1>2, <1>5, <1>6, <1>8, <2>1 DEF NewFrom
<1>12. Readable(r, m)
  <2>1. k = IF m = NoMenu THEN Common(s.prev, q) ELSE 0
    BY <1>7 DEF k
  <2> QED
    BY <1>8, <1>11, <2>1 DEF Readable
<1>13. Placed(r) /\ (InFront(s) => InFront(r))
  BY <1>1, <1>8 DEF Placed, InFront
<1> QED
  BY <1>8, <1>10, <1>12, <1>13 DEF Good, r

(* A new character in place of the last one of the field. *)
Corrected(s, c) == [s EXCEPT !.input = Front(s.input) \o <<c>>]

LEMMA Corrects ==
  ASSUME NEW s, NEW unused, NEW m, Good(s, unused, m), NEW c \in unused, c \in Chars, ~s.marked, s.input # <<>>
  PROVE  /\ Good(Corrected(s, c), unused \ {c}, m) /\ Corrected(s, c).astray = s.astray
         /\ InFront(s) => InFront(Corrected(s, c))
<1> DEFINE b == s.input
           q == Front(b) \o <<c>>
           k == IF m = NoMenu THEN Common(s.prev, b) ELSE 0
           n == IF m = NoMenu THEN Common(s.prev, q) ELSE 0
           r == Corrected(s, c)
<1>1. s \in Fields /\ b \in Seq(Chars) /\ s.prev \in Seq(Chars) /\ Placed(s) /\ Unused(s, unused)
  BY DEF Good, Placed, Fields
<1>2. c \notin ToSet(s.doc) /\ c \notin ToSet(s.input) /\ c \notin ToSet(s.prev)
  BY <1>1 DEF Unused
<1>3. NewFrom(b, k, s)
  BY DEF Good, Readable
<1>4. Len(b) \in Nat /\ Len(b) > 0
  BY <1>1, EmptySeq
<1>5. k \in Nat /\ k <= Len(b)
  BY <1>1, <1>4, CommonIsShared DEF Shared
<1>6. n = IF k < Len(b) THEN k ELSE Len(b) - 1
  <2>1. CASE m = NoMenu
    BY <1>1, <1>2, <2>1, CommonCorrected
  <2>2. CASE m # NoMenu
    BY <1>4, <2>2
  <2> QED
    BY <2>1, <2>2
<1>7. /\ q \in Seq(Chars) /\ Len(q) = Len(b) /\ q[Len(b)] = c
      /\ \A i \in 1..Len(b) - 1 : q[i] = b[i] /\ b[i] # c
  <2> DEFINE f == Front(b)
             l == Len(b) - 1
  <2>1. l \in Nat /\ l <= Len(b) /\ 0 \in Nat /\ 0 <= l /\ 0 + 1 = 1 /\ l - 0 = l /\ l + 1 = Len(b)
    BY <1>4
  <2>2. \A i \in 1..l : 0 + i = i /\ i \in 1..Len(b)
    BY <1>4
  <2> HIDE DEF l
  <2>3. SubSeq(b, 0 + 1, l) \in Seq(Chars) /\ Len(SubSeq(b, 0 + 1, l)) = l - 0 /\ \A i \in 1..l - 0 : SubSeq(b, 0 + 1, l)[i] = b[0 + i]
    BY <1>1, <2>1, PartOf
  <2>4. f = SubSeq(b, 0 + 1, l)
    BY <2>1 DEF Front, l
  <2> HIDE DEF f
  <2>5. f \in Seq(Chars) /\ Len(f) = l /\ \A i \in 1..l : f[i] = b[i]
    BY <2>1, <2>2, <2>3, <2>4
  <2>6. \A i \in 1..l : b[i] # c
    BY <1>1, <1>2, <2>2 DEF ToSet
  <2>7. f \o <<c>> \in Seq(Chars) /\ Len(f \o <<c>>) = l + 1 /\ (f \o <<c>>)[l + 1] = c /\ \A i \in 1..l : (f \o <<c>>)[i] = f[i]
    BY <2>1, <2>5
  <2>8. \A i \in 1..l : (f \o <<c>>)[i] = b[i] /\ b[i] # c
    BY <2>5, <2>6, <2>7
  <2> QED
    BY <2>1, <2>7, <2>8 DEF l, f
<1> HIDE DEF q, k, n
<1>8. /\ r \in Fields /\ r.doc = s.doc /\ r.from = s.from /\ r.to = s.to /\ r.input = q /\ r.prev = s.prev
      /\ r.marked = s.marked /\ r.apart = s.apart /\ r.astray = s.astray
  <2>1. r = [s EXCEPT !.input = q]
    BY DEF Corrected, q
  <2> HIDE DEF r
  <2> QED
    BY <1>1, <1>7, <2>1 DEF Fields
<1> HIDE DEF r
<1>9. ToSet(q) \subseteq ToSet(s.input) \cup {c}
  <2>1. \A i \in 1..Len(q) : (i \in 1..Len(b) - 1 /\ i \in 1..Len(b)) \/ i = Len(b)
    BY <1>4, <1>7
  <2> QED
    BY <1>1, <1>7, <2>1 DEF ToSet
<1>10. Unused(r, unused \ {c})
  BY <1>1, <1>8, <1>9 DEF Unused
<1>11. NewFrom(q, n, r)
  <2>1. \A i \in n + 1..Len(q) : (i \in k + 1..Len(b) /\ i \in 1..Len(b) - 1) \/ i = Len(b)
    BY <1>4, <1>5, <1>6, <1>7
  <2> QED
    BY <1>2, <1>3, <1>7, <1>8, <2>1 DEF NewFrom
<1>12. Readable(r, m)
  BY <1>8, <1>11 DEF Readable, n
<1>13. Placed(r) /\ (InFront(s) => InFront(r))
  BY <1>1, <1>8 DEF Placed, InFront
<1> QED
  BY <1>8, <1>10, <1>12, <1>13 DEF Good, r
-----------------------------------------------------------------------------
(* What the invariant says of the state a handler finds. *)
LEMMA Found ==
  ASSUME InputInv
  PROVE  /\ Good(Now, fresh, menu) /\ Now \in Fields /\ Placed(Now) /\ Unused(Now, fresh)
         /\ Now.doc = doc /\ Now.from = from /\ Now.to = to /\ Now.input = input /\ Now.marked = marked
         /\ Now.prev = prevInput /\ Now.apart = apart /\ Now.astray = astray /\ Now.changed = FALSE
         /\ doc \in Seq(Chars) /\ Len(doc) \in Nat /\ from \in Nat /\ to \in Nat /\ from <= to /\ to <= Len(doc)
<1>1. Good(Now, fresh, menu) /\ Placed(Now) /\ Unused(Now, fresh) /\ Now \in Fields
  BY DEF InputInv, Good, Placed
<1>2. /\ Now.doc = doc /\ Now.from = from /\ Now.to = to /\ Now.input = input /\ Now.marked = marked
      /\ Now.prev = prevInput /\ Now.apart = apart /\ Now.astray = astray /\ Now.changed = FALSE
  BY DEF Now
<1>3. doc \in Seq(Chars) /\ Len(doc) \in Nat /\ from \in Nat /\ to \in Nat /\ from <= to /\ to <= Len(doc)
  BY <1>1, <1>2 DEF Placed, Fields
<1> QED
  BY <1>1, <1>2, <1>3

(* A step that leaves text and field alone. *)
LEMMA Stays ==
  ASSUME InputInv, UNCHANGED <<text, field, apart, astray>>
  PROVE  Becomes(Now)
BY DEF Becomes, Now, text, field

(* slowPoll and fastPoll. *)
LEMMA Polls ==
  ASSUME InputInv
  PROVE  /\ FastPoll => /\ pollingFast' = TRUE /\ PollOK' /\ poll' \in {"none", "slow", "fast", "again"}
         /\ SlowPoll(pollingFast) /\ UNCHANGED pollingFast =>
              PollOK' /\ poll' \in {"none", "slow", "fast", "again"}
<1>1. /\ poll \in {"none", "slow", "fast", "again"} /\ pollingFast \in BOOLEAN
      /\ (pollingFast => poll \in {"fast", "again"})
  BY DEF InputInv, InputTypes, InputTypeOK, PollOK
<1> QED
  BY <1>1 DEF FastPoll, SlowPoll, PollOK

(* The poll's timer. *)
LEMMA TimerReads ==
  ASSUME InputInv, PollTimer
  PROVE  InputInv'
<1> DEFINE s == ReadInput(Now)
<1>1. /\ poll # "none" /\ Becomes([s EXCEPT !.changed = FALSE])
      /\ UNCHANGED <<focused, menu, readOnly, fresh, lost>>
  BY DEF PollTimer
<1>2. /\ Good(s, fresh, menu) /\ s.apart = apart /\ (astray => s.astray)
      /\ (InFront(Now) => InFront(s))
      /\ focused /\ menu = NoMenu /\ ~readOnly => AllRead(s) \/ s.astray
  BY Found, Reads, InputAssumption
<1>3. \/ /\ poll = "slow" /\ poll' = (IF focused /\ ~pollingFast THEN "slow" ELSE "none") /\ UNCHANGED pollingFast
      \/ poll = "fast" /\ poll' = "again" /\ UNCHANGED pollingFast
      \/ pollingFast' = FALSE /\ poll' = "slow"
  BY DEF PollTimer
<1> HIDE DEF s
<1>4. Becomes(s)
  BY <1>1, <1>2, Settles DEF Good, Placed
<1>5. /\ InputTypes /\ PollOK /\ (focused /\ menu = NoMenu => InFront(Now)) /\ (readOnly \/ astray \/ lost = {})
  BY DEF InputInv
<1>6. /\ fresh \subseteq Chars /\ lost \subseteq Chars /\ focused \in BOOLEAN /\ readOnly \in BOOLEAN
      /\ pollingFast \in BOOLEAN
  BY <1>5 DEF InputTypes, InputTypeOK
<1>7. poll' \in {"none", "slow", "fast", "again"} /\ pollingFast' \in BOOLEAN /\ PollOK'
  <2>1. CASE poll = "slow" /\ poll' = (IF focused /\ ~pollingFast THEN "slow" ELSE "none") /\ UNCHANGED pollingFast
    <3>1. ~pollingFast
      BY <1>5, <2>1 DEF PollOK
    <3>2. CASE focused
      BY <1>1, <1>6, <2>1, <3>1, <3>2 DEF PollOK
    <3>3. CASE ~focused
      BY <1>1, <1>6, <2>1, <3>1, <3>3 DEF PollOK
    <3> QED
      BY <3>2, <3>3
  <2>2. CASE poll' = "again" /\ UNCHANGED pollingFast
    BY <1>6, <2>2 DEF PollOK
  <2>3. CASE pollingFast' = FALSE /\ poll' = "slow"
    BY <2>3 DEF PollOK
  <2> QED
    BY <1>3, <2>1, <2>2, <2>3
<1> QED
  BY <1>1, <1>2, <1>4, <1>5, <1>6, <1>7, Stands

(* What a key finds after it has read the field. *)
LEMMA KeyHasRead ==
  ASSUME InputInv
  PROVE  /\ Good(KeyReads, fresh, menu) /\ KeyReads.apart = apart /\ (astray => KeyReads.astray)
         /\ InFront(Now) => InFront(KeyReads)
         /\ KeyReads.changed => AllRead(KeyReads)
         /\ focused /\ menu = NoMenu /\ ~readOnly => AllRead(KeyReads) \/ KeyReads.astray
<1>1. CASE pollingFast
  <2>1. KeyReads = ReadInput(Now)
    BY <1>1 DEF KeyReads
  <2> QED
    BY <2>1, Found, Reads, InputAssumption
<1>2. CASE ~pollingFast
  <2>1. KeyReads = Now
    BY <1>2 DEF KeyReads
  <2>2. focused /\ menu = NoMenu /\ ~readOnly /\ ~astray => AllRead(Now)
    BY <1>2 DEF InputInv
  <2> QED
    BY <2>1, <2>2, Found
<1> QED
  BY <1>1, <1>2

(* Characters that reach the field. *)
LEMMA CharacterArrives ==
  ASSUME InputInv, NEW c \in Chars, TypeChar(c) \/ Correct(c) \/ Paste(c)
  PROVE  InputInv'
<1>1. /\ c \in fresh /\ fresh' = fresh \ {c} /\ focused /\ FastPoll
      /\ UNCHANGED <<focused, menu, readOnly, lost>>
  BY DEF TypeChar, Correct, Paste
<1>2. /\ InputTypes /\ (focused /\ menu = NoMenu => InFront(Now)) /\ (readOnly \/ astray \/ lost = {})
  BY DEF InputInv
<1>3. fresh \subseteq Chars /\ lost \subseteq Chars /\ focused \in BOOLEAN /\ readOnly \in BOOLEAN
  BY <1>2 DEF InputTypes, InputTypeOK
<1>4. pollingFast' = TRUE /\ PollOK' /\ poll' \in {"none", "slow", "fast", "again"}
  BY <1>1, Polls
<1>5. ASSUME NEW s, Becomes(s), Good(s, fresh', menu'), InFront(Now) => InFront(s), astray => s.astray
      PROVE  InputInv'
  BY <1>1, <1>2, <1>3, <1>4, <1>5, Stands
<1>6. CASE TypeChar(c)
  <2> DEFINE s == KeyReads
  <2>1. Becomes(Behind(s, c))
    BY <1>6 DEF TypeChar, Behind
  <2>2. Good(s, fresh, menu) /\ (astray => s.astray) /\ (InFront(Now) => InFront(s))
    BY KeyHasRead
  <2> HIDE DEF s
  <2>3. /\ Good(Behind(s, c), fresh \ {c}, menu) /\ Behind(s, c).astray = s.astray
        /\ InFront(s) => InFront(Behind(s, c))
    BY <1>1, <2>2, Appends
  <2> QED
    BY <1>1, <1>5, <2>1, <2>2, <2>3
<1>7. CASE Correct(c)
  <2>1. input # <<>> /\ ~marked /\ Becomes(Corrected(Now, c))
    BY <1>7 DEF Correct, Corrected, Becomes, Now, text
  <2>2. /\ Good(Corrected(Now, c), fresh \ {c}, menu) /\ Corrected(Now, c).astray = Now.astray
        /\ InFront(Now) => InFront(Corrected(Now, c))
    BY <1>1, <2>1, Found, Corrects
  <2> QED
    BY <1>1, <1>5, <2>1, <2>2, Found
<1>8. CASE Paste(c)
  <2>1. Becomes(Behind(Now, c))
    BY <1>8 DEF Paste, Behind, Becomes, Now, text
  <2>2. /\ Good(Behind(Now, c), fresh \ {c}, menu) /\ Behind(Now, c).astray = Now.astray
        /\ InFront(Now) => InFront(Behind(Now, c))
    BY <1>1, Found, Appends
  <2> QED
    BY <1>1, <1>5, <2>1, <2>2, Found
<1> QED
  BY <1>6, <1>7, <1>8
(* Another selection in the same text, or in none of it. *)
LEMMA Moves ==
  ASSUME NEW s, NEW unused, NEW m, Good(s, unused, m), NEW t \in Fields, t.doc \in {s.doc, <<>>}, t.input = s.input,
         t.marked = s.marked, t.prev = s.prev, t.from <= t.to, t.to <= Len(t.doc)
  PROVE  Good(t, unused, m)
<1>1. Placed(s) /\ Unused(s, unused) /\ Readable(s, m)
  BY DEF Good
<1>2. ToSet(t.doc) \subseteq ToSet(s.doc) /\ IsInjective(t.doc)
  <2>1. CASE t.doc = s.doc
    BY <1>1, <2>1 DEF Placed
  <2>2. CASE t.doc = <<>>
    BY <2>2 DEF ToSet, IsInjective
  <2> QED
    BY <2>1, <2>2
<1>3. Placed(t)
  BY <1>2 DEF Placed
<1>4. Unused(t, unused)
  BY <1>1, <1>2 DEF Unused
<1>5. \A k : NewFrom(s.input, k, s) => NewFrom(t.input, k, t)
  BY <1>2 DEF NewFrom
<1>6. Readable(t, m)
  BY <1>1, <1>5 DEF Readable
<1> QED
  BY <1>3, <1>4, <1>6 DEF Good

(* A key throws away nothing when all was read. *)
LEMMA NothingLost ==
  ASSUME NEW s \in Fields, NEW t
  PROVE  LostBy(s, t) \subseteq Chars /\ (AllRead(s) => LostBy(s, t) = {})
<1>1. s.input \in Seq(Chars) /\ s.prev \in Seq(Chars)
  BY DEF Fields
<1>2. Common(s.prev, s.input) \in Nat
  BY <1>1, CommonIsShared DEF Shared
<1>3. Unread(s) \subseteq Chars
  <2>1. \A i \in Common(s.prev, s.input) + 1..Len(s.input) : i \in 1..Len(s.input)
    BY <1>1, <1>2
  <2>2. \A i \in 1..Len(s.input) : s.input[i] \in Chars
    BY <1>1
  <2> QED
    BY <2>1, <2>2 DEF Unread
<1>4. ASSUME AllRead(s)
      PROVE  Unread(s) = {}
  <2>1. CASE s.marked
    BY <2>1 DEF Unread
  <2>2. CASE s.input = s.prev
    <3>1. Shared(s.input, s.input, Len(s.input))
      BY <1>1 DEF Shared
    <3>2. Common(s.prev, s.input) = Len(s.input)
      BY <1>1, <2>2, <3>1, CommonIsShared, SharedIsUnique
    <3>3. Common(s.prev, s.input) + 1..Len(s.input) = {}
      BY <1>1, <3>2
    <3> QED
      BY <3>3 DEF Unread
  <2> QED
    BY <1>4, <2>1, <2>2 DEF AllRead
<1> QED
  BY <1>3, <1>4 DEF LostBy

(* The commands of keys. *)
LEMMA KeyCommands ==
  ASSUME InputInv, KeyCommand
  PROVE  InputInv'
<1> DEFINE s == KeyReads
           move == [s EXCEPT !.from = IF @ > 0 THEN @ - 1 ELSE 0, !.to = IF s.from > 0 THEN s.from - 1 ELSE 0]
           del == ReplaceSelection([s EXCEPT !.from = IF s.from = s.to /\ @ > 0 THEN @ - 1 ELSE @], <<>>)
<1>1. /\ focused /\ menu = NoMenu /\ pollingFast' = (pollingFast /\ ~s.changed)
      /\ UNCHANGED <<poll, focused, menu, readOnly>>
  BY DEF KeyCommand
<1>2. \/ \E t \in {move, IF readOnly THEN s ELSE del} :
            /\ Becomes([EndOperation(t, TRUE) EXCEPT !.changed = FALSE]) /\ UNCHANGED fresh
            /\ lost' = lost \cup LostBy(s, EndOperation(t, TRUE))
      \/ \E c \in fresh :
            LET e == EndOperation([ReplaceSelection(s, <<c>>) EXCEPT !.apart = TRUE], FALSE)
            IN  /\ ~readOnly /\ fresh' = fresh \ {c} /\ Becomes([e EXCEPT !.changed = FALSE])
                /\ lost' = lost \cup LostBy(s, e)
  BY DEF KeyCommand
<1>3. /\ InputTypes /\ PollOK /\ (readOnly \/ astray \/ lost = {})
  BY DEF InputInv
<1>4. /\ fresh \subseteq Chars /\ lost \subseteq Chars /\ focused \in BOOLEAN /\ readOnly \in BOOLEAN
      /\ pollingFast \in BOOLEAN /\ poll \in {"none", "slow", "fast", "again"}
  BY <1>3 DEF InputTypes, InputTypeOK
<1>5. /\ Good(s, fresh, NoMenu) /\ s.apart = apart /\ (astray => s.astray) /\ (s.changed => AllRead(s))
      /\ ~readOnly => AllRead(s) \/ s.astray
  BY <1>1, KeyHasRead
<1> HIDE DEF s
<1>6. /\ Placed(s) /\ s \in Fields /\ s.doc \in Seq(Chars) /\ Len(s.doc) \in Nat /\ s.from \in Nat /\ s.to \in Nat
      /\ s.from <= s.to /\ s.to <= Len(s.doc) /\ s.input \in Seq(Chars) /\ Unused(s, fresh)
  BY <1>5 DEF Good, Placed, Fields
<1>7. pollingFast' \in BOOLEAN /\ PollOK'
  <2>1. pollingFast' \in BOOLEAN /\ (pollingFast' => pollingFast)
    BY <1>1, <1>4
  <2> QED
    BY <1>1, <1>3, <2>1 DEF PollOK
<1>8. ASSUME NEW e, Good(e, fresh', NoMenu), fresh' \subseteq Chars, Becomes([e EXCEPT !.changed = FALSE]), e.astray = s.astray,
             InFront(e), AllRead(e) \/ pollingFast' \/ readOnly \/ s.astray, lost' = lost \cup LostBy(s, e)
      PROVE  InputInv'
  <2>1. Becomes(e)
    BY <1>8, Settles DEF Good, Placed
  <2>2. LostBy(s, e) \subseteq Chars /\ (AllRead(s) => LostBy(s, e) = {})
    BY <1>6, NothingLost
  <2>3. lost' \subseteq Chars /\ (readOnly \/ e.astray \/ lost' = {})
    BY <1>3, <1>4, <1>5, <1>8, <2>2
  <2> QED
    BY <1>1, <1>4, <1>7, <1>8, <2>1, <2>3, Stands
<1>9. ASSUME NEW t, Good(t, fresh, NoMenu), t.astray = s.astray, UNCHANGED fresh,
             Becomes([EndOperation(t, TRUE) EXCEPT !.changed = FALSE]), lost' = lost \cup LostBy(s, EndOperation(t, TRUE))
      PROVE  InputInv'
  <2>1. /\ Good(EndOperation(t, TRUE), fresh, menu) /\ EndOperation(t, TRUE).astray = t.astray
        /\ InFront(EndOperation(t, TRUE)) /\ AllRead(EndOperation(t, TRUE))
    BY <1>1, <1>9, Ended
  <2> DEFINE e == EndOperation(t, TRUE)
  <2> HIDE DEF e
  <2> QED
    BY <1>1, <1>4, <1>8, <1>9, <2>1 DEF e
<1>10. Good(move, fresh, NoMenu) /\ move.astray = s.astray
  <2> DEFINE p == IF s.from > 0 THEN s.from - 1 ELSE 0
  <2>1. p \in Nat /\ p <= Len(s.doc) /\ p <= p
    BY <1>6
  <2>2. move = [s EXCEPT !.from = p, !.to = p]
    BY <1>6 DEF Fields
  <2> HIDE DEF p, move
  <2>3. /\ move \in Fields /\ move.doc = s.doc /\ move.input = s.input /\ move.marked = s.marked
        /\ move.prev = s.prev /\ move.from = p /\ move.to = p /\ move.astray = s.astray
    BY <1>6, <2>1, <2>2 DEF Fields
  <2> QED
    BY <1>5, <2>1, <2>3, Moves
<1>11. Good(del, fresh, NoMenu) /\ del.astray = s.astray
  <2> DEFINE p == IF s.from = s.to /\ s.from > 0 THEN s.from - 1 ELSE s.from
             u == [s EXCEPT !.from = p]
             r == ReplaceSelection(u, <<>>)
  <2>1. p \in Nat /\ p <= s.to
    BY <1>6
  <2>2. del = r
    BY <1>6 DEF Fields
  <2> HIDE DEF p, del
  <2>3. /\ u \in Fields /\ u.doc = s.doc /\ u.input = s.input /\ u.marked = s.marked
        /\ u.prev = s.prev /\ u.from = p /\ u.to = s.to /\ u.astray = s.astray
    BY <1>6, <2>1 DEF Fields
  <2> HIDE DEF u
  <2> DEFINE e == <<>>
  <2>4. e \in Seq(Chars) /\ IsInjective(e) /\ ToSet(e) = {} /\ Len(e) = 0
    BY DEF IsInjective, ToSet
  <2>5. Placed(u)
    BY <1>6, <2>1, <2>3 DEF Placed
  <2>6. /\ Placed(r) /\ r.input = s.input /\ r.prev = s.prev /\ r.marked = s.marked /\ r.astray = s.astray
        /\ ToSet(r.doc) \subseteq ToSet(s.doc)
    <3> HIDE DEF e
    <3>1. /\ Placed(ReplaceSelection(u, e))
          /\ ReplaceSelection(u, e).input = u.input /\ ReplaceSelection(u, e).prev = u.prev
          /\ ReplaceSelection(u, e).marked = u.marked /\ ReplaceSelection(u, e).astray = u.astray
          /\ ToSet(ReplaceSelection(u, e).doc) \subseteq ToSet(u.doc) \cup ToSet(e)
      <4>1. ToSet(e) \cap ToSet(u.doc) = {}
        BY <2>4
      <4> QED
        BY <2>4, <2>5, <4>1, Replaces
    <3> QED
      BY <2>3, <2>4, <3>1 DEF e
  <2> HIDE DEF r
  <2>7. Unused(r, fresh)
    BY <1>6, <2>6 DEF Unused
  <2>8. Readable(r, NoMenu)
    BY <1>5, <2>6 DEF Good, Readable, NewFrom
  <2> QED
    BY <2>2, <2>6, <2>7, <2>8 DEF Good
<1>12. ASSUME NEW c \in fresh, ~readOnly, fresh' = fresh \ {c},
              Becomes([EndOperation([ReplaceSelection(s, <<c>>) EXCEPT !.apart = TRUE], FALSE) EXCEPT !.changed = FALSE]),
              lost' = lost \cup LostBy(s, EndOperation([ReplaceSelection(s, <<c>>) EXCEPT !.apart = TRUE], FALSE))
       PROVE  InputInv'
  <2> DEFINE q == <<c>>
             r == ReplaceSelection(s, q)
             t == [r EXCEPT !.apart = TRUE]
             e == EndOperation(t, FALSE)
  <2>1. c \in Chars /\ c \notin ToSet(s.doc) /\ c \notin ToSet(s.input) /\ c \notin ToSet(s.prev)
    BY <1>4, <1>6, <1>12 DEF Unused
  <2>2. q \in Seq(Chars) /\ IsInjective(q) /\ ToSet(q) = {c} /\ ToSet(q) \cap ToSet(s.doc) = {}
    BY <2>1 DEF IsInjective, ToSet
  <2> HIDE DEF q
  <2>3. /\ Placed(r) /\ r.input = s.input /\ r.prev = s.prev /\ r.marked = s.marked /\ r.astray = s.astray
        /\ ToSet(r.doc) \subseteq ToSet(s.doc) \cup ToSet(q)
    BY <1>6, <2>2, Replaces
  <2> HIDE DEF r
  <2>4. /\ t \in Fields /\ t.doc = r.doc /\ t.from = r.from /\ t.to = r.to /\ t.input = s.input /\ t.prev = s.prev
        /\ t.marked = s.marked /\ t.astray = s.astray /\ t.apart = TRUE
    BY <2>3 DEF Placed, Fields
  <2> HIDE DEF t
  <2>5. Placed(t) /\ Unused(t, fresh \ {c})
    BY <1>6, <2>2, <2>3, <2>4 DEF Placed, Unused
  <2>6. Readable(t, NoMenu)
    <3>1. \A i \in 1..Len(s.input) : s.input[i] # c /\ s.input[i] \in ToSet(s.input)
      BY <1>6, <2>1 DEF ToSet
    <3>2. Common(s.prev, s.input) \in Nat
      BY <1>6, CommonIsShared DEF Shared, Fields
    <3>3. \A i \in Common(s.prev, s.input) + 1..Len(s.input) : i \in 1..Len(s.input)
      BY <3>2
    <3> QED
      BY <1>5, <2>2, <2>3, <2>4, <3>1, <3>3 DEF Good, Readable, NewFrom
  <2>7. Good(t, fresh \ {c}, menu)
    BY <1>1, <2>5, <2>6 DEF Good
  <2>8. /\ Good(e, fresh \ {c}, menu) /\ e.astray = s.astray
        /\ (e = t) \/ (InFront(e) /\ AllRead(e))
    BY <2>4, <2>7, Ended
  <2>9. InFront(e) /\ (AllRead(e) \/ s.astray)
    BY <1>5, <1>12, <2>4, <2>8 DEF InFront, AllRead
  <2>10. Becomes([e EXCEPT !.changed = FALSE]) /\ lost' = lost \cup LostBy(s, e)
    BY <1>12 DEF e, t, r, q
  <2> HIDE DEF e
  <2> QED
    BY <1>1, <1>4, <1>8, <1>12, <2>8, <2>9, <2>10
<1>13. Good(IF readOnly THEN s ELSE del, fresh, NoMenu) /\ (IF readOnly THEN s ELSE del).astray = s.astray
  BY <1>5, <1>11
<1> HIDE DEF move, del
<1> QED
  BY <1>2, <1>9, <1>10, <1>12, <1>13
(* A click, or a drag. *)
LEMMA Clicks ==
  ASSUME InputInv, Click
  PROVE  InputInv'
<1>1. PICK p \in 0..Len(doc), q \in 0..Len(doc) :
        /\ p <= q /\ menu = NoMenu
        /\ focused' = TRUE /\ Becomes(ResetInput([Now EXCEPT !.from = p, !.to = q], TRUE))
        /\ (IF focused THEN UNCHANGED poll ELSE SlowPoll(pollingFast))
        /\ UNCHANGED <<pollingFast, menu, readOnly, fresh, lost>>
  BY DEF Click
<1> DEFINE s == [Now EXCEPT !.from = p, !.to = q]
           r == ResetInput(s, TRUE)
<1>2. /\ InputTypes /\ PollOK /\ (readOnly \/ astray \/ lost = {})
  BY DEF InputInv
<1>3. p \in Nat /\ q \in Nat /\ p <= q /\ q <= Len(doc)
  BY <1>1, Found
<1>4. /\ s \in Fields /\ s.doc = Now.doc /\ s.input = Now.input /\ s.marked = Now.marked /\ s.prev = Now.prev
      /\ s.from = p /\ s.to = q /\ s.astray = astray
  BY <1>3, Found DEF Fields
<1> HIDE DEF s
<1>5. Good(s, fresh, menu)
  BY <1>3, <1>4, Found, Moves
<1>6. Good(r, fresh, NoMenu) /\ InFront(r) /\ AllRead(r) /\ r.astray = astray
  <2>1. Placed(s) /\ Unused(s, fresh)
    BY <1>5 DEF Good
  <2> QED
    BY <1>4, <2>1, Resets
<1> HIDE DEF r
<1>7. /\ fresh \subseteq Chars /\ lost \subseteq Chars /\ readOnly \in BOOLEAN /\ focused \in BOOLEAN
      /\ pollingFast \in BOOLEAN /\ poll \in {"none", "slow", "fast", "again"}
  BY <1>2 DEF InputTypes, InputTypeOK
<1>8. PollOK' /\ poll' \in {"none", "slow", "fast", "again"}
  <2>1. CASE focused
    BY <1>1, <1>2, <1>7, <2>1 DEF PollOK
  <2>2. CASE ~focused
    BY <1>1, <2>2, Polls
  <2> QED
    BY <2>1, <2>2
<1>9. Becomes(r)
  BY <1>1 DEF r, s
<1> QED
  BY <1>1, <1>2, <1>6, <1>7, <1>8, <1>9, Stands

(* setSelection, setCursor and setValue. *)
LEMMA ProgramMoves ==
  ASSUME InputInv, ProgramChanges
  PROVE  InputInv'
<1>1. PICK p \in 0..Len(doc), q \in 0..Len(doc), clear \in BOOLEAN :
        /\ p <= q
        /\ Becomes(EndOperation(IF clear THEN [Now EXCEPT !.doc = <<>>, !.from = 0, !.to = 0, !.apart = TRUE]
                                ELSE [Now EXCEPT !.from = p, !.to = q, !.apart = TRUE], FALSE))
        /\ UNCHANGED <<polling, focused, menu, readOnly, fresh, lost>>
  BY DEF ProgramChanges
<1> DEFINE s == IF clear THEN [Now EXCEPT !.doc = <<>>, !.from = 0, !.to = 0, !.apart = TRUE]
                ELSE [Now EXCEPT !.from = p, !.to = q, !.apart = TRUE]
           e == EndOperation(s, FALSE)
<1>2. /\ InputTypes /\ PollOK /\ (readOnly \/ astray \/ lost = {})
      /\ focused /\ menu = NoMenu /\ ~readOnly /\ ~astray => AllRead(Now) \/ pollingFast
  BY DEF InputInv
<1>3. p \in Nat /\ q \in Nat /\ p <= q /\ q <= Len(doc)
  BY <1>1, Found
<1>4. /\ s \in Fields /\ s.doc \in {Now.doc, <<>>} /\ s.input = Now.input /\ s.marked = Now.marked
      /\ s.prev = Now.prev /\ s.from <= s.to /\ s.to <= Len(s.doc) /\ s.astray = astray /\ s.apart = TRUE
  <2>1. CASE clear = TRUE
    <3> DEFINE d == <<>>
    <3>1. d \in Seq(Chars) /\ Len(d) = 0
      OBVIOUS
    <3>2. s = [Now EXCEPT !.doc = d, !.from = 0, !.to = 0, !.apart = TRUE]
      BY <2>1
    <3> HIDE DEF d, s
    <3>3. /\ s \in Fields /\ s.doc = d /\ s.input = Now.input /\ s.marked = Now.marked
          /\ s.prev = Now.prev /\ s.from = 0 /\ s.to = 0 /\ s.astray = astray /\ s.apart = TRUE
      BY <3>1, <3>2, Found DEF Fields
    <3> QED
      BY <3>1, <3>3 DEF d
  <2>2. CASE clear = FALSE
    <3>1. s = [Now EXCEPT !.from = p, !.to = q, !.apart = TRUE]
      BY <2>2
    <3> HIDE DEF s
    <3> QED
      BY <1>3, <3>1, Found DEF Fields
  <2> QED
    BY <2>1, <2>2
<1> HIDE DEF s
<1>5. Good(s, fresh, menu)
  BY <1>4, Found, Moves
<1>6. /\ Good(e, fresh, menu) /\ e.astray = astray
      /\ (e = s) \/ (InFront(e) /\ AllRead(e))
  BY <1>4, <1>5, Ended
<1>7. Becomes(e)
  BY <1>1 DEF e, s
<1> HIDE DEF e
<1>8. InFront(e) /\ (AllRead(Now) => AllRead(e))
  BY <1>4, <1>6 DEF InFront, AllRead
<1>9. /\ fresh \subseteq Chars /\ lost \subseteq Chars /\ readOnly \in BOOLEAN /\ focused \in BOOLEAN
      /\ pollingFast \in BOOLEAN /\ poll \in {"none", "slow", "fast", "again"}
  BY <1>2 DEF InputTypes, InputTypeOK
<1>10. PollOK' /\ UNCHANGED polling /\ poll' = poll /\ pollingFast' = pollingFast
  BY <1>1, <1>2 DEF PollOK, polling
<1> QED
  BY <1>1, <1>2, <1>6, <1>7, <1>8, <1>9, <1>10, Stands

(* onFocus and onBlur. *)
LEMMA Focuses ==
  ASSUME InputInv, OnFocus \/ OnBlur
  PROVE  InputInv'
<1>1. /\ InputTypes /\ PollOK /\ (readOnly \/ astray \/ lost = {})
      /\ focused /\ menu = NoMenu => InFront(Now)
  BY DEF InputInv
<1>2. /\ fresh \subseteq Chars /\ lost \subseteq Chars /\ readOnly \in BOOLEAN /\ focused \in BOOLEAN
      /\ pollingFast \in BOOLEAN /\ poll \in {"none", "slow", "fast", "again"}
  BY <1>1 DEF InputTypes, InputTypeOK
<1>3. CASE OnFocus
  <2> DEFINE r == ResetInput(Now, TRUE)
             s == IF menu = NoMenu THEN r ELSE Now
  <2>1. /\ focused' = TRUE /\ Becomes(s) /\ SlowPoll(pollingFast)
        /\ UNCHANGED <<pollingFast, menu, readOnly, fresh, lost>>
    BY <1>3 DEF OnFocus
  <2>2. Good(r, fresh, NoMenu) /\ InFront(r) /\ AllRead(r) /\ r.astray = astray
    BY Found, Resets
  <2> HIDE DEF r
  <2>3. /\ Good(s, fresh, menu) /\ s.astray = astray /\ (menu = NoMenu => InFront(s) /\ AllRead(s))
    BY <2>2, Found
  <2>4. PollOK' /\ poll' \in {"none", "slow", "fast", "again"}
    BY <2>1, Polls
  <2> HIDE DEF s
  <2> QED
    BY <1>1, <1>2, <2>1, <2>3, <2>4, Stands
<1>4. CASE OnBlur
  <2>1. /\ focused' = FALSE /\ Becomes(Now)
        /\ UNCHANGED <<poll, pollingFast, menu, readOnly, fresh, lost>>
    BY <1>4, Stays DEF OnBlur, polling, text, field
  <2>2. PollOK'
    BY <1>1, <2>1 DEF PollOK
  <2> QED
    BY <1>1, <1>2, <2>1, <2>2, Found, Stands
<1> QED
  BY <1>3, <1>4

(* onContextMenu. *)
LEMMA MenuOpens ==
  ASSUME InputInv, ContextMenu
  PROVE  InputInv'
<1>1. PICK p \in 0..Len(doc) :
        LET inside == from < to /\ from <= p /\ p < to
            s == IF inside THEN Now ELSE [Now EXCEPT !.from = p, !.to = p, !.apart = TRUE]
        IN  /\ menu = NoMenu /\ menu' = Selected(s)
            /\ Becomes([EndOperation(s, FALSE) EXCEPT !.input = Selected(s), !.marked = Selected(s) # <<>>])
            /\ focused' = TRUE /\ SlowPoll(pollingFast)
            /\ UNCHANGED <<pollingFast, readOnly, fresh, lost>>
  BY DEF ContextMenu
<1> DEFINE inside == from < to /\ from <= p /\ p < to
           s == IF inside THEN Now ELSE [Now EXCEPT !.from = p, !.to = p, !.apart = TRUE]
           e == EndOperation(s, FALSE)
           q == Selected(s)
           n == q # <<>>
           r == [e EXCEPT !.input = q, !.marked = n]
<1>2. /\ menu = NoMenu /\ menu' = q /\ Becomes(r) /\ focused' = TRUE /\ SlowPoll(pollingFast)
      /\ UNCHANGED <<pollingFast, readOnly, fresh, lost>>
  BY <1>1
<1>3. /\ InputTypes /\ PollOK /\ (readOnly \/ astray \/ lost = {})
  BY DEF InputInv
<1>4. /\ fresh \subseteq Chars /\ lost \subseteq Chars /\ readOnly \in BOOLEAN
      /\ pollingFast \in BOOLEAN
  BY <1>3 DEF InputTypes, InputTypeOK
<1>5. p \in Nat /\ p <= Len(doc)
  BY Found
<1>6. Good(s, fresh, menu) /\ s.astray = astray
  <2>1. CASE inside
    <3>1. s = Now
      BY <2>1
    <3> QED
      BY <3>1, Found
  <2>2. CASE ~inside
    <3>1. s = [Now EXCEPT !.from = p, !.to = p, !.apart = TRUE]
      BY <2>2
    <3> HIDE DEF s, inside
    <3>2. /\ s \in Fields /\ s.doc = Now.doc /\ s.input = Now.input /\ s.marked = Now.marked /\ s.prev = Now.prev
          /\ s.from = p /\ s.to = p /\ s.astray = astray
      BY <1>5, <3>1, Found DEF Fields
    <3> QED
      BY <1>5, <3>2, Found, Moves
  <2> QED
    BY <2>1, <2>2
<1> HIDE DEF s
<1>7. Good(e, fresh, menu) /\ e.astray = astray /\ e.doc = s.doc
  BY <1>6, Ended
<1>8. q \in Seq(Chars) /\ ToSet(q) \subseteq ToSet(s.doc)
  BY <1>6, Selects DEF Good
<1>9. q # NoMenu
  <2> HIDE DEF q
  <2>1. ASSUME q = NoMenu
        PROVE  FALSE
    <3>1. Len(q) = 1
      BY <2>1 DEF NoMenu
    <3>2. q[1] = "no menu"
      BY <2>1 DEF NoMenu
    <3>3. \A i \in 1..Len(q) : q[i] \in Chars
      BY <1>8
    <3>4. 1 \in 1..Len(q)
      BY <3>1
    <3> QED
      BY <3>2, <3>3, <3>4, InputAssumption
  <2> QED
    BY <2>1
<1> HIDE DEF e, q
<1>10. n \in BOOLEAN
  OBVIOUS
<1>11. n = TRUE \/ (n = FALSE /\ q = <<>>)
  OBVIOUS
<1> HIDE DEF n
<1>12. /\ r \in Fields /\ r.doc = e.doc /\ r.from = e.from /\ r.to = e.to /\ r.input = q /\ r.marked = n
       /\ r.prev = e.prev /\ r.astray = astray
  <2>1. e \in Fields
    BY <1>7 DEF Good, Placed
  <2>2. CASE n = TRUE
    BY <1>7, <1>8, <2>1, <2>2 DEF Fields
  <2>3. CASE n = FALSE
    BY <1>7, <1>8, <2>1, <2>3 DEF Fields
  <2> QED
    BY <1>10, <2>2, <2>3
<1> HIDE DEF r
<1>13. Placed(r) /\ Unused(r, fresh)
  <2>1. Placed(e) /\ Unused(e, fresh)
    BY <1>7 DEF Good
  <2> QED
    BY <1>7, <1>8, <1>12, <2>1 DEF Placed, Unused
<1>14. Readable(r, q)
  <2>1. CASE n = TRUE
    BY <1>12, <2>1 DEF Readable
  <2>2. CASE n = FALSE
    <3>1. q = <<>>
      BY <1>11, <2>2
    <3>2. 0 + 1..Len(q) = {}
      BY <3>1
    <3> QED
      BY <1>9, <1>12, <2>2, <3>2 DEF Readable, NewFrom
  <2> QED
    BY <1>11, <2>1, <2>2
<1>15. Good(r, fresh', menu')
  BY <1>2, <1>13, <1>14 DEF Good
<1>16. PollOK' /\ poll' \in {"none", "slow", "fast", "again"}
  BY <1>2, Polls
<1> QED
  BY <1>2, <1>3, <1>4, <1>9, <1>12, <1>15, <1>16, Stands

(* rehide. *)
LEMMA MenuCloses ==
  ASSUME InputInv, Rehide
  PROVE  InputInv'
<1> DEFINE s == IF input # menu /\ ~readOnly THEN ReplaceSelection(Now, input) ELSE Now
           r == ResetInput(s, TRUE)
<1>1. /\ menu # NoMenu /\ menu' = NoMenu /\ Becomes(r) /\ SlowPoll(pollingFast)
      /\ UNCHANGED <<pollingFast, focused, readOnly, fresh, lost>>
  BY DEF Rehide
<1>2. /\ InputTypes /\ PollOK /\ (readOnly \/ astray \/ lost = {})
  BY DEF InputInv
<1>3. /\ fresh \subseteq Chars /\ lost \subseteq Chars /\ readOnly \in BOOLEAN
      /\ pollingFast \in BOOLEAN /\ focused \in BOOLEAN
  BY <1>2 DEF InputTypes, InputTypeOK
<1>4. Placed(s) /\ Unused(s, fresh) /\ s.astray = astray
  <2>1. CASE input # menu /\ ~readOnly
    <3>1. s = ReplaceSelection(Now, input)
      BY <2>1
    <3>2. ~Now.marked /\ NewFrom(input, 0, Now)
      BY <1>1, <2>1, Found DEF Good, Readable
    <3>3. input \in Seq(Chars) /\ DOMAIN input = 1..Len(input) /\ 0 + 1 = 1
      BY Found DEF Fields
    <3>4. IsInjective(input) /\ ToSet(input) \cap ToSet(Now.doc) = {}
      BY <3>2, <3>3 DEF NewFrom, IsInjective, ToSet
    <3>5. /\ Placed(s) /\ s.input = Now.input /\ s.prev = Now.prev /\ s.astray = Now.astray
          /\ ToSet(s.doc) \subseteq ToSet(Now.doc) \cup ToSet(input)
      BY <3>1, <3>3, <3>4, Found, Replaces
    <3> HIDE DEF s
    <3> QED
      BY <3>5, Found DEF Unused
  <2>2. CASE ~(input # menu /\ ~readOnly)
    <3>1. s = Now
      BY <2>2
    <3> QED
      BY <3>1, Found
  <2> QED
    BY <2>1, <2>2
<1> HIDE DEF s
<1>5. Good(r, fresh, NoMenu) /\ InFront(r) /\ AllRead(r) /\ r.astray = astray
  BY <1>4, Resets
<1> HIDE DEF r
<1>6. PollOK' /\ poll' \in {"none", "slow", "fast", "again"}
  BY <1>1, Polls
<1> QED
  BY <1>1, <1>2, <1>3, <1>5, <1>6, Stands
-----------------------------------------------------------------------------
(* What stands in front of a place ends the text up to there. *)
LEMMA EndsIsSuffix ==
  ASSUME NEW q \in Seq(Chars), NEW d \in Seq(Chars), NEW n \in Nat, n <= Len(d), Ends(q, d, n)
  PROVE  IsSuffix(q, SubSeq(d, 1, n))
<1> DEFINE t == SubSeq(d, 1, n)
           x == Reverse(q)
           y == Reverse(t)
           k == Len(q)
<1>1. k \in Nat /\ k <= n /\ \A i \in 1..k : q[i] = d[(n - k) + i]
  BY DEF Ends
<1>2. t \in Seq(Chars) /\ Len(t) = n /\ \A i \in 1..n : t[i] = d[i]
  <2>1. 0 \in Nat /\ 0 <= n /\ 0 + 1 = 1 /\ n - 0 = n
    OBVIOUS
  <2>2. SubSeq(d, 0 + 1, n) \in Seq(Chars) /\ Len(SubSeq(d, 0 + 1, n)) = n - 0 /\ \A i \in 1..n - 0 : SubSeq(d, 0 + 1, n)[i] = d[0 + i]
    BY <2>1, PartOf
  <2>3. \A i \in 1..n : 0 + i = i
    OBVIOUS
  <2> QED
    BY <2>1, <2>2, <2>3
<1> HIDE DEF t
<1>3. x = [i \in 1..k |-> q[(k - i) + 1]] /\ y = [i \in 1..n |-> t[(n - i) + 1]]
  BY <1>2 DEF Reverse
<1> HIDE DEF x, y
<1>4. x \in Seq(Chars) /\ Len(x) = k
  <2>1. \A i \in 1..k : (k - i) + 1 \in 1..Len(q)
    BY <1>1
  <2>2. \A i \in 1..k : q[(k - i) + 1] \in Chars
    BY <2>1
  <2> HIDE DEF k
  <2> QED
    BY <1>1, <1>3, <2>2
<1>5. y \in Seq(Chars) /\ Len(y) = n
  <2>1. \A i \in 1..n : (n - i) + 1 \in 1..Len(t)
    BY <1>2
  <2>2. \A i \in 1..n : t[(n - i) + 1] \in Chars
    BY <1>2, <2>1
  <2> QED
    BY <1>3, <2>2
<1>6. \A i \in 1..k : x[i] = y[i]
  <2> SUFFICES ASSUME NEW i \in 1..k PROVE x[i] = y[i]
    OBVIOUS
  <2>1. /\ (k - i) + 1 \in 1..k /\ i \in 1..n /\ (n - i) + 1 \in 1..n
        /\ (n - k) + ((k - i) + 1) = (n - i) + 1
    BY <1>1
  <2>2. q[(k - i) + 1] = d[(n - i) + 1] /\ t[(n - i) + 1] = d[(n - i) + 1]
    BY <1>1, <1>2, <2>1
  <2> QED
    BY <1>3, <2>1, <2>2
<1>7. SubSeq(y, 1, k) = x
  <2>1. 0 \in Nat /\ 0 <= k /\ 0 + 1 = 1 /\ k - 0 = k /\ k <= Len(y)
    BY <1>1, <1>5
  <2> HIDE DEF k
  <2>2. SubSeq(y, 0 + 1, k) \in Seq(Chars) /\ Len(SubSeq(y, 0 + 1, k)) = k - 0 /\ \A i \in 1..k - 0 : SubSeq(y, 0 + 1, k)[i] = y[0 + i]
    BY <1>1, <1>5, <2>1, PartOf
  <2>3. \A i \in 1..k : 0 + i = i
    BY <1>1
  <2>4. SubSeq(y, 1, k) \in Seq(Chars) /\ Len(SubSeq(y, 1, k)) = k /\ \A i \in 1..k : SubSeq(y, 1, k)[i] = x[i]
    BY <1>6, <2>1, <2>2, <2>3
  <2> QED
    BY <1>4, <2>4, SeqEqual
<1>8. IsPrefix(x, y)
  BY <1>1, <1>4, <1>5, <1>7 DEF IsPrefix
<1> QED
  BY <1>8 DEF IsSuffix, x, y, t

(* The start. *)
LEMMA InputStarts ==
  ASSUME InputInit
  PROVE  InputInv
<1> DEFINE e == <<>>
<1>1. e \in Seq(Chars) /\ Len(e) = 0 /\ ToSet(e) = {} /\ IsInjective(e) /\ 1..Len(e) = {}
  BY DEF ToSet, IsInjective
<1>2. /\ doc = e /\ from = 0 /\ to = 0 /\ input = e /\ marked = FALSE /\ prevInput = e
      /\ poll = "none" /\ pollingFast = FALSE /\ focused = FALSE /\ menu = NoMenu
      /\ readOnly \in BOOLEAN /\ fresh = Chars /\ apart = FALSE /\ lost = {} /\ astray = FALSE
  BY DEF InputInit
<1> HIDE DEF e
<1>3. /\ Now.doc = e /\ Now.from = 0 /\ Now.to = 0 /\ Now.input = e /\ Now.marked = FALSE /\ Now.prev = e
      /\ Now \in Fields
  BY <1>1, <1>2 DEF Now, Fields
<1>4. Placed(Now) /\ Unused(Now, fresh)
  BY <1>1, <1>2, <1>3 DEF Placed, Unused
<1>5. Readable(Now, menu)
  <2>1. Common(e, e) \in Nat
    BY <1>1, CommonIsShared DEF Shared
  <2>2. Common(e, e) + 1..Len(e) = {}
    BY <1>1, <2>1
  <2> QED
    BY <1>2, <1>3, <2>2 DEF Readable, NewFrom
<1>6. InputTypes /\ PollOK
  <2>1. 0 \in 0..Len(e) /\ 0 \in 0..0
    BY <1>1
  <2> QED
    BY <1>1, <1>2, <2>1 DEF InputTypes, InputTypeOK, PollOK
<1> QED
  BY <1>2, <1>4, <1>5, <1>6 DEF InputInv, Good
(* The invariant holds in every state of every behaviour. *)
THEOREM InputFits == InputSpec => []InputInv
<1>1. InputInit => InputInv
  BY InputStarts
<1>2. InputInv /\ [InputNext]_inputVars => InputInv'
  <2> SUFFICES ASSUME InputInv, [InputNext]_inputVars
               PROVE  InputInv'
    OBVIOUS
  <2>1. CASE PollTimer
    BY <2>1, TimerReads
  <2>2. CASE \E c \in Chars : TypeChar(c) \/ Correct(c) \/ Paste(c)
    BY <2>2, CharacterArrives
  <2>3. CASE KeyCommand
    BY <2>3, KeyCommands
  <2>4. CASE Click
    BY <2>4, Clicks
  <2>5. CASE ProgramChanges
    BY <2>5, ProgramMoves
  <2>6. CASE OnFocus \/ OnBlur
    BY <2>6, Focuses
  <2>7. CASE ContextMenu
    BY <2>7, MenuOpens
  <2>8. CASE Rehide
    BY <2>8, MenuCloses
  <2>9. CASE UNCHANGED inputVars
    <3>1. /\ Becomes(Now)
          /\ UNCHANGED <<poll, pollingFast, focused, menu, readOnly, fresh, lost>>
      BY <2>9, Stays DEF inputVars, polling, text, field
    <3>2. /\ InputTypes /\ PollOK /\ (readOnly \/ astray \/ lost = {}) /\ (focused /\ menu = NoMenu => InFront(Now))
          /\ focused /\ menu = NoMenu /\ ~readOnly /\ ~astray => AllRead(Now) \/ pollingFast
      BY DEF InputInv
    <3>3. /\ fresh \subseteq Chars /\ lost \subseteq Chars /\ readOnly \in BOOLEAN /\ focused \in BOOLEAN
          /\ pollingFast \in BOOLEAN /\ poll \in {"none", "slow", "fast", "again"}
      BY <3>2 DEF InputTypes, InputTypeOK
    <3>4. PollOK'
      BY <3>1, <3>2 DEF PollOK
    <3> QED
      BY <3>1, <3>2, <3>3, <3>4, Found, Stands
  <2> QED
    BY <2>1, <2>2, <2>3, <2>4, <2>5, <2>6, <2>7, <2>8, <2>9 DEF InputNext
<1> QED
  BY <1>1, <1>2, PTL DEF InputSpec

(* Text, selection, field and timer keep their types. *)
THEOREM InputTyped == InputSpec => []InputTypeOK
<1>1. InputInv => InputTypeOK
  BY DEF InputInv, InputTypes
<1> QED
  BY <1>1, InputFits, PTL

(* Whatever is typed, corrected, pasted and selected: no character gets into *)
(* the text twice, what was read last stands in front of the cursor, a field *)
(* that has the focus is polled, and no key throws away what was typed       *)
(* before it.                                                                *)
THEOREM InputNotLost == InputSpec => []InputRight
<1>1. InputInv => InputRight
  <2> SUFFICES ASSUME InputInv
               PROVE  InputRight
    OBVIOUS
  <2>1. NeverTwice
    BY Found DEF Placed, IsInjective, NeverTwice
  <2>2. PreviousInFront
    <3> SUFFICES ASSUME focused, menu = NoMenu, ~apart, ~astray, from = to
                 PROVE  IsSuffix(prevInput, SubSeq(doc, 1, from))
      BY DEF PreviousInFront
    <3>1. prevInput \in Seq(Chars)
      BY Found DEF Fields
    <3>2. Ends(prevInput, doc, from)
      BY Found DEF InputInv, InFront
    <3>3. from \in Nat /\ from <= Len(doc) /\ doc \in Seq(Chars)
      BY Found
    <3> QED
      BY <3>1, <3>2, <3>3, EndsIsSuffix
  <2>3. (focused => poll # "none") /\ (readOnly \/ astray \/ lost = {})
    BY DEF InputInv, PollOK
  <2>4. InputTypeOK
    BY DEF InputInv, InputTypes
  <2> QED
    BY <2>1, <2>2, <2>3, <2>4 DEF InputRight
<1> QED
  BY <1>1, InputFits, PTL

-----------------------------------------------------------------------------
Items == {"defer", "setup", "run", "teardown", "finish"} \X All
Follows(x, y) ==
  /\ x[2] = y[2]
  /\ \/ x[1] = "setup" /\ y[1] = "run"
     \/ x[1] = "run" /\ y[1] = "teardown"
     \/ x[1] = "teardown" /\ y[1] = "finish"
Unfinished(x) == x[1] \in {"setup", "run", "teardown"}
Begun(x) == x[1] \in {"run", "teardown", "finish"}

(* Phases stand in their order, and none is there twice; a test that waits   *)
(* for its turn has none there yet.                                          *)
Chained(s) ==
  \A i \in DOMAIN s :
    /\ Unfinished(s[i]) => i + 1 \in DOMAIN s /\ Follows(s[i], s[i + 1])
    /\ i > 1 /\ Begun(s[i]) => Follows(s[i - 1], s[i])
Distinct(s) ==
  /\ \A i, j \in DOMAIN s : s[i] = s[j] => i = j
  /\ \A i, j \in DOMAIN s : s[i][1] = "defer" /\ s[i][2] = s[j][2] => i = j
Orderly(s) == s \in Seq(Items) /\ Chained(s) /\ Distinct(s)

(* The head goes on with what ran last, and nothing is there that ran. *)
GoesOn ==
  IF Len(ran) % 4 = 0 THEN queue = <<>> \/ ~Begun(queue[1])
  ELSE queue # <<>> /\ Follows(ran[Len(ran)], queue[1])
NotAgain ==
  \A i \in DOMAIN queue, j \in DOMAIN ran :
    queue[i] # ran[j] /\ (queue[i][1] = "defer" => queue[i][2] # ran[j][2])
Reaches(t, s) == \E i \in DOMAIN s : s[i] = <<"defer", t>> \/ s[i] = <<"finish", t>>
Finished(t) == \E i \in DOMAIN ran : ran[i] = <<"finish", t>>
AllComeUp == \A t \in Tests : Finished(t) \/ Reaches(t, queue)
QueueOK ==
  /\ Orderly(queue) /\ ran \in Seq(Items) /\ OneTestAtATime /\ GoesOn /\ NotAgain /\ AllComeUp
  /\ dones > 0 => \A t \in Tests : Finished(t)

(* A test that waits, and what holds while it does. *)
Waits(t) == plan[t].starts = plan[t].stops /\ plan[t].stops > 0 /\ ~plan[t].dies /\ t \notin gaveUp
Waiting ==
  \A t \in Tests : Waits(t) /\ calls[t] > 0 =>
    current = t /\ semaphore = IF calls[t] < plan[t].starts THEN calls[t] ELSE plan[t].starts
HoldOK == (semaphore > 0 => blocking) /\ (timeout => blocking)

(* The ticket. *)
Looping == IF looping = "no" THEN 0 ELSE 1
OneTicket ==
  doubled \/ IF blocking THEN dones = 0 /\ slices = 0 /\ starting <= 1
             ELSE dones + slices + starting + Looping <= 1

CallsLeft == \A t \in All : calls[t] <= plan[t].starts + IF plan[t].pauses THEN 1 ELSE 0
QueueTypes ==
  /\ plan \in [All -> [stops : Nat, starts : Nat, pauses : BOOLEAN, dies : BOOLEAN]]
  /\ QueueTypeOK /\ CallsLeft
WaitingInv == HoldOK /\ (disturbed \/ (Waiting /\ NotCutShort /\ OneTicket))
QueueInv == QueueTypes /\ QueueOK /\ WaitingInv

-----------------------------------------------------------------------------
(* What stands where when a sequence is put behind another. *)
LEMMA Attached ==
  ASSUME NEW S, NEW s \in Seq(S), NEW b \in Seq(S)
  PROVE  /\ s \o b \in Seq(S) /\ Len(s \o b) = Len(s) + Len(b) /\ DOMAIN (s \o b) = 1..Len(s) + Len(b)
         /\ \A i \in DOMAIN (s \o b) : (s \o b)[i] = IF i <= Len(s) THEN s[i] ELSE b[i - Len(s)]
  OBVIOUS

(* The phases of a test, as a sequence. *)
LEMMA PhasesOfTest ==
  ASSUME NEW t \in All
  PROVE  /\ PhasesOf(t) \in Seq(Items) /\ Len(PhasesOf(t)) = 4 /\ DOMAIN PhasesOf(t) = 1..4
         /\ PhasesOf(t)[1] = <<"setup", t>> /\ PhasesOf(t)[2] = <<"run", t>>
         /\ PhasesOf(t)[3] = <<"teardown", t>> /\ PhasesOf(t)[4] = <<"finish", t>>
  BY DEF PhasesOf, Phases, Items

(* Tests that are put behind a queue they are not in leave it in order: the  *)
(* queue s becomes r.                                                        *)
Joins(t, s, r) ==
  /\ Orderly(r) /\ Reaches(t, r) /\ \A u \in All : Reaches(u, s) => Reaches(u, r)
  /\ IF s = <<>> THEN ~Begun(r[1]) ELSE r[1] = s[1]
  /\ \A i \in DOMAIN r : (i \in DOMAIN s /\ r[i] = s[i]) \/ r[i][2] = t

LEMMA Joined ==
  ASSUME NEW t \in All, NEW s, Orderly(s), \A i \in DOMAIN s : s[i][2] # t, NEW failed \in BOOLEAN
  PROVE  Joins(t, s, s \o Queued(t, failed))
<1> DEFINE b == Queued(t, failed)
           r == s \o b
<1>1. s \in Seq(Items) /\ Chained(s) /\ Distinct(s)
  BY DEF Orderly
<1>2. /\ b \in Seq(Items) /\ b # <<>> /\ \A i \in DOMAIN b : b[i][2] = t
      /\ Chained(b) /\ Distinct(b) /\ ~Begun(b[1]) /\ Reaches(t, b)
  <2>1. CASE failed
    <3>1. /\ b \in Seq(Items) /\ DOMAIN b = 1..4 /\ Len(b) = 4
          /\ b[1] = <<"setup", t>> /\ b[2] = <<"run", t>> /\ b[3] = <<"teardown", t>> /\ b[4] = <<"finish", t>>
      BY <2>1, PhasesOfTest DEF Queued
    <3> HIDE DEF b
    <3>2. \A i \in DOMAIN b : i = 1 \/ i = 2 \/ i = 3 \/ i = 4
      BY <3>1
    <3>3. \A i \in DOMAIN b : b[i][2] = t /\ b[i][1] # "defer"
      BY <3>1, <3>2
    <3>4. \A i, j \in DOMAIN b : b[i] = b[j] => i = j
      BY <3>1, <3>2
    <3>5. /\ Follows(b[1], b[2]) /\ Follows(b[2], b[3]) /\ Follows(b[3], b[4])
          /\ ~Begun(b[1]) /\ ~Unfinished(b[4])
      BY <3>1 DEF Follows, Begun, Unfinished
    <3>6. ASSUME NEW i \in DOMAIN b
          PROVE  /\ Unfinished(b[i]) => i + 1 \in DOMAIN b /\ Follows(b[i], b[i + 1])
                 /\ i > 1 /\ Begun(b[i]) => Follows(b[i - 1], b[i])
      <4>1. CASE i = 1
        <5>1. i + 1 = 2 /\ 2 \in DOMAIN b /\ ~(i > 1)
          BY <3>1, <4>1
        <5> QED
          BY <3>5, <4>1, <5>1
      <4>2. CASE i = 2
        <5>1. i + 1 = 3 /\ 3 \in DOMAIN b /\ i - 1 = 1
          BY <3>1, <4>2
        <5> QED
          BY <3>5, <4>2, <5>1
      <4>3. CASE i = 3
        <5>1. i + 1 = 4 /\ 4 \in DOMAIN b /\ i - 1 = 2
          BY <3>1, <4>3
        <5> QED
          BY <3>5, <4>3, <5>1
      <4>4. CASE i = 4
        <5>1. i - 1 = 3
          BY <3>1, <4>4
        <5> QED
          BY <3>5, <4>4, <5>1
      <4> QED
        BY <3>2, <4>1, <4>2, <4>3, <4>4
    <3> QED
      BY <3>1, <3>3, <3>4, <3>5, <3>6 DEF Chained, Distinct, Reaches
  <2>2. CASE ~failed
    BY <2>2 DEF Queued, Chained, Distinct, Follows, Unfinished, Begun, Reaches, Items
  <2> QED
    BY <2>1, <2>2
<1> HIDE DEF b
<1>3. /\ r \in Seq(Items) /\ Len(r) = Len(s) + Len(b) /\ DOMAIN s = 1..Len(s) /\ DOMAIN b = 1..Len(b)
      /\ DOMAIN r = 1..Len(r)
      /\ \A i \in DOMAIN r : IF i <= Len(s) THEN r[i] = s[i] ELSE r[i] = b[i - Len(s)]
  BY <1>1, <1>2
<1> HIDE DEF r
<1>4. /\ \A i \in DOMAIN s : i \in DOMAIN r /\ r[i] = s[i]
      /\ \A i \in DOMAIN b : Len(s) + i \in DOMAIN r /\ r[Len(s) + i] = b[i]
  <2>1. Len(s) \in Nat /\ Len(b) \in Nat
    BY <1>1, <1>2
  <2>2. ASSUME NEW i \in DOMAIN s
        PROVE  i \in DOMAIN r /\ r[i] = s[i]
    BY <1>3, <2>1
  <2>3. ASSUME NEW i \in DOMAIN b
        PROVE  Len(s) + i \in DOMAIN r /\ r[Len(s) + i] = b[i]
    <3>1. i \in 1..Len(b)
      BY <1>3
    <3>2. Len(s) + i \in 1..Len(r) /\ ~(Len(s) + i <= Len(s)) /\ (Len(s) + i) - Len(s) = i
      BY <1>3, <2>1, <3>1
    <3> QED
      BY <1>3, <3>2
  <2> QED
    BY <2>2, <2>3
<1>5. Chained(r)
  <2> SUFFICES ASSUME NEW i \in DOMAIN r
               PROVE  /\ Unfinished(r[i]) => i + 1 \in DOMAIN r /\ Follows(r[i], r[i + 1])
                      /\ i > 1 /\ Begun(r[i]) => Follows(r[i - 1], r[i])
    BY DEF Chained
  <2>1. CASE i <= Len(s)
    <3>1. i \in DOMAIN s /\ r[i] = s[i]
      BY <1>1, <1>3, <2>1
    <3>2. Unfinished(s[i]) => i + 1 \in DOMAIN s /\ Follows(s[i], s[i + 1])
      BY <1>1, <3>1 DEF Chained
    <3>3. i > 1 /\ Begun(s[i]) => i - 1 \in DOMAIN s /\ Follows(s[i - 1], s[i])
      BY <1>1, <3>1 DEF Chained
    <3> QED
      BY <1>4, <3>1, <3>2, <3>3
  <2>2. CASE i > Len(s)
    <3> DEFINE k == i - Len(s)
    <3>1. k \in DOMAIN b /\ r[i] = b[k] /\ i = Len(s) + k /\ k \in Nat /\ k > 0
      BY <1>1, <1>2, <1>3, <2>2
    <3> HIDE DEF k
    <3>2. Unfinished(b[k]) => k + 1 \in DOMAIN b /\ Follows(b[k], b[k + 1])
      BY <1>2, <3>1 DEF Chained
    <3>3. Begun(b[k]) => k > 1 /\ k - 1 \in DOMAIN b /\ Follows(b[k - 1], b[k])
      BY <1>2, <1>3, <3>1 DEF Chained
    <3>4. Len(s) + (k + 1) = i + 1 /\ Len(s) + (k - 1) = i - 1
      BY <1>1, <3>1
    <3> QED
      BY <1>4, <3>1, <3>2, <3>3, <3>4
  <2> QED
    BY <1>1, <1>3, <2>1, <2>2
<1>6. Distinct(r)
  <2> SUFFICES ASSUME NEW i \in DOMAIN r, NEW j \in DOMAIN r,
                      r[i] = r[j] \/ (r[i][1] = "defer" /\ r[i][2] = r[j][2])
               PROVE  i = j
    BY DEF Distinct
  <2>1. CASE i <= Len(s) /\ j <= Len(s)
    BY <1>1, <1>3, <2>1 DEF Distinct
  <2>2. CASE i > Len(s) /\ j > Len(s)
    <3>1. i - Len(s) \in DOMAIN b /\ j - Len(s) \in DOMAIN b /\ r[i] = b[i - Len(s)] /\ r[j] = b[j - Len(s)]
      BY <1>1, <1>2, <1>3, <2>2
    <3>2. i - Len(s) = j - Len(s)
      BY <1>2, <3>1 DEF Distinct
    <3> QED
      BY <1>1, <1>3, <3>2
  <2>3. r[i][2] = r[j][2]
    OBVIOUS
  <2>4. ASSUME NEW k \in DOMAIN r
        PROVE  (k <= Len(s)) <=> (r[k][2] # t)
    <3>1. k \in 1..Len(s) + Len(b) /\ Len(s) \in Nat /\ Len(b) \in Nat
      BY <1>1, <1>2, <1>3
    <3>2. CASE k <= Len(s)
      BY <1>3, <3>1, <3>2
    <3>3. CASE k > Len(s)
      <4>1. k - Len(s) \in DOMAIN b /\ r[k] = b[k - Len(s)] /\ ~(k <= Len(s))
        BY <1>3, <3>1, <3>3
      <4> QED
        BY <1>2, <4>1
    <3> QED
      BY <3>1, <3>2, <3>3
  <2> QED
    BY <1>1, <1>3, <2>1, <2>2, <2>3, <2>4
<1>7. /\ s # <<>> => r[1] = s[1]
      /\ s = <<>> => ~Begun(r[1])
      /\ \A i \in DOMAIN r : (i \in DOMAIN s /\ r[i] = s[i]) \/ r[i][2] = t
  BY <1>1, <1>2, <1>3
<1>8. Reaches(t, r) /\ \A u \in All : Reaches(u, s) => Reaches(u, r)
  BY <1>2, <1>4 DEF Reaches
<1> QED
  BY <1>3, <1>5, <1>6, <1>7, <1>8 DEF Orderly, Joins, r, b

(* What is left when the head runs is in order too. *)
LEMMA Rest ==
  ASSUME NEW s, Orderly(s), s # <<>>
  PROVE  /\ Orderly(Tail(s)) /\ s[1] \in Items
         /\ \A i \in DOMAIN Tail(s) : i + 1 \in DOMAIN s /\ Tail(s)[i] = s[i + 1] /\ s[i + 1] # s[1]
         /\ \A i \in DOMAIN s : i # 1 => i - 1 \in DOMAIN Tail(s) /\ Tail(s)[i - 1] = s[i]
         /\ s[1][1] = "defer" => \A i \in DOMAIN Tail(s) : Tail(s)[i][2] # s[1][2]
         /\ IF Unfinished(s[1]) THEN Tail(s) # <<>> /\ Follows(s[1], Tail(s)[1])
            ELSE Tail(s) = <<>> \/ ~Begun(Tail(s)[1])
<1> DEFINE r == Tail(s)
<1>1. s \in Seq(Items) /\ Chained(s) /\ Distinct(s) /\ 1 \in DOMAIN s /\ DOMAIN s = 1..Len(s)
  BY DEF Orderly
<1>2. /\ r \in Seq(Items) /\ Len(r) = Len(s) - 1 /\ DOMAIN r = 1..Len(r)
      /\ \A i \in DOMAIN r : r[i] = s[i + 1]
  BY <1>1
<1> HIDE DEF r
<1>3. \A i \in DOMAIN r : i + 1 \in DOMAIN s /\ r[i] = s[i + 1] /\ i + 1 # 1 /\ i \in Nat
  BY <1>1, <1>2
<1>4. \A i \in DOMAIN s : i # 1 => i - 1 \in DOMAIN r /\ r[i - 1] = s[i]
  BY <1>1, <1>2
<1>5. \A i \in DOMAIN r : s[i + 1] # s[1] /\ (s[1][1] = "defer" => r[i][2] # s[1][2])
  BY <1>1, <1>3 DEF Distinct
<1>6. \A i, j \in DOMAIN r : i + 1 = j + 1 => i = j
  BY <1>2
<1>7. Distinct(r)
  BY <1>1, <1>3, <1>6 DEF Distinct
<1>8. Chained(r)
  <2> SUFFICES ASSUME NEW i \in DOMAIN r
               PROVE  /\ Unfinished(r[i]) => i + 1 \in DOMAIN r /\ Follows(r[i], r[i + 1])
                      /\ i > 1 /\ Begun(r[i]) => Follows(r[i - 1], r[i])
    BY DEF Chained
  <2>1. i + 1 \in DOMAIN s /\ r[i] = s[i + 1] /\ i \in Nat /\ i > 0
    BY <1>2, <1>3
  <2>2. Unfinished(r[i]) => (i + 1) + 1 \in DOMAIN s /\ Follows(s[i + 1], s[(i + 1) + 1])
    BY <1>1, <2>1 DEF Chained
  <2>3. (i + 1) + 1 \in DOMAIN s => i + 1 \in DOMAIN r /\ r[i + 1] = s[(i + 1) + 1]
    BY <1>1, <1>2, <2>1
  <2>4. Begun(r[i]) => Follows(s[(i + 1) - 1], s[i + 1])
    BY <1>1, <2>1 DEF Chained
  <2>5. i > 1 => i - 1 \in DOMAIN r /\ r[i - 1] = s[(i + 1) - 1]
    BY <1>2, <2>1
  <2> QED
    BY <2>1, <2>2, <2>3, <2>4, <2>5
<1>9. IF Unfinished(s[1]) THEN r # <<>> /\ Follows(s[1], r[1]) ELSE r = <<>> \/ ~Begun(r[1])
  <2>1. CASE r = <<>>
    BY <1>1, <1>2, <2>1 DEF Chained
  <2>2. CASE r # <<>>
    <3>1. 1 \in DOMAIN r /\ 2 \in DOMAIN s /\ r[1] = s[2] /\ 1 + 1 = 2 /\ 2 - 1 = 1
      BY <1>1, <1>2, <2>2
    <3>2. Unfinished(s[1]) => Follows(s[1], s[2])
      BY <1>1, <3>1 DEF Chained
    <3>3. Begun(s[2]) => Follows(s[1], s[2])
      BY <1>1, <3>1 DEF Chained
    <3>4. Follows(s[1], s[2]) => Unfinished(s[1])
      BY DEF Follows, Unfinished
    <3> QED
      BY <2>2, <3>1, <3>2, <3>3, <3>4
  <2> QED
    BY <2>1, <2>2
<1>10. s[1] \in Items
  BY <1>1
<1> QED
  BY <1>2, <1>3, <1>4, <1>5, <1>7, <1>8, <1>9, <1>10 DEF Orderly, r

-----------------------------------------------------------------------------
(* The queue of a page that is loaded is well defined: one test after the    *)
(* other puts its phases behind those of the tests before it.                *)
LEMMA LoadingEnds ==
  ASSUME NEW failed
  PROVE  \E q : q = [n \in 0..Len(Order) |->
                       IF n = 0 THEN <<>> ELSE q[n - 1] \o Queued(Order[n], Order[n] \in failed)]
<1> DEFINE Step(q, n) == IF n = 0 THEN <<>> ELSE q[n - 1] \o Queued(Order[n], Order[n] \in failed)
           Exists(m) == \E q : q = [n \in 0..m |-> Step(q, n)]
           Bad == {m \in Nat : ~Exists(m)}
<1>1. SUFFICES Bad = {}
  <2>1. Len(Order) \in Nat
    BY OrderAssumption
  <2> QED
    BY <2>1
<1>2. SUFFICES ASSUME Bad # {} PROVE FALSE
  OBVIOUS
<1>3. PICK m \in Bad : \A k \in Bad : m <= k
  <2>1. Bad \subseteq Nat
    OBVIOUS
  <2> HIDE DEF Bad
  <2> QED
    BY <1>2, <2>1, LeastNumber
<1>4. m # 0
  <2>1. [n \in 0..0 |-> <<>>] = [n \in 0..0 |-> Step([i \in 0..0 |-> <<>>], n)]
    OBVIOUS
  <2>2. Exists(0)
    BY <2>1
  <2> QED
    BY <2>2
<1>5. m - 1 \in Nat /\ Exists(m - 1)
  <2> HIDE DEF Exists
  <2>1. m \in Nat /\ m - 1 \in Nat /\ ~(m <= m - 1)
    BY <1>4
  <2> QED
    BY <1>3, <2>1
<1>6. PICK q : q = [n \in 0..m - 1 |-> Step(q, n)]
  BY <1>5
<1>7. DEFINE r == [n \in 0..m |-> Step(q, n)]
<1>8. ASSUME NEW n \in 0..m
      PROVE  Step(r, n) = Step(q, n)
  <2>1. CASE n = 0
    BY <2>1
  <2>2. CASE n # 0
    <3>1. n - 1 \in 0..m /\ n - 1 \in 0..m - 1
      BY <1>5, <2>2
    <3>2. r[n - 1] = q[n - 1]
      <4> HIDE DEF Step
      <4> QED
        BY <1>6, <3>1
    <3> HIDE DEF r
    <3> QED
      BY <2>2, <3>2
  <2> QED
    BY <2>1, <2>2
<1>9. r = [n \in 0..m |-> Step(r, n)]
  <2> HIDE DEF Step
  <2> QED
    BY <1>8
<1> QED
  BY <1>9

(* What is in the queue after the first n tests were put there. *)
LEMMA LoadedSoFar ==
  ASSUME NEW failed, NEW q,
         q = [n \in 0..Len(Order) |->
                IF n = 0 THEN <<>> ELSE q[n - 1] \o Queued(Order[n], Order[n] \in failed)]
  PROVE  /\ Orderly(q[Len(Order)]) /\ (q[Len(Order)] = <<>> \/ ~Begun(q[Len(Order)][1]))
         /\ \A t \in Tests : Reaches(t, q[Len(Order)])
<1> DEFINE N == Len(Order)
           Upto(n) == /\ Orderly(q[n]) /\ (q[n] = <<>> \/ ~Begun(q[n][1]))
                      /\ \A i \in DOMAIN q[n] : \E k \in 1..n : q[n][i][2] = Order[k]
                      /\ \A k \in 1..n : Reaches(Order[k], q[n])
           Bad == {n \in 0..N : ~Upto(n)}
<1>1. N \in Nat /\ DOMAIN Order = 1..N /\ \A k \in 1..N : Order[k] \in All
  BY OrderAssumption DEF All, Tests
<1>2. SUFFICES Bad = {}
  <2>1. Upto(N)
    <3> HIDE DEF Upto
    <3> QED
      BY <1>1
  <2> QED
    BY <1>1, <2>1 DEF Tests
<1>3. SUFFICES ASSUME Bad # {} PROVE FALSE
  OBVIOUS
<1>4. Bad \subseteq Nat
  BY <1>1
<1>5. PICK n \in Bad : \A k \in Bad : n <= k
  BY <1>3, <1>4, LeastNumber
<1>6. n # 0
  <2>1. q[0] = <<>>
    BY <1>1
  <2>2. Upto(0)
    <3>1. <<>> \in Seq(Items) /\ DOMAIN <<>> = {}
      OBVIOUS
    <3>2. Orderly(<<>>)
      BY <3>1 DEF Orderly, Chained, Distinct
    <3>3. 1..0 = {}
      OBVIOUS
    <3> QED
      BY <2>1, <3>1, <3>2, <3>3
  <2> QED
    BY <1>5, <2>2
<1>7. n \in 1..N /\ n - 1 \in 0..N /\ Upto(n - 1)
  <2> HIDE DEF Upto
  <2>1. n \in 1..N /\ n - 1 \in 0..N /\ ~(n <= n - 1)
    BY <1>1, <1>5, <1>6
  <2> QED
    BY <1>5, <2>1
<1> DEFINE t == Order[n]
           s == q[n - 1]
<1>8. q[n] = s \o Queued(t, t \in failed)
  BY <1>1, <1>6, <1>7
<1>9. t \in All /\ (t \in failed) \in BOOLEAN
  BY <1>1, <1>7
<1>10. \A i \in DOMAIN s : s[i][2] # t
  <2> SUFFICES ASSUME NEW i \in DOMAIN s, s[i][2] = t PROVE FALSE
    OBVIOUS
  <2>1. PICK k \in 1..n - 1 : s[i][2] = Order[k]
    BY <1>7
  <2>2. k \in DOMAIN Order /\ n \in DOMAIN Order /\ k # n
    BY <1>1, <1>7
  <2> QED
    BY <2>1, <2>2, OrderAssumption
<1> HIDE DEF t, s
<1>11. Upto(n)
  <2>0. Joins(t, s, q[n])
    <3>1. Orderly(s)
      BY <1>7 DEF s
    <3>2. \A f \in BOOLEAN : Joins(t, s, s \o Queued(t, f))
      BY <1>9, <1>10, <3>1, Joined
    <3> QED
      BY <1>8, <1>9, <3>2
  <2>1. Orderly(q[n]) /\ (q[n] = <<>> \/ ~Begun(q[n][1]))
    BY <1>7, <2>0 DEF Joins, s
  <2>2. ASSUME NEW i \in DOMAIN q[n]
        PROVE  \E k \in 1..n : q[n][i][2] = Order[k]
    <3>1. (i \in DOMAIN s /\ q[n][i] = s[i]) \/ q[n][i][2] = t
      BY <2>0 DEF Joins
    <3>2. CASE i \in DOMAIN s /\ q[n][i] = s[i]
      <4>1. PICK k \in 1..n - 1 : s[i][2] = Order[k]
        BY <1>7, <3>2 DEF s
      <4>2. k \in 1..n
        BY <1>1, <1>7
      <4> QED
        BY <3>2, <4>1, <4>2
    <3>3. CASE q[n][i][2] = t
      BY <1>1, <1>7, <3>3 DEF t
    <3> QED
      BY <3>1, <3>2, <3>3
  <2>3. ASSUME NEW k \in 1..n
        PROVE  Reaches(Order[k], q[n])
    <3>1. CASE k = n
      BY <2>0, <3>1 DEF Joins, t
    <3>2. CASE k # n
      <4>1. k \in 1..n - 1 /\ k \in 1..N
        BY <1>1, <1>7, <3>2
      <4> QED
        BY <1>1, <1>7, <2>0, <4>1 DEF Joins, s
    <3> QED
      BY <3>1, <3>2
  <2> QED
    BY <2>1, <2>2, <2>3
<1> QED
  BY <1>5, <1>11

(* A page that is loaded. *)
LEMMA InitGood ==
  ASSUME QueueInit
  PROVE  QueueInv
<1>1. PICK failed \in SUBSET Tests :
         LET q[n \in 0..Len(Order)] ==
               IF n = 0 THEN <<>> ELSE q[n - 1] \o Queued(Order[n], Order[n] \in failed)
         IN  queue = q[Len(Order)]
  BY DEF QueueInit
<1> DEFINE q[n \in 0..Len(Order)] == IF n = 0 THEN <<>> ELSE q[n - 1] \o Queued(Order[n], Order[n] \in failed)
<1>2. q = [n \in 0..Len(Order) |-> IF n = 0 THEN <<>> ELSE q[n - 1] \o Queued(Order[n], Order[n] \in failed)]
  BY LoadingEnds
<1>3. queue = q[Len(Order)]
  BY <1>1
<1> HIDE DEF q
<1>4. Orderly(queue) /\ (queue = <<>> \/ ~Begun(queue[1])) /\ \A t \in Tests : Reaches(t, queue)
  BY <1>2, <1>3, LoadedSoFar
<1>5. QueueOK
  <2>1. ran = <<>> /\ ran \in Seq(Items) /\ Len(ran) = 0 /\ DOMAIN ran = {} /\ 0 % 4 = 0 /\ dones = 0
    BY DEF QueueInit
  <2> QED
    BY <1>4, <2>1 DEF QueueOK, GoesOn, NotAgain, AllComeUp, OneTestAtATime
<1>6. QueueTypes
  <2>1. PICK p \in [Tests -> Plans] :
          plan = [t \in All |-> IF t = Error THEN [stops |-> 0, starts |-> 0, pauses |-> FALSE, dies |-> FALSE]
                                ELSE p[t]]
    BY DEF QueueInit
  <2>2. plan \in [All -> [stops : Nat, starts : Nat, pauses : BOOLEAN, dies : BOOLEAN]]
    BY <2>1, PlansAssumption DEF All
  <2>3. QueueTypeOK
    BY DEF QueueInit, QueueTypeOK
  <2>4. CallsLeft
    BY <2>2 DEF QueueInit, CallsLeft
  <2> QED
    BY <2>2, <2>3, <2>4 DEF QueueTypes
<1>7. HoldOK /\ Waiting /\ NotCutShort /\ OneTicket
  BY DEF QueueInit, HoldOK, Waiting, NotCutShort, OneTicket, Looping, All
<1> QED
  BY <1>5, <1>6, <1>7 DEF QueueInv, WaitingInv

-----------------------------------------------------------------------------
(* Counting in fours. *)
LEMMA Fours ==
  ASSUME NEW n \in Nat
  PROVE  /\ n % 4 \in 0..3 /\ n % 4 <= n
         /\ (n + 1) % 4 = IF n % 4 = 3 THEN 0 ELSE (n % 4) + 1
         /\ n % 4 # 0 => n > 0 /\ (n - 1) % 4 = (n % 4) - 1
<1>1. n % 4 \in 0..3 /\ n % 4 <= n
  OBVIOUS
<1>2. CASE n % 4 = 3
  <2>1. (n + 1) % 4 = 0
    BY <1>2
  <2>2. n > 0 /\ (n - 1) % 4 = 2
    BY <1>2
  <2> QED
    BY <1>1, <1>2, <2>1, <2>2
<1>3. CASE n % 4 # 3
  <2>1. (n + 1) % 4 = (n % 4) + 1
    BY <1>3
  <2>2. n % 4 # 0 => n > 0 /\ (n - 1) % 4 = (n % 4) - 1
    OBVIOUS
  <2> QED
    BY <1>1, <1>3, <2>1, <2>2
<1> QED
  BY <1>2, <1>3

(* What the round of a phase leaves of the queue's order. *)
LEMMA PhaseGood ==
  ASSUME QueueOK, QueueTypes, NEW phase \in {"setup", "run", "teardown", "finish"}, NEW t \in All,
         Round(phase, t), queue' = Tail(queue), ran' = Append(ran, <<phase, t>>)
  PROVE  QueueOK'
<1> DEFINE n == Len(ran)
<1>1. /\ queue # <<>> /\ queue[1] = <<phase, t>> /\ queue[1][1] = phase /\ queue[1][2] = t
      /\ dones' = dones /\ Orderly(queue) /\ ran \in Seq(Items)
      /\ n \in Nat /\ DOMAIN ran = 1..n
  BY DEF Round, QueueOK, Orderly
<1>2. /\ Orderly(queue') /\ queue[1] \in Items
      /\ \A i \in DOMAIN queue' : i + 1 \in DOMAIN queue /\ queue'[i] = queue[i + 1] /\ queue[i + 1] # queue[1]
      /\ \A i \in DOMAIN queue : i # 1 => i - 1 \in DOMAIN queue' /\ queue'[i - 1] = queue[i]
      /\ IF Unfinished(queue[1]) THEN queue' # <<>> /\ Follows(queue[1], queue'[1])
         ELSE queue' = <<>> \/ ~Begun(queue'[1])
  BY <1>1, Rest
<1>3. /\ ran' \in Seq(Items) /\ Len(ran') = n + 1 /\ DOMAIN ran' = 1..n + 1 /\ ran'[n + 1] = queue[1]
      /\ \A i \in 1..n : ran'[i] = ran[i]
  BY <1>1, <1>2
<1>4. \A i \in DOMAIN ran' : (i \in DOMAIN ran /\ ran'[i] = ran[i]) \/ (i = n + 1 /\ ran'[i] = queue[1])
  BY <1>1, <1>3
<1>5. \A i \in DOMAIN ran : i \in DOMAIN ran' /\ ran'[i] = ran[i]
  BY <1>1, <1>3
<1> HIDE DEF n
<1>6. /\ n % 4 \in 0..3 /\ (n + 1) % 4 = IF n % 4 = 3 THEN 0 ELSE (n % 4) + 1
      /\ ((n + 1) - 1) % 4 = n % 4
  <2>1. (n + 1) - 1 = n
    BY <1>1
  <2> QED
    BY <1>1, <2>1, Fours
(* The phase that runs is the one that is due, and of the same test. *)
<1>7. /\ phase = Phases[(n % 4) + 1]
      /\ ran'[n + 1] = <<phase, ran'[(n + 1) - (n % 4)][2]>>
  <2>1. CASE n % 4 = 0
    <3>1. ~Begun(queue[1])
      BY <1>1, <2>1 DEF QueueOK, GoesOn, n
    <3>2. phase = "setup"
      BY <1>1, <3>1 DEF Begun
    <3>3. (n + 1) - (n % 4) = n + 1
      BY <1>1, <2>1
    <3> QED
      BY <1>1, <1>3, <2>1, <3>2, <3>3 DEF Phases
  <2>2. CASE n % 4 # 0
    <3> DEFINE k == n % 4
    <3> HIDE DEF k
    <3>1. n # 0 /\ n \in DOMAIN ran /\ k \in 1..3 /\ k <= n /\ (n - 1) % 4 = k - 1
      <4>1. k \in 0..3 /\ k <= n /\ n > 0 /\ (n - 1) % 4 = k - 1
        BY <1>1, <2>2, Fours DEF k
      <4> QED
        BY <1>1, <2>2, <4>1 DEF k
    <3>2. Follows(ran[n], queue[1])
      BY <2>2 DEF QueueOK, GoesOn, n
    <3>3. ran[n] = <<Phases[((n - 1) % 4) + 1], ran[n - ((n - 1) % 4)][2]>>
      BY <3>1 DEF QueueOK, OneTestAtATime
    <3>4. ran[n] = <<Phases[k], ran[n - (k - 1)][2]>>
      <4>1. (k - 1) + 1 = k
        BY <3>1
      <4> QED
        BY <3>1, <3>3, <4>1
    <3>5. n - (k - 1) = (n + 1) - k /\ (n + 1) - k \in 1..n
      <4>1. n \in Nat /\ k \in 1..3 /\ k <= n
        BY <1>1, <3>1
      <4> HIDE DEF n, k
      <4> QED
        BY <4>1
    <3>6. ran[n][1] = Phases[k] /\ ran[n][2] = ran'[(n + 1) - k][2]
      <4>1. ran'[(n + 1) - k] = ran[n - (k - 1)]
        BY <1>3, <3>5
      <4>2. ran[n][1] = Phases[k] /\ ran[n][2] = ran[n - (k - 1)][2]
        <5> DEFINE a == Phases[k]
                   b == ran[n - (k - 1)][2]
        <5>1. ran[n] = <<a, b>>
          BY <3>4
        <5> HIDE DEF a, b
        <5>2. ran[n][1] = a /\ ran[n][2] = b
          BY <5>1
        <5> QED
          BY <5>2 DEF a, b
      <4> QED
        BY <4>1, <4>2
    <3>7. phase = Phases[k + 1]
      BY <1>1, <3>1, <3>2, <3>6 DEF Follows, Phases
    <3>8. t = ran'[(n + 1) - k][2]
      BY <1>1, <3>2, <3>6 DEF Follows
    <3> QED
      BY <1>1, <1>3, <3>7, <3>8 DEF k
  <2> QED
    BY <2>1, <2>2
<1>8. OneTestAtATime'
  <2> SUFFICES ASSUME NEW i \in DOMAIN ran'
               PROVE  ran'[i] = <<Phases[((i - 1) % 4) + 1], ran'[i - ((i - 1) % 4)][2]>>
    BY DEF OneTestAtATime
  <2>1. CASE i = n + 1
    BY <1>1, <1>3, <1>6, <1>7, <2>1
  <2>2. CASE i # n + 1
    <3>1. i \in 1..n /\ i - ((i - 1) % 4) \in 1..n
      <4>1. i \in 1..n /\ n \in Nat
        BY <1>1, <1>3, <2>2
      <4> HIDE DEF n
      <4>2. i - 1 \in Nat
        BY <4>1
      <4>3. (i - 1) % 4 \in 0..3 /\ (i - 1) % 4 <= i - 1
        BY <4>2, Fours
      <4> DEFINE k == (i - 1) % 4
      <4>4. k \in 0..3 /\ k <= i - 1
        BY <4>3
      <4> HIDE DEF k
      <4>5. i - k \in 1..n
        BY <4>1, <4>4
      <4> QED
        BY <4>1, <4>5 DEF k
    <3>2. ran[i] = <<Phases[((i - 1) % 4) + 1], ran[i - ((i - 1) % 4)][2]>>
      BY <1>1, <3>1 DEF QueueOK, OneTestAtATime
    <3> QED
      BY <1>3, <3>1, <3>2
  <2> QED
    BY <2>1, <2>2
<1>9. GoesOn'
  <2>1. (Len(ran') % 4 = 0) <=> ~Unfinished(queue[1])
    BY <1>1, <1>3, <1>6, <1>7 DEF Phases, Unfinished
  <2> QED
    BY <1>2, <1>3, <2>1 DEF GoesOn
<1>10. NotAgain'
  <2> SUFFICES ASSUME NEW i \in DOMAIN queue', NEW j \in DOMAIN ran'
               PROVE  queue'[i] # ran'[j] /\ (queue'[i][1] = "defer" => queue'[i][2] # ran'[j][2])
    BY DEF NotAgain
  <2>1. i + 1 \in DOMAIN queue /\ queue'[i] = queue[i + 1] /\ queue[i + 1] # queue[1] /\ i + 1 # 1 /\ 1 \in DOMAIN queue
    <3>1. queue \in Seq(Items) /\ DOMAIN queue = 1..Len(queue) /\ Len(queue) \in Nat /\ 1 \in DOMAIN queue
      BY <1>1 DEF Orderly
    <3>2. queue' = Tail(queue)
      BY <1>1, <1>2
    <3>3. i \in 1..Len(queue) - 1 /\ queue'[i] = queue[i + 1]
      BY <3>1, <3>2
    <3>4. i + 1 \in DOMAIN queue /\ i + 1 # 1
      BY <3>1, <3>3
    <3>5. queue[i + 1] # queue[1]
      BY <1>2
    <3> QED
      BY <3>1, <3>3, <3>4, <3>5
  <2>2. CASE j \in DOMAIN ran /\ ran'[j] = ran[j]
    BY <2>1, <2>2 DEF QueueOK, NotAgain
  <2>3. CASE ran'[j] = queue[1]
    BY <1>1, <2>1, <2>3 DEF Orderly, Distinct
  <2> QED
    BY <1>4, <2>2, <2>3
<1>11. \A u : Finished(u) => Finished(u)'
  BY <1>5 DEF Finished
<1>12. ASSUME NEW u \in Tests
       PROVE  Finished(u)' \/ Reaches(u, queue')
  <2>1. CASE Finished(u)
    BY <1>11, <2>1
  <2>2. CASE Reaches(u, queue)
    <3>1. PICK i \in DOMAIN queue : queue[i] = <<"defer", u>> \/ queue[i] = <<"finish", u>>
      BY <2>2 DEF Reaches
    <3>2. CASE i = 1
      <4>1. ran'[n + 1] = <<"finish", u>> /\ n + 1 \in DOMAIN ran'
        BY <1>1, <1>3, <3>1, <3>2
      <4> QED
        BY <4>1 DEF Finished
    <3>3. CASE i # 1
      <4>1. i - 1 \in DOMAIN queue' /\ queue'[i - 1] = queue[i]
        BY <1>2, <3>3
      <4> QED
        BY <3>1, <4>1 DEF Reaches
    <3> QED
      BY <3>2, <3>3
  <2> QED
    BY <2>1, <2>2 DEF QueueOK, AllComeUp
<1> QED
  BY <1>1, <1>2, <1>3, <1>8, <1>9, <1>10, <1>11, <1>12 DEF QueueOK, AllComeUp

(* The turn of a test that was put off: its phases go behind the others. *)
LEMMA DeferGood ==
  ASSUME QueueOK, NEW t \in All, Defer(t)
  PROVE  QueueOK'
<1>1. /\ queue # <<>> /\ queue[1] = <<"defer", t>> /\ queue[1][1] = "defer" /\ queue[1][2] = t
      /\ queue' = Tail(queue) \o Queued(t, TRUE) /\ dones' = dones /\ ran' = ran
      /\ Orderly(queue) /\ ran \in Seq(Items)
  BY DEF Defer, Round, QueueOK, Orderly, Queued
<1> DEFINE rest == Tail(queue)
<1>2. /\ Orderly(rest) /\ queue[1] \in Items
      /\ \A i \in DOMAIN rest : i + 1 \in DOMAIN queue /\ rest[i] = queue[i + 1] /\ queue[i + 1] # queue[1]
      /\ \A i \in DOMAIN queue : i # 1 => i - 1 \in DOMAIN rest /\ rest[i - 1] = queue[i]
      /\ \A i \in DOMAIN rest : rest[i][2] # t
      /\ rest = <<>> \/ ~Begun(rest[1])
  <2>1. ~Unfinished(queue[1])
    BY <1>1 DEF Unfinished
  <2> QED
    BY <1>1, <2>1, Rest
<1> HIDE DEF rest
<1>3. Joins(t, rest, queue')
  BY <1>1, <1>2, Joined DEF rest
<1>4. 1 \in DOMAIN queue /\ \A j \in DOMAIN ran : t # ran[j][2]
  BY <1>1 DEF QueueOK, NotAgain, Orderly
<1>5. GoesOn'
  <2>1. Len(ran) % 4 = 0
    BY <1>1 DEF QueueOK, GoesOn, Follows
  <2>2. ~Begun(queue'[1])
    BY <1>2, <1>3 DEF Joins
  <2> QED
    BY <1>1, <2>1, <2>2 DEF GoesOn
<1>6. NotAgain'
  <2> SUFFICES ASSUME NEW i \in DOMAIN queue', NEW j \in DOMAIN ran
               PROVE  queue'[i] # ran[j] /\ (queue'[i][1] = "defer" => queue'[i][2] # ran[j][2])
    BY <1>1 DEF NotAgain
  <2>1. CASE i \in DOMAIN rest /\ queue'[i] = rest[i]
    <3>1. i + 1 \in DOMAIN queue /\ queue'[i] = queue[i + 1]
      BY <1>2, <2>1
    <3> QED
      BY <3>1 DEF QueueOK, NotAgain
  <2>2. CASE queue'[i][2] = t
    BY <1>4, <2>2
  <2> QED
    BY <1>3, <2>1, <2>2 DEF Joins
<1>7. ASSUME NEW u \in Tests
      PROVE  Finished(u)' \/ Reaches(u, queue')
  <2>1. CASE Finished(u)
    BY <1>1, <2>1 DEF Finished
  <2>2. CASE Reaches(u, queue)
    <3>1. PICK i \in DOMAIN queue : queue[i] = <<"defer", u>> \/ queue[i] = <<"finish", u>>
      BY <2>2 DEF Reaches
    <3>2. CASE i = 1
      <4>1. u = t
        BY <1>1, <3>1, <3>2
      <4> QED
        BY <1>3, <4>1 DEF Joins
    <3>3. CASE i # 1
      <4>1. i - 1 \in DOMAIN rest /\ rest[i - 1] = queue[i]
        BY <1>2, <3>3
      <4>2. Reaches(u, rest) /\ u \in All
        BY <3>1, <4>1 DEF Reaches, All
      <4> QED
        BY <1>3, <4>2 DEF Joins
    <3> QED
      BY <3>2, <3>3
  <2> QED
    BY <2>1, <2>2 DEF QueueOK, AllComeUp
<1>8. OneTestAtATime' /\ (dones' > 0 => \A u \in Tests : Finished(u)')
  BY <1>1 DEF QueueOK, OneTestAtATime, Finished
<1> QED
  BY <1>1, <1>3, <1>5, <1>6, <1>7, <1>8 DEF QueueOK, AllComeUp, Joins

(* A global error becomes a test, or runs at once behind all that ran. *)
LEMMA ErrorGood ==
  ASSUME QueueOK, QueueTypes, GlobalError
  PROVE  QueueOK'
<1>1. /\ Orderly(queue) /\ ran \in Seq(Items) /\ Error \in All /\ dones \in Nat
      /\ \A i \in DOMAIN ran : ran[i][2] # Error
      /\ \A i \in DOMAIN queue : queue[i][2] # Error
  BY DEF GlobalError, QueueOK, QueueTypes, QueueTypeOK, All
<1>2. CASE dones = 0 \/ blocking
  <2>1. PICK bad \in BOOLEAN : queue' = queue \o Queued(Error, bad) /\ ran' = ran /\ dones' = dones
    BY <1>2 DEF GlobalError
  <2>2. Joins(Error, queue, queue')
    BY <1>1, <2>1, Joined
  <2>3. GoesOn'
    <3>1. Joins(Error, queue, queue') => (IF queue = <<>> THEN ~Begun(queue'[1]) ELSE queue'[1] = queue[1]) /\ queue' # <<>>
      BY DEF Joins, Reaches
    <3> QED
      BY <2>1, <2>2, <3>1 DEF QueueOK, GoesOn
  <2>4. NotAgain'
    <3> SUFFICES ASSUME NEW i \in DOMAIN queue', NEW j \in DOMAIN ran
                 PROVE  queue'[i] # ran[j] /\ (queue'[i][1] = "defer" => queue'[i][2] # ran[j][2])
      BY <2>1 DEF NotAgain
    <3>1. CASE i \in DOMAIN queue /\ queue'[i] = queue[i]
      BY <3>1 DEF QueueOK, NotAgain
    <3>2. CASE queue'[i][2] = Error
      BY <1>1, <3>2
    <3> QED
      BY <2>2, <3>1, <3>2 DEF Joins
  <2>5. ASSUME NEW u \in Tests
        PROVE  Finished(u)' \/ Reaches(u, queue')
    <3>1. Finished(u) => Finished(u)'
      BY <2>1 DEF Finished
    <3>2. u \in All /\ \A v \in All : Reaches(v, queue) => Reaches(v, queue')
      BY <2>2 DEF Joins, All
    <3>3. Finished(u) \/ Reaches(u, queue)
      BY DEF QueueOK, AllComeUp
    <3> QED
      BY <3>1, <3>2, <3>3
  <2>6. OneTestAtATime' /\ (dones' > 0 => \A u \in Tests : Finished(u)')
    BY <2>1 DEF QueueOK, OneTestAtATime, Finished
  <2> QED
    BY <1>1, <2>1, <2>2, <2>3, <2>4, <2>5, <2>6 DEF QueueOK, AllComeUp, Joins
<1>3. CASE ~(dones = 0 \/ blocking)
  <2> DEFINE n == Len(ran)
             b == PhasesOf(Error)
  <2>1. queue = <<>> /\ queue' = <<>> /\ ran' = ran \o b /\ dones > 0
    BY <1>1, <1>3 DEF GlobalError
  <2>2. n \in Nat /\ n % 4 = 0
    BY <1>1, <2>1 DEF QueueOK, GoesOn
  <2>3. b \in Seq(Items) /\ Len(b) = 4
    BY <1>1, PhasesOfTest
  <2> HIDE DEF b
  <2>4. /\ ran' \in Seq(Items) /\ Len(ran') = n + 4 /\ DOMAIN ran = 1..n /\ DOMAIN ran' = 1..n + 4
        /\ \A i \in DOMAIN ran' : ran'[i] = IF i <= n THEN ran[i] ELSE b[i - n]
    <3>1. n \in Nat /\ DOMAIN ran = 1..n
      BY <1>1
    <3>2. /\ ran \o b \in Seq(Items) /\ Len(ran \o b) = n + 4 /\ DOMAIN (ran \o b) = 1..n + 4
          /\ \A i \in DOMAIN (ran \o b) : (ran \o b)[i] = IF i <= n THEN ran[i] ELSE b[i - n]
      <4>1. ran \in Seq(Items) /\ b \in Seq(Items)
        BY <1>1, <2>3
      <4>2. /\ ran \o b \in Seq(Items) /\ Len(ran \o b) = n + Len(b) /\ DOMAIN (ran \o b) = 1..n + Len(b)
            /\ \A i \in DOMAIN (ran \o b) : (ran \o b)[i] = IF i <= n THEN ran[i] ELSE b[i - n]
        BY <4>1, Attached
      <4> QED
        BY <2>3, <4>2
    <3> QED
      BY <2>1, <3>1, <3>2
  <2> HIDE DEF n
  <2>5. /\ \A i \in 1..n : ran'[i] = ran[i]
        /\ \A i \in 1..4 : ran'[n + i] = b[i]
    <3>1. ASSUME NEW i \in 1..n
          PROVE  ran'[i] = ran[i]
      BY <2>2, <2>4
    <3>2. ASSUME NEW i \in 1..4
          PROVE  ran'[n + i] = b[i]
      <4>1. n + i \in DOMAIN ran' /\ ~(n + i <= n) /\ (n + i) - n = i
        BY <2>2, <2>4
      <4> QED
        BY <2>4, <4>1
    <3> QED
      BY <3>1, <3>2
  <2>6. /\ ran'[n + 1] = <<"setup", Error>> /\ ran'[n + 2] = <<"run", Error>>
        /\ ran'[n + 3] = <<"teardown", Error>> /\ ran'[n + 4] = <<"finish", Error>>
    BY <1>1, <2>5, PhasesOfTest DEF b
  <2>7. (n + 1) % 4 = 1 /\ (n + 2) % 4 = 2 /\ (n + 3) % 4 = 3 /\ (n + 4) % 4 = 0
    BY <2>2
  <2>8. OneTestAtATime'
    <3> SUFFICES ASSUME NEW i \in DOMAIN ran'
                 PROVE  ran'[i] = <<Phases[((i - 1) % 4) + 1], ran'[i - ((i - 1) % 4)][2]>>
      BY DEF OneTestAtATime
    <3>1. CASE i \in 1..n
      <4>1. i - 1 \in Nat
        BY <3>1
      <4>2. i - ((i - 1) % 4) \in 1..n
        BY <2>2, <3>1, <4>1, Fours
      <4>3. ran[i] = <<Phases[((i - 1) % 4) + 1], ran[i - ((i - 1) % 4)][2]>>
        BY <2>4, <3>1 DEF QueueOK, OneTestAtATime
      <4> QED
        BY <2>5, <3>1, <4>2, <4>3
    <3>2. CASE i = n + 1
      <4>1. (i - 1) % 4 = 0 /\ i - 0 = i
        BY <2>2, <3>2
      <4> QED
        BY <2>6, <3>2, <4>1 DEF Phases
    <3>3. CASE i = n + 2
      <4>1. i - 1 = n + 1 /\ i - 1 - 0 = n + 1
        BY <2>2, <3>3
      <4> QED
        BY <2>6, <2>7, <3>3, <4>1 DEF Phases
    <3>4. CASE i = n + 3
      <4>1. i - 1 = n + 2 /\ i - 2 = n + 1
        BY <2>2, <3>4
      <4> QED
        BY <2>6, <2>7, <3>4, <4>1 DEF Phases
    <3>5. CASE i = n + 4
      <4>1. i - 1 = n + 3 /\ i - 3 = n + 1
        BY <2>2, <3>5
      <4> QED
        BY <2>6, <2>7, <3>5, <4>1 DEF Phases
    <3>6. i \in 1..n \/ i = n + 1 \/ i = n + 2 \/ i = n + 3 \/ i = n + 4
      <4>1. i \in 1..n + 4
        BY <2>4
      <4> QED
        BY <2>2, <4>1
    <3> QED
      BY <3>1, <3>2, <3>3, <3>4, <3>5, <3>6
  <2>9. Orderly(<<>>)
    BY <1>1, <2>1
  <2>10. ASSUME NEW u \in Tests
         PROVE  Finished(u)'
    <3>1. PICK i \in DOMAIN ran : ran[i] = <<"finish", u>>
      BY <2>1 DEF QueueOK, Finished
    <3>2. i \in DOMAIN ran' /\ ran'[i] = ran[i]
      BY <2>2, <2>4, <2>5
    <3> QED
      BY <3>1, <3>2 DEF Finished
  <2>11. GoesOn' /\ NotAgain'
    BY <2>1, <2>4, <2>7 DEF GoesOn, NotAgain
  <2> QED
    BY <2>1, <2>4, <2>8, <2>9, <2>10, <2>11 DEF QueueOK, AllComeUp
<1> QED
  BY <1>2, <1>3

(* done is called when nothing is left, so that all tests are finished. *)
LEMMA EndGood ==
  ASSUME QueueOK, QueueTypes, EndLoop
  PROVE  QueueOK'
<1>1. UNCHANGED <<queue, ran>> /\ dones \in Nat /\ (blocking => dones' = dones) /\ (~blocking => queue = <<>>)
  BY DEF EndLoop, QueueTypes, QueueTypeOK
<1>2. Orderly(queue)' /\ ran' \in Seq(Items) /\ OneTestAtATime' /\ GoesOn' /\ NotAgain' /\ AllComeUp'
  BY <1>1 DEF QueueOK, OneTestAtATime, GoesOn, NotAgain, AllComeUp, Finished
<1>3. ASSUME ~blocking
      PROVE  \A t \in Tests : Finished(t)
  <2>1. \A t \in Tests : ~Reaches(t, queue)
    BY <1>1, <1>3 DEF Reaches
  <2> QED
    BY <2>1 DEF QueueOK, AllComeUp
<1>4. dones' > 0 => \A t \in Tests : Finished(t)'
  BY <1>1, <1>3 DEF QueueOK, Finished
<1> QED
  BY <1>2, <1>4 DEF QueueOK

(* What touches neither the queue nor what ran. *)
LEMMA QueueRests ==
  ASSUME QueueOK, UNCHANGED <<queue, ran, dones>>
  PROVE  QueueOK'
  BY DEF QueueOK, OneTestAtATime, GoesOn, NotAgain, AllComeUp, Finished

-----------------------------------------------------------------------------
(* What start and stop do to the counters. *)
LEMMA Starts ==
  ASSUME NEW s \in Nat, NEW n \in Nat, starting \in Nat, doubled \in BOOLEAN, Start(s, n)
  PROVE  /\ semaphore' \in Nat /\ semaphore' = n + (IF s > 1 THEN s - 1 ELSE 0)
         /\ starting' \in Nat /\ doubled' \in BOOLEAN /\ (doubled => doubled')
         /\ starting <= 1 => doubled' \/ starting' <= 1
<1> DEFINE twice == s <= 1 /\ starting > 0
<1>1. doubled' = (doubled \/ twice)
  BY DEF Start
<1>2. starting' \in Nat /\ (starting <= 1 /\ ~twice => starting' <= 1)
  BY DEF Start
<1>3. semaphore' \in Nat /\ semaphore' = n + (IF s > 1 THEN s - 1 ELSE 0)
  BY DEF Start
<1> HIDE DEF twice
<1>4. doubled' \in BOOLEAN /\ (doubled => doubled') /\ (twice => doubled')
  BY <1>1, Zenon
<1> QED
  BY <1>2, <1>3, <1>4

LEMMA Stops ==
  ASSUME NEW n \in Nat, blocking \in BOOLEAN, timeout \in BOOLEAN, limited \in BOOLEAN, Stop(n)
  PROVE  /\ blocking' \in BOOLEAN /\ timeout' \in BOOLEAN /\ (blocking => blocking') /\ (n > 0 => blocking')
         /\ timeout' => blocking' \/ timeout
         /\ n = 0 => (blocking' => blocking) /\ timeout' = timeout
<1> DEFINE some == n > 0
<1>1. blocking' = (blocking \/ some) /\ timeout' = (IF some /\ limited THEN TRUE ELSE timeout)
  BY DEF Stop
<1>2. n = 0 => ~some
  OBVIOUS
<1>3. n > 0 => some
  OBVIOUS
<1> HIDE DEF some
<1>4. blocking' \in BOOLEAN /\ (blocking => blocking') /\ (some => blocking') /\ (~some => (blocking' => blocking))
  BY <1>1, Zenon
<1>5. timeout' \in BOOLEAN /\ (timeout' => some \/ timeout) /\ (~some => timeout' = timeout)
  BY <1>1
<1> QED
  BY <1>2, <1>3, <1>4, <1>5

(* Every step keeps the types. *)
LEMMA TypesKept ==
  ASSUME QueueTypes, [QueueNext]_queueVars
  PROVE  QueueTypes'
<1>0. /\ plan \in [All -> [stops : Nat, starts : Nat, pauses : BOOLEAN, dies : BOOLEAN]]
      /\ QueueTypeOK /\ CallsLeft
  BY DEF QueueTypes
<1>1. ASSUME UNCHANGED <<plan, calls>>, QueueTypeOK'
      PROVE  QueueTypes'
  BY <1>0, <1>1 DEF QueueTypes, CallsLeft
<1>2. CASE StartTimer
  <2>1. QueueTypeOK'
    <3>1. starting' \in Nat
      BY <1>0, <1>2 DEF StartTimer, QueueTypeOK
    <3>2. blocking' \in BOOLEAN /\ timeout' \in BOOLEAN /\ looping' \in {"no", "fresh", "going"}
      BY <1>0, <1>2 DEF StartTimer, QueueTypeOK
    <3> QED
      BY <1>0, <1>2, <3>1, <3>2 DEF StartTimer, setting, QueueTypeOK
  <2> QED
    BY <1>1, <1>2, <2>1 DEF StartTimer, setting
<1>3. CASE NextTimer
  <2>1. QueueTypeOK'
    BY <1>0, <1>3 DEF NextTimer, setting, hold, QueueTypeOK
  <2> QED
    BY <1>1, <1>3, <2>1 DEF NextTimer, setting
<1>4. CASE TimeoutFires
  <2>1. semaphore' \in Nat /\ starting' \in Nat /\ doubled' \in BOOLEAN
    <3>1. CASE current = NoTest
      BY <1>0, <1>4, <3>1 DEF TimeoutFires, QueueTypeOK
    <3>2. CASE current # NoTest
      <4>1. Start(1, 0)
        BY <1>4, <3>2, Zenon DEF TimeoutFires, TimedOutSemaphore
      <4> QED
        BY <1>0, <4>1, Starts DEF QueueTypeOK
    <3> QED
      BY <3>1, <3>2
  <2>2. gaveUp' \subseteq All
    BY <1>0, <1>4 DEF TimeoutFires, QueueTypeOK
  <2>3. QueueTypeOK'
    BY <1>0, <1>4, <2>1, <2>2 DEF TimeoutFires, setting, QueueTypeOK
  <2> QED
    BY <1>1, <1>4, <2>3 DEF TimeoutFires, setting
<1>5. ASSUME NEW t \in All, Callback(t)
      PROVE  QueueTypes'
  <2>1. /\ calls' = [calls EXCEPT ![t] = calls[t] - 1] /\ calls[t] > 0 /\ calls \in [All -> Nat]
        /\ UNCHANGED <<plan, limited, looping, slices, current, dones, gaveUp>>
    BY <1>0, <1>5 DEF Callback, setting, QueueTypeOK
  <2>2. calls' \in [All -> Nat] /\ \A u \in All : calls'[u] <= calls[u]
    BY <2>1
  <2>3. disturbed' \in BOOLEAN
    BY <1>5, Zenon DEF Callback
  <2>4. semaphore' \in Nat /\ starting' \in Nat /\ doubled' \in BOOLEAN /\ blocking' \in BOOLEAN /\ timeout' \in BOOLEAN
    <3>1. CASE plan[t].pauses /\ calls[t] > plan[t].starts
      <4>1. Start(semaphore, 1) /\ Stop(1)
        BY <1>5, <3>1 DEF Callback
      <4> QED
        BY <1>0, <4>1, Starts, Stops DEF QueueTypeOK
    <3>2. CASE ~(plan[t].pauses /\ calls[t] > plan[t].starts)
      <4>1. Start(semaphore, 0) /\ UNCHANGED <<blocking, timeout>>
        BY <1>5, <3>2, Zenon DEF Callback
      <4> QED
        BY <1>0, <4>1, Starts DEF QueueTypeOK
    <3> QED
      BY <3>1, <3>2
  <2>5. ASSUME NEW u \in All
        PROVE  calls'[u] <= plan'[u].starts + IF plan'[u].pauses THEN 1 ELSE 0
    <3>1. calls[u] <= plan[u].starts + (IF plan[u].pauses THEN 1 ELSE 0) /\ plan[u].starts \in Nat
      BY <1>0 DEF CallsLeft
    <3>2. plan' = plan /\ calls'[u] \in Nat /\ calls[u] \in Nat /\ calls'[u] <= calls[u]
      BY <2>1, <2>2
    <3> QED
      BY <3>1, <3>2
  <2>6. QueueTypeOK'
    BY <1>0, <2>1, <2>2, <2>3, <2>4 DEF QueueTypeOK
  <2> QED
    BY <1>0, <2>1, <2>5, <2>6 DEF QueueTypes, CallsLeft
<1>6. ASSUME NEW t \in All, Defer(t)
      PROVE  QueueTypes'
  <2>1. QueueTypeOK'
    BY <1>0, <1>6 DEF Defer, Round, setting, hold, QueueTypeOK
  <2> QED
    BY <1>1, <1>6, <2>1 DEF Defer, Round, setting
<1>7. ASSUME NEW t \in All, RunTest(t)
      PROVE  QueueTypes'
  <2>1. plan[t] \in [stops : Nat, starts : Nat, pauses : BOOLEAN, dies : BOOLEAN] /\ calls \in [All -> Nat]
    BY <1>0 DEF QueueTypeOK
  <2>2. calls' = [calls EXCEPT ![t] = plan[t].starts + IF plan[t].pauses THEN 1 ELSE 0]
    BY <1>7 DEF RunTest
  <2>3. calls' \in [All -> Nat]
    BY <2>1, <2>2
  <2>4. /\ UNCHANGED <<plan, limited, slices, dones, gaveUp, disturbed>>
        /\ looping' = "going" /\ current' = t /\ Stop(plan[t].stops)
    BY <1>7 DEF RunTest, Round, setting
  <2>5. CallsLeft'
    BY <1>0, <2>1, <2>2, <2>4 DEF CallsLeft
  <2>6. blocking' \in BOOLEAN /\ timeout' \in BOOLEAN
    BY <1>0, <2>1, <2>4, Stops DEF QueueTypeOK
  <2>7. semaphore' \in Nat /\ starting' \in Nat /\ doubled' \in BOOLEAN
    <3>1. semaphore + plan[t].stops \in Nat
      BY <1>0, <2>1 DEF QueueTypeOK
    <3>2. \/ Start(semaphore + plan[t].stops, 0)
          \/ semaphore' = semaphore + plan[t].stops /\ UNCHANGED <<starting, doubled>>
      BY <1>7 DEF RunTest
    <3> QED
      BY <1>0, <3>1, <3>2, Starts DEF QueueTypeOK
  <2>8. QueueTypeOK'
    BY <1>0, <2>3, <2>4, <2>6, <2>7 DEF QueueTypeOK
  <2> QED
    BY <1>0, <2>4, <2>5, <2>8 DEF QueueTypes
<1>8. ASSUME NEW t \in All, NEW phase \in {"setup", "teardown", "finish"}, Phase(phase, t)
      PROVE  QueueTypes'
  <2>1. QueueTypeOK'
    BY <1>0, <1>8 DEF Phase, Round, setting, hold, QueueTypeOK
  <2> QED
    BY <1>1, <1>8, <2>1 DEF Phase, Round, setting
<1>9. CASE Break
  <2>1. QueueTypeOK'
    BY <1>0, <1>9 DEF Break, setting, hold, QueueTypeOK
  <2> QED
    BY <1>1, <1>9, <2>1 DEF Break, setting
<1>10. CASE EndLoop
  <2>1. QueueTypeOK'
    BY <1>0, <1>10 DEF EndLoop, setting, hold, QueueTypeOK
  <2> QED
    BY <1>1, <1>10, <2>1 DEF EndLoop, setting
<1>11. CASE GlobalError
  <2>1. dones' \in Nat /\ disturbed' \in BOOLEAN
    <3>1. CASE dones = 0 \/ blocking
      BY <1>0, <1>11, <3>1 DEF GlobalError, QueueTypeOK
    <3>2. CASE ~(dones = 0 \/ blocking)
      <4>1. dones' \in {dones, dones + 1} /\ disturbed' = TRUE
        BY <1>11, <3>2 DEF GlobalError
      <4> QED
        BY <1>0, <4>1 DEF QueueTypeOK
    <3> QED
      BY <3>1, <3>2
  <2>2. QueueTypeOK'
    BY <1>0, <1>11, <2>1 DEF GlobalError, setting, hold, QueueTypeOK
  <2> QED
    BY <1>1, <1>11, <2>2 DEF GlobalError, setting
<1>12. CASE UNCHANGED queueVars
  <2>1. QueueTypeOK'
    BY <1>0, <1>12 DEF queueVars, setting, hold, QueueTypeOK
  <2> QED
    BY <1>1, <1>12, <2>1 DEF queueVars, setting
<1> QED
  BY <1>2, <1>3, <1>4, <1>5, <1>6, <1>7, <1>8, <1>9, <1>10, <1>11, <1>12 DEF QueueNext, QueueTimers, Rounds

(* Every step keeps the queue in order. *)
LEMMA QueueKept ==
  ASSUME QueueTypes, QueueOK, [QueueNext]_queueVars
  PROVE  QueueOK'
<1>1. CASE StartTimer \/ NextTimer \/ TimeoutFires \/ Break \/ UNCHANGED queueVars
  <2>1. UNCHANGED <<queue, ran, dones>>
    BY <1>1 DEF StartTimer, NextTimer, TimeoutFires, Break, queueVars
  <2> QED
    BY <2>1, QueueRests
<1>2. ASSUME NEW t \in All, Callback(t)
      PROVE  QueueOK'
  <2>1. UNCHANGED <<queue, ran, dones>>
    BY <1>2 DEF Callback
  <2> QED
    BY <2>1, QueueRests
<1>3. ASSUME NEW t \in All, Defer(t)
      PROVE  QueueOK'
  BY <1>3, DeferGood
<1>4. ASSUME NEW t \in All, RunTest(t)
      PROVE  QueueOK'
  <2>1. Round("run", t) /\ queue' = Tail(queue) /\ ran' = Append(ran, <<"run", t>>)
    BY <1>4 DEF RunTest
  <2> QED
    BY <2>1, PhaseGood
<1>5. ASSUME NEW t \in All, NEW phase \in {"setup", "teardown", "finish"}, Phase(phase, t)
      PROVE  QueueOK'
  <2>1. Round(phase, t) /\ queue' = Tail(queue) /\ ran' = Append(ran, <<phase, t>>)
    BY <1>5 DEF Phase
  <2> QED
    BY <2>1, PhaseGood
<1>6. CASE EndLoop
  BY <1>6, EndGood
<1>7. CASE GlobalError
  BY <1>7, ErrorGood
<1> QED
  BY <1>1, <1>2, <1>3, <1>4, <1>5, <1>6, <1>7 DEF QueueNext, QueueTimers, Rounds

-----------------------------------------------------------------------------
(* While the queue is not held back no test waits for callbacks. *)
LEMMA NoneWaits ==
  ASSUME QueueTypes, HoldOK, Waiting, ~blocking, NEW t \in Tests, Waits(t)
  PROVE  calls[t] = 0
  BY DEF QueueTypes, QueueTypeOK, HoldOK, Waiting, Waits, All

(* The timers. *)
LEMMA TimersHold ==
  ASSUME QueueTypes, WaitingInv, QueueTimers
  PROVE  WaitingInv'
<1> USE DEF QueueTypes, QueueTypeOK
<1>1. CASE StartTimer
  <2>1. HoldOK'
    BY <1>1 DEF StartTimer, WaitingInv, HoldOK, Held
  <2>2. Waiting => Waiting'
    BY <1>1 DEF StartTimer, setting, Waiting, Waits
  <2>3. NotCutShort => NotCutShort'
    BY <1>1 DEF StartTimer, setting, NotCutShort
  <2>4. OneTicket => OneTicket'
    BY <1>1 DEF StartTimer, OneTicket, Looping
  <2> QED
    BY <1>1, <2>1, <2>2, <2>3, <2>4 DEF StartTimer, WaitingInv
<1>2. CASE NextTimer
  <2>1. HoldOK'
    BY <1>2 DEF NextTimer, WaitingInv, HoldOK, hold
  <2>2. Waiting => Waiting'
    BY <1>2 DEF NextTimer, setting, hold, Waiting, Waits
  <2>3. NotCutShort => NotCutShort'
    BY <1>2 DEF NextTimer, setting, NotCutShort
  <2>4. OneTicket => OneTicket'
    BY <1>2 DEF NextTimer, OneTicket, Looping, hold
  <2> QED
    BY <1>2, <2>1, <2>2, <2>3, <2>4 DEF NextTimer, WaitingInv
<1>3. CASE TimeoutFires
  <2>1. HoldOK' /\ blocking
    BY <1>3 DEF TimeoutFires, WaitingInv, HoldOK, Start, TimedOutSemaphore
  <2>2. gaveUp \subseteq gaveUp' /\ (current # NoTest => current \in gaveUp') /\ (current = NoTest => semaphore' = semaphore)
    BY <1>3 DEF TimeoutFires
  <2>3. ASSUME Waiting
        PROVE  Waiting'
    <3> SUFFICES ASSUME NEW t \in Tests, Waits(t)', calls'[t] > 0
                 PROVE  current' = t /\ semaphore' = IF calls'[t] < plan'[t].starts THEN calls'[t] ELSE plan'[t].starts
      BY DEF Waiting
    <3>1. Waits(t) /\ calls[t] > 0 /\ t \notin gaveUp' /\ UNCHANGED <<plan, calls, current>>
      BY <1>3, <2>2 DEF TimeoutFires, Waits, setting
    <3>2. current = t /\ t # NoTest
      BY <2>3, <3>1, OrderAssumption DEF Waiting, All
    <3> QED
      BY <2>2, <3>1, <3>2
  <2>4. NotCutShort => NotCutShort'
    BY <1>3, <2>2 DEF TimeoutFires, setting, NotCutShort
  <2>5. ASSUME OneTicket
        PROVE  OneTicket'
    <3>1. UNCHANGED <<blocking, dones, slices, looping>>
      BY <1>3 DEF TimeoutFires
    <3>2. doubled \/ (dones = 0 /\ slices = 0 /\ starting <= 1)
      BY <2>1, <2>5 DEF OneTicket
    <3>3. (doubled => doubled') /\ (starting <= 1 => doubled' \/ starting' <= 1)
      <4>1. CASE current = NoTest
        BY <1>3, <4>1 DEF TimeoutFires
      <4>2. CASE current # NoTest
        <5>1. Start(1, 0)
          BY <1>3, <4>2, Zenon DEF TimeoutFires, TimedOutSemaphore
        <5> QED
          BY <5>1, Starts
      <4> QED
        BY <4>1, <4>2
    <3> QED
      BY <2>1, <3>1, <3>2, <3>3 DEF OneTicket
  <2> QED
    BY <1>3, <2>1, <2>3, <2>4, <2>5 DEF TimeoutFires, WaitingInv
<1> QED
  BY <1>1, <1>2, <1>3 DEF QueueTimers

(* A callback of the test that is waited for, or of another one. *)
LEMMA CallbackHolds ==
  ASSUME QueueTypes, WaitingInv, NEW t \in All, Callback(t)
  PROVE  WaitingInv'
<1> DEFINE again == plan[t].pauses /\ calls[t] > plan[t].starts
<1>1. /\ plan[t].starts \in Nat /\ calls[t] \in Nat /\ calls \in [All -> Nat]
      /\ calls[t] <= plan[t].starts + (IF plan[t].pauses THEN 1 ELSE 0)
      /\ semaphore \in Nat /\ starting \in Nat /\ dones \in Nat /\ slices \in Nat
  BY DEF QueueTypes, QueueTypeOK, CallsLeft
<1>2. /\ calls' = [calls EXCEPT ![t] = calls[t] - 1] /\ calls[t] > 0
      /\ UNCHANGED <<plan, slices, looping, current, ran, dones, gaveUp>>
      /\ disturbed' = (disturbed \/ t # current \/ semaphore = 0)
  BY DEF Callback, setting
<1>3. calls'[t] = calls[t] - 1 /\ \A u \in All : u # t => calls'[u] = calls[u]
  BY <1>1, <1>2
<1>4. /\ semaphore' = (IF again THEN 1 ELSE 0) + IF semaphore > 1 THEN semaphore - 1 ELSE 0
      /\ (doubled => doubled') /\ (starting <= 1 => doubled' \/ starting' <= 1)
      /\ (blocking => blocking') /\ IF again THEN blocking' ELSE blocking' = blocking /\ timeout' = timeout
  <2>1. CASE again
    <3>1. Start(semaphore, 1) /\ Stop(1)
      BY <2>1 DEF Callback
    <3>2. blocking'
      BY <3>1, Stops DEF QueueTypes, QueueTypeOK
    <3> QED
      BY <2>1, <3>1, <3>2, Starts DEF QueueTypes, QueueTypeOK
  <2>2. CASE ~again
    <3>1. Start(semaphore, 0) /\ UNCHANGED <<blocking, timeout>>
      BY <2>2, Zenon DEF Callback
    <3> QED
      BY <2>2, <3>1, Starts DEF QueueTypes, QueueTypeOK
  <2> QED
    BY <2>1, <2>2
<1>5. HoldOK'
  <2>1. CASE again
    BY <1>4, <2>1 DEF HoldOK
  <2>2. CASE ~again
    <3>1. (semaphore' > 0 => semaphore > 0) /\ blocking' = blocking /\ timeout' = timeout
      BY <1>1, <1>4, <2>2
    <3> QED
      BY <3>1 DEF WaitingInv, HoldOK
  <2> QED
    BY <2>1, <2>2
<1> SUFFICES ASSUME ~disturbed'
             PROVE  Waiting' /\ NotCutShort' /\ OneTicket'
  BY <1>5 DEF WaitingInv
<1>6. t = current /\ semaphore # 0 /\ ~disturbed
  BY <1>2
<1>7. semaphore > 0 /\ blocking /\ Waiting /\ NotCutShort /\ OneTicket
  BY <1>1, <1>6 DEF WaitingInv, HoldOK
<1>8. Waiting'
  <2> SUFFICES ASSUME NEW u \in Tests, Waits(u)', calls'[u] > 0
               PROVE  current' = u /\ semaphore' = IF calls'[u] < plan'[u].starts THEN calls'[u] ELSE plan'[u].starts
    BY DEF Waiting
  <2>1. u \in All /\ Waits(u)
    BY <1>2 DEF Waits, All
  <2>2. calls[u] > 0
    BY <1>1, <1>2, <1>3, <2>1
  <2>3. u = t /\ semaphore = (IF calls[t] < plan[t].starts THEN calls[t] ELSE plan[t].starts) /\ plan[t].starts > 0
    BY <1>6, <1>7, <2>1, <2>2 DEF Waiting, Waits
  <2>4. calls'[t] > 0 /\ plan' = plan /\ current' = t
    BY <1>2, <1>6, <2>3
  <2>5. semaphore' = IF calls'[t] < plan[t].starts THEN calls'[t] ELSE plan[t].starts
    <3>1. CASE again
      BY <1>1, <1>3, <1>4, <2>3, <2>4, <3>1
    <3>2. CASE ~again
      <4>1. calls[t] <= plan[t].starts
        BY <1>1, <3>2
      <4> HIDE DEF again
      <4> QED
        BY <1>1, <1>3, <1>4, <2>3, <2>4, <3>2, <4>1
    <3> QED
      BY <3>1, <3>2
  <2> QED
    BY <2>3, <2>4, <2>5
<1>9. NotCutShort'
  <2>1. \A u \in Tests : calls[u] = 0 => calls'[u] = 0
    BY <1>2, <1>3 DEF All
  <2> QED
    BY <1>2, <1>7, <2>1 DEF NotCutShort
<1>10. OneTicket'
  <2>1. blocking'
    BY <1>4, <1>7
  <2>2. doubled \/ (dones' = 0 /\ slices' = 0 /\ starting <= 1)
    BY <1>2, <1>7 DEF OneTicket
  <2>3. doubled' \/ starting' <= 1
    BY <1>4, <2>2
  <2>4. doubled => doubled'
    BY <1>4
  <2> QED
    BY <2>1, <2>2, <2>3, <2>4 DEF OneTicket
<1> QED
  BY <1>8, <1>9, <1>10

(* A test runs: it may ask to be waited for. *)
LEMMA RunTestHolds ==
  ASSUME QueueTypes, QueueOK, WaitingInv, NEW t \in All, RunTest(t)
  PROVE  WaitingInv'
<1> DEFINE p == plan[t]
           up == semaphore + p.stops
<1>1. /\ p \in [stops : Nat, starts : Nat, pauses : BOOLEAN, dies : BOOLEAN] /\ calls \in [All -> Nat]
      /\ semaphore \in Nat /\ starting \in Nat /\ dones \in Nat /\ slices \in Nat /\ blocking \in BOOLEAN
      /\ timeout \in BOOLEAN /\ limited \in BOOLEAN /\ doubled \in BOOLEAN
  BY DEF QueueTypes, QueueTypeOK
<1>2. /\ looping # "no" /\ ~blocking /\ queue # <<>> /\ queue[1] = <<"run", t>>
      /\ looping' = "going" /\ UNCHANGED <<plan, slices, dones, gaveUp, disturbed>>
      /\ ran' = Append(ran, <<"run", t>>) /\ current' = t /\ Stop(p.stops)
      /\ calls' = [calls EXCEPT ![t] = p.starts + IF p.pauses THEN 1 ELSE 0]
  BY DEF RunTest, Round, setting
<1>3. IF p.dies /\ p.stops > 0 THEN Start(up, 0) ELSE semaphore' = up /\ UNCHANGED <<starting, doubled>>
  BY DEF RunTest
<1>4. semaphore = 0 /\ ~timeout /\ up = p.stops
  BY <1>1, <1>2 DEF WaitingInv, HoldOK
<1>5. /\ p.stops > 0 => blocking'
      /\ timeout' => blocking'
      /\ p.stops = 0 => blocking' = FALSE
  <2>1. /\ blocking' \in BOOLEAN /\ (p.stops > 0 => blocking') /\ (timeout' => blocking' \/ timeout)
        /\ p.stops = 0 => (blocking' => blocking)
    BY <1>1, <1>2, Stops
  <2> QED
    BY <1>2, <1>4, <2>1
<1>6. /\ semaphore' \in Nat /\ (semaphore' > 0 => p.stops > 0)
      /\ ~p.dies => semaphore' = p.stops
      /\ (starting = 0 => doubled' \/ starting' <= 1) /\ (doubled => doubled')
      /\ p.stops = 0 => UNCHANGED <<starting, doubled>>
  <2> HIDE DEF p
  <2>1. CASE p.dies /\ p.stops > 0
    <3>1. Start(up, 0)
      BY <1>3, <2>1
    <3>2. up \in Nat /\ (starting = 0 => starting <= 1)
      BY <1>1, <1>4
    <3> HIDE DEF up
    <3>3. semaphore' \in Nat /\ (doubled => doubled') /\ (starting <= 1 => doubled' \/ starting' <= 1)
      BY <1>1, <3>1, <3>2, Starts
    <3> QED
      BY <1>1, <2>1, <3>2, <3>3
  <2>2. CASE ~(p.dies /\ p.stops > 0)
    <3>1. semaphore' = p.stops /\ starting' = starting /\ doubled' = doubled
      BY <1>3, <1>4, <2>2
    <3> QED
      BY <1>1, <3>1
  <2> QED
    BY <2>1, <2>2
<1> HIDE DEF up
<1>7. HoldOK'
  BY <1>5, <1>6 DEF HoldOK
<1> SUFFICES ASSUME ~disturbed'
             PROVE  Waiting' /\ NotCutShort' /\ OneTicket'
  BY <1>7 DEF WaitingInv
<1>8. ~disturbed /\ Waiting /\ NotCutShort /\ OneTicket /\ HoldOK
  BY <1>2 DEF WaitingInv
<1>9. calls'[t] = p.starts + (IF p.pauses THEN 1 ELSE 0) /\ \A u \in All : u # t => calls'[u] = calls[u]
  BY <1>1, <1>2
<1>10. Waiting'
  <2> SUFFICES ASSUME NEW u \in Tests, Waits(u)', calls'[u] > 0
               PROVE  current' = u /\ semaphore' = IF calls'[u] < plan'[u].starts THEN calls'[u] ELSE plan'[u].starts
    BY DEF Waiting
  <2>1. u \in All /\ Waits(u) /\ plan' = plan
    BY <1>2 DEF Waits, All
  <2>2. CASE u = t
    <3>1. ~p.dies /\ p.starts = p.stops
      BY <2>1, <2>2 DEF Waits
    <3> HIDE DEF p
    <3>2. semaphore' = p.starts /\ ~(calls'[t] < p.starts)
      BY <1>1, <1>6, <1>9, <3>1
    <3> QED
      BY <1>2, <2>1, <2>2, <3>2 DEF p
  <2>3. CASE u # t
    <3>1. calls[u] = 0
      BY <1>2, <1>8, <2>1, NoneWaits
    <3> QED
      BY <1>9, <2>1, <2>3, <3>1
  <2> QED
    BY <2>2, <2>3
<1>11. NotCutShort'
  <2>1. ran \in Seq(Items) /\ DOMAIN ran = 1..Len(ran) /\ 1 \in DOMAIN queue
    BY <1>2 DEF QueueOK, Orderly
  <2>2. DOMAIN ran' = 1..Len(ran) + 1 /\ ran'[Len(ran) + 1] = <<"run", t>> /\ \A i \in DOMAIN ran : ran'[i] = ran[i]
    BY <1>2, <2>1
  <2>3. \A i \in DOMAIN ran' : ran'[i] = <<"run", t>> \/ (i \in DOMAIN ran /\ ran'[i] = ran[i])
    BY <2>1, <2>2
  <2>4. \A i \in DOMAIN ran : ran[i] # <<"teardown", t>>
    <3>1. Chained(queue)
      BY DEF QueueOK, Orderly
    <3>2. 1 + 1 \in DOMAIN queue /\ Follows(queue[1], queue[1 + 1])
      <4>1. Unfinished(queue[1])
        BY <1>2 DEF Unfinished
      <4> QED
        BY <2>1, <3>1, <4>1 DEF Chained
    <3>3. 1 + 1 = 2
      OBVIOUS
    <3>4. 2 \in DOMAIN queue /\ queue[2] \in Items /\ queue[2][1] = "teardown" /\ queue[2][2] = t
      BY <1>2, <3>2, <3>3 DEF QueueOK, Orderly, Follows
    <3>5. queue[2] = <<"teardown", t>>
      BY <3>4 DEF Items
    <3> QED
      BY <3>4, <3>5 DEF QueueOK, NotAgain
  <2>5. ASSUME NEW u \in Tests, NEW i \in DOMAIN ran', ran'[i] = <<"teardown", u>>
        PROVE  u # t /\ \E j \in DOMAIN ran : ran[j] = <<"teardown", u>>
    BY <2>3, <2>4, <2>5
  <2>6. \A u \in Tests : u # t => calls'[u] = calls[u]
    BY <1>9 DEF All
  <2> QED
    BY <1>2, <1>8, <2>5, <2>6 DEF NotCutShort
<1>12. OneTicket'
  <2>1. doubled \/ (dones = 0 /\ slices = 0 /\ starting = 0)
    BY <1>1, <1>2, <1>8 DEF OneTicket, Looping
  <2>2. CASE p.stops > 0
    <3> HIDE DEF p
    <3> QED
      BY <1>2, <1>5, <1>6, <2>1, <2>2 DEF OneTicket
  <2>3. CASE p.stops = 0
    <3> HIDE DEF p
    <3>1. blocking' = FALSE /\ starting' = starting /\ doubled' = doubled
      BY <1>5, <1>6, <2>3
    <3> QED
      BY <1>2, <2>1, <3>1 DEF OneTicket, Looping
  <2> QED
    BY <1>1, <2>2, <2>3
<1> QED
  BY <1>10, <1>11, <1>12

(* The other phases of a test run while no test waits. *)
LEMMA PhaseHolds ==
  ASSUME QueueTypes, QueueOK, WaitingInv,
         NEW t \in All, NEW phase \in {"setup", "teardown", "finish"}, Phase(phase, t)
  PROVE  WaitingInv'
<1>1. /\ looping # "no" /\ ~blocking /\ looping' = "going"
      /\ UNCHANGED <<plan, slices, dones, gaveUp, disturbed, starting, blocking, semaphore, timeout, doubled, calls>>
      /\ ran' = Append(ran, <<phase, t>>)
  BY DEF Phase, Round, setting, hold
<1>2. HoldOK'
  BY <1>1 DEF WaitingInv, HoldOK
<1> SUFFICES ASSUME ~disturbed'
             PROVE  Waiting' /\ NotCutShort' /\ OneTicket'
  BY <1>2 DEF WaitingInv
<1>3. Waiting /\ NotCutShort /\ OneTicket /\ HoldOK
  BY <1>1 DEF WaitingInv
<1>4. \A u \in Tests : Waits(u) => calls[u] = 0
  BY <1>1, <1>3, NoneWaits
<1>5. \A u \in Tests : Waits(u)' => calls'[u] = 0
  BY <1>1, <1>4 DEF Waits
<1>6. Waiting' /\ NotCutShort'
  BY <1>5 DEF Waiting, Waits, NotCutShort
<1>7. OneTicket'
  BY <1>1, <1>3 DEF OneTicket, Looping
<1> QED
  BY <1>6, <1>7

(* What leaves the tests, their calls and the semaphore alone. *)
LEMMA OthersHold ==
  ASSUME QueueTypes, WaitingInv,
         (\E t \in All : Defer(t)) \/ Break \/ EndLoop \/ GlobalError \/ UNCHANGED queueVars
  PROVE  WaitingInv'
<1>1. UNCHANGED <<plan, gaveUp, starting, blocking, semaphore, timeout, doubled, calls, current>>
  BY DEF Defer, Round, Break, EndLoop, GlobalError, setting, hold, queueVars
<1>2. HoldOK'
  BY <1>1 DEF WaitingInv, HoldOK
<1> SUFFICES ASSUME ~disturbed'
             PROVE  Waiting' /\ NotCutShort' /\ OneTicket'
  BY <1>2 DEF WaitingInv
<1>3. UNCHANGED <<disturbed, ran>>
  <2>1. CASE GlobalError
    BY <2>1 DEF GlobalError
  <2> QED
    BY <2>1 DEF Defer, Round, Break, EndLoop, queueVars
<1>4. Waiting /\ NotCutShort /\ OneTicket
  BY <1>3 DEF WaitingInv
<1>5. Waiting' /\ NotCutShort'
  BY <1>1, <1>3, <1>4 DEF Waiting, Waits, NotCutShort
<1>6. OneTicket'
  <2> USE DEF QueueTypes, QueueTypeOK
  <2>1. ASSUME NEW t \in All, Defer(t)
        PROVE  OneTicket'
    BY <1>1, <1>4, <2>1 DEF Defer, Round, OneTicket, Looping
  <2>2. CASE Break
    BY <1>1, <1>4, <2>2 DEF Break, OneTicket, Looping
  <2>3. CASE EndLoop
    BY <1>1, <1>4, <2>3 DEF EndLoop, OneTicket, Looping
  <2>4. CASE GlobalError
    <3>1. UNCHANGED <<dones, slices, looping>>
      BY <2>4 DEF GlobalError
    <3> QED
      BY <1>1, <1>4, <3>1 DEF OneTicket, Looping
  <2>5. CASE UNCHANGED queueVars
    BY <1>1, <1>4, <2>5 DEF queueVars, OneTicket, Looping
  <2> QED
    BY <2>1, <2>2, <2>3, <2>4, <2>5
<1> QED
  BY <1>5, <1>6

LEMMA WaitingKept ==
  ASSUME QueueTypes, QueueOK, WaitingInv, [QueueNext]_queueVars
  PROVE  WaitingInv'
<1>1. CASE QueueTimers
  BY <1>1, TimersHold
<1>2. ASSUME NEW t \in All, Callback(t)
      PROVE  WaitingInv'
  BY <1>2, CallbackHolds
<1>3. ASSUME NEW t \in All, RunTest(t)
      PROVE  WaitingInv'
  BY <1>3, RunTestHolds
<1>4. ASSUME NEW t \in All, NEW phase \in {"setup", "teardown", "finish"}, Phase(phase, t)
      PROVE  WaitingInv'
  BY <1>4, PhaseHolds
<1>5. CASE (\E t \in All : Defer(t)) \/ Break \/ EndLoop \/ GlobalError \/ UNCHANGED queueVars
  BY <1>5, OthersHold
<1> QED
  BY <1>1, <1>2, <1>3, <1>4, <1>5 DEF QueueNext, Rounds

-----------------------------------------------------------------------------
(* The queue, its timers and the tests always fit together as QueueInv says. *)
THEOREM QueueFits == QueueSpec => []QueueInv
<1>1. QueueInit => QueueInv
  BY InitGood
<1>2. QueueInv /\ [QueueNext]_queueVars => QueueInv'
  BY TypesKept, QueueKept, WaitingKept DEF QueueInv
<1> QED
  BY <1>1, <1>2, PTL DEF QueueSpec

(* The variables of QUnit's queue keep their types. *)
THEOREM QueueTyped == QueueSpec => []QueueTypeOK
<1>1. QueueInv => QueueTypeOK
  BY DEF QueueInv, QueueTypes
<1> QED
  BY <1>1, QueueFits, PTL

(* Whatever tests a page has and however they behave: the phases of a test   *)
(* run one after the other; a test that waits is not torn down before its    *)
(* callbacks came or it timed out; done is called when all have finished,    *)
(* and once, unless a late or early call of start disturbed the queue.       *)
THEOREM TestsKeptApart == QueueSpec => []QueueRight
<1>1. QueueInv => QueueRight
  <2> SUFFICES ASSUME QueueInv, ~disturbed
               PROVE  NotCutShort /\ DoneAtTheEnd
    BY DEF QueueInv, QueueOK, QueueRight, QueueTypes
  <2>1. NotCutShort /\ OneTicket /\ QueueTypes
    BY DEF QueueInv, WaitingInv
  <2>2. dones <= 1 \/ doubled
    BY <2>1 DEF OneTicket, Looping, QueueTypes, QueueTypeOK
  <2> QED
    BY <2>1, <2>2 DEF DoneAtTheEnd, QueueInv, QueueOK, Finished
<1> QED
  BY <1>1, QueueFits, PTL
=============================================================================
