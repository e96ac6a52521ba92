-------------------------- MODULE EditorViewProofs --------------------------
(* What the editor has on the page.  First that the screen shows the window  *)
(* of the document, for any document, window and margin and any changes      *)
(* within an operation: the ranges that computeIntact keeps are good after   *)
(* every change, and the walk of patchDisplay along them draws the rest.     *)
(* Then that no dialog on top of it is left behind or answered twice, for    *)
(* any number of dialogs and moves of the focus.                             *)
EXTENDS EditorView, Dialogs, ListFacts, SequenceTheorems, TLAPS

Spans == [from : Int, to : Int, dom : Int]
Changes == {c \in [from : Nat, to : Nat, diff : Int] : c.from < c.to /\ c.from < c.to + c.diff}

-----------------------------------------------------------------------------
(* The intact ranges, change by change. *)
LEMMA SpanIs ==
  ASSUME NEW a, NEW b, NEW d
  PROVE  /\ Span(a, b, d).from = a /\ Span(a, b, d).to = b /\ Span(a, b, d).dom = d
         /\ a \in Int /\ b \in Int /\ d \in Int => Span(a, b, d) \in Spans
BY DEF Span, Spans

LEMMA SpanHas == \A r \in Spans : r.from \in Int /\ r.to \in Int /\ r.dom \in Int
BY DEF Spans

LEMMA ChangeHas == \A c \in Changes : c.from \in Nat /\ c.to \in Nat /\ c.diff \in Int /\ c.from < c.to /\ c.from < c.to + c.diff
BY DEF Changes

LEMMA PiecesTyped ==
  ASSUME NEW r \in Spans, NEW c \in Changes
  PROVE  Pieces(r, c) \in Seq(Spans)
<1>1. \A s \in Spans : <<s>> \in Seq(Spans)
  OBVIOUS
<1>2. <<>> \in Seq(Spans) /\ \A x, y \in Seq(Spans) : x \o y \in Seq(Spans)
  OBVIOUS
<1>3. /\ Span(r.from + c.diff, r.to + c.diff, r.dom) \in Spans
      /\ Span(r.from, c.from, r.dom) \in Spans
      /\ Span(c.to + c.diff, r.to + c.diff, r.dom + (c.to - r.from)) \in Spans
  BY SpanHas, ChangeHas, SpanIs
<1> QED
  BY <1>1, <1>2, <1>3 DEF Pieces

LEMMA PunchedTyped ==
  ASSUME NEW R \in Seq(Spans), NEW c \in Changes
  PROVE  /\ [i \in DOMAIN R |-> Pieces(R[i], c)] \in Seq(Seq(Spans))
         /\ Punched(R, c) \in Seq(Spans)
<1> DEFINE X == Seq(Spans)
           q == [i \in DOMAIN R |-> Pieces(R[i], c)]
<1>1. DOMAIN R = 1..Len(R) /\ Len(R) \in Nat /\ \A i \in 1..Len(R) : R[i] \in Spans
  OBVIOUS
<1>2. q \in Seq(X)
  <2>1. \A i \in 1..Len(R) : Pieces(R[i], c) \in X
    BY <1>1, PiecesTyped
  <2> HIDE DEF X
  <2> QED
    BY <1>1, <2>1
<1> HIDE DEF q
<1>3. FlattenSeq(q) \in X
  BY <1>2, FlatPlaced
<1> QED
  BY <1>2, <1>3 DEF Punched, q

LEMMA IntactExists ==
  ASSUME NEW R \in Seq(Spans), NEW chs \in Seq(Changes)
  PROVE  \E f : f = [k \in 0..Len(chs) |-> IF k = 0 THEN R ELSE Punched(f[k - 1], chs[k])]
<1> DEFINE N == Len(chs)
           X == Seq(Spans)
           g == [n \in 1..N |-> [x \in X |-> Punched(x, chs[n])]]
<1>0. N \in Nat /\ R \in X /\ \A i \in 1..N : chs[i] \in Changes
  OBVIOUS
<1>1. \A n \in 1..N : \A x \in X : g[n][x] = Punched(x, chs[n])
  OBVIOUS
<1>2. \A x \in X : \A n \in 1..N : Punched(x, chs[n]) \in X
  BY <1>0, PunchedTyped
<1> HIDE DEF g, X, N
<1>3. PICK r : Continues(r, R, g, N)
  BY <1>0, Recursion
<1>4. r[0] = R /\ \A n \in 1..N : r[n] = g[n][r[n - 1]]
  BY <1>3 DEF Continues
<1>5. \A n \in 0..N : r[n] \in X
  <2>1. \A n \in 1..N : r[n - 1] \in X => r[n] \in X
    BY <1>1, <1>2, <1>4
  <2> QED
    BY <1>0, <1>4, <2>1, StaysIn
<1> DEFINE f == [k \in 0..N |-> r[k]]
<1>6. ASSUME NEW k \in 0..N
      PROVE  f[k] = IF k = 0 THEN R ELSE Punched(f[k - 1], chs[k])
  <2>1. CASE k = 0
    BY <1>4, <2>1
  <2>2. CASE k # 0
    <3>1. k \in 1..N /\ k - 1 \in 0..N
      BY <1>0, <2>2
    <3>2. r[k] = Punched(r[k - 1], chs[k])
      BY <1>1, <1>4, <1>5, <3>1
    <3> QED
      BY <2>2, <3>1, <3>2
  <2> QED
    BY <2>1, <2>2
<1>7. f = [k \in 0..N |-> f[k]]
  OBVIOUS
<1> HIDE DEF f
<1>8. f = [k \in 0..N |-> IF k = 0 THEN R ELSE Punched(f[k - 1], chs[k])]
  BY <1>6, <1>7
<1> QED
  BY <1>8 DEF N

Intacts(f, R, chs) ==
  /\ f[0] = R /\ ComputeIntact(R, chs) = f[Len(chs)]
  /\ \A k \in 0..Len(chs) : f[k] \in Seq(Spans)
  /\ \A k \in 1..Len(chs) : f[k] = Punched(f[k - 1], chs[k])

LEMMA IntactSteps ==
  ASSUME NEW R \in Seq(Spans), NEW chs \in Seq(Changes)
  PROVE  \E f : Intacts(f, R, chs)
<1> DEFINE N == Len(chs)
           X == Seq(Spans)
           intact[k \in 0..N] == IF k = 0 THEN R ELSE Punched(intact[k - 1], chs[k])
<1>0. N \in Nat /\ R \in X /\ \A i \in 1..N : chs[i] \in Changes
  OBVIOUS
<1>1. intact = [k \in 0..N |-> IF k = 0 THEN R ELSE Punched(intact[k - 1], chs[k])]
  <2>1. \E f : f = [k \in 0..Len(chs) |-> IF k = 0 THEN R ELSE Punched(f[k - 1], chs[k])]
    BY IntactExists
  <2> QED
    BY <2>1
<1>2. ComputeIntact(R, chs) = intact[N]
  BY DEF ComputeIntact
<1>3. \A x \in X : \A n \in 1..N : Punched(x, chs[n]) \in X
  BY <1>0, PunchedTyped
<1> HIDE DEF intact, N, X
<1>4. intact[0] = R /\ \A n \in 1..N : intact[n] = Punched(intact[n - 1], chs[n])
  <2>1. 0 \in 0..N /\ \A n \in 1..N : n \in 0..N /\ n # 0
    BY <1>0
  <2> QED
    BY <1>1, <2>1
<1>5. \A n \in 0..N : intact[n] \in X
  <2>1. \A n \in 1..N : intact[n - 1] \in X => intact[n] \in X
    BY <1>3, <1>4
  <2> QED
    BY <1>0, <1>4, <2>1, StaysIn
<1>6. Intacts(intact, R, chs)
  BY <1>2, <1>4, <1>5 DEF Intacts, N, X
<1> QED
  BY <1>6

LEMMA IntactMore ==
  ASSUME NEW R \in Seq(Spans)
  PROVE  /\ ComputeIntact(R, <<>>) = R
         /\ \A chs \in Seq(Changes) : ComputeIntact(R, chs) \in Seq(Spans)
         /\ \A chs \in Seq(Changes), c \in Changes :
              ComputeIntact(R, Append(chs, c)) = Punched(ComputeIntact(R, chs), c)
<1>1. ComputeIntact(R, <<>>) = R
  <2>1. <<>> \in Seq(Changes) /\ Len(<<>>) = 0
    OBVIOUS
  <2>2. PICK f : Intacts(f, R, <<>>)
    BY <2>1, IntactSteps
  <2> QED
    BY <2>1, <2>2 DEF Intacts
<1>2. ASSUME NEW chs \in Seq(Changes)
      PROVE  ComputeIntact(R, chs) \in Seq(Spans)
  <2>1. PICK f : Intacts(f, R, chs)
    BY IntactSteps
  <2>2. Len(chs) \in 0..Len(chs)
    OBVIOUS
  <2> QED
    BY <2>1, <2>2 DEF Intacts
<1>3. ASSUME NEW chs \in Seq(Changes), NEW c \in Changes
      PROVE  ComputeIntact(R, Append(chs, c)) = Punched(ComputeIntact(R, chs), c)
  <2> DEFINE more == Append(chs, c)
             N == Len(chs)
  <2>1. more \in Seq(Changes) /\ Len(more) = N + 1 /\ more[N + 1] = c /\ N \in Nat /\ \A k \in 1..N : more[k] = chs[k]
    OBVIOUS
  <2>2. PICK f : Intacts(f, R, chs)
    BY IntactSteps
  <2> HIDE DEF more
  <2>3. PICK h : Intacts(h, R, more)
    BY <2>1, IntactSteps
  <2>4. /\ f[0] = R /\ ComputeIntact(R, chs) = f[N] /\ \A k \in 1..N : f[k] = Punched(f[k - 1], chs[k])
    BY <2>2 DEF Intacts
  <2>5. /\ h[0] = R /\ ComputeIntact(R, more) = h[N + 1] /\ \A k \in 1..N + 1 : h[k] = Punched(h[k - 1], more[k])
    BY <2>1, <2>3 DEF Intacts
  <2> HIDE DEF N
  <2> DEFINE Bad == {k \in 0..N : h[k] # f[k]}
  <2>6. Bad = {}
    <3>1. 0 \in Nat /\ N \in Int /\ Bad \subseteq 0..N /\ 0 \notin Bad
      BY <2>1, <2>4, <2>5
    <3>2. ASSUME NEW k \in 0 + 1..N, k \in Bad PROVE k - 1 \in Bad
      <4>1. k - 1 \in 0..N /\ k \in 1..N /\ k \in 1..N + 1
        BY <2>1
      <4>2. h[k - 1] # f[k - 1]
        BY <2>1, <2>4, <2>5, <3>2, <4>1
      <4> QED
        BY <4>1, <4>2
    <3> HIDE DEF Bad
    <3> QED
      BY <3>1, <3>2, Climbs
  <2>7. h[N] = f[N] /\ N + 1 \in 1..N + 1 /\ (N + 1) - 1 = N
    BY <2>1, <2>6
  <2> QED
    BY <2>1, <2>4, <2>5, <2>7 DEF more
<1> QED
  BY <1>1, <1>2, <1>3

Parts(s, q, n) ==
  /\ \A p \in 1..Len(s) : \E i \in 1..n : \E k \in 1..Len(q[i]) : s[p] = q[i][k]
  /\ \A p, r \in 1..Len(s) : p < r =>
       \E i, j \in 1..n : \E k \in 1..Len(q[i]) : \E l \in 1..Len(q[j]) :
         s[p] = q[i][k] /\ s[r] = q[j][l] /\ (i < j \/ (i = j /\ k < l))

LEMMA FlatParts ==
  ASSUME NEW S, NEW q \in Seq(Seq(S))
  PROVE  Parts(FlattenSeq(q), q, Len(q))
<1> DEFINE s == FlattenSeq(q)
           N == Len(q)
<1>0. N \in Nat /\ \A i \in 1..N : Len(q[i]) \in Nat
  OBVIOUS
<1>1. PICK off : LaidOut(off, q, s)
  BY FlatPlaced
<1> HIDE DEF s
<1>2. /\ \A p \in 1..Len(s) : \E i \in 1..N : off[i - 1] < p /\ p <= off[i]
      /\ \A a, b \in 0..N : a <= b => off[a] <= off[b]
  BY <1>0, <1>1, Located
<1>3. /\ \A i \in 0..N : off[i] \in Nat
      /\ \A i \in 1..N : off[i] = off[i - 1] + Len(q[i])
      /\ \A i \in 1..N : \A k \in 1..Len(q[i]) : s[off[i - 1] + k] = q[i][k]
  BY <1>1 DEF LaidOut
<1> HIDE DEF N
<1>4. ASSUME NEW p \in 1..Len(s), NEW i \in 1..N, off[i - 1] < p, p <= off[i]
      PROVE  p - off[i - 1] \in 1..Len(q[i]) /\ s[p] = q[i][p - off[i - 1]] /\ off[i - 1] \in Nat /\ off[i] \in Nat
  <2>1. i - 1 \in 0..N /\ i \in 0..N
    BY <1>0
  <2>2. off[i - 1] \in Nat /\ off[i] \in Nat /\ off[i] = off[i - 1] + Len(q[i]) /\ Len(q[i]) \in Nat /\ p \in Int
    BY <1>0, <1>3, <2>1
  <2>3. p - off[i - 1] \in 1..Len(q[i]) /\ off[i - 1] + (p - off[i - 1]) = p
    BY <1>4, <2>2
  <2> QED
    BY <1>3, <2>2, <2>3
<1>5. ASSUME NEW p \in 1..Len(s)
      PROVE  \E i \in 1..N : \E k \in 1..Len(q[i]) : s[p] = q[i][k]
  BY <1>2, <1>4
<1>6. ASSUME NEW p \in 1..Len(s), NEW r \in 1..Len(s), p < r
      PROVE  \E i, j \in 1..N : \E k \in 1..Len(q[i]) : \E l \in 1..Len(q[j]) :
               s[p] = q[i][k] /\ s[r] = q[j][l] /\ (i < j \/ (i = j /\ k < l))
  <2>1. PICK i \in 1..N : off[i - 1] < p /\ p <= off[i]
    BY <1>2
  <2>2. PICK j \in 1..N : off[j - 1] < r /\ r <= off[j]
    BY <1>2
  <2>3. p - off[i - 1] \in 1..Len(q[i]) /\ s[p] = q[i][p - off[i - 1]] /\ off[i - 1] \in Nat /\ off[i] \in Nat
    BY <1>4, <2>1
  <2>4. r - off[j - 1] \in 1..Len(q[j]) /\ s[r] = q[j][r - off[j - 1]] /\ off[j - 1] \in Nat /\ off[j] \in Nat
    BY <1>4, <2>2
  <2>5. i <= j
    <3> SUFFICES ASSUME j < i PROVE FALSE
      BY <1>0
    <3>1. j \in 0..N /\ i - 1 \in 0..N /\ j <= i - 1
      BY <1>0
    <3>2. off[j] <= off[i - 1]
      BY <1>2, <3>1
    <3> QED
      BY <1>6, <2>1, <2>2, <2>3, <2>4, <3>2
  <2>6. i < j \/ (i = j /\ p - off[i - 1] < r - off[j - 1])
    BY <1>6, <2>3, <2>4, <2>5
  <2> QED
    BY <2>3, <2>4, <2>6
<1> QED
  BY <1>5, <1>6 DEF Parts, s, N

-----------------------------------------------------------------------------
(* A range in order: its nodes are among the W there are. *)
Sound(r, W) ==
  r \in Spans /\ 0 <= r.from /\ r.from <= r.to /\ 0 <= r.dom /\ r.dom + (r.to - r.from) <= W
Before(r, s) == r.to <= s.from /\ r.dom + (r.to - r.from) <= s.dom

(* Its nodes show what the document d has there. *)
Shows(r, ns, d) ==
  \A k \in 1..r.to - r.from : r.from + k <= Len(d) /\ ns[r.dom + k] = d[r.from + k].shows

Ranges(R, W, ns, d) ==
  /\ R \in Seq(Spans)
  /\ \A i \in 1..Len(R) : Sound(R[i], W) /\ Shows(R[i], ns, d)
  /\ \A i, j \in 1..Len(R) : i < j => Before(R[i], R[j])

(* A change of the document d to e as the record of it tells. *)
Changed(c, d, e) ==
  /\ c.to <= Len(d) /\ Len(d) \in Nat /\ Len(e) = Len(d) + c.diff
  /\ \A i \in 1..c.from : e[i].shows = d[i].shows
  /\ \A i \in c.to + 1..Len(d) : e[i + c.diff].shows = d[i].shows

(* What a change may leave of a range. *)
PieceOf(p, r, c) ==
  \/ c.to <= r.from /\ p.from = r.from + c.diff /\ p.to = r.to + c.diff /\ p.dom = r.dom
  \/ c.from >= r.to /\ p.from = r.from /\ p.to = r.to /\ p.dom = r.dom
  \/ c.from > r.from /\ c.from < r.to /\ p.from = r.from /\ p.to = c.from /\ p.dom = r.dom
  \/ c.to < r.to /\ c.to > r.from /\ p.from = c.to + c.diff /\ p.to = r.to + c.diff /\ p.dom = r.dom + (c.to - r.from)

LEMMA PiecesAre ==
  ASSUME NEW r \in Spans, NEW c \in Changes
  PROVE  /\ \A x \in 1..Len(Pieces(r, c)) : PieceOf(Pieces(r, c)[x], r, c)
         /\ \A x, y \in 1..Len(Pieces(r, c)) : x < y =>
              /\ Pieces(r, c)[x].to = c.from /\ Pieces(r, c)[y].from = c.to + c.diff
              /\ Pieces(r, c)[x].from = r.from /\ Pieces(r, c)[x].dom = r.dom
              /\ Pieces(r, c)[y].dom = r.dom + (c.to - r.from)
<1> DEFINE P == Pieces(r, c)
           a == Span(r.from, c.from, r.dom)
           b == Span(c.to + c.diff, r.to + c.diff, r.dom + (c.to - r.from))
           m == Span(r.from + c.diff, r.to + c.diff, r.dom)
<1>1. r.from \in Int /\ r.to \in Int /\ c.from \in Int /\ c.to \in Int
  BY SpanHas, ChangeHas
<1>2. CASE c.to <= r.from
  <2>1. P = <<m>>
    BY <1>1, <1>2 DEF Pieces
  <2>2. PieceOf(m, r, c)
    BY <1>2, SpanIs DEF PieceOf
  <2> HIDE DEF P, m
  <2>3. Len(P) = 1 /\ P[1] = m
    BY <2>1
  <2> QED
    BY <2>2, <2>3 DEF P
<1>3. CASE ~(c.to <= r.from) /\ c.from >= r.to
  <2>1. P = <<r>>
    BY <1>1, <1>3 DEF Pieces
  <2>2. PieceOf(r, r, c)
    BY <1>3 DEF PieceOf
  <2> HIDE DEF P
  <2>3. Len(P) = 1 /\ P[1] = r
    BY <2>1
  <2> QED
    BY <2>2, <2>3 DEF P
<1>4. CASE ~(c.to <= r.from) /\ ~(c.from >= r.to)
  <2>1. P = (IF c.from > r.from THEN <<a>> ELSE <<>>) \o (IF c.to < r.to THEN <<b>> ELSE <<>>)
    BY <1>1, <1>4 DEF Pieces
  <2>2. c.from > r.from => PieceOf(a, r, c)
    BY <1>1, <1>4, SpanIs DEF PieceOf
  <2>3. c.to < r.to => PieceOf(b, r, c)
    BY <1>1, <1>4, SpanIs DEF PieceOf
  <2>4. a.to = c.from /\ a.from = r.from /\ a.dom = r.dom /\ b.from = c.to + c.diff /\ b.dom = r.dom + (c.to - r.from)
    BY SpanIs
  <2> HIDE DEF P, a, b
  <2>5. CASE c.from > r.from /\ c.to < r.to
    <3>1. P = <<a>> \o <<b>>
      BY <2>1, <2>5
    <3>2. Len(P) = 2 /\ P[1] = a /\ P[2] = b
      BY <3>1
    <3>3. \A x \in 1..2 : x = 1 \/ x = 2
      OBVIOUS
    <3>4. \A x, y \in 1..2 : x < y => x = 1 /\ y = 2
      OBVIOUS
    <3>5. \A x \in 1..Len(P) : PieceOf(P[x], r, c)
      BY <2>2, <2>3, <2>5, <3>2, <3>3
    <3>6. \A x, y \in 1..Len(P) : x < y => P[x] = a /\ P[y] = b
      BY <3>2, <3>4
    <3> QED
      BY <2>4, <3>5, <3>6 DEF P
  <2>6. CASE c.from > r.from /\ ~(c.to < r.to)
    <3>1. P = <<a>>
      BY <2>1, <2>6
    <3>2. Len(P) = 1 /\ P[1] = a
      BY <3>1
    <3> QED
      BY <2>2, <2>6, <3>2 DEF P
  <2>7. CASE ~(c.from > r.from) /\ c.to < r.to
    <3>1. P = <<b>>
      BY <2>1, <2>7
    <3>2. Len(P) = 1 /\ P[1] = b
      BY <3>1
    <3> QED
      BY <2>3, <2>7, <3>2 DEF P
  <2>8. CASE ~(c.from > r.from) /\ ~(c.to < r.to)
    <3>1. P = <<>>
      BY <2>1, <2>8
    <3>2. Len(P) = 0
      BY <3>1
    <3> QED
      BY <3>2 DEF P
  <2> QED
    BY <2>5, <2>6, <2>7, <2>8
<1> QED
  BY <1>2, <1>3, <1>4

LEMMA PieceSound ==
  ASSUME NEW r, NEW p \in Spans, NEW W \in Int, NEW c \in Changes, Sound(r, W), PieceOf(p, r, c)
  PROVE  Sound(p, W)
<1>1. /\ r.from \in Int /\ r.to \in Int /\ r.dom \in Int /\ p.from \in Int /\ p.to \in Int /\ p.dom \in Int
      /\ c.from \in Nat /\ c.to \in Nat /\ c.diff \in Int /\ c.from < c.to /\ c.from < c.to + c.diff
  BY SpanHas, ChangeHas DEF Sound
<1> QED
  BY <1>1 DEF Sound, PieceOf

LEMMA PiecesBefore ==
  ASSUME NEW r, NEW s, NEW p \in Spans, NEW t \in Spans, NEW W \in Int, NEW c \in Changes,
         Sound(r, W), Sound(s, W), Before(r, s), PieceOf(p, r, c), PieceOf(t, s, c)
  PROVE  Before(p, t)
<1>1. /\ r.from \in Int /\ r.to \in Int /\ r.dom \in Int /\ p.from \in Int /\ p.to \in Int /\ p.dom \in Int
      /\ s.from \in Int /\ s.to \in Int /\ s.dom \in Int /\ t.from \in Int /\ t.to \in Int /\ t.dom \in Int
      /\ c.from \in Nat /\ c.to \in Nat /\ c.diff \in Int /\ c.from < c.to /\ c.from < c.to + c.diff
  BY SpanHas, ChangeHas DEF Sound
<1>2. r.from <= r.to /\ s.from <= s.to /\ r.to <= s.from /\ r.dom + (r.to - r.from) <= s.dom
  BY DEF Sound, Before
<1>3. CASE c.to <= r.from
  BY <1>1, <1>2, <1>3 DEF PieceOf, Before
<1>4. CASE c.from >= r.to
  BY <1>1, <1>2, <1>4 DEF PieceOf, Before
<1>5. CASE ~(c.to <= r.from) /\ ~(c.from >= r.to)
  BY <1>1, <1>2, <1>5 DEF PieceOf, Before
<1> QED
  BY <1>1, <1>3, <1>4, <1>5

LEMMA PieceShows ==
  ASSUME NEW r, NEW p \in Spans, NEW W \in Int, NEW c \in Changes, Sound(r, W), PieceOf(p, r, c),
         NEW ns, NEW d, NEW e, Shows(r, ns, d), Changed(c, d, e)
  PROVE  Shows(p, ns, e)
<1>1. /\ r.from \in Int /\ r.to \in Int /\ r.dom \in Int /\ p.from \in Int /\ p.to \in Int /\ p.dom \in Int
      /\ c.from \in Nat /\ c.to \in Nat /\ c.diff \in Int /\ c.from < c.to /\ c.from < c.to + c.diff
      /\ 0 <= r.from /\ r.from <= r.to
  BY SpanHas, ChangeHas DEF Sound
<1> DEFINE n == Len(d)
           m == Len(e)
<1>2. c.to <= n /\ n \in Nat /\ m = n + c.diff /\ m \in Int
  BY <1>1 DEF Changed
<1>3. \A k \in 1..r.to - r.from : r.from + k <= n /\ ns[r.dom + k] = d[r.from + k].shows
  BY DEF Shows
<1>7. /\ \A i \in 1..c.from : e[i].shows = d[i].shows
      /\ \A i \in c.to + 1..n : e[i + c.diff].shows = d[i].shows
  BY DEF Changed
<1> HIDE DEF n, m
<1> SUFFICES ASSUME NEW k \in 1..p.to - p.from
             PROVE  p.from + k <= m /\ ns[p.dom + k] = e[p.from + k].shows
  BY DEF Shows, m
<1>8. k \in Int /\ 1 <= k /\ k <= p.to - p.from
  BY <1>1
<1>4. CASE c.to <= r.from /\ p.from = r.from + c.diff /\ p.to = r.to + c.diff /\ p.dom = r.dom
  <2>1. k \in 1..r.to - r.from /\ p.from + k = (r.from + k) + c.diff
    BY <1>1, <1>4, <1>8
  <2>2. r.from + k <= n /\ ns[r.dom + k] = d[r.from + k].shows
    BY <1>3, <2>1
  <2>3. r.from + k \in c.to + 1..n /\ p.from + k <= m
    BY <1>1, <1>2, <1>4, <1>8, <2>2
  <2>4. e[(r.from + k) + c.diff].shows = d[r.from + k].shows
    BY <1>7, <2>3
  <2> QED
    BY <1>4, <2>1, <2>2, <2>3, <2>4
<1>5. CASE (c.from >= r.to \/ (c.from > r.from /\ c.from < r.to)) /\ p.to <= c.from /\ p.from = r.from /\ p.to <= r.to /\ p.dom = r.dom
  <2>1. k \in 1..r.to - r.from /\ p.from + k \in 1..c.from /\ p.from + k <= m
    BY <1>1, <1>2, <1>5, <1>8
  <2>2. ns[r.dom + k] = d[r.from + k].shows
    BY <1>3, <2>1
  <2> QED
    BY <1>7, <1>5, <2>1, <2>2
<1>6. CASE c.to < r.to /\ c.to > r.from /\ p.from = c.to + c.diff /\ p.to = r.to + c.diff /\ p.dom = r.dom + (c.to - r.from)
  <2> DEFINE h == (c.to - r.from) + k
  <2>1. h \in 1..r.to - r.from /\ p.from + k = (r.from + h) + c.diff /\ p.dom + k = r.dom + h
    BY <1>1, <1>6, <1>8
  <2>2. r.from + h > c.to /\ h \in Int
    BY <1>1, <1>8
  <2> HIDE DEF h
  <2>3. r.from + h <= n /\ ns[r.dom + h] = d[r.from + h].shows
    BY <1>3, <2>1
  <2>4. r.from + h \in c.to + 1..n /\ p.from + k <= m
    BY <1>1, <1>2, <2>1, <2>2, <2>3
  <2>5. e[(r.from + h) + c.diff].shows = d[r.from + h].shows
    BY <1>7, <2>4
  <2> QED
    BY <2>1, <2>3, <2>4, <2>5
<1> QED
  BY <1>1, <1>4, <1>5, <1>6 DEF PieceOf

(* A change leaves good what it does not touch. *)
LEMMA PunchedRanges ==
  ASSUME NEW R, NEW W \in Int, NEW ns, NEW d, NEW e, NEW c \in Changes, Ranges(R, W, ns, d), Changed(c, d, e)
  PROVE  Ranges(Punched(R, c), W, ns, e)
<1> DEFINE q == [i \in DOMAIN R |-> Pieces(R[i], c)]
           P == Punched(R, c)
           N == Len(R)
<1>1. /\ R \in Seq(Spans) /\ N \in Nat /\ DOMAIN R = 1..N
      /\ \A i \in 1..N : R[i] \in Spans /\ Sound(R[i], W) /\ Shows(R[i], ns, d)
      /\ \A i, j \in 1..N : i < j => Before(R[i], R[j])
  BY DEF Ranges
<1>2. q \in Seq(Seq(Spans)) /\ P \in Seq(Spans) /\ P = FlattenSeq(q) /\ Len(q) = N
      /\ \A i \in 1..N : q[i] = Pieces(R[i], c)
  BY <1>1, PunchedTyped DEF Punched
<1>3. Parts(P, q, N)
  <2> HIDE DEF q, P, N
  <2> QED
    BY <1>2, FlatParts
<1> HIDE DEF q, P, N
<1>4. \A i \in 1..N : \A k \in 1..Len(q[i]) : PieceOf(q[i][k], R[i], c)
  BY <1>1, <1>2, PiecesAre
<1>5. \A p \in 1..Len(P) : P[p] \in Spans
  BY <1>2
<1>6. ASSUME NEW p \in 1..Len(P)
      PROVE  Sound(P[p], W) /\ Shows(P[p], ns, e)
  <2>4. PICK i \in 1..N : \E k \in 1..Len(q[i]) : P[p] = q[i][k]
    BY <1>3 DEF Parts
  <2>1. PieceOf(P[p], R[i], c)
    BY <1>4, <2>4
  <2>2. Sound(R[i], W) /\ Shows(R[i], ns, d) /\ P[p] \in Spans
    BY <1>1, <1>5
  <2>3. Sound(P[p], W)
    BY <2>1, <2>2, PieceSound
  <2>5. Shows(P[p], ns, e)
    BY <2>1, <2>2, PieceShows
  <2> QED
    BY <2>3, <2>5
<1>7. ASSUME NEW p \in 1..Len(P), NEW r \in 1..Len(P), p < r
      PROVE  Before(P[p], P[r])
  <2>0. PICK i \in 1..N, j \in 1..N : \E k \in 1..Len(q[i]) : \E l \in 1..Len(q[j]) :
          P[p] = q[i][k] /\ P[r] = q[j][l] /\ (i < j \/ (i = j /\ k < l))
    BY <1>3, <1>7 DEF Parts
  <2>1. PICK k \in 1..Len(q[i]) : \E l \in 1..Len(q[j]) :
          P[p] = q[i][k] /\ P[r] = q[j][l] /\ (i < j \/ (i = j /\ k < l))
    BY <2>0
  <2>5. PICK l \in 1..Len(q[j]) : P[p] = q[i][k] /\ P[r] = q[j][l] /\ (i < j \/ (i = j /\ k < l))
    BY <2>1
  <2>2. PieceOf(P[p], R[i], c) /\ PieceOf(P[r], R[j], c) /\ P[p] \in Spans /\ P[r] \in Spans
    BY <1>4, <1>5, <2>5
  <2>3. CASE i < j
    <3>1. Sound(R[i], W) /\ Sound(R[j], W) /\ Before(R[i], R[j])
      BY <1>1, <2>3
    <3> QED
      BY <2>2, <3>1, PiecesBefore
  <2>4. CASE i = j /\ k < l
    <3>1. /\ P[p].to = c.from /\ P[r].from = c.to + c.diff /\ P[p].from = R[i].from /\ P[p].dom = R[i].dom
          /\ P[r].dom = R[i].dom + (c.to - R[i].from)
      BY <1>1, <1>2, <2>5, <2>4, PiecesAre
    <3>2. R[i].from \in Int /\ R[i].dom \in Int /\ c.from \in Nat /\ c.to \in Nat /\ c.diff \in Int /\ c.from < c.to /\ c.from < c.to + c.diff
      BY <1>1, SpanHas, ChangeHas
    <3> DEFINE f == R[i].from
               m == R[i].dom
    <3>3. c.from <= c.to + c.diff /\ m + (c.from - f) <= m + (c.to - f)
      <4> DEFINE u == c.from
                 v == c.to
                 w == c.diff
      <4>1. u \in Nat /\ v \in Nat /\ w \in Int /\ u < v /\ u < v + w /\ f \in Int /\ m \in Int
        BY <3>2
      <4> HIDE DEF u, v, w, f, m
      <4>2. u <= v + w /\ m + (u - f) <= m + (v - f)
        BY <4>1
      <4> QED
        BY <4>2 DEF u, v, w
    <3>4. P[p].to <= P[r].from
      BY <3>1, <3>3
    <3>5. P[p].dom + (P[p].to - P[p].from) = m + (c.from - f) /\ P[r].dom = m + (c.to - f)
      BY <3>1
    <3> HIDE DEF f, m
    <3> QED
      BY <3>3, <3>4, <3>5 DEF Before
  <2> QED
    BY <2>5, <2>3, <2>4
<1>8. P \in Seq(Spans)
  BY <1>2
<1> QED
  BY <1>6, <1>7, <1>8 DEF Ranges, P

(* What a range has in the window. *)
InWindowOf(p, r, from, to) ==
  /\ p.from = More(r.from, from) /\ p.to = Fewer(r.to, to)
  /\ p.dom = r.dom + More(0, from - r.from) /\ p.from < p.to

LEMMA InWindowIs ==
  ASSUME NEW r \in Spans, NEW from \in Int, NEW to \in Int
  PROVE  /\ InWindow(r, from, to) \in Seq(Spans)
         /\ \A x \in 1..Len(InWindow(r, from, to)) : x = 1 /\ InWindowOf(InWindow(r, from, to)[x], r, from, to)
<1> DEFINE P == InWindow(r, from, to)
           a == Span(More(r.from, from), Fewer(r.to, to), r.dom + More(0, from - r.from))
<1>1. r.from \in Int /\ r.to \in Int /\ r.dom \in Int
  BY SpanHas
<1>2. More(r.from, from) \in Int /\ Fewer(r.to, to) \in Int /\ r.dom + More(0, from - r.from) \in Int
  BY <1>1 DEF More, Fewer
<1>3. a \in Spans
  BY <1>2, SpanIs
<1>4. CASE More(r.from, from) < Fewer(r.to, to)
  <2>1. P = <<a>>
    BY <1>4 DEF InWindow
  <2>2. InWindowOf(a, r, from, to)
    <3>1. a.from = More(r.from, from) /\ a.to = Fewer(r.to, to) /\ a.dom = r.dom + More(0, from - r.from)
      BY SpanIs
    <3> HIDE DEF a
    <3> QED
      BY <1>4, <3>1 DEF InWindowOf
  <2> HIDE DEF P, a
  <2>3. Len(P) = 1 /\ P[1] = a /\ P \in Seq(Spans)
    BY <2>1, <1>3
  <2> QED
    BY <2>2, <2>3 DEF P
<1>5. CASE ~(More(r.from, from) < Fewer(r.to, to))
  <2>1. P = <<>>
    BY <1>5 DEF InWindow
  <2> HIDE DEF P
  <2>2. Len(P) = 0 /\ P \in Seq(Spans)
    BY <2>1
  <2> QED
    BY <2>2 DEF P
<1> QED
  BY <1>4, <1>5

LEMMA InWindowGood ==
  ASSUME NEW r, NEW p \in Spans, NEW W \in Int, NEW from \in Int, NEW to \in Int,
         Sound(r, W), InWindowOf(p, r, from, to), NEW ns, NEW d, Shows(r, ns, d)
  PROVE  Sound(p, W) /\ Shows(p, ns, d) /\ from <= p.from /\ p.from < p.to /\ p.to <= to
<1>1. /\ r.from \in Int /\ r.to \in Int /\ r.dom \in Int /\ p.from \in Int /\ p.to \in Int /\ p.dom \in Int
      /\ 0 <= r.from /\ r.from <= r.to
  BY SpanHas DEF Sound
<1>2. Sound(p, W) /\ from <= p.from /\ p.from < p.to /\ p.to <= to
  BY <1>1 DEF Sound, InWindowOf, More, Fewer
<1>3. ASSUME NEW k \in 1..p.to - p.from
      PROVE  p.from + k <= Len(d) /\ ns[p.dom + k] = d[p.from + k].shows
  <2> DEFINE h == (p.from - r.from) + k
  <2>1. h \in 1..r.to - r.from /\ p.from + k = r.from + h /\ p.dom + k = r.dom + h
    BY <1>1 DEF InWindowOf, More, Fewer
  <2> HIDE DEF h
  <2>2. r.from + h <= Len(d) /\ ns[r.dom + h] = d[r.from + h].shows
    BY <2>1 DEF Shows
  <2> QED
    BY <2>1, <2>2
<1> QED
  BY <1>2, <1>3 DEF Shows

LEMMA InWindowBefore ==
  ASSUME NEW r, NEW s, NEW p \in Spans, NEW t \in Spans, NEW W \in Int, NEW from \in Int, NEW to \in Int,
         Sound(r, W), Sound(s, W), Before(r, s), InWindowOf(p, r, from, to), InWindowOf(t, s, from, to)
  PROVE  Before(p, t)
<1>1. /\ r.from \in Int /\ r.to \in Int /\ r.dom \in Int /\ p.from \in Int /\ p.to \in Int /\ p.dom \in Int
      /\ s.from \in Int /\ s.to \in Int /\ s.dom \in Int /\ t.from \in Int /\ t.to \in Int /\ t.dom \in Int
  BY SpanHas DEF Sound
<1>2. r.from <= r.to /\ s.from <= s.to /\ r.to <= s.from /\ r.dom + (r.to - r.from) <= s.dom
  BY DEF Sound, Before
<1> QED
  BY <1>1, <1>2 DEF InWindowOf, Before, More, Fewer

(* The ranges of the window are as good, and lie in it. *)
InsideOf(R, from, to) == \A i \in 1..Len(R) : from <= R[i].from /\ R[i].from < R[i].to /\ R[i].to <= to

LEMMA ClippedRanges ==
  ASSUME NEW R, NEW W \in Int, NEW ns, NEW d, Ranges(R, W, ns, d), NEW from \in Int, NEW to \in Int
  PROVE  Ranges(Clipped(R, from, to), W, ns, d) /\ InsideOf(Clipped(R, from, to), from, to)
<1> DEFINE q == [i \in DOMAIN R |-> InWindow(R[i], from, to)]
           P == Clipped(R, from, to)
           N == Len(R)
<1>1. /\ R \in Seq(Spans) /\ N \in Nat /\ DOMAIN R = 1..N
      /\ \A i \in 1..N : R[i] \in Spans /\ Sound(R[i], W) /\ Shows(R[i], ns, d)
      /\ \A i, j \in 1..N : i < j => Before(R[i], R[j])
  BY DEF Ranges
<1>2. q \in Seq(Seq(Spans)) /\ P = FlattenSeq(q) /\ Len(q) = N
      /\ \A i \in 1..N : q[i] = InWindow(R[i], from, to)
  <2> DEFINE X == Seq(Spans)
  <2>1. \A i \in 1..N : InWindow(R[i], from, to) \in X
    BY <1>1, InWindowIs
  <2> HIDE DEF X
  <2>2. q \in Seq(X) /\ Len(q) = N /\ \A i \in 1..N : q[i] = InWindow(R[i], from, to)
    BY <1>1, <2>1
  <2> QED
    BY <2>2 DEF X, Clipped
<1>3. Parts(P, q, N) /\ P \in Seq(Spans)
  <2> HIDE DEF q, P, N
  <2> QED
    BY <1>2, FlatParts, FlatPlaced
<1> HIDE DEF q, P, N
<1>4. \A i \in 1..N : \A k \in 1..Len(q[i]) : k = 1 /\ InWindowOf(q[i][k], R[i], from, to)
  BY <1>1, <1>2, InWindowIs
<1>5. \A p \in 1..Len(P) : P[p] \in Spans
  BY <1>3
<1>6. ASSUME NEW p \in 1..Len(P)
      PROVE  Sound(P[p], W) /\ Shows(P[p], ns, d) /\ from <= P[p].from /\ P[p].from < P[p].to /\ P[p].to <= to
  <2>1. PICK i \in 1..N : \E k \in 1..Len(q[i]) : P[p] = q[i][k]
    BY <1>3 DEF Parts
  <2>2. InWindowOf(P[p], R[i], from, to)
    BY <1>4, <2>1
  <2>3. Sound(R[i], W) /\ Shows(R[i], ns, d) /\ P[p] \in Spans
    BY <1>1, <1>5
  <2> QED
    BY <2>2, <2>3, InWindowGood
<1>7. ASSUME NEW p \in 1..Len(P), NEW r \in 1..Len(P), p < r
      PROVE  Before(P[p], P[r])
  <2>1. PICK i \in 1..N, j \in 1..N : \E k \in 1..Len(q[i]) : \E l \in 1..Len(q[j]) :
          P[p] = q[i][k] /\ P[r] = q[j][l] /\ (i < j \/ (i = j /\ k < l))
    BY <1>3, <1>7 DEF Parts
  <2>2. PICK k \in 1..Len(q[i]) : \E l \in 1..Len(q[j]) :
          P[p] = q[i][k] /\ P[r] = q[j][l] /\ (i < j \/ (i = j /\ k < l))
    BY <2>1
  <2>3. PICK l \in 1..Len(q[j]) : P[p] = q[i][k] /\ P[r] = q[j][l] /\ (i < j \/ (i = j /\ k < l))
    BY <2>2
  <2>4. InWindowOf(P[p], R[i], from, to) /\ InWindowOf(P[r], R[j], from, to) /\ k = 1 /\ l = 1
    BY <1>4, <2>3
  <2>5. i < j
    BY <2>3, <2>4
  <2>6. Sound(R[i], W) /\ Sound(R[j], W) /\ Before(R[i], R[j]) /\ P[p] \in Spans /\ P[r] \in Spans
    BY <1>1, <1>5, <2>5
  <2> QED
    BY <2>4, <2>6, InWindowBefore
<1> QED
  BY <1>3, <1>6, <1>7 DEF Ranges, InsideOf, P

-----------------------------------------------------------------------------
(* The lines of the ranges before each, and of all of them. *)
Size(r) == r.to - r.from
Counted(l, R) == l[0] = 0 /\ \A i \in 1..Len(R) : l[i] = l[i - 1] + Size(R[i])

LEMMA LinesExist ==
  ASSUME NEW R \in Seq(Spans)
  PROVE  \E f : f = [i \in 0..Len(R) |-> IF i = 0 THEN 0 ELSE f[i - 1] + (R[i].to - R[i].from)]
<1> DEFINE N == Len(R)
           g == [n \in 1..N |-> [x \in Int |-> x + (R[n].to - R[n].from)]]
<1>0. N \in Nat /\ \A i \in 1..N : R[i] \in Spans
  OBVIOUS
<1>1. \A n \in 1..N : \A x \in Int : g[n][x] = x + (R[n].to - R[n].from)
  OBVIOUS
<1>2. \A x \in Int : \A n \in 1..N : x + (R[n].to - R[n].from) \in Int
  BY <1>0, SpanHas
<1> HIDE DEF g, N
<1>3. PICK r : Continues(r, 0, g, N)
  BY <1>0, Recursion
<1>4. r[0] = 0 /\ \A n \in 1..N : r[n] = g[n][r[n - 1]]
  BY <1>3 DEF Continues
<1>5. \A n \in 0..N : r[n] \in Int
  <2>1. \A n \in 1..N : r[n - 1] \in Int => r[n] \in Int
    BY <1>1, <1>2, <1>4
  <2>2. r[0] \in Int
    BY <1>4
  <2> QED
    BY <1>0, <2>1, <2>2, StaysIn
<1> DEFINE f == [k \in 0..N |-> r[k]]
<1>6. ASSUME NEW k \in 0..N
      PROVE  f[k] = IF k = 0 THEN 0 ELSE f[k - 1] + (R[k].to - R[k].from)
  <2>1. CASE k = 0
    BY <1>4, <2>1
  <2>2. CASE k # 0
    <3>1. k \in 1..N /\ k - 1 \in 0..N
      BY <1>0, <2>2
    <3>2. r[k] = r[k - 1] + (R[k].to - R[k].from)
      BY <1>1, <1>4, <1>5, <3>1
    <3> QED
      BY <2>2, <3>1, <3>2
  <2> QED
    BY <2>1, <2>2
<1>7. f = [k \in 0..N |-> f[k]]
  OBVIOUS
<1> HIDE DEF f
<1>8. f = [k \in 0..N |-> IF k = 0 THEN 0 ELSE f[k - 1] + (R[k].to - R[k].from)]
  BY <1>6, <1>7
<1> QED
  BY <1>8 DEF N

LEMMA LinesCounted ==
  ASSUME NEW R \in Seq(Spans)
  PROVE  \E l : Counted(l, R) /\ IntactLines(R) = l[Len(R)]
<1> DEFINE N == Len(R)
           lines[i \in 0..N] == IF i = 0 THEN 0 ELSE lines[i - 1] + (R[i].to - R[i].from)
<1>0. N \in Nat
  OBVIOUS
<1>1. lines = [i \in 0..N |-> IF i = 0 THEN 0 ELSE lines[i - 1] + (R[i].to - R[i].from)]
  <2>1. \E f : f = [i \in 0..Len(R) |-> IF i = 0 THEN 0 ELSE f[i - 1] + (R[i].to - R[i].from)]
    BY LinesExist
  <2> QED
    BY <2>1
<1>2. IntactLines(R) = lines[N]
  BY DEF IntactLines
<1> HIDE DEF lines, N
<1>3. lines[0] = 0 /\ \A i \in 1..N : lines[i] = lines[i - 1] + (R[i].to - R[i].from)
  <2>1. 0 \in 0..N /\ \A i \in 1..N : i \in 0..N /\ i # 0
    BY <1>0
  <2> QED
    BY <1>1, <2>1
<1>4. Counted(lines, R)
  BY <1>3 DEF Counted, Size, N
<1> QED
  BY <1>2, <1>4 DEF N

LEMMA CountedTyped ==
  ASSUME NEW R, NEW l, Counted(l, R), NEW W \in Int, NEW ns, NEW d, Ranges(R, W, ns, d)
  PROVE  /\ \A i \in 0..Len(R) : l[i] \in Nat
         /\ \A i \in 1..Len(R) : Size(R[i]) \in Nat
         /\ \A a, b \in 0..Len(R) : a <= b => l[a] <= l[b]
<1> DEFINE N == Len(R)
<1>1. /\ R \in Seq(Spans) /\ N \in Nat
      /\ \A i \in 1..N : R[i] \in Spans /\ Sound(R[i], W)
  BY DEF Ranges
<1>2. \A i \in 1..N : Size(R[i]) \in Nat
  <2> SUFFICES ASSUME NEW i \in 1..N PROVE Size(R[i]) \in Nat
    OBVIOUS
  <2>1. R[i].from \in Int /\ R[i].to \in Int /\ R[i].from <= R[i].to
    BY <1>1, SpanHas DEF Sound
  <2> QED
    BY <2>1 DEF Size
<1> HIDE DEF N
<1>3. l[0] = 0 /\ \A i \in 1..N : l[i] = l[i - 1] + Size(R[i])
  BY DEF Counted, N
<1>4. \A i \in 0..N : l[i] \in Nat
  <2>1. \A i \in 1..N : l[i - 1] \in Nat => l[i] \in Nat
    BY <1>2, <1>3
  <2>2. l[0] \in Nat
    BY <1>3
  <2> QED
    BY <1>1, <2>1, <2>2, StaysIn
<1>5. \A i \in 0 + 1..N : l[i - 1] <= l[i]
  <2> SUFFICES ASSUME NEW i \in 1..N PROVE l[i - 1] <= l[i]
    OBVIOUS
  <2>1. i - 1 \in 0..N
    BY <1>1
  <2>2. l[i - 1] \in Nat /\ Size(R[i]) \in Nat /\ l[i] = l[i - 1] + Size(R[i])
    BY <1>2, <1>3, <1>4, <2>1
  <2> QED
    BY <2>2
<1>6. 0 \in Nat /\ N \in Int /\ \A i \in 0..N : l[i] \in Int
  BY <1>1, <1>4
<1>7. \A a, b \in 0..N : a <= b => l[a] <= l[b]
  BY <1>5, <1>6, Rising
<1> QED
  BY <1>2, <1>4, <1>7 DEF N

(* Every number up to the last lies between two of them. *)
LEMMA Lies ==
  ASSUME NEW N \in Nat, NEW l, l[0] = 0, \A i \in 0..N : l[i] \in Nat, NEW p \in 1..l[N]
  PROVE  \E i \in 1..N : l[i - 1] < p /\ p <= l[i]
<1> DEFINE Over == {i \in 0..N : p <= l[i]}
<1>1. N \in Over /\ 0 \notin Over /\ Over \subseteq Nat
  OBVIOUS
<1>2. PICK i \in Over : \A j \in Over : i <= j
  <2> HIDE DEF Over
  <2> QED
    BY <1>1, LeastNumber
<1>3. i \in 1..N /\ i - 1 \in 0..N /\ ~(i <= i - 1)
  BY <1>1
<1>4. ~(p <= l[i - 1]) /\ l[i - 1] \in Nat
  BY <1>2, <1>3
<1> QED
  BY <1>2, <1>3, <1>4

(* Ranges in order that are as many lines as their window are the window. *)
LEMMA Covered ==
  ASSUME NEW R, NEW l, Counted(l, R), NEW from \in Int, NEW to \in Int, NEW ns, NEW d,
         Ranges(R, to - from, ns, d), InsideOf(R, from, to), l[Len(R)] = to - from
  PROVE  \A k \in 1..to - from : from + k <= Len(d) /\ ns[k] = d[from + k].shows
<1> DEFINE N == Len(R)
           W == to - from
<1>0. W \in Int /\ N \in Nat
  BY DEF Ranges
<1>1. /\ \A i \in 1..N : R[i] \in Spans /\ Sound(R[i], W) /\ Shows(R[i], ns, d)
      /\ \A i, j \in 1..N : i < j => Before(R[i], R[j])
  BY DEF Ranges
<1>2. /\ \A i \in 0..N : l[i] \in Nat
      /\ \A i \in 1..N : Size(R[i]) \in Nat
  BY <1>0, CountedTyped
<1>3. l[0] = 0 /\ l[N] = W /\ \A i \in 1..N : l[i] = l[i - 1] + Size(R[i])
  BY DEF Counted
<1>4. \A i \in 1..N : from <= R[i].from /\ R[i].to <= to
  BY DEF InsideOf
<1> HIDE DEF N, W
<1>5. \A i \in 1..N : R[i].from \in Int /\ R[i].to \in Int /\ R[i].dom \in Int /\ 0 <= R[i].dom
                      /\ R[i].dom + Size(R[i]) <= W /\ R[i].to = R[i].from + Size(R[i])
  <2> SUFFICES ASSUME NEW i \in 1..N
               PROVE  R[i].from \in Int /\ R[i].to \in Int /\ R[i].dom \in Int /\ 0 <= R[i].dom
                      /\ R[i].dom + Size(R[i]) <= W /\ R[i].to = R[i].from + Size(R[i])
    OBVIOUS
  <2>1. R[i].from \in Int /\ R[i].to \in Int /\ R[i].dom \in Int
    BY <1>1, SpanHas
  <2> QED
    BY <1>1, <2>1 DEF Sound, Size
<1>6. \A i \in 1..N : i - 1 \in 0..N /\ i \in 0..N
  BY <1>0
<1>7. \A i \in 1 + 1..N : /\ R[i - 1].from + Size(R[i - 1]) <= R[i].from
                          /\ R[i - 1].dom + Size(R[i - 1]) <= R[i].dom
                          /\ l[i - 1] = l[(i - 1) - 1] + Size(R[i - 1])
  <2> SUFFICES ASSUME NEW i \in 1 + 1..N
               PROVE  /\ R[i - 1].from + Size(R[i - 1]) <= R[i].from
                      /\ R[i - 1].dom + Size(R[i - 1]) <= R[i].dom
                      /\ l[i - 1] = l[(i - 1) - 1] + Size(R[i - 1])
    OBVIOUS
  <2>1. i - 1 \in 1..N /\ i \in 1..N /\ i - 1 < i
    BY <1>0
  <2>2. Before(R[i - 1], R[i])
    BY <1>1, <2>1
  <2> QED
    BY <1>3, <1>5, <2>1, <2>2 DEF Before, Size
<1> DEFINE e == [i \in 1..N |-> R[i].from - l[i - 1]]
           m == [i \in 1..N |-> R[i].dom - l[i - 1]]
<1>8. \A i \in 1..N : e[i] = R[i].from - l[i - 1] /\ m[i] = R[i].dom - l[i - 1] /\ e[i] \in Int /\ m[i] \in Int
  <2>1. \A i \in 1..N : R[i].from - l[i - 1] \in Int /\ R[i].dom - l[i - 1] \in Int
    BY <1>2, <1>5, <1>6
  <2> QED
    BY <2>1
<1> HIDE DEF e, m
<1>9. \A i \in 1 + 1..N : e[i - 1] <= e[i] /\ m[i - 1] <= m[i]
  <2> SUFFICES ASSUME NEW i \in 1 + 1..N PROVE e[i - 1] <= e[i] /\ m[i - 1] <= m[i]
    OBVIOUS
  <2>1. i - 1 \in 1..N /\ i \in 1..N /\ (i - 1) - 1 \in 0..N
    BY <1>0
  <2> DEFINE f0 == R[i - 1].from
             f1 == R[i].from
             d0 == R[i - 1].dom
             d1 == R[i].dom
             s0 == Size(R[i - 1])
             l0 == l[(i - 1) - 1]
             l1 == l[i - 1]
  <2>2. /\ e[i - 1] = f0 - l0 /\ e[i] = f1 - l1 /\ m[i - 1] = d0 - l0 /\ m[i] = d1 - l1
        /\ f0 + s0 <= f1 /\ d0 + s0 <= d1 /\ l1 = l0 + s0
        /\ f0 \in Int /\ f1 \in Int /\ d0 \in Int /\ d1 \in Int /\ s0 \in Int /\ l0 \in Int /\ l1 \in Int
    BY <1>2, <1>5, <1>6, <1>7, <1>8, <2>1
  <2> HIDE DEF f0, f1, d0, d1, s0, l0, l1
  <2> QED
    BY <2>2
<1>10. \A a, b \in 1..N : a <= b => e[a] <= e[b] /\ m[a] <= m[b]
  <2>1. 1 \in Nat /\ N \in Int /\ \A i \in 1..N : e[i] \in Int /\ m[i] \in Int
    BY <1>0, <1>8
  <2>2. \A a, b \in 1..N : a <= b => e[a] <= e[b]
    BY <1>9, <2>1, Rising
  <2>3. \A a, b \in 1..N : a <= b => m[a] <= m[b]
    BY <1>9, <2>1, Rising
  <2> QED
    BY <2>2, <2>3
<1>11. ASSUME NEW i \in 1..N
       PROVE  R[i].from = from + l[i - 1] /\ R[i].dom = l[i - 1]
  <2>1. 1 \in 1..N /\ N \in 1..N /\ 1 <= i /\ i <= N /\ i - 1 \in 0..N /\ N - 1 \in 0..N
    BY <1>0
  <2>2. from <= e[1] /\ 0 <= m[1]
    <3>1. l[1 - 1] = 0 /\ from <= R[1].from /\ 0 <= R[1].dom /\ R[1].from \in Int /\ R[1].dom \in Int
      BY <1>3, <1>4, <1>5, <2>1
    <3>2. e[1] = R[1].from - l[1 - 1] /\ m[1] = R[1].dom - l[1 - 1]
      BY <1>8, <2>1
    <3> QED
      BY <3>1, <3>2
  <2>3. e[N] <= from /\ m[N] <= 0
    <3> DEFINE f1 == R[N].from
               d1 == R[N].dom
               s1 == Size(R[N])
               l1 == l[N - 1]
    <3>1. e[N] = f1 - l1 /\ m[N] = d1 - l1
      BY <1>8, <2>1
    <3>2. f1 \in Int /\ d1 \in Int /\ s1 \in Int /\ d1 + s1 <= W /\ R[N].to = f1 + s1
      <4>1. Size(R[N]) \in Nat
        BY <1>2, <2>1
      <4>2. s1 \in Int
        BY <4>1
      <4> QED
        BY <1>5, <2>1, <4>2, Zenon
    <3>3. R[N].to <= to
      BY <1>4, <2>1
    <3>4. l1 \in Int /\ W = l1 + s1
      BY <1>2, <1>3, <2>1
    <3>5. W = to - from
      BY DEF W
    <3> HIDE DEF f1, d1, s1, l1
    <3>6. f1 + s1 <= to /\ d1 + s1 <= l1 + s1 /\ l1 + s1 = to - from
      BY <3>2, <3>3, <3>4, <3>5
    <3>7. f1 - l1 <= from /\ d1 - l1 <= 0
      BY <3>2, <3>4, <3>6
    <3> QED
      BY <3>1, <3>7
  <2>4. e[1] <= e[i] /\ e[i] <= e[N] /\ m[1] <= m[i] /\ m[i] <= m[N]
    BY <1>10, <2>1
  <2>5. e[i] = from /\ m[i] = 0
    <3>1. e[1] \in Int /\ e[i] \in Int /\ e[N] \in Int /\ m[1] \in Int /\ m[i] \in Int /\ m[N] \in Int
      BY <1>8, <2>1
    <3>2. ASSUME NEW x \in Int, NEW y \in Int, NEW z \in Int, NEW b \in Int, b <= x, x <= y, y <= z, z <= b
          PROVE  y = b
      BY <3>2
    <3>3. e[i] = from
      BY <2>2, <2>3, <2>4, <3>1, <3>2
    <3>4. m[i] = 0
      BY <2>2, <2>3, <2>4, <3>1, <3>2
    <3> QED
      BY <3>3, <3>4
  <2> DEFINE L == l[i - 1]
             f == R[i].from
             o == R[i].dom
  <2>6. L \in Int /\ f \in Int /\ o \in Int
    BY <1>2, <1>5, <2>1
  <2>7. f - L = from /\ o - L = 0
    BY <1>8, <2>5
  <2> HIDE DEF L, f, o
  <2>8. f = from + L /\ o = L
    BY <2>6, <2>7
  <2> QED
    BY <2>8 DEF L, f, o
<1>12. ASSUME NEW k \in 1..W
       PROVE  from + k <= Len(d) /\ ns[k] = d[from + k].shows
  <2>1. k \in 1..l[N]
    BY <1>3
  <2>2. PICK i \in 1..N : l[i - 1] < k /\ k <= l[i]
    BY <1>0, <1>2, <1>3, <2>1, Lies
  <2> DEFINE h == k - l[i - 1]
  <2>3. l[i - 1] \in Nat /\ l[i] \in Nat /\ l[i] = l[i - 1] + Size(R[i]) /\ Size(R[i]) \in Nat
    BY <1>2, <1>3, <1>6
  <2>4. h \in 1..Size(R[i]) /\ l[i - 1] + h = k /\ h \in Int
    BY <1>0, <2>2, <2>3
  <2> HIDE DEF h
  <2>5. R[i].from + h <= Len(d) /\ ns[R[i].dom + h] = d[R[i].from + h].shows
    BY <1>1, <2>4 DEF Shows, Size
  <2>6. R[i].from + h = from + k /\ R[i].dom + h = k
    <3> DEFINE L == l[i - 1]
    <3>1. R[i].from = from + L /\ R[i].dom = L /\ L \in Int /\ L + h = k
      BY <1>11, <2>3, <2>4
    <3> HIDE DEF L
    <3>2. (from + L) + h = from + k
      BY <2>4, <3>1
    <3> QED
      BY <3>1, <3>2
  <2> QED
    BY <2>5, <2>6
<1> QED
  BY <1>12 DEF W

-----------------------------------------------------------------------------
(* The nodes that stay, and the walk along them. *)
LEMMA PartOf ==
  ASSUME NEW S, NEW q \in Seq(S), NEW a \in Nat, NEW n \in Nat, a + n <= Len(q)
  PROVE  /\ SubSeq(q, a + 1, a + n) \in Seq(S) /\ Len(SubSeq(q, a + 1, a + n)) = n
         /\ \A k \in 1..n : SubSeq(q, a + 1, a + n)[k] = q[a + k]
<1> DEFINE m == a + 1
           b == a + n
           p == SubSeq(q, m, b)
<1>1. Len(q) \in Nat /\ m \in Int /\ b \in Int
  OBVIOUS
<1>2. \A i \in m..b : q[i] \in S
  BY <1>1
<1>3. (IF m <= b THEN b - m + 1 ELSE 0) = n /\ \A k \in 1..n : k \in 1..b - m + 1 /\ m + k - 1 = a + k
  OBVIOUS
<1> HIDE DEF m, b
<1>4. /\ p \in Seq(S) /\ Len(p) = (IF m <= b THEN b - m + 1 ELSE 0)
      /\ \A i \in 1..b - m + 1 : p[i] = q[m + i - 1]
  BY <1>1, <1>2, SubSeqProperties
<1> HIDE DEF p
<1>5. p \in Seq(S) /\ Len(p) = n /\ \A k \in 1..n : p[k] = q[a + k]
  BY <1>3, <1>4
<1> QED
  BY <1>5 DEF p, m, b

(* Each node that stays shows the line it stands for. *)
Stands(off, R, kept) ==
  /\ off[0] = 0 /\ off[Len(R)] = Len(kept)
  /\ \A i \in 0..Len(R) : off[i] \in Nat
  /\ \A i \in 1..Len(R) : off[i] = off[i - 1] + Size(R[i])
  /\ \A i \in 1..Len(R) : \A k \in 1..Size(R[i]) : kept[off[i - 1] + k] = doc[R[i].from + k].shows

LEMMA KeptStand ==
  ASSUME NEW R, NEW W \in Int, nodes \in Seq(Nat), Ranges(R, W, nodes, doc), Len(R) > 0 => W <= Len(nodes)
  PROVE  KeptNodes(R) \in Seq(Nat) /\ \E off : Stands(off, R, KeptNodes(R))
<1> DEFINE q == [i \in DOMAIN R |-> SubSeq(nodes, R[i].dom + 1, R[i].dom + R[i].to - R[i].from)]
           N == Len(R)
           X == Seq(Nat)
<1>1. /\ R \in Seq(Spans) /\ N \in Nat /\ DOMAIN R = 1..N
      /\ \A i \in 1..N : R[i] \in Spans /\ Sound(R[i], W) /\ Shows(R[i], nodes, doc)
  BY DEF Ranges
<1>2. ASSUME NEW i \in 1..N
      PROVE  /\ q[i] \in X /\ Len(q[i]) = Size(R[i])
             /\ \A k \in 1..Size(R[i]) : q[i][k] = doc[R[i].from + k].shows
  <2> DEFINE a == R[i].dom
             n == Size(R[i])
             p == SubSeq(nodes, a + 1, a + n)
  <2>1. R[i].from \in Int /\ R[i].to \in Int /\ a \in Int /\ 0 <= a /\ R[i].from <= R[i].to
        /\ a + (R[i].to - R[i].from) <= W
    BY <1>1, SpanHas DEF Sound
  <2>2. n \in Nat /\ a \in Nat /\ a + n <= W /\ a + R[i].to - R[i].from = a + n
    BY <2>1 DEF Size
  <2>3. N > 0 /\ W <= Len(nodes) /\ Len(nodes) \in Nat
    BY <1>1
  <2>4. q[i] = p
    BY <1>1, <2>2
  <2>5. \A k \in 1..n : nodes[a + k] = doc[R[i].from + k].shows
    BY <1>1 DEF Shows, Size
  <2> HIDE DEF q, N, a, n
  <2>6. a + n <= Len(nodes)
    BY <2>2, <2>3
  <2>7. p \in Seq(Nat) /\ Len(p) = n /\ \A k \in 1..n : p[k] = nodes[a + k]
    <3> HIDE DEF p
    <3> QED
      BY <2>2, <2>6, PartOf DEF p
  <2> HIDE DEF p
  <2> QED
    BY <2>4, <2>5, <2>7 DEF n
<1>3. q \in Seq(X) /\ Len(q) = N
  <2>1. \A i \in 1..N : SubSeq(nodes, R[i].dom + 1, R[i].dom + R[i].to - R[i].from) \in X
    BY <1>1, <1>2
  <2> HIDE DEF X
  <2> QED
    BY <1>1, <2>1
<1>4. KeptNodes(R) = FlattenSeq(q)
  BY DEF KeptNodes
<1> HIDE DEF q
<1>5. KeptNodes(R) \in Seq(Nat) /\ \E off : LaidOut(off, q, KeptNodes(R))
  BY <1>3, <1>4, FlatPlaced
<1>6. PICK off : LaidOut(off, q, KeptNodes(R))
  BY <1>5
<1> HIDE DEF N, X
<1>7. /\ off[0] = 0 /\ off[N] = Len(KeptNodes(R))
      /\ \A i \in 0..N : off[i] \in Nat
      /\ \A i \in 1..N : off[i] = off[i - 1] + Len(q[i])
      /\ \A i \in 1..N : \A k \in 1..Len(q[i]) : KeptNodes(R)[off[i - 1] + k] = q[i][k]
  BY <1>3, <1>6 DEF LaidOut
<1>8. Stands(off, R, KeptNodes(R))
  BY <1>2, <1>7 DEF Stands, N
<1> QED
  BY <1>5, <1>8

(* The ranges one behind the other, none of them empty. *)
Ordered(R) ==
  /\ Len(R) \in Nat
  /\ \A i \in 1..Len(R) : R[i].from \in Int /\ R[i].to \in Int /\ R[i].from < R[i].to
  /\ \A i, j \in 1..Len(R) : i < j => R[i].to <= R[j].from

LEMMA RangesOrdered ==
  ASSUME NEW R, NEW W, NEW ns, NEW d, NEW from, NEW to, Ranges(R, W, ns, d), InsideOf(R, from, to)
  PROVE  Ordered(R)
<1>1. R \in Seq(Spans) /\ Len(R) \in Nat
  BY DEF Ranges
<1>2. \A i \in 1..Len(R) : R[i] \in Spans
  BY <1>1
<1>3. \A i \in 1..Len(R) : R[i].from \in Int /\ R[i].to \in Int /\ R[i].from < R[i].to
  BY <1>2, SpanHas DEF InsideOf
<1>4. \A i, j \in 1..Len(R) : i < j => R[i].to <= R[j].from
  BY DEF Ranges, Before
<1> QED
  BY <1>1, <1>3, <1>4 DEF Ordered

(* The walk stands at j, with a range in turn and the kept nodes before it   *)
(* and those of it up to j behind it; or it is past the last.                *)
At(next, used, j, R, off) ==
  \/ next \in 1..Len(R) /\ j <= R[next].to /\ used = off[next - 1] + More(0, j - R[next].from)
  \/ next = Len(R) + 1 /\ used = off[Len(R)]

LEMMA AtCounts ==
  ASSUME NEW R, NEW off, NEW kept, Ordered(R), Stands(off, R, kept),
         NEW next, NEW used, NEW j \in Int, At(next, used, j, R, off)
  PROVE  used \in Nat /\ next \in Nat
<1>1. CASE next \in 1..Len(R) /\ used = off[next - 1] + More(0, j - R[next].from)
  <2>1. next - 1 \in 0..Len(R)
    BY <1>1 DEF Ordered
  <2>2. off[next - 1] \in Nat /\ R[next].from \in Int
    BY <1>1, <2>1 DEF Stands, Ordered
  <2>3. More(0, j - R[next].from) \in Nat
    BY <2>2 DEF More
  <2> QED
    BY <1>1, <2>2, <2>3
<1>2. CASE next = Len(R) + 1 /\ used = off[Len(R)]
  <2>1. Len(R) \in Nat
    BY DEF Ordered
  <2>2. Len(R) \in 0..Len(R)
    BY <2>1
  <2> QED
    BY <1>2, <2>1, <2>2 DEF Stands
<1> QED
  BY <1>1, <1>2 DEF At

LEMMA NextRange ==
  ASSUME NEW R, NEW off, NEW kept, Ordered(R), Stands(off, R, kept),
         NEW next, NEW used, NEW j \in Int, At(next, used, j, R, off), NEW nxt,
         nxt = IF next <= Len(R) /\ R[next].to = j THEN next + 1 ELSE next
  PROVE  At(nxt, used, j, R, off) /\ (nxt <= Len(R) => j < R[nxt].to)
<1> DEFINE N == Len(R)
<1>1. /\ N \in Nat
      /\ \A i \in 1..N : R[i].from \in Int /\ R[i].to \in Int /\ R[i].from < R[i].to
      /\ \A i, k \in 1..N : i < k => R[i].to <= R[k].from
  BY DEF Ordered
<1>2. /\ \A i \in 0..N : off[i] \in Nat
      /\ \A i \in 1..N : off[i] = off[i - 1] + Size(R[i])
  BY DEF Stands
<1>3. \/ next \in 1..N /\ j <= R[next].to /\ used = off[next - 1] + More(0, j - R[next].from)
      \/ next = N + 1 /\ used = off[N]
  BY DEF At
<1>4. CASE next = N + 1 /\ used = off[N]
  <2>1. ~(next <= N)
    BY <1>1, <1>4
  <2>2. nxt = next
    BY <2>1
  <2> QED
    BY <1>4, <2>1, <2>2 DEF At
<1>5. CASE next \in 1..N /\ j < R[next].to /\ used = off[next - 1] + More(0, j - R[next].from)
  <2>1. ~(R[next].to = j)
    BY <1>1, <1>5
  <2>2. nxt = next
    BY <2>1
  <2> QED
    BY <1>1, <1>5, <2>2 DEF At
<1>6. CASE next \in 1..N /\ j = R[next].to /\ used = off[next - 1] + More(0, j - R[next].from)
  <2>1. nxt = next + 1 /\ next \in 0..N /\ next - 1 \in 0..N
    BY <1>1, <1>6
  <2>2. used = off[next]
    <3> DEFINE f == R[next].from
               o == off[next - 1]
    <3>1. f \in Int /\ o \in Nat /\ f < j /\ off[next] = o + (j - f) /\ used = o + More(0, j - f)
      BY <1>1, <1>2, <1>6, <2>1 DEF Size
    <3> HIDE DEF f, o
    <3>2. More(0, j - f) = j - f
      BY <3>1 DEF More
    <3> QED
      BY <3>1, <3>2
  <2>3. CASE next = N
    <3>1. nxt = N + 1 /\ ~(nxt <= N)
      BY <1>1, <2>1, <2>3
    <3> QED
      BY <2>2, <2>3, <3>1 DEF At
  <2>4. CASE next < N
    <3>1. nxt \in 1..N /\ nxt - 1 = next /\ next < nxt
      BY <1>1, <1>6, <2>1, <2>4
    <3> DEFINE f == R[nxt].from
               t == R[nxt].to
    <3>2. j <= f /\ f < t /\ f \in Int /\ t \in Int
      BY <1>1, <1>6, <3>1
    <3> HIDE DEF f, t
    <3>3. More(0, j - f) = 0 /\ j < t /\ j <= t
      BY <3>2 DEF More
    <3>4. off[next] \in Nat /\ used = off[next] + More(0, j - f)
      BY <1>2, <2>1, <2>2, <3>3
    <3> QED
      BY <3>1, <3>3, <3>4 DEF At, f, t
  <2> QED
    BY <1>1, <1>6, <2>3, <2>4
<1>7. next \in 1..N /\ j <= R[next].to => j < R[next].to \/ j = R[next].to
  BY <1>1
<1> QED
  BY <1>3, <1>4, <1>5, <1>6, <1>7

LEMMA NextLine ==
  ASSUME NEW R, NEW off, NEW kept, Ordered(R), Stands(off, R, kept),
         NEW nxt, NEW used, NEW j \in Int, At(nxt, used, j, R, off), nxt <= Len(R) => j < R[nxt].to
  PROVE  /\ nxt <= Len(R) /\ R[nxt].from <= j => kept[used + 1] = doc[j + 1].shows /\ At(nxt, used + 1, j + 1, R, off)
         /\ ~(nxt <= Len(R) /\ R[nxt].from <= j) => At(nxt, used, j + 1, R, off)
<1> DEFINE N == Len(R)
<1>1. /\ N \in Nat
      /\ \A i \in 1..N : R[i].from \in Int /\ R[i].to \in Int /\ R[i].from < R[i].to
  BY DEF Ordered
<1>2. /\ \A i \in 0..N : off[i] \in Nat
      /\ \A i \in 1..N : \A k \in 1..Size(R[i]) : kept[off[i - 1] + k] = doc[R[i].from + k].shows
  BY DEF Stands
<1>3. \/ nxt \in 1..N /\ j <= R[nxt].to /\ used = off[nxt - 1] + More(0, j - R[nxt].from)
      \/ nxt = N + 1 /\ used = off[N]
  BY DEF At
<1>4. CASE nxt = N + 1 /\ used = off[N]
  <2>1. ~(nxt <= N)
    BY <1>1, <1>4
  <2> QED
    BY <1>4, <2>1 DEF At
<1>5. CASE nxt \in 1..N /\ used = off[nxt - 1] + More(0, j - R[nxt].from)
  <2> DEFINE f == R[nxt].from
             t == R[nxt].to
             o == off[nxt - 1]
  <2>1. nxt - 1 \in 0..N /\ nxt <= N
    BY <1>1, <1>5
  <2>2. f \in Int /\ t \in Int /\ o \in Nat /\ used = o + More(0, j - f) /\ j < t
    BY <1>1, <1>2, <1>5, <2>1
  <2>3. \A k \in 1..t - f : kept[o + k] = doc[f + k].shows
    BY <1>2, <1>5 DEF Size
  <2> HIDE DEF f, t, o, N
  <2>4. j + 1 <= t
    BY <2>2
  <2>5. ASSUME f <= j
        PROVE  kept[used + 1] = doc[j + 1].shows /\ used + 1 = o + More(0, (j + 1) - f)
    <3> DEFINE k == (j - f) + 1
    <3>1. k \in 1..t - f /\ o + k = used + 1 /\ f + k = j + 1 /\ More(0, (j + 1) - f) = k
      BY <2>2, <2>5 DEF More
    <3> HIDE DEF k
    <3> QED
      BY <2>3, <3>1
  <2>6. ASSUME ~(f <= j)
        PROVE  used = o + More(0, (j + 1) - f)
    BY <2>2, <2>6 DEF More
  <2> QED
    BY <1>5, <2>1, <2>4, <2>5, <2>6 DEF At, f, t, o, N
<1> QED
  BY <1>3, <1>4, <1>5

Lines == [shows : Nat, marked : BOOLEAN]
Walkers == [next : Nat, used : Nat, out : Seq(Nat)]

LEMMA WalkedIs ==
  ASSUME NEW a, NEW b, NEW c
  PROVE  /\ Walked(a, b, c).next = a /\ Walked(a, b, c).used = b /\ Walked(a, b, c).out = c
         /\ a \in Nat /\ b \in Nat /\ c \in Seq(Nat) => Walked(a, b, c) \in Walkers
BY DEF Walked, Walkers

(* After n lines of the window, the walk put out what they show. *)
WalkedTo(w, n, from, R, off) ==
  /\ w \in Walkers /\ Len(w.out) = n
  /\ \A k \in 1..n : w.out[k] = doc[from + k].shows
  /\ At(w.next, w.used, from + n, R, off)

LEMMA Appended ==
  ASSUME NEW S, NEW s \in Seq(S), NEW x \in S
  PROVE  /\ Append(s, x) \in Seq(S) /\ Len(Append(s, x)) = Len(s) + 1 /\ Append(s, x)[Len(s) + 1] = x
         /\ \A k \in 1..Len(s) : Append(s, x)[k] = s[k]
OBVIOUS

LEMMA WalkStep ==
  ASSUME NEW R, NEW off, NEW kept, Ordered(R), Stands(off, R, kept), NEW from \in Nat, NEW n \in Nat,
         doc \in Seq(Lines), from + n < Len(doc), NEW w, WalkedTo(w, n, from, R, off)
  PROVE  WalkedTo(WalkOver(w, from + n, R, kept), n + 1, from, R, off)
<1> DEFINE j == from + n
           nxt == IF w.next <= Len(R) /\ R[w.next].to = j THEN w.next + 1 ELSE w.next
           x == doc[j + 1].shows
           v == WalkOver(w, j, R, kept)
<1>1. /\ w.next \in Nat /\ w.used \in Nat /\ w.out \in Seq(Nat) /\ Len(w.out) = n
      /\ \A k \in 1..n : w.out[k] = doc[from + k].shows
      /\ At(w.next, w.used, j, R, off)
  BY DEF WalkedTo, Walkers
<1>2. x \in Nat
  <2>1. j + 1 \in 1..Len(doc)
    OBVIOUS
  <2>2. doc[j + 1] \in Lines
    BY <2>1
  <2> HIDE DEF j
  <2> QED
    BY <2>2 DEF Lines
<1>3. j \in Int /\ from + (n + 1) = j + 1
  OBVIOUS
<1>4. v = IF nxt <= Len(R) /\ R[nxt].from <= j
          THEN Walked(nxt, w.used + 1, Append(w.out, kept[w.used + 1]))
          ELSE Walked(nxt, w.used, Append(w.out, x))
  BY DEF WalkOver
<1> HIDE DEF v, x
<1>5. At(nxt, w.used, j, R, off) /\ (nxt <= Len(R) => j < R[nxt].to)
  BY <1>1, <1>3, NextRange
<1> HIDE DEF nxt
<1>6. /\ nxt <= Len(R) /\ R[nxt].from <= j => kept[w.used + 1] = x /\ At(nxt, w.used + 1, j + 1, R, off)
      /\ ~(nxt <= Len(R) /\ R[nxt].from <= j) => At(nxt, w.used, j + 1, R, off)
  <2> HIDE DEF j
  <2> QED
    BY <1>3, <1>5, NextLine DEF x
<1> HIDE DEF j
<1>7. nxt \in Nat
  BY <1>3, <1>5, AtCounts
<1>8. v.next = nxt /\ At(nxt, v.used, j + 1, R, off) /\ v.out = Append(w.out, x) /\ v.used \in Nat
      /\ v = Walked(v.next, v.used, v.out)
  <2>1. CASE nxt <= Len(R) /\ R[nxt].from <= j
    <3>1. v = Walked(nxt, w.used + 1, Append(w.out, x)) /\ At(nxt, w.used + 1, j + 1, R, off)
      BY <1>4, <1>6, <2>1
    <3> DEFINE u == w.used + 1
               y == Append(w.out, x)
    <3>2. u \in Nat
      BY <1>1
    <3>3. v = Walked(nxt, u, y) /\ At(nxt, u, j + 1, R, off)
      BY <3>1
    <3> HIDE DEF u, y
    <3>4. v.next = nxt /\ v.used = u /\ v.out = y
      BY <3>3, WalkedIs
    <3> QED
      BY <3>2, <3>3, <3>4 DEF y
  <2>2. CASE ~(nxt <= Len(R) /\ R[nxt].from <= j)
    <3>1. v = Walked(nxt, w.used, Append(w.out, x)) /\ At(nxt, w.used, j + 1, R, off)
      BY <1>4, <1>6, <2>2
    <3> DEFINE u == w.used
               y == Append(w.out, x)
    <3>2. u \in Nat /\ v = Walked(nxt, u, y) /\ At(nxt, u, j + 1, R, off)
      BY <1>1, <3>1
    <3> HIDE DEF u, y
    <3>3. v.next = nxt /\ v.used = u /\ v.out = y
      BY <3>2, WalkedIs
    <3> QED
      BY <3>2, <3>3 DEF y
  <2> QED
    BY <2>1, <2>2
<1>9. /\ Append(w.out, x) \in Seq(Nat) /\ Len(Append(w.out, x)) = n + 1 /\ Append(w.out, x)[n + 1] = x
      /\ \A k \in 1..n : Append(w.out, x)[k] = w.out[k]
  BY <1>1, <1>2, Appended
<1>10. v \in Walkers
  <2>1. v.next \in Nat /\ v.used \in Nat /\ v.out \in Seq(Nat)
    BY <1>7, <1>8, <1>9
  <2>2. Walked(v.next, v.used, v.out) \in Walkers
    BY <2>1, WalkedIs
  <2> QED
    BY <1>8, <2>2
<1>11. ASSUME NEW k \in 1..n + 1
       PROVE  v.out[k] = doc[from + k].shows
  <2>1. CASE k = n + 1
    BY <1>3, <1>8, <1>9, <2>1 DEF x
  <2>2. CASE k \in 1..n
    BY <1>1, <1>8, <1>9, <2>2
  <2> QED
    BY <2>1, <2>2
<1>12. WalkedTo(v, n + 1, from, R, off)
  BY <1>3, <1>8, <1>9, <1>10, <1>11 DEF WalkedTo
<1> QED
  BY <1>12 DEF v, j

(* At the end of the window every node that stays is behind the walk. *)
LEMMA WalkDone ==
  ASSUME NEW R, NEW off, NEW kept, Ordered(R), Stands(off, R, kept), NEW from, NEW to \in Int,
         InsideOf(R, from, to), NEW next, NEW used, At(next, used, to, R, off)
  PROVE  used = Len(kept)
<1> DEFINE N == Len(R)
<1>1. /\ N \in Nat
      /\ \A i \in 1..N : R[i].from \in Int /\ R[i].to \in Int /\ R[i].from < R[i].to
      /\ \A i, k \in 1..N : i < k => R[i].to <= R[k].from
  BY DEF Ordered
<1>2. /\ off[N] = Len(kept)
      /\ \A i \in 0..N : off[i] \in Nat
      /\ \A i \in 1..N : off[i] = off[i - 1] + Size(R[i])
  BY DEF Stands
<1>3. \A i \in 1..N : R[i].to <= to
  BY DEF InsideOf
<1>4. \/ next \in 1..N /\ to <= R[next].to /\ used = off[next - 1] + More(0, to - R[next].from)
      \/ next = N + 1 /\ used = off[N]
  BY DEF At
<1>5. ASSUME next \in 1..N, to <= R[next].to, used = off[next - 1] + More(0, to - R[next].from)
      PROVE  used = off[N]
  <2>1. next = N
    <3> SUFFICES ASSUME next # N PROVE FALSE
      OBVIOUS
    <3>1. next + 1 \in 1..N /\ next < next + 1
      BY <1>1, <1>5
    <3>2. R[next].to <= R[next + 1].from /\ R[next + 1].from < R[next + 1].to /\ R[next + 1].to <= to
          /\ R[next + 1].from \in Int /\ R[next + 1].to \in Int /\ R[next].to \in Int
      BY <1>1, <1>3, <1>5, <3>1
    <3> QED
      BY <1>5, <3>2
  <2> DEFINE f == R[next].from
             t == R[next].to
             o == off[next - 1]
  <2>2. next - 1 \in 0..N
    BY <1>1, <1>5
  <2>3. f \in Int /\ t \in Int /\ f < t /\ t = to /\ o \in Nat /\ off[next] = o + (t - f)
    <3>1. R[next].to <= to /\ R[next].to \in Int /\ R[next].from \in Int /\ R[next].from < R[next].to
      BY <1>1, <1>3, <1>5
    <3>2. o \in Nat /\ off[next] = o + (t - f)
      BY <1>2, <1>5, <2>2 DEF Size
    <3> QED
      BY <1>5, <3>1, <3>2
  <2>4. used = o + More(0, to - f)
    BY <1>5
  <2> HIDE DEF f, t, o, N
  <2>5. More(0, to - f) = t - f
    BY <2>3 DEF More
  <2> QED
    BY <2>1, <2>3, <2>4, <2>5
<1> QED
  BY <1>2, <1>4, <1>5

LEMMA WalkBegins ==
  ASSUME NEW R, NEW off, NEW kept, Ordered(R), Stands(off, R, kept), NEW from \in Nat, NEW to,
         InsideOf(R, from, to)
  PROVE  WalkedTo(Walked(1, 0, <<>>), 0, from, R, off)
<1> DEFINE w0 == Walked(1, 0, <<>>)
<1>1. w0.next = 1 /\ w0.used = 0 /\ w0.out = <<>> /\ w0 \in Walkers
  <2>1. 1 \in Nat /\ 0 \in Nat /\ <<>> \in Seq(Nat)
    OBVIOUS
  <2> QED
    BY <2>1 DEF Walked, Walkers
<1>2. At(1, 0, from, R, off)
  <2>1. Len(R) \in Nat /\ off[0] = 0 /\ 1 - 1 = 0
    BY DEF Ordered, Stands
  <2>2. CASE Len(R) = 0
    BY <2>1, <2>2 DEF At
  <2>3. CASE Len(R) > 0
    <3>1. 1 \in 1..Len(R)
      BY <2>1, <2>3
    <3>2. R[1].from \in Int /\ R[1].to \in Int /\ from <= R[1].from /\ R[1].from < R[1].to
      BY <3>1 DEF Ordered, InsideOf
    <3>3. More(0, from - R[1].from) = 0 /\ from <= R[1].to
      BY <3>2 DEF More
    <3>4. off[1 - 1] + More(0, from - R[1].from) = 0
      BY <2>1, <3>3
    <3> QED
      BY <3>1, <3>3, <3>4 DEF At
  <2> QED
    BY <2>1, <2>2, <2>3
<1>3. Len(<<>>) = 0 /\ from + 0 = from
  OBVIOUS
<1> HIDE DEF w0
<1>4. WalkedTo(w0, 0, from, R, off)
  BY <1>1, <1>2, <1>3 DEF WalkedTo
<1> QED
  BY <1>4 DEF w0

WalkOf(f, T, from, R, kept) ==
  f = [n \in 0..T |-> IF n = 0 THEN Walked(1, 0, <<>>) ELSE WalkOver(f[n - 1], from + n - 1, R, kept)]

LEMMA WalkExists ==
  ASSUME NEW R, NEW off, NEW kept, Ordered(R), Stands(off, R, kept), NEW from \in Nat, NEW T \in Nat,
         doc \in Seq(Lines), from + T <= Len(doc), NEW to, InsideOf(R, from, to)
  PROVE  \E f : WalkOf(f, T, from, R, kept)
<1> DEFINE w0 == Walked(1, 0, <<>>)
           g == [n \in 1..T |-> [x \in Walkers |-> WalkOver(x, from + n - 1, R, kept)]]
<1>1. \A n \in 1..T : \A x \in Walkers : g[n][x] = WalkOver(x, from + n - 1, R, kept)
  OBVIOUS
<1>2. WalkedTo(w0, 0, from, R, off)
  BY WalkBegins
<1> HIDE DEF g, w0
<1>3. PICK r : Continues(r, w0, g, T)
  BY Recursion
<1>4. r[0] = w0 /\ \A n \in 1..T : r[n] = g[n][r[n - 1]]
  BY <1>3 DEF Continues
<1>5. ASSUME NEW n \in 1..T, WalkedTo(r[n - 1], n - 1, from, R, off)
      PROVE  WalkedTo(r[n], n, from, R, off) /\ r[n] = WalkOver(r[n - 1], from + n - 1, R, kept)
  <2> DEFINE m == n - 1
  <2>1. r[m] \in Walkers
    BY <1>5 DEF WalkedTo
  <2>2. m \in Nat /\ from + m < Len(doc) /\ m + 1 = n /\ from + n - 1 = from + m
    OBVIOUS
  <2>3. r[n] = WalkOver(r[m], from + m, R, kept)
    BY <1>1, <1>4, <2>1, <2>2
  <2>4. WalkedTo(r[m], m, from, R, off)
    BY <1>5
  <2> HIDE DEF m
  <2>5. WalkedTo(WalkOver(r[m], from + m, R, kept), m + 1, from, R, off)
    BY <2>2, <2>4, WalkStep
  <2> QED
    BY <2>2, <2>3, <2>5 DEF m
<1>6. \A n \in 0..T : WalkedTo(r[n], n, from, R, off)
  <2> DEFINE Bad == {n \in 0..T : ~WalkedTo(r[n], n, from, R, off)}
  <2>1. 0 \in Nat /\ T \in Int /\ Bad \subseteq 0..T /\ 0 \notin Bad
    BY <1>2, <1>4
  <2>2. ASSUME NEW n \in 0 + 1..T, n \in Bad PROVE n - 1 \in Bad
    <3>1. n - 1 \in 0..T /\ n \in 1..T
      OBVIOUS
    <3>2. ~WalkedTo(r[n - 1], n - 1, from, R, off)
      BY <1>5, <2>2, <3>1
    <3> QED
      BY <3>1, <3>2
  <2> HIDE DEF Bad
  <2>3. Bad = {}
    BY <2>1, <2>2, Climbs
  <2> QED
    BY <2>3 DEF Bad
<1> DEFINE f == [n \in 0..T |-> r[n]]
           step(n) == IF n = 0 THEN w0 ELSE WalkOver(f[n - 1], from + n - 1, R, kept)
<1>7. ASSUME NEW n \in 0..T
      PROVE  f[n] = step(n)
  <2>1. CASE n = 0
    BY <1>4, <2>1
  <2>2. CASE n # 0
    <3>1. n \in 1..T /\ n - 1 \in 0..T
      BY <2>2
    <3>2. WalkedTo(r[n - 1], n - 1, from, R, off)
      BY <1>6, <3>1
    <3>3. r[n] = WalkOver(r[n - 1], from + n - 1, R, kept)
      BY <1>5, <3>1, <3>2
    <3> QED
      BY <2>2, <3>1, <3>3
  <2> QED
    BY <2>1, <2>2
<1>8. f = [n \in 0..T |-> f[n]]
  OBVIOUS
<1> HIDE DEF f
<1>9. f = [n \in 0..T |-> IF n = 0 THEN w0 ELSE WalkOver(f[n - 1], from + n - 1, R, kept)]
  BY <1>7, <1>8
<1>10. WalkOf(f, T, from, R, kept)
  BY <1>9 DEF w0, WalkOf
<1> QED
  BY <1>10

(* A patched window shows its lines, whatever ranges of it were still good. *)
LEMMA Patched ==
  ASSUME NEW R, NEW W \in Int, nodes \in Seq(Nat), Ranges(R, W, nodes, doc), Len(R) > 0 => W <= Len(nodes),
         NEW from \in Nat, NEW to \in Nat, from <= to, to <= Len(doc), doc \in Seq(Lines), InsideOf(R, from, to)
  PROVE  PatchDisplay(from, to, R) = [k \in 1..to - from |-> doc[from + k].shows]
<1> DEFINE kept == KeptNodes(R)
           T == to - from
           walk[n \in 0..T] == IF n = 0 THEN Walked(1, 0, <<>>) ELSE WalkOver(walk[n - 1], from + n - 1, R, kept)
           done == walk[T]
<1>1. T \in Nat /\ from + T <= Len(doc) /\ T \in 0..T /\ from + T = to
  OBVIOUS
<1>2. Ordered(R)
  BY RangesOrdered
<1>3. kept \in Seq(Nat)
  BY KeptStand
<1>4. PICK off : Stands(off, R, kept)
  BY KeptStand
<1>5. PatchDisplay(from, to, R) = done.out \o SubSeq(kept, done.used + 1, Len(kept))
  BY DEF PatchDisplay
<1> HIDE DEF kept
<1>6. walk = [n \in 0..T |-> IF n = 0 THEN Walked(1, 0, <<>>) ELSE WalkOver(walk[n - 1], from + n - 1, R, kept)]
  <2> HIDE DEF T
  <2>1. \E f : WalkOf(f, T, from, R, kept)
    BY <1>1, <1>2, <1>4, WalkExists
  <2>2. \E f : f = [n \in 0..T |-> IF n = 0 THEN Walked(1, 0, <<>>) ELSE WalkOver(f[n - 1], from + n - 1, R, kept)]
    BY <2>1 DEF WalkOf
  <2> QED
    BY <2>2
<1> HIDE DEF walk, T
<1>7. walk[0] = Walked(1, 0, <<>>) /\ \A n \in 1..T : walk[n] = WalkOver(walk[n - 1], from + n - 1, R, kept)
  <2>1. 0 \in 0..T /\ \A n \in 1..T : n \in 0..T /\ n # 0
    BY <1>1
  <2> QED
    BY <1>6, <2>1
<1>8. \A n \in 0..T : WalkedTo(walk[n], n, from, R, off)
  <2> DEFINE Bad == {n \in 0..T : ~WalkedTo(walk[n], n, from, R, off)}
  <2>1. 0 \in Nat /\ T \in Int /\ Bad \subseteq 0..T /\ 0 \notin Bad
    BY <1>1, <1>2, <1>4, <1>7, WalkBegins
  <2>2. ASSUME NEW n \in 0 + 1..T, n \in Bad PROVE n - 1 \in Bad
    <3> DEFINE m == n - 1
    <3>1. m \in 0..T /\ n \in 1..T /\ m \in Nat /\ from + m < Len(doc) /\ m + 1 = n /\ from + n - 1 = from + m
      BY <1>1
    <3>2. walk[n] = WalkOver(walk[m], from + m, R, kept)
      BY <1>7, <3>1
    <3>3. ~WalkedTo(walk[n], n, from, R, off)
      BY <2>2
    <3> HIDE DEF m
    <3>4. ~WalkedTo(walk[m], m, from, R, off)
      BY <1>2, <1>4, <3>1, <3>2, <3>3, WalkStep
    <3> QED
      BY <3>1, <3>4 DEF m
  <2> HIDE DEF Bad
  <2>3. Bad = {}
    BY <2>1, <2>2, Climbs
  <2> QED
    BY <2>3 DEF Bad
<1>9. WalkedTo(done, T, from, R, off)
  BY <1>1, <1>8
<1> HIDE DEF done
<1>10. /\ done.out \in Seq(Nat) /\ Len(done.out) = T /\ \A k \in 1..T : done.out[k] = doc[from + k].shows
       /\ At(done.next, done.used, to, R, off)
  BY <1>1, <1>9 DEF WalkedTo, Walkers
<1>11. done.used = Len(kept) /\ Len(kept) \in Nat
  BY <1>2, <1>3, <1>4, <1>10, WalkDone
<1>12. SubSeq(kept, done.used + 1, Len(kept)) = <<>>
  <2>1. Len(kept) + 1 \in Int /\ Len(kept) \in Int /\ Len(kept) < Len(kept) + 1
    BY <1>11
  <2> QED
    BY <1>11, <2>1, SubSeqEmpty
<1>13. \A o \in Seq(Nat) : o \o <<>> = o /\ o = [k \in 1..Len(o) |-> o[k]]
  OBVIOUS
<1>14. PatchDisplay(from, to, R) = [k \in 1..T |-> done.out[k]]
  BY <1>5, <1>10, <1>12, <1>13
<1>15. [k \in 1..T |-> done.out[k]] = [k \in 1..T |-> doc[from + k].shows]
  BY <1>10
<1> QED
  BY <1>14, <1>15 DEF T

-----------------------------------------------------------------------------
(* A number nothing shows is a number. *)
LEMMA Bounded ==
  ASSUME NEW n \in Nat, NEW h, \A i \in 1..n : h[i] \in Nat
  PROVE  \E b \in Nat : \A i \in 1..n : h[i] <= b
<1> DEFINE Has(m) == \E b \in Nat : \A i \in 1..m : h[i] <= b
           Bad == {m \in 0..n : ~Has(m)}
<1>1. 0 \in Nat /\ n \in Int /\ Bad \subseteq 0..n /\ 0 \notin Bad
  OBVIOUS
<1>2. ASSUME NEW m \in 0 + 1..n, m \in Bad PROVE m - 1 \in Bad
  <2> SUFFICES ASSUME Has(m - 1) PROVE Has(m)
    BY <1>2
  <2>1. PICK b \in Nat : \A i \in 1..m - 1 : h[i] <= b
    OBVIOUS
  <2>2. h[m] \in Nat /\ \A i \in 1..m : i \in 1..m - 1 \/ i = m
    OBVIOUS
  <2>3. \A i \in 1..m : i \in 1..n
    OBVIOUS
  <2>4. CASE h[m] <= b
    <3>1. \A i \in 1..m : h[i] <= b
      BY <2>1, <2>2, <2>4
    <3> QED
      BY <3>1
  <2>5. CASE ~(h[m] <= b)
    <3>1. \A i \in 1..m - 1 : h[i] <= h[m]
      BY <2>1, <2>2, <2>3, <2>5
    <3>2. \A i \in 1..m : h[i] <= h[m]
      BY <2>2, <3>1
    <3> QED
      BY <2>2, <3>2
  <2> QED
    BY <2>4, <2>5
<1> HIDE DEF Bad
<1>3. Bad = {}
  BY <1>1, <1>2, Climbs
<1>4. Has(n)
  <2> HIDE DEF Has
  <2> QED
    BY <1>3 DEF Bad
<1> QED
  BY <1>4

LEMMA GreatestNumber ==
  ASSUME NEW S, S \subseteq Nat, S # {}, NEW b \in Nat, \A x \in S : x <= b
  PROVE  \E x \in S : \A y \in S : x >= y
<1> DEFINE U == {u \in Nat : \A y \in S : y <= u}
<1>1. U \subseteq Nat /\ U # {}
  OBVIOUS
<1>2. PICK u \in U : \A v \in U : u <= v
  <2> HIDE DEF U
  <2> QED
    BY <1>1, LeastNumber
<1>3. u \in Nat /\ \A y \in S : y <= u
  OBVIOUS
<1>4. u \in S
  <2> SUFFICES ASSUME u \notin S PROVE FALSE
    OBVIOUS
  <2>1. \A y \in S : y \in Nat /\ y <= u - 1
    BY <1>3
  <2>2. u - 1 \in Nat
    <3>1. PICK y \in S : y \in Nat /\ y <= u - 1
      BY <2>1
    <3> QED
      BY <1>3, <3>1
  <2>3. u - 1 \in U
    BY <2>1, <2>2
  <2>4. u <= u - 1
    BY <1>2, <2>3
  <2> QED
    BY <1>3, <2>4
<1>5. \A y \in S : u >= y
  BY <1>3
<1> QED
  BY <1>4, <1>5

LEMMA FreshNumber ==
  ASSUME doc \in Seq(Lines), doc # <<>>, nodes \in Seq(Nat)
  PROVE  Fresh \in Nat
<1> DEFINE A == {doc[i].shows : i \in DOMAIN doc}
           B == ToSet(nodes)
           S == A \cup B
<1>1. Len(doc) \in Nat /\ DOMAIN doc = 1..Len(doc) /\ 1 \in 1..Len(doc) /\ \A i \in 1..Len(doc) : doc[i] \in Lines
  OBVIOUS
<1>2. Len(nodes) \in Nat /\ DOMAIN nodes = 1..Len(nodes) /\ \A i \in 1..Len(nodes) : nodes[i] \in Nat
  OBVIOUS
<1>3. \A i \in 1..Len(doc) : doc[i].shows \in Nat
  BY <1>1 DEF Lines
<1> DEFINE h == [i \in 1..Len(doc) |-> doc[i].shows]
<1>4. \A i \in 1..Len(doc) : h[i] \in Nat /\ h[i] = doc[i].shows
  BY <1>3
<1>5. PICK a \in Nat : \A i \in 1..Len(doc) : h[i] <= a
  <2> HIDE DEF h
  <2> QED
    BY <1>1, <1>4, Bounded
<1>6. PICK b \in Nat : \A i \in 1..Len(nodes) : nodes[i] <= b
  BY <1>2, Bounded
<1>7. A \subseteq Nat /\ A # {} /\ \A x \in A : x <= a
  BY <1>1, <1>3, <1>4, <1>5
<1>8. B = {nodes[i] : i \in DOMAIN nodes}
  BY DEF ToSet
<1>9. B \subseteq Nat /\ \A x \in B : x <= b
  BY <1>2, <1>6, <1>8
<1>10. S \subseteq Nat /\ S # {} /\ a + b \in Nat /\ \A x \in S : x <= a + b
  <2> HIDE DEF A, B
  <2>1. \A x \in Nat : x <= a \/ x <= b => x <= a + b
    OBVIOUS
  <2> QED
    BY <1>7, <1>9, <2>1
<1>11. Fresh = 1 + Max(S)
  BY DEF Fresh
<1> HIDE DEF S
<1>12. \E x \in S : \A y \in S : x >= y
  BY <1>10, GreatestNumber
<1>13. Max(S) \in S
  BY <1>12 DEF Max
<1>14. Max(S) \in Nat
  BY <1>10, <1>13
<1> QED
  BY <1>11, <1>14

-----------------------------------------------------------------------------
(* What an edit makes of the lines, and of the ranges. *)
Replaced(S, r, d, x, a, b) ==
  /\ r \in Seq(S) /\ Len(r) = a + Len(x) + (Len(d) - b)
  /\ \A i \in 1..a : r[i] = d[i]
  /\ \A i \in 1..Len(x) : r[a + i] = x[i]
  /\ \A i \in b + 1..Len(d) : r[i + (a + Len(x) - b)] = d[i]

LEMMA Spliced ==
  ASSUME NEW S, NEW d \in Seq(S), NEW x \in Seq(S), NEW a \in Nat, NEW b \in Nat, a <= b, b <= Len(d)
  PROVE  Replaced(S, SubSeq(d, 1, a) \o x \o SubSeq(d, b + 1, Len(d)), d, x, a, b)
<1> DEFINE l == Len(d)
           m == Len(x)
           p == SubSeq(d, 1, a)
           s == SubSeq(d, b + 1, l)
           y == p \o x
           r == y \o s
<1>1. l \in Nat /\ m \in Nat
  OBVIOUS
<1>2. p \in Seq(S) /\ Len(p) = a /\ \A i \in 1..a : p[i] = d[i]
  <2>1. 0 + 1 = 1 /\ 0 + a = a /\ 0 \in Nat /\ \A i \in 1..a : 0 + i = i
    OBVIOUS
  <2>2. /\ SubSeq(d, 0 + 1, 0 + a) \in Seq(S) /\ Len(SubSeq(d, 0 + 1, 0 + a)) = a
        /\ \A k \in 1..a : SubSeq(d, 0 + 1, 0 + a)[k] = d[0 + k]
    <3>1. 0 \in Nat /\ 0 + a <= Len(d)
      OBVIOUS
    <3> QED
      BY <3>1, PartOf
  <2> QED
    BY <2>1, <2>2
<1>3. s \in Seq(S) /\ Len(s) = l - b /\ \A i \in 1..l - b : s[i] = d[b + i]
  <2> DEFINE n == l - b
  <2>1. n \in Nat /\ b + n = l /\ b + n <= Len(d)
    BY <1>1
  <2> HIDE DEF n
  <2>2. /\ SubSeq(d, b + 1, b + n) \in Seq(S) /\ Len(SubSeq(d, b + 1, b + n)) = n
        /\ \A k \in 1..n : SubSeq(d, b + 1, b + n)[k] = d[b + k]
    BY <2>1, PartOf
  <2> QED
    BY <2>1, <2>2 DEF n
<1>b. \A u, v \in Seq(S) : /\ Len(u \o v) = Len(u) + Len(v)
                           /\ \A k \in 1..Len(u) : (u \o v)[k] = u[k]
                           /\ \A k \in 1..Len(v) : (u \o v)[Len(u) + k] = v[k]
  BY Appending
<1> HIDE DEF p, s, l, m
<1>4. y \in Seq(S) /\ Len(y) = a + m /\ (\A i \in 1..a : y[i] = d[i]) /\ \A i \in 1..m : y[a + i] = x[i]
  <2>1. \A u, v \in Seq(S) : u \o v \in Seq(S)
    OBVIOUS
  <2>2. /\ Len(p \o x) = Len(p) + Len(x)
        /\ \A k \in 1..Len(p) : (p \o x)[k] = p[k]
        /\ \A k \in 1..Len(x) : (p \o x)[Len(p) + k] = x[k]
    <3>1. p \in Seq(S) /\ x \in Seq(S)
      BY <1>2
    <3>2. Len(p \o x) = Len(p) + Len(x)
      BY <1>b, <3>1
    <3>3. \A k \in 1..Len(p) : (p \o x)[k] = p[k]
      BY <1>b, <3>1
    <3> QED
      BY <1>b, <3>1, <3>2, <3>3
  <2> QED
    BY <1>2, <2>1, <2>2 DEF m
<1> HIDE DEF y
<1>5. r \in Seq(S) /\ Len(r) = (a + m) + (l - b) /\ (\A i \in 1..a + m : r[i] = y[i])
      /\ \A i \in 1..l - b : r[(a + m) + i] = d[b + i]
  <2>1. \A u, v \in Seq(S) : u \o v \in Seq(S)
    OBVIOUS
  <2>2. /\ Len(y \o s) = Len(y) + Len(s)
        /\ \A k \in 1..Len(y) : (y \o s)[k] = y[k]
        /\ \A k \in 1..Len(s) : (y \o s)[Len(y) + k] = s[k]
    <3>1. y \in Seq(S) /\ s \in Seq(S)
      BY <1>3, <1>4
    <3>2. Len(y \o s) = Len(y) + Len(s)
      BY <1>b, <3>1
    <3>3. \A k \in 1..Len(y) : (y \o s)[k] = y[k]
      BY <1>b, <3>1
    <3> QED
      BY <1>b, <3>1, <3>2, <3>3
  <2> QED
    BY <1>3, <1>4, <2>1, <2>2
<1> HIDE DEF r
<1>6. /\ \A i \in 1..a : i \in 1..a + m
      /\ \A i \in 1..m : a + i \in 1..a + m
      /\ \A i \in b + 1..l : i - b \in 1..l - b /\ (a + m) + (i - b) = i + (a + m - b) /\ b + (i - b) = i
  BY <1>1
<1>7. /\ r \in Seq(S) /\ Len(r) = a + m + (l - b)
      /\ \A i \in 1..a : r[i] = d[i]
      /\ \A i \in 1..m : r[a + i] = x[i]
  BY <1>4, <1>5, <1>6
<1>8. ASSUME NEW i \in b + 1..l PROVE r[i + (a + m - b)] = d[i]
  <2>1. r[(a + m) + (i - b)] = d[b + (i - b)]
    BY <1>5, <1>6
  <2> QED
    BY <1>6, <2>1
<1> QED
  BY <1>7, <1>8 DEF Replaced, r, y, p, s, l, m

LEMMA LineIs ==
  /\ \A n \in Nat : Line(n) \in Lines
  /\ \A n \in Nat, x \in Lines : /\ Restyled(x, n) \in Lines /\ Restyled(x, n).marked = x.marked
                                 /\ Restyled(x, n).shows = n
BY DEF Line, Restyled, Lines

LEMMA EditedIs ==
  ASSUME doc \in Seq(Lines), Fresh \in Nat, NEW from \in 0..Len(doc) - 1, NEW to \in from..Len(doc) - 1,
         NEW n \in 1..3, NEW whole \in BOOLEAN
  PROVE  /\ Edited(from, to, n, whole) \in Seq(Lines) /\ Len(Edited(from, to, n, whole)) = n
         /\ from = to /\ n = 1 => Edited(from, to, n, whole)[1].marked = doc[from + 1].marked
<1> DEFINE E == Edited(from, to, n, whole)
           new(i) == Line(Fresh + i)
           first == Restyled(doc[from + 1], Fresh)
           lastOf(i) == IF from = to THEN new(i) ELSE Restyled(doc[to + 1], Fresh + i)
           X == Seq(Lines)
<1>1. doc[from + 1] \in Lines /\ doc[to + 1] \in Lines
  OBVIOUS
<1>2. first \in Lines /\ first.marked = doc[from + 1].marked
  BY <1>1, LineIs
<1>3. \A i \in 1..n : Fresh + i \in Nat
  OBVIOUS
<1>4. \A i \in 1..n : new(i) \in Lines /\ lastOf(i) \in Lines
  BY <1>1, <1>3, LineIs
<1>b. \A u, v \in X : /\ Len(u \o v) = Len(u) + Len(v)
                      /\ \A k \in 1..Len(u) : (u \o v)[k] = u[k]
                      /\ \A k \in 1..Len(v) : (u \o v)[Len(u) + k] = v[k]
  BY Appending
<1>5. CASE whole
  <2> DEFINE a == [i \in 1..n - 1 |-> new(i)]
             b == <<doc[to + 1]>>
  <2>1. E = a \o b
    BY <1>5 DEF Edited
  <2>2. a \in X /\ Len(a) = n - 1
    <3>1. \A i \in 1..n - 1 : new(i) \in Lines
      <4>1. \A i \in 1..n - 1 : i \in 1..n
        OBVIOUS
      <4> HIDE DEF new, lastOf
      <4> QED
        BY <1>4, <4>1
    <3> HIDE DEF new
    <3> QED
      BY <3>1
  <2>3. b \in X /\ Len(b) = 1 /\ b[1] = doc[to + 1]
    BY <1>1
  <2> HIDE DEF E, a, b
  <2>4. a \o b \in X /\ Len(a \o b) = Len(a) + Len(b) /\ \A k \in 1..Len(b) : (a \o b)[Len(a) + k] = b[k]
    <3>1. \A u, v \in X : u \o v \in X
      OBVIOUS
    <3> QED
      <4>1. a \in X /\ b \in X
        BY <2>2, <2>3
      <4>2. Len(a \o b) = Len(a) + Len(b)
        BY <1>b, <4>1
      <4>3. \A k \in 1..Len(b) : (a \o b)[Len(a) + k] = b[k]
        BY <1>b, <4>1
      <4> QED
        BY <3>1, <4>1, <4>2, <4>3
  <2>5. Len(a \o b) = n
    BY <2>2, <2>3, <2>4
  <2>6. ASSUME from = to, n = 1 PROVE E[1].marked = doc[from + 1].marked
    <3>1. 1 \in 1..Len(b) /\ Len(a) = 0 /\ 0 + 1 = 1
      BY <2>2, <2>3, <2>6
    <3>2. (a \o b)[1] = b[1]
      BY <2>4, <3>1
    <3> QED
      BY <2>1, <2>3, <2>6, <3>2
  <2> QED
    BY <2>1, <2>4, <2>5, <2>6 DEF E
<1>6. CASE ~whole
  <2> DEFINE el(i) == IF i = 1 THEN first ELSE IF i = n THEN lastOf(i) ELSE new(i)
  <2>1. E = [i \in 1..n |-> el(i)]
    BY <1>6 DEF Edited
  <2>2. \A i \in 1..n : el(i) \in Lines
    BY <1>2, <1>4
  <2>3. 1 \in 1..n /\ el(1) = first
    OBVIOUS
  <2> HIDE DEF E, el
  <2>4. E \in X /\ Len(E) = n /\ E[1] = el(1)
    BY <2>1, <2>2, <2>3
  <2> QED
    BY <1>2, <2>3, <2>4 DEF E
<1> QED
  BY <1>5, <1>6

-----------------------------------------------------------------------------
(* The inductive invariant.  Whatever an operation did so far, the ranges    *)
(* that its changes leave of the window hold nodes that are still good; the  *)
(* gutter is right until it is dirty, and dirty only within an operation or  *)
(* when nothing is on the screen.                                            *)
Whole(from, to) == <<Span(from, to, 0)>>
Held(from, to, chs, ns, d) == Ranges(ComputeIntact(Whole(from, to), chs), to - from, ns, d)
Current(from, to, ns, d) == \A k \in 1..to - from : from + k <= Len(d) /\ ns[k] = d[from + k].shows

ViewInv ==
  /\ doc \in Seq(Lines) /\ doc # <<>>
  /\ open \in BOOLEAN /\ gutterDirty \in BOOLEAN /\ wide \in BOOLEAN
  /\ showingFrom \in Nat /\ showingTo \in Nat /\ showingFrom <= showingTo
  /\ nodes \in Seq(Nat) /\ (showingTo > showingFrom => Len(nodes) = showingTo - showingFrom)
  /\ changes \in Seq(Changes) /\ (~open => changes = <<>>)
  /\ Held(showingFrom, showingTo, changes, nodes, doc)
  /\ showingTo > showingFrom /\ ~gutterDirty =>
       showingTo <= Len(doc) /\ gutter = DrawnGutter(showingFrom, showingTo)
  /\ ~open /\ gutterDirty => showingTo = showingFrom

LEMMA WholeHeld ==
  ASSUME NEW from \in Nat, NEW to \in Nat, from <= to, NEW ns, NEW d
  PROVE  Whole(from, to) \in Seq(Spans) /\ (Held(from, to, <<>>, ns, d) <=> Current(from, to, ns, d))
<1> DEFINE r == Span(from, to, 0)
           R == Whole(from, to)
<1>1. r \in Spans /\ r.from = from /\ r.to = to /\ r.dom = 0
  BY SpanIs
<1>2. R = <<r>>
  BY DEF Whole
<1> HIDE DEF R, r
<1>3. R \in Seq(Spans) /\ Len(R) = 1 /\ R[1] = r
  BY <1>1, <1>2
<1>4. Held(from, to, <<>>, ns, d) <=> Ranges(R, to - from, ns, d)
  BY <1>3, IntactMore DEF Held, R
<1>5. \A i \in 1..1 : i = 1
  OBVIOUS
<1>6. ~(\E i, j \in 1..1 : i < j)
  OBVIOUS
<1>7. Sound(r, to - from)
  BY <1>1 DEF Sound
<1>8. Shows(r, ns, d) <=> Current(from, to, ns, d)
  <2>1. \A k \in 1..to - from : 0 + k = k
    OBVIOUS
  <2> QED
    BY <1>1, <2>1 DEF Shows, Current
<1>9. Ranges(R, to - from, ns, d) <=> Shows(r, ns, d)
  BY <1>3, <1>5, <1>6, <1>7 DEF Ranges
<1> QED
  BY <1>3, <1>4, <1>8, <1>9 DEF R

LEMMA HeldAfterChange ==
  ASSUME NEW from \in Nat, NEW to \in Nat, from <= to, NEW ns, NEW d, NEW e, NEW chs \in Seq(Changes), NEW c \in Changes,
         Held(from, to, chs, ns, d), Changed(c, d, e)
  PROVE  Held(from, to, Append(chs, c), ns, e)
<1>1. Whole(from, to) \in Seq(Spans) /\ to - from \in Int
  BY WholeHeld
<1>2. ComputeIntact(Whole(from, to), Append(chs, c)) = Punched(ComputeIntact(Whole(from, to), chs), c)
  BY <1>1, IntactMore
<1>3. Ranges(Punched(ComputeIntact(Whole(from, to), chs), c), to - from, ns, e)
  BY <1>1, PunchedRanges DEF Held
<1> QED
  BY <1>2, <1>3 DEF Held

LEMMA HeldAlike ==
  ASSUME NEW from, NEW to, NEW ns, NEW d, NEW e, NEW chs, Held(from, to, chs, ns, d),
         Len(d) \in Nat, Len(e) = Len(d), \A i \in 1..Len(d) : e[i].shows = d[i].shows
  PROVE  Held(from, to, chs, ns, e)
<1> DEFINE R == ComputeIntact(Whole(from, to), chs)
           W == to - from
<1>1. Ranges(R, W, ns, d)
  BY DEF Held
<1> HIDE DEF R, W
<1>2. ASSUME NEW i \in 1..Len(R)
      PROVE  Shows(R[i], ns, e)
  <2> DEFINE r == R[i]
  <2>1. Sound(r, W) /\ Shows(r, ns, d)
    BY <1>1 DEF Ranges
  <2>2. r.from \in Int /\ 0 <= r.from /\ r.to \in Int
    BY <2>1, SpanHas DEF Sound
  <2> HIDE DEF r
  <2>3. ASSUME NEW k \in 1..r.to - r.from
        PROVE  r.from + k <= Len(e) /\ ns[r.dom + k] = e[r.from + k].shows
    <3>1. r.from + k <= Len(d) /\ ns[r.dom + k] = d[r.from + k].shows
      BY <2>1 DEF Shows
    <3>2. r.from + k \in 1..Len(d)
      BY <2>2, <3>1
    <3> QED
      BY <3>1, <3>2
  <2> QED
    BY <2>3 DEF Shows, r
<1> QED
  BY <1>1, <1>2 DEF Ranges, Held, R, W

LEMMA ViewStart == ViewInit => ViewInv
<1> SUFFICES ASSUME ViewInit PROVE ViewInv
  OBVIOUS
<1>1. /\ doc = [i \in 1..FirstLines |-> Line(i)]
      /\ showingFrom \in 0..FirstLines - 1 /\ showingTo \in showingFrom + 1..FirstLines
      /\ nodes = [i \in 1..showingTo - showingFrom |-> showingFrom + i]
      /\ gutter = DrawnGutter(showingFrom, showingTo) /\ gutterDirty = FALSE
      /\ open = FALSE /\ changes = <<>> /\ wide = TRUE
  BY DEF ViewInit
<1>2. FirstLines \in Nat /\ FirstLines > 0
  BY ViewAssumption
<1>3. doc \in Seq(Lines) /\ Len(doc) = FirstLines /\ doc # <<>>
  <2>1. \A i \in 1..FirstLines : Line(i) \in Lines
    BY <1>2, LineIs
  <2> QED
    BY <1>1, <1>2, <2>1
<1>4. \A i \in 1..FirstLines : doc[i].shows = i
  BY <1>1 DEF Line
<1>5. showingFrom \in Nat /\ showingTo \in Nat /\ showingFrom < showingTo /\ showingTo <= FirstLines
  BY <1>1, <1>2
<1>6. nodes \in Seq(Nat) /\ Len(nodes) = showingTo - showingFrom
  BY <1>1, <1>5
<1>7. Current(showingFrom, showingTo, nodes, doc)
  <2> SUFFICES ASSUME NEW k \in 1..showingTo - showingFrom
               PROVE  showingFrom + k <= Len(doc) /\ nodes[k] = doc[showingFrom + k].shows
    BY DEF Current
  <2>1. nodes[k] = showingFrom + k /\ showingFrom + k \in 1..FirstLines
    <3>1. nodes[k] = showingFrom + k
      BY <1>1
    <3>2. showingFrom + k \in 1..FirstLines
      BY <1>2, <1>5
    <3> QED
      BY <3>1, <3>2
  <2> QED
    BY <1>2, <1>3, <1>4, <2>1
<1>8. Held(showingFrom, showingTo, changes, nodes, doc)
  BY <1>1, <1>5, <1>7, WholeHeld
<1>9. changes \in Seq(Changes)
  BY <1>1
<1>10. open \in BOOLEAN /\ gutterDirty \in BOOLEAN /\ wide \in BOOLEAN /\ ~gutterDirty /\ (~open => changes = <<>>)
  BY <1>1
<1>11. showingFrom <= showingTo /\ showingTo <= Len(doc) /\ gutter = DrawnGutter(showingFrom, showingTo)
  BY <1>1, <1>2, <1>3, <1>5
<1> QED
  BY <1>3, <1>5, <1>6, <1>8, <1>9, <1>10, <1>11 DEF ViewInv

(* A change within an operation. *)
LEMMA ChangedWithin ==
  ASSUME ViewInv, Within, doc' \in Seq(Lines), doc' # <<>>, changes' \in Seq(Changes), gutterDirty' \in BOOLEAN,
         Held(showingFrom, showingTo, changes', nodes, doc'),
         ~gutterDirty' => /\ ~gutterDirty /\ Len(doc') = Len(doc)
                          /\ \A i \in 1..Len(doc) : doc'[i].marked = doc[i].marked
  PROVE  ViewInv'
<1>1. open /\ open' = open /\ wide' = wide /\ showingFrom' = showingFrom /\ showingTo' = showingTo
      /\ nodes' = nodes /\ gutter' = gutter
  BY DEF Within
<1>2. ASSUME showingTo > showingFrom, ~gutterDirty'
      PROVE  showingTo <= Len(doc') /\ gutter = DrawnGutter(showingFrom, showingTo)'
  <2>1. showingTo <= Len(doc) /\ gutter = DrawnGutter(showingFrom, showingTo) /\ showingFrom \in Nat /\ showingTo \in Nat
        /\ Len(doc) \in Nat
    BY <1>2 DEF ViewInv
  <2>2. More(showingTo, showingFrom + 1) - showingFrom = showingTo - showingFrom
    BY <1>2, <2>1 DEF More
  <2>3. \A i \in 1..showingTo - showingFrom : showingFrom + i \in 1..Len(doc)
    BY <2>1
  <2>4. \A i \in 1..showingTo - showingFrom : doc'[showingFrom + i].marked = doc[showingFrom + i].marked
    BY <1>2, <2>3
  <2>5. DrawnGutter(showingFrom, showingTo)' = DrawnGutter(showingFrom, showingTo)
    BY <1>1, <2>2, <2>4 DEF DrawnGutter
  <2> QED
    BY <1>2, <2>1, <2>5
<1> QED
  BY <1>1, <1>2 DEF ViewInv

LEMMA Numbers ==
  ViewInv => Fresh \in Nat /\ Len(doc) \in Nat /\ Len(doc) > 0
<1> SUFFICES ASSUME ViewInv PROVE Fresh \in Nat /\ Len(doc) \in Nat /\ Len(doc) > 0
  OBVIOUS
<1>1. doc \in Seq(Lines) /\ doc # <<>> /\ nodes \in Seq(Nat)
  BY DEF ViewInv
<1>2. Fresh \in Nat
  BY <1>1, FreshNumber
<1> QED
  BY <1>1, <1>2

LEMMA ReplaceLinesKeeps == ViewInv /\ ReplaceLines => ViewInv'
<1> SUFFICES ASSUME ViewInv, ReplaceLines PROVE ViewInv'
  OBVIOUS
<1>1. PICK from \in 0..Len(doc) - 1 : \E to \in from..Len(doc) - 1, n \in 1..3, whole \in BOOLEAN :
        /\ Within
        /\ doc' = SubSeq(doc, 1, from) \o Edited(from, to, n, whole) \o SubSeq(doc, to + 2, Len(doc))
        /\ changes' = Append(changes, EditChange(from, to, n))
        /\ gutterDirty' = (gutterDirty \/ from # to \/ n > 1)
  BY DEF ReplaceLines
<1>2. PICK to \in from..Len(doc) - 1, n \in 1..3, whole \in BOOLEAN :
        /\ Within
        /\ doc' = SubSeq(doc, 1, from) \o Edited(from, to, n, whole) \o SubSeq(doc, to + 2, Len(doc))
        /\ changes' = Append(changes, EditChange(from, to, n))
        /\ gutterDirty' = (gutterDirty \/ from # to \/ n > 1)
  BY <1>1
<1> DEFINE l == Len(doc)
           b == to + 1
           E == Edited(from, to, n, whole)
           c == EditChange(from, to, n)
<1>3. Fresh \in Nat /\ l \in Nat /\ l > 0
  BY Numbers
<1>4. doc \in Seq(Lines) /\ changes \in Seq(Changes) /\ gutterDirty \in BOOLEAN
      /\ showingFrom \in Nat /\ showingTo \in Nat /\ showingFrom <= showingTo
      /\ Held(showingFrom, showingTo, changes, nodes, doc)
  BY DEF ViewInv
<1>5. from \in Nat /\ b \in Nat /\ from < b /\ b <= l /\ b + 1 = to + 2 /\ n \in Nat /\ n > 0 /\ to \in Nat
  BY <1>3
<1>6. E \in Seq(Lines) /\ Len(E) = n /\ (from = to /\ n = 1 => E[1].marked = doc[from + 1].marked)
  BY <1>3, <1>4, EditedIs
<1>7. c.from = from /\ c.to = b /\ c.diff = from + n - b /\ c \in Changes
  <2>1. c = [from |-> from, to |-> b, diff |-> n - (to - from) - 1]
    BY DEF EditChange
  <2>2. n - (to - from) - 1 = from + n - b /\ n - (to - from) - 1 \in Int /\ from < b + (n - (to - from) - 1)
    BY <1>5
  <2> HIDE DEF c, b
  <2>3. c \in [from : Nat, to : Nat, diff : Int] /\ c.from = from /\ c.to = b /\ c.diff = n - (to - from) - 1
    BY <1>5, <2>1, <2>2
  <2> QED
    BY <1>5, <2>2, <2>3 DEF Changes
<1> HIDE DEF E, c
<1>8. /\ doc' \in Seq(Lines) /\ Len(doc') = from + n + (l - b)
      /\ \A i \in 1..from : doc'[i] = doc[i]
      /\ \A i \in 1..n : doc'[from + i] = E[i]
      /\ \A i \in b + 1..l : doc'[i + (from + n - b)] = doc[i]
  <2>1. doc' = SubSeq(doc, 1, from) \o E \o SubSeq(doc, b + 1, l)
    BY <1>2, <1>5 DEF E
  <2> HIDE DEF b
  <2>2. from <= b /\ b <= Len(doc)
    BY <1>5
  <2>3. Replaced(Lines, doc', doc, E, from, b)
    BY <1>4, <1>5, <1>6, <2>1, <2>2, Spliced DEF l
  <2> QED
    BY <1>6, <2>3 DEF Replaced, l
<1> HIDE DEF b, l
<1>9. Changed(c, doc, doc')
  <2>1. c.to <= l /\ l \in Nat /\ Len(doc') = l + c.diff
    BY <1>3, <1>5, <1>7, <1>8
  <2>2. \A i \in 1..c.from : doc'[i].shows = doc[i].shows
    BY <1>7, <1>8
  <2>3. \A i \in c.to + 1..l : doc'[i + c.diff].shows = doc[i].shows
    BY <1>7, <1>8
  <2> QED
    BY <2>1, <2>2, <2>3 DEF Changed, l
<1>10. Held(showingFrom, showingTo, changes', nodes, doc')
  BY <1>2, <1>4, <1>7, <1>9, HeldAfterChange DEF c
<1>11. changes' \in Seq(Changes)
  BY <1>2, <1>4, <1>7 DEF c
<1>12. doc' # <<>>
  <2>1. Len(doc') > 0 /\ Len(<<>>) = 0
    BY <1>3, <1>5, <1>8
  <2> QED
    BY <2>1
<1>13. gutterDirty' \in BOOLEAN
  BY <1>2
<1>14. ASSUME ~gutterDirty'
       PROVE  ~gutterDirty /\ Len(doc') = l /\ \A i \in 1..l : doc'[i].marked = doc[i].marked
  <2>1. ~gutterDirty /\ from = to /\ ~(n > 1)
    BY <1>2, <1>14
  <2>2. n = 1 /\ b = from + 1 /\ from + n - b = 0 /\ Len(doc') = l
    BY <1>3, <1>5, <1>8, <2>1 DEF b
  <2>3. ASSUME NEW i \in 1..l PROVE doc'[i].marked = doc[i].marked
    <3>1. CASE i \in 1..from
      BY <1>8, <3>1
    <3>2. CASE i = from + 1
      <4>1. 1 \in 1..n
        BY <2>2
      <4>2. doc'[i] = E[1]
        BY <1>8, <3>2, <4>1
      <4> QED
        BY <1>6, <2>1, <2>2, <3>2, <4>2
    <3>3. CASE i \in b + 1..l
      <4>1. i + (from + n - b) = i
        BY <1>3, <2>2
      <4> QED
        BY <1>8, <3>3, <4>1
    <3>4. i \in 1..from \/ i = from + 1 \/ i \in b + 1..l
      BY <1>3, <1>5, <2>2
    <3> QED
      BY <3>1, <3>2, <3>3, <3>4
  <2> QED
    BY <2>1, <2>2, <2>3
<1> QED
  BY <1>2, <1>8, <1>10, <1>11, <1>12, <1>13, <1>14, ChangedWithin DEF l

LEMMA RestyleLinesKeeps == ViewInv /\ RestyleLines => ViewInv'
<1> SUFFICES ASSUME ViewInv, RestyleLines PROVE ViewInv'
  OBVIOUS
<1>1. PICK from \in 0..Len(doc) - 1, to \in 0..Len(doc) - 1 :
        /\ from <= to /\ Within
        /\ doc' = [i \in DOMAIN doc |-> IF i \in from + 1..to + 1 THEN Restyled(doc[i], Fresh + i) ELSE doc[i]]
        /\ changes' = Append(changes, [from |-> from, to |-> to + 1, diff |-> 0])
        /\ UNCHANGED gutterDirty
  <2>1. PICK from \in 0..Len(doc) - 1 : \E to \in from..Len(doc) - 1 :
          /\ Within
          /\ doc' = [i \in DOMAIN doc |-> IF i \in from + 1..to + 1 THEN Restyled(doc[i], Fresh + i) ELSE doc[i]]
          /\ changes' = Append(changes, [from |-> from, to |-> to + 1, diff |-> 0])
          /\ UNCHANGED gutterDirty
    BY DEF RestyleLines
  <2>2. PICK to \in from..Len(doc) - 1 :
          /\ Within
          /\ doc' = [i \in DOMAIN doc |-> IF i \in from + 1..to + 1 THEN Restyled(doc[i], Fresh + i) ELSE doc[i]]
          /\ changes' = Append(changes, [from |-> from, to |-> to + 1, diff |-> 0])
          /\ UNCHANGED gutterDirty
    BY <2>1
  <2>3. to \in 0..Len(doc) - 1 /\ from <= to
    BY Numbers
  <2> QED
    BY <2>2, <2>3
<1> DEFINE l == Len(doc)
           c == [from |-> from, to |-> to + 1, diff |-> 0]
           el(i) == IF i \in from + 1..to + 1 THEN Restyled(doc[i], Fresh + i) ELSE doc[i]
<1>2. Fresh \in Nat /\ l \in Nat /\ l > 0
  BY Numbers
<1>3. doc \in Seq(Lines) /\ changes \in Seq(Changes) /\ gutterDirty \in BOOLEAN
      /\ showingFrom \in Nat /\ showingTo \in Nat /\ showingFrom <= showingTo
      /\ Held(showingFrom, showingTo, changes, nodes, doc)
  BY DEF ViewInv
<1>4. DOMAIN doc = 1..l /\ \A i \in 1..l : doc[i] \in Lines
  BY <1>3
<1>5. c \in Changes /\ c.from = from /\ c.to = to + 1 /\ c.diff = 0
  <2>1. from \in Nat /\ to + 1 \in Nat /\ 0 \in Int /\ from < to + 1 /\ from < (to + 1) + 0
    BY <1>1, <1>2
  <2> QED
    BY <2>1 DEF Changes
<1>6. \A i \in 1..l : el(i) \in Lines /\ el(i).marked = doc[i].marked
  <2> SUFFICES ASSUME NEW i \in 1..l PROVE el(i) \in Lines /\ el(i).marked = doc[i].marked
    OBVIOUS
  <2>1. Fresh + i \in Nat /\ doc[i] \in Lines
    BY <1>2, <1>4
  <2> QED
    BY <2>1, LineIs
<1>7. \A i \in 1..l : ~(i \in from + 1..to + 1) => el(i) = doc[i]
  OBVIOUS
<1>8. doc' = [i \in 1..l |-> el(i)]
  BY <1>1, <1>4
<1> HIDE DEF el, c
<1>9. doc' \in Seq(Lines) /\ Len(doc') = l /\ \A i \in 1..l : doc'[i] = el(i)
  <2> HIDE DEF l
  <2> QED
    BY <1>2, <1>6, <1>8
<1>10. Changed(c, doc, doc')
  <2>1. c.to <= l /\ Len(doc') = l + c.diff
    BY <1>1, <1>2, <1>5, <1>9
  <2>2. ASSUME NEW i \in 1..c.from PROVE doc'[i].shows = doc[i].shows
    <3>1. i \in 1..l /\ ~(i \in from + 1..to + 1)
      BY <1>1, <1>2, <1>5
    <3> QED
      BY <1>7, <1>9, <3>1
  <2>3. ASSUME NEW i \in c.to + 1..l PROVE doc'[i + c.diff].shows = doc[i].shows
    <3>1. i \in 1..l /\ ~(i \in from + 1..to + 1) /\ i + c.diff = i
      BY <1>1, <1>2, <1>5
    <3> QED
      BY <1>7, <1>9, <3>1
  <2> QED
    BY <1>2, <2>1, <2>2, <2>3 DEF Changed
<1>11. Held(showingFrom, showingTo, changes', nodes, doc')
  BY <1>1, <1>3, <1>5, <1>10, HeldAfterChange DEF c
<1>12. changes' \in Seq(Changes)
  BY <1>1, <1>3, <1>5 DEF c
<1>13. doc' # <<>>
  BY <1>2, <1>9
<1>14. gutterDirty' = gutterDirty /\ Within
  BY <1>1
<1>15. \A i \in 1..l : doc'[i].marked = doc[i].marked
  BY <1>6, <1>9
<1> QED
  BY <1>3, <1>9, <1>11, <1>12, <1>13, <1>14, <1>15, ChangedWithin

LEMMA SetMarkerKeeps == ViewInv /\ SetMarker => ViewInv'
<1> SUFFICES ASSUME ViewInv, SetMarker PROVE ViewInv'
  OBVIOUS
<1>1. PICK i \in DOMAIN doc : /\ Within
                              /\ doc' = [doc EXCEPT ![i].marked = ~@] /\ gutterDirty' = TRUE
                              /\ UNCHANGED changes
  BY DEF SetMarker
<1> DEFINE l == Len(doc)
           x == [doc[i] EXCEPT !.marked = ~@]
<1>2. doc \in Seq(Lines) /\ changes \in Seq(Changes) /\ l \in Nat /\ l > 0
      /\ Held(showingFrom, showingTo, changes, nodes, doc)
  BY Numbers DEF ViewInv
<1>3. DOMAIN doc = 1..l /\ doc[i] \in Lines
  BY <1>2
<1>4. x \in Lines /\ x.shows = doc[i].shows
  BY <1>3 DEF Lines
<1>5. doc' = [doc EXCEPT ![i] = x]
  BY <1>1
<1> HIDE DEF x
<1>6. doc' \in Seq(Lines) /\ Len(doc') = l /\ \A k \in 1..l : doc'[k] = IF k = i THEN x ELSE doc[k]
  BY <1>2, <1>3, <1>4, <1>5
<1>7. \A k \in 1..l : doc'[k].shows = doc[k].shows
  BY <1>4, <1>6
<1>8. Held(showingFrom, showingTo, changes', nodes, doc')
  BY <1>1, <1>2, <1>6, <1>7, HeldAlike
<1>9. doc' # <<>>
  BY <1>2, <1>6
<1> QED
  BY <1>1, <1>2, <1>6, <1>8, <1>9, ChangedWithin

-----------------------------------------------------------------------------
(* The window of a scroll position lies in the document. *)
LEMMA WindowLies ==
  ASSUME ViewInv, NEW v \in Visible
  PROVE  /\ WindowFrom(v[1]) \in Nat /\ WindowTo(v[2]) \in Nat
         /\ WindowFrom(v[1]) <= WindowTo(v[2]) /\ WindowTo(v[2]) <= Len(doc)
<1> DEFINE l == Len(doc)
<1>1. PICK first \in 0..l - 1 : v = <<first, Fewer(first + Rows, l)>>
  BY DEF Visible
<1> DEFINE last == Fewer(first + Rows, l)
           from0 == More(first - Margin, 0)
           to0 == Fewer(l, last + Margin)
<1>2. l \in Nat /\ l > 0 /\ Margin \in Nat /\ Rows \in Nat /\ showingFrom \in Nat /\ showingTo \in Nat
  BY Numbers, ViewAssumption DEF ViewInv
<1>3. v[1] = first /\ v[2] = last
  BY <1>1
<1> HIDE DEF l
<1>4. last \in Nat /\ first <= last /\ last <= l /\ first \in Nat
  BY <1>2 DEF Fewer
<1> HIDE DEF last
<1>5. from0 \in Nat /\ from0 <= first /\ to0 \in Nat /\ first <= to0 /\ to0 <= l
  BY <1>2, <1>4 DEF Fewer, More
<1>6. WindowFrom(first) \in Nat /\ WindowFrom(first) <= first
  <2>1. (WindowFrom(first) = showingFrom /\ showingFrom < from0) \/ WindowFrom(first) = from0
    BY DEF WindowFrom
  <2> HIDE DEF from0
  <2> QED
    BY <1>2, <1>4, <1>5, <2>1
<1>7. WindowTo(last) \in Nat /\ first <= WindowTo(last) /\ WindowTo(last) <= l
  <2>1. (WindowTo(last) = Fewer(l, showingTo) /\ showingTo > to0) \/ WindowTo(last) = to0
    BY DEF WindowTo, l
  <2> HIDE DEF to0
  <2>2. showingTo > to0 => Fewer(l, showingTo) \in Nat /\ first <= Fewer(l, showingTo) /\ Fewer(l, showingTo) <= l
    BY <1>2, <1>4, <1>5 DEF Fewer
  <2> QED
    BY <1>2, <1>4, <1>5, <2>1, <2>2
<1>8. WindowFrom(first) <= WindowTo(last)
  <2> DEFINE a == WindowFrom(first)
             b == WindowTo(last)
  <2>1. a \in Nat /\ b \in Nat /\ a <= first /\ first <= b
    BY <1>6, <1>7
  <2> HIDE DEF a, b
  <2>2. a <= b
    BY <1>4, <2>1
  <2> QED
    BY <2>2 DEF a, b
<1> QED
  BY <1>3, <1>6, <1>7, <1>8 DEF l

(* The ranges that an update starts from. *)
Reused(all, from, to) ==
  IF all THEN <<>> ELSE Clipped(ComputeIntact(<<Span(showingFrom, showingTo, 0)>>, changes), from, to)

LEMMA ReusedGood ==
  ASSUME ViewInv, NEW all \in BOOLEAN, NEW from \in Nat, NEW to \in Nat
  PROVE  /\ Ranges(Reused(all, from, to), showingTo - showingFrom, nodes, doc)
         /\ InsideOf(Reused(all, from, to), from, to)
         /\ showingTo - showingFrom \in Int /\ showingTo - showingFrom <= Len(nodes)
<1> DEFINE W == showingTo - showingFrom
<1>1. W \in Int /\ W <= Len(nodes)
  <2>1. showingFrom \in Nat /\ showingTo \in Nat /\ Len(nodes) \in Nat /\ (showingTo > showingFrom => Len(nodes) = W)
    BY DEF ViewInv
  <2> QED
    BY <2>1
<1>2. CASE all
  <2>1. Reused(all, from, to) = <<>> /\ <<>> \in Seq(Spans) /\ Len(<<>>) = 0 /\ 1..0 = {}
    BY <1>2 DEF Reused
  <2> QED
    BY <1>1, <2>1 DEF Ranges, InsideOf
<1>3. CASE ~all
  <2> DEFINE R == ComputeIntact(Whole(showingFrom, showingTo), changes)
  <2>1. Reused(all, from, to) = Clipped(R, from, to)
    BY <1>3 DEF Reused, Whole
  <2>2. Ranges(R, W, nodes, doc)
    BY DEF ViewInv, Held
  <2> HIDE DEF R, W
  <2>3. Ranges(Clipped(R, from, to), W, nodes, doc) /\ InsideOf(Clipped(R, from, to), from, to)
    BY <1>1, <2>2, ClippedRanges
  <2> QED
    BY <1>1, <2>1, <2>3 DEF W
<1> QED
  BY <1>2, <1>3

(* When an update leaves the screen alone, it is current. *)
LEMMA LeftCurrent ==
  ASSUME ViewInv, NEW all \in BOOLEAN,
         IntactLines(Reused(all, showingFrom, showingTo)) = showingTo - showingFrom
  PROVE  Current(showingFrom, showingTo, nodes, doc)
<1> DEFINE R == Reused(all, showingFrom, showingTo)
<1>1. showingFrom \in Nat /\ showingTo \in Nat
  BY DEF ViewInv
<1>2. Ranges(R, showingTo - showingFrom, nodes, doc) /\ InsideOf(R, showingFrom, showingTo)
  BY <1>1, ReusedGood
<1> HIDE DEF R
<1>3. R \in Seq(Spans)
  BY <1>2 DEF Ranges
<1>4. PICK l : Counted(l, R) /\ IntactLines(R) = l[Len(R)]
  BY <1>3, LinesCounted
<1>5. l[Len(R)] = showingTo - showingFrom
  BY <1>4 DEF R
<1>6. \A k \in 1..showingTo - showingFrom : showingFrom + k <= Len(doc) /\ nodes[k] = doc[showingFrom + k].shows
  BY <1>1, <1>2, <1>4, <1>5, Covered
<1> QED
  BY <1>6 DEF Current

LEMMA PatchedCurrent ==
  ASSUME ViewInv, NEW all \in BOOLEAN, NEW from \in Nat, NEW to \in Nat, from <= to, to <= Len(doc)
  PROVE  PatchDisplay(from, to, Reused(all, from, to)) = [k \in 1..to - from |-> doc[from + k].shows]
<1> DEFINE R == Reused(all, from, to)
           W == showingTo - showingFrom
<1>1. Ranges(R, W, nodes, doc) /\ InsideOf(R, from, to) /\ W \in Int /\ W <= Len(nodes)
  BY ReusedGood
<1>2. nodes \in Seq(Nat) /\ doc \in Seq(Lines)
  BY DEF ViewInv
<1> HIDE DEF R, W
<1>3. PatchDisplay(from, to, R) = [k \in 1..to - from |-> doc[from + k].shows]
  BY <1>1, <1>2, Patched
<1> QED
  BY <1>3 DEF R

(* What an update of the display may do: take the screen away, leave it as   *)
(* it is because it is current, or draw the new window.                      *)
TakenAway ==
  showingFrom' = 0 /\ showingTo' = 0 /\ UNCHANGED <<nodes, gutter, gutterDirty>>
Drawn ==
  /\ showingFrom' \in Nat /\ showingTo' \in Nat /\ showingFrom' <= showingTo' /\ showingTo' <= Len(doc)
  /\ nodes' = [k \in 1..showingTo' - showingFrom' |-> doc[showingFrom' + k].shows]
  /\ gutter' = IF ~(showingFrom' = showingFrom /\ showingTo' = showingTo) \/ gutterDirty
               THEN DrawnGutter(showingFrom', showingTo') ELSE gutter
  /\ gutterDirty' = FALSE

LEMMA DisplayUpdated ==
  ASSUME ViewInv, NEW all \in BOOLEAN, NEW v \in Visible, NEW ACTION Otherwise,
         UpdateDisplay(all, changes, v[1], v[2], Otherwise)
  PROVE  TakenAway \/ Drawn \/ (Current(showingFrom, showingTo, nodes, doc) /\ Otherwise)
<1> DEFINE from == WindowFrom(v[1])
           to == WindowTo(v[2])
           ranges == Reused(all, from, to)
           same == from = showingFrom /\ to = showingTo
           inside == ~all /\ changes = <<>> /\ v[1] > showingFrom /\ v[2] < showingTo
           intact == IntactLines(ranges) = to - from /\ same
<1>1. from \in Nat /\ to \in Nat /\ from <= to /\ to <= Len(doc)
  BY WindowLies
<1>2. \/ showingFrom' = 0 /\ showingTo' = 0 /\ UNCHANGED <<nodes, gutter, gutterDirty>>
      \/ (inside \/ intact) /\ Otherwise
      \/ /\ nodes' = PatchDisplay(from, to, ranges)
         /\ showingFrom' = from /\ showingTo' = to
         /\ gutter' = IF ~same \/ gutterDirty THEN DrawnGutter(from, to) ELSE gutter
         /\ gutterDirty' = FALSE
  BY DEF UpdateDisplay, Reused
<1>3. inside => Current(showingFrom, showingTo, nodes, doc)
  <2>1. showingFrom \in Nat /\ showingTo \in Nat /\ showingFrom <= showingTo
        /\ Held(showingFrom, showingTo, changes, nodes, doc)
    BY DEF ViewInv
  <2> QED
    BY <2>1, WholeHeld
<1>4. intact => Current(showingFrom, showingTo, nodes, doc)
  BY LeftCurrent
<1>5. PatchDisplay(from, to, ranges) = [k \in 1..to - from |-> doc[from + k].shows]
  BY <1>1, PatchedCurrent
<1> HIDE DEF from, to, ranges, inside, intact
<1>6. CASE showingFrom' = 0 /\ showingTo' = 0 /\ UNCHANGED <<nodes, gutter, gutterDirty>>
  BY <1>6 DEF TakenAway
<1>7. CASE (inside \/ intact) /\ Otherwise
  BY <1>3, <1>4, <1>7
<1>8. CASE /\ nodes' = PatchDisplay(from, to, ranges)
           /\ showingFrom' = from /\ showingTo' = to
           /\ gutter' = IF ~same \/ gutterDirty THEN DrawnGutter(from, to) ELSE gutter
           /\ gutterDirty' = FALSE
  BY <1>1, <1>5, <1>8 DEF Drawn
<1> QED
  BY <1>2, <1>6, <1>7, <1>8

(* The end of an update leaves nothing behind. *)
Settled == doc' = doc /\ open' = FALSE /\ wide' = wide /\ changes' = <<>>

LEMMA TakenAwayKeeps == ViewInv /\ Settled /\ TakenAway => ViewInv'
<1> SUFFICES ASSUME ViewInv, Settled, TakenAway PROVE ViewInv'
  OBVIOUS
<1>1. /\ doc' = doc /\ open' = FALSE /\ wide' = wide /\ changes' = <<>>
      /\ showingFrom' = 0 /\ showingTo' = 0 /\ nodes' = nodes /\ gutterDirty' = gutterDirty
  BY DEF Settled, TakenAway
<1>2. Current(0, 0, nodes, doc)
  <2>1. 1..0 - 0 = {}
    OBVIOUS
  <2> QED
    BY <2>1 DEF Current
<1>3. Held(0, 0, <<>>, nodes, doc)
  <2>1. 0 \in Nat /\ 0 <= 0
    OBVIOUS
  <2> QED
    BY <1>2, <2>1, WholeHeld
<1>4. Held(showingFrom', showingTo', changes', nodes', doc')
  BY <1>1, <1>3
<1>5. ~(showingTo' > showingFrom') /\ showingFrom' <= showingTo' /\ showingFrom' \in Nat /\ showingTo' \in Nat
      /\ changes' \in Seq(Changes) /\ open' \in BOOLEAN
  <2>1. ~(showingTo' > showingFrom') /\ showingFrom' <= showingTo' /\ showingFrom' \in Nat /\ showingTo' \in Nat
    BY <1>1
  <2>2. <<>> \in Seq(Changes)
    OBVIOUS
  <2>3. changes' \in Seq(Changes)
    BY <1>1, <2>2
  <2>4. open' \in BOOLEAN
    BY <1>1, Zenon
  <2> QED
    BY <2>1, <2>3, <2>4
<1> QED
  BY <1>1, <1>4, <1>5 DEF ViewInv

LEMMA DrawnKeeps == ViewInv /\ Settled /\ Drawn => ViewInv'
<1> SUFFICES ASSUME ViewInv, Settled, Drawn PROVE ViewInv'
  OBVIOUS
<1> DEFINE from == showingFrom'
           to == showingTo'
<1>1. /\ doc' = doc /\ open' = FALSE /\ wide' = wide /\ changes' = <<>>
      /\ from \in Nat /\ to \in Nat /\ from <= to /\ to <= Len(doc)
      /\ nodes' = [k \in 1..to - from |-> doc[from + k].shows]
      /\ gutter' = IF ~(from = showingFrom /\ to = showingTo) \/ gutterDirty THEN DrawnGutter(from, to) ELSE gutter
      /\ gutterDirty' = FALSE
  BY DEF Settled, Drawn
<1>2. doc \in Seq(Lines) /\ Len(doc) \in Nat
  BY Numbers DEF ViewInv
<1>3. nodes' \in Seq(Nat) /\ Len(nodes') = to - from /\ \A k \in 1..to - from : nodes'[k] = doc[from + k].shows
  <2> HIDE DEF from, to
  <2>1. \A k \in 1..to - from : from + k \in 1..Len(doc)
    BY <1>1, <1>2
  <2>2. \A k \in 1..to - from : doc[from + k].shows \in Nat
    <3>1. \A i \in 1..Len(doc) : doc[i] \in Lines
      BY <1>2
    <3>2. \A i \in 1..Len(doc) : doc[i].shows \in Nat
      BY <3>1 DEF Lines
    <3> QED
      BY <2>1, <3>2
  <2>3. to - from \in Nat
    BY <1>1
  <2> QED
    BY <1>1, <2>2, <2>3
<1>4. Held(from, to, <<>>, nodes', doc)
  <2> HIDE DEF from, to
  <2>1. Current(from, to, nodes', doc)
    <3>1. \A k \in 1..to - from : from + k <= Len(doc)
      BY <1>1, <1>2
    <3> QED
      BY <1>3, <3>1 DEF Current
  <2> QED
    BY <1>1, <2>1, WholeHeld
<1>5. to > from => gutter' = DrawnGutter(from, to)
  <2>1. CASE ~(from = showingFrom /\ to = showingTo) \/ gutterDirty
    BY <1>1, <2>1
  <2>2. CASE from = showingFrom /\ to = showingTo /\ ~gutterDirty
    <3>1. showingTo > showingFrom => gutter = DrawnGutter(showingFrom, showingTo)
      BY <2>2 DEF ViewInv
    <3>2. gutter' = gutter
      BY <1>1, <2>2
    <3> QED
      BY <2>2, <3>1, <3>2
  <2> QED
    BY <2>1, <2>2
<1>6. DrawnGutter(showingFrom, showingTo)' = DrawnGutter(from, to)
  BY <1>1 DEF DrawnGutter
<1>7. changes' \in Seq(Changes) /\ open' \in BOOLEAN /\ gutterDirty' \in BOOLEAN /\ ~gutterDirty'
  <2>1. <<>> \in Seq(Changes)
    OBVIOUS
  <2>2. changes' \in Seq(Changes)
    BY <1>1, <2>1
  <2>3. open' \in BOOLEAN /\ gutterDirty' \in BOOLEAN /\ ~gutterDirty'
    BY <1>1, Zenon
  <2> QED
    BY <2>2, <2>3
<1>8. Held(showingFrom', showingTo', changes', nodes', doc')
  BY <1>1, <1>4
<1>9. showingTo' > showingFrom' /\ ~gutterDirty' =>
        showingTo' <= Len(doc') /\ gutter' = DrawnGutter(showingFrom, showingTo)'
  BY <1>1, <1>5, <1>6
<1> QED
  BY <1>1, <1>2, <1>3, <1>7, <1>8, <1>9 DEF ViewInv

(* The gutter outside of an update, when the nodes are current. *)
LEMMA GutterKeeps ==
  ViewInv /\ Settled /\ Current(showingFrom, showingTo, nodes, doc) /\ UpdateGutter => ViewInv'
<1> SUFFICES ASSUME ViewInv, Settled, Current(showingFrom, showingTo, nodes, doc), UpdateGutter PROVE ViewInv'
  OBVIOUS
<1>1. /\ doc' = doc /\ open' = FALSE /\ wide' = wide /\ changes' = <<>>
      /\ showingFrom' = showingFrom /\ showingTo' = showingTo /\ nodes' = nodes
      /\ gutter' = IF gutterDirty THEN DrawnGutter(showingFrom, showingTo) ELSE gutter
      /\ gutterDirty' = FALSE
  BY DEF Settled, UpdateGutter
<1>2. showingFrom \in Nat /\ showingTo \in Nat /\ showingFrom <= showingTo
  BY DEF ViewInv
<1>3. Held(showingFrom, showingTo, <<>>, nodes, doc)
  BY <1>2, WholeHeld
<1>4. showingTo > showingFrom => showingTo <= Len(doc) /\ gutter' = DrawnGutter(showingFrom, showingTo)
  <2> SUFFICES ASSUME showingTo > showingFrom
               PROVE  showingTo <= Len(doc) /\ gutter' = DrawnGutter(showingFrom, showingTo)
    OBVIOUS
  <2>1. showingTo - showingFrom \in 1..showingTo - showingFrom /\ showingFrom + (showingTo - showingFrom) = showingTo
    BY <1>2
  <2>2. showingTo <= Len(doc)
    BY <2>1 DEF Current
  <2>3. ~gutterDirty => gutter = DrawnGutter(showingFrom, showingTo)
    BY DEF ViewInv
  <2> QED
    BY <1>1, <2>2, <2>3
<1>5. DrawnGutter(showingFrom, showingTo)' = DrawnGutter(showingFrom, showingTo)
  BY <1>1 DEF DrawnGutter
<1>6. changes' \in Seq(Changes) /\ open' \in BOOLEAN /\ gutterDirty' \in BOOLEAN /\ ~gutterDirty'
  <2>1. <<>> \in Seq(Changes)
    OBVIOUS
  <2>2. changes' \in Seq(Changes)
    BY <1>1, <2>1
  <2>3. open' \in BOOLEAN /\ gutterDirty' \in BOOLEAN /\ ~gutterDirty'
    BY <1>1, Zenon
  <2> QED
    BY <2>2, <2>3
<1> QED
  BY <1>1, <1>3, <1>4, <1>5, <1>6 DEF ViewInv

LEMMA AloneKeeps ==
  ViewInv /\ UNCHANGED <<doc, open, changes, wide, screen>> => ViewInv'
BY DEF ViewInv, screen, DrawnGutter

LEMMA StartOperationKeeps == ViewInv /\ StartOperation => ViewInv'
<1> SUFFICES ASSUME ViewInv, StartOperation PROVE ViewInv'
  OBVIOUS
<1>1. ~open /\ open' = TRUE /\ changes' = <<>> /\ UNCHANGED <<doc, wide, screen>>
  BY DEF StartOperation
<1>2. changes = <<>>
  BY <1>1 DEF ViewInv
<1>3. open' \in BOOLEAN /\ open'
  BY <1>1, Zenon
<1>4. changes' = changes
  BY <1>1, <1>2
<1> QED
  BY <1>1, <1>3, <1>4 DEF ViewInv, screen, DrawnGutter

LEMMA ToggleKeeps == ViewInv /\ Toggle => ViewInv'
<1> SUFFICES ASSUME ViewInv, Toggle PROVE ViewInv'
  OBVIOUS
<1>1. wide' = ~wide /\ UNCHANGED <<doc, open, changes, screen>>
  BY DEF Toggle
<1>2. wide' \in BOOLEAN
  BY <1>1
<1> QED
  BY <1>1, <1>2 DEF ViewInv, screen, DrawnGutter

LEMMA EndKeeps ==
  ASSUME ViewInv, Settled, NEW all \in BOOLEAN, NEW v \in Visible,
         UpdateDisplay(all, changes, v[1], v[2], UpdateGutter)
  PROVE  ViewInv'
<1>1. TakenAway \/ Drawn \/ (Current(showingFrom, showingTo, nodes, doc) /\ UpdateGutter)
  BY DisplayUpdated
<1> QED
  BY <1>1, TakenAwayKeeps, DrawnKeeps, GutterKeeps

LEMMA EndOperationKeeps == ViewInv /\ EndOperation => ViewInv'
<1> SUFFICES ASSUME ViewInv, EndOperation PROVE ViewInv'
  OBVIOUS
<1>1. Settled
  BY DEF EndOperation, Settled
<1>2. \/ \E v \in Visible : UpdateDisplay(FALSE, changes, v[1], v[2], UpdateGutter)
      \/ changes = <<>> /\ UpdateGutter
  BY DEF EndOperation
<1>3. CASE changes = <<>> /\ UpdateGutter
  <2>1. showingFrom \in Nat /\ showingTo \in Nat /\ showingFrom <= showingTo
        /\ Held(showingFrom, showingTo, changes, nodes, doc)
    BY DEF ViewInv
  <2>2. Current(showingFrom, showingTo, nodes, doc)
    BY <1>3, <2>1, WholeHeld
  <2> QED
    BY <1>1, <1>3, <2>2, GutterKeeps
<1>4. CASE \E v \in Visible : UpdateDisplay(FALSE, changes, v[1], v[2], UpdateGutter)
  <2>1. PICK v \in Visible : UpdateDisplay(FALSE, changes, v[1], v[2], UpdateGutter)
    BY <1>4
  <2>2. FALSE \in BOOLEAN
    OBVIOUS
  <2> QED
    BY <1>1, <2>1, <2>2, EndKeeps
<1> QED
  BY <1>2, <1>3, <1>4

(* An update of the display outside of an operation. *)
LEMMA UpdateKeeps ==
  ASSUME ViewInv, ~open, NEW all \in BOOLEAN, NEW v \in Visible,
         UpdateDisplay(all, <<>>, v[1], v[2], UNCHANGED screen), UNCHANGED <<doc, open, changes, wide>>
  PROVE  ViewInv'
<1>1. changes = <<>> /\ open = FALSE
  BY DEF ViewInv
<1>2. Settled
  BY <1>1 DEF Settled
<1>3. TakenAway \/ Drawn \/ (Current(showingFrom, showingTo, nodes, doc) /\ UNCHANGED screen)
  BY <1>1, DisplayUpdated
<1> QED
  BY <1>2, <1>3, TakenAwayKeeps, DrawnKeeps, AloneKeeps

LEMMA ViewStep == ViewInv /\ [ViewNext]_viewVars => ViewInv'
<1> SUFFICES ASSUME ViewInv, [ViewNext]_viewVars PROVE ViewInv'
  OBVIOUS
<1>1. CASE Scroll
  <2>1. PICK v \in Visible : UpdateDisplay(FALSE, <<>>, v[1], v[2], UNCHANGED screen)
    BY <1>1 DEF Scroll
  <2>2. FALSE \in BOOLEAN /\ ~open /\ UNCHANGED <<doc, open, changes, wide>>
    BY <1>1 DEF Scroll
  <2> QED
    BY <2>1, <2>2, UpdateKeeps
<1>2. CASE Refresh
  <2>1. PICK v \in Visible : UpdateDisplay(TRUE, <<>>, v[1], v[2], UNCHANGED screen)
    BY <1>2 DEF Refresh
  <2>2. TRUE \in BOOLEAN /\ ~open /\ UNCHANGED <<doc, open, changes, wide>>
    BY <1>2 DEF Refresh
  <2> QED
    BY <2>1, <2>2, UpdateKeeps
<1>3. CASE UNCHANGED viewVars
  <2>1. UNCHANGED <<doc, open, changes, wide, screen>>
    BY <1>3 DEF viewVars, screen
  <2> QED
    BY <2>1, AloneKeeps
<1> QED
  BY <1>1, <1>2, <1>3, StartOperationKeeps, ReplaceLinesKeeps, RestyleLinesKeeps, SetMarkerKeeps,
     EndOperationKeeps, ToggleKeeps DEF ViewNext

(* ViewTypeOK: of the document, the window and the nodes, and the flags of   *)
(* an operation, whatever the operations of the editor do to them.           *)
LEMMA ViewInvTypes == ViewInv => ViewTypeOK
BY DEF ViewInv, ViewTypeOK, Lines

LEMMA ViewInvCurrent == ViewInv => WindowIsCurrent
<1> SUFFICES ASSUME ViewInv, ~open, showingTo > showingFrom
             PROVE  /\ nodes = [i \in 1..showingTo - showingFrom |-> doc[showingFrom + i].shows]
                    /\ gutter = DrawnGutter(showingFrom, showingTo)
  BY DEF WindowIsCurrent
<1>1. /\ showingFrom \in Nat /\ showingTo \in Nat /\ showingFrom <= showingTo /\ changes = <<>>
      /\ nodes \in Seq(Nat) /\ Len(nodes) = showingTo - showingFrom
      /\ Held(showingFrom, showingTo, changes, nodes, doc)
  BY DEF ViewInv
<1>2. ~gutterDirty
  <2>1. gutterDirty => showingTo = showingFrom
    BY DEF ViewInv
  <2> QED
    BY <1>1, <2>1
<1>3. gutter = DrawnGutter(showingFrom, showingTo)
  BY <1>2 DEF ViewInv
<1>4. Current(showingFrom, showingTo, nodes, doc)
  BY <1>1, WholeHeld
<1>5. \A k \in 1..showingTo - showingFrom : nodes[k] = doc[showingFrom + k].shows
  BY <1>4 DEF Current
<1>6. nodes = [i \in 1..showingTo - showingFrom |-> nodes[i]]
  BY <1>1
<1>7. nodes = [i \in 1..showingTo - showingFrom |-> doc[showingFrom + i].shows]
  BY <1>5, <1>6
<1> QED
  BY <1>3, <1>7

(* The invariant that carries the proof holds all the time. *)
THEOREM ViewInvariant == ViewSpec => []ViewInv
<1> QED
  BY ViewStart, ViewStep, PTL DEF ViewSpec

(* ShownIsCurrent: whatever operations change, however the window moves and  *)
(* wherever the page takes the editor, the nodes on the screen after an      *)
(* operation show the lines of the window as they are, and the gutter beside *)
(* them is theirs.                                                           *)
THEOREM ViewShownIsCurrent == ViewSpec => []ShownIsCurrent
<1>1. ViewInv => ShownIsCurrent
  BY ViewInvTypes, ViewInvCurrent DEF ShownIsCurrent
<1> QED
  BY <1>1, ViewInvariant, PTL

-----------------------------------------------------------------------------
(* The dialogs on top of it.  Their invariant is stated of one dialog at a   *)
(* time, with the question whether it has the focus as a parameter, so that  *)
(* "every dialog is fine once the focus went nowhere" can be said of a list  *)
(* of dialogs in the middle of a step.                                       *)
Dialog == [kind : {"ask", "confirm"}, closed : BOOLEAN, blurring : Int, timers : Nat, answered : Nat]

(* A dialog that has the focus, or has not. *)
Fine(r, has) ==
  /\ r.answered <= 1
  /\ has => ~r.closed
  /\ ~r.closed => /\ r.answered = 0
                  /\ r.kind = "ask" => has
                  /\ r.kind = "confirm" => /\ has \/ r.timers > 0
                                           /\ r.blurring = IF has THEN 1 ELSE 0

(* Dialogs of which f has the focus; f may be none of them. *)
AllFine(ds, f) == ds \in Seq(Dialog) /\ \A d \in 1..Len(ds) : Fine(ds[d], f = d)
Focused(ds, f) == f \in {Editor, Elsewhere} \cup 1..Len(ds)

DialogsInv == AllFine(dialogs, focus) /\ Focused(dialogs, focus)

-----------------------------------------------------------------------------
With(ds, d, r) == [ds EXCEPT ![d] = r]

(* Of the dialogs ds, of which f has the focus, d becomes r, and after it g  *)
(* has the focus; no other dialog gains or loses it.                         *)
Turns(ds, f, d, r, g) ==
  /\ AllFine(ds, f) /\ d \in 1..Len(ds) /\ r \in Dialog
  /\ IF g = d THEN Fine(r, TRUE) ELSE Fine(r, FALSE)
  /\ f = g \/ \A e \in 1..Len(ds) : e # d => f # e /\ g # e

LEMMA OneChanges ==
  ASSUME NEW ds, NEW f, NEW d, NEW r, NEW g, Turns(ds, f, d, r, g)
  PROVE  AllFine(With(ds, d, r), g) /\ Len(With(ds, d, r)) = Len(ds)
<1> USE DEF Turns
<1>1. ds \in Seq(Dialog) /\ d \in 1..Len(ds) BY DEF AllFine
<1>2. /\ With(ds, d, r) \in Seq(Dialog)
      /\ Len(With(ds, d, r)) = Len(ds)
      /\ \A j \in 1..Len(ds) : With(ds, d, r)[j] = IF j = d THEN r ELSE ds[j]
  BY <1>1, ExceptSeq DEF With
<1>3. ASSUME NEW j \in 1..Len(ds) PROVE Fine(With(ds, d, r)[j], g = j)
  <2>1. CASE j = d /\ g = d BY <2>1, <1>2
  <2>3. CASE j = d /\ g # d BY <2>3, <1>2
  <2>2. CASE j # d
    <3>1. With(ds, d, r)[j] = ds[j] BY <1>2, <2>2
    <3>2. Fine(ds[j], f = j) BY DEF AllFine
    <3>3. (f = j) = (g = j) BY <2>2
    <3> QED BY <3>1, <3>2, <3>3
  <2> QED BY <2>1, <2>2, <2>3
<1> QED BY <1>2, <1>3 DEF AllFine

LEMMA Domain == \A ds, f : AllFine(ds, f) => DOMAIN ds = 1..Len(ds) /\ Len(ds) \in Nat /\ \A d \in 1..Len(ds) : ds[d] \in Dialog
BY DEF AllFine

(* Nobody is harmed when the focus is lost to an element without a dialog. *)
LEMMA BlurLeaves ==
  ASSUME NEW ds, NEW f, AllFine(ds, f), Focused(ds, f), NEW g \in {Editor, Elsewhere}
  PROVE  AllFine(Blur(ds, f), g) /\ Len(Blur(ds, f)) = Len(ds)
<1>1. DOMAIN ds = 1..Len(ds) /\ Len(ds) \in Nat /\ \A d \in 1..Len(ds) : ds[d] \in Dialog BY Domain
<1>2. g \notin 1..Len(ds) BY <1>1 DEF Editor, Elsewhere
<1>3. CASE f \notin 1..Len(ds)
  <2>1. Blur(ds, f) = ds BY <1>1, <1>3 DEF Blur
  <2>2. \A d \in 1..Len(ds) : f # d /\ g # d BY <1>2, <1>3
  <2> QED BY <2>1, <2>2 DEF AllFine
<1>4. CASE f \in 1..Len(ds)
  <2>1. Fine(ds[f], TRUE) BY <1>4 DEF AllFine
  <2>2. ds[f] \in Dialog BY <1>1, <1>4
  <2>3. g # f /\ \A e \in 1..Len(ds) : e # f => f # e /\ g # e BY <1>2, <1>4
  <2>4. CASE ds[f].kind = "ask"
    <3> DEFINE r == [ds[f] EXCEPT !.closed = TRUE]
    <3>1. r \in Dialog /\ Fine(r, FALSE) BY <2>1, <2>2, <2>4 DEF Dialog, Fine
    <3>2. Blur(ds, f) = With(ds, f, r) BY <1>1, <1>4, <2>1, <2>4 DEF Blur, Fine, With
    <3>3. Turns(ds, f, f, r, g) BY <1>4, <2>3, <3>1 DEF Turns
    <3> HIDE DEF r
    <3> QED BY <3>2, <3>3, OneChanges
  <2>5. CASE ds[f].kind = "confirm"
    <3> DEFINE r1 == [ds[f] EXCEPT !.blurring = @ - 1]
               r  == [r1 EXCEPT !.timers = @ + 1]
    <3>1. /\ r1 \in Dialog /\ r1.blurring = 0 /\ r1.kind = "confirm"
          /\ r1.answered = ds[f].answered /\ r1.closed = ds[f].closed
      BY <2>1, <2>2, <2>5 DEF Dialog, Fine
    <3> HIDE DEF r1
    <3>2. r \in Dialog /\ Fine(r, FALSE) BY <2>1, <2>5, <3>1 DEF Dialog, Fine
    <3> USE DEF r1
    <3>3. r = [ds[f] EXCEPT !.blurring = @ - 1, !.timers = @ + 1] BY <2>2 DEF Dialog
    <3> HIDE DEF r1
    <3>4. Blur(ds, f) = [ds EXCEPT ![f] = [ds[f] EXCEPT !.blurring = @ - 1, !.timers = @ + 1]]
      BY <1>1, <1>4, <2>1, <2>5 DEF Blur, Fine
    <3>5. Blur(ds, f) = With(ds, f, r) BY <3>3, <3>4 DEF With
    <3>6. Turns(ds, f, f, r, g) BY <1>4, <2>3, <3>2 DEF Turns
    <3> HIDE DEF r
    <3> QED BY <3>5, <3>6, OneChanges
  <2> QED BY <2>2, <2>4, <2>5 DEF Dialog
<1> QED BY <1>3, <1>4

(* The focus that was nowhere is taken by an open confirmation. *)
LEMMA GainTakes ==
  ASSUME NEW ds, NEW f \in {Editor, Elsewhere}, AllFine(ds, f), NEW d \in 1..Len(ds),
         ~ds[d].closed, ds[d].kind = "confirm"
  PROVE  /\ AllFine(Gain(ds, d), d) /\ Len(Gain(ds, d)) = Len(ds)
         /\ ~Gain(ds, d)[d].closed /\ Gain(ds, d)[d].kind = "confirm"
<1>1. DOMAIN ds = 1..Len(ds) /\ Len(ds) \in Nat /\ ds[d] \in Dialog BY Domain
<1>2. f \notin 1..Len(ds) BY <1>1 DEF Editor, Elsewhere
<1>3. Fine(ds[d], FALSE) BY <1>2 DEF AllFine
<1> DEFINE r == [ds[d] EXCEPT !.blurring = @ + 1]
<1>4. r \in Dialog /\ Fine(r, TRUE) /\ ~r.closed /\ r.kind = "confirm" BY <1>1, <1>3 DEF Dialog, Fine
<1>5. Gain(ds, d) = With(ds, d, r) /\ Gain(ds, d)[d] = r BY <1>1 DEF Gain, With
<1>6. f # d /\ \A e \in 1..Len(ds) : e # d => f # e /\ d # e BY <1>2
<1>7. Turns(ds, f, d, r, d) BY <1>4, <1>6 DEF Turns
<1> HIDE DEF r
<1>8. AllFine(With(ds, d, r), d) /\ Len(With(ds, d, r)) = Len(ds) BY <1>7, OneChanges
<1> QED BY <1>4, <1>5, <1>8

(* A dialog that has the focus is closed, answered or not, and gives the     *)
(* focus to the editor.                                                      *)
LEMMA CloseLeaves ==
  ASSUME NEW ds, NEW d \in 1..Len(ds), AllFine(ds, d)
  PROVE  /\ AllFine([ds EXCEPT ![d].closed = TRUE], Editor)
         /\ AllFine([ds EXCEPT ![d].closed = TRUE, ![d].answered = @ + 1], Editor)
<1>1. DOMAIN ds = 1..Len(ds) /\ Len(ds) \in Nat /\ ds[d] \in Dialog BY Domain
<1>2. Fine(ds[d], TRUE) BY DEF AllFine
<1>3. Editor \notin 1..Len(ds) BY <1>1 DEF Editor
<1> DEFINE r == [ds[d] EXCEPT !.closed = TRUE]
           q == [r EXCEPT !.answered = @ + 1]
<1>4. r \in Dialog /\ Fine(r, FALSE) /\ r.answered = 0 /\ r.closed BY <1>1, <1>2 DEF Dialog, Fine
<1>5. q = [ds[d] EXCEPT !.closed = TRUE, !.answered = @ + 1] BY <1>1 DEF Dialog
<1>6. [ds EXCEPT ![d].closed = TRUE] = With(ds, d, r) BY <1>1 DEF With
<1>7. [ds EXCEPT ![d].closed = TRUE, ![d].answered = @ + 1]
        = [ds EXCEPT ![d] = [ds[d] EXCEPT !.closed = TRUE, !.answered = @ + 1]]
  BY <1>1 DEF Dialog
<1>8. Editor # d /\ \A e \in 1..Len(ds) : e # d => d # e /\ Editor # e BY <1>3
<1>9. Turns(ds, d, d, r, Editor) BY <1>4, <1>8 DEF Turns
<1> HIDE DEF r
<1>10. q \in Dialog /\ Fine(q, FALSE) BY <1>4 DEF Dialog, Fine
<1>11. Turns(ds, d, d, q, Editor) BY <1>8, <1>10 DEF Turns
<1>12. [ds EXCEPT ![d].closed = TRUE, ![d].answered = @ + 1] = With(ds, d, q) BY <1>5, <1>7 DEF With
<1> HIDE DEF q
<1>13. AllFine(With(ds, d, r), Editor) /\ AllFine(With(ds, d, q), Editor) BY <1>9, <1>11, OneChanges
<1> QED BY <1>6, <1>12, <1>13

(* A new dialog takes the focus that was nowhere. *)
LEMMA OpenTakes ==
  ASSUME NEW ds, NEW f \in {Editor, Elsewhere}, AllFine(ds, f), NEW kind \in {"ask", "confirm"}
  PROVE  AllFine(Append(ds, New(kind)), Len(ds) + 1) /\ Focused(Append(ds, New(kind)), Len(ds) + 1)
<1>1. ds \in Seq(Dialog) /\ Len(ds) \in Nat BY DEF AllFine
<1>2. New(kind) \in Dialog /\ Fine(New(kind), TRUE) BY DEF New, Dialog, Fine
<1> DEFINE more == Append(ds, New(kind))
<1>3. /\ more \in Seq(Dialog) /\ Len(more) = Len(ds) + 1
      /\ \A d \in 1..Len(ds) : more[d] = ds[d]
      /\ more[Len(ds) + 1] = New(kind)
  BY <1>1, <1>2, AppendProperties
<1> HIDE DEF more
<1>4. ASSUME NEW d \in 1..Len(ds) + 1 PROVE Fine(more[d], Len(ds) + 1 = d)
  <2>1. CASE d = Len(ds) + 1 BY <1>2, <1>3, <2>1
  <2>2. CASE d # Len(ds) + 1
    <3>1. d \in 1..Len(ds) /\ f # d BY <1>1, <2>2 DEF Editor, Elsewhere
    <3>2. Fine(ds[d], FALSE) BY <3>1 DEF AllFine
    <3> QED BY <1>3, <2>2, <3>1, <3>2
  <2> QED BY <2>1, <2>2
<1>5. AllFine(more, Len(ds) + 1) /\ Focused(more, Len(ds) + 1) BY <1>1, <1>3, <1>4 DEF AllFine, Focused
<1> QED BY <1>5 DEF more

LEMMA GoesOnFine ==
  ASSUME NEW ds, AllFine(ds, Editor), GoesOn(ds)
  PROVE  DialogsInv'
<1>1. CASE dialogs' = ds /\ focus' = Editor BY <1>1 DEF DialogsInv, Focused
<1>2. ASSUME NEW kind \in {"ask", "confirm"}, dialogs' = Append(ds, New(kind)), focus' = Len(ds) + 1
      PROVE  DialogsInv'
  BY <1>2, OpenTakes DEF DialogsInv
<1> QED BY <1>1, <1>2 DEF GoesOn

(* A confirmation that is open is open still when the focus went. *)
LEMMA BlurKeeps ==
  ASSUME NEW ds, NEW f, AllFine(ds, f), NEW d \in 1..Len(ds), ~ds[d].closed, ds[d].kind = "confirm"
  PROVE  ~Blur(ds, f)[d].closed /\ Blur(ds, f)[d].kind = "confirm"
<1>1. DOMAIN ds = 1..Len(ds) /\ ds[d] \in Dialog BY Domain
<1>2. CASE f = d
  <2>1. Blur(ds, f) = [ds EXCEPT ![d] = [ds[d] EXCEPT !.blurring = @ - 1, !.timers = @ + 1]]
    BY <1>1, <1>2 DEF Blur
  <2>2. Blur(ds, f)[d] = [ds[d] EXCEPT !.blurring = @ - 1, !.timers = @ + 1] BY <1>1, <2>1
  <2> QED BY <1>1, <2>2 DEF Dialog
<1>3. CASE f # d
  <2>1. Blur(ds, f)[d] = ds[d] BY <1>1, <1>3 DEF Blur
  <2> QED BY <2>1
<1> QED BY <1>2, <1>3

(* 200 ms after a button lost the focus. *)
LEMMA TimerFine ==
  ASSUME DialogsInv, Timer
  PROVE  DialogsInv'
<1> PICK d \in DOMAIN dialogs :
      /\ dialogs[d].timers > 0
      /\ IF [dialogs EXCEPT ![d].timers = @ - 1][d].blurring <= 0 /\ ~[dialogs EXCEPT ![d].timers = @ - 1][d].closed
         THEN dialogs' = Close([dialogs EXCEPT ![d].timers = @ - 1], d) /\ focus' = Editor
         ELSE dialogs' = [dialogs EXCEPT ![d].timers = @ - 1] /\ UNCHANGED focus
  BY DEF Timer
<1>1. /\ DOMAIN dialogs = 1..Len(dialogs) /\ Len(dialogs) \in Nat /\ dialogs[d] \in Dialog
      /\ AllFine(dialogs, focus) /\ Focused(dialogs, focus) /\ d \in 1..Len(dialogs)
  BY Domain DEF DialogsInv
<1> DEFINE q == [dialogs[d] EXCEPT !.timers = @ - 1]
           r == [q EXCEPT !.closed = TRUE]
           fired == [dialogs EXCEPT ![d].timers = @ - 1]
<1>2. fired = With(dialogs, d, q) /\ fired[d] = q BY <1>1 DEF With
<1>3. /\ q \in Dialog /\ q.blurring = dialogs[d].blurring /\ q.closed = dialogs[d].closed
      /\ q.kind = dialogs[d].kind /\ q.answered = dialogs[d].answered
  BY <1>1 DEF Dialog
<1>4. Fine(dialogs[d], focus = d) BY <1>1 DEF AllFine
<1>5. Editor \notin 1..Len(dialogs) /\ Elsewhere \notin 1..Len(dialogs) BY <1>1 DEF Editor, Elsewhere
<1>6. [fired EXCEPT ![d].closed = TRUE] = With(dialogs, d, r) BY <1>1, <1>2 DEF With
<1> HIDE DEF q, fired
<1>7. r \in Dialog /\ Fine(r, FALSE) BY <1>3, <1>4 DEF Dialog, Fine
<1> HIDE DEF r
<1>8. CASE q.blurring <= 0 /\ ~q.closed
  <2>1. dialogs' = Close(fired, d) /\ focus' = Editor BY <1>2, <1>8 DEF fired
  <2>2. CASE focus = d
    <3>1. dialogs' = With(dialogs, d, r) BY <1>6, <2>1, <2>2 DEF Close
    <3>2. Turns(dialogs, focus, d, r, Editor) BY <1>1, <1>5, <1>7, <2>2 DEF Turns
    <3> QED BY <2>1, <3>1, <3>2, OneChanges DEF DialogsInv, Focused
  <2>3. CASE focus # d
    <3>1. dialogs' = Blur(With(dialogs, d, r), focus) BY <1>6, <2>1, <2>3 DEF Close
    <3>2. Turns(dialogs, focus, d, r, focus) BY <1>1, <1>7, <2>3 DEF Turns
    <3>3. AllFine(With(dialogs, d, r), focus) /\ Focused(With(dialogs, d, r), focus)
      BY <1>1, <3>2, OneChanges DEF Focused
    <3> QED BY <2>1, <3>1, <3>3, BlurLeaves DEF DialogsInv, Focused
  <2> QED BY <2>2, <2>3
<1>9. CASE ~(q.blurring <= 0 /\ ~q.closed)
  <2>1. dialogs' = With(dialogs, d, q) /\ focus' = focus BY <1>2, <1>9 DEF fired
  <2>2. IF focus = d THEN Fine(q, TRUE) ELSE Fine(q, FALSE)
    <3>1. q.closed \/ q.blurring > 0 BY <1>3, <1>9 DEF Dialog
    <3>2. q.kind \in {"ask", "confirm"} BY <1>3 DEF Dialog
    <3>3. CASE focus = d BY <1>3, <1>4, <3>1, <3>2, <3>3 DEF Fine
    <3>4. CASE focus # d BY <1>3, <1>4, <3>1, <3>2, <3>4 DEF Fine
    <3> QED BY <3>3, <3>4
  <2>3. Turns(dialogs, focus, d, q, focus) BY <1>1, <1>3, <2>2 DEF Turns
  <2> QED BY <1>1, <2>1, <2>3, OneChanges DEF DialogsInv, Focused
<1> QED BY <1>8, <1>9

(* A button has the focus when it is clicked, or takes it. *)
LEMMA ButtonFine ==
  ASSUME DialogsInv, Button
  PROVE  DialogsInv'
<1> DEFINE Taken(d) == IF focus = d THEN dialogs ELSE Gain(Blur(dialogs, focus), d)
<1> PICK d \in DOMAIN dialogs :
      /\ IsOpen(d) /\ dialogs[d].kind = "confirm"
      /\ \/ GoesOn([Taken(d) EXCEPT ![d].closed = TRUE, ![d].answered = @ + 1])
         \/ dialogs' = [Taken(d) EXCEPT ![d].closed = TRUE] /\ focus' = Editor
  BY DEF Button
<1>1. /\ AllFine(dialogs, focus) /\ Focused(dialogs, focus) /\ d \in 1..Len(dialogs)
      /\ ~dialogs[d].closed /\ dialogs[d].kind = "confirm"
  BY Domain DEF DialogsInv, IsOpen
<1>2. AllFine(Taken(d), d) /\ d \in 1..Len(Taken(d))
  <2>1. CASE focus = d BY <1>1, <2>1
  <2>2. CASE focus # d
    <3> DEFINE blurred == Blur(dialogs, focus)
    <3>1. AllFine(blurred, Editor) /\ Len(blurred) = Len(dialogs) BY <1>1, BlurLeaves
    <3>2. ~blurred[d].closed /\ blurred[d].kind = "confirm" BY <1>1, BlurKeeps
    <3>3. Taken(d) = Gain(blurred, d) BY <2>2
    <3> HIDE DEF blurred
    <3> QED BY <1>1, <3>1, <3>2, <3>3, GainTakes
  <2> QED BY <2>1, <2>2
<1> HIDE DEF Taken
<1>3. /\ AllFine([Taken(d) EXCEPT ![d].closed = TRUE], Editor)
      /\ AllFine([Taken(d) EXCEPT ![d].closed = TRUE, ![d].answered = @ + 1], Editor)
  BY <1>2, CloseLeaves
<1>4. CASE GoesOn([Taken(d) EXCEPT ![d].closed = TRUE, ![d].answered = @ + 1])
  BY <1>3, <1>4, GoesOnFine
<1>5. CASE dialogs' = [Taken(d) EXCEPT ![d].closed = TRUE] /\ focus' = Editor
  BY <1>3, <1>5 DEF DialogsInv, Focused
<1> QED BY <1>4, <1>5

LEMMA MoveFine ==
  ASSUME DialogsInv, Move
  PROVE  DialogsInv'
<1> PICK to \in {Editor, Elsewhere} \cup {d \in DOMAIN dialogs : IsOpen(d) /\ dialogs[d].kind = "confirm"} :
      dialogs' = Gain(Blur(dialogs, focus), to) /\ focus' = to
  BY DEF Move
<1>1. /\ AllFine(dialogs, focus) /\ Focused(dialogs, focus)
      /\ DOMAIN dialogs = 1..Len(dialogs) /\ Len(dialogs) \in Nat
  BY Domain DEF DialogsInv
<1> DEFINE blurred == Blur(dialogs, focus)
<1>2. Len(blurred) = Len(dialogs) /\ AllFine(blurred, Editor) /\ AllFine(blurred, Elsewhere)
  BY <1>1, BlurLeaves
<1>3. CASE to \in {Editor, Elsewhere}
  <2> HIDE DEF blurred
  <2>1. to \notin DOMAIN blurred BY <1>1, <1>2, <1>3, Domain DEF Editor, Elsewhere
  <2>2. Gain(blurred, to) = blurred BY <2>1 DEF Gain
  <2> QED BY <1>2, <1>3, <2>2 DEF DialogsInv, Focused, blurred
<1>4. CASE to \notin {Editor, Elsewhere}
  <2>1. to \in 1..Len(dialogs) /\ ~dialogs[to].closed /\ dialogs[to].kind = "confirm"
    BY <1>1, <1>4 DEF IsOpen
  <2>2. ~blurred[to].closed /\ blurred[to].kind = "confirm" BY <1>1, <2>1, BlurKeeps
  <2>3. dialogs' = Gain(blurred, to) OBVIOUS
  <2> HIDE DEF blurred
  <2>4. AllFine(Gain(blurred, to), to) /\ Len(Gain(blurred, to)) = Len(blurred)
    BY <1>2, <2>1, <2>2, GainTakes
  <2> QED BY <1>2, <2>1, <2>3, <2>4 DEF DialogsInv, Focused
<1> QED BY <1>3, <1>4

(* A question or a confirmation opens, or a question is answered or dropped. *)
LEMMA QuestionFine ==
  ASSUME DialogsInv, Open \/ Enter \/ Escape
  PROVE  DialogsInv'
<1>1. AllFine(dialogs, focus) /\ Focused(dialogs, focus) /\ DOMAIN dialogs = 1..Len(dialogs)
  BY Domain DEF DialogsInv
<1>2. CASE Open
  <2> DEFINE blurred == Blur(dialogs, focus)
  <2>1. AllFine(blurred, Editor) /\ Len(blurred) = Len(dialogs) BY <1>1, BlurLeaves
  <2>2. PICK kind \in {"ask", "confirm"} : dialogs' = Append(blurred, New(kind)) /\ focus' = Len(dialogs) + 1
    BY <1>2 DEF Open
  <2> HIDE DEF blurred
  <2>3. AllFine(dialogs', focus') /\ Focused(dialogs', focus') BY <2>1, <2>2, OpenTakes
  <2> QED BY <2>3 DEF DialogsInv
<1>3. CASE Enter
  <2>1. focus \in 1..Len(dialogs) BY <1>1, <1>3 DEF Enter, IsOpen
  <2>2. AllFine([dialogs EXCEPT ![focus].closed = TRUE, ![focus].answered = @ + 1], Editor)
    BY <1>1, <2>1, CloseLeaves
  <2>3. GoesOn([dialogs EXCEPT ![focus].closed = TRUE, ![focus].answered = @ + 1]) BY <1>3 DEF Enter
  <2> QED BY <2>2, <2>3, GoesOnFine
<1>4. CASE Escape
  <2>1. focus \in 1..Len(dialogs) BY <1>1, <1>4 DEF Escape, IsOpen
  <2>2. AllFine([dialogs EXCEPT ![focus].closed = TRUE], Editor) BY <1>1, <2>1, CloseLeaves
  <2>3. dialogs' = [dialogs EXCEPT ![focus].closed = TRUE] /\ focus' = Editor BY <1>4 DEF Escape
  <2> QED BY <2>2, <2>3 DEF DialogsInv, Focused
<1> QED BY <1>2, <1>3, <1>4

-----------------------------------------------------------------------------
(* Dialogs neither stay behind nor answer twice, however many of them open   *)
(* and wherever the focus goes: the handlers of dialog.js between them close *)
(* every dialog the user left.                                               *)
THEOREM DialogsClose == Spec => []DialogsRight
<1>1. Init => DialogsInv
  BY EmptySeq DEF Init, DialogsInv, AllFine, Focused
<1>2. DialogsInv /\ [Next]_vars => DialogsInv'
  <2> SUFFICES ASSUME DialogsInv, [Next]_vars PROVE DialogsInv'
    OBVIOUS
  <2>1. CASE Open \/ Enter \/ Escape BY <2>1, QuestionFine
  <2>2. CASE Button BY <2>2, ButtonFine
  <2>3. CASE Move BY <2>3, MoveFine
  <2>4. CASE Timer BY <2>4, TimerFine
  <2>5. CASE UNCHANGED vars BY <2>5 DEF vars, DialogsInv
  <2> QED BY <2>1, <2>2, <2>3, <2>4, <2>5 DEF Next
<1>3. DialogsInv => DialogsRight
  <2> SUFFICES ASSUME DialogsInv PROVE DialogsRight
    OBVIOUS
  <2>1. DOMAIN dialogs = 1..Len(dialogs) BY Domain DEF DialogsInv
  <2>2. \A d \in 1..Len(dialogs) : Fine(dialogs[d], focus = d) /\ dialogs[d] \in Dialog
    BY Domain DEF DialogsInv, AllFine
  <2>3. NoneLeftBehind BY <2>1, <2>2 DEF NoneLeftBehind, Fine
  <2>4. AnsweredOnce BY <2>1, <2>2 DEF AnsweredOnce, Fine
  <2> QED BY <2>3, <2>4 DEF DialogsRight
<1> QED
  BY <1>1, <1>2, <1>3, PTL DEF Spec
=============================================================================
