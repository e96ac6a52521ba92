---------------------------- MODULE EditingProofs ----------------------------
(* What an edit does to the history and to the selection: that undo and redo *)
(* give back the very texts, for any text and any edits, however changes     *)
(* were merged, and that a compound change is one group; and that the ends   *)
(* of the selection stay valid places of the text, in order, and with the    *)
(* text they stood at.                                                       *)
(*                                                                           *)
(* A change takes a text to the one before it; a group does so change by     *)
(* change, the latest first.  The groups of done lead from the text that is  *)
(* there back through all texts of past, those of undone through the texts   *)
(* of future.                                                                *)
(*                                                                           *)
(* Setting the selection keeps the length of every line, so a place that was *)
(* valid stays so; an edit is split into what is in front of its range, its  *)
(* new lines and what is behind, which keep the places in front, the end of  *)
(* the new text and the places behind.  The ends an edit asks for are        *)
(* clipped, and come out in the wrong order only where a line is hidden.     *)
EXTENDS EditHistory, EditorSelection, ListFacts, SequenceTheorems, TLAPS

Changes == [start : Nat \ {0}, added : Nat \ {0}, old : Texts]
Groups == Seq(Changes) \ {<<>>}

(* Taking the change c back turns the text t into the text u: where c.added  *)
(* lines stood, the lines c.old stand again.                                 *)
Takes(c, t, u) ==
  /\ c \in Changes /\ t \in Texts /\ u \in Texts
  /\ c.start + c.added <= Len(t) + 1 /\ Len(u) + c.added = Len(t) + Len(c.old)
  /\ \A i \in 1..c.start - 1 : u[i] = t[i]
  /\ \A i \in 1..Len(c.old) : u[(c.start - 1) + i] = c.old[i]
  /\ \A i \in c.start + c.added..Len(t) : u[(i - c.added) + Len(c.old)] = t[i]

(* The change that brings it again. *)
Again(c, t) == [start |-> c.start, added |-> Len(c.old), old |-> SubSeq(t, c.start, c.start + c.added - 1)]

(* A group leads from t back to u, through the texts p. *)
Leads(g, t, u, p) ==
  /\ p \in [0..Len(g) -> Texts] /\ p[Len(g)] = t /\ p[0] = u
  /\ \A i \in 1..Len(g) : Takes(g[i], p[i], p[i - 1])
Undoes(g, t, u) == g \in Groups /\ \E p : Leads(g, t, u, p)

(* Groups that lead from the text t back through the texts of a list. *)
Chain(groups, texts, t) ==
  \A i \in DOMAIN groups : Undoes(groups[i], IF i = Len(groups) THEN t ELSE texts[i + 1], texts[i])

HistoryInv ==
  /\ text \in Texts /\ done \in Seq(Groups) /\ undone \in Seq(Groups)
  /\ past \in Seq(Texts) /\ future \in Seq(Texts) /\ Len(done) = Len(past) /\ Len(undone) = Len(future)
  /\ depth \in 0..MaxDepth /\ compound \in depth - MaxDepth..depth /\ closed \in BOOLEAN
  /\ ended => closed
  /\ ~tangled => Chain(done, past, text) /\ Chain(undone, future, text)

(* A compound change that has changed nothing yet will start a group, and    *)
(* one that has goes on in the last, which began with it.                    *)
CompoundInv ==
  ~stepped /\ compound = depth =>
    /\ before = <<>> /\ depth > 0 => closed
    /\ before # <<>> => done # <<>> /\ Last(past) = before /\ (depth > 0 => ~closed)

-----------------------------------------------------------------------------
(* Parts of a text. *)
LEMMA PartOf ==
  ASSUME NEW S, NEW q \in Seq(S), NEW a \in Nat, NEW b \in Nat, a <= b, b <= Len(q)
  PROVE  /\ SubSeq(q, a + 1, b) \in Seq(S) /\ Len(SubSeq(q, a + 1, b)) = b - a
         /\ \A i \in 1..b - a : SubSeq(q, a + 1, b)[i] = q[a + i]
<1> DEFINE m == a + 1
           p == SubSeq(q, m, b)
<1>1. Len(q) \in Nat /\ m \in Int /\ b \in Int
  OBVIOUS
<1>2. \A i \in m..b : q[i] \in S
  BY <1>1
<1>3. b - m + 1 = b - a /\ (IF m <= b THEN b - m + 1 ELSE 0) = b - a /\ \A i \in 1..b - a : m + i - 1 = a + i
  OBVIOUS
<1> HIDE DEF m
<1>4. /\ p \in Seq(S) /\ Len(p) = (IF m <= b THEN b - m + 1 ELSE 0)
      /\ \A i \in 1..b - m + 1 : p[i] = q[m + i - 1]
  BY <1>1, <1>2, SubSeqProperties
<1> HIDE DEF p
<1> QED
  BY <1>3, <1>4 DEF p, m

(* Where the characters stand after the text between a and b was replaced.   *)
Replaced(S, r, d, a, b, new) ==
  /\ r \in Seq(S) /\ Len(r) = a + Len(new) + (Len(d) - b) /\ DOMAIN r = 1..Len(r)
  /\ \A i \in 1..a : r[i] = d[i]
  /\ \A i \in 1..Len(new) : r[a + i] = new[i]
  /\ \A i \in 1..Len(d) - b : r[(a + Len(new)) + i] = d[b + i]

LEMMA Spliced ==
  ASSUME NEW S, NEW d \in Seq(S), NEW a \in Nat, NEW b \in Nat, a <= b, b <= Len(d), NEW new \in Seq(S)
  PROVE  Replaced(S, SubSeq(d, 1, a) \o new \o SubSeq(d, b + 1, Len(d)), d, a, b, new)
<1> DEFINE x == SubSeq(d, 1, a)
           y == SubSeq(d, b + 1, Len(d))
           N == Len(new)
<1>1. x \in Seq(S) /\ Len(x) = a /\ \A i \in 1..a : x[i] = d[i]
  <2>1. 0 \in Nat /\ 0 <= a /\ a <= Len(d) /\ 0 + 1 = 1 /\ a - 0 = a
    OBVIOUS
  <2>2. \A i \in 1..a : 0 + i = i
    OBVIOUS
  <2>3. /\ SubSeq(d, 0 + 1, a) \in Seq(S) /\ Len(SubSeq(d, 0 + 1, a)) = a - 0
        /\ \A i \in 1..a - 0 : SubSeq(d, 0 + 1, a)[i] = d[0 + i]
    BY <2>1, PartOf
  <2> QED
    BY <2>1, <2>2, <2>3
<1>2. y \in Seq(S) /\ Len(y) = Len(d) - b /\ \A i \in 1..Len(d) - b : y[i] = d[b + i]
  BY PartOf
<1>3. Len(d) \in Nat /\ N \in Nat /\ DOMAIN new = 1..N
  OBVIOUS
<1> HIDE DEF x, y, N
<1> DEFINE u == x \o new
           r == u \o y
<1>4. /\ u \in Seq(S) /\ Len(u) = a + N
      /\ \A i \in 1..a + N : u[i] = IF i <= a THEN x[i] ELSE new[i - a]
  BY <1>1, <1>3, ConcatProperties DEF N
<1> HIDE DEF u
<1>5. /\ r \in Seq(S) /\ Len(r) = (a + N) + (Len(d) - b) /\ DOMAIN r = 1..Len(r)
      /\ \A i \in 1..(a + N) + (Len(d) - b) : r[i] = IF i <= a + N THEN u[i] ELSE y[i - (a + N)]
  <2>1. r \in Seq(S) /\ Len(r) = Len(u) + Len(y) /\ \A i \in 1..Len(u) + Len(y) : r[i] = IF i <= Len(u) THEN u[i] ELSE y[i - Len(u)]
    BY <1>2, <1>4, ConcatProperties
  <2> HIDE DEF r
  <2> QED
    BY <1>2, <1>4, <2>1
<1> HIDE DEF r
<1>6. \A i \in 1..a : r[i] = d[i]
  <2> SUFFICES ASSUME NEW i \in 1..a PROVE r[i] = d[i]
    OBVIOUS
  <2>1. i \in 1..(a + N) + (Len(d) - b) /\ i <= a + N /\ i \in 1..a + N /\ i <= a
    BY <1>3
  <2> QED
    BY <1>1, <1>4, <1>5, <2>1
<1>7. \A i \in 1..N : r[a + i] = new[i]
  <2> SUFFICES ASSUME NEW i \in 1..N PROVE r[a + i] = new[i]
    OBVIOUS
  <2>1. /\ a + i \in 1..(a + N) + (Len(d) - b) /\ a + i <= a + N /\ a + i \in 1..a + N
        /\ ~(a + i <= a) /\ (a + i) - a = i
    BY <1>3
  <2> QED
    BY <1>4, <1>5, <2>1
<1>8. \A i \in 1..Len(d) - b : r[(a + N) + i] = d[b + i]
  <2> SUFFICES ASSUME NEW i \in 1..Len(d) - b PROVE r[(a + N) + i] = d[b + i]
    OBVIOUS
  <2>1. /\ (a + N) + i \in 1..(a + N) + (Len(d) - b) /\ ~((a + N) + i <= a + N) /\ ((a + N) + i) - (a + N) = i
    BY <1>3
  <2> QED
    BY <1>2, <1>5, <2>1
<1> QED
  BY <1>3, <1>5, <1>6, <1>7, <1>8 DEF Replaced, r, u, x, y, N

LEMMA Ends ==
  ASSUME NEW S, NEW q \in Seq(S), q # <<>>
  PROVE  /\ Len(q) \in Nat \ {0} /\ Front(q) \in Seq(S) /\ Len(Front(q)) = Len(q) - 1
         /\ \A i \in 1..Len(q) - 1 : Front(q)[i] = q[i]
         /\ Last(q) = q[Len(q)] /\ Last(q) \in S
<1>1. Len(q) \in Nat /\ Len(q) > 0
  BY EmptySeq
<1> DEFINE n == Len(q) - 1
<1>2. n \in Nat /\ n <= Len(q) /\ n - 0 = n /\ 0 + 1 = 1 /\ \A i \in 1..n : 0 + i = i
  BY <1>1
<1>3. Front(q) = SubSeq(q, 1, n)
  BY DEF Front
<1> HIDE DEF n
<1>4. /\ SubSeq(q, 0 + 1, n) \in Seq(S) /\ Len(SubSeq(q, 0 + 1, n)) = n - 0
      /\ \A i \in 1..n - 0 : SubSeq(q, 0 + 1, n)[i] = q[0 + i]
  BY <1>2, PartOf
<1>5. Front(q) \in Seq(S) /\ Len(Front(q)) = n /\ \A i \in 1..n : Front(q)[i] = q[i]
  BY <1>2, <1>3, <1>4
<1>6. Last(q) = q[Len(q)] /\ Last(q) \in S
  BY <1>1 DEF Last
<1> QED
  BY <1>1, <1>5, <1>6 DEF n

-----------------------------------------------------------------------------
(* Taking back. *)
LEMMA LinesOf ==
  ASSUME NEW t \in Texts
  PROVE  t \in Seq(Lines) /\ Len(t) \in Nat \ {0} /\ DOMAIN t = 1..Len(t) /\ \A i \in 1..Len(t) : t[i] \in Lines
BY EmptySeq DEF Texts

LEMMA TakesOne ==
  ASSUME NEW c, NEW t, NEW u, NEW v, Takes(c, t, u), Takes(c, t, v)
  PROVE  u = v
<1> DEFINE s == c.start - 1
           m == Len(c.old)
           n == Len(t)
           k == c.added
<1>1. /\ u \in Seq(Lines) /\ v \in Seq(Lines) /\ s \in Nat /\ m \in Nat /\ n \in Nat /\ k \in Nat
      /\ s + k <= n /\ c.start + c.added = (s + 1) + k
      /\ Len(u) \in Nat /\ Len(v) \in Nat /\ Len(u) + k = n + m /\ Len(v) + k = n + m
  BY LinesOf DEF Takes, Changes
<1> HIDE DEF s, m, n, k
<1>2. ASSUME NEW i \in 1..Len(u)
      PROVE  u[i] = v[i]
  <2>1. CASE i <= s
    BY <1>1, <2>1 DEF Takes, s
  <2>2. CASE s < i /\ i <= s + m
    <3>1. i - s \in 1..m /\ s + (i - s) = i
      BY <1>1, <2>2
    <3> QED
      BY <3>1 DEF Takes, s, m
  <2>3. CASE s + m < i
    <3> DEFINE j == (i - m) + k
    <3>1. j \in (s + 1) + k..n /\ (j - k) + m = i
      BY <1>1, <2>3
    <3> HIDE DEF j
    <3>2. u[(j - k) + m] = t[j] /\ v[(j - k) + m] = t[j]
      BY <1>1, <3>1 DEF Takes, n, m, k
    <3> QED
      BY <3>1, <3>2
  <2> QED
    BY <1>1, <2>1, <2>2, <2>3
<1>3. Len(u) = Len(v)
  BY <1>1
<1> QED
  BY <1>1, <1>2, <1>3, SeqEqual

(* What was taken back is brought again by taking the opposite change back. *)
LEMMA TakesAgain ==
  ASSUME NEW c, NEW t, NEW u, Takes(c, t, u)
  PROVE  Takes(Again(c, t), u, t)
<1> DEFINE s == c.start - 1
           k == c.added
           b == s + k
           m == Len(c.old)
           old == SubSeq(t, s + 1, b)
           d == Again(c, t)
<1>1. /\ t \in Seq(Lines) /\ s \in Nat /\ m \in Nat \ {0} /\ Len(t) \in Nat /\ Len(u) \in Nat /\ k \in Nat \ {0}
      /\ c.start = s + 1 /\ (s + 1) + k <= Len(t) + 1 /\ Len(u) + k = Len(t) + m
  BY LinesOf DEF Takes, Changes
<1>b. b \in Nat /\ s <= b /\ b <= Len(t) /\ b - s = k /\ (s + 1) + k = b + 1 /\ (s + 1) + k - 1 = b
  <2> HIDE DEF s, k
  <2> QED
    BY <1>1
<1>2. d = [start |-> s + 1, added |-> m, old |-> old]
  BY <1>1, <1>b DEF Again
<1> HIDE DEF s, k, b
<1>3. old \in Seq(Lines) /\ Len(old) = k /\ \A i \in 1..k : old[i] = t[s + i]
  <2>1. t \in Seq(Lines) /\ s \in Nat /\ b \in Nat /\ s <= b /\ b <= Len(t)
    BY <1>1, <1>b
  <2>2. old \in Seq(Lines) /\ Len(old) = b - s /\ \A i \in 1..b - s : old[i] = t[s + i]
    BY <2>1, PartOf
  <2> QED
    BY <2>2, <1>b
<1>4. old \in Texts
  <2> HIDE DEF old
  <2>1. old # <<>>
    BY <1>1, <1>3
  <2> QED
    BY <1>3, <2>1 DEF Texts
<1>5. d \in Changes
  BY <1>1, <1>2, <1>4 DEF Changes
<1>6. \A i \in (s + 1) + m..Len(u) : t[(i - m) + k] = u[i]
  <2> SUFFICES ASSUME NEW i \in (s + 1) + m..Len(u)
               PROVE  t[(i - m) + k] = u[i]
    OBVIOUS
  <2> HIDE DEF m, d, old
  <2> DEFINE j == (i - m) + k
  <2>1. j \in (s + 1) + k..Len(t) /\ (j - k) + m = i
    BY <1>1
  <2> HIDE DEF j
  <2>2. u[(j - k) + m] = t[j]
    BY <1>1, <2>1 DEF Takes, m, k
  <2> QED
    BY <2>1, <2>2 DEF j
<1>7. d.start = s + 1 /\ d.start - 1 = s /\ d.added = m /\ d.old = old /\ Len(d.old) = k
  BY <1>1, <1>2, <1>3
<1>8. \A i \in 1..s : t[i] = u[i]
  BY DEF Takes, s
<1> HIDE DEF d, old, m
<1>9. d.start + d.added <= Len(u) + 1 /\ Len(t) + d.added = Len(u) + Len(d.old)
  BY <1>1, <1>7
<1>10. /\ \A i \in 1..d.start - 1 : t[i] = u[i]
       /\ \A i \in 1..Len(d.old) : t[(d.start - 1) + i] = d.old[i]
       /\ \A i \in d.start + d.added..Len(u) : t[(i - d.added) + Len(d.old)] = u[i]
  BY <1>3, <1>6, <1>7, <1>8
<1>11. t \in Texts /\ u \in Texts
  BY DEF Takes
<1> QED
  BY <1>5, <1>9, <1>10, <1>11 DEF Takes, d

(* Lines a + 1 to b of t are exchanged: what takes t so to u.                *)
LEMMA Exchanges ==
  ASSUME NEW t \in Texts, NEW a \in Nat, NEW b \in Nat, a < b, b <= Len(t), NEW new \in Texts, NEW u,
         u = SubSeq(t, 1, a) \o new \o SubSeq(t, b + 1, Len(t))
  PROVE  Takes([start |-> a + 1, added |-> b - a, old |-> new], t, u)
<1> DEFINE c == [start |-> a + 1, added |-> b - a, old |-> new]
<1>1. t \in Seq(Lines) /\ new \in Seq(Lines) /\ Len(t) \in Nat /\ Len(new) \in Nat \ {0} /\ a <= b
  BY LinesOf
<1>2. Replaced(Lines, u, t, a, b, new)
  BY <1>1, Spliced
<1>3. /\ b - a \in Nat /\ c.start = a + 1 /\ c.added = b - a /\ c.old = new /\ c.start - 1 = a /\ c.start + c.added = b + 1
      /\ c \in Changes
  BY DEF Changes
<1>4. /\ u \in Texts /\ Len(u) = (a + Len(new)) + (Len(t) - b)
  <2>1. u \in Seq(Lines) /\ Len(u) = (a + Len(new)) + (Len(t) - b)
    BY <1>2 DEF Replaced
  <2>2. u # <<>>
    BY <1>1, <2>1
  <2> QED
    BY <2>1, <2>2 DEF Texts
<1>5. \A i \in b + 1..Len(t) : u[(i - (b - a)) + Len(new)] = t[i]
  <2> SUFFICES ASSUME NEW i \in b + 1..Len(t)
               PROVE  u[(i - (b - a)) + Len(new)] = t[i]
    OBVIOUS
  <2>1. i - b \in 1..Len(t) - b /\ (a + Len(new)) + (i - b) = (i - (b - a)) + Len(new) /\ b + (i - b) = i
    BY <1>1
  <2> QED
    BY <1>2, <2>1 DEF Replaced
<1>6. c.start + c.added <= Len(t) + 1 /\ Len(u) + c.added = Len(t) + Len(c.old)
  <2> DEFINE n == Len(t)
             m == Len(new)
  <2>1. n \in Nat /\ m \in Nat
    BY <1>1
  <2>2. Len(u) = (a + m) + (n - b) /\ Len(c.old) = m /\ c.start + c.added = b + 1 /\ c.added = b - a /\ b <= n
    BY <1>3, <1>4
  <2> HIDE DEF c, n, m
  <2>3. b + 1 <= n + 1 /\ ((a + m) + (n - b)) + (b - a) = n + m
    BY <2>1, <2>2
  <2> QED
    BY <2>2, <2>3 DEF n
<1> HIDE DEF c
<1>7. /\ \A i \in 1..c.start - 1 : u[i] = t[i]
      /\ \A i \in 1..Len(c.old) : u[(c.start - 1) + i] = c.old[i]
      /\ \A i \in c.start + c.added..Len(t) : u[(i - c.added) + Len(c.old)] = t[i]
  BY <1>2, <1>3, <1>5 DEF Replaced
<1>8. Takes(c, t, u)
  BY <1>3, <1>4, <1>6, <1>7 DEF Takes
<1> QED
  BY <1>8 DEF c

(* A new change that touches the last one is merged with it: taking the      *)
(* extended change back takes both back.                                     *)
LEMMA Merges ==
  ASSUME NEW last, NEW new, NEW t, NEW u, NEW v, Takes(last, u, v), Takes(new, t, u),
         ~Apart(last, new.start, new.old)
  PROVE  Takes(Extended(last, new.start, new.added, new.old), t, v)
<1> DEFINE s == last.start - 1
           k == last.added
           m == Len(last.old)
           b == new.start - 1
           n == new.added
           q == Len(new.old)
           x == Most(0, last.start - new.start)
           y == Most(0, (new.start + q) - (last.start + k))
           e == Extended(last, new.start, new.added, new.old)
           old == SubSeq(new.old, 1, x) \o last.old \o SubSeq(new.old, q - y + 1, q)
<1>1. /\ t \in Seq(Lines) /\ u \in Seq(Lines) /\ v \in Seq(Lines) /\ new.old \in Seq(Lines) /\ last.old \in Seq(Lines)
      /\ Len(t) \in Nat /\ Len(u) \in Nat /\ Len(v) \in Nat /\ s \in Nat /\ k \in Nat \ {0} /\ m \in Nat \ {0}
      /\ b \in Nat /\ n \in Nat \ {0} /\ q \in Nat \ {0} /\ last.start = s + 1 /\ new.start = b + 1
      /\ new.added = n /\ last.added = k
  <2>1. /\ t \in Texts /\ u \in Texts /\ v \in Texts /\ last \in Changes /\ new \in Changes
    BY DEF Takes
  <2>2. last.old \in Texts /\ new.old \in Texts
    BY <2>1 DEF Changes
  <2>3. /\ last.start \in Nat \ {0} /\ last.added \in Nat \ {0} /\ new.start \in Nat \ {0} /\ new.added \in Nat \ {0}
    BY <2>1 DEF Changes
  <2>4. /\ t \in Seq(Lines) /\ u \in Seq(Lines) /\ v \in Seq(Lines) /\ new.old \in Seq(Lines) /\ last.old \in Seq(Lines)
        /\ Len(t) \in Nat /\ Len(u) \in Nat /\ Len(v) \in Nat /\ m \in Nat \ {0} /\ q \in Nat \ {0}
    BY <2>1, <2>2, LinesOf
  <2> QED
    BY <2>3, <2>4
<1>2. /\ s + k <= Len(u) /\ Len(v) + k = Len(u) + m /\ b + n <= Len(t) /\ Len(u) + n = Len(t) + q
  <2>1. /\ last.start + k <= Len(u) + 1 /\ Len(v) + k = Len(u) + m
        /\ new.start + n <= Len(t) + 1 /\ Len(u) + n = Len(t) + q
    BY DEF Takes
  <2> HIDE DEF s, k, m, b, n, q
  <2> QED
    BY <1>1, <2>1
<1>3. s <= b + q /\ b <= s + k
  <2>1. ~(last.start > new.start + q) /\ ~(last.start + k < new.start)
    BY DEF Apart
  <2> HIDE DEF s, k, m, b, n, q
  <2> QED
    BY <1>1, <2>1
<1>4. /\ x = (IF s > b THEN s - b ELSE 0) /\ y = (IF b + q > s + k THEN (b + q) - (s + k) ELSE 0)
  <2> HIDE DEF s, k, m, b, n, q
  <2> QED
    BY <1>1 DEF Most
<1>5. /\ e.start = (IF s > b THEN b ELSE s) + 1 /\ e.added = (k + n) - ((q - x) - y) /\ e.old = old
  <2>1. e.start = (IF x > 0 THEN new.start ELSE last.start)
    BY DEF Extended
  <2>2. e.added = k + n - (q - x - y)
    BY DEF Extended
  <2>3. e.old = old
    BY DEF Extended
  <2> HIDE DEF s, k, m, b, n, q, x, y, e, old
  <2>4. x > 0 <=> s > b
    <3>1. s \in Nat /\ b \in Nat
      BY <1>1
    <3> QED
      BY <1>4, <3>1
  <2>5. e.start = (IF s > b THEN b ELSE s) + 1
    <3>1. last.start = s + 1 /\ new.start = b + 1
      BY <1>1
    <3> QED
      BY <2>1, <2>4, <3>1
  <2>6. x \in Int /\ y \in Int
    <3>1. s \in Nat /\ b \in Nat /\ q \in Nat /\ k \in Nat
      BY <1>1
    <3> QED
      BY <1>4, <3>1
  <2>7. k + n - (q - x - y) = (k + n) - ((q - x) - y)
    <3>1. q \in Nat /\ k \in Nat /\ n \in Nat
      BY <1>1
    <3> QED
      BY <2>6, <3>1
  <2> QED
    BY <2>2, <2>3, <2>5, <2>7
<1>c. e = [start |-> e.start, added |-> e.added, old |-> e.old]
  BY DEF Extended
<1>6. x \in Nat /\ y \in Nat /\ x + y <= q
  <2> HIDE DEF s, k, m, b, n, q, x, y, e, old
  <2> QED
    BY <1>1, <1>3, <1>4
<1>7. /\ old \in Seq(Lines) /\ Len(old) = (x + m) + y
      /\ \A i \in 1..x : old[i] = new.old[i]
      /\ \A i \in 1..m : old[x + i] = last.old[i]
      /\ \A i \in 1..y : old[(x + m) + i] = new.old[(q - y) + i]
  <2> DEFINE o == new.old
             z == last.old
             f == q - y
  <2>1. /\ o \in Seq(Lines) /\ z \in Seq(Lines) /\ f \in Nat /\ x <= f /\ f <= Len(o) /\ Len(o) - f = y
        /\ m = Len(z) /\ q = Len(o)
    <3>1. o \in Seq(Lines) /\ z \in Seq(Lines) /\ q \in Nat /\ m = Len(z) /\ q = Len(o)
      BY <1>1
    <3> HIDE DEF x, y, m, q, o, z
    <3> QED
      BY <1>6, <3>1
  <2>2. old = SubSeq(o, 1, x) \o z \o SubSeq(o, f + 1, Len(o))
    OBVIOUS
  <2> HIDE DEF x, y, m, q, o, z, f, old
  <2>3. Replaced(Lines, old, o, x, f, z)
    BY <1>6, <2>1, <2>2, Spliced
  <2>4. /\ old \in Seq(Lines) /\ Len(old) = (x + m) + y
        /\ \A i \in 1..x : old[i] = o[i]
        /\ \A i \in 1..m : old[x + i] = z[i]
        /\ \A i \in 1..y : old[(x + m) + i] = o[f + i]
    BY <2>1, <2>3 DEF Replaced
  <2> QED
    BY <2>4 DEF o, z, f
(* Where the lines of v stood in u, and those of u in t. *)
<1>8. /\ \A i \in 1..s : v[i] = u[i]
      /\ \A i \in 1..m : v[s + i] = last.old[i]
      /\ \A i \in (s + 1) + k..Len(u) : v[(i - k) + m] = u[i]
  <2> HIDE DEF s, k, m
  <2> QED
    BY <1>1 DEF Takes, s, k, m
<1>9. /\ \A i \in 1..b : u[i] = t[i]
      /\ \A i \in 1..q : u[b + i] = new.old[i]
      /\ \A i \in (b + 1) + n..Len(t) : u[(i - n) + q] = t[i]
  <2> HIDE DEF b, n, q
  <2> QED
    BY <1>1 DEF Takes, b, n, q
<1> DEFINE a == IF s > b THEN b ELSE s
           w == (k + n) - ((q - x) - y)
<1> HIDE DEF s, k, m, b, n, q, x, y, e, old
<1>10. /\ a \in Nat /\ a <= s /\ a <= b /\ a + x = s /\ w \in Nat \ {0} /\ a + w <= Len(t)
       /\ Len(v) + w = Len(t) + ((x + m) + y)
  <2> DEFINE lt == Len(t)
             lu == Len(u)
             lv == Len(v)
  <2>1. lt \in Nat /\ lu \in Nat /\ lv \in Nat /\ s + k <= lu /\ lv + k = lu + m /\ b + n <= lt /\ lu + n = lt + q
    BY <1>1, <1>2
  <2>2. s \in Nat /\ b \in Nat /\ k \in Nat \ {0} /\ n \in Nat \ {0} /\ m \in Nat \ {0} /\ q \in Nat \ {0}
    BY <1>1
  <2> HIDE DEF lt, lu, lv
  <2>3. a \in Nat /\ a <= s /\ a <= b /\ a + x = s
    BY <1>4, <2>2
  <2>4. w \in Nat \ {0} /\ a + w <= lt /\ lv + w = lt + ((x + m) + y)
    <3>1. CASE s > b /\ b + q > s + k
      <4>1. a = b /\ x = s - b /\ y = (b + q) - (s + k)
        BY <1>4, <3>1
      <4> HIDE DEF a
      <4> QED
        BY <2>1, <2>2, <3>1, <4>1
    <3>2. CASE s > b /\ ~(b + q > s + k)
      <4>1. a = b /\ x = s - b /\ y = 0
        BY <1>4, <3>2
      <4> HIDE DEF a
      <4> QED
        BY <1>3, <2>1, <2>2, <3>2, <4>1
    <3>3. CASE ~(s > b) /\ b + q > s + k
      <4>1. a = s /\ x = 0 /\ y = (b + q) - (s + k)
        BY <1>4, <3>3
      <4> HIDE DEF a
      <4> QED
        BY <1>3, <2>1, <2>2, <3>3, <4>1
    <3>4. CASE ~(s > b) /\ ~(b + q > s + k)
      <4>1. a = s /\ x = 0 /\ y = 0
        BY <1>4, <3>4
      <4> HIDE DEF a
      <4> QED
        BY <1>3, <2>1, <2>2, <3>4, <4>1
    <3> QED
      BY <3>1, <3>2, <3>3, <3>4
  <2> QED
    BY <2>3, <2>4 DEF lt, lu, lv
<1>11. \A i \in 1..a : v[i] = t[i]
  <2>1. \A i \in 1..a : i \in 1..s /\ i \in 1..b
    BY <1>1, <1>10
  <2> HIDE DEF a
  <2> QED
    BY <1>8, <1>9, <2>1
<1>12. \A i \in 1..(x + m) + y : v[a + i] = old[i]
  <2> SUFFICES ASSUME NEW i \in 1..(x + m) + y
               PROVE  v[a + i] = old[i]
    OBVIOUS
  <2>1. CASE i <= x
    <3>1. i \in 1..x /\ a = b /\ a + i \in 1..s /\ i \in 1..q
      BY <1>1, <1>4, <1>6, <2>1
    <3> HIDE DEF a
    <3> QED
      BY <1>7, <1>8, <1>9, <3>1
  <2>2. CASE x < i /\ i <= x + m
    <3>1. i - x \in 1..m /\ s + (i - x) = a + i /\ x + (i - x) = i
      BY <1>1, <1>6, <1>10, <2>2
    <3> HIDE DEF a
    <3> QED
      BY <1>7, <1>8, <3>1
  <2>3. CASE x + m < i
    <3> DEFINE j == i - (x + m)
               h == (s + k) + j
    <3>1. /\ j \in 1..y /\ (x + m) + j = i /\ y > 0 /\ y = (b + q) - (s + k)
      BY <1>1, <1>4, <1>6, <2>3
    <3>2. /\ h \in (s + 1) + k..Len(u) /\ (h - k) + m = a + i
      <4> DEFINE lu == Len(u)
      <4>1. b + q <= lu /\ lu \in Nat
        BY <1>1, <1>2
      <4>2. a + x = s /\ a \in Nat
        BY <1>10
      <4> HIDE DEF a, lu
      <4>3. j \in Nat \ {0} /\ j <= y
        BY <1>6, <3>1
      <4>4. i = (x + m) + j /\ x \in Nat /\ m \in Nat /\ k \in Nat
        BY <1>1, <1>6, <3>1
      <4> HIDE DEF j
      <4>5. h \in (s + 1) + k..lu
        BY <1>1, <1>6, <3>1, <4>1, <4>3
      <4>6. (h - k) + m = a + i
        BY <1>1, <4>2, <4>3, <4>4
      <4> QED
        BY <4>5, <4>6 DEF lu
    <3>3. (q - y) + j \in 1..q /\ b + ((q - y) + j) = h
      BY <1>1, <1>3, <1>6, <3>1
    <3> HIDE DEF a, j, h
    <3>4. v[a + i] = u[h]
      BY <1>8, <3>2
    <3>5. u[h] = new.old[(q - y) + j]
      BY <1>9, <3>3
    <3> QED
      BY <1>7, <3>1, <3>4, <3>5
  <2> QED
    BY <1>1, <1>6, <2>1, <2>2, <2>3
<1>13. \A i \in (a + 1) + w..Len(t) : v[(i - w) + ((x + m) + y)] = t[i]
  <2> SUFFICES ASSUME NEW i \in (a + 1) + w..Len(t)
               PROVE  v[(i - w) + ((x + m) + y)] = t[i]
    OBVIOUS
  <2> DEFINE j == (i - n) + q
  <2>1. /\ i \in (b + 1) + n..Len(t) /\ j \in (s + 1) + k..Len(u) /\ (j - k) + m = (i - w) + ((x + m) + y)
    BY <1>1, <1>2, <1>3, <1>4, <1>6
  <2> HIDE DEF j, w, a
  <2>2. u[j] = t[i]
    BY <1>9, <2>1 DEF j
  <2> QED
    BY <1>8, <2>1, <2>2
<1> HIDE DEF a, w
<1>14. e.start = a + 1 /\ e.added = w /\ e.old = old
  BY <1>5 DEF a, w
<1>15. old \in Texts
  <2>1. old # <<>>
    BY <1>1, <1>6, <1>7
  <2> QED
    BY <1>7, <2>1 DEF Texts
<1>16. e \in Changes
  <2>1. e.start \in Nat \ {0} /\ e.added \in Nat \ {0}
    BY <1>10, <1>14
  <2> QED
    BY <1>c, <1>14, <1>15, <2>1 DEF Changes
<1>17. t \in Texts /\ v \in Texts
  BY DEF Takes
<1>18. /\ e.start + e.added <= Len(t) + 1 /\ Len(v) + e.added = Len(t) + Len(e.old) /\ e.start - 1 = a
       /\ Len(e.old) = (x + m) + y /\ e.start + e.added = (a + 1) + w
  <2>1. e.start = a + 1 /\ e.added = w /\ Len(e.old) = (x + m) + y
    BY <1>7, <1>14
  <2> HIDE DEF e, old
  <2>2. e.start - 1 = a /\ e.start + e.added = (a + 1) + w /\ e.start + e.added <= Len(t) + 1
    BY <1>1, <1>10, <2>1
  <2>3. Len(v) + e.added = Len(t) + Len(e.old)
    BY <1>10, <2>1
  <2> QED
    BY <2>1, <2>2, <2>3
<1>19. /\ \A i \in 1..e.start - 1 : v[i] = t[i]
       /\ \A i \in 1..Len(e.old) : v[(e.start - 1) + i] = e.old[i]
       /\ \A i \in e.start + e.added..Len(t) : v[(i - e.added) + Len(e.old)] = t[i]
  BY <1>11, <1>12, <1>13, <1>14, <1>18
<1> QED
  BY <1>16, <1>17, <1>18, <1>19 DEF Takes, e

-----------------------------------------------------------------------------
(* Edits. *)
LEMMA PositionFits ==
  ASSUME NEW t \in Texts, NEW p \in Position(t)
  PROVE  /\ p.line \in 1..Len(t) /\ p.line \in Nat /\ p.ch \in Nat /\ p.ch <= Len(t[p.line])
         /\ t[p.line] \in Seq(Letters)
<1>1. PICK l \in 1..Len(t) : p \in {[line |-> l, ch |-> c] : c \in 0..Len(t[l])}
  BY DEF Position
<1>2. t[l] \in Seq(Letters) /\ l \in Nat
  BY LinesOf DEF Lines
<1>3. Len(t[l]) \in Nat
  BY <1>2
<1> QED
  BY <1>1, <1>2, <1>3

LEMMA JoinedFits ==
  ASSUME NEW t \in Texts, NEW from \in Position(t), NEW to \in Position(t), NEW code \in Texts
  PROVE  Joined(t, from, to, code) \in Texts /\ Len(Joined(t, from, to, code)) = Len(code)
<1> DEFINE head == SubSeq(t[from.line], 1, from.ch)
           tail == SubSeq(t[to.line], to.ch + 1, Len(t[to.line]))
           first == head \o Head(code)
           open == <<first>> \o Tail(code)
           last == Last(open) \o tail
           joined == Front(open) \o <<last>>
<1>1. head \in Lines
  <2>1. t[from.line] \in Seq(Letters) /\ from.ch \in Nat /\ from.ch <= Len(t[from.line])
    BY PositionFits
  <2>2. \A i \in 1..from.ch : t[from.line][i] \in Letters
    BY <2>1
  <2> QED
    BY <2>1, <2>2, SubSeqProperties DEF Lines
<1>2. tail \in Lines
  <2> DEFINE q == t[to.line]
             m == to.ch + 1
             n == Len(q)
  <2>1. q \in Seq(Letters) /\ m \in Nat \ {0} /\ n \in Nat
    BY PositionFits
  <2>2. \A i \in m..n : q[i] \in Letters
    BY <2>1
  <2> HIDE DEF q, m, n
  <2>3. SubSeq(q, m, n) \in Seq(Letters)
    BY <2>1, <2>2, SubSeqProperties
  <2> QED
    BY <2>3 DEF q, m, n, Lines
<1>3. /\ code \in Seq(Lines) /\ Len(code) \in Nat \ {0} /\ Head(code) \in Lines /\ Tail(code) \in Seq(Lines)
      /\ Len(Tail(code)) = Len(code) - 1
  BY LinesOf, HeadTailProperties DEF Texts
<1> HIDE DEF head, tail
<1>4. first \in Lines
  BY <1>1, <1>3, ConcatProperties DEF Lines
<1> HIDE DEF first
<1>5. open \in Seq(Lines) /\ Len(open) = Len(code)
  <2>1. <<first>> \in Seq(Lines) /\ Len(<<first>>) = 1
    BY <1>4
  <2> DEFINE s == <<first>>
             r == Tail(code)
  <2> HIDE DEF s, r
  <2>2. s \o r \in Seq(Lines) /\ Len(s \o r) = Len(s) + Len(r)
    BY <1>3, <2>1, ConcatProperties DEF s, r
  <2> QED
    BY <1>3, <2>1, <2>2 DEF s, r
<1> HIDE DEF open
<1>6. open # <<>>
  BY <1>3, <1>5, EmptySeq
<1>7. Front(open) \in Seq(Lines) /\ Len(Front(open)) = Len(code) - 1 /\ Last(open) \in Lines
  BY <1>5, <1>6, Ends
<1>8. last \in Lines
  BY <1>2, <1>7, ConcatProperties DEF Lines
<1> HIDE DEF last
<1>9. joined \in Seq(Lines) /\ Len(joined) = Len(code)
  <2>1. <<last>> \in Seq(Lines) /\ Len(<<last>>) = 1
    BY <1>8
  <2> DEFINE s == Front(open)
             r == <<last>>
  <2> HIDE DEF s, r
  <2>2. s \o r \in Seq(Lines) /\ Len(s \o r) = Len(s) + Len(r)
    BY <1>7, <2>1, ConcatProperties DEF s, r
  <2>3. joined = s \o r
    BY DEF s, r
  <2>4. Len(s) = Len(code) - 1 /\ Len(r) = 1
    BY <1>7, <2>1 DEF s, r
  <2>5. (Len(code) - 1) + 1 = Len(code)
    BY <1>3
  <2>6. Len(s \o r) = Len(code)
    BY <2>2, <2>4, <2>5
  <2> HIDE DEF joined
  <2> QED
    BY <2>2, <2>3, <2>6
<1>10. Joined(t, from, to, code) = joined
  BY DEF Joined, joined, last, open, first, head, tail
<1> HIDE DEF joined
<1>11. joined # <<>>
  BY <1>3, <1>9, EmptySeq
<1> QED
  BY <1>9, <1>10, <1>11 DEF Texts

(* Replacing a range is taken back by a change that has its old lines. *)
LEMMA EditTakes ==
  ASSUME NEW t \in Texts, NEW from \in Position(t), NEW to \in Position(t), NotAfter(from, to), NEW code \in Texts
  PROVE  Takes([start |-> from.line, added |-> Len(code), old |-> SubSeq(t, from.line, to.line)],
               UpdateLinesNoUndo(t, from, to, code), t)
<1> DEFINE a == from.line - 1
           b == to.line
           new == Joined(t, from, to, code)
           s == UpdateLinesNoUndo(t, from, to, code)
           c == [start |-> a + 1, added |-> b - a, old |-> new]
<1>1. /\ a \in Nat /\ b \in Nat /\ a < b /\ b <= Len(t) /\ a + 1 = from.line /\ (a + 1) + (b - a) - 1 = b
  BY PositionFits, LinesOf DEF NotAfter
<1>2. new \in Texts /\ Len(new) = Len(code)
  BY JoinedFits
<1>3. s = SubSeq(t, 1, a) \o new \o SubSeq(t, b + 1, Len(t))
  BY DEF UpdateLinesNoUndo
<1> HIDE DEF a, b, new, s
<1>4. Takes(c, t, s)
  BY <1>1, <1>2, <1>3, Exchanges
<1>5. Again(c, t) = [start |-> from.line, added |-> Len(code), old |-> SubSeq(t, from.line, b)]
  BY <1>1, <1>2 DEF Again
<1> HIDE DEF c
<1>6. Takes(Again(c, t), s, t)
  BY <1>4, TakesAgain
<1> QED
  BY <1>5, <1>6 DEF s, b

(* One step of unredoHelper on whole lines. *)
LEMMA TakeBackDoes ==
  ASSUME NEW t, NEW o, NEW c, NEW u, Takes(c, t, u)
  PROVE  TakeBack(Taken(t, o, FALSE, FALSE), c) = Taken(u, Append(o, Again(c, t)), FALSE, FALSE)
<1> DEFINE acc == Taken(t, o, FALSE, FALSE)
           a == c.start - 1
           b == c.start + c.added - 1
           from == [line |-> c.start, ch |-> 0]
           to == [line |-> b, ch |-> Len(t[b])]
           s == UpdateLinesNoUndo(t, from, to, c.old)
<1>1. /\ t \in Texts /\ c \in Changes /\ c.old \in Texts /\ c.start \in Nat \ {0} /\ c.added \in Nat \ {0}
      /\ c.start + c.added <= Len(t) + 1 /\ Len(t) \in Nat
  BY LinesOf DEF Takes, Changes
<1>2. a \in Nat /\ b \in 1..Len(t) /\ a < b /\ a + 1 = c.start /\ b - a = c.added /\ b <= Len(t) /\ c.start \in 1..b
  BY <1>1
<1> HIDE DEF acc
<1>3. t[b] \in Seq(Letters) /\ t[c.start] \in Seq(Letters)
  <2>1. c.start \in 1..Len(t)
    BY <1>1, <1>2
  <2>2. \A i \in 1..Len(t) : t[i] \in Seq(Letters)
    BY <1>1, LinesOf DEF Lines
  <2> HIDE DEF b
  <2> QED
    BY <1>2, <2>1, <2>2
<1>4. Joined(t, from, to, c.old) = c.old
  <2> DEFINE code == c.old
  <2>1. SubSeq(t[c.start], 1, 0) = <<>>
    BY SubSeqEmpty
  <2>2. SubSeq(t[b], Len(t[b]) + 1, Len(t[b])) = <<>>
    BY <1>3, SubSeqEmpty
  <2>3. code \in Seq(Lines) /\ code # <<>> /\ Len(code) \in Nat \ {0} /\ Head(code) \in Seq(Letters)
    BY <1>1, LinesOf, HeadTailProperties DEF Texts, Lines
  <2>4. <<>> \o Head(code) = Head(code)
    BY <2>3, ConcatEmptySeq
  <2>5. <<Head(code)>> \o Tail(code) = code
    BY <2>3
  <2>6. Last(code) \in Seq(Letters)
    BY <2>3, Ends DEF Lines
  <2>7. Last(code) \o <<>> = Last(code)
    BY <2>6, ConcatEmptySeq
  <2>8. Front(code) \o <<Last(code)>> = code
    <3> DEFINE f == Front(code)
               l == Last(code)
    <3>1. f \in Seq(Lines) /\ Len(f) = Len(code) - 1 /\ l \in Lines /\ l = code[Len(code)] /\ \A i \in 1..Len(code) - 1 : f[i] = code[i]
      BY <2>3, Ends
    <3> HIDE DEF f, l, code
    <3>2. f \o <<l>> \in Seq(Lines) /\ Len(f \o <<l>>) = Len(code)
      BY <2>3, <3>1
    <3>3. \A i \in 1..Len(code) : (f \o <<l>>)[i] = code[i]
      BY <2>3, <3>1
    <3> QED
      BY <2>3, <3>2, <3>3, SeqEqual DEF f, l
  <2>9. from.line = c.start /\ from.ch = 0 /\ to.line = b /\ to.ch = Len(t[b])
    OBVIOUS
  <2> HIDE DEF from, to, b, code
  <2> QED
    BY <2>1, <2>2, <2>4, <2>5, <2>7, <2>8, <2>9 DEF Joined, code
<1>5. s = SubSeq(t, 1, a) \o c.old \o SubSeq(t, b + 1, Len(t))
  BY <1>4 DEF UpdateLinesNoUndo
<1>6. [start |-> a + 1, added |-> b - a, old |-> c.old] = c
  BY <1>1, <1>2 DEF Changes
<1> HIDE DEF a, b, s
<1>7. Takes([start |-> a + 1, added |-> b - a, old |-> c.old], t, s)
  <2> DEFINE new == c.old
  <2>1. new \in Texts
    BY <1>1
  <2>2. s = SubSeq(t, 1, a) \o new \o SubSeq(t, b + 1, Len(t))
    BY <1>5
  <2>3. b \in Nat
    BY <1>1, <1>2
  <2> HIDE DEF new
  <2>4. Takes([start |-> a + 1, added |-> b - a, old |-> new], t, s)
    BY <1>1, <1>2, <2>1, <2>2, <2>3, Exchanges
  <2> QED
    BY <2>4 DEF new
<1>8. s = u
  BY <1>6, <1>7, TakesOne
<1>9. ~(b > Len(t))
  BY <1>1, <1>2
<1>10. acc.text = t /\ acc.out = o /\ acc.suppressed = FALSE /\ acc.threw = FALSE
  BY DEF acc, Taken
<1> DEFINE d == [start |-> c.start, added |-> Len(c.old), old |-> SubSeq(t, c.start, b)]
<1>11. TakeBack(acc, c) = Taken(s, Append(o, d), FALSE, FALSE)
  BY <1>9, <1>10 DEF TakeBack, s, b
<1>12. d = Again(c, t)
  BY DEF Again, b
<1> QED
  BY <1>8, <1>11, <1>12 DEF acc

-----------------------------------------------------------------------------
(* The groups. *)

(* The function of unredoHelper is there: the least number of changes for    *)
(* which it would not be cannot be 0, nor follow one for which it is.        *)
LEMMA HelperEnds ==
  ASSUME NEW g, Len(g) \in Nat, NEW suppressed
  PROVE  \E q : q = [n \in 0..Len(g) |-> IF n = 0 THEN NothingTaken(suppressed)
                                         ELSE TakeBack(q[n - 1], g[Len(g) + 1 - n])]
<1> DEFINE Step(q, n) == IF n = 0 THEN NothingTaken(suppressed) ELSE TakeBack(q[n - 1], g[Len(g) + 1 - n])
           Exists(m) == \E q : q = [n \in 0..m |-> Step(q, n)]
           Bad == {m \in Nat : ~Exists(m)}
<1>1. SUFFICES ASSUME Bad # {} PROVE FALSE
  OBVIOUS
<1>3. PICK m \in Bad : \A k \in Bad : m <= k
  <2>1. Bad \subseteq Nat
    OBVIOUS
  <2> HIDE DEF Bad
  <2> QED
    BY <1>1, <2>1, LeastNumber
<1>4. m # 0
  <2> DEFINE none == NothingTaken(suppressed)
  <2> HIDE DEF none
  <2>1. [n \in 0..0 |-> none] = [n \in 0..0 |-> Step([i \in 0..0 |-> none], n)]
    BY DEF none
  <2>2. Exists(0)
    BY <2>1
  <2> QED
    BY <2>2
<1>5. m - 1 \in Nat /\ Exists(m - 1)
  <2> HIDE DEF Exists
  <2>1. m \in Nat /\ m - 1 \in Nat /\ ~(m <= m - 1)
    BY <1>4
  <2> QED
    BY <1>3, <2>1
<1>6. PICK q : q = [n \in 0..m - 1 |-> Step(q, n)]
  BY <1>5
<1>7. DEFINE r == [n \in 0..m |-> Step(q, n)]
<1>8. ASSUME NEW n \in 0..m
      PROVE  Step(r, n) = Step(q, n)
  <2>1. CASE n = 0
    BY <2>1
  <2>2. CASE n # 0
    <3>1. n - 1 \in 0..m /\ n - 1 \in 0..m - 1
      BY <1>5, <2>2
    <3>2. r[n - 1] = q[n - 1]
      <4> HIDE DEF Step
      <4> QED
        BY <1>6, <3>1
    <3> HIDE DEF r
    <3> QED
      BY <2>2, <3>2
  <2> QED
    BY <2>1, <2>2
<1>9. r = [n \in 0..m |-> Step(r, n)]
  <2> HIDE DEF Step
  <2> QED
    BY <1>8
<1> QED
  BY <1>9

(* The function, change by change. *)
LEMMA HelperSteps ==
  ASSUME NEW g, Len(g) \in Nat, NEW suppressed
  PROVE  \E q : /\ q[0] = NothingTaken(suppressed) /\ UnredoHelper(g, suppressed) = q[Len(g)]
                /\ \A n \in 1..Len(g) : q[n] = TakeBack(q[n - 1], g[Len(g) + 1 - n])
<1> DEFINE q[n \in 0..Len(g)] == IF n = 0 THEN NothingTaken(suppressed)
                                 ELSE TakeBack(q[n - 1], g[Len(g) + 1 - n])
<1>0. \E r : r = [n \in 0..Len(g) |-> IF n = 0 THEN NothingTaken(suppressed)
                                     ELSE TakeBack(r[n - 1], g[Len(g) + 1 - n])]
  BY HelperEnds
<1>1. q = [n \in 0..Len(g) |-> IF n = 0 THEN NothingTaken(suppressed)
                               ELSE TakeBack(q[n - 1], g[Len(g) + 1 - n])]
  BY <1>0
<1>2. UnredoHelper(g, suppressed) = q[Len(g)]
  BY DEF UnredoHelper
<1> HIDE DEF q
<1>3. q[0] = NothingTaken(suppressed) /\ \A n \in 1..Len(g) : q[n] = TakeBack(q[n - 1], g[Len(g) + 1 - n])
  <2>1. 0 \in 0..Len(g) /\ \A n \in 1..Len(g) : n \in 0..Len(g) /\ n # 0
    OBVIOUS
  <2> QED
    BY <1>1, <2>1
<1> QED
  BY <1>2, <1>3


(* A change of a group that is moved while edits are suppressed. *)
LEMMA TakeBackKeeps ==
  ASSUME NEW c \in Changes, NEW t \in Texts, NEW o \in Seq(Changes), NEW h \in BOOLEAN
  PROVE  \E x \in Seq(Changes), z \in BOOLEAN :
           /\ TakeBack(Taken(t, o, TRUE, h), c) = Taken(t, x, TRUE, z)
           /\ ~z => ~h /\ Len(x) = Len(o) + 1
<1> DEFINE acc == Taken(t, o, TRUE, h)
           end == c.start + c.added - 1
           d == [start |-> c.start, added |-> Len(c.old), old |-> SubSeq(t, c.start, end)]
<1>2. acc.text = t /\ acc.out = o /\ acc.suppressed = TRUE /\ acc.threw = h
  BY DEF Taken
<1> HIDE DEF acc
<1>3. CASE h \/ end > Len(t)
  <2>1. TakeBack(acc, c) = Taken(t, o, TRUE, TRUE)
    BY <1>2, <1>3 DEF TakeBack
  <2> QED
    BY <2>1 DEF acc
<1>4. CASE ~(h \/ end > Len(t))
  <2>1. d \in Changes
    <3>1. /\ t \in Seq(Lines) /\ Len(t) \in Nat /\ c.start \in Nat \ {0} /\ c.added \in Nat \ {0} /\ c.old \in Texts
      BY LinesOf DEF Changes
    <3> DEFINE a == c.start - 1
               b == end
    <3>2. a \in Nat /\ b \in Nat /\ a <= b /\ b <= Len(t) /\ a + 1 = c.start /\ b - a > 0
      <4> DEFINE i == c.start
                 k == c.added
                 n == Len(t)
      <4>1. i \in Nat \ {0} /\ k \in Nat \ {0} /\ n \in Nat /\ i + k - 1 <= n
        BY <1>4, <3>1
      <4> HIDE DEF i, k, n
      <4>2. i - 1 \in Nat /\ i + k - 1 \in Nat /\ i - 1 <= i + k - 1 /\ i - 1 + 1 = i /\ (i + k - 1) - (i - 1) > 0
        BY <4>1
      <4> QED
        BY <4>1, <4>2 DEF i, k, n
    <3>3. Len(c.old) \in Nat \ {0}
      BY <3>1, LinesOf
    <3> HIDE DEF a, b
    <3>4. SubSeq(t, a + 1, b) \in Seq(Lines) /\ Len(SubSeq(t, a + 1, b)) = b - a
      BY <3>1, <3>2, PartOf
    <3>5. SubSeq(t, a + 1, b) \in Texts
      <4> DEFINE y == SubSeq(t, a + 1, b)
      <4> HIDE DEF y
      <4>1. y # <<>>
        BY <3>2, <3>4 DEF y
      <4> QED
        BY <3>4, <4>1 DEF Texts, y
    <3> QED
      BY <3>1, <3>2, <3>3, <3>5 DEF Changes, b
  <2> DEFINE x == Append(o, d)
  <2>2. TakeBack(acc, c) = Taken(t, x, TRUE, FALSE)
    BY <1>2, <1>4 DEF TakeBack
  <2>3. x \in Seq(Changes) /\ Len(x) = Len(o) + 1
    <3> HIDE DEF d
    <3> QED
      BY <2>1
  <2> HIDE DEF x
  <2> QED
    BY <1>4, <2>2, <2>3 DEF acc
<1> QED
  BY <1>3, <1>4


(* unredoHelper takes a group back, and what it returns brings it again. *)
LEMMA HelperUndoes ==
  ASSUME NEW g, NEW u, Undoes(g, text, u)
  PROVE  \E o : UnredoHelper(g, FALSE) = Taken(u, o, FALSE, FALSE) /\ Undoes(o, u, text)
<1> DEFINE L == Len(g)
<1>1. g \in Seq(Changes) /\ L \in Nat \ {0} /\ DOMAIN g = 1..L
  BY EmptySeq DEF Undoes, Groups
<1>2. PICK p : Leads(g, text, u, p)
  BY DEF Undoes
<1>3. PICK q : /\ q[0] = NothingTaken(FALSE) /\ UnredoHelper(g, FALSE) = q[L]
               /\ \A n \in 1..L : q[n] = TakeBack(q[n - 1], g[L + 1 - n])
  <2>1. L \in Nat
    BY <1>1
  <2>2. \E q : /\ q[0] = NothingTaken(FALSE) /\ UnredoHelper(g, FALSE) = q[Len(g)]
               /\ \A n \in 1..Len(g) : q[n] = TakeBack(q[n - 1], g[Len(g) + 1 - n])
    BY <2>1, HelperSteps
  <2> QED
    BY <2>2
<1>4. /\ p \in [0..L -> Texts] /\ p[L] = text /\ p[0] = u
      /\ \A i \in 1..L : Takes(g[i], p[i], p[i - 1])
  BY <1>2 DEF Leads
<1> HIDE DEF L
<1> DEFINE Back(o, n) == Len(o) = n /\ \A i \in 1..n : Takes(o[i], p[L - i], p[(L - i) + 1])
           Good(n) == \E o \in Seq(Changes) : q[n] = Taken(p[L - n], o, FALSE, FALSE) /\ Back(o, n)
           Bad == {n \in 0..L : ~Good(n)}
<1>5. Good(0)
  <2>1. q[0] = Taken(p[L - 0], <<>>, FALSE, FALSE)
    <3>1. L - 0 = L
      BY <1>1
    <3> QED
      BY <1>3, <1>4, <3>1 DEF NothingTaken
  <2>2. <<>> \in Seq(Changes) /\ Back(<<>>, 0)
    OBVIOUS
  <2> HIDE DEF Back
  <2> QED
    BY <2>1, <2>2
<1>6. ASSUME NEW n \in 1..L, Good(n - 1)
      PROVE  Good(n)
  <2> DEFINE j == L + 1 - n
             t == p[L - (n - 1)]
             v == p[L - n]
  <2>1. PICK o \in Seq(Changes) : q[n - 1] = Taken(t, o, FALSE, FALSE) /\ Back(o, n - 1)
    BY <1>6
  <2>2. j \in 1..L /\ j = L - (n - 1) /\ j - 1 = L - n /\ n - 1 \in Nat /\ (L - n) + 1 = j /\ n - 1 + 1 = n
    BY <1>1
  <2>3. Takes(g[j], t, v)
    BY <1>4, <2>2
  <2> DEFINE c == g[j]
             d == Again(c, t)
             x == Append(o, d)
  <2>4. TakeBack(Taken(t, o, FALSE, FALSE), c) = Taken(v, x, FALSE, FALSE)
    <3> HIDE DEF t, v, c, j
    <3> QED
      BY <2>3, TakeBackDoes DEF c
  <2>5. q[n] = Taken(v, x, FALSE, FALSE)
    BY <1>3, <2>1, <2>4
  <2>6. Takes(d, v, t)
    <3> HIDE DEF t, v, j
    <3> QED
      BY <2>3, TakesAgain
  <2>7. d \in Changes /\ t = p[(L - n) + 1]
    BY <2>2, <2>6 DEF Takes
  <2> HIDE DEF d
  <2>8. x \in Seq(Changes) /\ Len(x) = n /\ x[n] = d /\ \A i \in 1..n - 1 : x[i] = o[i]
    <3>1. Len(o) = n - 1
      BY <2>1
    <3> HIDE DEF Back, Good
    <3> QED
      BY <2>2, <2>7, <3>1
  <2> HIDE DEF x
  <2>9. ASSUME NEW i \in 1..n
        PROVE  Takes(x[i], p[L - i], p[(L - i) + 1])
    <3>1. CASE i = n
      BY <2>6, <2>7, <2>8, <3>1
    <3>2. CASE i # n
      <4>1. i \in 1..n - 1
        BY <2>2, <3>2
      <4> QED
        BY <2>1, <2>8, <4>1
    <3> QED
      BY <3>1, <3>2
  <2>10. Back(x, n)
    BY <2>8, <2>9
  <2> HIDE DEF Back, v
  <2>11. q[n] = Taken(p[L - n], x, FALSE, FALSE)
    BY <2>5 DEF v
  <2> QED
    BY <2>8, <2>10, <2>11
<1>7. Bad = {}
  <2>1. 0 \notin Bad
    BY <1>5
  <2>2. \A n \in 1..L : n \in Bad => n - 1 \in Bad
    <3> SUFFICES ASSUME NEW n \in 1..L, n - 1 \notin Bad PROVE n \notin Bad
      OBVIOUS
    <3>1. n - 1 \in 0..L
      BY <1>1
    <3>2. Good(n - 1)
      BY <3>1
    <3> QED
      BY <1>6, <3>2
  <2>3. 0 \in Nat /\ L \in Int /\ Bad \subseteq 0..L /\ 0 + 1..L = 1..L
    <3>1. Bad \subseteq 0..L
      OBVIOUS
    <3> HIDE DEF Bad
    <3>2. L \in Nat
      BY <1>1
    <3>3. 0 + 1..L = 1..L
      OBVIOUS
    <3> HIDE DEF L
    <3> QED
      BY <3>1, <3>2, <3>3
  <2> HIDE DEF Bad
  <2> QED
    BY <2>1, <2>2, <2>3, Climbs
<1>8. Good(L)
  <2>1. L \in 0..L
    BY <1>1
  <2> HIDE DEF Good
  <2> QED
    BY <1>7, <2>1
<1>9. PICK o \in Seq(Changes) : q[L] = Taken(p[L - L], o, FALSE, FALSE) /\ Back(o, L)
  BY <1>8
<1>10. q[L] = Taken(u, o, FALSE, FALSE)
  <2>1. L - L = 0
    BY <1>1
  <2> HIDE DEF Back
  <2> QED
    BY <1>4, <1>9, <2>1
<1> DEFINE r == [i \in 0..L |-> p[L - i]]
<1>11. Leads(o, u, text, r)
  <2>1. \A i \in 0..L : L - i \in 0..L
    BY <1>1
  <2>2. Len(o) = L /\ 0 \in 0..L /\ L \in 0..L /\ L - L = 0 /\ L - 0 = L
    BY <1>1, <1>9
  <2>3. r \in [0..L -> Texts] /\ r[L] = u /\ r[0] = text
    BY <1>4, <2>1, <2>2
  <2>4. ASSUME NEW i \in 1..L
        PROVE  Takes(o[i], r[i], r[i - 1])
    <3>1. i \in 0..L /\ i - 1 \in 0..L /\ L - (i - 1) = (L - i) + 1
      BY <1>1
    <3>2. r[i] = p[L - i] /\ r[i - 1] = p[(L - i) + 1]
      BY <3>1
    <3> HIDE DEF r
    <3> QED
      BY <1>9, <3>2
  <2> HIDE DEF r
  <2> QED
    BY <2>2, <2>3, <2>4 DEF Leads
<1>12. o \in Groups
  <2>1. o # <<>>
    BY <1>1, <1>9
  <2> QED
    BY <2>1 DEF Groups
<1>13. Undoes(o, u, text)
  <2> HIDE DEF r
  <2> QED
    BY <1>11, <1>12 DEF Undoes
<1> QED
  BY <1>3, <1>10, <1>13


(* While edits are suppressed the text stays, and what is moved is a group.  *)
LEMMA HelperKeeps ==
  ASSUME NEW g \in Groups, text \in Texts
  PROVE  \E o \in Seq(Changes), h \in BOOLEAN :
           UnredoHelper(g, TRUE) = Taken(text, o, TRUE, h) /\ (~h => o \in Groups)
<1> DEFINE L == Len(g)
<1>1. g \in Seq(Changes) /\ L \in Nat \ {0} /\ DOMAIN g = 1..L
  BY EmptySeq DEF Groups
<1>2. PICK q : /\ q[0] = NothingTaken(TRUE) /\ UnredoHelper(g, TRUE) = q[L]
               /\ \A n \in 1..L : q[n] = TakeBack(q[n - 1], g[L + 1 - n])
  <2>1. L \in Nat
    BY <1>1
  <2>2. \E q : /\ q[0] = NothingTaken(TRUE) /\ UnredoHelper(g, TRUE) = q[Len(g)]
               /\ \A n \in 1..Len(g) : q[n] = TakeBack(q[n - 1], g[Len(g) + 1 - n])
    BY <2>1, HelperSteps
  <2> QED
    BY <2>2
<1> HIDE DEF L
<1> DEFINE Good(n) == \E o \in Seq(Changes), h \in BOOLEAN : q[n] = Taken(text, o, TRUE, h) /\ (~h => Len(o) = n)
           Bad == {n \in 0..L : ~Good(n)}
<1>3. Good(0)
  <2>1. q[0] = Taken(text, <<>>, TRUE, FALSE)
    BY <1>2 DEF NothingTaken
  <2>2. <<>> \in Seq(Changes) /\ Len(<<>>) = 0
    OBVIOUS
  <2> QED
    BY <2>1, <2>2
<1>4. ASSUME NEW n \in 1..L, Good(n - 1)
      PROVE  Good(n)
  <2>1. PICK o \in Seq(Changes), h \in BOOLEAN : q[n - 1] = Taken(text, o, TRUE, h) /\ (~h => Len(o) = n - 1)
    BY <1>4
  <2>2. L + 1 - n \in 1..L /\ n - 1 + 1 = n
    BY <1>1
  <2> DEFINE c == g[L + 1 - n]
  <2>3. c \in Changes
    BY <1>1, <2>2
  <2>4. q[n] = TakeBack(Taken(text, o, TRUE, h), c)
    BY <1>2, <2>1
  <2> HIDE DEF c
  <2>5. PICK x \in Seq(Changes), z \in BOOLEAN :
          /\ TakeBack(Taken(text, o, TRUE, h), c) = Taken(text, x, TRUE, z)
          /\ ~z => ~h /\ Len(x) = Len(o) + 1
    BY <2>3, TakeBackKeeps
  <2>6. q[n] = Taken(text, x, TRUE, z) /\ (~z => Len(x) = n)
    BY <2>1, <2>2, <2>4, <2>5
  <2> QED
    BY <2>6
<1>5. Bad = {}
  <2>1. 0 \notin Bad
    BY <1>3
  <2>2. \A n \in 1..L : n \in Bad => n - 1 \in Bad
    <3> SUFFICES ASSUME NEW n \in 1..L, n - 1 \notin Bad PROVE n \notin Bad
      OBVIOUS
    <3>1. n - 1 \in 0..L
      BY <1>1
    <3>2. Good(n - 1)
      BY <3>1
    <3> QED
      BY <1>4, <3>2
  <2>3. 0 \in Nat /\ L \in Int /\ Bad \subseteq 0..L /\ 0 + 1..L = 1..L
    <3>1. Bad \subseteq 0..L
      OBVIOUS
    <3> HIDE DEF Bad
    <3>2. L \in Nat
      BY <1>1
    <3>3. 0 + 1..L = 1..L
      OBVIOUS
    <3> HIDE DEF L
    <3> QED
      BY <3>1, <3>2, <3>3
  <2> HIDE DEF Bad
  <2> QED
    BY <2>1, <2>2, <2>3, Climbs
<1>6. Good(L)
  <2>1. L \in 0..L
    BY <1>1
  <2> HIDE DEF Good
  <2> QED
    BY <1>5, <2>1
<1>7. PICK o \in Seq(Changes), h \in BOOLEAN : q[L] = Taken(text, o, TRUE, h) /\ (~h => Len(o) = L)
  BY <1>6
<1>8. ~h => o \in Groups
  <2>1. Len(o) = L => o # <<>>
    BY <1>1
  <2> QED
    BY <1>7, <2>1 DEF Groups
<1> QED
  BY <1>2, <1>7, <1>8

-----------------------------------------------------------------------------
(* Groups that lead from one text to the next. *)
LEMMA Texted ==
  ASSUME NEW g, NEW t, NEW u, Undoes(g, t, u)
  PROVE  g \in Groups /\ t \in Texts /\ u \in Texts
<1>1. PICK p : Leads(g, t, u, p)
  BY DEF Undoes
<1>2. g \in Groups /\ g \in Seq(Changes) /\ Len(g) \in Nat
  BY DEF Undoes, Groups
<1>3. 0 \in 0..Len(g) /\ Len(g) \in 0..Len(g)
  BY <1>2
<1> QED
  BY <1>1, <1>2, <1>3 DEF Leads

LEMMA ChainLast ==
  ASSUME NEW gs \in Seq(Groups), NEW ts \in Seq(Texts), Len(gs) = Len(ts), gs # <<>>, NEW t, Chain(gs, ts, t)
  PROVE  /\ ts # <<>> /\ Undoes(Last(gs), t, Last(ts)) /\ Chain(Front(gs), Front(ts), Last(ts))
         /\ Len(Front(gs)) = Len(Front(ts))
<1> DEFINE n == Len(gs)
<1>1. /\ n \in Nat \ {0} /\ DOMAIN gs = 1..n /\ Last(gs) = gs[n]
      /\ Front(gs) \in Seq(Groups) /\ Len(Front(gs)) = n - 1 /\ \A i \in 1..n - 1 : Front(gs)[i] = gs[i]
  BY Ends
<1>2. ts # <<>>
  BY <1>1
<1>3. /\ Last(ts) = ts[n] /\ Front(ts) \in Seq(Texts) /\ Len(Front(ts)) = n - 1
      /\ \A i \in 1..n - 1 : Front(ts)[i] = ts[i]
  BY <1>2, Ends
<1>4. DOMAIN Front(gs) = 1..n - 1
  <2> DEFINE f == Front(gs)
  <2> HIDE DEF f
  <2>1. f \in Seq(Groups) /\ Len(f) = n - 1
    BY <1>1 DEF f
  <2> QED
    BY <2>1 DEF f
<1>5. \A i \in 1..n : Undoes(gs[i], IF i = n THEN t ELSE ts[i + 1], ts[i])
  BY <1>1 DEF Chain
<1> HIDE DEF n
<1>6. Undoes(Last(gs), t, Last(ts))
  BY <1>1, <1>3, <1>5
<1>7. ASSUME NEW i \in 1..n - 1
      PROVE  Undoes(Front(gs)[i], IF i = n - 1 THEN Last(ts) ELSE Front(ts)[i + 1], Front(ts)[i])
  <2>1. i \in 1..n /\ i # n
    BY <1>1
  <2>2. Undoes(gs[i], ts[i + 1], ts[i])
    BY <1>5, <2>1
  <2>3. CASE i = n - 1
    <3>1. i + 1 = n
      BY <1>1, <2>3
    <3> QED
      BY <1>1, <1>3, <2>2, <2>3, <3>1
  <2>4. CASE i # n - 1
    <3>1. i + 1 \in 1..n - 1
      BY <1>1, <2>4
    <3> QED
      BY <1>1, <1>3, <2>2, <2>4, <3>1
  <2> QED
    BY <2>3, <2>4
<1>8. Chain(Front(gs), Front(ts), Last(ts))
  BY <1>1, <1>4, <1>7 DEF Chain
<1> QED
  BY <1>1, <1>2, <1>3, <1>6, <1>8

LEMMA ChainMore ==
  ASSUME NEW gs \in Seq(Groups), NEW ts \in Seq(Texts), Len(gs) = Len(ts), NEW t, Chain(gs, ts, t),
         NEW g, NEW u, Undoes(g, u, t)
  PROVE  /\ Append(gs, g) \in Seq(Groups) /\ Append(ts, t) \in Seq(Texts)
         /\ Len(Append(gs, g)) = Len(Append(ts, t)) /\ Chain(Append(gs, g), Append(ts, t), u)
<1> DEFINE n == Len(gs)
           hs == Append(gs, g)
           us == Append(ts, t)
<1>0. g \in Groups /\ t \in Texts
  BY Texted
<1>1. n \in Nat /\ DOMAIN gs = 1..n /\ n = Len(ts) /\ DOMAIN ts = 1..n
  OBVIOUS
<1>2. /\ hs \in Seq(Groups) /\ Len(hs) = n + 1 /\ DOMAIN hs = 1..n + 1 /\ hs[n + 1] = g
      /\ \A i \in 1..n : hs[i] = gs[i]
  BY <1>0
<1>3. us \in Seq(Texts) /\ Len(us) = n + 1 /\ us[n + 1] = t /\ \A i \in 1..n : us[i] = ts[i]
  BY <1>0
<1>4. \A i \in 1..n : Undoes(gs[i], IF i = n THEN t ELSE ts[i + 1], ts[i])
  BY <1>1 DEF Chain
<1>n. n \in Nat
  OBVIOUS
<1> HIDE DEF n, hs, us
<1>5. ASSUME NEW i \in 1..n + 1
      PROVE  Undoes(hs[i], IF i = n + 1 THEN u ELSE us[i + 1], us[i])
  <2>1. CASE i = n + 1
    BY <1>2, <1>3, <2>1
  <2>2. CASE i = n
    <3>1. i \in 1..n /\ i # n + 1
      BY <1>n, <2>2
    <3> QED
      BY <1>2, <1>3, <1>4, <2>2, <3>1
  <2>3. CASE i # n + 1 /\ i # n
    <3>1. i \in 1..n /\ i + 1 \in 1..n
      BY <1>n, <2>3
    <3> QED
      BY <1>2, <1>3, <1>4, <2>3, <3>1
  <2> QED
    BY <2>1, <2>2, <2>3
<1>6. Chain(hs, us, u)
  BY <1>2, <1>5 DEF Chain
<1> QED
  BY <1>2, <1>3, <1>6 DEF hs, us


LEMMA FrontThen ==
  ASSUME NEW S, NEW q \in Seq(S), q # <<>>, NEW x \in S
  PROVE  Front(q) \o <<x>> = Append(Front(q), x) /\ Append(Front(q), Last(q)) = q
<1> DEFINE f == Front(q)
           n == Len(q)
           l == Last(q)
<1>1. n \in Nat \ {0} /\ f \in Seq(S) /\ Len(f) = n - 1 /\ l = q[n] /\ l \in S /\ \A i \in 1..n - 1 : f[i] = q[i]
  BY Ends
<1>2. q \in Seq(S) /\ Len(q) = n
  OBVIOUS
<1> HIDE DEF f, n, l
<1>3. f \o <<x>> = Append(f, x)
  BY <1>1
<1>4. Append(f, l) = q
  <2> DEFINE r == Append(f, l)
  <2>1. r \in Seq(S) /\ Len(r) = n /\ \A i \in 1..n : r[i] = q[i]
    BY <1>1
  <2> HIDE DEF r
  <2>2. r = q
    BY <1>2, <2>1, SeqEqual
  <2> QED
    BY <2>2 DEF r
<1> QED
  BY <1>3, <1>4 DEF f, l

LEMMA ChainOther ==
  ASSUME NEW gs \in Seq(Groups), NEW ts \in Seq(Texts), Len(gs) = Len(ts), gs # <<>>, NEW t, Chain(gs, ts, t),
         NEW g, NEW u, Undoes(g, u, Last(ts))
  PROVE  /\ Front(gs) \o <<g>> \in Seq(Groups) /\ Len(Front(gs) \o <<g>>) = Len(ts)
         /\ Chain(Front(gs) \o <<g>>, ts, u)
<1> DEFINE fs == Front(gs)
           us == Front(ts)
           v == Last(ts)
<1>1. ts # <<>> /\ Chain(fs, us, v) /\ Len(fs) = Len(us) /\ fs \in Seq(Groups) /\ g \in Groups
  BY ChainLast, Ends, Texted
<1>2. us \in Seq(Texts) /\ v \in Texts
  BY <1>1, Ends
<1>3. fs \o <<g>> = Append(fs, g) /\ Append(us, v) = ts
  BY <1>1, <1>2, FrontThen
<1> HIDE DEF fs, us, v
<1>4. /\ Append(fs, g) \in Seq(Groups) /\ Len(Append(fs, g)) = Len(Append(us, v))
      /\ Chain(Append(fs, g), Append(us, v), u)
  BY <1>1, <1>2, ChainMore DEF v
<1> QED
  BY <1>3, <1>4 DEF fs

(* The oldest groups may go. *)
LEMMA KeptOf ==
  ASSUME HistoryAssumption, NEW S, NEW q \in Seq(S)
  PROVE  /\ Kept(q) \in Seq(S) /\ (q # <<>> => Kept(q) # <<>> /\ Last(Kept(q)) = Last(q))
         /\ \E a \in 0..Len(q) : /\ a = Most(0, Len(q) - UndoDepth) /\ Len(Kept(q)) = Len(q) - a
                                 /\ \A i \in 1..Len(q) - a : Kept(q)[i] = q[a + i]
<1> DEFINE n == Len(q)
           a == Most(0, n - UndoDepth)
           r == Kept(q)
<1>1. n \in Nat /\ UndoDepth \in Nat \ {0} /\ (q # <<>> => n > 0)
  BY EmptySeq DEF HistoryAssumption
<1>2. a \in Nat /\ a <= n /\ (n > 0 => a < n)
  <2> HIDE DEF n
  <2> QED
    BY <1>1 DEF Most
<1>3. r = SubSeq(q, a + 1, n)
  BY DEF Kept
<1> HIDE DEF a, r
<1>4. r \in Seq(S) /\ Len(r) = n - a /\ \A i \in 1..n - a : r[i] = q[a + i]
  BY <1>1, <1>2, <1>3, PartOf
<1>5. q # <<>> => r # <<>> /\ Last(r) = Last(q)
  <2> SUFFICES ASSUME q # <<>> PROVE r # <<>> /\ Last(r) = Last(q)
    OBVIOUS
  <2> HIDE DEF n
  <2>1. n - a \in 1..n - a /\ a + (n - a) = n
    BY <1>1, <1>2
  <2>2. Len(r) # 0
    BY <1>1, <1>2, <1>4
  <2>3. r # <<>>
    BY <2>2
  <2>4. Last(r) = r[Len(r)] /\ Last(q) = q[n]
    BY <1>4, <2>3, Ends DEF n
  <2> QED
    BY <1>4, <2>1, <2>3, <2>4
<1>6. a \in 0..n
  BY <1>1, <1>2
<1> QED
  BY <1>4, <1>5, <1>6 DEF a, r

LEMMA ChainKept ==
  ASSUME HistoryAssumption, NEW gs \in Seq(Groups), NEW ts \in Seq(Texts), Len(gs) = Len(ts)
  PROVE  /\ Kept(gs) \in Seq(Groups) /\ Kept(ts) \in Seq(Texts) /\ Len(Kept(gs)) = Len(Kept(ts))
         /\ \A t : Chain(gs, ts, t) => Chain(Kept(gs), Kept(ts), t)
<1> DEFINE n == Len(gs)
           hs == Kept(gs)
           us == Kept(ts)
           a == Most(0, n - UndoDepth)
<1>1. /\ hs \in Seq(Groups) /\ a \in 0..n /\ Len(hs) = n - a /\ \A i \in 1..n - a : hs[i] = gs[a + i]
  BY KeptOf
<1>2. /\ us \in Seq(Texts) /\ Len(us) = n - a /\ \A i \in 1..n - a : us[i] = ts[a + i]
  BY KeptOf
<1>3. n \in Nat /\ DOMAIN gs = 1..n
  OBVIOUS
<1> HIDE DEF hs, us, a
<1>4. DOMAIN hs = 1..n - a
  BY <1>1
<1> SUFFICES ASSUME NEW t, Chain(gs, ts, t) PROVE Chain(hs, us, t)
  BY <1>1, <1>2 DEF hs, us
<1>5. \A i \in 1..n : Undoes(gs[i], IF i = n THEN t ELSE ts[i + 1], ts[i])
  BY <1>3 DEF Chain
<1> HIDE DEF n
<1>6. ASSUME NEW i \in 1..n - a
      PROVE  Undoes(hs[i], IF i = n - a THEN t ELSE us[i + 1], us[i])
  <2>1. a + i \in 1..n /\ (a + i = n <=> i = n - a)
    BY <1>1, <1>3
  <2>2. i # n - a => i + 1 \in 1..n - a /\ a + (i + 1) = (a + i) + 1
    BY <1>1, <1>3
  <2>3. Undoes(gs[a + i], IF a + i = n THEN t ELSE ts[(a + i) + 1], ts[a + i])
    BY <1>5, <2>1
  <2>4. CASE i = n - a
    BY <1>1, <1>2, <2>1, <2>3, <2>4
  <2>5. CASE i # n - a
    BY <1>1, <1>2, <2>1, <2>2, <2>3, <2>5
  <2> QED
    BY <2>4, <2>5
<1> QED
  BY <1>1, <1>4, <1>6 DEF Chain

(* Groups of one change, with one more, with the last one merged. *)
LEMMA GroupMore ==
  ASSUME NEW g, NEW t, NEW u, Undoes(g, t, u), NEW c, NEW v, Takes(c, v, t)
  PROVE  Undoes(Append(g, c), v, u)
<1> DEFINE n == Len(g)
           h == Append(g, c)
<1>1. PICK p : Leads(g, t, u, p)
  BY DEF Undoes
<1>2. g \in Seq(Changes) /\ n \in Nat /\ c \in Changes /\ v \in Texts
  BY DEF Undoes, Groups, Takes
<1>3. /\ p \in [0..n -> Texts] /\ p[n] = t /\ p[0] = u /\ \A i \in 1..n : Takes(g[i], p[i], p[i - 1])
  BY <1>1 DEF Leads
<1>4. /\ h \in Seq(Changes) /\ Len(h) = n + 1 /\ h[n + 1] = c /\ \A i \in 1..n : h[i] = g[i]
  BY <1>2
<1> HIDE DEF n, h
<1> DEFINE r == [i \in 0..n + 1 |-> IF i = n + 1 THEN v ELSE p[i]]
<1>5. /\ \A i \in 0..n : i \in 0..n + 1 /\ i # n + 1
      /\ n + 1 \in 0..n + 1 /\ 0 \in 0..n /\ \A i \in 0..n + 1 : i = n + 1 \/ i \in 0..n
  BY <1>2
<1>6. /\ r \in [0..n + 1 -> Texts] /\ r[n + 1] = v /\ r[0] = u /\ \A i \in 0..n : r[i] = p[i]
  BY <1>2, <1>3, <1>5
<1> HIDE DEF r
<1>7. ASSUME NEW i \in 1..n + 1
      PROVE  Takes(h[i], r[i], r[i - 1])
  <2>1. CASE i = n + 1
    <3>1. i - 1 = n /\ n \in 0..n
      BY <1>2, <2>1
    <3> QED
      BY <1>3, <1>4, <1>6, <2>1, <3>1
  <2>2. CASE i # n + 1
    <3>1. i \in 1..n /\ i \in 0..n /\ i - 1 \in 0..n
      BY <1>2, <2>2
    <3> QED
      BY <1>3, <1>4, <1>6, <3>1
  <2> QED
    BY <2>1, <2>2
<1>8. Leads(h, v, u, r)
  BY <1>4, <1>6, <1>7 DEF Leads
<1>9. h \in Groups
  <2>1. h # <<>>
    BY <1>2, <1>4
  <2> QED
    BY <1>4, <2>1 DEF Groups
<1> QED
  BY <1>8, <1>9 DEF Undoes, h

LEMMA GroupOne ==
  ASSUME NEW c, NEW t, NEW u, Takes(c, t, u)
  PROVE  Undoes(<<c>>, t, u)
<1> DEFINE g == <<c>>
           r == [i \in 0..1 |-> IF i = 1 THEN t ELSE u]
<1>1. c \in Changes /\ t \in Texts /\ u \in Texts
  BY DEF Takes
<1>2. g \in Groups /\ Len(g) = 1 /\ g[1] = c
  BY <1>1 DEF Groups
<1>3. r \in [0..1 -> Texts] /\ r[1] = t /\ r[0] = u
  BY <1>1
<1> HIDE DEF g, r
<1>4. \A i \in 1..1 : i = 1 /\ i - 1 = 0
  OBVIOUS
<1>5. Leads(g, t, u, r)
  BY <1>2, <1>3, <1>4 DEF Leads
<1> QED
  BY <1>2, <1>5 DEF Undoes, g

LEMMA GroupMerged ==
  ASSUME NEW g, NEW u, NEW w, Undoes(g, u, w), NEW new, NEW t, Takes(new, t, u), ~Apart(Last(g), new.start, new.old)
  PROVE  Undoes(Front(g) \o <<Extended(Last(g), new.start, new.added, new.old)>>, t, w)
<1> DEFINE n == Len(g)
           e == Extended(Last(g), new.start, new.added, new.old)
           h == Front(g) \o <<e>>
<1>1. PICK p : Leads(g, u, w, p)
  BY DEF Undoes
<1>2. g \in Seq(Changes) /\ g # <<>>
  BY DEF Undoes, Groups
<1>3. /\ n \in Nat \ {0} /\ Last(g) = g[n] /\ Front(g) \in Seq(Changes) /\ Len(Front(g)) = n - 1
      /\ \A i \in 1..n - 1 : Front(g)[i] = g[i]
  BY <1>2, Ends
<1>4. /\ p \in [0..n -> Texts] /\ p[n] = u /\ p[0] = w /\ \A i \in 1..n : Takes(g[i], p[i], p[i - 1])
  BY <1>1 DEF Leads
<1>5. Takes(e, t, p[n - 1])
  <2>1. n \in 1..n
    BY <1>3
  <2>2. Takes(Last(g), u, p[n - 1])
    BY <1>3, <1>4, <2>1
  <2> HIDE DEF n
  <2> QED
    BY <2>2, Merges
<1>6. e \in Changes /\ t \in Texts
  BY <1>5 DEF Takes
<1>7. h = Append(Front(g), e)
  BY <1>2, <1>6, FrontThen
<1> DEFINE f == Front(g)
<1> HIDE DEF e, h, n, f
<1>8. h \in Seq(Changes) /\ Len(h) = n /\ h[n] = e /\ \A i \in 1..n - 1 : h[i] = g[i]
  <2>1. f \in Seq(Changes) /\ Len(f) = n - 1 /\ h = Append(f, e) /\ \A i \in 1..n - 1 : f[i] = g[i]
    BY <1>3, <1>7 DEF f
  <2>2. n - 1 + 1 = n /\ n \in Nat
    BY <1>3
  <2> QED
    BY <1>6, <2>1, <2>2
<1> DEFINE r == [i \in 0..n |-> IF i = n THEN t ELSE p[i]]
<1>9. /\ r \in [0..n -> Texts] /\ r[n] = t /\ r[0] = w /\ \A i \in 0..n - 1 : r[i] = p[i]
  <2>1. n \in 0..n /\ 0 \in 0..n /\ n # 0 /\ \A i \in 0..n - 1 : i \in 0..n /\ i # n
    BY <1>3
  <2> QED
    BY <1>4, <1>6, <2>1
<1> HIDE DEF r
<1>10. ASSUME NEW i \in 1..n
       PROVE  Takes(h[i], r[i], r[i - 1])
  <2>1. CASE i = n
    <3>1. i - 1 = n - 1 /\ n - 1 \in 0..n - 1
      BY <1>3, <2>1
    <3> QED
      BY <1>5, <1>8, <1>9, <2>1, <3>1
  <2>2. CASE i # n
    <3>1. i \in 1..n - 1 /\ i \in 0..n - 1 /\ i - 1 \in 0..n - 1
      BY <1>3, <2>2
    <3> QED
      BY <1>4, <1>8, <1>9, <3>1
  <2> QED
    BY <2>1, <2>2
<1>11. Leads(h, t, w, r)
  BY <1>8, <1>9, <1>10 DEF Leads
<1>12. h \in Groups
  <2>1. h # <<>>
    BY <1>3, <1>8
  <2> QED
    BY <1>8, <2>1 DEF Groups
<1> QED
  BY <1>11, <1>12 DEF Undoes, h, e


-----------------------------------------------------------------------------
(* The steps. *)

(* A change is added: in a group of its own, in the last group, or merged    *)
(* with the last change.                                                     *)
LEMMA AddChangeFits ==
  ASSUME done \in Seq(Groups), past \in Seq(Texts), Len(done) = Len(past), text \in Texts, Chain(done, past, text),
         NEW start, NEW added, NEW old, NEW soon, NEW s,
         Takes([start |-> start, added |-> added, old |-> old], s, text)
  PROVE  LET add == AddChange(start, added, old, soon)
             texts == IF add.new THEN Append(past, text) ELSE past
         IN  /\ add.done \in Seq(Groups) /\ texts \in Seq(Texts) /\ Len(add.done) = Len(texts) /\ add.done # <<>>
             /\ Chain(add.done, texts, s)
<1> DEFINE change == [start |-> start, added |-> added, old |-> old]
           add == AddChange(start, added, old, soon)
           texts == IF add.new THEN Append(past, text) ELSE past
           cur == Last(done)
           inside == compound # 0 /\ done # <<>> /\ ~closed
           fresh == done = <<>> \/ ~soon \/ closed \/ Apart(Last(cur), start, old)
           Fits == /\ add.done \in Seq(Groups) /\ texts \in Seq(Texts) /\ Len(add.done) = Len(texts) /\ add.done # <<>>
                   /\ Chain(add.done, texts, s)
<1> SUFFICES Fits
  OBVIOUS
<1>1. change.start = start /\ change.added = added /\ change.old = old
  OBVIOUS
<1> HIDE DEF change
<1>2. Takes(change, s, text)
  BY DEF change
<1>3. ASSUME done # <<>>, NEW g, Undoes(g, s, Last(past)), add.done = Front(done) \o <<g>>, ~add.new
      PROVE  Fits
  <2> DEFINE hs == Front(done) \o <<g>>
  <2>1. /\ hs \in Seq(Groups) /\ Len(hs) = Len(past) /\ Chain(hs, past, s)
    BY <1>3, ChainOther
  <2>2. texts = past /\ add.done = hs
    BY <1>3
  <2> HIDE DEF add, texts, hs
  <2>3. hs # <<>>
    <3>1. Len(past) # 0
      BY <1>3, EmptySeq
    <3> QED
      BY <2>1, <3>1
  <2> QED
    BY <2>1, <2>2, <2>3
<1>4. done # <<>> => Undoes(cur, text, Last(past))
  BY ChainLast
<1>5. CASE inside
  <2>1. add = [done |-> Front(done) \o <<Append(cur, change)>>, new |-> FALSE]
    BY <1>5 DEF AddChange, change
  <2>2. add.done = Front(done) \o <<Append(cur, change)>> /\ ~add.new
    <3> HIDE DEF add
    <3> QED
      BY <2>1
  <2>3. Undoes(Append(cur, change), s, Last(past))
    <3> HIDE DEF cur
    <3> QED
      BY <1>2, <1>4, <1>5, GroupMore
  <2> HIDE DEF add, cur, Fits
  <2> QED
    BY <1>3, <1>5, <2>2, <2>3
<1>6. CASE ~inside /\ fresh
  <2>1. add = [done |-> Append(done, <<change>>), new |-> TRUE]
    BY <1>6 DEF AddChange, change
  <2>2. add.done = Append(done, <<change>>) /\ texts = Append(past, text)
    <3> HIDE DEF add
    <3> QED
      BY <2>1
  <2> DEFINE g == <<change>>
             hs == Append(done, g)
  <2>3. Undoes(g, s, text)
    BY <1>2, GroupOne
  <2> HIDE DEF g
  <2>4. /\ hs \in Seq(Groups) /\ Append(past, text) \in Seq(Texts) /\ Len(hs) = Len(Append(past, text))
        /\ Chain(hs, Append(past, text), s)
    BY <2>3, ChainMore
  <2>5. hs # <<>>
    BY <2>3, Texted
  <2> HIDE DEF add, texts
  <2> QED
    BY <2>2, <2>4, <2>5 DEF g
<1>7. CASE ~inside /\ ~fresh
  <2> DEFINE e == Extended(Last(cur), start, added, old)
             g == Front(cur) \o <<e>>
  <2>1. add = [done |-> Front(done) \o <<g>>, new |-> FALSE]
    BY <1>7 DEF AddChange
  <2>2. add.done = Front(done) \o <<g>> /\ ~add.new
    <3> HIDE DEF add, g
    <3> QED
      BY <2>1
  <2>3. Undoes(g, s, Last(past))
    <3> HIDE DEF cur
    <3>1. Undoes(cur, text, Last(past)) /\ ~Apart(Last(cur), change.start, change.old)
      BY <1>1, <1>4, <1>7
    <3>2. Undoes(Front(cur) \o <<Extended(Last(cur), change.start, change.added, change.old)>>, s, Last(past))
      BY <1>2, <3>1, GroupMerged
    <3> QED
      BY <1>1, <3>2
  <2> HIDE DEF add, g, Fits
  <2> QED
    BY <1>3, <1>7, <2>2, <2>3
<1> QED
  BY <1>5, <1>6, <1>7

(* A closed group is followed by another; within a compound change an open   *)
(* one goes on.                                                              *)
LEMMA ClosedStarts ==
  ASSUME NEW start, NEW added, NEW old, NEW soon
  PROVE  /\ closed => AddChange(start, added, old, soon).new = TRUE
         /\ compound # 0 /\ done # <<>> /\ ~closed => AddChange(start, added, old, soon).new = FALSE
BY DEF AddChange

LEMMA ReplaceFits ==
  ASSUME HistoryAssumption, HistoryInv, ~tangled, Replace
  PROVE  /\ HistoryInv'
         /\ done' # <<>> /\ closed' = FALSE
         /\ closed => Last(past') = text
         /\ compound # 0 /\ done # <<>> /\ ~closed => Last(past') = Last(past)
<1>1. PICK from \in Position(text), to \in Position(text), code \in Codes, soon \in BOOLEAN :
        NotAfter(from, to) /\ UpdateLines(from, to, code, soon)
  BY DEF Replace
<1> DEFINE old == SubSeq(text, from.line, to.line)
           n == Len(code)
           line == from.line
           add == AddChange(line, n, old, soon)
           texts == IF add.new THEN Append(past, text) ELSE past
           s == UpdateLinesNoUndo(text, from, to, code)
<1>2. text \in Texts /\ code \in Texts /\ past \in Seq(Texts) /\ done \in Seq(Groups) /\ Len(done) = Len(past)
      /\ Chain(done, past, text)
  BY DEF HistoryInv, HistoryAssumption
<1>3. /\ text' = s /\ done' = Kept(add.done) /\ undone' = <<>> /\ closed' = (closed /\ ~add.new)
      /\ past' = Kept(texts) /\ future' = <<>> /\ ended' = FALSE
      /\ compound' = compound /\ depth' = depth /\ tangled' = tangled
  BY <1>1 DEF UpdateLines
<1>4. Takes([start |-> line, added |-> n, old |-> old], s, text)
  BY <1>1, <1>2, EditTakes
<1>5. /\ closed => add.new = TRUE
      /\ compound # 0 /\ done # <<>> /\ ~closed => add.new = FALSE
  BY ClosedStarts
<1> HIDE DEF old, s, n, line
<1>6. /\ add.done \in Seq(Groups) /\ texts \in Seq(Texts) /\ Len(add.done) = Len(texts) /\ Chain(add.done, texts, s)
      /\ add.done # <<>>
  BY <1>2, <1>4, AddChangeFits
<1>7. closed => texts # <<>> /\ Last(texts) = text
  <2> SUFFICES ASSUME closed PROVE texts # <<>> /\ Last(texts) = text
    OBVIOUS
  <2>1. texts = Append(past, text)
    BY <1>5
  <2> HIDE DEF texts
  <2>2. Len(texts) = Len(past) + 1 /\ texts[Len(past) + 1] = text /\ Len(past) \in Nat
    BY <1>2, <2>1
  <2> QED
    BY <2>2 DEF Last
<1> HIDE DEF add, texts
<1>8. /\ Kept(add.done) \in Seq(Groups) /\ Kept(texts) \in Seq(Texts) /\ Len(Kept(add.done)) = Len(Kept(texts))
      /\ Chain(Kept(add.done), Kept(texts), s)
  BY <1>6, ChainKept
<1>9. closed => Last(Kept(texts)) = text
  BY <1>6, <1>7, KeptOf
<1>10. s \in Texts
  BY <1>4 DEF Takes
<1>11. Chain(<<>>, <<>>, s) /\ <<>> \in Seq(Groups) /\ <<>> \in Seq(Texts)
  BY DEF Chain
<1>12. HistoryInv'
  BY <1>3, <1>8, <1>10, <1>11 DEF HistoryInv
<1>13. Kept(add.done) # <<>>
  BY <1>6, KeptOf
<1>14. compound # 0 /\ done # <<>> /\ ~closed => Last(Kept(texts)) = Last(past)
  <2> SUFFICES ASSUME compound # 0, done # <<>>, ~closed PROVE Last(Kept(texts)) = Last(past)
    OBVIOUS
  <2>1. texts = past /\ past # <<>>
    BY <1>2, <1>5 DEF texts
  <2> QED
    BY <1>6, <2>1, KeptOf
<1>15. closed' = FALSE
  BY <1>3, <1>5 DEF HistoryInv
<1> QED
  BY <1>3, <1>9, <1>12, <1>13, <1>14, <1>15

(* A group is taken back, or only moved. *)
LEMMA Moves ==
  ASSUME text \in Texts, NEW gs \in Seq(Groups), NEW ts \in Seq(Texts), Len(gs) = Len(ts), gs # <<>>,
         Chain(gs, ts, text), NEW hs \in Seq(Groups), NEW us \in Seq(Texts), Len(hs) = Len(us), Chain(hs, us, text),
         NEW suppressed \in BOOLEAN
  PROVE  LET r == UnredoHelper(Last(gs), suppressed)
             more == IF r.threw THEN hs ELSE Append(hs, r.out)
             texts == IF r.threw THEN us ELSE Append(us, text)
         IN  /\ r.text \in Texts /\ Front(gs) \in Seq(Groups) /\ Front(ts) \in Seq(Texts) /\ Len(Front(gs)) = Len(Front(ts))
             /\ more \in Seq(Groups) /\ texts \in Seq(Texts) /\ Len(more) = Len(texts)
             /\ ~suppressed => Chain(Front(gs), Front(ts), r.text) /\ Chain(more, texts, r.text)
<1> DEFINE g == Last(gs)
           u == Last(ts)
           r == UnredoHelper(g, suppressed)
           more == IF r.threw THEN hs ELSE Append(hs, r.out)
           texts == IF r.threw THEN us ELSE Append(us, text)
<1>1. ts # <<>> /\ Undoes(g, text, u) /\ Chain(Front(gs), Front(ts), u) /\ Len(Front(gs)) = Len(Front(ts))
  BY ChainLast
<1>2. Front(gs) \in Seq(Groups) /\ Front(ts) \in Seq(Texts) /\ g \in Groups /\ u \in Texts
  BY <1>1, Ends
<1> HIDE DEF g, u
<1>3. CASE suppressed
  <2>1. PICK o \in Seq(Changes), h \in BOOLEAN : UnredoHelper(g, TRUE) = Taken(text, o, TRUE, h) /\ (~h => o \in Groups)
    BY <1>2, HelperKeeps
  <2>2. r = Taken(text, o, TRUE, h)
    BY <1>3, <2>1
  <2> HIDE DEF r
  <2>3. r.text = text /\ r.out = o /\ r.threw = h
    BY <2>2 DEF Taken
  <2>4. more \in Seq(Groups) /\ texts \in Seq(Texts) /\ Len(more) = Len(texts)
    <3>1. CASE h
      BY <2>3, <3>1
    <3>2. CASE ~h
      <4>1. more = Append(hs, o) /\ texts = Append(us, text) /\ o \in Groups
        BY <2>1, <2>3, <3>2
      <4> QED
        BY <4>1
    <3> QED
      BY <3>1, <3>2
  <2> HIDE DEF more, texts
  <2> QED
    BY <1>1, <1>2, <1>3, <2>3, <2>4 DEF g, r, more, texts
<1>4. CASE ~suppressed
  <2>1. PICK o : UnredoHelper(g, FALSE) = Taken(u, o, FALSE, FALSE) /\ Undoes(o, u, text)
    BY <1>1, HelperUndoes
  <2>2. r = Taken(u, o, FALSE, FALSE)
    BY <1>4, <2>1
  <2> HIDE DEF r
  <2>3. r.text = u /\ r.out = o /\ r.threw = FALSE
    BY <2>2 DEF Taken
  <2>4. more = Append(hs, o) /\ texts = Append(us, text)
    BY <2>3
  <2>5. more \in Seq(Groups) /\ texts \in Seq(Texts) /\ Len(more) = Len(texts) /\ Chain(more, texts, u)
    <3> HIDE DEF more, texts
    <3> QED
      BY <2>1, <2>4, ChainMore
  <2> HIDE DEF more, texts
  <2> QED
    BY <1>1, <1>2, <2>3, <2>5 DEF g, r, more, texts
<1> QED
  BY <1>3, <1>4


LEMMA UndoFits ==
  ASSUME HistoryInv, ~tangled, NEW suppressed \in BOOLEAN, Undo(suppressed)
  PROVE  HistoryInv'
<1> DEFINE r == UnredoHelper(Last(done), suppressed)
           more == IF r.threw THEN undone ELSE Append(undone, r.out)
           texts == IF r.threw THEN future ELSE Append(future, text)
<1>1. /\ text' = r.text /\ undone' = more /\ future' = texts /\ done' = Front(done) /\ past' = Front(past)
      /\ tangled' = suppressed /\ done # <<>>
      /\ UNCHANGED <<compound, closed, depth, ended>>
  BY DEF Undo, SteppedBy
<1>2. /\ r.text \in Texts /\ Front(done) \in Seq(Groups) /\ Front(past) \in Seq(Texts) /\ Len(Front(done)) = Len(Front(past))
      /\ more \in Seq(Groups) /\ texts \in Seq(Texts) /\ Len(more) = Len(texts)
      /\ ~suppressed => Chain(Front(done), Front(past), r.text) /\ Chain(more, texts, r.text)
  BY <1>1, Moves DEF HistoryInv
<1> HIDE DEF r, more, texts
<1> QED
  BY <1>1, <1>2 DEF HistoryInv

LEMMA RedoFits ==
  ASSUME HistoryInv, ~tangled, NEW suppressed \in BOOLEAN, Redo(suppressed)
  PROVE  HistoryInv'
<1> DEFINE r == UnredoHelper(Last(undone), suppressed)
           more == IF r.threw THEN done ELSE Append(done, r.out)
           texts == IF r.threw THEN past ELSE Append(past, text)
<1>1. /\ text' = r.text /\ done' = more /\ past' = texts /\ undone' = Front(undone) /\ future' = Front(future)
      /\ tangled' = suppressed /\ undone # <<>>
      /\ UNCHANGED <<compound, closed, depth, ended>>
  BY DEF Redo, SteppedBy
<1>2. /\ r.text \in Texts /\ Front(undone) \in Seq(Groups) /\ Front(future) \in Seq(Texts)
      /\ Len(Front(undone)) = Len(Front(future))
      /\ more \in Seq(Groups) /\ texts \in Seq(Texts) /\ Len(more) = Len(texts)
      /\ ~suppressed => Chain(Front(undone), Front(future), r.text) /\ Chain(more, texts, r.text)
  BY <1>1, Moves DEF HistoryInv
<1> HIDE DEF r, more, texts
<1> QED
  BY <1>1, <1>2 DEF HistoryInv

LEMMA HistoryStarts ==
  ASSUME HistoryAssumption, HistoryInit
  PROVE  HistoryInv
<1>1. \A t : Chain(<<>>, <<>>, t)
  BY DEF Chain
<1>2. <<>> \in Seq(Groups) /\ <<>> \in Seq(Texts)
  OBVIOUS
<1>3. InitText \in Texts /\ 0 \in 0..MaxDepth /\ 0 \in 0 - MaxDepth..0
  BY DEF HistoryAssumption
<1>4. /\ text = InitText /\ done = <<>> /\ undone = <<>> /\ past = <<>> /\ future = <<>>
      /\ depth = 0 /\ compound = 0 /\ closed = FALSE /\ ended = FALSE
  BY DEF HistoryInit
<1> QED
  BY <1>1, <1>2, <1>3, <1>4 DEF HistoryInv

LEMMA HistoryGoesOn ==
  ASSUME HistoryAssumption, HistoryInv, [HistoryNext]_historyVars
  PROVE  HistoryInv'
<1>1. MaxDepth \in Nat
  BY DEF HistoryAssumption
<1>2. CASE UNCHANGED historyVars
  BY <1>2 DEF historyVars, HistoryInv, Chain
<1>3. CASE ~tangled /\ Replace
  BY <1>3, ReplaceFits
<1>4. ASSUME ~tangled, NEW suppressed \in BOOLEAN, Undo(suppressed) \/ Redo(suppressed)
      PROVE  HistoryInv'
  BY <1>4, UndoFits, RedoFits
<1>5. CASE StartCompound
  <2>1. depth + 1 \in 0..MaxDepth /\ compound + 1 \in (depth + 1) - MaxDepth..depth + 1 /\ (closed \/ compound = 0) \in BOOLEAN
    BY <1>1, <1>5 DEF StartCompound, HistoryInv
  <2>2. /\ text' = text /\ done' = done /\ undone' = undone /\ past' = past /\ future' = future /\ ended' = ended
        /\ tangled' = tangled /\ depth' = depth + 1 /\ compound' = compound + 1 /\ closed' = (closed \/ compound = 0)
    BY <1>5 DEF StartCompound
  <2> QED
    BY <2>1, <2>2 DEF HistoryInv
<1>6. CASE EndCompound
  <2>1. depth - 1 \in 0..MaxDepth /\ compound - 1 \in (depth - 1) - MaxDepth..depth - 1 /\ (closed \/ compound = 1) \in BOOLEAN
    BY <1>1, <1>6 DEF EndCompound, HistoryInv
  <2>2. /\ text' = text /\ done' = done /\ undone' = undone /\ past' = past /\ future' = future
        /\ ended' = (ended \/ (depth = 1 /\ compound = 1))
        /\ tangled' = tangled /\ depth' = depth - 1 /\ compound' = compound - 1 /\ closed' = (closed \/ compound = 1)
    BY <1>6 DEF EndCompound
  <2> QED
    BY <2>1, <2>2 DEF HistoryInv
<1>7. CASE ClearHistory
  <2>1. \A t : Chain(<<>>, <<>>, t)
    BY DEF Chain
  <2>2. <<>> \in Seq(Groups) /\ <<>> \in Seq(Texts)
    OBVIOUS
  <2>3. depth \in 0..MaxDepth => 0 \in depth - MaxDepth..depth
    BY <1>1
  <2> QED
    BY <1>7, <2>1, <2>2, <2>3 DEF ClearHistory, HistoryInv
<1> QED
  BY <1>2, <1>3, <1>4, <1>5, <1>6, <1>7 DEF HistoryNext

(* What any step does to an open compound change. *)
LEMMA CompoundGoesOn ==
  ASSUME HistoryAssumption, HistoryInv, CompoundInv, [HistoryNext]_historyVars
  PROVE  CompoundInv'
<1>1. /\ depth \in Nat /\ compound \in Int /\ closed \in BOOLEAN /\ text # <<>>
  BY DEF HistoryInv, HistoryAssumption, Texts
<1>2. CASE UNCHANGED historyVars
  BY <1>2 DEF historyVars, CompoundInv
<1>3. CASE ~tangled /\ Replace
  <2>1. /\ done' # <<>> /\ closed' = FALSE
        /\ closed => Last(past') = text
        /\ compound # 0 /\ done # <<>> /\ ~closed => Last(past') = Last(past)
    BY <1>3, ReplaceFits
  <2>2. /\ before' = (IF depth = 0 THEN <<>> ELSE IF before = <<>> THEN text ELSE before)
        /\ compound' = compound /\ depth' = depth /\ stepped' = stepped
    BY <1>3 DEF Replace, UpdateLines
  <2> QED
    BY <1>1, <2>1, <2>2 DEF CompoundInv
<1>4. ASSUME NEW suppressed \in BOOLEAN, Undo(suppressed) \/ Redo(suppressed)
      PROVE  CompoundInv'
  <2>1. /\ before' = (IF depth = 0 THEN <<>> ELSE before)
        /\ stepped' = (stepped \/ before # <<>>)
        /\ compound' = compound /\ depth' = depth /\ closed' = closed
    BY <1>4 DEF Undo, Redo, SteppedBy
  <2> QED
    BY <1>1, <2>1 DEF CompoundInv
<1>5. CASE StartCompound
  <2>1. /\ closed' = (closed \/ compound = 0) /\ compound' = compound + 1 /\ depth' = depth + 1
        /\ before' = (IF depth = 0 THEN <<>> ELSE before) /\ stepped' = (stepped /\ depth > 0)
        /\ done' = done /\ past' = past
    BY <1>5 DEF StartCompound
  <2>2. depth > 0 /\ ~stepped' => ~stepped
    BY <2>1
  <2>3. compound' = depth' => compound = depth
    BY <1>1, <2>1
  <2>4. compound = depth /\ depth = 0 => closed' /\ before' = <<>>
    BY <1>1, <2>1
  <2>5. depth > 0 => before' = before
    BY <1>1, <2>1
  <2>6. depth > 0 /\ compound = depth => (closed' <=> closed)
    BY <1>1, <2>1
  <2>7. depth = 0 \/ depth > 0
    BY <1>1
  <2> QED
    BY <2>1, <2>2, <2>3, <2>4, <2>5, <2>6, <2>7 DEF CompoundInv
<1>6. CASE EndCompound
  BY <1>1, <1>6 DEF EndCompound, CompoundInv
<1>7. CASE ClearHistory
  BY <1>1, <1>7 DEF ClearHistory, CompoundInv
<1> QED
  BY <1>2, <1>3, <1>4, <1>5, <1>6, <1>7 DEF HistoryNext

(* The groups of done lead from the text that is there back through every    *)
(* text of past, and those of undone through every text of future, after any *)
(* edits, however their changes were merged and however many were dropped.   *)
THEOREM HistoryFits == HistorySpec => []HistoryInv
<1>1. HistoryInit => HistoryInv
  BY HistoryStarts, HistoryAssumption
<1>2. HistoryInv /\ [HistoryNext]_historyVars => HistoryInv'
  BY HistoryGoesOn, HistoryAssumption
<1> QED
  BY <1>1, <1>2, PTL DEF HistorySpec

LEMMA HistoryIsTyped ==
  ASSUME HistoryAssumption, HistoryInv
  PROVE  HistoryTypeOK
<1>1. compound \in -MaxDepth..MaxDepth /\ depth \in 0..MaxDepth
  BY DEF HistoryInv, HistoryAssumption
<1>2. ASSUME NEW g \in ToSet(done \o undone)
      PROVE  g # <<>> /\ \A i \in 1..Len(g) : g[i].start >= 1 /\ g[i].added >= 1 /\ g[i].old # <<>>
  <2>1. done \o undone \in Seq(Groups)
    BY DEF HistoryInv
  <2> DEFINE gs == done \o undone
  <2> HIDE DEF gs
  <2>2. g \in Groups
    BY <1>2, <2>1 DEF ToSet, gs
  <2>3. \A i \in 1..Len(g) : g[i] \in Changes
    BY <2>2 DEF Groups
  <2>4. \A c \in Changes : c.start >= 1 /\ c.added >= 1 /\ c.old # <<>>
    BY DEF Changes, Texts
  <2> QED
    BY <2>2, <2>3, <2>4 DEF Groups
<1> QED
  BY <1>1, <1>2 DEF HistoryTypeOK, HistoryInv

LEMMA UndoGivesBack ==
  ASSUME HistoryInv
  PROVE  UndoRestores
<1> SUFFICES ASSUME ~tangled
             PROVE  /\ done # <<>> => UnredoHelper(Last(done), FALSE).text = Last(past)
                    /\ undone # <<>> => UnredoHelper(Last(undone), FALSE).text = Last(future)
  BY DEF UndoRestores
<1>1. \A g, u : Undoes(g, text, u) => UnredoHelper(g, FALSE).text = u
  <2> SUFFICES ASSUME NEW g, NEW u, Undoes(g, text, u) PROVE UnredoHelper(g, FALSE).text = u
    OBVIOUS
  <2> DEFINE r == UnredoHelper(g, FALSE)
  <2>1. PICK o : r = Taken(u, o, FALSE, FALSE)
    BY HelperUndoes
  <2> HIDE DEF r
  <2>2. r.text = u
    BY <2>1 DEF Taken
  <2> QED
    BY <2>2 DEF r
<1>2. done # <<>> => Undoes(Last(done), text, Last(past))
  BY ChainLast DEF HistoryInv
<1>3. undone # <<>> => Undoes(Last(undone), text, Last(future))
  BY ChainLast DEF HistoryInv
<1> QED
  BY <1>1, <1>2, <1>3

(* The history of the editor is typed: as many groups as texts, no group     *)
(* without a change, no change without lines.                                *)
THEOREM HistoryTyped == HistorySpec => []HistoryTypeOK
<1>1. HistoryInv => HistoryTypeOK
  BY HistoryIsTyped, HistoryAssumption
<1> QED
  BY <1>1, HistoryFits, PTL

(* Undo gives back the text before the last group of changes, redo the text  *)
(* before the undo; what a compound change changes is one group and the      *)
(* first change after it starts another: for all texts and edits, any        *)
(* undoDepth and any nesting.                                                *)
THEOREM HistoryIsRight == HistorySpec => HistoryRight
<1>1. HistoryInv /\ CompoundInv => HistoryTypeOK /\ UndoRestores /\ CompoundIsOneGroup
  BY HistoryIsTyped, UndoGivesBack, HistoryAssumption DEF CompoundInv, CompoundIsOneGroup
<1>2. HistoryInv /\ [HistoryNext]_historyVars
        => [(edits' # edits /\ ended /\ depth = 0) => Last(past') = text]_historyVars
  <2> SUFFICES ASSUME HistoryInv, HistoryNext, edits' # edits, ended PROVE Last(past') = text
    OBVIOUS
  <2>1. ~tangled /\ Replace
    BY DEF HistoryNext, Undo, Redo, StartCompound, EndCompound, ClearHistory
  <2>2. closed
    BY DEF HistoryInv
  <2> QED
    BY <2>1, <2>2, ReplaceFits, HistoryAssumption
<1>3. HistoryInit => CompoundInv
  BY DEF HistoryInit, CompoundInv
<1>4. HistoryInv /\ CompoundInv /\ [HistoryNext]_historyVars => CompoundInv'
  BY CompoundGoesOn, HistoryAssumption
<1> QED
  BY <1>1, <1>2, <1>3, <1>4, HistoryFits, PTL DEF HistorySpec, HistoryRight, NextStartsGroup

-----------------------------------------------------------------------------
(* The selection.                                                            *)
LineObjects == [len : Nat, hidden : BOOLEAN]
Documents == Seq(LineObjects) \ {<<>>}
Places == Int \X Int
Ranges == [from : Places, to : Places, inverted : BOOLEAN]
Settings == [lines : Documents, sel : Ranges, threw : BOOLEAN]

Sound(range, ls) ==
  /\ Valid(range.from, ls) /\ Valid(range.to, ls) /\ ~Less(range.to, range.from)
  /\ range.inverted => range.from # range.to

SameLengths(ls, kept) == Len(ls) = Len(kept) /\ \A i \in 1..Len(kept) : ls[i].len = kept[i].len

LEMMA LineOf ==
  ASSUME NEW ls \in Documents
  PROVE  /\ Len(ls) \in Nat \ {0} /\ DOMAIN ls = 1..Len(ls)
         /\ \A i \in 1..Len(ls) : ls[i] \in LineObjects /\ ls[i].len \in Nat /\ ls[i].hidden \in BOOLEAN
         /\ Last(ls) = ls[Len(ls)]
<1>1. ls \in Seq(LineObjects) /\ Len(ls) \in Nat \ {0} /\ DOMAIN ls = 1..Len(ls)
  BY EmptySeq DEF Documents
<1>2. \A i \in 1..Len(ls) : ls[i] \in LineObjects
  BY <1>1
<1>3. \A l \in LineObjects : l.len \in Nat /\ l.hidden \in BOOLEAN
  BY DEF LineObjects
<1> QED
  BY <1>1, <1>2, <1>3 DEF Last

LEMMA Indexed ==
  ASSUME NEW ls \in Documents, NEW p \in Places, Valid(p, ls)
  PROVE  /\ p[1] + 1 \in 1..Len(ls) /\ p[1] + 1 \in DOMAIN ls /\ ls[p[1] + 1].hidden \in BOOLEAN
         /\ Valid(<<p[1], 0>>, ls)
<1>1. /\ Len(ls) \in Nat \ {0} /\ DOMAIN ls = 1..Len(ls)
      /\ \A i \in 1..Len(ls) : ls[i].len \in Nat /\ ls[i].hidden \in BOOLEAN
  BY LineOf
<1>2. p[1] \in 0..Len(ls) - 1
  BY DEF Valid
<1>3. p[1] + 1 \in 1..Len(ls)
  BY <1>1, <1>2
<1>4. <<p[1], 0>>[1] = p[1] /\ <<p[1], 0>>[2] = 0
  OBVIOUS
<1>5. Valid(<<p[1], 0>>, ls)
  BY <1>1, <1>2, <1>3, <1>4 DEF Valid
<1> QED
  BY <1>1, <1>3, <1>5

LEMMA Refits ==
  ASSUME NEW ls \in Documents, NEW kept \in Documents, SameLengths(ls, kept)
  PROVE  \A p \in Places : Valid(p, kept) => Valid(p, ls)
<1> SUFFICES ASSUME NEW p \in Places, Valid(p, kept) PROVE Valid(p, ls)
  OBVIOUS
<1>1. p[1] + 1 \in 1..Len(kept)
  BY Indexed
<1>2. Len(ls) = Len(kept) /\ ls[p[1] + 1].len = kept[p[1] + 1].len
  BY <1>1 DEF SameLengths
<1> QED
  BY <1>2 DEF Valid

LEMMA FirstLast ==
  ASSUME NEW S, NEW hi \in Nat, S \subseteq 0..hi, S # {}
  PROVE  Min(S) \in S /\ Max(S) \in S
<1>0. S \subseteq Nat
  OBVIOUS
<1>1. PICK x \in S : \A y \in S : x <= y
  BY <1>0, LeastNumber
<1>2. Min(S) \in S
  BY <1>1 DEF Min
<1> DEFINE B == {hi - n : n \in S}
<1>3. B \subseteq Nat /\ B # {}
  OBVIOUS
<1>4. PICK z \in B : \A y \in B : z <= y
  BY <1>3, LeastNumber
<1>5. PICK x2 \in S : z = hi - x2
  BY <1>4
<1>6. \A y \in S : x2 >= y
  BY <1>4, <1>5
<1>7. Max(S) \in S
  BY <1>6 DEF Max
<1> QED
  BY <1>2, <1>7

LEMMA Skips ==
  ASSUME NEW ls \in Documents, NEW p \in Places, Valid(p, ls), NEW oldLine \in Int, NEW oldCh \in Int
  PROVE  LET r == SkipHidden(ls, p, oldLine, oldCh)
         IN  /\ r = Null \/ (r \in Places /\ Valid(r, ls))
             /\ ~ls[p[1] + 1].hidden => r = p
<1> DEFINE down == {n \in p[1] + 1..Len(ls) - 1 : ~ls[n + 1].hidden}
           up == {n \in 0..p[1] - 1 : ~ls[n + 1].hidden}
           n == IF down # {} /\ (up = {} \/ p[1] >= oldLine) THEN Min(down) ELSE Max(up)
           r == SkipHidden(ls, p, oldLine, oldCh)
           len == ls[n + 1].len
           toEnd == p[2] = ls[p[1] + 1].len /\ p[2] # oldCh
           ch == IF toEnd \/ p[2] > oldCh \/ p[2] > len THEN len ELSE p[2]
<1>1. /\ Len(ls) \in Nat \ {0} /\ p[1] \in 0..Len(ls) - 1 /\ p[1] \in Nat /\ p[2] \in Nat /\ p[2] <= ls[p[1] + 1].len
      /\ \A i \in 1..Len(ls) : ls[i].len \in Nat /\ ls[i].hidden \in BOOLEAN
  BY LineOf DEF Valid
<1>2. down \subseteq 0..Len(ls) - 1 /\ up \subseteq 0..Len(ls) - 1 /\ Len(ls) - 1 \in Nat
  BY <1>1
<1>3. /\ ~ls[p[1] + 1].hidden => r = p
      /\ ls[p[1] + 1].hidden /\ down \cup up = {} => r = Null
      /\ ls[p[1] + 1].hidden /\ down \cup up # {} => r = <<n, ch>>
  BY DEF SkipHidden
<1> HIDE DEF down, up, r
<1>4. down \cup up # {} => n \in 0..Len(ls) - 1
  <2>1. ASSUME down # {} PROVE Min(down) \in 0..Len(ls) - 1
    BY <2>1, <1>2, FirstLast
  <2>2. ASSUME up # {} PROVE Max(up) \in 0..Len(ls) - 1
    BY <2>2, <1>2, FirstLast
  <2> QED
    BY <2>1, <2>2
<1> HIDE DEF n
<1>5. ASSUME n \in 0..Len(ls) - 1
      PROVE  <<n, ch>> \in Places /\ Valid(<<n, ch>>, ls)
  <2>1. n + 1 \in 1..Len(ls) /\ n \in Int
    BY <1>1, <1>5
  <2>2. len \in Nat
    BY <2>1, <1>1
  <2> HIDE DEF len, toEnd
  <2>3. ch \in 0..len
    BY <2>2, <1>1
  <2> HIDE DEF ch
  <2> QED
    BY <1>5, <2>1, <2>2, <2>3 DEF Valid, Places, len
<1>6. p \in Places /\ Valid(p, ls)
  OBVIOUS
<1>7. r = Null \/ (r \in Places /\ Valid(r, ls))
  <2>0. ls[p[1] + 1].hidden \in BOOLEAN
    BY <1>1
  <2>1. CASE ~ls[p[1] + 1].hidden
    BY <2>1, <1>3
  <2>2. CASE ls[p[1] + 1].hidden /\ down \cup up = {}
    BY <2>2, <1>3
  <2>3. CASE ls[p[1] + 1].hidden /\ down \cup up # {}
    BY <2>3, <1>3, <1>4, <1>5
  <2> QED
    BY <2>0, <2>1, <2>2, <2>3
<1> QED
  BY <1>3, <1>7 DEF r

LEMMA Clips ==
  ASSUME NEW ls \in Documents, NEW p \in Places
  PROVE  /\ Clip(p, ls) \in Places /\ Valid(Clip(p, ls), ls)
         /\ Valid(p, ls) => Clip(p, ls) = p
         /\ p[1] \in 0..Len(ls) - 1 => Clip(p, ls)[1] = p[1]
         /\ p[1] >= 0 => Clip(p, ls)[1] = LesserOf(p[1], Len(ls) - 1)
<1>1. /\ Len(ls) \in Nat \ {0} /\ p = <<p[1], p[2]>> /\ p[1] \in Int /\ p[2] \in Int
      /\ \A i \in 1..Len(ls) : ls[i].len \in Nat
      /\ Last(ls) = ls[Len(ls)]
  BY LineOf DEF Places
<1>2. CASE p[1] < 0
  <2>1. Clip(p, ls) = <<0, 0>>
    BY <1>1, <1>2 DEF Clip
  <2>2. 1 \in 1..Len(ls)
    BY <1>1
  <2> QED
    BY <2>1, <2>2, <1>1, <1>2 DEF Valid, Places
<1>3. CASE p[1] >= Len(ls)
  <2>1. Clip(p, ls) = <<Len(ls) - 1, Last(ls).len>>
    BY <1>1, <1>3 DEF Clip
  <2>2. Last(ls).len \in Nat /\ (Len(ls) - 1) + 1 = Len(ls)
    BY <1>1
  <2> QED
    BY <2>1, <2>2, <1>1, <1>3 DEF Valid, Places, LesserOf
<1>4. CASE p[1] \in 0..Len(ls) - 1
  <2> DEFINE len == ls[p[1] + 1].len
             ch == GreaterOf(0, LesserOf(p[2], len))
  <2>1. Clip(p, ls) = <<p[1], ch>>
    BY <1>1, <1>4 DEF Clip
  <2>2. len \in Nat
    BY <1>1, <1>4
  <2> HIDE DEF len
  <2>3. ch \in 0..len /\ (p[2] \in 0..len => ch = p[2])
    BY <2>2, <1>1 DEF GreaterOf, LesserOf
  <2> HIDE DEF ch
  <2>4. Valid(<<p[1], ch>>, ls) /\ <<p[1], ch>> \in Places
    BY <2>2, <2>3, <1>1, <1>4 DEF Valid, Places, len
  <2>5. Valid(p, ls) => p[2] \in 0..len
    BY DEF Valid, len
  <2> QED
    BY <2>1, <2>3, <2>4, <2>5, <1>1, <1>4 DEF LesserOf
<1> QED
  BY <1>1, <1>2, <1>3, <1>4

LEMMA EndsAreSet ==
  ASSUME NEW s \in Settings, NEW p \in Places, NEW to, to = Null \/ to \in Places
  PROVE  LET r == SetEnds(s, p, to)
         IN  /\ r \in Settings /\ r.lines = s.lines
             /\ to = Null => r.threw
             /\ to # Null => /\ r.sel.from = p /\ r.sel.to = to
                             /\ r.sel.inverted => p # to
<1> DEFINE inv == CASE p = to \/ p = s.sel.to -> FALSE
                    [] p # to /\ p # s.sel.to /\ to = s.sel.from -> TRUE
                    [] OTHER -> s.sel.inverted
           new == [from |-> p, to |-> to, inverted |-> inv]
           r == SetEnds(s, p, to)
<1>1. /\ s = [lines |-> s.lines, sel |-> s.sel, threw |-> s.threw]
      /\ s.lines \in Documents /\ s.sel \in Ranges /\ s.threw \in BOOLEAN /\ s.sel.inverted \in BOOLEAN
  BY DEF Settings, Ranges
<1>2. CASE to = Null
  <2>1. r = [lines |-> s.lines, sel |-> s.sel, threw |-> TRUE]
    BY <1>1, <1>2 DEF SetEnds
  <2> QED
    BY <2>1, <1>1, <1>2 DEF Settings
<1>3. CASE to # Null
  <2>1. r = [lines |-> s.lines, sel |-> new, threw |-> s.threw]
    BY <1>1, <1>3 DEF SetEnds
  <2>2. inv \in BOOLEAN /\ (inv => p # to)
    <3>1. CASE p = to \/ p = s.sel.to
      BY <3>1
    <3>2. CASE ~(p = to \/ p = s.sel.to)
      BY <3>2, <1>1
    <3> QED
      BY <3>1, <3>2
  <2> HIDE DEF inv
  <2>3. new \in Ranges /\ new.from = p /\ new.to = to /\ new.inverted = inv
    BY <2>2, <1>3 DEF Ranges
  <2> HIDE DEF new
  <2>4. r \in Settings /\ r.lines = s.lines /\ r.sel = new
    BY <2>1, <2>3, <1>1 DEF Settings
  <2> QED
    BY <2>2, <2>3, <2>4, <1>3
<1> QED
  BY <1>2, <1>3 DEF r

LEMMA SecondEndIsSet ==
  ASSUME NEW s \in Settings, NEW p \in Places, NEW q \in Places, Valid(q, s.lines), NEW oldTo \in Int
  PROVE  LET r == SetTo(s, p, q, oldTo)
         IN  /\ r \in Settings /\ r.lines = s.lines
             /\ ~r.threw => /\ r.sel.from = p /\ Valid(r.sel.to, s.lines)
                            /\ r.sel.inverted => r.sel.from # r.sel.to
                            /\ r.sel.to # q => s.lines[q[1] + 1].hidden
<1> DEFINE to == IF q[1] # oldTo THEN SkipHidden(s.lines, q, oldTo, s.sel.to[2]) ELSE q
           r == SetTo(s, p, q, oldTo)
<1>1. s.lines \in Documents /\ s.sel.to[2] \in Int
  BY DEF Settings, Ranges, Places
<1>2. /\ to = Null \/ (to \in Places /\ Valid(to, s.lines))
      /\ ~s.lines[q[1] + 1].hidden => to = q
  BY <1>1, Skips
<1>3. r = SetEnds(s, p, to)
  BY DEF SetTo
<1> HIDE DEF to, r
<1>4. s.lines[q[1] + 1].hidden \in BOOLEAN
  BY <1>1, Indexed
<1>5. /\ r \in Settings /\ r.lines = s.lines
      /\ to = Null => r.threw
      /\ to # Null => /\ r.sel.from = p /\ r.sel.to = to
                      /\ r.sel.inverted => p # to
  <2>1. LET u == SetEnds(s, p, to)
        IN  /\ u \in Settings /\ u.lines = s.lines
            /\ to = Null => u.threw
            /\ to # Null => /\ u.sel.from = p /\ u.sel.to = to
                            /\ u.sel.inverted => p # to
    BY <1>2, EndsAreSet
  <2> QED
    BY <1>3, <2>1
<1>6. CASE to = Null
  BY <1>5, <1>6 DEF r
<1>7. CASE to # Null
  BY <1>2, <1>4, <1>5, <1>7 DEF r
<1> QED
  BY <1>6, <1>7

(* What setting both ends comes to, for the ordered ends p and q of which    *)
(* `from` is left of the first.                                              *)
BothSet(r, s, p, q, from) ==
  /\ r \in Settings /\ SameLengths(r.lines, s.lines)
  /\ ~r.threw => /\ Valid(r.sel.from, r.lines) /\ Valid(r.sel.to, r.lines)
                 /\ r.sel.inverted => r.sel.from # r.sel.to
                 /\ r.sel.from = IF from = Null THEN p ELSE from
                 /\ r.sel.to # q => r.lines[q[1] + 1].hidden
  /\ from # Null => r.lines = s.lines

LEMMA BothEndsAreSet ==
  ASSUME NEW s \in Settings, NEW p \in Places, NEW q \in Places, Valid(p, s.lines), Valid(q, s.lines),
         NEW from, from = Null \/ (from \in Places /\ Valid(from, s.lines)), NEW oldTo \in Int
  PROVE  BothSet(SetFrom(s, p, q, from, oldTo), s, p, q, from)
<1> DEFINE r == SetFrom(s, p, q, from, oldTo)
<1>1. s.lines \in Documents
  BY DEF Settings
<1>2. /\ Len(s.lines) \in Nat \ {0} /\ DOMAIN s.lines = 1..Len(s.lines)
      /\ \A i \in 1..Len(s.lines) : s.lines[i] \in LineObjects /\ s.lines[i].len \in Nat /\ s.lines[i].hidden \in BOOLEAN
  BY <1>1, LineOf
<1>3. CASE from = Null
  <2> DEFINE k == p[1] + 1
             ls == [s.lines EXCEPT ![k].hidden = FALSE]
             t == [s EXCEPT !.lines = ls]
  <2>1. r = SetTo(t, p, q, oldTo)
    BY <1>3 DEF SetFrom
  <2>2. k \in 1..Len(s.lines)
    BY <1>2 DEF Valid
  <2> HIDE DEF k
  <2>3. ls \in Documents /\ SameLengths(ls, s.lines)
    <3>1. [s.lines[k] EXCEPT !.hidden = FALSE] \in LineObjects /\ [s.lines[k] EXCEPT !.hidden = FALSE].len = s.lines[k].len
      BY <1>2, <2>2 DEF LineObjects
    <3>2. ls = [s.lines EXCEPT ![k] = [s.lines[k] EXCEPT !.hidden = FALSE]]
      OBVIOUS
    <3>3. ls \in Seq(LineObjects) /\ Len(ls) = Len(s.lines)
      BY <1>1, <2>2, <3>1, <3>2 DEF Documents
    <3>4. \A i \in 1..Len(s.lines) : ls[i].len = s.lines[i].len
      BY <1>2, <2>2, <3>1, <3>2
    <3>5. ls # <<>>
      BY <1>2, <3>3, EmptySeq
    <3> HIDE DEF ls
    <3> QED
      BY <3>3, <3>4, <3>5 DEF Documents, SameLengths
  <2> HIDE DEF ls
  <2>4. t \in Settings /\ t.lines = ls
    BY <2>3 DEF Settings
  <2> HIDE DEF t
  <2>5. \A z \in Places : Valid(z, s.lines) => Valid(z, ls)
    BY <2>3, <1>1, Refits
  <2>6. Valid(q, t.lines) /\ Valid(p, t.lines)
    BY <2>4, <2>5
  <2>7. /\ r \in Settings /\ r.lines = t.lines
        /\ ~r.threw => /\ r.sel.from = p /\ Valid(r.sel.to, t.lines)
                       /\ r.sel.inverted => r.sel.from # r.sel.to
                       /\ r.sel.to # q => t.lines[q[1] + 1].hidden
    <3>1. LET u == SetTo(t, p, q, oldTo)
          IN  /\ u \in Settings /\ u.lines = t.lines
              /\ ~u.threw => /\ u.sel.from = p /\ Valid(u.sel.to, t.lines)
                             /\ u.sel.inverted => u.sel.from # u.sel.to
                             /\ u.sel.to # q => t.lines[q[1] + 1].hidden
      <4>1. t \in Settings /\ p \in Places /\ q \in Places /\ Valid(q, t.lines) /\ oldTo \in Int
        BY <2>4, <2>6
      <4> QED
        BY <4>1, SecondEndIsSet
    <3> QED
      BY <2>1, <3>1
  <2> QED
    BY <2>3, <2>4, <2>6, <2>7, <1>3 DEF r, BothSet
<1>4. CASE from # Null
  <2>1. r = SetTo(s, from, q, oldTo)
    BY <1>4 DEF SetFrom
  <2>2. /\ r \in Settings /\ r.lines = s.lines
        /\ ~r.threw => /\ r.sel.from = from /\ Valid(r.sel.to, s.lines)
                       /\ r.sel.inverted => r.sel.from # r.sel.to
                       /\ r.sel.to # q => s.lines[q[1] + 1].hidden
    BY <2>1, <1>4, SecondEndIsSet
  <2>3. SameLengths(r.lines, s.lines)
    BY <2>2 DEF SameLengths
  <2> QED
    BY <2>2, <2>3, <1>4 DEF r, BothSet
<1> QED
  BY <1>3, <1>4

LEMMA SelectionIsSet ==
  ASSUME NEW s \in Settings, NEW a \in Places, NEW b \in Places, Valid(a, s.lines), Valid(b, s.lines),
         NEW oldFrom \in Int, NEW oldTo \in Int,
         (s.sel.from = a /\ s.sel.to = b) => Sound(s.sel, s.lines)
  PROVE  LET r == SetSelection(s, a, b, oldFrom, oldTo)
         IN  /\ r \in Settings /\ SameLengths(r.lines, s.lines)
             /\ r.threw \/ Crossed(r) \/ Sound(r.sel, r.lines)
             /\ (~Less(b, a) /\ (a[1] = oldFrom \/ ~s.lines[a[1] + 1].hidden)) =>
                   r.threw \/ (r.sel.from = a /\ r.lines = s.lines)
<1> DEFINE r == SetSelection(s, a, b, oldFrom, oldTo)
           p == IF Less(b, a) THEN b ELSE a
           q == IF Less(b, a) THEN a ELSE b
           from == IF p[1] # oldFrom THEN SkipHidden(s.lines, p, oldFrom, s.sel.from[2]) ELSE p
<1>1. s.lines \in Documents /\ s.sel.from[2] \in Int
  BY DEF Settings, Ranges, Places
<1>2. CASE s.sel.from = a /\ s.sel.to = b
  <2>1. r = s
    BY <1>2 DEF SetSelection
  <2>2. SameLengths(s.lines, s.lines)
    BY DEF SameLengths
  <2> QED
    BY <2>1, <2>2, <1>2 DEF r
<1>3. CASE ~(s.sel.from = a /\ s.sel.to = b)
  <2>1. p \in Places /\ q \in Places /\ Valid(p, s.lines) /\ Valid(q, s.lines)
    OBVIOUS
  <2>2. ~Less(q, p)
    BY DEF Less, Places
  <2>3. /\ from = Null \/ (from \in Places /\ Valid(from, s.lines))
        /\ ~s.lines[p[1] + 1].hidden => from = p
    BY <1>1, <2>1, Skips
  <2>4. r = SetOrdered(s, p, q, oldFrom, oldTo)
    BY <1>3 DEF SetSelection
  <2>5. ~Less(b, a) => p = a
    OBVIOUS
  <2>6. p[1] = oldFrom => from = p
    OBVIOUS
  <2>7. r = SetFrom(s, p, q, from, oldTo)
    <3>1. Valid(<<p[1], 0>>, s.lines) /\ Valid(<<q[1], 0>>, s.lines)
      BY <1>1, <2>1, Indexed
    <3> QED
      BY <2>4, <3>1 DEF SetOrdered
  <2> HIDE DEF r, p, q, from
  <2>8. /\ r \in Settings /\ SameLengths(r.lines, s.lines)
        /\ ~r.threw => /\ Valid(r.sel.from, r.lines) /\ Valid(r.sel.to, r.lines)
                       /\ r.sel.inverted => r.sel.from # r.sel.to
                       /\ from # Null => r.sel.from = from
                       /\ from = Null => r.sel.from = p
                       /\ r.sel.to # q => r.lines[q[1] + 1].hidden
        /\ from # Null => r.lines = s.lines
    <3>1. BothSet(SetFrom(s, p, q, from, oldTo), s, p, q, from)
      BY <2>1, <2>3, BothEndsAreSet
    <3> QED
      BY <2>7, <3>1 DEF BothSet
  <2>9. r.lines \in Documents /\ DOMAIN r.lines = 1..Len(r.lines) /\ Len(r.lines) = Len(s.lines)
    BY <2>8, LineOf DEF Settings, SameLengths
  <2>10. p # Null
    <3>1. \A x, y \in Int : <<x, y>> # <<>>
      OBVIOUS
    <3>2. \A z \in Places : z = <<z[1], z[2]>> /\ z[1] \in Int /\ z[2] \in Int
      BY DEF Places
    <3> QED
      BY <2>1, <3>1, <3>2 DEF Null
  <2>11. ASSUME ~r.threw, Less(r.sel.to, r.sel.from)
         PROVE  \E i \in DOMAIN r.lines : r.lines[i].hidden
    <3>1. CASE r.sel.to # q
      <4>1. q[1] + 1 \in DOMAIN r.lines
        BY <1>1, <2>1, <2>9, Indexed, LineOf
      <4> QED
        BY <3>1, <4>1, <2>8, <2>11
    <3>2. CASE r.sel.to = q
      <4>1. r.sel.from # p
        BY <3>2, <2>2, <2>11
      <4>2. from # Null /\ from # p
        BY <4>1, <2>8, <2>11
      <4>3. s.lines[p[1] + 1].hidden /\ r.lines = s.lines
        <5>1. s.lines[p[1] + 1].hidden \in BOOLEAN
          BY <1>1, <2>1, Indexed
        <5> QED
          BY <4>2, <5>1, <2>3, <2>8
      <4>4. p[1] + 1 \in DOMAIN r.lines
        BY <1>1, <2>1, <2>9, Indexed, LineOf
      <4> QED
        BY <4>3, <4>4
    <3> QED
      BY <3>1, <3>2
  <2>12. r.threw \/ Crossed(r) \/ Sound(r.sel, r.lines)
    BY <2>8, <2>11 DEF Crossed, Sound
  <2>13. ASSUME ~Less(b, a), a[1] = oldFrom \/ ~s.lines[a[1] + 1].hidden, ~r.threw
         PROVE  r.sel.from = a /\ r.lines = s.lines
    <3>1. p = a
      BY <2>5, <2>13 DEF p
    <3>2. from = p
      BY <3>1, <2>3, <2>6, <2>13
    <3> QED
      BY <3>1, <3>2, <2>8, <2>10, <2>13
  <2> QED
    BY <2>8, <2>12, <2>13 DEF r
<1> QED
  BY <1>2, <1>3
-----------------------------------------------------------------------------
(* The document after a replacement: what is in front of the range and what  *)
(* is behind it is kept, and the line it ends in keeps the text behind it.   *)
Edited(ls, from, to, code) ==
  LET diff == Len(code) - (to[1] - from[1]) - 1
      last == from[1] + Len(code)
  IN  /\ ls \in Documents /\ Len(ls) = Len(lines) + diff
      /\ \A i \in 1..from[1] : ls[i] = lines[i]
      /\ ls[from[1] + 1].len >= from[2]
      /\ \A i \in to[1] + 2..Len(lines) : ls[i + diff] = lines[i]
      /\ ls[last].len = EndOf(from, code)[2] + (lines[to[1] + 1].len - to[2])
      /\ ((from[1] = to[1]) <=> (Len(code) = 1)) => ls[last].hidden = lines[to[1] + 1].hidden

(* The new lines, between those that stay. *)
Between(new, from, to, code) ==
  /\ new \in Seq(LineObjects) /\ Len(new) = Len(code)
  /\ new[1].len >= from[2]
  /\ new[Len(code)].len = EndOf(from, code)[2] + (lines[to[1] + 1].len - to[2])
  /\ ((from[1] = to[1]) <=> (Len(code) = 1)) => new[Len(code)].hidden = lines[to[1] + 1].hidden

LEMMA OneMore ==
  ASSUME NEW S, NEW g \in Seq(S), NEW x \in S
  PROVE  LET q == g \o <<x>>
         IN  /\ q \in Seq(S) /\ Len(q) = Len(g) + 1 /\ q[Len(g) + 1] = x
             /\ \A i \in 1..Len(g) : q[i] = g[i]
<1> DEFINE y == <<x>>
<1>1. y \in Seq(S) /\ Len(y) = 1 /\ y[1] = x
  OBVIOUS
<1> HIDE DEF y
<1>2. y \in Seq(S)
  BY <1>1
<1>3. /\ Len(g \o y) = Len(g) + Len(y)
      /\ \A k \in 1..Len(g) : (g \o y)[k] = g[k]
      /\ \A k \in 1..Len(y) : (g \o y)[Len(g) + k] = y[k]
  BY <1>2, Appending
<1>4. g \o y \in Seq(S)
  BY <1>2
<1> QED
  BY <1>1, <1>3, <1>4 DEF y

LEMMA LinesAreReplaced ==
  ASSUME lines \in Documents, NEW from \in Places, NEW to \in Places, Valid(from, lines), Valid(to, lines),
         ~Less(to, from), NEW code \in Seq(Nat) \ {<<>>}
  PROVE  Edited(LinesAfter(from, to, code), from, to, code)
<1> DEFINE shown(n)  == [len |-> n, hidden |-> FALSE]
           N == Len(code)
           a == from[1]
           b == to[1]
           head == lines[a + 1]
           tail == lines[b + 1]
           rest == tail.len - to[2]
           whole == from[2] = 0 /\ to[2] = 0 /\ Last(code) = 0
           lastLen == rest + Last(code) + (IF N = 1 THEN from[2] ELSE 0)
           lastLine == [len |-> lastLen, hidden |-> a # b /\ tail.hidden]
           short == [i \in 1..N - 1 |-> shown(code[i])] \o <<tail>>
           joined == [head EXCEPT !.len = lastLen]
           first == [head EXCEPT !.len = from[2] + code[1]]
           middle == [i \in 1..N - 2 |-> shown(code[i + 1])]
           long == <<first>> \o middle \o <<lastLine>>
           new == CASE whole -> short
                    [] ~whole /\ N = 1 -> <<joined>>
                    [] OTHER -> long
<1>1. /\ N \in Nat \ {0} /\ DOMAIN code = 1..N /\ Last(code) = code[N] /\ \A i \in 1..N : code[i] \in Nat
      /\ Last(code) \in Nat /\ code[1] \in Nat
  BY EmptySeq DEF Last
<1>2. /\ Len(lines) \in Nat \ {0} /\ a \in 0..Len(lines) - 1 /\ b \in 0..Len(lines) - 1 /\ a <= b /\ a \in Nat /\ b \in Nat
      /\ from[2] \in Nat /\ to[2] \in Nat /\ (a = b => from[2] <= to[2])
  BY LineOf DEF Valid, Less
<1>3. head \in LineObjects /\ tail \in LineObjects /\ to[2] <= tail.len /\ from[2] <= head.len /\ tail.len \in Nat
  <2>1. a + 1 \in 1..Len(lines) /\ b + 1 \in 1..Len(lines)
    BY <1>2
  <2> QED
    BY <2>1, LineOf DEF Valid
<1>4. rest \in Nat /\ lastLen \in Nat
  <2>1. rest \in Nat
    <3> HIDE DEF tail
    <3> QED
      BY <1>2, <1>3
  <2> HIDE DEF rest
  <2> QED
    BY <2>1, <1>1, <1>2
<1>5. /\ EndOf(from, code)[2] = IF N = 1 THEN from[2] + code[1] ELSE Last(code)
      /\ EndOf(from, code) = <<a + N - 1, IF N = 1 THEN from[2] + code[1] ELSE Last(code)>>
  BY DEF EndOf
<1>6. LinesAfter(from, to, code) = SubSeq(lines, 1, a) \o new \o SubSeq(lines, b + 2, Len(lines))
  BY DEF LinesAfter
<1>6a. lastLen = EndOf(from, code)[2] + rest
  <2> HIDE DEF rest, N
  <2>1. N = 1 => Last(code) = code[1]
    BY <1>1
  <2>2. CASE N = 1
    <3>1. EndOf(from, code)[2] = from[2] + code[1] /\ lastLen = rest + code[1] + from[2]
      BY <2>1, <2>2, <1>5
    <3> QED
      BY <3>1, <1>1, <1>2, <1>4
  <2>3. CASE N # 1
    <3>1. EndOf(from, code)[2] = Last(code) /\ lastLen = rest + Last(code) + 0
      BY <2>3, <1>5
    <3> QED
      BY <3>1, <1>1, <1>4
  <2> QED
    BY <2>2, <2>3
<1>7. /\ joined \in LineObjects /\ joined.len = lastLen /\ joined.hidden = head.hidden
      /\ first \in LineObjects /\ first.len = from[2] + code[1]
      /\ lastLine \in LineObjects /\ lastLine.len = lastLen /\ (a # b => lastLine.hidden = tail.hidden)
      /\ \A n \in Nat : shown(n) \in LineObjects
  <2> HIDE DEF lastLen, head, tail
  <2>1. head = [len |-> head.len, hidden |-> head.hidden] /\ head.hidden \in BOOLEAN /\ tail.hidden \in BOOLEAN
    BY <1>3 DEF LineObjects
  <2>2. from[2] + code[1] \in Nat
    BY <1>1, <1>2
  <2> QED
    BY <2>1, <2>2, <1>4 DEF LineObjects
<1> HIDE DEF joined, first, lastLine
<1>8. whole => Between(short, from, to, code)
  <2> SUFFICES ASSUME whole PROVE Between(short, from, to, code)
    OBVIOUS
  <2> DEFINE f == [i \in 1..N - 1 |-> shown(code[i])]
  <2>1. N - 1 \in Nat /\ \A i \in 1..N - 1 : f[i] \in LineObjects /\ f[i].len \in Nat
    <3>1. \A i \in 1..N - 1 : i \in 1..N
      BY <1>1
    <3> HIDE DEF N
    <3>2. \A i \in 1..N - 1 : f[i] = shown(code[i]) /\ code[i] \in Nat
      BY <3>1, <1>1 DEF N
    <3>3. N - 1 \in Nat
      BY <1>1 DEF N
    <3> QED
      BY <3>2, <3>3, <1>7
  <2>2. f \in Seq(LineObjects) /\ Len(f) = N - 1
    <3> DEFINE g == [i \in 1..N - 1 |-> f[i]]
    <3>1. f = g
      OBVIOUS
    <3> HIDE DEF f, N
    <3>2. g \in Seq(LineObjects) /\ Len(g) = N - 1
      BY <2>1
    <3> QED
      BY <3>1, <3>2
  <2>3. short = f \o <<tail>>
    OBVIOUS
  <2> HIDE DEF short
  <2>4. /\ short \in Seq(LineObjects) /\ Len(short) = N /\ short[N] = tail
        /\ \A i \in 1..N - 1 : short[i] = f[i]
    <3> HIDE DEF f, tail, N
    <3>1. f \in Seq(LineObjects) /\ tail \in LineObjects
      BY <2>2, <1>3
    <3>2. LET q == f \o <<tail>>
          IN  /\ q \in Seq(LineObjects) /\ Len(q) = Len(f) + 1 /\ q[Len(f) + 1] = tail
              /\ \A i \in 1..Len(f) : q[i] = f[i]
      BY <3>1, OneMore
    <3>3. Len(f) + 1 = N /\ Len(f) = N - 1
      BY <2>2, <1>1 DEF N
    <3> QED
      BY <3>2, <3>3, <2>3
  <2>5. short[1].len >= from[2]
    <3> HIDE DEF N, tail, f
    <3>1. CASE N = 1
      <4>1. short[1] = tail /\ from[2] = 0
        BY <3>1, <2>4
      <4> QED
        BY <4>1, <1>3
    <3>2. CASE N # 1
      <4>1. 1 \in 1..N - 1
        BY <3>2, <1>1
      <4> QED
        BY <4>1, <2>1, <2>4
    <3> QED
      BY <3>1, <3>2
  <2>6. tail.len = EndOf(from, code)[2] + rest
    <3>1. EndOf(from, code)[2] = 0
      BY <1>1, <1>5
    <3> QED
      BY <3>1, <1>3
  <2> QED
    BY <2>4, <2>5, <2>6 DEF Between
<1>9. N = 1 => Between(<<joined>>, from, to, code)
  <2> SUFFICES ASSUME N = 1 PROVE Between(<<joined>>, from, to, code)
    OBVIOUS
  <2>1. <<joined>> \in Seq(LineObjects) /\ Len(<<joined>>) = 1 /\ <<joined>>[1] = joined
    BY <1>7
  <2>2. joined.len >= from[2] /\ joined.len = EndOf(from, code)[2] + rest
    <3> HIDE DEF rest
    <3>1. joined.len = EndOf(from, code)[2] + rest /\ EndOf(from, code)[2] = from[2] + code[1]
      BY <1>5, <1>6a, <1>7
    <3> QED
      BY <3>1, <1>1, <1>2, <1>4
  <2>3. a = b => joined.hidden = tail.hidden
    BY <1>7
  <2> QED
    BY <2>1, <2>2, <2>3 DEF Between
<1>10. N # 1 => Between(long, from, to, code)
  <2> SUFFICES ASSUME N # 1 PROVE Between(long, from, to, code)
    OBVIOUS
  <2> DEFINE x == <<first>> \o middle
             y == <<lastLine>>
  <2>1. N - 2 \in Nat /\ \A i \in 1..N - 2 : i + 1 \in 1..N
    BY <1>1
  <2>2. middle \in Seq(LineObjects) /\ Len(middle) = N - 2
    <3> HIDE DEF N
    <3>1. \A i \in 1..N - 2 : shown(code[i + 1]) \in LineObjects
      <4>1. \A i \in 1..N - 2 : code[i + 1] \in Nat
        BY <2>1, <1>1 DEF N
      <4> QED
        BY <4>1, <1>7
    <3> HIDE DEF shown
    <3> QED
      BY <2>1, <3>1
  <2> HIDE DEF middle
  <2>3. <<first>> \in Seq(LineObjects) /\ Len(<<first>>) = 1 /\ <<first>>[1] = first /\ 1 \in 1..Len(<<first>>)
    BY <1>7
  <2>4. y \in Seq(LineObjects) /\ Len(y) = 1 /\ y[1] = lastLine /\ 1 \in 1..Len(y)
    BY <1>7
  <2>5. x \in Seq(LineObjects) /\ Len(x) = N - 1 /\ x[1] = first
    <3> DEFINE w == <<first>>
    <3>0. w \in Seq(LineObjects) /\ Len(w) = 1 /\ w[1] = first /\ 1 \in 1..Len(w)
      BY <2>3
    <3> HIDE DEF w
    <3>1. /\ Len(w \o middle) = Len(w) + Len(middle)
          /\ \A k \in 1..Len(w) : (w \o middle)[k] = w[k]
      BY <2>2, <3>0, Appending
    <3>2. w \o middle \in Seq(LineObjects)
      BY <2>2, <3>0
    <3>3. Len(w) + Len(middle) = N - 1
      BY <3>0, <2>1, <2>2
    <3> QED
      BY <3>0, <3>1, <3>2, <3>3 DEF w
  <2> HIDE DEF x, y
  <2>6. long = x \o y
    BY DEF x, y
  <2>7. /\ Len(x \o y) = Len(x) + Len(y)
        /\ \A k \in 1..Len(x) : (x \o y)[k] = x[k]
        /\ \A k \in 1..Len(y) : (x \o y)[Len(x) + k] = y[k]
    <3>1. x \in Seq(LineObjects) /\ y \in Seq(LineObjects)
      BY <2>4, <2>5
    <3> QED
      BY <3>1, Appending
  <2>8. x \o y \in Seq(LineObjects)
    BY <2>4, <2>5
  <2> HIDE DEF long
  <2>9. long \in Seq(LineObjects) /\ Len(long) = N /\ long[1] = first /\ long[N] = lastLine
    <3>1. Len(x) + Len(y) = N /\ Len(x) + 1 = N /\ 1 \in 1..Len(x)
      BY <1>1, <2>1, <2>4, <2>5
    <3> QED
      BY <3>1, <2>4, <2>5, <2>6, <2>7, <2>8
  <2>10. first.len >= from[2] /\ lastLine.len = EndOf(from, code)[2] + rest /\ (a # b => lastLine.hidden = tail.hidden)
    BY <1>1, <1>2, <1>6a, <1>7
  <2> QED
    BY <2>9, <2>10 DEF Between
<1> HIDE DEF short, long
<1>11. Between(new, from, to, code)
  <2>1. CASE whole
    BY <2>1, <1>8
  <2>2. CASE ~whole /\ N = 1
    BY <2>2, <1>9
  <2>3. CASE ~whole /\ N # 1
    BY <2>3, <1>10
  <2> QED
    BY <2>1, <2>2, <2>3
<1> HIDE DEF new
<1> DEFINE ls == SubSeq(lines, 1, a) \o new \o SubSeq(lines, (b + 1) + 1, Len(lines))
<1>12. Replaced(LineObjects, ls, lines, a, b + 1, new)
  <2>1. lines \in Seq(LineObjects) /\ b + 1 \in Nat /\ a <= b + 1 /\ b + 1 <= Len(lines) /\ a \in Nat
    BY <1>2 DEF Documents
  <2>2. new \in Seq(LineObjects)
    BY <1>11 DEF Between
  <2> HIDE DEF a, b
  <2> QED
    BY <2>1, <2>2, Spliced
<1>13. LinesAfter(from, to, code) = ls
  <2>1. b + 2 = (b + 1) + 1
    BY <1>2
  <2> QED
    BY <1>6, <2>1
<1> HIDE DEF ls
<1>14. Edited(ls, from, to, code)
  <2> DEFINE diff == N - (b - a) - 1
             last == a + N
  <2>0. /\ new \in Seq(LineObjects) /\ Len(new) = N
        /\ new[1].len >= from[2]
        /\ new[N].len = EndOf(from, code)[2] + (lines[to[1] + 1].len - to[2])
        /\ ((from[1] = to[1]) <=> (N = 1)) => new[N].hidden = lines[to[1] + 1].hidden
    BY <1>11 DEF Between
  <2>1. /\ ls \in Seq(LineObjects) /\ Len(ls) = a + N + (Len(lines) - (b + 1))
        /\ \A i \in 1..a : ls[i] = lines[i]
        /\ \A i \in 1..N : ls[a + i] = new[i]
        /\ \A i \in 1..Len(lines) - (b + 1) : ls[(a + N) + i] = lines[(b + 1) + i]
    BY <1>12, <2>0 DEF Replaced
  <2>2. Len(ls) = Len(lines) + diff /\ Len(ls) > 0 /\ 1 \in 1..N /\ N \in 1..N
    <3> HIDE DEF N, a, b
    <3>1. N \in Nat \ {0} /\ Len(lines) \in Nat /\ a \in Nat /\ b \in 0..Len(lines) - 1 /\ Len(ls) = a + N + (Len(lines) - (b + 1))
      BY <2>1, <1>1, <1>2
    <3> QED
      BY <3>1
  <2>3. ls \in Documents
    BY <2>1, <2>2, EmptySeq DEF Documents
  <2>4. ls[a + 1] = new[1] /\ ls[last] = new[N]
    BY <2>1, <2>2
  <2>5. ASSUME NEW i \in b + 2..Len(lines)
        PROVE  ls[i + diff] = lines[i]
    <3> DEFINE k == i - (b + 1)
    <3>1. k \in 1..Len(lines) - (b + 1) /\ (a + N) + k = i + diff /\ (b + 1) + k = i
      <4> HIDE DEF N, a, b
      <4>1. N \in Nat \ {0} /\ Len(lines) \in Nat /\ a \in Nat /\ b \in 0..Len(lines) - 1 /\ i \in Nat
        BY <1>1, <1>2
      <4> QED
        BY <4>1
    <3> HIDE DEF k, diff
    <3> QED
      BY <2>1, <3>1
  <2> QED
    BY <2>0, <2>1, <2>2, <2>3, <2>4, <2>5 DEF Edited
<1> QED
  BY <1>13, <1>14

-----------------------------------------------------------------------------
(* An edit sets the selection in the document it leaves.                     *)
MovedLine(n, last, diff) == IF n <= LesserOf(last, last + diff) THEN n ELSE n + diff

Updated(r, ls, a, b, oldFrom) ==
  /\ r \in Settings /\ SameLengths(r.lines, ls)
  /\ r.threw \/ Crossed(r) \/ Sound(r.sel, r.lines)
  /\ (~Less(b, a) /\ (a[1] = oldFrom \/ ~ls[a[1] + 1].hidden)) => r.threw \/ (r.sel.from = a /\ r.lines = ls)

LEMMA TextIsUpdated ==
  ASSUME lines \in Documents, sel \in Ranges, Sound(sel, lines),
         NEW from \in Places, NEW to \in Places, Valid(from, lines), Valid(to, lines), ~Less(to, from),
         NEW code \in Seq(Nat) \ {<<>>}, NEW selFrom \in Places, NEW selTo \in Places
  PROVE  LET ls == LinesAfter(from, to, code)
         IN  /\ Edited(ls, from, to, code)
             /\ Updated(UpdateText(from, to, code, selFrom, selTo), ls, Clip(selFrom, ls), Clip(selTo, ls),
                        MovedLine(sel.from[1], to[1], Len(code) - (to[1] - from[1]) - 1))
<1> DEFINE ls == LinesAfter(from, to, code)
           diff == Len(code) - (to[1] - from[1]) - 1
           a == Clip(selFrom, ls)
           b == Clip(selTo, ls)
           s == [Now EXCEPT !.lines = ls]
           oldFrom == MovedLine(sel.from[1], to[1], diff)
           oldTo == MovedLine(sel.to[1], to[1], diff)
           r == UpdateText(from, to, code, selFrom, selTo)
<1>1. Edited(ls, from, to, code) /\ ls \in Documents
  BY LinesAreReplaced DEF Edited
<1>2. r = SetSelection(s, a, b, oldFrom, oldTo)
  BY DEF UpdateText, UpdateSelection, MovedLine
<1>3. Len(code) \in Nat /\ to[1] \in Int /\ from[1] \in Int /\ sel.from[1] \in Int /\ sel.to[1] \in Int
  BY DEF Places, Ranges
<1>4. diff \in Int
  BY <1>3
<1> HIDE DEF diff
<1>5. oldFrom \in Int /\ oldTo \in Int
  BY <1>3, <1>4 DEF MovedLine
<1> HIDE DEF ls, oldFrom, oldTo, r
<1>6. a \in Places /\ b \in Places /\ Valid(a, ls) /\ Valid(b, ls)
  BY <1>1, Clips
<1>7. s \in Settings /\ s.lines = ls /\ s.sel = sel
  BY <1>1 DEF Now, Settings
<1> HIDE DEF a, b, s
<1>8. (s.sel.from = a /\ s.sel.to = b) => Sound(s.sel, s.lines)
  BY <1>6, <1>7 DEF Sound
<1>9. Updated(SetSelection(s, a, b, oldFrom, oldTo), ls, a, b, oldFrom)
  <2>1. /\ s \in Settings /\ a \in Places /\ b \in Places /\ Valid(a, s.lines) /\ Valid(b, s.lines)
        /\ oldFrom \in Int /\ oldTo \in Int /\ ((s.sel.from = a /\ s.sel.to = b) => Sound(s.sel, s.lines))
    BY <1>5, <1>6, <1>7, <1>8
  <2>2. Updated(SetSelection(s, a, b, oldFrom, oldTo), s.lines, a, b, oldFrom)
    BY <2>1, SelectionIsSet DEF Updated
  <2> QED
    BY <2>2, <1>7
<1> QED
  BY <1>1, <1>2, <1>9 DEF ls, a, b, r, oldFrom, diff

LEMMA Adjusts ==
  ASSUME NEW p \in Places, NEW from \in Places, NEW to \in Places, NEW code \in Seq(Nat) \ {<<>>}
  PROVE  AdjustPos(p, from, to, code) \in Places /\ EndOf(from, code) \in Places
<1>1. /\ Len(code) \in Nat \ {0} /\ code[1] \in Nat /\ Last(code) \in Nat
  BY EmptySeq DEF Last
<1>2. /\ p[1] \in Int /\ p[2] \in Int /\ from[1] \in Int /\ from[2] \in Int /\ to[1] \in Int /\ to[2] \in Int
  BY DEF Places
<1>3. EndOf(from, code) \in Places
  BY <1>1, <1>2 DEF EndOf, Places
<1> DEFINE line == p[1] + Len(code) - (to[1] - from[1]) - 1
           shared == IF to[1] = from[1] THEN from[2] ELSE 0
           moved == IF p[1] # to[1] THEN 0 ELSE Last(code) - (to[2] - shared)
<1>4. <<line, p[2] + moved>> \in Places
  <2>1. line \in Int /\ shared \in Int
    <3>1. shared \in Int
      BY <1>2
    <3> DEFINE back == Len(code) - (to[1] - from[1]) - 1
    <3>2. back \in Int
      BY <1>1, <1>2
    <3> HIDE DEF back
    <3>3. p[1] + back \in Int
      BY <3>2, <1>2
    <3>4. line \in Int
      BY <3>3 DEF back
    <3> QED
      BY <3>1, <3>4
  <2> HIDE DEF line, shared
  <2>2. moved \in Int
    BY <2>1, <1>1, <1>2
  <2> HIDE DEF moved
  <2>3. p[2] + moved \in Int
    BY <2>2, <1>2
  <2> QED
    BY <2>1, <2>3 DEF Places
<1>5. Less(p, from) \in BOOLEAN /\ Less(to, p) \in BOOLEAN
  BY DEF Less
<1>6. /\ Less(p, from) => AdjustPos(p, from, to, code) = p
      /\ ~Less(p, from) /\ ~Less(to, p) => AdjustPos(p, from, to, code) = EndOf(from, code)
      /\ ~Less(p, from) /\ Less(to, p) => AdjustPos(p, from, to, code) = <<line, p[2] + moved>>
  BY DEF AdjustPos
<1> QED
  BY <1>3, <1>4, <1>5, <1>6

LEMMA SameBehind ==
  ASSUME NEW ls \in Documents, NEW kept \in Documents, NEW diff \in Int, NEW k \in Nat, k >= 1, k + diff \in Nat,
         k + diff >= 1, k <= Len(kept), Len(ls) = Len(kept) + diff, \A i \in k + 1..Len(kept) : ls[i + diff] = kept[i]
  PROVE  SubSeq(ls, (k + diff) + 1, Len(ls)) = SubSeq(kept, k + 1, Len(kept))
<1> DEFINE x == SubSeq(ls, (k + diff) + 1, Len(ls))
           y == SubSeq(kept, k + 1, Len(kept))
<1>1. Len(ls) \in Nat /\ Len(kept) \in Nat /\ ls \in Seq(LineObjects) /\ kept \in Seq(LineObjects)
  BY LineOf DEF Documents
<1>2. /\ y \in Seq(LineObjects) /\ Len(y) = Len(kept) - k
      /\ \A i \in 1..Len(kept) - k : y[i] = kept[k + i]
  BY <1>1, PartOf
<1>3. /\ x \in Seq(LineObjects) /\ Len(x) = Len(ls) - (k + diff)
      /\ \A i \in 1..Len(ls) - (k + diff) : x[i] = ls[(k + diff) + i]
  <2> DEFINE m == k + diff
             n == Len(ls)
  <2>1. m \in Nat /\ n \in Nat /\ m <= n
    BY <1>1
  <2> HIDE DEF m, n
  <2>2. /\ SubSeq(ls, m + 1, n) \in Seq(LineObjects) /\ Len(SubSeq(ls, m + 1, n)) = n - m
        /\ \A i \in 1..n - m : SubSeq(ls, m + 1, n)[i] = ls[m + i]
    <3>1. n <= Len(ls)
      BY <2>1 DEF n
    <3> QED
      BY <2>1, <3>1, <1>1, PartOf
  <2> QED
    BY <2>2 DEF m, n
<1>4. Len(x) = Len(y) /\ Len(y) = Len(kept) - k
  <2> HIDE DEF x, y
  <2> QED
    BY <1>1, <1>2, <1>3
<1> HIDE DEF x, y
<1>5. ASSUME NEW i \in 1..Len(y) PROVE x[i] = y[i]
  <2>1. k + i \in k + 1..Len(kept) /\ (k + diff) + i = (k + i) + diff /\ i \in 1..Len(kept) - k /\ i \in 1..Len(ls) - (k + diff)
    BY <1>1, <1>4
  <2> QED
    BY <2>1, <1>2, <1>3
<1>6. x = y
  BY <1>2, <1>3, <1>4, <1>5, SeqEqual
<1> QED
  BY <1>6 DEF x, y

(* A place behind the range, where an edit does not misplace it.             *)
LEMMA BehindStays ==
  ASSUME lines \in Documents, NEW from \in Places, NEW to \in Places, Valid(from, lines), Valid(to, lines),
         ~Less(to, from), NEW code \in Seq(Nat) \ {<<>>}, NEW ls, Edited(ls, from, to, code),
         NEW p \in Places, Valid(p, lines), Less(to, p),
         p[1] = to[1] => ((from[1] = to[1]) <=> (Len(code) = 1))
  PROVE  LET q == AdjustPos(p, from, to, code)
         IN  /\ Valid(q, ls) /\ q[1] = p[1] + (Len(code) - (to[1] - from[1]) - 1)
             /\ q[1] = from[1] => p[1] = to[1] /\ q[2] >= from[2]
             /\ q[1] >= from[1]
             /\ ls[q[1] + 1].hidden = lines[p[1] + 1].hidden
             /\ TextBehind(q, ls) = TextBehind(p, lines)
             /\ q[2] - p[2] = (IF p[1] = to[1] THEN EndOf(from, code)[2] - to[2] ELSE 0)
<1> DEFINE N == Len(code)
           a == from[1]
           b == to[1]
           D == N - (b - a) - 1
           E == EndOf(from, code)[2]
           q == AdjustPos(p, from, to, code)
           tail == lines[b + 1]
           p1 == p[1]
           p2 == p[2]
           f2 == from[2]
           t2 == to[2]
           c1 == code[1]
           cN == Last(code)
<1>1. /\ N \in Nat \ {0} /\ cN \in Nat /\ c1 \in Nat /\ (N = 1 => cN = c1)
  BY EmptySeq DEF Last
<1>2. /\ Len(lines) \in Nat \ {0} /\ a \in Nat /\ b \in Nat /\ b <= Len(lines) - 1 /\ a <= b
      /\ p1 \in b..Len(lines) - 1 /\ p2 \in Nat /\ f2 \in Nat /\ t2 \in Nat
      /\ p1 = b => p2 > t2
      /\ p2 <= lines[p1 + 1].len /\ lines[p1 + 1].len \in Nat
  <2>1. p1 + 1 \in 1..Len(lines)
    BY Indexed
  <2>2. lines[p1 + 1].len \in Nat
    BY <2>1, LineOf
  <2>3. Len(lines) \in Nat \ {0} /\ a \in Nat /\ b \in Nat /\ b <= Len(lines) - 1 /\ f2 \in Nat /\ t2 \in Nat
    BY LineOf DEF Valid
  <2>4. p1 \in 0..Len(lines) - 1 /\ p2 \in Nat /\ p2 <= lines[p1 + 1].len
    BY <2>2 DEF Valid
  <2>5. p1 >= b /\ (p1 = b => p2 > t2) /\ a <= b
    BY <2>3, <2>4 DEF Less
  <2> QED
    BY <2>2, <2>3, <2>4, <2>5
<1>3. /\ ls \in Documents /\ Len(ls) = Len(lines) + D
      /\ \A i \in b + 2..Len(lines) : ls[i + D] = lines[i]
      /\ ls[a + N].len = E + (tail.len - t2)
      /\ ((a = b) <=> (N = 1)) => ls[a + N].hidden = tail.hidden
  BY DEF Edited
<1>4. E = IF N = 1 THEN f2 + c1 ELSE cN
  BY DEF EndOf
<1>5. ~Less(p, from) /\ Less(to, p)
  BY <1>2 DEF Less
<1>6. q = <<p1 + N - (b - a) - 1,
            p2 + (IF p1 # b THEN 0 ELSE cN - (t2 - (IF b = a THEN f2 ELSE 0)))>>
  BY <1>5 DEF AdjustPos
<1>0. p[1] = p1 /\ p[2] = p2 /\ from[2] = f2 /\ to[2] = t2 /\ code[1] = c1 /\ Last(code) = cN
  OBVIOUS
<1> HIDE DEF q, N, a, b, E, p1, p2, f2, t2, c1, cN
<1>7. E \in Nat /\ (N = 1 => E >= f2) /\ D \in Int
  BY <1>1, <1>2, <1>4
<1>8. q[1] = p1 + D /\ q[1] >= a /\ q[1] \in 0..Len(ls) - 1
  <2>1. q[1] = p1 + N - (b - a) - 1
    BY <1>6
  <2> QED
    BY <2>1, <1>1, <1>2, <1>3
<1>8a. b + 1 + D = a + N /\ a \in Int /\ N >= 1
  BY <1>1, <1>2
<1> HIDE DEF D
<1>9. /\ q[2] \in Nat /\ q[2] - p2 = (IF p1 = b THEN E - t2 ELSE 0)
      /\ q[2] <= ls[q[1] + 1].len /\ ls[q[1] + 1].len \in Nat
      /\ ls[q[1] + 1].len - q[2] = lines[p1 + 1].len - p2
      /\ ls[q[1] + 1].hidden = lines[p1 + 1].hidden
      /\ q[1] = a => p1 = b /\ q[2] >= f2
  <2>1. CASE p1 = b
    <3>1. (a = b) <=> (N = 1)
      BY <2>1 DEF a, b, N, p1
    <3>2. q[2] = p2 + (cN - (t2 - (IF b = a THEN f2 ELSE 0)))
      BY <2>1, <1>6
    <3>3. q[2] = p2 + (E - t2)
      <4>1. CASE N = 1
        BY <4>1, <3>1, <3>2, <1>1, <1>2, <1>4
      <4>2. CASE N # 1
        BY <4>2, <3>1, <3>2, <1>1, <1>2, <1>4
      <4> QED
        BY <4>1, <4>2
    <3>4. q[1] + 1 = a + N
      BY <2>1, <1>1, <1>2, <1>7, <1>8, <1>8a
    <3>5. ls[q[1] + 1].len = E + (lines[p1 + 1].len - t2) /\ ls[q[1] + 1].hidden = lines[p1 + 1].hidden
      BY <2>1, <3>1, <3>4, <1>3
    <3>6. q[1] = a => N = 1
      BY <3>4, <1>1, <1>2
    <3> HIDE DEF tail
    <3>7. q[2] \in Nat /\ ls[q[1] + 1].len \in Nat /\ q[2] <= ls[q[1] + 1].len
          /\ q[2] - p2 = E - t2 /\ ls[q[1] + 1].len - q[2] = lines[p1 + 1].len - p2
      <4> DEFINE L == lines[p1 + 1].len
                 M == ls[q[1] + 1].len
      <4>1. M = E + (L - t2) /\ q[2] = p2 + (E - t2) /\ L \in Nat /\ p2 <= L /\ p2 > t2 /\ p2 \in Nat /\ t2 \in Nat /\ E \in Nat
        BY <2>1, <3>3, <3>5, <1>2, <1>7
      <4> HIDE DEF L, M
      <4>2. q[2] \in Nat /\ M \in Nat /\ q[2] <= M /\ q[2] - p2 = E - t2 /\ M - q[2] = L - p2
        BY <4>1
      <4> QED
        BY <4>2 DEF L, M
    <3>8. q[1] = a => q[2] >= f2
      BY <2>1, <3>3, <3>6, <1>2, <1>7
    <3> QED
      BY <2>1, <3>5, <3>7, <3>8
  <2>2. CASE p1 # b
    <3>1. q[2] = p2
      <4>1. q[2] = p2 + 0
        BY <2>2, <1>6
      <4> QED
        BY <4>1, <1>2
    <3>2. p1 + 1 \in b + 2..Len(lines) /\ (p1 + 1) + D = q[1] + 1 /\ q[1] # a
      <4>1. p1 >= b + 1 /\ p1 \in Int /\ q[1] = p1 + D /\ p1 <= Len(lines) - 1
        BY <2>2, <1>2, <1>8
      <4>2. q[1] >= b + 1 + D
        BY <4>1, <1>2, <1>7
      <4> QED
        BY <4>1, <4>2, <1>1, <1>2, <1>7, <1>8a
    <3>3. ls[q[1] + 1] = lines[p1 + 1]
      BY <3>2, <1>3
    <3> QED
      BY <2>2, <3>1, <3>2, <3>3, <1>2
  <2> QED
    BY <2>1, <2>2
<1>10. Valid(q, ls)
  BY <1>8, <1>9 DEF Valid
<1>11. TextBehind(q, ls) = TextBehind(p, lines)
  <2> DEFINE k == p1 + 1
  <2>1. /\ k \in Nat /\ k >= 1 /\ k + D \in Nat /\ k + D >= 1 /\ k <= Len(lines) /\ k + D = q[1] + 1
        /\ (k + D) + 1 = q[1] + 2 /\ k + 1 = p1 + 2
    <3>1. p1 \in Nat /\ p1 <= Len(lines) - 1 /\ D \in Int /\ q[1] = p1 + D /\ q[1] \in Nat /\ Len(lines) \in Nat
      <4>1. a >= 0 /\ q[1] >= a /\ Len(ls) \in Nat
        BY <1>2, <1>3, <1>8, LineOf
      <4> QED
        BY <4>1, <1>2, <1>7, <1>8
    <3> QED
      BY <3>1
  <2>2. \A i \in k + 1..Len(lines) : ls[i + D] = lines[i]
    <3>1. \A i \in k + 1..Len(lines) : i \in b + 2..Len(lines)
      BY <1>2
    <3> QED
      BY <3>1, <1>3
  <2> HIDE DEF k, D
  <2>3. SubSeq(ls, (k + D) + 1, Len(ls)) = SubSeq(lines, k + 1, Len(lines))
    BY <2>1, <2>2, <1>3, <1>7, SameBehind
  <2>4. SubSeq(ls, q[1] + 2, Len(ls)) = SubSeq(lines, p1 + 2, Len(lines))
    BY <2>1, <2>3
  <2> QED
    BY <2>4, <1>9 DEF TextBehind, p1, p2
<1> QED
  BY <1>8, <1>9, <1>10, <1>11 DEF q, N, a, b, E, D, p1, p2, f2, t2, c1, cN

(* A place in front of the range, and the end of the new text.               *)
LEMMA FrontStays ==
  ASSUME lines \in Documents, NEW from \in Places, NEW to \in Places, Valid(from, lines), Valid(to, lines),
         ~Less(to, from), NEW code \in Seq(Nat) \ {<<>>}, NEW ls, Edited(ls, from, to, code)
  PROVE  /\ \A p \in Places : Valid(p, lines) /\ Less(p, from) => Valid(p, ls)
         /\ Valid(EndOf(from, code), ls) /\ ~Less(EndOf(from, code), from)
<1> DEFINE N == Len(code)
           a == from[1]
           b == to[1]
           D == N - (b - a) - 1
           f2 == from[2]
           t2 == to[2]
           c1 == code[1]
           cN == Last(code)
           E == EndOf(from, code)[2]
           L == lines[b + 1].len
           F == lines[a + 1].len
           M == ls[a + N].len
           K == ls[a + 1].len
<1>1. N \in Nat \ {0} /\ cN \in Nat /\ c1 \in Nat
  BY EmptySeq DEF Last
<1>2. /\ Len(lines) \in Nat \ {0} /\ a \in Nat /\ b \in Nat /\ b <= Len(lines) - 1 /\ a <= b
      /\ f2 \in Nat /\ t2 \in Nat /\ L \in Nat /\ t2 <= L
  <2>1. b + 1 \in 1..Len(lines)
    BY Indexed
  <2>2. L \in Nat
    BY <2>1, LineOf
  <2> QED
    BY <2>2, LineOf DEF Valid, Less
<1>3. /\ ls \in Documents /\ Len(ls) = Len(lines) + D
      /\ \A i \in 1..a : ls[i] = lines[i]
      /\ M = E + (L - t2) /\ K >= f2
  BY DEF Edited
<1>4. E = (IF N = 1 THEN f2 + c1 ELSE cN) /\ EndOf(from, code) = <<a + N - 1, E>>
  BY DEF EndOf
<1>5. from[1] = a /\ from[2] = f2
  OBVIOUS
<1> HIDE DEF N, a, b, E, f2, t2, c1, cN, L, F, M, K
<1>6. E \in Nat /\ (N = 1 => E >= f2)
  BY <1>1, <1>2, <1>4
<1>7. Len(ls) >= a + N /\ Len(ls) \in Nat
  BY <1>1, <1>2, <1>3
<1> HIDE DEF D
<1>8. M \in Nat /\ E <= M
  BY <1>2, <1>3, <1>6
<1>9. Valid(EndOf(from, code), ls) /\ ~Less(EndOf(from, code), from)
  <2> DEFINE e == EndOf(from, code)
  <2>1. e[1] = (a + N) - 1 /\ e[2] = E /\ e[1] + 1 = a + N /\ e[1] \in 0..Len(ls) - 1
    BY <1>1, <1>2, <1>4, <1>7
  <2> HIDE DEF e
  <2>2. Valid(e, ls)
    BY <2>1, <1>6, <1>8 DEF Valid, M
  <2>3. ~Less(e, from)
    BY <2>1, <1>1, <1>2, <1>5, <1>6 DEF Less
  <2> QED
    BY <2>2, <2>3 DEF e
<1>10. ASSUME NEW p \in Places, Valid(p, lines), Less(p, from)
       PROVE  Valid(p, ls)
  <2>1. p[1] \in Nat /\ p[2] \in Nat /\ p[2] <= lines[p[1] + 1].len /\ lines[p[1] + 1].len \in Nat
    <3>1. p[1] + 1 \in 1..Len(lines)
      BY <1>10, Indexed
    <3>2. lines[p[1] + 1].len \in Nat
      BY <3>1, LineOf
    <3> QED
      BY <3>2, <1>10 DEF Valid
  <2>2. p[1] < a \/ (p[1] = a /\ p[2] < f2)
    BY <1>5, <1>10 DEF Less
  <2>3. p[1] \in 0..Len(ls) - 1
    BY <2>1, <2>2, <1>1, <1>2, <1>7
  <2>4. ls[p[1] + 1].len \in Nat
    <3>1. p[1] + 1 \in 1..Len(ls)
      BY <2>3, <1>7
    <3> QED
      BY <3>1, <1>3, LineOf
  <2>5. p[2] <= ls[p[1] + 1].len
    <3>1. CASE p[1] < a
      <4>1. p[1] + 1 \in 1..a
        BY <3>1, <2>1, <1>2
      <4> QED
        BY <4>1, <2>1, <1>3
    <3>2. CASE p[1] = a /\ p[2] < f2
      <4>1. K \in Nat /\ p[2] <= K
        BY <3>2, <2>1, <2>4, <1>2, <1>3 DEF K
      <4> QED
        BY <4>1, <3>2 DEF K
    <3> QED
      BY <2>2, <3>1, <3>2
  <2> QED
    BY <2>1, <2>3, <2>4, <2>5 DEF Valid
<1> QED
  BY <1>9, <1>10

LEMMA Positioned ==
  ASSUME NEW p \in Places, NEW q \in Places, NEW r \in Places
  PROVE  /\ Less(p, q) /\ ~Less(r, q) => Less(p, r)
         /\ ~Less(q, p) /\ Less(r, p) => Less(r, q)
         /\ Less(p, q) => ~Less(q, p)
BY DEF Less, Places

LEMMA EndsStay ==
  ASSUME lines \in Documents, sel \in Ranges, Sound(sel, lines),
         NEW from \in Places, NEW to \in Places, Valid(from, lines), Valid(to, lines), ~Less(to, from),
         NEW code \in Seq(Nat) \ {<<>>}
  PROVE  LET r == ReplaceRange(from, to, code)
             joins == (from[1] = to[1]) # (Len(code) = 1)
             misplaced(p) == joins /\ p[1] = to[1] /\ Less(to, p)
         IN  ~r.threw =>
               /\ (Less(sel.from, from) /\ ~misplaced(sel.to)) => r.sel.from = sel.from
               /\ (Less(to, sel.from) /\ ~misplaced(sel.from) /\ ~lines[sel.from[1] + 1].hidden) =>
                     TextBehind(r.sel.from, r.lines) = TextBehind(sel.from, lines)
<1> DEFINE r == ReplaceRange(from, to, code)
           ls == LinesAfter(from, to, code)
           D == Len(code) - (to[1] - from[1]) - 1
           f == sel.from
           t == sel.to
           x == AdjustPos(f, from, to, code)
           y == AdjustPos(t, from, to, code)
           a == Clip(x, ls)
           b == Clip(y, ls)
           oldFrom == MovedLine(f[1], to[1], D)
           whole == (from[1] = to[1]) <=> (Len(code) = 1)
<1>1. f \in Places /\ t \in Places /\ Valid(f, lines) /\ Valid(t, lines) /\ ~Less(t, f)
  BY DEF Ranges, Sound
<1>2. x \in Places /\ y \in Places
  BY <1>1, Adjusts
<1>3. Edited(ls, from, to, code) /\ Updated(r, ls, a, b, oldFrom)
  <2> HIDE DEF x, y
  <2>1. LET z == LinesAfter(from, to, code)
        IN  /\ Edited(z, from, to, code)
            /\ Updated(UpdateText(from, to, code, x, y), z, Clip(x, z), Clip(y, z),
                       MovedLine(sel.from[1], to[1], Len(code) - (to[1] - from[1]) - 1))
    BY <1>2, TextIsUpdated
  <2>2. r = UpdateText(from, to, code, x, y)
    BY DEF ReplaceRange, x, y
  <2> QED
    BY <2>1, <2>2
<1>4. ls \in Documents
  BY <1>3 DEF Edited
<1> HIDE DEF r, ls, oldFrom
<1>5. ASSUME NEW p \in Places
      PROVE  Less(p, from) \in BOOLEAN /\ Less(to, p) \in BOOLEAN
  BY DEF Less
<1>6. /\ \A p \in Places : Valid(p, lines) /\ Less(p, from) => Valid(p, ls)
      /\ Valid(EndOf(from, code), ls) /\ ~Less(EndOf(from, code), from) /\ EndOf(from, code) \in Places
  BY <1>1, <1>3, FrontStays, Adjusts
<1>7. ASSUME NEW p \in Places, Valid(p, lines), Less(to, p), p[1] = to[1] => whole
      PROVE  LET q == AdjustPos(p, from, to, code)
             IN  /\ Valid(q, ls) /\ q[1] = p[1] + D
                 /\ ~Less(q, from)
                 /\ ls[q[1] + 1].hidden = lines[p[1] + 1].hidden
                 /\ TextBehind(q, ls) = TextBehind(p, lines)
                 /\ q[2] - p[2] = (IF p[1] = to[1] THEN EndOf(from, code)[2] - to[2] ELSE 0)
  <2> DEFINE q == AdjustPos(p, from, to, code)
  <2>1. /\ Valid(q, ls) /\ q[1] = p[1] + D
        /\ q[1] = from[1] => p[1] = to[1] /\ q[2] >= from[2]
        /\ q[1] >= from[1]
        /\ ls[q[1] + 1].hidden = lines[p[1] + 1].hidden
        /\ TextBehind(q, ls) = TextBehind(p, lines)
        /\ q[2] - p[2] = (IF p[1] = to[1] THEN EndOf(from, code)[2] - to[2] ELSE 0)
    BY <1>3, <1>7, BehindStays
  <2>2. q \in Places
    BY Adjusts
  <2> HIDE DEF q, D
  <2>3. ~Less(q, from)
    BY <2>1, <2>2 DEF Less, Places
  <2> QED
    BY <2>1, <2>3 DEF q
<1> HIDE DEF D
<1>8. ASSUME Less(f, from), ~(~whole /\ t[1] = to[1] /\ Less(to, t)), ~r.threw
      PROVE  r.sel.from = f
  <2>1. x = f /\ Valid(f, ls)
    BY <1>1, <1>6, <1>8 DEF AdjustPos
  <2>2. a = f
    BY <2>1, <1>1, <1>4, Clips
  <2>3. Valid(y, ls) /\ (y = t \/ ~Less(y, from))
    <3>1. CASE Less(t, from)
      BY <3>1, <1>1, <1>6 DEF AdjustPos
    <3>2. CASE ~Less(t, from) /\ ~Less(to, t)
      BY <3>2, <1>6 DEF AdjustPos
    <3>3. CASE Less(to, t)
      BY <3>3, <1>1, <1>7, <1>8
    <3> QED
      BY <3>1, <3>2, <3>3
  <2> HIDE DEF x, y
  <2>4. b = y
    BY <2>3, <1>2, <1>4, Clips
  <2>5. ~Less(b, a)
    <3>1. ~Less(y, f)
      BY <2>3, <1>1, <1>2, <1>8, Positioned
    <3> QED
      BY <3>1, <2>2, <2>4
  <2>6. a[1] = oldFrom
    <3>1. f[1] \in Int /\ from[1] \in Int /\ to[1] \in Int /\ f[1] <= from[1] /\ from[1] <= to[1] /\ Len(code) \in Nat \ {0}
      BY <1>1, <1>8, EmptySeq DEF Less, Places
    <3>2. f[1] <= to[1] /\ f[1] <= to[1] + D /\ to[1] + D \in Int
      <4> DEFINE i == f[1]
                 j == from[1]
                 k == to[1]
                 n == Len(code)
      <4>1. D = n - (k - j) - 1 /\ i \in Int /\ j \in Int /\ k \in Int /\ i <= j /\ j <= k /\ n \in Nat \ {0}
        BY <3>1 DEF D
      <4> HIDE DEF i, j, k, n
      <4>2. i <= k /\ i <= k + D /\ k + D \in Int
        BY <4>1
      <4> QED
        BY <4>2 DEF i, k
    <3>3. f[1] <= LesserOf(to[1], to[1] + D)
      BY <3>2 DEF LesserOf
    <3> QED
      BY <2>2, <3>3 DEF oldFrom, MovedLine
  <2> QED
    BY <2>2, <2>5, <2>6, <1>3, <1>8 DEF Updated
<1>9. ASSUME Less(to, f), ~(~whole /\ f[1] = to[1] /\ Less(to, f)), ~lines[f[1] + 1].hidden, ~r.threw
      PROVE  TextBehind(r.sel.from, r.lines) = TextBehind(f, lines)
  <2>1. Less(to, t)
    BY <1>1, <1>9, Positioned
  <2>2. t[1] = to[1] => f[1] = to[1]
    BY <2>1, <1>1, <1>9 DEF Less, Places
  <2>3. (f[1] = to[1] => whole) /\ (t[1] = to[1] => whole)
    BY <2>2, <1>9
  <2>4. /\ Valid(x, ls) /\ x[1] = f[1] + D
        /\ ls[x[1] + 1].hidden = lines[f[1] + 1].hidden
        /\ TextBehind(x, ls) = TextBehind(f, lines)
        /\ x[2] - f[2] = (IF f[1] = to[1] THEN EndOf(from, code)[2] - to[2] ELSE 0)
    BY <2>3, <1>1, <1>7, <1>9
  <2>5. /\ Valid(y, ls) /\ y[1] = t[1] + D
        /\ y[2] - t[2] = (IF t[1] = to[1] THEN EndOf(from, code)[2] - to[2] ELSE 0)
    BY <2>1, <2>3, <1>1, <1>7
  <2> HIDE DEF x, y
  <2>6. a = x /\ b = y
    BY <2>4, <2>5, <1>2, <1>4, Clips
  <2>7. ~Less(y, x)
    <3>1. /\ x[1] \in Int /\ x[2] \in Int /\ y[1] \in Int /\ y[2] \in Int /\ D \in Int
          /\ f[1] \in Int /\ f[2] \in Int /\ t[1] \in Int /\ t[2] \in Int
          /\ EndOf(from, code)[2] - to[2] \in Int
      <4>1. D \in Int
        <5>1. Len(code) \in Int /\ to[1] \in Int /\ from[1] \in Int
          BY DEF Places
        <5> QED
          BY <5>1 DEF D
      <4>2. EndOf(from, code)[2] \in Int /\ to[2] \in Int
        BY <1>6 DEF Places
      <4> HIDE DEF f, t
      <4>3. x[1] \in Int /\ x[2] \in Int /\ y[1] \in Int /\ y[2] \in Int
        BY <1>2 DEF Places
      <4>4. f[1] \in Int /\ f[2] \in Int /\ t[1] \in Int /\ t[2] \in Int
        BY <1>1 DEF Places
      <4> QED
        BY <4>1, <4>2, <4>3, <4>4
    <3> HIDE DEF f, t
    <3>2. y[1] = x[1] => t[1] = f[1]
      <4>1. y[1] = t[1] + D /\ x[1] = f[1] + D /\ D \in Int /\ f[1] \in Int /\ t[1] \in Int
        BY <2>4, <2>5, <3>1
      <4>2. ASSUME NEW i \in Int, NEW j \in Int, i + D = j + D PROVE i = j
        BY <4>1, <4>2
      <4> QED
        BY <4>1, <4>2
    <3>3. y[1] >= x[1]
      BY <2>4, <2>5, <3>1, <1>1 DEF Less
    <3>4. t[1] = f[1] => y[2] - t[2] = x[2] - f[2] /\ t[2] >= f[2]
      BY <2>4, <2>5, <3>1, <1>1 DEF Less
    <3>5. y[1] = x[1] => y[2] >= x[2]
      BY <3>1, <3>2, <3>4
    <3> QED
      BY <3>1, <3>3, <3>5 DEF Less
  <2>8. r.sel.from = x /\ r.lines = ls
    BY <2>4, <2>6, <2>7, <1>3, <1>9 DEF Updated
  <2> QED
    BY <2>4, <2>8
<1> QED
  BY <1>8, <1>9 DEF r

-----------------------------------------------------------------------------
(* The invariant: the ends are sound, and a drag keeps places of the text.   *)
Dragged(d, ls) ==
  \/ d = Null
  \/ /\ d.start \in Places /\ d.from \in Places /\ d.to \in Places
     /\ Valid(d.start, ls) /\ Valid(d.from, ls) /\ Valid(d.to, ls)

Short(ls) == \A i \in 1..Len(ls) : ls[i].len <= MaxLength

SelectionInv ==
  /\ lines \in Documents /\ Short(lines) /\ sel \in Ranges /\ stray \in BOOLEAN /\ inputs \in 0..MaxInputs
  /\ shift = Null \/ shift \in Places
  /\ ~stray => Sound(sel, lines) /\ Dragged(drag, lines)

(* What an event may set: a settled selection, or one that is given up.      *)
Settled(s) == s \in Settings /\ (s.threw \/ Crossed(s) \/ Sound(s.sel, s.lines))

LEMMA EventSettles ==
  ASSUME SelectionInv, ~stray, inputs < MaxInputs, NEW s, Settled(s), Short(s.lines),
         NEW outlived \in BOOLEAN, NEW call, BecomesBy(s, outlived, call)
  PROVE  /\ lines' \in Documents /\ Short(lines') /\ sel' \in Ranges /\ stray' \in BOOLEAN /\ inputs' \in 0..MaxInputs
         /\ ~stray' => Sound(sel', lines') /\ ~outlived /\ ~s.threw
         /\ lines' = s.lines /\ sel' = s.sel /\ edit' = IF stray' THEN Null ELSE call
<1>1. /\ lines' = s.lines /\ sel' = s.sel /\ stray' = (stray \/ s.threw \/ outlived \/ Crossed(s))
      /\ edit' = (IF stray' THEN Null ELSE call) /\ inputs' = inputs + 1
  BY DEF BecomesBy
<1>2. s.lines \in Documents /\ s.sel \in Ranges /\ s.threw \in BOOLEAN
  BY DEF Settled, Settings
<1>3. inputs' \in 0..MaxInputs
  BY <1>1, SelectionAssumption DEF SelectionInv
<1>4. Crossed(s) \in BOOLEAN
  BY DEF Crossed
<1>5. stray' \in BOOLEAN
  BY <1>1, <1>2, <1>4 DEF SelectionInv
<1>6. ~stray' => Sound(sel', lines') /\ ~outlived /\ ~s.threw
  BY <1>1, <1>2, <1>4 DEF Settled
<1> QED
  BY <1>1, <1>2, <1>3, <1>5, <1>6

LEMMA SameShort ==
  ASSUME NEW ls, NEW kept, SameLengths(ls, kept), Short(kept)
  PROVE  Short(ls)
BY DEF SameLengths, Short

(* Events that leave the text as it is. *)
LEMMA DragStays ==
  ASSUME NEW ls \in Documents, NEW kept \in Documents, SameLengths(ls, kept), NEW d, Dragged(d, kept)
  PROVE  Dragged(d, ls)
<1>1. \A p \in Places : Valid(p, kept) => Valid(p, ls)
  BY Refits
<1> QED
  BY <1>1 DEF Dragged

LEMMA SoundStays ==
  ASSUME NEW ls \in Documents, NEW kept \in Documents, SameLengths(ls, kept), NEW range \in Ranges, Sound(range, kept)
  PROVE  Sound(range, ls)
<1>1. \A p \in Places : Valid(p, kept) => Valid(p, ls)
  BY Refits
<1>2. range.from \in Places /\ range.to \in Places
  BY DEF Ranges
<1> QED
  BY <1>1, <1>2 DEF Sound

Selects(s) == Settled(s) /\ SameLengths(s.lines, lines)

LEMMA SelectSettles ==
  ASSUME SelectionInv, ~stray, NEW a \in Places, NEW b \in Places, Valid(a, lines), Valid(b, lines)
  PROVE  Selects(Select(a, b))
<1>1. lines \in Documents /\ sel \in Ranges /\ Sound(sel, lines)
  BY DEF SelectionInv
<1>2. Now \in Settings /\ Now.lines = lines /\ Now.sel = sel
  BY <1>1 DEF Now, Settings
<1>3. sel.from[1] \in Int /\ sel.to[1] \in Int
  BY <1>1 DEF Ranges, Places
<1>4. /\ Valid(a, Now.lines) /\ Valid(b, Now.lines)
      /\ (Now.sel.from = a /\ Now.sel.to = b) => Sound(Now.sel, Now.lines)
  BY <1>1, <1>2
<1> DEFINE r == SetSelection(Now, a, b, sel.from[1], sel.to[1])
<1>5. r \in Settings /\ SameLengths(r.lines, Now.lines) /\ (r.threw \/ Crossed(r) \/ Sound(r.sel, r.lines))
  BY <1>2, <1>3, <1>4, SelectionIsSet
<1> QED
  BY <1>2, <1>5 DEF Select, Selects, Settled

LEMMA SelectUserSettles ==
  ASSUME SelectionInv, ~stray, NEW a \in Places, NEW b \in Places, Valid(a, lines), Valid(b, lines),
         NEW fixed, fixed = Null \/ fixed \in Places
  PROVE  Selects(SelectUser(a, b, fixed))
<1> DEFINE sh == Clip(fixed, lines)
           x == IF fixed # Null /\ Less(sh, a) THEN sh ELSE a
           y == IF fixed # Null /\ ~Less(sh, a) /\ Less(b, sh) THEN sh ELSE b
<1>1. lines \in Documents
  BY DEF SelectionInv
<1>2. fixed # Null => sh \in Places /\ Valid(sh, lines)
  BY <1>1, Clips
<1> HIDE DEF sh
<1>3. x \in Places /\ Valid(x, lines) /\ y \in Places /\ Valid(y, lines)
  BY <1>2
<1>4. SelectUser(a, b, fixed) = Select(x, y)
  BY DEF SelectUser, sh
<1> HIDE DEF x, y
<1> QED
  BY <1>3, <1>4, SelectSettles

(* An event that only selects keeps the invariant. *)
LEMMA SelectingKeeps ==
  ASSUME SelectionInv, ~stray, inputs < MaxInputs, NEW s, Selects(s), Becomes(s, FALSE),
         shift' = Null \/ shift' \in Places,
         drag' = drag \/ drag' = Null
         \/ \E p \in Places : Valid(p, lines) /\ \E type : drag' = [type |-> type, start |-> p, from |-> sel'.from, to |-> sel'.to]
  PROVE  SelectionInv' /\ edit' = Null
<1>1. /\ lines \in Documents /\ Short(lines) /\ Dragged(drag, lines)
  BY DEF SelectionInv
<1>2. Settled(s) /\ SameLengths(s.lines, lines) /\ Short(s.lines) /\ s.lines \in Documents /\ s.sel \in Ranges
  BY <1>1, SameShort DEF Selects, Settled, Settings
<1>3. BecomesBy(s, FALSE, Null)
  BY DEF Becomes
<1>4. /\ lines' \in Documents /\ Short(lines') /\ sel' \in Ranges /\ stray' \in BOOLEAN /\ inputs' \in 0..MaxInputs
      /\ ~stray' => Sound(sel', lines')
      /\ lines' = s.lines /\ sel' = s.sel /\ edit' = IF stray' THEN Null ELSE Null
  BY <1>2, <1>3, EventSettles
<1>5. ASSUME ~stray' PROVE Dragged(drag', lines')
  <2>1. CASE drag' = drag
    BY <2>1, <1>1, <1>2, <1>4, DragStays
  <2>2. CASE drag' = Null
    BY <2>2 DEF Dragged
  <2>3. CASE \E p \in Places : Valid(p, lines) /\ \E type : drag' = [type |-> type, start |-> p, from |-> sel'.from, to |-> sel'.to]
    <3>1. PICK p \in Places : Valid(p, lines) /\ \E type : drag' = [type |-> type, start |-> p, from |-> sel'.from, to |-> sel'.to]
      BY <2>3
    <3>2. drag'.start = p /\ drag'.from = sel'.from /\ drag'.to = sel'.to
      BY <3>1
    <3>3. Valid(p, lines')
      BY <3>1, <1>1, <1>2, <1>4, Refits
    <3>4. sel'.from \in Places /\ sel'.to \in Places /\ Valid(sel'.from, lines') /\ Valid(sel'.to, lines')
      BY <1>4, <1>5 DEF Ranges, Sound
    <3> QED
      BY <3>2, <3>3, <3>4 DEF Dragged
  <2> QED
    BY <2>1, <2>2, <2>3
<1>6. edit' = Null
  BY <1>4
<1>7. shift' = Null \/ shift' \in Places
  OBVIOUS
<1> QED
  BY <1>4, <1>5, <1>6, <1>7 DEF SelectionInv

(* An event that edits keeps it: with a drag it gives up. *)
LEMMA EditingKeeps ==
  ASSUME SelectionInv, ~stray, inputs < MaxInputs, NEW s, Settled(s), InBounds(s),
         NEW call, BecomesBy(s, drag # Null, call), shift' = Null \/ shift' = shift, drag' = drag
  PROVE  SelectionInv' /\ edit' = (IF stray' THEN Null ELSE call) /\ lines' = s.lines /\ sel' = s.sel /\ (~stray' => ~s.threw)
<1>1. s.lines \in Documents /\ (shift = Null \/ shift \in Places)
  BY DEF Settled, Settings, SelectionInv
<1>2. Short(s.lines)
  <2>1. DOMAIN s.lines = 1..Len(s.lines)
    BY <1>1, LineOf
  <2> QED
    BY <2>1 DEF InBounds, Short
<1>3. (drag # Null) \in BOOLEAN
  OBVIOUS
<1> DEFINE outlived == drag # Null
<1>4. outlived \in BOOLEAN /\ BecomesBy(s, outlived, call)
  OBVIOUS
<1>5. outlived <=> drag # Null
  OBVIOUS
<1> HIDE DEF outlived
<1>6. /\ lines' \in Documents /\ Short(lines') /\ sel' \in Ranges /\ stray' \in BOOLEAN /\ inputs' \in 0..MaxInputs
      /\ ~stray' => Sound(sel', lines') /\ ~outlived /\ ~s.threw
      /\ lines' = s.lines /\ sel' = s.sel /\ edit' = IF stray' THEN Null ELSE call
  BY <1>2, <1>4, EventSettles
<1>7. ~stray' => Dragged(drag', lines')
  BY <1>5, <1>6 DEF Dragged
<1>8. shift' = Null \/ shift' \in Places
  BY <1>1
<1> QED
  BY <1>6, <1>7, <1>8 DEF SelectionInv

(* The edits. *)
LEMMA Inside ==
  ASSUME NEW p \in Positions
  PROVE  p \in Places /\ Valid(p, lines)
<1>1. p \in (0..MaxLineCount) \X (0..MaxLength) /\ Valid(p, lines)
  BY DEF Positions
<1>2. p \in Places
  BY <1>1 DEF Places
<1> QED
  BY <1>1, <1>2

LEMMA UpdateSettles ==
  ASSUME SelectionInv, ~stray, NEW from \in Places, NEW to \in Places, Valid(from, lines), Valid(to, lines),
         ~Less(to, from), NEW code \in Seq(Nat) \ {<<>>}, NEW selFrom \in Places, NEW selTo \in Places
  PROVE  Settled(UpdateText(from, to, code, selFrom, selTo))
<1> DEFINE r == UpdateText(from, to, code, selFrom, selTo)
           ls == LinesAfter(from, to, code)
<1>1. lines \in Documents /\ sel \in Ranges /\ Sound(sel, lines)
  BY DEF SelectionInv
<1>2. Updated(r, ls, Clip(selFrom, ls), Clip(selTo, ls), MovedLine(sel.from[1], to[1], Len(code) - (to[1] - from[1]) - 1))
  BY <1>1, TextIsUpdated
<1> HIDE DEF r, ls
<1>3. Settled(r)
  BY <1>2 DEF Updated, Settled
<1> QED
  BY <1>3 DEF r

LEMMA ReplaceSettles ==
  ASSUME SelectionInv, ~stray, NEW from \in Places, NEW to \in Places, Valid(from, lines), Valid(to, lines),
         ~Less(to, from), NEW code \in Seq(Nat) \ {<<>>}
  PROVE  Settled(ReplaceRange(from, to, code))
<1>1. sel.from \in Places /\ sel.to \in Places
  BY DEF SelectionInv, Ranges
<1>2. AdjustPos(sel.from, from, to, code) \in Places /\ AdjustPos(sel.to, from, to, code) \in Places
  BY <1>1, Adjusts
<1>3. Settled(UpdateText(from, to, code, AdjustPos(sel.from, from, to, code), AdjustPos(sel.to, from, to, code)))
  BY <1>2, UpdateSettles
<1> QED
  BY <1>3 DEF ReplaceRange

LEMMA ReplaceTextKeeps ==
  ASSUME SelectionInv, ~stray, inputs < MaxInputs, ReplaceText
  PROVE  SelectionInv'
<1>1. PICK from \in Positions, to \in Positions, code \in Insertions :
        /\ ~Less(to, from)
        /\ InBounds(ReplaceRange(from, to, code))
        /\ BecomesBy(ReplaceRange(from, to, code), drag # Null, <<from, to, Len(code)>>)
        /\ shift' = shift /\ drag' = drag
  BY DEF ReplaceText
<1>2. from \in Places /\ to \in Places /\ Valid(from, lines) /\ Valid(to, lines) /\ code \in Seq(Nat) \ {<<>>}
  BY Inside, SelectionAssumption
<1>3. Settled(ReplaceRange(from, to, code))
  BY <1>1, <1>2, ReplaceSettles
<1> QED
  BY <1>1, <1>3, EditingKeeps

LEMMA SetValueKeeps ==
  ASSUME SelectionInv, ~stray, inputs < MaxInputs, SetValue
  PROVE  SelectionInv' /\ edit' = Null
<1> DEFINE start == <<0, 0>>
           end == <<Len(lines) - 1, Last(lines).len>>
<1>1. PICK code \in Insertions :
        /\ InBounds(UpdateText(start, end, code, start, start))
        /\ BecomesBy(UpdateText(start, end, code, start, start), drag # Null, Null)
        /\ shift' = shift /\ drag' = drag
  BY DEF SetValue, Becomes
<1>2. code \in Seq(Nat) \ {<<>>}
  BY SelectionAssumption
<1>3. /\ lines \in Documents /\ Len(lines) \in Nat \ {0} /\ Last(lines) = lines[Len(lines)]
      /\ \A i \in 1..Len(lines) : lines[i].len \in Nat
  BY LineOf DEF SelectionInv
<1>4. start \in Places /\ end \in Places /\ Valid(start, lines) /\ Valid(end, lines) /\ ~Less(end, start)
  <2>1. start[1] = 0 /\ start[2] = 0 /\ end[1] = Len(lines) - 1 /\ end[2] = Last(lines).len /\ end[1] + 1 = Len(lines)
        /\ start[1] + 1 = 1
    BY <1>3
  <2>2. 1 \in 1..Len(lines) /\ Len(lines) \in 1..Len(lines)
    BY <1>3
  <2>3. Last(lines).len \in Nat /\ lines[1].len \in Nat
    BY <2>2, <1>3
  <2>4. start \in Places /\ end \in Places
    BY <2>3, <1>3 DEF Places
  <2> HIDE DEF start, end
  <2>5. Valid(start, lines) /\ Valid(end, lines)
    BY <2>1, <2>3, <1>3 DEF Valid
  <2>6. ~Less(end, start)
    BY <2>1, <2>3, <1>3 DEF Less
  <2> QED
    BY <2>4, <2>5, <2>6
<1> HIDE DEF start, end
<1>5. Settled(UpdateText(start, end, code, start, start))
  BY <1>2, <1>4, UpdateSettles
<1>6. SelectionInv' /\ edit' = (IF stray' THEN Null ELSE Null)
  BY <1>1, <1>5, EditingKeeps
<1> QED
  BY <1>6

LEMMA TypeKeeps ==
  ASSUME SelectionInv, ~stray, inputs < MaxInputs, Type
  PROVE  SelectionInv' /\ edit' = Null
<1>1. PICK code \in Insertions : \E collapse \in {"end", "start", "around"} :
        \E s \in {LET end == EndOf(sel.from, code)
                  IN  UpdateText(sel.from, sel.to, code, IF collapse = "end" THEN end ELSE sel.from,
                                 IF collapse = "start" THEN sel.from ELSE end)} :
          InBounds(s) /\ Becomes(s, drag # Null) /\ UNCHANGED <<shift, drag>>
  BY DEF Type
<1>2. PICK x \in {EndOf(sel.from, code), sel.from}, y \in {EndOf(sel.from, code), sel.from} :
        /\ InBounds(UpdateText(sel.from, sel.to, code, x, y))
        /\ BecomesBy(UpdateText(sel.from, sel.to, code, x, y), drag # Null, Null)
        /\ shift' = shift /\ drag' = drag
  BY <1>1 DEF Becomes
<1>3. code \in Seq(Nat) \ {<<>>}
  BY SelectionAssumption
<1>4. /\ sel.from \in Places /\ sel.to \in Places /\ Valid(sel.from, lines) /\ Valid(sel.to, lines)
      /\ ~Less(sel.to, sel.from)
  BY DEF SelectionInv, Ranges, Sound
<1>5. x \in Places /\ y \in Places
  BY <1>3, <1>4, Adjusts
<1>6. Settled(UpdateText(sel.from, sel.to, code, x, y))
  BY <1>3, <1>4, <1>5, UpdateSettles
<1>7. SelectionInv' /\ edit' = (IF stray' THEN Null ELSE Null)
  BY <1>2, <1>6, EditingKeeps
<1> QED
  BY <1>7

(* The keyboard. *)
Ahead(r, p, dir) ==
  /\ r \in Places /\ Valid(r, lines)
  /\ dir = -1 => ~Less(p, r)
  /\ dir = 1 => ~Less(r, p)

LEMMA MovesOnce ==
  ASSUME lines \in Documents, NEW p \in Places, Valid(p, lines), NEW dir \in {-1, 1}, NEW bound \in BOOLEAN
  PROVE  Ahead(MoveOnce(p, dir, bound), p, dir)
<1> DEFINE atEnd == p[2] = (IF dir < 0 THEN 0 ELSE lines[p[1] + 1].len)
           ahead == {n \in 0..Len(lines) - 1 : ~lines[n + 1].hidden /\ (IF dir < 0 THEN n < p[1] ELSE n > p[1])}
           next == IF dir < 0 THEN Max(ahead) ELSE Min(ahead)
           ch == IF dir < 0 THEN lines[next + 1].len ELSE 0
           r == MoveOnce(p, dir, bound)
           len == lines[p[1] + 1].len
<1>1. /\ Len(lines) \in Nat \ {0} /\ p[1] \in 0..Len(lines) - 1 /\ p[2] \in 0..len /\ len \in Nat
      /\ \A i \in 1..Len(lines) : lines[i].len \in Nat
  <2>1. p[1] + 1 \in 1..Len(lines)
    BY Indexed
  <2> QED
    BY <2>1, LineOf DEF Valid
<1>2. /\ ~atEnd => r = <<p[1], p[2] + dir>>
      /\ atEnd /\ ~bound /\ ahead # {} => r = <<next, ch>>
      /\ atEnd /\ ~(~bound /\ ahead # {}) => r = p
  BY DEF MoveOnce
<1>3. ahead # {} => next \in ahead
  <2>1. ahead \subseteq 0..Len(lines) - 1 /\ Len(lines) - 1 \in Nat
    BY <1>1
  <2> HIDE DEF ahead
  <2>2. ASSUME ahead # {} PROVE Min(ahead) \in ahead /\ Max(ahead) \in ahead
    BY <2>1, <2>2, FirstLast
  <2> QED
    BY <2>2
<1>4. (dir = -1 => dir < 0) /\ (dir = 1 => ~(dir < 0)) /\ dir \in Int
  OBVIOUS
<1> HIDE DEF r
<1>5. CASE ~atEnd
  <2> DEFINE z == <<p[1], p[2] + dir>>
  <2>1. z[1] = p[1] /\ z[2] = p[2] + dir /\ p[2] + dir \in 0..len
    BY <1>1, <1>4, <1>5
  <2>2. z \in Places
    BY <1>1, <2>1 DEF Places
  <2>3. r = z
    BY <1>2, <1>5
  <2> HIDE DEF z
  <2>4. Valid(z, lines)
    BY <1>1, <2>1 DEF Valid
  <2>5. (dir = -1 => ~Less(p, z)) /\ (dir = 1 => ~Less(z, p))
    BY <1>1, <2>1 DEF Less
  <2> QED
    BY <2>2, <2>3, <2>4, <2>5 DEF Ahead, r
<1>6. CASE atEnd /\ ~bound /\ ahead # {}
  <2> DEFINE z == <<next, ch>>
  <2>1. next \in 0..Len(lines) - 1 /\ (dir < 0 => next < p[1]) /\ (~(dir < 0) => next > p[1])
    BY <1>3, <1>6
  <2>2. r = z
    BY <1>2, <1>6
  <2> HIDE DEF next
  <2>3. lines[next + 1].len \in Nat
    <3>1. next + 1 \in 1..Len(lines)
      BY <1>1, <2>1
    <3> QED
      BY <3>1, <1>1
  <2>4. ch \in 0..lines[next + 1].len
    BY <2>3
  <2> HIDE DEF ch
  <2>5. z[1] = next /\ z[2] = ch /\ z \in Places
    BY <2>1, <2>3, <2>4 DEF Places
  <2> HIDE DEF z
  <2>6. Valid(z, lines)
    BY <2>1, <2>4, <2>5 DEF Valid
  <2>7. (dir = -1 => ~Less(p, z)) /\ (dir = 1 => ~Less(z, p))
    BY <1>1, <1>4, <2>1, <2>5 DEF Less
  <2> QED
    BY <2>2, <2>5, <2>6, <2>7 DEF Ahead, r
<1>7. CASE atEnd /\ ~(~bound /\ ahead # {})
  <2>1. r = p
    BY <1>2, <1>7
  <2>2. ~Less(p, p)
    BY DEF Less, Places
  <2> QED
    BY <2>1, <2>2 DEF Ahead, r
<1> QED
  BY <1>5, <1>6, <1>7

LEMMA Finds ==
  ASSUME SelectionInv, ~stray, NEW dir \in {-1, 1}, NEW unit
  PROVE  \A p \in FindPosH(dir, unit) : Ahead(p, IF sel.inverted THEN sel.from ELSE sel.to, dir)
<1> DEFINE end == IF sel.inverted THEN sel.from ELSE sel.to
           one == MoveOnce(end, dir, unit = "column")
           two == MoveOnce(one, dir, FALSE)
<1>1. lines \in Documents /\ end \in Places /\ Valid(end, lines)
  BY DEF SelectionInv, Ranges, Sound
<1> HIDE DEF end
<1>2. Ahead(one, end, dir)
  <2> DEFINE bound == unit = "column"
  <2>1. bound \in BOOLEAN
    OBVIOUS
  <2> HIDE DEF bound
  <2>2. Ahead(MoveOnce(end, dir, bound), end, dir)
    BY <1>1, <2>1, MovesOnce
  <2> QED
    BY <2>2 DEF bound
<1> HIDE DEF one
<1>3. one \in Places /\ Valid(one, lines)
  BY <1>2 DEF Ahead
<1>4. Ahead(two, one, dir)
  BY <1>1, <1>3, MovesOnce
<1> HIDE DEF two
<1>5. Ahead(two, end, dir)
  <2>1. two \in Places /\ Valid(two, lines)
    BY <1>4 DEF Ahead
  <2>2. dir = -1 => ~Less(end, two)
    BY <1>1, <1>2, <1>3, <1>4, <2>1 DEF Ahead, Less, Places
  <2>3. dir = 1 => ~Less(two, end)
    BY <1>1, <1>2, <1>3, <1>4, <2>1 DEF Ahead, Less, Places
  <2> QED
    BY <2>1, <2>2, <2>3 DEF Ahead
<1>6. \A p \in FindPosH(dir, unit) : p = one \/ p = two
  BY DEF FindPosH, one, two, end
<1> QED
  BY <1>2, <1>5, <1>6 DEF end

LEMMA ShiftIsPlace ==
  ASSUME SelectionInv, NEW down \in BOOLEAN
  PROVE  Shifted(down) = Null \/ Shifted(down) \in Places
BY DEF SelectionInv, Shifted, Ranges

LEMMA SetSelectionKeeps ==
  ASSUME SelectionInv, ~stray, inputs < MaxInputs, SetSelectionCall
  PROVE  SelectionInv' /\ edit' = Null
<1>1. PICK p \in Positions, q \in Positions, user \in BOOLEAN :
        /\ Becomes(IF user THEN SelectUser(p, q, shift) ELSE Select(p, q), FALSE)
        /\ shift' = shift /\ drag' = drag
  BY DEF SetSelectionCall
<1>2. p \in Places /\ Valid(p, lines) /\ q \in Places /\ Valid(q, lines) /\ (shift = Null \/ shift \in Places)
  BY Inside DEF SelectionInv
<1>3. Selects(SelectUser(p, q, shift)) /\ Selects(Select(p, q))
  BY <1>2, SelectUserSettles, SelectSettles
<1> DEFINE s == IF user THEN SelectUser(p, q, shift) ELSE Select(p, q)
<1>4. Selects(s) /\ Becomes(s, FALSE) /\ (shift' = Null \/ shift' \in Places) /\ drag' = drag
  BY <1>1, <1>2, <1>3
<1> HIDE DEF s
<1> QED
  BY <1>4, SelectingKeeps

LEMMA MoveHKeeps ==
  ASSUME SelectionInv, ~stray, inputs < MaxInputs, MoveH
  PROVE  SelectionInv' /\ edit' = Null
<1>1. PICK down \in BOOLEAN, dir \in {-1, 1}, unit \in {"char", "column", "word"} :
        LET fixed == Shifted(down)
            edge  == IF dir < 0 THEN sel.from ELSE sel.to
        IN  \E p \in IF fixed # Null \/ sel.from = sel.to THEN FindPosH(dir, unit) ELSE {edge} :
              LET c == Clip(p, lines) IN Becomes(SelectUser(c, c, fixed), FALSE)
              /\ shift' = fixed /\ UNCHANGED drag
  BY DEF MoveH
<1> DEFINE fixed == Shifted(down)
<1>2. PICK p : /\ p \in FindPosH(dir, unit) \/ p = sel.from \/ p = sel.to
               /\ Becomes(SelectUser(Clip(p, lines), Clip(p, lines), fixed), FALSE)
               /\ shift' = fixed /\ drag' = drag
  BY <1>1
<1>3. p \in Places
  BY <1>2, Finds DEF Ahead, SelectionInv, Ranges
<1>4. Clip(p, lines) \in Places /\ Valid(Clip(p, lines), lines)
  BY <1>3, Clips DEF SelectionInv
<1>5. fixed = Null \/ fixed \in Places
  BY ShiftIsPlace
<1> HIDE DEF fixed
<1>6. Selects(SelectUser(Clip(p, lines), Clip(p, lines), fixed))
  BY <1>4, <1>5, SelectUserSettles
<1> DEFINE s == SelectUser(Clip(p, lines), Clip(p, lines), fixed)
<1>7. Selects(s) /\ Becomes(s, FALSE) /\ (shift' = Null \/ shift' \in Places) /\ drag' = drag
  BY <1>2, <1>5, <1>6
<1> HIDE DEF s
<1> QED
  BY <1>7, SelectingKeeps

LEMMA DeleteHKeeps ==
  ASSUME SelectionInv, ~stray, inputs < MaxInputs, DeleteH
  PROVE  SelectionInv' /\ edit' = Null
<1> DEFINE none == <<0>>
<1>0. PICK dir \in {-1, 1}, unit \in {"char", "word"} : \E p \in FindPosH(dir, unit) :
        \E s \in {CASE sel.from # sel.to -> ReplaceRange(sel.from, sel.to, <<0>>)
                    [] sel.from = sel.to /\ dir < 0 -> ReplaceRange(p, sel.to, <<0>>)
                    [] OTHER -> ReplaceRange(sel.from, p, <<0>>)} :
          InBounds(s) /\ Becomes(s, drag # Null) /\ shift' = Null /\ UNCHANGED drag
  BY DEF DeleteH
<1>1. PICK p \in FindPosH(dir, unit) :
        \E s \in {CASE sel.from # sel.to -> ReplaceRange(sel.from, sel.to, <<0>>)
                    [] sel.from = sel.to /\ dir < 0 -> ReplaceRange(p, sel.to, <<0>>)
                    [] OTHER -> ReplaceRange(sel.from, p, <<0>>)} :
          InBounds(s) /\ Becomes(s, drag # Null) /\ shift' = Null /\ UNCHANGED drag
  BY <1>0
<1> DEFINE s == CASE sel.from # sel.to -> ReplaceRange(sel.from, sel.to, none)
                  [] sel.from = sel.to /\ dir < 0 -> ReplaceRange(p, sel.to, none)
                  [] OTHER -> ReplaceRange(sel.from, p, none)
<1>2. InBounds(s) /\ BecomesBy(s, drag # Null, Null) /\ shift' = Null /\ drag' = drag
  BY <1>1 DEF Becomes
<1>3. none \in Seq(Nat) \ {<<>>}
  OBVIOUS
<1> HIDE DEF none
<1>4. /\ sel.from \in Places /\ sel.to \in Places /\ Valid(sel.from, lines) /\ Valid(sel.to, lines)
      /\ ~Less(sel.to, sel.from)
  BY DEF SelectionInv, Ranges, Sound
<1>5. Ahead(p, IF sel.inverted THEN sel.from ELSE sel.to, dir)
  BY Finds
<1>6. /\ p \in Places /\ Valid(p, lines)
      /\ sel.from = sel.to /\ dir = -1 => ~Less(sel.to, p)
      /\ sel.from = sel.to /\ dir = 1 => ~Less(p, sel.from)
  BY <1>5 DEF Ahead
<1>7. Settled(s)
  <2>1. CASE sel.from # sel.to
    <3>1. Settled(ReplaceRange(sel.from, sel.to, none))
      BY <1>3, <1>4, ReplaceSettles
    <3> QED
      BY <2>1, <3>1
  <2>2. CASE sel.from = sel.to /\ dir = -1
    <3>1. Settled(ReplaceRange(p, sel.to, none))
      BY <2>2, <1>3, <1>4, <1>6, ReplaceSettles
    <3> QED
      BY <2>2, <3>1
  <2>3. CASE sel.from = sel.to /\ dir = 1
    <3>1. Settled(ReplaceRange(sel.from, p, none))
      BY <2>3, <1>3, <1>4, <1>6, ReplaceSettles
    <3> QED
      BY <2>3, <3>1
  <2> QED
    BY <2>1, <2>2, <2>3
<1> HIDE DEF s
<1>8. SelectionInv' /\ edit' = (IF stray' THEN Null ELSE Null)
  BY <1>2, <1>7, EditingKeeps
<1> QED
  BY <1>8

LEMMA KeyUpKeeps ==
  ASSUME SelectionInv, ~stray, KeyUp
  PROVE  SelectionInv' /\ edit' = Null
BY DEF KeyUp, SelectionInv, Short, Sound, Dragged, Valid, Less

LEMMA SetLineHiddenKeeps ==
  ASSUME SelectionInv, ~stray, inputs < MaxInputs, SetLineHidden
  PROVE  SelectionInv' /\ edit' = Null
<1>1. PICK n \in 0..Len(lines) - 1, hide \in BOOLEAN :
        LET ls   == [lines EXCEPT ![n + 1].hidden = hide]
            out(p) == IF p[1] = n THEN SkipHidden(ls, <<n, 0>>, n, 0) ELSE p
            s    == [Now EXCEPT !.lines = ls]
        IN  /\ lines[n + 1].hidden # hide
            /\ Becomes(IF ~hide \/ n \notin {sel.from[1], sel.to[1]} \/ out(sel.to) = Null \/ out(sel.from) = Null
                       THEN s ELSE SetSelection(s, out(sel.from), out(sel.to), sel.from[1], sel.to[1]), FALSE)
            /\ UNCHANGED <<shift, drag>>
  BY DEF SetLineHidden
<1> DEFINE k == n + 1
           ls == [lines EXCEPT ![n + 1].hidden = hide]
           out(p) == IF p[1] = n THEN SkipHidden(ls, <<n, 0>>, n, 0) ELSE p
           s == [Now EXCEPT !.lines = ls]
           a == out(sel.from)
           b == out(sel.to)
           u == SetSelection(s, a, b, sel.from[1], sel.to[1])
           r == IF ~hide \/ n \notin {sel.from[1], sel.to[1]} \/ b = Null \/ a = Null THEN s ELSE u
<1>2. Becomes(r, FALSE) /\ shift' = shift /\ drag' = drag
  BY <1>1
<1>3. /\ lines \in Documents /\ sel \in Ranges /\ Sound(sel, lines) /\ (shift = Null \/ shift \in Places)
      /\ sel.from \in Places /\ sel.to \in Places /\ Valid(sel.from, lines) /\ Valid(sel.to, lines)
      /\ sel.from[1] \in Int /\ sel.to[1] \in Int
  BY DEF SelectionInv, Ranges, Places, Sound
<1>4. /\ Len(lines) \in Nat \ {0} /\ DOMAIN lines = 1..Len(lines)
      /\ \A i \in 1..Len(lines) : lines[i] \in LineObjects /\ lines[i].len \in Nat
  BY <1>3, LineOf
<1>5. ls \in Documents /\ SameLengths(ls, lines)
  <2>1. k \in 1..Len(lines)
    BY <1>4
  <2>2. ls = [lines EXCEPT ![k] = [lines[k] EXCEPT !.hidden = hide]]
    OBVIOUS
  <2> HIDE DEF k, ls
  <2>3. [lines[k] EXCEPT !.hidden = hide] \in LineObjects /\ [lines[k] EXCEPT !.hidden = hide].len = lines[k].len
    BY <2>1, <1>4 DEF LineObjects
  <2>4. ls \in Seq(LineObjects) /\ Len(ls) = Len(lines)
    BY <1>3, <2>1, <2>2, <2>3 DEF Documents
  <2>5. \A i \in 1..Len(lines) : ls[i].len = lines[i].len
    BY <1>4, <2>1, <2>2, <2>3
  <2>6. ls # <<>>
    BY <1>4, <2>4, EmptySeq
  <2> QED
    BY <2>4, <2>5, <2>6 DEF Documents, SameLengths
<1> HIDE DEF ls
<1>6. s \in Settings /\ s.lines = ls /\ s.sel = sel
  BY <1>3, <1>5 DEF Now, Settings
<1>7. Sound(sel, ls) /\ \A p \in Places : Valid(p, lines) => Valid(p, ls)
  BY <1>3, <1>5, SoundStays, Refits
<1>8. Selects(s)
  BY <1>5, <1>6, <1>7 DEF Selects, Settled
<1>9. ASSUME NEW p \in Places, Valid(p, lines)
      PROVE  out(p) = Null \/ (out(p) \in Places /\ Valid(out(p), ls))
  <2>1. CASE p[1] = n
    <3> DEFINE z == <<n, 0>>
    <3>1. z \in Places
      BY DEF Places
    <3>2. Valid(z, ls)
      BY <2>1, <1>5, <1>7, <1>9, Indexed
    <3> HIDE DEF z
    <3>3. n \in Int /\ 0 \in Int
      OBVIOUS
    <3>4. SkipHidden(ls, z, n, 0) = Null \/ (SkipHidden(ls, z, n, 0) \in Places /\ Valid(SkipHidden(ls, z, n, 0), ls))
      BY <3>1, <3>2, <3>3, <1>5, Skips
    <3> QED
      BY <2>1, <3>4 DEF z
  <2>2. CASE p[1] # n
    BY <2>2, <1>7, <1>9
  <2> QED
    BY <2>1, <2>2
<1>10. (a = Null \/ (a \in Places /\ Valid(a, ls))) /\ (b = Null \/ (b \in Places /\ Valid(b, ls)))
  BY <1>3, <1>9
<1> HIDE DEF s, a, b, out
<1>11. a # Null /\ b # Null => Selects(u)
  <2> SUFFICES ASSUME a # Null, b # Null PROVE Selects(u)
    OBVIOUS
  <2>1. /\ s \in Settings /\ a \in Places /\ b \in Places /\ Valid(a, s.lines) /\ Valid(b, s.lines)
        /\ sel.from[1] \in Int /\ sel.to[1] \in Int /\ ((s.sel.from = a /\ s.sel.to = b) => Sound(s.sel, s.lines))
    BY <1>3, <1>6, <1>7, <1>10
  <2>2. u \in Settings /\ SameLengths(u.lines, s.lines) /\ (u.threw \/ Crossed(u) \/ Sound(u.sel, u.lines))
    BY <2>1, SelectionIsSet
  <2> HIDE DEF u
  <2>3. SameLengths(u.lines, lines)
    BY <2>2, <1>5, <1>6 DEF SameLengths
  <2> QED
    BY <2>2, <2>3 DEF Selects, Settled
<1> HIDE DEF u
<1>12. Selects(r)
  BY <1>8, <1>11
<1> HIDE DEF r
<1>13. Selects(r) /\ Becomes(r, FALSE) /\ (shift' = Null \/ shift' \in Places) /\ drag' = drag
  BY <1>2, <1>3, <1>12
<1> QED
  BY <1>13, SelectingKeeps

(* The mouse. *)
LEMMA LineStarts ==
  ASSUME SelectionInv, NEW p \in Positions
  PROVE  /\ <<p[1], 0>> \in Places /\ Valid(<<p[1], 0>>, lines)
         /\ Clip(<<p[1], 0>>, lines) \in Places /\ Valid(Clip(<<p[1], 0>>, lines), lines)
         /\ Clip(<<p[1] + 1, 0>>, lines) \in Places /\ Valid(Clip(<<p[1] + 1, 0>>, lines), lines)
<1>1. lines \in Documents /\ p \in Places /\ Valid(p, lines)
  BY Inside DEF SelectionInv
<1>2. <<p[1], 0>> \in Places /\ <<p[1] + 1, 0>> \in Places
  BY <1>1 DEF Places
<1> QED
  BY <1>1, <1>2, Indexed, Clips

LEMMA MouseDownKeeps ==
  ASSUME SelectionInv, ~stray, inputs < MaxInputs, MouseDown
  PROVE  SelectionInv' /\ edit' = Null
<1>1. PICK p \in Positions, down \in BOOLEAN, type \in {"single", "triple"} :
        /\ Becomes(IF type = "single" THEN SelectUser(p, p, Shifted(down))
                   ELSE SelectUser(<<p[1], 0>>, Clip(<<p[1] + 1, 0>>, lines), Shifted(down)), FALSE)
        /\ shift' = Shifted(down)
        /\ drag' = [type |-> type, start |-> p, from |-> sel'.from, to |-> sel'.to]
  BY DEF MouseDown
<1>2. p \in Places /\ Valid(p, lines)
  BY Inside
<1>3. Shifted(down) = Null \/ Shifted(down) \in Places
  BY ShiftIsPlace
<1> DEFINE one == SelectUser(p, p, Shifted(down))
           row == SelectUser(<<p[1], 0>>, Clip(<<p[1] + 1, 0>>, lines), Shifted(down))
           s == IF type = "single" THEN one ELSE row
<1>4. Selects(one)
  BY <1>2, <1>3, SelectUserSettles
<1>5. Selects(row)
  <2>1. /\ <<p[1], 0>> \in Places /\ Valid(<<p[1], 0>>, lines)
        /\ Clip(<<p[1] + 1, 0>>, lines) \in Places /\ Valid(Clip(<<p[1] + 1, 0>>, lines), lines)
    BY LineStarts
  <2> QED
    BY <2>1, <1>3, SelectUserSettles
<1>6. Becomes(s, FALSE)
  BY <1>1
<1> HIDE DEF one, row
<1>7. Selects(s)
  BY <1>4, <1>5
<1> HIDE DEF s
<1>8. shift' = Null \/ shift' \in Places
  BY <1>1, <1>3
<1>9. \E z \in Places : Valid(z, lines) /\ \E kind : drag' = [type |-> kind, start |-> z, from |-> sel'.from, to |-> sel'.to]
  BY <1>1, <1>2
<1> QED
  BY <1>6, <1>7, <1>8, <1>9, SelectingKeeps

LEMMA MouseMoveKeeps ==
  ASSUME SelectionInv, ~stray, inputs < MaxInputs, MouseMove
  PROVE  SelectionInv' /\ edit' = Null
<1>1. PICK cur \in Positions, release \in BOOLEAN :
        /\ drag # Null /\ Becomes(DoSelect(cur), FALSE)
        /\ drag' = (IF release THEN Null ELSE drag) /\ shift' = shift
  BY DEF MouseMove
<1>2. cur \in Places /\ Valid(cur, lines) /\ (shift = Null \/ shift \in Places)
  BY Inside DEF SelectionInv
<1>3. /\ drag.start \in Places /\ drag.from \in Places /\ drag.to \in Places
      /\ Valid(drag.start, lines) /\ Valid(drag.from, lines) /\ Valid(drag.to, lines)
  BY <1>1 DEF SelectionInv, Dragged
<1>4. /\ Clip(<<cur[1], 0>>, lines) \in Places /\ Valid(Clip(<<cur[1], 0>>, lines), lines)
      /\ Clip(<<cur[1] + 1, 0>>, lines) \in Places /\ Valid(Clip(<<cur[1] + 1, 0>>, lines), lines)
  BY LineStarts
<1>5. Selects(SelectUser(drag.start, cur, shift))
  BY <1>2, <1>3, SelectUserSettles
<1>6. Selects(SelectUser(drag.to, Clip(<<cur[1], 0>>, lines), shift))
  BY <1>2, <1>3, <1>4, SelectUserSettles
<1>7. Selects(SelectUser(drag.from, Clip(<<cur[1] + 1, 0>>, lines), shift))
  BY <1>2, <1>3, <1>4, SelectUserSettles
<1> DEFINE s == DoSelect(cur)
<1>8. Selects(s)
  <2>1. CASE drag.type = "single"
    BY <2>1, <1>5 DEF DoSelect
  <2>2. CASE drag.type = "triple" /\ Less(cur, drag.from)
    BY <2>2, <1>6 DEF DoSelect
  <2>3. CASE drag.type # "single" /\ ~(drag.type = "triple" /\ Less(cur, drag.from))
    BY <2>3, <1>7 DEF DoSelect
  <2> QED
    BY <2>1, <2>2, <2>3
<1> HIDE DEF s
<1>9. Becomes(s, FALSE) /\ (shift' = Null \/ shift' \in Places) /\ (drag' = drag \/ drag' = Null)
  BY <1>1, <1>2 DEF s
<1> QED
  BY <1>8, <1>9, SelectingKeeps

-----------------------------------------------------------------------------
LEMMA SelectionStarts == SelectionInit => SelectionInv
<1> SUFFICES ASSUME SelectionInit PROVE SelectionInv
  OBVIOUS
<1>1. InitLines \in Seq(0..MaxLength) /\ InitLines # <<>> /\ MaxLength \in Nat /\ MaxInputs \in Nat
  BY SelectionAssumption
<1>2. Len(InitLines) \in Nat \ {0} /\ DOMAIN InitLines = 1..Len(InitLines) /\ \A i \in 1..Len(InitLines) : InitLines[i] \in 0..MaxLength
  BY <1>1, EmptySeq
<1>3. lines = [i \in 1..Len(InitLines) |-> [len |-> InitLines[i], hidden |-> FALSE]]
  BY <1>2 DEF SelectionInit
<1>4. \A i \in 1..Len(InitLines) : lines[i] = [len |-> InitLines[i], hidden |-> FALSE] /\ lines[i] \in LineObjects
                                   /\ lines[i].len <= MaxLength
  BY <1>1, <1>2, <1>3 DEF LineObjects
<1>5. lines \in Seq(LineObjects) /\ Len(lines) = Len(InitLines)
  BY <1>2, <1>3, <1>4
<1>6. lines \in Documents /\ Short(lines)
  BY <1>2, <1>4, <1>5, EmptySeq DEF Documents, Short
<1>7. PICK p \in Positions : sel = [from |-> p, to |-> p, inverted |-> FALSE]
  BY DEF SelectionInit
<1>8. p \in Places /\ Valid(p, lines) /\ ~Less(p, p)
  BY Inside DEF Less, Places
<1>9. sel \in Ranges /\ Sound(sel, lines)
  BY <1>7, <1>8 DEF Ranges, Sound
<1>10. shift = Null /\ drag = Null /\ stray = FALSE /\ inputs = 0
  BY DEF SelectionInit
<1>11. inputs \in 0..MaxInputs /\ Dragged(drag, lines)
  BY <1>1, <1>10 DEF Dragged
<1> QED
  BY <1>6, <1>9, <1>10, <1>11 DEF SelectionInv

LEMMA SelectionGoesOn == SelectionInv /\ [SelectionNext]_selectionVars => SelectionInv'
<1> SUFFICES ASSUME SelectionInv, [SelectionNext]_selectionVars PROVE SelectionInv'
  OBVIOUS
<1>1. CASE UNCHANGED selectionVars
  BY <1>1 DEF selectionVars, SelectionInv, Short, Sound, Dragged, Valid, Less
<1>2. CASE SelectionNext
  <2>0. ~stray /\ inputs < MaxInputs
    BY <1>2 DEF SelectionNext
  <2>1. CASE ReplaceText
    BY <2>0, <2>1, ReplaceTextKeeps
  <2>2. CASE SetValue
    BY <2>0, <2>2, SetValueKeeps
  <2>3. CASE Type
    BY <2>0, <2>3, TypeKeeps
  <2>4. CASE SetSelectionCall
    BY <2>0, <2>4, SetSelectionKeeps
  <2>5. CASE MoveH
    BY <2>0, <2>5, MoveHKeeps
  <2>6. CASE DeleteH
    BY <2>0, <2>6, DeleteHKeeps
  <2>7. CASE KeyUp
    BY <2>0, <2>7, KeyUpKeeps
  <2>8. CASE SetLineHidden
    BY <2>0, <2>8, SetLineHiddenKeeps
  <2>9. CASE MouseDown
    BY <2>0, <2>9, MouseDownKeeps
  <2>10. CASE MouseMove
    BY <2>0, <2>10, MouseMoveKeeps
  <2> QED
    BY <1>2, <2>1, <2>2, <2>3, <2>4, <2>5, <2>6, <2>7, <2>8, <2>9, <2>10 DEF SelectionNext
<1> QED
  BY <1>1, <1>2

(* The ends of the selection are valid places of the text, in order, after   *)
(* any events, until one of the three cases of `stray` comes up; and so are  *)
(* the places a drag keeps.                                                  *)
THEOREM SelectionIsSound == SelectionSpec => []SelectionInv
<1> QED
  BY SelectionStarts, SelectionGoesOn, PTL DEF SelectionSpec

LEMMA SelectionIsTyped == SelectionInv => SelectionTypeOK /\ SelectionValid
<1> SUFFICES ASSUME SelectionInv PROVE SelectionTypeOK /\ SelectionValid
  OBVIOUS
<1>1. lines \in Documents /\ lines \in Seq(LineObjects) /\ lines # <<>> /\ Short(lines)
  BY DEF SelectionInv, Documents
<1>2. Len(lines) \in Nat /\ \A i \in 1..Len(lines) : lines[i] \in LineObjects /\ lines[i].len \in Nat
  BY <1>1, LineOf
<1>3. \A i \in 1..Len(lines) : lines[i] \in [len : 0..MaxLength, hidden : BOOLEAN]
  BY <1>1, <1>2, SelectionAssumption DEF LineObjects, Short
<1>4. lines \in Seq([len : 0..MaxLength, hidden : BOOLEAN])
  <2> DEFINE S == [len : 0..MaxLength, hidden : BOOLEAN]
  <2> HIDE DEF S
  <2>1. \A i \in 1..Len(lines) : lines[i] \in S
    BY <1>3 DEF S
  <2>2. lines \in Seq(S)
    BY <1>1, <1>2, <2>1
  <2> QED
    BY <2>2 DEF S
<1>5. SelectionTypeOK
  BY <1>1, <1>4 DEF SelectionInv, SelectionTypeOK, Ranges
<1>6. SelectionValid
  BY DEF SelectionInv, SelectionValid, Sound
<1> QED
  BY <1>5, <1>6

(* One edit: what replaceRange does to the ends. *)
LEMMA EditsLeaveEnds ==
  ASSUME SelectionInv, SelectionNext, edit' # Null
  PROVE  LET from == edit'[1]  to == edit'[2]  joins == (from[1] = to[1]) # (edit'[3] = 1)
             misplaced(p) == joins /\ p[1] = to[1] /\ Less(to, p)
         IN  /\ (Less(sel.from, from) /\ ~misplaced(sel.to)) => sel'.from = sel.from
             /\ (Less(to, sel.from) /\ ~misplaced(sel.from) /\ ~lines[sel.from[1] + 1].hidden) =>
                   TextBehind(sel'.from, lines') = TextBehind(sel.from, lines)
<1>0. ~stray /\ inputs < MaxInputs
  BY DEF SelectionNext
<1>1. ReplaceText
  BY <1>0, SetValueKeeps, TypeKeeps, SetSelectionKeeps, MoveHKeeps, DeleteHKeeps, KeyUpKeeps, SetLineHiddenKeeps,
     MouseDownKeeps, MouseMoveKeeps DEF SelectionNext
<1>2. PICK from \in Positions, to \in Positions, code \in Insertions :
        /\ ~Less(to, from)
        /\ InBounds(ReplaceRange(from, to, code))
        /\ BecomesBy(ReplaceRange(from, to, code), drag # Null, <<from, to, Len(code)>>)
        /\ shift' = shift /\ drag' = drag
  BY <1>1 DEF ReplaceText
<1>3. from \in Places /\ to \in Places /\ Valid(from, lines) /\ Valid(to, lines) /\ code \in Seq(Nat) \ {<<>>}
  BY Inside, SelectionAssumption
<1> DEFINE r == ReplaceRange(from, to, code)
<1>4. Settled(r)
  BY <1>2, <1>3, <1>0, ReplaceSettles
<1>5. LET joins == (from[1] = to[1]) # (Len(code) = 1)
          misplaced(p) == joins /\ p[1] = to[1] /\ Less(to, p)
      IN  ~r.threw =>
            /\ (Less(sel.from, from) /\ ~misplaced(sel.to)) => r.sel.from = sel.from
            /\ (Less(to, sel.from) /\ ~misplaced(sel.from) /\ ~lines[sel.from[1] + 1].hidden) =>
                  TextBehind(r.sel.from, r.lines) = TextBehind(sel.from, lines)
  <2>1. lines \in Documents /\ sel \in Ranges /\ Sound(sel, lines)
    BY <1>0 DEF SelectionInv
  <2> QED
    BY <2>1, <1>2, <1>3, EndsStay
<1>6. InBounds(r) /\ BecomesBy(r, drag # Null, <<from, to, Len(code)>>)
  BY <1>2
<1> HIDE DEF r
<1>7. edit' = (IF stray' THEN Null ELSE <<from, to, Len(code)>>) /\ lines' = r.lines /\ sel' = r.sel /\ (~stray' => ~r.threw)
  BY <1>0, <1>2, <1>4, <1>6, EditingKeeps
<1>8. ~r.threw /\ edit' = <<from, to, Len(code)>>
  BY <1>7
<1>9. edit'[1] = from /\ edit'[2] = to /\ edit'[3] = Len(code)
  BY <1>8
<1> QED
  BY <1>5, <1>7, <1>8, <1>9

(* The ends are valid and in order, and an edit leaves the first end where   *)
(* it is or with the text behind it.                                         *)
THEOREM SelectionIsRight == SelectionSpec => SelectionRight
<1>1. SelectionSpec => [](SelectionTypeOK /\ SelectionValid)
  BY SelectionIsSound, SelectionIsTyped, PTL
<1>2. SelectionSpec => EndsStayInPlace
  <2>1. SelectionInv /\ [SelectionNext]_selectionVars =>
          [edit' # Null =>
             LET from == edit'[1]  to == edit'[2]  joins == (from[1] = to[1]) # (edit'[3] = 1)
                 misplaced(p) == joins /\ p[1] = to[1] /\ Less(to, p)
             IN  /\ (Less(sel.from, from) /\ ~misplaced(sel.to)) => sel'.from = sel.from
                 /\ (Less(to, sel.from) /\ ~misplaced(sel.from) /\ ~lines[sel.from[1] + 1].hidden) =>
                       TextBehind(sel'.from, lines') = TextBehind(sel.from, lines)]_selectionVars
    BY EditsLeaveEnds
  <2> QED
    BY <2>1, SelectionIsSound, PTL DEF SelectionSpec, EndsStayInPlace
<1> QED
  BY <1>1, <1>2 DEF SelectionRight
==============================================================================
