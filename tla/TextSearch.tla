----------------------------- MODULE TextSearch -----------------------------
(* Searching and replacing in the editor (plugins/codemirror/util/search.js  *)
(* over searchcursor.js): the cursor that steps from one occurrence to the   *)
(* next, the search a user goes on with, the replacing of all occurrences    *)
(* and of one after the other with a question before each.                   *)
(*                                                                           *)
(* A line is a sequence of characters and a position a record of a line,     *)
(* counted from 1, and a column, counted from 0.  A query is a sequence of   *)
(* lines.  Queries that are regular expressions are not modelled.            *)
EXTENDS Integers, Sequences, SequencesExt, FiniteSetsExt

CONSTANTS Texts,     \* the texts of the editor
          Queries,   \* what is searched for
          NewTexts,  \* what it is replaced with, one line each
          MaxSteps   \* bound: commands and edits

VARIABLES doc,     \* the lines
          sel,     \* the selection, [from, to]
          search,  \* the search state: [query, from, to, marked]
          marks,   \* the markers of occurrences that show in the editor
          asked,   \* the replacement a user is asked about: [query, new, pos, at, edited]
          steps

vars == <<doc, sel, search, marks, asked, steps>>

None == <<>>
Pos(line, ch) == [line |-> line, ch |-> ch]
Start == Pos(1, 0)
End(d) == Pos(Len(d), Len(d[Len(d)]))
Nowhere == [from |-> Pos(0, 0), to |-> Pos(0, 0)]
Before(p, q) == p.line < q.line \/ (p.line = q.line /\ p.ch <= q.ch)

ClipPos(d, p) ==
  CASE p.line < 1 -> Start
    [] p.line > Len(d) -> End(d)
    [] OTHER -> [p EXCEPT !.ch = IF @ > Len(d[p.line]) THEN Len(d[p.line]) ELSE IF @ < 0 THEN 0 ELSE @]

-----------------------------------------------------------------------------
(* A query without capitals is searched for in either case. *)
Lower(t) == [k \in DOMAIN t |-> IF t[k] = "A" THEN "a" ELSE t[k]]
Folded(q, t) == IF \A i \in DOMAIN q : Lower(q[i]) = q[i] THEN Lower(t) ELSE t

Occurs(part, t, ch) == ch >= 0 /\ ch + Len(part) <= Len(t) /\ SubSeq(t, ch + 1, ch + Len(part)) = part
Columns(part, t) == {ch \in 0..Len(t) : Occurs(part, t, ch)}
LastIndexOf(part, t) == Max(Columns(part, t) \cup {-1})

MatchInLine(d, q, reverse, pos) ==
  LET size   == Len(q[1])
      all    == Columns(q[1], Folded(q, d[pos.line]))
      at(ch) == [from |-> Pos(pos.line, ch), to |-> Pos(pos.line, ch + size)]
      nearest(ours) == IF ours = {} THEN Nowhere ELSE at(IF reverse THEN Max(ours) ELSE Min(ours))
  IN  nearest({ch \in all : IF reverse THEN ch + size <= pos.ch ELSE ch >= pos.ch})

(* A query of several lines is never found where it begins at the column,    *)
(* or backwards ends at the column, the search is at.  Backwards the line of *)
(* its beginning may also be one character too short for it.                 *)
MatchLines(d, q, reverse, pos) ==
  LET n     == Len(q)
      first == IF reverse THEN pos.line - n + 1 ELSE pos.line
      last  == first + n - 1
      text(i) == Folded(q, d[first + i - 1])
      begin == LastIndexOf(q[1], text(1))
      fits  == /\ begin = Len(text(1)) - Len(q[1])
               /\ \A i \in 2..n - 1 : text(i) = q[i]
               /\ Occurs(q[n], text(n), 0)
  IN  IF first < 1 \/ last > Len(d) THEN Nowhere
      ELSE IF fits /\ (IF reverse THEN Len(q[n]) < pos.ch ELSE begin > pos.ch)
      THEN [from |-> Pos(first, begin), to |-> Pos(last, Len(q[n]))] ELSE Nowhere

Matches(d, q, reverse, pos) == IF Len(q) = 1 THEN MatchInLine(d, q, reverse, pos) ELSE MatchLines(d, q, reverse, pos)

LineFrom(d, line, reverse, pos) ==
  CASE line = pos.line -> pos
    [] line # pos.line /\ reverse -> Pos(line, Len(d[line]))
    [] OTHER -> Pos(line, 0)

(* find: line by line until one has a match. *)
FindFrom(d, q, reverse, pos) ==
  LET lines    == IF reverse THEN 1..pos.line ELSE pos.line..Len(d)
      match(l) == Matches(d, q, reverse, LineFrom(d, l, reverse, pos))
      first(found) == IF found = {} THEN Nowhere ELSE match(IF reverse THEN Max(found) ELSE Min(found))
  IN  first({l \in lines : match(l) # Nowhere})
Find(d, q, reverse, at) == FindFrom(d, q, reverse, ClipPos(d, at))

(* replaceRange with a text of one line, between clipped positions. *)
ReplaceRange(d, new, range) ==
  LET f    == ClipPos(d, range.from)
      t    == ClipPos(d, range.to)
      line == SubSeq(d[f.line], 1, f.ch) \o new \o SubSeq(d[t.line], t.ch + 1, Len(d[t.line]))
  IN  SubSeq(d, 1, f.line - 1) \o <<line>> \o SubSeq(d, t.line + 1, Len(d))
(* adjustPos, which keeps an end of the selection with its text. *)
AdjustPos(d, new, range, pos) ==
  LET f == ClipPos(d, range.from)
      t == ClipPos(d, range.to)
  IN  CASE ~Before(f, pos) -> pos
        [] Before(f, pos) /\ Before(pos, t) -> Pos(f.line, f.ch + Len(new))
        [] OTHER -> Pos(pos.line - (t.line - f.line),
                        IF pos.line = t.line THEN pos.ch + Len(new) - t.ch + (IF t.line = f.line THEN f.ch ELSE 0)
                        ELSE pos.ch)
Carried(d, s, new, range) ==
  [from |-> AdjustPos(d, new, range, s.from), to |-> AdjustPos(d, new, range, s.to)]
EndOf(d, new, range) == LET f == ClipPos(d, range.from) IN Pos(f.line, f.ch + Len(new))

(* The text and the selection after every occurrence from at on is replaced. *)
RECURSIVE Exchanged(_, _, _, _, _)
Exchanged(d, s, q, new, at) ==
  LET found == Find(d, q, FALSE, at)
  IN  IF found = Nowhere THEN [doc |-> d, sel |-> s]
      ELSE Exchanged(ReplaceRange(d, new, found), Carried(d, s, new, found), q, new, EndOf(d, new, found))

RECURSIVE FoundFrom(_, _, _)
FoundFrom(d, q, at) ==
  LET found == Find(d, q, FALSE, at) IN IF found = Nowhere THEN {} ELSE {found} \cup FoundFrom(d, q, found.to)

-----------------------------------------------------------------------------
NoSearch == [query |-> None, from |-> Start, to |-> Start, marked |-> {}]
NotAsked == [query |-> None, new |-> <<>>, pos |-> Nowhere, at |-> FALSE, edited |-> FALSE]

Init ==
  /\ doc \in Texts /\ sel = [from |-> Start, to |-> Start]
  /\ search = NoSearch /\ marks = {} /\ asked = NotAsked /\ steps = 0

(* findNext: from where the last find left off, else from the other end.     *)
Onward(s, rev) ==
  \E here \in {Find(doc, s.query, rev, IF rev THEN s.from ELSE s.to)} :
    \E hit \in {IF here # Nowhere THEN here ELSE Find(doc, s.query, rev, IF rev THEN End(doc) ELSE Start)} :
      IF hit = Nowhere THEN search' = s /\ UNCHANGED sel
      ELSE sel' = hit /\ search' = [s EXCEPT !.from = hit.from, !.to = hit.to]

(* Mutant: the markers are dropped from the list but not cleared. *)
Cleared_ListOnly ==
  /\ search' = IF search.query = None THEN search ELSE [search EXCEPT !.query = None, !.marked = {}]
  /\ UNCHANGED marks

(* clearSearch *)
Cleared ==
  /\ marks' = IF search.query = None THEN marks ELSE marks \ search.marked
  /\ search' = IF search.query = None THEN search ELSE [search EXCEPT !.query = None, !.marked = {}]

ClearSearch == Cleared /\ UNCHANGED <<doc, sel, asked>>

(* The find command clears the search and asks what for; two questions may   *)
(* be open, and only the first that is answered counts.                      *)
Answer ==
  \E q \in Queries, rev \in BOOLEAN :
    LET new == {<<steps, r>> : r \in FoundFrom(doc, q, Start)}
    IN  /\ search.query = None
        /\ Onward([query |-> q, from |-> sel.to, to |-> sel.to, marked |-> search.marked \cup new], rev)
        /\ marks' = marks \cup new
        /\ UNCHANGED <<doc, asked>>

FindAgain == \E rev \in BOOLEAN : search.query # None /\ Onward(search, rev) /\ UNCHANGED <<doc, marks, asked>>

(* A question that is open does not notice that the text becomes another.    *)
Disturbed == asked' = IF asked = NotAsked THEN asked ELSE [asked EXCEPT !.edited = TRUE]

ReplaceEvery ==
  \E q \in Queries, new \in NewTexts :
    \E all \in {Exchanged(doc, sel, q, new, Start)} :
      /\ doc' = all.doc /\ sel' = all.sel /\ Disturbed
      /\ UNCHANGED <<search, marks>>

(* advance: the next occurrence is selected and asked about; from the end it *)
(* goes on at the start, until it is at the place it comes from.  Otherwise  *)
(* the selection is s.                                                       *)
Advance(d, s, a) ==
  \E next \in {Find(d, a.query, FALSE, a.pos.to)}, again \in {Find(d, a.query, FALSE, Start)} :
    LET hit   == IF next # Nowhere THEN next ELSE again
        over  == next = Nowhere /\ (again = Nowhere \/ (a.at /\ again.from = a.pos.from))
    IN  IF over THEN asked' = NotAsked /\ sel' = s
        ELSE asked' = [a EXCEPT !.pos = hit, !.at = TRUE, !.edited = FALSE] /\ sel' = hit

Replace ==
  \E q \in Queries, new \in NewTexts :
    /\ asked = NotAsked
    /\ Advance(doc, sel, [query |-> q, new |-> new, pos |-> [from |-> sel.to, to |-> sel.to], at |-> FALSE, edited |-> FALSE])
    /\ Cleared /\ UNCHANGED doc

Yes ==
  /\ asked # NotAsked
  /\ doc' = ReplaceRange(doc, asked.new, asked.pos)
  /\ Advance(doc', Carried(doc, sel, asked.new, asked.pos),
             [asked EXCEPT !.pos.to = EndOf(doc, asked.new, asked.pos)])
  /\ UNCHANGED <<search, marks>>
No == asked # NotAsked /\ Advance(doc, sel, asked) /\ UNCHANGED <<doc, search, marks>>
Stop == asked # NotAsked /\ asked' = NotAsked /\ UNCHANGED <<doc, sel, search, marks>>

(* Another text is loaded; the markers go with the old one.                  *)
Edit ==
  \E t \in Texts :
    /\ t # doc /\ doc' = t /\ sel' = [from |-> End(t), to |-> End(t)] /\ marks' = {}
    /\ Disturbed /\ UNCHANGED search

Next ==
  /\ steps < MaxSteps /\ steps' = steps + 1
  /\ ClearSearch \/ Answer \/ FindAgain \/ ReplaceEvery \/ Replace \/ Yes \/ No \/ Stop \/ Edit

Spec == Init /\ [][Next]_vars

-----------------------------------------------------------------------------
SearchTypeOK == doc # <<>> /\ asked.edited \in BOOLEAN /\ search.query \in Queries \cup {None}

(* The places where the query stands in the text. *)
Stands(d, q, l, ch) ==
  LET text(i) == Folded(q, d[l + i - 1])
      n == Len(q)
  IN  /\ l + n - 1 <= Len(d) /\ Occurs(q[1], text(1), ch)
      /\ n > 1 => /\ ch + Len(q[1]) = Len(text(1)) /\ Occurs(q[n], text(n), 0)
                  /\ \A i \in 2..n - 1 : text(i) = q[i]
RangeAt(q, l, ch) == [from |-> Pos(l, ch), to |-> Pos(l + Len(q) - 1, Len(Last(q)) + IF Len(q) = 1 THEN ch ELSE 0)]
Places(d, q) == UNION {{RangeAt(q, l, ch) : ch \in {c \in 0..Len(d[l]) : Stands(d, q, l, c)}} : l \in DOMAIN d}

(* From every position, a query of one line is found at its nearest place    *)
(* in the direction of the search.  One of several lines is found only where *)
(* it stands, or backwards at the column before a line too short for it; and *)
(* it is missed only in the places the search cannot see.                    *)
FindsNearest ==
  \A q \in Queries, at \in UNION {{Pos(l, c) : c \in 0..Len(doc[l])} : l \in DOMAIN doc} :
    \A places \in {Places(doc, q)}, next \in {Find(doc, q, FALSE, at)}, prev \in {Find(doc, q, TRUE, at)} :
    LET ahead  == {r \in places : Before(at, r.from)}
        behind == {r \in places : Before(r.to, at)}
        seen(r) == r.from.ch > 0 /\ r.from # at
    IN  IF Len(q) = 1
        THEN /\ next = IF ahead = {} THEN Nowhere ELSE CHOOSE r \in ahead : \A o \in ahead : Before(r.from, o.from)
             /\ prev = IF behind = {} THEN Nowhere ELSE CHOOSE r \in behind : \A o \in behind : Before(o.to, r.to)
        ELSE /\ next \in {r \in ahead : seen(r)} \cup {Nowhere}
             /\ \A r \in ahead : seen(r) => next # Nowhere /\ Before(next.from, r.from)
             /\ prev \in behind \cup {Nowhere} \/ prev.from.ch = -1

(* A line with each occurrence replaced from the left, what replaces one     *)
(* never being looked at again.                                              *)
RECURSIVE Replaced(_, _, _)
Replaced(t, q, new) ==
  CASE t = <<>> -> <<>>
    [] t # <<>> /\ Occurs(q[1], Folded(q, t), 0) -> new \o Replaced(SubSeq(t, Len(q[1]) + 1, Len(t)), q, new)
    [] OTHER -> <<Head(t)>> \o Replaced(Tail(t), q, new)

ReplacesEach ==
  \A q \in {r \in Queries : Len(r) = 1}, new \in NewTexts :
    Exchanged(doc, sel, q, new, Start).doc = [l \in DOMAIN doc |-> Replaced(doc[l], q, new)]

(* Every mark that shows belongs to the search that goes on. *)
MarksAreOfSearch == marks \subseteq search.marked /\ (search.query = None => marks = {})

(* A user is asked about a place where the query stands, unless the text was *)
(* exchanged since.                                                          *)
AskedWhereItStands == (asked # NotAsked /\ ~asked.edited) => asked.pos \in Places(doc, asked.query)

(* Searching finds what is there, and replacing replaces that and no more. *)
SearchRight == FindsNearest /\ ReplacesEach /\ MarksAreOfSearch /\ AskedWhereItStands
=============================================================================
