----------------------------- MODULE TextMarks -----------------------------
(* Marked text and bookmarks of the script editor                            *)
(* (plugins/codemirror/codemirror.js): the fragments of a mark that hang on  *)
(* the line objects, and what replacing a range does to them, case by case   *)
(* as updateLinesNoUndo does it.  Searches, matched brackets and the search  *)
(* box mark the text this way.                                               *)
(*                                                                           *)
(* A line is [id, chars, marked]: the identity of the Line object, its       *)
(* characters, and its fragments [mark, from, to].  The characters of the    *)
(* first text are numbered, the ones that are typed later are 0, so that a   *)
(* property can follow a character through the edits.                        *)
EXTENDS Integers, Sequences, SequencesExt, FiniteSetsExt

CONSTANTS Lengths,     \* the lengths of the lines of the first text
          Marker,      \* markers, of markText
          Bookmark,    \* bookmarks, of setBookmark
          Codes,       \* the lengths of the lines of what may be inserted
          MaxEdits,    \* bound: ranges replaced
          MaxLines     \* bound: lines of the text

VARIABLES doc,         \* the lines, in order
          set,         \* TextMarker.set: the line ids a mark was attached to, per mark
          used,        \* marks already made
          cleared,     \* marks already cleared
          edits,       \* ranges replaced so far
          nextId       \* the next line object

vars == <<doc, set, used, cleared, edits, nextId>>

Mark == Marker \cup Bookmark
NULL == -1

(* null is 0 in a comparison. *)
Num(x) == IF x = NULL THEN 0 ELSE x
Larger(a, b) == IF a > b THEN a ELSE b

Position == UNION {{[line |-> l, ch |-> c] : c \in 0..Len(doc[l].chars)} : l \in 1..Len(doc)}
NotAfter(p, q) == p.line < q.line \/ (p.line = q.line /\ p.ch <= q.ch)

Typed(n) == [i \in 1..n |-> 0]
IsDead(f) == IF f.mark \in Bookmark THEN f.from > f.to
             ELSE f.from # NULL /\ f.to # NULL /\ f.from >= f.to
SameSet(f, g) == f.mark = g.mark /\ f.mark \in Marker

(* attach and detach: a marker keeps the list of its lines, a bookmark only  *)
(* the last one.                                                             *)
Attach(s, f, id) == [s EXCEPT ![f.mark] = IF f.mark \in Bookmark THEN <<id>> ELSE Append(@, id)]
Detach(s, f, id) == [s EXCEPT ![f.mark] = RemoveFirst(@, id)]

DetachAll(s, fragments, id) == FoldLeft(LAMBDA acc, f : Detach(acc, f, id), s, fragments)
AttachAll(s, fragments, id) == FoldLeft(LAMBDA acc, f : Attach(acc, f, id), s, fragments)

(* clipTo, for the fragments of marks and for bookmarks. *)
ClipFrom(f, fromOpen, from, to, diff) ==
  CASE fromOpen /\ to > Num(f.from) /\ (to < Num(f.to) \/ f.to = NULL) -> NULL
    [] ~(fromOpen /\ to > Num(f.from) /\ (to < Num(f.to) \/ f.to = NULL))
       /\ f.from # NULL /\ f.from >= from -> Larger(to, f.from) + diff
    [] OTHER -> f.from

ClipEnd(f, from, toOpen, to, diff) ==
  IF toOpen /\ (from < Num(f.to) \/ f.to = NULL) /\ (from > Num(f.from) \/ f.from = NULL)
  THEN [f EXCEPT !.to = NULL]
  ELSE [f EXCEPT !.to = IF @ = NULL \/ @ <= from THEN @ ELSE IF to < @ THEN @ + diff ELSE from]

ClipTo(f, fromOpen, from, toOpen, to, diff) ==
  ClipEnd([f EXCEPT !.from = ClipFrom(f, fromOpen, from, to, diff)], from, toOpen, to, diff)

ClipBookmark(f, fromOpen, from, toOpen, to, diff) ==
  CASE (fromOpen \/ from < f.from) /\ (toOpen \/ to > f.to) -> [f EXCEPT !.from = 0, !.to = -1]
    [] ~((fromOpen \/ from < f.from) /\ (toOpen \/ to > f.to)) /\ f.from > from ->
         [f EXCEPT !.from = Larger(to, @) + diff, !.to = Larger(to, f.from) + diff]
    [] OTHER -> f

(* Line.replace; from and to are NULL at an open end.  The dead fragments go. *)
LineReplace(w, from, to, code) ==
  LET start == Num(from)
      end   == IF to = NULL THEN Len(w.line.chars) ELSE to
      diff  == Len(code) - (end - start)
      clip(f) == IF f.mark \in Bookmark
                 THEN ClipBookmark(f, from = NULL, start, to = NULL, end, diff)
                 ELSE ClipTo(f, from = NULL, start, to = NULL, end, diff)
      with(clipped) ==
        [line |-> [w.line EXCEPT
                     !.chars = SubSeq(@, 1, start) \o code \o SubSeq(@, end + 1, Len(@)),
                     !.marked = SelectSeq(clipped, LAMBDA f : ~IsDead(f))],
         set  |-> DetachAll(w.set, SelectSeq(clipped, IsDead), w.line.id)]
  IN  with([i \in DOMAIN w.line.marked |-> clip(w.line.marked[i])])

(* Line.split: the new line of what is behind pos; a bookmark behind pos     *)
(* moves, a fragment that reaches behind it gets a second half.              *)
LineSplit(w, pos, code, id) ==
  LET moved(f) == IF f.mark \in Bookmark THEN pos < f.from ELSE ~(f.to # NULL /\ f.to <= pos)
      shift(x) == IF x = NULL THEN NULL ELSE x - pos + Len(code)
      half(f)  == [f EXCEPT !.from = IF f.mark \in Marker /\ (f.from < pos \/ f.from = NULL)
                                     THEN NULL ELSE shift(@),
                            !.to = shift(@)]
      taken    == SelectSeq(w.line.marked, moved)
      halves   == [i \in DOMAIN taken |-> half(taken[i])]
  IN  [line  |-> [w.line EXCEPT !.marked = SelectSeq(@, LAMBDA f : ~(f.mark \in Bookmark /\ moved(f)))],
       taken |-> [id |-> id, marked |-> halves,
                  chars |-> code \o SubSeq(w.line.chars, pos + 1, Len(w.line.chars))],
       set   |-> AttachAll(w.set, halves, id)]

(* Line.append: a fragment at the start of the appended line joins the one   *)
(* of the same mark that ends here, the others move along.  The last line of *)
(* the result is what the appended line keeps.                               *)
LineAppend(w, other) ==
  LET mylen == Len(w.line.chars)
      mine  == [i \in DOMAIN w.line.marked |->
                  [w.line.marked[i] EXCEPT !.to = IF @ = NULL THEN mylen ELSE @]]
      step(acc, f) ==
        LET ends == {j \in DOMAIN acc.mine : acc.mine[j].to = mylen /\ SameSet(acc.mine[j], f)}
            to   == IF f.to = NULL THEN NULL ELSE f.to + mylen
        IN  IF Num(f.from) = 0 /\ ends # {}
            THEN LET j == Min(ends)
                     joined == [acc.mine[j] EXCEPT !.to = to]
                 IN  IF IsDead(joined)
                     THEN [acc EXCEPT !.mine[j] = joined, !.set = Detach(@, joined, w.line.id)]
                     ELSE [acc EXCEPT !.mine[j] = joined, !.left = Append(@, f)]
            ELSE LET placed == [f EXCEPT !.from = Num(@) + mylen, !.to = to]
                 IN  [mine |-> Append(acc.mine, placed), left |-> Append(acc.left, f),
                      set |-> Attach(acc.set, placed, w.line.id)]
      with(end) == [line  |-> [w.line EXCEPT !.chars = @ \o other.chars, !.marked = end.mine],
                    other |-> [other EXCEPT !.marked = end.left],
                    set   |-> end.set]
  IN  with(FoldLeft(step, [mine |-> mine, left |-> <<>>, set |-> w.set], other.marked))

(* Line.fixMarkEnds: a fragment that is open at the end of the line is       *)
(* closed, unless the other line goes on with it; two empty halves vanish    *)
(* (and are not detached).                                                   *)
FixMarkEnds(line, other) ==
  LET step(acc, f) ==
        LET on    == {j \in DOMAIN acc.other : SameSet(acc.other[j], f) /\ acc.other[j].from = NULL}
            j     == Min(on)
            empty == f.from = Len(line.chars) /\ acc.other[j].to = 0
        IN  CASE f.to # NULL -> [acc EXCEPT !.mine = Append(@, f)]
              [] f.to = NULL /\ on = {} ->
                   [acc EXCEPT !.mine = Append(@, [f EXCEPT !.to = Len(line.chars)])]
              [] f.to = NULL /\ on # {} /\ empty -> [acc EXCEPT !.other = RemoveAt(@, j)]
              [] f.to = NULL /\ on # {} /\ ~empty -> [acc EXCEPT !.mine = Append(@, f)]
      with(end) == [line |-> [line EXCEPT !.marked = end.mine], other |-> [other EXCEPT !.marked = end.other]]
  IN  with(FoldLeft(step, [mine |-> <<>>, other |-> other.marked], line.marked))

FixMarkStarts(line) ==
  [line EXCEPT !.marked = [i \in DOMAIN @ |-> [@[i] EXCEPT !.from = Num(@)]]]

(* Line.inheritMarks for the lines with the lengths in codes, ids counting   *)
(* from id: a fragment that is open at the end of orig spans them.           *)
Inherited(codes, orig, id) ==
  LET open  == SelectSeq(orig.marked, LAMBDA f : f.to = NULL /\ f.mark \in Marker)
      spans == [i \in DOMAIN open |-> [open[i] EXCEPT !.from = NULL]]
  IN  [i \in DOMAIN codes |-> [id |-> id + i - 1, chars |-> Typed(codes[i]), marked |-> spans]]

(* Mutant: the fragments a new line inherits are not attached. *)
AttachLines_Not(s, lines) == s

AttachLines(s, lines) == FoldLeft(LAMBDA acc, l : AttachAll(acc, l.marked, l.id), s, lines)
(* Line.cleanUp of lines that leave the document. *)
CleanUp(s, lines) == FoldLeft(LAMBDA acc, l : DetachAll(acc, l.marked, l.id), s, lines)

Nobody == [id |-> 0, chars |-> <<>>, marked |-> <<>>]

(* The four cases of updateLinesNoUndo, each with the lines that come to     *)
(* stand for from.line..to.line and, in the first, for the line before.      *)
WholeLines(from, to, code) ==
  LET last  == doc[to.line]
      fixed == IF from.line > 1 THEN FixMarkEnds(doc[from.line - 1], last)
               ELSE [line |-> Nobody, other |-> FixMarkStarts(last)]
      added == Inherited(Front(code), fixed.line, nextId)
      gone  == SubSeq(doc, from.line, to.line - 1)
  IN  [before |-> IF from.line > 1 THEN <<fixed.line>> ELSE <<>>,
       lines  |-> added \o <<fixed.other>>,
       set    |-> AttachLines(CleanUp(set, gone), added)]

InOneLine(from, to, code) ==
  LET w == LineReplace([line |-> doc[from.line], set |-> set], from.ch, to.ch, Typed(code[1]))
  IN  [before |-> <<>>, lines |-> <<w.line>>, set |-> w.set]

SplitLine(from, to, code) ==
  LET s     == LineSplit([line |-> doc[from.line], set |-> set], to.ch, Typed(Last(code)), nextId)
      w     == LineReplace([line |-> s.line, set |-> s.set], from.ch, NULL, Typed(code[1]))
      fixed == FixMarkEnds(w.line, s.taken)
      added == Inherited(SubSeq(code, 2, Len(code) - 1), fixed.line, nextId + 1)
  IN  [before |-> <<>>, lines |-> <<fixed.line>> \o added \o <<fixed.other>>,
       set |-> AttachLines(w.set, added)]

JoinLines(from, to, code) ==
  LET w == LineReplace([line |-> doc[from.line], set |-> set], from.ch, NULL, Typed(code[1]))
      v == LineReplace([line |-> doc[to.line], set |-> w.set], NULL, to.ch, <<>>)
      a == LineAppend([line |-> w.line, set |-> v.set], v.line)
  IN  [before |-> <<>>, lines |-> <<a.line>>,
       set |-> CleanUp(a.set, Append(SubSeq(doc, from.line + 1, to.line - 1), a.other))]

ReplaceLines(from, to, code) ==
  LET w     == LineReplace([line |-> doc[from.line], set |-> set], from.ch, NULL, Typed(code[1]))
      v     == LineReplace([line |-> doc[to.line], set |-> w.set], NULL, to.ch, Typed(Last(code)))
      fixed == FixMarkEnds(w.line, v.line)
      added == Inherited(SubSeq(code, 2, Len(code) - 1), fixed.line, nextId)
  IN  [before |-> <<>>, lines |-> <<fixed.line>> \o added \o <<fixed.other>>,
       set |-> AttachLines(CleanUp(v.set, SubSeq(doc, from.line + 1, to.line - 1)), added)]

Updated(from, to, code) ==
  CASE from.ch = 0 /\ to.ch = 0 /\ Last(code) = 0 -> WholeLines(from, to, code)
    [] ~(from.ch = 0 /\ to.ch = 0 /\ Last(code) = 0) /\ from.line = to.line ->
         IF Len(code) = 1 THEN InOneLine(from, to, code) ELSE SplitLine(from, to, code)
    [] ~(from.ch = 0 /\ to.ch = 0 /\ Last(code) = 0) /\ from.line < to.line ->
         IF Len(code) = 1 THEN JoinLines(from, to, code) ELSE ReplaceLines(from, to, code)

Init ==
  /\ doc = [l \in DOMAIN Lengths |->
              [id |-> l, marked |-> <<>>,
               chars |-> [c \in 1..Lengths[l] |-> 10 * l + c]]]
  /\ set = [m \in Mark |-> <<>>]
  /\ used = {} /\ cleared = {} /\ edits = 0
  /\ nextId = Len(Lengths) + 1

Edit ==
  \E from, to \in Position, code \in Codes :
    /\ NotAfter(from, to)
    /\ edits < MaxEdits
    /\ Len(doc) - (to.line - from.line) + Len(code) - 1 <= MaxLines
    /\ \E u \in {Updated(from, to, code)} :
         /\ doc' = SubSeq(doc, 1, from.line - 1 - Len(u.before)) \o u.before
                     \o u.lines \o SubSeq(doc, to.line + 1, Len(doc))
         /\ set' = u.set
    /\ edits' = edits + 1
    /\ nextId' = nextId + Len(code)
    /\ UNCHANGED <<used, cleared>>

(* Line.addMark: sorted by where the fragments start. *)
AddMark(line, f) ==
  LET before == SelectSeq(line.marked, LAMBDA g : Num(g.from) <= Num(f.from))
      behind == SelectSeq(line.marked, LAMBDA g : Num(g.from) > Num(f.from))
  IN  [line EXCEPT !.marked = Append(before, f) \o behind]

(* markText of a range that is not empty: one fragment on each line of it. *)
MarkText ==
  \E m \in Marker \ used, from, to \in Position :
    LET fragment(l) == [mark |-> m, from |-> IF l = from.line THEN from.ch ELSE NULL,
                        to |-> IF l = to.line THEN to.ch ELSE NULL]
    IN  /\ NotAfter(from, to) /\ from # to
        /\ doc' = [l \in DOMAIN doc |-> IF l \in from.line..to.line
                                        THEN AddMark(doc[l], fragment(l)) ELSE doc[l]]
        /\ set' = [set EXCEPT ![m] = [i \in 1..(to.line - from.line + 1) |-> doc[from.line + i - 1].id]]
        /\ used' = used \cup {m}
        /\ UNCHANGED <<cleared, edits, nextId>>

SetBookmark ==
  \E b \in Bookmark \ used, pos \in Position :
    /\ doc' = [doc EXCEPT ![pos.line] = AddMark(@, [mark |-> b, from |-> pos.ch, to |-> pos.ch])]
    /\ set' = [set EXCEPT ![b] = <<doc[pos.line].id>>]
    /\ used' = used \cup {b}
    /\ UNCHANGED <<cleared, edits, nextId>>

(* TextMarker.clear, which looks at the lines of its list only. *)
Clear ==
  \E m \in (used \cap Marker) \ cleared :
    /\ doc' = [l \in DOMAIN doc |->
                 IF doc[l].id \in ToSet(set[m])
                 THEN [doc[l] EXCEPT !.marked = SelectSeq(@, LAMBDA f : f.mark # m)]
                 ELSE doc[l]]
    /\ cleared' = cleared \cup {m}
    /\ UNCHANGED <<set, used, edits, nextId>>

Next == Edit \/ MarkText \/ SetBookmark \/ Clear

Spec == Init /\ [][Next]_vars

-----------------------------------------------------------------------------
Fragments(m) == {<<l, i>> \in (1..Len(doc)) \X (1..5) :
                   i <= Len(doc[l].marked) /\ doc[l].marked[i].mark = m}

(* The numbered characters that carry a mark. *)
MarkedBy(m) ==
  {c \in UNION {ToSet(doc[l].chars) : l \in 1..Len(doc)} : c # 0 /\
     \E p \in Position, g \in Fragments(m) :
       LET f == doc[g[1]].marked[g[2]]
       IN  g[1] = p.line /\ p.ch > 0 /\ doc[p.line].chars[p.ch] = c
           /\ (f.from = NULL \/ f.from < p.ch) /\ (f.to = NULL \/ p.ch <= f.to)}
Present == UNION {ToSet(doc[l].chars) : l \in 1..Len(doc)} \ {0}

MarksTypeOK ==
  \A l \in 1..Len(doc) : \A i \in DOMAIN doc[l].marked :
    LET f == doc[l].marked[i]
    IN  f.mark \in used /\ f.from \in NULL..Len(doc[l].chars) /\ f.to \in NULL..Len(doc[l].chars)

(* Every line with a fragment of a marker is on the marker's list, so that   *)
(* clear leaves no highlight behind.                                         *)
ClearFindsAll ==
  \A m \in Marker : \A g \in Fragments(m) :
    ~IsDead(doc[g[1]].marked[g[2]]) => m \notin cleared /\ doc[g[1]].id \in ToSet(set[m])

(* An edit moves the marks with the text: a character it leaves in the       *)
(* document is marked afterwards if it was before.                           *)
MarksFollowText ==
  [][\A m \in Marker : edits' # edits =>
       MarkedBy(m)' = MarkedBy(m) \cap Present']_vars
=============================================================================
