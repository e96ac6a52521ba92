----------------------------- MODULE EditorView -----------------------------
(* What the script editor has on the screen (plugins/codemirror/            *)
(* codemirror.js).  The nodes of a window of lines are kept in the page; an  *)
(* operation collects the changes it makes to the lines, and its end works   *)
(* out from them which nodes are still good (computeIntact) and patches the  *)
(* rest (patchDisplay).  The gutter beside them is drawn when it is dirty or *)
(* the window moved.                                                         *)
(*                                                                           *)
(* A line is a record of what it shows (a number, new when its text or class *)
(* changes) and whether it has a marker in the gutter.                       *)
EXTENDS Integers, Sequences, SequencesExt, FiniteSetsExt

CONSTANTS Margin,      \* lines drawn beyond the visible ones: 100 in the code
          Slack,       \* how far the window may trail behind: 20
          Rows,        \* lines the editor is high
          FirstLines,  \* lines at the start
          MaxHeight,   \* bound: lines of the document
          MaxChanges   \* bound: changes within operations and other events

ASSUME ViewAssumption ==
  {Margin, Slack, Rows, MaxHeight, MaxChanges} \subseteq Nat /\ FirstLines \in Nat \ {0}

VARIABLES doc,         \* the lines
          open,        \* an operation is under way
          changes,     \* what it did to the lines so far
          gutterDirty,
          wide,        \* the editor has a place on the page (clientWidth > 0)
          showingFrom, showingTo,  \* the window
          nodes,       \* what the nodes in lineDiv show, in order
          gutter,      \* [from, marks]: the gutter as drawn
          steps

viewVars == <<doc, open, changes, gutterDirty, wide, showingFrom, showingTo, nodes, gutter, steps>>
screen == <<showingFrom, showingTo, nodes, gutter, gutterDirty>>

(* A number no line and no node shows. *)
Fresh == 1 + Max({doc[i].shows : i \in DOMAIN doc} \cup ToSet(nodes))
Fewer(a, b) == IF a < b THEN a ELSE b
More(a, b) == IF a > b THEN a ELSE b

-----------------------------------------------------------------------------
(* The nodes from dom on still show the lines from..to. *)
Span(from, to, dom) == [from |-> from, to |-> to, dom |-> dom]

(* What a change leaves of a range; ranges behind it move with it. *)
Pieces(r, c) ==
  CASE c.to <= r.from -> <<Span(r.from + c.diff, r.to + c.diff, r.dom)>>
    [] c.to > r.from /\ c.from >= r.to -> <<r>>
    [] OTHER -> (IF c.from > r.from THEN <<Span(r.from, c.from, r.dom)>> ELSE <<>>)
                \o (IF c.to < r.to
                    THEN <<Span(c.to + c.diff, r.to + c.diff, r.dom + (c.to - r.from))>> ELSE <<>>)

Punched(ranges, c) == FlattenSeq([i \in DOMAIN ranges |-> Pieces(ranges[i], c)])

ComputeIntact(ranges, chs) ==
  LET intact[k \in 0..Len(chs)] == IF k = 0 THEN ranges ELSE Punched(intact[k - 1], chs[k])
  IN  intact[Len(chs)]

(* The parts of the ranges that are in the new window, and their lines. *)
InWindow(r, from, to) ==
  IF More(r.from, from) < Fewer(r.to, to)
  THEN <<Span(More(r.from, from), Fewer(r.to, to), r.dom + More(0, from - r.from))>> ELSE <<>>
Clipped(ranges, from, to) == FlattenSeq([i \in DOMAIN ranges |-> InWindow(ranges[i], from, to)])

IntactLines(ranges) ==
  LET lines[i \in 0..Len(ranges)] == IF i = 0 THEN 0 ELSE lines[i - 1] + (ranges[i].to - ranges[i].from)
  IN  lines[Len(ranges)]

(* patchDisplay: the nodes out of the ranges go, those in them stay, and a   *)
(* new node comes in for every other line of the window.  `next` is the      *)
(* range in turn, whether or not the walk has reached it, and `used` counts  *)
(* the nodes the walk went past that were there before.                      *)
KeptNodes(ranges) ==
  FlattenSeq([i \in DOMAIN ranges |->
    SubSeq(nodes, ranges[i].dom + 1, ranges[i].dom + ranges[i].to - ranges[i].from)])

Walked(next, used, out) == [next |-> next, used |-> used, out |-> out]
WalkOver(w, j, ranges, kept) ==
  LET next == IF w.next <= Len(ranges) /\ ranges[w.next].to = j THEN w.next + 1 ELSE w.next
  IN  IF next <= Len(ranges) /\ ranges[next].from <= j
      THEN Walked(next, w.used + 1, Append(w.out, kept[w.used + 1]))
      ELSE Walked(next, w.used, Append(w.out, doc[j + 1].shows))

PatchDisplay(from, to, ranges) ==
  LET kept == KeptNodes(ranges)
      walk[n \in 0..to - from] ==
        IF n = 0 THEN Walked(1, 0, <<>>) ELSE WalkOver(walk[n - 1], from + n - 1, ranges, kept)
      done == walk[to - from]
  IN  done.out \o SubSeq(kept, done.used + 1, Len(kept))

DrawnGutter(from, to) ==
  [from |-> from, marks |-> [i \in 1..More(to, from + 1) - from |-> doc[from + i].marked]]

(* updateGutter outside of updateDisplay *)
UpdateGutter ==
  /\ gutter' = IF gutterDirty THEN DrawnGutter(showingFrom, showingTo) ELSE gutter
  /\ gutterDirty' = FALSE
  /\ UNCHANGED <<showingFrom, showingTo, nodes>>

(* The window for the lines [first, last) that the scroll position shows. *)
WindowFrom(first) ==
  LET from0 == More(first - Margin, 0)
  IN  IF showingFrom < from0 /\ from0 - showingFrom < Slack THEN showingFrom ELSE from0
WindowTo(last) ==
  LET to0 == Fewer(Len(doc), last + Margin)
  IN  IF showingTo > to0 /\ showingTo - to0 < Slack THEN Fewer(Len(doc), showingTo) ELSE to0

(* updateDisplay, all standing for changes === true. *)
UpdateDisplay(all, chs, first, last, otherwise) ==
  LET from   == WindowFrom(first)
      to     == WindowTo(last)
      ranges == IF all THEN <<>> ELSE Clipped(ComputeIntact(<<Span(showingFrom, showingTo, 0)>>, chs), from, to)
      same   == from = showingFrom /\ to = showingTo
      inside == ~all /\ chs = <<>> /\ first > showingFrom /\ last < showingTo
      intact == IntactLines(ranges) = to - from /\ same
  IN  \/ /\ ~wide /\ showingFrom' = 0 /\ showingTo' = 0
         /\ UNCHANGED <<nodes, gutter, gutterDirty>>
      \/ wide /\ (inside \/ intact) /\ otherwise
      \/ /\ wide /\ ~inside /\ ~intact
         /\ nodes' = PatchDisplay(from, to, ranges)
         /\ showingFrom' = from /\ showingTo' = to
         /\ gutter' = IF ~same \/ gutterDirty THEN DrawnGutter(from, to) ELSE gutter
         /\ gutterDirty' = FALSE

-----------------------------------------------------------------------------
Line(n) == [shows |-> n, marked |-> FALSE]
Restyled(line, n) == [line EXCEPT !.shows = n]

(* The editor on the page with its text, scrolled somewhere. *)
ViewInit ==
  /\ doc = [i \in 1..FirstLines |-> Line(i)]
  /\ showingFrom \in 0..FirstLines - 1 /\ showingTo \in showingFrom + 1..FirstLines
  /\ nodes = [i \in 1..showingTo - showingFrom |-> showingFrom + i]
  /\ gutter = DrawnGutter(showingFrom, showingTo) /\ gutterDirty = FALSE
  /\ open = FALSE /\ changes = <<>> /\ wide = TRUE /\ steps = 0

StartOperation ==
  /\ ~open /\ steps < MaxChanges
  /\ open' = TRUE /\ changes' = <<>>
  /\ UNCHANGED <<doc, wide, steps, screen>>

Within ==
  /\ open /\ steps < MaxChanges /\ steps' = steps + 1
  /\ UNCHANGED <<open, wide, showingFrom, showingTo, nodes, gutter>>

(* Mutant: the change does not tell how far it moves what follows. *)
EditChange_NoDiff(from, to, n) == [from |-> from, to |-> to + 1, diff |-> 0]

EditChange(from, to, n) == [from |-> from, to |-> to + 1, diff |-> n - (to - from) - 1]

(* What stands for lines from..to after an edit that makes them n lines: the *)
(* first and the last keep their Line objects, and so their markers, except  *)
(* that a replacement of whole lines only keeps the line behind them.        *)
Edited(from, to, n, whole) ==
  LET new(i)    == Line(Fresh + i)
      first     == Restyled(doc[from + 1], Fresh)
      lastOf(i) == IF from = to THEN new(i) ELSE Restyled(doc[to + 1], Fresh + i)
  IN  IF whole THEN [i \in 1..n - 1 |-> new(i)] \o <<doc[to + 1]>>
      ELSE [i \in 1..n |-> IF i = 1 THEN first ELSE IF i = n THEN lastOf(i) ELSE new(i)]

(* updateLinesNoUndo *)
ReplaceLines ==
  \E from \in 0..Len(doc) - 1 : \E to \in from..Len(doc) - 1, n \in 1..3, whole \in BOOLEAN :
    /\ Within
    /\ Len(doc) + n - (to - from) - 1 <= MaxHeight
    /\ doc' = SubSeq(doc, 1, from) \o Edited(from, to, n, whole) \o SubSeq(doc, to + 2, Len(doc))
    /\ changes' = Append(changes, EditChange(from, to, n))
    /\ gutterDirty' = (gutterDirty \/ from # to \/ n > 1)

(* setLineClass, markText, a marker's clear, and the highlighter, which all  *)
(* tell which lines look different.                                          *)
RestyleLines ==
  \E from \in 0..Len(doc) - 1 : \E to \in from..Len(doc) - 1 :
    /\ Within
    /\ doc' = [i \in DOMAIN doc |-> IF i \in from + 1..to + 1
                                    THEN Restyled(doc[i], Fresh + i) ELSE doc[i]]
    /\ changes' = Append(changes, [from |-> from, to |-> to + 1, diff |-> 0])
    /\ UNCHANGED gutterDirty

(* setMarker, clearMarker *)
SetMarker ==
  \E i \in DOMAIN doc :
    /\ Within
    /\ doc' = [doc EXCEPT ![i].marked = ~@] /\ gutterDirty' = TRUE
    /\ UNCHANGED changes

(* visibleLines, for any scroll position. *)
Visible == {<<first, Fewer(first + Rows, Len(doc))>> : first \in 0..Len(doc) - 1}

(* endOperation, which updates the display when something changed or the     *)
(* cursor has to be scrolled to, and the gutter if that did not.             *)
EndOperation ==
  /\ open /\ open' = FALSE
  /\ \/ \E v \in Visible : UpdateDisplay(FALSE, changes, v[1], v[2], UpdateGutter)
     \/ changes = <<>> /\ UpdateGutter
  /\ changes' = <<>>
  /\ UNCHANGED <<doc, wide, steps>>

(* onScrollMain, onScrollBar and scrollTo: updateDisplay([]) *)
Scroll ==
  /\ ~open /\ steps < MaxChanges
  /\ \E v \in Visible : UpdateDisplay(FALSE, <<>>, v[1], v[2], UNCHANGED screen)
  /\ steps' = steps + 1
  /\ UNCHANGED <<doc, open, changes, wide>>

(* refresh, the resize of the window, tabSize: updateDisplay(true) *)
Refresh ==
  /\ ~open /\ steps < MaxChanges
  /\ \E v \in Visible : UpdateDisplay(TRUE, <<>>, v[1], v[2], UNCHANGED screen)
  /\ steps' = steps + 1
  /\ UNCHANGED <<doc, open, changes, wide>>

(* The page takes the editor away (a hidden tab) or shows it again. *)
Toggle ==
  /\ ~open /\ steps < MaxChanges /\ wide' = ~wide
  /\ steps' = steps + 1
  /\ UNCHANGED <<doc, open, changes, screen>>

ViewNext == \/ StartOperation \/ ReplaceLines \/ RestyleLines \/ SetMarker \/ EndOperation
            \/ Scroll \/ Refresh \/ Toggle

ViewSpec == ViewInit /\ [][ViewNext]_viewVars

-----------------------------------------------------------------------------
ViewTypeOK ==
  /\ doc \in Seq([shows : Nat, marked : BOOLEAN]) /\ doc # <<>>
  /\ {open, gutterDirty, wide} \subseteq BOOLEAN
  /\ showingFrom \in Nat /\ showingTo \in Nat /\ nodes \in Seq(Nat)

(* After every operation the nodes are those of the lines of the window, one *)
(* for each (the assertion "BAD PATCH" of updateDisplay), each as its line   *)
(* looks now, and the gutter beside them is that of the window.              *)
WindowIsCurrent ==
  (~open /\ showingTo > showingFrom) =>
     /\ nodes = [i \in 1..showingTo - showingFrom |-> doc[showingFrom + i].shows]
     /\ gutter = DrawnGutter(showingFrom, showingTo)

(* What the screen shows is the window of the document as it is now. *)
ShownIsCurrent == ViewTypeOK /\ WindowIsCurrent
=============================================================================
