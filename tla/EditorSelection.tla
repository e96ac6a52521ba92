-------------------------- MODULE EditorSelection --------------------------
(* The selection of the script editor (plugins/codemirror/codemirror.js) and *)
(* everything that moves it: edits, the keyboard with and without shift, the *)
(* mouse with its drags, and lines that are hidden by folding.  The source   *)
(* says of the selection that its ends "are always maintained to point at    *)
(* valid positions" (codemirror.js:81).                                      *)
(*                                                                           *)
(* Of a line only its length and whether it is hidden are kept.  A position  *)
(* is a pair of a line, from 0, and a place in it.                           *)
EXTENDS Integers, Sequences, SequencesExt, FiniteSetsExt

CONSTANTS InitLines,   \* lengths of the lines at the start
          Insertions,       \* texts to insert, as sequences of lengths
          MaxLineCount,    \* bound: lines of the document
          MaxLength,   \* bound: length of a line
          MaxInputs     \* bound: events

ASSUME SelectionAssumption ==
  /\ MaxLength \in Nat /\ MaxInputs \in Nat
  /\ InitLines \in Seq(0..MaxLength) \ {<<>>} /\ Insertions \subseteq Seq(Nat) \ {<<>>}

VARIABLES lines,   \* sequence of [len, hidden]
          sel,     \* [from, to, inverted]
          shift,   \* shiftSelecting: the fixed end while shift is down
          drag,    \* the mouse is down: [type, start, from, to] of its closure
          stray,   \* history variable: hidden lines or a late drag led the selection astray
          edit,    \* history variable: the last event was this call of replaceRange
          inputs

selectionVars == <<lines, sel, shift, drag, stray, edit, inputs>>

Null == <<>>
Less(p, q) == p[1] < q[1] \/ (p[1] = q[1] /\ p[2] < q[2])
LesserOf(a, b) == IF a < b THEN a ELSE b
GreaterOf(a, b) == IF a > b THEN a ELSE b
Valid(p, ls) == p[1] \in 0..Len(ls) - 1 /\ p[2] \in 0..ls[p[1] + 1].len
Positions == {p \in (0..MaxLineCount) \X (0..MaxLength) : Valid(p, lines)}

Clip(p, ls) ==
  CASE p[1] < 0 -> <<0, 0>>
    [] p[1] >= Len(ls) -> <<Len(ls) - 1, Last(ls).len>>
    [] OTHER -> <<p[1], GreaterOf(0, LesserOf(p[2], ls[p[1] + 1].len))>>

-----------------------------------------------------------------------------
(* The nearest line that is not hidden, first away from the old one; none if *)
(* all are hidden.                                                           *)
SkipHidden(ls, p, oldLine, oldCh) ==
  LET toEnd   == p[2] = ls[p[1] + 1].len /\ p[2] # oldCh
      down    == {n \in p[1] + 1..Len(ls) - 1 : ~ls[n + 1].hidden}
      up      == {n \in 0..p[1] - 1 : ~ls[n + 1].hidden}
      n       == IF down # {} /\ (up = {} \/ p[1] >= oldLine) THEN Min(down) ELSE Max(up)
      len     == ls[n + 1].len
  IN  CASE ~ls[p[1] + 1].hidden -> p
        [] ls[p[1] + 1].hidden /\ down \cup up = {} -> Null
        [] OTHER -> <<n, IF toEnd \/ p[2] > oldCh \/ p[2] > len THEN len ELSE p[2]>>

(* setSelection on s, a record of the lines and the selection.  When no line *)
(* is left to show, the line of `from` comes back, but `to` may still find   *)
(* none: then the code throws and the selection stays as it was.             *)
SetEnds(s, from, to) ==
  IF to = Null THEN [s EXCEPT !.threw = TRUE]
  ELSE [s EXCEPT !.sel = [from |-> from, to |-> to,
                          inverted |-> CASE from = to \/ from = s.sel.to -> FALSE
                                         [] from # to /\ from # s.sel.to /\ to = s.sel.from -> TRUE
                                         [] OTHER -> s.sel.inverted]]

SetTo(s, from, q, oldTo) ==
  SetEnds(s, from, IF q[1] # oldTo THEN SkipHidden(s.lines, q, oldTo, s.sel.to[2]) ELSE q)

SetFrom(s, p, q, from, oldTo) ==
  IF from = Null THEN SetTo([s EXCEPT !.lines[p[1] + 1].hidden = FALSE], p, q, oldTo)
  ELSE SetTo(s, from, q, oldTo)

SetOrdered(s, p, q, oldFrom, oldTo) ==
  IF \/ ~Valid(<<p[1], 0>>, s.lines) /\ p[1] # oldFrom
     \/ ~Valid(<<q[1], 0>>, s.lines) /\ q[1] # oldTo
  THEN [s EXCEPT !.threw = TRUE]
  ELSE SetFrom(s, p, q, IF p[1] # oldFrom THEN SkipHidden(s.lines, p, oldFrom, s.sel.from[2]) ELSE p, oldTo)

SetSelection(s, a, b, oldFrom, oldTo) ==
  IF s.sel.from = a /\ s.sel.to = b THEN s
  ELSE SetOrdered(s, IF Less(b, a) THEN b ELSE a, IF Less(b, a) THEN a ELSE b, oldFrom, oldTo)

Now == [lines |-> lines, sel |-> sel, threw |-> FALSE]
Select(a, b) == SetSelection(Now, a, b, sel.from[1], sel.to[1])

(* Mutant: the fixed end is used as it was when shift went down. *)
SelectUser_Unclipped(a, b, fixed) ==
  Select(IF fixed # Null /\ Less(fixed, a) THEN fixed ELSE a,
         IF fixed # Null /\ ~Less(fixed, a) /\ Less(b, fixed) THEN fixed ELSE b)

(* setSelectionUser extends to the fixed end of a shift selection. *)
SelectUser(a, b, fixed) ==
  LET sh == Clip(fixed, lines)
  IN  Select(IF fixed # Null /\ Less(sh, a) THEN sh ELSE a,
             IF fixed # Null /\ ~Less(sh, a) /\ Less(b, sh) THEN sh ELSE b)

(* The new state, and whether the selection went astray in it: setSelection  *)
(* threw, or it set an end to a hidden line and skipped past the other one.  *)
Crossed(s) == Less(s.sel.to, s.sel.from) /\ \E i \in DOMAIN s.lines : s.lines[i].hidden
BecomesBy(s, outlived, call) ==
  /\ lines' = s.lines /\ sel' = s.sel
  /\ stray' = (stray \/ s.threw \/ outlived \/ Crossed(s))
  /\ edit' = IF stray' THEN Null ELSE call
  /\ inputs' = inputs + 1
Becomes(s, outlived) == BecomesBy(s, outlived, Null)

-----------------------------------------------------------------------------
(* The lines after a replacement: a line that stays keeps its object, hidden *)
(* or not; a replacement of whole lines only keeps the line behind them.     *)
LinesAfter(from, to, code) ==
  LET shown(n)  == [len |-> n, hidden |-> FALSE]
      head      == lines[from[1] + 1]
      tail      == lines[to[1] + 1]
      rest      == tail.len - to[2]
      whole     == from[2] = 0 /\ to[2] = 0 /\ Last(code) = 0
      lastLen   == rest + Last(code) + (IF Len(code) = 1 THEN from[2] ELSE 0)
      lastLine  == [len |-> lastLen, hidden |-> from[1] # to[1] /\ tail.hidden]
      new       == CASE whole -> [i \in 1..Len(code) - 1 |-> shown(code[i])] \o <<tail>>
                     [] ~whole /\ Len(code) = 1 -> <<[head EXCEPT !.len = lastLen]>>
                     [] OTHER -> <<[head EXCEPT !.len = from[2] + code[1]]>>
                                 \o [i \in 1..Len(code) - 2 |-> shown(code[i + 1])] \o <<lastLine>>
  IN  SubSeq(lines, 1, from[1]) \o new \o SubSeq(lines, to[1] + 2, Len(lines))

(* updateLines, whose end sets the selection in the lines as they are now. *)
UpdateSelection(ls, selFrom, selTo, last, diff) ==
  LET moved(n) == IF n <= LesserOf(last, last + diff) THEN n ELSE n + diff
  IN  SetSelection([Now EXCEPT !.lines = ls], Clip(selFrom, ls), Clip(selTo, ls),
                   moved(sel.from[1]), moved(sel.to[1]))
UpdateText(from, to, code, selFrom, selTo) ==
  UpdateSelection(LinesAfter(from, to, code), selFrom, selTo, to[1], Len(code) - (to[1] - from[1]) - 1)

EndOf(from, code) == <<from[1] + Len(code) - 1,
                       IF Len(code) = 1 THEN from[2] + code[1] ELSE Last(code)>>

(* Mutant: in its last line the text behind the range is taken to start at 0. *)
AdjustPos_FromZero(p, from, to, code) ==
  CASE Less(p, from) -> p
    [] ~Less(p, from) /\ ~Less(to, p) -> EndOf(from, code)
    [] OTHER -> <<p[1] + Len(code) - (to[1] - from[1]) - 1,
                  p[2] + (IF p[1] = to[1] THEN Last(code) - to[2] ELSE 0)>>

(* adjustPos of replaceRange *)
AdjustPos(p, from, to, code) ==
  CASE Less(p, from) -> p
    [] ~Less(p, from) /\ ~Less(to, p) -> EndOf(from, code)
    [] OTHER -> <<p[1] + Len(code) - (to[1] - from[1]) - 1,
                  p[2] + (IF p[1] # to[1] THEN 0
                          ELSE Last(code) - (to[2] - (IF to[1] = from[1] THEN from[2] ELSE 0)))>>

ReplaceRange(from, to, code) ==
  UpdateText(from, to, code, AdjustPos(sel.from, from, to, code), AdjustPos(sel.to, from, to, code))

InBounds(s) == Len(s.lines) <= MaxLineCount /\ \A i \in DOMAIN s.lines : s.lines[i].len <= MaxLength

-----------------------------------------------------------------------------
(* A document that was loaded and clicked into. *)
SelectionInit ==
  /\ lines = [i \in DOMAIN InitLines |-> [len |-> InitLines[i], hidden |-> FALSE]]
  /\ \E p \in Positions : sel = [from |-> p, to |-> p, inverted |-> FALSE]
  /\ shift = Null /\ drag = Null /\ stray = FALSE /\ edit = Null /\ inputs = 0

(* replaceRange by a caller of the editor, at any time.  A drag goes on with *)
(* the positions it had.                                                     *)
ReplaceText ==
  \E from, to \in Positions, code \in Insertions :
    /\ ~Less(to, from)
    /\ \E s \in {ReplaceRange(from, to, code)} :
         InBounds(s) /\ BecomesBy(s, drag # Null, <<from, to, Len(code)>>) /\ UNCHANGED <<shift, drag>>

(* setValue *)
SetValue ==
  \E code \in Insertions :
    \E s \in {UpdateText(<<0, 0>>, <<Len(lines) - 1, Last(lines).len>>, code, <<0, 0>>, <<0, 0>>)} :
      InBounds(s) /\ Becomes(s, drag # Null) /\ UNCHANGED <<shift, drag>>

(* replaceSelection, which typing does at the end of the text it brings. *)
Type ==
  \E code \in Insertions, collapse \in {"end", "start", "around"} :
    \E s \in {LET end == EndOf(sel.from, code)
               IN  UpdateText(sel.from, sel.to, code, IF collapse = "end" THEN end ELSE sel.from,
                               IF collapse = "start" THEN sel.from ELSE end)} :
      InBounds(s) /\ Becomes(s, drag # Null) /\ UNCHANGED <<shift, drag>>

(* setSelection and setCursor, which clip their arguments first. *)
SetSelectionCall ==
  \E p, q \in Positions, user \in BOOLEAN :
    /\ Becomes(IF user THEN SelectUser(p, q, shift) ELSE Select(p, q), FALSE)
    /\ UNCHANGED <<shift, drag>>

(* setShift, on a key or a mouse button. *)
Shifted(down) ==
  CASE ~down -> Null
    [] down /\ shift # Null -> shift
    [] OTHER -> IF sel.inverted THEN sel.to ELSE sel.from

(* One step of findPosH; a hidden line is passed over. *)
MoveOnce(p, dir, bound) ==
  LET atEnd == p[2] = (IF dir < 0 THEN 0 ELSE lines[p[1] + 1].len)
      ahead == {n \in 0..Len(lines) - 1 : ~lines[n + 1].hidden /\ (IF dir < 0 THEN n < p[1] ELSE n > p[1])}
      next  == IF dir < 0 THEN Max(ahead) ELSE Min(ahead)
  IN  CASE ~atEnd -> <<p[1], p[2] + dir>>
        [] atEnd /\ ~bound /\ ahead # {} -> <<next, IF dir < 0 THEN lines[next + 1].len ELSE 0>>
        [] OTHER -> p

(* findPosH: a character, a column, or a word, which is a number of steps. *)
FindPosH(dir, unit) ==
  LET end == IF sel.inverted THEN sel.from ELSE sel.to
      one == MoveOnce(end, dir, unit = "column")
  IN  IF unit = "word" THEN {one, MoveOnce(one, dir, FALSE)} ELSE {one}

(* moveH, after the key's setShift. *)
MoveH ==
  \E down \in BOOLEAN, dir \in {-1, 1}, unit \in {"char", "column", "word"} :
    LET fixed == Shifted(down)
        edge  == IF dir < 0 THEN sel.from ELSE sel.to
    IN  \E p \in IF fixed # Null \/ sel.from = sel.to THEN FindPosH(dir, unit) ELSE {edge} :
          LET c == Clip(p, lines) IN Becomes(SelectUser(c, c, fixed), FALSE)
          /\ shift' = fixed /\ UNCHANGED drag

(* deleteH *)
DeleteH ==
  \E dir \in {-1, 1}, unit \in {"char", "word"} :
    \E p \in FindPosH(dir, unit) :
      \E s \in {CASE sel.from # sel.to -> ReplaceRange(sel.from, sel.to, <<0>>)
                   [] sel.from = sel.to /\ dir < 0 -> ReplaceRange(p, sel.to, <<0>>)
                   [] OTHER -> ReplaceRange(sel.from, p, <<0>>)} :
        InBounds(s) /\ Becomes(s, drag # Null) /\ shift' = Null /\ UNCHANGED drag

KeyUp == shift # Null /\ shift' = Null /\ edit' = Null
         /\ UNCHANGED <<lines, sel, drag, stray, inputs>>

(* setLineHidden, which hides the line before it looks for a place for the   *)
(* cursor, and gives up when there is none.                                  *)
SetLineHidden ==
  \E n \in 0..Len(lines) - 1, hide \in BOOLEAN :
    LET ls   == [lines EXCEPT ![n + 1].hidden = hide]
        out(p) == IF p[1] = n THEN SkipHidden(ls, <<n, 0>>, n, 0) ELSE p
        s    == [Now EXCEPT !.lines = ls]
    IN  /\ lines[n + 1].hidden # hide
        /\ Becomes(IF ~hide \/ n \notin {sel.from[1], sel.to[1]} \/ out(sel.to) = Null \/ out(sel.from) = Null
                   THEN s ELSE SetSelection(s, out(sel.from), out(sel.to), sel.from[1], sel.to[1]), FALSE)
        /\ UNCHANGED <<shift, drag>>

(* onMouseDown, a single click or the third of a triple one; what the drag   *)
(* needs later stays in its closure.                                         *)
MouseDown ==
  \E p \in Positions, down \in BOOLEAN, type \in {"single", "triple"} :
    /\ drag = Null /\ ~lines[p[1] + 1].hidden
    /\ Becomes(IF type = "single" THEN SelectUser(p, p, Shifted(down))
               ELSE SelectUser(<<p[1], 0>>, Clip(<<p[1] + 1, 0>>, lines), Shifted(down)), FALSE)
    /\ shift' = Shifted(down)
    /\ drag' = [type |-> type, start |-> p, from |-> sel'.from, to |-> sel'.to]

(* doSelect with the position under the mouse, of a move or of the release. *)
DoSelect(cur) ==
  CASE drag.type = "single" -> SelectUser(drag.start, cur, shift)
    [] drag.type = "triple" /\ Less(cur, drag.from) -> SelectUser(drag.to, Clip(<<cur[1], 0>>, lines), shift)
    [] OTHER -> SelectUser(drag.from, Clip(<<cur[1] + 1, 0>>, lines), shift)

MouseMove ==
  \E cur \in Positions, release \in BOOLEAN :
    /\ drag # Null /\ ~lines[cur[1] + 1].hidden
    /\ Becomes(DoSelect(cur), FALSE)
    /\ drag' = IF release THEN Null ELSE drag
    /\ UNCHANGED shift

SelectionNext == /\ ~stray /\ inputs < MaxInputs
        /\ \/ ReplaceText \/ SetValue \/ Type \/ SetSelectionCall \/ MoveH \/ DeleteH \/ KeyUp
           \/ SetLineHidden \/ MouseDown \/ MouseMove

SelectionSpec == SelectionInit /\ [][SelectionNext]_selectionVars

-----------------------------------------------------------------------------
SelectionTypeOK ==
  /\ lines \in Seq([len : 0..MaxLength, hidden : BOOLEAN]) /\ lines # <<>>
  /\ sel.inverted \in BOOLEAN /\ stray \in BOOLEAN /\ inputs \in 0..MaxInputs

(* The selection points at valid positions, in order, and an inverted one is *)
(* not empty, whatever was edited, hidden, clicked and typed before; unless  *)
(* one of three things happened: setSelection threw with all lines hidden, a *)
(* drag went on after an edit, or an end that was to be in a hidden line     *)
(* skipped past the other.                                                   *)
SelectionValid ==
  \/ stray
  \/ /\ Valid(sel.from, lines) /\ Valid(sel.to, lines) /\ ~Less(sel.to, sel.from)
     /\ sel.inverted => sel.from # sel.to

(* The text behind a position, in characters with a line's end as one. *)
Characters(ls) == FoldLeft(LAMBDA n, l : n + l.len + 1, 0, ls)
TextBehind(p, ls) == (ls[p[1] + 1].len - p[2]) + Characters(SubSeq(ls, p[1] + 2, Len(ls)))

(* replaceRange leaves an end of the selection that is behind the range at   *)
(* the same place of the text behind it, and one in front of it where it is. *)
(* Left out is an end in the line the range ends in when the edit joins that *)
(* line with another or breaks it: there adjustPos looks at the lines of the *)
(* range where it would have to look at those of the new text, and may even  *)
(* put the second end in front of the first, which then becomes the second.  *)
(* And an end in a hidden line, where it was left for want of another line,  *)
(* moves on when the edit makes lines that are shown.                        *)
EndsStayInPlace ==
  [][ edit' # Null =>
        LET from == edit'[1]  to == edit'[2]  joins == (from[1] = to[1]) # (edit'[3] = 1)
            misplaced(p) == joins /\ p[1] = to[1] /\ Less(to, p)
        IN  /\ (Less(sel.from, from) /\ ~misplaced(sel.to)) => sel'.from = sel.from
            /\ (Less(to, sel.from) /\ ~misplaced(sel.from) /\ ~lines[sel.from[1] + 1].hidden) =>
                  TextBehind(sel'.from, lines') = TextBehind(sel.from, lines) ]_selectionVars

(* The selection stays valid, and its ends stay with their text. *)
SelectionRight == [](SelectionTypeOK /\ SelectionValid) /\ EndsStayInPlace
=============================================================================
