------------------------------ MODULE FoldCode ------------------------------
(* Code folding (plugins/codemirror/util/foldcode.js): the three range       *)
(* finders, the list of folded regions that newFoldFunction keeps in its     *)
(* closure, and the handlers it leaves on the lines for the case that they   *)
(* are deleted.                                                              *)
(*                                                                           *)
(* A line's text is a sequence of tokens:                                    *)
(*   "x" text or white space, "else" a keyword, "/**/" and "//{" comments,   *)
(*   "{" and "}"; for the tags "<a>", "</a>", "<a/>", "<a" at the end of a   *)
(*   line, ">", "/>" and "/" within an attribute.                            *)
EXTENDS Integers, Sequences, SequencesExt, FiniteSetsExt

CONSTANTS Pages,    \* [finder, indents, lines, new]: what is folded how, and what is typed
          MaxLines, \* bound: lines of the document
          MaxSteps  \* bound: folds, unfolds and edits

VARIABLES page,     \* which page it is
          doc,      \* the lines: [id, text, hidden, marked]
          regions,  \* every region ever folded: [start, hidden], line ids; its handler stays
          folded,   \* the closure's list, as indices of regions
          steps

vars == <<page, doc, regions, folded, steps>>

None == 0
LineNo(id) == IF \E i \in DOMAIN doc : doc[i].id = id THEN CHOOSE i \in DOMAIN doc : doc[i].id = id ELSE None
Text(n) == doc[n].text
Ends(e, hideEnd) == IF hideEnd THEN e + 1 ELSE e

-----------------------------------------------------------------------------
Class(token) == CASE token \in {"//{", "/**/"} -> "comment" [] token = "else" -> "keyword" [] OTHER -> "plain"

(* What getTokenAt finds at a brace's own column: the token in front of it,  *)
(* unless they are one.                                                      *)
ClassBefore(t, k) == CASE Class(t[k]) = "comment" -> "comment"
                       [] Class(t[k]) # "comment" /\ k > 1 -> Class(t[k - 1])
                       [] OTHER -> "plain"

Behind(n) == n + 1..Len(doc)

(* The braces of the lines behind n, in order, of one token class. *)
Braces(lines, class) ==
  FlattenSeq([i \in 1..Cardinality(lines) |->
    LET n == Min(lines) + i - 1
        at == SelectSeq([k \in DOMAIN Text(n) |-> [line |-> n, token |-> Text(n)[k]]],
                        LAMBDA b : b.token \in {"{", "}", "//{"} /\ Class(b.token) = class)
    IN  at])
Counted(acc, b) ==
  IF acc.count = 0 THEN acc
  ELSE [count |-> acc.count + (IF b.token = "}" THEN -1 ELSE 1), line |-> b.line]

BraceRangeFinder(n, hideEnd) ==
  LET starts == {k \in DOMAIN Text(n) : Text(n)[k] \in {"{", "//{"} /\ ClassBefore(Text(n), k) # "comment"}
      start  == Max(starts)
      walk   == FoldLeft(Counted, [count |-> 1, line |-> n], Braces(Behind(n), ClassBefore(Text(n), start)))
  IN  CASE starts = {} -> None
        [] starts # {} /\ \E k \in DOMAIN Text(n) : k > start /\ Text(n)[k] = "}" -> None
        [] OTHER -> IF walk.count > 0 \/ walk.line = n + 1 THEN None ELSE Ends(walk.line, hideEnd)

(* Lines that are indented deeper, with blank ones between them. *)
IndentRangeFinder(n) ==
  LET blank(i) == Text(i) = <<>>
      stops    == {i \in Behind(n) : ~blank(i) /\ page.indents[Text(i)] <= page.indents[Text(n)]}
      inside   == {i \in Behind(n) : ~blank(i) /\ \A s \in stops : i < s}
  IN  IF inside = {} THEN None ELSE Max(inside) + 1

-----------------------------------------------------------------------------
HasGt(token) == token \in {"<a>", "</a>", "<a/>", ">", "/>"}
HasSlash(token) == token \in {"</a>", "<a/>", "/>", "/"}
Gts(n) == {k \in DOMAIN Text(n) : HasGt(Text(n)[k])}

(* Whether the start tag at k is not an empty one: the last slash in front   *)
(* of the next ">" decides, be it in the tag or before it.                   *)
NotEmpty(t, k) ==
  LET gt      == Min({j \in DOMAIN t : j >= k /\ HasGt(t[j])})
      slashes == {j \in 1..gt : HasSlash(t[j])}
  IN  slashes = {} \/ t[Max(slashes)] \notin {"<a/>", "/>"}

(* The first start tag of the line that is neither empty nor closed on it.   *)
(* One that ends on a later line is a range of its own if a slash stands     *)
(* there before its end: the text compared is that of the wrong line.        *)
TagRangeFinder(n, hideEnd) ==
  LET t        == Text(n)
      opens(k) == t[k] \in {"<a>", "<a", "<a/>"}
      gtBehind(k) == \E j \in Gts(n) : j >= k
      closed(k)   == \E j \in DOMAIN t : j >= k /\ t[j] = "</a>"
      gtLines  == {i \in Behind(n) : Gts(i) # {}}
      own      == Min(gtLines)
      slashed  == gtLines # {} /\ \E j \in 1..Min(Gts(own)) : HasSlash(Text(own)[j])
      stops    == {k \in DOMAIN t : opens(k) /\ IF gtBehind(k) THEN NotEmpty(t, k) /\ ~closed(k) ELSE TRUE}
      tags     == FlattenSeq([i \in 1..Len(doc) - n |->
                    SelectSeq([j \in DOMAIN Text(n + i) |-> [line |-> n + i, token |-> Text(n + i)[j]]],
                              LAMBDA b : b.token \in {"<a>", "<a", "</a>"})])
      step(acc, b) == IF acc.count = 0 THEN acc
                      ELSE [count |-> acc.count + (IF b.token = "</a>" THEN -1 ELSE 1), line |-> b.line]
      walk     == FoldLeft(step, [count |-> 1, line |-> n], tags)
  IN  CASE stops = {} -> None
        [] stops # {} /\ ~gtBehind(Min(stops)) /\ slashed -> Ends(own, hideEnd)
        [] OTHER -> IF walk.count > 0 THEN None ELSE Ends(walk.line, hideEnd)

RangeFinder(n) ==
  CASE page.finder = "brace" -> BraceRangeFinder(n, FALSE)
    [] page.finder = "brace to end" -> BraceRangeFinder(n, TRUE)
    [] page.finder = "indent" -> IndentRangeFinder(n)
    [] page.finder = "tag" -> TagRangeFinder(n, FALSE)

-----------------------------------------------------------------------------
Init ==
  /\ page \in Pages /\ regions = <<>> /\ folded = <<>> /\ steps = 0
  /\ doc = [i \in DOMAIN page.lines |-> [id |-> i, text |-> page.lines[i], hidden |-> FALSE, marked |-> FALSE]]

(* expand: the marker goes and the region's lines are shown. *)
Expand(lines, r) ==
  [i \in DOMAIN lines |->
     [lines[i] EXCEPT !.hidden = @ /\ \A j \in DOMAIN r.hidden : r.hidden[j] # lines[i].id,
                      !.marked = @ /\ lines[i].id # r.start]]

(* isFolded drops the regions whose first line is gone, as far as it looks. *)
Live(f) == LineNo(regions[f].start) # None
Known(n) == {k \in DOMAIN folded : LineNo(regions[folded[k]].start) = n}
Looked(n) == IF Known(n) = {} THEN Len(folded) ELSE Min(Known(n)) - 1

(* The fold function, on a line that can be clicked on. *)
Unfold(n) ==
  /\ Known(n) # {}
  /\ LET k == Min(Known(n))
     IN  /\ folded' = SelectSeq(SubSeq(folded, 1, k - 1), Live) \o SubSeq(folded, k + 1, Len(folded))
         /\ doc' = Expand(doc, regions[folded[k]])
  /\ UNCHANGED regions

Fold(n) ==
  LET end   == RangeFinder(n)
      shown == SelectSeq([i \in 1..end - n - 1 |-> doc[n + i]], LAMBDA l : ~l.hidden)
      ids   == [i \in DOMAIN shown |-> shown[i].id]
      kept  == SelectSeq(folded, Live)
  IN  /\ Known(n) = {}
      /\ IF end = None THEN folded' = kept /\ UNCHANGED <<doc, regions>>
         ELSE /\ doc' = [i \in DOMAIN doc |-> [doc[i] EXCEPT !.hidden = @ \/ i \in n + 1..end - 1,
                                                             !.marked = @ \/ i = n]]
              /\ regions' = Append(regions, [start |-> doc[n].id, hidden |-> ids])
              /\ folded' = Append(kept, Len(regions) + 1)

Click ==
  \E n \in DOMAIN doc : /\ ~doc[n].hidden /\ (Unfold(n) \/ Fold(n))
                        /\ steps' = steps + 1 /\ UNCHANGED page

(* Mutant: the handlers of the first deleted line only. *)
Handlers_First(gone) ==
  SelectSeq(regions, LAMBDA r : gone # <<>> /\ r.start = Head(gone).id)

(* The handlers of the deleted lines, one for every fold they ever had. *)
Handlers(gone) == SelectSeq(regions, LAMBDA r : \E i \in DOMAIN gone : gone[i].id = r.start)

(* An edit of the lines from..to: the first and the last stay, or only the   *)
(* first when they are joined, or only the last when whole lines go.  The    *)
(* handlers run when the operation ends.                                     *)
Edited(from, to, t, how) ==
  LET id    == 1 + Max({doc[i].id : i \in DOMAIN doc} \cup UNION {{r.start} \cup {r.hidden[i] : i \in DOMAIN r.hidden} : r \in Range(regions)})
      new   == [id |-> id, text |-> t, hidden |-> FALSE, marked |-> FALSE]
      first == [doc[from] EXCEPT !.text = t]
  IN  CASE how = "whole" -> <<new, doc[to]>>
        [] how = "drop"  -> <<doc[to]>>
        [] how = "join"  -> <<first>>
        [] how = "split" -> IF from = to THEN <<first, [new EXCEPT !.text = doc[to].text]>> ELSE <<first, doc[to]>>

Edit ==
  \E from \in DOMAIN doc : \E to \in from..Len(doc), t \in page.new, how \in {"whole", "drop", "join", "split"} :
    LET mid   == Edited(from, to, t, how)
        lines == SubSeq(doc, 1, from - 1) \o mid \o SubSeq(doc, to + 1, Len(doc))
        gone  == SelectSeq(SubSeq(doc, from, to), LAMBDA l : ~\E i \in DOMAIN mid : mid[i].id = l.id)
    IN  /\ Len(lines) <= MaxLines /\ lines # doc
        /\ doc' = FoldLeft(Expand, lines, Handlers(gone))
        /\ steps' = steps + 1 /\ UNCHANGED <<page, regions, folded>>

Next == steps < MaxSteps /\ (Click \/ Edit)

Spec == Init /\ [][Next]_vars

-----------------------------------------------------------------------------
FoldTypeOK ==
  /\ page \in Pages /\ folded \in Seq(DOMAIN regions)
  /\ doc # <<>> /\ \A i \in DOMAIN doc : {doc[i].hidden, doc[i].marked} \subseteq BOOLEAN

Owns(k, id) == \E j \in DOMAIN regions[folded[k]].hidden : regions[folded[k]].hidden[j] = id

(* No line is lost: a hidden one belongs to a region that the fold function  *)
(* still knows by a line above it; and a line bears the marker exactly as    *)
(* long as a region folded at it is known.                                   *)
NothingLost ==
  \A i \in DOMAIN doc :
    /\ doc[i].hidden => \E k \in DOMAIN folded : LineNo(regions[folded[k]].start) \in 1..i - 1 /\ Owns(k, doc[i].id)
    /\ doc[i].marked = (Known(i) # {})

(* A fold by braces ends at the partner of the last brace of its line, when  *)
(* plain text stands in front of that and the line has no comment.           *)
FoundIsBlock ==
  \A n \in DOMAIN doc :
    LET end    == BraceRangeFinder(n, FALSE)
        brace(i, k) == Text(i)[k] \in {"{", "}"}
                       /\ (i > n \/ ~\E j \in k..Len(Text(n)) : Text(n)[j] = "{")
        places == {p \in (n..Len(doc)) \X (1..3) : p[2] \in DOMAIN Text(p[1]) /\ brace(p[1], p[2])}
        upto(p) == {q \in places : q[1] < p[1] \/ (q[1] = p[1] /\ q[2] <= p[2])}
        level(p) == Cardinality({q \in upto(p) : Text(q[1])[q[2]] = "{"})
                    - Cardinality({q \in upto(p) : Text(q[1])[q[2]] = "}"})
    IN  (page.finder = "brace" /\ ToSet(Text(n)) \cap {"//{", "/**/"} = {} /\ end # None)
        => \E p \in places : p[1] = end /\ level(p) = -1 /\ \A q \in upto(p) : q # p => level(q) >= 0

(* While a region stays folded its lines stay hidden, unless a line goes at  *)
(* which this or another fold once began: the handlers of folds that were    *)
(* opened since, or that began inside this one, show their lines again.      *)
OnlyDeletionOpens ==
  [][\A k \in DOMAIN folded : \A i \in DOMAIN doc :
       LET f == folded[k]
           gone == \E r \in Range(regions) : LineNo(r.start) # None /\ LineNo(r.start)' = None
       IN  (Owns(k, doc[i].id) /\ doc[i].hidden /\ f \in Range(folded') /\ ~gone)
           => \A j \in DOMAIN doc' : doc'[j].id = doc[i].id => doc'[j].hidden]_vars

(* Folding loses no line, opens no fold by itself and finds whole blocks. *)
FoldingRight == [](NothingLost /\ FoundIsBlock) /\ OnlyDeletionOpens
=============================================================================
