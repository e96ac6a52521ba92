----------------------------- MODULE EditorInput -----------------------------
(* How typed text gets from the hidden input field into the script editor    *)
(* (plugins/codemirror/codemirror.js): the field is polled, slowly and, when *)
(* something was typed, fast; keys read it first; commands, clicks, focus    *)
(* and the context menu reset it.  Input methods may change what they wrote  *)
(* before, so the field is compared with what it held when last read.        *)
(*                                                                           *)
(* The document is one line of characters, all different.  Handlers of keys  *)
(* and clicks are operations, each with the reset that ends it.              *)
EXTENDS Integers, Sequences, SequencesExt

CONSTANTS Chars,      \* what can be typed, pasted or inserted by a command
          InputLimit  \* the field is emptied when longer, 1000 in the code

(* What stands for no menu is not a text of one character. *)
ASSUME InputAssumption == InputLimit \in Nat /\ "no menu" \notin Chars

VARIABLES doc,       \* the text
          from, to,  \* the selection
          input,     \* the value of the field
          marked,    \* the field's text is selected
          prevInput,
          poll,      \* the timer: "none", "slow", "fast" or "again"
          pollingFast,
          focused,
          menu,      \* leaveInputAlone: FALSE, or the value the menu's handler put into the field
          readOnly,  \* options.readOnly
          fresh,     \* the characters not used yet
          apart,     \* history variable: text or cursor changed under prevInput
          lost,      \* history variable: what was typed and a key threw away
          astray     \* history variable: a correction reached in front of the text

text == <<doc, from, to>>
field == <<input, marked, prevInput>>
polling == <<poll, pollingFast>>
inputVars == <<text, field, polling, focused, menu, readOnly, fresh, apart, lost, astray>>

NoMenu == <<"no menu">>
Smaller(a, b) == IF a < b THEN a ELSE b
Selected(s) == SubSeq(s.doc, s.from + 1, s.to)
Now == [doc |-> doc, from |-> from, to |-> to, input |-> input, marked |-> marked, prev |-> prevInput,
        apart |-> apart, astray |-> astray, changed |-> FALSE]
Becomes(s) ==
  /\ doc' = s.doc /\ from' = s.from /\ to' = s.to /\ apart' = s.apart /\ astray' = s.astray
  /\ input' = s.input /\ marked' = s.marked /\ prevInput' = s.prev

InputInit ==
  /\ doc = <<>> /\ from = 0 /\ to = 0 /\ input = <<>> /\ marked = FALSE /\ prevInput = <<>>
  /\ poll = "none" /\ pollingFast = FALSE /\ focused = FALSE /\ menu = NoMenu
  /\ readOnly \in BOOLEAN /\ fresh = Chars /\ apart = FALSE /\ lost = {} /\ astray = FALSE

-----------------------------------------------------------------------------
(* replaceSelection(text, "end") *)
ReplaceSelection(s, new) ==
  [s EXCEPT !.doc = SubSeq(s.doc, 1, s.from) \o new \o SubSeq(s.doc, s.to + 1, Len(s.doc)),
            !.from = s.from + Len(new), !.to = s.from + Len(new)]

Common(a, b) ==
  LET lengths == {n \in 0..Smaller(Len(a), Len(b)) : SubSeq(a, 1, n) = SubSeq(b, 1, n)}
  IN  CHOOSE n \in lengths : \A m \in lengths : m <= n

(* readInput: what was added is typed at the cursor, and as much as was      *)
(* taken back is replaced in front of it.                                    *)
ReadInput(s) ==
  LET same  == Common(s.prev, s.input)
      start == s.from - (Len(s.prev) - same)
      read  == ReplaceSelection([s EXCEPT !.from = start], SubSeq(s.input, same + 1, Len(s.input)))
      full  == Len(s.input) > InputLimit
  IN  CASE menu # NoMenu \/ ~focused \/ s.marked \/ readOnly \/ s.input = s.prev -> s
        [] menu = NoMenu /\ focused /\ ~s.marked /\ ~readOnly /\ s.input # s.prev /\ start < 0 ->
             [s EXCEPT !.astray = TRUE]
        [] OTHER -> [read EXCEPT !.prev = IF full THEN <<>> ELSE s.input,
                                 !.input = IF full THEN <<>> ELSE s.input, !.changed = TRUE]

(* Mutant: only prevInput is emptied. *)
ResetInput_KeepsField(s, user) ==
  CASE s.from # s.to -> [s EXCEPT !.prev = <<>>, !.input = Selected(s), !.marked = TRUE, !.apart = FALSE]
    [] s.from = s.to /\ user -> [s EXCEPT !.prev = <<>>, !.marked = FALSE, !.apart = FALSE]
    [] OTHER -> s

(* resetInput: the field holds the selection, selected; without a selection  *)
(* it is emptied after what the user did, and kept after what a program did. *)
ResetInput(s, user) ==
  CASE s.from # s.to -> [s EXCEPT !.prev = <<>>, !.input = Selected(s), !.marked = TRUE, !.apart = FALSE]
    [] s.from = s.to /\ user -> [s EXCEPT !.prev = <<>>, !.input = <<>>, !.marked = FALSE, !.apart = FALSE]
    [] OTHER -> s

(* endOperation of an operation that changed the selection. *)
EndOperation(s, user) == IF focused /\ menu = NoMenu THEN ResetInput(s, user) ELSE s

-----------------------------------------------------------------------------
FastPoll == pollingFast' = TRUE /\ poll' = "fast"
SlowPoll(fast) == IF fast THEN UNCHANGED poll ELSE poll' = "slow"

(* The poll's timer: p of fastPoll looks a second time when nothing came. *)
PollTimer ==
  LET s == ReadInput(Now)
  IN  /\ poll # "none" /\ Becomes([s EXCEPT !.changed = FALSE])
      /\ CASE poll = "slow" -> /\ poll' = IF focused /\ ~pollingFast THEN "slow" ELSE "none"
                               /\ UNCHANGED pollingFast
           [] poll = "fast" /\ ~s.changed -> poll' = "again" /\ UNCHANGED pollingFast
           [] OTHER -> pollingFast' = FALSE /\ poll' = "slow"
      /\ UNCHANGED <<focused, menu, readOnly, fresh, lost>>

(* The part of onKeyDown and onKeyPress that reads what is there. *)
KeyReads == IF pollingFast THEN ReadInput(Now) ELSE Now

(* A character that is typed: onKeyDown, onKeyPress, then the browser puts   *)
(* it into the field, in place of what is selected there.                    *)
TypeChar(c) ==
  LET s == KeyReads
  IN  /\ focused /\ c \in fresh /\ fresh' = fresh \ {c}
      /\ Becomes([s EXCEPT !.input = (IF s.marked THEN <<>> ELSE @) \o <<c>>, !.marked = FALSE])
      /\ FastPoll /\ UNCHANGED <<focused, menu, readOnly, lost>>

(* An input method or a correction changes the last character. *)
Correct(c) ==
  /\ focused /\ c \in fresh /\ fresh' = fresh \ {c} /\ input # <<>> /\ ~marked
  /\ input' = Front(input) \o <<c>> /\ FastPoll
  /\ UNCHANGED <<text, marked, prevInput, focused, menu, readOnly, apart, lost, astray>>

(* Text is pasted into the field; the paste event is one of the scroller or  *)
(* of the field, both start the fast poll.                                   *)
Paste(c) ==
  /\ focused /\ c \in fresh /\ fresh' = fresh \ {c}
  /\ input' = (IF marked THEN <<>> ELSE input) \o <<c>> /\ marked' = FALSE /\ FastPoll
  /\ UNCHANGED <<text, prevInput, focused, menu, readOnly, apart, lost, astray>>

(* What was typed and not read in b, and is thrown away in s. *)
Unread(s) == IF s.marked THEN {} ELSE {s.input[i] : i \in Common(s.prev, s.input) + 1..Len(s.input)}
LostBy(b, s) == Unread(b) \ (Unread(s) \cup {s.doc[i] : i \in DOMAIN s.doc})

(* A key bound to a command: onKeyDown reads what is there, the command      *)
(* moves the cursor (goCharLeft and others), deletes, or inserts text, and   *)
(* the operation ends.  Only text that is inserted is not the user's change. *)
KeyCommand ==
  LET s == KeyReads
      move == [s EXCEPT !.from = IF @ > 0 THEN @ - 1 ELSE 0, !.to = IF s.from > 0 THEN s.from - 1 ELSE 0]
      del  == ReplaceSelection([s EXCEPT !.from = IF s.from = s.to /\ @ > 0 THEN @ - 1 ELSE @], <<>>)
  IN  /\ focused /\ menu = NoMenu
      /\ pollingFast' = (pollingFast /\ ~s.changed)
      /\ \/ \E t \in {move, IF readOnly THEN s ELSE del} :
              LET e == EndOperation(t, TRUE)
              IN  /\ Becomes([e EXCEPT !.changed = FALSE]) /\ UNCHANGED fresh
                  /\ lost' = lost \cup LostBy(s, e)
         \/ \E c \in fresh :
              LET e == EndOperation([ReplaceSelection(s, <<c>>) EXCEPT !.apart = TRUE], FALSE)
              IN  /\ ~readOnly /\ fresh' = fresh \ {c} /\ Becomes([e EXCEPT !.changed = FALSE])
                  /\ lost' = lost \cup LostBy(s, e)
      /\ UNCHANGED <<poll, focused, menu, readOnly>>

(* A click or a drag selects; what is not read yet is lost. *)
Click ==
  \E p, q \in 0..Len(doc) :
    /\ p <= q /\ menu = NoMenu /\ <<p, q>> # <<from, to>>
    /\ focused' = TRUE /\ Becomes(ResetInput([Now EXCEPT !.from = p, !.to = q], TRUE))
    /\ (IF focused THEN UNCHANGED poll ELSE SlowPoll(pollingFast))
    /\ UNCHANGED <<pollingFast, menu, readOnly, fresh, lost>>

(* setSelection, setCursor or setValue by the page. *)
ProgramChanges ==
  \E p, q \in 0..Len(doc), clear \in BOOLEAN :
    LET s == IF clear THEN [Now EXCEPT !.doc = <<>>, !.from = 0, !.to = 0, !.apart = TRUE]
             ELSE [Now EXCEPT !.from = p, !.to = q, !.apart = TRUE]
    IN  /\ p <= q /\ <<s.doc, s.from, s.to>> # text
        /\ Becomes(EndOperation(s, FALSE))
        /\ UNCHANGED <<polling, focused, menu, readOnly, fresh, lost>>

OnFocus ==
  /\ ~focused /\ focused' = TRUE
  /\ Becomes(IF menu = NoMenu THEN ResetInput(Now, TRUE) ELSE Now)
  /\ SlowPoll(pollingFast) /\ UNCHANGED <<pollingFast, menu, readOnly, fresh, lost>>

OnBlur ==
  /\ focused /\ focused' = FALSE
  /\ UNCHANGED <<text, field, polling, menu, readOnly, fresh, apart, lost, astray>>

(* onContextMenu lends the field, with the selection in it, to the browser's *)
(* menu; a click outside of the selection moves the cursor first.            *)
ContextMenu ==
  \E p \in 0..Len(doc) :
    LET inside == from < to /\ from <= p /\ p < to
        s == IF inside THEN Now ELSE [Now EXCEPT !.from = p, !.to = p, !.apart = TRUE]
    IN  /\ menu = NoMenu /\ menu' = Selected(s)
        /\ Becomes([EndOperation(s, FALSE) EXCEPT !.input = Selected(s), !.marked = Selected(s) # <<>>])
        /\ focused' = TRUE /\ SlowPoll(pollingFast)
        /\ UNCHANGED <<pollingFast, readOnly, fresh, lost>>

(* rehide: what the menu changed goes into the text. *)
Rehide ==
  LET s == IF input # menu /\ ~readOnly THEN ReplaceSelection(Now, input) ELSE Now
  IN  /\ menu # NoMenu /\ menu' = NoMenu /\ Becomes(ResetInput(s, TRUE)) /\ SlowPoll(pollingFast)
      /\ UNCHANGED <<pollingFast, focused, readOnly, fresh, lost>>

InputNext ==
  /\ ~astray
  /\ \/ PollTimer \/ KeyCommand \/ Click \/ ProgramChanges \/ OnFocus \/ OnBlur
     \/ ContextMenu \/ Rehide
     \/ \E c \in Chars : TypeChar(c) \/ Correct(c) \/ Paste(c)

(* The browser runs the timer of the poll. *)
InputSpec == InputInit /\ [][InputNext]_inputVars /\ WF_inputVars(PollTimer)

-----------------------------------------------------------------------------
InputTypeOK ==
  /\ doc \in Seq(Chars) /\ from \in 0..Len(doc) /\ to \in from..Len(doc)
  /\ input \in Seq(Chars) /\ prevInput \in Seq(Chars) /\ marked \in BOOLEAN
  /\ poll \in {"none", "slow", "fast", "again"} /\ pollingFast \in BOOLEAN /\ focused \in BOOLEAN
  /\ readOnly \in BOOLEAN /\ fresh \subseteq Chars /\ lost \subseteq Chars

(* Nothing that was typed is in the text twice. *)
NeverTwice == \A i, j \in DOMAIN doc : doc[i] = doc[j] => i = j

(* What was read last stands in front of the cursor, where a correction will *)
(* look for it, unless a program or a command moved the cursor or the text.  *)
PreviousInFront ==
  (focused /\ menu = NoMenu /\ ~apart /\ ~astray /\ from = to) =>
     IsSuffix(prevInput, SubSeq(doc, 1, from))

(* While the editor has the focus its input is polled, and keys never throw  *)
(* away what was typed before them.                                          *)
InputRight ==
  /\ InputTypeOK /\ NeverTwice /\ PreviousInFront
  /\ (focused => poll # "none") /\ (readOnly \/ astray \/ lost = {})
=============================================================================
