---------------------------- MODULE EditHistory ----------------------------
(* The undo history of the script editor (plugins/codemirror/codemirror.js): *)
(* replacing a range of the text, the History object that chunks changes     *)
(* made close together, compound changes, and undo and redo, both as API     *)
(* calls and as key bindings of an editor that may be read-only.             *)
(*                                                                           *)
(* A line is a sequence of letters and lines count from 1.  The clock of     *)
(* addChange is a choice: "soon" says the change comes within 400 ms of the  *)
(* one before.                                                               *)
EXTENDS Integers, Sequences, SequencesExt

CONSTANTS InitText,     \* the text the editor is created with
          Codes,        \* the texts that are typed or pasted, split in lines
          UndoDepth,    \* option undoDepth, 40 in the program
          MaxEdits,     \* bound: changes made
          MaxLines,     \* bound: lines of the text
          MaxDepth      \* bound: nesting of compound changes

VARIABLES text,         \* the lines of the document
          done, undone, \* History: groups of changes, the latest last
          compound,     \* History: open compound changes
          closed,       \* History: the last group takes no more
          edits,        \* number of changes made so far
          past, future, \* the text before each group of done, after each of undone
          depth,        \* compound changes the callers have open
          before,       \* the text before the first change of the latest compound
                        \* change; <<>> before that, and after whatever follows it
          stepped,      \* undo or redo ran within that compound change since
          ended,        \* a compound change has ended and nothing was changed since
          tangled       \* the history was stepped through while edits were suppressed

historyVars == <<text, done, undone, compound, closed, edits, past, future, depth, before, stepped,
                ended, tangled>>

(* A text has a line at least, splitLines gives one even for ""; no page    *)
(* sets undoDepth, least of all to 0.                                        *)
Letters == UNION {UNION {ToSet(t[l]) : l \in DOMAIN t} : t \in Codes \cup {InitText}}
Lines == Seq(Letters)
Texts == Seq(Lines) \ {<<>>}
ASSUME HistoryAssumption ==
  InitText \in Texts /\ Codes \subseteq Texts /\ UndoDepth \in Nat \ {0} /\ MaxDepth \in Nat

Position(t) == UNION {{[line |-> l, ch |-> c] : c \in 0..Len(t[l])} : l \in 1..Len(t)}

NotAfter(p, q) == p.line < q.line \/ (p.line = q.line /\ p.ch <= q.ch)

(* The lines that stand for the lines from.line..to.line afterwards. *)
Joined(t, from, to, code) ==
  LET head == SubSeq(t[from.line], 1, from.ch)
      tail == SubSeq(t[to.line], to.ch + 1, Len(t[to.line]))
      open == <<head \o Head(code)>> \o Tail(code)
  IN  Front(open) \o <<Last(open) \o tail>>

(* updateLinesNoUndo, as far as the text goes. *)
UpdateLinesNoUndo(t, from, to, code) ==
  SubSeq(t, 1, from.line - 1) \o Joined(t, from, to, code) \o SubSeq(t, to.line + 1, Len(t))

Most(a, b) == IF a > b THEN a ELSE b

(* Mutant: the extended change keeps its old start. *)
Extended_KeepsStart(last, start, added, old) ==
  LET startBefore == Most(0, last.start - start)
      endAfter    == Most(0, (start + Len(old)) - (last.start + last.added))
  IN  [start |-> last.start,
       added |-> last.added + added - (Len(old) - startBefore - endAfter),
       old   |-> SubSeq(old, 1, startBefore) \o last.old
                   \o SubSeq(old, Len(old) - endAfter + 1, Len(old))]

(* The change of addChange that is extended, so as to cover a new one that   *)
(* touches it.                                                               *)
Extended(last, start, added, old) ==
  LET startBefore == Most(0, last.start - start)
      endAfter    == Most(0, (start + Len(old)) - (last.start + last.added))
  IN  [start |-> IF startBefore > 0 THEN start ELSE last.start,
       added |-> last.added + added - (Len(old) - startBefore - endAfter),
       old   |-> SubSeq(old, 1, startBefore) \o last.old
                   \o SubSeq(old, Len(old) - endAfter + 1, Len(old))]

Apart(last, start, old) ==
  last.start > start + Len(old) \/ last.start + last.added < start

(* History.addChange: the new groups of done and the new value of closed,    *)
(* which a change in the same or an adjacent place leaves alone.             *)
AddChange(start, added, old, soon) ==
  LET change == [start |-> start, added |-> added, old |-> old]
      cur    == Last(done)
      inside == compound # 0 /\ done # <<>> /\ ~closed
      fresh  == done = <<>> \/ ~soon \/ closed \/ Apart(Last(cur), start, old)
  IN  CASE inside -> [done |-> Front(done) \o <<Append(cur, change)>>, new |-> FALSE]
        [] ~inside /\ fresh -> [done |-> Append(done, <<change>>), new |-> TRUE]
        [] OTHER ->
             [done |-> Front(done)
                         \o <<Front(cur) \o <<Extended(Last(cur), start, added, old)>>>>,
              new |-> FALSE]

(* The loop of updateLines that drops the oldest groups. *)
Kept(groups) == SubSeq(groups, Most(0, Len(groups) - UndoDepth) + 1, Len(groups))

HistoryInit ==
  /\ text = InitText
  /\ done = <<>> /\ undone = <<>>
  /\ compound = 0 /\ closed = FALSE
  /\ edits = 0
  /\ past = <<>> /\ future = <<>>
  /\ depth = 0 /\ before = <<>> /\ stepped = FALSE /\ ended = FALSE /\ tangled = FALSE

(* updateLines for one replaced range: typing, pasting, setValue. *)
UpdateLines(from, to, code, soon) ==
  LET old == SubSeq(text, from.line, to.line)
      add == AddChange(from.line, Len(code), old, soon)
  IN  /\ edits < MaxEdits
      /\ Len(text) - Len(old) + Len(code) <= MaxLines
      /\ text' = UpdateLinesNoUndo(text, from, to, code)
      /\ done' = Kept(add.done)
      /\ undone' = <<>>
      /\ closed' = (closed /\ ~add.new)
      /\ edits' = edits + 1
      /\ past' = Kept(IF add.new THEN Append(past, text) ELSE past)
      /\ future' = <<>>
      /\ before' = (IF depth = 0 THEN <<>> ELSE IF before = <<>> THEN text ELSE before)
      /\ ended' = FALSE
      /\ UNCHANGED <<compound, depth, stepped, tangled>>

Replace ==
  \E from, to \in Position(text), code \in Codes, soon \in BOOLEAN :
    NotAfter(from, to) /\ UpdateLines(from, to, code, soon)

(* What unredoHelper has done so far: the text, the changes that take it     *)
(* back, and whether getLine threw, as it does on a line that is not there.  *)
Taken(lines, out, suppressed, threw) ==
  [text |-> lines, out |-> out, suppressed |-> suppressed, threw |-> threw]
NothingTaken(suppressed) == Taken(text, <<>>, suppressed, FALSE)

(* One change of unredoHelper.  Suppressed edits leave the text as it is.    *)
TakeBack(acc, change) ==
  LET t   == acc.text
      end == change.start + change.added - 1
  IN  IF acc.threw \/ end > Len(t) THEN Taken(t, acc.out, acc.suppressed, TRUE)
      ELSE Taken(IF acc.suppressed THEN t
                 ELSE UpdateLinesNoUndo(t, [line |-> change.start, ch |-> 0],
                        [line |-> end, ch |-> Len(t[end])], change.old),
                 Append(acc.out, [start |-> change.start, added |-> Len(change.old),
                                  old |-> SubSeq(t, change.start, end)]),
                 acc.suppressed, FALSE)

(* The changes of a group, the latest first. *)
UnredoHelper(group, suppressed) ==
  LET back[n \in 0..Len(group)] == IF n = 0 THEN NothingTaken(suppressed)
                                   ELSE TakeBack(back[n - 1], group[Len(group) + 1 - n])
  IN  back[Len(group)]

(* What undo and redo do to the history variables. *)
SteppedBy(suppressed) ==
  /\ before' = (IF depth = 0 THEN <<>> ELSE before)
  /\ stepped' = (stepped \/ before # <<>>)
  /\ tangled' = suppressed

(* undo and redo.  doHandleBinding suppresses the edits of a command that is *)
(* bound to a key while the editor is read-only, the API call does not.      *)
(* A group that threw is dropped.  After a suppressed undo the groups no     *)
(* longer fit the text: where more of them lead is not followed (~tangled).  *)
Undo(suppressed) ==
  /\ done # <<>>
  /\ LET r == UnredoHelper(Last(done), suppressed)
     IN  /\ text' = r.text
         /\ undone' = IF r.threw THEN undone ELSE Append(undone, r.out)
         /\ future' = IF r.threw THEN future ELSE Append(future, text)
  /\ done' = Front(done)
  /\ past' = Front(past)
  /\ SteppedBy(suppressed)
  /\ UNCHANGED <<compound, closed, edits, depth, ended>>

Redo(suppressed) ==
  /\ undone # <<>>
  /\ LET r == UnredoHelper(Last(undone), suppressed)
     IN  /\ text' = r.text
         /\ done' = IF r.threw THEN done ELSE Append(done, r.out)
         /\ past' = IF r.threw THEN past ELSE Append(past, text)
  /\ undone' = Front(undone)
  /\ future' = Front(future)
  /\ SteppedBy(suppressed)
  /\ UNCHANGED <<compound, closed, edits, depth, ended>>

(* compoundChange around a function: its two ends. *)
StartCompound ==
  /\ depth < MaxDepth
  /\ closed' = (closed \/ compound = 0)
  /\ compound' = compound + 1
  /\ depth' = depth + 1
  /\ before' = (IF depth = 0 THEN <<>> ELSE before)
  /\ stepped' = (stepped /\ depth > 0)
  /\ UNCHANGED <<text, done, undone, edits, past, future, ended, tangled>>

(* Mutant: the end of a compound change does not close its group. *)
EndCompound_LeavesOpen ==
  /\ depth > 0
  /\ compound' = compound - 1
  /\ depth' = depth - 1
  /\ ended' = (ended \/ (depth = 1 /\ compound = 1))
  /\ UNCHANGED <<text, closed, done, undone, edits, past, future, before, stepped, tangled>>

EndCompound ==
  /\ depth > 0
  /\ closed' = (closed \/ compound = 1)
  /\ compound' = compound - 1
  /\ depth' = depth - 1
  /\ ended' = (ended \/ (depth = 1 /\ compound = 1))
  /\ UNCHANGED <<text, done, undone, edits, past, future, before, stepped, tangled>>

(* clearHistory exchanges the History object, open compound changes or not:  *)
(* their ends are then counted by the new one, below zero.                   *)
ClearHistory ==
  /\ done' = <<>> /\ undone' = <<>> /\ past' = <<>> /\ future' = <<>>
  /\ compound' = 0 /\ closed' = FALSE /\ before' = <<>> /\ ended' = FALSE
  /\ UNCHANGED <<text, edits, depth, stepped, tangled>>

HistoryNext ==
  /\ ~tangled
  /\ \/ Replace
     \/ \E suppressed \in BOOLEAN : Undo(suppressed) \/ Redo(suppressed)
     \/ StartCompound \/ EndCompound
     \/ ClearHistory

HistorySpec == HistoryInit /\ [][HistoryNext]_historyVars

-----------------------------------------------------------------------------
HistoryTypeOK ==
  /\ compound \in -MaxDepth..MaxDepth /\ depth \in 0..MaxDepth
  /\ Len(done) = Len(past) /\ Len(undone) = Len(future)
  /\ \A g \in ToSet(done \o undone) : g # <<>> /\ \A i \in 1..Len(g) :
       g[i].start >= 1 /\ g[i].added >= 1 /\ g[i].old # <<>>

(* One undo gives back the text as it was before the last group of changes,  *)
(* and one redo the text as it was before the undo, however the changes of   *)
(* the group were merged.  An undo bound to a key of a read-only editor is   *)
(* the exception: it moves the group and leaves the text.                    *)
UndoRestores ==
  ~tangled =>
    /\ done # <<>> => UnredoHelper(Last(done), FALSE).text = Last(past)
    /\ undone # <<>> => UnredoHelper(Last(undone), FALSE).text = Last(future)

(* All that a compound change has changed so far, and nothing else, is in    *)
(* the last group: one undo gives back the text its first change met,        *)
(* whatever was typed just before it and however long it takes.  Excepted    *)
(* are a compound change that itself steps through the history after a       *)
(* change of its own, as what it changes next joins whichever group is then  *)
(* the last, and those within and after one that called clearHistory, until  *)
(* it is called outside of one (compound is less than depth).                *)
CompoundIsOneGroup ==
  before # <<>> /\ ~stepped /\ compound = depth => done # <<>> /\ Last(past) = before

(* What follows a compound change is undone in another step: the first       *)
(* change after its end, however soon, starts a group.                       *)
NextStartsGroup ==
  [][(edits' # edits /\ ended /\ depth = 0) => Last(past') = text]_historyVars

(* Undo and redo give back the texts, and a compound change is one group. *)
HistoryRight == [](HistoryTypeOK /\ UndoRestores /\ CompoundIsOneGroup) /\ NextStartsGroup
=============================================================================
