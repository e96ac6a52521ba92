--------------------------- MODULE HighlightWork ---------------------------
(* Highlighting in the background (plugins/codemirror/codemirror.js).  A     *)
(* mode parses a line from the state the line before leaves; every line      *)
(* caches the state it leaves (stateAfter) and its styles.  An edit          *)
(* highlights the lines it brings, at most AtOnce of them, and leaves the    *)
(* rest to a worker, which takes tasks (line numbers) from the array `work`, *)
(* follows a change down the document until it makes no difference any more, *)
(* and gives up in the middle when its time is over.                         *)
(*                                                                           *)
(* The mode is a small one with blocks, comments and the scope of a function, *)
(* whose parameter looks different where it is used, as in javascript.js.    *)
(* As in the code it has no compareStates (no mode of the repository has     *)
(* one), so the worker stops by its rule of thumb: more than SameLines lines *)
(* with the same styles, and the indentation the mode asks for as well.  A   *)
(* block and the scope of a function have the same indentation, so that the  *)
(* rule may stop the worker although the state is another one.               *)
EXTENDS Integers, Sequences, SequencesExt

CONSTANTS AtOnce,      \* 500 in the code
          LookBack,    \* 40
          SameLines,   \* 3
          Codes,       \* texts an edit may bring, as sequences of kinds of lines
          MaxLines,    \* bound: lines of the document
          MaxEdits     \* bound: edits, changes of the mode and questions

VARIABLES line,         \* sequence of [text, after, style]
          work,         \* the tasks, line numbers from 0
          timer,        \* the worker is due
          plain,        \* the mode is the one without any state
          showingFrom,  \* the first line on the screen
          run,          \* the worker: what it is at and its local variables
          skipped,      \* history variable: a question went over pending lines
          edits

vars == <<line, work, timer, plain, showingFrom, run, skipped, edits>>

(* Lines, and states that parts of them leave: "brace" opens a block, "arg"  *)
(* a function with the parameter that "use" uses.  Both "stmt" and "use" are *)
(* lines long enough to count as unchanged.                                  *)
Kinds == {"stmt", "use", "blank", "brace", "arg", "rem", "end"}
LongKinds == {"stmt", "use"}
States == {"top", "block", "local", "comment"}
None == "none"
Idle == [at |-> "idle", line |-> 0, state |-> "top", unchanged |-> 0, moved |-> FALSE]

(* The mode: the state after a line, how the line looks, the indentation. *)
StepOf(p, s, t) ==
  CASE p -> "top"
    [] ~p /\ t = "brace" /\ s = "top" -> "block"
    [] ~p /\ t = "arg" /\ s = "top" -> "local"
    [] ~p /\ t = "rem" -> "comment"
    [] ~p /\ t = "end" /\ s = "comment" -> "top"
    [] OTHER -> s
StyleOf(p, s, t) ==
  CASE ~p /\ s = "comment" /\ t # "blank" -> "grey"
    [] ~p /\ s = "local" /\ t = "use" -> "blue"
    [] OTHER -> "black"
Indent(s) == IF s \in {"block", "local"} THEN 1 ELSE 0

(* The lines and the tasks, which an operation takes through its steps. *)
Rec == [line |-> line, work |-> work]
AfterOf(c, i) == IF i = 0 THEN None ELSE c.line[i].after

(* Line.highlight, with the copy of the state that its callers keep. *)
Highlighted(c, i, s) ==
  [c EXCEPT !.line[i + 1].style = StyleOf(plain, s, c.line[i + 1].text),
            !.line[i + 1].after = StepOf(plain, s, c.line[i + 1].text)]

(* The nearest line above n that starts from a known state. *)
FindStartLine(c, n) ==
  LET known == {i \in 0..n : n - i < LookBack /\ (i = 0 \/ AfterOf(c, i) # None)}
  IN  IF known # {} THEN CHOOSE i \in known : \A j \in known : j <= i
      ELSE n - LookBack    \* the guess by indentation, which no run reaches

StateAt(c, start) == IF AfterOf(c, start) = None THEN "top" ELSE AfterOf(c, start)

RECURSIVE Through(_, _, _, _)
Through(c, i, end, s) ==
  IF i >= end THEN [c |-> c, state |-> s]
  ELSE Through(Highlighted(c, i, s), i + 1, end, StepOf(plain, s, c.line[i + 1].text))

(* getStateBefore, which may leave a task for the line it stops at. *)
GetStateBefore(c, n) ==
  LET start == FindStartLine(c, n)
      r     == Through(c, start, n, StateAt(c, start))
  IN  IF n < Len(c.line) /\ c.line[n + 1].after = None
      THEN [r EXCEPT !.c.work = Append(@, n)] ELSE r

HighlightLines(c, start, end) ==
  LET r == GetStateBefore(c, start) IN Through(r.c, start, end, r.state).c

(* Mutant: tasks behind the edit keep their numbers. *)
Adjusted_NotShifted(tasks, from, to, diff) == SelectSeq(tasks, LAMBDA t : t < from \/ t > to)

(* The tasks after an edit of lines from..to. *)
Adjusted(tasks, from, to, diff) ==
  LET kept == SelectSeq(tasks, LAMBDA t : t < from \/ t > to)
  IN  [i \in DOMAIN kept |-> IF kept[i] < from THEN kept[i] ELSE kept[i] + diff]

(* The part of updateLinesNoUndo that is about highlighting. *)
Fresh(code) == [i \in DOMAIN code |-> [text |-> code[i], after |-> None, style |-> None]]
Replaced(c, from, to, code) ==
  LET hlEnd == from + (IF Len(code) < AtOnce THEN Len(code) ELSE AtOnce)
      new   == [c EXCEPT !.line = SubSeq(@, 1, from) \o Fresh(code) \o SubSeq(@, to + 2, Len(@))]
  IN  [HighlightLines(new, from, hlEnd) EXCEPT
         !.work = Append(Adjusted(c.work, from, to, Len(code) - (to - from) - 1), hlEnd)]

-----------------------------------------------------------------------------
(* Mutant: the rule of thumb does without the indentation. *)
Done_AnyIndent(unchanged, had, state) == unchanged > SameLines

(* The rule of thumb, had being the state the line left before. *)
Done(unchanged, had, state) == unchanged > SameLines /\ Indent(had) = Indent(state)

(* The worker runs in the operation of its timer, and nothing comes between   *)
(* its steps.  It takes what is on the screen first, then the tasks from the *)
(* last; tasks behind the end of the document are dropped.                   *)
Fire == timer /\ run = Idle /\ timer' = FALSE /\ run' = [Idle EXCEPT !.at = "tasks"]
        /\ UNCHANGED <<line, work>>

(* Mutant: the task stays in the array. *)
Popped_Not(tasks) == tasks

(* work.pop() *)
Popped(tasks) == Front(tasks)

TakeTask ==
  LET first == line[showingFrom + 1].after = None
      task  == IF first THEN showingFrom ELSE Last(work)
      start == FindStartLine(Rec, task)
  IN  /\ run.at = "tasks" /\ work # <<>>
      /\ work' = IF first THEN work ELSE Popped(work)
      /\ run' = IF task >= Len(line) THEN run
                ELSE [run EXCEPT !.at = "lines", !.line = start, !.state = StateAt(Rec, start),
                                 !.unchanged = 0]
      /\ UNCHANGED <<line, timer>>

(* One line of the walk; highlight answers false, and the line counts as     *)
(* unchanged, only for a longer one that looks as before.                    *)
WalkLine ==
  LET old   == line[run.line + 1]
      state == StepOf(plain, run.state, old.text)
      same  == old.text \in LongKinds /\ old.style = StyleOf(plain, run.state, old.text) /\ old.after # None
      n     == IF same THEN run.unchanged + 1 ELSE 0
  IN  /\ run.at = "lines" /\ run.line < Len(line)
      /\ line' = Highlighted(Rec, run.line, run.state).line
      /\ run' = IF same /\ Done(n, old.after, state)
                THEN [run EXCEPT !.at = "tasks", !.moved = TRUE]
                ELSE [run EXCEPT !.line = @ + 1, !.state = state, !.unchanged = n, !.moved = TRUE]
      /\ UNCHANGED <<work, timer>>

WalkEnds ==
  /\ run.at = "lines" /\ run.line = Len(line)
  /\ run' = [run EXCEPT !.at = "tasks"]
  /\ UNCHANGED <<line, work, timer>>

(* The time is over, which it is not before the worker did a line. *)
TimeIsOver ==
  /\ run.at = "lines" /\ run.line < Len(line) /\ run.moved
  /\ work' = Append(work, run.line) /\ timer' = TRUE /\ run' = Idle
  /\ UNCHANGED line

WorkerEnds ==
  /\ run.at = "tasks" /\ work = <<>> /\ run' = Idle
  /\ UNCHANGED <<line, work, timer>>

HighlightWorker ==
  /\ Fire \/ TakeTask \/ WalkLine \/ WalkEnds \/ TimeIsOver \/ WorkerEnds
  /\ UNCHANGED <<plain, showingFrom, skipped, edits>>

-----------------------------------------------------------------------------
Init ==
  /\ line = Fresh(<<"blank">>) /\ work = <<0>> /\ timer = TRUE
  /\ plain = FALSE /\ showingFrom = 0 /\ run = Idle /\ skipped = FALSE /\ edits = 0

Clip(n, size) == IF n < size THEN n ELSE size - 1

Edit ==
  \E from \in 0..Len(line) - 1 : \E to \in from..Len(line) - 1, code \in Codes :
    LET c == Replaced(Rec, from, to, code)
    IN  /\ run = Idle /\ edits < MaxEdits /\ Len(c.line) <= MaxLines
        /\ line' = c.line /\ work' = c.work /\ timer' = TRUE
        /\ showingFrom' = Clip(showingFrom, Len(c.line))
        /\ edits' = edits + 1 /\ UNCHANGED <<plain, run, skipped>>

(* setOption("mode") and with it loadMode: the styles stay for now. *)
LoadMode ==
  /\ run = Idle /\ edits < MaxEdits
  /\ plain' = ~plain
  /\ line' = [i \in DOMAIN line |-> [line[i] EXCEPT !.after = None]]
  /\ work' = <<0>> /\ timer' = TRUE
  /\ edits' = edits + 1 /\ UNCHANGED <<showingFrom, run, skipped>>

(* getTokenAt, getStateAfter and the smart indentation ask for the state at a *)
(* line, and do not start the worker.  When the question fills in states in   *)
(* front of a line that has one, the border between them is nobody's task.    *)
Ask ==
  \E n \in 0..Len(line) :
    LET c == GetStateBefore(Rec, n).c
    IN  /\ run = Idle /\ edits < MaxEdits
        /\ line' = c.line /\ work' = c.work /\ edits' = edits + 1
        /\ skipped' = (skipped \/ (n < Len(line) /\ line' # line /\ work' = work))
        /\ UNCHANGED <<timer, plain, showingFrom, run>>

Scroll ==
  \E n \in 0..Len(line) - 1 :
    /\ n # showingFrom /\ showingFrom' = n
    /\ run = Idle /\ edits < MaxEdits /\ edits' = edits + 1
    /\ UNCHANGED <<line, work, timer, plain, run, skipped>>

Next == Edit \/ LoadMode \/ Ask \/ Scroll \/ HighlightWorker

Spec == Init /\ [][Next]_vars /\ WF_vars(HighlightWorker)

-----------------------------------------------------------------------------
HighlightTypeOK ==
  /\ line \in Seq([text : Kinds, after : States \cup {None}, style : {"grey", "blue", "black", None}])
  /\ work \in Seq(Nat) /\ {timer, plain} \subseteq BOOLEAN /\ showingFrom \in 0..Len(line) - 1

(* Line i leaves the state and has the look of a parse that enters it in s.  *)
AsFrom(i, s) ==
  /\ line[i].after = StepOf(plain, s, line[i].text)
  /\ line[i].style = StyleOf(plain, s, line[i].text)

(* What the rule of thumb cannot tell apart: the state s, and the one that   *)
(* the SameLines + 1 long lines above line i leave.                          *)
TakenFor(i, s) ==
  /\ i > SameLines + 1 /\ Indent(s) = Indent(line[i - 1].after)
  /\ \A j \in i - SameLines - 1..i - 1 :
       line[j].text \in LongKinds /\ line[j].style = StyleOf(plain, s, line[j].text)

(* The worker rests only when every line looks, and leaves the state, as a   *)
(* parse makes it that begins in "top" and goes on with what the line above  *)
(* leaves; only right below lines at which the rule of thumb may have taken  *)
(* one state for another may a line stand for a state above it that is gone  *)
(* (codemirror.js:1970), and a question may have gone over lines the worker  *)
(* had not come to.                                                          *)
RestsWhenRight ==
  timer \/ run # Idle \/ skipped \/ \A i \in 1..Len(line) :
     \E s \in States :
       /\ IF i = 1 THEN s = "top" ELSE s = line[i - 1].after \/ TakenFor(i, s)
       /\ AsFrom(i, s)

(* The worker comes to rest once nobody edits, however little time it gets. *)
WorkEnds == <>[](~timer /\ run = Idle)
=============================================================================
