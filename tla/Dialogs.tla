------------------------------ MODULE Dialogs ------------------------------
(* The dialogs on top of the editor (plugins/codemirror/util/dialog.js):     *)
(* questions with a field to fill in, which close when the field loses the   *)
(* focus, and confirmations with buttons, which close a moment after the     *)
(* last of them lost it.  Both give the focus back to the editor.            *)
EXTENDS Integers, Sequences

CONSTANTS MaxDialogs, \* bound: dialogs ever opened
          MaxMoves    \* bound: moves of the focus by the user

VARIABLES dialogs, \* [kind, closed, blurring, timers, answered] of each
          focus,   \* the dialog that has the focus, Editor or Elsewhere
          moves

vars == <<dialogs, focus, moves>>

Editor == 0
Elsewhere == -1
IsOpen(d) == d \in DOMAIN dialogs /\ ~dialogs[d].closed

New(kind) == [kind |-> kind, closed |-> FALSE, blurring |-> 1, timers |-> 0, answered |-> 0]

(* What the loss of the focus does: a question closes, and a confirmation    *)
(* counts the button and sets a timer.                                       *)
Blur(ds, d) ==
  IF d \notin DOMAIN ds \/ ds[d].closed THEN ds
  ELSE IF ds[d].kind = "ask" THEN [ds EXCEPT ![d].closed = TRUE]
  ELSE [ds EXCEPT ![d].blurring = @ - 1, ![d].timers = @ + 1]

(* Mutant: the button that takes the focus is not counted. *)
Gain_Uncounted(ds, d) == ds
Gain(ds, d) == IF d \in DOMAIN ds THEN [ds EXCEPT ![d].blurring = @ + 1] ELSE ds

(* close: whoever has the focus, another dialog even, loses it to the editor. *)
Close(ds, d) == IF focus = d THEN [ds EXCEPT ![d].closed = TRUE] ELSE Blur([ds EXCEPT ![d].closed = TRUE], focus)

(* A handler that may go on to open a dialog, which takes the focus. *)
GoesOn(ds) ==
  \/ dialogs' = ds /\ focus' = Editor
  \/ /\ Len(ds) < MaxDialogs
     /\ \E kind \in {"ask", "confirm"} : dialogs' = Append(ds, New(kind))
     /\ focus' = Len(ds) + 1

-----------------------------------------------------------------------------
Init == dialogs = <<>> /\ focus = Editor /\ moves = 0

(* openDialog and openConfirm, by a key or a menu of the page. *)
Open ==
  /\ Len(dialogs) < MaxDialogs
  /\ \E kind \in {"ask", "confirm"} : dialogs' = Append(Blur(dialogs, focus), New(kind))
  /\ focus' = Len(dialogs) + 1
  /\ UNCHANGED moves

(* The Enter key answers a question, the Escape key drops it. *)
Enter ==
  /\ IsOpen(focus) /\ dialogs[focus].kind = "ask"
  /\ GoesOn([dialogs EXCEPT ![focus].closed = TRUE, ![focus].answered = @ + 1])
  /\ UNCHANGED moves
Escape ==
  /\ IsOpen(focus) /\ dialogs[focus].kind = "ask"
  /\ dialogs' = [dialogs EXCEPT ![focus].closed = TRUE] /\ focus' = Editor
  /\ UNCHANGED moves

(* A button of a confirmation, whether it has the focus already or takes it. *)
Button ==
  \E d \in DOMAIN dialogs :
    LET taken == IF focus = d THEN dialogs ELSE Gain(Blur(dialogs, focus), d)
    IN  /\ IsOpen(d) /\ dialogs[d].kind = "confirm"
        /\ \/ GoesOn([taken EXCEPT ![d].closed = TRUE, ![d].answered = @ + 1])
           \/ dialogs' = [taken EXCEPT ![d].closed = TRUE] /\ focus' = Editor
        /\ UNCHANGED moves

(* The user moves the focus, also from one button of a confirmation to the   *)
(* next.                                                                     *)
Move ==
  \E to \in {Editor, Elsewhere} \cup {d \in DOMAIN dialogs : IsOpen(d) /\ dialogs[d].kind = "confirm"} :
    /\ moves < MaxMoves /\ moves' = moves + 1
    /\ dialogs' = Gain(Blur(dialogs, focus), to) /\ focus' = to

(* 200 ms after a button lost the focus. *)
Timer ==
  \E d \in DOMAIN dialogs :
    LET fired == [dialogs EXCEPT ![d].timers = @ - 1]
    IN  /\ dialogs[d].timers > 0
        /\ IF fired[d].blurring <= 0 /\ ~fired[d].closed
           THEN dialogs' = Close(fired, d) /\ focus' = Editor
           ELSE dialogs' = fired /\ UNCHANGED focus
        /\ UNCHANGED moves

Next == Open \/ Enter \/ Escape \/ Button \/ Move \/ Timer

Spec == Init /\ [][Next]_vars

-----------------------------------------------------------------------------
DialogsTypeOK ==
  /\ focus \in {Editor, Elsewhere} \cup DOMAIN dialogs
  /\ \A d \in DOMAIN dialogs : dialogs[d].closed \in BOOLEAN /\ dialogs[d].timers \in Nat /\ dialogs[d].blurring \in Int

(* No dialog is left standing: an open question has the focus, and an open   *)
(* confirmation has it or a timer that will look after it; it counts one     *)
(* button with the focus exactly as long as there is one.                    *)
NoneLeftBehind ==
  \A d \in DOMAIN dialogs :
    ~dialogs[d].closed =>
      /\ dialogs[d].kind = "ask" => focus = d
      /\ dialogs[d].kind = "confirm" => /\ focus = d \/ dialogs[d].timers > 0
                                        /\ dialogs[d].blurring = IF focus = d THEN 1 ELSE 0

(* A dialog is answered once at most, and one that was answered is closed;   *)
(* the focus is in none that is closed.                                      *)
AnsweredOnce ==
  /\ \A d \in DOMAIN dialogs : dialogs[d].answered <= 1 /\ (dialogs[d].answered = 1 => dialogs[d].closed)
  /\ focus \in DOMAIN dialogs => ~dialogs[focus].closed

(* Dialogs neither stay behind nor answer twice. *)
DialogsRight == NoneLeftBehind /\ AnsweredOnce
=============================================================================
