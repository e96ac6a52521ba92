------------------------------- MODULE MCPage -------------------------------
(* Small instances for TLC of what timers and events of a page drive: the    *)
(* forms and uploads, the editor's input and highlighting, the tests and the *)
(* date picker.  As in MCEditor a behaviour picks one of them and keeps to   *)
(* it; a part that was not picked rests, and is not due for anything.        *)
EXTENDS UploadForm, EditorInput, TestQueue, DatePicker, FormFields, TLC

CONSTANTS Parts     \* the parts that may be picked

VARIABLES part,
  wLine, wWork, wTimer, wPlain, wShowingFrom, wRun, wSkipped, wEdits

wVars == <<wLine, wWork, wTimer, wPlain, wShowingFrom, wRun, wSkipped, wEdits>>
pageVars == <<part, vars, inputVars, queueVars, wVars, pickerVars, formVars>>

-----------------------------------------------------------------------------
(* An upload with a deadline, one that is sent at once, and one that asks to *)
(* have the connection closed first and brings its own frame.                *)
Limited == [global |-> TRUE, limited |-> TRUE, sync |-> FALSE, named |-> FALSE, keepAlive |-> FALSE, clears |-> TRUE]
AtOnce == [global |-> TRUE, limited |-> FALSE, sync |-> TRUE, named |-> FALSE, keepAlive |-> FALSE, clears |-> FALSE]
OwnFrame == [global |-> FALSE, limited |-> TRUE, sync |-> FALSE, named |-> TRUE, keepAlive |-> TRUE, clears |-> FALSE]
PageOptions == {Limited, AtOnce, OwnFrame}

(* Two lines at once, and texts that open and end blocks and comments; the   *)
(* head of a function with two lines the same and a use of its parameter,    *)
(* that the head of a block replaces.                                        *)
W == INSTANCE HighlightWork WITH
       AtOnce <- 2, LookBack <- 40, SameLines <- 1, MaxLines <- 5, MaxEdits <- 3,
       Codes <- {<<"stmt">>, <<"rem">>, <<"brace">>, <<"arg", "stmt", "stmt", "stmt", "use">>,
                 <<"stmt", "end", "stmt", "stmt">>},
       line <- wLine, work <- wWork, timer <- wTimer, plain <- wPlain, showingFrom <- wShowingFrom,
       run <- wRun, skipped <- wSkipped, edits <- wEdits

(* Two tests: one that does not wait, one that waits and pauses again, one   *)
(* that is never started, one that waits and throws.                         *)
Plan(stops, starts, pauses, dies) == [stops |-> stops, starts |-> starts, pauses |-> pauses, dies |-> dies]
Never == Plan(2, 0, FALSE, FALSE)
PageOrder == <<"t1", "t2">>
PagePlans == {Plan(0, 1, FALSE, FALSE), Plan(1, 1, TRUE, FALSE), Never, Plan(1, 1, FALSE, TRUE)}

(* A leap day, the last day of a year, a day no month has, and a year that   *)
(* is not typed to the end.                                                  *)
PageFormats == {<<"m", "d", "y">>, <<"d", "m", "y">>, <<"y", "m", "d">>}
PageTyped == {[y |-> 2012, m |-> 1, d |-> 29], [y |-> 2011, m |-> 11, d |-> 31], [y |-> 2012, m |-> 0, d |-> 0],
               [y |-> 20, m |-> 1, d |-> 29]}

PageTexts == STRING
(* Forms that have every kind of control between them, and a small one. *)
Control(kind, name, value) ==
  [kind |-> kind, name |-> name, value |-> value, checked |-> FALSE, disabled |-> FALSE, options |-> <<>>, picked |-> {}]
Choice(kind, name, options, picked) == [Control(kind, name, "") EXCEPT !.options = options, !.picked = picked]
Checked(control) == [control EXCEPT !.checked = TRUE]
PageForms ==
  {<<Control("text", "t", "given")>>,
   <<Control("text", "t", "given"), Control("radio", "r", "1"), Checked(Control("radio", "r", "2")),
     Control("submit", "s", "go"), Control("submit", "s", "stop")>>,
   <<Control("image", "i", "pic"), Choice("select-one", "o", <<"a", "b">>, {"a"}), Control("hidden", "h", "kept"),
     Control("submit", "", "go")>>,
   <<Choice("file", "f", <<"a", "b">>, {}), Choice("select-multiple", "m", <<"a", "b">>, {"b"}),
     Control("image", "i", "pic"), Control("reset", "x", "again")>>,
   <<Checked(Control("checkbox", "c", "on")), Control("textarea", "c", "given"), Control("text", "", "lost"),
     Control("button", "b", "push"), Control("submit", "s", "go")>>}

-----------------------------------------------------------------------------
(* A part that was not picked is where it starts, in one way of starting. *)
StartOf(p, asPicked, oneWay) == IF part = p THEN asPicked ELSE oneWay

MCInit ==
  /\ part \in Parts
  /\ Init /\ opt["u2"] = AtOnce /\ opt["u1"] # AtOnce /\ StartOf("uploads", TRUE, opt["u1"] = Limited)
  /\ W!Init
  /\ InputInit /\ StartOf("input", TRUE, readOnly = FALSE)
  /\ QueueInit /\ StartOf("tests", plan["t1"] # Plan(0, 1, FALSE, FALSE) /\ plan["t2"] \in {Plan(0, 1, FALSE, FALSE), Never},
                           ~limited /\ plan["t1"] = Never /\ plan["t2"] = Never /\ Len(queue) = 2)
  /\ PickerInit /\ StartOf("picker", TRUE, format[1] = "y" /\ weekStart = 0 /\ date.y = 2011)
  /\ FieldsInit /\ StartOf("fields", TRUE, Len(form) = 1)

(* What was not picked stays as it is. *)
OthersRest ==
  /\ UNCHANGED part
  /\ IF part = "uploads" THEN TRUE ELSE UNCHANGED vars
  /\ IF part = "work" THEN TRUE ELSE UNCHANGED wVars
  /\ IF part = "input" THEN TRUE ELSE UNCHANGED inputVars
  /\ IF part = "tests" THEN TRUE ELSE UNCHANGED queueVars
  /\ IF part = "picker" THEN TRUE ELSE UNCHANGED pickerVars
  /\ IF part = "fields" THEN TRUE ELSE UNCHANGED formVars

MCNext ==
  \/ part = "uploads" /\ Next /\ OthersRest
  \/ part = "work" /\ W!Next /\ OthersRest
  \/ part = "input" /\ InputNext /\ OthersRest
  \/ part = "tests" /\ QueueNext /\ OthersRest
  \/ part = "picker" /\ PickerNext /\ OthersRest
  \/ part = "fields" /\ FieldsNext /\ OthersRest

(* The fairness of the parts: the browser runs the timers and events that    *)
(* are due.  Each is stated of the part's own variables; that the others     *)
(* rest meanwhile is no part of what is due.                                 *)
MCFairness ==
  /\ \A u \in Uploads :
       /\ WF_vars(part = "uploads" /\ DoSubmit(u))
       /\ WF_vars(part = "uploads" /\ LoadEvent(u))
       /\ WF_vars(part = "uploads" /\ Retry(u))
       /\ WF_vars(part = "uploads" /\ Deadline(u))
       /\ WF_vars(part = "uploads" /\ CheckState(u))
  /\ WF_wVars(part = "work" /\ W!HighlightWorker)
  /\ WF_queueVars(part = "tests" /\ Rounds)
  /\ WF_queueVars(part = "tests" /\ StartTimer)
  /\ WF_queueVars(part = "tests" /\ NextTimer)
  /\ WF_queueVars(part = "tests" /\ TimeoutFires)
  /\ \A t \in Tests : WF_queueVars(part = "tests" /\ Callback(t))

MCSpec == MCInit /\ [][MCNext]_pageVars /\ MCFairness

-----------------------------------------------------------------------------
(* UploadSafe and Settles, InputRight, QueueRight and TestsEnd, PickerRight, *)
(* FieldsRight are those of UploadForm, EditorInput, TestQueue, DatePicker   *)
(* and FormFields, and hold while the part rests.  The other is asked while  *)
(* its part is picked, with its types; what it says stands in the module.    *)

(* The highlighting that rests is right, and it comes to rest. *)
WorkRight ==
  /\ [](part = "work" => W!HighlightTypeOK /\ W!RestsWhenRight)
  /\ part = "work" => W!WorkEnds
==============================================================================
