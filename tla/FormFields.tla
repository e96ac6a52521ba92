----------------------------- MODULE FormFields -----------------------------
(* What a form sends (js/jquery.form.js): the element that was clicked to    *)
(* submit it, which is noted on the form for a moment; the names and values  *)
(* formToArray and its relatives gather; clearing, resetting, enabling and   *)
(* selecting fields.                                                         *)
(*                                                                           *)
(* A form is the sequence of its named and unnamed controls, in the order of *)
(* the page, images included.  For a select, options says which values it    *)
(* has and picked which ones are selected; for a file field, what is picked. *)
EXTENDS Integers, Sequences, SequencesExt, FiniteSets

TextKinds == {"text", "textarea"}
Selects == {"select-one", "select-multiple"}
Submitters == {"submit", "image"}
Kinds == TextKinds \cup Selects \cup Submitters \cup {"checkbox", "radio", "hidden", "file", "reset", "button"}
CONSTANTS Texts,    \* what a field may hold
          Forms,    \* the forms as they may come
          MaxSteps  \* bound: what users and scripts do to one

Controls ==
  {c \in [kind : Kinds, name : STRING, value : Texts, checked : BOOLEAN, disabled : BOOLEAN,
          options : Seq(Texts), picked : SUBSET Texts] : c.picked \subseteq ToSet(c.options)}

ASSUME FormsAssumption == {"", "typed"} \subseteq Texts /\ Forms \subseteq Seq(Controls)

VARIABLES initial,  \* the form as the page came, for a reset
          form,     \* its controls
          clk,      \* the element clicked last, or None
          clickTimers, \* timers that will forget it
          sent,     \* what was last sent: [pairs, semantic, by, form], by a click on which element
          latest,   \* history: the element clicked last
          formSteps

formVars == <<initial, form, clk, clickTimers, sent, latest, formSteps>>

None == 0
Nothing == [pairs |-> <<>>, semantic |-> FALSE, by |-> None, form |-> <<>>]
CanClick(f, i) == f[i].kind \in Submitters /\ ~f[i].disabled

-----------------------------------------------------------------------------
(* The values of one field, none where the code gives null or undefined.     *)
Unsuccessful(f, i, clicked) ==
  \/ f[i].name = "" \/ f[i].disabled
  \/ f[i].kind \in {"reset", "button"}
  \/ f[i].kind \in {"checkbox", "radio"} /\ ~f[i].checked
  \/ f[i].kind \in Submitters /\ clicked # i
  \/ f[i].kind \in Selects /\ f[i].picked = {}

PickedOf(field) ==
  FlattenSeq([j \in DOMAIN field.options |->
    IF field.options[j] \in field.picked THEN <<field.options[j]>> ELSE <<>>])

FieldValue(f, i, successful, clicked) ==
  IF successful /\ Unsuccessful(f, i, clicked) THEN <<>>
  ELSE IF f[i].kind \in Selects THEN PickedOf(f[i]) ELSE <<f[i].value>>

Pairs(name, values) == [j \in DOMAIN values |-> <<name, values[j]>>]
ImagePairs(f, i) == <<<<f[i].name, f[i].value>>, <<f[i].name \o ".x", "x">>, <<f[i].name \o ".y", "y">>>>

(* A file field is sent with each file, or empty. *)
FieldPairs(f, i, clicked) ==
  IF f[i].kind = "file" /\ f[i].name # "" /\ ~f[i].disabled
  THEN Pairs(f[i].name, IF f[i].picked = {} THEN <<"">> ELSE PickedOf(f[i]))
  ELSE Pairs(f[i].name, FieldValue(f, i, TRUE, clicked))

(* The browser's list of elements leaves the images out; they come last,     *)
(* unless semantic asks for all elements in the order of the page.           *)
ElementPairs(f, i, semantic, clicked) ==
  CASE f[i].kind # "image" -> FieldPairs(f, i, clicked)
    [] f[i].kind = "image" /\ semantic /\ clicked = i /\ f[i].name # "" /\ ~f[i].disabled -> ImagePairs(f, i)
    [] OTHER -> <<>>
ClickedImage(f, clicked) ==
  clicked # None /\ f[clicked].kind = "image" /\ f[clicked].name # "" /\ ~f[clicked].disabled

FormToArray(f, semantic, clicked) ==
  FlattenSeq([i \in DOMAIN f |-> ElementPairs(f, i, semantic, clicked)])
  \o (IF ~semantic /\ ClickedImage(f, clicked) THEN ImagePairs(f, clicked) ELSE <<>>)

SerializedPairs(f, i, successful, clicked) ==
  IF f[i].name = "" THEN <<>> ELSE Pairs(f[i].name, FieldValue(f, i, successful, clicked))
FieldSerialize(f, successful, clicked) ==
  FlattenSeq([i \in DOMAIN f |-> SerializedPairs(f, i, successful, clicked)])

(* clearFields.  A file field, a button and, unless asked for, a hidden      *)
(* field are left alone.                                                     *)
Cleared(field, includeHidden) ==
  CASE field.kind \in TextKinds -> [field EXCEPT !.value = ""]
    [] field.kind \in {"checkbox", "radio"} -> [field EXCEPT !.checked = FALSE]
    [] field.kind \in Selects -> [field EXCEPT !.picked = {}]
    [] field.kind = "hidden" /\ includeHidden -> [field EXCEPT !.value = ""]
    [] OTHER -> field
ClearFields(f, includeHidden) == [i \in DOMAIN f |-> Cleared(f[i], includeHidden)]

(* selected, of a box or button itself or of one option of a select. *)
SelectedField(field, v, select) ==
  CASE field.kind \in {"checkbox", "radio"} -> [field EXCEPT !.checked = select]
    [] field.kind \in Selects ->
         [field EXCEPT !.picked = IF ~select THEN @ \ {v}
                                  ELSE IF field.kind = "select-one" THEN {v} ELSE @ \cup {v}]

-----------------------------------------------------------------------------
FieldsInit ==
  /\ initial \in Forms /\ form = initial
  /\ clk = None /\ clickTimers = 0 /\ sent = Nothing /\ latest = None /\ formSteps = 0

(* What the user enters; the browser lets one radio button of a name be on.  *)
Enter ==
  /\ \E i \in DOMAIN form :
       /\ ~form[i].disabled
       /\ \/ form[i].kind \in TextKinds /\ form' = [form EXCEPT ![i].value = "typed"]
          \/ form[i].kind = "checkbox" /\ form' = [form EXCEPT ![i].checked = ~@]
          \/ form[i].kind = "radio"
             /\ form' = [j \in DOMAIN form |->
                          IF form[j].kind = "radio" /\ form[j].name = form[i].name
                          THEN [form[j] EXCEPT !.checked = j = i] ELSE form[j]]
          \/ form[i].kind = "select-one" /\ \E v \in ToSet(form[i].options) : form' = [form EXCEPT ![i].picked = {v}]
          \/ form[i].kind \in {"select-multiple", "file"}
             /\ \E p \in SUBSET ToSet(form[i].options) : form' = [form EXCEPT ![i].picked = p]
  /\ UNCHANGED <<clk, clickTimers, sent, latest>>

(* captureSubmittingElement: a click on a button that submits, the Enter key *)
(* included, which the browser turns into a click on the first of them.  The *)
(* submission follows at once, unless something in between prevents it.      *)
CaptureSubmittingElement(i, semantic, prevented) ==
  /\ CanClick(form, i)
  /\ clk' = i /\ latest' = i /\ clickTimers' = clickTimers + 1
  /\ sent' = IF prevented THEN sent
             ELSE [pairs |-> FormToArray(form, semantic, i), semantic |-> semantic, by |-> i, form |-> form]
  /\ UNCHANGED form

(* A script submits the form. *)
SubmitForm(semantic) ==
  /\ sent' = [pairs |-> FormToArray(form, semantic, clk), semantic |-> semantic, by |-> clk, form |-> form]
  /\ UNCHANGED <<form, clk, clickTimers, latest>>

(* Mutant: only the place of a click on an image is forgotten. *)
ForgetTimer_PlaceOnly ==
  /\ clickTimers > 0 /\ clickTimers' = clickTimers - 1
  /\ clk' = IF clk # None /\ form[clk].kind = "submit" THEN clk ELSE None
  /\ UNCHANGED <<form, sent, latest>>

(* 100 ms after a click the form forgets the element, whichever it is then.  *)
ForgetTimer ==
  /\ clickTimers > 0 /\ clickTimers' = clickTimers - 1 /\ clk' = None
  /\ UNCHANGED <<form, sent, latest>>

Clear == \E includeHidden \in BOOLEAN : form' = ClearFields(form, includeHidden) /\ UNCHANGED <<clk, clickTimers, sent, latest>>
Reset == form' = [i \in DOMAIN form |-> [initial[i] EXCEPT !.disabled = form[i].disabled]] /\ UNCHANGED <<clk, clickTimers, sent, latest>>
Enable == \E i \in DOMAIN form, b \in BOOLEAN : form' = [form EXCEPT ![i].disabled = ~b] /\ UNCHANGED <<clk, clickTimers, sent, latest>>
Select ==
  \E i \in DOMAIN form, select \in BOOLEAN :
    /\ form[i].kind \in {"checkbox", "radio"} \cup Selects
    /\ \E v \in ToSet(form[i].options) \cup {""} : form' = [form EXCEPT ![i] = SelectedField(@, v, select)]
    /\ form[i].kind \in Selects => form'[i].picked \subseteq ToSet(form[i].options)
    /\ UNCHANGED <<clk, clickTimers, sent, latest>>

FieldsNext ==
  /\ formSteps < MaxSteps /\ formSteps' = formSteps + 1 /\ UNCHANGED initial
  /\ \/ Enter \/ ForgetTimer \/ Clear \/ Reset \/ Enable \/ Select
     \/ \E i \in DOMAIN form, semantic, prevented \in BOOLEAN : CaptureSubmittingElement(i, semantic, prevented)
     \/ \E semantic \in BOOLEAN : SubmitForm(semantic)

FieldsSpec == FieldsInit /\ [][FieldsNext]_formVars

-----------------------------------------------------------------------------
FieldsTypeOK ==
  /\ {form, initial} \subseteq Seq(Controls) /\ DOMAIN form = DOMAIN initial
  /\ clk \in {None} \cup DOMAIN form /\ clickTimers \in Nat

(* The controls a browser would send, of a form submitted by the button b:   *)
(* the definition of HTML 4 (17.13.2) that the comments of the code cite.    *)
Values(f, i, b) ==
  CASE f[i].kind \in {"checkbox", "radio"} -> IF f[i].checked THEN {f[i].value} ELSE {}
    [] f[i].kind = "submit" -> IF i = b THEN {f[i].value} ELSE {}
    [] f[i].kind \in Selects -> f[i].picked
    [] f[i].kind = "file" -> IF f[i].picked = {} THEN {""} ELSE f[i].picked
    [] f[i].kind \in {"reset", "button", "image"} -> {}
    [] OTHER -> {f[i].value}
Active(f, i) == f[i].name # "" /\ ~f[i].disabled
Browser(f, b) == (UNION {{<<f[i].name, v>> : v \in Values(f, i, b)} : i \in {j \in DOMAIN f : Active(f, j)}})
                 \cup IF b # None /\ f[b].kind = "image" /\ Active(f, b) THEN ToSet(ImagePairs(f, b)) ELSE {}

(* What was sent is what the browser would send of the form as it was then,  *)
(* with the pair of a button only if that is the one clicked last; and both  *)
(* orders hold the same pairs, the same number of times.                     *)
Times(pairs, p) == Cardinality({i \in DOMAIN pairs : pairs[i] = p})
SentAsBrowser ==
  /\ ToSet(sent.pairs) = Browser(sent.form, sent.by)
  /\ \A p \in ToSet(sent.pairs) : Times(sent.pairs, p) = Times(FormToArray(sent.form, ~sent.semantic, sent.by), p)

(* The noted element is the one clicked last, and will be forgotten. *)
ClickIsFresh == clk # None => clk = latest /\ clickTimers > 0

(* A form that is cleared sends nothing a user entered, but files. *)
ClearedIsEmpty ==
  \A semantic \in BOOLEAN : \A p \in ToSet(FormToArray(ClearFields(form, FALSE), semantic, None)) :
    p[2] # "" => \E i \in DOMAIN form : form[i].kind \in {"hidden", "file"} /\ form[i].name = p[1]

(* Of the fields without files and images, fieldSerialize gives the same.    *)
SerializesAlike ==
  (\A i \in DOMAIN form : form[i].kind \notin {"file", "image"}) =>
    \A b \in {None} \cup {i \in DOMAIN form : CanClick(form, i)} :
      FieldSerialize(form, TRUE, b) = FormToArray(form, FALSE, b)

(* A form sends what its user entered and the button that was clicked. *)
FieldsRight == FieldsTypeOK /\ SentAsBrowser /\ ClickIsFresh /\ ClearedIsEmpty /\ SerializesAlike
=============================================================================
