------------------------------ MODULE MCEditor ------------------------------
(* Small instances of the modules of the code editor for TLC, side by side:  *)
(* a behaviour picks one part of the editor and keeps to it, so the states   *)
(* of the parts add up and do not multiply.  Nothing is composed here: the   *)
(* parts meet in calls their own modules take as inputs.                     *)
EXTENDS Dialogs, EditHistory, EditorView, EditorSelection, FiniteSets

CONSTANTS Parts     \* the parts that may be picked

VARIABLES part,
  mDoc, mSet, mUsed, mCleared, mEdits, mNextId,
  tStore, tLine, tFlat, tOps,
  fPage, fDoc, fRegions, fFolded, fSteps,
  rDoc, rSel, rSearch, rMarks, rAsked, rSteps,
  jRest, jFree, jRead, jLine, jState, jOpen

mVars == <<mDoc, mSet, mUsed, mCleared, mEdits, mNextId>>
tVars == <<tStore, tLine, tFlat, tOps>>
fVars == <<fPage, fDoc, fRegions, fFolded, fSteps>>
rVars == <<rDoc, rSel, rSearch, rMarks, rAsked, rSteps>>
jVars == <<jRest, jFree, jRead, jLine, jState, jOpen>>

-----------------------------------------------------------------------------
(* Deleting, and typing a letter and a new line; undo two deep. *)
HistoryText == <<<<1>>, <<>>>>
HistoryCodes == {<<<<>>>>, <<<<3>>, <<>>>>}

(* A marker and a bookmark, two edits. *)
M == INSTANCE TextMarks WITH
       Lengths <- <<1, 1>>, Marker <- {"m"}, Bookmark <- {"b"}, Codes <- {<<0>>, <<1>>, <<0, 1, 0>>},
       MaxEdits <- 2, MaxLines <- 3,
       doc <- mDoc, set <- mSet, used <- mUsed, cleared <- mCleared, edits <- mEdits, nextId <- mNextId

(* Chunks of two lines and three children, so that leaves and branches spill *)
(* and collapse within six lines.                                            *)
T == INSTANCE LineTree WITH
       LeafMax <- 2, LeafSpill <- 1, BranchMax <- 3, BranchSpill <- 2, CollapseBelow <- 2,
       Heights <- {0, 1, 2}, MaxInsert <- 3, MaxLines <- 6, MaxOps <- 3,
       store <- tStore, line <- tLine, flat <- tFlat, ops <- tOps

(* Two lines; a line break, two of them, a letter and nothing to insert. *)
SelectionLines == <<1, 1>>
SelectionCodes == {<<0>>, <<1>>, <<0, 0>>, <<0, 0, 0>>}

(* One page for each of the four ways to find what to fold. *)
NoIndent == [t \in {<<>>} |-> 0]
Indents == [t \in {<<>>, <<"x">>, <<"x", "x">>, <<"x", "x", "x">>} |-> Len(t)]
Pages ==
  {[finder |-> "brace", indents |-> NoIndent,
    lines |-> <<<<"x", "{">>, <<"x", "{">>, <<"x">>, <<"}">>, <<"}">>>>,
    new |-> {<<"else", "{">>, <<"//{">>, <<"}", "}">>}],
   [finder |-> "brace to end", indents |-> NoIndent,
    lines |-> <<<<"x", "{">>, <<"x">>, <<"}">>>>, new |-> {<<"}", "x", "{">>}],
   [finder |-> "indent", indents |-> Indents,
    lines |-> <<<<"x">>, <<"x", "x">>, <<>>, <<"x", "x", "x">>, <<"x">>>>, new |-> {<<"x", "x">>}],
   [finder |-> "tag", indents |-> NoIndent,
    lines |-> <<<<"<a>">>, <<"<a">>, <<"x", ">">>, <<"</a>">>, <<"</a>">>>>,
    new |-> {<<"<a/>", "<a>">>, <<"/", "x", ">">>}]}

F == INSTANCE FoldCode WITH
       MaxLines <- 5, MaxSteps <- 3,
       page <- fPage, doc <- fDoc, regions <- fRegions, folded <- fFolded, steps <- fSteps

(* Queries of one and two lines, in texts where they overlap. *)
R == INSTANCE TextSearch WITH
       Texts <- {<<<<"a", "A", "a">>, <<"b", "a", "a">>>>, <<<<"b">>, <<"a", "b">>, <<"a", "b", "A">>>>},
       Queries <- {<<<<"a">>>>, <<<<"a", "a">>>>, <<<<"b">>, <<"a">>>>, <<<<"a", "b">>, <<"a">>>>},
       NewTexts <- {<<>>, <<"a", "a">>}, MaxSteps <- 3,
       doc <- rDoc, sel <- rSel, search <- rSearch, marks <- rMarks, asked <- rAsked, steps <- rSteps

(* A program for every construct, and three tokens at random. *)
Programs ==
  {<<"function", "x", "(", "y", ")", "{", "var", "x", "=", "1", ";", "return", "(", "x", ")", ";", "}", "y", ";">>,
   <<"if", "(", "x", ")", "{", "x", "(", "y", ",", "1", ")", ";", "}", "else", "y", ";">>,
   <<"for", "(", "var", "x", "=", "1", ";", "x", ";", "x", "++", ")", "{", "y", ";", "}">>,
   <<"x", "=", "{", "x", ":", "1", ",", "y", ":", "[", "1", ",", "x", "]", "}", ";">>,
   <<"x", "=", "function", "(", "x", ")", "{", "/*", "}", "*/", "x", "=", "slash", ";", "}", ";">>,
   <<"x", ":", "while", "(", "x", ")", "x", ".", "y", "[", "1", "]", ";", "do", "{", "y", ";", "}", "while", "(", "x", ")", ";">>,
   <<"switch", "(", "x", ")", "{", "case", "1", ":", "y", ";", "default", ":", "{", "x", ";", "}", "}">>,
   <<"for", "(", "x", "in", "y", ")", "if", "(", "x", ")", "y", "=", "x", "?", "1", ":", "(", "y", ")", ";">>}

J == INSTANCE ScriptMode WITH
       Tokens <- {"x", "(", ")", "{", "}", ";", "function", "if", "=", "?"},
       MaxTokens <- 3,
       rest <- jRest, free <- jFree, read <- jRead, line <- jLine, state <- jState, open <- jOpen

-----------------------------------------------------------------------------
(* A part that was not picked is where it starts, in one way of starting. *)
StartOf(p, oneWay) == part = p \/ oneWay

MCInit ==
  /\ part \in Parts
  /\ Init /\ HistoryInit /\ M!Init /\ T!Init
  /\ ViewInit /\ StartOf("view", showingFrom = 0 /\ showingTo = 1)
  /\ SelectionInit /\ StartOf("selection", sel.from = <<0, 0>>)
  /\ F!Init /\ StartOf("folding", fPage.finder = "indent")
  /\ R!Init /\ StartOf("search", Len(rDoc) = 2)
  /\ J!Init /\ StartOf("script", jFree)

(* What was not picked stays as it is. *)
OthersRest ==
  /\ UNCHANGED part
  /\ IF part = "dialogs" THEN TRUE ELSE UNCHANGED vars
  /\ IF part = "history" THEN TRUE ELSE UNCHANGED historyVars
  /\ IF part = "marks" THEN TRUE ELSE UNCHANGED mVars
  /\ IF part = "tree" THEN TRUE ELSE UNCHANGED tVars
  /\ IF part = "view" THEN TRUE ELSE UNCHANGED viewVars
  /\ IF part = "selection" THEN TRUE ELSE UNCHANGED selectionVars
  /\ IF part = "folding" THEN TRUE ELSE UNCHANGED fVars
  /\ IF part = "search" THEN TRUE ELSE UNCHANGED rVars
  /\ IF part = "script" THEN TRUE ELSE UNCHANGED jVars

MCNext ==
  \/ part = "dialogs" /\ Next /\ OthersRest
  \/ part = "history" /\ HistoryNext /\ OthersRest
  \/ part = "marks" /\ M!Next /\ OthersRest
  \/ part = "tree" /\ T!Next /\ OthersRest
  \/ part = "view" /\ ViewNext /\ OthersRest
  \/ part = "selection" /\ SelectionNext /\ OthersRest
  \/ part = "folding" /\ F!Next /\ OthersRest
  \/ part = "search" /\ R!Next /\ OthersRest
  \/ part = "script" /\ J!Next /\ OthersRest

MCSpec ==
  MCInit /\ [][MCNext]_<<part, vars, historyVars, mVars, tVars, viewVars, selectionVars, fVars, rVars, jVars>>

-----------------------------------------------------------------------------
(* The properties of the parts, each with the types of its part and asked    *)
(* while that part is picked; what they say stands in the modules.           *)
(* DialogsRight, HistoryRight, ShownIsCurrent and SelectionRight are those   *)
(* of Dialogs, EditHistory, EditorView and EditorSelection themselves, and   *)
(* hold while the part rests.                                                *)

(* Marks move with the text, and clearing a mark leaves nothing behind. *)
MarksRight ==
  /\ [](part = "marks" => M!MarksTypeOK /\ M!ClearFindsAll)
  /\ M!MarksFollowText

(* The questions to the tree of lines are answered as by a plain list. *)
QueriesAgree == part = "tree" => T!QueriesAgree /\ T!ChunksBounded

(* The tree of lines implements a plain list. *)
ImplementsLineList == T!ImplementsLineList

(* Folding hides a block and loses no line, and only the deletion of a       *)
(* fold's first line opens it.                                               *)
FoldingRight ==
  /\ [](part = "folding" => F!FoldTypeOK /\ F!NothingLost /\ F!FoundIsBlock)
  /\ F!OnlyDeletionOpens

(* Searching finds, marks and replaces what is in the text. *)
SearchRight == part = "search" => R!SearchTypeOK /\ R!SearchRight

(* The JavaScript mode knows the blocks that are open. *)
ScriptRight == part = "script" => J!ScriptTypeOK /\ J!ScriptRight
==============================================================================
