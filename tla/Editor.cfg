\* The parts of the code editor, one per behaviour: see the module for their instances.
SPECIFICATION MCSpec
CONSTANTS
  MaxDialogs = 3
  MaxMoves = 3
  InitText <- HistoryText
  Codes <- HistoryCodes
  UndoDepth = 2
  MaxEdits = 3
  MaxLines = 2
  MaxDepth = 1
  Margin = 1
  Slack = 2
  Rows = 1
  FirstLines = 4
  MaxHeight = 4
  MaxChanges = 2
  InitLines <- SelectionLines
  Insertions <- SelectionCodes
  MaxLineCount = 3
  MaxLength = 2
  MaxInputs = 3
  Parts = {"dialogs", "history", "marks", "tree", "view", "selection", "folding", "search", "script"}
INVARIANTS
  DialogsRight
  QueriesAgree
  ShownIsCurrent
  SearchRight
  ScriptRight
PROPERTIES
  HistoryRight
  MarksRight
  ImplementsLineList
  SelectionRight
  FoldingRight
\* The bounds end every behaviour.
CHECK_DEADLOCK FALSE
