\* What timers and events of a page drive, one part per behaviour: see the module for the instances.
SPECIFICATION MCSpec
CONSTANTS
  Uploads = {"u1", "u2"}
  Options <- PageOptions
  Tries = 2
  Chars = {"a", "b", "c"}
  InputLimit = 1
  Order <- PageOrder
  Plans <- PagePlans
  Error = "error"
  NoTest = "none"
  Formats <- PageFormats
  WeekStarts = {0, 1}
  Typed <- PageTyped
  Years = {20, 1920, 1970, 2011, 2012}
  MaxEvents = 4
  Texts <- PageTexts
  Forms <- PageForms
  MaxSteps = 4
  Parts = {"uploads", "work", "input", "tests", "picker", "fields"}
INVARIANTS
  UploadSafe
  InputRight
  QueueRight
  PickerRight
  FieldsRight
PROPERTIES
  Settles
  WorkRight
  TestsEnd
\* The bounds end every behaviour.
CHECK_DEADLOCK FALSE
