CONSTANTS
  Alphabets <- MCAlphabets
  Columns = 12
  Fold = 2
  HeadMinPages = 2
  HeadFrequency = 60
  HeadScanLines = 1
SPECIFICATION Spec
INVARIANTS ParagraphsAreLines OnlyNotesAreDefined OnlyHeadsAreDropped GutterIsWidest
CHECK_DEADLOCK FALSE
