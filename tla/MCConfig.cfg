CONSTANTS
  Vocabulary <- Vocabularies
  LineBound = 5
  Window = {w1}
  AppId = {"", "a"}
  Title = {"", "t"}
  OnDisk <- DiskFiles
  SentBound = 2
SPECIFICATION ConfigSpec
INVARIANTS LoadIsDeclared PropsCurrent DecorationCurrent
PROPERTY Settles
CHECK_DEADLOCK FALSE
