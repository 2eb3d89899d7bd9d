SPECIFICATION Spec
INVARIANTS
  TypeOK
  FiguresAreTrue
  FiguresAgree
PROPERTIES
  HistoryStands
CHECK_DEADLOCK FALSE
