SPECIFICATION Spec
CONSTANTS
  Char <- MCChar
  MaxTyped = 3
  Number = {0, 1}
  MaxTime = 2
  MaxEvents = 4
  PageLimit = 2
  CsvLimit = 3
  None = None
CHECK_DEADLOCK FALSE
INVARIANTS
  WebTypeOK
  BothDoorsAgree
  TellsWhatWasTried
  ShowsTheNewest
  CsvReadsBack
  FilterComesBack
  CookieComesBack
  FilenameArrives
PROPERTIES
  ClosedStaysClosed
