CONSTANTS
  PathSize = 9
  Width = 3
  Height = 3
  FinishColumns = {0, 1, 2}
  Others <- MCOthers
  NoFile = NoFile
SPECIFICATION Spec
INVARIANTS TypeOK SavedPathIsTheRoute ShortStaysOnRoute ReplayStaysInString
PROPERTY RunsEnd
