SPECIFICATION MCSpec
CONSTANTS
  Absent = Absent
  None = "none"
  FileNames = {"f1", "f2"}
  InitialFiles <- MCInitialFiles
  MaxItems = 3
  Null = Null
  Texts = {"", "for", "form", "for:x"}
  OneLine = {"", "for", "form"}
  Blank = ""
  Matches <- MCMatches
  Hash <- MCHash
  Files = {}
  LeaveCode = FALSE
  MaxHist = 4
CHECK_DEADLOCK FALSE
PROPERTY
  QuitKeepsHistoryOnErrors
