SPECIFICATION MCSpec
CONSTANTS
  Letters = {1, 2}
  MaxWord = 2
  MaxList = 4
  IndentWidth = 2
  LineTexts <- MCLineTexts
  MaxSpaces = 3
  UndoStrings <- MCUndoStrings
  Operators <- MCUndoStrings
  NameChars = {"i", "s"}
  Keywords <- MCKeywords
  OtherChars = {"="}
  ParenTexts <- MCParenTexts
  MaxParenText = 2
  CallPages <- MCCallPages
  MaxCallText = 4
  None = None
CHECK_DEADLOCK FALSE
INVARIANTS
  RangeIsRight
  StructureIsRight
  HelpIsRight
  DictIsRight
PROPERTIES
  ListIsRight
  KeysAreRight
