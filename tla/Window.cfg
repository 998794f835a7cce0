SPECIFICATION AllSpec
CONSTANTS
  MaxBottom = 4
  MaxPending = 2
  None = None
  Buffers = {b1, b2}
  Ids = {m1, m2}
  Timeout = 3
  MaxTimers = 2
  SectionLines = 3
  MaxSections = 4
  NumLines = 2
  Helpers = {"DreamPie", "Autocomplete"}
  PageTexts = {"", "a", "b"}
  MaxPages = 4
  Times = {1, 2, 3}
  Unset = 0
  Chars = {"a", "n", "r", "e", "["}
  BreakLen = 2
  MaxStream = 5
  CopyTabs = {t1, t2, t3}
  ThemeNames = {"Dark", "Dark ;]", "Light"}
  Bracketed = {"Dark ;]"}
  Padded = {"Dark ;]"}
  Stripped = "Dark"
  Cut = Cut
  Colors = {"white"}
  DEFAULT = "default"
  Elements = {}
  NewElements = {"number"}
  Dark = "Dark"
  NewThemes = {"Light"}
CHECK_DEADLOCK FALSE
INVARIANTS
  ScrollIsRight
  WindowIsRight
  TextIsRight
  CommandsAreRight
  ThemesAreRight
PROPERTIES
  FollowsText
  WindowActsRight
  UserIsTold
