SPECIFICATION Spec
CONSTANTS
  Absent = Absent
  Malformed = Malformed
  Unset = Unset
  Word = {"-Wall", "-DP", "-DM", "rtl", "tb", "a"}
  None = None
  b1 = b1
  b2 = b2
  s1 = s1
  Src = {s1}
  BuildFile <- MCBuildFile
  ConfText <- MCConfText
  Folders = {TRUE, FALSE}
  MaxEdits = 2
  MaxCommands = 3
CHECK_DEADLOCK FALSE
INVARIANTS OfferedIsServed NegotiatedKept DriverFollowsConfig ConfigCurrent IndexHears
