SPECIFICATION Spec
CONSTANTS
  Labs = {"text"}
  Chars = {"a", "u"}
  MaxLength = 3
  MaxBatch = 2
  MaxReloads = 1
  MaxBuffer = 5
  PathChars = {"a", " ", "%", "2", "0", "?"}
  Code <- MCCode
  MaxPath = 3
  None = None
  Lines <- MCLines
  Chains <- MCChains
  Worlds <- MCWorlds
  MaxEdits = 1
  Outlines <- MCOutlines
  Expansions <- MCExpansions
  Sheets <- MCSheets
  HintConfig <- MCHints
CHECK_DEADLOCK FALSE
INVARIANT Mirrored
