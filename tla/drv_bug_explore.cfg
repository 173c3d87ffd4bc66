SPECIFICATION Spec
CONSTANTS
  ua = ua
  ub = ub
  uc = uc
  t1 = t1
  t2 = t2
  f1 = f1
  Garbled = Garbled
  None = None
  Uri <- MCUri
  Text <- MCText
  Refs <- MCRefs
  Broken <- MCBroken
  NoTop <- MCNoTop
  Pkg <- MCPkg
  BuildFile = {}
  Sources <- MCSources
  Cmd = {}
  Fault = {"config"}
  WatchKind = {}
  MaxInbox = 1
  MaxOps = 5
  MaxDiags = 3
CHECK_DEADLOCK FALSE
INVARIANTS Mirror
