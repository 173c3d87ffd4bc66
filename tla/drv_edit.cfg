SPECIFICATION Spec
CONSTANTS
  ua = ua
  ub = ub
  uc = uc
  t1 = t1
  t2 = t2
  f1 = f1
  Garbled = Garbled
  None = None
  Uri <- MCUri
  Text <- MCText
  Refs <- MCRefs
  Broken <- MCBroken
  NoTop <- MCNoTop
  Pkg <- MCPkg
  BuildFile = {f1}
  Sources <- MCSources
  Cmd = {}
  Fault = {}
  WatchKind = {}
  MaxInbox = 3
  MaxOps = 9
  MaxDiags = 3
CHECK_DEADLOCK FALSE
INVARIANTS Mirror
