SPECIFICATION Spec
CONSTANTS
  ua = ua
  ub = ub
  uc = uc
  t1 = t1
  t2 = t2
  f1 = f1
  Garbled = Garbled
  None = None
  Uri <- MCUri3
  Text <- MCText
  Refs <- MCRefs3
  Broken <- MCAllBroken
  NoTop <- MCNoTop
  Pkg <- MCPkg
  BuildFile = {f1}
  Sources <- MCSources
  Cmd = {"setBuildFile"}
  Fault = {"delete"}
  WatchKind = {"Changed"}
  MaxInbox = 1
  MaxOps = 5
  MaxDiags = 3
CHECK_DEADLOCK FALSE
INVARIANTS DriverInv
PROPERTIES SaveRepairs
