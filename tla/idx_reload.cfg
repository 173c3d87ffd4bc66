SPECIFICATION Spec
CONSTANTS
  ua = ua
  ub = ub
  module1 = module1
  module2 = module2
  header = header
  classes = classes
  m1 = m1
  m2 = m2
  own = own
  included = included
  name1 = name1
  None = None
  Uri <- MCUri
  Text <- MCText
  Symbol <- MCSymbol
  Macro = {own, included}
  Name = {name1}
  Members <- MCMembers
  Referenced <- MCReferenced
  Defines <- MCDefines
  Includes <- MCIncludes
  HasClass = {classes}
  Collected <- MCSome
  WatchKind = {"Changed"}
  Writer <- MCShared
  Absent = {ua, ub}
  MaxReindex = 2
  MaxOps = 3
  MaxInbox = 2
CHECK_DEADLOCK FALSE
INVARIANTS IndexComplete
