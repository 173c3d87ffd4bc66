SPECIFICATION Spec
CONSTANTS
  ua = ua
  ub = ub
  module1 = module1
  module2 = module2
  header = header
  classes = classes
  m1 = m1
  m2 = m2
  own = own
  included = included
  name1 = name1
  None = None
  Uri <- MCUri
  Text <- MCText
  Symbol <- MCSymbol
  Macro = {own, included}
  Name = {name1}
  Members <- MCMembers
  Referenced <- MCReferenced
  Defines <- MCDefines
  Includes <- MCIncludes
  HasClass = {classes}
  Collected <- MCOnce
  WatchKind = {"Changed"}
  Writer <- MCApart
  Absent = {ub}
  MaxReindex = 0
  MaxOps = 6
  MaxInbox = 2
CHECK_DEADLOCK FALSE
INVARIANTS IndexExact IndexCurrent
