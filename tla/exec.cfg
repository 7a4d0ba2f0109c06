SPECIFICATION FairSpec
CONSTANTS
  MaxCalls = 2
  Absent = Absent
  a = a
  b = b
  o = o
  Char = {a, b, o}
  Strings <- MCStrings
  OldContent <- MCOldContent
INVARIANTS ResultIsChilds FileAfterCall RedirectComplete OutputOnce
PROPERTY CallsReturn
CHECK_DEADLOCK FALSE
