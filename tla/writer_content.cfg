SPECIFICATION Spec
CONSTANTS
  MaxCalls = 1
  Absent = Absent
  a = a
  b = b
  o = o
  Char = {a, b, o}
  Strings <- MCStrings
  OldContent <- MCOldContent
INVARIANT WriterOverwrites
CHECK_DEADLOCK FALSE
