SPECIFICATION MCSpec
CONSTANTS
  a = a
  b = b
  Str = {s, t}
  Byte = {a, b}
  Nul = nul
  Garbage = garbage
  Literals <- MCLiterals
  MaxLength = 3
  OOM = TRUE
  Handle = {h1, h2, h3, h4}
  Container = {c1, c2, c3}
  None = none
INVARIANTS
  Terminated
  Counted
PROPERTY ImplementsText
CHECK_DEADLOCK FALSE
