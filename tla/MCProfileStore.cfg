\* Two icctl processes at the same file.  Once they have garbled it, every
\* operation is a parse error until the user repairs it: icctl does stop.
CONSTANTS
  p1 = p1
  p2 = p2
  a = a
  b = b
  x = x
  y = y
  Procs = {p1, p2}
  Names = {a, b}
  Settings = {x, y}
  NoName = NoName
  Missing = Missing
SPECIFICATION Spec
INVARIANT DefaultExists
PROPERTY KeepsRegistry
SYMMETRY Symmetric
CHECK_DEADLOCK FALSE
