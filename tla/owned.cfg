\* two objects and two plain pointers, strings of up to two characters
SPECIFICATION Spec
CONSTANTS
  Owners = {x, y}
  Plain = {p, q}
  Addresses = {a1, a2, a3, a4}
  Chars = {c, d}
  Dead = dead
  Null = null
  Stale = stale
  NoBlock = noBlock
  MaxLen = 2
SYMMETRY Symmetry
INVARIANTS TypeOK OwnersAreExact
PROPERTIES MisuseIsNarrow CallsMatch
CHECK_DEADLOCK FALSE
