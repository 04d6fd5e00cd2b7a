\* two objects, a plain pointer and a view of blocks of up to two elements
SPECIFICATION Spec
CONSTANTS
  Owners = {x, y}
  Plain = {p}
  Views = {v}
  Addresses = {a1, a2}
  Values = {zero}
  Zero = zero
  None = none
  Dead = dead
  Null = null
  Stale = stale
  TypeSize = 2
  HeaderData = 2
  MaxCount = 2
SYMMETRY Symmetry
INVARIANTS TypeOK OwnersAreExact ViewsAreInside
PROPERTIES MisuseIsNarrow CallsMatch
CHECK_DEADLOCK FALSE
