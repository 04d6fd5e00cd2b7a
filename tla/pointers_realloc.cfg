\* ints, and the bytes the C++ header holds
SPECIFICATION Spec
CONSTANTS
  Owners = {x, y}
  Plain = {p}
  Views = {v}
  Addresses = {a1, a2}
  Values = {zero, e}
  Zero = zero
  None = none
  Dead = dead
  Null = null
  Stale = stale
  TypeSize = 4
  HeaderData = 8
  MaxCount = 3
PROPERTY ReallocKeeps
CHECK_DEADLOCK FALSE
