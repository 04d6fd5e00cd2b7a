SPECIFICATION Spec
CONSTANTS
  Width = 12
  SizeMax = 4095
  IntMax = 3
  Chars = {0, 1}
  MaxText = 5
  Stride = 257
  Beyond = 1120000
INVARIANTS PowersAreLeast TextsDecode CompareOrders AffixesAreRight
