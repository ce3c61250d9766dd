SPECIFICATION SpecStatus
CONSTANTS
  Slot = {a, b}
  MaxSaves = 4
  Empty = Empty
  None = None
SYMMETRY SlotSymmetry
PROPERTIES
  IsDurable
