SPECIFICATION Spec
CONSTANTS
  Panels = {p}
  Internal = {f}
  External = {g}
  None = None
  MaxSlots = 8
  InitialLength = 8
  MaxPlain = 0
  MaxNodes = 2
INVARIANTS AliasAlive
