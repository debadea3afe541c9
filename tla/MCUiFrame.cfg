SPECIFICATION Spec
CONSTANTS
  Panels = {p}
  Internal = {f}
  External = {g}
  None = None
  MaxSlots = 8
  InitialLength = 4
  MaxPlain = 1
  MaxNodes = 3
INVARIANTS TypeOK FrameTreeExact TextModeCoherent
