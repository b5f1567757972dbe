SPECIFICATION Spec
CONSTANTS
  ShellIds = {i1, i2}
  Shells = {sh1, sh2, sh3}
  Handlers = {h1, h2}
  Drainer = Drainer
  None = None
SYMMETRY Symmetry
INVARIANTS TypeOK NoStrayProcess ClosedSessionIsEmpty
PROPERTY RemovesOnlyEnded
