SPECIFICATION Spec
CONSTANTS
  Ids = {i1, i2}
  Sessions = {s1, s2}
  Clients = {c1, c2, c3}
  Handlers = {h1}
  Main = Main
  None = None
  Specs <- PlainAndAuto
  EarlyReconnect = TRUE
  EarlyReuse = TRUE
SYMMETRY Symmetry
INVARIANTS NoLeakedTransport NoOrphan
