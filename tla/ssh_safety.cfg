SPECIFICATION Spec
CONSTANTS
  Ids = {i1}
  Sessions = {s1, s2}
  Clients = {c1, c2, c3}
  Handlers = {h1, h2}
  Main = Main
  None = None
  Specs <- PlainAndAuto
  EarlyReconnect = FALSE
  EarlyReuse = FALSE
SYMMETRY Symmetry
INVARIANTS TypeOK ClosedHoldsNothing SftpRidesClient NoLeakedTransport NoOrphan StatusTruthful
PROPERTY NeverOverwrites
