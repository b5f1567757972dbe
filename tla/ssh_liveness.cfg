SPECIFICATION FairSpec
CONSTANTS
  Ids = {i1}
  Sessions = {s1}
  Clients = {c1, c2}
  Handlers = {h1}
  Main = Main
  None = None
  Specs <- Keepalives
  EarlyReconnect = FALSE
  EarlyReuse = FALSE
PROPERTIES AutoReconnects LossIsShown KeepaliveStops CallsReturn
