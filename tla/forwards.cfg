SPECIFICATION FairSpec
CONSTANTS
  Ids = {i1}
  Forwards = {f1, f2}
  Listeners = {l1, l2, l3}
  Clients = {c1, c2}
  Conns = {k1}
  Handlers = {h1}
  Kinds = {"remote", "dynamic"}
  Ports = {0}
  Reconnector = Reconnector
  Closer = Closer
  Host = Host
  None = None
INVARIANTS NoLeakedListener ForwardsListen
PROPERTY ForwardsEnd
CHECK_DEADLOCK FALSE
