SPECIFICATION FairSpec
CONSTANTS
  Ids = {i1}
  Hosts = {h1, h2}
  SSHHosts = {h2}
  Containers = {x1}
  c1 = c1
  c2 = c2
  Calls = {c1, c2}
  Ops <- MCOps
  NEntries = 2
  MaxFaults = 1
  Closer = Closer
  None = None
INVARIANTS ConnsAccounted NoHusk CopiesWhole
CHECK_DEADLOCK FALSE
PROPERTY CallsEnd
