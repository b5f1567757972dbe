SPECIFICATION FairSpec
CONSTANTS
  Daemons = {d1, d2, d3}
  Launchers = {l1, l2}
  Inodes = {i1, i2}
  MaxFaults = 1
  None = None
INVARIANTS OneDaemon NoOrphanDaemon
PROPERTY GetsDaemon
CHECK_DEADLOCK FALSE
