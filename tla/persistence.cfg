SPECIFICATION FairSpec
CONSTANTS
  Ids = {a}
  Hosts = {d}
  Handlers = {h1}
  Flusher = Flusher
  Main = Main
INVARIANTS TypeOK RecordsStay ShutdownKeeps
PROPERTY ReachesDisk ForwardsReachDisk
