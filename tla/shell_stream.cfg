SPECIFICATION FairSpec
CONSTANTS
  Pumps = {out, err}
  Readers = {r1, r2}
  MaxBuf = 2
  MaxOut = 2
INVARIANTS TypeOK NoLostWakeup InOrder OnlyOldestLost
PROPERTY ReadsReturn
