SPECIFICATION CacheFairSpec
CONSTANTS
  Keys = {k1}
  Readers = {r1, r2}
  Writers = {w1}
  L1Ttl = 1
  L2Ttl = 2
  Hold = 1
  MaxVersion = 1
  None = None
INVARIANTS
  CacheTypeOK
  WaitersHaveALoad
  StaleOnlyByRaceOrOutage
  StalenessBounded
PROPERTIES
  EventuallyFresh
