SPECIFICATION FairSpec
CONSTANTS
  h1 = h1  h2 = h2  h3 = h3  t1 = t1  t2 = t2  t3 = t3  t4 = t4
  Holders = {h1, h2}
  Tokens = {t1, t2, t3}
  Ttl = 5
  Beat = 2
  Second = 2
  None = None
INVARIANTS TypeOK HolderHasKey
PROPERTIES SuccessorSafe LostHolderStops OrphanFreed
