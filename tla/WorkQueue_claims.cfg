SPECIFICATION FairSpec
CONSTANTS
  j1 = j1  j2 = j2  j3 = j3  w1 = w1  w2 = w2  r1 = r1  r2 = r2  t1 = t1  t2 = t2  t3 = t3  t4 = t4
  Jobs = {j1, j2, j3}
  Names = {1, 2}
  NameOf <- TwoNames
  Role = writer
  Tokens = {t1, t2, t3}
  Workers = {w1, w2}
  Recoverers = {}
  LeaseSeconds = 1
  ReuseTokens = FALSE
  PromptClaims = TRUE
  MaxTime = 0
  MaxFaults = 0
  Phantom = Phantom
  Null = Null
PROPERTIES ImplementsWorkItem QueuedEventuallyClaimed
CHECK_DEADLOCK FALSE
