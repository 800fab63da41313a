SPECIFICATION FairSpec
CONSTANTS
  j1 = j1  j2 = j2  j3 = j3  w1 = w1  w2 = w2  r1 = r1  r2 = r2  t1 = t1  t2 = t2  t3 = t3  t4 = t4
  Jobs = {j1}
  Names = {1}
  NameOf <- OneName
  Role = writer
  Tokens = {t1}
  Workers = {w1}
  Recoverers = {r1}
  LeaseSeconds = 1
  ReuseTokens = TRUE
  PromptClaims = TRUE
  MaxTime = 3
  MaxFaults = 1
  Phantom = Phantom
  Null = Null
PROPERTIES AbandonedEventuallyDone
CHECK_DEADLOCK FALSE
