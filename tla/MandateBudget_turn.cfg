SPECIFICATION FairSpec
CONSTANTS
  a1 = a1  a2 = a2  p1 = p1  p2 = p2
  Processes = {a1}
  Proposals = {p1, p2}
  Kind = "token"
  Cap = 1
  Ttl = 3
  Window = 2
  PromptJudge = TRUE
  Failures = {"crash", "tool", "raise"}
  MaxTime = 2
  MaxFaults = 3
  Scopes = {"agent", "project"}
  Null = Null
INVARIANTS TurnFits
PROPERTIES EventuallyResolved
CHECK_DEADLOCK FALSE
