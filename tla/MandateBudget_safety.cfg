SPECIFICATION Spec
CONSTANTS
  a1 = a1  a2 = a2  p1 = p1  p2 = p2
  Processes = {a1, a2}
  Proposals = {p1, p2}
  Kind = "external"
  Cap = 1
  Ttl = 1
  Window = 2
  PromptJudge = FALSE
  Failures = {"crash", "tool", "append", "raise"}
  MaxTime = 2
  MaxFaults = 2
  Scopes = {"agent"}
  Null = Null
SYMMETRY Symmetric
INVARIANTS TypeOK ResolvedOnce RecoveredOnce
CHECK_DEADLOCK FALSE
