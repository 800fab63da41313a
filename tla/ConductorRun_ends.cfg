SPECIFICATION FairSpec
CONSTANTS
  c1 = c1  c2 = c2  r1 = r1  r2 = r2  key = key
  Callers = {c1}
  Runs = {r1, r2}
  Length = 2
  Gates <- MCGates
  Keys <- MCKeys
  Cap = 1
  Iteration = 2
  Requeued = {r1}
  MaxRounds = 2
  MaxFaults = 1
  None = None
PROPERTIES RunsEnd
