SPECIFICATION FairSpec
CONSTANTS
  c1 = c1  c2 = c2  c3 = c3  x1 = x1  x2 = x2  x3 = x3  x4 = x4  x5 = x5
  Callers = {c1, c2}
  Runs = {x1, x2, x3, x4}
  LeaseLock = TRUE
  Failures = {"skip", "write", "run", "commit", "unlink", "release", "crash", "power"}
  MaxFaults = 2
  Absent = Absent
  Torn = Torn
  NoRun = NoRun
INVARIANTS TypeOK OneRun AuditLink
PROPERTIES ImplementsOnceKey EventuallyCompleted
