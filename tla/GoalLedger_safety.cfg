SPECIFICATION FairSpec
CONSTANTS
  s1 = s1  s2 = s2  d1 = d1  d2 = d2  o1 = o1  o2 = o2  c1 = c1
  Dispatchers = {d1}
  Conductors = {d1}
  Operators = {o1, o2}
  Creators = {c1}
  Subs = {s1}
  Blocker <- Chain
  MaxGoals = 2
  MaxEvents = 3
  None = None
INVARIANTS TypeOK CreatedFirst
PROPERTIES AuditMatchesGoal ArchiveKeeps LockFreed
CHECK_DEADLOCK FALSE
