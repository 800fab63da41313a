SPECIFICATION Spec
CONSTANTS
  s1 = s1  s2 = s2  d1 = d1  d2 = d2  o1 = o1  o2 = o2  c1 = c1
  Dispatchers = {d1, d2}
  Conductors = {}
  Operators = {}
  Creators = {}
  Subs = {s1, s2}
  Blocker <- Chain
  MaxGoals = 1
  MaxEvents = 4
  None = None
PROPERTIES CompletedStays
CHECK_DEADLOCK FALSE
