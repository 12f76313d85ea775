SPECIFICATION SlotSpec
CONSTANTS
  s1 = s1
  s2 = s2
  q1 = q1
  d0 = d0
  d1 = d1
  Command = {s1, s2}
  Verbs <- MCVerbs
  Daemon = {d0, d1}
  Skewed = {}
  MayDie = {d0}
  Misses = 2
PROPERTY StartedMeansUp
CHECK_DEADLOCK FALSE
