SPECIFICATION LocksSpec
CONSTANTS
  g1 = g1
  g2 = g2
  k1 = k1
  gateway = gateway
  cli = cli
  Caller = {g1, g2, k1}
  Process = {gateway, cli}
  ProcessOf <- MCProcessOf
  MaxWaiters = 1
  MayCrash = {gateway, cli}
  Tries <- MCTries
  s1 = s1
  s2 = s2
  q1 = q1
  d0 = d0
  d1 = d1
  Command = {s1, s2, q1}
  Verbs <- MCVerbs
  Daemon = {d0, d1}
  Skewed = {d0}
  MayDie = {s1, d0}
  Misses = 2
VIEW LocksView
INVARIANTS CounterExact SidecarNamesHolder NoLeakedLock StartsExclude
PROPERTIES ImplementsExclusion LockComesFree SlotConverges StartNeverHangs
CHECK_DEADLOCK FALSE
