SPECIFICATION Spec
CONSTANTS
  c1 = c1
  c2 = c2
  alice = alice
  Call = {c1, c2}
  Client = {alice}
  ClientOf <- MCClientOf
  MaxPending = 2
  MaxPerClient = 1
  Wait = 1
  Channel = {"http"}
  Native = TRUE
  MaxNow = 1
INVARIANTS NoOrphanPrompt FirstAnswerStands
PROPERTIES ShutdownEndsAll EveryWaitEnds
CHECK_DEADLOCK FALSE
