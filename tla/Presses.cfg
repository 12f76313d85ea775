SPECIFICATION PressesSpec
CONSTANTS
  c1 = c1
  c2 = c2
  alice = alice
  t1 = t1
  t2 = t2
  f1 = f1
  f2 = f2
  v1 = v1
  v2 = v2
  Call = {c1}
  Client = {alice}
  Token = {t1, t2}
  Family = {f1, f2}
  Vault = {v1, v2}
  ClientOf <- MCClientOf
  TokenOf <- MCTokenOf
  OwnerOf <- MCOwnerOf
  FamilyOf <- MCOneFamily
  Modes <- MCAskOnce
  Requests <- MCOneVault
  GrantTTL = 1
  MaxPending = 2
  MaxPerClient = 2
  Wait = 1
  Channel = {"http"}
  Native = TRUE
  MaxNow = 1
  Approval = {a1, a2}
  Thread = {1, 2}
  MaxUpdates = 2
  MaxCrash = 1
INVARIANTS OnePoller AnsweredByPress
PROPERTIES CutsRefuse EveryPressIsHeard
CHECK_DEADLOCK FALSE
