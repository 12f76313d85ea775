SPECIFICATION GateSpec
CONSTANTS
  c1 = c1
  c2 = c2
  alice = alice
  t1 = t1
  t2 = t2
  f1 = f1
  f2 = f2
  v1 = v1
  v2 = v2
  Call = {c1, c2}
  Client = {alice}
  Token = {t1, t2}
  Family = {f1, f2}
  Vault = {v1, v2}
  ClientOf <- MCClientOf
  TokenOf <- MCTokenOf
  OwnerOf <- MCOwnerOf
  FamilyOf <- MCTwoFamilies
  Modes <- MCPolicies
  Requests <- MCScopes
  GrantTTL = 1
  MaxPending = 2
  MaxPerClient = 2
  Wait = 1
  Channel = {"http"}
  Native = FALSE
  MaxNow = 0
PROPERTIES KeepsPromise
CHECK_DEADLOCK FALSE
