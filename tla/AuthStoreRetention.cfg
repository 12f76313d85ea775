SPECIFICATION Spec
CONSTANTS
  Proc = {gateway}
  NoProc = NoProc
  Absent = Absent
  ClientCap = 1
  CodeTTL = 1
  AccessTTL = 1
  RefreshTTL = 4
  MaxClient = 1
  MaxCode = 1
  MaxPair = 2
  MaxNow = 7
INVARIANT CodeOutlivesFamily
