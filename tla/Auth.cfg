SPECIFICATION AuthSpec
CONSTANTS
  Handler = {h1, h2}
  cli = cli
  Proc = {h1, h2, cli}
  NoProc = NoProc
  Absent = Absent
  ClientCap = 2
  CodeTTL = 1
  AccessTTL = 1
  RefreshTTL = 2
  MaxClient = 2
  MaxCode = 2
  MaxPair = 2
  MaxNow = 3
SYMMETRY Symmetry
INVARIANTS
  LiveTokenHasClient
  SingleUseRefresh
  CodeSpentAndLinked
  AnswersMatchDisk
  NoCodeOutlivesItsClient
PROPERTIES
  NoResurrection
  ImplementsSessions
