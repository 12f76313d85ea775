SPECIFICATION ClocksSpec
CONSTANTS
  dirA = dirA
  dirB = dirB
  nameX = nameX
  nameY = nameY
  Dir = {dirA, dirB}
  Name = {nameX, nameY}
  Tab = {t1, t2}
  SecondOf <- MCSecondOf
  Ages <- MCAges
  Trashed <- MCTrashed
  MaxPiece = 2
  MaxTick = 2
  MaxOps = 4
  Request = {r1, r2}
  MaxFailures = 2
  Lockout = 3
  MaxAdmitted = 2
  Window = 2
  MaxClock = 8
  PromptedCall = {p1, p2}
  AskFor = 2
  SendLimit = 1
  TombstoneTTL = 2
  MaxTime = 4
SYMMETRY Symmetry
INVARIANTS
  NothingLost
  MoveTellsTheTruth
  GuessesPaced
  RegistrationsPaced
  TimelyOutcomeShown
  SettledMeansClosed
\* They stop where their bounds do.
CHECK_DEADLOCK FALSE
