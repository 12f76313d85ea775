SPECIFICATION MCNotesSpec
CONSTANTS
  dirA = dirA
  dirB = dirB
  nameX = nameX
  nameY = nameY
  Dir = {dirA, dirB}
  Name = {nameX, nameY}
  Tab = {t1}
  SecondOf <- MCSecondOf
  Ages <- MCAges
  Trashed <- MCTrashed
  MaxPiece = 1
  MaxTick = 2
  MaxOps = 3
PROPERTY TrashKeeps
CHECK_DEADLOCK FALSE
