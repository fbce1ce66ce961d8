SPECIFICATION HistSpec
CONSTANTS
  Task = {t1, t2, t3}
  NoTask = NoTask
  Status = {0, 1}
  Chunk = 2
  IntRange = 8
SYMMETRY Symmetry
INVARIANTS RunQueueInv TableInv CountInv EndInv YieldCountsOthers ExitStatus
PROPERTIES OnlyExitFrees ContractSpec
