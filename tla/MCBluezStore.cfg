SPECIFICATION Spec
CONSTANTS
  Documents <- MCDocuments
  ChunkLines = 2
  MaxChanges = 2
INVARIANTS TypeOK ReportsAreWhole KeysImplyBonded
CHECK_DEADLOCK FALSE
