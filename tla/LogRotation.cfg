SPECIFICATION Spec
CONSTANTS
  t1 = t1
  t2 = t2
  p1 = p1
  p2 = p2
  Threads = {t1, t2}
  Processes = {p1, p2}
  Homes <- MCHomes
  BackupCount = 2
  MaxBytes = 2
  LineSizes = {1, 2}
  LongestLine = 2
  MaxRecords = 2
  MaxFaults = 1
  Nobody = Nobody
INVARIANTS LinesInOrder OldestIsDroppedWhenAlone FilesAreBounded ShownInOrder
PROPERTY TailerCatchesUp
