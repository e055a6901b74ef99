SPECIFICATION Spec
CONSTANTS
  t1 = t1
  t2 = t2
  p1 = p1
  p2 = p2
  Threads = {t1, t2}
  Processes = {p1, p2}
  Homes <- MCHomes
  BackupCount = 3
  MaxBytes = 1
  LineSizes = {1}
  LongestLine = 1
  MaxRecords = 3
  MaxFaults = 0
  Nobody = Nobody
INVARIANT OnlyOldestIsDropped
