CONSTANTS
  t1 = t1
  t2 = t2
  k1 = k1
  k2 = k2
  Threads = {t1, t2}
  Keys = {k1, k2}
  Values = {v1}
  Empty = Empty
  NoRecord = NoRecord
  NoThread = NoThread
  NoLoc = NoLoc
  SizeOf <- TwoUnits
  WritesOf <- OneKeyEach
  SyncThreads = {t1}
  Calls = {}
  kMaxFileBytes = 3
  MaxFile = 2
  MaxWrites = 3
  MaxRestarts = 1
  DiskMayFail = FALSE

SPECIFICATION DurSpec
INVARIANTS
  RecoveryKeepsAcked
