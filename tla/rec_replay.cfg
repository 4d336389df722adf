CONSTANTS
  Keys = {k1, k2}
  Values = {v1}
  Empty = Empty
  NoRecord = NoRecord
  NoDir = NoDir
  SizeOf <- MCSizeOf
  Logs <- MCLogs
  kMaxFileBytes = 5
  MaxFile = 2
  threshold_bytes = 2
  FilesMayFail = TRUE

SPECIFICATION RecLiveSpec
INVARIANTS
  IndexIsLatest
  NeverFatal
  FreeIsDead
  QueuedOnce
  RecInv
PROPERTY RecoveryEnds
