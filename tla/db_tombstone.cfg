CONSTANTS
  t1 = t1
  t2 = t2
  Threads = {t1}
  Keys = {k1, k2}
  Values = {v1}
  Torn = {}
  Empty = Empty
  NoRecord = NoRecord
  NoThread = NoThread
  NoDir = NoDir
  Idle = Idle
  SizeOf <- MCSizeOf
  Ops <- WriteAndCompact
  KeysOf <- AllKeys
  Calls = {}
  kMaxFileBytes = 9
  MaxFile = 3
  MaxCalls <- SevenCalls
  threshold_bytes = 5
  sync_max_io_error = 1
  DiskMayFail = FALSE
  UseReadCache = FALSE
  GetMayFail = FALSE

SPECIFICATION DBSpec
INVARIANTS
  RestartKeepsDeletes
