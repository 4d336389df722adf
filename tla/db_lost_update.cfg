CONSTANTS
  t1 = t1
  t2 = t2
  Threads = {t1, t2}
  Keys = {k1, k2}
  Values = {v1, v2}
  Torn = {}
  Empty = Empty
  NoRecord = NoRecord
  NoThread = NoThread
  NoDir = NoDir
  Idle = Idle
  SizeOf <- MCSizeOf
  Ops <- ClientAndWorker
  KeysOf <- AllKeys
  Calls = {}
  kMaxFileBytes = 17
  MaxFile = 3
  MaxCalls <- ThreeCalls
  threshold_bytes = 2
  sync_max_io_error = 1
  DiskMayFail = FALSE
  UseReadCache = FALSE
  GetMayFail = FALSE

SPECIFICATION DBSpec
PROPERTIES
  Linearizable
