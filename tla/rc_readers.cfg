CONSTANTS
  t1 = t1
  t2 = t2
  Threads = {t1, t2}
  Keys = {k1, k2}
  Values = {v1, v2}
  Torn = {}
  Empty = Empty
  NoRecord = NoRecord
  NoThread = NoThread
  NoDir = NoDir
  Idle = Idle
  SizeOf <- MCSizeOf
  Ops <- WriterAndReaders
  KeysOf <- AllKeys
  Calls = {}
  kMaxFileBytes = 15
  MaxFile = 3
  MaxCalls <- MCMaxCalls
  threshold_bytes = 4
  sync_max_io_error = 0
  DiskMayFail = TRUE
  UseReadCache = TRUE
  kBlockBytes = 5
  NotCached = NotCached
  GetMayFail = TRUE

SPECIFICATION RCSpec
PROPERTIES
  Linearizable
INVARIANTS
  RestartKeepsValues
  IndexedFilesListed
