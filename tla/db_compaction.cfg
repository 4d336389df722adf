CONSTANTS
  t1 = t1
  t2 = t2
  Threads = {t1, t2}
  Keys = {k1, k2}
  Values = {v1, g1}
  Torn = {g1}
  Empty = Empty
  NoRecord = NoRecord
  NoThread = NoThread
  NoDir = NoDir
  Idle = Idle
  SizeOf <- MCSizeOf
  Ops <- ReaderAndWorker
  KeysOf <- AllKeys
  Calls = {}
  kMaxFileBytes = 13
  MaxFile = 3
  MaxCalls <- ThreeCalls
  threshold_bytes = 4
  sync_max_io_error = 0
  DiskMayFail = TRUE
  UseReadCache = FALSE
  GetMayFail = FALSE

SPECIFICATION DBLiveSpec
INVARIANTS
  MetadataOnDisk
  FMInv
  DBTypeOK
  IndexSound
  CountedIsDead
  OneCompactionPerFile
PROPERTIES
  QueuedIsReclaimed
  CallsReturn
