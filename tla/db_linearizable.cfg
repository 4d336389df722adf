CONSTANTS
  t1 = t1
  t2 = t2
  Threads = {t1, t2}
  Keys = {k1}
  Values = {v1, v2}
  Torn = {}
  Empty = Empty
  NoRecord = NoRecord
  NoThread = NoThread
  NoDir = NoDir
  Idle = Idle
  SizeOf <- MCSizeOf
  Ops <- Clients
  KeysOf <- AllKeys
  Calls = {}
  kMaxFileBytes = 8
  MaxFile = 3
  MaxCalls <- TwoCalls
  threshold_bytes = 4
  sync_max_io_error = 1
  DiskMayFail = TRUE
  UseReadCache = FALSE
  GetMayFail = TRUE

SPECIFICATION DBSpec
INVARIANTS
  TypeOK
  RecordsDisjoint
  ScanReachesEnd
  OneRotation
  AppendStored
PROPERTIES
  AppendOnly
  Linearizable
