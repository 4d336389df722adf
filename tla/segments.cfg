CONSTANTS
  k1 = k1
  k2 = k2
  t1 = t1
  Keys = {k1, k2}
  Values = {v1, v2}
  Empty = Empty
  Threads = {t1, t2}
  Opener = t1
  Workers = {w1, w2}
  Idle = Idle
  NoTask = NoTask
  NoCopy = NoCopy
  Ops <- OneWriter
  n = 3
  Hash <- MCHash
  GetMayFail = TRUE
  InitMayFail = TRUE

SPECIFICATION SegLiveSpec
INVARIANTS
  SegTypeOK
  AllSegmentsRan
  OpenIsReady
  LatchOutlivesTasks
PROPERTIES
  SegLinearizable
  SegCallsReturn
