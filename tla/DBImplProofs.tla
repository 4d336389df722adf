---------------------------- MODULE DBImplProofs ----------------------------
(***************************************************************************)
(* Proofs about DBImpl, for any number of threads, keys, files and record  *)
(* sizes: the file manager keeps its invariant under DBImpl's calls, the   *)
(* index points only to complete records, and a file is compacted by at    *)
(* most one thread at a time.                                              *)
(***************************************************************************)
EXTENDS DBImpl, FileManagerProofs, MemIndexProofs

CompactHandlers == {"c_acquire", "c_scan", "c_check", "c_append", "c_end", "c_remove"}
RequestHandlers == {"called", "put", "get", "cached", "cache_open", "done"}

\* The types of the locals that DBTypeOK leaves out.
LocalTypes ==
  /\ req \in [Threads -> Store!Request \cup {Idle}]
  /\ ans \in [Threads -> Replies \cup {Idle}]
  /\ calls \in [Threads -> Nat]

\* Which call of the file manager a handler waits for.
HandlerOK(t) ==
  /\ at[t] \in {"idle", "called", "cached", "done", "c_scan", "c_check", "c_end"} =>
       pc[t] = "idle"
  /\ at[t] \in {"put", "c_append"} =>
       pc[t] \in AppendLines \cup {"returned"} /\ entry[t] \in Entry
  /\ at[t] \in {"get", "cache_open", "c_acquire"} => pc[t] \in AcquireLines \cup {"returned"}
  /\ at[t] = "c_remove" => pc[t] \in RemoveLines \cup {"returned"}

HandlerInv == \A t \in Threads : HandlerOK(t)

\* In the data files D, d is the directory entry of a complete record of k.
PointsTo(D, d, k) ==
  /\ d \in Dir
  /\ D[d.loc.id][d.loc.offset] \in Entry
  /\ D[d.loc.id][d.loc.offset].type = "kSet"
  /\ D[d.loc.id][d.loc.offset].key = k
  /\ d.entry_size = SizeOf(D[d.loc.id][d.loc.offset])

IndexInv == \A k \in Keys : indices[k] # NoDir => PointsTo(data, indices[k], k)

\* What a request's handler knows of its request and of its answer.
RequestOK(t) ==
  /\ IF at[t] \in RequestHandlers THEN req[t] \in Requests(t) ELSE req[t] = Idle
  /\ ans[t] # Idle <=> at[t] = "done"
  /\ at[t] = "put" => IsWrite(req[t]) /\ entry[t] = EntryOf(req[t])
  /\ IF at[t] \in {"get", "cached", "cache_open"}
     THEN req[t].op = "get" /\ PointsTo(data, dir[t], req[t].key)
     ELSE dir[t] = NoDir

RequestInv == \A t \in Threads : RequestOK(t)

\* What a compaction knows of its file.
CompactOK(t) ==
  /\ \A f \in FileId : Contains(todo[t], f) => f <= active_file_id
  /\ at[t] \in CompactHandlers => todo[t] # << >>
  /\ at[t] = "c_check" => next[t] \in Entry /\ scan[t] + SizeOf(next[t]) < kMaxFileBytes
  /\ at[t] = "c_append" => entry[t].type = "kSet"
  /\ at[t] = "c_remove" => db_mu = t

QueuedExist == \A f \in FileId : Contains(hints.compact_tasks, f) => f <= active_file_id

CompactInv == QueuedExist /\ \A t \in Threads : CompactOK(t)

\* The inductive invariant of DBImpl.
DBInv ==
  /\ FMInv /\ DBTypeOK /\ LocalTypes
  /\ HandlerInv /\ IndexInv /\ RequestInv /\ CompactInv /\ OneCompactionPerFile

-----------------------------------------------------------------------------
(***************************************************************************)
(* Facts about the model's operators.                                      *)
(***************************************************************************)
\* A directory entry stays good as long as no record is overwritten.
LEMMA PointsKept ==
  ASSUME NEW D, NEW E, NEW d, NEW k, PointsTo(D, d, k),
         \A f \in FileId, o \in Offset : D[f][o] # NoRecord => E[f][o] = D[f][o]
  PROVE  PointsTo(E, d, k) /\ E[d.loc.id][d.loc.offset] = D[d.loc.id][d.loc.offset]
<1>1. d.loc.id \in FileId /\ d.loc.offset \in Offset
  BY DEF PointsTo, Dir, Location
<1>2. E[d.loc.id][d.loc.offset] = D[d.loc.id][d.loc.offset]
  BY <1>1, HoleAssumption DEF PointsTo
<1> QED
  BY <1>2 DEF PointsTo

\* A file with a record is or has been the active file.
LEMMA PointsActive ==
  ASSUME FMInv, NEW d, NEW k, PointsTo(data, d, k)
  PROVE  d.loc.id \in FileId /\ d.loc.id <= active_file_id /\ d.entry_size \in Nat
<1>1. d.loc.id \in FileId /\ d.loc.offset \in Offset /\ d.entry_size \in Nat
  BY DEF PointsTo, Dir, Location
<1>2. ~(d.loc.id > active_file_id)
  BY <1>1, HoleAssumption DEF PointsTo, FMInv, FreshInv, Blank
<1> QED
  BY <1>1, <1>2, MaxFileAssumption DEF FMInv, TypeOK, FileId

LEMMA ReplyType ==
  ASSUME NEW s \in {"kOk", "kNotFound", "kIOError", "kCorruption", "kNotSupported"},
         NEW v \in Values \cup {Empty}
  PROVE  Reply(s, v) \in Replies /\ Reply(s, v) # Idle
<1>1. Reply(s, v) \in Replies
  BY DEF Reply, Replies
<1> QED
  BY <1>1, IdleAssumption

\* A request has a key, and a write makes an entry of the log.
LEMMA RequestFacts ==
  ASSUME NEW t \in Threads, NEW r \in Requests(t)
  PROVE  /\ r \in Store!Request /\ r # Idle /\ r.key \in Keys
         /\ r.op \in {"put", "delete", "get"}
         /\ IsWrite(r) => EntryOf(r) \in Entry
<1>1. KeysOf[t] \subseteq Keys
  BY DBAssumption
<1>2. \/ r \in [op : {"put"}, key : Keys, value : Values \ Torn]
      \/ r \in [op : {"delete", "get"}, key : Keys, value : {Empty}]
  BY <1>1 DEF Requests
<1>3. r \in Store!Request
  BY <1>2 DEF Store!Request
<1>4. IsWrite(r) => EntryOf(r) \in Entry
  BY <1>2 DEF IsWrite, EntryOf, Entry
<1>5. r.key \in Keys /\ r.op \in {"put", "delete", "get"}
  BY <1>2
<1> QED
  BY <1>3, <1>4, <1>5, IdleAssumption

\* What a step of a call does to the caller's view of it.
LEMMA FMStepFacts ==
  ASSUME FMInv, NEW t \in Threads, FMStep(t)
  PROVE  /\ entry' = entry
         /\ \A u \in Threads \ {t} : pc'[u] = pc[u]
         /\ \/ pc[t] \in AppendLines /\ pc'[t] \in AppendLines \cup {"returned"}
            \/ pc[t] \in AcquireLines /\ pc'[t] \in AcquireLines \cup {"returned"}
            \/ pc[t] \in RemoveLines /\ pc'[t] \in RemoveLines \cup {"returned"}
         /\ active_file_id <= active_file_id'
<1> USE DEF At, Goto, Finish, disk, shared, locks, locals, AppendLines, AcquireLines,
            RemoveLines
<1>0. pc \in [Threads -> Lines] /\ active_file_id \in Nat
  BY MaxFileAssumption DEF FMInv, TypeOK, FileId
<1>1. CASE AppendStep(t)
  <2>1. CASE CreateFilePublish(t)
    <3>1. file_id[t] = active_file_id
      BY <2>1 DEF CreateFilePublish, FMInv, OneRotation
    <3> QED
      BY <1>0, <2>1, <3>1 DEF CreateFilePublish, NextFile
  <2>2. CASE ~CreateFilePublish(t)
    BY <1>0, <1>1, <2>2 DEF AppendStep, AppendSnapshot, AllocateOk, Allocate,
       AllocateFull, AppendPack, AppendPackNullLog, RotateLost, CreateFileBegin,
       CreateFileOpen, CreateFileFail
  <2> QED
    BY <2>1, <2>2
<1>2. CASE AcquireStep(t)
  BY <1>0, <1>2 DEF AcquireStep, AcquireHit, AcquireMiss, AcquireOpen, AcquireOpenFail,
     AcquireCache
<1>3. CASE RemoveStep(t)
  BY <1>0, <1>3 DEF RemoveStep, RemoveRelease, RemoveMetadata, RemoveMetadataFail,
     RemoveUnlink
<1> QED
  BY <1>1, <1>2, <1>3 DEF FMStep

\* The result of a successful Append, where AppendStored left it.
LEMMA AppendResult ==
  ASSUME FMInv, NEW t \in Threads, pc[t] = "returned", entry[t] \in Entry,
         status[t] = "kOk"
  PROVE  /\ Loc(t) \in Location
         /\ data[Loc(t).id][Loc(t).offset] = entry[t]
         /\ Loc(t).id <= active_file_id
         /\ entry[t].type = "kSet" => PointsTo(data, DirOf(Loc(t), entry[t]), entry[t].key)
<1>1. entry[t] # NoRecord
  BY HoleAssumption
<1>2. file_id[t] \in FileId /\ offset[t] \in Offset
  BY <1>1 DEF FMInv, LocalsInv
<1>3. /\ Loc(t) \in Location /\ Loc(t).id = file_id[t] /\ Loc(t).offset = offset[t]
  BY <1>2 DEF Loc, Location
<1>4. data[file_id[t]][offset[t]] = entry[t]
  BY <1>1 DEF FMInv, AppendStored
<1>5. ~(file_id[t] > active_file_id)
  BY <1>1, <1>2, <1>4 DEF FMInv, FreshInv, Blank
<1>6. file_id[t] <= active_file_id
  BY <1>2, <1>5, MaxFileAssumption DEF FMInv, TypeOK, FileId
<1>7. entry[t].type = "kSet" => PointsTo(data, DirOf(Loc(t), entry[t]), entry[t].key)
  BY <1>3, <1>4, DirOfType DEF PointsTo
<1> QED
  BY <1>3, <1>4, <1>6, <1>7

\* Sorting keeps the files of a queue.
LEMMA SortedFiles ==
  ASSUME NEW q \in Seq(FileId), NEW s \in [DOMAIN q -> FileId], IsSorting(s, q)
  PROVE  /\ s \in Seq(FileId)
         /\ \A x : Contains(s, x) <=> Contains(q, x)
         /\ NoRepeats(q) => NoRepeats(s)
<1>1. PICK p \in Bijection(DOMAIN q, DOMAIN q) : s = [i \in DOMAIN q |-> q[p[i]]]
  BY DEF IsSorting
<1>2. Len(q) \in Nat /\ DOMAIN q = 1 .. Len(q)
  OBVIOUS
<1>3. /\ p \in [1 .. Len(q) -> 1 .. Len(q)]
      /\ \A a, b \in 1 .. Len(q) : p[a] = p[b] => a = b
      /\ \A b \in 1 .. Len(q) : \E a \in 1 .. Len(q) : p[a] = b
  BY <1>2 DEF Bijection, Injection, Surjection, IsInjective
<1>4. s \in [1 .. Len(q) -> FileId]
  BY <1>2
<1>5. s \in Seq(FileId) /\ Len(s) = Len(q)
  BY <1>2, <1>4
<1>6. \A i \in 1 .. Len(q) : s[i] = q[p[i]]
  BY <1>1, <1>2
<1>7. \A x : Contains(s, x) <=> Contains(q, x)
  <2>1. ASSUME NEW x, Contains(s, x) PROVE Contains(q, x)
    <3>1. PICK a \in 1 .. Len(q) : s[a] = x
      BY <1>5, <2>1 DEF Contains
    <3>2. p[a] \in 1 .. Len(q) /\ q[p[a]] = x
      BY <1>3, <1>6, <3>1
    <3> QED
      BY <3>2 DEF Contains
  <2>2. ASSUME NEW x, Contains(q, x) PROVE Contains(s, x)
    <3>1. PICK b \in 1 .. Len(q) : q[b] = x
      BY <2>2 DEF Contains
    <3>2. PICK a \in 1 .. Len(q) : p[a] = b
      BY <1>3
    <3> QED
      BY <1>5, <1>6, <3>1, <3>2 DEF Contains
  <2> QED
    BY <2>1, <2>2
<1>8. ASSUME NoRepeats(q) PROVE NoRepeats(s)
  <2> SUFFICES ASSUME NEW i \in 1 .. Len(q), NEW j \in 1 .. Len(q), s[i] = s[j]
               PROVE  i = j
    BY <1>4 DEF NoRepeats
  <2>1. p[i] \in DOMAIN q /\ p[j] \in DOMAIN q /\ q[p[i]] = q[p[j]]
    BY <1>2, <1>3, <1>6
  <2>2. p[i] = p[j]
    BY <1>8, <2>1 DEF NoRepeats
  <2> QED
    BY <1>3, <2>2
<1> QED
  BY <1>5, <1>7, <1>8

-----------------------------------------------------------------------------
(***************************************************************************)
(* What a step may change without disturbing a part of the invariant.      *)
(***************************************************************************)
\* Records are never overwritten and the active file's number only grows.
DataKept ==
  /\ \A f \in FileId, o \in Offset : data[f][o] # NoRecord => data'[f][o] = data[f][o]
  /\ active_file_id <= active_file_id'

LEMMA RecordKept ==
  ASSUME NEW d, NEW k, PointsTo(data, d, k), DataKept
  PROVE  data'[d.loc.id][d.loc.offset] = data[d.loc.id][d.loc.offset]
<1>1. d.loc.id \in FileId /\ d.loc.offset \in Offset
  BY DEF PointsTo, Dir, Location
<1> QED
  BY <1>1, HoleAssumption DEF PointsTo, DataKept

LEMMA IndexFrame ==
  ASSUME IndexInv, DataKept, indices' = indices
  PROVE  IndexInv'
BY PointsKept DEF IndexInv, DataKept

\* A thread that the step leaves alone.
Untouched(u) ==
  /\ pc'[u] = pc[u] /\ entry'[u] = entry[u] /\ at'[u] = at[u] /\ req'[u] = req[u]
  /\ ans'[u] = ans[u] /\ dir'[u] = dir[u] /\ todo'[u] = todo[u]
  /\ next'[u] = next[u] /\ scan'[u] = scan[u]

\* The steps of a handler that neither compact nor end a compaction.
LEMMA OneCompactionFrame ==
  ASSUME OneCompactionPerFile, hints' = hints, todo' = todo,
         \A t \in Threads : at[t] = "c_remove" => at'[t] = "c_remove"
  PROVE  OneCompactionPerFile'
BY DEF OneCompactionPerFile

LEMMA HandlerFrame ==
  ASSUME HandlerInv, NEW t \in Threads, \A u \in Threads \ {t} : Untouched(u),
         HandlerOK(t)'
  PROVE  HandlerInv'
BY DEF HandlerInv, HandlerOK, Untouched

LEMMA RequestFrame ==
  ASSUME RequestInv, NEW t \in Threads, \A u \in Threads \ {t} : Untouched(u), DataKept,
         RequestOK(t)'
  PROVE  RequestInv'
<1>1. ASSUME NEW u \in Threads \ {t}, at[u] \in {"get", "cached", "cache_open"}
      PROVE  PointsTo(data', dir[u], req[u].key)
  BY <1>1, PointsKept DEF RequestInv, RequestOK, DataKept
<1> QED
  BY <1>1 DEF RequestInv, RequestOK, Untouched

LEMMA CompactFrame ==
  ASSUME FMInv, FMInv', CompactInv, NEW t \in Threads,
         \A u \in Threads \ {t} : Untouched(u), DataKept,
         QueuedExist', CompactOK(t)',
         \A u \in Threads \ {t} : at[u] = "c_remove" => db_mu' = db_mu
  PROVE  CompactInv'
<1>1. active_file_id \in Nat /\ active_file_id' \in Nat /\ active_file_id <= active_file_id'
      /\ FileId \subseteq Nat
  BY MaxFileAssumption DEF FMInv, TypeOK, FileId, DataKept
<1>2. ASSUME NEW u \in Threads \ {t}, NEW f \in FileId, Contains(todo'[u], f)
      PROVE  f <= active_file_id'
  <2>1. f <= active_file_id
    BY <1>2 DEF CompactInv, CompactOK, Untouched
  <2> QED
    BY <1>1, <2>1
<1>3. ASSUME NEW u \in Threads \ {t} PROVE CompactOK(u)'
  BY <1>2, <1>3 DEF CompactInv, CompactOK, Untouched
<1> QED
  BY <1>3 DEF CompactInv

\* A step of one handler that leaves the index, the hints and todo alone.
LEMMA HandlerStep ==
  ASSUME DBInv, NEW t \in Threads, \A u \in Threads \ {t} : Untouched(u), DataKept,
         FMInv', DBTypeOK', LocalTypes',
         indices' = indices, hints' = hints, todo' = todo, db_mu' = db_mu,
         at[t] = "c_remove" => at'[t] = "c_remove",
         HandlerOK(t)', RequestOK(t)', CompactOK(t)'
  PROVE  DBInv'
<1>1. IndexInv'
  BY IndexFrame DEF DBInv
<1>2. HandlerInv' /\ RequestInv'
  BY HandlerFrame, RequestFrame DEF DBInv
<1>3. \A u \in Threads : at[u] = "c_remove" => at'[u] = "c_remove"
  BY DEF Untouched
<1>4. OneCompactionPerFile'
  BY <1>3, OneCompactionFrame DEF DBInv
<1>5. active_file_id \in Nat /\ active_file_id' \in Nat /\ active_file_id <= active_file_id'
      /\ FileId \subseteq Nat
  BY MaxFileAssumption DEF DBInv, FMInv, TypeOK, FileId, DataKept
<1>6. ASSUME NEW f \in FileId, Contains(hints.compact_tasks, f)
      PROVE  f <= active_file_id'
  <2>1. f <= active_file_id
    BY <1>6 DEF DBInv, CompactInv, QueuedExist
  <2> QED
    BY <1>5, <2>1
<1>7. QueuedExist'
  BY <1>6 DEF QueuedExist
<1>8. CompactInv'
  BY <1>7, CompactFrame DEF DBInv
<1> QED
  BY <1>1, <1>2, <1>4, <1>8 DEF DBInv

LEMMA InitDBInv == DBInit => DBInv
<1> SUFFICES ASSUME DBInit PROVE DBInv
  OBVIOUS
<1>1. FMInv /\ TypeOK
  BY InitInv DEF DBInit, FMInv
<1>2. NoHints \in Hints
  BY DEF NoHints, Hints, CompactState
<1>b. MaxCalls \in [Threads -> Nat] /\ sync_max_io_error \in Nat
  BY DBAssumption
<1>t. \A t \in Threads : calls[t] \in 0 .. MaxCalls[t]
  BY <1>b DEF DBInit
<1>s. failed_count \in 0 .. (sync_max_io_error + 1) /\ max_file \in FileId
  BY <1>b, MaxFileAssumption DEF DBInit, FileId
<1>q. todo \in [Threads -> Seq(FileId)] /\ scan \in [Threads -> 0 .. kMaxFileBytes]
  BY CapacityAssumption DEF DBInit
<1>n. next \in [Threads -> Entry \cup {NoRecord}]
  BY DEF DBInit
<1>3. DBTypeOK
  BY <1>1, <1>2, <1>t, <1>s, <1>q, <1>n
  DEF DBInit, DBTypeOK, Handlers
<1>4. LocalTypes /\ HandlerInv
  BY DEF DBInit, FMInit, LocalTypes, HandlerInv, HandlerOK
<1>5. IndexInv /\ RequestInv
  BY DEF DBInit, IndexInv, RequestInv, RequestOK, RequestHandlers
<1>6. (\A f : ~Contains(<< >>, f)) /\ NoRepeats(<< >>)
  BY DEF Contains, NoRepeats
<1>7. CompactInv
  BY <1>6 DEF DBInit, CompactInv, CompactOK, QueuedExist, NoHints, CompactHandlers
<1>8. OneCompactionPerFile
  BY <1>6 DEF DBInit, OneCompactionPerFile, QueueSound, NoHints
<1> QED
  BY <1>1, <1>3, <1>4, <1>5, <1>7, <1>8 DEF DBInv

-----------------------------------------------------------------------------
(***************************************************************************)
(* Clients call and return.                                                *)
(***************************************************************************)
LEMMA InvokeInv ==
  ASSUME DBInv, NEW t \in Threads, Invoke(t)
  PROVE  DBInv'
<1> USE DEF Invoke, In, GoTo, fmvars, disk, shared, locks, locals, dbshared
<1>1. PICK r \in Requests(t) : req' = [req EXCEPT ![t] = r]
  OBVIOUS
<1>2. FMInv'
  BY StutterInv DEF DBInv
<1>3. DBTypeOK'
  <2>1. \A u \in Threads : calls'[u] \in 0 .. MaxCalls[u]
    <3>1. MaxCalls \in [Threads -> Nat] /\ calls \in [Threads -> Nat]
      BY DBAssumption DEF DBInv, LocalTypes
    <3>2. /\ \A u \in Threads : calls[u] \in 0 .. MaxCalls[u]
          /\ calls[t] < MaxCalls[t] /\ calls' = [calls EXCEPT ![t] = calls[t] + 1]
      BY DEF DBInv, DBTypeOK
    <3> QED
      BY <3>1, <3>2
  <2>2. TypeOK'
    BY <1>2 DEF FMInv
  <2> QED
    BY <2>1, <2>2 DEF DBInv, DBTypeOK, Handlers
<1>4. LocalTypes'
  BY <1>1, RequestFacts DEF DBInv, LocalTypes
<1>5. (\A u \in Threads \ {t} : Untouched(u)) /\ DataKept
  BY MaxFileAssumption DEF DBInv, DBTypeOK, TypeOK, FileId, LocalTypes, Untouched, DataKept
<1>6. at'[t] = "called" /\ at[t] = "idle" /\ req'[t] = r
  BY <1>1 DEF DBInv, DBTypeOK, LocalTypes
<1>7. HandlerOK(t)' /\ RequestOK(t)' /\ CompactOK(t)'
  BY <1>6 DEF DBInv, HandlerInv, RequestInv, CompactInv, HandlerOK, RequestOK, CompactOK,
     RequestHandlers, CompactHandlers
<1> QED
  BY <1>2, <1>3, <1>4, <1>5, <1>6, <1>7, HandlerStep

\* Nothing in the data files changes.
LEMMA SameData ==
  ASSUME DBInv, UNCHANGED <<data, active_file_id>>
  PROVE  DataKept
BY MaxFileAssumption DEF DBInv, FMInv, TypeOK, FileId, DataKept

\* What a call, or taking its result, does to the locals of the call.
LEMMA CallLocals ==
  ASSUME DBInv, NEW t \in Threads
  PROVE  /\ \A e \in Entry : AppendCall(t, e) =>
              /\ FMInv' /\ pc'[t] = "snapshot" /\ entry'[t] = e
              /\ \A u \in Threads \ {t} : pc'[u] = pc[u] /\ entry'[u] = entry[u]
         /\ \A f \in FileId : AcquireCall(t, f) =>
              /\ FMInv' /\ pc'[t] = "acquire" /\ entry' = entry
              /\ \A u \in Threads \ {t} : pc'[u] = pc[u]
         /\ Return(t) =>
              /\ FMInv' /\ pc'[t] = "idle"
              /\ \A u \in Threads \ {t} : pc'[u] = pc[u] /\ entry'[u] = entry[u]
<1>1. pc \in [Threads -> Lines] /\ entry \in [Threads -> Entry \cup {NoRecord}] /\ FMInv
  BY DEF DBInv, FMInv, TypeOK
<1>2. ASSUME NEW e \in Entry, AppendCall(t, e)
      PROVE  /\ FMInv' /\ pc'[t] = "snapshot" /\ entry'[t] = e
             /\ \A u \in Threads \ {t} : pc'[u] = pc[u] /\ entry'[u] = entry[u]
  BY <1>1, <1>2, AppendCallInv DEF AppendCall, Goto
<1>3. ASSUME NEW f \in FileId, AcquireCall(t, f)
      PROVE  /\ FMInv' /\ pc'[t] = "acquire" /\ entry' = entry
             /\ \A u \in Threads \ {t} : pc'[u] = pc[u]
  BY <1>1, <1>3, AcquireCallInv DEF AcquireCall, Goto
<1>4. ASSUME Return(t)
      PROVE  /\ FMInv' /\ pc'[t] = "idle"
             /\ \A u \in Threads \ {t} : pc'[u] = pc[u] /\ entry'[u] = entry[u]
  BY <1>1, <1>4, ReturnInv DEF Return, Reset, Goto
<1> QED
  BY <1>2, <1>3, <1>4

LEMMA RespondInv ==
  ASSUME DBInv, NEW t \in Threads, Respond(t)
  PROVE  DBInv'
<1> USE DEF Respond, In, GoTo, fmvars, disk, shared, locks, locals, dbshared
<1>1. FMInv'
  BY StutterInv DEF DBInv
<1>2. at[t] = "done" /\ dir[t] = NoDir /\ dir' = [dir EXCEPT ![t] = NoDir]
  BY DEF DBInv, DBTypeOK, RequestInv, RequestOK
<1>3. "idle" \in Handlers
  BY DEF Handlers
<1>4. /\ DBTypeOK' /\ LocalTypes'
      /\ at'[t] = "idle" /\ dir'[t] = NoDir /\ req'[t] = Idle /\ ans'[t] = Idle
      /\ \A u \in Threads \ {t} :
           at'[u] = at[u] /\ dir'[u] = dir[u] /\ req'[u] = req[u] /\ ans'[u] = ans[u]
  BY <1>1, <1>2, <1>3 DEF DBInv, DBTypeOK, LocalTypes, FMInv
<1>5. (\A u \in Threads \ {t} : Untouched(u)) /\ DataKept
  BY <1>4, SameData DEF Untouched
<1>6. HandlerOK(t)' /\ RequestOK(t)' /\ CompactOK(t)'
  BY <1>2, <1>4 DEF DBInv, HandlerInv, RequestInv, CompactInv, HandlerOK, RequestOK,
     CompactOK, RequestHandlers, CompactHandlers
<1> QED
  BY <1>1, <1>2, <1>4, <1>5, <1>6, HandlerStep

-----------------------------------------------------------------------------
(***************************************************************************)
(* HandlePut up to the index.                                              *)
(***************************************************************************)
LEMMA PutCallInv ==
  ASSUME DBInv, NEW t \in Threads, PutCall(t)
  PROVE  DBInv'
<1> USE DEF PutCall, In, GoTo, dbshared
<1>1. /\ at[t] = "called" /\ req[t] \in Requests(t) /\ IsWrite(req[t])
      /\ dir[t] = NoDir /\ dir' = [dir EXCEPT ![t] = NoDir]
      /\ ans[t] = Idle /\ ans' = [ans EXCEPT ![t] = Idle]
      /\ req' = [req EXCEPT ![t] = req[t]]
  BY DEF DBInv, DBTypeOK, LocalTypes, RequestInv, RequestOK, RequestHandlers
<1>2. EntryOf(req[t]) \in Entry /\ req[t] \in Store!Request
  BY <1>1, RequestFacts
<1>3. /\ FMInv' /\ pc'[t] = "snapshot" /\ entry'[t] = EntryOf(req[t])
      /\ \A u \in Threads \ {t} : pc'[u] = pc[u] /\ entry'[u] = entry[u]
  BY <1>2, CallLocals
<1>4. "put" \in Handlers
  BY DEF Handlers
<1>5. /\ DBTypeOK' /\ LocalTypes'
      /\ at'[t] = "put" /\ dir'[t] = NoDir /\ req'[t] = req[t] /\ ans'[t] = Idle
      /\ \A u \in Threads \ {t} :
           at'[u] = at[u] /\ dir'[u] = dir[u] /\ req'[u] = req[u] /\ ans'[u] = ans[u]
  BY <1>1, <1>2, <1>3, <1>4 DEF DBInv, DBTypeOK, LocalTypes, FMInv
<1>6. (\A u \in Threads \ {t} : Untouched(u)) /\ DataKept
  BY <1>3, <1>5, SameData DEF Untouched, AppendCall, disk, shared
<1>7. HandlerOK(t)' /\ RequestOK(t)'
  BY <1>1, <1>2, <1>3, <1>5 DEF DBInv, HandlerInv, RequestInv, HandlerOK, RequestOK,
     RequestHandlers, AppendLines
<1>8. CompactOK(t)'
  BY <1>5 DEF DBInv, CompactInv, CompactOK, CompactHandlers, AppendCall, shared
<1> QED
  BY <1>1, <1>3, <1>5, <1>6, <1>7, <1>8, HandlerStep

\* A handler ends with an answer and leaves the shared state alone.
LEMMA AnswerInv ==
  ASSUME DBInv, NEW t \in Threads, NEW a \in Replies, Answer(t, a),
         at[t] \in {"called", "put", "get", "cached", "cache_open"},
         Return(t) \/ (UNCHANGED fmvars /\ at[t] \in {"called", "cached"}),
         dir' = [dir EXCEPT ![t] = NoDir],
         UNCHANGED <<dbshared, req, todo, next, scan, calls>>
  PROVE  DBInv'
<1> USE DEF Answer, GoTo, dbshared
<1>1. /\ FMInv' /\ pc'[t] = "idle"
      /\ \A u \in Threads \ {t} : pc'[u] = pc[u] /\ entry'[u] = entry[u]
  BY CallLocals, StutterInv
  DEF DBInv, HandlerInv, HandlerOK, fmvars, disk, shared, locks, locals
<1>2. data' = data /\ active_file_id' = active_file_id
  BY DEF Return, fmvars, disk, shared
<1>3. a # Idle /\ "done" \in Handlers
  BY IdleAssumption DEF Handlers
<1>4. /\ DBTypeOK' /\ LocalTypes'
      /\ at'[t] = "done" /\ dir'[t] = NoDir /\ ans'[t] = a
      /\ \A u \in Threads \ {t} :
           at'[u] = at[u] /\ dir'[u] = dir[u] /\ ans'[u] = ans[u]
  BY <1>1, <1>3 DEF DBInv, DBTypeOK, LocalTypes, FMInv
<1>5. (\A u \in Threads \ {t} : Untouched(u)) /\ DataKept
  BY <1>1, <1>2, <1>4, SameData DEF Untouched
<1>6. HandlerOK(t)' /\ RequestOK(t)' /\ CompactOK(t)'
  BY <1>1, <1>2, <1>3, <1>4 DEF DBInv, RequestInv, CompactInv, HandlerOK, RequestOK,
     CompactOK, RequestHandlers, CompactHandlers
<1> QED
  BY <1>1, <1>4, <1>5, <1>6, HandlerStep

LEMMA PutRejectedInv ==
  ASSUME DBInv, NEW t \in Threads, PutRejected(t)
  PROVE  DBInv'
<1>1. Reply("kNotSupported", Empty) \in Replies
  BY ReplyType
<1>2. at[t] = "called" /\ dir' = [dir EXCEPT ![t] = NoDir]
  BY DEF PutRejected, In, DBInv, DBTypeOK, RequestInv, RequestOK
<1> QED
  BY <1>1, <1>2, AnswerInv DEF PutRejected

LEMMA PutFailedInv ==
  ASSUME DBInv, NEW t \in Threads, PutFailed(t)
  PROVE  DBInv'
<1>1. Reply("kIOError", Empty) \in Replies
  BY ReplyType
<1>2. at[t] = "put" /\ dir' = [dir EXCEPT ![t] = NoDir]
  BY DEF PutFailed, Returned, In, DBInv, DBTypeOK, RequestInv, RequestOK
<1> QED
  BY <1>1, <1>2, AnswerInv DEF PutFailed

-----------------------------------------------------------------------------
(***************************************************************************)
(* HandleGet.                                                              *)
(***************************************************************************)
LEMMA GetAbsentInv ==
  ASSUME DBInv, NEW t \in Threads, GetAbsent(t)
  PROVE  DBInv'
<1>1. Reply("kNotFound", Empty) \in Replies
  BY ReplyType
<1>2. at[t] = "called" /\ dir' = [dir EXCEPT ![t] = NoDir]
  BY DEF GetAbsent, In, DBInv, DBTypeOK, RequestInv, RequestOK
<1> QED
  BY <1>1, <1>2, AnswerInv DEF GetAbsent

\* The entry a Get found points to a record of the key it asked for.
LEMMA GetLookupInv ==
  ASSUME DBInv, NEW t \in Threads, GetLookup(t)
  PROVE  DBInv'
<1> USE DEF In, GoTo, dbshared
<1>1. /\ at[t] = "called" /\ req[t] \in Requests(t) /\ req[t].op = "get"
      /\ ans[t] = Idle
  BY DEF GetLookup, DBInv, DBTypeOK, LocalTypes, RequestInv, RequestOK, RequestHandlers
<1>2. req[t].key \in Keys
  BY <1>1, RequestFacts
<1> DEFINE d == indices[req[t].key]
<1>3. d # NoDir /\ PointsTo(data, d, req[t].key)
  BY <1>2 DEF GetLookup, DBInv, IndexInv
<1>4. d \in Dir /\ d.loc.id \in FileId
  BY <1>3 DEF PointsTo, Dir, Location
<1>5. /\ AcquireCall(t, d.loc.id) /\ at' = [at EXCEPT ![t] = "get"]
      /\ dir' = [dir EXCEPT ![t] = d]
      /\ UNCHANGED <<dbshared, req, ans, todo, next, scan, calls>>
  BY DEF GetLookup
<1> HIDE DEF d
<1>6. /\ FMInv' /\ pc'[t] = "acquire" /\ entry' = entry
      /\ \A u \in Threads \ {t} : pc'[u] = pc[u]
  BY <1>4, <1>5, CallLocals
<1>7. /\ DBTypeOK' /\ LocalTypes' /\ at'[t] = "get" /\ dir'[t] = d
      /\ \A u \in Threads \ {t} : at'[u] = at[u] /\ dir'[u] = dir[u]
  BY <1>4, <1>5, <1>6 DEF DBInv, DBTypeOK, LocalTypes, FMInv, Handlers
<1>8. data' = data /\ active_file_id' = active_file_id
  BY <1>5 DEF AcquireCall, disk, shared
<1>9. (\A u \in Threads \ {t} : Untouched(u)) /\ DataKept
  BY <1>5, <1>6, <1>7, <1>8, SameData DEF Untouched
<1>10. HandlerOK(t)' /\ CompactOK(t)'
  BY <1>5, <1>6, <1>7, <1>8 DEF DBInv, CompactInv, HandlerOK, CompactOK, AcquireLines,
     CompactHandlers
<1>11. RequestOK(t)'
  BY <1>1, <1>3, <1>5, <1>7, <1>8 DEF RequestOK, RequestHandlers
<1> QED
  BY <1>1, <1>5, <1>6, <1>7, <1>9, <1>10, <1>11, HandlerStep DEF GetLookup

LEMMA GetFailedInv ==
  ASSUME DBInv, NEW t \in Threads, GetFailed(t)
  PROVE  DBInv'
<1>1. Reply("kIOError", Empty) \in Replies
  BY ReplyType
<1> QED
  BY <1>1, AnswerInv DEF GetFailed, Returned, In

\* What a Get read is a value of the log: the record it found is still there.
LEMMA FoundValue ==
  ASSUME NEW D, NEW d, NEW k, PointsTo(D, d, k)
  PROVE  D[d.loc.id][d.loc.offset].value \in Values
BY DEF PointsTo, Entry

LEMMA GetReadInv ==
  ASSUME DBInv, NEW t \in Threads, GetRead(t)
  PROVE  DBInv'
<1> DEFINE v == data[dir[t].loc.id][dir[t].loc.offset].value
           a == IF IterValid(data[dir[t].loc.id], dir[t].loc.offset) /\ v \notin Torn
                THEN Reply("kOk", v) ELSE Reply("kCorruption", Empty)
<1>1. at[t] = "get"
  BY DEF GetRead, Returned, In
<1>2. v \in Values
  BY <1>1, FoundValue DEF DBInv, RequestInv, RequestOK
<1>3. Answer(t, a)
  BY DEF GetRead
<1> HIDE DEF v
<1>4. a \in Replies
  BY <1>2, ReplyType
<1> HIDE DEF a
<1> QED
  BY <1>1, <1>3, <1>4, AnswerInv DEF GetRead

-----------------------------------------------------------------------------
(***************************************************************************)
(* Steps inside the file manager, and the sync worker.                     *)
(***************************************************************************)
LEMMA FileManagerStepInv ==
  ASSUME DBInv, NEW t \in Threads, FileManagerStep(t)
  PROVE  DBInv'
<1> USE DEF FileManagerStep, dbshared, dblocals
<1>1. FMInv /\ FMStep(t)
  BY DEF DBInv
<1>2. FMInv'
  BY <1>1, AppendInv, AcquireInv, RemoveInv DEF FMStep
<1>3. /\ entry' = entry
      /\ \A u \in Threads \ {t} : pc'[u] = pc[u]
      /\ \/ pc[t] \in AppendLines /\ pc'[t] \in AppendLines \cup {"returned"}
         \/ pc[t] \in AcquireLines /\ pc'[t] \in AcquireLines \cup {"returned"}
         \/ pc[t] \in RemoveLines /\ pc'[t] \in RemoveLines \cup {"returned"}
      /\ active_file_id <= active_file_id'
  BY <1>1, FMStepFacts
<1>4. DataKept
  BY <1>1, <1>3, StepKeepsRecords DEF DataKept, RecordAt
<1>5. \A u \in Threads \ {t} : Untouched(u)
  BY <1>3 DEF Untouched
<1>6. DBTypeOK' /\ LocalTypes'
  BY <1>2 DEF DBInv, DBTypeOK, LocalTypes, FMInv
<1>7. HandlerOK(t)'
  BY <1>3 DEF DBInv, HandlerInv, HandlerOK, AppendLines, AcquireLines, RemoveLines
<1>8. RequestOK(t)'
  <2>1. at[t] \in {"get", "cached", "cache_open"} => PointsTo(data', dir[t], req[t].key)
    BY <1>4, PointsKept DEF DBInv, RequestInv, RequestOK, DataKept
  <2> QED
    BY <1>3, <2>1 DEF DBInv, RequestInv, RequestOK
<1>9. CompactOK(t)'
  <2>1. active_file_id \in Nat /\ active_file_id' \in Nat /\ FileId \subseteq Nat
    BY <1>1, <1>2, MaxFileAssumption DEF FMInv, TypeOK, FileId
  <2>2. ASSUME NEW f \in FileId, Contains(todo[t], f) PROVE f <= active_file_id'
    <3>1. f <= active_file_id
      BY <2>2 DEF DBInv, CompactInv, CompactOK
    <3> QED
      BY <1>3, <2>1, <3>1
  <2> QED
    BY <1>3, <2>2 DEF DBInv, CompactInv, CompactOK
<1> QED
  BY <1>2, <1>4, <1>5, <1>6, <1>7, <1>8, <1>9, HandlerStep

\* A step of no handler: only the sync worker's failures may change.
LEMMA SharedStep ==
  ASSUME DBInv, UNCHANGED <<fmvars, indices, hints, max_file, db_mu, dblocals>>,
         readonly' \in BOOLEAN, failed_count' \in 0 .. (sync_max_io_error + 1)
  PROVE  DBInv'
<1> USE DEF dblocals
<1>1. FMInv'
  BY StutterInv DEF DBInv
<1>2. DBTypeOK' /\ LocalTypes'
  BY <1>1 DEF DBInv, DBTypeOK, LocalTypes, FMInv
<1>3. UNCHANGED <<data, active_file_id, pc, entry>>
  BY DEF fmvars, disk, shared, locals
<1>4. IndexInv' /\ HandlerInv' /\ RequestInv'
  BY <1>3 DEF DBInv, IndexInv, HandlerInv, RequestInv, HandlerOK, RequestOK
<1>5. CompactInv' /\ OneCompactionPerFile'
  BY <1>3 DEF DBInv, CompactInv, CompactOK, QueuedExist, OneCompactionPerFile
<1> QED
  BY <1>1, <1>2, <1>4, <1>5 DEF DBInv

LEMMA SyncFailedInv ==
  ASSUME DBInv, SyncFailed
  PROVE  DBInv'
<1>1. sync_max_io_error \in Nat /\ failed_count \in 0 .. (sync_max_io_error + 1)
  BY DBAssumption DEF DBInv, DBTypeOK
<1>2. failed_count' \in 0 .. (sync_max_io_error + 1)
  BY <1>1 DEF SyncFailed
<1>3. readonly' \in BOOLEAN
  BY DEF SyncFailed
<1> QED
  BY <1>2, <1>3, SharedStep DEF SyncFailed

LEMMA StutterDBInv ==
  ASSUME DBInv, UNCHANGED vars
  PROVE  DBInv'
BY SharedStep DEF vars, dbshared, DBInv, DBTypeOK

-----------------------------------------------------------------------------
(***************************************************************************)
(* Compaction, up to the index: these steps change a compaction's place.   *)
(***************************************************************************)
LEMMA CompactBeginInv ==
  ASSUME DBInv, NEW t \in Threads, CompactBegin(t)
  PROVE  DBInv'
<1> USE DEF CompactBegin, In, GoTo, dbshared
<1>1. at[t] = "idle" /\ todo[t] # << >> /\ todo[t] \in Seq(FileId)
  BY DEF DBInv, DBTypeOK
<1>2. Head(todo[t]) \in FileId
  BY <1>1, TailOfFiles
<1>3. /\ FMInv' /\ pc'[t] = "acquire" /\ entry' = entry
      /\ \A u \in Threads \ {t} : pc'[u] = pc[u]
  BY <1>2, CallLocals
<1>4. /\ DBTypeOK' /\ LocalTypes' /\ at'[t] = "c_acquire"
      /\ \A u \in Threads \ {t} : at'[u] = at[u]
  BY <1>3 DEF DBInv, DBTypeOK, LocalTypes, FMInv, Handlers
<1>5. data' = data /\ active_file_id' = active_file_id
  BY DEF AcquireCall, disk, shared
<1>6. (\A u \in Threads \ {t} : Untouched(u)) /\ DataKept
  BY <1>3, <1>4, <1>5, SameData DEF Untouched
<1>7. HandlerOK(t)' /\ RequestOK(t)' /\ CompactOK(t)'
  BY <1>1, <1>3, <1>4, <1>5 DEF DBInv, RequestInv, CompactInv, HandlerOK, RequestOK,
     CompactOK, AcquireLines, RequestHandlers, CompactHandlers
<1> QED
  BY <1>1, <1>3, <1>4, <1>6, <1>7, HandlerStep

\* A step of a compaction that calls nothing: only its place changes.
LEMMA PlaceInv ==
  ASSUME DBInv, NEW t \in Threads, at[t] \in {"c_scan", "c_check"},
         NEW h \in {"c_scan", "c_check", "c_end"}, GoTo(t, h),
         NEW e \in Entry \cup {NoRecord}, next' = [next EXCEPT ![t] = e],
         NEW n \in Nat, Advance(t, n), scan[t] + n < kMaxFileBytes \/ n = 0,
         h = "c_check" => n = 0 /\ e \in Entry /\ scan[t] + SizeOf(e) < kMaxFileBytes,
         UNCHANGED <<fmvars, dbshared, req, ans, dir, todo, calls>>
  PROVE  DBInv'
<1> USE DEF dbshared
<1>1. FMInv'
  BY StutterInv DEF DBInv
<1>2. /\ at \in [Threads -> Handlers] /\ next \in [Threads -> Entry \cup {NoRecord}]
      /\ scan \in [Threads -> 0 .. kMaxFileBytes] /\ kMaxFileBytes \in Nat
  BY CapacityAssumption DEF DBInv, DBTypeOK
<1>3. scan'[t] = scan[t] + n /\ scan' \in [Threads -> 0 .. kMaxFileBytes]
  BY <1>2 DEF Advance
<1>4. /\ at' \in [Threads -> Handlers] /\ at'[t] = h
      /\ next' \in [Threads -> Entry \cup {NoRecord}] /\ next'[t] = e
      /\ \A u \in Threads \ {t} :
           at'[u] = at[u] /\ next'[u] = next[u] /\ scan'[u] = scan[u]
  BY <1>2 DEF GoTo, Handlers, Advance
<1>5. DBTypeOK' /\ LocalTypes'
  BY <1>1, <1>3, <1>4 DEF DBInv, DBTypeOK, LocalTypes, FMInv
<1>6. UNCHANGED <<data, active_file_id, pc, entry>>
  BY DEF fmvars, disk, shared, locals
<1>7. (\A u \in Threads \ {t} : Untouched(u)) /\ DataKept
  BY <1>4, <1>6, SameData DEF Untouched
<1>8. HandlerOK(t)' /\ RequestOK(t)'
  BY <1>4, <1>6 DEF DBInv, HandlerInv, RequestInv, HandlerOK, RequestOK, RequestHandlers
<1>9. CompactOK(t)'
  <2>1. h = "c_check" => next'[t] \in Entry /\ scan'[t] + SizeOf(next'[t]) < kMaxFileBytes
    BY <1>2, <1>3, <1>4
  <2> QED
    BY <1>4, <1>6, <2>1 DEF DBInv, CompactInv, CompactOK, CompactHandlers
<1> QED
  BY <1>1, <1>4, <1>5, <1>7, <1>8, <1>9, HandlerStep

\* The iterator has read e, whole or torn.
LEMMA ReadsInv ==
  ASSUME DBInv, NEW t \in Threads, at[t] = "c_scan", NEW e \in Entry, Reads(t, e),
         scan[t] + SizeOf(e) < kMaxFileBytes
  PROVE  DBInv'
<1>1. scan \in [Threads -> 0 .. kMaxFileBytes] /\ kMaxFileBytes \in Nat
  BY CapacityAssumption DEF DBInv, DBTypeOK
<1>2. Advance(t, 0)
  BY <1>1 DEF Reads, Advance
<1> QED
  BY <1>2, PlaceInv DEF Reads

\* The record under the iterator is one of the log.
LEMMA IterEntry ==
  ASSUME DBInv, NEW f \in FileId, NEW o, IterValid(data[f], o)
  PROVE  data[f][o] \in Entry /\ o + SizeOf(data[f][o]) < kMaxFileBytes /\ o \in Offset
BY DEF IterValid, DBInv, FMInv, TypeOK, Contents

LEMMA CompactReadInv ==
  ASSUME DBInv, NEW t \in Threads, CompactRead(t) \/ CompactTorn(t)
  PROVE  DBInv'
<1>1. CASE CompactRead(t)
  <2>1. PICK e : e = data[Head(todo[t])][scan[t]]
    OBVIOUS
  <2>2. /\ at[t] = "c_scan" /\ IterValid(data[Head(todo[t])], scan[t]) /\ Reads(t, e)
    BY <1>1, <2>1 DEF CompactRead, In
  <2>3. todo[t] # << >> /\ todo[t] \in Seq(FileId) /\ scan[t] \in 0 .. kMaxFileBytes
    BY <2>2 DEF DBInv, DBTypeOK, CompactInv, CompactOK, CompactHandlers
  <2>4. Head(todo[t]) \in FileId
    BY <2>3, TailOfFiles
  <2>5. e \in Entry /\ scan[t] + SizeOf(e) < kMaxFileBytes
    BY <2>1, <2>2, <2>3, <2>4, IterEntry
  <2> QED
    BY <2>2, <2>5, ReadsInv
<1>2. CASE CompactTorn(t)
  <2>1. PICK u \in Threads \ {t} :
          /\ at[t] = "c_scan" /\ pc[u] = "pack" /\ scan[t] + SizeOf(entry[u]) < kMaxFileBytes
          /\ \E x \in TornReads(entry[u]) : Reads(t, x)
    BY <1>2 DEF CompactTorn, Packs, In
  <2>2. PICK x \in TornReads(entry[u]) : Reads(t, x)
    BY <2>1
  <2>3. x \in Entry /\ SizeOf(x) = SizeOf(entry[u])
    BY DEF TornReads
  <2> QED
    BY <2>1, <2>2, <2>3, ReadsInv
<1> QED
  BY <1>1, <1>2

LEMMA CompactAstrayInv ==
  ASSUME DBInv, NEW t \in Threads, CompactAstray(t)
  PROVE  DBInv'
<1>1. /\ scan \in [Threads -> 0 .. kMaxFileBytes] /\ kMaxFileBytes \in Nat
      /\ at \in [Threads -> Handlers] /\ next \in [Threads -> Entry \cup {NoRecord}]
  BY CapacityAssumption DEF DBInv, DBTypeOK
<1>2. PICK n \in 1 .. (kMaxFileBytes - 1 - scan[t]) :
        /\ Advance(t, n) /\ at[t] = "c_scan"
        /\ UNCHANGED <<fmvars, dbshared, at, req, ans, dir, todo, next, calls>>
  BY DEF CompactAstray, In
<1>3. n \in Nat /\ scan[t] + n < kMaxFileBytes
  BY <1>1
<1>4. PICK e \in Entry \cup {NoRecord} : e = next[t]
  BY <1>1
<1>5. GoTo(t, "c_scan") /\ next' = [next EXCEPT ![t] = e]
  BY <1>1, <1>2, <1>4 DEF GoTo
<1> QED
  BY <1>2, <1>3, <1>5, PlaceInv

LEMMA CompactSkipInv ==
  ASSUME DBInv, NEW t \in Threads, CompactSkip(t)
  PROVE  DBInv'
<1>1. PICK n : n = SizeOf(next[t])
  OBVIOUS
<1>2. /\ at[t] = "c_check" /\ Advance(t, n) /\ next' = [next EXCEPT ![t] = NoRecord]
      /\ GoTo(t, "c_scan") /\ UNCHANGED <<fmvars, dbshared, req, ans, dir, todo, calls>>
  BY <1>1 DEF CompactSkip, PassesOver, In
<1>3. n \in Nat /\ scan[t] + n < kMaxFileBytes
  BY <1>1, <1>2, EntryFields DEF DBInv, CompactInv, CompactOK
<1> QED
  BY <1>2, <1>3, PlaceInv

LEMMA CompactScannedInv ==
  ASSUME DBInv, NEW t \in Threads, CompactScanned(t)
  PROVE  DBInv'
<1>1. /\ scan \in [Threads -> 0 .. kMaxFileBytes] /\ kMaxFileBytes \in Nat
      /\ next \in [Threads -> Entry \cup {NoRecord}]
  BY CapacityAssumption DEF DBInv, DBTypeOK
<1>2. /\ at[t] = "c_scan" /\ GoTo(t, "c_end")
      /\ UNCHANGED <<fmvars, dbshared, req, ans, dir, todo, next, scan, calls>>
  BY DEF CompactScanned, In
<1>3. PICK e \in Entry \cup {NoRecord} : e = next[t]
  BY <1>1
<1>4. Advance(t, 0) /\ next' = [next EXCEPT ![t] = e]
  BY <1>1, <1>2, <1>3 DEF Advance
<1> QED
  BY <1>2, <1>4, PlaceInv

LEMMA CompactMoveInv ==
  ASSUME DBInv, NEW t \in Threads, CompactMove(t)
  PROVE  DBInv'
<1> USE DEF GoTo, dbshared
<1>1. PICK e : e = next[t]
  OBVIOUS
<1>2. /\ at[t] = "c_check" /\ e.type = "kSet" /\ Advance(t, SizeOf(e))
      /\ next' = [next EXCEPT ![t] = NoRecord] /\ AppendCall(t, e)
      /\ GoTo(t, "c_append") /\ UNCHANGED <<dbshared, req, ans, dir, todo, calls>>
  BY <1>1 DEF CompactMove, PassesOver, In
<1>3. e \in Entry /\ SizeOf(e) \in Nat /\ scan[t] + SizeOf(e) < kMaxFileBytes
  BY <1>1, <1>2, EntryFields DEF DBInv, CompactInv, CompactOK
<1>4. /\ scan' \in [Threads -> 0 .. kMaxFileBytes]
      /\ next' \in [Threads -> Entry \cup {NoRecord}]
      /\ \A u \in Threads \ {t} : next'[u] = next[u] /\ scan'[u] = scan[u]
  BY <1>2, <1>3, CapacityAssumption DEF Advance, DBInv, DBTypeOK
<1>5. /\ FMInv' /\ pc'[t] = "snapshot" /\ entry'[t] = e
      /\ \A u \in Threads \ {t} : pc'[u] = pc[u] /\ entry'[u] = entry[u]
  BY <1>2, <1>3, CallLocals
<1>6. /\ DBTypeOK' /\ LocalTypes' /\ at'[t] = "c_append"
      /\ \A u \in Threads \ {t} : at'[u] = at[u]
  BY <1>2, <1>4, <1>5 DEF DBInv, DBTypeOK, LocalTypes, FMInv, Handlers
<1>7. data' = data /\ active_file_id' = active_file_id
  BY <1>2 DEF AppendCall, disk, shared
<1>8. (\A u \in Threads \ {t} : Untouched(u)) /\ DataKept
  BY <1>2, <1>4, <1>5, <1>6, <1>7, SameData DEF Untouched
<1>9. HandlerOK(t)' /\ RequestOK(t)' /\ CompactOK(t)'
  BY <1>2, <1>3, <1>5, <1>6, <1>7 DEF DBInv, RequestInv, CompactInv, HandlerOK, RequestOK,
     CompactOK, AppendLines, RequestHandlers, CompactHandlers
<1> QED
  BY <1>2, <1>5, <1>6, <1>8, <1>9, HandlerStep

-----------------------------------------------------------------------------
(***************************************************************************)
(* The critical sections of db_mu that change the index or the hints.      *)
(***************************************************************************)
\* Nobody is removing a file while db_mu is free.
LEMMA NobodyRemoves ==
  ASSUME DBInv, db_mu = NoThread
  PROVE  \A t \in Threads : at[t] # "c_remove"
BY NoThreadAssumption DEF DBInv, CompactInv, CompactOK

\* UpdateUnused queues no file that is being compacted or is queued already.
LEMMA UnusedQueue ==
  ASSUME DBInv, db_mu = NoThread, todo' = todo, NEW f \in FileId, NEW n \in Nat,
         f <= active_file_id, active_file_id' = active_file_id,
         hints' = UpdateUnused(hints, f, n)
  PROVE  /\ hints' \in Hints /\ QueuedExist' /\ OneCompactionPerFile'
<1>1. hints \in Hints /\ QueueSound(hints) /\ hints.compact_tasks \in Seq(FileId)
  BY DEF DBInv, DBTypeOK, OneCompactionPerFile, Hints
<1>2. hints' \in Hints
  BY <1>1, UpdateUnusedType
<1>3. QueueSound(hints')
  BY <1>1, UpdateUnusedQueue
<1>4. /\ \A x \in FileId : hints'.compact_state[x] =
           IF x = f /\ Queues(hints, f, n) THEN "kQueued" ELSE hints.compact_state[x]
      /\ hints'.compact_tasks =
           IF Queues(hints, f, n) THEN Append(hints.compact_tasks, f)
                                  ELSE hints.compact_tasks
  BY <1>1, UpdateUnusedFields
<1>5. \A x : Contains(hints'.compact_tasks, x) =>
              Contains(hints.compact_tasks, x) \/ (x = f /\ Queues(hints, f, n))
  BY <1>1, <1>4, AppendFile
<1>6. QueuedExist'
  BY <1>5 DEF DBInv, CompactInv, QueuedExist
<1>7. ASSUME NEW t \in Threads, NEW x \in FileId, Contains(todo[t], x)
      PROVE  /\ hints.compact_state[x] \in {"kScheduling", "kCompacting"}
             /\ hints'.compact_state[x] = hints.compact_state[x]
             /\ ~Contains(hints'.compact_tasks, x)
  <2>1. /\ hints.compact_state[x] \in {"kScheduling", "kCompacting"}
        /\ ~Contains(hints.compact_tasks, x)
    BY <1>7, NobodyRemoves DEF DBInv, OneCompactionPerFile
  <2>2. ~(x = f /\ Queues(hints, f, n))
    BY <2>1 DEF Queues
  <2> QED
    BY <1>4, <1>5, <2>1, <2>2
<1>8. OneCompactionPerFile'
  BY <1>3, <1>7 DEF DBInv, OneCompactionPerFile
<1> QED
  BY <1>2, <1>6, <1>8

\* Under db_mu a put replaces the index entry and charges one file.
LEMMA PutIndexInv ==
  ASSUME DBInv, NEW t \in Threads, PutIndex(t)
  PROVE  DBInv'
<1> DEFINE e == entry[t]
           l == Loc(t)
<1>1. /\ at[t] = "put" /\ pc[t] = "returned" /\ status[t] = "kOk" /\ db_mu = NoThread
      /\ Return(t)
      /\ indices' = IndexAfterPut(indices, l, e)
      /\ hints' = HintsAfterPut(indices, hints, l, e)
      /\ max_file' = IF max_file < l.id THEN l.id ELSE max_file
      /\ Answer(t, Reply(PutStatus(indices, e), Empty))
      /\ UNCHANGED <<readonly, failed_count, db_mu, req, dir, todo, next, scan, calls>>
  BY DEF PutIndex, Returned, In
<1>2. e \in Entry /\ e.key \in Keys /\ SizeOf(e) \in Nat
  BY <1>1, EntryFields DEF DBInv, HandlerInv, HandlerOK
<1>3. /\ l \in Location /\ l.id <= active_file_id /\ l.id \in FileId
      /\ e.type = "kSet" => PointsTo(data, DirOf(l, e), e.key)
  BY <1>1, <1>2, AppendResult DEF DBInv, Location
<1>4. /\ FMInv' /\ pc'[t] = "idle" /\ data' = data /\ active_file_id' = active_file_id
      /\ \A u \in Threads \ {t} : pc'[u] = pc[u] /\ entry'[u] = entry[u]
  BY <1>1, CallLocals DEF Return, disk, shared
<1> HIDE DEF e, l
<1>5. /\ indices \in [Keys -> Dir \cup {NoDir}] /\ hints \in Hints
      /\ indices' \in [Keys -> Dir \cup {NoDir}]
      /\ indices'[e.key] = IF e.type = "kSet" THEN DirOf(l, e) ELSE NoDir
      /\ \A k \in Keys : k # e.key => indices'[k] = indices[k]
  BY <1>1, <1>2, <1>3, PutIndexType DEF DBInv, DBTypeOK
<1>6. IndexInv'
  BY <1>2, <1>3, <1>4, <1>5 DEF DBInv, IndexInv
<1>7. /\ hints' \in Hints /\ QueuedExist' /\ OneCompactionPerFile'
  <2>1. CASE hints' = hints
    <3>1. \A u \in Threads : at[u] = "c_remove" => at'[u] = "c_remove"
      BY <1>1, NobodyRemoves
    <3> QED
      BY <1>1, <1>4, <1>5, <2>1, <3>1, OneCompactionFrame DEF DBInv, CompactInv, QueuedExist
  <2>2. CASE /\ indices[e.key] # NoDir
             /\ hints' = UpdateUnused(hints, indices[e.key].loc.id, indices[e.key].entry_size)
    <3>1. PointsTo(data, indices[e.key], e.key)
      BY <1>2, <2>2 DEF DBInv, IndexInv
    <3>2. /\ indices[e.key].loc.id \in FileId /\ indices[e.key].loc.id <= active_file_id
          /\ indices[e.key].entry_size \in Nat
      BY <3>1, PointsActive DEF DBInv
    <3> QED
      BY <1>1, <1>4, <2>2, <3>2, UnusedQueue
  <2>3. CASE hints' = UpdateUnused(hints, l.id, SizeOf(e))
    BY <1>1, <1>2, <1>3, <1>4, <2>3, UnusedQueue
  <2> QED
    BY <1>1, <1>2, <1>3, <1>5, <2>1, <2>2, <2>3, PutHints
<1>8. Reply(PutStatus(indices, e), Empty) \in Replies /\ Reply(PutStatus(indices, e), Empty) # Idle
  BY ReplyType DEF PutStatus
<1>9. /\ DBTypeOK' /\ LocalTypes' /\ at'[t] = "done" /\ ans'[t] # Idle
      /\ \A u \in Threads \ {t} : at'[u] = at[u] /\ ans'[u] = ans[u]
  BY <1>1, <1>3, <1>4, <1>5, <1>7, <1>8
  DEF DBInv, DBTypeOK, LocalTypes, FMInv, Handlers, Answer, GoTo
<1>10. (\A u \in Threads \ {t} : Untouched(u)) /\ DataKept
  BY <1>1, <1>4, <1>9, SameData DEF Untouched
<1>11. HandlerInv'
  <2>1. HandlerOK(t)'
    BY <1>4, <1>9 DEF HandlerOK
  <2> QED
    BY <1>10, <2>1, HandlerFrame DEF DBInv
<1>12. RequestInv'
  <2>1. RequestOK(t)'
    BY <1>1, <1>9 DEF DBInv, RequestInv, RequestOK, RequestHandlers
  <2> QED
    BY <1>10, <2>1, RequestFrame DEF DBInv
<1>13. CompactInv'
  <2>1. CompactOK(t)'
    BY <1>1, <1>4, <1>9 DEF DBInv, CompactInv, CompactOK, CompactHandlers
  <2> QED
    BY <1>1, <1>4, <1>7, <1>10, <2>1, CompactFrame DEF DBInv
<1> QED
  BY <1>4, <1>6, <1>7, <1>9, <1>11, <1>12, <1>13 DEF DBInv

\* A step of one handler that changes the hints, todo or db_mu.
LEMMA HintsStep ==
  ASSUME DBInv, NEW t \in Threads, \A u \in Threads \ {t} : Untouched(u), DataKept,
         FMInv', DBTypeOK', LocalTypes', IndexInv',
         HandlerOK(t)', RequestOK(t)', CompactOK(t)',
         \A u \in Threads \ {t} : at[u] = "c_remove" => db_mu' = db_mu,
         QueuedExist', OneCompactionPerFile'
  PROVE  DBInv'
<1>1. HandlerInv' /\ RequestInv'
  BY HandlerFrame, RequestFrame DEF DBInv
<1>2. CompactInv'
  BY CompactFrame DEF DBInv
<1> QED
  BY <1>1, <1>2 DEF DBInv

\* Under db_mu the index takes the copy of a record, or the copy is unused.
LEMMA CompactUpdateInv ==
  ASSUME DBInv, NEW t \in Threads, CompactUpdate(t)
  PROVE  DBInv'
<1> DEFINE e == entry[t]
           l == Loc(t)
<1>1. /\ at[t] = "c_append" /\ pc[t] = "returned" /\ status[t] = "kOk"
      /\ db_mu = NoThread /\ Return(t)
      /\ indices' = IndexAfterMove(indices, l, e)
      /\ hints' = HintsAfterMove(indices, hints, l, e)
      /\ GoTo(t, "c_scan")
      /\ UNCHANGED <<max_file, readonly, failed_count, db_mu,
                     req, ans, dir, todo, next, scan, calls>>
  BY DEF CompactUpdate, Returned, In
<1>2. e \in Entry /\ e.key \in Keys /\ e.type = "kSet"
  BY <1>1, EntryFields DEF DBInv, HandlerInv, HandlerOK, CompactInv, CompactOK
<1>3. l \in Location /\ PointsTo(data, DirOf(l, e), e.key)
  BY <1>1, <1>2, AppendResult DEF DBInv
<1>4. /\ FMInv' /\ pc'[t] = "idle" /\ data' = data /\ active_file_id' = active_file_id
      /\ \A u \in Threads \ {t} : pc'[u] = pc[u] /\ entry'[u] = entry[u]
  BY <1>1, CallLocals DEF Return, disk, shared
<1> HIDE DEF e, l
<1>5. /\ indices' \in [Keys -> Dir \cup {NoDir}]
      /\ indices'[e.key] \in {indices[e.key], DirOf(l, e)}
      /\ \A k \in Keys : k # e.key => indices'[k] = indices[k]
  BY <1>1, <1>2, <1>3, MoveIndexType DEF DBInv, DBTypeOK
<1>6. IndexInv'
  BY <1>2, <1>3, <1>4, <1>5 DEF DBInv, IndexInv
<1>7. /\ hints' \in Hints /\ hints'.compact_state = hints.compact_state
      /\ hints'.compact_tasks = hints.compact_tasks
  BY <1>1, <1>2, <1>3, MoveHints DEF DBInv, DBTypeOK
<1>8. /\ DBTypeOK' /\ LocalTypes' /\ at'[t] = "c_scan"
      /\ \A u \in Threads \ {t} : at'[u] = at[u]
  BY <1>1, <1>4, <1>5, <1>7 DEF DBInv, DBTypeOK, LocalTypes, FMInv, Handlers, GoTo
<1>9. (\A u \in Threads \ {t} : Untouched(u)) /\ DataKept
  BY <1>1, <1>4, <1>8, SameData DEF Untouched
<1>10. HandlerOK(t)' /\ RequestOK(t)' /\ CompactOK(t)'
  BY <1>1, <1>4, <1>8 DEF DBInv, RequestInv, CompactInv, HandlerOK, RequestOK,
     CompactOK, RequestHandlers, CompactHandlers
<1>11. QueuedExist' /\ OneCompactionPerFile'
  BY <1>1, <1>4, <1>7, NobodyRemoves
  DEF DBInv, CompactInv, QueuedExist, OneCompactionPerFile, QueueSound
<1> QED
  BY <1>1, <1>4, <1>6, <1>8, <1>9, <1>10, <1>11, HintsStep

-----------------------------------------------------------------------------
(***************************************************************************)
(* The queue is handed to one compaction; a file leaves it when it ends.   *)
(***************************************************************************)
\* Thread t takes the polled files, in the order q, behind those it has.
LEMMA PollInv ==
  ASSUME DBInv, NEW t \in Threads, db_mu = NoThread, at[t] = "idle",
         hints' = PollCompactTask(hints), NEW q \in Seq(FileId),
         todo' = [todo EXCEPT ![t] = q], NoRepeats(q),
         \A x \in FileId : Contains(q, x) <=>
           Contains(todo[t], x) \/ Contains(hints.compact_tasks, x),
         calls' \in [Threads -> Nat], \A u \in Threads : calls'[u] \in 0 .. MaxCalls[u],
         UNCHANGED <<fmvars, indices, max_file, readonly, failed_count, db_mu,
                     at, req, ans, dir, next, scan>>
  PROVE  DBInv'
<1>1. FMInv' /\ UNCHANGED <<data, active_file_id, pc, entry>>
  BY StutterInv DEF DBInv, fmvars, disk, shared, locals
<1>2. /\ hints \in Hints /\ QueueSound(hints)
      /\ hints' \in Hints /\ QueueSound(hints') /\ hints'.compact_tasks = << >>
      /\ \A f \in FileId : hints'.compact_state[f] =
           IF Contains(hints.compact_tasks, f) THEN "kScheduling"
                                               ELSE hints.compact_state[f]
  BY PollHints, PollQueue DEF DBInv, DBTypeOK, OneCompactionPerFile
<1>3. \A x : ~Contains(hints'.compact_tasks, x)
  BY <1>2 DEF Contains
<1>4. todo \in [Threads -> Seq(FileId)] /\ todo' \in [Threads -> Seq(FileId)]
      /\ todo'[t] = q /\ \A u \in Threads \ {t} : todo'[u] = todo[u]
  BY DEF DBInv, DBTypeOK
<1>5. DBTypeOK' /\ LocalTypes'
  BY <1>1, <1>2, <1>4 DEF DBInv, DBTypeOK, LocalTypes, FMInv
<1>6. (\A u \in Threads \ {t} : Untouched(u)) /\ DataKept
  BY <1>1, <1>4, SameData DEF Untouched
<1>7. IndexInv'
  BY <1>6, IndexFrame DEF DBInv
<1>8. HandlerOK(t)' /\ RequestOK(t)'
  BY <1>1 DEF DBInv, HandlerInv, RequestInv, HandlerOK, RequestOK
<1>9. CompactOK(t)' /\ QueuedExist'
  BY <1>1, <1>3, <1>4 DEF DBInv, CompactInv, CompactOK, QueuedExist, CompactHandlers
<1>10. ASSUME NEW u \in Threads, NEW f \in FileId, Contains(todo'[u], f)
       PROVE  /\ \A w \in Threads \ {u} : ~Contains(todo'[w], f)
              /\ hints'.compact_state[f] \in {"kScheduling", "kCompacting"}
  <2>1. \A w \in Threads : Contains(todo[w], f) =>
          /\ ~Contains(hints.compact_tasks, f)
          /\ \A v \in Threads \ {w} : ~Contains(todo[v], f)
          /\ hints.compact_state[f] \in {"kScheduling", "kCompacting"}
    BY NobodyRemoves DEF DBInv, OneCompactionPerFile
  <2>2. Contains(todo[u], f) \/ (u = t /\ Contains(hints.compact_tasks, f))
    BY <1>4, <1>10
  <2>3. hints'.compact_state[f] \in {"kScheduling", "kCompacting"}
    BY <1>2, <2>1, <2>2
  <2>4. ASSUME NEW w \in Threads \ {u} PROVE ~Contains(todo'[w], f)
    BY <1>4, <2>1, <2>2
  <2> QED
    BY <2>3, <2>4
<1>11. \A u \in Threads : NoRepeats(todo'[u])
  BY <1>4 DEF DBInv, OneCompactionPerFile
<1>12. OneCompactionPerFile'
  BY <1>2, <1>3, <1>10, <1>11 DEF OneCompactionPerFile
<1> QED
  BY <1>1, <1>5, <1>6, <1>7, <1>8, <1>9, <1>12, HintsStep

LEMMA CompactWorkerInv ==
  ASSUME DBInv, NEW t \in Threads, CompactWorker(t)
  PROVE  DBInv'
<1>1. /\ todo[t] \in Seq(FileId) /\ hints.compact_tasks \in Seq(FileId)
      /\ calls \in [Threads -> Nat] /\ \A u \in Threads : calls[u] \in 0 .. MaxCalls[u]
  BY DEF DBInv, DBTypeOK, Hints, LocalTypes
<1>2. /\ NoRepeats(todo[t]) /\ NoRepeats(hints.compact_tasks)
      /\ \A x \in FileId : ~(Contains(todo[t], x) /\ Contains(hints.compact_tasks, x))
  BY DEF DBInv, OneCompactionPerFile, QueueSound
<1>3. \A x : Contains(todo[t], x) => x \in FileId
  BY <1>1 DEF Contains
<1>4. \A x : ~(Contains(todo[t], x) /\ Contains(hints.compact_tasks, x))
  BY <1>2, <1>3
<1> DEFINE q == todo[t] \o hints.compact_tasks
<1>5. /\ q \in Seq(FileId) /\ NoRepeats(q)
      /\ \A x : Contains(q, x) <=> Contains(todo[t], x) \/ Contains(hints.compact_tasks, x)
  BY <1>1, <1>2, <1>4, ConcatFiles
<1>6. /\ todo' = [todo EXCEPT ![t] = q] /\ hints' = PollCompactTask(hints)
      /\ db_mu = NoThread /\ at[t] = "idle"
      /\ UNCHANGED <<fmvars, indices, max_file, readonly, failed_count, db_mu,
                     at, req, ans, dir, next, scan, calls>>
  BY DEF CompactWorker, Polls, In
<1> HIDE DEF q
<1> QED
  BY <1>1, <1>5, <1>6, PollInv

LEMMA CompactCallInv ==
  ASSUME DBInv, NEW t \in Threads, CompactCall(t)
  PROVE  DBInv'
<1>1. /\ hints.compact_tasks \in Seq(FileId) /\ NoRepeats(hints.compact_tasks)
      /\ MaxCalls \in [Threads -> Nat]
      /\ calls \in [Threads -> Nat] /\ \A u \in Threads : calls[u] \in 0 .. MaxCalls[u]
  BY DBAssumption
  DEF DBInv, DBTypeOK, Hints, LocalTypes, OneCompactionPerFile, QueueSound
<1>2. PICK s \in [DOMAIN hints.compact_tasks -> FileId] :
        IsSorting(s, hints.compact_tasks) /\ todo' = [todo EXCEPT ![t] = s]
  BY DEF CompactCall
<1>3. /\ s \in Seq(FileId) /\ NoRepeats(s)
      /\ \A x : Contains(s, x) <=> Contains(hints.compact_tasks, x)
  BY <1>1, <1>2, SortedFiles
<1>4. /\ todo[t] = << >> /\ calls[t] < MaxCalls[t]
      /\ calls' = [calls EXCEPT ![t] = calls[t] + 1]
      /\ hints' = PollCompactTask(hints) /\ db_mu = NoThread /\ at[t] = "idle"
      /\ UNCHANGED <<fmvars, indices, max_file, readonly, failed_count, db_mu,
                     at, req, ans, dir, next, scan>>
  BY DEF CompactCall, Polls, In
<1>5. calls' \in [Threads -> Nat] /\ \A u \in Threads : calls'[u] \in 0 .. MaxCalls[u]
  BY <1>1, <1>4
<1>6. \A x : ~Contains(todo[t], x)
  BY <1>4 DEF Contains
<1> QED
  BY <1>2, <1>3, <1>4, <1>5, <1>6, PollInv

\* The compaction of a file is over: it leaves the thread's list.
LEMMA LeaveInv ==
  ASSUME DBInv, NEW t \in Threads, LeaveCompact(t), todo[t] # << >>,
         at[t] \in {"idle"} \cup CompactHandlers, hints' = hints,
         Return(t) \/ (UNCHANGED fmvars /\ pc[t] = "idle"),
         IF at[t] = "c_remove" THEN db_mu' = NoThread ELSE db_mu' = db_mu,
         UNCHANGED <<indices, max_file, readonly, failed_count, req, ans, dir, next, calls>>
  PROVE  DBInv'
<1>1. /\ FMInv' /\ pc'[t] = "idle" /\ data' = data /\ active_file_id' = active_file_id
      /\ \A u \in Threads \ {t} : pc'[u] = pc[u] /\ entry'[u] = entry[u]
  BY CallLocals, StutterInv
  DEF DBInv, Return, fmvars, disk, shared, locks, locals
<1>2. todo \in [Threads -> Seq(FileId)] /\ todo[t] \in Seq(FileId) /\ NoRepeats(todo[t])
  BY DEF DBInv, DBTypeOK, OneCompactionPerFile
<1>3. /\ Tail(todo[t]) \in Seq(FileId) /\ NoRepeats(Tail(todo[t]))
      /\ \A x : Contains(Tail(todo[t]), x) => Contains(todo[t], x)
      /\ ~Contains(Tail(todo[t]), Head(todo[t]))
  BY <1>2, TailOfFiles
<1>4. /\ todo' \in [Threads -> Seq(FileId)] /\ todo'[t] = Tail(todo[t])
      /\ \A u \in Threads \ {t} : todo'[u] = todo[u]
  BY <1>2, <1>3 DEF LeaveCompact
<1>5. /\ scan' \in [Threads -> 0 .. kMaxFileBytes]
      /\ at' \in [Threads -> Handlers] /\ at'[t] = "idle"
      /\ \A u \in Threads \ {t} : at'[u] = at[u] /\ scan'[u] = scan[u]
  BY CapacityAssumption DEF LeaveCompact, GoTo, DBInv, DBTypeOK, Handlers
<1>6. DBTypeOK' /\ LocalTypes'
  BY <1>1, <1>4, <1>5 DEF DBInv, DBTypeOK, LocalTypes, FMInv
<1>7. (\A u \in Threads \ {t} : Untouched(u)) /\ DataKept
  BY <1>1, <1>4, <1>5, SameData DEF Untouched
<1>8. IndexInv'
  BY <1>7, IndexFrame DEF DBInv
<1>9. HandlerOK(t)' /\ RequestOK(t)'
  BY <1>1, <1>5 DEF DBInv, RequestInv, HandlerOK, RequestOK, RequestHandlers, CompactHandlers
<1>10. CompactOK(t)' /\ QueuedExist'
  BY <1>1, <1>3, <1>4, <1>5 DEF DBInv, CompactInv, CompactOK, QueuedExist, CompactHandlers
<1>11. \A u \in Threads \ {t} : at[u] = "c_remove" => db_mu' = db_mu
  BY DEF DBInv, CompactInv, CompactOK
<1>12. ASSUME NEW u \in Threads
       PROVE  /\ NoRepeats(todo'[u])
              /\ \A f \in FileId : Contains(todo'[u], f) =>
                   /\ ~Contains(hints.compact_tasks, f)
                   /\ \A w \in Threads \ {u} : ~Contains(todo'[w], f)
                   /\ \/ hints.compact_state[f] \in {"kScheduling", "kCompacting"}
                      \/ at'[u] = "c_remove" /\ Head(todo'[u]) = f
  <2>1. \A w \in Threads : \A x : Contains(todo'[w], x) => Contains(todo[w], x)
    BY <1>3, <1>4
  <2>2. NoRepeats(todo'[u])
    BY <1>3, <1>4 DEF DBInv, OneCompactionPerFile
  <2>3. ASSUME NEW f \in FileId, Contains(todo'[u], f)
        PROVE  /\ ~Contains(hints.compact_tasks, f)
               /\ \A w \in Threads \ {u} : ~Contains(todo'[w], f)
    BY <2>1, <2>3 DEF DBInv, OneCompactionPerFile
  <2>4. ASSUME NEW f \in FileId, Contains(todo'[u], f)
        PROVE  \/ hints.compact_state[f] \in {"kScheduling", "kCompacting"}
               \/ at'[u] = "c_remove" /\ Head(todo'[u]) = f
    <3>1. \/ hints.compact_state[f] \in {"kScheduling", "kCompacting"}
          \/ at[u] = "c_remove" /\ Head(todo[u]) = f
      BY <2>1, <2>4 DEF DBInv, OneCompactionPerFile
    <3>2. u = t => f # Head(todo[t])
      BY <1>3, <1>4, <2>4
    <3> QED
      BY <1>4, <1>5, <3>1, <3>2
  <2> QED
    BY <2>2, <2>3, <2>4
<1>13. OneCompactionPerFile'
  <2>1. QueueSound(hints')
    BY DEF DBInv, OneCompactionPerFile
  <2> QED
    BY <1>12, <2>1 DEF OneCompactionPerFile
<1> QED
  BY <1>1, <1>6, <1>7, <1>8, <1>9, <1>10, <1>11, <1>13, HintsStep

LEMMA CompactReadonlyInv ==
  ASSUME DBInv, NEW t \in Threads, CompactReadonly(t)
  PROVE  DBInv'
<1>1. pc[t] = "idle" /\ at[t] = "idle"
  BY DEF CompactReadonly, In, DBInv, HandlerInv, HandlerOK
<1> QED
  BY <1>1, LeaveInv DEF CompactReadonly, dbshared

LEMMA CompactFailedInv ==
  ASSUME DBInv, NEW t \in Threads, CompactFailed(t)
  PROVE  DBInv'
<1>1. at[t] \in {"c_acquire", "c_append"}
  BY DEF CompactFailed, Returned, In
<1>2. todo[t] # << >> /\ at[t] \in CompactHandlers
  BY <1>1 DEF DBInv, CompactInv, CompactOK, CompactHandlers
<1> QED
  BY <1>1, <1>2, LeaveInv DEF CompactFailed, dbshared

LEMMA CompactRemovedInv ==
  ASSUME DBInv, NEW t \in Threads, CompactRemoved(t)
  PROVE  DBInv'
<1>1. at[t] = "c_remove"
  BY DEF CompactRemoved, Returned, In
<1>2. todo[t] # << >> /\ at[t] \in CompactHandlers
  BY <1>1 DEF DBInv, CompactInv, CompactOK, CompactHandlers
<1> QED
  BY <1>1, <1>2, LeaveInv DEF CompactRemoved

\* The file a compaction works on, which it has to itself.
LEMMA OwnFile ==
  ASSUME DBInv, NEW t \in Threads, at[t] \in CompactHandlers
  PROVE  /\ todo[t] # << >> /\ Head(todo[t]) \in FileId /\ Head(todo[t]) <= active_file_id
         /\ Contains(todo[t], Head(todo[t]))
         /\ ~Contains(hints.compact_tasks, Head(todo[t]))
         /\ \A u \in Threads \ {t} : ~Contains(todo[u], Head(todo[t]))
<1>1. todo[t] # << >> /\ todo[t] \in Seq(FileId)
  BY DEF DBInv, DBTypeOK, CompactInv, CompactOK
<1>2. Head(todo[t]) \in FileId /\ Contains(todo[t], Head(todo[t]))
  BY <1>1, TailOfFiles
<1> QED
  BY <1>1, <1>2 DEF DBInv, CompactInv, CompactOK, OneCompactionPerFile

LEMMA CompactMarkInv ==
  ASSUME DBInv, NEW t \in Threads, CompactMark(t)
  PROVE  DBInv'
<1>1. /\ at[t] = "c_acquire" /\ db_mu = NoThread /\ Return(t) /\ GoTo(t, "c_scan")
      /\ hints' = MarkCompacting(hints, Head(todo[t]))
      /\ UNCHANGED <<indices, max_file, readonly, failed_count, db_mu,
                     req, ans, dir, todo, next, scan, calls>>
  BY DEF CompactMark, Returned, In
<1>2. /\ todo[t] # << >> /\ Head(todo[t]) \in FileId
      /\ ~Contains(hints.compact_tasks, Head(todo[t]))
  BY <1>1, OwnFile DEF CompactHandlers
<1>3. /\ hints \in Hints /\ hints' \in Hints
      /\ hints'.compact_tasks = hints.compact_tasks
      /\ \A x \in FileId : hints'.compact_state[x] =
           IF x = Head(todo[t]) THEN "kCompacting" ELSE hints.compact_state[x]
  BY <1>1, <1>2, MarkHints DEF DBInv, DBTypeOK
<1>4. /\ FMInv' /\ pc'[t] = "idle" /\ data' = data /\ active_file_id' = active_file_id
      /\ \A u \in Threads \ {t} : pc'[u] = pc[u] /\ entry'[u] = entry[u]
  BY <1>1, CallLocals DEF Return, disk, shared
<1>5. /\ DBTypeOK' /\ LocalTypes' /\ at'[t] = "c_scan"
      /\ \A u \in Threads \ {t} : at'[u] = at[u]
  BY <1>1, <1>3, <1>4 DEF DBInv, DBTypeOK, LocalTypes, FMInv, Handlers, GoTo
<1>6. (\A u \in Threads \ {t} : Untouched(u)) /\ DataKept
  BY <1>1, <1>4, <1>5, SameData DEF Untouched
<1>7. IndexInv'
  BY <1>1, <1>6, IndexFrame DEF DBInv
<1>8. HandlerOK(t)' /\ RequestOK(t)' /\ CompactOK(t)' /\ QueuedExist'
  BY <1>1, <1>2, <1>3, <1>4, <1>5 DEF DBInv, RequestInv, CompactInv, HandlerOK, RequestOK,
     CompactOK, QueuedExist, RequestHandlers, CompactHandlers
<1>9. OneCompactionPerFile'
  <2>1. QueueSound(hints')
    BY <1>2, <1>3 DEF DBInv, OneCompactionPerFile, QueueSound
  <2>2. ASSUME NEW u \in Threads, NEW f \in FileId, Contains(todo[u], f)
        PROVE  hints'.compact_state[f] \in {"kScheduling", "kCompacting"}
    BY <1>1, <1>3, <2>2, NobodyRemoves DEF DBInv, OneCompactionPerFile
  <2> QED
    BY <1>1, <1>3, <2>1, <2>2 DEF DBInv, OneCompactionPerFile
<1> QED
  BY <1>1, <1>4, <1>5, <1>6, <1>7, <1>8, <1>9, HintsStep

\* The state of the file is erased and the file handed to RemoveFile.
LEMMA CompactEndInv ==
  ASSUME DBInv, NEW t \in Threads, CompactEnd(t)
  PROVE  DBInv'
<1> DEFINE f == Head(todo[t])
<1>1. /\ at[t] = "c_end" /\ db_mu = NoThread /\ db_mu' = t
      /\ hints' = EraseState(hints, f) /\ RemoveCall(t, f) /\ GoTo(t, "c_remove")
      /\ UNCHANGED <<indices, max_file, readonly, failed_count,
                     req, ans, dir, todo, next, scan, calls>>
  BY DEF CompactEnd, In
<1>2. /\ todo[t] # << >> /\ f \in FileId /\ f <= active_file_id
      /\ ~Contains(hints.compact_tasks, f)
      /\ \A u \in Threads \ {t} : ~Contains(todo[u], f)
  BY <1>1, OwnFile DEF CompactHandlers
<1>3. /\ hints \in Hints /\ hints' \in Hints
      /\ hints'.compact_tasks = hints.compact_tasks
      /\ \A x \in FileId : hints'.compact_state[x] =
           IF x = f THEN "kNop" ELSE hints.compact_state[x]
  BY <1>1, <1>2, EraseHints DEF DBInv, DBTypeOK
<1>4. /\ FMInv' /\ pc'[t] = "release" /\ data' = data /\ active_file_id' = active_file_id
      /\ \A u \in Threads \ {t} : pc'[u] = pc[u] /\ entry'[u] = entry[u]
  BY <1>1, <1>2, RemoveCallInv DEF RemoveCall, Goto, disk, shared, DBInv, FMInv, TypeOK
<1>5. /\ DBTypeOK' /\ LocalTypes' /\ at'[t] = "c_remove"
      /\ \A u \in Threads \ {t} : at'[u] = at[u]
  BY <1>1, <1>3, <1>4 DEF DBInv, DBTypeOK, LocalTypes, FMInv, Handlers, GoTo
<1>6. (\A u \in Threads \ {t} : Untouched(u)) /\ DataKept
  BY <1>1, <1>4, <1>5, SameData DEF Untouched
<1>7. IndexInv'
  BY <1>1, <1>6, IndexFrame DEF DBInv
<1>8. HandlerOK(t)' /\ RequestOK(t)' /\ CompactOK(t)' /\ QueuedExist'
  BY <1>1, <1>2, <1>3, <1>4, <1>5 DEF DBInv, RequestInv, CompactInv, HandlerOK, RequestOK,
     CompactOK, QueuedExist, RemoveLines, RequestHandlers, CompactHandlers
<1>9. OneCompactionPerFile'
  <2>1. QueueSound(hints')
    BY <1>2, <1>3 DEF DBInv, OneCompactionPerFile, QueueSound
  <2>2. ASSUME NEW u \in Threads, NEW x \in FileId, Contains(todo[u], x)
        PROVE  \/ hints'.compact_state[x] \in {"kScheduling", "kCompacting"}
               \/ at'[u] = "c_remove" /\ Head(todo[u]) = x
    <3>1. CASE x = f
      BY <1>2, <1>5, <2>2, <3>1
    <3>2. CASE x # f
      BY <1>1, <1>3, <2>2, <3>2, NobodyRemoves DEF DBInv, OneCompactionPerFile
    <3> QED
      BY <3>1, <3>2
  <2> QED
    BY <1>1, <1>3, <2>1, <2>2 DEF DBInv, OneCompactionPerFile
<1>10. \A u \in Threads \ {t} : at[u] = "c_remove" => db_mu' = db_mu
  BY <1>1, NobodyRemoves
<1> QED
  BY <1>4, <1>5, <1>6, <1>7, <1>8, <1>9, <1>10, HintsStep

-----------------------------------------------------------------------------
LEMMA NextDBInv == DBInv /\ [DBNext]_vars => DBInv'
<1> SUFFICES ASSUME DBInv, [DBNext]_vars PROVE DBInv'
  OBVIOUS
<1>1. ASSUME NEW t \in Threads, Step(t) PROVE DBInv'
  <2>1. CASE Invoke(t) \/ CompactCall(t) \/ Respond(t) \/ FileManagerStep(t)
    BY <2>1, InvokeInv, CompactCallInv, RespondInv, FileManagerStepInv
  <2>2. CASE PutStep(t)
    BY <2>2, PutCallInv, PutRejectedInv, PutFailedInv, PutIndexInv DEF PutStep
  <2>3. CASE GetStep(t)
    BY <2>3, GetAbsentInv, GetLookupInv, GetFailedInv, GetReadInv DEF GetStep
  <2>4. CASE CompactStep(t)
    BY <2>4, CompactWorkerInv, CompactBeginInv, CompactReadonlyInv, CompactFailedInv,
       CompactMarkInv, CompactReadInv, CompactAstrayInv, CompactSkipInv, CompactMoveInv,
       CompactUpdateInv, CompactScannedInv, CompactEndInv, CompactRemovedInv
    DEF CompactStep
  <2> QED
    BY <1>1, <2>1, <2>2, <2>3, <2>4 DEF Step, Continues
<1> QED
  BY <1>1, SyncFailedInv, StutterDBInv DEF DBNext, DBTerminating

(***************************************************************************)
(* DBInv holds in every state, whatever the clients, the compactions and   *)
(* the sync worker do and however their steps interleave.                  *)
(***************************************************************************)
THEOREM DBInvariance == DBSpec => []DBInv
BY InitDBInv, NextDBInv, PTL DEF DBSpec

\* Every variable of DBImpl keeps its type.
THEOREM DBTypeCorrect == DBSpec => []DBTypeOK
<1>1. DBInv => DBTypeOK
  BY DEF DBInv
<1> QED
  BY <1>1, DBInvariance, PTL

(***************************************************************************)
(* The index points only to kSet records of its keys, stored by Append     *)
(* before HandlePut or Compact took their locations, also where Compact    *)
(* read a record in part; whether their values are whole is another matter *)
(* (IndexStaysWhole of CompactionProofs).                                  *)
(***************************************************************************)
THEOREM IndexIsSound == DBSpec => []IndexSound
<1>1. DBInv => IndexSound
  BY HoleAssumption DEF DBInv, IndexInv, IndexSound, PointsTo
<1> QED
  BY <1>1, DBInvariance, PTL

(***************************************************************************)
(* No file is queued twice or compacted by two threads: UpdateUnused,      *)
(* PollCompactTask and Compact move compact_state under db_mu.             *)
(***************************************************************************)
THEOREM CompactionIsExclusive == DBSpec => []OneCompactionPerFile
<1>1. DBInv => OneCompactionPerFile
  BY DEF DBInv
<1> QED
  BY <1>1, DBInvariance, PTL

\* DBImpl's steps keep the records of a file one behind the other.
LEMMA ChainUnderDB == DBInv /\ ChainOver(FileId) /\ [DBNext]_vars => ChainOver(FileId)'
<1> SUFFICES ASSUME DBInv, ChainOver(FileId), [DBNext]_vars PROVE ChainOver(FileId)'
  OBVIOUS
<1>1. FMInv /\ \A t \in Threads : pc[t] = "allocate" => file_id[t] \in FileId
  BY DEF DBInv, FMInv, LocalsInv, Lines, AppendLines
<1>2. CASE UNCHANGED fmvars
  BY <1>2, ChainFrame DEF fmvars, disk, shared, locks, locals
<1>3. ASSUME NEW t \in Threads, Step(t), ~UNCHANGED fmvars PROVE ChainOver(FileId)'
  <2>1. \/ \E x : AppendCall(t, x) \/ AcquireCall(t, x) \/ RemoveCall(t, x)
        \/ Return(t) \/ FMStep(t)
    <3>1. CASE Invoke(t) \/ CompactCall(t) \/ Respond(t) \/ FileManagerStep(t)
      BY <1>3, <3>1 DEF Invoke, CompactCall, Respond, FileManagerStep
    <3>2. CASE PutStep(t)
      BY <1>3, <3>2 DEF PutStep, PutCall, PutRejected, PutFailed, PutIndex
    <3>3. CASE GetStep(t)
      BY <1>3, <3>3 DEF GetStep, GetAbsent, GetLookup, GetFailed, GetRead
    <3>4. CASE CompactStep(t)
      BY <1>3, <3>4 DEF CompactStep, CompactWorker, CompactBegin, CompactReadonly,
         CompactFailed, CompactMark, Reads, CompactRead, CompactTorn, CompactAstray,
         CompactSkip, CompactMove, CompactUpdate, CompactScanned, CompactEnd,
         CompactRemoved
    <3> QED
      BY <1>3, <3>1, <3>2, <3>3, <3>4 DEF Step, Continues
  <2> QED
    BY <1>1, <2>1, ChainCall, ChainStep
<1> QED
  BY <1>2, <1>3 DEF DBNext, SyncFailed, DBTerminating, vars

(***************************************************************************)
(* Under all calls that DBImpl makes, the file manager keeps its promises: *)
(* records never overlap, Append's location holds its record, and a scan   *)
(* of a file meets all its records.                                        *)
(***************************************************************************)
THEOREM FilesUnderDB ==
  DBSpec => [](RecordsDisjoint /\ AppendStored /\ MetadataOnDisk /\ ScanReachesEnd)
<1>1. DBInit => ChainOver(FileId)
  BY ChainInit DEF DBInit
<1>2. DBSpec => []ChainOver(FileId)
  BY <1>1, ChainUnderDB, DBInvariance, PTL DEF DBSpec
<1>3. DBInv /\ ChainOver(FileId) => RecordsDisjoint /\ AppendStored /\ MetadataOnDisk /\ ScanReachesEnd
  BY ChainScan DEF DBInv, FMInv
<1> QED
  BY <1>2, <1>3, DBInvariance, PTL

-----------------------------------------------------------------------------
(***************************************************************************)
(* Refinement of KVStore: the steps of Put, Delete and Get.  Module        *)
(* CompactionProofs adds those of compaction and of the read cache.        *)
(***************************************************************************)
\* The abstract store changes only when the index does.
LEMMA StoreKept ==
  ASSUME DBInv, DataKept, indices' = indices
  PROVE  AbstractStore' = AbstractStore
<1>1. ASSUME NEW k \in Keys PROVE Value(k)' = Value(k)
  <2>1. CASE indices[k] = NoDir
    BY <2>1 DEF Value
  <2>2. CASE indices[k] # NoDir
    <3>1. PointsTo(data, indices[k], k)
      BY <2>2 DEF DBInv, IndexInv
    <3>2. data'[indices[k].loc.id][indices[k].loc.offset]
            = data[indices[k].loc.id][indices[k].loc.offset]
      BY <3>1, RecordKept
    <3> QED
      BY <2>2, <3>2 DEF Value
  <2> QED
    BY <2>1, <2>2
<1> QED
  BY <1>1 DEF AbstractStore

\* What the clients of the abstract store see of thread t.
LEMMA AnsOf ==
  ASSUME DBInv, NEW t \in Threads
  PROVE  AbstractAns[t] = IF at[t] \in {"get", "cached", "cache_open"}
                          THEN Reply("kOk", data[dir[t].loc.id][dir[t].loc.offset].value)
                          ELSE ans[t]
<1>1. dir[t] # NoDir <=> at[t] \in {"get", "cached", "cache_open"}
  BY NoDirAssumption DEF DBInv, RequestInv, RequestOK, PointsTo
<1> QED
  BY <1>1 DEF AbstractAns

LEMMA OthersAns ==
  ASSUME DBInv, DBInv', DataKept, NEW u \in Threads, Untouched(u)
  PROVE  AbstractAns'[u] = AbstractAns[u]
<1>1. CASE at[u] \notin {"get", "cached", "cache_open"}
  <2>1. dir[u] = NoDir
    BY <1>1 DEF DBInv, RequestInv, RequestOK
  <2> QED
    BY <2>1 DEF Untouched, AbstractAns
<1>2. CASE at[u] \in {"get", "cached", "cache_open"}
  <2>1. dir[u] # NoDir /\ PointsTo(data, dir[u], req[u].key)
    BY <1>2, NoDirAssumption DEF DBInv, RequestInv, RequestOK, PointsTo
  <2>2. data'[dir[u].loc.id][dir[u].loc.offset] = data[dir[u].loc.id][dir[u].loc.offset]
    BY <2>1, RecordKept
  <2> QED
    BY <2>1, <2>2 DEF Untouched, AbstractAns
<1> QED
  BY <1>1, <1>2

\* The abstract answers after a step of thread t.
LEMMA AnsUpdate ==
  ASSUME DBInv, DBInv', DataKept, NEW t \in Threads, NEW a, AbstractAns'[t] = a,
         \A u \in Threads \ {t} : Untouched(u)
  PROVE  AbstractAns' = [AbstractAns EXCEPT ![t] = a]
<1>1. \A u \in Threads \ {t} : AbstractAns'[u] = AbstractAns[u]
  BY OthersAns
<1> DEFINE A == AbstractAns
<1>2. A = [u \in Threads |-> A[u]] /\ A' = [u \in Threads |-> A'[u]]
  BY DEF AbstractAns
<1> HIDE DEF A
<1>3. A' = [A EXCEPT ![t] = a]
  BY <1>1, <1>2 DEF A
<1> QED
  BY <1>3 DEF A

\* The state mapping of a step that answers, or finds the answer of, t's request.
LEMMA PendingRequest ==
  ASSUME DBInv, NEW t \in Threads, at[t] \in {"called", "put"}
  PROVE  /\ req[t] \in Requests(t) /\ req[t] # Idle /\ AbstractAns[t] = Idle
         /\ Store!Pending(t, req[t].op)
<1>1. req[t] \in Requests(t) /\ ans[t] = Idle
  BY DEF DBInv, RequestInv, RequestOK, RequestHandlers
<1>2. req[t] # Idle
  BY <1>1, RequestFacts
<1>3. AbstractAns[t] = Idle
  BY <1>1, AnsOf
<1> QED
  BY <1>1, <1>2, <1>3 DEF Store!Pending

\* What the index makes of the abstract store.
LEMMA StoreOf ==
  ASSUME DBInv, NEW k \in Keys
  PROVE  /\ indices[k] = NoDir => AbstractStore[k] = Empty
         /\ indices[k] # NoDir =>
              /\ AbstractStore[k] # Empty
              /\ AbstractStore[k] = data[indices[k].loc.id][indices[k].loc.offset].value
<1>1. AbstractStore[k] = Value(k)
  BY DEF AbstractStore
<1>2. indices[k] # NoDir =>
        data[indices[k].loc.id][indices[k].loc.offset].value \in Values
  BY FoundValue DEF DBInv, IndexInv
<1> QED
  BY <1>1, <1>2, EmptyAssumption DEF Value

LEMMA InvokeRefines ==
  ASSUME DBInv, DBInv', NEW t \in Threads, Invoke(t)
  PROVE  Store!KVNext
<1>1. PICK r \in Requests(t) : req' = [req EXCEPT ![t] = r]
  BY DEF Invoke
<1>2. r \in Store!Request
  BY <1>1, RequestFacts
<1>3. /\ at[t] = "idle" /\ req[t] = Idle /\ dir' = dir /\ ans' = ans
      /\ UNCHANGED <<data, indices>>
  BY DEF Invoke, In, DBInv, RequestInv, RequestOK, RequestHandlers, fmvars, disk, dbshared
<1>4. AbstractStore' = AbstractStore /\ AbstractAns' = AbstractAns
  BY <1>3 DEF AbstractStore, Value, AbstractAns
<1>5. Store!Invoke(t, r)
  BY <1>1, <1>3, <1>4 DEF Store!Invoke
<1> QED
  BY <1>2, <1>5 DEF Store!KVStep, Store!KVNext

LEMMA RespondRefines ==
  ASSUME DBInv, DBInv', NEW t \in Threads, Respond(t)
  PROVE  Store!KVNext
<1> USE DEF Respond, In, GoTo, fmvars, disk, shared, locals, dbshared
<1>1. /\ at[t] = "done" /\ req[t] \in Requests(t) /\ ans[t] # Idle /\ dir' = dir
      /\ ans \in [Threads -> Replies \cup {Idle}] /\ at \in [Threads -> Handlers]
      /\ req \in [Threads -> Store!Request \cup {Idle}]
  BY DEF DBInv, DBTypeOK, LocalTypes, RequestInv, RequestOK, RequestHandlers
<1>2. req[t] # Idle
  BY <1>1, RequestFacts
<1>3. (\A u \in Threads \ {t} : Untouched(u)) /\ DataKept
  BY <1>1, SameData DEF Untouched
<1>4. AbstractStore' = AbstractStore
  BY <1>3, StoreKept
<1>5. AbstractAns[t] # Idle
  BY <1>1, AnsOf
<1>6. AbstractAns'[t] = Idle
  <2>1. at'[t] = "idle" /\ ans'[t] = Idle
    BY <1>1
  <2>2. dir'[t] = NoDir
    BY <1>1 DEF DBInv, RequestInv, RequestOK
  <2> QED
    BY <2>1, <2>2 DEF AbstractAns
<1>7. AbstractAns' = [AbstractAns EXCEPT ![t] = Idle]
  BY <1>3, <1>6, AnsUpdate
<1>8. Store!Respond(t)
  BY <1>2, <1>4, <1>5, <1>7 DEF Store!Respond
<1> QED
  BY <1>8 DEF Store!KVStep, Store!KVNext

\* What an answering step does to the other threads and to the mapped answer.
LEMMA AnswerMaps ==
  ASSUME DBInv, DBInv', NEW t \in Threads, NEW a, Answer(t, a),
         Return(t) \/ UNCHANGED fmvars,
         dir' = dir \/ dir' = [dir EXCEPT ![t] = NoDir],
         UNCHANGED <<req, todo, next, scan>>
  PROVE  /\ DataKept /\ data' = data /\ \A u \in Threads \ {t} : Untouched(u)
         /\ AbstractAns' = [AbstractAns EXCEPT ![t] = a]
<1>1. /\ \A u \in Threads \ {t} : pc'[u] = pc[u] /\ entry'[u] = entry[u]
      /\ data' = data /\ active_file_id' = active_file_id
  BY CallLocals DEF Return, fmvars, disk, shared, locals
<1>2. /\ at'[t] = "done" /\ ans'[t] = a
      /\ \A u \in Threads \ {t} : at'[u] = at[u] /\ ans'[u] = ans[u] /\ dir'[u] = dir[u]
  BY DEF Answer, GoTo, DBInv, DBTypeOK, LocalTypes
<1>3. DataKept /\ \A u \in Threads \ {t} : Untouched(u)
  BY <1>1, <1>2, SameData DEF Untouched
<1>4. dir'[t] = NoDir
  BY <1>2 DEF DBInv, RequestInv, RequestOK
<1>5. AbstractAns'[t] = a
  BY <1>2, <1>4 DEF AbstractAns
<1> QED
  BY <1>1, <1>3, <1>5, AnsUpdate

LEMMA WriteFailsRefines ==
  ASSUME DBInv, DBInv', NEW t \in Threads, PutRejected(t) \/ PutFailed(t)
  PROVE  Store!KVNext
<1>1. at[t] \in {"called", "put"} /\ req[t].op \in {"put", "delete"}
  BY DEF PutRejected, PutFailed, Returned, In, IsWrite, DBInv, RequestInv, RequestOK
<1>2. Store!Pending(t, "put") \/ Store!Pending(t, "delete")
  BY <1>1, PendingRequest
<1>3. PICK s \in {"kNotSupported", "kIOError"} : Answer(t, Reply(s, Empty))
  BY DEF PutRejected, PutFailed
<1>4. /\ Return(t) \/ UNCHANGED fmvars
      /\ UNCHANGED <<req, todo, next, scan, dir, indices>>
  BY DEF PutRejected, PutFailed, dbshared
<1>5. DataKept /\ AbstractAns' = [AbstractAns EXCEPT ![t] = Reply(s, Empty)]
  BY <1>3, <1>4, AnswerMaps
<1>6. AbstractStore' = AbstractStore
  BY <1>4, <1>5, StoreKept
<1>7. Store!WriteFails(t)
  BY <1>2, <1>4, <1>5, <1>6 DEF Store!WriteFails, Store!Reply, Reply
<1> QED
  BY <1>7 DEF Store!KVStep, Store!KVNext

\* A Get takes effect when it looks its key up.
LEMMA GetAbsentRefines ==
  ASSUME DBInv, DBInv', NEW t \in Threads, GetAbsent(t)
  PROVE  Store!KVNext
<1>1. /\ at[t] = "called" /\ req[t].op = "get" /\ indices[req[t].key] = NoDir
      /\ Answer(t, Reply("kNotFound", Empty))
      /\ UNCHANGED <<fmvars, req, todo, next, scan, dir, indices>>
  BY DEF GetAbsent, In, dbshared
<1>2. Store!Pending(t, "get") /\ req[t] \in Requests(t)
  BY <1>1, PendingRequest
<1>3. AbstractStore[req[t].key] = Empty
  BY <1>1, <1>2, RequestFacts, StoreOf
<1>4. DataKept /\ AbstractAns' = [AbstractAns EXCEPT ![t] = Reply("kNotFound", Empty)]
  BY <1>1, AnswerMaps
<1>5. AbstractStore' = AbstractStore
  BY <1>1, <1>4, StoreKept
<1>6. Store!Get(t)
  BY <1>1, <1>2, <1>3, <1>4, <1>5 DEF Store!Get, Store!Reply, Reply
<1> QED
  BY <1>6 DEF Store!KVStep, Store!KVNext

LEMMA LookupRefines ==
  ASSUME DBInv, DBInv', NEW t \in Threads, at[t] = "called", req[t].op = "get",
         NEW d, d = indices[req[t].key], d # NoDir, dir' = [dir EXCEPT ![t] = d],
         DataKept, data' = data, \A u \in Threads \ {t} : Untouched(u),
         UNCHANGED <<req, indices>>
  PROVE  Store!KVNext
<1> DEFINE v == data[d.loc.id][d.loc.offset].value
<1>1. Store!Pending(t, "get") /\ req[t] \in Requests(t)
  BY PendingRequest
<1>2. req[t].key \in Keys
  BY <1>1, RequestFacts
<1>3. AbstractStore[req[t].key] = v /\ v # Empty
  BY <1>2, StoreOf
<1>4. dir'[t] = d
  BY DEF DBInv, DBTypeOK
<1>5. AbstractAns'[t] = Reply("kOk", v)
  BY <1>4 DEF AbstractAns
<1> HIDE DEF v
<1>6. AbstractAns' = [AbstractAns EXCEPT ![t] = Reply("kOk", v)]
  BY <1>5, AnsUpdate
<1>7. AbstractStore' = AbstractStore
  BY StoreKept
<1>8. Store!Get(t)
  BY <1>1, <1>3, <1>6, <1>7 DEF Store!Get, Store!Reply, Reply
<1> QED
  BY <1>8 DEF Store!KVStep, Store!KVNext

LEMMA GetLookupRefines ==
  ASSUME DBInv, DBInv', NEW t \in Threads, GetLookup(t)
  PROVE  Store!KVNext
<1>1. PICK d : d = indices[req[t].key]
  OBVIOUS
<1>2. /\ at[t] = "called" /\ req[t].op = "get" /\ d # NoDir
      /\ dir' = [dir EXCEPT ![t] = d] /\ AcquireCall(t, d.loc.id) /\ GoTo(t, "get")
      /\ UNCHANGED <<req, ans, todo, next, scan, indices>>
  BY <1>1 DEF GetLookup, In, dbshared
<1>3. req[t].key \in Keys
  BY <1>2, PendingRequest, RequestFacts
<1>4. d.loc.id \in FileId
  BY <1>1, <1>2, <1>3 DEF DBInv, DBTypeOK, Dir, Location
<1>5. /\ entry' = entry /\ \A u \in Threads \ {t} : pc'[u] = pc[u]
      /\ data' = data /\ active_file_id' = active_file_id
  BY <1>2, <1>4, CallLocals DEF AcquireCall, disk, shared
<1>6. \A u \in Threads \ {t} : at'[u] = at[u] /\ dir'[u] = dir[u]
  BY <1>2 DEF GoTo, DBInv, DBTypeOK
<1>7. DataKept /\ \A u \in Threads \ {t} : Untouched(u)
  BY <1>2, <1>5, <1>6, SameData DEF Untouched
<1> QED
  BY <1>1, <1>2, <1>5, <1>7, LookupRefines

\* It ends with the value it found then, or with an error.
LEMMA EndRefines ==
  ASSUME DBInv, DBInv', GetMayFail, NEW t \in Threads,
         at[t] \in {"get", "cached", "cache_open"},
         Return(t) \/ UNCHANGED fmvars, dir' = [dir EXCEPT ![t] = NoDir],
         UNCHANGED <<req, todo, next, scan, indices>>, NEW a, Answer(t, a),
         \/ a = Reply("kOk", data[dir[t].loc.id][dir[t].loc.offset].value)
         \/ \E s \in {"kIOError", "kCorruption"} : a = Reply(s, Empty)
  PROVE  Store!KVNext \/ UNCHANGED <<AbstractStore, req, AbstractAns>>
<1> DEFINE v == data[dir[t].loc.id][dir[t].loc.offset].value
<1>1. AbstractAns[t] = Reply("kOk", v)
  BY AnsOf
<1>2. v \in Values
  BY FoundValue DEF DBInv, RequestInv, RequestOK
<1>3. a = Reply("kOk", v) \/ \E s \in {"kIOError", "kCorruption"} : a = Reply(s, Empty)
  OBVIOUS
<1> HIDE DEF v
<1>4. DataKept /\ AbstractAns' = [AbstractAns EXCEPT ![t] = a]
  BY AnswerMaps
<1>5. AbstractStore' = AbstractStore
  BY <1>4, StoreKept
<1>6. CASE a = Reply("kOk", v)
  <2>1. AbstractAns = [u \in Threads |-> AbstractAns[u]]
    BY DEF AbstractAns
  <2>2. AbstractAns' = AbstractAns
    BY <1>1, <1>4, <1>6, <2>1
  <2> QED
    BY <1>5, <2>2
<1>7. CASE \E s \in {"kIOError", "kCorruption"} : a = Reply(s, Empty)
  <2>1. req[t] \in Requests(t) /\ req[t].op = "get"
    BY DEF DBInv, RequestInv, RequestOK, RequestHandlers
  <2>2. req[t] # Idle
    BY <2>1, RequestFacts
  <2>3. AbstractAns[t] # Idle /\ AbstractAns[t].status = "kOk"
    BY <1>2, <1>1, ReplyType DEF Reply
  <2>4. Store!GetFails(t)
    BY <1>4, <1>5, <1>7, <2>1, <2>2, <2>3 DEF Store!GetFails, Store!Reply, Reply
  <2> QED
    BY <2>4 DEF Store!KVStep, Store!KVNext
<1> QED
  BY <1>3, <1>6, <1>7

LEMMA GetEndRefines ==
  ASSUME DBInv, DBInv', GetMayFail, NEW t \in Threads, GetFailed(t) \/ GetRead(t)
  PROVE  Store!KVNext \/ UNCHANGED <<AbstractStore, req, AbstractAns>>
<1>1. /\ at[t] = "get" /\ Return(t) /\ dir' = [dir EXCEPT ![t] = NoDir]
      /\ UNCHANGED <<req, todo, next, scan, indices>>
  BY DEF GetFailed, GetRead, Returned, In, dbshared
<1>2. PICK a : /\ Answer(t, a)
               /\ \/ a = Reply("kOk", data[dir[t].loc.id][dir[t].loc.offset].value)
                  \/ \E s \in {"kIOError", "kCorruption"} : a = Reply(s, Empty)
  BY DEF GetFailed, GetRead
<1> QED
  BY <1>1, <1>2, EndRefines

\* A Put or Delete takes effect when the index takes its record.
LEMMA PutIndexRefines ==
  ASSUME DBInv, DBInv', NEW t \in Threads, PutIndex(t)
  PROVE  Store!KVNext
<1> DEFINE e == entry[t]
           l == Loc(t)
           k == req[t].key
<1>1. /\ at[t] = "put" /\ pc[t] = "returned" /\ status[t] = "kOk" /\ Return(t)
      /\ indices' = IndexAfterPut(indices, l, e)
      /\ Answer(t, Reply(PutStatus(indices, e), Empty))
      /\ UNCHANGED <<req, dir, todo, next, scan>>
  BY DEF PutIndex, Returned, In
<1>2. /\ Store!Pending(t, req[t].op) /\ req[t] \in Requests(t)
      /\ e \in Entry /\ e = EntryOf(req[t]) /\ IsWrite(req[t])
  BY <1>1, PendingRequest DEF DBInv, HandlerInv, HandlerOK, RequestInv, RequestOK
<1>3. /\ k \in Keys /\ e.key = k /\ e.value = req[t].value
      /\ req[t].op = "put" <=> e.type = "kSet"
      /\ req[t].op = "delete" <=> e.type = "kDelete"
  BY <1>2, RequestFacts DEF EntryOf, IsWrite
<1>4. l \in Location /\ data[l.id][l.offset] = e
  BY <1>1, <1>2, AppendResult DEF DBInv
<1>5. /\ DataKept /\ data' = data
      /\ AbstractAns' = [AbstractAns EXCEPT ![t] = Reply(PutStatus(indices, e), Empty)]
  BY <1>1, AnswerMaps
<1>6. PutStatus(indices, e) =
        IF AbstractStore[k] = Empty /\ e.type = "kDelete" THEN "kNotFound" ELSE "kOk"
  BY <1>3, StoreOf DEF PutStatus
<1> HIDE DEF e, l, k
<1>7. /\ indices'[k] = IF e.type = "kSet" THEN DirOf(l, e) ELSE NoDir
      /\ \A x \in Keys : x # k => indices'[x] = indices[x]
  BY <1>1, <1>2, <1>3, <1>4, PutIndexType DEF DBInv, DBTypeOK
<1>8. DirOf(l, e) # NoDir /\ DirOf(l, e).loc = l
  BY <1>2, <1>4, DirOfType
<1>9. AbstractStore'[k] = IF e.type = "kSet" THEN e.value ELSE Empty
  BY <1>3, <1>4, <1>5, <1>7, <1>8 DEF AbstractStore, Value
<1>10. \A x \in Keys : x # k => AbstractStore'[x] = AbstractStore[x]
  BY <1>5, <1>7 DEF AbstractStore, Value
<1>11. /\ AbstractStore = [x \in Keys |-> AbstractStore[x]]
       /\ AbstractStore' = [x \in Keys |-> AbstractStore'[x]]
  BY DEF AbstractStore
<1>12. AbstractStore' =
         [AbstractStore EXCEPT ![k] = IF e.type = "kSet" THEN e.value ELSE Empty]
  BY <1>3, <1>9, <1>10, <1>11
<1>13. CASE req[t].op = "put"
  <2>1. Store!Put(t)
    BY <1>1, <1>2, <1>3, <1>5, <1>6, <1>12, <1>13 DEF Store!Put, Store!Reply, Reply, k
  <2> QED
    BY <2>1 DEF Store!KVStep, Store!KVNext
<1>14. CASE req[t].op = "delete"
  <2>1. Store!Delete(t)
    BY <1>1, <1>2, <1>3, <1>5, <1>6, <1>12, <1>14 DEF Store!Delete, Store!Reply, Reply, k
  <2> QED
    BY <2>1 DEF Store!KVStep, Store!KVNext
<1> QED
  BY <1>2, <1>13, <1>14 DEF IsWrite

\* The steps that clients do not see.
LEMMA HiddenStep ==
  ASSUME DBInv, DataKept, UNCHANGED <<indices, req, ans, dir>>
  PROVE  UNCHANGED <<AbstractStore, req, AbstractAns>>
<1>1. AbstractStore' = AbstractStore
  BY StoreKept
<1>2. ASSUME NEW u \in Threads, dir[u] # NoDir
      PROVE  data'[dir[u].loc.id][dir[u].loc.offset] = data[dir[u].loc.id][dir[u].loc.offset]
  <2>1. PointsTo(data, dir[u], req[u].key)
    BY <1>2 DEF DBInv, RequestInv, RequestOK
  <2> QED
    BY <2>1, RecordKept
<1>3. AbstractAns' = AbstractAns
  BY <1>2 DEF AbstractAns
<1> QED
  BY <1>1, <1>3
=============================================================================
