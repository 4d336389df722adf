------------------------------- MODULE DBImpl -------------------------------
(***************************************************************************)
(* pedrodb::DBImpl: Put, Delete, Get and Compact of many threads on top of *)
(* the file manager, and the background workers.  at says which handler a  *)
(* thread is in; while a handler waits for a call of the file manager, the *)
(* thread's steps are those of FileManager.  mu_ of DBImpl is db_mu; its   *)
(* critical sections are single steps, except the end of a compaction,     *)
(* which removes the file under the lock.                                  *)
(***************************************************************************)
EXTENDS FileManager, MemIndex

CONSTANTS
  Idle,               \* no open request, no answer
  Torn,               \* the values that no checksum matches: torn reads
  GetMayFail,         \* whether the map of KVStore lets a Get fail
  UseReadCache,       \* options.read_cache.enable and ReadOptions::use_read_cache
  Ops,                \* Ops[t]: the operations thread t performs
  KeysOf,             \* KeysOf[t]: the keys it uses
  MaxCalls,           \* bound, MaxCalls[t]: calls a client thread makes
  sync_max_io_error   \* options.sync_max_io_error

ASSUME DBAssumption ==
  /\ Ops \in [Threads -> SUBSET {"put", "delete", "get", "Compact", "worker"}]
  /\ KeysOf \in [Threads -> SUBSET Keys]
  /\ MaxCalls \in [Threads -> Nat]
  /\ sync_max_io_error \in Nat
  /\ Torn \subseteq Values
  /\ UseReadCache \in BOOLEAN
  /\ GetMayFail \in BOOLEAN

\* What a client asks for and what it is told.
Requests(t) ==
  [op : Ops[t] \cap {"put"}, key : KeysOf[t], value : Values \ Torn]
    \cup [op : Ops[t] \cap {"delete", "get"}, key : KeysOf[t], value : {Empty}]

Replies ==
  [status : {"kOk", "kNotFound", "kIOError", "kCorruption", "kNotSupported"},
   value : Values \cup {Empty}]

ASSUME IdleAssumption ==
  Idle \notin Replies /\ \A t \in Threads : Idle \notin Requests(t)

VARIABLES
  indices,       \* indices_
  hints,         \* file_states_ and compact_tasks_
  max_file,      \* max_file_
  readonly,      \* readonly_
  failed_count,  \* the sync worker's count of failed syncs
  db_mu,         \* holder of DBImpl::mu_
  at,            \* the handler a thread is in
  req,           \* the request it serves
  ans,           \* the answer it will return
  dir,           \* Get: the directory entry it found
  todo,          \* the files it still has to compact, the current one first
  next,          \* the record its RecordIterator has read
  scan,          \* the offset of its RecordIterator
  calls          \* calls the thread has made

dbshared == <<indices, hints, max_file, readonly, failed_count, db_mu>>
dblocals == <<at, req, ans, dir, todo, next, scan, calls>>
vars     == <<fmvars, dbshared, dblocals>>

Handlers ==
  {"idle", "called", "put", "get", "cached", "cache_open", "done",
   "c_acquire", "c_scan", "c_check", "c_append", "c_end", "c_remove"}

\* Every variable of DBImpl is in its type.
DBTypeOK ==
  /\ TypeOK
  /\ indices \in [Keys -> Dir \cup {NoDir}]
  /\ hints \in Hints
  /\ max_file \in FileId
  /\ readonly \in BOOLEAN
  /\ failed_count \in 0 .. (sync_max_io_error + 1)
  /\ db_mu \in Threads \cup {NoThread}
  /\ at \in [Threads -> Handlers]
  /\ dir \in [Threads -> Dir \cup {NoDir}]
  /\ todo \in [Threads -> Seq(FileId)]
  /\ next \in [Threads -> Entry \cup {NoRecord}]
  /\ scan \in [Threads -> 0 .. kMaxFileBytes]
  /\ \A t \in Threads : calls[t] \in 0 .. MaxCalls[t]

\* DBImpl::Init on an empty directory.
DBInit ==
  /\ FMInit
  /\ indices = [k \in Keys |-> NoDir]
  /\ hints = NoHints
  /\ max_file = 1
  /\ readonly = FALSE
  /\ failed_count = 0
  /\ db_mu = NoThread
  /\ at = [t \in Threads |-> "idle"]
  /\ req = [t \in Threads |-> Idle]
  /\ ans = [t \in Threads |-> Idle]
  /\ dir = [t \in Threads |-> NoDir]
  /\ todo = [t \in Threads |-> << >>]
  /\ next = [t \in Threads |-> NoRecord]
  /\ scan = [t \in Threads |-> 0]
  /\ calls = [t \in Threads |-> 0]

In(t, handler) == up /\ at[t] = handler

GoTo(t, handler) == at' = [at EXCEPT ![t] = handler]

\* The call of the file manager that handler waits for has returned.
Returned(t, handler, result) ==
  In(t, handler) /\ pc[t] = "returned" /\ status[t] = result

Reply(result, value) == [status |-> result, value |-> value]

Answer(t, a) ==
  /\ ans' = [ans EXCEPT ![t] = a]
  /\ GoTo(t, "done")

-----------------------------------------------------------------------------
\* A client calls Put, Delete or Get.
Invoke(t) ==
  /\ In(t, "idle")
  /\ todo[t] = << >>
  /\ calls[t] < MaxCalls[t]
  /\ calls' = [calls EXCEPT ![t] = @ + 1]
  /\ \E r \in Requests(t) : req' = [req EXCEPT ![t] = r]
  /\ GoTo(t, "called")
  /\ UNCHANGED <<fmvars, dbshared, ans, dir, todo, next, scan>>

Respond(t) ==
  /\ In(t, "done")
  /\ req' = [req EXCEPT ![t] = Idle]
  /\ ans' = [ans EXCEPT ![t] = Idle]
  /\ GoTo(t, "idle")
  /\ UNCHANGED <<fmvars, dbshared, dir, todo, next, scan, calls>>

-----------------------------------------------------------------------------
(***************************************************************************)
(* DBImpl::HandlePut: Put, or Delete when the value is empty.              *)
(***************************************************************************)
EntryOf(r) ==
  [type |-> IF r.op = "put" THEN "kSet" ELSE "kDelete",
   key |-> r.key, value |-> r.value]

IsWrite(r) == r.op \in {"put", "delete"}

\* Not read-only and not too big: append the record, without db_mu.
PutCall(t) ==
  /\ In(t, "called")
  /\ IsWrite(req[t])
  /\ ~readonly
  /\ AppendCall(t, EntryOf(req[t]))
  /\ GoTo(t, "put")
  /\ UNCHANGED <<dbshared, req, ans, dir, todo, next, scan, calls>>

\* kNotSupported.
PutRejected(t) ==
  /\ In(t, "called")
  /\ IsWrite(req[t])
  /\ readonly \/ SizeOf(EntryOf(req[t])) > kMaxFileBytes
  /\ Answer(t, Reply("kNotSupported", Empty))
  /\ UNCHANGED <<fmvars, dbshared, req, dir, todo, next, scan, calls>>

PutFailed(t) ==
  /\ Returned(t, "put", "kIOError")
  /\ Return(t)
  /\ Answer(t, Reply("kIOError", Empty))
  /\ UNCHANGED <<dbshared, req, dir, todo, next, scan, calls>>

(***************************************************************************)
(* Under db_mu: the index takes the new location, whatever it held.  With  *)
(* options.sync the caller then syncs the active file and ignores errors.  *)
(***************************************************************************)
PutIndex(t) ==
  LET e == entry[t]  l == Loc(t) IN
  /\ Returned(t, "put", "kOk")
  /\ db_mu = NoThread
  /\ indices' = IndexAfterPut(indices, l, e)
  /\ hints' = HintsAfterPut(indices, hints, l, e)
  /\ max_file' = IF max_file < l.id THEN l.id ELSE max_file
  /\ Return(t)
  /\ Answer(t, Reply(PutStatus(indices, e), Empty))
  /\ UNCHANGED <<readonly, failed_count, db_mu, req, dir, todo, next, scan, calls>>

-----------------------------------------------------------------------------
(***************************************************************************)
(* DBImpl::HandleGet.  Files below max_file_ are read through the cache,   *)
(* if it is in use (module ReadCache); the others directly.                *)
(***************************************************************************)
DirectlyRead(l) == ~UseReadCache \/ l.id = max_file

\* Under db_mu: look the key up; absent keys are answered at once.
GetAbsent(t) ==
  /\ In(t, "called")
  /\ req[t].op = "get"
  /\ db_mu = NoThread
  /\ indices[req[t].key] = NoDir
  /\ Answer(t, Reply("kNotFound", Empty))
  /\ UNCHANGED <<fmvars, dbshared, req, dir, todo, next, scan, calls>>

GetLookup(t) ==
  LET found == indices[req[t].key] IN
  /\ In(t, "called")
  /\ req[t].op = "get"
  /\ db_mu = NoThread
  /\ found # NoDir
  /\ DirectlyRead(found.loc)
  /\ dir' = [dir EXCEPT ![t] = found]
  /\ AcquireCall(t, found.loc.id)
  /\ GoTo(t, "get")
  /\ UNCHANGED <<dbshared, req, ans, todo, next, scan, calls>>

GetFailed(t) ==
  /\ Returned(t, "get", "kIOError")
  /\ Return(t)
  /\ Answer(t, Reply("kIOError", Empty))
  /\ dir' = [dir EXCEPT ![t] = NoDir]
  /\ UNCHANGED <<dbshared, req, todo, next, scan, calls>>

GetRead(t) ==
  LET l == dir[t].loc  d == data[l.id] IN
  /\ Returned(t, "get", "kOk")
  /\ Return(t)
  /\ Answer(t, IF IterValid(d, l.offset) /\ d[l.offset].value \notin Torn
               THEN Reply("kOk", d[l.offset].value)
               ELSE Reply("kCorruption", Empty))
  /\ dir' = [dir EXCEPT ![t] = NoDir]
  /\ UNCHANGED <<dbshared, req, todo, next, scan, calls>>

-----------------------------------------------------------------------------
(***************************************************************************)
(* Compaction.  DBImpl::Compact() polls the queue and compacts the files   *)
(* in ascending order; the compact worker polls on a timer and its         *)
(* executor (one thread by default) compacts them in queue order.          *)
(***************************************************************************)
Polls(t) == In(t, "idle") /\ db_mu = NoThread /\ hints.compact_tasks # << >>

\* std::sort of the queue.
IsSorting(s, q) ==
  /\ \E p \in Bijection(DOMAIN q, DOMAIN q) : s = [i \in DOMAIN q |-> q[p[i]]]
  /\ \A i, j \in DOMAIN q : i < j => s[i] <= s[j]

CompactCall(t) ==
  /\ "Compact" \in Ops[t]
  /\ Polls(t)
  /\ todo[t] = << >>
  /\ calls[t] < MaxCalls[t]
  /\ calls' = [calls EXCEPT ![t] = @ + 1]
  /\ \E s \in [DOMAIN hints.compact_tasks -> FileId] :
       IsSorting(s, hints.compact_tasks) /\ todo' = [todo EXCEPT ![t] = s]
  /\ hints' = PollCompactTask(hints)
  /\ UNCHANGED <<fmvars, indices, max_file, readonly, failed_count, db_mu,
                 at, req, ans, dir, next, scan>>

CompactWorker(t) ==
  /\ "worker" \in Ops[t]
  /\ Polls(t)
  /\ todo' = [todo EXCEPT ![t] = @ \o hints.compact_tasks]
  /\ hints' = PollCompactTask(hints)
  /\ UNCHANGED <<fmvars, indices, max_file, readonly, failed_count, db_mu,
                 at, req, ans, dir, next, scan, calls>>

\* Compact(id) of the next file; a read-only database skips it.
CompactBegin(t) ==
  /\ In(t, "idle")
  /\ todo[t] # << >>
  /\ ~readonly
  /\ AcquireCall(t, Head(todo[t]))
  /\ GoTo(t, "c_acquire")
  /\ UNCHANGED <<dbshared, req, ans, dir, todo, next, scan, calls>>

\* Compact(id) is over, for whatever reason.
LeaveCompact(t) ==
  /\ todo' = [todo EXCEPT ![t] = Tail(@)]
  /\ scan' = [scan EXCEPT ![t] = 0]
  /\ GoTo(t, "idle")

CompactReadonly(t) ==
  /\ In(t, "idle")
  /\ todo[t] # << >>
  /\ readonly
  /\ LeaveCompact(t)
  /\ UNCHANGED <<fmvars, dbshared, req, ans, dir, next, calls>>

\* AcquireDataFile or Append failed: return, leaving compact_state as it is.
CompactFailed(t) ==
  /\ Returned(t, "c_acquire", "kIOError") \/ Returned(t, "c_append", "kIOError")
  /\ Return(t)
  /\ LeaveCompact(t)
  /\ UNCHANGED <<dbshared, req, ans, dir, next, calls>>

CompactMark(t) ==
  /\ Returned(t, "c_acquire", "kOk")
  /\ db_mu = NoThread
  /\ hints' = MarkCompacting(hints, Head(todo[t]))
  /\ Return(t)
  /\ GoTo(t, "c_scan")
  /\ UNCHANGED <<indices, max_file, readonly, failed_count, db_mu,
                 req, ans, dir, todo, next, scan, calls>>

Position(t) == [id |-> Head(todo[t]), offset |-> scan[t]]

\* Bug: the position is read after the iterator has moved on.
IsCurrentShifted(e, l) ==
  indices[e.key] # NoDir /\ indices[e.key].loc = [l EXCEPT !.offset = @ + SizeOf(e)]

\* The index says that this record is the current one of its key.
IsCurrent(e, l) == indices[e.key] # NoDir /\ indices[e.key].loc = l

Advance(t, n) == scan' = [scan EXCEPT ![t] = @ + n]

\* RecordIterator::Next: the compaction has read e; it holds no lock.
Reads(t, e) ==
  /\ next' = [next EXCEPT ![t] = e]
  /\ GoTo(t, "c_check")
  /\ UNCHANGED <<fmvars, dbshared, req, ans, dir, todo, scan, calls>>

\* The iterator stands on a whole record of the file being compacted.
CompactRead(t) ==
  LET d == data[Head(todo[t])] IN
  /\ In(t, "c_scan")
  /\ IterValid(d, scan[t])
  /\ Reads(t, d[scan[t]])

(***************************************************************************)
(* Thread u is packing a record over the iterator's position.  The         *)
(* iterator does not take the file's mutex: it reads some of the record's  *)
(* bytes and zeros for the others.                                         *)
(***************************************************************************)
Packs(u, t) ==
  /\ pc[u] = "pack"
  /\ file_id[u] = Head(todo[t])
  /\ offset[u] <= scan[t] /\ scan[t] < offset[u] + SizeOf(entry[u])

\* Header and key are there already, the value all or in part.
TornReads(e) ==
  {x \in Entry : /\ x.type = e.type /\ x.key = e.key /\ SizeOf(x) = SizeOf(e)
                 /\ x.value \in Torn \cup {e.value}}

CompactTorn(t) ==
  /\ In(t, "c_scan")
  /\ \E u \in Threads \ {t} :
       /\ Packs(u, t)
       /\ offset[u] = scan[t]
       /\ scan[t] + SizeOf(entry[u]) < kMaxFileBytes
       /\ \E x \in TornReads(entry[u]) : Reads(t, x)

(***************************************************************************)
(* Header or key are not, or the iterator is inside a record since such a  *)
(* read: what it takes for a record is none that the index points to.  It  *)
(* goes on where the bytes it took for sizes lead it.                      *)
(***************************************************************************)
Astray(t) ==
  \E o \in Offset :
    /\ RecordAt(Head(todo[t]), o)
    /\ o < scan[t] /\ scan[t] < EndOf(Head(todo[t]), o)

CompactAstray(t) ==
  /\ In(t, "c_scan")
  /\ Astray(t) \/ \E u \in Threads \ {t} : Packs(u, t)
  /\ \E n \in 1 .. (kMaxFileBytes - 1 - scan[t]) : Advance(t, n)
  /\ UNCHANGED <<fmvars, dbshared, at, req, ans, dir, todo, next, calls>>

\* The compaction is done with the record it has read.
PassesOver(t) ==
  /\ Advance(t, SizeOf(next[t]))
  /\ next' = [next EXCEPT ![t] = NoRecord]

\* A tombstone, or a record the index (under db_mu) does not point to.
CompactSkip(t) ==
  /\ In(t, "c_check")
  /\ \/ next[t].type # "kSet"
     \/ db_mu = NoThread /\ ~IsCurrent(next[t], Position(t))
  /\ PassesOver(t)
  /\ GoTo(t, "c_scan")
  /\ UNCHANGED <<fmvars, dbshared, req, ans, dir, todo, calls>>

\* Under db_mu the record is current; what was read of it is appended to
\* the active file, without db_mu.
CompactMove(t) ==
  /\ In(t, "c_check")
  /\ next[t].type = "kSet"
  /\ db_mu = NoThread
  /\ IsCurrent(next[t], Position(t))
  /\ PassesOver(t)
  /\ AppendCall(t, next[t])
  /\ GoTo(t, "c_append")
  /\ UNCHANGED <<dbshared, req, ans, dir, todo, calls>>

\* Under db_mu: the index takes the copy if it is newer than what it has.
CompactUpdate(t) ==
  LET e == entry[t]  l == Loc(t) IN
  /\ Returned(t, "c_append", "kOk")
  /\ db_mu = NoThread
  /\ indices' = IndexAfterMove(indices, l, e)
  /\ hints' = HintsAfterMove(indices, hints, l, e)
  /\ Return(t)
  /\ GoTo(t, "c_scan")
  /\ UNCHANGED <<max_file, readonly, failed_count, db_mu,
                 req, ans, dir, todo, next, scan, calls>>

\* Valid() is false: the loop is over.
CompactScanned(t) ==
  /\ In(t, "c_scan")
  /\ ~IterValid(data[Head(todo[t])], scan[t])
  /\ GoTo(t, "c_end")
  /\ UNCHANGED <<fmvars, dbshared, req, ans, dir, todo, next, scan, calls>>

\* Then forget the file's state and, holding db_mu, remove it.
CompactEnd(t) ==
  LET f == Head(todo[t]) IN
  /\ In(t, "c_end")
  /\ db_mu = NoThread
  /\ db_mu' = t
  /\ hints' = EraseState(hints, f)
  /\ RemoveCall(t, f)
  /\ GoTo(t, "c_remove")
  /\ UNCHANGED <<indices, max_file, readonly, failed_count,
                 req, ans, dir, todo, next, scan, calls>>

\* RemoveFile has returned; its result is ignored.
CompactRemoved(t) ==
  /\ Returned(t, "c_remove", "kOk") \/ Returned(t, "c_remove", "kIOError")
  /\ db_mu' = NoThread
  /\ Return(t)
  /\ LeaveCompact(t)
  /\ UNCHANGED <<indices, hints, max_file, readonly, failed_count,
                 req, ans, dir, next, calls>>

-----------------------------------------------------------------------------
\* The sync worker: a sync fails; too many failures make the database read-only.
SyncFailed ==
  /\ up
  /\ DiskMayFail
  /\ failed_count <= sync_max_io_error
  /\ failed_count' = failed_count + 1
  /\ readonly' = (failed_count' > sync_max_io_error)
  /\ UNCHANGED <<fmvars, indices, hints, max_file, db_mu, dblocals>>

FileManagerStep(t) == FMStep(t) /\ UNCHANGED <<dbshared, dblocals>>

PutStep(t) == PutCall(t) \/ PutRejected(t) \/ PutFailed(t) \/ PutIndex(t)

GetStep(t) == GetAbsent(t) \/ GetLookup(t) \/ GetFailed(t) \/ GetRead(t)

CompactStep(t) ==
  \/ CompactWorker(t) \/ CompactBegin(t) \/ CompactReadonly(t) \/ CompactFailed(t)
  \/ CompactMark(t) \/ CompactRead(t) \/ CompactTorn(t) \/ CompactAstray(t)
  \/ CompactSkip(t) \/ CompactMove(t) \/ CompactUpdate(t)
  \/ CompactScanned(t) \/ CompactEnd(t) \/ CompactRemoved(t)

\* What a thread does once it has been called, and the background worker.
Continues(t) ==
  PutStep(t) \/ GetStep(t) \/ CompactStep(t) \/ Respond(t) \/ FileManagerStep(t)

Step(t) == Invoke(t) \/ CompactCall(t) \/ Continues(t)

\* Every thread has made its calls and no file is waiting for a worker.
AllDone ==
  /\ \A t \in Threads : at[t] = "idle" /\ todo[t] = << >>
  /\ \A t \in Threads : calls[t] = MaxCalls[t] \/ Requests(t) = {}
  /\ \A t \in Threads : ~Polls(t) \/ (Ops[t] \cap {"Compact", "worker"} = {})
                          \/ (calls[t] = MaxCalls[t] /\ "worker" \notin Ops[t])

DBTerminating ==
  /\ AllDone \/ AtHorizon \/ ~up
  /\ UNCHANGED vars

DBNext == (\E t \in Threads : Step(t)) \/ SyncFailed \/ DBTerminating

DBSpec == DBInit /\ [][DBNext]_vars

\* Calls in progress and the background worker go on; a client may stop.
DBLiveSpec == DBSpec /\ \A t \in Threads : WF_vars(Continues(t))

-----------------------------------------------------------------------------
(***************************************************************************)
(* The index points only to records that Append has stored: of the kind    *)
(* kSet, of its keys and of the sizes it says, whatever compactions read   *)
(* beside Pack.                                                            *)
(***************************************************************************)
IndexSound ==
  \A k \in Keys : indices[k] # NoDir =>
    LET l == indices[k].loc IN
    /\ data[l.id][l.offset] # NoRecord
    /\ data[l.id][l.offset].type = "kSet"
    /\ data[l.id][l.offset].key = k
    /\ indices[k].entry_size = SizeOf(data[l.id][l.offset])

(***************************************************************************)
(* The record a key has passes the checks of HandleGet: it is whole, and   *)
(* was not copied from what a compaction read while it was being packed.   *)
(***************************************************************************)
IndexValidates ==
  \A k \in Keys : indices[k] # NoDir =>
    data[indices[k].loc.id][indices[k].loc.offset].value \notin Torn

\* The records of file f that no index entry points to, and their bytes.
DeadOffsets(f) ==
  {o \in Offset : /\ RecordAt(f, o)
                  /\ ~IsCurrent(data[f][o], [id |-> f, offset |-> o])}

DeadBytes(f) == BytesOf(data[f], DeadOffsets(f))

(***************************************************************************)
(* A file is never charged with more unused bytes than it has: no record   *)
(* is counted twice or while it is current, or files that are mostly live  *)
(* would be compacted over and over.                                       *)
(***************************************************************************)
CountedIsDead == \A f \in FileId : hints.free_bytes[f] <= DeadBytes(f)

(***************************************************************************)
(* A file is queued at most once over all queues and never handed to two   *)
(* compactions, explicit or background; compact_state says where it is.    *)
(***************************************************************************)
OneCompactionPerFile ==
  /\ QueueSound(hints)
  /\ \A t \in Threads :
       /\ NoRepeats(todo[t])
       /\ \A f \in FileId : Contains(todo[t], f) =>
            /\ ~Contains(hints.compact_tasks, f)
            /\ \A u \in Threads \ {t} : ~Contains(todo[u], f)
            /\ \/ hints.compact_state[f] \in {"kScheduling", "kCompacting"}
               \/ at[t] = "c_remove" /\ Head(todo[t]) = f

\* The files with current records are on disk: a restart finds them.
IndexedFilesListed ==
  \A k \in Keys : indices[k] # NoDir => indices[k].loc.id \in files

(***************************************************************************)
(* What DBImpl::Recovery would build from the files on disk now: for each  *)
(* key the record with the greatest location, unless it is a tombstone.    *)
(***************************************************************************)
RecordsOf(k) ==
  {l \in Location : l.id \in files /\ RecordAt(l.id, l.offset) /\ data[l.id][l.offset].key = k}

Latest(k) == CHOOSE l \in RecordsOf(k) : \A m \in RecordsOf(k) : m = l \/ Before(m, l)

ReplayedValue(k) ==
  IF RecordsOf(k) = {} THEN Empty ELSE data[Latest(k).id][Latest(k).offset].value

Value(k) ==
  IF indices[k] = NoDir THEN Empty
  ELSE data[indices[k].loc.id][indices[k].loc.offset].value

Quiescent == \A t \in Threads : at[t] \in {"idle", "done"} /\ todo[t] = << >>

(***************************************************************************)
(* When no operation is running, a restart would find the values that Get  *)
(* returns now.                                                            *)
(***************************************************************************)
RestartKeepsValues == Quiescent => \A k \in Keys : ReplayedValue(k) = Value(k)

\* When no operation is running, a restart brings no deleted key back.
RestartKeepsDeletes ==
  Quiescent => \A k \in Keys : Value(k) = Empty => ReplayedValue(k) = Empty

\* A compaction of f returned early: on an IO error, or read-only.
Abandoned(f) ==
  /\ hints.compact_state[f] \in {"kScheduling", "kCompacting"}
  /\ \A t \in Threads : \A i \in DOMAIN todo[t] : todo[t][i] # f

(***************************************************************************)
(* A file that was queued for compaction is reclaimed, although compacting *)
(* the active file appends the copies to the file being scanned, unless a  *)
(* compaction of it was cut short.                                         *)
(***************************************************************************)
QueuedIsReclaimed ==
  \A f \in FileId :
    hints.compact_state[f] = "kQueued"
      ~> (f \notin files \/ Abandoned(f) \/ AtHorizon \/ ~up)

(***************************************************************************)
(* Every Put, Delete and Get returns, also while a compaction holds db_mu  *)
(* and waits for the file manager's mutex.                                 *)
(***************************************************************************)
CallsReturn ==
  \A t \in Threads : at[t] = "called" ~> (at[t] = "done" \/ AtHorizon \/ ~up)

-----------------------------------------------------------------------------
(***************************************************************************)
(* The abstract store: a Put or Delete takes effect when the index takes   *)
(* it, a Get when it looks the key up; what it will read is fixed then.    *)
(***************************************************************************)
AbstractAns ==
  [t \in Threads |->
     IF dir[t] # NoDir
     THEN Reply("kOk", data[dir[t].loc.id][dir[t].loc.offset].value)
     ELSE ans[t]]

AbstractStore == [k \in Keys |-> Value(k)]

Store == INSTANCE KVStore WITH store <- AbstractStore, ans <- AbstractAns

\* DBImpl implements the linearizable map.
Linearizable == Store!KVSpec
=============================================================================
