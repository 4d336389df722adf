----------------------------- MODULE Durability -----------------------------
(***************************************************************************)
(* What survives a crash of the process.  On top of the appends of         *)
(* FileManager: synchronous Puts, the sync worker, the jobs a rotation     *)
(* hands to the executor (SyncFile, CreateIndexFile), the crash, and the   *)
(* restart.  The page cache outlives the process, so a crash keeps what    *)
(* was written; stable says what msync has put on the device.              *)
(*                                                                         *)
(* Each key is written by one thread, so that its acknowledged order is    *)
(* the order of its calls.  The index log of a file lists the records of   *)
(* the file: Append packs both under the file's mutex, and CreateFile      *)
(* rebuilds the log from the records.                                      *)
(***************************************************************************)
EXTENDS FileManager, FiniteSetsExt

CONSTANTS
  WritesOf,     \* WritesOf[t]: the records thread t may put
  SyncThreads,  \* the threads that set WriteOptions::sync
  NoLoc,        \* no synchronous Put
  MaxWrites,    \* bound: Puts of all threads
  MaxRestarts   \* bound: restarts of the process

\* Where a synchronous Put has its record, and the file that Sync took.
SyncedPuts == [loc : Location, file : FileId]

\* A synchronous thread only puts: a Delete of an absent key does not sync.
ASSUME DurAssumption ==
  /\ WritesOf \in [Threads -> SUBSET Entry]
  /\ \A t, u \in Threads : \A d \in WritesOf[t], e \in WritesOf[u] :
       t # u => d.key # e.key
  /\ SyncThreads \subseteq Threads
  /\ \A t \in SyncThreads : \A e \in WritesOf[t] : e.type = "kSet"
  /\ NoLoc \notin SyncedPuts
  /\ MaxWrites \in Nat
  /\ MaxRestarts \in Nat

VARIABLES
  stable,      \* the locations whose records msync has written
  index_file,  \* the index file of every data file
  jobs,        \* what the executor has been given
  at,          \* where in DBImpl::HandlePut a thread is
  target,      \* Sync: the file whose pointer the caller copied
  acked,       \* history: the value of a key's last Put that returned kOk
  unacked,     \* history: the values of its Puts that were called since
  synced,      \* history: t's last Put whose Sync succeeded
  writes,      \* Puts so far
  restarts     \* restarts so far

durable  == <<stable, index_file>>
putvars  == <<at, target>>
history  == <<acked, unacked, synced>>
counters == <<writes, restarts>>
durvars  == <<fmvars, durable, jobs, putvars, history, counters>>

SyncJob(f) == [run |-> "SyncFile", id |-> f, line |-> "sync"]

IndexJob(f, line) == [run |-> "CreateIndexFile", id |-> f, line |-> line]

Jobs ==
  {SyncJob(f) : f \in FileId}
    \cup {IndexJob(f, line) : f \in FileId, line \in {"open", "append"}}

\* The offsets at which file f has records.
Offsets(f) == {o \in Offset : RecordAt(f, o)}

Locations(f) == [id : {f}, offset : Offsets(f)]

\* Whether the file exists, its length in entries, and the offsets it lists.
IndexFile == [exists : BOOLEAN, length : 0 .. kMaxFileBytes, listed : SUBSET Offset]

NoIndexFile == [exists |-> FALSE, length |-> 0, listed |-> {}]

\* Every variable is in its type.
DurTypeOK ==
  /\ TypeOK
  /\ stable \subseteq Location
  /\ index_file \in [FileId -> IndexFile]
  /\ jobs \subseteq Jobs
  /\ at \in [Threads -> {"idle", "append", "sync", "msync"}]
  /\ target \in [Threads -> FileId \cup {0}]
  /\ acked \in [Keys -> Values \cup {Empty}]
  /\ unacked \in [Keys -> SUBSET (Values \cup {Empty})]
  /\ synced \in [Threads -> SyncedPuts \cup {NoLoc}]
  /\ writes \in 0 .. MaxWrites
  /\ restarts \in 0 .. MaxRestarts

DurInit ==
  /\ FMInit
  /\ stable = {}
  /\ index_file = [f \in FileId |-> NoIndexFile]
  /\ jobs = {}
  /\ at = [t \in Threads |-> "idle"]
  /\ target = [t \in Threads |-> 0]
  /\ acked = [k \in Keys |-> Empty]
  /\ unacked = [k \in Keys |-> {}]
  /\ synced = [t \in Threads |-> NoLoc]
  /\ writes = 0
  /\ restarts = 0

-----------------------------------------------------------------------------
(***************************************************************************)
(* DBImpl::HandlePut, as far as durability goes.                           *)
(***************************************************************************)
PutBegin(t) ==
  \E e \in WritesOf[t] :
    /\ at[t] = "idle"
    /\ writes < MaxWrites
    /\ AppendCall(t, e)
    /\ at' = [at EXCEPT ![t] = "append"]
    /\ unacked' = [unacked EXCEPT ![e.key] = @ \cup {e.value}]
    /\ writes' = writes + 1
    /\ UNCHANGED <<durable, jobs, target, acked, synced, restarts>>

\* The Put of record e returns kOk.
Acknowledge(t, e) ==
  /\ at' = [at EXCEPT ![t] = "idle"]
  /\ acked' = [acked EXCEPT ![e.key] = e.value]
  /\ unacked' = [unacked EXCEPT ![e.key] = {}]

Appended(t, result) == At(t, "returned") /\ at[t] = "append" /\ status[t] = result

\* Without WriteOptions::sync the Put is over once the index has the record.
PutReturn(t) ==
  /\ Appended(t, "kOk")
  /\ t \notin SyncThreads
  /\ Acknowledge(t, entry[t])
  /\ Return(t)
  /\ UNCHANGED <<durable, jobs, target, synced, counters>>

\* With it, the record is in the index and FileManager::Sync is next.
PutSync(t) ==
  /\ Appended(t, "kOk")
  /\ t \in SyncThreads
  /\ at' = [at EXCEPT ![t] = "sync"]
  /\ UNCHANGED <<fmvars, durable, jobs, target, history, counters>>

PutFailed(t) ==
  /\ Appended(t, "kIOError")
  /\ at' = [at EXCEPT ![t] = "idle"]
  /\ Return(t)
  /\ UNCHANGED <<durable, jobs, target, history, counters>>

(***************************************************************************)
(* FileManager::Sync: copy the pointer of the active file under mu_, then  *)
(* msync that file.                                                        *)
(***************************************************************************)
\* msync writes the records that are in the file by now.
Msync(f) == stable' = stable \cup Locations(f)

SyncTake(t) ==
  /\ up
  /\ at[t] = "sync"
  /\ mu = NoThread
  /\ target' = [target EXCEPT ![t] = active_file_id]
  /\ at' = [at EXCEPT ![t] = "msync"]
  /\ UNCHANGED <<fmvars, durable, jobs, history, counters>>

\* The Put returns kOk, whatever Sync returns.
SyncReturn(t) ==
  /\ up
  /\ at[t] = "msync"
  /\ Acknowledge(t, entry[t])
  /\ target' = [target EXCEPT ![t] = 0]
  /\ Return(t)
  /\ UNCHANGED <<index_file, jobs, counters>>

\* Bug: only Flush(true) is called, which does nothing for a mapped file.
SyncOkFlush(t) ==
  /\ SyncReturn(t)
  /\ synced' = [synced EXCEPT ![t] = [loc |-> Loc(t), file |-> target[t]]]
  /\ UNCHANGED stable

SyncOk(t) ==
  /\ SyncReturn(t)
  /\ Msync(target[t])
  /\ synced' = [synced EXCEPT ![t] = [loc |-> Loc(t), file |-> target[t]]]

SyncFailed(t) ==
  /\ DiskMayFail
  /\ SyncReturn(t)
  /\ UNCHANGED <<stable, synced>>

(***************************************************************************)
(* A tick of the sync worker.  One that fails leaves everything to the     *)
(* next; one that is overtaken by a rotation syncs the sealed file, as the *)
(* SyncFile job of the rotation does.                                      *)
(***************************************************************************)
WorkerSync ==
  /\ up
  /\ mu = NoThread
  /\ Msync(active_file_id)
  /\ UNCHANGED <<fmvars, index_file, jobs, putvars, history, counters>>

-----------------------------------------------------------------------------
(***************************************************************************)
(* The executor.  CreateFile hands it the file it seals, and the index log *)
(* unless an earlier CreateFile that failed has moved it away.             *)
(***************************************************************************)
\* Bug: the sealed file is not handed to SyncFile.
ScheduledNoSync(t) ==
  IF index_log THEN jobs \cup {IndexJob(active_file_id, "open")} ELSE jobs

Scheduled(t) ==
  jobs \cup {SyncJob(active_file_id)}
       \cup (IF index_log THEN {IndexJob(active_file_id, "open")} ELSE {})

DurAppend(t) ==
  /\ AppendStep(t)
  /\ jobs' = IF pc[t] = "rotate" /\ pc'[t] = "open" THEN Scheduled(t) ELSE jobs
  /\ UNCHANGED <<durable, putvars, history, counters>>

\* SyncFile; after an error it schedules itself again.
RunSyncFile(f) ==
  /\ up
  /\ SyncJob(f) \in jobs
  /\ Msync(f)
  /\ jobs' = jobs \ {SyncJob(f)}
  /\ UNCHANGED <<fmvars, index_file, putvars, history, counters>>

\* log->ReadableBytes(), in entries.
LogLength(f) == Cardinality(Offsets(f))

(***************************************************************************)
(* CreateIndexFile opens the index file and reserves it with the length of *)
(* the log, full of zeros.  A file of another length is an error, and the  *)
(* job is scheduled again, unchanged.                                      *)
(***************************************************************************)
OpenIndexFile(f) ==
  /\ up
  /\ IndexJob(f, "open") \in jobs
  /\ index_file[f].length \in {0, LogLength(f)}
  /\ index_file' = [index_file EXCEPT ![f] =
       [exists |-> TRUE, length |-> LogLength(f), listed |-> @.listed]]
  /\ jobs' = (jobs \ {IndexJob(f, "open")}) \cup {IndexJob(f, "append")}
  /\ UNCHANGED <<fmvars, stable, putvars, history, counters>>

\* Open fails after the file was created, or after it was reserved (mmap).
OpenIndexFileFail(f) ==
  /\ up
  /\ DiskMayFail
  /\ IndexJob(f, "open") \in jobs
  /\ \E length \in {index_file[f].length, LogLength(f)} :
       /\ index_file[f].length \in {0, length}
       /\ index_file' = [index_file EXCEPT ![f] =
            [exists |-> TRUE, length |-> length, listed |-> @.listed]]
  /\ UNCHANGED <<fmvars, stable, jobs, putvars, history, counters>>

\* Bug: the index file is that of the file that is active by now.
WriteIndexFileActive(f) ==
  /\ up
  /\ IndexJob(f, "append") \in jobs
  /\ index_file' = [index_file EXCEPT ![active_file_id].listed = Offsets(f)]
  /\ jobs' = jobs \ {IndexJob(f, "append")}
  /\ UNCHANGED <<fmvars, stable, putvars, history, counters>>

\* Allocate(log->ReadableBytes()) and copy the log.
WriteIndexFile(f) ==
  /\ up
  /\ IndexJob(f, "append") \in jobs
  /\ LogLength(f) <= index_file[f].length
  /\ index_file' = [index_file EXCEPT ![f] =
       [exists |-> @.exists, length |-> @.length, listed |-> Offsets(f)]]
  /\ jobs' = jobs \ {IndexJob(f, "append")}
  /\ UNCHANGED <<fmvars, stable, putvars, history, counters>>

\* A late record made the log longer: Allocate returns a null buffer.
WriteIndexFileNull(f) ==
  /\ up
  /\ IndexJob(f, "append") \in jobs
  /\ LogLength(f) > index_file[f].length
  /\ up' = FALSE
  /\ UNCHANGED <<disk, shared, locks, pc, locals, durable, jobs, putvars, history, counters>>

Executor(f) ==
  \/ RunSyncFile(f)
  \/ OpenIndexFile(f)
  \/ OpenIndexFileFail(f)
  \/ WriteIndexFile(f)
  \/ WriteIndexFileNull(f)

-----------------------------------------------------------------------------
(***************************************************************************)
(* The process is killed.  A record that was being packed is on disk or is *)
(* not; it is there, whole or torn, once its header and key are, for no    *)
(* scan looks at the checksum.                                             *)
(***************************************************************************)
Packing == {t \in Threads : pc[t] = "pack"}

Crash ==
  /\ up
  /\ restarts < MaxRestarts
  /\ up' = FALSE
  /\ \E packed \in SUBSET Packing :
       data' = [f \in FileId |-> [o \in Offset |->
         IF \E t \in packed : Loc(t) = [id |-> f, offset |-> o]
         THEN entry[CHOOSE t \in packed : Loc(t) = [id |-> f, offset |-> o]]
         ELSE data[f][o]]]
  /\ UNCHANGED <<linked, files, shared, locks, pc, locals,
                 durable, jobs, putvars, history, counters>>

\* Bug: the write offset of the last file is not restored.
RestoreNothing(f) == write_index' = [write_index EXCEPT ![f] = 0]

\* CreateFile on a file that has records: rebuild the log, SetWriteOffset.
RestoreWriteOffset(f) ==
  write_index' = [write_index EXCEPT ![f] = RebuildOffset(data[f])]

(***************************************************************************)
(* MetadataManager::Recovery reads the list of files back, and             *)
(* FileManager::Init makes the last of them the active file.               *)
(***************************************************************************)
Restart ==
  LET last == Max(files) IN
  /\ ~up
  /\ restarts < MaxRestarts
  /\ restarts' = restarts + 1
  /\ up' = TRUE
  /\ active_file_id' = last
  /\ RestoreWriteOffset(last)
  /\ index_log' = TRUE
  /\ open_files' = {}
  /\ mu' = NoThread
  /\ file_mu' = [f \in FileId |-> NoThread]
  /\ pc' = [t \in Threads |-> "idle"]
  /\ entry' = [t \in Threads |-> NoRecord]
  /\ file_id' = [t \in Threads |-> 0]
  /\ has_log' = [t \in Threads |-> FALSE]
  /\ offset' = [t \in Threads |-> 0]
  /\ status' = [t \in Threads |-> "kOk"]
  /\ jobs' = {}
  /\ at' = [t \in Threads |-> "idle"]
  /\ target' = [t \in Threads |-> 0]
  /\ UNCHANGED <<disk, durable, history, writes>>

-----------------------------------------------------------------------------
PutStep(t) ==
  \/ PutReturn(t) \/ PutSync(t) \/ PutFailed(t)
  \/ SyncTake(t) \/ SyncOk(t) \/ SyncFailed(t)
  \/ DurAppend(t)

\* The process stays down, or the model has no more files.
DurTerminating == (~up \/ AtHorizon) /\ UNCHANGED durvars

DurNext ==
  \/ \E t \in Threads : PutBegin(t) \/ PutStep(t)
  \/ WorkerSync
  \/ \E f \in FileId : Executor(f)
  \/ Crash \/ Restart
  \/ DurTerminating

DurSpec == DurInit /\ [][DurNext]_durvars

\* The timer and the executor run, and calls in progress go on.
DurLiveSpec ==
  /\ DurSpec
  /\ \A t \in Threads : WF_durvars(DurAppend(t))
  /\ WF_durvars(WorkerSync)
  /\ \A f \in FileId : WF_durvars(RunSyncFile(f))

-----------------------------------------------------------------------------
(***************************************************************************)
(* The value DBImpl::Recovery gives a key: that of its record with the     *)
(* greatest location among those at the offsets found[f] of the files f.   *)
(***************************************************************************)
RecordsOf(k, found) ==
  {l \in Location : l.id \in files /\ l.offset \in found[l.id]
                      /\ data[l.id][l.offset].key = k}

Recovered(k, found) ==
  LET ls == RecordsOf(k, found) IN
  IF ls = {} THEN Empty
  ELSE LET l == CHOOSE l \in ls : \A m \in ls : m = l \/ Before(m, l)
       IN  data[l.id][l.offset].value

\* What CreateFile's scan of a data file meets.
Scanned == [f \in FileId |-> {o \in Offsets(f) : o < RebuildOffset(data[f])}]

\* What DBImpl::Recovery(f) reads: the index file where there is one, or the
\* records RecordIterator gives out.
Listed ==
  [f \in FileId |->
     IF index_file[f].exists THEN index_file[f].listed
     ELSE {o \in Scanned[f] : IterValid(data[f], o)}]

Survives(k, found) == Recovered(k, found) \in {acked[k]} \cup unacked[k]

(***************************************************************************)
(* Wherever the process is killed, a scan of the data files finds every    *)
(* acknowledged write, or a later one of the same key that was in flight.  *)
(***************************************************************************)
AckedOnDisk == \A k \in Keys : Survives(k, Scanned)

(***************************************************************************)
(* So does recovery, which prefers the index files (README: loading the    *)
(* index files completes the recovery of the index).                       *)
(***************************************************************************)
RecoveryKeepsAcked == ~up => \A k \in Keys : Survives(k, Listed)

(***************************************************************************)
(* An index file lists records of its own data file, and with a record all *)
(* that precede it, although the log it is written from goes on growing.   *)
(***************************************************************************)
IndexFileSound ==
  \A f \in FileId :
    /\ index_file[f].listed \subseteq Offsets(f)
    /\ \A o \in index_file[f].listed : \A p \in Offsets(f) :
         p < o => p \in index_file[f].listed

(***************************************************************************)
(* When Sync has succeeded on the file it took, the Put's record is on the *)
(* device, unless the file taken is a later one than the record's.  What   *)
(* happens to the file after Sync took it makes no difference.             *)
(***************************************************************************)
SyncedIsStable ==
  \A t \in Threads : synced[t] # NoLoc =>
    synced[t].loc \in stable \/ synced[t].loc.id < synced[t].file

(***************************************************************************)
(* A synchronous Put that returns kOk after a successful Sync has its      *)
(* record on the device (README: with WriteOptions::sync the flush is      *)
(* synchronous).  A rotation between Append and Sync breaks this.          *)
(***************************************************************************)
SyncIsDurable == \A t \in Threads : synced[t] # NoLoc => synced[t].loc \in stable

(***************************************************************************)
(* A record of the active file gets to the device while the process lives, *)
(* through the sync worker or, when the file is sealed before its tick,    *)
(* through SyncFile.  (A record appended to a file while or after it is    *)
(* rotated away has neither.)                                              *)
(***************************************************************************)
EventuallyStable ==
  \A l \in Location :
    (RecordAt(l.id, l.offset) /\ l.id = active_file_id /\ mu = NoThread)
      ~> (l \in stable \/ ~up \/ AtHorizon)
=============================================================================
