---------------------------- MODULE FileManager ----------------------------
(***************************************************************************)
(* pedrodb::FileManager: the append-only data files, of which one is       *)
(* active.  Many threads append to the active file; the thread whose entry *)
(* does not fit creates the next file.  A thread is inside at most one     *)
(* call (Append, AcquireDataFile or RemoveFile), at the line pc names; a   *)
(* critical section whose effect nobody can see halfway is one step.       *)
(***************************************************************************)
EXTENDS Records, FiniteSets

CONSTANTS
  Threads,      \* threads that call the file manager
  NoThread,     \* holder of a free mutex
  Calls,        \* the calls the threads make
  DiskMayFail   \* whether opening or reserving a file may fail

ASSUME NoThreadAssumption == NoThread \notin Threads
ASSUME DiskAssumption     == DiskMayFail \in BOOLEAN

VARIABLES
  data,            \* bytes of every data file; they outlive the file's name
  write_index,     \* MappingReadWriteFile::write_index_ of every data file
  linked,          \* the data files that have a name on disk
  files,           \* MetadataManager::files_
  active_file_id,  \* FileManager::active_file_id_ (and active_data_file_)
  index_log,       \* whether active_index_log_ is not null
  open_files,      \* keys of the LRU cache open_files_
  mu,              \* holder of FileManager::mu_
  file_mu,         \* holder of each data file's own mutex
  up               \* whether the process is alive

VARIABLES  \* locals of the call a thread is in
  pc,       \* the line
  entry,    \* Append: the record
  file_id,  \* Append: the snapshot of active_file_id_; otherwise the argument
  has_log,  \* Append: whether the snapshot of active_index_log_ is not null
  offset,   \* Append: buffer.GetOffset()
  status    \* the result

disk   == <<data, linked, files>>
shared == <<write_index, active_file_id, index_log, open_files>>
locks  == <<mu, file_mu>>
locals == <<entry, file_id, has_log, offset, status>>
fmvars == <<disk, shared, locks, up, pc, locals>>

AppendLines == {"snapshot", "allocate", "pack", "rotate", "open", "publish"}
AcquireLines == {"acquire", "open_path", "cache"}
RemoveLines == {"release", "forget", "unlink"}
Lines == AppendLines \cup AcquireLines \cup RemoveLines \cup {"idle", "returned"}

\* Every variable is in its type.
TypeOK ==
  /\ data \in [FileId -> Contents]
  /\ write_index \in [FileId -> 0 .. kMaxFileBytes]
  /\ linked \in SUBSET FileId
  /\ files \in SUBSET FileId
  /\ active_file_id \in FileId
  /\ index_log \in BOOLEAN
  /\ open_files \in SUBSET FileId
  /\ mu \in Threads \cup {NoThread}
  /\ file_mu \in [FileId -> Threads \cup {NoThread}]
  /\ up \in BOOLEAN
  /\ pc \in [Threads -> Lines]
  /\ entry \in [Threads -> Entry \cup {NoRecord}]
  /\ file_id \in [Threads -> FileId \cup {0}]
  /\ has_log \in [Threads -> BOOLEAN]
  /\ offset \in [Threads -> 0 .. kMaxFileBytes]
  /\ status \in [Threads -> {"kOk", "kIOError"}]

(***************************************************************************)
(* FileManager::Init on an empty directory: CreateFile(1) has run.         *)
(***************************************************************************)
FMInit ==
  /\ data = [f \in FileId |-> Blank]
  /\ write_index = [f \in FileId |-> 0]
  /\ linked = {1}
  /\ files = {1}
  /\ active_file_id = 1
  /\ index_log = TRUE
  /\ open_files = {}
  /\ mu = NoThread
  /\ file_mu = [f \in FileId |-> NoThread]
  /\ up = TRUE
  /\ pc = [t \in Threads |-> "idle"]
  /\ entry = [t \in Threads |-> NoRecord]
  /\ file_id = [t \in Threads |-> 0]
  /\ has_log = [t \in Threads |-> FALSE]
  /\ offset = [t \in Threads |-> 0]
  /\ status = [t \in Threads |-> "kOk"]

At(t, line) == up /\ pc[t] = line

Goto(t, line) == pc' = [pc EXCEPT ![t] = line]

Finish(t, result) ==
  /\ status' = [status EXCEPT ![t] = result]
  /\ Goto(t, "returned")

\* The record::Location that Append returned to t.
Loc(t) == [id |-> file_id[t], offset |-> offset[t]]

-----------------------------------------------------------------------------
(***************************************************************************)
(* Append(entry, loc).  Callers have checked that an empty file would hold *)
(* the entry (DBImpl::HandlePut).                                          *)
(***************************************************************************)
AppendCall(t, e) ==
  /\ At(t, "idle")
  /\ SizeOf(e) <= kMaxFileBytes
  /\ entry' = [entry EXCEPT ![t] = e]
  /\ Goto(t, "snapshot")
  /\ UNCHANGED <<disk, shared, locks, up, file_id, has_log, offset, status>>

\* Under mu_: copy the active file, its number and its index log.
AppendSnapshot(t) ==
  /\ At(t, "snapshot")
  /\ mu = NoThread
  /\ file_id' = [file_id EXCEPT ![t] = active_file_id]
  /\ has_log' = [has_log EXCEPT ![t] = index_log]
  /\ Goto(t, "allocate")
  /\ UNCHANGED <<disk, shared, locks, up, entry, offset, status>>

\* MappingReadWriteFile::Allocate(n) hands out the end of the file.
Allocate(t, n) ==
  LET f == file_id[t] IN
  /\ offset' = [offset EXCEPT ![t] = write_index[f]]
  /\ write_index' = [write_index EXCEPT ![f] = @ + n]
  /\ file_mu' = [file_mu EXCEPT ![f] = t]
  /\ Goto(t, "pack")
  /\ UNCHANGED <<disk, active_file_id, index_log, open_files, mu, up,
                 entry, file_id, has_log, status>>

Fits(t) == SizeOf(entry[t]) <= kMaxFileBytes - write_index[file_id[t]]

FileMutexFree(t) == file_mu[file_id[t]] = NoThread

\* Bug: Allocate() runs before the file's mutex is taken.
AllocateNoLock(t) ==
  At(t, "allocate") /\ Fits(t) /\ Allocate(t, SizeOf(entry[t]))

\* Bug: Allocate() does not look at the space that is left.
AllocateUnchecked(t) ==
  At(t, "allocate") /\ FileMutexFree(t) /\ Allocate(t, SizeOf(entry[t]))

\* Bug: Allocate() advances write_index_ by one unit too few.
AllocateShort(t) ==
  At(t, "allocate") /\ FileMutexFree(t) /\ Fits(t) /\ Allocate(t, SizeOf(entry[t]) - 1)

\* Append takes the file's mutex and allocates.
AllocateOk(t) ==
  At(t, "allocate") /\ FileMutexFree(t) /\ Fits(t) /\ Allocate(t, SizeOf(entry[t]))

\* Allocate() returns offset -1; the file's mutex is released.
AllocateFull(t) ==
  /\ At(t, "allocate")
  /\ FileMutexFree(t)
  /\ ~Fits(t)
  /\ Goto(t, "rotate")
  /\ UNCHANGED <<disk, shared, locks, up, locals>>

WriteRecord(t) ==
  data' = [data EXCEPT ![file_id[t]] = [@ EXCEPT ![offset[t]] = entry[t]]]

\* Bug: the location is taken from the active file of the moment.
AppendPackActiveId(t) ==
  /\ At(t, "pack")
  /\ has_log[t]
  /\ WriteRecord(t)
  /\ file_mu' = [file_mu EXCEPT ![file_id[t]] = NoThread]
  /\ file_id' = [file_id EXCEPT ![t] = active_file_id]
  /\ Finish(t, "kOk")
  /\ UNCHANGED <<linked, files, shared, mu, up, entry, has_log, offset>>

\* Still under the file's mutex: pack the record and its index log entry.
AppendPack(t) ==
  /\ At(t, "pack")
  /\ has_log[t]
  /\ WriteRecord(t)
  /\ file_mu' = [file_mu EXCEPT ![file_id[t]] = NoThread]
  /\ Finish(t, "kOk")
  /\ UNCHANGED <<linked, files, shared, mu, up, entry, file_id, has_log, offset>>

\* The record is packed, then index_log.get() is a null pointer.
AppendPackNullLog(t) ==
  /\ At(t, "pack")
  /\ ~has_log[t]
  /\ WriteRecord(t)
  /\ up' = FALSE
  /\ UNCHANGED <<linked, files, shared, locks, pc, locals>>

\* Bug: the loser of the race keeps its old snapshot.
RotateLostSpin(t) ==
  /\ At(t, "rotate")
  /\ mu = NoThread
  /\ file_id[t] # active_file_id
  /\ Goto(t, "rotate")
  /\ UNCHANGED <<disk, shared, locks, up, locals>>

\* Under mu_: another thread has created the next file; try again with it.
RotateLost(t) ==
  /\ At(t, "rotate")
  /\ mu = NoThread
  /\ file_id[t] # active_file_id
  /\ Goto(t, "snapshot")
  /\ UNCHANGED <<disk, shared, locks, up, locals>>

\* Bug: file_id is not compared with active_file_id_ under mu_.
CreateFileBeginUnchecked(t) ==
  /\ At(t, "rotate")
  /\ mu = NoThread
  /\ mu' = t
  /\ index_log' = FALSE
  /\ Goto(t, "open")
  /\ UNCHANGED <<disk, write_index, active_file_id, open_files, file_mu, up, locals>>

\* CreateFile(file_id + 1), under mu_ to its end: move the index log out.
CreateFileBegin(t) ==
  /\ At(t, "rotate")
  /\ mu = NoThread
  /\ file_id[t] = active_file_id
  /\ mu' = t
  /\ index_log' = FALSE
  /\ Goto(t, "open")
  /\ UNCHANGED <<disk, write_index, active_file_id, open_files, file_mu, up, locals>>

(***************************************************************************)
(* The file a running CreateFile creates: Append passes file_id + 1.  The  *)
(* bound MaxFile is the model's horizon.                                   *)
(***************************************************************************)
NextFile(t) == file_id[t] + 1

\* Bug: the path is that of the full file, which is emptied.
CreateFileOpenTruncate(t) ==
  /\ At(t, "open")
  /\ NextFile(t) \in FileId
  /\ data' = [data EXCEPT ![file_id[t]] = Blank]
  /\ write_index' = [write_index EXCEPT ![file_id[t]] = 0]
  /\ index_log' = TRUE
  /\ Goto(t, "publish")
  /\ UNCHANGED <<linked, files, active_file_id, open_files, locks, up, locals>>

\* Open, reserve and map the file; rebuild a new index log from its records.
CreateFileOpen(t) ==
  LET n == NextFile(t) IN
  /\ At(t, "open")
  /\ n \in FileId
  /\ linked' = linked \cup {n}
  /\ data' = IF n \in linked THEN data ELSE [data EXCEPT ![n] = Blank]
  /\ write_index' = [write_index EXCEPT ![n] = RebuildOffset(data'[n])]
  /\ index_log' = TRUE
  /\ Goto(t, "publish")
  /\ UNCHANGED <<files, active_file_id, open_files, locks, up, locals>>

\* Open() fails, before or after it has created the name: Append fails.
CreateFileFail(t) ==
  LET n == NextFile(t) IN
  /\ At(t, "open")
  /\ DiskMayFail
  /\ n \in FileId
  /\ linked' \in {linked, linked \cup {n}}
  /\ mu' = NoThread
  /\ Finish(t, "kIOError")
  /\ UNCHANGED <<data, files, shared, file_mu, up, entry, file_id, has_log, offset>>

\* MetadataManager::CreateFile.
MetadataCreateFile(n) == files' = files \cup {n}

\* The file is listed, whether or not the list could be synced, and active.
CreateFilePublish(t) ==
  LET n == NextFile(t) IN
  /\ At(t, "publish")
  /\ MetadataCreateFile(n)
  /\ active_file_id' = n
  /\ mu' = NoThread
  /\ Goto(t, "snapshot")
  /\ UNCHANGED <<data, linked, write_index, index_log, open_files, file_mu, up, locals>>

AppendStep(t) ==
  \/ AppendSnapshot(t)
  \/ AllocateOk(t)
  \/ AllocateFull(t)
  \/ AppendPack(t)
  \/ AppendPackNullLog(t)
  \/ RotateLost(t)
  \/ CreateFileBegin(t)
  \/ CreateFileOpen(t)
  \/ CreateFileFail(t)
  \/ CreateFilePublish(t)

-----------------------------------------------------------------------------
(***************************************************************************)
(* AcquireDataFile(id, file): the handle is that of file_id[t].            *)
(***************************************************************************)
AcquireCall(t, f) ==
  /\ At(t, "idle")
  /\ file_id' = [file_id EXCEPT ![t] = f]
  /\ Goto(t, "acquire")
  /\ UNCHANGED <<disk, shared, locks, up, entry, has_log, offset, status>>

\* Under mu_: the active file, or a handle of the cache.
AcquireHit(t) ==
  /\ At(t, "acquire")
  /\ mu = NoThread
  /\ file_id[t] = active_file_id \/ file_id[t] \in open_files
  /\ Finish(t, "kOk")
  /\ UNCHANGED <<disk, shared, locks, up, entry, file_id, has_log, offset>>

AcquireMiss(t) ==
  /\ At(t, "acquire")
  /\ mu = NoThread
  /\ file_id[t] # active_file_id
  /\ file_id[t] \notin open_files
  /\ Goto(t, "open_path")
  /\ UNCHANGED <<disk, shared, locks, up, locals>>

\* Outside mu_: open the file by its name.
AcquireOpen(t) ==
  /\ At(t, "open_path")
  /\ file_id[t] \in linked
  /\ Goto(t, "cache")
  /\ UNCHANGED <<disk, shared, locks, up, locals>>

AcquireOpenFail(t) ==
  /\ At(t, "open_path")
  /\ DiskMayFail \/ file_id[t] \notin linked
  /\ Finish(t, "kIOError")
  /\ UNCHANGED <<disk, shared, locks, up, entry, file_id, has_log, offset>>

(***************************************************************************)
(* Under mu_: open_files_.Put.  LRUCache::Evict returns at once while the  *)
(* cache has keys, so nothing is evicted.                                  *)
(***************************************************************************)
AcquireCache(t) ==
  /\ At(t, "cache")
  /\ mu = NoThread
  /\ open_files' = open_files \cup {file_id[t]}
  /\ Finish(t, "kOk")
  /\ UNCHANGED <<disk, write_index, active_file_id, index_log, locks, up,
                 entry, file_id, has_log, offset>>

AcquireStep(t) ==
  \/ AcquireHit(t)
  \/ AcquireMiss(t)
  \/ AcquireOpen(t)
  \/ AcquireOpenFail(t)
  \/ AcquireCache(t)

-----------------------------------------------------------------------------
(***************************************************************************)
(* RemoveFile(id).                                                         *)
(***************************************************************************)
RemoveCall(t, f) ==
  /\ At(t, "idle")
  /\ file_id' = [file_id EXCEPT ![t] = f]
  /\ Goto(t, "release")
  /\ UNCHANGED <<disk, shared, locks, up, entry, has_log, offset, status>>

\* ReleaseDataFile, under mu_.
RemoveRelease(t) ==
  /\ At(t, "release")
  /\ mu = NoThread
  /\ open_files' = open_files \ {file_id[t]}
  /\ Goto(t, "forget")
  /\ UNCHANGED <<disk, write_index, active_file_id, index_log, locks, up, locals>>

\* Bug: the metadata keeps the removed file.
RemoveMetadataSkipped(t) ==
  /\ At(t, "forget")
  /\ Goto(t, "unlink")
  /\ UNCHANGED <<disk, shared, locks, up, locals>>

\* MetadataManager::DeleteFile.
RemoveMetadata(t) ==
  /\ At(t, "forget")
  /\ files' = files \ {file_id[t]}
  /\ Goto(t, "unlink")
  /\ UNCHANGED <<data, linked, shared, locks, up, locals>>

\* The metadata log cannot be synced: RemoveFile gives up, the files stay.
RemoveMetadataFail(t) ==
  /\ At(t, "forget")
  /\ DiskMayFail
  /\ file_id[t] \in files
  /\ files' = files \ {file_id[t]}
  /\ Finish(t, "kIOError")
  /\ UNCHANGED <<data, linked, shared, locks, up, entry, file_id, has_log, offset>>

\* Unlink the data file and its index file; open handles stay usable.
RemoveUnlink(t) ==
  /\ At(t, "unlink")
  /\ linked' = linked \ {file_id[t]}
  /\ Finish(t, "kOk")
  /\ UNCHANGED <<data, files, shared, locks, up, entry, file_id, has_log, offset>>

RemoveStep(t) ==
  \/ RemoveRelease(t)
  \/ RemoveMetadata(t)
  \/ RemoveMetadataFail(t)
  \/ RemoveUnlink(t)

-----------------------------------------------------------------------------
\* The caller takes the result; the locals of the call are gone.
Reset(t) ==
  /\ Goto(t, "idle")
  /\ entry' = [entry EXCEPT ![t] = NoRecord]
  /\ file_id' = [file_id EXCEPT ![t] = 0]
  /\ has_log' = [has_log EXCEPT ![t] = FALSE]
  /\ offset' = [offset EXCEPT ![t] = 0]
  /\ status' = [status EXCEPT ![t] = "kOk"]

Return(t) ==
  /\ At(t, "returned")
  /\ Reset(t)
  /\ UNCHANGED <<disk, shared, locks, up>>

FMStep(t) == AppendStep(t) \/ AcquireStep(t) \/ RemoveStep(t)

\* A thread needs a data file beyond the model's last one.
AtHorizon ==
  \E t \in Threads : pc[t] \in {"rotate", "open"} /\ file_id[t] = MaxFile

\* Nothing more to do: the process has died, or the model has no more files.
Terminating ==
  /\ ~up \/ AtHorizon
  /\ UNCHANGED fmvars

(***************************************************************************)
(* Any caller: DBImpl acquires and removes files the metadata lists.       *)
(***************************************************************************)
FMCall(t) ==
  \/ "Append" \in Calls /\ \E e \in Entry : AppendCall(t, e)
  \/ "AcquireDataFile" \in Calls /\ \E f \in files : AcquireCall(t, f)
  \/ "RemoveFile" \in Calls /\ \E f \in files : RemoveCall(t, f)

FMNext ==
  \/ \E t \in Threads : FMCall(t) \/ FMStep(t) \/ Return(t)
  \/ Terminating

FMSpec == FMInit /\ [][FMNext]_fmvars

-----------------------------------------------------------------------------
RecordAt(f, o) == data[f][o] # NoRecord

EndOf(f, o) == o + SizeOf(data[f][o])

(***************************************************************************)
(* No two records of a file overlap, and none reaches past write_index_,   *)
(* however Allocate and Pack of several threads interleave and rotate.     *)
(***************************************************************************)
RecordsDisjoint ==
  \A f \in FileId : \A o \in Offset :
    RecordAt(f, o) =>
      /\ EndOf(f, o) <= write_index[f]
      /\ \A p \in Offset : RecordAt(f, p) /\ o < p => EndOf(f, o) <= p

(***************************************************************************)
(* A scan of a file that starts at offset 0 and steps from record to       *)
(* record (CreateFile's loop, RecordIterator) meets every record of it     *)
(* unless a thread is packing one at that moment.                          *)
(***************************************************************************)
ScanReachesEnd ==
  up => \A f \in FileId :
          file_mu[f] = NoThread => RebuildOffset(data[f]) = write_index[f]

(***************************************************************************)
(* The location Append returned holds the record it was given, also when   *)
(* the file was rotated away or removed before the caller looks.           *)
(***************************************************************************)
AppendStored ==
  \A t \in Threads :
    pc[t] = "returned" /\ entry[t] # NoRecord /\ status[t] = "kOk"
      => data[file_id[t]][offset[t]] = entry[t]

(***************************************************************************)
(* The metadata lists only files that exist: MetadataManager::CreateFile   *)
(* comes after the file is on disk, DeleteFile before it is unlinked.      *)
(* Recovery fails on a listed file it cannot open.                         *)
(***************************************************************************)
MetadataOnDisk == files \subseteq linked

(***************************************************************************)
(* At most one thread is creating a file, and it is the next file: the     *)
(* re-check of file_id under mu_ keeps two full appenders from both        *)
(* rotating.                                                               *)
(***************************************************************************)
OneRotation ==
  \A t \in Threads : pc[t] \in {"open", "publish"} => file_id[t] = active_file_id

-----------------------------------------------------------------------------
(***************************************************************************)
(* What makes the properties above inductive.                              *)
(***************************************************************************)
\* Which locals a line relies on.
LocalsInv ==
  \A t \in Threads :
    /\ pc[t] \in AppendLines => entry[t] \in Entry
    /\ pc[t] \in AcquireLines \cup RemoveLines \cup {"idle"} => entry[t] = NoRecord
    /\ pc[t] \in Lines \ {"idle", "snapshot", "returned"} => file_id[t] \in FileId
    /\ pc[t] = "returned" /\ entry[t] # NoRecord /\ status[t] = "kOk"
         => file_id[t] \in FileId /\ offset[t] \in Offset
    /\ pc[t] \in {"allocate", "rotate"} \cup RemoveLines => file_id[t] <= active_file_id

\* mu_ is held exactly by the thread inside CreateFile.
MuInv ==
  \A t \in Threads : pc[t] \in {"open", "publish"} => mu = t

\* Between Allocate and Pack a thread owns the end of its file.
PackInv ==
  up => \A t \in Threads : pc[t] = "pack" =>
          /\ file_mu[file_id[t]] = t
          /\ offset[t] + SizeOf(entry[t]) = write_index[file_id[t]]
          /\ \A o \in Offset :
               RecordAt(file_id[t], o) => EndOf(file_id[t], o) <= offset[t]

\* A file that was not active yet is blank.
FreshInv ==
  \A f \in FileId :
    f > active_file_id => data[f] = Blank /\ write_index[f] = 0

\* Where the file being created or removed stands on disk.
DiskInv ==
  /\ \A f \in files : f <= active_file_id
  /\ \A t \in Threads :
       /\ pc[t] = "publish" => NextFile(t) \in linked
       /\ pc[t] = "unlink" => file_id[t] \notin files

\* What is true of the file manager at every step: the inductive invariant.
FMInv ==
  /\ TypeOK
  /\ LocalsInv
  /\ MuInv
  /\ OneRotation
  /\ PackInv
  /\ FreshInv
  /\ DiskInv
  /\ RecordsDisjoint
  /\ AppendStored
  /\ MetadataOnDisk

-----------------------------------------------------------------------------
\* A record once written stays where it is (data files are append only).
AppendOnly ==
  [][\A f \in FileId : \A o \in Offset :
       RecordAt(f, o) => data'[f][o] = data[f][o]]_fmvars
=============================================================================
