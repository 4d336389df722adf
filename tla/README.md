# A verification model of pedrodb

pedrodb is an embedded key-value store of the BitCask kind: every write is a
record appended to the one active data file, an index in memory maps each key to
the location of its current record, a full file is sealed and a new one becomes
active, and compaction copies the live records of a file to the active file and
removes it. At start the index is rebuilt from the files. This directory holds
TLA+ models of that program, the TLC configurations that check them, and TLAPS
proofs of the properties that matter most.

## 1. Inventory

| Component | State | Operations | Hard because |
|---|---|---|---|
| `FileManager` (`src/src/file_manager.cc`, `file_manager.h`) | active file, its index log, cache of open files, data files | `Append`, `CreateFile`, `AcquireDataFile`, `ReleaseDataFile`, `RemoveFile`, `Sync`, `Flush`, `CreateIndexFile`, `SyncFile` | many threads append; the active file is used from a snapshot taken under a lock that is released; the steps of rotation may fail |
| `DBImpl` (`src/src/db_impl.cc`) | `indices_`, `file_states_`, `compact_tasks_`, `max_file_`, `readonly_` | `Put`, `Delete`, `Get`, `Compact`, `Flush`, `GetIterator`, two timers | the log and the index are updated in two separate steps; compaction and writers race; locations are used after the lock is released |
| Recovery (`DBImpl::Recovery`) | the same index and states | replay of every listed file | must agree with what the running database answered |
| `MetadataManager` | set of live files, a log on disk | `CreateFile`, `DeleteFile`, `Recovery` | must agree with the files on disk at every instant |
| `MappingReadWriteFile`, `PosixReadonlyFile` | write index, mutex, mapping | `Open`, `Allocate`, `Read`, `Sync` | handles outlive names |
| `RecordIterator`, record format | offset | `Valid`, `Next`, `Seek` | the boundary at the end of a file |
| `LRUCache`, `SegmentCache`, `ReadCache` | cached handles and blocks | `Get`, `Put`, `Remove`, `Evict`, `GetOrCompute` | capacity, stale blocks |
| `SegmentDB` | n databases | routing, parallel `Open`/`Compact`/`Flush` | latches |
| Index files | an index log per sealed file | written by the executor, read by recovery | background retry, crash between reserving and writing |
| Iterators, compression, logging, debugging | | | |

`DBImpl` calls `FileManager` (which calls `MetadataManager` and the file classes);
`DBImpl::mu_` is never held during `Append` or `AcquireDataFile`, and is held
during `RemoveFile`. The executor (one thread by default) runs the sync worker,
the compaction worker and the background jobs of the file manager.

What makes the parts right:

* file manager: records never overlap or leave holes, a returned location holds
  the record, only one rotation happens at a time, listed files exist;
* database: it is a linearizable map; the index points to stored records of its
  keys in files that exist; unused bytes are not over-counted; no file is
  compacted twice at a time; calls return and queued files are reclaimed;
* recovery: it finds the last value of every key, and the state of the database
  between operations is the one recovery would find;
* crashes: what was acknowledged is found again, and what was synced is on the
  device; index files say nothing that their data file does not;
* caches: the linked list stays whole, and a stale block is never served as a value;
* segments: together they are one map, and a call waits for all of them.

`PROJECT.json` lists the hazards behind these, each at its line.

## 2. Modules

* **`Records`**: records, sizes, locations and their order, the iterator's
  end-of-file test (`IterValid`), the scan of `CreateFile` (`RebuildOffset`). Keys
  and values are opaque; a file maps offsets to the records that start there, and
  `NoRecord` stands for zero bytes. Compression shows only in `SizeOf`.
* **`FileManager`**: one action per step between two lock operations. `pc[t]`
  names the line thread `t` is at: `snapshot`, `allocate`, `pack`, `rotate`, `open`,
  `publish` for `Append` with `CreateFile`; `acquire`, `open_path`, `cache` for
  `AcquireDataFile`; `release`, `forget`, `unlink` for `RemoveFile`. `mu` is
  `FileManager::mu_`, `file_mu[f]` the mutex of a data file. `data[f]` outlives
  `f`'s name, since open handles do. A failing `Open` (with or without leaving an
  empty file behind) and a metadata log that cannot be synced are actions; so is
  the null dereference of `Append` after a `CreateFile` that failed
  (`AppendPackNullLog`, which ends the process).
  `FMSpec` lets every thread make any of the `Calls`, and the theorems are about that;
  TLC checks the same properties under the calls that `DBImpl` makes.
* **`MemIndex`**: the values of `indices_`, `file_states_` and `compact_tasks_` after
  a put, a delete, a move by compaction and a replayed record; used by both
  `DBImpl` and `Recovery`.
* **`DBImpl`**: composes the two. `at[t]` is the handler a thread is in; while that
  handler waits for the file manager, the thread's steps are those of
  `FileManager`. A thread's `Ops` say whether it is a client, calls `Compact()`, or
  is the background worker. Critical sections of `DBImpl::mu_` are one step, except
  the end of `Compact`, which holds it (`db_mu`) during `RemoveFile`. A compaction
  reads a record without any lock (`CompactRead`; `next[t]` is what it has read) and
  takes `mu_` afterwards to see whether it is current (`CompactSkip`, `CompactMove`);
  what it appends is what it has read. The scan of the active file races with
  `Pack`: where header and key are there it reads the record with the value all or
  in part (`CompactTorn`; the constant `Torn` has the values that stand for a value
  read in part, which fail the checksum and which no client writes), otherwise it
  goes on somewhere ahead in the file (`CompactAstray`). The end of the loop
  (`CompactScanned`) and the lock for the removal (`CompactEnd`) are two steps, so a
  Put may append to the file in between.
* **`KVStore`**: the abstract specification, a map on which every operation takes
  effect at one instant between call and return. `DBImpl!Linearizable` is its
  specification under the mapping `AbstractStore`, `AbstractAns`: writes take effect
  at the index update, a `Get` at its lookup.
* **`Recovery`**: `DBImpl::Recovery` over an arbitrary log, one step per file opened
  and per record. `pos` is the iterator's position in the file; what has been
  replayed is a history variable that no guard reads, so a file or a record that is
  taken twice reaches the branch that ends the process.
* **`ReadCache`**: `DBImpl` with the read cache. A cached block is the set of the
  records that were in its file when it was filled; nothing ever replaces it. The
  block loop of `ReadCache::Get` is one step per block, a miss that opens the file
  holds the cache's mutex (`cache_mu`) across `AcquireDataFile`, and a record read
  from a block older than itself fails `Validate`. A `Read` of a block that fails or is
  short ends the Get with `kIOError` and caches nothing (`BlockReadFailed`). All blocks
  are in one segment of `SegmentCache`, so that readers meet on its mutex.
* **`Durability`**: `FileManager`'s appends with synchronous Puts, the sync worker, the
  jobs a rotation gives to the executor (`SyncFile`, `CreateIndexFile`), a crash at
  any step and the restart. `stable` is what `msync` has put on the device; the page
  cache outlives the process, so a crash keeps everything written and decides only
  whether a record that was being packed is there. An index file has a length (it
  is reserved first) and the offsets it lists (written second); its `Open` may fail
  before or after the reservation. `synced[t]` is the record of the last synchronous
  Put whose `Sync` succeeded, with the file that `Sync` took. A key has one
  writer, so that "its last acknowledged value" has a meaning; a synchronous thread
  only puts, since a Delete of an absent key returns before the sync.
* **`SegmentDB`**: n segments, the routing by hash, and `Open`, `Compact` and `Flush` as
  tasks on a shared executor with a latch on the caller's stack. Puts, Deletes and
  Gets of a segment take effect at one instant, as `DBImpl` was shown to do. Its
  Compact does not: a worker reads a current record (`MoveRead`), and later the index
  takes the copy or not (`MoveIndex`), whatever was written meanwhile, so a Put can be
  undone here as it is in `DBImpl`. `Init` of a segment may fail. The segments' own
  compaction timers are off.
* **`LRUCache`**: the cache pointer by pointer, with the heap its entries are on.
  **`RecencyList`** is its abstract specification: a map in the order of last use.
* **`MCDBImpl`, `MCReadCache`, `MCRecovery`, `MCDurability`,
  `MCSegmentDB`, `MCLRUCache`**: instances for TLC.
* **`FileManagerProofs`, `DBImplProofs`, `DurabilityProofs`, `RecoveryProofs`,
  `SegmentDBProofs`, `LRUCacheProofs`**: the theorems about the module each is named
  after. **`CompactionProofs`**: those about `DBImpl` that turn on compaction, and
  those about `ReadCache`. **`MemIndexProofs`**: the lemmas about the operators of
  `MemIndex` that the others share, with those about sums over finite sets; the
  lemmas about `Records` open `FileManagerProofs`.

Definitions marked `Bug:` are mistakes one could make in the code; each property
is known to be violated when the definition that follows is replaced by one of
them. They take part in no specification.

Composition: `DBImpl` extends `FileManager` and `MemIndex`, `ReadCache` extends
`DBImpl`, `Durability` extends `FileManager`, `SegmentDB` rests on what `DBImpl` was
shown to implement (`KVStore`) and not to (`db_lost_update`). `FileManager` and
`ReadCache` have a cache that drops nothing of itself, which is what `LRUCache` does:
`lru_capacity` shows that it goes beyond its capacity.

## 3. Runs

| Run | Checks | Shows |
|---|---|---|
| `db_linearizable` | `TypeOK`, `RecordsDisjoint`, `ScanReachesEnd`, `OneRotation`, `AppendStored`, `AppendOnly`, `Linearizable` | two clients on one key, records of two sizes, files filled to the last byte, rotation and IO errors, without compaction: the log the file manager keeps, and the map on top of it |
| `rc_readers` | `RestartKeepsValues`, `IndexedFilesListed`, `Linearizable` | one writer that also compacts, one reader through the read cache, IO errors, read-only mode |
| `db_compaction` | `MetadataOnDisk`, `FMInv`, `DBTypeOK`, `IndexSound`, `CountedIsDead`, `OneCompactionPerFile`, `QueuedIsReclaimed`, `CallsReturn` | writes, reads, explicit and background compaction, also of the file being written, torn reads, IO errors, read-only mode; safety and progress |
| `rec_replay` | `IndexIsLatest`, `NeverFatal`, `FreeIsDead`, `QueuedOnce`, `RecInv`, `RecoveryEnds` | recovery of every small log |
| `dur_crash` | `DurTypeOK`, `AckedOnDisk`, `IndexFileSound`, `SyncedIsStable`, `EventuallyStable` | a synchronous and an asynchronous writer, rotation, background jobs, IO errors, a crash and a restart |
| `segments` | `SegTypeOK`, `AllSegmentsRan`, `OpenIsReady`, `LatchOutlivesTasks`, `SegLinearizable`, `SegCallsReturn` | three segments, two workers, a thread that writes and compacts and one that reads; `Init` may fail |
| `lru_list` | `LRUTypeOK`, `ListSound`, `KeepsRecency` | every sequence of calls on three keys |

These pass. Five runs show where the code does not do what its documentation
says; TLC finds a counterexample in each, and `PROJECT.json` quotes the lines:

| Run | Property | What happens |
|---|---|---|
| `db_lost_update` | `Linearizable` | a Put is appended and indexed while compaction copies the old record of its key; the copy lies behind it in the log, so compaction's location test takes the copy for newer and undoes the Put |
| `db_tombstone` | `RestartKeepsDeletes` | compaction drops a tombstone while an older file still holds the value |
| `dur_index` | `RecoveryKeepsAcked` | the process dies after `CreateIndexFile` has reserved the index file and before it fills it; recovery believes the zeros |
| `dur_sync` | `SyncIsDurable` | a rotation between the append and the `Sync` of a synchronous Put: `Sync` takes the new file, and the Put returns `kOk` with its record not on the device |
| `lru_capacity` | `WithinCapacity` | `Evict` returns while the cache has entries, so the limit on open files is not kept |

Read together with the passing runs they draw the line: without compaction the
map is linearizable; with one writer, which also compacts, compaction is safe for
puts; deletes with compaction, or compaction beside a writer, are not. What
compaction beside a writer does keep is checked in `db_compaction`: the index points
to stored records of its keys (`IndexSound`, which says nothing of their values), no
byte is counted twice, no file is compacted twice, and all of it ends. The data
files keep every acknowledged write through a crash (`AckedOnDisk`); it is the
index files that lose them. A synchronous Put is on the device if `Sync` took the
file it was appended to (`SyncedIsStable`), whatever happens to that file later. The
order of use that `LRUCache` keeps is that of a cache which may drop its oldest
entries to make room (`KeepsRecency`); that it drops none is `lru_capacity`.

Further effects of the code that the models have and no run is kept for. The
first five are violations that TLC finds in `DBImpl` with the instance named:

* A compaction reads a record while it is being packed; the Put indexes it, the
  compaction finds it current, and what it had read, a torn value, is stored and
  indexed in its place. It is the gap of `db_lost_update` again: with `Torn = {g1}`
  there, `Linearizable` fails in this way, and so does `IndexValidates`.
* A compaction passes a record that is appended and not yet indexed, or that is
  appended between the end of its scan and its removal of the file; the Put then
  points the index into the removed file. `IndexedFilesListed` fails with a client
  that puts, the worker, and files of 13 units.
* Two concurrent Puts of one key may be ordered one way in the log and the other
  way in the index, so a restart changes the value: `RestartKeepsValues` fails with
  two writers of a key. Hence one writer in `rc_readers`.
* A Delete leaves the active file without current records; `Compact` has nothing to
  move and unlinks it, but it stays active, and what is written later is in a file
  no restart finds. `IndexedFilesListed` fails with one thread that puts, deletes and
  compacts. (Current records are copied ahead of the scan until the file rotates, so
  they are not lost.)
* A record that ends at the last byte of a file is stored but not returned by the
  iterator (`IterValid`): compaction does not move it and removes the file.
  `IndexedFilesListed` fails with files of 8 units and one thread that puts and
  compacts. Hence odd files in the runs with compaction.
* A `Get` may return `kIOError` when compaction removes the file it has just looked
  up, and `kCorruption` when it meets a stale block: compaction's appends do not
  advance `max_file_`, so a file that is still written is read into the cache. This
  is why `rc_readers` sets `GetMayFail` (a Get may lose its answer, never return a
  wrong one).
* A record appended to a file after its rotation is synced by nothing but a
  synchronous Put; `EventuallyStable` is about records of the active file. If the
  append falls between the two halves of `CreateIndexFile`, `Allocate` returns a null
  buffer and the copy ends the process (`WriteIndexFileNull`); if it falls before a
  retry of a job that has reserved its file, the retry never succeeds.
* An error of `Sync` is not reported to the caller of a synchronous Put.
* `DB::Flush` changes nothing: `MappingReadWriteFile::Flush` is empty.

### Bounds

Two threads, one or two keys and values, two to four files of two or three
records, and up to seven calls per client (`MaxCalls`, `MaxWrites`). That is enough
for two rotations, for a file that is partly live when it is compacted, for a
compaction of the active file, and for every order of the steps of two
operations. In `MCDBImpl` and `MCReadCache` sizes are even; files are odd where there
is compaction, and in `db_linearizable` two values fill one to its last byte, while a
tombstone may still fit where a value did not. A file of `db_compaction` has 13 units, three records of 4: a dead
record, a live one and its copy fit in it, so the copies of a compaction of the
active file land ahead of its own scan, which then comes to them; one value, `g1`,
stands for values read in part. A client of `db_compaction` makes three calls, which
is what it takes to queue a file beside a live record.
`MCDurability` has sizes 1 and 2, so that one thread's record fits where another's
did not, and files are filled to the last byte. In
`rc_readers` a file has three blocks and records cross block boundaries. One
restart (`MaxRestarts`) is enough for appends behind recovered records and for a
crash at every step before; after it the process may not crash again. `MaxFile` is
a horizon: a thread that needs a further file waits (`AtHorizon`), and the liveness
properties exempt that state. `segments` has three segments and two workers, so
that tasks queue behind those of another caller; its calls are not bounded; one of
its two threads writes, compacts and flushes and the other one reads.
`lru_list` and `lru_capacity` have more keys than the capacity and one address more
than keys, so that addresses are reused; capacity zero is the other case.
No symmetry is used. `threshold_bytes` is small so that compaction is triggered by one or two
stale records.

### Fairness

`DBLiveSpec` has weak fairness of `Continues(t)`: a thread that is inside a call keeps
running, and the executor's thread runs its timers. Clients need not call anything.
Mutexes need no fairness of their own here: a thread waits only for critical
sections that end, and the number of calls is bounded. Where the disk fails, a
compaction that is cut short leaves its file `Abandoned` (hazard at
`db_impl.cc:176`), which `QueuedIsReclaimed` exempts. `RecLiveSpec` has weak fairness of the single thread
that recovers. `DurLiveSpec` has weak fairness of appends in progress, of the sync
worker's tick and of the executor's `SyncFile`: timers fire, and the executor retries a
sync that failed until it succeeds. `SegLiveSpec` has weak fairness of every worker
of the executor and of a caller between two tasks it schedules; the executor's
queue is first in, first out, and with that a busy caller cannot starve another.

## 4. Proofs

Everything here holds for all values of the constants: any number of threads,
keys, values, files, segments and workers, every file length and record size,
any number of calls, crashes and restarts. The passing runs of section 3 check each
of the properties on a small instance, except `IndexValidates`, which fails
without the hypothesis of its theorem (section 3).

| Module | Theorem | Property |
|---|---|---|
| `FileManagerProofs` | `Invariance`, `TypeCorrect` | `FMInv`, `TypeOK` |
| | `DisjointRecords`, `StoredRecords`, `ListedFilesExist`, `SingleRotation` | `RecordsDisjoint`, `AppendStored`, `MetadataOnDisk`, `OneRotation` |
| | `ScansAreComplete` | `ScanReachesEnd` |
| | `AppendOnlyLog` | `AppendOnly` (no step changes a written record) |
| `DBImplProofs` | `DBInvariance`, `DBTypeCorrect` | `DBInv`, `DBTypeOK` |
| | `IndexIsSound`, `CompactionIsExclusive` | `IndexSound`, `OneCompactionPerFile`, whatever compactions read beside `Pack` |
| | `FilesUnderDB` | what the file manager promises, under `DBImpl`'s calls |
| `CompactionProofs` | `LinearizableMap` | `Linearizable` of `DBImpl`, if a thread that compacts is the only one that writes or compacts |
| | `LinearizableWithCache`, `RCInvariance` | `Linearizable` and `DBInv` of `ReadCache`, under the same hypothesis the first, under none the second |
| | `IndexStaysWhole` | `IndexValidates`, under the same hypothesis |
| | `UnusedIsDead` | `CountedIsDead` |
| | `RestartFindsValues`, `IndexedFilesStay` | `RestartKeepsValues`, `IndexedFilesListed`, with one thread that writes |
| `DurabilityProofs` | `DurInvariance`, `DurTypeCorrect` | `DurInv`, `DurTypeOK` |
| | `AcknowledgedIsOnDisk`, `IndexFilesAreSound`, `SyncReachesDevice` | `AckedOnDisk`, `IndexFileSound`, `SyncedIsStable` |
| `RecoveryProofs` | `RecoveryInvariance`, `RecoversLatest`, `RecoveryNeverFatal`, `RecoveryQueuesOnce`, `RecoveryCountsUnused` | `RecInv`, `IndexIsLatest`, `NeverFatal`, `QueuedOnce`, `FreeIsDead` |
| `SegmentDBProofs` | `SegmentsImplementMap` | `SegLinearizable` (refinement of `KVStore`), if a thread that compacts is the only one that writes or compacts |
| | `SegTypeCorrect`, `CallsWaitForAll`, `TasksDieBeforeLatch` | `SegTypeOK`, `AllSegmentsRan`, `LatchOutlivesTasks` |
| | `OpenWaitsForInit` | `OpenIsReady` |
| `LRUCacheProofs` | `LRUTypeCorrect`, `ListStaysSound` | `LRUTypeOK`, `ListSound` |

### The arguments

**File manager.** `RecordsDisjoint` alone is not inductive. `FMInv` adds: between
`Allocate` and `Pack` a thread holds its file's mutex and owns exactly the last
bytes before `write_index`, with every record before them (`PackInv`); the thread
that creates a file holds `mu_` (`MuInv`), with `file_id` still the active file
(`OneRotation`); files beyond the active one are blank, so rebuilding a new file
finds nothing and resets nothing (`FreshInv`); a file about to be published is on
disk and one about to be unlinked is not listed (`DiskInv`); and which locals a
line relies on (`LocalsInv`). There is one lemma per group of actions (`CallInv`,
`AppendInv`, `AcquireInv`, `RemoveInv`), one step per action in it, and one per
conjunct the action can disturb.

`ScanReachesEnd` is about the loop of `CreateFile`, a recursion over offsets. The
proof replaces the recursion by a local condition: `Chained(d, w)` says that the
first record is at 0 and that each record ends at `w` or where another one starts.
`FileManagerProofs` shows once that the loop stops at `w` on such a file
(`RebuildChained`): there is a least offset from which it does not, and the record
there leads to a smaller counterexample or none (`LeastNumber`, `GreatestNumber`).
`ChainOver` then says that a file nobody packs in is chained up to its
`write_index_`, and a file in which a thread packs up to the offset that thread
was given; `Allocate` and `Pack` move from the one to the other.

**Database.** `DBInv` extends `FMInv` with: the type invariant; which call of the file
manager a handler waits for, and with which entry (`HandlerInv`); that the index
points to stored records of its keys and sizes (`IndexInv`), which is preserved because
records never change (`StepKeepsRecords`) and because an entry that `Append` reported
is stored (`AppendStored`); that what a
compaction has read, torn or not, is a record that ends before the file does, so that
its copy can be stored like any other; that a `Get` that has looked up a location still points to a
record of its key (`RequestInv`), which is why removal of the file does not matter
to it; `OneCompactionPerFile` with the owner of `DBImpl::mu_` (`CompactInv`): while a
thread is removing its file, `file_states_` has already forgotten that file, and
only the mutex keeps another thread from queueing it again. `MemIndexProofs` has
what each update does to the queue (`UpdateUnusedQueue`, `PollQueue`, `MarkHints`,
`EraseHints`); `std::sort` is any ordered permutation (`SortedFiles`).

**Linearizability.** `LinearizableMap` assumes `CompactsAlone` (every thread but the
one that compacts only reads; where nothing compacts, any number may write) and
`GetMayFail`. Neither can be left out: a compaction can undo a Put made meanwhile
(run `db_lost_update`), and a Get may fail on a disk that fails, when compaction
removes the file it has looked up, or on a record that ends at the last byte of its
file. The refinement maps the store to what the index points to in the data files.
A write changes it when the index takes the location; `IndexInv` gives that the
record found there has the value of the request, and append-only data that no
other step changes it (`StoreKept`). Moving a record must not change it either. That
is `AloneInv`: what the compaction has read is the record of the file, since nobody
packs beside it (`NobodyPacks`), and from the check that finds it current until the
index takes the copy, the index has that record or one equal to it (`HasCopy`),
because no other thread touches the index; so whichever way the location test of
`CompactUpdate` goes, the value of the key stays (`MoveRefines`). The same invariant
gives `IndexStaysWhole`: no record is ever stored or appended with a torn value
(`CleanInv`). Beside another writer it is not so (section 3).

With the read cache (`LinearizableWithCache`) a Get takes effect at its lookup as
well. `DBInv` does not mention the blocks, and every step of a cached Get leaves the
files and the index alone (`CachedKeeps`); a stale block can only turn the answer
into `kCorruption`, since the record itself never changes after it is packed.

**Unused bytes.** `CountedIsDead` is not inductive: a record is counted as unused
when the index lets go of it or refuses it, and a record that has been appended but
not yet indexed is not current either. `CountInv` says that such a record is held by
exactly one thread and is not indexed (`HeldInv`), and that a file is charged at most
with its records that are neither current nor held (`ChargeInv`). An index update
lets go of one such record, and charges its size once (`GiveUp`). The sum over a set
of records is a fold of the library. `MemIndexProofs` shows that it is a natural
number, that one more element adds its size and that it grows with the set: were
there a set on which it is not defined, there would be one of least cardinality
(`SumsExist`), which removes the need for an induction schema. `RecoveryCountsUnused`
uses the same lemmas; there a replayed record kills exactly one record, or itself,
and is charged exactly (`ReplayFree`).

**Restart.** Recovery takes the last record of every key in the listed files, so the
index must have it as well. `RestartFindsValues` and `IndexedFilesStay` are about
`ReadCache` with any number of readers and assume `Mutator(w)`: thread w alone writes
and compacts, and it does not delete where it compacts. Two writers may enter the
log and the index in different orders, and a compaction that drops a tombstone
brings a value back (`db_tombstone`) or removes the active file when a Delete has left
no current record in it (section 3). They also assume that, where w compacts, no record
ends at the last byte of its file (`NoneMissed`), since compaction would not see it.
`RestartInv(w)` has: the index has the last of the records it has seen, or the last
one is a tombstone in a listed file (`SeenInv`, `TombInv`); w appends to the last
file, behind every record (`WriterInv`), so that what it hands to the index is the
last one; the compaction has passed no record that the index has, except the one it
is moving, and stands at the end of a record (`ScanInv`), so that with `ChainOver` it
ends behind all records (`ScanEnds`) and the file it removes has none that is current
(`RemovalInv`); and the active file, if it has records at all, has a current one
(`ActiveInv`), so that it is not the one removed. There is one lemma per action of w;
steps of the readers leave all of it alone (`Still`).

**Durability.** `DurInv` has `FMInv` and: no file is ever removed (`FilesInv`); every
file is chained up to some end (`Whole`), which is `write_index_` in the files that
are or will be written (`DurChain`; in an older file a crash may have left
`write_index_` behind a record that was lost); what `HandlePut` knows at each line
(`PutOK`); that the records of a key get ascending locations (`OrderOK`), since one
thread writes it and a snapshot of the active file never goes back; and that the
last record of a key has the acknowledged value or one in flight (`KeyInv`); and that
the file `Sync` takes is not an earlier one than that of the record (which gives
`SyncedIsStable`: it is the same, and its records are put on the device, or a later
one). The
lemmas about `Landed(T)` treat a `Pack` (one record lands) and a crash (those of
any set of packing threads land, the others are lost) alike. `AckedOnDisk` follows
because a scan from offset 0 meets every record of a chained file (`ScannedAll`).

**Recovery.** `RecInv`'s extra part `OrderInv` says that records are replayed in the
order of their locations: everything replayed lies before everything still to
come, since the iterator stands behind what it has given out and files are taken in
ascending order. With it, no record is met that the index has already (`NeverFatal`).
`QueueInv` says that `compact_state` is `kQueued` exactly for the files with
unused records and enough unused bytes, and that the queue lists these once; the
first half needs that a file gets unused bytes exactly when it gets a dead record
(`ReplayDeadFiles`).

**Segments.** The refinement maps the store to "the value of a key in the segment
`GetDB` names"; it needs that `GetDB` names a segment (`GetDBIsSegment`, from n > 0)
and that a write in that segment changes no other key of the whole
(`StoreInWhole`); `ClientStep` shows action by action that a client's step is the
step of the same name of `KVStore`. A copy that `Compact` has read is still the value
of its key when the index takes it (`CopyStaysCurrent`): the caller of that Compact
waits for it, and `CompactsAlone` leaves no other thread to write (`NoWriteBesideCopy`,
from `MoveInvariance`). `OpenInv` says that only the opener runs `Init`, and that what
has run it is no longer as it was created; with `CallsWaitForAll` every segment is
ready or failed when Open looks at the results. For the latches, `LatchInv` says that a latch's
count is the number of segments the call has still to see through, those not yet
scheduled and those whose task is queued or with a worker, that there is at most
one task for a call and a segment, and that what is not unfinished has run.

**LRU cache.** `ListSound` with the type invariant is inductive. It says that the
entries are one ring through the sentinel: the links of both directions are
inverse to each other, and every set of links that holds the sentinel and is
closed under `next` is the whole list (nothing is cut off; this takes the place of
a recursive walk). `UnlinkRing`, `LinkRing` and `FreeRing` are the
three groups of pointer assignments. `NoVictims` is where `Evict` is shown to do
nothing: it evicts only if there are no keys, and then the list is empty.

### Assumptions

Only those on the constants, which TLC evaluates in the runs of their modules: positive sizes
and a positive file length; `NoRecord`, `NoThread`, `NoDir`, `NoLoc`, `NoTask`, `Idle`, `Null`
and `Empty` different from what they stand beside; the logs of `Recovery` well
formed; at least one segment; in `Durability` one writer per key and synchronous
threads that only put; in `LRUCache` finitely many keys and more addresses than
keys, so that an allocation succeeds; in `DBImpl` clients write none of the values in
`Torn`. `LinearizableMap` and `LinearizableWithCache` have the hypotheses `CompactsAlone`
and `GetMayFail`, `IndexStaysWhole` and `SegmentsImplementMap` have `CompactsAlone`;
`RestartFindsValues` and `IndexedFilesStay` have `Mutator(w)` and `[]NoneMissed(w)`. The
instance of `rc_readers` satisfies all of them, that of `segments` the one of its
theorem.

### Only model-checked

* All liveness: `QueuedIsReclaimed`, `CallsReturn`, `RecoveryEnds`, `EventuallyStable`,
  `SegCallsReturn`.
* `KeepsRecency`: its mapping is a walk along the list, a recursion over data.

Every other property of the passing runs is a theorem.

## 5. Not modelled, and the plan

Not modelled: the bytes of records, of index entries and of the metadata log, so
neither a record torn inside its header or key nor a torn log entry (a record
whose value is torn counts as there: recovery takes it without checking its
checksum, in place of an acknowledged value, and `Get` then returns `kCorruption`); compression, logging and the debugging helpers (data
transformation and output); the file classes the database does not use; the
executor's own code, which is not in the repository; the test programs; power
failure, after which the device may hold any part of what was not synced. The
iterators over the database copy the index and read files without changing
anything; they do not seek to the record of a key, so there is no promise of
theirs to state. `Durability` has no compaction: removing a file and its index file
while jobs for it are pending is left out.

What would come next:

1. `RemoveFile` and its index file in `Durability`, with the jobs that may be pending
   for the file, and `AckedOnDisk` again with compaction.
2. `RestartKeepsValues` without compaction for one writer per key in place of one
   writer, from the order of a key's locations that `DurabilityProofs` uses.
3. `KeepsRecency`, if the walk can be replaced by an order on the entries, as
   `ListSound` does for the ring.
