-------------------------- MODULE DurabilityProofs --------------------------
(***************************************************************************)
(* Proofs about Durability, for any number of writers, keys, files, record *)
(* sizes, crashes and restarts: what was acknowledged is on disk wherever  *)
(* the process is killed, index files list what their data files hold, and *)
(* a synchronous Put that synced its own file is on the device.            *)
(***************************************************************************)
EXTENDS Durability, FileManagerProofs, FiniteSetTheorems

\* No file is ever removed, and the active file is the last one.
FilesInv == files = 1 .. active_file_id

\* In every file the records stand one behind the other, up to some end.
Whole ==
  \A f \in FileId : \E w \in 0 .. kMaxFileBytes : Chained(data[f], w)

(***************************************************************************)
(* write_index_ is that end in every file that is, or will be, written.    *)
(* (In an older file a crash may have left it behind a lost record.)       *)
(***************************************************************************)
WritableIn(S) ==
  /\ \A f \in FileId : f >= active_file_id => f \in S
  /\ \A t \in Threads : pc[t] = "allocate" => file_id[t] \in S

DurChain == \E S \in SUBSET FileId : WritableIn(S) /\ ChainOver(S)

\* What HandlePut knows at each of its lines.
PutOK(t) ==
  /\ at[t] = "idle" => pc[t] = "idle"
  /\ at[t] # "idle" =>
       /\ pc[t] \in AppendLines \cup {"returned"}
       /\ entry[t] \in WritesOf[t]
       /\ entry[t].value \in unacked[entry[t].key]
  /\ at[t] \in {"sync", "msync"} => pc[t] = "returned" /\ status[t] = "kOk"
  /\ at[t] = "msync" => file_id[t] <= target[t] /\ target[t] <= active_file_id

\* In the data files D, a record of key k starts at offset o of file f.
KeyAt(D, k, f, o) == D[f][o] # NoRecord /\ D[f][o].key = k

\* No record of key k is behind offset o of file f.
NoneAfter(D, k, f, o) ==
  \A g \in FileId, p \in Offset : KeyAt(D, k, g, p) => g < f \/ (g = f /\ p <= o)

\* The records of a key get ascending locations: its thread writes the next
\* one to no earlier file, and behind all others of that file.
OrderOK(t) ==
  /\ pc[t] \in {"allocate", "pack"} =>
       \A g \in FileId, p \in Offset : KeyAt(data, entry[t].key, g, p) => g <= file_id[t]
  /\ pc[t] = "returned" /\ entry[t] # NoRecord /\ status[t] = "kOk" =>
       NoneAfter(data, entry[t].key, file_id[t], offset[t])

\* V are the values that the last record of key k in D may have.
LastIn(D, k, V) ==
  \/ Empty \in V /\ \A f \in FileId, o \in Offset : ~KeyAt(D, k, f, o)
  \/ \E f \in FileId, o \in Offset :
       KeyAt(D, k, f, o) /\ NoneAfter(D, k, f, o) /\ D[f][o].value \in V

KeyInv == \A k \in Keys : LastIn(data, k, {acked[k]} \cup unacked[k])

\* The inductive invariant of Durability.
DurInv ==
  /\ FMInv /\ DurTypeOK /\ FilesInv /\ Whole /\ DurChain
  /\ (\A t \in Threads : PutOK(t)) /\ (\A t \in Threads : OrderOK(t)) /\ KeyInv
  /\ IndexFileSound /\ SyncedIsStable

-----------------------------------------------------------------------------
(***************************************************************************)
(* Records land in the data files: that of the thread that packs it, and   *)
(* in a crash those of any of the threads that were packing.               *)
(***************************************************************************)
Landed(T) ==
  /\ data' \in [FileId -> Contents]
  /\ \A t \in T : t \in Threads /\ pc[t] = "pack" /\ data'[file_id[t]][offset[t]] = entry[t]
  /\ \A f \in FileId, o \in Offset :
       data'[f][o] = data[f][o] \/ \E t \in T : file_id[t] = f /\ offset[t] = o

\* A thread that packs is alone in its file, behind all its records.
LEMMA Packer ==
  ASSUME FMInv, up, NEW t \in Threads, pc[t] = "pack"
  PROVE  /\ file_id[t] \in FileId /\ offset[t] \in Offset /\ entry[t] \in Entry
         /\ file_id[t] <= active_file_id
         /\ offset[t] + SizeOf(entry[t]) = write_index[file_id[t]]
         /\ \A u \in Threads : pc[u] = "pack" /\ file_id[u] = file_id[t] => u = t
         /\ \A o \in Offset : data[file_id[t]][o] # NoRecord =>
              o < offset[t] /\ o + SizeOf(data[file_id[t]][o]) <= offset[t]
<1>1. /\ file_id[t] \in FileId /\ offset[t] \in Offset /\ entry[t] \in Entry
      /\ file_id[t] <= active_file_id
      /\ offset[t] + SizeOf(entry[t]) = write_index[file_id[t]]
  BY PackFacts
<1>2. \A u \in Threads : pc[u] = "pack" => file_mu[file_id[u]] = u
  BY DEF FMInv, PackInv
<1>3. ASSUME NEW o \in Offset, data[file_id[t]][o] # NoRecord
      PROVE  o < offset[t] /\ o + SizeOf(data[file_id[t]][o]) <= offset[t]
  <2>1. o + SizeOf(data[file_id[t]][o]) <= offset[t]
    BY <1>3 DEF FMInv, PackInv, RecordAt, EndOf
  <2>2. data[file_id[t]][o] \in Entry
    BY <1>1, <1>3 DEF FMInv, TypeOK, Contents
  <2> QED
    BY <1>1, <2>1, <2>2, SizePositive DEF Offset
<1> QED
  BY <1>1, <1>2, <1>3

LEMMA LandedKeeps ==
  ASSUME FMInv, up, NEW T, Landed(T)
  PROVE  \A f \in FileId, o \in Offset : data[f][o] # NoRecord => data'[f][o] = data[f][o]
<1> SUFFICES ASSUME NEW f \in FileId, NEW o \in Offset, data[f][o] # NoRecord,
                    data'[f][o] # data[f][o]
             PROVE  FALSE
  OBVIOUS
<1>1. PICK t \in T : file_id[t] = f /\ offset[t] = o
  BY DEF Landed
<1>2. t \in Threads /\ pc[t] = "pack"
  BY DEF Landed
<1>3. o < offset[t]
  BY <1>1, <1>2, Packer
<1> QED
  BY <1>1, <1>3 DEF Offset

\* A file in which no record lands is unchanged; the others grow by one record.
LEMMA LandedFile ==
  ASSUME FMInv, up, NEW T, Landed(T), NEW f \in FileId
  PROVE  \/ data'[f] = data[f]
         \/ \E t \in T : file_id[t] = f /\ data'[f] = [data[f] EXCEPT ![offset[t]] = entry[t]]
<1>1. data[f] \in Contents /\ data'[f] \in Contents
  BY DEF FMInv, TypeOK, Landed
<1>2. CASE \E t \in T : file_id[t] = f
  <2>1. PICK t \in T : file_id[t] = f
    BY <1>2
  <2>2. t \in Threads /\ pc[t] = "pack" /\ data'[f][offset[t]] = entry[t]
    BY <2>1 DEF Landed
  <2>3. \A u \in T : file_id[u] = f => u = t
    BY <2>1, <2>2, Packer DEF Landed
  <2>4. \A o \in Offset : o # offset[t] => data'[f][o] = data[f][o]
    BY <2>3 DEF Landed
  <2>5. data'[f] = [data[f] EXCEPT ![offset[t]] = entry[t]]
    BY <1>1, <2>2, <2>4 DEF Contents
  <2> QED
    BY <2>1, <2>5
<1>3. CASE ~\E t \in T : file_id[t] = f
  <2>1. \A o \in Offset : data'[f][o] = data[f][o]
    BY <1>3 DEF Landed
  <2> QED
    BY <1>1, <2>1 DEF Contents
<1> QED
  BY <1>2, <1>3

LEMMA LandedWhole ==
  ASSUME FMInv, up, Whole, NEW S, ChainOver(S), NEW T, Landed(T)
  PROVE  Whole'
<1> SUFFICES ASSUME NEW f \in FileId
             PROVE  \E w \in 0 .. kMaxFileBytes : Chained(data'[f], w)
  BY DEF Whole
<1>1. CASE data'[f] = data[f]
  BY <1>1 DEF Whole
<1>2. CASE \E t \in T : file_id[t] = f /\ data'[f] = [data[f] EXCEPT ![offset[t]] = entry[t]]
  <2>1. PICK t \in T : file_id[t] = f /\ data'[f] = [data[f] EXCEPT ![offset[t]] = entry[t]]
    BY <1>2
  <2>2. t \in Threads /\ pc[t] = "pack"
    BY DEF Landed
  <2>3. /\ offset[t] \in Offset /\ entry[t] \in Entry
        /\ offset[t] + SizeOf(entry[t]) = write_index[f]
    BY <2>1, <2>2, Packer
  <2>4. data[f] \in Contents /\ write_index[f] \in 0 .. kMaxFileBytes
    BY DEF FMInv, TypeOK
  <2>5. Chained(data[f], offset[t])
    BY <2>1, <2>2 DEF ChainOver
  <2>6. Chained([data[f] EXCEPT ![offset[t]] = entry[t]], offset[t] + SizeOf(entry[t]))
    BY <2>3, <2>4, <2>5, ChainExtend
  <2> QED
    BY <2>1, <2>3, <2>4, <2>6
<1> QED
  BY <1>1, <1>2, LandedFile

\* An index file that lists a record lists all that are before it.
LEMMA LandedIndex ==
  ASSUME FMInv, up, IndexFileSound, NEW T, Landed(T), index_file' = index_file
  PROVE  IndexFileSound'
<1> SUFFICES ASSUME NEW f \in FileId
             PROVE  /\ index_file[f].listed \subseteq Offsets(f)'
                    /\ \A o \in index_file[f].listed : \A p \in Offsets(f)' :
                         p < o => p \in index_file[f].listed
  BY DEF IndexFileSound
<1>1. index_file[f].listed \subseteq Offsets(f)
  BY DEF IndexFileSound
<1>2. Offsets(f) \subseteq Offsets(f)'
  BY LandedKeeps DEF Offsets, RecordAt
<1>3. ASSUME NEW o \in index_file[f].listed, NEW p \in Offsets(f)', p < o
      PROVE  p \in index_file[f].listed
  <2>1. CASE p \in Offsets(f)
    BY <1>3, <2>1 DEF IndexFileSound
  <2>2. CASE p \notin Offsets(f)
    <3>1. p \in Offset /\ data'[f][p] # data[f][p]
      BY <1>3, <2>2 DEF Offsets, RecordAt
    <3>2. PICK t \in T : file_id[t] = f /\ offset[t] = p
      BY <3>1 DEF Landed
    <3>3. t \in Threads /\ pc[t] = "pack"
      BY DEF Landed
    <3>4. o \in Offset /\ data[f][o] # NoRecord
      BY <1>1 DEF Offsets, RecordAt
    <3>5. o < p
      BY <3>2, <3>3, <3>4, Packer
    <3> QED
      BY <1>3, <3>1, <3>4, <3>5 DEF Offset
  <2> QED
    BY <2>1, <2>2
<1> QED
  BY <1>1, <1>2, <1>3

-----------------------------------------------------------------------------
(***************************************************************************)
(* The order of the records of a key.                                      *)
(***************************************************************************)
\* A thread that is in a Put owns the key it writes.
LEMMA Owner ==
  ASSUME \A t \in Threads : PutOK(t), NEW t \in Threads, NEW u \in Threads,
         pc[t] # "idle", pc[u] # "idle", entry[t].key = entry[u].key
  PROVE  t = u
<1>1. entry[t] \in WritesOf[t] /\ entry[u] \in WritesOf[u]
  BY DEF PutOK
<1> QED
  BY <1>1, DurAssumption

LEMMA LandedKey ==
  ASSUME NEW T, Landed(T), NEW k, NEW f \in FileId, NEW o \in Offset, KeyAt(data', k, f, o)
  PROVE  \/ KeyAt(data, k, f, o)
         \/ \E t \in T : file_id[t] = f /\ offset[t] = o /\ entry[t].key = k
BY DEF Landed, KeyAt

\* The record that lands is the last of its key.
LEMMA LandedLast ==
  ASSUME FMInv, up, \A t \in Threads : PutOK(t), \A t \in Threads : OrderOK(t),
         NEW T, Landed(T), NEW t \in T
  PROVE  /\ KeyAt(data', entry[t].key, file_id[t], offset[t])
         /\ NoneAfter(data', entry[t].key, file_id[t], offset[t])
<1>1. t \in Threads /\ pc[t] = "pack" /\ data'[file_id[t]][offset[t]] = entry[t]
  BY DEF Landed
<1>2. file_id[t] \in FileId /\ offset[t] \in Offset /\ entry[t] \in Entry
  BY <1>1, Packer
<1>3. KeyAt(data', entry[t].key, file_id[t], offset[t])
  BY <1>1, <1>2, HoleAssumption DEF KeyAt
<1>4. ASSUME NEW g \in FileId, NEW p \in Offset, KeyAt(data', entry[t].key, g, p)
      PROVE  g < file_id[t] \/ (g = file_id[t] /\ p <= offset[t])
  <2>1. CASE KeyAt(data, entry[t].key, g, p)
    <3>1. g <= file_id[t] /\ data[g][p] # NoRecord
      BY <1>1, <2>1 DEF OrderOK, KeyAt
    <3>2. g = file_id[t] => p < offset[t]
      BY <1>1, <3>1, Packer
    <3> QED
      BY <1>2, <3>1, <3>2, MaxFileAssumption DEF FileId, Offset
  <2>2. CASE \E u \in T : file_id[u] = g /\ offset[u] = p /\ entry[u].key = entry[t].key
    <3>1. PICK u \in T : file_id[u] = g /\ offset[u] = p /\ entry[u].key = entry[t].key
      BY <2>2
    <3>2. u \in Threads /\ pc[u] = "pack"
      BY DEF Landed
    <3>3. u = t
      BY <1>1, <3>1, <3>2, Owner
    <3> QED
      BY <1>2, <3>1, <3>3 DEF Offset
  <2> QED
    BY <1>4, <2>1, <2>2, LandedKey
<1> QED
  BY <1>3, <1>4 DEF NoneAfter

LEMMA LandedKeyInv ==
  ASSUME FMInv, up, \A t \in Threads : PutOK(t), \A t \in Threads : OrderOK(t), KeyInv,
         NEW T, Landed(T), UNCHANGED <<acked, unacked>>
  PROVE  KeyInv'
<1> SUFFICES ASSUME NEW k \in Keys
             PROVE  LastIn(data', k, {acked[k]} \cup unacked[k])
  BY DEF KeyInv
<1>1. CASE \E t \in T : entry[t].key = k
  <2>1. PICK t \in T : entry[t].key = k
    BY <1>1
  <2>2. /\ t \in Threads /\ pc[t] = "pack" /\ data'[file_id[t]][offset[t]] = entry[t]
        /\ entry[t].value \in unacked[k]
    BY <2>1 DEF Landed, PutOK
  <2>3. file_id[t] \in FileId /\ offset[t] \in Offset
    BY <2>2, Packer
  <2> QED
    BY <2>1, <2>2, <2>3, LandedLast DEF LastIn
<1>2. CASE ~\E t \in T : entry[t].key = k
  <2>1. \A f \in FileId, o \in Offset : KeyAt(data', k, f, o) => KeyAt(data, k, f, o)
    BY <1>2, LandedKey
  <2>2. \A f \in FileId, o \in Offset :
          KeyAt(data, k, f, o) => KeyAt(data', k, f, o) /\ data'[f][o] = data[f][o]
    BY LandedKeeps DEF KeyAt
  <2>3. LastIn(data, k, {acked[k]} \cup unacked[k])
    BY DEF KeyInv
  <2>4. CASE \A f \in FileId, o \in Offset : ~KeyAt(data, k, f, o)
    BY <2>1, <2>3, <2>4 DEF LastIn
  <2>5. CASE \E f \in FileId, o \in Offset : KeyAt(data, k, f, o)
    <3>1. PICK f \in FileId, o \in Offset :
            /\ KeyAt(data, k, f, o) /\ NoneAfter(data, k, f, o)
            /\ data[f][o].value \in {acked[k]} \cup unacked[k]
      BY <2>3, <2>5 DEF LastIn
    <3>2. NoneAfter(data', k, f, o)
      BY <2>1, <3>1 DEF NoneAfter
    <3> QED
      BY <2>2, <3>1, <3>2 DEF LastIn
  <2> QED
    BY <2>4, <2>5
<1> QED
  BY <1>1, <1>2

\* What the locals of a Put say stays true of a thread that stays where it is.
LEMMA LandedOrder ==
  ASSUME FMInv, up, \A t \in Threads : PutOK(t), \A t \in Threads : OrderOK(t),
         NEW T, Landed(T), NEW u \in Threads, pc'[u] = pc[u], entry'[u] = entry[u],
         file_id'[u] = file_id[u], offset'[u] = offset[u], status'[u] = status[u]
  PROVE  OrderOK(u)'
<1>1. ASSUME NEW g \in FileId, NEW p \in Offset, KeyAt(data', entry[u].key, g, p),
             pc[u] # "idle"
      PROVE  \/ KeyAt(data, entry[u].key, g, p)
             \/ pc[u] = "pack" /\ file_id[u] = g
  <2>1. CASE \E t \in T : file_id[t] = g /\ offset[t] = p /\ entry[t].key = entry[u].key
    <3>1. PICK t \in T : file_id[t] = g /\ offset[t] = p /\ entry[t].key = entry[u].key
      BY <2>1
    <3>2. t \in Threads /\ pc[t] = "pack"
      BY DEF Landed
    <3>3. t = u
      BY <1>1, <3>1, <3>2, Owner
    <3> QED
      BY <3>1, <3>2, <3>3
  <2> QED
    BY <1>1, <2>1, LandedKey
<1>2. ASSUME pc[u] \in {"allocate", "pack"}, NEW g \in FileId, NEW p \in Offset,
             KeyAt(data', entry[u].key, g, p)
      PROVE  g <= file_id[u]
  BY <1>1, <1>2, MaxFileAssumption DEF OrderOK, FileId
<1>3. ASSUME pc[u] = "returned", entry[u] # NoRecord, status[u] = "kOk"
      PROVE  NoneAfter(data', entry[u].key, file_id[u], offset[u])
  BY <1>1, <1>3 DEF OrderOK, NoneAfter
<1> QED
  BY <1>2, <1>3 DEF OrderOK

-----------------------------------------------------------------------------
(***************************************************************************)
(* The steps of Append.                                                    *)
(***************************************************************************)
LEMMA AppendFacts ==
  ASSUME FMInv, FilesInv, NEW t \in Threads, AppendStep(t)
  PROVE  /\ up /\ pc[t] \in AppendLines /\ pc'[t] \in AppendLines \cup {"returned"}
         /\ entry' = entry
         /\ \A u \in Threads \ {t} :
              /\ pc'[u] = pc[u] /\ file_id'[u] = file_id[u] /\ offset'[u] = offset[u]
              /\ status'[u] = status[u]
         /\ active_file_id' >= active_file_id
         /\ FilesInv'
         /\ pc'[t] = "allocate" => file_id'[t] = active_file_id
<1> USE DEF FMInv, TypeOK, FilesInv, At, Goto, Finish, disk, shared, locals, AppendLines
<1>1. active_file_id \in Nat
  BY MaxFileAssumption DEF FileId
<1>2. CASE AppendSnapshot(t) \/ AllocateFull(t) \/ RotateLost(t) \/ CreateFileBegin(t)
  BY <1>1, <1>2 DEF AppendSnapshot, AllocateFull, RotateLost, CreateFileBegin
<1>3. CASE AllocateOk(t) \/ AppendPack(t) \/ AppendPackNullLog(t)
  BY <1>1, <1>3 DEF AllocateOk, Allocate, AppendPack, AppendPackNullLog
<1>4. CASE CreateFileOpen(t) \/ CreateFileFail(t)
  BY <1>1, <1>4 DEF CreateFileOpen, CreateFileFail
<1>5. CASE CreateFilePublish(t)
  <2>1. file_id[t] = active_file_id
    BY <1>5 DEF CreateFilePublish, OneRotation
  <2>2. active_file_id' = active_file_id + 1 /\ files' = files \cup {active_file_id + 1}
    BY <1>5, <2>1 DEF CreateFilePublish, MetadataCreateFile, NextFile
  <2>3. FilesInv'
    BY <1>1, <2>2
  <2> QED
    BY <1>1, <1>5, <2>2, <2>3 DEF CreateFilePublish
<1> QED
  BY <1>2, <1>3, <1>4, <1>5 DEF AppendStep

LEMMA AppendLands ==
  ASSUME FMInv, NEW t \in Threads, AppendStep(t)
  PROVE  IF AppendPack(t) \/ AppendPackNullLog(t) THEN Landed({t}) ELSE data' = data
<1>1. CASE AppendPack(t) \/ AppendPackNullLog(t)
  <2>1. up /\ pc[t] = "pack" /\ WriteRecord(t)
    BY <1>1 DEF AppendPack, AppendPackNullLog, At
  <2>2. file_id[t] \in FileId /\ offset[t] \in Offset /\ entry[t] \in Entry
    BY <2>1, PackFacts
  <2>3. data \in [FileId -> Contents]
    BY DEF FMInv, TypeOK
  <2> QED
    BY <1>1, <2>1, <2>2, <2>3 DEF Landed, WriteRecord, Contents
<1>2. CASE AllocateOk(t)
  BY <1>2 DEF AllocateOk, Allocate, AppendPack, AppendPackNullLog, At, disk
<1>3. CASE ~AllocateOk(t) /\ ~AppendPack(t) /\ ~AppendPackNullLog(t)
  BY <1>3, OtherSteps DEF FMStep
<1> QED
  BY <1>1, <1>2, <1>3

LEMMA NothingLands ==
  ASSUME FMInv, data' = data
  PROVE  Landed({})
BY DEF FMInv, TypeOK, Landed

LEMMA AppendOrder ==
  ASSUME FMInv, FilesInv, \A u \in Threads : PutOK(u), \A u \in Threads : OrderOK(u),
         NEW t \in Threads, AppendStep(t), NEW T, Landed(T),
         AppendPack(t) => t \in T, data' # data => AppendPack(t) \/ AppendPackNullLog(t)
  PROVE  OrderOK(t)'
<1>1. up /\ entry' = entry /\ pc[t] # "idle"
  BY AppendFacts DEF AppendLines
<1>2. CASE AppendPack(t)
  <2>1. /\ file_id' = file_id /\ offset' = offset
        /\ pc'[t] = "returned"
    BY <1>2 DEF AppendPack, Finish, Goto, FMInv, TypeOK
  <2> QED
    BY <1>1, <1>2, <2>1, LandedLast DEF OrderOK
<1>3. CASE AppendPackNullLog(t)
  BY <1>1, <1>3, LandedOrder DEF AppendPackNullLog, locals
<1>4. CASE AppendSnapshot(t)
  <2>1. pc'[t] = "allocate" /\ file_id'[t] = active_file_id /\ data' = data
    BY <1>4 DEF AppendSnapshot, Goto, disk, FMInv, TypeOK
  <2>2. ASSUME NEW g \in FileId, NEW p \in Offset, data[g][p] # NoRecord
        PROVE  g <= active_file_id
    BY <2>2, MaxFileAssumption DEF FMInv, TypeOK, FreshInv, Blank, FileId
  <2> QED
    BY <2>1, <2>2 DEF OrderOK, KeyAt
<1>5. CASE AllocateOk(t)
  <2>1. pc[t] = "allocate" /\ pc'[t] = "pack" /\ file_id' = file_id /\ data' = data
    BY <1>5 DEF AllocateOk, Allocate, At, Goto, disk, FMInv, TypeOK
  <2> QED
    BY <1>1, <2>1 DEF OrderOK
<1>6. CASE AllocateFull(t) \/ RotateLost(t) \/ CreateFileBegin(t) \/ CreateFileOpen(t)
           \/ CreateFilePublish(t)
  <2>1. pc'[t] \notin {"allocate", "pack", "returned"}
    BY <1>6 DEF AllocateFull, RotateLost, CreateFileBegin, CreateFileOpen,
       CreateFilePublish, Goto, FMInv, TypeOK
  <2> QED
    BY <2>1 DEF OrderOK
<1>7. CASE CreateFileFail(t)
  <2>1. pc'[t] = "returned" /\ status'[t] = "kIOError"
    BY <1>7 DEF CreateFileFail, Finish, Goto, FMInv, TypeOK
  <2> QED
    BY <2>1 DEF OrderOK
<1> QED
  BY <1>2, <1>3, <1>4, <1>5, <1>6, <1>7 DEF AppendStep

LEMMA AppendChain ==
  ASSUME FMInv, FilesInv, DurChain, NEW t \in Threads, AppendStep(t)
  PROVE  DurChain'
<1>1. PICK S \in SUBSET FileId : WritableIn(S) /\ ChainOver(S)
  BY DEF DurChain
<1>2. ChainOver(S)'
  BY <1>1, ChainStep DEF WritableIn, FMStep
<1>3. active_file_id \in FileId /\ active_file_id' \in FileId
  BY AppendInv DEF FMInv, TypeOK
<1>4. WritableIn(S)'
  <2>1. ASSUME NEW f \in FileId, f >= active_file_id' PROVE f \in S
    BY <1>1, <1>3, <2>1, AppendFacts, MaxFileAssumption DEF WritableIn, FileId
  <2>2. active_file_id \in S
    BY <1>1, <1>3, MaxFileAssumption DEF WritableIn, FileId
  <2>3. ASSUME NEW u \in Threads, pc'[u] = "allocate" PROVE file_id'[u] \in S
    BY <1>1, <2>2, <2>3, AppendFacts DEF WritableIn
  <2> QED
    BY <2>1, <2>3 DEF WritableIn
<1> QED
  BY <1>2, <1>4 DEF DurChain

LEMMA DurAppendInv ==
  ASSUME DurInv, NEW t \in Threads, DurAppend(t)
  PROVE  DurInv'
<1>1. AppendStep(t) /\ UNCHANGED <<durable, putvars, history, counters>>
  BY DEF DurAppend
<1>2. FMInv /\ FilesInv /\ FMInv'
  BY <1>1, AppendInv DEF DurInv
<1>3. FilesInv' /\ DurChain' /\ active_file_id' >= active_file_id /\ up
  BY <1>1, <1>2, AppendFacts, AppendChain DEF DurInv
<1>4. \E T : /\ Landed(T) /\ (AppendPack(t) => t \in T)
             /\ data' # data => AppendPack(t) \/ AppendPackNullLog(t)
  BY <1>1, <1>2, AppendLands, NothingLands
<1>5. PICK T : /\ Landed(T) /\ (AppendPack(t) => t \in T)
               /\ data' # data => AppendPack(t) \/ AppendPackNullLog(t)
  BY <1>4
<1>6. Whole' /\ IndexFileSound' /\ KeyInv'
  <2>1. PICK S : ChainOver(S)
    BY DEF DurInv, DurChain
  <2>2. UNCHANGED <<index_file, acked, unacked>>
    BY <1>1 DEF durable, history
  <2> QED
    BY <1>2, <1>3, <1>5, <2>1, <2>2, LandedWhole, LandedIndex, LandedKeyInv DEF DurInv
<1>7. \A u \in Threads : OrderOK(u)'
  BY <1>1, <1>2, <1>3, <1>5, AppendOrder, LandedOrder, AppendFacts DEF DurInv
<1>8. active_file_id \in Nat /\ active_file_id' \in Nat
  BY <1>2, MaxFileAssumption DEF FMInv, TypeOK, FileId
<1>9. ASSUME NEW u \in Threads PROVE PutOK(u)'
  <2>1. UNCHANGED <<at, target, unacked>> /\ entry' = entry
    BY <1>1, <1>2, AppendFacts DEF putvars, history
  <2>2. CASE u = t
    <3>1. at[t] = "append" /\ pc'[t] \in AppendLines \cup {"returned"}
      BY <1>1, <1>2, AppendFacts DEF DurInv, DurTypeOK, PutOK, AppendLines
    <3> QED
      BY <2>1, <2>2, <3>1 DEF DurInv, PutOK
  <2>3. CASE u # t
    <3>1. pc'[u] = pc[u] /\ file_id'[u] = file_id[u] /\ status'[u] = status[u]
      BY <1>1, <1>2, <2>3, AppendFacts
    <3>2. target[u] \in Nat
      BY MaxFileAssumption DEF DurInv, DurTypeOK, FileId
    <3> QED
      BY <1>3, <1>8, <2>1, <3>1, <3>2 DEF DurInv, PutOK
  <2> QED
    BY <2>2, <2>3
<1>10. SyncedIsStable'
  BY <1>1 DEF durable, history, DurInv, SyncedIsStable
<1>11. DurTypeOK'
  <2>1. active_file_id \in FileId
    BY <1>2 DEF FMInv, TypeOK
  <2>2. jobs' \subseteq Jobs
    BY <2>1 DEF DurInv, DurTypeOK, DurAppend, Scheduled, Jobs
  <2> QED
    BY <1>1, <1>2, <2>2 DEF DurInv, DurTypeOK, FMInv, durable, putvars, history, counters
<1> QED
  BY <1>2, <1>3, <1>6, <1>7, <1>9, <1>10, <1>11 DEF DurInv

-----------------------------------------------------------------------------
(***************************************************************************)
(* The steps that write no record.                                         *)
(***************************************************************************)
LEMMA QuietFiles ==
  ASSUME DurInv, UNCHANGED <<data, write_index, active_file_id, files, file_mu>>, up' => up,
         \A u \in Threads : pc'[u] \in {"allocate", "pack"} =>
           pc[u] = pc'[u] /\ file_id'[u] = file_id[u] /\ offset'[u] = offset[u]
  PROVE  FilesInv' /\ Whole' /\ DurChain'
<1>1. PICK S \in SUBSET FileId : WritableIn(S) /\ ChainOver(S)
  BY DEF DurInv, DurChain
<1>2. WritableIn(S)' /\ ChainOver(S)'
  BY <1>1, ChainFrame DEF WritableIn
<1>3. DurChain'
  BY <1>2 DEF DurChain
<1> QED
  BY <1>3 DEF DurInv, FilesInv, Whole

LEMMA QuietIndex ==
  ASSUME DurInv, UNCHANGED <<data, index_file>>
  PROVE  IndexFileSound'
BY DEF DurInv, IndexFileSound, Offsets, RecordAt

\* What is on the device stays there.
LEMMA QuietStable ==
  ASSUME DurInv, UNCHANGED synced, stable \subseteq stable'
  PROVE  SyncedIsStable'
BY DEF DurInv, SyncedIsStable

\* A thread whose locals a step leaves alone.
LEMMA QuietThread ==
  ASSUME DurInv, UNCHANGED <<data, active_file_id>>, NEW u \in Threads,
         at'[u] = at[u], pc'[u] = pc[u], entry'[u] = entry[u], status'[u] = status[u],
         file_id'[u] = file_id[u], offset'[u] = offset[u], target'[u] = target[u],
         at[u] # "idle" => unacked[entry[u].key] \subseteq unacked'[entry[u].key]
  PROVE  PutOK(u)' /\ OrderOK(u)'
BY DEF DurInv, PutOK, OrderOK

\* Return leaves the other threads alone.
LEMMA ReturnFacts ==
  ASSUME DurInv, NEW t \in Threads, Return(t)
  PROVE  /\ pc'[t] = "idle" /\ UNCHANGED <<disk, shared, locks, up>>
         /\ \A u \in Threads \ {t} :
              /\ pc'[u] = pc[u] /\ entry'[u] = entry[u] /\ status'[u] = status[u]
              /\ file_id'[u] = file_id[u] /\ offset'[u] = offset[u]
BY DEF DurInv, FMInv, TypeOK, Return, Reset, Goto

LEMMA LastGrows ==
  ASSUME NEW D, NEW k, NEW V, NEW W, V \subseteq W, LastIn(D, k, V)
  PROVE  LastIn(D, k, W)
BY DEF LastIn

LEMMA PutBeginInv ==
  ASSUME DurInv, NEW t \in Threads, PutBegin(t)
  PROVE  DurInv'
<1>1. PICK e \in WritesOf[t] :
        /\ at[t] = "idle" /\ writes < MaxWrites
        /\ AppendCall(t, e)
        /\ at' = [at EXCEPT ![t] = "append"]
        /\ unacked' = [unacked EXCEPT ![e.key] = @ \cup {e.value}]
        /\ writes' = writes + 1
        /\ UNCHANGED <<durable, jobs, target, acked, synced, restarts>>
  BY DEF PutBegin
<1>2. e \in Entry /\ e.key \in Keys /\ e.value \in Values \cup {Empty}
  BY DurAssumption DEF Entry
<1>3. FMInv'
  BY <1>1, <1>2, AppendCallInv DEF DurInv
<1>4. /\ UNCHANGED <<disk, shared, locks, up, stable, index_file>>
      /\ pc'[t] = "snapshot" /\ entry'[t] = e
      /\ \A u \in Threads \ {t} :
           /\ at'[u] = at[u] /\ pc'[u] = pc[u] /\ entry'[u] = entry[u]
           /\ status'[u] = status[u] /\ file_id'[u] = file_id[u] /\ offset'[u] = offset[u]
  BY <1>1 DEF AppendCall, Goto, DurInv, DurTypeOK, FMInv, TypeOK, durable
<1>5. \A k \in Keys : unacked[k] \subseteq unacked'[k]
  BY <1>1 DEF DurInv, DurTypeOK
<1>6. DurTypeOK'
  BY <1>1, <1>2, <1>3, DurAssumption DEF DurInv, DurTypeOK, FMInv, durable
<1>7. FilesInv' /\ Whole' /\ DurChain' /\ IndexFileSound' /\ SyncedIsStable'
  BY <1>1, <1>4, QuietFiles, QuietIndex, QuietStable DEF disk, shared, locks
<1>8. KeyInv'
  <2>1. ASSUME NEW k \in Keys PROVE LastIn(data, k, {acked[k]} \cup unacked'[k])
    BY <1>5, LastGrows DEF DurInv, KeyInv
  <2> QED
    BY <1>1, <1>4, <2>1 DEF KeyInv, disk
<1>9. ASSUME NEW u \in Threads \ {t} PROVE PutOK(u)' /\ OrderOK(u)'
  <2>1. at[u] # "idle" => entry[u].key \in Keys
    BY DurAssumption DEF DurInv, PutOK, Entry
  <2> QED
    BY <1>1, <1>4, <1>5, <2>1, QuietThread DEF disk, shared
<1>10. PutOK(t)' /\ OrderOK(t)'
  <2>1. at'[t] = "append" /\ e.value \in unacked'[e.key]
    BY <1>1, <1>2 DEF DurInv, DurTypeOK
  <2> QED
    BY <1>4, <2>1 DEF PutOK, OrderOK, AppendLines
<1> QED
  BY <1>3, <1>6, <1>7, <1>8, <1>9, <1>10 DEF DurInv

\* The Put that is about to return kOk has written the last record of its key.
LEMMA AppendedLast ==
  ASSUME DurInv, NEW t \in Threads, at[t] # "idle", pc[t] = "returned", status[t] = "kOk"
  PROVE  /\ entry[t] \in WritesOf[t] /\ entry[t] \in Entry /\ entry[t].key \in Keys
         /\ entry[t].value \in Values \cup {Empty}
         /\ file_id[t] \in FileId /\ offset[t] \in Offset
         /\ data[file_id[t]][offset[t]] = entry[t]
         /\ NoneAfter(data, entry[t].key, file_id[t], offset[t])
<1>1. entry[t] \in WritesOf[t] /\ entry[t] \in Entry
  BY DurAssumption DEF DurInv, PutOK
<1>2. entry[t].key \in Keys /\ entry[t].value \in Values \cup {Empty} /\ entry[t] # NoRecord
  BY <1>1, HoleAssumption DEF Entry
<1> QED
  BY <1>1, <1>2 DEF DurInv, FMInv, LocalsInv, AppendStored, OrderOK

\* So that record stands for the key once the Put has returned.
LEMMA AcknowledgeInv ==
  ASSUME DurInv, NEW t \in Threads, at[t] # "idle", pc[t] = "returned", status[t] = "kOk",
         Acknowledge(t, entry[t]), Return(t), \A u \in Threads \ {t} : target'[u] = target[u]
  PROVE  KeyInv' /\ \A u \in Threads : PutOK(u)' /\ OrderOK(u)'
<1>1. /\ at' = [at EXCEPT ![t] = "idle"]
      /\ acked' = [acked EXCEPT ![entry[t].key] = entry[t].value]
      /\ unacked' = [unacked EXCEPT ![entry[t].key] = {}]
  BY DEF Acknowledge
<1>2. /\ acked \in [Keys -> Values \cup {Empty}] /\ at'[t] = "idle"
      /\ unacked \in [Keys -> SUBSET (Values \cup {Empty})]
      /\ \A u \in Threads \ {t} : at'[u] = at[u]
  BY <1>1 DEF DurInv, DurTypeOK
<1>3. data' = data /\ active_file_id' = active_file_id
  BY ReturnFacts DEF disk, shared
<1>4. ASSUME NEW k \in Keys
      PROVE  LastIn(data, k, {acked'[k]} \cup unacked'[k])
  <2>1. CASE k = entry[t].key
    <3>1. acked'[k] = entry[t].value
      BY <1>1, <1>2, <2>1
    <3>2. KeyAt(data, k, file_id[t], offset[t])
      BY <2>1, AppendedLast, HoleAssumption DEF KeyAt
    <3> QED
      BY <2>1, <3>1, <3>2, AppendedLast DEF LastIn
  <2>2. CASE k # entry[t].key
    <3>1. acked'[k] = acked[k] /\ unacked'[k] = unacked[k]
      BY <1>1, <1>2, <2>2
    <3> QED
      BY <3>1 DEF DurInv, KeyInv
  <2> QED
    BY <2>1, <2>2
<1>5. ASSUME NEW u \in Threads \ {t} PROVE PutOK(u)' /\ OrderOK(u)'
  <2>1. ASSUME at[u] # "idle" PROVE unacked'[entry[u].key] = unacked[entry[u].key]
    <3>1. pc[u] # "idle" /\ entry[u].key \in Keys
      BY <2>1, DurAssumption DEF DurInv, PutOK, AppendLines, Entry
    <3>2. entry[u].key # entry[t].key
      BY <3>1, Owner DEF DurInv
    <3> QED
      BY <1>1, <1>2, <3>1, <3>2
  <2> QED
    BY <1>2, <1>3, <2>1, ReturnFacts, QuietThread
<1>6. PutOK(t)' /\ OrderOK(t)'
  BY <1>2, ReturnFacts DEF PutOK, OrderOK
<1> QED
  BY <1>3, <1>4, <1>5, <1>6 DEF KeyInv

\* The files when a Put returns, whatever it returns.
LEMMA ReturnFiles ==
  ASSUME DurInv, NEW t \in Threads, Return(t)
  PROVE  /\ FMInv' /\ FilesInv' /\ Whole' /\ DurChain'
         /\ index_file' = index_file => IndexFileSound'
<1>1. FMInv'
  BY ReturnInv DEF DurInv
<1>2. /\ UNCHANGED <<data, write_index, active_file_id, files, file_mu, up>>
      /\ \A u \in Threads : pc'[u] \in {"allocate", "pack"} =>
           pc[u] = pc'[u] /\ file_id'[u] = file_id[u] /\ offset'[u] = offset[u]
  BY ReturnFacts DEF disk, shared, locks
<1> QED
  BY <1>1, <1>2, QuietFiles, QuietIndex

LEMMA PutReturnInv ==
  ASSUME DurInv, NEW t \in Threads, PutReturn(t)
  PROVE  DurInv'
<1>1. /\ at[t] # "idle" /\ pc[t] = "returned" /\ status[t] = "kOk" /\ Return(t)
      /\ Acknowledge(t, entry[t]) /\ UNCHANGED <<stable, index_file, target, synced>>
  BY DEF PutReturn, Appended, At, durable
<1>2. active_file_id' = active_file_id
  BY <1>1, ReturnFacts DEF shared
<1>3. FMInv' /\ FilesInv' /\ Whole' /\ DurChain' /\ IndexFileSound' /\ SyncedIsStable'
  BY <1>1, <1>2, ReturnFiles, QuietStable
<1>4. KeyInv' /\ \A u \in Threads : PutOK(u)' /\ OrderOK(u)'
  BY <1>1, AcknowledgeInv
<1>5. DurTypeOK'
  BY <1>1, <1>3, AppendedLast
  DEF DurInv, DurTypeOK, FMInv, PutReturn, Acknowledge, durable, counters
<1> QED
  BY <1>3, <1>4, <1>5 DEF DurInv

LEMMA PutFailedInv ==
  ASSUME DurInv, NEW t \in Threads, PutFailed(t)
  PROVE  DurInv'
<1>1. /\ Return(t) /\ at' = [at EXCEPT ![t] = "idle"]
      /\ UNCHANGED <<stable, index_file, target, acked, unacked, synced>>
  BY DEF PutFailed, durable, history
<1>2. active_file_id' = active_file_id /\ data' = data
  BY <1>1, ReturnFacts DEF shared, disk
<1>3. FMInv' /\ FilesInv' /\ Whole' /\ DurChain' /\ IndexFileSound' /\ SyncedIsStable'
  BY <1>1, <1>2, ReturnFiles, QuietStable
<1>4. at'[t] = "idle" /\ \A u \in Threads \ {t} : at'[u] = at[u]
  BY <1>1 DEF DurInv, DurTypeOK
<1>5. \A u \in Threads \ {t} : PutOK(u)' /\ OrderOK(u)'
  BY <1>1, <1>2, <1>4, ReturnFacts, QuietThread
<1>6. PutOK(t)' /\ OrderOK(t)'
  BY <1>1, <1>4, ReturnFacts DEF PutOK, OrderOK
<1>7. KeyInv'
  BY <1>1, <1>2 DEF DurInv, KeyInv
<1>8. DurTypeOK'
  BY <1>1, <1>3 DEF DurInv, DurTypeOK, FMInv, PutFailed, durable, history, counters
<1> QED
  BY <1>3, <1>5, <1>6, <1>7, <1>8 DEF DurInv

LEMMA SyncReturnInv ==
  ASSUME DurInv, NEW t \in Threads, SyncOk(t) \/ SyncFailed(t)
  PROVE  DurInv'
<1>1. /\ at[t] = "msync" /\ Return(t) /\ Acknowledge(t, entry[t])
      /\ target' = [target EXCEPT ![t] = 0] /\ UNCHANGED <<index_file, jobs, counters>>
  BY DEF SyncOk, SyncFailed, SyncReturn
<1>2. /\ pc[t] = "returned" /\ status[t] = "kOk"
      /\ file_id[t] <= target[t] /\ target[t] <= active_file_id
  BY <1>1 DEF DurInv, PutOK
<1>3. FMInv' /\ FilesInv' /\ Whole' /\ DurChain' /\ IndexFileSound'
  BY <1>1, ReturnFiles
<1>4. KeyInv' /\ \A u \in Threads : PutOK(u)' /\ OrderOK(u)'
  <2>1. \A u \in Threads \ {t} : target'[u] = target[u]
    BY <1>1 DEF DurInv, DurTypeOK
  <2> QED
    BY <1>1, <1>2, <2>1, AcknowledgeInv
<1>5. /\ file_id[t] \in FileId /\ offset[t] \in Offset /\ Loc(t) \in Location
      /\ data[file_id[t]][offset[t]] # NoRecord /\ active_file_id \in FileId
      /\ target[t] \in FileId \cup {0}
  BY <1>1, <1>2, AppendedLast, HoleAssumption DEF Loc, Location, DurInv, DurTypeOK, FMInv, TypeOK
<1>6. active_file_id' = active_file_id
  BY <1>1, ReturnFacts DEF shared
<1>7. stable \subseteq stable' /\ stable' \subseteq Location
  <2>1. target[t] \in FileId
    BY <1>2, <1>5, MaxFileAssumption DEF FileId
  <2> QED
    BY <2>1 DEF SyncOk, SyncFailed, Msync, Locations, Offsets, Location, DurInv, DurTypeOK
<1>8. ASSUME SyncOk(t)
      PROVE  SyncedIsStable' /\ synced' \in [Threads -> SyncedPuts \cup {NoLoc}]
  <2>1. PICK put : put = [loc |-> Loc(t), file |-> target[t]]
    OBVIOUS
  <2>2. synced' = [synced EXCEPT ![t] = put] /\ stable' = stable \cup Locations(target[t])
    BY <1>8, <2>1 DEF SyncOk, Msync
  <2>3. synced \in [Threads -> SyncedPuts \cup {NoLoc}]
    BY DEF DurInv, DurTypeOK
  <2>4. put.loc \in stable' \/ put.loc.id < put.file
    <3>1. CASE target[t] = file_id[t]
      BY <1>5, <2>1, <2>2, <3>1 DEF Locations, Offsets, RecordAt, Loc
    <3>2. CASE target[t] # file_id[t]
      BY <1>2, <1>5, <2>1, <3>2, MaxFileAssumption DEF Loc, FileId
    <3> QED
      BY <3>1, <3>2
  <2>5. SyncedIsStable'
    BY <1>7, <2>2, <2>3, <2>4 DEF DurInv, SyncedIsStable
  <2>6. put \in SyncedPuts
    BY <1>2, <1>5, <2>1, MaxFileAssumption DEF SyncedPuts, FileId
  <2> QED
    BY <2>2, <2>3, <2>5, <2>6
<1>9. ASSUME SyncFailed(t)
      PROVE  SyncedIsStable' /\ synced' \in [Threads -> SyncedPuts \cup {NoLoc}]
  BY <1>6, <1>9, QuietStable DEF SyncFailed, DurInv, DurTypeOK
<1>10. DurTypeOK' /\ SyncedIsStable'
  <2>1. /\ at' \in [Threads -> {"idle", "append", "sync", "msync"}]
        /\ target' \in [Threads -> FileId \cup {0}]
    BY <1>1 DEF DurInv, DurTypeOK, Acknowledge
  <2>2. /\ acked' \in [Keys -> Values \cup {Empty}]
        /\ unacked' \in [Keys -> SUBSET (Values \cup {Empty})]
    BY <1>1, <1>2, AppendedLast DEF DurInv, DurTypeOK, Acknowledge
  <2> QED
    BY <1>1, <1>3, <1>7, <1>8, <1>9, <2>1, <2>2 DEF DurInv, DurTypeOK, FMInv, counters
<1> QED
  BY <1>3, <1>4, <1>10 DEF DurInv

\* A step outside the file manager and the Puts.
LEMMA SameFiles ==
  ASSUME DurInv, UNCHANGED fmvars
  PROVE  FMInv' /\ FilesInv' /\ Whole' /\ DurChain'
<1>1. FMInv'
  BY StutterInv DEF DurInv
<1> QED
  BY <1>1, QuietFiles DEF fmvars, disk, shared, locks, locals

LEMMA PutSyncInv ==
  ASSUME DurInv, NEW t \in Threads, PutSync(t) \/ SyncTake(t)
  PROVE  DurInv'
<1>1. /\ UNCHANGED <<fmvars, stable, index_file, jobs, acked, unacked, synced, counters>>
      /\ \A u \in Threads \ {t} : at'[u] = at[u] /\ target'[u] = target[u]
      /\ up /\ at[t] \in {"append", "sync"} /\ pc[t] = "returned" /\ status[t] = "kOk"
  BY DEF PutSync, SyncTake, Appended, At, durable, history, DurInv, DurTypeOK, PutOK
<1>2. UNCHANGED <<data, active_file_id, pc, entry, status, file_id, offset>>
  BY <1>1 DEF fmvars, disk, shared, locals
<1>3. FMInv' /\ FilesInv' /\ Whole' /\ DurChain' /\ IndexFileSound' /\ SyncedIsStable'
  BY <1>1, <1>2, SameFiles, QuietIndex, QuietStable
<1>4. ASSUME NEW u \in Threads \ {t} PROVE PutOK(u)' /\ OrderOK(u)'
  BY <1>1, <1>2, QuietThread
<1>5. PutOK(t)' /\ OrderOK(t)'
  <2>1. file_id[t] <= active_file_id /\ active_file_id \in Nat
    <3>1. file_id[t] \in FileId /\ offset[t] \in Offset
          /\ data[file_id[t]][offset[t]] # NoRecord
      BY <1>1, AppendedLast, HoleAssumption
    <3> QED
      BY <3>1, MaxFileAssumption DEF DurInv, FMInv, TypeOK, FreshInv, Blank, FileId
  <2>2. CASE PutSync(t)
    <3>1. at'[t] = "sync"
      BY <2>2 DEF PutSync, DurInv, DurTypeOK
    <3> QED
      BY <1>1, <1>2, <3>1 DEF DurInv, PutOK, OrderOK
  <2>3. CASE SyncTake(t)
    <3>1. at'[t] = "msync" /\ target'[t] = active_file_id
      BY <2>3 DEF SyncTake, DurInv, DurTypeOK
    <3> QED
      BY <1>1, <1>2, <2>1, <3>1 DEF DurInv, PutOK, OrderOK
  <2> QED
    BY <2>2, <2>3
<1>6. KeyInv'
  BY <1>1, <1>2 DEF DurInv, KeyInv
<1>7. DurTypeOK'
  <2>1. /\ at' \in [Threads -> {"idle", "append", "sync", "msync"}]
        /\ target' \in [Threads -> FileId \cup {0}]
    <3>1. /\ active_file_id \in FileId /\ target \in [Threads -> FileId \cup {0}]
          /\ at \in [Threads -> {"idle", "append", "sync", "msync"}]
      BY DEF DurInv, DurTypeOK, FMInv, TypeOK
    <3>2. CASE PutSync(t)
      BY <3>1, <3>2 DEF PutSync
    <3>3. CASE SyncTake(t)
      BY <3>1, <3>3 DEF SyncTake
    <3> QED
      BY <3>2, <3>3
  <2> QED
    BY <1>1, <1>3, <2>1 DEF DurInv, DurTypeOK, FMInv, counters
<1> QED
  BY <1>3, <1>4, <1>5, <1>6, <1>7 DEF DurInv

\* The sync worker and the executor leave files and Puts alone.
LEMMA BackgroundInv ==
  ASSUME DurInv, UNCHANGED <<fmvars, putvars, history, counters>>,
         stable \subseteq stable', stable' \subseteq Location, jobs' \subseteq Jobs,
         index_file' \in [FileId -> IndexFile],
         IndexFileSound'
  PROVE  DurInv'
<1>1. UNCHANGED <<data, active_file_id, pc, entry, status, file_id, offset, at, target,
                  acked, unacked, synced>>
  BY DEF fmvars, disk, shared, locals, putvars, history
<1>2. FMInv' /\ FilesInv' /\ Whole' /\ DurChain' /\ SyncedIsStable'
  BY <1>1, SameFiles, QuietStable
<1>3. ASSUME NEW u \in Threads PROVE PutOK(u)' /\ OrderOK(u)'
  BY <1>1, QuietThread
<1>4. KeyInv'
  BY <1>1 DEF DurInv, KeyInv
<1>5. DurTypeOK'
  BY <1>2 DEF DurInv, DurTypeOK, FMInv, putvars, history, counters
<1> QED
  BY <1>2, <1>3, <1>4, <1>5 DEF DurInv

LEMMA MsyncInv ==
  ASSUME DurInv, WorkerSync \/ \E f \in FileId : RunSyncFile(f)
  PROVE  DurInv'
<1>1. PICK f \in FileId : Msync(f)
  BY DEF WorkerSync, RunSyncFile, DurInv, FMInv, TypeOK
<1>2. /\ UNCHANGED <<fmvars, index_file, putvars, history, counters>>
      /\ jobs' \subseteq Jobs
  BY DEF WorkerSync, RunSyncFile, DurInv, DurTypeOK
<1>3. stable \subseteq stable' /\ stable' \subseteq Location
  BY <1>1 DEF Msync, Locations, Offsets, Location, DurInv, DurTypeOK
<1>4. IndexFileSound'
  BY <1>2, QuietIndex DEF fmvars, disk
<1> QED
  BY <1>2, <1>3, <1>4, BackgroundInv DEF DurInv, DurTypeOK

\* An index log has no more entries than its data file has bytes.
LEMMA LogLengthBound ==
  ASSUME NEW f
  PROVE  LogLength(f) \in 0 .. kMaxFileBytes
<1>1. Offsets(f) \subseteq Offset
  BY DEF Offsets
<1>2. IsFiniteSet(Offset) /\ Cardinality(Offset) = kMaxFileBytes
  <2>1. 0 \in Int /\ kMaxFileBytes - 1 \in Int /\ kMaxFileBytes > 0
    BY CapacityAssumption
  <2> QED
    BY <2>1, FS_Interval, CapacityAssumption DEF Offset
<1>3. IsFiniteSet(Offsets(f)) /\ Cardinality(Offsets(f)) <= kMaxFileBytes
  BY <1>1, <1>2, FS_Subset
<1> QED
  BY <1>3, FS_CardinalityType, CapacityAssumption DEF LogLength

LEMMA IndexJobInv ==
  ASSUME DurInv, NEW f \in FileId,
         OpenIndexFile(f) \/ OpenIndexFileFail(f) \/ WriteIndexFile(f)
  PROVE  DurInv'
<1>1. /\ UNCHANGED <<fmvars, stable, putvars, history, counters>> /\ jobs' \subseteq Jobs
  BY DEF OpenIndexFile, OpenIndexFileFail, WriteIndexFile, Jobs, DurInv, DurTypeOK
<1>2. PICK file \in IndexFile :
        /\ index_file' = [index_file EXCEPT ![f] = file]
        /\ file.listed \in {index_file[f].listed, Offsets(f)}
  <2>1. index_file[f] \in IndexFile
    BY DEF DurInv, DurTypeOK
  <2> DEFINE old == index_file[f]
             opened == [exists |-> TRUE, length |-> LogLength(f), listed |-> old.listed]
             failed(n) == [exists |-> TRUE, length |-> n, listed |-> old.listed]
             written == [exists |-> old.exists, length |-> old.length, listed |-> Offsets(f)]
  <2>2. CASE OpenIndexFile(f)
    <3>1. index_file' = [index_file EXCEPT ![f] = opened]
      BY <2>2 DEF OpenIndexFile
    <3>2. opened \in IndexFile /\ opened.listed = old.listed
      BY <2>1, LogLengthBound DEF IndexFile
    <3> HIDE DEF opened
    <3> QED
      BY <3>1, <3>2
  <2>3. CASE OpenIndexFileFail(f)
    <3>1. PICK n \in {old.length, LogLength(f)} :
            index_file' = [index_file EXCEPT ![f] = failed(n)]
      BY <2>3 DEF OpenIndexFileFail
    <3>2. failed(n) \in IndexFile /\ failed(n).listed = old.listed
      BY <2>1, LogLengthBound DEF IndexFile
    <3> HIDE DEF failed
    <3> QED
      BY <3>1, <3>2
  <2>4. CASE WriteIndexFile(f)
    <3>1. index_file' = [index_file EXCEPT ![f] = written]
      BY <2>4 DEF WriteIndexFile
    <3>2. Offsets(f) \subseteq Offset
      BY DEF Offsets
    <3>3. written \in IndexFile /\ written.listed = Offsets(f)
      BY <2>1, <3>2 DEF IndexFile
    <3> HIDE DEF written
    <3> QED
      BY <3>1, <3>3
  <2> QED
    BY <2>2, <2>3, <2>4
<1>3. index_file' \in [FileId -> IndexFile]
  BY <1>2 DEF DurInv, DurTypeOK
<1>4. IndexFileSound'
  <2>1. data' = data
    BY <1>1 DEF fmvars, disk
  <2>2. index_file \in [FileId -> IndexFile]
    BY DEF DurInv, DurTypeOK
  <2>3. ASSUME NEW g \in FileId
        PROVE  /\ index_file'[g].listed \subseteq Offsets(g)
               /\ \A o \in index_file'[g].listed : \A p \in Offsets(g) :
                    p < o => p \in index_file'[g].listed
    BY <1>2, <2>2 DEF DurInv, IndexFileSound
  <2> QED
    BY <2>1, <2>3 DEF IndexFileSound, Offsets, RecordAt
<1> QED
  BY <1>1, <1>3, <1>4, BackgroundInv DEF DurInv, DurTypeOK

-----------------------------------------------------------------------------
(***************************************************************************)
(* The process ends, and starts again.                                     *)
(***************************************************************************)
LEMMA NullInv ==
  ASSUME DurInv, NEW f \in FileId, WriteIndexFileNull(f)
  PROVE  DurInv'
<1>1. /\ up' = FALSE /\ UNCHANGED <<disk, shared, locks, pc, locals>>
      /\ UNCHANGED <<stable, index_file, jobs, at, target, acked, unacked, synced, counters>>
  BY DEF WriteIndexFileNull, durable, putvars, history
<1>2. FMInv'
  BY <1>1 DEF DurInv, FMInv, TypeOK, LocalsInv, MuInv, OneRotation, PackInv, FreshInv,
     DiskInv, RecordsDisjoint, AppendStored, MetadataOnDisk, disk, shared, locks, locals,
     NextFile, RecordAt, EndOf
<1>3. FilesInv' /\ Whole' /\ DurChain' /\ IndexFileSound' /\ SyncedIsStable'
  BY <1>1, QuietFiles, QuietIndex, QuietStable DEF disk, shared, locks, locals
<1>4. \A u \in Threads : PutOK(u)' /\ OrderOK(u)'
  BY <1>1, QuietThread DEF disk, shared, locals
<1>5. KeyInv'
  BY <1>1 DEF DurInv, KeyInv, disk
<1>6. DurTypeOK'
  BY <1>1, <1>2 DEF DurInv, DurTypeOK, FMInv, counters
<1> QED
  BY <1>2, <1>3, <1>4, <1>5, <1>6 DEF DurInv

\* The records that land in a crash are those of some of the packing threads.
LEMMA CrashLands ==
  ASSUME FMInv, Crash
  PROVE  \E T : Landed(T)
<1>1. PICK packed \in SUBSET Packing :
        data' = [f \in FileId |-> [o \in Offset |->
          IF \E t \in packed : Loc(t) = [id |-> f, offset |-> o]
          THEN entry[CHOOSE t \in packed : Loc(t) = [id |-> f, offset |-> o]]
          ELSE data[f][o]]]
  BY DEF Crash
<1>2. up /\ \A t \in packed : t \in Threads /\ pc[t] = "pack"
  BY <1>1 DEF Crash, Packing
<1>3. data \in [FileId -> Contents]
  BY DEF FMInv, TypeOK
<1>4. ASSUME NEW f \in FileId, NEW o \in Offset
      PROVE  \/ data'[f][o] = data[f][o]
             \/ \E t \in packed : file_id[t] = f /\ offset[t] = o /\ data'[f][o] = entry[t]
  <2>1. CASE \E t \in packed : Loc(t) = [id |-> f, offset |-> o]
    <3>1. PICK t \in packed : /\ Loc(t) = [id |-> f, offset |-> o]
                              /\ data'[f][o] = entry[t]
      <4> DEFINE c == CHOOSE t \in packed : Loc(t) = [id |-> f, offset |-> o]
      <4>1. c \in packed /\ Loc(c) = [id |-> f, offset |-> o]
        BY <2>1, Zenon
      <4>2. data'[f][o] = entry[c]
        BY <1>1, <2>1
      <4> QED
        BY <4>1, <4>2
    <3> QED
      BY <3>1 DEF Loc
  <2>2. CASE ~\E t \in packed : Loc(t) = [id |-> f, offset |-> o]
    BY <1>1, <2>2
  <2> QED
    BY <2>1, <2>2
<1>5. data' \in [FileId -> Contents]
  <2>1. ASSUME NEW f \in FileId, NEW o \in Offset PROVE data'[f][o] \in Entry \cup {NoRecord}
    BY <1>2, <1>3, <1>4, Packer DEF Contents
  <2>2. ASSUME NEW f \in FileId PROVE data'[f] \in Contents
    <3>1. data'[f] = [o \in Offset |-> data'[f][o]]
      BY <1>1
    <3> QED
      BY <2>1, <3>1 DEF Contents
  <2>3. data' = [f \in FileId |-> data'[f]]
    BY <1>1
  <2> QED
    BY <2>2, <2>3
<1>6. ASSUME NEW t \in packed PROVE data'[file_id[t]][offset[t]] = entry[t]
  <2>1. file_id[t] \in FileId /\ offset[t] \in Offset
    BY <1>2, Packer
  <2>2. \E u \in packed : Loc(u) = [id |-> file_id[t], offset |-> offset[t]]
    BY DEF Loc
  <2> DEFINE c == CHOOSE u \in packed : Loc(u) = [id |-> file_id[t], offset |-> offset[t]]
  <2>3. c \in packed /\ Loc(c) = [id |-> file_id[t], offset |-> offset[t]]
    BY <2>2, Zenon
  <2>4. data'[file_id[t]][offset[t]] = entry[c]
    BY <1>1, <2>1, <2>2
  <2> HIDE DEF c
  <2>5. file_id[c] = file_id[t]
    BY <2>3 DEF Loc
  <2>6. c = t
    BY <1>2, <2>3, <2>5, Packer
  <2> QED
    BY <2>4, <2>6
<1>7. Landed(packed)
  BY <1>2, <1>4, <1>5, <1>6 DEF Landed
<1> QED
  BY <1>7

LEMMA CrashFiles ==
  ASSUME FMInv, Crash, NEW T, Landed(T)
  PROVE  FMInv'
<1>1. /\ up /\ up' = FALSE
      /\ UNCHANGED <<linked, files, write_index, active_file_id, index_log, open_files, mu,
                     file_mu, pc, entry, file_id, has_log, offset, status>>
  BY DEF Crash, shared, locks, locals
<1>2. TypeOK' /\ LocalsInv' /\ MuInv' /\ OneRotation' /\ PackInv' /\ DiskInv'
      /\ MetadataOnDisk'
  BY <1>1 DEF Landed, FMInv, TypeOK, LocalsInv, MuInv, OneRotation, PackInv, DiskInv,
     MetadataOnDisk, NextFile
<1>3. FreshInv'
  <2>1. ASSUME NEW f \in FileId, f > active_file_id PROVE data'[f] = data[f]
    <3>1. ASSUME NEW t \in T PROVE file_id[t] <= active_file_id /\ file_id[t] \in FileId
      BY <1>1, Packer DEF Landed
    <3>2. active_file_id \in FileId
      BY DEF FMInv, TypeOK
    <3>3. \A t \in T : file_id[t] # f
      BY <2>1, <3>1, <3>2, MaxFileAssumption DEF FileId
    <3>4. \A o \in Offset : data'[f][o] = data[f][o]
      BY <3>3 DEF Landed
    <3>5. data[f] \in Contents /\ data'[f] \in Contents
      BY DEF FMInv, TypeOK, Landed
    <3> QED
      BY <3>4, <3>5 DEF Contents
  <2> QED
    <3>1. FreshInv
      BY DEF FMInv
    <3> QED
      BY <1>1, <2>1, <3>1 DEF FreshInv
<1>4. AppendStored'
  <2>1. ASSUME NEW t \in Threads, pc[t] = "returned", entry[t] # NoRecord, status[t] = "kOk"
        PROVE  data'[file_id[t]][offset[t]] = entry[t]
    BY <1>1, <2>1, LandedKeeps DEF FMInv, LocalsInv, AppendStored
  <2> QED
    BY <1>1, <2>1 DEF AppendStored
<1>5. RecordsDisjoint'
  <2> SUFFICES ASSUME NEW f \in FileId, NEW o \in Offset, data'[f][o] # NoRecord
               PROVE  /\ o + SizeOf(data'[f][o]) <= write_index[f]
                      /\ \A p \in Offset : data'[f][p] # NoRecord /\ o < p =>
                           o + SizeOf(data'[f][o]) <= p
    BY <1>1 DEF RecordsDisjoint, RecordAt, EndOf
  <2>1. \A q \in Offset : data[f][q] # NoRecord =>
          /\ q + SizeOf(data[f][q]) <= write_index[f]
          /\ \A p \in Offset : data[f][p] # NoRecord /\ q < p => q + SizeOf(data[f][q]) <= p
    BY DEF FMInv, RecordsDisjoint, RecordAt, EndOf
  <2>2. CASE data'[f] = data[f]
    BY <2>1, <2>2
  <2>3. CASE \E t \in T : file_id[t] = f /\ data'[f] = [data[f] EXCEPT ![offset[t]] = entry[t]]
    <3>1. PICK t \in T :
            file_id[t] = f /\ data'[f] = [data[f] EXCEPT ![offset[t]] = entry[t]]
      BY <2>3
    <3>2. t \in Threads /\ pc[t] = "pack"
      BY DEF Landed
    <3>3. /\ offset[t] \in Offset /\ entry[t] \in Entry
          /\ offset[t] + SizeOf(entry[t]) = write_index[f]
          /\ \A q \in Offset : data[f][q] # NoRecord =>
               q < offset[t] /\ q + SizeOf(data[f][q]) <= offset[t]
      BY <1>1, <3>1, <3>2, Packer
    <3>4. /\ data'[f][offset[t]] = entry[t]
          /\ \A q \in Offset : q # offset[t] => data'[f][q] = data[f][q]
      BY <3>1, <3>3 DEF FMInv, TypeOK, Contents
    <3>5. CASE o = offset[t]
      <4>1. \A p \in Offset : data'[f][p] # NoRecord /\ p # o => p < o
        BY <3>3, <3>4, <3>5
      <4>2. \A p \in Offset : ~(p < o /\ o < p)
        BY DEF Offset
      <4>3. \A p \in Offset : o < p => p # o
        BY DEF Offset
      <4>4. o + SizeOf(data'[f][o]) <= write_index[f]
        BY <3>3, <3>4, <3>5, SizePositive DEF Offset
      <4> QED
        BY <4>1, <4>2, <4>3, <4>4
    <3>6. CASE o # offset[t]
      <4>1. data[f][o] # NoRecord /\ data'[f][o] = data[f][o]
        BY <3>4, <3>6
      <4>2. o + SizeOf(data[f][o]) <= write_index[f]
        BY <2>1, <4>1
      <4>3. ASSUME NEW p \in Offset, data'[f][p] # NoRecord, o < p
            PROVE  o + SizeOf(data[f][o]) <= p
        BY <2>1, <3>3, <3>4, <4>1, <4>3
      <4> QED
        BY <4>1, <4>2, <4>3
    <3> QED
      BY <3>5, <3>6
  <2> QED
    BY <1>1, <2>2, <2>3, LandedFile
<1> QED
  BY <1>2, <1>3, <1>4, <1>5 DEF FMInv

LEMMA CrashInv ==
  ASSUME DurInv, Crash
  PROVE  DurInv'
<1>1. PICK T : Landed(T)
  BY CrashLands DEF DurInv
<1>2. /\ up /\ up' = FALSE
      /\ UNCHANGED <<files, active_file_id, pc, entry, file_id, offset, status, stable,
                     index_file, jobs, at, target, acked, unacked, synced, counters>>
  BY DEF Crash, shared, locals, durable, putvars, history
<1>3. FMInv'
  BY <1>1, CrashFiles DEF DurInv
<1>4. PICK S \in SUBSET FileId : WritableIn(S) /\ ChainOver(S)
  BY DEF DurInv, DurChain
<1>5. DurChain'
  <2>1. WritableIn(S)' /\ ChainOver(S)'
    BY <1>2, <1>4 DEF WritableIn, ChainOver
  <2> QED
    BY <2>1 DEF DurChain
<1>6. Whole' /\ IndexFileSound' /\ KeyInv' /\ \A u \in Threads : OrderOK(u)'
  BY <1>1, <1>2, <1>4, LandedWhole, LandedIndex, LandedKeyInv, LandedOrder DEF DurInv
<1>7. FilesInv' /\ SyncedIsStable' /\ \A u \in Threads : PutOK(u)'
  BY <1>2 DEF DurInv, FilesInv, SyncedIsStable, PutOK
<1>8. DurTypeOK'
  BY <1>2, <1>3 DEF DurInv, DurTypeOK, FMInv, counters
<1> QED
  BY <1>3, <1>5, <1>6, <1>7, <1>8 DEF DurInv

\* The last file the metadata lists was the active one.
LEMMA LastFile ==
  ASSUME FMInv, FilesInv
  PROVE  Max(files) = active_file_id
<1>1. active_file_id \in files /\ \A f \in files : f \in Nat /\ active_file_id >= f
  BY MaxFileAssumption DEF FMInv, TypeOK, FilesInv, FileId
<1>2. Max(files) \in files /\ \A f \in files : Max(files) >= f
  BY <1>1, Zenon DEF Max
<1> QED
  BY <1>1, <1>2

\* Its write offset is restored to the end of its records.
LEMMA RestoredEnd ==
  ASSUME DurInv, Restart
  PROVE  /\ active_file_id' = active_file_id
         /\ write_index' \in [FileId -> 0 .. kMaxFileBytes]
         /\ Chained(data[active_file_id], write_index'[active_file_id])
         /\ \A f \in FileId \ {active_file_id} : write_index'[f] = write_index[f]
<1>1. /\ active_file_id \in FileId /\ write_index \in [FileId -> 0 .. kMaxFileBytes]
      /\ data \in [FileId -> Contents]
  BY DEF DurInv, FMInv, TypeOK
<1>2. /\ active_file_id' = active_file_id
      /\ write_index' = [write_index EXCEPT ![active_file_id] =
                           RebuildOffset(data[active_file_id])]
  BY LastFile DEF DurInv, Restart, RestoreWriteOffset
<1>3. PICK w \in 0 .. kMaxFileBytes : Chained(data[active_file_id], w)
  BY <1>1 DEF DurInv, Whole
<1>4. RebuildOffset(data[active_file_id]) = w
  BY <1>1, <1>3, RebuildChained
<1> QED
  BY <1>1, <1>2, <1>3, <1>4

LEMMA RestartFiles ==
  ASSUME DurInv, Restart
  PROVE  FMInv'
<1>1. /\ UNCHANGED <<data, linked, files, active_file_id>>
      /\ write_index' \in [FileId -> 0 .. kMaxFileBytes]
  BY RestoredEnd DEF Restart, disk
<1>2. TypeOK' /\ LocalsInv' /\ MuInv' /\ OneRotation' /\ PackInv' /\ AppendStored'
  <2>1. \A t \in Threads : pc'[t] = "idle" /\ entry'[t] = NoRecord
    BY DEF Restart
  <2>2. TypeOK'
    <3>1. TypeOK /\ 0 \in 0 .. kMaxFileBytes
      BY CapacityAssumption DEF DurInv, FMInv
    <3> QED
      BY <1>1, <3>1 DEF Restart, TypeOK, Lines
  <2>3. LocalsInv' /\ MuInv' /\ OneRotation' /\ PackInv' /\ AppendStored'
    BY <2>1 DEF LocalsInv, MuInv, OneRotation, PackInv, AppendStored, Lines, AppendLines,
       AcquireLines, RemoveLines
  <2> QED
    BY <2>2, <2>3
<1>3. DiskInv' /\ MetadataOnDisk'
  BY <1>1 DEF Restart, DurInv, FMInv, DiskInv, MetadataOnDisk
<1>4. FreshInv'
  <2>1. \A f \in FileId : f > active_file_id => f # active_file_id
    BY MaxFileAssumption DEF DurInv, FMInv, TypeOK, FileId
  <2> QED
    BY <1>1, <2>1, RestoredEnd DEF DurInv, FMInv, FreshInv
<1>5. ASSUME NEW f \in FileId, NEW o \in Offset, data[f][o] # NoRecord
      PROVE  o + SizeOf(data[f][o]) <= write_index'[f]
  <2>1. CASE f = active_file_id
    <3>1. data[f][o] \in Entry /\ write_index'[f] \in Nat
      BY <1>1, <1>5, CapacityAssumption DEF DurInv, FMInv, TypeOK, Contents
    <3>2. o + SizeOf(data[f][o]) \in Nat
      BY <3>1, SizePositive DEF Offset
    <3>3. o + SizeOf(data[f][o]) = write_index'[f] \/ o + SizeOf(data[f][o]) < write_index'[f]
      BY <1>5, <2>1, RestoredEnd DEF Chained
    <3> QED
      BY <3>1, <3>2, <3>3
  <2>2. CASE f # active_file_id
    BY <1>5, <2>2, RestoredEnd DEF DurInv, FMInv, RecordsDisjoint, RecordAt, EndOf
  <2> QED
    BY <2>1, <2>2
<1>6. RecordsDisjoint'
  BY <1>1, <1>5 DEF DurInv, FMInv, RecordsDisjoint, RecordAt, EndOf
<1> QED
  BY <1>2, <1>3, <1>4, <1>6 DEF FMInv

LEMMA RestartInv ==
  ASSUME DurInv, Restart
  PROVE  DurInv'
<1>1. /\ UNCHANGED <<data, files, stable, index_file, acked, unacked, synced, writes>>
      /\ active_file_id' = active_file_id
  BY RestoredEnd DEF Restart, disk, durable, history
<1>2. \A t \in Threads : pc'[t] = "idle" /\ at'[t] = "idle"
  BY DEF Restart
<1>3. FMInv'
  BY RestartFiles
<1>4. DurChain'
  <2> DEFINE S == {f \in FileId : f >= active_file_id}
  <2>1. WritableIn(S)'
    BY <1>1, <1>2 DEF WritableIn
  <2>2. ASSUME NEW f \in S PROVE Chained(data[f], write_index'[f])
    <3>1. CASE f = active_file_id
      BY <3>1, RestoredEnd
    <3>2. CASE f # active_file_id
      <4>1. f > active_file_id
        BY <3>2, MaxFileAssumption DEF DurInv, FMInv, TypeOK, FileId
      <4>2. data[f] = Blank /\ write_index'[f] = 0
        BY <3>2, <4>1, RestoredEnd DEF DurInv, FMInv, FreshInv
      <4> QED
        BY <4>2 DEF Chained, Blank
    <3> QED
      BY <3>1, <3>2
  <2>3. ChainOver(S)'
    BY <1>1, <1>2, <2>2 DEF ChainOver
  <2> QED
    BY <2>1, <2>3 DEF DurChain
<1>5. FilesInv' /\ Whole' /\ KeyInv' /\ IndexFileSound' /\ SyncedIsStable'
  BY <1>1, QuietIndex, QuietStable DEF DurInv, FilesInv, Whole, KeyInv
<1>6. \A t \in Threads : PutOK(t)' /\ OrderOK(t)'
  BY <1>2 DEF PutOK, OrderOK
<1>7. DurTypeOK'
  BY <1>1, <1>3, DurAssumption DEF DurInv, DurTypeOK, FMInv, Restart
<1> QED
  BY <1>3, <1>4, <1>5, <1>6, <1>7 DEF DurInv

-----------------------------------------------------------------------------
LEMMA DurInitInv == DurInit => DurInv
<1> SUFFICES ASSUME DurInit PROVE DurInv
  OBVIOUS
<1>1. FMInv /\ ChainOver(FileId)
  BY InitInv, ChainInit DEF DurInit
<1>2. active_file_id = 1 /\ files = {1} /\ data = [f \in FileId |-> Blank]
  BY DEF DurInit, FMInit
<1>3. FilesInv
  BY <1>2 DEF FilesInv
<1>4. Whole /\ DurChain
  <2>1. 0 \in 0 .. kMaxFileBytes
    BY CapacityAssumption
  <2>2. Chained(Blank, 0)
    BY DEF Chained, Blank
  <2>3. \A t \in Threads : pc[t] = "idle"
    BY DEF DurInit, FMInit
  <2>4. WritableIn(FileId)
    BY <2>3 DEF WritableIn
  <2> QED
    BY <1>1, <1>2, <2>1, <2>2, <2>4 DEF Whole, DurChain
<1>5. \A t \in Threads : PutOK(t) /\ OrderOK(t)
  BY DEF DurInit, FMInit, PutOK, OrderOK
<1>6. KeyInv
  BY <1>2 DEF DurInit, KeyInv, LastIn, KeyAt, Blank
<1>7. IndexFileSound /\ SyncedIsStable
  BY DEF DurInit, IndexFileSound, SyncedIsStable, NoIndexFile
<1>8. DurTypeOK
  <2>1. NoIndexFile \in IndexFile
    BY CapacityAssumption DEF NoIndexFile, IndexFile
  <2> QED
    BY <1>1, <2>1, DurAssumption DEF DurInit, DurTypeOK, FMInv
<1> QED
  BY <1>1, <1>3, <1>4, <1>5, <1>6, <1>7, <1>8 DEF DurInv

LEMMA DurNextInv == DurInv /\ [DurNext]_durvars => DurInv'
<1> SUFFICES ASSUME DurInv, [DurNext]_durvars PROVE DurInv'
  OBVIOUS
<1>1. ASSUME NEW t \in Threads, PutBegin(t) \/ PutStep(t) PROVE DurInv'
  BY <1>1, PutBeginInv, PutReturnInv, PutSyncInv, PutFailedInv, SyncReturnInv, DurAppendInv
  DEF PutStep
<1>2. ASSUME NEW f \in FileId, Executor(f) PROVE DurInv'
  BY <1>2, MsyncInv, IndexJobInv, NullInv DEF Executor
<1>3. CASE UNCHANGED durvars
  <2>1. UNCHANGED <<fmvars, putvars, history, counters, stable, index_file, jobs>>
    BY <1>3 DEF durvars, durable
  <2>2. IndexFileSound'
    BY <2>1, QuietIndex DEF fmvars, disk
  <2> QED
    BY <2>1, <2>2, BackgroundInv DEF DurInv, DurTypeOK
<1> QED
  BY <1>1, <1>2, <1>3, MsyncInv, CrashInv, RestartInv DEF DurNext, DurTerminating

(***************************************************************************)
(* DurInv holds in every state, wherever the process is killed.            *)
(***************************************************************************)
THEOREM DurInvariance == DurSpec => []DurInv
BY DurInitInv, DurNextInv, PTL DEF DurSpec

\* Every variable of the durability model keeps its type.
THEOREM DurTypeCorrect == DurSpec => []DurTypeOK
<1>1. DurInv => DurTypeOK
  BY DEF DurInv
<1> QED
  BY <1>1, DurInvariance, PTL

(***************************************************************************)
(* The index file CreateIndexFile writes lists records of its data file    *)
(* and leaves out none before the last one it lists, although Append may   *)
(* still add records to the log it is written from.                        *)
(***************************************************************************)
THEOREM IndexFilesAreSound == DurSpec => []IndexFileSound
<1>1. DurInv => IndexFileSound
  BY DEF DurInv
<1> QED
  BY <1>1, DurInvariance, PTL

(***************************************************************************)
(* The record of a synchronous Put is on the device when the Put returns   *)
(* after a successful Sync, whatever is rotated, crashes or is restarted   *)
(* since, unless a rotation before Sync made it take a later file.         *)
(***************************************************************************)
THEOREM SyncReachesDevice == DurSpec => []SyncedIsStable
<1>1. DurInv => SyncedIsStable
  BY DEF DurInv
<1> QED
  BY <1>1, DurInvariance, PTL

\* Scans meet all records, so they find the last one of every key.
LEMMA ScannedAll ==
  ASSUME DurInv
  PROVE  AckedOnDisk
<1>1. ASSUME NEW f \in FileId PROVE Scanned[f] = Offsets(f)
  <2>1. PICK w \in 0 .. kMaxFileBytes : Chained(data[f], w)
    BY DEF DurInv, Whole
  <2>2. data[f] \in Contents
    BY DEF DurInv, FMInv, TypeOK
  <2>3. RebuildOffset(data[f]) = w
    BY <2>1, <2>2, RebuildChained
  <2>4. ASSUME NEW o \in Offsets(f) PROVE o < w
    <3>1. o \in Offset /\ data[f][o] # NoRecord
      BY DEF Offsets, RecordAt
    <3>2. SizeOf(data[f][o]) \in Nat /\ SizeOf(data[f][o]) > 0
      BY <2>2, <3>1, SizePositive DEF Contents
    <3>3. o + SizeOf(data[f][o]) = w \/ o + SizeOf(data[f][o]) < w
      BY <2>1, <3>1 DEF Chained
    <3> QED
      BY <3>1, <3>2, <3>3, CapacityAssumption DEF Offset
  <2>5. Scanned[f] = {o \in Offsets(f) : o < RebuildOffset(data[f])}
    BY DEF Scanned
  <2> QED
    BY <2>3, <2>4, <2>5
<1> SUFFICES ASSUME NEW k \in Keys
             PROVE  Recovered(k, Scanned) \in {acked[k]} \cup unacked[k]
  BY DEF AckedOnDisk, Survives
<1> DEFINE ls == RecordsOf(k, Scanned)
<1>2. ASSUME NEW l \in Location
      PROVE  l \in ls <=> KeyAt(data, k, l.id, l.offset)
  <2>1. l.id \in FileId /\ l.offset \in Offset
    BY DEF Location
  <2>2. data[l.id][l.offset] # NoRecord => l.id \in files
    BY <2>1, MaxFileAssumption DEF DurInv, FMInv, TypeOK, FreshInv, FilesInv, FileId, Blank
  <2>3. l.offset \in Scanned[l.id] <=> data[l.id][l.offset] # NoRecord
    BY <1>1, <2>1 DEF Offsets, RecordAt
  <2> QED
    BY <2>2, <2>3 DEF RecordsOf, KeyAt
<1>3. ls \subseteq Location
  BY DEF RecordsOf
<1>4. LastIn(data, k, {acked[k]} \cup unacked[k])
  BY DEF DurInv, KeyInv
<1>5. Recovered(k, Scanned) =
        IF ls = {} THEN Empty
        ELSE LET l == CHOOSE l \in ls : \A m \in ls : m = l \/ Before(m, l)
             IN  data[l.id][l.offset].value
  BY DEF Recovered
<1> HIDE DEF ls
<1>6. CASE \A f \in FileId, o \in Offset : ~KeyAt(data, k, f, o)
  <2>1. ls = {}
    BY <1>2, <1>3, <1>6 DEF Location
  <2>2. Empty \in {acked[k]} \cup unacked[k]
    BY <1>4, <1>6 DEF LastIn
  <2> QED
    BY <1>5, <2>1, <2>2
<1>7. CASE \E f \in FileId, o \in Offset : KeyAt(data, k, f, o)
  <2>1. PICK f \in FileId, o \in Offset :
          /\ KeyAt(data, k, f, o) /\ NoneAfter(data, k, f, o)
          /\ data[f][o].value \in {acked[k]} \cup unacked[k]
    BY <1>4, <1>7 DEF LastIn
  <2> DEFINE top == [id |-> f, offset |-> o]
             best(l) == \A m \in ls : m = l \/ Before(m, l)
             l0 == CHOOSE l \in ls : best(l)
  <2>2. top \in Location /\ top.id = f /\ top.offset = o
    BY DEF Location
  <2>3. top \in ls
    BY <1>2, <2>1, <2>2
  <2>4. ASSUME NEW m \in ls PROVE m = top \/ Before(m, top)
    <3>1. /\ m \in Location /\ m.id \in FileId /\ m.offset \in Offset
          /\ m = [id |-> m.id, offset |-> m.offset]
      BY <1>3 DEF Location
    <3>2. m.id < f \/ (m.id = f /\ m.offset <= o)
      BY <1>2, <2>1, <3>1 DEF NoneAfter
    <3>3. m.id < f => m.id # f
      BY <3>1, MaxFileAssumption DEF FileId
    <3>4. m.offset <= o => m.offset = o \/ m.offset < o
      BY <3>1, CapacityAssumption DEF Offset
    <3> QED
      BY <2>2, <3>1, <3>2, <3>3, <3>4 DEF Before
  <2>5. l0 \in ls /\ best(l0)
    BY <2>3, <2>4, Zenon
  <2>6. l0 = top
    <3>1. l0 \in Location /\ l0.id \in FileId /\ l0.offset \in Offset
      BY <1>3, <2>5 DEF Location
    <3>2. (l0 = top \/ Before(l0, top)) /\ (top = l0 \/ Before(top, l0))
      BY <2>3, <2>4, <2>5
    <3>3. ~(Before(l0, top) /\ Before(top, l0))
      <4> HIDE DEF l0, top
      <4> QED
        BY <2>2, <3>1, MaxFileAssumption, CapacityAssumption DEF Before, FileId, Offset
    <3> QED
      BY <3>2, <3>3
  <2>7. Recovered(k, Scanned) = data[l0.id][l0.offset].value
    BY <1>5, <2>3
  <2> QED
    BY <2>1, <2>2, <2>6, <2>7
<1> QED
  BY <1>6, <1>7

(***************************************************************************)
(* Wherever the process is killed, a scan of the data files gives every    *)
(* key the value of its last acknowledged write, or of a later one that    *)
(* was in flight: appends of a key go to ascending locations, a torn       *)
(* record is the last of its file, and a restart continues behind the last *)
(* whole record.                                                           *)
(***************************************************************************)
THEOREM AcknowledgedIsOnDisk == DurSpec => []AckedOnDisk
<1>1. DurInv => AckedOnDisk
  BY ScannedAll
<1> QED
  BY <1>1, DurInvariance, PTL
=============================================================================
