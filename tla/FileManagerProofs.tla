------------------------- MODULE FileManagerProofs -------------------------
(***************************************************************************)
(* Proofs about FileManager, for any number of threads, files and sizes.   *)
(* FMInv is the inductive invariant; each lemma shows that the steps of    *)
(* one call preserve it, one step per action.                              *)
(***************************************************************************)
EXTENDS FileManager, WellFoundedInduction, TLAPS

(***************************************************************************)
(* What CreateFile's UnPack loop finds: in a file whose records stand one  *)
(* behind the other it stops at the end of the last one.                   *)
(***************************************************************************)
LEMMA SizePositive ==
  \A e \in Entry : SizeOf(e) \in Nat /\ SizeOf(e) > 0
BY SizeAssumption

-----------------------------------------------------------------------------
(***************************************************************************)
(* Induction over offsets: a least and a greatest one exist.               *)
(***************************************************************************)
LEMMA LeastNumber ==
  ASSUME NEW T \in SUBSET Nat, T # {}
  PROVE  \E n \in T : \A m \in T : n <= m
<1>1. PICK n \in T : \A m \in T : <<m, n>> \notin OpToRel(<, Nat)
  BY NatLessThanWellFounded, WFMin, Zenon
<1>2. \A m \in T : ~(m < n)
  BY <1>1 DEF OpToRel
<1> QED
  BY <1>2

LEMMA GreatestNumber ==
  ASSUME NEW T \in SUBSET Nat, T # {}, NEW b \in Nat, \A n \in T : n <= b
  PROVE  \E n \in T : \A m \in T : m <= n
<1> DEFINE U == {b - n : n \in T}
<1>1. PICK t \in T : TRUE
  OBVIOUS
<1>2. U \in SUBSET Nat /\ b - t \in U
  OBVIOUS
<1>3. PICK x \in U : \A m \in U : x <= m
  BY <1>2, LeastNumber
<1>4. PICK n \in T : x = b - n
  OBVIOUS
<1>5. ASSUME NEW m \in T PROVE m <= n
  <2>1. b - n <= b - m
    BY <1>3, <1>4
  <2> QED
    BY <2>1
<1> QED
  BY <1>5

-----------------------------------------------------------------------------
\* The records of d stand one behind the other from offset 0 to the end w.
Chained(d, w) ==
  /\ w > 0 => d[0] # NoRecord
  /\ \A o \in Offset : d[o] # NoRecord =>
       LET end == o + SizeOf(d[o]) IN end = w \/ (end < w /\ d[end] # NoRecord)

(***************************************************************************)
(* CreateFile's loop over the records of a file stops at their end.        *)
(***************************************************************************)
LEMMA RebuildChained ==
  ASSUME NEW d \in Contents, NEW w \in 0 .. kMaxFileBytes, Chained(d, w)
  PROVE  RebuildOffset(d) = w
<1> DEFINE K == 0 .. kMaxFileBytes
           walk[o \in K] ==
             IF o \in Offset /\ d[o] # NoRecord THEN walk[o + SizeOf(d[o])] ELSE o
           f == [o \in K |-> IF o \in Offset /\ d[o] # NoRecord THEN w ELSE o]
<1>1. kMaxFileBytes \in Nat /\ Offset \subseteq K /\ w \in K
  BY CapacityAssumption DEF Offset
<1>2. ASSUME NEW o \in Offset, d[o] # NoRecord
      PROVE  /\ SizeOf(d[o]) \in Nat \ {0} /\ o + SizeOf(d[o]) \in K
             /\ o + SizeOf(d[o]) <= w
             /\ o + SizeOf(d[o]) = w \/ d[o + SizeOf(d[o])] # NoRecord
  BY <1>1, <1>2, SizeAssumption DEF Contents, Offset, Chained
\* The recursive equation has a solution, so walk satisfies it.
<1>3. f = [o \in K |-> IF o \in Offset /\ d[o] # NoRecord THEN f[o + SizeOf(d[o])] ELSE o]
  <2>1. ASSUME NEW o \in Offset, d[o] # NoRecord PROVE f[o + SizeOf(d[o])] = w
    BY <1>1, <1>2, <2>1 DEF Offset
  <2> QED
    BY <1>1, <1>2, <2>1
<1>4. walk = [o \in K |->
                IF o \in Offset /\ d[o] # NoRecord THEN walk[o + SizeOf(d[o])] ELSE o]
  <2> HIDE DEF f, K
  <2> QED
    BY <1>3, Zenon DEF walk
<1> HIDE DEF walk
<1>5. walk[w] = w
  <2>1. ~(w \in Offset /\ d[w] # NoRecord)
    BY <1>1, <1>2
  <2> QED
    BY <1>1, <1>4, <2>1
\* From the last record backwards, walk leads from every record to w.
<1> DEFINE B == {o \in Offset : d[o] # NoRecord /\ walk[o] # w}
<1>6. B = {}
  <2> SUFFICES ASSUME B # {} PROVE FALSE
    OBVIOUS
  <2>1. B \in SUBSET Nat /\ \A n \in B : n <= kMaxFileBytes
    BY <1>1 DEF Offset
  <2>2. PICK n \in B : \A m \in B : m <= n
    BY <1>1, <2>1, GreatestNumber
  <2>3. n \in Offset /\ d[n] # NoRecord /\ walk[n] # w
    BY <2>2
  <2> HIDE DEF B
  <2>4. walk[n] = walk[n + SizeOf(d[n])]
    BY <1>1, <1>4, <2>3
  <2>5. CASE n + SizeOf(d[n]) = w
    BY <1>5, <2>3, <2>4, <2>5
  <2>6. CASE n + SizeOf(d[n]) # w
    <3>1. /\ n + SizeOf(d[n]) \in Offset /\ d[n + SizeOf(d[n])] # NoRecord
          /\ n + SizeOf(d[n]) > n
      BY <1>1, <1>2, <2>3, <2>6 DEF Offset
    <3>2. n + SizeOf(d[n]) \in B
      BY <2>3, <2>4, <3>1 DEF B
    <3>3. n + SizeOf(d[n]) <= n
      BY <2>2, <3>2
    <3> QED
      BY <1>2, <2>3, <3>1, <3>3 DEF Offset
  <2> QED
    BY <2>5, <2>6
<1>7. RebuildOffset(d) = IF d[0] = NoRecord THEN 0 ELSE walk[0]
  BY DEF RebuildOffset, walk
<1>8. CASE d[0] = NoRecord
  BY <1>1, <1>7, <1>8 DEF Chained
<1>9. CASE d[0] # NoRecord
  BY <1>6, <1>7, <1>9, CapacityAssumption DEF Offset
<1> QED
  BY <1>8, <1>9

\* It stops at once in a file without records.
LEMMA RebuildBlank == RebuildOffset(Blank) = 0
<1>1. Blank \in Contents /\ Chained(Blank, 0) /\ 0 \in 0 .. kMaxFileBytes
  BY CapacityAssumption DEF Blank, Contents, Chained, Offset
<1> QED
  BY <1>1, RebuildChained

\* A record packed at the end of the last one makes the chain longer.
LEMMA ChainExtend ==
  ASSUME NEW d \in Contents, NEW p \in Offset, NEW e \in Entry, Chained(d, p)
  PROVE  Chained([d EXCEPT ![p] = e], p + SizeOf(e))
<1> DEFINE c == [d EXCEPT ![p] = e]
<1>1. c[p] = e /\ e # NoRecord /\ \A o \in Offset : o # p => c[o] = d[o]
  BY HoleAssumption DEF Contents
<1>2. p \in Nat /\ SizeOf(e) \in Nat \ {0} /\ 0 \in Offset
  BY SizePositive, CapacityAssumption DEF Offset
<1> HIDE DEF c
<1>3. c[0] # NoRecord
  BY <1>1, <1>2 DEF Chained
<1>4. ASSUME NEW o \in Offset, c[o] # NoRecord, o # p
      PROVE  o + SizeOf(c[o]) < p + SizeOf(e) /\ c[o + SizeOf(c[o])] # NoRecord
  <2>1. d[o] # NoRecord /\ c[o] = d[o]
    BY <1>1, <1>4
  <2>2. SizeOf(d[o]) \in Nat
    BY <2>1, SizePositive DEF Contents
  <2>3. o + SizeOf(d[o]) = p \/ (o + SizeOf(d[o]) < p /\ d[o + SizeOf(d[o])] # NoRecord)
    BY <2>1 DEF Chained
  <2>4. o + SizeOf(d[o]) <= p => o + SizeOf(d[o]) \in Offset
    BY <2>2, CapacityAssumption DEF Offset
  <2> QED
    BY <1>1, <1>2, <2>1, <2>2, <2>3, <2>4
<1>5. Chained(c, p + SizeOf(e))
  BY <1>1, <1>3, <1>4 DEF Chained
<1> QED
  BY <1>5 DEF c

-----------------------------------------------------------------------------
\* The state FileManager::Init leaves satisfies the invariant.
LEMMA InitInv == FMInit => FMInv
BY CapacityAssumption, MaxFileAssumption, HoleAssumption, NoThreadAssumption
DEF FMInit, FMInv, TypeOK, LocalsInv, MuInv, OneRotation, PackInv, FreshInv,
    DiskInv, RecordsDisjoint, AppendStored, MetadataOnDisk, Blank, Contents,
    FileId, Offset, Lines, AppendLines, AcquireLines, RemoveLines, RecordAt, EndOf

\* Steps that change neither FMInv's variables nor anything else.
LEMMA StutterInv == FMInv /\ UNCHANGED fmvars => FMInv'
BY DEF FMInv, TypeOK, LocalsInv, MuInv, OneRotation, PackInv, FreshInv, DiskInv,
       RecordsDisjoint, AppendStored, MetadataOnDisk, fmvars, disk, shared,
       locks, locals, NextFile, RecordAt, EndOf

-----------------------------------------------------------------------------
\* A call begins, or a caller takes its result: only locals change.
LEMMA AppendCallInv ==
  ASSUME FMInv, NEW t \in Threads, NEW e \in Entry, AppendCall(t, e)
  PROVE  FMInv'
<1> USE MaxFileAssumption, HoleAssumption, NoThreadAssumption
<1> USE DEF FMInv, disk, shared, locks, locals, At, Goto, Finish, NextFile,
            FileId, Lines, AppendLines, AcquireLines, RemoveLines, RecordAt, EndOf
<1>1. TypeOK'
  BY DEF AppendCall, TypeOK, LocalsInv
<1>2. LocalsInv' /\ MuInv' /\ OneRotation'
  BY DEF AppendCall, TypeOK, LocalsInv, MuInv, OneRotation
<1>3. DiskInv' /\ MetadataOnDisk'
  BY DEF AppendCall, TypeOK, LocalsInv, MuInv, OneRotation, DiskInv, MetadataOnDisk
<1>4. PackInv' /\ FreshInv' /\ RecordsDisjoint' /\ AppendStored'
  BY DEF AppendCall, TypeOK, LocalsInv, PackInv, FreshInv, RecordsDisjoint, AppendStored
<1> QED
  BY <1>1, <1>2, <1>3, <1>4

\* Any file may be acquired: DBImpl asks for files that have been removed, too.
LEMMA AcquireCallInv ==
  ASSUME FMInv, NEW t \in Threads, NEW f \in FileId, AcquireCall(t, f)
  PROVE  FMInv'
<1> USE MaxFileAssumption, HoleAssumption, NoThreadAssumption
<1> USE DEF FMInv, disk, shared, locks, locals, At, Goto, Finish, NextFile,
            FileId, Lines, AppendLines, AcquireLines, RemoveLines, RecordAt, EndOf
<1>1. TypeOK'
  BY DEF AcquireCall, TypeOK, LocalsInv
<1>2. LocalsInv' /\ MuInv' /\ OneRotation'
  BY DEF AcquireCall, TypeOK, LocalsInv, MuInv, OneRotation
<1>3. DiskInv' /\ MetadataOnDisk'
  BY DEF AcquireCall, TypeOK, LocalsInv, MuInv, OneRotation, DiskInv, MetadataOnDisk
<1>4. PackInv' /\ FreshInv' /\ RecordsDisjoint' /\ AppendStored'
  BY DEF AcquireCall, TypeOK, LocalsInv, PackInv, FreshInv, RecordsDisjoint, AppendStored
<1> QED
  BY <1>1, <1>2, <1>3, <1>4

\* Only a file that has been active may be removed.
LEMMA RemoveCallInv ==
  ASSUME FMInv, NEW t \in Threads, NEW f \in FileId, f <= active_file_id,
         RemoveCall(t, f)
  PROVE  FMInv'
<1> USE MaxFileAssumption, HoleAssumption, NoThreadAssumption
<1> USE DEF FMInv, disk, shared, locks, locals, At, Goto, Finish, NextFile,
            FileId, Lines, AppendLines, AcquireLines, RemoveLines, RecordAt, EndOf
<1>1. TypeOK'
  BY DEF RemoveCall, TypeOK, LocalsInv
<1>2. LocalsInv' /\ MuInv' /\ OneRotation'
  BY DEF RemoveCall, TypeOK, LocalsInv, MuInv, OneRotation, DiskInv
<1>3. DiskInv' /\ MetadataOnDisk'
  BY DEF RemoveCall, TypeOK, LocalsInv, MuInv, OneRotation, DiskInv, MetadataOnDisk
<1>4. PackInv' /\ FreshInv' /\ RecordsDisjoint' /\ AppendStored'
  BY DEF RemoveCall, TypeOK, LocalsInv, PackInv, FreshInv, RecordsDisjoint, AppendStored
<1> QED
  BY <1>1, <1>2, <1>3, <1>4

LEMMA ReturnInv ==
  ASSUME FMInv, NEW t \in Threads, Return(t)
  PROVE  FMInv'
<1> USE MaxFileAssumption, HoleAssumption, NoThreadAssumption
<1> USE DEF FMInv, disk, shared, locks, locals, At, Goto, Finish, NextFile,
            FileId, Lines, AppendLines, AcquireLines, RemoveLines, RecordAt, EndOf
<1>1. TypeOK'
  BY CapacityAssumption DEF Return, Reset, TypeOK, LocalsInv
<1>2. LocalsInv' /\ MuInv' /\ OneRotation'
  BY DEF Return, Reset, TypeOK, LocalsInv, MuInv, OneRotation
<1>3. DiskInv' /\ MetadataOnDisk'
  BY DEF Return, Reset, TypeOK, LocalsInv, MuInv, OneRotation, DiskInv, MetadataOnDisk
<1>4. PackInv' /\ AppendStored'
  BY DEF Return, Reset, TypeOK, PackInv, AppendStored
<1>5. FreshInv' /\ RecordsDisjoint'
  BY DEF Return, FreshInv, RecordsDisjoint
<1> QED
  BY <1>1, <1>2, <1>3, <1>4, <1>5

LEMMA CallInv ==
  ASSUME FMInv, NEW t \in Threads, FMCall(t) \/ Return(t)
  PROVE  FMInv'
<1>1. \A f \in files : f \in FileId /\ f <= active_file_id
  BY DEF FMInv, TypeOK, DiskInv
<1> QED
  BY <1>1, AppendCallInv, AcquireCallInv, RemoveCallInv, ReturnInv DEF FMCall

-----------------------------------------------------------------------------
\* AcquireDataFile touches nothing but the cache of open files.
LEMMA AcquireInv ==
  ASSUME FMInv, NEW t \in Threads, AcquireStep(t)
  PROVE  FMInv'
<1> USE MaxFileAssumption, HoleAssumption, NoThreadAssumption
<1> USE DEF FMInv, disk, shared, locks, locals, At, Goto, Finish, NextFile,
            FileId, Lines, AppendLines, AcquireLines, RemoveLines, RecordAt, EndOf
<1>1. CASE AcquireHit(t)
  <2>1. TypeOK'
    BY <1>1 DEF AcquireHit, TypeOK, LocalsInv
  <2>2. LocalsInv' /\ MuInv' /\ OneRotation'
    BY <1>1 DEF AcquireHit, TypeOK, LocalsInv, MuInv, OneRotation
  <2>3. DiskInv' /\ MetadataOnDisk'
    BY <1>1 DEF AcquireHit, TypeOK, LocalsInv, MuInv, OneRotation, DiskInv, MetadataOnDisk
  <2>4. PackInv' /\ FreshInv' /\ RecordsDisjoint' /\ AppendStored'
    BY <1>1 DEF AcquireHit, TypeOK, LocalsInv, PackInv, FreshInv, RecordsDisjoint, AppendStored
  <2> QED
    BY <2>1, <2>2, <2>3, <2>4
<1>2. CASE AcquireMiss(t)
  <2>1. TypeOK'
    BY <1>2 DEF AcquireMiss, TypeOK, LocalsInv
  <2>2. LocalsInv' /\ MuInv' /\ OneRotation'
    BY <1>2 DEF AcquireMiss, TypeOK, LocalsInv, MuInv, OneRotation
  <2>3. DiskInv' /\ MetadataOnDisk'
    BY <1>2 DEF AcquireMiss, TypeOK, LocalsInv, MuInv, OneRotation, DiskInv, MetadataOnDisk
  <2>4. PackInv' /\ FreshInv' /\ RecordsDisjoint' /\ AppendStored'
    BY <1>2 DEF AcquireMiss, TypeOK, LocalsInv, PackInv, FreshInv, RecordsDisjoint, AppendStored
  <2> QED
    BY <2>1, <2>2, <2>3, <2>4
<1>3. CASE AcquireOpen(t)
  <2>1. TypeOK'
    BY <1>3 DEF AcquireOpen, TypeOK, LocalsInv
  <2>2. LocalsInv' /\ MuInv' /\ OneRotation'
    BY <1>3 DEF AcquireOpen, TypeOK, LocalsInv, MuInv, OneRotation
  <2>3. DiskInv' /\ MetadataOnDisk'
    BY <1>3 DEF AcquireOpen, TypeOK, LocalsInv, MuInv, OneRotation, DiskInv, MetadataOnDisk
  <2>4. PackInv' /\ FreshInv' /\ RecordsDisjoint' /\ AppendStored'
    BY <1>3 DEF AcquireOpen, TypeOK, LocalsInv, PackInv, FreshInv, RecordsDisjoint, AppendStored
  <2> QED
    BY <2>1, <2>2, <2>3, <2>4
<1>4. CASE AcquireOpenFail(t)
  <2>1. TypeOK'
    BY <1>4 DEF AcquireOpenFail, TypeOK, LocalsInv
  <2>2. LocalsInv' /\ MuInv' /\ OneRotation'
    BY <1>4 DEF AcquireOpenFail, TypeOK, LocalsInv, MuInv, OneRotation
  <2>3. DiskInv' /\ MetadataOnDisk'
    BY <1>4 DEF AcquireOpenFail, TypeOK, LocalsInv, MuInv, OneRotation, DiskInv, MetadataOnDisk
  <2>4. PackInv' /\ FreshInv' /\ RecordsDisjoint' /\ AppendStored'
    BY <1>4 DEF AcquireOpenFail, TypeOK, LocalsInv, PackInv, FreshInv, RecordsDisjoint, AppendStored
  <2> QED
    BY <2>1, <2>2, <2>3, <2>4
<1>5. CASE AcquireCache(t)
  <2>1. TypeOK'
    <3>1. file_id[t] \in FileId
      BY <1>5 DEF AcquireCache, TypeOK, LocalsInv
    <3>2. open_files' \in SUBSET FileId
      <4> HIDE DEF FileId, NextFile
      <4> QED
        BY <1>5, <3>1 DEF AcquireCache, TypeOK
    <3> QED
      BY <1>5, <3>2 DEF AcquireCache, TypeOK
  <2>2. LocalsInv' /\ MuInv' /\ OneRotation'
    BY <1>5 DEF AcquireCache, TypeOK, LocalsInv, MuInv, OneRotation
  <2>3. DiskInv' /\ MetadataOnDisk'
    BY <1>5 DEF AcquireCache, TypeOK, LocalsInv, MuInv, OneRotation, DiskInv, MetadataOnDisk
  <2>4. PackInv' /\ FreshInv' /\ RecordsDisjoint' /\ AppendStored'
    BY <1>5 DEF AcquireCache, TypeOK, LocalsInv, PackInv, FreshInv, RecordsDisjoint, AppendStored
  <2> QED
    BY <2>1, <2>2, <2>3, <2>4
<1> QED
  BY <1>1, <1>2, <1>3, <1>4, <1>5 DEF AcquireStep

-----------------------------------------------------------------------------
(***************************************************************************)
(* RemoveFile: the metadata forgets the file before its name goes, so      *)
(* MetadataOnDisk survives; nobody can be about to publish that file.      *)
(***************************************************************************)
LEMMA RemoveInv ==
  ASSUME FMInv, NEW t \in Threads, RemoveStep(t)
  PROVE  FMInv'
<1> USE MaxFileAssumption, HoleAssumption, NoThreadAssumption
<1> USE DEF FMInv, disk, shared, locks, locals, At, Goto, Finish, NextFile,
            FileId, Lines, AppendLines, AcquireLines, RemoveLines, RecordAt, EndOf
<1>1. CASE RemoveRelease(t)
  <2>1. TypeOK'
    BY <1>1 DEF RemoveRelease, TypeOK, LocalsInv
  <2>2. LocalsInv' /\ MuInv' /\ OneRotation'
    BY <1>1 DEF RemoveRelease, TypeOK, LocalsInv, MuInv, OneRotation
  <2>3. DiskInv' /\ MetadataOnDisk'
    BY <1>1 DEF RemoveRelease, TypeOK, LocalsInv, MuInv, OneRotation, DiskInv, MetadataOnDisk
  <2>4. PackInv' /\ FreshInv' /\ RecordsDisjoint' /\ AppendStored'
    BY <1>1 DEF RemoveRelease, TypeOK, LocalsInv, PackInv, FreshInv, RecordsDisjoint, AppendStored
  <2> QED
    BY <2>1, <2>2, <2>3, <2>4
<1>2. CASE RemoveMetadata(t)
  <2>1. TypeOK'
    BY <1>2 DEF RemoveMetadata, TypeOK, LocalsInv
  <2>2. LocalsInv' /\ MuInv' /\ OneRotation'
    BY <1>2 DEF RemoveMetadata, TypeOK, LocalsInv, MuInv, OneRotation
  <2>3. DiskInv' /\ MetadataOnDisk'
    BY <1>2 DEF RemoveMetadata, TypeOK, LocalsInv, MuInv, OneRotation, DiskInv, MetadataOnDisk
  <2>4. PackInv' /\ FreshInv' /\ RecordsDisjoint' /\ AppendStored'
    BY <1>2 DEF RemoveMetadata, TypeOK, LocalsInv, PackInv, FreshInv, RecordsDisjoint, AppendStored
  <2> QED
    BY <2>1, <2>2, <2>3, <2>4
<1>3. CASE RemoveUnlink(t)
  <2>1. TypeOK'
    BY <1>3 DEF RemoveUnlink, TypeOK, LocalsInv
  <2>2. LocalsInv' /\ MuInv' /\ OneRotation'
    BY <1>3 DEF RemoveUnlink, TypeOK, LocalsInv, MuInv, OneRotation
  <2>3. DiskInv' /\ MetadataOnDisk'
    BY <1>3 DEF RemoveUnlink, TypeOK, LocalsInv, MuInv, OneRotation, DiskInv, MetadataOnDisk
  <2>4. PackInv' /\ FreshInv' /\ RecordsDisjoint' /\ AppendStored'
    BY <1>3 DEF RemoveUnlink, TypeOK, LocalsInv, PackInv, FreshInv, RecordsDisjoint, AppendStored
  <2> QED
    BY <2>1, <2>2, <2>3, <2>4
<1>4. CASE RemoveMetadataFail(t)
  <2>1. TypeOK'
    BY <1>4 DEF RemoveMetadataFail, TypeOK, LocalsInv
  <2>2. LocalsInv' /\ MuInv' /\ OneRotation'
    BY <1>4 DEF RemoveMetadataFail, TypeOK, LocalsInv, MuInv, OneRotation
  <2>3. DiskInv' /\ MetadataOnDisk'
    BY <1>4 DEF RemoveMetadataFail, TypeOK, LocalsInv, MuInv, OneRotation, DiskInv, MetadataOnDisk
  <2>4. PackInv' /\ FreshInv' /\ RecordsDisjoint' /\ AppendStored'
    BY <1>4 DEF RemoveMetadataFail, TypeOK, LocalsInv, PackInv, FreshInv, RecordsDisjoint, AppendStored
  <2> QED
    BY <2>1, <2>2, <2>3, <2>4
<1> QED
  BY <1>1, <1>2, <1>3, <1>4 DEF RemoveStep

-----------------------------------------------------------------------------
\* What a thread between Allocate and Pack knows.
LEMMA PackFacts ==
  ASSUME FMInv, up, NEW t \in Threads, pc[t] = "pack"
  PROVE  /\ file_id[t] \in FileId
         /\ file_id[t] <= active_file_id
         /\ entry[t] \in Entry
         /\ offset[t] \in Offset
         /\ offset[t] + SizeOf(entry[t]) = write_index[file_id[t]]
<1>1. file_id[t] \in FileId /\ entry[t] \in Entry
  BY DEF FMInv, LocalsInv, Lines, AppendLines
<1>2. /\ offset[t] \in Nat
      /\ SizeOf(entry[t]) \in Nat /\ SizeOf(entry[t]) > 0
      /\ write_index[file_id[t]] \in 0 .. kMaxFileBytes
      /\ offset[t] + SizeOf(entry[t]) = write_index[file_id[t]]
  BY <1>1, SizePositive, CapacityAssumption DEF FMInv, TypeOK, PackInv
<1>3. offset[t] \in Offset
  BY <1>2, CapacityAssumption DEF Offset
<1>4. ~(file_id[t] > active_file_id)
  BY <1>1, <1>2 DEF FMInv, FreshInv
<1>5. file_id[t] <= active_file_id
  BY <1>1, <1>4, MaxFileAssumption DEF FMInv, TypeOK, FileId
<1> QED
  BY <1>1, <1>2, <1>3, <1>5

\* Pack writes behind every record of its file and over none.
LEMMA PackWrites ==
  ASSUME FMInv, up, NEW t \in Threads, pc[t] = "pack", WriteRecord(t),
         write_index' = write_index, active_file_id' = active_file_id
  PROVE  /\ data' \in [FileId -> Contents]
         /\ data'[file_id[t]][offset[t]] = entry[t]
         /\ \A f \in FileId, o \in Offset :
              RecordAt(f, o) => data'[f][o] = data[f][o]
         /\ \A f \in FileId : f # file_id[t] => data'[f] = data[f]
         /\ RecordsDisjoint'
         /\ FreshInv'
<1>0. PICK f \in FileId, p \in Offset : f = file_id[t] /\ p = offset[t]
  BY PackFacts
<1>1. /\ f <= active_file_id
      /\ entry[t] \in Entry
      /\ p + SizeOf(entry[t]) = write_index[f]
  BY <1>0, PackFacts
<1>2. /\ data \in [FileId -> Contents]
      /\ data' = [data EXCEPT ![f] = [data[f] EXCEPT ![p] = entry[t]]]
  BY <1>0 DEF FMInv, TypeOK, WriteRecord
<1>3. data[f] \in [Offset -> Entry \cup {NoRecord}]
  BY <1>1, <1>2 DEF Contents
<1>4. /\ data' \in [FileId -> Contents]
      /\ \A g \in FileId : g # f => data'[g] = data[g]
      /\ data'[f][p] = entry[t]
      /\ \A o \in Offset : o # p => data'[f][o] = data[f][o]
  BY <1>1, <1>2, <1>3 DEF Contents
<1>5. \A o \in Offset : RecordAt(f, o) =>
        /\ SizeOf(data[f][o]) \in Nat
        /\ SizeOf(data[f][o]) > 0
        /\ EndOf(f, o) <= p
        /\ o < p
  <2> TAKE o \in Offset
  <2> HAVE RecordAt(f, o)
  <2>1. data[f][o] \in Entry
    BY <1>3 DEF RecordAt
  <2>2. SizeOf(data[f][o]) \in Nat /\ SizeOf(data[f][o]) > 0
    BY <2>1, SizePositive
  <2>3. EndOf(f, o) <= p
    BY <1>0 DEF FMInv, PackInv
  <2> QED
    BY <2>2, <2>3, CapacityAssumption DEF EndOf, Offset
<1>6. \A g \in FileId, o \in Offset :
        RecordAt(g, o) => data'[g][o] = data[g][o]
  <2> SUFFICES ASSUME NEW g \in FileId, NEW o \in Offset, RecordAt(g, o)
               PROVE  data'[g][o] = data[g][o]
    OBVIOUS
  <2>1. CASE g = f
    BY <1>1, <1>4, <1>5, <2>1, CapacityAssumption DEF Offset
  <2>2. CASE g # f
    BY <1>4, <2>2
  <2> QED
    BY <2>1, <2>2
<1>7. RecordsDisjoint'
  <2> SUFFICES ASSUME NEW g \in FileId, NEW o \in Offset, RecordAt(g, o)'
               PROVE  /\ EndOf(g, o)' <= write_index[g]
                      /\ \A q \in Offset :
                           RecordAt(g, q)' /\ o < q => EndOf(g, o)' <= q
    BY DEF RecordsDisjoint
  <2>1. CASE g # f
    BY <1>4, <2>1 DEF FMInv, RecordsDisjoint, RecordAt, EndOf
  <2>2. CASE g = f /\ o # p
    <3>1. RecordAt(f, o) /\ EndOf(f, o)' = EndOf(f, o)
      BY <1>4, <2>2 DEF RecordAt, EndOf
    <3>2. /\ EndOf(f, o) <= write_index[f]
          /\ \A q \in Offset : RecordAt(f, q) /\ o < q => EndOf(f, o) <= q
      BY <1>1, <3>1 DEF FMInv, RecordsDisjoint
    <3>3. EndOf(f, o) <= p
      BY <1>5, <3>1
    <3>4. \A q \in Offset : RecordAt(f, q)' => q = p \/ RecordAt(f, q)
      BY <1>4 DEF RecordAt
    <3> QED
      BY <2>2, <3>1, <3>2, <3>3, <3>4
  <2>3. CASE g = f /\ o = p
    <3>1. EndOf(f, p)' = write_index[f]
      BY <1>1, <1>4 DEF EndOf
    <3>2. \A q \in Offset : RecordAt(f, q)' => q <= p
      BY <1>1, <1>4, <1>5, CapacityAssumption DEF RecordAt, Offset
    <3>3. write_index[f] \in Nat
      BY <1>1, CapacityAssumption DEF FMInv, TypeOK
    <3> QED
      BY <2>3, <3>1, <3>2, <3>3, <1>1, CapacityAssumption DEF Offset
  <2> QED
    BY <2>1, <2>2, <2>3
<1>8. FreshInv'
  BY <1>1, <1>4, MaxFileAssumption DEF FMInv, TypeOK, FreshInv, FileId
<1> QED
  BY <1>0, <1>4, <1>6, <1>7, <1>8

-----------------------------------------------------------------------------
(***************************************************************************)
(* Append: a thread between Allocate and Pack owns the end of its file,    *)
(* and a new active file is blank.                                         *)
(***************************************************************************)
LEMMA AppendInv ==
  ASSUME FMInv, NEW t \in Threads, AppendStep(t)
  PROVE  FMInv'
<1> USE MaxFileAssumption, HoleAssumption, NoThreadAssumption
<1> USE DEF FMInv, disk, shared, locks, locals, At, Goto, Finish, NextFile,
            FileId, Lines, AppendLines, AcquireLines, RemoveLines, RecordAt, EndOf,
            Allocate, Fits, FileMutexFree
<1>1. CASE AppendSnapshot(t)
  <2>1. TypeOK'
    BY <1>1 DEF AppendSnapshot, TypeOK, LocalsInv
  <2>2. LocalsInv' /\ MuInv' /\ OneRotation'
    BY <1>1 DEF AppendSnapshot, TypeOK, LocalsInv, MuInv, OneRotation
  <2>3. DiskInv' /\ MetadataOnDisk'
    BY <1>1 DEF AppendSnapshot, TypeOK, LocalsInv, MuInv, OneRotation, DiskInv, MetadataOnDisk
  <2>4. PackInv' /\ FreshInv' /\ RecordsDisjoint' /\ AppendStored'
    BY <1>1 DEF AppendSnapshot, TypeOK, LocalsInv, PackInv, FreshInv, RecordsDisjoint, AppendStored
  <2> QED
    BY <2>1, <2>2, <2>3, <2>4
<1>2. CASE AllocateOk(t)
  <2>1. TypeOK'
    <3>1. /\ file_id[t] \in FileId
          /\ SizeOf(entry[t]) \in Nat
          /\ write_index[file_id[t]] \in 0 .. kMaxFileBytes
      BY <1>2, SizePositive DEF AllocateOk, TypeOK, LocalsInv
    <3>2. write_index[file_id[t]] + SizeOf(entry[t]) \in 0 .. kMaxFileBytes
      BY <1>2, <3>1, CapacityAssumption DEF AllocateOk
    <3> QED
      BY <1>2, <3>1, <3>2 DEF AllocateOk, TypeOK
  <2>2. LocalsInv' /\ MuInv' /\ OneRotation'
    BY <1>2 DEF AllocateOk, TypeOK, LocalsInv, MuInv, OneRotation
  <2>3. DiskInv' /\ MetadataOnDisk'
    BY <1>2 DEF AllocateOk, TypeOK, LocalsInv, MuInv, OneRotation, DiskInv, MetadataOnDisk
  <2>4. PackInv' /\ FreshInv' /\ RecordsDisjoint' /\ AppendStored'
    <3> DEFINE f == file_id[t]
    <3>1. /\ f \in FileId /\ f <= active_file_id
          /\ SizeOf(entry[t]) \in Nat
          /\ write_index[f] \in Nat
          /\ \A o \in Offset : RecordAt(f, o) => EndOf(f, o) <= write_index[f]
      <4>1. f \in FileId /\ f <= active_file_id /\ entry[t] \in Entry
        BY <1>2 DEF AllocateOk, LocalsInv
      <4> QED
        BY <4>1, SizePositive, CapacityAssumption DEF TypeOK, RecordsDisjoint
    <3>2. /\ data' = data
          /\ write_index' = [write_index EXCEPT ![f] = @ + SizeOf(entry[t])]
      BY <1>2 DEF AllocateOk
    <3>3. PackInv'
      BY <1>2, <3>1 DEF AllocateOk, TypeOK, LocalsInv, PackInv
    <3>4. FreshInv'
      BY <3>1, <3>2, <1>2 DEF AllocateOk, TypeOK, FreshInv
    <3>5. \A g \in FileId : write_index[g] <= write_index'[g]
      BY <3>1, <3>2, CapacityAssumption DEF TypeOK
    <3>6. RecordsDisjoint'
      <4> SUFFICES ASSUME NEW g \in FileId, NEW o \in Offset, RecordAt(g, o)
                   PROVE  EndOf(g, o) <= write_index'[g]
        BY <3>2 DEF RecordsDisjoint
      <4>1. data[g][o] \in Entry
        BY DEF TypeOK, Contents
      <4>2. EndOf(g, o) \in Int /\ EndOf(g, o) <= write_index[g]
        BY <4>1, SizePositive DEF RecordsDisjoint, Offset
      <4>3. write_index[g] \in Int /\ write_index'[g] \in Int
        BY <2>1, CapacityAssumption DEF TypeOK
      <4> HIDE DEF EndOf
      <4> QED
        BY <3>5, <4>2, <4>3
    <3>7. AppendStored'
      BY <1>2 DEF AllocateOk, TypeOK, AppendStored
    <3> QED
      BY <3>3, <3>4, <3>6, <3>7
  <2> QED
    BY <2>1, <2>2, <2>3, <2>4
<1>3. CASE AllocateFull(t)
  <2>1. TypeOK'
    BY <1>3 DEF AllocateFull, TypeOK, LocalsInv
  <2>2. LocalsInv' /\ MuInv' /\ OneRotation'
    BY <1>3 DEF AllocateFull, TypeOK, LocalsInv, MuInv, OneRotation
  <2>3. DiskInv' /\ MetadataOnDisk'
    BY <1>3 DEF AllocateFull, TypeOK, LocalsInv, MuInv, OneRotation, DiskInv, MetadataOnDisk
  <2>4. PackInv' /\ FreshInv' /\ RecordsDisjoint' /\ AppendStored'
    BY <1>3 DEF AllocateFull, TypeOK, LocalsInv, PackInv, FreshInv, RecordsDisjoint, AppendStored
  <2> QED
    BY <2>1, <2>2, <2>3, <2>4
<1>4. CASE AppendPack(t)
  <2>1. TypeOK'
    BY <1>4, PackWrites DEF AppendPack, TypeOK, LocalsInv, shared
  <2>2. LocalsInv' /\ MuInv' /\ OneRotation'
    BY <1>4, PackFacts DEF AppendPack, TypeOK, LocalsInv, MuInv, OneRotation
  <2>3. DiskInv' /\ MetadataOnDisk'
    BY <1>4 DEF AppendPack, TypeOK, LocalsInv, MuInv, OneRotation, DiskInv, MetadataOnDisk
  <2>4. PackInv' /\ FreshInv' /\ RecordsDisjoint' /\ AppendStored'
    <3>1. /\ data'[file_id[t]][offset[t]] = entry[t]
          /\ \A f \in FileId, o \in Offset :
               RecordAt(f, o) => data'[f][o] = data[f][o]
          /\ \A f \in FileId : f # file_id[t] => data'[f] = data[f]
          /\ RecordsDisjoint' /\ FreshInv'
      BY <1>4, PackWrites DEF AppendPack
    <3>2. PackInv'
      <4> SUFFICES ASSUME NEW u \in Threads, pc'[u] = "pack"
                   PROVE  /\ file_mu'[file_id[u]] = u
                          /\ data'[file_id[u]] = data[file_id[u]]
        BY <1>4 DEF AppendPack, TypeOK, PackInv
      <4>1. u # t /\ pc[u] = "pack"
        BY <1>4 DEF AppendPack, TypeOK
      <4>2. file_mu[file_id[t]] = t /\ file_mu[file_id[u]] = u
        BY <1>4, <4>1 DEF AppendPack, PackInv
      <4>3. file_id[u] \in FileId /\ file_id[u] # file_id[t]
        BY <4>1, <4>2, <1>4, PackFacts DEF AppendPack
      <4> QED
        BY <1>4, <3>1, <4>2, <4>3 DEF AppendPack, TypeOK
    <3>3. AppendStored'
      <4> SUFFICES ASSUME NEW u \in Threads, u # t, pc[u] = "returned",
                          entry[u] # NoRecord, status[u] = "kOk"
                   PROVE  data'[file_id[u]][offset[u]] = entry[u]
        BY <1>4, <3>1 DEF AppendPack, TypeOK, AppendStored
      <4> QED
        BY <3>1 DEF LocalsInv, AppendStored
    <3> QED
      BY <3>1, <3>2, <3>3
  <2> QED
    BY <2>1, <2>2, <2>3, <2>4
<1>5. CASE AppendPackNullLog(t)
  <2>1. TypeOK'
    BY <1>5, PackWrites DEF AppendPackNullLog, TypeOK, LocalsInv, shared
  <2>2. LocalsInv' /\ MuInv' /\ OneRotation'
    BY <1>5 DEF AppendPackNullLog, TypeOK, LocalsInv, MuInv, OneRotation
  <2>3. DiskInv' /\ MetadataOnDisk'
    BY <1>5 DEF AppendPackNullLog, TypeOK, LocalsInv, MuInv, OneRotation, DiskInv, MetadataOnDisk
  <2>4. PackInv' /\ FreshInv' /\ RecordsDisjoint' /\ AppendStored'
    <3>1. /\ \A f \in FileId, o \in Offset :
               RecordAt(f, o) => data'[f][o] = data[f][o]
          /\ RecordsDisjoint' /\ FreshInv'
      BY <1>5, PackWrites DEF AppendPackNullLog
    <3>2. PackInv'
      BY <1>5 DEF AppendPackNullLog, PackInv
    <3>3. AppendStored'
      BY <1>5, <3>1 DEF AppendPackNullLog, TypeOK, LocalsInv, AppendStored
    <3> QED
      BY <3>1, <3>2, <3>3
  <2> QED
    BY <2>1, <2>2, <2>3, <2>4
<1>6. CASE RotateLost(t)
  <2>1. TypeOK'
    BY <1>6 DEF RotateLost, TypeOK, LocalsInv
  <2>2. LocalsInv' /\ MuInv' /\ OneRotation'
    BY <1>6 DEF RotateLost, TypeOK, LocalsInv, MuInv, OneRotation
  <2>3. DiskInv' /\ MetadataOnDisk'
    BY <1>6 DEF RotateLost, TypeOK, LocalsInv, MuInv, OneRotation, DiskInv, MetadataOnDisk
  <2>4. PackInv' /\ FreshInv' /\ RecordsDisjoint' /\ AppendStored'
    BY <1>6 DEF RotateLost, TypeOK, LocalsInv, PackInv, FreshInv, RecordsDisjoint, AppendStored
  <2> QED
    BY <2>1, <2>2, <2>3, <2>4
<1>7. CASE CreateFileBegin(t)
  <2>1. TypeOK'
    BY <1>7 DEF CreateFileBegin, TypeOK, LocalsInv
  <2>2. LocalsInv' /\ MuInv' /\ OneRotation'
    BY <1>7 DEF CreateFileBegin, TypeOK, LocalsInv, MuInv, OneRotation
  <2>3. DiskInv' /\ MetadataOnDisk'
    BY <1>7 DEF CreateFileBegin, TypeOK, LocalsInv, MuInv, OneRotation, DiskInv, MetadataOnDisk
  <2>4. PackInv' /\ FreshInv' /\ RecordsDisjoint' /\ AppendStored'
    BY <1>7 DEF CreateFileBegin, TypeOK, LocalsInv, PackInv, FreshInv, RecordsDisjoint, AppendStored
  <2> QED
    BY <2>1, <2>2, <2>3, <2>4
<1>8. CASE CreateFileOpen(t)
  <2>0. data' = data /\ write_index' = write_index
    <3> DEFINE n == NextFile(t)
    <3>1. n \in FileId /\ n > active_file_id
      BY <1>8 DEF CreateFileOpen, TypeOK, OneRotation
    <3>2. data[n] = Blank /\ write_index[n] = 0
      BY <3>1 DEF FreshInv
    <3>3. data' = data
      BY <1>8, <3>1, <3>2 DEF CreateFileOpen, TypeOK
    <3>4. write_index' = [write_index EXCEPT ![n] = 0]
      BY <1>8, <3>2, <3>3, RebuildBlank DEF CreateFileOpen
    <3> QED
      BY <3>1, <3>2, <3>3, <3>4 DEF TypeOK
  <2>1. TypeOK'
    <3>1. linked' \in SUBSET FileId
      <4> HIDE DEF FileId, NextFile
      <4> QED
        BY <1>8 DEF CreateFileOpen, TypeOK
    <3> QED
      BY <1>8, <2>0, <3>1 DEF CreateFileOpen, TypeOK
  <2>2. LocalsInv' /\ MuInv' /\ OneRotation'
    BY <1>8 DEF CreateFileOpen, TypeOK, LocalsInv, MuInv, OneRotation
  <2>3. DiskInv' /\ MetadataOnDisk'
    BY <1>8 DEF CreateFileOpen, TypeOK, LocalsInv, MuInv, OneRotation, DiskInv, MetadataOnDisk
  <2>4. PackInv' /\ FreshInv' /\ RecordsDisjoint' /\ AppendStored'
    <3>1. PackInv' /\ AppendStored'
      BY <1>8, <2>0 DEF CreateFileOpen, TypeOK, PackInv, AppendStored
    <3>2. FreshInv' /\ RecordsDisjoint'
      BY <1>8, <2>0 DEF CreateFileOpen, FreshInv, RecordsDisjoint
    <3> QED
      BY <3>1, <3>2
  <2> QED
    BY <2>1, <2>2, <2>3, <2>4
<1>9. CASE CreateFileFail(t)
  <2>1. TypeOK'
    BY <1>9 DEF CreateFileFail, TypeOK, LocalsInv
  <2>2. LocalsInv' /\ MuInv' /\ OneRotation'
    BY <1>9 DEF CreateFileFail, TypeOK, LocalsInv, MuInv, OneRotation
  <2>3. DiskInv' /\ MetadataOnDisk'
    BY <1>9 DEF CreateFileFail, TypeOK, LocalsInv, MuInv, OneRotation, DiskInv, MetadataOnDisk
  <2>4. PackInv' /\ FreshInv' /\ RecordsDisjoint' /\ AppendStored'
    BY <1>9 DEF CreateFileFail, TypeOK, LocalsInv, PackInv, FreshInv, RecordsDisjoint, AppendStored
  <2> QED
    BY <2>1, <2>2, <2>3, <2>4
<1>10. CASE CreateFilePublish(t)
  <2>0. /\ NextFile(t) \in FileId
        /\ NextFile(t) = active_file_id + 1
        /\ NextFile(t) \in linked
    BY <1>10 DEF CreateFilePublish, MetadataCreateFile, TypeOK, OneRotation, DiskInv
  <2>1. TypeOK'
    <3>1. files' \in SUBSET FileId
      <4> HIDE DEF FileId, NextFile
      <4> QED
        BY <1>10, <2>0 DEF CreateFilePublish, MetadataCreateFile, TypeOK
    <3> QED
      BY <1>10, <2>0, <3>1 DEF CreateFilePublish, MetadataCreateFile, TypeOK
  <2>2. LocalsInv' /\ MuInv' /\ OneRotation'
    BY <1>10 DEF CreateFilePublish, MetadataCreateFile, TypeOK, LocalsInv, MuInv, OneRotation
  <2>3. DiskInv' /\ MetadataOnDisk'
    <3>1. files' = files \cup {active_file_id + 1} /\ active_file_id' = active_file_id + 1
      BY <1>10, <2>0 DEF CreateFilePublish, MetadataCreateFile
    <3>2. MetadataOnDisk'
      BY <1>10, <2>0 DEF CreateFilePublish, MetadataCreateFile, MetadataOnDisk
    <3>3. \A f \in files' : f <= active_file_id'
      BY <3>1 DEF TypeOK, DiskInv
    <3>4. ASSUME NEW u \in Threads
          PROVE  /\ pc'[u] = "publish" => NextFile(u)' \in linked'
                 /\ pc'[u] = "unlink" => file_id'[u] \notin files'
      BY <1>10, <3>1, <3>4 DEF CreateFilePublish, MetadataCreateFile, TypeOK, LocalsInv, MuInv, DiskInv
    <3> QED
      BY <3>2, <3>3, <3>4 DEF DiskInv
  <2>4. PackInv' /\ FreshInv' /\ RecordsDisjoint' /\ AppendStored'
    <3>1. PackInv' /\ AppendStored'
      BY <1>10 DEF CreateFilePublish, MetadataCreateFile, TypeOK, PackInv, AppendStored
    <3>2. FreshInv' /\ RecordsDisjoint'
      BY <1>10, <2>0 DEF CreateFilePublish, MetadataCreateFile, TypeOK, FreshInv, RecordsDisjoint
    <3> QED
      BY <3>1, <3>2
  <2> QED
    BY <2>1, <2>2, <2>3, <2>4
<1> QED
  BY <1>1, <1>2, <1>3, <1>4, <1>5, <1>6, <1>7, <1>8, <1>9, <1>10 DEF AppendStep

-----------------------------------------------------------------------------
\* Every step of the file manager, and the final stutter, preserves FMInv.
LEMMA NextInv == FMInv /\ [FMNext]_fmvars => FMInv'
<1> SUFFICES ASSUME FMInv, [FMNext]_fmvars PROVE FMInv'
  OBVIOUS
<1>1. ASSUME NEW t \in Threads, FMCall(t) \/ FMStep(t) \/ Return(t) PROVE FMInv'
  BY <1>1, CallInv, AppendInv, AcquireInv, RemoveInv DEF FMStep
<1>2. CASE Terminating \/ UNCHANGED fmvars
  BY <1>2, StutterInv DEF Terminating
<1> QED
  BY <1>1, <1>2 DEF FMNext

\* FMInv holds in every state, for any number of threads, files and sizes.
THEOREM Invariance == FMSpec => []FMInv
BY InitInv, NextInv, PTL DEF FMSpec

\* Every variable of the file manager keeps its type.
THEOREM TypeCorrect == FMSpec => []TypeOK
<1>1. FMInv => TypeOK
  BY DEF FMInv
<1> QED
  BY <1>1, Invariance, PTL

(***************************************************************************)
(* Concurrent Append calls never allocate overlapping space and no record  *)
(* reaches past write_index_.                                              *)
(***************************************************************************)
THEOREM DisjointRecords == FMSpec => []RecordsDisjoint
<1>1. FMInv => RecordsDisjoint
  BY DEF FMInv
<1> QED
  BY <1>1, Invariance, PTL

\* The location Append returns holds the record for as long as it is used.
THEOREM StoredRecords == FMSpec => []AppendStored
<1>1. FMInv => AppendStored
  BY DEF FMInv
<1> QED
  BY <1>1, Invariance, PTL

\* The metadata never lists a file that is not on disk.
THEOREM ListedFilesExist == FMSpec => []MetadataOnDisk
<1>1. FMInv => MetadataOnDisk
  BY DEF FMInv
<1> QED
  BY <1>1, Invariance, PTL

\* Only the thread that re-checked file_id under mu_ creates the next file.
THEOREM SingleRotation == FMSpec => []OneRotation
<1>1. FMInv => OneRotation
  BY DEF FMInv
<1> QED
  BY <1>1, Invariance, PTL

\* No step of the file manager changes a record that is in a data file.
LEMMA StepKeepsRecords ==
  ASSUME FMInv, NEW t \in Threads, FMCall(t) \/ FMStep(t) \/ Return(t)
  PROVE  \A f \in FileId : \A o \in Offset :
           RecordAt(f, o) => data'[f][o] = data[f][o]
<1>1. CASE AppendPack(t) \/ AppendPackNullLog(t)
  BY <1>1, PackWrites DEF AppendPack, AppendPackNullLog, At, shared
<1>2. CASE CreateFileOpen(t)
  <2>1. NextFile(t) \in FileId /\ NextFile(t) > active_file_id
    BY <1>2, MaxFileAssumption
    DEF CreateFileOpen, At, NextFile, FMInv, TypeOK, OneRotation, FileId
  <2>2. data' = data
    BY <1>2, <2>1 DEF CreateFileOpen, FMInv, TypeOK, FreshInv
  <2> QED
    BY <2>2
<1>3. CASE UNCHANGED data
  BY <1>3
<1> QED
  BY <1>1, <1>2, <1>3
  DEF FMCall, FMStep, Return, AppendStep, AcquireStep, RemoveStep, AppendCall,
      AcquireCall, RemoveCall, AppendSnapshot, AllocateOk, Allocate, AllocateFull,
      RotateLost, CreateFileBegin, CreateFileFail, CreateFilePublish,
      AcquireHit, AcquireMiss, AcquireOpen, AcquireOpenFail, AcquireCache,
      RemoveRelease, RemoveMetadata, RemoveMetadataFail, RemoveUnlink, disk

\* A data file is append only: no record in it is changed or moved.
THEOREM AppendOnlyLog == FMSpec => AppendOnly
<1> DEFINE Keeps == \A f \in FileId : \A o \in Offset :
                      RecordAt(f, o) => data'[f][o] = data[f][o]
<1>1. FMInv /\ [FMNext]_fmvars => [Keeps]_fmvars
  BY StepKeepsRecords DEF FMNext, Terminating
<1> QED
  BY <1>1, Invariance, PTL DEF FMSpec, AppendOnly

-----------------------------------------------------------------------------
(***************************************************************************)
(* ScanReachesEnd: in a file that nobody is packing in, the records stand  *)
(* one behind the other up to write_index_; in one that a thread is        *)
(* packing in, up to the offset it was given.                              *)
(***************************************************************************)
ChainOver(S) ==
  up => /\ \A f \in S : file_mu[f] = NoThread => Chained(data[f], write_index[f])
        /\ \A t \in Threads : pc[t] = "pack" => Chained(data[file_id[t]], offset[t])

\* A step that neither allocates nor packs.
LEMMA ChainFrame ==
  ASSUME NEW S, ChainOver(S), UNCHANGED <<data, write_index, file_mu>>, up' => up,
         \A u \in Threads : pc'[u] = "pack" =>
           pc[u] = "pack" /\ file_id'[u] = file_id[u] /\ offset'[u] = offset[u]
  PROVE  ChainOver(S)'
BY DEF ChainOver

\* The calls and their returns.
LEMMA ChainCall ==
  ASSUME FMInv, NEW S, ChainOver(S), NEW t \in Threads,
         (\E x : AppendCall(t, x) \/ AcquireCall(t, x) \/ RemoveCall(t, x)) \/ Return(t)
  PROVE  ChainOver(S)'
<1>1. UNCHANGED <<data, write_index, file_mu, up>> /\ pc'[t] # "pack"
  BY DEF AppendCall, AcquireCall, RemoveCall, Return, Reset, Goto, disk, shared, locks,
     FMInv, TypeOK
<1>2. \A u \in Threads \ {t} :
        pc'[u] = pc[u] /\ file_id'[u] = file_id[u] /\ offset'[u] = offset[u]
  BY DEF AppendCall, AcquireCall, RemoveCall, Return, Reset, Goto, FMInv, TypeOK
<1> QED
  BY <1>1, <1>2, ChainFrame

\* Allocate hands out the end of the chain.
LEMMA ChainAllocate ==
  ASSUME FMInv, NEW S \in SUBSET FileId, ChainOver(S), NEW t \in Threads,
         file_id[t] \in S, AllocateOk(t)
  PROVE  ChainOver(S)'
<1>1. PICK f \in S : f = file_id[t]
  OBVIOUS
<1>2. /\ up /\ data' = data /\ file_mu[f] = NoThread /\ file_mu'[f] # NoThread
      /\ \A g \in FileId \ {f} :
           write_index'[g] = write_index[g] /\ file_mu'[g] = file_mu[g]
  BY <1>1, NoThreadAssumption
  DEF AllocateOk, Allocate, FileMutexFree, At, disk, FMInv, TypeOK
<1>3. /\ file_id' = file_id /\ offset'[t] = write_index[f]
      /\ \A u \in Threads \ {t} : pc'[u] = pc[u] /\ offset'[u] = offset[u]
  BY <1>1 DEF AllocateOk, Allocate, Goto, FMInv, TypeOK
<1>4. Chained(data[f], write_index[f])
  BY <1>2 DEF ChainOver
<1>5. ASSUME NEW u \in Threads, pc'[u] = "pack"
      PROVE  Chained(data[file_id[u]], offset'[u])
  BY <1>1, <1>2, <1>3, <1>4, <1>5 DEF ChainOver
<1>6. ASSUME NEW g \in S, file_mu'[g] = NoThread
      PROVE  Chained(data[g], write_index'[g])
  BY <1>2, <1>6 DEF ChainOver
<1> QED
  BY <1>2, <1>3, <1>5, <1>6 DEF ChainOver

\* Pack makes the chain of its file longer and leaves the other files alone.
LEMMA PackExtends ==
  ASSUME FMInv, NEW S, ChainOver(S), up, NEW t \in Threads, pc[t] = "pack", WriteRecord(t)
  PROVE  /\ Chained(data'[file_id[t]], write_index[file_id[t]])
         /\ \A g \in FileId \ {file_id[t]} : data'[g] = data[g]
<1>1. PICK f \in FileId, p \in Offset, e \in Entry :
        f = file_id[t] /\ p = offset[t] /\ e = entry[t] /\ p + SizeOf(e) = write_index[f]
  BY PackFacts
<1>2. data \in [FileId -> Contents]
  BY DEF FMInv, TypeOK
<1>3. /\ data'[f] = [data[f] EXCEPT ![p] = e]
      /\ \A g \in FileId \ {f} : data'[g] = data[g]
  BY <1>1, <1>2 DEF WriteRecord
<1>4. Chained(data[f], p) /\ data[f] \in Contents
  BY <1>1, <1>2 DEF ChainOver
<1>5. Chained([data[f] EXCEPT ![p] = e], p + SizeOf(e))
  BY <1>4, ChainExtend
<1> QED
  BY <1>1, <1>3, <1>5

LEMMA ChainPack ==
  ASSUME FMInv, NEW S \in SUBSET FileId, ChainOver(S), NEW t \in Threads, AppendPack(t)
  PROVE  ChainOver(S)'
<1>1. /\ up /\ pc[t] = "pack" /\ WriteRecord(t) /\ write_index' = write_index
      /\ file_id' = file_id /\ offset' = offset /\ pc'[t] # "pack"
      /\ \A u \in Threads \ {t} : pc'[u] = pc[u]
      /\ \A g \in FileId \ {file_id[t]} : file_mu'[g] = file_mu[g]
  BY DEF AppendPack, At, shared, Finish, Goto, FMInv, TypeOK
<1>2. /\ Chained(data'[file_id[t]], write_index[file_id[t]])
      /\ \A g \in FileId \ {file_id[t]} : data'[g] = data[g]
  BY <1>1, PackExtends
<1>3. ASSUME NEW u \in Threads, pc'[u] = "pack"
      PROVE  Chained(data'[file_id[u]], offset[u])
  <2>1. u # t /\ pc[u] = "pack"
    BY <1>1, <1>3
  <2>2. file_mu[file_id[u]] = u /\ file_mu[file_id[t]] = t /\ file_id[u] \in FileId
    BY <1>1, <2>1, PackFacts DEF FMInv, PackInv
  <2> QED
    BY <1>1, <1>2, <2>1, <2>2 DEF ChainOver
<1>4. ASSUME NEW g \in S, file_mu'[g] = NoThread
      PROVE  Chained(data'[g], write_index[g])
  BY <1>1, <1>2, <1>4 DEF ChainOver
<1> QED
  BY <1>1, <1>3, <1>4 DEF ChainOver

\* A file that CreateFile opens is still blank.
LEMMA OpenIsBlank ==
  ASSUME FMInv, NEW t \in Threads, CreateFileOpen(t)
  PROVE  UNCHANGED <<data, write_index>>
<1>1. PICK n \in FileId : n = NextFile(t)
  BY DEF CreateFileOpen
<1>2. /\ pc[t] = "open"
      /\ data' = (IF n \in linked THEN data ELSE [data EXCEPT ![n] = Blank])
      /\ write_index' = [write_index EXCEPT ![n] = RebuildOffset(data'[n])]
  BY <1>1 DEF CreateFileOpen, At
<1>3. n > active_file_id
  BY <1>1, <1>2, MaxFileAssumption DEF FMInv, OneRotation, TypeOK, FileId, NextFile
<1>4. data[n] = Blank /\ write_index[n] = 0
  BY <1>3 DEF FMInv, FreshInv
<1>5. data' = data
  BY <1>2, <1>4 DEF FMInv, TypeOK
<1> QED
  BY <1>2, <1>4, <1>5, RebuildBlank DEF FMInv, TypeOK

\* The other steps of the file manager.
LEMMA OtherSteps ==
  ASSUME FMInv, NEW t \in Threads, FMStep(t),
         ~AllocateOk(t), ~AppendPack(t), ~AppendPackNullLog(t)
  PROVE  /\ UNCHANGED <<data, write_index, file_mu, up, offset>> /\ pc'[t] # "pack"
         /\ \A u \in Threads \ {t} : pc'[u] = pc[u] /\ file_id'[u] = file_id[u]
<1>1. CASE CreateFileOpen(t)
  BY <1>1, OpenIsBlank DEF CreateFileOpen, Goto, locks, locals, FMInv, TypeOK
<1>2. CASE \/ AppendSnapshot(t) \/ AllocateFull(t) \/ RotateLost(t) \/ CreateFileBegin(t)
           \/ CreateFileFail(t) \/ CreateFilePublish(t) \/ AcquireStep(t) \/ RemoveStep(t)
  BY <1>2 DEF AppendSnapshot, AllocateFull, RotateLost, CreateFileBegin, CreateFileFail,
     CreateFilePublish, AcquireStep, AcquireHit, AcquireMiss, AcquireOpen,
     AcquireOpenFail, AcquireCache, RemoveStep, RemoveRelease, RemoveMetadata,
     RemoveMetadataFail, RemoveUnlink, At, Goto, Finish, disk, shared, locks, locals,
     FMInv, TypeOK
<1> QED
  BY <1>1, <1>2 DEF FMStep, AppendStep

LEMMA ChainStep ==
  ASSUME FMInv, NEW S \in SUBSET FileId, ChainOver(S), NEW t \in Threads, FMStep(t),
         pc[t] = "allocate" => file_id[t] \in S
  PROVE  ChainOver(S)'
<1>1. CASE AllocateOk(t) \/ AppendPack(t)
  BY <1>1, ChainAllocate, ChainPack DEF AllocateOk, At
<1>2. CASE AppendPackNullLog(t)
  BY <1>2 DEF AppendPackNullLog, ChainOver
<1>3. CASE ~AllocateOk(t) /\ ~AppendPack(t) /\ ~AppendPackNullLog(t)
  BY <1>3, OtherSteps, ChainFrame
<1> QED
  BY <1>1, <1>2, <1>3

\* What the chain gives for a file nobody is packing in.
LEMMA ChainScan ==
  ASSUME FMInv, ChainOver(FileId)
  PROVE  ScanReachesEnd
<1> SUFFICES ASSUME up, NEW f \in FileId, file_mu[f] = NoThread
             PROVE  RebuildOffset(data[f]) = write_index[f]
  BY DEF ScanReachesEnd
<1>1. data[f] \in Contents /\ write_index[f] \in 0 .. kMaxFileBytes
  BY DEF FMInv, TypeOK
<1>2. Chained(data[f], write_index[f])
  BY DEF ChainOver
<1> QED
  BY <1>1, <1>2, RebuildChained

LEMMA ChainInit == FMInit => ChainOver(FileId)
BY DEF FMInit, ChainOver, Chained, Blank

(***************************************************************************)
(* Whatever appends, rotations and removals ran, a scan from offset 0 that *)
(* steps from record to record meets all records of a file.                *)
(***************************************************************************)
THEOREM ScansAreComplete == FMSpec => []ScanReachesEnd
<1>1. FMInv /\ ChainOver(FileId) /\ [FMNext]_fmvars => ChainOver(FileId)'
  <2> SUFFICES ASSUME FMInv, ChainOver(FileId), [FMNext]_fmvars PROVE ChainOver(FileId)'
    OBVIOUS
  <2>1. ASSUME NEW t \in Threads, FMCall(t) \/ FMStep(t) \/ Return(t)
        PROVE  ChainOver(FileId)'
    <3>1. pc[t] = "allocate" => file_id[t] \in FileId
      BY DEF FMInv, LocalsInv, Lines, AppendLines
    <3> QED
      BY <2>1, <3>1, ChainCall, ChainStep DEF FMCall
  <2>2. CASE UNCHANGED fmvars
    BY <2>2 DEF fmvars, disk, shared, locks, locals, ChainOver
  <2> QED
    BY <2>1, <2>2 DEF FMNext, Terminating
<1>2. FMSpec => []ChainOver(FileId)
  BY <1>1, ChainInit, Invariance, PTL DEF FMSpec
<1>3. FMInv /\ ChainOver(FileId) => ScanReachesEnd
  BY ChainScan
<1> QED
  BY <1>2, <1>3, Invariance, PTL
=============================================================================
