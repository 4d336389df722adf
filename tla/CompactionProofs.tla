-------------------------- MODULE CompactionProofs --------------------------
(***************************************************************************)
(* Proofs about what compaction relies on and what it keeps, for any       *)
(* number of threads, keys, files and record sizes, with and without the   *)
(* read cache: the unused bytes that UpdateUnused counts are really        *)
(* unused, a database whose only writer also compacts it is a linearizable *)
(* map for all its readers, and a restart finds what its readers find.     *)
(***************************************************************************)
EXTENDS ReadCache, DBImplProofs

-----------------------------------------------------------------------------
(***************************************************************************)
(* Unused bytes.  A record is charged to its file when the index lets go   *)
(* of it, or never takes it.  Between Append and that moment it is neither *)
(* current nor charged: some thread holds its location.                    *)
(***************************************************************************)
\* Append has returned a location to t and the index has not seen it.
Stored(t) == pc[t] = "returned" /\ entry[t] # NoRecord /\ status[t] = "kOk"

Unindexed(l) == \A k \in Keys : indices[k] # NoDir => indices[k].loc # l

Unheld(l) == \A t \in Threads : Stored(t) => Loc(t) # l

\* The records of file f that will never be current again.
Retired(f) ==
  {o \in Offset : LET l == [id |-> f, offset |-> o] IN
                    RecordAt(f, o) /\ Unindexed(l) /\ Unheld(l)}

\* A location is held by one thread, and not by the index as well.
HeldInv ==
  \A t \in Threads : Stored(t) =>
    /\ Unindexed(Loc(t))
    /\ \A u \in Threads \ {t} : Stored(u) => Loc(u) # Loc(t)

ChargeInv == \A f \in FileId : hints.free_bytes[f] <= BytesOf(data[f], Retired(f))

CountInv == HeldInv /\ ChargeInv

\* Room for what was counted, and for one more record.
LEMMA RoomFor ==
  ASSUME NEW S, IsFiniteSet(S), NEW d, \A y \in S : d[y] \in Entry,
         NEW T \in SUBSET S, NEW c, \A y \in T : c[y] = d[y],
         NEW n \in Nat, n <= BytesOf(c, T)
  PROVE  /\ n <= BytesOf(d, S)
         /\ \A o \in S : o \notin T => n + SizeOf(d[o]) <= BytesOf(d, S)
<1>1. IsFiniteSet(T) /\ (\A y \in T : d[y] \in Entry) /\ (\A y \in T : c[y] \in Entry)
  BY FS_Subset
<1>2. BytesOf(c, T) <= BytesOf(d, T)
  BY <1>1, BytesMore
<1>3. BytesOf(d, T) <= BytesOf(d, S)
  BY BytesMore
<1>4. BytesOf(c, T) \in Nat /\ BytesOf(d, T) \in Nat /\ BytesOf(d, S) \in Nat
  BY <1>1, BytesType
<1>5. ASSUME NEW o \in S, o \notin T PROVE n + SizeOf(d[o]) <= BytesOf(d, S)
  <2>1. \A y \in T \cup {o} : d[y] \in Entry
    OBVIOUS
  <2>2. BytesOf(d, T \cup {o}) = BytesOf(d, T) + SizeOf(d[o])
    BY <1>1, <1>5, <2>1, BytesOneMore
  <2>3. T \cup {o} \in SUBSET S
    OBVIOUS
  <2>4. BytesOf(d, T \cup {o}) <= BytesOf(d, S)
    BY <2>3, BytesMore
  <2>5. SizeOf(d[o]) \in Nat
    BY SizeAssumption
  <2> QED
    BY <1>2, <1>4, <2>2, <2>4, <2>5
<1> QED
  BY <1>2, <1>3, <1>4, <1>5

\* So much of a step, if the retired records stay retired.
LEMMA ChargeFrame ==
  ASSUME DBInv, DBInv', ChargeInv, DataKept, NEW f \in FileId,
         Retired(f) \subseteq Retired(f)'
  PROVE  /\ hints.free_bytes[f] \in Nat
         /\ BytesOf(data'[f], Retired(f)') \in Nat
         /\ hints.free_bytes[f] <= BytesOf(data'[f], Retired(f)')
         /\ \A o \in Retired(f)' : o \notin Retired(f) =>
              hints.free_bytes[f] + SizeOf(data'[f][o]) <= BytesOf(data'[f], Retired(f)')
<1> DEFINE S == Retired(f)'
           T == Retired(f)
           d == data'[f]
           c == data[f]
           n == hints.free_bytes[f]
<1>1. IsFiniteSet(S) /\ \A y \in S : d[y] \in Entry
  <2>1. S \in SUBSET Offset
    BY DEF Retired
  <2>2. IsFiniteSet(S)
    BY <2>1, OffsetsFinite, FS_Subset
  <2>3. ASSUME NEW o \in S PROVE d[o] \in Entry
    BY DEF Retired, RecordAt, DBInv, FMInv, TypeOK, Contents
  <2> QED
    BY <2>2, <2>3
<1>2. \A y \in T : c[y] = d[y]
  BY DEF Retired, RecordAt, DataKept
<1>3. n \in Nat /\ n <= BytesOf(c, T)
  BY DEF ChargeInv, DBInv, DBTypeOK, Hints
<1>4. T \in SUBSET S
  OBVIOUS
<1> HIDE DEF S, T, d, c, n
<1>5. n <= BytesOf(d, S) /\ \A o \in S : o \notin T => n + SizeOf(d[o]) <= BytesOf(d, S)
  BY <1>1, <1>2, <1>3, <1>4, RoomFor
<1>6. BytesOf(d, S) \in Nat
  BY <1>1, BytesType
<1> QED
  BY <1>3, <1>5, <1>6 DEF S, T, d, n

-----------------------------------------------------------------------------
(***************************************************************************)
(* A step that neither packs a record nor gives one to the index.          *)
(***************************************************************************)
LEMMA CountFrame ==
  ASSUME DBInv, DBInv', CountInv, DataKept, indices' = indices,
         \A f \in FileId : hints'.free_bytes[f] <= hints.free_bytes[f],
         \A u \in Threads : Stored(u)' => Stored(u) /\ Loc(u)' = Loc(u)
  PROVE  CountInv'
<1>1. HeldInv'
  BY DEF CountInv, HeldInv, Unindexed
<1>2. ASSUME NEW f \in FileId PROVE hints'.free_bytes[f] <= BytesOf(data'[f], Retired(f)')
  <2>1. Retired(f) \subseteq Retired(f)'
    BY DEF Retired, RecordAt, Unindexed, Unheld, DataKept
  <2>2. hints'.free_bytes[f] \in Nat
    BY DEF DBInv, DBTypeOK, Hints
  <2> QED
    BY <2>1, <2>2, ChargeFrame DEF CountInv
<1> QED
  BY <1>1, <1>2 DEF CountInv, ChargeInv

(***************************************************************************)
(* AppendPack: the record goes where none was, so neither the index nor    *)
(* another thread holds that location.                                     *)
(***************************************************************************)
LEMMA CountPack ==
  ASSUME DBInv, DBInv', CountInv, DataKept, NEW t \in Threads, AppendPack(t),
         UNCHANGED <<dbshared, dblocals>>
  PROVE  CountInv'
<1>1. /\ up /\ pc[t] = "pack" /\ indices' = indices /\ hints' = hints
      /\ UNCHANGED <<entry, file_id, offset>>
      /\ pc' = [pc EXCEPT ![t] = "returned"] /\ status' = [status EXCEPT ![t] = "kOk"]
  BY DEF AppendPack, At, Finish, Goto, dbshared
<1>2. FMInv /\ pc \in [Threads -> Lines] /\ status \in [Threads -> {"kOk", "kIOError"}]
  BY DEF DBInv, FMInv, TypeOK
<1>3. \A u \in Threads : Loc(u)' = Loc(u)
  BY <1>1 DEF Loc
<1>4. \A u \in Threads \ {t} : Stored(u)' <=> Stored(u)
  BY <1>1, <1>2 DEF Stored
<1>5. ~Stored(t)
  BY <1>1 DEF Stored
<1>6. PICK l : l = Loc(t)
  OBVIOUS
<1>7. l \in Location /\ l.id = file_id[t] /\ l.offset = offset[t] /\ ~RecordAt(l.id, l.offset)
  <2>1. file_id[t] \in FileId /\ offset[t] \in Offset
    BY <1>1, <1>2, PackFacts
  <2>2. ~RecordAt(file_id[t], offset[t])
    <3> SUFFICES ASSUME RecordAt(file_id[t], offset[t]) PROVE FALSE
      OBVIOUS
    <3>1. EndOf(file_id[t], offset[t]) <= offset[t]
      BY <1>1, <1>2, <2>1 DEF FMInv, PackInv
    <3>2. data[file_id[t]][offset[t]] \in Entry
      BY <1>2, <2>1 DEF FMInv, TypeOK, Contents, RecordAt
    <3>3. SizeOf(data[file_id[t]][offset[t]]) \in Nat \ {0} /\ offset[t] \in Nat
      BY <2>1, <3>2, SizeAssumption, CapacityAssumption DEF Offset
    <3> QED
      BY <3>1, <3>3 DEF EndOf
  <2> QED
    BY <1>6, <2>1, <2>2 DEF Loc, Location
<1>8. Unindexed(l)
  <2> SUFFICES ASSUME NEW k \in Keys, indices[k] # NoDir, indices[k].loc = l PROVE FALSE
    BY DEF Unindexed
  <2>1. PointsTo(data, indices[k], k)
    BY DEF DBInv, IndexInv
  <2> QED
    BY <1>7, <2>1, HoleAssumption DEF PointsTo, RecordAt
<1>9. \A u \in Threads : Stored(u) => Loc(u) # l
  BY <1>2, <1>7, HoleAssumption DEF FMInv, AppendStored, Stored, Loc, RecordAt
<1>10. HeldInv'
  <2> SUFFICES ASSUME NEW u \in Threads, Stored(u)'
               PROVE  /\ Unindexed(Loc(u))
                      /\ \A v \in Threads \ {u} : Stored(v)' => Loc(v) # Loc(u)
    BY <1>1, <1>3 DEF HeldInv, Unindexed
  <2> QED
    BY <1>4, <1>6, <1>8, <1>9 DEF CountInv, HeldInv
<1>11. ASSUME NEW f \in FileId PROVE hints'.free_bytes[f] <= BytesOf(data'[f], Retired(f)')
  <2>1. Retired(f) \subseteq Retired(f)'
    <3> SUFFICES ASSUME NEW o \in Retired(f) PROVE o \in Retired(f)'
      OBVIOUS
    <3> DEFINE m == [id |-> f, offset |-> o]
    <3>1. o \in Offset /\ RecordAt(f, o) /\ Unindexed(m) /\ Unheld(m)
      BY DEF Retired
    <3>2. RecordAt(f, o)' /\ Unindexed(m)'
      BY <1>1, <3>1 DEF RecordAt, Unindexed, DataKept
    <3>3. m # l
      BY <1>7, <3>1
    <3>4. Unheld(m)'
      BY <1>3, <1>4, <1>6, <3>1, <3>3 DEF Unheld
    <3> QED
      BY <3>1, <3>2, <3>4 DEF Retired
  <2> QED
    BY <1>1, <2>1, ChargeFrame DEF CountInv
<1> QED
  BY <1>10, <1>11 DEF CountInv, ChargeInv

(***************************************************************************)
(* The index takes the location that t holds for key k, or does not; t     *)
(* gives it up.  Whichever of the two records loses is retired by this.    *)
(***************************************************************************)
Takes(t, k) == indices'[k] # NoDir /\ indices'[k].loc = Loc(t)

LEMMA GiveUp ==
  ASSUME DBInv, CountInv, data' = data, NEW t \in Threads, Stored(t), Return(t),
         NEW k \in Keys, NEW l, l = Loc(t), NEW old, old = indices[k],
         \A x \in Keys : x # k => indices'[x] = indices[x],
         indices'[k] = NoDir \/ Takes(t, k) \/ indices'[k] = indices[k]
  PROVE  /\ HeldInv'
         /\ \A f \in FileId : Retired(f) \subseteq Retired(f)'
         /\ old # NoDir /\ (indices'[k] = NoDir \/ Takes(t, k)) =>
              /\ old.loc.offset \in Retired(old.loc.id)'
              /\ old.loc.offset \notin Retired(old.loc.id)
         /\ ~Takes(t, k) =>
              /\ l.offset \in Retired(l.id)'
              /\ l.offset \notin Retired(l.id)
<1>1. /\ pc[t] = "returned" /\ pc' = [pc EXCEPT ![t] = "idle"]
      /\ \A u \in Threads \ {t} : UNCHANGED <<entry[u], status[u], file_id[u], offset[u]>>
  BY DEF Return, Reset, At, Goto, DBInv, FMInv, TypeOK
<1>2. ~Stored(t)' /\ \A u \in Threads \ {t} : (Stored(u)' <=> Stored(u)) /\ Loc(u)' = Loc(u)
  BY <1>1 DEF Stored, Loc, DBInv, FMInv, TypeOK
<1>3. l = Loc(t)
  OBVIOUS
<1>4. /\ l \in Location /\ RecordAt(l.id, l.offset) /\ Unindexed(l)
      /\ \A u \in Threads \ {t} : Stored(u) => Loc(u) # l
  <2>1. FMInv /\ entry[t] \in Entry
    BY DEF DBInv, FMInv, TypeOK, Stored
  <2>2. l \in Location /\ RecordAt(l.id, l.offset)
    BY <1>3, <2>1, AppendResult, HoleAssumption DEF Stored, RecordAt
  <2> QED
    BY <1>3, <2>2 DEF CountInv, HeldInv
<1>5. ASSUME NEW x \in Keys, indices[x] # NoDir
      PROVE  /\ indices[x].loc \in Location
             /\ RecordAt(indices[x].loc.id, indices[x].loc.offset)
             /\ data[indices[x].loc.id][indices[x].loc.offset].key = x
  <2>1. PointsTo(data, indices[x], x)
    BY <1>5 DEF DBInv, IndexInv
  <2> QED
    BY <2>1, HoleAssumption DEF PointsTo, RecordAt, Dir
<1>6. HeldInv'
  <2> SUFFICES ASSUME NEW u \in Threads, Stored(u)'
               PROVE  /\ Unindexed(Loc(u))'
                      /\ \A v \in Threads \ {u} : Stored(v)' => Loc(v)' # Loc(u)'
    BY DEF HeldInv
  <2>1. u # t /\ Stored(u) /\ Loc(u)' = Loc(u) /\ Loc(u) # l
    BY <1>2, <1>4
  <2>2. Unindexed(Loc(u)) /\ \A v \in Threads \ {u} : Stored(v) => Loc(v) # Loc(u)
    BY <2>1 DEF CountInv, HeldInv
  <2>3. Unindexed(Loc(u))'
    BY <1>3, <2>1, <2>2 DEF Unindexed, Takes
  <2>4. \A v \in Threads \ {u} : Stored(v)' => Loc(v)' # Loc(u)'
    BY <1>2, <2>1, <2>2
  <2> QED
    BY <2>3, <2>4
<1>7. ASSUME NEW m, Unheld(m) \/ m = l \/ (\E x \in Keys : indices[x] # NoDir /\ indices[x].loc = m)
      PROVE  Unheld(m)'
  BY <1>2, <1>4, <1>7 DEF Unheld, CountInv, HeldInv, Unindexed
<1>8. ASSUME NEW f \in FileId PROVE Retired(f) \subseteq Retired(f)'
  <2> SUFFICES ASSUME NEW o \in Retired(f) PROVE o \in Retired(f)'
    OBVIOUS
  <2> DEFINE m == [id |-> f, offset |-> o]
  <2>1. o \in Offset /\ RecordAt(f, o) /\ Unindexed(m) /\ Unheld(m)
    BY DEF Retired
  <2>2. RecordAt(f, o)' /\ Unheld(m)' /\ m # l
    BY <1>3, <1>7, <2>1 DEF RecordAt, Unheld
  <2>3. Unindexed(m)'
    BY <1>3, <2>1, <2>2 DEF Unindexed, Takes
  <2> QED
    BY <2>1, <2>2, <2>3 DEF Retired
<1>9. ASSUME NEW m \in Location, RecordAt(m.id, m.offset), Unindexed(m)', Unheld(m)'
      PROVE  m.offset \in Retired(m.id)'
  <2>1. [id |-> m.id, offset |-> m.offset] = m /\ m.offset \in Offset
    BY DEF Location
  <2>2. RecordAt(m.id, m.offset)'
    BY <1>9 DEF RecordAt
  <2> QED
    BY <1>9, <2>1, <2>2 DEF Retired
<1>10. ASSUME NEW m \in Location, ~Unindexed(m) \/ ~Unheld(m)
       PROVE  m.offset \notin Retired(m.id)
  <2>1. [id |-> m.id, offset |-> m.offset] = m
    BY DEF Location
  <2> QED
    BY <1>10, <2>1 DEF Retired
<1>11. ASSUME old # NoDir, indices'[k] = NoDir \/ Takes(t, k)
       PROVE  /\ old.loc.offset \in Retired(old.loc.id)'
              /\ old.loc.offset \notin Retired(old.loc.id)
  <2>1. PICK m : m = old.loc
    OBVIOUS
  <2>2. m \in Location /\ RecordAt(m.id, m.offset) /\ data[m.id][m.offset].key = k /\ m # l
    BY <1>4, <1>5, <1>11, <2>1 DEF Unindexed
  <2>3. Unindexed(m)'
    BY <1>3, <1>5, <1>11, <2>2 DEF Unindexed, Takes
  <2>4. Unheld(m)' /\ ~Unindexed(m)
    BY <1>7, <1>11, <2>1 DEF Unindexed
  <2> QED
    BY <1>9, <1>10, <2>1, <2>2, <2>3, <2>4
<1>12. ASSUME ~Takes(t, k)
       PROVE  /\ l.offset \in Retired(l.id)'
              /\ l.offset \notin Retired(l.id)
  <2>1. Unindexed(l)'
    BY <1>3, <1>4, <1>12 DEF Unindexed, Takes
  <2>2. Unheld(l)' /\ ~Unheld(l)
    BY <1>3, <1>7 DEF Unheld
  <2> QED
    BY <1>3, <1>4, <1>9, <1>10, <2>1, <2>2
<1> QED
  BY <1>6, <1>8, <1>11, <1>12

LEMMA CountPutIndex ==
  ASSUME DBInv, DBInv', CountInv, NEW t \in Threads, PutIndex(t)
  PROVE  CountInv'
<1>1. PICK e \in Entry : e = entry[t]
  BY DEF PutIndex, Returned, In, DBInv, HandlerInv, HandlerOK
<1>2. PICK l : l = Loc(t)
  OBVIOUS
<1>3. PICK k \in Keys : k = e.key
  BY EntryFields
<1>4. PICK old : old = indices[k]
  OBVIOUS
<1>5. /\ pc[t] = "returned" /\ status[t] = "kOk" /\ Return(t) /\ data' = data /\ DataKept
      /\ indices' = [indices EXCEPT ![k] = IF e.type = "kSet" THEN DirOf(l, e) ELSE NoDir]
      /\ hints' = HintsAfterPut(indices, hints, l, e)
  <2>1. UNCHANGED <<data, active_file_id>>
    BY DEF PutIndex, Return, disk, shared
  <2> QED
    BY <1>1, <1>2, <1>3, <2>1, SameData DEF PutIndex, Returned, IndexAfterPut
<1>6. indices \in [Keys -> Dir \cup {NoDir}] /\ FMInv
  BY DEF DBInv, DBTypeOK
<1>7. l \in Location /\ data[l.id][l.offset] = e /\ l.id <= active_file_id
  BY <1>1, <1>2, <1>5, <1>6, AppendResult
<1>8. e.type \in {"kSet", "kDelete"} /\ SizeOf(e) \in Nat
  BY EntryFields
<1>9. DirOf(l, e) # NoDir /\ DirOf(l, e).loc = l
  BY <1>7, DirOfType
<1>10. /\ e.type = "kSet" => Takes(t, k)
       /\ e.type = "kDelete" => indices'[k] = NoDir
       /\ \A x \in Keys : x # k => indices'[x] = indices[x]
  BY <1>2, <1>5, <1>6, <1>9 DEF Takes
<1>11. Stored(t)
  BY <1>1, <1>5, HoleAssumption DEF Stored
<1>12. /\ HeldInv'
       /\ \A f \in FileId : Retired(f) \subseteq Retired(f)'
       /\ old # NoDir => old.loc.offset \in Retired(old.loc.id)'
                         /\ old.loc.offset \notin Retired(old.loc.id)
       /\ e.type = "kDelete" => l.offset \in Retired(l.id)' /\ l.offset \notin Retired(l.id)
  <2>1. indices'[k] = NoDir \/ Takes(t, k)
    BY <1>8, <1>10
  <2>2. e.type = "kDelete" => ~Takes(t, k)
    BY <1>10 DEF Takes
  <2> QED
    BY <1>2, <1>4, <1>5, <1>10, <1>11, <2>1, <2>2, GiveUp
<1>13. old # NoDir => /\ old.loc.id \in FileId /\ old.entry_size \in Nat
                      /\ old.entry_size = SizeOf(data[old.loc.id][old.loc.offset])
  <2> SUFFICES ASSUME old # NoDir
               PROVE  /\ old.loc.id \in FileId /\ old.entry_size \in Nat
                      /\ old.entry_size = SizeOf(data[old.loc.id][old.loc.offset])
    OBVIOUS
  <2>1. PointsTo(data, old, k)
    BY <1>4 DEF DBInv, IndexInv
  <2> QED
    BY <2>1 DEF PointsTo, Dir, Location
<1>14. hints \in Hints
  BY DEF DBInv, DBTypeOK
<1>15. ASSUME NEW f \in FileId PROVE hints'.free_bytes[f] <= BytesOf(data'[f], Retired(f)')
  <2>1. /\ hints.free_bytes[f] <= BytesOf(data'[f], Retired(f)')
        /\ \A o \in Retired(f)' : o \notin Retired(f) =>
             hints.free_bytes[f] + SizeOf(data'[f][o]) <= BytesOf(data'[f], Retired(f)')
    BY <1>5, <1>12, ChargeFrame DEF CountInv
  <2>2. CASE old # NoDir
    <3>1. hints' = UpdateUnused(hints, old.loc.id, old.entry_size)
      BY <1>3, <1>4, <1>5, <2>2 DEF HintsAfterPut, Retire
    <3>2. /\ hints'.free_bytes[old.loc.id] = hints.free_bytes[old.loc.id] + old.entry_size
          /\ f # old.loc.id => hints'.free_bytes[f] = hints.free_bytes[f]
      BY <1>13, <1>14, <2>2, <3>1, UpdateUnusedFields
    <3> QED
      BY <1>5, <1>12, <1>13, <2>1, <2>2, <3>2
  <2>3. CASE old = NoDir /\ e.type = "kDelete"
    <3>1. hints' = UpdateUnused(hints, l.id, SizeOf(e)) /\ l.id \in FileId
      BY <1>3, <1>4, <1>5, <1>7, <2>3 DEF HintsAfterPut, Location
    <3>2. /\ hints'.free_bytes[l.id] = hints.free_bytes[l.id] + SizeOf(e)
          /\ f # l.id => hints'.free_bytes[f] = hints.free_bytes[f]
      BY <1>8, <1>14, <3>1, UpdateUnusedFields
    <3> QED
      BY <1>5, <1>7, <1>12, <2>1, <2>3, <3>2
  <2>4. CASE old = NoDir /\ e.type = "kSet"
    <3>1. hints' = hints
      BY <1>3, <1>4, <1>5, <2>4 DEF HintsAfterPut
    <3> QED
      BY <2>1, <3>1
  <2> QED
    BY <1>8, <2>2, <2>3, <2>4
<1> QED
  BY <1>12, <1>15 DEF CountInv, ChargeInv

(***************************************************************************)
(* CompactUpdate: the copy is charged only if the index has something      *)
(* newer; the record it replaces is in the file that will be removed, and  *)
(* is not charged.                                                         *)
(***************************************************************************)
LEMMA CountCompactUpdate ==
  ASSUME DBInv, DBInv', CountInv, NEW t \in Threads, CompactUpdate(t)
  PROVE  CountInv'
<1>1. PICK e \in Entry : e = entry[t]
  BY DEF CompactUpdate, Returned, In, DBInv, HandlerInv, HandlerOK
<1>2. PICK l : l = Loc(t)
  OBVIOUS
<1>3. PICK k \in Keys : k = e.key
  BY EntryFields
<1>4. PICK old : old = indices[k]
  OBVIOUS
<1>5. /\ pc[t] = "returned" /\ status[t] = "kOk" /\ Return(t) /\ data' = data /\ DataKept
      /\ indices' = IndexAfterMove(indices, l, e)
      /\ hints' = HintsAfterMove(indices, hints, l, e)
  <2>1. UNCHANGED <<data, active_file_id>>
    BY DEF CompactUpdate, Return, disk, shared
  <2> QED
    BY <1>1, <1>2, <2>1, SameData DEF CompactUpdate, Returned
<1>6. indices \in [Keys -> Dir \cup {NoDir}] /\ FMInv
  BY DEF DBInv, DBTypeOK
<1>7. l \in Location /\ data[l.id][l.offset] = e /\ l.id <= active_file_id
  BY <1>1, <1>2, <1>5, <1>6, AppendResult
<1>8. SizeOf(e) \in Nat /\ l.id \in FileId
  BY <1>7, EntryFields DEF Location
<1>9. DirOf(l, e) # NoDir /\ DirOf(l, e).loc = l
  BY <1>7, DirOfType
<1> DEFINE newer == old # NoDir /\ Before(old.loc, l)
<1>10. /\ newer => Takes(t, k)
       /\ ~newer => indices' = indices
       /\ \A x \in Keys : x # k => indices'[x] = indices[x]
  BY <1>2, <1>3, <1>4, <1>5, <1>6, <1>9 DEF Takes, IndexAfterMove
<1>11. Stored(t)
  BY <1>1, <1>5, HoleAssumption DEF Stored
<1>12. ~newer => ~Takes(t, k)
  BY <1>2, <1>10, <1>11 DEF Takes, CountInv, HeldInv, Unindexed
<1>13. /\ HeldInv'
       /\ \A f \in FileId : Retired(f) \subseteq Retired(f)'
       /\ ~newer => l.offset \in Retired(l.id)' /\ l.offset \notin Retired(l.id)
  BY <1>2, <1>4, <1>5, <1>10, <1>11, <1>12, GiveUp
<1>14. hints \in Hints
  BY DEF DBInv, DBTypeOK
<1>15. ASSUME NEW f \in FileId PROVE hints'.free_bytes[f] <= BytesOf(data'[f], Retired(f)')
  <2>1. /\ hints.free_bytes[f] <= BytesOf(data'[f], Retired(f)')
        /\ \A o \in Retired(f)' : o \notin Retired(f) =>
             hints.free_bytes[f] + SizeOf(data'[f][o]) <= BytesOf(data'[f], Retired(f)')
    BY <1>5, <1>13, ChargeFrame DEF CountInv
  <2>2. CASE newer \/ old = NoDir
    <3>1. hints' = hints
      BY <1>3, <1>4, <1>5, <2>2 DEF HintsAfterMove
    <3> QED
      BY <2>1, <3>1
  <2>3. CASE old # NoDir /\ ~newer
    <3>1. hints'.free_bytes = [hints.free_bytes EXCEPT ![l.id] = hints.free_bytes[l.id] + SizeOf(e)]
      BY <1>3, <1>4, <1>5, <2>3 DEF HintsAfterMove
    <3>2. /\ hints'.free_bytes[l.id] = hints.free_bytes[l.id] + SizeOf(e)
          /\ f # l.id => hints'.free_bytes[f] = hints.free_bytes[f]
      BY <1>8, <1>14, <3>1 DEF Hints
    <3> QED
      BY <1>5, <1>7, <1>13, <2>1, <2>3, <3>2
  <2> QED
    BY <2>2, <2>3
<1> QED
  BY <1>13, <1>15 DEF CountInv, ChargeInv

(***************************************************************************)
(* The other steps.                                                        *)
(***************************************************************************)
\* Only Pack makes a call return a location.
LEMMA NewlyStored ==
  ASSUME FMInv, NEW t \in Threads, FMStep(t), ~AppendPack(t)
  PROVE  \A u \in Threads : Stored(u)' => Stored(u) /\ Loc(u)' = Loc(u)
<1>1. /\ pc \in [Threads -> Lines] /\ status \in [Threads -> {"kOk", "kIOError"}]
      /\ file_id \in [Threads -> FileId \cup {0}] /\ offset \in [Threads -> 0 .. kMaxFileBytes]
  BY DEF FMInv, TypeOK
<1>2. ASSUME AppendStep(t)
      PROVE  /\ ~Stored(t)' /\ entry' = entry
             /\ \A u \in Threads \ {t} : UNCHANGED <<pc[u], status[u], file_id[u], offset[u]>>
  BY <1>1, <1>2 DEF AppendStep, AppendSnapshot, AllocateOk, Allocate, AllocateFull,
     AppendPackNullLog, RotateLost, CreateFileBegin, CreateFileOpen, CreateFileFail,
     CreateFilePublish, At, Goto, Finish, Stored, locals
<1>3. ASSUME AcquireStep(t) \/ RemoveStep(t)
      PROVE  /\ ~Stored(t)' /\ entry' = entry
             /\ \A u \in Threads \ {t} : UNCHANGED <<pc[u], status[u], file_id[u], offset[u]>>
  <2>1. entry[t] = NoRecord
    BY <1>3 DEF FMInv, LocalsInv, AcquireLines, RemoveLines, AcquireStep, AcquireHit,
       AcquireMiss, AcquireOpen, AcquireOpenFail, AcquireCache, RemoveStep, RemoveRelease,
       RemoveMetadata, RemoveMetadataFail, RemoveUnlink, At
  <2> QED
    BY <1>1, <1>3, <2>1 DEF AcquireStep, AcquireHit, AcquireMiss, AcquireOpen,
       AcquireOpenFail, AcquireCache, RemoveStep, RemoveRelease, RemoveMetadata,
       RemoveMetadataFail, RemoveUnlink, Goto, Finish, Stored, locals
<1> QED
  BY <1>2, <1>3 DEF FMStep, Stored, Loc

\* What the steps of DBImpl are to the file manager.
LEMMA StepOfFiles ==
  ASSUME DBInv, NEW t \in Threads, Step(t)
  PROVE  \/ UNCHANGED fmvars
         \/ \E e \in Entry : AppendCall(t, e)
         \/ \E f \in FileId : AcquireCall(t, f) \/ RemoveCall(t, f)
         \/ Return(t)
         \/ FileManagerStep(t)
<1>1. CASE Invoke(t) \/ CompactCall(t) \/ Respond(t) \/ FileManagerStep(t)
  BY <1>1 DEF Invoke, CompactCall, Respond
<1>2. CASE PutStep(t)
  <2>1. ASSUME PutCall(t) PROVE EntryOf(req[t]) \in Entry
    BY <2>1, RequestFacts
    DEF PutCall, In, DBInv, RequestInv, RequestOK, RequestHandlers
  <2> QED
    BY <1>2, <2>1 DEF PutStep, PutCall, PutRejected, PutFailed, PutIndex
<1>3. CASE GetStep(t)
  <2>1. ASSUME GetLookup(t) PROVE indices[req[t].key].loc.id \in FileId
    <3>1. req[t].key \in Keys
      BY <2>1, RequestFacts DEF GetLookup, In, DBInv, RequestInv, RequestOK, RequestHandlers
    <3> QED
      BY <2>1, <3>1 DEF GetLookup, DBInv, DBTypeOK, Dir, Location
  <2> QED
    BY <1>3, <2>1 DEF GetStep, GetAbsent, GetLookup, GetFailed, GetRead
<1>4. CASE CompactStep(t)
  <2>1. ASSUME todo[t] # << >> PROVE Head(todo[t]) \in FileId
    BY <2>1 DEF DBInv, DBTypeOK
  <2>2. ASSUME CompactEnd(t) PROVE Head(todo[t]) \in FileId
    BY <2>2, OwnFile DEF CompactEnd, In, CompactHandlers
  <2>3. ASSUME CompactMove(t) PROVE next[t] \in Entry
    BY <2>3 DEF CompactMove, In, DBInv, CompactInv, CompactOK
  <2> QED
    BY <1>4, <2>1, <2>2, <2>3 DEF CompactStep, CompactWorker, CompactBegin, CompactReadonly,
       CompactFailed, CompactMark, Reads, CompactRead, CompactTorn, CompactAstray,
       CompactSkip, CompactMove, CompactUpdate, CompactScanned, CompactEnd, CompactRemoved
<1> QED
  BY <1>1, <1>2, <1>3, <1>4 DEF Step, Continues

LEMMA StepKeepsData ==
  ASSUME DBInv, [DBNext]_vars
  PROVE  DataKept
<1>1. FMInv
  BY DEF DBInv
<1>2. CASE UNCHANGED fmvars
  BY <1>2, SameData DEF fmvars, disk, shared
<1>3. ASSUME NEW t \in Threads, Step(t) PROVE DataKept
  <2>1. ASSUME (\E e \in Entry : AppendCall(t, e))
                 \/ (\E f \in FileId : AcquireCall(t, f) \/ RemoveCall(t, f)) \/ Return(t)
        PROVE  DataKept
    BY <2>1, SameData DEF AppendCall, AcquireCall, RemoveCall, Return, disk, shared
  <2>2. ASSUME FileManagerStep(t) PROVE DataKept
    BY <1>1, <2>2, StepKeepsRecords, FMStepFacts DEF FileManagerStep, DataKept, RecordAt
  <2> QED
    BY <1>2, <1>3, <2>1, <2>2, StepOfFiles
<1> QED
  BY <1>2, <1>3 DEF DBNext, SyncFailed, DBTerminating, vars

\* Only PutIndex and CompactUpdate change the index or charge a file.
LEMMA StepKeepsIndex ==
  ASSUME DBInv, NEW t \in Threads, Step(t), ~PutIndex(t), ~CompactUpdate(t)
  PROVE  /\ indices' = indices
         /\ \A f \in FileId : hints'.free_bytes[f] <= hints.free_bytes[f]
<1>1. \A f \in FileId : hints.free_bytes[f] \in Nat /\ hints.free_bytes \in [FileId -> Nat]
  BY DEF DBInv, DBTypeOK, Hints
<1>2. CASE hints'.free_bytes = hints.free_bytes /\ indices' = indices
  BY <1>1, <1>2
<1>3. ASSUME CompactEnd(t)
      PROVE  /\ indices' = indices
             /\ \A f \in FileId : hints'.free_bytes[f] <= hints.free_bytes[f]
  BY <1>1, <1>3 DEF CompactEnd, EraseState
<1>4. CASE Invoke(t) \/ CompactCall(t) \/ Respond(t) \/ FileManagerStep(t)
  BY <1>2, <1>4 DEF Invoke, CompactCall, Respond, FileManagerStep, PollCompactTask, dbshared
<1>5. CASE PutStep(t) \/ GetStep(t)
  BY <1>2, <1>5 DEF PutStep, PutCall, PutRejected, PutFailed, GetStep, GetAbsent,
     GetLookup, GetFailed, GetRead, dbshared
<1>6. CASE CompactStep(t)
  <2>1. CASE CompactWorker(t)
    BY <1>2, <2>1 DEF CompactWorker, PollCompactTask
  <2>2. CASE CompactMark(t)
    BY <1>2, <2>2 DEF CompactMark, MarkCompacting
  <2>3. CASE CompactBegin(t) \/ CompactReadonly(t) \/ CompactFailed(t) \/ CompactRemoved(t)
    BY <1>2, <2>3 DEF CompactBegin, CompactReadonly, CompactFailed, CompactRemoved, dbshared
  <2>4. CASE CompactSkip(t) \/ CompactMove(t) \/ CompactAstray(t) \/ CompactScanned(t)
    BY <1>2, <2>4 DEF CompactSkip, CompactMove, CompactAstray, CompactScanned, dbshared
  <2>5. CASE CompactRead(t) \/ CompactTorn(t)
    BY <1>2, <2>5 DEF CompactRead, CompactTorn, Reads, dbshared
  <2> QED
    BY <1>3, <1>6, <2>1, <2>2, <2>3, <2>4, <2>5 DEF CompactStep
<1> QED
  BY <1>4, <1>5, <1>6 DEF Step, Continues

LEMMA CountStep ==
  ASSUME DBInv, DBInv', CountInv, NEW t \in Threads, Step(t)
  PROVE  CountInv'
<1>1. FMInv /\ DataKept
  BY StepKeepsData DEF DBInv, DBNext
<1>2. CASE PutIndex(t) \/ CompactUpdate(t)
  BY <1>2, CountPutIndex, CountCompactUpdate
<1>3. CASE AppendPack(t) /\ FileManagerStep(t)
  BY <1>1, <1>3, CountPack DEF FileManagerStep
<1>4. ASSUME ~PutIndex(t), ~CompactUpdate(t), ~(AppendPack(t) /\ FileManagerStep(t))
      PROVE  \A u \in Threads : Stored(u)' => Stored(u) /\ Loc(u)' = Loc(u)
  <2>1. CASE UNCHANGED fmvars
    BY <2>1 DEF fmvars, locals, Stored, Loc
  <2>2. CASE FileManagerStep(t)
    BY <1>1, <1>4, <2>2, NewlyStored DEF FileManagerStep
  <2>3. ASSUME NEW e \in Entry, AppendCall(t, e)
        PROVE  \A u \in Threads : Stored(u)' => Stored(u) /\ Loc(u)' = Loc(u)
    BY <1>1, <2>3 DEF AppendCall, Goto, Stored, Loc, FMInv, TypeOK
  <2>4. ASSUME NEW f \in FileId, AcquireCall(t, f) \/ RemoveCall(t, f)
        PROVE  \A u \in Threads : Stored(u)' => Stored(u) /\ Loc(u)' = Loc(u)
    BY <1>1, <2>4 DEF AcquireCall, RemoveCall, Goto, Stored, Loc, FMInv, TypeOK
  <2>5. CASE Return(t)
    BY <1>1, <2>5 DEF Return, Reset, Goto, Stored, Loc, FMInv, TypeOK
  <2> QED
    BY <2>1, <2>2, <2>3, <2>4, <2>5, StepOfFiles
<1> QED
  BY <1>1, <1>2, <1>3, <1>4, StepKeepsIndex, CountFrame

(***************************************************************************)
(* For any clients and compactions: a file is never charged with more      *)
(* bytes than its unused records have.  No record is counted twice, none   *)
(* while it is current, and none that a thread is about to put into the    *)
(* index.                                                                  *)
(***************************************************************************)
THEOREM UnusedIsDead == DBSpec => []CountedIsDead
<1>1. DBInit => CountInv
  <2> SUFFICES ASSUME DBInit PROVE CountInv
    OBVIOUS
  <2>1. HeldInv
    BY DEF DBInit, FMInit, HeldInv, Stored
  <2>2. ASSUME NEW f \in FileId PROVE hints.free_bytes[f] <= BytesOf(data[f], Retired(f))
    <3>1. hints.free_bytes[f] = 0 /\ Retired(f) = {}
      BY DEF DBInit, FMInit, NoHints, Retired, RecordAt, Blank
    <3> QED
      BY <3>1, SumEmpty DEF BytesOf
  <2> QED
    BY <2>1, <2>2 DEF CountInv, ChargeInv
<1>2. DBInv /\ DBInv' /\ CountInv /\ [DBNext]_vars => CountInv'
  <2> SUFFICES ASSUME DBInv, DBInv', CountInv, [DBNext]_vars PROVE CountInv'
    OBVIOUS
  <2>1. CASE UNCHANGED <<fmvars, indices, hints>>
    <3>1. \A u \in Threads : Stored(u)' => Stored(u) /\ Loc(u)' = Loc(u)
      BY <2>1 DEF fmvars, locals, Stored, Loc
    <3>2. \A f \in FileId : hints'.free_bytes[f] <= hints.free_bytes[f]
      BY <2>1 DEF DBInv, DBTypeOK, Hints
    <3> QED
      BY <2>1, <3>1, <3>2, StepKeepsData, CountFrame
  <2> QED
    BY <2>1, CountStep DEF DBNext, SyncFailed, DBTerminating, vars, dbshared
<1>3. DBInv /\ CountInv => CountedIsDead
  <2> SUFFICES ASSUME DBInv, CountInv, NEW f \in FileId
               PROVE  hints.free_bytes[f] <= DeadBytes(f)
    BY DEF CountedIsDead
  <2>1. DeadOffsets(f) \subseteq Offset /\ \A o \in DeadOffsets(f) : data[f][o] \in Entry
    BY DEF DeadOffsets, RecordAt, DBInv, FMInv, TypeOK, Contents
  <2>2. IsFiniteSet(DeadOffsets(f))
    BY <2>1, OffsetsFinite, FS_Subset
  <2>3. Retired(f) \in SUBSET DeadOffsets(f)
    <3> SUFFICES ASSUME NEW o \in Retired(f) PROVE o \in DeadOffsets(f)
      OBVIOUS
    <3>1. o \in Offset /\ RecordAt(f, o) /\ Unindexed([id |-> f, offset |-> o])
      BY DEF Retired
    <3>2. data[f][o].key \in Keys
      BY <3>1, EntryFields DEF RecordAt, DBInv, FMInv, TypeOK, Contents
    <3> QED
      BY <3>1, <3>2 DEF DeadOffsets, IsCurrent, Unindexed
  <2>4. BytesOf(data[f], Retired(f)) <= BytesOf(data[f], DeadOffsets(f))
    BY <2>1, <2>2, <2>3, BytesMore
  <2>5. /\ hints.free_bytes[f] \in Nat /\ BytesOf(data[f], DeadOffsets(f)) \in Nat
        /\ BytesOf(data[f], Retired(f)) \in Nat
    <3>1. IsFiniteSet(Retired(f)) /\ \A o \in Retired(f) : data[f][o] \in Entry
      BY <2>1, <2>2, <2>3, FS_Subset
    <3> QED
      BY <2>1, <2>2, <3>1, BytesType DEF DBInv, DBTypeOK, Hints
  <2> QED
    BY <2>4, <2>5 DEF DeadBytes, CountInv, ChargeInv
<1> QED
  BY <1>1, <1>2, <1>3, DBInvariance, PTL DEF DBSpec

-----------------------------------------------------------------------------
(***************************************************************************)
(* The read cache.  Its steps only move a Get forward: DBInv holds with it *)
(* as well.                                                                *)
(***************************************************************************)
\* What a step of a cached Get leaves alone.
LEMMA CachedKeeps ==
  ASSUME DBInv, NEW t \in Threads, CachedGet(t)
  PROVE  /\ UNCHANGED <<disk, shared, locks, up, dbshared, req, todo, next, scan, calls>>
         /\ DataKept
         /\ at[t] \in {"called", "cached", "cache_open"}
         /\ \A u \in Threads \ {t} :
              Untouched(u) /\ UNCHANGED <<file_id[u], offset[u], status[u]>>
<1>1. /\ pc \in [Threads -> Lines] /\ entry \in [Threads -> Entry \cup {NoRecord}]
      /\ file_id \in [Threads -> FileId \cup {0}]
      /\ offset \in [Threads -> 0 .. kMaxFileBytes]
      /\ status \in [Threads -> {"kOk", "kIOError"}]
      /\ at \in [Threads -> Handlers] /\ dir \in [Threads -> Dir \cup {NoDir}]
      /\ ans \in [Threads -> Replies \cup {Idle}]
  BY DEF DBInv, DBTypeOK, LocalTypes, TypeOK
<1> USE DEF In, GoTo, Goto
<1>2. CASE CachedLookup(t)
  <2>1. UNCHANGED <<disk, shared, locks, up, pc, locals, dbshared, req, ans, todo, next, scan, calls>>
    BY <1>2 DEF CachedLookup, fmvars
  <2>2. /\ at[t] = "called"
        /\ \A u \in Threads \ {t} : at'[u] = at[u] /\ dir'[u] = dir[u]
    BY <1>1, <1>2 DEF CachedLookup
  <2> QED
    BY <2>1, <2>2, SameData DEF Untouched, locals, disk, shared
<1>3. CASE BlockHit(t) \/ BlockMiss(t)
  <2>1. UNCHANGED <<disk, shared, locks, up, pc, locals, dbshared, at, dir, req, ans, todo,
                    next, scan, calls>>
    BY <1>3 DEF BlockHit, BlockMiss, vars, fmvars, dblocals
  <2>2. at[t] = "cached"
    BY <1>3 DEF BlockHit, BlockMiss, ReadsBlock
  <2> QED
    BY <2>1, <2>2, SameData DEF Untouched, locals, disk, shared
<1>4. CASE BlockOpen(t)
  <2>1. /\ UNCHANGED <<disk, shared, locks, up, entry, offset, status, dbshared, req, ans,
                       dir, todo, next, scan, calls>>
        /\ at[t] = "cached"
        /\ \A u \in Threads \ {t} : at'[u] = at[u] /\ pc'[u] = pc[u] /\ file_id'[u] = file_id[u]
    BY <1>1, <1>4 DEF BlockOpen, AcquireCall, ReadsBlock
  <2> QED
    BY <2>1, SameData DEF Untouched, disk, shared
<1>5. CASE BlockOpened(t) \/ BlockOpenFailed(t)
  <2>1. /\ UNCHANGED <<disk, shared, locks, up, dbshared, req, todo, next, scan, calls>>
        /\ at[t] = "cache_open"
    BY <1>5 DEF BlockOpened, BlockOpenFailed, Returned, Return
  <2>2. \A u \in Threads \ {t} :
          /\ pc'[u] = pc[u] /\ file_id'[u] = file_id[u] /\ entry'[u] = entry[u]
          /\ offset'[u] = offset[u] /\ status'[u] = status[u]
    BY <1>1, <1>5 DEF BlockOpened, BlockOpenFailed, Return, Reset
  <2>3. \A u \in Threads \ {t} : at'[u] = at[u] /\ dir'[u] = dir[u] /\ ans'[u] = ans[u]
    BY <1>1, <1>5 DEF BlockOpened, BlockOpenFailed, CachedReply, Answer
  <2> QED
    BY <2>1, <2>2, <2>3, SameData DEF Untouched, disk, shared
<1>6. CASE CachedDone(t)
  <2>1. UNCHANGED <<disk, shared, locks, up, pc, locals, dbshared, req, todo, next, scan, calls>>
    BY <1>6 DEF CachedDone, fmvars
  <2>2. /\ at[t] = "cached"
        /\ \A u \in Threads \ {t} : at'[u] = at[u] /\ dir'[u] = dir[u] /\ ans'[u] = ans[u]
    BY <1>1, <1>6 DEF CachedDone, CachedReply, Answer
  <2> QED
    BY <2>1, <2>2, SameData DEF Untouched, locals, disk, shared
<1>7. CASE BlockReadFailed(t)
  <2>1. /\ UNCHANGED <<disk, shared, locks, up, dbshared, req, todo, next, scan, calls>>
        /\ at[t] \in {"cached", "cache_open"}
    BY <1>7 DEF BlockReadFailed, ReadsBlock, Returned, Return, fmvars
  <2>2. \A u \in Threads \ {t} :
          /\ pc'[u] = pc[u] /\ file_id'[u] = file_id[u] /\ entry'[u] = entry[u]
          /\ offset'[u] = offset[u] /\ status'[u] = status[u]
    BY <1>1, <1>7 DEF BlockReadFailed, Return, Reset, fmvars, locals
  <2>3. \A u \in Threads \ {t} : at'[u] = at[u] /\ dir'[u] = dir[u] /\ ans'[u] = ans[u]
    BY <1>1, <1>7 DEF BlockReadFailed, CachedReply, Answer
  <2> QED
    BY <2>1, <2>2, <2>3, SameData DEF Untouched, disk, shared
<1> QED
  BY <1>2, <1>3, <1>4, <1>5, <1>6, <1>7 DEF CachedGet

\* A step of a cached Get that does not answer it.
LEMMA CachedMoves ==
  ASSUME DBInv, NEW t \in Threads, CachedGet(t), FMInv', NEW h \in {"cached", "cache_open"},
         GoTo(t, h), ans' = ans, NEW d \in Dir, dir' = [dir EXCEPT ![t] = d],
         req[t].op = "get", PointsTo(data, d, req[t].key), HandlerOK(t)'
  PROVE  DBInv'
<1>1. /\ UNCHANGED <<data, active_file_id, dbshared, req, todo, next, scan, calls>> /\ DataKept
      /\ at[t] \in {"called", "cached", "cache_open"}
      /\ \A u \in Threads \ {t} : Untouched(u)
  BY CachedKeeps DEF disk, shared
<1> USE DEF dbshared
<1>2. DBTypeOK' /\ LocalTypes' /\ at'[t] = h /\ dir'[t] = d
  BY <1>1 DEF DBInv, DBTypeOK, LocalTypes, FMInv, GoTo, Handlers
<1>3. RequestOK(t)'
  BY <1>1, <1>2 DEF DBInv, RequestInv, RequestOK, RequestHandlers
<1>4. CompactOK(t)'
  BY <1>1, <1>2 DEF DBInv, CompactInv, CompactOK, CompactHandlers
<1> QED
  BY <1>1, <1>2, <1>3, <1>4, HandlerStep

LEMMA CachedGetInv ==
  ASSUME DBInv, NEW t \in Threads, CachedGet(t)
  PROVE  DBInv'
<1>0. at \in [Threads -> Handlers] /\ dir \in [Threads -> Dir \cup {NoDir}] /\ FMInv
  BY DEF DBInv, DBTypeOK
<1>1. ASSUME at[t] \in {"cached", "cache_open"}
      PROVE  /\ req[t].op = "get" /\ PointsTo(data, dir[t], req[t].key) /\ dir[t] \in Dir
             /\ dir[t].loc.id \in FileId
             /\ data[dir[t].loc.id][dir[t].loc.offset].value \in Values
  <2>1. req[t].op = "get" /\ PointsTo(data, dir[t], req[t].key)
    BY <1>1 DEF DBInv, RequestInv, RequestOK
  <2> QED
    BY <2>1, FoundValue DEF PointsTo, Dir, Location
<1>2. CASE CachedLookup(t)
  <2>1. /\ at[t] = "called" /\ req[t] \in Requests(t) /\ req[t].op = "get"
        /\ pc[t] = "idle"
    BY <1>2 DEF CachedLookup, In, DBInv, RequestInv, RequestOK, RequestHandlers,
       HandlerInv, HandlerOK
  <2>2. PICK d : d = indices[req[t].key]
    OBVIOUS
  <2>3. PointsTo(data, d, req[t].key) /\ d \in Dir
    BY <1>2, <2>1, <2>2, RequestFacts DEF CachedLookup, DBInv, IndexInv, PointsTo
  <2>4. /\ GoTo(t, "cached") /\ ans' = ans /\ dir' = [dir EXCEPT ![t] = d] /\ pc' = pc
        /\ UNCHANGED fmvars
    BY <1>2, <2>2 DEF CachedLookup, fmvars
  <2>5. FMInv' /\ HandlerOK(t)'
    BY <1>0, <2>1, <2>4, StutterInv DEF HandlerOK, GoTo
  <2> QED
    BY <2>1, <2>3, <2>4, <2>5, CachedMoves
<1>3. CASE BlockHit(t) \/ BlockMiss(t)
  BY <1>3, StutterDBInv DEF BlockHit, BlockMiss
<1>4. CASE BlockOpen(t)
  <2>1. at[t] = "cached"
    BY <1>4 DEF BlockOpen, ReadsBlock, In
  <2>2. AcquireCall(t, dir[t].loc.id) /\ GoTo(t, "cache_open") /\ ans' = ans /\ dir' = dir
    BY <1>4 DEF BlockOpen
  <2>3. FMInv' /\ pc'[t] = "acquire"
    BY <1>1, <2>1, <2>2, CallLocals
  <2>4. HandlerOK(t)' /\ dir' = [dir EXCEPT ![t] = dir[t]]
    BY <1>0, <2>2, <2>3 DEF HandlerOK, GoTo, AcquireLines
  <2> QED
    BY <1>1, <2>1, <2>2, <2>3, <2>4, CachedMoves
<1>5. CASE BlockOpened(t)
  <2>1. at[t] = "cache_open"
    BY <1>5 DEF BlockOpened, Returned, In
  <2>2. Return(t) /\ GoTo(t, "cached") /\ ans' = ans /\ dir' = dir
    BY <1>5 DEF BlockOpened
  <2>3. FMInv' /\ pc'[t] = "idle"
    BY <2>2, CallLocals
  <2>4. HandlerOK(t)' /\ dir' = [dir EXCEPT ![t] = dir[t]]
    BY <1>0, <2>2, <2>3 DEF HandlerOK, GoTo
  <2> QED
    BY <1>1, <2>1, <2>2, <2>3, <2>4, CachedMoves
<1>6. CASE BlockOpenFailed(t)
  <2>1. Reply("kIOError", Empty) \in Replies
    BY ReplyType
  <2> QED
    BY <1>6, <2>1, AnswerInv DEF BlockOpenFailed, CachedReply, Returned, In
<1>7. CASE CachedDone(t)
  <2> DEFINE v == data[dir[t].loc.id][dir[t].loc.offset].value
             a == IF ctx[t].whole /\ v \notin Torn THEN Reply("kOk", v) ELSE Reply("kCorruption", Empty)
  <2>1. at[t] = "cached" /\ Answer(t, a) /\ dir' = [dir EXCEPT ![t] = NoDir]
    BY <1>7 DEF CachedDone, CachedReply, In
  <2>2. v \in Values
    BY <1>1, <2>1
  <2> HIDE DEF v
  <2>3. a \in Replies
    BY <2>2, ReplyType
  <2> HIDE DEF a
  <2> QED
    BY <1>7, <2>1, <2>3, AnswerInv DEF CachedDone
<1>8. CASE BlockReadFailed(t)
  <2>1. Reply("kIOError", Empty) \in Replies
    BY ReplyType
  <2> QED
    BY <1>8, <2>1, AnswerInv DEF BlockReadFailed, CachedReply, ReadsBlock, Returned, In
<1> QED
  BY <1>2, <1>3, <1>4, <1>5, <1>6, <1>7, <1>8 DEF CachedGet

\* A step of the database with the read cache.
LEMMA CachedSteps ==
  ASSUME [RCNext]_rcvars
  PROVE  [DBNext]_vars \/ \E t \in Threads : CachedGet(t)
BY DEF RCNext, DBNext, rcvars

LEMMA NextRCInv == DBInv /\ [RCNext]_rcvars => DBInv'
BY CachedSteps, NextDBInv, CachedGetInv

(***************************************************************************)
(* DBInv holds with the read cache too, whatever the readers find in it.   *)
(***************************************************************************)
THEOREM RCInvariance == RCSpec => []DBInv
<1>1. RCInit => DBInv
  BY InitDBInv DEF RCInit
<1> QED
  BY <1>1, NextRCInv, PTL DEF RCSpec

-----------------------------------------------------------------------------
(***************************************************************************)
(* Linearizability.  A compaction can lose an update that another thread   *)
(* makes meanwhile (run db_lost_update), so this is about databases in     *)
(* which a thread that compacts is the only one that writes or compacts.   *)
(* Where nothing is compacted, any number of threads may write.            *)
(***************************************************************************)
Compacts(t) == Ops[t] \cap {"Compact", "worker"} # {}

CompactsAlone ==
  \A t \in Threads : Compacts(t) => \A u \in Threads \ {t} : Ops[u] \subseteq {"get"}

\* The record that the index has for the key of e is e or a copy of it.
HasCopy(e) ==
  /\ indices[e.key] # NoDir
  /\ data[indices[e.key].loc.id][indices[e.key].loc.offset] = e

\* Nobody else has touched the record that a compaction is moving; it read
\* that record as it is.
AloneInv ==
  \A t \in Threads :
    /\ todo[t] # << >> => Compacts(t)
    /\ at[t] = "c_check" => next[t] = data[Head(todo[t])][scan[t]]
    /\ at[t] = "c_append" => HasCopy(entry[t])

\* The locals of a thread that are no part of Untouched.
SameCall(u) == UNCHANGED <<file_id[u], offset[u], status[u], has_log[u]>>

\* A step of one thread leaves the locals of the others alone.
LEMMA StepOfOne ==
  ASSUME DBInv, NEW t \in Threads, Step(t), NEW u \in Threads \ {t}
  PROVE  Untouched(u) /\ SameCall(u)
<1>1. /\ pc \in [Threads -> Lines] /\ entry \in [Threads -> Entry \cup {NoRecord}]
      /\ file_id \in [Threads -> FileId \cup {0}] /\ has_log \in [Threads -> BOOLEAN]
      /\ offset \in [Threads -> 0 .. kMaxFileBytes]
      /\ status \in [Threads -> {"kOk", "kIOError"}]
      /\ at \in [Threads -> Handlers] /\ dir \in [Threads -> Dir \cup {NoDir}]
      /\ todo \in [Threads -> Seq(FileId)] /\ scan \in [Threads -> 0 .. kMaxFileBytes]
      /\ next \in [Threads -> Entry \cup {NoRecord}]
      /\ ans \in [Threads -> Replies \cup {Idle}]
      /\ req \in [Threads -> Store!Request \cup {Idle}]
  BY DEF DBInv, DBTypeOK, LocalTypes, TypeOK
<1>2. UNCHANGED <<pc[u], entry[u], file_id[u], offset[u], status[u], has_log[u]>>
  <2>1. CASE UNCHANGED fmvars
    BY <2>1 DEF fmvars, locals
  <2>2. CASE \/ \E e \in Entry : AppendCall(t, e)
             \/ \E f \in FileId : AcquireCall(t, f) \/ RemoveCall(t, f)
             \/ Return(t)
    BY <1>1, <2>2 DEF AppendCall, AcquireCall, RemoveCall, Return, Reset, Goto
  <2>3. CASE AppendStep(t)
    BY <1>1, <2>3 DEF AppendStep, AppendSnapshot, AllocateOk, Allocate, AllocateFull,
       AppendPack, AppendPackNullLog, RotateLost, CreateFileBegin, CreateFileOpen,
       CreateFileFail, CreateFilePublish, Goto, Finish, locals
  <2>4. CASE AcquireStep(t)
    BY <1>1, <2>4 DEF AcquireStep, AcquireHit, AcquireMiss, AcquireOpen, AcquireOpenFail,
       AcquireCache, Goto, Finish, locals
  <2>5. CASE RemoveStep(t)
    BY <1>1, <2>5 DEF RemoveStep, RemoveRelease, RemoveMetadata, RemoveMetadataFail,
       RemoveUnlink, Goto, Finish, locals
  <2> QED
    BY <2>1, <2>2, <2>3, <2>4, <2>5, StepOfFiles DEF FileManagerStep, FMStep
<1>3. UNCHANGED <<at[u], req[u], ans[u], dir[u], todo[u], next[u], scan[u]>>
  <2> USE DEF GoTo, Answer
  <2>1. CASE Invoke(t) \/ CompactCall(t) \/ Respond(t) \/ FileManagerStep(t)
    BY <1>1, <2>1 DEF Invoke, CompactCall, Respond, FileManagerStep, dblocals
  <2>2. CASE PutStep(t)
    BY <1>1, <2>2 DEF PutStep, PutCall, PutRejected, PutFailed, PutIndex
  <2>3. CASE GetStep(t)
    BY <1>1, <2>3 DEF GetStep, GetAbsent, GetLookup, GetFailed, GetRead
  <2>4. CASE CompactStep(t)
    BY <1>1, <2>4 DEF CompactStep, CompactWorker, CompactBegin, CompactReadonly,
       CompactFailed, CompactMark, Reads, CompactRead, CompactTorn, CompactAstray,
       CompactSkip, CompactMove, PassesOver, CompactUpdate, CompactScanned, CompactEnd,
       CompactRemoved, LeaveCompact, Advance
  <2> QED
    BY <2>1, <2>2, <2>3, <2>4 DEF Step, Continues
<1> QED
  BY <1>2, <1>3 DEF Untouched, SameCall

\* How a thread gets to, or stays at, the record it has read or its copy.
LEMMA AtAppend ==
  ASSUME DBInv, NEW t \in Threads, Step(t)
  PROVE  /\ at'[t] = "c_append" => CompactMove(t) \/ (FileManagerStep(t) /\ at[t] = "c_append")
         /\ at'[t] = "c_check" => CompactRead(t) \/ CompactTorn(t)
         /\ at'[t] = "c_end" => CompactScanned(t)
<1>1. at \in [Threads -> Handlers]
  BY DEF DBInv, DBTypeOK
<1> USE DEF GoTo, Answer, In, Returned
<1>2. CASE Invoke(t) \/ CompactCall(t) \/ Respond(t)
  BY <1>1, <1>2 DEF Invoke, CompactCall, Polls, Respond
<1>3. CASE FileManagerStep(t)
  <2>1. at' = at /\ pc[t] # "idle"
    BY <1>3, FMStepFacts
    DEF FileManagerStep, dblocals, DBInv, AppendLines, AcquireLines, RemoveLines
  <2> QED
    BY <1>3, <2>1 DEF DBInv, HandlerInv, HandlerOK
<1>4. CASE PutStep(t)
  BY <1>1, <1>4 DEF PutStep, PutCall, PutRejected, PutFailed, PutIndex
<1>5. CASE GetStep(t)
  BY <1>1, <1>5 DEF GetStep, GetAbsent, GetLookup, GetFailed, GetRead
<1>6. CASE CompactStep(t) /\ ~CompactMove(t) /\ ~CompactRead(t) /\ ~CompactTorn(t)
             /\ ~CompactScanned(t)
  BY <1>1, <1>6 DEF CompactStep, CompactWorker, Polls, CompactBegin, CompactReadonly,
     CompactFailed, CompactMark, CompactAstray, CompactSkip, CompactUpdate,
     CompactEnd, CompactRemoved, LeaveCompact
<1>7. CASE CompactMove(t) \/ CompactScanned(t)
  BY <1>1, <1>7 DEF CompactMove, CompactScanned
<1>8. CASE CompactRead(t) \/ CompactTorn(t)
  BY <1>1, <1>8 DEF CompactRead, CompactTorn, Reads
<1> QED
  BY <1>2, <1>3, <1>4, <1>5, <1>6, <1>7, <1>8 DEF Step, Continues

\* Only threads that compact get files to compact.
LEMMA TodoOfCompactor ==
  ASSUME DBInv, NEW t \in Threads, Step(t), todo'[t] # << >>
  PROVE  todo[t] # << >> \/ Compacts(t)
<1>1. todo \in [Threads -> Seq(FileId)]
  BY DEF DBInv, DBTypeOK
<1>2. CASE Invoke(t) \/ CompactCall(t) \/ Respond(t) \/ FileManagerStep(t)
  BY <1>2 DEF Invoke, CompactCall, Respond, FileManagerStep, dblocals, Compacts
<1>3. CASE PutStep(t) \/ GetStep(t)
  BY <1>3 DEF PutStep, PutCall, PutRejected, PutFailed, PutIndex, GetStep, GetAbsent,
     GetLookup, GetFailed, GetRead
<1>4. CASE CompactStep(t)
  <2>1. CASE CompactReadonly(t)
    BY <2>1 DEF CompactReadonly
  <2>2. CASE CompactFailed(t) \/ CompactRemoved(t)
    BY <2>2 DEF CompactFailed, CompactRemoved, Returned, In, DBInv, CompactInv, CompactOK,
       CompactHandlers
  <2> QED
    BY <1>4, <2>1, <2>2 DEF CompactStep, CompactWorker, CompactBegin, CompactMark,
       Reads, CompactRead, CompactTorn, CompactAstray, CompactSkip, CompactMove,
       CompactUpdate, CompactScanned, CompactEnd, Compacts
<1> QED
  BY <1>2, <1>3, <1>4 DEF Step, Continues

\* Beside a thread that compacts nobody appends a record.
LEMMA NobodyElseWrites ==
  ASSUME DBInv, AloneInv, CompactsAlone, NEW t \in Threads, at[t] \in CompactHandlers,
         NEW u \in Threads \ {t}
  PROVE  at[u] \notin {"put", "c_append"} /\ ~PutIndex(u) /\ ~CompactUpdate(u)
<1>1. Compacts(t)
  BY DEF DBInv, CompactInv, CompactOK, AloneInv
<1>2. Ops[u] \subseteq {"get"} /\ ~Compacts(u)
  BY <1>1 DEF CompactsAlone, Compacts
<1>3. ASSUME at[u] = "put" PROVE FALSE
  <2>1. req[u] \in Requests(u) /\ IsWrite(req[u])
    BY <1>3 DEF DBInv, RequestInv, RequestOK, RequestHandlers
  <2> QED
    BY <1>2, <2>1 DEF Requests, IsWrite
<1>4. ASSUME at[u] = "c_append" PROVE FALSE
  <2>1. todo[u] # << >>
    BY <1>4 DEF DBInv, CompactInv, CompactOK, CompactHandlers
  <2> QED
    BY <1>2, <2>1 DEF AloneInv
<1> QED
  BY <1>3, <1>4 DEF PutIndex, CompactUpdate, Returned, In

\* What it reads, it reads whole.
LEMMA NobodyPacks ==
  ASSUME DBInv, AloneInv, CompactsAlone, NEW t \in Threads, at[t] \in CompactHandlers
  PROVE  ~CompactTorn(t) /\ \A u \in Threads \ {t} : ~Packs(u, t)
<1>1. ASSUME NEW u \in Threads \ {t}, Packs(u, t) PROVE FALSE
  <2>1. pc[u] = "pack" /\ at[u] \in Handlers
    BY <1>1 DEF Packs, DBInv, DBTypeOK
  <2>2. at[u] \in {"put", "c_append"}
    BY <2>1 DEF DBInv, HandlerInv, HandlerOK, Handlers, AcquireLines, RemoveLines
  <2> QED
    BY <2>2, NobodyElseWrites
<1> QED
  BY <1>1 DEF CompactTorn

\* The record a compaction has read is still what it read.
LEMMA ReadKept ==
  ASSUME DBInv, DataKept, NEW t \in Threads, at[t] = "c_check",
         next[t] = data[Head(todo[t])][scan[t]],
         next'[t] = next[t], scan'[t] = scan[t], todo'[t] = todo[t]
  PROVE  next'[t] = data'[Head(todo'[t])][scan'[t]]
<1>1. PICK e : e = next[t]
  OBVIOUS
<1>2. e \in Entry /\ scan[t] + SizeOf(e) < kMaxFileBytes /\ scan[t] \in 0 .. kMaxFileBytes
  BY <1>1 DEF DBInv, CompactInv, CompactOK, DBTypeOK
<1>3. SizeOf(e) \in Nat /\ e # NoRecord
  BY <1>2, EntryFields, HoleAssumption
<1>4. scan[t] \in Offset
  BY <1>2, <1>3, CapacityAssumption DEF Offset
<1>5. Head(todo[t]) \in FileId
  BY OwnFile DEF CompactHandlers
<1> QED
  BY <1>1, <1>3, <1>4, <1>5 DEF DataKept

LEMMA CopyKept ==
  ASSUME DBInv, DataKept, indices' = indices, NEW e \in Entry, HasCopy(e)
  PROVE  HasCopy(e)'
<1>1. e.key \in Keys
  BY EntryFields
<1>2. PICK d : d = indices[e.key]
  OBVIOUS
<1>3. PointsTo(data, d, e.key)
  BY <1>1, <1>2 DEF DBInv, IndexInv, HasCopy
<1>4. data'[d.loc.id][d.loc.offset] = data[d.loc.id][d.loc.offset]
  BY <1>3, RecordKept
<1> QED
  BY <1>2, <1>4 DEF HasCopy

LEMMA AloneStep ==
  ASSUME DBInv, AloneInv, CompactsAlone, NEW t \in Threads, Step(t)
  PROVE  AloneInv'
<1>1. DataKept
  BY StepKeepsData DEF DBNext
<1>2. \A u \in Threads \ {t} : Untouched(u)
  BY StepOfOne
<1>3. ASSUME NEW u \in Threads, todo'[u] # << >> PROVE Compacts(u)
  BY <1>2, <1>3, TodoOfCompactor DEF AloneInv, Untouched
<1>4. ASSUME NEW u \in Threads, at[u] = "c_append", entry'[u] = entry[u],
             ~PutIndex(t), ~CompactUpdate(t)
      PROVE  HasCopy(entry[u])'
  <2>1. PICK e \in Entry : e = entry[u]
    BY <1>4 DEF DBInv, HandlerInv, HandlerOK
  <2>2. HasCopy(e) /\ indices' = indices
    BY <1>4, <2>1, StepKeepsIndex DEF AloneInv
  <2>3. HasCopy(e)'
    BY <1>1, <2>2, CopyKept
  <2> QED
    BY <1>4, <2>1, <2>3
<1>5. ASSUME NEW u \in Threads \ {t}, at'[u] = "c_append" PROVE HasCopy(entry[u])'
  <2>1. at[u] = "c_append" /\ entry'[u] = entry[u]
    BY <1>2, <1>5 DEF Untouched
  <2> QED
    BY <1>4, <2>1, NobodyElseWrites DEF CompactHandlers
<1>6. ASSUME at'[t] = "c_append" PROVE HasCopy(entry[t])'
  <2>1. CASE FileManagerStep(t) /\ at[t] = "c_append"
    <3>1. entry' = entry /\ indices' = indices /\ at' = at
      BY <2>1, FMStepFacts DEF FileManagerStep, DBInv, dbshared, dblocals
    <3>2. ~PutIndex(t) /\ ~CompactUpdate(t)
      BY <2>1, <3>1 DEF PutIndex, CompactUpdate, GoTo, Returned, In, DBInv, DBTypeOK
    <3> QED
      BY <1>4, <2>1, <3>1, <3>2
  <2>2. CASE CompactMove(t)
    <3>1. PICK e : e = next[t]
      OBVIOUS
    <3>2. /\ at[t] = "c_check" /\ IsCurrent(e, Position(t)) /\ AppendCall(t, e)
          /\ indices' = indices
      BY <2>2, <3>1 DEF CompactMove, In, dbshared
    <3>3. e \in Entry /\ e = data[Head(todo[t])][scan[t]]
      BY <3>1, <3>2 DEF DBInv, CompactInv, CompactOK, AloneInv
    <3>4. HasCopy(e)
      BY <3>2, <3>3 DEF IsCurrent, Position, HasCopy
    <3>5. HasCopy(e)'
      BY <1>1, <3>2, <3>3, <3>4, CopyKept
    <3>6. entry'[t] = e
      BY <3>2, <3>3, CallLocals
    <3> QED
      BY <3>5, <3>6
  <2> QED
    BY <1>6, <2>1, <2>2, AtAppend
<1>7. ASSUME NEW u \in Threads, at'[u] = "c_check"
      PROVE  next'[u] = data'[Head(todo'[u])][scan'[u]]
  <2>1. CASE u # t
    BY <1>1, <1>2, <1>7, <2>1, ReadKept DEF Untouched, AloneInv
  <2>2. CASE u = t
    <3>1. CompactRead(t) \/ CompactTorn(t)
      BY <1>7, <2>2, AtAppend
    <3>2. at[t] = "c_scan"
      BY <3>1 DEF CompactRead, CompactTorn, In
    <3>3. CompactRead(t)
      BY <3>1, <3>2, NobodyPacks DEF CompactHandlers
    <3>4. next'[t] = data[Head(todo[t])][scan[t]] /\ UNCHANGED <<data, todo, scan>>
      BY <3>3 DEF CompactRead, Reads, DBInv, DBTypeOK, fmvars, disk
    <3> QED
      BY <2>2, <3>4
  <2> QED
    BY <2>1, <2>2
<1> QED
  BY <1>3, <1>5, <1>6, <1>7 DEF AloneInv

\* Steps outside all handlers, and the steps of cached Gets.
LEMMA AloneFrame ==
  ASSUME DBInv, AloneInv, DataKept, UNCHANGED <<indices, todo, next, scan>>,
         \A u \in Threads : at'[u] = "c_append" => at[u] = "c_append" /\ entry'[u] = entry[u],
         \A u \in Threads : at'[u] = "c_check" => at[u] = "c_check"
  PROVE  AloneInv'
<1>1. ASSUME NEW u \in Threads, at'[u] = "c_append" PROVE HasCopy(entry[u])'
  <2>1. PICK e \in Entry : e = entry[u]
    BY <1>1 DEF DBInv, HandlerInv, HandlerOK
  <2>2. HasCopy(e)'
    BY <1>1, <2>1, CopyKept DEF AloneInv
  <2> QED
    BY <1>1, <2>1, <2>2
<1>2. ASSUME NEW u \in Threads, at'[u] = "c_check"
      PROVE  next'[u] = data'[Head(todo'[u])][scan'[u]]
  BY <1>2, ReadKept DEF AloneInv
<1> QED
  BY <1>1, <1>2 DEF AloneInv

LEMMA AloneNext ==
  ASSUME DBInv, DBInv', AloneInv, CompactsAlone, [RCNext]_rcvars
  PROVE  AloneInv'
<1>1. CASE UNCHANGED <<fmvars, indices, dblocals>>
  <2>1. DataKept /\ UNCHANGED <<indices, todo, next, scan, at, entry>>
    BY <1>1, SameData DEF fmvars, disk, shared, locals, dblocals
  <2> QED
    BY <2>1, AloneFrame
<1>2. CASE \E t \in Threads : Step(t)
  BY <1>2, AloneStep
<1>3. CASE \E t \in Threads : CachedGet(t)
  <2>1. PICK t \in Threads : CachedGet(t)
    BY <1>3
  <2>2. at'[t] \notin {"c_append", "c_check"}
    <3>1. at[t] \in {"called", "cached", "cache_open"} /\ todo' = todo /\ req' = req
      BY <2>1, CachedKeeps
    <3>2. req[t] # Idle
      BY <3>1, RequestFacts DEF DBInv, RequestInv, RequestOK, RequestHandlers
    <3> QED
      BY <3>1, <3>2 DEF DBInv, RequestInv, RequestOK, RequestHandlers
  <2> QED
    BY <2>1, <2>2, CachedKeeps, AloneFrame DEF Untouched, dbshared
<1> QED
  BY <1>1, <1>2, <1>3 DEF RCNext, rcvars, SyncFailed, DBTerminating, vars, dbshared

\* Moving a record leaves the value of its key as it was.
LEMMA MoveRefines ==
  ASSUME DBInv, DBInv', AloneInv, NEW t \in Threads, CompactUpdate(t)
  PROVE  UNCHANGED <<AbstractStore, req, AbstractAns>>
<1>1. PICK e \in Entry : e = entry[t]
  BY DEF CompactUpdate, Returned, In, DBInv, HandlerInv, HandlerOK
<1>2. PICK l : l = Loc(t)
  OBVIOUS
<1>3. /\ at[t] = "c_append" /\ pc[t] = "returned" /\ status[t] = "kOk"
      /\ UNCHANGED <<data, req, ans, dir>> /\ indices' = IndexAfterMove(indices, l, e)
  BY <1>1, <1>2 DEF CompactUpdate, Returned, In, Return, disk
<1>4. e.key \in Keys /\ l \in Location /\ data[l.id][l.offset] = e
  BY <1>1, <1>2, <1>3, EntryFields, AppendResult DEF DBInv
<1>5. DirOf(l, e) # NoDir /\ DirOf(l, e).loc = l
  BY <1>4, DirOfType
<1>6. HasCopy(e)
  BY <1>1, <1>3 DEF AloneInv
<1>7. indices \in [Keys -> Dir \cup {NoDir}]
  BY DEF DBInv, DBTypeOK
<1>8. \/ indices' = indices
      \/ indices'[e.key] = DirOf(l, e) /\ \A x \in Keys : x # e.key => indices'[x] = indices[x]
  BY <1>3, <1>4, <1>7 DEF IndexAfterMove
<1>9. ASSUME NEW k \in Keys PROVE Value(k)' = Value(k)
  <2>1. CASE indices'[k] = indices[k]
    BY <1>3, <2>1 DEF Value
  <2>2. CASE k = e.key /\ indices'[k] = DirOf(l, e)
    <3>1. Value(k) = e.value
      BY <1>6, <2>2 DEF Value, HasCopy
    <3>2. Value(k)' = e.value
      BY <1>3, <1>4, <1>5, <2>2 DEF Value
    <3> QED
      BY <3>1, <3>2
  <2> QED
    BY <1>8, <2>1, <2>2
<1>10. AbstractStore' = AbstractStore
  BY <1>9 DEF AbstractStore
<1>11. AbstractAns' = AbstractAns
  BY <1>3 DEF AbstractAns
<1> QED
  BY <1>3, <1>10, <1>11

\* The other steps of compaction, and those of the file manager.
LEMMA UnseenStep ==
  ASSUME DBInv, NEW t \in Threads,
         Step(t), ~CompactUpdate(t),
         PutCall(t) \/ FileManagerStep(t) \/ CompactCall(t) \/ CompactStep(t)
  PROVE  UNCHANGED <<AbstractStore, req, AbstractAns>>
<1>1. DataKept
  BY StepKeepsData DEF DBNext
<1>2. UNCHANGED <<req, ans, dir>>
  BY DEF PutCall, FileManagerStep, dblocals, CompactCall, CompactStep, CompactWorker,
     CompactBegin, CompactReadonly, CompactFailed, CompactMark, Reads, CompactRead,
     CompactTorn, CompactAstray, CompactSkip, CompactMove, CompactScanned, CompactEnd,
     CompactRemoved
<1>3. indices' = indices
  BY DEF PutCall, FileManagerStep, dbshared, CompactCall, CompactStep, CompactWorker,
     CompactBegin, CompactReadonly, CompactFailed, CompactMark, Reads, CompactRead,
     CompactTorn, CompactAstray, CompactSkip, CompactMove, CompactScanned, CompactEnd,
     CompactRemoved
<1> QED
  BY <1>1, <1>2, <1>3, HiddenStep

LEMMA StepRefines ==
  ASSUME DBInv, DBInv', AloneInv, GetMayFail, [DBNext]_vars
  PROVE  Store!KVNext \/ UNCHANGED <<AbstractStore, req, AbstractAns>>
<1>1. ASSUME NEW t \in Threads, Step(t)
      PROVE  Store!KVNext \/ UNCHANGED <<AbstractStore, req, AbstractAns>>
  <2>1. CASE Invoke(t) \/ Respond(t)
    BY <2>1, InvokeRefines, RespondRefines
  <2>2. CASE CompactUpdate(t)
    BY <2>2, MoveRefines
  <2>3. CASE ~CompactUpdate(t) /\ (PutCall(t) \/ FileManagerStep(t) \/ CompactCall(t)
                                     \/ CompactStep(t))
    BY <1>1, <2>3, UnseenStep
  <2>4. CASE PutStep(t) /\ ~PutCall(t)
    BY <2>4, WriteFailsRefines, PutIndexRefines DEF PutStep
  <2>5. CASE GetStep(t)
    BY <2>5, GetAbsentRefines, GetLookupRefines, GetEndRefines DEF GetStep
  <2> QED
    BY <1>1, <2>1, <2>2, <2>3, <2>4, <2>5 DEF Step, Continues
<1>2. CASE SyncFailed \/ UNCHANGED vars
  <2>1. UNCHANGED <<data, active_file_id, indices, req, ans, dir>>
    BY <1>2 DEF SyncFailed, vars, fmvars, disk, shared, dbshared, dblocals
  <2> QED
    BY <2>1, SameData, HiddenStep
<1> QED
  BY <1>1, <1>2 DEF DBNext, DBTerminating

\* A cached Get takes effect at its lookup, too.
LEMMA CachedRefines ==
  ASSUME DBInv, DBInv', GetMayFail, NEW t \in Threads, CachedGet(t)
  PROVE  Store!KVNext \/ UNCHANGED <<AbstractStore, req, AbstractAns>>
<1>1. /\ DataKept /\ UNCHANGED <<data, indices, req, todo, next, scan>>
      /\ at[t] \in {"called", "cached", "cache_open"}
      /\ \A u \in Threads \ {t} : Untouched(u)
  BY CachedKeeps DEF disk, dbshared
<1>2. CASE CachedLookup(t)
  BY <1>1, <1>2, LookupRefines DEF CachedLookup, In
<1>3. CASE BlockHit(t) \/ BlockMiss(t) \/ BlockOpen(t) \/ BlockOpened(t)
  <2>1. UNCHANGED <<ans, dir>>
    BY <1>3 DEF BlockHit, BlockMiss, BlockOpen, BlockOpened, vars, dblocals
  <2> QED
    BY <1>1, <2>1, HiddenStep
<1>4. CASE BlockOpenFailed(t)
  <2>1. /\ at[t] = "cache_open" /\ Return(t) /\ dir' = [dir EXCEPT ![t] = NoDir]
        /\ Answer(t, Reply("kIOError", Empty))
    BY <1>4 DEF BlockOpenFailed, CachedReply, Returned, In
  <2> QED
    BY <1>1, <2>1, EndRefines
<1>5. CASE CachedDone(t)
  <2>1. /\ at[t] = "cached" /\ UNCHANGED fmvars /\ dir' = [dir EXCEPT ![t] = NoDir]
    BY <1>5 DEF CachedDone, CachedReply, In
  <2>2. PICK a : /\ Answer(t, a)
                 /\ \/ a = Reply("kOk", data[dir[t].loc.id][dir[t].loc.offset].value)
                    \/ \E s \in {"kIOError", "kCorruption"} : a = Reply(s, Empty)
    BY <1>5 DEF CachedDone, CachedReply
  <2> QED
    BY <1>1, <2>1, <2>2, EndRefines
<1>6. CASE BlockReadFailed(t)
  <2>1. /\ Return(t) \/ UNCHANGED fmvars
        /\ at[t] \in {"cached", "cache_open"} /\ dir' = [dir EXCEPT ![t] = NoDir]
        /\ Answer(t, Reply("kIOError", Empty))
    BY <1>6 DEF BlockReadFailed, CachedReply, ReadsBlock, Returned, In
  <2> QED
    BY <1>1, <2>1, EndRefines
<1> QED
  BY <1>2, <1>3, <1>4, <1>5, <1>6 DEF CachedGet

LEMMA InitRefines == DBInit => AloneInv /\ Store!KVInit
<1> SUFFICES ASSUME DBInit PROVE AloneInv /\ Store!KVInit
  OBVIOUS
<1>1. AbstractStore = [k \in Keys |-> Empty]
  BY DEF DBInit, AbstractStore, Value
<1>2. AbstractAns = [t \in Threads |-> Idle]
  BY DEF DBInit, AbstractAns
<1> QED
  BY <1>1, <1>2 DEF DBInit, AloneInv, Store!KVInit

LEMMA AloneInvariance ==
  ASSUME CompactsAlone
  PROVE  DBSpec => [](DBInv /\ AloneInv)
<1>1. DBInv /\ DBInv' /\ AloneInv /\ [DBNext]_vars => AloneInv'
  <2> SUFFICES ASSUME DBInv, DBInv', AloneInv, [DBNext]_vars PROVE AloneInv'
    OBVIOUS
  <2>1. CASE UNCHANGED <<fmvars, indices, dblocals>>
    <3>1. DataKept /\ UNCHANGED <<indices, todo, next, scan, at, entry>>
      BY <2>1, SameData DEF fmvars, disk, shared, locals, dblocals
    <3> QED
      BY <3>1, AloneFrame
  <2> QED
    BY <2>1, AloneStep DEF DBNext, SyncFailed, DBTerminating, vars, dbshared
<1> QED
  BY <1>1, InitRefines, DBInvariance, PTL DEF DBSpec

(***************************************************************************)
(* DBImpl is a linearizable map for any number of clients, with rotation,  *)
(* IO errors, the read-only state and with compaction by the thread that   *)
(* writes: a write takes effect when the index takes it, a Get at its      *)
(* lookup, moving a record and a failed operation have no effect.          *)
(***************************************************************************)
THEOREM LinearizableMap ==
  ASSUME CompactsAlone, GetMayFail
  PROVE  DBSpec => Linearizable
<1>1. DBInv /\ DBInv' /\ AloneInv /\ [DBNext]_vars
        => [Store!KVNext]_<<AbstractStore, req, AbstractAns>>
  BY StepRefines
<1> QED
  BY <1>1, InitRefines, AloneInvariance, DBInvariance, PTL
  DEF DBSpec, Linearizable, Store!KVSpec, Store!kvvars

(***************************************************************************)
(* The same with the read cache, whose blocks are never refreshed: a Get   *)
(* that meets stale bytes ends in kCorruption, never with another value.   *)
(***************************************************************************)
THEOREM LinearizableWithCache ==
  ASSUME CompactsAlone, GetMayFail
  PROVE  RCSpec => Linearizable
<1>1. DBInv /\ DBInv' /\ AloneInv /\ [RCNext]_rcvars => AloneInv'
  BY AloneNext
<1>2. RCInit => AloneInv /\ Store!KVInit
  BY InitRefines DEF RCInit
<1>3. RCSpec => []AloneInv
  BY <1>1, <1>2, RCInvariance, PTL DEF RCSpec
<1>4. DBInv /\ DBInv' /\ AloneInv /\ [RCNext]_rcvars
        => [Store!KVNext]_<<AbstractStore, req, AbstractAns>>
  BY CachedSteps, StepRefines, CachedRefines
<1> QED
  BY <1>2, <1>3, <1>4, RCInvariance, PTL
  DEF RCSpec, Linearizable, Store!KVSpec, Store!kvvars

-----------------------------------------------------------------------------
(***************************************************************************)
(* Where compactions read beside no writer, nothing torn is ever stored.   *)
(***************************************************************************)
CleanInv ==
  /\ \A f \in FileId, o \in Offset : RecordAt(f, o) => data[f][o].value \notin Torn
  /\ \A t \in Threads : entry[t] # NoRecord => entry[t].value \notin Torn

\* What a step does to the records that threads are appending.
LEMMA EntryStep ==
  ASSUME DBInv, NEW t \in Threads, Step(t)
  PROVE  PutCall(t) \/ CompactMove(t) \/ Return(t) \/ entry' = entry
<1> USE DEF fmvars, locals
<1>1. CASE Invoke(t) \/ CompactCall(t) \/ Respond(t)
  BY <1>1 DEF Invoke, CompactCall, Respond
<1>2. CASE FileManagerStep(t)
  BY <1>2, FMStepFacts DEF FileManagerStep, DBInv
<1>3. CASE PutStep(t)
  BY <1>3 DEF PutStep, PutRejected, PutFailed, PutIndex
<1>4. CASE GetStep(t)
  BY <1>4 DEF GetStep, GetAbsent, GetLookup, GetFailed, GetRead, AcquireCall
<1>5. CASE CompactStep(t)
  BY <1>5 DEF CompactStep, CompactWorker, CompactBegin, CompactReadonly, CompactFailed,
     CompactMark, Reads, CompactRead, CompactTorn, CompactAstray, CompactSkip, CompactUpdate,
     CompactScanned, CompactEnd, CompactRemoved, AcquireCall, RemoveCall
<1> QED
  BY <1>1, <1>2, <1>3, <1>4, <1>5 DEF Step, Continues

LEMMA EntriesClean ==
  ASSUME DBInv, CleanInv, AloneInv, NEW t \in Threads, Step(t),
         NEW u \in Threads, entry'[u] # NoRecord
  PROVE  entry'[u].value \notin Torn
<1>1. entry \in [Threads -> Entry \cup {NoRecord}]
  BY DEF DBInv, FMInv, TypeOK
<1>2. CASE entry'[u] = entry[u]
  BY <1>2 DEF CleanInv
<1>3. CASE u = t /\ PutCall(t)
  <2>1. req[t] \in Requests(t) /\ IsWrite(req[t]) /\ entry'[t] = EntryOf(req[t])
    BY <1>1, <1>3 DEF PutCall, AppendCall, In, DBInv, RequestInv, RequestOK, RequestHandlers
  <2>2. req[t].value \notin Torn
    BY <2>1, DBAssumption, EmptyAssumption DEF Requests, IsWrite
  <2>3. EntryOf(req[t]).value = req[t].value
    BY DEF EntryOf
  <2> QED
    BY <1>3, <2>1, <2>2, <2>3
<1>4. CASE u = t /\ CompactMove(t)
  <2>1. PICK x : x = next[t]
    OBVIOUS
  <2>2. at[t] = "c_check" /\ entry'[t] = x
    BY <1>1, <1>4, <2>1 DEF CompactMove, AppendCall, In
  <2>3. /\ x \in Entry /\ x = data[Head(todo[t])][scan[t]] /\ Head(todo[t]) \in FileId
        /\ scan[t] \in 0 .. kMaxFileBytes /\ scan[t] + SizeOf(x) < kMaxFileBytes
    BY <2>1, <2>2, OwnFile
    DEF DBInv, DBTypeOK, CompactInv, CompactOK, AloneInv, CompactHandlers
  <2>4. scan[t] \in Offset
    BY <2>3, EntryFields, CapacityAssumption DEF Offset
  <2> QED
    BY <1>4, <2>2, <2>3, <2>4, HoleAssumption DEF CleanInv, RecordAt
<1>5. CASE Return(t)
  BY <1>1, <1>2, <1>5 DEF Return, Reset
<1>6. CASE u # t
  BY <1>2, <1>6, StepOfOne DEF Untouched
<1> QED
  BY <1>2, <1>3, <1>4, <1>5, <1>6, EntryStep

LEMMA CleanStep ==
  ASSUME DBInv, CleanInv, AloneInv, NEW t \in Threads, Step(t)
  PROVE  CleanInv'
<1>1. ASSUME NEW f \in FileId, NEW o \in Offset, data'[f][o] # NoRecord
      PROVE  data'[f][o].value \notin Torn
  <2>1. CASE data' = data
    BY <1>1, <2>1 DEF CleanInv, RecordAt
  <2>2. CASE AppendPack(t) \/ AppendPackNullLog(t)
    <3>1. /\ up /\ pc[t] = "pack" /\ WriteRecord(t)
      BY <2>2 DEF AppendPack, AppendPackNullLog, At
    <3>2. PICK e \in Entry : e = entry[t] /\ e # NoRecord
      BY <3>1, PackFacts, HoleAssumption DEF DBInv
    <3>3. file_id[t] \in FileId /\ offset[t] \in Offset
      BY <3>1, PackFacts DEF DBInv
    <3>4. data \in [FileId -> [Offset -> Entry \cup {NoRecord}]]
      BY DEF DBInv, FMInv, TypeOK, Contents
    <3>5. data'[f][o] = data[f][o] \/ data'[f][o] = e
      BY <3>1, <3>2, <3>3, <3>4 DEF WriteRecord
    <3> QED
      BY <1>1, <3>2, <3>5 DEF CleanInv, RecordAt
  <2>3. CASE AllocateOk(t)
    BY <2>1, <2>3 DEF AllocateOk, Allocate, disk
  <2>4. CASE FileManagerStep(t)
    BY <2>1, <2>2, <2>3, <2>4, OtherSteps DEF FileManagerStep, DBInv
  <2>5. CASE ~FileManagerStep(t)
    BY <2>1, <2>5, StepOfFiles
    DEF fmvars, disk, AppendCall, AcquireCall, RemoveCall, Return
  <2> QED
    BY <2>4, <2>5
<1>2. \A u \in Threads : entry'[u] # NoRecord => entry'[u].value \notin Torn
  BY EntriesClean
<1> QED
  BY <1>1, <1>2 DEF CleanInv, RecordAt

(***************************************************************************)
(* With compaction by the thread that writes, or with no compaction, every *)
(* record the index points to passes the checks of HandleGet.  Beside      *)
(* another writer it need not: CompactTorn may read what CompactMove finds *)
(* current once it is packed and indexed.                                  *)
(***************************************************************************)
THEOREM IndexStaysWhole ==
  ASSUME CompactsAlone
  PROVE  DBSpec => []IndexValidates
<1>1. DBInit => CleanInv
  BY DEF DBInit, FMInit, CleanInv, RecordAt, Blank
<1>2. DBInv /\ AloneInv /\ CleanInv /\ [DBNext]_vars => CleanInv'
  <2> SUFFICES ASSUME DBInv, AloneInv, CleanInv, [DBNext]_vars PROVE CleanInv'
    OBVIOUS
  <2>1. CASE UNCHANGED <<data, entry>>
    BY <2>1 DEF CleanInv, RecordAt
  <2> QED
    BY <2>1, CleanStep DEF DBNext, SyncFailed, DBTerminating, vars, fmvars, disk, locals
<1>3. DBInv /\ CleanInv => IndexValidates
  <2> SUFFICES ASSUME DBInv, CleanInv, NEW k \in Keys, indices[k] # NoDir
               PROVE  data[indices[k].loc.id][indices[k].loc.offset].value \notin Torn
    BY DEF IndexValidates
  <2>1. PICK d : d = indices[k]
    OBVIOUS
  <2>2. /\ d.loc.id \in FileId /\ d.loc.offset \in Offset
        /\ data[d.loc.id][d.loc.offset] # NoRecord
    BY <2>1, HoleAssumption DEF DBInv, IndexInv, PointsTo, Dir, Location
  <2> QED
    BY <2>1, <2>2 DEF CleanInv, RecordAt
<1> QED
  BY <1>1, <1>2, <1>3, AloneInvariance, PTL DEF DBSpec

-----------------------------------------------------------------------------
(***************************************************************************)
(* What a restart would find.  Recovery takes the last record of every key *)
(* in the listed files, so the index must have the last one too.  Writers  *)
(* that race for the index, and a compaction that removes a tombstone, do  *)
(* not keep that (runs db_lost_update and db_tombstone): here one thread   *)
(* writes and compacts, and one that compacts does not delete.             *)
(***************************************************************************)
Mutator(w) ==
  /\ \A u \in Threads \ {w} : Ops[u] \subseteq {"get"}
  /\ "delete" \in Ops[w] => ~Compacts(w)

\* No record ends at the last byte of its file, where the iterator misses it.
NoneAtEnd ==
  \A f \in FileId, o \in Offset : RecordAt(f, o) => EndOf(f, o) < kMaxFileBytes

\* A compaction by w misses no record.
NoneMissed(w) == Compacts(w) => NoneAtEnd

RecordOf(l) == data[l.id][l.offset]

\* The records of k that the index has seen.
Seen(w, k) ==
  {l \in Location : /\ RecordAt(l.id, l.offset) /\ RecordOf(l).key = k
                    /\ Stored(w) => l # Loc(w)}

\* The index has the last of them, or the last one is a tombstone.
SeenInv(w) ==
  \A k \in Keys :
    /\ indices[k] # NoDir =>
         \A l \in Seen(w, k) : l = indices[k].loc \/ Before(l, indices[k].loc)
    /\ indices[k] = NoDir =>
         \A l \in Seen(w, k) : RecordOf(l).type = "kSet" =>
           \E m \in Seen(w, k) : RecordOf(m).type = "kDelete" /\ Before(l, m)

\* Tombstones are in listed files, and only where w deletes.
TombInv(w) ==
  \A f \in FileId, o \in Offset :
    RecordAt(f, o) /\ data[f][o].type = "kDelete" => f \in files /\ "delete" \in Ops[w]

\* Where w's append stands: it writes at the end of the last file.
WriterInv(w) ==
  /\ active_file_id \in files
  /\ pc[w] \in {"allocate", "pack", "rotate"} \/ Stored(w) => file_id[w] = active_file_id
  /\ Stored(w) =>
       /\ at[w] \in {"put", "c_append"} /\ Unindexed(Loc(w))
       /\ \A l \in Location : RecordAt(l.id, l.offset) => l = Loc(w) \/ Before(l, Loc(w))
  /\ \A f \in FileId : file_mu[f] # NoThread => pc[w] = "pack" /\ file_id[w] = f

\* No index entry is left in a file being removed.
RemovalInv(w) ==
  pc[w] \in RemoveLines =>
    /\ file_id[w] # active_file_id
    /\ \A k \in Keys : indices[k] # NoDir => indices[k].loc.id # file_id[w]

\* Between Allocate and the index.
Allocated(w) == pc[w] = "pack" \/ Stored(w)

\* In the loop over a file's records, or just behind it.
ScanHandlers == {"c_scan", "c_check", "c_append", "c_end"}

\* Where w's compaction stands: the index has no record that it has passed.
ScanInv(w) ==
  IF at[w] \in ScanHandlers
  THEN LET f == Head(todo[w]) IN
       /\ scan[w] = 0 \/ \E o \in Offset : RecordAt(f, o) /\ EndOf(f, o) = scan[w]
       /\ \A k \in Keys : indices[k] # NoDir /\ indices[k].loc.id = f =>
            \/ scan[w] <= indices[k].loc.offset
            \/ at[w] = "c_append" /\ k = entry[w].key
       /\ Allocated(w) /\ file_id[w] = f => scan[w] <= offset[w]
       /\ at[w] = "c_end" => ~IterValid(data[f], scan[w])
  ELSE at[w] # "c_remove" => scan[w] = 0

\* File f will be compacted.
Waits(w, f) == Contains(hints.compact_tasks, f) \/ Contains(todo[w], f)

\* Such a file has records; the active file, once it has any, a current one.
ActiveInv(w) ==
  /\ \A f \in FileId : Waits(w, f) => write_index[f] > 0
  /\ Compacts(w) /\ ~Allocated(w) /\ write_index[active_file_id] > 0 =>
       \E k \in Keys : indices[k] # NoDir /\ indices[k].loc.id = active_file_id

\* All but the compaction's position.
WriteInv(w) ==
  /\ IndexedFilesListed
  /\ SeenInv(w) /\ TombInv(w) /\ WriterInv(w) /\ RemovalInv(w) /\ ActiveInv(w)

RestartInv(w) ==
  /\ IndexedFilesListed
  /\ up => WriteInv(w) /\ ScanInv(w)
  /\ ~up => at[w] \in {"put", "c_append"}

-----------------------------------------------------------------------------
(***************************************************************************)
(* Steps that leave the files, the index and w's append alone.             *)
(***************************************************************************)
Still(w) ==
  /\ UNCHANGED <<data, write_index, files, active_file_id, file_mu, indices, up>>
  /\ \A f \in FileId : Waits(w, f)' => Waits(w, f)
  /\ pc'[w] = "pack" <=> pc[w] = "pack"
  /\ Stored(w)' <=> Stored(w)
  /\ Allocated(w) => UNCHANGED <<at[w], file_id[w], offset[w]>>
  /\ pc'[w] \in {"allocate", "rotate"} => file_id'[w] = active_file_id
  /\ pc'[w] \in RemoveLines => pc[w] \in RemoveLines /\ file_id'[w] = file_id[w]

ScanKept(w) ==
  \/ at'[w] = "c_remove"
  \/ at'[w] \notin ScanHandlers /\ scan'[w] = 0
  \/ /\ at'[w] = at[w] /\ scan'[w] = scan[w] /\ entry'[w] = entry[w]
     /\ Head(todo'[w]) = Head(todo[w])

LEMMA SeenFrame ==
  ASSUME NEW w, SeenInv(w), UNCHANGED <<data, indices>>, Stored(w)' <=> Stored(w),
         Stored(w) => Loc(w)' = Loc(w)
  PROVE  SeenInv(w)'
<1>1. \A k \in Keys : Seen(w, k)' = Seen(w, k)
  BY DEF Seen, RecordAt, RecordOf
<1> QED
  BY <1>1 DEF SeenInv, RecordOf

LEMMA StillWrites ==
  ASSUME NEW w, WriteInv(w), Still(w)
  PROVE  WriteInv(w)'
<1>1. Stored(w) => Loc(w)' = Loc(w)
  BY DEF Still, Loc, Allocated
<1>2. SeenInv(w)'
  BY <1>1, SeenFrame DEF Still, WriteInv
<1>3. TombInv(w)' /\ IndexedFilesListed'
  BY DEF Still, WriteInv, TombInv, RecordAt, IndexedFilesListed
<1>4. WriterInv(w)'
  <2>1. pc'[w] \in {"allocate", "pack", "rotate"} \/ Stored(w)' => file_id'[w] = active_file_id'
    BY DEF Still, WriteInv, WriterInv, Allocated
  <2>2. Stored(w)' =>
          /\ at'[w] \in {"put", "c_append"} /\ Unindexed(Loc(w))'
          /\ \A l \in Location : RecordAt(l.id, l.offset)' => l = Loc(w)' \/ Before(l, Loc(w)')
    BY <1>1 DEF Still, WriteInv, WriterInv, Allocated, Unindexed, RecordAt
  <2>3. \A f \in FileId : file_mu'[f] # NoThread => pc'[w] = "pack" /\ file_id'[w] = f
    BY DEF Still, WriteInv, WriterInv, Allocated
  <2> QED
    BY <2>1, <2>2, <2>3 DEF Still, WriteInv, WriterInv
<1>5. RemovalInv(w)'
  BY DEF Still, WriteInv, RemovalInv
<1>6. Allocated(w)' <=> Allocated(w)
  BY DEF Still, Allocated
<1>7. ActiveInv(w)'
  BY <1>6 DEF Still, WriteInv, ActiveInv
<1> QED
  BY <1>2, <1>3, <1>4, <1>5, <1>7 DEF WriteInv

LEMMA ScanFrame ==
  ASSUME NEW w, ScanInv(w), ScanKept(w), UNCHANGED <<data, indices>>,
         Allocated(w)' /\ at'[w] = "c_append" =>
           Allocated(w) /\ UNCHANGED <<file_id[w], offset[w]>>,
         Allocated(w)' => at'[w] \notin {"c_scan", "c_check", "c_end"}
  PROVE  ScanInv(w)'
<1>1. CASE at'[w] \notin ScanHandlers
  BY <1>1 DEF ScanInv, ScanKept, ScanHandlers
<1>2. CASE at'[w] \in ScanHandlers
  <2>1. /\ at'[w] = at[w] /\ scan'[w] = scan[w] /\ entry'[w] = entry[w]
        /\ Head(todo'[w]) = Head(todo[w])
    BY <1>2 DEF ScanKept, ScanHandlers
  <2>2. CASE at[w] = "c_append"
    BY <1>2, <2>1, <2>2 DEF ScanInv, RecordAt, EndOf
  <2>3. CASE at[w] # "c_append"
    BY <1>2, <2>1, <2>3 DEF ScanInv, ScanHandlers, RecordAt, EndOf
  <2> QED
    BY <2>2, <2>3
<1> QED
  BY <1>1, <1>2

LEMMA StillRestart ==
  ASSUME NEW w \in Threads, DBInv', up, RestartInv(w), Still(w), ScanKept(w)
  PROVE  RestartInv(w)'
<1>1. WriteInv(w)'
  BY StillWrites DEF RestartInv
<1>2. Allocated(w)' => at'[w] \notin {"c_scan", "c_check", "c_end"}
  BY DEF DBInv, HandlerInv, HandlerOK, Allocated, Stored
<1>3. Allocated(w)' => Allocated(w) /\ UNCHANGED <<file_id[w], offset[w]>>
  BY DEF Still, Allocated
<1>4. ScanInv(w)'
  BY <1>2, <1>3, ScanFrame DEF RestartInv, Still
<1> QED
  BY <1>1, <1>4 DEF RestartInv, WriteInv, Still

\* w's locals are left alone too.
LEMMA OthersStill ==
  ASSUME NEW w \in Threads, DBInv, WriterInv(w), hints' = hints,
         UNCHANGED <<data, write_index, files, active_file_id, file_mu, indices, up>>,
         Untouched(w), UNCHANGED <<file_id[w], offset[w], status[w]>>
  PROVE  Still(w) /\ ScanKept(w)
<1>1. Stored(w)' <=> Stored(w)
  BY DEF Stored, Untouched
<1>2. Still(w)
  BY <1>1 DEF Still, Untouched, Waits, WriterInv
<1> QED
  BY <1>2 DEF ScanKept, Untouched

\* The other threads only read.
LEMMA ReaderStep ==
  ASSUME NEW w \in Threads, Mutator(w), DBInv, AloneInv, NEW u \in Threads \ {w}, Step(u)
  PROVE  UNCHANGED <<data, write_index, files, active_file_id, file_mu, indices, hints, up>>
<1>1. Ops[u] \subseteq {"get"} /\ ~Compacts(u) /\ todo[u] = << >>
  BY DEF Mutator, Compacts, AloneInv
<1>2. at[u] \notin CompactHandlers
  BY <1>1 DEF DBInv, CompactInv, CompactOK
<1>3. at[u] \in RequestHandlers => req[u] \in Requests(u) /\ ~IsWrite(req[u])
  BY <1>1 DEF DBInv, RequestInv, RequestOK, Requests, IsWrite
<1>4. at[u] # "put"
  BY <1>3 DEF DBInv, RequestInv, RequestOK, RequestHandlers
<1>5. pc[u] \in AcquireLines \cup {"idle", "returned"}
  BY <1>2, <1>4 DEF DBInv, DBTypeOK, Handlers, HandlerInv, HandlerOK, CompactHandlers
<1> USE DEF fmvars, disk, shared, locks, dbshared
<1>6. CASE Invoke(u) \/ Respond(u)
  BY <1>6 DEF Invoke, Respond
<1>7. CASE CompactCall(u)
  BY <1>1, <1>7 DEF CompactCall, Compacts
<1>8. CASE PutStep(u)
  BY <1>3, <1>4, <1>8 DEF PutStep, PutCall, PutRejected, PutFailed, PutIndex, Returned, In,
     RequestHandlers
<1>9. CASE GetStep(u)
  BY <1>9 DEF GetStep, GetAbsent, GetLookup, GetFailed, GetRead, AcquireCall, Return
<1>10. CASE CompactStep(u)
  BY <1>1, <1>2, <1>10 DEF CompactStep, CompactWorker, CompactBegin, CompactReadonly,
     CompactFailed, CompactMark, CompactRead, CompactTorn, CompactAstray, CompactSkip,
     CompactMove, CompactUpdate, CompactScanned, CompactEnd, CompactRemoved, Returned, In,
     CompactHandlers, Compacts
<1>11. CASE FileManagerStep(u)
  <2>1. AcquireStep(u)
    BY <1>5, <1>11 DEF FileManagerStep, FMStep, AppendStep, AppendSnapshot, AllocateOk,
       AllocateFull, AppendPack, AppendPackNullLog, RotateLost, CreateFileBegin,
       CreateFileOpen, CreateFileFail, CreateFilePublish, RemoveStep, RemoveRelease,
       RemoveMetadata, RemoveMetadataFail, RemoveUnlink, At, AcquireLines
  <2> QED
    BY <1>11, <2>1 DEF FileManagerStep, AcquireStep, AcquireHit, AcquireMiss, AcquireOpen,
       AcquireOpenFail, AcquireCache
<1> QED
  BY <1>6, <1>7, <1>8, <1>9, <1>10, <1>11 DEF Step, Continues

LEMMA ReaderRestart ==
  ASSUME NEW w \in Threads, Mutator(w), DBInv, DBInv', AloneInv, up, RestartInv(w),
         NEW u \in Threads \ {w}, Step(u)
  PROVE  RestartInv(w)'
<1>1. UNCHANGED <<data, write_index, files, active_file_id, file_mu, indices, hints, up>>
  BY ReaderStep
<1>2. Untouched(w) /\ SameCall(w)
  BY StepOfOne
<1>3. Still(w) /\ ScanKept(w)
  BY <1>1, <1>2, OthersStill DEF SameCall, RestartInv, WriteInv
<1> QED
  BY <1>3, StillRestart

\* A cached Get, also one of w.
LEMMA CachedRestart ==
  ASSUME NEW w \in Threads, DBInv, DBInv', up, RestartInv(w), NEW u \in Threads, CachedGet(u)
  PROVE  RestartInv(w)'
<1>1. /\ UNCHANGED <<data, write_index, files, active_file_id, file_mu, indices, hints, up>>
      /\ UNCHANGED <<todo, scan>>
      /\ at[u] \in {"called", "cached", "cache_open"}
      /\ \A v \in Threads \ {u} : Untouched(v) /\ UNCHANGED <<file_id[v], offset[v], status[v]>>
  BY CachedKeeps DEF disk, shared, locks, dbshared
<1>2. CASE u # w
  <2>1. Still(w) /\ ScanKept(w)
    BY <1>1, <1>2, OthersStill DEF RestartInv, WriteInv
  <2> QED
    BY <2>1, StillRestart
<1>3. CASE u = w
  <2>1. at'[w] \in {"called", "get", "cached", "cache_open", "done"}
    <3>1. req'[w] # Idle
      BY <1>1, <1>3, CachedKeeps, RequestFacts DEF DBInv, RequestInv, RequestOK, RequestHandlers
    <3>2. at'[w] \in RequestHandlers /\ (at'[w] = "put" => IsWrite(req'[w]))
      BY <3>1 DEF DBInv, RequestInv, RequestOK
    <3>3. CASE at[w] = "called"
      BY <1>3, <3>3 DEF CachedGet, CachedLookup, BlockHit, BlockMiss, ReadsBlock, BlockOpen,
         BlockOpened, BlockOpenFailed, BlockReadFailed, CachedDone, Returned, In, GoTo, DBInv,
         DBTypeOK
    <3>4. CASE at[w] \in {"cached", "cache_open"}
      <4>1. req'[w].op = "get"
        BY <1>3, <3>4, CachedKeeps DEF DBInv, RequestInv, RequestOK
      <4> QED
        BY <3>2, <4>1 DEF IsWrite, RequestHandlers
    <3> QED
      BY <1>1, <1>3, <3>3, <3>4
  <2>2. pc[w] \in AcquireLines \cup {"idle", "returned"}
    BY <1>1, <1>3 DEF DBInv, HandlerInv, HandlerOK
  <2>3. pc'[w] \in AcquireLines \cup {"idle", "returned"}
    BY <2>1 DEF DBInv, HandlerInv, HandlerOK
  <2>4. ~Stored(w)
    BY <1>1, <1>3 DEF RestartInv, WriteInv, WriterInv
  <2>5. ~Stored(w)'
    BY <1>3, <2>1, <2>3, <2>4 DEF CachedGet, CachedLookup, BlockHit, BlockMiss, BlockOpen,
       AcquireCall, BlockOpened, BlockOpenFailed, BlockReadFailed, ReadsBlock, CachedDone,
       Return, Reset, Goto, Stored,
       fmvars, locals, vars, DBInv, FMInv, TypeOK
  <2>6. Still(w)
    BY <1>1, <1>3, <2>2, <2>3, <2>4, <2>5 DEF Still, Waits, Allocated, AcquireLines, RemoveLines
  <2>7. scan[w] = 0
    BY <1>1, <1>3 DEF RestartInv, ScanInv, ScanHandlers
  <2>8. ScanKept(w)
    BY <1>1, <2>1, <2>7 DEF ScanKept, ScanHandlers
  <2> QED
    BY <2>6, <2>8, StillRestart
<1> QED
  BY <1>2, <1>3

-----------------------------------------------------------------------------
(***************************************************************************)
(* Steps of w that are still.                                              *)
(***************************************************************************)
\* No file is put in a queue.
NoneQueued(w) == \A f \in FileId : Waits(w, f)' => Waits(w, f)

LEMMA IdleStill ==
  ASSUME NEW w \in Threads, pc[w] = "idle", UNCHANGED fmvars, indices' = indices, NoneQueued(w)
  PROVE  Still(w)
BY DEF Still, NoneQueued, Allocated, Stored, RemoveLines, fmvars, disk, shared, locks, locals

LEMMA CallStill ==
  ASSUME NEW w \in Threads, FMInv, indices' = indices, NoneQueued(w),
         \E x : AppendCall(w, x) \/ AcquireCall(w, x)
  PROVE  Still(w)
<1>1. /\ UNCHANGED <<data, write_index, files, active_file_id, file_mu, up>>
      /\ pc[w] = "idle" /\ pc'[w] \in {"snapshot", "acquire"}
  BY DEF AppendCall, AcquireCall, At, Goto, disk, shared, locks, FMInv, TypeOK
<1> QED
  BY <1>1 DEF Still, NoneQueued, Allocated, Stored, RemoveLines

LEMMA ReturnStill ==
  ASSUME NEW w \in Threads, FMInv, indices' = indices, NoneQueued(w), Return(w), ~Stored(w)
  PROVE  Still(w)
<1>1. /\ UNCHANGED <<data, write_index, files, active_file_id, file_mu, up>>
      /\ pc[w] = "returned" /\ pc'[w] = "idle"
  BY DEF Return, Reset, At, Goto, disk, shared, locks, FMInv, TypeOK
<1> QED
  BY <1>1 DEF Still, NoneQueued, Allocated, Stored, RemoveLines

LEMMA FilesStill ==
  ASSUME NEW w \in Threads, FMInv, WriterInv(w), FMStep(w), UNCHANGED <<indices, hints, todo>>,
         ~AllocateOk(w), ~AppendPack(w), ~AppendPackNullLog(w), ~CreateFilePublish(w),
         ~RemoveMetadata(w), ~RemoveMetadataFail(w)
  PROVE  Still(w)
<1>1. /\ UNCHANGED <<data, write_index, file_mu, up, offset>> /\ pc'[w] # "pack"
  BY OtherSteps
<1>2. pc[w] \notin {"pack", "returned"}
  <2>1. CASE AppendStep(w)
    BY <2>1 DEF AppendStep, AppendSnapshot, AllocateFull, RotateLost, CreateFileBegin,
       CreateFileOpen, CreateFileFail, At
  <2> QED
    BY <2>1, FMStepFacts DEF FMStep, AcquireLines, RemoveLines, AcquireStep, AcquireHit,
       AcquireMiss, AcquireOpen, AcquireOpenFail, AcquireCache, RemoveStep, RemoveRelease,
       RemoveUnlink, At
<1>3. ~Stored(w) /\ ~Stored(w)'
  BY <1>2, NewlyStored DEF Stored
<1> USE DEF At, Goto, Finish, disk, shared, locks, locals, FMInv, TypeOK
<1>4. CASE AppendStep(w)
  <2>1. /\ UNCHANGED <<files, active_file_id>>
        /\ pc'[w] \in {"allocate", "rotate"} => file_id'[w] = active_file_id
        /\ pc'[w] \notin RemoveLines
    <3>1. CASE AppendSnapshot(w)
      BY <3>1 DEF AppendSnapshot, RemoveLines
    <3>2. CASE AllocateFull(w)
      BY <3>2 DEF AllocateFull, RemoveLines, WriterInv
    <3>3. CASE RotateLost(w) \/ CreateFileBegin(w) \/ CreateFileFail(w)
      BY <3>3 DEF RotateLost, CreateFileBegin, CreateFileFail, RemoveLines
    <3>4. CASE CreateFileOpen(w)
      BY <3>4 DEF CreateFileOpen, RemoveLines
    <3> QED
      BY <1>4, <3>1, <3>2, <3>3, <3>4 DEF AppendStep
  <2> QED
    BY <1>1, <1>2, <1>3, <2>1 DEF Still, Waits, Allocated
<1>5. CASE AcquireStep(w)
  <2>1. /\ UNCHANGED <<files, active_file_id>>
        /\ pc'[w] \notin RemoveLines /\ pc'[w] \notin {"allocate", "rotate"}
    BY <1>5 DEF AcquireStep, AcquireHit, AcquireMiss, AcquireOpen, AcquireOpenFail,
       AcquireCache, RemoveLines
  <2> QED
    BY <1>1, <1>2, <1>3, <2>1 DEF Still, Waits, Allocated
<1>6. CASE RemoveStep(w)
  <2>1. /\ UNCHANGED <<files, active_file_id, file_id>> /\ pc[w] \in RemoveLines
        /\ pc'[w] \notin {"allocate", "rotate"}
    BY <1>6 DEF RemoveStep, RemoveRelease, RemoveUnlink, RemoveLines
  <2> QED
    BY <1>1, <1>2, <1>3, <2>1 DEF Still, Waits, Allocated
<1> QED
  BY <1>4, <1>5, <1>6 DEF FMStep

\* Invoke, Respond, Get, and the steps of Put around Append.
LEMMA RequestRestart ==
  ASSUME NEW w \in Threads, DBInv, DBInv', up, RestartInv(w),
         \/ Invoke(w) \/ Respond(w) \/ GetStep(w)
         \/ PutCall(w) \/ PutRejected(w) \/ PutFailed(w)
  PROVE  RestartInv(w)'
<1>1. /\ FMInv /\ at \in [Threads -> Handlers]
  BY DEF DBInv, DBTypeOK
<1> USE DEF In, GoTo, Answer, Returned
<1>2. /\ at[w] \in {"idle", "called", "put", "get", "done"}
      /\ at'[w] \in {"idle", "called", "put", "get", "done"}
      /\ UNCHANGED <<indices, hints, todo, scan>>
  <2>1. CASE Invoke(w) \/ Respond(w)
    BY <1>1, <2>1 DEF Invoke, Respond, dbshared
  <2>2. CASE GetStep(w)
    BY <1>1, <2>2 DEF GetStep, GetAbsent, GetLookup, GetFailed, GetRead, dbshared
  <2>3. CASE PutCall(w) \/ PutRejected(w) \/ PutFailed(w)
    BY <1>1, <2>3 DEF PutCall, PutRejected, PutFailed, dbshared
  <2> QED
    BY <2>1, <2>2, <2>3
<1>3. ScanKept(w)
  BY <1>2 DEF ScanKept, ScanHandlers, RestartInv, ScanInv
<1>4. NoneQueued(w)
  BY <1>2 DEF NoneQueued, Waits
<1>5. at[w] \in {"idle", "called", "done"} => pc[w] = "idle"
  BY DEF DBInv, HandlerInv, HandlerOK
<1>6. Still(w)
  <2>1. CASE Invoke(w) \/ Respond(w) \/ GetAbsent(w) \/ PutRejected(w)
    BY <1>2, <1>4, <1>5, <2>1, IdleStill DEF Invoke, Respond, GetAbsent, PutRejected
  <2>2. CASE GetLookup(w) \/ PutCall(w)
    BY <1>1, <1>2, <1>4, <2>2, CallStill DEF GetLookup, PutCall
  <2>3. CASE GetFailed(w) \/ GetRead(w) \/ PutFailed(w)
    <3>1. ~Stored(w)
      BY <2>3 DEF GetFailed, GetRead, PutFailed, Stored, RestartInv, WriteInv, WriterInv
    <3> QED
      BY <1>1, <1>2, <1>4, <2>3, <3>1, ReturnStill DEF GetFailed, GetRead, PutFailed
  <2> QED
    BY <2>1, <2>2, <2>3 DEF GetStep
<1> QED
  BY <1>3, <1>6, StillRestart

\* Compact polls the queue, begins with a file, or is done with it.
LEMMA PollRestart ==
  ASSUME NEW w \in Threads, DBInv, DBInv', up, RestartInv(w),
         \/ CompactCall(w) \/ CompactWorker(w) \/ CompactBegin(w) \/ CompactReadonly(w)
         \/ CompactFailed(w) \/ CompactRemoved(w)
  PROVE  RestartInv(w)'
<1>1. /\ FMInv /\ at \in [Threads -> Handlers] /\ scan \in [Threads -> 0 .. kMaxFileBytes]
      /\ todo \in [Threads -> Seq(FileId)] /\ hints \in Hints
      /\ hints.compact_tasks \in Seq(FileId)
  BY DEF DBInv, DBTypeOK, Hints
<1> USE DEF In, GoTo, Returned, LeaveCompact
<1>2. at[w] \in CompactHandlers => todo[w] # << >>
  BY DEF DBInv, CompactInv, CompactOK
<1>3. CASE CompactCall(w) \/ CompactWorker(w)
  <2>1. at[w] = "idle" /\ pc[w] = "idle" /\ UNCHANGED <<fmvars, indices, at, scan>>
    BY <1>3 DEF CompactCall, CompactWorker, Polls, DBInv, HandlerInv, HandlerOK
  <2>2. ScanKept(w)
    BY <2>1 DEF ScanKept, ScanHandlers, RestartInv, ScanInv
  <2>3. ~\E f : Contains(hints'.compact_tasks, f)
    BY <1>1, <1>3, PollHints DEF CompactCall, CompactWorker, Contains
  <2>4. \A f \in FileId : Contains(todo'[w], f) => Waits(w, f)
    <3>1. CASE CompactCall(w)
      <4>1. PICK s \in [DOMAIN hints.compact_tasks -> FileId] :
              IsSorting(s, hints.compact_tasks) /\ todo' = [todo EXCEPT ![w] = s]
        BY <3>1 DEF CompactCall
      <4> QED
        BY <1>1, <4>1, SortedFiles DEF Waits
    <3>2. CASE CompactWorker(w)
      <4>1. todo'[w] = todo[w] \o hints.compact_tasks
        BY <1>1, <3>2 DEF CompactWorker
      <4> QED
        BY <1>1, <4>1, ConcatFiles DEF Waits
    <3> QED
      BY <1>3, <3>1, <3>2
  <2>5. NoneQueued(w)
    BY <2>3, <2>4 DEF NoneQueued, Waits
  <2> QED
    BY <2>1, <2>2, <2>5, IdleStill, StillRestart
<1>4. CASE CompactBegin(w)
  <2>1. /\ at[w] = "idle" /\ at'[w] = "c_acquire" /\ UNCHANGED <<indices, hints, todo, scan>>
    BY <1>1, <1>4 DEF CompactBegin, dbshared
  <2>2. ScanKept(w) /\ NoneQueued(w)
    BY <2>1 DEF ScanKept, ScanHandlers, RestartInv, ScanInv, NoneQueued, Waits
  <2>3. Still(w)
    BY <1>1, <1>4, <2>1, <2>2, CallStill DEF CompactBegin
  <2> QED
    BY <2>2, <2>3, StillRestart
<1>5. CASE CompactReadonly(w) \/ CompactFailed(w) \/ CompactRemoved(w)
  <2>1. /\ at'[w] = "idle" /\ scan'[w] = 0 /\ todo'[w] = Tail(todo[w]) /\ todo[w] # << >>
        /\ UNCHANGED <<indices, hints>>
    BY <1>1, <1>2, <1>5 DEF CompactReadonly, CompactFailed, CompactRemoved, CompactHandlers,
       dbshared
  <2>2. ScanKept(w)
    BY <2>1 DEF ScanKept, ScanHandlers
  <2>3. NoneQueued(w)
    BY <1>1, <2>1, TailOfFiles DEF NoneQueued, Waits
  <2>4. CASE CompactReadonly(w)
    <3>1. UNCHANGED fmvars /\ pc[w] = "idle"
      BY <2>4 DEF CompactReadonly, DBInv, HandlerInv, HandlerOK
    <3> QED
      BY <2>1, <2>2, <2>3, <3>1, IdleStill, StillRestart
  <2>5. CASE CompactFailed(w) \/ CompactRemoved(w)
    <3>1. ~Stored(w)
      BY <2>5 DEF CompactFailed, CompactRemoved, Stored, RestartInv, WriteInv, WriterInv
    <3>2. Still(w)
      BY <1>1, <2>1, <2>3, <2>5, <3>1, ReturnStill DEF CompactFailed, CompactRemoved
    <3> QED
      BY <2>2, <3>2, StillRestart
  <2> QED
    BY <1>5, <2>4, <2>5
<1> QED
  BY <1>3, <1>4, <1>5

\* The steps of the file manager that are still.
LEMMA FilesRestart ==
  ASSUME NEW w \in Threads, DBInv, DBInv', up, RestartInv(w), FileManagerStep(w),
         ~AllocateOk(w), ~AppendPack(w), ~AppendPackNullLog(w), ~CreateFilePublish(w),
         ~RemoveMetadata(w), ~RemoveMetadataFail(w)
  PROVE  RestartInv(w)'
<1>1. FMInv /\ FMStep(w) /\ UNCHANGED <<indices, hints, todo, at, scan>>
  BY DEF DBInv, FileManagerStep, dbshared, dblocals
<1>2. Still(w)
  BY <1>1, FilesStill DEF RestartInv, WriteInv
<1>3. ScanKept(w)
  BY <1>1, FMStepFacts DEF ScanKept
<1> QED
  BY <1>2, <1>3, StillRestart

-----------------------------------------------------------------------------
(***************************************************************************)
(* The scan.                                                               *)
(***************************************************************************)
LEMMA MarkRestart ==
  ASSUME NEW w \in Threads, DBInv, DBInv', up, RestartInv(w), CompactMark(w)
  PROVE  RestartInv(w)'
<1>1. /\ FMInv /\ at[w] = "c_acquire" /\ at'[w] = "c_scan" /\ UNCHANGED <<indices, todo, scan>>
      /\ Return(w) /\ hints'.compact_tasks = hints.compact_tasks
  BY DEF CompactMark, Returned, In, GoTo, MarkCompacting, DBInv, DBTypeOK
<1>2. ~Stored(w) /\ NoneQueued(w)
  BY <1>1 DEF RestartInv, WriteInv, WriterInv, NoneQueued, Waits
<1>3. Still(w)
  BY <1>1, <1>2, ReturnStill
<1>4. WriteInv(w)'
  BY <1>3, StillWrites DEF RestartInv
<1>5. scan'[w] = 0
  BY <1>1 DEF RestartInv, ScanInv, ScanHandlers
<1>6. ~Allocated(w)'
  BY <1>1, <1>2, <1>3 DEF Still, Allocated, Return, At
<1>7. \A k \in Keys : indices'[k] # NoDir => 0 <= indices'[k].loc.offset
  BY CapacityAssumption DEF DBInv, DBTypeOK, Dir, Location, Offset
<1>8. ScanInv(w)'
  BY <1>1, <1>5, <1>6, <1>7 DEF ScanInv
<1> QED
  BY <1>3, <1>4, <1>8 DEF RestartInv, WriteInv, Still

\* The iterator reads a record, or finds none.
LEMMA ReadRestart ==
  ASSUME NEW w \in Threads, DBInv, DBInv', RestartInv(w), CompactRead(w) \/ CompactScanned(w)
  PROVE  RestartInv(w)'
<1>1. /\ up /\ at[w] = "c_scan" /\ pc[w] = "idle" /\ at'[w] \in {"c_check", "c_end"}
      /\ UNCHANGED <<fmvars, dbshared, todo, scan>>
      /\ at'[w] = "c_end" => ~IterValid(data[Head(todo[w])], scan[w])
  <2>1. at \in [Threads -> Handlers] /\ (at[w] = "c_scan" => pc[w] = "idle")
    BY DEF DBInv, DBTypeOK, HandlerInv, HandlerOK
  <2>2. CASE CompactRead(w)
    BY <2>1, <2>2 DEF CompactRead, Reads, In, GoTo
  <2>3. CASE CompactScanned(w)
    BY <2>1, <2>3 DEF CompactScanned, In, GoTo
  <2> QED
    BY <2>2, <2>3
<1>2. UNCHANGED <<data, indices, hints, pc>>
  BY <1>1 DEF fmvars, disk, dbshared, locals
<1>3. Still(w)
  BY <1>1, <1>2, IdleStill DEF NoneQueued, Waits
<1>4. WriteInv(w)'
  BY <1>1, <1>3, StillWrites DEF RestartInv
<1>5. ~Allocated(w)'
  BY <1>1, <1>2 DEF Allocated, Stored
<1>6. ScanInv(w)
  BY <1>1 DEF RestartInv
<1>7. ScanInv(w)'
  BY <1>1, <1>2, <1>5, <1>6 DEF ScanInv, ScanHandlers, RecordAt, EndOf
<1> QED
  BY <1>1, <1>3, <1>4, <1>7 DEF RestartInv, WriteInv, Still

\* The iterator moves over the record it has read: later ones stand behind it.
LEMMA Passes ==
  ASSUME NEW w \in Threads, DBInv, AloneInv, RestartInv(w), up, at[w] = "c_check",
         NEW e, e = next[w], Advance(w, SizeOf(e))
  PROVE  /\ e \in Entry /\ pc[w] = "idle"
         /\ Head(todo[w]) \in FileId
         /\ \E o \in Offset : RecordAt(Head(todo[w]), o) /\ EndOf(Head(todo[w]), o) = scan'[w]
         /\ \A k \in Keys : indices[k] # NoDir /\ indices[k].loc.id = Head(todo[w]) =>
              \/ scan'[w] <= indices[k].loc.offset
              \/ indices[k].loc = Position(w) /\ k = e.key /\ e.type = "kSet"
<1>1. e \in Entry /\ scan[w] + SizeOf(e) < kMaxFileBytes /\ scan[w] \in 0 .. kMaxFileBytes
  BY DEF DBInv, CompactInv, CompactOK, DBTypeOK
<1>2. PICK f \in FileId : f = Head(todo[w])
  BY OwnFile DEF CompactHandlers
<1>3. PICK p \in Offset : p = scan[w]
  BY <1>1, EntryFields, CapacityAssumption DEF Offset
<1>4. data[f][p] = e /\ RecordAt(f, p) /\ scan'[w] = p + SizeOf(e)
  BY <1>1, <1>2, <1>3, HoleAssumption DEF AloneInv, RecordAt, Advance, DBInv, DBTypeOK
<1>5. EndOf(f, p) = scan'[w]
  BY <1>4 DEF EndOf
<1>6. ASSUME NEW k \in Keys, indices[k] # NoDir, indices[k].loc.id = f
      PROVE  \/ scan'[w] <= indices[k].loc.offset
             \/ indices[k].loc = Position(w) /\ k = e.key /\ e.type = "kSet"
  <2>1. PICK l \in Location : l = indices[k].loc
    BY <1>6 DEF DBInv, DBTypeOK, Dir
  <2>2. /\ l.offset \in Offset /\ RecordAt(f, l.offset) /\ data[f][l.offset].key = k
        /\ data[f][l.offset].type = "kSet"
    BY <1>6, <2>1, HoleAssumption DEF DBInv, IndexInv, PointsTo, RecordAt, Location
  <2>3. p <= l.offset
    BY <1>2, <1>3, <1>6, <2>1 DEF RestartInv, ScanInv, ScanHandlers
  <2>4. CASE l.offset = p
    BY <1>2, <1>3, <1>4, <1>6, <2>1, <2>2, <2>4 DEF Position, Location
  <2>5. CASE p < l.offset
    BY <1>4, <1>5, <2>1, <2>2, <2>5 DEF DBInv, FMInv, RecordsDisjoint
  <2> QED
    BY <2>2, <2>3, <2>4, <2>5, CapacityAssumption DEF Offset
<1>7. pc[w] = "idle"
  BY DEF DBInv, HandlerInv, HandlerOK
<1> QED
  BY <1>1, <1>2, <1>4, <1>5, <1>6, <1>7

LEMMA SkipRestart ==
  ASSUME NEW w \in Threads, DBInv, DBInv', AloneInv, RestartInv(w), CompactSkip(w)
  PROVE  RestartInv(w)'
<1>1. PICK e : e = next[w]
  OBVIOUS
<1>2. /\ up /\ at[w] = "c_check" /\ at'[w] = "c_scan" /\ Advance(w, SizeOf(e))
      /\ e.type # "kSet" \/ ~IsCurrent(e, Position(w))
      /\ UNCHANGED <<fmvars, dbshared, todo>>
  BY <1>1 DEF CompactSkip, PassesOver, In, GoTo, DBInv, DBTypeOK
<1>3. UNCHANGED <<data, indices, hints, pc>>
  BY <1>2 DEF fmvars, disk, dbshared, locals
<1>4. /\ e \in Entry /\ pc[w] = "idle"
      /\ \E o \in Offset : RecordAt(Head(todo[w]), o) /\ EndOf(Head(todo[w]), o) = scan'[w]
      /\ \A k \in Keys : indices[k] # NoDir /\ indices[k].loc.id = Head(todo[w]) =>
           \/ scan'[w] <= indices[k].loc.offset
           \/ indices[k].loc = Position(w) /\ k = e.key /\ e.type = "kSet"
  BY <1>1, <1>2, Passes
<1>5. Still(w)
  BY <1>2, <1>3, <1>4, IdleStill DEF NoneQueued, Waits
<1>6. WriteInv(w)'
  BY <1>2, <1>5, StillWrites DEF RestartInv
<1>7. \A k \in Keys : indices[k] # NoDir /\ indices[k].loc.id = Head(todo[w]) =>
        scan'[w] <= indices[k].loc.offset
  BY <1>2, <1>4 DEF IsCurrent
<1>8. ScanInv(w)'
  BY <1>2, <1>3, <1>4, <1>7 DEF ScanInv, ScanHandlers, RecordAt, EndOf, Allocated, Stored
<1> QED
  BY <1>2, <1>5, <1>6, <1>8 DEF RestartInv, WriteInv, Still

LEMMA MoveRestart ==
  ASSUME NEW w \in Threads, DBInv, DBInv', AloneInv, RestartInv(w), CompactMove(w)
  PROVE  RestartInv(w)'
<1>1. PICK e : e = next[w]
  OBVIOUS
<1>2. /\ up /\ at[w] = "c_check" /\ at'[w] = "c_append" /\ Advance(w, SizeOf(e))
      /\ AppendCall(w, e) /\ UNCHANGED <<indices, hints, todo>>
  BY <1>1 DEF CompactMove, PassesOver, In, GoTo, DBInv, DBTypeOK, dbshared
<1>3. /\ FMInv /\ UNCHANGED data /\ pc'[w] = "snapshot" /\ entry'[w] = e
  BY <1>2 DEF AppendCall, Goto, disk, DBInv, FMInv, TypeOK
<1>4. /\ e \in Entry /\ pc[w] = "idle"
      /\ \E o \in Offset : RecordAt(Head(todo[w]), o) /\ EndOf(Head(todo[w]), o) = scan'[w]
      /\ \A k \in Keys : indices[k] # NoDir /\ indices[k].loc.id = Head(todo[w]) =>
           \/ scan'[w] <= indices[k].loc.offset
           \/ indices[k].loc = Position(w) /\ k = e.key /\ e.type = "kSet"
  BY <1>1, <1>2, Passes
<1>5. Still(w)
  BY <1>2, <1>3, CallStill DEF NoneQueued, Waits
<1>6. WriteInv(w)'
  BY <1>2, <1>5, StillWrites DEF RestartInv
<1>7. ScanInv(w)'
  BY <1>2, <1>3, <1>4 DEF ScanInv, ScanHandlers, RecordAt, EndOf, Allocated, Stored
<1> QED
  BY <1>2, <1>5, <1>6, <1>7 DEF RestartInv, WriteInv, Still

\* Where the iterator stops, no record is left.
LEMMA ScanEnds ==
  ASSUME NEW w \in Threads, DBInv, ChainOver(FileId), NoneAtEnd, RestartInv(w), up,
         at[w] = "c_end",
         NEW o \in Offset, RecordAt(Head(todo[w]), o)
  PROVE  ~(scan[w] <= o)
<1>1. PICK f \in FileId : f = Head(todo[w])
  BY OwnFile DEF CompactHandlers
<1>2. pc[w] = "idle"
  BY DEF DBInv, HandlerInv, HandlerOK
<1>3. file_mu[f] = NoThread
  BY <1>2 DEF RestartInv, WriteInv, WriterInv
<1>4. Chained(data[f], write_index[f])
  BY <1>3 DEF ChainOver
<1>5. /\ data[f] \in Contents
      /\ write_index[f] \in 0 .. kMaxFileBytes /\ scan[w] \in 0 .. kMaxFileBytes
  BY DEF DBInv, DBTypeOK, FMInv, TypeOK
<1>6. SizeOf(data[f][o]) \in Nat \ {0}
  BY <1>1, <1>5, SizeAssumption DEF RecordAt, Contents
<1>7. o + SizeOf(data[f][o]) <= write_index[f]
  BY <1>1 DEF DBInv, FMInv, RecordsDisjoint, EndOf
<1>8. /\ scan[w] = 0 \/ \E p \in Offset : RecordAt(f, p) /\ EndOf(f, p) = scan[w]
      /\ ~IterValid(data[f], scan[w])
  BY <1>1 DEF RestartInv, ScanInv, ScanHandlers
<1>9. scan[w] \in Offset => ~RecordAt(f, scan[w])
  BY <1>8 DEF NoneAtEnd, IterValid, RecordAt, EndOf
<1>10. write_index[f] <= scan[w]
  <2>1. CASE scan[w] = 0
    BY <1>4, <1>5, <1>9, <2>1, CapacityAssumption DEF Chained, RecordAt, Offset
  <2>2. CASE \E p \in Offset : RecordAt(f, p) /\ EndOf(f, p) = scan[w]
    <3>1. scan[w] = write_index[f] \/ (scan[w] < write_index[f] /\ data[f][scan[w]] # NoRecord)
      BY <1>4, <2>2 DEF Chained, RecordAt, EndOf
    <3>2. ~(scan[w] < write_index[f] /\ data[f][scan[w]] # NoRecord)
      BY <1>5, <1>9, CapacityAssumption DEF RecordAt, Offset
    <3> QED
      BY <1>5, <3>1, <3>2
  <2> QED
    BY <1>8, <2>1, <2>2
<1> QED
  BY <1>5, <1>6, <1>7, <1>10, CapacityAssumption DEF Offset

LEMMA EndRestart ==
  ASSUME NEW w \in Threads, DBInv, DBInv', AloneInv, ChainOver(FileId), NoneMissed(w),
         RestartInv(w),
         CompactEnd(w)
  PROVE  RestartInv(w)'
<1>1. PICK f \in FileId : f = Head(todo[w])
  BY OwnFile DEF CompactEnd, In, CompactHandlers
<1>2. /\ up /\ at[w] = "c_end" /\ at'[w] = "c_remove"
      /\ RemoveCall(w, f) /\ UNCHANGED <<indices, todo, scan>> /\ hints' = EraseState(hints, f)
  BY <1>1 DEF CompactEnd, In, GoTo, DBInv, DBTypeOK
<1>3. /\ UNCHANGED <<data, write_index, files, active_file_id, file_mu, up, entry, offset, status>>
      /\ pc[w] = "idle" /\ pc'[w] = "release" /\ file_id'[w] = f
  BY <1>2 DEF RemoveCall, At, Goto, disk, shared, locks, DBInv, FMInv, TypeOK
<1>4. hints'.compact_tasks = hints.compact_tasks
  BY <1>2 DEF EraseState
<1>5. ASSUME NEW k \in Keys, indices[k] # NoDir PROVE indices[k].loc.id # f
  <2> SUFFICES ASSUME indices[k].loc.id = f PROVE FALSE
    OBVIOUS
  <2>1. PICK o : o = indices[k].loc.offset
    OBVIOUS
  <2>2. o \in Offset /\ RecordAt(f, o)
    BY <1>5, <2>1, HoleAssumption DEF DBInv, IndexInv, PointsTo, RecordAt, Dir, Location
  <2>3. scan[w] <= o
    BY <1>1, <1>2, <1>5, <2>1 DEF RestartInv, ScanInv, ScanHandlers
  <2>4. NoneAtEnd
    BY <1>2, OwnFile DEF AloneInv, CompactHandlers, NoneMissed
  <2> QED
    BY <1>1, <1>2, <2>2, <2>3, <2>4, ScanEnds
<1>6. ~Allocated(w) /\ ~Allocated(w)' /\ ~Stored(w) /\ ~Stored(w)'
  BY <1>3 DEF Allocated, Stored
<1>7. f # active_file_id
  <2>1. Compacts(w) /\ Waits(w, f)
    BY <1>1, <1>2, OwnFile DEF AloneInv, CompactHandlers, Waits
  <2>2. write_index[f] > 0
    BY <1>2, <2>1 DEF RestartInv, WriteInv, ActiveInv
  <2> QED
    BY <1>2, <1>5, <1>6, <2>1, <2>2 DEF RestartInv, WriteInv, ActiveInv
<1>8. SeenInv(w)'
  BY <1>2, <1>3, <1>6, SeenFrame DEF RestartInv, WriteInv
<1>9. RemovalInv(w)'
  BY <1>2, <1>3, <1>5, <1>7 DEF RemovalInv
<1>10. TombInv(w)' /\ WriterInv(w)' /\ IndexedFilesListed'
  BY <1>2, <1>3, <1>6 DEF RestartInv, WriteInv, TombInv, RecordAt, WriterInv, IndexedFilesListed
<1>11. ActiveInv(w)'
  BY <1>2, <1>3, <1>4, <1>6 DEF RestartInv, WriteInv, ActiveInv, Waits
<1>12. ScanInv(w)'
  BY <1>2 DEF ScanInv, ScanHandlers
<1> QED
  BY <1>2, <1>3, <1>8, <1>9, <1>10, <1>11, <1>12 DEF RestartInv, WriteInv

-----------------------------------------------------------------------------
(***************************************************************************)
(* The steps of w that change the files.                                   *)
(***************************************************************************)
\* A thread inside Append serves a Put or moves a record.
LEMMA AppendsFor ==
  ASSUME NEW w \in Threads, DBInv, pc[w] \in AppendLines
  PROVE  at[w] \in {"put", "c_append"}
BY DEF DBInv, DBTypeOK, Handlers, HandlerInv, HandlerOK, AppendLines, AcquireLines, RemoveLines

LEMMA AllocateRestart ==
  ASSUME NEW w \in Threads, DBInv, DBInv', RestartInv(w), AllocateOk(w),
         UNCHANGED <<dbshared, dblocals>>
  PROVE  RestartInv(w)'
<1>1. FMInv /\ up /\ pc[w] = "allocate" /\ pc'[w] = "pack"
      /\ UNCHANGED <<data, files, active_file_id, up, entry, file_id>>
  BY DEF AllocateOk, Allocate, At, Goto, disk, DBInv, FMInv, TypeOK
<1>2. PICK f \in FileId : f = file_id[w] /\ f = active_file_id
  BY <1>1 DEF RestartInv, WriteInv, WriterInv, FMInv, TypeOK
<1>3. PICK e \in Entry : e = entry[w]
  BY <1>1 DEF FMInv, LocalsInv, AppendLines
<1>4. SizeOf(e) \in Nat /\ write_index \in [FileId -> 0 .. kMaxFileBytes]
  BY EntryFields DEF DBInv, FMInv, TypeOK
<1>5. /\ write_index' = [write_index EXCEPT ![f] = write_index[f] + SizeOf(e)]
      /\ offset'[w] = write_index[f] /\ file_mu' = [file_mu EXCEPT ![f] = w]
  BY <1>2, <1>3 DEF AllocateOk, Allocate, DBInv, FMInv, TypeOK
<1>6. \A g \in FileId : write_index[g] > 0 => write_index'[g] > 0
  BY <1>4, <1>5
<1>7. ~Stored(w) /\ ~Stored(w)' /\ Allocated(w)'
  BY <1>1 DEF Stored, Allocated
<1>8. UNCHANGED <<indices, hints, at, todo, scan>>
  BY DEF dbshared, dblocals
<1>9. SeenInv(w)'
  BY <1>1, <1>7, <1>8, SeenFrame DEF RestartInv, WriteInv
<1>10. TombInv(w)' /\ RemovalInv(w)' /\ IndexedFilesListed'
  BY <1>1, <1>8 DEF RestartInv, WriteInv, TombInv, RecordAt, RemovalInv, RemoveLines,
     IndexedFilesListed
<1>11. WriterInv(w)'
  <2>1. ASSUME NEW g \in FileId, file_mu'[g] # NoThread PROVE g = f
    BY <1>1, <1>5, <2>1 DEF RestartInv, WriteInv, WriterInv, DBInv, FMInv, TypeOK
  <2> QED
    BY <1>1, <1>2, <1>7, <2>1 DEF RestartInv, WriteInv, WriterInv
<1>12. ActiveInv(w)'
  BY <1>1, <1>6, <1>7, <1>8 DEF RestartInv, WriteInv, ActiveInv, Waits
<1>13. at[w] \in {"put", "c_append"}
  BY <1>1, AppendsFor DEF AppendLines
<1>14. ScanInv(w)'
  <2>1. CASE at[w] = "put"
    BY <1>1, <1>8, <2>1 DEF RestartInv, ScanInv, ScanHandlers
  <2>2. CASE at[w] = "c_append"
    <3>1. ASSUME f = Head(todo[w]) PROVE scan[w] <= write_index[f]
      <4>1. scan[w] = 0 \/ \E o \in Offset : RecordAt(f, o) /\ EndOf(f, o) = scan[w]
        BY <1>1, <2>2, <3>1 DEF RestartInv, ScanInv, ScanHandlers
      <4>2. \A o \in Offset : RecordAt(f, o) => EndOf(f, o) <= write_index[f]
        BY <1>1 DEF FMInv, RecordsDisjoint
      <4> QED
        BY <1>4, <4>1, <4>2
    <3>2. Head(todo'[w]) = f /\ file_id'[w] = f => scan'[w] <= offset'[w]
      BY <1>5, <1>8, <3>1
    <3> QED
      BY <1>1, <1>2, <1>8, <2>2, <3>2 DEF RestartInv, ScanInv, ScanHandlers, RecordAt, EndOf
  <2> QED
    BY <1>13, <2>1, <2>2
<1> QED
  BY <1>1, <1>9, <1>10, <1>11, <1>12, <1>14 DEF RestartInv, WriteInv

\* A record is packed behind all others.
LEMMA PackedLast ==
  ASSUME NEW w \in Threads, DBInv, RestartInv(w), up, pc[w] = "pack"
  PROVE  /\ Loc(w) \in Location /\ ~RecordAt(Loc(w).id, Loc(w).offset)
         /\ Loc(w).id = file_id[w] /\ Loc(w).offset = offset[w]
         /\ \A l \in Location : RecordAt(l.id, l.offset) => Before(l, Loc(w))
<1>1. PICK f \in FileId, p \in Offset : f = file_id[w] /\ p = offset[w] /\ f = active_file_id
  BY PackFacts DEF DBInv, RestartInv, WriteInv, WriterInv
<1>2. PICK m \in Location : m = Loc(w) /\ m.id = f /\ m.offset = p
  <2>1. Loc(w) \in Location /\ Loc(w).id = f /\ Loc(w).offset = p
    BY <1>1 DEF Loc, Location
  <2> QED
    BY <2>1
<1>3. ASSUME NEW l \in Location, RecordAt(l.id, l.offset) PROVE Before(l, m)
  <2>1. l.id \in FileId /\ l.offset \in Offset
    BY DEF Location
  <2>2. ~(l.id > active_file_id)
    BY <1>3, <2>1 DEF DBInv, FMInv, FreshInv, Blank, RecordAt
  <2>3. CASE l.id # f
    BY <1>1, <1>2, <2>1, <2>2, <2>3, MaxFileAssumption DEF Before, FileId
  <2>4. CASE l.id = f
    <3>1. EndOf(f, l.offset) <= p
      BY <1>1, <1>3, <2>1, <2>4 DEF DBInv, FMInv, PackInv
    <3>2. SizeOf(data[f][l.offset]) \in Nat \ {0}
      BY <1>3, <2>1, <2>4, SizeAssumption DEF DBInv, FMInv, TypeOK, Contents, RecordAt
    <3> QED
      BY <1>2, <2>1, <2>4, <3>1, <3>2, CapacityAssumption DEF Before, EndOf, Offset
  <2> QED
    BY <2>3, <2>4
<1>4. ~RecordAt(m.id, m.offset)
  BY <1>3, BeforeOrder
<1> QED
  BY <1>1, <1>2, <1>3, <1>4

LEMMA PackRestart ==
  ASSUME NEW w \in Threads, DBInv, DBInv', RestartInv(w), AppendPack(w),
         UNCHANGED <<dbshared, dblocals>>
  PROVE  RestartInv(w)'
<1>1. /\ FMInv /\ up /\ pc[w] = "pack" /\ pc'[w] = "returned" /\ status'[w] = "kOk"
      /\ UNCHANGED <<files, write_index, active_file_id, up, entry, file_id, offset>>
      /\ WriteRecord(w) /\ file_mu' = [file_mu EXCEPT ![file_id[w]] = NoThread]
  BY DEF AppendPack, At, Finish, Goto, shared, DBInv, FMInv, TypeOK
<1>2. UNCHANGED <<indices, hints, at, req, todo, scan>>
  BY DEF dbshared, dblocals
<1>3. PICK m \in Location : m = Loc(w) /\ m.id = file_id[w] /\ m.offset = offset[w]
  BY <1>1, PackedLast
<1>4. /\ ~RecordAt(m.id, m.offset) /\ m' = m /\ Loc(w)' = m
      /\ \A l \in Location : RecordAt(l.id, l.offset) => Before(l, m)
  BY <1>1, <1>3, PackedLast DEF Loc
<1>5. PICK e \in Entry : e = entry[w]
  BY <1>1 DEF FMInv, LocalsInv, AppendLines
<1>6. /\ data'[m.id][m.offset] = e
      /\ \A f \in FileId, o \in Offset : [id |-> f, offset |-> o] # m => data'[f][o] = data[f][o]
  <2>1. /\ data \in [FileId -> [Offset -> Entry \cup {NoRecord}]]
        /\ m.id \in FileId /\ m.offset \in Offset
    BY <1>1 DEF FMInv, TypeOK, Contents, Location
  <2>2. data' = [data EXCEPT ![m.id] = [data[m.id] EXCEPT ![m.offset] = e]]
    BY <1>1, <1>3, <1>5 DEF WriteRecord
  <2>3. m = [id |-> m.id, offset |-> m.offset]
    BY DEF Location
  <2> QED
    BY <2>1, <2>2, <2>3
<1>7. \A l \in Location : l # m => RecordOf(l)' = RecordOf(l)
  BY <1>6 DEF RecordOf, Location
<1>8. ~Stored(w) /\ Stored(w)' /\ Allocated(w) /\ Allocated(w)'
  BY <1>1, <1>5, HoleAssumption DEF Stored, Allocated
<1>9. \A k \in Keys : Seen(w, k)' = Seen(w, k) /\ \A l \in Seen(w, k) : RecordOf(l)' = RecordOf(l)
  BY <1>4, <1>7, <1>8 DEF Seen, RecordAt, RecordOf
<1>10. SeenInv(w)'
  BY <1>1, <1>2, <1>9 DEF RestartInv, WriteInv, SeenInv
<1>11. at[w] \in {"put", "c_append"}
  BY <1>1, AppendsFor DEF AppendLines
<1>12. e.type = "kDelete" => "delete" \in Ops[w]
  <2>1. CASE at[w] = "c_append"
    BY <1>5, <2>1 DEF DBInv, CompactInv, CompactOK
  <2>2. CASE at[w] = "put"
    <3>1. req[w] \in Requests(w) /\ IsWrite(req[w]) /\ e = EntryOf(req[w])
      BY <1>5, <2>2 DEF DBInv, RequestInv, RequestOK, RequestHandlers
    <3>2. req[w].op = "delete" => "delete" \in Ops[w]
      BY <3>1 DEF Requests
    <3> QED
      BY <3>1, <3>2 DEF IsWrite, EntryOf
  <2> QED
    BY <1>11, <2>1, <2>2
<1>13. TombInv(w)'
  <2> SUFFICES ASSUME NEW f \in FileId, NEW o \in Offset, data'[f][o] # NoRecord,
                      data'[f][o].type = "kDelete"
               PROVE  f \in files /\ "delete" \in Ops[w]
    BY <1>1 DEF TombInv, RecordAt
  <2>1. CASE [id |-> f, offset |-> o] = m
    BY <1>1, <1>3, <1>6, <1>12, <2>1 DEF RestartInv, WriteInv, WriterInv
  <2>2. CASE [id |-> f, offset |-> o] # m
    BY <1>1, <1>6, <2>2 DEF RestartInv, WriteInv, TombInv, RecordAt
  <2> QED
    BY <2>1, <2>2
<1>14. Unindexed(m)
  BY <1>4, HoleAssumption DEF Unindexed, DBInv, IndexInv, PointsTo, RecordAt
<1>15. \A l \in Location : RecordAt(l.id, l.offset)' => l = m \/ Before(l, m)
  BY <1>4, <1>7 DEF RecordAt, RecordOf
<1>16. \A f \in FileId : file_mu'[f] = NoThread
  BY <1>1 DEF RestartInv, WriteInv, WriterInv, FMInv, TypeOK
<1>17. WriterInv(w)'
  BY <1>1, <1>2, <1>4, <1>8, <1>11, <1>14, <1>15, <1>16
  DEF RestartInv, WriteInv, WriterInv, Unindexed
<1>18. RemovalInv(w)' /\ ActiveInv(w)' /\ IndexedFilesListed'
  BY <1>1, <1>2, <1>8 DEF RestartInv, WriteInv, RemovalInv, RemoveLines, ActiveInv, Waits,
     IndexedFilesListed
<1>19. ScanInv(w)'
  <2>1. CASE at[w] = "put"
    BY <1>1, <1>2, <2>1 DEF RestartInv, ScanInv, ScanHandlers
  <2>2. CASE at[w] = "c_append"
    <3>1. PICK f \in FileId : f = Head(todo[w])
      BY <2>2, OwnFile DEF CompactHandlers
    <3>2. ASSUME NEW o \in Offset, RecordAt(f, o) PROVE data'[f][o] = data[f][o]
      BY <1>4, <1>6, <3>2
    <3>3. scan[w] = 0 \/ \E o \in Offset : RecordAt(f, o)' /\ EndOf(f, o)' = scan[w]
      BY <1>1, <2>2, <3>1, <3>2 DEF RestartInv, ScanInv, ScanHandlers, RecordAt, EndOf
    <3> QED
      BY <1>1, <1>2, <1>8, <2>2, <3>1, <3>3 DEF RestartInv, ScanInv, ScanHandlers
  <2> QED
    BY <1>11, <2>1, <2>2
<1> QED
  BY <1>1, <1>10, <1>13, <1>17, <1>18, <1>19 DEF RestartInv, WriteInv

\* The process dies: the record has no index log.
LEMMA CrashRestart ==
  ASSUME NEW w \in Threads, DBInv, RestartInv(w), AppendPackNullLog(w),
         UNCHANGED <<dbshared, dblocals>>
  PROVE  RestartInv(w)'
<1>1. pc[w] = "pack" /\ ~up' /\ UNCHANGED <<files, indices, at>>
  BY DEF AppendPackNullLog, At, dbshared, dblocals
<1>2. at[w] \in {"put", "c_append"}
  BY <1>1, AppendsFor DEF AppendLines
<1> QED
  BY <1>1, <1>2 DEF RestartInv, IndexedFilesListed

LEMMA PublishRestart ==
  ASSUME NEW w \in Threads, DBInv, RestartInv(w), CreateFilePublish(w),
         UNCHANGED <<dbshared, dblocals>>
  PROVE  RestartInv(w)'
<1>1. /\ FMInv /\ up /\ pc[w] = "publish" /\ pc'[w] = "snapshot" /\ files \subseteq files'
      /\ UNCHANGED <<data, write_index, file_mu, up, entry, file_id, offset, status>>
  BY DEF CreateFilePublish, MetadataCreateFile, At, Goto, locals, DBInv, FMInv, TypeOK
<1>2. PICK n \in FileId : n = active_file_id' /\ n \in files' /\ n > active_file_id
  <2>1. file_id[w] = active_file_id /\ NextFile(w) \in FileId
    BY <1>1 DEF FMInv, OneRotation, DiskInv, TypeOK
  <2> QED
    BY <2>1, MaxFileAssumption
    DEF CreateFilePublish, MetadataCreateFile, NextFile, DBInv, FMInv, TypeOK, FileId
<1>3. write_index[n] = 0
  BY <1>1, <1>2 DEF FMInv, FreshInv
<1>4. UNCHANGED <<indices, hints, at, todo, scan>>
  BY DEF dbshared, dblocals
<1>5. ~Stored(w) /\ ~Stored(w)' /\ ~Allocated(w)'
  BY <1>1 DEF Stored, Allocated
<1>6. SeenInv(w)'
  BY <1>1, <1>4, <1>5, SeenFrame DEF RestartInv, WriteInv
<1>7. TombInv(w)' /\ RemovalInv(w)' /\ IndexedFilesListed'
  BY <1>1, <1>4 DEF RestartInv, WriteInv, TombInv, RecordAt, RemovalInv, RemoveLines,
     IndexedFilesListed
<1>8. WriterInv(w)'
  BY <1>1, <1>2, <1>5 DEF RestartInv, WriteInv, WriterInv
<1>9. ActiveInv(w)'
  BY <1>1, <1>2, <1>3, <1>4 DEF RestartInv, WriteInv, ActiveInv, Waits
<1>10. ScanInv(w)'
  BY <1>1, <1>4, <1>5 DEF RestartInv, ScanInv, ScanHandlers, RecordAt, EndOf
<1> QED
  BY <1>1, <1>6, <1>7, <1>8, <1>9, <1>10 DEF RestartInv, WriteInv

\* A file that leaves the metadata has neither current records nor tombstones.
LEMMA ForgetRestart ==
  ASSUME NEW w \in Threads, Mutator(w), DBInv, AloneInv, RestartInv(w),
         RemoveMetadata(w) \/ RemoveMetadataFail(w), UNCHANGED <<dbshared, dblocals>>
  PROVE  RestartInv(w)'
<1>1. /\ FMInv /\ up /\ pc[w] = "forget" /\ pc'[w] \in {"unlink", "returned"}
      /\ files' = files \ {file_id[w]}
      /\ UNCHANGED <<data, write_index, active_file_id, file_mu, up, entry, file_id, offset>>
  BY DEF RemoveMetadata, RemoveMetadataFail, At, Goto, Finish, shared, locks, locals, DBInv,
     FMInv, TypeOK
<1>2. UNCHANGED <<indices, hints, at, todo, scan>>
  BY DEF dbshared, dblocals
<1>3. entry[w] = NoRecord
  BY <1>1 DEF FMInv, LocalsInv, RemoveLines
<1>4. ~Stored(w) /\ ~Stored(w)' /\ ~Allocated(w) /\ ~Allocated(w)'
  BY <1>1, <1>3 DEF Stored, Allocated
<1>5. /\ file_id[w] # active_file_id
      /\ \A k \in Keys : indices[k] # NoDir => indices[k].loc.id # file_id[w]
  BY <1>1 DEF RestartInv, WriteInv, RemovalInv, RemoveLines
<1>6. at[w] = "c_remove"
  BY <1>1 DEF DBInv, DBTypeOK, Handlers, HandlerInv, HandlerOK, AppendLines, AcquireLines
<1>7. "delete" \notin Ops[w]
  BY <1>6 DEF DBInv, CompactInv, CompactOK, CompactHandlers, AloneInv, Mutator
<1>8. SeenInv(w)'
  BY <1>1, <1>2, <1>4, SeenFrame DEF RestartInv, WriteInv
<1>9. TombInv(w)' /\ RemovalInv(w)' /\ IndexedFilesListed'
  BY <1>1, <1>2, <1>5, <1>7
  DEF RestartInv, WriteInv, TombInv, RecordAt, RemovalInv, IndexedFilesListed
<1>10. WriterInv(w)'
  BY <1>1, <1>4, <1>5 DEF RestartInv, WriteInv, WriterInv
<1>11. ActiveInv(w)'
  BY <1>1, <1>2, <1>4 DEF RestartInv, WriteInv, ActiveInv, Waits
<1>12. ScanInv(w)'
  BY <1>2, <1>6 DEF ScanInv, ScanHandlers
<1> QED
  BY <1>1, <1>8, <1>9, <1>10, <1>11, <1>12 DEF RestartInv, WriteInv

-----------------------------------------------------------------------------
(***************************************************************************)
(* The steps of w that change the index: it takes the last record.         *)
(***************************************************************************)
\* What w holds when Append has returned.
LEMMA HeldRecord ==
  ASSUME NEW w \in Threads, DBInv, RestartInv(w), up, pc[w] = "returned", status[w] = "kOk",
         NEW e \in Entry, e = entry[w]
  PROVE  /\ Stored(w) /\ Loc(w) \in Location /\ RecordOf(Loc(w)) = e
         /\ RecordAt(Loc(w).id, Loc(w).offset) /\ Unindexed(Loc(w))
         /\ Loc(w).id = active_file_id /\ active_file_id \in files
         /\ \A l \in Location : RecordAt(l.id, l.offset) => l = Loc(w) \/ Before(l, Loc(w))
<1>1. Stored(w)
  BY HoleAssumption DEF Stored
<1>2. Loc(w) \in Location /\ data[Loc(w).id][Loc(w).offset] = e /\ Loc(w).id = file_id[w]
  BY AppendResult DEF DBInv, Loc
<1> QED
  BY <1>1, <1>2, HoleAssumption DEF RestartInv, WriteInv, WriterInv, RecordOf, RecordAt

LEMMA TakeSeen ==
  ASSUME NEW w \in Threads, SeenInv(w), data' = data, Stored(w), ~Stored(w)',
         NEW l \in Location, l = Loc(w), NEW e \in Entry, RecordOf(l) = e,
         RecordAt(l.id, l.offset),
         \A m \in Location : RecordAt(m.id, m.offset) => m = l \/ Before(m, l),
         NEW k \in Keys, k = e.key, \A x \in Keys : x # k => indices'[x] = indices[x],
         \/ indices'[k] # NoDir /\ indices'[k].loc = l
         \/ indices'[k] = NoDir /\ e.type = "kDelete"
  PROVE  SeenInv(w)'
<1>1. ASSUME NEW x \in Keys
      PROVE  Seen(w, x)' = {m \in Location : RecordAt(m.id, m.offset) /\ RecordOf(m).key = x}
  BY DEF Seen, RecordAt, RecordOf
<1>2. ASSUME NEW x \in Keys, x # k PROVE Seen(w, x)' = Seen(w, x) /\ indices'[x] = indices[x]
  BY <1>1, <1>2 DEF Seen
<1>3. \A m : RecordOf(m)' = RecordOf(m)
  BY DEF RecordOf
<1>4. \A m \in Seen(w, k)' : m = l \/ Before(m, l)
  BY <1>1
<1>5. l \in Seen(w, k)'
  BY <1>1
<1>6. ASSUME NEW x \in Keys, x # k
      PROVE  /\ indices'[x] # NoDir =>
                  \A m \in Seen(w, x)' : m = indices'[x].loc \/ Before(m, indices'[x].loc)
             /\ indices'[x] = NoDir =>
                  \A m \in Seen(w, x)' : RecordOf(m)'.type = "kSet" =>
                    \E n \in Seen(w, x)' : RecordOf(n)'.type = "kDelete" /\ Before(m, n)
  BY <1>2, <1>3, <1>6 DEF SeenInv
<1>7. /\ indices'[k] # NoDir =>
           \A m \in Seen(w, k)' : m = indices'[k].loc \/ Before(m, indices'[k].loc)
      /\ indices'[k] = NoDir =>
           \A m \in Seen(w, k)' : RecordOf(m)'.type = "kSet" =>
             \E n \in Seen(w, k)' : RecordOf(n)'.type = "kDelete" /\ Before(m, n)
  BY <1>3, <1>4, <1>5
<1> QED
  BY <1>6, <1>7 DEF SeenInv

LEMMA TakeWrites ==
  ASSUME NEW w \in Threads, DBInv, up, RestartInv(w), Return(w), status[w] = "kOk",
         NEW e \in Entry, e = entry[w], NEW k \in Keys, k = e.key,
         \A x \in Keys : x # k => indices'[x] = indices[x],
         \/ indices'[k] # NoDir /\ indices'[k].loc = Loc(w)
         \/ indices'[k] = NoDir /\ e.type = "kDelete" /\ ~Compacts(w),
         \A f \in FileId : Waits(w, f)' => Waits(w, f) \/ write_index[f] > 0
  PROVE  WriteInv(w)'
<1>1. /\ pc[w] = "returned" /\ pc'[w] = "idle" /\ FMInv
      /\ UNCHANGED <<data, write_index, files, active_file_id, file_mu, up>>
  BY DEF Return, Reset, At, Goto, disk, shared, locks, DBInv, FMInv, TypeOK
<1>2. PICK l : l = Loc(w)
  OBVIOUS
<1>3. /\ Stored(w) /\ l \in Location /\ RecordOf(l) = e
      /\ RecordAt(l.id, l.offset) /\ l.id = active_file_id /\ active_file_id \in files
      /\ \A m \in Location : RecordAt(m.id, m.offset) => m = l \/ Before(m, l)
  BY <1>1, <1>2, HeldRecord
<1>4. ~Stored(w)' /\ ~Allocated(w)'
  BY <1>1 DEF Stored, Allocated
<1>5. indices'[k] # NoDir => indices'[k].loc = l
  BY <1>2
<1>6. SeenInv(w)'
  <2>1. SeenInv(w) /\ data' = data
    BY <1>1 DEF RestartInv, WriteInv
  <2>2. \/ indices'[k] # NoDir /\ indices'[k].loc = l
        \/ indices'[k] = NoDir /\ e.type = "kDelete"
    BY <1>2
  <2> QED
    BY <1>2, <1>3, <1>4, <2>1, <2>2, TakeSeen
<1>7. IndexedFilesListed'
  BY <1>1, <1>3, <1>5 DEF RestartInv, IndexedFilesListed
<1>8. TombInv(w)' /\ RemovalInv(w)'
  BY <1>1 DEF RestartInv, WriteInv, TombInv, RecordAt, RemovalInv, RemoveLines
<1>9. WriterInv(w)'
  BY <1>1, <1>4 DEF RestartInv, WriteInv, WriterInv
<1>10. ActiveInv(w)'
  <2>1. Compacts(w) => indices'[k] # NoDir /\ indices'[k].loc.id = active_file_id
    BY <1>3, <1>5
  <2>2. \A f \in FileId : Waits(w, f)' => write_index'[f] > 0
    BY <1>1 DEF RestartInv, WriteInv, ActiveInv
  <2> QED
    BY <1>1, <2>1, <2>2 DEF ActiveInv
<1> QED
  BY <1>6, <1>7, <1>8, <1>9, <1>10 DEF WriteInv

\* A file with a record is not empty.
LEMMA FileInUse ==
  ASSUME FMInv, NEW f \in FileId, NEW o \in Offset, RecordAt(f, o)
  PROVE  write_index[f] > 0
<1>1. EndOf(f, o) <= write_index[f] /\ data[f][o] \in Entry /\ write_index[f] \in Nat
  BY CapacityAssumption DEF FMInv, RecordsDisjoint, TypeOK, Contents, RecordAt
<1> QED
  BY <1>1, SizePositive, CapacityAssumption DEF EndOf, Offset

LEMMA PutIndexRestart ==
  ASSUME NEW w \in Threads, Mutator(w), DBInv, RestartInv(w), PutIndex(w)
  PROVE  RestartInv(w)'
<1>1. PICK e \in Entry : e = entry[w]
  BY DEF PutIndex, Returned, In, DBInv, HandlerInv, HandlerOK
<1>2. PICK l : l = Loc(w)
  OBVIOUS
<1>3. PICK k \in Keys : k = e.key
  BY EntryFields
<1>4. /\ up /\ at[w] = "put" /\ at'[w] = "done" /\ pc[w] = "returned" /\ status[w] = "kOk"
      /\ Return(w) /\ UNCHANGED <<up, todo, scan>>
      /\ indices' = IndexAfterPut(indices, l, e) /\ hints' = HintsAfterPut(indices, hints, l, e)
  BY <1>1, <1>2
  DEF PutIndex, Returned, In, Return, Answer, GoTo, DBInv, DBTypeOK
<1>5. indices \in [Keys -> Dir \cup {NoDir}] /\ hints \in Hints /\ FMInv
  BY DEF DBInv, DBTypeOK
<1>6. l \in Location /\ RecordAt(l.id, l.offset)
  BY <1>1, <1>2, <1>4, HeldRecord
<1>7. l.id \in FileId /\ write_index[l.id] > 0
  BY <1>5, <1>6, FileInUse DEF Location
<1>8. /\ indices'[k] = IF e.type = "kSet" THEN DirOf(l, e) ELSE NoDir
      /\ \A x \in Keys : x # k => indices'[x] = indices[x]
  BY <1>3, <1>4, <1>5, <1>6, PutIndexType
<1>9. e.type = "kDelete" => ~Compacts(w)
  <2>1. req[w] \in Requests(w) /\ IsWrite(req[w]) /\ e = EntryOf(req[w])
    BY <1>1, <1>4 DEF DBInv, RequestInv, RequestOK, RequestHandlers
  <2>2. req[w].op = "delete" => "delete" \in Ops[w]
    BY <2>1 DEF Requests
  <2> QED
    BY <2>1, <2>2 DEF IsWrite, EntryOf, Mutator
<1>10. \/ indices'[k] # NoDir /\ indices'[k].loc = l
       \/ indices'[k] = NoDir /\ e.type = "kDelete" /\ ~Compacts(w)
  BY <1>6, <1>8, <1>9, DirOfType, EntryFields
<1>11. ASSUME NEW f \in FileId, NEW n \in Nat, write_index[f] > 0,
              hints' = UpdateUnused(hints, f, n), NEW g \in FileId, Contains(hints'.compact_tasks, g)
       PROVE  Waits(w, g) \/ write_index[g] > 0
  <2>1. hints'.compact_tasks \in {hints.compact_tasks, Append(hints.compact_tasks, f)}
    BY <1>5, <1>11, UpdateUnusedFields
  <2>2. hints.compact_tasks \in Seq(FileId)
    BY <1>5 DEF Hints
  <2>3. Contains(Append(hints.compact_tasks, f), g) => Contains(hints.compact_tasks, g) \/ g = f
    BY <2>2, AppendFile, Zenon
  <2>4. Contains(hints.compact_tasks, g) \/ g = f
    BY <1>11, <2>1, <2>3, Zenon
  <2> QED
    BY <1>11, <2>4 DEF Waits
<1>12. ASSUME NEW g \in FileId, Contains(hints'.compact_tasks, g)
       PROVE  Waits(w, g) \/ write_index[g] > 0
  <2>1. CASE hints' = hints
    BY <1>12, <2>1 DEF Waits
  <2>2. CASE hints' = UpdateUnused(hints, l.id, SizeOf(e))
    BY <1>7, <1>11, <1>12, <2>2, EntryFields
  <2>3. CASE /\ indices[k] # NoDir
             /\ hints' = UpdateUnused(hints, indices[k].loc.id, indices[k].entry_size)
    <3>1. PICK d \in Dir : d = indices[k]
      BY <1>5, <2>3
    <3>2. d.loc.id \in FileId /\ d.loc.offset \in Offset /\ d.entry_size \in Nat
      BY DEF Dir, Location
    <3>3. RecordAt(d.loc.id, d.loc.offset)
      BY <2>3, <3>1, HoleAssumption DEF DBInv, IndexInv, PointsTo, RecordAt
    <3>4. write_index[d.loc.id] > 0
      BY <1>5, <3>2, <3>3, FileInUse
    <3> QED
      BY <1>11, <1>12, <2>3, <3>1, <3>2, <3>4
  <2> QED
    BY <1>3, <1>4, <1>5, <1>6, <2>1, <2>2, <2>3, PutHints
<1>13. \A f \in FileId : Waits(w, f)' => Waits(w, f) \/ write_index[f] > 0
  BY <1>4, <1>12 DEF Waits
<1>14. WriteInv(w)'
  BY <1>1, <1>2, <1>3, <1>4, <1>8, <1>10, <1>13, TakeWrites
<1>15. ScanInv(w)'
  BY <1>4 DEF RestartInv, ScanInv, ScanHandlers
<1> QED
  BY <1>4, <1>14, <1>15 DEF RestartInv, WriteInv

LEMMA UpdateRestart ==
  ASSUME NEW w \in Threads, DBInv, AloneInv, RestartInv(w), CompactUpdate(w)
  PROVE  RestartInv(w)'
<1>1. PICK e \in Entry : e = entry[w]
  BY DEF CompactUpdate, Returned, In, DBInv, HandlerInv, HandlerOK
<1>2. PICK l : l = Loc(w)
  OBVIOUS
<1>3. PICK k \in Keys : k = e.key
  BY EntryFields
<1>4. /\ up /\ at[w] = "c_append" /\ at'[w] = "c_scan" /\ pc[w] = "returned" /\ status[w] = "kOk"
      /\ Return(w) /\ UNCHANGED <<up, data, todo, scan>>
      /\ indices' = IndexAfterMove(indices, l, e) /\ hints' = HintsAfterMove(indices, hints, l, e)
  BY <1>1, <1>2
  DEF CompactUpdate, Returned, In, Return, GoTo, disk, DBInv, DBTypeOK
<1>5. indices \in [Keys -> Dir \cup {NoDir}] /\ hints \in Hints
  BY DEF DBInv, DBTypeOK
<1>6. /\ l \in Location /\ Unindexed(l) /\ Stored(w)
      /\ \A m \in Location : RecordAt(m.id, m.offset) => m = l \/ Before(m, l)
  BY <1>1, <1>2, <1>4, HeldRecord
<1>7. indices[k] # NoDir /\ Before(indices[k].loc, l)
  <2>1. indices[k] # NoDir
    BY <1>1, <1>3, <1>4 DEF AloneInv, HasCopy
  <2>2. indices[k].loc \in Location /\ RecordAt(indices[k].loc.id, indices[k].loc.offset)
    BY <2>1, HoleAssumption DEF DBInv, IndexInv, PointsTo, RecordAt, Dir
  <2> QED
    BY <1>6, <2>1, <2>2 DEF Unindexed
<1>8. /\ indices'[k] # NoDir /\ indices'[k].loc = l
      /\ \A x \in Keys : x # k => indices'[x] = indices[x]
  BY <1>3, <1>4, <1>5, <1>6, <1>7, DirOfType DEF IndexAfterMove
<1>9. hints'.compact_tasks = hints.compact_tasks
  BY <1>4, <1>5, <1>6, MoveHints
<1>10. \A f \in FileId : Waits(w, f)' => Waits(w, f) \/ write_index[f] > 0
  BY <1>4, <1>9 DEF Waits
<1>11. WriteInv(w)'
  BY <1>1, <1>2, <1>3, <1>4, <1>8, <1>10, TakeWrites
<1>12. ScanInv(w)'
  <2>1. PICK f : f = Head(todo[w])
    OBVIOUS
  <2>2. scan[w] = 0 \/ \E o \in Offset : RecordAt(f, o) /\ EndOf(f, o) = scan[w]
    BY <1>4, <2>1 DEF RestartInv, ScanInv, ScanHandlers
  <2>3. l.id = f => scan[w] <= l.offset
    BY <1>2, <1>4, <1>6, <2>1 DEF RestartInv, ScanInv, ScanHandlers, Allocated, Loc
  <2>4. \A x \in Keys : x # k /\ indices[x] # NoDir /\ indices[x].loc.id = f =>
          scan[w] <= indices[x].loc.offset
    BY <1>1, <1>3, <1>4, <2>1 DEF RestartInv, ScanInv, ScanHandlers
  <2>5. ~Allocated(w)'
    BY <1>4 DEF Allocated, Stored, Return, Reset, Goto, DBInv, FMInv, TypeOK
  <2> QED
    BY <1>4, <1>8, <2>1, <2>2, <2>3, <2>4, <2>5 DEF ScanInv, ScanHandlers, RecordAt, EndOf
<1> QED
  BY <1>4, <1>11, <1>12 DEF RestartInv, WriteInv

-----------------------------------------------------------------------------
(***************************************************************************)
(* Every step, and what the invariant gives.                               *)
(***************************************************************************)
LEMMA MutatorAlone ==
  ASSUME NEW w \in Threads, Mutator(w)
  PROVE  CompactsAlone
BY DEF Mutator, CompactsAlone, Compacts

\* Nobody else is packing, and the iterator never stands inside a record.
LEMMA NothingTorn ==
  ASSUME NEW w \in Threads, Mutator(w), DBInv, AloneInv, up, RestartInv(w)
  PROVE  ~CompactTorn(w) /\ ~CompactAstray(w)
<1> SUFFICES ASSUME at[w] = "c_scan" PROVE ~CompactTorn(w) /\ ~CompactAstray(w)
  BY DEF CompactTorn, CompactAstray, In
<1>1. ~CompactTorn(w) /\ \A u \in Threads \ {w} : ~Packs(u, w)
  BY MutatorAlone, NobodyPacks DEF CompactHandlers
<1>2. PICK f \in FileId : f = Head(todo[w])
  BY OwnFile DEF CompactHandlers
<1>3. data[f] \in Contents
  BY DEF DBInv, FMInv, TypeOK
<1>4. scan[w] = 0 \/ \E o \in Offset : RecordAt(f, o) /\ EndOf(f, o) = scan[w]
  BY <1>2 DEF RestartInv, ScanInv, ScanHandlers
<1>5. ASSUME NEW o \in Offset, RecordAt(f, o), o < scan[w], scan[w] < EndOf(f, o) PROVE FALSE
  <2>1. CASE scan[w] = 0
    BY <1>5, <2>1, CapacityAssumption DEF Offset
  <2>2. CASE scan[w] # 0
    <3>1. PICK p \in Offset : RecordAt(f, p) /\ EndOf(f, p) = scan[w]
      BY <1>4, <2>2
    <3>2. SizeOf(data[f][p]) \in Nat \ {0} /\ SizeOf(data[f][o]) \in Nat \ {0}
      BY <1>3, <1>5, <3>1, SizeAssumption DEF RecordAt, Contents
    <3>3. o < p => EndOf(f, o) <= p
      BY <1>5, <3>1 DEF DBInv, FMInv, RecordsDisjoint
    <3>4. p < o => EndOf(f, p) <= o
      BY <1>5, <3>1 DEF DBInv, FMInv, RecordsDisjoint
    <3> QED
      BY <1>5, <3>1, <3>2, <3>3, <3>4, CapacityAssumption DEF Offset, EndOf
  <2> QED
    BY <2>1, <2>2
<1> QED
  BY <1>1, <1>2, <1>5 DEF CompactAstray, Astray

LEMMA MutatorRestart ==
  ASSUME NEW w \in Threads, Mutator(w), DBInv, DBInv', AloneInv, ChainOver(FileId),
         NoneMissed(w), up, RestartInv(w), Step(w)
  PROVE  RestartInv(w)'
<1>1. CASE Invoke(w) \/ Respond(w) \/ GetStep(w)
  BY <1>1, RequestRestart
<1>2. CASE PutStep(w)
  BY <1>2, RequestRestart, PutIndexRestart DEF PutStep
<1>3. CASE CompactCall(w)
  BY <1>3, PollRestart
<1>4. CASE CompactStep(w)
  BY <1>4, NothingTorn, PollRestart, MarkRestart, ReadRestart, SkipRestart, MoveRestart,
     UpdateRestart, EndRestart DEF CompactStep
<1>5. CASE FileManagerStep(w)
  BY <1>5, FilesRestart, AllocateRestart, PackRestart, CrashRestart, PublishRestart,
     ForgetRestart DEF FileManagerStep
<1> QED
  BY <1>1, <1>2, <1>3, <1>4, <1>5 DEF Step, Continues

\* A process that has died does nothing more.
LEMMA DeadStays ==
  ASSUME DBInv, ~up, NEW t \in Threads
  PROVE  ~Step(t) /\ ~CachedGet(t)
<1> USE DEF In, Returned, At
<1>1. ~CachedGet(t)
  BY DEF CachedGet, CachedLookup, BlockHit, BlockMiss, BlockOpen, ReadsBlock, BlockOpened,
     BlockOpenFailed, BlockReadFailed, CachedDone
<1>2. ~Invoke(t) /\ ~CompactCall(t) /\ ~Respond(t) /\ ~PutStep(t) /\ ~GetStep(t)
  BY DEF Invoke, CompactCall, Polls, Respond, PutStep, PutCall, PutRejected, PutFailed, PutIndex,
     GetStep, GetAbsent, GetLookup, GetFailed, GetRead
<1>3. ~CompactStep(t)
  BY DEF CompactStep, CompactWorker, Polls, CompactBegin, CompactReadonly, CompactFailed,
     CompactMark, CompactRead, CompactTorn, CompactAstray, CompactSkip, CompactMove,
     CompactUpdate, CompactScanned, CompactEnd, CompactRemoved
<1>4. ~FileManagerStep(t)
  BY DEF FileManagerStep, FMStep, AppendStep, AppendSnapshot, AllocateOk, AllocateFull,
     AppendPack, AppendPackNullLog, RotateLost, CreateFileBegin, CreateFileOpen,
     CreateFileFail, CreateFilePublish, AcquireStep, AcquireHit, AcquireMiss, AcquireOpen,
     AcquireOpenFail, AcquireCache, RemoveStep, RemoveRelease, RemoveMetadata,
     RemoveMetadataFail, RemoveUnlink
<1> QED
  BY <1>1, <1>2, <1>3, <1>4 DEF Step, Continues

LEMMA NextRestart ==
  ASSUME NEW w \in Threads, Mutator(w), DBInv, DBInv', AloneInv, ChainOver(FileId),
         NoneMissed(w), RestartInv(w), [RCNext]_rcvars
  PROVE  RestartInv(w)'
<1>1. CASE UNCHANGED <<fmvars, indices, hints, dblocals>>
  <2>1. /\ UNCHANGED <<data, write_index, files, active_file_id, file_mu, indices, hints, up>>
        /\ Untouched(w) /\ UNCHANGED <<file_id[w], offset[w], status[w]>>
    BY <1>1 DEF fmvars, disk, shared, locks, locals, dblocals, Untouched
  <2>2. CASE up
    <3>1. Still(w) /\ ScanKept(w)
      BY <2>1, <2>2, OthersStill DEF RestartInv, WriteInv
    <3> QED
      BY <2>2, <3>1, StillRestart
  <2>3. CASE ~up
    BY <2>1, <2>3 DEF RestartInv, IndexedFilesListed, Untouched
  <2> QED
    BY <2>2, <2>3
<1>2. ASSUME NEW t \in Threads, Step(t) PROVE RestartInv(w)'
  <2>1. up
    BY <1>2, DeadStays
  <2> QED
    BY <1>2, <2>1, MutatorRestart, ReaderRestart
<1>3. ASSUME NEW t \in Threads, CachedGet(t) PROVE RestartInv(w)'
  <2>1. up
    BY <1>3, DeadStays
  <2> QED
    BY <1>3, <2>1, CachedRestart
<1> QED
  BY <1>1, <1>2, <1>3 DEF RCNext, rcvars, SyncFailed, DBTerminating, vars, dbshared

LEMMA InitRestart ==
  ASSUME NEW w \in Threads, DBInit
  PROVE  RestartInv(w)
<1>1. /\ \A k \in Keys : indices[k] = NoDir
      /\ \A f \in FileId, o \in Offset : ~RecordAt(f, o)
      /\ up /\ at[w] = "idle" /\ pc[w] = "idle" /\ scan[w] = 0 /\ todo[w] = << >>
      /\ active_file_id = 1 /\ files = {1} /\ hints.compact_tasks = << >>
      /\ \A f \in FileId : file_mu[f] = NoThread /\ write_index[f] = 0
  BY DEF DBInit, FMInit, RecordAt, Blank, NoHints
<1>2. 1 \in FileId
  BY MaxFileAssumption DEF FileId
<1>3. \A k \in Keys : Seen(w, k) = {}
  BY <1>1 DEF Seen, Location
<1>4. \A f : ~Waits(w, f)
  BY <1>1 DEF Waits, Contains
<1>5. ~Stored(w)
  BY <1>1 DEF Stored
<1>6. SeenInv(w) /\ TombInv(w) /\ IndexedFilesListed
  BY <1>1, <1>3 DEF SeenInv, TombInv, IndexedFilesListed
<1>7. WriterInv(w) /\ RemovalInv(w)
  BY <1>1, <1>5 DEF WriterInv, RemovalInv, RemoveLines
<1>8. ActiveInv(w) /\ ScanInv(w)
  BY <1>1, <1>2, <1>4 DEF ActiveInv, ScanInv, ScanHandlers
<1> QED
  BY <1>1, <1>6, <1>7, <1>8 DEF RestartInv, WriteInv

\* The chain of records, with the read cache.
LEMMA ChainUnderRC ==
  ASSUME DBInv, ChainOver(FileId), [RCNext]_rcvars
  PROVE  ChainOver(FileId)'
<1>1. ASSUME NEW t \in Threads, CachedGet(t) PROVE ChainOver(FileId)'
  <2>1. /\ UNCHANGED <<data, write_index, file_mu, up>>
        /\ \A u \in Threads \ {t} : UNCHANGED <<pc[u], file_id[u], offset[u]>>
    BY <1>1, CachedKeeps DEF disk, shared, locks, Untouched
  <2>2. pc[t] # "pack" /\ pc'[t] # "pack"
    <3>1. HandlerOK(t) /\ HandlerOK(t)' /\ at'[t] \in {"cached", "cache_open", "done"}
      BY <1>1, CachedGetInv DEF CachedGet, CachedLookup, BlockHit, BlockMiss, BlockOpen,
         BlockOpened, BlockOpenFailed, BlockReadFailed, CachedDone, CachedReply, Answer, GoTo,
         In, Returned,
         ReadsBlock, vars, dblocals, DBInv, DBTypeOK, HandlerInv
    <3> QED
      BY <1>1, <3>1, CachedKeeps DEF HandlerOK, AcquireLines
  <2> QED
    BY <2>1, <2>2, ChainFrame
<1> QED
  BY <1>1, CachedSteps, ChainUnderDB

\* A key with records has a last one.
LEMMA LastRecord ==
  ASSUME NEW S \in SUBSET Location, S # {}
  PROVE  \E l \in S : \A m \in S : m = l \/ Before(m, l)
<1> DEFINE I == {l.id : l \in S}
<1>1. I \in SUBSET Nat /\ I # {} /\ \A n \in I : n <= MaxFile
  BY MaxFileAssumption DEF Location, FileId
<1>2. MaxFile \in Nat /\ kMaxFileBytes \in Nat
  BY MaxFileAssumption, CapacityAssumption
<1> HIDE DEF I
<1>3. PICK i \in I : \A n \in I : n <= i
  BY <1>1, <1>2, GreatestNumber
<1> DEFINE O == {l.offset : l \in {m \in S : m.id = i}}
<1>4. O \in SUBSET Nat /\ O # {} /\ \A n \in O : n <= kMaxFileBytes
  BY <1>2 DEF I, Location, Offset
<1> HIDE DEF O
<1>5. PICK o \in O : \A n \in O : n <= o
  BY <1>2, <1>4, GreatestNumber
<1>6. PICK l \in S : l.id = i /\ l.offset = o
  BY DEF O
<1>7. ASSUME NEW m \in S PROVE m = l \/ Before(m, l)
  <2>1. m.id \in I /\ (m.id = i => m.offset \in O)
    BY DEF I, O
  <2>2. m.id <= i /\ (m.id = i => m.offset <= o)
    BY <1>3, <1>5, <2>1
  <2>3. m \in Location /\ l \in Location /\ m.id \in Nat /\ l.id \in Nat /\ m.offset \in Nat
        /\ l.offset \in Nat
    BY <1>2 DEF Location, FileId, Offset
  <2>4. m.id = l.id /\ m.offset = l.offset => m = l
    BY <2>3 DEF Location
  <2> QED
    BY <1>6, <2>2, <2>3, <2>4 DEF Before
<1> QED
  BY <1>7

\* What the invariant gives between the operations.
LEMMA RestartValues ==
  ASSUME NEW w \in Threads, DBInv, RestartInv(w)
  PROVE  RestartKeepsValues
<1> SUFFICES ASSUME Quiescent, NEW k \in Keys PROVE ReplayedValue(k) = Value(k)
  BY DEF RestartKeepsValues
<1>1. up /\ ~Stored(w)
  BY DEF Quiescent, RestartInv, DBInv, HandlerInv, HandlerOK, Stored
<1>2. SeenInv(w) /\ TombInv(w) /\ IndexedFilesListed
  BY <1>1 DEF RestartInv, WriteInv
<1> DEFINE R == RecordsOf(k)
<1>3. R \in SUBSET Location /\ R \subseteq Seen(w, k)
  BY <1>1 DEF RecordsOf, Seen, RecordOf
<1>4. R # {} =>
        Latest(k) \in R /\ \A m \in R : m = Latest(k) \/ Before(m, Latest(k))
  BY <1>3, LastRecord DEF Latest
<1>5. \A l \in R : RecordOf(l) \in Entry
  BY DEF RecordsOf, RecordOf, RecordAt, DBInv, FMInv, TypeOK, Contents, Location
<1>6. CASE indices[k] # NoDir
  <2>1. PICK l \in Location : l = indices[k].loc
    BY <1>6 DEF DBInv, IndexInv, PointsTo, Dir
  <2>2. l \in R
    BY <1>2, <1>6, <2>1, HoleAssumption
    DEF IndexedFilesListed, RecordsOf, DBInv, IndexInv, PointsTo, RecordAt
  <2>3. Latest(k) = l \/ Before(Latest(k), l)
    BY <1>2, <1>3, <1>4, <1>6, <2>1, <2>2 DEF SeenInv
  <2>4. Latest(k) = l
    BY <1>3, <1>4, <2>2, <2>3, BeforeOrder
  <2> QED
    BY <1>6, <2>1, <2>2, <2>4 DEF ReplayedValue, Value
<1>7. CASE indices[k] = NoDir /\ R # {}
  <2>1. PICK l \in R : l = Latest(k)
    BY <1>4, <1>7
  <2>2. ASSUME RecordOf(l).type = "kSet" PROVE FALSE
    <3>1. PICK m \in Seen(w, k) : RecordOf(m).type = "kDelete" /\ Before(l, m)
      BY <1>2, <1>3, <1>7, <2>2 DEF SeenInv
    <3>2. m \in R
      BY <1>2, <3>1 DEF TombInv, Seen, RecordsOf, RecordOf, Location
    <3> QED
      BY <1>3, <1>4, <2>1, <3>1, <3>2, BeforeOrder
  <2>3. RecordOf(l).value = Empty
    BY <1>5, <2>2 DEF Entry
  <2> QED
    BY <1>7, <2>1, <2>3 DEF ReplayedValue, Value, RecordOf
<1>8. CASE indices[k] = NoDir /\ R = {}
  BY <1>8 DEF ReplayedValue, Value
<1> QED
  BY <1>6, <1>7, <1>8

\* RestartInv holds as long as no compaction misses a record.
LEMMA RestartInvariance ==
  ASSUME NEW w \in Threads, Mutator(w)
  PROVE  RCSpec /\ []NoneMissed(w) => [](DBInv /\ RestartInv(w))
<1>1. RCInit => AloneInv /\ ChainOver(FileId) /\ RestartInv(w)
  BY InitRefines, ChainInit, InitRestart DEF RCInit, DBInit
<1>2. DBInv /\ DBInv' /\ AloneInv /\ [RCNext]_rcvars => AloneInv'
  BY MutatorAlone, AloneNext
<1>3. DBInv /\ ChainOver(FileId) /\ [RCNext]_rcvars => ChainOver(FileId)'
  BY ChainUnderRC
<1>4. DBInv /\ DBInv' /\ AloneInv /\ ChainOver(FileId) /\ NoneMissed(w) /\ RestartInv(w)
        /\ [RCNext]_rcvars => RestartInv(w)'
  BY NextRestart
<1> QED
  BY <1>1, <1>2, <1>3, <1>4, RCInvariance, PTL DEF RCSpec

(***************************************************************************)
(* With one thread that writes, and compacts unless it deletes, and any    *)
(* number of readers: whenever no operation is running, a recovery of the  *)
(* files finds the values that Get returns.                                *)
(***************************************************************************)
THEOREM RestartFindsValues ==
  ASSUME NEW w \in Threads, Mutator(w)
  PROVE  RCSpec /\ []NoneMissed(w) => []RestartKeepsValues
<1>1. DBInv /\ RestartInv(w) => RestartKeepsValues
  BY RestartValues
<1> QED
  BY <1>1, RestartInvariance, PTL

(***************************************************************************)
(* There, no compaction removes a file with a current record, at any time. *)
(***************************************************************************)
THEOREM IndexedFilesStay ==
  ASSUME NEW w \in Threads, Mutator(w)
  PROVE  RCSpec /\ []NoneMissed(w) => []IndexedFilesListed
<1>1. RestartInv(w) => IndexedFilesListed
  BY DEF RestartInv
<1> QED
  BY <1>1, RestartInvariance, PTL
=============================================================================
