--------------------------- MODULE RecoveryProofs ---------------------------
(***************************************************************************)
(* Recovery rebuilds the right index from any log, for any number of       *)
(* files, keys and record sizes.  The argument is the comment in           *)
(* DBImpl::Recovery: entries come in ascending order of their locations.   *)
(***************************************************************************)
EXTENDS Recovery, MemIndexProofs

-----------------------------------------------------------------------------
(***************************************************************************)
(* The next record lies behind everything that has been replayed.          *)
(***************************************************************************)
LEMMA NextRecord ==
  ASSUME RecInv, NEW o \in Rest, NEW l, l = [id |-> cur, offset |-> o]
  PROVE  /\ l \in Location
         /\ log[l] \in Entry
         /\ l \notin replayed
         /\ \A m \in replayed : m \in Location /\ Before(m, l)
<1>1. cur \in FileId /\ o \in Offset /\ pos <= o /\ pos \in Nat /\ log[l] # NoRecord
  BY DEF Rest, RecInv, RecTypeOK
<1>2. l \in Location
  BY <1>1 DEF Location
<1>3. log[l] \in Entry
  BY <1>1, <1>2 DEF RecInv, RecTypeOK, Log
<1>4. ASSUME NEW m \in replayed PROVE m \in Location /\ Before(m, l)
  <2>1. m \in Location /\ m.id <= cur
    BY DEF RecInv, RecTypeOK, OrderInv
  <2>2. m.id = cur => m.offset < pos
    BY DEF RecInv, OrderInv
  <2> QED
    BY <1>1, <2>1, <2>2, MaxFileAssumption, CapacityAssumption
    DEF Before, Location, FileId, Offset
<1>5. l \notin replayed
  BY <1>2, <1>4, BeforeOrder
<1> QED
  BY <1>2, <1>3, <1>4, <1>5

\* So the index never holds its location, and what it holds is older.
LEMMA IndexIsOlder ==
  ASSUME RecInv, NEW o \in Rest, NEW l, l = [id |-> cur, offset |-> o],
         NEW k \in Keys, indices[k] # NoDir
  PROVE  /\ indices[k].loc # l
         /\ ~Before(l, indices[k].loc)
<1>1. indices[k].loc \in replayed
  BY DEF RecInv, IndexIsLatest
<1>2. /\ l \in Location
      /\ indices[k].loc \in Location
      /\ Before(indices[k].loc, l)
  BY <1>1, NextRecord
<1> QED
  BY <1>2, BeforeOrder

(***************************************************************************)
(* IndexIsLatest survives a record: the new record is the latest one of    *)
(* its key, and other keys are not touched.                                *)
(***************************************************************************)
LEMMA ReplayKeepsLatest ==
  ASSUME RecInv, NEW o \in Rest, ReplayEntry(o)
  PROVE  IndexIsLatest'
<1>0. PICK l : l = [id |-> cur, offset |-> o]
  OBVIOUS
<1> DEFINE e == log[l]
<1>1. /\ l \in Location /\ e \in Entry /\ l \notin replayed
      /\ \A m \in replayed : m \in Location /\ Before(m, l)
  BY <1>0, NextRecord
<1>2. PICK ek : ek = e.key
  OBVIOUS
<1>3. ek \in Keys /\ e.type \in {"kSet", "kDelete"} /\ e # NoRecord
  BY <1>1, <1>2, EntryFields
<1>4. log' = log /\ replayed' = replayed \cup {l}
  BY <1>0 DEF ReplayEntry
<1>5. indices' = [indices EXCEPT ![ek] = IF e.type = "kSet" THEN DirOf(l, e) ELSE NoDir]
  <2>1. indices' = IndexAfterReplay(indices, l, e)
    BY <1>0 DEF ReplayEntry
  <2>2. indices[ek] # NoDir => ~Before(l, indices[ek].loc)
    BY <1>0, <1>3, IndexIsOlder
  <2> QED
    BY <1>2, <2>1, <2>2 DEF IndexAfterReplay
<1>6. indices \in [Keys -> Dir \cup {NoDir}]
  BY DEF RecInv, RecTypeOK
<1>7. \A k \in Keys : k # ek => indices'[k] = indices[k] /\ ~IsSet(l, k) /\ ~IsDelete(l, k)
  BY <1>2, <1>3, <1>5, <1>6 DEF IsSet, IsDelete
<1>8. \A m, k : IsSet(m, k)' = IsSet(m, k) /\ IsDelete(m, k)' = IsDelete(m, k)
  BY <1>4 DEF IsSet, IsDelete
<1> SUFFICES ASSUME NEW k \in Keys
             PROVE  /\ indices'[k] # NoDir =>
                         /\ indices'[k].loc \in replayed'
                         /\ IsSet(indices'[k].loc, k)
                         /\ indices'[k].entry_size = SizeOf(log[indices'[k].loc])
                         /\ \A m \in replayed' : IsSet(m, k) \/ IsDelete(m, k)
                              => m = indices'[k].loc \/ Before(m, indices'[k].loc)
                    /\ indices'[k] = NoDir =>
                         \A m \in replayed' : IsSet(m, k) =>
                           \E d \in replayed' : IsDelete(d, k) /\ Before(m, d)
  BY <1>4, <1>8 DEF IndexIsLatest
<1>9. CASE k # ek
  <2>1. indices'[k] = indices[k] /\ ~IsSet(l, k) /\ ~IsDelete(l, k)
    BY <1>7, <1>9
  <2> QED
    BY <1>4, <2>1 DEF RecInv, IndexIsLatest
<1>10. CASE k = ek /\ e.type = "kSet"
  <2>1. DirOf(l, e) \in Dir /\ DirOf(l, e).loc = l /\ DirOf(l, e).entry_size = SizeOf(e)
    BY <1>1, EntryFields DEF DirOf, Dir
  <2>2. indices'[k] = DirOf(l, e) /\ indices'[k] # NoDir
    BY <1>3, <1>5, <1>6, <1>10, <2>1, NoDirAssumption
  <2>3. IsSet(l, k)
    BY <1>2, <1>3, <1>10 DEF IsSet
  <2> QED
    BY <1>1, <1>4, <2>1, <2>2, <2>3
<1>11. CASE k = ek /\ e.type = "kDelete"
  <2>1. indices'[k] = NoDir
    BY <1>3, <1>5, <1>6, <1>11
  <2>2. IsDelete(l, k) /\ ~IsSet(l, k)
    BY <1>2, <1>3, <1>11 DEF IsDelete, IsSet
  <2> QED
    BY <1>1, <1>4, <2>1, <2>2
<1> QED
  BY <1>3, <1>9, <1>10, <1>11

-----------------------------------------------------------------------------
LEMMA RecInitInv == RecInit => RecInv
<1> SUFFICES ASSUME RecInit PROVE RecInv
  OBVIOUS
<1>1. NoHints \in Hints
  BY DEF NoHints, Hints, CompactState
<1>2. RecTypeOK
  BY <1>1, LogsAssumption DEF RecInit, RecTypeOK
<1>3. OrderInv
  BY MaxFileAssumption DEF RecInit, OrderInv, FileId
<1>4. IndexIsLatest /\ NeverFatal
  BY DEF RecInit, IndexIsLatest, NeverFatal
<1> QED
  BY <1>2, <1>3, <1>4 DEF RecInv

LEMMA RecNextInv == RecInv /\ [RecNext]_recvars => RecInv'
<1> SUFFICES ASSUME RecInv, [RecNext]_recvars PROVE RecInv'
  OBVIOUS
<1>1. ASSUME NEW f \in pending, OpenFile(f) PROVE RecInv'
  <2>1. RecTypeOK'
    BY <1>1 DEF RecInv, RecTypeOK, OpenFile
  <2>2. \A g \in pending' : f < g
    BY <1>1, MaxFileAssumption DEF RecInv, RecTypeOK, OpenFile, FileId
  <2>3. \A l \in replayed : log[l] # NoRecord /\ l.id < f
    <3> SUFFICES ASSUME NEW l \in replayed PROVE l.id < f
      BY DEF RecInv, OrderInv
    <3>1. l.id \in FileId /\ l.id <= cur /\ cur < f /\ f \in FileId
      BY DEF RecInv, RecTypeOK, OrderInv, Location
    <3> QED
      BY <3>1, MaxFileAssumption DEF RecInv, RecTypeOK, FileId
  <2>4. OrderInv'
    <3>1. cur' = f /\ replayed' = replayed /\ log' = log
      BY <1>1 DEF OpenFile
    <3>2. \A l \in replayed : l.id \in Int /\ f \in Int
      BY MaxFileAssumption DEF RecInv, RecTypeOK, Location, FileId
    <3> QED
      BY <2>2, <2>3, <3>1, <3>2 DEF OrderInv
  <2>5. IndexIsLatest' /\ NeverFatal'
    BY <1>1 DEF RecInv, IndexIsLatest, NeverFatal, OpenFile, IsSet, IsDelete
  <2> QED
    BY <2>1, <2>4, <2>5 DEF RecInv
<1>2. ASSUME NEW f \in pending, OpenFileFailed(f) PROVE RecInv'
  <2>1. RecTypeOK'
    BY <1>2 DEF RecInv, RecTypeOK, OpenFileFailed
  <2>2. OrderInv' /\ IndexIsLatest' /\ NeverFatal'
    BY <1>2 DEF RecInv, OrderInv, IndexIsLatest, NeverFatal, OpenFileFailed,
                IsSet, IsDelete
  <2> QED
    BY <2>1, <2>2 DEF RecInv
<1>3. ASSUME NEW o \in Rest, ReplayEntry(o) PROVE RecInv'
  <2>0. PICK l : l = [id |-> cur, offset |-> o]
    OBVIOUS
  <2> DEFINE e == log[l]
  <2>1. l \in Location /\ e \in Entry /\ l \notin replayed
    BY <2>0, NextRecord
  <2>2. e.key \in Keys /\ SizeOf(e) \in Nat
    BY <2>1, EntryFields
  <2>3. RecTypeOK'
    <3>1. indices' \in [Keys -> Dir \cup {NoDir}]
      <4>1. DirOf(l, e) \in Dir
        BY <2>1, <2>2 DEF DirOf, Dir
      <4>2. indices' = IndexAfterReplay(indices, l, e)
        BY <1>3, <2>0 DEF ReplayEntry
      <4> QED
        BY <2>2, <4>1, <4>2 DEF IndexAfterReplay, RecInv, RecTypeOK
    <3>2. hints' \in Hints
      BY <1>3, <2>0, <2>1, ReplayHintsType DEF ReplayEntry, RecInv, RecTypeOK
    <3>3. replayed' \in SUBSET Location
      BY <1>3, <2>0, <2>1 DEF ReplayEntry, RecInv, RecTypeOK
    <3>4. pos' \in Nat
      <4>1. pos' = o + SizeOf(e)
        BY <1>3, <2>0 DEF ReplayEntry
      <4>2. o \in Nat
        BY CapacityAssumption DEF Rest, Offset
      <4> QED
        BY <2>2, <4>1, <4>2
    <3> QED
      BY <1>3, <3>1, <3>2, <3>3, <3>4 DEF ReplayEntry, RecInv, RecTypeOK
  <2>4. OrderInv'
    <3>1. /\ log' = log /\ cur' = cur /\ pending' = pending
          /\ replayed' = replayed \cup {l} /\ pos' = o + SizeOf(e)
      BY <1>3, <2>0 DEF ReplayEntry
    <3>2. l.id = cur /\ l.offset = o /\ e # NoRecord /\ cur \in FileId
      BY <2>0, <2>1, EntryFields DEF Rest, RecInv, RecTypeOK
    <3>3. o \in Nat /\ pos \in Nat /\ pos <= o /\ SizeOf(e) \in Nat \ {0}
      BY <2>1, SizeAssumption, CapacityAssumption DEF Rest, Offset, RecInv, RecTypeOK
    <3>4. \A m \in replayed' : log'[m] # NoRecord /\ m.id <= cur'
      BY <3>1, <3>2, MaxFileAssumption DEF RecInv, OrderInv, FileId
    <3>5. \A m \in replayed' : m.id = cur' => m.offset < pos'
      <4> SUFFICES ASSUME NEW m \in replayed', m.id = cur
                   PROVE  m.offset < o + SizeOf(e)
        BY <3>1
      <4>1. CASE m = l
        BY <3>2, <3>3, <4>1
      <4>2. CASE m \in replayed
        <5>1. m.offset < pos /\ m.offset \in Nat
          BY <4>2, CapacityAssumption
          DEF RecInv, OrderInv, RecTypeOK, Location, Offset
        <5> QED
          BY <3>3, <5>1
      <4> QED
        BY <3>1, <4>1, <4>2
    <3> QED
      BY <3>1, <3>4, <3>5 DEF RecInv, OrderInv
  <2>5. IndexIsLatest'
    BY <1>3, ReplayKeepsLatest
  <2>6. NeverFatal'
    BY <1>3, <2>0, <2>2, IndexIsOlder DEF ReplayEntry, ReplayFatal, NeverFatal
  <2> QED
    BY <2>3, <2>4, <2>5, <2>6 DEF RecInv
<1>4. CASE UNCHANGED recvars
  BY <1>4 DEF RecInv, RecTypeOK, OrderInv, IndexIsLatest, NeverFatal, recvars,
              IsSet, IsDelete
<1> QED
  BY <1>1, <1>2, <1>3, <1>4 DEF RecNext, RecStep

THEOREM RecoveryInvariance == RecSpec => []RecInv
BY RecInitInv, RecNextInv, PTL DEF RecSpec

\* The rebuilt index is the latest state of the log, at every point.
THEOREM RecoversLatest == RecSpec => []IndexIsLatest
<1>1. RecInv => IndexIsLatest
  BY DEF RecInv
<1> QED
  BY <1>1, RecoveryInvariance, PTL

(***************************************************************************)
(* The branch of Recovery marked "never happen" is unreachable: every file *)
(* is read once and the iterator only moves on, so the next record lies    *)
(* behind all that the index can point to.                                 *)
(***************************************************************************)
THEOREM RecoveryNeverFatal == RecSpec => []NeverFatal
<1>1. RecInv => NeverFatal
  BY DEF RecInv
<1> QED
  BY <1>1, RecoveryInvariance, PTL

-----------------------------------------------------------------------------
(***************************************************************************)
(* The compaction queue that recovery leaves.  compact_state is kQueued    *)
(* exactly for the files of S with enough unused bytes, where S are the    *)
(* files that have unused records.                                         *)
(***************************************************************************)
QueueMatches(h, S) ==
  /\ h \in Hints
  /\ QueueSound(h)
  /\ \A f \in FileId :
       h.compact_state[f] =
         IF h.free_bytes[f] >= threshold_bytes /\ f \in S THEN "kQueued" ELSE "kNop"

DeadFiles == {f \in FileId : Dead(f) # {}}

QueueInv == QueueMatches(hints, DeadFiles)

\* UpdateUnused for a file that now has an unused record.
LEMMA UpdateUnusedMatches ==
  ASSUME NEW h, NEW S, QueueMatches(h, S), NEW f \in FileId, NEW n \in Nat
  PROVE  QueueMatches(UpdateUnused(h, f, n), S \cup {f})
<1> DEFINE g == UpdateUnused(h, f, n)
<1>0. h \in Hints /\ QueueSound(h)
  BY DEF QueueMatches
<1>1. /\ g \in Hints
      /\ g.free_bytes[f] = h.free_bytes[f] + n
      /\ \A x \in FileId : x # f => g.free_bytes[x] = h.free_bytes[x]
      /\ \A x \in FileId : g.compact_state[x] =
           IF x = f /\ Queues(h, f, n) THEN "kQueued" ELSE h.compact_state[x]
  BY <1>0, UpdateUnusedFields
<1>2. QueueSound(g)
  BY <1>0, UpdateUnusedQueue
<1> HIDE DEF g
<1>3. ASSUME NEW x \in FileId
      PROVE  g.compact_state[x] =
               IF g.free_bytes[x] >= threshold_bytes /\ x \in S \cup {f}
               THEN "kQueued" ELSE "kNop"
  <2>1. CASE x # f
    BY <1>1, <2>1 DEF QueueMatches
  <2>2. CASE x = f
    <3>1. h.free_bytes[f] \in Nat /\ threshold_bytes \in Nat
      BY <1>0, ThresholdAssumption DEF Hints
    <3> QED
      BY <1>1, <2>2, <3>1 DEF QueueMatches, Queues
  <2> QED
    BY <2>1, <2>2
<1> QED
  BY <1>1, <1>2, <1>3 DEF QueueMatches, g

(***************************************************************************)
(* What a record adds to the unused ones: itself, if it is a tombstone,    *)
(* and the record its key had.                                             *)
(***************************************************************************)
Retired(k) == IF indices[k] # NoDir THEN {indices[k].loc} ELSE {}

LEMMA ReplayDead ==
  ASSUME RecInv, NEW o \in Rest, ReplayEntry(o),
         NEW l, l = [id |-> cur, offset |-> o], NEW e, e = log[l], NEW k, k = e.key,
         NEW f \in FileId
  PROVE  /\ Dead(f)' = Dead(f)
              \cup {m \in {l} : e.type = "kDelete" /\ f = cur}
              \cup {m \in Retired(k) : m.id = f}
         /\ l \notin replayed
         /\ Retired(k) \subseteq replayed
         /\ \A m \in Retired(k) : m \notin Dead(f)
<1>1. /\ l \in Location /\ e \in Entry /\ l \notin replayed /\ cur \in FileId
      /\ \A m \in replayed : m \in Location /\ Before(m, l)
  BY NextRecord DEF Rest, RecInv, RecTypeOK
<1>2. k \in Keys
  BY <1>1, EntryFields
<1>3. e.type \in {"kSet", "kDelete"}
  BY <1>1, EntryFields
<1>4. replayed' = replayed \cup {l} /\ l.id = cur
  BY DEF ReplayEntry
<1>5. indices' = [indices EXCEPT ![k] = IF e.type = "kSet" THEN DirOf(l, e) ELSE NoDir]
  <2>1. indices' = IndexAfterReplay(indices, l, e)
    BY DEF ReplayEntry
  <2>2. indices[k] # NoDir => ~Before(l, indices[k].loc)
    BY <1>2, IndexIsOlder
  <2> QED
    BY <1>2, <2>1, <2>2 DEF IndexAfterReplay
<1>6. indices \in [Keys -> Dir \cup {NoDir}]
  BY DEF RecInv, RecTypeOK
<1>7. /\ \A x \in Keys : x # k => indices'[x] = indices[x]
      /\ e.type = "kSet" => indices'[k] # NoDir /\ indices'[k].loc = l
      /\ e.type = "kDelete" => indices'[k] = NoDir
  BY <1>1, <1>2, <1>3, <1>5, <1>6, DirOfType
<1>8. /\ \A x \in Keys : indices[x] # NoDir => indices[x].loc \in replayed
      /\ \A x, y \in Keys : indices[x] # NoDir /\ indices[y] # NoDir
           /\ indices[x].loc = indices[y].loc => x = y
  BY DEF RecInv, IndexIsLatest, IsSet
<1> DEFINE Unused(ix, m) == \A x \in Keys : ix[x] = NoDir \/ ix[x].loc # m
<1>9. ASSUME NEW m \in replayed
      PROVE  Unused(indices', m) <=> Unused(indices, m) \/ (indices[k] # NoDir /\ m = indices[k].loc)
  BY <1>1, <1>2, <1>3, <1>7, <1>8
<1>10. Unused(indices', l) <=> e.type = "kDelete"
  BY <1>1, <1>2, <1>3, <1>7, <1>8
<1>11. indices[k] # NoDir => ~Unused(indices, indices[k].loc)
  BY <1>2
<1>12. Dead(f) = {m \in replayed : m.id = f /\ Unused(indices, m)}
  BY DEF Dead
<1>13. Dead(f)' = {m \in replayed' : m.id = f /\ Unused(indices', m)}
  BY DEF Dead
<1> HIDE DEF Unused
<1>14. Dead(f)' = Dead(f)
              \cup {m \in {l} : e.type = "kDelete" /\ f = cur}
              \cup {m \in Retired(k) : m.id = f}
  BY <1>2, <1>4, <1>8, <1>9, <1>10, <1>12, <1>13 DEF Retired
<1> QED
  BY <1>1, <1>2, <1>8, <1>11, <1>12, <1>14 DEF Retired

LEMMA ReplayDeadFiles ==
  ASSUME RecInv, NEW o \in Rest, ReplayEntry(o),
         NEW l, l = [id |-> cur, offset |-> o], NEW e, e = log[l]
  PROVE  DeadFiles' = DeadFiles
           \cup (IF e.type = "kDelete" THEN {cur} ELSE {})
           \cup (IF indices[e.key] # NoDir THEN {indices[e.key].loc.id} ELSE {})
<1>1. PICK k : k = e.key
  OBVIOUS
<1>2. cur \in FileId /\ (indices[k] # NoDir => indices[k].loc.id \in FileId)
  <2>1. e \in Entry /\ cur \in FileId
    BY NextRecord DEF Rest, RecInv, RecTypeOK
  <2>2. k \in Keys
    BY <1>1, <2>1, EntryFields
  <2> QED
    BY <2>1, <2>2 DEF RecInv, RecTypeOK, Dir, Location
<1>3. ASSUME NEW f \in FileId
      PROVE  f \in DeadFiles' <=>
               \/ f \in DeadFiles
               \/ e.type = "kDelete" /\ f = cur
               \/ indices[k] # NoDir /\ f = indices[k].loc.id
  <2>1. Dead(f)' = Dead(f)
              \cup {m \in {l} : e.type = "kDelete" /\ f = cur}
              \cup {m \in Retired(k) : m.id = f}
    BY <1>1, ReplayDead
  <2>2. (f \in DeadFiles <=> Dead(f) # {}) /\ (f \in DeadFiles' <=> Dead(f)' # {})
    BY DEF DeadFiles
  <2> QED
    BY <2>1, <2>2 DEF Retired
<1>4. DeadFiles \subseteq FileId /\ DeadFiles' \subseteq FileId
  BY DEF DeadFiles
<1> QED
  BY <1>1, <1>2, <1>3, <1>4

LEMMA ReplayQueue ==
  ASSUME RecInv, QueueInv, NEW o \in Rest, ReplayEntry(o)
  PROVE  QueueInv'
<1>0. PICK l : l = [id |-> cur, offset |-> o]
  OBVIOUS
<1>1. PICK e : e = log[l]
  OBVIOUS
<1>2. l \in Location /\ e \in Entry /\ cur \in FileId /\ l.id = cur
  BY <1>0, <1>1, NextRecord DEF Rest, RecInv, RecTypeOK
<1>3. PICK k \in Keys : k = e.key
  BY <1>2, EntryFields
<1>4. SizeOf(e) \in Nat /\ e.type \in {"kSet", "kDelete"}
  BY <1>2, EntryFields
<1>5. indices[k] # NoDir =>
        /\ indices[k].loc.id \in FileId /\ indices[k].entry_size \in Nat
        /\ ~Before(l, indices[k].loc)
  BY <1>0, IndexIsOlder DEF RecInv, RecTypeOK, Dir, Location
<1>6. hints' = HintsAfterReplay(indices, hints, l, e)
  BY <1>0, <1>1 DEF ReplayEntry
<1>7. DeadFiles' = DeadFiles
           \cup (IF e.type = "kDelete" THEN {cur} ELSE {})
           \cup (IF indices[k] # NoDir THEN {indices[k].loc.id} ELSE {})
  BY <1>0, <1>1, <1>3, ReplayDeadFiles
<1> DEFINE own == UpdateUnused(hints, l.id, SizeOf(e))
<1>8. QueueMatches(own, DeadFiles \cup {cur})
  BY <1>2, <1>4, UpdateUnusedMatches DEF QueueInv
<1>9. indices[k] # NoDir =>
        /\ QueueMatches(Retire(hints, indices[k]), DeadFiles \cup {indices[k].loc.id})
        /\ QueueMatches(Retire(own, indices[k]), (DeadFiles \cup {cur}) \cup {indices[k].loc.id})
  BY <1>5, <1>8, UpdateUnusedMatches DEF QueueInv, Retire
<1> HIDE DEF own
<1>10. hints' = IF e.type = "kDelete"
                THEN IF indices[k] = NoDir THEN own ELSE Retire(own, indices[k])
                ELSE IF indices[k] = NoDir THEN hints ELSE Retire(hints, indices[k])
  BY <1>3, <1>5, <1>6 DEF HintsAfterReplay, own
<1>11. QueueMatches(hints', DeadFiles')
  <2>1. CASE e.type = "kDelete" /\ indices[k] = NoDir
    <3>1. DeadFiles' = DeadFiles \cup {cur} /\ hints' = own
      BY <1>7, <1>10, <2>1
    <3> QED
      BY <1>8, <3>1
  <2>2. CASE e.type = "kDelete" /\ indices[k] # NoDir
    <3>1. /\ DeadFiles' = (DeadFiles \cup {cur}) \cup {indices[k].loc.id}
          /\ hints' = Retire(own, indices[k])
      BY <1>7, <1>10, <2>2
    <3> QED
      BY <1>9, <2>2, <3>1
  <2>3. CASE e.type = "kSet" /\ indices[k] = NoDir
    <3>1. DeadFiles' = DeadFiles /\ hints' = hints
      BY <1>7, <1>10, <2>3
    <3> QED
      BY <3>1 DEF QueueInv
  <2>4. CASE e.type = "kSet" /\ indices[k] # NoDir
    <3>1. /\ DeadFiles' = DeadFiles \cup {indices[k].loc.id}
          /\ hints' = Retire(hints, indices[k])
      BY <1>7, <1>10, <2>4
    <3> QED
      BY <1>9, <2>4, <3>1
  <2> QED
    BY <1>4, <2>1, <2>2, <2>3, <2>4
<1> QED
  BY <1>11 DEF QueueInv, QueueMatches

(***************************************************************************)
(* Recovery queues a file for compaction exactly when its unused records   *)
(* reach the threshold, and queues it once.                                *)
(***************************************************************************)
THEOREM RecoveryQueuesOnce == RecSpec => []QueuedOnce
<1>1. RecInit => QueueInv
  <2> SUFFICES ASSUME RecInit
               PROVE  QueueMatches(hints, DeadFiles)
    BY DEF QueueInv
  <2>1. NoHints \in Hints
    BY DEF NoHints, Hints, CompactState
  <2>2. hints = NoHints /\ DeadFiles = {}
    BY DEF RecInit, DeadFiles, Dead
  <2>3. QueueSound(NoHints)
    BY DEF NoHints, QueueSound, NoRepeats, Contains
  <2>4. \A f \in FileId : NoHints.compact_state[f] = "kNop"
    BY DEF NoHints
  <2> QED
    BY <2>1, <2>2, <2>3, <2>4 DEF QueueMatches
<1>2. RecInv /\ QueueInv /\ [RecNext]_recvars => QueueInv'
  <2> SUFFICES ASSUME RecInv, QueueInv, [RecNext]_recvars
               PROVE  QueueInv'
    OBVIOUS
  <2>1. CASE UNCHANGED <<replayed, indices, hints>>
    BY <2>1 DEF QueueInv, QueueMatches, DeadFiles, Dead
  <2>2. ASSUME NEW f \in pending, OpenFile(f) \/ OpenFileFailed(f)
        PROVE  UNCHANGED <<replayed, indices, hints>>
    BY <2>2 DEF OpenFile, OpenFileFailed
  <2> QED
    BY <2>1, <2>2, ReplayQueue DEF RecNext, RecStep, recvars
<1>3. QueueInv => QueuedOnce
  BY DEF QueueInv, QueueMatches, QueueSound, QueuedOnce, DeadFiles
<1> QED
  BY <1>1, <1>2, <1>3, RecoveryInvariance, PTL DEF RecSpec

-----------------------------------------------------------------------------
(***************************************************************************)
(* The unused bytes that recovery counts.  A record is charged when the    *)
(* index lets go of it, so before that it was not charged; the next record *)
(* was not even read, and its key's record, if any, is another one.        *)
(***************************************************************************)
LEMMA ReplayFree ==
  ASSUME RecInv, FreeIsDead, NEW o \in Rest, ReplayEntry(o), NEW f \in FileId
  PROVE  hints'.free_bytes[f] = BytesOf(log, Dead(f)')
<1>0. PICK l : l = [id |-> cur, offset |-> o]
  OBVIOUS
<1>1. PICK e : e = log[l]
  OBVIOUS
<1>2. l \in Location /\ e \in Entry /\ cur \in FileId /\ l.id = cur
  BY <1>0, <1>1, NextRecord DEF Rest, RecInv, RecTypeOK
<1>3. PICK k \in Keys : k = e.key
  BY <1>2, EntryFields
<1>4. SizeOf(e) \in Nat /\ e.type \in {"kSet", "kDelete"}
  BY <1>2, EntryFields
<1>5. indices[k] # NoDir =>
        /\ indices[k].loc.id \in FileId
        /\ indices[k].entry_size = SizeOf(log[indices[k].loc])
        /\ indices[k].loc \in replayed
        /\ ~Before(l, indices[k].loc)
  BY <1>0, IndexIsOlder DEF RecInv, RecTypeOK, IndexIsLatest, Dir, Location
<1>6. PICK own : own = UpdateUnused(hints, cur, SizeOf(e))
  OBVIOUS
<1>7. PICK h : h = IF e.type = "kDelete" THEN own ELSE hints
  OBVIOUS
<1>8. hints' = IF indices[k] = NoDir THEN h ELSE Retire(h, indices[k])
  <2>1. hints' = HintsAfterReplay(indices, hints, l, e)
    BY <1>0, <1>1 DEF ReplayEntry
  <2> QED
    BY <1>2, <1>3, <1>4, <1>5, <1>6, <1>7, <2>1 DEF HintsAfterReplay
<1>9. hints \in Hints /\ hints.free_bytes[f] = BytesOf(log, Dead(f))
  BY DEF RecInv, RecTypeOK, FreeIsDead
<1>10. \A m \in replayed : m \in Location /\ log[m] \in Entry
  BY DEF RecInv, RecTypeOK, OrderInv, Log
<1>11. Dead(f) \subseteq replayed
  BY DEF Dead
<1>12. PICK D : D = Dead(f) \cup {m \in {l} : e.type = "kDelete" /\ f = cur}
  OBVIOUS
<1>13. /\ Dead(f)' = D \cup {m \in Retired(k) : m.id = f}
       /\ l \notin replayed
       /\ \A m \in Retired(k) : m \in replayed /\ m \notin Dead(f)
  BY <1>0, <1>1, <1>3, <1>12, ReplayDead
<1>14. /\ IsFiniteSet(Dead(f)) /\ IsFiniteSet(D)
       /\ D \subseteq replayed \cup {l}
  <2>1. Dead(f) \subseteq Location /\ D \subseteq Location
    BY <1>2, <1>10, <1>11, <1>12
  <2> QED
    BY <1>11, <1>12, <2>1, LocationsFinite, FS_Subset
<1>15. h \in Hints /\ h.free_bytes[f] = BytesOf(log, D)
  <2>1. CASE e.type = "kDelete"
    <3>1. /\ h \in Hints
          /\ h.free_bytes[cur] = hints.free_bytes[cur] + SizeOf(e)
          /\ f # cur => h.free_bytes[f] = hints.free_bytes[f]
      BY <1>2, <1>4, <1>6, <1>7, <1>9, <2>1, UpdateUnusedFields
    <3>2. CASE f # cur
      <4>1. D = Dead(f)
        BY <1>12, <3>2
      <4> QED
        BY <1>9, <3>1, <3>2, <4>1
    <3>3. CASE f = cur
      <4>1. D = Dead(f) \cup {l} /\ l \notin Dead(f)
        BY <1>11, <1>12, <1>13, <2>1, <3>3
      <4>2. \A y \in Dead(f) \cup {l} : log[y] \in Entry
        BY <1>1, <1>2, <1>10, <1>11
      <4>3. BytesOf(log, Dead(f) \cup {l}) = BytesOf(log, Dead(f)) + SizeOf(log[l])
        BY <1>14, <4>1, <4>2, BytesOneMore
      <4> QED
        BY <1>1, <1>9, <3>1, <3>3, <4>1, <4>3
    <3> QED
      BY <3>2, <3>3
  <2>2. CASE e.type # "kDelete"
    <3>1. D = Dead(f) /\ h = hints
      BY <1>7, <1>12, <2>2
    <3> QED
      BY <1>9, <3>1
  <2> QED
    BY <2>1, <2>2
<1>16. CASE indices[k] = NoDir
  <2>1. Dead(f)' = D /\ hints' = h
    BY <1>8, <1>13, <1>16 DEF Retired
  <2> QED
    BY <1>15, <2>1
<1>17. CASE indices[k] # NoDir
  <2>1. PICK m : m = indices[k].loc
    OBVIOUS
  <2>2. /\ m.id \in FileId /\ m \in replayed /\ m \notin D
        /\ indices[k].entry_size = SizeOf(log[m]) /\ SizeOf(log[m]) \in Nat
    <3>1. m \in Retired(k)
      BY <1>17, <2>1 DEF Retired
    <3>2. SizeOf(log[m]) \in Nat
      BY <1>5, <1>10, <1>17, <2>1, SizeAssumption
    <3> QED
      BY <1>5, <1>12, <1>13, <1>17, <2>1, <3>1, <3>2
  <2>3. /\ hints'.free_bytes[m.id] = h.free_bytes[m.id] + SizeOf(log[m])
        /\ f # m.id => hints'.free_bytes[f] = h.free_bytes[f]
    <3>1. hints' = UpdateUnused(h, m.id, SizeOf(log[m]))
      BY <1>8, <1>17, <2>1, <2>2 DEF Retire
    <3>2. h \in Hints /\ m.id \in FileId /\ SizeOf(log[m]) \in Nat
      BY <1>15, <2>2
    <3> QED
      BY <3>1, <3>2, UpdateUnusedFields
  <2>4. CASE f # m.id
    <3>1. Dead(f)' = D
      BY <1>13, <1>17, <2>1, <2>4 DEF Retired
    <3> QED
      BY <1>15, <2>3, <2>4, <3>1
  <2>5. CASE f = m.id
    <3>1. Dead(f)' = D \cup {m}
      BY <1>13, <1>17, <2>1, <2>5 DEF Retired
    <3>2. \A y \in D \cup {m} : log[y] \in Entry
      BY <1>1, <1>2, <1>10, <1>14, <2>2
    <3>3. BytesOf(log, D \cup {m}) = BytesOf(log, D) + SizeOf(log[m])
      BY <1>14, <2>2, <3>2, BytesOneMore
    <3> QED
      BY <1>15, <2>3, <2>5, <3>1, <3>3
  <2> QED
    BY <2>4, <2>5
<1> QED
  BY <1>16, <1>17

(***************************************************************************)
(* Recovery counts the unused bytes of every file exactly: each record     *)
(* that a later one replaced, and each tombstone, once.                    *)
(***************************************************************************)
THEOREM RecoveryCountsUnused == RecSpec => []FreeIsDead
<1>1. RecInit => FreeIsDead
  <2> SUFFICES ASSUME RecInit, NEW f \in FileId
               PROVE  hints.free_bytes[f] = BytesOf(log, Dead(f))
    BY DEF FreeIsDead
  <2>1. hints.free_bytes[f] = 0 /\ Dead(f) = {}
    BY DEF RecInit, NoHints, Dead
  <2> QED
    BY <2>1, SumEmpty DEF BytesOf
<1>2. RecInv /\ FreeIsDead /\ [RecNext]_recvars => FreeIsDead'
  <2> SUFFICES ASSUME RecInv, FreeIsDead, [RecNext]_recvars
               PROVE  FreeIsDead'
    OBVIOUS
  <2>1. CASE UNCHANGED <<log, replayed, indices, hints>>
    BY <2>1 DEF FreeIsDead, Dead
  <2>2. ASSUME NEW f \in pending, OpenFile(f) \/ OpenFileFailed(f)
        PROVE  UNCHANGED <<log, replayed, indices, hints>>
    BY <2>2 DEF OpenFile, OpenFileFailed
  <2>3. ASSUME NEW o \in Rest, ReplayEntry(o) PROVE FreeIsDead'
    <3>1. log' = log
      BY <2>3 DEF ReplayEntry
    <3>2. \A f \in FileId : hints'.free_bytes[f] = BytesOf(log, Dead(f)')
      BY <2>3, ReplayFree
    <3> QED
      BY <3>1, <3>2 DEF FreeIsDead
  <2> QED
    BY <2>1, <2>2, <2>3 DEF RecNext, RecStep, recvars
<1> QED
  BY <1>1, <1>2, RecoveryInvariance, PTL DEF RecSpec
=============================================================================
