--------------------------- MODULE MemIndexProofs ---------------------------
(***************************************************************************)
(* What the operators of MemIndex preserve: the types of the index and of  *)
(* the hints, and the agreement of compact_tasks_ with compact_state.      *)
(* Put, delete, compaction and recovery rest on these lemmas.              *)
(***************************************************************************)
EXTENDS MemIndex, FiniteSetTheorems, TLAPS

\* Locations are ordered by file and offset.
LEMMA BeforeOrder ==
  ASSUME NEW l \in Location, NEW m \in Location
  PROVE  /\ Before(l, m) => l # m /\ ~Before(m, l)
         /\ ~Before(l, m) => l = m \/ Before(m, l)
BY CapacityAssumption, MaxFileAssumption DEF Before, Location, FileId, Offset

LEMMA EntryFields ==
  ASSUME NEW e \in Entry
  PROVE  /\ e.key \in Keys
         /\ e.type \in {"kSet", "kDelete"}
         /\ SizeOf(e) \in Nat
         /\ e # NoRecord
BY SizeAssumption, HoleAssumption DEF Entry

\* The directory entry of a record.
LEMMA DirOfType ==
  ASSUME NEW l \in Location, NEW e \in Entry
  PROVE  /\ DirOf(l, e) \in Dir /\ DirOf(l, e) # NoDir
         /\ DirOf(l, e).loc = l /\ DirOf(l, e).entry_size = SizeOf(e)
BY EntryFields, NoDirAssumption DEF DirOf, Dir

-----------------------------------------------------------------------------
(***************************************************************************)
(* Queues of files.                                                        *)
(***************************************************************************)
LEMMA AppendFile ==
  ASSUME NEW q \in Seq(FileId), NEW f \in FileId
  PROVE  /\ Append(q, f) \in Seq(FileId)
         /\ \A x : Contains(Append(q, f), x) <=> Contains(q, x) \/ x = f
         /\ NoRepeats(q) /\ ~Contains(q, f) => NoRepeats(Append(q, f))
<1> DEFINE r == Append(q, f)
<1>1. /\ r \in Seq(FileId) /\ Len(q) \in Nat /\ Len(r) = Len(q) + 1
      /\ DOMAIN q = 1 .. Len(q) /\ DOMAIN r = 1 .. Len(r)
      /\ r[Len(q) + 1] = f
      /\ \A i \in 1 .. Len(q) : r[i] = q[i]
  OBVIOUS
<1> HIDE DEF r
<1>2. \A x : Contains(r, x) <=> Contains(q, x) \/ x = f
  BY <1>1 DEF Contains
<1>3. NoRepeats(q) /\ ~Contains(q, f) => NoRepeats(r)
  <2> SUFFICES ASSUME NoRepeats(q), ~Contains(q, f),
                      NEW i \in 1 .. Len(r), NEW j \in 1 .. Len(r), r[i] = r[j]
               PROVE  i = j
    BY <1>1 DEF NoRepeats
  <2>1. \A k \in 1 .. Len(q) : r[k] # f
    BY <1>1 DEF Contains
  <2>2. CASE i \in 1 .. Len(q) /\ j \in 1 .. Len(q)
    BY <1>1, <2>2 DEF NoRepeats
  <2>3. CASE i = Len(q) + 1 \/ j = Len(q) + 1
    BY <1>1, <2>1, <2>3
  <2> QED
    BY <1>1, <2>2, <2>3
<1> QED
  BY <1>1, <1>2, <1>3 DEF r

LEMMA TailOfFiles ==
  ASSUME NEW q \in Seq(FileId), q # << >>
  PROVE  /\ Tail(q) \in Seq(FileId) /\ Head(q) \in FileId
         /\ Contains(q, Head(q))
         /\ \A x : Contains(Tail(q), x) => Contains(q, x)
         /\ NoRepeats(q) => NoRepeats(Tail(q)) /\ ~Contains(Tail(q), Head(q))
<1> DEFINE r == Tail(q)
<1>1. /\ r \in Seq(FileId) /\ Len(q) \in Nat \ {0} /\ Len(r) = Len(q) - 1
      /\ DOMAIN q = 1 .. Len(q) /\ DOMAIN r = 1 .. Len(r)
      /\ Head(q) = q[1] /\ q[1] \in FileId
      /\ \A i \in 1 .. Len(r) : r[i] = q[i + 1]
  OBVIOUS
<1> HIDE DEF r
<1>2. \A i \in 1 .. Len(r) : i + 1 \in 1 .. Len(q) /\ i + 1 # 1
  BY <1>1
<1>3. Contains(q, Head(q)) /\ \A x : Contains(r, x) => Contains(q, x)
  BY <1>1, <1>2 DEF Contains
<1>4. ASSUME NoRepeats(q)
      PROVE  NoRepeats(r) /\ ~Contains(r, Head(q))
  <2>1. ASSUME NEW i \in 1 .. Len(r), NEW j \in 1 .. Len(r), r[i] = r[j]
        PROVE  i = j
    <3>1. i + 1 \in DOMAIN q /\ j + 1 \in DOMAIN q /\ q[i + 1] = q[j + 1]
      BY <1>1, <1>2, <2>1
    <3>2. i + 1 = j + 1
      BY <1>4, <3>1 DEF NoRepeats
    <3> QED
      BY <1>1, <3>2
  <2>2. ASSUME NEW i \in 1 .. Len(r)
        PROVE  r[i] # Head(q)
    BY <1>1, <1>2, <1>4 DEF NoRepeats
  <2> QED
    BY <1>1, <2>1, <2>2 DEF NoRepeats, Contains
<1> QED
  BY <1>1, <1>3, <1>4 DEF r

LEMMA ConcatFiles ==
  ASSUME NEW p \in Seq(FileId), NEW q \in Seq(FileId)
  PROVE  /\ p \o q \in Seq(FileId)
         /\ \A x : Contains(p \o q, x) <=> Contains(p, x) \/ Contains(q, x)
         /\ NoRepeats(p) /\ NoRepeats(q) /\ (\A x : ~(Contains(p, x) /\ Contains(q, x)))
              => NoRepeats(p \o q)
         /\ p # << >> => Head(p \o q) = Head(p)
<1> DEFINE r == p \o q
           m == Len(p)
           n == Len(q)
<1>1. /\ r \in Seq(FileId) /\ m \in Nat /\ n \in Nat /\ Len(r) = m + n
      /\ DOMAIN p = 1 .. m /\ DOMAIN q = 1 .. n /\ DOMAIN r = 1 .. (m + n)
      /\ \A i \in 1 .. (m + n) : r[i] = IF i <= m THEN p[i] ELSE q[i - m]
      /\ p # << >> => m # 0
  OBVIOUS
<1>2. p # << >> => Head(r) = Head(p)
  BY <1>1
<1> HIDE DEF r, m, n
<1>3. \A i \in 1 .. m : i \in 1 .. (m + n) /\ r[i] = p[i]
  BY <1>1
<1>4. \A i \in 1 .. n : i + m \in 1 .. (m + n) /\ r[i + m] = q[i]
  BY <1>1
<1>5. \A i \in 1 .. (m + n) : \/ i \in 1 .. m /\ r[i] = p[i]
                              \/ i - m \in 1 .. n /\ r[i] = q[i - m]
  BY <1>1
<1>6. \A x : Contains(r, x) <=> Contains(p, x) \/ Contains(q, x)
  BY <1>1, <1>3, <1>4, <1>5 DEF Contains, m, n
<1>7. NoRepeats(p) /\ NoRepeats(q) /\ (\A x : ~(Contains(p, x) /\ Contains(q, x)))
        => NoRepeats(r)
  <2> SUFFICES ASSUME NoRepeats(p), NoRepeats(q),
                      \A x : ~(Contains(p, x) /\ Contains(q, x)),
                      NEW i \in 1 .. (m + n), NEW j \in 1 .. (m + n), r[i] = r[j]
               PROVE  i = j
    BY <1>1 DEF NoRepeats
  <2>1. \A a \in 1 .. m, b \in 1 .. n : p[a] # q[b]
    BY DEF Contains, m, n
  <2>2. CASE i \in 1 .. m /\ j \in 1 .. m
    BY <1>1, <1>3, <2>2 DEF NoRepeats
  <2>3. CASE i - m \in 1 .. n /\ j - m \in 1 .. n
    <3>1. r[i] = q[i - m] /\ r[j] = q[j - m]
      BY <1>1, <2>3
    <3>2. i - m = j - m
      BY <1>1, <2>3, <3>1 DEF NoRepeats
    <3> QED
      BY <1>1, <3>2
  <2>4. CASE i \in 1 .. m /\ j - m \in 1 .. n /\ r[j] = q[j - m]
    BY <1>3, <2>1, <2>4
  <2>5. CASE j \in 1 .. m /\ i - m \in 1 .. n /\ r[i] = q[i - m]
    BY <1>3, <2>1, <2>5
  <2> QED
    BY <1>5, <2>2, <2>3, <2>4, <2>5
<1> QED
  BY <1>1, <1>2, <1>6, <1>7 DEF r

-----------------------------------------------------------------------------
(***************************************************************************)
(* UpdateUnused: what it makes of the hints, field by field.               *)
(***************************************************************************)
Queues(h, f, unused) ==
  h.free_bytes[f] + unused >= threshold_bytes /\ h.compact_state[f] = "kNop"

LEMMA UpdateUnusedFields ==
  ASSUME NEW h \in Hints, NEW f \in FileId, NEW n \in Nat
  PROVE  LET g == UpdateUnused(h, f, n) IN
         /\ g \in Hints
         /\ g.free_bytes[f] = h.free_bytes[f] + n
         /\ \A x \in FileId : x # f => g.free_bytes[x] = h.free_bytes[x]
         /\ \A x \in FileId : g.compact_state[x] =
              IF x = f /\ Queues(h, f, n) THEN "kQueued" ELSE h.compact_state[x]
         /\ g.compact_tasks =
              IF Queues(h, f, n) THEN Append(h.compact_tasks, f) ELSE h.compact_tasks
<1> DEFINE full == h.free_bytes[f] + n >= threshold_bytes /\ h.compact_state[f] = "kNop"
           fb   == [h.free_bytes EXCEPT ![f] = h.free_bytes[f] + n]
           cs   == IF full THEN [h.compact_state EXCEPT ![f] = "kQueued"]
                           ELSE h.compact_state
           ct   == IF full THEN Append(h.compact_tasks, f) ELSE h.compact_tasks
<1>1. /\ h.free_bytes \in [FileId -> Nat]
      /\ h.compact_state \in [FileId -> CompactState]
      /\ h.compact_tasks \in Seq(FileId)
  BY DEF Hints
<1>2. fb \in [FileId -> Nat] /\ cs \in [FileId -> CompactState] /\ ct \in Seq(FileId)
  BY <1>1 DEF CompactState
<1>3. UpdateUnused(h, f, n)
        = [free_bytes |-> fb, compact_state |-> cs, compact_tasks |-> ct]
  BY DEF UpdateUnused
<1>4. /\ fb[f] = h.free_bytes[f] + n
      /\ \A x \in FileId : x # f => fb[x] = h.free_bytes[x]
      /\ \A x \in FileId : cs[x] = IF x = f /\ full THEN "kQueued" ELSE h.compact_state[x]
  BY <1>1
<1>5. full <=> Queues(h, f, n)
  BY DEF Queues
<1> HIDE DEF fb, cs, full
<1>6. ct = IF full THEN Append(h.compact_tasks, f) ELSE h.compact_tasks
  OBVIOUS
<1> HIDE DEF ct
<1>7. [free_bytes |-> fb, compact_state |-> cs, compact_tasks |-> ct] \in Hints
  BY <1>2 DEF Hints
<1> QED
  BY <1>3, <1>4, <1>5, <1>6, <1>7

LEMMA UpdateUnusedType ==
  ASSUME NEW h \in Hints, NEW f \in FileId, NEW n \in Nat
  PROVE  UpdateUnused(h, f, n) \in Hints
BY UpdateUnusedFields

\* UpdateUnused keeps the queue in step with the states.
LEMMA UpdateUnusedQueue ==
  ASSUME NEW h \in Hints, NEW f \in FileId, NEW n \in Nat, QueueSound(h)
  PROVE  QueueSound(UpdateUnused(h, f, n))
<1> DEFINE g == UpdateUnused(h, f, n)
<1>1. /\ \A x \in FileId : g.compact_state[x] =
              IF x = f /\ Queues(h, f, n) THEN "kQueued" ELSE h.compact_state[x]
      /\ g.compact_tasks =
              IF Queues(h, f, n) THEN Append(h.compact_tasks, f) ELSE h.compact_tasks
  BY UpdateUnusedFields
<1> HIDE DEF g
<1>2. h.compact_tasks \in Seq(FileId)
  BY DEF Hints
<1>3. CASE ~Queues(h, f, n)
  BY <1>1, <1>3 DEF QueueSound, g
<1>4. CASE Queues(h, f, n)
  <2>1. ~Contains(h.compact_tasks, f)
    BY <1>4 DEF Queues, QueueSound
  <2>2. /\ \A x : Contains(g.compact_tasks, x) <=> Contains(h.compact_tasks, x) \/ x = f
        /\ NoRepeats(g.compact_tasks)
    BY <1>1, <1>2, <1>4, <2>1, AppendFile DEF QueueSound
  <2> QED
    BY <1>1, <1>4, <2>2 DEF QueueSound, g
<1> QED
  BY <1>3, <1>4

\* Replaying one record keeps the hints well-formed.
LEMMA ReplayHintsType ==
  ASSUME NEW ix \in [Keys -> Dir \cup {NoDir}], NEW h \in Hints,
         NEW l \in Location, NEW e \in Entry
  PROVE  HintsAfterReplay(ix, h, l, e) \in Hints
<1> DEFINE own == UpdateUnused(h, l.id, SizeOf(e))
<1>1. l.id \in FileId
  BY DEF Location
<1>2. own \in Hints
  BY <1>1, UpdateUnusedType, EntryFields
<1>3. ASSUME NEW g \in Hints, ix[e.key] # NoDir
      PROVE  Retire(g, ix[e.key]) \in Hints
  <2>1. ix[e.key] \in Dir
    BY <1>3, EntryFields
  <2>2. ix[e.key].loc.id \in FileId /\ ix[e.key].entry_size \in Nat
    BY <2>1 DEF Dir, Location
  <2> QED
    BY <2>2, UpdateUnusedType DEF Retire
<1> HIDE DEF own
<1> QED
  BY <1>2, <1>3 DEF HintsAfterReplay, own
-----------------------------------------------------------------------------
(***************************************************************************)
(* The other updates of the hints: a put, and the steps of a compaction.   *)
(***************************************************************************)
LEMMA HintsFields ==
  ASSUME NEW fb \in [FileId -> Nat], NEW cs \in [FileId -> CompactState],
         NEW ct \in Seq(FileId)
  PROVE  [free_bytes |-> fb, compact_state |-> cs, compact_tasks |-> ct] \in Hints
BY DEF Hints

\* A put charges one file at most: that of the record it replaces, or its own.
LEMMA PutHints ==
  ASSUME NEW ix \in [Keys -> Dir \cup {NoDir}], NEW h \in Hints,
         NEW l \in Location, NEW e \in Entry
  PROVE  \/ HintsAfterPut(ix, h, l, e) = h
         \/ /\ ix[e.key] # NoDir
            /\ HintsAfterPut(ix, h, l, e)
                 = UpdateUnused(h, ix[e.key].loc.id, ix[e.key].entry_size)
         \/ HintsAfterPut(ix, h, l, e) = UpdateUnused(h, l.id, SizeOf(e))
BY DEF HintsAfterPut, Retire

\* A put leaves an index of its type.
LEMMA PutIndexType ==
  ASSUME NEW ix \in [Keys -> Dir \cup {NoDir}], NEW l \in Location, NEW e \in Entry
  PROVE  /\ IndexAfterPut(ix, l, e) \in [Keys -> Dir \cup {NoDir}]
         /\ IndexAfterPut(ix, l, e)[e.key]
              = IF e.type = "kSet" THEN DirOf(l, e) ELSE NoDir
         /\ \A k \in Keys : k # e.key => IndexAfterPut(ix, l, e)[k] = ix[k]
BY EntryFields, DirOfType DEF IndexAfterPut

\* So does a moved record; other keys keep their entries.
LEMMA MoveIndexType ==
  ASSUME NEW ix \in [Keys -> Dir \cup {NoDir}], NEW l \in Location, NEW e \in Entry
  PROVE  /\ IndexAfterMove(ix, l, e) \in [Keys -> Dir \cup {NoDir}]
         /\ IndexAfterMove(ix, l, e)[e.key] \in {ix[e.key], DirOf(l, e)}
         /\ \A k \in Keys : k # e.key => IndexAfterMove(ix, l, e)[k] = ix[k]
BY EntryFields, DirOfType DEF IndexAfterMove

LEMMA MoveHints ==
  ASSUME NEW ix, NEW h \in Hints, NEW l \in Location, NEW e \in Entry
  PROVE  /\ HintsAfterMove(ix, h, l, e) \in Hints
         /\ HintsAfterMove(ix, h, l, e).compact_state = h.compact_state
         /\ HintsAfterMove(ix, h, l, e).compact_tasks = h.compact_tasks
<1> DEFINE fb == [h.free_bytes EXCEPT ![l.id] = @ + SizeOf(e)]
           g  == [free_bytes |-> fb, compact_state |-> h.compact_state,
                  compact_tasks |-> h.compact_tasks]
<1>1. /\ h.free_bytes \in [FileId -> Nat] /\ h.compact_state \in [FileId -> CompactState]
      /\ h.compact_tasks \in Seq(FileId)
  BY DEF Hints
<1>2. l.id \in FileId /\ SizeOf(e) \in Nat
  BY EntryFields DEF Location
<1>3. fb \in [FileId -> Nat]
  BY <1>1, <1>2
<1>4. HintsAfterMove(ix, h, l, e) \in {g, h}
  BY DEF HintsAfterMove
<1> HIDE DEF fb
<1>5. g \in Hints
  BY <1>1, <1>3, HintsFields
<1> QED
  BY <1>4, <1>5

\* Polling empties the queue; the files that were in it are kScheduling.
LEMMA PollHints ==
  ASSUME NEW h \in Hints
  PROVE  /\ PollCompactTask(h) \in Hints
         /\ PollCompactTask(h).compact_tasks = << >>
         /\ \A f \in FileId : PollCompactTask(h).compact_state[f] =
              IF Contains(h.compact_tasks, f) THEN "kScheduling" ELSE h.compact_state[f]
<1> DEFINE cs == [f \in FileId |->
              IF Contains(h.compact_tasks, f) THEN "kScheduling" ELSE h.compact_state[f]]
<1>1. /\ h.free_bytes \in [FileId -> Nat] /\ h.compact_state \in [FileId -> CompactState]
  BY DEF Hints
<1>2. cs \in [FileId -> CompactState]
  BY <1>1 DEF CompactState
<1>3. PollCompactTask(h) = [free_bytes |-> h.free_bytes, compact_state |-> cs,
                            compact_tasks |-> << >>]
  BY DEF PollCompactTask
<1>4. << >> \in Seq(FileId)
  OBVIOUS
<1>5. \A f \in FileId : cs[f] =
        IF Contains(h.compact_tasks, f) THEN "kScheduling" ELSE h.compact_state[f]
  OBVIOUS
<1> HIDE DEF cs
<1>6. PollCompactTask(h) \in Hints
  BY <1>1, <1>2, <1>3, <1>4, HintsFields
<1> QED
  BY <1>3, <1>5, <1>6

\* After a poll, the queue agrees with the states again.
LEMMA PollQueue ==
  ASSUME NEW h \in Hints, QueueSound(h)
  PROVE  QueueSound(PollCompactTask(h))
<1>1. \A f : ~Contains(<< >>, f)
  BY DEF Contains
<1>2. NoRepeats(<< >>)
  BY DEF NoRepeats
<1> QED
  BY <1>1, <1>2, PollHints DEF QueueSound

LEMMA MarkHints ==
  ASSUME NEW h \in Hints, NEW f \in FileId
  PROVE  /\ MarkCompacting(h, f) \in Hints
         /\ MarkCompacting(h, f).compact_tasks = h.compact_tasks
         /\ \A x \in FileId : MarkCompacting(h, f).compact_state[x] =
              IF x = f THEN "kCompacting" ELSE h.compact_state[x]
<1> DEFINE cs == [h.compact_state EXCEPT ![f] = "kCompacting"]
<1>1. /\ h.free_bytes \in [FileId -> Nat] /\ h.compact_state \in [FileId -> CompactState]
      /\ h.compact_tasks \in Seq(FileId)
  BY DEF Hints
<1>2. /\ cs \in [FileId -> CompactState]
      /\ \A x \in FileId : cs[x] = IF x = f THEN "kCompacting" ELSE h.compact_state[x]
  BY <1>1 DEF CompactState
<1>3. MarkCompacting(h, f) = [free_bytes |-> h.free_bytes, compact_state |-> cs,
                              compact_tasks |-> h.compact_tasks]
  BY DEF MarkCompacting
<1> HIDE DEF cs
<1>4. MarkCompacting(h, f) \in Hints
  BY <1>1, <1>2, <1>3, HintsFields
<1> QED
  BY <1>2, <1>3, <1>4

LEMMA EraseHints ==
  ASSUME NEW h \in Hints, NEW f \in FileId
  PROVE  /\ EraseState(h, f) \in Hints
         /\ EraseState(h, f).compact_tasks = h.compact_tasks
         /\ \A x \in FileId : EraseState(h, f).compact_state[x] =
              IF x = f THEN "kNop" ELSE h.compact_state[x]
<1> DEFINE cs == [h.compact_state EXCEPT ![f] = "kNop"]
           fb == [h.free_bytes EXCEPT ![f] = 0]
<1>1. /\ h.free_bytes \in [FileId -> Nat] /\ h.compact_state \in [FileId -> CompactState]
      /\ h.compact_tasks \in Seq(FileId)
  BY DEF Hints
<1>2. /\ cs \in [FileId -> CompactState] /\ fb \in [FileId -> Nat]
      /\ \A x \in FileId : cs[x] = IF x = f THEN "kNop" ELSE h.compact_state[x]
  BY <1>1 DEF CompactState
<1>3. EraseState(h, f) = [free_bytes |-> fb, compact_state |-> cs,
                          compact_tasks |-> h.compact_tasks]
  BY DEF EraseState
<1> HIDE DEF cs, fb
<1>4. EraseState(h, f) \in Hints
  BY <1>1, <1>2, <1>3, HintsFields
<1> QED
  BY <1>2, <1>3, <1>4

-----------------------------------------------------------------------------
(***************************************************************************)
(* Sums over finite sets, for the unused bytes of a file.  What            *)
(* SumFunctionOnSet computes does not depend on the order it takes the     *)
(* elements in: a set on which it did would have a smallest such subset.   *)
(***************************************************************************)
\* The element that SumFunctionOnSet takes first.
Chosen(s) == CHOOSE x \in s : TRUE

\* On the subsets of S, g satisfies the equation by which sums are defined.
SumEq(g, w, S) ==
  \A s \in SUBSET S : g[s] = IF s = {} THEN 0 ELSE w[Chosen(s)] + g[s \ {Chosen(s)}]

LEMMA SumsExist ==
  ASSUME NEW S, IsFiniteSet(S), NEW w, \A x \in S : w[x] \in Nat
  PROVE  \E g \in [SUBSET S -> Nat] : SumEq(g, w, S)
<1> DEFINE Upto(g, n) ==
      /\ g \in [SUBSET S -> Nat]
      /\ \A s \in SUBSET S : Cardinality(s) <= n =>
           g[s] = IF s = {} THEN 0 ELSE w[Chosen(s)] + g[s \ {Chosen(s)}]
    B == {n \in Nat : ~\E g : Upto(g, n)}
<1>1. ASSUME NEW s \in SUBSET S
      PROVE  /\ IsFiniteSet(s) /\ Cardinality(s) \in Nat
             /\ s = {} <=> Cardinality(s) = 0
             /\ s # {} => /\ Chosen(s) \in s /\ s \ {Chosen(s)} \in SUBSET S
                          /\ Cardinality(s \ {Chosen(s)}) = Cardinality(s) - 1
                          /\ w[Chosen(s)] \in Nat
  <2>1. IsFiniteSet(s)
    BY FS_Subset
  <2>2. Cardinality(s) \in Nat /\ (s = {} <=> Cardinality(s) = 0)
    BY <2>1, FS_CardinalityType, FS_EmptySet
  <2>3. s # {} => Chosen(s) \in s
    BY DEF Chosen
  <2>4. s # {} => Cardinality(s \ {Chosen(s)}) = Cardinality(s) - 1
    BY <2>1, <2>3, FS_RemoveElement
  <2> QED
    BY <2>1, <2>2, <2>3, <2>4
<1>2. B = {}
  <2> SUFFICES ASSUME B # {} PROVE FALSE
    OBVIOUS
  <2>1. PICK n \in B : \A m \in B : <<m, n>> \notin OpToRel(<, Nat)
    BY NatLessThanWellFounded, WFMin, Zenon
  <2>2. n \in Nat /\ ~\E g : Upto(g, n)
    OBVIOUS
  <2>3. ASSUME NEW m \in Nat, m < n PROVE \E g : Upto(g, m)
    BY <2>1, <2>2, <2>3 DEF OpToRel
  <2>n. n \in Nat
    BY <2>2
  <2> HIDE DEF B
  <2>4. CASE n = 0
    <3> DEFINE g == [s \in SUBSET S |-> 0]
    <3>1. ASSUME NEW s \in SUBSET S, Cardinality(s) <= n PROVE s = {}
      <4>1. Cardinality(s) \in Nat /\ (s = {} <=> Cardinality(s) = 0)
        BY <1>1, Zenon
      <4> QED
        BY <2>4, <3>1, <4>1
    <3>2. Upto(g, n)
      BY <3>1
    <3> QED
      BY <2>2, <3>2
  <2>5. CASE n > 0
    <3>1. PICK h : Upto(h, n - 1)
      <4>1. n - 1 \in Nat /\ n - 1 < n
        BY <2>n, <2>5
      <4> HIDE DEF Upto
      <4> QED
        BY <2>3, <4>1
    <3> DEFINE g == [s \in SUBSET S |->
                       IF Cardinality(s) <= n - 1 THEN h[s]
                       ELSE w[Chosen(s)] + h[s \ {Chosen(s)}]]
    <3>2. g \in [SUBSET S -> Nat]
      <4>1. ASSUME NEW s \in SUBSET S PROVE g[s] \in Nat
        <5>1. CASE Cardinality(s) <= n - 1
          BY <3>1, <5>1
        <5>2. CASE ~(Cardinality(s) <= n - 1)
          <6>1. s # {}
            <7>1. Cardinality(s) \in Nat /\ (s = {} <=> Cardinality(s) = 0)
              BY <1>1, Zenon
            <7> QED
              BY <2>n, <2>5, <5>2, <7>1
          <6>2. w[Chosen(s)] \in Nat /\ h[s \ {Chosen(s)}] \in Nat
            BY <1>1, <3>1, <6>1
          <6> QED
            BY <5>2, <6>2
        <5> QED
          BY <5>1, <5>2
      <4> QED
        BY <4>1
    <3>3. ASSUME NEW s \in SUBSET S, Cardinality(s) <= n
          PROVE  g[s] = IF s = {} THEN 0 ELSE w[Chosen(s)] + g[s \ {Chosen(s)}]
      <4>1. CASE s = {}
        <5>1. Cardinality(s) <= n - 1
          <6>1. Cardinality(s) = 0
            BY <1>1, <4>1, Zenon
          <6> QED
            BY <2>n, <2>5, <6>1
        <5> QED
          BY <3>1, <4>1, <5>1
      <4>2. CASE s # {}
        <5>1. g[s \ {Chosen(s)}] = h[s \ {Chosen(s)}]
          BY <1>1, <2>n, <3>3, <4>2
        <5>2. CASE Cardinality(s) <= n - 1
          BY <3>1, <4>2, <5>1, <5>2
        <5>3. CASE ~(Cardinality(s) <= n - 1)
          BY <4>2, <5>1, <5>3
        <5> QED
          BY <5>2, <5>3
      <4> QED
        BY <4>1, <4>2
    <3>4. Upto(g, n)
      <4> HIDE DEF g
      <4> QED
        BY <3>2, <3>3
    <3> QED
      BY <2>2, <3>4
  <2> QED
    BY <2>2, <2>4, <2>5
<1>3. PICK g : Upto(g, Cardinality(S))
  <2>1. Cardinality(S) \in Nat
    BY FS_CardinalityType
  <2> QED
    BY <1>2, <2>1
<1>4. ASSUME NEW s \in SUBSET S PROVE Cardinality(s) <= Cardinality(S)
  BY FS_Subset
<1> QED
  BY <1>3, <1>4 DEF SumEq

LEMMA SumsUnique ==
  ASSUME NEW S, IsFiniteSet(S), NEW w, NEW g, NEW h, SumEq(g, w, S), SumEq(h, w, S)
  PROVE  \A s \in SUBSET S : g[s] = h[s]
<1> DEFINE B == {s \in SUBSET S : g[s] # h[s]}
<1> SUFFICES ASSUME B # {} PROVE FALSE
  OBVIOUS
<1>1. IsWellFoundedOn(StrictSubsetOrdering(S), SUBSET S)
  BY FS_StrictSubsetOrderingWellFounded, FS_FiniteSubsetsOfFinite
<1>2. PICK s \in B : \A r \in B : <<r, s>> \notin StrictSubsetOrdering(S)
  <2>1. B \subseteq SUBSET S /\ B # {}
    OBVIOUS
  <2> HIDE DEF B
  <2> QED
    BY <1>1, <2>1, WFMin, Zenon
<1>3. s # {} /\ s \in SUBSET S /\ g[s] # h[s]
  BY <1>2 DEF SumEq
<1>4. Chosen(s) \in s
  BY <1>3 DEF Chosen
<1>5. s \ {Chosen(s)} \notin B
  BY <1>2, <1>3, <1>4 DEF StrictSubsetOrdering
<1>6. g[s \ {Chosen(s)}] = h[s \ {Chosen(s)}]
  BY <1>3, <1>5
<1> QED
  BY <1>3, <1>6 DEF SumEq

\* What SumFunctionOnSet computes.
LEMMA SumIsSums ==
  ASSUME NEW S, IsFiniteSet(S), NEW w, \A x \in S : w[x] \in Nat
  PROVE  \E g \in [SUBSET S -> Nat] : SumEq(g, w, S) /\ SumFunctionOnSet(w, S) = g[S]
<1> DEFINE iter[s \in SUBSET S] ==
             IF s = {} THEN 0
             ELSE LET x == CHOOSE x \in s : TRUE IN w[x] + iter[s \ {x}]
<1>1. PICK g \in [SUBSET S -> Nat] : SumEq(g, w, S)
  BY SumsExist
<1>2. g = [s \in SUBSET S |->
             IF s = {} THEN 0 ELSE LET x == CHOOSE x \in s : TRUE IN w[x] + g[s \ {x}]]
  BY <1>1 DEF SumEq, Chosen
<1>3. iter = [s \in SUBSET S |->
             IF s = {} THEN 0 ELSE LET x == CHOOSE x \in s : TRUE IN w[x] + iter[s \ {x}]]
  BY <1>2, Zenon DEF iter
<1>4. SumFunctionOnSet(w, S) = iter[S]
  BY DEF SumFunctionOnSet, FoldFunctionOnSet, MapThenFoldSet, iter
<1> HIDE DEF iter
<1>5. SumEq(iter, w, S)
  <2> SUFFICES ASSUME NEW s \in SUBSET S
               PROVE  iter[s] = IF s = {} THEN 0 ELSE w[Chosen(s)] + iter[s \ {Chosen(s)}]
    BY DEF SumEq
  <2> QED
    BY <1>3 DEF Chosen
<1> QED
  BY <1>1, <1>4, <1>5, SumsUnique

LEMMA SumType ==
  ASSUME NEW S, IsFiniteSet(S), NEW w, \A x \in S : w[x] \in Nat
  PROVE  SumFunctionOnSet(w, S) \in Nat
<1>1. PICK g \in [SUBSET S -> Nat] : SumFunctionOnSet(w, S) = g[S]
  BY SumIsSums
<1> QED
  BY <1>1

LEMMA SumEmpty ==
  ASSUME NEW w
  PROVE  SumFunctionOnSet(w, {}) = 0
<1>1. PICK g \in [SUBSET {} -> Nat] : SumEq(g, w, {}) /\ SumFunctionOnSet(w, {}) = g[{}]
  BY FS_EmptySet, SumIsSums
<1> QED
  BY <1>1 DEF SumEq

\* Two sums over a set are equal if the summands are.
LEMMA SumFrame ==
  ASSUME NEW S, IsFiniteSet(S), NEW v, NEW w,
         \A x \in S : w[x] \in Nat /\ v[x] = w[x]
  PROVE  SumFunctionOnSet(v, S) = SumFunctionOnSet(w, S)
<1>1. PICK g \in [SUBSET S -> Nat] : SumEq(g, v, S) /\ SumFunctionOnSet(v, S) = g[S]
  BY SumIsSums
<1>2. PICK h \in [SUBSET S -> Nat] : SumEq(h, w, S) /\ SumFunctionOnSet(w, S) = h[S]
  BY SumIsSums
<1>3. SumEq(g, w, S)
  <2> SUFFICES ASSUME NEW s \in SUBSET S, s # {} PROVE v[Chosen(s)] = w[Chosen(s)]
    BY <1>1 DEF SumEq
  <2> QED
    BY DEF Chosen
<1> QED
  BY <1>1, <1>2, <1>3, SumsUnique

(***************************************************************************)
(* An element more adds its summand, whatever order the sum is taken in.   *)
(***************************************************************************)
LEMMA SumAdd ==
  ASSUME NEW S, IsFiniteSet(S), NEW w, \A x \in S : w[x] \in Nat, NEW x \in S
  PROVE  SumFunctionOnSet(w, S) = w[x] + SumFunctionOnSet(w, S \ {x})
<1>1. PICK g \in [SUBSET S -> Nat] : SumEq(g, w, S) /\ SumFunctionOnSet(w, S) = g[S]
  BY SumIsSums
<1>2. SumFunctionOnSet(w, S \ {x}) = g[S \ {x}]
  <2>1. IsFiniteSet(S \ {x})
    BY FS_RemoveElement
  <2>2. PICK h \in [SUBSET (S \ {x}) -> Nat] :
          SumEq(h, w, S \ {x}) /\ SumFunctionOnSet(w, S \ {x}) = h[S \ {x}]
    BY <2>1, SumIsSums
  <2>3. SumEq(g, w, S \ {x})
    BY <1>1 DEF SumEq
  <2> QED
    BY <2>1, <2>2, <2>3, SumsUnique
<1> DEFINE B == {s \in SUBSET S : \E y \in s : g[s] # w[y] + g[s \ {y}]}
<1>3. B = {}
  <2> SUFFICES ASSUME B # {} PROVE FALSE
    OBVIOUS
  <2>1. IsWellFoundedOn(StrictSubsetOrdering(S), SUBSET S)
    BY FS_StrictSubsetOrderingWellFounded, FS_FiniteSubsetsOfFinite
  <2>2. PICK s \in B : \A r \in B : <<r, s>> \notin StrictSubsetOrdering(S)
    <3>1. B \subseteq SUBSET S /\ B # {}
      OBVIOUS
    <3> HIDE DEF B
    <3> QED
      BY <2>1, <3>1, WFMin, Zenon
  <2>3. s \in SUBSET S
    BY <2>2
  <2>4. PICK y \in s : g[s] # w[y] + g[s \ {y}]
    BY <2>2
  <2>5. ASSUME NEW r \in SUBSET S, r \subseteq s, r # s, NEW z \in r
        PROVE  g[r] = w[z] + g[r \ {z}]
    BY <2>2, <2>3, <2>5 DEF StrictSubsetOrdering
  <2> HIDE DEF B
  <2> DEFINE c == Chosen(s)
  <2>6. c \in s
    BY <2>4 DEF Chosen
  <2>7. g[s] = w[c] + g[s \ {c}]
    BY <1>1, <2>3, <2>4 DEF SumEq
  <2>8. c # y
    BY <2>4, <2>7
  <2> HIDE DEF c
  <2>9. g[s \ {c}] = w[y] + g[(s \ {c}) \ {y}]
    BY <2>3, <2>4, <2>5, <2>6, <2>8
  <2>10. g[s \ {y}] = w[c] + g[(s \ {y}) \ {c}]
    BY <2>3, <2>4, <2>5, <2>6, <2>8
  <2>11. (s \ {c}) \ {y} = (s \ {y}) \ {c}
    OBVIOUS
  <2>12. w[c] \in Nat /\ w[y] \in Nat /\ g[(s \ {c}) \ {y}] \in Nat
    BY <1>1, <2>3, <2>4, <2>6
  <2>13. w[c] + (w[y] + g[(s \ {c}) \ {y}]) = w[y] + (w[c] + g[(s \ {c}) \ {y}])
    BY <2>12
  <2> QED
    BY <2>4, <2>7, <2>9, <2>10, <2>11, <2>13
<1>4. g[S] = w[x] + g[S \ {x}]
  BY <1>3
<1> QED
  BY <1>1, <1>2, <1>4

\* A larger set has no smaller sum.
LEMMA SumMonotonic ==
  ASSUME NEW S, IsFiniteSet(S), NEW w, \A x \in S : w[x] \in Nat, NEW T \in SUBSET S
  PROVE  SumFunctionOnSet(w, T) <= SumFunctionOnSet(w, S)
<1> DEFINE B == {s \in SUBSET S : T \subseteq s /\
                   ~(SumFunctionOnSet(w, T) <= SumFunctionOnSet(w, s))}
<1>1. IsWellFoundedOn(StrictSubsetOrdering(S), SUBSET S)
  BY FS_StrictSubsetOrderingWellFounded, FS_FiniteSubsetsOfFinite
<1> SUFFICES ASSUME B # {} PROVE FALSE
  OBVIOUS
<1>2. PICK s \in B : \A r \in B : <<r, s>> \notin StrictSubsetOrdering(S)
  <2>1. B \subseteq SUBSET S /\ B # {}
    OBVIOUS
  <2> HIDE DEF B
  <2> QED
    BY <1>1, <2>1, WFMin, Zenon
<1>3. /\ s \in SUBSET S /\ T \subseteq s
      /\ ~(SumFunctionOnSet(w, T) <= SumFunctionOnSet(w, s))
  BY <1>2
<1>4. IsFiniteSet(T) /\ IsFiniteSet(s) /\ SumFunctionOnSet(w, T) \in Nat
  <2>1. IsFiniteSet(T) /\ IsFiniteSet(s)
    BY <1>3, FS_Subset
  <2> QED
    BY <2>1, SumType
<1>5. PICK y \in s : y \notin T
  BY <1>3, <1>4
<1>6. SumFunctionOnSet(w, s) = w[y] + SumFunctionOnSet(w, s \ {y})
  BY <1>3, <1>4, SumAdd
<1>7. SumFunctionOnSet(w, s \ {y}) \in Nat
  <2>1. IsFiniteSet(s \ {y})
    BY <1>4, FS_RemoveElement
  <2> QED
    BY <1>3, <2>1, SumType
<1>8. s \ {y} \notin B
  BY <1>2, <1>3, <1>5 DEF StrictSubsetOrdering
<1>9. SumFunctionOnSet(w, T) <= SumFunctionOnSet(w, s \ {y})
  BY <1>3, <1>5, <1>8
<1>10. w[y] \in Nat
  BY <1>3
<1> QED
  BY <1>3, <1>4, <1>6, <1>7, <1>9, <1>10

\* One more element, of functions that agree on the others.
LEMMA SumOneMore ==
  ASSUME NEW S, IsFiniteSet(S), NEW x, x \notin S, NEW v, NEW u,
         \A y \in S \cup {x} : u[y] \in Nat, \A y \in S : v[y] = u[y]
  PROVE  SumFunctionOnSet(u, S \cup {x}) = SumFunctionOnSet(v, S) + u[x]
<1>1. IsFiniteSet(S \cup {x}) /\ (S \cup {x}) \ {x} = S
  BY FS_AddElement
<1>2. SumFunctionOnSet(u, S \cup {x}) = u[x] + SumFunctionOnSet(u, S)
  BY <1>1, SumAdd
<1>3. SumFunctionOnSet(v, S) = SumFunctionOnSet(u, S) /\ SumFunctionOnSet(u, S) \in Nat
  BY SumFrame, SumType
<1>4. u[x] \in Nat
  OBVIOUS
<1> QED
  BY <1>2, <1>3, <1>4

\* More elements, of functions that agree on the common ones.
LEMMA SumMore ==
  ASSUME NEW S, IsFiniteSet(S), NEW T \in SUBSET S, NEW v, NEW u,
         \A y \in S : u[y] \in Nat, \A y \in T : v[y] = u[y]
  PROVE  SumFunctionOnSet(v, T) <= SumFunctionOnSet(u, S)
<1>1. IsFiniteSet(T)
  BY FS_Subset
<1>2. SumFunctionOnSet(v, T) = SumFunctionOnSet(u, T)
  BY <1>1, SumFrame
<1> QED
  BY <1>2, SumMonotonic

\* The same for the bytes of records.
LEMMA BytesType ==
  ASSUME NEW S, IsFiniteSet(S), NEW d, \A y \in S : d[y] \in Entry
  PROVE  BytesOf(d, S) \in Nat
<1> DEFINE w == [l \in S |-> SizeOf(d[l])]
<1>1. \A y \in S : w[y] \in Nat
  BY SizeAssumption
<1> HIDE DEF w
<1>2. SumFunctionOnSet(w, S) \in Nat
  BY <1>1, SumType
<1> QED
  BY <1>2 DEF BytesOf, w

LEMMA BytesOneMore ==
  ASSUME NEW S, IsFiniteSet(S), NEW x, x \notin S, NEW d,
         \A y \in S \cup {x} : d[y] \in Entry
  PROVE  BytesOf(d, S \cup {x}) = BytesOf(d, S) + SizeOf(d[x])
<1> DEFINE v == [l \in S |-> SizeOf(d[l])]
           u == [l \in S \cup {x} |-> SizeOf(d[l])]
<1>1. /\ \A y \in S \cup {x} : u[y] \in Nat
      /\ \A y \in S : v[y] = u[y]
      /\ u[x] = SizeOf(d[x])
  <2>1. ASSUME NEW y \in S \cup {x} PROVE u[y] \in Nat
    <3>1. u[y] = SizeOf(d[y]) /\ d[y] \in Entry
      OBVIOUS
    <3> QED
      BY <3>1, SizeAssumption
  <2>2. ASSUME NEW y \in S PROVE v[y] = u[y]
    <3>1. y \in S \cup {x}
      OBVIOUS
    <3> QED
      BY <3>1
  <2>3. u[x] = SizeOf(d[x])
    OBVIOUS
  <2> HIDE DEF u, v
  <2> QED
    BY <2>1, <2>2, <2>3
<1> HIDE DEF v, u
<1>2. SumFunctionOnSet(u, S \cup {x}) = SumFunctionOnSet(v, S) + u[x]
  <2>1. (\A y \in S \cup {x} : u[y] \in Nat) /\ (\A y \in S : v[y] = u[y])
    BY <1>1
  <2> QED
    BY <2>1, SumOneMore
<1> QED
  BY <1>1, <1>2 DEF BytesOf, v, u

LEMMA BytesMore ==
  ASSUME NEW S, IsFiniteSet(S), NEW T \in SUBSET S, NEW c, NEW d,
         \A y \in S : d[y] \in Entry, \A y \in T : c[y] = d[y]
  PROVE  BytesOf(c, T) <= BytesOf(d, S)
<1> DEFINE v == [l \in T |-> SizeOf(c[l])]
           u == [l \in S |-> SizeOf(d[l])]
<1>1. \A y \in S : u[y] \in Nat
  BY SizeAssumption
<1>2. \A y \in T : v[y] = u[y]
  OBVIOUS
<1> HIDE DEF v, u
<1>3. SumFunctionOnSet(v, T) <= SumFunctionOnSet(u, S)
  BY <1>1, <1>2, SumMore
<1> QED
  BY <1>3 DEF BytesOf, v, u

\* A file has finitely many places, and so has the directory.
LEMMA OffsetsFinite == IsFiniteSet(Offset)
BY CapacityAssumption, FS_Interval DEF Offset

LEMMA LocationsFinite == IsFiniteSet(Location)
<1>1. IsFiniteSet(FileId \X Offset)
  <2>1. IsFiniteSet(FileId)
    BY MaxFileAssumption, FS_Interval DEF FileId
  <2> QED
    BY <2>1, OffsetsFinite, FS_Product
<1> DEFINE f == [p \in FileId \X Offset |-> [id |-> p[1], offset |-> p[2]]]
<1>2. f \in Surjection(FileId \X Offset, Location)
  <2>1. f \in [FileId \X Offset -> Location]
    BY DEF Location
  <2>2. ASSUME NEW l \in Location PROVE \E p \in FileId \X Offset : f[p] = l
    <3>1. <<l.id, l.offset>> \in FileId \X Offset /\ f[<<l.id, l.offset>>] = l
      BY DEF Location
    <3> QED
      BY <3>1
  <2> HIDE DEF f
  <2> QED
    BY <2>1, <2>2 DEF Surjection
<1> QED
  BY <1>1, <1>2, FS_Surjection
=============================================================================
