-------------------------- MODULE SegmentDBProofs ---------------------------
(***************************************************************************)
(* SegmentDB implements KVStore for every number of segments, every hash   *)
(* function and every number of threads, if the thread that compacts is    *)
(* the only one that writes: the value of a key is only ever read and      *)
(* written in the one segment that GetDB names, and while Compact moves a  *)
(* record its caller waits and nobody else changes it.                     *)
(***************************************************************************)
EXTENDS SegmentDB, FiniteSetTheorems, TLAPS

\* The part of the type invariant the refinement rests on.
RoutingInv ==
  /\ stores \in [Segments -> [Keys -> Values \cup {Empty}]]
  /\ req \in [Threads -> Request \cup {Idle}]
  /\ todo \in [Workers -> SUBSET Keys]
  /\ copy \in [Workers -> Copies \cup {NoCopy}]

\* GetDB names one of the segments (there is at least one).
LEMMA GetDBIsSegment ==
  ASSUME NEW k \in Keys
  PROVE  GetDB(k) \in Segments
<1>1. Hash[k] \in Nat /\ n \in Nat /\ n > 0
  BY SegAssumption
<1>2. Hash[k] % n \in 0 .. (n - 1)
  BY <1>1
<1> QED
  BY <1>2 DEF GetDB, Segments

\* An open request names a key, and a Put a value.
LEMMA RequestKey ==
  ASSUME RoutingInv, NEW t \in Threads, req[t] # Idle
  PROVE  /\ req[t].key \in Keys
         /\ req[t].value \in Values \cup {Empty}
<1>1. req[t] \in Request
  BY DEF RoutingInv
<1> QED
  BY <1>1 DEF Request

\* Writing a key in its segment is writing it in the whole store.
LEMMA StoreInWhole ==
  ASSUME RoutingInv, NEW k \in Keys, NEW v, StoreIn(GetDB(k), k, v)
  PROVE  WholeStore' = [WholeStore EXCEPT ![k] = v]
<1>1. \A x \in Keys : GetDB(x) \in Segments
  BY GetDBIsSegment
<1>2. stores' = [stores EXCEPT ![GetDB(k)] = [stores[GetDB(k)] EXCEPT ![k] = v]]
  BY DEF StoreIn
<1>3. WholeStore' = [x \in Keys |-> stores'[GetDB(x)][x]]
  BY DEF WholeStore, GetDB
<1>4. ASSUME NEW x \in Keys
      PROVE  stores'[GetDB(x)][x] = IF x = k THEN v ELSE stores[GetDB(x)][x]
  <2>1. CASE GetDB(x) = GetDB(k)
    <3>1. stores'[GetDB(x)] = [stores[GetDB(k)] EXCEPT ![k] = v]
      BY <1>1, <1>2, <2>1 DEF RoutingInv
    <3>2. stores[GetDB(k)] \in [Keys -> Values \cup {Empty}]
      BY <1>1 DEF RoutingInv
    <3> QED
      BY <2>1, <3>1, <3>2
  <2>2. CASE GetDB(x) # GetDB(k)
    <3>1. stores'[GetDB(x)] = stores[GetDB(x)]
      BY <1>1, <1>2, <2>2 DEF RoutingInv
    <3> QED
      BY <2>2, <3>1
  <2> QED
    BY <2>1, <2>2
<1>5. [WholeStore EXCEPT ![k] = v]
        = [x \in Keys |-> IF x = k THEN v ELSE stores[GetDB(x)][x]]
  BY DEF WholeStore
<1> QED
  BY <1>3, <1>4, <1>5

\* A step that leaves the segments alone leaves the store alone.
LEMMA SameWhole ==
  ASSUME stores' = stores
  PROVE  WholeStore' = WholeStore
BY DEF WholeStore, GetDB

\* What the store holds for a key.
LEMMA WholeAt ==
  ASSUME NEW k \in Keys
  PROVE  WholeStore[k] = stores[GetDB(k)][k]
BY DEF WholeStore

\* The values written are values, whichever segment they go to.
LEMMA StoreInType ==
  ASSUME RoutingInv, NEW k \in Keys, NEW v \in Values \cup {Empty},
         StoreIn(GetDB(k), k, v)
  PROVE  stores' \in [Segments -> [Keys -> Values \cup {Empty}]]
<1>1. GetDB(k) \in Segments
  BY GetDBIsSegment
<1>2. [stores[GetDB(k)] EXCEPT ![k] = v] \in [Keys -> Values \cup {Empty}]
  BY <1>1 DEF RoutingInv
<1> QED
  BY <1>1, <1>2 DEF RoutingInv, StoreIn

-----------------------------------------------------------------------------
(***************************************************************************)
(* The latch.  Its count is the number of segments the call has still to   *)
(* see through: those not scheduled yet and those whose task is in the     *)
(* executor's queue or with a worker.                                      *)
(***************************************************************************)
QueuedFor(t, s) ==
  \E j \in DOMAIN queue : queue[j].caller = t /\ queue[j].segment = s

RunningFor(t, s) ==
  \E w \in Workers :
    running[w] # NoTask /\ running[w].caller = t /\ running[w].segment = s

Unfinished(t) ==
  {s \in Segments : next[t] <= s \/ QueuedFor(t, s) \/ RunningFor(t, s)}

SameTask(a, b) == a.caller = b.caller /\ a.segment = b.segment

\* A segment has at most one task for a call.
TasksDistinct ==
  /\ \A i, j \in DOMAIN queue : SameTask(queue[i], queue[j]) => i = j
  /\ \A v, w \in Workers :
       running[v] # NoTask /\ running[w] # NoTask /\ SameTask(running[v], running[w])
         => v = w
  /\ \A i \in DOMAIN queue, w \in Workers :
       running[w] # NoTask => ~SameTask(queue[i], running[w])

\* A task belongs to a call that is open and has scheduled its segment; it is
\* not done before a worker has it.
TaskOpen(a) == op[a.caller] # Idle /\ a.segment < next[a.caller]

TasksOpen ==
  /\ \A i \in DOMAIN queue : TaskOpen(queue[i]) /\ ~queue[i].done
  /\ \A w \in Workers : running[w] # NoTask => TaskOpen(running[w])

LatchCounts ==
  \A t \in Threads :
    IF op[t] = Idle THEN latch[t] = 0 /\ next[t] = 0
                    ELSE latch[t] = Cardinality(Unfinished(t))

\* What is not unfinished has run, and so has a task that is done.
FinishedRan ==
  /\ \A t \in Threads : op[t] # Idle => Segments \ Unfinished(t) \subseteq ran[t]
  /\ \A w \in Workers :
       running[w] # NoTask /\ running[w].done
         => running[w].segment \in ran[running[w].caller]

\* The part of the type invariant that RoutingInv leaves out.
CallType ==
  /\ db \in {"none", "open", "failed"}
  /\ state \in [Segments -> {"created", "ready", "failed"}]
  /\ queue \in Seq(Tasks)
  /\ running \in [Workers -> Tasks \cup {NoTask}]
  /\ op \in [Threads -> {"Init", "Compact", "Flush", Idle}]
  /\ next \in [Threads -> 0 .. n]
  /\ latch \in [Threads -> 0 .. n]
  /\ ran \in [Threads -> SUBSET Segments]

LatchInv ==
  CallType /\ TasksDistinct /\ TasksOpen /\ LatchCounts /\ FinishedRan

\* There are at most n unfinished segments.
LEMMA UnfinishedFinite ==
  ASSUME NEW t
  PROVE  /\ IsFiniteSet(Unfinished(t))
         /\ Cardinality(Unfinished(t)) \in 0 .. n
         /\ Cardinality(Unfinished(t)) = 0 <=> Unfinished(t) = {}
<1>1. n \in Nat /\ n > 0
  BY SegAssumption
<1>2. IsFiniteSet(Segments) /\ Cardinality(Segments) = n
  BY <1>1, FS_Interval DEF Segments
<1>3. Unfinished(t) \in SUBSET Segments
  BY DEF Unfinished
<1>4. IsFiniteSet(Unfinished(t)) /\ Cardinality(Unfinished(t)) <= n
  BY <1>2, <1>3, FS_Subset
<1>5. Cardinality(Unfinished(t)) \in Nat
  BY <1>4, FS_CardinalityType
<1> QED
  BY <1>1, <1>4, <1>5, FS_EmptySet

\* A call that has scheduled nothing has all n segments before it.
LEMMA AllUnfinished ==
  ASSUME NEW t, next[t] = 0
  PROVE  Unfinished(t) = Segments /\ Cardinality(Unfinished(t)) = n
<1>1. n \in Nat /\ n > 0
  BY SegAssumption
<1>2. Unfinished(t) = Segments
  BY <1>1 DEF Unfinished, Segments
<1> QED
  BY <1>1, <1>2, FS_Interval DEF Segments

\* Opening the database: all segments are before Open, and no task exists.
LEMMA LatchInitially == SegInit => LatchInv
<1> SUFFICES ASSUME SegInit
             PROVE  LatchInv
  OBVIOUS
<1>1. n \in Nat /\ n > 0
  BY SegAssumption
<1>2. \A t \in Threads : Unfinished(t) = Segments /\ Cardinality(Unfinished(t)) = n
  BY AllUnfinished DEF SegInit
<1>3. CallType
  BY <1>1 DEF SegInit, CallType, Segments
<1>4. TasksDistinct /\ TasksOpen
  BY DEF SegInit, TasksDistinct, TasksOpen
<1>5. LatchCounts
  BY <1>1, <1>2, SegAssumption DEF SegInit, LatchCounts
<1>6. FinishedRan
  BY <1>2 DEF SegInit, FinishedRan
<1> QED
  BY <1>3, <1>4, <1>5, <1>6 DEF LatchInv

\* Call makes a latch of n before it schedules the first segment.
LEMMA LatchCall ==
  ASSUME LatchInv, NEW t \in Threads, Call(t)
  PROVE  LatchInv'
<1> USE DEF LatchInv, Call, poolvars, kvvars
<1>1. n \in Nat /\ n > 0
  BY SegAssumption
<1>2. CallType'
  BY <1>1 DEF CallType
<1>3. next[t] = 0
  BY DEF LatchCounts
<1>4. \A u : Unfinished(u)' = Unfinished(u)
  BY DEF Unfinished, QueuedFor, RunningFor
<1>5. Unfinished(t) = Segments /\ Cardinality(Unfinished(t)) = n
  BY <1>3, AllUnfinished
<1>6. op'[t] # Idle /\ \A u \in Threads : u # t => op'[u] = op[u]
  BY SegAssumption DEF CallType
<1>7. TasksDistinct'
  BY DEF TasksDistinct, SameTask
<1>8. TasksOpen'
  <2>1. ASSUME NEW a \in Tasks, TaskOpen(a)
        PROVE  TaskOpen(a)'
    BY <1>6, <2>1 DEF TaskOpen, Tasks
  <2>2. /\ \A i \in DOMAIN queue : queue[i] \in Tasks
        /\ \A w \in Workers : running[w] # NoTask => running[w] \in Tasks
    BY DEF CallType
  <2> QED
    BY <2>1, <2>2 DEF TasksOpen
<1>9. LatchCounts'
  BY <1>4, <1>5, <1>6 DEF LatchCounts, CallType
<1>10. FinishedRan'
  BY <1>4, <1>5, <1>6 DEF FinishedRan
<1> QED
  BY <1>2, <1>7, <1>8, <1>9, <1>10

\* The tasks of the executor are tasks.
LEMMA TaskTypes ==
  ASSUME CallType
  PROVE  /\ \A i \in DOMAIN queue : queue[i] \in Tasks
         /\ \A w \in Workers : running[w] # NoTask => running[w] \in Tasks
BY DEF CallType

\* The segment that Schedule hands over was unfinished before and is after.
LEMMA LatchSchedule ==
  ASSUME LatchInv, NEW t \in Threads, Schedule(t)
  PROVE  LatchInv'
<1> USE DEF LatchInv, Schedule, kvvars
<1> DEFINE a == [caller |-> t, segment |-> next[t], done |-> FALSE]
           m == Len(queue) + 1
<1>1. n \in Nat /\ n > 0
  BY SegAssumption
<1>2. next[t] \in Segments /\ next[t] + 1 \in 0 .. n
  BY <1>1 DEF CallType, Segments
<1>3. a \in Tasks
  BY <1>2 DEF Tasks
<1>4. CallType'
  BY <1>2, <1>3 DEF CallType
<1>5. /\ DOMAIN queue = 1 .. Len(queue) /\ Len(queue) \in Nat
      /\ DOMAIN queue' = 1 .. m
      /\ queue'[m] = a
      /\ \A i \in DOMAIN queue : queue'[i] = queue[i]
  BY <1>3 DEF CallType
<1>6. \A b \in Tasks : SameTask(a, b) => ~TaskOpen(b)
  BY <1>2 DEF SameTask, TaskOpen, Tasks, Segments
<1>7. TasksDistinct'
  <2>1. ASSUME NEW i \in DOMAIN queue', NEW j \in DOMAIN queue', SameTask(queue'[i], queue'[j])
        PROVE  i = j
    <3>1. CASE i \in DOMAIN queue /\ j \in DOMAIN queue
      BY <1>5, <2>1, <3>1 DEF TasksDistinct
    <3>2. CASE i = m /\ j = m
      BY <3>2
    <3>3. CASE i = m /\ j \in DOMAIN queue
      BY <1>5, <1>6, <2>1, <3>3, TaskTypes DEF TasksOpen
    <3>4. CASE j = m /\ i \in DOMAIN queue
      <4>1. SameTask(a, queue[i])
        BY <1>5, <2>1, <3>4 DEF SameTask
      <4> QED
        BY <1>6, <3>4, <4>1, TaskTypes DEF TasksOpen
    <3> QED
      BY <1>5, <3>1, <3>2, <3>3, <3>4
  <2>2. ASSUME NEW i \in DOMAIN queue', NEW w \in Workers, running[w] # NoTask
        PROVE  ~SameTask(queue'[i], running[w])
    <3>1. CASE i \in DOMAIN queue
      BY <1>5, <2>2, <3>1 DEF TasksDistinct
    <3>2. CASE i = m
      BY <1>5, <1>6, <2>2, <3>2, TaskTypes DEF TasksOpen
    <3> QED
      BY <1>5, <3>1, <3>2
  <2> QED
    BY <2>1, <2>2 DEF TasksDistinct
<1>8. TasksOpen'
  <2>1. ASSUME NEW b \in Tasks, TaskOpen(b)
        PROVE  TaskOpen(b)'
    BY <1>2, <2>1 DEF TaskOpen, Tasks, CallType, Segments
  <2>2. op'[t] # Idle /\ next[t] < next'[t]
    BY <1>2 DEF CallType, Segments
  <2>3. \A i \in DOMAIN queue' : i = m => TaskOpen(queue[i])' /\ ~queue'[i].done
    BY <1>5, <2>2 DEF TaskOpen
  <2>4. \A i \in DOMAIN queue : TaskOpen(queue[i])' /\ ~queue'[i].done
    BY <1>5, <2>1, TaskTypes DEF TasksOpen, TaskOpen
  <2>5. \A w \in Workers : running'[w] # NoTask => TaskOpen(running[w])'
    BY <2>1, TaskTypes DEF TasksOpen, TaskOpen
  <2>6. \A i \in DOMAIN queue' : TaskOpen(queue[i])' /\ ~queue'[i].done
    <3>1. \A i \in DOMAIN queue' : i = m \/ i \in DOMAIN queue
      BY <1>5
    <3> QED
      BY <2>3, <2>4, <3>1 DEF TaskOpen
  <2> QED
    BY <2>5, <2>6 DEF TasksOpen
<1>9. ASSUME NEW u \in Threads
      PROVE  Unfinished(u)' = Unfinished(u)
  <2> SUFFICES ASSUME NEW s \in Segments
               PROVE  s \in Unfinished(u)' <=> s \in Unfinished(u)
    BY DEF Unfinished
  <2>1. RunningFor(u, s)' <=> RunningFor(u, s)
    BY DEF RunningFor
  <2>2. QueuedFor(u, s)' <=> QueuedFor(u, s) \/ (u = t /\ s = next[t])
    BY <1>5 DEF QueuedFor
  <2>3. next'[u] <= s <=> next[u] <= s /\ ~(u = t /\ s = next[t])
    BY <1>2 DEF CallType, Segments
  <2> QED
    BY <1>2, <2>1, <2>2, <2>3 DEF Unfinished, Segments
<1>10. LatchCounts'
  BY <1>9 DEF LatchCounts, CallType
<1>11. FinishedRan'
  BY <1>9 DEF FinishedRan
<1> QED
  BY <1>4, <1>7, <1>8, <1>10, <1>11

\* A task that a worker takes stays the one task of its segment.
LEMMA LatchTake ==
  ASSUME LatchInv, NEW w \in Workers, Take(w)
  PROVE  LatchInv'
<1> USE DEF LatchInv, Take, callvars, kvvars
<1>1. /\ DOMAIN queue = 1 .. Len(queue) /\ Len(queue) \in Nat \ {0}
      /\ DOMAIN queue' = 1 .. (Len(queue) - 1)
      /\ queue[1] \in Tasks /\ running'[w] = queue[1]
      /\ \A i \in DOMAIN queue' : queue'[i] = queue[i + 1]
  BY DEF CallType
<1>2. running'[w] # NoTask
  BY <1>1, SegAssumption DEF Tasks, Segments
<1>3. \A v \in Workers : v # w => running'[v] = running[v]
  BY DEF CallType
<1>4. CallType'
  BY <1>1 DEF CallType
<1>5. \A i \in DOMAIN queue' : i + 1 \in DOMAIN queue /\ i + 1 # 1
  BY <1>1
<1>6. TasksDistinct'
  <2>1. ASSUME NEW i \in DOMAIN queue', NEW j \in DOMAIN queue', SameTask(queue'[i], queue'[j])
        PROVE  i = j
    BY <1>1, <1>5, <2>1 DEF TasksDistinct
  <2>2. ASSUME NEW u \in Workers, NEW v \in Workers, running'[u] # NoTask,
               running'[v] # NoTask, SameTask(running'[u], running'[v])
        PROVE  u = v
    <3>1. CASE u # w /\ v # w
      BY <1>3, <2>2, <3>1 DEF TasksDistinct
    <3>2. CASE u = w /\ v # w
      BY <1>1, <1>3, <2>2, <3>2 DEF TasksDistinct
    <3>3. CASE u # w /\ v = w
      BY <1>1, <1>3, <2>2, <3>3 DEF TasksDistinct, SameTask
    <3> QED
      BY <3>1, <3>2, <3>3
  <2>3. ASSUME NEW i \in DOMAIN queue', NEW v \in Workers, running'[v] # NoTask
        PROVE  ~SameTask(queue'[i], running'[v])
    <3>1. CASE v # w
      BY <1>1, <1>3, <1>5, <2>3, <3>1 DEF TasksDistinct
    <3>2. CASE v = w
      BY <1>1, <1>5, <3>2 DEF TasksDistinct
    <3> QED
      BY <3>1, <3>2
  <2> QED
    BY <2>1, <2>2, <2>3 DEF TasksDistinct
<1>7. TasksOpen'
  BY <1>1, <1>3, <1>5 DEF TasksOpen, TaskOpen
<1>8. ASSUME NEW u \in Threads
      PROVE  Unfinished(u)' = Unfinished(u)
  <2> SUFFICES ASSUME NEW s \in Segments
               PROVE  QueuedFor(u, s)' \/ RunningFor(u, s)' <=> QueuedFor(u, s) \/ RunningFor(u, s)
    BY DEF Unfinished
  <2>1. ASSUME NEW j \in DOMAIN queue, queue[j].caller = u, queue[j].segment = s
        PROVE  QueuedFor(u, s)' \/ RunningFor(u, s)'
    <3>1. CASE j = 1
      BY <1>1, <1>2, <2>1, <3>1 DEF RunningFor
    <3>2. CASE j # 1
      <4>1. j - 1 \in DOMAIN queue' /\ queue'[j - 1] = queue[j]
        BY <1>1, <3>2
      <4> QED
        BY <2>1, <4>1 DEF QueuedFor
    <3> QED
      BY <3>1, <3>2
  <2>2. RunningFor(u, s) => RunningFor(u, s)'
    BY <1>3 DEF RunningFor
  <2>3. QueuedFor(u, s)' => QueuedFor(u, s)
    BY <1>1, <1>5 DEF QueuedFor
  <2>4. RunningFor(u, s)' => QueuedFor(u, s) \/ RunningFor(u, s)
    BY <1>1, <1>3 DEF RunningFor, QueuedFor
  <2> QED
    BY <2>1, <2>2, <2>3, <2>4 DEF QueuedFor
<1>9. LatchCounts'
  BY <1>8 DEF LatchCounts
<1>10. FinishedRan'
  BY <1>1, <1>3, <1>8 DEF FinishedRan, TasksOpen
<1> QED
  BY <1>4, <1>6, <1>7, <1>9, <1>10

\* A task that has done its work has run, and stays where it is.
LEMMA LatchWork ==
  ASSUME LatchInv, NEW w \in Workers, Work(w)
  PROVE  LatchInv'
<1> USE DEF LatchInv, Work, Runs, kvvars
<1> DEFINE t == running[w].caller
           i == running[w].segment
<1>1. running[w] \in Tasks /\ t \in Threads /\ i \in Segments
  BY TaskTypes DEF Tasks
<1>2. /\ running' = [running EXCEPT ![w] = [caller |-> t, segment |-> i, done |-> TRUE]]
      /\ ran' = [ran EXCEPT ![t] = ran[t] \cup {i}]
      /\ UNCHANGED <<queue, op, next, latch, db>>
  OBVIOUS
<1>3. /\ running'[w].caller = t /\ running'[w].segment = i
      /\ running'[w] \in Tasks /\ running'[w] # NoTask
      /\ \A v \in Workers : v # w => running'[v] = running[v]
  <2>1. running'[w] = [caller |-> t, segment |-> i, done |-> TRUE]
    BY <1>2 DEF CallType
  <2>2. [caller |-> t, segment |-> i, done |-> TRUE] \in Tasks
    BY <1>1 DEF Tasks
  <2>3. NoTask \notin Tasks
    BY SegAssumption DEF Tasks, Segments
  <2>4. \A v \in Workers : v # w => running'[v] = running[v]
    BY <1>2 DEF CallType
  <2>5. running'[w].caller = t /\ running'[w].segment = i
    BY <2>1
  <2>6. running'[w] \in Tasks /\ running'[w] # NoTask
    BY <2>1, <2>2, <2>3
  <2> QED
    BY <2>4, <2>5, <2>6
<1>4. CallType'
  <2>1. state' \in [Segments -> {"created", "ready", "failed"}]
    BY <1>1 DEF CallType
  <2> QED
    BY <1>1, <1>2, <1>3, <2>1 DEF CallType
<1>5. \A v \in Workers :
        /\ running'[v] # NoTask <=> running[v] # NoTask
        /\ running[v] # NoTask
             => running'[v].caller = running[v].caller /\ running'[v].segment = running[v].segment
  BY <1>3
<1>6. TasksDistinct'
  BY <1>2, <1>5 DEF TasksDistinct, SameTask
<1>7. TasksOpen'
  BY <1>2, <1>5 DEF TasksOpen, TaskOpen
<1>8. \A u : Unfinished(u)' = Unfinished(u)
  BY <1>2, <1>5 DEF Unfinished, QueuedFor, RunningFor
<1>9. LatchCounts'
  BY <1>2, <1>8 DEF LatchCounts
<1>10. /\ i \in ran'[t]
       /\ \A u \in Threads : ran[u] \subseteq ran'[u]
  BY <1>1, <1>2 DEF CallType
<1>11. FinishedRan'
  <2>1. ASSUME NEW v \in Workers, running'[v] # NoTask, running'[v].done
        PROVE  running'[v].segment \in ran'[running'[v].caller]
    <3>1. CASE v = w
      BY <1>3, <1>10, <3>1
    <3>2. CASE v # w
      <4>1. running[v] \in Tasks /\ running[v].segment \in ran[running[v].caller]
        BY <1>3, <2>1, <3>2, TaskTypes DEF FinishedRan
      <4> QED
        BY <1>3, <1>10, <3>2, <4>1 DEF Tasks
    <3> QED
      BY <3>1, <3>2
  <2>2. \A u \in Threads : op'[u] # Idle => Segments \ Unfinished(u)' \subseteq ran'[u]
    BY <1>2, <1>8, <1>10 DEF FinishedRan
  <2> QED
    BY <2>1, <2>2 DEF FinishedRan
<1> QED
  BY <1>4, <1>6, <1>7, <1>9, <1>11

\* CountDown takes one segment off the unfinished ones and one off the latch.
LEMMA LatchCountDown ==
  ASSUME LatchInv, NEW w \in Workers, CountDown(w)
  PROVE  LatchInv'
<1> USE DEF LatchInv, CountDown, kvvars
<1> DEFINE t == running[w].caller
           i == running[w].segment
<1>1. running[w] \in Tasks /\ t \in Threads /\ i \in Segments
  BY TaskTypes DEF Tasks
<1>2. /\ latch' = [latch EXCEPT ![t] = latch[t] - 1]
      /\ running' = [running EXCEPT ![w] = NoTask]
      /\ UNCHANGED <<queue, op, next, ran, db, state>>
  OBVIOUS
<1>3. /\ running'[w] = NoTask
      /\ \A v \in Workers : v # w => running'[v] = running[v]
  BY <1>2 DEF CallType
<1>4. TaskOpen(running[w])
  BY DEF TasksOpen
<1>5. i \in Unfinished(t)
  BY <1>1 DEF Unfinished, RunningFor
<1>6. \A u \in Threads : u # t => Unfinished(u)' = Unfinished(u)
  <2> SUFFICES ASSUME NEW u \in Threads, u # t, NEW s \in Segments
               PROVE  RunningFor(u, s)' <=> RunningFor(u, s)
    BY <1>2 DEF Unfinished, QueuedFor
  <2> QED
    BY <1>3 DEF RunningFor
<1>7. {s \in Segments : next'[t] <= s \/ (\E j \in DOMAIN queue' : queue'[j].caller = t /\ queue'[j].segment = s)
          \/ (\E v \in Workers : running'[v] # NoTask /\ running'[v].caller = t /\ running'[v].segment = s)}
        = Unfinished(t) \ {i}
  <2> SUFFICES ASSUME NEW s \in Segments
               PROVE  \/ next[t] <= s
                      \/ \E j \in DOMAIN queue : queue[j].caller = t /\ queue[j].segment = s
                      \/ \E v \in Workers : running'[v] # NoTask /\ running'[v].caller = t /\ running'[v].segment = s
                      <=> s \in Unfinished(t) /\ s # i
    BY <1>2 DEF Unfinished
  <2>1. CASE s # i
    BY <1>3, <2>1 DEF Unfinished, QueuedFor, RunningFor
  <2>2. CASE s = i
    <3>1. ~(next[t] <= s)
      BY <1>1, <1>4, <2>2 DEF TaskOpen, CallType, Segments
    <3>2. ~(\E j \in DOMAIN queue : queue[j].caller = t /\ queue[j].segment = s)
      BY <2>2 DEF TasksDistinct, SameTask
    <3>3. ~(\E v \in Workers : running'[v] # NoTask /\ running'[v].caller = t /\ running'[v].segment = s)
      BY <1>3, <2>2 DEF TasksDistinct, SameTask
    <3> QED
      BY <2>2, <3>1, <3>2, <3>3
  <2> QED
    BY <2>1, <2>2
<1>8. \A u \in Threads : u = t => Unfinished(u)' = Unfinished(u) \ {i}
  BY <1>7 DEF Unfinished, QueuedFor, RunningFor
<1>9. /\ latch[t] = Cardinality(Unfinished(t)) /\ latch[t] \in 0 .. n
      /\ latch[t] # 0
      /\ Cardinality(Unfinished(t) \ {i}) = latch[t] - 1
  <2>1. latch[t] = Cardinality(Unfinished(t)) /\ latch[t] \in 0 .. n
    BY <1>1, <1>4 DEF LatchCounts, TaskOpen, CallType
  <2>2. IsFiniteSet(Unfinished(t)) /\ latch[t] # 0
    BY <1>5, <2>1, UnfinishedFinite
  <2>3. Cardinality(Unfinished(t) \ {i}) = Cardinality(Unfinished(t)) - 1
    BY <1>5, <2>2, FS_RemoveElement
  <2> QED
    BY <2>1, <2>2, <2>3
<1>10. CallType'
  <2>1. n \in Nat
    BY SegAssumption
  <2>2. latch[t] - 1 \in 0 .. n
    BY <1>9, <2>1
  <2> QED
    BY <1>1, <1>2, <2>2 DEF CallType
<1>11. TasksDistinct'
  BY <1>2, <1>3 DEF TasksDistinct
<1>12. TasksOpen'
  BY <1>2, <1>3 DEF TasksOpen, TaskOpen
<1>13. LatchCounts'
  <2> SUFFICES ASSUME NEW u \in Threads
               PROVE  IF op'[u] = Idle THEN latch'[u] = 0 /\ next'[u] = 0
                                       ELSE latch'[u] = Cardinality(Unfinished(u)')
    BY DEF LatchCounts
  <2>1. CASE u = t
    <3>1. latch'[u] = latch[t] - 1 /\ op'[u] # Idle
      BY <1>1, <1>2, <1>4, <2>1 DEF CallType, TaskOpen
    <3> QED
      BY <1>8, <1>9, <2>1, <3>1
  <2>2. CASE u # t
    BY <1>1, <1>2, <1>6, <2>2 DEF CallType, LatchCounts
  <2> QED
    BY <2>1, <2>2
<1>14. FinishedRan'
  <2>1. \A v \in Workers : running'[v] # NoTask /\ running'[v].done
          => running'[v].segment \in ran'[running'[v].caller]
    BY <1>2, <1>3 DEF FinishedRan
  <2>2. i \in ran[t]
    BY DEF FinishedRan
  <2>3. ASSUME NEW u \in Threads, op'[u] # Idle
        PROVE  Segments \ Unfinished(u)' \subseteq ran'[u]
    <3>1. Segments \ Unfinished(u) \subseteq ran[u]
      BY <1>2, <2>3 DEF FinishedRan
    <3>2. CASE u = t
      BY <1>2, <1>8, <2>2, <3>1, <3>2
    <3>3. CASE u # t
      BY <1>2, <1>6, <3>1, <3>3
    <3> QED
      BY <3>2, <3>3
  <2> QED
    BY <2>1, <2>3 DEF FinishedRan
<1> QED
  BY <1>10, <1>11, <1>12, <1>13, <1>14

\* A call returns when it has no task left, and leaves its latch at zero.
LEMMA LatchReturn ==
  ASSUME LatchInv, NEW t \in Threads, CallReturn(t)
  PROVE  LatchInv'
<1> USE DEF LatchInv, CallReturn, Awaited, kvvars, poolvars
<1>1. n \in Nat /\ n > 0
  BY SegAssumption
<1>2. Unfinished(t) = {}
  BY UnfinishedFinite DEF LatchCounts
<1>3. /\ \A j \in DOMAIN queue : queue[j] \in Tasks /\ queue[j].caller # t
      /\ \A w \in Workers : running[w] # NoTask => running[w] \in Tasks /\ running[w].caller # t
  BY <1>2, TaskTypes DEF Unfinished, QueuedFor, RunningFor, Tasks
<1>4. /\ op'[t] = Idle /\ next'[t] = 0 /\ ran'[t] = {} /\ latch'[t] = 0
      /\ \A u \in Threads : u # t =>
           op'[u] = op[u] /\ next'[u] = next[u] /\ ran'[u] = ran[u] /\ latch'[u] = latch[u]
  BY DEF CallType
<1>5. CallType'
  BY <1>1 DEF CallType
<1>6. TasksDistinct'
  BY DEF TasksDistinct, SameTask
<1>7. TasksOpen'
  BY <1>3, <1>4 DEF TasksOpen, TaskOpen, Tasks
<1>8. \A u \in Threads : u # t => Unfinished(u)' = Unfinished(u)
  BY <1>4 DEF Unfinished, QueuedFor, RunningFor
<1>9. LatchCounts'
  BY <1>4, <1>8 DEF LatchCounts
<1>10. FinishedRan'
  BY <1>3, <1>4, <1>8 DEF FinishedRan, Tasks
<1> QED
  BY <1>5, <1>6, <1>7, <1>9, <1>10

\* The clients' Put, Delete and Get are no business of the latches.
LEMMA LatchStutter ==
  ASSUME LatchInv, UNCHANGED <<db, state, poolvars, callvars>>
  PROVE  LatchInv'
<1> USE DEF LatchInv, poolvars, callvars
<1>1. CallType' /\ TasksDistinct' /\ TasksOpen'
  BY DEF CallType, TasksDistinct, SameTask, TasksOpen, TaskOpen
<1>2. \A u : Unfinished(u)' = Unfinished(u)
  BY DEF Unfinished, QueuedFor, RunningFor
<1>3. LatchCounts' /\ FinishedRan'
  BY <1>2 DEF LatchCounts, FinishedRan
<1> QED
  BY <1>1, <1>3

(***************************************************************************)
(* Whatever the number of workers and of callers that share them, a latch  *)
(* counts the unfinished segments of its call, each of which has at most   *)
(* one task.                                                               *)
(***************************************************************************)
THEOREM LatchInvariance == SegSpec => []LatchInv
<1>1. LatchInv /\ [SegNext]_segvars => LatchInv'
  <2> SUFFICES ASSUME LatchInv, [SegNext]_segvars
               PROVE  LatchInv'
    OBVIOUS
  <2>1. ASSUME NEW t \in Threads, SegStep(t)
        PROVE  LatchInv'
    <3>1. \/ Call(t) \/ Schedule(t) \/ CallReturn(t)
          \/ UNCHANGED <<db, state, poolvars, callvars>>
      BY <2>1 DEF SegStep, Invoke, Put, Delete, Get, WriteFails, GetFails, Respond
    <3> QED
      BY <3>1, LatchCall, LatchSchedule, LatchReturn, LatchStutter
  <2>2. ASSUME NEW w \in Workers, WorkerStep(w)
        PROVE  LatchInv'
    <3>1. MoveRead(w) \/ MoveIndex(w) => UNCHANGED <<db, state, poolvars, callvars>>
      BY DEF MoveRead, MoveIndex
    <3> QED
      BY <2>2, <3>1, LatchTake, LatchWork, LatchCountDown, LatchStutter DEF WorkerStep
  <2>3. CASE SegTerminating \/ UNCHANGED segvars
    BY <2>3, LatchStutter DEF SegTerminating, segvars
  <2> QED
    BY <2>1, <2>2, <2>3 DEF SegNext
<1> QED
  BY <1>1, LatchInitially, PTL DEF SegSpec

-----------------------------------------------------------------------------
(***************************************************************************)
(* What Compact moves.  A copy belongs to a task of Compact that is not    *)
(* done.  A thread performs what Ops allows it, one call at a time.        *)
(***************************************************************************)
CallersInv ==
  \A t \in Threads :
    /\ op[t] \in Ops[t] \cup {"Init", Idle}
    /\ req[t] # Idle => req[t].op \in Ops[t] /\ op[t] = Idle

CopiesInv ==
  \A w \in Workers : copy[w] # NoCopy => Runs(w, "Compact")

\* What Compact has read is still what the segment holds.
CopyIsCurrent ==
  \A w \in Workers : copy[w] # NoCopy =>
    stores[running[w].segment][copy[w].key] = copy[w].value

MoveInv == RoutingInv /\ LatchInv /\ CallersInv /\ CopiesInv

LEMMA MoveInitially == SegInit => MoveInv
<1> SUFFICES ASSUME SegInit PROVE MoveInv
  OBVIOUS
<1>1. RoutingInv
  BY DEF SegInit, RoutingInv
<1>2. CallersInv /\ CopiesInv
  BY DEF SegInit, CallersInv, CopiesInv
<1> QED
  BY <1>1, <1>2, LatchInitially DEF MoveInv

\* A client's step: requests are what Ops allows, and stores stay maps.
LEMMA MoveClient ==
  ASSUME MoveInv, LatchInv', NEW t \in Threads,
         Invoke(t) \/ Put(t) \/ Delete(t) \/ Get(t)
           \/ WriteFails(t) \/ GetFails(t) \/ Respond(t)
  PROVE  MoveInv'
<1>0. RoutingInv /\ CallersInv /\ CopiesInv
  BY DEF MoveInv
<1>1. UNCHANGED <<queue, running, todo, copy, op>>
  BY DEF Invoke, Put, Delete, Get, WriteFails, GetFails, Respond, poolvars, movevars, callvars
<1>2. CopiesInv'
  BY <1>0, <1>1 DEF CopiesInv, Runs
<1>3. stores' \in [Segments -> [Keys -> Values \cup {Empty}]]
  <2>1. CASE Put(t) \/ Delete(t)
    <3>1. req[t] # Idle
      BY <2>1 DEF Put, Delete, Pending
    <3>2. req[t].key \in Keys /\ req[t].value \in Values \cup {Empty}
      BY <1>0, <3>1, RequestKey
    <3>3. \E v \in Values \cup {Empty} : StoreIn(GetDB(req[t].key), req[t].key, v)
      BY <2>1, <3>2 DEF Put, Delete
    <3> QED
      BY <1>0, <3>2, <3>3, StoreInType
  <2>2. CASE stores' = stores
    BY <1>0, <2>2 DEF RoutingInv
  <2> QED
    BY <2>1, <2>2 DEF Invoke, Get, WriteFails, GetFails, Respond
<1>4. /\ req' \in [Threads -> Request \cup {Idle}]
      /\ CallersInv'
  <2>1. CASE Invoke(t)
    <3>1. PICK r \in Request : r.op \in Ops[t] /\ req' = [req EXCEPT ![t] = r]
      BY <2>1 DEF Invoke
    <3>2. op[t] = Idle
      BY <2>1 DEF Invoke
    <3> QED
      BY <1>0, <1>1, <3>1, <3>2 DEF RoutingInv, CallersInv
  <2>2. CASE Respond(t)
    BY <1>0, <1>1, <2>2 DEF Respond, RoutingInv, CallersInv
  <2>3. CASE req' = req
    BY <1>0, <1>1, <2>3 DEF RoutingInv, CallersInv
  <2> QED
    BY <2>1, <2>2, <2>3 DEF Put, Delete, Get, WriteFails, GetFails
<1>5. RoutingInv'
  BY <1>0, <1>1, <1>3, <1>4 DEF RoutingInv
<1> QED
  BY <1>2, <1>4, <1>5 DEF MoveInv

\* A step of Open, Compact or Flush: a call begins and ends without tasks.
LEMMA MoveCaller ==
  ASSUME MoveInv, LatchInv', NEW t \in Threads, Call(t) \/ Schedule(t) \/ CallReturn(t)
  PROVE  MoveInv'
<1>0. RoutingInv /\ CallersInv /\ CopiesInv /\ LatchInv
  BY DEF MoveInv
<1>1. UNCHANGED <<stores, req, running, todo, copy>>
  BY DEF Call, Schedule, CallReturn, kvvars, poolvars, movevars
<1>2. RoutingInv'
  BY <1>0, <1>1 DEF RoutingInv
<1>3. op \in [Threads -> {"Init", "Compact", "Flush", Idle}]
  BY <1>0 DEF LatchInv, CallType
<1>4. CallersInv'
  BY <1>0, <1>1, <1>3 DEF CallersInv, Call, Schedule, CallReturn
<1>5. CopiesInv'
  <2> SUFFICES ASSUME NEW w \in Workers, copy[w] # NoCopy
               PROVE  op'[running[w].caller] = "Compact"
    BY <1>0, <1>1 DEF CopiesInv, Runs
  <2>1. running[w] # NoTask /\ op[running[w].caller] = "Compact"
    BY <1>0 DEF CopiesInv, Runs
  <2>2. running[w].caller \in Threads
    BY <1>0, <2>1, TaskTypes DEF LatchInv, Tasks
  <2>3. running[w].caller = t => ~Call(t) /\ ~CallReturn(t)
    <3>1. running[w].caller = t => op[t] # Idle
      BY <2>1, SegAssumption
    <3>2. running[w].caller = t => op'[t] # Idle
      BY <1>1, <2>1, <2>2 DEF LatchInv, TasksOpen, TaskOpen
    <3> QED
      BY <1>3, <3>1, <3>2 DEF Call, CallReturn
  <2> QED
    BY <1>3, <2>1, <2>2, <2>3 DEF Call, Schedule, CallReturn
<1> QED
  BY <1>2, <1>4, <1>5 DEF MoveInv

\* A worker's step: a copy is read and indexed within its task.
LEMMA MoveWorker ==
  ASSUME MoveInv, LatchInv', NEW w \in Workers, WorkerStep(w)
  PROVE  MoveInv'
<1>0. RoutingInv /\ CallersInv /\ CopiesInv /\ LatchInv
  BY DEF MoveInv
<1>1. UNCHANGED <<req, op>>
  BY DEF WorkerStep, Take, MoveRead, MoveIndex, Work, CountDown, kvvars, callvars
<1>2. CallersInv'
  BY <1>0, <1>1 DEF CallersInv
<1>3. \A v \in Workers : v # w => running'[v] = running[v] /\ copy'[v] = copy[v]
  <2>1. running \in [Workers -> Tasks \cup {NoTask}]
    BY <1>0 DEF LatchInv, CallType
  <2> QED
    BY <1>0, <2>1 DEF WorkerStep, Take, MoveRead, MoveIndex, Work, CountDown,
                      poolvars, movevars, RoutingInv
<1>4. copy[w] # NoCopy => running[w] # NoTask /\ ~running[w].done
  BY <1>0 DEF CopiesInv, Runs
<1>5. CASE Take(w) \/ Work(w) \/ CountDown(w)
  <2>1. copy[w] = NoCopy /\ copy' = copy /\ stores' = stores
    BY <1>4, <1>5 DEF Take, Work, CountDown, kvvars, movevars
  <2>2. CopiesInv'
    BY <1>0, <1>1, <1>3, <2>1 DEF CopiesInv, Runs
  <2>3. todo' \in [Workers -> SUBSET Keys]
    BY <1>0, <1>5 DEF Take, Work, CountDown, movevars, RoutingInv
  <2>4. RoutingInv'
    BY <1>0, <1>1, <2>1, <2>3 DEF RoutingInv
  <2> QED
    BY <1>2, <2>2, <2>4 DEF MoveInv
<1>6. CASE MoveRead(w)
  <2>1. PICK k \in todo[w] :
          /\ stores[running[w].segment][k] # Empty
          /\ copy' = [copy EXCEPT ![w] = [key |-> k, value |-> stores[running[w].segment][k]]]
          /\ todo' = [todo EXCEPT ![w] = todo[w] \ {k}]
    BY <1>6 DEF MoveRead
  <2>2. running' = running /\ stores' = stores /\ Runs(w, "Compact")
    BY <1>6 DEF MoveRead, kvvars, poolvars
  <2>3. running[w].segment \in Segments
    BY <1>0, <2>2, TaskTypes DEF LatchInv, Runs, Tasks
  <2>4. k \in Keys /\ stores[running[w].segment][k] \in Values
    BY <1>0, <2>1, <2>3 DEF RoutingInv
  <2>5. [key |-> k, value |-> stores[running[w].segment][k]] \in Copies
    BY <2>4 DEF Copies
  <2>6. RoutingInv'
    BY <1>0, <1>1, <2>1, <2>2, <2>5 DEF RoutingInv
  <2>7. CopiesInv'
    BY <1>0, <1>1, <1>3, <2>2 DEF CopiesInv, Runs
  <2> QED
    BY <1>2, <2>6, <2>7 DEF MoveInv
<1>7. CASE MoveIndex(w)
  <2>1. PICK c : c = copy[w]
    OBVIOUS
  <2>2. PICK i : i = running[w].segment
    OBVIOUS
  <2>3. /\ c # NoCopy /\ running' = running /\ todo' = todo
        /\ copy' = [copy EXCEPT ![w] = NoCopy]
        /\ stores' = stores \/ StoreIn(i, c.key, c.value)
    BY <1>7, <2>1, <2>2 DEF MoveIndex, poolvars
  <2>4. c.key \in Keys /\ c.value \in Values
    BY <1>0, <2>1, <2>3 DEF RoutingInv, Copies
  <2>5. stores' \in [Segments -> [Keys -> Values \cup {Empty}]]
    <3>1. i \in Segments
      BY <1>0, <1>4, <2>1, <2>2, <2>3, TaskTypes DEF LatchInv, Tasks
    <3>2. [stores[i] EXCEPT ![c.key] = c.value] \in [Keys -> Values \cup {Empty}]
      BY <1>0, <2>4, <3>1 DEF RoutingInv
    <3> QED
      BY <1>0, <2>3, <3>1, <3>2 DEF RoutingInv, StoreIn
  <2>6. RoutingInv'
    BY <1>0, <1>1, <2>3, <2>5 DEF RoutingInv
  <2>7. CopiesInv'
    BY <1>0, <1>1, <1>3, <2>3 DEF CopiesInv, Runs, RoutingInv
  <2> QED
    BY <1>2, <2>6, <2>7 DEF MoveInv
<1> QED
  BY <1>5, <1>6, <1>7 DEF WorkerStep

(***************************************************************************)
(* Segments, requests and copies keep their types, and a copy belongs to a *)
(* task of Compact that is not done, whoever calls what beside it.         *)
(***************************************************************************)
THEOREM MoveInvariance == SegSpec => []MoveInv
<1>1. MoveInv /\ LatchInv' /\ [SegNext]_segvars => MoveInv'
  <2> SUFFICES ASSUME MoveInv, LatchInv', [SegNext]_segvars
               PROVE  MoveInv'
    OBVIOUS
  <2>1. ASSUME NEW t \in Threads, SegStep(t)
        PROVE  MoveInv'
    BY <2>1, MoveClient, MoveCaller DEF SegStep
  <2>2. ASSUME NEW w \in Workers, WorkerStep(w)
        PROVE  MoveInv'
    BY <2>2, MoveWorker
  <2>3. CASE SegTerminating \/ UNCHANGED segvars
    BY <2>3 DEF SegTerminating, segvars, kvvars, poolvars, movevars, callvars,
                MoveInv, RoutingInv, CallersInv, CopiesInv, Runs
  <2> QED
    BY <2>1, <2>2, <2>3 DEF SegNext
<1> QED
  BY <1>1, MoveInitially, LatchInvariance, PTL DEF SegSpec

(***************************************************************************)
(* If the thread that compacts is the only one that writes, a record that  *)
(* is being moved does not change: its caller waits for the latch, and the *)
(* others only read.                                                       *)
(***************************************************************************)
LEMMA NoWriteBesideCopy ==
  ASSUME CompactsAlone, MoveInv, NEW w \in Workers, copy[w] # NoCopy,
         NEW t \in Threads
  PROVE  ~Put(t) /\ ~Delete(t)
<1>1. running[w] # NoTask /\ op[running[w].caller] = "Compact"
  BY DEF MoveInv, CopiesInv, Runs
<1>2. running[w].caller \in Threads
  BY <1>1, TaskTypes DEF MoveInv, LatchInv, Tasks
<1>3. PICK c \in Threads : c = running[w].caller
  BY <1>2
<1>4. "Compact" \in Ops[c] /\ op[c] # Idle
  BY <1>1, <1>3, SegAssumption DEF MoveInv, CallersInv
<1>5. req[c] = Idle
  BY <1>4 DEF MoveInv, CallersInv
<1> SUFFICES ASSUME Put(t) \/ Delete(t) PROVE FALSE
  OBVIOUS
<1>6. req[t] # Idle /\ req[t].op \in {"put", "delete"}
  BY DEF Put, Delete, Pending
<1>7. Ops[t] \cap {"put", "delete", "Compact"} # {}
  BY <1>6 DEF MoveInv, CallersInv
<1>8. t = c
  BY <1>4, <1>7 DEF CompactsAlone
<1> QED
  BY <1>5, <1>6, <1>8

\* Writing a value that is there already changes nothing.
LEMMA StoreSame ==
  ASSUME RoutingInv, NEW i \in Segments, NEW k \in Keys, StoreIn(i, k, stores[i][k])
  PROVE  stores' = stores
<1>1. stores[i] \in [Keys -> Values \cup {Empty}]
  BY DEF RoutingInv
<1>2. [stores[i] EXCEPT ![k] = stores[i][k]] = stores[i]
  BY <1>1
<1>3. stores' = [stores EXCEPT ![i] = stores[i]]
  BY <1>2 DEF StoreIn
<1> QED
  BY <1>3 DEF RoutingInv

LEMMA CopyStaysCurrent ==
  ASSUME CompactsAlone, MoveInv, CopyIsCurrent, [SegNext]_segvars
  PROVE  /\ CopyIsCurrent'
         /\ \A w \in Workers : WorkerStep(w) => UNCHANGED <<stores, req, ans>>
<1>1. ASSUME NEW w \in Workers, MoveIndex(w)
      PROVE  stores' = stores
  <2>1. PICK c : c = copy[w]
    OBVIOUS
  <2>2. PICK i : i = running[w].segment
    OBVIOUS
  <2>3. c # NoCopy /\ (stores' = stores \/ StoreIn(i, c.key, c.value))
    BY <1>1, <2>1, <2>2 DEF MoveIndex
  <2>4. c.key \in Keys
    BY <2>1, <2>3 DEF MoveInv, RoutingInv, Copies
  <2>5. i \in Segments
    BY <2>1, <2>2, <2>3, TaskTypes DEF MoveInv, CopiesInv, Runs, LatchInv, Tasks
  <2>6. stores[i][c.key] = c.value
    BY <2>1, <2>2, <2>3 DEF CopyIsCurrent
  <2> QED
    BY <2>3, <2>4, <2>5, <2>6, StoreSame DEF MoveInv
<1>2. ASSUME NEW w \in Workers, WorkerStep(w)
      PROVE  UNCHANGED <<stores, req, ans>>
  BY <1>1, <1>2 DEF WorkerStep, Take, MoveRead, MoveIndex, Work, CountDown, kvvars
<1>3. CopyIsCurrent'
  <2> SUFFICES ASSUME NEW w \in Workers, copy'[w] # NoCopy
               PROVE  stores'[running'[w].segment][copy'[w].key] = copy'[w].value
    BY DEF CopyIsCurrent
  <2>1. CASE UNCHANGED <<stores, running, copy>>
    BY <2>1 DEF CopyIsCurrent
  <2>2. ASSUME NEW t \in Threads, SegStep(t)
        PROVE  UNCHANGED <<stores, running, copy>>
    <3>1. UNCHANGED <<running, copy>>
      BY <2>2 DEF SegStep, Invoke, Put, Delete, Get, WriteFails, GetFails, Respond,
                  Call, Schedule, CallReturn, poolvars, movevars
    <3>2. ~Put(t) /\ ~Delete(t)
      BY <3>1, NoWriteBesideCopy
    <3>3. stores' = stores
      BY <2>2, <3>2 DEF SegStep, Invoke, Get, WriteFails, GetFails, Respond,
                        Call, Schedule, CallReturn, kvvars
    <3> QED
      BY <3>1, <3>3
  <2>3. ASSUME NEW v \in Workers, WorkerStep(v)
        PROVE  stores'[running'[w].segment][copy'[w].key] = copy'[w].value
    <3>1. stores' = stores
      BY <1>2, <2>3
    <3>2. running \in [Workers -> Tasks \cup {NoTask}] /\ copy \in [Workers -> Copies \cup {NoCopy}]
      BY DEF MoveInv, LatchInv, CallType, RoutingInv
    <3>3. CASE v # w
      <4>1. running'[w] = running[w] /\ copy'[w] = copy[w]
        BY <2>3, <3>2, <3>3 DEF WorkerStep, Take, MoveRead, MoveIndex, Work, CountDown,
                                poolvars, movevars
      <4> QED
        BY <3>1, <4>1 DEF CopyIsCurrent
    <3>4. CASE v = w
      <4>1. MoveRead(w)
        <5>1. copy[w] # NoCopy => running[w] # NoTask /\ ~running[w].done
          BY DEF MoveInv, CopiesInv, Runs
        <5> QED
          BY <2>3, <3>2, <3>4, <5>1
          DEF WorkerStep, Take, MoveIndex, Work, CountDown, movevars
      <4>2. PICK i : i = running[w].segment
        OBVIOUS
      <4>3. running' = running
        BY <4>1 DEF MoveRead, poolvars
      <4>4. \E k \in todo[w] : copy' = [copy EXCEPT ![w] = [key |-> k, value |-> stores[i][k]]]
        BY <4>1, <4>2 DEF MoveRead
      <4> QED
        BY <3>1, <3>2, <4>2, <4>3, <4>4
    <3> QED
      BY <3>3, <3>4
  <2> QED
    BY <2>1, <2>2, <2>3 DEF SegNext, SegTerminating, segvars, kvvars, poolvars, movevars
<1> QED
  BY <1>2, <1>3

\* Every action of a client is the action of the same name on the store.
LEMMA ClientStep ==
  ASSUME RoutingInv, NEW t \in Threads, SegStep(t)
  PROVE  Store!KVStep(t) \/ UNCHANGED Store!kvvars
<1> USE DEF Store!KVStep, Store!kvvars, Store!Reply, Reply, Store!Pending,
            Pending, Answer
<1>1. CASE Invoke(t)
  <2>1. PICK r \in Request : req' = [req EXCEPT ![t] = r]
    BY <1>1 DEF Invoke
  <2>2. req[t] = Idle /\ UNCHANGED <<stores, ans>>
    BY <1>1 DEF Invoke
  <2>3. Store!Invoke(t, r)
    BY <2>1, <2>2, SameWhole DEF Store!Invoke
  <2>4. r \in Store!Request
    BY DEF Request, Store!Request
  <2> QED
    BY <2>3, <2>4
<1>2. CASE Put(t)
  <2>1. req[t] # Idle
    BY <1>2 DEF Put
  <2>2. WholeStore' = [WholeStore EXCEPT ![req[t].key] = req[t].value]
    BY <1>2, <2>1, RequestKey, StoreInWhole DEF Put
  <2>3. Store!Put(t)
    BY <1>2, <2>2 DEF Put, Store!Put
  <2> QED
    BY <2>3
<1>3. CASE Delete(t)
  <2>1. req[t] # Idle
    BY <1>3 DEF Delete
  <2>2. WholeStore' = [WholeStore EXCEPT ![req[t].key] = Empty]
    BY <1>3, <2>1, RequestKey, StoreInWhole DEF Delete
  <2>3. WholeStore[req[t].key] = stores[GetDB(req[t].key)][req[t].key]
    BY <2>1, RequestKey, WholeAt
  <2>4. Store!Delete(t)
    BY <1>3, <2>2, <2>3 DEF Delete, Store!Delete
  <2> QED
    BY <2>4
<1>4. CASE Get(t)
  <2>1. req[t] # Idle
    BY <1>4 DEF Get
  <2>2. WholeStore[req[t].key] = stores[GetDB(req[t].key)][req[t].key]
    BY <2>1, RequestKey, WholeAt
  <2>3. WholeStore' = WholeStore
    BY <1>4, SameWhole DEF Get
  <2>4. Store!Get(t)
    BY <1>4, <2>2, <2>3 DEF Get, Store!Get
  <2> QED
    BY <2>4
<1>5. CASE WriteFails(t)
  <2>1. WholeStore' = WholeStore
    BY <1>5, SameWhole DEF WriteFails
  <2> QED
    BY <1>5, <2>1 DEF WriteFails, Store!WriteFails
<1>6. CASE GetFails(t)
  <2>1. WholeStore' = WholeStore
    BY <1>6, SameWhole DEF GetFails
  <2> QED
    BY <1>6, <2>1 DEF GetFails, Store!GetFails
<1>7. CASE Respond(t)
  <2>1. WholeStore' = WholeStore
    BY <1>7, SameWhole DEF Respond
  <2> QED
    BY <1>7, <2>1 DEF Respond, Store!Respond
<1>8. CASE Call(t) \/ Schedule(t) \/ CallReturn(t)
  <2>1. UNCHANGED <<stores, req, ans>>
    BY <1>8 DEF Call, Schedule, CallReturn, kvvars
  <2> QED
    BY <2>1, SameWhole
<1> QED
  BY <1>1, <1>2, <1>3, <1>4, <1>5, <1>6, <1>7, <1>8 DEF SegStep

(***************************************************************************)
(* SegmentDB is a linearizable map if the thread that compacts is the only *)
(* one that writes or compacts: GetDB sends every operation on a key to    *)
(* the same segment, and Compact's caller waits until the last copy has    *)
(* been indexed, so a copy never replaces a newer value.                   *)
(***************************************************************************)
THEOREM SegmentsImplementMap == CompactsAlone => (SegSpec => SegLinearizable)
<1> SUFFICES ASSUME CompactsAlone PROVE SegSpec => SegLinearizable
  OBVIOUS
<1>1. SegInit => Store!KVInit
  <2> SUFFICES ASSUME SegInit
               PROVE  Store!KVInit
    OBVIOUS
  <2>1. \A k \in Keys : stores[GetDB(k)][k] = Empty
    BY GetDBIsSegment DEF SegInit
  <2>2. WholeStore = [k \in Keys |-> Empty]
    BY <2>1 DEF WholeStore
  <2> QED
    BY <2>2 DEF SegInit, Store!KVInit
<1>2. SegInit => CopyIsCurrent
  BY DEF SegInit, CopyIsCurrent
<1>3. MoveInv /\ CopyIsCurrent /\ [SegNext]_segvars => CopyIsCurrent'
  BY CopyStaysCurrent
<1>4. MoveInv /\ CopyIsCurrent /\ [SegNext]_segvars => [Store!KVNext]_Store!kvvars
  <2> SUFFICES ASSUME MoveInv, CopyIsCurrent, [SegNext]_segvars
               PROVE  [Store!KVNext]_Store!kvvars
    OBVIOUS
  <2>1. ASSUME NEW t \in Threads, SegStep(t)
        PROVE  Store!KVNext \/ UNCHANGED Store!kvvars
    BY <2>1, ClientStep DEF Store!KVNext, MoveInv
  <2>2. ASSUME UNCHANGED <<stores, req, ans>>
        PROVE  UNCHANGED Store!kvvars
    BY <2>2, SameWhole DEF Store!kvvars
  <2>3. ASSUME NEW w \in Workers, WorkerStep(w)
        PROVE  UNCHANGED <<stores, req, ans>>
    BY <2>3, CopyStaysCurrent
  <2>4. CASE SegTerminating \/ UNCHANGED segvars
    BY <2>2, <2>4 DEF SegTerminating, segvars, kvvars
  <2> QED
    BY <2>1, <2>2, <2>3, <2>4 DEF SegNext
<1> QED
  BY <1>1, <1>2, <1>3, <1>4, MoveInvariance, PTL DEF SegSpec, SegLinearizable, Store!KVSpec

-----------------------------------------------------------------------------
(***************************************************************************)
(* Open.  Only the opener runs Init, before there is a database; a segment *)
(* that has run it is no longer as it was created.                         *)
(***************************************************************************)
OpenInv ==
  /\ \A t \in Threads : op[t] = "Init" =>
       t = Opener /\ db = "none" /\ \A i \in ran[t] : state[i] # "created"
  /\ OpenIsReady

(***************************************************************************)
(* Open never hands out a database with a segment that failed or has not   *)
(* run Init, in whatever order the workers finish.                         *)
(***************************************************************************)
THEOREM OpenWaitsForInit == SegSpec => []OpenIsReady
<1>1. SegInit => OpenInv
  BY SegAssumption DEF SegInit, OpenInv, OpenIsReady
<1>2. LatchInv /\ OpenInv /\ [SegNext]_segvars => OpenInv'
  <2> SUFFICES ASSUME LatchInv, OpenInv, [SegNext]_segvars
               PROVE  OpenInv'
    OBVIOUS
  <2>0. /\ op \in [Threads -> {"Init", "Compact", "Flush", Idle}]
        /\ state \in [Segments -> {"created", "ready", "failed"}]
        /\ ran \in [Threads -> SUBSET Segments]
    BY DEF LatchInv, CallType
  <2>1. CASE UNCHANGED <<db, state, op, ran>>
    BY <2>1 DEF OpenInv, OpenIsReady
  <2>2. ASSUME NEW t \in Threads, Call(t) PROVE OpenInv'
    <3>1. /\ op'[t] # "Init" /\ \A u \in Threads : u # t => op'[u] = op[u]
          /\ UNCHANGED <<db, state, ran>>
      BY <2>0, <2>2 DEF Call
    <3> QED
      BY <3>1 DEF OpenInv, OpenIsReady
  <2>3. ASSUME NEW t \in Threads, CallReturn(t) PROVE OpenInv'
    <3>1. /\ op'[t] = Idle /\ state' = state
          /\ \A u \in Threads : u # t => op'[u] = op[u] /\ ran'[u] = ran[u]
      BY <2>0, <2>3 DEF CallReturn
    <3>2. CASE op[t] = "Init"
      <4>1. Unfinished(t) = {}
        BY <2>3, UnfinishedFinite DEF LatchInv, LatchCounts, CallReturn, Awaited
      <4>2. Segments \subseteq ran[t]
        BY <2>3, <4>1 DEF LatchInv, FinishedRan, CallReturn, Awaited
      <4>3. \A i \in Segments : state[i] # "created"
        BY <3>2, <4>2 DEF OpenInv
      <4>4. db' = "open" => \A i \in Segments : state[i] # "failed"
        BY <2>3, <3>2 DEF CallReturn
      <4>5. OpenIsReady'
        BY <2>0, <3>1, <4>3, <4>4 DEF OpenIsReady
      <4>6. \A u \in Threads : op'[u] # "Init"
        BY <3>1, <3>2, SegAssumption DEF OpenInv
      <4> QED
        BY <4>5, <4>6 DEF OpenInv
    <3>3. CASE op[t] # "Init"
      <4>1. db' = db
        BY <2>3, <3>3 DEF CallReturn
      <4> QED
        BY <3>1, <4>1, SegAssumption DEF OpenInv, OpenIsReady
    <3> QED
      BY <3>2, <3>3
  <2>4. ASSUME NEW w \in Workers, Work(w) PROVE OpenInv'
    <3>1. PICK t \in Threads : t = running[w].caller
      BY <2>4, TaskTypes DEF LatchInv, Work, Runs, Tasks
    <3>2. PICK i \in Segments : i = running[w].segment
      BY <2>4, TaskTypes DEF LatchInv, Work, Runs, Tasks
    <3>3. UNCHANGED <<db, op>> /\ ran' = [ran EXCEPT ![t] = ran[t] \cup {i}]
      BY <2>4, <3>1, <3>2 DEF Work
    <3>4. CASE op[t] = "Init"
      <4>1. PICK s \in {"ready", "failed"} : state' = [state EXCEPT ![i] = s]
        BY <2>4, <3>1, <3>2, <3>4 DEF Work
      <4>2. t = Opener /\ db = "none"
        BY <3>4 DEF OpenInv
      <4>3. \A u \in Threads : op[u] = "Init" => u = t
        BY <4>2 DEF OpenInv
      <4>4. \A j \in ran'[t] : state'[j] # "created"
        BY <2>0, <3>3, <3>4, <4>1 DEF OpenInv
      <4> QED
        BY <3>3, <4>2, <4>3, <4>4 DEF OpenInv, OpenIsReady
    <3>5. CASE op[t] # "Init"
      <4>1. state' = state
        BY <2>4, <3>1, <3>5 DEF Work
      <4> QED
        BY <2>0, <3>3, <3>5, <4>1 DEF OpenInv, OpenIsReady
    <3> QED
      BY <3>4, <3>5
  <2>5. ASSUME NEW t \in Threads, SegStep(t) PROVE OpenInv'
    <3>1. Call(t) \/ CallReturn(t) \/ UNCHANGED <<db, state, op, ran>>
      BY <2>5 DEF SegStep, Invoke, Put, Delete, Get, WriteFails, GetFails, Respond, Schedule,
                  callvars
    <3> QED
      BY <2>1, <2>2, <2>3, <3>1
  <2>6. ASSUME NEW w \in Workers, WorkerStep(w) PROVE OpenInv'
    <3>1. Work(w) \/ UNCHANGED <<db, state, op, ran>>
      BY <2>6 DEF WorkerStep, Take, MoveRead, MoveIndex, CountDown, callvars
    <3> QED
      BY <2>1, <2>4, <3>1
  <2> QED
    BY <2>1, <2>5, <2>6 DEF SegNext, SegTerminating, segvars, callvars
<1>3. OpenInv => OpenIsReady
  BY DEF OpenInv
<1> QED
  BY <1>1, <1>2, <1>3, LatchInvariance, PTL DEF SegSpec

\* Every variable of SegmentDB keeps its type.
THEOREM SegTypeCorrect == SegSpec => []SegTypeOK
<1>1. MoveInv => SegTypeOK
  BY DEF MoveInv, RoutingInv, LatchInv, CallType, SegTypeOK
<1> QED
  BY <1>1, MoveInvariance, PTL

(***************************************************************************)
(* Open, Compact and Flush return only after every segment has finished.   *)
(***************************************************************************)
THEOREM CallsWaitForAll == SegSpec => []AllSegmentsRan
<1>1. LatchInv => AllSegmentsRan
  <2> SUFFICES ASSUME LatchInv, NEW t \in Threads, Awaited(t)
               PROVE  ran[t] = Segments
    BY DEF AllSegmentsRan
  <2>1. Unfinished(t) = {}
    BY UnfinishedFinite DEF LatchInv, LatchCounts, Awaited
  <2> QED
    BY <2>1 DEF LatchInv, FinishedRan, CallType, Awaited
<1> QED
  BY <1>1, LatchInvariance, PTL

(***************************************************************************)
(* No task of the executor counts down a latch whose caller has returned.  *)
(***************************************************************************)
THEOREM TasksDieBeforeLatch == SegSpec => []LatchOutlivesTasks
<1>1. LatchInv => LatchOutlivesTasks
  <2> SUFFICES ASSUME LatchInv, NEW t \in Threads, TasksOf(t) # {}
               PROVE  op[t] # Idle /\ latch[t] > 0
    BY DEF LatchOutlivesTasks
  <2>1. \E s \in Segments : QueuedFor(t, s) \/ RunningFor(t, s)
    <3>1. \A j \in DOMAIN queue : queue[j].segment \in Segments
      BY TaskTypes DEF LatchInv, Tasks
    <3>2. \A w \in Workers : running[w] # NoTask => running[w].segment \in Segments
      BY TaskTypes DEF LatchInv, Tasks
    <3> QED
      BY <3>1, <3>2 DEF TasksOf, QueuedFor, RunningFor
  <2>2. op[t] # Idle
    BY <2>1 DEF LatchInv, TasksOpen, TaskOpen, QueuedFor, RunningFor
  <2>3. Unfinished(t) # {}
    BY <2>1 DEF Unfinished
  <2>4. latch[t] = Cardinality(Unfinished(t))
    BY <2>2 DEF LatchInv, LatchCounts
  <2> QED
    BY <2>2, <2>3, <2>4, UnfinishedFinite
<1> QED
  BY <1>1, LatchInvariance, PTL
=============================================================================
