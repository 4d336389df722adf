----------------------------- MODULE SegmentDB ------------------------------
(***************************************************************************)
(* pedrodb::SegmentDB: n databases of its own, among which the keys are    *)
(* divided by their hash, and an executor that runs Init, Compact and      *)
(* Flush of the segments while the caller waits for a latch on its stack.  *)
(*                                                                         *)
(* A segment is a DBImpl: a map, as KVStore says, except for the records   *)
(* that its Compact moves.  That a record is current is one step, and that *)
(* the index takes the copy another, so a Put in between may be undone     *)
(* (run db_lost_update).  The segments' own compaction timers are off.     *)
(***************************************************************************)
EXTENDS Integers, Sequences

CONSTANTS
  Keys, Values, Empty, Threads,
  Idle,         \* no request, no answer
  NoTask,       \* an idle worker of the executor
  NoCopy,       \* a worker that is not copying a record
  Opener,       \* the thread that calls SegmentDB::Open
  Workers,      \* the threads of the executor
  Ops,          \* Ops[t]: the operations thread t performs
  n,            \* the number of segments
  Hash,         \* Hash[k]: the hash of key k
  GetMayFail,   \* whether a Get may return an error instead of an answer
  InitMayFail   \* whether DBImpl::Init may fail

ASSUME SegAssumption ==
  /\ n \in Nat \ {0}
  /\ Hash \in [Keys -> Nat]
  /\ Opener \in Threads
  /\ Ops \in [Threads -> SUBSET {"put", "delete", "get", "Compact", "Flush"}]
  /\ Empty \notin Values
  /\ GetMayFail \in BOOLEAN
  /\ InitMayFail \in BOOLEAN
  /\ Idle \notin {"Init", "Compact", "Flush"}
  /\ NoTask \notin [caller : Threads, segment : 0 .. (n - 1), done : BOOLEAN]
  /\ NoCopy \notin [key : Keys, value : Values]

VARIABLES
  stores,   \* the map each segment keeps
  req,      \* the Put, Delete or Get a thread has open
  ans,      \* its answer, once it has taken effect
  db,       \* what Open has handed out: "none", "open" or "failed"
  state,    \* of every segment: "created", "ready" or "failed"
  queue,    \* tasks the executor has not started
  running,  \* the task each worker runs
  todo,     \* Compact: the keys whose records the worker may still come to
  copy,     \* Compact: the record the worker has read and appends again
  op,       \* the call of all segments a thread is in, or Idle
  next,     \* the segment it schedules next
  latch,    \* the count of its latch
  ran       \* history: the segments that have finished its call

kvvars   == <<stores, req, ans>>
poolvars == <<queue, running>>
movevars == <<todo, copy>>
callvars == <<op, next, latch, ran>>
segvars  == <<kvvars, db, state, poolvars, movevars, callvars>>

Segments == 0 .. (n - 1)

Tasks == [caller : Threads, segment : Segments, done : BOOLEAN]

Request ==
  [op : {"put"}, key : Keys, value : Values]
    \cup [op : {"delete", "get"}, key : Keys, value : {Empty}]

Copies == [key : Keys, value : Values]

Reply(status, value) == [status |-> status, value |-> value]

\* Every variable is in its type.
SegTypeOK ==
  /\ stores \in [Segments -> [Keys -> Values \cup {Empty}]]
  /\ req \in [Threads -> Request \cup {Idle}]
  /\ db \in {"none", "open", "failed"}
  /\ state \in [Segments -> {"created", "ready", "failed"}]
  /\ queue \in Seq(Tasks)
  /\ running \in [Workers -> Tasks \cup {NoTask}]
  /\ todo \in [Workers -> SUBSET Keys]
  /\ copy \in [Workers -> Copies \cup {NoCopy}]
  /\ op \in [Threads -> {"Init", "Compact", "Flush", Idle}]
  /\ next \in [Threads -> 0 .. n]
  /\ latch \in [Threads -> 0 .. n]
  /\ ran \in [Threads -> SUBSET Segments]

\* SegmentDB::Open has made its latch and is about to schedule the segments.
SegInit ==
  /\ stores = [i \in Segments |-> [k \in Keys |-> Empty]]
  /\ req = [t \in Threads |-> Idle]
  /\ ans = [t \in Threads |-> Idle]
  /\ db = "none"
  /\ state = [i \in Segments |-> "created"]
  /\ queue = << >>
  /\ running = [w \in Workers |-> NoTask]
  /\ todo = [w \in Workers |-> {}]
  /\ copy = [w \in Workers |-> NoCopy]
  /\ op = [t \in Threads |-> IF t = Opener THEN "Init" ELSE Idle]
  /\ next = [t \in Threads |-> 0]
  /\ latch = [t \in Threads |-> IF t = Opener THEN n ELSE 0]
  /\ ran = [t \in Threads |-> {}]

-----------------------------------------------------------------------------
(***************************************************************************)
(* Put, Delete and Get go to the segment of the key.                       *)
(***************************************************************************)
GetDB(k) == Hash[k] % n

Invoke(t) ==
  /\ db = "open"
  /\ req[t] = Idle
  /\ op[t] = Idle
  /\ \E r \in Request : r.op \in Ops[t] /\ req' = [req EXCEPT ![t] = r]
  /\ UNCHANGED <<stores, ans, db, state, poolvars, movevars, callvars>>

Pending(t, o) == req[t] # Idle /\ ans[t] = Idle /\ req[t].op = o

Answer(t, a) == ans' = [ans EXCEPT ![t] = a]

StoreIn(i, k, v) == stores' = [stores EXCEPT ![i] = [@ EXCEPT ![k] = v]]

Put(t) ==
  /\ Pending(t, "put")
  /\ StoreIn(GetDB(req[t].key), req[t].key, req[t].value)
  /\ Answer(t, Reply("kOk", Empty))
  /\ UNCHANGED <<req, db, state, poolvars, movevars, callvars>>

\* Bug: Delete goes to the first segment.
DeleteFirst(t) ==
  /\ Pending(t, "delete")
  /\ StoreIn(0, req[t].key, Empty)
  /\ Answer(t, Reply(IF stores[0][req[t].key] = Empty THEN "kNotFound" ELSE "kOk", Empty))
  /\ UNCHANGED <<req, db, state, poolvars, movevars, callvars>>

Delete(t) ==
  LET old == stores[GetDB(req[t].key)][req[t].key] IN
  /\ Pending(t, "delete")
  /\ StoreIn(GetDB(req[t].key), req[t].key, Empty)
  /\ Answer(t, Reply(IF old = Empty THEN "kNotFound" ELSE "kOk", Empty))
  /\ UNCHANGED <<req, db, state, poolvars, movevars, callvars>>

Get(t) ==
  LET v == stores[GetDB(req[t].key)][req[t].key] IN
  /\ Pending(t, "get")
  /\ Answer(t, IF v = Empty THEN Reply("kNotFound", Empty) ELSE Reply("kOk", v))
  /\ UNCHANGED <<stores, req, db, state, poolvars, movevars, callvars>>

\* The segment refuses a write, or loses the record of a Get it looked up.
WriteFails(t) ==
  /\ Pending(t, "put") \/ Pending(t, "delete")
  /\ \E s \in {"kNotSupported", "kIOError"} : Answer(t, Reply(s, Empty))
  /\ UNCHANGED <<stores, req, db, state, poolvars, movevars, callvars>>

GetFails(t) ==
  /\ GetMayFail
  /\ req[t] # Idle /\ req[t].op = "get"
  /\ ans[t] # Idle /\ ans[t].status = "kOk"
  /\ \E s \in {"kIOError", "kCorruption"} : Answer(t, Reply(s, Empty))
  /\ UNCHANGED <<stores, req, db, state, poolvars, movevars, callvars>>

Respond(t) ==
  /\ req[t] # Idle
  /\ ans[t] # Idle
  /\ req' = [req EXCEPT ![t] = Idle]
  /\ Answer(t, Idle)
  /\ UNCHANGED <<stores, db, state, poolvars, movevars, callvars>>

-----------------------------------------------------------------------------
(***************************************************************************)
(* Compact and Flush: a latch of n, then a task for every segment.         *)
(***************************************************************************)
Call(t) ==
  /\ db = "open"
  /\ req[t] = Idle
  /\ op[t] = Idle
  /\ \E o \in Ops[t] \cap {"Compact", "Flush"} : op' = [op EXCEPT ![t] = o]
  /\ latch' = [latch EXCEPT ![t] = n]
  /\ UNCHANGED <<kvvars, db, state, poolvars, movevars, next, ran>>

\* Bug: the loop goes one segment too far.
ScheduleOneMore(t) ==
  /\ op[t] # Idle
  /\ next[t] <= n
  /\ queue' = Append(queue, [caller |-> t, segment |-> next[t], done |-> FALSE])
  /\ next' = [next EXCEPT ![t] = @ + 1]
  /\ UNCHANGED <<kvvars, db, state, running, movevars, op, latch, ran>>

Schedule(t) ==
  /\ op[t] # Idle
  /\ next[t] < n
  /\ queue' = Append(queue, [caller |-> t, segment |-> next[t], done |-> FALSE])
  /\ next' = [next EXCEPT ![t] = @ + 1]
  /\ UNCHANGED <<kvvars, db, state, running, movevars, op, latch, ran>>

\* Bug: the newest task comes first.
TakeNewest(w) ==
  /\ running[w] = NoTask
  /\ queue # << >>
  /\ running' = [running EXCEPT ![w] = queue[Len(queue)]]
  /\ queue' = SubSeq(queue, 1, Len(queue) - 1)
  /\ todo' = [todo EXCEPT ![w] = Keys]
  /\ UNCHANGED <<kvvars, db, state, copy, callvars>>

\* A worker takes the oldest task.
Take(w) ==
  /\ running[w] = NoTask
  /\ queue # << >>
  /\ running' = [running EXCEPT ![w] = Head(queue)]
  /\ queue' = Tail(queue)
  /\ todo' = [todo EXCEPT ![w] = Keys]
  /\ UNCHANGED <<kvvars, db, state, copy, callvars>>

Runs(w, o) == running[w] # NoTask /\ ~running[w].done /\ op[running[w].caller] = o

(***************************************************************************)
(* Compact of a segment comes to current records of some of its keys; it   *)
(* reads each and appends it again,                                        *)
(***************************************************************************)
MoveRead(w) ==
  LET i == running[w].segment IN
  /\ Runs(w, "Compact")
  /\ copy[w] = NoCopy
  /\ \E k \in todo[w] :
       /\ stores[i][k] # Empty
       /\ copy' = [copy EXCEPT ![w] = [key |-> k, value |-> stores[i][k]]]
       /\ todo' = [todo EXCEPT ![w] = @ \ {k}]
  /\ UNCHANGED <<kvvars, db, state, poolvars, callvars>>

(***************************************************************************)
(* and the index takes the copy if the key is still there and its record   *)
(* was appended before the copy.                                           *)
(***************************************************************************)
MoveIndex(w) ==
  LET i == running[w].segment  c == copy[w] IN
  /\ c # NoCopy
  /\ \/ UNCHANGED stores
     \/ stores[i][c.key] # Empty /\ StoreIn(i, c.key, c.value)
  /\ copy' = [copy EXCEPT ![w] = NoCopy]
  /\ UNCHANGED <<req, ans, db, state, poolvars, todo, callvars>>

\* Init of the segment succeeds or fails; Compact's and Flush's results are ignored.
Work(w) ==
  LET t == running[w].caller  i == running[w].segment IN
  /\ \E o \in {"Init", "Compact", "Flush"} : Runs(w, o)
  /\ copy[w] = NoCopy
  /\ IF op[t] = "Init"
     THEN \E s \in {"ready"} \cup (IF InitMayFail THEN {"failed"} ELSE {}) :
            state' = [state EXCEPT ![i] = s]
     ELSE UNCHANGED state
  /\ ran' = [ran EXCEPT ![t] = @ \cup {i}]
  /\ running' = [running EXCEPT ![w] = [caller |-> t, segment |-> i, done |-> TRUE]]
  /\ todo' = [todo EXCEPT ![w] = {}]
  /\ UNCHANGED <<kvvars, db, queue, copy, op, next, latch>>

\* Bug: the latch is counted down without waiting for the segment.
CountDownEarly(w) ==
  LET t == running[w].caller IN
  /\ running[w] # NoTask
  /\ latch' = [latch EXCEPT ![t] = @ - 1]
  /\ running' = [running EXCEPT ![w] = NoTask]
  /\ UNCHANGED <<kvvars, db, state, queue, movevars, op, next, ran>>

CountDown(w) ==
  LET t == running[w].caller IN
  /\ running[w] # NoTask
  /\ running[w].done
  /\ latch' = [latch EXCEPT ![t] = @ - 1]
  /\ running' = [running EXCEPT ![w] = NoTask]
  /\ UNCHANGED <<kvvars, db, state, queue, movevars, op, next, ran>>

\* Bug: the latch is made for one task less.
AwaitedOneLess(t) == op[t] # Idle /\ next[t] = n /\ latch[t] <= 1

\* latch.Await() after the last task has been scheduled.
Awaited(t) == op[t] # Idle /\ next[t] = n /\ latch[t] = 0

\* Compact and Flush return kOk.  Open returns the first error, or the database
\* if there is none: status starts as kOk for every segment.
CallReturn(t) ==
  /\ Awaited(t)
  /\ db' = IF op[t] # "Init" THEN db
           ELSE IF \A i \in Segments : state[i] # "failed" THEN "open" ELSE "failed"
  /\ op' = [op EXCEPT ![t] = Idle]
  /\ next' = [next EXCEPT ![t] = 0]
  /\ ran' = [ran EXCEPT ![t] = {}]
  /\ UNCHANGED <<kvvars, state, poolvars, movevars, latch>>

SegStep(t) ==
  \/ Invoke(t) \/ Put(t) \/ Delete(t) \/ Get(t)
  \/ WriteFails(t) \/ GetFails(t) \/ Respond(t)
  \/ Call(t) \/ Schedule(t) \/ CallReturn(t)

WorkerStep(w) == Take(w) \/ MoveRead(w) \/ MoveIndex(w) \/ Work(w) \/ CountDown(w)

\* Open has failed: there is no database to call.
SegTerminating == db = "failed" /\ UNCHANGED segvars

SegNext ==
  \/ \E t \in Threads : SegStep(t)
  \/ \E w \in Workers : WorkerStep(w)
  \/ SegTerminating

SegSpec == SegInit /\ [][SegNext]_segvars

\* The executor's workers run, and a call of all segments goes on.
SegLiveSpec ==
  /\ SegSpec
  /\ \A w \in Workers : WF_segvars(WorkerStep(w))
  /\ \A t \in Threads : WF_segvars(Schedule(t)) /\ WF_segvars(CallReturn(t))

-----------------------------------------------------------------------------
(***************************************************************************)
(* Open, Compact and Flush return only after every segment has finished,   *)
(* whatever the number of workers and however calls of several threads     *)
(* share them.                                                             *)
(***************************************************************************)
AllSegmentsRan == \A t \in Threads : Awaited(t) => ran[t] = Segments

(***************************************************************************)
(* Open hands out a database only when Init of every segment has           *)
(* succeeded, although a segment whose Init has not run counts as kOk.     *)
(***************************************************************************)
OpenIsReady == db = "open" => \A i \in Segments : state[i] = "ready"

TasksOf(t) ==
  {i \in DOMAIN queue : queue[i].caller = t}
    \cup {w \in Workers : running[w] # NoTask /\ running[w].caller = t}

(***************************************************************************)
(* No task outlives the latch on its caller's stack, which it counts down  *)
(* through a reference.                                                    *)
(***************************************************************************)
LatchOutlivesTasks ==
  \A t \in Threads : TasksOf(t) # {} => op[t] # Idle /\ latch[t] > 0

\* Open, Compact and Flush return although all callers share the workers.
SegCallsReturn == \A t \in Threads : op[t] # Idle ~> op[t] = Idle

-----------------------------------------------------------------------------
(***************************************************************************)
(* The database is one map: the value of a key is in the segment its hash  *)
(* names.                                                                  *)
(***************************************************************************)
WholeStore == [k \in Keys |-> stores[GetDB(k)][k]]

Store == INSTANCE KVStore WITH store <- WholeStore

(***************************************************************************)
(* A thread that compacts is the only one that writes or compacts.  With   *)
(* other writers the segments themselves are no linearizable maps.         *)
(***************************************************************************)
CompactsAlone ==
  \A t, u \in Threads :
    "Compact" \in Ops[t] /\ Ops[u] \cap {"put", "delete", "Compact"} # {} => u = t

(***************************************************************************)
(* SegmentDB is a linearizable map: operations on a key meet in one        *)
(* segment, and Compact returns after the last copy has been indexed, so   *)
(* that no later Put of its caller is undone.                              *)
(***************************************************************************)
SegLinearizable == Store!KVSpec
=============================================================================
