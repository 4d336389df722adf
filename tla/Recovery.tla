------------------------------ MODULE Recovery ------------------------------
(***************************************************************************)
(* DBImpl::Recovery: rebuild the index and the compaction hints from the   *)
(* files the metadata lists, in ascending order, each from its index file  *)
(* or, if there is none, by scanning its data file.  log holds the records *)
(* those iterators return; one step handles one of them.                   *)
(***************************************************************************)
EXTENDS MemIndex

CONSTANTS
  Logs,         \* what the files on disk may hold
  FilesMayFail  \* whether neither file of a pair may be readable

Log == [Location -> Entry \cup {NoRecord}]

ASSUME LogsAssumption == Logs \subseteq Log
ASSUME FilesAssumption == FilesMayFail \in BOOLEAN

VARIABLES
  log,       \* the records on disk
  pending,   \* listed files that are not read yet
  cur,       \* the file being read, 0 before the first
  pos,       \* how far its iterator has come
  replayed,  \* history: the locations of the records handled so far
  indices,   \* indices_
  hints,     \* file_states_ and compact_tasks_
  max_file,  \* max_file_
  status     \* "kOk", "kIOError" (Init fails) or "fatal" (PEDRODB_FATAL)

recvars == <<log, pending, cur, pos, replayed, indices, hints, max_file, status>>

\* Every variable of a recovery is in its type.
RecTypeOK ==
  /\ log \in Log
  /\ pending \in SUBSET FileId
  /\ cur \in FileId \cup {0}
  /\ pos \in Nat
  /\ replayed \in SUBSET Location
  /\ indices \in [Keys -> Dir \cup {NoDir}]
  /\ hints \in Hints
  /\ max_file \in FileId \cup {0}
  /\ status \in {"kOk", "kIOError", "fatal"}

RecInit ==
  /\ log \in Logs
  /\ pending \in SUBSET FileId
  /\ cur = 0
  /\ pos = 0
  /\ replayed = {}
  /\ indices = [k \in Keys |-> NoDir]
  /\ hints = NoHints
  /\ max_file = 0
  /\ status = "kOk"

\* The records that the iterator over the current file has ahead of it.
Rest == {o \in Offset : cur # 0 /\ pos <= o /\ log[[id |-> cur, offset |-> o]] # NoRecord}

\* Bug: the files are not taken in ascending order.
OpenFileAnyOrder(f) ==
  /\ status = "kOk"
  /\ Rest = {}
  /\ pending' = pending \ {f}
  /\ cur' = f
  /\ pos' = 0
  /\ max_file' = IF max_file < f THEN f ELSE max_file
  /\ UNCHANGED <<log, replayed, indices, hints, status>>

\* Bug: max_file_ stays at the first file.
OpenFileFirstMax(f) ==
  /\ status = "kOk"
  /\ Rest = {}
  /\ \A g \in pending : f <= g
  /\ pending' = pending \ {f}
  /\ cur' = f
  /\ pos' = 0
  /\ max_file' = IF max_file = 0 THEN f ELSE max_file
  /\ UNCHANGED <<log, replayed, indices, hints, status>>

\* Bug: the data file is read too, after the index file.
OpenFileTwice(f) ==
  /\ status = "kOk"
  /\ Rest = {}
  /\ \A g \in pending : f <= g
  /\ pending' = IF cur = f THEN pending \ {f} ELSE pending
  /\ cur' = f
  /\ pos' = 0
  /\ max_file' = IF max_file < f THEN f ELSE max_file
  /\ UNCHANGED <<log, replayed, indices, hints, status>>

\* The next file of GetFiles(), a std::set, with a new iterator.
OpenFile(f) ==
  /\ status = "kOk"
  /\ Rest = {}
  /\ \A g \in pending : f <= g
  /\ pending' = pending \ {f}
  /\ cur' = f
  /\ pos' = 0
  /\ max_file' = IF max_file < f THEN f ELSE max_file
  /\ UNCHANGED <<log, replayed, indices, hints, status>>

\* Neither the index file nor the data file opens: Init fails.
OpenFileFailed(f) ==
  /\ FilesMayFail
  /\ status = "kOk"
  /\ Rest = {}
  /\ \A g \in pending : f <= g
  /\ max_file' = IF max_file < f THEN f ELSE max_file
  /\ status' = "kIOError"
  /\ UNCHANGED <<log, pending, cur, pos, replayed, indices, hints>>

\* Recovery(id, entry) for the next record of the file; the iterator moves on.
ReplayEntry(o) ==
  LET l == [id |-> cur, offset |-> o]
      e == log[l]
  IN
  /\ status = "kOk"
  /\ \A p \in Rest : o <= p
  /\ pos' = o + SizeOf(e)
  /\ replayed' = replayed \cup {l}
  /\ indices' = IndexAfterReplay(indices, l, e)
  /\ hints' = HintsAfterReplay(indices, hints, l, e)
  /\ status' = IF ReplayFatal(indices, l, e) THEN "fatal" ELSE "kOk"
  /\ UNCHANGED <<log, pending, cur, max_file>>

RecStep ==
  \/ \E f \in pending : OpenFile(f) \/ OpenFileFailed(f)
  \/ \E o \in Rest : ReplayEntry(o)

Recovered == status # "kOk" \/ (pending = {} /\ Rest = {})

RecNext == RecStep \/ (Recovered /\ UNCHANGED recvars)

RecSpec == RecInit /\ [][RecNext]_recvars

RecLiveSpec == RecSpec /\ WF_recvars(RecStep)

-----------------------------------------------------------------------------
IsSet(l, k)    == log[l] # NoRecord /\ log[l].type = "kSet" /\ log[l].key = k
IsDelete(l, k) == log[l] # NoRecord /\ log[l].type = "kDelete" /\ log[l].key = k

(***************************************************************************)
(* The index holds, for every key, the last record replayed if that is a   *)
(* value, and nothing if it is a tombstone or there is none.               *)
(***************************************************************************)
IndexIsLatest ==
  \A k \in Keys :
    /\ indices[k] # NoDir =>
         /\ indices[k].loc \in replayed
         /\ IsSet(indices[k].loc, k)
         /\ indices[k].entry_size = SizeOf(log[indices[k].loc])
         /\ \A m \in replayed : IsSet(m, k) \/ IsDelete(m, k)
              => m = indices[k].loc \/ Before(m, indices[k].loc)
    /\ indices[k] = NoDir =>
         \A l \in replayed : IsSet(l, k) =>
           \E m \in replayed : IsDelete(m, k) /\ Before(l, m)

(***************************************************************************)
(* Recovery never comes to a record that the index points to already       *)
(* ("never happen"): no file and no record is read twice.                  *)
(***************************************************************************)
NeverFatal == status # "fatal"

\* The replayed records of file f that the index does not point to.
Dead(f) == {l \in replayed : l.id = f /\ \A k \in Keys : indices[k] = NoDir \/ indices[k].loc # l}

(***************************************************************************)
(* Recovery counts every unused byte, tombstones included, exactly once.   *)
(***************************************************************************)
FreeIsDead == \A f \in FileId : hints.free_bytes[f] = BytesOf(log, Dead(f))

(***************************************************************************)
(* A file with unused records is queued once, for the compaction after the *)
(* start, if its unused bytes reach the threshold; no other file is.       *)
(***************************************************************************)
QueuedOnce ==
  /\ NoRepeats(hints.compact_tasks)
  /\ \A f \in FileId :
       Contains(hints.compact_tasks, f)
         <=> hints.free_bytes[f] >= threshold_bytes /\ Dead(f) # {}

\* Recovery ends, and max_file_ is then the last listed file.
RecoveryEnds == <>(Recovered /\ (status = "kOk" => max_file = cur))

-----------------------------------------------------------------------------
(***************************************************************************)
(* Why the index is right: records come in the order of their locations,   *)
(* those of the current file lie behind the iterator.                      *)
(***************************************************************************)
OrderInv ==
  /\ \A l \in replayed : log[l] # NoRecord /\ l.id <= cur
  /\ \A f \in pending : cur < f
  /\ \A l \in replayed : l.id = cur => l.offset < pos

\* What is true throughout DBImpl::Recovery: the inductive invariant.
RecInv == RecTypeOK /\ OrderInv /\ IndexIsLatest /\ NeverFatal
=============================================================================
