------------------------------ MODULE MemIndex ------------------------------
(***************************************************************************)
(* What DBImpl keeps in memory about the log: the index from keys to       *)
(* locations (indices_) and, per data file, the bytes known to be unused   *)
(* and the state of its compaction (file_states_, compact_tasks_).  The    *)
(* operators give the value of both after one record is applied; put,      *)
(* delete, compaction and recovery all go through them.                    *)
(***************************************************************************)
EXTENDS Records, SequencesExt

CONSTANTS
  NoDir,            \* a key that is not in indices_
  threshold_bytes   \* options.compaction.threshold_bytes

ASSUME ThresholdAssumption == threshold_bytes \in Nat

\* record::Dir.
Dir == [loc : Location, entry_size : Nat]

ASSUME NoDirAssumption == NoDir \notin Dir

CompactState == {"kNop", "kQueued", "kScheduling", "kCompacting"}

(***************************************************************************)
(* file_states_ and compact_tasks_; a file with no FileState has the       *)
(* default one.                                                            *)
(***************************************************************************)
Hints ==
  [free_bytes : [FileId -> Nat],
   compact_state : [FileId -> CompactState],
   compact_tasks : Seq(FileId)]

NoHints ==
  [free_bytes |-> [f \in FileId |-> 0],
   compact_state |-> [f \in FileId |-> "kNop"],
   compact_tasks |-> << >>]

DirOf(l, e) == [loc |-> l, entry_size |-> SizeOf(e)]

\* No file is in q twice.
NoRepeats(q) == \A i, j \in DOMAIN q : q[i] = q[j] => i = j

\* The bytes of the records of d, a file or a log, that S names.
BytesOf(d, S) == SumFunctionOnSet([l \in S |-> SizeOf(d[l])], S)

\* The queue holds the files whose state is kQueued, each of them once.
QueueSound(h) ==
  /\ NoRepeats(h.compact_tasks)
  /\ \A f \in FileId :
       Contains(h.compact_tasks, f) <=> h.compact_state[f] = "kQueued"

\* Bug: a file that is queued already is queued again.
UpdateUnusedRequeue(h, f, unused) ==
  LET free == h.free_bytes[f] + unused
      g    == [h EXCEPT !.free_bytes[f] = free]
  IN  IF free >= threshold_bytes /\ h.compact_state[f] \in {"kNop", "kQueued"}
      THEN [g EXCEPT !.compact_state[f] = "kQueued",
                     !.compact_tasks = Append(@, f)]
      ELSE g

\* Bug: the state says queued, but the file is not put in the queue.
UpdateUnusedLost(h, f, unused) ==
  LET free == h.free_bytes[f] + unused
      g    == [h EXCEPT !.free_bytes[f] = free]
  IN  IF free >= threshold_bytes /\ h.compact_state[f] = "kNop"
      THEN [g EXCEPT !.compact_state[f] = "kQueued"]
      ELSE g

\* DBImpl::UpdateUnused: enough unused bytes queue the file for compaction.
UpdateUnused(h, f, unused) ==
  LET free == h.free_bytes[f] + unused
      full == free >= threshold_bytes /\ h.compact_state[f] = "kNop"
  IN  [free_bytes |-> [h.free_bytes EXCEPT ![f] = free],
       compact_state |-> IF full THEN [h.compact_state EXCEPT ![f] = "kQueued"]
                                 ELSE h.compact_state,
       compact_tasks |-> IF full THEN Append(h.compact_tasks, f)
                                 ELSE h.compact_tasks]

\* The unused bytes of the record a directory entry points to.
Retire(h, dir) == UpdateUnused(h, dir.loc.id, dir.entry_size)

\* DBImpl::PollCompactTask: every queued file is now kScheduling.
PollCompactTask(h) ==
  [free_bytes |-> h.free_bytes,
   compact_state |-> [f \in FileId |->
      IF Contains(h.compact_tasks, f) THEN "kScheduling" ELSE h.compact_state[f]],
   compact_tasks |-> << >>]

\* DBImpl::Compact begins to scan the file.
MarkCompacting(h, f) ==
  [free_bytes |-> h.free_bytes,
   compact_state |-> [h.compact_state EXCEPT ![f] = "kCompacting"],
   compact_tasks |-> h.compact_tasks]

\* DBImpl::Compact's last step: file_states_.erase(id).
EraseState(h, f) ==
  [free_bytes |-> [h.free_bytes EXCEPT ![f] = 0],
   compact_state |-> [h.compact_state EXCEPT ![f] = "kNop"],
   compact_tasks |-> h.compact_tasks]

-----------------------------------------------------------------------------
(***************************************************************************)
(* DBImpl::HandlePut after Append, under the lock: entry e went to l.      *)
(***************************************************************************)
\* Bug: a deleted key is not erased but points to its tombstone.
IndexAfterPutTombstone(ix, l, e) == [ix EXCEPT ![e.key] = DirOf(l, e)]

IndexAfterPut(ix, l, e) ==
  [ix EXCEPT ![e.key] = IF e.type = "kSet" THEN DirOf(l, e) ELSE NoDir]

\* Bug: the replaced record is charged to the file of the new one.
HintsAfterPutNewFile(ix, h, l, e) ==
  IF ix[e.key] # NoDir
  THEN UpdateUnused(h, l.id, ix[e.key].entry_size)
  ELSE IF e.type = "kDelete" THEN UpdateUnused(h, l.id, SizeOf(e)) ELSE h

HintsAfterPut(ix, h, l, e) ==
  IF ix[e.key] # NoDir
  THEN Retire(h, ix[e.key])
  ELSE IF e.type = "kDelete" THEN UpdateUnused(h, l.id, SizeOf(e)) ELSE h

\* The result of HandlePut: deleting an absent key finds nothing.
PutStatus(ix, e) ==
  IF ix[e.key] = NoDir /\ e.type = "kDelete" THEN "kNotFound" ELSE "kOk"

(***************************************************************************)
(* DBImpl::Compact after Append, under the lock: the copy of e went to l.  *)
(* A key that was deleted meanwhile stays deleted.                         *)
(***************************************************************************)
\* Bug: the comparison is the wrong way round, the index keeps the old copy.
IndexAfterMoveBackwards(ix, l, e) ==
  IF ix[e.key] # NoDir /\ Before(l, ix[e.key].loc)
  THEN [ix EXCEPT ![e.key] = DirOf(l, e)]
  ELSE ix

IndexAfterMove(ix, l, e) ==
  IF ix[e.key] # NoDir /\ Before(ix[e.key].loc, l)
  THEN [ix EXCEPT ![e.key] = DirOf(l, e)]
  ELSE ix

HintsAfterMove(ix, h, l, e) ==
  IF ix[e.key] # NoDir /\ ~Before(ix[e.key].loc, l)
  THEN [free_bytes |-> [h.free_bytes EXCEPT ![l.id] = @ + SizeOf(e)],
        compact_state |-> h.compact_state,
        compact_tasks |-> h.compact_tasks]
  ELSE h

(***************************************************************************)
(* DBImpl::Recovery(id, entry): the record e found at l.                   *)
(***************************************************************************)
\* Bug: a tombstone does not erase the key.
IndexAfterReplayUndeleted(ix, l, e) ==
  IF e.type = "kDelete" \/ (ix[e.key] # NoDir /\ Before(l, ix[e.key].loc))
  THEN ix
  ELSE [ix EXCEPT ![e.key] = DirOf(l, e)]

IndexAfterReplay(ix, l, e) ==
  IF ix[e.key] # NoDir /\ Before(l, ix[e.key].loc)
  THEN ix
  ELSE [ix EXCEPT ![e.key] = IF e.type = "kSet" THEN DirOf(l, e) ELSE NoDir]

\* Bug: a tombstone that deletes something is not unused space itself.
HintsAfterReplayTombstone(ix, h, l, e) ==
  LET dir   == ix[e.key]
      stale == dir # NoDir /\ Before(l, dir.loc)
  IN  IF stale \/ (dir = NoDir /\ e.type = "kDelete")
      THEN UpdateUnused(h, l.id, SizeOf(e))
      ELSE IF dir = NoDir THEN h ELSE Retire(h, dir)

HintsAfterReplay(ix, h, l, e) ==
  LET own   == UpdateUnused(h, l.id, SizeOf(e))
      dir   == ix[e.key]
      stale == dir # NoDir /\ Before(l, dir.loc)
  IN  IF e.type = "kDelete"
      THEN IF dir = NoDir \/ stale THEN own ELSE Retire(own, dir)
      ELSE IF dir = NoDir THEN h ELSE IF stale THEN own ELSE Retire(h, dir)

\* PEDRODB_FATAL("meta.loc == loc should never happened").
ReplayFatal(ix, l, e) ==
  e.type = "kSet" /\ ix[e.key] # NoDir /\ ix[e.key].loc = l
=============================================================================
