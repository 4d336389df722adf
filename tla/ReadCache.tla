----------------------------- MODULE ReadCache ------------------------------
(***************************************************************************)
(* DBImpl with the read cache: HandleGet reads the record from blocks of   *)
(* its file, which ReadCache keeps in a SegmentCache of LRUCaches.  The    *)
(* LRU never evicts (module LRUCache), and nothing removes a block, so a   *)
(* block stays as it was read.  A cached block is the set of the records   *)
(* that were in its file when it was filled.  All blocks are taken to be   *)
(* in one segment of the cache, so that readers meet on its mutex.         *)
(***************************************************************************)
EXTENDS DBImpl

CONSTANTS
  kBlockBytes,  \* 1 << Block::kBit
  NotCached     \* a block the cache does not have

ASSUME BlockAssumption ==
  kBlockBytes \in Nat \ {0} /\ kMaxFileBytes % kBlockBytes = 0

VARIABLES
  blocks,    \* block_cache_
  cache_mu,  \* holder of the segment's mutex
  ctx        \* ReadCache::Context of every thread

cache  == <<blocks, cache_mu, ctx>>
rcvars == <<vars, cache>>

Block == 0 .. (kMaxFileBytes \div kBlockBytes - 1)

\* next: the block to read next; file: file_ is open; whole: the bytes so
\* far are those of the record.
NoContext == [next |-> 0, file |-> FALSE, whole |-> TRUE]

RCInit ==
  /\ DBInit
  /\ blocks = [f \in FileId |-> [b \in Block |-> NotCached]]
  /\ cache_mu = NoThread
  /\ ctx = [t \in Threads |-> NoContext]

-----------------------------------------------------------------------------
\* GetBlockIdx and GetOffset.
GetBlockIdx(o) == o \div kBlockBytes

GetOffset(b) == b * kBlockBytes

\* Under db_mu: the key is there, in a file below max_file_.
CachedLookup(t) ==
  LET found == indices[req[t].key] IN
  /\ In(t, "called")
  /\ req[t].op = "get"
  /\ db_mu = NoThread
  /\ found # NoDir
  /\ ~DirectlyRead(found.loc)
  /\ dir' = [dir EXCEPT ![t] = found]
  /\ ctx' = [ctx EXCEPT ![t] = [NoContext EXCEPT !.next = GetBlockIdx(found.loc.offset)]]
  /\ GoTo(t, "cached")
  /\ UNCHANGED <<fmvars, dbshared, req, ans, todo, next, scan, calls, blocks, cache_mu>>

\* ReadCache::Get is in its loop over the blocks of the record.
ReadsBlock(t) ==
  /\ In(t, "cached")
  /\ GetOffset(ctx[t].next) < dir[t].loc.offset + dir[t].entry_size

BlockOf(t) == blocks[dir[t].loc.id][ctx[t].next]

\* Append the record's slice of the block to the context, and go on.
TakeSlice(t, block, file) ==
  ctx' = [ctx EXCEPT ![t] =
    [next |-> @.next + 1, file |-> file,
     whole |-> @.whole /\ dir[t].loc.offset \in block]]

\* SegmentCache::GetOrCompute finds the block.
BlockHit(t) ==
  /\ ReadsBlock(t)
  /\ cache_mu = NoThread
  /\ BlockOf(t) # NotCached
  /\ TakeSlice(t, BlockOf(t), ctx[t].file)
  /\ UNCHANGED <<vars, blocks, cache_mu>>

\* What a Read of the block gives now.
OnDisk(f) == {o \in Offset : RecordAt(f, o)}

\* The supplier reads the block from file_, and the cache keeps it.
ReadBlock(t) ==
  LET f == dir[t].loc.id IN
  /\ blocks' = [blocks EXCEPT ![f][ctx[t].next] = OnDisk(f)]
  /\ TakeSlice(t, OnDisk(f), TRUE)

BlockMiss(t) ==
  /\ ReadsBlock(t)
  /\ cache_mu = NoThread
  /\ BlockOf(t) = NotCached
  /\ ctx[t].file
  /\ ReadBlock(t)
  /\ UNCHANGED <<vars, cache_mu>>

\* The first miss opens the file, holding the cache's mutex.
BlockOpen(t) ==
  /\ ReadsBlock(t)
  /\ cache_mu = NoThread
  /\ BlockOf(t) = NotCached
  /\ ~ctx[t].file
  /\ cache_mu' = t
  /\ AcquireCall(t, dir[t].loc.id)
  /\ GoTo(t, "cache_open")
  /\ UNCHANGED <<dbshared, req, ans, dir, todo, next, scan, calls, blocks, ctx>>

BlockOpened(t) ==
  /\ Returned(t, "cache_open", "kOk")
  /\ ReadBlock(t)
  /\ cache_mu' = NoThread
  /\ Return(t)
  /\ GoTo(t, "cached")
  /\ UNCHANGED <<dbshared, req, ans, dir, todo, next, scan, calls>>

\* The Get is over.
CachedReply(t, a) ==
  /\ Answer(t, a)
  /\ dir' = [dir EXCEPT ![t] = NoDir]
  /\ ctx' = [ctx EXCEPT ![t] = NoContext]

\* Nothing is cached; the mutex is released and Get fails.
BlockOpenFailed(t) ==
  /\ Returned(t, "cache_open", "kIOError")
  /\ CachedReply(t, Reply("kIOError", Empty))
  /\ cache_mu' = NoThread
  /\ Return(t)
  /\ UNCHANGED <<dbshared, req, todo, next, scan, calls, blocks>>

\* The file is open, but the Read of the block fails or is short.
BlockReadFailed(t) ==
  /\ DiskMayFail
  /\ CachedReply(t, Reply("kIOError", Empty))
  /\ \/ /\ ReadsBlock(t)
        /\ cache_mu = NoThread
        /\ BlockOf(t) = NotCached
        /\ ctx[t].file
        /\ UNCHANGED <<fmvars, cache_mu>>
     \/ /\ Returned(t, "cache_open", "kOk")
        /\ cache_mu' = NoThread
        /\ Return(t)
  /\ UNCHANGED <<dbshared, req, todo, next, scan, calls, blocks>>

\* Bug: the checksum of what the blocks gave is not validated.
CachedDoneUnchecked(t) ==
  /\ In(t, "cached")
  /\ ~ReadsBlock(t)
  /\ CachedReply(t, Reply("kOk", IF ctx[t].whole
                                 THEN data[dir[t].loc.id][dir[t].loc.offset].value
                                 ELSE Empty))
  /\ UNCHANGED <<fmvars, dbshared, req, todo, next, scan, calls, blocks, cache_mu>>

\* All blocks read: UnPack and Validate tell a record from stale bytes.
CachedDone(t) ==
  /\ In(t, "cached")
  /\ ~ReadsBlock(t)
  /\ LET v == data[dir[t].loc.id][dir[t].loc.offset].value IN
     CachedReply(t, IF ctx[t].whole /\ v \notin Torn
                    THEN Reply("kOk", v)
                    ELSE Reply("kCorruption", Empty))
  /\ UNCHANGED <<fmvars, dbshared, req, todo, next, scan, calls, blocks, cache_mu>>

CachedGet(t) ==
  \/ CachedLookup(t)
  \/ BlockHit(t) \/ BlockMiss(t)
  \/ BlockOpen(t) \/ BlockOpened(t) \/ BlockOpenFailed(t)
  \/ BlockReadFailed(t) \/ CachedDone(t)

RCNext ==
  \/ \E t \in Threads : (Step(t) /\ UNCHANGED cache) \/ CachedGet(t)
  \/ (SyncFailed \/ DBTerminating) /\ UNCHANGED cache

RCSpec == RCInit /\ [][RCNext]_rcvars
=============================================================================
