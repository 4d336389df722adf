----------------------------- MODULE MCReadCache ----------------------------
(***************************************************************************)
(* A small instance of ReadCache: t1 puts and compacts, the others read.   *)
(***************************************************************************)
EXTENDS ReadCache

CONSTANTS t1, t2

\* A value takes four units, a tombstone two.
MCSizeOf(e) == IF e.type = "kSet" THEN 4 ELSE 2

AllKeys == [t \in Threads |-> Keys]

WriterAndReaders ==
  [t \in Threads |-> IF t = t1 THEN {"put", "Compact"} ELSE {"get"}]

\* Two Puts, a compaction and one more; two Gets.
MCMaxCalls == [t \in Threads |-> IF t = t1 THEN 4 ELSE 2]
=============================================================================
