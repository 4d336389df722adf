------------------------------ MODULE MCDBImpl ------------------------------
(***************************************************************************)
(* Small instances of DBImpl: what each thread does in each of the runs.   *)
(* Record sizes are even.  Where compactions run files are odd, so that no *)
(* record ends at the last byte of its file.                               *)
(***************************************************************************)
EXTENDS DBImpl

CONSTANTS t1, t2

\* A value takes four units, a tombstone two.
MCSizeOf(e) == IF e.type = "kSet" THEN 4 ELSE 2

AllKeys == [t \in Threads |-> Keys]

\* Every thread is a client.
Clients == [t \in Threads |-> {"put", "delete", "get"}]

\* One thread does everything.
WriteAndCompact == [t \in Threads |-> {"put", "delete", "Compact"}]

\* t2 is the background worker, the others are clients.
ClientAndWorker ==
  [t \in Threads |-> IF t = t2 THEN {"worker"} ELSE {"put", "delete", "Compact"}]

\* The same with a client that also reads.
ReaderAndWorker ==
  [t \in Threads |-> IF t = t2 THEN {"worker"} ELSE {"put", "delete", "get", "Compact"}]

TwoCalls == [t \in Threads |-> 2]

ThreeCalls == [t \in Threads |-> 3]

SevenCalls == [t \in Threads |-> 7]
=============================================================================
