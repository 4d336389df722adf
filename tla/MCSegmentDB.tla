---------------------------- MODULE MCSegmentDB -----------------------------
(***************************************************************************)
(* A small instance of SegmentDB: three segments, two of them with a key.  *)
(***************************************************************************)
EXTENDS SegmentDB

CONSTANTS k1, k2, t1

MCHash == [k \in Keys |-> IF k = k1 THEN 2 ELSE 3]

\* One thread does everything, the others read and flush.
OneWriter ==
  [t \in Threads |-> IF t = t1 THEN {"put", "delete", "get", "Compact", "Flush"}
                    ELSE {"get", "Flush"}]

ASSUME CompactsAlone
=============================================================================
