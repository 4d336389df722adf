---------------------------- MODULE MCDurability ----------------------------
(***************************************************************************)
(* A small instance of Durability: two writers with a key each, the first  *)
(* of which writes synchronously.                                          *)
(***************************************************************************)
EXTENDS Durability

CONSTANTS t1, t2, k1, k2

\* A value takes two units, a tombstone one.
MCSizeOf(e) == IF e.type = "kSet" THEN 2 ELSE 1

\* Records that never end at the last byte of a file of three units.
TwoUnits(e) == 2

\* t1 puts its key, the others put and delete theirs.
OneKeyEach ==
  [t \in Threads |-> IF t = t1 THEN {e \in Entry : e.key = k1 /\ e.type = "kSet"}
                    ELSE {e \in Entry : e.key = k2}]
=============================================================================
