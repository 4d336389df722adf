----------------------------- MODULE MCRecovery -----------------------------
(***************************************************************************)
(* Recovery of every log of up to MaxFile files with up to two records     *)
(* each, as Append packs them.                                             *)
(***************************************************************************)
EXTENDS Recovery

\* A value takes two units, a tombstone one.
MCSizeOf(e) == IF e.type = "kSet" THEN 2 ELSE 1

\* A file that holds the records of s one after the other.
Packed(s) ==
  [o \in Offset |->
     IF s # << >> /\ o = 0 THEN s[1]
     ELSE IF Len(s) = 2 /\ o = SizeOf(s[1]) THEN s[2]
     ELSE NoRecord]

FileContents == {Packed(s) : s \in {<< >>} \cup [1 .. 1 -> Entry] \cup [1 .. 2 -> Entry]}

MCLogs == {[l \in Location |-> c[l.id][l.offset]] : c \in [FileId -> FileContents]}
=============================================================================
