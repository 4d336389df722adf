------------------------------ MODULE Records ------------------------------
(***************************************************************************)
(* The data pedrodb stores: records, their sizes, and their locations in   *)
(* the numbered data files.  Keys and values are opaque; compression       *)
(* (snappy) and the byte layout of a record only show in its size.         *)
(***************************************************************************)
EXTENDS Integers

CONSTANTS
  Keys,           \* the keys clients use
  Values,         \* the non-empty values clients put
  Empty,          \* the empty value: Put(k, {}) is Delete(k)
  NoRecord,       \* zero bytes in a data file (record type kEmpty)
  SizeOf(_),      \* Entry::SizeOf(): header, key and compressed value
  kMaxFileBytes,  \* length every data file is reserved with
  MaxFile         \* bound: the highest data file number of the model

(***************************************************************************)
(* Entry::type is kSet exactly when the value put is not empty.            *)
(***************************************************************************)
Entry ==
  [type : {"kSet"}, key : Keys, value : Values]
    \cup [type : {"kDelete"}, key : Keys, value : {Empty}]

ASSUME CapacityAssumption == kMaxFileBytes \in Nat \ {0}
ASSUME MaxFileAssumption  == MaxFile \in Nat \ {0}
ASSUME SizeAssumption     == \A e \in Entry : SizeOf(e) \in Nat \ {0}
ASSUME HoleAssumption     == NoRecord \notin Entry
ASSUME EmptyAssumption    == Empty \notin Values

FileId   == 1 .. MaxFile
Offset   == 0 .. (kMaxFileBytes - 1)
Location == [id : FileId, offset : Offset]

\* record::Location::operator<, a lexicographic order.
Before(l, m) == IF l.id # m.id THEN l.id < m.id ELSE l.offset < m.offset

(***************************************************************************)
(* The contents of a data file: the record that starts at each offset.     *)
(***************************************************************************)
Contents == [Offset -> Entry \cup {NoRecord}]

Blank == [o \in Offset |-> NoRecord]

(***************************************************************************)
(* RecordIterator::Valid() at offset o: fetch() declines to read up to the *)
(* very last byte of the file (read_index_ + fetch >= size_), so a record  *)
(* that ends exactly at the end of its file does not come out.             *)
(***************************************************************************)
IterValid(d, o) ==
  /\ o \in Offset
  /\ d[o] # NoRecord
  /\ o + SizeOf(d[o]) < kMaxFileBytes

(***************************************************************************)
(* Where FileManager::CreateFile's UnPack loop stops: after the last       *)
(* record of the unbroken run of records that starts at offset 0.          *)
(***************************************************************************)
RebuildOffset(d) ==
  LET walk[o \in 0 .. kMaxFileBytes] ==
        IF o \in Offset /\ d[o] # NoRecord
        THEN walk[o + SizeOf(d[o])]
        ELSE o
  IN  IF d[0] = NoRecord THEN 0 ELSE walk[0]
=============================================================================
