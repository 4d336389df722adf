---------------------------- MODULE RecencyList -----------------------------
(***************************************************************************)
(* What an LRU cache promises its users: a map whose entries stand in the  *)
(* order of their last use, oldest first.  An entry leaves it when it is   *)
(* removed, or when a new key is put and the oldest entries make room.     *)
(***************************************************************************)
EXTENDS Integers, Sequences

CONSTANTS Keys, Values, None

VARIABLES
  entries,  \* the entries, a sequence of key and value
  out       \* what the last call gave out: a value, or None

Entries == [key : Keys, value : Values]

Has(k) == \E i \in DOMAIN entries : entries[i].key = k

ValueOf(k) == (CHOOSE e \in Entries : \E i \in DOMAIN entries : entries[i] = e /\ e.key = k).value

Without(k) == SelectSeq(entries, LAMBDA e : e.key # k)

Newest(k, v) == Append(Without(k), [key |-> k, value |-> v])

RLInit == entries = << >> /\ out = None

Miss == out' = None /\ UNCHANGED entries

Get(k) == Has(k) /\ entries' = Newest(k, ValueOf(k)) /\ out' = ValueOf(k)

Remove(k) == Has(k) /\ entries' = Without(k) /\ out' = ValueOf(k)

Refresh(k, v) == Has(k) /\ entries' = Newest(k, v) /\ out' = None

\* Any number of entries may go for a new one: the oldest first.
Insert(k, v) ==
  /\ ~Has(k)
  /\ \E n \in 0 .. Len(entries) :
       entries' = Append(SubSeq(entries, n + 1, Len(entries)), [key |-> k, value |-> v])
  /\ out' = None

RLNext ==
  \E k \in Keys :
    \/ ~Has(k) /\ Miss
    \/ Get(k) \/ Remove(k)
    \/ \E v \in Values : Refresh(k, v) \/ Insert(k, v)

RLSpec == RLInit /\ [][RLNext]_<<entries, out>>
=============================================================================
