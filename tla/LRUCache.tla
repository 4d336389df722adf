------------------------------ MODULE LRUCache ------------------------------
(***************************************************************************)
(* pedrodb::LRUCache, pointer by pointer: a hash map from keys to entries  *)
(* on the heap, and a circular doubly linked list through them whose       *)
(* sentinel is lru_.  Its users (FileManager, SegmentCache) hold a mutex   *)
(* around every call, so a call is one step.                               *)
(***************************************************************************)
EXTENDS Integers, FiniteSets, Sequences

CONSTANTS
  Keys, Values,
  Nodes,       \* addresses the heap can give to an Entry
  Lru,         \* the address of lru_
  Null,        \* a null pointer, or no entry of keys_
  None,        \* no value
  Capacities   \* the capacities the cache may be made with

ASSUME LRUAssumption ==
  /\ IsFiniteSet(Nodes) /\ IsFiniteSet(Keys)
  /\ Cardinality(Nodes) > Cardinality(Keys)
  /\ Lru \notin Nodes
  /\ Null \notin Nodes \cup {Lru}
  /\ None \notin Values
  /\ Capacities \subseteq Nat

VARIABLES
  capacity,  \* capacity_
  keys,      \* keys_
  list,      \* prev and next of every entry and of lru_
  item,      \* key and value of every entry
  heap,      \* the entries that are allocated
  out        \* what the last call gave out: a value, or None

lruvars == <<capacity, keys, list, item, heap, out>>

Links == Nodes \cup {Lru}

Pointers == [Links -> Links \cup {Null}]

Size == Cardinality({k \in Keys : keys[k] # Null})

\* Every variable is in its type, and an allocated entry has its contents.
LRUTypeOK ==
  /\ capacity \in Capacities
  /\ keys \in [Keys -> Nodes \cup {Null}]
  /\ list \in [prev : Pointers, next : Pointers]
  /\ item \in [Nodes -> [key : Keys \cup {Null}, value : Values \cup {None}]]
  /\ heap \subseteq Nodes
  /\ \A p \in heap : item[p] \in [key : Keys, value : Values]
  /\ out \in Values \cup {None}

NoItem == [key |-> Null, value |-> None]

LRUInit ==
  /\ capacity \in Capacities
  /\ keys = [k \in Keys |-> Null]
  /\ list = LET p == [a \in Links |-> IF a = Lru THEN Lru ELSE Null]
            IN  [prev |-> p, next |-> p]
  /\ item = [a \in Nodes |-> NoItem]
  /\ heap = {}
  /\ out = None

-----------------------------------------------------------------------------
\* Bug: the successor's prev is left as it was.
UnlinkForward(l, p) == [l EXCEPT !.next[l.prev[p]] = l.next[p]]

\* Take p out of the list.
Unlink(l, p) ==
  [prev |-> [l.prev EXCEPT ![l.next[p]] = l.prev[p]],
   next |-> [l.next EXCEPT ![l.prev[p]] = l.next[p]]]

\* Bug: p goes to the front.
LinkFirst(l, p) ==
  LET first == l.next[Lru] IN
  [prev |-> [l.prev EXCEPT ![p] = Lru, ![first] = p],
   next |-> [l.next EXCEPT ![p] = first, ![Lru] = p]]

\* Put p before lru_, at the newest end.
LinkLast(l, p) ==
  LET last == l.prev[Lru] IN
  [prev |-> [l.prev EXCEPT ![p] = last, ![Lru] = p],
   next |-> [l.next EXCEPT ![p] = Lru, ![last] = p]]

\* Free(ptr): a pointer that was left to it leads nowhere.
FreeLinks(l, p) ==
  [prev |-> [l.prev EXCEPT ![p] = Null], next |-> [l.next EXCEPT ![p] = Null]]

Found(k) == capacity # 0 /\ keys[k] # Null

\* Get and Remove of a key that is not there; every call when capacity_ is 0.
NotFound(k) ==
  /\ ~Found(k)
  /\ out' = None
  /\ UNCHANGED <<capacity, keys, list, item, heap>>

Get(k) ==
  LET p == keys[k] IN
  /\ Found(k)
  /\ out' = item[p].value
  /\ list' = LinkLast(Unlink(list, p), p)
  /\ UNCHANGED <<capacity, keys, item, heap>>

\* Bug: the entry is emptied and unlinked, but not freed.
RemoveLeaks(k) ==
  LET p == keys[k] IN
  /\ Found(k)
  /\ out' = item[p].value
  /\ list' = FreeLinks(Unlink(list, p), p)
  /\ item' = [item EXCEPT ![p] = NoItem]
  /\ keys' = [keys EXCEPT ![k] = Null]
  /\ UNCHANGED <<capacity, heap>>

Remove(k) ==
  LET p == keys[k] IN
  /\ Found(k)
  /\ out' = item[p].value
  /\ list' = FreeLinks(Unlink(list, p), p)
  /\ item' = [item EXCEPT ![p] = NoItem]
  /\ heap' = heap \ {p}
  /\ keys' = [keys EXCEPT ![k] = Null]
  /\ UNCHANGED capacity

\* Put of a key that is there: it becomes the newest, with the new value.
Update(k, v) ==
  LET p == keys[k] IN
  /\ Found(k)
  /\ list' = LinkLast(Unlink(list, p), p)
  /\ item' = [item EXCEPT ![p] = [key |-> @.key, value |-> v]]
  /\ out' = None
  /\ UNCHANGED <<capacity, keys, heap>>

(***************************************************************************)
(* The entry that Evict drops, if any.  It returns at once while keys_ is  *)
(* not empty, and when keys_ is empty the list is.                         *)
(***************************************************************************)
Victims == IF Size # 0 \/ list.next[Lru] = Lru THEN {} ELSE {list.next[Lru]}

\* Put of a new key: room is made when the cache is about to be full.
Insert(k, v) ==
  \E p \in Nodes \ heap :
    LET victims == IF Size + 1 = capacity THEN Victims ELSE {}
        oldest  == list.next[Lru]
        left    == IF victims = {} THEN list ELSE FreeLinks(Unlink(list, oldest), oldest)
    IN  /\ capacity # 0
        /\ keys[k] = Null
        /\ list' = LinkLast(left, p)
        /\ item' = [item EXCEPT ![p] = [key |-> k, value |-> v]]
        /\ heap' = (heap \ victims) \cup {p}
        /\ keys' = [x \in Keys |-> IF x = k THEN p
                                   ELSE IF keys[x] \in victims THEN Null ELSE keys[x]]
        /\ out' = None
        /\ UNCHANGED capacity

LRUNext ==
  \E k \in Keys :
    \/ NotFound(k) \/ Get(k) \/ Remove(k)
    \/ \E v \in Values : Update(k, v) \/ Insert(k, v)

LRUSpec == LRUInit /\ [][LRUNext]_lruvars

-----------------------------------------------------------------------------
\* next and prev lead from link to link and undo each other.
Linked(l, links) ==
  \A a \in links :
    /\ l.next[a] \in links /\ l.prev[a] \in links
    /\ l.prev[l.next[a]] = a /\ l.next[l.prev[a]] = a

\* Following next from lru_ one comes to every link: it is one ring, not several.
OneRing(l, links) ==
  \A S \in SUBSET links :
    Lru \in S /\ (\A a \in S : l.next[a] \in S) => S = links

Ring(l, entries) == Linked(l, entries \cup {Lru}) /\ OneRing(l, entries \cup {Lru})

(***************************************************************************)
(* The list is one ring in both directions, goes through exactly the       *)
(* allocated entries, and keys_ finds each by its key: no pointer to an    *)
(* entry that was freed is ever followed, and none is cut off.             *)
(***************************************************************************)
ListSound ==
  /\ Ring(list, heap)
  /\ \A k \in Keys : keys[k] # Null => keys[k] \in heap /\ item[keys[k]].key = k
  /\ \A p \in heap : keys[item[p].key] = p

\* The entries from lru_.next on, with their keys and values.
ListedEntries ==
  LET walk[i \in 0 .. Cardinality(Nodes)] ==
        IF i = 0 THEN list.next[Lru] ELSE list.next[walk[i - 1]]
      len == Cardinality(heap)
  IN  [i \in 1 .. len |-> item[walk[i - 1]]]

Recency == INSTANCE RecencyList WITH entries <- ListedEntries

(***************************************************************************)
(* The cache implements the map in order of use: Get and Put make an entry *)
(* the newest, only the oldest ever makes room for a new key, and an       *)
(* answer is the last value put.                                           *)
(***************************************************************************)
KeepsRecency == Recency!RLSpec

(***************************************************************************)
(* The cache keeps to its capacity_: as many open files or cached blocks   *)
(* as it was made for.  Evict returns while keys_ is not empty, so Put     *)
(* goes beyond it.                                                         *)
(***************************************************************************)
WithinCapacity == Cardinality(heap) <= capacity
=============================================================================
