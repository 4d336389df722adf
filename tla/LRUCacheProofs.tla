--------------------------- MODULE LRUCacheProofs ---------------------------
(***************************************************************************)
(* The pointer surgery of LRUCache, for any number of keys and entries:    *)
(* the list stays one ring through the allocated entries, keys_ agrees     *)
(* with it, and Evict never drops an entry.                                *)
(***************************************************************************)
EXTENDS LRUCache, FiniteSetTheorems, TLAPS

ListType == [prev : Pointers, next : Pointers]

-----------------------------------------------------------------------------
(***************************************************************************)
(* The operations on the links.                                            *)
(***************************************************************************)
LEMMA PairType ==
  ASSUME NEW a \in Pointers, NEW b \in Pointers
  PROVE  [prev |-> a, next |-> b] \in ListType
BY DEF ListType

LEMMA UnlinkFields ==
  ASSUME NEW l \in ListType, NEW H \in SUBSET Nodes, NEW p \in H, Ring(l, H)
  PROVE  /\ Unlink(l, p) \in ListType
         /\ l.next[p] \in Links /\ l.prev[p] \in Links
         /\ \A a \in Links : Unlink(l, p).prev[a] =
              IF a = l.next[p] THEN l.prev[p] ELSE l.prev[a]
         /\ \A a \in Links : Unlink(l, p).next[a] =
              IF a = l.prev[p] THEN l.next[p] ELSE l.next[a]
<1> DEFINE P == [l.prev EXCEPT ![l.next[p]] = l.prev[p]]
           N == [l.next EXCEPT ![l.prev[p]] = l.next[p]]
<1>1. l.prev \in Pointers /\ l.next \in Pointers
  BY DEF ListType
<1>2. l.next[p] \in Links /\ l.prev[p] \in Links
  BY DEF Ring, Linked, Links
<1>3. P \in Pointers /\ N \in Pointers
  BY <1>1, <1>2 DEF Pointers
<1>4. \A a \in Links : /\ P[a] = IF a = l.next[p] THEN l.prev[p] ELSE l.prev[a]
                       /\ N[a] = IF a = l.prev[p] THEN l.next[p] ELSE l.next[a]
  BY <1>1, <1>2 DEF Pointers
<1>5. Unlink(l, p) = [prev |-> P, next |-> N]
  BY DEF Unlink
<1> HIDE DEF P, N
<1>6. Unlink(l, p) \in ListType
  BY <1>3, <1>5, PairType
<1> QED
  BY <1>2, <1>4, <1>5, <1>6

LEMMA LinkFields ==
  ASSUME NEW l \in ListType, NEW p \in Nodes, l.prev[Lru] \in Links
  PROVE  /\ LinkLast(l, p) \in ListType
         /\ \A a \in Links : LinkLast(l, p).prev[a] =
              IF a = Lru THEN p ELSE IF a = p THEN l.prev[Lru] ELSE l.prev[a]
         /\ \A a \in Links : LinkLast(l, p).next[a] =
              IF a = l.prev[Lru] THEN p ELSE IF a = p THEN Lru ELSE l.next[a]
<1> DEFINE P == [l.prev EXCEPT ![p] = l.prev[Lru], ![Lru] = p]
           N == [l.next EXCEPT ![p] = Lru, ![l.prev[Lru]] = p]
<1>1. l.prev \in Pointers /\ l.next \in Pointers /\ p \in Links /\ Lru \in Links
  BY DEF ListType, Links
<1>3. P \in Pointers /\ N \in Pointers
  BY <1>1 DEF Pointers
<1>4. \A a \in Links :
        /\ P[a] = IF a = Lru THEN p ELSE IF a = p THEN l.prev[Lru] ELSE l.prev[a]
        /\ N[a] = IF a = l.prev[Lru] THEN p ELSE IF a = p THEN Lru ELSE l.next[a]
  BY <1>1 DEF Pointers
<1>5. LinkLast(l, p) = [prev |-> P, next |-> N]
  BY DEF LinkLast
<1> HIDE DEF P, N
<1>6. LinkLast(l, p) \in ListType
  BY <1>3, <1>5, PairType
<1> QED
  BY <1>4, <1>5, <1>6

LEMMA FreeFields ==
  ASSUME NEW l \in ListType, NEW p \in Nodes
  PROVE  /\ FreeLinks(l, p) \in ListType
         /\ \A a \in Links : a # p =>
              FreeLinks(l, p).prev[a] = l.prev[a] /\ FreeLinks(l, p).next[a] = l.next[a]
<1> DEFINE P == [l.prev EXCEPT ![p] = Null]
           N == [l.next EXCEPT ![p] = Null]
<1>1. l.prev \in Pointers /\ l.next \in Pointers
  BY DEF ListType
<1>3. P \in Pointers /\ N \in Pointers
  BY <1>1 DEF Pointers
<1>4. \A a \in Links : a # p => P[a] = l.prev[a] /\ N[a] = l.next[a]
  BY <1>1 DEF Pointers
<1>5. FreeLinks(l, p) = [prev |-> P, next |-> N]
  BY DEF FreeLinks
<1> HIDE DEF P, N
<1>6. FreeLinks(l, p) \in ListType
  BY <1>3, <1>5, PairType
<1> QED
  BY <1>4, <1>5, <1>6

\* Taking an entry out leaves a ring of the others.
LEMMA UnlinkRing ==
  ASSUME NEW l \in ListType, NEW H \in SUBSET Nodes, NEW p \in H, Ring(l, H)
  PROVE  Unlink(l, p) \in ListType /\ Ring(Unlink(l, p), H \ {p})
<1> DEFINE m == Unlink(l, p)
           L == H \cup {Lru}
           M == (H \ {p}) \cup {Lru}
<1>1. /\ m \in ListType
      /\ \A a \in Links : m.prev[a] = IF a = l.next[p] THEN l.prev[p] ELSE l.prev[a]
      /\ \A a \in Links : m.next[a] = IF a = l.prev[p] THEN l.next[p] ELSE l.next[a]
  BY UnlinkFields
<1> HIDE DEF m
<1>2. /\ L \subseteq Links /\ M = L \ {p} /\ p \in L /\ Lru \in M /\ p # Lru
  BY LRUAssumption DEF Links
<1> HIDE DEF L, M
<1>3. /\ \A a \in L : /\ l.next[a] \in L /\ l.prev[a] \in L
                      /\ l.prev[l.next[a]] = a /\ l.next[l.prev[a]] = a
      /\ \A S \in SUBSET L : Lru \in S /\ (\A a \in S : l.next[a] \in S) => S = L
  BY DEF Ring, Linked, OneRing, L
\* p has other neighbours than itself: alone it would be a ring without lru_.
<1>4. l.next[p] # p /\ l.prev[p] # p
  <2>1. l.next[p] = p <=> l.prev[p] = p
    BY <1>2, <1>3
  <2>2. ASSUME l.next[p] = p PROVE FALSE
    <3>1. \A a \in M : l.next[a] \in M
      BY <1>2, <1>3, <2>1, <2>2
    <3>2. M = L
      BY <1>2, <1>3, <3>1
    <3> QED
      BY <1>2, <3>2
  <2> QED
    BY <2>1, <2>2
<1>5. Linked(m, M)
  <2> SUFFICES ASSUME NEW a \in M
               PROVE  /\ m.next[a] \in M /\ m.prev[a] \in M
                      /\ m.prev[m.next[a]] = a /\ m.next[m.prev[a]] = a
    BY DEF Linked
  <2>1. m.next[a] \in M /\ m.prev[a] \in M
    BY <1>1, <1>2, <1>3, <1>4
  <2>2. m.prev[m.next[a]] = a
    BY <1>1, <1>2, <1>3, <1>4, <2>1
  <2>3. m.next[m.prev[a]] = a
    BY <1>1, <1>2, <1>3, <1>4, <2>1
  <2> QED
    BY <2>1, <2>2, <2>3
<1>6. OneRing(m, M)
  <2> SUFFICES ASSUME NEW S \in SUBSET M, Lru \in S, \A a \in S : m.next[a] \in S
               PROVE  S = M
    BY DEF OneRing
  <2>1. l.prev[p] \in S
    <3> SUFFICES ASSUME l.prev[p] \notin S PROVE FALSE
      OBVIOUS
    <3>1. \A a \in S : l.next[a] \in S
      BY <1>1, <1>2
    <3>2. S = L
      BY <1>2, <1>3, <3>1
    <3> QED
      BY <1>2, <3>2
  <2>2. l.next[p] \in S
    BY <1>1, <1>2, <2>1
  <2>3. \A a \in S \cup {p} : l.next[a] \in S \cup {p}
    BY <1>1, <1>2, <1>3, <2>2
  <2>4. S \cup {p} \in SUBSET L /\ Lru \in S \cup {p}
    BY <1>2
  <2>5. S \cup {p} = L
    BY <1>3, <2>3, <2>4
  <2> QED
    BY <1>2, <2>5
<1> QED
  BY <1>1, <1>5, <1>6 DEF Ring, m, M

\* Putting an entry before lru_ makes a ring of it and the others.
LEMMA LinkRing ==
  ASSUME NEW l \in ListType, NEW H \in SUBSET Nodes, NEW p \in Nodes \ H, Ring(l, H)
  PROVE  LinkLast(l, p) \in ListType /\ Ring(LinkLast(l, p), H \cup {p})
<1> DEFINE m == LinkLast(l, p)
           L == H \cup {Lru}
           M == (H \cup {p}) \cup {Lru}
<1>1. l.prev[Lru] \in L /\ L \subseteq Links
  BY DEF Ring, Linked, Links
<1>2. /\ m \in ListType
      /\ \A a \in Links : m.prev[a] =
           IF a = Lru THEN p ELSE IF a = p THEN l.prev[Lru] ELSE l.prev[a]
      /\ \A a \in Links : m.next[a] =
           IF a = l.prev[Lru] THEN p ELSE IF a = p THEN Lru ELSE l.next[a]
  BY <1>1, LinkFields
<1> HIDE DEF m
<1>3. M \subseteq Links /\ M = L \cup {p} /\ p \notin L /\ Lru \in L
  BY LRUAssumption DEF Links
<1>4. /\ \A a \in L : /\ l.next[a] \in L /\ l.prev[a] \in L
                      /\ l.prev[l.next[a]] = a /\ l.next[l.prev[a]] = a
      /\ \A S \in SUBSET L : Lru \in S /\ (\A a \in S : l.next[a] \in S) => S = L
  BY DEF Ring, Linked, OneRing
<1> HIDE DEF L, M
<1>5. Linked(m, M)
  <2> SUFFICES ASSUME NEW a \in M
               PROVE  /\ m.next[a] \in M /\ m.prev[a] \in M
                      /\ m.prev[m.next[a]] = a /\ m.next[m.prev[a]] = a
    BY DEF Linked
  <2>1. m.next[a] \in M /\ m.prev[a] \in M
    BY <1>2, <1>3, <1>4
  <2>2. m.prev[m.next[a]] = a
    BY <1>2, <1>3, <1>4, <2>1
  <2>3. m.next[m.prev[a]] = a
    BY <1>2, <1>3, <1>4, <2>1
  <2> QED
    BY <2>1, <2>2, <2>3
<1>6. OneRing(m, M)
  <2> SUFFICES ASSUME NEW S \in SUBSET M, Lru \in S, \A a \in S : m.next[a] \in S
               PROVE  S = M
    BY DEF OneRing
  <2>1. \A a \in S \ {p} : l.next[a] \in S \ {p}
    BY <1>2, <1>3, <1>4
  <2>2. S \ {p} = L
    BY <1>3, <1>4, <2>1
  <2>3. l.prev[Lru] \in S
    BY <1>3, <1>4, <2>2
  <2>4. p \in S
    BY <1>2, <1>3, <1>4, <2>3
  <2> QED
    BY <1>3, <2>2, <2>4
<1> QED
  BY <1>2, <1>5, <1>6 DEF Ring, m, M

\* Freeing an entry that is not in the ring changes nothing in it.
LEMMA FreeRing ==
  ASSUME NEW l \in ListType, NEW H \in SUBSET Nodes, NEW p \in Nodes \ H, Ring(l, H)
  PROVE  FreeLinks(l, p) \in ListType /\ Ring(FreeLinks(l, p), H)
<1> DEFINE m == FreeLinks(l, p)
<1>1. /\ m \in ListType
      /\ \A a \in Links : a # p => m.prev[a] = l.prev[a] /\ m.next[a] = l.next[a]
  BY FreeFields
<1> HIDE DEF m
<1>2. \A a \in H \cup {Lru} : a \in Links /\ a # p
  BY LRUAssumption DEF Links
<1>3. Linked(m, H \cup {Lru})
  BY <1>1, <1>2 DEF Ring, Linked
<1>4. OneRing(m, H \cup {Lru})
  BY <1>1, <1>2 DEF Ring, OneRing
<1> QED
  BY <1>1, <1>3, <1>4 DEF Ring, m

-----------------------------------------------------------------------------
(***************************************************************************)
(* The invariant.                                                          *)
(***************************************************************************)
LRUInv == LRUTypeOK /\ ListSound

LEMMA ItemType ==
  ASSUME NEW k \in Keys, NEW v \in Values
  PROVE  /\ [key |-> k, value |-> v] \in [key : Keys, value : Values]
         /\ [key |-> k, value |-> v] \in [key : Keys \cup {Null}, value : Values \cup {None}]
OBVIOUS

\* Evict drops nothing: while there are entries it returns, else the list is empty.
LEMMA NoVictims ==
  ASSUME LRUInv
  PROVE  Victims = {}
<1> SUFFICES ASSUME Size = 0 PROVE list.next[Lru] = Lru
  BY DEF Victims
<1> DEFINE K == {k \in Keys : keys[k] # Null}
<1>1. IsFiniteSet(K)
  BY LRUAssumption, FS_Subset
<1>2. Cardinality(K) = 0
  BY DEF Size
<1> HIDE DEF K
<1>3. K = {}
  BY <1>1, <1>2, FS_EmptySet
<1>4. heap = {}
  <2> SUFFICES ASSUME NEW p \in heap PROVE FALSE
    OBVIOUS
  <2>1. item[p].key \in Keys /\ keys[item[p].key] = p /\ p # Null
    BY LRUAssumption DEF LRUInv, LRUTypeOK, ListSound
  <2> QED
    BY <1>3, <2>1 DEF K
<1> QED
  BY <1>4 DEF LRUInv, ListSound, Ring, Linked

LEMMA InitLRUInv == LRUInit => LRUInv
<1> SUFFICES ASSUME LRUInit PROVE LRUInv
  OBVIOUS
<1> DEFINE P == [a \in Links |-> IF a = Lru THEN Lru ELSE Null]
<1>1. P \in Pointers /\ P[Lru] = Lru
  BY DEF Pointers, Links
<1>2. list = [prev |-> P, next |-> P]
  BY DEF LRUInit
<1> HIDE DEF P
<1>3. list \in [prev : Pointers, next : Pointers]
  BY <1>1, <1>2
<1>4. LRUTypeOK
  BY <1>3 DEF LRUInit, LRUTypeOK, NoItem
<1>5. Ring(list, {})
  <2>1. {} \cup {Lru} = {Lru}
    OBVIOUS
  <2>2. Linked(list, {Lru})
    BY <1>1, <1>2 DEF Linked
  <2>3. OneRing(list, {Lru})
    BY DEF OneRing
  <2> QED
    BY <2>1, <2>2, <2>3 DEF Ring
<1>6. ListSound
  BY <1>5 DEF LRUInit, ListSound
<1> QED
  BY <1>4, <1>6 DEF LRUInv

\* The entry of a key that is there, and what a use makes of the list.
LEMMA FoundEntry ==
  ASSUME LRUInv, NEW k \in Keys, Found(k)
  PROVE  /\ keys[k] \in heap /\ keys[k] \in Nodes /\ item[keys[k]].key = k
         /\ item[keys[k]].value \in Values
         /\ LET m == LinkLast(Unlink(list, keys[k]), keys[k]) IN
            m \in ListType /\ Ring(m, heap)
         /\ LET m == FreeLinks(Unlink(list, keys[k]), keys[k]) IN
            m \in ListType /\ Ring(m, heap \ {keys[k]})
<1> DEFINE p == keys[k]
           u == Unlink(list, p)
<1>1. p \in heap /\ heap \in SUBSET Nodes /\ item[p].key = k /\ item[p].value \in Values
  BY DEF LRUInv, LRUTypeOK, ListSound, Found
<1>2. list \in ListType /\ Ring(list, heap)
  BY DEF LRUInv, LRUTypeOK, ListSound, ListType
<1> HIDE DEF p
<1>3. u \in ListType /\ Ring(u, heap \ {p})
  BY <1>1, <1>2, UnlinkRing
<1> HIDE DEF u
<1>4. heap \ {p} \in SUBSET Nodes /\ p \in Nodes \ (heap \ {p}) /\ (heap \ {p}) \cup {p} = heap
  BY <1>1
<1>5. LinkLast(u, p) \in ListType /\ Ring(LinkLast(u, p), (heap \ {p}) \cup {p})
  BY <1>3, <1>4, LinkRing
<1>6. FreeLinks(u, p) \in ListType /\ Ring(FreeLinks(u, p), heap \ {p})
  BY <1>3, <1>4, FreeRing
<1> QED
  BY <1>1, <1>4, <1>5, <1>6 DEF u, p

LEMMA GetInv ==
  ASSUME LRUInv, NEW k \in Keys, Get(k)
  PROVE  LRUInv'
<1>1. Found(k) /\ list' = LinkLast(Unlink(list, keys[k]), keys[k])
      /\ out' = item[keys[k]].value /\ UNCHANGED <<capacity, keys, item, heap>>
  BY DEF Get
<1>2. list' \in ListType /\ Ring(list', heap) /\ out' \in Values
  BY <1>1, FoundEntry
<1> QED
  BY <1>1, <1>2 DEF LRUInv, LRUTypeOK, ListSound, ListType

LEMMA UpdateInv ==
  ASSUME LRUInv, NEW k \in Keys, NEW v \in Values, Update(k, v)
  PROVE  LRUInv'
<1> DEFINE p == keys[k]
<1>1. /\ Found(k) /\ list' = LinkLast(Unlink(list, p), p)
      /\ item' = [item EXCEPT ![p] = [key |-> item[p].key, value |-> v]]
      /\ out' = None /\ UNCHANGED <<capacity, keys, heap>>
  BY DEF Update
<1>2. list' \in ListType /\ Ring(list', heap) /\ p \in heap /\ p \in Nodes /\ item[p].key = k
  BY <1>1, FoundEntry
<1> HIDE DEF p
<1>3. item \in [Nodes -> [key : Keys \cup {Null}, value : Values \cup {None}]]
  BY DEF LRUInv, LRUTypeOK
<1>4. /\ item' \in [Nodes -> [key : Keys \cup {Null}, value : Values \cup {None}]]
      /\ item'[p] = [key |-> k, value |-> v] /\ item'[p] \in [key : Keys, value : Values]
      /\ \A a \in Nodes \ {p} : item'[a] = item[a]
  BY <1>1, <1>2, <1>3, ItemType
<1>5. LRUTypeOK'
  BY <1>1, <1>2, <1>4 DEF LRUInv, LRUTypeOK, ListType
<1>6. \A a \in Nodes : item'[a].key = item[a].key
  BY <1>2, <1>4
<1>7. ListSound'
  BY <1>1, <1>2, <1>6 DEF LRUInv, LRUTypeOK, ListSound
<1> QED
  BY <1>5, <1>7 DEF LRUInv

LEMMA RemoveInv ==
  ASSUME LRUInv, NEW k \in Keys, Remove(k)
  PROVE  LRUInv'
<1> DEFINE p == keys[k]
<1>1. /\ Found(k) /\ list' = FreeLinks(Unlink(list, p), p)
      /\ out' = item[p].value /\ item' = [item EXCEPT ![p] = NoItem]
      /\ heap' = heap \ {p} /\ keys' = [keys EXCEPT ![k] = Null] /\ capacity' = capacity
  BY DEF Remove
<1>2. /\ list' \in ListType /\ Ring(list', heap \ {p}) /\ p \in heap /\ p \in Nodes
      /\ item[p].key = k /\ out' \in Values
  BY <1>1, FoundEntry
<1>3. /\ item \in [Nodes -> [key : Keys \cup {Null}, value : Values \cup {None}]]
      /\ keys \in [Keys -> Nodes \cup {Null}] /\ heap \subseteq Nodes
  BY DEF LRUInv, LRUTypeOK
<1>4. keys'[k] = Null /\ keys' \in [Keys -> Nodes \cup {Null}]
      /\ \A x \in Keys \ {k} : keys'[x] = keys[x]
  BY <1>1, <1>3
<1>5. /\ item' \in [Nodes -> [key : Keys \cup {Null}, value : Values \cup {None}]]
      /\ \A a \in Nodes \ {p} : item'[a] = item[a]
  BY <1>1, <1>2, <1>3 DEF NoItem
<1>6. /\ \A x \in Keys : keys[x] # Null => keys[x] \in heap /\ item[keys[x]].key = x
      /\ \A a \in heap : keys[item[a].key] = a /\ item[a] \in [key : Keys, value : Values]
  BY DEF LRUInv, ListSound, LRUTypeOK
<1> HIDE DEF p
<1>7. LRUTypeOK'
  BY <1>1, <1>2, <1>3, <1>4, <1>5, <1>6 DEF LRUInv, LRUTypeOK, ListType
<1>8. ASSUME NEW x \in Keys, keys'[x] # Null
      PROVE  keys'[x] \in heap' /\ item'[keys'[x]].key = x
  BY <1>1, <1>2, <1>3, <1>4, <1>5, <1>6, <1>8
<1>9. ASSUME NEW a \in heap' PROVE keys'[item'[a].key] = a
  <2>1. item'[a] = item[a] /\ a \in heap /\ a # p
    BY <1>1, <1>3, <1>5
  <2>2. item[a].key \in Keys /\ keys[item[a].key] = a /\ item[a].key # k
    BY <1>2, <1>6, <2>1 DEF p
  <2> QED
    BY <1>4, <2>1, <2>2
<1>10. ListSound'
  BY <1>1, <1>2, <1>8, <1>9 DEF ListSound
<1> QED
  BY <1>7, <1>10 DEF LRUInv

LEMMA InsertInv ==
  ASSUME LRUInv, NEW k \in Keys, NEW v \in Values, Insert(k, v)
  PROVE  LRUInv'
<1>1. PICK p \in Nodes \ heap :
        /\ keys[k] = Null /\ list' = LinkLast(list, p)
        /\ item' = [item EXCEPT ![p] = [key |-> k, value |-> v]]
        /\ heap' = heap \cup {p}
        /\ keys' = [x \in Keys |-> IF x = k THEN p ELSE keys[x]]
        /\ out' = None /\ capacity' = capacity
  BY NoVictims DEF Insert
<1>2. /\ item \in [Nodes -> [key : Keys \cup {Null}, value : Values \cup {None}]]
      /\ keys \in [Keys -> Nodes \cup {Null}] /\ heap \in SUBSET Nodes
      /\ list \in ListType /\ Ring(list, heap)
  BY DEF LRUInv, LRUTypeOK, ListSound, ListType
<1>3. list' \in ListType /\ Ring(list', heap')
  BY <1>1, <1>2, LinkRing
<1>4. /\ item' \in [Nodes -> [key : Keys \cup {Null}, value : Values \cup {None}]]
      /\ item'[p] = [key |-> k, value |-> v] /\ item'[p] \in [key : Keys, value : Values]
      /\ \A a \in Nodes \ {p} : item'[a] = item[a]
  BY <1>1, <1>2, ItemType
<1>5. /\ keys' \in [Keys -> Nodes \cup {Null}] /\ keys'[k] = p
      /\ \A x \in Keys \ {k} : keys'[x] = keys[x]
  BY <1>1, <1>2
<1>6. /\ \A x \in Keys : keys[x] # Null => keys[x] \in heap /\ item[keys[x]].key = x
      /\ \A a \in heap : keys[item[a].key] = a /\ item[a] \in [key : Keys, value : Values]
  BY DEF LRUInv, ListSound, LRUTypeOK
<1>7. LRUTypeOK'
  BY <1>1, <1>2, <1>3, <1>4, <1>5, <1>6 DEF LRUInv, LRUTypeOK, ListType
<1>8. ASSUME NEW x \in Keys, keys'[x] # Null
      PROVE  keys'[x] \in heap' /\ item'[keys'[x]].key = x
  BY <1>1, <1>2, <1>4, <1>5, <1>6, <1>8
<1>9. ASSUME NEW a \in heap' PROVE keys'[item'[a].key] = a
  <2>1. CASE a = p
    BY <1>4, <1>5, <2>1
  <2>2. CASE a # p
    <3>1. a \in heap /\ item'[a] = item[a] /\ a # Null
      BY <1>1, <1>2, <1>4, <2>2, LRUAssumption
    <3>2. item[a].key \in Keys /\ keys[item[a].key] = a /\ item[a].key # k
      BY <1>1, <1>6, <3>1
    <3> QED
      BY <1>5, <3>1, <3>2
  <2> QED
    BY <2>1, <2>2
<1>10. ListSound'
  BY <1>3, <1>8, <1>9 DEF ListSound
<1> QED
  BY <1>7, <1>10 DEF LRUInv

LEMMA NextLRUInv == LRUInv /\ [LRUNext]_lruvars => LRUInv'
<1> SUFFICES ASSUME LRUInv, [LRUNext]_lruvars PROVE LRUInv'
  OBVIOUS
<1>1. ASSUME UNCHANGED <<capacity, keys, list, item, heap>>, out' \in Values \cup {None}
      PROVE  LRUInv'
  BY <1>1 DEF LRUInv, LRUTypeOK, ListSound
<1>2. ASSUME NEW k \in Keys, NotFound(k) PROVE LRUInv'
  BY <1>1, <1>2 DEF NotFound
<1>3. CASE UNCHANGED lruvars
  BY <1>1, <1>3 DEF lruvars, LRUInv, LRUTypeOK
<1> QED
  BY <1>2, <1>3, GetInv, RemoveInv, UpdateInv, InsertInv DEF LRUNext

\* LRUInv holds in every state, for any numbers of keys, entries and capacity.
THEOREM LRUInvariance == LRUSpec => []LRUInv
BY InitLRUInv, NextLRUInv, PTL DEF LRUSpec

\* Every variable of the cache keeps its type.
THEOREM LRUTypeCorrect == LRUSpec => []LRUTypeOK
<1>1. LRUInv => LRUTypeOK
  BY DEF LRUInv
<1> QED
  BY <1>1, LRUInvariance, PTL

(***************************************************************************)
(* Get, Put, Remove and Evict keep the list one ring of the allocated      *)
(* entries, and keys_ finds every one of them.                             *)
(***************************************************************************)
THEOREM ListStaysSound == LRUSpec => []ListSound
<1>1. LRUInv => ListSound
  BY DEF LRUInv
<1> QED
  BY <1>1, LRUInvariance, PTL
=============================================================================
