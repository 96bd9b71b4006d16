------------------------------ MODULE LruCache ------------------------------
(***************************************************************************)
(* The pointer structure of src/src/storage/lru_cache.h: a hash table into *)
(* elements that are linked either in the doubly linked LRU list or in the *)
(* singly linked free list, allocated in blocks of growing size.           *)
(*                                                                         *)
(* The object is a record, and each private method an operator from record *)
(* to record, so that an operation composes them in the code's order.  An  *)
(* element is its position in the blocks, 0 is nullptr.                    *)
(***************************************************************************)
EXTENDS Naturals, Sequences, SequencesExt, FiniteSets

CONSTANTS
  Keys, Values, NoValue,
  MaxElements,   \* max_elements_
  MaxBlocks,     \* the length of blocks_
  SingleBlock,   \* up to this size one block is allocated (128)
  FirstBlock     \* the first block of larger caches (64)

ASSUME CacheAssumption ==
  /\ {MaxElements, MaxBlocks, SingleBlock, FirstBlock} \subseteq Nat \ {0}
  /\ NoValue \notin Values

VARIABLE c

Elements == 1..MaxElements
Pointers == 0..MaxElements

Caches ==
  [table : [Keys -> Pointers], head : Pointers, tail : Pointers, free : Pointers,
   next : [Elements -> Pointers], prev : [Elements -> Pointers],
   key : [Elements -> Keys \cup {NoValue}], value : [Elements -> Values \cup {NoValue}],
   blocks : 0..MaxBlocks, capacity : Pointers, blockSize : Pointers]

\* The size of the first block: doubled until MaxBlocks blocks can be enough.
FirstBlockSize ==
  IF MaxElements <= SingleBlock THEN MaxElements
  ELSE LET Enough(n) == FirstBlock * 2^n * 2^MaxBlocks >= MaxElements
       IN FirstBlock * 2^(CHOOSE n \in 0..MaxElements :
                            Enough(n) /\ \A m \in 0..(n - 1) : ~Enough(m))

\* The loop of the constructor ends, with a block that the cache can hold.
ASSUME BlockAssumption == FirstBlockSize \in 1..MaxElements

Init ==
  c = [table |-> [k \in Keys |-> 0], head |-> 0, tail |-> 0, free |-> 0,
       next |-> [e \in Elements |-> 0], prev |-> [e \in Elements |-> 0],
       key |-> [e \in Elements |-> NoValue], value |-> [e \in Elements |-> NoValue],
       blocks |-> 0, capacity |-> 0, blockSize |-> FirstBlockSize]

-----------------------------------------------------------------------------
(* Private methods *)

Least(a, b) == IF a < b THEN a ELSE b

\* Pushes the elements of a new block on the free list, if there may be one.
AddBlock(o) ==
  LET top == o.capacity + o.blockSize
      left == MaxBlocks - (o.blocks + 1)
      grown == [o EXCEPT !.blocks = @ + 1, !.capacity = top,
                  !.free = IF o.blockSize = 0 THEN @ ELSE top,
                  !.prev = [e \in Elements |-> IF e \in (o.capacity + 1)..top THEN 0 ELSE @[e]],
                  !.next = [e \in Elements |->
                              IF e \in (o.capacity + 1)..top
                                THEN IF e = o.capacity + 1 THEN o.free ELSE e - 1
                                ELSE @[e]]]
  IN IF ~(o.blocks < MaxBlocks /\ o.capacity < MaxElements) THEN o
     ELSE IF left = 0 THEN grown
     ELSE [grown EXCEPT !.blockSize = Least(2 * o.blockSize, (MaxElements - top) \div left)]

PushFreeList(o, e) ==
  [o EXCEPT !.prev[e] = 0, !.next[e] = o.free, !.free = e]

\* The object after PopFreeList; the element is o.free.
PopFreeList(o) ==
  IF o.free = 0 THEN o
  ELSE LET e == o.free
           rest == o.next[e]
           cut == [o EXCEPT !.free = rest, !.next[e] = 0]
       IN IF rest = 0 THEN cut ELSE [cut EXCEPT !.prev[rest] = 0]

\* The object in which NextFreeElement pops.
WithFreeElement(o) == IF o.free = 0 THEN AddBlock(o) ELSE o

\* Mutant: the tail is forgotten when the element that leaves is the tail.
RemoveFromLRUKeepsTail(o, e) ==
  LET n == o.next[e]
      p == o.prev[e]
      ends == [o EXCEPT !.head = IF @ = e THEN n ELSE @]
      before == IF p = 0 THEN ends ELSE [ends EXCEPT !.next[p] = n]
      after == IF n = 0 THEN before ELSE [before EXCEPT !.prev[n] = p]
  IN [after EXCEPT !.prev[e] = 0, !.next[e] = 0]

RemoveFromLRU(o, e) ==
  LET n == o.next[e]
      p == o.prev[e]
      ends == [o EXCEPT !.head = IF @ = e THEN n ELSE @, !.tail = IF @ = e THEN p ELSE @]
      before == IF p = 0 THEN ends ELSE [ends EXCEPT !.next[p] = n]
      after == IF n = 0 THEN before ELSE [before EXCEPT !.prev[n] = p]
  IN [after EXCEPT !.prev[e] = 0, !.next[e] = 0]

PushLRUHead(o, e) ==
  IF o.head = e THEN o
  ELSE LET out == RemoveFromLRU(o, e)
           old == out.head
           linked == [out EXCEPT !.next[e] = old, !.head = e]
           back == IF old = 0 THEN linked ELSE [linked EXCEPT !.prev[old] = e]
       IN [back EXCEPT !.tail = IF @ = 0 THEN e ELSE @]

Evict(o, e) ==
  PushFreeList(RemoveFromLRU([o EXCEPT !.table[o.key[e]] = 0], e), e)

-----------------------------------------------------------------------------
(* Operations *)

\* An old entry of the key goes first, then a free element is found or the
\* tail is evicted for one.
Insert(k, v) ==
  LET o1 == IF c.table[k] = 0 THEN c ELSE Evict(c, c.table[k])
      o2 == WithFreeElement(o1)
      o3 == IF o2.free # 0 THEN o2 ELSE WithFreeElement(Evict(o2, o2.tail))
      e == o3.free
  IN c' = PushLRUHead([PopFreeList(o3) EXCEPT !.key[e] = k, !.value[e] = v, !.table[k] = e], e)

\* Mutant: a lookup that does not move what it finds.
MutableLookupInPlace(k, v) ==
  LET e == c.table[k] IN
  /\ e # 0
  /\ c' = [c EXCEPT !.value[e] = v]

\* MutableLookup, and what the caller writes through the pointer.
MutableLookup(k, v) ==
  LET e == c.table[k] IN
  /\ e # 0
  /\ c' = [PushLRUHead(c, e) EXCEPT !.value[e] = v]

Erase(k) ==
  /\ c.table[k] # 0
  /\ c' = Evict(c, c.table[k])

\* The lists that links can make up, and what a list has at a position.
Lists == {s \in SeqOf(Elements, MaxElements) : IsInjective(s)}
At(s, i) == IF i \in DOMAIN s THEN s[i] ELSE 0

\* The list that the iterator runs through from element e on.
Chain(e) ==
  CHOOSE s \in Lists : /\ e = At(s, 1)
                       /\ \A i \in DOMAIN s : c.next[s[i]] = At(s, i + 1)

\* The iterator knows the next element before PushFreeList changes the present
\* one, so every element is pushed, on top of the one before it in the list.
Clear ==
  LET used == Chain(c.head)
      place == [e \in ToSet(used) |-> CHOOSE i \in DOMAIN used : used[i] = e]
  IN c' = [c EXCEPT
             !.table = [k \in Keys |-> 0], !.head = 0, !.tail = 0,
             !.free = IF used = <<>> THEN @ ELSE Last(used),
             !.prev = [e \in Elements |-> IF e \in ToSet(used) THEN 0 ELSE @[e]],
             !.next = [e \in Elements |->
                         IF e \notin ToSet(used) THEN @[e]
                         ELSE IF place[e] = 1 THEN c.free ELSE used[place[e] - 1]]]

Next ==
  \/ \E k \in Keys, v \in Values : Insert(k, v) \/ MutableLookup(k, v)
  \/ \E k \in Keys : Erase(k)
  \/ Clear

Spec == Init /\ [][Next]_c

-----------------------------------------------------------------------------
(* Properties *)

\* The types: no pointer leads out of the blocks.
TypeOK == c \in Caches

\* The LRU list of o is u: doubly linked, with its ends.
LruList(o, u) ==
  /\ u \in Lists /\ o.head = At(u, 1) /\ o.tail = At(u, Len(u))
  /\ \A i \in DOMAIN u : o.next[u[i]] = At(u, i + 1) /\ o.prev[u[i]] = At(u, i - 1)

\* The free list of o is f; "free list is not doubly linked".
FreeList(o, f) ==
  /\ f \in Lists /\ o.free = At(f, 1)
  /\ \A i \in DOMAIN f : o.next[f[i]] = At(f, i + 1) /\ o.prev[f[i]] = 0

\* The table of o knows exactly the elements of u, by their keys.
Known(o, u) ==
  /\ ToSet(u) = {o.table[k] : k \in Keys} \ {0}
  /\ \A k \in Keys : o.table[k] # 0 => o.key[o.table[k]] = k

\* "Every Element is either on the free list or the lru list", once, the table
\* knows exactly the ones on the lru list, and the lists are well linked and
\* well typed: no CHECK of the cache can fail.
WellLinked ==
  /\ TypeOK
  /\ \E u, f \in Lists :
       /\ LruList(c, u) /\ FreeList(c, f) /\ Known(c, u)
       /\ ToSet(u) \cap ToSet(f) = {} /\ ToSet(u) \cup ToSet(f) = 1..c.capacity

\* The entries in the elements of the list w.
EntriesOf(o, w) == [i \in DOMAIN w |-> [key |-> o.key[w[i]], value |-> o.value[w[i]]]]

Map == INSTANCE LruMap WITH entries <- EntriesOf(c, Chain(c.head))

\* The cache is a least-recently-used map: only a full cache loses an entry,
\* and then the one used least recently.
ImplementsMap == Map!MapSpec
=============================================================================
