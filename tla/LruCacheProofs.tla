--------------------------- MODULE LruCacheProofs ---------------------------
(***************************************************************************)
(* Proofs about LruCache, for any keys, values and sizes.                  *)
(***************************************************************************)
EXTENDS LruCache, SequenceTheorems, FiniteSetTheorems, WellFoundedInduction, TLAPS

-----------------------------------------------------------------------------
(* Lists.                                                                   *)

LEMMA Positive ==
  /\ MaxElements \in Nat /\ MaxElements > 0 /\ MaxBlocks \in Nat /\ MaxBlocks > 0
  /\ FirstBlockSize \in 1..MaxElements
BY CacheAssumption, BlockAssumption

LEMMA Interval ==
  ASSUME NEW n \in Nat
  PROVE  IsFiniteSet(1..n) /\ Cardinality(1..n) = n
<1>1. 1 \in Int /\ n \in Int
  OBVIOUS
<1>2. IsFiniteSet(1..n) /\ Cardinality(1..n) = IF 1 > n THEN 0 ELSE n - 1 + 1
  BY <1>1, FS_Interval
<1>3. QED
  BY <1>2

\* A list has no element twice, hence no more elements than there are.
LEMMA ListsAre ==
  \A s : s \in Lists <=> /\ s \in Seq(Elements)
                         /\ \A i, j \in 1..Len(s) : s[i] = s[j] => i = j
<1> SUFFICES ASSUME NEW s
             PROVE  s \in Lists <=> /\ s \in Seq(Elements)
                                    /\ \A i, j \in 1..Len(s) : s[i] = s[j] => i = j
  OBVIOUS
<1>1. ASSUME s \in Lists
      PROVE  s \in Seq(Elements) /\ \A i, j \in 1..Len(s) : s[i] = s[j] => i = j
  <2>1. PICK m \in 0..MaxElements : s \in [1..m -> Elements]
    BY <1>1, Positive DEF Lists, SeqOf
  <2>2. s \in Seq(Elements) /\ Len(s) = m
    BY <2>1
  <2>3. QED
    BY <1>1, <2>1, <2>2 DEF Lists, IsInjective
<1>2. ASSUME s \in Seq(Elements), \A i, j \in 1..Len(s) : s[i] = s[j] => i = j
      PROVE  s \in Lists
  <2>1. s \in [1..Len(s) -> Elements] /\ Len(s) \in Nat
    BY <1>2
  <2>2. s \in Injection(1..Len(s), Elements)
    BY <1>2, <2>1 DEF Injection, IsInjective
  <2>3. IsFiniteSet(Elements) /\ Cardinality(Elements) = MaxElements
    BY Interval, Positive DEF Elements
  <2>4. Cardinality(1..Len(s)) <= MaxElements
    BY <2>2, <2>3, FS_Injection
  <2>5. Cardinality(1..Len(s)) = Len(s)
    BY <2>1, Interval
  <2>6. Len(s) \in 0..MaxElements
    BY <2>1, <2>4, <2>5
  <2>7. s \in SeqOf(Elements, MaxElements)
    BY <2>1, <2>6 DEF SeqOf
  <2>8. IsInjective(s)
    BY <1>2, <2>1 DEF IsInjective
  <2>9. QED
    BY <2>7, <2>8 DEF Lists
<1>3. QED
  BY <1>1, <1>2

LEMMA AtFacts ==
  ASSUME NEW s \in Seq(Elements), NEW i \in Int
  PROVE  /\ At(s, i) \in Pointers
         /\ i \in 1..Len(s) => At(s, i) = s[i] /\ s[i] \in Elements
         /\ i \notin 1..Len(s) => At(s, i) = 0
         /\ At(s, i) # 0 <=> i \in 1..Len(s)
         /\ At(s, 1) = 0 <=> s = <<>>
<1>1. DOMAIN s = 1..Len(s) /\ Len(s) \in Nat /\ \A j \in 1..Len(s) : s[j] \in Elements
  OBVIOUS
<1>2. s = <<>> <=> Len(s) = 0
  BY EmptySeq
<1>3. /\ i \in 1..Len(s) => At(s, i) = s[i] /\ s[i] \in Elements
      /\ i \notin 1..Len(s) => At(s, i) = 0
  BY <1>1 DEF At
<1>4. At(s, 1) = 0 <=> s = <<>>
  <2>1. CASE Len(s) = 0
    BY <1>1, <1>2, <2>1 DEF At
  <2>2. CASE Len(s) > 0
    BY <1>1, <1>2, <2>2 DEF At, Elements
  <2>3. QED
    BY <1>1, <2>1, <2>2
<1>5. QED
  BY <1>3, <1>4, Positive DEF Elements, Pointers

LEMMA InToSet ==
  ASSUME NEW S, NEW s \in Seq(S)
  PROVE  \A x : x \in ToSet(s) <=> \E i \in 1..Len(s) : x = s[i]
BY DEF ToSet

LEMMA RemoveAtFacts ==
  ASSUME NEW S, NEW s \in Seq(S), NEW i \in 1..Len(s)
  PROVE  LET r == RemoveAt(s, i)
         IN  /\ r \in Seq(S) /\ Len(r) = Len(s) - 1
             /\ \A j \in 1..Len(s) - 1 : r[j] = IF j < i THEN s[j] ELSE s[j + 1]
<1> DEFINE a == SubSeq(s, 1, i - 1)
           b == SubSeq(s, i + 1, Len(s))
<1>1. Len(s) \in Nat /\ i \in Nat
  OBVIOUS
<1>2. /\ a \in Seq(S) /\ Len(a) = i - 1
      /\ \A j \in 1..i - 1 : a[j] = s[j]
  BY <1>1, SubSeqProperties
<1>3. /\ b \in Seq(S) /\ Len(b) = Len(s) - i
      /\ \A j \in 1..Len(s) - i : b[j] = s[i + j]
  BY <1>1, SubSeqProperties
<1> HIDE DEF a, b
<1>4. /\ a \o b \in Seq(S) /\ Len(a \o b) = Len(a) + Len(b)
      /\ \A j \in 1..Len(a) + Len(b) : (a \o b)[j] = IF j <= Len(a) THEN a[j] ELSE b[j - Len(a)]
  BY <1>2, <1>3, ConcatProperties
<1>5. ASSUME NEW j \in 1..Len(s) - 1 PROVE (a \o b)[j] = IF j < i THEN s[j] ELSE s[j + 1]
  <2>1. CASE j < i
    BY <1>1, <1>2, <1>3, <1>4, <2>1
  <2>2. CASE j >= i
    <3>1. (a \o b)[j] = b[j - (i - 1)] /\ j - (i - 1) \in 1..Len(s) - i
      BY <1>1, <1>2, <1>3, <1>4, <2>2
    <3>2. i + (j - (i - 1)) = j + 1
      BY <1>1
    <3>3. QED
      BY <1>1, <1>3, <2>2, <3>1, <3>2
  <2>3. j < i \/ j >= i
    BY <1>1
  <2>4. QED
    BY <2>1, <2>2, <2>3
<1>6. RemoveAt(s, i) = a \o b
  BY DEF RemoveAt, a, b
<1>7. Len(a) + Len(b) = Len(s) - 1
  BY <1>1, <1>2, <1>3
<1>8. QED
  BY <1>4, <1>5, <1>6, <1>7

\* What a list has where, by At alone.
LEMMA SameAt ==
  ASSUME NEW s \in Seq(Elements), NEW t \in Seq(Elements),
         \A i \in Nat : At(s, i) = At(t, i)
  PROVE  s = t
<1>1. Len(s) \in Nat /\ Len(t) \in Nat /\ DOMAIN s = 1..Len(s) /\ DOMAIN t = 1..Len(t)
  OBVIOUS
<1>2. \A i \in Nat : i \in 1..Len(s) <=> i \in 1..Len(t)
  BY AtFacts
<1>3. Len(s) = Len(t)
  <2> DEFINE m == Len(s)
             n == Len(t)
  <2>1. m \in Nat /\ n \in Nat /\ \A i \in Nat : i \in 1..m <=> i \in 1..n
    BY <1>1, <1>2
  <2> HIDE DEF m, n
  <2>2. (m \in 1..m <=> m \in 1..n) /\ (n \in 1..m <=> n \in 1..n)
    BY <2>1
  <2>3. m = n
    BY <2>1, <2>2
  <2>4. QED
    BY <2>3 DEF m, n
<1>4. \A i \in 1..Len(s) : s[i] = t[i]
  BY <1>1, <1>3, AtFacts
<1>5. QED
  BY <1>3, <1>4, SeqEqual

LEMMA ConsList ==
  ASSUME NEW s \in Lists, NEW e \in Elements \ ToSet(s)
  PROVE  LET r == <<e>> \o s
         IN  /\ r \in Lists /\ Len(r) = Len(s) + 1 /\ r # <<>>
             /\ ToSet(r) = ToSet(s) \cup {e}
             /\ At(r, 1) = e /\ \A i \in Nat \ {0} : At(r, i + 1) = At(s, i)
             /\ r[1] = e /\ \A i \in 1..Len(s) : r[i + 1] = s[i]
<1> DEFINE r == <<e>> \o s
<1>1. /\ s \in Seq(Elements) /\ Len(s) \in Nat
      /\ \A i, j \in 1..Len(s) : s[i] = s[j] => i = j
  BY ListsAre
<1>2. <<e>> \in Seq(Elements) /\ Len(<<e>>) = 1 /\ <<e>>[1] = e
  OBVIOUS
<1>3. /\ r \in Seq(Elements) /\ Len(r) = Len(s) + 1
      /\ \A i \in 1..Len(s) + 1 : r[i] = IF i <= 1 THEN <<e>>[i] ELSE s[i - 1]
  BY <1>1, <1>2, ConcatProperties
<1> HIDE DEF r
<1>4. r[1] = e /\ \A i \in 1..Len(s) : r[i + 1] = s[i]
  <2>1. r[1] = e
    BY <1>1, <1>2, <1>3
  <2>2. ASSUME NEW i \in 1..Len(s) PROVE r[i + 1] = s[i]
    BY <1>1, <1>3
  <2>3. QED
    BY <2>1, <2>2
<1>5. \A i \in 1..Len(s) : s[i] # e
  BY <1>1, InToSet
<1>6. \A i \in 1..Len(r) : i = 1 \/ (i - 1 \in 1..Len(s) /\ r[i] = s[i - 1])
  BY <1>1, <1>3
<1>7. ASSUME NEW i \in 1..Len(r), NEW j \in 1..Len(r), r[i] = r[j] PROVE i = j
  <2>1. CASE i = 1 \/ j = 1
    BY <1>4, <1>5, <1>6, <1>7, <2>1
  <2>2. CASE i # 1 /\ j # 1
    <3>1. i - 1 = j - 1
      BY <1>1, <1>6, <1>7, <2>2
    <3>2. QED
      BY <1>1, <1>3, <3>1
  <2>3. QED
    BY <2>1, <2>2
<1>8. ToSet(r) = ToSet(s) \cup {e}
  <2>1. ASSUME NEW x PROVE x \in ToSet(r) <=> x \in ToSet(s) \/ x = e
    <3>1. x \in ToSet(r) => x \in ToSet(s) \/ x = e
      <4> SUFFICES ASSUME x \in ToSet(r), x # e PROVE x \in ToSet(s)
        OBVIOUS
      <4>1. PICK i \in 1..Len(r) : x = r[i]
        BY <1>3, InToSet
      <4>2. i - 1 \in 1..Len(s) /\ x = s[i - 1]
        BY <1>4, <1>6, <4>1
      <4>3. QED
        BY <1>1, <4>2, InToSet
    <3>2. x = e => x \in ToSet(r)
      BY <1>1, <1>3, <1>4, InToSet
    <3>3. ASSUME x \in ToSet(s) PROVE x \in ToSet(r)
      <4>1. PICK i \in 1..Len(s) : x = s[i]
        BY <1>1, <3>3, InToSet
      <4>2. i + 1 \in 1..Len(r) /\ r[i + 1] = x
        BY <1>1, <1>3, <1>4, <4>1
      <4>3. QED
        BY <1>3, <4>2, InToSet
    <3>4. QED
      BY <3>1, <3>2, <3>3
  <2>2. QED
    BY <2>1
<1>9. At(r, 1) = e
  BY <1>1, <1>3, <1>4, AtFacts
<1>10. ASSUME NEW i \in Nat \ {0} PROVE At(r, i + 1) = At(s, i)
  <2>1. CASE i \in 1..Len(s)
    <3>1. i + 1 \in 1..Len(r) /\ i \in Int /\ i + 1 \in Int
      BY <1>1, <1>3, <2>1
    <3>2. At(r, i + 1) = r[i + 1] /\ At(s, i) = s[i]
      BY <1>1, <1>3, <2>1, <3>1, AtFacts
    <3>3. QED
      BY <1>4, <2>1, <3>2
  <2>2. CASE i \notin 1..Len(s)
    <3>1. i + 1 \notin 1..Len(r) /\ i \in Int /\ i + 1 \in Int
      BY <1>1, <1>3, <2>2
    <3>2. QED
      BY <1>1, <1>3, <2>2, <3>1, AtFacts
  <2>3. QED
    BY <2>1, <2>2
<1>11. r \in Lists
  BY <1>3, <1>7, ListsAre
<1>12. r # <<>>
  BY <1>1, <1>3, EmptySeq
<1>13. QED
  BY <1>3, <1>4, <1>8, <1>9, <1>10, <1>11, <1>12 DEF r

LEMMA RemoveList ==
  ASSUME NEW u \in Lists, NEW i \in 1..Len(u)
  PROVE  LET r == RemoveAt(u, i)
         IN  /\ r \in Lists /\ Len(r) = Len(u) - 1
             /\ ToSet(r) = ToSet(u) \ {u[i]}
             /\ \A j \in Int : At(r, j) = IF j < i THEN At(u, j) ELSE At(u, j + 1)
             /\ \A j \in 1..Len(r) : r[j] = IF j < i THEN u[j] ELSE u[j + 1]
<1> DEFINE r == RemoveAt(u, i)
<1>1. /\ u \in Seq(Elements) /\ Len(u) \in Nat /\ i \in Nat
      /\ \A j, k \in 1..Len(u) : u[j] = u[k] => j = k
  BY ListsAre
<1>2. /\ r \in Seq(Elements) /\ Len(r) = Len(u) - 1
      /\ \A j \in 1..Len(u) - 1 : r[j] = IF j < i THEN u[j] ELSE u[j + 1]
  BY <1>1, RemoveAtFacts
<1> HIDE DEF r
<1> DEFINE p(j) == IF j < i THEN j ELSE j + 1
<1>3. \A j \in 1..Len(r) : p(j) \in 1..Len(u) /\ p(j) # i /\ r[j] = u[p(j)]
  BY <1>1, <1>2
<1>4. \A j, k \in 1..Len(r) : p(j) = p(k) => j = k
  BY <1>1, <1>2
<1>5. \A k \in 1..Len(u) : k # i => \E j \in 1..Len(r) : p(j) = k
  <2> SUFFICES ASSUME NEW k \in 1..Len(u), k # i PROVE \E j \in 1..Len(r) : p(j) = k
    OBVIOUS
  <2>1. CASE k < i
    BY <1>1, <1>2, <2>1
  <2>2. CASE k > i
    <3>1. k - 1 \in 1..Len(r) /\ p(k - 1) = k
      BY <1>1, <1>2, <2>2
    <3>2. QED
      BY <3>1
  <2>3. QED
    BY <1>1, <2>1, <2>2
<1>6. \A j \in Int : At(r, j) = IF j < i THEN At(u, j) ELSE At(u, j + 1)
  <2> SUFFICES ASSUME NEW j \in Int PROVE At(r, j) = At(u, p(j))
    OBVIOUS
  <2>1. CASE j \in 1..Len(r)
    <3>1. p(j) \in Int /\ p(j) \in 1..Len(u) /\ r[j] = u[p(j)]
      BY <1>1, <1>3, <2>1
    <3> HIDE DEF p
    <3>2. QED
      BY <1>1, <1>2, <2>1, <3>1, AtFacts
  <2>2. CASE j \notin 1..Len(r)
    <3>1. p(j) \in Int /\ p(j) \notin 1..Len(u)
      BY <1>1, <1>2, <2>2
    <3> HIDE DEF p
    <3>2. QED
      BY <1>1, <1>2, <2>2, <3>1, AtFacts
  <2>3. QED
    BY <2>1, <2>2
<1> HIDE DEF p
<1>7. \A j, k \in 1..Len(r) : r[j] = r[k] => j = k
  BY <1>1, <1>3, <1>4
<1>8. ToSet(r) = ToSet(u) \ {u[i]}
  <2>1. ASSUME NEW x PROVE x \in ToSet(r) <=> x \in ToSet(u) /\ x # u[i]
    <3>1. ASSUME x \in ToSet(r) PROVE x \in ToSet(u) /\ x # u[i]
      <4>1. PICK j \in 1..Len(r) : x = r[j]
        BY <1>2, <3>1, InToSet
      <4>2. p(j) \in 1..Len(u) /\ p(j) # i /\ x = u[p(j)]
        BY <1>3, <4>1
      <4>3. QED
        BY <1>1, <4>2, InToSet
    <3>2. ASSUME x \in ToSet(u), x # u[i] PROVE x \in ToSet(r)
      <4>1. PICK k \in 1..Len(u) : x = u[k]
        BY <1>1, <3>2, InToSet
      <4>2. PICK j \in 1..Len(r) : p(j) = k
        BY <1>5, <3>2, <4>1
      <4>3. x = r[j]
        BY <1>3, <4>1, <4>2
      <4>4. QED
        BY <1>2, <4>3, InToSet
    <3>3. QED
      BY <3>1, <3>2
  <2>2. QED
    BY <2>1
<1>9. r \in Lists
  BY <1>2, <1>7, ListsAre
<1>10. QED
  BY <1>2, <1>6, <1>8, <1>9 DEF r

-----------------------------------------------------------------------------
(* What the private methods do to the links.                                *)

\* What no method of the two lists touches.
SameContent(o, r) ==
  /\ r.key = o.key /\ r.value = o.value
  /\ r.blocks = o.blocks /\ r.capacity = o.capacity /\ r.blockSize = o.blockSize

LEMMA ElementsArePointers ==
  /\ Elements \subseteq Pointers /\ 0 \in Pointers /\ 0 \notin Elements
  /\ \A x \in Pointers : x # 0 => x \in Elements
BY Positive DEF Elements, Pointers

LEMMA RemoveFromLRUFacts ==
  ASSUME NEW o \in Caches, NEW e \in Elements
  PROVE  LET r == RemoveFromLRU(o, e)
         IN  /\ r \in Caches /\ SameContent(o, r) /\ r.table = o.table /\ r.free = o.free
             /\ r.head = IF o.head = e THEN o.next[e] ELSE o.head
             /\ r.tail = IF o.tail = e THEN o.prev[e] ELSE o.tail
             /\ \A x \in Elements :
                  /\ r.next[x] = IF x = e THEN 0
                                 ELSE IF x = o.prev[e] THEN o.next[e] ELSE o.next[x]
                  /\ r.prev[x] = IF x = e THEN 0
                                 ELSE IF x = o.next[e] THEN o.prev[e] ELSE o.prev[x]
<1> DEFINE n == o.next[e]
           p == o.prev[e]
           ends == [o EXCEPT !.head = IF @ = e THEN n ELSE @, !.tail = IF @ = e THEN p ELSE @]
           before == IF p = 0 THEN ends ELSE [ends EXCEPT !.next[p] = n]
           after == IF n = 0 THEN before ELSE [before EXCEPT !.prev[n] = p]
           r == [after EXCEPT !.prev[e] = 0, !.next[e] = 0]
<1>1. /\ n \in Pointers /\ p \in Pointers
      /\ n # 0 => n \in Elements
      /\ p # 0 => p \in Elements
  BY ElementsArePointers DEF Caches
<1>2. /\ ends \in Caches /\ SameContent(o, ends) /\ ends.table = o.table /\ ends.free = o.free
      /\ ends.next = o.next /\ ends.prev = o.prev
      /\ ends.head = IF o.head = e THEN n ELSE o.head
      /\ ends.tail = IF o.tail = e THEN p ELSE o.tail
  BY <1>1 DEF Caches, SameContent
<1> HIDE DEF n, p, ends
<1>3. /\ before \in Caches /\ SameContent(o, before)
      /\ before.table = o.table /\ before.free = o.free
      /\ before.head = ends.head /\ before.tail = ends.tail /\ before.prev = o.prev
      /\ \A x \in Elements : before.next[x] = IF x = p THEN n ELSE o.next[x]
  <2>1. CASE p = 0
    BY <1>2, <2>1, ElementsArePointers
  <2>2. CASE p # 0
    BY <1>1, <1>2, <2>2 DEF Caches, SameContent
  <2>3. QED
    BY <2>1, <2>2
<1> HIDE DEF before
<1>4. /\ after \in Caches /\ SameContent(o, after)
      /\ after.table = o.table /\ after.free = o.free
      /\ after.head = ends.head /\ after.tail = ends.tail /\ after.next = before.next
      /\ \A x \in Elements : after.prev[x] = IF x = n THEN p ELSE o.prev[x]
  <2>1. CASE n = 0
    BY <1>3, <2>1, ElementsArePointers
  <2>2. CASE n # 0
    BY <1>1, <1>3, <2>2 DEF Caches, SameContent
  <2>3. QED
    BY <2>1, <2>2
<1> HIDE DEF after
<1>5. /\ r \in Caches /\ SameContent(o, r) /\ r.table = o.table /\ r.free = o.free
      /\ r.head = ends.head /\ r.tail = ends.tail
      /\ \A x \in Elements : /\ r.next[x] = IF x = e THEN 0 ELSE after.next[x]
                             /\ r.prev[x] = IF x = e THEN 0 ELSE after.prev[x]
  BY <1>4, ElementsArePointers DEF Caches, SameContent
<1>6. RemoveFromLRU(o, e) = r
  BY DEF RemoveFromLRU, r, after, before, ends, n, p
<1> HIDE DEF r
<1>7. QED
  BY <1>2, <1>3, <1>4, <1>5, <1>6 DEF n, p

\* The rest of PushLRUHead, after RemoveFromLRU.
LEMMA PushLRUHeadFacts ==
  ASSUME NEW o \in Caches, NEW e \in Elements, o.head # e
  PROVE  LET out == RemoveFromLRU(o, e)
             r == PushLRUHead(o, e)
         IN  /\ r \in Caches /\ SameContent(o, r) /\ r.table = o.table /\ r.free = o.free
             /\ r.head = e /\ r.tail = IF out.tail = 0 THEN e ELSE out.tail
             /\ \A x \in Elements :
                  /\ r.next[x] = IF x = e THEN out.head ELSE out.next[x]
                  /\ r.prev[x] = IF x = out.head THEN e ELSE out.prev[x]
<1> DEFINE out == RemoveFromLRU(o, e)
           old == out.head
           linked == [out EXCEPT !.next[e] = old, !.head = e]
           back == IF old = 0 THEN linked ELSE [linked EXCEPT !.prev[old] = e]
           r == [back EXCEPT !.tail = IF @ = 0 THEN e ELSE @]
<1>1. /\ out \in Caches /\ SameContent(o, out) /\ out.table = o.table /\ out.free = o.free
  BY RemoveFromLRUFacts
<1>2. PushLRUHead(o, e) = r
  BY DEF PushLRUHead
<1> HIDE DEF out
<1>3. /\ linked \in Caches /\ SameContent(o, linked)
      /\ linked.table = o.table /\ linked.free = o.free
      /\ linked.head = e /\ linked.tail = out.tail /\ linked.prev = out.prev
      /\ \A x \in Elements : linked.next[x] = IF x = e THEN old ELSE out.next[x]
  BY <1>1, ElementsArePointers DEF Caches, SameContent
<1>4. old \in Pointers /\ (old # 0 => old \in Elements)
  BY <1>1 DEF Caches, Pointers, Elements
<1> HIDE DEF linked, old
<1>5. /\ back \in Caches /\ SameContent(o, back)
      /\ back.table = o.table /\ back.free = o.free
      /\ back.head = e /\ back.tail = out.tail /\ back.next = linked.next
      /\ \A x \in Elements : back.prev[x] = IF x = old THEN e ELSE out.prev[x]
  <2>1. CASE old = 0
    BY <1>3, <2>1, ElementsArePointers
  <2>2. CASE old # 0
    BY <1>3, <1>4, <2>2, ElementsArePointers DEF Caches, SameContent
  <2>3. QED
    BY <2>1, <2>2
<1> HIDE DEF back
<1>6. /\ r \in Caches /\ SameContent(o, r) /\ r.table = o.table /\ r.free = o.free
      /\ r.head = e /\ r.next = back.next /\ r.prev = back.prev
      /\ r.tail = IF out.tail = 0 THEN e ELSE out.tail
  BY <1>5, ElementsArePointers DEF Caches, SameContent
<1> HIDE DEF r
<1>7. QED
  BY <1>2, <1>3, <1>5, <1>6 DEF out, old

LEMMA PushFreeListFacts ==
  ASSUME NEW o \in Caches, NEW e \in Elements
  PROVE  LET r == PushFreeList(o, e)
         IN  /\ r \in Caches /\ SameContent(o, r) /\ r.table = o.table
             /\ r.head = o.head /\ r.tail = o.tail /\ r.free = e
             /\ \A x \in Elements : /\ r.next[x] = IF x = e THEN o.free ELSE o.next[x]
                                    /\ r.prev[x] = IF x = e THEN 0 ELSE o.prev[x]
BY ElementsArePointers DEF PushFreeList, Caches, SameContent

LEMMA PopFreeListFacts ==
  ASSUME NEW o \in Caches, o.free # 0
  PROVE  LET r == PopFreeList(o)
             e == o.free
         IN  /\ e \in Elements
             /\ r \in Caches /\ SameContent(o, r) /\ r.table = o.table
             /\ r.head = o.head /\ r.tail = o.tail /\ r.free = o.next[e]
             /\ \A x \in Elements :
                  /\ r.next[x] = IF x = e THEN 0 ELSE o.next[x]
                  /\ r.prev[x] = IF x = o.next[e] THEN 0 ELSE o.prev[x]
<1> DEFINE e == o.free
           rest == o.next[e]
           cut == [o EXCEPT !.free = rest, !.next[e] = 0]
<1>1. e \in Elements /\ rest \in Pointers /\ (rest # 0 => rest \in Elements)
  <2>1. e \in Elements
    BY ElementsArePointers DEF Caches
  <2>2. QED
    BY <2>1, ElementsArePointers DEF Caches
<1>2. PopFreeList(o) = IF rest = 0 THEN cut ELSE [cut EXCEPT !.prev[rest] = 0]
  BY DEF PopFreeList
<1>3. /\ cut \in Caches /\ SameContent(o, cut) /\ cut.table = o.table
      /\ cut.head = o.head /\ cut.tail = o.tail /\ cut.free = rest /\ cut.prev = o.prev
      /\ \A x \in Elements : cut.next[x] = IF x = e THEN 0 ELSE o.next[x]
  BY <1>1, ElementsArePointers DEF Caches, SameContent
<1> HIDE DEF cut, e, rest
<1>4. CASE rest = 0
  BY <1>1, <1>2, <1>3, <1>4, ElementsArePointers DEF e, rest
<1>5. CASE rest # 0
  <2>1. LET r == [cut EXCEPT !.prev[rest] = 0]
        IN  /\ r \in Caches /\ SameContent(o, r) /\ r.table = o.table
            /\ r.head = o.head /\ r.tail = o.tail /\ r.free = rest /\ r.next = cut.next
            /\ \A x \in Elements : r.prev[x] = IF x = rest THEN 0 ELSE o.prev[x]
    BY <1>1, <1>3, <1>5, ElementsArePointers DEF Caches, SameContent
  <2>2. QED
    BY <1>1, <1>2, <1>3, <1>5, <2>1 DEF e, rest
<1>6. QED
  BY <1>4, <1>5

-----------------------------------------------------------------------------
(* The two lists under the private methods.                                 *)

LEMMA AtInjective ==
  ASSUME NEW u \in Lists, NEW k \in 1..Len(u), NEW m \in Int
  PROVE  u[k] = At(u, m) <=> m = k
<1>1. u \in Seq(Elements) /\ \A i, j \in 1..Len(u) : u[i] = u[j] => i = j
  BY ListsAre
<1>2. u[k] \in Elements /\ 0 \notin Elements
  BY <1>1, ElementsArePointers
<1>3. QED
  BY <1>1, <1>2, AtFacts

LEMMA AtInSet ==
  ASSUME NEW u \in Lists, NEW m \in Int, NEW x \in Elements \ ToSet(u)
  PROVE  x # At(u, m)
<1>1. u \in Seq(Elements)
  BY ListsAre
<1>2. QED
  BY <1>1, AtFacts, InToSet, ElementsArePointers

LEMMA LruKept ==
  ASSUME NEW o, NEW r, NEW u, LruList(o, u), r.head = o.head, r.tail = o.tail,
         \A x \in ToSet(u) : r.next[x] = o.next[x] /\ r.prev[x] = o.prev[x]
  PROVE  LruList(r, u)
<1>1. u \in Lists /\ u \in Seq(Elements)
  BY ListsAre DEF LruList
<1>2. \A i \in DOMAIN u : u[i] \in ToSet(u)
  BY <1>1, InToSet
<1>3. QED
  BY <1>2 DEF LruList

LEMMA FreeKept ==
  ASSUME NEW o, NEW r, NEW f, FreeList(o, f), r.free = o.free,
         \A x \in ToSet(f) : r.next[x] = o.next[x] /\ r.prev[x] = o.prev[x]
  PROVE  FreeList(r, f)
<1>1. f \in Lists /\ f \in Seq(Elements)
  BY ListsAre DEF FreeList
<1>2. \A i \in DOMAIN f : f[i] \in ToSet(f)
  BY <1>1, InToSet
<1>3. QED
  BY <1>2 DEF FreeList

LEMMA RemoveSound ==
  ASSUME NEW o \in Caches, NEW u, LruList(o, u), NEW i \in 1..Len(u)
  PROVE  LET r == RemoveFromLRU(o, u[i])
         IN  /\ LruList(r, RemoveAt(u, i))
             /\ \A x \in Elements \ ToSet(u) : r.next[x] = o.next[x] /\ r.prev[x] = o.prev[x]
             /\ r.next[u[i]] = 0 /\ r.prev[u[i]] = 0
<1> DEFINE e == u[i]
           r == RemoveFromLRU(o, e)
           w == RemoveAt(u, i)
           n == Len(u)
<1>1. /\ u \in Lists /\ u \in Seq(Elements) /\ n \in Nat /\ e \in Elements /\ i \in Int
      /\ DOMAIN u = 1..n /\ i + 1 \in Int /\ i - 1 \in Int
  BY ListsAre DEF LruList
<1>2. /\ o.head = At(u, 1) /\ o.tail = At(u, n)
      /\ o.next[e] = At(u, i + 1) /\ o.prev[e] = At(u, i - 1)
      /\ \A k \in 1..n : o.next[u[k]] = At(u, k + 1) /\ o.prev[u[k]] = At(u, k - 1)
  BY <1>1 DEF LruList
<1>3. /\ r.head = IF o.head = e THEN At(u, i + 1) ELSE o.head
      /\ r.tail = IF o.tail = e THEN At(u, i - 1) ELSE o.tail
      /\ \A x \in Elements :
           /\ r.next[x] = IF x = e THEN 0
                          ELSE IF x = At(u, i - 1) THEN At(u, i + 1) ELSE o.next[x]
           /\ r.prev[x] = IF x = e THEN 0
                          ELSE IF x = At(u, i + 1) THEN At(u, i - 1) ELSE o.prev[x]
  <2>1. o.next[e] = At(u, i + 1) /\ o.prev[e] = At(u, i - 1)
    BY <1>2
  <2>2. /\ r.head = IF o.head = e THEN o.next[e] ELSE o.head
        /\ r.tail = IF o.tail = e THEN o.prev[e] ELSE o.tail
        /\ \A x \in Elements :
             /\ r.next[x] = IF x = e THEN 0
                            ELSE IF x = o.prev[e] THEN o.next[e] ELSE o.next[x]
             /\ r.prev[x] = IF x = e THEN 0
                            ELSE IF x = o.next[e] THEN o.prev[e] ELSE o.prev[x]
    BY <1>1, RemoveFromLRUFacts
  <2> HIDE DEF e, r
  <2>3. QED
    BY <2>1, <2>2
<1>4. /\ w \in Lists /\ Len(w) = n - 1
      /\ \A j \in Int : At(w, j) = IF j < i THEN At(u, j) ELSE At(u, j + 1)
      /\ \A j \in 1..n - 1 : w[j] = IF j < i THEN u[j] ELSE u[j + 1]
  BY <1>1, RemoveList
<1>5. w \in Seq(Elements) /\ DOMAIN w = 1..n - 1
  BY <1>4, ListsAre
<1> HIDE DEF r, w, n
<1>6. r.head = At(w, 1)
  <2>1. e = At(u, 1) <=> 1 = i
    BY <1>1, AtInjective
  <2>2. At(w, 1) = IF 1 < i THEN At(u, 1) ELSE At(u, 2)
    BY <1>4
  <2> HIDE DEF e
  <2>3. CASE i = 1
    BY <1>2, <1>3, <2>1, <2>2, <2>3
  <2>4. CASE i # 1
    BY <1>1, <1>2, <1>3, <2>1, <2>2, <2>4
  <2>5. QED
    BY <2>3, <2>4
<1>7. r.tail = At(w, n - 1)
  <2>1. e = At(u, n) <=> n = i
    BY <1>1, AtInjective
  <2>2. At(w, n - 1) = IF n - 1 < i THEN At(u, n - 1) ELSE At(u, n)
    <3>1. n - 1 \in Int /\ n - 1 + 1 = n
      BY <1>1
    <3>2. QED
      BY <1>4, <3>1
  <2>3. i \in 1..n
    BY DEF n
  <2> HIDE DEF e
  <2>4. CASE i = n
    BY <1>1, <1>2, <1>3, <2>1, <2>2, <2>4
  <2>5. CASE i # n
    BY <1>1, <1>2, <1>3, <2>1, <2>2, <2>3, <2>5
  <2>6. QED
    BY <2>4, <2>5
<1>8. ASSUME NEW j \in 1..n - 1
      PROVE  r.next[w[j]] = At(w, j + 1) /\ r.prev[w[j]] = At(w, j - 1)
  <2> DEFINE k == IF j < i THEN j ELSE j + 1
             x == u[k]
  <2>1. k \in 1..n /\ k # i /\ w[j] = x /\ j \in Int /\ k \in Int
    <3>1. w[j] = x
      BY <1>4
    <3>2. QED
      BY <1>1, <3>1
  <2>2. /\ At(w, j + 1) = IF j + 1 < i THEN At(u, j + 1) ELSE At(u, j + 2)
        /\ At(w, j - 1) = IF j - 1 < i THEN At(u, j - 1) ELSE At(u, j)
    <3>1. j + 1 \in Int /\ j - 1 \in Int /\ j + 1 + 1 = j + 2 /\ j - 1 + 1 = j
      BY <1>1
    <3>2. QED
      BY <1>4, <3>1
  <2>3. j < i => k = j
    OBVIOUS
  <2>4. ~(j < i) => k = j + 1
    OBVIOUS
  <2> HIDE DEF k
  <2>5. x \in Elements /\ x # e
    <3>1. \A a, b \in 1..Len(u) : u[a] = u[b] => a = b
      BY <1>1, ListsAre
    <3>2. QED
      BY <1>1, <2>1, <3>1 DEF n
  <2>6. x = At(u, i - 1) <=> i - 1 = k
    BY <1>1, <2>1, AtInjective DEF n
  <2>7. x = At(u, i + 1) <=> i + 1 = k
    BY <1>1, <2>1, AtInjective DEF n
  <2>8. /\ r.next[x] = IF i - 1 = k THEN At(u, i + 1) ELSE At(u, k + 1)
        /\ r.prev[x] = IF i + 1 = k THEN At(u, i - 1) ELSE At(u, k - 1)
    BY <1>2, <1>3, <2>1, <2>5, <2>6, <2>7
  <2> HIDE DEF x
  <2>9. CASE j < i
    BY <1>1, <2>1, <2>2, <2>3, <2>8, <2>9
  <2>10. CASE ~(j < i)
    <3>1. k = j + 1 /\ k + 1 = j + 2 /\ k - 1 = j
      BY <1>1, <2>1, <2>4, <2>10
    <3>2. QED
      BY <1>1, <2>1, <2>2, <2>8, <2>10, <3>1
  <2>11. QED
    BY <2>9, <2>10
<1>9. LruList(r, w)
  BY <1>4, <1>5, <1>6, <1>7, <1>8 DEF LruList
<1>10. \A x \in Elements \ ToSet(u) : r.next[x] = o.next[x] /\ r.prev[x] = o.prev[x]
  <2> SUFFICES ASSUME NEW x \in Elements \ ToSet(u)
               PROVE  r.next[x] = o.next[x] /\ r.prev[x] = o.prev[x]
    OBVIOUS
  <2>1. x # At(u, i - 1) /\ x # At(u, i + 1) /\ x # e
    BY <1>1, AtInSet, InToSet DEF n
  <2>2. QED
    BY <1>3, <2>1
<1>11. QED
  BY <1>1, <1>3, <1>9, <1>10 DEF r, w

LEMMA HeadSound ==
  ASSUME NEW out \in Caches, NEW u, LruList(out, u), NEW e \in Elements \ ToSet(u),
         out.prev[e] = 0, NEW r, r.head = e, r.tail = IF out.tail = 0 THEN e ELSE out.tail,
         \A x \in Elements : /\ r.next[x] = IF x = e THEN out.head ELSE out.next[x]
                             /\ r.prev[x] = IF x = out.head THEN e ELSE out.prev[x]
  PROVE  /\ LruList(r, <<e>> \o u)
         /\ \A x \in Elements \ ToSet(u) :
              x # e => r.next[x] = out.next[x] /\ r.prev[x] = out.prev[x]
<1> DEFINE w == <<e>> \o u
           n == Len(u)
<1>1. /\ u \in Lists /\ u \in Seq(Elements) /\ n \in Nat /\ DOMAIN u = 1..n
      /\ \A k \in 1..n : u[k] \in Elements
  BY ListsAre DEF LruList
<1>2. /\ out.head = At(u, 1) /\ out.tail = At(u, n)
      /\ \A k \in 1..n : out.next[u[k]] = At(u, k + 1) /\ out.prev[u[k]] = At(u, k - 1)
  BY <1>1 DEF LruList
<1>3. /\ w \in Lists /\ Len(w) = n + 1
      /\ At(w, 1) = e /\ \A k \in Nat \ {0} : At(w, k + 1) = At(u, k)
      /\ w[1] = e /\ \A k \in 1..n : w[k + 1] = u[k]
  BY <1>1, ConsList
<1>4. w \in Seq(Elements) /\ DOMAIN w = 1..n + 1
  <2> HIDE DEF w
  <2>1. w \in Seq(Elements)
    BY <1>3, ListsAre
  <2>2. QED
    BY <1>3, <2>1
<1>5. e # out.head /\ \A k \in 1..n : u[k] # e
  <2>1. e # At(u, 1)
    BY <1>1, AtInSet
  <2>2. \A k \in 1..n : u[k] \in ToSet(u)
    BY <1>1, InToSet
  <2>3. QED
    BY <1>2, <2>1, <2>2
<1> HIDE DEF w, n
<1>6. r.tail = At(w, n + 1)
  <2>1. CASE n = 0
    <3>1. out.tail = 0
      <4>1. n \in Int /\ n \notin 1..Len(u)
        BY <1>1, <2>1 DEF n
      <4>2. QED
        BY <1>1, <1>2, <4>1, AtFacts
    <3>2. QED
      BY <1>3, <2>1, <3>1
  <2>2. CASE n # 0
    <3>1. out.tail # 0 /\ n \in Nat \ {0}
      BY <1>1, <1>2, <2>2, AtFacts DEF n
    <3>2. QED
      BY <1>2, <1>3, <3>1
  <2>3. QED
    BY <2>1, <2>2
<1>7. r.next[w[1]] = At(w, 2) /\ r.prev[w[1]] = At(w, 0)
  <2>1. At(w, 2) = At(u, 1) /\ At(w, 0) = 0
    <3>1. At(w, 1 + 1) = At(u, 1)
      BY <1>3
    <3>2. At(w, 0) = 0
      BY <1>4, AtFacts
    <3>3. QED
      BY <3>1, <3>2
  <2>2. QED
    BY <1>2, <1>3, <1>5, <2>1
<1>8. ASSUME NEW k \in 1..n
      PROVE  r.next[w[k + 1]] = At(w, k + 2) /\ r.prev[w[k + 1]] = At(w, k)
  <2>1. /\ w[k + 1] = u[k] /\ u[k] \in Elements /\ u[k] # e
        /\ r.next[u[k]] = At(u, k + 1)
        /\ r.prev[u[k]] = IF u[k] = At(u, 1) THEN e ELSE At(u, k - 1)
    <3>1. /\ w[k + 1] = u[k] /\ u[k] \in Elements /\ u[k] # e
          /\ out.next[u[k]] = At(u, k + 1) /\ out.prev[u[k]] = At(u, k - 1)
      BY <1>1, <1>2, <1>3, <1>5
    <3>2. QED
      BY <1>2, <3>1
  <2>2. u[k] = At(u, 1) <=> 1 = k
    BY <1>1, AtInjective DEF n
  <2>3. At(w, k + 2) = At(u, k + 1)
    <3>1. k + 1 \in Nat \ {0} /\ k + 1 + 1 = k + 2
      BY <1>1
    <3>2. QED
      BY <1>3, <3>1
  <2>4. k # 1 => At(w, k) = At(u, k - 1)
    <3>1. k # 1 => k - 1 \in Nat \ {0} /\ k - 1 + 1 = k
      BY <1>1
    <3>2. QED
      BY <1>3, <3>1
  <2>5. QED
    BY <1>3, <2>1, <2>2, <2>3, <2>4
<1>9. \A j \in 1..n + 1 : r.next[w[j]] = At(w, j + 1) /\ r.prev[w[j]] = At(w, j - 1)
  <2> SUFFICES ASSUME NEW j \in 1..n + 1
               PROVE  r.next[w[j]] = At(w, j + 1) /\ r.prev[w[j]] = At(w, j - 1)
    OBVIOUS
  <2>1. CASE j = 1
    BY <1>7, <2>1
  <2>2. CASE j # 1
    <3>1. j - 1 \in 1..n /\ j - 1 + 1 = j /\ j - 1 + 2 = j + 1
      BY <1>1, <2>2
    <3>2. QED
      BY <1>8, <3>1
  <2>3. QED
    BY <2>1, <2>2
<1>10. LruList(r, w)
  BY <1>3, <1>4, <1>6, <1>9 DEF LruList
<1>11. ASSUME NEW x \in Elements \ ToSet(u), x # e
       PROVE  r.next[x] = out.next[x] /\ r.prev[x] = out.prev[x]
  BY <1>1, <1>2, <1>11, AtInSet
<1>12. QED
  BY <1>10, <1>11 DEF w

\* An element that is in no list comes to the head.
LEMMA PushNewSound ==
  ASSUME NEW o \in Caches, NEW u, LruList(o, u), NEW e \in Elements \ ToSet(u),
         o.next[e] = 0, o.prev[e] = 0
  PROVE  LET r == PushLRUHead(o, e)
         IN  /\ LruList(r, <<e>> \o u)
             /\ r \in Caches /\ SameContent(o, r) /\ r.table = o.table /\ r.free = o.free
             /\ \A x \in Elements \ ToSet(u) :
                  x # e => r.next[x] = o.next[x] /\ r.prev[x] = o.prev[x]
<1> DEFINE out == RemoveFromLRU(o, e)
           r == PushLRUHead(o, e)
<1>1. u \in Lists /\ u \in Seq(Elements) /\ Len(u) \in Int
  BY ListsAre DEF LruList
<1>2. o.head # e /\ o.tail # e
  BY <1>1, AtInSet DEF LruList
<1>3. /\ out \in Caches /\ out.head = o.head /\ out.tail = o.tail
      /\ \A x \in Elements : out.next[x] = o.next[x] /\ out.prev[x] = o.prev[x]
  BY <1>2, RemoveFromLRUFacts, ElementsArePointers
<1>4. LruList(out, u)
  <2>1. ToSet(u) \subseteq Elements
    BY <1>1, InToSet
  <2> HIDE DEF out
  <2>2. QED
    BY <1>3, <2>1, LruKept
<1>5. /\ r \in Caches /\ SameContent(o, r) /\ r.table = o.table /\ r.free = o.free
      /\ r.head = e /\ r.tail = IF out.tail = 0 THEN e ELSE out.tail
      /\ \A x \in Elements : /\ r.next[x] = IF x = e THEN out.head ELSE out.next[x]
                             /\ r.prev[x] = IF x = out.head THEN e ELSE out.prev[x]
  BY <1>2, PushLRUHeadFacts
<1> HIDE DEF out, r
<1>6. out.prev[e] = 0
  BY <1>3
<1>7. /\ LruList(r, <<e>> \o u)
      /\ \A x \in Elements \ ToSet(u) :
           x # e => r.next[x] = out.next[x] /\ r.prev[x] = out.prev[x]
  BY <1>3, <1>4, <1>5, <1>6, HeadSound
<1>8. QED
  BY <1>3, <1>5, <1>7 DEF r

\* An element of the list comes to the head.
LEMMA PushHeadSound ==
  ASSUME NEW o \in Caches, NEW u, LruList(o, u), NEW i \in 1..Len(u)
  PROVE  LET r == PushLRUHead(o, u[i])
         IN  /\ LruList(r, <<u[i]>> \o RemoveAt(u, i))
             /\ r \in Caches /\ SameContent(o, r) /\ r.table = o.table /\ r.free = o.free
             /\ \A x \in Elements \ ToSet(u) : r.next[x] = o.next[x] /\ r.prev[x] = o.prev[x]
<1> DEFINE e == u[i]
           w == RemoveAt(u, i)
           out == RemoveFromLRU(o, e)
           r == PushLRUHead(o, e)
<1>1. /\ u \in Lists /\ u \in Seq(Elements) /\ Len(u) \in Nat /\ e \in Elements
      /\ e \in ToSet(u)
  BY ListsAre, InToSet DEF LruList
<1>2. w \in Lists /\ ToSet(w) = ToSet(u) \ {e} /\ Len(w) = Len(u) - 1
  BY <1>1, RemoveList
<1>3. CASE o.head = e
  <2>1. i = 1
    BY <1>1, <1>3, AtInjective DEF LruList
  <2>2. r = o
    BY <1>3 DEF PushLRUHead
  <2>3. <<e>> \o w = u
    <3>1. \A j \in 1..Len(w) : w[j] = u[j + 1]
      <4>1. \A j \in 1..Len(w) : w[j] = IF j < i THEN u[j] ELSE u[j + 1]
        BY <1>1, RemoveList
      <4> HIDE DEF w
      <4>2. QED
        BY <1>1, <1>2, <2>1, <4>1
    <3>2. /\ <<e>> \o w \in Lists /\ Len(<<e>> \o w) = Len(w) + 1 /\ (<<e>> \o w)[1] = e
          /\ \A j \in 1..Len(w) : (<<e>> \o w)[j + 1] = w[j]
      BY <1>1, <1>2, ConsList
    <3> DEFINE v == <<e>> \o w
    <3>3. v \in Seq(Elements) /\ Len(v) = Len(u)
      BY <1>1, <1>2, <3>2, ListsAre
    <3> HIDE DEF v, w
    <3>4. ASSUME NEW j \in 1..Len(u) PROVE v[j] = u[j]
      <4>1. CASE j = 1
        BY <2>1, <3>2, <4>1 DEF v
      <4>2. CASE j # 1
        <5>1. j - 1 \in 1..Len(w) /\ j - 1 + 1 = j
          BY <1>1, <1>2, <4>2
        <5>2. QED
          BY <3>1, <3>2, <5>1 DEF v
      <4>3. QED
        BY <4>1, <4>2
    <3>5. v = u
      BY <1>1, <3>3, <3>4, SeqEqual
    <3>6. QED
      BY <3>5 DEF v, w
  <2>4. QED
    BY <2>2, <2>3 DEF SameContent
<1>4. CASE o.head # e
  <2>1. /\ LruList(out, w) /\ out.prev[e] = 0
        /\ \A x \in Elements \ ToSet(u) :
             out.next[x] = o.next[x] /\ out.prev[x] = o.prev[x]
    BY RemoveSound
  <2>2. out \in Caches
    BY <1>1, RemoveFromLRUFacts
  <2>3. /\ r \in Caches /\ SameContent(o, r) /\ r.table = o.table /\ r.free = o.free
        /\ r.head = e /\ r.tail = IF out.tail = 0 THEN e ELSE out.tail
        /\ \A x \in Elements : /\ r.next[x] = IF x = e THEN out.head ELSE out.next[x]
                               /\ r.prev[x] = IF x = out.head THEN e ELSE out.prev[x]
    BY <1>1, <1>4, PushLRUHeadFacts
  <2> HIDE DEF out, r, w, e
  <2>4. e \in Elements \ ToSet(w)
    BY <1>1, <1>2
  <2>5. /\ LruList(r, <<e>> \o w)
        /\ \A x \in Elements \ ToSet(w) :
             x # e => r.next[x] = out.next[x] /\ r.prev[x] = out.prev[x]
    BY <2>1, <2>2, <2>3, <2>4, HeadSound
  <2>6. QED
    BY <1>1, <1>2, <2>1, <2>3, <2>5 DEF r, w, e
<1>5. QED
  BY <1>3, <1>4

LEMMA PushFreeSound ==
  ASSUME NEW o \in Caches, NEW f, FreeList(o, f), NEW e \in Elements \ ToSet(f)
  PROVE  FreeList(PushFreeList(o, e), <<e>> \o f)
<1> DEFINE r == PushFreeList(o, e)
           w == <<e>> \o f
           n == Len(f)
<1>1. /\ f \in Lists /\ f \in Seq(Elements) /\ n \in Nat /\ DOMAIN f = 1..n
      /\ o.free = At(f, 1) /\ \A k \in 1..n : f[k] \in Elements /\ f[k] \in ToSet(f)
  BY ListsAre, InToSet DEF FreeList
<1>2. \A k \in 1..n : o.next[f[k]] = At(f, k + 1) /\ o.prev[f[k]] = 0
  BY <1>1 DEF FreeList
<1>3. /\ r.free = e
      /\ \A x \in Elements : /\ r.next[x] = IF x = e THEN o.free ELSE o.next[x]
                             /\ r.prev[x] = IF x = e THEN 0 ELSE o.prev[x]
  BY PushFreeListFacts
<1>4. /\ w \in Lists /\ Len(w) = n + 1
      /\ At(w, 1) = e /\ \A k \in Nat \ {0} : At(w, k + 1) = At(f, k)
      /\ w[1] = e /\ \A k \in 1..n : w[k + 1] = f[k]
  BY <1>1, ConsList
<1> HIDE DEF r, w, n
<1>5. w \in Seq(Elements)
  BY <1>4, ListsAre
<1>6. ASSUME NEW j \in 1..n + 1 PROVE r.next[w[j]] = At(w, j + 1) /\ r.prev[w[j]] = 0
  <2>1. CASE j = 1
    <3>1. At(w, 1 + 1) = At(f, 1)
      BY <1>4
    <3>2. QED
      BY <1>1, <1>3, <1>4, <2>1, <3>1
  <2>2. CASE j # 1
    <3>1. j - 1 \in 1..n /\ j - 1 + 1 = j /\ j \in Nat \ {0}
      BY <1>1, <2>2
    <3>2. w[j] = f[j - 1] /\ f[j - 1] # e /\ f[j - 1] \in Elements
      <4>1. w[j - 1 + 1] = f[j - 1]
        BY <1>4, <3>1
      <4>2. QED
        BY <1>1, <3>1, <4>1
    <3>3. o.next[f[j - 1]] = At(f, j) /\ o.prev[f[j - 1]] = 0 /\ At(w, j + 1) = At(f, j)
      <4>1. o.next[f[j - 1]] = At(f, j - 1 + 1) /\ o.prev[f[j - 1]] = 0
        BY <1>2, <3>1
      <4>2. QED
        BY <1>4, <3>1, <4>1
    <3>4. QED
      BY <1>3, <3>2, <3>3
  <2>3. QED
    BY <2>1, <2>2
<1>7. DOMAIN w = 1..n + 1
  BY <1>4, <1>5
<1>8. FreeList(r, w)
  BY <1>3, <1>4, <1>6, <1>7 DEF FreeList
<1>9. QED
  BY <1>8 DEF r, w

LEMMA PopFreeSound ==
  ASSUME NEW o \in Caches, NEW f, FreeList(o, f), f # <<>>
  PROVE  LET r == PopFreeList(o)
             e == o.free
             w == RemoveAt(f, 1)
         IN  /\ e \in Elements /\ e \in ToSet(f)
             /\ FreeList(r, w) /\ ToSet(w) = ToSet(f) \ {e}
             /\ r.next[e] = 0 /\ r.prev[e] = 0
             /\ \A x \in Elements \ ToSet(f) : r.next[x] = o.next[x] /\ r.prev[x] = o.prev[x]
<1> DEFINE r == PopFreeList(o)
           e == o.free
           w == RemoveAt(f, 1)
           n == Len(f)
<1>1. /\ f \in Lists /\ f \in Seq(Elements) /\ n \in Nat /\ DOMAIN f = 1..n
      /\ e = At(f, 1) /\ \A k \in 1..n : f[k] \in Elements /\ f[k] \in ToSet(f)
  BY ListsAre, InToSet DEF FreeList
<1>2. \A k \in 1..n : o.next[f[k]] = At(f, k + 1) /\ o.prev[f[k]] = 0
  BY <1>1 DEF FreeList
<1>3. 1 \in 1..n /\ e = f[1] /\ e # 0
  <2>1. e # 0
    BY <1>1, AtFacts
  <2>2. 1 \in 1..n
    BY <1>1, <2>1, AtFacts
  <2>3. QED
    BY <1>1, <2>1, <2>2, AtFacts
<1>4. o.next[e] = At(f, 2) /\ o.prev[e] = 0
  <2>1. o.next[f[1]] = At(f, 1 + 1) /\ o.prev[f[1]] = 0
    BY <1>2, <1>3
  <2>2. QED
    BY <1>3, <2>1
<1>5. /\ r.free = o.next[e]
      /\ \A x \in Elements :
           /\ r.next[x] = IF x = e THEN 0 ELSE o.next[x]
           /\ r.prev[x] = IF x = o.next[e] THEN 0 ELSE o.prev[x]
  BY <1>3, PopFreeListFacts
<1>6. /\ w \in Lists /\ Len(w) = n - 1 /\ ToSet(w) = ToSet(f) \ {f[1]}
      /\ \A j \in Int : At(w, j) = IF j < 1 THEN At(f, j) ELSE At(f, j + 1)
      /\ \A j \in 1..Len(w) : w[j] = IF j < 1 THEN f[j] ELSE f[j + 1]
  BY <1>1, <1>3, RemoveList
<1> HIDE DEF r, w, n, e
<1>7. w \in Seq(Elements)
  BY <1>6, ListsAre
<1>8. r.free = At(w, 1)
  BY <1>4, <1>5, <1>6
<1>9. ASSUME NEW j \in 1..n - 1 PROVE r.next[w[j]] = At(w, j + 1) /\ r.prev[w[j]] = 0
  <2>1. j + 1 \in 1..n /\ j + 1 # 1 /\ j + 1 \in Int /\ ~(j + 1 < 1) /\ ~(j < 1)
    BY <1>1
  <2>2. w[j] = f[j + 1] /\ At(w, j + 1) = At(f, j + 1 + 1)
    BY <1>6, <2>1
  <2>3. \A a, b \in 1..Len(f) : f[a] = f[b] => a = b
    BY <1>1, ListsAre
  <2>4. f[j + 1] # e
    BY <1>3, <2>1, <2>3 DEF n
  <2>5. o.next[f[j + 1]] = At(f, j + 1 + 1) /\ o.prev[f[j + 1]] = 0 /\ f[j + 1] \in Elements
    BY <1>1, <1>2, <2>1
  <2>6. QED
    BY <1>5, <2>2, <2>4, <2>5
<1>10. FreeList(r, w)
  <2>1. DOMAIN w = 1..n - 1
    BY <1>6, <1>7
  <2>2. QED
    BY <1>6, <1>8, <1>9, <2>1 DEF FreeList
<1>11. ASSUME NEW x \in Elements \ ToSet(f)
       PROVE  r.next[x] = o.next[x] /\ r.prev[x] = o.prev[x]
  <2>1. x # e /\ x # At(f, 2)
    BY <1>1, <1>3, AtInSet
  <2>2. QED
    BY <1>4, <1>5, <2>1
<1>12. e \in Elements /\ e \in ToSet(f)
  BY <1>1, <1>3
<1>13. r.next[e] = 0 /\ r.prev[e] = 0
  BY <1>4, <1>5, <1>12
<1>14. QED
  BY <1>3, <1>6, <1>10, <1>11, <1>12, <1>13 DEF r, w, e

-----------------------------------------------------------------------------
(* The whole structure.                                                     *)

Sound(o, u, f) ==
  /\ o \in Caches /\ LruList(o, u) /\ FreeList(o, f) /\ Known(o, u)
  /\ ToSet(u) \cap ToSet(f) = {} /\ ToSet(u) \cup ToSet(f) = 1..o.capacity

\* There is room for the next block, and the first one is not empty.
Sizes(o) ==
  /\ o.blocks < MaxBlocks /\ o.capacity < MaxElements =>
       o.capacity + o.blockSize <= MaxElements
  /\ o.capacity = 0 => o.blocks = 0 /\ o.blockSize > 0

LEMMA KnownKey ==
  ASSUME NEW o \in Caches, NEW u, LruList(o, u), Known(o, u), NEW i \in 1..Len(u)
  PROVE  /\ u[i] \in Elements /\ u[i] \in ToSet(u)
         /\ o.key[u[i]] \in Keys /\ o.table[o.key[u[i]]] = u[i]
<1>1. u[i] \in Elements /\ u[i] \in ToSet(u)
  BY ListsAre, InToSet DEF LruList
<1>2. PICK k \in Keys : o.table[k] = u[i] /\ u[i] # 0
  BY <1>1 DEF Known
<1>3. QED
  BY <1>1, <1>2 DEF Known

LEMMA KeyKnown ==
  ASSUME NEW o \in Caches, NEW u, LruList(o, u), Known(o, u), NEW k \in Keys, o.table[k] # 0
  PROVE  \E i \in 1..Len(u) : u[i] = o.table[k] /\ o.key[u[i]] = k
<1>1. o.table[k] \in ToSet(u) /\ o.key[o.table[k]] = k
  BY DEF Known
<1>2. u \in Seq(Elements)
  BY ListsAre DEF LruList
<1>3. QED
  BY <1>1, <1>2, InToSet

LEMMA EvictSound ==
  ASSUME NEW o, NEW u, NEW f, Sound(o, u, f), NEW i \in 1..Len(u)
  PROVE  LET r == Evict(o, u[i])
         IN  /\ Sound(r, RemoveAt(u, i), <<u[i]>> \o f) /\ SameContent(o, r)
             /\ r.free = u[i]
             /\ \A k \in Keys : r.table[k] = IF k = o.key[u[i]] THEN 0 ELSE o.table[k]
<1> DEFINE e == u[i]
           a == [o EXCEPT !.table[o.key[e]] = 0]
           b == RemoveFromLRU(a, e)
           r == PushFreeList(b, e)
           w == RemoveAt(u, i)
           g == <<e>> \o f
<1>1. /\ o \in Caches /\ LruList(o, u) /\ FreeList(o, f) /\ Known(o, u)
      /\ ToSet(u) \cap ToSet(f) = {} /\ ToSet(u) \cup ToSet(f) = 1..o.capacity
      /\ e \in Elements /\ e \in ToSet(u) /\ o.key[e] \in Keys /\ o.table[o.key[e]] = e
      /\ u \in Lists /\ f \in Lists
  BY KnownKey DEF Sound, LruList, FreeList
<1>2. ToSet(u) \subseteq Elements /\ ToSet(f) \subseteq Elements
  BY <1>1, ListsAre, InToSet
<1>3. /\ a \in Caches /\ SameContent(o, a) /\ a.free = o.free
      /\ a.head = o.head /\ a.tail = o.tail /\ a.next = o.next /\ a.prev = o.prev
      /\ \A k \in Keys : a.table[k] = IF k = o.key[e] THEN 0 ELSE o.table[k]
  BY <1>1, ElementsArePointers DEF Caches, SameContent
<1>4. Evict(o, e) = r
  BY DEF Evict
<1> HIDE DEF a, e
<1>5. LruList(a, u) /\ FreeList(a, f)
  BY <1>1, <1>3, LruKept, FreeKept
<1>6. /\ b \in Caches /\ SameContent(a, b) /\ b.table = a.table /\ b.free = a.free
  BY <1>1, <1>3, RemoveFromLRUFacts
<1>7. /\ LruList(b, w)
      /\ \A x \in Elements \ ToSet(u) : b.next[x] = a.next[x] /\ b.prev[x] = a.prev[x]
  BY <1>3, <1>5, RemoveSound DEF e
<1> HIDE DEF b
<1>8. FreeList(b, f)
  BY <1>1, <1>2, <1>5, <1>6, <1>7, FreeKept
<1>9. w \in Lists /\ ToSet(w) = ToSet(u) \ {e}
  BY <1>1, RemoveList DEF e
<1>10. e \in Elements \ ToSet(f)
  BY <1>1
<1>11. /\ r \in Caches /\ SameContent(b, r) /\ r.table = b.table /\ r.free = e
       /\ r.head = b.head /\ r.tail = b.tail
       /\ \A x \in Elements : x # e => r.next[x] = b.next[x] /\ r.prev[x] = b.prev[x]
  BY <1>1, <1>6, PushFreeListFacts
<1>12. FreeList(r, g) /\ ToSet(g) = ToSet(f) \cup {e}
  BY <1>1, <1>6, <1>8, <1>10, PushFreeSound, ConsList
<1> HIDE DEF r, w, g
<1>13. LruList(r, w)
  BY <1>2, <1>7, <1>9, <1>11, LruKept
<1>14. SameContent(o, r)
  BY <1>3, <1>6, <1>11 DEF SameContent
<1>15. \A k \in Keys : r.table[k] = IF k = o.key[e] THEN 0 ELSE o.table[k]
  BY <1>3, <1>6, <1>11
<1>16. Known(r, w)
  <2>1. ASSUME NEW k \in Keys, r.table[k] # 0 PROVE r.key[r.table[k]] = k /\ r.table[k] # e
    BY <1>1, <1>14, <1>15, <2>1 DEF Known, SameContent
  <2>2. ASSUME NEW x PROVE x \in ToSet(w) <=> x # 0 /\ \E k \in Keys : x = r.table[k]
    <3>1. x \in ToSet(w) <=> x # e /\ x # 0 /\ \E k \in Keys : x = o.table[k]
      BY <1>1, <1>9 DEF Known
    <3>2. ASSUME x # e, x # 0, NEW k \in Keys, x = o.table[k] PROVE x = r.table[k]
      BY <1>1, <1>15, <3>2
    <3>3. ASSUME x # 0, NEW k \in Keys, x = r.table[k] PROVE x # e /\ x = o.table[k]
      BY <1>15, <2>1, <3>3
    <3>4. QED
      BY <3>1, <3>2, <3>3
  <2>3. ToSet(w) = {r.table[k] : k \in Keys} \ {0}
    BY <2>2
  <2>4. QED
    BY <2>1, <2>3 DEF Known
<1>17. ToSet(w) \cap ToSet(g) = {} /\ ToSet(w) \cup ToSet(g) = 1..r.capacity
  BY <1>1, <1>9, <1>12, <1>14 DEF SameContent
<1>18. Sound(r, w, g)
  BY <1>11, <1>12, <1>13, <1>16, <1>17 DEF Sound
<1>19. QED
  BY <1>4, <1>11, <1>14, <1>15, <1>18 DEF e, w, g

LEMMA DivBound ==
  ASSUME NEW a \in Nat, NEW b \in Nat \ {0}
  PROVE  a \div b \in Nat /\ a \div b <= a
OBVIOUS

\* A new block of elements as a list.
LEMMA BlockList ==
  ASSUME NEW low \in Nat, NEW size \in Nat, low + size <= MaxElements
  PROVE  LET f == [i \in 1..size |-> low + size + 1 - i]
         IN  /\ f \in Lists /\ Len(f) = size /\ ToSet(f) = (low + 1)..(low + size)
             /\ At(f, 1) = IF size = 0 THEN 0 ELSE low + size
             /\ \A i \in 1..size : /\ f[i] = low + size + 1 - i
                                   /\ At(f, i + 1) = IF i = size THEN 0 ELSE f[i] - 1
<1> DEFINE f == [i \in 1..size |-> low + size + 1 - i]
<1>1. \A i \in 1..size : f[i] = low + size + 1 - i /\ f[i] \in Elements
  BY Positive DEF Elements
<1>2. f \in Seq(Elements) /\ Len(f) = size /\ DOMAIN f = 1..size
  BY <1>1
<1> HIDE DEF f
<1>3. \A i, j \in 1..Len(f) : f[i] = f[j] => i = j
  BY <1>1, <1>2
<1>4. f \in Lists
  BY <1>2, <1>3, ListsAre
<1>5. ASSUME NEW x PROVE x \in ToSet(f) <=> x \in (low + 1)..(low + size)
  <2>1. ASSUME x \in ToSet(f) PROVE x \in (low + 1)..(low + size)
    <3>1. PICK i \in 1..size : x = f[i]
      BY <1>2, <2>1, InToSet
    <3>2. QED
      BY <1>1, <3>1
  <2>2. ASSUME x \in (low + 1)..(low + size) PROVE x \in ToSet(f)
    <3>1. low + size + 1 - x \in 1..size
      BY <2>2
    <3>2. f[low + size + 1 - x] = x
      BY <1>1, <2>2, <3>1
    <3>3. QED
      BY <1>2, <3>1, <3>2, InToSet
  <2>3. QED
    BY <2>1, <2>2
<1>6. At(f, 1) = IF size = 0 THEN 0 ELSE low + size
  BY <1>1, <1>2 DEF At
<1>7. ASSUME NEW i \in 1..size PROVE At(f, i + 1) = IF i = size THEN 0 ELSE f[i] - 1
  <2>1. CASE i = size
    BY <1>2, <2>1 DEF At
  <2>2. CASE i # size
    <3>1. i + 1 \in 1..size /\ f[i + 1] = low + size + 1 - (i + 1) /\ f[i] = low + size + 1 - i
      BY <1>1, <2>2
    <3>2. QED
      BY <1>2, <2>2, <3>1 DEF At
  <2>3. QED
    BY <2>1, <2>2
<1>8. QED
  BY <1>1, <1>2, <1>4, <1>5, <1>6, <1>7 DEF f

LEMMA AddBlockSound ==
  ASSUME NEW o, NEW u, Sound(o, u, <<>>), Sizes(o)
  PROVE  LET r == AddBlock(o)
         IN  /\ \E f : Sound(r, u, f)
             /\ Sizes(r) /\ r.capacity > 0
             /\ r.table = o.table /\ r.key = o.key /\ r.value = o.value
<1> DEFINE low == o.capacity
           size == o.blockSize
           top == low + size
           left == MaxBlocks - (o.blocks + 1)
           grown == [o EXCEPT !.blocks = @ + 1, !.capacity = top,
                       !.free = IF size = 0 THEN @ ELSE top,
                       !.prev = [e \in Elements |-> IF e \in (low + 1)..top THEN 0 ELSE @[e]],
                       !.next = [e \in Elements |->
                                   IF e \in (low + 1)..top
                                     THEN IF e = low + 1 THEN o.free ELSE e - 1
                                     ELSE @[e]]]
           r == AddBlock(o)
           f == [i \in 1..size |-> low + size + 1 - i]
<1>1. /\ o \in Caches /\ LruList(o, u) /\ FreeList(o, <<>>) /\ Known(o, u)
      /\ ToSet(u) = 1..low /\ u \in Lists
      /\ low \in Nat /\ size \in Nat /\ low <= MaxElements /\ o.blocks \in 0..MaxBlocks
      /\ size <= MaxElements
  BY Positive DEF Sound, Caches, Pointers, LruList, ToSet
<1>2. o.free = 0
  BY <1>1 DEF FreeList, At
<1>3. CASE ~(o.blocks < MaxBlocks /\ o.capacity < MaxElements)
  <2>1. r = o
    BY <1>3 DEF AddBlock
  <2>2. o.capacity > 0
    BY <1>1, <1>3, Positive DEF Sizes
  <2>3. QED
    BY <2>1, <2>2
<1>4. CASE o.blocks < MaxBlocks /\ o.capacity < MaxElements
  <2>1. top <= MaxElements /\ top \in Nat /\ left \in Nat /\ o.blocks + 1 \in 0..MaxBlocks
    BY <1>1, <1>4, Positive DEF Sizes
  <2>2. top > 0
    BY <1>1 DEF Sizes
  <2>3. /\ grown \in Caches /\ grown.blocks = o.blocks + 1 /\ grown.capacity = top
        /\ grown.blockSize = size /\ grown.free = IF size = 0 THEN 0 ELSE top
        /\ grown.head = o.head /\ grown.tail = o.tail /\ grown.table = o.table
        /\ grown.key = o.key /\ grown.value = o.value
        /\ \A e \in Elements :
             /\ grown.prev[e] = IF e \in (low + 1)..top THEN 0 ELSE o.prev[e]
             /\ grown.next[e] = IF e \in (low + 1)..top
                                THEN IF e = low + 1 THEN 0 ELSE e - 1
                                ELSE o.next[e]
    <3>1. \A e \in Elements : e # low + 1 /\ e \in (low + 1)..top => e - 1 \in Pointers
      BY <1>1, Positive DEF Elements, Pointers
    <3>2. top \in Pointers
      BY <2>1, Positive DEF Pointers
    <3> DEFINE prev == [e \in Elements |-> IF e \in (low + 1)..top THEN 0 ELSE o.prev[e]]
               next == [e \in Elements |-> IF e \in (low + 1)..top
                                           THEN IF e = low + 1 THEN o.free ELSE e - 1
                                           ELSE o.next[e]]
    <3>3. prev \in [Elements -> Pointers]
      BY <1>1, ElementsArePointers DEF Caches
    <3>4. next \in [Elements -> Pointers]
      BY <1>1, <1>2, <3>1, ElementsArePointers DEF Caches
    <3>5. grown = [o EXCEPT !.blocks = o.blocks + 1, !.capacity = top,
                     !.free = IF size = 0 THEN o.free ELSE top, !.prev = prev, !.next = next]
      BY <1>1 DEF Caches
    <3>6. \A e \in Elements :
            /\ prev[e] = IF e \in (low + 1)..top THEN 0 ELSE o.prev[e]
            /\ next[e] = IF e \in (low + 1)..top
                         THEN IF e = low + 1 THEN 0 ELSE e - 1
                         ELSE o.next[e]
      BY <1>2
    <3> HIDE DEF prev, next, grown, low, size, top
    <3>7. QED
      BY <1>1, <1>2, <2>1, <3>2, <3>3, <3>4, <3>5, <3>6 DEF Caches, low, size
  <2>4. /\ f \in Lists /\ Len(f) = size /\ ToSet(f) = (low + 1)..top
        /\ At(f, 1) = IF size = 0 THEN 0 ELSE top
        /\ \A i \in 1..size : /\ f[i] = top + 1 - i
                              /\ At(f, i + 1) = IF i = size THEN 0 ELSE f[i] - 1
    <3>1. low \in Nat /\ size \in Nat /\ low + size <= MaxElements
      BY <1>1, <2>1
    <3> HIDE DEF low, size
    <3>2. QED
      BY <3>1, BlockList
  <2> HIDE DEF grown, f
  <2>5. f \in Seq(Elements) /\ DOMAIN f = 1..size
    BY <2>4, ListsAre
  <2>6. FreeList(grown, f)
    <3>1. ASSUME NEW i \in 1..size
          PROVE  grown.next[f[i]] = At(f, i + 1) /\ grown.prev[f[i]] = 0
      <4>1. f[i] \in Elements /\ f[i] = top + 1 - i /\ f[i] \in (low + 1)..top
        BY <1>1, <2>4, <2>5
      <4>2. f[i] = low + 1 <=> i = size
        BY <1>1, <4>1
      <4>3. QED
        BY <2>3, <2>4, <4>1, <4>2
    <3>2. QED
      BY <2>3, <2>4, <2>5, <3>1 DEF FreeList
  <2>7. LruList(grown, u)
    <3>1. \A x \in ToSet(u) : x \in Elements /\ x \notin (low + 1)..top
      BY <1>1, Positive DEF Elements
    <3>2. QED
      BY <1>1, <2>3, <3>1, LruKept
  <2>8. Known(grown, u)
    BY <1>1, <2>3 DEF Known
  <2>9. ToSet(u) \cap ToSet(f) = {} /\ ToSet(u) \cup ToSet(f) = 1..top
    BY <1>1, <2>1, <2>4
  <2>10. Sound(grown, u, f)
    BY <2>3, <2>6, <2>7, <2>8, <2>9 DEF Sound
  <2>11. CASE left = 0
    <3>1. r = grown
      BY <1>4, <2>11 DEF AddBlock, grown
    <3>2. Sizes(grown)
      BY <1>1, <2>1, <2>2, <2>3, <2>11, Positive DEF Sizes
    <3>3. QED
      BY <2>2, <2>3, <2>10, <3>1, <3>2
  <2>12. CASE left # 0
    <3> DEFINE next == Least(2 * size, (MaxElements - top) \div left)
    <3>1. r = [grown EXCEPT !.blockSize = next]
      BY <1>4, <2>12 DEF AddBlock, grown
    <3>2. next \in Nat /\ next <= MaxElements - top
      <4>1. MaxElements - top \in Nat /\ left \in Nat \ {0}
        BY <2>1, <2>12, Positive
      <4>2. (MaxElements - top) \div left \in Nat /\ (MaxElements - top) \div left <= MaxElements - top
        BY <4>1, DivBound
      <4>3. QED
        BY <1>1, <4>1, <4>2 DEF Least
    <3> HIDE DEF next
    <3>3. next \in Pointers
      BY <2>1, <3>2, Positive DEF Pointers
    <3>4. /\ r \in Caches /\ r.blocks = o.blocks + 1 /\ r.capacity = top /\ r.blockSize = next
          /\ r.free = grown.free /\ r.head = grown.head /\ r.tail = grown.tail
          /\ r.table = o.table /\ r.key = o.key /\ r.value = o.value
          /\ r.prev = grown.prev /\ r.next = grown.next
      BY <2>3, <3>1, <3>3 DEF Caches
    <3> HIDE DEF r
    <3>5. LruList(r, u) /\ FreeList(r, f) /\ Known(r, u)
      BY <2>3, <2>6, <2>7, <2>8, <3>4 DEF LruList, FreeList, Known
    <3>6. Sound(r, u, f)
      BY <2>9, <3>4, <3>5 DEF Sound
    <3>7. Sizes(r)
      BY <2>1, <2>2, <3>2, <3>4, Positive DEF Sizes
    <3>8. QED
      BY <2>2, <3>4, <3>6, <3>7 DEF r
  <2>13. QED
    BY <2>11, <2>12
<1>5. QED
  BY <1>3, <1>4

\* An element is free, or a new block gives one, or there is none to be had.
LEMMA FreeElementSound ==
  ASSUME NEW o, NEW u, NEW f, Sound(o, u, f), Sizes(o)
  PROVE  LET r == WithFreeElement(o)
         IN  /\ \E g : Sound(r, u, g)
             /\ Sizes(r) /\ r.capacity > 0
             /\ r.table = o.table /\ r.key = o.key /\ r.value = o.value
<1>1. /\ f \in Lists /\ f \in Seq(Elements) /\ o.free = At(f, 1) /\ o.capacity \in Nat
      /\ ToSet(f) \subseteq 1..o.capacity
  BY ListsAre, Positive DEF Sound, FreeList, Caches, Pointers
<1>2. CASE o.free = 0
  <2>1. Len(f) = 0
    BY <1>1, <1>2, AtFacts
  <2>2. f = <<>>
    BY <1>1, <2>1
  <2>3. QED
    BY <1>2, <2>2, AddBlockSound DEF WithFreeElement
<1>3. CASE o.free # 0
  <2>1. 1 \in 1..Len(f) /\ f[1] \in ToSet(f)
    BY <1>1, <1>3, AtFacts, InToSet
  <2>2. o.capacity > 0
    BY <1>1, <2>1
  <2>3. QED
    BY <1>3, <2>2 DEF WithFreeElement
<1>4. QED
  BY <1>2, <1>3

\* The last part of Insert: the free element becomes the head, for a key that
\* the table does not know.
Filled(o, k, v) ==
  PushLRUHead([PopFreeList(o) EXCEPT !.key[o.free] = k, !.value[o.free] = v,
                                     !.table[k] = o.free], o.free)

LEMMA FilledSound ==
  ASSUME NEW o, NEW u, NEW f, Sound(o, u, f), o.free # 0,
         NEW k \in Keys, NEW v \in Values, o.table[k] = 0
  PROVE  LET r == Filled(o, k, v)
         IN  /\ Sound(r, <<o.free>> \o u, RemoveAt(f, 1))
             /\ o.free \in Elements \ ToSet(u)
             /\ r.blocks = o.blocks /\ r.capacity = o.capacity /\ r.blockSize = o.blockSize
             /\ \A x \in Elements : /\ r.key[x] = IF x = o.free THEN k ELSE o.key[x]
                                    /\ r.value[x] = IF x = o.free THEN v ELSE o.value[x]
<1> DEFINE e == o.free
           a == PopFreeList(o)
           b == [a EXCEPT !.key[e] = k, !.value[e] = v, !.table[k] = e]
           r == PushLRUHead(b, e)
           w == <<e>> \o u
           g == RemoveAt(f, 1)
<1>1. /\ o \in Caches /\ LruList(o, u) /\ FreeList(o, f) /\ Known(o, u)
      /\ ToSet(u) \cap ToSet(f) = {} /\ ToSet(u) \cup ToSet(f) = 1..o.capacity
      /\ u \in Lists /\ f \in Lists
  BY DEF Sound, LruList, FreeList
<1>2. ToSet(u) \subseteq Elements /\ ToSet(f) \subseteq Elements
  BY <1>1, ListsAre, InToSet
<1>3. f # <<>>
  BY <1>1 DEF FreeList, At
<1>4. /\ e \in Elements /\ e \in ToSet(f)
      /\ FreeList(a, g) /\ ToSet(g) = ToSet(f) \ {e}
      /\ a.next[e] = 0 /\ a.prev[e] = 0
      /\ \A x \in Elements \ ToSet(f) : a.next[x] = o.next[x] /\ a.prev[x] = o.prev[x]
  BY <1>1, <1>3, PopFreeSound
<1>5. /\ a \in Caches /\ SameContent(o, a) /\ a.table = o.table
      /\ a.head = o.head /\ a.tail = o.tail
  BY <1>1, PopFreeListFacts
<1>6. Filled(o, k, v) = r
  BY DEF Filled
<1> HIDE DEF a, e, g
<1>7. /\ b \in Caches /\ b.head = a.head /\ b.tail = a.tail /\ b.free = a.free
      /\ b.next = a.next /\ b.prev = a.prev
      /\ b.blocks = a.blocks /\ b.capacity = a.capacity /\ b.blockSize = a.blockSize
      /\ b.key = [a.key EXCEPT ![e] = k] /\ b.value = [a.value EXCEPT ![e] = v]
      /\ b.table = [a.table EXCEPT ![k] = e]
  BY <1>4, <1>5, ElementsArePointers DEF Caches
<1> HIDE DEF b
<1>8. LruList(b, u) /\ FreeList(b, g)
  <2>1. LruList(a, u)
    BY <1>1, <1>2, <1>4, <1>5, LruKept
  <2>2. QED
    BY <1>4, <1>7, <2>1, LruKept, FreeKept
<1>9. e \in Elements \ ToSet(u) /\ b.next[e] = 0 /\ b.prev[e] = 0
  BY <1>1, <1>4, <1>7
<1>10. /\ LruList(r, w)
       /\ r \in Caches /\ SameContent(b, r) /\ r.table = b.table /\ r.free = b.free
       /\ \A x \in Elements \ ToSet(u) :
            x # e => r.next[x] = b.next[x] /\ r.prev[x] = b.prev[x]
  BY <1>7, <1>8, <1>9, PushNewSound
<1>11. ToSet(w) = ToSet(u) \cup {e}
  BY <1>1, <1>9, ConsList
<1> HIDE DEF r, w
<1>12. FreeList(r, g)
  BY <1>1, <1>2, <1>4, <1>8, <1>10, FreeKept
<1>13. /\ \A x \in Elements : /\ r.key[x] = IF x = e THEN k ELSE o.key[x]
                              /\ r.value[x] = IF x = e THEN v ELSE o.value[x]
       /\ \A j \in Keys : r.table[j] = IF j = k THEN e ELSE o.table[j]
  BY <1>1, <1>4, <1>5, <1>7, <1>10 DEF SameContent, Caches
<1>14. Known(r, w)
  <2>1. ASSUME NEW j \in Keys, r.table[j] # 0 PROVE r.key[r.table[j]] = j
    <3>1. CASE j = k
      BY <1>4, <1>13, <3>1
    <3>2. CASE j # k
      <4>1. r.table[j] = o.table[j] /\ o.table[j] \in ToSet(u) /\ o.key[o.table[j]] = j
        BY <1>1, <1>13, <2>1, <3>2 DEF Known
      <4>2. QED
        BY <1>2, <1>9, <1>13, <4>1
    <3>3. QED
      BY <3>1, <3>2
  <2>2. ASSUME NEW x PROVE x \in ToSet(w) <=> x # 0 /\ \E j \in Keys : x = r.table[j]
    <3>1. x \in ToSet(u) <=> x # 0 /\ \E j \in Keys : x = o.table[j]
      BY <1>1 DEF Known
    <3>2. e # 0
      BY <1>4, ElementsArePointers
    <3>3. QED
      BY <1>11, <1>13, <3>1, <3>2
  <2>3. ToSet(w) = {r.table[j] : j \in Keys} \ {0}
    BY <2>2
  <2>4. QED
    BY <2>1, <2>3 DEF Known
<1>15. r.blocks = o.blocks /\ r.capacity = o.capacity /\ r.blockSize = o.blockSize
  BY <1>5, <1>7, <1>10 DEF SameContent
<1>16. ToSet(w) \cap ToSet(g) = {} /\ ToSet(w) \cup ToSet(g) = 1..r.capacity
  BY <1>1, <1>4, <1>11, <1>15
<1>17. Sound(r, w, g)
  BY <1>10, <1>12, <1>14, <1>16 DEF Sound
<1>18. QED
  BY <1>6, <1>9, <1>13, <1>15, <1>17 DEF e, w, g

\* Insert from the object in which the key has no entry: what is in the list,
\* unless there is no free element, and then all but the last.
InsertedFrom(o, k, v) ==
  LET o2 == WithFreeElement(o)
      o3 == IF o2.free # 0 THEN o2 ELSE WithFreeElement(Evict(o2, o2.tail))
  IN Filled(o3, k, v)

\* The object r has what o has in u, and the new entry in element e before it;
\* only a cache without a free element lost its last one.
Inserted(r, o, u, k, v, e, w, g) ==
  /\ Sound(r, <<e>> \o w, g) /\ Sizes(r) /\ e \in Elements \ ToSet(w)
  /\ \/ w = u
     \/ /\ u # <<>> /\ w = RemoveAt(u, Len(u)) /\ WithFreeElement(o).free = 0
        /\ ToSet(u) = 1..r.capacity
  /\ LET p == WithFreeElement(o)
     IN r.blocks = p.blocks /\ r.capacity = p.capacity /\ r.blockSize = p.blockSize
  /\ \A x \in Elements : /\ r.key[x] = IF x = e THEN k ELSE o.key[x]
                         /\ r.value[x] = IF x = e THEN v ELSE o.value[x]

LEMMA InsertedSound ==
  ASSUME NEW o, NEW u, NEW f, Sound(o, u, f), Sizes(o),
         NEW k \in Keys, NEW v \in Values, o.table[k] = 0
  PROVE  \E e, w, g : Inserted(InsertedFrom(o, k, v), o, u, k, v, e, w, g)
<1> DEFINE o2 == WithFreeElement(o)
           r == InsertedFrom(o, k, v)
<1>1. PICK g : Sound(o2, u, g)
  BY FreeElementSound
<1>2. Sizes(o2) /\ o2.capacity > 0 /\ o2.table = o.table /\ o2.key = o.key /\ o2.value = o.value
  BY FreeElementSound
<1>3. /\ u \in Lists /\ u \in Seq(Elements) /\ o2.tail = At(u, Len(u))
      /\ g \in Lists /\ g \in Seq(Elements) /\ o2.free = At(g, 1) /\ o2.capacity \in Nat
      /\ ToSet(u) \cup ToSet(g) = 1..o2.capacity
  <2> HIDE DEF o2
  <2>1. o2 \in Caches /\ LruList(o2, u) /\ FreeList(o2, g) /\ ToSet(u) \cup ToSet(g) = 1..o2.capacity
    BY <1>1 DEF Sound
  <2>2. u \in Lists /\ o2.tail = At(u, Len(u)) /\ g \in Lists /\ o2.free = At(g, 1)
    BY <2>1 DEF LruList, FreeList
  <2>3. o2.capacity \in Nat
    BY <2>1, Positive DEF Caches, Pointers
  <2>4. QED
    BY <2>1, <2>2, <2>3, ListsAre
<1>4. CASE o2.free # 0
  <2>1. r = Filled(o2, k, v)
    BY <1>4 DEF InsertedFrom
  <2> HIDE DEF o2, r
  <2>2. /\ Sound(r, <<o2.free>> \o u, RemoveAt(g, 1))
        /\ o2.free \in Elements \ ToSet(u)
        /\ r.blocks = o2.blocks /\ r.capacity = o2.capacity /\ r.blockSize = o2.blockSize
        /\ \A x \in Elements : /\ r.key[x] = IF x = o2.free THEN k ELSE o2.key[x]
                               /\ r.value[x] = IF x = o2.free THEN v ELSE o2.value[x]
    BY <1>1, <1>2, <1>4, <2>1, FilledSound
  <2>3. Sizes(r)
    BY <1>2, <2>2 DEF Sizes
  <2>4. Inserted(r, o, u, k, v, o2.free, u, RemoveAt(g, 1))
    BY <1>2, <2>2, <2>3 DEF Inserted, o2
  <2>5. QED
    BY <2>4 DEF r
<1>5. CASE o2.free = 0
  <2> DEFINE n == Len(u)
             e == u[n]
             o3 == Evict(o2, e)
             w == RemoveAt(u, n)
  <2>1. g = <<>> /\ ToSet(g) = {}
    <3>1. Len(g) = 0
      BY <1>3, <1>5, AtFacts
    <3>2. QED
      BY <1>3, <3>1 DEF ToSet
  <2>2. ToSet(u) = 1..o2.capacity
    BY <1>3, <2>1
  <2>3. n \in 1..Len(u) /\ o2.tail = e /\ e \in Elements
    <3>1. 1 \in ToSet(u)
      BY <1>2, <1>3, <2>2
    <3>2. Len(u) > 0 /\ Len(u) \in Nat
      BY <1>3, <3>1, InToSet
    <3>3. QED
      BY <1>3, <3>2, AtFacts
  <2>4. /\ Sound(o3, w, <<e>> \o g) /\ SameContent(o2, o3) /\ o3.free = e
        /\ \A j \in Keys : o3.table[j] = IF j = o2.key[e] THEN 0 ELSE o2.table[j]
    BY <1>1, <2>3, EvictSound
  <2>5. o3.free # 0 /\ o3.table[k] = 0
    BY <1>2, <2>3, <2>4, ElementsArePointers
  <2>6. r = Filled(o3, k, v)
    BY <1>5, <2>3, <2>5 DEF InsertedFrom, WithFreeElement
  <2> HIDE DEF o2, o3, r, e, w
  <2>7. /\ Sound(r, <<o3.free>> \o w, RemoveAt(<<e>> \o g, 1))
        /\ o3.free \in Elements \ ToSet(w)
        /\ r.blocks = o3.blocks /\ r.capacity = o3.capacity /\ r.blockSize = o3.blockSize
        /\ \A x \in Elements : /\ r.key[x] = IF x = o3.free THEN k ELSE o3.key[x]
                               /\ r.value[x] = IF x = o3.free THEN v ELSE o3.value[x]
    BY <2>4, <2>5, <2>6, FilledSound
  <2>8. /\ Sizes(r) /\ r.capacity = o2.capacity
        /\ r.blocks = o2.blocks /\ r.blockSize = o2.blockSize
    BY <1>2, <2>4, <2>7 DEF Sizes, SameContent
  <2>9. u # <<>>
    BY <1>3, <2>3
  <2>10. Inserted(r, o, u, k, v, e, w, RemoveAt(<<e>> \o g, 1))
    BY <1>2, <1>5, <2>2, <2>4, <2>7, <2>8, <2>9 DEF Inserted, w, SameContent, o2
  <2>11. QED
    BY <2>10 DEF r
<1>6. QED
  BY <1>4, <1>5

\* The list without the entry of key k, if there is one, and the object.
LEMMA OldEntrySound ==
  ASSUME NEW o, NEW u, NEW f, Sound(o, u, f), Sizes(o), NEW k \in Keys
  PROVE  LET r == IF o.table[k] = 0 THEN o ELSE Evict(o, o.table[k])
         IN  \E w, g : /\ Sound(r, w, g) /\ Sizes(r) /\ r.table[k] = 0
                       /\ r.key = o.key /\ r.value = o.value
                       /\ \/ o.table[k] = 0 /\ w = u
                          \/ \E i \in 1..Len(u) : /\ o.table[k] = u[i] /\ o.key[u[i]] = k
                                                  /\ w = RemoveAt(u, i)
<1> DEFINE r == IF o.table[k] = 0 THEN o ELSE Evict(o, o.table[k])
<1>1. CASE o.table[k] = 0
  BY <1>1
<1>2. CASE o.table[k] # 0
  <2>1. PICK i \in 1..Len(u) : u[i] = o.table[k] /\ o.key[u[i]] = k
    BY <1>2, KeyKnown DEF Sound
  <2>2. r = Evict(o, u[i])
    BY <1>2, <2>1
  <2> HIDE DEF r
  <2>3. /\ Sound(r, RemoveAt(u, i), <<u[i]>> \o f) /\ SameContent(o, r)
        /\ \A j \in Keys : r.table[j] = IF j = o.key[u[i]] THEN 0 ELSE o.table[j]
    BY <2>2, EvictSound
  <2>4. Sizes(r)
    BY <2>3 DEF Sizes, SameContent
  <2>5. QED
    BY <2>1, <2>3, <2>4 DEF r, SameContent
<1>3. QED
  BY <1>1, <1>2

-----------------------------------------------------------------------------
(* The list that the iterator runs through.                                 *)

LEMMA LeastNatural ==
  ASSUME NEW T, T \subseteq Nat, T # {}
  PROVE  \E x \in T : \A y \in T : ~(y < x)
<1>1. PICK x \in T : \A y \in T : ~(<<y, x>> \in OpToRel(<, Nat))
  BY NatLessThanWellFounded, WFMin
<1>2. \A y \in T : <<y, x>> \in Nat \X Nat /\ <<y, x>>[1] = y /\ <<y, x>>[2] = x
  OBVIOUS
<1>3. \A y \in T : ~(y < x)
  BY <1>1, <1>2 DEF OpToRel
<1>4. QED
  BY <1>3

\* Links lead to one list only.
LEMMA OneChain ==
  ASSUME NEW s \in Lists, NEW t \in Lists, NEW next, At(s, 1) = At(t, 1),
         \A i \in DOMAIN s : next[s[i]] = At(s, i + 1),
         \A i \in DOMAIN t : next[t[i]] = At(t, i + 1)
  PROVE  s = t
<1>1. /\ s \in Seq(Elements) /\ t \in Seq(Elements)
      /\ DOMAIN s = 1..Len(s) /\ DOMAIN t = 1..Len(t) /\ Len(s) \in Nat /\ Len(t) \in Nat
  BY ListsAre
<1> DEFINE T == {i \in Nat : At(s, i) # At(t, i)}
<1>2. CASE T = {}
  <2>1. \A i \in Nat : At(s, i) = At(t, i)
    BY <1>2
  <2>2. QED
    BY <1>1, <2>1, SameAt
<1>3. CASE T # {}
  <2>1. PICK m \in T : \A y \in T : ~(y < m)
    <3>1. T \subseteq Nat
      OBVIOUS
    <3> HIDE DEF T
    <3>2. QED
      BY <1>3, <3>1, LeastNatural
  <2>2. m \in Nat /\ m \in Int /\ At(s, m) # At(t, m)
    OBVIOUS
  <2>3. m # 0
    BY <1>1, <2>2, AtFacts
  <2>4. m - 1 \in Nat /\ m - 1 \in Int /\ m - 1 < m /\ m - 1 + 1 = m /\ m - 1 # 0
    BY <2>2, <2>3
  <2>5. At(s, m - 1) = At(t, m - 1)
    BY <2>1, <2>4
  <2> DEFINE j == m - 1
  <2>6. j \in Int /\ j > 0 /\ j + 1 = m /\ At(s, j) = At(t, j)
    BY <2>4, <2>5
  <2> HIDE DEF j
  <2>7. CASE At(s, j) = 0
    <3>1. j \notin 1..Len(s) /\ j \notin 1..Len(t)
      BY <1>1, <2>6, <2>7, AtFacts
    <3>2. m \notin 1..Len(s) /\ m \notin 1..Len(t)
      BY <1>1, <2>6, <3>1
    <3>3. QED
      BY <1>1, <2>2, <3>2, AtFacts
  <2>8. CASE At(s, j) # 0
    <3>1. j \in 1..Len(s) /\ j \in 1..Len(t) /\ s[j] = t[j]
      BY <1>1, <2>6, <2>8, AtFacts
    <3>2. next[s[j]] = At(s, m) /\ next[t[j]] = At(t, m)
      BY <1>1, <2>6, <3>1
    <3>3. QED
      BY <2>2, <3>1, <3>2
  <2>9. QED
    BY <2>7, <2>8
<1>4. QED
  BY <1>2, <1>3

\* The iterator runs through the LRU list.
LEMMA RunIs ==
  ASSUME NEW head, NEW next, NEW u \in Lists, head = At(u, 1),
         \A i \in DOMAIN u : next[u[i]] = At(u, i + 1)
  PROVE  u = CHOOSE s \in Lists : /\ head = At(s, 1)
                                  /\ \A i \in DOMAIN s : next[s[i]] = At(s, i + 1)
<1> DEFINE Is(s) == head = At(s, 1) /\ \A i \in DOMAIN s : next[s[i]] = At(s, i + 1)
           t == CHOOSE s \in Lists : Is(s)
<1>1. Is(u)
  OBVIOUS
<1>2. t \in Lists /\ Is(t)
  <2> HIDE DEF Is
  <2>1. QED
    BY <1>1
<1> HIDE DEF t
<1>3. t = u
  BY <1>1, <1>2, OneChain
<1>4. QED
  BY <1>3 DEF t

LEMMA ChainIs ==
  ASSUME NEW u, LruList(c, u)
  PROVE  Chain(c.head) = u
<1>1. /\ u \in Lists /\ c.head = At(u, 1)
      /\ \A i \in DOMAIN u : c.next[u[i]] = At(u, i + 1)
  BY DEF LruList
<1>2. u = CHOOSE s \in Lists : /\ c.head = At(s, 1)
                               /\ \A i \in DOMAIN s : c.next[s[i]] = At(s, i + 1)
  BY <1>1, RunIs
<1>3. QED
  BY <1>2 DEF Chain

LEMMA NextChainIs ==
  ASSUME NEW u, LruList(c', u)
  PROVE  Chain(c.head)' = u
<1>1. /\ u \in Lists /\ c'.head = At(u, 1)
      /\ \A i \in DOMAIN u : c'.next[u[i]] = At(u, i + 1)
  BY DEF LruList
<1>2. u = CHOOSE s \in Lists : /\ c'.head = At(s, 1)
                               /\ \A i \in DOMAIN s : c'.next[s[i]] = At(s, i + 1)
  BY <1>1, RunIs
<1>3. QED
  BY <1>2 DEF Chain

\* One list upside down before another.
LEMMA TurnedList ==
  ASSUME NEW u \in Lists, NEW f \in Lists, ToSet(u) \cap ToSet(f) = {}
  PROVE  LET n == Len(u)
             h == [i \in 1..n + Len(f) |-> IF i <= n THEN u[n + 1 - i] ELSE f[i - n]]
         IN  /\ h \in Lists /\ Len(h) = n + Len(f) /\ ToSet(h) = ToSet(u) \cup ToSet(f)
             /\ \A i \in 1..n : h[i] = u[n + 1 - i]
             /\ \A i \in 1..Len(f) : h[n + i] = f[i]
<1> DEFINE n == Len(u)
           m == Len(f)
           h == [i \in 1..n + m |-> IF i <= n THEN u[n + 1 - i] ELSE f[i - n]]
<1>1. /\ u \in Seq(Elements) /\ f \in Seq(Elements) /\ n \in Nat /\ m \in Nat
      /\ \A i, j \in 1..n : u[i] = u[j] => i = j
      /\ \A i, j \in 1..m : f[i] = f[j] => i = j
      /\ \A i \in 1..n : u[i] \in ToSet(u) /\ u[i] \in Elements
      /\ \A i \in 1..m : f[i] \in ToSet(f) /\ f[i] \in Elements
  BY ListsAre, InToSet
<1>2. \A i \in 1..n + m : h[i] = IF i <= n THEN u[n + 1 - i] ELSE f[i - n]
  OBVIOUS
<1>3. h = [i \in 1..n + m |-> h[i]]
  OBVIOUS
<1> HIDE DEF h, n, m
<1>4. \A i \in 1..n : i \in 1..n + m /\ n + 1 - i \in 1..n /\ h[i] = u[n + 1 - i]
  BY <1>1, <1>2
<1>5. ASSUME NEW i \in 1..m PROVE n + i \in 1..n + m /\ h[n + i] = f[i]
  <2> DEFINE j == n + i
  <2>1. j \in 1..n + m /\ ~(j <= n) /\ j - n = i
    BY <1>1
  <2> HIDE DEF j
  <2>2. h[j] = f[j - n]
    BY <1>2, <2>1
  <2>3. QED
    BY <2>1, <2>2 DEF j
<1>6. ASSUME NEW i \in 1..n + m
      PROVE  \/ i \in 1..n /\ h[i] = u[n + 1 - i] /\ h[i] \in ToSet(u) /\ h[i] \in Elements
             \/ /\ i - n \in 1..m /\ i \notin 1..n /\ h[i] = f[i - n]
                /\ h[i] \in ToSet(f) /\ h[i] \in Elements
  <2>1. CASE i <= n
    <3>1. i \in 1..n
      BY <1>1, <2>1
    <3>2. n + 1 - i \in 1..n /\ h[i] = u[n + 1 - i]
      BY <1>4, <3>1
    <3>3. u[n + 1 - i] \in ToSet(u) /\ u[n + 1 - i] \in Elements
      BY <1>1, <3>2
    <3>4. QED
      BY <3>1, <3>2, <3>3
  <2>2. CASE ~(i <= n)
    <3>1. i - n \in 1..m /\ i \notin 1..n
      BY <1>1, <2>2
    <3>2. QED
      BY <1>1, <1>2, <2>2, <3>1
  <2>3. QED
    BY <2>1, <2>2
<1>7. h \in Seq(Elements) /\ Len(h) = n + m
  <2>1. n + m \in Nat /\ \A i \in 1..n + m : h[i] \in Elements
    BY <1>1, <1>6
  <2>2. QED
    BY <1>3, <2>1
<1>8. ASSUME NEW i \in 1..n + m, NEW j \in 1..n + m, h[i] = h[j] PROVE i = j
  <2>1. CASE i \in 1..n /\ j \in 1..n
    <3>1. n + 1 - i = n + 1 - j
      BY <1>1, <1>4, <1>8, <2>1
    <3>2. QED
      BY <1>1, <3>1
  <2>2. CASE i \notin 1..n /\ j \notin 1..n
    <3>1. i - n = j - n
      BY <1>1, <1>6, <1>8, <2>2
    <3>2. QED
      BY <1>1, <3>1
  <2>3. QED
    BY <1>6, <1>8, <2>1, <2>2
<1>9. h \in Lists
  BY <1>7, <1>8, ListsAre
<1>10. ToSet(h) = ToSet(u) \cup ToSet(f)
  <2>1. ASSUME NEW x \in ToSet(h) PROVE x \in ToSet(u) \cup ToSet(f)
    BY <1>6, <1>7, InToSet
  <2>2. ASSUME NEW x \in ToSet(u) PROVE x \in ToSet(h)
    <3>1. PICK i \in 1..n : x = u[i]
      BY <1>1, InToSet DEF n
    <3>2. n + 1 - i \in 1..n /\ n + 1 - (n + 1 - i) = i
      BY <1>1
    <3>3. h[n + 1 - i] = u[n + 1 - (n + 1 - i)] /\ n + 1 - i \in 1..n + m
      BY <1>4, <3>2
    <3>4. QED
      BY <1>7, <3>1, <3>2, <3>3, InToSet
  <2>3. ASSUME NEW x \in ToSet(f) PROVE x \in ToSet(h)
    <3>1. PICK i \in 1..m : x = f[i]
      BY <1>1, InToSet DEF m
    <3>2. QED
      BY <1>5, <1>7, <3>1, InToSet
  <2>4. QED
    BY <2>1, <2>2, <2>3
<1>11. QED
  BY <1>4, <1>5, <1>7, <1>9, <1>10 DEF h, n, m

-----------------------------------------------------------------------------
(* The operations.                                                          *)

\* Clear empties the LRU list into the free list.
LEMMA ClearSound ==
  ASSUME NEW u, NEW f, Sound(c, u, f), Clear
  PROVE  /\ \E h : Sound(c', <<>>, h)
         /\ c'.blocks = c.blocks /\ c'.capacity = c.capacity /\ c'.blockSize = c.blockSize
<1> DEFINE n == Len(u)
           m == Len(f)
           place == [e \in ToSet(u) |-> CHOOSE i \in DOMAIN u : u[i] = e]
           prev == [e \in Elements |-> IF e \in ToSet(u) THEN 0 ELSE c.prev[e]]
           next == [e \in Elements |->
                      IF e \notin ToSet(u) THEN c.next[e]
                      ELSE IF place[e] = 1 THEN c.free ELSE u[place[e] - 1]]
           h == [i \in 1..n + m |-> IF i <= n THEN u[n + 1 - i] ELSE f[i - n]]
<1>1. /\ c \in Caches /\ LruList(c, u) /\ FreeList(c, f)
      /\ ToSet(u) \cap ToSet(f) = {} /\ ToSet(u) \cup ToSet(f) = 1..c.capacity
      /\ u \in Lists /\ f \in Lists
  BY DEF Sound, LruList, FreeList
<1>2. /\ u \in Seq(Elements) /\ f \in Seq(Elements) /\ n \in Nat /\ m \in Nat
      /\ DOMAIN u = 1..n /\ DOMAIN f = 1..m
      /\ \A i \in 1..n : u[i] \in ToSet(u) /\ u[i] \in Elements
      /\ \A i \in 1..m : f[i] \in ToSet(f) /\ f[i] \in Elements
      /\ \A i, j \in 1..n : u[i] = u[j] => i = j
  BY <1>1, ListsAre, InToSet
<1>3. /\ h \in Lists /\ Len(h) = n + m /\ ToSet(h) = ToSet(u) \cup ToSet(f)
      /\ \A i \in 1..n : h[i] = u[n + 1 - i]
      /\ \A i \in 1..m : h[n + i] = f[i]
  BY <1>1, TurnedList
<1>4. c' = [c EXCEPT !.table = [k \in Keys |-> 0], !.head = 0, !.tail = 0,
                     !.free = IF u = <<>> THEN c.free ELSE Last(u), !.prev = prev, !.next = next]
  <2>1. Chain(c.head) = u
    BY <1>1, ChainIs
  <2>2. QED
    BY <1>1, <2>1 DEF Clear, Caches
<1>5. \A i \in 1..n : place[u[i]] = i
  <2> TAKE i \in 1..n
  <2>1. place[u[i]] = CHOOSE j \in 1..n : u[j] = u[i]
    BY <1>2
  <2>2. \A j \in 1..n : u[j] = u[i] <=> j = i
    BY <1>2
  <2>3. QED
    BY <2>1, <2>2
<1>6. \A i \in 1..n : next[u[i]] = IF i = 1 THEN c.free ELSE u[i - 1]
  BY <1>2, <1>5
<1>7. \A e \in Elements \ ToSet(u) : next[e] = c.next[e] /\ prev[e] = c.prev[e]
  OBVIOUS
<1>8. \A e \in ToSet(u) : e \in Elements => prev[e] = 0
  OBVIOUS
<1>9. prev \in [Elements -> Pointers]
  BY <1>1, ElementsArePointers DEF Caches
<1>10. next \in [Elements -> Pointers]
  <2>1. ASSUME NEW e \in Elements PROVE next[e] \in Pointers
    <3>1. CASE e \notin ToSet(u)
      BY <1>1, <1>7, <3>1 DEF Caches
    <3>2. CASE e \in ToSet(u)
      <4>1. PICK i \in 1..n : e = u[i]
        BY <1>2, <3>2, InToSet
      <4>2. i # 1 => i - 1 \in 1..n
        BY <1>2
      <4>3. QED
        BY <1>1, <1>2, <1>6, <4>1, <4>2, ElementsArePointers DEF Caches
    <3>3. QED
      BY <3>1, <3>2
  <2>2. QED
    BY <2>1
<1> HIDE DEF place, prev, next, h
<1>11. /\ c'.blocks = c.blocks /\ c'.capacity = c.capacity /\ c'.blockSize = c.blockSize
       /\ c'.table = [k \in Keys |-> 0] /\ c'.head = 0 /\ c'.tail = 0
       /\ c'.prev = prev /\ c'.next = next /\ c'.free = IF n = 0 THEN c.free ELSE u[n]
  BY <1>1, <1>2, <1>4 DEF Caches, Last
<1>12. c'.free \in Pointers
  <2>1. n # 0 => n \in 1..n
    BY <1>2
  <2>2. QED
    BY <1>1, <1>2, <1>11, <2>1, ElementsArePointers DEF Caches
<1>13. c' \in Caches
  BY <1>1, <1>4, <1>9, <1>10, <1>11, <1>12, ElementsArePointers DEF Caches
<1>14. DOMAIN h = 1..n + m /\ h \in Seq(Elements)
  BY <1>3, ListsAre
<1>15. \A i \in 1..n + m : i \in 1..n \/ \E j \in 1..m : i = n + j
  <2> TAKE i \in 1..n + m
  <2>1. i \notin 1..n => i - n \in 1..m /\ i = n + (i - n)
    BY <1>2
  <2>2. QED
    BY <2>1
<1>16. At(h, n + 1) = At(f, 1)
  <2>1. CASE m = 0
    BY <1>2, <1>14, <2>1 DEF At
  <2>2. CASE m # 0
    <3>1. 1 \in 1..m /\ n + 1 \in 1..n + m
      BY <1>2, <2>2
    <3>2. QED
      BY <1>2, <1>3, <1>14, <3>1 DEF At
  <2>3. QED
    BY <2>1, <2>2
<1>17. c'.free = At(h, 1)
  <2>1. CASE n = 0
    <3>1. At(h, 1) = At(f, 1)
      BY <1>16, <2>1
    <3>2. QED
      BY <1>1, <1>11, <2>1, <3>1 DEF FreeList
  <2>2. CASE n # 0
    <3>1. 1 \in 1..n /\ 1 \in 1..n + m /\ n + 1 - 1 = n
      BY <1>2, <2>2
    <3>2. h[1] = u[n]
      BY <1>3, <3>1
    <3>3. QED
      BY <1>11, <1>14, <2>2, <3>1, <3>2 DEF At
  <2>3. QED
    BY <2>1, <2>2
<1>18. ASSUME NEW i \in 1..n PROVE next[h[i]] = At(h, i + 1) /\ prev[h[i]] = 0
  <2> HIDE DEF n, m
  <2> DEFINE j == n + 1 - i
  <2>1. j \in 1..n /\ (j = 1 <=> i = n) /\ (i # n => i + 1 \in 1..n /\ n + 1 - (i + 1) = j - 1)
    BY <1>2
  <2>2. h[i] = u[j]
    BY <1>3
  <2> HIDE DEF j
  <2>3. prev[h[i]] = 0
    BY <1>2, <1>8, <2>1, <2>2
  <2>4. CASE i = n
    <3>1. next[u[j]] = c.free
      BY <1>6, <2>1, <2>4
    <3>2. QED
      BY <1>1, <1>16, <2>2, <2>3, <2>4, <3>1 DEF FreeList
  <2>5. CASE i # n
    <3>1. h[i + 1] = u[j - 1] /\ i + 1 \in 1..n + m
      <4>1. h[i + 1] = u[n + 1 - (i + 1)]
        <5>1. i + 1 \in 1..n
          BY <2>1, <2>5
        <5>2. QED
          BY <1>3, <5>1
      <4>2. i + 1 \in 1..n + m
        BY <1>2, <2>1, <2>5
      <4>3. QED
        BY <2>1, <2>5, <4>1, <4>2
    <3>2. At(h, i + 1) = u[j - 1]
      BY <1>14, <3>1 DEF At
    <3>3. next[u[j]] = u[j - 1]
      BY <1>6, <2>1, <2>5
    <3>4. QED
      BY <2>2, <2>3, <3>2, <3>3
  <2>6. QED
    BY <2>4, <2>5
<1>19. ASSUME NEW j \in 1..m PROVE next[h[n + j]] = At(h, n + j + 1) /\ prev[h[n + j]] = 0
  <2>1. h[n + j] = f[j] /\ f[j] \in Elements \ ToSet(u)
    BY <1>1, <1>2, <1>3
  <2>2. next[f[j]] = At(f, j + 1) /\ prev[f[j]] = 0
    BY <1>1, <1>2, <1>7, <2>1 DEF FreeList
  <2>3. At(f, j + 1) = At(h, n + j + 1)
    <3>1. n + j + 1 = n + (j + 1) /\ (j + 1 \in 1..m <=> n + j + 1 \in 1..n + m)
      BY <1>2
    <3>2. CASE j + 1 \in 1..m
      <4>1. h[n + (j + 1)] = f[j + 1]
        BY <1>3, <3>2
      <4>2. QED
        BY <1>2, <1>14, <3>1, <3>2, <4>1 DEF At
    <3>3. CASE j + 1 \notin 1..m
      BY <1>2, <1>14, <3>1, <3>3 DEF At
    <3>4. QED
      BY <3>2, <3>3
  <2>4. QED
    BY <2>1, <2>2, <2>3
<1>20. FreeList(c', h)
  <2>1. ASSUME NEW i \in 1..n + m PROVE c'.next[h[i]] = At(h, i + 1) /\ c'.prev[h[i]] = 0
    BY <1>11, <1>15, <1>18, <1>19
  <2>2. QED
    BY <1>3, <1>14, <1>17, <2>1 DEF FreeList
<1>21. LruList(c', <<>>) /\ Known(c', <<>>) /\ ToSet(<<>>) = {}
  <2>1. <<>> \in Lists /\ ToSet(<<>>) = {} /\ Len(<<>>) = 0 /\ DOMAIN <<>> = {}
    <3>1. <<>> \in Seq(Elements) /\ Len(<<>>) = 0 /\ DOMAIN <<>> = {}
      OBVIOUS
    <3>2. \A i, j \in 1..Len(<<>>) : <<>>[i] = <<>>[j] => i = j
      BY <3>1
    <3>3. QED
      BY <3>1, <3>2, ListsAre DEF ToSet
  <2>2. LruList(c', <<>>)
    BY <1>11, <2>1 DEF LruList, At
  <2>3. \A k \in Keys : c'.table[k] = 0
    BY <1>11
  <2>4. Known(c', <<>>)
    BY <2>1, <2>3 DEF Known
  <2>5. QED
    BY <2>1, <2>2, <2>4
<1>22. Sound(c', <<>>, h)
  BY <1>1, <1>3, <1>11, <1>13, <1>20, <1>21 DEF Sound
<1>23. QED
  BY <1>11, <1>22

LEMMA InsertSound ==
  ASSUME NEW u, NEW f, Sound(c, u, f), Sizes(c), NEW k \in Keys, NEW v \in Values, Insert(k, v)
  PROVE  LET o1 == IF c.table[k] = 0 THEN c ELSE Evict(c, c.table[k])
         IN  \E u1, g : /\ Sound(o1, u1, g) /\ Sizes(o1) /\ o1.table[k] = 0
                        /\ o1.key = c.key /\ o1.value = c.value
                        /\ \/ c.table[k] = 0 /\ u1 = u
                           \/ \E i \in 1..Len(u) : /\ c.table[k] = u[i] /\ c.key[u[i]] = k
                                                   /\ u1 = RemoveAt(u, i)
                        /\ c' = InsertedFrom(o1, k, v)
<1> DEFINE o1 == IF c.table[k] = 0 THEN c ELSE Evict(c, c.table[k])
<1>1. c' = InsertedFrom(o1, k, v)
  BY DEF Insert, InsertedFrom, Filled
<1> HIDE DEF o1
<1>2. QED
  BY <1>1, OldEntrySound DEF o1

\* A lookup of key k finds the i-th element of u and moves it to the front.
LookedUp(u, f, k, v, i) ==
  /\ c.key[u[i]] = k /\ Sound(c', <<u[i]>> \o RemoveAt(u, i), f) /\ Sizes(c')
  /\ u[i] \in Elements \ ToSet(RemoveAt(u, i))
  /\ c'.capacity = c.capacity /\ c'.blocks = c.blocks /\ c'.blockSize = c.blockSize
  /\ \A x \in Elements : /\ c'.key[x] = c.key[x]
                         /\ c'.value[x] = IF x = u[i] THEN v ELSE c.value[x]

LEMMA LookupSound ==
  ASSUME NEW u, NEW f, Sound(c, u, f), Sizes(c),
         NEW k \in Keys, NEW v \in Values, MutableLookup(k, v)
  PROVE  \E i \in 1..Len(u) : LookedUp(u, f, k, v, i)
<1>1. /\ c \in Caches /\ LruList(c, u) /\ FreeList(c, f) /\ Known(c, u) /\ c.table[k] # 0
      /\ ToSet(u) \cap ToSet(f) = {} /\ ToSet(u) \cup ToSet(f) = 1..c.capacity
      /\ u \in Lists /\ f \in Lists
  BY DEF Sound, LruList, FreeList, MutableLookup
<1>2. PICK i \in 1..Len(u) : u[i] = c.table[k] /\ c.key[u[i]] = k
  BY <1>1, KeyKnown
<1> DEFINE e == u[i]
           r == PushLRUHead(c, e)
           w == RemoveAt(u, i)
           t == <<e>> \o w
<1>3. e \in Elements /\ e \in ToSet(u) /\ ToSet(f) \subseteq Elements
  BY <1>1, ListsAre, InToSet
<1>4. /\ LruList(r, t) /\ r \in Caches /\ SameContent(c, r) /\ r.table = c.table /\ r.free = c.free
      /\ \A x \in Elements \ ToSet(u) : r.next[x] = c.next[x] /\ r.prev[x] = c.prev[x]
  BY <1>1, PushHeadSound
<1>5. w \in Lists /\ ToSet(w) = ToSet(u) \ {e}
  BY <1>1, RemoveList
<1>6. c' = [r EXCEPT !.value[e] = v]
  BY <1>2 DEF MutableLookup
<1> HIDE DEF e, r, w
<1>7. t \in Lists /\ ToSet(t) = ToSet(u)
  <2>1. e \in Elements \ ToSet(w)
    BY <1>3, <1>5
  <2>2. ToSet(t) = ToSet(w) \cup {e} /\ t \in Lists
    BY <1>5, <2>1, ConsList
  <2>3. QED
    BY <1>3, <1>5, <2>2
<1> HIDE DEF t
<1>8. FreeList(r, f)
  BY <1>1, <1>3, <1>4, FreeKept
<1>9. /\ c' \in Caches /\ c'.head = r.head /\ c'.tail = r.tail /\ c'.free = r.free
      /\ c'.next = r.next /\ c'.prev = r.prev /\ c'.table = r.table /\ c'.key = r.key
      /\ c'.blocks = r.blocks /\ c'.capacity = r.capacity /\ c'.blockSize = r.blockSize
      /\ c'.value = [r.value EXCEPT ![e] = v]
  BY <1>3, <1>4, <1>6 DEF Caches
<1>10. LruList(c', t) /\ FreeList(c', f)
  BY <1>4, <1>8, <1>9, LruKept, FreeKept
<1>11. Known(c', t)
  BY <1>1, <1>4, <1>7, <1>9 DEF Known, SameContent
<1>12. Sound(c', t, f)
  BY <1>1, <1>4, <1>7, <1>9, <1>10, <1>11 DEF Sound, SameContent
<1>13. \A x \in Elements : /\ c'.key[x] = c.key[x]
                           /\ c'.value[x] = IF x = e THEN v ELSE c.value[x]
  BY <1>1, <1>3, <1>4, <1>9 DEF SameContent, Caches
<1>14. c'.capacity = c.capacity /\ c'.blocks = c.blocks /\ c'.blockSize = c.blockSize
  BY <1>4, <1>9 DEF SameContent
<1>15. Sizes(c')
  BY <1>14 DEF Sizes
<1>16. QED
  BY <1>2, <1>3, <1>5, <1>12, <1>13, <1>14, <1>15 DEF e, w, t, LookedUp

LEMMA EraseSound ==
  ASSUME NEW u, NEW f, Sound(c, u, f), Sizes(c), NEW k \in Keys, Erase(k)
  PROVE  \E i, g :
           /\ i \in 1..Len(u) /\ c.table[k] = u[i] /\ c.key[u[i]] = k
           /\ Sound(c', RemoveAt(u, i), g) /\ Sizes(c') /\ SameContent(c, c')
<1>1. PICK i \in 1..Len(u) : u[i] = c.table[k] /\ c.key[u[i]] = k
  BY KeyKnown DEF Sound, Erase
<1>2. c' = Evict(c, u[i])
  BY <1>1 DEF Erase
<1>3. Sound(c', RemoveAt(u, i), <<u[i]>> \o f) /\ SameContent(c, c')
  BY <1>2, EvictSound
<1>4. Sizes(c')
  BY <1>3 DEF Sizes, SameContent
<1>5. QED
  BY <1>1, <1>3, <1>4

-----------------------------------------------------------------------------
(* The invariant.                                                           *)

Linked == (\E u, f : Sound(c, u, f)) /\ Sizes(c)

LEMMA InitLinked == Init => Linked
<1> SUFFICES ASSUME Init PROVE Linked
  OBVIOUS
<1>1. /\ c \in Caches /\ c.head = 0 /\ c.tail = 0 /\ c.free = 0 /\ c.table = [k \in Keys |-> 0]
      /\ c.blocks = 0 /\ c.capacity = 0 /\ c.blockSize = FirstBlockSize
  BY Positive, ElementsArePointers DEF Init, Caches, Elements, Pointers
<1>2. <<>> \in Lists /\ ToSet(<<>>) = {} /\ Len(<<>>) = 0 /\ DOMAIN <<>> = {}
  <2>1. <<>> \in Seq(Elements) /\ Len(<<>>) = 0 /\ DOMAIN <<>> = {}
    OBVIOUS
  <2>2. \A i, j \in 1..Len(<<>>) : <<>>[i] = <<>>[j] => i = j
    BY <2>1
  <2>3. QED
    BY <2>1, <2>2, ListsAre DEF ToSet
<1>3. LruList(c, <<>>) /\ FreeList(c, <<>>)
  BY <1>1, <1>2 DEF LruList, FreeList, At
<1>4. Known(c, <<>>)
  <2>1. \A k \in Keys : c.table[k] = 0
    BY <1>1
  <2>2. QED
    BY <1>2, <2>1 DEF Known
<1>5. Sound(c, <<>>, <<>>)
  BY <1>1, <1>2, <1>3, <1>4 DEF Sound
<1>6. Sizes(c)
  BY <1>1, Positive DEF Sizes
<1>7. QED
  BY <1>5, <1>6 DEF Linked

LEMMA NextLinked == Linked /\ [Next]_c => Linked'
<1> SUFFICES ASSUME Linked, [Next]_c PROVE Linked'
  OBVIOUS
<1>1. PICK u, f : Sound(c, u, f)
  BY DEF Linked
<1>2. Sizes(c)
  BY DEF Linked
<1>3. ASSUME NEW k \in Keys, NEW v \in Values, Insert(k, v) PROVE Linked'
  <2> DEFINE o1 == IF c.table[k] = 0 THEN c ELSE Evict(c, c.table[k])
  <2>1. PICK u1, g : Sound(o1, u1, g) /\ Sizes(o1) /\ o1.table[k] = 0 /\ c' = InsertedFrom(o1, k, v)
    BY <1>1, <1>2, <1>3, InsertSound
  <2> HIDE DEF o1
  <2>2. PICK e, w, h : Inserted(c', o1, u1, k, v, e, w, h)
    BY <2>1, InsertedSound
  <2>3. QED
    BY <2>2 DEF Linked, Inserted
<1>4. ASSUME NEW k \in Keys, NEW v \in Values, MutableLookup(k, v) PROVE Linked'
  <2>1. PICK i \in 1..Len(u) : LookedUp(u, f, k, v, i)
    BY <1>1, <1>2, <1>4, LookupSound
  <2>2. QED
    BY <2>1 DEF Linked, LookedUp
<1>5. ASSUME NEW k \in Keys, Erase(k) PROVE Linked'
  BY <1>1, <1>2, <1>5, EraseSound DEF Linked
<1>6. CASE Clear
  <2>1. PICK h : Sound(c', <<>>, h)
    BY <1>1, <1>6, ClearSound
  <2>2. Sizes(c')
    BY <1>1, <1>2, <1>6, ClearSound DEF Sizes
  <2>3. QED
    BY <2>1, <2>2 DEF Linked
<1>7. CASE UNCHANGED c
  BY <1>7 DEF Linked
<1>8. QED
  BY <1>3, <1>4, <1>5, <1>6, <1>7 DEF Next

LEMMA LinkedIsWellLinked == Linked => WellLinked
BY DEF Linked, Sound, WellLinked, TypeOK, LruList, FreeList

\* The cache of any size, with any number of blocks and after any sequence of
\* insertions, lookups, erasures and Clears, has every allocated element in
\* exactly one of its two lists, both lists are well linked, and the table
\* knows exactly the elements of the LRU list (lru_cache.h).
THEOREM AlwaysLinked == Spec => []WellLinked
<1>1. Spec => []Linked
  BY InitLinked, NextLinked, PTL DEF Spec
<1>2. QED
  BY <1>1, LinkedIsWellLinked, PTL

-----------------------------------------------------------------------------
(* The cache is a least-recently-used map.                                  *)

LEMMA EntriesFacts ==
  ASSUME NEW o, NEW w \in Lists
  PROVE  /\ DOMAIN EntriesOf(o, w) = 1..Len(w) /\ Len(EntriesOf(o, w)) = Len(w)
         /\ EntriesOf(o, w) \in Seq({[key |-> o.key[x], value |-> o.value[x]] : x \in Elements})
         /\ \A i \in 1..Len(w) :
              EntriesOf(o, w)[i] = [key |-> o.key[w[i]], value |-> o.value[w[i]]]
<1>1. w \in Seq(Elements) /\ DOMAIN w = 1..Len(w) /\ Len(w) \in Nat
      /\ \A i \in 1..Len(w) : w[i] \in Elements
  BY ListsAre
<1> DEFINE E == {[key |-> o.key[x], value |-> o.value[x]] : x \in Elements}
           n == Len(w)
           F(i) == [key |-> o.key[w[i]], value |-> o.value[w[i]]]
<1>2. \A i \in 1..n : F(i) \in E
  BY <1>1
<1>3. EntriesOf(o, w) = [i \in 1..n |-> F(i)]
  BY <1>1 DEF EntriesOf
<1>4. n \in Nat
  BY <1>1
<1> HIDE DEF n, F, E
<1>5. [i \in 1..n |-> F(i)] \in Seq(E) /\ Len([i \in 1..n |-> F(i)]) = n
  BY <1>2, <1>4
<1>6. QED
  BY <1>3, <1>4, <1>5 DEF n, F, E

\* Two caches with the same entries in the elements of a list.
LEMMA EntriesSame ==
  ASSUME NEW o, NEW r, NEW w \in Lists,
         \A x \in ToSet(w) : r.key[x] = o.key[x] /\ r.value[x] = o.value[x]
  PROVE  EntriesOf(r, w) = EntriesOf(o, w)
<1>1. \A i \in DOMAIN w : w[i] \in ToSet(w)
  BY DEF ToSet
<1>2. QED
  BY <1>1 DEF EntriesOf

LEMMA EntriesCons ==
  ASSUME NEW o, NEW w \in Lists, NEW e \in Elements \ ToSet(w)
  PROVE  EntriesOf(o, <<e>> \o w) = <<[key |-> o.key[e], value |-> o.value[e]]>> \o EntriesOf(o, w)
<1> DEFINE t == <<e>> \o w
           n == Len(w)
           a == [key |-> o.key[e], value |-> o.value[e]]
           s == EntriesOf(o, w)
           E == {[key |-> o.key[x], value |-> o.value[x]] : x \in Elements}
<1>1. t \in Lists /\ Len(t) = n + 1 /\ t[1] = e /\ \A i \in 1..n : t[i + 1] = w[i]
  BY ConsList
<1>2. n \in Nat
  BY ListsAre
<1>3. s \in Seq(E) /\ Len(s) = n /\ \A i \in 1..n : s[i] = [key |-> o.key[w[i]], value |-> o.value[w[i]]]
  BY EntriesFacts
<1>4. /\ EntriesOf(o, t) \in Seq(E) /\ Len(EntriesOf(o, t)) = n + 1
      /\ \A i \in 1..n + 1 : EntriesOf(o, t)[i] = [key |-> o.key[t[i]], value |-> o.value[t[i]]]
  <2>a. t \in Lists
    BY <1>1
  <2> HIDE DEF t, n
  <2>1. /\ EntriesOf(o, t) \in Seq(E) /\ Len(EntriesOf(o, t)) = Len(t)
        /\ \A i \in 1..Len(t) : EntriesOf(o, t)[i] = [key |-> o.key[t[i]], value |-> o.value[t[i]]]
    BY <2>a, EntriesFacts
  <2>2. QED
    BY <1>1, <2>1
<1>5. a \in E /\ <<a>> \in Seq(E) /\ Len(<<a>>) = 1 /\ <<a>>[1] = a
  OBVIOUS
<1>6. /\ <<a>> \o s \in Seq(E) /\ Len(<<a>> \o s) = 1 + n
      /\ \A i \in 1..1 + n : (<<a>> \o s)[i] = IF i <= 1 THEN <<a>>[i] ELSE s[i - 1]
  BY <1>3, <1>5, ConcatProperties
<1> HIDE DEF t, n, s, E
<1>7. ASSUME NEW i \in 1..n + 1 PROVE EntriesOf(o, t)[i] = (<<a>> \o s)[i]
  <2>1. CASE i = 1
    BY <1>1, <1>2, <1>4, <1>5, <1>6, <2>1
  <2>2. CASE i # 1
    <3>1. i - 1 \in 1..n /\ i - 1 + 1 = i /\ i \in 1..1 + n /\ ~(i <= 1)
      BY <1>2, <2>2
    <3>2. t[i - 1 + 1] = w[i - 1] /\ s[i - 1] = [key |-> o.key[w[i - 1]], value |-> o.value[w[i - 1]]]
      BY <1>1, <1>3, <3>1
    <3>3. t[i] = w[i - 1]
      BY <3>1, <3>2
    <3>4. (<<a>> \o s)[i] = s[i - 1]
      BY <1>6, <3>1
    <3>5. EntriesOf(o, t)[i] = [key |-> o.key[t[i]], value |-> o.value[t[i]]]
      BY <1>4
    <3>6. QED
      BY <3>2, <3>3, <3>4, <3>5
  <2>3. QED
    BY <2>1, <2>2
<1>8. Len(EntriesOf(o, t)) = Len(<<a>> \o s)
  BY <1>2, <1>4, <1>6
<1> HIDE DEF a
<1>9. EntriesOf(o, t) = <<a>> \o s
  BY <1>2, <1>4, <1>6, <1>7, <1>8, SeqEqual
<1>10. QED
  BY <1>9 DEF t, a, s

LEMMA EntriesRemove ==
  ASSUME NEW o, NEW u \in Lists, NEW i \in 1..Len(u)
  PROVE  EntriesOf(o, RemoveAt(u, i)) = RemoveAt(EntriesOf(o, u), i)
<1> DEFINE w == RemoveAt(u, i)
           n == Len(u)
           s == EntriesOf(o, u)
           t == RemoveAt(s, i)
           E == {[key |-> o.key[x], value |-> o.value[x]] : x \in Elements}
<1>1. /\ w \in Lists /\ Len(w) = n - 1 /\ n \in Nat
      /\ \A j \in 1..Len(w) : w[j] = IF j < i THEN u[j] ELSE u[j + 1]
  BY RemoveList, ListsAre
<1>2. /\ s \in Seq(E) /\ Len(s) = n
      /\ \A j \in 1..n : s[j] = [key |-> o.key[u[j]], value |-> o.value[u[j]]]
  BY EntriesFacts
<1>3. /\ EntriesOf(o, w) \in Seq(E) /\ Len(EntriesOf(o, w)) = n - 1
      /\ \A j \in 1..n - 1 : EntriesOf(o, w)[j] = [key |-> o.key[w[j]], value |-> o.value[w[j]]]
  <2> HIDE DEF w, n
  <2>1. /\ EntriesOf(o, w) \in Seq(E) /\ Len(EntriesOf(o, w)) = Len(w)
        /\ \A j \in 1..Len(w) : EntriesOf(o, w)[j] = [key |-> o.key[w[j]], value |-> o.value[w[j]]]
    BY <1>1, EntriesFacts
  <2>2. QED
    BY <1>1, <2>1
<1> HIDE DEF s, E
<1>4. /\ t \in Seq(E) /\ Len(t) = n - 1
      /\ \A j \in 1..n - 1 : t[j] = IF j < i THEN s[j] ELSE s[j + 1]
  BY <1>2, RemoveAtFacts
<1> HIDE DEF w, t, n
<1>5. ASSUME NEW j \in 1..n - 1 PROVE EntriesOf(o, w)[j] = t[j]
  <2>1. j \in 1..n /\ j + 1 \in 1..n /\ j \in 1..Len(w)
    BY <1>1
  <2>2. CASE j < i
    <3>1. w[j] = u[j] /\ t[j] = s[j]
      BY <1>1, <1>4, <2>1, <2>2
    <3>2. s[j] = [key |-> o.key[u[j]], value |-> o.value[u[j]]]
      BY <1>2, <2>1
    <3>3. QED
      BY <1>3, <3>1, <3>2
  <2>3. CASE ~(j < i)
    <3>1. w[j] = u[j + 1] /\ t[j] = s[j + 1]
      BY <1>1, <1>4, <2>1, <2>3
    <3>2. s[j + 1] = [key |-> o.key[u[j + 1]], value |-> o.value[u[j + 1]]]
      BY <1>2, <2>1
    <3>3. QED
      BY <1>3, <3>1, <3>2
  <2>4. QED
    BY <2>2, <2>3
<1>6. EntriesOf(o, w) = t
  BY <1>3, <1>4, <1>5, SeqEqual
<1>7. QED
  BY <1>6 DEF w, t, s

\* The last one leaves.
LEMMA RemoveLast ==
  ASSUME NEW S, NEW s \in Seq(S), s # <<>>
  PROVE  RemoveAt(s, Len(s)) = SubSeq(s, 1, Len(s) - 1)
<1> DEFINE n == Len(s)
<1>1. n \in Nat /\ n > 0
  BY EmptySeq
<1>2. n \in 1..Len(s)
  BY <1>1
<1>3. /\ RemoveAt(s, n) \in Seq(S) /\ Len(RemoveAt(s, n)) = n - 1
      /\ \A j \in 1..n - 1 : RemoveAt(s, n)[j] = IF j < n THEN s[j] ELSE s[j + 1]
  BY <1>2, RemoveAtFacts
<1>4. /\ SubSeq(s, 1, n - 1) \in Seq(S) /\ Len(SubSeq(s, 1, n - 1)) = n - 1
      /\ \A j \in 1..n - 1 : SubSeq(s, 1, n - 1)[j] = s[j]
  <2> DEFINE m == n - 1
  <2>1. m \in Nat /\ \A j \in 1..m : s[j] \in S
    BY <1>1
  <2> HIDE DEF m, n
  <2>2. /\ SubSeq(s, 1, m) \in Seq(S) /\ Len(SubSeq(s, 1, m)) = IF 1 <= m THEN m - 1 + 1 ELSE 0
        /\ \A j \in 1..m - 1 + 1 : SubSeq(s, 1, m)[j] = s[1 + j - 1]
    BY <2>1, SubSeqProperties
  <2>3. Len(SubSeq(s, 1, m)) = m /\ \A j \in 1..m : SubSeq(s, 1, m)[j] = s[j]
    BY <2>1, <2>2
  <2>4. QED
    BY <2>2, <2>3 DEF m
<1> DEFINE a == RemoveAt(s, n)
           b == SubSeq(s, 1, n - 1)
<1>5. n > 0 /\ n \in Nat /\ \A j \in 1..n - 1 : a[j] = b[j]
  BY <1>1, <1>3, <1>4
<1>6. a \in Seq(S) /\ b \in Seq(S) /\ Len(a) = n - 1 /\ Len(b) = n - 1
  BY <1>3, <1>4
<1> HIDE DEF a, b, n
<1>7. a = b
  BY <1>5, <1>6, SeqEqual
<1>8. QED
  BY <1>7 DEF a, b, n

\* The entries s but the one of key k, as the map has it.
WithoutFrom(s, k) ==
  IF \E i \in DOMAIN s : s[i].key = k
  THEN RemoveAt(s, CHOOSE i \in DOMAIN s : s[i].key = k)
  ELSE s

LEMMA WithoutIs ==
  ASSUME NEW o, NEW u, NEW f, Sound(o, u, f), NEW k \in Keys, NEW w,
         \/ o.table[k] = 0 /\ w = u
         \/ \E i \in 1..Len(u) : o.table[k] = u[i] /\ o.key[u[i]] = k /\ w = RemoveAt(u, i)
  PROVE  WithoutFrom(EntriesOf(o, u), k) = EntriesOf(o, w)
<1> DEFINE s == EntriesOf(o, u)
           n == Len(u)
<1>1. /\ o \in Caches /\ LruList(o, u) /\ Known(o, u) /\ u \in Lists
      /\ u \in Seq(Elements) /\ \A i, j \in 1..n : u[i] = u[j] => i = j
  BY ListsAre DEF Sound, LruList
<1>2. DOMAIN s = 1..n /\ \A i \in 1..n : s[i].key = o.key[u[i]]
  <2>1. /\ DOMAIN s = 1..n
        /\ \A i \in 1..n : s[i] = [key |-> o.key[u[i]], value |-> o.value[u[i]]]
    BY <1>1 DEF EntriesOf
  <2> HIDE DEF s
  <2>2. QED
    BY <2>1
<1>3. \A i \in 1..n : o.table[o.key[u[i]]] = u[i] /\ u[i] \in Elements /\ u[i] # 0
  BY <1>1, KnownKey, ElementsArePointers
<1>4. CASE o.table[k] = 0 /\ w = u
  <2>1. \A i \in 1..n : s[i].key # k
    BY <1>2, <1>3, <1>4
  <2> HIDE DEF s
  <2>2. QED
    BY <1>2, <1>4, <2>1 DEF WithoutFrom, s
<1>5. ASSUME NEW i \in 1..n, o.table[k] = u[i], o.key[u[i]] = k, w = RemoveAt(u, i)
      PROVE  WithoutFrom(s, k) = EntriesOf(o, w)
  <2>1. \A j \in 1..n : s[j].key = k <=> j = i
    BY <1>1, <1>2, <1>3, <1>5
  <2>2. EntriesOf(o, w) = RemoveAt(s, i)
    BY <1>1, <1>5, EntriesRemove
  <2> HIDE DEF s
  <2>3. (\E j \in DOMAIN s : s[j].key = k) /\ i = CHOOSE j \in DOMAIN s : s[j].key = k
    <3>1. \A j \in DOMAIN s : s[j].key = k <=> j = i
      BY <1>2, <2>1
    <3>2. i \in DOMAIN s
      BY <1>2
    <3>3. QED
      BY <3>1, <3>2
  <2>4. QED
    BY <2>2, <2>3 DEF WithoutFrom
<1>6. QED
  BY <1>4, <1>5

\* A list of all the elements there can be.
LEMMA FullLength ==
  ASSUME NEW u \in Lists, ToSet(u) = 1..MaxElements
  PROVE  Len(u) = MaxElements
<1> DEFINE n == Len(u)
           g == [x \in Elements |-> CHOOSE i \in 1..n : u[i] = x]
<1>1. u \in Seq(Elements) /\ n \in Nat
  BY ListsAre
<1>2. \A x \in Elements : \E i \in 1..n : u[i] = x
  BY <1>1, InToSet DEF Elements
<1>3. \A x \in Elements : g[x] \in 1..n /\ u[g[x]] = x
  BY <1>2
<1>4. g \in [Elements -> 1..n]
  BY <1>3
<1>5. g \in Injection(Elements, 1..n)
  <2>1. \A x, y \in Elements : g[x] = g[y] => x = y
    BY <1>3
  <2> HIDE DEF g
  <2>2. QED
    BY <1>4, <2>1 DEF Injection, IsInjective
<1> HIDE DEF g
<1>6. /\ IsFiniteSet(Elements) /\ Cardinality(Elements) = MaxElements
      /\ IsFiniteSet(1..n) /\ Cardinality(1..n) = n
  BY <1>1, Interval, Positive DEF Elements
<1>7. MaxElements <= n
  <2> HIDE DEF n
  <2>1. Cardinality(Elements) <= Cardinality(1..n)
    BY <1>5, <1>6, FS_Injection
  <2>2. QED
    BY <1>6, <2>1
<1>8. n <= MaxElements
  <2>1. PICK m \in 0..MaxElements : u \in [1..m -> Elements]
    BY Positive DEF Lists, SeqOf
  <2>2. n = m
    BY <2>1
  <2>3. QED
    BY <2>1, <2>2, Positive
<1>9. QED
  BY <1>1, <1>7, <1>8, Positive

\* A cache below its size can still grow.
CanGrow(o) == o.capacity < MaxElements => o.blocks < MaxBlocks /\ o.blockSize > 0

\* Then it evicts only when it is full.
LEMMA NoneFree ==
  ASSUME NEW o \in Caches, CanGrow(o), WithFreeElement(o).free = 0
  PROVE  WithFreeElement(o).capacity = MaxElements
<1>1. /\ o.capacity \in Nat /\ o.capacity <= MaxElements
      /\ o.blockSize \in Nat /\ o.blocks \in 0..MaxBlocks
  BY Positive DEF Caches, Pointers
<1>2. o.free = 0 /\ WithFreeElement(o) = AddBlock(o)
  BY DEF WithFreeElement
<1>3. CASE o.capacity < MaxElements
  <2>1. o.blocks < MaxBlocks /\ o.blockSize > 0
    BY <1>3 DEF CanGrow
  <2>2. AddBlock(o).free = o.capacity + o.blockSize
    BY <1>1, <1>3, <2>1 DEF AddBlock, Caches
  <2>3. QED
    BY <1>1, <1>2, <2>1, <2>2
<1>4. CASE ~(o.capacity < MaxElements)
  <2>1. AddBlock(o) = o
    BY <1>4 DEF AddBlock
  <2>2. QED
    BY <1>1, <1>2, <1>4, <2>1, Positive
<1>5. QED
  BY <1>3, <1>4

\* Every step of the cache is one of the map, or leaves it as it is.
LEMMA StepIsMapStep ==
  ASSUME Linked, CanGrow(c), [Next]_c
  PROVE  [Map!MapNext]_(EntriesOf(c, Chain(c.head)))
<1> DEFINE entries == EntriesOf(c, Chain(c.head))
<1>1. PICK u, f : Sound(c, u, f)
  BY DEF Linked
<1>2. Sizes(c) /\ c \in Caches /\ LruList(c, u) /\ Known(c, u) /\ u \in Lists
  BY <1>1 DEF Linked, Sound, LruList
<1>3. entries = EntriesOf(c, u)
  BY <1>2, ChainIs
<1>4. ASSUME NEW w, NEW g, Sound(c', w, g) PROVE entries' = EntriesOf(c', w)
  <2>1. Chain(c.head)' = w
    BY <1>4, NextChainIs DEF Sound
  <2>2. QED
    BY <2>1
<1>5. \A k : Map!Without(k) = WithoutFrom(entries, k)
  BY DEF Map!Without, WithoutFrom, Map!RemoveAt, RemoveAt
<1> HIDE DEF entries
<1>6. ASSUME NEW k \in Keys, NEW v \in Values, Insert(k, v)
      PROVE  entries' = <<[key |-> k, value |-> v]>> \o
                        (LET others == WithoutFrom(entries, k)
                         IN IF Len(others) < MaxElements THEN others
                            ELSE SubSeq(others, 1, MaxElements - 1))
  <2> DEFINE o1 == IF c.table[k] = 0 THEN c ELSE Evict(c, c.table[k])
             a == [key |-> k, value |-> v]
  <2>1. PICK u1, g : /\ Sound(o1, u1, g) /\ Sizes(o1) /\ o1.table[k] = 0
                     /\ o1.key = c.key /\ o1.value = c.value
                     /\ \/ c.table[k] = 0 /\ u1 = u
                        \/ \E i \in 1..Len(u) : /\ c.table[k] = u[i] /\ c.key[u[i]] = k
                                                /\ u1 = RemoveAt(u, i)
                     /\ c' = InsertedFrom(o1, k, v)
    BY <1>1, <1>2, <1>6, InsertSound
  <2>2. CanGrow(o1)
    <3>1. CASE c.table[k] = 0
      BY <3>1
    <3>2. CASE c.table[k] # 0
      <4>1. PICK i \in 1..Len(u) : u[i] = c.table[k]
        BY <1>2, <3>2, KeyKnown
      <4>2. o1 = Evict(c, u[i])
        BY <3>2, <4>1
      <4> HIDE DEF o1
      <4>3. SameContent(c, o1)
        BY <1>1, <4>2, EvictSound
      <4>4. QED
        BY <4>3 DEF CanGrow, SameContent
    <3>3. QED
      BY <3>1, <3>2
  <2> HIDE DEF o1
  <2>3. PICK e, w, h : Inserted(c', o1, u1, k, v, e, w, h)
    BY <2>1, InsertedSound
  <2>4. WithoutFrom(entries, k) = EntriesOf(c, u1)
    BY <1>1, <1>3, <2>1, WithoutIs
  <2>5. entries' = EntriesOf(c', <<e>> \o w)
    BY <1>4, <2>3 DEF Inserted
  <2>6. /\ e \in Elements \ ToSet(w) /\ w \in Lists /\ u1 \in Lists /\ <<e>> \o w \in Lists
        /\ o1 \in Caches
    <3>1. u1 \in Lists /\ <<e>> \o w \in Lists /\ o1 \in Caches
      BY <2>1, <2>3 DEF Sound, LruList, Inserted
    <3>2. w \in Lists
      <4>1. CASE w = u1
        BY <3>1, <4>1
      <4>2. CASE u1 # <<>> /\ w = RemoveAt(u1, Len(u1))
        <5>1. Len(u1) \in 1..Len(u1)
          BY <3>1, <4>2, ListsAre
        <5>2. QED
          BY <3>1, <4>2, <5>1, RemoveList
      <4>3. QED
        BY <2>3, <4>1, <4>2 DEF Inserted
    <3>3. QED
      BY <2>3, <3>1, <3>2 DEF Inserted
  <2>7. c'.key[e] = k /\ c'.value[e] = v
    BY <2>3, <2>6 DEF Inserted
  <2>8. EntriesOf(c', w) = EntriesOf(c, w)
    <3>1. ToSet(w) \subseteq Elements
      BY <2>6, ListsAre, InToSet
    <3>2. \A x \in ToSet(w) : c'.key[x] = c.key[x] /\ c'.value[x] = c.value[x]
      BY <2>1, <2>3, <2>6, <3>1 DEF Inserted
    <3>3. QED
      BY <2>6, <3>2, EntriesSame
  <2>9. entries' = <<a>> \o EntriesOf(c, w)
    BY <2>5, <2>6, <2>7, <2>8, EntriesCons
  <2>10. CASE w = u1
    <3>1. Len(u1) < MaxElements
      <4>1. Len(<<e>> \o w) = Len(w) + 1
        BY <2>6, ConsList
      <4>2. Len(<<e>> \o w) <= MaxElements
        <5>1. PICK m \in 0..MaxElements : <<e>> \o w \in [1..m -> Elements]
          BY <2>6, Positive DEF Lists, SeqOf
        <5>2. Len(<<e>> \o w) = m
          BY <2>6, <5>1, ListsAre
        <5>3. QED
          BY <5>1, <5>2, Positive
      <4>3. Len(w) \in Nat
        BY <2>6, ListsAre
      <4>4. QED
        BY <2>10, <4>1, <4>2, <4>3, Positive
    <3>2. Len(EntriesOf(c, u1)) = Len(u1)
      BY <2>6, EntriesFacts
    <3>3. QED
      BY <2>4, <2>9, <2>10, <3>1, <3>2
  <2>11. CASE w # u1
    <3>1. /\ u1 # <<>> /\ w = RemoveAt(u1, Len(u1)) /\ WithFreeElement(o1).free = 0
          /\ c'.capacity = WithFreeElement(o1).capacity /\ ToSet(u1) = 1..c'.capacity
      BY <2>3, <2>11 DEF Inserted
    <3>2. c'.capacity = MaxElements
      BY <2>2, <2>6, <3>1, NoneFree
    <3>3. Len(u1) = MaxElements
      BY <2>6, <3>1, <3>2, FullLength
    <3> DEFINE s == EntriesOf(c, u1)
               E == {[key |-> c.key[x], value |-> c.value[x]] : x \in Elements}
    <3>4. s \in Seq(E) /\ Len(s) = MaxElements
      BY <2>6, <3>3, EntriesFacts
    <3>5. EntriesOf(c, w) = RemoveAt(s, MaxElements)
      <4>1. Len(u1) \in 1..Len(u1)
        BY <3>3, Positive
      <4>2. QED
        BY <2>6, <3>1, <3>3, <4>1, EntriesRemove
    <3> HIDE DEF s, E
    <3>6. s # <<>>
      BY <3>4, Positive
    <3>7. RemoveAt(s, MaxElements) = SubSeq(s, 1, MaxElements - 1)
      BY <3>4, <3>6, RemoveLast
    <3>8. ~(Len(s) < MaxElements)
      BY <3>4, Positive
    <3>9. QED
      BY <2>4, <2>9, <3>5, <3>7, <3>8 DEF s
  <2>12. QED
    BY <2>10, <2>11
<1>7. ASSUME NEW k \in Keys, NEW v \in Values, MutableLookup(k, v)
      PROVE  /\ \E i \in 1..Len(entries) : entries[i].key = k
             /\ entries' = <<[key |-> k, value |-> v]>> \o WithoutFrom(entries, k)
  <2>a. PICK i \in 1..Len(u) : LookedUp(u, f, k, v, i)
    BY <1>1, <1>2, <1>7, LookupSound
  <2>1. /\ c.key[u[i]] = k /\ Sound(c', <<u[i]>> \o RemoveAt(u, i), f)
        /\ u[i] \in Elements \ ToSet(RemoveAt(u, i))
        /\ \A x \in Elements : /\ c'.key[x] = c.key[x]
                               /\ c'.value[x] = IF x = u[i] THEN v ELSE c.value[x]
    BY <2>a DEF LookedUp
  <2> DEFINE e == u[i]
             w == RemoveAt(u, i)
  <2>2. c.table[k] = u[i]
    BY <1>2, <2>1, KnownKey
  <2>3. WithoutFrom(entries, k) = EntriesOf(c, w)
    BY <1>1, <1>3, <2>1, <2>2, WithoutIs
  <2>4. w \in Lists
    BY <1>2, RemoveList
  <2>5. entries' = EntriesOf(c', <<e>> \o w)
    BY <1>4, <2>1
  <2>6. c'.key[e] = k /\ c'.value[e] = v /\ e \in Elements \ ToSet(w)
    BY <2>1
  <2>7. EntriesOf(c', w) = EntriesOf(c, w)
    <3>1. ToSet(w) \subseteq Elements
      BY <2>4, ListsAre, InToSet
    <3>2. \A x \in ToSet(w) : c'.key[x] = c.key[x] /\ c'.value[x] = c.value[x]
      BY <2>1, <3>1
    <3>3. QED
      BY <2>4, <3>2, EntriesSame
  <2> HIDE DEF e, w
  <2>8. entries' = <<[key |-> k, value |-> v]>> \o EntriesOf(c, w)
    BY <2>4, <2>5, <2>6, <2>7, EntriesCons
  <2>9. \E j \in 1..Len(entries) : entries[j].key = k
    <3>1. Len(entries) = Len(u) /\ entries[i] = [key |-> c.key[u[i]], value |-> c.value[u[i]]]
      BY <1>2, <1>3, EntriesFacts
    <3>2. QED
      BY <2>1, <3>1
  <2>10. QED
    BY <2>3, <2>8, <2>9
<1>8. ASSUME NEW k \in Keys, Erase(k)
      PROVE  entries' = WithoutFrom(entries, k)
  <2>1. PICK i, g :
          /\ i \in 1..Len(u) /\ c.table[k] = u[i] /\ c.key[u[i]] = k
          /\ Sound(c', RemoveAt(u, i), g) /\ SameContent(c, c')
    BY <1>1, <1>2, <1>8, EraseSound
  <2>2. WithoutFrom(entries, k) = EntriesOf(c, RemoveAt(u, i))
    BY <1>1, <1>3, <2>1, WithoutIs
  <2>3. EntriesOf(c', RemoveAt(u, i)) = EntriesOf(c, RemoveAt(u, i))
    BY <2>1 DEF EntriesOf, SameContent
  <2>4. QED
    BY <1>4, <2>1, <2>2, <2>3
<1>9. CASE Clear
  <2>1. PICK h : Sound(c', <<>>, h)
    BY <1>1, <1>9, ClearSound
  <2>2. entries' = EntriesOf(c', <<>>)
    BY <1>4, <2>1
  <2>3. EntriesOf(c', <<>>) = <<>>
    BY DEF EntriesOf
  <2>4. Map!ClearAll
    BY <2>2, <2>3 DEF Map!ClearAll, entries
  <2>5. QED
    BY <2>4 DEF Map!MapNext
<1>10. CASE UNCHANGED c
  BY <1>10 DEF Chain
<1>11. ASSUME NEW k \in Keys, NEW v \in Values, Insert(k, v) PROVE Map!MapNext
  <2>1. Map!InsertEntry(k, v)
    BY <1>5, <1>6, <1>11 DEF Map!InsertEntry, entries
  <2>2. QED
    BY <2>1 DEF Map!MapNext
<1>12. ASSUME NEW k \in Keys, NEW v \in Values, MutableLookup(k, v) PROVE Map!MapNext
  <2>1. Map!UseEntry(k, v)
    BY <1>5, <1>7, <1>12 DEF Map!UseEntry, entries
  <2>2. QED
    BY <2>1 DEF Map!MapNext
<1>13. ASSUME NEW k \in Keys, Erase(k) PROVE Map!MapNext
  <2>1. Map!EraseEntry(k)
    BY <1>5, <1>8, <1>13 DEF Map!EraseEntry, entries
  <2>2. QED
    BY <2>1 DEF Map!MapNext
<1>14. QED
  BY <1>9, <1>10, <1>11, <1>12, <1>13 DEF Next

LEMMA InitIsMapInit == Init => Map!MapInit
<1> SUFFICES ASSUME Init PROVE Map!MapInit
  OBVIOUS
<1>1. c.head = 0
  BY DEF Init
<1>2. <<>> \in Lists /\ DOMAIN <<>> = {} /\ At(<<>>, 1) = 0
  <2>1. <<>> \in Seq(Elements) /\ Len(<<>>) = 0 /\ DOMAIN <<>> = {}
    OBVIOUS
  <2>2. \A i, j \in 1..Len(<<>>) : <<>>[i] = <<>>[j] => i = j
    BY <2>1
  <2>3. QED
    BY <2>1, <2>2, ListsAre DEF At
<1>3. <<>> = CHOOSE s \in Lists : /\ c.head = At(s, 1)
                                  /\ \A i \in DOMAIN s : c.next[s[i]] = At(s, i + 1)
  BY <1>1, <1>2, RunIs
<1>4. Chain(c.head) = <<>>
  BY <1>3 DEF Chain
<1>5. EntriesOf(c, <<>>) = <<>>
  BY DEF EntriesOf
<1>6. QED
  BY <1>4, <1>5 DEF Map!MapInit

\* A cache that can grow as long as it is below its size is a
\* least-recently-used map: it loses no entry but the one used least recently,
\* and that one only when it is full (Insert, MutableLookup, Erase and Clear
\* of lru_cache.h against LruMap).
THEOREM GrowingCacheIsMap == Spec /\ []CanGrow(c) => ImplementsMap
<1>1. Spec => []Linked
  BY InitLinked, NextLinked, PTL DEF Spec
<1>2. Linked /\ CanGrow(c) /\ [Next]_c => [Map!MapNext]_(EntriesOf(c, Chain(c.head)))
  BY StepIsMapStep
<1>3. QED
  BY <1>1, <1>2, InitIsMapInit, PTL DEF Spec, ImplementsMap, Map!MapSpec

-----------------------------------------------------------------------------
(* A cache of one block.                                                    *)

\* Nothing is allocated, or all there may be.
OneBlock ==
  /\ c.capacity \in {0, MaxElements}
  /\ c.capacity = 0 => c.blocks = 0 /\ c.blockSize = MaxElements

LEMMA AddsAll ==
  ASSUME NEW o \in Caches, o.capacity \in {0, MaxElements},
         o.capacity = 0 => o.blocks = 0 /\ o.blockSize = MaxElements
  PROVE  LET r == WithFreeElement(o)
         IN  /\ r.capacity \in {0, MaxElements}
             /\ r.capacity = 0 => r.blocks = 0 /\ r.blockSize = MaxElements
<1>1. CASE o.free = 0 /\ o.capacity = 0
  <2>1. AddBlock(o).capacity = MaxElements
    BY <1>1, Positive DEF AddBlock, Caches
  <2>2. QED
    BY <1>1, <2>1, Positive DEF WithFreeElement
<1>2. CASE ~(o.free = 0 /\ o.capacity = 0)
  <2>1. o.free # 0 \/ ~(o.capacity < MaxElements)
    BY <1>2, Positive
  <2>2. WithFreeElement(o) = o
    <3>1. CASE o.free # 0
      BY <3>1 DEF WithFreeElement
    <3>2. CASE ~(o.capacity < MaxElements)
      <4>1. ~(o.blocks < MaxBlocks /\ o.capacity < MaxElements)
        BY <3>2
      <4>2. AddBlock(o) = o
        BY <4>1, ZenonT(30) DEF AddBlock
      <4>3. QED
        BY <4>2 DEF WithFreeElement
    <3>3. QED
      BY <2>1, <3>1, <3>2
  <2>3. QED
    BY <2>2
<1>3. QED
  BY <1>1, <1>2

LEMMA InitOneBlock == ASSUME MaxElements <= SingleBlock PROVE Init => OneBlock
BY DEF Init, OneBlock, FirstBlockSize

LEMMA NextOneBlock == Linked /\ OneBlock /\ [Next]_c => OneBlock'
<1> SUFFICES ASSUME Linked, OneBlock, [Next]_c PROVE OneBlock'
  OBVIOUS
<1>1. PICK u, f : Sound(c, u, f)
  BY DEF Linked
<1>2. Sizes(c) /\ c \in Caches /\ LruList(c, u) /\ Known(c, u)
  BY <1>1 DEF Linked, Sound
<1>3. ASSUME c'.blocks = c.blocks, c'.capacity = c.capacity, c'.blockSize = c.blockSize
      PROVE  OneBlock'
  BY <1>3 DEF OneBlock
<1>4. ASSUME NEW k \in Keys, NEW v \in Values, Insert(k, v) PROVE OneBlock'
  <2> DEFINE o1 == IF c.table[k] = 0 THEN c ELSE Evict(c, c.table[k])
             p == WithFreeElement(o1)
  <2>1. PICK u1, g : Sound(o1, u1, g) /\ Sizes(o1) /\ o1.table[k] = 0 /\ c' = InsertedFrom(o1, k, v)
    BY <1>1, <1>2, <1>4, InsertSound
  <2>2. o1.blocks = c.blocks /\ o1.capacity = c.capacity /\ o1.blockSize = c.blockSize
    <3>1. CASE c.table[k] = 0
      BY <3>1
    <3>2. CASE c.table[k] # 0
      <4>1. PICK i \in 1..Len(u) : u[i] = c.table[k]
        BY <1>2, <3>2, KeyKnown
      <4>2. o1 = Evict(c, u[i])
        BY <3>2, <4>1
      <4> HIDE DEF o1
      <4>3. SameContent(c, o1)
        BY <1>1, <4>2, EvictSound
      <4>4. QED
        BY <4>3 DEF SameContent
    <3>3. QED
      BY <3>1, <3>2
  <2> HIDE DEF o1
  <2>3. PICK e, w, h : Inserted(c', o1, u1, k, v, e, w, h)
    BY <2>1, InsertedSound
  <2>4. c'.blocks = p.blocks /\ c'.capacity = p.capacity /\ c'.blockSize = p.blockSize
    BY <2>3 DEF Inserted
  <2>5. p.capacity \in {0, MaxElements} /\ (p.capacity = 0 => p.blocks = 0 /\ p.blockSize = MaxElements)
    BY <2>1, <2>2, AddsAll DEF Sound, OneBlock
  <2> HIDE DEF p
  <2>6. QED
    BY <2>4, <2>5 DEF OneBlock
<1>5. ASSUME NEW k \in Keys, NEW v \in Values, MutableLookup(k, v) PROVE OneBlock'
  <2>1. PICK i \in 1..Len(u) : LookedUp(u, f, k, v, i)
    BY <1>1, <1>2, <1>5, LookupSound
  <2>2. QED
    BY <1>3, <2>1 DEF LookedUp
<1>6. ASSUME NEW k \in Keys, Erase(k) PROVE OneBlock'
  <2>1. SameContent(c, c')
    BY <1>1, <1>2, <1>6, EraseSound
  <2>2. QED
    BY <1>3, <2>1 DEF SameContent
<1>7. CASE Clear
  BY <1>1, <1>3, <1>7, ClearSound
<1>8. CASE UNCHANGED c
  BY <1>3, <1>8
<1>9. QED
  BY <1>4, <1>5, <1>6, <1>7, <1>8 DEF Next

LEMMA OneBlockCanGrow == OneBlock => CanGrow(c)
BY Positive DEF OneBlock, CanGrow

\* A cache small enough for one block (up to 128 elements in lru_cache.h, as
\* the session map of SessionHandler is) is a least-recently-used map of
\* MaxElements entries, whatever its users do.
THEOREM SmallCacheIsMap == ASSUME MaxElements <= SingleBlock PROVE Spec => ImplementsMap
<1>1. Spec => []Linked
  BY InitLinked, NextLinked, PTL DEF Spec
<1>2. Spec => []OneBlock
  BY <1>1, InitOneBlock, NextOneBlock, PTL DEF Spec
<1>3. Spec => []CanGrow(c)
  BY <1>2, OneBlockCanGrow, PTL
<1>4. QED
  BY <1>3, GrowingCacheIsMap, PTL

=============================================================================
