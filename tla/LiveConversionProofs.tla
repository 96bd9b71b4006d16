------------------------ MODULE LiveConversionProofs ------------------------
(***************************************************************************)
(* Proofs about LiveConversion, for any letters, lengths, skipped readings *)
(* and either kind of client timer.                                        *)
(***************************************************************************)
EXTENDS LiveConversion, SequenceTheorems, TLAPS

Chars == Letters \cup {Punct}
States == {"DIRECT", "PRECOMPOSITION"} \cup Editing
Undos == [state : States, reading : Readings, cursor : Nat, conv : Styles]
Answers == [gen : Generations, key : Readings, ok : BOOLEAN]
Feedbacks == [action : {"none", "accepted", "rejected"},
              value : Texts, final : Texts]

\* A session as a handler may hold it half way: the composer's text may end in
\* punctuation.
Sessions ==
  [state : States, reading : Seq(Chars), cursor : Nat, conv : Styles,
   undo : Undos \cup {None}, active : BOOLEAN, pending : BOOLEAN,
   gen : Generations, pendingKey : Readings, key : Readings, value : Texts,
   zgen : Generations, wait : {"no", "scheduled", "submitted"},
   polls : 0..MaxPolls, zkey : Readings, zbase : Texts, vkey : Readings,
   vvalue : Texts, vbase : Texts, feedback : Feedbacks,
   request : Requests \cup {None}, answer : Answers \cup {None}]

-----------------------------------------------------------------------------
(* Readings and texts.                                                      *)

LEMMA ReadingsAreBounded ==
  \A r : r \in Readings <=> r \in Seq(Letters) /\ Len(r) <= MaxLength
<1> SUFFICES ASSUME NEW r
             PROVE  r \in Readings <=> r \in Seq(Letters) /\ Len(r) <= MaxLength
  OBVIOUS
<1> USE ConstantsAssumption
<1>1. ASSUME r \in Readings PROVE r \in Seq(Letters) /\ Len(r) <= MaxLength
  <2>1. PICK n \in 0..MaxLength : r \in [1..n -> Letters]
    BY <1>1 DEF Readings
  <2>2. r \in Seq(Letters)
    BY <2>1, SeqDef
  <2>3. Len(r) = n
    BY <2>1, <2>2, LenProperties
  <2>4. QED
    BY <2>1, <2>2, <2>3
<1>2. ASSUME r \in Seq(Letters), Len(r) <= MaxLength PROVE r \in Readings
  <2>1. Len(r) \in 0..MaxLength /\ r \in [1..Len(r) -> Letters]
    BY <1>2, LenProperties
  <2>2. QED
    BY <2>1 DEF Readings
<1>3. QED
  BY <1>1, <1>2

LEMMA ReadingsAreSequences == Readings \subseteq Seq(Chars)
<1> SUFFICES ASSUME NEW r \in Readings PROVE r \in Seq(Chars)
  OBVIOUS
<1>1. r \in Seq(Letters)
  BY ReadingsAreBounded
<1>2. QED
  BY <1>1, SeqMonotonic DEF Chars

LEMMA NoReading == <<>> \in Readings /\ <<>> \in Texts /\ <<>> \in Seq(Chars)
<1>1. <<>> \in Seq(Letters) /\ Len(<<>>) = 0 /\ <<>> \in Texts /\ <<>> \in Seq(Chars)
  BY EmptySeq DEF Texts
<1>2. Len(<<>>) <= MaxLength
  BY <1>1, ConstantsAssumption
<1>3. <<>> \in Readings
  BY <1>1, <1>2, ReadingsAreBounded, Zenon
<1>4. QED
  BY <1>1, <1>3

\* As keeps the reading.
LEMMA AsFacts ==
  ASSUME NEW style \in Styles, NEW r \in Seq(Chars)
  PROVE  /\ As(style, r) \in Texts /\ Len(As(style, r)) = Len(r)
         /\ ReadingOf(As(style, r)) = r
         /\ \A i \in 1..Len(r) : As(style, r)[i] = <<style, r[i]>>
         /\ As(style, r) = <<>> <=> r = <<>>
<1> DEFINE t == As(style, r)
<1>1. Len(r) \in Nat /\ DOMAIN r = 1..Len(r) /\ \A i \in 1..Len(r) : r[i] \in Chars
  BY LenProperties, ElementOfSeq
<1>2. t = [i \in 1..Len(r) |-> <<style, r[i]>>]
  BY <1>1 DEF As
<1>3. \A i \in 1..Len(r) : <<style, r[i]>> \in Styles \X (Letters \cup {Punct})
  BY <1>1 DEF Chars
<1>4. t \in Texts
  BY <1>1, <1>2, <1>3, IsASeq DEF Texts
<1>5. DOMAIN t = 1..Len(r) /\ Len(t) = Len(r)
  BY <1>1, <1>2, <1>4, LenProperties DEF Texts
<1>6. ReadingOf(t) = r
  <2>1. ReadingOf(t) = [i \in 1..Len(r) |-> r[i]]
    BY <1>2, <1>5 DEF ReadingOf
  <2>2. QED
    BY <1>1, <2>1
<1>7. QED
  BY <1>1, <1>2, <1>4, <1>5, <1>6, EmptySeq DEF Texts

LEMMA ReadingOfFacts ==
  ASSUME NEW t \in Texts
  PROVE  /\ ReadingOf(t) \in Seq(Chars) /\ Len(ReadingOf(t)) = Len(t)
         /\ \A i \in 1..Len(t) : ReadingOf(t)[i] = t[i][2]
         /\ ReadingOf(t) = <<>> <=> t = <<>>
<1>1. Len(t) \in Nat /\ DOMAIN t = 1..Len(t)
      /\ \A i \in 1..Len(t) : t[i] \in Styles \X (Letters \cup {Punct})
  BY LenProperties, ElementOfSeq DEF Texts
<1>2. ReadingOf(t) = [i \in 1..Len(t) |-> t[i][2]]
  BY <1>1 DEF ReadingOf
<1>3. \A i \in 1..Len(t) : t[i][2] \in Chars
  BY <1>1 DEF Chars
<1>4. ReadingOf(t) \in Seq(Chars)
  BY <1>1, <1>2, <1>3, IsASeq
<1>5. Len(ReadingOf(t)) = Len(t)
  BY <1>1, <1>2, <1>4, LenProperties
<1>6. QED
  BY <1>1, <1>2, <1>4, <1>5, EmptySeq DEF Texts

LEMMA ReadingOfConcat ==
  ASSUME NEW t \in Texts, NEW u \in Texts
  PROVE  t \o u \in Texts /\ ReadingOf(t \o u) = ReadingOf(t) \o ReadingOf(u)
<1>1. /\ t \o u \in Texts /\ Len(t \o u) = Len(t) + Len(u)
      /\ \A i \in 1..(Len(t) + Len(u)) : (t \o u)[i] =
           IF i <= Len(t) THEN t[i] ELSE u[i - Len(t)]
  BY ConcatProperties DEF Texts
<1>2. Len(t) \in Nat /\ Len(u) \in Nat
  BY LenProperties DEF Texts
<1> DEFINE a == ReadingOf(t)
           b == ReadingOf(u)
           c == ReadingOf(t \o u)
<1>3. /\ a \in Seq(Chars) /\ b \in Seq(Chars) /\ c \in Seq(Chars)
      /\ Len(a) = Len(t) /\ Len(b) = Len(u) /\ Len(c) = Len(t) + Len(u)
      /\ \A i \in 1..Len(t) : a[i] = t[i][2]
      /\ \A i \in 1..Len(u) : b[i] = u[i][2]
      /\ \A i \in 1..(Len(t) + Len(u)) : c[i] = (t \o u)[i][2]
  BY <1>1, ReadingOfFacts
<1> HIDE DEF a, b, c
<1>4. /\ a \o b \in Seq(Chars) /\ Len(a \o b) = Len(t) + Len(u)
      /\ \A i \in 1..(Len(t) + Len(u)) : (a \o b)[i] =
           IF i <= Len(t) THEN a[i] ELSE b[i - Len(t)]
  <2>1. a \in Seq(Chars) /\ b \in Seq(Chars) /\ Len(a) = Len(t) /\ Len(b) = Len(u)
    BY <1>3
  <2>2. /\ a \o b \in Seq(Chars) /\ Len(a \o b) = Len(a) + Len(b)
        /\ \A i \in 1..(Len(a) + Len(b)) : (a \o b)[i] =
             IF i <= Len(a) THEN a[i] ELSE b[i - Len(a)]
    BY <2>1, ConcatProperties, Zenon
  <2>3. QED
    BY <2>1, <2>2, Zenon
<1>5. ASSUME NEW i \in 1..(Len(t) + Len(u)) PROVE c[i] = (a \o b)[i]
  <2>1. CASE i <= Len(t)
    <3>1. i \in 1..Len(t) /\ (t \o u)[i] = t[i] /\ (a \o b)[i] = a[i]
      BY <1>1, <1>2, <1>4, <2>1
    <3>2. QED
      BY <1>3, <3>1
  <2>2. CASE ~(i <= Len(t))
    <3>1. /\ i - Len(t) \in 1..Len(u) /\ (t \o u)[i] = u[i - Len(t)]
          /\ (a \o b)[i] = b[i - Len(t)]
      BY <1>1, <1>2, <1>4, <2>2
    <3>2. QED
      BY <1>3, <3>1
  <2>3. QED
    BY <2>1, <2>2
<1>6. c = a \o b
  <2>1. Len(c) = Len(a \o b) /\ \A i \in 1..Len(c) : c[i] = (a \o b)[i]
    BY <1>3, <1>4, <1>5
  <2>2. QED
    BY <1>3, <1>4, <2>1, SeqEqual
<1>7. QED
  BY <1>1, <1>6 DEF a, b, c

\* A reading and what follows a prefix of it.
Extends(key, reading) == key = <<>> \/ IsPrefix(key, reading)

LEMMA PrefixAndRest ==
  ASSUME NEW k \in Seq(Chars), NEW r \in Seq(Chars), Extends(k, r)
  PROVE  From(r, Len(k)) \in Seq(Chars) /\ k \o From(r, Len(k)) = r
<1>1. Len(k) \in Nat /\ Len(r) \in Nat /\ \A i \in 1..Len(r) : r[i] \in Chars
  BY LenProperties, ElementOfSeq
<1>2. Len(k) <= Len(r) /\ k = SubSeq(r, 1, Len(k))
  <2>1. CASE k = <<>>
    <3>1. Len(k) = 0
      BY <2>1, EmptySeq
    <3>2. SubSeq(r, 1, 0) = <<>>
      BY SubSeqEmpty
    <3>3. QED
      BY <1>1, <2>1, <3>1, <3>2
  <2>2. CASE IsPrefix(k, r)
    BY <2>2, SubSeqFull DEF IsPrefix
  <2>3. QED
    BY <2>1, <2>2 DEF Extends
<1>3. From(r, Len(k)) = SubSeq(r, Len(k) + 1, Len(r))
  BY DEF From
<1>4. SubSeq(r, Len(k) + 1, Len(r)) \in Seq(Chars)
  <2>1. \A i \in (Len(k) + 1)..Len(r) : r[i] \in Chars
    BY <1>1
  <2>2. Len(k) + 1 \in Int /\ Len(r) \in Int
    BY <1>1
  <2>3. QED
    BY <2>1, <2>2, SubSeqProperties
<1>5. SubSeq(r, 1, Len(k)) \o SubSeq(r, Len(k) + 1, Len(r)) = SubSeq(r, 1, Len(r))
  <2>1. /\ 1 \in 1..(Len(r) + 1) /\ Len(k) \in (1 - 1)..Len(r)
        /\ Len(r) \in Len(k)..Len(r)
    BY <1>1, <1>2
  <2>2. QED
    BY <2>1, ConcatAdjacentSubSeq
<1>6. SubSeq(r, 1, Len(r)) = r
  BY SubSeqFull
<1>7. QED
  BY <1>2, <1>3, <1>4, <1>5, <1>6

\* A letter more at the cursor.
LEMMA InsertAtFacts ==
  ASSUME NEW S, NEW r \in Seq(S), NEW n \in 0..Len(r), NEW x \in S
  PROVE  /\ InsertAt(r, n + 1, x) \in Seq(S)
         /\ Len(InsertAt(r, n + 1, x)) = Len(r) + 1
         /\ n = Len(r) => InsertAt(r, n + 1, x) = r \o <<x>>
<1>1. Len(r) \in Nat /\ \A i \in 1..Len(r) : r[i] \in S
  BY LenProperties, ElementOfSeq
<1> DEFINE a == SubSeq(r, 1, n)
           b == SubSeq(r, n + 1, Len(r))
<1>2. InsertAt(r, n + 1, x) = a \o <<x>> \o b
  <2>1. (n + 1) - 1 = n
    BY <1>1
  <2>2. QED
    BY <2>1 DEF InsertAt
<1>3. a \in Seq(S) /\ Len(a) = n
  <2>1. n \in Int /\ 1 \in Int /\ \A i \in 1..n : r[i] \in S
    BY <1>1
  <2>2. a \in Seq(S) /\ Len(a) = IF 1 <= n THEN n - 1 + 1 ELSE 0
    BY <2>1, SubSeqProperties
  <2>3. QED
    BY <1>1, <2>2
<1>4. b \in Seq(S) /\ Len(b) = Len(r) - n
  <2>1. n + 1 \in Int /\ Len(r) \in Int /\ \A i \in (n + 1)..Len(r) : r[i] \in S
    BY <1>1
  <2>2. b \in Seq(S) /\ Len(b) = IF n + 1 <= Len(r) THEN Len(r) - (n + 1) + 1 ELSE 0
    BY <2>1, SubSeqProperties
  <2>3. QED
    BY <1>1, <2>2
<1>5. <<x>> \in Seq(S) /\ Len(<<x>>) = 1
  OBVIOUS
<1>6. n = Len(r) => a = r /\ b = <<>>
  <2>1. ASSUME n = Len(r) PROVE a = r /\ b = <<>>
    BY <1>1, <2>1, SubSeqFull, SubSeqEmpty
  <2>2. QED
    BY <2>1
<1> DEFINE y == <<x>>
<1> HIDE DEF a, b, y
<1>7. a \o y \in Seq(S) /\ Len(a \o y) = n + 1
  <2>1. y \in Seq(S) /\ Len(y) = 1
    BY <1>5 DEF y
  <2>2. a \o y \in Seq(S) /\ Len(a \o y) = Len(a) + Len(y)
    BY <1>3, <2>1, ConcatProperties
  <2>3. QED
    BY <1>3, <2>1, <2>2
<1>8. (a \o y) \o b \in Seq(S) /\ Len((a \o y) \o b) = n + 1 + (Len(r) - n)
  <2>1. (a \o y) \o b \in Seq(S) /\ Len((a \o y) \o b) = Len(a \o y) + Len(b)
    BY <1>4, <1>7, ConcatProperties
  <2>2. QED
    BY <1>4, <1>7, <2>1
<1>9. ASSUME n = Len(r) PROVE (a \o y) \o b = r \o y
  <2>1. a = r /\ b = <<>>
    BY <1>6, <1>9
  <2>2. (a \o y) \o <<>> = a \o y
    BY <1>7, ConcatEmptySeq
  <2>3. QED
    BY <2>1, <2>2
<1>10. InsertAt(r, n + 1, x) = (a \o y) \o b
  BY <1>2 DEF y
<1>11. n + 1 + (Len(r) - n) = Len(r) + 1
  BY <1>1
<1>12. /\ InsertAt(r, n + 1, x) \in Seq(S)
       /\ Len(InsertAt(r, n + 1, x)) = Len(r) + 1
       /\ n = Len(r) => InsertAt(r, n + 1, x) = r \o y
  BY <1>8, <1>9, <1>10, <1>11, Zenon
<1>13. QED
  BY <1>12 DEF y

LEMMA RemoveAtFacts ==
  ASSUME NEW S, NEW r \in Seq(S), NEW n \in 1..Len(r)
  PROVE  /\ RemoveAt(r, n) \in Seq(S) /\ Len(RemoveAt(r, n)) = Len(r) - 1
<1>1. Len(r) \in Nat /\ \A i \in 1..Len(r) : r[i] \in S
  BY LenProperties, ElementOfSeq
<1> DEFINE a == SubSeq(r, 1, n - 1)
           b == SubSeq(r, n + 1, Len(r))
<1>2. RemoveAt(r, n) = a \o b
  BY DEF RemoveAt
<1>3. a \in Seq(S) /\ Len(a) = n - 1
  <2>1. n - 1 \in Int /\ 1 \in Int /\ \A i \in 1..(n - 1) : r[i] \in S
    BY <1>1
  <2>2. a \in Seq(S) /\ Len(a) = IF 1 <= n - 1 THEN (n - 1) - 1 + 1 ELSE 0
    BY <2>1, SubSeqProperties
  <2>3. QED
    BY <1>1, <2>2
<1>4. b \in Seq(S) /\ Len(b) = Len(r) - n
  <2>1. n + 1 \in Int /\ Len(r) \in Int /\ \A i \in (n + 1)..Len(r) : r[i] \in S
    BY <1>1
  <2>2. b \in Seq(S) /\ Len(b) = IF n + 1 <= Len(r) THEN Len(r) - (n + 1) + 1 ELSE 0
    BY <2>1, SubSeqProperties
  <2>3. QED
    BY <1>1, <2>2
<1> HIDE DEF a, b
<1>5. a \o b \in Seq(S) /\ Len(a \o b) = Len(a) + Len(b)
  BY <1>3, <1>4, ConcatProperties
<1>6. QED
  BY <1>1, <1>2, <1>3, <1>4, <1>5

-----------------------------------------------------------------------------
(* The names of the generations never run out.                              *)

LEMMA Pigeonhole ==
  ASSUME NEW a, NEW b, NEW c, NEW d, NEW e
  PROVE  \E n \in 1..6 : n \notin {a, b, c, d, e}
<1> SUFFICES ASSUME \A n \in 1..6 : n \in {a, b, c, d, e} PROVE FALSE
  OBVIOUS
<1>1. /\ 1 \in {a, b, c, d, e} /\ 2 \in {a, b, c, d, e} /\ 3 \in {a, b, c, d, e}
      /\ 4 \in {a, b, c, d, e} /\ 5 \in {a, b, c, d, e} /\ 6 \in {a, b, c, d, e}
  OBVIOUS
<1>2. QED
  BY <1>1

LEMMA LeastOutside ==
  ASSUME NEW held, \E n \in 1..6 : n \notin held
  PROVE  \E n \in (1..6) \ held : \A m \in 1..(n - 1) : m \in held
<1>1. CASE 1 \notin held
  BY <1>1
<1>2. CASE 1 \in held /\ 2 \notin held
  BY <1>2
<1>3. CASE 1 \in held /\ 2 \in held /\ 3 \notin held
  BY <1>3
<1>4. CASE 1 \in held /\ 2 \in held /\ 3 \in held /\ 4 \notin held
  BY <1>4
<1>5. CASE 1 \in held /\ 2 \in held /\ 3 \in held /\ 4 \in held /\ 5 \notin held
  BY <1>5
<1>6. CASE 1 \in held /\ 2 \in held /\ 3 \in held /\ 4 \in held /\ 5 \in held
  BY <1>6
<1>7. QED
  BY <1>1, <1>2, <1>3, <1>4, <1>5, <1>6

\* What ++ takes is in none of the callbacks, requests and answers under way.
LEMMA FreshFacts ==
  ASSUME NEW type \in {"live", "zenz"}
  PROVE  Fresh(type) \in Generations /\ Fresh(type) \notin InFlight(type)
<1> DEFINE held == InFlight(type)
           P(n) == n \in Generations \ held /\ \A m \in 1..(n - 1) : m \in held
           all == {timer.gen, sent.gen, session.request.gen, session.answer.gen,
                   running.gen}
<1>1. held \subseteq all
  BY DEF InFlight
<1>2. \E n \in 1..6 : n \notin all
  BY Pigeonhole
<1>3. \E n \in 1..6 : n \notin held
  BY <1>1, <1>2
<1> HIDE DEF held, all
<1>4. \E n \in (1..6) \ held : \A m \in 1..(n - 1) : m \in held
  BY <1>3, LeastOutside
<1>5. PICK n : P(n)
  BY <1>4 DEF Generations
<1>6. Fresh(type) = CHOOSE m \in Generations \ held : \A k \in 1..(m - 1) : k \in held
  BY DEF Fresh, held
<1>7. Fresh(type) \in Generations \ held
  BY <1>5, <1>6
<1>8. QED
  BY <1>7 DEF held

-----------------------------------------------------------------------------
(* What the operators that handlers are built from do to a session.         *)

SameComposer(s, t) ==
  /\ t.state = s.state /\ t.reading = s.reading /\ t.cursor = s.cursor
  /\ t.conv = s.conv /\ t.undo = s.undo
SameLive(s, t) ==
  /\ t.key = s.key /\ t.value = s.value /\ (t.active <=> s.active)
SamePending(s, t) == (t.pending <=> s.pending) /\ t.pendingKey = s.pendingKey

LEMMA CancelPendingZenzFacts ==
  ASSUME NEW s \in Sessions
  PROVE  LET t == CancelPendingZenz(s)
         IN  /\ t \in Sessions /\ SameComposer(s, t) /\ SameLive(s, t)
             /\ SamePending(s, t) /\ t.feedback = s.feedback
             /\ t.wait = "no" /\ t.vkey = s.vkey /\ t.vvalue = s.vvalue
             /\ t.vbase = s.vbase
<1>1. Fresh("zenz") \in Generations /\ 0 \in 0..MaxPolls
  BY FreshFacts, ConstantsAssumption
<1>2. QED
  BY <1>1, NoReading DEF CancelPendingZenz, Sessions, SameComposer, SameLive, SamePending

LEMMA ClearZenzFacts ==
  ASSUME NEW s \in Sessions
  PROVE  LET t == ClearZenz(s)
         IN  /\ t \in Sessions /\ SameComposer(s, t) /\ SameLive(s, t)
             /\ SamePending(s, t) /\ t.feedback = s.feedback
             /\ t.wait = "no" /\ t.vvalue = <<>> /\ t.request = None /\ t.answer = None
<1>1. Fresh("zenz") \in Generations /\ 0 \in 0..MaxPolls
  BY FreshFacts, ConstantsAssumption
<1>2. QED
  BY <1>1, NoReading DEF ClearZenz, CancelPendingZenz, Sessions, SameComposer, SameLive,
     SamePending

LEMMA CancelPendingLiveFacts ==
  ASSUME NEW s \in Sessions
  PROVE  LET t == CancelPendingLive(s)
         IN  /\ t \in Sessions /\ SameComposer(s, t) /\ SameLive(s, t)
             /\ t.feedback = s.feedback /\ ~t.pending
             /\ t.wait = "no" /\ t.vkey = s.vkey /\ t.vvalue = s.vvalue
             /\ t.vbase = s.vbase
<1>1. Fresh("zenz") \in Generations /\ Fresh("live") \in Generations /\ 0 \in 0..MaxPolls
  BY FreshFacts, ConstantsAssumption
<1>2. QED
  BY <1>1, NoReading DEF CancelPendingLive, CancelPendingZenz, Sessions, SameComposer,
     SameLive

LEMMA ClearLiveFacts ==
  ASSUME NEW s \in Sessions
  PROVE  LET t == ClearLive(s)
         IN  /\ t \in Sessions /\ SameComposer(s, t) /\ t.feedback = s.feedback
             /\ ~t.active /\ ~t.pending /\ t.key = <<>> /\ t.value = <<>>
             /\ t.wait = "no" /\ t.vvalue = <<>>
<1>1. Fresh("zenz") \in Generations /\ Fresh("live") \in Generations /\ 0 \in 0..MaxPolls
  BY FreshFacts, ConstantsAssumption
<1>2. QED
  BY <1>1, NoReading, ZenonT(60) DEF ClearLive, ClearZenz, CancelPendingZenz, Sessions,
     SameComposer

LEMMA CancelForEditingFacts ==
  ASSUME NEW s \in Sessions
  PROVE  LET t == CancelForEditing(s)
         IN  /\ t \in Sessions /\ t.reading = s.reading /\ t.cursor = s.cursor
             /\ t.undo = s.undo /\ t.feedback = s.feedback
             /\ t.key = s.key /\ t.value = s.value
             /\ ~t.active /\ ~t.pending /\ t.wait = "no" /\ t.vvalue = <<>>
             /\ s.active => t.state = "COMPOSITION"
             /\ ~s.active => t.state = s.state /\ t.conv = s.conv
<1>1. Fresh("zenz") \in Generations /\ Fresh("live") \in Generations /\ 0 \in 0..MaxPolls
  BY FreshFacts, ConstantsAssumption
<1> DEFINE u == ClearZenz(CancelPendingLive(s))
<1>2. /\ u \in Sessions /\ SameComposer(s, u) /\ SameLive(s, u) /\ u.feedback = s.feedback
      /\ ~u.pending /\ u.wait = "no" /\ u.vvalue = <<>>
  BY <1>1, NoReading, ZenonT(60) DEF ClearZenz, CancelPendingLive, CancelPendingZenz,
     Sessions, SameComposer, SameLive
<1>3. CancelForEditing(s) =
        IF u.active
        THEN [u EXCEPT !.active = FALSE, !.state = "COMPOSITION", !.conv = "raw"] ELSE u
  BY DEF CancelForEditing
<1> HIDE DEF u
<1>4. u.active <=> s.active
  BY <1>2 DEF SameLive
<1>5. CASE ~u.active
  BY <1>2, <1>3, <1>4, <1>5 DEF SameComposer, SameLive
<1>6. CASE u.active
  <2> DEFINE v == [u EXCEPT !.active = FALSE, !.state = "COMPOSITION", !.conv = "raw"]
  <2>1. /\ v \in Sessions /\ v.reading = u.reading /\ v.cursor = u.cursor
        /\ v.undo = u.undo /\ v.feedback = u.feedback /\ v.key = u.key
        /\ v.value = u.value /\ ~v.active /\ (v.pending <=> u.pending)
        /\ v.wait = u.wait /\ v.vvalue = u.vvalue /\ v.state = "COMPOSITION"
    BY <1>2, ZenonT(60) DEF Sessions, States, Editing, Styles
  <2>2. CancelForEditing(s) = v
    BY <1>3, <1>6
  <2> HIDE DEF v
  <2>3. QED
    BY <1>2, <1>4, <1>6, <2>1, <2>2 DEF SameComposer, SameLive
<1>7. QED
  BY <1>5, <1>6

-----------------------------------------------------------------------------
(* What holds of the session.  Good is what holds between two commands,     *)
(* Loose what a handler leaves before LeaveConversion ends the work of a    *)
(* conversion that is no more.                                              *)

Typed(s) ==
  /\ s \in Sessions /\ s.cursor <= Len(s.reading) /\ ReadingOf(s.value) = s.key

\* There is a reading exactly while there is a composition.
Place(s) ==
  s.reading \in Readings /\ (s.state \in Editing <=> s.reading # <<>>)

\* The live conversion, the request and the correction are about the reading;
\* whatever the worker still has under the present generation was asked for
\* with the present key.
Work(s) ==
  /\ s.active => s.state = "CONVERSION" /\ s.key = s.reading /\ ~s.pending
  /\ s.wait # "no" =>
       /\ s.active /\ s.zkey = s.reading
       /\ \A r \in {s.request, s.answer, running} \ {None} :
            r.gen = s.zgen => r.key = s.zkey
  /\ s.vvalue # <<>> => Visible(s) /\ s.vvalue = As("zenz", s.reading)

\* A delayed conversion is of the reading, which extends the last one shown.
Pend(s) ==
  s.pending /\ s.state \in Editing =>
    s.pendingKey = s.reading /\ Extends(s.key, s.reading)

\* What Undo would restore.
UndoShape(s) ==
  s.undo # None => /\ s.undo.cursor <= Len(s.undo.reading)
                   /\ s.undo.state \in Editing <=> s.undo.reading # <<>>
Undone(s) ==
  s.undo # None =>
    /\ s.state \notin Editing
    /\ s.pending /\ s.undo.state \in Editing =>
         s.undo.reading = s.pendingKey /\ Extends(s.key, s.undo.reading)

Calm(s) == ~s.active /\ s.wait = "no" /\ s.vvalue = <<>>

Loose(s) == /\ Typed(s) /\ Place(s) /\ Pend(s) /\ UndoShape(s) /\ Undone(s)
            /\ s.state = "CONVERSION" => Work(s)
Good(s) == Loose(s) /\ Work(s)

LEMMA LeaveConversionGood ==
  ASSUME NEW s, Loose(s)
  PROVE  LET t == LeaveConversion(s)
         IN  /\ Good(t) /\ t.state = s.state /\ t.reading = s.reading
             /\ t.feedback = s.feedback /\ (t.pending <=> s.pending)
             /\ s.state = "CONVERSION" => t = s
<1>1. CASE s.state = "CONVERSION"
  BY <1>1 DEF LeaveConversion, Good, Loose
<1>2. CASE s.state # "CONVERSION"
  <2> DEFINE u == [s EXCEPT !.active = FALSE]
             t == ClearZenz(u)
  <2>1. s \in Sessions
    BY DEF Loose, Typed
  <2>2. /\ u \in Sessions /\ SameComposer(s, u) /\ SamePending(s, u)
        /\ u.feedback = s.feedback /\ u.key = s.key /\ u.value = s.value /\ ~u.active
    BY <2>1 DEF Sessions, SameComposer, SamePending
  <2>3. /\ t \in Sessions /\ SameComposer(u, t) /\ SameLive(u, t)
        /\ SamePending(u, t) /\ t.feedback = u.feedback /\ t.wait = "no" /\ t.vvalue = <<>>
    BY <2>2, ClearZenzFacts
  <2>4. LeaveConversion(s) = t
    BY <1>2 DEF LeaveConversion
  <2> HIDE DEF u, t
  <2>5. /\ SameComposer(s, t) /\ t.key = s.key /\ t.value = s.value /\ ~t.active
        /\ SamePending(s, t) /\ t.feedback = s.feedback
    BY <2>2, <2>3 DEF SameComposer, SameLive, SamePending
  <2>6. Typed(t) /\ Place(t) /\ Pend(t) /\ UndoShape(t) /\ Undone(t)
    BY <2>3, <2>5 DEF Loose, Typed, Place, Pend, UndoShape, Undone, SameComposer, SamePending
  <2>7. Work(t)
    BY <2>3, <2>5 DEF Work
  <2>8. QED
    BY <1>2, <2>4, <2>5, <2>6, <2>7 DEF Good, Loose, SameComposer, SamePending
<1>3. QED
  BY <1>1, <1>2

LEMMA DisplayFacts ==
  ASSUME NEW s, Typed(s)
  PROVE  /\ Display(s) \in Texts /\ ReadingOf(Display(s)) = s.reading
         /\ Display(s) = <<>> <=> s.reading = <<>>
         /\ As("raw", s.reading) \in Texts /\ ReadingOf(As("raw", s.reading)) = s.reading
         /\ As("raw", s.reading) = <<>> <=> s.reading = <<>>
<1>1. /\ s.reading \in Seq(Chars) /\ "raw" \in Styles
      /\ (IF s.state = "CONVERSION" THEN s.conv ELSE "raw") \in Styles
  BY DEF Typed, Sessions, Styles
<1>2. QED
  BY <1>1, AsFacts DEF Display

LEMMA PendingDisplayFacts ==
  ASSUME NEW s, Typed(s)
  PROVE  /\ PendingDisplay(s) \in Texts
         /\ PendingDisplay(s) # <<>> => ReadingOf(PendingDisplay(s)) = s.reading
         /\ Extends(s.key, s.reading) => ReadingOf(PendingDisplay(s)) = s.reading
<1>1. /\ s.reading \in Seq(Chars) /\ s.key \in Seq(Chars) /\ s.value \in Texts
      /\ ReadingOf(s.value) = s.key /\ "raw" \in Styles
  BY ReadingsAreSequences DEF Typed, Sessions, Styles
<1>2. CASE ~Extends(s.key, s.reading)
  BY <1>2, NoReading DEF Extends, PendingDisplay
<1>3. CASE Extends(s.key, s.reading)
  <2> DEFINE rest == From(s.reading, Len(s.key))
  <2>1. rest \in Seq(Chars) /\ s.key \o rest = s.reading
    BY <1>1, <1>3, PrefixAndRest
  <2>2. PendingDisplay(s) = s.value \o As("raw", rest)
    BY <1>3 DEF PendingDisplay, Extends
  <2> HIDE DEF rest
  <2>3. As("raw", rest) \in Texts /\ ReadingOf(As("raw", rest)) = rest
    BY <1>1, <2>1, AsFacts
  <2>4. /\ s.value \o As("raw", rest) \in Texts
        /\ ReadingOf(s.value \o As("raw", rest)) = s.key \o rest
    BY <1>1, <2>3, ReadingOfConcat
  <2>5. QED
    BY <2>1, <2>2, <2>4
<1>4. QED
  BY <1>2, <1>3

-----------------------------------------------------------------------------
(* Responses.                                                               *)

\* What every response gives back; whole is the reading before the command and
\* what the command types.
Fine(r, whole) ==
  /\ Loose(r.s) /\ r.shown \in Texts /\ r.result \in Texts
  /\ r.callback \in Callbacks \cup {None}
  /\ r.s.state \in Editing => ReadingOf(r.shown) = r.s.reading
  /\ r.result # <<>> => ReadingOf(r.result) \o r.s.reading = whole

LEMMA ReplyFine ==
  ASSUME NEW s, Loose(s), NEW text \in Texts, NEW whole,
         s.state \in Editing => ReadingOf(text) = s.reading
  PROVE  Fine(Reply(s, text), whole)
BY NoReading DEF Fine, Reply

LEMMA WithCallbackFine ==
  ASSUME NEW s, NEW text, NEW whole, NEW type \in {"live", "zenz"},
         Fine(Reply(s, text), whole)
  PROVE  Fine(WithCallback(Reply(s, text), type), whole)
<1> DEFINE q == Reply(s, text)
           r == WithCallback(q, type)
<1>1. /\ q.s = s /\ r.s = q.s /\ r.shown = q.shown /\ r.result = q.result
      /\ r.callback = IF type = "live" THEN [type |-> type, gen |-> s.gen, key |-> s.pendingKey]
                      ELSE [type |-> type, gen |-> s.zgen, key |-> s.zkey]
  BY DEF WithCallback, Reply
<1>2. s \in Sessions
  BY <1>1 DEF Fine, Loose, Typed
<1>3. r.callback \in Callbacks
  BY <1>1, <1>2 DEF Sessions, Callbacks
<1> HIDE DEF q, r
<1>4. Fine(q, whole)
  BY DEF q
<1>5. Fine(r, whole)
  BY <1>1, <1>3, <1>4 DEF Fine
<1>6. QED
  BY <1>5 DEF r, q

LEMMA PrecomposeFacts ==
  ASSUME NEW s \in Sessions
  PROVE  LET t == Precompose(s)
         IN  /\ t \in Sessions /\ t.state = "PRECOMPOSITION" /\ t.reading = <<>>
             /\ t.cursor = 0 /\ t.undo = s.undo /\ SameLive(s, t) /\ SamePending(s, t)
             /\ t.feedback = s.feedback
BY NoReading DEF Precompose, Sessions, States, Styles, SameLive, SamePending

LEMMA FeedbackFacts ==
  ASSUME NEW s \in Sessions, NEW f \in Feedbacks
  PROVE  LET t == [s EXCEPT !.feedback = f]
         IN  /\ t \in Sessions /\ SameComposer(s, t) /\ SameLive(s, t)
             /\ SamePending(s, t) /\ t.feedback = f /\ t.wait = s.wait
             /\ t.zkey = s.zkey /\ t.zgen = s.zgen /\ t.request = s.request
             /\ t.answer = s.answer
             /\ t.vvalue = s.vvalue /\ t.vkey = s.vkey /\ t.vbase = s.vbase
BY DEF Sessions, SameComposer, SameLive, SamePending

\* Accepted, Rejected, Discard and Observe change the feedback alone.
OnlyFeedback(s, t) ==
  /\ t \in Sessions /\ SameComposer(s, t) /\ SameLive(s, t) /\ SamePending(s, t)
  /\ t.wait = s.wait /\ t.zkey = s.zkey /\ t.zgen = s.zgen /\ t.request = s.request
  /\ t.answer = s.answer /\ t.vvalue = s.vvalue /\ t.vkey = s.vkey /\ t.vbase = s.vbase

LEMMA FeedbackOnly ==
  ASSUME NEW s \in Sessions, NEW text \in Texts
  PROVE  /\ OnlyFeedback(s, Accepted(s, text)) /\ OnlyFeedback(s, Rejected(s))
         /\ OnlyFeedback(s, Discard(s)) /\ OnlyFeedback(s, Observe(s, text))
<1>1. OnlyFeedback(s, s)
  BY DEF OnlyFeedback, SameComposer, SameLive, SamePending
<1>2. \A f \in Feedbacks : OnlyFeedback(s, [s EXCEPT !.feedback = f])
  BY FeedbackFacts DEF OnlyFeedback
<1>3. s.vvalue \in Texts /\ s.feedback \in Feedbacks /\ <<>> \in Texts
  BY NoReading DEF Sessions
<1>4. OnlyFeedback(s, Accepted(s, text))
  <2>1. [action |-> "accepted", value |-> text, final |-> <<>>] \in Feedbacks
    BY <1>3 DEF Feedbacks
  <2>2. QED
    BY <1>2, <2>1 DEF Accepted
<1>5. OnlyFeedback(s, Rejected(s))
  <2>1. [action |-> "rejected", value |-> s.vvalue, final |-> <<>>] \in Feedbacks
    BY <1>3 DEF Feedbacks
  <2>2. QED
    BY <1>1, <1>2, <2>1 DEF Rejected
<1>6. OnlyFeedback(s, Discard(s))
  <2>1. NoFeedback \in Feedbacks
    BY <1>3 DEF Feedbacks, NoFeedback
  <2>2. QED
    BY <1>2, <2>1 DEF Discard
<1>7. OnlyFeedback(s, Observe(s, text))
  <2>1. [s.feedback EXCEPT !.final = text] \in Feedbacks
    BY <1>3 DEF Feedbacks
  <2>2. [s EXCEPT !.feedback.final = text] =
          [s EXCEPT !.feedback = [s.feedback EXCEPT !.final = text]]
    BY DEF Sessions
  <2>3. QED
    BY <1>1, <1>2, <2>1, <2>2 DEF Observe
<1>8. QED
  BY <1>4, <1>5, <1>6, <1>7

LEMMA OnlyFeedbackKeeps ==
  ASSUME NEW s, NEW t, OnlyFeedback(s, t)
  PROVE  /\ Typed(s) => Typed(t)
         /\ Place(s) => Place(t)
         /\ UndoShape(s) => UndoShape(t)
         /\ Work(s) => Work(t)
         /\ Loose(s) => Loose(t)
         /\ Good(s) => Good(t)
         /\ Visible(s) <=> Visible(t)
<1>1. /\ Typed(s) => Typed(t)
      /\ Place(s) => Place(t)
      /\ UndoShape(s) => UndoShape(t)
  BY DEF OnlyFeedback, SameComposer, SameLive, Typed, Place, UndoShape
<1>2. Visible(s) <=> Visible(t)
  BY DEF OnlyFeedback, SameComposer, SameLive, Visible
<1>3. ASSUME Work(s) PROVE Work(t)
  <2>1. t.active => t.state = "CONVERSION" /\ t.key = t.reading /\ ~t.pending
    BY <1>3 DEF Work, OnlyFeedback, SameComposer, SameLive, SamePending
  <2>2. t.wait # "no" =>
          /\ t.active /\ t.zkey = t.reading
          /\ \A r \in {t.request, t.answer, running} \ {None} :
               r.gen = t.zgen => r.key = t.zkey
    BY <1>3 DEF Work, OnlyFeedback, SameComposer, SameLive
  <2>3. t.vvalue # <<>> => Visible(t) /\ t.vvalue = As("zenz", t.reading)
    BY <1>2, <1>3 DEF Work, OnlyFeedback, SameComposer
  <2>4. QED
    BY <2>1, <2>2, <2>3 DEF Work
<1>4. Pend(s) /\ Undone(s) => Pend(t) /\ Undone(t)
  BY DEF OnlyFeedback, SameComposer, SameLive, SamePending, Pend, Undone
<1>5. t.state = s.state
  BY DEF OnlyFeedback, SameComposer
<1>6. QED
  BY <1>1, <1>2, <1>3, <1>4, <1>5 DEF Loose, Good

LEMMA ClearLiveTyped ==
  ASSUME NEW s, Typed(s)
  PROVE  LET t == ClearLive(s)
         IN  /\ Typed(t) /\ Calm(t) /\ ~t.pending
             /\ UndoShape(s) => UndoShape(t)
             /\ Place(s) => Place(t)
<1> DEFINE t == ClearLive(s)
<1>1. /\ t \in Sessions /\ SameComposer(s, t) /\ ~t.active /\ ~t.pending /\ t.key = <<>>
      /\ t.value = <<>> /\ t.wait = "no" /\ t.vvalue = <<>>
  BY ClearLiveFacts DEF Typed
<1> HIDE DEF t
<1>2. ReadingOf(<<>>) = <<>>
  BY NoReading, ReadingOfFacts
<1>3. Typed(t) /\ Calm(t)
  BY <1>1, <1>2 DEF Typed, Calm, SameComposer
<1>4. (UndoShape(s) => UndoShape(t)) /\ (Place(s) => Place(t))
  BY <1>1 DEF UndoShape, Place, SameComposer
<1>5. QED
  BY <1>1, <1>3, <1>4 DEF t

\* A session without work under way, after a composition.
LEMMA CalmLoose ==
  ASSUME NEW s, Typed(s), Place(s), UndoShape(s), ~s.pending, Calm(s),
         s.undo = None \/ s.state \notin Editing
  PROVE  Loose(s)
BY DEF Loose, Pend, Undone, Calm, Work

LEMMA PrecomposeLoose ==
  ASSUME NEW s, Typed(s), UndoShape(s), ~s.pending
  PROVE  Loose(Precompose(s))
<1> DEFINE t == Precompose(s)
<1>1. /\ t \in Sessions /\ t.state = "PRECOMPOSITION" /\ t.reading = <<>>
      /\ t.cursor = 0 /\ t.undo = s.undo /\ SameLive(s, t) /\ SamePending(s, t)
  BY PrecomposeFacts DEF Typed
<1> HIDE DEF t
<1>2. Typed(t) /\ UndoShape(t)
  BY <1>1, EmptySeq DEF Typed, SameLive, UndoShape
<1>3. Place(t)
  BY <1>1, NoReading DEF Place, Editing
<1>4. Pend(t) /\ Undone(t)
  BY <1>1 DEF Pend, Undone, SamePending, Editing
<1>5. QED
  BY <1>1, <1>2, <1>3, <1>4 DEF Loose, t

LEMMA CommitStringFine ==
  ASSUME NEW s, Typed(s), UndoShape(s), ~s.pending, NEW text \in Texts, text # <<>>,
         NEW whole, ReadingOf(text) = whole
  PROVE  /\ Fine(CommitString(s, text), whole)
         /\ CommitString(s, text).s.state = "PRECOMPOSITION"
<1> DEFINE t == Precompose(s)
           u == Observe(t, text)
           r == CommitString(s, text)
<1>1. Loose(t) /\ t \in Sessions /\ t.state = "PRECOMPOSITION" /\ t.reading = <<>>
  BY PrecomposeLoose, PrecomposeFacts DEF Typed
<1>2. OnlyFeedback(t, u)
  BY <1>1, FeedbackOnly
<1>3. r.s = u /\ r.shown = <<>> /\ r.result = text /\ r.callback = None
  BY DEF CommitString, Reply
<1> HIDE DEF t, u, r
<1>4. Loose(u) /\ u.state = "PRECOMPOSITION" /\ u.reading = <<>>
  BY <1>1, <1>2, OnlyFeedbackKeeps DEF OnlyFeedback, SameComposer
<1>5. ReadingOf(text) \o <<>> = ReadingOf(text)
  BY ReadingOfFacts, ConcatEmptySeq
<1>6. Fine(r, whole)
  BY <1>3, <1>4, <1>5, NoReading DEF Fine, Editing
<1>7. QED
  BY <1>3, <1>4, <1>6 DEF r

LEMMA CommitPendingDisplayFine ==
  ASSUME NEW s, Typed(s), UndoShape(s), NEW whole,
         s.reading = whole, s.reading = <<>> => Place(s)
  PROVE  Fine(CommitPendingDisplay(s), whole) /\ CommitPendingDisplay(s).s.state \notin Editing
<1> DEFINE t == ClearLive(s)
           text == IF PendingDisplay(s) = <<>> THEN As("raw", s.reading)
                   ELSE PendingDisplay(s)
<1>1. Typed(t) /\ UndoShape(t) /\ ~t.pending /\ Calm(t) /\ (Place(s) => Place(t))
  BY ClearLiveTyped
<1>2. text \in Texts /\ ReadingOf(text) = s.reading /\ (text = <<>> <=> s.reading = <<>>)
  BY DisplayFacts, PendingDisplayFacts, ReadingOfFacts
<1>3. CommitPendingDisplay(s) = CommitString(t, text)
  BY DEF CommitPendingDisplay
<1>4. t.reading = s.reading /\ t.undo = s.undo
  BY ClearLiveFacts DEF Typed, SameComposer
<1> HIDE DEF t, text
<1>5. CASE text # <<>>
  BY <1>1, <1>2, <1>3, <1>5, CommitStringFine DEF Editing
<1>6. CASE text = <<>>
  <2>1. Place(t) /\ t.state \notin Editing
    BY <1>1, <1>2, <1>4, <1>6 DEF Place
  <2>2. Loose(t)
    BY <1>1, <2>1, CalmLoose
  <2>3. Display(t) \in Texts
    BY <1>1, DisplayFacts
  <2>4. CommitString(t, text) = Reply(t, Display(t))
    BY <1>6 DEF CommitString
  <2>5. QED
    BY <1>3, <2>1, <2>2, <2>3, <2>4, ReplyFine DEF Reply
<1>7. QED
  BY <1>5, <1>6

LEMMA PushUndoFacts ==
  ASSUME NEW s, Typed(s), Place(s), UndoShape(s)
  PROVE  LET t == PushUndo(s)
         IN  /\ Typed(t) /\ Place(t) /\ UndoShape(t) /\ t.state = s.state
             /\ t.reading = s.reading /\ t.conv = s.conv /\ t.feedback = s.feedback
             /\ SameLive(s, t) /\ SamePending(s, t)
             /\ t.undo # s.undo => t.undo.state = s.state /\ t.undo.reading = s.reading
<1> DEFINE t == PushUndo(s)
           e == [state |-> s.state, reading |-> s.reading, cursor |-> s.cursor,
                 conv |-> s.conv]
<1>1. e \in Undos
  BY DEF Typed, Place, Sessions, Undos
<1>2. CASE "undo" \notin Situations
  BY <1>2 DEF PushUndo, SameLive, SamePending
<1>3. CASE "undo" \in Situations
  <2>1. t = [s EXCEPT !.undo = e]
    BY <1>3 DEF PushUndo
  <2>2. e.state = s.state /\ e.reading = s.reading /\ e.cursor = s.cursor
    OBVIOUS
  <2> HIDE DEF t, e
  <2>3. /\ t \in Sessions /\ t.state = s.state /\ t.reading = s.reading
        /\ t.cursor = s.cursor /\ t.undo = e /\ SameLive(s, t) /\ SamePending(s, t)
        /\ t.conv = s.conv /\ t.feedback = s.feedback
    BY <1>1, <2>1 DEF Typed, Sessions, SameLive, SamePending
  <2>4. Typed(t) /\ Place(t)
    BY <2>3 DEF Typed, Place, SameLive
  <2>5. UndoShape(t)
    BY <2>2, <2>3 DEF UndoShape, Place, Typed
  <2>6. QED
    BY <2>2, <2>3, <2>4, <2>5 DEF t
<1>4. QED
  BY <1>2, <1>3

LEMMA CommitInternalFine ==
  ASSUME NEW s, Typed(s), Place(s), UndoShape(s),
         s.state \notin Editing => Loose(s)
  PROVE  Fine(CommitInternal(s), s.reading) /\ CommitInternal(s).s.state \notin Editing
<1>1. Display(s) \in Texts /\ ReadingOf(Display(s)) = s.reading
  BY DisplayFacts
<1>2. CASE s.state \notin Editing
  BY <1>1, <1>2, ReplyFine DEF CommitInternal, Reply
<1>3. CASE s.state \in Editing
  <2> DEFINE p == PushUndo(s)
             t == Precompose(p)
             u == Observe(t, Display(s))
             v == ClearLive(u)
             r == CommitInternal(s)
  <2>1. r.s = v /\ r.shown = <<>> /\ r.result = Display(s) /\ r.callback = None
    BY <1>3 DEF CommitInternal, Reply
  <2>2. Typed(p) /\ UndoShape(p)
    BY PushUndoFacts
  <2>3. /\ t \in Sessions /\ t.state = "PRECOMPOSITION" /\ t.reading = <<>>
        /\ t.cursor = 0 /\ t.undo = p.undo /\ SameLive(p, t)
    BY <2>2, PrecomposeFacts DEF Typed
  <2>4. OnlyFeedback(t, u)
    BY <1>1, <2>3, FeedbackOnly
  <2> HIDE DEF p, t, u
  <2>5. Typed(t) /\ UndoShape(t) /\ Place(t)
    BY <2>2, <2>3, NoReading, EmptySeq DEF Typed, UndoShape, SameLive, Place, Editing
  <2>6. Typed(u) /\ UndoShape(u) /\ Place(u) /\ u.state = "PRECOMPOSITION" /\ u.reading = <<>>
    BY <2>3, <2>4, <2>5, OnlyFeedbackKeeps DEF OnlyFeedback, SameComposer
  <2>7. /\ Typed(v) /\ Calm(v) /\ ~v.pending /\ UndoShape(v) /\ Place(v)
        /\ v.state = "PRECOMPOSITION" /\ v.reading = <<>>
    BY <2>6, ClearLiveTyped, ClearLiveFacts DEF Typed, SameComposer
  <2> HIDE DEF v, r
  <2>8. Loose(v)
    BY <2>7, CalmLoose DEF Editing
  <2>9. s.reading \in Seq(Chars) /\ s.reading \o <<>> = s.reading
    BY ConcatEmptySeq DEF Typed, Sessions
  <2>10. Fine(r, s.reading)
    BY <1>1, <2>1, <2>7, <2>8, <2>9, NoReading DEF Fine, Editing
  <2>11. QED
    BY <2>1, <2>7, <2>10 DEF r, Editing
<1>4. QED
  BY <1>2, <1>3

LEMMA CommitZenzFine ==
  ASSUME NEW s, Good(s), Visible(s)
  PROVE  Fine(CommitZenz(s), s.reading) /\ CommitZenz(s).s.state \notin Editing
<1> DEFINE t == Accepted(s, s.vvalue)
           u == ClearLive(t)
<1>1. s \in Sessions /\ s.vvalue \in Texts /\ s.vvalue # <<>> /\ s.reading \in Seq(Chars)
  BY DEF Good, Loose, Typed, Visible, Sessions
<1>2. ReadingOf(s.vvalue) = s.reading
  BY <1>1, AsFacts DEF Good, Work, Styles
<1>3. OnlyFeedback(s, t)
  BY <1>1, FeedbackOnly
<1> HIDE DEF t
<1>4. Typed(t) /\ UndoShape(t)
  BY <1>3, OnlyFeedbackKeeps DEF Good, Loose
<1>5. Typed(u) /\ UndoShape(u) /\ ~u.pending
  BY <1>4, ClearLiveTyped
<1> HIDE DEF u
<1>6. /\ Fine(CommitString(u, s.vvalue), s.reading)
      /\ CommitString(u, s.vvalue).s.state = "PRECOMPOSITION"
  BY <1>1, <1>2, <1>5, CommitStringFine
<1>7. QED
  BY <1>6 DEF CommitZenz, t, u, Editing

LEMMA CommitAnyFine ==
  ASSUME NEW s, Typed(s), Place(s), UndoShape(s),
         s.state \notin Editing => Loose(s), Visible(s) => Good(s)
  PROVE  Fine(CommitAny(s), s.reading) /\ CommitAny(s).s.state \notin Editing
<1>1. CASE Visible(s)
  BY <1>1, CommitZenzFine DEF CommitAny
<1>2. CASE ~Visible(s) /\ s.pending
  <2> DEFINE t == PushUndo(s)
  <2>1. Typed(t) /\ Place(t) /\ UndoShape(t) /\ t.reading = s.reading
    BY PushUndoFacts
  <2> HIDE DEF t
  <2>2. Fine(CommitPendingDisplay(t), s.reading) /\ CommitPendingDisplay(t).s.state \notin Editing
    BY <2>1, CommitPendingDisplayFine
  <2>3. QED
    BY <1>2, <2>2 DEF CommitAny, t
<1>3. CASE ~Visible(s) /\ ~s.pending
  BY <1>3, CommitInternalFine DEF CommitAny
<1>4. QED
  BY <1>1, <1>2, <1>3

-----------------------------------------------------------------------------
(* Live conversions and corrections.                                        *)

\* A request for a correction of the live conversion, and no other work.
LEMMA ScheduleZenzFine ==
  ASSUME NEW s, Loose(s), s.state = "CONVERSION", s.active, s.wait = "no",
         s.vvalue = <<>>, s.request = None, s.answer = None, NEW whole,
         NEW r \in ScheduleZenz(s)
  PROVE  Fine(r, whole)
<1> DEFINE t == [s EXCEPT !.zgen = Fresh("zenz"), !.wait = "scheduled",
                          !.polls = 0, !.zkey = s.key, !.zbase = s.value]
           q == [gen |-> t.zgen, key |-> t.zkey]
           u == [t EXCEPT !.wait = "submitted", !.polls = 0, !.answer = None,
                          !.request = q]
<1>1. /\ Typed(s) /\ Place(s) /\ Pend(s) /\ UndoShape(s) /\ Undone(s) /\ Work(s)
      /\ s \in Sessions
  BY DEF Loose, Typed
<1>2. s.key = s.reading /\ ~s.pending
  BY <1>1 DEF Work
<1>3. Fresh("zenz") \in Generations /\ 0 \in 0..MaxPolls
  BY FreshFacts, ConstantsAssumption
<1>4. /\ t \in Sessions /\ SameComposer(s, t) /\ SameLive(s, t) /\ SamePending(s, t)
      /\ t.wait = "scheduled" /\ t.zkey = s.key /\ t.zgen = Fresh("zenz")
      /\ t.vvalue = <<>> /\ t.request = None /\ t.answer = None
  BY <1>1, <1>3 DEF Sessions, SameComposer, SameLive, SamePending
<1>5. q \in Requests /\ q.gen = t.zgen /\ q.key = t.zkey
  BY <1>4 DEF Sessions, Requests
<1> HIDE DEF q
<1>6. /\ u \in Sessions /\ SameComposer(s, u) /\ SameLive(s, u) /\ SamePending(s, u)
      /\ u.wait = "submitted" /\ u.zkey = s.key /\ u.zgen = Fresh("zenz")
      /\ u.vvalue = <<>> /\ u.request = q /\ u.answer = None
  BY <1>1, <1>3, <1>4, <1>5, ZenonT(60) DEF Sessions, SameComposer, SameLive, SamePending
<1>7. running # None => running.gen # Fresh("zenz")
  BY FreshFacts DEF InFlight
<1> HIDE DEF t, u
<1>8. ASSUME NEW v \in {t, u} PROVE Loose(v)
  <2>1. /\ v \in Sessions /\ SameComposer(s, v) /\ SameLive(s, v) /\ SamePending(s, v)
        /\ v.zkey = s.key /\ v.zgen = Fresh("zenz") /\ v.vvalue = <<>> /\ v.answer = None
        /\ v.request \in {None, q}
    BY <1>4, <1>6
  <2>2. Typed(v) /\ Place(v) /\ UndoShape(v)
    BY <1>1, <2>1 DEF Typed, Place, UndoShape, SameComposer, SameLive
  <2>3. Pend(v) /\ Undone(v)
    BY <1>1, <2>1 DEF Pend, Undone, SameComposer, SameLive, SamePending
  <2>4. v.active /\ v.state = "CONVERSION" /\ v.key = v.reading /\ ~v.pending
        /\ v.zkey = v.reading
    BY <1>2, <2>1 DEF SameComposer, SameLive, SamePending
  <2>5. \A x \in {v.request, v.answer, running} \ {None} : x.gen = v.zgen => x.key = v.zkey
    BY <1>4, <1>5, <1>7, <2>1
  <2>6. Work(v)
    BY <2>1, <2>4, <2>5 DEF Work
  <2>7. QED
    BY <2>2, <2>3, <2>6 DEF Loose
<1>9. ASSUME NEW v, Loose(v) PROVE Fine(Reply(v, Display(v)), whole)
  BY <1>9, DisplayFacts, ReplyFine DEF Loose
<1>10. \/ r = Reply(s, Display(s)) \/ r = WithCallback(Reply(t, Display(t)), "zenz")
       \/ r = WithCallback(Reply(u, Display(t)), "zenz")
  BY DEF ScheduleZenz, Submitted, t, u, q
<1>11. Display(u) = Display(t)
  BY <1>4, <1>6 DEF Display, SameComposer
<1>12. QED
  BY <1>8, <1>9, <1>10, <1>11, WithCallbackFine

LEMMA NoUndoWhileEditing ==
  ASSUME NEW s, Undone(s), s.state \in Editing
  PROVE  s.undo = None
BY DEF Undone

\* A correction of the live conversion becomes visible.
LEMMA ShowFine ==
  ASSUME NEW s, Loose(s), s.state = "CONVERSION", s.active, s.wait = "no", NEW whole
  PROVE  Fine(Show(s, s.key, As("zenz", s.key), s.value), whole)
<1> DEFINE text == As("zenz", s.key)
           v == [s EXCEPT !.vkey = s.key, !.vvalue = text, !.vbase = s.value]
<1>1. /\ Typed(s) /\ Place(s) /\ Pend(s) /\ UndoShape(s) /\ Undone(s) /\ Work(s)
      /\ s \in Sessions
  BY DEF Loose, Typed
<1>2. s.key = s.reading /\ ~s.pending
  BY <1>1 DEF Work
<1>3. text \in Texts /\ ReadingOf(text) = s.reading
  BY <1>1, <1>2, AsFacts DEF Sessions, Styles
<1>4. text = As("zenz", s.reading)
  BY <1>2
<1> HIDE DEF text
<1>5. /\ v \in Sessions /\ SameComposer(s, v) /\ SameLive(s, v) /\ SamePending(s, v)
      /\ v.wait = "no" /\ v.vkey = s.key /\ v.vvalue = text /\ v.vbase = s.value
  BY <1>1, <1>3 DEF Sessions, SameComposer, SameLive, SamePending
<1> HIDE DEF v
<1>6. Typed(v) /\ Place(v) /\ UndoShape(v)
  BY <1>1, <1>5 DEF Typed, Place, UndoShape, SameComposer, SameLive
<1>7. Pend(v) /\ Undone(v)
  BY <1>1, <1>5 DEF Pend, Undone, SameComposer, SameLive, SamePending
<1>8. v.active /\ v.state = "CONVERSION" /\ v.key = v.reading /\ ~v.pending
      /\ v.reading = s.reading /\ v.value = s.value /\ v.key = s.key
  BY <1>2, <1>5 DEF SameComposer, SameLive, SamePending
<1>9. Work(v)
  BY <1>4, <1>5, <1>8 DEF Work, Visible
<1>10. Loose(v)
  BY <1>6, <1>7, <1>9 DEF Loose
<1>11. Fine(Reply(v, text), whole)
  BY <1>3, <1>8, <1>10, ReplyFine
<1>12. QED
  BY <1>11 DEF Show, v, text

LEMMA StartLiveFine ==
  ASSUME NEW s, Typed(s), Place(s), s.undo = None, s.state = "COMPOSITION", NEW whole,
         NEW r \in StartLive(s)
  PROVE  Fine(r, whole)
<1> DEFINE t == [s EXCEPT !.pending = FALSE, !.pendingKey = <<>>]
           w == [t EXCEPT !.state = "CONVERSION", !.conv = "mozc", !.active = TRUE,
                          !.key = s.reading, !.value = As("mozc", s.reading)]
           u == ClearZenz(w)
           known == [u EXCEPT !.zgen = Fresh("zenz")]
<1>1. s \in Sessions /\ s.reading \in Readings /\ s.reading \in Seq(Chars)
  BY ReadingsAreSequences DEF Typed, Place
<1>2. s.undo = None
  OBVIOUS
<1>3. /\ t \in Sessions /\ SameComposer(s, t) /\ SameLive(s, t) /\ ~t.pending
  BY <1>1, NoReading, ZenonT(60) DEF Sessions, SameComposer, SameLive
<1>4. As("mozc", s.reading) \in Texts /\ ReadingOf(As("mozc", s.reading)) = s.reading
  BY <1>1, AsFacts DEF Styles
<1>5. /\ w \in Sessions /\ w.state = "CONVERSION" /\ w.reading = s.reading
      /\ w.cursor = s.cursor /\ w.undo = s.undo /\ w.active /\ ~w.pending
      /\ w.key = s.reading /\ w.value = As("mozc", s.reading)
  BY <1>1, <1>4, NoReading, ZenonT(60) DEF Sessions, States, Styles, Editing
<1>6. /\ u \in Sessions /\ SameComposer(w, u) /\ SameLive(w, u) /\ SamePending(w, u)
      /\ u.wait = "no" /\ u.vvalue = <<>> /\ u.request = None /\ u.answer = None
  BY <1>5, ClearZenzFacts
<1>7. \/ r \in ScheduleZenz(u)
      \/ r = Show(known, u.key, As("zenz", u.key), u.value)
      \/ r = Reply(t, Display(t))
      \/ PendingDisplay(t) # <<>> /\ r = Reply(ClearZenz(t), PendingDisplay(t))
  BY DEF StartLive
<1> HIDE DEF t, w, u, known
<1>8. /\ u.state = "CONVERSION" /\ u.reading = s.reading /\ u.cursor = s.cursor
      /\ u.undo = None /\ u.active /\ ~u.pending /\ u.key = s.reading
      /\ u.value = As("mozc", s.reading)
  BY <1>2, <1>5, <1>6 DEF SameComposer, SameLive, SamePending
<1>9. Loose(u)
  <2>1. Typed(u) /\ Place(u) /\ UndoShape(u) /\ Pend(u) /\ Undone(u)
    BY <1>1, <1>4, <1>6, <1>8 DEF Typed, Place, UndoShape, Pend, Undone, Editing
  <2>2. Work(u)
    BY <1>6, <1>8 DEF Work
  <2>3. QED
    BY <2>1, <2>2 DEF Loose
<1>10. CASE r \in ScheduleZenz(u)
  BY <1>6, <1>8, <1>9, <1>10, ScheduleZenzFine
<1>11. CASE r = Show(known, u.key, As("zenz", u.key), u.value)
  <2>1. /\ known \in Sessions /\ SameComposer(u, known) /\ SameLive(u, known)
        /\ SamePending(u, known) /\ known.wait = "no" /\ known.vvalue = <<>>
    BY <1>6, FreshFacts DEF known, Sessions, SameComposer, SameLive, SamePending
  <2>2. Typed(known) /\ Place(known) /\ UndoShape(known)
    BY <1>9, <2>1 DEF Loose, Typed, Place, UndoShape, SameComposer, SameLive
  <2>3. Pend(known) /\ Undone(known)
    BY <1>9, <2>1 DEF Loose, Pend, Undone, SameComposer, SameLive, SamePending
  <2>4. known.active /\ known.state = "CONVERSION" /\ known.key = u.key
        /\ known.value = u.value /\ known.key = known.reading /\ ~known.pending
    BY <1>8, <2>1 DEF SameComposer, SameLive, SamePending
  <2>5. Loose(known)
    BY <2>1, <2>2, <2>3, <2>4 DEF Loose, Work
  <2>6. Fine(Show(known, known.key, As("zenz", known.key), known.value), whole)
    BY <2>1, <2>4, <2>5, ShowFine
  <2>7. QED
    BY <1>11, <2>4, <2>6
<1>12. t.undo = None /\ t.state = "COMPOSITION" /\ t.reading = s.reading
  BY <1>2, <1>3 DEF SameComposer
<1>13. Typed(t) /\ Place(t) /\ UndoShape(t) /\ Pend(t) /\ Undone(t)
  BY <1>1, <1>3, <1>12 DEF Typed, Place, UndoShape, Pend, Undone, SameComposer, SameLive
<1>14. Loose(t)
  BY <1>12, <1>13 DEF Loose
<1>15. CASE r = Reply(t, Display(t))
  BY <1>13, <1>14, <1>15, DisplayFacts, ReplyFine
<1>16. CASE PendingDisplay(t) # <<>> /\ r = Reply(ClearZenz(t), PendingDisplay(t))
  <2> DEFINE v == ClearZenz(t)
  <2>1. v \in Sessions /\ SameComposer(t, v) /\ SameLive(t, v) /\ SamePending(t, v)
    BY <1>3, ClearZenzFacts
  <2> HIDE DEF v
  <2>2. Typed(v) /\ Place(v) /\ UndoShape(v) /\ Pend(v) /\ Undone(v) /\ v.state = "COMPOSITION"
        /\ v.reading = t.reading
    BY <1>3, <1>12, <1>13, <2>1 DEF Typed, Place, UndoShape, Pend, Undone, SameComposer,
       SameLive, SamePending
  <2>3. Loose(v)
    BY <2>2 DEF Loose
  <2>4. PendingDisplay(t) \in Texts /\ ReadingOf(PendingDisplay(t)) = v.reading
    BY <1>13, <1>16, <2>2, PendingDisplayFacts
  <2>5. Fine(Reply(v, PendingDisplay(t)), whole)
    BY <2>3, <2>4, ReplyFine
  <2>6. QED
    BY <1>16, <2>5 DEF v
<1>17. QED
  BY <1>7, <1>10, <1>11, <1>15, <1>16

LEMMA ComposeFine ==
  ASSUME NEW s, Loose(s), NEW whole, NEW r \in Compose(s)
  PROVE  Fine(r, whole)
BY DisplayFacts, ReplyFine DEF Compose, Loose

LEMMA CancelPendingLiveKeeps ==
  ASSUME NEW s, Typed(s), Place(s), s.undo = None
  PROVE  LET t == CancelPendingLive(s)
         IN  /\ Typed(t) /\ Place(t) /\ UndoShape(t) /\ Pend(t) /\ Undone(t)
             /\ SameComposer(s, t) /\ SameLive(s, t) /\ ~t.pending
             /\ t.feedback = s.feedback /\ t.vvalue = s.vvalue
             /\ Work(s) => Work(t)
             /\ Visible(s) <=> Visible(t)
<1> DEFINE t == CancelPendingLive(s)
<1>1. /\ t \in Sessions /\ SameComposer(s, t) /\ SameLive(s, t) /\ t.feedback = s.feedback
      /\ ~t.pending /\ t.wait = "no" /\ t.vkey = s.vkey /\ t.vvalue = s.vvalue
      /\ t.vbase = s.vbase
  BY CancelPendingLiveFacts DEF Typed
<1> HIDE DEF t
<1>2. Typed(t) /\ Place(t) /\ UndoShape(t) /\ Pend(t) /\ Undone(t)
  BY <1>1 DEF Typed, Place, UndoShape, Pend, Undone, SameComposer, SameLive
<1>3. Visible(s) <=> Visible(t)
  BY <1>1 DEF Visible, SameComposer, SameLive
<1>4. Work(s) => Work(t)
  BY <1>1, <1>3 DEF Work, SameComposer, SameLive
<1>5. QED
  BY <1>1, <1>2, <1>3, <1>4 DEF t

LEMMA ScheduleLiveFine ==
  ASSUME NEW s, Typed(s), Place(s), s.undo = None, s.state = "COMPOSITION", NEW whole,
         NEW r \in ScheduleLive(s)
  PROVE  Fine(r, whole)
<1> DEFINE t == [s EXCEPT !.gen = Fresh("live"), !.pending = TRUE, !.pendingKey = s.reading]
           c == CancelPendingLive(s)
<1>1. s \in Sessions /\ s.reading \in Readings
  BY DEF Typed, Place
<1>2. /\ t \in Sessions /\ SameComposer(s, t) /\ SameLive(s, t) /\ t.pending
      /\ t.pendingKey = s.reading
  BY <1>1, FreshFacts, ZenonT(60) DEF Sessions, SameComposer, SameLive
<1>3. \/ PendingDisplay(t) # <<>> /\ r = WithCallback(Reply(t, PendingDisplay(t)), "live")
      \/ r \in StartLive(t)
      \/ r \in Compose(c)
  BY DEF ScheduleLive, StartLiveOr
<1> HIDE DEF t
<1>4. Typed(t) /\ Place(t) /\ UndoShape(t) /\ Undone(t)
  BY <1>2 DEF Typed, Place, UndoShape, Undone, SameComposer, SameLive
<1>5. t.state = "COMPOSITION" /\ t.undo = None
  BY <1>2 DEF SameComposer
<1>6. CASE PendingDisplay(t) # <<>> /\ r = WithCallback(Reply(t, PendingDisplay(t)), "live")
  <2>1. Extends(t.key, t.reading)
    BY <1>6 DEF PendingDisplay, Extends
  <2>2. Pend(t)
    BY <1>2, <2>1 DEF Pend, SameComposer
  <2>3. Loose(t)
    BY <1>4, <1>5, <2>2 DEF Loose
  <2>4. PendingDisplay(t) \in Texts /\ ReadingOf(PendingDisplay(t)) = t.reading
    BY <1>4, <2>1, PendingDisplayFacts
  <2>5. Fine(Reply(t, PendingDisplay(t)), whole)
    BY <2>3, <2>4, ReplyFine
  <2>6. QED
    BY <1>6, <2>5, WithCallbackFine
<1>7. CASE r \in StartLive(t)
  BY <1>4, <1>5, <1>7, StartLiveFine
<1>8. CASE r \in Compose(c)
  <2>1. /\ Typed(c) /\ Place(c) /\ UndoShape(c) /\ Pend(c) /\ Undone(c)
        /\ c.state = "COMPOSITION"
    BY CancelPendingLiveKeeps DEF SameComposer
  <2> HIDE DEF c
  <2>2. Loose(c)
    BY <2>1 DEF Loose
  <2>3. QED
    BY <1>8, <2>2, ComposeFine
<1>9. QED
  BY <1>3, <1>6, <1>7, <1>8

LEMMA StaleFine ==
  ASSUME NEW s, Loose(s), NEW whole
  PROVE  Fine(Stale(s), whole)
<1>1. Typed(s) /\ Pend(s)
  BY DEF Loose
<1>2. CASE s.pending
  <2>1. /\ PendingDisplay(s) \in Texts
        /\ s.state \in Editing => ReadingOf(PendingDisplay(s)) = s.reading
    BY <1>1, <1>2, PendingDisplayFacts DEF Pend
  <2>2. QED
    BY <1>2, <2>1, ReplyFine DEF Stale
<1>3. CASE ~s.pending
  BY <1>1, <1>3, DisplayFacts, ReplyFine DEF Stale
<1>4. QED
  BY <1>2, <1>3

LEMMA ApplyLiveFine ==
  ASSUME NEW s, Loose(s), NEW c, NEW whole, NEW r \in ApplyLive(s, c)
  PROVE  Fine(r, whole)
<1> DEFINE t == CancelPendingLive(s)
<1>1. \/ r = Stale(s)
      \/ /\ IsCurrentLive(s, c)
         /\ \/ r = Reply(s, PendingDisplay(s))
            \/ r \in StartLive(s)
            \/ r = Reply(t, Display(t))
  BY DEF ApplyLive, StartLiveOr
<1>2. CASE r = Stale(s)
  BY <1>2, StaleFine
<1>3. ASSUME IsCurrentLive(s, c)
      PROVE  /\ s.state = "COMPOSITION" /\ s.pending /\ s.undo = None
             /\ ReadingOf(PendingDisplay(s)) = s.reading
  <2>1. s.state = "COMPOSITION" /\ s.pending
    BY <1>3 DEF IsCurrentLive
  <2>2. s.undo = None
    BY <2>1, NoUndoWhileEditing DEF Loose, Editing
  <2>3. ReadingOf(PendingDisplay(s)) = s.reading
    BY <2>1, PendingDisplayFacts DEF Loose, Pend, Editing
  <2>4. QED
    BY <2>1, <2>2, <2>3
<1>4. CASE IsCurrentLive(s, c) /\ r = Reply(s, PendingDisplay(s))
  BY <1>3, <1>4, PendingDisplayFacts, ReplyFine DEF Loose
<1>5. CASE IsCurrentLive(s, c) /\ r \in StartLive(s)
  BY <1>3, <1>5, StartLiveFine DEF Loose
<1>6. CASE IsCurrentLive(s, c) /\ r = Reply(t, Display(t))
  <2>1. /\ Typed(t) /\ Place(t) /\ UndoShape(t) /\ Pend(t) /\ Undone(t)
        /\ t.state = "COMPOSITION"
    BY <1>3, <1>6, CancelPendingLiveKeeps DEF SameComposer, Loose
  <2> HIDE DEF t
  <2>2. Loose(t)
    BY <2>1 DEF Loose
  <2>3. QED
    BY <1>6, <2>1, <2>2, DisplayFacts, ReplyFine
<1>7. QED
  BY <1>1, <1>2, <1>4, <1>5, <1>6

\* The parts of a session that a step of the correction leaves alone.
SameText(s, t) ==
  /\ t \in Sessions /\ SameComposer(s, t) /\ SameLive(s, t) /\ SamePending(s, t)
  /\ t.feedback = s.feedback

SameCorrection(s, t) ==
  t.vkey = s.vkey /\ t.vvalue = s.vvalue /\ t.vbase = s.vbase

LEMMA SameTextLoose ==
  ASSUME NEW s, Loose(s), NEW t, SameText(s, t), SameCorrection(s, t),
         Work(s) /\ s.state = "CONVERSION" /\ t.wait # "no" =>
           /\ s.active /\ t.zkey = s.reading
           /\ \A r \in {t.request, t.answer, running} \ {None} :
                r.gen = t.zgen => r.key = t.zkey
  PROVE  Loose(t)
<1>1. Typed(t) /\ Place(t) /\ UndoShape(t) /\ Pend(t) /\ Undone(t) /\ t.state = s.state
  BY DEF Loose, Typed, Place, UndoShape, Pend, Undone, SameText, SameComposer, SameLive,
     SamePending
<1>2. Visible(s) <=> Visible(t)
  BY DEF Visible, SameText, SameComposer, SameLive, SameCorrection
<1>3. ASSUME t.state = "CONVERSION" PROVE Work(t)
  <2>1. Work(s)
    BY <1>1, <1>3 DEF Loose
  <2>2. t.active => t.state = "CONVERSION" /\ t.key = t.reading /\ ~t.pending
    BY <2>1 DEF Work, SameText, SameComposer, SameLive, SamePending
  <2>3. t.wait # "no" =>
          /\ t.active /\ t.zkey = t.reading
          /\ \A r \in {t.request, t.answer, running} \ {None} :
               r.gen = t.zgen => r.key = t.zkey
    BY <1>1, <1>3, <2>1 DEF SameText, SameComposer, SameLive
  <2>4. t.vvalue # <<>> => Visible(t) /\ t.vvalue = As("zenz", t.reading)
    BY <1>2, <2>1 DEF Work, SameText, SameComposer, SameCorrection
  <2>5. QED
    BY <2>2, <2>3, <2>4 DEF Work
<1>4. QED
  BY <1>1, <1>3 DEF Loose

LEMMA AdvanceZenzFine ==
  ASSUME NEW s, Good(s), NEW c, IsCurrentZenz(s, c), NEW whole, NEW r \in AdvanceZenz(s)
  PROVE  Fine(r, whole)
<1> DEFINE q == [gen |-> s.zgen, key |-> s.zkey]
           asked == [s EXCEPT !.wait = "submitted", !.polls = 0, !.answer = None,
                              !.request = q]
           taken == [s EXCEPT !.answer = None]
           polled == [taken EXCEPT !.polls = @ + 1]
           done == [taken EXCEPT !.wait = "no", !.polls = 0, !.zkey = <<>>, !.zbase = <<>>]
           none == CancelPendingZenz(s)
<1>1. /\ Loose(s) /\ Work(s) /\ s \in Sessions /\ s.state = "CONVERSION" /\ s.active
      /\ s.wait # "no" /\ s.key = s.zkey /\ s.value = s.zbase /\ Typed(s)
  BY DEF Good, Loose, Typed, IsCurrentZenz
<1>2. \/ r = WithCallback(Reply(asked, Display(s)), "zenz")
      \/ r = Reply(none, Display(s))
      \/ /\ s.answer # None /\ s.answer.gen = s.zgen
         /\ r = Show(done, s.zkey, As("zenz", s.answer.key), s.zbase)
      \/ /\ s.polls + 1 < MaxPolls
         /\ r = WithCallback(Reply(polled, Display(taken)), "zenz")
  BY DEF AdvanceZenz, Submitted, Polled, TakeResult
<1>3. \A v : SameText(s, v) => Display(v) = Display(s)
  BY DEF SameText, SameComposer, Display
<1>4. Display(s) \in Texts /\ ReadingOf(Display(s)) = s.reading
  BY <1>1, DisplayFacts
<1>5. ASSUME NEW v, Loose(v), SameText(s, v) PROVE Fine(Reply(v, Display(s)), whole)
  BY <1>4, <1>5, ReplyFine DEF SameText, SameComposer
<1>6. s.zkey = s.reading /\ \A x \in {s.request, s.answer, running} \ {None} :
                              x.gen = s.zgen => x.key = s.zkey
  BY <1>1 DEF Work
<1>7. 0 \in 0..MaxPolls
  BY ConstantsAssumption
<1>8. CASE r = WithCallback(Reply(asked, Display(s)), "zenz")
  <2>1. q \in Requests /\ q.gen = s.zgen /\ q.key = s.zkey
    BY <1>1 DEF Sessions, Requests
  <2> HIDE DEF q
  <2>2. /\ SameText(s, asked) /\ SameCorrection(s, asked) /\ asked.zkey = s.zkey
        /\ asked.zgen = s.zgen /\ asked.request = q /\ asked.answer = None
    BY <1>1, <1>7, <2>1 DEF SameText, SameCorrection, Sessions, SameComposer, SameLive,
       SamePending
  <2> HIDE DEF asked
  <2>3. Loose(asked)
    BY <1>1, <1>6, <2>1, <2>2, SameTextLoose
  <2>4. QED
    BY <1>5, <1>8, <2>2, <2>3, WithCallbackFine
<1>9. CASE r = Reply(none, Display(s))
  <2>1. SameText(s, none) /\ SameCorrection(s, none) /\ none.wait = "no"
    BY <1>1, CancelPendingZenzFacts DEF SameText, SameCorrection
  <2> HIDE DEF none
  <2>2. Loose(none)
    BY <1>1, <2>1, SameTextLoose
  <2>3. QED
    BY <1>5, <1>9, <2>1, <2>2
<1>10. CASE /\ s.answer # None /\ s.answer.gen = s.zgen
            /\ r = Show(done, s.zkey, As("zenz", s.answer.key), s.zbase)
  <2>1. SameText(s, done) /\ SameCorrection(s, done) /\ done.wait = "no"
    BY <1>1, <1>7, NoReading DEF SameText, SameCorrection, Sessions, SameComposer, SameLive,
       SamePending
  <2> HIDE DEF done
  <2>2. Loose(done)
    BY <1>1, <2>1, SameTextLoose
  <2>3. s.answer.key = s.zkey
    BY <1>6, <1>10
  <2>4. done.key = s.zkey /\ done.value = s.zbase /\ done.active /\ done.state = "CONVERSION"
    BY <1>1, <2>1 DEF SameText, SameComposer, SameLive
  <2>5. Fine(Show(done, done.key, As("zenz", done.key), done.value), whole)
    BY <2>1, <2>2, <2>4, ShowFine
  <2>6. QED
    BY <1>10, <2>3, <2>4, <2>5
<1>11. CASE /\ s.polls + 1 < MaxPolls
            /\ r = WithCallback(Reply(polled, Display(taken)), "zenz")
  <2>1. s.polls + 1 \in 0..MaxPolls
    BY <1>1, <1>11, ConstantsAssumption DEF Sessions
  <2>2. /\ SameText(s, taken) /\ SameText(s, polled) /\ SameCorrection(s, polled)
        /\ polled.zkey = s.zkey /\ polled.zgen = s.zgen
        /\ polled.request = s.request /\ polled.answer = None
    BY <1>1, <2>1 DEF SameText, SameCorrection, Sessions, SameComposer, SameLive, SamePending
  <2> HIDE DEF polled, taken
  <2>3. Loose(polled)
    BY <1>1, <1>6, <2>2, SameTextLoose
  <2>4. Display(taken) = Display(s)
    BY <1>3, <2>2
  <2>5. QED
    BY <1>5, <1>11, <2>2, <2>3, <2>4, WithCallbackFine
<1>12. QED
  BY <1>2, <1>8, <1>9, <1>10, <1>11

-----------------------------------------------------------------------------
(* The handlers.  Each lemma says that every response of a handler is fine. *)

LEMMA ForgetUndoKeeps ==
  ASSUME NEW s, Typed(s)
  PROVE  LET t == [s EXCEPT !.undo = None]
         IN  /\ Typed(t) /\ t.undo = None /\ t.state = s.state /\ t.reading = s.reading
             /\ t.cursor = s.cursor /\ t.conv = s.conv /\ t.feedback = s.feedback
             /\ SameLive(s, t) /\ SamePending(s, t) /\ t.vvalue = s.vvalue
             /\ t.vkey = s.vkey /\ t.vbase = s.vbase /\ t.wait = s.wait
             /\ UndoShape(t) /\ Undone(t)
             /\ Place(s) => Place(t)
             /\ Pend(s) => Pend(t)
             /\ Work(s) => Work(t)
             /\ Visible(s) <=> Visible(t)
<1> DEFINE t == [s EXCEPT !.undo = None]
<1>1. s \in Sessions
  BY DEF Typed
<1>2. /\ t \in Sessions /\ t.undo = None /\ t.state = s.state /\ t.reading = s.reading
      /\ t.cursor = s.cursor /\ t.conv = s.conv /\ t.feedback = s.feedback
      /\ SameLive(s, t) /\ SamePending(s, t) /\ t.vvalue = s.vvalue /\ t.vkey = s.vkey
      /\ t.vbase = s.vbase /\ t.wait = s.wait /\ t.zkey = s.zkey /\ t.zgen = s.zgen
      /\ t.request = s.request /\ t.answer = s.answer
  BY <1>1 DEF Sessions, SameLive, SamePending
<1> HIDE DEF t
<1>3. Typed(t) /\ UndoShape(t) /\ Undone(t) /\ (Place(s) => Place(t))
  BY <1>2 DEF Typed, UndoShape, Undone, Place, SameLive
<1>4. Pend(s) => Pend(t)
  BY <1>2 DEF Pend, SameLive, SamePending
<1>5. Visible(s) <=> Visible(t)
  BY <1>2 DEF Visible, SameLive
<1>6. Work(s) => Work(t)
  BY <1>2, <1>5 DEF Work, SameLive, SamePending
<1>7. QED
  BY <1>2, <1>3, <1>4, <1>5, <1>6 DEF t

LEMMA EraseFine ==
  ASSUME NEW s, Good(s), s.state \notin Editing
  PROVE  Fine(Erase(s), session.reading)
<1> DEFINE d == Discard(s)
           t == [d EXCEPT !.undo = None]
<1>1. OnlyFeedback(s, d)
  BY FeedbackOnly, NoReading DEF Good, Loose, Typed
<1>2. Good(d) /\ d.state = s.state
  BY <1>1, OnlyFeedbackKeeps DEF OnlyFeedback, SameComposer
<1> HIDE DEF d
<1>3. Loose(t) /\ t.state = s.state
  BY <1>2, ForgetUndoKeeps DEF Good, Loose
<1> HIDE DEF t
<1>4. Fine(Reply(t, <<>>), session.reading)
  BY <1>3, NoReading, ReplyFine
<1>5. QED
  BY <1>4 DEF Erase, t, d

LEMMA PromoteGood ==
  ASSUME NEW s, Good(s)
  PROVE  LET t == Promote(s)
         IN  /\ Good(t) /\ t.state = s.state /\ t.reading = s.reading
             /\ SamePending(s, t) /\ t.key = s.key /\ t.value = s.value
             /\ ~t.active /\ t.conv = s.conv
<1> DEFINE d == Rejected(s)
           u == ClearZenz(d)
           t == [u EXCEPT !.active = FALSE]
<1>1. CASE ~s.active
  BY <1>1 DEF Promote, SamePending
<1>2. CASE s.active
  <2>1. s \in Sessions /\ s.state = "CONVERSION" /\ s.undo = None
    <3>1. s \in Sessions /\ Undone(s) /\ s.state = "CONVERSION"
      BY <1>2 DEF Good, Loose, Typed, Work
    <3>2. QED
      BY <3>1, NoUndoWhileEditing DEF Editing
  <2>2. OnlyFeedback(s, d)
    BY <2>1, FeedbackOnly, NoReading
  <2> HIDE DEF d
  <2>3. /\ u \in Sessions /\ SameComposer(s, u) /\ SameLive(s, u) /\ SamePending(s, u)
        /\ u.wait = "no" /\ u.vvalue = <<>>
    BY <2>2, ClearZenzFacts DEF OnlyFeedback, SameComposer, SameLive, SamePending
  <2> HIDE DEF u
  <2>4. /\ t \in Sessions /\ SameComposer(s, t) /\ t.key = s.key /\ t.value = s.value
        /\ SamePending(s, t) /\ ~t.active /\ t.wait = "no" /\ t.vvalue = <<>>
    BY <2>3 DEF Sessions, SameComposer, SameLive, SamePending
  <2> HIDE DEF t
  <2>5. Typed(t) /\ Place(t) /\ UndoShape(t) /\ Pend(t) /\ Undone(t)
    BY <2>1, <2>4 DEF Good, Loose, Typed, Place, UndoShape, Pend, Undone, SameComposer,
       SamePending
  <2>6. Work(t)
    BY <2>4 DEF Work
  <2>7. Promote(s) = t
    BY <1>2 DEF Promote, t, u, d
  <2>8. QED
    BY <2>4, <2>5, <2>6, <2>7 DEF Good, Loose, SameComposer
<1>3. QED
  BY <1>1, <1>2

LEMMA CandidatesFine ==
  ASSUME NEW s, Good(s), s.state \in Editing, NEW styles, styles \subseteq Styles,
         NEW r \in Candidates(s, styles)
  PROVE  Fine(r, session.reading)
<1>1. PICK style \in styles :
        LET t == [s EXCEPT !.state = "CONVERSION", !.conv = style]
        IN  r = Reply(t, Display(t))
  BY DEF Candidates
<1> DEFINE t == [s EXCEPT !.state = "CONVERSION", !.conv = style]
<1>2. s \in Sessions /\ style \in Styles
  BY DEF Good, Loose, Typed
<1>3. /\ t \in Sessions /\ t.state = "CONVERSION" /\ t.reading = s.reading
      /\ t.cursor = s.cursor /\ t.undo = s.undo /\ SameLive(s, t) /\ SamePending(s, t)
      /\ t.pendingKey = s.pendingKey /\ t.vvalue = s.vvalue /\ t.vkey = s.vkey
      /\ t.vbase = s.vbase /\ t.wait = s.wait /\ t.zkey = s.zkey /\ t.zgen = s.zgen
      /\ t.request = s.request /\ t.answer = s.answer
  BY <1>2 DEF Sessions, States, Editing, SameLive, SamePending
<1> HIDE DEF t
<1>4. Typed(t) /\ Place(t) /\ UndoShape(t)
  BY <1>3 DEF Good, Loose, Typed, Place, UndoShape, SameLive, Editing
<1>5. Pend(t) /\ Undone(t)
  BY <1>3 DEF Good, Loose, Pend, Undone, SameLive, SamePending
<1>6. Visible(s) => Visible(t)
  BY <1>3 DEF Visible, SameLive
<1>7. Work(t)
  BY <1>3, <1>6 DEF Good, Work, SameLive, SamePending
<1>8. Loose(t)
  BY <1>4, <1>5, <1>7 DEF Loose
<1>9. Fine(Reply(t, Display(t)), session.reading)
  BY <1>4, <1>8, DisplayFacts, ReplyFine
<1>10. QED
  BY <1>1, <1>9 DEF t

\* Without the live conversion, back in the composition.
LEMMA BackToComposition ==
  ASSUME NEW s, Typed(s), Place(s), s.state \in Editing, s.undo = None
  PROVE  LET t == [ClearLive(s) EXCEPT !.state = "COMPOSITION", !.conv = "raw"]
         IN  /\ Good(t) /\ t.state = "COMPOSITION" /\ t.reading = s.reading
             /\ t.feedback = s.feedback
<1> DEFINE c == ClearLive(s)
           t == [c EXCEPT !.state = "COMPOSITION", !.conv = "raw"]
<1>1. /\ Typed(c) /\ Calm(c) /\ ~c.pending /\ c.reading = s.reading /\ c.undo = None
      /\ c.feedback = s.feedback
  BY ClearLiveTyped, ClearLiveFacts DEF Typed, SameComposer
<1> HIDE DEF c
<1>2. /\ t \in Sessions /\ t.state = "COMPOSITION" /\ t.reading = c.reading
      /\ t.cursor = c.cursor /\ t.undo = c.undo /\ t.feedback = c.feedback
      /\ t.key = c.key /\ t.value = c.value /\ ~t.active /\ ~t.pending
      /\ t.wait = "no" /\ t.vvalue = <<>>
  BY <1>1, ZenonT(60) DEF Typed, Calm, Sessions, States, Editing, Styles
<1> HIDE DEF t
<1>3. Typed(t) /\ Place(t) /\ UndoShape(t) /\ Calm(t)
  BY <1>1, <1>2 DEF Typed, Place, UndoShape, Calm, Editing
<1>4. Loose(t) /\ Work(t)
  BY <1>1, <1>2, <1>3, CalmLoose DEF Work, Calm
<1>5. QED
  BY <1>1, <1>2, <1>4 DEF Good, t, c

LEMMA GoodEditing ==
  ASSUME NEW s, Good(s), s.state \in Editing
  PROVE  /\ Typed(s) /\ Place(s) /\ UndoShape(s) /\ Pend(s) /\ Work(s) /\ s \in Sessions
         /\ s.undo = None
BY NoUndoWhileEditing DEF Good, Loose, Typed

LEMMA ConvertCancelFine ==
  ASSUME NEW s, Good(s), s.state \in Editing, NEW r \in ConvertCancel(s)
  PROVE  Fine(r, session.reading)
<1> DEFINE d == Discard(s)
           t == [ClearLive(d) EXCEPT !.state = "COMPOSITION", !.conv = "raw"]
<1>1. OnlyFeedback(s, d)
  BY GoodEditing, FeedbackOnly, NoReading
<1> HIDE DEF d
<1>2. Typed(d) /\ Place(d) /\ d.state \in Editing /\ d.undo = None
  BY <1>1, GoodEditing, OnlyFeedbackKeeps DEF OnlyFeedback, SameComposer
<1>3. Loose(t)
  BY <1>2, BackToComposition DEF Good
<1> HIDE DEF t
<1>4. r \in Compose(t)
  BY DEF ConvertCancel, t, d
<1>5. QED
  BY <1>3, <1>4, ComposeFine

LEMMA RevertZenzFine ==
  ASSUME NEW s, Good(s), Visible(s)
  PROVE  Fine(RevertZenz(s), session.reading)
<1> DEFINE d == Rejected(s)
           t == ClearLive(d)
<1>1. s.state = "CONVERSION" /\ s.active
  BY DEF Visible
<1>2. Typed(s) /\ Place(s) /\ UndoShape(s) /\ s \in Sessions /\ s.undo = None /\ Work(s)
  BY <1>1, GoodEditing DEF Editing
<1>3. OnlyFeedback(s, d)
  BY <1>2, FeedbackOnly, NoReading
<1> HIDE DEF d
<1>4. /\ Typed(d) /\ Place(d) /\ UndoShape(d) /\ d.state = s.state /\ d.undo = None
      /\ d.reading = s.reading
  BY <1>2, <1>3, OnlyFeedbackKeeps DEF OnlyFeedback, SameComposer
<1>5. /\ Typed(t) /\ Place(t) /\ UndoShape(t) /\ Calm(t) /\ ~t.pending /\ t.undo = None
      /\ t.reading = s.reading
  BY <1>4, ClearLiveTyped, ClearLiveFacts DEF Typed, SameComposer
<1> HIDE DEF t
<1>6. Loose(t)
  BY <1>5, CalmLoose
<1>7. s.value \in Texts /\ ReadingOf(s.value) = s.reading
  BY <1>1, <1>2 DEF Typed, Sessions, Work
<1>8. Fine(Reply(t, s.value), session.reading)
  BY <1>5, <1>6, <1>7, ReplyFine
<1>9. QED
  BY <1>8 DEF RevertZenz, t, d

\* Backspace leaves a composition whose text is one letter shorter.
LEMMA ShortenedFacts ==
  ASSUME NEW s, Good(s), s.state = "COMPOSITION" \/ s.active
  PROVE  LET t == Shortened(s)
         IN  /\ Typed(t) /\ t.reading \in Readings /\ t.state = "COMPOSITION"
             /\ t.undo = None /\ ~t.pending /\ Calm(t) /\ t.feedback = NoFeedback
<1> DEFINE d == Discard(s)
           c == CancelForEditing(d)
           reading == IF c.cursor = 0 THEN c.reading ELSE RemoveAt(c.reading, c.cursor)
           cursor == IF c.cursor = 0 THEN 0 ELSE c.cursor - 1
           t == [c EXCEPT !.undo = None, !.reading = reading, !.cursor = cursor]
<1>1. s.state \in Editing
  BY DEF Good, Work, Editing
<1>2. Typed(s) /\ s \in Sessions /\ s.reading \in Readings
  BY <1>1, GoodEditing DEF Place
<1>3. OnlyFeedback(s, d)
  BY <1>2, FeedbackOnly, NoReading
<1>4. d.feedback = NoFeedback
  BY <1>2 DEF Discard, Sessions
<1> HIDE DEF d
<1>5. /\ Typed(d) /\ d \in Sessions /\ d.reading = s.reading /\ d.state = s.state
      /\ (d.active <=> s.active)
  BY <1>2, <1>3, OnlyFeedbackKeeps DEF OnlyFeedback, SameComposer, SameLive
<1>6. /\ c \in Sessions /\ c.reading = d.reading /\ c.cursor = d.cursor /\ c.key = d.key
      /\ c.value = d.value /\ ~c.active /\ ~c.pending /\ c.wait = "no" /\ c.vvalue = <<>>
      /\ c.feedback = d.feedback /\ c.state = "COMPOSITION"
  BY <1>5, CancelForEditingFacts
<1> HIDE DEF c
<1>7. c.reading \in Seq(Letters) /\ Len(c.reading) <= MaxLength /\ Len(c.reading) \in Nat
      /\ c.cursor \in Nat /\ c.cursor <= Len(c.reading)
  <2>1. c.reading \in Seq(Letters) /\ Len(c.reading) <= MaxLength
    BY <1>2, <1>5, <1>6, ReadingsAreBounded
  <2>2. c.cursor \in Nat /\ c.cursor <= Len(c.reading)
    BY <1>5, <1>6 DEF Typed, Sessions
  <2>3. QED
    BY <2>1, <2>2, LenProperties
<1>8. reading \in Seq(Letters) /\ Len(reading) <= MaxLength /\ cursor \in Nat
      /\ cursor <= Len(reading)
  <2>1. CASE c.cursor = 0
    BY <1>7, <2>1
  <2>2. CASE c.cursor # 0
    <3>1. c.cursor \in 1..Len(c.reading)
      BY <1>7, <2>2
    <3>2. RemoveAt(c.reading, c.cursor) \in Seq(Letters)
          /\ Len(RemoveAt(c.reading, c.cursor)) = Len(c.reading) - 1
      BY <1>7, <3>1, RemoveAtFacts
    <3>3. MaxLength \in Nat
      BY ConstantsAssumption
    <3>4. QED
      BY <1>7, <2>2, <3>2, <3>3
  <2>3. QED
    BY <2>1, <2>2
<1> HIDE DEF reading, cursor
<1>9. reading \in Readings /\ reading \in Seq(Chars)
  BY <1>8, ReadingsAreBounded, ReadingsAreSequences
<1>10. /\ t \in Sessions /\ t.reading = reading /\ t.cursor = cursor /\ t.undo = None
       /\ t.state = c.state /\ t.key = c.key /\ t.value = c.value /\ ~t.active
       /\ ~t.pending /\ t.wait = "no" /\ t.vvalue = <<>> /\ t.feedback = c.feedback
  BY <1>6, <1>8, <1>9 DEF Sessions
<1>11. Shortened(s) = t
  BY DEF Shortened, t, c, d, reading, cursor
<1> HIDE DEF t
<1>12. Typed(t)
  BY <1>5, <1>6, <1>8, <1>10 DEF Typed
<1>13. QED
  BY <1>4, <1>6, <1>9, <1>10, <1>11, <1>12, <1>5 DEF Calm

LEMMA TurnedOffFine ==
  ASSUME NEW s, Good(s), s.reading = session.reading
  PROVE  Fine(TurnedOff(s), session.reading)
<1> DEFINE t == [s EXCEPT !.undo = None]
           r == CommitAny(t)
           d == Discard(r.s)
           v == [Precompose(d) EXCEPT !.state = "DIRECT"]
           q == TurnedOff(s)
<1>1. Typed(s) /\ Place(s) /\ Pend(s) /\ Work(s)
  BY DEF Good, Loose
<1>2. /\ Typed(t) /\ Place(t) /\ UndoShape(t) /\ Pend(t) /\ Undone(t) /\ Work(t)
      /\ t.reading = session.reading
  BY <1>1, ForgetUndoKeeps
<1>3. Good(t)
  BY <1>2 DEF Good, Loose
<1> HIDE DEF t
<1>4. Fine(r, session.reading) /\ r.s.state \notin Editing
  BY <1>2, <1>3, CommitAnyFine DEF Good
<1>5. q.s = v /\ q.shown = <<>> /\ q.result = r.result /\ q.callback = r.callback
  <2> DEFINE c == Confirm(r)
  <2>1. c.s = d /\ c.result = r.result /\ c.callback = r.callback
    BY <1>4 DEF Confirm, r, CommitAny, CommitZenz, CommitPendingDisplay, CommitInternal,
       CommitString, Reply
  <2>2. q = [c EXCEPT !.s = [Precompose(c.s) EXCEPT !.state = "DIRECT"], !.shown = <<>>]
    BY DEF TurnedOff, r, t
  <2>3. QED
    BY <2>1, <2>2 DEF Confirm, r, CommitAny, CommitZenz, CommitPendingDisplay, CommitInternal,
       CommitString, Reply
<1> HIDE DEF r, q
<1>6. Loose(r.s) /\ r.s.reading = <<>>
  BY <1>4 DEF Fine, Loose, Place
<1>7. Loose(d)
  <2>1. OnlyFeedback(r.s, d)
    BY <1>6, FeedbackOnly, NoReading DEF Loose, Typed
  <2>2. QED
    BY <1>6, <2>1, OnlyFeedbackKeeps
<1> HIDE DEF d
<1>8. Loose(v) /\ v.reading = <<>> /\ v.state = "DIRECT"
  <2> DEFINE p == Precompose(d)
  <2>1. /\ p \in Sessions /\ p.state = "PRECOMPOSITION" /\ p.reading = <<>>
        /\ p.cursor = 0 /\ p.undo = d.undo /\ SameLive(d, p) /\ SamePending(d, p)
    BY <1>7, PrecomposeFacts DEF Loose, Typed
  <2> HIDE DEF p
  <2>2. v = [p EXCEPT !.state = "DIRECT"]
    BY DEF p
  <2> HIDE DEF v
  <2>3. /\ v \in Sessions /\ v.state = "DIRECT" /\ v.reading = <<>> /\ v.cursor = 0
        /\ v.undo = d.undo /\ SameLive(d, v) /\ SamePending(d, v)
    BY <2>1, <2>2 DEF Sessions, States, SameLive, SamePending
  <2>4. Typed(v) /\ Place(v) /\ UndoShape(v)
    BY <1>7, <2>3, EmptySeq, NoReading DEF Loose, Typed, Place, UndoShape, SameLive, Editing
  <2>5. Pend(v) /\ Undone(v)
    BY <1>7, <2>3 DEF Loose, Pend, Undone, SameLive, SamePending, Editing
  <2>6. QED
    BY <2>3, <2>4, <2>5 DEF Loose
<1> HIDE DEF v
<1>9. Fine(q, session.reading)
  BY <1>4, <1>5, <1>6, <1>8, NoReading DEF Fine, Editing
<1>10. QED
  BY <1>9 DEF q

\* A handler that answers nothing but a session without a composition.
LEMMA PrecomposeFine ==
  ASSUME NEW s, Typed(s), UndoShape(s), ~s.pending \/ s.undo = None
  PROVE  Fine(Reply(Precompose(s), <<>>), session.reading)
<1> DEFINE t == Precompose(s)
<1>1. /\ t \in Sessions /\ t.state = "PRECOMPOSITION" /\ t.reading = <<>>
      /\ t.cursor = 0 /\ t.undo = s.undo /\ SameLive(s, t) /\ SamePending(s, t)
  BY PrecomposeFacts DEF Typed
<1> HIDE DEF t
<1>2. Typed(t) /\ UndoShape(t) /\ Place(t)
  BY <1>1, EmptySeq, NoReading DEF Typed, SameLive, UndoShape, Place, Editing
<1>3. Pend(t) /\ Undone(t)
  BY <1>1 DEF Pend, Undone, SamePending, Editing
<1>4. Loose(t)
  BY <1>1, <1>2, <1>3 DEF Loose
<1>5. Fine(Reply(t, <<>>), session.reading)
  BY <1>1, <1>4, NoReading, ReplyFine DEF Editing
<1>6. QED
  BY <1>5 DEF t

\* Escape and Revert: the composition and the live conversion are dropped.
LEMMA ClearedFine ==
  ASSUME NEW s, Typed(s), UndoShape(s)
  PROVE  Fine(Reply(ClearLive(Precompose(s)), <<>>), session.reading)
<1> DEFINE t == Precompose(s)
           c == ClearLive(t)
<1>1. /\ t \in Sessions /\ t.state = "PRECOMPOSITION" /\ t.reading = <<>>
      /\ t.cursor = 0 /\ t.undo = s.undo /\ SameLive(s, t)
  BY PrecomposeFacts DEF Typed
<1> HIDE DEF t
<1>2. Typed(t) /\ UndoShape(t) /\ Place(t)
  BY <1>1, EmptySeq, NoReading DEF Typed, SameLive, UndoShape, Place, Editing
<1>3. /\ Typed(c) /\ UndoShape(c) /\ Place(c) /\ Calm(c) /\ ~c.pending
      /\ c.state = "PRECOMPOSITION"
  BY <1>1, <1>2, ClearLiveTyped, ClearLiveFacts DEF SameComposer
<1> HIDE DEF c
<1>4. Loose(c)
  BY <1>3, CalmLoose DEF Editing
<1>5. Fine(Reply(c, <<>>), session.reading)
  BY <1>3, <1>4, NoReading, ReplyFine DEF Editing
<1>6. QED
  BY <1>5 DEF c, t

LEMMA UndoFine ==
  ASSUME NEW s, Good(s), s.undo # None
  PROVE  LET t == [Discard(s) EXCEPT !.state = s.undo.state, !.reading = s.undo.reading,
                     !.cursor = s.undo.cursor, !.conv = s.undo.conv, !.undo = None]
         IN  Fine(Reply(t, Display(t)), session.reading)
<1> DEFINE d == Discard(s)
           e == s.undo
           t == [d EXCEPT !.state = e.state, !.reading = e.reading, !.cursor = e.cursor,
                          !.conv = e.conv, !.undo = None]
<1>1. Typed(s) /\ Undone(s) /\ UndoShape(s) /\ Work(s) /\ s \in Sessions
  BY DEF Good, Loose, Typed
<1>2. OnlyFeedback(s, d)
  BY <1>1, FeedbackOnly, NoReading
<1> HIDE DEF d
<1>3. /\ e \in Undos /\ e.cursor <= Len(e.reading)
      /\ e.state \in Editing <=> e.reading # <<>>
  BY <1>1 DEF Sessions, UndoShape
<1>4. s.state \notin Editing /\ ~s.active /\ s.wait = "no" /\ s.vvalue = <<>>
  BY <1>1 DEF Undone, Work, Editing, Visible
<1>5. /\ d \in Sessions /\ ~d.active /\ d.wait = "no" /\ d.vvalue = <<>> /\ d.key = s.key
      /\ d.value = s.value /\ (d.pending <=> s.pending) /\ d.pendingKey = s.pendingKey
  BY <1>2, <1>4 DEF OnlyFeedback, SameLive, SamePending
<1> HIDE DEF e
<1>6. /\ e.reading \in Readings /\ e.reading \in Seq(Chars) /\ e.state \in States
      /\ e.cursor \in Nat /\ e.conv \in Styles
  BY <1>3, ReadingsAreSequences DEF Undos
<1>7. /\ t \in Sessions /\ t.state = e.state /\ t.reading = e.reading
      /\ t.cursor = e.cursor /\ t.undo = None /\ ~t.active /\ t.wait = "no"
      /\ t.vvalue = <<>> /\ t.key = s.key /\ t.value = s.value
      /\ (t.pending <=> s.pending) /\ t.pendingKey = s.pendingKey
  BY <1>5, <1>6 DEF Sessions
<1> HIDE DEF t
<1>8. Typed(t) /\ Place(t) /\ UndoShape(t) /\ Undone(t)
  BY <1>1, <1>3, <1>6, <1>7 DEF Typed, Place, UndoShape, Undone
<1>9. Pend(t)
  BY <1>1, <1>7 DEF Pend, Undone, e
<1>10. Loose(t)
  BY <1>7, <1>8, <1>9 DEF Loose, Work
<1>11. Fine(Reply(t, Display(t)), session.reading)
  BY <1>8, <1>10, DisplayFacts, ReplyFine
<1>12. QED
  BY <1>11 DEF t, e, d

LEMMA CommitFirstSuggestionFine ==
  ASSUME Good(session), session.state \in Editing
  PROVE  LET text == As("other", session.reading)
         IN  Fine([Reply(Observe(Precompose(PushUndo(session)), text), <<>>)
                     EXCEPT !.result = text], session.reading)
<1> DEFINE text == As("other", session.reading)
           p == PushUndo(session)
           t == Precompose(p)
           u == Observe(t, text)
           r == [Reply(u, <<>>) EXCEPT !.result = text]
<1>1. /\ Typed(session) /\ Place(session) /\ UndoShape(session) /\ Pend(session)
      /\ session.undo = None /\ session.reading \in Seq(Chars)
  BY GoodEditing DEF Sessions
<1>2. text \in Texts /\ ReadingOf(text) = session.reading
  BY <1>1, AsFacts DEF Styles
<1>3. /\ Typed(p) /\ UndoShape(p) /\ SameLive(session, p) /\ SamePending(session, p)
      /\ p.undo # session.undo =>
           p.undo.state = session.state /\ p.undo.reading = session.reading
  BY <1>1, PushUndoFacts
<1> HIDE DEF p
<1>4. /\ t \in Sessions /\ t.state = "PRECOMPOSITION" /\ t.reading = <<>>
      /\ t.cursor = 0 /\ t.undo = p.undo /\ SameLive(p, t) /\ SamePending(p, t)
  BY <1>3, PrecomposeFacts DEF Typed
<1> HIDE DEF t
<1>5. Typed(t) /\ UndoShape(t) /\ Place(t) /\ Pend(t)
  BY <1>3, <1>4, EmptySeq, NoReading DEF Typed, SameLive, UndoShape, Place, Pend, Editing
<1>6. Undone(t)
  BY <1>1, <1>3, <1>4 DEF Undone, Pend, SameLive, SamePending, Editing
<1>7. Loose(t)
  BY <1>4, <1>5, <1>6 DEF Loose
<1> HIDE DEF text
<1>8. OnlyFeedback(t, u)
  BY <1>2, <1>4, FeedbackOnly
<1> HIDE DEF u
<1>9. Loose(u) /\ u.state = "PRECOMPOSITION" /\ u.reading = <<>>
  BY <1>4, <1>7, <1>8, OnlyFeedbackKeeps DEF OnlyFeedback, SameComposer
<1>10. r.s = u /\ r.shown = <<>> /\ r.result = text /\ r.callback = None
  BY DEF Reply
<1> HIDE DEF r
<1>11. Fine(r, session.reading)
  BY <1>1, <1>2, <1>9, <1>10, NoReading DEF Fine, Editing
<1>12. QED
  BY <1>11 DEF r, u, t, p, text

-----------------------------------------------------------------------------
(* Responses that commit and record nothing, and leave the reading alone.   *)

IsResponse(r) ==
  r = [s |-> r.s, shown |-> r.shown, result |-> r.result, callback |-> r.callback,
       recorded |-> r.recorded]

Silent(r, s) ==
  /\ IsResponse(r)
  /\ r.result = <<>> /\ r.recorded = None
  /\ r.s.reading = s.reading /\ r.s.feedback = s.feedback
  /\ s.state \in Editing => r.s.state \in Editing

LEMMA ReplySilent ==
  ASSUME NEW s, NEW t, NEW text, NEW type, t.reading = s.reading, t.feedback = s.feedback,
         s.state \in Editing => t.state \in Editing
  PROVE  Silent(Reply(t, text), s) /\ Silent(WithCallback(Reply(t, text), type), s)
BY DEF Silent, Reply, WithCallback, IsResponse

LEMMA ScheduleZenzSilent ==
  ASSUME NEW s, s \in Sessions, NEW r \in ScheduleZenz(s)
  PROVE  Silent(r, s)
<1> DEFINE t == [s EXCEPT !.zgen = Fresh("zenz"), !.wait = "scheduled",
                          !.polls = 0, !.zkey = s.key, !.zbase = s.value]
           u == [t EXCEPT !.wait = "submitted", !.polls = 0, !.answer = None,
                          !.request = [gen |-> t.zgen, key |-> t.zkey]]
<1>1. /\ t.reading = s.reading /\ t.feedback = s.feedback /\ t.state = s.state
      /\ u.reading = s.reading /\ u.feedback = s.feedback /\ u.state = s.state
  BY DEF Sessions
<1>2. \/ r = Reply(s, Display(s)) \/ r = WithCallback(Reply(t, Display(t)), "zenz")
      \/ r = WithCallback(Reply(u, Display(t)), "zenz")
  BY DEF ScheduleZenz, Submitted
<1> HIDE DEF t, u
<1>3. QED
  BY <1>1, <1>2, ReplySilent

LEMMA StartLiveSilent ==
  ASSUME NEW s, s \in Sessions, s.reading \in Readings, NEW r \in StartLive(s)
  PROVE  Silent(r, s)
<1> DEFINE t == [s EXCEPT !.pending = FALSE, !.pendingKey = <<>>]
           w == [t EXCEPT !.state = "CONVERSION", !.conv = "mozc", !.active = TRUE,
                          !.key = s.reading, !.value = As("mozc", s.reading)]
           u == ClearZenz(w)
           known == [u EXCEPT !.zgen = Fresh("zenz")]
           k == [known EXCEPT !.vkey = u.key, !.vvalue = As("zenz", u.key), !.vbase = u.value]
           z == ClearZenz(t)
<1>1. /\ t \in Sessions /\ t.reading = s.reading /\ t.feedback = s.feedback
      /\ t.state = s.state
  BY NoReading DEF Sessions
<1>2. As("mozc", s.reading) \in Texts
  BY AsFacts DEF Sessions, Styles
<1>3. /\ w \in Sessions /\ w.reading = s.reading /\ w.feedback = s.feedback
      /\ w.state = "CONVERSION"
  BY <1>2, NoReading DEF Sessions, States, Styles, Editing
<1>4. \/ r \in ScheduleZenz(u) \/ r = Reply(k, As("zenz", u.key)) \/ r = Reply(t, Display(t))
      \/ r = Reply(z, PendingDisplay(t))
  BY DEF StartLive, Show
<1> HIDE DEF w, t
<1>5. /\ u \in Sessions /\ u.reading = s.reading /\ u.feedback = s.feedback
      /\ u.state = "CONVERSION"
  BY <1>3, ClearZenzFacts DEF SameComposer
<1>6. z.reading = s.reading /\ z.feedback = s.feedback /\ z.state = s.state
  BY <1>1, ClearZenzFacts DEF SameComposer
<1> HIDE DEF u, z
<1>7. k.reading = s.reading /\ k.feedback = s.feedback /\ k.state = "CONVERSION"
  BY <1>5 DEF Sessions
<1> HIDE DEF k
<1>8. CASE r \in ScheduleZenz(u)
  <2>1. Silent(r, u)
    BY <1>5, <1>8, ScheduleZenzSilent
  <2>2. QED
    BY <1>5, <2>1 DEF Silent, Editing
<1>9. CASE r # Reply(k, As("zenz", u.key)) /\ r \notin ScheduleZenz(u)
  BY <1>1, <1>4, <1>6, <1>9, ReplySilent
<1>10. CASE r = Reply(k, As("zenz", u.key))
  BY <1>7, <1>10, ReplySilent DEF Editing
<1>11. QED
  BY <1>8, <1>9, <1>10

LEMMA ScheduleLiveSilent ==
  ASSUME NEW s, s \in Sessions, s.reading \in Readings, NEW r \in ScheduleLive(s)
  PROVE  Silent(r, s)
<1> DEFINE t == [s EXCEPT !.gen = Fresh("live"), !.pending = TRUE, !.pendingKey = s.reading]
           c == CancelPendingLive(s)
<1>1. /\ t \in Sessions /\ t.reading = s.reading /\ t.feedback = s.feedback
      /\ t.state = s.state
  BY FreshFacts DEF Sessions
<1>2. c.reading = s.reading /\ c.feedback = s.feedback /\ c.state = s.state
  BY CancelPendingLiveFacts DEF SameComposer
<1>3. \/ r = WithCallback(Reply(t, PendingDisplay(t)), "live")
      \/ r \in StartLive(t)
      \/ r = Reply(c, As("raw", c.reading))
  BY DEF ScheduleLive, StartLiveOr, Compose
<1> HIDE DEF t, c
<1>4. CASE r \in StartLive(t)
  <2>1. Silent(r, t)
    BY <1>1, <1>4, StartLiveSilent
  <2>2. QED
    BY <1>1, <2>1 DEF Silent
<1>5. CASE r \notin StartLive(t)
  BY <1>1, <1>2, <1>3, <1>5, ReplySilent
<1>6. QED
  BY <1>4, <1>5

-----------------------------------------------------------------------------
(* A letter.                                                                *)

\* The composer takes a letter.
LEMMA InsertFacts ==
  ASSUME NEW s, Typed(s), NEW letter \in Chars
  PROVE  LET u == Insert(s, letter)
         IN  /\ Typed(u) /\ u.undo = None /\ u.state = s.state /\ u.reading # <<>>
             /\ Len(u.reading) = Len(s.reading) + 1
             /\ SameLive(s, u) /\ SamePending(s, u) /\ u.feedback = s.feedback
             /\ s.reading \in Seq(Letters) /\ letter \in Letters
                  => u.reading \in Seq(Letters)
             /\ AtEnd(s) => u.reading = s.reading \o <<letter>>
<1> DEFINE reading == InsertAt(s.reading, s.cursor + 1, letter)
           u == [s EXCEPT !.reading = reading, !.cursor = s.cursor + 1, !.undo = None]
<1>1. s \in Sessions /\ s.reading \in Seq(Chars) /\ s.cursor \in 0..Len(s.reading)
      /\ Len(s.reading) \in Nat /\ s.cursor \in Nat
  BY LenProperties DEF Typed, Sessions
<1>2. /\ reading \in Seq(Chars) /\ Len(reading) = Len(s.reading) + 1
      /\ s.cursor = Len(s.reading) => reading = s.reading \o <<letter>>
  BY <1>1, InsertAtFacts, ZenonT(60)
<1>3. ASSUME s.reading \in Seq(Letters), letter \in Letters PROVE reading \in Seq(Letters)
  BY <1>1, <1>3, InsertAtFacts
<1> HIDE DEF reading
<1>4. s.cursor + 1 \in Nat /\ s.cursor + 1 <= Len(reading) /\ reading # <<>>
  BY <1>1, <1>2, EmptySeq
<1>5. /\ u \in Sessions /\ u.reading = reading /\ u.cursor = s.cursor + 1 /\ u.undo = None
      /\ u.state = s.state /\ SameLive(s, u) /\ SamePending(s, u) /\ u.feedback = s.feedback
  BY <1>1, <1>2, <1>4 DEF Sessions, SameLive, SamePending
<1>6. Insert(s, letter) = u
  BY DEF Insert, u, reading
<1> HIDE DEF u
<1>7. Typed(u)
  BY <1>4, <1>5 DEF Typed, SameLive
<1>8. QED
  BY <1>2, <1>3, <1>4, <1>5, <1>6, <1>7 DEF AtEnd

\* The prefix that a new composition must not reuse is forgotten.
LEMMA ForgetPrefixFacts ==
  ASSUME NEW s, Typed(s)
  PROVE  LET t == ForgetPrefix(s)
         IN  /\ Typed(t) /\ SameComposer(s, t) /\ t.feedback = s.feedback
             /\ t.key = <<>> /\ t.value = <<>>
<1> DEFINE p == [s EXCEPT !.key = <<>>, !.value = <<>>]
           t == ClearZenz(p)
<1>1. /\ p \in Sessions /\ SameComposer(s, p) /\ p.feedback = s.feedback
      /\ p.key = <<>> /\ p.value = <<>>
  BY NoReading DEF Typed, Sessions, SameComposer
<1> HIDE DEF p
<1>2. /\ t \in Sessions /\ SameComposer(p, t) /\ SameLive(p, t) /\ t.feedback = p.feedback
  BY <1>1, ClearZenzFacts
<1> HIDE DEF t
<1>3. ReadingOf(<<>>) = <<>>
  BY NoReading, ReadingOfFacts
<1>4. SameComposer(s, t) /\ t.key = <<>> /\ t.value = <<>> /\ t.feedback = s.feedback
  BY <1>1, <1>2 DEF SameComposer, SameLive
<1>5. Typed(t)
  BY <1>2, <1>3, <1>4 DEF Typed, SameComposer
<1>6. QED
  BY <1>4, <1>5 DEF ForgetPrefix, t, p

LEMMA CommitPendingDisplayResult ==
  ASSUME NEW s, Typed(s), s.reading # <<>>
  PROVE  CommitPendingDisplay(s).result # <<>>
<1> DEFINE text == IF PendingDisplay(s) = <<>> THEN As("raw", s.reading)
                   ELSE PendingDisplay(s)
<1>1. text # <<>>
  BY DisplayFacts
<1>2. CommitPendingDisplay(s) = CommitString(ClearLive(s), text)
  BY DEF CommitPendingDisplay
<1> HIDE DEF text
<1>3. QED
  BY <1>1, <1>2 DEF CommitString, Reply

LEMMA OneMore ==
  ASSUME NEW t \in Texts, NEW x \in Chars
  PROVE  LET u == Append(t, <<"raw", x>>)
         IN  u \in Texts /\ u # <<>> /\ ReadingOf(u) = ReadingOf(t) \o <<x>>
<1> DEFINE e == <<"raw", x>>
           one == <<e>>
<1>1. e \in Styles \X (Letters \cup {Punct})
  BY DEF Styles, Chars
<1>2. Append(t, e) = t \o one /\ Append(t, e) # <<>>
  BY <1>1, AppendIsConcat, AppendProperties, ZenonT(60) DEF Texts
<1>3. one \in Texts /\ Len(one) = 1 /\ one[1] = e
  BY <1>1 DEF Texts
<1>4. e[2] = x
  OBVIOUS
<1> HIDE DEF e, one
<1>5. ReadingOf(one) = <<x>>
  <2>1. /\ ReadingOf(one) \in Seq(Chars) /\ Len(ReadingOf(one)) = 1
        /\ ReadingOf(one)[1] = x
    BY <1>3, <1>4, ReadingOfFacts
  <2>2. <<x>> \in Seq(Chars) /\ Len(<<x>>) = 1 /\ <<x>>[1] = x
    OBVIOUS
  <2>3. QED
    BY <2>1, <2>2, SeqEqual
<1>6. t \o one \in Texts /\ ReadingOf(t \o one) = ReadingOf(t) \o ReadingOf(one)
  BY <1>3, ReadingOfConcat
<1>7. QED
  BY <1>2, <1>5, <1>6 DEF e

\* The direct commit takes the whole text, the punctuation included.
LEMMA CommitPunctuatedFine ==
  ASSUME NEW s, Good(s), NEW t, Typed(t), UndoShape(t), ~t.pending, t.reading # <<>>,
         Last(t.reading) = Punct,
         s.active => t.reading = s.reading \o <<Punct>> /\ t.value = s.value
  PROVE  LET r == CommitPunctuated(s, t)
         IN  Fine(r, t.reading) /\ r.result # <<>> /\ r.s.state \notin Editing
<1> DEFINE last == <<"raw", Last(t.reading)>>
<1>1. Typed(s) /\ Work(s) /\ s \in Sessions /\ s.reading \in Seq(Chars)
  BY DEF Good, Loose, Typed, Sessions
<1>2. ASSUME NEW c, Typed(c), UndoShape(c), ~c.pending, NEW text \in Texts, text # <<>>,
             ReadingOf(text) = t.reading
      PROVE  LET r == CommitString(c, text)
             IN  Fine(r, t.reading) /\ r.result # <<>> /\ r.s.state \notin Editing
  BY <1>2, CommitStringFine DEF CommitString, Reply, Editing
<1>3. ASSUME NEW base \in Texts, ReadingOf(base) = s.reading, s.active
      PROVE  /\ Append(base, last) \in Texts /\ Append(base, last) # <<>>
             /\ ReadingOf(Append(base, last)) = t.reading
  BY <1>3, OneMore DEF Chars
<1>4. CASE Visible(s)
  <2> DEFINE a == Accepted(t, s.vvalue)
             c == ClearLive(a)
  <2>1. s.active /\ s.vvalue # <<>> /\ s.vvalue \in Texts
    BY <1>1, <1>4 DEF Visible, Sessions
  <2>2. ReadingOf(s.vvalue) = s.reading
    BY <1>1, <2>1, AsFacts DEF Work, Styles
  <2>3. OnlyFeedback(t, a)
    BY <2>1, FeedbackOnly DEF Typed
  <2> HIDE DEF a
  <2>4. Typed(c) /\ UndoShape(c) /\ ~c.pending
    BY <2>3, OnlyFeedbackKeeps, ClearLiveTyped
  <2> HIDE DEF c
  <2>5. CommitPunctuated(s, t) = CommitString(c, Append(s.vvalue, last))
    BY <1>4 DEF CommitPunctuated, c, a
  <2>6. /\ Append(s.vvalue, last) \in Texts /\ Append(s.vvalue, last) # <<>>
        /\ ReadingOf(Append(s.vvalue, last)) = t.reading
    BY <1>3, <2>1, <2>2
  <2> DEFINE text == Append(s.vvalue, last)
  <2> HIDE DEF text
  <2>7. text \in Texts /\ text # <<>> /\ ReadingOf(text) = t.reading
    BY <2>6 DEF text
  <2>8. LET r == CommitString(c, text)
        IN  Fine(r, t.reading) /\ r.result # <<>> /\ r.s.state \notin Editing
    BY <1>2, <2>4, <2>7
  <2>9. QED
    BY <2>5, <2>8 DEF text
<1>5. CASE ~Visible(s) /\ s.pending
  <2>1. CommitPunctuated(s, t) = CommitPendingDisplay(t)
    BY <1>5 DEF CommitPunctuated
  <2>2. QED
    BY <2>1, CommitPendingDisplayFine, CommitPendingDisplayResult
<1>6. CASE ~Visible(s) /\ ~s.pending /\ s.active
  <2> DEFINE c == ClearLive(t)
             text == IF t.value = <<>> THEN As("raw", t.reading) ELSE Append(t.value, last)
  <2>1. Typed(c) /\ UndoShape(c) /\ ~c.pending
    BY ClearLiveTyped
  <2>2. t.value \in Texts /\ ReadingOf(t.value) = s.reading
    BY <1>1, <1>6 DEF Typed, Sessions, Work
  <2>3. text \in Texts /\ text # <<>> /\ ReadingOf(text) = t.reading
    BY <1>3, <1>6, <2>2, DisplayFacts
  <2>4. CommitPunctuated(s, t) = CommitString(c, text)
    BY <1>6 DEF CommitPunctuated, CommitLiveResult
  <2> HIDE DEF c, text
  <2>5. QED
    BY <1>2, <2>1, <2>3, <2>4
<1>7. CASE ~Visible(s) /\ ~s.pending /\ ~s.active
  <2>1. CommitPunctuated(s, t) = CommitString(t, As("raw", t.reading))
    BY <1>7 DEF CommitPunctuated
  <2>2. QED
    BY <1>2, <2>1, DisplayFacts
<1>8. QED
  BY <1>4, <1>5, <1>6, <1>7

LEMMA CommitResponses ==
  ASSUME NEW s, NEW t, NEW text
  PROVE  /\ IsResponse(CommitString(s, text)) /\ IsResponse(CommitPendingDisplay(s))
         /\ IsResponse(CommitPunctuated(s, t)) /\ IsResponse(CommitInternal(s))
         /\ IsResponse(CommitAny(s))
<1>1. ASSUME NEW a, NEW b PROVE IsResponse(CommitString(a, b))
  BY DEF CommitString, Reply, IsResponse
<1>2. ASSUME NEW a PROVE IsResponse(CommitPendingDisplay(a))
  BY <1>1 DEF CommitPendingDisplay
<1>3. IsResponse(CommitInternal(s))
  BY DEF CommitInternal, Reply, IsResponse
<1>4. IsResponse(CommitPunctuated(s, t))
  BY <1>1, <1>2 DEF CommitPunctuated, CommitLiveResult
<1>5. IsResponse(CommitAny(s))
  BY <1>1, <1>2, <1>3 DEF CommitAny, CommitZenz
<1>6. QED
  BY <1>1, <1>2, <1>3, <1>4, <1>5

LEMMA ConfirmFacts ==
  ASSUME NEW r, IsResponse(r)
  PROVE  LET c == Confirm(r)
         IN  /\ IsResponse(c) /\ c.s = Discard(r.s) /\ c.shown = r.shown
             /\ c.result = r.result /\ c.callback = r.callback
             /\ c.recorded = Verdict(r.s.feedback)
<1> DEFINE a == r.s
           b == r.shown
           c == r.result
           d == r.callback
           e == r.recorded
           v == Verdict(r.s.feedback)
           w == Discard(r.s)
<1>1. r = [s |-> a, shown |-> b, result |-> c, callback |-> d, recorded |-> e]
  BY DEF IsResponse
<1>2. Confirm(r) = [r EXCEPT !.s = w, !.recorded = v]
  BY DEF Confirm
<1> HIDE DEF a, b, c, d, e, v, w
<1>3. Confirm(r) = [s |-> w, shown |-> b, result |-> c, callback |-> d, recorded |-> v]
  BY <1>1, <1>2
<1>4. QED
  BY <1>3 DEF IsResponse, a, b, c, d, e, v, w

\* What CommitInternal leaves of a composition.
LEMMA CommitInternalLeaves ==
  ASSUME NEW s, Typed(s), Place(s), UndoShape(s), s.state \in Editing
  PROVE  LET r == CommitInternal(s)
         IN  ~r.s.pending /\ r.s.state = "PRECOMPOSITION" /\ r.result = Display(s)
<1> DEFINE t == Precompose(PushUndo(s))
           u == Observe(t, Display(s))
<1>1. t \in Sessions /\ t.state = "PRECOMPOSITION"
  BY PushUndoFacts, PrecomposeFacts DEF Typed
<1>2. OnlyFeedback(t, u)
  BY <1>1, DisplayFacts, FeedbackOnly
<1>3. u \in Sessions /\ u.state = "PRECOMPOSITION"
  BY <1>1, <1>2 DEF OnlyFeedback, SameComposer
<1> HIDE DEF u
<1>4. ~ClearLive(u).pending /\ ClearLive(u).state = "PRECOMPOSITION"
  BY <1>3, ClearLiveFacts DEF SameComposer
<1>5. CommitInternal(s).s = ClearLive(u) /\ CommitInternal(s).result = Display(s)
  BY DEF CommitInternal, Reply, u, t
<1>6. QED
  BY <1>4, <1>5

\* The session that takes the letter: what was converted has been committed.
LEMMA BeforeFacts ==
  ASSUME Good(session), session.state # "DIRECT"
  PROVE  LET met == IF session.state = "CONVERSION" THEN Reply(session, <<>>)
                    ELSE Confirm(Reply(session, <<>>))
             t == CancelForEditing(met.s)
             before == IF t.state = "CONVERSION" THEN Confirm(CommitInternal(t))
                       ELSE [met EXCEPT !.s = t]
             b == before.s
         IN  /\ OnlyFeedback(session, met.s)
             /\ Typed(b) /\ UndoShape(b) /\ b.reading \in Readings /\ ~b.pending
             /\ before.result \in Texts
             /\ before.result = <<>> => b.reading = session.reading /\ b.cursor = session.cursor
             /\ before.result # <<>> => /\ ReadingOf(before.result) = session.reading
                                        /\ b.reading = <<>> /\ b.cursor = 0
             /\ session.state = "CONVERSION" /\ ~session.active => before.result # <<>>
             /\ session.state # "CONVERSION" => before.result = <<>>
             /\ session.active => b.value = session.value /\ before.result = <<>>
<1> DEFINE s == session
           met == IF s.state = "CONVERSION" THEN Reply(s, <<>>) ELSE Confirm(Reply(s, <<>>))
           m == met.s
           t == CancelForEditing(m)
           before == IF t.state = "CONVERSION" THEN Confirm(CommitInternal(t))
                     ELSE [met EXCEPT !.s = t]
           b == before.s
<1>1. Typed(s) /\ Place(s) /\ UndoShape(s) /\ Work(s) /\ s \in Sessions
  BY DEF Good, Loose, Typed
<1>2. (m = s \/ m = Discard(s)) /\ met.result = <<>> /\ IsResponse(met)
  BY DEF Confirm, Reply, IsResponse
<1>3. OnlyFeedback(s, m)
  <2>1. OnlyFeedback(s, s)
    BY <1>1 DEF OnlyFeedback, SameComposer, SameLive, SamePending
  <2>2. OnlyFeedback(s, Discard(s))
    BY <1>1, FeedbackOnly, NoReading
  <2>3. QED
    BY <1>2, <2>1, <2>2
<1>4. /\ Typed(m) /\ Place(m) /\ UndoShape(m) /\ m.reading = s.reading /\ m.cursor = s.cursor
      /\ m.value = s.value /\ (m.active <=> s.active) /\ m.state = s.state
  BY <1>1, <1>3, OnlyFeedbackKeeps DEF OnlyFeedback, SameComposer, SameLive
<1> HIDE DEF met, m
<1>5. /\ t \in Sessions /\ t.reading = s.reading /\ t.cursor = s.cursor /\ t.undo = m.undo
      /\ t.key = m.key /\ t.value = s.value /\ ~t.pending
      /\ s.active => t.state = "COMPOSITION"
      /\ ~s.active => t.state = s.state
  BY <1>4, CancelForEditingFacts DEF Typed
<1> HIDE DEF t
<1>6. Typed(t) /\ UndoShape(t) /\ Place(t)
  <2>1. Typed(t) /\ UndoShape(t)
    BY <1>4, <1>5 DEF Typed, UndoShape
  <2>2. s.active => s.state = "CONVERSION"
    BY <1>1 DEF Work
  <2>3. Place(t)
    BY <1>1, <1>5, <2>2 DEF Place, Editing
  <2>4. QED
    BY <2>1, <2>3
<1>7. CASE t.state # "CONVERSION"
  <2>1. b = t /\ before.result = <<>>
    BY <1>2, <1>7 DEF IsResponse
  <2>2. ~(s.state = "CONVERSION" /\ ~s.active)
    BY <1>5, <1>7
  <2>3. t.reading \in Readings
    BY <1>6 DEF Place
  <2> HIDE DEF before
  <2>4. QED
    BY <1>3, <1>5, <1>6, <2>1, <2>2, <2>3, NoReading DEF before, met, m, t
<1>8. CASE t.state = "CONVERSION"
  <2> DEFINE ci == CommitInternal(t)
  <2>1. Fine(ci, t.reading) /\ ci.s.state = "PRECOMPOSITION" /\ ~ci.s.pending
        /\ ci.result = Display(t) /\ IsResponse(ci)
    BY <1>6, <1>8, CommitInternalFine, CommitInternalLeaves, CommitResponses DEF Editing
  <2>2. Display(t) \in Texts /\ ReadingOf(Display(t)) = s.reading /\ Display(t) # <<>>
    BY <1>5, <1>6, <1>8, DisplayFacts DEF Place, Editing
  <2>3. before = Confirm(ci)
    BY <1>8
  <2> HIDE DEF ci
  <2>4. b = Discard(ci.s) /\ before.result = ci.result
    BY <2>1, <2>3, ConfirmFacts
  <2>5. Loose(ci.s)
    BY <2>1 DEF Fine
  <2> HIDE DEF before, b
  <2>6. OnlyFeedback(ci.s, b)
    BY <2>4, <2>5, FeedbackOnly, NoReading DEF Loose, Typed
  <2>7. Loose(b) /\ b.state = "PRECOMPOSITION" /\ ~b.pending
    BY <2>1, <2>5, <2>6, OnlyFeedbackKeeps DEF OnlyFeedback, SameComposer, SamePending
  <2>8. Typed(b) /\ UndoShape(b) /\ b.reading = <<>> /\ b.cursor = 0
    <3>1. Typed(b) /\ UndoShape(b) /\ b.reading = <<>>
      BY <2>7 DEF Loose, Place, Editing
    <3>2. b.cursor \in Nat /\ b.cursor <= 0
      BY <3>1, EmptySeq DEF Typed, Sessions
    <3>3. QED
      BY <3>1, <3>2
  <2>9. ~s.active /\ s.state = "CONVERSION"
    BY <1>5, <1>8
  <2>10. QED
    BY <1>3, <2>1, <2>2, <2>4, <2>7, <2>8, <2>9, NoReading DEF b, before, met, m, t
<1>9. QED
  BY <1>7, <1>8

LEMMA LastOfConcat ==
  ASSUME NEW r \in Seq(Chars), NEW x \in Chars
  PROVE  Last(r \o <<x>>) = x
<1>1. <<x>> \in Seq(Chars) /\ Len(<<x>>) = 1 /\ <<x>>[1] = x /\ Len(r) \in Nat
  BY LenProperties
<1>2. /\ Len(r \o <<x>>) = Len(r) + 1
      /\ \A i \in 1..(Len(r) + 1) : (r \o <<x>>)[i] =
           IF i <= Len(r) THEN r[i] ELSE <<x>>[i - Len(r)]
  BY <1>1, ConcatProperties
<1>3. QED
  BY <1>1, <1>2 DEF Last

LEMMA Associative ==
  \A f, g, h \in Seq(Chars) : (f \o g) \o h = f \o (g \o h)
<1> SUFFICES ASSUME NEW f \in Seq(Chars), NEW g \in Seq(Chars), NEW h \in Seq(Chars)
             PROVE  (f \o g) \o h = f \o (g \o h)
  OBVIOUS
<1> QED
  BY ConcatAssociative

\* Joining what was committed before the letter with what the letter commits.
LEMMA Joined ==
  ASSUME NEW q, IsResponse(q), NEW first \in Texts, NEW mark, NEW reading \in Seq(Chars),
         NEW x \in Chars, NEW own \in Seq(Chars), Fine(q, own),
         first = <<>> => own = reading \o <<x>>,
         first # <<>> => ReadingOf(first) = reading /\ own = <<x>>,
         q.result = <<>> => q.s.reading = own
  PROVE  LET r == [q EXCEPT !.result = first \o @, !.recorded = mark]
         IN  Fine(r, reading \o <<x>>) /\ IsResponse(r) /\ r.s = q.s
             /\ r.result = first \o q.result /\ r.recorded = mark
<1> DEFINE r == [q EXCEPT !.result = first \o @, !.recorded = mark]
           whole == reading \o <<x>>
           a == q.s
           b == q.shown
           c == q.result
           d == q.callback
           e == q.recorded
           joined == first \o c
<1>1. q = [s |-> a, shown |-> b, result |-> c, callback |-> d, recorded |-> e]
  BY DEF IsResponse
<1>2. r = [q EXCEPT !.result = joined, !.recorded = mark]
  BY <1>1
<1> HIDE DEF a, b, c, d, e, joined, r
<1>3. r = [s |-> a, shown |-> b, result |-> joined, callback |-> d, recorded |-> mark]
  BY <1>1, <1>2
<1>4. /\ r.s = q.s /\ r.shown = q.shown /\ r.callback = q.callback /\ r.recorded = mark
      /\ r.result = first \o q.result /\ IsResponse(r)
  BY <1>3 DEF IsResponse, a, b, c, d, joined
<1>5. /\ q.result \in Texts /\ Loose(q.s) /\ q.s.reading \in Seq(Chars)
      /\ q.result # <<>> => ReadingOf(q.result) \o q.s.reading = own
  <2>1. /\ q.result \in Texts /\ Loose(q.s)
        /\ q.result # <<>> => ReadingOf(q.result) \o q.s.reading = own
    BY DEF Fine
  <2>2. q.s \in Sessions
    BY <2>1 DEF Loose, Typed
  <2>3. q.s.reading \in Seq(Chars)
    BY <2>2 DEF Sessions
  <2>4. QED
    BY <2>1, <2>3
<1>6. /\ first \o q.result \in Texts
      /\ ReadingOf(first \o q.result) = ReadingOf(first) \o ReadingOf(q.result)
      /\ ReadingOf(first) \in Seq(Chars) /\ ReadingOf(q.result) \in Seq(Chars)
  BY <1>5, ReadingOfConcat, ReadingOfFacts
<1>7. ReadingOf(q.result) \o q.s.reading = own
  <2>1. CASE q.result # <<>>
    BY <1>5, <2>1
  <2>2. CASE q.result = <<>>
    <3>1. ReadingOf(q.result) = <<>>
      BY <1>5, <2>2, ReadingOfFacts
    <3>2. <<>> \o q.s.reading = q.s.reading
      BY <1>5, ConcatEmptySeq
    <3>3. QED
      BY <2>2, <3>1, <3>2
  <2>3. QED
    BY <2>1, <2>2
<1>8. ReadingOf(first \o q.result) \o q.s.reading = ReadingOf(first) \o own
  <2> DEFINE f == ReadingOf(first)
             g == ReadingOf(q.result)
             h == q.s.reading
  <2>1. f \in Seq(Chars) /\ g \in Seq(Chars) /\ h \in Seq(Chars)
    BY <1>5, <1>6
  <2> HIDE DEF f, g, h
  <2>2. (f \o g) \o h = f \o (g \o h)
    BY <2>1, Associative
  <2>3. QED
    BY <1>6, <1>7, <2>2 DEF f, g, h
<1>9. ReadingOf(first) \o own = whole
  <2>1. CASE first # <<>>
    BY <2>1
  <2>2. CASE first = <<>>
    <3>1. ReadingOf(first) = <<>>
      BY <2>2, ReadingOfFacts
    <3>2. <<>> \o own = own
      BY ConcatEmptySeq
    <3>3. QED
      BY <2>2, <3>1, <3>2
  <2>3. QED
    BY <2>1, <2>2
<1> HIDE DEF whole
<1>10. Fine(r, whole)
  BY <1>4, <1>6, <1>8, <1>9 DEF Fine
<1>11. QED
  BY <1>4, <1>10 DEF r, whole

-----------------------------------------------------------------------------
(* Feedback: the store learns only what the user did.                       *)

\* The model's texts, which no other part of a commit looks like.
OfModel(text) == text # <<>> /\ \A i \in 1..Len(text) : text[i][1] = "zenz"

\* Pending feedback, in a session of the given state, when text is what was
\* last committed and not taken back: an acceptance is of a text that stands,
\* a rejection has seen no commit or the last one.
Founded(f, state, text) ==
  f.action # "none" =>
    /\ OfModel(f.value) /\ state # "DIRECT"
    /\ f.action = "accepted" => state \notin Editing /\ IsPrefix(f.value, text)
    /\ f.action = "rejected" /\ f.final # <<>> => state \notin Editing /\ f.final = text

FeedbackInv == Founded(session.feedback, session.state, standing)

\* What FeedbackIsTrue asks of a record written together with a commit of text.
TrueRecord(f, text) ==
  f # None => IF f.action = "accepted"
              THEN IsPrefix(f.value, standing) \/ IsPrefix(f.value, text)
              ELSE f.value # IF text = <<>> THEN standing ELSE text

\* What a response makes of the feedback.
Honest(r, erases) ==
  /\ Founded(r.s.feedback, r.s.state,
             IF r.result # <<>> THEN r.result ELSE IF erases THEN <<>> ELSE standing)
  /\ TrueRecord(r.recorded, r.result)

LEMMA PrefixFacts ==
  ASSUME NEW t \in Texts, NEW x \in Chars
  PROVE  IsPrefix(t, t) /\ IsPrefix(t, Append(t, <<"raw", x>>))
<1> DEFINE e == <<"raw", x>>
           u == Append(t, e)
<1>1. Len(t) \in Nat /\ SubSeq(t, 1, Len(t)) = t
  BY LenProperties, SubSeqFull DEF Texts
<1>2. e \in Styles \X (Letters \cup {Punct})
  BY DEF Styles, Chars
<1> HIDE DEF e
<1>3. Len(u) = Len(t) + 1 /\ SubSeq(u, 1, Len(t)) = t
  BY <1>1, <1>2, AppendProperties DEF Texts
<1> HIDE DEF u
<1>4. QED
  BY <1>1, <1>3 DEF IsPrefix, u, e

LEMMA ModelTexts ==
  ASSUME NEW r \in Seq(Chars), r # <<>>
  PROVE  OfModel(As("zenz", r))
<1>1. /\ As("zenz", r) # <<>> /\ Len(As("zenz", r)) = Len(r)
      /\ \A i \in 1..Len(r) : As("zenz", r)[i] = <<"zenz", r[i]>>
  BY AsFacts DEF Styles
<1>2. \A i \in 1..Len(r) : As("zenz", r)[i][1] = "zenz"
  BY <1>1
<1>3. QED
  BY <1>1, <1>2 DEF OfModel

LEMMA NotOfModel ==
  ASSUME NEW first \in Texts, NEW x \in Chars
  PROVE  ~OfModel(first \o As("raw", <<x>>))
<1> DEFINE u == As("raw", <<x>>)
           w == first \o u
<1>1. <<x>> \in Seq(Chars) /\ Len(<<x>>) = 1 /\ <<x>>[1] = x
  OBVIOUS
<1>2. u \in Texts /\ Len(u) = 1 /\ u[1] = <<"raw", x>>
  <2>1. "raw" \in Styles
    BY DEF Styles
  <2>2. /\ u \in Texts /\ Len(u) = Len(<<x>>)
        /\ \A i \in 1..Len(<<x>>) : u[i] = <<"raw", <<x>>[i]>>
    BY <1>1, <2>1, AsFacts
  <2> HIDE DEF u
  <2>3. 1 \in 1..Len(<<x>>)
    BY <1>1
  <2>4. u[1] = <<"raw", <<x>>[1]>>
    BY <2>2, <2>3
  <2>5. QED
    BY <1>1, <2>2, <2>4
<1> HIDE DEF u
<1>3. Len(first) \in Nat
  BY LenProperties DEF Texts
<1>4. Len(w) = Len(first) + 1 /\ w[Len(first) + 1] = u[1]
  <2>1. /\ Len(w) = Len(first) + Len(u)
        /\ \A i \in 1..(Len(first) + Len(u)) : w[i] =
             IF i <= Len(first) THEN first[i] ELSE u[i - Len(first)]
    BY <1>2, ConcatProperties DEF Texts
  <2> HIDE DEF w
  <2>2. Len(first) + 1 \in 1..(Len(first) + Len(u)) /\ ~(Len(first) + 1 <= Len(first))
        /\ (Len(first) + 1) - Len(first) = 1
    BY <1>2, <1>3
  <2>3. QED
    BY <1>2, <2>1, <2>2
<1> HIDE DEF w
<1>5. w[Len(first) + 1][1] # "zenz"
  BY <1>2, <1>4
<1>6. QED
  BY <1>3, <1>4, <1>5 DEF OfModel, w, u

\* What a commit makes of the feedback: a rejection has seen the text.
Committed(r, s) ==
  /\ IsResponse(r) /\ r.recorded = None
  /\ r.result = <<>> => r.s.feedback = s.feedback /\ r.s.state = s.state
  /\ r.result # <<>> =>
       /\ r.s.state = "PRECOMPOSITION"
       /\ r.s.feedback = IF s.feedback.action = "rejected"
                         THEN [s.feedback EXCEPT !.final = r.result] ELSE s.feedback

LEMMA ObserveFacts ==
  ASSUME NEW s \in Sessions, s.state = "PRECOMPOSITION", NEW text
  PROVE  Observe(s, text).feedback = IF s.feedback.action = "rejected"
                                     THEN [s.feedback EXCEPT !.final = text] ELSE s.feedback
BY DEF Observe, Sessions

LEMMA CommitStringCommits ==
  ASSUME NEW s \in Sessions, NEW text \in Texts
  PROVE  Committed(CommitString(s, text), s) /\ CommitString(s, text).result = text
<1> DEFINE r == CommitString(s, text)
           t == Precompose(s)
           u == Observe(t, text)
<1>1. IsResponse(r)
  BY CommitResponses
<1>2. CASE text = <<>>
  BY <1>1, <1>2 DEF CommitString, Reply, Committed
<1>3. CASE text # <<>>
  <2>1. r.s = u /\ r.result = text /\ r.recorded = None
    BY <1>3 DEF CommitString, Reply
  <2>2. t \in Sessions /\ t.state = "PRECOMPOSITION" /\ t.feedback = s.feedback
    BY PrecomposeFacts
  <2>3. u.state = "PRECOMPOSITION"
    BY <2>2, FeedbackOnly DEF OnlyFeedback, SameComposer
  <2>4. u.feedback = IF s.feedback.action = "rejected"
                     THEN [s.feedback EXCEPT !.final = text] ELSE s.feedback
    BY <2>2, ObserveFacts
  <2> HIDE DEF r, t, u
  <2>5. Committed(r, s)
    BY <1>1, <1>3, <2>1, <2>3, <2>4 DEF Committed
  <2>6. QED
    BY <2>1, <2>5 DEF r
<1>4. QED
  BY <1>2, <1>3

LEMMA CommitPendingCommits ==
  ASSUME NEW s, Typed(s)
  PROVE  Committed(CommitPendingDisplay(s), s)
<1> DEFINE t == ClearLive(s)
           text == IF PendingDisplay(s) = <<>> THEN As("raw", s.reading)
                   ELSE PendingDisplay(s)
           r == CommitString(t, text)
<1>1. t \in Sessions /\ t.state = s.state /\ t.feedback = s.feedback
  BY ClearLiveFacts DEF Typed, SameComposer
<1>2. text \in Texts
  BY DisplayFacts, PendingDisplayFacts
<1>3. CommitPendingDisplay(s) = r
  BY DEF CommitPendingDisplay
<1> HIDE DEF t, text
<1>4. Committed(r, t)
  BY <1>1, <1>2, CommitStringCommits
<1>5. QED
  BY <1>1, <1>3, <1>4 DEF Committed

LEMMA CommitInternalCommits ==
  ASSUME NEW s, Typed(s), Place(s), UndoShape(s)
  PROVE  Committed(CommitInternal(s), s)
<1> DEFINE r == CommitInternal(s)
           p == PushUndo(s)
           t == Precompose(p)
           u == Observe(t, Display(s))
           v == ClearLive(u)
<1>1. IsResponse(r) /\ r.recorded = None
  BY CommitResponses DEF CommitInternal, Reply
<1>2. CASE s.state \notin Editing
  BY <1>1, <1>2 DEF CommitInternal, Reply, Committed
<1>3. CASE s.state \in Editing
  <2>1. r.s = v /\ r.result = Display(s)
    BY <1>3 DEF CommitInternal, Reply
  <2>2. Display(s) \in Texts /\ Display(s) # <<>>
    BY <1>3, DisplayFacts DEF Place
  <2>3. p \in Sessions /\ p.feedback = s.feedback
    BY PushUndoFacts DEF Typed
  <2>4. t \in Sessions /\ t.state = "PRECOMPOSITION" /\ t.feedback = s.feedback
    BY <2>3, PrecomposeFacts
  <2> HIDE DEF p, t
  <2>5. u \in Sessions /\ u.state = "PRECOMPOSITION"
    BY <2>2, <2>4, FeedbackOnly DEF OnlyFeedback, SameComposer
  <2>6. u.feedback = IF s.feedback.action = "rejected"
                     THEN [s.feedback EXCEPT !.final = Display(s)] ELSE s.feedback
    BY <2>4, ObserveFacts
  <2> HIDE DEF u
  <2>7. v.state = "PRECOMPOSITION" /\ v.feedback = u.feedback
    BY <2>5, ClearLiveFacts DEF SameComposer
  <2> HIDE DEF v, r
  <2>8. Committed(r, s)
    BY <1>1, <2>1, <2>2, <2>6, <2>7 DEF Committed
  <2>9. QED
    BY <2>8 DEF r
<1>4. QED
  BY <1>2, <1>3

LEMMA CommitZenzCommits ==
  ASSUME NEW s, Good(s), Visible(s)
  PROVE  LET r == CommitZenz(s)
         IN  /\ IsResponse(r) /\ r.recorded = None /\ r.result = s.vvalue
             /\ r.s.state = "PRECOMPOSITION" /\ r.s.feedback.action = "accepted"
             /\ r.s.feedback.value = s.vvalue /\ r.s.feedback.final = <<>>
<1> DEFINE t == Accepted(s, s.vvalue)
           u == ClearLive(t)
           r == CommitString(u, s.vvalue)
           f == [action |-> "accepted", value |-> s.vvalue, final |-> <<>>]
<1>1. s \in Sessions /\ s.vvalue \in Texts /\ s.vvalue # <<>>
  BY DEF Good, Loose, Typed, Visible, Sessions
<1>2. t \in Sessions /\ t.feedback = f
  <2>1. t \in Sessions
    BY <1>1, FeedbackOnly DEF OnlyFeedback
  <2>2. QED
    BY <1>1, <2>1 DEF Accepted, Sessions
<1> HIDE DEF t
<1>3. u \in Sessions /\ u.feedback = f
  BY <1>2, ClearLiveFacts
<1> HIDE DEF u
<1>4. Committed(r, u) /\ r.result = s.vvalue
  BY <1>1, <1>3, CommitStringCommits
<1>5. CommitZenz(s) = r
  BY DEF CommitZenz, u, t
<1> HIDE DEF r
<1>6. IsResponse(r) /\ r.recorded = None /\ r.s.state = "PRECOMPOSITION" /\ r.s.feedback = f
  BY <1>1, <1>3, <1>4 DEF Committed
<1>7. QED
  BY <1>4, <1>5, <1>6

LEMMA CommitAnyCommits ==
  ASSUME NEW s, Typed(s), Place(s), UndoShape(s), ~Visible(s)
  PROVE  Committed(CommitAny(s), s)
<1>1. CASE s.pending
  <2> DEFINE t == PushUndo(s)
  <2>1. Typed(t) /\ t.state = s.state /\ t.feedback = s.feedback
    BY PushUndoFacts
  <2> HIDE DEF t
  <2>2. Committed(CommitPendingDisplay(t), t)
    BY <2>1, CommitPendingCommits
  <2>3. CommitAny(s) = CommitPendingDisplay(t)
    BY <1>1 DEF CommitAny, t
  <2>4. QED
    BY <2>1, <2>2, <2>3 DEF Committed
<1>2. CASE ~s.pending
  BY <1>2, CommitInternalCommits DEF CommitAny
<1>3. QED
  BY <1>1, <1>2

LEMMA CommittedHonest ==
  ASSUME NEW s, Typed(s), Place(s), Founded(s.feedback, s.state, standing), NEW r,
         Committed(r, s), Fine(r, s.reading)
  PROVE  Honest(r, FALSE) /\ TrueRecord(Verdict(r.s.feedback), r.result)
<1> DEFINE f == s.feedback
           g == r.s.feedback
<1>1. f \in Feedbacks
  BY DEF Typed, Sessions
<1>2. CASE r.result = <<>>
  <2>1. g = f /\ r.s.state = s.state /\ r.recorded = None
    BY <1>2 DEF Committed
  <2>2. Honest(r, FALSE)
    BY <1>2, <2>1 DEF Honest, TrueRecord
  <2>3. TrueRecord(Verdict(f), <<>>)
    <3>1. CASE f.action = "accepted"
      <4>1. IsPrefix(f.value, standing)
        BY <3>1 DEF Founded
      <4>2. Verdict(f) = [action |-> f.action, value |-> f.value]
        BY <3>1 DEF Verdict
      <4>3. Verdict(f).action = "accepted" /\ Verdict(f).value = f.value
        BY <3>1, <4>2
      <4>4. QED
        BY <4>1, <4>3 DEF TrueRecord
    <3>2. CASE f.action = "rejected" /\ f.final # <<>> /\ f.final # f.value
      <4>1. f.final = standing
        BY <3>2 DEF Founded
      <4>2. Verdict(f) = [action |-> f.action, value |-> f.value]
        BY <3>2 DEF Verdict
      <4>3. QED
        BY <3>2, <4>1, <4>2 DEF TrueRecord
    <3>3. CASE ~(f.action = "accepted")
               /\ ~(f.action = "rejected" /\ f.final # <<>> /\ f.final # f.value)
      <4>1. Verdict(f) = None
        BY <3>3 DEF Verdict
      <4>2. QED
        BY <4>1 DEF TrueRecord
    <3>4. QED
      BY <3>1, <3>2, <3>3
  <2>4. QED
    BY <1>2, <2>1, <2>2, <2>3
<1>3. CASE r.result # <<>>
  <2>1. s.state \in Editing
    <3>1. /\ r.result \in Texts /\ Loose(r.s) /\ s.reading \in Seq(Chars)
          /\ ReadingOf(r.result) \o r.s.reading = s.reading
      BY <1>3 DEF Fine, Typed, Sessions
    <3>2. r.s.reading \in Seq(Chars)
      BY <3>1 DEF Loose, Typed, Sessions
    <3>3. ReadingOf(r.result) \in Seq(Chars) /\ ReadingOf(r.result) # <<>>
      BY <1>3, <3>1, ReadingOfFacts
    <3>4. s.reading # <<>>
      <4> DEFINE a == ReadingOf(r.result)
                 b == r.s.reading
      <4>1. a \in Seq(Chars) /\ a # <<>> /\ b \in Seq(Chars)
        BY <3>2, <3>3
      <4> HIDE DEF a, b
      <4>2. Len(a \o b) = Len(a) + Len(b)
        BY <4>1, ConcatProperties
      <4>3. Len(a) \in Nat \ {0} /\ Len(b) \in Nat
        BY <4>1, EmptySeq, LenProperties
      <4>4. a \o b # <<>>
        BY <4>2, <4>3, EmptySeq
      <4>5. QED
        BY <3>1, <4>4 DEF a, b
    <3>5. QED
      BY <3>4 DEF Place
  <2>2. /\ r.s.state = "PRECOMPOSITION" /\ r.recorded = None
        /\ f.action = "rejected" => g = [f EXCEPT !.final = r.result]
        /\ f.action # "rejected" => g = f
    BY <1>3 DEF Committed
  <2>3. f.action # "accepted"
    BY <2>1 DEF Founded
  <2>4. CASE f.action = "rejected"
    <3>1. g.action = "rejected" /\ g.value = f.value /\ g.final = r.result
      BY <1>1, <2>2, <2>4 DEF Feedbacks
    <3> HIDE DEF g
    <3>2. OfModel(f.value)
      BY <2>4 DEF Founded
    <3>3. Founded(g, r.s.state, r.result)
      BY <2>2, <3>1, <3>2 DEF Founded, Editing
    <3>4. Honest(r, FALSE)
      BY <1>3, <2>2, <3>3 DEF Honest, TrueRecord, g
    <3>5. CASE g.final = g.value
      <4>1. Verdict(g) = None
        BY <3>1, <3>5 DEF Verdict
      <4>2. QED
        BY <3>4, <4>1 DEF TrueRecord, g
    <3>6. CASE g.final # g.value
      <4>1. Verdict(g) = [action |-> g.action, value |-> g.value]
        BY <1>3, <3>1, <3>6 DEF Verdict
      <4>2. TrueRecord(Verdict(g), r.result)
        BY <1>3, <3>1, <3>6, <4>1 DEF TrueRecord
      <4>3. QED
        BY <3>4, <4>2 DEF g
    <3>7. QED
      BY <3>4, <3>5, <3>6 DEF g
  <2>5. CASE f.action = "none"
    <3>1. g = f
      BY <2>2, <2>5
    <3>2. Verdict(g) = None
      BY <2>5, <3>1 DEF Verdict
    <3>3. Founded(g, r.s.state, r.result)
      BY <2>5, <3>1 DEF Founded
    <3>4. QED
      BY <1>3, <2>2, <3>2, <3>3 DEF Honest, TrueRecord
  <2>6. QED
    BY <1>1, <2>3, <2>4, <2>5 DEF Feedbacks
<1>4. QED
  BY <1>2, <1>3

LEMMA VisibleText ==
  ASSUME NEW s, Good(s), Visible(s)
  PROVE  s.vvalue \in Texts /\ s.vvalue # <<>> /\ OfModel(s.vvalue) /\ s.state = "CONVERSION"
<1>1. /\ s.vvalue \in Texts /\ s.vvalue # <<>> /\ s.reading \in Seq(Chars)
      /\ s.state = "CONVERSION"
  BY DEF Good, Loose, Typed, Visible, Sessions
<1>2. s.vvalue = As("zenz", s.reading) /\ s.reading # <<>>
  BY <1>1 DEF Good, Loose, Work, Place, Editing
<1>3. QED
  BY <1>1, <1>2, ModelTexts

LEMMA CommitZenzHonest ==
  ASSUME NEW s, Good(s), Visible(s)
  PROVE  LET r == CommitZenz(s)
         IN  Honest(r, FALSE) /\ TrueRecord(Verdict(r.s.feedback), r.result)
<1> DEFINE r == CommitZenz(s)
<1>1. s.vvalue \in Texts /\ s.vvalue # <<>> /\ OfModel(s.vvalue)
  BY VisibleText
<1>2. /\ IsResponse(r) /\ r.recorded = None /\ r.result = s.vvalue
      /\ r.s.state = "PRECOMPOSITION" /\ r.s.feedback.action = "accepted"
      /\ r.s.feedback.value = s.vvalue /\ r.s.feedback.final = <<>>
  BY CommitZenzCommits
<1> HIDE DEF r
<1>3. IsPrefix(s.vvalue, s.vvalue)
  BY <1>1, PrefixFacts DEF Chars
<1>4. Founded(r.s.feedback, r.s.state, r.result)
  BY <1>1, <1>2, <1>3 DEF Founded, Editing
<1>5. Honest(r, FALSE)
  BY <1>1, <1>2, <1>4 DEF Honest, TrueRecord
<1>6. Verdict(r.s.feedback) = [action |-> "accepted", value |-> s.vvalue]
  BY <1>2 DEF Verdict
<1>7. TrueRecord(Verdict(r.s.feedback), r.result)
  BY <1>2, <1>3, <1>6 DEF TrueRecord
<1>8. QED
  BY <1>5, <1>7 DEF r

LEMMA CommitAnyHonest ==
  ASSUME NEW s, Good(s), Founded(s.feedback, s.state, standing)
  PROVE  LET r == CommitAny(s)
         IN  Honest(r, FALSE) /\ TrueRecord(Verdict(r.s.feedback), r.result)
<1>1. CASE Visible(s)
  BY <1>1, CommitZenzHonest DEF CommitAny
<1>2. CASE ~Visible(s)
  <2>1. Typed(s) /\ Place(s) /\ UndoShape(s) /\ Loose(s)
    BY DEF Good, Loose
  <2>2. Committed(CommitAny(s), s)
    BY <1>2, <2>1, CommitAnyCommits
  <2>3. Fine(CommitAny(s), s.reading)
    BY <2>1, CommitAnyFine
  <2>4. QED
    BY <2>1, <2>2, <2>3, CommittedHonest
<1>3. QED
  BY <1>1, <1>2

LEMMA FoundedMoves ==
  ASSUME NEW f, NEW state, NEW other, Founded(f, state, standing),
         other \in Editing => state \in Editing, other # "DIRECT"
  PROVE  Founded(f, other, standing)
BY DEF Founded

LEMMA ReplyHonest ==
  ASSUME NEW s, NEW text, Founded(s.feedback, s.state, standing)
  PROVE  Honest(Reply(s, text), FALSE)
BY DEF Honest, Reply, TrueRecord

LEMMA ReplyForgets ==
  ASSUME NEW s, NEW text, NEW erases, s.feedback.action = "none"
  PROVE  Honest(Reply(s, text), erases)
BY DEF Honest, Reply, TrueRecord, Founded

LEMMA SilentHonest ==
  ASSUME NEW s, NEW r, Silent(r, s)
  PROVE  /\ s.state \in Editing /\ Founded(s.feedback, s.state, standing) => Honest(r, FALSE)
         /\ s.feedback.action = "none" => Honest(r, FALSE)
BY DEF Silent, Honest, Founded, TrueRecord, Editing

\* What the feedback that stands lets Confirm record.
LEMMA VerdictStands ==
  ASSUME NEW f \in Feedbacks, NEW state, Founded(f, state, standing)
  PROVE  /\ TrueRecord(Verdict(f), <<>>)
         /\ state \in Editing => Verdict(f) = None
         /\ Verdict(f) # None => /\ OfModel(Verdict(f).value)
                                 /\ Verdict(f).action = "accepted"
                                      => IsPrefix(Verdict(f).value, standing)
<1>1. CASE f.action = "accepted"
            \/ (f.action = "rejected" /\ f.final # <<>> /\ f.final # f.value)
  <2>1. Verdict(f) = [action |-> f.action, value |-> f.value]
    BY <1>1 DEF Verdict
  <2>2. Verdict(f).action = f.action /\ Verdict(f).value = f.value
    BY <2>1
  <2>3. /\ state \notin Editing /\ OfModel(f.value)
        /\ f.action = "accepted" => IsPrefix(f.value, standing)
        /\ f.action # "accepted" => f.value # standing
    BY <1>1 DEF Founded
  <2>4. TrueRecord(Verdict(f), <<>>)
    <3>1. CASE f.action = "accepted"
      BY <2>2, <2>3, <3>1 DEF TrueRecord
    <3>2. CASE f.action # "accepted"
      BY <2>2, <2>3, <3>2 DEF TrueRecord
    <3>3. QED
      BY <3>1, <3>2
  <2>5. QED
    BY <2>2, <2>3, <2>4
<1>2. CASE ~(f.action = "accepted"
            \/ (f.action = "rejected" /\ f.final # <<>> /\ f.final # f.value))
  <2> DEFINE v == Verdict(f)
  <2>1. v = None
    BY <1>2 DEF Verdict
  <2> HIDE DEF v
  <2>2. TrueRecord(v, <<>>)
    BY <2>1 DEF TrueRecord
  <2>3. QED
    BY <2>1, <2>2 DEF v
<1>3. QED
  BY <1>1, <1>2

LEMMA RejectedFounded ==
  ASSUME NEW s, Good(s), Founded(s.feedback, s.state, standing)
  PROVE  Founded(Rejected(s).feedback, s.state, standing)
<1>1. CASE ~Visible(s)
  BY <1>1 DEF Rejected
<1>2. CASE Visible(s)
  <2> DEFINE f == [action |-> "rejected", value |-> s.vvalue, final |-> <<>>]
  <2>1. OfModel(s.vvalue) /\ s.state = "CONVERSION"
    BY <1>2, VisibleText
  <2>2. Rejected(s).feedback = f
    BY <1>2 DEF Rejected, Good, Loose, Typed, Sessions
  <2>3. f.action = "rejected" /\ f.value = s.vvalue /\ f.final = <<>>
    OBVIOUS
  <2> HIDE DEF f
  <2>4. QED
    BY <2>1, <2>2, <2>3 DEF Founded
<1>3. QED
  BY <1>1, <1>2

LEMMA PromoteFounded ==
  ASSUME NEW s, Good(s), Founded(s.feedback, s.state, standing)
  PROVE  Founded(Promote(s).feedback, Promote(s).state, standing)
<1>1. CASE ~s.active
  BY <1>1 DEF Promote
<1>2. CASE s.active
  <2> DEFINE z == Rejected(s)
             c == ClearZenz(z)
  <2>1. z \in Sessions /\ z.state = s.state
    BY FeedbackOnly, NoReading DEF Good, Loose, Typed, OnlyFeedback, SameComposer
  <2>2. Founded(z.feedback, s.state, standing)
    BY RejectedFounded
  <2> HIDE DEF z
  <2>3. c \in Sessions /\ c.state = s.state /\ c.feedback = z.feedback
    BY <2>1, ClearZenzFacts DEF SameComposer
  <2>4. Promote(s) = [c EXCEPT !.active = FALSE]
    BY <1>2 DEF Promote, z
  <2> HIDE DEF c
  <2>5. Promote(s).state = c.state /\ Promote(s).feedback = c.feedback
    BY <2>3, <2>4 DEF Sessions
  <2>6. QED
    BY <2>2, <2>3, <2>5
<1>3. QED
  BY <1>1, <1>2

LEMMA CandidatesHonest ==
  ASSUME NEW s, Good(s), s.state \in Editing, Founded(s.feedback, s.state, standing),
         NEW styles, NEW r \in Candidates(s, styles)
  PROVE  Honest(r, FALSE)
<1>1. PICK style \in styles :
        LET t == [s EXCEPT !.state = "CONVERSION", !.conv = style] IN r = Reply(t, Display(t))
  BY DEF Candidates
<1> DEFINE t == [s EXCEPT !.state = "CONVERSION", !.conv = style]
<1>2. t.state = "CONVERSION" /\ t.feedback = s.feedback
  BY DEF Good, Loose, Typed, Sessions
<1>3. r = Reply(t, Display(t))
  BY <1>1
<1> HIDE DEF t
<1>4. Founded(t.feedback, t.state, standing)
  BY <1>2, FoundedMoves
<1>5. QED
  BY <1>3, <1>4, ReplyHonest

LEMMA ComposeHonest ==
  ASSUME NEW s, Founded(s.feedback, s.state, standing), NEW r \in Compose(s)
  PROVE  Honest(r, FALSE)
BY ReplyHonest DEF Compose

LEMMA EraseHonest ==
  ASSUME NEW s \in Sessions, NEW erases
  PROVE  Honest(Erase(s), erases)
<1> DEFINE t == [Discard(s) EXCEPT !.undo = None]
<1>1. t.feedback = NoFeedback
  BY DEF Discard, Sessions
<1> HIDE DEF t
<1>2. t.feedback.action = "none"
  BY <1>1 DEF NoFeedback
<1>3. QED
  BY <1>2, ReplyForgets DEF Erase, t

\* What a Discard has taken away stays away.
LEMMA DiscardForgets ==
  ASSUME NEW s \in Sessions
  PROVE  /\ Discard(s) \in Sessions /\ Discard(s).feedback = NoFeedback
         /\ Discard(s).feedback.action = "none"
<1>1. Discard(s) \in Sessions
  BY FeedbackOnly, NoReading DEF OnlyFeedback
<1>2. Discard(s).feedback = NoFeedback
  BY DEF Discard, Sessions
<1>3. QED
  BY <1>1, <1>2 DEF NoFeedback

LEMMA ConvertCancelHonest ==
  ASSUME NEW s \in Sessions, NEW r \in ConvertCancel(s)
  PROVE  Honest(r, FALSE)
<1> DEFINE d == Discard(s)
           c == ClearLive(d)
           t == [c EXCEPT !.state = "COMPOSITION", !.conv = "raw"]
<1>1. d \in Sessions /\ d.feedback.action = "none"
  BY DiscardForgets
<1> HIDE DEF d
<1>2. c \in Sessions /\ c.feedback = d.feedback
  BY <1>1, ClearLiveFacts
<1> HIDE DEF c
<1>3. t.feedback = c.feedback
  BY <1>2 DEF Sessions
<1>4. r = Reply(t, As("raw", t.reading))
  BY DEF ConvertCancel, Compose, t, c, d
<1> HIDE DEF t
<1>5. QED
  BY <1>1, <1>2, <1>3, <1>4, ReplyForgets

LEMMA TurnedOffHonest ==
  ASSUME NEW s, Good(s), Founded(s.feedback, s.state, standing)
  PROVE  Honest(TurnedOff(s), FALSE)
<1> DEFINE t == [s EXCEPT !.undo = None]
           r == CommitAny(t)
           c == Confirm(r)
           p == Precompose(c.s)
           v == [p EXCEPT !.state = "DIRECT"]
           q == TurnedOff(s)
<1>1. Typed(s) /\ Place(s) /\ Pend(s) /\ Work(s)
  BY DEF Good, Loose
<1>2. /\ Typed(t) /\ Place(t) /\ UndoShape(t) /\ Pend(t) /\ Undone(t) /\ Work(t)
      /\ t.state = s.state /\ t.feedback = s.feedback
  BY <1>1, ForgetUndoKeeps
<1>3. Good(t)
  BY <1>2 DEF Good, Loose
<1>4. q = [c EXCEPT !.s = v, !.shown = <<>>]
  BY DEF TurnedOff
<1> HIDE DEF t
<1>5. TrueRecord(Verdict(r.s.feedback), r.result)
  BY <1>2, <1>3, CommitAnyHonest
<1>6. Fine(r, t.reading) /\ IsResponse(r)
  BY <1>2, <1>3, CommitAnyFine, CommitResponses DEF Good
<1>7. r.s \in Sessions
  BY <1>6 DEF Fine, Loose, Typed
<1> HIDE DEF r
<1>8. /\ IsResponse(c) /\ c.s = Discard(r.s) /\ c.result = r.result
      /\ c.recorded = Verdict(r.s.feedback)
  BY <1>6, ConfirmFacts
<1> HIDE DEF c
<1>9. p \in Sessions /\ p.feedback = NoFeedback
  BY <1>7, <1>8, DiscardForgets, PrecomposeFacts
<1> HIDE DEF p
<1>10. v.feedback = NoFeedback
  BY <1>9 DEF Sessions
<1> HIDE DEF v, q
<1>11. q.s = v /\ q.result = c.result /\ q.recorded = c.recorded
  BY <1>4, <1>8 DEF IsResponse
<1>12. Founded(q.s.feedback, q.s.state, IF q.result # <<>> THEN q.result ELSE standing)
  BY <1>10, <1>11 DEF Founded, NoFeedback
<1>13. QED
  BY <1>5, <1>8, <1>11, <1>12 DEF Honest, q

\* What is recorded before a letter enters the composer, of which text, and
\* what is left pending.
LEMMA BeforeFeedback ==
  ASSUME Good(session), session.state # "DIRECT",
         Founded(session.feedback, session.state, standing)
  PROVE  LET met == IF session.state = "CONVERSION" THEN Reply(session, <<>>)
                    ELSE Confirm(Reply(session, <<>>))
             t == CancelForEditing(met.s)
             before == IF t.state = "CONVERSION" THEN Confirm(CommitInternal(t))
                       ELSE [met EXCEPT !.s = t]
             b == before.s
             f == before.recorded
         IN  /\ session.active => b.feedback = session.feedback /\ f = None
             /\ ~session.active => b.feedback = NoFeedback
             /\ session.state # "CONVERSION" => met.s.feedback = NoFeedback
             /\ TrueRecord(f, before.result)
             /\ f # None => /\ b.reading = <<>> /\ OfModel(f.value)
                            /\ f.action = "accepted" => IsPrefix(f.value, standing)
<1> DEFINE s == session
           met == IF s.state = "CONVERSION" THEN Reply(s, <<>>) ELSE Confirm(Reply(s, <<>>))
           m == met.s
           t == CancelForEditing(m)
           before == IF t.state = "CONVERSION" THEN Confirm(CommitInternal(t))
                     ELSE [met EXCEPT !.s = t]
           b == before.s
           f == before.recorded
<1>1. Typed(s) /\ Place(s) /\ UndoShape(s) /\ Work(s) /\ s \in Sessions /\ s.feedback \in Feedbacks
  BY DEF Good, Loose, Typed, Sessions
<1>2. CASE s.state # "CONVERSION"
  <2>1. /\ IsResponse(met) /\ m = Discard(s) /\ met.result = <<>>
        /\ met.recorded = Verdict(s.feedback)
    BY <1>2 DEF Confirm, Reply, IsResponse
  <2> HIDE DEF met
  <2>2. m \in Sessions /\ m.feedback = NoFeedback /\ SameComposer(s, m) /\ (m.active <=> s.active)
    BY <1>1, <2>1, DiscardForgets, FeedbackOnly, NoReading DEF OnlyFeedback, SameLive
  <2>3. ~s.active /\ ~m.active
    BY <1>1, <1>2, <2>2 DEF Work
  <2> HIDE DEF m
  <2>4. t.state = s.state /\ t.feedback = NoFeedback /\ t.reading = s.reading
    BY <2>2, <2>3, CancelForEditingFacts DEF SameComposer
  <2> HIDE DEF t
  <2>5. b = t /\ f = Verdict(s.feedback) /\ before.result = <<>>
    BY <1>2, <2>1, <2>4 DEF IsResponse
  <2> HIDE DEF before, b, f
  <2>6. TrueRecord(f, <<>>)
    BY <1>1, <2>5, VerdictStands
  <2>7. ASSUME f # None
        PROVE  /\ b.reading = <<>> /\ OfModel(f.value)
               /\ f.action = "accepted" => IsPrefix(f.value, standing)
    <3>1. /\ s.state \notin Editing /\ OfModel(f.value)
          /\ f.action = "accepted" => IsPrefix(f.value, standing)
      BY <1>1, <2>5, <2>7, VerdictStands
    <3>2. s.reading = <<>>
      BY <1>1, <3>1 DEF Place
    <3>3. QED
      BY <2>4, <2>5, <3>1, <3>2
  <2>8. QED
    BY <1>2, <2>2, <2>3, <2>4, <2>5, <2>6, <2>7 DEF b, f, before, t, m, met
<1>3. CASE s.state = "CONVERSION"
  <2>1. met = Reply(s, <<>>) /\ m = s /\ met.result = <<>> /\ met.recorded = None /\ IsResponse(met)
    BY <1>3 DEF Reply, IsResponse
  <2> HIDE DEF met
  <2>2. /\ t \in Sessions /\ t.reading = s.reading /\ t.cursor = s.cursor /\ t.undo = s.undo
        /\ t.feedback = s.feedback /\ t.key = s.key /\ t.value = s.value
        /\ s.active => t.state = "COMPOSITION"
        /\ ~s.active => t.state = s.state
    BY <1>1, <2>1, CancelForEditingFacts
  <2> HIDE DEF m, t
  <2>3. CASE s.active
    <3>1. b = t /\ f = None /\ before.result = <<>>
      BY <2>1, <2>2, <2>3 DEF IsResponse
    <3> HIDE DEF b, f, before
    <3>2. TrueRecord(f, before.result)
      BY <3>1 DEF TrueRecord
    <3>3. QED
      BY <1>3, <2>2, <2>3, <3>1, <3>2 DEF b, f, before, t, m, met
  <2>4. CASE ~s.active
    <3> DEFINE ci == CommitInternal(t)
    <3>1. Typed(t) /\ Place(t) /\ UndoShape(t) /\ t.state \in Editing
      BY <1>1, <1>3, <2>2, <2>4 DEF Typed, Place, UndoShape, Editing
    <3>2. Fine(ci, t.reading) /\ Committed(ci, t) /\ IsResponse(ci)
      BY <3>1, CommitInternalFine, CommitInternalCommits, CommitResponses
    <3>3. ci.result = Display(t) /\ Display(t) # <<>> /\ ci.s.state = "PRECOMPOSITION"
      BY <3>1, CommitInternalLeaves, DisplayFacts DEF Place
    <3>4. before = Confirm(ci)
      BY <1>3, <2>2, <2>4
    <3> HIDE DEF ci
    <3>5. b = Discard(ci.s) /\ f = Verdict(ci.s.feedback) /\ before.result = ci.result
      BY <3>2, <3>4, ConfirmFacts
    <3>6. Founded(t.feedback, t.state, standing)
      BY <1>3, <2>2, <2>4
    <3>7. TrueRecord(Verdict(ci.s.feedback), ci.result)
      BY <3>1, <3>2, <3>6, CommittedHonest
    <3>8. ci.s \in Sessions /\ ci.s.reading = <<>>
      BY <3>2, <3>3 DEF Fine, Loose, Typed, Place, Editing
    <3> HIDE DEF before, b, f
    <3>9. /\ b.feedback = NoFeedback /\ b.reading = <<>>
      BY <3>5, <3>8, DiscardForgets, FeedbackOnly, NoReading DEF OnlyFeedback, SameComposer
    <3>10. ASSUME f # None
           PROVE  OfModel(f.value) /\ f.action # "accepted"
      <4> DEFINE g == ci.s.feedback
                 h == t.feedback
      <4>1. /\ h.action = "rejected" => g = [h EXCEPT !.final = ci.result]
            /\ h.action # "rejected" => g = h
        BY <3>2, <3>3 DEF Committed
      <4>2. h \in Feedbacks /\ h.action # "accepted" /\ Founded(h, t.state, standing)
        BY <1>1, <2>2, <3>1, <3>6 DEF Founded
      <4> HIDE DEF g, h
      <4>3. f = Verdict(g)
        BY <3>5 DEF g
      <4>4. CASE h.action = "rejected"
        <5>1. g.action = "rejected" /\ g.value = h.value
          BY <4>1, <4>2, <4>4 DEF Feedbacks
        <5>2. f = [action |-> g.action, value |-> g.value]
          BY <3>10, <4>3 DEF Verdict
        <5>3. f.action = "rejected" /\ f.value = h.value
          BY <5>1, <5>2
        <5>4. OfModel(h.value)
          BY <4>2, <4>4 DEF Founded
        <5>5. QED
          BY <5>3, <5>4
      <4>5. CASE h.action = "none"
        <5>1. Verdict(g) = None
          BY <4>1, <4>5 DEF Verdict
        <5>2. QED
          BY <3>10, <4>3, <5>1
      <4>6. QED
        BY <4>2, <4>4, <4>5 DEF Feedbacks
    <3>11. TrueRecord(f, before.result)
      BY <3>5, <3>7
    <3>12. QED
      BY <1>3, <2>4, <3>9, <3>10, <3>11 DEF b, f, before, t, m, met
  <2>5. QED
    BY <2>3, <2>4
<1>4. QED
  BY <1>2, <1>3

\* Punctuation that starts a composition is committed as it is.
LEMMA RawPunctuation ==
  ASSUME NEW s, ~Visible(s), ~s.active, NEW t, Typed(t), t.key = <<>>, t.value = <<>>
  PROVE  CommitPunctuated(s, t).result = As("raw", t.reading)
<1> DEFINE text == As("raw", t.reading)
<1>1. text \in Texts /\ t \in Sessions /\ t.reading \in Seq(Chars)
  BY DisplayFacts DEF Typed, Sessions
<1>2. CASE s.pending
  <2> DEFINE c == ClearLive(t)
  <2>1. From(t.reading, Len(t.key)) = t.reading
    <3>1. Len(t.key) = 0
      OBVIOUS
    <3>2. SubSeq(t.reading, 1, Len(t.reading)) = t.reading
      BY <1>1, SubSeqFull
    <3>3. QED
      BY <3>1, <3>2 DEF From
  <2>2. PendingDisplay(t) = <<>> \o text
    BY <2>1 DEF PendingDisplay
  <2>3. <<>> \o text = text
    BY <1>1, ConcatEmptySeq DEF Texts
  <2>4. CommitPunctuated(s, t) = CommitString(c, text)
    BY <1>2, <2>2, <2>3 DEF CommitPunctuated, CommitPendingDisplay
  <2>5. c \in Sessions
    BY <1>1, ClearLiveFacts
  <2> HIDE DEF c, text
  <2>6. CommitString(c, text).result = text
    BY <1>1, <2>5, CommitStringCommits
  <2>7. QED
    BY <2>4, <2>6 DEF text
<1>3. CASE ~s.pending
  <2>1. CommitPunctuated(s, t) = CommitString(t, text)
    BY <1>3 DEF CommitPunctuated
  <2> HIDE DEF text
  <2>2. CommitString(t, text).result = text
    BY <1>1, CommitStringCommits
  <2>3. QED
    BY <2>1, <2>2 DEF text
<1>4. QED
  BY <1>2, <1>3

\* The feedback that a direct commit of punctuation leaves.
LEMMA PunctuatedFounded ==
  ASSUME NEW s, Good(s), NEW t, Typed(t), CommitPunctuated(s, t).result # <<>>,
         Founded(t.feedback, "CONVERSION", standing)
  PROVE  LET r == CommitPunctuated(s, t)
         IN  /\ Founded(r.s.feedback, r.s.state, r.result)
             /\ ~Visible(s) /\ t.feedback.action = "none" => r.s.feedback.action = "none"
<1> DEFINE r == CommitPunctuated(s, t)
<1>1. t \in Sessions /\ t.feedback \in Feedbacks
  BY DEF Typed, Sessions
<1>2. CASE ~Visible(s)
  <2> DEFINE f == t.feedback
             g == r.s.feedback
  <2>1. \E u \in Sessions : u.feedback = f /\ Committed(r, u)
    <3>1. CASE s.pending
      BY <1>1, <1>2, <3>1, CommitPendingCommits DEF CommitPunctuated
    <3>2. CASE ~s.pending /\ s.active
      <4> DEFINE c == ClearLive(t)
                 text == IF t.value = <<>> THEN As("raw", t.reading)
                         ELSE Append(t.value, <<"raw", Last(t.reading)>>)
      <4>1. c \in Sessions /\ c.feedback = f
        BY <1>1, ClearLiveFacts
      <4>2. r = CommitString(c, text)
        BY <1>2, <3>2 DEF CommitPunctuated, CommitLiveResult
      <4> HIDE DEF c, text
      <4>3. text # <<>>
        <5>1. text # <<>> \/ CommitString(c, text).result = <<>>
          BY DEF CommitString, Reply
        <5>2. QED
          BY <4>2, <5>1
      <4>4. Committed(CommitString(c, text), c)
        <5> DEFINE p == Precompose(c)
                   u == Observe(p, text)
                   q == CommitString(c, text)
        <5>1. q.s = u /\ q.result = text /\ q.recorded = None /\ IsResponse(q)
          BY <4>3, CommitResponses DEF CommitString, Reply
        <5>2. p \in Sessions /\ p.state = "PRECOMPOSITION" /\ p.feedback = c.feedback
          BY <4>1, PrecomposeFacts
        <5> HIDE DEF p
        <5>3. u.feedback = IF c.feedback.action = "rejected"
                           THEN [c.feedback EXCEPT !.final = text] ELSE c.feedback
          BY <5>2, ObserveFacts
        <5>4. u.state = "PRECOMPOSITION"
          BY <5>2 DEF Observe, Sessions
        <5> HIDE DEF u, q
        <5>5. Committed(q, c)
          BY <4>3, <5>1, <5>3, <5>4 DEF Committed
        <5>6. QED
          BY <5>5 DEF q
      <4>5. QED
        BY <4>1, <4>2, <4>4
    <3>3. CASE ~s.pending /\ ~s.active
      <4>1. As("raw", t.reading) \in Texts
        BY DisplayFacts
      <4>2. QED
        BY <1>1, <1>2, <3>3, <4>1, CommitStringCommits DEF CommitPunctuated
    <3>4. QED
      BY <3>1, <3>2, <3>3
  <2>2. /\ r.s.state = "PRECOMPOSITION"
        /\ f.action = "rejected" => g = [f EXCEPT !.final = r.result]
        /\ f.action # "rejected" => g = f
    BY <2>1 DEF Committed
  <2> HIDE DEF r
  <2>3. CASE f.action = "none"
    <3>1. g.action = "none"
      BY <2>2, <2>3
    <3> HIDE DEF g
    <3>2. Founded(g, r.s.state, r.result)
      BY <3>1 DEF Founded
    <3>3. QED
      BY <3>1, <3>2 DEF g, r
  <2>4. CASE f.action # "none"
    <3>1. f.action = "rejected" /\ OfModel(f.value)
      BY <1>1, <2>4 DEF Founded, Feedbacks, Editing
    <3>2. g.action = "rejected" /\ g.value = f.value /\ g.final = r.result
      BY <1>1, <2>2, <3>1 DEF Feedbacks
    <3> HIDE DEF f, g
    <3>3. Founded(g, r.s.state, r.result)
      BY <2>2, <3>1, <3>2 DEF Founded, Editing
    <3>4. QED
      BY <2>4, <3>3 DEF f, g, r
  <2>5. QED
    BY <2>3, <2>4 DEF r
<1>3. CASE Visible(s)
  <2> DEFINE a == Accepted(t, s.vvalue)
             c == ClearLive(a)
             text == Append(s.vvalue, <<"raw", Last(t.reading)>>)
             h == [action |-> "accepted", value |-> s.vvalue, final |-> <<>>]
  <2>1. s.vvalue \in Texts /\ OfModel(s.vvalue)
    BY <1>3, VisibleText
  <2>2. a \in Sessions /\ a.feedback = h
    <3>1. a \in Sessions
      BY <1>1, <2>1, FeedbackOnly DEF OnlyFeedback
    <3>2. a = [t EXCEPT !.feedback = h]
      BY DEF Accepted
    <3> HIDE DEF a, h
    <3>3. QED
      BY <1>1, <3>1, <3>2 DEF Sessions
  <2>3. r = CommitString(c, text)
    BY <1>3 DEF CommitPunctuated
  <2> HIDE DEF a
  <2>4. c \in Sessions /\ c.feedback = h
    BY <2>2, ClearLiveFacts
  <2> HIDE DEF c
  <2>5. IsPrefix(s.vvalue, text)
    <3>1. Len(s.vvalue) \in Nat /\ SubSeq(s.vvalue, 1, Len(s.vvalue)) = s.vvalue
      BY <2>1, LenProperties, SubSeqFull DEF Texts
    <3> DEFINE e == <<"raw", Last(t.reading)>>
               S == (Styles \X (Letters \cup {Punct})) \cup {e}
    <3>2. s.vvalue \in Seq(S) /\ e \in S
      BY <2>1, SeqMonotonic DEF Texts
    <3> HIDE DEF e, S
    <3>3. /\ Len(Append(s.vvalue, e)) = Len(s.vvalue) + 1
          /\ SubSeq(Append(s.vvalue, e), 1, Len(s.vvalue)) = s.vvalue
      BY <3>2, AppendProperties
    <3>4. QED
      BY <3>1, <3>3 DEF IsPrefix, e
  <2> HIDE DEF text
  <2>6. text # <<>> /\ r.result = text
    BY <2>3 DEF CommitString, Reply
  <2>7. r.s = Observe(Precompose(c), text)
    BY <2>3, <2>6 DEF CommitString, Reply
  <2>8. Precompose(c) \in Sessions /\ Precompose(c).feedback = h
        /\ Precompose(c).state = "PRECOMPOSITION"
    BY <2>4, PrecomposeFacts
  <2>9. r.s.feedback = h /\ r.s.state = "PRECOMPOSITION"
    BY <2>7, <2>8 DEF Observe
  <2>10. h.action = "accepted" /\ h.value = s.vvalue
    OBVIOUS
  <2> HIDE DEF r, h
  <2>11. Founded(r.s.feedback, r.s.state, r.result)
    BY <2>1, <2>5, <2>6, <2>9, <2>10 DEF Founded, Editing
  <2>12. QED
    BY <1>3, <2>11 DEF r
<1>4. QED
  BY <1>2, <1>3

LEMMA InsertedSound ==
  ASSUME Good(session), NEW letter \in Chars,
         session.state \in Editing \cup {"PRECOMPOSITION"},
         \/ Len(session.reading) < MaxLength
         \/ session.state = "CONVERSION" /\ ~session.active
         \/ letter = Punct,
         letter = Punct => AtEnd(session),
         Founded(session.feedback, session.state, standing),
         NEW r \in Inserted(session, letter)
  PROVE  Fine(r, session.reading \o <<letter>>) /\ Honest(r, FALSE)
<1> DEFINE s == session
           met == IF s.state = "CONVERSION" THEN Reply(s, <<>>) ELSE Confirm(Reply(s, <<>>))
           t == CancelForEditing(met.s)
           before == IF t.state = "CONVERSION" THEN Confirm(CommitInternal(t))
                     ELSE [met EXCEPT !.s = t]
           b == before.s
           first == before.result
           mark == before.recorded
           u == Insert(b, letter)
           v == IF ~s.active /\ Len(u.reading) = 1 THEN ForgetPrefix(u) ELSE u
           w == [v EXCEPT !.state = "COMPOSITION"]
           after == IF letter # Punct THEN ScheduleLive(w)
                    ELSE IF s.pending /\ s.state = "COMPOSITION"
                    THEN {CommitPendingDisplay(Insert(met.s, letter))}
                    ELSE {CommitPunctuated(s, v)}
<1>1. /\ OnlyFeedback(s, met.s)
      /\ Typed(b) /\ UndoShape(b) /\ b.reading \in Readings /\ ~b.pending
      /\ first \in Texts
      /\ first = <<>> => b.reading = s.reading /\ b.cursor = s.cursor
      /\ first # <<>> => ReadingOf(first) = s.reading /\ b.reading = <<>> /\ b.cursor = 0
      /\ s.state = "CONVERSION" /\ ~s.active => first # <<>>
      /\ s.state # "CONVERSION" => first = <<>>
      /\ s.active => b.value = s.value /\ first = <<>>
  <2>1. s.state # "DIRECT"
    BY DEF Editing
  <2>2. QED
    BY <2>1, BeforeFacts
<1>a. /\ s.active => b.feedback = s.feedback /\ mark = None
      /\ ~s.active => b.feedback = NoFeedback
      /\ s.state # "CONVERSION" => met.s.feedback = NoFeedback
      /\ TrueRecord(mark, first)
      /\ mark # None => /\ b.reading = <<>> /\ OfModel(mark.value)
                        /\ mark.action = "accepted" => IsPrefix(mark.value, standing)
  <2>1. s.state # "DIRECT"
    BY DEF Editing
  <2>2. QED
    BY <2>1, BeforeFeedback
<1>2. PICK q \in after :
        r = [q EXCEPT !.result = first \o @, !.recorded = mark]
  BY DEF Inserted
<1> HIDE DEF met, t, before, b, first, mark
<1>3. /\ Typed(u) /\ u.undo = None /\ u.reading # <<>>
      /\ Len(u.reading) = Len(b.reading) + 1
      /\ SameLive(b, u) /\ SamePending(b, u) /\ u.feedback = b.feedback
      /\ b.reading \in Seq(Letters) /\ letter \in Letters => u.reading \in Seq(Letters)
      /\ AtEnd(b) => u.reading = b.reading \o <<letter>>
  BY <1>1, InsertFacts
<1> HIDE DEF u
<1>4. /\ Typed(v) /\ v.undo = None /\ v.reading = u.reading /\ ~v.pending
      /\ v.feedback = b.feedback
      /\ s.active => v.value = u.value
      /\ ~s.active /\ Len(u.reading) = 1 => v.key = <<>> /\ v.value = <<>>
  <2>1. CASE v = u /\ ~(~s.active /\ Len(u.reading) = 1)
    BY <1>1, <1>3, <2>1 DEF SamePending
  <2>2. CASE ~s.active /\ v = ForgetPrefix(u)
    <3>1. /\ Typed(v) /\ SameComposer(u, v) /\ v.feedback = u.feedback
          /\ v.key = <<>> /\ v.value = <<>>
      BY <1>3, <2>2, ForgetPrefixFacts
    <3>2. ~v.pending
      <4>1. u \in Sessions /\ ~u.pending
        BY <1>1, <1>3 DEF Typed, SamePending
      <4> DEFINE x == [u EXCEPT !.key = <<>>, !.value = <<>>]
      <4>2. x \in Sessions /\ ~x.pending
        BY <4>1, NoReading DEF Sessions
      <4> HIDE DEF x
      <4>3. SamePending(x, ClearZenz(x))
        BY <4>2, ClearZenzFacts
      <4>4. QED
        BY <2>2, <4>2, <4>3 DEF ForgetPrefix, x, SamePending
    <3>3. QED
      BY <1>3, <2>2, <3>1, <3>2 DEF SameComposer
  <2>3. QED
    BY <2>1, <2>2
<1> HIDE DEF v
<1>5. s.reading \in Seq(Chars) /\ s.reading \in Readings /\ Work(s) /\ Typed(s)
  BY ReadingsAreSequences DEF Good, Loose, Place
<1>6. first # <<>> => AtEnd(b) /\ u.reading = <<letter>>
  <2>1. SUFFICES ASSUME first # <<>> PROVE AtEnd(b) /\ u.reading = <<letter>>
    OBVIOUS
  <2>2. AtEnd(b)
    BY <1>1, <2>1, EmptySeq DEF AtEnd
  <2>3. <<letter>> \in Seq(Chars)
    OBVIOUS
  <2>4. <<>> \o <<letter>> = <<letter>>
    BY <2>3, ConcatEmptySeq
  <2>5. QED
    BY <1>1, <1>3, <2>1, <2>2, <2>4
<1>7. first = <<>> /\ AtEnd(s) => u.reading = s.reading \o <<letter>>
  BY <1>1, <1>3 DEF AtEnd
<1>8. CASE letter # Punct
  <2>1. letter \in Letters
    BY <1>8 DEF Chars
  <2>2. u.reading \in Readings
    <3>1. b.reading \in Seq(Letters) /\ Len(b.reading) \in Nat
      BY <1>1, ReadingsAreBounded, LenProperties
    <3>2. Len(b.reading) + 1 <= MaxLength
      <4>1. CASE first = <<>>
        <5>1. Len(s.reading) < MaxLength
          BY <1>1, <1>8, <4>1
        <5>2. QED
          BY <1>1, <3>1, <4>1, <5>1, ConstantsAssumption
      <4>2. CASE first # <<>>
        <5>1. Len(b.reading) = 0
          BY <1>1, <4>2, EmptySeq
        <5>2. QED
          BY <5>1, ConstantsAssumption
      <4>3. QED
        BY <4>1, <4>2
    <3>3. QED
      BY <1>3, <2>1, <3>1, <3>2, ReadingsAreBounded
  <2>3. /\ w \in Sessions /\ w.state = "COMPOSITION" /\ w.reading = u.reading
        /\ w.cursor = v.cursor /\ w.key = v.key /\ w.value = v.value /\ w.undo = None
        /\ w.feedback = v.feedback
    <3>1. v \in Sessions
      BY <1>4 DEF Typed
    <3>2. "COMPOSITION" \in States
      BY DEF States, Editing
    <3>3. QED
      BY <1>4, <3>1, <3>2 DEF Sessions
  <2>4. q \in ScheduleLive(w)
    BY <1>2, <1>8
  <2> HIDE DEF w
  <2>5. Typed(w) /\ Place(w)
    <3>1. Typed(w)
      BY <1>4, <2>3 DEF Typed
    <3>2. Place(w)
      BY <1>3, <2>2, <2>3 DEF Place, Editing
    <3>3. QED
      BY <3>1, <3>2
  <2>6. Fine(q, u.reading)
    BY <2>3, <2>4, <2>5, ScheduleLiveFine
  <2>7. /\ IsResponse(q) /\ q.result = <<>> /\ q.s.reading = u.reading
        /\ q.s.feedback = b.feedback /\ q.s.state \in Editing
    BY <1>4, <2>2, <2>3, <2>4, ScheduleLiveSilent DEF Silent, Editing
  <2>8. u.reading \in Seq(Chars)
    BY <2>2, ReadingsAreSequences
  <2>9. Fine(r, s.reading \o <<letter>>)
    <3>1. CASE first # <<>>
      <4>1. Fine([q EXCEPT !.result = first \o @, !.recorded = mark],
                 s.reading \o <<letter>>)
        BY <1>1, <1>5, <1>6, <2>6, <2>7, <2>8, <3>1, Joined
      <4>2. QED
        BY <1>2, <4>1
    <3>2. CASE first = <<>>
      <4>1. /\ r.s = q.s /\ r.shown = q.shown /\ r.callback = q.callback
            /\ r.result = first \o q.result
        BY <1>2, <2>7 DEF IsResponse
      <4>2. first \o q.result = <<>>
        BY <2>7, <3>2
      <4>3. QED
        BY <2>6, <2>7, <4>1, <4>2 DEF Fine
    <3>3. QED
      BY <3>1, <3>2
  <2>10. Honest(r, FALSE)
    <3>1. r.s = q.s /\ r.recorded = mark /\ r.result = first \o q.result
      BY <1>2, <2>7 DEF IsResponse
    <3>2. r.result = first
      BY <1>1, <2>7, <3>1, ConcatEmptySeq DEF Texts
    <3>3. CASE s.active
      <4>1. Founded(s.feedback, q.s.state, standing)
        BY <1>5, <2>7, <3>3, FoundedMoves DEF Work, Editing
      <4>2. QED
        BY <1>a, <1>1, <2>7, <3>1, <3>2, <3>3, <4>1 DEF Honest
    <3>4. CASE ~s.active
      <4>1. r.s.feedback.action = "none"
        BY <1>a, <2>7, <3>1, <3>4 DEF NoFeedback
      <4>2. QED
        BY <1>a, <3>1, <3>2, <4>1 DEF Honest, Founded
    <3>5. QED
      BY <3>3, <3>4
  <2>11. QED
    BY <2>9, <2>10
<1>9. CASE letter = Punct /\ s.pending /\ s.state = "COMPOSITION"
  <2> DEFINE m == met.s
             x == Insert(m, letter)
  <2>1. Typed(m) /\ m.reading = s.reading /\ m.cursor = s.cursor /\ first = <<>>
    BY <1>1, <1>5, <1>9, OnlyFeedbackKeeps DEF OnlyFeedback, SameComposer
  <2> HIDE DEF m
  <2>2. Typed(x) /\ x.undo = None /\ x.reading # <<>> /\ x.reading = s.reading \o <<letter>>
    BY <1>9, <2>1, InsertFacts, ZenonT(60) DEF AtEnd
  <2>3. q = CommitPendingDisplay(x)
    BY <1>2, <1>9 DEF m
  <2> HIDE DEF x
  <2>4. UndoShape(x)
    BY <2>2 DEF UndoShape
  <2>5. Fine(q, x.reading)
    BY <2>2, <2>3, <2>4, CommitPendingDisplayFine
  <2>6. q.result # <<>> /\ IsResponse(q)
    BY <2>2, <2>3, CommitPendingDisplayResult, CommitResponses
  <2>7. x.reading \in Seq(Chars)
    BY <2>2 DEF Typed, Sessions
  <2>8. Fine([q EXCEPT !.result = first \o @, !.recorded = mark],
             s.reading \o <<letter>>)
    BY <1>1, <1>5, <2>1, <2>2, <2>5, <2>6, <2>7, Joined
  <2>9. Honest(r, FALSE)
    <3>1. x.feedback = NoFeedback
      <4>1. m.feedback = NoFeedback
        BY <1>a, <1>9 DEF m
      <4>2. QED
        BY <2>1, <4>1, InsertFacts DEF x
    <3>2. Committed(q, x)
      BY <2>2, <2>3, CommitPendingCommits
    <3>3. q.s.feedback.action = "none"
      BY <2>6, <3>1, <3>2 DEF Committed, NoFeedback
    <3>4. mark = None
      <4>1. s.reading # <<>>
        BY <1>9 DEF Good, Loose, Place, Editing
      <4>2. QED
        BY <1>a, <1>1, <2>1, <4>1
    <3>5. r.s = q.s /\ r.recorded = mark
      BY <1>2, <2>6 DEF IsResponse
    <3>6. QED
      BY <3>3, <3>4, <3>5 DEF Honest, Founded, TrueRecord
  <2>10. QED
    BY <1>2, <2>8, <2>9
<1>10. CASE letter = Punct /\ ~(s.pending /\ s.state = "COMPOSITION")
  <2>1. q = CommitPunctuated(s, v)
    BY <1>2, <1>10
  <2>2. /\ first = <<>> => v.reading = s.reading \o <<letter>>
        /\ first # <<>> => v.reading = <<letter>>
    BY <1>4, <1>6, <1>7, <1>10
  <2>3. v.reading # <<>> /\ v.reading \in Seq(Chars) /\ UndoShape(v)
    BY <1>3, <1>4 DEF Typed, Sessions, UndoShape
  <2>4. Last(v.reading) = Punct
    <3>1. CASE first = <<>>
      BY <1>5, <1>10, <2>2, <3>1, LastOfConcat, ZenonT(60)
    <3>2. CASE first # <<>>
      <4>1. v.reading = <<letter>> /\ Len(<<letter>>) = 1 /\ <<letter>>[1] = letter
        BY <2>2, <3>2
      <4>2. QED
        BY <1>10, <4>1 DEF Last
    <3>3. QED
      BY <3>1, <3>2
  <2>5. s.active => v.reading = s.reading \o <<Punct>> /\ v.value = s.value
    BY <1>1, <1>3, <1>4, <1>10, <2>2 DEF SameLive
  <2>6. Fine(q, v.reading) /\ q.result # <<>>
    BY <1>4, <2>1, <2>3, <2>4, <2>5, CommitPunctuatedFine
  <2>7. IsResponse(q)
    BY <2>1, CommitResponses
  <2>8. Fine([q EXCEPT !.result = first \o @, !.recorded = mark],
             s.reading \o <<letter>>)
    BY <1>1, <1>5, <2>2, <2>3, <2>6, <2>7, Joined
  <2>9. r.s = q.s /\ r.recorded = mark /\ r.result = first \o q.result
    BY <1>2, <2>7 DEF IsResponse
  <2>10. Founded(v.feedback, "CONVERSION", standing)
    <3>1. CASE s.active
      BY <1>a, <1>4, <1>5, <3>1 DEF Work
    <3>2. CASE ~s.active
      BY <1>a, <1>4, <3>2 DEF Founded, NoFeedback
    <3>3. QED
      BY <3>1, <3>2
  <2>11. /\ Founded(q.s.feedback, q.s.state, q.result)
         /\ ~Visible(s) /\ v.feedback.action = "none" => q.s.feedback.action = "none"
    BY <1>4, <2>1, <2>6, <2>10, PunctuatedFounded
  <2>12. CASE s.active
    <3>1. q.result \in Texts
      BY <2>6 DEF Fine
    <3>2. r.result = q.result
      BY <1>1, <2>9, <2>12, <3>1, ConcatEmptySeq DEF Texts
    <3>3. Honest(r, FALSE)
      BY <1>a, <2>6, <2>9, <2>11, <2>12, <3>2 DEF Honest, TrueRecord
    <3>4. QED
      BY <1>2, <2>8, <3>3
  <2>13. CASE ~s.active
    <3>1. ~Visible(s)
      BY <2>13 DEF Visible
    <3>2. q.s.feedback.action = "none"
      BY <1>a, <1>4, <2>11, <2>13, <3>1 DEF NoFeedback
    <3>3. TrueRecord(mark, r.result)
      <4>1. SUFFICES ASSUME mark # None PROVE TrueRecord(mark, r.result)
        BY DEF TrueRecord
      <4>2. b.reading = <<>> /\ Len(u.reading) = 1
        <5>1. b.reading = <<>>
          BY <1>a, <4>1
        <5>2. Len(b.reading) = 0
          BY <5>1
        <5>3. QED
          BY <1>3, <5>1, <5>2
      <4>3. v.reading = <<letter>>
        <5>1. CASE first # <<>>
          BY <2>2, <5>1
        <5>2. CASE first = <<>>
          <6>1. v.reading = <<>> \o <<letter>>
            BY <1>1, <2>2, <4>2, <5>2
          <6>2. <<letter>> \in Seq(Chars)
            OBVIOUS
          <6>3. <<>> \o <<letter>> = <<letter>>
            BY <6>2, ConcatEmptySeq
          <6>4. QED
            BY <6>1, <6>3
        <5>3. QED
          BY <5>1, <5>2
      <4>4. v.key = <<>> /\ v.value = <<>>
        BY <1>4, <2>13, <4>2
      <4>5. q.result = As("raw", <<letter>>)
        BY <1>4, <2>1, <2>13, <3>1, <4>3, <4>4, RawPunctuation
      <4>6. ~OfModel(r.result)
        BY <1>1, <2>9, <4>5, NotOfModel
      <4>7. r.result # <<>>
        <5>1. /\ Len(r.result) = Len(first) + Len(q.result) /\ q.result \in Texts
          BY <1>1, <2>6, <2>9, ConcatProperties DEF Fine, Texts
        <5>2. Len(first) \in Nat /\ Len(q.result) \in Nat \ {0}
          BY <1>1, <2>6, <5>1, EmptySeq, LenProperties DEF Texts
        <5>3. QED
          BY <5>1, <5>2
      <4>8. QED
        BY <1>a, <4>1, <4>6, <4>7 DEF TrueRecord
    <3>4. Honest(r, FALSE)
      BY <2>9, <3>2, <3>3 DEF Honest, Founded
    <3>5. QED
      BY <1>2, <2>8, <3>4
  <2>14. QED
    BY <2>12, <2>13
<1>11. QED
  BY <1>8, <1>9, <1>10

LEMMA ApplyLiveHonest ==
  ASSUME NEW s, Loose(s), Founded(s.feedback, s.state, standing), NEW c,
         NEW r \in ApplyLive(s, c)
  PROVE  r.result = <<>> /\ Honest(r, FALSE)
<1>1. s \in Sessions /\ s.reading \in Readings
  BY DEF Loose, Typed, Place
<1>2. ASSUME NEW text, r = Reply(s, text) PROVE r.result = <<>> /\ Honest(r, FALSE)
  BY <1>2, ReplyHonest DEF Reply
<1>3. CASE r = Stale(s)
  BY <1>2, <1>3 DEF Stale
<1>4. CASE r = Reply(s, PendingDisplay(s))
  BY <1>2, <1>4
<1>5. CASE s.state = "COMPOSITION" /\ r \in StartLive(s)
  <2>1. Silent(r, s)
    BY <1>1, <1>5, StartLiveSilent
  <2>2. QED
    BY <1>5, <2>1, SilentHonest DEF Silent, Editing
<1>6. CASE r = Reply(CancelPendingLive(s), Display(CancelPendingLive(s)))
  <2> DEFINE t == CancelPendingLive(s)
  <2>1. t.feedback = s.feedback /\ t.state = s.state
    BY <1>1, CancelPendingLiveFacts DEF SameComposer
  <2>2. r = Reply(t, Display(t))
    BY <1>6
  <2> HIDE DEF t
  <2>3. QED
    BY <2>1, <2>2, ReplyHonest DEF Reply
<1>7. QED
  BY <1>3, <1>4, <1>5, <1>6 DEF ApplyLive, StartLiveOr, IsCurrentLive

LEMMA AdvanceZenzHonest ==
  ASSUME NEW s, Good(s), Founded(s.feedback, s.state, standing), NEW r \in AdvanceZenz(s)
  PROVE  r.result = <<>> /\ Honest(r, FALSE)
<1>1. s \in Sessions
  BY DEF Good, Loose, Typed
<1>2. ASSUME NEW t, t.feedback = s.feedback, t.state = s.state, NEW text, NEW type,
             r = Reply(t, text) \/ r = WithCallback(Reply(t, text), type)
      PROVE  r.result = <<>> /\ Honest(r, FALSE)
  <2>1. /\ r.s = t /\ r.result = <<>> /\ r.recorded = None
    BY <1>2 DEF Reply, WithCallback
  <2>2. QED
    BY <1>2, <2>1 DEF Honest, TrueRecord
<1> DEFINE stopped == Reply(CancelPendingZenz(s), Display(s))
           got == TakeResult(s)
           taken == [s EXCEPT !.answer = None]
           quiet == [taken EXCEPT !.wait = "no", !.polls = 0, !.zkey = <<>>, !.zbase = <<>>]
           adopted == Show(quiet, s.zkey, As("zenz", got.key), s.zbase)
<1>3. CASE r = stopped
  <2>1. CancelPendingZenz(s).feedback = s.feedback /\ CancelPendingZenz(s).state = s.state
    BY <1>1, CancelPendingZenzFacts DEF SameComposer
  <2>2. QED
    BY <1>2, <1>3, <2>1
<1>4. CASE r = adopted
  <2> DEFINE t == [quiet EXCEPT !.vkey = s.zkey, !.vvalue = As("zenz", got.key),
                                !.vbase = s.zbase]
  <2>1. t.feedback = s.feedback /\ t.state = s.state
    BY <1>1 DEF Sessions
  <2>2. r = Reply(t, As("zenz", got.key))
    BY <1>4 DEF Show
  <2> HIDE DEF t
  <2>3. QED
    BY <1>2, <2>1, <2>2
<1>5. CASE r = Submitted(s)
  <2> DEFINE t == [s EXCEPT !.wait = "submitted", !.polls = 0, !.answer = None,
                            !.request = [gen |-> s.zgen, key |-> s.zkey]]
  <2>1. t.feedback = s.feedback /\ t.state = s.state
    BY <1>1 DEF Sessions
  <2>2. r = WithCallback(Reply(t, Display(s)), "zenz")
    BY <1>5 DEF Submitted
  <2> HIDE DEF t
  <2>3. QED
    BY <1>2, <2>1, <2>2
<1>6. CASE r = Polled(taken)
  <2> DEFINE t == [taken EXCEPT !.polls = @ + 1]
  <2>1. t.feedback = s.feedback /\ t.state = s.state
    BY <1>1 DEF Sessions
  <2>2. r = WithCallback(Reply(t, Display(taken)), "zenz")
    BY <1>6 DEF Polled
  <2> HIDE DEF t
  <2>3. QED
    BY <1>2, <2>1, <2>2
<1>7. QED
  BY <1>3, <1>4, <1>5, <1>6 DEF AdvanceZenz

-----------------------------------------------------------------------------
(* The steps.                                                               *)

\* The inductive invariant: the session is in order, and so is everything that
\* is under way between it, the worker and the client.
LiveInv ==
  /\ Good(session)
  /\ running \in Requests \cup {None}
  /\ timer \in Callbacks \cup {None} /\ sent \in Callbacks \cup {None}
  /\ shown \in Texts /\ result \in Texts /\ standing \in Texts
  /\ typed \in {<<>>} \cup {<<letter>> : letter \in Chars}
  /\ session.state \in Editing => ReadingOf(shown) = session.reading
  /\ Founded(session.feedback, session.state, standing)

\* What a step hands over to the application and to the feedback store.
Told ==
  /\ result' # <<>> => ReadingOf(result') \o session'.reading = session.reading \o typed'
  /\ TrueRecord(recorded', result')

LEMMA AnswerStep ==
  ASSUME LiveInv, NEW whole, NEW r, Fine(r, whole), NEW erases, Honest(r, erases), Answer(r)
  PROVE  /\ Good(session)' /\ running' \in Requests \cup {None}
         /\ timer' \in Callbacks \cup {None}
         /\ shown' \in Texts /\ result' \in Texts
         /\ session'.state \in Editing => ReadingOf(shown') = session'.reading
         /\ result' # <<>> => ReadingOf(result') \o session'.reading = whole
         /\ result' = r.result /\ TrueRecord(recorded', result')
         /\ session'.state = r.s.state /\ session'.feedback = r.s.feedback
<1> DEFINE t == LeaveConversion(r.s)
<1>1. /\ session' = t /\ shown' = r.shown /\ result' = r.result /\ running' = running
      /\ timer' \in {r.callback, timer, None} /\ recorded' = r.recorded
  BY DEF Answer
<1>2. Loose(r.s)
  BY DEF Fine
<1>3. Good(t) /\ t.state = r.s.state /\ t.reading = r.s.reading /\ t.feedback = r.s.feedback
  BY <1>2, LeaveConversionGood
<1> HIDE DEF t
<1>4. Good(session)'
  <2>1. Loose(session)'
    BY <1>1, <1>3 DEF Good, Loose, Work, Typed, Place, Pend, UndoShape, Undone, Visible
  <2>2. Work(session)'
    BY <1>1, <1>3 DEF Good, Work, Visible
  <2>3. QED
    BY <2>1, <2>2 DEF Good
<1>5. QED
  BY <1>1, <1>3, <1>4 DEF Fine, LiveInv, Honest

LEMMA NothingMore ==
  ASSUME Good(session)
  PROVE  session.reading \o <<>> = session.reading
<1>1. session.reading \in Seq(Chars)
  BY DEF Good, Loose, Typed, Sessions
<1>2. QED
  BY <1>1, ConcatEmptySeq

LEMMA HandleStep ==
  ASSUME LiveInv, NEW letters \in {<<>>} \cup {<<letter>> : letter \in Chars},
         NEW responses, NEW erases,
         \A r \in responses : Fine(r, session.reading \o letters) /\ Honest(r, erases),
         Handle(responses, letters, erases)
  PROVE  LiveInv' /\ Told
<1>1. PICK r \in responses :
        /\ Answer(r)
        /\ standing' = IF r.s.feedback.action = "none" THEN <<>>
                       ELSE IF r.result # <<>> THEN r.result
                       ELSE IF erases THEN <<>> ELSE standing
  BY DEF Handle
<1>2. typed' = letters /\ sent' = sent
  BY DEF Handle
<1>3. Fine(r, session.reading \o letters) /\ Honest(r, erases)
  OBVIOUS
<1>4. /\ Good(session)' /\ running' \in Requests \cup {None}
      /\ timer' \in Callbacks \cup {None}
      /\ shown' \in Texts /\ result' \in Texts
      /\ session'.state \in Editing => ReadingOf(shown') = session'.reading
      /\ result' # <<>> => ReadingOf(result') \o session'.reading = session.reading \o letters
      /\ result' = r.result /\ TrueRecord(recorded', result')
      /\ session'.state = r.s.state /\ session'.feedback = r.s.feedback
  BY <1>1, <1>3, AnswerStep
<1>5. standing' \in Texts
  BY <1>1, <1>4, NoReading DEF LiveInv
<1>6. Founded(session.feedback, session.state, standing)'
  <2>1. CASE r.s.feedback.action = "none"
    BY <1>4, <2>1 DEF Founded
  <2>2. CASE r.s.feedback.action # "none"
    <3>1. standing' = IF r.result # <<>> THEN r.result ELSE IF erases THEN <<>> ELSE standing
      BY <1>1, <2>2
    <3>2. Founded(r.s.feedback, r.s.state, standing')
      BY <1>3, <3>1 DEF Honest
    <3>3. QED
      BY <1>4, <3>2 DEF Founded
  <2>3. QED
    BY <2>1, <2>2
<1>7. LiveInv'
  BY <1>2, <1>4, <1>5, <1>6 DEF LiveInv
<1>8. Told
  BY <1>2, <1>4 DEF Told
<1>9. QED
  BY <1>7, <1>8

LEMMA CommandStep ==
  ASSUME LiveInv, NEW responses, NEW erases,
         \A r \in responses : Fine(r, session.reading) /\ Honest(r, erases),
         Command(responses, erases)
  PROVE  LiveInv' /\ Told
<1>1. session.reading \o <<>> = session.reading
  BY NothingMore DEF LiveInv
<1>2. Handle(responses, <<>>, erases)
  BY DEF Command
<1>3. QED
  BY <1>1, <1>2, HandleStep

LEMMA InsertStep ==
  ASSUME LiveInv, NEW letter \in Chars, InsertCharacter(letter)
  PROVE  LiveInv' /\ Told
<1>1. /\ session.state \in Editing \cup {"PRECOMPOSITION"}
      /\ \/ Len(session.reading) < MaxLength
         \/ session.state = "CONVERSION" /\ ~session.active
         \/ letter = Punct
      /\ letter = Punct => AtEnd(session)
      /\ Handle(Inserted(session, letter), <<letter>>, FALSE)
  BY DEF InsertCharacter
<1>2. \A r \in Inserted(session, letter) :
        Fine(r, session.reading \o <<letter>>) /\ Honest(r, FALSE)
  BY <1>1, InsertedSound DEF LiveInv
<1>3. QED
  BY <1>1, <1>2, HandleStep

LEMMA BackspaceStep ==
  ASSUME LiveInv, Backspace
  PROVE  LiveInv' /\ Told
<1> DEFINE t == Shortened(session)
<1>1. Good(session) /\ session \in Sessions
  BY DEF LiveInv, Good, Loose, Typed
<1>2. CASE session.state = "PRECOMPOSITION" /\ Command({Erase(session)}, TRUE)
  <2>1. Fine(Erase(session), session.reading)
    BY <1>1, <1>2, EraseFine DEF Editing
  <2>2. QED
    BY <1>1, <1>2, <2>1, EraseHonest, CommandStep
<1>3. CASE /\ session.state = "COMPOSITION" \/ session.active
           /\ Command(IF t.reading = <<>> THEN {Reply(Precompose(t), <<>>)}
                      ELSE StartLiveOr(t, Compose(t)), FALSE)
  <2> DEFINE responses == IF t.reading = <<>> THEN {Reply(Precompose(t), <<>>)}
                          ELSE StartLiveOr(t, Compose(t))
  <2>1. /\ Typed(t) /\ t.reading \in Readings /\ t.state = "COMPOSITION"
        /\ t.undo = None /\ ~t.pending /\ Calm(t) /\ t.feedback = NoFeedback
    BY <1>1, <1>3, ShortenedFacts
  <2>2. Command(responses, FALSE)
    BY <1>3
  <2> HIDE DEF t
  <2>3. UndoShape(t)
    BY <2>1 DEF UndoShape
  <2>4. t \in Sessions /\ t.feedback.action = "none"
    BY <2>1 DEF Typed, NoFeedback
  <2>5. ASSUME NEW r \in responses PROVE Fine(r, session.reading) /\ Honest(r, FALSE)
    <3>1. CASE t.reading = <<>>
      <4>1. r = Reply(Precompose(t), <<>>)
        BY <2>5, <3>1
      <4>2. Precompose(t).feedback.action = "none"
        BY <2>4, PrecomposeFacts
      <4>3. QED
        BY <2>1, <2>3, <4>1, <4>2, PrecomposeFine, ReplyForgets
    <3>2. CASE t.reading # <<>>
      <4>1. Place(t)
        BY <2>1, <3>2 DEF Place, Editing
      <4>2. Loose(t)
        BY <2>1, <2>3, <4>1, CalmLoose
      <4>3. CASE r \in StartLive(t)
        BY <2>1, <2>4, <4>1, <4>3, StartLiveFine, StartLiveSilent, SilentHonest
      <4>4. CASE r \in Compose(t)
        BY <2>4, <4>2, <4>4, ComposeFine, ReplyForgets DEF Compose
      <4>5. QED
        BY <2>5, <3>2, <4>3, <4>4 DEF StartLiveOr
    <3>3. QED
      BY <3>1, <3>2
  <2> HIDE DEF responses
  <2>6. QED
    BY <2>2, <2>5, CommandStep
<1>4. CASE /\ session.state = "CONVERSION" /\ ~session.active
           /\ Command(ConvertCancel(session), FALSE)
  <2>1. \A r \in ConvertCancel(session) : Fine(r, session.reading) /\ Honest(r, FALSE)
    BY <1>1, <1>4, ConvertCancelFine, ConvertCancelHonest DEF Editing
  <2>2. QED
    BY <1>4, <2>1, CommandStep
<1>5. QED
  BY <1>2, <1>3, <1>4 DEF Backspace

LEMMA EscapeStep ==
  ASSUME LiveInv, Escape
  PROVE  LiveInv' /\ Told
<1>1. Good(session) /\ session \in Sessions
  BY DEF LiveInv, Good, Loose, Typed
<1>2. CASE session.state = "CONVERSION" /\ Command(ConvertCancel(session), FALSE)
  <2>1. \A r \in ConvertCancel(session) : Fine(r, session.reading) /\ Honest(r, FALSE)
    BY <1>1, <1>2, ConvertCancelFine, ConvertCancelHonest DEF Editing
  <2>2. QED
    BY <1>2, <2>1, CommandStep
<1>3. CASE Command({Reply(ClearLive(Precompose(Discard(session))), <<>>)}, FALSE)
  <2>1. Good(Discard(session))
    <3>1. OnlyFeedback(session, Discard(session))
      BY <1>1, FeedbackOnly, NoReading DEF Good, Loose, Typed
    <3>2. QED
      BY <1>1, <3>1, OnlyFeedbackKeeps
  <2>2. Typed(Discard(session)) /\ UndoShape(Discard(session))
    BY <2>1 DEF Good, Loose
  <2>3. Fine(Reply(ClearLive(Precompose(Discard(session))), <<>>), session.reading)
    BY <2>2, ClearedFine
  <2>4. ClearLive(Precompose(Discard(session))).feedback.action = "none"
    BY <1>1, DiscardForgets, PrecomposeFacts, ClearLiveFacts
  <2>5. QED
    BY <1>3, <2>3, <2>4, ReplyForgets, CommandStep
<1>4. CASE session.state = "PRECOMPOSITION" /\ Command({Erase(session)}, FALSE)
  <2>1. Fine(Erase(session), session.reading)
    BY <1>1, <1>4, EraseFine DEF Editing
  <2>2. QED
    BY <1>1, <1>4, <2>1, EraseHonest, CommandStep
<1>5. QED
  BY <1>2, <1>3, <1>4 DEF Escape

\* A converter that is asked for candidates has no delayed conversion left.
LEMMA CancelPendingGood ==
  ASSUME Good(session), session.state \in Editing
  PROVE  LET t == CancelPendingLive(session)
         IN  Good(t) /\ t.state = session.state /\ t.reading = session.reading
             /\ t.undo = None /\ t.feedback = session.feedback
<1> DEFINE t == CancelPendingLive(session)
<1>1. /\ Typed(session) /\ Place(session) /\ Work(session) /\ session.undo = None
  BY GoodEditing
<1>2. /\ Typed(t) /\ Place(t) /\ UndoShape(t) /\ Pend(t) /\ Undone(t)
      /\ SameComposer(session, t) /\ Work(t) /\ t.feedback = session.feedback
  BY <1>1, CancelPendingLiveKeeps
<1> HIDE DEF t
<1>3. /\ Good(t) /\ t.state = session.state /\ t.reading = session.reading /\ t.undo = None
      /\ t.feedback = session.feedback
  BY <1>1, <1>2 DEF Good, Loose, SameComposer
<1>4. QED
  BY <1>3 DEF t

LEMMA SpaceStep ==
  ASSUME LiveInv, Space
  PROVE  LiveInv' /\ Told
<1>1. Good(session) /\ Founded(session.feedback, session.state, standing)
  BY DEF LiveInv
<1>2. ASSUME session.state = "COMPOSITION",
             NEW t, t = CancelPendingLive(session),
             Command(Candidates(t, {"mozc"})
                     \cup UNION {Compose(t) : f \in Situations \cap {"failure"}}, FALSE)
      PROVE  LiveInv' /\ Told
  <2> DEFINE responses == Candidates(t, {"mozc"})
                          \cup UNION {Compose(t) : f \in Situations \cap {"failure"}}
  <2>1. Good(t) /\ t.state = "COMPOSITION" /\ Founded(t.feedback, t.state, standing)
    BY <1>1, <1>2, CancelPendingGood DEF Editing
  <2>2. \A r \in Candidates(t, {"mozc"}) : Fine(r, session.reading) /\ Honest(r, FALSE)
    BY <2>1, CandidatesFine, CandidatesHonest DEF Editing, Styles
  <2>3. \A r \in Compose(t) : Fine(r, session.reading) /\ Honest(r, FALSE)
    BY <2>1, ComposeFine, ComposeHonest DEF Good
  <2>4. \A r \in responses : Fine(r, session.reading) /\ Honest(r, FALSE)
    BY <2>2, <2>3
  <2>5. Command(responses, FALSE)
    BY <1>2
  <2> HIDE DEF responses
  <2>6. QED
    BY <2>4, <2>5, CommandStep
<1>3. CASE Visible(session) /\ Command({RevertZenz(session)}, FALSE)
  <2>1. Fine(RevertZenz(session), session.reading)
    BY <1>1, <1>3, RevertZenzFine
  <2> DEFINE z == Rejected(session)
             c == ClearLive(z)
  <2>2. z \in Sessions /\ z.state = session.state
    BY <1>1, FeedbackOnly, NoReading DEF Good, Loose, Typed, OnlyFeedback, SameComposer
  <2>3. Founded(z.feedback, session.state, standing)
    BY <1>1, RejectedFounded
  <2> HIDE DEF z
  <2>4. c.feedback = z.feedback /\ c.state = session.state
    BY <2>2, ClearLiveFacts DEF SameComposer
  <2> HIDE DEF c
  <2>5. Honest(RevertZenz(session), FALSE)
    BY <2>3, <2>4, ReplyHonest DEF RevertZenz, c, z
  <2>6. QED
    BY <1>3, <2>1, <2>5, CommandStep
<1>4. CASE /\ session.state = "CONVERSION"
           /\ Command(Candidates(Promote(session), {"mozc", "other", "zenz"}), FALSE)
  <2> DEFINE t == Promote(session)
  <2>1. Good(t) /\ t.state = "CONVERSION" /\ Founded(t.feedback, t.state, standing)
    BY <1>1, <1>4, PromoteGood, PromoteFounded
  <2> HIDE DEF t
  <2>2. \A r \in Candidates(t, {"mozc", "other", "zenz"}) :
          Fine(r, session.reading) /\ Honest(r, FALSE)
    BY <2>1, CandidatesFine, CandidatesHonest DEF Editing, Styles
  <2>3. QED
    BY <1>4, <2>2, CommandStep DEF t
<1>5. QED
  BY <1>2, <1>3, <1>4 DEF Space

LEMMA PredictStep ==
  ASSUME LiveInv, Predict
  PROVE  LiveInv' /\ Told
<1> DEFINE t == CancelPendingLive(session)
           z == Rejected(t)
           u == [ClearLive(z) EXCEPT !.state = "COMPOSITION", !.conv = "raw"]
           responses == IF session.active THEN Candidates(u, {"other"}) \cup Compose(u)
                        ELSE IF session.state = "CONVERSION"
                        THEN Candidates(t, {"mozc", "other", "zenz"})
                        ELSE Candidates(t, {"other"}) \cup Compose(t)
<1>1. /\ Good(session) /\ session.state \in Editing
      /\ Founded(session.feedback, session.state, standing)
  BY DEF LiveInv, Predict
<1>2. Command(responses, FALSE)
  BY DEF Predict
<1>3. /\ Good(t) /\ t.state = session.state /\ t.reading = session.reading /\ t.undo = None
      /\ Founded(t.feedback, t.state, standing)
  BY <1>1, CancelPendingGood
<1> HIDE DEF t
<1>4. /\ Typed(z) /\ Place(z) /\ z.state \in Editing /\ z.undo = None
      /\ Founded(z.feedback, z.state, standing)
  <2>1. OnlyFeedback(t, z)
    BY <1>3, FeedbackOnly, NoReading DEF Good, Loose, Typed
  <2>2. Founded(z.feedback, t.state, standing)
    BY <1>3, RejectedFounded
  <2> HIDE DEF z
  <2>3. QED
    BY <1>1, <1>3, <2>1, <2>2, OnlyFeedbackKeeps DEF Good, Loose, OnlyFeedback, SameComposer
<1> HIDE DEF z
<1>5. Good(u) /\ u.state = "COMPOSITION" /\ u.feedback = z.feedback
  BY <1>4, BackToComposition
<1> HIDE DEF u
<1>a. Founded(u.feedback, u.state, standing)
  BY <1>4, <1>5, FoundedMoves
<1>6. \A r \in Candidates(u, {"other"}) \cup Compose(u) :
        Fine(r, session.reading) /\ Honest(r, FALSE)
  BY <1>5, <1>a, CandidatesFine, CandidatesHonest, ComposeFine, ComposeHonest
     DEF Editing, Styles, Good
<1>7. \A r \in Candidates(t, {"mozc", "other", "zenz"}) \cup Candidates(t, {"other"})
               \cup Compose(t) : Fine(r, session.reading) /\ Honest(r, FALSE)
  BY <1>1, <1>3, CandidatesFine, CandidatesHonest, ComposeFine, ComposeHonest DEF Styles, Good
<1>8. \A r \in responses : Fine(r, session.reading) /\ Honest(r, FALSE)
  BY <1>6, <1>7
<1> HIDE DEF responses
<1>9. QED
  BY <1>2, <1>8, CommandStep

LEMMA EnterStep ==
  ASSUME LiveInv, Enter
  PROVE  LiveInv' /\ Told
<1> DEFINE t == [session EXCEPT !.active = FALSE]
           r == IF Visible(session) THEN CommitZenz(session) ELSE CommitAny(t)
<1>1. /\ Good(session) /\ session.state \in Editing /\ Command({r}, FALSE)
      /\ Founded(session.feedback, session.state, standing)
  BY DEF LiveInv, Enter
<1>2. CASE Visible(session)
  BY <1>1, <1>2, CommitZenzFine, CommitZenzHonest, CommandStep
<1>3. CASE ~Visible(session)
  <2>1. session \in Sessions
    BY <1>1, GoodEditing
  <2>2. /\ t \in Sessions /\ t.state = session.state /\ t.reading = session.reading
        /\ t.cursor = session.cursor /\ t.undo = session.undo /\ t.key = session.key
        /\ t.value = session.value /\ ~t.active /\ t.feedback = session.feedback
    BY <2>1 DEF Sessions
  <2> HIDE DEF t
  <2>3. Typed(t) /\ Place(t) /\ UndoShape(t)
    BY <1>1, <2>2, GoodEditing DEF Typed, Place, UndoShape
  <2>4. t.state \in Editing /\ ~Visible(t)
    BY <1>1, <2>2 DEF Visible
  <2>5. Fine(CommitAny(t), session.reading)
    BY <2>2, <2>3, <2>4, CommitAnyFine
  <2>6. Honest(CommitAny(t), FALSE)
    <3>1. Committed(CommitAny(t), t)
      BY <2>3, <2>4, CommitAnyCommits
    <3>2. QED
      BY <1>1, <2>2, <2>3, <2>5, <3>1, CommittedHonest
  <2>7. r = CommitAny(t)
    BY <1>3
  <2> HIDE DEF r
  <2>8. QED
    BY <1>1, <2>5, <2>6, <2>7, CommandStep
<1>4. QED
  BY <1>2, <1>3

LEMMA SubmitStep ==
  ASSUME LiveInv, Submit
  PROVE  LiveInv' /\ Told
<1>1. /\ Good(session) /\ Command({CommitAny(session)}, FALSE)
      /\ Founded(session.feedback, session.state, standing)
  BY DEF LiveInv, Submit
<1>2. Fine(CommitAny(session), session.reading)
  BY <1>1, CommitAnyFine DEF Good, Loose
<1>3. QED
  BY <1>1, <1>2, CommitAnyHonest, CommandStep

LEMMA IMEStep ==
  ASSUME LiveInv, IMEOff \/ IMEOn
  PROVE  LiveInv' /\ Told
<1>1. Good(session) /\ Founded(session.feedback, session.state, standing)
  BY DEF LiveInv
<1>2. CASE Command({TurnedOff(Promote(session))}, FALSE)
  <2>1. Fine(TurnedOff(Promote(session)), session.reading)
    BY <1>1, PromoteGood, TurnedOffFine
  <2>2. Honest(TurnedOff(Promote(session)), FALSE)
    BY <1>1, PromoteGood, PromoteFounded, TurnedOffHonest
  <2>3. QED
    BY <1>2, <2>1, <2>2, CommandStep
<1>3. CASE Command({TurnedOff(session)}, FALSE)
  <2>1. Fine(TurnedOff(session), session.reading)
    BY <1>1, TurnedOffFine
  <2>2. QED
    BY <1>1, <1>3, <2>1, TurnedOffHonest, CommandStep
<1>4. CASE /\ session.state = "DIRECT"
           /\ Command({Reply([Precompose(session) EXCEPT !.undo = None], <<>>)}, FALSE)
  <2> DEFINE s == [session EXCEPT !.undo = None]
  <2>1. session \in Sessions /\ Typed(session)
    BY <1>1 DEF Good, Loose, Typed
  <2>2. Typed(s) /\ s.undo = None /\ UndoShape(s) /\ s.feedback = session.feedback
    BY <2>1, ForgetUndoKeeps
  <2>3. [Precompose(session) EXCEPT !.undo = None] = Precompose(s)
    BY <2>1 DEF Precompose, Sessions
  <2> HIDE DEF s
  <2>4. Fine(Reply(Precompose(s), <<>>), session.reading)
    BY <2>2, PrecomposeFine
  <2>5. Precompose(s).feedback.action = "none"
    BY <1>1, <1>4, <2>2, PrecomposeFacts DEF Founded, Typed
  <2>6. Honest(Reply(Precompose(s), <<>>), FALSE)
    BY <2>5, ReplyForgets
  <2>7. Command({Reply(Precompose(s), <<>>)}, FALSE)
    BY <1>4, <2>3
  <2> HIDE DEF Precompose
  <2>8. QED
    BY <1>1, <2>4, <2>6, <2>7, CommandStep
<1>5. QED
  BY <1>2, <1>3, <1>4 DEF IMEOff, IMEOn

LEMMA UndoStep ==
  ASSUME LiveInv, Undo
  PROVE  LiveInv' /\ Told
<1> DEFINE t == [Discard(session) EXCEPT
                   !.state = session.undo.state, !.reading = session.undo.reading,
                   !.cursor = session.undo.cursor, !.conv = session.undo.conv,
                   !.undo = None]
<1>1. Good(session) /\ session.undo # None /\ Command({Reply(t, Display(t))}, TRUE)
  BY DEF LiveInv, Undo
<1>2. Fine(Reply(t, Display(t)), session.reading)
  BY <1>1, UndoFine
<1>3. t.feedback = Discard(session).feedback
  <2>1. Discard(session) \in Sessions
    BY <1>1, DiscardForgets DEF Good, Loose, Typed
  <2>2. QED
    BY <2>1 DEF Sessions
<1> HIDE DEF t
<1>4. t.feedback.action = "none"
  BY <1>1, <1>3, DiscardForgets DEF Good, Loose, Typed
<1>5. QED
  BY <1>1, <1>2, <1>4, ReplyForgets, CommandStep

LEMMA ResetStep ==
  ASSUME LiveInv, ResetContext
  PROVE  LiveInv' /\ Told
<1> DEFINE d == Discard(session)
           s == [d EXCEPT !.undo = None]
           x == [Precompose(d) EXCEPT !.undo = None]
           r == IF session.state = "PRECOMPOSITION" THEN Erase(session)
                ELSE Reply(ClearLive(x), <<>>)
<1>1. Good(session) /\ Command({r}, FALSE)
  BY DEF LiveInv, ResetContext
<1>2. CASE session.state = "PRECOMPOSITION"
  <2>1. session \in Sessions /\ Fine(Erase(session), session.reading)
    BY <1>1, <1>2, EraseFine DEF Editing, Good, Loose, Typed
  <2>2. QED
    BY <1>1, <1>2, <2>1, EraseHonest, CommandStep
<1>3. CASE session.state # "PRECOMPOSITION"
  <2>1. OnlyFeedback(session, d) /\ d \in Sessions
    BY <1>1, FeedbackOnly, NoReading DEF Good, Loose, Typed, OnlyFeedback
  <2>2. Typed(d) /\ d.feedback.action = "none"
    BY <1>1, <2>1, OnlyFeedbackKeeps, DiscardForgets DEF Good, Loose, Typed
  <2> HIDE DEF d
  <2>3. Typed(s) /\ UndoShape(s) /\ s.feedback = d.feedback
    BY <2>2, ForgetUndoKeeps
  <2>4. x = Precompose(s)
    BY <2>1 DEF Precompose, Sessions
  <2> HIDE DEF s, x
  <2>5. Fine(Reply(ClearLive(x), <<>>), session.reading)
    BY <2>3, <2>4, ClearedFine
  <2>6. ClearLive(x).feedback.action = "none"
    BY <2>2, <2>3, <2>4, PrecomposeFacts, ClearLiveFacts DEF Typed
  <2>7. r = Reply(ClearLive(x), <<>>)
    BY <1>3
  <2> HIDE DEF r
  <2>8. QED
    BY <1>1, <2>5, <2>6, <2>7, ReplyForgets, CommandStep
<1>4. QED
  BY <1>2, <1>3

LEMMA MoveCursorStep ==
  ASSUME LiveInv, MoveCursor
  PROVE  LiveInv' /\ Told
<1>1. /\ Good(session) /\ session.state = "COMPOSITION"
      /\ Founded(session.feedback, session.state, standing)
  BY DEF LiveInv, MoveCursor
<1>2. PICK c \in 0..Len(session.reading) :
        Command(Compose([session EXCEPT !.cursor = c, !.undo = None]), FALSE)
  BY DEF MoveCursor
<1> DEFINE t == [session EXCEPT !.cursor = c, !.undo = None]
<1>3. /\ Typed(session) /\ Place(session) /\ Pend(session) /\ session \in Sessions
  BY <1>1, GoodEditing DEF Editing
<1>4. /\ t \in Sessions /\ t.cursor = c /\ t.undo = None /\ t.state = session.state
      /\ t.reading = session.reading /\ (t.pending <=> session.pending)
      /\ t.pendingKey = session.pendingKey /\ t.key = session.key /\ t.value = session.value
      /\ t.feedback = session.feedback
  <2>1. session.reading \in Seq(Chars)
    BY <1>3 DEF Sessions
  <2>2. c \in Nat
    BY <2>1, LenProperties
  <2>3. QED
    BY <1>3, <2>2 DEF Sessions
<1> HIDE DEF t
<1>5. Typed(t) /\ Place(t) /\ Pend(t) /\ UndoShape(t) /\ Undone(t)
  BY <1>3, <1>4 DEF Typed, Place, Pend, UndoShape, Undone
<1>6. Loose(t)
  BY <1>1, <1>4, <1>5 DEF Loose
<1>7. \A r \in Compose(t) : Fine(r, session.reading) /\ Honest(r, FALSE)
  BY <1>1, <1>4, <1>6, ComposeFine, ComposeHonest
<1>8. QED
  BY <1>2, <1>7, CommandStep DEF t

LEMMA CandidateStep ==
  ASSUME LiveInv, Transliterate \/ SelectCandidate \/ Unmapped \/ CommitFirstSuggestion
  PROVE  LiveInv' /\ Told
<1>1. /\ Good(session) /\ session.state \in Editing
      /\ Founded(session.feedback, session.state, standing)
  BY DEF LiveInv, Transliterate, SelectCandidate, Unmapped, CommitFirstSuggestion, Editing
<1>2. CASE Transliterate
  <2> DEFINE t == Promote(session)
  <2>1. Good(t) /\ t.state = session.state /\ Founded(t.feedback, t.state, standing)
    BY <1>1, PromoteGood, PromoteFounded
  <2> HIDE DEF t
  <2>2. \A r \in Candidates(t, {"other"}) : Fine(r, session.reading) /\ Honest(r, FALSE)
    BY <1>1, <2>1, CandidatesFine, CandidatesHonest DEF Styles
  <2>3. Command(Candidates(t, {"other"}), FALSE)
    BY <1>2 DEF Transliterate, t
  <2>4. QED
    BY <2>2, <2>3, CommandStep
<1>3. CASE SelectCandidate
  <2>1. \A r \in Candidates(session, {"mozc", "other"}) :
          Fine(r, session.reading) /\ Honest(r, FALSE)
    BY <1>1, CandidatesFine, CandidatesHonest DEF Styles
  <2>2. Command(Candidates(session, {"mozc", "other"}), FALSE)
    BY <1>3 DEF SelectCandidate
  <2>3. QED
    BY <2>1, <2>2, CommandStep
<1>4. CASE Unmapped
  <2>1. Loose(session) /\ Typed(session)
    BY <1>1 DEF Good, Loose
  <2>2. /\ Fine(Reply(session, Display(session)), session.reading)
        /\ Honest(Reply(session, Display(session)), FALSE)
    BY <1>1, <2>1, DisplayFacts, ReplyFine, ReplyHonest
  <2>3. Command({Reply(session, Display(session))}, FALSE)
    BY <1>4 DEF Unmapped
  <2>4. QED
    BY <2>2, <2>3, CommandStep
<1>5. CASE CommitFirstSuggestion
  <2> DEFINE text == As("other", session.reading)
             r == [Reply(Observe(Precompose(PushUndo(session)), text), <<>>)
                     EXCEPT !.result = text]
             p == PushUndo(session)
  <2>1. Fine(r, session.reading)
    BY <1>1, CommitFirstSuggestionFine
  <2>2. Command({r}, FALSE)
    BY <1>5 DEF CommitFirstSuggestion
  <2>3. Typed(session) /\ Place(session) /\ UndoShape(session)
    BY <1>1 DEF Good, Loose
  <2>4. p \in Sessions /\ p.feedback = session.feedback /\ p.state = session.state
    BY <2>3, PushUndoFacts DEF Typed
  <2>5. text \in Texts /\ text # <<>>
    BY <1>1, <2>3, AsFacts DEF Typed, Sessions, Place, Styles
  <2>6. r = CommitString(p, text)
    BY <2>5 DEF CommitString
  <2> HIDE DEF r, p, text
  <2>7. Committed(r, p)
    BY <2>4, <2>5, <2>6, CommitStringCommits
  <2>8. Committed(r, session)
    BY <2>4, <2>7 DEF Committed
  <2>9. Honest(r, FALSE)
    BY <1>1, <2>1, <2>3, <2>8, CommittedHonest
  <2>10. QED
    BY <2>1, <2>2, <2>9, CommandStep
<1>6. QED
  BY <1>2, <1>3, <1>4, <1>5

LEMMA DeliverStep ==
  ASSUME LiveInv, Deliver
  PROVE  LiveInv' /\ Told
<1>1. /\ Good(session) /\ Loose(session) /\ session \in Sessions /\ Place(session)
      /\ Founded(session.feedback, session.state, standing)
  BY DEF LiveInv, Good, Loose, Typed
<1>2. PICK r \in IF sent.type = "live" THEN ApplyLive(session, sent)
                 ELSE IF IsCurrentZenz(session, sent) THEN AdvanceZenz(session)
                 ELSE {Stale(session)} : Answer(r)
  BY DEF Deliver
<1>3. sent' = None /\ typed' = <<>> /\ standing' = standing
  BY DEF Deliver
<1>4. Fine(r, session.reading)
  <2>1. CASE r \in ApplyLive(session, sent)
    BY <1>1, <2>1, ApplyLiveFine
  <2>2. CASE IsCurrentZenz(session, sent) /\ r \in AdvanceZenz(session)
    BY <1>1, <2>2, AdvanceZenzFine
  <2>3. CASE r = Stale(session)
    BY <1>1, <2>3, StaleFine
  <2>4. QED
    BY <1>2, <2>1, <2>2, <2>3
<1>5. r.result = <<>> /\ Honest(r, FALSE)
  <2>1. Stale(session).result = <<>> /\ Honest(Stale(session), FALSE)
    BY <1>1, ReplyHonest DEF Stale, Reply
  <2>2. CASE r \in ApplyLive(session, sent)
    BY <1>1, <2>1, <2>2, ApplyLiveHonest
  <2>3. CASE IsCurrentZenz(session, sent) /\ r \in AdvanceZenz(session)
    BY <1>1, <2>3, AdvanceZenzHonest
  <2>4. QED
    BY <1>2, <2>1, <2>2, <2>3
<1>6. /\ Good(session)' /\ running' \in Requests \cup {None}
      /\ timer' \in Callbacks \cup {None}
      /\ shown' \in Texts /\ result' \in Texts
      /\ session'.state \in Editing => ReadingOf(shown') = session'.reading
      /\ result' = r.result /\ TrueRecord(recorded', result')
      /\ session'.state = r.s.state /\ session'.feedback = r.s.feedback
  BY <1>2, <1>4, <1>5, AnswerStep
<1>7. Founded(session.feedback, session.state, standing)'
  <2>1. Founded(r.s.feedback, r.s.state, standing)
    BY <1>5 DEF Honest
  <2>2. QED
    BY <1>3, <1>6, <2>1 DEF Founded
<1>8. LiveInv'
  BY <1>3, <1>6, <1>7 DEF LiveInv
<1>9. Told
  BY <1>5, <1>6 DEF Told
<1>10. QED
  BY <1>8, <1>9

\* What the worker takes and stores changes the two slots of the corrector.
LEMMA WorkerStep ==
  ASSUME LiveInv, WorkerTake \/ WorkerFinish
  PROVE  LiveInv' /\ Told
<1>1. Good(session) /\ session \in Sessions
  BY DEF LiveInv, Good, Loose, Typed
<1>2. /\ result' = <<>> /\ typed' = <<>> /\ shown' = shown /\ timer' = timer /\ sent' = sent
      /\ standing' = standing /\ recorded' = None
  BY DEF WorkerTake, WorkerFinish
<1>3. /\ session' \in Sessions /\ SameText(session, session') /\ SameCorrection(session, session')
      /\ session'.wait = session.wait /\ session'.zkey = session.zkey
      /\ session'.zgen = session.zgen
      /\ running' \in Requests \cup {None}
      /\ (\A r \in {session.request, session.answer, running} \ {None} :
            r.gen = session.zgen => r.key = session.zkey)
         => (\A r \in {session'.request, session'.answer, running'} \ {None} :
               r.gen = session.zgen => r.key = session.zkey)
  <2>1. CASE WorkerTake
    <3>1. session' = [session EXCEPT !.request = None] /\ running' = session.request
      BY <2>1 DEF WorkerTake
    <3>2. /\ session' \in Sessions /\ SameText(session, session')
          /\ SameCorrection(session, session') /\ session.request \in Requests \cup {None}
      BY <1>1, <3>1 DEF Sessions, SameText, SameCorrection, SameComposer, SameLive, SamePending
    <3>3. /\ session'.request = None /\ session'.answer = session.answer
          /\ session'.wait = session.wait /\ session'.zkey = session.zkey
          /\ session'.zgen = session.zgen
      BY <1>1, <3>1 DEF Sessions
    <3>4. QED
      BY <3>1, <3>2, <3>3
  <2>2. CASE WorkerFinish
    <3>1. PICK ok \in BOOLEAN :
            session' = [session EXCEPT !.answer = [gen |-> running.gen,
                                                   key |-> running.key, ok |-> ok]]
      BY <2>2 DEF WorkerFinish
    <3>2. running \in Requests /\ running' = None
      BY <2>2 DEF WorkerFinish, LiveInv
    <3>3. [gen |-> running.gen, key |-> running.key, ok |-> ok] \in Answers
      BY <3>2 DEF Requests, Answers
    <3> DEFINE answer == [gen |-> running.gen, key |-> running.key, ok |-> ok]
    <3>4. session' = [session EXCEPT !.answer = answer] /\ answer \in Answers
      BY <3>1, <3>3
    <3>5. answer.gen = running.gen /\ answer.key = running.key
      OBVIOUS
    <3> HIDE DEF answer
    <3>6. /\ session' \in Sessions /\ SameText(session, session')
          /\ SameCorrection(session, session')
      BY <1>1, <3>4 DEF Sessions, SameText, SameCorrection, SameComposer, SameLive, SamePending
    <3>7. /\ session'.request = session.request /\ session'.answer = answer
          /\ session'.wait = session.wait /\ session'.zkey = session.zkey
          /\ session'.zgen = session.zgen
      BY <1>1, <3>4 DEF Sessions
    <3>8. running # None
      BY <2>2 DEF WorkerFinish
    <3>9. QED
      BY <3>2, <3>5, <3>6, <3>7, <3>8
  <2>3. QED
    BY <2>1, <2>2

<1>4. /\ Typed(session) /\ Place(session) /\ Pend(session) /\ UndoShape(session)
      /\ Undone(session) /\ Work(session)
  BY <1>1 DEF Good, Loose
<1>5. (Typed(session) /\ Place(session) /\ Pend(session) /\ UndoShape(session)
       /\ Undone(session))'
  <2>1. Typed(session)'
    BY <1>3, <1>4 DEF Typed, SameText, SameComposer, SameLive
  <2>2. (Place(session) /\ Pend(session))'
    BY <1>3, <1>4 DEF Place, Pend, SameText, SameComposer, SameLive, SamePending
  <2>3. (UndoShape(session) /\ Undone(session))'
    BY <1>3, <1>4 DEF UndoShape, Undone, SameText, SameComposer, SameLive, SamePending
  <2>4. QED
    BY <2>1, <2>2, <2>3
<1>6. Work(session)'
  <2>1. Visible(session) => Visible(session)'
    BY <1>3 DEF Visible, SameText, SameComposer, SameLive, SameCorrection
  <2>2. /\ session'.reading = session.reading /\ session'.state = session.state
        /\ (session'.active <=> session.active) /\ (session'.pending <=> session.pending)
        /\ session'.key = session.key /\ session'.vvalue = session.vvalue
    BY <1>3 DEF SameText, SameComposer, SameLive, SamePending, SameCorrection
  <2>3. session'.active => session'.state = "CONVERSION" /\ session'.key = session'.reading
                           /\ ~session'.pending
    BY <1>4, <2>2 DEF Work
  <2>4. session'.wait # "no" =>
          /\ session'.active /\ session'.zkey = session'.reading
          /\ \A r \in {session'.request, session'.answer, running'} \ {None} :
               r.gen = session'.zgen => r.key = session'.zkey
    BY <1>3, <1>4, <2>2 DEF Work
  <2>5. session'.vvalue # <<>> =>
          Visible(session)' /\ session'.vvalue = As("zenz", session'.reading)
    BY <1>4, <2>1, <2>2 DEF Work
  <2>6. QED
    BY <2>3, <2>4, <2>5 DEF Work
<1>7. Good(session)'
  BY <1>5, <1>6 DEF Good, Loose
<1>8. LiveInv'
  <2>1. session'.state \in Editing => ReadingOf(shown') = session'.reading
    BY <1>2, <1>3 DEF LiveInv, SameText, SameComposer
  <2>2. session'.state = session.state /\ session'.feedback = session.feedback
    BY <1>3 DEF SameText, SameComposer
  <2>3. Founded(session.feedback, session.state, standing)'
    BY <1>2, <2>2 DEF LiveInv, Founded
  <2>4. QED
    BY <1>2, <1>3, <1>7, <2>1, <2>3, NoReading DEF LiveInv
<1>9. Told
  BY <1>2 DEF Told, TrueRecord
<1>10. QED
  BY <1>8, <1>9

LEMMA FireStep ==
  ASSUME LiveInv, Fire
  PROVE  LiveInv' /\ Told
<1>1. /\ session' = session /\ running' = running /\ shown' = shown /\ standing' = standing
      /\ sent' = timer /\ timer' = None /\ result' = <<>> /\ typed' = <<>> /\ recorded' = None
  BY DEF Fire
<1>2. Good(session)'
  BY <1>1 DEF LiveInv, Good, Loose, Work, Typed, Place, Pend, UndoShape, Undone, Visible
<1>3. LiveInv'
  BY <1>1, <1>2, NoReading DEF LiveInv, Founded
<1>4. Told
  BY <1>1 DEF Told, TrueRecord
<1>5. QED
  BY <1>3, <1>4

LEMMA LiveStep ==
  ASSUME LiveInv, Next
  PROVE  LiveInv' /\ Told
<1>1. CASE User
  <2>1. \A letter \in Letters \cup {Punct} : InsertCharacter(letter) => LiveInv' /\ Told
    BY InsertStep DEF Chars
  <2>2. QED
    BY <1>1, <2>1, BackspaceStep, EscapeStep, SpaceStep, PredictStep, EnterStep, SubmitStep,
       IMEStep, UndoStep, ResetStep, MoveCursorStep, CandidateStep DEF User
<1>2. QED
  BY <1>1, FireStep, DeliverStep, WorkerStep DEF Next

LEMMA LiveInit == Init => LiveInv
<1> SUFFICES ASSUME Init PROVE LiveInv
  OBVIOUS
<1>1. /\ session.state = "PRECOMPOSITION" /\ session.reading = <<>> /\ session.cursor = 0
      /\ session.undo = None /\ ~session.active /\ ~session.pending /\ session.key = <<>>
      /\ session.value = <<>> /\ session.wait = "no" /\ session.vvalue = <<>>
  BY DEF Init
<1>2. session \in Sessions
  <2>1. NoFeedback \in Feedbacks
    BY NoReading DEF NoFeedback, Feedbacks
  <2>2. "raw" \in Styles /\ "PRECOMPOSITION" \in States /\ 1 \in Generations /\ 0 \in 0..MaxPolls
    BY ConstantsAssumption DEF Styles, States, Generations
  <2>3. QED
    BY <2>1, <2>2, NoReading DEF Init, Sessions
<1>3. Typed(session) /\ Calm(session) /\ UndoShape(session)
  <2>1. Len(<<>>) = 0 /\ ReadingOf(<<>>) = <<>>
    BY NoReading, ReadingOfFacts
  <2>2. QED
    BY <1>1, <1>2, <2>1 DEF Typed, Calm, UndoShape
<1>4. Place(session) /\ session.state \notin Editing
  BY <1>1, NoReading DEF Place, Editing
<1>5. Loose(session)
  BY <1>1, <1>3, <1>4, CalmLoose
<1>6. Work(session)
  BY <1>1 DEF Work
<1>7. QED
  BY <1>4, <1>5, <1>6, NoReading DEF Init, LiveInv, Good, Founded, NoFeedback

LEMMA LiveInvariant == Spec => []LiveInv
<1>1. LiveInv /\ UNCHANGED vars => LiveInv'
  BY DEF vars, LiveInv, Good, Loose, Work, Typed, Place, Pend, UndoShape, Undone, Visible,
     Founded
<1>2. LiveInv /\ [Next]_vars => LiveInv'
  BY <1>1, LiveStep
<1>3. QED
  BY <1>2, LiveInit, PTL DEF Spec

-----------------------------------------------------------------------------
\* OnlyCurrentWork, for every order in which keys, callbacks and answers of the
\* model arrive: what Session still has under way is about the text being
\* composed.
THEOREM WorkIsCurrent == Spec => []OnlyCurrentWork
<1>1. LiveInv => OnlyCurrentWork
  <2> SUFFICES ASSUME LiveInv PROVE OnlyCurrentWork
    OBVIOUS
  <2>1. /\ session \in Sessions /\ Typed(session) /\ Place(session) /\ Work(session)
        /\ Pend(session)
    BY DEF LiveInv, Good, Loose, Typed
  <2>2. session.reading \in Readings /\ session.reading \in Seq(Chars)
    BY <2>1, ReadingsAreSequences DEF Place
  <2>3. session.cursor \in 0..Len(session.reading)
    <3>1. session.cursor \in Nat /\ session.cursor <= Len(session.reading)
      BY <2>1 DEF Typed, Sessions
    <3>2. QED
      BY <2>2, <3>1, LenProperties
  <2>4. TypeOK
    <3>1. /\ session.state \in {"DIRECT", "PRECOMPOSITION"} \cup Editing
          /\ session.conv \in Styles /\ session.gen \in Generations
          /\ session.zgen \in Generations /\ session.wait \in {"no", "scheduled", "submitted"}
          /\ session.polls \in 0..MaxPolls
          /\ {session.key, session.pendingKey, session.zkey, session.vkey} \subseteq Readings
          /\ {session.value, session.zbase, session.vvalue, session.vbase} \subseteq Texts
          /\ session.request \in Requests \cup {None}
      BY <2>1 DEF Sessions, States
    <3>2. /\ {shown, result, standing} \subseteq Texts
          /\ typed \in {<<>>} \cup {<<letter>> : letter \in Letters \cup {Punct}}
          /\ running \in Requests \cup {None} /\ {timer, sent} \subseteq Callbacks \cup {None}
      BY DEF LiveInv, Chars
    <3>3. QED
      BY <2>2, <2>3, <3>1, <3>2 DEF TypeOK
  <2>5. session.active => /\ session.state = "CONVERSION"
                          /\ session.key = session.reading
                          /\ ReadingOf(session.value) = session.reading
    BY <2>1 DEF Work, Typed
  <2>6. session.wait # "no" => session.active /\ session.zkey = session.reading
    BY <2>1 DEF Work
  <2>7. session.vvalue # <<>> => /\ Visible(session)
                                 /\ ReadingOf(session.vvalue) = session.reading
    BY <2>1, <2>2, AsFacts DEF Work, Styles
  <2>8. session.pending /\ session.state \in Editing => session.pendingKey = session.reading
    BY <2>1 DEF Pend
  <2>9. QED
    BY <2>4, <2>5, <2>6, <2>7, <2>8 DEF OnlyCurrentWork
<1>2. QED
  BY <1>1, LiveInvariant, PTL

\* NeverBlank: whatever callback arrives, and however late, the response shows
\* the whole of the text that the composer holds.
THEOREM PreeditIsWhole == Spec => []NeverBlank
<1>1. LiveInv => NeverBlank
  BY DEF LiveInv, NeverBlank
<1>2. QED
  BY <1>1, LiveInvariant, PTL

\* WholeTextCommitted: a commit loses and repeats no letter, whichever of the
\* converter's, the pending and the corrected text it takes.
THEOREM CommitsAreWhole == Spec => WholeTextCommitted
<1>1. LiveInv /\ [Next]_vars =>
        [result' # <<>> => ReadingOf(result') \o session'.reading = session.reading \o typed']_vars
  BY LiveStep DEF Told
<1>2. QED
  BY <1>1, LiveInvariant, PTL DEF Spec, WholeTextCommitted

\* FeedbackIsTrue: Confirm records an acceptance only of a text that was
\* committed and still stands, a rejection only when another text was committed.
THEOREM FeedbackAlwaysTrue == Spec => FeedbackIsTrue
<1>1. LiveInv /\ [Next]_vars =>
        [recorded' # None =>
           IF recorded'.action = "accepted"
           THEN IsPrefix(recorded'.value, standing) \/ IsPrefix(recorded'.value, result')
           ELSE recorded'.value # IF result' = <<>> THEN standing ELSE result']_vars
  BY LiveStep DEF Told, TrueRecord
<1>2. QED
  BY <1>1, LiveInvariant, PTL DEF Spec, FeedbackIsTrue

-----------------------------------------------------------------------------
(* What the user sees, for a client whose timer any key resets (fcitx5) and *)
(* the routine of typing, with or without Undo and conversions that fail.   *)

Routine == ~KeepsTimer /\ Situations \subseteq {"undo", "failure"}

\* The text that Enter commits.
Overlay(s) == IF Visible(s) THEN s.vvalue
              ELSE IF s.pending THEN PendingDisplay(s) ELSE Display(s)

\* A delayed conversion is of a composition, a correction is asked for while
\* none is shown, and a live conversion is the converter's first candidate.
Tidy(s) ==
  /\ s.pending => s.state = "COMPOSITION"
  /\ s.wait # "no" => s.vvalue = <<>>
  /\ s.active => s.conv = "mozc" /\ s.value = As("mozc", s.reading)

\* A callback that the session still waits for.
Current(s, c) == IF c.type = "live" THEN IsCurrentLive(s, c) ELSE IsCurrentZenz(s, c)

\* A response shows what Enter would commit, and asks for a callback that will
\* find the session waiting for it.
Seen(r) ==
  /\ Tidy(r.s)
  /\ r.s.state \in Editing => r.shown = Overlay(r.s)
  /\ r.callback = None \/ Current(r.s, r.callback)

\* Most responses leave no work under way.
Rest(s) == ~s.active /\ ~s.pending /\ s.wait = "no"
AtRest(r) ==
  /\ Rest(r.s) /\ r.callback = None
  /\ r.s.state \in Editing => r.shown = Display(r.s)

LEMMA RestSeen ==
  ASSUME NEW r, AtRest(r)
  PROVE  Seen(r)
BY DEF AtRest, Rest, Seen, Tidy, Overlay, Visible

LEMMA ReplyRests ==
  ASSUME NEW s, Rest(s), NEW text, s.state \in Editing => text = Display(s)
  PROVE  AtRest(Reply(s, text))
BY DEF AtRest, Reply

LEMMA ClearedRests ==
  ASSUME NEW s \in Sessions
  PROVE  /\ Rest(ClearLive(s)) /\ Rest(CancelForEditing(s))
         /\ ~s.active => Rest(CancelPendingLive(s))
         /\ Rest(s) => Rest(ClearZenz(s)) /\ Rest(Precompose(s))
<1>1. Rest(ClearLive(s))
  BY ClearLiveFacts DEF Rest
<1>2. Rest(CancelForEditing(s))
  BY CancelForEditingFacts DEF Rest
<1>3. ~s.active => Rest(CancelPendingLive(s))
  BY CancelPendingLiveFacts DEF Rest, SameLive
<1>4. Rest(s) => Rest(ClearZenz(s))
  BY ClearZenzFacts DEF Rest, SameLive, SamePending
<1>5. Rest(s) => Rest(Precompose(s))
  BY DEF Rest, Precompose, Sessions
<1>6. QED
  BY <1>1, <1>2, <1>3, <1>4, <1>5

\* What feedback, Undo and the composer do leaves the work alone.
LEMMA EditsRest ==
  ASSUME NEW s \in Sessions, Rest(s), NEW x, NEW text, NEW letter
  PROVE  /\ Rest([s EXCEPT !.feedback = x]) /\ Rest([s EXCEPT !.undo = x])
         /\ Rest(Observe(s, text)) /\ Observe(s, text).state = s.state
         /\ Rest(Insert(s, letter)) /\ Rest(PushUndo(s))
<1>1. Rest([s EXCEPT !.feedback = x]) /\ Rest([s EXCEPT !.undo = x])
  BY DEF Rest, Sessions
<1>2. Rest(Observe(s, text)) /\ Observe(s, text).state = s.state
  BY DEF Rest, Observe, Sessions
<1>3. Rest(Insert(s, letter))
  BY DEF Rest, Insert, Sessions
<1>4. Rest(PushUndo(s))
  BY DEF Rest, PushUndo, Sessions
<1>5. QED
  BY <1>1, <1>2, <1>3, <1>4

LEMMA CommitStringRests ==
  ASSUME NEW s \in Sessions, Rest(s), NEW text
  PROVE  AtRest(CommitString(s, text))
<1>1. CASE text = <<>>
  BY <1>1, ReplyRests DEF CommitString
<1>2. CASE text # <<>>
  <2> DEFINE p == Precompose(s)
             u == Observe(p, text)
             r == CommitString(s, text)
  <2>1. p \in Sessions /\ Rest(p) /\ p.state = "PRECOMPOSITION"
    BY ClearedRests, PrecomposeFacts
  <2>2. r.s = u /\ r.callback = None
    BY <1>2 DEF CommitString, Reply
  <2> HIDE DEF p
  <2>3. Rest(u) /\ u.state = "PRECOMPOSITION"
    BY <2>1, EditsRest
  <2> HIDE DEF u, r
  <2>4. AtRest(r)
    BY <2>2, <2>3 DEF AtRest, Editing
  <2> QED
    BY <2>4 DEF r
<1> QED
  BY <1>1, <1>2

\* What the end of SendKey and SendCommand leaves of a response is still seen.
LEMMA LeaveConversionSeen ==
  ASSUME NEW r, Seen(r), r.s \in Sessions
  PROVE  LET t == LeaveConversion(r.s)
         IN  /\ Tidy(t) /\ t.state = r.s.state
             /\ t.state \in Editing => r.shown = Overlay(t)
             /\ r.callback = None \/ Current(t, r.callback)
<1> DEFINE s == r.s
<1>1. CASE s.state = "CONVERSION"
  BY <1>1 DEF LeaveConversion, Seen
<1>2. CASE s.state # "CONVERSION"
  <2> DEFINE u == [s EXCEPT !.active = FALSE]
             t == ClearZenz(u)
  <2>1. /\ u \in Sessions /\ SameComposer(s, u) /\ SamePending(s, u) /\ u.gen = s.gen
        /\ u.key = s.key /\ u.value = s.value /\ ~u.active
    BY DEF Sessions, SameComposer, SamePending
  <2>2. /\ SameComposer(u, t) /\ SameLive(u, t) /\ SamePending(u, t)
        /\ t.wait = "no" /\ t.vvalue = <<>>
    BY <2>1, ClearZenzFacts
  <2>3. t.gen = u.gen
    BY <2>1 DEF ClearZenz, CancelPendingZenz, Sessions
  <2>4. LeaveConversion(s) = t
    BY <1>2 DEF LeaveConversion
  <2> HIDE DEF u, t
  <2>5. /\ SameComposer(s, t) /\ t.key = s.key /\ t.value = s.value /\ ~t.active
        /\ SamePending(s, t) /\ t.gen = s.gen
    BY <2>1, <2>2, <2>3 DEF SameComposer, SameLive, SamePending
  <2>6. Tidy(t) /\ t.state = s.state
    BY <2>2, <2>5 DEF Seen, Tidy, SameComposer, SamePending
  <2>7. PendingDisplay(t) = PendingDisplay(s) /\ Display(t) = Display(s)
    BY <2>5 DEF PendingDisplay, Display, SameComposer
  <2>8. Overlay(t) = Overlay(s)
    BY <1>2, <2>5, <2>6, <2>7 DEF Overlay, Visible, SamePending
  <2>9. r.callback = None \/ Current(t, r.callback)
    BY <1>2, <2>5 DEF Seen, Current, IsCurrentLive, IsCurrentZenz, SameComposer, SamePending
  <2>10. QED
    BY <2>4, <2>6, <2>8, <2>9 DEF Seen
<1>3. QED
  BY <1>1, <1>2

\* Feedback changes nothing that is seen.
LEMMA FeedbackRests ==
  ASSUME NEW s, NEW t, OnlyFeedback(s, t), Rest(s)
  PROVE  Rest(t) /\ t \in Sessions /\ t.state = s.state
BY DEF OnlyFeedback, Rest, SameComposer, SameLive, SamePending

LEMMA CommitPendingDisplayRests ==
  ASSUME NEW s \in Sessions
  PROVE  AtRest(CommitPendingDisplay(s))
<1>1. ClearLive(s) \in Sessions /\ Rest(ClearLive(s))
  BY ClearLiveFacts, ClearedRests
<1>2. QED
  BY <1>1, CommitStringRests DEF CommitPendingDisplay

LEMMA CommitZenzRests ==
  ASSUME NEW s \in Sessions
  PROVE  AtRest(CommitZenz(s))
<1> DEFINE t == Accepted(s, s.vvalue)
<1>1. t \in Sessions
  BY FeedbackOnly DEF OnlyFeedback, Sessions
<1> HIDE DEF t
<1>2. ClearLive(t) \in Sessions /\ Rest(ClearLive(t))
  BY <1>1, ClearLiveFacts, ClearedRests
<1>3. QED
  BY <1>2, CommitStringRests DEF CommitZenz, t

LEMMA CommitInternalRests ==
  ASSUME NEW s, Typed(s), Place(s), UndoShape(s), s.state \in Editing \/ Rest(s)
  PROVE  AtRest(CommitInternal(s))
<1>1. CASE s.state \notin Editing
  BY <1>1, ReplyRests DEF CommitInternal
<1>2. CASE s.state \in Editing
  <2> DEFINE p == PushUndo(s)
             t == Precompose(p)
             u == Observe(t, Display(s))
             c == ClearLive(u)
             r == CommitInternal(s)
  <2>1. p \in Sessions
    BY PushUndoFacts DEF Typed
  <2>2. r.s = c /\ r.callback = None
    BY <1>2 DEF CommitInternal, Reply
  <2> HIDE DEF p
  <2>3. t \in Sessions /\ t.state = "PRECOMPOSITION"
    BY <2>1, PrecomposeFacts
  <2> HIDE DEF t
  <2>4. u \in Sessions /\ u.state = "PRECOMPOSITION"
    BY <2>3, DisplayFacts, FeedbackOnly DEF OnlyFeedback, SameComposer
  <2> HIDE DEF u
  <2>5. Rest(c) /\ c.state = "PRECOMPOSITION"
    BY <2>4, ClearedRests, ClearLiveFacts DEF SameComposer
  <2> HIDE DEF c, r
  <2>6. AtRest(r)
    BY <2>2, <2>5 DEF AtRest, Editing
  <2> QED
    BY <2>6 DEF r
<1> QED
  BY <1>1, <1>2

LEMMA CommitAnyRests ==
  ASSUME NEW s, Typed(s), Place(s), UndoShape(s), s.state \in Editing \/ Rest(s)
  PROVE  AtRest(CommitAny(s))
<1>1. s \in Sessions /\ PushUndo(s) \in Sessions
  BY PushUndoFacts DEF Typed
<1>2. QED
  BY <1>1, CommitZenzRests, CommitPendingDisplayRests, CommitInternalRests DEF CommitAny

\* A live conversion shows its first candidate, or a correction that the
\* feedback store knows; the callbacks it asks for will be current.
LEMMA ScheduleZenzSeen ==
  ASSUME NEW s \in Sessions, Tidy(s), s.state = "CONVERSION", s.active, ~s.pending,
         s.wait = "no", s.vvalue = <<>>, NEW r \in ScheduleZenz(s)
  PROVE  Seen(r)
<1> DEFINE t == [s EXCEPT !.zgen = Fresh("zenz"), !.wait = "scheduled",
                          !.polls = 0, !.zkey = s.key, !.zbase = s.value]
           u == [t EXCEPT !.wait = "submitted", !.polls = 0, !.answer = None,
                          !.request = [gen |-> t.zgen, key |-> t.zkey]]
<1>1. /\ SameComposer(s, t) /\ SameLive(s, t) /\ SamePending(s, t)
      /\ t.wait = "scheduled" /\ t.zkey = s.key /\ t.zbase = s.value /\ t.vvalue = <<>>
      /\ t.zgen = Fresh("zenz")
  BY DEF Sessions, SameComposer, SameLive, SamePending
<1>2. /\ SameComposer(s, u) /\ SameLive(s, u) /\ SamePending(s, u)
      /\ u.wait = "submitted" /\ u.zkey = s.key /\ u.zbase = s.value /\ u.vvalue = <<>>
      /\ u.zgen = Fresh("zenz")
  BY ZenonT(60) DEF Sessions, SameComposer, SameLive, SamePending
<1>3. \/ r = Reply(s, Display(s)) \/ r = WithCallback(Reply(t, Display(t)), "zenz")
      \/ r = WithCallback(Reply(u, Display(t)), "zenz")
  BY DEF ScheduleZenz, Submitted
<1> HIDE DEF t, u
<1>4. CASE r = Reply(s, Display(s))
  BY <1>4 DEF Seen, Reply, Overlay, Visible
<1>5. ASSUME NEW v \in {t, u}, r = WithCallback(Reply(v, Display(t)), "zenz")
      PROVE  Seen(r)
  <2>1. /\ SameComposer(s, v) /\ SameLive(s, v) /\ SamePending(s, v) /\ v.wait # "no"
        /\ v.zkey = s.key /\ v.zbase = s.value /\ v.vvalue = <<>>
    BY <1>1, <1>2
  <2>2. /\ r.s = v /\ r.shown = Display(t)
        /\ r.callback = [type |-> "zenz", gen |-> v.zgen, key |-> v.zkey]
    BY <1>5 DEF WithCallback, Reply
  <2>3. Display(v) = Display(t)
    BY <1>1, <2>1 DEF Display, SameComposer
  <2>4. Tidy(v) /\ Overlay(v) = Display(v)
    BY <2>1 DEF Tidy, Overlay, Visible, SameComposer, SameLive, SamePending
  <2>5. IsCurrentZenz(v, r.callback)
    BY <2>1, <2>2 DEF IsCurrentZenz, SameComposer, SameLive
  <2>6. Current(v, r.callback)
    BY <2>2, <2>5 DEF Current
  <2>7. QED
    BY <2>2, <2>3, <2>4, <2>6 DEF Seen
<1>6. QED
  BY <1>3, <1>4, <1>5

LEMMA ShowSeen ==
  ASSUME NEW s \in Sessions, Tidy(s), s.state = "CONVERSION", s.active, s.wait = "no",
         NEW text, text # <<>>
  PROVE  Seen(Show(s, s.key, text, s.value))
<1> DEFINE v == [s EXCEPT !.vkey = s.key, !.vvalue = text, !.vbase = s.value]
           r == Show(s, s.key, text, s.value)
<1>1. /\ SameComposer(s, v) /\ SameLive(s, v) /\ SamePending(s, v)
      /\ v.wait = "no" /\ v.vkey = s.key /\ v.vvalue = text /\ v.vbase = s.value
  BY DEF Sessions, SameComposer, SameLive, SamePending
<1>2. r.s = v /\ r.shown = text /\ r.callback = None
  BY DEF Show, Reply
<1> HIDE DEF v, r
<1>3. Tidy(v) /\ Visible(v)
  BY <1>1 DEF Tidy, Visible, SameComposer, SameLive, SamePending
<1>4. Seen(r)
  BY <1>1, <1>2, <1>3 DEF Seen, Overlay
<1>5. QED
  BY <1>4 DEF r

LEMMA StartLiveSeen ==
  ASSUME NEW s \in Sessions, s.reading \in Readings, s.reading # <<>>, CanStart(s),
         ~s.active, s.wait = "no", NEW r \in StartLive(s)
  PROVE  Seen(r)
<1> DEFINE t == [s EXCEPT !.pending = FALSE, !.pendingKey = <<>>]
           w == [t EXCEPT !.state = "CONVERSION", !.conv = "mozc", !.active = TRUE,
                          !.key = s.reading, !.value = As("mozc", s.reading)]
           u == ClearZenz(w)
           known == [u EXCEPT !.zgen = Fresh("zenz")]
<1>1. s.reading \in Seq(Chars)
  BY ReadingsAreSequences
<1>2. t \in Sessions /\ ~t.pending
  BY NoReading, ZenonT(60) DEF Sessions
<1>3. As("mozc", s.reading) \in Texts
  BY <1>1, AsFacts DEF Styles
<1>4. /\ w \in Sessions /\ w.state = "CONVERSION" /\ w.reading = s.reading
      /\ w.conv = "mozc" /\ w.active /\ ~w.pending
      /\ w.key = s.reading /\ w.value = As("mozc", s.reading)
  BY <1>3, NoReading, ZenonT(60) DEF Sessions, States, Styles, Editing
<1>5. /\ u \in Sessions /\ SameComposer(w, u) /\ SameLive(w, u) /\ SamePending(w, u)
      /\ u.wait = "no" /\ u.vvalue = <<>>
  BY <1>4, ClearZenzFacts
<1>6. \/ r \in ScheduleZenz(u)
      \/ r = Show(known, u.key, As("zenz", u.key), u.value)
      \/ r = Reply(t, Display(t))
  <2>1. s.reading \notin Transient
    BY ConstantsAssumption DEF CanStart
  <2>2. QED
    BY <2>1 DEF StartLive
<1>a. Rest(t)
  BY <1>2 DEF Rest, Sessions
<1> HIDE DEF t, w, u
<1>7. /\ u.state = "CONVERSION" /\ u.active /\ ~u.pending /\ u.key = s.reading
      /\ u.conv = "mozc" /\ u.reading = s.reading /\ u.value = As("mozc", s.reading)
  BY <1>4, <1>5 DEF SameComposer, SameLive, SamePending
<1>8. Tidy(u)
  BY <1>5, <1>7 DEF Tidy
<1>9. CASE r \in ScheduleZenz(u)
  BY <1>5, <1>7, <1>8, <1>9, ScheduleZenzSeen
<1>10. CASE r = Show(known, u.key, As("zenz", u.key), u.value)
  <2>a. known \in Sessions
    BY <1>5, FreshFacts, ZenonT(60) DEF Sessions
  <2>b. /\ SameComposer(u, known) /\ SameLive(u, known) /\ SamePending(u, known)
        /\ known.wait = u.wait /\ known.vvalue = u.vvalue
    BY <1>5, ZenonT(60) DEF Sessions, SameComposer, SameLive, SamePending
  <2> HIDE DEF known
  <2>1. /\ known \in Sessions /\ SameComposer(u, known) /\ SameLive(u, known)
        /\ SamePending(u, known) /\ known.wait = "no" /\ known.vvalue = <<>>
    BY <1>5, <2>a, <2>b
  <2>2. /\ known.state = "CONVERSION" /\ known.active /\ known.key = u.key
        /\ known.value = u.value /\ Tidy(known)
    BY <1>7, <1>8, <2>1 DEF Tidy, SameComposer, SameLive, SamePending
  <2>3. As("zenz", u.key) # <<>>
    BY <1>1, <1>7, AsFacts DEF Styles
  <2>4. Seen(Show(known, known.key, As("zenz", u.key), known.value))
    BY <2>1, <2>2, <2>3, ShowSeen
  <2>5. QED
    BY <1>10, <2>2, <2>4
<1>11. CASE r = Reply(t, Display(t))
  BY <1>11, <1>a, ReplyRests, RestSeen
<1>12. QED
  BY <1>6, <1>9, <1>10, <1>11

LEMMA ComposeRests ==
  ASSUME NEW s, Rest(s), s.state # "CONVERSION", NEW r \in Compose(s)
  PROVE  AtRest(r)
<1>1. r = Reply(s, Display(s))
  BY DEF Compose, Display
<1>2. QED
  BY <1>1, ReplyRests

LEMMA CandidatesRest ==
  ASSUME NEW s \in Sessions, Rest(s), NEW styles, NEW r \in Candidates(s, styles)
  PROVE  AtRest(r)
<1>1. PICK style \in styles :
        r = Reply([s EXCEPT !.state = "CONVERSION", !.conv = style],
                  Display([s EXCEPT !.state = "CONVERSION", !.conv = style]))
  BY DEF Candidates
<1> DEFINE t == [s EXCEPT !.state = "CONVERSION", !.conv = style]
<1>2. Rest(t) /\ r = Reply(t, Display(t))
  BY <1>1 DEF Rest, Sessions
<1> HIDE DEF t
<1>3. QED
  BY <1>2, ReplyRests

LEMMA ScheduleLiveSeen ==
  ASSUME NEW s \in Sessions, Rest(s), s.state = "COMPOSITION", s.reading \in Readings,
         s.reading # <<>>, NEW r \in ScheduleLive(s)
  PROVE  Seen(r)
<1> DEFINE t == [s EXCEPT !.gen = Fresh("live"), !.pending = TRUE, !.pendingKey = s.reading]
           c == CancelPendingLive(s)
<1>1. /\ t \in Sessions /\ SameComposer(s, t) /\ SameLive(s, t) /\ t.pending
      /\ t.pendingKey = s.reading /\ t.wait = s.wait
  BY FreshFacts, ZenonT(60) DEF Sessions, SameComposer, SameLive
<1>2. \/ r = WithCallback(Reply(t, PendingDisplay(t)), "live")
      \/ CanStart(t) /\ r \in StartLive(t)
      \/ r \in Compose(c)
  BY DEF ScheduleLive, StartLiveOr
<1> HIDE DEF t
<1>3. CASE r = WithCallback(Reply(t, PendingDisplay(t)), "live")
  <2>1. /\ r.s = t /\ r.shown = PendingDisplay(t)
        /\ r.callback = [type |-> "live", gen |-> t.gen, key |-> t.pendingKey]
    BY <1>3 DEF WithCallback, Reply
  <2>2. Tidy(t)
    BY <1>1 DEF Tidy, Rest, SameComposer, SameLive
  <2>3. Overlay(t) = PendingDisplay(t)
    BY <1>1 DEF Overlay, Visible, SameComposer
  <2>4. IsCurrentLive(t, r.callback)
    BY <1>1, <2>1 DEF IsCurrentLive, SameComposer
  <2>5. Current(t, r.callback)
    BY <2>1, <2>4 DEF Current
  <2>6. QED
    BY <2>1, <2>2, <2>3, <2>5 DEF Seen
<1>4. CASE CanStart(t) /\ r \in StartLive(t)
  BY <1>1, <1>4, StartLiveSeen DEF Rest, SameComposer, SameLive
<1>5. CASE r \in Compose(c)
  <2>1. c.state = "COMPOSITION" /\ Rest(c)
    BY CancelPendingLiveFacts, ClearedRests DEF SameComposer, Rest
  <2> HIDE DEF c
  <2>2. QED
    BY <1>5, <2>1, ComposeRests, RestSeen
<1>6. QED
  BY <1>2, <1>3, <1>4, <1>5

\* The callbacks under way are ones that the session waits for.  A key resets
\* the timer, and waits for the answer to a callback that was sent.
ShownInv ==
  /\ Tidy(session)
  /\ session.state \in Editing => shown = Overlay(session)
  /\ timer = None \/ sent = None
  /\ timer = None \/ Current(session, timer)
  /\ sent = None \/ Current(session, sent)

LEMMA AnswerSeen ==
  ASSUME Routine, NEW r, Seen(r), r.s \in Sessions, Answer(r), sent' = None
  PROVE  ShownInv'
<1> DEFINE t == LeaveConversion(r.s)
<1>1. session' = t /\ shown' = r.shown /\ timer' = r.callback
  BY DEF Answer, Routine
<1>2. /\ Tidy(t) /\ t.state = r.s.state
      /\ t.state \in Editing => r.shown = Overlay(t)
      /\ r.callback = None \/ Current(t, r.callback)
  BY LeaveConversionSeen
<1> HIDE DEF t
<1>3. QED
  BY <1>1, <1>2 DEF ShownInv

LEMMA CommandSeen ==
  ASSUME Routine, ShownInv, NEW responses, NEW letters, NEW erases,
         \A r \in responses : r.s \in Sessions /\ Seen(r),
         Handle(responses, letters, erases)
  PROVE  ShownInv'
<1>1. sent' = None /\ \E r \in responses : Answer(r)
  BY DEF Handle, Routine
<1>2. QED
  BY <1>1, AnswerSeen

LEMMA OneRests ==
  ASSUME Routine, ShownInv, NEW r, r.s \in Sessions, AtRest(r), NEW erases,
         Command({r}, erases)
  PROVE  ShownInv'
<1>1. Seen(r)
  BY RestSeen
<1>2. \A q \in {r} : q.s \in Sessions /\ Seen(q)
  BY <1>1
<1>3. Handle({r}, <<>>, erases)
  BY DEF Command
<1>4. QED
  BY <1>2, <1>3, CommandSeen

\* Outside a composition no work is under way, inside one at most a delayed
\* conversion, in a conversion by the user none but the correction's.
LEMMA RestOutside ==
  ASSUME Good(session), Tidy(session)
  PROVE  /\ session \in Sessions
         /\ session.state \notin Editing => Rest(session)
         /\ session.state = "CONVERSION" /\ ~session.active => Rest(session)
         /\ session.state = "COMPOSITION" => ~session.active
         /\ session.state = "CONVERSION" => ~session.pending
BY DEF Good, Loose, Typed, Work, Tidy, Rest, Editing

LEMMA EraseRests ==
  ASSUME NEW s \in Sessions, Rest(s), s.state \notin Editing
  PROVE  AtRest(Erase(s))
<1> DEFINE d == Discard(s)
           t == [d EXCEPT !.undo = None]
<1>1. Rest(d) /\ d \in Sessions /\ d.state = s.state
  BY FeedbackOnly, FeedbackRests, NoReading
<1> HIDE DEF d
<1>2. Rest(t) /\ t.state = s.state
  BY <1>1 DEF Rest, Sessions
<1>3. Erase(s) = Reply(t, <<>>)
  BY DEF Erase, d
<1> HIDE DEF t
<1>4. QED
  BY <1>2, <1>3, ReplyRests

LEMMA ConvertCancelRests ==
  ASSUME NEW s \in Sessions, NEW r \in ConvertCancel(s)
  PROVE  AtRest(r)
<1> DEFINE d == Discard(s)
           c == ClearLive(d)
           t == [c EXCEPT !.state = "COMPOSITION", !.conv = "raw"]
<1>1. d \in Sessions
  BY FeedbackOnly, NoReading DEF OnlyFeedback
<1> HIDE DEF d
<1>2. c \in Sessions /\ Rest(c)
  BY <1>1, ClearLiveFacts, ClearedRests
<1> HIDE DEF c
<1>3. Rest(t) /\ t.state = "COMPOSITION"
  BY <1>2 DEF Rest, Sessions
<1>4. r \in Compose(t)
  BY DEF ConvertCancel, t, c, d
<1> HIDE DEF t
<1>5. QED
  BY <1>3, <1>4, ComposeRests

LEMMA BackspaceSeen ==
  ASSUME Routine, LiveInv, ShownInv, Backspace
  PROVE  ShownInv'
<1> DEFINE t == Shortened(session)
<1>1. Good(session) /\ session \in Sessions /\ Tidy(session)
  BY DEF LiveInv, Good, Loose, Typed, ShownInv
<1>2. CASE session.state = "PRECOMPOSITION" /\ Command({Erase(session)}, TRUE)
  <2>1. Erase(session).s \in Sessions
    BY <1>1, <1>2, EraseFine DEF Editing, Fine, Loose, Typed
  <2>2. AtRest(Erase(session))
    BY <1>1, <1>2, RestOutside, EraseRests DEF Editing
  <2>3. QED
    BY <1>2, <2>1, <2>2, OneRests
<1>3. CASE /\ session.state = "COMPOSITION" \/ session.active
           /\ Command(IF t.reading = <<>> THEN {Reply(Precompose(t), <<>>)}
                      ELSE StartLiveOr(t, Compose(t)), FALSE)
  <2> DEFINE responses == IF t.reading = <<>> THEN {Reply(Precompose(t), <<>>)}
                          ELSE StartLiveOr(t, Compose(t))
  <2>1. /\ Typed(t) /\ t.reading \in Readings /\ t.state = "COMPOSITION"
        /\ t.undo = None /\ ~t.pending /\ Calm(t)
    BY <1>1, <1>3, ShortenedFacts
  <2>2. Handle(responses, <<>>, FALSE)
    BY <1>3 DEF Command
  <2> HIDE DEF t
  <2>3. t \in Sessions /\ Rest(t) /\ UndoShape(t)
    BY <2>1 DEF Typed, Calm, Rest, UndoShape
  <2>4. ASSUME NEW r \in responses PROVE r.s \in Sessions /\ Seen(r)
    <3>1. CASE t.reading = <<>>
      <4> DEFINE p == Precompose(t)
      <4>1. r = Reply(p, <<>>)
        BY <2>4, <3>1
      <4>2. p \in Sessions /\ p.state = "PRECOMPOSITION" /\ Rest(p)
        BY <2>3, PrecomposeFacts, ClearedRests
      <4> HIDE DEF p
      <4>3. AtRest(r) /\ r.s = p
        BY <4>1, <4>2, ReplyRests DEF Editing, Reply
      <4>4. QED
        BY <4>2, <4>3, RestSeen
    <3>2. CASE CanStart(t) /\ r \in StartLive(t) /\ t.reading # <<>>
      <4>1. Place(t)
        BY <2>1, <3>2 DEF Place, Editing
      <4>2. Fine(r, session.reading)
        BY <2>1, <3>2, <4>1, StartLiveFine
      <4>3. Seen(r)
        BY <2>1, <2>3, <3>2, StartLiveSeen DEF Rest
      <4>4. QED
        BY <4>2, <4>3 DEF Fine, Loose, Typed
    <3>3. CASE r \in Compose(t)
      <4>1. AtRest(r) /\ r.s = t
        BY <2>1, <2>3, <3>3, ComposeRests DEF Compose, Reply
      <4>2. QED
        BY <2>3, <4>1, RestSeen
    <3>4. QED
      BY <2>4, <3>1, <3>2, <3>3 DEF StartLiveOr
  <2> HIDE DEF responses
  <2>5. QED
    BY <2>2, <2>4, CommandSeen
<1>4. CASE /\ session.state = "CONVERSION" /\ ~session.active
           /\ Command(ConvertCancel(session), FALSE)
  <2>1. \A r \in ConvertCancel(session) : r.s \in Sessions /\ Seen(r)
    BY <1>1, <1>4, ConvertCancelFine, ConvertCancelRests, RestSeen
       DEF Editing, Fine, Loose, Typed
  <2>2. QED
    BY <1>4, <2>1, CommandSeen DEF Command
<1>5. QED
  BY <1>2, <1>3, <1>4 DEF Backspace

LEMMA EscapeSeen ==
  ASSUME Routine, LiveInv, ShownInv, Escape
  PROVE  ShownInv'
<1>1. Good(session) /\ session \in Sessions /\ Tidy(session)
  BY DEF LiveInv, Good, Loose, Typed, ShownInv
<1>2. CASE session.state = "CONVERSION" /\ Command(ConvertCancel(session), FALSE)
  <2>1. \A r \in ConvertCancel(session) : r.s \in Sessions /\ Seen(r)
    BY <1>1, <1>2, ConvertCancelFine, ConvertCancelRests, RestSeen
       DEF Editing, Fine, Loose, Typed
  <2>2. QED
    BY <1>2, <2>1, CommandSeen DEF Command
<1>3. CASE Command({Reply(ClearLive(Precompose(Discard(session))), <<>>)}, FALSE)
  <2> DEFINE d == Discard(session)
             p == Precompose(d)
             c == ClearLive(p)
  <2>1. d \in Sessions
    BY <1>1, FeedbackOnly, NoReading DEF OnlyFeedback
  <2> HIDE DEF d
  <2>2. p \in Sessions /\ p.state = "PRECOMPOSITION"
    BY <2>1, PrecomposeFacts
  <2> HIDE DEF p
  <2>3. c \in Sessions /\ c.state = "PRECOMPOSITION" /\ Rest(c)
    BY <2>2, ClearLiveFacts, ClearedRests DEF SameComposer
  <2> DEFINE r == Reply(c, <<>>)
  <2>4. Command({r}, FALSE)
    BY <1>3 DEF c, p, d
  <2> HIDE DEF c
  <2>5. AtRest(r) /\ r.s = c
    BY <2>3, ReplyRests DEF Editing, Reply
  <2> HIDE DEF r
  <2>6. QED
    BY <2>3, <2>4, <2>5, OneRests
<1>4. CASE session.state = "PRECOMPOSITION" /\ Command({Erase(session)}, FALSE)
  <2>1. Erase(session).s \in Sessions
    BY <1>1, <1>4, EraseFine DEF Editing, Fine, Loose, Typed
  <2>2. AtRest(Erase(session))
    BY <1>1, <1>4, RestOutside, EraseRests DEF Editing
  <2>3. QED
    BY <1>4, <2>1, <2>2, OneRests
<1>5. QED
  BY <1>2, <1>3, <1>4 DEF Escape

LEMMA PromoteRests ==
  ASSUME Good(session), Tidy(session), session.state = "CONVERSION"
  PROVE  Rest(Promote(session)) /\ Promote(session) \in Sessions
<1>1. session \in Sessions /\ ~session.pending /\ (~session.active => Rest(session))
  BY RestOutside
<1>2. CASE ~session.active
  BY <1>1, <1>2 DEF Promote
<1>3. CASE session.active
  <2> DEFINE z == Rejected(session)
             c == ClearZenz(z)
             t == [c EXCEPT !.active = FALSE]
  <2>1. z \in Sessions /\ ~z.pending
    BY <1>1, FeedbackOnly, NoReading DEF OnlyFeedback, SamePending
  <2> HIDE DEF z
  <2>2. c \in Sessions /\ ~c.pending /\ c.wait = "no"
    BY <2>1, ClearZenzFacts DEF SamePending
  <2> HIDE DEF c
  <2>3. t \in Sessions /\ Rest(t)
    BY <2>2 DEF Sessions, Rest
  <2>4. Promote(session) = t
    BY <1>3 DEF Promote, c, z
  <2> HIDE DEF t
  <2>5. QED
    BY <2>3, <2>4
<1>4. QED
  BY <1>2, <1>3

LEMMA CandidatesSeen ==
  ASSUME Good(session), NEW s, Good(s), Rest(s), s.state \in Editing,
         NEW styles, styles \subseteq Styles, NEW r \in Candidates(s, styles)
  PROVE  r.s \in Sessions /\ Seen(r)
<1>1. r.s \in Sessions
  BY CandidatesFine DEF Fine, Loose, Typed
<1>2. AtRest(r)
  BY CandidatesRest DEF Good, Loose, Typed
<1>3. QED
  BY <1>1, <1>2, RestSeen

LEMMA ComposeSeen ==
  ASSUME NEW s \in Sessions, Rest(s), s.state # "CONVERSION", NEW r \in Compose(s)
  PROVE  r.s \in Sessions /\ Seen(r)
<1>1. r.s = s
  BY DEF Compose, Reply
<1>2. AtRest(r)
  BY ComposeRests
<1>3. QED
  BY <1>1, <1>2, RestSeen

LEMMA SpaceSeen ==
  ASSUME Routine, LiveInv, ShownInv, Space
  PROVE  ShownInv'
<1>1. Good(session) /\ session \in Sessions /\ Tidy(session)
  BY DEF LiveInv, Good, Loose, Typed, ShownInv
<1>2. ASSUME session.state = "COMPOSITION",
             NEW t, t = CancelPendingLive(session),
             Command(Candidates(t, {"mozc"})
                     \cup UNION {Compose(t) : f \in Situations \cap {"failure"}}, FALSE)
      PROVE  ShownInv'
  <2>1. Good(t) /\ t.state = "COMPOSITION" /\ Rest(t)
    BY <1>1, <1>2, CancelPendingGood, RestOutside, ClearedRests DEF Editing
  <2>2. \A r \in Candidates(t, {"mozc"}) : r.s \in Sessions /\ Seen(r)
    BY <1>1, <2>1, CandidatesSeen DEF Editing, Styles
  <2>3. \A r \in Compose(t) : r.s \in Sessions /\ Seen(r)
    BY <2>1, ComposeSeen DEF Good, Loose, Typed
  <2> DEFINE responses == Candidates(t, {"mozc"})
                          \cup UNION {Compose(t) : f \in Situations \cap {"failure"}}
  <2>4. \A r \in responses : r.s \in Sessions /\ Seen(r)
    BY <2>2, <2>3
  <2>5. Handle(responses, <<>>, FALSE)
    BY <1>2 DEF Command
  <2> HIDE DEF responses
  <2>6. QED
    BY <2>4, <2>5, CommandSeen
<1>3. CASE Visible(session) /\ Command({RevertZenz(session)}, FALSE)
  <2> DEFINE r == RevertZenz(session)
             z == Rejected(session)
             c == ClearLive(z)
  <2>1. r.s \in Sessions
    BY <1>1, <1>3, RevertZenzFine DEF Fine, Loose, Typed
  <2>2. z \in Sessions /\ SameComposer(session, z)
    BY <1>1, FeedbackOnly, NoReading DEF OnlyFeedback
  <2>3. r = Reply(c, session.value)
    BY DEF RevertZenz
  <2> HIDE DEF z, r
  <2>4. Rest(c) /\ SameComposer(z, c)
    BY <2>2, ClearedRests, ClearLiveFacts
  <2> HIDE DEF c
  <2>5. session.value = Display(c)
    BY <1>1, <1>3, <2>2, <2>4 DEF Visible, Tidy, Display, SameComposer
  <2>6. AtRest(r)
    BY <2>3, <2>4, <2>5, ReplyRests
  <2>7. QED
    BY <1>3, <2>1, <2>6, OneRests DEF r
<1>4. CASE /\ session.state = "CONVERSION"
           /\ Command(Candidates(Promote(session), {"mozc", "other", "zenz"}), FALSE)
  <2> DEFINE t == Promote(session)
  <2>1. Good(t) /\ t.state = "CONVERSION" /\ Rest(t)
    BY <1>1, <1>4, PromoteGood, PromoteRests
  <2> HIDE DEF t
  <2>2. \A r \in Candidates(t, {"mozc", "other", "zenz"}) : r.s \in Sessions /\ Seen(r)
    BY <1>1, <2>1, CandidatesSeen DEF Editing, Styles
  <2>3. QED
    BY <1>4, <2>2, CommandSeen DEF t, Command
<1>5. QED
  BY <1>2, <1>3, <1>4 DEF Space

LEMMA PredictSeen ==
  ASSUME Routine, LiveInv, ShownInv, Predict
  PROVE  ShownInv'
<1> DEFINE t == CancelPendingLive(session)
           z == Rejected(t)
           c == ClearLive(z)
           u == [c EXCEPT !.state = "COMPOSITION", !.conv = "raw"]
           responses == IF session.active THEN Candidates(u, {"other"}) \cup Compose(u)
                        ELSE IF session.state = "CONVERSION"
                        THEN Candidates(t, {"mozc", "other", "zenz"})
                        ELSE Candidates(t, {"other"}) \cup Compose(t)
<1>1. Good(session) /\ session \in Sessions /\ session.state \in Editing
  BY DEF LiveInv, Good, Loose, Typed, Predict
<1>2. Handle(responses, <<>>, FALSE)
  BY DEF Predict, Command
<1>3. /\ Good(t) /\ t \in Sessions /\ t.state = session.state /\ t.undo = None
      /\ ~session.active => Rest(t)
  BY <1>1, CancelPendingGood, ClearedRests DEF Good, Loose, Typed
<1> HIDE DEF t
<1>4. Typed(z) /\ Place(z) /\ z.state \in Editing /\ z.undo = None
  <2>1. OnlyFeedback(t, z)
    BY <1>3, FeedbackOnly, NoReading
  <2> HIDE DEF z
  <2>2. QED
    BY <1>1, <1>3, <2>1, OnlyFeedbackKeeps DEF Good, Loose, OnlyFeedback, SameComposer
<1> HIDE DEF z
<1>5. Good(u) /\ u.state = "COMPOSITION"
  BY <1>4, BackToComposition
<1>6. c \in Sessions /\ Rest(c)
  BY <1>4, ClearLiveFacts, ClearedRests DEF Typed
<1> HIDE DEF c
<1>7. Rest(u) /\ u \in Sessions
  BY <1>5, <1>6 DEF Rest, Sessions, Good, Loose, Typed
<1> HIDE DEF u
<1>8. CASE session.active
  <2>1. \A r \in Candidates(u, {"other"}) \cup Compose(u) : r.s \in Sessions /\ Seen(r)
    BY <1>1, <1>5, <1>7, CandidatesSeen, ComposeSeen DEF Editing, Styles
  <2>2. QED
    BY <1>2, <1>8, <2>1, CommandSeen
<1>9. CASE ~session.active /\ session.state = "CONVERSION"
  <2>1. \A r \in Candidates(t, {"mozc", "other", "zenz"}) : r.s \in Sessions /\ Seen(r)
    BY <1>1, <1>3, <1>9, CandidatesSeen DEF Styles
  <2>2. QED
    BY <1>2, <1>9, <2>1, CommandSeen
<1>10. CASE ~session.active /\ session.state # "CONVERSION"
  <2>1. \A r \in Candidates(t, {"other"}) \cup Compose(t) : r.s \in Sessions /\ Seen(r)
    BY <1>1, <1>3, <1>10, CandidatesSeen, ComposeSeen DEF Styles
  <2>2. QED
    BY <1>2, <1>10, <2>1, CommandSeen
<1>11. QED
  BY <1>8, <1>9, <1>10

\* The session that Enter commits, when no correction is visible.
LEMMA NotActive ==
  ASSUME NEW s, Good(s), s.state \in Editing
  PROVE  LET t == [s EXCEPT !.active = FALSE]
         IN  /\ Typed(t) /\ Place(t) /\ UndoShape(t) /\ t.state \in Editing /\ ~Visible(t)
             /\ t.reading = s.reading /\ SamePending(s, t) /\ t.key = s.key
             /\ t.value = s.value /\ Display(t) = Display(s)
<1> DEFINE t == [s EXCEPT !.active = FALSE]
<1>1. s \in Sessions
  BY GoodEditing
<1>2. /\ t \in Sessions /\ SameComposer(s, t) /\ SamePending(s, t) /\ t.key = s.key
      /\ t.value = s.value /\ ~t.active
  BY <1>1 DEF Sessions, SameComposer, SamePending
<1> HIDE DEF t
<1>3. Typed(t) /\ Place(t) /\ UndoShape(t)
  BY <1>2, GoodEditing DEF Typed, Place, UndoShape, SameComposer
<1>4. Display(t) = Display(s)
  BY <1>2 DEF Display, SameComposer
<1>5. QED
  BY <1>2, <1>3, <1>4 DEF Visible, SameComposer, t

LEMMA EnterSeen ==
  ASSUME Routine, LiveInv, ShownInv, Enter
  PROVE  ShownInv'
<1> DEFINE t == [session EXCEPT !.active = FALSE]
<1>1. /\ Good(session) /\ session \in Sessions /\ session.state \in Editing
      /\ Command({IF Visible(session) THEN CommitZenz(session) ELSE CommitAny(t)}, FALSE)
  BY DEF LiveInv, Good, Loose, Typed, Enter
<1>2. CASE Visible(session)
  <2>1. CommitZenz(session).s \in Sessions /\ AtRest(CommitZenz(session))
    BY <1>1, <1>2, CommitZenzFine, CommitZenzRests DEF Fine, Loose, Typed
  <2>2. QED
    BY <1>1, <1>2, <2>1, OneRests
<1>3. CASE ~Visible(session)
  <2>1. Typed(t) /\ Place(t) /\ UndoShape(t) /\ t.state \in Editing /\ ~Visible(t)
    BY <1>1, NotActive
  <2> HIDE DEF t
  <2>2. CommitAny(t).s \in Sessions /\ AtRest(CommitAny(t))
    BY <2>1, CommitAnyFine, CommitAnyRests DEF Fine, Loose, Typed
  <2>3. QED
    BY <1>1, <1>3, <2>2, OneRests
<1>4. QED
  BY <1>2, <1>3

LEMMA SubmitSeen ==
  ASSUME Routine, LiveInv, ShownInv, Submit
  PROVE  ShownInv'
<1>1. /\ Good(session) /\ Tidy(session) /\ Command({CommitAny(session)}, FALSE)
  BY DEF LiveInv, ShownInv, Submit
<1>2. session.state \in Editing \/ Rest(session)
  BY <1>1, RestOutside
<1>3. CommitAny(session).s \in Sessions /\ AtRest(CommitAny(session))
  BY <1>1, <1>2, CommitAnyFine, CommitAnyRests DEF Good, Fine, Loose, Typed
<1>4. QED
  BY <1>1, <1>3, OneRests

LEMMA TurnedOffRests ==
  ASSUME NEW s, Good(s), s.state \in Editing \/ Rest(s)
  PROVE  AtRest(TurnedOff(s))
<1> DEFINE t == [s EXCEPT !.undo = None]
           r == CommitAny(t)
           c == Confirm(r)
           p == Precompose(c.s)
           q == TurnedOff(s)
           v == [p EXCEPT !.state = "DIRECT"]
<1>1. s \in Sessions /\ Typed(s) /\ Place(s) /\ (s.state \notin Editing => Loose(s))
  BY DEF Good, Loose, Typed
<1>2. /\ Typed(t) /\ Place(t) /\ UndoShape(t) /\ t.state = s.state
      /\ Visible(t) => Visible(s)
  BY <1>1, ForgetUndoKeeps
<1>3. Rest(s) => Rest(t)
  BY <1>1 DEF Rest, Sessions
<1>4. Good(t)
  BY <1>1, ForgetUndoKeeps DEF Good, Loose
<1> HIDE DEF t
<1>5. AtRest(r) /\ IsResponse(r)
  BY <1>2, <1>3, CommitAnyRests, CommitResponses
<1>6. r.s \in Sessions /\ Rest(r.s)
  BY <1>2, <1>4, <1>5, CommitAnyFine DEF Good, Fine, Loose, Typed, AtRest
<1>7. c.s = Discard(r.s) /\ IsResponse(c) /\ c.callback = r.callback
  BY <1>5, ConfirmFacts
<1> HIDE DEF r
<1>8. c.s \in Sessions /\ Rest(c.s)
  BY <1>6, <1>7, FeedbackOnly, FeedbackRests, NoReading
<1> HIDE DEF c
<1>9. p \in Sessions /\ Rest(p)
  BY <1>8, PrecomposeFacts, ClearedRests
<1>10. q = [c EXCEPT !.s = v, !.shown = <<>>]
  BY DEF TurnedOff, c, r, t
<1> HIDE DEF p
<1>11. Rest(v) /\ v.state = "DIRECT"
  BY <1>9 DEF Rest, Sessions
<1> HIDE DEF v, q
<1>12. q.s = v /\ q.callback = None
  BY <1>5, <1>7, <1>10 DEF IsResponse, AtRest
<1>13. AtRest(q)
  BY <1>11, <1>12 DEF AtRest, Editing
<1>14. QED
  BY <1>13 DEF q

LEMMA IMESeen ==
  ASSUME Routine, LiveInv, ShownInv, IMEOff \/ IMEOn
  PROVE  ShownInv'
<1>1. Good(session) /\ Tidy(session) /\ session \in Sessions
  BY DEF LiveInv, ShownInv, Good, Loose, Typed
<1>2. session.state \in Editing \/ Rest(session)
  BY <1>1, RestOutside
<1>3. CASE Command({TurnedOff(Promote(session))}, FALSE)
  <2> DEFINE s == Promote(session)
  <2>1. Good(s) /\ s.reading = session.reading /\ s.state = session.state
    BY <1>1, PromoteGood
  <2>2. s.state \in Editing \/ Rest(s)
    <3>1. CASE session.state = "CONVERSION"
      BY <1>1, <3>1, PromoteRests
    <3>2. CASE session.state # "CONVERSION"
      BY <1>1, <1>2, <2>1, <3>2 DEF Good, Work, Promote
    <3>3. QED
      BY <3>1, <3>2
  <2>3. Command({TurnedOff(s)}, FALSE)
    BY <1>3
  <2> HIDE DEF s
  <2>4. TurnedOff(s).s \in Sessions /\ AtRest(TurnedOff(s))
    BY <2>1, <2>2, TurnedOffFine, TurnedOffRests DEF Fine, Loose, Typed
  <2>5. QED
    BY <2>3, <2>4, OneRests
<1>4. CASE Command({TurnedOff(session)}, FALSE)
  <2>1. TurnedOff(session).s \in Sessions /\ AtRest(TurnedOff(session))
    BY <1>1, <1>2, TurnedOffFine, TurnedOffRests DEF Fine, Loose, Typed
  <2>2. QED
    BY <1>4, <2>1, OneRests
<1>5. CASE /\ session.state = "DIRECT"
           /\ Command({Reply([Precompose(session) EXCEPT !.undo = None], <<>>)}, FALSE)
  <2> DEFINE p == Precompose(session)
             t == [p EXCEPT !.undo = None]
             r == Reply(t, <<>>)
  <2>1. Rest(session)
    BY <1>2, <1>5 DEF Editing
  <2>2. p \in Sessions /\ p.state = "PRECOMPOSITION" /\ Rest(p)
    BY <1>1, <2>1, PrecomposeFacts, ClearedRests
  <2>3. Command({r}, FALSE)
    BY <1>5
  <2> HIDE DEF p
  <2>4. t \in Sessions /\ t.state = "PRECOMPOSITION" /\ Rest(t)
    BY <2>2 DEF Sessions, Rest
  <2> HIDE DEF t
  <2>5. r.s = t /\ AtRest(r)
    BY <2>4, ReplyRests DEF Reply, Editing
  <2> HIDE DEF r
  <2>6. QED
    BY <2>3, <2>4, <2>5, OneRests
<1>6. QED
  BY <1>3, <1>4, <1>5 DEF IMEOff, IMEOn

LEMMA UndoSeen ==
  ASSUME Routine, LiveInv, ShownInv, Undo
  PROVE  ShownInv'
<1> DEFINE d == Discard(session)
           t == [d EXCEPT !.state = session.undo.state, !.reading = session.undo.reading,
                          !.cursor = session.undo.cursor, !.conv = session.undo.conv,
                          !.undo = None]
           r == Reply(t, Display(t))
<1>1. Good(session) /\ Tidy(session) /\ session.undo # None /\ Command({r}, TRUE)
  BY DEF LiveInv, ShownInv, Undo
<1>2. r.s \in Sessions
  BY <1>1, UndoFine DEF Fine, Loose, Typed
<1>3. Rest(session) /\ session \in Sessions
  BY <1>1, RestOutside DEF Good, Loose, Undone
<1>4. d \in Sessions /\ Rest(d)
  BY <1>3, FeedbackOnly, FeedbackRests, NoReading
<1> HIDE DEF d
<1>5. Rest(t)
  BY <1>4 DEF Sessions, Rest
<1> HIDE DEF t
<1>6. AtRest(r)
  BY <1>5, ReplyRests
<1> HIDE DEF r
<1>7. QED
  BY <1>1, <1>2, <1>6, OneRests

LEMMA ResetSeen ==
  ASSUME Routine, LiveInv, ShownInv, ResetContext
  PROVE  ShownInv'
<1> DEFINE d == Discard(session)
           p == Precompose(d)
           x == [p EXCEPT !.undo = None]
           c == ClearLive(x)
           r == Reply(c, <<>>)
<1>1. /\ Good(session) /\ Tidy(session) /\ session \in Sessions
      /\ Command({IF session.state = "PRECOMPOSITION" THEN Erase(session) ELSE r}, FALSE)
  BY DEF LiveInv, ShownInv, ResetContext, Good, Loose, Typed
<1>2. CASE session.state = "PRECOMPOSITION"
  <2>1. Erase(session).s \in Sessions
    BY <1>1, <1>2, EraseFine DEF Editing, Fine, Loose, Typed
  <2>2. AtRest(Erase(session))
    BY <1>1, <1>2, RestOutside, EraseRests DEF Editing
  <2>3. QED
    BY <1>1, <1>2, <2>1, <2>2, OneRests
<1>3. CASE session.state # "PRECOMPOSITION"
  <2>1. d \in Sessions
    BY <1>1, FeedbackOnly, NoReading DEF OnlyFeedback
  <2> HIDE DEF d
  <2>2. p \in Sessions /\ p.state = "PRECOMPOSITION"
    BY <2>1, PrecomposeFacts
  <2> HIDE DEF p
  <2>3. x \in Sessions /\ x.state = "PRECOMPOSITION"
    BY <2>2 DEF Sessions
  <2> HIDE DEF x
  <2>4. c \in Sessions /\ c.state = "PRECOMPOSITION" /\ Rest(c)
    BY <2>3, ClearLiveFacts, ClearedRests DEF SameComposer
  <2> HIDE DEF c
  <2>5. r.s = c /\ AtRest(r)
    BY <2>4, ReplyRests DEF Reply, Editing
  <2> HIDE DEF r
  <2>6. QED
    BY <1>1, <1>3, <2>4, <2>5, OneRests
<1>4. QED
  BY <1>2, <1>3

\* A letter that the composer takes in leaves a reading that may be converted.
LEMMA GrownReading ==
  ASSUME NEW s, Typed(s), s.reading \in Readings, Len(s.reading) < MaxLength,
         NEW letter \in Letters
  PROVE  Insert(s, letter).reading \in Readings
<1> DEFINE u == Insert(s, letter)
<1>1. s.reading \in Seq(Letters) /\ Len(s.reading) \in Nat
  BY ReadingsAreBounded, LenProperties
<1>2. /\ Len(u.reading) = Len(s.reading) + 1
      /\ s.reading \in Seq(Letters) /\ letter \in Letters => u.reading \in Seq(Letters)
  BY InsertFacts DEF Chars
<1> HIDE DEF u
<1>3. u.reading \in Readings
  BY <1>1, <1>2, ReadingsAreBounded, ConstantsAssumption
<1>4. QED
  BY <1>3 DEF u

\* What a letter is inserted into has no work left.
LEMMA BeforeRests ==
  ASSUME Good(session), Tidy(session), session.state # "DIRECT"
  PROVE  LET met == IF session.state = "CONVERSION" THEN Reply(session, <<>>)
                    ELSE Confirm(Reply(session, <<>>))
             t == CancelForEditing(met.s)
             before == IF t.state = "CONVERSION" THEN Confirm(CommitInternal(t))
                       ELSE [met EXCEPT !.s = t]
         IN  Rest(before.s)
<1> DEFINE met == IF session.state = "CONVERSION" THEN Reply(session, <<>>)
                  ELSE Confirm(Reply(session, <<>>))
           t == CancelForEditing(met.s)
           before == IF t.state = "CONVERSION" THEN Confirm(CommitInternal(t))
                     ELSE [met EXCEPT !.s = t]
<1>1. OnlyFeedback(session, met.s) /\ Typed(before.s)
  BY BeforeFacts
<1>2. met.s \in Sessions /\ IsResponse(met)
  <2>1. IsResponse(Reply(session, <<>>))
    BY DEF IsResponse, Reply
  <2>2. QED
    BY <1>1, <2>1, ConfirmFacts DEF OnlyFeedback
<1> HIDE DEF met
<1>3. t \in Sessions /\ Rest(t)
  BY <1>2, CancelForEditingFacts, ClearedRests
<1>4. CASE t.state # "CONVERSION"
  <2>1. before.s = t
    BY <1>2, <1>4 DEF IsResponse
  <2>2. QED
    BY <1>3, <2>1 DEF met
<1>5. CASE t.state = "CONVERSION"
  <2>1. Typed(t) /\ Place(t) /\ UndoShape(t)
    <3>1. Typed(met.s) /\ Place(met.s) /\ UndoShape(met.s)
      BY <1>1, OnlyFeedbackKeeps DEF Good, Loose
    <3>2. /\ t.reading = met.s.reading /\ t.cursor = met.s.cursor /\ t.undo = met.s.undo
          /\ t.key = met.s.key /\ t.value = met.s.value
          /\ met.s.active => t.state = "COMPOSITION"
          /\ ~met.s.active => t.state = met.s.state
      BY <1>2, CancelForEditingFacts
    <3> HIDE DEF t
    <3>3. QED
      BY <1>3, <1>5, <3>1, <3>2 DEF Typed, Place, UndoShape
  <2> DEFINE q == CommitInternal(t)
  <2>2. AtRest(q) /\ IsResponse(q) /\ Fine(q, t.reading)
    BY <1>5, <2>1, CommitInternalRests, CommitResponses, CommitInternalFine DEF Editing
  <2>3. before = Confirm(q)
    BY <1>5
  <2> HIDE DEF q, t, before
  <2>4. before.s = Discard(q.s)
    BY <2>2, <2>3, ConfirmFacts
  <2>5. Rest(before.s)
    BY <2>2, <2>4, FeedbackOnly, FeedbackRests, NoReading DEF AtRest, Fine, Loose, Typed
  <2>6. QED
    BY <2>5 DEF before, t, met
<1>6. QED
  BY <1>4, <1>5

LEMMA CommitPunctuatedRests ==
  ASSUME NEW s \in Sessions, NEW t \in Sessions, Rest(t)
  PROVE  AtRest(CommitPunctuated(s, t))
<1> DEFINE z == Accepted(t, s.vvalue)
<1>1. z \in Sessions
  BY FeedbackOnly DEF OnlyFeedback, Sessions
<1> HIDE DEF z
<1>2. /\ ClearLive(t) \in Sessions /\ Rest(ClearLive(t))
      /\ ClearLive(z) \in Sessions /\ Rest(ClearLive(z))
  BY <1>1, ClearLiveFacts, ClearedRests
<1>3. \/ \E text : CommitPunctuated(s, t) = CommitString(ClearLive(z), text)
      \/ CommitPunctuated(s, t) = CommitPendingDisplay(t)
      \/ \E text : CommitPunctuated(s, t) = CommitString(ClearLive(t), text)
      \/ \E text : CommitPunctuated(s, t) = CommitString(t, text)
  BY DEF CommitPunctuated, CommitLiveResult, z
<1>4. QED
  BY <1>2, <1>3, CommitStringRests, CommitPendingDisplayRests

LEMMA InsertedSeen ==
  ASSUME Good(session), Tidy(session), NEW letter \in Chars,
         session.state \in Editing \cup {"PRECOMPOSITION"},
         \/ Len(session.reading) < MaxLength
         \/ session.state = "CONVERSION" /\ ~session.active
         \/ letter = Punct,
         NEW r \in Inserted(session, letter)
  PROVE  Seen(r)
<1> DEFINE s == session
           met == IF s.state = "CONVERSION" THEN Reply(s, <<>>) ELSE Confirm(Reply(s, <<>>))
           t == CancelForEditing(met.s)
           before == IF t.state = "CONVERSION" THEN Confirm(CommitInternal(t))
                     ELSE [met EXCEPT !.s = t]
           b == before.s
           first == before.result
           mark == before.recorded
           u == Insert(b, letter)
           v == IF ~s.active /\ Len(u.reading) = 1 THEN ForgetPrefix(u) ELSE u
           w == [v EXCEPT !.state = "COMPOSITION"]
           after == IF letter # Punct THEN ScheduleLive(w)
                    ELSE IF s.pending /\ s.state = "COMPOSITION"
                    THEN {CommitPendingDisplay(Insert(met.s, letter))}
                    ELSE {CommitPunctuated(s, v)}
<1>1. /\ OnlyFeedback(s, met.s) /\ Typed(b) /\ b.reading \in Readings /\ Rest(b)
      /\ first = <<>> => b.reading = s.reading
      /\ first # <<>> => b.reading = <<>>
      /\ s.state = "CONVERSION" /\ ~s.active => first # <<>>
  <2>1. s.state # "DIRECT"
    BY DEF Editing
  <2>2. QED
    BY <2>1, BeforeFacts, BeforeRests
<1>2. PICK q \in after : r = [q EXCEPT !.result = first \o @, !.recorded = mark]
  BY DEF Inserted
<1> HIDE DEF met, t, before, b, first, mark
<1>3. Typed(u) /\ u.reading # <<>> /\ u \in Sessions /\ Rest(u)
  BY <1>1, InsertFacts, EditsRest DEF Typed
<1>4. letter # Punct => u.reading \in Readings
  <2>1. SUFFICES ASSUME letter # Punct PROVE u.reading \in Readings
    OBVIOUS
  <2>2. letter \in Letters
    BY <2>1 DEF Chars
  <2>3. Len(b.reading) < MaxLength
    <3>1. CASE first = <<>>
      BY <1>1, <2>1, <3>1
    <3>2. CASE first # <<>>
      <4>1. Len(b.reading) = 0
        BY <1>1, <3>2, EmptySeq
      <4>2. QED
        BY <4>1, ConstantsAssumption
    <3>3. QED
      BY <3>1, <3>2
  <2>4. QED
    BY <1>1, <2>2, <2>3, GrownReading
<1> HIDE DEF u
<1>5. v \in Sessions /\ v.reading = u.reading /\ Rest(v)
  <2>1. CASE v = u
    BY <1>3, <2>1
  <2>2. CASE v = ForgetPrefix(u)
    <3> DEFINE x == [u EXCEPT !.key = <<>>, !.value = <<>>]
    <3>1. x \in Sessions /\ Rest(x) /\ x.reading = u.reading
      BY <1>3, NoReading DEF Sessions, Rest
    <3>2. v = ClearZenz(x)
      BY <2>2 DEF ForgetPrefix
    <3> HIDE DEF x, v
    <3>3. QED
      BY <3>1, <3>2, ClearZenzFacts, ClearedRests DEF SameComposer
  <2>3. QED
    BY <2>1, <2>2
<1> HIDE DEF v
<1>6. IsResponse(q) /\ Seen(q)
  <2>1. CASE letter # Punct
    <3>1. /\ w \in Sessions /\ w.state = "COMPOSITION" /\ w.reading = v.reading /\ Rest(w)
      <4>1. "COMPOSITION" \in States
        BY DEF States, Editing
      <4>2. QED
        BY <1>5, <4>1 DEF Sessions, Rest
    <3>2. q \in ScheduleLive(w)
      BY <1>2, <2>1
    <3> HIDE DEF w
    <3>3. w.reading \in Readings /\ w.reading # <<>>
      BY <1>3, <1>4, <1>5, <2>1, <3>1
    <3>4. IsResponse(q)
      BY <3>1, <3>2, <3>3, ScheduleLiveSilent DEF Silent
    <3>5. QED
      BY <3>1, <3>2, <3>3, <3>4, ScheduleLiveSeen
  <2>2. CASE letter = Punct /\ s.pending /\ s.state = "COMPOSITION"
    <3>1. q = CommitPendingDisplay(Insert(met.s, letter))
      BY <1>2, <2>2
    <3>2. Typed(met.s)
      BY <1>1, OnlyFeedbackKeeps DEF Good, Loose
    <3>3. Insert(met.s, letter) \in Sessions
      BY <3>2, InsertFacts DEF Typed
    <3>4. QED
      BY <3>1, <3>3, CommitResponses, CommitPendingDisplayRests, RestSeen
  <2>3. CASE letter = Punct /\ ~(s.pending /\ s.state = "COMPOSITION")
    <3>1. q = CommitPunctuated(s, v)
      BY <1>2, <2>3
    <3>2. s \in Sessions
      BY DEF Good, Loose, Typed
    <3>3. QED
      BY <1>5, <3>1, <3>2, CommitResponses, CommitPunctuatedRests, RestSeen
  <2>4. QED
    BY <2>1, <2>2, <2>3
<1>7. r.s = q.s /\ r.shown = q.shown /\ r.callback = q.callback
  BY <1>2, <1>6 DEF IsResponse
<1>8. QED
  BY <1>6, <1>7 DEF Seen

LEMMA InsertSeen ==
  ASSUME Routine, LiveInv, ShownInv, NEW letter \in Chars, InsertCharacter(letter)
  PROVE  ShownInv'
<1>1. /\ session.state \in Editing \cup {"PRECOMPOSITION"}
      /\ \/ Len(session.reading) < MaxLength
         \/ session.state = "CONVERSION" /\ ~session.active
         \/ letter = Punct
      /\ letter = Punct => AtEnd(session)
      /\ Handle(Inserted(session, letter), <<letter>>, FALSE)
  BY DEF InsertCharacter
<1>2. \A r \in Inserted(session, letter) : r.s \in Sessions
  BY <1>1, InsertedSound DEF LiveInv, Fine, Loose, Typed
<1>3. \A r \in Inserted(session, letter) : Seen(r)
  BY <1>1, InsertedSeen DEF LiveInv, ShownInv
<1>4. QED
  BY <1>1, <1>2, <1>3, CommandSeen

\* A callback arrives while the session waits for it: the client sends none
\* that a key has made stale.
LEMMA ApplyLiveSeen ==
  ASSUME Good(session), Tidy(session), NEW c, IsCurrentLive(session, c),
         NEW r \in ApplyLive(session, c)
  PROVE  Seen(r)
<1> DEFINE t == CancelPendingLive(session)
<1>1. /\ session \in Sessions /\ session.state = "COMPOSITION" /\ session.pending
      /\ ~session.active /\ session.wait = "no" /\ session.reading \in Readings
      /\ session.reading # <<>>
  BY RestOutside DEF IsCurrentLive, Good, Loose, Place, Work, Editing
<1>2. \/ r = Reply(session, PendingDisplay(session))
      \/ CanStart(session) /\ r \in StartLive(session)
      \/ r = Reply(t, Display(t))
  BY DEF ApplyLive, StartLiveOr
<1>3. CASE r = Reply(session, PendingDisplay(session))
  BY <1>1, <1>3 DEF Seen, Reply, Overlay, Visible
<1>4. CASE CanStart(session) /\ r \in StartLive(session)
  BY <1>1, <1>4, StartLiveSeen
<1>5. CASE r = Reply(t, Display(t))
  <2>1. Rest(t)
    BY <1>1, ClearedRests
  <2> HIDE DEF t
  <2>2. QED
    BY <1>5, <2>1, ReplyRests, RestSeen
<1>6. QED
  BY <1>2, <1>3, <1>4, <1>5

LEMMA AdvanceZenzSeen ==
  ASSUME NEW s, Good(s), Tidy(s), NEW c, IsCurrentZenz(s, c), NEW r \in AdvanceZenz(s)
  PROVE  Seen(r)
<1> DEFINE q == [gen |-> s.zgen, key |-> s.zkey]
           asked == [s EXCEPT !.wait = "submitted", !.polls = 0, !.answer = None,
                              !.request = q]
           taken == [s EXCEPT !.answer = None]
           polled == [taken EXCEPT !.polls = @ + 1]
           done == [taken EXCEPT !.wait = "no", !.polls = 0, !.zkey = <<>>, !.zbase = <<>>]
           none == CancelPendingZenz(s)
<1>1. /\ Work(s) /\ s \in Sessions /\ s.state = "CONVERSION" /\ s.active /\ ~s.pending
      /\ s.wait # "no" /\ s.key = s.zkey /\ s.value = s.zbase /\ s.vvalue = <<>>
      /\ s.zkey = s.reading /\ s.reading # <<>> /\ s.reading \in Readings
  BY DEF Good, Loose, Typed, IsCurrentZenz, Tidy, Work, Place, Editing
<1>2. \/ r = WithCallback(Reply(asked, Display(s)), "zenz")
      \/ r = Reply(none, Display(s))
      \/ /\ s.answer # None /\ s.answer.gen = s.zgen
         /\ r = Show(done, s.zkey, As("zenz", s.answer.key), s.zbase)
      \/ r = WithCallback(Reply(polled, Display(taken)), "zenz")
  BY DEF AdvanceZenz, Submitted, Polled, TakeResult
<1>3. ASSUME NEW v, SameComposer(s, v), SameLive(s, v), SamePending(s, v), v.vvalue = <<>>
      PROVE  Tidy(v) /\ Overlay(v) = Display(s)
  <2>1. Tidy(v)
    BY <1>1, <1>3 DEF Tidy, SameComposer, SameLive, SamePending
  <2>2. Display(v) = Display(s)
    BY <1>3 DEF Display, SameComposer
  <2>3. QED
    BY <1>1, <1>3, <2>1, <2>2 DEF Overlay, Visible, SamePending
<1>4. ASSUME NEW v, SameComposer(s, v), SameLive(s, v), SamePending(s, v), v.vvalue = <<>>,
             v.wait # "no", v.zkey = s.zkey, v.zbase = s.zbase, NEW text, text = Display(s)
      PROVE  Seen(WithCallback(Reply(v, text), "zenz"))
  <2> DEFINE x == WithCallback(Reply(v, text), "zenz")
  <2>1. /\ x.s = v /\ x.shown = text
        /\ x.callback = [type |-> "zenz", gen |-> v.zgen, key |-> v.zkey]
    BY DEF WithCallback, Reply
  <2> HIDE DEF x
  <2>2. IsCurrentZenz(v, x.callback)
    BY <1>1, <1>4, <2>1 DEF IsCurrentZenz, SameComposer, SameLive
  <2>3. Current(v, x.callback)
    BY <2>1, <2>2 DEF Current
  <2>4. Tidy(v) /\ Overlay(v) = Display(s)
    BY <1>3, <1>4
  <2>5. Seen(x)
    BY <1>4, <2>1, <2>3, <2>4 DEF Seen
  <2>6. QED
    BY <2>5 DEF x
<1>5. CASE r = WithCallback(Reply(asked, Display(s)), "zenz")
  <2> HIDE DEF q
  <2>1. /\ SameComposer(s, asked) /\ SameLive(s, asked) /\ SamePending(s, asked)
        /\ asked.vvalue = <<>> /\ asked.wait = "submitted" /\ asked.zkey = s.zkey
        /\ asked.zbase = s.zbase
    BY <1>1 DEF Sessions, SameComposer, SameLive, SamePending
  <2> HIDE DEF asked
  <2>2. QED
    BY <1>4, <1>5, <2>1
<1>6. CASE r = Reply(none, Display(s))
  <2>1. /\ SameComposer(s, none) /\ SameLive(s, none) /\ SamePending(s, none)
        /\ none.vvalue = <<>>
    BY <1>1, CancelPendingZenzFacts
  <2> HIDE DEF none
  <2>2. QED
    BY <1>3, <1>6, <2>1 DEF Seen, Reply
<1>7. CASE /\ s.answer # None /\ s.answer.gen = s.zgen
           /\ r = Show(done, s.zkey, As("zenz", s.answer.key), s.zbase)
  <2>1. 0 \in 0..MaxPolls
    BY ConstantsAssumption
  <2>2. /\ done \in Sessions /\ SameComposer(s, done) /\ SameLive(s, done)
        /\ SamePending(s, done) /\ done.vvalue = <<>> /\ done.wait = "no"
    BY <1>1, <2>1, NoReading DEF Sessions, SameComposer, SameLive, SamePending
  <2> HIDE DEF done
  <2>3. s.answer.key = s.reading
    BY <1>1, <1>7 DEF Work
  <2>4. As("zenz", s.answer.key) # <<>>
    BY <1>1, <2>3, ReadingsAreSequences, AsFacts DEF Styles
  <2>5. /\ done.key = s.zkey /\ done.value = s.zbase /\ done.active
        /\ done.state = "CONVERSION" /\ Tidy(done)
    BY <1>1, <1>3, <2>2 DEF SameComposer, SameLive
  <2>6. Seen(Show(done, done.key, As("zenz", s.answer.key), done.value))
    BY <2>2, <2>4, <2>5, ShowSeen
  <2>7. QED
    BY <1>7, <2>5, <2>6
<1>8. CASE r = WithCallback(Reply(polled, Display(taken)), "zenz")
  <2>1. /\ SameComposer(s, polled) /\ SameLive(s, polled) /\ SamePending(s, polled)
        /\ polled.vvalue = <<>> /\ polled.wait = s.wait /\ polled.zkey = s.zkey
        /\ polled.zbase = s.zbase /\ SameComposer(s, taken)
    BY <1>1 DEF Sessions, SameComposer, SameLive, SamePending
  <2> HIDE DEF polled, taken
  <2>2. Display(taken) = Display(s)
    BY <2>1 DEF Display, SameComposer
  <2>3. QED
    BY <1>1, <1>4, <1>8, <2>1, <2>2
<1>9. QED
  BY <1>2, <1>5, <1>6, <1>7, <1>8

LEMMA DeliverSeen ==
  ASSUME Routine, LiveInv, ShownInv, Deliver
  PROVE  ShownInv'
<1>1. /\ Good(session) /\ Loose(session) /\ Tidy(session) /\ Current(session, sent)
      /\ sent' = None
  BY DEF LiveInv, ShownInv, Deliver, Good
<1>2. PICK r \in IF sent.type = "live" THEN ApplyLive(session, sent)
                 ELSE IF IsCurrentZenz(session, sent) THEN AdvanceZenz(session)
                 ELSE {Stale(session)} : Answer(r)
  BY DEF Deliver
<1>3. CASE sent.type = "live"
  <2>1. IsCurrentLive(session, sent) /\ r \in ApplyLive(session, sent)
    BY <1>1, <1>2, <1>3 DEF Current
  <2>2. r.s \in Sessions
    BY <1>1, <2>1, ApplyLiveFine DEF Fine, Loose, Typed
  <2>3. Seen(r)
    BY <1>1, <2>1, ApplyLiveSeen
  <2>4. QED
    BY <1>1, <1>2, <2>2, <2>3, AnswerSeen
<1>4. CASE sent.type # "live"
  <2>1. IsCurrentZenz(session, sent) /\ r \in AdvanceZenz(session)
    BY <1>1, <1>2, <1>4 DEF Current
  <2>2. r.s \in Sessions
    BY <1>1, <2>1, AdvanceZenzFine DEF Fine, Loose, Typed
  <2>3. Seen(r)
    BY <1>1, <2>1, AdvanceZenzSeen
  <2>4. QED
    BY <1>1, <1>2, <2>2, <2>3, AnswerSeen
<1>5. QED
  BY <1>3, <1>4

\* The worker changes nothing that the user sees or a callback is checked by.
LEMMA WorkerSeen ==
  ASSUME LiveInv, ShownInv, WorkerTake \/ WorkerFinish
  PROVE  ShownInv'
<1>1. session \in Sessions
  BY DEF LiveInv, Good, Loose, Typed
<1>2. shown' = shown /\ timer' = timer /\ sent' = sent
  BY DEF WorkerTake, WorkerFinish
<1>3. PICK x, y : session' = [session EXCEPT !.request = x, !.answer = y]
  <2>1. CASE WorkerTake
    <3>1. session' = [session EXCEPT !.request = None]
      BY <2>1 DEF WorkerTake
    <3>2. session' = [session EXCEPT !.request = None, !.answer = session.answer]
      BY <1>1, <3>1 DEF Sessions
    <3>3. QED
      BY <3>2
  <2>2. CASE WorkerFinish
    <3>1. PICK y : session' = [session EXCEPT !.answer = y]
      BY <2>2 DEF WorkerFinish
    <3>2. session' = [session EXCEPT !.request = session.request, !.answer = y]
      BY <1>1, <3>1 DEF Sessions
    <3>3. QED
      BY <3>2
  <2>3. QED
    BY <2>1, <2>2
<1> DEFINE t == [session EXCEPT !.request = x, !.answer = y]
<1>4. /\ SameComposer(session, t) /\ SameLive(session, t) /\ SamePending(session, t)
      /\ SameCorrection(session, t) /\ t.wait = session.wait /\ t.gen = session.gen
      /\ t.zgen = session.zgen /\ t.zkey = session.zkey /\ t.zbase = session.zbase
  BY <1>1 DEF Sessions, SameComposer, SameLive, SamePending, SameCorrection
<1>5. session' = t
  BY <1>3
<1> HIDE DEF t
<1>6. Tidy(t)
  BY <1>4 DEF ShownInv, Tidy, SameComposer, SameLive, SamePending, SameCorrection
<1>7. Overlay(t) = Overlay(session) /\ t.state = session.state
  BY <1>4 DEF Overlay, Visible, PendingDisplay, Display, SameComposer, SameLive, SamePending,
     SameCorrection
<1>8. \A c : Current(session, c) => Current(t, c)
  BY <1>4 DEF Current, IsCurrentLive, IsCurrentZenz, SameComposer, SameLive, SamePending
<1>9. QED
  BY <1>2, <1>5, <1>6, <1>7, <1>8 DEF ShownInv

LEMMA FireSeen ==
  ASSUME ShownInv, Fire
  PROVE  ShownInv'
<1>1. session' = session /\ shown' = shown /\ sent' = timer /\ timer' = None
  BY DEF Fire
<1>2. QED
  BY <1>1 DEF ShownInv

LEMMA ShownStep ==
  ASSUME Routine, LiveInv, ShownInv, Next
  PROVE  ShownInv'
<1>1. /\ ~MoveCursor /\ ~Transliterate /\ ~SelectCandidate /\ ~Unmapped
      /\ ~CommitFirstSuggestion
  BY DEF Routine, MoveCursor, Transliterate, SelectCandidate, Unmapped, CommitFirstSuggestion
<1>2. CASE User
  <2>1. \A letter \in Letters \cup {Punct} : InsertCharacter(letter) => ShownInv'
    BY InsertSeen DEF Chars
  <2>2. QED
    BY <1>1, <1>2, <2>1, BackspaceSeen, EscapeSeen, SpaceSeen, PredictSeen, EnterSeen,
       SubmitSeen, IMESeen, UndoSeen, ResetSeen DEF User
<1>3. QED
  BY <1>2, FireSeen, DeliverSeen, WorkerSeen DEF Next

LEMMA ShownInit == Init => ShownInv
BY DEF Init, ShownInv, Tidy, Editing

\* Enter takes its text from the overlay that is shown.
LEMMA EnterCommitsOverlay ==
  ASSUME LiveInv, Enter
  PROVE  result' = Overlay(session)
<1> DEFINE t == [session EXCEPT !.active = FALSE]
<1>1. /\ Good(session) /\ session \in Sessions /\ session.state \in Editing
      /\ Command({IF Visible(session) THEN CommitZenz(session) ELSE CommitAny(t)}, FALSE)
  BY DEF LiveInv, Good, Loose, Typed, Enter
<1>2. result' = (IF Visible(session) THEN CommitZenz(session) ELSE CommitAny(t)).result
  BY <1>1 DEF Command, Handle, Answer
<1>3. CASE Visible(session)
  BY <1>1, <1>2, <1>3, CommitZenzCommits DEF Overlay
<1>4. CASE ~Visible(session)
  <2>1. /\ Typed(t) /\ Place(t) /\ UndoShape(t) /\ t.state \in Editing /\ ~Visible(t)
        /\ t.reading = session.reading /\ SamePending(session, t) /\ t.key = session.key
        /\ t.value = session.value /\ Display(t) = Display(session)
    BY <1>1, NotActive
  <2> HIDE DEF t
  <2>2. CASE t.pending
    <3> DEFINE p == PushUndo(t)
               text == IF PendingDisplay(p) = <<>> THEN As("raw", p.reading)
                       ELSE PendingDisplay(p)
    <3>1. Typed(p) /\ p.reading = t.reading /\ SameLive(t, p)
      BY <2>1, PushUndoFacts
    <3>2. CommitAny(t) = CommitString(ClearLive(p), text)
      BY <2>1, <2>2 DEF CommitAny, CommitPendingDisplay
    <3> HIDE DEF p
    <3>3. PendingDisplay(p) = PendingDisplay(session)
      BY <2>1, <3>1 DEF PendingDisplay, SameLive
    <3>4. PendingDisplay(session) \in Texts /\ PendingDisplay(session) # <<>>
      <4>1. Typed(session) /\ Extends(session.key, session.reading) /\ session.reading # <<>>
        BY <1>1, <2>1, <2>2 DEF Good, Loose, Pend, Place, SamePending
      <4>2. /\ PendingDisplay(session) \in Texts
            /\ ReadingOf(PendingDisplay(session)) = session.reading
        BY <4>1, PendingDisplayFacts
      <4>3. QED
        BY <4>1, <4>2, ReadingOfFacts
    <3>5. text = PendingDisplay(session)
      BY <3>3, <3>4
    <3> HIDE DEF text
    <3>6. ClearLive(p) \in Sessions
      BY <3>1, ClearLiveFacts DEF Typed
    <3>7. CommitAny(t).result = PendingDisplay(session)
      BY <3>2, <3>4, <3>5, <3>6, CommitStringCommits
    <3>8. QED
      BY <1>2, <1>4, <2>1, <2>2, <3>7 DEF Overlay, SamePending
  <2>3. CASE ~t.pending
    <3>1. CommitAny(t).result = Display(session)
      BY <2>1, <2>3, CommitInternalLeaves DEF CommitAny
    <3>2. QED
      BY <1>2, <1>4, <2>1, <2>3, <3>1 DEF Overlay, SamePending
  <2>4. QED
    BY <2>2, <2>3
<1>5. QED
  BY <1>3, <1>4

\* EnterCommitsWhatIsShown, while typing with a client whose timer any key
\* resets: the last response showed what Enter hands over, however the answers
\* of the model, the callbacks and the keys are interleaved.  It does not hold
\* of the commands that Routine leaves out: DoNothing and a cursor key show the
\* converter's text over an overlay that Enter still commits.
THEOREM EnterCommitsTheShown == Routine => (Spec => EnterCommitsWhatIsShown)
<1> SUFFICES ASSUME Routine PROVE Spec => EnterCommitsWhatIsShown
  OBVIOUS
<1>1. ShownInv /\ UNCHANGED vars => ShownInv'
  BY DEF vars, ShownInv
<1>2. LiveInv /\ ShownInv /\ [Next]_vars => ShownInv'
  BY <1>1, ShownStep
<1>3. LiveInv /\ ShownInv /\ [Next]_vars => [Enter => result' = shown]_vars
  BY EnterCommitsOverlay DEF ShownInv, Enter
<1>4. QED
  BY <1>2, <1>3, ShownInit, LiveInvariant, PTL DEF Spec, EnterCommitsWhatIsShown

=============================================================================
