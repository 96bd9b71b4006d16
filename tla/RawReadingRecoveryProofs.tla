---------------------- MODULE RawReadingRecoveryProofs ----------------------
(***************************************************************************)
(* Proofs about RawReadingRecovery and the Client below it, for any        *)
(* letters, lengths and capacity of the journal, and any number of faults. *)
(*                                                                         *)
(* Every operation maps a world to the set of its outcomes, so there is    *)
(* one lemma for each: what it keeps of the world, and what an outcome of  *)
(* each kind promises.  They are stated in the order in which the          *)
(* operations call each other, from the transport to the actions.          *)
(***************************************************************************)
EXTENDS RawReadingRecovery, SequenceTheorems, WellFoundedInduction, TLAPS

-----------------------------------------------------------------------------
(* Worlds and the relations between them.                                   *)

\* The readings that fit on the screen, and the sessions that hold one.
ShortReadings == {s \in Seq(Letters) : Len(s) <= MaxLength}
OpenSessions ==
  [no : 1..2, on : BOOLEAN, reading : ShortReadings, conv : BOOLEAN]

Worlds ==
  [up : BOOLEAN, session : OpenSessions \cup {None}, faults : 0..MaxFaults,
   status : Statuses, id : {"void", "some"}, gen : Nat,
   journal : Seq(Letters \cup {"BACKSPACE"}), suppressed : BOOLEAN,
   observed : Nat, initial : Nat, view : 0..2,
   ran : SUBSET (Nat \X Seq(Letters)), sends : Nat, direct : BOOLEAN]

Replies ==
  [id : {"void", "some"}, mode : BOOLEAN, reading : ShortReadings,
   conv : BOOLEAN, consumed : BOOLEAN, result : BOOLEAN]

SessionTypes == {"MODE", "COMMAND", "SUBMIT", "REVERT", "STATUS"}

\* The journal's part of the world and the screen's are as they were.
Kept(w, v) ==
  /\ v.journal = w.journal /\ v.suppressed = w.suppressed
  /\ v.observed = w.observed /\ v.view = w.view

\* The sessions were made to do nothing that is recorded.
Quiet(w, v) == v.ran = w.ran /\ v.sends = w.sends /\ v.direct = w.direct

\* The client is as it was.
SameClient(w, v) == v.id = w.id /\ v.gen = w.gen /\ v.initial = w.initial

\* There is nothing in the session, if there is a session.
Blank(w) == w.session # None => w.session.reading = <<>> /\ ~w.session.conv

\* A server that is down has no session.
Standing(w) == ~w.up => w.session = None

LEMMA NoneIsNoSession == None \notin OpenSessions
<1>1. OpenSessions \subseteq [no : 1..2, on : BOOLEAN, reading : Seq(Letters), conv : BOOLEAN]
  BY DEF OpenSessions, ShortReadings
<1> QED
  BY <1>1, ConstantsAssumption

LEMMA EmptySequences ==
  /\ <<>> \in Seq(Letters) /\ <<>> \in Seq(Letters \cup {"BACKSPACE"})
  /\ <<>> \in ShortReadings
BY ConstantsAssumption DEF ShortReadings

-----------------------------------------------------------------------------
(* The transport.                                                           *)

LEMMA FaultyOutcome ==
  ASSUME NEW w \in Worlds, NEW v \in Faulty(w)
  PROVE  /\ v \in Worlds /\ Kept(w, v) /\ Quiet(w, v) /\ SameClient(w, v)
         /\ v.up = w.up /\ v.session = w.session /\ v.status = w.status
<1>1. w.faults > 0 /\ v = [w EXCEPT !.faults = @ - 1]
  BY DEF Faulty
<1>2. w.faults - 1 \in 0..MaxFaults
  BY <1>1, ConstantsAssumption DEF Worlds
<1> QED
  BY <1>1, <1>2 DEF Worlds, Kept, Quiet, SameClient

\* A server that is met in place of the one that was expected.
Met(w, v) ==
  /\ v \in Worlds /\ Kept(w, v) /\ Quiet(w, v) /\ SameClient(w, v)
  /\ v.status = w.status /\ v.session \in {w.session, None} /\ Standing(v)

LEMMA MeetsOutcome ==
  ASSUME NEW w \in Worlds, Standing(w), NEW v \in Meets(w)
  PROVE  Met(w, v)
<1>1. CASE v = w
  BY <1>1 DEF Met, Kept, Quiet, SameClient
<1>2. CASE \E u \in Faulty(w) : v \in {Crashed(u), Replaced(u)}
  <2>1. PICK u \in Faulty(w) : v \in {Crashed(u), Replaced(u)}
    BY <1>2
  <2>2. u \in Worlds /\ Kept(w, u) /\ Quiet(w, u) /\ SameClient(w, u) /\ u.status = w.status
    BY <2>1, FaultyOutcome
  <2>3. /\ v \in Worlds /\ Kept(u, v) /\ Quiet(u, v) /\ SameClient(u, v)
        /\ v.status = u.status /\ v.session = None
    <3>1. CASE v = Crashed(u)
      BY <2>2, <3>1 DEF Crashed, Worlds, Kept, Quiet, SameClient
    <3>2. CASE v = Replaced(u)
      BY <2>2, <3>2 DEF Replaced, Worlds, Kept, Quiet, SameClient
    <3> QED
      BY <2>1, <3>1, <3>2
  <2> QED
    BY <2>2, <2>3 DEF Met, Standing, Kept, Quiet, SameClient
<1> QED
  BY <1>1, <1>2 DEF Meets

-----------------------------------------------------------------------------
(* The server.                                                              *)



LEMMA FrontOutcome ==
  ASSUME NEW S, NEW s \in Seq(S), s # <<>>
  PROVE  Front(s) \in Seq(S) /\ Len(Front(s)) = Len(s) - 1
<1>1. Len(s) \in Nat /\ Len(s) # 0
  BY EmptySeq
<1> DEFINE n == Len(s) - 1
<1>2. /\ 1 \in Int /\ n \in Int /\ n <= Len(s) /\ n = Len(s) - 1 /\ n >= 0
      /\ \A i \in 1..n : s[i] \in S
  BY <1>1, ElementOfSeq
<1> HIDE DEF n
<1>3. /\ SubSeq(s, 1, n) \in Seq(S)
      /\ Len(SubSeq(s, 1, n)) = IF 1 <= n THEN n - 1 + 1 ELSE 0
  BY <1>2, SubSeqProperties
<1>4. Len(SubSeq(s, 1, n)) = n
  BY <1>2, <1>3
<1>5. Front(s) = SubSeq(s, 1, n)
  BY DEF Front, n
<1> QED
  BY <1>2, <1>3, <1>4, <1>5

\* What a session answers to a key, case by case.
LEMMA KeyEffectOutcome ==
  ASSUME NEW s, s.reading \in ShortReadings, s.conv \in BOOLEAN, NEW key \in Keys,
         (key \in Letters /\ ~s.conv) => Len(s.reading) < MaxLength
  PROVE  LET e == KeyEffect(s, key)
         IN  /\ e \in [reading : ShortReadings, conv : BOOLEAN, consumed : BOOLEAN, result : BOOLEAN]
             /\ key \in Letters =>
                  /\ e.reading = IF s.conv THEN <<key>> ELSE Append(s.reading, key)
                  /\ e.consumed /\ ~e.conv /\ e.result = s.conv
             /\ key \notin Letters /\ s.reading = <<>> =>
                  e.reading = <<>> /\ ~e.conv /\ ~e.consumed /\ ~e.result
             /\ key = "CONVERT" /\ s.reading # <<>> =>
                  e.reading = s.reading /\ e.conv /\ e.consumed /\ ~e.result
             /\ key = "ENTER" /\ s.reading # <<>> =>
                  e.reading = <<>> /\ ~e.conv /\ e.consumed /\ e.result
             /\ key = "BACKSPACE" /\ s.reading # <<>> =>
                  /\ e.reading = IF s.conv THEN s.reading ELSE Front(s.reading)
                  /\ e.consumed /\ ~e.conv /\ ~e.result
<1>0. s.reading \in Seq(Letters) /\ Len(s.reading) <= MaxLength /\ MaxLength \in Nat \ {0}
  BY ConstantsAssumption DEF ShortReadings
<1>1. CASE key \in Letters
  <2>1. key \notin {"CONVERT", "ENTER", "BACKSPACE"}
    BY <1>1, ConstantsAssumption
  <2>2. <<key>> \in ShortReadings /\ (~s.conv => Append(s.reading, key) \in ShortReadings)
    BY <1>0, <1>1 DEF ShortReadings
  <2> QED
    BY <1>1, <2>1, <2>2 DEF KeyEffect
<1>2. CASE key \notin Letters /\ s.reading = <<>>
  BY <1>2, EmptySequences DEF KeyEffect
<1>3. CASE key \notin Letters /\ s.reading # <<>>
  <2>1. key \in {"CONVERT", "ENTER", "BACKSPACE"}
    BY <1>3 DEF Keys
  <2>2. Front(s.reading) \in ShortReadings
    BY <1>0, <1>3, FrontOutcome DEF ShortReadings
  <2>3. CASE key = "CONVERT"
    BY <1>3, <2>3 DEF KeyEffect
  <2>4. CASE key = "ENTER"
    BY <1>3, <2>4, EmptySequences DEF KeyEffect
  <2>5. CASE key = "BACKSPACE"
    BY <1>3, <2>2, <2>5 DEF KeyEffect
  <2> QED
    BY <2>1, <2>3, <2>4, <2>5
<1> QED
  BY <1>1, <1>2, <1>3

\* What serving a request may do to a world: the client does not notice, a
\* session stays the session it is, and nothing becomes of no session.
Served(w, v, req) ==
  /\ v \in Worlds /\ Kept(w, v) /\ SameClient(w, v)
  /\ v.up = w.up /\ v.status = w.status /\ v.faults = w.faults
  /\ req.type = "CREATE" /\ v.session # None => v.session.reading = <<>> /\ ~v.session.conv
  /\ req.type # "CREATE" /\ w.session = None => v.session = None
  /\ req.type = "DELETE" => v.session = None
  /\ req.type \in {"SET_REQUEST", "GET_CONFIG"} => v.session = w.session
  /\ req.type # "KEY" => v.sends = w.sends /\ v.direct = w.direct
  /\ req.type \notin {"COMMAND", "SUBMIT"} => v.ran = w.ran
  /\ w.session # None /\ w.session.on => v.direct = w.direct
  /\ w.session = None => v.direct = w.direct

\* What the session of w answers: the reply shows what it holds.
Answered(w, c, req) ==
  LET s == w.session
      t == c.w.session
      e == KeyEffect(s, req.key)
  IN  /\ t \in OpenSessions /\ t.no = s.no
      /\ IF req.type = "MODE" THEN t.on ELSE t.on = s.on
      /\ c.reply \in Replies /\ c.reply.id = "some" /\ c.reply.mode = t.on
      /\ c.reply.reading = t.reading /\ c.reply.conv = t.conv
      /\ req.type \in {"MODE", "COMMAND", "STATUS"} =>
           t.reading = s.reading /\ t.conv = s.conv
      /\ req.type \in {"SUBMIT", "REVERT"} => t.reading = <<>> /\ ~t.conv
      /\ req.type # "KEY" => c.reply.consumed
      /\ req.type \notin {"KEY", "SUBMIT"} => ~c.reply.result
      /\ req.type = "KEY" /\ s.on =>
           /\ t.reading = e.reading /\ t.conv = e.conv
           /\ c.reply.consumed = e.consumed /\ c.reply.result = e.result
      /\ req.type = "KEY" => c.w.sends = w.sends + (IF req.user THEN 1 ELSE 0)
      /\ c.w.ran \subseteq w.ran \cup {<<s.no, s.reading>>}

\* There is room for a letter in the session that takes the key.
Room(w, req) ==
  (req.type = "KEY" /\ req.key \in Letters /\ w.session # None /\ ~w.session.conv)
    => Len(w.session.reading) < MaxLength

\* The six requests for a session.
LEMMA ServeKeyOutcome ==
  ASSUME NEW w \in Worlds, w.session \in OpenSessions,
         NEW req, req.type = "KEY", req.key \in Keys, req.user \in BOOLEAN, Room(w, req)
  PROVE  LET c == ServeSession(w, req)
         IN  Served(w, c.w, req) /\ Answered(w, c, req)
<1> DEFINE s == w.session
           e == KeyEffect(s, req.key)
           sends == w.sends + (IF req.user THEN 1 ELSE 0)
           direct == w.direct \/ ~s.on
           v == [w EXCEPT !.sends = sends, !.direct = direct]
           keyed == [s EXCEPT !.reading = e.reading, !.conv = e.conv]
           c == ServeSession(w, req)
<1>1. s \in OpenSessions /\ req.key \in Keys /\ req.user \in BOOLEAN
  OBVIOUS
<1>2. e \in [reading : ShortReadings, conv : BOOLEAN, consumed : BOOLEAN, result : BOOLEAN]
  BY <1>1, KeyEffectOutcome, NoneIsNoSession DEF OpenSessions, Room
<1> HIDE DEF e
<1>3. /\ keyed \in OpenSessions /\ keyed.no = s.no /\ keyed.on = s.on
      /\ keyed.reading = e.reading /\ keyed.conv = e.conv
  BY <1>1, <1>2 DEF OpenSessions
<1>a. sends \in Nat /\ direct \in BOOLEAN /\ (s.on => direct = w.direct)
  BY <1>1 DEF Worlds, OpenSessions
<1> HIDE DEF sends, direct
<1>4. /\ v \in Worlds /\ Kept(w, v) /\ SameClient(w, v) /\ v.up = w.up
      /\ v.status = w.status /\ v.faults = w.faults /\ v.ran = w.ran
      /\ v.sends = sends /\ v.direct = direct /\ v.session = s
  BY <1>1, <1>a DEF Worlds, Kept, SameClient
<1> HIDE DEF v, keyed, s
<1>5. CASE s.on
  <2> DEFINE d == [w |-> [v EXCEPT !.session = keyed],
                   reply |-> [ReplyOf(keyed) EXCEPT !.consumed = TRUE]]
  <2>a. c = [d EXCEPT !.reply.consumed = e.consumed, !.reply.result = e.result]
    BY <1>5 DEF ServeSession, s, v, e, keyed, sends, direct
  <2>b. d.reply \in Replies
    BY <1>2, <1>3 DEF Replies, ReplyOf, EmptyReply, OpenSessions
  <2>1. /\ c.w = [v EXCEPT !.session = keyed]
        /\ c.reply = [d.reply EXCEPT !.consumed = e.consumed, !.result = e.result]
    BY <2>a
  <2> HIDE DEF c
  <2>2. /\ c.w \in Worlds /\ Kept(v, c.w) /\ SameClient(v, c.w) /\ c.w.up = v.up
        /\ c.w.status = v.status /\ c.w.faults = v.faults /\ c.w.ran = v.ran
        /\ c.w.sends = v.sends /\ c.w.direct = v.direct /\ c.w.session = keyed
    BY <2>1, <1>3, <1>4 DEF Worlds, Kept, SameClient
  <2>3. /\ c.reply \in Replies /\ c.reply.id = "some" /\ c.reply.mode = keyed.on
        /\ c.reply.reading = keyed.reading /\ c.reply.conv = keyed.conv
        /\ c.reply.consumed = e.consumed /\ c.reply.result = e.result
    BY <2>1, <1>2, <1>3 DEF Replies, ReplyOf, EmptyReply, OpenSessions
  <2> QED
    <3>1. Served(w, c.w, req)
      BY <1>1, <1>3, <1>4, <1>a, <1>5, <2>2, NoneIsNoSession DEF Served, Kept, SameClient, s
    <3>2. Answered(w, c, req)
      <4>1. c.w.ran \subseteq w.ran \cup {<<s.no, s.reading>>} /\ c.w.sends = sends
        BY <1>4, <2>2
      <4>2. /\ c.w.session.reading = e.reading /\ c.w.session.conv = e.conv
            /\ c.w.session.on = s.on /\ c.w.session.no = s.no
        BY <1>3, <2>2
      <4>3. /\ c.reply.mode = c.w.session.on /\ c.reply.reading = c.w.session.reading
            /\ c.reply.conv = c.w.session.conv
        BY <2>2, <2>3
      <4> QED
        BY <1>1, <1>3, <1>5, <2>2, <2>3, <4>1, <4>2, <4>3 DEF Answered, s, e, sends
    <3> QED
      BY <3>1, <3>2 DEF c
<1>6. CASE ~s.on
  <2> DEFINE d == [w |-> [v EXCEPT !.session = s],
                   reply |-> [ReplyOf(s) EXCEPT !.consumed = TRUE]]
  <2>a. c = [d EXCEPT !.reply.consumed = FALSE]
    BY <1>6 DEF ServeSession, s, v, e, keyed, sends, direct
  <2>b. d.reply \in Replies
    BY <1>1 DEF Replies, ReplyOf, EmptyReply, OpenSessions
  <2>1. /\ c.w = [v EXCEPT !.session = s]
        /\ c.reply = [d.reply EXCEPT !.consumed = FALSE]
    BY <2>a
  <2> HIDE DEF c
  <2>2. /\ c.w \in Worlds /\ Kept(v, c.w) /\ SameClient(v, c.w) /\ c.w.up = v.up
        /\ c.w.status = v.status /\ c.w.faults = v.faults /\ c.w.ran = v.ran
        /\ c.w.sends = v.sends /\ c.w.direct = v.direct /\ c.w.session = s
    BY <2>1, <1>1, <1>4 DEF Worlds, Kept, SameClient
  <2>3. /\ c.reply \in Replies /\ c.reply.id = "some" /\ c.reply.mode = s.on
        /\ c.reply.reading = s.reading /\ c.reply.conv = s.conv
    BY <2>1, <1>1 DEF Replies, ReplyOf, EmptyReply, OpenSessions
  <2> QED
    <3>1. Served(w, c.w, req)
      <4>1. ~s.on /\ w.session # None
        BY <1>1, <1>6, NoneIsNoSession DEF s
      <4> QED
        BY <1>1, <1>4, <4>1, <2>2 DEF Served, Kept, SameClient, s
    <3>2. Answered(w, c, req)
      <4>1. c.w.ran \subseteq w.ran \cup {<<s.no, s.reading>>} /\ c.w.sends = sends
        BY <1>4, <2>2
      <4> QED
        BY <1>1, <1>6, <2>2, <2>3, <4>1 DEF Answered, s, sends
    <3> QED
      BY <3>1, <3>2 DEF c
<1> QED
  BY <1>1, <1>5, <1>6 DEF OpenSessions, c

LEMMA ServeCommandOutcome ==
  ASSUME NEW w \in Worlds, w.session \in OpenSessions,
         NEW req, req.type \in SessionTypes
  PROVE  LET c == ServeSession(w, req)
         IN  Served(w, c.w, req) /\ Answered(w, c, req)
<1> DEFINE s == w.session
           changed == [s EXCEPT !.reading = <<>>, !.conv = FALSE]
           on == [s EXCEPT !.on = TRUE]
           v == [w EXCEPT !.ran = @ \cup {<<s.no, s.reading>>}]
           done(t, u) == [w |-> [u EXCEPT !.session = t],
                          reply |-> [ReplyOf(t) EXCEPT !.consumed = TRUE]]
           c == ServeSession(w, req)
<1>1. s \in OpenSessions /\ <<s.no, s.reading>> \in Nat \X Seq(Letters)
  BY DEF OpenSessions, ShortReadings
<1>2. /\ changed \in OpenSessions /\ changed.no = s.no /\ changed.on = s.on
      /\ changed.reading = <<>> /\ ~changed.conv
      /\ on \in OpenSessions /\ on.no = s.no /\ on.on
      /\ on.reading = s.reading /\ on.conv = s.conv
  BY <1>1, EmptySequences DEF OpenSessions
<1>3. /\ v \in Worlds /\ Kept(w, v) /\ SameClient(w, v) /\ v.up = w.up
      /\ v.status = w.status /\ v.faults = w.faults
      /\ v.ran = w.ran \cup {<<s.no, s.reading>>}
      /\ v.sends = w.sends /\ v.direct = w.direct
  BY <1>1 DEF Worlds, Kept, SameClient
<1> HIDE DEF v, changed, on, s
<1>4. ASSUME NEW t \in OpenSessions, NEW u \in Worlds
      PROVE  LET d == done(t, u)
             IN  /\ d.w \in Worlds /\ Kept(u, d.w) /\ SameClient(u, d.w) /\ d.w.up = u.up
                 /\ d.w.status = u.status /\ d.w.faults = u.faults /\ d.w.ran = u.ran
                 /\ d.w.sends = u.sends /\ d.w.direct = u.direct /\ d.w.session = t
                 /\ d.reply \in Replies /\ d.reply.id = "some" /\ d.reply.mode = t.on
                 /\ d.reply.reading = t.reading /\ d.reply.conv = t.conv
                 /\ d.reply.consumed /\ ~d.reply.result
  <2> DEFINE d == done(t, u)
  <2>1. /\ d.w \in Worlds /\ Kept(u, d.w) /\ SameClient(u, d.w) /\ d.w.up = u.up
        /\ d.w.status = u.status /\ d.w.faults = u.faults /\ d.w.ran = u.ran
        /\ d.w.sends = u.sends /\ d.w.direct = u.direct /\ d.w.session = t
    BY <1>4 DEF Worlds, Kept, SameClient
  <2>2. /\ d.reply \in Replies /\ d.reply.id = "some" /\ d.reply.mode = t.on
        /\ d.reply.reading = t.reading /\ d.reply.conv = t.conv
        /\ d.reply.consumed /\ ~d.reply.result
    BY <1>4 DEF Replies, ReplyOf, EmptyReply, OpenSessions
  <2> QED
    BY <2>1, <2>2
<1>5. w \in Worlds /\ Kept(w, w) /\ SameClient(w, w)
  BY DEF Kept, SameClient
<1>6. CASE req.type = "MODE"
  <2>1. c = done(on, w)
    BY <1>6 DEF ServeSession, s, on
  <2> HIDE DEF c, done
  <2> QED
    BY <1>2, <1>4, <1>6, <2>1, NoneIsNoSession DEF Served, Answered, Kept, SameClient, s, c, SessionTypes
<1>7. CASE req.type = "COMMAND"
  <2>1. c = done(s, v)
    BY <1>7 DEF ServeSession, s, v
  <2> HIDE DEF c, done
  <2> QED
    BY <1>1, <1>3, <1>4, <1>7, <2>1, NoneIsNoSession DEF Served, Answered, Kept, SameClient, s, c, SessionTypes
<1>8. CASE req.type = "SUBMIT"
  <2> DEFINE d == done(changed, v)
             result == s.reading # <<>>
  <2>a. c = [d EXCEPT !.reply.result = result]
    BY <1>8 DEF ServeSession, s, v, changed
  <2>b. result \in BOOLEAN
    OBVIOUS
  <2> HIDE DEF result
  <2>1. c.w = d.w /\ c.reply = [d.reply EXCEPT !.result = result]
    BY <2>a
  <2>2. /\ c.w = d.w /\ c.reply \in Replies /\ c.reply.id = d.reply.id
        /\ c.reply.mode = d.reply.mode /\ c.reply.reading = d.reply.reading
        /\ c.reply.conv = d.reply.conv /\ c.reply.consumed = d.reply.consumed
    <3> d.reply \in Replies
      BY <1>2, <1>3, <1>4
    <3> HIDE DEF d, c
    <3> QED
      BY <2>1, <2>b DEF Replies
  <2> HIDE DEF c, done
  <2> QED
    BY <1>2, <1>3, <1>4, <1>8, <2>2, NoneIsNoSession DEF Served, Answered, Kept, SameClient, s, c, SessionTypes
<1>9. CASE req.type = "REVERT"
  <2>1. c = done(changed, w)
    BY <1>9 DEF ServeSession, s, changed
  <2> HIDE DEF c, done
  <2> QED
    BY <1>2, <1>4, <1>9, <2>1, NoneIsNoSession DEF Served, Answered, Kept, SameClient, s, c, SessionTypes
<1>10. CASE req.type = "STATUS"
  <2>1. c = done(s, w)
    BY <1>10 DEF ServeSession, s
  <2> HIDE DEF c, done
  <2> QED
    BY <1>1, <1>4, <1>10, <2>1, NoneIsNoSession DEF Served, Answered, Kept, SameClient, s, c, SessionTypes
<1> QED
  BY <1>6, <1>7, <1>8, <1>9, <1>10 DEF SessionTypes, c

IsRequest(req) ==
  \/ req.type = "KEY" /\ req.key \in Keys /\ req.user \in BOOLEAN
  \/ req.type \in SessionTypes \cup {"CREATE", "SET_REQUEST", "GET_CONFIG", "DELETE"}

LEMMA RequestIsRequest ==
  /\ \A type \in SessionTypes \cup {"CREATE", "SET_REQUEST", "GET_CONFIG", "DELETE"} :
       IsRequest(Request(type)) /\ Request(type).type = type /\ \A w : Room(w, Request(type))
  /\ \A key \in Keys, user \in BOOLEAN :
       LET req == KeyRequest(key, user)
       IN  IsRequest(req) /\ req.type = "KEY" /\ req.key = key /\ req.user = user
BY DEF IsRequest, Request, KeyRequest, Room, SessionTypes

LEMMA EmptyReplyType ==
  /\ EmptyReply \in Replies /\ EmptyReply.id = "void" /\ EmptyReply.mode = FALSE
  /\ EmptyReply.consumed = FALSE /\ EmptyReply.reading = <<>>
BY EmptySequences DEF EmptyReply, Replies

\* Any request: without a session the answer is the id 0.
LEMMA ServeOutcome ==
  ASSUME NEW w \in Worlds, NEW req, IsRequest(req), Room(w, req)
  PROVE  LET c == Serve(w, req)
         IN  /\ Served(w, c.w, req) /\ c.reply \in Replies
             /\ req.type \in SessionTypes \cup {"KEY"} =>
                  IF w.session = None THEN c.w = w /\ c.reply = EmptyReply
                  ELSE Answered(w, c, req)
             /\ req.type = "CREATE" => c.reply.id = "some" /\ c.w.session \in OpenSessions
             /\ req.type \in {"SET_REQUEST", "GET_CONFIG"} => c.w = w
<1> DEFINE c == Serve(w, req)
<1>0. Served(w, w, req) \/ req.type \in {"CREATE", "DELETE"}
  BY DEF Served, Kept, SameClient
<1>1. CASE req.type \in SessionTypes \cup {"KEY"} /\ w.session = None
  <2>1. c = [w |-> w, reply |-> EmptyReply]
    BY <1>1 DEF Serve, SessionTypes
  <2> QED
    BY <1>0, <1>1, <2>1, EmptyReplyType DEF SessionTypes
<1>2. CASE req.type \in SessionTypes \cup {"KEY"} /\ w.session # None
  <2>1. c = ServeSession(w, req)
    BY <1>2 DEF Serve, SessionTypes
  <2>2. w.session \in OpenSessions
    BY <1>2 DEF Worlds
  <2>3. Served(w, c.w, req) /\ Answered(w, c, req)
    <3>1. CASE req.type = "KEY"
      BY <2>1, <2>2, <3>1, ServeKeyOutcome DEF IsRequest, SessionTypes
    <3>2. CASE req.type \in SessionTypes
      BY <2>1, <2>2, <3>2, ServeCommandOutcome
    <3> QED
      BY <1>2, <3>1, <3>2
  <2>4. c.reply \in Replies
    BY <2>3 DEF Answered
  <2> HIDE DEF c
  <2> QED
    BY <1>2, <2>3, <2>4 DEF SessionTypes, c
<1>3. CASE req.type = "CREATE"
  <2> DEFINE s == NewSession(w)
  <2>1. (CHOOSE n \in 1..2 : n # w.view) \in 1..2
    <3>1. \E n \in 1..2 : n # w.view
      BY DEF Worlds
    <3> QED
      BY <3>1
  <2>2. s \in OpenSessions /\ s.reading = <<>> /\ ~s.conv
    BY <2>1, EmptySequences DEF NewSession, OpenSessions
  <2>3. /\ c.w = [w EXCEPT !.session = s]
        /\ c.reply = [EmptyReply EXCEPT !.id = "some"]
    BY <1>3 DEF Serve
  <2> HIDE DEF c, s
  <2>4. c.reply \in Replies /\ c.reply.id = "some"
    BY <2>3, EmptyReplyType DEF Replies
  <2>5. Served(w, c.w, req) /\ c.w.session = s
    BY <1>3, <2>2, <2>3 DEF Served, Worlds, Kept, SameClient
  <2> QED
    BY <1>3, <2>2, <2>4, <2>5 DEF SessionTypes, c
<1>4. CASE req.type \in {"SET_REQUEST", "GET_CONFIG"}
  <2>1. c = [w |-> w, reply |-> [EmptyReply EXCEPT !.id = "some"]]
    BY <1>4 DEF Serve
  <2>2. c.w = w /\ c.reply \in Replies
    BY <2>1, EmptyReplyType DEF Replies
  <2> HIDE DEF c
  <2> QED
    BY <1>0, <1>4, <2>2 DEF SessionTypes, c
<1>5. CASE req.type = "DELETE"
  <2>1. c.reply = EmptyReply /\ ((c.w = w /\ w.session = None) \/ c.w = [w EXCEPT !.session = None])
    BY <1>5 DEF Serve, ServeSession
  <2> HIDE DEF c
  <2>2. Served(w, c.w, req)
    BY <1>5, <2>1 DEF Served, Worlds, Kept, SameClient
  <2> QED
    BY <1>5, <2>1, <2>2, EmptyReplyType DEF SessionTypes, c
<1> QED
  BY <1>1, <1>2, <1>3, <1>4, <1>5 DEF IsRequest

\* Two worlds that differ in the client's status at most, and in the faults left.
Alike(w, v) ==
  /\ v \in Worlds /\ Kept(w, v) /\ Quiet(w, v) /\ SameClient(w, v)
  /\ v.session = w.session /\ v.up = w.up

\* A call that is answered; one that is cut off, which reads as an empty
\* answer; one that fails, whether it was served or not.
Delivered(w, r, req) ==
  /\ r.ok = TRUE
  /\ \E v : /\ Met(w, v) /\ v.up
            /\ r.w = Serve(v, req).w /\ r.reply = Serve(v, req).reply
CutOff(w, r) == r.ok = TRUE /\ r.reply = EmptyReply /\ Met(w, r.w) /\ r.w.session = None
Unanswered(w, r, req) ==
  /\ r.ok = FALSE /\ r.reply = EmptyReply /\ r.w.status # "OK"
  /\ \E v : /\ Met(w, v)
            /\ \/ Alike(v, r.w)
               \/ req.type # "CREATE" /\ v.up /\ Alike(Serve(v, req).w, r.w)

LEMMA FailedOutcome ==
  ASSUME NEW w \in Worlds, NEW status \in Statuses
  PROVE  LET r == Failed(w, status)
         IN  /\ Alike(w, r.w) /\ r.w.status = status /\ r.ok = FALSE /\ r.reply = EmptyReply
             /\ r.w.faults = w.faults
<1> DEFINE v == [w EXCEPT !.status = status]
<1>1. Alike(w, v) /\ v.status = status /\ v.faults = w.faults
  BY DEF Alike, Worlds, Kept, Quiet, SameClient
<1>2. Failed(w, status) = [w |-> v, ok |-> FALSE, reply |-> EmptyReply]
  BY DEF Failed
<1> HIDE DEF v
<1> QED
  BY <1>1, <1>2

LEMMA CallServerOutcome ==
  ASSUME NEW w \in Worlds, w.up, NEW req, IsRequest(req), Room(w, req),
         NEW r \in CallServer(w, req)
  PROVE  Delivered(w, r, req) \/ CutOff(w, r) \/ Unanswered(w, r, req)
<1> DEFINE served == Serve(w, req)
<1>1. Met(w, w)
  BY DEF Met, Kept, Quiet, SameClient, Standing
<1>2. served.w \in Worlds
  BY ServeOutcome DEF Served
<1>3. CASE r = [w |-> served.w, ok |-> TRUE, reply |-> served.reply]
  BY <1>1, <1>3 DEF Delivered
<1>4. ASSUME NEW v \in Faulty(w) PROVE Met(w, Crashed(v)) /\ Crashed(v).session = None
  <2>1. v \in Worlds /\ Kept(w, v) /\ Quiet(w, v) /\ SameClient(w, v) /\ v.status = w.status
    BY <1>4, FaultyOutcome
  <2> QED
    BY <2>1 DEF Crashed, Met, Worlds, Kept, Quiet, SameClient, Standing
<1>5. ASSUME NEW v \in Faulty(w),
             r \in {[w |-> Crashed(v), ok |-> TRUE, reply |-> EmptyReply],
                    Failed(Crashed(v), "SHUTDOWN")}
      PROVE  CutOff(w, r) \/ Unanswered(w, r, req)
  <2>1. CASE r = [w |-> Crashed(v), ok |-> TRUE, reply |-> EmptyReply]
    BY <1>4, <2>1 DEF CutOff
  <2>2. CASE r = Failed(Crashed(v), "SHUTDOWN")
    <3>1. Crashed(v) \in Worlds /\ "SHUTDOWN" \in Statuses
      BY <1>4 DEF Met, Statuses
    <3>2. Alike(Crashed(v), r.w) /\ r.w.status = "SHUTDOWN" /\ r.ok = FALSE /\ r.reply = EmptyReply
      BY <2>2, <3>1, FailedOutcome
    <3> QED
      BY <1>4, <3>2 DEF Unanswered
  <2> QED
    BY <1>5, <2>1, <2>2
<1>6. ASSUME NEW u \in {w, served.w}, u = w \/ req.type # "CREATE",
             NEW v \in Faulty(u), NEW status \in {"TIMEOUT", "SHUTDOWN"},
             r = Failed(v, status)
      PROVE  Unanswered(w, r, req)
  <2>1. u \in Worlds /\ status \in Statuses /\ status # "OK"
    BY <1>2 DEF Statuses, Refusing
  <2>2. Alike(u, v)
    BY <2>1, FaultyOutcome DEF Alike
  <2>3. Alike(v, r.w) /\ r.w.status = status /\ r.ok = FALSE /\ r.reply = EmptyReply
    BY <1>6, <2>1, <2>2, FailedOutcome DEF Alike
  <2>4. Alike(u, r.w)
    BY <2>2, <2>3 DEF Alike, Kept, Quiet, SameClient
  <2> QED
    BY <1>1, <1>6, <2>1, <2>3, <2>4 DEF Unanswered
<1> DEFINE sources == IF req.type = "CREATE" THEN {w} ELSE {w, served.w}
           survivors == UNION {Faulty(v) : v \in sources}
           dead == UNION {{[w |-> Crashed(v), ok |-> TRUE, reply |-> EmptyReply],
                           Failed(Crashed(v), "SHUTDOWN")} : v \in Faulty(w)}
           lost == {Failed(v, status) : v \in survivors, status \in {"TIMEOUT", "SHUTDOWN"}}
<1>a. r \in {[w |-> served.w, ok |-> TRUE, reply |-> served.reply]} \cup dead \cup lost
  BY DEF CallServer, Outcomes
<1>b. r \in dead => \E v \in Faulty(w) :
        r \in {[w |-> Crashed(v), ok |-> TRUE, reply |-> EmptyReply],
              Failed(Crashed(v), "SHUTDOWN")}
  OBVIOUS
<1>c. r \in lost =>
        \E v \in survivors, status \in {"TIMEOUT", "SHUTDOWN"} : r = Failed(v, status)
  <2> HIDE DEF survivors
  <2> QED
    OBVIOUS
<1>7. \/ r = [w |-> served.w, ok |-> TRUE, reply |-> served.reply]
      \/ \E v \in Faulty(w) :
           r \in {[w |-> Crashed(v), ok |-> TRUE, reply |-> EmptyReply],
                 Failed(Crashed(v), "SHUTDOWN")}
      \/ \E v \in survivors, status \in {"TIMEOUT", "SHUTDOWN"} : r = Failed(v, status)
  <2> HIDE DEF dead, lost, survivors, served
  <2> QED
    BY <1>a, <1>b, <1>c
<1>8. \A v \in survivors : \E u \in {w, served.w} :
        v \in Faulty(u) /\ (u = w \/ req.type # "CREATE")
  OBVIOUS
<1> HIDE DEF served, survivors
<1> QED
  BY <1>3, <1>5, <1>6, <1>7, <1>8

LEMMA CallOutcome ==
  ASSUME NEW w \in Worlds, Standing(w), NEW req, IsRequest(req), Room(w, req),
         NEW r \in Call(w, req)
  PROVE  /\ Delivered(w, r, req) \/ CutOff(w, r) \/ Unanswered(w, r, req)
         /\ r.ok => w.status \notin Refusing
<1>1. CASE w.status \in Refusing
  <2>1. r = Failed(w, w.status) /\ w.status \in Statuses /\ w.status # "OK"
    BY <1>1 DEF Call, Worlds, Refusing
  <2>2. Alike(w, r.w) /\ r.w.status = w.status /\ r.ok = FALSE /\ r.reply = EmptyReply
    BY <2>1, FailedOutcome
  <2>3. Met(w, w)
    BY DEF Met, Kept, Quiet, SameClient
  <2> QED
    BY <2>1, <2>2, <2>3 DEF Unanswered
<1>2. CASE w.status \notin Refusing
  <2>1. PICK v \in Meets(w) :
          r \in IF v.up THEN CallServer(v, req)
                ELSE {Failed(v, IF v.status = "UNKNOWN" THEN "UNKNOWN" ELSE "SHUTDOWN")}
    BY <1>2 DEF Call
  <2>2. Met(w, v)
    BY <2>1, MeetsOutcome
  <2>3. ASSUME NEW u, Met(v, u) PROVE Met(w, u)
    BY <2>2, <2>3 DEF Met, Kept, Quiet, SameClient
  <2>4. CASE v.up
    <3>1. Room(v, req)
      BY <2>2 DEF Met, Room
    <3>2. Delivered(v, r, req) \/ CutOff(v, r) \/ Unanswered(v, r, req)
      BY <2>1, <2>2, <2>4, <3>1, CallServerOutcome DEF Met
    <3> QED
      BY <1>2, <2>3, <3>2 DEF Delivered, CutOff, Unanswered
  <2>5. CASE ~v.up
    <3> DEFINE status == IF v.status = "UNKNOWN" THEN "UNKNOWN" ELSE "SHUTDOWN"
    <3>1. r = Failed(v, status) /\ status \in Statuses /\ status # "OK"
      BY <2>1, <2>5 DEF Statuses
    <3> HIDE DEF status
    <3>2. Alike(v, r.w) /\ r.w.status = status /\ r.ok = FALSE /\ r.reply = EmptyReply
      BY <2>2, <3>1, FailedOutcome DEF Met
    <3> QED
      BY <1>2, <2>2, <3>1, <3>2 DEF Unanswered
  <2> QED
    BY <2>4, <2>5
<1> QED
  BY <1>1, <1>2

\* A response is a record.
LEMMA CallRecord ==
  ASSUME NEW w, NEW req, NEW r \in Call(w, req)
  PROVE  r = [w |-> r.w, ok |-> r.ok, reply |-> r.reply]
<1> DEFINE Response(x) == x = [w |-> x.w, ok |-> x.ok, reply |-> x.reply]
<1>1. \A v, status : Response(Failed(v, status))
  BY DEF Failed
<1>2. \A v, reply : Response([w |-> v, ok |-> TRUE, reply |-> reply])
  OBVIOUS
<1>3. ASSUME NEW v, NEW x \in CallServer(v, req) PROVE Response(x)
  <2> DEFINE served == Serve(v, req)
             survivors == UNION {Faulty(u) : u \in IF req.type = "CREATE" THEN {v} ELSE {v, served.w}}
             dead == UNION {{[w |-> Crashed(u), ok |-> TRUE, reply |-> EmptyReply],
                             Failed(Crashed(u), "SHUTDOWN")} : u \in Faulty(v)}
             lost == {Failed(u, status) : u \in survivors, status \in {"TIMEOUT", "SHUTDOWN"}}
  <2>1. x \in {[w |-> served.w, ok |-> TRUE, reply |-> served.reply]} \cup dead \cup lost
    BY <1>3 DEF CallServer, Outcomes
  <2>2. x \in dead => \E u \in Faulty(v) :
          x \in {[w |-> Crashed(u), ok |-> TRUE, reply |-> EmptyReply],
                Failed(Crashed(u), "SHUTDOWN")}
    OBVIOUS
  <2>3. x \in lost =>
          \E u \in survivors, status \in {"TIMEOUT", "SHUTDOWN"} : x = Failed(u, status)
    <3> HIDE DEF survivors
    <3> QED
      OBVIOUS
  <2> HIDE DEF served, survivors, dead, lost, Response
  <2> QED
    BY <1>1, <1>2, <2>1, <2>2, <2>3
<1>4. \/ \E v, status : r = Failed(v, status)
      \/ \E v : r \in CallServer(v, req)
  BY DEF Call
<1> QED
  BY <1>1, <1>3, <1>4

-----------------------------------------------------------------------------
(* The client.                                                              *)

\* The id 0 stands for no session.
Sound(w) == w.id = "void" => w.session = None

\* The client is as it was, but for its status.
Near(w, v) ==
  /\ v \in Worlds /\ Kept(w, v) /\ Quiet(w, v) /\ SameClient(w, v)
  /\ v.session \in {w.session, None} /\ Standing(v)

LEMMA EnsureConnectionOutcome ==
  ASSUME NEW w \in Worlds, Standing(w), NEW e \in EnsureConnection(w)
  PROVE  /\ Near(w, e.w) /\ e.w.session = w.session /\ e.ok \in BOOLEAN
         /\ w.status \in {"OK", "INVALID_SESSION"} => e = Result(w, TRUE)
         /\ e.ok => e.w.status = IF w.status = "OK" THEN "OK" ELSE "INVALID_SESSION"
         /\ ~e.ok => e.w.status = "FATAL" /\ w.status # "OK"
<1>1. CASE w.status \in {"OK", "INVALID_SESSION"}
  <2>1. e = Result(w, TRUE) /\ e.w = w /\ e.ok = TRUE
    BY <1>1 DEF EnsureConnection, Result, Refusing
  <2>2. Near(w, w)
    BY DEF Near, Kept, Quiet, SameClient
  <2> QED
    BY <1>1, <2>1, <2>2
<1>2. CASE w.status \in Refusing
  <2>1. e.w = [w EXCEPT !.status = "FATAL"] /\ e.ok = FALSE
    BY <1>2 DEF EnsureConnection, Result, Refusing
  <2> QED
    BY <1>2, <2>1 DEF Near, Worlds, Statuses, Refusing, Kept, Quiet, SameClient, Standing
<1>3. CASE w.status \in {"SHUTDOWN", "UNKNOWN"}
  <2>1. PICK s \in StartServer(w) :
          e = Result([s.w EXCEPT !.status = IF s.ok THEN "INVALID_SESSION" ELSE "FATAL"], s.ok)
    BY <1>3 DEF EnsureConnection, Refusing
  <2>2. /\ s.w \in Worlds /\ Kept(w, s.w) /\ Quiet(w, s.w) /\ SameClient(w, s.w)
        /\ s.w.session = w.session /\ Standing(s.w) /\ s.ok \in BOOLEAN
    <3>1. CASE s = Result([w EXCEPT !.up = TRUE], TRUE)
      BY <3>1 DEF Result, Worlds, Kept, Quiet, SameClient, Standing
    <3>2. CASE \E v \in Faulty(w) : s = Result(v, FALSE)
      BY <3>2, FaultyOutcome DEF Result, Standing
    <3> QED
      BY <3>1, <3>2 DEF StartServer
  <2> DEFINE status == IF s.ok THEN "INVALID_SESSION" ELSE "FATAL"
  <2>3. e.w = [s.w EXCEPT !.status = status] /\ e.ok = s.ok
    BY <2>1 DEF Result
  <2>4. status \in Statuses
    BY DEF Statuses, Refusing
  <2> HIDE DEF status
  <2>5. /\ e.w \in Worlds /\ Kept(s.w, e.w) /\ Quiet(s.w, e.w) /\ SameClient(s.w, e.w)
        /\ e.w.session = s.w.session /\ e.w.up = s.w.up /\ e.w.status = status
    BY <2>2, <2>3, <2>4 DEF Worlds, Kept, Quiet, SameClient
  <2> QED
    BY <1>3, <2>2, <2>3, <2>5 DEF Near, Kept, Quiet, SameClient, Standing, status
<1> QED
  BY <1>1, <1>2, <1>3 DEF Worlds, Statuses

\* What is kept when the session is given up.
Apart(w, v) ==
  /\ v \in Worlds /\ Kept(w, v) /\ v.initial = w.initial
  /\ v.gen >= w.gen /\ Standing(v) /\ Sound(v) /\ Blank(v)

LEMMA CreateSessionOutcome ==
  ASSUME NEW w \in Worlds, Standing(w), NEW r \in CreateSession(w)
  PROVE  /\ Apart(w, r.w) /\ Quiet(w, r.w) /\ r.w.gen = w.gen /\ r.ok \in BOOLEAN
         /\ ~r.ok => r.w.status # "OK"
<1> DEFINE v == [w EXCEPT !.id = "void", !.session = None]
           req == Request("CREATE")
<1>1. /\ v \in Worlds /\ Kept(w, v) /\ Quiet(w, v) /\ v.gen = w.gen
      /\ v.initial = w.initial /\ v.session = None /\ v.id = "void" /\ Standing(v)
  BY DEF Worlds, Kept, Quiet, Standing
<1> HIDE DEF v
<1>2. IsRequest(req) /\ req.type = "CREATE" /\ \A u : Room(u, req)
  BY RequestIsRequest
<1> HIDE DEF req
<1>3. ASSUME NEW c \in Call(v, req), r = Result([c.w EXCEPT !.id = c.reply.id], c.ok)
      PROVE  /\ Apart(w, r.w) /\ Quiet(w, r.w) /\ r.w.gen = w.gen /\ r.ok \in BOOLEAN
             /\ ~r.ok => r.w.status # "OK"
  <2>1. Delivered(v, c, req) \/ CutOff(v, c) \/ Unanswered(v, c, req)
    BY <1>1, <1>2, CallOutcome
  <2>2. /\ c.w \in Worlds /\ Kept(v, c.w) /\ Quiet(v, c.w) /\ c.w.gen = v.gen
        /\ c.w.initial = v.initial /\ Standing(c.w) /\ Blank(c.w) /\ c.ok \in BOOLEAN
        /\ c.reply.id \in {"void", "some"} /\ (c.reply.id = "void" => c.w.session = None)
        /\ ~c.ok => c.w.status # "OK"
    <3>1. CASE Delivered(v, c, req)
      <4>1. PICK u : /\ Met(v, u) /\ u.up
                     /\ c.w = Serve(u, req).w /\ c.reply = Serve(u, req).reply
        BY <3>1 DEF Delivered
      <4>2. /\ Served(u, c.w, req) /\ c.reply \in Replies /\ c.reply.id = "some"
            /\ c.w.session \in OpenSessions
        BY <1>2, <4>1, ServeOutcome DEF Met
      <4>3. c.ok = TRUE /\ Standing(c.w)
        BY <3>1, <4>1, <4>2 DEF Delivered, Served, Standing
      <4>4. /\ c.w \in Worlds /\ Kept(v, c.w) /\ Quiet(v, c.w) /\ SameClient(v, c.w)
        BY <1>2, <4>1, <4>2 DEF Served, Met, Kept, Quiet, SameClient
      <4>5. Blank(c.w)
        BY <1>2, <4>2, NoneIsNoSession DEF Served, Blank
      <4> QED
        BY <4>2, <4>3, <4>4, <4>5 DEF SameClient
    <3>2. CASE CutOff(v, c)
      <4>1. c.ok = TRUE /\ c.reply.id = "void" /\ Met(v, c.w) /\ c.w.session = None
        BY <3>2, EmptyReplyType DEF CutOff
      <4> QED
        BY <4>1 DEF Met, SameClient, Blank
    <3>3. CASE Unanswered(v, c, req)
      <4>1. PICK u : Met(v, u) /\ Alike(u, c.w)
        BY <1>2, <3>3 DEF Unanswered
      <4>2. c.ok = FALSE /\ c.reply.id = "void" /\ c.w.status # "OK"
        BY <3>3 DEF Unanswered, EmptyReply
      <4> QED
        BY <1>1, <4>1, <4>2 DEF Met, Alike, Kept, Quiet, SameClient, Standing, Blank
    <3> QED
      BY <2>1, <3>1, <3>2, <3>3
  <2> DEFINE id == c.reply.id
  <2>3. r.w = [c.w EXCEPT !.id = id] /\ r.ok = c.ok
    BY <1>3 DEF Result
  <2>4. id \in {"void", "some"} /\ (id = "void" => c.w.session = None)
    BY <2>2
  <2> HIDE DEF id
  <2>5. /\ r.w \in Worlds /\ Kept(c.w, r.w) /\ Quiet(c.w, r.w) /\ r.w.gen = c.w.gen
        /\ r.w.initial = c.w.initial /\ r.w.session = c.w.session /\ r.w.up = c.w.up
        /\ r.w.status = c.w.status /\ r.w.id = id
    BY <2>2, <2>3, <2>4 DEF Worlds, Kept, Quiet
  <2>6. r.w.gen >= w.gen
    BY <1>1, <2>2, <2>5 DEF Worlds
  <2> QED
    BY <1>1, <2>2, <2>3, <2>4, <2>5, <2>6 DEF Apart, Kept, Quiet, Standing, Sound, Blank
<1>4. ASSUME NEW u \in Faulty(v), r = Result([u EXCEPT !.status = "INVALID_SESSION"], FALSE)
      PROVE  /\ Apart(w, r.w) /\ Quiet(w, r.w) /\ r.w.gen = w.gen /\ r.ok \in BOOLEAN
             /\ ~r.ok => r.w.status # "OK"
  <2>1. /\ u \in Worlds /\ Kept(v, u) /\ Quiet(v, u) /\ SameClient(v, u)
        /\ u.up = v.up /\ u.session = v.session
    BY <1>1, FaultyOutcome
  <2>2. r.w = [u EXCEPT !.status = "INVALID_SESSION"] /\ r.ok = FALSE
    BY <1>4 DEF Result
  <2>3. /\ r.w \in Worlds /\ Kept(u, r.w) /\ Quiet(u, r.w) /\ SameClient(u, r.w)
        /\ r.w.up = u.up /\ r.w.session = u.session /\ r.w.status = "INVALID_SESSION"
    BY <2>1, <2>2 DEF Worlds, Statuses, Kept, Quiet, SameClient
  <2>4. r.w.gen >= w.gen
    BY <1>1, <2>1, <2>3 DEF Worlds, SameClient
  <2> QED
    BY <1>1, <2>1, <2>2, <2>3, <2>4 DEF Apart, Kept, Quiet, SameClient, Standing, Sound, Blank
<1>5. \/ \E c \in Call(v, req) : r = Result([c.w EXCEPT !.id = c.reply.id], c.ok)
      \/ \E u \in Faulty(v) : r = Result([u EXCEPT !.status = "INVALID_SESSION"], FALSE)
  BY DEF CreateSession, v, req
<1> QED
  BY <1>3, <1>4, <1>5

\* A call that does not concern the session leaves the client as it was.
LEMMA PlainCallOutcome ==
  ASSUME NEW w \in Worlds, Standing(w), NEW type \in {"SET_REQUEST", "GET_CONFIG"},
         NEW r \in Call(w, Request(type))
  PROVE  Near(w, r.w) /\ (r.ok => r.w.status = w.status) /\ (~r.ok => r.w.status # "OK")
<1> DEFINE req == Request(type)
<1>1. IsRequest(req) /\ req.type = type /\ \A v : Room(v, req)
  BY RequestIsRequest
<1> HIDE DEF req
<1>2. Delivered(w, r, req) \/ CutOff(w, r) \/ Unanswered(w, r, req)
  BY <1>1, CallOutcome DEF req
<1>3. \A v : Met(w, v) => Near(w, v) /\ v.status = w.status /\ Serve(v, req).w = v
  BY <1>1, ServeOutcome DEF Met, Near
<1>4. ASSUME NEW v, Met(w, v), NEW u, Alike(v, u) PROVE Near(w, u)
  BY <1>4 DEF Met, Near, Alike, Kept, Quiet, SameClient, Standing
<1> QED
  BY <1>2, <1>3, <1>4 DEF Delivered, CutOff, Unanswered

\* The session is given up: if the client has one again, it is of a new
\* generation, and empty.
Lost(w, v) ==
  /\ v \in Worlds /\ Kept(w, v) /\ v.initial = w.initial
  /\ v.gen >= w.gen /\ Standing(v) /\ Sound(v)
  /\ v.status = "OK" => v.gen > w.gen /\ Blank(v)

LEMMA OpenSessionOutcome ==
  ASSUME NEW w \in Worlds, Standing(w), NEW e \in OpenSession(w)
  PROVE  Lost(w, e.w) /\ Quiet(w, e.w) /\ e.ok = (e.w.status = "OK")
<1>1. PICK s \in CreateSession(w) :
        e \in IF s.ok
              THEN {Result([q.w EXCEPT !.status = "OK"], TRUE) :
                      q \in Call([s.w EXCEPT !.gen = @ + 1], Request("SET_REQUEST"))}
              ELSE {Result(d.w, FALSE) : d \in EnsureConnection(s.w)}
  BY DEF OpenSession
<1>2. /\ Apart(w, s.w) /\ Quiet(w, s.w) /\ s.w.gen = w.gen
      /\ ~s.ok => s.w.status # "OK"
  BY CreateSessionOutcome
<1>3. CASE s.ok
  <2> DEFINE v == [s.w EXCEPT !.gen = @ + 1]
  <2> HIDE DEF v
  <2>1. PICK q \in Call(v, Request("SET_REQUEST")) : e = Result([q.w EXCEPT !.status = "OK"], TRUE)
    BY <1>1, <1>3 DEF v
  <2> USE DEF v
  <2>2. /\ v \in Worlds /\ Kept(s.w, v) /\ Quiet(s.w, v) /\ v.gen = s.w.gen + 1
        /\ v.initial = s.w.initial /\ v.session = s.w.session /\ v.id = s.w.id
        /\ v.up = s.w.up
    <3> DEFINE u == s.w
    <3>1. u \in Worlds /\ u.gen + 1 \in Nat
      BY <1>2 DEF Apart, Worlds
    <3>2. v = [u EXCEPT !.gen = u.gen + 1]
      OBVIOUS
    <3> HIDE DEF u, v
    <3> QED
      BY <3>1, <3>2 DEF Worlds, Kept, Quiet, u
  <2> HIDE DEF v
  <2>3. Near(v, q.w)
    BY <1>2, <2>1, <2>2, PlainCallOutcome DEF Apart, Standing
  <2>4. e.w = [q.w EXCEPT !.status = "OK"] /\ e.ok = TRUE
    BY <2>1 DEF Result
  <2>5. /\ e.w \in Worlds /\ Kept(q.w, e.w) /\ Quiet(q.w, e.w) /\ SameClient(q.w, e.w)
        /\ e.w.session = q.w.session /\ e.w.up = q.w.up /\ e.w.status = "OK"
    <3> DEFINE y == q.w
    <3>1. y \in Worlds /\ e.w = [y EXCEPT !.status = "OK"] /\ "OK" \in Statuses
      BY <2>3, <2>4 DEF Near, Statuses
    <3> HIDE DEF y
    <3>2. e.w \in Worlds /\ e.w.status = "OK"
      BY <3>1 DEF Worlds
    <3>3. /\ Kept(y, e.w) /\ Quiet(y, e.w) /\ SameClient(y, e.w)
          /\ e.w.session = y.session /\ e.w.up = y.up
      BY <3>1 DEF Worlds, Kept, Quiet, SameClient
    <3> QED
      BY <3>2, <3>3 DEF y
  <2>6. e.w.gen > w.gen /\ e.w.gen >= w.gen
    <3>1. e.w.gen = w.gen + 1 /\ w.gen \in Nat
      BY <1>2, <2>2, <2>3, <2>5 DEF Near, SameClient, Worlds
    <3> QED
      BY <3>1
  <2>7. e.w.session \in {s.w.session, None} /\ e.w.id = s.w.id /\ Standing(e.w)
    BY <2>2, <2>3, <2>5 DEF Near, SameClient, Standing
  <2>8. Kept(w, e.w) /\ Quiet(w, e.w) /\ e.w.initial = w.initial
    BY <1>2, <2>2, <2>3, <2>5 DEF Near, Apart, Kept, Quiet, SameClient
  <2> QED
    BY <1>2, <2>4, <2>5, <2>6, <2>7, <2>8 DEF Apart, Lost, Sound, Blank
<1>4. CASE ~s.ok
  <2>1. PICK d \in EnsureConnection(s.w) : e = Result(d.w, FALSE)
    BY <1>1, <1>4
  <2>2. Near(s.w, d.w) /\ d.w.status # "OK"
    BY <1>2, <1>4, <2>1, EnsureConnectionOutcome DEF Apart, Result
  <2>3. e.w = d.w /\ e.ok = FALSE
    BY <2>1 DEF Result
  <2>4. e.w.gen >= w.gen
    BY <1>2, <2>2, <2>3 DEF Near, Apart, SameClient
  <2> QED
    BY <1>2, <2>2, <2>3, <2>4 DEF Near, Apart, Lost, Kept, Quiet, SameClient, Sound
<1> QED
  BY <1>3, <1>4

LEMMA EnsureSessionOutcome ==
  ASSUME NEW w \in Worlds, Standing(w), Sound(w), NEW e \in EnsureSession(w)
  PROVE  /\ w.status = "OK" => e = Result(w, TRUE)
         /\ w.status # "OK" => Lost(w, e.w)
         /\ Quiet(w, e.w) /\ e.ok = (e.w.status = "OK")
<1>1. PICK c \in EnsureConnection(w) :
        e \in IF ~c.ok \/ c.w.status = "OK" THEN {c} ELSE OpenSession(c.w)
  BY DEF EnsureSession
<1>2. /\ Near(w, c.w) /\ c.w.session = w.session /\ c.ok \in BOOLEAN
      /\ w.status \in {"OK", "INVALID_SESSION"} => c = Result(w, TRUE)
      /\ c.ok => c.w.status = IF w.status = "OK" THEN "OK" ELSE "INVALID_SESSION"
      /\ ~c.ok => c.w.status = "FATAL" /\ w.status # "OK"
  BY EnsureConnectionOutcome
<1>3. CASE w.status = "OK"
  <2>1. c = Result(w, TRUE) /\ c.w = w /\ c.ok = TRUE
    BY <1>2, <1>3 DEF Result
  <2>2. e = c
    BY <1>1, <1>3, <2>1
  <2> QED
    BY <1>3, <2>1, <2>2 DEF Quiet
<1>4. CASE w.status # "OK" /\ ~c.ok
  <2>1. e = c /\ e.w.status # "OK" /\ e.ok = FALSE
    BY <1>1, <1>2, <1>4
  <2>2. c.w.gen >= w.gen
    BY <1>2 DEF Near, SameClient, Worlds
  <2> QED
    BY <1>2, <1>4, <2>1, <2>2 DEF Near, Lost, SameClient, Sound
<1>5. CASE w.status # "OK" /\ c.ok
  <2>1. e \in OpenSession(c.w)
    BY <1>1, <1>2, <1>5
  <2>2. Lost(c.w, e.w) /\ Quiet(c.w, e.w) /\ e.ok = (e.w.status = "OK")
    BY <1>2, <2>1, OpenSessionOutcome DEF Near
  <2> QED
    BY <1>2, <1>5, <2>2 DEF Near, Lost, Kept, Quiet, SameClient
<1> QED
  BY <1>3, <1>4, <1>5

IsSessionRequest(req) ==
  \/ req.type = "KEY" /\ req.key \in Keys /\ req.user \in BOOLEAN
  \/ req.type \in SessionTypes

\* What a request, served or not, leaves in the record of what sessions did.
Effects(w, v, req) ==
  /\ v.ran \subseteq w.ran \cup
       (IF w.session = None THEN {} ELSE {<<w.session.no, w.session.reading>>})
  /\ req.type \notin {"COMMAND", "SUBMIT"} => v.ran = w.ran
  /\ v.sends \in {w.sends, w.sends + 1}
  /\ (req.type # "KEY" \/ ~req.user) => v.sends = w.sends
  /\ (req.type # "KEY" \/ w.session = None \/ w.session.on) => v.direct = w.direct

LEMMA QuietEffects ==
  ASSUME NEW w \in Worlds, NEW v, Quiet(w, v), NEW req
  PROVE  Effects(w, v, req)
BY DEF Quiet, Effects

\* Serving the request at the server that is met.
LEMMA ServedEffects ==
  ASSUME NEW w \in Worlds, NEW req, IsSessionRequest(req), Room(w, req), NEW v, Met(w, v)
  PROVE  LET c == Serve(v, req)
         IN  /\ c.w \in Worlds /\ Kept(w, c.w) /\ SameClient(w, c.w)
             /\ c.w.status = w.status /\ c.w.up = v.up /\ Effects(w, c.w, req)
             /\ \/ c.reply = EmptyReply /\ c.w = v /\ v.session = None
                \/ v.session # None /\ w.session # None /\ Answered(w, c, req)
             /\ w.session = None => c.w.session = None
<1> DEFINE c == Serve(v, req)
<1>1. IsRequest(req) /\ req.type \in SessionTypes \cup {"KEY"} /\ req.type # "CREATE"
  BY DEF IsSessionRequest, IsRequest, SessionTypes
<1>2. /\ v \in Worlds /\ Kept(w, v) /\ Quiet(w, v) /\ SameClient(w, v)
      /\ v.status = w.status /\ v.session \in {w.session, None} /\ Room(v, req)
  BY DEF Met, Room
<1>3. /\ Served(v, c.w, req)
      /\ IF v.session = None THEN c.w = v /\ c.reply = EmptyReply ELSE Answered(v, c, req)
  BY <1>1, <1>2, ServeOutcome
<1> HIDE DEF c
<1>4. CASE v.session = None
  <2>1. c.w = v /\ c.reply = EmptyReply
    BY <1>3, <1>4
  <2>2. Effects(w, v, req)
    BY <1>2, QuietEffects
  <2> QED
    BY <1>2, <1>4, <2>1, <2>2 DEF c
<1>5. CASE v.session # None
  <2>1. v.session = w.session /\ w.session # None /\ Answered(v, c, req)
    BY <1>2, <1>3, <1>5
  <2>2. v.sends = w.sends /\ v.ran = w.ran /\ v.direct = w.direct
    BY <1>2 DEF Quiet
  <2>3. Answered(w, c, req)
    BY <2>1, <2>2 DEF Answered
  <2>4. Kept(w, c.w) /\ SameClient(w, c.w) /\ c.w \in Worlds /\ c.w.status = w.status /\ c.w.up = v.up
    BY <1>2, <1>3 DEF Served, Kept, SameClient
  <2>5. c.w.ran \subseteq w.ran \cup {<<w.session.no, w.session.reading>>}
    BY <2>3 DEF Answered
  <2>6. req.type = "KEY" => c.w.sends = w.sends + (IF req.user THEN 1 ELSE 0)
    BY <2>3 DEF Answered
  <2>7. /\ req.type # "KEY" => c.w.sends = w.sends /\ c.w.direct = w.direct
        /\ req.type \notin {"COMMAND", "SUBMIT"} => c.w.ran = w.ran
        /\ w.session.on => c.w.direct = w.direct
    BY <1>3, <2>1, <2>2 DEF Served
  <2>8. w.sends \in Nat
    BY DEF Worlds
  <2>9. Effects(w, c.w, req)
    BY <2>1, <2>5, <2>6, <2>7, <2>8 DEF Effects
  <2> QED
    BY <1>5, <2>1, <2>3, <2>4, <2>9 DEF c
<1> QED
  BY <1>4, <1>5

\* A request of a client that has a session: it is answered; or there is no
\* session after all, which only a client with the id 0 does not notice; or it
\* fails and the session is replaced.
Done(w, c, req) ==
  /\ c.ok = TRUE /\ c.w \in Worlds /\ Kept(w, c.w) /\ SameClient(w, c.w)
  /\ c.w.status = "OK" /\ Standing(c.w) /\ Effects(w, c.w, req)
  /\ w.session # None /\ w.id = "some" /\ Answered(w, c, req)
Idle(w, c) ==
  /\ c.ok = TRUE /\ c.reply = EmptyReply /\ w.id = "void"
  /\ Near(w, c.w) /\ c.w.status = "OK" /\ c.w.session = None
Broken(w, c, req) ==
  /\ c.ok = FALSE /\ c.reply = EmptyReply
  /\ Lost(w, c.w) /\ Effects(w, c.w, req)

LEMMA EnsureCallCommandOutcome ==
  ASSUME NEW w \in Worlds, Standing(w), Sound(w), w.status = "OK",
         NEW req, IsSessionRequest(req), Room(w, req),
         NEW c \in EnsureCallCommand(w, req)
  PROVE  Done(w, c, req) \/ Idle(w, c) \/ Broken(w, c, req)
<1>1. PICK a \in Call(w, req) :
        LET r == Checked(a)
        IN  c \in IF r.w.status \in {"SHUTDOWN", "INVALID_SESSION"}
                  THEN {Failed(v.w, v.w.status) : v \in EnsureSession(r.w)}
                  ELSE IF r.w.status \in Refusing THEN {Failed(r.w, r.w.status)}
                  ELSE {r}
  <2>1. PICK e \in EnsureSession(w) :
          c \in IF ~e.ok THEN {Failed(e.w, e.w.status)}
                ELSE UNION {IF r.w.status \in {"SHUTDOWN", "INVALID_SESSION"}
                            THEN {Failed(v.w, v.w.status) : v \in EnsureSession(r.w)}
                            ELSE IF r.w.status \in Refusing THEN {Failed(r.w, r.w.status)}
                            ELSE {r} : r \in {Checked(x) : x \in Call(e.w, req)}}
    BY DEF EnsureCallCommand
  <2>2. e.w = w /\ e.ok = TRUE
    BY EnsureSessionOutcome DEF Result
  <2> QED
    BY <2>1, <2>2
<1> DEFINE r == Checked(a)
\* The world after the call, before the status is looked at.
<1>2. /\ a.w \in Worlds /\ Kept(w, a.w) /\ SameClient(w, a.w) /\ Standing(a.w)
      /\ Effects(w, a.w, req) /\ (w.session = None => a.w.session = None)
      /\ \/ Done(w, a, req)
         \/ a.ok = TRUE /\ a.reply = EmptyReply /\ Near(w, a.w) /\ a.w.session = None /\ a.w.status = "OK"
         \/ a.ok = FALSE /\ a.reply = EmptyReply /\ a.w.status # "OK"
  <2>1. Delivered(w, a, req) \/ CutOff(w, a) \/ Unanswered(w, a, req)
    BY CallOutcome DEF IsSessionRequest, IsRequest
  <2>2. ASSUME NEW v, Met(w, v) PROVE Near(w, v) /\ Effects(w, v, req) /\ v.status = w.status
    BY <2>2, QuietEffects DEF Met, Near
  <2>3. CASE Delivered(w, a, req)
    <3>1. PICK v : Met(w, v) /\ v.up /\ a.w = Serve(v, req).w /\ a.reply = Serve(v, req).reply
      BY <2>3 DEF Delivered
    <3> DEFINE s == Serve(v, req)
    <3>2. /\ s.w \in Worlds /\ Kept(w, s.w) /\ SameClient(w, s.w)
          /\ s.w.status = w.status /\ s.w.up = v.up /\ Effects(w, s.w, req)
          /\ \/ s.reply = EmptyReply /\ s.w = v /\ v.session = None
             \/ v.session # None /\ w.session # None /\ Answered(w, s, req)
          /\ w.session = None => s.w.session = None
      BY <3>1, ServedEffects
    <3> HIDE DEF s
    <3>3. a.w = s.w /\ a.reply = s.reply /\ a.ok = TRUE /\ Standing(s.w)
      BY <2>3, <3>1, <3>2 DEF Delivered, s, Standing
    <3>4. CASE s.reply = EmptyReply /\ s.w = v /\ v.session = None
      BY <2>2, <3>1, <3>2, <3>3, <3>4
    <3>5. CASE w.session # None /\ Answered(w, s, req)
      <4>1. w.id = "some"
        BY <3>5 DEF Sound, Worlds
      <4>2. Answered(w, a, req)
        BY <3>3, <3>5 DEF Answered
      <4> QED
        BY <3>2, <3>3, <3>5, <4>1, <4>2 DEF Done
    <3> QED
      BY <3>2, <3>4, <3>5
  <2>4. CASE CutOff(w, a)
    BY <2>2, <2>4 DEF CutOff, Near
  <2>5. CASE Unanswered(w, a, req)
    <3>1. PICK v : Met(w, v) /\ (Alike(v, a.w) \/ (v.up /\ Alike(Serve(v, req).w, a.w)))
      BY <2>5 DEF Unanswered
    <3>2. a.ok = FALSE /\ a.reply = EmptyReply /\ a.w.status # "OK"
      BY <2>5 DEF Unanswered
    <3>3. \E u : /\ Alike(u, a.w) /\ Kept(w, u) /\ SameClient(w, u) /\ Standing(u)
                 /\ Effects(w, u, req) /\ (w.session = None => u.session = None)
      <4>1. CASE Alike(v, a.w)
        BY <2>2, <3>1, <4>1 DEF Near
      <4>2. CASE v.up /\ Alike(Serve(v, req).w, a.w)
        <5> DEFINE u == Serve(v, req).w
        <5>1. /\ Kept(w, u) /\ SameClient(w, u) /\ Standing(u)
              /\ Effects(w, u, req) /\ (w.session = None => u.session = None)
          BY <3>1, <4>2, ServedEffects DEF Standing
        <5> QED
          BY <4>2, <5>1
      <4> QED
        BY <3>1, <4>1, <4>2
    <3> QED
      BY <3>2, <3>3 DEF Alike, Kept, Quiet, SameClient, Standing, Effects
  <2> QED
    BY <2>1, <2>3, <2>4, <2>5
\* The session is replaced.
<1>3. ASSUME NEW u, u \in Worlds, Kept(w, u), SameClient(w, u), Standing(u),
             w.session = None => u.session = None, Effects(w, u, req),
             NEW v \in EnsureSession(u), u.status # "OK", c = Failed(v.w, v.w.status)
      PROVE  Broken(w, c, req)
  <2>1. Sound(u)
    BY <1>3 DEF Sound, SameClient
  <2>2. Lost(u, v.w) /\ Quiet(u, v.w)
    BY <1>3, <2>1, EnsureSessionOutcome
  <2>3. v.w \in Worlds /\ v.w.status \in Statuses
    BY <2>2 DEF Lost, Worlds
  <2>4. /\ Alike(v.w, c.w) /\ c.w.status = v.w.status
        /\ c.ok = FALSE /\ c.reply = EmptyReply
    BY <1>3, <2>3, FailedOutcome
  <2>5. Lost(u, c.w)
    BY <2>2, <2>4 DEF Lost, Alike, Kept, SameClient, Standing, Sound, Blank
  <2>6. Lost(w, c.w)
    BY <1>3, <2>5 DEF Lost, Kept, SameClient
  <2>7. Quiet(u, c.w)
    BY <2>2, <2>4 DEF Alike, Quiet
  <2>8. Effects(w, c.w, req)
    BY <1>3, <2>7 DEF Effects, Quiet
  <2> QED
    BY <2>4, <2>6, <2>8 DEF Broken
<1>4. CASE Done(w, a, req)
  <2>1. a.reply.id = a.w.id /\ a.w.status = "OK"
    BY <1>4 DEF Done, Answered, SameClient
  <2>2. Checked(a) = a
    BY <2>1 DEF Checked
  <2>3. c = a
    BY <1>1, <2>1, <2>2 DEF Refusing
  <2> QED
    BY <1>4, <2>3
<1>5. CASE a.ok = TRUE /\ a.reply = EmptyReply /\ Near(w, a.w) /\ a.w.session = None /\ a.w.status = "OK"
  <2>1. CASE w.id = "void"
    <3>1. a.reply.id = a.w.id
      BY <1>2, <1>5, <2>1, EmptyReplyType DEF SameClient
    <3>2. Checked(a) = a
      BY <3>1 DEF Checked
    <3>3. c = a
      BY <1>1, <1>5, <3>2 DEF Refusing
    <3> QED
      BY <1>5, <2>1, <3>3 DEF Idle
  <2>2. CASE w.id # "void"
    <3> DEFINE u == [a.w EXCEPT !.status = "INVALID_SESSION"]
    <3>1. a.reply.id # a.w.id
      BY <1>2, <1>5, <2>2, EmptyReplyType DEF SameClient
    <3>a. r.w = u
      <4>1. a = [w |-> a.w, ok |-> a.ok, reply |-> a.reply]
        BY <1>1, CallRecord
      <4>2. r = [a EXCEPT !.w.status = "INVALID_SESSION"]
        BY <1>5, <3>1 DEF Checked
      <4> QED
        BY <4>1, <4>2
    <3>2. /\ u \in Worlds /\ Kept(a.w, u) /\ SameClient(a.w, u) /\ Quiet(a.w, u) /\ u.up = a.w.up
          /\ u.session = a.w.session /\ u.status = "INVALID_SESSION"
      BY <1>2 DEF Worlds, Statuses, Kept, SameClient, Quiet
    <3> HIDE DEF u, r
    <3>3. PICK v \in EnsureSession(u) : c = Failed(v.w, v.w.status)
      BY <1>1, <3>a, <3>2 DEF r
    <3>4. Kept(w, u) /\ SameClient(w, u) /\ Standing(u) /\ (w.session = None => u.session = None)
      BY <1>2, <3>2 DEF Kept, SameClient, Standing
    <3>5. Effects(w, u, req)
      BY <1>2, <3>2 DEF Effects, Quiet
    <3> QED
      BY <1>3, <3>2, <3>3, <3>4, <3>5
  <2> QED
    BY <2>1, <2>2
<1>6. CASE a.ok = FALSE /\ a.reply = EmptyReply /\ a.w.status # "OK"
  <2>1. Checked(a) = a
    BY <1>6 DEF Checked
  <2>2. CASE a.w.status \in {"SHUTDOWN", "INVALID_SESSION"}
    <3>1. PICK v \in EnsureSession(a.w) : c = Failed(v.w, v.w.status)
      BY <1>1, <2>1, <2>2
    <3> QED
      BY <1>2, <1>3, <1>6, <3>1
  <2>3. CASE a.w.status \notin {"SHUTDOWN", "INVALID_SESSION"}
    <3>1. /\ Alike(a.w, c.w) /\ c.w.status # "OK"
          /\ c.ok = FALSE /\ c.reply = EmptyReply
      <4>1. CASE a.w.status \in Refusing
        <5>1. c = Failed(a.w, a.w.status)
          BY <1>1, <2>1, <2>3, <4>1
        <5>2. a.w \in Worlds /\ a.w.status \in Statuses
          BY <1>2 DEF Worlds
        <5> QED
          BY <1>6, <5>1, <5>2, FailedOutcome
      <4>2. CASE a.w.status \notin Refusing
        <5>1. c = a
          BY <1>1, <2>1, <2>3, <4>2
        <5> QED
          BY <1>2, <1>6, <5>1 DEF Alike, Kept, Quiet, SameClient
      <4> QED
        BY <4>1, <4>2
    <3>2. Lost(w, c.w)
      <4>1. c.w.gen >= w.gen
        BY <1>2, <3>1 DEF Alike, SameClient, Worlds
      <4> QED
        BY <1>2, <3>1, <4>1 DEF Alike, Lost, Kept, SameClient, Standing, Sound
    <3>3. Effects(w, c.w, req)
      BY <1>2, <3>1 DEF Effects, Alike, Quiet
    <3> QED
      BY <3>1, <3>2, <3>3 DEF Broken
  <2> QED
    BY <2>2, <2>3
<1> QED
  BY <1>2, <1>4, <1>5, <1>6

-----------------------------------------------------------------------------
(* What holds between any two calls, and what the calls before a key do.    *)

\* The three counters are in order.  A session that the client will use is on
\* once its generation has been initialised, and empty until the journal has
\* observed its generation.
Sane(w) ==
  /\ Standing(w) /\ Sound(w)
  /\ w.observed <= w.initial /\ w.initial <= w.gen
  /\ w.status = "OK" => w.gen > 0
  /\ w.status = "OK" /\ w.initial = w.gen =>
       w.id = "some" /\ (w.session # None => w.session.on)
  /\ w.status = "OK" /\ w.observed # w.gen => Blank(w)

Core(w) ==
  /\ w \in Worlds /\ Sane(w) /\ ~w.direct
  /\ Len(w.journal) <= MaxEventCount
  /\ w.suppressed => w.journal = <<>>

\* The client has a session whose mode has been set.
Stable(w) == w.status = "OK" /\ w.initial = w.gen

\* Nothing is typed on the way from w to v: a session at the end is the one of
\* the beginning, with the same text, or a new and empty one.
SameText(w, v) ==
  /\ v.session.no = w.session.no
  /\ v.session.reading = w.session.reading /\ v.session.conv = w.session.conv
Moved(w, v) ==
  /\ Core(v) /\ Kept(w, v) /\ Quiet(w, v) /\ v.gen >= w.gen
  /\ v.status = "OK" /\ v.session # None =>
       \/ v.gen > w.gen /\ Blank(v)
       \/ v.gen = w.gen /\ w.status = "OK" /\ w.session # None /\ SameText(w, v)

LEMMA CoreCounters ==
  ASSUME NEW w, Core(w)
  PROVE  /\ w.observed \in Nat /\ w.initial \in Nat /\ w.gen \in Nat
         /\ w.observed <= w.initial /\ w.initial <= w.gen
         /\ w.status = "OK" => w.gen > 0
BY DEF Core, Sane, Worlds

LEMMA MovedCounters ==
  ASSUME NEW w, Core(w), NEW v, Moved(w, v)
  PROVE  /\ Core(v) /\ v.observed = w.observed /\ v.view = w.view /\ v.gen >= w.gen
         /\ v.journal = w.journal /\ v.suppressed = w.suppressed /\ Quiet(w, v)
         /\ w.observed # w.gen => v.observed # v.gen
<1>1. /\ Core(v) /\ v.observed = w.observed /\ v.view = w.view /\ v.gen >= w.gen
      /\ v.journal = w.journal /\ v.suppressed = w.suppressed /\ Quiet(w, v)
  BY DEF Moved, Kept
<1> QED
  BY <1>1, CoreCounters

LEMMA MovedReflexive ==
  ASSUME NEW w, Core(w) PROVE Moved(w, w)
BY DEF Core, Moved, Kept, Quiet, SameText, Worlds

LEMMA MovedTransitive ==
  ASSUME NEW w, NEW v, NEW u, Core(w), Moved(w, v), Moved(v, u)
  PROVE  Moved(w, u)
<1>1. w.gen \in Nat /\ v.gen \in Nat /\ u.gen \in Nat
  BY DEF Core, Moved, Worlds
<1>2. Core(u) /\ Kept(w, u) /\ Quiet(w, u) /\ u.gen >= w.gen
  BY <1>1 DEF Moved, Kept, Quiet
<1>3. ASSUME u.status = "OK", u.session # None
      PROVE  \/ u.gen > w.gen /\ Blank(u)
             \/ u.gen = w.gen /\ w.status = "OK" /\ w.session # None /\ SameText(w, u)
  <2>1. CASE u.gen > v.gen /\ Blank(u)
    BY <1>1, <2>1 DEF Moved
  <2>2. CASE u.gen = v.gen /\ v.status = "OK" /\ v.session # None /\ SameText(v, u)
    BY <1>1, <2>2 DEF Moved, Blank, SameText
  <2> QED
    BY <1>3, <2>1, <2>2 DEF Moved
<1> QED
  BY <1>2, <1>3 DEF Moved

LEMMA LostMoved ==
  ASSUME NEW w, Core(w), NEW v, Lost(w, v), Quiet(w, v)
  PROVE  Moved(w, v)
<1>1. /\ w.gen \in Nat /\ v.gen \in Nat /\ w.initial \in Nat /\ w.observed \in Nat
      /\ v.initial = w.initial /\ v.observed = w.observed
  BY DEF Core, Lost, Worlds, Kept
<1>2. Sane(v)
  BY <1>1 DEF Core, Sane, Lost
<1> QED
  BY <1>2 DEF Core, Lost, Moved, Kept, Quiet

LEMMA NearMoved ==
  ASSUME NEW w, Core(w), NEW v, Near(w, v), (v.status = "OK") => w.status = "OK"
  PROVE  Moved(w, v)
<1>1. /\ w.gen \in Nat /\ v.gen = w.gen /\ v.initial = w.initial /\ v.observed = w.observed
      /\ v.session \in {w.session, None} /\ v.id = w.id /\ Standing(v)
  BY DEF Core, Near, Worlds, Kept, SameClient
<1>2. Sane(v)
  BY <1>1 DEF Core, Sane, Sound, Blank
<1> QED
  BY <1>1, <1>2 DEF Core, Near, Moved, Kept, Quiet, SameText

LEMMA EnsureSessionMoved ==
  ASSUME NEW w, Core(w), NEW e \in EnsureSession(w)
  PROVE  /\ Moved(w, e.w) /\ e.ok = (e.w.status = "OK")
         /\ w.status = "OK" => e = Result(w, TRUE)
<1>1. /\ w.status = "OK" => e = Result(w, TRUE)
      /\ w.status # "OK" => Lost(w, e.w)
      /\ Quiet(w, e.w) /\ e.ok = (e.w.status = "OK")
  BY EnsureSessionOutcome DEF Core, Sane
<1>2. CASE w.status = "OK"
  BY <1>1, <1>2, MovedReflexive DEF Result
<1>3. CASE w.status # "OK"
  BY <1>1, <1>3, LostMoved
<1> QED
  BY <1>1, <1>2, <1>3

LEMMA InitializeSessionOutcome ==
  ASSUME NEW w, Core(w), w.status = "OK", NEW i \in InitializeSession(w, w.gen)
  PROVE  /\ Moved(w, i.w) /\ i.ok \in BOOLEAN
         /\ i.ok => Stable(i.w) /\ i.w.gen = w.gen
<1> DEFINE req == Request("MODE")
<1>1. CASE w.initial = w.gen
  <2>1. i = Result(w, TRUE)
    BY <1>1 DEF InitializeSession
  <2> QED
    BY <1>1, <2>1, MovedReflexive DEF Result, Stable
<1>2. CASE w.initial # w.gen
  <2>1. PICK c \in EnsureCallCommand(w, req) :
          i = IF c.ok /\ c.w.gen = w.gen /\ c.reply.mode
              THEN Result([c.w EXCEPT !.initial = w.gen], TRUE) ELSE Result(c.w, FALSE)
    BY <1>2 DEF InitializeSession
  <2>2. IsSessionRequest(req) /\ req.type = "MODE" /\ Room(w, req)
    BY DEF IsSessionRequest, Request, SessionTypes, Room
  <2>3. Done(w, c, req) \/ Idle(w, c) \/ Broken(w, c, req)
    BY <2>1, <2>2, EnsureCallCommandOutcome DEF Core, Sane
  <2>4. Effects(w, c.w, req) => Quiet(w, c.w)
    BY <2>2 DEF Effects, Quiet
  <2> HIDE DEF req
  <2>5. CASE Done(w, c, req)
    <3>1. /\ c.ok = TRUE /\ c.w \in Worlds /\ Kept(w, c.w) /\ c.w.gen = w.gen /\ c.w.id = "some"
          /\ c.w.status = "OK" /\ Standing(c.w) /\ Quiet(w, c.w)
          /\ w.session # None /\ c.w.session.on /\ c.reply.mode
          /\ SameText(w, c.w)
      BY <2>2, <2>4, <2>5 DEF Done, Answered, SameClient, SameText
    <3> DEFINE v == [c.w EXCEPT !.initial = w.gen]
    <3>2. i.w = v /\ i.ok = TRUE
      BY <2>1, <3>1 DEF Result
    <3>a. w.gen \in Nat
      BY DEF Core, Worlds
    <3>3. /\ v \in Worlds /\ Kept(c.w, v) /\ Quiet(c.w, v) /\ v.gen = c.w.gen /\ v.id = c.w.id
          /\ v.initial = w.gen /\ v.status = c.w.status /\ v.session = c.w.session
          /\ v.up = c.w.up
      BY <3>1, <3>a DEF Worlds, Kept, Quiet
    <3> HIDE DEF v
    <3>4. v.observed = w.observed /\ w.observed <= w.gen /\ w.gen > 0
      BY <3>1, <3>3 DEF Core, Sane, Kept, Worlds
    <3>5. w.observed # w.gen => Blank(v)
      BY <3>1, <3>3 DEF Core, Sane, Blank, SameText
    <3>6. Sane(v)
      BY <3>1, <3>3, <3>4, <3>5, <3>a DEF Sane, Standing, Sound
    <3>7. Kept(w, v) /\ Quiet(w, v) /\ SameText(w, v) /\ v.gen >= w.gen
      BY <3>1, <3>3, <3>a DEF Kept, Quiet, SameText
    <3>8. Core(v)
      BY <3>3, <3>6, <3>7 DEF Core, Kept, Quiet
    <3> QED
      BY <3>1, <3>2, <3>3, <3>7, <3>8 DEF Moved, Stable
  <2>6. CASE Idle(w, c)
    <3>1. i.w = c.w /\ i.ok = FALSE
      BY <2>1, <2>6, EmptyReplyType DEF Idle, Result
    <3> QED
      BY <2>6, <3>1, NearMoved DEF Idle
  <2>7. CASE Broken(w, c, req)
    <3>1. i.w = c.w /\ i.ok = FALSE
      BY <2>1, <2>7 DEF Broken, Result
    <3> QED
      BY <2>4, <2>7, <3>1, LostMoved DEF Broken
  <2> QED
    BY <2>3, <2>5, <2>6, <2>7
<1> QED
  BY <1>1, <1>2

\* One turn of Prepare's loop, and both.  If it does not end well, the journal
\* has not observed the generation that there is.
TurnedOut(w, t) ==
  /\ Moved(w, t.w)
  /\ IF t.verdict = "stable" THEN Stable(t.w)
     ELSE t.w.status = "OK" => t.w.observed # t.w.gen

LEMMA AttemptOutcome ==
  ASSUME NEW w, Core(w), NEW t \in Attempt(w)
  PROVE  TurnedOut(w, t)
<1>1. PICK e \in EnsureSession(w) :
        t \in IF ~e.ok THEN {Turned(e.w, "failed")}
              ELSE IF e.w.observed = e.w.gen THEN {Turned(e.w, "stable")}
              ELSE {Turned(i.w, IF i.w.gen # e.w.gen THEN "again"
                                ELSE IF i.ok THEN "stable" ELSE "failed") :
                      i \in InitializeSession(e.w, e.w.gen)}
  BY DEF Attempt
<1>2. Moved(w, e.w) /\ Core(e.w) /\ e.ok = (e.w.status = "OK")
  BY EnsureSessionMoved DEF Moved
<1>3. /\ e.w.gen \in Nat /\ e.w.observed \in Nat /\ e.w.initial \in Nat
      /\ e.w.observed <= e.w.initial /\ e.w.initial <= e.w.gen
  BY <1>2 DEF Core, Worlds, Sane
<1>4. CASE ~e.ok
  <2>1. t = Turned(e.w, "failed")
    BY <1>1, <1>4
  <2>2. t.w = e.w /\ t.verdict = "failed" /\ e.w.status # "OK"
    BY <1>2, <1>4, <2>1 DEF Turned
  <2> QED
    BY <1>2, <2>2 DEF TurnedOut
<1>5. CASE e.ok /\ e.w.observed = e.w.gen
  <2>1. t = Turned(e.w, "stable") /\ e.w.initial = e.w.gen
    BY <1>1, <1>3, <1>5
  <2> QED
    BY <1>2, <1>5, <2>1 DEF Turned, TurnedOut, Stable
<1>6. CASE e.ok /\ e.w.observed # e.w.gen
  <2>1. PICK i \in InitializeSession(e.w, e.w.gen) :
          t = Turned(i.w, IF i.w.gen # e.w.gen THEN "again"
                          ELSE IF i.ok THEN "stable" ELSE "failed")
    BY <1>1, <1>6
  <2>2. Moved(e.w, i.w) /\ i.ok \in BOOLEAN /\ (i.ok => Stable(i.w))
    BY <1>2, <1>6, <2>1, InitializeSessionOutcome
  <2>3. Moved(w, i.w)
    BY <1>2, <2>2, MovedTransitive
  <2>4. i.w.observed # i.w.gen
    BY <1>2, <1>6, <2>2, MovedCounters
  <2>5. /\ t.w = i.w
        /\ t.verdict = IF i.w.gen # e.w.gen THEN "again"
                       ELSE IF i.ok THEN "stable" ELSE "failed"
    BY <2>1 DEF Turned
  <2>6. t.verdict = "stable" => i.ok
    BY <2>5
  <2> QED
    BY <2>2, <2>3, <2>4, <2>5, <2>6 DEF TurnedOut
<1> QED
  BY <1>4, <1>5, <1>6

LEMMA LoopOutcome ==
  ASSUME NEW w, Core(w), NEW t \in Again(Again({Turned(w, "again")}))
  PROVE  TurnedOut(w, t)
<1>1. PICK s \in Again({Turned(w, "again")}) :
        t \in IF s.verdict = "again" THEN Attempt(s.w) ELSE {s}
  BY DEF Again
<1>2. s \in Attempt(w)
  BY <1>1 DEF Again, Turned
<1>3. TurnedOut(w, s) /\ Core(s.w)
  BY <1>2, AttemptOutcome DEF TurnedOut, Moved
<1>4. CASE s.verdict = "again"
  BY <1>1, <1>3, <1>4, AttemptOutcome, MovedTransitive DEF TurnedOut
<1>5. CASE s.verdict # "again"
  BY <1>1, <1>3, <1>5
<1> QED
  BY <1>4, <1>5

-----------------------------------------------------------------------------
(* Requests for the session, between two calls.                             *)

\* There is nothing in a session that the client will use.
Clean(w) == w.status = "OK" => Blank(w)

LEMMA CoreClean ==
  ASSUME NEW w, Core(w), (w.status = "OK") => (w.observed # w.gen)
  PROVE  Clean(w)
BY DEF Core, Sane, Clean

LEMMA DoneCore ==
  ASSUME NEW w, Core(w), w.status = "OK", NEW req, IsSessionRequest(req), NEW c,
         Done(w, c, req), req.type = "KEY" => w.observed = w.gen
  PROVE  Core(c.w) /\ Kept(w, c.w) /\ c.w.gen = w.gen /\ c.w.initial = w.initial
<1>1. /\ c.w \in Worlds /\ Kept(w, c.w) /\ c.w.gen = w.gen /\ c.w.initial = w.initial
      /\ c.w.id = "some" /\ c.w.status = "OK" /\ Standing(c.w) /\ w.session # None
      /\ Effects(w, c.w, req) /\ Answered(w, c, req)
  BY DEF Done, SameClient
<1>2. /\ c.w.observed = w.observed /\ c.w.journal = w.journal
      /\ c.w.suppressed = w.suppressed
  BY <1>1 DEF Kept
<1>3. /\ w.observed <= w.initial /\ w.initial <= w.gen /\ w.gen > 0
      /\ w.observed \in Nat /\ w.initial \in Nat /\ w.gen \in Nat
  BY CoreCounters
<1>4. w.initial = w.gen => w.session.on
  BY <1>1 DEF Core, Sane
<1>5. w.initial = w.gen => c.w.session.on
  BY <1>1, <1>4 DEF Answered
<1>6. req.type = "KEY" => w.session.on
  BY <1>3, <1>4
<1>7. ~c.w.direct
  BY <1>1, <1>6 DEF Effects, Core
<1>8. c.w.observed # c.w.gen => Blank(c.w)
  <2>1. SUFFICES ASSUME w.observed # w.gen PROVE Blank(c.w)
    BY <1>1, <1>2
  <2>2. w.session.reading = <<>> /\ ~w.session.conv
    BY <1>1, <2>1 DEF Core, Sane, Blank
  <2>3. req.type \in SessionTypes
    BY <2>1 DEF IsSessionRequest
  <2> QED
    BY <1>1, <2>2, <2>3 DEF Answered, Blank, SessionTypes
<1>9. Sane(c.w)
  BY <1>1, <1>2, <1>3, <1>5, <1>8 DEF Sane, Sound
<1> QED
  BY <1>1, <1>2, <1>7, <1>9 DEF Core

LEMMA BrokenCore ==
  ASSUME NEW w, Core(w), w.status = "OK", NEW req, NEW c, Broken(w, c, req),
         req.type = "KEY" => w.observed = w.gen
  PROVE  /\ Core(c.w) /\ Kept(w, c.w) /\ c.w.gen >= w.gen
         /\ c.w.status = "OK" => c.w.observed # c.w.gen
<1>1. /\ Lost(w, c.w) /\ Effects(w, c.w, req)
  BY DEF Broken
<1>2. /\ c.w \in Worlds /\ Kept(w, c.w) /\ c.w.initial = w.initial /\ c.w.gen >= w.gen
      /\ Standing(c.w) /\ Sound(c.w) /\ c.w.gen \in Nat
      /\ c.w.observed = w.observed /\ c.w.journal = w.journal
      /\ c.w.suppressed = w.suppressed
      /\ c.w.status = "OK" => c.w.gen > w.gen /\ Blank(c.w)
  BY <1>1 DEF Lost, Kept, Worlds
<1>3. /\ w.observed <= w.initial /\ w.initial <= w.gen /\ w.gen > 0
      /\ w.observed \in Nat /\ w.initial \in Nat /\ w.gen \in Nat
  BY CoreCounters
<1>4. req.type = "KEY" /\ w.session # None => w.session.on
  BY <1>3 DEF Core, Sane
<1>5. ~c.w.direct
  BY <1>1, <1>4 DEF Effects, Core
<1>6. Sane(c.w)
  BY <1>2, <1>3 DEF Sane
<1> QED
  BY <1>2, <1>3, <1>5, <1>6 DEF Core

LEMMA IdleMoved ==
  ASSUME NEW w, Core(w), w.status = "OK", NEW c, Idle(w, c)
  PROVE  Moved(w, c.w)
BY NearMoved DEF Idle

\* A request that is not a key may find the client in any state.
LEMMA EnsureCallCommandFrom ==
  ASSUME NEW w, Core(w), NEW req, req.type \in SessionTypes,
         NEW c \in EnsureCallCommand(w, req)
  PROVE  \/ c.ok = FALSE /\ c.reply = EmptyReply /\ Moved(w, c.w) /\ c.w.status # "OK"
         \/ \E u : /\ Moved(w, u) /\ u.status = "OK" /\ (w.status = "OK" => u = w)
                   /\ Done(u, c, req) \/ Idle(u, c) \/ Broken(u, c, req)
<1> DEFINE Asked(v) ==
      UNION {IF r.w.status \in {"SHUTDOWN", "INVALID_SESSION"}
             THEN {Failed(x.w, x.w.status) : x \in EnsureSession(r.w)}
             ELSE IF r.w.status \in Refusing THEN {Failed(r.w, r.w.status)}
             ELSE {r} : r \in {Checked(x) : x \in Call(v, req)}}
<1>1. \A v : EnsureCallCommand(v, req) =
        UNION {IF ~e.ok THEN {Failed(e.w, e.w.status)} ELSE Asked(e.w) : e \in EnsureSession(v)}
  BY DEF EnsureCallCommand
<1> HIDE DEF Asked
<1>2. PICK e \in EnsureSession(w) :
        c \in IF ~e.ok THEN {Failed(e.w, e.w.status)} ELSE Asked(e.w)
  BY <1>1
<1>3. Moved(w, e.w) /\ e.ok = (e.w.status = "OK") /\ (w.status = "OK" => e = Result(w, TRUE))
  BY <1>2, EnsureSessionMoved
<1>4. Core(e.w)
  BY <1>3 DEF Moved
<1>5. CASE e.w.status # "OK"
  <2>1. c = Failed(e.w, e.w.status)
    BY <1>2, <1>3, <1>5
  <2>2. e.w \in Worlds /\ e.w.status \in Statuses
    BY <1>4 DEF Core, Worlds
  <2>3. Alike(e.w, c.w) /\ c.w.status = e.w.status /\ c.ok = FALSE /\ c.reply = EmptyReply
    BY <2>1, <2>2, FailedOutcome
  <2>4. Near(e.w, c.w)
    BY <1>4, <2>3 DEF Alike, Near, Core, Sane, Standing
  <2>5. Moved(e.w, c.w)
    BY <1>4, <1>5, <2>3, <2>4, NearMoved
  <2> QED
    BY <1>3, <1>5, <2>3, <2>5, MovedTransitive
<1>6. CASE e.w.status = "OK"
  <2> DEFINE u == e.w
  <2>1. Result(u, TRUE) \in EnsureSession(u)
    <3>1. EnsureConnection(u) = {Result(u, TRUE)}
      BY <1>6 DEF EnsureConnection, Refusing
    <3>2. Result(u, TRUE).w = u
      BY DEF Result
    <3> QED
      BY <1>6, <3>1, <3>2 DEF EnsureSession
  <2>2. c \in Asked(u)
    BY <1>2, <1>3, <1>6
  <2>3. c \in EnsureCallCommand(u, req)
    <3>1. Result(u, TRUE).w = u /\ Result(u, TRUE).ok = TRUE
      BY DEF Result
    <3> HIDE DEF u
    <3>2. PICK x \in EnsureSession(u) : x.w = u /\ x.ok = TRUE
      BY <2>1, <3>1
    <3>3. c \in IF ~x.ok THEN {Failed(x.w, x.w.status)} ELSE Asked(x.w)
      BY <2>2, <3>2
    <3> QED
      BY <1>1, <3>2, <3>3
  <2>4. IsSessionRequest(req) /\ Room(u, req)
    BY DEF IsSessionRequest, Room, SessionTypes
  <2>5. Done(u, c, req) \/ Idle(u, c) \/ Broken(u, c, req)
    BY <1>4, <1>6, <2>3, <2>4, EnsureCallCommandOutcome DEF Core, Sane
  <2>6. w.status = "OK" => u = w
    BY <1>3 DEF Result
  <2> QED
    BY <1>3, <1>6, <2>5, <2>6
<1> QED
  BY <1>5, <1>6

\* A failed replay is taken back: whatever becomes of REVERT, nothing is left.
LEMMA AbortOutcome ==
  ASSUME NEW w, Core(w), NEW v \in Abort(w)
  PROVE  Core(v) /\ Kept(w, v) /\ Quiet(w, v) /\ v.gen >= w.gen /\ Clean(v)
<1> DEFINE req == Request("REVERT")
<1>1. PICK c \in EnsureCallCommand(w, req) : v = c.w
  BY DEF Abort
<1>2. req.type = "REVERT" /\ req.type \in SessionTypes /\ IsSessionRequest(req)
  BY DEF Request, SessionTypes, IsSessionRequest
<1> HIDE DEF req
<1>3. CASE Moved(w, c.w) /\ c.w.status # "OK"
  BY <1>1, <1>3 DEF Moved, Clean
<1>4. ASSUME NEW u, Moved(w, u), u.status = "OK",
             Done(u, c, req) \/ Idle(u, c) \/ Broken(u, c, req)
      PROVE  Core(v) /\ Kept(w, v) /\ Quiet(w, v) /\ v.gen >= w.gen /\ Clean(v)
  <2>1. Core(u) /\ Kept(w, u) /\ Quiet(w, u) /\ u.gen >= w.gen
    BY <1>4 DEF Moved
  <2>2. w.gen \in Nat /\ u.gen \in Nat
    BY <2>1, CoreCounters
  <2>3. Effects(u, v, req) => Quiet(u, v)
    BY <1>2 DEF Effects, Quiet
  <2>4. CASE Done(u, c, req)
    <3>1. Core(v) /\ Kept(u, v) /\ v.gen = u.gen
      BY <1>1, <1>2, <1>4, <2>1, <2>4, DoneCore
    <3>2. Quiet(u, v) /\ Clean(v)
      BY <1>1, <1>2, <2>3, <2>4 DEF Done, Answered, Clean, Blank
    <3> QED
      BY <2>1, <2>2, <3>1, <3>2 DEF Kept, Quiet
  <2>5. CASE Idle(u, c)
    <3>1. Moved(u, v) /\ Clean(v)
      BY <1>1, <1>4, <2>1, <2>5, IdleMoved DEF Idle, Clean, Blank
    <3> QED
      BY <1>4, <3>1, MovedTransitive DEF Moved
  <2>6. CASE Broken(u, c, req)
    <3>1. Core(v) /\ Kept(u, v) /\ v.gen >= u.gen /\ (v.status = "OK" => v.observed # v.gen)
      BY <1>1, <1>2, <1>4, <2>1, <2>6, BrokenCore
    <3>2. Quiet(u, v) /\ Clean(v)
      BY <1>1, <2>3, <2>6, <3>1, CoreClean DEF Broken
    <3>3. v.gen \in Nat
      BY <3>1, CoreCounters
    <3> QED
      BY <2>1, <2>2, <3>1, <3>2, <3>3 DEF Kept, Quiet
  <2> QED
    BY <1>4, <2>4, <2>5, <2>6
<1> QED
  BY <1>1, <1>2, <1>3, <1>4, EnsureCallCommandFrom

-----------------------------------------------------------------------------
(* The replay.                                                              *)

LEMMA LeastNatural ==
  ASSUME NEW T, T \subseteq Nat, T # {}
  PROVE  \E m \in T : \A n \in T : ~(n < m)
<1>1. PICK m \in T : \A n \in T : ~(<<n, m>> \in OpToRel(<, Nat))
  BY NatLessThanWellFounded, WFMin
<1>2. \A n \in T : <<n, m>> \in Nat \X Nat /\ <<n, m>>[1] = n /\ <<n, m>>[2] = m
  OBVIOUS
<1> QED
  BY <1>1, <1>2 DEF OpToRel

\* The function of which Replay takes the last value.
ReplayStart(w) == {[w |-> w, reply |-> EmptyReply, ok |-> TRUE]}
Typing(w, m, f) ==
  f = [n \in 0..m |-> IF n = 0 THEN ReplayStart(w) ELSE Retyped(f[n - 1], w.journal[n])]

LEMMA TypingExists ==
  ASSUME NEW w, NEW m \in Nat
  PROVE  \E f : Typing(w, m, f)
<1> DEFINE T == {n \in Nat : ~\E f : Typing(w, n, f)}
<1>1. SUFFICES ASSUME T # {} PROVE FALSE
  OBVIOUS
<1>2. PICK k \in T : \A n \in T : ~(n < k)
  <2> HIDE DEF T
  <2>1. T \subseteq Nat
    BY DEF T
  <2> QED
    BY <1>1, <2>1, LeastNatural
<1>3. k \in Nat /\ ~\E f : Typing(w, k, f)
  BY <1>2
<1>4. CASE k = 0
  <2> DEFINE f == [n \in 0..0 |-> ReplayStart(w)]
  <2>1. Typing(w, 0, f)
    BY DEF Typing
  <2> QED
    BY <1>3, <1>4, <2>1
<1>5. CASE k # 0
  <2>1. k - 1 \in Nat /\ k - 1 < k
    BY <1>3, <1>5
  <2>2. PICK f : Typing(w, k - 1, f)
    BY <1>2, <2>1
  <2> DEFINE h == [n \in 0..k |-> IF n = k THEN Retyped(f[k - 1], w.journal[k]) ELSE f[n]]
  <2>3. \A n \in 0..k : h[n] = IF n = 0 THEN ReplayStart(w) ELSE Retyped(h[n - 1], w.journal[n])
    <3>1. ASSUME NEW n \in 0..k, n = k PROVE h[n] = Retyped(h[n - 1], w.journal[n])
      BY <1>3, <2>1, <3>1
    <3>2. ASSUME NEW n \in 0..k, n # k
          PROVE  h[n] = IF n = 0 THEN ReplayStart(w) ELSE Retyped(h[n - 1], w.journal[n])
      <4>1. n \in 0..(k - 1) /\ h[n] = f[n] /\ (n # 0 => h[n - 1] = f[n - 1])
        BY <1>3, <3>2
      <4>2. f[n] = IF n = 0 THEN ReplayStart(w) ELSE Retyped(f[n - 1], w.journal[n])
        BY <2>2, <4>1 DEF Typing
      <4> QED
        BY <4>1, <4>2
    <3> QED
      BY <1>5, <3>1, <3>2
  <2>4. h = [n \in 0..k |-> h[n]]
    OBVIOUS
  <2> HIDE DEF h
  <2>5. Typing(w, k, h)
    BY <2>3, <2>4 DEF Typing
  <2> QED
    BY <1>3, <2>5
<1> QED
  BY <1>4, <1>5

LEMMA ReplayUnfolds ==
  ASSUME NEW w, Len(w.journal) \in Nat
  PROVE  \E f : /\ f[0] = ReplayStart(w)
                /\ \A n \in 1..Len(w.journal) : f[n] = Retyped(f[n - 1], w.journal[n])
                /\ Replay(w) = f[Len(w.journal)]
<1> DEFINE m == Len(w.journal)
           f == CHOOSE h : Typing(w, m, h)
<1>1. Typing(w, m, f)
  BY TypingExists
<1>2. Replay(w) = f[m]
  BY DEF Replay, Typing, ReplayStart
<1> HIDE DEF f
<1>3. \A n \in 0..m : f[n] = IF n = 0 THEN ReplayStart(w) ELSE Retyped(f[n - 1], w.journal[n])
  BY <1>1 DEF Typing
<1> QED
  BY <1>2, <1>3

\* A key that the session of w takes.
Typed(w, c, key) ==
  LET e == KeyEffect(w.session, key)
  IN  /\ c.ok = TRUE /\ Stable(c.w) /\ c.w.gen = w.gen
      /\ w.session # None /\ c.w.session # None
      /\ c.w.session.reading = e.reading /\ c.w.session.conv = e.conv
      /\ c.reply.reading = e.reading /\ c.reply.conv = e.conv
      /\ c.reply.consumed = e.consumed /\ c.reply.result = e.result

LEMMA KeyOutcome ==
  ASSUME NEW w, Core(w), Stable(w), w.observed = w.gen, NEW key \in Keys, NEW user \in BOOLEAN,
         Room(w, KeyRequest(key, user)),
         NEW c \in EnsureCallCommand(w, KeyRequest(key, user))
  PROVE  /\ Core(c.w) /\ Kept(w, c.w) /\ c.w.gen >= w.gen
         /\ c.w.ran = w.ran /\ c.w.direct = w.direct
         /\ c.w.sends \in {w.sends, w.sends + 1} /\ (~user => c.w.sends = w.sends)
         /\ \/ Typed(w, c, key)
            \/ /\ c.ok = FALSE /\ c.reply = EmptyReply
               /\ c.w.status = "OK" => c.w.observed # c.w.gen
<1> DEFINE req == KeyRequest(key, user)
<1>1. req.type = "KEY" /\ req.key = key /\ req.user = user /\ IsSessionRequest(req)
  BY DEF KeyRequest, IsSessionRequest
<1>2. w.status = "OK" /\ w.id = "some" /\ (w.session # None => w.session.on)
  BY DEF Stable, Core, Sane
<1>3. Done(w, c, req) \/ Idle(w, c) \/ Broken(w, c, req)
  BY <1>1, <1>2, EnsureCallCommandOutcome DEF Core, Sane
<1> HIDE DEF req
<1>4. w.gen \in Nat
  BY CoreCounters
<1>5. CASE Done(w, c, req)
  <2>1. Core(c.w) /\ Kept(w, c.w) /\ c.w.gen = w.gen /\ c.w.initial = w.initial
    BY <1>1, <1>2, <1>5, DoneCore
  <2>2. c.ok = TRUE /\ c.w.status = "OK" /\ Effects(w, c.w, req) /\ w.session # None /\ Answered(w, c, req)
    BY <1>5 DEF Done
  <2>3. /\ c.w.session # None
        /\ c.w.session.reading = KeyEffect(w.session, key).reading
        /\ c.w.session.conv = KeyEffect(w.session, key).conv
        /\ c.reply.reading = c.w.session.reading /\ c.reply.conv = c.w.session.conv
        /\ c.reply.consumed = KeyEffect(w.session, key).consumed
        /\ c.reply.result = KeyEffect(w.session, key).result
    BY <1>1, <1>2, <2>2, NoneIsNoSession DEF Answered
  <2>4. Typed(w, c, key)
    BY <2>1, <2>2, <2>3 DEF Typed, Stable
  <2> QED
    BY <1>1, <1>2, <1>4, <2>1, <2>2, <2>4 DEF Effects
<1>6. CASE Broken(w, c, req)
  <2>1. /\ Core(c.w) /\ Kept(w, c.w) /\ c.w.gen >= w.gen
        /\ c.w.status = "OK" => c.w.observed # c.w.gen
    BY <1>2, <1>6, BrokenCore
  <2>2. c.ok = FALSE /\ c.reply = EmptyReply /\ Effects(w, c.w, req)
    BY <1>6 DEF Broken
  <2> QED
    BY <1>1, <1>2, <2>1, <2>2 DEF Effects
<1> QED
  BY <1>2, <1>3, <1>5, <1>6 DEF Idle

\* What a key of the journal does to a reading, and the readings that the keys
\* of a journal spell one after the other: each of them was on the screen once.
Stroke(reading, key) ==
  IF key \in Letters THEN Append(reading, key)
  ELSE IF reading = <<>> THEN <<>> ELSE Front(reading)
Spells(journal, g) ==
  /\ g \in [0..Len(journal) -> ShortReadings] /\ g[0] = <<>>
  /\ \A n \in 1..Len(journal) : g[n] = Stroke(g[n - 1], journal[n])

\* The replay after n keys: it has failed, or the session holds what they spell.
Retaken(w, g, n, r) ==
  /\ Core(r.w) /\ Kept(w, r.w) /\ Quiet(w, r.w) /\ r.w.gen >= w.gen /\ r.ok \in BOOLEAN
  /\ r.ok = TRUE =>
       /\ Stable(r.w) /\ r.w.gen = w.gen
       /\ r.w.session # None => r.w.session.reading = g[n] /\ r.w.session.conv = FALSE
       /\ n > 0 => /\ r.w.session # None /\ r.reply.reading = g[n] /\ r.reply.conv = FALSE
                   /\ r.reply.consumed = TRUE /\ r.reply.result = FALSE

LEMMA RetypedOutcome ==
  ASSUME NEW w, Core(w), Stable(w), w.observed = w.gen, NEW g, Spells(w.journal, g),
         NEW n \in 1..Len(w.journal), NEW rs, \A r \in rs : Retaken(w, g, n - 1, r),
         NEW x \in Retyped(rs, w.journal[n])
  PROVE  Retaken(w, g, n, x)
<1> DEFINE key == w.journal[n]
           ok(r, c) == c.ok /\ c.w.gen = r.w.gen /\ ~c.reply.result
                       /\ c.reply.consumed /\ c.reply.reading # <<>>
<1>1. /\ Len(w.journal) \in Nat /\ n \in Nat /\ n - 1 \in 0..Len(w.journal)
      /\ w.journal \in Seq(Letters \cup {"BACKSPACE"})
  BY DEF Core, Worlds
<1>2. key \in Letters \cup {"BACKSPACE"} /\ key \in Keys
  BY <1>1, ElementOfSeq DEF Keys
<1>3. /\ g[n - 1] \in ShortReadings /\ g[n] \in ShortReadings
      /\ g[n] = Stroke(g[n - 1], key)
  <2>1. /\ g \in [0..Len(w.journal) -> ShortReadings]
        /\ \A m \in 1..Len(w.journal) : g[m] = Stroke(g[m - 1], w.journal[m])
    BY DEF Spells
  <2>2. n \in 0..Len(w.journal)
    BY <1>1
  <2> QED
    BY <1>1, <2>1, <2>2
<1> HIDE DEF key
<1>4. PICK r \in rs :
        x \in IF ~r.ok THEN {r}
              ELSE {[w |-> c.w, reply |-> c.reply, ok |-> ok(r, c)] :
                      c \in EnsureCallCommand(r.w, KeyRequest(key, FALSE))}
                   \cup {[w |-> v, reply |-> EmptyReply, ok |-> FALSE] : v \in Faulty(r.w)}
  BY DEF Retyped, key
<1> HIDE DEF ok
<1>5. Retaken(w, g, n - 1, r)
  BY <1>4
<1>6. /\ Core(r.w) /\ Kept(w, r.w) /\ Quiet(w, r.w) /\ r.w.gen >= w.gen /\ r.ok \in BOOLEAN
      /\ w.gen \in Nat /\ r.w.gen \in Nat /\ r.w.observed = w.observed
  BY <1>5, CoreCounters DEF Retaken, Kept
<1>7. CASE r.ok = FALSE
  BY <1>4, <1>5, <1>7 DEF Retaken
<1>8. ASSUME NEW v \in Faulty(r.w), x = [w |-> v, reply |-> EmptyReply, ok |-> FALSE]
      PROVE  Retaken(w, g, n, x)
  <2>1. Near(r.w, v) /\ v.status = r.w.status
    BY <1>6, FaultyOutcome DEF Near, Core, Sane, Standing
  <2>2. Moved(r.w, v)
    BY <1>6, <2>1, NearMoved
  <2>3. Core(v) /\ Kept(r.w, v) /\ Quiet(r.w, v) /\ v.gen >= r.w.gen /\ v.gen \in Nat
    BY <2>2, CoreCounters DEF Moved
  <2>4. Kept(w, v) /\ Quiet(w, v) /\ v.gen >= w.gen
    BY <1>6, <2>3 DEF Kept, Quiet
  <2>5. x.w = v /\ x.ok = FALSE
    BY <1>8
  <2> QED
    BY <2>3, <2>4, <2>5 DEF Retaken
<1>9. ASSUME NEW c \in EnsureCallCommand(r.w, KeyRequest(key, FALSE)), r.ok = TRUE,
             x = [w |-> c.w, reply |-> c.reply, ok |-> ok(r, c)]
      PROVE  Retaken(w, g, n, x)
  <2>1. /\ Stable(r.w) /\ r.w.gen = w.gen /\ r.w.observed = r.w.gen
        /\ r.w.session # None => r.w.session.reading = g[n - 1] /\ r.w.session.conv = FALSE
    BY <1>5, <1>6, <1>9 DEF Retaken
  <2>2. Room(r.w, KeyRequest(key, FALSE))
    <3>1. SUFFICES ASSUME key \in Letters, r.w.session # None
                   PROVE  Len(r.w.session.reading) < MaxLength
      BY DEF Room, KeyRequest
    <3>2. /\ g[n] = Append(g[n - 1], key) /\ g[n - 1] \in Seq(Letters)
          /\ Len(g[n]) <= MaxLength
      BY <1>3, <3>1 DEF Stroke, ShortReadings
    <3> QED
      BY <2>1, <3>1, <3>2, ConstantsAssumption
  <2>3. /\ Core(c.w) /\ Kept(r.w, c.w) /\ c.w.gen >= r.w.gen
        /\ c.w.ran = r.w.ran /\ c.w.direct = r.w.direct /\ c.w.sends = r.w.sends
        /\ Typed(r.w, c, key) \/ c.ok = FALSE
    <3> DEFINE u == r.w
               user == FALSE
    <3>1. /\ Core(u) /\ Stable(u) /\ u.observed = u.gen /\ key \in Keys /\ user \in BOOLEAN
          /\ Room(u, KeyRequest(key, user)) /\ c \in EnsureCallCommand(u, KeyRequest(key, user))
          /\ user = FALSE
      BY <1>2, <1>6, <1>9, <2>1, <2>2
    <3> HIDE DEF u, user
    <3>2. /\ Core(c.w) /\ Kept(u, c.w) /\ c.w.gen >= u.gen
          /\ c.w.ran = u.ran /\ c.w.direct = u.direct /\ (~user => c.w.sends = u.sends)
          /\ Typed(u, c, key) \/ c.ok = FALSE
      BY <3>1, KeyOutcome
    <3> QED
      BY <3>1, <3>2 DEF u
  <2>4. Kept(w, c.w) /\ Quiet(w, c.w) /\ c.w.gen >= w.gen
    BY <1>6, <2>1, <2>3 DEF Kept, Quiet
  <2>5. x.w = c.w /\ x.reply = c.reply /\ x.ok = ok(r, c) /\ x.ok \in BOOLEAN
    BY <1>9 DEF ok
  <2>6. ASSUME x.ok = TRUE
        PROVE  /\ Stable(c.w) /\ c.w.gen = w.gen /\ c.w.session # None
               /\ c.w.session.reading = g[n] /\ c.w.session.conv = FALSE
               /\ c.reply.reading = g[n] /\ c.reply.conv = FALSE
               /\ c.reply.consumed = TRUE /\ c.reply.result = FALSE
    <3> DEFINE s == r.w.session
               e == KeyEffect(s, key)
    <3>1. c.ok = TRUE /\ c.reply.consumed = TRUE /\ c.reply.result = FALSE
      <4>1. ok(r, c)
        BY <2>5, <2>6
      <4>2. c.ok /\ ~c.reply.result /\ c.reply.consumed
        BY <4>1 DEF ok
      <4>3. Typed(r.w, c, key)
        BY <2>3, <4>2
      <4>4. e.consumed \in BOOLEAN /\ e.result \in BOOLEAN
        BY <1>2 DEF KeyEffect, Keys
      <4> QED
        BY <4>2, <4>3, <4>4 DEF Typed
    <3>2. Typed(r.w, c, key)
      BY <2>3, <3>1
    <3>3. /\ Stable(c.w) /\ c.w.gen = w.gen /\ c.w.session # None /\ s # None
          /\ c.w.session.reading = e.reading /\ c.w.session.conv = e.conv
          /\ c.reply.reading = e.reading /\ c.reply.conv = e.conv
          /\ c.reply.consumed = e.consumed /\ c.reply.result = e.result
      BY <2>1, <3>2 DEF Typed
    <3>4. s.reading = g[n - 1] /\ s.conv = FALSE /\ s.reading \in ShortReadings
      BY <1>3, <2>1, <3>3
    <3>5. key \in Letters => Len(s.reading) < MaxLength
      BY <2>2, <3>3, <3>4 DEF Room, KeyRequest
    <3> HIDE DEF s
    <3>6. /\ e.conv \in BOOLEAN
          /\ key \in Letters =>
               e.reading = (IF s.conv THEN <<key>> ELSE Append(s.reading, key)) /\ ~e.conv
          /\ key \notin Letters /\ s.reading = <<>> => ~e.consumed
          /\ key = "BACKSPACE" /\ s.reading # <<>> =>
               e.reading = (IF s.conv THEN s.reading ELSE Front(s.reading)) /\ ~e.conv
      <4>1. s.conv \in BOOLEAN /\ ((key \in Letters /\ ~s.conv) => Len(s.reading) < MaxLength)
        BY <3>4, <3>5
      <4> QED
        BY <1>2, <3>4, <4>1, KeyEffectOutcome
    <3> HIDE DEF e
    <3>7. e.reading = g[n] /\ e.conv = FALSE
      BY <1>2, <1>3, <3>1, <3>3, <3>4, <3>6 DEF Stroke
    <3> QED
      BY <3>1, <3>3, <3>7
  <2> QED
    BY <2>3, <2>4, <2>5, <2>6 DEF Retaken
<1> QED
  <2>1. CASE r.ok = TRUE
    <3>1. \/ \E c \in EnsureCallCommand(r.w, KeyRequest(key, FALSE)) :
               x = [w |-> c.w, reply |-> c.reply, ok |-> ok(r, c)]
          \/ \E v \in Faulty(r.w) : x = [w |-> v, reply |-> EmptyReply, ok |-> FALSE]
      BY <1>4, <2>1
    <3> QED
      BY <1>8, <1>9, <2>1, <3>1
  <2> QED
    BY <1>6, <1>7, <2>1

LEMMA ReplayOutcome ==
  ASSUME NEW w, Core(w), Stable(w), w.observed = w.gen, Blank(w),
         NEW g, Spells(w.journal, g), NEW r \in Replay(w)
  PROVE  Retaken(w, g, Len(w.journal), r)
<1>1. Len(w.journal) \in Nat
  BY DEF Core, Worlds
<1>2. PICK f : /\ f[0] = ReplayStart(w)
               /\ \A n \in 1..Len(w.journal) : f[n] = Retyped(f[n - 1], w.journal[n])
               /\ Replay(w) = f[Len(w.journal)]
  BY <1>1, ReplayUnfolds
<1> DEFINE T == {n \in 0..Len(w.journal) : ~\A x \in f[n] : Retaken(w, g, n, x)}
<1>3. SUFFICES ASSUME T # {} PROVE FALSE
  BY <1>1, <1>2
<1>4. PICK k \in T : \A n \in T : ~(n < k)
  <2>1. T \subseteq Nat
    BY <1>1
  <2> HIDE DEF T
  <2> QED
    BY <1>3, <2>1, LeastNatural
<1>5. k \in 0..Len(w.journal) /\ ~\A x \in f[k] : Retaken(w, g, k, x)
  BY <1>4
<1>6. CASE k = 0
  <2> DEFINE x == [w |-> w, reply |-> EmptyReply, ok |-> TRUE]
  <2>1. f[0] = {x} /\ x.w = w /\ x.ok = TRUE /\ x.ok \in BOOLEAN
    BY <1>2 DEF ReplayStart
  <2>2. g[0] = <<>> /\ w.gen \in Nat
    BY CoreCounters DEF Spells
  <2>3. w.session # None => w.session.reading = <<>> /\ w.session.conv = FALSE
    BY DEF Blank, Core, Worlds, OpenSessions
  <2> HIDE DEF x
  <2>a. Kept(w, w) /\ Quiet(w, w) /\ w.gen >= w.gen
    BY <2>2 DEF Kept, Quiet
  <2>4. Retaken(w, g, 0, x)
    <3>1. /\ Core(x.w) /\ Kept(w, x.w) /\ Quiet(w, x.w) /\ x.w.gen >= w.gen
          /\ Stable(x.w) /\ x.w.gen = w.gen /\ x.ok = TRUE
      BY <2>1, <2>a
    <3>2. x.w.session # None => x.w.session.reading = g[0] /\ x.w.session.conv = FALSE
      BY <2>1, <2>2, <2>3
    <3>3. ~(0 > 0)
      OBVIOUS
    <3> HIDE DEF T
    <3> QED
      BY <2>1, <3>1, <3>2, <3>3 DEF Retaken
  <2> QED
    BY <1>5, <1>6, <2>1, <2>4
<1>7. CASE k # 0
  <2>1. k \in 1..Len(w.journal) /\ k - 1 \in 0..Len(w.journal) /\ k - 1 < k
    BY <1>1, <1>5, <1>7
  <2>2. \A x \in f[k - 1] : Retaken(w, g, k - 1, x)
    BY <1>4, <2>1
  <2>3. f[k] = Retyped(f[k - 1], w.journal[k])
    BY <1>2, <2>1
  <2> QED
    BY <1>5, <2>1, <2>2, <2>3, RetypedOutcome
<1> QED
  BY <1>6, <1>7

-----------------------------------------------------------------------------
(* The preparation of a key or a command.                                   *)

\* The journal is cleared, or given up, or begins to observe a generation.
LEMMA ClearedOutcome ==
  ASSUME NEW w, Core(w)
  PROVE  LET v == ClearReading(w)
         IN  /\ Core(v) /\ Quiet(w, v) /\ v.journal = <<>> /\ v.suppressed = FALSE
             /\ v.observed = w.observed /\ v.view = w.view /\ v.status = w.status
             /\ v.session = w.session /\ v.gen = w.gen /\ v.initial = w.initial
<1> DEFINE v == ClearReading(w)
<1>1. w \in Worlds /\ Sane(w) /\ ~w.direct /\ MaxEventCount \in Nat
  BY ConstantsAssumption DEF Core
<1>2. /\ v \in Worlds /\ Quiet(w, v) /\ v.journal = <<>> /\ v.suppressed = FALSE
      /\ v.observed = w.observed /\ v.view = w.view /\ v.status = w.status
      /\ v.session = w.session /\ v.gen = w.gen /\ v.initial = w.initial
      /\ v.id = w.id /\ v.up = w.up
  BY <1>1, EmptySequences DEF ClearReading, Worlds, Quiet
<1> HIDE DEF v
<1>3. Sane(v)
  BY <1>1, <1>2 DEF Sane, Standing, Sound, Blank
<1>4. Len(v.journal) <= MaxEventCount /\ ~v.direct
  BY <1>1, <1>2 DEF Quiet
<1> QED
  BY <1>1, <1>2, <1>3, <1>4 DEF Core, v

\* The journal is given up, and the generation seen is the one before.
GivenUp(w, n) == [SuppressReading(w) EXCEPT !.observed = n]
Silenced(w, v, n) ==
  /\ Core(v) /\ Quiet(w, v) /\ v.journal = <<>> /\ v.suppressed = TRUE
  /\ v.observed = n /\ v.view = w.view /\ v.status = w.status
  /\ v.session = w.session /\ v.gen = w.gen

LEMMA SuppressedOutcome ==
  ASSUME NEW w, Core(w), Clean(w), NEW n, n \in Nat, n <= w.observed
  PROVE  Silenced(w, GivenUp(w, n), n)
<1> DEFINE v == GivenUp(w, n)
<1>1. w \in Worlds /\ Sane(w) /\ ~w.direct /\ MaxEventCount \in Nat
  BY ConstantsAssumption DEF Core
<1>2. /\ v \in Worlds /\ Quiet(w, v) /\ v.journal = <<>> /\ v.suppressed = TRUE
      /\ v.observed = n /\ v.view = w.view /\ v.status = w.status
      /\ v.session = w.session /\ v.gen = w.gen /\ v.initial = w.initial
      /\ v.id = w.id /\ v.up = w.up
  BY <1>1, EmptySequences DEF GivenUp, SuppressReading, Worlds, Quiet
<1> HIDE DEF v
<1>3. n <= w.initial
  BY CoreCounters
<1>4. Sane(v)
  BY <1>1, <1>2, <1>3 DEF Sane, Standing, Sound, Blank, Clean
<1>5. Len(v.journal) <= MaxEventCount /\ ~v.direct
  BY <1>1, <1>2 DEF Quiet
<1>6. Core(v)
  BY <1>1, <1>2, <1>4, <1>5 DEF Core
<1>7. Silenced(w, v, n)
  BY <1>2, <1>6 DEF Silenced
<1> QED
  BY <1>7 DEF v

LEMMA ObservedOutcome ==
  ASSUME NEW w, Core(w), Stable(w)
  PROVE  LET v == [w EXCEPT !.observed = w.gen]
         IN  /\ Core(v) /\ Quiet(w, v) /\ v.journal = w.journal /\ v.suppressed = w.suppressed
             /\ v.observed = v.gen /\ v.view = w.view /\ Stable(v)
             /\ v.session = w.session /\ v.gen = w.gen
<1> DEFINE v == [w EXCEPT !.observed = w.gen]
<1>1. w \in Worlds /\ Sane(w) /\ ~w.direct /\ w.gen \in Nat
  BY DEF Core, Worlds
<1>2. /\ v \in Worlds /\ Quiet(w, v) /\ v.journal = w.journal /\ v.suppressed = w.suppressed
      /\ v.observed = w.gen /\ v.view = w.view /\ v.status = w.status
      /\ v.session = w.session /\ v.gen = w.gen /\ v.initial = w.initial
      /\ v.id = w.id /\ v.up = w.up
  BY <1>1 DEF Worlds, Quiet
<1> HIDE DEF v
<1>3. Sane(v)
  BY <1>1, <1>2 DEF Sane, Standing, Sound, Stable
<1>4. Len(v.journal) <= MaxEventCount /\ ~v.direct /\ (v.suppressed => v.journal = <<>>)
  BY <1>2 DEF Quiet, Core
<1> QED
  BY <1>2, <1>3, <1>4 DEF Core, Stable, v

\* The reading that was typed again is in the session and in the answer.
Rewritten(p, reading) ==
  /\ p.w.session # None /\ p.w.session.reading = reading /\ p.w.session.conv = FALSE
  /\ p.reply.reading = reading /\ p.reply.conv = FALSE
  /\ p.reply.consumed = TRUE /\ p.reply.result = FALSE

LEMMA RecoverReadingOutcome ==
  ASSUME NEW w, Core(w), Stable(w), w.observed = w.gen, Blank(w), w.journal # <<>>,
         NEW previous \in Nat, previous < w.gen, NEW g, Spells(w.journal, g),
         NEW p \in RecoverReading(w, previous)
  PROVE  /\ Core(p.w) /\ Quiet(w, p.w) /\ p.w.view = w.view /\ p.w.gen >= w.gen
         /\ \/ /\ p.verdict = "failed" /\ p.reply = EmptyReply
               /\ p.w.observed = previous /\ p.w.observed # p.w.gen
               /\ p.w.journal = <<>> /\ p.w.suppressed = TRUE
            \/ /\ p.verdict = "changed" /\ Stable(p.w) /\ p.w.observed = p.w.gen
               /\ p.w.journal = w.journal /\ p.w.suppressed = w.suppressed
               /\ Rewritten(p, g[Len(w.journal)])
<1>1. Len(w.journal) \in Nat /\ Len(w.journal) > 0 /\ w.gen \in Nat
  <2>1. w.journal \in Seq(Letters \cup {"BACKSPACE"}) /\ w.gen \in Nat
    BY DEF Core, Worlds
  <2>2. Len(w.journal) \in Nat /\ Len(w.journal) # 0
    BY <2>1, EmptySeq
  <2> QED
    BY <2>1, <2>2
<1>2. PICK r \in Replay(w) :
        p \in IF r.ok THEN {Prepared(r.w, "changed", r.reply)}
              ELSE {Prepared([SuppressReading(v) EXCEPT !.observed = previous],
                             "failed", EmptyReply) :
                      v \in IF r.w.gen = w.gen THEN Abort(r.w) ELSE {r.w}}
  BY DEF RecoverReading
<1>3. Retaken(w, g, Len(w.journal), r)
  BY <1>2, ReplayOutcome
<1>4. /\ Core(r.w) /\ Kept(w, r.w) /\ Quiet(w, r.w) /\ r.w.gen >= w.gen /\ r.ok \in BOOLEAN
      /\ r.w.observed = w.observed /\ r.w.view = w.view /\ r.w.gen \in Nat
      /\ r.w.journal = w.journal /\ r.w.suppressed = w.suppressed
  BY <1>3, CoreCounters DEF Retaken, Kept
<1>5. CASE r.ok = TRUE
  <2>1. p = Prepared(r.w, "changed", r.reply)
    BY <1>2, <1>5
  <2>2. p.w = r.w /\ p.verdict = "changed" /\ p.reply = r.reply
    BY <2>1 DEF Prepared
  <2>3. /\ Stable(r.w) /\ r.w.gen = w.gen /\ r.w.session # None
        /\ r.w.session.reading = g[Len(w.journal)] /\ r.w.session.conv = FALSE
        /\ r.reply.reading = g[Len(w.journal)] /\ r.reply.conv = FALSE
        /\ r.reply.consumed = TRUE /\ r.reply.result = FALSE
    BY <1>1, <1>3, <1>5 DEF Retaken
  <2>4. Rewritten(p, g[Len(w.journal)])
    BY <2>2, <2>3 DEF Rewritten
  <2> QED
    BY <1>4, <2>2, <2>3, <2>4
<1>6. CASE r.ok = FALSE
  <2>1. PICK v \in IF r.w.gen = w.gen THEN Abort(r.w) ELSE {r.w} :
          p = Prepared([SuppressReading(v) EXCEPT !.observed = previous], "failed", EmptyReply)
    BY <1>2, <1>6
  <2>2. Core(v) /\ Kept(r.w, v) /\ Quiet(r.w, v) /\ v.gen >= r.w.gen /\ Clean(v)
    <3>1. CASE r.w.gen = w.gen
      BY <1>4, <2>1, <3>1, AbortOutcome
    <3>2. CASE r.w.gen # w.gen
      <4>1. v = r.w
        BY <2>1, <3>2
      <4>2. Clean(r.w)
        BY <1>4, <3>2, CoreClean
      <4> QED
        BY <1>4, <4>1, <4>2 DEF Kept, Quiet
    <3> QED
      BY <3>1, <3>2
  <2>3. v.observed = w.observed /\ v.view = w.view /\ v.gen \in Nat /\ v.gen >= w.gen
    BY <1>1, <1>4, <2>2, CoreCounters DEF Kept
  <2> DEFINE u == [SuppressReading(v) EXCEPT !.observed = previous]
  <2>4. /\ Core(u) /\ Quiet(v, u) /\ u.journal = <<>> /\ u.suppressed = TRUE
        /\ u.observed = previous /\ u.view = v.view /\ u.gen = v.gen
    <3>1. Core(v) /\ Clean(v) /\ previous \in Nat /\ previous <= v.observed
      BY <1>1, <2>2, <2>3
    <3>2. Silenced(v, GivenUp(v, previous), previous)
      BY <3>1, SuppressedOutcome
    <3>3. u = GivenUp(v, previous)
      BY DEF GivenUp
    <3> HIDE DEF u
    <3> QED
      BY <3>2, <3>3 DEF Silenced
  <2> HIDE DEF u
  <2>5. p.w = u /\ p.verdict = "failed" /\ p.reply = EmptyReply
    BY <2>1 DEF Prepared, u
  <2>6. Quiet(w, u)
    BY <1>4, <2>2, <2>4 DEF Quiet
  <2>7. u.observed # u.gen /\ u.gen >= w.gen /\ u.view = w.view
    BY <1>1, <2>3, <2>4
  <2> QED
    BY <2>4, <2>5, <2>6, <2>7
<1> QED
  BY <1>4, <1>5, <1>6

\* What Prepare makes of the journal before anything else.
SameJournal(w, v, sec) ==
  IF sec THEN v.journal = <<>> /\ v.suppressed = FALSE
  ELSE v.journal = w.journal /\ v.suppressed = w.suppressed

\* The four ends of Prepare: nothing may be sent; the session is the one that
\* has been observed, or the first one; it is a new one, and there was nothing
\* to type again; or the journal has been typed into it.
Unready(w, p, sec) ==
  /\ p.verdict = "failed" /\ p.reply = EmptyReply /\ p.w.observed = w.observed
  /\ p.w.status = "OK" => p.w.observed # p.w.gen
  /\ \/ SameJournal(w, p.w, sec)
     \/ ~sec /\ p.w.journal = <<>> /\ p.w.suppressed = TRUE
Ready(w, p, sec) ==
  /\ p.verdict = "ready" /\ p.reply = EmptyReply /\ SameJournal(w, p.w, sec)
  /\ \/ w.observed = 0 /\ Blank(p.w)
     \/ /\ w.observed = w.gen /\ p.w.gen = w.gen
        /\ p.w.session # None => w.status = "OK" /\ w.session # None /\ SameText(w, p.w)
Renewed(w, p, sec) ==
  /\ p.verdict = "changed" /\ p.reply = EmptyReply /\ SameJournal(w, p.w, sec)
  /\ Blank(p.w) /\ p.w.journal = <<>>
Rebuilt(w, p, sec, g) ==
  /\ p.verdict = "changed" /\ ~sec /\ ~w.suppressed /\ w.journal # <<>>
  /\ SameJournal(w, p.w, sec) /\ Rewritten(p, g[Len(w.journal)])

Readied(w, p, sec, g) ==
  /\ Core(p.w) /\ Quiet(w, p.w) /\ p.w.view = w.view /\ p.w.gen >= w.gen
  /\ \/ Unready(w, p, sec)
     \/ /\ Stable(p.w) /\ p.w.observed = p.w.gen
        /\ Ready(w, p, sec) \/ Renewed(w, p, sec) \/ Rebuilt(w, p, sec, g)

\* A journal that is still worth something can be read.
Legible(w, sec, g) == sec \/ w.suppressed \/ Spells(w.journal, g)

LEMMA PrepareOutcome ==
  ASSUME NEW w, Core(w), NEW sec \in BOOLEAN, NEW g, Legible(w, sec, g),
         NEW p \in Prepare(w, sec)
  PROVE  Readied(w, p, sec, g)
<1> DEFINE s == IF sec THEN ClearReading(w) ELSE w
<1>1. /\ Core(s) /\ Quiet(w, s) /\ SameJournal(w, s, sec) /\ s.observed = w.observed
      /\ s.view = w.view /\ s.status = w.status /\ s.session = w.session /\ s.gen = w.gen
  BY ClearedOutcome DEF SameJournal, Quiet
<1> HIDE DEF s
<1>2. PICK t \in Again(Again({Turned(s, "again")})) :
        p \in IF t.verdict = "stable" THEN Adopt(t.w, sec)
              ELSE {Prepared(t.w, "failed", EmptyReply)}
  BY DEF Prepare, s
<1>3. TurnedOut(s, t)
  BY <1>1, <1>2, LoopOutcome
<1> DEFINE u == t.w
<1>4. /\ Core(u) /\ u.observed = w.observed /\ u.view = w.view /\ u.gen >= w.gen
      /\ SameJournal(w, u, sec) /\ Quiet(w, u) /\ Moved(s, u)
  <2>1. Moved(s, u)
    BY <1>3 DEF TurnedOut
  <2>2. /\ Core(u) /\ u.observed = s.observed /\ u.view = s.view /\ u.gen >= s.gen
        /\ u.journal = s.journal /\ u.suppressed = s.suppressed /\ Quiet(s, u)
    BY <1>1, <2>1, MovedCounters
  <2> QED
    BY <1>1, <2>1, <2>2 DEF SameJournal, Quiet
<1>5. /\ u.observed \in Nat /\ u.gen \in Nat /\ w.gen \in Nat /\ w.observed <= w.gen
      /\ u.observed <= u.gen /\ (u.status = "OK" => u.gen > 0)
  <2>1. w.observed \in Nat /\ w.initial \in Nat /\ w.gen \in Nat
        /\ w.observed <= w.initial /\ w.initial <= w.gen
    BY CoreCounters
  <2>2. u.observed \in Nat /\ u.initial \in Nat /\ u.gen \in Nat
        /\ u.observed <= u.initial /\ u.initial <= u.gen /\ (u.status = "OK" => u.gen > 0)
    BY <1>4, CoreCounters
  <2> QED
    BY <2>1, <2>2
<1>6. CASE t.verdict # "stable"
  <2>1. p = Prepared(u, "failed", EmptyReply)
    BY <1>2, <1>6
  <2>2. p.w = u /\ p.verdict = "failed" /\ p.reply = EmptyReply
    BY <2>1 DEF Prepared
  <2>3. u.status = "OK" => u.observed # u.gen
    BY <1>3, <1>6 DEF TurnedOut
  <2> HIDE DEF u
  <2>4. Unready(w, p, sec)
    BY <1>4, <2>2, <2>3 DEF Unready
  <2> QED
    BY <1>4, <2>2, <2>4 DEF Readied
<1>7. CASE t.verdict = "stable"
  <2>1. Stable(u) /\ p \in Adopt(u, sec)
    BY <1>2, <1>3, <1>7 DEF TurnedOut
  <2> HIDE DEF u
  <2> DEFINE v == [u EXCEPT !.observed = u.gen]
  <2>2. /\ Core(v) /\ Quiet(u, v) /\ v.journal = u.journal /\ v.suppressed = u.suppressed
        /\ v.observed = v.gen /\ v.view = u.view /\ Stable(v)
        /\ v.session = u.session /\ v.gen = u.gen
    BY <1>4, <2>1, ObservedOutcome
  <2> HIDE DEF v
  <2>3. Quiet(w, v) /\ SameJournal(w, v, sec)
    BY <1>4, <2>2 DEF Quiet, SameJournal
  <2>4. u.observed # u.gen => Blank(u)
    BY <1>4, <2>1 DEF Core, Sane, Stable
  <2>5. CASE u.observed \in {0, u.gen}
    <3>1. p = Prepared(v, "ready", EmptyReply)
      BY <2>1, <2>5 DEF Adopt, v
    <3>2. p.w = v /\ p.verdict = "ready" /\ p.reply = EmptyReply
      BY <3>1 DEF Prepared
    <3>3. CASE u.observed # u.gen
      <4>1. w.observed = 0 /\ Blank(v)
        BY <1>4, <2>2, <2>4, <2>5, <3>3 DEF Blank
      <4>2. Ready(w, p, sec)
        BY <2>3, <3>2, <4>1 DEF Ready
      <4> QED
        BY <1>4, <2>2, <2>3, <3>2, <4>2 DEF Readied
    <3>4. CASE u.observed = u.gen
      <4>1. w.observed = w.gen /\ v.gen = w.gen
        BY <1>4, <1>5, <2>2, <3>4
      <4>2. v.session # None => w.status = "OK" /\ w.session # None /\ SameText(w, v)
        BY <1>1, <1>4, <1>5, <2>1, <2>2, <4>1 DEF Moved, Stable, SameText
      <4>3. Ready(w, p, sec)
        BY <2>3, <3>2, <4>1, <4>2 DEF Ready
      <4> QED
        BY <1>4, <2>2, <2>3, <3>2, <4>3 DEF Readied
    <3> QED
      BY <3>3, <3>4
  <2>6. CASE u.observed \notin {0, u.gen} /\ sec
    <3> DEFINE c == ClearReading(v)
    <3>1. p = Prepared(c, "changed", EmptyReply)
      BY <2>1, <2>6 DEF Adopt, v
    <3>2. p.w = c /\ p.verdict = "changed" /\ p.reply = EmptyReply
      BY <3>1 DEF Prepared
    <3>3. /\ Core(c) /\ Quiet(v, c) /\ c.journal = <<>> /\ c.suppressed = FALSE
          /\ c.observed = v.observed /\ c.view = v.view /\ c.status = v.status
          /\ c.session = v.session /\ c.gen = v.gen /\ c.initial = v.initial
      BY <2>2, ClearedOutcome
    <3> HIDE DEF c
    <3>4. Renewed(w, p, sec)
      BY <2>2, <2>4, <2>6, <3>2, <3>3 DEF Renewed, SameJournal, Blank
    <3>5. Stable(c) /\ Quiet(w, c)
      BY <2>2, <2>3, <3>3 DEF Stable, Quiet
    <3> QED
      BY <1>4, <2>2, <3>2, <3>3, <3>4, <3>5 DEF Readied
  <2>7. CASE u.observed \notin {0, u.gen} /\ ~sec /\ (u.journal = <<>> \/ u.suppressed)
    <3>1. p = Prepared(v, "changed", EmptyReply)
      BY <2>1, <2>7 DEF Adopt, v
    <3>2. p.w = v /\ p.verdict = "changed" /\ p.reply = EmptyReply
      BY <3>1 DEF Prepared
    <3>3. u.journal = <<>>
      BY <1>4, <2>7 DEF Core
    <3>4. Renewed(w, p, sec)
      BY <2>2, <2>3, <2>4, <2>7, <3>2, <3>3 DEF Renewed, Blank
    <3> QED
      BY <1>4, <2>2, <2>3, <3>2, <3>4 DEF Readied
  <2>8. CASE u.observed \notin {0, u.gen} /\ ~sec /\ u.journal # <<>> /\ ~u.suppressed
    <3>1. p \in RecoverReading(v, u.observed)
      BY <2>1, <2>8 DEF Adopt, v
    <3>2. w.journal = v.journal /\ w.suppressed = v.suppressed /\ ~w.suppressed
      BY <2>3, <2>2, <2>8 DEF SameJournal
    <3>3. Spells(v.journal, g)
      BY <2>8, <3>2 DEF Legible
    <3>4. Blank(v) /\ u.observed < v.gen
      BY <1>5, <2>2, <2>4, <2>8 DEF Blank
    <3>5. /\ Core(p.w) /\ Quiet(v, p.w) /\ p.w.view = v.view /\ p.w.gen >= v.gen
          /\ \/ /\ p.verdict = "failed" /\ p.reply = EmptyReply
                /\ p.w.observed = u.observed /\ p.w.observed # p.w.gen
                /\ p.w.journal = <<>> /\ p.w.suppressed = TRUE
             \/ /\ p.verdict = "changed" /\ Stable(p.w) /\ p.w.observed = p.w.gen
                /\ p.w.journal = v.journal /\ p.w.suppressed = v.suppressed
                /\ Rewritten(p, g[Len(v.journal)])
      BY <1>5, <2>2, <2>8, <3>1, <3>3, <3>4, RecoverReadingOutcome
    <3>6. p.w.gen \in Nat /\ p.w.gen >= w.gen /\ Quiet(w, p.w) /\ p.w.view = w.view
      BY <1>4, <1>5, <2>2, <2>3, <3>5, CoreCounters DEF Quiet
    <3>7. CASE p.verdict = "failed"
      <4>1. Unready(w, p, sec)
        BY <1>4, <2>8, <3>5, <3>7 DEF Unready
      <4> QED
        BY <3>5, <3>6, <4>1 DEF Readied
    <3>8. CASE p.verdict = "changed"
      <4>1. Rebuilt(w, p, sec, g)
        BY <2>2, <2>8, <3>2, <3>5, <3>8 DEF Rebuilt, SameJournal
      <4> QED
        BY <3>5, <3>6, <3>8, <4>1 DEF Readied
    <3> QED
      BY <3>5, <3>7, <3>8
  <2> QED
    BY <2>5, <2>6, <2>7, <2>8
<1> QED
  BY <1>6, <1>7

-----------------------------------------------------------------------------
(* What a world has to do with the screen.                                  *)

Contents == [reading : ShortReadings, conv : BOOLEAN]

\* The journal, if it has not been given up, spells at most the reading on the
\* screen, which is not converted: all of it, unless a letter may replace a
\* conversion.
Tracks(w, sh, sec, g) ==
  \/ sec \/ w.suppressed
  \/ /\ Spells(w.journal, g) /\ sh.conv = FALSE
     /\ Len(g[Len(w.journal)]) <= Len(sh.reading)
     /\ ~TypeOverConversion => g[Len(w.journal)] = sh.reading

\* The session that the client will use is empty, or the one on the screen.
Home(w, sh) ==
  w.status = "OK" /\ w.session # None =>
    Blank(w) \/ (Screen(w.session) = sh /\ w.session.no = w.view)

\* If its generation has been observed and its journal is kept, it holds what
\* is on the screen: a new session has been typed into already.
Mirror(w, sh, sec) ==
  w.status = "OK" /\ w.session # None /\ w.observed = w.gen /\ ~w.suppressed /\ ~sec =>
    Screen(w.session) = sh \/ (TypeOverConversion /\ w.journal = <<>> /\ Blank(w))

Unseen(w, sh) == w.observed = 0 => w.journal = <<>> /\ sh = Nothing

Fits(w, sh, sec, g) ==
  Unseen(w, sh) /\ Home(w, sh) /\ Mirror(w, sh, sec) /\ Tracks(w, sh, sec, g)

\* A session that is about to take a key.
Open(w, sh, sec, g) ==
  /\ Core(w) /\ Stable(w) /\ w.observed = w.gen
  /\ w.session # None =>
       /\ Len(w.session.reading) <= Len(sh.reading)
       /\ \/ Screen(w.session) = sh \/ TypeOverConversion
          \/ Blank(w) /\ (sec \/ w.suppressed)
       /\ Tracks(w, Screen(w.session), sec, g)

LEMMA SessionContents ==
  ASSUME NEW w, Core(w), w.session # None
  PROVE  /\ Screen(w.session) \in Contents /\ w.session.conv \in BOOLEAN
         /\ Screen(w.session).reading = w.session.reading
         /\ Screen(w.session).conv = w.session.conv
         /\ Blank(w) <=> Screen(w.session) = Nothing
         /\ Blank(w) => w.session.reading = <<>> /\ w.session.conv = FALSE
<1>1. w.session \in OpenSessions
  BY DEF Core, Worlds
<1>2. Screen(w.session) = [reading |-> w.session.reading, conv |-> w.session.conv]
  BY DEF Screen
<1>3. w.session.reading \in ShortReadings /\ w.session.conv \in BOOLEAN
  BY <1>1 DEF OpenSessions
<1>4. Screen(w.session) = Nothing => w.session.reading = <<>> /\ w.session.conv = FALSE
  <2>1. ASSUME Screen(w.session) = Nothing
        PROVE  w.session.reading = <<>> /\ w.session.conv = FALSE
    <3>1. Nothing.reading = <<>> /\ Nothing.conv = FALSE
      BY DEF Nothing
    <3> QED
      BY <1>2, <2>1, <3>1
  <2> QED
    BY <2>1
<1> QED
  <2>1. Blank(w) => w.session.reading = <<>> /\ w.session.conv = FALSE
    BY <1>3 DEF Blank
  <2>2. Blank(w) => Screen(w.session) = Nothing
    BY <1>2, <2>1 DEF Nothing
  <2>3. Screen(w.session) = Nothing => Blank(w)
    BY <1>4 DEF Blank
  <2>4. Screen(w.session) \in Contents
    BY <1>2, <1>3 DEF Contents
  <2> QED
    BY <1>2, <1>3, <2>1, <2>2, <2>3, <2>4

\* Without a kept journal the reading may be empty only.
LEMMA EmptyTracks ==
  ASSUME NEW w, NEW sh \in Contents, NEW sec, NEW g, Tracks(w, sh, sec, g),
         ~sec, ~w.suppressed, w.journal = <<>>
  PROVE  /\ g[0] = <<>> /\ Len(w.journal) = 0 /\ Spells(w.journal, g)
         /\ TypeOverConversion \/ sh = Nothing
<1>1. Len(w.journal) = 0
  BY EmptySequences
<1>2. /\ Spells(w.journal, g) /\ g[0] = <<>> /\ sh.conv = FALSE
      /\ ~TypeOverConversion => sh.reading = <<>>
  BY <1>1 DEF Tracks, Spells
<1>3. sh = [reading |-> sh.reading, conv |-> sh.conv]
  BY DEF Contents
<1> QED
  BY <1>1, <1>2, <1>3 DEF Nothing

LEMMA CleanFits ==
  ASSUME NEW w, Core(w), Clean(w), NEW sh, NEW sec, NEW g, Tracks(w, sh, sec, g), Unseen(w, sh),
         sec \/ w.suppressed \/ ((w.status = "OK") => (w.observed # w.gen))
  PROVE  Fits(w, sh, sec, g)
BY DEF Clean, Fits, Home, Mirror

LEMMA MovedFits ==
  ASSUME NEW w, Core(w), NEW sh, NEW sec, NEW g, Fits(w, sh, sec, g), NEW v, Moved(w, v)
  PROVE  Fits(v, sh, sec, g)
<1>1. /\ v.journal = w.journal /\ v.suppressed = w.suppressed
      /\ v.observed = w.observed /\ v.view = w.view
  BY DEF Moved, Kept
<1>2. /\ w.observed \in Nat /\ w.gen \in Nat /\ w.observed <= w.gen
      /\ v.gen \in Nat /\ v.gen >= w.gen
  <2>1. Core(v) /\ v.gen >= w.gen
    BY DEF Moved
  <2>2. v.gen \in Nat
    BY <2>1, CoreCounters
  <2>3. w.observed \in Nat /\ w.initial \in Nat /\ w.gen \in Nat
        /\ w.observed <= w.initial /\ w.initial <= w.gen
    BY CoreCounters
  <2> QED
    BY <2>1, <2>2, <2>3
<1>3. Unseen(v, sh) /\ Tracks(v, sh, sec, g)
  BY <1>1 DEF Fits, Unseen, Tracks
<1>4. v.status = "OK" /\ v.session # None =>
        \/ v.gen > w.gen /\ Blank(v)
        \/ /\ v.gen = w.gen /\ w.status = "OK" /\ w.session # None
           /\ Screen(v.session) = Screen(w.session) /\ v.session.no = w.session.no
           /\ Blank(v) <=> Blank(w)
  BY DEF Moved, SameText, Screen, Blank
<1>5. Home(v, sh)
  BY <1>1, <1>4 DEF Fits, Home
<1>6. Mirror(v, sh, sec)
  BY <1>1, <1>2, <1>4 DEF Fits, Mirror
<1> QED
  BY <1>3, <1>5, <1>6 DEF Fits

\* Whatever Prepare does, the journal still fits the screen.
LEMMA ReadiedTracks ==
  ASSUME NEW w, Core(w), NEW sh \in Contents, NEW sec \in BOOLEAN, NEW g,
         Fits(w, sh, sec, g), NEW p, Readied(w, p, sec, g)
  PROVE  /\ Tracks(p.w, sh, sec, g) /\ Unseen(p.w, sh)
         /\ p.verdict # "failed" => (p.w.suppressed => w.suppressed)
<1>1. SameJournal(w, p.w, sec) \/ (p.verdict = "failed" /\ p.w.journal = <<>> /\ p.w.suppressed = TRUE)
  BY DEF Readied, Unready, Ready, Renewed, Rebuilt
<1>2. Tracks(p.w, sh, sec, g)
  BY <1>1 DEF Fits, Tracks, SameJournal
<1>3. p.w.observed = w.observed \/ p.w.observed # 0
  <2>1. CASE Unready(w, p, sec)
    BY <2>1 DEF Unready
  <2>2. CASE Stable(p.w) /\ p.w.observed = p.w.gen
    <3>1. p.w.gen > 0 /\ p.w.gen \in Nat
      BY <2>2, CoreCounters DEF Readied, Stable
    <3> QED
      BY <2>2, <3>1
  <2> QED
    BY <2>1, <2>2 DEF Readied
<1>4. Unseen(p.w, sh)
  BY <1>1, <1>3 DEF Fits, Unseen, SameJournal
<1>5. SameJournal(w, p.w, sec) => (p.w.suppressed => w.suppressed)
  BY DEF SameJournal
<1> QED
  BY <1>1, <1>2, <1>4, <1>5

LEMMA ReadiedFits ==
  ASSUME NEW w, Core(w), NEW sh \in Contents, NEW sec \in BOOLEAN, NEW g,
         Fits(w, sh, sec, g), NEW p, Readied(w, p, sec, g), ~Rebuilt(w, p, sec, g)
  PROVE  Fits(p.w, sh, sec, g)
<1> DEFINE v == p.w
<1>1. Tracks(v, sh, sec, g) /\ Unseen(v, sh)
  BY ReadiedTracks
<1>2. Core(v) /\ v.view = w.view
  BY DEF Readied
<1>3. v.session # None => (Blank(v) => Screen(v.session) = Nothing)
  BY <1>2, SessionContents
<1>4. CASE Unready(w, p, sec)
  <2>1. v.status = "OK" => v.observed # v.gen
    BY <1>4 DEF Unready
  <2>2. Clean(v)
    BY <1>2, <2>1, CoreClean
  <2> QED
    BY <1>1, <1>2, <2>1, <2>2, CleanFits
<1>5. CASE Ready(w, p, sec) /\ w.observed = 0 /\ Blank(p.w)
  <2>1. sh = Nothing
    BY <1>5 DEF Fits, Unseen
  <2> QED
    BY <1>1, <1>3, <1>5, <2>1 DEF Fits, Home, Mirror
<1>6. CASE /\ Ready(w, p, sec) /\ w.observed = w.gen
           /\ p.w.session # None => w.status = "OK" /\ w.session # None /\ SameText(w, p.w)
  <2>1. v.session # None =>
          /\ w.status = "OK" /\ w.session # None
          /\ Screen(v.session) = Screen(w.session) /\ v.session.no = w.session.no
          /\ Blank(v) <=> Blank(w)
    BY <1>6 DEF SameText, Screen, Blank
  <2>2. Home(v, sh)
    BY <1>2, <2>1 DEF Fits, Home
  <2>3. Mirror(v, sh, sec)
    BY <1>6, <2>1 DEF Fits, Mirror, Ready, SameJournal
  <2> QED
    BY <1>1, <2>2, <2>3 DEF Fits
<1>7. CASE Renewed(w, p, sec)
  <2>1. Home(v, sh)
    BY <1>7 DEF Home, Renewed
  <2>2. Mirror(v, sh, sec)
    <3>1. SUFFICES ASSUME ~sec, ~v.suppressed, v.session # None
                   PROVE  Screen(v.session) = sh \/ (TypeOverConversion /\ v.journal = <<>> /\ Blank(v))
      BY DEF Mirror
    <3>2. v.journal = <<>> /\ Blank(v)
      BY <1>7 DEF Renewed
    <3> QED
      BY <1>1, <1>3, <3>1, <3>2, EmptyTracks
  <2> QED
    BY <1>1, <2>1, <2>2 DEF Fits
<1> QED
  BY <1>4, <1>5, <1>6, <1>7 DEF Readied, Ready

LEMMA ReadiedOpen ==
  ASSUME NEW w, Core(w), NEW sh \in Contents, NEW sec \in BOOLEAN, NEW g,
         Fits(w, sh, sec, g), NEW p, Readied(w, p, sec, g), p.verdict # "failed"
  PROVE  Open(p.w, sh, sec, g)
<1> DEFINE v == p.w
           c == Screen(v.session)
<1>1. Tracks(v, sh, sec, g) /\ Unseen(v, sh)
  BY ReadiedTracks
<1>2. Core(v) /\ Stable(v) /\ v.observed = v.gen /\ v.view = w.view
  BY DEF Readied, Unready
<1>3. SUFFICES ASSUME v.session # None
               PROVE  /\ Len(v.session.reading) <= Len(sh.reading)
                      /\ \/ c = sh \/ TypeOverConversion
                         \/ Blank(v) /\ (sec \/ v.suppressed)
                      /\ Tracks(v, c, sec, g)
  BY <1>2 DEF Open
<1>4. /\ c \in Contents /\ v.session.conv \in BOOLEAN
      /\ c.reading = v.session.reading /\ c.conv = v.session.conv
      /\ Blank(v) <=> c = Nothing
      /\ Blank(v) => v.session.reading = <<>> /\ v.session.conv = FALSE
  BY <1>2, <1>3, SessionContents
<1>5. sh.reading \in Seq(Letters) /\ Len(sh.reading) \in Nat /\ Len(<<>>) = 0
  BY DEF Contents, ShortReadings
<1> HIDE DEF c
<1>6. c = sh => Len(v.session.reading) <= Len(sh.reading)
  BY <1>4, <1>5
<1>7. Blank(v) => Len(v.session.reading) <= Len(sh.reading)
  BY <1>4, <1>5
\* A new session with nothing in it and nothing in the journal.
<1>8. ASSUME Blank(v), ~sec, ~v.suppressed, v.journal = <<>>
      PROVE  Tracks(v, c, sec, g) /\ (TypeOverConversion \/ c = sh)
  <2>1. /\ g[0] = <<>> /\ Len(v.journal) = 0 /\ Spells(v.journal, g)
        /\ TypeOverConversion \/ sh = Nothing
    BY <1>1, <1>8, EmptyTracks
  <2>2. c.reading = <<>> /\ c.conv = FALSE
    BY <1>4, <1>8
  <2> QED
    BY <1>4, <1>5, <1>8, <2>1, <2>2 DEF Tracks
<1>9. CASE Ready(w, p, sec) /\ w.observed = 0 /\ Blank(v)
  <2>1. c = sh
    BY <1>4, <1>9 DEF Fits, Unseen
  <2> QED
    BY <1>1, <1>6, <2>1
<1>10. CASE Ready(w, p, sec) /\ w.status = "OK" /\ w.session # None /\ SameText(w, v) /\ w.observed = w.gen
  <2>1. Screen(w.session) = c /\ (Blank(w) <=> Blank(v))
    BY <1>3, <1>10 DEF SameText, Screen, Blank, c
  <2>2. Blank(v) \/ c = sh
    BY <1>10, <2>1 DEF Fits, Home
  <2>3. CASE sec \/ v.suppressed
    BY <1>6, <1>7, <2>2, <2>3 DEF Tracks
  <2>4. CASE ~sec /\ ~v.suppressed
    <3>1. w.journal = v.journal /\ ~w.suppressed
      BY <1>10, <2>4 DEF Ready, SameJournal
    <3>2. c = sh \/ (TypeOverConversion /\ v.journal = <<>> /\ Blank(v))
      BY <1>10, <2>1, <2>4, <3>1 DEF Fits, Mirror
    <3> QED
      BY <1>1, <1>6, <1>7, <1>8, <2>4, <3>2
  <2> QED
    BY <2>3, <2>4
<1>11. CASE Renewed(w, p, sec)
  <2>1. Blank(v) /\ v.journal = <<>>
    BY <1>11 DEF Renewed
  <2>2. CASE sec \/ v.suppressed
    BY <1>7, <2>1, <2>2 DEF Tracks
  <2>3. CASE ~sec /\ ~v.suppressed
    BY <1>7, <1>8, <2>1, <2>3
  <2> QED
    BY <2>2, <2>3
<1>12. CASE Rebuilt(w, p, sec, g)
  <2> DEFINE x == g[Len(w.journal)]
  <2>1. /\ ~sec /\ ~w.suppressed /\ v.journal = w.journal /\ v.suppressed = w.suppressed
        /\ v.session.reading = x /\ v.session.conv = FALSE
    BY <1>12 DEF Rebuilt, SameJournal, Rewritten
  <2>2. /\ Spells(v.journal, g) /\ sh.conv = FALSE /\ Len(x) <= Len(sh.reading)
        /\ ~TypeOverConversion => x = sh.reading
    BY <1>1, <2>1 DEF Tracks
  <2>3. sh = [reading |-> sh.reading, conv |-> sh.conv] /\ c = [reading |-> c.reading, conv |-> c.conv]
    BY <1>4 DEF Contents
  <2>4. x \in ShortReadings
    BY <1>4, <2>1 DEF Contents
  <2>5. Len(x) <= Len(x)
    BY <2>4 DEF ShortReadings
  <2> HIDE DEF x
  <2>6. ~TypeOverConversion => c = sh
    BY <1>4, <2>1, <2>2, <2>3
  <2>7. Tracks(v, c, sec, g)
    BY <1>4, <2>1, <2>2, <2>5 DEF Tracks, x
  <2> QED
    BY <2>1, <2>2, <2>6, <2>7
<1> QED
  BY <1>3, <1>9, <1>10, <1>11, <1>12 DEF Readied, Unready, Ready

-----------------------------------------------------------------------------
(* A key.                                                                   *)

\* The key that is handed to the application takes the journal with it.
LEMMA FailUnconsumedOutcome ==
  ASSUME NEW w, Core(w), NEW sec \in BOOLEAN, NEW sh, NEW g,
         Unseen(w, sh), NEW f \in FailUnconsumed(w, sec)
  PROVE  /\ f.ok = FALSE /\ Core(f.w) /\ Quiet(w, f.w) /\ f.w.journal = <<>>
         /\ Fits(f.w, sh, sec, g)
<1>1. PICK v \in IF w.observed # 0 /\ w.gen = w.observed THEN Abort(w) ELSE {w} :
        f = [w |-> IF sec THEN ClearReading(v) ELSE SuppressReading(v),
             ok |-> FALSE, reply |-> EmptyReply]
  BY DEF FailUnconsumed
<1>2. Core(v) /\ Kept(w, v) /\ Quiet(w, v) /\ Clean(v)
  <2>1. CASE w.observed # 0 /\ w.gen = w.observed
    BY <1>1, <2>1, AbortOutcome
  <2>2. CASE ~(w.observed # 0 /\ w.gen = w.observed)
    <3>1. v = w
      BY <1>1, <2>2
    <3>2. w.status = "OK" => w.observed # w.gen
      BY <2>2, CoreCounters
    <3>3. Clean(w)
      BY <3>2, CoreClean
    <3> QED
      BY <3>1, <3>3 DEF Kept, Quiet
  <2> QED
    BY <2>1, <2>2
<1> DEFINE u == IF sec THEN ClearReading(v) ELSE SuppressReading(v)
<1>3. /\ Core(u) /\ Quiet(v, u) /\ u.journal = <<>> /\ u.observed = v.observed
      /\ u.status = v.status /\ u.session = v.session /\ (sec \/ u.suppressed)
  <2>1. CASE sec
    BY <1>2, <2>1, ClearedOutcome
  <2>2. CASE ~sec
    <3> DEFINE x == [SuppressReading(v) EXCEPT !.observed = v.observed]
    <3>1. v \in Worlds /\ v.observed \in Nat /\ v.observed <= v.observed
      BY <1>2 DEF Core, Worlds
    <3>2. x = SuppressReading(v)
      BY <3>1 DEF SuppressReading, Worlds
    <3>3. /\ Core(x) /\ Quiet(v, x) /\ x.journal = <<>> /\ x.suppressed = TRUE
          /\ x.observed = v.observed /\ x.status = v.status /\ x.session = v.session
      <4>1. Silenced(v, GivenUp(v, v.observed), v.observed)
        BY <1>2, <3>1, SuppressedOutcome
      <4>2. x = GivenUp(v, v.observed)
        BY DEF GivenUp
      <4> HIDE DEF x
      <4> QED
        BY <4>1, <4>2 DEF Silenced
    <3> HIDE DEF x
    <3>4. u = x
      BY <2>2, <3>2
    <3> QED
      BY <3>3, <3>4
  <2> QED
    BY <2>1, <2>2
<1>4. f.w = u /\ f.ok = FALSE
  BY <1>1
<1> HIDE DEF u
<1>5. Clean(u) /\ Quiet(w, u) /\ Unseen(u, sh) /\ Tracks(u, sh, sec, g)
  BY <1>2, <1>3 DEF Clean, Blank, Quiet, Unseen, Kept, Tracks
<1>6. Fits(u, sh, sec, g)
  BY <1>3, <1>5, CleanFits
<1> QED
  BY <1>3, <1>4, <1>5, <1>6

LEMMA SendKeyOutcome ==
  ASSUME NEW w, NEW sh \in Contents, NEW sec \in BOOLEAN, NEW g,
         Open(w, sh, sec, g), Tracks(w, sh, sec, g), NEW key \in Keys,
         key \in Letters => Len(sh.reading) < MaxLength, NEW c \in SendKey(w, key)
  PROVE  /\ Core(c.w) /\ Kept(w, c.w) /\ c.w.sends <= w.sends + 1
         /\ Typed(w, c, key) \/ (c.ok = FALSE /\ Fits(c.w, sh, sec, g))
<1>1. Core(w) /\ Stable(w) /\ w.observed = w.gen
  BY DEF Open
<1>2. Room(w, KeyRequest(key, TRUE))
  <2>1. SUFFICES ASSUME key \in Letters, w.session # None
                 PROVE  Len(w.session.reading) < MaxLength
    BY DEF Room, KeyRequest
  <2>2. Len(w.session.reading) <= Len(sh.reading)
    BY <2>1 DEF Open
  <2>3. Screen(w.session) \in Contents /\ Screen(w.session).reading = w.session.reading
    BY <1>1, <2>1, SessionContents
  <2>4. Len(w.session.reading) \in Nat /\ Len(sh.reading) \in Nat
    BY <2>3 DEF Contents, ShortReadings
  <2> QED
    BY <2>1, <2>2, <2>4, ConstantsAssumption
<1> DEFINE user == TRUE
<1>a. user = TRUE /\ user \in BOOLEAN
  OBVIOUS
<1>b. c \in EnsureCallCommand(w, KeyRequest(key, user)) /\ Room(w, KeyRequest(key, user))
  BY <1>2 DEF SendKey
<1> HIDE DEF user
<1>3. /\ Core(c.w) /\ Kept(w, c.w) /\ c.w.gen >= w.gen
      /\ c.w.sends \in {w.sends, w.sends + 1}
      /\ \/ Typed(w, c, key)
         \/ /\ c.ok = FALSE /\ c.reply = EmptyReply
            /\ c.w.status = "OK" => c.w.observed # c.w.gen
  BY <1>1, <1>a, <1>b, KeyOutcome
<1>4. w.sends \in Nat /\ w.observed \in Nat /\ w.observed # 0
  BY <1>1, CoreCounters DEF Core, Worlds, Stable
<1>5. c.w.sends <= w.sends + 1
  BY <1>3, <1>4
<1>6. ASSUME c.w.status = "OK" => c.w.observed # c.w.gen PROVE Fits(c.w, sh, sec, g)
  <2>1. Clean(c.w)
    BY <1>3, <1>6, CoreClean
  <2>2. Tracks(c.w, sh, sec, g) /\ Unseen(c.w, sh)
    BY <1>3, <1>4 DEF Kept, Tracks, Unseen
  <2> QED
    BY <1>3, <1>6, <2>1, <2>2, CleanFits
<1> QED
  BY <1>3, <1>5, <1>6

\* A key is answered by a session that was open for it, or by none.
Taken(w, d, key, sh, sec, g) ==
  /\ d.ok = TRUE
  /\ \E u : /\ Open(u, sh, sec, g) /\ Typed(u, d, key) /\ Kept(u, d.w)
            /\ u.suppressed => w.suppressed
Refused(d, sh, sec, g) ==
  d.ok = FALSE /\ Fits(d.w, sh, sec, g) /\ (sec => d.w.journal = <<>>)

LEMMA TypedOk ==
  ASSUME NEW w, NEW c, NEW key, Typed(w, c, key)
  PROVE  c.ok = TRUE
BY DEF Typed

LEMMA RetryOutcome ==
  ASSUME NEW w, Core(w), NEW sh \in Contents, NEW sec \in BOOLEAN, NEW g,
         Fits(w, sh, sec, g), NEW key \in Keys,
         key \in Letters => Len(sh.reading) < MaxLength, NEW d \in Retry(w, key, sec)
  PROVE  /\ Core(d.w) /\ (sec => d.w.sends = w.sends)
         /\ Taken(w, d, key, sh, sec, g) \/ Refused(d, sh, sec, g)
<1>1. CASE sec
  <2>1. d \in FailUnconsumed(w, sec) /\ Unseen(w, sh)
    BY <1>1 DEF Retry, Fits
  <2>2. /\ d.ok = FALSE /\ Core(d.w) /\ Quiet(w, d.w) /\ d.w.journal = <<>>
        /\ Fits(d.w, sh, sec, g)
    BY <2>1, FailUnconsumedOutcome
  <2> QED
    BY <2>2 DEF Refused, Quiet
<1>2. CASE ~sec
  <2>1. PICK p \in Prepare(w, sec) :
          d \in IF p.verdict # "changed" THEN FailUnconsumed(p.w, sec)
                ELSE UNION {IF c.ok THEN {c} ELSE FailUnconsumed(c.w, sec) :
                            c \in SendKey(p.w, key)}
    BY <1>2 DEF Retry
  <2>2. Readied(w, p, sec, g)
    BY <2>1, PrepareOutcome DEF Fits, Tracks, Legible
  <2>3. /\ Tracks(p.w, sh, sec, g) /\ Unseen(p.w, sh) /\ Core(p.w)
        /\ p.verdict # "failed" => (p.w.suppressed => w.suppressed)
    BY <2>2, ReadiedTracks DEF Readied
  <2>4. CASE p.verdict # "changed"
    <3>1. d \in FailUnconsumed(p.w, sec)
      BY <2>1, <2>4
    <3>2. d.ok = FALSE /\ Core(d.w) /\ d.w.journal = <<>> /\ Fits(d.w, sh, sec, g)
      BY <2>3, <3>1, FailUnconsumedOutcome
    <3> QED
      BY <1>2, <3>2 DEF Refused
  <2>5. CASE p.verdict = "changed"
    <3>1. PICK c \in SendKey(p.w, key) : d \in IF c.ok THEN {c} ELSE FailUnconsumed(c.w, sec)
      BY <2>1, <2>5
    <3>2. Open(p.w, sh, sec, g)
      BY <2>2, <2>5, ReadiedOpen
    <3>3. /\ Core(c.w) /\ Kept(p.w, c.w)
          /\ Typed(p.w, c, key) \/ (c.ok = FALSE /\ Fits(c.w, sh, sec, g))
      BY <2>3, <3>1, <3>2, SendKeyOutcome
    <3>4. CASE Typed(p.w, c, key)
      <4>1. c.ok = TRUE /\ d = c
        BY <3>1, <3>4, TypedOk
      <4> QED
        BY <1>2, <2>3, <2>5, <3>2, <3>3, <3>4, <4>1 DEF Taken
    <3>5. CASE c.ok = FALSE /\ Fits(c.w, sh, sec, g)
      <4>1. d \in FailUnconsumed(c.w, sec) /\ Unseen(c.w, sh)
        BY <3>1, <3>5 DEF Fits
      <4>2. d.ok = FALSE /\ Core(d.w) /\ d.w.journal = <<>> /\ Fits(d.w, sh, sec, g)
        BY <3>3, <4>1, FailUnconsumedOutcome
      <4> QED
        BY <1>2, <4>2 DEF Refused
    <3> QED
      BY <3>3, <3>4, <3>5
  <2> QED
    BY <2>4, <2>5
<1> QED
  BY <1>1, <1>2

LEMMA DispatchKeyOutcome ==
  ASSUME NEW w, Core(w), NEW sh \in Contents, NEW sec \in BOOLEAN, NEW g,
         Fits(w, sh, sec, g), NEW key \in Keys,
         key \in Letters => Len(sh.reading) < MaxLength, NEW d \in DispatchKey(w, key, sec)
  PROVE  /\ Core(d.w) /\ (sec => d.w.sends <= w.sends + 1)
         /\ Taken(w, d, key, sh, sec, g) \/ Refused(d, sh, sec, g)
<1>1. PICK p \in Prepare(w, sec) :
        d \in IF p.verdict = "failed" THEN FailUnconsumed(p.w, sec)
              ELSE UNION {IF c.ok THEN {c} ELSE Retry(c.w, key, sec) : c \in SendKey(p.w, key)}
  BY DEF DispatchKey
<1>2. Readied(w, p, sec, g)
  BY <1>1, PrepareOutcome DEF Fits, Tracks, Legible
<1>3. /\ Tracks(p.w, sh, sec, g) /\ Unseen(p.w, sh) /\ Core(p.w) /\ Quiet(w, p.w)
      /\ p.verdict # "failed" => (p.w.suppressed => w.suppressed)
  BY <1>2, ReadiedTracks DEF Readied
<1>4. p.w.sends = w.sends /\ w.sends \in Nat
  BY <1>3 DEF Quiet, Core, Worlds
<1>5. CASE p.verdict = "failed"
  <2>1. d \in FailUnconsumed(p.w, sec)
    BY <1>1, <1>5
  <2>2. /\ d.ok = FALSE /\ Core(d.w) /\ Quiet(p.w, d.w) /\ d.w.journal = <<>>
        /\ Fits(d.w, sh, sec, g)
    BY <1>3, <2>1, FailUnconsumedOutcome
  <2>3. d.w.sends <= w.sends + 1
    BY <1>4, <2>2 DEF Quiet
  <2> QED
    BY <2>2, <2>3 DEF Refused
<1>6. CASE p.verdict # "failed"
  <2>1. PICK c \in SendKey(p.w, key) : d \in IF c.ok THEN {c} ELSE Retry(c.w, key, sec)
    BY <1>1, <1>6
  <2>2. Open(p.w, sh, sec, g)
    BY <1>2, <1>6, ReadiedOpen
  <2>3. /\ Core(c.w) /\ Kept(p.w, c.w) /\ c.w.sends <= p.w.sends + 1
        /\ Typed(p.w, c, key) \/ (c.ok = FALSE /\ Fits(c.w, sh, sec, g))
    BY <1>3, <2>1, <2>2, SendKeyOutcome
  <2>4. CASE Typed(p.w, c, key)
    <3>1. c.ok = TRUE /\ d = c
      BY <2>1, <2>4, TypedOk
    <3> QED
      BY <1>3, <1>4, <1>6, <2>2, <2>3, <2>4, <3>1 DEF Taken
  <2>5. CASE c.ok = FALSE /\ Fits(c.w, sh, sec, g)
    <3>1. d \in Retry(c.w, key, sec)
      BY <2>1, <2>5
    <3>2. /\ Core(d.w) /\ (sec => d.w.sends = c.w.sends)
          /\ Taken(c.w, d, key, sh, sec, g) \/ Refused(d, sh, sec, g)
      BY <2>3, <2>5, <3>1, RetryOutcome
    <3>3. c.w.suppressed => w.suppressed
      BY <1>3, <1>6, <2>3 DEF Kept
    <3>4. Taken(c.w, d, key, sh, sec, g) => Taken(w, d, key, sh, sec, g)
      BY <3>3 DEF Taken
    <3> QED
      BY <1>4, <2>3, <3>2, <3>4
  <2> QED
    BY <2>3, <2>4, <2>5
<1> QED
  BY <1>5, <1>6

\* The mode is set, twice if need be.
LEMMA TryModeOutcome ==
  ASSUME NEW w, Core(w), NEW results,
         \A r \in results : Moved(w, r.w) /\ r.ok \in BOOLEAN /\ (r.ok => Stable(r.w)),
         NEW r \in TryMode(results)
  PROVE  Moved(w, r.w) /\ r.ok \in BOOLEAN /\ (r.ok => Stable(r.w))
<1>1. PICK a \in results :
        r \in IF a.ok THEN {a}
              ELSE UNION {IF e.ok THEN InitializeSession(e.w, e.w.gen) ELSE {e} :
                          e \in EnsureSession(a.w)}
  BY DEF TryMode
<1>2. Moved(w, a.w) /\ a.ok \in BOOLEAN /\ (a.ok => Stable(a.w)) /\ Core(a.w)
  BY <1>1 DEF Moved
<1>3. CASE a.ok
  BY <1>1, <1>2, <1>3
<1>4. CASE ~a.ok
  <2>1. PICK e \in EnsureSession(a.w) :
          r \in IF e.ok THEN InitializeSession(e.w, e.w.gen) ELSE {e}
    BY <1>1, <1>4
  <2>2. Moved(a.w, e.w) /\ e.ok = (e.w.status = "OK") /\ Core(e.w)
    BY <1>2, <2>1, EnsureSessionMoved DEF Moved
  <2>3. Moved(w, e.w)
    BY <1>2, <2>2, MovedTransitive
  <2>4. CASE e.w.status = "OK"
    <3>1. r \in InitializeSession(e.w, e.w.gen)
      BY <2>1, <2>2, <2>4
    <3>2. Moved(e.w, r.w) /\ r.ok \in BOOLEAN /\ (r.ok => Stable(r.w))
      BY <2>2, <2>4, <3>1, InitializeSessionOutcome
    <3> QED
      BY <2>3, <3>2, MovedTransitive
  <2>5. CASE e.w.status # "OK"
    <3>1. r = e
      BY <2>1, <2>2, <2>5
    <3> QED
      BY <2>2, <2>3, <2>5, <3>1
  <2> QED
    BY <2>4, <2>5
<1> QED
  BY <1>3, <1>4

LEMMA ApplyInitialModeOutcome ==
  ASSUME NEW w, Core(w), NEW r \in ApplyInitialMode(w)
  PROVE  Moved(w, r.w) /\ r.ok \in BOOLEAN /\ (r.ok => Stable(r.w))
<1> DEFINE a == Result(w, FALSE)
           start == {a}
           once == TryMode(start)
<1>1. \A x \in start : Moved(w, x.w) /\ x.ok \in BOOLEAN /\ (x.ok => Stable(x.w))
  <2>1. Moved(w, w)
    BY MovedReflexive
  <2>2. a.w = w /\ a.ok = FALSE /\ a.ok \in BOOLEAN
    BY DEF Result
  <2> HIDE DEF a
  <2> QED
    BY <2>1, <2>2
<1> HIDE DEF start
<1>2. \A x \in once : Moved(w, x.w) /\ x.ok \in BOOLEAN /\ (x.ok => Stable(x.w))
  BY <1>1, TryModeOutcome
<1> HIDE DEF once
<1>3. r \in TryMode(once)
  BY DEF ApplyInitialMode, once, start, a
<1> QED
  BY <1>2, <1>3, TryModeOutcome

LEMMA SentKeyOutcome ==
  ASSUME NEW w, Core(w), NEW sh \in Contents, NEW sec \in BOOLEAN, NEW g,
         Fits(w, sh, sec, g), sec => w.journal = <<>>, NEW key \in Keys,
         key \in Letters => Len(sh.reading) < MaxLength, NEW d \in SentKey(w, key, sec)
  PROVE  /\ Core(d.w) /\ (sec => d.w.sends <= w.sends + 1)
         /\ Taken(w, d, key, sh, sec, g) \/ Refused(d, sh, sec, g)
<1>1. PICK r \in ApplyInitialMode(w) :
        d \in IF ~r.ok THEN {[w |-> r.w, ok |-> FALSE, reply |-> EmptyReply]}
              ELSE UNION {IF c.ok THEN DispatchKey(c.w, key, sec)
                          ELSE {[w |-> c.w, ok |-> FALSE, reply |-> EmptyReply]} :
                          c \in EnsureConnection(r.w)}
  BY DEF SentKey
<1>2. Moved(w, r.w) /\ r.ok \in BOOLEAN /\ (r.ok => Stable(r.w))
  BY <1>1, ApplyInitialModeOutcome
<1>3. /\ Core(r.w) /\ r.w.journal = w.journal /\ r.w.suppressed = w.suppressed
      /\ Quiet(w, r.w) /\ Fits(r.w, sh, sec, g)
  BY <1>2, MovedCounters, MovedFits
<1>4. r.w.sends = w.sends /\ w.sends \in Nat
  BY <1>3 DEF Quiet, Core, Worlds
<1>5. CASE ~r.ok
  <2>1. d = [w |-> r.w, ok |-> FALSE, reply |-> EmptyReply]
    BY <1>1, <1>5
  <2>2. d.w = r.w /\ d.ok = FALSE
    BY <2>1
  <2>3. Refused(d, sh, sec, g)
    BY <1>3, <2>2 DEF Refused
  <2> QED
    BY <1>3, <1>4, <2>2, <2>3
<1>6. CASE r.ok
  <2>1. PICK c \in EnsureConnection(r.w) :
          d \in IF c.ok THEN DispatchKey(c.w, key, sec)
                ELSE {[w |-> c.w, ok |-> FALSE, reply |-> EmptyReply]}
    BY <1>1, <1>6
  <2>2. c = Result(r.w, TRUE)
    BY <1>2, <1>3, <1>6, <2>1, EnsureConnectionOutcome DEF Stable, Core, Sane
  <2>3. c.w = r.w /\ c.ok = TRUE
    BY <2>2 DEF Result
  <2>4. d \in DispatchKey(r.w, key, sec)
    BY <2>1, <2>3
  <2>5. /\ Core(d.w) /\ (sec => d.w.sends <= r.w.sends + 1)
        /\ Taken(r.w, d, key, sh, sec, g) \/ Refused(d, sh, sec, g)
    BY <1>3, <2>4, DispatchKeyOutcome
  <2>6. Taken(r.w, d, key, sh, sec, g) => Taken(w, d, key, sh, sec, g)
    BY <1>3 DEF Taken
  <2> QED
    BY <1>4, <2>5, <2>6
<1> QED
  BY <1>2, <1>5, <1>6

-----------------------------------------------------------------------------
(* A command.                                                               *)

\* Run by the server in the session of w, or not answered, and then the world
\* is left as one that the next Prepare repairs.
Obeyed(w, c, req) ==
  /\ Core(c.w) /\ Kept(w, c.w) /\ Effects(w, c.w, req) /\ c.w.sends = w.sends
  /\ \/ Done(w, c, req) /\ c.w.gen = w.gen /\ Stable(c.w)
     \/ /\ c.ok = FALSE /\ c.reply = EmptyReply
        /\ c.w.status = "OK" => c.w.observed # c.w.gen

LEMMA CommandOutcome ==
  ASSUME NEW w, Core(w), Stable(w), NEW req, req.type \in SessionTypes,
         NEW c \in EnsureCallCommand(w, req)
  PROVE  Obeyed(w, c, req)
<1>1. w.status = "OK" /\ w.id = "some" /\ IsSessionRequest(req) /\ Room(w, req) /\ req.type # "KEY"
  BY DEF Stable, Core, Sane, IsSessionRequest, Room, SessionTypes
<1>2. Done(w, c, req) \/ Idle(w, c) \/ Broken(w, c, req)
  BY <1>1, EnsureCallCommandOutcome DEF Core, Sane
<1>3. CASE Done(w, c, req)
  <2>1. Core(c.w) /\ Kept(w, c.w) /\ c.w.gen = w.gen /\ c.w.initial = w.initial
    BY <1>1, <1>3, DoneCore
  <2>2. Effects(w, c.w, req) /\ c.w.status = "OK"
    BY <1>3 DEF Done
  <2> QED
    BY <1>1, <1>3, <2>1, <2>2 DEF Effects, Stable, Obeyed
<1>4. CASE Broken(w, c, req)
  <2>1. /\ Core(c.w) /\ Kept(w, c.w)
        /\ c.w.status = "OK" => c.w.observed # c.w.gen
    BY <1>1, <1>4, BrokenCore
  <2>2. Effects(w, c.w, req) /\ c.ok = FALSE /\ c.reply = EmptyReply
    BY <1>4 DEF Broken
  <2> QED
    BY <1>1, <2>1, <2>2 DEF Effects, Obeyed
<1> QED
  BY <1>1, <1>2, <1>3, <1>4 DEF Idle

LEMMA EmptySpells == \E g : Spells(<<>>, g)
<1> DEFINE g == [n \in 0..0 |-> <<>>]
<1>1. Len(<<>>) = 0 /\ <<>> \in ShortReadings
  BY EmptySequences
<1>2. g \in [0..0 -> ShortReadings] /\ g[0] = <<>>
  BY <1>1
<1> HIDE DEF g
<1>3. Spells(<<>>, g)
  BY <1>1, <1>2 DEF Spells
<1> QED
  BY <1>3

\* With an empty journal, and nothing in the session, Prepare finds no reading.
LEMMA ReadiedEmpty ==
  ASSUME NEW w, Core(w), w.journal = <<>>, NEW sec \in BOOLEAN, NEW g,
         NEW p, Readied(w, p, sec, g)
  PROVE  /\ Core(p.w) /\ p.w.journal = <<>> /\ p.w.sends = w.sends
         /\ p.verdict # "ready" \/ Clean(w) => Clean(p.w)
         /\ p.verdict = "ready" => Stable(p.w)
         /\ p.verdict = "changed" => p.reply = EmptyReply
<1>1. Core(p.w) /\ p.w.sends = w.sends /\ ~Rebuilt(w, p, sec, g)
  BY DEF Readied, Quiet, Rebuilt
<1>2. CASE Unready(w, p, sec)
  <2>1. p.verdict = "failed" /\ p.w.journal = <<>> /\ (p.w.status = "OK" => p.w.observed # p.w.gen)
    BY <1>2 DEF Unready, SameJournal
  <2>2. Clean(p.w)
    BY <1>1, <2>1, CoreClean
  <2> QED
    BY <1>1, <2>1, <2>2
<1>3. CASE Ready(w, p, sec) /\ Stable(p.w)
  <2>1. p.verdict = "ready" /\ p.w.journal = <<>>
    BY <1>3 DEF Ready, SameJournal
  <2>2. Clean(w) => Clean(p.w)
    BY <1>3 DEF Ready, Clean, Blank, SameText
  <2> QED
    BY <1>1, <1>3, <2>1, <2>2
<1>4. CASE Renewed(w, p, sec)
  BY <1>1, <1>4 DEF Renewed, Clean
<1> QED
  BY <1>1, <1>2, <1>3, <1>4 DEF Readied

LEMMA EmptyCommandOutcome ==
  ASSUME NEW w, Core(w), w.journal = <<>>, NEW sec \in BOOLEAN, NEW type \in SessionTypes,
         type \in {"REVERT", "SUBMIT"} \/ Clean(w), NEW r \in TrySendRawCommand(w, type, sec)
  PROVE  Core(r.w) /\ r.w.journal = <<>> /\ r.w.sends = w.sends /\ Clean(r.w)
<1>1. PICK g : Spells(<<>>, g)
  BY EmptySpells
<1>2. PICK p \in Prepare(w, sec) :
        r \in IF p.verdict # "ready" THEN {Dropped(p)}
              ELSE UNION {IF c.ok THEN {c} ELSE {Dropped(q) : q \in Prepare(c.w, sec)} :
                          c \in EnsureCallCommand(p.w, Request(type))}
  BY DEF TrySendRawCommand
<1>3. Readied(w, p, sec, g)
  BY <1>1, <1>2, PrepareOutcome DEF Legible
<1>4. /\ Core(p.w) /\ p.w.journal = <<>> /\ p.w.sends = w.sends
      /\ p.verdict # "ready" \/ Clean(w) => Clean(p.w)
      /\ p.verdict = "ready" => Stable(p.w)
  BY <1>3, ReadiedEmpty
<1>5. CASE p.verdict # "ready"
  <2>1. r.w = p.w
    BY <1>2, <1>5 DEF Dropped
  <2> QED
    BY <1>4, <1>5, <2>1
<1>6. CASE p.verdict = "ready"
  <2> DEFINE req == Request(type)
  <2>1. PICK c \in EnsureCallCommand(p.w, req) :
          r \in IF c.ok THEN {c} ELSE {Dropped(q) : q \in Prepare(c.w, sec)}
    BY <1>2, <1>6
  <2>2. req.type = type
    BY DEF Request
  <2> HIDE DEF req
  <2>3. /\ Core(c.w) /\ Kept(p.w, c.w) /\ c.w.sends = p.w.sends
        /\ \/ Done(p.w, c, req)
           \/ /\ c.ok = FALSE /\ c.reply = EmptyReply
              /\ c.w.status = "OK" => c.w.observed # c.w.gen
    BY <1>4, <1>6, <2>1, <2>2, CommandOutcome DEF Obeyed
  <2>4. c.w.journal = <<>>
    BY <1>4, <2>3 DEF Kept
  <2>5. CASE Done(p.w, c, req)
    <3>1. c.ok = TRUE /\ p.w.session # None /\ Answered(p.w, c, req)
      BY <2>5 DEF Done
    <3>2. r = c
      BY <2>1, <3>1
    <3>3. Clean(w) => p.w.session.reading = <<>> /\ ~p.w.session.conv
      BY <1>4, <1>6, <3>1 DEF Clean, Blank, Stable
    <3>4. c.w.session.reading = <<>> /\ ~c.w.session.conv
      BY <2>2, <3>1, <3>3 DEF Answered, SessionTypes
    <3> QED
      BY <1>4, <2>3, <2>4, <3>2, <3>4 DEF Clean, Blank
  <2>6. CASE c.ok = FALSE /\ (c.w.status = "OK" => c.w.observed # c.w.gen)
    <3>1. PICK q \in Prepare(c.w, sec) : r = Dropped(q)
      BY <2>1, <2>6
    <3>2. Clean(c.w)
      BY <2>3, <2>6, CoreClean
    <3>3. Readied(c.w, q, sec, g)
      BY <1>1, <2>3, <2>4, <3>1, PrepareOutcome DEF Legible
    <3>4. Core(q.w) /\ q.w.journal = <<>> /\ q.w.sends = c.w.sends /\ Clean(q.w)
      BY <2>3, <2>4, <3>2, <3>3, ReadiedEmpty
    <3>5. r.w = q.w
      BY <3>1 DEF Dropped
    <3> QED
      BY <1>4, <2>3, <3>4, <3>5
  <2> QED
    BY <2>3, <2>5, <2>6
<1> QED
  BY <1>5, <1>6

\* A command of the user that is answered: by the session that the screen
\* shows, by an empty one, or with the reading that has been typed again.
Commanded(w, r, sh, sec, g) ==
  LET s == r.w.session
  IN  /\ r.ok = TRUE /\ Stable(r.w) /\ s # None /\ r.w.observed = r.w.gen
      /\ r.reply.reading = s.reading /\ r.reply.conv = s.conv /\ r.reply.result = FALSE
      /\ Tracks(r.w, Screen(s), sec, g)
      /\ \/ s.reading = sh.reading \/ TypeOverConversion
         \/ Screen(s) = Nothing /\ (sec \/ w.suppressed)

IsDropped(r, p) == r = Dropped(p)

LEMMA DroppedOutcome ==
  ASSUME NEW w, Core(w), NEW sh \in Contents, NEW sec \in BOOLEAN, NEW g,
         Fits(w, sh, sec, g), NEW p, Readied(w, p, sec, g), NEW r, IsDropped(r, p)
  PROVE  /\ Core(r.w) /\ Quiet(w, r.w) /\ (sec => r.w.journal = <<>>)
         /\ Commanded(w, r, sh, sec, g) \/ (r.ok = FALSE /\ Fits(r.w, sh, sec, g))
<1>1. r.w = p.w /\ r.reply = p.reply /\ r.ok = (p.verdict = "changed" /\ p.reply.consumed)
  BY DEF Dropped, IsDropped
<1>2. Core(r.w) /\ Quiet(w, r.w)
  BY <1>1 DEF Readied
<1>3. sec => r.w.journal = <<>>
  BY <1>1 DEF Readied, Unready, Ready, Renewed, Rebuilt, SameJournal
<1>4. CASE Rebuilt(w, p, sec, g)
  <2>1. /\ p.verdict = "changed" /\ ~sec /\ ~w.suppressed
        /\ p.w.journal = w.journal /\ p.w.suppressed = w.suppressed
        /\ p.w.session # None /\ p.w.session.reading = g[Len(w.journal)] /\ p.w.session.conv = FALSE
        /\ p.reply.reading = g[Len(w.journal)] /\ p.reply.conv = FALSE
        /\ p.reply.consumed = TRUE /\ p.reply.result = FALSE
    BY <1>4 DEF Rebuilt, Rewritten, SameJournal
  <2>2. Stable(p.w) /\ p.w.observed = p.w.gen /\ Open(p.w, sh, sec, g)
    BY <2>1, ReadiedOpen DEF Open
  <2>3. Tracks(p.w, Screen(p.w.session), sec, g)
    BY <2>1, <2>2 DEF Open
  <2>4. ~TypeOverConversion => g[Len(w.journal)] = sh.reading
    BY <2>1 DEF Fits, Tracks
  <2>5. r.ok = TRUE
    BY <1>1, <2>1
  <2>6. Commanded(w, r, sh, sec, g)
    BY <1>1, <2>1, <2>2, <2>3, <2>4, <2>5 DEF Commanded
  <2> QED
    BY <1>2, <1>3, <2>1, <2>6
<1>5. CASE ~Rebuilt(w, p, sec, g)
  <2>1. Fits(p.w, sh, sec, g)
    BY <1>5, ReadiedFits
  <2>2. p.reply = EmptyReply
    BY <1>5 DEF Readied, Unready, Ready, Renewed
  <2>3. r.ok = FALSE
    BY <1>1, <2>2, EmptyReplyType
  <2> QED
    BY <1>1, <1>2, <1>3, <2>1, <2>3
<1> QED
  BY <1>4, <1>5

LEMMA SendCommandOutcome ==
  ASSUME NEW w, Core(w), NEW sh \in Contents, NEW sec \in BOOLEAN, NEW g,
         Fits(w, sh, sec, g), w.ran = {}, NEW r \in TrySendRawCommand(w, "COMMAND", sec)
  PROVE  /\ Core(r.w) /\ (sec => r.w.journal = <<>>) /\ r.w.sends = w.sends
         /\ \A x \in r.w.ran : x[1] = w.view \/ x[2] = <<>>
         /\ \/ Commanded(w, r, sh, sec, g)
            \/ r.ok = FALSE /\ Fits(r.w, sh, sec, g)
<1> DEFINE req == Request("COMMAND")
<1>1. req.type = "COMMAND" /\ req.type \in SessionTypes
  BY DEF Request, SessionTypes
<1>2. PICK p \in Prepare(w, sec) :
        r \in IF p.verdict # "ready" THEN {Dropped(p)}
              ELSE UNION {IF c.ok THEN {c} ELSE {Dropped(q) : q \in Prepare(c.w, sec)} :
                          c \in EnsureCallCommand(p.w, req)}
  BY DEF TrySendRawCommand
<1> HIDE DEF req
<1>3. Readied(w, p, sec, g)
  BY <1>2, PrepareOutcome DEF Fits, Tracks, Legible
<1>4. CASE p.verdict # "ready"
  <2>1. IsDropped(r, p)
    BY <1>2, <1>4 DEF IsDropped
  <2>2. /\ Core(r.w) /\ Quiet(w, r.w) /\ (sec => r.w.journal = <<>>)
        /\ Commanded(w, r, sh, sec, g) \/ (r.ok = FALSE /\ Fits(r.w, sh, sec, g))
    BY <1>3, <2>1, DroppedOutcome
  <2> QED
    BY <2>2 DEF Quiet
<1>5. CASE p.verdict = "ready"
  <2>1. PICK c \in EnsureCallCommand(p.w, req) :
          r \in IF c.ok THEN {c} ELSE {Dropped(q) : q \in Prepare(c.w, sec)}
    BY <1>2, <1>5
  <2>2. Ready(w, p, sec) /\ Stable(p.w) /\ p.w.observed = p.w.gen
    BY <1>3, <1>5 DEF Readied, Unready, Renewed, Rebuilt
  <2>3. /\ Core(p.w) /\ p.w.view = w.view /\ p.w.ran = {} /\ p.w.sends = w.sends
        /\ ~Rebuilt(w, p, sec, g)
    BY <1>3, <1>5 DEF Readied, Quiet, Rebuilt
  <2>4. Fits(p.w, sh, sec, g)
    BY <1>3, <2>3, ReadiedFits
  <2>5. (p.w.suppressed => w.suppressed) /\ (sec => p.w.journal = <<>>)
    BY <2>2 DEF Ready, SameJournal
  <2>6. /\ Core(c.w) /\ Kept(p.w, c.w) /\ Effects(p.w, c.w, req) /\ c.w.sends = p.w.sends
        /\ \/ Done(p.w, c, req) /\ c.w.gen = p.w.gen /\ Stable(c.w)
           \/ /\ c.ok = FALSE /\ c.reply = EmptyReply
              /\ c.w.status = "OK" => c.w.observed # c.w.gen
    <3>1. Core(p.w) /\ Stable(p.w)
      BY <2>2, <2>3
    <3>2. Obeyed(p.w, c, req)
      BY <1>1, <2>1, <3>1, CommandOutcome
    <3> QED
      BY <3>2 DEF Obeyed
  <2>7. \A x \in c.w.ran : x[1] = w.view \/ x[2] = <<>>
    <3>1. SUFFICES ASSUME NEW x \in c.w.ran PROVE x[1] = w.view \/ x[2] = <<>>
      OBVIOUS
    <3>2. p.w.session # None /\ x = <<p.w.session.no, p.w.session.reading>>
      BY <2>3, <2>6, <3>1 DEF Effects
    <3>3. Blank(p.w) \/ p.w.session.no = p.w.view
      BY <2>2, <2>4, <3>2 DEF Fits, Home, Stable
    <3> QED
      BY <2>3, <3>2, <3>3 DEF Blank
  <2>8. CASE Done(p.w, c, req) /\ c.w.gen = p.w.gen /\ Stable(c.w)
    <3> DEFINE s == p.w.session
               t == c.w.session
    <3>1. /\ c.ok = TRUE /\ s # None /\ t \in OpenSessions
          /\ c.reply.reading = t.reading /\ c.reply.conv = t.conv
          /\ t.reading = s.reading /\ t.conv = s.conv /\ ~c.reply.result /\ c.reply \in Replies
      BY <1>1, <2>8 DEF Done, Answered
    <3>2. /\ t # None /\ Screen(t) = Screen(s) /\ c.reply.result = FALSE
          /\ c.w.observed = c.w.gen /\ c.w.journal = p.w.journal /\ c.w.suppressed = p.w.suppressed
      BY <2>2, <2>6, <2>8, <3>1, NoneIsNoSession DEF Screen, Replies, Kept
    <3>3. Open(p.w, sh, sec, g)
      BY <1>3, <1>5, ReadiedOpen
    <3>4. /\ Screen(s) = sh \/ TypeOverConversion \/ (Blank(p.w) /\ (sec \/ p.w.suppressed))
          /\ Tracks(p.w, Screen(s), sec, g)
      BY <3>1, <3>3 DEF Open
    <3>5. /\ Screen(s).reading = s.reading
          /\ Blank(p.w) => Screen(s) = Nothing
      BY <2>3, <3>1, SessionContents
    <3>6. Tracks(c.w, Screen(t), sec, g)
      BY <3>2, <3>4 DEF Tracks
    <3>7. \/ t.reading = sh.reading \/ TypeOverConversion
          \/ Screen(t) = Nothing /\ (sec \/ w.suppressed)
      BY <2>5, <3>1, <3>2, <3>4, <3>5
    <3>8. r = c
      BY <2>1, <3>1
    <3>9. Commanded(w, c, sh, sec, g)
      BY <2>8, <3>1, <3>2, <3>6, <3>7 DEF Commanded
    <3> QED
      BY <2>3, <2>5, <2>6, <2>7, <3>2, <3>8, <3>9
  <2>9. CASE c.ok = FALSE /\ (c.w.status = "OK" => c.w.observed # c.w.gen)
    <3>1. PICK q \in Prepare(c.w, sec) : IsDropped(r, q)
      BY <2>1, <2>9 DEF IsDropped
    <3>2. Clean(c.w) /\ Tracks(c.w, sh, sec, g) /\ Unseen(c.w, sh)
      BY <2>4, <2>6, <2>9, CoreClean DEF Fits, Tracks, Unseen, Kept
    <3>3. Fits(c.w, sh, sec, g)
      BY <2>6, <2>9, <3>2, CleanFits
    <3>4. Readied(c.w, q, sec, g)
      BY <2>6, <3>1, <3>3, PrepareOutcome DEF Fits, Tracks, Legible
    <3>5. /\ Core(r.w) /\ Quiet(c.w, r.w) /\ (sec => r.w.journal = <<>>)
          /\ Commanded(c.w, r, sh, sec, g) \/ (r.ok = FALSE /\ Fits(r.w, sh, sec, g))
      <4> DEFINE u == c.w
      <4>1. Core(u) /\ Fits(u, sh, sec, g) /\ Readied(u, q, sec, g)
        BY <2>6, <3>3, <3>4
      <4> HIDE DEF u
      <4>2. /\ Core(r.w) /\ Quiet(u, r.w) /\ (sec => r.w.journal = <<>>)
            /\ Commanded(u, r, sh, sec, g) \/ (r.ok = FALSE /\ Fits(r.w, sh, sec, g))
        BY <3>1, <4>1, DroppedOutcome
      <4> QED
        BY <4>2 DEF u
    <3>6. c.w.suppressed => w.suppressed
      BY <2>5, <2>6 DEF Kept
    <3>7. Commanded(c.w, r, sh, sec, g) => Commanded(w, r, sh, sec, g)
      BY <3>6 DEF Commanded
    <3> QED
      BY <2>3, <2>6, <2>7, <3>5, <3>7 DEF Quiet
  <2> QED
    BY <2>6, <2>8, <2>9
<1> QED
  BY <1>4, <1>5

-----------------------------------------------------------------------------
(* The answer on the screen.                                                *)

LEMMA RenderedOutcome ==
  ASSUME NEW r, Core(r.w), r.reply.result \in BOOLEAN
  PROVE  LET v == Rendered(r)
         IN  /\ Core(v) /\ Quiet(r.w, v) /\ v.session = r.w.session
             /\ v.status = r.w.status /\ v.gen = r.w.gen /\ v.initial = r.w.initial
             /\ v.observed = r.w.observed
             /\ v.session # None => v.view = v.session.no
             /\ IF r.reply.result THEN v.journal = <<>> /\ v.suppressed = FALSE
                ELSE v.journal = r.w.journal /\ v.suppressed = r.w.suppressed
<1> DEFINE u == IF r.reply.result THEN ClearReading(r.w) ELSE r.w
           n == IF u.session = None THEN 0 ELSE u.session.no
           v == [u EXCEPT !.view = n]
<1>1. /\ Core(u) /\ Quiet(r.w, u) /\ u.session = r.w.session /\ u.status = r.w.status
      /\ u.gen = r.w.gen /\ u.initial = r.w.initial /\ u.observed = r.w.observed
      /\ IF r.reply.result THEN u.journal = <<>> /\ u.suppressed = FALSE
         ELSE u.journal = r.w.journal /\ u.suppressed = r.w.suppressed
  <2>1. CASE r.reply.result
    BY <2>1, ClearedOutcome
  <2>2. CASE ~r.reply.result
    BY <2>2 DEF Quiet
  <2> QED
    BY <2>1, <2>2
<1> HIDE DEF u
<1>2. u \in Worlds
  BY <1>1 DEF Core
<1>3. n \in 0..2
  BY <1>2 DEF Worlds, OpenSessions
<1>4. v \in Worlds
  BY <1>2, <1>3 DEF Worlds
<1>5. /\ v.up = u.up /\ v.session = u.session /\ v.status = u.status /\ v.id = u.id
      /\ v.gen = u.gen /\ v.journal = u.journal /\ v.suppressed = u.suppressed
      /\ v.observed = u.observed /\ v.initial = u.initial /\ v.view = n
      /\ v.ran = u.ran /\ v.sends = u.sends /\ v.direct = u.direct
  BY <1>2 DEF Worlds
<1>6. v = Rendered(r)
  BY DEF Rendered, u
<1> HIDE DEF v
<1>7. Core(v)
  BY <1>1, <1>4, <1>5 DEF Core, Sane, Standing, Sound, Blank
<1>8. Quiet(r.w, v)
  BY <1>1, <1>5 DEF Quiet
<1>9. v.session # None => v.view = v.session.no
  BY <1>5
<1> QED
  BY <1>1, <1>5, <1>6, <1>7, <1>8, <1>9

\* After it has been drawn the session is the one on the screen.
LEMMA DrawnFits ==
  ASSUME NEW w, Core(w), Stable(w), w.observed = w.gen, w.session # None,
         w.view = w.session.no, NEW sec, NEW g, Tracks(w, Screen(w.session), sec, g)
  PROVE  Fits(w, Screen(w.session), sec, g)
<1>1. w.observed # 0
  BY CoreCounters DEF Stable
<1> QED
  BY <1>1 DEF Fits, Unseen, Home, Mirror

\* A command that has been answered, when it has been drawn.
LEMMA CommandedFits ==
  ASSUME NEW w, NEW r, Core(r.w), NEW sh, NEW sec, NEW g, Commanded(w, r, sh, sec, g)
  PROVE  LET v == Rendered(r)
             t == [reading |-> r.reply.reading, conv |-> r.reply.conv]
         IN  /\ Core(v) /\ Quiet(r.w, v) /\ v.journal = r.w.journal
             /\ t \in Contents /\ Fits(v, t, sec, g)
             /\ \/ t.reading = sh.reading \/ TypeOverConversion
                \/ t = Nothing /\ (sec \/ w.suppressed)
<1> DEFINE v == Rendered(r)
           s == r.w.session
           t == [reading |-> r.reply.reading, conv |-> r.reply.conv]
<1>1. /\ Stable(r.w) /\ s # None /\ r.w.observed = r.w.gen
      /\ r.reply.reading = s.reading /\ r.reply.conv = s.conv /\ r.reply.result = FALSE
      /\ Tracks(r.w, Screen(s), sec, g)
      /\ \/ s.reading = sh.reading \/ TypeOverConversion
         \/ Screen(s) = Nothing /\ (sec \/ w.suppressed)
  BY DEF Commanded
<1>2. t = Screen(s)
  BY <1>1 DEF Screen
<1>3. t \in Contents
  BY <1>1, <1>2, SessionContents
<1>4. /\ Core(v) /\ Quiet(r.w, v) /\ v.session = s /\ v.status = r.w.status
      /\ v.gen = r.w.gen /\ v.initial = r.w.initial /\ v.observed = r.w.observed
      /\ v.view = s.no /\ v.journal = r.w.journal /\ v.suppressed = r.w.suppressed
  BY <1>1, RenderedOutcome
<1> HIDE DEF v
<1>5. Stable(v) /\ v.observed = v.gen /\ v.session # None /\ v.view = v.session.no
  BY <1>1, <1>4 DEF Stable
<1>6. Tracks(v, Screen(v.session), sec, g)
  BY <1>1, <1>4 DEF Tracks
<1>7. Fits(v, Screen(v.session), sec, g)
  BY <1>4, <1>5, <1>6, DrawnFits
<1>8. t.reading = s.reading
  BY <1>1
<1> HIDE DEF t
<1>9. Fits(v, t, sec, g)
  BY <1>2, <1>4, <1>7
<1>10. \/ t.reading = sh.reading \/ TypeOverConversion
       \/ t = Nothing /\ (sec \/ w.suppressed)
  BY <1>1, <1>2, <1>8
<1> QED
  BY <1>3, <1>4, <1>9, <1>10 DEF t, v

\* A shorter reading stays the shorter one.
LEMMA StrokeOutcome ==
  ASSUME NEW x \in ShortReadings, NEW y \in ShortReadings, Len(x) <= Len(y),
         NEW key \in Letters \cup {"BACKSPACE"}, key \in Letters => Len(y) < MaxLength
  PROVE  /\ Stroke(x, key) \in ShortReadings
         /\ Len(Stroke(x, key)) <= Len(Stroke(y, key))
<1>1. /\ x \in Seq(Letters) /\ y \in Seq(Letters) /\ Len(x) \in Nat /\ Len(y) \in Nat
      /\ Len(x) <= MaxLength /\ Len(y) <= MaxLength /\ MaxLength \in Nat
  BY ConstantsAssumption DEF ShortReadings
<1>2. CASE key \in Letters
  <2>1. Append(x, key) \in Seq(Letters) /\ Len(Append(x, key)) = Len(x) + 1
    BY <1>1, <1>2
  <2>2. Append(y, key) \in Seq(Letters) /\ Len(Append(y, key)) = Len(y) + 1
    BY <1>1, <1>2
  <2>3. Stroke(x, key) = Append(x, key) /\ Stroke(y, key) = Append(y, key)
    BY <1>2 DEF Stroke
  <2> QED
    BY <1>1, <1>2, <2>1, <2>2, <2>3 DEF ShortReadings
<1>3. CASE key \notin Letters
  <2>1. CASE x = <<>>
    <3>1. Stroke(x, key) = <<>> /\ Len(Stroke(x, key)) = 0
      BY <1>3, <2>1 DEF Stroke
    <3>2. Stroke(y, key) \in Seq(Letters)
      BY <1>1, <1>3, EmptySequences, FrontOutcome DEF Stroke
    <3>3. Len(Stroke(y, key)) >= 0
      BY <3>2
    <3> QED
      BY <3>1, <3>3, EmptySequences
  <2>2. CASE x # <<>>
    <3>1. Stroke(x, key) = Front(x) /\ Front(x) \in Seq(Letters) /\ Len(Front(x)) = Len(x) - 1
      BY <1>1, <1>3, <2>2, FrontOutcome DEF Stroke
    <3>2. Len(x) > 0
      BY <1>1, <2>2, EmptySeq
    <3>3. y # <<>>
      BY <1>1, <3>2
    <3>4. Stroke(y, key) = Front(y) /\ Len(Front(y)) = Len(y) - 1
      BY <1>1, <1>3, <3>3, FrontOutcome DEF Stroke
    <3> QED
      BY <1>1, <3>1, <3>2, <3>4 DEF ShortReadings
  <2> QED
    BY <2>1, <2>2
<1> QED
  BY <1>2, <1>3

LEMMA SpellsAppend ==
  ASSUME NEW j \in Seq(Letters \cup {"BACKSPACE"}), NEW g, Spells(j, g),
         NEW key \in Letters \cup {"BACKSPACE"}, Stroke(g[Len(j)], key) \in ShortReadings
  PROVE  \E h : /\ Spells(Append(j, key), h)
                /\ h[Len(Append(j, key))] = Stroke(g[Len(j)], key)
<1> DEFINE m == Len(j)
           k == Append(j, key)
           h == [n \in 0..(m + 1) |-> IF n = m + 1 THEN Stroke(g[m], key) ELSE g[n]]
<1>1. m \in Nat /\ Len(k) = m + 1 /\ k[m + 1] = key /\ \A n \in 1..m : k[n] = j[n]
  OBVIOUS
<1>2. /\ g \in [0..m -> ShortReadings] /\ g[0] = <<>>
      /\ \A n \in 1..m : g[n] = Stroke(g[n - 1], j[n])
  BY DEF Spells
<1> HIDE DEF m, k
<1>3. h \in [0..(m + 1) -> ShortReadings]
  <2>1. \A n \in 0..(m + 1) : n # m + 1 => n \in 0..m
    BY <1>1
  <2>2. Stroke(g[m], key) \in ShortReadings
    BY DEF m
  <2> QED
    BY <1>2, <2>1, <2>2
<1>4. h[0] = <<>>
  BY <1>1, <1>2
<1>5. ASSUME NEW n \in 1..(m + 1) PROVE h[n] = Stroke(h[n - 1], k[n])
  <2>1. n - 1 \in 0..(m + 1) /\ n - 1 # m + 1 /\ n \in 0..(m + 1)
    BY <1>1
  <2>2. h[n - 1] = g[n - 1]
    BY <2>1
  <2>3. CASE n = m + 1
    <3>1. n - 1 = m /\ k[n] = key
      BY <1>1, <2>3
    <3>2. h[n] = Stroke(g[m], key)
      BY <2>1, <2>3
    <3> QED
      BY <2>2, <3>1, <3>2
  <2>4. CASE n # m + 1
    <3>1. n \in 1..m
      BY <1>1, <2>4
    <3>2. h[n] = g[n]
      BY <2>1, <2>4
    <3>3. g[n] = Stroke(g[n - 1], j[n]) /\ k[n] = j[n]
      BY <1>1, <1>2, <3>1
    <3> QED
      BY <2>2, <3>2, <3>3
  <2> QED
    BY <2>3, <2>4
<1>6. h[Len(k)] = Stroke(g[m], key)
  BY <1>1
<1> HIDE DEF h
<1>7. Spells(k, h)
  BY <1>1, <1>3, <1>4, <1>5 DEF Spells
<1> QED
  BY <1>6, <1>7 DEF k, m

-----------------------------------------------------------------------------
(* The journal after a key.                                                 *)

\* A change of the journal alone.
Journalled(w, v) ==
  /\ Core(v) /\ Quiet(w, v) /\ v.session = w.session /\ v.status = w.status
  /\ v.gen = w.gen /\ v.initial = w.initial /\ v.observed = w.observed

LEMMA JournalOutcome ==
  ASSUME NEW w, Core(w), NEW j \in Seq(Letters \cup {"BACKSPACE"}), Len(j) <= MaxEventCount,
         NEW s \in BOOLEAN, s => j = <<>>
  PROVE  LET v == [w EXCEPT !.journal = j, !.suppressed = s]
         IN  Journalled(w, v) /\ v.journal = j /\ v.suppressed = s
<1> DEFINE v == [w EXCEPT !.journal = j, !.suppressed = s]
<1>1. w \in Worlds
  BY DEF Core
<1>2. v \in Worlds
  BY <1>1 DEF Worlds
<1>3. /\ v.up = w.up /\ v.session = w.session /\ v.status = w.status /\ v.id = w.id
      /\ v.gen = w.gen /\ v.journal = j /\ v.suppressed = s
      /\ v.observed = w.observed /\ v.initial = w.initial
      /\ v.ran = w.ran /\ v.sends = w.sends /\ v.direct = w.direct
  BY <1>1 DEF Worlds
<1> HIDE DEF v
<1>4. Core(v)
  BY <1>2, <1>3 DEF Core, Sane, Standing, Sound, Blank
<1>5. Quiet(w, v)
  BY <1>3 DEF Quiet
<1> QED
  BY <1>3, <1>4, <1>5 DEF v, Journalled

LEMMA GivenUpOutcome ==
  ASSUME NEW w, Core(w)
  PROVE  LET v == SuppressReading(w)
         IN  Journalled(w, v) /\ v.journal = <<>> /\ v.suppressed = TRUE
<1>1. MaxEventCount \in Nat /\ Len(<<>>) = 0
  BY ConstantsAssumption
<1>2. <<>> \in Seq(Letters \cup {"BACKSPACE"}) /\ Len(<<>>) <= MaxEventCount
  BY <1>1, EmptySequences
<1> QED
  BY <1>2, JournalOutcome DEF SuppressReading

LEMMA AppendedOutcome ==
  ASSUME NEW w, Core(w), ~w.suppressed, NEW key \in Letters \cup {"BACKSPACE"},
         ~(Len(w.journal) >= MaxEventCount)
  PROVE  LET v == [w EXCEPT !.journal = Append(@, key)]
         IN  /\ Journalled(w, v) /\ v.journal = Append(w.journal, key)
             /\ v.suppressed = FALSE
<1>1. /\ w \in Worlds /\ w.suppressed \in BOOLEAN
      /\ w.journal \in Seq(Letters \cup {"BACKSPACE"})
  BY DEF Core, Worlds
<1> DEFINE j == Append(w.journal, key)
<1>2. /\ j \in Seq(Letters \cup {"BACKSPACE"}) /\ Len(j) <= MaxEventCount
  BY <1>1, ConstantsAssumption
<1> HIDE DEF j
<1>3. LET v == [w EXCEPT !.journal = j, !.suppressed = FALSE]
      IN  Journalled(w, v) /\ v.journal = j /\ v.suppressed = FALSE
  BY <1>2, JournalOutcome
<1>4. [w EXCEPT !.journal = j, !.suppressed = FALSE] = [w EXCEPT !.journal = j]
  BY <1>1 DEF Worlds
<1>5. [w EXCEPT !.journal = j] = [w EXCEPT !.journal = Append(@, key)]
  BY DEF j
<1> QED
  BY <1>3, <1>4, <1>5 DEF j

LEMMA RecordOutcome ==
  ASSUME NEW w, Core(w), NEW key, NEW reply, NEW sec \in BOOLEAN
  PROVE  LET v == RecordSuccessfulKey(w, key, reply, sec)
         IN  /\ Journalled(w, v) /\ (sec => v.journal = <<>>)
             /\ \/ sec
                \/ ~reply.consumed /\ v = w
                \/ (reply.result \/ reply.reading = <<>>) /\ v.journal = <<>>
                \/ reply.consumed /\ ~reply.result /\ v.suppressed
                \/ /\ key \in Letters \cup {"BACKSPACE"} /\ ~w.suppressed
                   /\ reply.consumed /\ ~reply.result /\ reply.reading # <<>>
                   /\ v.journal = Append(w.journal, key) /\ v.suppressed = FALSE
<1> DEFINE v == RecordSuccessfulKey(w, key, reply, sec)
<1>1. Journalled(w, w)
  BY DEF Journalled, Quiet
<1>2. /\ Journalled(w, ClearReading(w)) /\ ClearReading(w).journal = <<>>
  BY ClearedOutcome DEF Journalled
<1>3. /\ Journalled(w, SuppressReading(w)) /\ SuppressReading(w).suppressed = TRUE
  BY GivenUpOutcome
<1>4. CASE sec
  <2>1. v = ClearReading(w)
    BY <1>4 DEF RecordSuccessfulKey
  <2> QED
    BY <1>2, <1>4, <2>1
<1>5. CASE ~sec /\ ~reply.consumed
  <2>1. v = w
    BY <1>5 DEF RecordSuccessfulKey
  <2> QED
    BY <1>1, <1>5, <2>1
<1>6. CASE ~sec /\ reply.consumed /\ (reply.result \/ reply.reading = <<>>)
  <2>1. v = ClearReading(w)
    BY <1>6 DEF RecordSuccessfulKey
  <2> QED
    BY <1>2, <1>6, <2>1
<1>7. CASE ~sec /\ reply.consumed /\ ~reply.result /\ reply.reading # <<>>
  <2>1. CASE key \notin Letters \cup {"BACKSPACE"}
    <3>1. v = SuppressReading(w)
      BY <1>7, <2>1 DEF RecordSuccessfulKey, IsRecoverableRawKey
    <3> QED
      BY <1>3, <1>7, <3>1
  <2>2. CASE key \in Letters \cup {"BACKSPACE"} /\ w.suppressed
    <3>1. v = w
      BY <1>7, <2>2 DEF RecordSuccessfulKey, IsRecoverableRawKey
    <3> QED
      BY <1>1, <1>7, <2>2, <3>1
  <2>3. CASE /\ key \in Letters \cup {"BACKSPACE"} /\ ~w.suppressed
             /\ Len(w.journal) >= MaxEventCount
    <3>1. v = SuppressReading(w)
      BY <1>7, <2>3 DEF RecordSuccessfulKey, IsRecoverableRawKey
    <3> QED
      BY <1>3, <1>7, <3>1
  <2>4. CASE /\ key \in Letters \cup {"BACKSPACE"} /\ ~w.suppressed
             /\ ~(Len(w.journal) >= MaxEventCount)
    <3>1. v = [w EXCEPT !.journal = Append(@, key)]
      BY <1>7, <2>4 DEF RecordSuccessfulKey, IsRecoverableRawKey
    <3>2. /\ Journalled(w, v) /\ v.journal = Append(w.journal, key) /\ v.suppressed = FALSE
      BY <2>4, <3>1, AppendedOutcome
    <3> QED
      BY <1>7, <2>4, <3>2
  <2> QED
    BY <2>1, <2>2, <2>3, <2>4
<1> QED
  BY <1>4, <1>5, <1>6, <1>7

\* A key that has been answered, when it has been recorded and drawn.
Recorded(w, key, reply, sec) ==
  Rendered([w |-> RecordSuccessfulKey(w, key, reply, sec), reply |-> reply])

LEMMA TakenEffect ==
  ASSUME NEW d, NEW key \in Keys, NEW sh \in Contents, NEW sec \in BOOLEAN, NEW g,
         NEW u, Open(u, sh, sec, g), Typed(u, d, key),
         key \in Letters => Len(sh.reading) < MaxLength /\ (sh.conv => TypeOverConversion)
  PROVE  LET s == u.session
             e == KeyEffect(s, key)
         IN  /\ s \in OpenSessions /\ e.reading \in ShortReadings /\ e.conv \in BOOLEAN
             /\ e.consumed \in BOOLEAN /\ e.result \in BOOLEAN
             /\ (e.result \/ e.reading = <<>>) => e.conv = FALSE
             /\ (e.result \/ e.reading = <<>>) /\ ~TypeOverConversion => e.reading = <<>>
             /\ ~e.consumed => /\ s.reading = <<>> /\ e.reading = <<>>
                               /\ e.conv = FALSE /\ e.result = FALSE
             /\ e.consumed /\ ~e.result /\ key \in Letters \cup {"BACKSPACE"} => e.conv = FALSE
             /\ e.consumed /\ ~s.conv /\ key \in Letters \cup {"BACKSPACE"} =>
                  e.reading = Stroke(s.reading, key)
             /\ key \in Letters => Len(s.reading) < MaxLength
<1> DEFINE s == u.session
           e == KeyEffect(s, key)
<1>1. /\ Core(u) /\ s # None /\ Len(s.reading) <= Len(sh.reading)
      /\ \/ Screen(s) = sh \/ TypeOverConversion \/ Blank(u)
  BY DEF Open, Typed
<1>2. s \in OpenSessions
  BY <1>1 DEF Core, Worlds
<1>3. s.reading \in ShortReadings /\ s.conv \in BOOLEAN
  BY <1>2 DEF OpenSessions
<1>4. Len(s.reading) \in Nat /\ Len(sh.reading) \in Nat /\ MaxLength \in Nat
  BY <1>3, ConstantsAssumption DEF ShortReadings, Contents
<1>5. key \in Letters => Len(s.reading) < MaxLength
  BY <1>1, <1>4
<1>6. (key \in Letters /\ s.conv) => TypeOverConversion
  BY <1>1, <1>3 DEF Screen, Blank
<1> HIDE DEF s
<1>7. /\ e \in [reading : ShortReadings, conv : BOOLEAN, consumed : BOOLEAN, result : BOOLEAN]
      /\ key \in Letters =>
           /\ e.reading = IF s.conv THEN <<key>> ELSE Append(s.reading, key)
           /\ e.consumed /\ ~e.conv /\ e.result = s.conv
      /\ key \notin Letters /\ s.reading = <<>> =>
           e.reading = <<>> /\ ~e.conv /\ ~e.consumed /\ ~e.result
      /\ key = "CONVERT" /\ s.reading # <<>> =>
           e.reading = s.reading /\ e.conv /\ e.consumed /\ ~e.result
      /\ key = "ENTER" /\ s.reading # <<>> =>
           e.reading = <<>> /\ ~e.conv /\ e.consumed /\ e.result
      /\ key = "BACKSPACE" /\ s.reading # <<>> =>
           /\ e.reading = IF s.conv THEN s.reading ELSE Front(s.reading)
           /\ e.consumed /\ ~e.conv /\ ~e.result
  BY <1>3, <1>5, KeyEffectOutcome
<1> HIDE DEF e
<1>8. /\ e.reading \in ShortReadings /\ e.conv \in BOOLEAN
      /\ e.consumed \in BOOLEAN /\ e.result \in BOOLEAN
  BY <1>7
<1>9. key \in Letters \/ key = "CONVERT" \/ key = "ENTER" \/ key = "BACKSPACE"
  BY DEF Keys
<1>10. key \in Letters => e.reading # <<>>
  <2>1. s.reading \in Seq(Letters)
    BY <1>3 DEF ShortReadings
  <2>2. ASSUME key \in Letters PROVE Append(s.reading, key) # <<>> /\ <<key>> # <<>>
    <3>1. Len(Append(s.reading, key)) = Len(s.reading) + 1 /\ Len(<<key>>) = 1 /\ Len(<<>>) = 0
      BY <2>1, <2>2
    <3> QED
      BY <1>4, <3>1
  <2> QED
    BY <1>7, <2>2
<1>11. (e.result \/ e.reading = <<>>) => e.conv = FALSE
  BY <1>7, <1>8, <1>9
<1>12. (e.result \/ e.reading = <<>>) /\ ~TypeOverConversion => e.reading = <<>>
  BY <1>6, <1>7, <1>8, <1>9
<1>13. ~e.consumed => s.reading = <<>> /\ e.reading = <<>> /\ e.conv = FALSE /\ e.result = FALSE
  BY <1>7, <1>8, <1>9
<1>14. e.consumed /\ ~e.result /\ key \in Letters \cup {"BACKSPACE"} => e.conv = FALSE
  BY <1>7, <1>8
<1>15. e.consumed /\ ~s.conv /\ key \in Letters \cup {"BACKSPACE"} =>
         e.reading = Stroke(s.reading, key)
  <2>1. CASE key \in Letters
    BY <1>7, <2>1 DEF Stroke
  <2>2. CASE key \notin Letters /\ key = "BACKSPACE" /\ e.consumed /\ ~s.conv
    <3>1. s.reading # <<>>
      BY <1>7, <2>2
    <3> QED
      BY <1>7, <2>2, <3>1 DEF Stroke
  <2> QED
    BY <2>1, <2>2
<1> QED
  BY <1>2, <1>5, <1>8, <1>11, <1>12, <1>13, <1>14, <1>15 DEF e, s

LEMMA RecordedOutcome ==
  ASSUME NEW d, Core(d.w), NEW key \in Keys, NEW sh \in Contents, NEW sec \in BOOLEAN, NEW g,
         NEW u, Open(u, sh, sec, g), Typed(u, d, key), Kept(u, d.w),
         key \in Letters => Len(sh.reading) < MaxLength /\ (sh.conv => TypeOverConversion)
  PROVE  LET x == Recorded(d.w, key, d.reply, sec)
             t == [reading |-> d.reply.reading, conv |-> d.reply.conv]
         IN  /\ Core(x) /\ Quiet(d.w, x) /\ t \in Contents /\ (sec => x.journal = <<>>)
             /\ \E h : Fits(x, t, sec, h)
             /\ t = Screen(KeyEffect(u.session, key)) /\ u.session # None
<1> DEFINE s == u.session
           e == KeyEffect(s, key)
           reply == d.reply
           v == RecordSuccessfulKey(d.w, key, reply, sec)
           x == Recorded(d.w, key, reply, sec)
           t == [reading |-> reply.reading, conv |-> reply.conv]
<1>1. /\ s \in OpenSessions /\ e.reading \in ShortReadings /\ e.conv \in BOOLEAN
      /\ e.consumed \in BOOLEAN /\ e.result \in BOOLEAN
      /\ (e.result \/ e.reading = <<>>) => e.conv = FALSE
      /\ (e.result \/ e.reading = <<>>) /\ ~TypeOverConversion => e.reading = <<>>
      /\ ~e.consumed => /\ s.reading = <<>> /\ e.reading = <<>>
                        /\ e.conv = FALSE /\ e.result = FALSE
      /\ e.consumed /\ ~e.result /\ key \in Letters \cup {"BACKSPACE"} => e.conv = FALSE
      /\ e.consumed /\ ~s.conv /\ key \in Letters \cup {"BACKSPACE"} =>
           e.reading = Stroke(s.reading, key)
      /\ key \in Letters => Len(s.reading) < MaxLength
  BY TakenEffect
<1>2. /\ Stable(d.w) /\ d.w.gen = u.gen /\ s # None /\ d.w.session # None
      /\ d.w.session.reading = e.reading /\ d.w.session.conv = e.conv
      /\ reply.reading = e.reading /\ reply.conv = e.conv
      /\ reply.consumed = e.consumed /\ reply.result = e.result
  BY DEF Typed
<1>3. /\ Core(u) /\ u.observed = u.gen /\ Tracks(u, Screen(s), sec, g)
  BY <1>2 DEF Open
<1>4. /\ d.w.journal = u.journal /\ d.w.suppressed = u.suppressed /\ d.w.observed = d.w.gen
  BY <1>2, <1>3 DEF Kept
<1>5. Screen(s).reading = s.reading /\ Screen(s).conv = s.conv /\ s.conv \in BOOLEAN
      /\ s.reading \in ShortReadings
  BY <1>1 DEF Screen, OpenSessions
<1>6. t = Screen(e) /\ t = Screen(d.w.session) /\ t.reading = e.reading /\ t.conv = e.conv
  BY <1>2 DEF Screen
<1> HIDE DEF e, reply
<1>7. t \in Contents
  BY <1>1, <1>2 DEF Contents
<1>8. /\ Journalled(d.w, v) /\ (sec => v.journal = <<>>)
      /\ \/ sec
         \/ ~reply.consumed /\ v = d.w
         \/ (reply.result \/ reply.reading = <<>>) /\ v.journal = <<>>
         \/ reply.consumed /\ ~reply.result /\ v.suppressed
         \/ /\ key \in Letters \cup {"BACKSPACE"} /\ ~d.w.suppressed
            /\ reply.consumed /\ ~reply.result /\ reply.reading # <<>>
            /\ v.journal = Append(d.w.journal, key) /\ v.suppressed = FALSE
  <2> DEFINE w == d.w
             y == RecordSuccessfulKey(w, key, reply, sec)
  <2>1. Core(w)
    OBVIOUS
  <2> HIDE DEF w
  <2>2. /\ Journalled(w, y) /\ (sec => y.journal = <<>>)
        /\ \/ sec
           \/ ~reply.consumed /\ y = w
           \/ (reply.result \/ reply.reading = <<>>) /\ y.journal = <<>>
           \/ reply.consumed /\ ~reply.result /\ y.suppressed
           \/ /\ key \in Letters \cup {"BACKSPACE"} /\ ~w.suppressed
              /\ reply.consumed /\ ~reply.result /\ reply.reading # <<>>
              /\ y.journal = Append(w.journal, key) /\ y.suppressed = FALSE
    BY <2>1, RecordOutcome
  <2> QED
    BY <2>2 DEF w
<1> HIDE DEF v
<1>9. /\ Core(x) /\ Quiet(v, x) /\ x.session = v.session
      /\ x.status = v.status /\ x.gen = v.gen /\ x.initial = v.initial
      /\ x.observed = v.observed
      /\ x.session # None => x.view = x.session.no
      /\ IF reply.result THEN x.journal = <<>> /\ x.suppressed = FALSE
         ELSE x.journal = v.journal /\ x.suppressed = v.suppressed
  <2> DEFINE r == [w |-> v, reply |-> reply]
  <2>1. r.w = v /\ r.reply = reply /\ x = Rendered(r)
    BY DEF Recorded, v
  <2>2. Core(v) /\ reply.result \in BOOLEAN
    BY <1>1, <1>2, <1>8 DEF Journalled
  <2> HIDE DEF r, x, t
  <2>3. Core(r.w) /\ r.reply.result \in BOOLEAN
    BY <2>1, <2>2
  <2> QED
    BY <2>1, <2>3, RenderedOutcome
<1> HIDE DEF x, t
<1>10. Quiet(d.w, x) /\ (sec => x.journal = <<>>)
  BY <1>8, <1>9 DEF Journalled, Quiet
<1>11. /\ Stable(x) /\ x.observed = x.gen /\ x.session = d.w.session
       /\ x.session # None /\ x.view = x.session.no
  BY <1>2, <1>4, <1>8, <1>9 DEF Journalled, Stable
<1>12. \E h : Tracks(x, t, sec, h)
  <2>1. CASE sec
    BY <2>1 DEF Tracks
  <2>2. CASE ~sec /\ x.suppressed
    BY <2>2 DEF Tracks
  <2>3. CASE (reply.result \/ reply.reading = <<>>) /\ x.journal = <<>>
    <3>1. PICK h : Spells(<<>>, h)
      BY EmptySpells
    <3>2. h[Len(x.journal)] = <<>> /\ Len(h[Len(x.journal)]) = 0 /\ Spells(x.journal, h)
      BY <2>3, <3>1 DEF Spells
    <3>3. t.conv = FALSE /\ (~TypeOverConversion => t.reading = <<>>)
      BY <1>1, <1>2, <1>6, <2>3
    <3>4. Len(t.reading) >= 0
      BY <1>1, <1>6 DEF ShortReadings
    <3> QED
      BY <3>2, <3>3, <3>4 DEF Tracks
  <2>4. CASE ~sec /\ ~x.suppressed /\ ~reply.consumed /\ v = d.w
    <3>1. /\ s.reading = <<>> /\ t.reading = <<>> /\ t.conv = FALSE /\ reply.result = FALSE
      BY <1>1, <1>2, <1>6, <2>4
    <3>2. x.journal = u.journal /\ ~u.suppressed
      BY <1>4, <1>9, <2>4, <3>1
    <3> QED
      BY <1>3, <1>5, <2>4, <3>1, <3>2 DEF Tracks
  <2>5. CASE /\ ~sec /\ key \in Letters \cup {"BACKSPACE"} /\ ~d.w.suppressed
             /\ reply.consumed /\ ~reply.result /\ reply.reading # <<>>
             /\ v.journal = Append(d.w.journal, key)
    <3> DEFINE j == u.journal
               a == g[Len(j)]
    <3>1. /\ Spells(j, g) /\ s.conv = FALSE /\ Len(a) <= Len(s.reading)
          /\ ~TypeOverConversion => a = s.reading
      BY <1>3, <1>4, <1>5, <2>5 DEF Tracks
    <3>2. j \in Seq(Letters \cup {"BACKSPACE"})
      BY <1>3 DEF Core, Worlds
    <3>3. a \in ShortReadings
      BY <3>1, <3>2 DEF Spells
    <3> HIDE DEF a
    <3>4. /\ Stroke(a, key) \in ShortReadings
          /\ Len(Stroke(a, key)) <= Len(Stroke(s.reading, key))
      BY <1>1, <1>5, <2>5, <3>1, <3>3, StrokeOutcome
    <3>5. t.reading = Stroke(s.reading, key) /\ t.conv = FALSE
      BY <1>1, <1>2, <1>6, <2>5, <3>1
    <3>6. x.journal = Append(j, key)
      BY <1>4, <1>9, <2>5
    <3>7. PICK h : Spells(Append(j, key), h) /\ h[Len(Append(j, key))] = Stroke(a, key)
      BY <2>5, <3>1, <3>2, <3>4, SpellsAppend DEF a
    <3> HIDE DEF j
    <3>8. Spells(x.journal, h) /\ h[Len(x.journal)] = Stroke(a, key)
      BY <3>6, <3>7
    <3>9. ~TypeOverConversion => h[Len(x.journal)] = t.reading
      BY <3>1, <3>5, <3>8
    <3> QED
      BY <3>4, <3>5, <3>8, <3>9 DEF Tracks
  <2>6. (reply.result \/ reply.reading = <<>>) /\ v.journal = <<>> => x.journal = <<>>
    BY <1>9
  <2>7. reply.consumed /\ ~reply.result /\ v.suppressed => x.suppressed
    BY <1>9
  <2> QED
    BY <1>8, <2>1, <2>2, <2>3, <2>4, <2>5, <2>6, <2>7
<1>13. PICK h : Tracks(x, t, sec, h)
  BY <1>12
<1>14. Fits(x, t, sec, h)
  <2>1. t = Screen(x.session)
    BY <1>6, <1>11 DEF t
  <2> QED
    BY <1>9, <1>11, <1>13, <2>1, DrawnFits
<1>15. /\ Core(x) /\ Quiet(d.w, x) /\ t \in Contents /\ (sec => x.journal = <<>>)
       /\ \E h2 : Fits(x, t, sec, h2)
       /\ t = Screen(e) /\ s # None
  BY <1>2, <1>6, <1>7, <1>9, <1>10, <1>14 DEF t
<1> QED
  BY <1>15 DEF x, t, e, reply

-----------------------------------------------------------------------------
(* The focus, the capabilities, and a server that dies on its own.          *)

\* Fits looks at the client, its session, the journal and the view only.
LEMMA FitsAlike ==
  ASSUME NEW w, NEW v, v.session = w.session, v.status = w.status, v.gen = w.gen,
         v.journal = w.journal, v.suppressed = w.suppressed, v.observed = w.observed,
         v.view = w.view, NEW sh, NEW sec, NEW g, Fits(w, sh, sec, g)
  PROVE  Fits(v, sh, sec, g)
<1>1. Unseen(v, sh)
  BY DEF Fits, Unseen
<1>2. Home(v, sh)
  BY DEF Fits, Home, Blank
<1>3. Mirror(v, sh, sec)
  BY DEF Fits, Mirror, Blank
<1>4. Tracks(v, sh, sec, g)
  BY DEF Fits, Tracks
<1> QED
  BY <1>1, <1>2, <1>3, <1>4 DEF Fits

LEMMA FreshOutcome ==
  ASSUME NEW w, Core(w)
  PROVE  LET v == Fresh(w)
         IN  /\ Core(v) /\ v.ran = {} /\ v.sends = 0 /\ v.up = w.up
             /\ v.session = w.session /\ v.status = w.status /\ v.gen = w.gen
             /\ v.journal = w.journal /\ v.suppressed = w.suppressed
             /\ v.observed = w.observed /\ v.view = w.view
<1> DEFINE v == Fresh(w)
<1>1. w \in Worlds
  BY DEF Core
<1>2. v \in Worlds
  BY <1>1 DEF Worlds, Fresh
<1>3. /\ v.up = w.up /\ v.session = w.session /\ v.status = w.status /\ v.id = w.id
      /\ v.gen = w.gen /\ v.journal = w.journal /\ v.suppressed = w.suppressed
      /\ v.observed = w.observed /\ v.initial = w.initial /\ v.view = w.view
      /\ v.ran = {} /\ v.sends = 0 /\ v.direct = w.direct
  BY <1>1 DEF Worlds, Fresh
<1> HIDE DEF v
<1>4. Core(v)
  BY <1>2, <1>3 DEF Core, Sane, Standing, Sound, Blank
<1> QED
  BY <1>3, <1>4 DEF v

LEMMA EmptyFits ==
  ASSUME NEW w, Core(w), Clean(w), w.journal = <<>>, NEW sec \in BOOLEAN
  PROVE  \E g : Fits(w, Nothing, sec, g)
<1>1. PICK g : Spells(<<>>, g)
  BY EmptySpells
<1>2. g[0] = <<>> /\ Len(<<>>) = 0
  BY <1>1 DEF Spells
<1>3. Nothing.reading = <<>> /\ Nothing.conv = FALSE
  BY DEF Nothing
<1>4. Tracks(w, Nothing, sec, g)
  BY <1>1, <1>2, <1>3 DEF Tracks
<1>5. Home(w, Nothing)
  BY DEF Clean, Home
<1>6. Mirror(w, Nothing, sec)
  BY SessionContents DEF Clean, Mirror
<1>7. Unseen(w, Nothing)
  BY DEF Unseen
<1> QED
  BY <1>4, <1>5, <1>6, <1>7 DEF Fits

LEMMA MovedClean ==
  ASSUME NEW w, Core(w), Clean(w), NEW v, Moved(w, v)
  PROVE  Clean(v)
BY DEF Clean, Moved, Blank, SameText

\* Nothing is left of the old client.
Empty(w) == Core(w) /\ Clean(w) /\ w.journal = <<>>

LEMMA ReleaseClientOutcome ==
  ASSUME NEW w, Core(w), NEW v \in ReleaseClient(w)
  PROVE  /\ Empty(v) /\ v.sends = w.sends
         /\ v.status = "UNKNOWN" /\ v.gen = 0 /\ v.observed = 0
<1> DEFINE u == ResetSessionBoundary(w)
           req == Request("DELETE")
<1>1. w \in Worlds /\ Standing(w) /\ ~w.direct
  BY DEF Core, Sane
<1>2. u \in Worlds
  BY <1>1, EmptySequences DEF Worlds, ResetSessionBoundary, ClearReading
<1>3. /\ u.up = w.up /\ u.session = w.session /\ u.id = w.id
      /\ u.journal = <<>> /\ u.suppressed = FALSE /\ u.observed = 0
      /\ u.sends = w.sends /\ u.direct = w.direct
  BY <1>1 DEF Worlds, ResetSessionBoundary, ClearReading
<1>4. Standing(u)
  BY <1>1, <1>3 DEF Standing
<1>5. PICK r \in IF u.id = "void" THEN {Result(u, TRUE)} ELSE Call(u, req) :
        v = [[r.w EXCEPT !.status = "UNKNOWN", !.id = "void", !.gen = 0, !.session = None]
               EXCEPT !.initial = 0]
  BY DEF ReleaseClient, ReplaceClient
<1> HIDE DEF u
<1>6. /\ IsRequest(req) /\ req.type = "DELETE" /\ \A z : Room(z, req)
  BY RequestIsRequest
<1> HIDE DEF req
<1>7. /\ r.w \in Worlds /\ r.w.journal = <<>> /\ r.w.suppressed = FALSE
      /\ r.w.observed = 0 /\ r.w.sends = w.sends /\ r.w.direct = w.direct
  <2>1. CASE u.id = "void"
    <3>1. r.w = u
      BY <1>5, <2>1 DEF Result
    <3> QED
      BY <1>2, <1>3, <3>1
  <2>2. CASE u.id # "void"
    <3>1. r \in Call(u, req)
      BY <1>5, <2>2
    <3>2. Delivered(u, r, req) \/ CutOff(u, r) \/ Unanswered(u, r, req)
      BY <1>2, <1>4, <1>6, <3>1, CallOutcome
    <3>3. ASSUME NEW z, Met(u, z)
          PROVE  LET y == Serve(z, req).w
                 IN  /\ y \in Worlds /\ y.journal = u.journal /\ y.suppressed = u.suppressed
                     /\ y.observed = u.observed /\ y.sends = u.sends /\ y.direct = u.direct
      <4>1. z \in Worlds /\ Kept(u, z) /\ Quiet(u, z)
        BY <3>3 DEF Met
      <4>2. Served(z, Serve(z, req).w, req)
        BY <1>6, <4>1, ServeOutcome
      <4> QED
        BY <1>6, <4>1, <4>2 DEF Served, Kept, Quiet
    <3>4. CASE Delivered(u, r, req)
      BY <1>3, <3>3, <3>4 DEF Delivered
    <3>5. CASE CutOff(u, r)
      BY <1>3, <3>5 DEF CutOff, Met, Kept, Quiet
    <3>6. CASE Unanswered(u, r, req)
      <4>1. PICK z : /\ Met(u, z)
                     /\ Alike(z, r.w) \/ Alike(Serve(z, req).w, r.w)
        BY <3>6 DEF Unanswered
      <4>2. CASE Alike(z, r.w)
        BY <1>3, <4>1, <4>2 DEF Met, Alike, Kept, Quiet
      <4>3. CASE Alike(Serve(z, req).w, r.w)
        BY <1>3, <3>3, <4>1, <4>3 DEF Alike, Kept, Quiet
      <4> QED
        BY <4>1, <4>2, <4>3
    <3> QED
      BY <3>2, <3>4, <3>5, <3>6
  <2> QED
    BY <2>1, <2>2
<1>8. "UNKNOWN" \in Statuses /\ 0 \in Nat
  BY DEF Statuses
<1>9. v \in Worlds
  BY <1>5, <1>7, <1>8 DEF Worlds
<1>10. /\ v.status = "UNKNOWN" /\ v.id = "void" /\ v.gen = 0 /\ v.session = None
       /\ v.initial = 0 /\ v.journal = <<>> /\ v.suppressed = FALSE
       /\ v.observed = 0 /\ v.sends = w.sends /\ v.direct = w.direct
  BY <1>5, <1>7 DEF Worlds
<1>11. Len(v.journal) <= MaxEventCount
  BY <1>10, ConstantsAssumption
<1>12. Core(v)
  BY <1>1, <1>9, <1>10, <1>11 DEF Core, Sane, Standing, Sound, Blank
<1> QED
  BY <1>10, <1>12 DEF Empty, Clean, Blank

LEMMA RefocusOutcome ==
  ASSUME NEW w, Empty(w), NEW sec \in BOOLEAN, NEW v \in Refocus(w, sec)
  PROVE  Empty(v) /\ v.sends = w.sends
<1>1. PICK u \in UpdatePreeditMethod(w, sec) : v \in {r.w : r \in ApplyInitialMode(u)}
  BY DEF Refocus
<1>2. PICK r \in Call(w, Request("GET_CONFIG")) :
        u \in IF r.ok /\ r.reply # EmptyReply
              THEN {s.w : s \in TrySendRawCommand(r.w, "STATUS", sec)} ELSE {r.w}
  BY <1>1 DEF UpdatePreeditMethod
<1>3. Core(w) /\ Clean(w) /\ w.journal = <<>> /\ w \in Worlds /\ Standing(w)
  BY DEF Empty, Core, Sane
<1>4. Near(w, r.w) /\ (r.ok => r.w.status = w.status) /\ (~r.ok => r.w.status # "OK")
  BY <1>2, <1>3, PlainCallOutcome
<1>5. Moved(w, r.w)
  BY <1>3, <1>4, NearMoved
<1>6. Empty(r.w) /\ r.w.sends = w.sends
  BY <1>3, <1>5, MovedCounters, MovedClean DEF Empty, Quiet
<1>7. Empty(u) /\ u.sends = w.sends
  <2>1. CASE u = r.w
    BY <1>6, <2>1
  <2>2. CASE u \in {s.w : s \in TrySendRawCommand(r.w, "STATUS", sec)}
    <3>1. PICK s \in TrySendRawCommand(r.w, "STATUS", sec) : u = s.w
      BY <2>2
    <3> DEFINE z == r.w
    <3>2. Core(z) /\ Clean(z) /\ z.journal = <<>> /\ z.sends = w.sends
          /\ s \in TrySendRawCommand(z, "STATUS", sec)
      BY <1>6, <3>1 DEF Empty
    <3>3. "STATUS" \in SessionTypes
      BY DEF SessionTypes
    <3> HIDE DEF z
    <3>4. Core(s.w) /\ s.w.journal = <<>> /\ s.w.sends = z.sends /\ Clean(s.w)
      BY <3>2, <3>3, EmptyCommandOutcome
    <3> QED
      BY <3>1, <3>2, <3>4 DEF Empty
  <2> QED
    BY <1>2, <2>1, <2>2
<1>8. PICK m \in ApplyInitialMode(u) : v = m.w
  BY <1>1
<1>9. Moved(u, m.w)
  BY <1>7, <1>8, ApplyInitialModeOutcome DEF Empty
<1> QED
  BY <1>7, <1>8, <1>9, MovedCounters, MovedClean DEF Empty, Quiet

\* A client that has just been made, before it does anything.
LEMMA UnviewedOutcome ==
  ASSUME NEW w, Empty(w)
  PROVE  LET v == [w EXCEPT !.view = 0] IN Empty(v) /\ v.sends = w.sends
<1> DEFINE v == [w EXCEPT !.view = 0]
<1>1. w \in Worlds /\ 0 \in 0..2
  BY DEF Empty, Core
<1>2. v \in Worlds
  BY <1>1 DEF Worlds
<1>3. /\ v.up = w.up /\ v.session = w.session /\ v.status = w.status /\ v.id = w.id
      /\ v.gen = w.gen /\ v.journal = w.journal /\ v.suppressed = w.suppressed
      /\ v.observed = w.observed /\ v.initial = w.initial
      /\ v.sends = w.sends /\ v.direct = w.direct
  BY <1>1 DEF Worlds
<1> HIDE DEF v
<1> QED
  BY <1>2, <1>3 DEF v, Empty, Clean, Core, Sane, Standing, Sound, Blank

LEMMA UnobservedOutcome ==
  ASSUME NEW w, Empty(w)
  PROVE  LET v == ResetSessionBoundary(w) IN Empty(v) /\ v.sends = w.sends
<1> DEFINE v == ResetSessionBoundary(w)
<1>1. w \in Worlds /\ Core(w)
  BY DEF Empty, Core
<1>2. v \in Worlds
  BY <1>1, EmptySequences DEF Worlds, ResetSessionBoundary, ClearReading
<1>3. /\ v.up = w.up /\ v.session = w.session /\ v.status = w.status /\ v.id = w.id
      /\ v.gen = w.gen /\ v.journal = <<>> /\ v.suppressed = FALSE
      /\ v.observed = 0 /\ v.initial = w.initial
      /\ v.sends = w.sends /\ v.direct = w.direct
  BY <1>1 DEF Worlds, ResetSessionBoundary, ClearReading
<1> HIDE DEF v
<1>4. w.initial \in Nat /\ w.journal = <<>>
  BY <1>1, CoreCounters DEF Empty
<1> QED
  BY <1>2, <1>3, <1>4 DEF v, Empty, Clean, Core, Sane, Standing, Sound, Blank

\* The server dies, or another client starts it.
LEMMA LostServerOutcome ==
  ASSUME NEW w, Core(w)
  PROVE  /\ \A v \in Faulty(w) : Moved(w, Crashed(v))
         /\ ~w.up => Moved(w, Replaced(w))
<1>1. w \in Worlds /\ Standing(w)
  BY DEF Core, Sane
<1>2. ASSUME NEW v \in Faulty(w) PROVE Moved(w, Crashed(v))
  <2>1. Crashed(v) \in Meets(w)
    BY <1>2 DEF Meets
  <2>2. Met(w, Crashed(v))
    BY <1>1, <2>1, MeetsOutcome
  <2>3. Near(w, Crashed(v)) /\ Crashed(v).status = w.status
    BY <2>2 DEF Met, Near
  <2> QED
    BY <2>3, NearMoved
<1>3. ASSUME ~w.up PROVE Moved(w, Replaced(w))
  <2> DEFINE v == Replaced(w)
  <2>1. v \in Worlds
    BY <1>1 DEF Worlds, Replaced
  <2>2. /\ v.session = None /\ v.status = w.status /\ v.id = w.id /\ v.gen = w.gen
        /\ v.journal = w.journal /\ v.suppressed = w.suppressed
        /\ v.observed = w.observed /\ v.initial = w.initial /\ v.view = w.view
        /\ v.ran = w.ran /\ v.sends = w.sends /\ v.direct = w.direct
    BY <1>1 DEF Worlds, Replaced
  <2> HIDE DEF v
  <2>3. Near(w, v)
    BY <2>1, <2>2 DEF Near, Kept, Quiet, SameClient, Standing
  <2>4. Moved(w, v)
    BY <2>2, <2>3, NearMoved
  <2> QED
    BY <2>4 DEF v
<1> QED
  BY <1>2, <1>3

-----------------------------------------------------------------------------
(* The invariant.                                                           *)

\* The journal is one that the screen could have been typed with.
Legend(w, sh, sec) == \E g : Fits(w, sh, sec, g)

Inv ==
  /\ Core(world) /\ shown \in Contents /\ secure \in BOOLEAN
  /\ secure => world.journal = <<>> /\ world.sends <= 1
  /\ Legend(world, shown, secure)

LEMMA FreshInv ==
  ASSUME Inv
  PROVE  LET w == Fresh(world)
         IN  /\ Core(w) /\ Legend(w, shown, secure) /\ w.ran = {} /\ w.sends = 0
             /\ w.view = world.view /\ w.suppressed = world.suppressed /\ w.up = world.up
             /\ secure => w.journal = <<>>
<1>1. Core(world) /\ Legend(world, shown, secure) /\ (secure => world.journal = <<>>)
  BY DEF Inv
<1> DEFINE w == Fresh(world)
<1>2. /\ Core(w) /\ w.ran = {} /\ w.sends = 0 /\ w.up = world.up
      /\ w.session = world.session /\ w.status = world.status /\ w.gen = world.gen
      /\ w.journal = world.journal /\ w.suppressed = world.suppressed
      /\ w.observed = world.observed /\ w.view = world.view
  BY <1>1, FreshOutcome
<1> HIDE DEF w
<1>3. PICK g : Fits(world, shown, secure, g)
  BY <1>1 DEF Legend
<1>4. Fits(w, shown, secure, g)
  BY <1>2, <1>3, FitsAlike
<1> QED
  BY <1>1, <1>2, <1>4 DEF w, Legend

LEMMA InitInv == Init => Inv
<1>1. SUFFICES ASSUME Init PROVE Inv
  OBVIOUS
<1>2. /\ world.up = FALSE /\ world.session = None /\ world.faults = MaxFaults
      /\ world.status = "UNKNOWN" /\ world.id = "void" /\ world.gen = 0
      /\ world.journal = <<>> /\ world.suppressed = FALSE /\ world.observed = 0
      /\ world.initial = 0 /\ world.view = 0
      /\ world.ran = {} /\ world.sends = 0 /\ world.direct = FALSE
      /\ shown = Nothing /\ secure = FALSE
  BY <1>1 DEF Init
<1>3. MaxFaults \in 0..MaxFaults /\ "UNKNOWN" \in Statuses /\ 0 \in 0..2
      /\ 0 <= MaxEventCount
  BY ConstantsAssumption DEF Statuses
<1>4. world \in Worlds
  BY <1>1, <1>3, EmptySequences DEF Init, Worlds
<1>5. Core(world)
  BY <1>2, <1>3, <1>4 DEF Core, Sane, Standing, Sound, Blank
<1>6. Clean(world)
  BY <1>2 DEF Clean
<1>7. Legend(world, shown, secure)
  BY <1>2, <1>5, <1>6, EmptyFits DEF Legend
<1>8. shown \in Contents
  BY <1>2, EmptySequences DEF Nothing, Contents
<1> QED
  BY <1>2, <1>5, <1>7, <1>8 DEF Inv

\* What is left when the composition is over.
LEMMA EmptyInv ==
  ASSUME Empty(world'), world'.sends = 0, shown' = Nothing, secure' \in BOOLEAN
  PROVE  Inv'
<1>1. Core(world') /\ Clean(world') /\ world'.journal = <<>>
  BY DEF Empty
<1>2. Legend(world', Nothing, secure')
  BY <1>1, EmptyFits DEF Legend
<1>3. Nothing \in Contents
  BY EmptySequences DEF Nothing, Contents
<1> QED
  BY <1>1, <1>2, <1>3 DEF Inv

\* A key: what becomes of the screen, and the invariant.
LEMMA KeyStep ==
  ASSUME Inv, NEW key \in Keys, ProcessKeyEvent(key)
  PROVE  /\ Inv'
         /\ event'.ok => \E u, g : /\ Open(u, shown, secure, g) /\ u.session # None
                                   /\ u.suppressed => world.suppressed
                                   /\ shown' = Screen(KeyEffect(u.session, key))
<1> DEFINE w == Fresh(world)
<1>1. /\ Core(w) /\ Legend(w, shown, secure) /\ w.sends = 0
      /\ w.suppressed = world.suppressed /\ (secure => w.journal = <<>>)
  BY FreshInv
<1>2. shown \in Contents /\ secure \in BOOLEAN /\ secure' = secure
  BY DEF Inv, ProcessKeyEvent
<1>3. key \in Letters => Len(shown.reading) < MaxLength /\ (shown.conv => TypeOverConversion)
  BY DEF ProcessKeyEvent
<1>4. PICK d \in SentKey(w, key, secure) :
        IF d.ok
        THEN /\ world' = Recorded(d.w, key, d.reply, secure)
             /\ shown' = [reading |-> d.reply.reading, conv |-> d.reply.conv]
             /\ event' = Event("key", key, d.reply.consumed)
        ELSE /\ world' = d.w /\ event' = Event("key", key, FALSE) /\ shown' = shown
  BY DEF ProcessKeyEvent, Recorded
<1> HIDE DEF w
<1>5. PICK g : Fits(w, shown, secure, g)
  BY <1>1 DEF Legend
<1>6. /\ Core(d.w) /\ (secure => d.w.sends <= w.sends + 1)
      /\ Taken(w, d, key, shown, secure, g) \/ Refused(d, shown, secure, g)
  BY <1>1, <1>2, <1>3, <1>4, <1>5, SentKeyOutcome
<1>7. secure => d.w.sends <= 1
  BY <1>1, <1>6
<1>8. CASE Taken(w, d, key, shown, secure, g)
  <2>1. PICK u : /\ Open(u, shown, secure, g) /\ Typed(u, d, key) /\ Kept(u, d.w)
                 /\ u.suppressed => w.suppressed
    BY <1>8 DEF Taken
  <2> DEFINE x == Recorded(d.w, key, d.reply, secure)
             t == [reading |-> d.reply.reading, conv |-> d.reply.conv]
  <2>2. world' = x /\ shown' = t
    BY <1>4, <1>8 DEF Taken
  <2>3. /\ Core(x) /\ Quiet(d.w, x) /\ t \in Contents /\ (secure => x.journal = <<>>)
        /\ \E h : Fits(x, t, secure, h)
        /\ t = Screen(KeyEffect(u.session, key)) /\ u.session # None
    BY <1>2, <1>3, <1>6, <2>1, RecordedOutcome
  <2> HIDE DEF x, t
  <2>4. Inv'
    BY <1>2, <1>7, <2>2, <2>3 DEF Inv, Legend, Quiet
  <2> QED
    BY <1>1, <2>1, <2>2, <2>3, <2>4
<1>9. CASE Refused(d, shown, secure, g)
  <2>1. /\ d.ok = FALSE /\ Fits(d.w, shown, secure, g) /\ (secure => d.w.journal = <<>>)
    BY <1>9 DEF Refused
  <2>2. world' = d.w /\ shown' = shown /\ event'.ok = FALSE
    BY <1>4, <2>1 DEF Event
  <2>3. Inv'
    BY <1>2, <1>6, <1>7, <2>1, <2>2 DEF Inv, Legend
  <2> QED
    BY <2>2, <2>3
<1> QED
  BY <1>6, <1>8, <1>9

\* A command: where it runs, what becomes of the screen, and the invariant.
LEMMA CommandStep ==
  ASSUME Inv, SendCommand
  PROVE  /\ Inv'
         /\ \A x \in world'.ran : x[1] = world.view \/ x[2] = <<>>
         /\ \/ shown'.reading = shown.reading \/ TypeOverConversion
            \/ shown' = Nothing /\ (secure \/ world.suppressed)
<1> DEFINE w == Fresh(world)
<1>1. /\ Core(w) /\ Legend(w, shown, secure) /\ w.ran = {} /\ w.sends = 0
      /\ w.view = world.view /\ w.suppressed = world.suppressed
  BY FreshInv
<1>2. shown \in Contents /\ secure \in BOOLEAN /\ secure' = secure
  BY DEF Inv, SendCommand
<1>3. PICK r \in TrySendRawCommand(w, "COMMAND", secure) :
        /\ world' = IF r.ok THEN Rendered(r) ELSE r.w
        /\ shown' = IF r.ok THEN [reading |-> r.reply.reading, conv |-> r.reply.conv]
                    ELSE shown
  BY DEF SendCommand
<1> HIDE DEF w
<1>4. PICK g : Fits(w, shown, secure, g)
  BY <1>1 DEF Legend
<1>5. /\ Core(r.w) /\ (secure => r.w.journal = <<>>) /\ r.w.sends = w.sends
      /\ \A x \in r.w.ran : x[1] = w.view \/ x[2] = <<>>
      /\ \/ Commanded(w, r, shown, secure, g)
         \/ r.ok = FALSE /\ Fits(r.w, shown, secure, g)
  BY <1>1, <1>2, <1>3, <1>4, SendCommandOutcome
<1>6. CASE Commanded(w, r, shown, secure, g)
  <2> DEFINE v == Rendered(r)
             t == [reading |-> r.reply.reading, conv |-> r.reply.conv]
  <2>1. world' = v /\ shown' = t
    BY <1>3, <1>6 DEF Commanded
  <2>2. /\ Core(v) /\ Quiet(r.w, v) /\ v.journal = r.w.journal
        /\ t \in Contents /\ Fits(v, t, secure, g)
        /\ \/ t.reading = shown.reading \/ TypeOverConversion
           \/ t = Nothing /\ (secure \/ w.suppressed)
    BY <1>5, <1>6, CommandedFits
  <2> HIDE DEF v, t
  <2>3. v.ran = r.w.ran /\ v.sends = 0
    BY <1>1, <1>5, <2>2 DEF Quiet
  <2>4. Inv'
    BY <1>2, <1>5, <2>1, <2>2, <2>3 DEF Inv, Legend
  <2> QED
    BY <1>1, <1>5, <2>1, <2>2, <2>3, <2>4
<1>7. CASE r.ok = FALSE /\ Fits(r.w, shown, secure, g)
  <2>1. world' = r.w /\ shown' = shown
    BY <1>3, <1>7
  <2>2. Inv'
    BY <1>1, <1>2, <1>5, <1>7, <2>1 DEF Inv, Legend
  <2> QED
    BY <1>1, <1>5, <2>1, <2>2
<1> QED
  BY <1>5, <1>6, <1>7

\* An event that ends the composition before it tells the session.
LEMMA EndedOutcome ==
  ASSUME Inv, NEW type \in {"REVERT", "SUBMIT"},
         NEW r \in TrySendRawCommand(ClearReading(Fresh(world)), type, secure)
  PROVE  Empty(r.w) /\ r.w.sends = 0
<1> DEFINE w == ClearReading(Fresh(world))
<1>1. Core(Fresh(world)) /\ Fresh(world).sends = 0
  BY FreshInv
<1>2. Core(w) /\ w.journal = <<>> /\ w.sends = 0
  BY <1>1, ClearedOutcome DEF Quiet
<1>3. secure \in BOOLEAN /\ type \in SessionTypes
  BY DEF Inv, SessionTypes
<1> HIDE DEF w
<1>4. r \in TrySendRawCommand(w, type, secure)
  BY DEF w
<1>5. Core(r.w) /\ r.w.journal = <<>> /\ r.w.sends = w.sends /\ Clean(r.w)
  BY <1>2, <1>3, <1>4, EmptyCommandOutcome
<1> QED
  BY <1>2, <1>5 DEF Empty

LEMMA ResetStep ==
  ASSUME Inv, Reset
  PROVE  Inv'
<1>1. PICK r \in TrySendRawCommand(ClearReading(Fresh(world)), "REVERT", secure) :
        world' = IF r.ok THEN Rendered(r) ELSE r.w
  BY DEF Reset
<1>2. Empty(r.w) /\ r.w.sends = 0
  BY <1>1, EndedOutcome
<1>3. shown' = Nothing /\ secure' \in BOOLEAN
  BY DEF Reset, Inv
<1>4. Empty(world') /\ world'.sends = 0
  <2>1. CASE r.ok
    <3> DEFINE n == IF r.w.session = None THEN 0 ELSE r.w.session.no
               u == IF r.reply.result THEN ClearReading(r.w) ELSE r.w
               v == [u EXCEPT !.view = n]
    <3>1. Core(r.w) /\ Clean(r.w) /\ r.w.journal = <<>>
      BY <1>2 DEF Empty
    <3>2. /\ Core(u) /\ u.journal = <<>> /\ u.sends = 0
          /\ u.status = r.w.status /\ u.session = r.w.session
      BY <1>2, <3>1, ClearedOutcome DEF Quiet
    <3>3. world' = v
      BY <1>1, <2>1, <3>2 DEF Rendered
    <3> HIDE DEF u
    <3>4. u \in Worlds
      BY <3>2 DEF Core
    <3>5. n \in 0..2
      BY <3>2, <3>4 DEF Worlds, OpenSessions
    <3> HIDE DEF n
    <3>6. v \in Worlds
      BY <3>4, <3>5 DEF Worlds
    <3>7. /\ v.up = u.up /\ v.session = u.session /\ v.status = u.status /\ v.id = u.id
          /\ v.gen = u.gen /\ v.journal = u.journal /\ v.suppressed = u.suppressed
          /\ v.observed = u.observed /\ v.initial = u.initial
          /\ v.sends = u.sends /\ v.direct = u.direct
      BY <3>4 DEF Worlds
    <3> HIDE DEF v
    <3>8. Core(v)
      BY <3>2, <3>6, <3>7 DEF Core, Sane, Standing, Sound, Blank
    <3>9. Clean(v)
      BY <3>1, <3>2, <3>7 DEF Clean, Blank
    <3> QED
      BY <3>2, <3>3, <3>7, <3>8, <3>9 DEF Empty
  <2>2. CASE ~r.ok
    BY <1>1, <1>2, <2>2
  <2> QED
    BY <2>1, <2>2
<1> QED
  BY <1>3, <1>4, EmptyInv

LEMMA FocusStep ==
  ASSUME Inv, Focus
  PROVE  Inv'
<1>a. PICK type \in {"SUBMIT", "REVERT"} :
        \E r \in TrySendRawCommand(ClearReading(Fresh(world)), type, secure) :
        \E v \in ReleaseClient(r.w) :
          world' \in Refocus([ResetSessionBoundary(v) EXCEPT !.view = 0], secure)
  BY DEF Focus
<1>b. PICK r \in TrySendRawCommand(ClearReading(Fresh(world)), type, secure) :
        \E v \in ReleaseClient(r.w) :
          world' \in Refocus([ResetSessionBoundary(v) EXCEPT !.view = 0], secure)
  BY <1>a
<1>1. PICK v \in ReleaseClient(r.w) :
        world' \in Refocus([ResetSessionBoundary(v) EXCEPT !.view = 0], secure)
  BY <1>b
<1>2. shown' = Nothing /\ secure' \in BOOLEAN /\ secure \in BOOLEAN
  BY DEF Focus, Inv
<1>3. Empty(r.w) /\ r.w.sends = 0
  BY <1>b, EndedOutcome
<1> DEFINE x == r.w
<1>4. Core(x) /\ x.sends = 0 /\ v \in ReleaseClient(x)
  BY <1>1, <1>3 DEF Empty
<1> HIDE DEF x
<1>5. Empty(v) /\ v.sends = 0
  BY <1>4, ReleaseClientOutcome
<1> DEFINE y == ResetSessionBoundary(v)
<1>6. Empty(y) /\ y.sends = 0
  BY <1>5, UnobservedOutcome
<1> HIDE DEF y
<1> DEFINE z == [y EXCEPT !.view = 0]
<1>7. Empty(z) /\ z.sends = 0
  BY <1>6, UnviewedOutcome
<1>8. world' \in Refocus(z, secure)
  BY <1>1 DEF y
<1> HIDE DEF z
<1>9. Empty(world') /\ world'.sends = 0
  BY <1>2, <1>7, <1>8, RefocusOutcome
<1> QED
  BY <1>2, <1>9, EmptyInv

LEMMA CapabilityStep ==
  ASSUME Inv, Capability
  PROVE  Inv'
<1>1. PICK v \in ReleaseClient(Fresh(world)) :
        world' \in Refocus([v EXCEPT !.view = 0], ~secure)
  BY DEF Capability
<1>2. shown' = Nothing /\ secure' \in BOOLEAN /\ (~secure) \in BOOLEAN
  BY DEF Capability, Inv
<1> DEFINE x == Fresh(world)
<1>3. Core(x) /\ x.sends = 0 /\ v \in ReleaseClient(x)
  BY <1>1, FreshInv
<1> HIDE DEF x
<1>4. Empty(v) /\ v.sends = 0
  BY <1>3, ReleaseClientOutcome
<1> DEFINE z == [v EXCEPT !.view = 0]
           sec == ~secure
<1>5. Empty(z) /\ z.sends = 0
  BY <1>4, UnviewedOutcome
<1>6. world' \in Refocus(z, sec) /\ sec \in BOOLEAN
  BY <1>1, <1>2
<1> HIDE DEF z, sec
<1>7. Empty(world') /\ world'.sends = 0
  BY <1>5, <1>6, RefocusOutcome
<1> QED
  BY <1>2, <1>7, EmptyInv

LEMMA ServerStep ==
  ASSUME Inv, Crash \/ Restart
  PROVE  Inv'
<1> DEFINE w == Fresh(world)
<1>1. /\ Core(w) /\ Legend(w, shown, secure) /\ w.sends = 0 /\ w.up = world.up
      /\ (secure => w.journal = <<>>)
  BY FreshInv
<1>2. \/ \E v \in Faulty(w) : world' = Crashed(v)
      \/ ~world.up /\ world' = Replaced(w)
  BY DEF Crash, Restart
<1>3. /\ shown' = shown /\ secure' = secure /\ shown \in Contents /\ secure \in BOOLEAN
  BY DEF Crash, Restart, Inv
<1> HIDE DEF w
<1>4. Moved(w, world')
  BY <1>1, <1>2, LostServerOutcome
<1>5. PICK g : Fits(w, shown, secure, g)
  BY <1>1 DEF Legend
<1>6. Fits(world', shown, secure, g)
  BY <1>1, <1>4, <1>5, MovedFits
<1>7. Core(world') /\ world'.journal = w.journal /\ world'.sends = 0
  BY <1>1, <1>4, MovedCounters DEF Quiet
<1> QED
  BY <1>1, <1>3, <1>6, <1>7 DEF Inv, Legend

LEMMA NextInv == Inv /\ [Next]_vars => Inv'
<1>1. SUFFICES ASSUME Inv, [Next]_vars PROVE Inv'
  OBVIOUS
<1>2. ASSUME NEW key \in Keys, ProcessKeyEvent(key) PROVE Inv'
  BY <1>1, <1>2, KeyStep
<1>3. CASE SendCommand
  BY <1>1, <1>3, CommandStep
<1>4. CASE Reset
  BY <1>1, <1>4, ResetStep
<1>5. CASE Focus
  BY <1>1, <1>5, FocusStep
<1>6. CASE Capability
  BY <1>1, <1>6, CapabilityStep
<1>7. CASE Crash \/ Restart
  BY <1>1, <1>7, ServerStep
<1>8. CASE UNCHANGED vars
  BY <1>1, <1>8 DEF vars, Inv, Legend
<1> QED
  BY <1>1, <1>2, <1>3, <1>4, <1>5, <1>6, <1>7, <1>8 DEF Next

LEMMA InvHolds == Spec => []Inv
BY InitInv, NextInv, PTL DEF Spec

-----------------------------------------------------------------------------
(* What the runs check.                                                     *)

LEMMA ShortReadingsAreReadings == ShortReadings \subseteq Readings
<1>1. SUFFICES ASSUME NEW s \in ShortReadings PROVE s \in Readings
  OBVIOUS
<1>2. s \in Seq(Letters) /\ Len(s) \in Nat /\ Len(s) <= MaxLength /\ MaxLength \in Nat
  BY <1>1, ConstantsAssumption DEF ShortReadings
<1>3. s \in [1..Len(s) -> Letters] /\ Len(s) \in 0..MaxLength
  BY <1>2
<1> QED
  BY <1>3 DEF Readings

LEMMA InvTypeOK == Inv => TypeOK
<1>1. SUFFICES ASSUME Inv PROVE TypeOK
  OBVIOUS
<1>2. /\ Core(world) /\ world \in Worlds /\ Sane(world) /\ Len(world.journal) <= MaxEventCount
      /\ world.suppressed => world.journal = <<>>
  BY <1>1 DEF Inv, Core
<1>3. /\ world.up \in BOOLEAN /\ world.session \in OpenSessions \cup {None}
      /\ world.status \in Statuses /\ world.id \in {"void", "some"}
      /\ world.journal \in Seq(Letters \cup {"BACKSPACE"})
      /\ world.faults \in 0..MaxFaults /\ world.view \in 0..2
  BY <1>2 DEF Worlds
<1>4. ~world.up => world.session = None
  BY <1>2 DEF Sane, Standing
<1>5. OpenSessions \subseteq Sessions
  BY ShortReadingsAreReadings DEF OpenSessions, Sessions
<1>6. world.observed \in 0..world.gen /\ world.initial \in Nat
  BY <1>2, CoreCounters
<1>7. shown \in [reading : Readings, conv : BOOLEAN] /\ secure \in BOOLEAN
  BY <1>1, ShortReadingsAreReadings DEF Inv, Contents
<1> QED
  BY <1>2, <1>3, <1>4, <1>5, <1>6, <1>7 DEF TypeOK

\* No key reaches a session before the initial mode has, whichever of the
\* calls of InitializeSessionGeneration and EnsureCallCommand was lost.
THEOREM NeverInTheWrongModeHolds == Spec => []NeverInTheWrongMode
<1>1. Inv => NeverInTheWrongMode
  BY DEF Inv, Core, NeverInTheWrongMode
<1> QED
  BY <1>1, InvHolds, PTL

\* The types; and a session that the client will use holds the reading on the
\* screen or none: what Prepare has typed again and could not finish, or what
\* fail_unconsumed_key has handed to the application, is gone from it.
THEOREM NoHiddenReadingHolds == Spec => []NoHiddenReading
<1>1. Inv => NoHiddenReading
  <2>1. SUFFICES ASSUME Inv PROVE NoHiddenReading
    OBVIOUS
  <2>2. PICK g : Fits(world, shown, secure, g)
    BY <2>1 DEF Inv, Legend
  <2>3. Home(world, shown)
    BY <2>2 DEF Fits
  <2>4. ASSUME world.status = "OK", world.session # None
        PROVE  world.session.reading \in {shown.reading, <<>>}
    BY <2>3, <2>4 DEF Home, Blank, Screen
  <2> QED
    BY <2>1, <2>4, InvTypeOK DEF NoHiddenReading
<1> QED
  BY <1>1, InvHolds, PTL

\* While the field holds a password the journal is empty, and DispatchKey has
\* given the key to one session at most: Retry leaves it alone.
THEOREM SecureLeavesNothingHolds == Spec => []SecureLeavesNothing
<1>1. Inv => SecureLeavesNothing
  BY DEF Inv, SecureLeavesNothing
<1> QED
  BY <1>1, InvHolds, PTL

\* What a command can have run in, and what a key and a command leave of the
\* reading, follows from their steps.
LEMMA EventTypes ==
  /\ \A key \in Keys : ProcessKeyEvent(key) => event'.type = "key" /\ event'.key = key
  /\ SendCommand => event'.type = "command"
  /\ Reset \/ Focus \/ Capability \/ Crash \/ Restart =>
       event'.type # "key" /\ event'.type # "command"
<1>1. ASSUME NEW key \in Keys, ProcessKeyEvent(key)
      PROVE  event'.type = "key" /\ event'.key = key
  <2>1. \E consumed : event' = Event("key", key, consumed)
    BY <1>1 DEF ProcessKeyEvent
  <2> QED
    BY <2>1 DEF Event
<1>2. ASSUME SendCommand PROVE event'.type = "command"
  BY <1>2 DEF SendCommand, Event
<1>3. ASSUME Reset \/ Focus \/ Capability \/ Crash \/ Restart
      PROVE  event'.type # "key" /\ event'.type # "command"
  BY <1>3 DEF Reset, Focus, Capability, Crash, Restart, Event
<1> QED
  BY <1>1, <1>2, <1>3

\* A command that TrySendRawCommand sends runs in the session that the screen
\* shows or in an empty one; in none that has been typed into since.
THEOREM CommandsStayHomeHolds == Spec => CommandsStayHome
<1> DEFINE Stays == event'.type = "command" =>
                      \A r \in world'.ran : r[1] = world.view \/ r[2] = <<>>
<1>1. Inv /\ [Next]_vars => [Stays]_vars
  <2>1. SUFFICES ASSUME Inv, Next, event'.type = "command"
                 PROVE  \A r \in world'.ran : r[1] = world.view \/ r[2] = <<>>
    OBVIOUS
  <2>2. SendCommand
    BY <2>1, EventTypes DEF Next
  <2> QED
    BY <2>1, <2>2, CommandStep
<1> QED
  BY <1>1, InvHolds, PTL DEF Spec, CommandsStayHome

\* Two sessions with the same text answer a key alike.
LEMMA SameEffect ==
  ASSUME NEW s, NEW t, s.reading = t.reading, s.conv = t.conv, NEW key
  PROVE  KeyEffect(s, key) = KeyEffect(t, key)
BY DEF KeyEffect

\* For a user who does not type on while converting, RecordSuccessfulKey keeps
\* the whole reading: with any number of faults, a key does what it would have
\* done in a session that had never been lost, or begins a new composition, and
\* this only if the journal had been given up before or is not kept.
THEOREM ReadingSurvivesHolds ==
  ASSUME TypeOverConversion = FALSE
  PROVE  Spec => ReadingSurvives
<1> DEFINE Survives ==
      /\ event'.type = "key" /\ event'.ok =>
           \/ shown' = Screen(KeyEffect(shown, event'.key))
           \/ /\ shown' = Screen(KeyEffect(Nothing, event'.key))
              /\ secure \/ world.suppressed
      /\ event'.type = "command" =>
           \/ shown'.reading = shown.reading
           \/ shown' = Nothing /\ (secure \/ world.suppressed)
<1>1. Inv /\ [Next]_vars => [Survives]_vars
  <2>1. SUFFICES ASSUME Inv, Next PROVE Survives
    OBVIOUS
  <2>2. ASSUME event'.type = "key", event'.ok
        PROVE  \/ shown' = Screen(KeyEffect(shown, event'.key))
               \/ /\ shown' = Screen(KeyEffect(Nothing, event'.key))
                  /\ secure \/ world.suppressed
    <3>1. PICK key \in Keys : ProcessKeyEvent(key)
      BY <2>1, <2>2, EventTypes DEF Next
    <3>2. event'.key = key
      BY <3>1, EventTypes
    <3>3. PICK u, g : /\ Open(u, shown, secure, g) /\ u.session # None
                      /\ u.suppressed => world.suppressed
                      /\ shown' = Screen(KeyEffect(u.session, key))
      BY <2>1, <2>2, <3>1, KeyStep
    <3>4. /\ Core(u)
          /\ Screen(u.session) = shown \/ (Blank(u) /\ (secure \/ u.suppressed))
      BY <3>3 DEF Open
    <3>5. CASE Screen(u.session) = shown
      <4>1. shown.reading = u.session.reading /\ shown.conv = u.session.conv
        BY <3>5 DEF Screen
      <4>2. KeyEffect(shown, key) = KeyEffect(u.session, key)
        BY <4>1, SameEffect
      <4> QED
        BY <3>2, <3>3, <4>2
    <3>6. CASE Blank(u) /\ (secure \/ u.suppressed)
      <4>1. u.session.reading = Nothing.reading /\ u.session.conv = Nothing.conv
        BY <3>3, <3>4, <3>6, SessionContents DEF Nothing
      <4>2. KeyEffect(Nothing, key) = KeyEffect(u.session, key)
        BY <4>1, SameEffect
      <4> QED
        BY <3>2, <3>3, <3>6, <4>2
    <3> QED
      BY <3>4, <3>5, <3>6
  <2>3. ASSUME event'.type = "command"
        PROVE  \/ shown'.reading = shown.reading
               \/ shown' = Nothing /\ (secure \/ world.suppressed)
    <3>1. SendCommand
      BY <2>1, <2>3, EventTypes DEF Next
    <3> QED
      BY <2>1, <3>1, CommandStep
  <2> QED
    BY <2>2, <2>3
<1> QED
  BY <1>1, InvHolds, PTL DEF Spec, ReadingSurvives

=============================================================================
