------------------------ MODULE SessionWatchDogProofs ------------------------
(***************************************************************************)
(* Proofs about SessionWatchDog, for any backlog, number of pings and      *)
(* loads.                                                                  *)
(*                                                                         *)
(* That an abort comes only after PingTrial + 1 timeouts in a row is not   *)
(* inductive: it depends on how far the dog has come.  While the server    *)
(* serves, the dog's own count of pings and the timeouts that there were   *)
(* go together, a closed connection is never seen, and the serving thread  *)
(* holds a request only while it serves one.                               *)
(***************************************************************************)
EXTENDS SessionWatchDog, TLAPS

\* A request is in hand only while it is being served.
HandsInv == loop \in {"accept", "ended"} => current = NoRequest

\* As long as the server serves, every call that did not succeed has timed out.
CountInv ==
  loop # "ended" =>
    /\ answer # "closed"
    /\ dog.at \in {"idle", "cleanup", "cleaning"} => dog.trial = 0 /\ missed = 0
    /\ dog.at \in {"wait", "ping", "pinging"} => dog.trial > 0 /\ missed = dog.trial
    /\ dog.at \in {"last", "aborted"} => missed = PingTrial + 1

Inv == TypeOK /\ HandsInv /\ CountInv

USE ConstantsAssumption

\* The types but for the dog's call, which most of the steps leave alone.
Types ==
  /\ loop \in {"accept", "serving", "hung", "ended"}
  /\ current \in Requests /\ backlog \in Seq(Requests) /\ Len(backlog) <= Backlog
  /\ dog \in [at : {"idle", "cleanup", "cleaning", "wait", "ping", "pinging",
                    "last", "stopped", "aborted"}, trial : 0..PingTrial]
  /\ answer \in {Silent, "answer", "closed"} /\ stop \in BOOLEAN
  /\ main \in {"wait", "engine", "join", "exited"}
  /\ load \in [early : Loads, late : Loads] /\ missed \in 0..PingTrial + 1
  /\ answer # Silent => dog.at \in {"cleaning", "pinging"}

\* A call under way is at one place, and there is none otherwise.
OneCall == IF Calling THEN \E i \in 0..Backlog : CallsAt = {i} ELSE CallsAt = {}

\* The two are the type invariant.
LEMMA TypeParts == TypeOK <=> Types /\ OneCall
  BY Zenon DEF TypeOK, Types, OneCall

\* The invariant holds when the server starts.
LEMMA InitInv == Init => Inv
<1> SUFFICES ASSUME Init PROVE Inv
  OBVIOUS
<1>1. stop \in BOOLEAN
  BY Zenon DEF Init
<1>2. Types
  BY <1>1 DEF Init, Types, Requests, NoRequest
<1>3. OneCall
  BY DEF Init, OneCall, Calling, CallsAt, OfDog, NoRequest
<1>4. HandsInv /\ CountInv
  BY DEF Init, HandsInv, CountInv
<1> QED
  BY <1>2, <1>3, <1>4, TypeParts DEF Inv

-----------------------------------------------------------------------------
(* The dog's call.                                                          *)

\* A step that leaves the requests and the wait for an answer alone.
LEMMA CallUntouched ==
  ASSUME OneCall, UNCHANGED <<current, backlog>>, Calling' <=> Calling
  PROVE  OneCall'
  BY DEF OneCall, CallsAt, OfDog

\* A connection at the end of the backlog: a live request of the dog is one
\* more, any other request is none.
LEMMA CallAppended ==
  ASSUME Types, NEW r \in Requests, backlog' = Append(backlog, r), UNCHANGED current
  PROVE  CallsAt' = CallsAt \cup IF OfDog(r) THEN {Len(backlog) + 1} ELSE {}
<1>1. backlog \in Seq(Requests) /\ Len(backlog) \in Nat
  BY DEF Types
<1>2. /\ Len(backlog') = Len(backlog) + 1 /\ backlog'[Len(backlog) + 1] = r
      /\ \A i \in 1..Len(backlog) : backlog'[i] = backlog[i]
  BY <1>1
<1> QED
  BY <1>1, <1>2 DEF CallsAt, OfDog

\* accept: every request comes one place nearer.
LEMMA CallAccepted ==
  ASSUME Types, backlog # <<>>, ~OfDog(current),
         current' = Head(backlog), backlog' = Tail(backlog)
  PROVE  CallsAt' = {i - 1 : i \in CallsAt}
<1>1. backlog \in Seq(Requests) /\ Len(backlog) \in Nat /\ Len(backlog) > 0
  BY DEF Types
<1>2. /\ Len(backlog') = Len(backlog) - 1 /\ current' = backlog[1]
      /\ \A i \in 1..Len(backlog) - 1 : backlog'[i] = backlog[i + 1]
  BY <1>1
<1>3. ASSUME NEW i \in CallsAt' PROVE i \in {j - 1 : j \in CallsAt}
  <2>1. i + 1 \in CallsAt /\ i = (i + 1) - 1
    BY <1>1, <1>2, <1>3 DEF CallsAt, OfDog
  <2> QED
    BY <2>1
<1>4. ASSUME NEW j \in CallsAt PROVE j - 1 \in CallsAt'
  BY <1>1, <1>2, <1>4 DEF CallsAt, OfDog
<1> QED
  BY <1>3, <1>4

\* Serving the request: only that one goes.
LEMMA CallServed ==
  ASSUME Types, current' = NoRequest, UNCHANGED backlog
  PROVE  CallsAt' = CallsAt \ {0}
  BY DEF Types, CallsAt, OfDog, NoRequest

-----------------------------------------------------------------------------
\* Where the thread after an answer or a failed call stands.
LEMMA AfterCall ==
  ASSUME Types, Succeeded \/ FailedCall
  PROVE  /\ dog' \in [at : {"idle", "wait", "last"}, trial : 0..PingTrial]
         /\ Succeeded => dog' = [at |-> "idle", trial |-> 0]
  BY DEF Types, Succeeded, FailedCall

\* No step breaks the invariant.
LEMMA StepInv == Inv /\ [Next]_vars => Inv'
<1> SUFFICES ASSUME Inv, [Next]_vars PROVE Inv'
  OBVIOUS
<1>0. Types /\ OneCall /\ HandsInv /\ CountInv
  BY TypeParts DEF Inv
<1> SUFFICES Types' /\ OneCall' /\ HandsInv' /\ CountInv'
  BY TypeParts, PTL DEF Inv
<1> USE DEF Alive, At, Goto
<1>1. CASE Connect
  <2>1. PICK r \in Requests : backlog' = Append(backlog, r) /\ ~OfDog(r)
    <3>1. PICK type \in {"USER", "SHUTDOWN"} :
            backlog' = Append(backlog, [type |-> type, live |-> TRUE])
      BY <1>1 DEF Connect
    <3>2. [type |-> type, live |-> TRUE] \in Requests
      BY <3>1 DEF Requests
    <3>3. ~OfDog([type |-> type, live |-> TRUE])
      BY <3>1 DEF OfDog
    <3> QED
      BY <3>1, <3>2, <3>3
  <2>2. Types'
    BY <1>0, <1>1, <2>1 DEF Types, Connect
  <2>3. CallsAt' = CallsAt /\ (Calling' <=> Calling)
    BY <1>0, <1>1, <2>1, CallAppended DEF Connect, Calling
  <2>4. OneCall'
    BY <1>0, <2>3 DEF OneCall
  <2> QED
    BY <1>0, <1>1, <2>2, <2>4 DEF Connect, HandsInv, CountInv
<1>2. CASE Accept
  <2>1. ~OfDog(current)
    BY <1>0, <1>2 DEF Accept, HandsInv, OfDog, NoRequest
  <2>2. CallsAt' = {i - 1 : i \in CallsAt} /\ (Calling' <=> Calling)
    BY <1>0, <1>2, <2>1, CallAccepted DEF Accept, Calling
  <2>3. 0 \notin CallsAt
    BY <2>1 DEF CallsAt
  <2>4. OneCall'
    BY <1>0, <2>2, <2>3 DEF OneCall
  <2>5. Types'
    BY <1>0, <1>2 DEF Types, Accept
  <2> QED
    BY <1>0, <1>2, <2>4, <2>5 DEF Accept, HandsInv, CountInv
<1>3. CASE Serve
  <2>1. CallsAt' = CallsAt \ {0}
    BY <1>0, <1>3, CallServed DEF Serve
  <2>2. Len(backlog) \in Nat
    BY <1>0 DEF Types
  <2>3. OfDog(current) <=> 0 \in CallsAt
    BY <2>2 DEF CallsAt
  <2>4. CASE OfDog(current)
    <3>1. Calling /\ CallsAt = {0} /\ answer' = "answer" /\ ~Calling'
      BY <1>0, <1>3, <2>3, <2>4 DEF OneCall, Serve, Calling
    <3>2. OneCall'
      BY <2>1, <3>1 DEF OneCall
    <3>3. Types'
      BY <1>0, <1>3, <2>4, <3>1 DEF Types, Serve, Requests, NoRequest, Calling
    <3> QED
      BY <1>0, <1>3, <3>1, <3>2, <3>3 DEF Serve, HandsInv, CountInv
  <2>5. CASE ~OfDog(current)
    <3>1. CallsAt' = CallsAt /\ answer' = answer /\ (Calling' <=> Calling)
      BY <1>3, <2>1, <2>3, <2>5 DEF Serve, Calling
    <3>2. OneCall'
      BY <1>0, <3>1 DEF OneCall
    <3>3. Types'
      BY <1>0, <1>3, <3>1 DEF Types, Serve, Requests, NoRequest
    <3> QED
      BY <1>0, <1>3, <3>1, <3>2, <3>3 DEF Serve, HandsInv, CountInv
  <2> QED
    BY <2>4, <2>5
<1>4. CASE EndLoop
  <2>1. CallsAt' = {}
    BY <1>4 DEF EndLoop, CallsAt, OfDog, NoRequest
  <2>2. Len(backlog) \in Nat /\ backlog \in Seq(Requests)
    BY <1>0 DEF Types
  <2>3. (\E r \in Range(backlog) \cup {current} : OfDog(r)) <=> CallsAt # {}
    BY <2>2 DEF CallsAt, Range
  <2>4. CASE CallsAt # {}
    <3>1. Calling /\ answer' = "closed" /\ UNCHANGED dog
      BY <1>0, <1>4, <2>3, <2>4 DEF OneCall, EndLoop
    <3>2. ~Calling' /\ dog.at \in {"cleaning", "pinging"}
      BY <3>1 DEF Calling
    <3>3. Types'
      BY <1>0, <1>4, <3>1, <3>2 DEF Types, EndLoop, Requests, NoRequest
    <3> QED
      BY <1>4, <2>1, <3>2, <3>3 DEF OneCall, EndLoop, HandsInv, CountInv
  <2>5. CASE CallsAt = {}
    <3>1. ~Calling /\ UNCHANGED <<dog, answer>>
      BY <1>0, <1>4, <2>3, <2>5 DEF OneCall, EndLoop
    <3>2. ~Calling'
      BY <3>1 DEF Calling
    <3>3. Types'
      BY <1>0, <1>4, <3>1 DEF Types, EndLoop, Requests, NoRequest
    <3> QED
      BY <1>4, <2>1, <3>2, <3>3 DEF OneCall, EndLoop, HandsInv, CountInv
  <2> QED
    BY <2>4, <2>5
<1>5. CASE Hang
  <2>1. OneCall'
    BY <1>0, <1>5, CallUntouched DEF Hang, Calling
  <2> QED
    BY <1>0, <1>5, <2>1 DEF Hang, Types, HandsInv, CountInv
<1>6. CASE Stopped \/ PingWait \/ Abort
  <2>1. OneCall'
    BY <1>0, <1>6, CallUntouched DEF Stopped, PingWait, Abort, Calling, Types
  <2>2. Types'
    BY <1>0, <1>6 DEF Stopped, PingWait, Abort, Types
  <2> QED
    BY <1>0, <1>6, <2>1, <2>2 DEF Stopped, PingWait, Abort, Types, HandsInv, CountInv
<1>7. ASSUME NEW pass \in BOOLEAN, Check(pass)
      PROVE  Types' /\ OneCall' /\ HandsInv' /\ CountInv'
  <2>1. /\ At("idle") /\ dog'.at \in {"cleanup", "idle"} /\ dog'.trial = dog.trial
        /\ dog' \in [at : {"cleanup", "idle"}, trial : 0..PingTrial]
        /\ load' \in [early : Loads, late : Loads]
        /\ UNCHANGED <<loop, current, backlog, answer, stop, main, missed>>
    BY <1>0, <1>7 DEF Check, Types
  <2>2. OneCall'
    BY <1>0, <2>1, CallUntouched DEF Calling
  <2>3. Types'
    BY <1>0, <2>1 DEF Types
  <2> QED
    BY <1>0, <2>1, <2>2, <2>3 DEF HandsInv, CountInv
<1>8. ASSUME NEW type \in {"CLEANUP", "PING"}, Alive, Dial(type),
             \/ dog.at = "cleanup" /\ Goto("cleaning")
             \/ dog.at = "ping" /\ Goto("pinging")
      PROVE  Types' /\ OneCall' /\ HandsInv' /\ CountInv'
  <2> DEFINE r == [type |-> type, live |-> TRUE]
  <2>1. r \in Requests /\ OfDog(r)
    BY DEF Requests, OfDog
  <2>2. CallsAt = {} /\ answer = Silent
    BY <1>0, <1>8 DEF OneCall, Calling, Types
  <2>3. /\ backlog' = Append(backlog, r) /\ Len(backlog) < Backlog
        /\ UNCHANGED <<current, loop, answer, stop, main, load, missed>>
    BY <1>8 DEF Dial
  <2> HIDE DEF r
  <2>4. CallsAt' = {Len(backlog) + 1}
    BY <1>0, <2>1, <2>2, <2>3, CallAppended
  <2>5. dog' \in [at : {"cleaning", "pinging"}, trial : 0..PingTrial]
        /\ dog'.trial = dog.trial
    BY <1>0, <1>8 DEF Types
  <2>6. Calling' /\ Len(backlog) + 1 \in 0..Backlog
    BY <1>0, <2>2, <2>3, <2>5 DEF Calling, Types
  <2>7. OneCall'
    BY <2>4, <2>6 DEF OneCall
  <2>8. Types'
    BY <1>0, <2>1, <2>2, <2>3, <2>5 DEF Types
  <2> QED
    BY <1>0, <1>8, <2>3, <2>5, <2>7, <2>8 DEF HandsInv, CountInv
<1>9. CASE Return
  <2>1. ~Calling /\ ~Calling' /\ Calling' = Calling
    BY <1>0, <1>9, AfterCall DEF Return, Calling, Types
  <2>2. OneCall'
    BY <1>0, <1>9, <2>1, CallUntouched DEF Return
  <2>3. dog' \in [at : {"idle", "wait", "last"}, trial : 0..PingTrial]
    BY <1>0, <1>9, AfterCall DEF Return
  <2>4. Types'
    BY <1>0, <1>9, <2>3 DEF Return, Types
  <2>5. CountInv'
    BY <1>0, <1>9, AfterCall DEF Return, CountInv
  <2> QED
    BY <1>0, <1>9, <2>2, <2>4, <2>5 DEF Return, HandsInv
<1>10. CASE Refused
  <2>1. dog' \in [at : {"idle", "wait", "last"}, trial : 0..PingTrial]
    BY <1>0, <1>10, AfterCall DEF Refused
  <2>2. ~Calling /\ ~Calling' /\ answer = Silent
    BY <1>0, <1>10, <2>1 DEF Refused, Calling, Types
  <2>3. OneCall'
    BY <1>0, <1>10, <2>2, CallUntouched DEF Refused
  <2>4. Types'
    BY <1>0, <1>10, <2>1, <2>2 DEF Refused, Types
  <2> QED
    BY <1>0, <1>10, <2>3, <2>4 DEF Refused, HandsInv, CountInv
<1>11. CASE Timeout
  <2> DEFINE given(r) == IF OfDog(r) THEN [r EXCEPT !.live = FALSE] ELSE r
  <2>1. /\ dog.at \in {"cleaning", "pinging"} /\ answer = Silent
        /\ backlog' = [i \in DOMAIN backlog |-> given(backlog[i])]
        /\ current' = given(current) /\ missed' = Missed /\ FailedCall
        /\ UNCHANGED <<loop, answer, stop, main, load>>
    BY <1>11 DEF Timeout
  <2>2. ASSUME NEW r \in Requests
        PROVE  given(r) \in Requests /\ ~OfDog(given(r)) /\ (r = NoRequest => given(r) = r)
    <3>1. CASE OfDog(r)
      <4>1. given(r) = [r EXCEPT !.live = FALSE] /\ r # NoRequest
        BY <3>1 DEF OfDog, NoRequest
      <4>2. [r EXCEPT !.live = FALSE] \in Requests
        BY DEF Requests
      <4>3. ~OfDog([r EXCEPT !.live = FALSE])
        BY DEF Requests, OfDog
      <4> QED
        BY <4>1, <4>2, <4>3
    <3>2. CASE ~OfDog(r)
      BY <3>2
    <3> QED
      BY <3>1, <3>2
  <2> HIDE DEF given
  <2>3. /\ backlog' \in Seq(Requests) /\ Len(backlog') = Len(backlog)
        /\ \A i \in 1..Len(backlog) : backlog'[i] = given(backlog[i])
        /\ \A i \in 1..Len(backlog) : backlog[i] \in Requests
    <3>1. /\ DOMAIN backlog = 1..Len(backlog) /\ Len(backlog) \in Nat
          /\ \A i \in 1..Len(backlog) : backlog[i] \in Requests
      BY <1>0 DEF Types
    <3>2. \A i \in 1..Len(backlog) : given(backlog[i]) \in Requests
      BY <2>2, <3>1
    <3> QED
      BY <2>1, <3>1, <3>2
  <2>4. CallsAt' = {}
    BY <1>0, <2>1, <2>2, <2>3 DEF CallsAt, Types
  <2>5. dog' \in [at : {"idle", "wait", "last"}, trial : 0..PingTrial]
    BY <1>0, <2>1, AfterCall
  <2>6. ~Calling' /\ OneCall'
    BY <2>4, <2>5 DEF Calling, OneCall
  <2>7. Types'
    BY <1>0, <2>1, <2>2, <2>3, <2>5 DEF Types, Missed
  <2>8. HandsInv'
    BY <1>0, <2>1, <2>2 DEF HandsInv, Types
  <2>9. CountInv'
    BY <1>0, <2>1 DEF CountInv, Types, Missed, FailedCall
  <2> QED
    BY <2>6, <2>7, <2>8, <2>9
<1>12. CASE DestroyEngine \/ Notify \/ Join
  <2>1. UNCHANGED <<loop, current, backlog, dog, answer, load, missed>>
    BY <1>12 DEF DestroyEngine, Notify, Join
  <2>2. OneCall'
    BY <1>0, <2>1, CallUntouched DEF Calling
  <2>3. stop' \in BOOLEAN /\ main' \in {"wait", "engine", "join", "exited"}
    BY <1>0, <1>12 DEF DestroyEngine, Notify, Join, Types
  <2> QED
    BY <1>0, <2>1, <2>2, <2>3 DEF Types, HandsInv, CountInv
<1>13. CASE UNCHANGED vars
  <2>1. OneCall'
    BY <1>0, <1>13, CallUntouched DEF vars, Calling
  <2> QED
    BY <1>0, <1>13, <2>1 DEF vars, Types, HandsInv, CountInv
<1>14. CASE Cleanup \/ Ping
  BY <1>8, <1>14 DEF Cleanup, Ping
<1> QED
  BY <1>1, <1>2, <1>3, <1>4, <1>5, <1>6, <1>7, <1>9, <1>10, <1>11, <1>12, <1>13, <1>14
     DEF Next

\* While the server serves, the watch dog aborts the process only after CLEANUP
\* and all kPingTrial pings have timed out in a row, and it never takes the late
\* answer to one call for that to another: for every length of the backlog and
\* every number of pings.
THEOREM AbortIsEarned == Spec => []NoHastyAbort
<1>1. Inv => NoHastyAbort
  BY DEF Inv, CountInv, NoHastyAbort
<1> QED
  BY InitInv, StepInv, <1>1, PTL DEF Spec
=============================================================================
