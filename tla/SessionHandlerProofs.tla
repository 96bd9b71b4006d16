------------------------ MODULE SessionHandlerProofs ------------------------
(***************************************************************************)
(* Proofs about SessionHandler, for any sessions, settings, timeouts and   *)
(* clocks, with the loader thread running all the while.                   *)
(*                                                                         *)
(* That all sessions have the handler's settings is not inductive: UNDO    *)
(* puts back the settings of an earlier time.  The inductive invariant     *)
(* says that these are the same too, and that every session refers to the  *)
(* data that the engine has now.  For the loader's part, every step of the *)
(* handler is a step of DataLoader, so its theorems carry over.            *)
(***************************************************************************)
EXTENDS SessionHandler, SequenceTheorems, TLAPS

-----------------------------------------------------------------------------
(* DataLoader, for any requests and priorities.  The properties look at the *)
(* engine's side, data and response, while the decisions are made on the    *)
(* loader's side, requests_ and current_request_id_.  The inductive         *)
(* invariant ties the two together: a request in requests_ never failed;    *)
(* the current request stays in requests_, so that a front never has a      *)
(* lower priority than it; and what is current is what was handed over last.*)

\* The loader is at work on the request that it took.
Working == loaderPc \in {"taken", "wait", "build", "callback", "success"}

\* A request in requests_ has not failed, and the current one is in it.
RequestsInv ==
  /\ \A r \in Requests : sequence[r] > 0 => r \notin unregistered
  /\ current # Null => sequence[current] > 0

\* The request at work is in requests_, is another than the current one, and
\* was preferred to it.
TakenInv ==
  Working =>
    /\ taken \in Requests /\ sequence[taken] > 0 /\ taken # current
    /\ current # Null => Priority[taken] <= Priority[current]

\* What is current is with the engine, but for the moment between the
\* callback and the report.
HandOverInv ==
  /\ loaderPc = "success" => response = taken
  /\ loaderPc # "success" => current = IF response = Null THEN data ELSE response
  /\ data # Null => current # Null /\ Priority[current] <= Priority[data]

Inv ==
  /\ LoaderTypeOK
  /\ serverPc = "notify" => asked \in Requests
  /\ RequestsInv /\ TakenInv /\ HandOverInv

USE LoaderAssumption

\* The invariant holds when the server starts: no request, no data.
LEMMA InitInv == LoaderInit => Inv
<1> SUFFICES ASSUME LoaderInit PROVE Inv
  OBVIOUS
<1>1. sequence \in [Requests -> 0..MaxRegistrations] /\ \A r \in Requests : sequence[r] = 0
  BY DEF LoaderInit
<1>2. {current, taken, response, data, asked} \subseteq Requests \cup {Null}
  BY Zenon DEF LoaderInit
<1>3. highNotified \in BOOLEAN
  BY Zenon DEF LoaderInit
<1>4. LoaderTypeOK
  BY <1>1, <1>2, <1>3 DEF LoaderInit, LoaderTypeOK
<1> QED
  BY <1>1, <1>4 DEF LoaderInit, Inv, RequestsInv, TakenInv, HandOverInv, Working

\* No step of either thread breaks the invariant.
LEMMA StepInv == Inv /\ [LoaderNext]_loaderVars => Inv'
<1> SUFFICES ASSUME Inv, [LoaderNext]_loaderVars PROVE Inv'
  OBVIOUS
<1> USE DEF Inv, LoaderTypeOK, RequestsInv, TakenInv, HandOverInv, Working, mutexVars
<1>1. ASSUME NEW r \in Requests, StartNewDataBuildTask(r) PROVE Inv'
  <2> USE <1>1 DEF StartNewDataBuildTask
  <2>1. sequence' \in [Requests -> 0..MaxRegistrations] /\ sequence'[r] > 0
        /\ \A s \in Requests : sequence[s] > 0 => sequence'[s] > 0
    OBVIOUS
  <2>2. LoaderTypeOK' /\ (serverPc' = "notify" => asked' \in Requests)
    BY <2>1
  <2>3. RequestsInv'
    BY <2>1
  <2>4. TakenInv' /\ HandOverInv'
    BY <2>1
  <2> QED BY <2>2, <2>3, <2>4
<1>2. CASE NotifyHighPriority
  BY <1>2 DEF NotifyHighPriority
<1>3. CASE ScheduleLoop
  BY <1>3 DEF ScheduleLoop, IsRunning
<1>4. CASE ReloadEngine
  BY <1>4 DEF ReloadEngine, MaybeReloadEngine, IsRunning
<1>5. CASE TakeRequest
  <2>1. PICK r \in Requests \ {current} : IsFront(sequence, r) /\ taken' = r
    BY <1>5 DEF TakeRequest
  <2>2. current # Null => Priority[r] <= Priority[current]
    BY <2>1 DEF IsFront, Precedes
  <2> QED BY <1>5, <2>1, <2>2 DEF TakeRequest, IsFront
<1>6. CASE NoPendingRequest
  BY <1>6 DEF NoPendingRequest
<1>7. CASE PollHighPriority
  BY <1>7 DEF PollHighPriority
<1>8. CASE WaitForHighPriority
  BY <1>8 DEF WaitForHighPriority
<1>9. CASE Build
  BY <1>9 DEF Build
<1>10. CASE BuildFails
  <2> USE <1>10 DEF BuildFails
  <2>1. LoaderTypeOK'
    OBVIOUS
  <2>2. RequestsInv'
    OBVIOUS
  <2> QED BY <2>1, <2>2
<1>11. CASE Callback
  BY <1>11 DEF Callback
<1>12. CASE ReportLoadSuccess
  BY <1>12 DEF ReportLoadSuccess
<1>13. CASE EndTask
  BY <1>13 DEF EndTask
<1>14. CASE UNCHANGED loaderVars
  BY <1>14 DEF loaderVars
<1> QED
  BY <1>1, <1>2, <1>3, <1>4, <1>5, <1>6, <1>7, <1>8, <1>9, <1>10, <1>11, <1>12, <1>13, <1>14
  DEF LoaderNext, LoaderStep, ServerStep

\* The inductive invariant of both threads holds in every behaviour.
THEOREM LoaderInvariance == LoaderSpec => []Inv
  BY InitInv, StepInv, PTL DEF LoaderSpec

\* The variables of the loader and of the engine keep their types.
THEOREM LoaderTypeCorrect == LoaderSpec => []LoaderTypeOK
<1>1. Inv => LoaderTypeOK
  BY DEF Inv
<1> QED BY <1>1, LoaderInvariance, PTL

\* When the loader rests, the request that DataLoader calls current is the one
\* that Engine has or is about to take over.
THEOREM HandedOver == LoaderSpec => []ResponseIsCurrent
<1>1. Inv => ResponseIsCurrent
  BY DEF Inv, HandOverInv, ResponseIsCurrent, IsRunning
<1> QED BY <1>1, LoaderInvariance, PTL

\* A step changes the engine's data only to data of the same or a higher
\* priority: what waits for the engine is current, and the current request is
\* the best there is.
LEMMA DataStep ==
  ASSUME Inv, [LoaderNext]_loaderVars
  PROVE  data' # data /\ data # Null => Priority[data'] <= Priority[data]
<1> SUFFICES ASSUME data' # data, data # Null PROVE Priority[data'] <= Priority[data]
  OBVIOUS
<1>1. ReloadEngine
  BY DEF LoaderNext, LoaderStep, ServerStep, StartNewDataBuildTask, NotifyHighPriority,
         ScheduleLoop, TakeRequest, NoPendingRequest, PollHighPriority,
         WaitForHighPriority, Build, BuildFails, Callback, ReportLoadSuccess, EndTask,
         loaderVars
<1>2. data' = response /\ response # Null /\ loaderPc = "ended"
  BY <1>1 DEF ReloadEngine, MaybeReloadEngine, IsRunning
<1> QED
  BY <1>2 DEF Inv, HandOverInv

\* A step hands over only data that has not failed.
LEMMA ResponseStep ==
  ASSUME Inv, [LoaderNext]_loaderVars
  PROVE  \A r \in unregistered : response' = r => response = r
<1> SUFFICES ASSUME NEW r \in unregistered, response' = r, response # r PROVE FALSE
  OBVIOUS
<1>1. r \in Requests /\ r # Null
  BY DEF Inv, LoaderTypeOK
<1>2. Callback
  BY <1>1 DEF LoaderNext, LoaderStep, ServerStep, StartNewDataBuildTask,
              NotifyHighPriority, ScheduleLoop, ReloadEngine, MaybeReloadEngine, TakeRequest,
              NoPendingRequest, PollHighPriority, WaitForHighPriority, Build, BuildFails,
              ReportLoadSuccess, EndTask, loaderVars
<1> QED
  BY <1>1, <1>2 DEF Callback, Inv, RequestsInv, TakenInv, Working

\* Engine::MaybeReloadEngine never installs data of a lower priority than the
\* data in use.
THEOREM NeverDowngrades == LoaderSpec => NoDowngrade
  BY DataStep, LoaderInvariance, PTL DEF LoaderSpec, NoDowngrade

\* A request whose data failed to load is never handed to the engine again.
THEOREM FailuresStayOut == LoaderSpec => FailedStaysOut
  BY ResponseStep, LoaderInvariance, PTL DEF LoaderSpec, FailedStaysOut

-----------------------------------------------------------------------------
(* SessionHandler.                                                          *)

HIDE LoaderAssumption
USE HandlerAssumption

\* The settings that a session, or a context on its undo stack, has.
Settled(s) == s.config = config /\ s.request = request /\ s.keymap = keymap

\* A session of the map: its settings, those that UNDO would bring back, and its
\* data.
Agrees(s) ==
  /\ s \in Sessions /\ Len(s.undo) <= MaxUndo
  /\ Settled(s) /\ \A k \in 1..Len(s.undo) : Settled(s.undo[k])
  /\ s.data = data

\* The keys of the session map.
Keys(l) == l \in Seq(SessionIds) /\ IsInjective(l)

MapInv ==
  /\ Keys(lru) /\ Len(lru) <= MaxSessions
  /\ sessions \in [ToSet(lru) -> Sessions]
  /\ \A id \in ToSet(lru) : Agrees(sessions[id])

\* The rest of the handler's state.
HandlerTypes ==
  /\ now \in Times /\ status \in {"available", "shutdown", "timeout"}
  /\ emptyTime \in Times \cup {Past} /\ cleanupTime \in Times \cup {Past}
  /\ createTime \in Times \cup {Past}
  /\ config \in Configs /\ request \in ClientRequests /\ keymap = Keymap[config]

HandlerInv == Inv /\ HandlerTypes /\ MapInv /\ EmptyTimeExact

-----------------------------------------------------------------------------
(* The loader within the handler.                                           *)

\* Every step of the server and of the loader thread is one of DataLoader.
LEMMA HandlerIsLoader == [Next]_vars => [LoaderNext]_loaderVars
<1> SUFFICES ASSUME [Next]_vars, UNCHANGED loaderVars => FALSE PROVE LoaderNext
  OBVIOUS
<1>1. ASSUME NEW id \in SessionIds, CreateSession(id) PROVE LoaderNext
  <2>1. MaybeReloadEngine /\ serverPc = "idle"
        /\ UNCHANGED <<mutexVars, highNotified, loaderPc, taken, serverPc, asked>>
    BY <1>1 DEF CreateSession, Ready, loaderVars
  <2> QED
    BY <2>1 DEF LoaderNext, ReloadEngine
<1>2. ASSUME NEW r \in Requests, SendEngineReloadRequest(r) PROVE LoaderNext
  BY <1>2 DEF SendEngineReloadRequest, LoaderNext
<1>3. CASE Loading
  BY <1>3 DEF Loading, LoaderNext
<1>4. ASSUME NEW id \in SessionIds,
             DeleteSession(id) \/ SendKey(id) \/ Undo(id) \/ ApplicationDies(id)
      PROVE  FALSE
  BY <1>4 DEF DeleteSession, SendKey, Undo, ApplicationDies
<1>5. ASSUME NEW id \in SessionIds, NEW cfg \in Configs, SendKeyWithConfig(id, cfg)
      PROVE  FALSE
  BY <1>5 DEF SendKeyWithConfig
<1>6. ~\E cfg \in Configs : SetConfig(cfg)
  BY DEF SetConfig
<1>7. ~\E req \in ClientRequests : SetRequest(req)
  BY DEF SetRequest
<1>8. ~Shutdown /\ ~Cleanup /\ ~Tick /\ ~UNCHANGED vars
  BY DEF Shutdown, Cleanup, Tick, vars
<1> QED
  BY <1>1, <1>2, <1>3, <1>4, <1>5, <1>6, <1>7, <1>8 DEF Next

\* The composition of the handler with the loader keeps the loader's invariant.
LEMMA LoaderWithin == Inv /\ [Next]_vars => Inv'
  BY HandlerIsLoader, StepInv

-----------------------------------------------------------------------------
(* The keys of the session map.                                             *)

\* Set of a sequence, by positions.
LEMMA InToSet ==
  ASSUME NEW S, NEW l \in Seq(S)
  PROVE  ToSet(l) = {l[i] : i \in 1..Len(l)} /\ ToSet(l) \subseteq S
  BY DEF ToSet

\* A key that comes first moves no other out and doubles none.
LEMMA ConsKeys ==
  ASSUME NEW l, Keys(l), NEW id \in SessionIds, id \notin ToSet(l)
  PROVE  /\ Keys(<<id>> \o l) /\ Len(<<id>> \o l) = Len(l) + 1
         /\ ToSet(<<id>> \o l) = ToSet(l) \cup {id} /\ <<id>> \o l # <<>>
<1> DEFINE m == <<id>> \o l
<1>1. l \in Seq(SessionIds) /\ Len(l) \in Nat
  BY DEF Keys
<1>2. /\ m \in Seq(SessionIds) /\ Len(m) = Len(l) + 1 /\ m[1] = id
      /\ \A i \in 1..Len(l) : m[i + 1] = l[i]
  BY <1>1, SMTT(30)
<1>3. \A i \in 2..Len(m) : m[i] = l[i - 1] /\ i - 1 \in 1..Len(l)
  BY <1>1, <1>2
<1> HIDE DEF m
<1>4. ToSet(m) = {m[i] : i \in 1..Len(m)} /\ ToSet(l) = {l[i] : i \in 1..Len(l)}
  BY <1>1, <1>2, InToSet
<1>5. ToSet(m) = ToSet(l) \cup {id}
  <2>1. ASSUME NEW x \in ToSet(m) PROVE x \in ToSet(l) \cup {id}
    <3>1. PICK i \in 1..Len(m) : x = m[i]
      BY <1>4
    <3>2. CASE i = 1
      BY <1>2, <3>1, <3>2
    <3>3. CASE i # 1
      <4>1. i \in 2..Len(m)
        BY <1>1, <1>2, <3>3
      <4> QED
        BY <1>3, <1>4, <3>1, <4>1
    <3> QED
      BY <3>2, <3>3
  <2>2. id \in ToSet(m)
    BY <1>1, <1>2, <1>4
  <2>3. ASSUME NEW x \in ToSet(l) PROVE x \in ToSet(m)
    <3>1. PICK i \in 1..Len(l) : x = l[i]
      BY <1>4
    <3>2. i + 1 \in 1..Len(m) /\ m[i + 1] = x
      BY <1>1, <1>2, <3>1
    <3> QED
      BY <1>4, <3>2
  <2> QED
    BY <2>1, <2>2, <2>3
<1>6. IsInjective(m)
  <2>1. DOMAIN m = 1..Len(m) /\ DOMAIN l = 1..Len(l)
    BY <1>1, <1>2
  <2>2. \A i \in 1..Len(l) : l[i] # id
    BY <1>4
  <2>3. \A i, j \in 1..Len(l) : l[i] = l[j] => i = j
    BY <2>1 DEF Keys, IsInjective
  <2>4. ASSUME NEW i \in 1..Len(m), NEW j \in 1..Len(m), m[i] = m[j] PROVE i = j
    <3>0. /\ i = 1 \/ (m[i] = l[i - 1] /\ i - 1 \in 1..Len(l))
          /\ j = 1 \/ (m[j] = l[j - 1] /\ j - 1 \in 1..Len(l))
      <4>1. (i = 1 \/ i \in 2..Len(m)) /\ (j = 1 \/ j \in 2..Len(m))
        BY <1>1, <1>2
      <4> QED
        BY <1>3, <4>1
    <3>1. CASE i = 1 \/ j = 1
      BY <1>2, <2>2, <2>4, <3>0, <3>1
    <3>2. CASE i # 1 /\ j # 1
      <4>1. i - 1 = j - 1
        BY <2>3, <2>4, <3>0, <3>2
      <4> QED
        BY <4>1
    <3> QED
      BY <3>1, <3>2
  <2> QED
    BY <2>1, <2>4 DEF IsInjective
<1> QED
  BY <1>2, <1>5, <1>6, <1>1 DEF m, Keys

\* What is left when one position is taken out.
LEMMA RemoveAtKeys ==
  ASSUME NEW l, Keys(l), NEW p \in 1..Len(l)
  PROVE  /\ Keys(RemoveAt(l, p)) /\ Len(RemoveAt(l, p)) = Len(l) - 1
         /\ ToSet(RemoveAt(l, p)) = ToSet(l) \ {l[p]}
<1> DEFINE m == RemoveAt(l, p)
<1>1. l \in Seq(SessionIds) /\ Len(l) \in Nat
  BY DEF Keys
<1>2. /\ m \in Seq(SessionIds) /\ Len(m) = Len(l) - 1
      /\ \A i \in 1..Len(m) : m[i] = l[IF i < p THEN i ELSE i + 1]
  <2> DEFINE a == SubSeq(l, 1, p - 1)
             b == SubSeq(l, p + 1, Len(l))
  <2>1. /\ a \in Seq(SessionIds) /\ Len(a) = p - 1
        /\ \A i \in 1..p - 1 : a[i] = l[i]
    BY <1>1
  <2>2. /\ b \in Seq(SessionIds) /\ Len(b) = Len(l) - p
        /\ \A i \in 1..Len(l) - p : b[i] = l[p + i]
    BY <1>1
  <2>3. m = a \o b
    BY DEF RemoveAt
  <2> HIDE DEF a, b, m
  <2>4. /\ m \in Seq(SessionIds) /\ Len(m) = Len(l) - 1
        /\ \A i \in 1..Len(m) : m[i] = IF i <= p - 1 THEN a[i] ELSE b[i - (p - 1)]
    <3>1. /\ m \in Seq(SessionIds) /\ Len(m) = Len(a) + Len(b)
          /\ \A i \in 1..Len(a) + Len(b) : m[i] = IF i <= Len(a) THEN a[i] ELSE b[i - Len(a)]
      BY <2>1, <2>2, <2>3, ConcatProperties, ZenonT(60)
    <3>2. Len(a) + Len(b) = Len(l) - 1
      BY <1>1, <2>1, <2>2
    <3> QED
      BY <2>1, <3>1, <3>2
  <2>5. ASSUME NEW i \in 1..Len(m) PROVE m[i] = l[IF i < p THEN i ELSE i + 1]
    <3>1. CASE i < p
      BY <1>1, <2>1, <2>4, <3>1
    <3>2. CASE ~(i < p)
      <4>1. i - (p - 1) \in 1..Len(l) - p /\ p + (i - (p - 1)) = i + 1
        BY <1>1, <2>4, <3>2
      <4> QED
        BY <1>1, <2>2, <2>4, <3>2, <4>1, SMTT(30)
    <3> QED
      BY <3>1, <3>2
  <2> QED
    BY <2>4, <2>5
<1> HIDE DEF m
<1>3. ToSet(m) = {m[i] : i \in 1..Len(m)} /\ ToSet(l) = {l[i] : i \in 1..Len(l)}
  BY <1>1, <1>2, InToSet, SMTT(30)
<1>4. \A i, j \in 1..Len(l) : l[i] = l[j] => i = j
  BY <1>1 DEF Keys, IsInjective
<1>5. ToSet(m) = ToSet(l) \ {l[p]}
  <2>1. ASSUME NEW x \in ToSet(m) PROVE x \in ToSet(l) \ {l[p]}
    <3>1. PICK i \in 1..Len(m) : x = m[i]
      BY <1>3
    <3>2. (IF i < p THEN i ELSE i + 1) \in 1..Len(l) \ {p}
      BY <1>1, <1>2
    <3> QED
      BY <1>2, <1>3, <1>4, <3>1, <3>2
  <2>2. ASSUME NEW x \in ToSet(l), x # l[p] PROVE x \in ToSet(m)
    <3>1. PICK i \in 1..Len(l) : x = l[i] /\ i # p
      BY <1>3, <2>2
    <3>2. CASE i < p
      <4>1. i \in 1..Len(m) /\ m[i] = x
        BY <1>1, <1>2, <3>1, <3>2
      <4> QED
        BY <1>3, <4>1
    <3>3. CASE i > p
      <4>1. i - 1 \in 1..Len(m) /\ ~(i - 1 < p) /\ (i - 1) + 1 = i
        BY <1>1, <1>2, <3>1, <3>3
      <4>2. m[i - 1] = x
        BY <1>2, <3>1, <4>1
      <4> QED
        BY <1>3, <4>1, <4>2
    <3> QED
      BY <3>1, <3>2, <3>3
  <2> QED
    BY <2>1, <2>2
<1>6. IsInjective(m)
  <2>1. DOMAIN m = 1..Len(m)
    BY <1>2
  <2>2. ASSUME NEW i \in 1..Len(m), NEW j \in 1..Len(m), m[i] = m[j] PROVE i = j
    <3> DEFINE f(k) == IF k < p THEN k ELSE k + 1
    <3>1. f(i) \in 1..Len(l) /\ f(j) \in 1..Len(l)
      BY <1>1, <1>2
    <3>2. l[f(i)] = l[f(j)]
      BY <1>2, <2>2
    <3>3. f(i) = f(j)
      BY <1>4, <3>1, <3>2
    <3> QED
      BY <1>1, <3>3
  <2> QED
    BY <2>1, <2>2 DEF IsInjective
<1> QED
  BY <1>2, <1>5, <1>6 DEF m, Keys

\* A lookup keeps the keys and their number.
LEMMA TouchedKeys ==
  ASSUME Keys(lru), NEW id \in ToSet(lru)
  PROVE  /\ Keys(Touched(id)) /\ Len(Touched(id)) = Len(lru)
         /\ ToSet(Touched(id)) = ToSet(lru) /\ Touched(id) # <<>>
<1> DEFINE p == CHOOSE i \in DOMAIN lru : lru[i] = id
<1>1. lru \in Seq(SessionIds) /\ DOMAIN lru = 1..Len(lru) /\ Len(lru) \in Nat
  BY DEF Keys
<1>2. p \in 1..Len(lru) /\ lru[p] = id
  BY <1>1 DEF ToSet
<1>3. id \in SessionIds
  BY <1>1, InToSet
<1> HIDE DEF p
<1>4. /\ Keys(RemoveAt(lru, p)) /\ Len(RemoveAt(lru, p)) = Len(lru) - 1
      /\ ToSet(RemoveAt(lru, p)) = ToSet(lru) \ {id}
  BY <1>2, RemoveAtKeys
<1> DEFINE r == RemoveAt(lru, p)
<1>5. Touched(id) = <<id>> \o r
  BY DEF Touched, p
<1> HIDE DEF r
<1>6. Keys(r) /\ Len(r) = Len(lru) - 1 /\ ToSet(r) = ToSet(lru) \ {id}
  BY <1>4 DEF r
<1>7. /\ Keys(<<id>> \o r) /\ Len(<<id>> \o r) = Len(r) + 1
      /\ ToSet(<<id>> \o r) = ToSet(r) \cup {id} /\ <<id>> \o r # <<>>
  <2>1. id \notin ToSet(r)
    BY <1>6
  <2> QED
    BY <1>3, <1>6, <2>1, ConsKeys
<1>8. (ToSet(lru) \ {id}) \cup {id} = ToSet(lru)
  OBVIOUS
<1>9. Len(r) + 1 = Len(lru)
  BY <1>1, <1>6
<1> QED
  BY <1>5, <1>6, <1>7, <1>8, <1>9

\* Erasing keys leaves the others and no more of them.
LEMMA WithoutKeys ==
  ASSUME Keys(lru), NEW ids, NEW l \in Without(ids)
  PROVE  Keys(l) /\ Len(l) <= Len(lru) /\ ToSet(l) = ToSet(lru) \ ids
<1>1. lru \in Seq(SessionIds) /\ DOMAIN lru = 1..Len(lru) /\ Len(lru) \in Nat
  BY DEF Keys
<1>2. PICK n \in 0..Len(lru) : l \in [1..n -> ToSet(lru) \ ids]
  BY DEF Without, SeqOf
<1>3. ToSet(lru) \subseteq SessionIds
  BY <1>1, InToSet
<1>4. l \in Seq(SessionIds) /\ Len(l) = n /\ DOMAIN l = 1..n
  BY <1>1, <1>2, <1>3
<1>5. \A i, j \in 1..Len(lru) : lru[i] = lru[j] => i = j
  BY <1>1 DEF Keys, IsInjective
<1>6. \A a, b \in 1..n : a < b =>
        \E i, j \in 1..Len(lru) : i < j /\ l[a] = lru[i] /\ l[b] = lru[j]
  <2>1. \A a, b \in DOMAIN l : a < b =>
          \E i, j \in DOMAIN lru : i < j /\ l[a] = lru[i] /\ l[b] = lru[j]
    BY Zenon DEF Without
  <2>2. ASSUME NEW a \in 1..n, NEW b \in 1..n, a < b
        PROVE  \E i, j \in 1..Len(lru) : i < j /\ l[a] = lru[i] /\ l[b] = lru[j]
    <3>1. a \in DOMAIN l /\ b \in DOMAIN l
      BY <1>4
    <3>2. PICK i \in DOMAIN lru, j \in DOMAIN lru : i < j /\ l[a] = lru[i] /\ l[b] = lru[j]
      BY <2>1, <2>2, <3>1, Zenon
    <3>3. i \in 1..Len(lru) /\ j \in 1..Len(lru)
      BY <1>1
    <3> QED
      BY <3>2, <3>3
  <2> QED
    BY <2>2
<1>7. ASSUME NEW a \in 1..n, NEW b \in 1..n, a < b PROVE l[a] # l[b]
  <2>1. PICK i \in 1..Len(lru), j \in 1..Len(lru) : i < j /\ l[a] = lru[i] /\ l[b] = lru[j]
    BY <1>6, <1>7
  <2> QED
    BY <1>1, <1>5, <2>1
<1>8. IsInjective(l)
  <2>1. ASSUME NEW a \in 1..n, NEW b \in 1..n, l[a] = l[b] PROVE a = b
    BY <1>1, <1>7, <2>1
  <2> QED
    BY <1>4, <2>1 DEF IsInjective
<1> QED
  BY <1>1, <1>4, <1>8 DEF Keys, Without

\* The map without its least recently used session.
LEMMA FrontKeys ==
  ASSUME NEW l, Keys(l), Len(l) > 0
  PROVE  Keys(Front(l)) /\ Len(Front(l)) = Len(l) - 1 /\ ToSet(Front(l)) \subseteq ToSet(l)
<1>1. l \in Seq(SessionIds) /\ DOMAIN l = 1..Len(l) /\ Len(l) \in Nat
  BY DEF Keys
<1>2. /\ Front(l) \in Seq(SessionIds) /\ Len(Front(l)) = Len(l) - 1
      /\ \A i \in 1..Len(l) - 1 : Front(l)[i] = l[i]
  BY <1>1 DEF Front
<1>3. DOMAIN Front(l) = 1..Len(l) - 1
  BY <1>1, <1>2
<1>4. ToSet(Front(l)) \subseteq ToSet(l)
  BY <1>1, <1>2, <1>3 DEF ToSet
<1>5. IsInjective(Front(l))
  BY <1>1, <1>2, <1>3, SMTT(30) DEF IsInjective, Keys
<1> QED
  BY <1>2, <1>4, <1>5 DEF Keys

-----------------------------------------------------------------------------
(* Sessions.                                                                *)

\* A command leaves the session's settings, data and undo stack in agreement,
\* and the stack within kMultipleUndoMaxSize.
LEMMA UsedAgrees ==
  ASSUME now \in Times, config \in Configs, request \in ClientRequests, keymap \in Keymaps,
         NEW s, Agrees(s), NEW t \in Used(s)
  PROVE  Agrees(t)
<1> DEFINE copy == [lastCommand |-> now, config |-> s.config, request |-> s.request,
                    keymap |-> s.keymap]
           pushed == Append(s.undo, copy)
           tail == IF Len(pushed) > MaxUndo THEN Tail(pushed) ELSE pushed
           used == [s EXCEPT !.lastCommand = now, !.used = now]
<1>1. s \in Sessions /\ s.undo \in Seq(Contexts) /\ Len(s.undo) \in Nat
  BY DEF Agrees, Sessions
<1>2. copy \in Contexts /\ Settled(copy)
  BY DEF Agrees, Settled, Contexts
<1>3. PICK u \in {s.undo, <<>>, tail} : t = [used EXCEPT !.undo = u]
  BY DEF Used
<1> HIDE DEF copy
<1>4. /\ pushed \in Seq(Contexts) /\ Len(pushed) = Len(s.undo) + 1
      /\ \A k \in 1..Len(pushed) : Settled(pushed[k])
  <2>1. /\ pushed \in Seq(Contexts) /\ Len(pushed) = Len(s.undo) + 1
        /\ \A k \in 1..Len(s.undo) : pushed[k] = s.undo[k]
        /\ pushed[Len(s.undo) + 1] = copy
    BY <1>1, <1>2
  <2>2. ASSUME NEW k \in 1..Len(pushed) PROVE Settled(pushed[k])
    <3>1. CASE k = Len(s.undo) + 1
      BY <1>2, <2>1, <3>1
    <3>2. CASE k # Len(s.undo) + 1
      <4>1. k \in 1..Len(s.undo)
        BY <1>1, <2>1, <3>2
      <4> QED
        BY <2>1, <4>1 DEF Agrees
    <3> QED
      BY <3>1, <3>2
  <2> QED
    BY <2>1, <2>2
<1> HIDE DEF pushed
<1>5. /\ tail \in Seq(Contexts) /\ Len(tail) <= MaxUndo
      /\ \A k \in 1..Len(tail) : Settled(tail[k])
  <2>1. CASE Len(pushed) > MaxUndo
    <3>1. /\ Tail(pushed) \in Seq(Contexts) /\ Len(Tail(pushed)) = Len(s.undo)
          /\ \A k \in 1..Len(s.undo) : Tail(pushed)[k] = pushed[k + 1]
      BY <1>1, <1>4, SMTT(30)
    <3>2. \A k \in 1..Len(s.undo) : k + 1 \in 1..Len(pushed)
      BY <1>1, <1>4
    <3>3. Len(s.undo) <= MaxUndo
      BY DEF Agrees
    <3> QED
      BY <1>4, <2>1, <3>1, <3>2, <3>3
  <2>2. CASE ~(Len(pushed) > MaxUndo)
    BY <1>1, <1>4, <2>2
  <2> QED
    BY <2>1, <2>2
<1> HIDE DEF tail
<1>6. /\ u \in Seq(Contexts) /\ Len(u) <= MaxUndo
      /\ \A k \in 1..Len(u) : Settled(u[k])
  <2>1. CASE u = s.undo
    BY <1>1, <2>1 DEF Agrees
  <2>2. CASE u = <<>>
    BY <2>2
  <2>3. CASE u = tail
    BY <1>5, <2>3
  <2> QED
    BY <1>3, <2>1, <2>2, <2>3
<1>7. t \in Sessions
  BY <1>1, <1>3, <1>6 DEF Sessions
<1>8. /\ t.undo = u /\ t.config = s.config /\ t.request = s.request
      /\ t.keymap = s.keymap /\ t.data = s.data
  BY <1>1, <1>3 DEF Sessions
<1> QED
  BY <1>6, <1>7, <1>8 DEF Agrees, Settled

\* UNDO puts back settings that are the current ones.
LEMMA UndoAgrees ==
  ASSUME now \in Times, NEW s, Agrees(s), s.undo # <<>>
  PROVE  LET c == Last(s.undo)
         IN  Agrees([s EXCEPT !.lastCommand = c.lastCommand, !.config = c.config,
                              !.request = c.request, !.keymap = c.keymap,
                              !.undo = Front(@), !.used = now])
<1> DEFINE c == Last(s.undo)
           t == [s EXCEPT !.lastCommand = c.lastCommand, !.config = c.config,
                          !.request = c.request, !.keymap = c.keymap,
                          !.undo = Front(@), !.used = now]
<1>1. s \in Sessions /\ s.undo \in Seq(Contexts) /\ Len(s.undo) \in Nat /\ Len(s.undo) > 0
  BY DEF Agrees, Sessions
<1>2. c \in Contexts /\ Settled(c)
  BY <1>1 DEF Last, Agrees
<1>3. /\ Front(s.undo) \in Seq(Contexts) /\ Len(Front(s.undo)) = Len(s.undo) - 1
      /\ \A k \in 1..Len(s.undo) - 1 : Front(s.undo)[k] = s.undo[k]
  BY <1>1 DEF Front
<1> HIDE DEF c
<1>4. t \in Sessions
  BY <1>1, <1>2, <1>3 DEF Sessions, Contexts
<1>5. /\ t.undo = Front(s.undo) /\ t.config = c.config /\ t.request = c.request
      /\ t.keymap = c.keymap /\ t.data = s.data
  BY <1>1 DEF Sessions
<1> HIDE DEF t
<1>6. ASSUME NEW k \in 1..Len(t.undo) PROVE Settled(t.undo[k])
  <2>1. k \in 1..Len(s.undo) /\ t.undo[k] = s.undo[k]
    BY <1>1, <1>3, <1>5
  <2> QED
    BY <2>1 DEF Agrees
<1>7. Settled(t) /\ t.data = data /\ Len(t.undo) <= MaxUndo
  BY <1>1, <1>2, <1>3, <1>5 DEF Agrees, Settled
<1>8. Agrees(t)
  BY <1>4, <1>6, <1>7 DEF Agrees
<1> QED
  BY <1>8 DEF c, t

\* A session after UpdateSessions.
LEMMA UpdatedAgrees ==
  ASSUME HandlerTypes, NEW cfg \in Configs, NEW req \in ClientRequests,
         NEW ss, UpdateSessions(ss, cfg, req),
         \A id \in DOMAIN ss : ss[id] \in Sessions /\ ss[id].data = data'
  PROVE  /\ config' \in Configs /\ request' \in ClientRequests /\ keymap' = Keymap[config']
         /\ sessions' \in [DOMAIN ss -> Sessions]
         /\ \A id \in DOMAIN ss : Agrees(sessions[id])'
<1>1. config' = cfg /\ request' = req /\ keymap' = Keymap[cfg]
  BY DEF UpdateSessions, HandlerTypes
<1>2. keymap' \in Keymaps
  BY <1>1 DEF Keymaps
<1>3. sessions' = [id \in DOMAIN ss |->
        [ss[id] EXCEPT !.config = cfg, !.request = req, !.keymap = keymap', !.undo = <<>>]]
  BY DEF UpdateSessions
<1>4. ASSUME NEW s \in Sessions, s.data = data'
      PROVE  LET t == [s EXCEPT !.config = cfg, !.request = req, !.keymap = keymap',
                                !.undo = <<>>]
             IN  /\ t \in Sessions /\ t.config = cfg /\ t.request = req
                 /\ t.keymap = keymap' /\ t.undo = <<>> /\ t.data = data'
  <2> DEFINE t == [s EXCEPT !.config = cfg, !.request = req, !.keymap = keymap', !.undo = <<>>]
  <2>1. t \in Sessions
    <3>1. ASSUME NEW k \in Keymaps, NEW u \in Seq(Contexts)
          PROVE  [s EXCEPT !.config = cfg, !.request = req, !.keymap = k, !.undo = u] \in Sessions
      BY DEF Sessions
    <3>2. <<>> \in Seq(Contexts)
      OBVIOUS
    <3> QED
      BY <1>2, <3>1, <3>2
  <2>2. /\ t.config = cfg /\ t.request = req /\ t.keymap = keymap'
        /\ t.undo = <<>> /\ t.data = s.data
    BY DEF Sessions
  <2> QED
    BY <1>4, <2>1, <2>2
<1>5. ASSUME NEW id \in DOMAIN ss PROVE sessions'[id] \in Sessions /\ Agrees(sessions[id])'
  <2> DEFINE t == sessions'[id]
  <2>1. /\ t \in Sessions /\ t.config = cfg /\ t.request = req
        /\ t.keymap = keymap' /\ t.undo = <<>> /\ t.data = data'
    BY <1>3, <1>4
  <2> QED
    BY <1>1, <2>1 DEF Agrees, Settled
<1> QED
  BY <1>1, <1>3, <1>5

\* What agreed before agrees after a step that changes no setting and no data.
LEMMA StillAgrees ==
  ASSUME UNCHANGED <<config, request, keymap, data>>, NEW v, Agrees(v),
         NEW x, sessions'[x] = v
  PROVE  Agrees(sessions[x])'
  BY DEF Agrees, Settled

\* Replacing one session by one that agrees.
LEMMA OneReplaced ==
  ASSUME MapInv, UNCHANGED <<config, request, keymap, data>>,
         NEW id \in ToSet(lru), NEW v, Agrees(v), sessions' = [sessions EXCEPT ![id] = v],
         Keys(lru)', Len(lru') <= MaxSessions, ToSet(lru') = ToSet(lru)
  PROVE  MapInv'
<1>1. v \in Sessions
  BY DEF Agrees
<1>2. sessions' \in [ToSet(lru') -> Sessions]
  BY <1>1 DEF MapInv
<1>3. ASSUME NEW x \in ToSet(lru') PROVE Agrees(sessions[x])'
  <2>1. CASE x = id
    BY <2>1, StillAgrees DEF MapInv
  <2>2. CASE x # id
    <3>1. sessions'[x] = sessions[x]
      BY <2>2 DEF MapInv
    <3>2. PICK w : w = sessions[x] /\ Agrees(w)
      BY DEF MapInv
    <3> QED
      BY <3>1, <3>2, StillAgrees
  <2> QED
    BY <2>1, <2>2
<1> QED
  BY <1>2, <1>3 DEF MapInv

\* Erasing sessions keeps the others, and starts the idle time with the last.
LEMMA DeletedMap ==
  ASSUME MapInv, HandlerTypes, EmptyTimeExact, NEW ids, DeleteSessionIDs(ids),
         UNCHANGED <<config, request, keymap, data>>
  PROVE  MapInv' /\ EmptyTimeExact' /\ emptyTime' \in Times \cup {Past}
<1>1. PICK l \in Without(ids) : lru' = l
  BY DEF DeleteSessionIDs
<1>2. Keys(lru)' /\ Len(lru') <= Len(lru) /\ ToSet(lru') = ToSet(lru) \ ids
  <2>1. Keys(l) /\ Len(l) <= Len(lru) /\ ToSet(l) = ToSet(lru) \ ids
    BY WithoutKeys DEF MapInv
  <2> QED
    BY <1>1, <2>1 DEF Keys, IsInjective
<1>3. lru \in Seq(SessionIds) /\ lru' \in Seq(SessionIds) /\ DOMAIN sessions = ToSet(lru)
  BY <1>2 DEF MapInv, Keys
<1>4. Len(lru') <= MaxSessions
  BY <1>2, <1>3 DEF MapInv
<1>5. sessions' = [id \in ToSet(lru') |-> sessions[id]] /\ ToSet(lru') \subseteq ToSet(lru)
  BY <1>2, <1>3 DEF DeleteSessionIDs
<1>6. ASSUME NEW x \in ToSet(lru') PROVE Agrees(sessions[x])'
  <2>1. PICK w : w = sessions[x] /\ Agrees(w)
    BY <1>5 DEF MapInv
  <2> QED
    BY <1>5, <2>1, StillAgrees
<1>7. sessions' \in [ToSet(lru') -> Sessions]
  BY <1>5 DEF MapInv
<1>8. MapInv'
  BY <1>2, <1>4, <1>6, <1>7 DEF MapInv
<1>9. lru = <<>> => lru' = <<>>
  BY <1>2, <1>3
<1>10. now # Past /\ emptyTime' = IF emptyTime = Past /\ lru' = <<>> THEN now ELSE emptyTime
  BY DEF DeleteSessionIDs, HandlerTypes, Times, Past
<1> QED
  BY <1>8, <1>9, <1>10 DEF EmptyTimeExact, HandlerTypes

-----------------------------------------------------------------------------
(* The invariant.                                                           *)

\* It holds when the server starts, without a session.
LEMMA HandlerInit == Init => HandlerInv
<1> SUFFICES ASSUME Init PROVE HandlerInv
  OBVIOUS
<1>1. Inv
  BY InitInv DEF Init
<1>2. HandlerTypes
  BY DEF Init, HandlerTypes, Times, Past
<1>3. lru = <<>> /\ sessions = <<>> /\ emptyTime = 0
  BY DEF Init
<1>4. Keys(lru) /\ Len(lru) = 0 /\ ToSet(lru) = {}
  BY <1>3 DEF Keys, IsInjective, ToSet
<1>5. sessions \in [ToSet(lru) -> Sessions]
  BY <1>3, <1>4
<1>6. MapInv /\ EmptyTimeExact
  BY <1>3, <1>4, <1>5 DEF MapInv, EmptyTimeExact, Past
<1> QED
  BY <1>1, <1>2, <1>6 DEF HandlerInv

\* CREATE_SESSION: the map has room for the new session before it comes in, and
\* new data becomes the engine's only if it is the only one.
LEMMA CreateKeeps ==
  ASSUME HandlerInv, Inv', NEW id \in SessionIds, CreateSession(id)
  PROVE  HandlerTypes' /\ MapInv' /\ EmptyTimeExact'
<1> DEFINE kept == IF Len(lru) >= MaxSessions THEN Front(lru) ELSE lru
           before == [i \in ToSet(lru') |-> IF i = id THEN NewSession ELSE sessions[i]]
<1>1. /\ Keys(lru) /\ lru \in Seq(SessionIds) /\ Len(lru) \in Nat /\ Len(lru) <= MaxSessions
      /\ HandlerTypes /\ MapInv
  BY DEF HandlerInv, MapInv, Keys
<1>2. /\ id \notin ToSet(kept) /\ lru' = <<id>> \o kept
      /\ IF kept = <<>> THEN MaybeReloadEngine ELSE UNCHANGED <<data, response>>
      /\ UpdateSessions(before, config, request)
      /\ createTime' = now /\ emptyTime' = Past /\ UNCHANGED <<now, status, cleanupTime>>
  BY DEF CreateSession
<1>3. /\ Keys(kept) /\ Len(kept) \in Nat /\ Len(kept) < MaxSessions
      /\ ToSet(kept) \subseteq ToSet(lru)
  <2>1. CASE Len(lru) >= MaxSessions
    BY <1>1, <2>1, FrontKeys
  <2>2. CASE ~(Len(lru) >= MaxSessions)
    BY <1>1, <2>2
  <2> QED
    BY <2>1, <2>2
<1> HIDE DEF kept
<1>4. /\ Keys(<<id>> \o kept) /\ Len(<<id>> \o kept) = Len(kept) + 1
      /\ ToSet(<<id>> \o kept) = ToSet(kept) \cup {id} /\ <<id>> \o kept # <<>>
  BY <1>2, <1>3, ConsKeys
<1>5. /\ Keys(lru)' /\ Len(lru') <= MaxSessions /\ lru' # <<>>
      /\ ToSet(lru') = ToSet(kept) \cup {id}
  BY <1>2, <1>3, <1>4, SMTT(30) DEF Keys, IsInjective
<1>6. data' \in Requests \cup {Null}
  BY DEF Inv, LoaderTypeOK
<1>7. NewSession \in Sessions /\ NewSession.data = data'
  <2>1. now \in Times /\ config \in Configs /\ request \in ClientRequests /\ keymap \in Keymaps
    BY <1>1 DEF HandlerTypes, Keymaps
  <2>2. <<>> \in Seq(Contexts)
    OBVIOUS
  <2>3. ASSUME NEW d \in Requests \cup {Null}, NEW u \in Seq(Contexts)
        PROVE  [created |-> now, lastCommand |-> Past, alive |-> TRUE, config |-> config,
                request |-> request, keymap |-> keymap, data |-> d, undo |-> u,
                used |-> now] \in Sessions
    BY <2>1 DEF Sessions
  <2> QED
    BY <1>6, <2>2, <2>3 DEF NewSession
<1>8. ASSUME NEW x \in ToSet(lru'), x # id
      PROVE  sessions[x] \in Sessions /\ sessions[x].data = data'
  <2>1. x \in ToSet(kept) /\ x \in ToSet(lru)
    BY <1>3, <1>5, <1>8
  <2>2. kept # <<>>
    BY <2>1 DEF ToSet
  <2>3. data' = data
    BY <1>2, <2>2
  <2> QED
    BY <1>1, <2>1, <2>3 DEF MapInv, Agrees
<1>9. DOMAIN before = ToSet(lru')
      /\ \A x \in DOMAIN before : before[x] \in Sessions /\ before[x].data = data'
  BY <1>7, <1>8
<1> HIDE DEF before
<1>10. /\ config' \in Configs /\ request' \in ClientRequests /\ keymap' = Keymap[config']
       /\ sessions' \in [ToSet(lru') -> Sessions]
       /\ \A x \in ToSet(lru') : Agrees(sessions[x])'
  <2>1. config \in Configs /\ request \in ClientRequests
    BY <1>1 DEF HandlerTypes
  <2> QED
    BY <1>1, <1>2, <1>9, <2>1, UpdatedAgrees
<1>11. HandlerTypes'
  BY <1>1, <1>2, <1>10 DEF HandlerTypes
<1>12. MapInv'
  BY <1>5, <1>10 DEF MapInv
<1> QED
  BY <1>2, <1>5, <1>11, <1>12 DEF EmptyTimeExact

\* No step breaks the invariant.
LEMMA HandlerStep == HandlerInv /\ [Next]_vars => HandlerInv'
<1> SUFFICES ASSUME HandlerInv, [Next]_vars PROVE HandlerInv'
  OBVIOUS
<1>0. Inv' /\ HandlerTypes /\ MapInv /\ EmptyTimeExact /\ Keys(lru)
      /\ lru \in Seq(SessionIds) /\ DOMAIN sessions = ToSet(lru)
  BY LoaderWithin DEF HandlerInv, MapInv, Keys
<1> SUFFICES HandlerTypes' /\ MapInv' /\ EmptyTimeExact'
  BY <1>0 DEF HandlerInv
<1>a. now \in Times /\ config \in Configs /\ request \in ClientRequests /\ keymap \in Keymaps
      /\ now \in Times \cup {Past} /\ keymap = Keymap[config]
  BY <1>0 DEF HandlerTypes, Keymaps
<1>1. ASSUME NEW id \in SessionIds, CreateSession(id)
      PROVE  HandlerTypes' /\ MapInv' /\ EmptyTimeExact'
  BY <1>0, <1>1, CreateKeeps
<1>2. ASSUME NEW id \in SessionIds, DeleteSession(id)
      PROVE  HandlerTypes' /\ MapInv' /\ EmptyTimeExact'
  <2>1. /\ DeleteSessionIDs({id} \cap ToSet(lru)) /\ UNCHANGED <<config, request, keymap, data>>
        /\ UNCHANGED <<now, status, cleanupTime, createTime>>
    BY <1>2 DEF DeleteSession, loaderVars, settingVars
  <2>2. MapInv' /\ EmptyTimeExact' /\ emptyTime' \in Times \cup {Past}
    BY <1>0, <2>1, DeletedMap
  <2> QED
    BY <1>0, <2>1, <2>2 DEF HandlerTypes
<1>3. ASSUME NEW id \in SessionIds, SendKey(id)
      PROVE  HandlerTypes' /\ MapInv' /\ EmptyTimeExact'
  <2>1. /\ id \in ToSet(lru) /\ lru' = Touched(id)
        /\ UNCHANGED <<config, request, keymap, data>>
        /\ UNCHANGED <<now, status, emptyTime, cleanupTime, createTime>>
    BY <1>3 DEF SendKey, loaderVars, settingVars, timeVars
  <2>2. PICK v \in Used(sessions[id]) : sessions' = [sessions EXCEPT ![id] = v]
    BY <1>3 DEF SendKey
  <2>3. Agrees(v)
    <3>1. Agrees(sessions[id])
      BY <1>0, <2>1 DEF MapInv
    <3> QED
      BY <1>a, <2>2, <3>1, UsedAgrees
  <2>4. /\ Keys(lru)' /\ Len(lru') <= MaxSessions /\ ToSet(lru') = ToSet(lru)
        /\ lru' # <<>> /\ lru # <<>>
    <3>1. Len(lru) <= MaxSessions
      BY <1>0 DEF MapInv
    <3>2. lru # <<>>
      BY <2>1 DEF ToSet
    <3> QED
      BY <1>0, <2>1, <3>1, <3>2, TouchedKeys DEF Keys, IsInjective
  <2>5. MapInv'
    BY <1>0, <2>1, <2>2, <2>3, <2>4, OneReplaced
  <2> QED
    BY <1>0, <2>1, <2>4, <2>5 DEF HandlerTypes, EmptyTimeExact
<1>4. ASSUME NEW id \in SessionIds, Undo(id)
      PROVE  HandlerTypes' /\ MapInv' /\ EmptyTimeExact'
  <2> DEFINE s == sessions[id]
             c == Last(s.undo)
             v == [s EXCEPT !.lastCommand = c.lastCommand, !.config = c.config,
                            !.request = c.request, !.keymap = c.keymap,
                            !.undo = Front(@), !.used = now]
  <2>1. /\ id \in ToSet(lru) /\ lru' = Touched(id) /\ s.undo # <<>>
        /\ sessions' = [sessions EXCEPT ![id] = v]
        /\ UNCHANGED <<config, request, keymap, data>>
        /\ UNCHANGED <<now, status, emptyTime, cleanupTime, createTime>>
    BY <1>4 DEF Undo, loaderVars, settingVars, timeVars
  <2>2. Agrees(v)
    <3>1. Agrees(s)
      BY <1>0, <2>1 DEF MapInv
    <3> QED
      BY <1>a, <2>1, <3>1, UndoAgrees
  <2>3. /\ Keys(lru)' /\ Len(lru') <= MaxSessions /\ ToSet(lru') = ToSet(lru)
        /\ lru' # <<>> /\ lru # <<>>
    <3>1. Len(lru) <= MaxSessions
      BY <1>0 DEF MapInv
    <3>2. lru # <<>>
      BY <2>1 DEF ToSet
    <3> QED
      BY <1>0, <2>1, <3>1, <3>2, TouchedKeys DEF Keys, IsInjective
  <2>4. PICK w : w = v
    OBVIOUS
  <2> HIDE DEF v
  <2>5. MapInv'
    BY <1>0, <2>1, <2>2, <2>3, <2>4, OneReplaced
  <2> QED
    BY <1>0, <2>1, <2>3, <2>5 DEF HandlerTypes, EmptyTimeExact
<1>5. ASSUME NEW id \in SessionIds, ApplicationDies(id)
      PROVE  HandlerTypes' /\ MapInv' /\ EmptyTimeExact'
  <2>1. /\ id \in ToSet(lru) /\ UNCHANGED lru
        /\ sessions' = [sessions EXCEPT ![id].alive = FALSE]
        /\ UNCHANGED <<config, request, keymap, data>>
        /\ UNCHANGED <<now, status, emptyTime, cleanupTime, createTime>>
    BY <1>5 DEF ApplicationDies, loaderVars, settingVars, timeVars
  <2>2. PICK s : s = sessions[id] /\ Agrees(s)
    BY <1>0, <2>1 DEF MapInv
  <2> DEFINE v == [s EXCEPT !.alive = FALSE]
  <2>3. sessions' = [sessions EXCEPT ![id] = v]
    BY <1>0, <2>1, <2>2
  <2>4. Agrees(v)
    <3>1. s \in Sessions
      BY <2>2 DEF Agrees
    <3>2. v \in Sessions
      BY <3>1 DEF Sessions
    <3>3. /\ v.undo = s.undo /\ v.config = s.config /\ v.request = s.request
          /\ v.keymap = s.keymap /\ v.data = s.data
      BY <3>1 DEF Sessions
    <3> HIDE DEF v
    <3> QED
      BY <2>2, <3>2, <3>3 DEF Agrees, Settled
  <2> HIDE DEF v
  <2>5. Keys(lru)' /\ Len(lru') <= MaxSessions /\ ToSet(lru') = ToSet(lru)
    BY <1>0, <2>1 DEF MapInv, Keys, IsInjective
  <2>6. MapInv'
    BY <1>0, <2>1, <2>3, <2>4, <2>5, OneReplaced
  <2> QED
    BY <1>0, <2>1, <2>6 DEF HandlerTypes, EmptyTimeExact
<1>6. ASSUME NEW ss, NEW cfg \in Configs, NEW req \in ClientRequests,
             UpdateSessions(ss, cfg, req), UNCHANGED data,
             Keys(lru)', Len(lru') <= MaxSessions, lru' = <<>> <=> lru = <<>>,
             DOMAIN ss = ToSet(lru'),
             \A x \in DOMAIN ss : ss[x] \in Sessions /\ ss[x].data = data,
             UNCHANGED <<now, status, emptyTime, cleanupTime, createTime>>
      PROVE  HandlerTypes' /\ MapInv' /\ EmptyTimeExact'
  <2>1. /\ config' \in Configs /\ request' \in ClientRequests /\ keymap' = Keymap[config']
        /\ sessions' \in [DOMAIN ss -> Sessions]
        /\ \A x \in DOMAIN ss : Agrees(sessions[x])'
    BY <1>0, <1>6, UpdatedAgrees
  <2>2. MapInv'
    BY <1>6, <2>1 DEF MapInv
  <2> QED
    BY <1>0, <1>6, <2>1, <2>2 DEF HandlerTypes, EmptyTimeExact
<1>b. \A x \in ToSet(lru) : sessions[x] \in Sessions /\ sessions[x].data = data
  BY <1>0 DEF MapInv, Agrees
<1>7. ASSUME NEW id \in SessionIds, NEW cfg \in Configs, SendKeyWithConfig(id, cfg)
      PROVE  HandlerTypes' /\ MapInv' /\ EmptyTimeExact'
  <2> DEFINE ss == [sessions EXCEPT ![id].lastCommand = now, ![id].used = now]
  <2>1. /\ id \in ToSet(lru) /\ lru' = Touched(id) /\ UNCHANGED data
        /\ UpdateSessions(ss, cfg, request)
        /\ UNCHANGED <<now, status, emptyTime, cleanupTime, createTime>>
    BY <1>7 DEF SendKeyWithConfig, loaderVars, timeVars
  <2>2. /\ Keys(lru)' /\ Len(lru') <= MaxSessions /\ ToSet(lru') = ToSet(lru)
        /\ lru' # <<>> /\ lru # <<>>
    <3>1. Len(lru) <= MaxSessions
      BY <1>0 DEF MapInv
    <3>2. lru # <<>>
      BY <2>1 DEF ToSet
    <3> QED
      BY <1>0, <2>1, <3>1, <3>2, TouchedKeys DEF Keys, IsInjective
  <2>3. DOMAIN ss = ToSet(lru')
    BY <1>0, <2>2
  <2>4. ASSUME NEW x \in ToSet(lru) PROVE ss[x] \in Sessions /\ ss[x].data = data
    <3>1. CASE x = id
      <4>1. PICK s \in Sessions : s = sessions[id] /\ s.data = data
        BY <1>b, <2>1
      <4>2. ss[x] = [s EXCEPT !.lastCommand = now, !.used = now]
        BY <1>0, <2>1, <3>1, <4>1
      <4>3. [s EXCEPT !.lastCommand = now, !.used = now] \in Sessions
        BY <1>a DEF Sessions
      <4>4. [s EXCEPT !.lastCommand = now, !.used = now].data = s.data
        BY DEF Sessions
      <4> QED
        BY <4>1, <4>2, <4>3, <4>4
    <3>2. CASE x # id
      BY <1>0, <1>b, <3>2
    <3> QED
      BY <3>1, <3>2
  <2> HIDE DEF ss
  <2> QED
    BY <1>6, <1>a, <2>1, <2>2, <2>3, <2>4
<1>8. ASSUME NEW cfg \in Configs, SetConfig(cfg)
      PROVE  HandlerTypes' /\ MapInv' /\ EmptyTimeExact'
  <2>1. /\ UpdateSessions(sessions, cfg, request) /\ UNCHANGED <<data, lru>>
        /\ UNCHANGED <<now, status, emptyTime, cleanupTime, createTime>>
    BY <1>8 DEF SetConfig, loaderVars, timeVars
  <2>2. Keys(lru)' /\ Len(lru') <= MaxSessions /\ ToSet(lru') = ToSet(lru)
    BY <1>0, <2>1 DEF MapInv, Keys, IsInjective
  <2> QED
    BY <1>0, <1>6, <1>a, <1>b, <2>1, <2>2
<1>9. ASSUME NEW req \in ClientRequests, SetRequest(req)
      PROVE  HandlerTypes' /\ MapInv' /\ EmptyTimeExact'
  <2>1. /\ UpdateSessions(sessions, config, req) /\ UNCHANGED <<data, lru>>
        /\ UNCHANGED <<now, status, emptyTime, cleanupTime, createTime>>
    BY <1>9 DEF SetRequest, loaderVars, timeVars
  <2>2. Keys(lru)' /\ Len(lru') <= MaxSessions /\ ToSet(lru') = ToSet(lru)
    BY <1>0, <2>1 DEF MapInv, Keys, IsInjective
  <2> QED
    BY <1>0, <1>6, <1>a, <1>b, <2>1, <2>2
<1>c. ASSUME UNCHANGED <<lru, sessions, emptyTime, config, request, keymap, data>>,
             now' \in Times, status' \in {"available", "shutdown", "timeout"},
             cleanupTime' \in Times \cup {Past}, UNCHANGED createTime
      PROVE  HandlerTypes' /\ MapInv' /\ EmptyTimeExact'
  <2>1. MapInv'
    BY <1>0, <1>c DEF MapInv, Keys, IsInjective, Agrees, Settled
  <2> QED
    BY <1>0, <1>c, <2>1 DEF HandlerTypes, EmptyTimeExact
<1>10. ASSUME NEW r \in Requests, SendEngineReloadRequest(r)
       PROVE  HandlerTypes' /\ MapInv' /\ EmptyTimeExact'
  <2>1. UNCHANGED data
    BY <1>10 DEF SendEngineReloadRequest, StartNewDataBuildTask
  <2> QED
    BY <1>0, <1>10, <1>c, <2>1 DEF SendEngineReloadRequest, mapVars, timeVars, settingVars,
                                   HandlerTypes
<1>11. CASE Shutdown
  BY <1>0, <1>11, <1>c DEF Shutdown, loaderVars, mapVars, timeVars, settingVars, HandlerTypes
<1>12. CASE Cleanup
  <2>1. /\ DeleteSessionIDs({id \in ToSet(lru) : Expired(sessions[id])})
        /\ UNCHANGED <<config, request, keymap, data>>
        /\ cleanupTime' = now /\ UNCHANGED <<now, createTime>>
        /\ status' \in {"timeout", status}
    BY <1>12 DEF Cleanup, loaderVars, settingVars
  <2>2. PICK ids : ids = {id \in ToSet(lru) : Expired(sessions[id])}
    OBVIOUS
  <2>3. MapInv' /\ EmptyTimeExact' /\ emptyTime' \in Times \cup {Past}
    BY <1>0, <2>1, <2>2, DeletedMap
  <2> QED
    BY <1>0, <2>1, <2>3 DEF HandlerTypes
<1>13. CASE Tick
  BY <1>0, <1>13, <1>c DEF Tick, loaderVars, mapVars, timeVars, settingVars, HandlerTypes
<1>14. CASE Loading
  <2>1. UNCHANGED data
    BY <1>14 DEF Loading, LoaderStep, ServerStep, NotifyHighPriority, ScheduleLoop,
                 TakeRequest, NoPendingRequest, PollHighPriority, WaitForHighPriority, Build,
                 BuildFails, Callback, ReportLoadSuccess, EndTask
  <2> QED
    BY <1>0, <1>14, <1>c, <2>1 DEF Loading, mapVars, timeVars, settingVars, HandlerTypes
<1>15. CASE UNCHANGED vars
  BY <1>0, <1>15, <1>c DEF vars, loaderVars, mapVars, timeVars, settingVars, HandlerTypes
<1> QED
  BY <1>1, <1>2, <1>3, <1>4, <1>5, <1>7, <1>8, <1>9, <1>10, <1>11, <1>12, <1>13, <1>14, <1>15
     DEF Next

\* The inductive invariant holds in every behaviour.
LEMMA HandlerInvariance == Spec => []HandlerInv
  BY HandlerInit, HandlerStep, PTL DEF Spec

-----------------------------------------------------------------------------
(* The theorems.                                                            *)

\* No session ever works with other data than the engine has: CREATE_SESSION
\* takes new data only when no session is left, whatever the loader thread does
\* meanwhile.
THEOREM EngineNeverMoves == Spec => []EngineStable
<1>1. HandlerInv => EngineStable
  BY DEF HandlerInv, MapInv, Agrees, EngineStable
<1> QED
  BY <1>1, HandlerInvariance, PTL

\* Whatever the order of the commands, UNDO among them, the sessions have the
\* configuration, the request and the key map of the handler, the map holds at
\* most max_session_size_ sessions and the undo stacks their maximum.
THEOREM SettingsAlwaysAgree == Spec => []SettingsAgree
<1>1. HandlerInv => SettingsAgree
  <2> SUFFICES ASSUME HandlerInv PROVE SettingsAgree
    OBVIOUS
  <2>1. TypeOK
    BY DEF HandlerInv, HandlerTypes, MapInv, Agrees, Keys, TypeOK, Keymaps, Inv
  <2> QED
    BY <2>1 DEF HandlerInv, HandlerTypes, MapInv, Agrees, Settled, SettingsAgree
<1> QED
  BY <1>1, HandlerInvariance, PTL

\* The server counts its idle time exactly while it has no session.
THEOREM IdleTimeExact == Spec => []EmptyTimeExact
<1>1. HandlerInv => EmptyTimeExact
  BY DEF HandlerInv
<1> QED
  BY <1>1, HandlerInvariance, PTL

\* The server with its sessions implements the loader's specification: the
\* commands reach the loader only as DataLoader says, one at a time and with the
\* steps of the loader thread in between.
THEOREM ServerImplementsLoader == Spec => LoaderInit /\ [][LoaderNext]_loaderVars
<1>1. Init => LoaderInit
  BY DEF Init
<1> QED
  BY <1>1, HandlerIsLoader, PTL DEF Spec

\* So what is proved of the loader holds in the server: the request that
\* DataLoader calls current is with the engine when the loader rests, the engine
\* never goes back to data of a lower priority, and data that failed stays out.
THEOREM LoaderInServer == Spec => []ResponseIsCurrent /\ NoDowngrade /\ FailedStaysOut
<1>1. HandlerInv => ResponseIsCurrent /\ Inv
  BY DEF HandlerInv, Inv, HandOverInv, ResponseIsCurrent, IsRunning
<1> QED
  BY <1>1, HandlerInvariance, ServerImplementsLoader, DataStep, ResponseStep, PTL
     DEF NoDowngrade, FailedStaysOut
=============================================================================
