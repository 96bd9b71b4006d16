----------------------------- MODULE DataLoader -----------------------------
(***************************************************************************)
(* Loading language model data in the background                           *)
(* (src/src/engine/data_loader.cc and the part of src/src/engine/engine.cc *)
(* that uses it).                                                          *)
(*                                                                         *)
(* Two threads.  The server thread registers a request, notifies a waiting *)
(* loader and schedules the loop if no task is running: three steps, for   *)
(* the mutex is released between them.  The loader thread runs             *)
(* StartReloadLoop: it takes the request of the highest priority, waits a  *)
(* moment for a better one, builds the modules, hands them over through    *)
(* loader_response_, and reports the outcome.  A request is its own id (the*)
(* code's fingerprint).  Whether data loads is decided at each attempt.    *)
(***************************************************************************)
EXTENDS Naturals

CONSTANTS
  Requests,          \* engine reload requests
  Priority,          \* Priority[r]; the smaller number wins
  HighPriority,      \* kHighPriority
  Null,              \* no data: the minimal engine
  MaxRegistrations   \* bound on sequence_id_

ASSUME LoaderAssumption ==
  /\ Priority \in [Requests -> Nat] /\ HighPriority \in Nat
  /\ Null \notin Requests /\ MaxRegistrations \in Nat

VARIABLES
  sequence,      \* sequence_id of each request in requests_; 0: not in it
  sequenceId,    \* sequence_id_
  unregistered,  \* unregistered_
  current,       \* current_request_id_
  highNotified,  \* high_priority_data_registered_
  loaderPc,      \* the loader thread; "ended": no task, or one that is done
  taken,         \* request_data of the loop
  response,      \* Engine::loader_response_
  data,          \* the data of Engine's modules
  serverPc,      \* the server thread: where it is in StartNewDataBuildTask
  asked          \* the request it is about

mutexVars == <<sequence, sequenceId, unregistered, current>>
loaderVars == <<mutexVars, highNotified, loaderPc, taken, response, data, serverPc, asked>>

LoaderTypeOK ==
  /\ sequence \in [Requests -> 0..MaxRegistrations]
  /\ sequenceId \in 0..MaxRegistrations
  /\ unregistered \subseteq Requests
  /\ {current, taken, response, data, asked} \subseteq Requests \cup {Null}
  /\ highNotified \in BOOLEAN
  /\ loaderPc \in {"ended", "check", "taken", "wait", "build", "callback", "success", "ending"}
  /\ serverPc \in {"idle", "notify", "schedule"}

LoaderInit ==
  /\ sequence = [r \in Requests |-> 0] /\ sequenceId = 0
  /\ unregistered = {} /\ current = Null
  /\ highNotified = FALSE
  /\ loaderPc = "ended" /\ taken = Null
  /\ response = Null /\ data = Null
  /\ serverPc = "idle" /\ asked = Null

\* Mutant: requests sorted by age only.
PrecedesByAge(seq, r, s) == seq[r] > seq[s]

\* The order that RegisterRequest sorts requests_ by.
Precedes(seq, r, s) ==
  \/ Priority[r] < Priority[s]
  \/ Priority[r] = Priority[s] /\ seq[r] > seq[s]

\* requests_.front() is r.
IsFront(seq, r) ==
  /\ r \in Requests /\ seq[r] > 0
  /\ \A s \in Requests \ {r} : seq[s] > 0 => Precedes(seq, r, s)

IsRunning == loaderPc # "ended"

-----------------------------------------------------------------------------
(* The server thread *)

\* StartNewDataBuildTask, first half: RegisterRequest under the mutex.
StartNewDataBuildTask(r) ==
  /\ serverPc = "idle"
  /\ sequenceId < MaxRegistrations
  /\ r # current /\ r \notin unregistered
  /\ sequenceId' = sequenceId + 1
  /\ sequence' = [sequence EXCEPT ![r] = sequenceId']
  /\ IF IsFront(sequence', current)
       THEN UNCHANGED <<serverPc, asked>>
       ELSE serverPc' = "notify" /\ asked' = r
  /\ UNCHANGED <<unregistered, current, highNotified, loaderPc, taken, response, data>>

\* Wakes a loader that waits for data of high priority.
NotifyHighPriority ==
  /\ serverPc = "notify"
  /\ serverPc' = "schedule"
  /\ highNotified' = (highNotified \/ Priority[asked] <= HighPriority)
  /\ UNCHANGED <<mutexVars, loaderPc, taken, response, data, asked>>

\* Starts the loop unless a task is running.
ScheduleLoop ==
  /\ serverPc = "schedule"
  /\ serverPc' = "idle" /\ asked' = Null
  /\ loaderPc' = IF IsRunning THEN loaderPc ELSE "check"
  /\ UNCHANGED <<mutexVars, highNotified, taken, response, data>>

\* Engine::MaybeReloadEngine.  Without a converter it waits for the loader.
MaybeReloadEngine ==
  /\ data = Null => ~IsRunning
  /\ IF IsRunning \/ response = Null
       THEN UNCHANGED <<data, response>>
       ELSE data' = response /\ response' = Null

-----------------------------------------------------------------------------
(* The loader thread *)

\* GetPendingRequestData finds a request that is not the current one...
TakeRequest ==
  /\ loaderPc = "check"
  /\ \E r \in Requests \ {current} : IsFront(sequence, r) /\ taken' = r
  /\ loaderPc' = "taken"
  /\ UNCHANGED <<mutexVars, highNotified, response, data, serverPc, asked>>

\* ... or nothing, and the loop is over.
NoPendingRequest ==
  /\ loaderPc = "check"
  /\ ~\E r \in Requests \ {current} : IsFront(sequence, r)
  /\ loaderPc' = "ending"
  /\ UNCHANGED <<mutexVars, highNotified, taken, response, data, serverPc, asked>>

\* No wait once data of high priority has been registered.
PollHighPriority ==
  /\ loaderPc = "taken"
  /\ loaderPc' = IF highNotified THEN "build" ELSE "wait"
  /\ UNCHANGED <<mutexVars, highNotified, taken, response, data, serverPc, asked>>

\* The wait: data of high priority is registered meanwhile (take again), or a
\* timeout.
WaitForHighPriority ==
  /\ loaderPc = "wait"
  /\ loaderPc' = IF highNotified THEN "check" ELSE "build"
  /\ UNCHANGED <<mutexVars, highNotified, taken, response, data, serverPc, asked>>

\* BuildResponse succeeds.
Build ==
  /\ loaderPc = "build"
  /\ loaderPc' = "callback"
  /\ UNCHANGED <<mutexVars, highNotified, taken, response, data, serverPc, asked>>

\* Mutant: a failed request stays in requests_.
BuildFailsKeepsRequest ==
  /\ loaderPc = "build"
  /\ loaderPc' = "check"
  /\ unregistered' = unregistered \cup {taken}
  /\ UNCHANGED <<sequence, sequenceId, current, highNotified, taken, response, data,
                 serverPc, asked>>

\* BuildResponse fails; ReportLoadFailure.
BuildFails ==
  /\ loaderPc = "build"
  /\ loaderPc' = "check"
  /\ sequence' = [sequence EXCEPT ![taken] = 0]
  /\ unregistered' = unregistered \cup {taken}
  /\ UNCHANGED <<sequenceId, current, highNotified, taken, response, data, serverPc, asked>>

\* Mutant: the callback keeps a response that nobody has claimed yet.
CallbackKeepsUnclaimed ==
  /\ loaderPc = "callback"
  /\ response' = IF response = Null THEN taken ELSE response
  /\ loaderPc' = "success"
  /\ UNCHANGED <<mutexVars, highNotified, taken, data, serverPc, asked>>

\* The callback of Engine::SendEngineReloadRequest.
Callback ==
  /\ loaderPc = "callback"
  /\ response' = taken
  /\ loaderPc' = "success"
  /\ UNCHANGED <<mutexVars, highNotified, taken, data, serverPc, asked>>

ReportLoadSuccess ==
  /\ loaderPc = "success"
  /\ current' = taken
  /\ loaderPc' = "check"
  /\ UNCHANGED <<sequence, sequenceId, unregistered, highNotified, taken, response, data,
                 serverPc, asked>>

\* The task is done: BackgroundFuture notifies only after the loop returned.
EndTask ==
  /\ loaderPc = "ending"
  /\ loaderPc' = "ended"
  /\ UNCHANGED <<mutexVars, highNotified, taken, response, data, serverPc, asked>>

LoaderStep ==
  \/ TakeRequest \/ NoPendingRequest \/ PollHighPriority \/ WaitForHighPriority
  \/ Build \/ BuildFails \/ Callback \/ ReportLoadSuccess \/ EndTask

\* The rest of StartNewDataBuildTask, once it has begun.
ServerStep == NotifyHighPriority \/ ScheduleLoop

\* A call of Engine::MaybeReloadEngine by the server thread.
ReloadEngine ==
  /\ serverPc = "idle"
  /\ MaybeReloadEngine
  /\ UNCHANGED <<mutexVars, highNotified, loaderPc, taken, serverPc, asked>>

LoaderNext ==
  \/ \E r \in Requests : StartNewDataBuildTask(r)
  \/ ServerStep
  \/ ReloadEngine
  \/ LoaderStep

\* Both threads go on with what they have begun; nobody has to ask or reload.
LoaderSpec ==
  /\ LoaderInit /\ [][LoaderNext]_loaderVars
  /\ WF_loaderVars(LoaderStep) /\ WF_loaderVars(ServerStep)

-----------------------------------------------------------------------------
(* Properties *)

\* When the loader rests, what Engine has, or is about to take over, is what
\* DataLoader believes is loaded: a request it refuses as current is in use.
ResponseIsCurrent ==
  ~IsRunning => current = IF response = Null THEN data ELSE response

\* Engine never goes back to data of a lower priority.
NoDowngrade ==
  [][data' # data /\ data # Null => Priority[data'] <= Priority[data]]_loaderVars

\* Data that failed to load is never handed to Engine afterwards.
FailedStaysOut ==
  [][\A r \in unregistered : response' = r => response = r]_loaderVars

\* A started load comes to an end, however many requests fail; an engine
\* without data waits for it in CreateSession.
LoaderEnds == IsRunning ~> ~IsRunning

\* "The request with highest priority should be loaded."
\* (src/src/engine/data_loader_test.cc), once both threads rest.
SettlesOnTop ==
  ~IsRunning /\ serverPc = "idle" =>
    \A r \in Requests : IsFront(sequence, r) => r = current
=============================================================================
