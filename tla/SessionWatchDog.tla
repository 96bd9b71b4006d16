-------------------------- MODULE SessionWatchDog --------------------------
(***************************************************************************)
(* The server process as a whole: the thread that serves requests          *)
(* (IPCServer::Loop of src/src/ipc/unix_ipc.cc, SessionServer::Process),   *)
(* the watch dog thread that sends it CLEANUP and aborts the process when  *)
(* it falls silent (session/session_watch_dog.cc), and the main thread     *)
(* that waits for the first and then stops and joins the second            *)
(* (server/mozc_server.cc, the destructors of SessionServer).  The watch   *)
(* dog is a client of its own process.                                     *)
(***************************************************************************)
EXTENDS Naturals, Sequences, SequencesExt

CONSTANTS Backlog,     \* connections that wait to be accepted; 10 in the code
          MaxUsers,    \* connections of users that wait at a time
          PingTrial,   \* kPingTrial
          Loads,       \* CPU loads, in percent
          Silent       \* no answer yet

ASSUME ConstantsAssumption ==
  /\ {Backlog, MaxUsers, PingTrial} \subseteq Nat \ {0}
  /\ Loads \subseteq 0..100 /\ 0 \in Loads /\ Silent \notin {"answer", "closed"}

VARIABLES loop,      \* the serving thread
          current,   \* the request it is serving
          backlog,   \* the connections that it has not accepted
          dog,       \* the watch dog thread, and the number of its ping
          answer,    \* the answer to the call that the dog is waiting for
          stop,      \* stop_
          main,      \* the main thread
          load,      \* the loads that the last check has seen
          missed     \* history: calls of the dog timed out in a row

vars == <<loop, current, backlog, dog, answer, stop, main, load, missed>>

\* The dog samples the load every 5 of the last 60 seconds: ten early samples
\* and the two of the last 10 seconds, each kind alike.
Samples == 12
Latest == 2
Sum(l) == (Samples - Latest) * l.early + Latest * l.late

\* Requests; a dead one is one whose client has given up.
Requests == [type : {"CLEANUP", "PING", "USER", "SHUTDOWN"}, live : BOOLEAN]
NoRequest == [type |-> "USER", live |-> FALSE]
OfDog(r) == r.type \in {"CLEANUP", "PING"} /\ r.live

Init ==
  /\ loop = "accept" /\ current = NoRequest /\ backlog = <<>>
  /\ dog = [at |-> "idle", trial |-> 0] /\ answer = Silent /\ stop = FALSE
  /\ main = "wait" /\ load = [early |-> 0, late |-> 0] /\ missed = 0

Alive == dog.at # "aborted" /\ main # "exited"
At(place) == Alive /\ dog.at = place
Goto(place) == dog' = [dog EXCEPT !.at = place]

-----------------------------------------------------------------------------
(* The serving thread.                                                      *)

\* The users' connections that wait.
UsersWaiting == SelectSeq(backlog, LAMBDA r : r.type \in {"USER", "SHUTDOWN"})

\* A user's connection.
Connect ==
  /\ Alive /\ loop # "ended" /\ Len(backlog) < Backlog /\ Len(UsersWaiting) < MaxUsers
  /\ \E type \in {"USER", "SHUTDOWN"} :
       backlog' = Append(backlog, [type |-> type, live |-> TRUE])
  /\ UNCHANGED <<loop, current, dog, answer, stop, main, load, missed>>

\* accept and RecvMessage.
Accept ==
  /\ Alive /\ loop = "accept" /\ backlog # <<>>
  /\ loop' = "serving" /\ current' = Head(backlog) /\ backlog' = Tail(backlog)
  /\ UNCHANGED <<dog, answer, stop, main, load, missed>>

\* Process, SendMessage and close.
Serve ==
  /\ Alive /\ loop = "serving" /\ current.type # "SHUTDOWN"
  /\ loop' = "accept" /\ current' = NoRequest
  /\ answer' = IF OfDog(current) THEN "answer" ELSE answer
  /\ UNCHANGED <<backlog, dog, stop, main, load, missed>>

\* SHUTDOWN, or a CLEANUP that finds the server unused: Process returns false
\* and the loop ends.  No answer is sent and every connection is closed.
EndLoop ==
  /\ Alive /\ loop = "serving" /\ current.type \in {"SHUTDOWN", "CLEANUP"}
  /\ loop' = "ended" /\ current' = NoRequest /\ backlog' = <<>>
  /\ answer' = IF \E r \in Range(backlog) \cup {current} : OfDog(r)
               THEN "closed" ELSE answer
  /\ UNCHANGED <<dog, stop, main, load, missed>>

\* A request that never ends.
Hang ==
  /\ Alive /\ loop = "serving" /\ current.type = "USER" /\ loop' = "hung"
  /\ UNCHANGED <<current, backlog, dog, answer, stop, main, load, missed>>

-----------------------------------------------------------------------------
(* The watch dog: SessionWatchDog::ThreadMain.                              *)

\* CanSendCleanupCommand: "same" is a clock that has not moved, "suspend" a
\* time of more than two intervals.  The second average divides the sum of all
\* the samples by the number of the latest.
CanSendCleanupCommand(l, elapsed) ==
  /\ elapsed = "interval"
  /\ Sum(l) <= 33 * Samples /\ Sum(l) <= 66 * Latest

\* Mutant: only the wait between two rounds can be interrupted, and a dog told
\* to stop while it waits between pings never looks again.
Stopped_IdleOnly ==
  /\ At("idle") /\ stop /\ Goto("stopped")
  /\ UNCHANGED <<loop, current, backlog, answer, stop, main, load, missed>>

\* Every wait of the dog ends at once when it is told to stop.
Stopped ==
  /\ Alive /\ dog.at \in {"idle", "wait", "last"} /\ stop /\ Goto("stopped")
  /\ UNCHANGED <<loop, current, backlog, answer, stop, main, load, missed>>

Check(pass) ==
  /\ At("idle") /\ ~stop
  /\ \E early, late \in Loads, elapsed \in {"same", "interval", "suspend"} :
       /\ load' = [early |-> early, late |-> late]
       /\ CanSendCleanupCommand(load', elapsed) = pass
  /\ Goto(IF pass THEN "cleanup" ELSE "idle")
  /\ UNCHANGED <<loop, current, backlog, answer, stop, main, missed>>

\* The connection for a call: it blocks while the backlog is full.
Dial(type) ==
  /\ loop # "ended" /\ Len(backlog) < Backlog
  /\ backlog' = Append(backlog, [type |-> type, live |-> TRUE])
  /\ UNCHANGED <<loop, current, answer, stop, main, load, missed>>

Cleanup == At("cleanup") /\ Dial("CLEANUP") /\ Goto("cleaning")
Ping == At("ping") /\ Dial("PING") /\ Goto("pinging")

\* Mutant: an answer to a ping does not end the pings.
Succeeded_KeepsPinging ==
  dog' = IF dog.trial = 0 THEN [at |-> "idle", trial |-> 0]
         ELSE IF dog.trial = PingTrial THEN [dog EXCEPT !.at = "last"]
         ELSE [at |-> "wait", trial |-> dog.trial + 1]

\* ThreadMain after an answer.
Succeeded == dog' = [at |-> "idle", trial |-> 0]

\* Mutant: the pings are not counted.
FailedCall_NotCounted == dog' = [dog EXCEPT !.at = "wait"]

\* ThreadMain after a failed call: a failure of CLEANUP starts the pings, a
\* failed ping is followed by the next, and the last of them by one more wait.
FailedCall ==
  dog' = IF dog.trial = PingTrial THEN [dog EXCEPT !.at = "last"]
         ELSE [at |-> "wait", trial |-> dog.trial + 1]

\* A call returns: with an answer, or with a closed connection, which reads as
\* an empty answer or as an error.
Return ==
  /\ Alive /\ dog.at \in {"cleaning", "pinging"} /\ answer # Silent
  /\ Succeeded \/ (answer = "closed" /\ FailedCall)
  /\ answer' = Silent /\ missed' = 0
  /\ UNCHANGED <<loop, current, backlog, stop, main, load>>

\* There is no server to connect to any more.
Refused ==
  /\ Alive /\ dog.at \in {"cleanup", "ping"} /\ loop = "ended" /\ FailedCall
  /\ UNCHANGED <<loop, current, backlog, answer, stop, main, load, missed>>

\* One more call has timed out; the history stops counting at PingTrial + 1.
Missed == IF missed > PingTrial THEN missed ELSE missed + 1

\* kCleanupTimeout or kPingTimeout has passed.  The request stays where it is.
Timeout ==
  LET given(r) == IF OfDog(r) THEN [r EXCEPT !.live = FALSE] ELSE r
  IN  /\ Alive /\ dog.at \in {"cleaning", "pinging"} /\ answer = Silent
      /\ backlog' = [i \in DOMAIN backlog |-> given(backlog[i])]
      /\ current' = given(current) /\ missed' = Missed /\ FailedCall
      /\ UNCHANGED <<loop, answer, stop, main, load>>

\* kPingInterval has passed.
PingWait ==
  /\ At("wait") /\ ~stop /\ Goto("ping")
  /\ UNCHANGED <<loop, current, backlog, answer, stop, main, load, missed>>

\* The last 100 milliseconds have passed: LOG(FATAL).
Abort ==
  /\ At("last") /\ ~stop /\ Goto("aborted")
  /\ UNCHANGED <<loop, current, backlog, answer, stop, main, load, missed>>

-----------------------------------------------------------------------------
(* The main thread: Wait, and the members of SessionHandler in the order of *)
(* their destruction, the engine before the watch dog.                      *)

DestroyEngine ==
  /\ Alive /\ main = "wait" /\ loop = "ended" /\ main' = "engine"
  /\ UNCHANGED <<loop, current, backlog, dog, answer, stop, load, missed>>

\* SessionWatchDog::~SessionWatchDog.
Notify ==
  /\ Alive /\ main = "engine" /\ main' = "join" /\ stop' = TRUE
  /\ UNCHANGED <<loop, current, backlog, dog, answer, load, missed>>

Join ==
  /\ Alive /\ main = "join" /\ dog.at = "stopped" /\ main' = "exited"
  /\ UNCHANGED <<loop, current, backlog, dog, answer, stop, load, missed>>

Next ==
  \/ Connect \/ Accept \/ Serve \/ EndLoop \/ Hang
  \/ Stopped \/ Check(TRUE) \/ Check(FALSE) \/ Cleanup \/ Ping
  \/ Return \/ Refused \/ Timeout \/ PingWait \/ Abort
  \/ DestroyEngine \/ Notify \/ Join

\* Threads run and timeouts expire; the CPU is idle enough again and again.
\* Nothing makes users connect and nothing makes a request hang.
Fairness ==
  /\ WF_vars(Accept) /\ WF_vars(Serve \/ EndLoop)
  /\ WF_vars(Stopped) /\ SF_vars(Check(TRUE)) /\ WF_vars(Cleanup) /\ WF_vars(Ping)
  /\ WF_vars(Return) /\ WF_vars(Refused) /\ WF_vars(Timeout)
  /\ WF_vars(PingWait) /\ WF_vars(Abort)
  /\ WF_vars(DestroyEngine) /\ WF_vars(Notify) /\ WF_vars(Join)

Spec == Init /\ [][Next]_vars /\ Fairness

-----------------------------------------------------------------------------
Gone == ~Alive

\* The dog is waiting for the answer to a call.
Calling == dog.at \in {"cleaning", "pinging"} /\ answer = Silent

\* Where the live requests of the dog are: in the backlog, or 0, being served.
CallsAt == {i \in 0..Len(backlog) : OfDog(IF i = 0 THEN current ELSE backlog[i])}

\* The types.  The dog has at most one live request under way, and an answer
\* is there only while the dog is waiting for it: an answer that comes after the
\* dog has given up is never taken for that of a later ping.
TypeOK ==
  /\ loop \in {"accept", "serving", "hung", "ended"}
  /\ current \in Requests /\ backlog \in Seq(Requests) /\ Len(backlog) <= Backlog
  /\ dog \in [at : {"idle", "cleanup", "cleaning", "wait", "ping", "pinging",
                    "last", "stopped", "aborted"}, trial : 0..PingTrial]
  /\ answer \in {Silent, "answer", "closed"} /\ stop \in BOOLEAN
  /\ main \in {"wait", "engine", "join", "exited"}
  /\ load \in [early : Loads, late : Loads] /\ missed \in 0..PingTrial + 1
  /\ answer # Silent => dog.at \in {"cleaning", "pinging"}
  /\ IF Calling THEN \E i \in 0..Backlog : CallsAt = {i} ELSE CallsAt = {}

\* As long as the server serves, the dog aborts it only after CLEANUP and every
\* ping have timed out in a row, no answer of one being taken for another's.
NoHastyAbort ==
  /\ TypeOK
  /\ dog.at = "aborted" /\ loop # "ended" => missed = PingTrial + 1

\* A shutdown ends although the main thread joins a watch dog that may be
\* waiting for the server that has just stopped.
ShutdownEnds == loop = "ended" ~> Gone

\* A server that hangs in a request does not stay: the dog notices.
HangIsBroken == loop = "hung" ~> Gone
=============================================================================
