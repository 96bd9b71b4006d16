------------------------------- MODULE Client -------------------------------
(***************************************************************************)
(* One client of the conversion server (src/src/client/client.cc) with the *)
(* transport (ipc/unix_ipc.cc), the launcher (server_launcher.cc) and the  *)
(* part of the server that the client can tell: whether it runs and what   *)
(* it still knows of the client's session.                                 *)
(*                                                                         *)
(* The server may die, be replaced, fall silent or lose an answer at any   *)
(* call, so an operation maps a world to the set of its outcomes.  A world *)
(* is a record: up and session are the server's, status, id and gen the    *)
(* client's; operations leave its other fields alone.                      *)
(***************************************************************************)
EXTENDS Naturals, Sequences, SequencesExt

CONSTANTS Letters,   \* the keys that insert a character
          None       \* no session

\* Statuses >= SERVER_TIMEOUT: TIMEOUT stands for SERVER_TIMEOUT,
\* SERVER_BROKEN_MESSAGE and SERVER_VERSION_MISMATCH, which end alike.
Refusing == {"TIMEOUT", "FATAL"}
Statuses == {"UNKNOWN", "SHUTDOWN", "INVALID_SESSION", "OK"} \cup Refusing

\* One fault of the budget is used up; without it nothing can go wrong.
Faulty(w) == IF w.faults > 0 THEN {[w EXCEPT !.faults = @ - 1]} ELSE {}
Crashed(w) == [w EXCEPT !.up = FALSE, !.session = None]
Replaced(w) == [w EXCEPT !.up = TRUE, !.session = None]

-----------------------------------------------------------------------------
(* The server.  A session is known by a name that differs from the one the  *)
(* user is looking at, is on once the initial mode has reached it, and      *)
(* holds a reading that may be converted.                                   *)

NewSession(w) ==
  [no |-> CHOOSE n \in 1..2 : n # w.view, on |-> FALSE,
   reading |-> <<>>, conv |-> FALSE]

\* What Session answers to a key: a letter after a conversion commits it and
\* begins the next composition.
KeyEffect(s, key) ==
  LET answer(reading, conv, result) ==
        [reading |-> reading, conv |-> conv, consumed |-> TRUE, result |-> result]
  IN  IF key \in Letters
      THEN IF s.conv THEN answer(<<key>>, FALSE, TRUE)
           ELSE answer(Append(s.reading, key), FALSE, FALSE)
      ELSE IF s.reading = <<>> THEN [answer(<<>>, FALSE, FALSE) EXCEPT !.consumed = FALSE]
      ELSE CASE key = "CONVERT" -> answer(s.reading, TRUE, FALSE)
             [] key = "ENTER" -> answer(<<>>, FALSE, TRUE)
             [] key = "BACKSPACE" ->
                  IF s.conv THEN answer(s.reading, FALSE, FALSE)
                  ELSE answer(Front(s.reading), FALSE, FALSE)

\* A response.  A response without bytes parses as this one as well.
EmptyReply == [id |-> "void", mode |-> FALSE, reading |-> <<>>, conv |-> FALSE,
               consumed |-> FALSE, result |-> FALSE]
ReplyOf(s) == [EmptyReply EXCEPT !.id = "some", !.mode = s.on,
                                 !.reading = s.reading, !.conv = s.conv]

\* A request for the client's session; EvalCommand answers id 0 to others.
ServeSession(w, req) ==
  LET s == w.session
      effect == KeyEffect(s, req.key)
      keyed == [s EXCEPT !.reading = effect.reading, !.conv = effect.conv]
      changed == [s EXCEPT !.reading = <<>>, !.conv = FALSE]
      done(t, v) == [w |-> [v EXCEPT !.session = t],
                     reply |-> [ReplyOf(t) EXCEPT !.consumed = TRUE]]
  IN  CASE req.type = "KEY" ->
             LET v == [w EXCEPT !.sends = @ + (IF req.user THEN 1 ELSE 0),
                                !.direct = @ \/ ~s.on]
             IN  IF s.on
                 THEN [done(keyed, v) EXCEPT !.reply.consumed = effect.consumed,
                                             !.reply.result = effect.result]
                 ELSE [done(s, v) EXCEPT !.reply.consumed = FALSE]
        [] req.type = "MODE" -> done([s EXCEPT !.on = TRUE], w)
        [] req.type = "COMMAND" -> done(s, [w EXCEPT !.ran = @ \cup {<<s.no, s.reading>>}])
        [] req.type = "SUBMIT" ->
             [done(changed, [w EXCEPT !.ran = @ \cup {<<s.no, s.reading>>}])
                EXCEPT !.reply.result = s.reading # <<>>]
        [] req.type = "REVERT" -> done(changed, w)
        [] req.type = "STATUS" -> done(s, w)
        [] req.type = "DELETE" ->
             [w |-> [w EXCEPT !.session = None], reply |-> EmptyReply]

Serve(w, req) ==
  CASE req.type = "CREATE" ->
         [w |-> [w EXCEPT !.session = NewSession(w)],
          reply |-> [EmptyReply EXCEPT !.id = "some"]]
    [] req.type \in {"SET_REQUEST", "GET_CONFIG"} ->
         [w |-> w, reply |-> [EmptyReply EXCEPT !.id = "some"]]
    [] OTHER -> IF w.session = None THEN [w |-> w, reply |-> EmptyReply]
                ELSE ServeSession(w, req)

Request(type) == [type |-> type, key |-> None, user |-> FALSE]
KeyRequest(key, user) == [type |-> "KEY", key |-> key, user |-> user]

-----------------------------------------------------------------------------
(* The transport.                                                           *)

\* The server that a connection meets: it may have died since the last call,
\* and another client may have started a new one.
Meets(w) == {w} \cup UNION {{Crashed(v), Replaced(v)} : v \in Faulty(w)}

Failed(w, status) ==
  [w |-> [w EXCEPT !.status = status], ok |-> FALSE, reply |-> EmptyReply]

\* IPCClient::Call over a connection.  A server that dies before it answers
\* closes the connection, which reads as an empty response or as an error; an
\* answer may come too late or be lost while the server lives on, with the
\* request served or not.
Outcomes(w, req, served) ==
  LET survivors == UNION {Faulty(v) : v \in
                     IF req.type = "CREATE" THEN {w} ELSE {w, served.w}}
  IN  {[w |-> served.w, ok |-> TRUE, reply |-> served.reply]}
      \cup (UNION {{[w |-> Crashed(v), ok |-> TRUE, reply |-> EmptyReply],
                    Failed(Crashed(v), "SHUTDOWN")} : v \in Faulty(w)})
      \cup {Failed(v, status) : v \in survivors, status \in {"TIMEOUT", "SHUTDOWN"}}

\* The call, with the server's own work on the request.
CallServer(w, req) == Outcomes(w, req, Serve(w, req))

\* Client::Call.
Call(w, req) ==
  IF w.status \in Refusing THEN {Failed(w, w.status)}
  ELSE UNION {IF v.up THEN CallServer(v, req)
              ELSE {Failed(v, IF v.status = "UNKNOWN" THEN "UNKNOWN"
                              ELSE "SHUTDOWN")} : v \in Meets(w)}

-----------------------------------------------------------------------------
(* The client.                                                              *)

Result(w, ok) == [w |-> w, ok |-> ok]

\* ServerLauncher::StartServer: a server answers the ping, or a new one is
\* spawned, or none can be started.
StartServer(w) ==
  {Result([w EXCEPT !.up = TRUE], TRUE)} \cup {Result(v, FALSE) : v \in Faulty(w)}

\* EnsureConnection.
EnsureConnection(w) ==
  CASE w.status \in {"OK", "INVALID_SESSION"} -> {Result(w, TRUE)}
    [] w.status \in Refusing -> {Result([w EXCEPT !.status = "FATAL"], FALSE)}
    [] w.status \in {"SHUTDOWN", "UNKNOWN"} ->
         {Result([s.w EXCEPT !.status = IF s.ok THEN "INVALID_SESSION" ELSE "FATAL"],
                 s.ok) : s \in StartServer(w)}

\* CreateSession: the old session is out of reach from here on.  The server
\* may refuse; an empty response counts as a success with the id 0.
CreateSession(w) ==
  LET v == [w EXCEPT !.id = "void", !.session = None]
  IN  {Result([r.w EXCEPT !.id = r.reply.id], r.ok) : r \in Call(v, Request("CREATE"))}
      \cup {Result([u EXCEPT !.status = "INVALID_SESSION"], FALSE) : u \in Faulty(v)}

\* The second half of EnsureSession: whatever becomes of SET_REQUEST, the
\* status is SERVER_OK.
OpenSession(w) ==
  UNION {IF s.ok THEN {Result([q.w EXCEPT !.status = "OK"], TRUE) :
           q \in Call([s.w EXCEPT !.gen = @ + 1], Request("SET_REQUEST"))}
         ELSE {Result(d.w, FALSE) : d \in EnsureConnection(s.w)} :
         s \in CreateSession(w)}

EnsureSession(w) ==
  UNION {IF ~c.ok \/ c.w.status = "OK" THEN {c} ELSE OpenSession(c.w) :
         c \in EnsureConnection(w)}

\* EnsureCallCommand of a managed session: a lost session is replaced, but the
\* request is never repeated.
Checked(r) ==
  IF r.ok /\ r.reply.id # r.w.id
  THEN [r EXCEPT !.w.status = "INVALID_SESSION"] ELSE r

EnsureCallCommand(w, req) ==
  UNION {IF ~e.ok THEN {Failed(e.w, e.w.status)}
         ELSE UNION {IF r.w.status \in {"SHUTDOWN", "INVALID_SESSION"}
                     THEN {Failed(v.w, v.w.status) : v \in EnsureSession(r.w)}
                     ELSE IF r.w.status \in Refusing THEN {Failed(r.w, r.w.status)}
                     ELSE {r} : r \in {Checked(c) : c \in Call(e.w, req)}} :
         e \in EnsureSession(w)}

\* The destructor of a client, and the client that the pool makes next.
ReplaceClient(w) ==
  {[r.w EXCEPT !.status = "UNKNOWN", !.id = "void", !.gen = 0, !.session = None] :
     r \in IF w.id = "void" THEN {Result(w, TRUE)} ELSE Call(w, Request("DELETE"))}
=============================================================================
