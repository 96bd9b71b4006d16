------------------------- MODULE RawReadingRecovery -------------------------
(***************************************************************************)
(* The fcitx5 input context (src/src/unix/fcitx5/mozc_state.cc) and the    *)
(* journal it keeps so that a composition survives the loss of its session *)
(* (raw_reading_recovery.cc), on top of a client whose server may fail at  *)
(* any call.  The journal holds raw keys.  When a new session generation   *)
(* appears the keys are typed again into the replacement; commands, whose  *)
(* candidate ids and callbacks belong to the lost session, are dropped.    *)
(***************************************************************************)
EXTENDS Client

CONSTANTS MaxFaults,       \* faults in a behaviour
          MaxLength,       \* the longest reading
          MaxEventCount,   \* kMaxEventCount, the capacity of the journal
          TypeOverConversion  \* does the user type on while converting?

ASSUME ConstantsAssumption ==
  /\ MaxFaults \in Nat /\ MaxLength \in Nat \ {0} /\ MaxEventCount \in Nat
  /\ TypeOverConversion \in BOOLEAN /\ None \notin Letters
  /\ Letters \cap {"CONVERT", "ENTER", "BACKSPACE"} = {}
  /\ None \notin [no : 1..2, on : BOOLEAN, reading : Seq(Letters), conv : BOOLEAN]

VARIABLES world,    \* server, client and journal; see Init
          shown,    \* the preedit on the screen
          secure,   \* CapabilityFlag::PasswordOrSensitive
          event     \* the last event, and whether the server answered it

vars == <<world, shown, secure, event>>

Keys == Letters \cup {"CONVERT", "ENTER", "BACKSPACE"}
Nothing == [reading |-> <<>>, conv |-> FALSE]
Event(type, key, ok) == [type |-> type, key |-> key, ok |-> ok]

\* view is the session that the screen shows; ran, sends and direct record
\* what the current event made sessions do: those that ran a command of the
\* user, how often one took the key, whether one took a key while still off.
Init ==
  /\ world = [up |-> FALSE, session |-> None, faults |-> MaxFaults,
              status |-> "UNKNOWN", id |-> "void", gen |-> 0,
              journal |-> <<>>, suppressed |-> FALSE, observed |-> 0,
              initial |-> 0, view |-> 0,
              ran |-> {}, sends |-> 0, direct |-> FALSE]
  /\ shown = Nothing /\ secure = FALSE /\ event = Event("focus", None, FALSE)

-----------------------------------------------------------------------------
(* The journal.                                                             *)

ClearReading(w) == [w EXCEPT !.journal = <<>>, !.suppressed = FALSE]
SuppressReading(w) == [w EXCEPT !.journal = <<>>, !.suppressed = TRUE]
ResetSessionBoundary(w) == [ClearReading(w) EXCEPT !.observed = 0]

\* IsRecoverableRawKey.
IsRecoverableRawKey(key) == key \in Letters \cup {"BACKSPACE"}

\* Mutant: only the suffix after a conversion is kept.
RecordSuccessfulKey_Suffix(w, key, reply, sec) ==
  IF sec THEN ClearReading(w)
  ELSE IF ~reply.consumed THEN w
  ELSE IF reply.result \/ reply.reading = <<>> \/ ~IsRecoverableRawKey(key)
  THEN ClearReading(w)
  ELSE IF w.suppressed THEN w
  ELSE IF Len(w.journal) >= MaxEventCount THEN SuppressReading(w)
  ELSE [w EXCEPT !.journal = Append(@, key)]

\* RecordSuccessfulKey.
RecordSuccessfulKey(w, key, reply, sec) ==
  IF sec THEN ClearReading(w)
  ELSE IF ~reply.consumed THEN w
  ELSE IF reply.result \/ reply.reading = <<>> THEN ClearReading(w)
  ELSE IF ~IsRecoverableRawKey(key) THEN SuppressReading(w)
  ELSE IF w.suppressed THEN w
  ELSE IF Len(w.journal) >= MaxEventCount THEN SuppressReading(w)
  ELSE [w EXCEPT !.journal = Append(@, key)]

-----------------------------------------------------------------------------
(* Recovery.                                                                *)

\* MozcState::InitializeSessionGeneration.
InitializeSession(w, generation) ==
  IF w.gen # generation THEN {Result(w, FALSE)}
  ELSE IF w.initial = generation THEN {Result(w, TRUE)}
  ELSE {IF c.ok /\ c.w.gen = generation /\ c.reply.mode
        THEN Result([c.w EXCEPT !.initial = generation], TRUE)
        ELSE Result(c.w, FALSE) : c \in EnsureCallCommand(w, Request("MODE"))}

\* One turn of the loop of Prepare: a session and its generation initialised,
\* a failure, or a generation that has changed meanwhile.
Turned(w, verdict) == [w |-> w, verdict |-> verdict]

Attempt(w) ==
  UNION {IF ~e.ok THEN {Turned(e.w, "failed")}
         ELSE IF e.w.observed = e.w.gen THEN {Turned(e.w, "stable")}
         ELSE {Turned(i.w, IF i.w.gen # e.w.gen THEN "again"
                           ELSE IF i.ok THEN "stable" ELSE "failed") :
                 i \in InitializeSession(e.w, e.w.gen)} : e \in EnsureSession(w)}

\* Mutant: what a failed replay has typed stays in the session.
Abort_Nothing(w) == {w}

\* BestEffortAbortPartialRecovery.
Abort(w) == {c.w : c \in EnsureCallCommand(w, Request("REVERT"))}

\* The journal is typed again until a key goes wrong: lost, taken by yet
\* another session, refused by this one, or answered with something other
\* than a composition.
Retyped(rs, key) ==
  UNION {IF ~r.ok THEN {r}
         ELSE {[w |-> c.w, reply |-> c.reply,
                ok |-> c.ok /\ c.w.gen = r.w.gen /\ ~c.reply.result
                       /\ c.reply.consumed /\ c.reply.reading # <<>>] :
                 c \in EnsureCallCommand(r.w, KeyRequest(key, FALSE))}
              \cup {[w |-> v, reply |-> EmptyReply, ok |-> FALSE] :
                      v \in Faulty(r.w)} : r \in rs}

Replay(w) ==
  LET typed[n \in 0..Len(w.journal)] ==
        IF n = 0 THEN {[w |-> w, reply |-> EmptyReply, ok |-> TRUE]}
        ELSE Retyped(typed[n - 1], w.journal[n])
  IN  typed[Len(w.journal)]

Prepared(w, verdict, reply) == [w |-> w, verdict |-> verdict, reply |-> reply]

\* The second half of Prepare: the reading is rebuilt, or the partial replay
\* taken back and the old generation restored.
RecoverReading(w, previous) ==
  UNION {IF r.ok THEN {Prepared(r.w, "changed", r.reply)}
         ELSE {Prepared([SuppressReading(v) EXCEPT !.observed = previous],
                        "failed", EmptyReply) :
                 v \in IF r.w.gen = w.gen THEN Abort(r.w) ELSE {r.w}} :
         r \in Replay(w)}

\* The rest of Prepare once the session is stable.
Adopt(w, sec) ==
  LET v == [w EXCEPT !.observed = w.gen]
  IN  IF w.observed \in {0, w.gen} THEN {Prepared(v, "ready", EmptyReply)}
      ELSE IF sec THEN {Prepared(ClearReading(v), "changed", EmptyReply)}
      ELSE IF w.journal = <<>> \/ w.suppressed
      THEN {Prepared(v, "changed", EmptyReply)}
      ELSE RecoverReading(v, w.observed)

Again(turns) ==
  UNION {IF t.verdict = "again" THEN Attempt(t.w) ELSE {t} : t \in turns}

Prepare(w, sec) ==
  UNION {IF t.verdict = "stable" THEN Adopt(t.w, sec)
         ELSE {Prepared(t.w, "failed", EmptyReply)} :
         t \in Again(Again({Turned(IF sec THEN ClearReading(w) ELSE w, "again")}))}

\* fail_unconsumed_key: the key goes to the application, so nothing of the
\* composition may be typed again later.
FailUnconsumed(w, sec) ==
  {[w |-> IF sec THEN ClearReading(v) ELSE SuppressReading(v),
    ok |-> FALSE, reply |-> EmptyReply] :
     v \in IF w.observed # 0 /\ w.gen = w.observed THEN Abort(w) ELSE {w}}

SendKey(w, key) == EnsureCallCommand(w, KeyRequest(key, TRUE))

\* Mutant: a key of a password is sent again like any other.
Retry_Secure(w, key, sec) ==
  UNION {IF p.verdict # "changed" THEN FailUnconsumed(p.w, sec)
         ELSE UNION {IF c.ok THEN {c} ELSE FailUnconsumed(c.w, sec) :
                     c \in SendKey(p.w, key)} :
         p \in Prepare(w, sec)}

\* The one retry: in a new generation, and never of secure input.
Retry(w, key, sec) ==
  IF sec THEN FailUnconsumed(w, sec)
  ELSE UNION {IF p.verdict # "changed" THEN FailUnconsumed(p.w, sec)
              ELSE UNION {IF c.ok THEN {c} ELSE FailUnconsumed(c.w, sec) :
                          c \in SendKey(p.w, key)} :
              p \in Prepare(w, sec)}

\* DispatchKey.
DispatchKey(w, key, sec) ==
  UNION {IF p.verdict = "failed" THEN FailUnconsumed(p.w, sec)
         ELSE UNION {IF c.ok THEN {c} ELSE Retry(c.w, key, sec) :
                     c \in SendKey(p.w, key)} :
         p \in Prepare(w, sec)}

-----------------------------------------------------------------------------
(* The input context.                                                       *)

\* ApplyInitialModeForCurrentClient.
TryMode(results) ==
  UNION {IF r.ok THEN {r}
         ELSE UNION {IF e.ok THEN InitializeSession(e.w, e.w.gen) ELSE {e} :
                     e \in EnsureSession(r.w)} : r \in results}

ApplyInitialMode(w) == TryMode(TryMode({Result(w, FALSE)}))

\* A command that is not sent any more.
Dropped(p) == [w |-> p.w, reply |-> p.reply,
               ok |-> p.verdict = "changed" /\ p.reply.consumed]

\* Mutant: only a failure keeps a command from being sent.
TrySendRawCommand_Crosses(w, type, sec) ==
  UNION {IF p.verdict = "failed" THEN {[w |-> p.w, ok |-> FALSE, reply |-> EmptyReply]}
         ELSE EnsureCallCommand(p.w, Request(type)) : p \in Prepare(w, sec)}

\* TrySendRawCommand: a command that meets a new session is dropped; the
\* response is then the reading that was rebuilt, if one was.
TrySendRawCommand(w, type, sec) ==
  UNION {IF p.verdict # "ready" THEN {Dropped(p)}
         ELSE UNION {IF c.ok THEN {c}
                     ELSE {Dropped(q) : q \in Prepare(c.w, sec)} :
                     c \in EnsureCallCommand(p.w, Request(type))} :
         p \in Prepare(w, sec)}

\* ParseResponse: a result ends the journal, the screen shows the session.
Rendered(r) ==
  LET v == IF r.reply.result THEN ClearReading(r.w) ELSE r.w
  IN  [v EXCEPT !.view = IF v.session = None THEN 0 ELSE v.session.no]

\* Only what the present event does is recorded.
Fresh(w) == [w EXCEPT !.ran = {}, !.sends = 0]

\* TrySendKeyEvent after ApplyInitialModeForCurrentClient.
SentKey(w, key, sec) ==
  UNION {IF ~r.ok THEN {[w |-> r.w, ok |-> FALSE, reply |-> EmptyReply]}
         ELSE UNION {IF c.ok THEN DispatchKey(c.w, key, sec)
                     ELSE {[w |-> c.w, ok |-> FALSE, reply |-> EmptyReply]} :
                     c \in EnsureConnection(r.w)} : r \in ApplyInitialMode(w)}

\* ProcessKeyEvent.
ProcessKeyEvent(key) ==
  /\ key \in Letters => /\ Len(shown.reading) < MaxLength
                        /\ shown.conv => TypeOverConversion
  /\ \E r \in SentKey(Fresh(world), key, secure) :
       IF r.ok
       THEN LET v == RecordSuccessfulKey(r.w, key, r.reply, secure)
            IN  /\ world' = Rendered([w |-> v, reply |-> r.reply])
                /\ shown' = [reading |-> r.reply.reading, conv |-> r.reply.conv]
                /\ event' = Event("key", key, r.reply.consumed)
       ELSE /\ world' = r.w /\ event' = Event("key", key, FALSE)
            /\ UNCHANGED shown
  /\ UNCHANGED secure

\* SelectCandidate, Paging and the callback of the timer.
SendCommand ==
  /\ shown # Nothing
  /\ \E r \in TrySendRawCommand(Fresh(world), "COMMAND", secure) :
       /\ world' = IF r.ok THEN Rendered(r) ELSE r.w
       /\ shown' = IF r.ok THEN [reading |-> r.reply.reading, conv |-> r.reply.conv]
                   ELSE shown
       /\ event' = Event("command", None, r.ok)
  /\ UNCHANGED secure

\* Reset.
Reset ==
  /\ \E r \in TrySendRawCommand(ClearReading(Fresh(world)), "REVERT", secure) :
       world' = IF r.ok THEN Rendered(r) ELSE r.w
  /\ shown' = Nothing /\ event' = Event("reset", None, FALSE)
  /\ UNCHANGED secure

\* Mutant: the mode of the old client's session is taken for the new one's.
ReleaseClient_KeepsMode(w) == ReplaceClient(ResetSessionBoundary(w))

\* ReleaseClient.
ReleaseClient(w) ==
  {[v EXCEPT !.initial = 0] : v \in ReplaceClient(ResetSessionBoundary(w))}

\* UpdatePreeditMethod and ApplyInitialModeForCurrentClient.
UpdatePreeditMethod(w, sec) ==
  UNION {IF r.ok /\ r.reply # EmptyReply
         THEN {s.w : s \in TrySendRawCommand(r.w, "STATUS", sec)}
         ELSE {r.w} : r \in Call(w, Request("GET_CONFIG"))}

Refocus(w, sec) ==
  UNION {{r.w : r \in ApplyInitialMode(v)} : v \in UpdatePreeditMethod(w, sec)}

\* FocusOut and the FocusIn that follows.
Focus ==
  /\ \E type \in {"SUBMIT", "REVERT"} :
     \E r \in TrySendRawCommand(ClearReading(Fresh(world)), type, secure) :
     \E v \in ReleaseClient(r.w) :
       world' \in Refocus([ResetSessionBoundary(v) EXCEPT !.view = 0], secure)
  /\ shown' = Nothing /\ event' = Event("focus", None, FALSE)
  /\ UNCHANGED secure

\* CapabilityAboutToChange and CapabilityChanged.
Capability ==
  /\ secure' = ~secure
  /\ \E v \in ReleaseClient(Fresh(world)) :
       world' \in Refocus([v EXCEPT !.view = 0], ~secure)
  /\ shown' = Nothing /\ event' = Event("capability", None, FALSE)

\* The server dies while nothing is asked of it, and another client starts it.
Crash ==
  /\ world.up /\ world' \in {Crashed(v) : v \in Faulty(Fresh(world))}
  /\ event' = Event("crash", None, FALSE) /\ UNCHANGED <<shown, secure>>

Restart ==
  /\ ~world.up /\ world' = Replaced(Fresh(world))
  /\ event' = Event("restart", None, FALSE) /\ UNCHANGED <<shown, secure>>

Next ==
  \/ \E key \in Keys : ProcessKeyEvent(key)
  \/ SendCommand \/ Reset \/ Focus \/ Capability \/ Crash \/ Restart

Spec == Init /\ [][Next]_vars

-----------------------------------------------------------------------------
Readings == UNION {[1..n -> Letters] : n \in 0..MaxLength}
Sessions == [no : 1..2, on : BOOLEAN, reading : Readings, conv : BOOLEAN]

\* The types.  The journal never outgrows its capacity and holds nothing while
\* it is suppressed, and no generation is observed that the client has not had.
TypeOK ==
  /\ world.up \in BOOLEAN /\ world.session \in Sessions \cup {None}
  /\ ~world.up => world.session = None
  /\ world.status \in Statuses /\ world.id \in {"void", "some"}
  /\ world.journal \in Seq(Letters \cup {"BACKSPACE"})
  /\ Len(world.journal) <= MaxEventCount
  /\ world.suppressed => world.journal = <<>>
  /\ world.observed \in 0..world.gen /\ world.initial \in Nat
  /\ world.faults \in 0..MaxFaults /\ world.view \in 0..2 /\ secure \in BOOLEAN
  /\ shown \in [reading : Readings, conv : BOOLEAN]

\* No key, typed or typed again, reaches a session before the initial mode:
\* whichever of the calls before it was lost, to whichever generation.
NeverInTheWrongMode == ~world.direct

\* A session that the client will still use holds what the screen shows or
\* nothing at all: no part of a replay that failed, no key that was handed to
\* the application.  The types are part of it.
NoHiddenReading ==
  /\ TypeOK
  /\ world.status = "OK" /\ world.session # None =>
    world.session.reading \in {shown.reading, <<>>}

\* A password leaves nothing in the journal and is sent to one session only.
SecureLeavesNothing == secure => world.journal = <<>> /\ world.sends <= 1

\* A command never acts on a composition other than the one on the screen, a
\* rebuilt one included: it runs in the session that the screen shows, or in
\* one that holds nothing yet.
CommandsStayHome ==
  [][event'.type = "command" =>
       \A r \in world'.ran : r[1] = world.view \/ r[2] = <<>>]_vars

\* The reading survives: a key has the effect it would have had if the session
\* had never been lost, or else begins a new composition, and that only if the
\* journal had been given up before, or is not kept because the field is
\* secure; a command leaves the reading on the screen as it is, or clears one
\* that was given up.
Screen(effect) == [reading |-> effect.reading, conv |-> effect.conv]
ReadingSurvives ==
  [][/\ event'.type = "key" /\ event'.ok =>
          \/ shown' = Screen(KeyEffect(shown, event'.key))
          \/ /\ shown' = Screen(KeyEffect(Nothing, event'.key))
             /\ secure \/ world.suppressed
     /\ event'.type = "command" =>
          \/ shown'.reading = shown.reading
          \/ shown' = Nothing /\ (secure \/ world.suppressed)]_vars
=============================================================================
