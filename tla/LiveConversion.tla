--------------------------- MODULE LiveConversion ---------------------------
(***************************************************************************)
(* Delayed live conversion and Zenz live correction of one session         *)
(* (src/src/session/session.cc), with the worker thread of                 *)
(* zenz_live_corrector.cc and the timer of the client.  While the user     *)
(* types, the session converts by itself: a key answers with a callback    *)
(* that the client sends back after a delay, the callback converts and     *)
(* asks the Zenz model for a better text, further callbacks poll for its   *)
(* answer.  Every one of them may arrive after the user has moved on.      *)
(*                                                                         *)
(* A text is a sequence of <<style, letter>>: "raw" is the reading itself, *)
(* "mozc" the converter's first candidate, "other" another candidate and   *)
(* "zenz" the model's answer.  The reading behind a text is what a text    *)
(* may never lose.                                                         *)
(***************************************************************************)
EXTENDS Naturals, Sequences, SequencesExt

CONSTANTS Letters, Punct,   \* what keys insert; Punct triggers direct commit
          MaxLength,        \* the longest reading
          Skipped,          \* readings ShouldSkipLiveConversion... refuses
          Transient,        \* ...TransientSokuon: those whose overlay is kept
          MaxPolls,         \* polls before zenz_async_poll_exhausted
          KeepsTimer,       \* TRUE: TSF; FALSE: fcitx5 (see Answer and Fire)
          Situations,       \* commands beyond the routine of typing
          None

VARIABLES session,    \* the Session object, and the corrector's two slots
          running,    \* the request the corrector's worker is converting
          timer,      \* the callback the client will send, if any
          sent,       \* the callback that is on its way to the server
          shown,      \* the preedit of the last response
          result,     \* the text that the last step committed
          typed,      \* the letter that the last step inserted, if any
          recorded,   \* what the last step wrote to the feedback store
          standing    \* history: the last commit, unless erased since, while
                      \* feedback is pending

vars == <<session, running, timer, sent, shown, result, typed, recorded,
          standing>>

Editing == {"COMPOSITION", "CONVERSION"}
Styles == {"raw", "mozc", "other", "zenz"}
Readings == UNION {[1..n -> Letters] : n \in 0..MaxLength}
As(style, reading) == [i \in DOMAIN reading |-> <<style, reading[i]>>]
ReadingOf(text) == [i \in DOMAIN text |-> text[i][2]]
From(reading, n) == SubSeq(reading, n + 1, Len(reading))

ASSUME ConstantsAssumption ==
  /\ Punct \notin Letters /\ MaxLength \in Nat \ {0} /\ MaxPolls \in Nat \ {0}
  /\ Transient \subseteq Skipped /\ KeepsTimer \in BOOLEAN
  /\ Situations \subseteq {"cursor", "candidate", "unmapped",
                           "transliterate", "suggestion", "failure",
                           "undo"}

\* Generations are only compared for equality with what is in flight, so a
\* counter is abstracted to a few names: ++ takes the least one that nothing
\* in flight holds.
Generations == 1..6
InFlight(type) == {c.gen : c \in {d \in {timer, sent} \ {None} : d.type = type}}
                  \cup IF type = "zenz"
                       THEN {r.gen : r \in {session.request, session.answer,
                                            running} \ {None}}
                       ELSE {}
Fresh(type) ==
  LET held == InFlight(type)
  IN  CHOOSE n \in Generations \ held : \A m \in 1..(n - 1) : m \in held

NoFeedback == [action |-> "none", value |-> <<>>, final |-> <<>>]

Init ==
  /\ session = [state |-> "PRECOMPOSITION", reading |-> <<>>, cursor |-> 0,
                conv |-> "raw", undo |-> None,
                active |-> FALSE, pending |-> FALSE, gen |-> 1,
                pendingKey |-> <<>>, key |-> <<>>, value |-> <<>>,
                zgen |-> 1, wait |-> "no", polls |-> 0, zkey |-> <<>>,
                zbase |-> <<>>, vkey |-> <<>>, vvalue |-> <<>>, vbase |-> <<>>,
                feedback |-> NoFeedback, request |-> None, answer |-> None]
  /\ running = None /\ timer = None /\ sent = None
  /\ shown = <<>> /\ result = <<>> /\ typed = <<>> /\ recorded = None
  /\ standing = <<>>

-----------------------------------------------------------------------------
(* What the handlers are built from.  s is the session as a handler is      *)
(* changing it.                                                             *)

\* CancelPendingZenzLiveCorrection with ZenzLiveCorrector::CancelPending.
CancelPendingZenz(s) ==
  [s EXCEPT !.zgen = Fresh("zenz"), !.wait = "no", !.polls = 0,
            !.zkey = <<>>, !.zbase = <<>>, !.request = None, !.answer = None]

\* ClearZenzLiveCorrectionState.
ClearZenz(s) ==
  [CancelPendingZenz(s) EXCEPT !.vkey = <<>>, !.vvalue = <<>>, !.vbase = <<>>]

\* CancelPendingLiveConversion.
CancelPendingLive(s) ==
  CancelPendingZenz([s EXCEPT !.gen = Fresh("live"), !.pending = FALSE,
                              !.pendingKey = <<>>])

\* ClearLiveConversionState.
ClearLive(s) ==
  ClearZenz([s EXCEPT !.gen = Fresh("live"), !.active = FALSE,
                      !.pending = FALSE, !.pendingKey = <<>>,
                      !.key = <<>>, !.value = <<>>])

\* CancelLiveConversionForEditing: back to the composition if live.
CancelForEditing(s) ==
  LET t == ClearZenz(CancelPendingLive(s))
  IN  IF t.active
      THEN [t EXCEPT !.active = FALSE, !.state = "COMPOSITION", !.conv = "raw"]
      ELSE t

\* HasVisibleZenzLiveCorrection.
Visible(s) ==
  /\ s.vvalue # <<>> /\ s.active /\ s.state = "CONVERSION"
  /\ s.key = s.vkey /\ s.value = s.vbase

\* PopOutput and FillPreedit: what the converter itself shows.
Display(s) == As(IF s.state = "CONVERSION" THEN s.conv ELSE "raw", s.reading)

\* OutputPendingLiveConversion: the last live conversion and the letters typed
\* since; <<>> when it returns false.
PendingDisplay(s) ==
  IF s.key = <<>> \/ IsPrefix(s.key, s.reading)
  THEN s.value \o As("raw", From(s.reading, Len(s.key))) ELSE <<>>

\* SetSessionState(PRECOMPOSITION), which resets the composer.
Precompose(s) == [s EXCEPT !.state = "PRECOMPOSITION", !.reading = <<>>,
                           !.cursor = 0, !.conv = "raw"]

\* PushUndoContext.  Of the stack only the latest entry is kept, and that
\* only for a client that can delete preceding text.
PushUndo(s) ==
  IF "undo" \in Situations
  THEN [s EXCEPT !.undo = [state |-> s.state, reading |-> s.reading,
                           cursor |-> s.cursor, conv |-> s.conv]]
  ELSE s

\* A response: the session, the preedit, the committed text, the callback and
\* what was written to the feedback store.
Reply(s, text) == [s |-> s, shown |-> text, result |-> <<>>,
                   callback |-> None, recorded |-> None]
WithCallback(r, type) ==
  [r EXCEPT !.callback = IF type = "live"
     THEN [type |-> type, gen |-> r.s.gen, key |-> r.s.pendingKey]
     ELSE [type |-> type, gen |-> r.s.zgen, key |-> r.s.zkey]]

-----------------------------------------------------------------------------
(* Feedback: what the user's decisions teach about a Zenz correction.       *)

\* SetPendingZenzFeedbackAccepted.
Accepted(s, text) ==
  [s EXCEPT !.feedback = [action |-> "accepted", value |-> text, final |-> <<>>]]

\* SetPendingZenzFeedbackRejected.
Rejected(s) ==
  IF Visible(s)
  THEN [s EXCEPT !.feedback =
          [action |-> "rejected", value |-> s.vvalue, final |-> <<>>]]
  ELSE s

\* DiscardPendingZenzFeedback.
Discard(s) == [s EXCEPT !.feedback = NoFeedback]

\* ObservePendingZenzFeedbackCommittedResult, at the end of Output.
Observe(s, text) ==
  IF s.feedback.action = "rejected" /\ s.state = "PRECOMPOSITION"
  THEN [s EXCEPT !.feedback.final = text] ELSE s

\* Mutant: a rejection is recorded without looking at the final text.
Verdict_NoFinal(f) ==
  IF f.action = "none" THEN None ELSE [action |-> f.action, value |-> f.value]

\* ConfirmPendingZenzFeedback: what it records.
Verdict(f) ==
  IF \/ f.action = "accepted"
     \/ f.action = "rejected" /\ f.final # <<>> /\ f.final # f.value
  THEN [action |-> f.action, value |-> f.value]
  ELSE None

\* ...and what it leaves pending.
Confirm(r) == [r EXCEPT !.s = Discard(r.s), !.recorded = Verdict(r.s.feedback)]

\* CommitStringDirectly; nothing happens to an empty key or text.
CommitString(s, text) ==
  IF text = <<>> THEN Reply(s, Display(s))
  ELSE [Reply(Observe(Precompose(s), text), <<>>) EXCEPT !.result = text]

-----------------------------------------------------------------------------
(* Starting, scheduling and committing a live conversion.                   *)

AtEnd(s) == s.cursor = Len(s.reading)
CanStart(s) ==
  s.state = "COMPOSITION" /\ s.reading \notin Skipped /\ AtEnd(s)

\* The first half of AdvancePendingZenzLiveCorrection, with Submit.
Submitted(s) ==
  WithCallback(Reply([s EXCEPT !.wait = "submitted", !.polls = 0,
                               !.answer = None,
                               !.request = [gen |-> s.zgen, key |-> s.zkey]],
                     Display(s)), "zenz")

\* MaybeScheduleZenzLiveCorrection: no request, one for later, one at once.
ScheduleZenz(s) ==
  LET t == [s EXCEPT !.zgen = Fresh("zenz"), !.wait = "scheduled",
                     !.polls = 0, !.zkey = s.key, !.zbase = s.value]
  IN  {Reply(s, Display(s)), WithCallback(Reply(t, Display(t)), "zenz"),
       Submitted(t)}

\* What makes a correction visible: the end of ApplyZenzLiveCorrectionResult
\* and of MaybeApplyZenzFeedbackLiveCorrection.
Show(s, key, text, base) ==
  Reply([s EXCEPT !.vkey = key, !.vvalue = text, !.vbase = base], text)

\* MaybeStartLiveConversion once its guards hold: the conversion may fail,
\* the feedback store may know a correction, or the model is asked for one.
StartLive(s) ==
  LET t == [s EXCEPT !.pending = FALSE, !.pendingKey = <<>>]
      u == ClearZenz([t EXCEPT !.state = "CONVERSION", !.conv = "mozc",
                               !.active = TRUE, !.key = s.reading,
                               !.value = As("mozc", s.reading)])
      known == [u EXCEPT !.zgen = Fresh("zenz")]
  IN  ScheduleZenz(u)
      \cup {Show(known, u.key, As("zenz", u.key), u.value)}
      \cup {IF s.reading \in Transient /\ PendingDisplay(t) # <<>>
            THEN Reply(ClearZenz(t), PendingDisplay(t))
            ELSE Reply(t, Display(t)) : f \in Situations \cap {"failure"}}

\* The composition as it stands (OutputComposition, or Output of a suggestion).
Compose(s) == {Reply(s, As("raw", s.reading))}

StartLiveOr(s, otherwise) == IF CanStart(s) THEN StartLive(s) ELSE otherwise

\* MaybeScheduleLiveConversion, and the plain composition where it refuses.
ScheduleLive(s) ==
  LET t == [s EXCEPT !.gen = Fresh("live"), !.pending = TRUE,
                     !.pendingKey = s.reading]
      held == AtEnd(s) /\ (s.reading \notin Skipped \/ s.reading \in Transient)
  IN  IF held /\ PendingDisplay(t) # <<>>
      THEN {WithCallback(Reply(t, PendingDisplay(t)), "live")}
      ELSE StartLiveOr(t, Compose(CancelPendingLive(s)))

\* CommitZenzLiveCorrectionResult.
CommitZenz(s) == CommitString(ClearLive(Accepted(s, s.vvalue)), s.vvalue)

\* Mutant: Enter materialises the conversion that has not been shown yet.
CommitPendingDisplay_Materialised(s) ==
  CommitString(ClearLive(s), As("mozc", s.reading))

\* CommitPendingLiveConversionDisplayDirectly.
CommitPendingDisplay(s) ==
  CommitString(ClearLive(s),
    IF PendingDisplay(s) = <<>> THEN As("raw", s.reading) ELSE PendingDisplay(s))

\* Mutant: the conversion was made before the punctuation, which is lost.
CommitLiveResult_NoSuffix(s) == CommitString(ClearLive(s), s.value)

\* CommitLiveConversionResult: the live conversion and the punctuation.
CommitLiveResult(s) ==
  CommitString(ClearLive(s), IF s.value = <<>> THEN As("raw", s.reading)
                             ELSE Append(s.value, <<"raw", Last(s.reading)>>))

\* CommitInternal: CommitPreedit or the converter's Commit.
CommitInternal(s) ==
  IF s.state \notin Editing THEN Reply(s, Display(s))
  ELSE LET t == Precompose(PushUndo(s))
       IN  [Reply(ClearLive(Observe(t, Display(s))), <<>>)
              EXCEPT !.result = Display(s)]

\* Commit.
CommitAny(s) ==
  IF Visible(s) THEN CommitZenz(s)
  ELSE IF s.pending THEN CommitPendingDisplay(PushUndo(s)) ELSE CommitInternal(s)

-----------------------------------------------------------------------------
(* The client.  A response with a callback sets the timer.  fcitx5 has one  *)
(* timer, which any key resets and which calls the server when it fires; a  *)
(* TSF client leaves the timer alone when a response brings no callback as  *)
(* long as the composition lasts, and sends what fired from an asynchronous *)
(* edit session, after the keys that came before it.                        *)

\* The end of SendKey and SendCommand: live conversion ends with CONVERSION.
LeaveConversion(s) ==
  IF s.state = "CONVERSION" THEN s ELSE ClearZenz([s EXCEPT !.active = FALSE])

Answer(r) ==
  /\ session' = LeaveConversion(r.s)
  /\ shown' = r.shown /\ result' = r.result /\ recorded' = r.recorded
  /\ timer' = IF r.callback # None THEN r.callback
              ELSE IF KeepsTimer /\ r.s.state \in Editing THEN timer ELSE None
  /\ UNCHANGED running

\* A key or command of the user, answered by one of the responses; letters is
\* what it inserts, erases whether it takes back what was committed.
Handle(responses, letters, erases) ==
  /\ KeepsTimer \/ sent = None
  /\ \E r \in responses :
       /\ Answer(r)
       /\ standing' = IF r.s.feedback.action = "none" THEN <<>>
                      ELSE IF r.result # <<>> THEN r.result
                      ELSE IF erases THEN <<>> ELSE standing
  /\ typed' = letters
  /\ UNCHANGED sent

Command(responses, erases) == Handle(responses, <<>>, erases)

Fire ==
  /\ timer # None /\ sent = None
  /\ sent' = timer /\ timer' = None
  /\ result' = <<>> /\ typed' = <<>> /\ recorded' = None
  /\ UNCHANGED <<session, running, shown, standing>>

\* Mutant: a stale callback is answered with an empty output while a live
\* conversion is pending.
Stale_Empty(s) == Reply(s, IF s.pending THEN <<>> ELSE Display(s))

\* IgnoreStaleDelayedLiveConversion.
Stale(s) == Reply(s, IF s.pending THEN PendingDisplay(s) ELSE Display(s))

\* The checks at the head of ApplyDelayedLiveConversion.
IsCurrentLive(s, c) ==
  /\ s.pending /\ c.gen = s.gen /\ c.key = s.pendingKey
  /\ s.state = "COMPOSITION" /\ s.reading = s.pendingKey

\* ApplyDelayedLiveConversion.
ApplyLive(s, c) ==
  IF ~IsCurrentLive(s, c) THEN {Stale(s)}
  ELSE IF s.reading \in Transient /\ AtEnd(s) THEN {Reply(s, PendingDisplay(s))}
  ELSE StartLiveOr(s, LET t == CancelPendingLive(s) IN {Reply(t, Display(t))})

\* IsCurrentZenzLiveCorrectionCallback.
IsCurrentZenz(s, c) ==
  /\ s.wait # "no" /\ c.gen = s.zgen /\ c.key = s.zkey
  /\ s.state = "CONVERSION" /\ s.active
  /\ s.key = s.zkey /\ s.value = s.zbase

\* ZenzLiveCorrector::TakeResult: an answer to another request is dropped.
TakeResult(s) ==
  IF s.answer # None /\ s.answer.gen = s.zgen THEN s.answer ELSE None

\* Mutant: a poll that finds no answer forgets to ask for the next one.
Polled_NoCallback(s) == Reply([s EXCEPT !.polls = @ + 1], Display(s))

\* A poll without an answer, with AttachZenzLiveCorrectionPollCallback.
Polled(s) == WithCallback(Reply([s EXCEPT !.polls = @ + 1], Display(s)), "zenz")

\* AdvancePendingZenzLiveCorrection, with ApplyZenzLiveCorrectionResult: the
\* answer is adopted, or refused by one of the checks; without an answer the
\* session polls again until the time or the polls are used up.
AdvanceZenz(s) ==
  LET stopped == Reply(CancelPendingZenz(s), Display(s))
      got == TakeResult(s)
      taken == [s EXCEPT !.answer = None]
      adopted == Show([taken EXCEPT !.wait = "no", !.polls = 0,
                                    !.zkey = <<>>, !.zbase = <<>>],
                      s.zkey, As("zenz", got.key), s.zbase)
  IN  IF s.wait = "scheduled" THEN {Submitted(s)}
      ELSE IF got # None
      THEN IF got.ok THEN {stopped, adopted} ELSE {stopped}
      ELSE IF s.polls + 1 < MaxPolls THEN {stopped, Polled(taken)} ELSE {stopped}

\* APPLY_LIVE_CONVERSION and APPLY_ZENZ_LIVE_CORRECTION.
Deliver ==
  /\ sent # None
  /\ \E r \in IF sent.type = "live" THEN ApplyLive(session, sent)
              ELSE IF IsCurrentZenz(session, sent) THEN AdvanceZenz(session)
              ELSE {Stale(session)} : Answer(r)
  /\ sent' = None /\ typed' = <<>>
  /\ UNCHANGED standing

\* WorkerLoop: take the latest request...
WorkerTake ==
  /\ running = None /\ session.request # None
  /\ running' = session.request /\ session' = [session EXCEPT !.request = None]
  /\ result' = <<>> /\ typed' = <<>> /\ recorded' = None
  /\ UNCHANGED <<timer, sent, shown, standing>>

\* ...and store its result, however late.
WorkerFinish ==
  /\ running # None
  /\ \E ok \in BOOLEAN :
       session' = [session EXCEPT !.answer = [gen |-> running.gen,
                                              key |-> running.key, ok |-> ok]]
  /\ running' = None /\ result' = <<>> /\ typed' = <<>> /\ recorded' = None
  /\ UNCHANGED <<timer, sent, shown, standing>>

-----------------------------------------------------------------------------
(* The user's keys and commands.                                            *)

\* SendKeyConversionState: a key other than a letter, Enter, Backspace and Tab
\* turns a live conversion into an ordinary one.
Promote(s) ==
  IF s.active THEN [ClearZenz(Rejected(s)) EXCEPT !.active = FALSE] ELSE s

\* The composer takes a letter at the cursor; ClearUndoContext.
Insert(s, letter) ==
  [s EXCEPT !.reading = InsertAt(@, s.cursor + 1, letter),
            !.cursor = @ + 1, !.undo = None]

\* A new composition must not reuse the stable prefix of an earlier one.
ForgetPrefix(s) == ClearZenz([s EXCEPT !.key = <<>>, !.value = <<>>])

\* The direct commit that punctuation triggers.  s is the session before the
\* key, t the one whose composer has taken the punctuation.
CommitPunctuated(s, t) ==
  IF Visible(s)
  THEN CommitString(ClearLive(Accepted(t, s.vvalue)),
                    Append(s.vvalue, <<"raw", Last(t.reading)>>))
  ELSE IF s.pending THEN CommitPendingDisplay(t)
  ELSE IF s.active THEN CommitLiveResult(t)
  ELSE CommitString(t, As("raw", t.reading))

\* InsertCharacter, for a letter and for punctuation.
Inserted(s, letter) ==
  LET met == IF s.state = "CONVERSION" THEN Reply(s, <<>>)
             ELSE Confirm(Reply(s, <<>>))
      t == CancelForEditing(met.s)
      before == IF t.state = "CONVERSION" THEN Confirm(CommitInternal(t))
                ELSE [met EXCEPT !.s = t]
      u == Insert(before.s, letter)
      v == IF ~s.active /\ Len(u.reading) = 1 THEN ForgetPrefix(u) ELSE u
      after == IF letter # Punct
               THEN ScheduleLive([v EXCEPT !.state = "COMPOSITION"])
               ELSE IF s.pending /\ s.state = "COMPOSITION"
               THEN {CommitPendingDisplay(Insert(met.s, letter))}
               ELSE {CommitPunctuated(s, v)}
  IN  {[r EXCEPT !.result = before.result \o @,
                 !.recorded = before.recorded] : r \in after}

InsertCharacter(letter) ==
  /\ session.state \in Editing \cup {"PRECOMPOSITION"}
  /\ \/ Len(session.reading) < MaxLength
     \/ session.state = "CONVERSION" /\ ~session.active
     \/ letter = Punct
  /\ letter = Punct => AtEnd(session)
  /\ Handle(Inserted(session, letter), <<letter>>, FALSE)

\* Backspace goes to the application (EchoBackAndClearUndoContext).
Erase(s) == Reply([Discard(s) EXCEPT !.undo = None], <<>>)

\* Mutant: an edit leaves the correction of the text before the edit in place.
Shortened_KeepsZenz(s) ==
  LET t == IF s.active THEN [s EXCEPT !.active = FALSE, !.state = "COMPOSITION"]
           ELSE s
  IN  [t EXCEPT !.feedback = NoFeedback, !.undo = None,
                !.reading = IF t.cursor = 0 THEN @ ELSE RemoveAt(@, t.cursor),
                !.cursor = IF @ = 0 THEN 0 ELSE @ - 1]

\* Backspace in a composition, up to the edit of the composer.
Shortened(s) ==
  LET t == CancelForEditing(Discard(s))
  IN  [t EXCEPT !.undo = None,
                !.reading = IF t.cursor = 0 THEN @ ELSE RemoveAt(@, t.cursor),
                !.cursor = IF @ = 0 THEN 0 ELSE @ - 1]

\* ConvertCancel.
ConvertCancel(s) ==
  Compose([ClearLive(Discard(s)) EXCEPT !.state = "COMPOSITION", !.conv = "raw"])

Backspace ==
  \/ /\ session.state = "PRECOMPOSITION" /\ Command({Erase(session)}, TRUE)
  \/ /\ session.state = "COMPOSITION" \/ session.active
     /\ LET t == Shortened(session)
        IN  Command(IF t.reading = <<>> THEN {Reply(Precompose(t), <<>>)}
                    ELSE StartLiveOr(t, Compose(t)), FALSE)
  \/ /\ session.state = "CONVERSION" /\ ~session.active
     /\ Command(ConvertCancel(session), FALSE)

\* Escape: ConvertCancel, EditCancel, or an echo of the key.
Escape ==
  \/ /\ session.state = "CONVERSION"
     /\ Command(ConvertCancel(session), FALSE)
  \/ /\ session.state = "COMPOSITION"
     /\ Command({Reply(ClearLive(Precompose(Discard(session))), <<>>)}, FALSE)
  \/ /\ session.state = "PRECOMPOSITION"
     /\ Command({Erase(session)}, FALSE)

\* The converter shows one of its candidates.
Candidates(s, styles) ==
  {LET t == [s EXCEPT !.state = "CONVERSION", !.conv = style]
   IN  Reply(t, Display(t)) : style \in styles}

\* RevertZenzLiveCorrectionToNormalConversion.
RevertZenz(s) == Reply(ClearLive(Rejected(s)), s.value)

\* Space: Convert, ConvertNext, or the way back from a visible correction.
Space ==
  \/ /\ session.state = "COMPOSITION"
     /\ LET t == CancelPendingLive(session)
        IN  Command(Candidates(t, {"mozc"})
                    \cup UNION {Compose(t) : f \in Situations \cap {"failure"}},
                    FALSE)
  \/ /\ session.state = "CONVERSION" /\ Visible(session)
     /\ Command({RevertZenz(session)}, FALSE)
  \/ /\ session.state = "CONVERSION" /\ ~Visible(session)
     /\ Command(Candidates(Promote(session), {"mozc", "other", "zenz"}), FALSE)

\* Tab: PredictAndConvert and PredictAndConvertFromLiveConversion.
Predict ==
  /\ session.state \in Editing
  /\ LET t == CancelPendingLive(session)
         u == [ClearLive(Rejected(t)) EXCEPT !.state = "COMPOSITION",
                                             !.conv = "raw"]
     IN  Command(IF session.active THEN Candidates(u, {"other"}) \cup Compose(u)
                 ELSE IF session.state = "CONVERSION"
                 THEN Candidates(t, {"mozc", "other", "zenz"})
                 ELSE Candidates(t, {"other"}) \cup Compose(t), FALSE)

\* Enter: a visible correction is committed before the promotion.
Enter ==
  /\ session.state \in Editing
  /\ Command({IF Visible(session) THEN CommitZenz(session)
              ELSE CommitAny([session EXCEPT !.active = FALSE])}, FALSE)

\* SUBMIT, which no key has promoted.
Submit == session.state # "DIRECT" /\ Command({CommitAny(session)}, FALSE)

\* The end of IMEOff and MakeSureIMEOff.
TurnedOff(s) ==
  LET r == Confirm(CommitAny([s EXCEPT !.undo = None]))
  IN  [r EXCEPT !.s = [Precompose(r.s) EXCEPT !.state = "DIRECT"],
                !.shown = <<>>]

\* The key and the command TURN_OFF_IME.
IMEOff ==
  /\ session.state # "DIRECT"
  /\ \/ Command({TurnedOff(Promote(session))}, FALSE)
     \/ Command({TurnedOff(session)}, FALSE)

IMEOn ==
  /\ session.state = "DIRECT"
  /\ Command({Reply([Precompose(session) EXCEPT !.undo = None], <<>>)}, FALSE)

\* Undo, for a client that can delete preceding text.
Undo ==
  /\ session.state # "DIRECT" /\ session.undo # None
  /\ LET t == [Discard(session) EXCEPT
                 !.state = session.undo.state, !.reading = session.undo.reading,
                 !.cursor = session.undo.cursor, !.conv = session.undo.conv,
                 !.undo = None]
     IN  Command({Reply(t, Display(t))}, TRUE)

\* Revert and ResetContext.
ResetContext ==
  /\ session.state # "DIRECT"
  /\ Command({IF session.state = "PRECOMPOSITION" THEN Erase(session)
              ELSE Reply(ClearLive([Precompose(Discard(session))
                                      EXCEPT !.undo = None]), <<>>)}, FALSE)

-----------------------------------------------------------------------------
(* Commands beyond the routine of typing.                                   *)

\* MoveCursorLeft and MoveCursorRight.
MoveCursor ==
  /\ "cursor" \in Situations /\ session.state = "COMPOSITION"
  /\ \E c \in {session.cursor - 1, session.cursor + 1}
                \cap 0..Len(session.reading) :
       Command(Compose([session EXCEPT !.cursor = c, !.undo = None]), FALSE)

\* ConvertToTransliteration.
Transliterate ==
  /\ "transliterate" \in Situations /\ session.state \in Editing
  /\ Command(Candidates(Promote(session), {"other"}), FALSE)

\* SELECT_CANDIDATE and HIGHLIGHT_CANDIDATE from the candidate window.
SelectCandidate ==
  /\ "candidate" \in Situations /\ session.state = "CONVERSION"
  /\ Command(Candidates(session, {"mozc", "other"}), FALSE)

\* A key that the keymap does not know: DoNothing, which calls Output.
Unmapped ==
  /\ "unmapped" \in Situations /\ session.state \in Editing
  /\ Command({Reply(session, Display(session))}, FALSE)

\* CommitFirstSuggestion; with the cursor inside, a suggestion may be shown.
CommitFirstSuggestion ==
  /\ "suggestion" \in Situations /\ session.state = "COMPOSITION"
  /\ ~AtEnd(session)
  /\ LET text == As("other", session.reading)
     IN  Command({[Reply(Observe(Precompose(PushUndo(session)), text), <<>>)
                     EXCEPT !.result = text]}, FALSE)

-----------------------------------------------------------------------------
User ==
  \/ \E letter \in Letters \cup {Punct} : InsertCharacter(letter)
  \/ Backspace \/ Escape \/ Space \/ Predict \/ Enter \/ Submit
  \/ IMEOff \/ IMEOn \/ Undo \/ ResetContext
  \/ MoveCursor \/ Transliterate \/ SelectCandidate \/ Unmapped
  \/ CommitFirstSuggestion

Next == User \/ Fire \/ Deliver \/ WorkerTake \/ WorkerFinish

Spec == Init /\ [][Next]_vars

\* The client's timer fires once the user pauses and the server answers; the
\* model itself may never answer.
FairSpec == Spec /\ WF_vars(Fire) /\ WF_vars(Deliver)

-----------------------------------------------------------------------------
Texts == Seq(Styles \X (Letters \cup {Punct}))
Callbacks == [type : {"live", "zenz"}, gen : Generations, key : Readings]
Requests == [gen : Generations, key : Readings]

\* The types.  The cursor stays within the composer's text across every reset,
\* edit and undo, a generation never runs out of names, and the keys that
\* callbacks and requests carry are readings.  A part of OnlyCurrentWork.
TypeOK ==
  /\ session.state \in {"DIRECT", "PRECOMPOSITION"} \cup Editing
  /\ session.reading \in Readings /\ session.cursor \in 0..Len(session.reading)
  /\ session.conv \in Styles /\ session.gen \in Generations
  /\ session.zgen \in Generations /\ session.wait \in {"no", "scheduled", "submitted"}
  /\ session.polls \in 0..MaxPolls
  /\ {session.key, session.pendingKey, session.zkey, session.vkey} \subseteq Readings
  /\ {session.value, session.zbase, session.vvalue, session.vbase,
      shown, result, standing} \subseteq Texts
  /\ typed \in {<<>>} \cup {<<letter>> : letter \in Letters \cup {Punct}}
  /\ running \in Requests \cup {None} /\ session.request \in Requests \cup {None}
  /\ {timer, sent} \subseteq Callbacks \cup {None}

\* Whatever the session still has under way is about the text being composed:
\* an active live conversion, a correction that is asked for and one that is
\* shown all belong to the present reading, and so does a delayed conversion
\* as long as there is a reading.  Callbacks and answers of the model arrive
\* late and in any order.  The types are part of it.
OnlyCurrentWork ==
  /\ TypeOK
  /\ session.active => /\ session.state = "CONVERSION"
                       /\ session.key = session.reading
                       /\ ReadingOf(session.value) = session.reading
  /\ session.wait # "no" => session.active /\ session.zkey = session.reading
  /\ session.vvalue # <<>> => /\ Visible(session)
                              /\ ReadingOf(session.vvalue) = session.reading
  /\ session.pending /\ session.state \in Editing
       => session.pendingKey = session.reading

\* The client's preedit always spells the whole reading: no response, to a
\* stale callback least of all, blanks text that the composer still holds.
NeverBlank ==
  session.state \in Editing => ReadingOf(shown) = session.reading

\* A commit hands over exactly what was typed, whichever of the overlays it
\* takes its text from: the whole reading or, when a letter triggered it, the
\* reading and that letter, unless the letter begins the next composition.
WholeTextCommitted ==
  [][result' # <<>> =>
       ReadingOf(result') \o session'.reading = session.reading \o typed']_vars

\* The feedback store learns an acceptance only of a text that was committed
\* and is still there, and a rejection only when the text that was finally
\* committed is another one.
FeedbackIsTrue ==
  [][recorded' # None =>
       IF recorded'.action = "accepted"
       THEN IsPrefix(recorded'.value, standing) \/ IsPrefix(recorded'.value, result')
       ELSE recorded'.value # IF result' = <<>> THEN standing ELSE result']_vars

\* "Enter confirms what the user can currently see."
EnterCommitsWhatIsShown == [][Enter => result' = shown]_vars

\* A correction that was asked for ends: adopted, refused, given up after
\* MaxPolls polls or cancelled by an edit, whatever the model does.
CorrectionEnds == session.wait # "no" ~> session.wait = "no"
=============================================================================
