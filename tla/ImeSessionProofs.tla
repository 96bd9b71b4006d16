-------------------------- MODULE ImeSessionProofs --------------------------
(***************************************************************************)
(* What a session holds of a project is bound to its focus domain, for any  *)
(* programs, scope, contexts, undo depth and length of command sequences.  *)
(* The argument: every operator that a handler applies to an ImeContext    *)
(* keeps a predicate SafeIn of that context and the domain; so does every  *)
(* handler; and the one step that changes the domain, Receive, purges      *)
(* whatever the new domain may not see.                                    *)
(***************************************************************************)
EXTENDS ImeSession, TLAPS

\* The application that a domain stands for.
Application(d) == IF d.managed THEN d.program ELSE Null

DomainOK(d) == d \in Domains /\ (~d.managed => d.epoch = 0)

\* A client context that the domain d admits.
ClientSafe(d, w) ==
  /\ w \in Contexts
  /\ w.program \in {Null, Application(d)}
  /\ w.text # Null => w.text \in {0, d.epoch}
  /\ d.managed /\ d.secure =>
       w.program = d.program /\ w.field = "PASSWORD" /\ w.text = Null

\* A snapshot, if there is one, that the domain d admits.
SnapshotSafe(d, s) ==
  s # Null => Application(d) \in InScope /\ s.epoch \in {0, d.epoch}

\* An ImeContext that the domain d admits.
SafeIn(d, c) ==
  /\ c \in ImeContexts
  /\ ClientSafe(d, c.client)
  /\ SnapshotSafe(d, c.latest) /\ SnapshotSafe(d, c.pinned)
  /\ d.managed /\ d.secure =>
       c.latest = Null /\ c.pinned = Null /\ c.secure /\ c.field = "PASSWORD"
  /\ c.pinned # Null => c.state \in Editing

Safe(c) == SafeIn(domain, c)

SafeUndo(d, u) ==
  /\ u \in Seq(ImeContexts) /\ Len(u) <= MaxUndo
  /\ \A i \in 1..Len(u) : SafeIn(d, u[i])

Phases == {"idle", "command", "test", "key", "dispatch", "sequence"}

Inv ==
  /\ generation \in Nat /\ meaning \in Meanings \cup {Null}
  /\ DomainOK(domain)
  /\ Safe(ctx)
  /\ SafeUndo(domain, undo)
  /\ live \in BOOLEAN
  /\ wire \in Contexts
  /\ phase # "idle" => ClientSafe(domain, wire)
  /\ phase \in Phases
  /\ steps \in Nat

-----------------------------------------------------------------------------
(* The operators on contexts.  ENV is what they read of the session.       *)

Env == DomainOK(domain) /\ generation \in Nat /\ meaning \in Meanings \cup {Null}

\* An assertion that fails leaves only its mark.
LEMMA RequiresSafe ==
  ASSUME NEW c, NEW s, NEW d, Safe(c), Safe(d)
  PROVE  Safe(Requires(c, s, d))
<1>1. Safe([c EXCEPT !.ok = FALSE])
  BY DEF Safe, SafeIn, ImeContexts
<1>2. QED
  BY <1>1 DEF Requires

LEMMA ConvSafe ==
  ASSUME NEW c, NEW s \in ConverterStates, Safe(c)
  PROVE  Safe([c EXCEPT !.conv = s])
BY DEF Safe, SafeIn, ImeContexts

LEMMA TextSafe ==
  ASSUME NEW c, NEW t \in BOOLEAN, Safe(c)
  PROVE  Safe([c EXCEPT !.text = t])
BY DEF Safe, SafeIn, ImeContexts

LEMMA EndCompositionSafe ==
  ASSUME NEW c, Safe(c)
  PROVE  Safe(EndComposition(c)) /\ EndComposition(c).pinned = Null
BY DEF EndComposition, Safe, SafeIn, ImeContexts, SnapshotSafe

LEMMA PurgeRegistrySafe ==
  ASSUME NEW c, Safe(c)
  PROVE  Safe(PurgeRegistry(c))
BY DEF PurgeRegistry, Safe, SafeIn, ImeContexts, SnapshotSafe

LEMMA ResetConverterSafe ==
  ASSUME NEW c, Safe(c)
  PROVE  Safe(ResetConverter(c))
BY EndCompositionSafe, ConvSafe DEF ResetConverter, ConverterStates

LEMMA FinishConversionSafe ==
  ASSUME NEW c, Safe(c)
  PROVE  Safe(FinishConversion(c))
BY ResetConverterSafe DEF FinishConversion, IsSecure, Safe, SafeIn, ImeContexts

LEMMA CancelConverterSafe ==
  ASSUME NEW c, Safe(c)
  PROVE  Safe(CancelConverter(c))
BY RequiresSafe, ConvSafe DEF CancelConverter, ConverterStates

LEMMA EngineConvertSafe ==
  ASSUME NEW c, Safe(c)
  PROVE  Safe(EngineConvert(c))
BY RequiresSafe, ConvSafe DEF EngineConvert, ConverterStates

LEMMA EngineSuggestSafe ==
  ASSUME NEW c, NEW found, Safe(c)
  PROVE  Safe(EngineSuggest(c, found))
BY RequiresSafe, ConvSafe DEF EngineSuggest, ConverterStates

LEMMA EnginePredictSafe ==
  ASSUME NEW c, NEW found, Safe(c)
  PROVE  Safe(EnginePredict(c, found))
BY ConvSafe DEF EnginePredict, ConverterStates

LEMMA CandidateMoveToIdSafe ==
  ASSUME NEW c, Safe(c)
  PROVE  Safe(CandidateMoveToId(c))
BY RequiresSafe, EnginePredictSafe DEF CandidateMoveToId

LEMMA EngineCommitSafe ==
  ASSUME NEW c, NEW isCommand, Safe(c)
  PROVE  Safe(EngineCommit(c, isCommand))
BY RequiresSafe, ConvSafe, FinishConversionSafe DEF EngineCommit, ConverterStates

LEMMA CommitSegmentsSafe ==
  ASSUME NEW c, NEW some, NEW isCommand, Safe(c)
  PROVE  Safe(CommitSegments(c, some, isCommand))
BY EngineCommitSafe DEF CommitSegments

LEMMA CommitSuggestionSafe ==
  ASSUME NEW c, NEW how \in {"refused", "partial", "cancelled", "committed"}, Safe(c)
  PROVE  Safe(CommitSuggestion(c, how))
BY RequiresSafe, ConvSafe, FinishConversionSafe DEF CommitSuggestion, ConverterStates

LEMMA EngineTransliterateSafe ==
  ASSUME NEW c, Safe(c)
  PROVE  Safe(EngineTransliterate(c))
BY EngineConvertSafe, CancelConverterSafe DEF EngineTransliterate

-----------------------------------------------------------------------------
(* The registry at the start of a composition.                             *)

\* Secure input may be switched on anywhere, and off where the domain is not
\* secure.
LEMMA SetSecureInputSafe ==
  ASSUME NEW c, NEW s \in BOOLEAN, Safe(c), IsSecure => s
  PROVE  /\ Safe(SetSecureInput(c, s))
         /\ SetSecureInput(c, s).client = c.client
         /\ SetSecureInput(c, s).state = c.state
         /\ SetSecureInput(c, s).secure = s
BY DEF SetSecureInput, PurgeRegistry, IsSecure, Safe, SafeIn, ImeContexts, SnapshotSafe

\* The provider's dictionary is stamped with the current epoch.
LEMMA PublishLatestSafe ==
  ASSUME NEW c, Safe(c), Env, Application(domain) \in InScope, ~IsSecure
  PROVE  Safe(PublishLatest(c)) /\ PublishLatest(c).state = c.state
<1>1. Safe(PurgeRegistry(c)) /\ PurgeRegistry(c).state = c.state
  BY PurgeRegistrySafe DEF PurgeRegistry, Safe, SafeIn, ImeContexts
<1>2. CASE meaning # Null
  <2> DEFINE s == [generation |-> generation, meaning |-> meaning,
                   epoch |-> domain.epoch]
  <2>1. s \in Snapshots /\ s.epoch = domain.epoch
    BY <1>2 DEF Env, DomainOK, Domains, Snapshots
  <2>2. Safe([c EXCEPT !.latest = s])
    BY <2>1 DEF Safe, SafeIn, ImeContexts, SnapshotSafe, IsSecure
  <2>3. [c EXCEPT !.latest = s].state = c.state
    BY DEF Safe, SafeIn, ImeContexts
  <2>4. QED
    BY <1>1, <1>2, <2>2, <2>3 DEF PublishLatest
<1>3. QED
  BY <1>1, <1>2 DEF PublishLatest

\* A client context in scope means that the domain's application is.
LEMMA ClientInScope ==
  ASSUME NEW w, Env, ClientSafe(domain, w), w.program \in InScope
  PROVE  Application(domain) \in InScope
BY ConstantsAssumption DEF ClientSafe, Application, Env, DomainOK, Domains

\* PinForComposition takes the latest dictionary or none.
LEMMA PinSafe ==
  ASSUME NEW c, NEW s \in {Null, c.latest}, Safe(c), c.state \in Editing
  PROVE  Safe([c EXCEPT !.pinned = s])
BY DEF Safe, SafeIn, ImeContexts, SnapshotSafe

LEMMA OnStartCompositionSafe ==
  ASSUME NEW c, Safe(c), Env, c.state \in Editing
  PROVE  Safe(OnStartComposition(c))
<1> DEFINE a == IF c.client.field = "none" THEN c
                ELSE SetSecureInput(c, c.client.field = "PASSWORD")
           b == IF c.client.program \notin InScope THEN PurgeRegistry(a)
                ELSE IF a.secure THEN a
                ELSE PublishLatest(a)
<1>0. ClientSafe(domain, c.client)
  BY DEF Safe, SafeIn
<1>1. Safe(a) /\ a.state = c.state
  <2>1. IsSecure => c.client.field = "PASSWORD"
    BY <1>0 DEF IsSecure, ClientSafe
  <2>2. (c.client.field = "PASSWORD") \in BOOLEAN
    OBVIOUS
  <2>3. QED
    BY <2>1, <2>2, SetSecureInputSafe
<1>2. Safe(b) /\ b.state = c.state
  <2>1. CASE c.client.program \notin InScope
    BY <1>1, <2>1, PurgeRegistrySafe, ZenonT(60) DEF PurgeRegistry, Safe, SafeIn, ImeContexts
  <2>2. CASE c.client.program \in InScope /\ a.secure
    BY <1>1, <2>2
  <2>3. CASE c.client.program \in InScope /\ ~a.secure
    <3>1. ~IsSecure
      BY <1>1, <2>3 DEF IsSecure, Safe, SafeIn
    <3>2. Application(domain) \in InScope
      BY <1>0, <2>3, ClientInScope
    <3>3. QED
      BY <1>1, <2>3, <3>1, <3>2, PublishLatestSafe
  <2>4. QED
    BY <2>1, <2>2, <2>3
<1>3. Safe([b EXCEPT !.pinned = IF b.secure THEN Null ELSE b.latest])
  <2> HIDE DEF b
  <2>1. QED
    BY <1>2, PinSafe
<1>4. QED
  BY <1>3 DEF OnStartComposition

LEMMA SetStateSafe ==
  ASSUME NEW c, NEW state \in States, Safe(c), Env
  PROVE  Safe(SetState(c, state))
<1>1. CASE state \in {"DIRECT", "PRECOMPOSITION"}
  <2> DEFINE d == IF c.state \in Editing THEN EndComposition(c) ELSE c
  <2>1. Safe(d) /\ d.pinned = Null
    BY EndCompositionSafe DEF Safe, SafeIn
  <2>2. Safe([d EXCEPT !.state = state, !.text = FALSE])
    BY <2>1, ZenonT(60) DEF Safe, SafeIn, ImeContexts
  <2>3. SetState(c, state) = [d EXCEPT !.state = state, !.text = FALSE]
    BY <1>1 DEF SetState
  <2>4. QED
    BY <2>2, <2>3
<1>2. CASE state \in Editing
  <2>1. Safe([c EXCEPT !.state = state]) /\ [c EXCEPT !.state = state].state \in Editing
    BY <1>2 DEF Safe, SafeIn, ImeContexts
  <2>2. Safe(OnStartComposition([c EXCEPT !.state = state]))
    BY <2>1, OnStartCompositionSafe
  <2>3. QED
    BY <1>2, <2>1, <2>2 DEF SetState, Editing
<1>3. QED
  BY <1>1, <1>2 DEF States, Editing

-----------------------------------------------------------------------------
(* The steps that handlers share.                                          *)

LEMMA ToPrecompositionSafe ==
  ASSUME NEW c, Safe(c), Env
  PROVE  Safe(ToPrecomposition(c))
BY SetStateSafe, CancelConverterSafe DEF ToPrecomposition, States

LEMMA SuggestSafe ==
  ASSUME NEW c, NEW r, Safe(c)
  PROVE  Safe(Suggest(c, r)) /\ Safe(ZeroQuerySuggest(c, r))
BY EngineSuggestSafe DEF Suggest, ZeroQuerySuggest

LEMMA DoNothingSafe ==
  ASSUME NEW c, Safe(c)
  PROVE  Safe(DoNothing(c)) /\ Safe(EchoBack(c))
BY ResetConverterSafe DEF DoNothing, EchoBack

LEMMA CommitStringSafe ==
  ASSUME NEW c, NEW r, Safe(c), Env
  PROVE  Safe(CommitString(c, r))
BY SuggestSafe, SetStateSafe, ResetConverterSafe DEF CommitString, States

LEMMA CommitInternalSafe ==
  ASSUME NEW c, NEW way, NEW zeroQuery, NEW r, Safe(c), Env
  PROVE  Safe(CommitInternal(c, way, zeroQuery, r))
<1> DEFINE d == SetState(IF c.state = "COMPOSITION" THEN CommitPreedit(c)
                                                   ELSE EngineCommit(c, way = "command"),
                         "PRECOMPOSITION")
<1>1. Safe(d)
  BY SetStateSafe, FinishConversionSafe, EngineCommitSafe DEF CommitPreedit, States
<1>2. QED
  BY <1>1, DoNothingSafe, CommitStringSafe, SuggestSafe DEF CommitInternal

LEMMA CommitContextSafe ==
  ASSUME NEW c, NEW way, NEW r, Safe(c), Env
  PROVE  Safe(CommitContext(c, way, r))
BY CommitStringSafe, CommitInternalSafe DEF CommitContext

LEMMA ConvertContextSafe ==
  ASSUME NEW c, Safe(c), Env
  PROVE  Safe(ConvertContext(c)) /\ Safe(LiveContext(c))
BY DoNothingSafe, EngineConvertSafe, SetStateSafe DEF ConvertContext, LiveContext, States

LEMMA CancelLiveSafe ==
  ASSUME NEW c, Safe(c), Env
  PROVE  Safe(CancelLive(c))
BY CancelConverterSafe, SetStateSafe DEF CancelLive, States

LEMMA RevertContextSafe ==
  ASSUME NEW c, Safe(c), Env
  PROVE  Safe(RevertContext(c))
BY DoNothingSafe, EndCompositionSafe, ToPrecompositionSafe DEF RevertContext

LEMMA ImeOffContextSafe ==
  ASSUME NEW c, NEW way, NEW r, Safe(c), Env
  PROVE  Safe(ImeOffContext(c, way, r))
BY CommitContextSafe, ResetConverterSafe, SetStateSafe DEF ImeOffContext, States

LEMMA ConvertCancelContextSafe ==
  ASSUME NEW c, NEW r, Safe(c), Env
  PROVE  Safe(ConvertCancelContext(c, r))
BY SuggestSafe, CancelConverterSafe, SetStateSafe DEF ConvertCancelContext, States

LEMMA PredictContextSafe ==
  ASSUME NEW c, NEW found, Safe(c), Env
  PROVE  Safe(PredictContext(c, found))
BY EnginePredictSafe, SetStateSafe DEF PredictContext, States

LEMMA CommitSegmentsContextSafe ==
  ASSUME NEW c, NEW some, NEW isCommand, NEW r, Safe(c), Env
  PROVE  Safe(CommitSegmentsContext(c, some, isCommand, r))
BY CommitSegmentsSafe, SuggestSafe, SetStateSafe DEF CommitSegmentsContext, States

-----------------------------------------------------------------------------
(* The undo stack and the end of a handler.                                *)

LEMMA EmptyUndoSafe == SafeUndo(domain, <<>>)
BY ConstantsAssumption DEF SafeUndo

LEMMA PushUndoSafe ==
  ASSUME NEW u, NEW c, SafeUndo(domain, u), Safe(c)
  PROVE  SafeUndo(domain, PushUndo(u, c))
<1> DEFINE v == Append(u, c)
<1>1. c \in ImeContexts /\ u \in Seq(ImeContexts) /\ Len(u) \in Nat /\ MaxUndo \in Nat \ {0}
  BY ConstantsAssumption DEF Safe, SafeIn, SafeUndo
<1>2. /\ v \in Seq(ImeContexts) /\ Len(v) = Len(u) + 1
      /\ \A i \in 1..Len(v) : SafeIn(domain, v[i])
  BY <1>1 DEF SafeUndo, Safe
<1>3. CASE Len(v) > MaxUndo
  <2> HIDE DEF v
  <2>1. Len(v) = MaxUndo + 1 /\ v # <<>>
    BY <1>1, <1>2, <1>3 DEF SafeUndo
  <2>2. /\ Tail(v) \in Seq(ImeContexts) /\ Len(Tail(v)) = MaxUndo
        /\ \A i \in 1..Len(Tail(v)) : Tail(v)[i] = v[i + 1]
    BY <1>1, <1>2, <2>1
  <2>3. \A i \in 1..Len(Tail(v)) : i + 1 \in 1..Len(v)
    BY <1>1, <2>1, <2>2
  <2>4. SafeUndo(domain, Tail(v))
    BY <1>1, <1>2, <2>2, <2>3 DEF SafeUndo
  <2>5. QED
    BY <1>3, <2>4 DEF PushUndo, v
<1>4. CASE ~(Len(v) > MaxUndo)
  BY <1>1, <1>2, <1>4 DEF PushUndo, SafeUndo
<1>5. QED
  BY <1>3, <1>4

LEMMA CommitUndoSafe ==
  ASSUME NEW u, NEW c, NEW way, SafeUndo(domain, u), Safe(c)
  PROVE  SafeUndo(domain, CommitUndo(u, c, way))
BY EmptyUndoSafe, PushUndoSafe DEF CommitUndo

\* SendKeyPrecompositionState stores the canonical context of the command.
LEMMA StartSafe ==
  ASSUME Inv, phase # "idle"
  PROVE  Safe(Start)
BY DEF Start, Inv, Safe, SafeIn, ImeContexts, ClientSafe

LEMMA FlagsBoolean ==
  ASSUME Inv
  PROVE  live \in BOOLEAN /\ Promoted \in BOOLEAN
BY DEF Inv, Promoted

\* A handler that ends with a safe context and a safe undo stack.
LEMMA DoneInv ==
  ASSUME Inv, phase # "idle", NEW c, NEW u, NEW l \in BOOLEAN,
         Safe(c), SafeUndo(domain, u), Done(c, u, l)
  PROVE  Inv'
<1>1. /\ ctx' = c /\ undo' = u /\ UNCHANGED <<generation, meaning, domain>>
      /\ \/ phase' = "idle" /\ steps' = 0 /\ wire' = NoContext
         \/ phase' = "sequence" /\ steps' = steps + 1 /\ wire' = wire
  BY DEF Done
<1>2. live' \in BOOLEAN
  BY DEF Done
<1>3. Safe(ctx)' /\ SafeUndo(domain, undo)' /\ DomainOK(domain)'
  BY <1>1 DEF Inv, Safe
<1>4. NoContext \in Contexts
  BY DEF NoContext, Contexts
<1>5. wire' \in Contexts /\ (phase' # "idle" => ClientSafe(domain, wire)')
  BY <1>1, <1>4 DEF Inv
<1>6. phase' \in Phases /\ steps' \in Nat
  BY <1>1 DEF Inv, Phases
<1>7. QED
  BY <1>1, <1>2, <1>3, <1>5, <1>6 DEF Inv

-----------------------------------------------------------------------------
(* The handlers.                                                           *)

LEMMA InsertedSafe ==
  ASSUME Inv, Env, phase # "idle", NEW r, NEW d \in Inserted(r)
  PROVE  Safe(d)
<1> DEFINE c == CancelLive(Start)
<1>1. Safe(c)
  BY StartSafe, CancelLiveSafe
<1>2. \A way : Safe(CommitInternal(c, way, FALSE, r))
  BY <1>1, CommitInternalSafe
<1>3. PICK e : Safe(e) /\ d = [e EXCEPT !.text = TRUE]
  <2> HIDE DEF c
  <2>1. QED
    BY <1>1, <1>2 DEF Inserted, c
<1>4. QED
  BY <1>3, TextSafe

\* HandleIndirectImeOnOff goes on to dispatch the key.
LEMMA HandleIndirectImeOnOffInv == Inv /\ HandleIndirectImeOnOff => Inv'
<1> SUFFICES ASSUME Inv, HandleIndirectImeOnOff PROVE Inv'
  OBVIOUS
<1>0. Inv /\ Env /\ Safe(ctx) /\ SafeUndo(domain, undo)
  BY DEF Inv, Env
<1>1. Safe(ctx') /\ SafeUndo(domain, undo')
  BY <1>0, SetStateSafe, ImeOffContextSafe, CommitUndoSafe, EmptyUndoSafe
     DEF HandleIndirectImeOnOff, States
<1>2. /\ live' = FALSE /\ phase' = "dispatch" /\ phase # "idle"
      /\ UNCHANGED <<generation, meaning, domain, wire, steps>>
  BY DEF HandleIndirectImeOnOff
<1>3. Safe(ctx)' /\ SafeUndo(domain, undo)' /\ DomainOK(domain)'
  BY <1>0, <1>1, <1>2 DEF Safe, Env
<1>4. QED
  BY <1>0, <1>2, <1>3 DEF Inv, Phases

\* The commands that only keys are bound to.
LEMMA SendKeyInv == Inv /\ SendKey => Inv'
<1> SUFFICES ASSUME Inv, SendKey PROVE Inv'
  OBVIOUS
<1>0. Inv /\ Env /\ Safe(ctx) /\ SafeUndo(domain, undo)
  BY DEF Inv, Env
<1>1. CASE EchoBackKey
  BY <1>0, <1>1, StartSafe, DoNothingSafe, EmptyUndoSafe, FlagsBoolean, DoneInv
     DEF EchoBackKey, Key
<1>2. CASE InertKey
  BY <1>0, <1>2, StartSafe, DoNothingSafe, FlagsBoolean, DoneInv DEF InertKey, Key
<1>3. CASE IMEOn
  BY <1>0, <1>3, SetStateSafe, EmptyUndoSafe, FlagsBoolean, DoneInv DEF IMEOn, Key,
     States
<1>4. CASE InsertDirectly
  <2>1. PICK r \in SuggestResults, c \in {Start, ResetConverter(Start)} :
          Done(CommitString([c EXCEPT !.text = TRUE], r), <<>>, live)
    BY <1>4 DEF InsertDirectly
  <2>2. Safe([c EXCEPT !.text = TRUE])
    BY <1>0, <1>4, StartSafe, ResetConverterSafe, TextSafe DEF InsertDirectly, Key
  <2>3. QED
    BY <1>0, <1>4, <2>1, <2>2, CommitStringSafe, EmptyUndoSafe, FlagsBoolean, DoneInv
       DEF InsertDirectly, Key
<1>5. CASE InsertAfterLiveConversion
  <2>1. PICK r \in SuggestResults :
          Done(SetState([CommitString(ctx, r) EXCEPT !.text = TRUE], "COMPOSITION"),
               <<>>, FALSE)
    BY <1>5 DEF InsertAfterLiveConversion
  <2>2. Safe([CommitString(ctx, r) EXCEPT !.text = TRUE])
    BY <1>0, CommitStringSafe, TextSafe
  <2>3. QED
    BY <1>0, <1>5, <2>1, <2>2, SetStateSafe, EmptyUndoSafe, DoneInv
       DEF InsertAfterLiveConversion, Key, States
<1>6. CASE InsertAndCommit
  BY <1>0, <1>6, InsertedSafe, CommitStringSafe, EmptyUndoSafe, DoneInv
     DEF InsertAndCommit, Key
<1>7. CASE InsertAndCommitHead
  BY <1>0, <1>7, EmptyUndoSafe, DoneInv DEF InsertAndCommitHead, Key
<1>8. CASE InsertAndCompose
  <2>1. PICK r \in SuggestResults : \E c \in Inserted(r) :
          LET d == SetState(c, "COMPOSITION")
          IN \/ Done(Suggest(d, r), <<>>, FALSE)
             \/ Done(ConvertContext(d), <<>>, FALSE)
             \/ Done(LiveContext(d), <<>>, TRUE)
    BY <1>8 DEF InsertAndCompose
  <2> PICK c \in Inserted(r) :
        LET d == SetState(c, "COMPOSITION")
        IN \/ Done(Suggest(d, r), <<>>, FALSE)
           \/ Done(ConvertContext(d), <<>>, FALSE)
           \/ Done(LiveContext(d), <<>>, TRUE)
    BY <2>1
  <2>2. phase # "idle" /\ Safe(SetState(c, "COMPOSITION"))
    BY <1>0, <1>8, InsertedSafe, SetStateSafe DEF InsertAndCompose, Key, States
  <2>3. QED
    BY <1>0, <2>1, <2>2, SuggestSafe, ConvertContextSafe, EmptyUndoSafe, DoneInv
<1>9. CASE CommitFirstSuggestion
  BY <1>0, <1>9, StartSafe, CommitSuggestionSafe, SetStateSafe, SuggestSafe,
     PushUndoSafe, FlagsBoolean, DoneInv DEF CommitFirstSuggestion, Key, States
<1>10. CASE CommitSegment
  BY <1>0, <1>10, CommitSegmentsContextSafe, PushUndoSafe, FlagsBoolean, DoneInv
     DEF CommitSegment, Key
<1>11. CASE Convert
  <2>1. \A left \in BOOLEAN : Safe([ctx EXCEPT !.text = left])
    BY <1>0, TextSafe
  <2>2. QED
    BY <1>0, <1>11, <2>1, ConvertContextSafe, EmptyUndoSafe, FlagsBoolean, DoneInv
       DEF Convert, Key
<1>12. CASE PredictAndConvert
  BY <1>0, <1>12, StartSafe, PredictContextSafe, FlagsBoolean, DoneInv
     DEF PredictAndConvert, Key
<1>13. CASE PredictAndConvertFromLiveConversion
  BY <1>0, <1>13, PredictContextSafe, CancelConverterSafe, SetStateSafe, DoneInv
     DEF PredictAndConvertFromLiveConversion, Key, States
<1>14. CASE Transliterate
  BY <1>0, <1>14, EngineTransliterateSafe, SetStateSafe, FlagsBoolean, DoneInv
     DEF Transliterate, Key, States
<1>15. CASE ConvertCancel
  BY <1>0, <1>15, ConvertCancelContextSafe, DoneInv DEF ConvertCancel, Key
<1>16. CASE EditCancel
  BY <1>0, <1>16, StartSafe, CommitStringSafe, ToPrecompositionSafe, FlagsBoolean,
     DoneInv DEF EditCancel, Key
<1>17. CASE EditCancelAndIMEOff
  BY <1>0, <1>17, StartSafe, CommitStringSafe, ResetConverterSafe, SetStateSafe,
     EmptyUndoSafe, FlagsBoolean, DoneInv DEF EditCancelAndIMEOff, Key, States
<1>18. CASE Backspace
  <2>1. PICK left \in {FALSE, ctx.text}, r \in SuggestResults :
          LET c == [CancelLive(ctx) EXCEPT !.text = left]
          IN \/ Done(ToPrecomposition(c), <<>>, FALSE)
             \/ Done(Suggest(c, r), <<>>, FALSE)
             \/ Done(LiveContext(c), <<>>, TRUE)
    BY <1>18 DEF Backspace
  <2>2. Safe([CancelLive(ctx) EXCEPT !.text = left])
    <3>1. left \in BOOLEAN
      BY <1>0 DEF Safe, SafeIn, ImeContexts
    <3>2. QED
      BY <1>0, <3>1, CancelLiveSafe, TextSafe
  <2>3. QED
    BY <1>0, <1>18, <2>1, <2>2, ToPrecompositionSafe, SuggestSafe, ConvertContextSafe,
       EmptyUndoSafe, DoneInv DEF Backspace, Key
<1>19. QED
  BY <1>1, <1>2, <1>3, <1>4, <1>5, <1>6, <1>7, <1>8, <1>9, <1>10, <1>11, <1>12,
     <1>13, <1>14, <1>15, <1>16, <1>17, <1>18, HandleIndirectImeOnOffInv DEF SendKey

\* The commands that only clients send.
LEMMA SendCommandInv == Inv /\ SendCommand => Inv'
<1> SUFFICES ASSUME Inv, SendCommand PROVE Inv'
  OBVIOUS
<1>0. Inv /\ Env /\ Safe(ctx) /\ SafeUndo(domain, undo)
  BY DEF Inv, Env
<1>1. CASE InertCommand
  BY <1>0, <1>1, DoNothingSafe, FlagsBoolean, DoneInv DEF InertCommand, Command
<1>2. CASE MakeSureIMEOn
  BY <1>0, <1>2, SetStateSafe, EmptyUndoSafe, FlagsBoolean, DoneInv
     DEF MakeSureIMEOn, Command, States
<1>3. CASE SelectCandidate
  BY <1>0, <1>3, CandidateMoveToIdSafe, SetStateSafe, FlagsBoolean, DoneInv
     DEF SelectCandidate, Command, States
<1>4. CASE CommitCandidate
  <2>1. phase # "idle" /\ SafeUndo(domain, PushUndo(undo, ctx))
    BY <1>0, <1>4, PushUndoSafe DEF CommitCandidate, Command
  <2>2. \A how \in {"refused", "partial", "cancelled", "committed"} :
          Safe(CommitSuggestion(ctx, how))
    BY <1>0, CommitSuggestionSafe
  <2>3. QED
    BY <1>0, <1>4, <2>1, <2>2, CandidateMoveToIdSafe, CommitSegmentsContextSafe,
       CommitStringSafe, SuggestSafe, SetStateSafe, FlagsBoolean, DoneInv
       DEF CommitCandidate, States
<1>5. CASE ConvertReverse
  <2>1. Safe([ctx EXCEPT !.text = TRUE])
    BY <1>0, TextSafe
  <2>2. QED
    BY <1>0, <1>5, <2>1, EngineConvertSafe, SetStateSafe, EmptyUndoSafe, FlagsBoolean,
       DoneInv DEF ConvertReverse, Command, States
<1>6. CASE Undo
  <2>1. undo \in Seq(ImeContexts) /\ undo # <<>> /\ Len(undo) \in Nat \ {0} /\ phase # "idle"
    BY <1>0, <1>6 DEF Undo, Command, SafeUndo
  <2>2. Safe(undo[Len(undo)])
    BY <1>0, <2>1 DEF SafeUndo, Safe
  <2>3. SafeUndo(domain, SubSeq(undo, 1, Len(undo) - 1))
    BY <1>0, <2>1, ConstantsAssumption DEF SafeUndo
  <2>4. Safe(DoNothing(EndComposition(ctx)))
    BY <1>0, EndCompositionSafe, DoNothingSafe
  <2>5. QED
    BY <1>0, <1>6, <2>1, <2>2, <2>3, <2>4, FlagsBoolean, DoneInv DEF Undo
<1>7. CASE ResetContext
  BY <1>0, <1>7, ResetConverterSafe, ToPrecompositionSafe, EmptyUndoSafe, DoneInv
     DEF ResetContext, Command
<1>8. CASE SwitchInputFieldType
  <2> DEFINE s == (wire.field = "PASSWORD")
             f == IF wire.field = "none" THEN "NORMAL" ELSE wire.field
  <2>1. phase # "idle" /\ ClientSafe(domain, wire)
    BY <1>0, <1>8 DEF SwitchInputFieldType, Command, Inv
  <2>2. (IsSecure => s) /\ (IsSecure => f = "PASSWORD") /\ f \in {"NORMAL", "PASSWORD"}
    BY <2>1 DEF ClientSafe, IsSecure, Contexts
  <2>3. Safe(SetSecureInput(ctx, s))
    BY <1>0, <2>2, SetSecureInputSafe
  <2>4. Safe([SetSecureInput(ctx, s) EXCEPT !.field = f])
    <3> HIDE DEF f, s
    <3>1. QED
      BY <2>2, <2>3 DEF Safe, SafeIn, ImeContexts, IsSecure
  <2>5. QED
    BY <1>0, <1>8, <2>1, <2>4, FlagsBoolean, DoneInv DEF SwitchInputFieldType
<1>9. CASE EchoBackCommand
  BY <1>0, <1>9, DoNothingSafe, FlagsBoolean, DoneInv DEF EchoBackCommand, Command
<1>10. CASE EditCommand
  BY <1>0, <1>10, SuggestSafe, EmptyUndoSafe, FlagsBoolean, DoneInv DEF EditCommand,
     Command
<1>11. CASE CommitRawText
  BY <1>0, <1>11, CommitStringSafe, FlagsBoolean, DoneInv DEF CommitRawText, Command
<1>12. CASE UpdateComposition
  <2>1. \A text \in BOOLEAN : Safe(SetState([ctx EXCEPT !.text = text], "COMPOSITION"))
    BY <1>0, TextSafe, SetStateSafe DEF States
  <2>2. QED
    BY <1>0, <1>12, <2>1, SuggestSafe, DoNothingSafe, EmptyUndoSafe, FlagsBoolean, DoneInv
       DEF UpdateComposition, Command
<1>13. CASE ApplyDelayedLiveConversion
  BY <1>0, <1>13, ConvertContextSafe, DoneInv DEF ApplyDelayedLiveConversion, Command
<1>14. CASE RequestNextWordPrediction
  BY <1>0, <1>14, EngineSuggestSafe, ResetConverterSafe, FlagsBoolean, DoneInv
     DEF RequestNextWordPrediction, Command
<1>15. QED
  BY <1>1, <1>2, <1>3, <1>4, <1>5, <1>6, <1>7, <1>8, <1>9, <1>10, <1>11, <1>12,
     <1>13, <1>14 DEF SendCommand

\* The handlers that keys and clients share.
Shared ==
  \/ CompositionMode \/ IMEOff \/ Commit \/ MoveFocus \/ MoveCursor
  \/ Revert \/ DeleteCandidateFromHistory

\* Either way, they leave safe contexts.
LEMMA SharedInv == Inv /\ Shared => Inv'
<1> SUFFICES ASSUME Inv, Shared PROVE Inv'
  OBVIOUS
<1>0. Inv /\ Env /\ Safe(ctx) /\ SafeUndo(domain, undo)
  BY DEF Inv, Env
<1>1. CASE CompositionMode
  BY <1>0, <1>1, StartSafe, SetStateSafe, FlagsBoolean, DoneInv DEF CompositionMode,
     Key, Command, States
<1>2. CASE IMEOff
  BY <1>0, <1>2, StartSafe, ImeOffContextSafe, CommitUndoSafe, EmptyUndoSafe, DoneInv
     DEF IMEOff, Key, Command
<1>3. CASE Commit
  BY <1>0, <1>3, CommitContextSafe, CommitUndoSafe, DoneInv DEF Commit, Key, Command
<1>4. CASE MoveFocus
  BY <1>0, <1>4, RequiresSafe, FlagsBoolean, DoneInv DEF MoveFocus, Key, Command
<1>5. CASE MoveCursor
  BY <1>0, <1>5, CommitStringSafe, SuggestSafe, EmptyUndoSafe, FlagsBoolean, DoneInv
     DEF MoveCursor, Key, Command
<1>6. CASE Revert
  BY <1>0, <1>6, StartSafe, RevertContextSafe, EmptyUndoSafe, DoneInv DEF Revert,
     Key, Command
<1>7. CASE DeleteCandidateFromHistory
  BY <1>0, <1>7, ConvertCancelContextSafe, DoneInv DEF DeleteCandidateFromHistory,
     Key, Command
<1>8. QED
  BY <1>1, <1>2, <1>3, <1>4, <1>5, <1>6, <1>7 DEF Shared

\* TestSendKey, which only asks whether a key would be consumed.
LEMMA TestSendKeyInv == Inv /\ TestSendKey => Inv'
<1> SUFFICES ASSUME Inv, TestSendKey PROVE Inv'
  OBVIOUS
<1>0. Inv /\ Env /\ Safe(ctx) /\ SafeUndo(domain, undo)
  BY DEF Inv, Env
<1>1. QED
  BY <1>0, DoNothingSafe, RevertContextSafe, EmptyUndoSafe, FlagsBoolean, DoneInv
     DEF TestSendKey

-----------------------------------------------------------------------------
(* The step that moves the domain.                                         *)

\* A domain that a context may lead to is well formed, and is the old one, a
\* locked version of it, or the one that the context names.
LEMMA NextDomainOK ==
  ASSUME NEW d, NEW w \in WireContexts, DomainOK(d)
  PROVE  DomainOK(NextDomain(d, w))
BY ConstantsAssumption
   DEF NextDomain, DomainOK, Domains, Wires, IsManaged, Selects, Locks, Requested, Epochs

LEMMA CanonicalSafe ==
  ASSUME NEW d, NEW w \in WireContexts, DomainOK(d)
  PROVE  ClientSafe(d, Canonical(d, w))
BY ConstantsAssumption
   DEF Canonical, ClientSafe, DomainOK, Domains, Contexts, Wires, Application,
       OwnsDomain, IsManaged, Epochs

\* A domain in which nothing may be kept is entered through a purge; the first
\* domain, when it is not secure, is the only one that is not.
LEMMA WithoutPurge ==
  ASSUME NEW w \in WireContexts, DomainOK(domain), ~Purges(domain, w)
  PROVE  \/ NextDomain(domain, w) = domain
         \/ /\ ~domain.managed /\ NextDomain(domain, w).managed
            /\ ~NextDomain(domain, w).secure
            /\ NextDomain(domain, w).program \in Programs \cup {NoProgram}
BY ConstantsAssumption
   DEF NextDomain, Purges, DomainOK, Domains, Wires, IsManaged, Selects, Locks

\* What a session held before it had a domain is safe in its first one.
LEMMA FirstDomainSafe ==
  ASSUME NEW d, NEW c, DomainOK(domain), Safe(c), ~domain.managed,
         DomainOK(d), d.managed, ~d.secure, d.program \in Programs \cup {NoProgram}
  PROVE  SafeIn(d, c)
<1>1. Application(domain) = Null /\ domain.epoch = 0
  BY DEF Application, DomainOK
<1>2. Null \in InScope => d.program \in InScope
  BY ConstantsAssumption
<1>3. ClientSafe(d, c.client)
  BY <1>1 DEF Safe, SafeIn, ClientSafe
<1>4. SnapshotSafe(d, c.latest) /\ SnapshotSafe(d, c.pinned)
  BY <1>1, <1>2 DEF Safe, SafeIn, SnapshotSafe, Application
<1>5. QED
  BY <1>3, <1>4 DEF Safe, SafeIn

LEMMA PurgedContextSafe ==
  ASSUME NEW d, NEW c \in ImeContexts, DomainOK(d),
         NEW w, ClientSafe(d, w)
  PROVE  /\ SafeIn(d, [PurgedContext(c, d.secure) EXCEPT !.ended = FALSE,
                           !.learned = FALSE, !.client = w])
         /\ ~(d.managed /\ d.secure) =>
              SafeIn(d, [PurgedContext(c, d.secure) EXCEPT !.ended = FALSE,
                           !.learned = FALSE])
<1>1. d.secure \in BOOLEAN
  BY DEF DomainOK, Domains
<1>2. PurgedContext(c, d.secure) =
        [c EXCEPT !.latest = Null, !.pinned = Null, !.secure = d.secure,
                  !.conv = "COMPOSITION", !.ended = TRUE, !.text = FALSE,
                  !.field = IF d.secure THEN "PASSWORD" ELSE "NORMAL",
                  !.state = IF c.state = "DIRECT" THEN "DIRECT" ELSE "PRECOMPOSITION",
                  !.client = NoContext]
  BY <1>1 DEF PurgedContext, SetSecureInput, PurgeRegistry, ResetConverter,
              EndComposition, ImeContexts
<1>3. ClientSafe(d, NoContext) \/ (d.managed /\ d.secure)
  BY DEF ClientSafe, NoContext, Contexts
<1>4. QED
  BY <1>1, <1>2, <1>3, ZenonT(60)
     DEF SafeIn, ImeContexts, SnapshotSafe, States, ConverterStates, ClientSafe

LEMMA ReceiveInv ==
  ASSUME Inv, NEW w \in WireContexts, NEW kind \in {"command", "key", "test"},
         Receive(w, kind)
  PROVE  Inv'
<1> DEFINE d == NextDomain(domain, w)
           purged == Purges(domain, w)
           c == IF purged THEN PurgedContext(ctx, d.secure)
                ELSE IF IsManaged(w) /\ Selects(domain, w) THEN SetSecureInput(ctx, FALSE)
                ELSE ctx
           e == [c EXCEPT !.ended = FALSE, !.learned = FALSE]
<1>0. DomainOK(domain) /\ Safe(ctx) /\ SafeUndo(domain, undo) /\ ctx \in ImeContexts
  BY DEF Inv, Safe, SafeIn
<1>1. DomainOK(d)
  BY <1>0, NextDomainOK
<1>2. ClientSafe(d, Canonical(d, w))
  BY <1>1, CanonicalSafe
<1>3. /\ domain' = d /\ wire' = Canonical(d, w) /\ phase' = kind
      /\ ctx' = IF KeepsClient(d, w, c.client) THEN e
                ELSE [e EXCEPT !.client = Canonical(d, w)]
      /\ undo' = IF purged THEN <<>> ELSE undo
      /\ live' \in BOOLEAN
      /\ UNCHANGED <<generation, meaning, steps>>
  BY DEF Receive
<1>4. SafeIn(d, ctx')
  <2>1. CASE purged
    <3>1. d.managed /\ d.secure => ~KeepsClient(d, w, c.client)
      BY DEF KeepsClient
    <3>2. QED
      BY <1>0, <1>1, <1>2, <1>3, <2>1, <3>1, PurgedContextSafe
  <2>2. CASE ~purged
    <3>1. SafeIn(d, ctx)
      BY <1>0, <1>1, <2>2, WithoutPurge, FirstDomainSafe DEF Safe
    <3>2. c \in {ctx, SetSecureInput(ctx, FALSE)}
      BY <2>2
    <3>3. c = SetSecureInput(ctx, FALSE) => c = ctx \/ ~(d.managed /\ d.secure)
      BY <1>0, <2>2 DEF Purges, NextDomain, DomainOK, Domains, IsManaged, Selects
    <3>4. SafeIn(d, c)
      <4> HIDE DEF c, d
      <4>1. CASE c = ctx
        BY <3>1, <4>1
      <4>2. CASE c = SetSecureInput(ctx, FALSE) /\ ~(d.managed /\ d.secure)
        <5>1. c = [ctx EXCEPT !.secure = FALSE]
          BY <4>2 DEF SetSecureInput
        <5>2. QED
          BY <1>0, <3>1, <4>2, <5>1 DEF SafeIn, ImeContexts
      <4>3. QED
        BY <3>2, <3>3, <4>1, <4>2
    <3>5. SafeIn(d, e) /\ SafeIn(d, [e EXCEPT !.client = Canonical(d, w)])
      <4> HIDE DEF c, d
      <4>1. QED
        BY <1>2, <3>4 DEF SafeIn, ImeContexts, ClientSafe
    <3>6. QED
      BY <1>3, <3>5
  <2>3. QED
    BY <2>1, <2>2
<1>5. SafeUndo(d, undo')
  <2>1. CASE purged
    BY <1>3, <2>1, ConstantsAssumption DEF SafeUndo
  <2>2. CASE ~purged
    <3>1. \A i \in 1..Len(undo) : SafeIn(d, undo[i])
      BY <1>0, <1>1, <2>2, WithoutPurge, FirstDomainSafe DEF Safe, SafeUndo
    <3>2. QED
      BY <1>0, <1>3, <2>2, <3>1 DEF SafeUndo
  <2>3. QED
    BY <2>1, <2>2
<1>6. QED
  BY <1>1, <1>2, <1>3, <1>4, <1>5 DEF Inv, Safe, Phases, ClientSafe

-----------------------------------------------------------------------------
LEMMA InitInv == Init => Inv
<1> SUFFICES ASSUME Init PROVE Inv
  OBVIOUS
<1>1. NoContext \in Contexts
  BY DEF NoContext, Contexts
<1>2. DomainOK(domain) /\ ~domain.managed
  BY DEF Init, DomainOK, Domains, Epochs
<1>3. Safe(ctx)
  <2>1. ClientSafe(domain, NoContext)
    BY <1>1, <1>2 DEF ClientSafe, NoContext
  <2>2. PICK s \in {"DIRECT", "PRECOMPOSITION"} :
          ctx = [state |-> s, conv |-> "COMPOSITION", text |-> FALSE,
                 field |-> "NORMAL", secure |-> FALSE, latest |-> Null,
                 pinned |-> Null, client |-> NoContext,
                 ok |-> TRUE, ended |-> FALSE, learned |-> FALSE]
    BY DEF Init
  <2>3. ctx \in ImeContexts
    BY <1>1, <2>2 DEF ImeContexts, States, ConverterStates
  <2>4. QED
    BY <1>2, <2>1, <2>2, <2>3 DEF Safe, SafeIn, SnapshotSafe
<1>4. generation \in Nat /\ meaning \in Meanings \cup {Null}
  BY DEF Init, Provider!PubInit
<1>5. SafeUndo(domain, undo)
  BY EmptyUndoSafe DEF Init
<1>6. QED
  BY <1>1, <1>2, <1>3, <1>4, <1>5 DEF Init, Inv, Phases

\* The provider republishes; the sessions notice at their next composition.
LEMMA RepublishInv == Inv /\ Republish => Inv'
<1> SUFFICES ASSUME Inv, Republish PROVE Inv'
  OBVIOUS
<1>1. generation' \in Nat /\ meaning' \in Meanings \cup {Null}
  BY ConstantsAssumption
     DEF Inv, Republish, Provider!PubNext, Provider!Republish
<1>2. UNCHANGED <<ctx, undo, live, domain, wire, phase, steps>>
  BY DEF Republish
<1>3. QED
  BY <1>1, <1>2 DEF Inv, Safe

LEMMA ReconfigureInv == Inv /\ Reconfigure => Inv'
<1> SUFFICES ASSUME Inv, Reconfigure PROVE Inv'
  OBVIOUS
<1>1. SafeUndo(domain, undo') /\ domain' = domain
  BY EmptyUndoSafe DEF Reconfigure
<1>2. QED
  BY <1>1 DEF Inv, Reconfigure, Safe

LEMMA StutterInv == Inv /\ UNCHANGED vars => Inv'
BY DEF Inv, Safe, vars

\* The invariant holds in every reachable state.
THEOREM Invariance == Spec => []Inv
<1>1. Inv /\ [Next]_vars => Inv'
  <2> SUFFICES ASSUME Inv, [Next]_vars PROVE Inv'
    OBVIOUS
  <2>1. ASSUME NEW w \in WireContexts, NEW kind \in {"command", "key", "test"},
               Receive(w, kind)
        PROVE  Inv'
    BY <2>1, ReceiveInv
  <2>2. CASE Shared
    BY <2>2, SharedInv
  <2>3. QED
    BY <2>1, <2>2, SendKeyInv, SendCommandInv, TestSendKeyInv, ReconfigureInv,
       RepublishInv, StutterInv DEF Next, Shared
<1>2. QED
  BY <1>1, InitInv, PTL DEF Spec

-----------------------------------------------------------------------------
\* Every handler keeps the session's state well formed, and the undo stack
\* within kMultipleUndoMaxSize (Session::PushUndoContext).
THEOREM TypeCorrect == Spec => []TypeOK
<1>1. Inv => TypeOK
  BY DEF Inv, TypeOK, DomainOK, Safe, SafeIn, SafeUndo, Phases
<1>2. QED
  BY <1>1, Invariance, PTL

\* In managed secure input no dictionary and no surrounding text is reachable,
\* whatever came before (Session::PurgeForGrimodexDomainTransition).
THEOREM SecureIsolation == Spec => []SecureHoldsNothing
<1>1. Inv => SecureHoldsNothing
  BY DEF Inv, SecureHoldsNothing, IsSecure, Held, Safe, SafeIn, SafeUndo, ClientSafe
<1>2. QED
  BY <1>1, Invariance, PTL

\* A session holds a project dictionary only for an application in scope
\* (EngineConverter::OnStartComposition and Session::UpdateGrimodexContext).
THEOREM ScopeIsolated == Spec => []ScopeIsolation
<1>1. Inv => ScopeIsolation
  BY DEF Inv, ScopeIsolation, Held, Safe, SafeIn, SafeUndo, SnapshotSafe, Application
<1>2. QED
  BY <1>1, Invariance, PTL

\* Nothing captured in an epoch outlives it (Session::UpdateGrimodexContext).
THEOREM EpochIsolated == Spec => []NothingOutlivesItsEpoch
<1>1. Inv => NothingOutlivesItsEpoch
  BY DEF Inv, NothingOutlivesItsEpoch, Held, Safe, SafeIn, SafeUndo, SnapshotSafe,
         ClientSafe
<1>2. QED
  BY <1>1, Invariance, PTL

\* A pin lasts no longer than its composition (SetSessionState).
THEOREM PinsEnd == Spec => []PinLifetime
<1>1. Inv => PinLifetime
  BY DEF Inv, PinLifetime, Safe, SafeIn
<1>2. QED
  BY <1>1, Invariance, PTL

\* Only Receive moves the domain.
LEMMA OnlyReceiveMoves ==
  ASSUME [Next]_vars
  PROVE  \/ domain' = domain
         \/ \E w \in WireContexts : domain' = NextDomain(domain, w)
BY DEF Next, vars, Receive, Reconfigure, Republish, SendKey, SendCommand, TestSendKey,
       HandleIndirectImeOnOff, EchoBackKey, InertKey, IMEOn, InsertDirectly,
       InsertAfterLiveConversion, InsertAndCommit, InsertAndCommitHead,
       InsertAndCompose, CommitFirstSuggestion, CommitSegment, Convert,
       PredictAndConvert, PredictAndConvertFromLiveConversion, Transliterate,
       ConvertCancel, EditCancel, EditCancelAndIMEOff, Backspace, InertCommand,
       MakeSureIMEOn, SelectCandidate, CommitCandidate, ConvertReverse, Undo,
       ResetContext, SwitchInputFieldType, EchoBackCommand, EditCommand,
       CommitRawText, UpdateComposition, ApplyDelayedLiveConversion,
       RequestNextWordPrediction, CompositionMode, IMEOff, Commit, MoveFocus,
       MoveCursor, Revert, DeleteCandidateFromHistory, Done

\* The focus domain only moves forward (Session::UpdateGrimodexContext).
THEOREM DomainMovesForward == Spec => DomainMonotone
<1>1. Inv /\ [Next]_vars =>
        [/\ domain'.epoch >= domain.epoch
         /\ domain.managed => domain'.managed
         /\ domain.managed /\ domain'.epoch = domain.epoch
              => domain'.program = domain.program /\ (domain.secure => domain'.secure)]_vars
  <2> SUFFICES ASSUME Inv, [Next]_vars
               PROVE  /\ domain'.epoch >= domain.epoch
                      /\ domain.managed => domain'.managed
                      /\ domain.managed /\ domain'.epoch = domain.epoch
                           => /\ domain'.program = domain.program
                              /\ domain.secure => domain'.secure
    OBVIOUS
  <2>1. DomainOK(domain) /\ domain.epoch \in Nat
    BY DEF Inv, DomainOK, Domains, Epochs
  <2>2. CASE domain' = domain
    BY <2>1, <2>2
  <2>3. ASSUME NEW w \in WireContexts, domain' = NextDomain(domain, w)
        PROVE  /\ domain'.epoch >= domain.epoch
               /\ domain.managed => domain'.managed
               /\ domain.managed /\ domain'.epoch = domain.epoch
                    => /\ domain'.program = domain.program
                       /\ domain.secure => domain'.secure
    BY <2>1, <2>3, ConstantsAssumption
       DEF NextDomain, DomainOK, Domains, Wires, IsManaged, Selects, Locks, Epochs
  <2>4. QED
    BY <2>2, <2>3, OnlyReceiveMoves
<1>2. QED
  BY <1>1, Invariance, PTL DEF Spec, DomainMonotone

\* A request for secure input is honoured however it arrives
\* (Session::UpdateGrimodexContext).
THEOREM SecureRequestsWin == Spec => FailClosed
<1>1. Inv => [phase = "idle" =>
                \A w \in WireContexts :
                  Receive(w, phase') /\ Requested(w) /\ (IsManaged(w) \/ domain.managed)
                    => domain'.managed /\ domain'.secure]_vars
  <2> SUFFICES ASSUME Inv, NEW w \in WireContexts, Receive(w, phase'), Requested(w),
                      IsManaged(w) \/ domain.managed
               PROVE  domain'.managed /\ domain'.secure
    OBVIOUS
  <2>1. domain' = NextDomain(domain, w) /\ domain \in Domains
    BY DEF Receive, Inv, DomainOK
  <2>2. QED
    BY <2>1 DEF NextDomain, Domains, Locks
<1>2. QED
  BY <1>1, Invariance, PTL DEF FailClosed

-----------------------------------------------------------------------------
(* The session's state and the converter's agree.  A key of one or two     *)
(* commands, from clients that stay with the desktop's routine, never runs *)
(* into an assertion of EngineConverter.                                   *)

\* A context in which both states agree; a conversion has text, so that secure
\* input, in which nothing is suggested or predicted, can commit it as it is.
FitsIn(d, c) ==
  /\ c.ok
  /\ c.state = "CONVERSION" <=> c.conv \in Focused
  /\ c.conv = "CONVERSION" => c.text
  /\ d.managed /\ d.secure => c.conv \in {"COMPOSITION", "CONVERSION"}

Fits(c) == Safe(c) /\ FitsIn(domain, c)

FitsUndo(d, u) == \A i \in 1..Len(u) : FitsIn(d, u[i])

\* Live conversion is on in a conversion that is not secure only, and one command of a sequence at
\* most has been executed.
Agreement ==
  /\ Fits(ctx)
  /\ FitsUndo(domain, undo)
  /\ live => ctx.state = "CONVERSION" /\ ~IsSecure
  /\ steps = IF phase = "sequence" THEN 1 ELSE 0

\* What the operators do to the fields that Fits is about.
LEMMA OnStartCompositionShape ==
  ASSUME NEW c, Safe(c)
  PROVE  LET d == OnStartComposition(c)
         IN d.state = c.state /\ d.conv = c.conv /\ d.text = c.text /\ d.ok = c.ok
            /\ d.field = c.field /\ d.ended = c.ended
BY DEF OnStartComposition, SetSecureInput, PurgeRegistry, PublishLatest, Safe, SafeIn,
       ImeContexts

LEMMA SetStateShape ==
  ASSUME NEW c, NEW s \in States, Safe(c), Env
  PROVE  LET d == SetState(c, s)
         IN /\ d.state = s /\ d.conv = c.conv /\ d.field = c.field
            /\ c.ok => d.ok
            /\ c.text /\ s \in Editing => d.text
<1>1. CASE s \in {"DIRECT", "PRECOMPOSITION"}
  BY <1>1 DEF SetState, Editing, EndComposition, Safe, SafeIn, ImeContexts
<1>2. CASE s = "COMPOSITION" /\ c.state = "PRECOMPOSITION"
  <2> DEFINE b == [c EXCEPT !.state = s]
  <2>1. /\ Safe(b) /\ b.state = s /\ b.conv = c.conv /\ b.ok = c.ok /\ b.text = c.text
        /\ b.field = c.field
    BY <1>2 DEF Safe, SafeIn, ImeContexts, Editing, States
  <2>2. SetState(c, s) = OnStartComposition(b)
    BY <1>2 DEF SetState
  <2> HIDE DEF b
  <2>3. QED
    BY <1>2, <2>1, <2>2, OnStartCompositionShape
<1>3. CASE s \in Editing /\ ~(s = "COMPOSITION" /\ c.state = "PRECOMPOSITION")
  BY <1>3 DEF SetState, Editing, Safe, SafeIn, ImeContexts
<1>4. QED
  BY <1>1, <1>2, <1>3 DEF States, Editing

LEMMA ResetConverterShape ==
  ASSUME NEW c, Safe(c)
  PROVE  LET d == ResetConverter(c)
         IN /\ Safe(d) /\ d.state = c.state /\ d.conv = "COMPOSITION"
            /\ d.text = c.text /\ d.ok = c.ok /\ d.field = c.field
BY ResetConverterSafe DEF ResetConverter, EndComposition, Safe, SafeIn, ImeContexts

LEMMA CancelConverterShape ==
  ASSUME NEW c, Safe(c), c.conv \in Active
  PROVE  LET d == CancelConverter(c)
         IN /\ Safe(d) /\ d.state = c.state /\ d.conv = "COMPOSITION"
            /\ d.text = c.text /\ d.ok = c.ok
BY CancelConverterSafe DEF CancelConverter, Requires, Safe, SafeIn, ImeContexts

LEMMA FinishConversionShape ==
  ASSUME NEW c, Safe(c)
  PROVE  LET d == FinishConversion(c)
         IN /\ Safe(d) /\ d.state = c.state /\ d.conv = "COMPOSITION"
            /\ d.text = c.text /\ d.ok = c.ok
BY FinishConversionSafe DEF FinishConversion, ResetConverter, EndComposition, Safe, SafeIn,
   ImeContexts

\* Outside a conversion an idle converter always fits.
LEMMA IdleFits ==
  ASSUME NEW c, Safe(c), c.ok, c.conv = "COMPOSITION", c.state # "CONVERSION"
  PROVE  Fits(c)
BY DEF Fits, FitsIn, Focused

LEMMA SetStateFits ==
  ASSUME NEW c, NEW s \in {"DIRECT", "PRECOMPOSITION", "COMPOSITION"}, Env, Fits(c),
         c.state # "CONVERSION"
  PROVE  Fits(SetState(c, s)) /\ SetState(c, s).state = s
<1> DEFINE d == SetState(c, s)
<1>1. s \in States /\ Safe(c)
  BY DEF States, Fits
<1>2. Safe(d)
  BY <1>1, SetStateSafe
<1>3. d.state = s /\ d.conv = c.conv /\ (c.ok => d.ok)
  BY <1>1, SetStateShape
<1> HIDE DEF d
<1>4. Fits(d) /\ d.state = s
  BY <1>2, <1>3 DEF Fits, FitsIn, Focused
<1>5. QED
  BY <1>4 DEF d

LEMMA IdleSetState ==
  ASSUME NEW c, NEW s \in {"DIRECT", "PRECOMPOSITION", "COMPOSITION"}, Env,
         Safe(c), c.ok, c.conv = "COMPOSITION"
  PROVE  Fits(SetState(c, s)) /\ SetState(c, s).state = s
<1> DEFINE d == SetState(c, s)
<1>1. s \in States
  BY DEF States
<1>2. Safe(d)
  BY <1>1, SetStateSafe
<1>3. d.state = s /\ d.conv = c.conv /\ d.ok
  BY <1>1, SetStateShape
<1> HIDE DEF d
<1>4. Fits(d) /\ d.state = s
  BY <1>2, <1>3, IdleFits
<1>5. QED
  BY <1>4 DEF d

\* A converter that shows candidates brings the session to CONVERSION.
LEMMA ConversionFits ==
  ASSUME NEW c, Env, Safe(c), c.ok, c.conv \in Focused,
         c.conv = "CONVERSION" => c.text,
         IsSecure => c.conv = "CONVERSION"
  PROVE  /\ Fits(SetState(c, "CONVERSION"))
         /\ SetState(c, "CONVERSION").state = "CONVERSION"
<1> DEFINE d == SetState(c, "CONVERSION")
<1>1. "CONVERSION" \in States
  BY DEF States
<1>2. Safe(d)
  BY <1>1, SetStateSafe
<1>3. d.state = "CONVERSION" /\ d.conv = c.conv /\ d.ok /\ (c.text => d.text)
  BY <1>1, SetStateShape DEF Editing
<1> HIDE DEF d
<1>4. Fits(d)
  BY <1>2, <1>3 DEF Fits, FitsIn, IsSecure
<1>5. QED
  BY <1>3, <1>4 DEF d

LEMMA TextFits ==
  ASSUME NEW c, NEW t \in BOOLEAN, Fits(c), t \/ c.state # "CONVERSION"
  PROVE  Fits([c EXCEPT !.text = t]) /\ [c EXCEPT !.text = t].state = c.state
<1>1. Safe([c EXCEPT !.text = t])
  BY TextSafe DEF Fits
<1>2. QED
  BY <1>1 DEF Fits, FitsIn, Focused, Safe, SafeIn, ImeContexts

LEMMA ResetConverterFits ==
  ASSUME NEW c, Fits(c), c.state # "CONVERSION"
  PROVE  Fits(ResetConverter(c)) /\ ResetConverter(c).state = c.state
BY ResetConverterShape, IdleFits DEF Fits, FitsIn

LEMMA SuggestFits ==
  ASSUME NEW c, NEW r, Fits(c), c.state # "CONVERSION"
  PROVE  /\ Fits(Suggest(c, r)) /\ Suggest(c, r).state = c.state
         /\ Fits(ZeroQuerySuggest(c, r)) /\ ZeroQuerySuggest(c, r).state = c.state
<1>1. Safe(Suggest(c, r))
  BY SuggestSafe DEF Fits
<1>2. c.conv \in {"COMPOSITION", "SUGGESTION"} /\ c \in ImeContexts
  BY DEF Fits, FitsIn, Focused, Safe, SafeIn, ImeContexts, ConverterStates
<1>3. Fits(Suggest(c, r)) /\ Suggest(c, r).state = c.state
  BY <1>1, <1>2 DEF Suggest, EngineSuggest, Requires, Fits, FitsIn, Focused, ImeContexts,
     IsSecure
<1>4. QED
  BY <1>3 DEF ZeroQuerySuggest

LEMMA ToPrecompositionFits ==
  ASSUME NEW c, Safe(c), c.ok, Env
  PROVE  Fits(ToPrecomposition(c)) /\ ToPrecomposition(c).state = "PRECOMPOSITION"
<1> DEFINE d == SetState(c, "PRECOMPOSITION")
<1>1. Safe(d) /\ d.ok /\ d.state = "PRECOMPOSITION"
  BY SetStateShape, SetStateSafe DEF States
<1>2. d.conv # "COMPOSITION" => d.conv \in Active
  BY <1>1 DEF Safe, SafeIn, ImeContexts, ConverterStates, Active
<1> HIDE DEF d
<1>3. QED
  BY <1>1, <1>2, IdleFits, CancelConverterShape DEF ToPrecomposition, d

LEMMA DoNothingFits ==
  ASSUME NEW c, Fits(c)
  PROVE  Fits(DoNothing(c)) /\ DoNothing(c).state = c.state
BY ResetConverterFits DEF DoNothing

LEMMA CommitStringFits ==
  ASSUME NEW c, NEW r, Fits(c), Env
  PROVE  /\ Fits(CommitString(c, r))
         /\ c.text => CommitString(c, r).state = "PRECOMPOSITION"
         /\ ~c.text => CommitString(c, r) = c
<1> DEFINE d == SetState(ResetConverter(c), "PRECOMPOSITION")
<1>1. Safe(ResetConverter(c)) /\ ResetConverter(c).ok /\ ResetConverter(c).conv = "COMPOSITION"
  BY ResetConverterShape DEF Fits, FitsIn
<1>2. Fits(d) /\ d.state = "PRECOMPOSITION"
  BY <1>1, IdleSetState
<1> HIDE DEF d
<1>3. QED
  BY <1>2, SuggestFits DEF CommitString, d

\* A commit leaves no conversion behind.
LEMMA CommitInternalFits ==
  ASSUME NEW c, NEW way, NEW zeroQuery, NEW r, Fits(c), Env
  PROVE  /\ Fits(CommitInternal(c, way, zeroQuery, r))
         /\ CommitInternal(c, way, zeroQuery, r).state # "CONVERSION"
<1> DEFINE b == IF c.state = "COMPOSITION" THEN CommitPreedit(c)
                ELSE EngineCommit(c, way = "command")
           d == SetState(b, "PRECOMPOSITION")
<1>1. CASE c.state \notin Editing
  BY <1>1, DoNothingFits DEF CommitInternal, Editing
<1>2. CASE c.state \in Editing /\ IsSecure
  <2>1. c.state = "CONVERSION" => c.text
    BY <1>2 DEF Fits, FitsIn, IsSecure, Focused
  <2>2. CommitInternal(c, way, zeroQuery, r) = CommitString(c, r)
    BY <1>2 DEF CommitInternal
  <2>3. QED
    BY <2>1, <2>2, CommitStringFits
<1>3. CASE c.state \in Editing /\ ~IsSecure
  <2>1. Safe(b) /\ b.ok /\ b.conv = "COMPOSITION"
    <3>1. CASE c.state = "COMPOSITION"
      BY <3>1, FinishConversionShape DEF CommitPreedit, Fits, FitsIn
    <3>2. CASE c.state = "CONVERSION"
      <4>1. c.conv \in Focused /\ Safe(c) /\ c.ok
        BY <3>2 DEF Fits, FitsIn
      <4>2. b = IF way = "command" THEN [c EXCEPT !.conv = "COMPOSITION"]
                ELSE FinishConversion(c)
        BY <3>2, <4>1 DEF EngineCommit, Requires
      <4>3. LET e == [c EXCEPT !.conv = "COMPOSITION"]
            IN Safe(e) /\ e.ok /\ e.conv = "COMPOSITION"
        BY <4>1, ConvSafe DEF ConverterStates, Safe, SafeIn, ImeContexts
      <4>4. QED
        BY <4>1, <4>2, <4>3, FinishConversionShape
    <3>3. QED
      BY <1>3, <3>1, <3>2 DEF Editing
  <2> HIDE DEF b
  <2>2. Fits(d) /\ d.state = "PRECOMPOSITION"
    BY <2>1, IdleSetState
  <2> HIDE DEF d
  <2>3. CommitInternal(c, way, zeroQuery, r) = IF zeroQuery THEN Suggest(d, r) ELSE d
    BY <1>3 DEF CommitInternal, d, b
  <2>4. QED
    BY <2>2, <2>3, SuggestFits
<1>4. QED
  BY <1>1, <1>2, <1>3

LEMMA CommitContextFits ==
  ASSUME NEW c, NEW way, NEW r, Fits(c), Env
  PROVE  Fits(CommitContext(c, way, r))
BY CommitStringFits, CommitInternalFits DEF CommitContext

LEMMA ImeOffContextFits ==
  ASSUME NEW c, NEW way, NEW r, Fits(c), Env
  PROVE  Fits(ImeOffContext(c, way, r)) /\ ImeOffContext(c, way, r).state = "DIRECT"
<1> DEFINE b == CommitContext(c, way, r)
<1>1. Safe(b) /\ b.ok
  BY CommitContextFits DEF Fits, FitsIn
<1> HIDE DEF b
<1>2. QED
  BY <1>1, ResetConverterShape, IdleSetState DEF ImeOffContext, b

\* A conversion starts from a composition; without text there is none.
LEMMA ConvertContextFits ==
  ASSUME NEW c, Fits(c), Env, c.state = "COMPOSITION"
  PROVE  Fits(ConvertContext(c))
<1> DEFINE d == EngineConvert(c)
<1>1. c.conv \in {"COMPOSITION", "SUGGESTION"} /\ c \in ImeContexts /\ Safe(c) /\ c.ok
  BY DEF Fits, FitsIn, Focused, Safe, SafeIn, ImeContexts, ConverterStates
<1>2. /\ Safe(d) /\ d.ok /\ d.state = c.state /\ d.text = c.text
      /\ d.conv = IF c.text THEN "CONVERSION" ELSE "COMPOSITION"
  BY <1>1, EngineConvertSafe DEF EngineConvert, Requires, ImeContexts
<1> HIDE DEF d
<1>3. CASE IsSecure
  BY <1>3, DoNothingFits DEF ConvertContext
<1>4. CASE ~IsSecure /\ c.text
  <2>1. ConvertContext(c) = SetState(d, "CONVERSION")
    BY <1>2, <1>4 DEF ConvertContext, d
  <2>2. QED
    BY <1>1, <1>2, <1>4, <2>1, ConversionFits DEF Focused
<1>5. CASE ~IsSecure /\ ~c.text
  BY <1>2, <1>5, IdleFits DEF ConvertContext, d
<1>6. QED
  BY <1>3, <1>4, <1>5

\* Of a text, a live conversion too.
LEMMA TextConverts ==
  ASSUME NEW c, Safe(c), c.ok, Env, c.text, c.conv \in {"COMPOSITION", "SUGGESTION"}
  PROVE  /\ Fits(SetState(EngineConvert(c), "CONVERSION"))
         /\ SetState(EngineConvert(c), "CONVERSION").state = "CONVERSION"
<1> DEFINE d == EngineConvert(c)
<1>1. Safe(d) /\ d.ok /\ d.text /\ d.conv = "CONVERSION"
  BY EngineConvertSafe DEF EngineConvert, Requires, Safe, SafeIn, ImeContexts
<1> HIDE DEF d
<1>2. Fits(SetState(d, "CONVERSION")) /\ SetState(d, "CONVERSION").state = "CONVERSION"
  BY <1>1, ConversionFits DEF Focused
<1>3. QED
  BY <1>2 DEF d

LEMMA LiveContextFits ==
  ASSUME NEW c, Fits(c), Env, CanConvertLive(c)
  PROVE  Fits(LiveContext(c)) /\ LiveContext(c).state = "CONVERSION"
<1>1. c.conv \in {"COMPOSITION", "SUGGESTION"} /\ Safe(c) /\ c.ok /\ c.text
  BY DEF Fits, FitsIn, Focused, Safe, SafeIn, ImeContexts, ConverterStates, CanConvertLive
<1>2. QED
  BY <1>1, TextConverts DEF LiveContext

\* Going back from a conversion to its composition.
LEMMA BackToComposition ==
  ASSUME NEW c, Safe(c), c.ok, c.conv \in Active, Env
  PROVE  LET d == CancelConverter(SetState(c, "COMPOSITION"))
         IN Fits(d) /\ d.state = "COMPOSITION" /\ d.conv = "COMPOSITION"
<1> DEFINE b == SetState(c, "COMPOSITION")
<1>1. Safe(b) /\ b.ok /\ b.conv \in Active /\ b.state = "COMPOSITION"
  BY SetStateShape, SetStateSafe DEF States
<1> HIDE DEF b
<1>2. QED
  BY <1>1, CancelConverterShape, IdleFits DEF b

LEMMA CancelLiveFits ==
  ASSUME NEW c, Fits(c), Env, live => c.state = "CONVERSION"
  PROVE  /\ Fits(CancelLive(c))
         /\ CancelLive(c).state = IF live THEN "COMPOSITION" ELSE c.state
<1>1. live => Safe(c) /\ c.ok /\ c.conv \in Active
  BY DEF Fits, FitsIn, Focused, Active
<1>2. QED
  BY <1>1, BackToComposition DEF CancelLive

LEMMA RevertContextFits ==
  ASSUME NEW c, Fits(c), Env
  PROVE  /\ Fits(RevertContext(c)) /\ RevertContext(c).state # "CONVERSION"
<1>1. CASE c.state = "PRECOMPOSITION"
  <2>1. /\ Safe(EndComposition(c)) /\ EndComposition(c).ok
        /\ EndComposition(c).state = "PRECOMPOSITION"
    BY <1>1, EndCompositionSafe DEF EndComposition, Fits, FitsIn, Safe, SafeIn, ImeContexts
  <2>2. QED
    BY <1>1, <2>1, ResetConverterShape, IdleFits DEF RevertContext, EchoBack
<1>2. CASE c.state = "DIRECT"
  BY <1>2, DoNothingFits DEF RevertContext
<1>3. CASE c.state \notin {"DIRECT", "PRECOMPOSITION"}
  BY <1>3, ToPrecompositionFits DEF RevertContext, Fits, FitsIn
<1>4. QED
  BY <1>1, <1>2, <1>3

LEMMA ConvertCancelContextFits ==
  ASSUME NEW c, NEW r, Fits(c), Env, c.conv \in Active
  PROVE  Fits(ConvertCancelContext(c, r))
<1>1. Safe(c) /\ c.ok
  BY DEF Fits, FitsIn
<1>2. QED
  BY <1>1, BackToComposition, SuggestFits DEF ConvertCancelContext

LEMMA PredictContextFits ==
  ASSUME NEW c, NEW found \in BOOLEAN, Fits(c), Env, ~IsSecure, c.state # "CONVERSION"
  PROVE  Fits(PredictContext(c, found))
<1> DEFINE d == EnginePredict(c, found)
<1>1. /\ Safe(d) /\ d.ok /\ d.state = c.state /\ d.text = c.text
      /\ d.conv \in {"PREDICTION", "COMPOSITION"}
  BY EnginePredictSafe DEF EnginePredict, Fits, FitsIn, Safe, SafeIn, ImeContexts
<1> HIDE DEF d
<1>2. CASE d.conv = "PREDICTION"
  BY <1>1, <1>2, ConversionFits DEF PredictContext, d, Focused
<1>3. CASE d.conv = "COMPOSITION"
  BY <1>1, <1>3, IdleFits DEF PredictContext, d
<1>4. QED
  BY <1>1, <1>2, <1>3

LEMMA CommitSegmentsContextFits ==
  ASSUME NEW c, NEW some \in BOOLEAN, NEW isCommand \in BOOLEAN, NEW r, Fits(c), Env,
         c.state = "CONVERSION"
  PROVE  Fits(CommitSegmentsContext(c, some, isCommand, r))
<1> DEFINE d == CommitSegments(c, some, isCommand)
<1>1. Safe(c) /\ c.ok /\ c.conv \in Focused
  BY DEF Fits, FitsIn
<1>2. d = c \/ d = [c EXCEPT !.conv = "COMPOSITION"] \/ d = FinishConversion(c)
  BY <1>1 DEF CommitSegments, EngineCommit, Requires
<1>3. LET e == [c EXCEPT !.conv = "COMPOSITION"]
      IN Safe(e) /\ e.ok /\ e.conv = "COMPOSITION"
  BY <1>1, ConvSafe DEF ConverterStates, Safe, SafeIn, ImeContexts
<1>4. d = c \/ (Safe(d) /\ d.ok /\ d.conv = "COMPOSITION")
  BY <1>1, <1>2, <1>3, FinishConversionShape
<1> HIDE DEF d
<1>5. CASE d.conv \in Active
  BY <1>4, <1>5 DEF CommitSegmentsContext, d, Active
<1>6. CASE d.conv \notin Active
  <2>1. Safe(d) /\ d.ok /\ d.conv = "COMPOSITION"
    BY <1>1, <1>4, <1>6 DEF Active, Focused
  <2>2. /\ Fits(SetState(d, "PRECOMPOSITION"))
        /\ SetState(d, "PRECOMPOSITION").state = "PRECOMPOSITION"
    BY <2>1, IdleSetState
  <2>3. QED
    BY <1>6, <2>2, SuggestFits DEF CommitSegmentsContext, d
<1>7. QED
  BY <1>5, <1>6

\* Outside a conversion the candidates shown are suggestions.
LEMMA CommitSuggestionFits ==
  ASSUME NEW c, NEW how \in {"refused", "partial", "cancelled", "committed"}, Fits(c),
         c.state # "CONVERSION", c.conv \in Active
  PROVE  Fits(CommitSuggestion(c, how)) /\ CommitSuggestion(c, how).state = c.state
<1>1. Safe(c) /\ c.ok /\ c.conv = "SUGGESTION"
  BY DEF Fits, FitsIn, Focused, Active
<1>2. CASE how \in {"refused", "partial"}
  BY <1>1, <1>2 DEF CommitSuggestion, Requires
<1>3. CASE how = "cancelled"
  <2> DEFINE e == [c EXCEPT !.conv = "COMPOSITION"]
  <2>1. Safe(e) /\ e.ok /\ e.conv = "COMPOSITION" /\ e.state = c.state
    BY <1>1, ConvSafe DEF ConverterStates, Safe, SafeIn, ImeContexts
  <2>2. CommitSuggestion(c, how) = e
    BY <1>1, <1>3 DEF CommitSuggestion, Requires
  <2> HIDE DEF e
  <2>3. QED
    BY <2>1, <2>2, IdleFits
<1>4. CASE how = "committed"
  <2>1. CommitSuggestion(c, how) = FinishConversion(c)
    BY <1>1, <1>4 DEF CommitSuggestion, Requires
  <2>2. QED
    BY <1>1, <2>1, FinishConversionShape, IdleFits
<1>5. QED
  BY <1>2, <1>3, <1>4

\* Choosing a candidate.
LEMMA CandidateMoveToIdFits ==
  ASSUME NEW c, Fits(c), Env, c.conv \in Active
  PROVE  /\ Fits(SetState(CandidateMoveToId(c), "CONVERSION"))
         /\ c.state = "CONVERSION" => CandidateMoveToId(c) = c
<1> DEFINE d == CandidateMoveToId(c)
<1>1. Safe(c) /\ c \in ImeContexts
  BY DEF Fits, Safe, SafeIn
<1>2. d = IF c.conv = "SUGGESTION" THEN [c EXCEPT !.conv = "PREDICTION"] ELSE c
  BY DEF CandidateMoveToId, EnginePredict, Requires
<1>3. /\ Safe(d) /\ d.ok /\ d.conv \in Focused
      /\ d.conv = "CONVERSION" => d.text
      /\ IsSecure => d.conv = "CONVERSION"
  BY <1>1, <1>2, CandidateMoveToIdSafe DEF Fits, FitsIn, Focused, Active, IsSecure, ImeContexts
<1>4. c.state = "CONVERSION" => d = c
  BY <1>2 DEF Fits, FitsIn, Focused
<1> HIDE DEF d
<1>5. QED
  BY <1>3, <1>4, ConversionFits DEF d

LEMMA TransliterateFits ==
  ASSUME NEW c, Fits(c), Env, c.state \in Editing, c.conv = "PREDICTION" => c.text
  PROVE  LET d == EngineTransliterate(c)
         IN Fits(IF d.conv = "CONVERSION" THEN SetState(d, "CONVERSION") ELSE d)
<1> DEFINE b == IF c.conv = "PREDICTION" THEN CancelConverter(c) ELSE c
           e == EngineConvert(b)
<1>1. Safe(c) /\ c.ok
  BY DEF Fits, FitsIn
<1>2. CASE c.conv = "CONVERSION"
  <2>1. EngineTransliterate(c) = c
    BY <1>2 DEF EngineTransliterate
  <2>2. c.text /\ c.conv \in Focused
    BY <1>2 DEF Fits, FitsIn, Focused
  <2>3. QED
    BY <1>1, <1>2, <2>1, <2>2, ConversionFits
<1>3. CASE c.conv # "CONVERSION"
  <2>1. /\ Safe(b) /\ b.ok /\ b.conv \in {"COMPOSITION", "SUGGESTION"}
        /\ b.text = c.text /\ b.state = c.state
    BY <1>1, <1>3, CancelConverterShape DEF Active, Safe, SafeIn, ImeContexts, ConverterStates
  <2>2. EngineTransliterate(c) = e
    BY <1>3 DEF EngineTransliterate
  <2> HIDE DEF b
  <2>3. /\ Safe(e) /\ e.ok /\ e.text = b.text /\ e.state = b.state
        /\ e.conv = IF b.text THEN "CONVERSION" ELSE "COMPOSITION"
    BY <2>1, EngineConvertSafe DEF EngineConvert, Requires, Safe, SafeIn, ImeContexts
  <2>4. c.state = "CONVERSION" => c.conv = "PREDICTION"
    BY <1>3 DEF Fits, FitsIn, Focused
  <2> HIDE DEF e
  <2>5. CASE b.text
    <3>1. e.text /\ e.conv = "CONVERSION"
      BY <2>3, <2>5
    <3>2. QED
      BY <2>2, <2>3, <3>1, ConversionFits DEF Focused
  <2>6. CASE ~b.text
    <3>1. e.conv = "COMPOSITION" /\ e.state # "CONVERSION"
      BY <2>1, <2>3, <2>4, <2>6
    <3>2. QED
      BY <2>2, <2>3, <3>1, IdleFits
  <2>7. QED
    BY <2>5, <2>6
<1>4. QED
  BY <1>2, <1>3

LEMMA EmptyUndoFits == FitsUndo(domain, <<>>)
BY DEF FitsUndo

LEMMA PushUndoFits ==
  ASSUME NEW u, NEW c, SafeUndo(domain, u), FitsUndo(domain, u), Fits(c)
  PROVE  FitsUndo(domain, PushUndo(u, c))
<1> DEFINE v == Append(u, c)
<1>1. c \in ImeContexts /\ u \in Seq(ImeContexts) /\ Len(u) \in Nat /\ MaxUndo \in Nat \ {0}
  BY ConstantsAssumption DEF Fits, Safe, SafeIn, SafeUndo
<1>2. /\ v \in Seq(ImeContexts) /\ Len(v) = Len(u) + 1
      /\ \A i \in 1..Len(v) : FitsIn(domain, v[i])
  BY <1>1 DEF FitsUndo, Fits
<1>3. CASE Len(v) > MaxUndo
  <2> HIDE DEF v
  <2>1. v # <<>> /\ Len(v) \in Nat
    BY <1>1, <1>2
  <2>2. /\ Len(Tail(v)) = Len(v) - 1
        /\ \A i \in 1..Len(Tail(v)) : Tail(v)[i] = v[i + 1]
    BY <1>2, <2>1
  <2>3. \A i \in 1..Len(Tail(v)) : i + 1 \in 1..Len(v)
    BY <2>1, <2>2
  <2>4. FitsUndo(domain, Tail(v))
    BY <1>2, <2>2, <2>3 DEF FitsUndo
  <2>5. QED
    BY <1>3, <2>4 DEF PushUndo, v
<1>4. CASE ~(Len(v) > MaxUndo)
  BY <1>2, <1>4 DEF PushUndo, FitsUndo
<1>5. QED
  BY <1>3, <1>4

LEMMA CommitUndoFits ==
  ASSUME NEW u, NEW c, NEW way, SafeUndo(domain, u), FitsUndo(domain, u), Fits(c)
  PROVE  FitsUndo(domain, CommitUndo(u, c, way))
BY EmptyUndoFits, PushUndoFits DEF CommitUndo

LEMMA StartFits ==
  ASSUME Inv, Agreement, phase # "idle"
  PROVE  Fits(Start) /\ Start.state = ctx.state /\ Start.conv = ctx.conv
BY StartSafe DEF Start, Agreement, Fits, FitsIn, Safe, SafeIn, ImeContexts

\* Before the first command of a key, SendKeyConversionState has ended live
\* conversion.
LEMMA PromotedFits ==
  ASSUME Agreement
  PROVE  /\ FirstCommand => ~Promoted
         /\ phase = "test" /\ live => ctx.state = "CONVERSION"
BY DEF Agreement, Promoted

\* A handler that ends with agreeing states.  Outside a sequence it leaves live
\* conversion on only in a conversion.
LEMMA DoneAgrees ==
  ASSUME Agreement, Inv, MaxCommands <= 2, NEW c, NEW u, NEW l \in BOOLEAN,
         Fits(c), FitsUndo(domain, u), Done(c, u, l),
         phase \in {"key", "dispatch", "test"} /\ l => c.state = "CONVERSION",
         l => live \/ ~IsSecure
  PROVE  Agreement'
<1>1. /\ ctx' = c /\ undo' = u /\ UNCHANGED <<generation, meaning, domain>>
      /\ \/ /\ phase' = "idle" /\ steps' = 0
            /\ live' = (l /\ (phase = "test" \/ c.state = "CONVERSION"))
         \/ /\ Key(States) /\ steps + 1 < MaxCommands
            /\ phase' = "sequence" /\ steps' = steps + 1 /\ live' = l
  BY DEF Done
<1>2. Fits(ctx)' /\ FitsUndo(domain, undo)'
  BY <1>1 DEF Fits, Safe
<1>0. (l => ~IsSecure) /\ (IsSecure' <=> IsSecure)
  BY <1>1 DEF Agreement, IsSecure
<1>3. CASE phase' = "idle"
  BY <1>0, <1>1, <1>2, <1>3 DEF Agreement
<1>4. CASE phase' = "sequence"
  <2>1. steps \in Nat /\ MaxCommands \in Nat /\ phase \in {"key", "dispatch", "sequence"}
    BY <1>1, <1>4, ConstantsAssumption DEF Inv, Key
  <2>2. steps = 0 /\ steps' = 1 /\ live' = l /\ phase # "sequence"
    BY <1>1, <1>4, <2>1 DEF Agreement
  <2>3. QED
    BY <1>0, <1>1, <1>2, <1>4, <2>1, <2>2 DEF Agreement
<1>5. QED
  BY <1>1, <1>3, <1>4

LEMMA InsertedFits ==
  ASSUME Inv, Env, Agreement, phase # "idle", NEW r, NEW d \in Inserted(r)
  PROVE  Fits(d) /\ d.state # "CONVERSION"
<1> DEFINE c == CancelLive(Start)
<1>1. Fits(c)
  BY StartFits, CancelLiveFits DEF Agreement
<1> HIDE DEF c
<1>2. \A way : /\ Fits(CommitInternal(c, way, FALSE, r))
               /\ CommitInternal(c, way, FALSE, r).state # "CONVERSION"
  BY <1>1, CommitInternalFits
<1>3. PICK e : Fits(e) /\ e.state # "CONVERSION" /\ d = [e EXCEPT !.text = TRUE]
  BY <1>1, <1>2 DEF Inserted, c
<1>4. QED
  BY <1>3, TextFits

\* HandleIndirectImeOnOff goes on to dispatch the key.
LEMMA HandleIndirectImeOnOffAgrees ==
  Inv /\ Agreement /\ HandleIndirectImeOnOff => Agreement'
<1> SUFFICES ASSUME Inv, Agreement, HandleIndirectImeOnOff PROVE Agreement'
  OBVIOUS
<1>0. Env /\ Fits(ctx) /\ SafeUndo(domain, <<>>) /\ FitsUndo(domain, <<>>)
  BY EmptyUndoSafe, EmptyUndoFits DEF Inv, Env, Agreement
<1>1. Fits(ctx') /\ FitsUndo(domain, undo')
  <2>1. CASE ctx.state = "DIRECT"
    BY <1>0, <2>1, SetStateFits DEF HandleIndirectImeOnOff
  <2>2. CASE ctx.state # "DIRECT"
    BY <1>0, <2>2, ImeOffContextFits, CommitUndoFits DEF HandleIndirectImeOnOff
  <2>3. QED
    BY <2>1, <2>2
<1>2. /\ live' = FALSE /\ phase' = "dispatch" /\ phase = "key"
      /\ UNCHANGED <<generation, meaning, domain, wire, steps>>
  BY DEF HandleIndirectImeOnOff
<1>3. Fits(ctx)' /\ FitsUndo(domain, undo)'
  BY <1>1, <1>2 DEF Fits, Safe
<1>4. QED
  BY <1>2, <1>3 DEF Agreement

\* Of the keys' commands, the ones that insert a character.
LEMMA InsertAgrees ==
  ASSUME Inv, Agreement, MaxCommands <= 2,
         \/ InsertDirectly \/ InsertAfterLiveConversion \/ InsertAndCommit
         \/ InsertAndCommitHead \/ InsertAndCompose
  PROVE  Agreement'
<1>0. Env /\ Fits(ctx) /\ FitsUndo(domain, <<>>) /\ live \in BOOLEAN /\ phase # "idle"
  BY EmptyUndoFits DEF Inv, Env, Agreement, InsertDirectly, InsertAfterLiveConversion,
     InsertAndCommit, InsertAndCommitHead, InsertAndCompose, Key
<1>1. CASE InsertDirectly
  <2>1. PICK r \in SuggestResults, c \in {Start, ResetConverter(Start)} :
          Done(CommitString([c EXCEPT !.text = TRUE], r), <<>>, live)
    BY <1>1 DEF InsertDirectly
  <2>2. ~live /\ ctx.state = "PRECOMPOSITION"
    BY <1>1 DEF InsertDirectly, Key, Agreement
  <2>3. Fits(c)
    BY <1>0, <2>2, StartFits, ResetConverterFits
  <2>4. Fits([c EXCEPT !.text = TRUE])
    BY <2>3, TextFits
  <2>5. QED
    BY <1>0, <2>1, <2>2, <2>4, CommitStringFits, DoneAgrees
<1>2. CASE InsertAfterLiveConversion
  <2>1. PICK r \in SuggestResults :
          Done(SetState([CommitString(ctx, r) EXCEPT !.text = TRUE], "COMPOSITION"),
               <<>>, FALSE)
    BY <1>2 DEF InsertAfterLiveConversion
  <2>2. Fits(CommitString(ctx, r)) /\ CommitString(ctx, r).state = "PRECOMPOSITION"
    BY <1>0, <1>2, CommitStringFits DEF InsertAfterLiveConversion
  <2> DEFINE d == [CommitString(ctx, r) EXCEPT !.text = TRUE]
  <2>3. Fits(d) /\ d.state # "CONVERSION"
    BY <2>2, TextFits
  <2> HIDE DEF d
  <2>4. Fits(SetState(d, "COMPOSITION"))
    BY <1>0, <2>3, SetStateFits
  <2>5. QED
    BY <1>0, <2>1, <2>4, DoneAgrees DEF d
<1>3. CASE InsertAndCommit
  BY <1>0, <1>3, InsertedFits, CommitStringFits, DoneAgrees DEF InsertAndCommit
<1>4. CASE InsertAndCommitHead
  BY <1>0, <1>4, DoneAgrees DEF InsertAndCommitHead
<1>5. CASE InsertAndCompose
  <2> PICK r \in SuggestResults : \E c \in Inserted(r) :
        LET d == SetState(c, "COMPOSITION")
        IN \/ Done(Suggest(d, r), <<>>, FALSE)
           \/ Done(ConvertContext(d), <<>>, FALSE)
           \/ CanConvertLive(d) /\ Done(LiveContext(d), <<>>, TRUE)
    BY <1>5 DEF InsertAndCompose
  <2> PICK c \in Inserted(r) :
        LET d == SetState(c, "COMPOSITION")
        IN \/ Done(Suggest(d, r), <<>>, FALSE)
           \/ Done(ConvertContext(d), <<>>, FALSE)
           \/ CanConvertLive(d) /\ Done(LiveContext(d), <<>>, TRUE)
    OBVIOUS
  <2> DEFINE d == SetState(c, "COMPOSITION")
  <2>1. Fits(c) /\ c.state # "CONVERSION"
    BY <1>0, InsertedFits
  <2>2. Fits(d) /\ d.state = "COMPOSITION"
    BY <1>0, <2>1, SetStateFits
  <2> HIDE DEF d
  <2>3. CASE Done(Suggest(d, r), <<>>, FALSE)
    BY <1>0, <2>2, <2>3, SuggestFits, DoneAgrees
  <2>4. CASE Done(ConvertContext(d), <<>>, FALSE)
    BY <1>0, <2>2, <2>4, ConvertContextFits, DoneAgrees
  <2>5. CASE CanConvertLive(d) /\ Done(LiveContext(d), <<>>, TRUE)
    BY <1>0, <2>2, <2>5, LiveContextFits, DoneAgrees DEF CanConvertLive
  <2>6. QED
    BY <2>3, <2>4, <2>5 DEF d
<1>6. QED
  BY <1>1, <1>2, <1>3, <1>4, <1>5

\* The other commands that only keys are bound to.
LEMMA SendKeyAgrees ==
  ASSUME Inv, Agreement, MaxCommands <= 2, Situations = {}, SendKey
  PROVE  Agreement'
<1>0. Env /\ Fits(ctx) /\ FitsUndo(domain, <<>>) /\ FitsUndo(domain, undo)
      /\ SafeUndo(domain, undo) /\ live \in BOOLEAN /\ Promoted \in BOOLEAN
      /\ (Promoted => live)
  BY EmptyUndoFits, FlagsBoolean DEF Inv, Env, Agreement, Promoted
<1>1. CASE EchoBackKey
  <2>1. phase # "idle" /\ ~live /\ ctx.state # "CONVERSION"
    BY <1>1 DEF EchoBackKey, Key, Agreement
  <2>2. \A c \in {ctx, Start} : Fits(EchoBack(c))
    BY <1>0, <2>1, StartFits, ResetConverterFits DEF EchoBack
  <2>3. QED
    BY <1>0, <1>1, <2>1, <2>2, DoneAgrees DEF EchoBackKey
<1>2. CASE InertKey
  <2>1. PICK c \in {ctx, Start}, l \in {live, Promoted} :
          Done(c, undo, l) \/ Done(DoNothing(c), undo, l)
    BY <1>2 DEF InertKey
  <2>2. Fits(c) /\ c.state = ctx.state
    BY <1>0, <1>2, StartFits DEF InertKey, Key
  <2>3. l \in BOOLEAN /\ (l => live /\ ctx.state = "CONVERSION")
    BY <1>0 DEF Agreement
  <2>4. QED
    BY <1>0, <2>1, <2>2, <2>3, DoNothingFits, DoneAgrees
<1>3. CASE IMEOn
  <2>1. ~live /\ ctx.state # "CONVERSION"
    BY <1>3 DEF IMEOn, Key, Agreement
  <2>2. QED
    BY <1>0, <1>3, <2>1, SetStateFits, DoneAgrees DEF IMEOn
<1>4. CASE CommitFirstSuggestion
  <2>1. /\ phase # "idle" /\ ~live /\ ctx.state # "CONVERSION" /\ ctx.conv \in Active
    BY <1>4 DEF CommitFirstSuggestion, Key, Agreement
  <2>2. Fits(Start) /\ Start.state # "CONVERSION" /\ Start.conv \in Active
    BY <1>0, <2>1, StartFits
  <2>3. PICK how \in {"cancelled", "partial", "committed"}, r \in SuggestResults :
          Done(ZeroQuerySuggest(SetState(CommitSuggestion(Start, how), "PRECOMPOSITION"), r),
               PushUndo(undo, Start), live)
    BY <1>4 DEF CommitFirstSuggestion
  <2> DEFINE c == CommitSuggestion(Start, how)
  <2>4. Fits(c) /\ c.state # "CONVERSION"
    BY <2>2, CommitSuggestionFits
  <2>5. Fits(SetState(c, "PRECOMPOSITION")) /\ SetState(c, "PRECOMPOSITION").state # "CONVERSION"
    <3> HIDE DEF c
    <3>1. QED
      BY <1>0, <2>4, SetStateFits
  <2> DEFINE d == SetState(c, "PRECOMPOSITION")
  <2>6. Fits(ZeroQuerySuggest(d, r))
    <3> HIDE DEF d
    <3>1. QED
      BY <2>5, SuggestFits DEF d
  <2>7. FitsUndo(domain, PushUndo(undo, Start))
    BY <1>0, <2>2, PushUndoFits
  <2>8. QED
    BY <1>0, <2>1, <2>3, <2>6, <2>7, DoneAgrees
<1>5. CASE CommitSegment
  <2>1. /\ phase # "idle" /\ ctx.state = "CONVERSION"
        /\ phase \in {"key", "dispatch", "test"} => ~Promoted
    BY <1>5, PromotedFits DEF CommitSegment, Key, FirstCommand
  <2>2. FitsUndo(domain, PushUndo(undo, ctx))
    BY <1>0, PushUndoFits
  <2>3. QED
    BY <1>0, <1>5, <2>1, <2>2, CommitSegmentsContextFits, DoneAgrees DEF CommitSegment
<1>6. CASE Convert
  <2>1. ~live /\ ctx.state = "COMPOSITION"
    BY <1>6 DEF Convert, Key, Agreement
  <2>2. \A left \in BOOLEAN : /\ Fits([ctx EXCEPT !.text = left])
                              /\ [ctx EXCEPT !.text = left].state = "COMPOSITION"
    BY <1>0, <2>1, TextFits
  <2>3. \A left \in BOOLEAN : Fits(ConvertContext([ctx EXCEPT !.text = left]))
    BY <1>0, <2>2, ConvertContextFits
  <2>4. Fits(ConvertContext(ctx))
    BY <1>0, <2>1, ConvertContextFits
  <2>5. QED
    BY <1>0, <1>6, <2>1, <2>3, <2>4, DoneAgrees DEF Convert
<1>7. CASE PredictAndConvert
  <2>1. phase # "idle" /\ ~live /\ ctx.state # "CONVERSION" /\ ~IsSecure
    BY <1>7 DEF PredictAndConvert, Key, Agreement
  <2>2. QED
    BY <1>0, <1>7, <2>1, StartFits, PredictContextFits, DoneAgrees DEF PredictAndConvert
<1>8. CASE PredictAndConvertFromLiveConversion
  <2> DEFINE d == CancelConverter(SetState(ctx, "COMPOSITION"))
  <2>1. Safe(ctx) /\ ctx.ok /\ ctx.conv \in Active /\ ~IsSecure
    BY <1>0, <1>8 DEF PredictAndConvertFromLiveConversion, Key, Fits, FitsIn, Focused,
       Active, Agreement
  <2>2. Fits(d) /\ d.state = "COMPOSITION" /\ d.conv = "COMPOSITION"
    BY <1>0, <2>1, BackToComposition
  <2> HIDE DEF d
  <2>3. \A found \in BOOLEAN : Fits(PredictContext(d, found))
    BY <1>0, <2>1, <2>2, PredictContextFits
  <2>4. QED
    BY <1>0, <1>8, <2>3, DoneAgrees DEF PredictAndConvertFromLiveConversion, d
<1>9. CASE Transliterate
  <2> DEFINE c == EngineTransliterate(ctx)
             d == IF c.conv = "CONVERSION" THEN SetState(c, "CONVERSION") ELSE c
  <2>1. /\ ctx.state \in Editing /\ (ctx.conv = "PREDICTION" => ctx.text)
        /\ phase \in {"key", "dispatch", "test"} => ~Promoted
        /\ Done(d, undo, Promoted)
    BY <1>9, PromotedFits DEF Transliterate, Key, FirstCommand
  <2>2. Fits(d)
    BY <1>0, <2>1, TransliterateFits
  <2> HIDE DEF d
  <2>3. QED
    BY <1>0, <2>1, <2>2, DoneAgrees
<1>10. CASE ConvertCancel
  <2>1. ctx.conv \in Active
    BY <1>0, <1>10 DEF ConvertCancel, Key, Fits, FitsIn, Focused, Active
  <2>2. QED
    BY <1>0, <1>10, <2>1, ConvertCancelContextFits, DoneAgrees DEF ConvertCancel
<1>11. CASE EditCancel
  <2>1. phase # "idle" /\ ~live
    BY <1>11 DEF EditCancel, Key, Agreement
  <2>2. Fits(Start) /\ Safe(Start) /\ Start.ok
    BY <1>0, <2>1, StartFits DEF Fits, FitsIn
  <2>3. QED
    BY <1>0, <1>11, <2>1, <2>2, CommitStringFits, ToPrecompositionFits, DoneAgrees
       DEF EditCancel
<1>12. CASE EditCancelAndIMEOff
  <2>1. phase # "idle" /\ (phase \in {"key", "dispatch", "test"} => ~Promoted)
    BY <1>12, PromotedFits DEF EditCancelAndIMEOff, Key, FirstCommand
  <2>2. Fits(Start) /\ Safe(Start) /\ Start.ok
    BY <1>0, <2>1, StartFits DEF Fits, FitsIn
  <2>3. Fits(SetState(ResetConverter(Start), "DIRECT"))
    <3>1. /\ Safe(ResetConverter(Start)) /\ ResetConverter(Start).ok
          /\ ResetConverter(Start).conv = "COMPOSITION"
      BY <2>2, ResetConverterShape
    <3>2. QED
      BY <1>0, <3>1, IdleSetState
  <2>4. QED
    BY <1>0, <1>12, <2>1, <2>2, <2>3, CommitStringFits, DoneAgrees DEF EditCancelAndIMEOff
<1>13. CASE Backspace
  <2> PICK left \in {FALSE, ctx.text}, r \in SuggestResults :
        LET c == [CancelLive(ctx) EXCEPT !.text = left]
        IN IF ~left THEN Done(ToPrecomposition(c), <<>>, FALSE)
           ELSE \/ Done(Suggest(c, r), <<>>, FALSE)
                \/ CanConvertLive(c) /\ Done(LiveContext(c), <<>>, TRUE)
    BY <1>13 DEF Backspace
  <2> DEFINE c == [CancelLive(ctx) EXCEPT !.text = left]
  <2>1. left \in BOOLEAN
    BY <1>0 DEF Fits, Safe, SafeIn, ImeContexts
  <2>2. Fits(CancelLive(ctx)) /\ CancelLive(ctx).state = "COMPOSITION"
    BY <1>0, <1>13, CancelLiveFits DEF Agreement, Backspace, Key
  <2>3. Fits(c) /\ c.state = "COMPOSITION" /\ Safe(c) /\ c.ok
    BY <2>1, <2>2, TextFits DEF Fits, FitsIn
  <2> HIDE DEF c
  <2>4. CASE Done(ToPrecomposition(c), <<>>, FALSE)
    BY <1>0, <2>3, <2>4, ToPrecompositionFits, DoneAgrees
  <2>5. CASE Done(Suggest(c, r), <<>>, FALSE)
    BY <1>0, <2>3, <2>5, SuggestFits, DoneAgrees
  <2>6. CASE CanConvertLive(c) /\ Done(LiveContext(c), <<>>, TRUE)
    BY <1>0, <2>3, <2>6, LiveContextFits, DoneAgrees DEF CanConvertLive
  <2>7. QED
    BY <2>4, <2>5, <2>6 DEF c
<1>14. QED
  BY <1>1, <1>2, <1>3, <1>4, <1>5, <1>6, <1>7, <1>8, <1>9, <1>10, <1>11, <1>12, <1>13,
     HandleIndirectImeOnOffAgrees, InsertAgrees DEF SendKey

\* The commands that only clients send.
LEMMA SendCommandAgrees ==
  ASSUME Inv, Agreement, MaxCommands <= 2, Situations = {}, SendCommand
  PROVE  Agreement'
<1>0. /\ Env /\ Fits(ctx) /\ FitsUndo(domain, <<>>) /\ FitsUndo(domain, undo)
      /\ SafeUndo(domain, undo) /\ live \in BOOLEAN /\ Safe(ctx) /\ ctx.ok
      /\ phase = "command" /\ phase \notin {"key", "dispatch", "test"}
  BY EmptyUndoFits DEF Inv, Env, Agreement, Fits, FitsIn, SendCommand, Command,
     InertCommand, MakeSureIMEOn, SelectCandidate, CommitCandidate, ConvertReverse, Undo,
     ResetContext, SwitchInputFieldType, EchoBackCommand, EditCommand, CommitRawText,
     UpdateComposition, ApplyDelayedLiveConversion, RequestNextWordPrediction
<1>1. CASE InertCommand
  BY <1>0, <1>1, DoNothingFits, DoneAgrees DEF InertCommand
<1>2. CASE MakeSureIMEOn
  BY <1>0, <1>2, SetStateFits, DoneAgrees DEF MakeSureIMEOn, Command
<1>3. CASE SelectCandidate
  BY <1>0, <1>3, CandidateMoveToIdFits, DoneAgrees DEF SelectCandidate
<1>4. CASE CommitCandidate
  <2>1. ctx.conv \in Active /\ FitsUndo(domain, PushUndo(undo, ctx))
    BY <1>0, <1>4, PushUndoFits DEF CommitCandidate
  <2>2. CASE ctx.state = "CONVERSION"
    <3>1. PICK r \in SuggestResults, some \in BOOLEAN, isCommand \in BOOLEAN :
            Done(CommitSegmentsContext(CandidateMoveToId(ctx), some, isCommand, r),
                 PushUndo(undo, ctx), live)
      BY <1>4, <2>2 DEF CommitCandidate
    <3>2. CandidateMoveToId(ctx) = ctx
      BY <1>0, <2>1, <2>2, CandidateMoveToIdFits
    <3>3. Fits(CommitSegmentsContext(ctx, some, isCommand, r))
      BY <1>0, <2>2, CommitSegmentsContextFits
    <3>4. QED
      BY <1>0, <2>1, <3>1, <3>2, <3>3, DoneAgrees
  <2>3. CASE ctx.state # "CONVERSION"
    <3>1. PICK r \in SuggestResults,
               how \in {"refused", "partial", "cancelled", "committed"} :
            LET c == CommitSuggestion(ctx, how)
            IN \/ Done(CommitString(c, r), PushUndo(undo, ctx), live)
               \/ Done(Suggest(c, r), PushUndo(undo, ctx), live)
               \/ Done(c, PushUndo(undo, ctx), live)
               \/ Done(ZeroQuerySuggest(SetState(c, "PRECOMPOSITION"), r),
                       PushUndo(undo, ctx), live)
      BY <1>4, <2>3 DEF CommitCandidate
    <3> DEFINE c == CommitSuggestion(ctx, how)
    <3>2. Fits(c) /\ c.state # "CONVERSION"
      BY <1>0, <2>1, <2>3, CommitSuggestionFits
    <3> HIDE DEF c
    <3>3. Fits(SetState(c, "PRECOMPOSITION")) /\ SetState(c, "PRECOMPOSITION").state # "CONVERSION"
      BY <1>0, <3>2, SetStateFits
    <3>4. Fits(ZeroQuerySuggest(SetState(c, "PRECOMPOSITION"), r))
      BY <3>3, SuggestFits
    <3>5. Fits(CommitString(c, r)) /\ Fits(Suggest(c, r))
      BY <1>0, <3>2, CommitStringFits, SuggestFits
    <3>6. QED
      BY <1>0, <2>1, <3>1, <3>2, <3>4, <3>5, DoneAgrees DEF c
  <2>4. QED
    BY <2>2, <2>3
<1>5. CASE ConvertReverse
  <2> DEFINE c == [ctx EXCEPT !.text = TRUE]
  <2>1. ctx.conv \in {"COMPOSITION", "SUGGESTION"}
    BY <1>0, <1>5 DEF ConvertReverse, Command, Fits, FitsIn, Focused, Safe, SafeIn,
       ImeContexts, ConverterStates
  <2>2. Safe(c) /\ c.ok /\ c.text /\ c.conv \in {"COMPOSITION", "SUGGESTION"}
    BY <1>0, <2>1, TextSafe DEF Safe, SafeIn, ImeContexts
  <2> HIDE DEF c
  <2>3. Fits(SetState(EngineConvert(c), "CONVERSION"))
    BY <1>0, <2>2, TextConverts
  <2>4. QED
    BY <1>0, <1>5, <2>3, DoneAgrees DEF ConvertReverse, c
<1>6. CASE Undo
  <2>1. undo \in Seq(ImeContexts) /\ Len(undo) \in Nat \ {0}
    BY <1>0, <1>6 DEF Undo, SafeUndo
  <2>2. Fits(undo[Len(undo)])
    BY <1>0, <2>1 DEF SafeUndo, FitsUndo, Safe, Fits
  <2>3. FitsUndo(domain, SubSeq(undo, 1, Len(undo) - 1))
    BY <1>0, <2>1 DEF FitsUndo
  <2>4. Fits(DoNothing(EndComposition(ctx)))
    <3>1. Fits(EndComposition(ctx))
      BY <1>0, EndCompositionSafe DEF EndComposition, Fits, FitsIn, Safe, SafeIn, ImeContexts
    <3>2. QED
      BY <3>1, DoNothingFits
  <2>5. QED
    BY <1>0, <1>6, <2>2, <2>3, <2>4, DoneAgrees DEF Undo
<1>7. CASE ResetContext
  <2>1. /\ Safe(ResetConverter(ctx)) /\ ResetConverter(ctx).ok
        /\ ResetConverter(ctx).conv = "COMPOSITION" /\ ResetConverter(ctx).state = ctx.state
    BY <1>0, ResetConverterShape
  <2>2. Fits(ToPrecomposition(ResetConverter(ctx)))
    BY <1>0, <2>1, ToPrecompositionFits
  <2>3. ctx.state = "PRECOMPOSITION" => Fits(ResetConverter(ctx))
    BY <2>1, IdleFits
  <2>4. QED
    BY <1>0, <1>7, <2>2, <2>3, DoneAgrees DEF ResetContext
<1>8. CASE SwitchInputFieldType
  <2> DEFINE s == (wire.field = "PASSWORD")
             f == IF wire.field = "none" THEN "NORMAL" ELSE wire.field
             c == [SetSecureInput(ctx, s) EXCEPT !.field = f]
  <2>1. ClientSafe(domain, wire)
    BY <1>0 DEF Inv
  <2>2. (IsSecure => s) /\ (IsSecure => f = "PASSWORD") /\ f \in {"NORMAL", "PASSWORD"}
    BY <2>1 DEF ClientSafe, IsSecure, Contexts
  <2>3. Safe(SetSecureInput(ctx, s))
    BY <1>0, <2>2, SetSecureInputSafe
  <2>4. Safe(c) /\ c.ok = ctx.ok /\ c.state = ctx.state /\ c.conv = ctx.conv
        /\ c.text = ctx.text
    <3> DEFINE b == SetSecureInput(ctx, s)
    <3> HIDE DEF f, s
    <3>1. b.ok = ctx.ok /\ b.state = ctx.state /\ b.conv = ctx.conv /\ b.text = ctx.text
      BY <1>0 DEF Safe, SafeIn, ImeContexts, SetSecureInput, PurgeRegistry
    <3> HIDE DEF b
    <3>2. Safe([b EXCEPT !.field = f])
      BY <2>2, <2>3 DEF Safe, SafeIn, ImeContexts, IsSecure, b
    <3>3. LET e == [b EXCEPT !.field = f]
          IN e.ok = b.ok /\ e.state = b.state /\ e.conv = b.conv /\ e.text = b.text
      BY <2>3 DEF Safe, SafeIn, ImeContexts, b
    <3>4. QED
      BY <3>1, <3>2, <3>3 DEF b
  <2> HIDE DEF c
  <2>5. Fits(c)
    BY <1>0, <2>4 DEF Fits, FitsIn
  <2>6. QED
    BY <1>0, <1>8, <2>5, DoneAgrees DEF SwitchInputFieldType, c
<1>9. CASE EchoBackCommand
  <2>1. ctx.state # "CONVERSION"
    BY <1>9 DEF EchoBackCommand
  <2>2. QED
    BY <1>0, <1>9, <2>1, ResetConverterFits, DoneAgrees DEF EchoBackCommand, EchoBack
<1>10. CASE EditCommand
  BY <1>0, <1>10, SuggestFits, DoneAgrees DEF EditCommand, Command
<1>11. CASE CommitRawText
  BY <1>0, <1>11, CommitStringFits, DoneAgrees DEF CommitRawText
<1>12. CASE UpdateComposition
  <2>1. CASE Command({"DIRECT"}) /\ Done(EchoBack(ctx), <<>>, live)
    BY <1>0, <2>1, ResetConverterFits, DoneAgrees DEF EchoBack, Command
  <2>2. CASE /\ Command({"PRECOMPOSITION", "COMPOSITION"})
             /\ \E text \in BOOLEAN, r \in SuggestResults :
                  Done(Suggest(SetState([ctx EXCEPT !.text = text], "COMPOSITION"), r),
                       <<>>, live)
    <3> PICK text \in BOOLEAN, r \in SuggestResults :
          Done(Suggest(SetState([ctx EXCEPT !.text = text], "COMPOSITION"), r), <<>>, live)
      BY <2>2
    <3> DEFINE c == [ctx EXCEPT !.text = text]
    <3>1. Fits(c) /\ c.state # "CONVERSION"
      BY <1>0, <2>2, TextFits DEF Command
    <3> HIDE DEF c
    <3>2. Fits(SetState(c, "COMPOSITION")) /\ SetState(c, "COMPOSITION").state # "CONVERSION"
      BY <1>0, <3>1, SetStateFits
    <3>3. Fits(Suggest(SetState(c, "COMPOSITION"), r))
      BY <3>2, SuggestFits
    <3>4. QED
      BY <1>0, <3>3, DoneAgrees DEF c
  <2>3. QED
    BY <1>12, <2>1, <2>2 DEF UpdateComposition
<1>13. CASE ApplyDelayedLiveConversion
  BY <1>0, <1>13, LiveContextFits, DoneAgrees DEF ApplyDelayedLiveConversion, CanConvertLive
<1>14. CASE RequestNextWordPrediction
  <2>1. ~IsSecure /\ ctx.state # "CONVERSION"
    BY <1>14 DEF RequestNextWordPrediction, Editing
  <2> DEFINE c == ResetConverter(ctx)
  <2>2. Fits(c) /\ c.state # "CONVERSION"
    BY <1>0, <2>1, ResetConverterFits
  <2> HIDE DEF c
  <2>3. \A found \in BOOLEAN :
          EngineSuggest(c, found) = Suggest(c, IF found THEN "some" ELSE "none")
    BY <2>1 DEF Suggest
  <2>4. \A found \in BOOLEAN : Fits(EngineSuggest(c, found))
    BY <2>2, <2>3, SuggestFits
  <2>5. QED
    BY <1>0, <1>14, <2>4, DoneAgrees DEF RequestNextWordPrediction, c
<1>15. QED
  BY <1>1, <1>2, <1>3, <1>4, <1>5, <1>6, <1>7, <1>8, <1>9, <1>10, <1>11, <1>12,
     <1>13, <1>14 DEF SendCommand

\* The handlers that keys and clients share.
LEMMA SharedAgrees ==
  ASSUME Inv, Agreement, MaxCommands <= 2, Situations = {}, Shared
  PROVE  Agreement'
<1>0. /\ Env /\ Fits(ctx) /\ FitsUndo(domain, <<>>) /\ FitsUndo(domain, undo)
      /\ SafeUndo(domain, undo) /\ SafeUndo(domain, <<>>) /\ live \in BOOLEAN
      /\ Promoted \in BOOLEAN /\ (Promoted => live)
      /\ phase \in {"command", "key", "dispatch", "sequence"} /\ phase # "test"
      /\ live => ctx.state = "CONVERSION"
  BY EmptyUndoFits, EmptyUndoSafe, FlagsBoolean DEF Inv, Env, Agreement, Promoted, Shared,
     Key, Command, CompositionMode, IMEOff, Commit, MoveFocus, MoveCursor, Revert,
     DeleteCandidateFromHistory
<1>1. Fits(Start) /\ Start.state = ctx.state
  BY <1>0, StartFits
<1>2. CASE CompositionMode
  <2> DEFINE c == IF ctx.state = "DIRECT" THEN SetState(ctx, "PRECOMPOSITION") ELSE Start
             l == IF Key(States) THEN Promoted ELSE live
  <2>1. Fits(c) /\ (l => c.state = "CONVERSION")
    BY <1>0, <1>1, SetStateFits
  <2>2. l \in BOOLEAN /\ (l => live) /\ Done(c, undo, l)
    BY <1>0, <1>2 DEF CompositionMode
  <2> HIDE DEF c, l
  <2>3. QED
    BY <1>0, <2>1, <2>2, DoneAgrees
<1>3. CASE IMEOff
  <2>1. PICK way \in CommitWays(ctx), r \in SuggestResults :
          Done(ImeOffContext(Start, way, r), CommitUndo(<<>>, Start, way), FALSE)
    BY <1>3 DEF IMEOff
  <2>2. Fits(ImeOffContext(Start, way, r)) /\ FitsUndo(domain, CommitUndo(<<>>, Start, way))
    BY <1>0, <1>1, ImeOffContextFits, CommitUndoFits
  <2>3. QED
    BY <2>1, <2>2, DoneAgrees
<1>4. CASE Commit
  <2>1. PICK way \in CommitWays(ctx), r \in SuggestResults :
          Done(CommitContext(ctx, way, r), CommitUndo(undo, ctx, way), FALSE)
    BY <1>4 DEF Commit
  <2>2. Fits(CommitContext(ctx, way, r)) /\ FitsUndo(domain, CommitUndo(undo, ctx, way))
    BY <1>0, CommitContextFits, CommitUndoFits
  <2>3. QED
    BY <2>1, <2>2, DoneAgrees
<1>5. CASE MoveFocus
  <2> DEFINE l == IF Key(States) THEN Promoted ELSE live
  <2>1. ctx.state = "CONVERSION" /\ ctx.conv \in Focused
    BY <1>0, <1>5 DEF MoveFocus, Key, Command, Fits, FitsIn
  <2>2. l \in BOOLEAN /\ (l => live) /\ Done(ctx, undo, l)
    BY <1>0, <1>5, <2>1 DEF MoveFocus, Requires
  <2> HIDE DEF l
  <2>3. QED
    BY <1>0, <2>1, <2>2, DoneAgrees
<1>6. CASE MoveCursor
  <2>1. ~live /\ ctx.state = "COMPOSITION"
    BY <1>0, <1>6 DEF MoveCursor, Key, Command
  <2>2. QED
    BY <1>0, <1>6, <2>1, CommitStringFits, SuggestFits, DoneAgrees DEF MoveCursor
<1>7. CASE Revert
  BY <1>0, <1>1, <1>7, RevertContextFits, DoneAgrees DEF Revert
<1>8. CASE DeleteCandidateFromHistory
  BY <1>0, <1>8, ConvertCancelContextFits, DoneAgrees DEF DeleteCandidateFromHistory
<1>9. QED
  BY <1>2, <1>3, <1>4, <1>5, <1>6, <1>7, <1>8 DEF Shared

\* TestSendKey consumes nothing; a key that would turn the IME off is not tested
\* during a composition.
LEMMA TestSendKeyAgrees ==
  ASSUME Inv, Agreement, MaxCommands <= 2, Situations = {}, TestSendKey
  PROVE  Agreement'
<1>0. /\ Env /\ Fits(ctx) /\ FitsUndo(domain, <<>>) /\ FitsUndo(domain, undo)
      /\ live \in BOOLEAN /\ (live => ctx.state = "CONVERSION")
  BY EmptyUndoFits DEF Inv, Env, Agreement
<1>1. CASE Done(DoNothing(ctx), undo, live)
  BY <1>0, <1>1, DoNothingFits, DoneAgrees
<1>2. CASE ctx.state \notin Editing
  <2>1. ctx.state # "CONVERSION"
    BY <1>2 DEF Editing
  <2>2. Fits(EchoBack(ctx)) /\ Fits(RevertContext(ctx)) /\ ~live
    BY <1>0, <2>1, ResetConverterFits, RevertContextFits DEF EchoBack
  <2>3. QED
    BY <1>0, <1>1, <2>2, DoneAgrees DEF TestSendKey
<1>3. QED
  BY <1>1, <1>2 DEF TestSendKey, Editing

\* What Receive may leave of the current context.
LEMMA PurgedContextType ==
  ASSUME NEW c \in ImeContexts, NEW secure \in BOOLEAN
  PROVE  PurgedContext(c, secure) \in ImeContexts /\ SetSecureInput(c, FALSE) \in ImeContexts
<1>1. NoContext \in Contexts
  BY DEF NoContext, Contexts
<1>2. QED
  BY <1>1, ZenonT(60) DEF PurgedContext, SetSecureInput, PurgeRegistry, ResetConverter,
     EndComposition, ImeContexts, States, ConverterStates

LEMMA ReceiveAgrees ==
  ASSUME Inv, Agreement, NEW w \in WireContexts, NEW kind \in {"command", "key", "test"},
         Receive(w, kind), Inv'
  PROVE  Agreement'
<1> DEFINE d == NextDomain(domain, w)
           purged == Purges(domain, w)
           c == IF purged THEN PurgedContext(ctx, d.secure)
                ELSE IF IsManaged(w) /\ Selects(domain, w) THEN SetSecureInput(ctx, FALSE)
                ELSE ctx
           e == [c EXCEPT !.ended = FALSE, !.learned = FALSE]
<1>1. /\ domain' = d /\ phase' = kind /\ phase = "idle"
      /\ ctx' = IF KeepsClient(d, w, c.client) THEN e
                ELSE [e EXCEPT !.client = Canonical(d, w)]
      /\ undo' = IF purged THEN <<>> ELSE undo
      /\ live' = (live /\ ~purged)
      /\ UNCHANGED steps
  BY DEF Receive
<1>2. DomainOK(domain) /\ ctx \in ImeContexts /\ Fits(ctx) /\ Safe(ctx)'
  BY DEF Inv, Agreement, Safe, SafeIn
<1>3. DomainOK(d)
  BY <1>2, NextDomainOK
<1>4. ~purged => d = domain \/ ~d.secure
  BY <1>2, WithoutPurge
<1>5. c \in ImeContexts /\ ctx'.ok = c.ok /\ ctx'.state = c.state /\ ctx'.conv = c.conv
      /\ ctx'.text = c.text
  <2>1. d.secure \in BOOLEAN
    BY <1>3 DEF DomainOK, Domains
  <2>2. c \in ImeContexts
    BY <1>2, <2>1, PurgedContextType
  <2> HIDE DEF c
  <2>3. QED
    BY <1>1, <2>2 DEF ImeContexts
<1>6. FitsIn(d, ctx')
  <2>1. CASE purged
    <3>1. c.ok = ctx.ok /\ c.conv = "COMPOSITION" /\ c.state # "CONVERSION"
      BY <1>2, <2>1 DEF PurgedContext, SetSecureInput, PurgeRegistry, ResetConverter,
         EndComposition, ImeContexts
    <3> HIDE DEF c
    <3>2. QED
      BY <1>2, <1>5, <3>1 DEF Fits, FitsIn, Focused
  <2>2. CASE ~purged
    <3>1. c.ok = ctx.ok /\ c.conv = ctx.conv /\ c.state = ctx.state /\ c.text = ctx.text
      BY <1>2, <2>2 DEF SetSecureInput, ImeContexts
    <3> HIDE DEF c, d
    <3>2. QED
      BY <1>2, <1>4, <1>5, <2>2, <3>1 DEF Fits, FitsIn
  <2>3. QED
    BY <2>1, <2>2
<1>7. FitsUndo(d, undo')
  BY <1>1, <1>4, ConstantsAssumption DEF Agreement, FitsUndo, FitsIn
<1>8. live' => ctx'.state = "CONVERSION" /\ ~IsSecure'
  <2>1. live' => live /\ ~purged
    BY <1>1
  <2>2. ~purged => c.state = ctx.state
    BY <1>2 DEF SetSecureInput, ImeContexts
  <2> HIDE DEF c, d
  <2>3. QED
    BY <1>1, <1>4, <1>5, <2>1, <2>2 DEF Agreement, IsSecure
<1>9. QED
  BY <1>1, <1>2, <1>6, <1>7, <1>8 DEF Agreement, Fits

\* The steps between commands, and stuttering.
LEMMA QuietAgrees ==
  ASSUME Inv, Agreement, Reconfigure \/ Republish \/ UNCHANGED vars
  PROVE  Agreement'
<1>1. /\ ctx' = ctx /\ live' = live /\ domain' = domain /\ steps' = steps /\ phase' = phase
      /\ undo' = undo \/ undo' = <<>>
  BY DEF Reconfigure, Republish, vars
<1>2. FitsUndo(domain, undo')
  BY <1>1, EmptyUndoFits DEF Agreement
<1>3. QED
  BY <1>1, <1>2 DEF Agreement, Fits, Safe, IsSecure

LEMMA InitAgrees == Init => Agreement
<1> SUFFICES ASSUME Init PROVE Agreement
  OBVIOUS
<1>1. Safe(ctx)
  BY InitInv DEF Inv
<1>2. ctx.ok /\ ctx.conv = "COMPOSITION" /\ ctx.state # "CONVERSION"
  BY DEF Init
<1>3. QED
  BY <1>1, <1>2, IdleFits DEF Init, Agreement, FitsUndo

\* The session's state and the converter's agree in the current context and in
\* every undo context, and no handler runs into a DCHECK of EngineConverter
\* (EngineConverter::CheckState), for keys bound to at most two commands and
\* clients that stay with the desktop's routine.
THEOREM StatesAlwaysAgree ==
  ASSUME MaxCommands <= 2, Situations = {}
  PROVE  Spec => []StatesAgree
<1>1. Inv /\ Agreement /\ Inv' /\ [Next]_vars => Agreement'
  <2> SUFFICES ASSUME Inv, Agreement, Inv', [Next]_vars PROVE Agreement'
    OBVIOUS
  <2>1. ASSUME NEW w \in WireContexts, NEW kind \in {"command", "key", "test"},
               Receive(w, kind)
        PROVE  Agreement'
    BY <2>1, ReceiveAgrees
  <2>2. CASE SendKey
    BY <2>2, SendKeyAgrees
  <2>3. CASE SendCommand
    BY <2>3, SendCommandAgrees
  <2>4. CASE Shared
    BY <2>4, SharedAgrees
  <2>5. CASE TestSendKey
    BY <2>5, TestSendKeyAgrees
  <2>6. QED
    BY <2>1, <2>2, <2>3, <2>4, <2>5, QuietAgrees DEF Next, Shared
<1>2. Agreement => StatesAgree
  BY DEF Agreement, StatesAgree, Held, Fits, FitsIn, FitsUndo
<1>3. QED
  BY <1>1, <1>2, InitAgrees, Invariance, PTL DEF Spec

-----------------------------------------------------------------------------
(* One dictionary per composition.  Every operator that a handler applies to *)
(* a context keeps the pin, or drops it, or has ended the composition.      *)

\* A context that a handler may reach from a composition with the pin p.
Keeps(p, c) ==
  Safe(c) /\ (c.ended \/ (c.state \in Editing /\ c.pinned \in {Null, p}))

LEMMA RequiresKeeps ==
  ASSUME NEW p, NEW c, NEW s, NEW d, Keeps(p, c), Keeps(p, d)
  PROVE  Keeps(p, Requires(c, s, d))
<1>1. Keeps(p, [c EXCEPT !.ok = FALSE])
  BY DEF Keeps, Safe, SafeIn, ImeContexts
<1>2. QED
  BY <1>1 DEF Requires

LEMMA ConvKeeps ==
  ASSUME NEW p, NEW c, NEW s \in ConverterStates, Keeps(p, c)
  PROVE  Keeps(p, [c EXCEPT !.conv = s])
BY DEF Keeps, Safe, SafeIn, ImeContexts

LEMMA TextKeeps ==
  ASSUME NEW p, NEW c, NEW t \in BOOLEAN, Keeps(p, c)
  PROVE  Keeps(p, [c EXCEPT !.text = t])
BY DEF Keeps, Safe, SafeIn, ImeContexts

LEMMA EndCompositionKeeps ==
  ASSUME NEW p, NEW c, Safe(c)
  PROVE  Keeps(p, EndComposition(c)) /\ Keeps(p, ResetConverter(c))
         /\ Keeps(p, FinishConversion(c))
BY EndCompositionSafe, ResetConverterSafe, FinishConversionSafe, ZenonT(60)
   DEF Keeps, EndComposition, ResetConverter, FinishConversion, Safe, SafeIn, ImeContexts

LEMMA CancelConverterKeeps ==
  ASSUME NEW p, NEW c, Keeps(p, c)
  PROVE  Keeps(p, CancelConverter(c))
BY RequiresKeeps, ConvKeeps DEF CancelConverter, ConverterStates

LEMMA EngineConvertKeeps ==
  ASSUME NEW p, NEW c, Keeps(p, c)
  PROVE  Keeps(p, EngineConvert(c))
BY RequiresKeeps, ConvKeeps DEF EngineConvert, ConverterStates

LEMMA EngineSuggestKeeps ==
  ASSUME NEW p, NEW c, NEW found, Keeps(p, c)
  PROVE  Keeps(p, EngineSuggest(c, found))
BY RequiresKeeps, ConvKeeps DEF EngineSuggest, ConverterStates

LEMMA EnginePredictKeeps ==
  ASSUME NEW p, NEW c, NEW found, Keeps(p, c)
  PROVE  Keeps(p, EnginePredict(c, found))
BY ConvKeeps DEF EnginePredict, ConverterStates

LEMMA CandidateMoveToIdKeeps ==
  ASSUME NEW p, NEW c, Keeps(p, c)
  PROVE  Keeps(p, CandidateMoveToId(c))
BY RequiresKeeps, EnginePredictKeeps DEF CandidateMoveToId

LEMMA EngineCommitKeeps ==
  ASSUME NEW p, NEW c, NEW isCommand, Keeps(p, c)
  PROVE  Keeps(p, EngineCommit(c, isCommand))
<1>1. Keeps(p, [c EXCEPT !.conv = "COMPOSITION"]) /\ Keeps(p, FinishConversion(c))
  BY ConvKeeps, EndCompositionKeeps DEF Keeps, ConverterStates
<1>2. QED
  BY <1>1, RequiresKeeps DEF EngineCommit

LEMMA CommitSuggestionKeeps ==
  ASSUME NEW p, NEW c, NEW how \in {"refused", "partial", "cancelled", "committed"},
         Keeps(p, c)
  PROVE  Keeps(p, CommitSuggestion(c, how))
<1>1. Keeps(p, [c EXCEPT !.conv = "COMPOSITION"]) /\ Keeps(p, FinishConversion(c))
  BY ConvKeeps, EndCompositionKeeps DEF Keeps, ConverterStates
<1>2. QED
  BY <1>1, RequiresKeeps DEF CommitSuggestion

LEMMA EngineTransliterateKeeps ==
  ASSUME NEW p, NEW c, Keeps(p, c)
  PROVE  Keeps(p, EngineTransliterate(c))
BY EngineConvertKeeps, CancelConverterKeeps DEF EngineTransliterate

\* The one operator that pins a dictionary does so when PRECOMPOSITION becomes
\* COMPOSITION, which a composition reaches only through its end.
LEMMA SetStateKeeps ==
  ASSUME NEW p, NEW c, NEW s \in States, Keeps(p, c), Env
  PROVE  Keeps(p, SetState(c, s))
<1>0. Safe(c) /\ Safe(SetState(c, s))
  BY SetStateSafe DEF Keeps
<1>1. CASE s \in {"DIRECT", "PRECOMPOSITION"}
  <2>1. SetState(c, s).ended
    BY <1>0, <1>1 DEF SetState, EndComposition, Keeps, Safe, SafeIn, ImeContexts
  <2>2. QED
    BY <1>0, <2>1 DEF Keeps
<1>2. CASE s = "COMPOSITION" /\ c.state = "PRECOMPOSITION"
  <2> DEFINE b == [c EXCEPT !.state = s]
  <2>1. Safe(b) /\ b.ended
    BY <1>0, <1>2 DEF Keeps, Safe, SafeIn, ImeContexts, Editing
  <2>2. SetState(c, s) = OnStartComposition(b)
    BY <1>2 DEF SetState
  <2> HIDE DEF b
  <2>3. SetState(c, s).ended
    BY <2>1, <2>2, OnStartCompositionShape
  <2>4. QED
    BY <1>0, <2>3 DEF Keeps
<1>3. CASE s \in Editing /\ ~(s = "COMPOSITION" /\ c.state = "PRECOMPOSITION")
  BY <1>0, <1>3 DEF SetState, Keeps, Editing, Safe, SafeIn, ImeContexts
<1>4. QED
  BY <1>1, <1>2, <1>3 DEF States, Editing

LEMMA ToPrecompositionKeeps ==
  ASSUME NEW p, NEW c, Keeps(p, c), Env
  PROVE  Keeps(p, ToPrecomposition(c))
BY SetStateKeeps, CancelConverterKeeps DEF ToPrecomposition, States

LEMMA SuggestKeeps ==
  ASSUME NEW p, NEW c, NEW r, Keeps(p, c)
  PROVE  Keeps(p, Suggest(c, r)) /\ Keeps(p, ZeroQuerySuggest(c, r))
BY EngineSuggestKeeps DEF Suggest, ZeroQuerySuggest

LEMMA DoNothingKeeps ==
  ASSUME NEW p, NEW c, Keeps(p, c)
  PROVE  Keeps(p, DoNothing(c)) /\ Keeps(p, EchoBack(c)) /\ Keeps(p, ResetConverter(c))
BY EndCompositionKeeps DEF DoNothing, EchoBack, Keeps

LEMMA CommitStringKeeps ==
  ASSUME NEW p, NEW c, NEW r, Keeps(p, c), Env
  PROVE  Keeps(p, CommitString(c, r))
BY SuggestKeeps, SetStateKeeps, DoNothingKeeps DEF CommitString, States

LEMMA CommitInternalKeeps ==
  ASSUME NEW p, NEW c, NEW way, NEW zeroQuery, NEW r, Keeps(p, c), Env
  PROVE  Keeps(p, CommitInternal(c, way, zeroQuery, r))
<1> DEFINE b == IF c.state = "COMPOSITION" THEN CommitPreedit(c)
                ELSE EngineCommit(c, way = "command")
           d == SetState(b, "PRECOMPOSITION")
<1>1. Keeps(p, b)
  BY EndCompositionKeeps, EngineCommitKeeps DEF CommitPreedit, Keeps
<1>2. Keeps(p, d)
  <2> HIDE DEF b
  <2>1. QED
    BY <1>1, SetStateKeeps DEF States
<1> HIDE DEF d
<1>3. Keeps(p, IF zeroQuery THEN Suggest(d, r) ELSE d)
  BY <1>2, SuggestKeeps
<1>4. Keeps(p, DoNothing(c)) /\ Keeps(p, CommitString(c, r))
  BY DoNothingKeeps, CommitStringKeeps
<1>5. QED
  BY <1>3, <1>4 DEF CommitInternal, d

LEMMA CommitContextKeeps ==
  ASSUME NEW p, NEW c, NEW way, NEW r, Keeps(p, c), Env
  PROVE  Keeps(p, CommitContext(c, way, r)) /\ Keeps(p, ImeOffContext(c, way, r))
<1>1. Keeps(p, CommitContext(c, way, r))
  BY CommitStringKeeps, CommitInternalKeeps DEF CommitContext
<1>2. QED
  BY <1>1, DoNothingKeeps, SetStateKeeps DEF ImeOffContext, States

LEMMA ConvertContextKeeps ==
  ASSUME NEW p, NEW c, Keeps(p, c), Env
  PROVE  Keeps(p, ConvertContext(c)) /\ Keeps(p, LiveContext(c))
BY DoNothingKeeps, EngineConvertKeeps, SetStateKeeps DEF ConvertContext, LiveContext, States

LEMMA ConvertCancelContextKeeps ==
  ASSUME NEW p, NEW c, NEW r, Keeps(p, c), Env
  PROVE  Keeps(p, CancelLive(c)) /\ Keeps(p, ConvertCancelContext(c, r))
         /\ Keeps(p, CancelConverter(SetState(c, "COMPOSITION")))
<1>1. Keeps(p, CancelConverter(SetState(c, "COMPOSITION")))
  BY CancelConverterKeeps, SetStateKeeps DEF States
<1>2. QED
  BY <1>1, SuggestKeeps DEF CancelLive, ConvertCancelContext

LEMMA RevertContextKeeps ==
  ASSUME NEW p, NEW c, Keeps(p, c), Env
  PROVE  Keeps(p, RevertContext(c))
<1>1. Keeps(p, EchoBack(EndComposition(c)))
  BY EndCompositionKeeps, DoNothingKeeps DEF Keeps
<1>2. QED
  BY <1>1, DoNothingKeeps, ToPrecompositionKeeps DEF RevertContext

LEMMA PredictContextKeeps ==
  ASSUME NEW p, NEW c, NEW found, Keeps(p, c), Env
  PROVE  Keeps(p, PredictContext(c, found))
BY EnginePredictKeeps, SetStateKeeps DEF PredictContext, States

LEMMA CommitSegmentsContextKeeps ==
  ASSUME NEW p, NEW c, NEW some, NEW isCommand, NEW r, Keeps(p, c), Env
  PROVE  Keeps(p, CommitSegmentsContext(c, some, isCommand, r))
<1>1. Keeps(p, CommitSegments(c, some, isCommand))
  BY EngineCommitKeeps DEF CommitSegments
<1>2. QED
  BY <1>1, SuggestKeeps, SetStateKeeps DEF CommitSegmentsContext, States

-----------------------------------------------------------------------------
\* What a step does to the pin.
OnePin ==
  ctx.pinned # Null /\ ctx'.pinned # Null /\ ctx'.pinned # ctx.pinned
    => ctx'.ended \/ Len(undo') < Len(undo)

\* A handler that ends with a context reached from the composition.
LEMMA DoneKeeps ==
  ASSUME NEW c, NEW u, NEW l, Keeps(ctx.pinned, c), Done(c, u, l)
  PROVE  OnePin
BY DEF Done, Keeps, OnePin

LEMMA CtxKeeps ==
  ASSUME Inv, phase # "idle", ctx.pinned # Null
  PROVE  Keeps(ctx.pinned, ctx) /\ Keeps(ctx.pinned, Start)
BY StartSafe DEF Inv, Keeps, Start, Safe, SafeIn, ImeContexts

LEMMA InsertedKeeps ==
  ASSUME Inv, Env, phase # "idle", ctx.pinned # Null, NEW r, NEW d \in Inserted(r)
  PROVE  Keeps(ctx.pinned, d)
<1> DEFINE c == CancelLive(Start)
<1>1. Keeps(ctx.pinned, c)
  BY CtxKeeps, ConvertCancelContextKeeps
<1> HIDE DEF c
<1>2. \A way : Keeps(ctx.pinned, CommitInternal(c, way, FALSE, r))
  BY <1>1, CommitInternalKeeps
<1>3. PICK e : Keeps(ctx.pinned, e) /\ d = [e EXCEPT !.text = TRUE]
  BY <1>1, <1>2 DEF Inserted, c
<1>4. QED
  BY <1>3, TextKeeps

LEMMA SendKeyKeeps ==
  ASSUME Inv, SendKey, ctx.pinned # Null
  PROVE  OnePin
<1> DEFINE p == ctx.pinned
<1>0. Inv /\ Env /\ phase # "idle" /\ Keeps(p, ctx) /\ Keeps(p, Start)
  <2>1. phase # "idle"
    BY DEF SendKey, HandleIndirectImeOnOff, EchoBackKey, InertKey, IMEOn, InsertDirectly,
       InsertAfterLiveConversion, InsertAndCommit, InsertAndCommitHead, InsertAndCompose,
       CommitFirstSuggestion, CommitSegment, Convert, PredictAndConvert,
       PredictAndConvertFromLiveConversion, Transliterate, ConvertCancel, EditCancel,
       EditCancelAndIMEOff, Backspace, Key
  <2>2. QED
    BY <2>1, CtxKeeps DEF Inv, Env
<1>1. CASE HandleIndirectImeOnOff
  <2>1. Keeps(p, ctx')
    BY <1>0, <1>1, SetStateKeeps, CommitContextKeeps DEF HandleIndirectImeOnOff, States
  <2>2. QED
    BY <2>1 DEF Keeps, OnePin
<1>2. CASE EchoBackKey \/ InertKey \/ IMEOn
  BY <1>0, <1>2, DoNothingKeeps, SetStateKeeps, DoneKeeps DEF EchoBackKey, InertKey, IMEOn,
     States
<1>3. CASE InsertDirectly
  <2>1. PICK r \in SuggestResults, c \in {Start, ResetConverter(Start)} :
          Done(CommitString([c EXCEPT !.text = TRUE], r), <<>>, live)
    BY <1>3 DEF InsertDirectly
  <2>2. Keeps(p, [c EXCEPT !.text = TRUE])
    BY <1>0, DoNothingKeeps, TextKeeps
  <2>3. QED
    BY <1>0, <2>1, <2>2, CommitStringKeeps, DoneKeeps
<1>4. CASE InsertAfterLiveConversion
  <2>1. PICK r \in SuggestResults :
          Done(SetState([CommitString(ctx, r) EXCEPT !.text = TRUE], "COMPOSITION"),
               <<>>, FALSE)
    BY <1>4 DEF InsertAfterLiveConversion
  <2>2. Keeps(p, [CommitString(ctx, r) EXCEPT !.text = TRUE])
    BY <1>0, CommitStringKeeps, TextKeeps
  <2>3. QED
    BY <1>0, <2>1, <2>2, SetStateKeeps, DoneKeeps DEF States
<1>5. CASE InsertAndCommit \/ InsertAndCommitHead
  BY <1>0, <1>5, InsertedKeeps, CommitStringKeeps, DoneKeeps DEF InsertAndCommit,
     InsertAndCommitHead
<1>6. CASE InsertAndCompose
  <2>1. PICK r \in SuggestResults : \E c \in Inserted(r) :
          LET d == SetState(c, "COMPOSITION")
          IN \/ Done(Suggest(d, r), <<>>, FALSE)
             \/ Done(ConvertContext(d), <<>>, FALSE)
             \/ Done(LiveContext(d), <<>>, TRUE)
    BY <1>6 DEF InsertAndCompose
  <2> PICK c \in Inserted(r) :
        LET d == SetState(c, "COMPOSITION")
        IN \/ Done(Suggest(d, r), <<>>, FALSE)
           \/ Done(ConvertContext(d), <<>>, FALSE)
           \/ Done(LiveContext(d), <<>>, TRUE)
    BY <2>1
  <2>2. Keeps(p, SetState(c, "COMPOSITION"))
    BY <1>0, InsertedKeeps, SetStateKeeps DEF States
  <2>3. QED
    BY <1>0, <2>2, SuggestKeeps, ConvertContextKeeps, DoneKeeps
<1>7. CASE CommitFirstSuggestion
  <2>1. \A how \in {"cancelled", "partial", "committed"} : Keeps(p, CommitSuggestion(Start, how))
    BY <1>0, CommitSuggestionKeeps
  <2>2. QED
    BY <1>0, <1>7, <2>1, SetStateKeeps, SuggestKeeps, DoneKeeps DEF CommitFirstSuggestion,
       States
<1>8. CASE CommitSegment
  BY <1>0, <1>8, CommitSegmentsContextKeeps, DoneKeeps DEF CommitSegment
<1>9. CASE Convert
  <2>1. \A left \in BOOLEAN : Keeps(p, [ctx EXCEPT !.text = left])
    BY <1>0, TextKeeps
  <2>2. QED
    BY <1>0, <1>9, <2>1, ConvertContextKeeps, DoneKeeps DEF Convert
<1>10. CASE PredictAndConvert
  BY <1>0, <1>10, PredictContextKeeps, DoneKeeps DEF PredictAndConvert
<1>11. CASE PredictAndConvertFromLiveConversion
  <2>1. Keeps(p, CancelConverter(SetState(ctx, "COMPOSITION")))
    BY <1>0, ConvertCancelContextKeeps
  <2>2. QED
    BY <1>0, <1>11, <2>1, PredictContextKeeps, DoneKeeps
       DEF PredictAndConvertFromLiveConversion
<1>12. CASE Transliterate
  BY <1>0, <1>12, EngineTransliterateKeeps, SetStateKeeps, DoneKeeps DEF Transliterate, States
<1>13. CASE ConvertCancel
  BY <1>0, <1>13, ConvertCancelContextKeeps, DoneKeeps DEF ConvertCancel
<1>14. CASE EditCancel
  BY <1>0, <1>14, CommitStringKeeps, ToPrecompositionKeeps, DoneKeeps DEF EditCancel
<1>15. CASE EditCancelAndIMEOff
  BY <1>0, <1>15, CommitStringKeeps, DoNothingKeeps, SetStateKeeps, DoneKeeps
     DEF EditCancelAndIMEOff, States
<1>16. CASE Backspace
  <2>1. PICK left \in {FALSE, ctx.text}, r \in SuggestResults :
          LET c == [CancelLive(ctx) EXCEPT !.text = left]
          IN \/ Done(ToPrecomposition(c), <<>>, FALSE)
             \/ Done(Suggest(c, r), <<>>, FALSE)
             \/ Done(LiveContext(c), <<>>, TRUE)
    BY <1>16 DEF Backspace
  <2>2. Keeps(p, [CancelLive(ctx) EXCEPT !.text = left])
    <3>1. left \in BOOLEAN
      BY <1>0 DEF Keeps, Safe, SafeIn, ImeContexts
    <3>2. QED
      BY <1>0, <3>1, ConvertCancelContextKeeps, TextKeeps
  <2>3. QED
    BY <1>0, <2>1, <2>2, ToPrecompositionKeeps, SuggestKeeps, ConvertContextKeeps, DoneKeeps
<1>17. QED
  BY <1>1, <1>2, <1>3, <1>4, <1>5, <1>6, <1>7, <1>8, <1>9, <1>10, <1>11, <1>12,
     <1>13, <1>14, <1>15, <1>16 DEF SendKey

LEMMA SendCommandKeeps ==
  ASSUME Inv, SendCommand, ctx.pinned # Null
  PROVE  OnePin
<1> DEFINE p == ctx.pinned
<1>0. Inv /\ Env /\ phase # "idle" /\ Keeps(p, ctx) /\ SafeUndo(domain, undo)
  <2>1. phase # "idle"
    BY DEF SendCommand, Command, InertCommand, MakeSureIMEOn, SelectCandidate,
       CommitCandidate, ConvertReverse, Undo, ResetContext, SwitchInputFieldType,
       EchoBackCommand, EditCommand, CommitRawText, UpdateComposition,
       ApplyDelayedLiveConversion, RequestNextWordPrediction
  <2>2. QED
    BY <2>1, CtxKeeps DEF Inv, Env
<1>1. CASE InertCommand \/ MakeSureIMEOn \/ EchoBackCommand
  BY <1>0, <1>1, DoNothingKeeps, SetStateKeeps, DoneKeeps DEF InertCommand, MakeSureIMEOn,
     EchoBackCommand, States
<1>2. CASE SelectCandidate
  BY <1>0, <1>2, CandidateMoveToIdKeeps, SetStateKeeps, DoneKeeps DEF SelectCandidate, States
<1>3. CASE CommitCandidate
  <2>1. \A how \in {"refused", "partial", "cancelled", "committed"} :
          Keeps(p, CommitSuggestion(ctx, how))
    BY <1>0, CommitSuggestionKeeps
  <2>2. QED
    BY <1>0, <1>3, <2>1, CandidateMoveToIdKeeps, CommitSegmentsContextKeeps,
       CommitStringKeeps, SuggestKeeps, SetStateKeeps, DoneKeeps DEF CommitCandidate, States
<1>4. CASE ConvertReverse
  <2>1. Keeps(p, [ctx EXCEPT !.text = TRUE])
    BY <1>0, TextKeeps
  <2>2. QED
    BY <1>0, <1>4, <2>1, EngineConvertKeeps, SetStateKeeps, DoneKeeps DEF ConvertReverse,
       States
<1>5. CASE Undo
  <2>1. undo \in Seq(ImeContexts) /\ Len(undo) \in Nat \ {0}
    BY <1>0, <1>5 DEF Undo, SafeUndo
  <2>2. Len(SubSeq(undo, 1, Len(undo) - 1)) < Len(undo)
    BY <2>1
  <2>3. Keeps(p, DoNothing(EndComposition(ctx)))
    BY <1>0, EndCompositionKeeps, DoNothingKeeps DEF Keeps
  <2>4. CASE Done(DoNothing(EndComposition(ctx)), undo, live)
    BY <2>3, <2>4, DoneKeeps
  <2>5. CASE Done(undo[Len(undo)], SubSeq(undo, 1, Len(undo) - 1), live)
    BY <2>2, <2>5 DEF Done, OnePin
  <2>6. QED
    BY <1>5, <2>4, <2>5 DEF Undo
<1>6. CASE ResetContext
  BY <1>0, <1>6, DoNothingKeeps, ToPrecompositionKeeps, DoneKeeps DEF ResetContext
<1>7. CASE SwitchInputFieldType
  <2>1. ctx'.pinned \in {Null, ctx.pinned}
    BY <1>0, <1>7 DEF SwitchInputFieldType, Done, SetSecureInput, PurgeRegistry, Keeps, Safe,
       SafeIn, ImeContexts
  <2>2. QED
    BY <2>1 DEF OnePin
<1>8. CASE EditCommand \/ CommitRawText
  BY <1>0, <1>8, SuggestKeeps, CommitStringKeeps, DoneKeeps DEF EditCommand, CommitRawText
<1>9. CASE UpdateComposition
  <2>1. \A text \in BOOLEAN : Keeps(p, SetState([ctx EXCEPT !.text = text], "COMPOSITION"))
    BY <1>0, TextKeeps, SetStateKeeps DEF States
  <2>2. QED
    BY <1>0, <1>9, <2>1, SuggestKeeps, DoNothingKeeps, DoneKeeps DEF UpdateComposition
<1>10. CASE ApplyDelayedLiveConversion
  BY <1>0, <1>10, ConvertContextKeeps, DoneKeeps DEF ApplyDelayedLiveConversion
<1>11. CASE RequestNextWordPrediction
  BY <1>0, <1>11, EngineSuggestKeeps, DoNothingKeeps, DoneKeeps DEF RequestNextWordPrediction
<1>12. QED
  BY <1>1, <1>2, <1>3, <1>4, <1>5, <1>6, <1>7, <1>8, <1>9, <1>10, <1>11 DEF SendCommand

LEMMA SharedKeeps ==
  ASSUME Inv, Shared \/ TestSendKey, ctx.pinned # Null
  PROVE  OnePin
<1> DEFINE p == ctx.pinned
<1>0. Inv /\ Env /\ phase # "idle" /\ Keeps(p, ctx) /\ Keeps(p, Start)
  <2>1. phase # "idle"
    BY DEF Shared, TestSendKey, Key, Command, CompositionMode, IMEOff, Commit, MoveFocus,
       MoveCursor, Revert, DeleteCandidateFromHistory
  <2>2. QED
    BY <2>1, CtxKeeps DEF Inv, Env
<1>1. CASE CompositionMode \/ IMEOff
  BY <1>0, <1>1, SetStateKeeps, CommitContextKeeps, DoneKeeps DEF CompositionMode, IMEOff,
     States
<1>2. CASE Commit \/ MoveFocus
  BY <1>0, <1>2, CommitContextKeeps, RequiresKeeps, DoneKeeps DEF Commit, MoveFocus
<1>3. CASE MoveCursor \/ Revert
  BY <1>0, <1>3, CommitStringKeeps, SuggestKeeps, RevertContextKeeps, DoneKeeps
     DEF MoveCursor, Revert
<1>4. CASE DeleteCandidateFromHistory
  BY <1>0, <1>4, ConvertCancelContextKeeps, DoneKeeps DEF DeleteCandidateFromHistory
<1>5. CASE TestSendKey
  BY <1>0, <1>5, DoNothingKeeps, RevertContextKeeps, DoneKeeps DEF TestSendKey
<1>6. QED
  BY <1>1, <1>2, <1>3, <1>4, <1>5 DEF Shared

\* Receive keeps the pin or purges it.
LEMMA ReceiveKeeps ==
  ASSUME Inv, NEW w \in WireContexts, NEW kind, Receive(w, kind)
  PROVE  ctx'.pinned \in {Null, ctx.pinned}
<1> DEFINE d == NextDomain(domain, w)
           c == IF Purges(domain, w) THEN PurgedContext(ctx, d.secure)
                ELSE IF IsManaged(w) /\ Selects(domain, w) THEN SetSecureInput(ctx, FALSE)
                ELSE ctx
           e == [c EXCEPT !.ended = FALSE, !.learned = FALSE]
<1>1. ctx' = e \/ ctx' = [e EXCEPT !.client = Canonical(d, w)]
  BY DEF Receive
<1>2. ctx \in ImeContexts
  BY DEF Inv, Safe, SafeIn
<1>3. d.secure \in BOOLEAN
  BY NextDomainOK DEF Inv, DomainOK, Domains
<1> HIDE DEF d
<1>4. c \in ImeContexts
  BY <1>2, <1>3, PurgedContextType
<1>5. c.pinned \in {Null, ctx.pinned}
  BY <1>2 DEF PurgedContext, SetSecureInput, PurgeRegistry, ResetConverter, EndComposition,
     ImeContexts
<1> HIDE DEF c
<1>6. QED
  BY <1>1, <1>4, <1>5 DEF ImeContexts

\* While a composition lasts it is converted with one dictionary, whatever the
\* provider publishes meanwhile (ProjectDictionaryRegistry::PinForComposition);
\* only UNDO goes back to another composition.
THEOREM OneDictionary == Spec => OneDictionaryPerComposition
<1>1. Inv /\ [Next]_vars => [OnePin]_vars
  <2> SUFFICES ASSUME Inv, Next, ctx.pinned # Null PROVE OnePin
    BY DEF OnePin
  <2>1. CASE \E w \in WireContexts, kind \in {"command", "key", "test"} : Receive(w, kind)
    BY <2>1, ReceiveKeeps DEF OnePin
  <2>2. CASE SendKey \/ SendCommand \/ Shared \/ TestSendKey
    BY <2>2, SendKeyKeeps, SendCommandKeeps, SharedKeeps
  <2>3. CASE Reconfigure \/ Republish
    BY <2>3 DEF Reconfigure, Republish, OnePin
  <2>4. QED
    BY <2>1, <2>2, <2>3 DEF Next, Shared
<1>2. QED
  BY <1>1, Invariance, PTL DEF Spec, OneDictionaryPerComposition, OnePin

=============================================================================
