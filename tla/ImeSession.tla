----------------------------- MODULE ImeSession -----------------------------
(***************************************************************************)
(* One input session of the converter server (src/src/session/session.cc): *)
(* the four-state session machine, the EngineConverter it drives, the      *)
(* registry through which a composition pins a Grimodex project            *)
(* dictionary, the undo stack, and the Grimodex focus domain that every    *)
(* command updates before it is dispatched.  A command is handled in two   *)
(* steps, Receive (UpdateGrimodexContext) and one or more handlers; the    *)
(* provider may publish another dictionary between any two steps.          *)
(***************************************************************************)
EXTENDS Naturals, Sequences

CONSTANTS Programs,     \* (program, frontend) pairs a client reports
          InScope,      \* the programs that AllowsApplication accepts
          NoProgram,    \* the empty program of a domain without usable metadata
          Null,         \* no Grimodex metadata, no snapshot, no text
          Meanings, MaxSequence,   \* see SemanticPublication
          WireContexts, \* the contexts that clients attach to commands
          MaxUndo,      \* kMultipleUndoMaxSize
          MaxCommands,  \* the longest command sequence bound to a key
          ZeroQuery,    \* Request::zero_query_suggestion
          Situations    \* what clients do beyond the desktop's routine

VARIABLES generation, meaning,  \* the provider: SemanticPublication
          ctx,          \* context_: the current ImeContext
          undo,         \* undo_contexts_
          live,         \* live_conversion_active_
          domain,       \* grimodex_domain_
          wire,         \* input().context() of the command in progress
          phase,        \* how far the command in progress is
          steps         \* commands of a key's sequence already executed

Provider == INSTANCE SemanticPublication

provider == <<generation, meaning>>
vars == <<generation, meaning, ctx, undo, live, domain, wire, phase, steps>>

-----------------------------------------------------------------------------
States == {"DIRECT", "PRECOMPOSITION", "COMPOSITION", "CONVERSION"}
Editing == {"COMPOSITION", "CONVERSION"}
ConverterStates == {"COMPOSITION", "SUGGESTION", "PREDICTION", "CONVERSION"}
Active == {"SUGGESTION", "PREDICTION", "CONVERSION"}
Focused == {"PREDICTION", "CONVERSION"}

\* A focus epoch on the wire is positive; 0 stands for a missing epoch or for
\* metadata that is refused, and for what was captured outside any domain.
Epochs == Nat

\* A snapshot in a registry, with the epoch in which it got there (history).
Snapshots == [generation : Nat, meaning : Meanings, epoch : Epochs]

\* commands::Context: program is Null without Grimodex metadata; text is the
\* surrounding text, known only by the epoch it was captured in.
Contexts == [program : Programs \cup {NoProgram, Null},
             field : {"none", "NORMAL", "PASSWORD"},
             text : Epochs \cup {Null}]
Wires == [program : Programs \cup {NoProgram, Null}, epoch : Epochs,
          secure : BOOLEAN, field : {"none", "NORMAL", "PASSWORD"},
          text : BOOLEAN]

\* AllowsApplication accepts every program, no program, or certain named ones.
ASSUME ConstantsAssumption ==
  /\ \/ InScope = Programs \cup {NoProgram, Null}
     \/ InScope \subseteq Programs /\ {NoProgram, Null} \cap Programs = {}
  /\ WireContexts \subseteq Wires
  /\ Situations \subseteq {"nwp", "rewind", "testOff", "transliterate"}
  /\ Null \notin Snapshots /\ Null \notin Epochs /\ Null \notin Meanings
  /\ MaxUndo \in Nat \ {0} /\ MaxCommands \in Nat \ {0} /\ MaxSequence \in Nat
  /\ ZeroQuery \in BOOLEAN

NoContext == [program |-> Null, field |-> "none", text |-> Null]

\* ImeContext: text says whether the composer holds any.  Three histories: ok
\* turns FALSE when a DCHECK on the converter's state fails; ended and learned
\* turn TRUE when the command in progress has ended a composition, and when it
\* has called FinishConversion in secure input.
ImeContexts == [state : States, conv : ConverterStates, text : BOOLEAN,
                field : {"none", "NORMAL", "PASSWORD"}, secure : BOOLEAN,
                latest : Snapshots \cup {Null}, pinned : Snapshots \cup {Null},
                client : Contexts,
                ok : BOOLEAN, ended : BOOLEAN, learned : BOOLEAN]

Domains == [managed : BOOLEAN, program : Programs \cup {NoProgram, Null},
            epoch : Epochs, secure : BOOLEAN]

\* Session::IsGrimodexSecureInput
IsSecure == domain.managed /\ domain.secure

Init ==
  /\ Provider!PubInit
  /\ ctx \in {[state |-> s, conv |-> "COMPOSITION", text |-> FALSE,
               field |-> "NORMAL", secure |-> FALSE, latest |-> Null,
               pinned |-> Null, client |-> NoContext,
               ok |-> TRUE, ended |-> FALSE, learned |-> FALSE] :
                 s \in {"DIRECT", "PRECOMPOSITION"}}
  /\ undo = <<>>
  /\ live = FALSE
  /\ domain = [managed |-> FALSE, program |-> Null, epoch |-> 0, secure |-> FALSE]
  /\ wire = NoContext
  /\ phase = "idle"
  /\ steps = 0

-----------------------------------------------------------------------------
(* ProjectDictionaryRegistry.                                              *)

PurgeRegistry(c) == [c EXCEPT !.latest = Null, !.pinned = Null]
EndComposition(c) == [c EXCEPT !.pinned = Null, !.ended = TRUE]

SetSecureInput(c, s) ==
  IF s THEN [PurgeRegistry(c) EXCEPT !.secure = TRUE]
       ELSE [c EXCEPT !.secure = FALSE]

\* Publish of what the provider returns, and the purge that follows a refusal
\* or a cleared publication.
PublishLatest(c) ==
  IF meaning = Null THEN PurgeRegistry(c)
  ELSE IF c.latest = Null \/ c.latest.generation < generation
    THEN [c EXCEPT !.latest = [generation |-> generation, meaning |-> meaning,
                               epoch |-> domain.epoch]]
  ELSE IF c.latest.generation = generation /\ c.latest.meaning = meaning
    THEN c
  ELSE PurgeRegistry(c)

(* EngineConverter.  A call asserts the converter's state.                 *)

Requires(c, states, d) == IF c.conv \in states THEN d ELSE [c EXCEPT !.ok = FALSE]

\* Mutant: the focused application is not asked for again.
OnStartCompositionAnyApplication(c) ==
  LET a == IF c.client.field = "none" THEN c
           ELSE SetSecureInput(c, c.client.field = "PASSWORD")
      b == IF a.secure THEN a ELSE PublishLatest(a)
  IN [b EXCEPT !.pinned = IF b.secure THEN Null ELSE b.latest]

OnStartComposition(c) ==
  LET a == IF c.client.field = "none" THEN c
           ELSE SetSecureInput(c, c.client.field = "PASSWORD")
      b == IF c.client.program \notin InScope THEN PurgeRegistry(a)
           ELSE IF a.secure THEN a
           ELSE PublishLatest(a)
  IN [b EXCEPT !.pinned = IF b.secure THEN Null ELSE b.latest]

ResetConverter(c) == [EndComposition(c) EXCEPT !.conv = "COMPOSITION"]
CancelConverter(c) == Requires(c, Active, [c EXCEPT !.conv = "COMPOSITION"])

\* Only an empty composition has no conversion.
EngineConvert(c) ==
  Requires(c, {"COMPOSITION", "SUGGESTION", "CONVERSION"},
           [c EXCEPT !.conv = IF c.text THEN "CONVERSION" ELSE "COMPOSITION"])

EngineSuggest(c, found) ==
  Requires(c, {"COMPOSITION", "SUGGESTION"},
           [c EXCEPT !.conv = IF found /\ c.field # "PASSWORD"
                                THEN "SUGGESTION" ELSE "COMPOSITION"])

\* A prediction that starts from suggestions has their candidates at least.
EnginePredict(c, found) ==
  [c EXCEPT !.conv = IF found \/ c.conv # "COMPOSITION"
                       THEN "PREDICTION" ELSE "COMPOSITION"]

CandidateMoveToId(c) ==
  Requires(c, Active, IF c.conv = "SUGGESTION" THEN EnginePredict(c, TRUE) ELSE c)

FinishConversion(c) == [ResetConverter(c) EXCEPT !.learned = IsSecure]

\* Commit is a Cancel when the selected candidate is a command.
EngineCommit(c, isCommand) ==
  Requires(c, Focused,
           IF isCommand THEN [c EXCEPT !.conv = "COMPOSITION"]
                        ELSE FinishConversion(c))

\* CommitSegmentsInternal: some of several segments, or all of them.
CommitSegments(c, some, isCommand) ==
  IF some /\ c.conv = "CONVERSION" /\ ~isCommand THEN c ELSE EngineCommit(c, isCommand)

CommitPreedit(c) == FinishConversion(c)

\* CommitSuggestionInternal: refused, cancelled, committed in part, committed.
CommitSuggestion(c, how) ==
  Requires(c, {"SUGGESTION"},
           CASE how \in {"refused", "partial"} -> c
             [] how = "cancelled" -> [c EXCEPT !.conv = "COMPOSITION"]
             [] how = "committed" -> FinishConversion(c))

\* ConvertToTransliteration, ConvertToHalfWidth and SwitchKanaType.
EngineTransliterate(c) ==
  IF c.conv = "CONVERSION" THEN c
  ELSE EngineConvert(IF c.conv = "PREDICTION" THEN CancelConverter(c) ELSE c)

-----------------------------------------------------------------------------
(* Steps that several handlers share.                                      *)

\* Mutant: leaving a composition does not end it in the registry.
SetStateKeepsPin(c, state) ==
  CASE state = "COMPOSITION" /\ c.state = "PRECOMPOSITION" ->
         OnStartComposition([c EXCEPT !.state = state])
    [] state \in {"DIRECT", "PRECOMPOSITION"} ->
         [c EXCEPT !.state = state, !.text = FALSE]
    [] OTHER -> [c EXCEPT !.state = state]

\* Mutant: going back from a conversion starts the composition again.
SetStateRestarts(c, state) ==
  CASE state \in {"DIRECT", "PRECOMPOSITION"} ->
         [(IF c.state \in Editing THEN EndComposition(c) ELSE c)
            EXCEPT !.state = state, !.text = FALSE]
    [] state = "COMPOSITION" -> OnStartComposition([c EXCEPT !.state = state])
    [] OTHER -> [c EXCEPT !.state = state]

\* Session::SetSessionState
SetState(c, state) ==
  CASE state \in {"DIRECT", "PRECOMPOSITION"} ->
         [(IF c.state \in Editing THEN EndComposition(c) ELSE c)
            EXCEPT !.state = state, !.text = FALSE]
    [] state = "COMPOSITION" /\ c.state = "PRECOMPOSITION" ->
         OnStartComposition([c EXCEPT !.state = state])
    [] OTHER -> [c EXCEPT !.state = state]

\* Mutant: the converter is left as it is.
ToPrecompositionOnly(c) == SetState(c, "PRECOMPOSITION")

\* SetStateToPredompositionAndCancel
ToPrecomposition(c) ==
  LET d == SetState(c, "PRECOMPOSITION")
  IN IF d.conv = "COMPOSITION" THEN d ELSE CancelConverter(d)

\* Session::Suggest.  Secure input, the client and the ASCII rules suppress it.
SuggestResults == {"suppressed", "none", "some"}
Suggest(c, r) ==
  IF IsSecure \/ r = "suppressed" THEN c ELSE EngineSuggest(c, r = "some")
ZeroQuerySuggest(c, r) == IF ZeroQuery THEN Suggest(c, r) ELSE c

DoNothing(c) ==
  IF ZeroQuery /\ c.conv \in Active /\ c.state = "PRECOMPOSITION"
    THEN ResetConverter(c) ELSE c
EchoBack(c) == ResetConverter(c)

\* CommitStringDirectly; an empty composition is left as it is.
CommitString(c, r) ==
  IF c.text THEN ZeroQuerySuggest(SetState(ResetConverter(c), "PRECOMPOSITION"), r)
            ELSE c

\* Mutant: the stack is not trimmed.
PushUndoUntrimmed(u, c) == Append(u, c)

PushUndo(u, c) ==
  LET v == Append(u, c) IN IF Len(v) > MaxUndo THEN Tail(v) ELSE v

\* Session::Commit.  "plain" is CommitInternal, "command" the same with a
\* command candidate selected, "overlay" commits a visible Zenz correction and
\* "pending" what is displayed while a delayed live conversion is pending.
CommitWays(c) ==
  {"plain", "command"} \cup (IF live THEN {"overlay"} ELSE {})
    \cup (IF c.state = "COMPOSITION" THEN {"pending"} ELSE {})

CommitInternal(c, way, zeroQuery, r) ==
  LET d == SetState(IF c.state = "COMPOSITION" THEN CommitPreedit(c)
                                               ELSE EngineCommit(c, way = "command"),
                    "PRECOMPOSITION")
  IN CASE c.state \notin Editing -> DoNothing(c)
       [] c.state \in Editing /\ IsSecure -> CommitString(c, r)
       [] OTHER -> IF zeroQuery THEN Suggest(d, r) ELSE d

CommitContext(c, way, r) ==
  IF ~IsSecure /\ way \in {"overlay", "pending"} THEN CommitString(c, r)
  ELSE CommitInternal(c, way, ZeroQuery, r)

CommitUndo(u, c, way) ==
  CASE c.state \notin Editing -> u
    [] c.state \in Editing /\ IsSecure -> <<>>
    [] OTHER -> IF way = "overlay" THEN u ELSE PushUndo(u, c)

ConvertContext(c) ==
  IF IsSecure THEN DoNothing(c)
  ELSE LET d == EngineConvert(c)
       IN IF d.conv = "CONVERSION" THEN SetState(d, "CONVERSION") ELSE d

\* MaybeStartLiveConversion, past its early returns.
CanConvertLive(c) ==
  c.state = "COMPOSITION" /\ c.text /\ ~IsSecure /\ c.field # "PASSWORD"
LiveContext(c) == SetState(EngineConvert(c), "CONVERSION")

\* CancelLiveConversionForEditing
CancelLive(c) == IF live THEN CancelConverter(SetState(c, "COMPOSITION")) ELSE c

RevertContext(c) ==
  CASE c.state = "PRECOMPOSITION" -> EchoBack(EndComposition(c))
    [] c.state = "DIRECT" -> DoNothing(c)
    [] OTHER -> ToPrecomposition(c)

ImeOffContext(c, way, r) ==
  SetState(ResetConverter(CommitContext(c, way, r)), "DIRECT")

\* SetSessionState(COMPOSITION) and Cancel, then new suggestions.
ConvertCancelContext(c, r) == Suggest(CancelConverter(SetState(c, "COMPOSITION")), r)

PredictContext(c, found) ==
  LET d == EnginePredict(c, found)
  IN IF d.conv = "PREDICTION" THEN SetState(d, "CONVERSION") ELSE d

-----------------------------------------------------------------------------
(* UpdateGrimodexContext, the first step of every command.                 *)

IsManaged(w) == w.program # Null
Requested(w) == (IsManaged(w) /\ w.secure) \/ w.field = "PASSWORD"

\* Mutant: a delayed callback of the same epoch may select another domain.
SelectsSameEpoch(d, w) == w.epoch # 0 /\ (~d.managed \/ w.epoch >= d.epoch)

\* A wire context selects a domain when its metadata is valid and it is the
\* first or has a newer epoch than the current one.
Selects(d, w) == w.epoch # 0 /\ (~d.managed \/ w.epoch > d.epoch)

\* Mutant: only the current epoch may lock the session.
LocksCurrent(d, w) ==
  /\ Requested(w) /\ ~(d.managed /\ d.secure)
  /\ d.managed => w.epoch = d.epoch

\* Whatever is stale, malformed or without metadata may still turn secure on;
\* without metadata only in a session that is already managed.
Locks(d, w) ==
  /\ Requested(w) /\ ~(d.managed /\ d.secure)
  /\ IsManaged(w) \/ d.managed

NextDomain(d, w) ==
  IF IsManaged(w) /\ Selects(d, w)
    THEN [managed |-> TRUE, program |-> w.program, epoch |-> w.epoch,
          secure |-> Requested(w)]
  ELSE IF Locks(d, w)
    THEN IF d.managed THEN [d EXCEPT !.secure = TRUE]
         ELSE [managed |-> TRUE, program |-> w.program, epoch |-> 0, secure |-> TRUE]
  ELSE d

\* PurgeForGrimodexDomainTransition
PurgedContext(c, secure) ==
  LET p == SetSecureInput(ResetConverter(SetSecureInput(c, TRUE)), secure)
  IN [p EXCEPT !.text = FALSE, !.field = IF secure THEN "PASSWORD" ELSE "NORMAL",
               !.state = IF c.state = "DIRECT" THEN "DIRECT" ELSE "PRECOMPOSITION",
               !.client = NoContext]

\* Mutant: a context that only locks the session does not purge it.
PurgesTransitionOnly(d, w) == IsManaged(w) /\ Selects(d, w) /\ d.managed

\* Mutant: only secure input purges.
PurgesSecureOnly(d, w) ==
  Requested(w) /\ ((IsManaged(w) /\ Selects(d, w)) \/ Locks(d, w))

\* Every new domain purges, except a first one that is not secure.
Purges(d, w) ==
  \/ IsManaged(w) /\ Selects(d, w) /\ (d.managed \/ Requested(w))
  \/ ~(IsManaged(w) /\ Selects(d, w)) /\ Locks(d, w)

\* ApplyCurrentGrimodexDomainToContext, or the removal of invalid metadata.
\* Surrounding text is kept only from the client that owns the domain.
OwnsDomain(d, w) ==
  IsManaged(w) /\ w.epoch # 0 /\ w.epoch = d.epoch /\ w.program = d.program
    /\ Requested(w) = d.secure

Canonical(d, w) ==
  IF d.managed
    THEN [program |-> d.program,
          field |-> IF d.secure THEN "PASSWORD"
                    ELSE IF w.field = "PASSWORD" THEN "NORMAL" ELSE w.field,
          text |-> IF w.text /\ ~d.secure /\ OwnsDomain(d, w) THEN w.epoch ELSE Null]
    ELSE [program |-> Null, field |-> w.field,
          text |-> IF w.text /\ ~IsManaged(w) THEN 0 ELSE Null]

\* The stored client context follows the wire in secure input, in a new domain
\* and when it carries no metadata yet.
KeepsClient(d, w, c) ==
  ~d.managed \/ (~d.secure /\ ~(OwnsDomain(d, w) /\ c.program = Null))

Receive(w, kind) ==
  /\ phase = "idle" /\ ctx.ok
  /\ LET d == NextDomain(domain, w)
         first == IsManaged(w) /\ Selects(domain, w)
         c == IF Purges(domain, w) THEN PurgedContext(ctx, d.secure)
              ELSE IF first THEN SetSecureInput(ctx, FALSE)
              ELSE ctx
         e == [c EXCEPT !.ended = FALSE, !.learned = FALSE]
     IN /\ domain' = d
        /\ wire' = Canonical(d, w)
        /\ ctx' = IF KeepsClient(d, w, c.client) THEN e
                  ELSE [e EXCEPT !.client = Canonical(d, w)]
        /\ undo' = IF Purges(domain, w) THEN <<>> ELSE undo
        /\ live' = (live /\ ~Purges(domain, w))
  /\ phase' = kind
  /\ UNCHANGED <<generation, meaning, steps>>

-----------------------------------------------------------------------------
(* SendKey.  A key is bound to a sequence of commands, each executed in the *)
(* state that the one before left.                                          *)

FirstCommand == phase \in {"key", "dispatch"}
Key(states) == phase \in {"key", "dispatch", "sequence"} /\ ctx.state \in states
Command(states) == phase = "command" /\ ctx.state \in states

\* SendKeyPrecompositionState stores the client's context, and
\* SendKeyConversionState ends live conversion, before the first command.
Start == IF FirstCommand /\ ctx.state = "PRECOMPOSITION"
           THEN [ctx EXCEPT !.client = wire] ELSE ctx
Promoted == live /\ ~(FirstCommand /\ ctx.state = "CONVERSION")

\* The end of a handler: of the command, or of one command of a sequence.
Done(c, u, l) ==
  /\ ctx' = c
  /\ undo' = u
  /\ \/ /\ phase' = "idle" /\ steps' = 0 /\ wire' = NoContext
        /\ live' = (l /\ (phase = "test" \/ c.state = "CONVERSION"))
     \/ /\ Key(States) /\ steps + 1 < MaxCommands
        /\ phase' = "sequence" /\ steps' = steps + 1
        /\ live' = l
        /\ UNCHANGED wire
  /\ UNCHANGED <<generation, meaning, domain>>

\* HandleIndirectImeOnOff, before the key itself is dispatched.
HandleIndirectImeOnOff ==
  /\ phase = "key"
  /\ \/ /\ ctx.state = "DIRECT"
        /\ ctx' = SetState(ctx, "PRECOMPOSITION")
        /\ undo' = <<>>
     \/ /\ ctx.state # "DIRECT"
        /\ \E way \in CommitWays(ctx), r \in SuggestResults :
             /\ ctx' = ImeOffContext(ctx, way, r)
             /\ undo' = CommitUndo(<<>>, ctx, way)
  /\ live' = FALSE
  /\ phase' = "dispatch"
  /\ UNCHANGED <<generation, meaning, domain, wire, steps>>

\* EchoBackAndClearUndoContext; a key of modifiers only keeps the undo stack.
EchoBackKey ==
  /\ Key({"DIRECT", "PRECOMPOSITION"})
  /\ \E c \in {ctx, Start}, u \in {undo, <<>>} : Done(EchoBack(c), u, live)

\* Handlers that change nothing here: tools, input modes, callbacks to the
\* client, shortcuts of candidates, and DoNothing.
InertKey ==
  /\ Key(States)
  /\ \E c \in {ctx, Start}, l \in {live, Promoted} :
       Done(c, undo, l) \/ Done(DoNothing(c), undo, l)

IMEOn == Key({"DIRECT"}) /\ Done(SetState(ctx, "PRECOMPOSITION"), <<>>, live)

\* The CompositionMode* handlers call EnsureIMEIsOn.
CompositionMode ==
  /\ Key(States) \/ Command(States)
  /\ Done(IF ctx.state = "DIRECT" THEN SetState(ctx, "PRECOMPOSITION") ELSE Start,
          undo, IF Key(States) THEN Promoted ELSE live)

\* IMEOff and MakeSureIMEOff clear the undo stack before they commit.
IMEOff ==
  /\ Key(States \ {"DIRECT"}) \/ Command(States \ {"DIRECT"})
  /\ \E way \in CommitWays(ctx), r \in SuggestResults :
       Done(ImeOffContext(Start, way, r), CommitUndo(<<>>, Start, way), FALSE)

-----------------------------------------------------------------------------
(* InsertCharacter and InsertSpace*.                                       *)

\* Direct input outside a composition; a full-width space resets first.
InsertDirectly ==
  /\ Key({"PRECOMPOSITION"})
  /\ \E r \in SuggestResults, c \in {Start, ResetConverter(Start)} :
       Done(CommitString([c EXCEPT !.text = TRUE], r), <<>>, live)

\* A shifted letter commits the live conversion and starts a composition.
InsertAfterLiveConversion ==
  /\ Key(Editing) /\ ~IsSecure /\ ctx.text
  /\ live \/ ctx.state = "COMPOSITION"
  /\ \E r \in SuggestResults :
       Done(SetState([CommitString(ctx, r) EXCEPT !.text = TRUE], "COMPOSITION"),
            <<>>, FALSE)

\* What the composer holds when the character is in it: a conversion has been
\* committed first, and so may a composition that ends in a space have been.
Inserted(r) ==
  LET c == CancelLive(Start)
      committed == {CommitInternal(c, way, FALSE, r) : way \in {"plain", "command"}}
      before == IF c.state = "CONVERSION" THEN committed
                ELSE IF c.state = "COMPOSITION" THEN {c} \cup committed
                ELSE {c}
  IN {[d EXCEPT !.text = TRUE] : d \in before}

\* Punctuation, direct input after a conversion and ShouldCommit commit at once.
InsertAndCommit ==
  /\ Key(States \ {"DIRECT"})
  /\ \E r \in SuggestResults : \E c \in Inserted(r) :
       Done(CommitString(c, r), <<>>, FALSE)

\* CommitHead keeps the last character of a password in the composer.
InsertAndCommitHead ==
  /\ Key({"COMPOSITION"}) /\ ctx.field = "PASSWORD" /\ ctx.text
  /\ Done(ctx, <<>>, FALSE)

InsertAndCompose ==
  /\ Key(States \ {"DIRECT"})
  /\ \E r \in SuggestResults : \E c \in Inserted(r) :
       LET d == SetState(c, "COMPOSITION")
       IN \/ Done(Suggest(d, r), <<>>, FALSE)
          \/ Done(ConvertContext(d), <<>>, FALSE)               \* auto conversion
          \/ CanConvertLive(d) /\ Done(LiveContext(d), <<>>, TRUE)

-----------------------------------------------------------------------------
(* Editing and converting.                                                 *)

Commit ==
  /\ Key(Editing) \/ Command(States)
  /\ \E way \in CommitWays(ctx), r \in SuggestResults :
       Done(CommitContext(ctx, way, r), CommitUndo(undo, ctx, way), FALSE)

CommitFirstSuggestion ==
  /\ Key({"PRECOMPOSITION", "COMPOSITION"}) /\ ctx.conv \in Active
  /\ \E how \in {"cancelled", "partial", "committed"}, r \in SuggestResults :
       /\ how = "partial" => ZeroQuery
       /\ Done(ZeroQuerySuggest(SetState(CommitSuggestion(Start, how),
                                         "PRECOMPOSITION"), r),
               PushUndo(undo, Start), live)

\* CommitSegment, and what SUBMIT_CANDIDATE does in a conversion.
CommitSegmentsContext(c, some, isCommand, r) ==
  LET d == CommitSegments(c, some, isCommand)
  IN IF d.conv \in Active THEN d
     ELSE ZeroQuerySuggest(SetState(d, "PRECOMPOSITION"), r)

CommitSegment ==
  /\ Key({"CONVERSION"})
  /\ \E some, isCommand \in BOOLEAN, r \in SuggestResults :
       Done(CommitSegmentsContext(ctx, some, isCommand, r),
            PushUndo(undo, ctx), Promoted)

\* A space on an ASCII composition is inserted, committed, or deletes the
\* trailing space before it converts; the first two are actions above.
Convert ==
  /\ Key({"COMPOSITION"})
  /\ \/ Done(ConvertContext(ctx), undo, live)
     \/ /\ ~IsSecure /\ ctx.text
        /\ \E left \in BOOLEAN :
             Done(ConvertContext([ctx EXCEPT !.text = left]), <<>>, live)

PredictAndConvert ==
  /\ Key({"PRECOMPOSITION", "COMPOSITION"}) /\ ~IsSecure
  /\ \E found \in BOOLEAN : Done(PredictContext(Start, found), undo, live)

PredictAndConvertFromLiveConversion ==
  /\ Key({"CONVERSION"}) /\ FirstCommand /\ live
  /\ \E found \in BOOLEAN :
       Done(PredictContext(CancelConverter(SetState(ctx, "COMPOSITION")), found),
            undo, FALSE)

\* ConvertNext, ConvertPrev, pages, Segment* and CycleSegmentation.
MoveFocus ==
  /\ Key({"CONVERSION"}) \/ Command({"CONVERSION"})
  /\ Done(Requires(ctx, Focused, ctx), undo, IF Key(States) THEN Promoted ELSE live)

Transliterate ==
  /\ Key(Editing)
  /\ ctx.conv = "PREDICTION" /\ ~ctx.text => "transliterate" \in Situations
  /\ LET c == EngineTransliterate(ctx)
     IN Done(IF c.conv = "CONVERSION" THEN SetState(c, "CONVERSION") ELSE c,
             undo, Promoted)

ConvertCancel ==
  /\ Key({"CONVERSION"})
  /\ \E r \in SuggestResults : Done(ConvertCancelContext(ctx, r), undo, FALSE)

EditCancel ==
  /\ Key({"PRECOMPOSITION", "COMPOSITION"})
  /\ \E r \in SuggestResults :
       IF Start.field = "PASSWORD" THEN Done(CommitString(Start, r), undo, live)
       ELSE Done(ToPrecomposition(Start), undo, FALSE)

EditCancelAndIMEOff ==
  /\ Key(States \ {"DIRECT"})
  /\ \E r \in SuggestResults :
       IF Start.field = "PASSWORD" THEN Done(CommitString(Start, r), undo, Promoted)
       ELSE Done(SetState(ResetConverter(Start), "DIRECT"), <<>>, FALSE)

\* MoveCursor*; crossing an edge commits, as above.
MoveCursor ==
  /\ Key({"COMPOSITION"}) \/ Command({"COMPOSITION"})
  /\ \E r \in SuggestResults :
       IF ctx.field = "PASSWORD" THEN Done(CommitString(ctx, r), undo, live)
       ELSE Done(Suggest(ctx, r), <<>>, live)

\* Delete and Backspace; Backspace also edits under a live conversion.
Backspace ==
  /\ Key({"COMPOSITION"}) \/ (Key({"CONVERSION"}) /\ FirstCommand /\ live)
  /\ \E left \in {FALSE, ctx.text}, r \in SuggestResults :
       LET c == [CancelLive(ctx) EXCEPT !.text = left]
       IN IF ~left THEN Done(ToPrecomposition(c), <<>>, FALSE)
          ELSE \/ Done(Suggest(c, r), <<>>, FALSE)
               \/ CanConvertLive(c) /\ Done(LiveContext(c), <<>>, TRUE)

Revert ==
  /\ Key({"PRECOMPOSITION"}) \/ Command(States)
  /\ Done(RevertContext(Start), IF ctx.state = "DIRECT" THEN undo ELSE <<>>, FALSE)

-----------------------------------------------------------------------------
(* SendCommand, except for the handlers above that keys share with it.     *)

InertCommand ==
  /\ Command(States)
  /\ Done(ctx, undo, live) \/ Done(DoNothing(ctx), undo, live)

MakeSureIMEOn ==
  /\ Command({"DIRECT"}) /\ Done(SetState(ctx, "PRECOMPOSITION"), <<>>, live)

\* SELECT_CANDIDATE and HIGHLIGHT_CANDIDATE.
SelectCandidate ==
  /\ Command(States \ {"DIRECT"}) /\ ctx.conv \in Active
  /\ Done(SetState(CandidateMoveToId(ctx), "CONVERSION"), undo, live)

\* SUBMIT_CANDIDATE: the undo stack grows whatever becomes of the candidate.
CommitCandidate ==
  /\ Command(States \ {"DIRECT"}) /\ ctx.conv \in Active
  /\ \E r \in SuggestResults :
       \/ /\ ctx.state = "CONVERSION"
          /\ \E some, isCommand \in BOOLEAN :
               Done(CommitSegmentsContext(CandidateMoveToId(ctx), some, isCommand, r),
                    PushUndo(undo, ctx), live)
       \/ /\ ctx.state # "CONVERSION" /\ ZeroQuery /\ ctx.text
          /\ LET c == CommitSuggestion(ctx, "partial")
             IN Done(IF c.field = "PASSWORD" THEN CommitString(c, r) ELSE Suggest(c, r),
                     PushUndo(undo, ctx), live)
       \/ /\ ctx.state # "CONVERSION"
          /\ Done(CommitSuggestion(ctx, "refused"), PushUndo(undo, ctx), live)
       \/ /\ ctx.state # "CONVERSION"
          /\ \E how \in {"cancelled", "committed"} :
               Done(ZeroQuerySuggest(SetState(CommitSuggestion(ctx, how),
                                              "PRECOMPOSITION"), r),
                    PushUndo(undo, ctx), live)

\* CONVERT_REVERSE of a text that has a reading.
ConvertReverse ==
  /\ Command({"DIRECT", "PRECOMPOSITION"}) /\ ~IsSecure
  /\ Done(SetState(EngineConvert([ctx EXCEPT !.text = TRUE]), "CONVERSION"), <<>>, live)

\* UNDO rolls the history back; it restores the context when the client is able
\* to delete the committed text.
Undo ==
  /\ Command(States \ {"DIRECT"}) /\ undo # <<>>
  /\ \/ Done(DoNothing(EndComposition(ctx)), undo, live)
     \/ Done(undo[Len(undo)], SubSeq(undo, 1, Len(undo) - 1), live)

ResetContext ==
  /\ Command(States)
  /\ Done(IF ctx.state = "PRECOMPOSITION" THEN ResetConverter(ctx)
          ELSE ToPrecomposition(ResetConverter(ctx)), <<>>, FALSE)

SwitchInputFieldType ==
  /\ Command(States)
  /\ Done([SetSecureInput(ctx, wire.field = "PASSWORD") EXCEPT
             !.field = IF wire.field = "none" THEN "NORMAL" ELSE wire.field],
          undo, live)

\* EchoBack for the commands that expect another state: MOVE_CURSOR, and
\* UNDO_OR_REWIND without an undo context.
EchoBackCommand ==
  /\ Command(States \ {"COMPOSITION"})
  /\ ctx.state # "PRECOMPOSITION" => undo = <<>>
  /\ ctx.state = "CONVERSION" => "rewind" \in Situations
  /\ Done(EchoBack(ctx), undo, live)

\* UNDO_OR_REWIND, and STOP_KEY_TOGGLING which does not suggest.
EditCommand ==
  /\ Command({"COMPOSITION"})
  /\ \E r \in SuggestResults : Done(Suggest(ctx, r), <<>>, live)

CommitRawText ==
  /\ Command(States) /\ ctx.text
  /\ \E r \in SuggestResults : Done(CommitString(ctx, r), undo, live)

DeleteCandidateFromHistory ==
  /\ Key({"CONVERSION"}) \/ Command(States)
  /\ ~IsSecure /\ ctx.conv \in Active
  /\ \E r \in SuggestResults : Done(ConvertCancelContext(ctx, r), undo, FALSE)

UpdateComposition ==
  \/ Command({"DIRECT"}) /\ Done(EchoBack(ctx), <<>>, live)
  \/ /\ Command({"PRECOMPOSITION", "COMPOSITION"})
     /\ \E text \in BOOLEAN, r \in SuggestResults :
          Done(Suggest(SetState([ctx EXCEPT !.text = text], "COMPOSITION"), r),
               <<>>, live)

ApplyDelayedLiveConversion ==
  /\ Command({"COMPOSITION"}) /\ CanConvertLive(ctx)
  /\ Done(LiveContext(ctx), undo, TRUE)

\* REQUEST_NWP; its clients send it between compositions.
RequestNextWordPrediction ==
  /\ Command(States) /\ ~IsSecure
  /\ ctx.state \in Editing => "nwp" \in Situations
  /\ \E found \in BOOLEAN : Done(EngineSuggest(ResetConverter(ctx), found), undo, live)

-----------------------------------------------------------------------------
\* TestSendKey, by the state in which the key would be handled.
TestSendKey ==
  /\ phase = "test"
  /\ \/ Done(DoNothing(ctx), undo, live)
     \/ /\ ctx.state \in Editing => "testOff" \in Situations
        /\ Done(EchoBack(ctx), undo, live)
     \/ /\ ctx.state \in {"DIRECT", "PRECOMPOSITION"}
        /\ \/ Done(EchoBack(ctx), <<>>, live)
           \/ Done(RevertContext(ctx), IF ctx.state = "DIRECT" THEN undo ELSE <<>>, live)

\* SetTable, SetConfig and SetRequest, between commands.
Reconfigure ==
  /\ phase = "idle" /\ undo # <<>>
  /\ undo' = <<>>
  /\ UNCHANGED <<generation, meaning, ctx, live, domain, wire, phase, steps>>

Republish ==
  /\ ctx.ok /\ Provider!PubNext
  /\ UNCHANGED <<ctx, undo, live, domain, wire, phase, steps>>

SendKey ==
  \/ HandleIndirectImeOnOff \/ EchoBackKey \/ InertKey \/ IMEOn
  \/ InsertDirectly \/ InsertAfterLiveConversion \/ InsertAndCommit
  \/ InsertAndCommitHead \/ InsertAndCompose
  \/ CommitFirstSuggestion \/ CommitSegment \/ Convert \/ PredictAndConvert
  \/ PredictAndConvertFromLiveConversion \/ Transliterate \/ ConvertCancel
  \/ EditCancel \/ EditCancelAndIMEOff \/ Backspace

SendCommand ==
  \/ InertCommand \/ MakeSureIMEOn \/ SelectCandidate \/ CommitCandidate
  \/ ConvertReverse \/ Undo \/ ResetContext \/ SwitchInputFieldType
  \/ EchoBackCommand \/ EditCommand \/ CommitRawText \/ UpdateComposition
  \/ ApplyDelayedLiveConversion \/ RequestNextWordPrediction

Next ==
  \/ \E w \in WireContexts, kind \in {"command", "key", "test"} : Receive(w, kind)
  \/ ctx.ok /\ (\/ SendKey \/ SendCommand \/ TestSendKey
                \/ CompositionMode \/ IMEOff \/ Commit \/ MoveFocus \/ MoveCursor
                \/ Revert \/ DeleteCandidateFromHistory)
  \/ Reconfigure
  \/ Republish

Spec == Init /\ [][Next]_vars

-----------------------------------------------------------------------------
(* Properties.                                                             *)

TypeOK ==
  /\ generation \in Nat /\ meaning \in Meanings \cup {Null}
  /\ ctx \in ImeContexts
  /\ undo \in Seq(ImeContexts) /\ Len(undo) <= MaxUndo
  /\ live \in BOOLEAN
  /\ domain \in Domains
  /\ wire \in Contexts
  /\ phase \in {"idle", "command", "test", "key", "dispatch", "sequence"}
  /\ steps \in Nat

\* Every context the session holds: the current one and those it may undo to.
Held == {ctx} \cup {undo[i] : i \in 1..Len(undo)}

\* In managed secure input nothing that belongs to a project is reachable, not
\* even by undo: no dictionary, no surrounding text, and the composer and the
\* registry both know that the field is secure.
SecureHoldsNothing ==
  IsSecure => \A c \in Held :
    /\ c.latest = Null /\ c.pinned = Null /\ c.secure
    /\ c.field = "PASSWORD"
    /\ c.client.program = domain.program /\ c.client.text = Null

\* A project dictionary is in the hands of a session only while the focused
\* application is one that the scope admits.
ScopeIsolation ==
  \A c \in Held : c.latest # Null \/ c.pinned # Null =>
    (IF domain.managed THEN domain.program ELSE Null) \in InScope

\* What was captured in a focus epoch - a dictionary or surrounding text - is
\* gone when the epoch is over: purges reach the undo stack too.
NothingOutlivesItsEpoch ==
  \A c \in Held :
    /\ \A s \in {c.latest, c.pinned} : s # Null => s.epoch \in {0, domain.epoch}
    /\ c.client.text # Null => c.client.text \in {0, domain.epoch}

\* A pin lasts no longer than its composition.
PinLifetime == ctx.pinned # Null => ctx.state \in Editing

\* The session state and the converter state agree, so that no handler runs
\* into a DCHECK of EngineConverter::CheckState.
StatesAgree ==
  /\ ctx.ok
  /\ \A c \in Held : IF c.state = "CONVERSION" THEN c.conv \in Focused
                                              ELSE c.conv \notin Focused

\* While a composition lasts it is converted with one dictionary, whatever the
\* provider publishes meanwhile; only UNDO goes back to another composition.
OneDictionaryPerComposition ==
  [][ctx.pinned # Null /\ ctx'.pinned # Null /\ ctx'.pinned # ctx.pinned
       => ctx'.ended \/ Len(undo') < Len(undo)]_vars

\* The focus domain only moves forward: a delayed, duplicated or malformed
\* context never brings back an older epoch, and only a strictly newer epoch
\* changes the application or leaves secure input.
DomainMonotone ==
  [][/\ domain'.epoch >= domain.epoch
     /\ domain.managed => domain'.managed
     /\ domain.managed /\ domain'.epoch = domain.epoch
          => domain'.program = domain.program /\ (domain.secure => domain'.secure)]_vars

\* A request for secure input is honoured however it arrives: stale, malformed,
\* without metadata, or for another application.
FailClosed ==
  [][phase = "idle" =>
       \A w \in WireContexts :
         Receive(w, phase') /\ Requested(w) /\ (IsManaged(w) \/ domain.managed)
           => domain'.managed /\ domain'.secure]_vars

\* The DCHECKs of EngineConverter on its state.
AssertionsHold == ctx.ok

\* "committing secure text never reaches converter learning"
\* (src/src/session/session_test.cc).
SecureNeverLearns == ~ctx.learned

=============================================================================
