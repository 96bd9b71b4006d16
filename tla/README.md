# Verification of mozkey-ibg

mozkey-ibg is a Japanese input method: a fork of Mozc with live conversion, a
neural corrector (Zenz) and project dictionaries that the writing tool Grimodex
provides. This directory holds TLA+ models of the parts that carry its control
logic, the TLC configurations that check them on small instances, and proofs
that TLAPS checks for every value of the constants.

To check a run: `tlc -workers 2 -config <cfg> <module>`. To check the proofs:
`tlapm <module>Proofs.tla` for `ProtocolV1`, `ImeSession`, `SessionHandler`,
`LruCache`, `UserDictionary`, `SessionWatchDog`, `LiveConversion` and
`RawReadingRecovery` (the last two and `LruCache` take some minutes). `PROJECT.json` lists components, runs, the source lines behind
every definition, findings, hazards and theorems.

## 1. Inventory

All paths are under `src/src/`.

**Who talks to whom.** A front end (fcitx5, IBus, TSF, IMK) owns a `Client`,
which sends protobuf commands over IPC to the converter server. In the server one
thread runs `SessionHandler::EvalCommand`; it keeps a map of `Session`s and calls
`SendKey`, `TestSendKey` or `SendCommand` of one of them. A `Session` drives an
`EngineConverter`, which owns the composition's candidates and asks the `Engine`'s
converter and predictors. Beside this thread run the watch dog (sends CLEANUP), the
data loader (replaces the language model), the Zenz worker, and timers of the front
ends that come back as ordinary commands. Grimodex is another process; it
communicates through files that it renames into place and through the metadata
(program, focus epoch, secure flag) that front ends attach to commands.

| Component | State | Operations | What is hard | What makes it correct |
|---|---|---|---|---|
| Grimodex loader, publisher, provider (`grimodex/protocol_v1.cc`, `project_dictionary_provider.cc`, `project_dictionary_bridge.cc`) | published snapshot, sequence number, failure count, cached index | `Load`, `Reload`, `Get` | three file reads race with renames; retries; one grace after a failure; caches keyed by a number | a load is one moment's content; a number names one meaning; old content goes away |
| Session (`session/session.cc`, `ime_context.cc`) | four states, current context, undo stack, flags of live conversion, focus domain | about 60 commands, key sequences, key tests | any order of commands and contexts; late, repeated, malformed contexts; several ways out of every state | session and converter states agree; nothing survives its domain; secure input wins |
| Engine converter (`engine/engine_converter.cc`) | four states, segments, candidate list | `Convert`, `Suggest`, `Predict`, `Commit…`, `Cancel`, `Reset` | asserts its state in each call (`CheckState`) | no assertion fails |
| Project dictionary registry (`dictionary/project_dictionary.cc`) | latest, pinned, secure | `Publish`, `PinForComposition`, `EndComposition`, `Purge`, `SetSecureInput` | copied with contexts into the undo stack | one dictionary per composition; a pin ends with it |
| Session handler (`session/session_handler.cc`) | session map, times, configuration, request, key map | create, delete, keys, settings, reload, cleanup, shutdown | eviction, timeouts, a clock that moves backwards, data reloads | settings and data agree in all sessions; idle time is exact |
| Data loader (`engine/data_loader.cc`, `engine/engine.cc`) | requests, current request, unregistered requests, response | register, wait, build, hand over, report | two threads, mutex released between steps, failures | never downgrade, never hand over what failed, no request forgotten |
| LRU cache (`storage/lru_cache.h`) | hash table, two linked lists, blocks | `Insert`, lookups, `Erase`, `Clear` | one element changes list within one operation | is a bounded map in order of use |
| Live conversion and Zenz (`session/session.cc`, `session/zenz_live_corrector.cc`) | generations, the pending conversion, the text shown, the worker's two slots, pending feedback | delayed conversion, request, polls, adoption, cancellation, commits | callbacks and answers for a composition edited since; commits from several overlays | work under way is about the present text; a commit hands over all of it |
| Client (`client/client.cc`, `ipc/unix_ipc.cc`) | session id and generation, server status | send, reconnect, create a session | the server dies, is replaced, falls silent or loses an answer at any call | a request is for the session it was meant for |
| Raw reading recovery (`unix/fcitx5/raw_reading_recovery.cc`, `mozc_state.cc`) | journal of raw keys, observed generations, the preedit shown | keys, commands, focus, replay into a new session | failures in the middle of a replay; lost answers; password fields | the reading survives once, or is given up as a whole |
| Watch dog and server (`session/session_watch_dog.cc`, `session_server.cc`, `ipc/unix_ipc.cc`) | serving thread, backlog, watch dog thread, main thread | serve, CLEANUP, ping, abort, stop, join | the dog is a client of its own process; joins against the serving thread | a hang is broken, a slow server is not, a shutdown ends |
| User dictionary (`dictionary/user_dictionary.cc`, `user_dictionary_storage.cc`) | file, lock, index, time stamp, import queue | reload, wait, import, save by the dictionary tool | three writers and readers with copies of their own; tasks that count as running a little longer | conversions never fall behind the file unnoticed; imports are not undone |
| Consumer heartbeat (`grimodex/consumer_heartbeat.cc`) | registration, timer | refresh, unregister | crash between two steps | one live registration |

Further components (composer, converter, predictors, rewriters, key maps,
configuration, the other front ends, renderer, data formats) are listed
in `PROJECT.json` with the reason why they are not modelled: what they decide
depends on text and scores rather than on state, or they are platform I/O.

## 2. Modules

    SemanticPublication <---- refines ---- ProtocolV1 <-- ProtocolV1Proofs
            ^ INSTANCE (the provider)
       ImeSession <------------------------------------- ImeSessionProofs
    DataLoader <-- EXTENDS -- SessionHandler <-- SessionHandlerProofs
    LruMap <---- refines ---- LruCache <-- LruCacheProofs
    Client <-- EXTENDS -- RawReadingRecovery <-- RawReadingRecoveryProofs
    LiveConversion <-- LiveConversionProofs
    SessionWatchDog <-- SessionWatchDogProofs
    UserDictionary <-- UserDictionaryProofs

`MC…` modules give the constants values. Operators whose comment begins with
"Mutant:" are deliberate faults; nothing uses them, they serve to show that a
property notices the fault (`PROJECT.json`, "mutants").

### ProtocolV1

The state file and one file per project are missing, invalid or good, and every
replacement carries a new time stamp. `StartReload`, `ReadFirstState`,
`ReadProject`, `ReadSecondState` and `Publish` are the steps of one
`ProtocolV1SnapshotPublisher::Reload`; between them the writer may rename any file.
`ReadSecondState` contains the comparison S1 = S2 and the retry loop; `Publish`
the sequence number, the grace of one retryable failure, the bridge's refusals, the
provider's cache and the publication in the registry of a session (`held`).
`seen`, a history variable, collects what the files held since the reload began.

Bytes are abstracted to (meaning, time stamp), which is what the comparisons
distinguish. The assumption about Grimodex is that a rename is atomic and that
no two state files have the same stamp: with equal stamps an A-B-A rewrite would
pass the comparison unseen.

`SemanticPublication` is what readers rely on: a generation and a meaning; the
generation moves exactly when the meaning moves, until the 64-bit range ends.

### ImeSession

`ctx` is the current `ImeContext`: session state, converter state, whether there is
text, field type, registry (latest, pinned, secure) and client context. `undo` is
the undo stack, `domain` the Grimodex focus domain, `live` the flag
`live_conversion_active_`. A command is `Receive` (`UpdateGrimodexContext`, which
selects, locks, purges and canonicalises) followed by one handler, or several when
a key is bound to a sequence. The converter is a set of operators on `ctx`
(`EngineConvert`, `EngineCommit`, …), each with the assertion that the code's
`CheckState` makes; `ctx.ok` becomes FALSE where a DCHECK would fail, and nothing
happens afterwards. Whether a conversion or suggestion finds something is a
nondeterministic choice, and so is the key's meaning within the current state.

`Situations` names four things the code lets clients do after which the session's
and the converter's states disagree (section 4); a run includes those it names.
The invariants of the focus domain are proved for every value of `Situations`.

### DataLoader and SessionHandler

`DataLoader` has two threads. The server thread's `StartNewDataBuildTask` is three
steps (register, notify, schedule) since the mutex is released in between; the
loader thread's loop is `TakeRequest`/`NoPendingRequest`, the wait for a request of
high priority, `Build` or `BuildFails`, `Callback` (writes the response),
`ReportLoadSuccess`, `EndTask`. The server thread takes the response over in
`MaybeReloadEngine`.

`SessionHandler` extends it with the commands. The map is the sequence of keys in
order of use, the interface that `LruMap` specifies. Of a session it keeps what the
handler looks at: times, settings, the engine data it was created with, and the undo
stack, since UNDO puts an old context, with its time and settings, in place of the
current one. `absl::InfinitePast()` is
`Past`, for which every duration has elapsed. `Tick` moves the clock forward or, with
`ClockGoesBack`, to any earlier time. CLEANUP may arrive at any moment, so every
timing of the watch dog is included.

### LruCache

Elements, the two doubly linked lists by their links, the hash table and the blocks,
with the arithmetic that sizes them. `Chain` is the list that the iterator reads from
the head: the one list in `Lists` that the links make up. `Clear` is written with it in
closed form, the state after the loop over the iterator. `WellLinked` says which two
lists the links are; `ImplementsMap` says that the entries of the list so read behave as
`LruMap`. `BlockAssumption` says that the loop of the constructor ends with a block that
the cache can hold, which the sizes of the code do.

### LiveConversion

One session with the timer of its client, the callback on its way, and the worker of
the corrector. A text is a sequence of letters, each with the way it came about (the
reading, the converter's first candidate, another candidate, the model's answer), so
that a property can ask both whether a text is whole and which one it is.
`InsertCharacter`, `Enter`, `Space`, `Backspace` and the other keys are the handlers of `session.cc` with the
part of each that concerns live conversion; `Deliver` is the arrival of
`CONVERT_LIVE` or of a poll for the model's answer, whichever generation it carries; the worker takes a
request, and answers it, at any time. `KeepsTimer` distinguishes the clients: TSF
keeps a timer across an answer without a callback, fcitx5 drops it. Generations are
only compared with what is in flight, so the counters are abstracted to a few names
of which the least free one is taken; `TypeOK` says that they suffice.
`Situations` adds commands beyond typing (cursor, candidates, unmapped keys,
transliteration, suggestions, failing conversions, undo).

### Client and RawReadingRecovery

`Client` maps a *world* (server, session, client's status, id and generation) to the
set of outcomes of one call: every call of the transport may lose the request, lose
the answer, find the server dead, replaced or silent. Each such fault takes one unit
of a budget (any number in the proofs), the only bound on what may go wrong. `RawReadingRecovery` adds the fcitx5
input context: one event is one handler of `mozc_state.cc`, from the checks before it
(session generation, initial mode) through the replay of the journal and the retry,
to what is recorded in the journal and drawn. A replay is a fold over the journal,
with a choice of outcomes at every key. The server is as much of `Session` as a replay
can tell apart: off or on, a reading, converted or not.

### SessionWatchDog

Three threads of one process and its users. The serving thread takes connections from
a backlog, one at a time, and may hang in a user's request; the watch dog sends CLEANUP and, when it is
not answered in time, `PingTrial` pings, and then aborts the process; the main thread
waits for the serving thread, destroys the engine, and stops and joins the dog. The
CPU load decides whether CLEANUP is sent, with the arithmetic of the code. A call
that has timed out stays in the backlog as a dead request, which the server still
serves.

### UserDictionary

The file with its time stamp, the lock, and who has a copy of the file: the dictionary
tool, the reloader thread, the importer thread. The steps of `StartImportLoop` and
`ThreadMain` are separate actions, since the server's thread and the tool run between them. What a
dictionary holds is one value; a value in `Big` makes the index very big, which the
code frees before it builds the next. A task that has done its work but still counts
as running is the state `"ending"`, in which both `MaybeStartReload` and `Import` take it to be at work.
`want` is a history: the file as saves and imports have ordered it.

## 3. Runs

| Run | Instance | Shows |
|---|---|---|
| `protocol` | 2 projects, 2 contents of which the native index refuses one, 3 renames, 1 retry, fair reloads (1.4 million states) | `LoadedWasOnDisk`: what a reload calls loaded was on disk at one moment. `ConflictIsImpossible`: what the code calls "an impossible local conflict" is impossible. `RefinesSemanticPublication`. `QuietReloadIsExact`: only the first of a row of retryable failures may keep old content. `EventuallyCurrent`: after the writer stops, compositions end up with what is on disk |
| `session` | 6 contexts of two applications and two epochs, secure and malformed ones included, two commands per key, 2 generations of the dictionary (227,000) | `SecureHoldsNothing`, `ScopeIsolation`, `NothingOutlivesItsEpoch`, `DomainMonotone`, `FailClosed`: nothing survives its focus domain. `StatesAgree`: no converter assertion fails. `PinLifetime`, `OneDictionaryPerComposition` |
| `loader` | 3 requests (two tie), 5 registrations, any load may fail (32,000) | `ResponseIsCurrent`, `NoDowngrade`, `FailedStaysOut`, `LoaderEnds` |
| `handler_settings` | 3 session ids for 2 places, 2 configurations, 2 client requests, one undo level, a clock of 2 values that may be set back, one load beside (1.3 million) | `EngineStable`, `SettingsAgree`, `EmptyTimeExact` |
| `live_late` | readings of 2 letters, 2 polls, a client that keeps its timer, every situation but undo (125,000) | `OnlyCurrentWork`: late callbacks and answers do no work for a text that is gone. `NeverBlank`: the preedit always spells the whole reading. `WholeTextCommitted`: a commit loses and adds nothing. `FeedbackIsTrue`: the store learns what the user did |
| `live_typing` | 2 letters, readings of 3, a client that drops its timer, undo, conversions that fail, fairness (62,000) | `EnterCommitsWhatIsShown`; `CorrectionEnds`: no correction is waited for forever |
| `recovery` | 2 letters, readings of 2, a journal of 3 keys, 3 faults at any calls (36,000) | `ReadingSurvives`, `NoHiddenReading`, `NeverInTheWrongMode`, `CommandsStayHome`, `SecureLeavesNothing` |
| `watch_dog` | backlog 6, 2 users, 3 pings, loads 0, 13, 40 and 90 percent (21,000) | `NoHastyAbort`, `ShutdownEnds`, `HangIsBroken` |
| `user_dictionary` | 2 names of which one fits, small and very big contents, 2 imports, 1 save, 1 fault (3.4 million) | `StaleIsNoticed`: no conversion uses an old index without the next RELOAD noticing. `ImportsKept`: no batch undoes an earlier one or what was saved before |
| `lru_cache` | 3 elements in 2 blocks, 4 keys, 2 values (10,000) | `WellLinked`, `ImplementsMap` |
| `session_secure_learning`, `recovery_suffix` | | violated: section 4 |

Larger or different instances that pass and are not among the runs, because each
takes several minutes: `MCImeSession_compositions.cfg` (ordinary clients in password
fields), `live_late` with readings of three letters (452,580 states),
`user_dictionary` with two saves of the tool and one kind of content (2.6 million).

**Why the bounds are enough.** A torn load needs one rename between two of three
reads; three renames allow one in each attempt and one more. The sequence numbers of
`protocol` do not reach their end; the end of the range is covered by the proof of
the refinement. Two projects and
two contents make every wrong pairing visible. Losing an epoch needs two of them, a
stale one, and a context stored in the undo stack; one undo level suffices, because
levels do not interact (the depth is a constant in the proofs). Three requests give a
tie and a higher priority; five registrations leave room for failures and
for requests that are registered again. Three ids for two places force evictions, and
four keys for three elements do the same in the cache. In
`handler_settings` the clock has two values, the least that lets a session expire,
and the interval of the watch dog is below one unit, so that a suspend is noticed too;
one load suffices, as `loader` covers the sequences of loads. Two letters tell a
reading put together from the wrong keys from the right one; three faults allow the
loss of a session, a failure in the replay and another in the retry; a journal of
three keys with BACKSPACE among them overflows. Readings of two letters
have a prefix, which is what a stale callback is about. The backlog of the watch dog's
run has room for every call that it can give up, as the code's has (10 places). Two
imports make a batch that grows while it is worked on, or two batches in a row.

**Fairness.** `protocol` assumes weak fairness of `Reload`: every
composition starts a reload and a reload that has begun is sequential code without
waits; compositions that start again and again are the property's premise. Nothing is
assumed of the writer. `loader` assumes weak fairness of the loader thread's steps
and of the rest of `StartNewDataBuildTask` once begun: running threads go on. It
assumes neither that somebody registers nor that the engine takes data over, and the
wait for a request of high priority has a time limit in the code. `live_typing`
assumes that a client's timer fires and that a callback that was sent arrives; nothing
is assumed of the model, which may never answer. `watch_dog` assumes that threads run
and time limits expire, and strong fairness of one thing: a check of the dog finds
the load low enough for CLEANUP if it does so again and again. It does not assume that a
request which hangs ever returns. The other specifications state no fairness, and only
safety is checked of them.

**Deadlock** is checked except in `handler_settings` (after SHUTDOWN the server really
stops, and the clock is bounded) and `watch_dog` (the process ends).

## 4. Where the code and its documentation disagree

Two are runs that TLC ends with a counterexample:

* `session_secure_learning`: a test says that secure text never reaches the
  converter's learning. Transliteration is not blocked in secure input, and
  CommitSegment, unlike Commit, calls the converter's commit, hence
  `FinishConversion`.
* `recovery_suffix`: a letter typed over a conversion commits it and begins the next
  composition. Its response has a result and a preedit; `RecordSuccessfulKey` clears
  the journal for the result and does not enter the letter. When the session is lost
  after the next letter, the composition comes back without its first one. A comment
  in `raw_reading_recovery.cc:201` and a test speak against journals that
  hold a suffix. `recovery` is therefore checked with `TypeOverConversion = FALSE`.

More can be reproduced with the configurations named, each of which TLC ends with a
counterexample:

* `MCImeSession_testOff.cfg`: `TestSendKey`, documented as a check whether a key will be
  consumed, resets the converter when the key says that the IME is off. In a
  conversion the session stays in CONVERSION, and the next key of the conversion fails
  a DCHECK.
* `MCDataLoader_stranded.cfg`: a request accepted after the loader's last look at the
  requests, but before its task counts as done, is not scheduled. It stays unloaded
  until another request is registered.
* `MCUserDictionary_import.cfg`: the same in the importer
  (`dictionary/user_dictionary.cc:616`): the import stays in the queue until another comes. A test
  (`user_dictionary_test.cc:1042`) expects every import after `Wait`.
* `MCUserDictionary_wait.cfg`: a RELOAD that comes while a reload is running is
  dropped (`user_dictionary.cc:250`), and RELOAD_AND_WAIT then waits for the older
  one: it answers, and conversions do not know what was saved before it was sent.
  `protocol/commands.proto:1119` says "realod mutable data and wait for finish".
* `MCUserDictionary_crossing.cfg`: the importer, like the tool, reads the file before
  it takes the lock, so each may overwrite what the other saved in between, although
  `user_dictionary_storage.h:107` says "Lock the dictionary so that other
  processes/threads cannot execute mutable operations".
* `MCUserDictionary_second.cfg`: `st_mtime` counts seconds. Of two saves within one
  second the second may never be noticed; nor is a file that could not be loaded
  tried again before it changes.
* `MCSessionHandler_undo.cfg`: `last_command_time` is part of the context that UNDO
  brings back. After an UNDO the session counts as unused since the command that it undoes, and the
  next CLEANUP may remove it in the middle of the composition.
* `MCSessionHandler_timeout.cfg`: `last_session_empty_time_` is `InfinitePast` while there are
  sessions, so with a positive `--timeout` the first CLEANUP shuts the server down
  under them.
* `MCLiveConversion_enter.cfg`: "Enter confirms what the user can currently see"
  (`session/session.cc`, in the handler of Enter) does not hold after a key without a
  binding, which redraws the composition while a conversion is pending. Other ways to the
  same: cursor keys or F7 while pending, SELECT_CANDIDATE during live conversion, a stale
  callback to a client that keeps its timer while a correction is visible. `live_typing`
  therefore checks the property for typing, undo and conversions that fail.

* `MCLruCache_short.cfg`: the block sizes need not add up to `max_elements`
  (`storage/lru_cache.h:341` doubles the first block only until `first << num_blocks`
  reaches it, while all blocks together hold `first` less). With the sizes of the code a cache
  of 65473 to 65536 elements holds 65472, and evicts from then on. No cache of the
  repository is that large, and "can hold at most max_elements" stays true. The
  configuration shows it on four elements in two blocks.

Observed while modelling, and kept in the models as the code has it:

* `CommitFirstSuggestion` leaves the pending flag set; a SUBMIT that follows pushes an
  empty undo context.
* A command that is dropped after a session was lost redraws nothing unless something
  was recovered, so a second click on the old candidate reaches the new, empty
  session; `CommandsStayHome` allows for it. A key that fails leaves the old preedit.
* A session id 0 that a server without bytes answers is taken for the session asked for
  (`client/client.cc:395`), and the outcome of SET_REQUEST is overwritten by
  `SERVER_OK` (`client.cc:216`).
* The dog's "average for the last 10 seconds" divides the sum of all twelve samples by
  two (`session_watch_dog.cc:217`), so CLEANUP is withheld from about 11 percent load.
* The engine is destroyed before the watch dog (`session_handler.h:138`): a teardown
  slower than the pings is aborted. `NoHastyAbort` is about a server that serves.
* With as many users as the backlog has places, `HangIsBroken` fails: `connect` has no
  time limit, and the dog blocks like everyone else.
* A batch of imports that cannot be saved is lost from the file and stays in the
  index until the next reload (`unsaved` in `StaleIsNoticed`); replacing the engine's
  data drops the imports still queued.
* SWITCH_INPUT_FIELD_TYPE of an ordinary client keeps composition and undo stack.

`AssertionsHold` also fails in four other ways, which can be seen with
`MCImeSession_testOff.cfg` after one change each:

* `Situations = {"rewind"}`: UNDO_OR_REWIND in CONVERSION with an empty undo stack
  calls `EchoBack`, which resets the converter (`session/session.cc:8994`).
* `Situations = {"nwp"}`: REQUEST_NWP in CONVERSION resets the converter and suggests
  (`session/session.cc:3609`).
* `Situations = {"transliterate"}`: a transliteration key on zero-query candidates
  cancels them and then cannot convert an empty composition
  (`engine/engine_converter.cc:729`).
* `Situations = {}` and `MaxCommands = 3`: `live_conversion_active_` is cleared after
  the last command of a key's sequence only; a command after a commit in the same
  sequence cancels a conversion that is over (`session/session.cc:5128`).

`session` therefore shows agreement of the two state machines for
everything else: all handlers, at most two commands per key, none of these situations.

## 5. Proofs

17647 obligations in eight modules, none omitted. The theorems hold for every value of
the constants that the named assumptions admit; those that need a further hypothesis
(`StalenessIsNoticed`, `StatesAlwaysAgree`, `GrowingCacheIsMap`, `SmallCacheIsMap`,
`EnterCommitsTheShown`, `ReadingSurvivesHolds`) state it, and without it TLC has the
counterexample (section 4).

**ProtocolV1Proofs** (547 obligations). From `ConstantsAssumption` (Null is none of the
other values, the counters are naturals): `TypeCorrect`, `LoadIsAtomic`, `NoConflict`,
`Refinement`, `QuietReloadsAreExact`. `LoadedWasOnDisk` is not inductive: it says
nothing while the reads are under way. The strengthening is `FirstReadStands`: between
the second and the third read, *if* the state file is still the one read first, the
pair of its project and the content read is in `seen`. It is kept by the writer because
a new state file has a new stamp (`FilesOK`), so it can never again equal `first`; then
the comparison S1 = S2 gives the property. `NoConflict` needs `GenerationInv`: the
cached dictionary is that of the published sequence number, and so is any dictionary a
session holds under this number. The refinement follows from what `Publish` does to
sequence number and meaning; every other step is a stutter. `QuietReloadsAreExact` adds
`CachedInv` (a cached index has the meaning of the published snapshot, which the index
accepted) and `Accounted` (while a reload that failed was under way, the files had no
usable content at some moment, or two meanings one after the other). Its proof attempt showed that the property needs `published.sequence <
MaxSequence`: the last number of the 64-bit range is used again
(`protocol_v1.cc:675`), and the provider, whose cache goes by the number, then serves
old content. TLC's instance does not reach the end of the range.

**ImeSessionProofs** (2568). For any set of contexts, any scope of one of the two forms
that `AllowsApplication` knows, any undo depth and any length of command sequences:
`TypeCorrect`, `SecureIsolation`, `ScopeIsolated`, `EpochIsolated`, `PinsEnd`,
`DomainMovesForward`, `SecureRequestsWin`, `OneDictionary`. The inductive invariant says
that the current context and every one in the undo stack is admitted by the domain
(`SafeIn(d, c)`). One lemma per operator shows that it keeps `SafeIn`; `DoneInv`
turns that into preservation by a handler; `ReceiveInv` treats the one step that
changes the domain: if it purges, the purged contexts are admitted by the new
domain (`PurgedContextSafe`), and if it does not, the domain is the old one or the
first (`WithoutPurge`, `FirstDomainSafe`). The stored client context must be part of
`SafeIn`, since `OnStartComposition` decides by it, and not by the domain, whether
the application is in scope. `OneDictionary` has a lemma `…Keeps` per operator: the pin
stays, or the composition it belonged to has ended.

`StatesAlwaysAgree` shows that session and converter agree and that no `CheckState`
fails, for `Situations = {}` and `MaxCommands <= 2`, the conditions without which
section 4 has counterexamples. The invariant `Agreement` adds to `StatesAgree`
what makes it inductive: the contexts in the undo stack fit too, since UNDO brings
them back; a conversion has text; a secure domain has no suggestions; live
conversion is on in an insecure conversion only; and at most one command of a sequence
has been executed, which is where a third command would break it.

**SessionHandlerProofs** (990), first part: the loader alone. From `LoaderAssumption`:
`LoaderTypeCorrect`, `HandedOver`, `NeverDowngrades`, `FailuresStayOut`. The properties are about the engine's side
(`data`, `response`) and the decisions are taken on the loader's side (`requests_`,
`current_request_id_`); `RequestsInv` (a request in the list never failed, the current
one is in the list), `TakenInv` (what is being loaded was preferred to the current one)
and `HandOverInv` (what is current is what was handed over last) tie them together.

Second part: the server. `ServerImplementsLoader`: every behaviour of the server
with all its commands is one of `DataLoader`, so the loader's theorems carry over
(`LoaderInServer` is `ResponseIsCurrent` of the server). `EngineNeverMoves`,
`SettingsAlwaysAgree`, `IdleTimeExact`: the invariant `HandlerInv` has, beside the
loader's invariant and the types, `MapInv`: the list of use has no key twice, its keys
are those of the map, and every session *and every context in its undo stack* carries
the present settings. The last is what SetConfig's `ClearUndoContext` is for: without it
a later UNDO would bring old settings back. Lemmas about sequences without duplicates
(`ConsKeys`, removal, front) do the work of the LRU order.

**LruCacheProofs** (2879). From `CacheAssumption` and `BlockAssumption`: `AlwaysLinked`,
for any size and number of blocks. The invariant is `Sound(c, u, f)` for some lists `u`
and `f`, the LRU list and the free list, with `Sizes`: there is room for the next block, and
the first is not empty, so that an eviction always finds a tail. No lemma follows links:
each says which lists an operation makes of which lists (`RemoveSound`: unlinking the i-th
element of `u` leaves `RemoveAt(u, i)`; `PushHeadSound`, `PushFreeSound`, `PopFreeSound`,
`AddBlockSound`, `EvictSound`, `ClearSound`), and `At`, which is 0 outside a list, makes
the ends no special case. That the iterator reads `u` and nothing else (`OneChain`) is the
one induction, on the first place where two lists of the same links would differ.
`GrowingCacheIsMap` is the refinement: `StepIsMapStep` maps each operation to the one of
`LruMap` on the entries of `u`, provided that a cache below its size can grow (`CanGrow`),
which is what `MCLruCache_short.cfg` lacks. `SmallCacheIsMap` shows `CanGrow` for
`max_elements <= 128`, where the first block is the whole cache; the session map has 2 to
128 places (`session_handler.cc:154`).

**UserDictionaryProofs** (473). From `DictionaryAssumption`. `TypeCorrect`.
`StalenessIsNoticed`, if no two saves fall into one second (`SameSecond = FALSE`; the
opposite is `MCUserDictionary_second.cfg`): the invariant `FreshInv` says that while the
time stamp looks fresh, the reloader's copy is the file, or the index is, unless an
importer that has replaced the index has yet to save. `ImportsAreKept`: `OrdersInv`, the orders
of the user are on the file, or, from the importer's last look at the queue on, in its
copy; `ApartInv`, as long as the tool and the importer have not crossed, the tool is
closed while a batch is under way. That the importer has the lock exactly while it saves is
part of the types.

**SessionWatchDogProofs** (404). `AbortIsEarned`, for any backlog, number of users, loads and
pings. `CountInv`: as long as the server serves, the number of calls that timed out in a row
is the dog's trial, and no call was closed; `HandsInv`: the server holds a request only while
serving it; and, in the types, `OneCall`: the live request of the dog is in the backlog or in
hand exactly while the dog waits for it, and only once. This is what rules out that the answer
to a call given up is taken for that of the next.

**LiveConversionProofs** (5558). From `ConstantsAssumption`, for any letters, lengths,
skipped readings, number of polls, both kinds of client timer and all situations at once:
`WorkIsCurrent`, `PreeditIsWhole`, `CommitsAreWhole`, `FeedbackAlwaysTrue`. One lemma per
operator of the session says that from a *good* session it makes a *fine* response
(what is shown spells the reading, what is committed and what is left are the text before
it). `Good` contains, beside the types: there is a reading exactly in a composition
(`Place`); work under way, and every request and answer of its generation, wherever it
is, is for the present reading (`Work`); a delayed conversion is of the
reading, which extends the last one shown (`Pend`); and the same for what UNDO would restore
(`Undone`). A handler works on sessions that are only `Loose`: a conversion that is over is
cleaned up by `LeaveConversion` at the end of the command. The feedback needs `Founded`: a
pending record is about a text of the model, an acceptance only outside a composition and
of a beginning of what stands committed, a rejection's final text is what stands. `CommandStep`
puts the pieces together for every key, `DeliverStep` for late callbacks, and the
worker's steps need `FreshFacts`: a new generation is none of those in flight.

`EnterCommitsTheShown` is proved for `Routine`: a client whose timer any key resets
(fcitx5), and no command beyond typing, Undo and conversions that fail. It needs a second
invariant on top of `LiveInv`, `ShownInv`: the last response showed the *overlay*, the
text that Enter would commit (a visible correction, else the last live conversion and the
letters since, else the converter's text), and the one callback under way, with the
client or on the wire, is one that the session still waits for (`Current`), so that a
stale one never redraws the composition. `EnterCommitsOverlay`, that Enter takes its text
from the overlay, holds without `Routine`. What is left out breaks the property, as TLC
shows: a key without a binding (`MCLiveConversion_enter.cfg`), a cursor key, a
transliteration, another candidate, and a TSF client, where the answer to a callback that
an edit has made stale shows the converter's text over a correction that Enter still
commits.

**RawReadingRecoveryProofs** (4228). From `ConstantsAssumption`, for any letters, length
of the reading, capacity of the journal and number of faults:
`NeverInTheWrongModeHolds`, `NoHiddenReadingHolds` (with the types),
`SecureLeavesNothingHolds`, `CommandsStayHomeHolds`, and, with
`TypeOverConversion = FALSE`, `ReadingSurvivesHolds`. An operation maps a world to the
set of its outcomes, so there is one lemma per operation, from the transport up: what it
keeps, and what each kind of outcome promises. `EnsureCallCommandOutcome` sorts the
outcomes of a client's call into answered, answered by nobody, and lost together with the
session. The invariant `Inv` has three parts.

* `Core`: the counters are in order (`observed <= initial <= gen`), a session whose
  generation has been initialised is on, and one whose generation the journal has not
  observed is empty. The last is why a failed replay, which goes back to the generation
  before, must leave nothing behind (`Abort`).
* `Fits`: a session that the client will use is empty or the one on the screen (`Home`); it
  holds what is on the screen if its generation has been observed and the journal is
  kept (`Mirror`); and the keys of a journal that is kept spell what is on the screen
  (`Tracks`). "Spell" is a function `g` from the places of the journal to readings, each
  made from the one before by one key. Its existence is in the invariant, so that no
  induction over the journal is needed: a recorded key extends `g` by one place
  (`SpellsAppend`), and a replay goes along it (`ReplayOutcome`, by the least
  place at which it would go astray: `WFMin` of the library).
* While the field is secure, the journal is empty and the key has gone to at most one
  session.

A key is sent to a session that is `Open` for it: its text is that on the screen, or it
is empty and the journal was given up. The same holds for the retry in a new session,
since the loss of an answer moves the generation and `Prepare` types the journal again.
With letters typed over a conversion `Tracks` is weaker, the journal may spell less than
the screen shows, which is the finding `recovery_suffix`; the other four theorems do not
need the stronger form.

**Only model-checked.**

* Liveness, which the prover does not do: `EventuallyCurrent`, `LoaderEnds`,
  `CorrectionEnds`, `ShutdownEnds`, `HangIsBroken`.
* `ImplementsMap` for a cache of several blocks without the hypothesis `CanGrow`: which
  sizes the blocks add up to is arithmetic with powers of two. `lru_cache` checks three
  elements in two blocks.
* `ReadingSurvives` for a user who types on while converting: it fails
  (`recovery_suffix`).

## 6. What is left out of the models

Segments, candidate lists, scores and spelling; the validation of a Grimodex file beyond
its three outcomes; the costs of dictionary entries; commands of the handler that
pass through to the engine without changing its own state. Further:

* `LiveConversion`: the commit by a shifted letter (it is in `ImeSession`), the key
  that typing correction replaces, candidate shortcuts, the end of the corrector's
  thread, a delay of 0, the learning of a direct commit.
* `Client`: the playback of history for clients without recovery of their own, the
  restart after a version mismatch.
* `RawReadingRecovery`: the early return in direct mode, composed strings, the digests
  of journal entries and the limit of bytes beside that of keys, key-up events, the
  guard against re-entry.
* `UserDictionary`: lookups, cancellation by destructors, a file that is deleted, the
  exchange of the engine under an importer.

Whole components that are left out are listed in `PROJECT.json` with the reason. Of the
repository's lines most are tables, data generation, text algorithms (lattice
search, rewriters, romaji tables), user interfaces and platform bindings, whose
decisions depend on data that a model would have to leave out.

## 7. Plan

1. Done: the snapshot pipeline, the session with its focus domain, the data
   loader, the session handler, the LRU cache; live conversion with the Zenz
   corrector; the client and the recovery of a raw reading; the watch dog with the
   server; the user dictionary.
2. `ConsumerHeartbeat`; the Zenz feedback store on disk; `PlaybackHistory` of
   unmanaged clients.
3. Composition: CLEANUP of `SessionHandler` from `SessionWatchDog`; `LiveConversion`
   over the contexts of `ImeSession`.
4. Proofs. Done: the safety of the snapshot pipeline, the session, the loader, the
   handler, the LRU cache, the user dictionary, the watch dog, live conversion and the
   recovery.
