--------------------------- MODULE UserDictionary ---------------------------
(***************************************************************************)
(* The user dictionary's file and the words that conversions use of it:    *)
(* src/src/dictionary/user_dictionary.cc (UserDictionary with its reloader *)
(* thread, AsyncUserDictionaryImporter with its own) and                   *)
(* user_dictionary_storage.cc.  The file is shared with the dictionary     *)
(* tool, another process (src/src/gui/dictionary_tool).                    *)
(*                                                                         *)
(* A content maps the names of the dictionaries to what they hold; what a  *)
(* dictionary holds is one value, None if there is no such dictionary.     *)
(***************************************************************************)
EXTENDS Naturals, Sequences, FiniteSets

CONSTANTS Names, Words, None,
          Big,              \* what makes an index very big
          MaxDictionaries,  \* kMaxDictionarySize
          MaxSaves, MaxImports, MaxFaults,
          SameSecond        \* whether two saves may come within one second

ASSUME DictionaryAssumption ==
  /\ None \notin Words \cup {"tool", "importer"} /\ Big \subseteq Words
  /\ IsFiniteSet(Names)
  /\ {MaxDictionaries, MaxSaves, MaxImports, MaxFaults} \subseteq Nat
  /\ SameSecond \in BOOLEAN

VARIABLES
  file,      \* what is on disk and its st_mtime, 0 if there is no file
  lock,      \* who holds the ProcessMutex
  tool,      \* the dictionary tool and its copy of the storage
  server,    \* the thread that runs commands
  tokens,    \* tokens_: what lookups see
  modified,  \* modified_at_ of the reloader
  reloader,  \* the reloader's task and the storage it has read
  queue,     \* queue_ of the importer
  importer,  \* the importer's task and its storage
  left,      \* what is left of the bounds
  since,     \* history: the file's contents since RELOAD_AND_WAIT began
  failed,    \* history: time stamps of the files that could not be loaded
  want,      \* history: the file as saves and imports have ordered it
  unsaved,   \* history: the importer could not write its last result
  crossed    \* history: the tool has been open during an import

vars == <<file, lock, tool, server, tokens, modified, reloader, queue, importer,
          left, since, failed, want, unsaved, crossed>>
onDisk == <<file, since>>

Dictionaries(content) == {n \in Names : content[n] # None}
Contents == {c \in [Names -> Words \cup {None}] :
               Cardinality(Dictionaries(c)) <= MaxDictionaries}
Empty == [n \in Names |-> None]
Imports == [name : Names, word : Words \cup {None}]

\* The constructor of UserDictionary has called Reload.
Init ==
  /\ file \in {[content |-> Empty, stamp |-> 0]} \cup [content : Contents, stamp : {1}]
  /\ lock = None /\ tool = [at |-> "closed", copy |-> Empty]
  /\ server = "ready" /\ tokens = Empty /\ modified = file.stamp
  /\ reloader = [at |-> IF file.stamp = 0 THEN "idle" ELSE "load", copy |-> Empty]
  /\ queue = <<>> /\ importer = [at |-> "idle", copy |-> Empty]
  /\ left = [saves |-> MaxSaves, imports |-> MaxImports, faults |-> MaxFaults]
  /\ since = {} /\ failed = {} /\ want = file.content /\ unsaved = FALSE
  /\ crossed = FALSE

-----------------------------------------------------------------------------
(* UserDictionaryStorage.                                                   *)

\* Load: a file that cannot be opened or that breaks off leaves whatever part
\* of it has been parsed.
Loads ==
  {[ok |-> file.stamp # 0, content |-> file.content, left |-> left]}
  \cup {[ok |-> FALSE, content |-> [n \in Names |-> IF n \in part THEN file.content[n]
                                                    ELSE None],
         left |-> [left EXCEPT !.faults = @ - 1]] :
          part \in IF left.faults > 0 /\ file.stamp # 0 THEN SUBSET Names ELSE {}}

\* A successful Save: the file is renamed into place, with a new time stamp if
\* a second has passed.
Saved(content) ==
  /\ \E n \in {1} \cup IF SameSecond /\ file.stamp # 0 THEN {0} ELSE {} :
       file' = [content |-> content, stamp |-> file.stamp + n]
  /\ since' = IF server = "waiting" THEN since \cup {content} ELSE since

Fault == /\ left.faults > 0 /\ left' = [left EXCEPT !.faults = @ - 1]

\* GetUserDictionary, and the entries replaced or the dictionary deleted; a
\* new name that does not fit any more is skipped.
Imported(content, i) ==
  IF content[i.name] = None
     /\ Cardinality(Dictionaries(content)) >= MaxDictionaries
  THEN content ELSE [content EXCEPT ![i.name] = i.word]

-----------------------------------------------------------------------------
(* The dictionary tool: it loads the storage, takes the lock and keeps it   *)
(* until it exits; whenever it loses the focus it saves and asks the server *)
(* to reload.                                                               *)

Importing == importer.at # "idle" \/ queue # <<>> \/ server = "scheduling"

ToolLoad ==
  /\ tool.at = "closed" /\ left.saves > 0 /\ crossed' = (crossed \/ Importing)
  /\ \E l \in Loads : tool' = [at |-> "loaded", copy |-> l.content] /\ left' = l.left
  /\ UNCHANGED <<onDisk, lock, server, tokens, modified, reloader, queue, importer,
                 failed, want, unsaved>>

ToolLock ==
  /\ tool.at = "loaded"
  /\ IF lock = None THEN lock' = "tool" /\ tool' = [tool EXCEPT !.at = "open"]
     ELSE tool' = [at |-> "closed", copy |-> Empty] /\ UNCHANGED lock
  /\ UNCHANGED <<onDisk, server, tokens, modified, reloader, queue, importer, left,
                 failed, want, unsaved, crossed>>

\* The user's edit and SaveAndReloadServer up to the RELOAD, which comes to
\* the server like any other.
ToolSave ==
  /\ tool.at = "open" /\ left.saves > 0
  /\ \E n \in Names, word \in Words \cup {None} :
       LET copy == [tool.copy EXCEPT ![n] = word]
       IN  /\ copy \in Contents /\ tool' = [tool EXCEPT !.copy = copy]
           /\ \/ Saved(copy) /\ want' = copy /\ unsaved' = FALSE
                 /\ left' = [left EXCEPT !.saves = @ - 1]
              \/ Fault /\ UNCHANGED <<onDisk, want, unsaved>>
  /\ UNCHANGED <<lock, server, tokens, modified, reloader, queue, importer, failed,
                 crossed>>

\* The tool is closed, or killed: the lock goes with the process.
ToolExit ==
  /\ tool.at = "open" /\ tool' = [at |-> "closed", copy |-> Empty] /\ lock' = None
  /\ UNCHANGED <<onDisk, server, tokens, modified, reloader, queue, importer, left,
                 failed, want, unsaved, crossed>>

-----------------------------------------------------------------------------
(* The server's thread.                                                     *)

\* MaybeStartReload.
MaybeStartReload ==
  IF reloader.at # "idle" \/ file.stamp = 0 \/ modified = file.stamp
  THEN UNCHANGED <<modified, reloader>>
  ELSE modified' = file.stamp /\ reloader' = [reloader EXCEPT !.at = "load"]

\* RELOAD (what it does to the sessions is in SessionHandler).
Reload ==
  /\ server = "ready" /\ MaybeStartReload
  /\ UNCHANGED <<onDisk, lock, tool, server, tokens, queue, importer, left, failed,
                 want, unsaved, crossed>>

\* RELOAD_AND_WAIT, and the end of its wait.
ReloadAndWait ==
  /\ server = "ready" /\ MaybeStartReload
  /\ server' = "waiting" /\ since' = {file.content}
  /\ UNCHANGED <<file, lock, tool, tokens, queue, importer, left, failed, want, unsaved,
                 crossed>>

WaitForReloader ==
  /\ server = "waiting" /\ reloader.at = "idle"
  /\ server' = "ready" /\ since' = {}
  /\ UNCHANGED <<file, lock, tool, tokens, modified, reloader, queue, importer, left,
                 failed, want, unsaved, crossed>>

\* IMPORT_USER_DICTIONARY: the first half of Import.
Import ==
  /\ server = "ready" /\ crossed' = (crossed \/ tool.at # "closed")
  /\ left.imports > 0 /\ left' = [left EXCEPT !.imports = @ - 1]
  /\ \E i \in Imports : queue' = Append(queue, i)
  /\ server' = "scheduling"
  /\ UNCHANGED <<onDisk, lock, tool, tokens, modified, reloader, importer, failed,
                 want, unsaved>>

\* The second half: a task that has not ended is taken to be at work.
Schedule ==
  /\ server = "scheduling" /\ server' = "ready"
  /\ importer' = IF importer.at = "idle" THEN [importer EXCEPT !.at = "check"]
                 ELSE importer
  /\ UNCHANGED <<onDisk, lock, tool, tokens, modified, reloader, queue, left, failed,
                 want, unsaved, crossed>>

-----------------------------------------------------------------------------
(* UserDictionary::Load, which either thread may be in.                     *)

VeryBig(content) == \E n \in Names : content[n] \in Big

\* A very big index is freed before the new one is built.
Placeholder == tokens' = IF VeryBig(tokens) THEN Empty ELSE tokens

-----------------------------------------------------------------------------
(* The reloader: UserDictionaryReloader::ThreadMain.                        *)

ReloaderLoad ==
  /\ reloader.at = "load"
  /\ \E l \in Loads :
       /\ left' = l.left
       /\ reloader' = IF l.ok THEN [at |-> "clear", copy |-> l.content]
                      ELSE [reloader EXCEPT !.at = "ending"]
       /\ failed' = IF l.ok THEN failed ELSE failed \cup {modified}
  /\ UNCHANGED <<onDisk, lock, tool, server, tokens, modified, queue, importer, want,
                 unsaved, crossed>>

ReloaderClear ==
  /\ reloader.at = "clear" /\ Placeholder
  /\ reloader' = [reloader EXCEPT !.at = "publish"]
  /\ UNCHANGED <<onDisk, lock, tool, server, modified, queue, importer, left, failed,
                 want, unsaved, crossed>>

\* Mutant: the time stamp is taken when the load is over.
ReloaderPublish_StampLast ==
  /\ reloader.at = "publish" /\ tokens' = reloader.copy /\ modified' = file.stamp
  /\ reloader' = [at |-> "ending", copy |-> Empty]
  /\ UNCHANGED <<onDisk, lock, tool, server, queue, importer, left, failed, want,
                 unsaved, crossed>>

ReloaderPublish ==
  /\ reloader.at = "publish" /\ tokens' = reloader.copy
  /\ reloader' = [at |-> "ending", copy |-> Empty]
  /\ UNCHANGED <<onDisk, lock, tool, server, modified, queue, importer, left, failed,
                 want, unsaved, crossed>>

\* The task is done, IsRunning false.
ReloaderEnd ==
  /\ reloader.at = "ending" /\ reloader' = [reloader EXCEPT !.at = "idle"]
  /\ UNCHANGED <<onDisk, lock, tool, server, tokens, modified, queue, importer, left,
                 failed, want, unsaved, crossed>>

-----------------------------------------------------------------------------
(* The importer: AsyncUserDictionaryImporter::StartImportLoop.              *)

ImporterCheck ==
  /\ importer.at = "check"
  /\ importer' = [importer EXCEPT !.at = IF queue = <<>> THEN "ending" ELSE "load"]
  /\ UNCHANGED <<onDisk, lock, tool, server, tokens, modified, reloader, queue, left,
                 failed, want, unsaved, crossed>>

\* Mutant: the batch starts from an empty storage.
ImporterLoad_Blank ==
  /\ importer.at = "load" /\ importer' = [at |-> "pop", copy |-> Empty]
  /\ UNCHANGED <<onDisk, lock, tool, server, tokens, modified, reloader, queue, left,
                 failed, want, unsaved, crossed>>

\* A storage that cannot be loaded is overwritten, for the import to succeed.
ImporterLoad ==
  /\ importer.at = "load"
  /\ \E l \in Loads : /\ importer' = [at |-> "pop", copy |-> l.content] /\ left' = l.left
                      /\ want' = IF l.ok THEN want ELSE l.content
  /\ UNCHANGED <<onDisk, lock, tool, server, tokens, modified, reloader, queue, failed,
                 unsaved, crossed>>

ImporterPop ==
  /\ importer.at = "pop" /\ queue # <<>>
  /\ importer' = [importer EXCEPT !.copy = Imported(@, Head(queue))]
  /\ want' = Imported(want, Head(queue)) /\ queue' = Tail(queue)
  /\ UNCHANGED <<onDisk, lock, tool, server, tokens, modified, reloader, left, failed,
                 unsaved, crossed>>

ImporterClear ==
  /\ importer.at = "pop" /\ queue = <<>> /\ Placeholder
  /\ importer' = [importer EXCEPT !.at = "publish"]
  /\ UNCHANGED <<onDisk, lock, tool, server, modified, reloader, queue, left, failed,
                 want, unsaved, crossed>>

ImporterPublish ==
  /\ importer.at = "publish" /\ tokens' = importer.copy
  /\ importer' = [importer EXCEPT !.at = "lock"]
  /\ UNCHANGED <<onDisk, lock, tool, server, modified, reloader, queue, left, failed,
                 want, unsaved, crossed>>

\* Lock; without it Save is refused.
ImporterLock ==
  /\ importer.at = "lock"
  /\ IF lock = None
     THEN /\ lock' = "importer" /\ importer' = [importer EXCEPT !.at = "save"]
          /\ UNCHANGED <<want, unsaved>>
     ELSE /\ importer' = [at |-> "check", copy |-> Empty]
          /\ want' = file.content /\ unsaved' = TRUE /\ UNCHANGED lock
  /\ UNCHANGED <<onDisk, tool, server, tokens, modified, reloader, queue, left, failed,
                 crossed>>

\* Save and UnLock.
ImporterSave ==
  /\ importer.at = "save" /\ lock' = None
  /\ importer' = [at |-> "check", copy |-> Empty]
  /\ \/ Saved(importer.copy) /\ unsaved' = FALSE /\ UNCHANGED <<left, want>>
     \/ Fault /\ want' = file.content /\ unsaved' = TRUE /\ UNCHANGED onDisk
  /\ UNCHANGED <<tool, server, tokens, modified, reloader, queue, failed, crossed>>

ImporterEnd ==
  /\ importer.at = "ending" /\ importer' = [importer EXCEPT !.at = "idle"]
  /\ UNCHANGED <<onDisk, lock, tool, server, tokens, modified, reloader, queue, left,
                 failed, want, unsaved, crossed>>

-----------------------------------------------------------------------------
Tool == ToolLoad \/ ToolLock \/ ToolSave \/ ToolExit
Commands == Reload \/ ReloadAndWait \/ WaitForReloader \/ Import \/ Schedule
Reloader == ReloaderLoad \/ ReloaderClear \/ ReloaderPublish \/ ReloaderEnd
Importer == \/ ImporterCheck \/ ImporterLoad \/ ImporterPop \/ ImporterClear
            \/ ImporterPublish \/ ImporterLock \/ ImporterSave \/ ImporterEnd

Next == Tool \/ Commands \/ Reloader \/ Importer

Spec == Init /\ [][Next]_vars

\* Threads that are running go on, and a command that has begun is finished.
FairSpec == Spec /\ WF_vars(Reloader) /\ WF_vars(Importer)
                 /\ WF_vars(WaitForReloader \/ Schedule)

-----------------------------------------------------------------------------
\* The types.
TypeOK ==
  /\ file \in [content : Contents, stamp : Nat] /\ lock \in {None, "tool", "importer"}
  /\ tool \in [at : {"closed", "loaded", "open"}, copy : Contents]
  /\ server \in {"ready", "waiting", "scheduling"}
  /\ {tokens, want} \cup since \subseteq Contents
  /\ {modified} \cup failed \subseteq 0..file.stamp
  /\ reloader \in [at : {"idle", "load", "clear", "publish", "ending"}, copy : Contents]
  /\ queue \in Seq(Imports)
  /\ importer \in [at : {"idle", "check", "load", "pop", "publish", "lock", "save",
                         "ending"}, copy : Contents]
  /\ {unsaved, crossed} \subseteq BOOLEAN
  /\ tool.at = "open" <=> lock = "tool"
  /\ importer.at = "save" <=> lock = "importer"

\* Conversions may lag behind the file, but never for good: when no thread is
\* at work and lookups see something other than the file, the next RELOAD
\* notices it by the time stamp.  The exceptions are a file that could not be
\* loaded and an import that could not be saved.
StaleIsNoticed ==
  /\ TypeOK
  /\ reloader.at = "idle" /\ importer.at = "idle" /\ tokens # file.content =>
       modified # file.stamp \/ modified \in failed \/ unsaved

\* Between two batches the file holds what the tool saved last with every
\* import since in the order of the commands, whatever arrived while a batch
\* was under way; a batch that cannot be written is dropped as a whole.  (When
\* the tool is open meanwhile, one may overwrite the other: see ImportsSurvive.)
ImportsKept ==
  importer.at \in {"idle", "check", "ending"} /\ ~crossed => file.content = want

\* "reload mutable data and wait for finish": after RELOAD_AND_WAIT lookups see
\* the file as it was when the command came, or newer.
ReloadAndWaitIsCurrent ==
  [][WaitForReloader => tokens \in since \/ modified \in failed]_vars

\* "Lock the dictionary so that other processes/threads cannot execute mutable
\* operations": the same when the tool was open meanwhile.
ImportsSurvive == importer.at \in {"idle", "check", "ending"} => file.content = want

\* An import that was accepted is carried out.
ImportsLand == queue # <<>> ~> queue = <<>>
=============================================================================
