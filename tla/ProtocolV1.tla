----------------------------- MODULE ProtocolV1 -----------------------------
(***************************************************************************)
(* The Grimodex snapshot pipeline (src/src/grimodex): another process      *)
(* replaces a state file and one file per project; Mozkey reads the state, *)
(* the active project and the state again (ProtocolV1Loader), publishes    *)
(* the result under a semantic sequence number                             *)
(* (ProtocolV1SnapshotPublisher) and turns it into the dictionary object a *)
(* composition may pin (ProtocolV1ProjectDictionaryProvider).  The reads   *)
(* of one reload interleave with the writer's renames.                     *)
(***************************************************************************)
EXTENDS Naturals

CONSTANTS Projects,       \* project identifiers
          Contents,       \* the semantic fields of a project file
          NativeInvalid,  \* contents that pass the loader but that
                          \* ProjectDictionarySnapshot::Create refuses
          Null,           \* a null pointer, or "no active project"
          MaxSequence,    \* the largest uint64_t
          StaleRetries,   \* ProtocolV1Loader::Options::stale_retries
          MaxClock        \* bound: how many times the writer replaces a file

ASSUME ConstantsAssumption ==
  /\ NativeInvalid \subseteq Contents
  /\ Null \notin Projects /\ Null \notin Contents
  /\ Null \notin [project : Projects, content : Contents,
                  stateStamp : Nat, projectStamp : Nat]
  /\ Null \notin [project : Projects, content : Contents]
  /\ Null \notin [generation : Nat, source : Projects, content : Contents,
                  fingerprint : Nat \X Nat]
  /\ MaxSequence \in Nat /\ StaleRetries \in Nat /\ MaxClock \in Nat

VARIABLES stateFile,      \* what is on disk under the state file's name
          projectFile,    \* what is on disk under each project's name
          clock,          \* time stamps the writer puts into the files
          pc,             \* where the running reload is
          attempt,        \* the loop counter of ProtocolV1Loader::Load
          first,          \* the bytes of the first state read
          body,           \* the bytes of the project read
          result,         \* LoadResult of the last LoadOnce
          published,      \* ProtocolV1SnapshotPublisher::published_
          failures,       \* consecutive_retryable_failures_, 2 = two or more
          cached,         \* ProtocolV1ProjectDictionaryProvider::cached_
          returned,       \* the ProjectDictionaryPublication last returned
          held,           \* the latest_ of some session's registry
          seen            \* history: the dictionaries the files held at some
                          \* moment since the running reload began

files == <<stateFile, projectFile, clock>>
loader == <<pc, attempt, first, body, result>>
publisher == <<published, failures, cached, returned, held>>
vars == <<stateFile, projectFile, clock, pc, attempt, first, body, result,
          published, failures, cached, returned, held, seen>>

-----------------------------------------------------------------------------
(* The files.  A file is missing, unusable (unreadable, oversized, or      *)
(* rejected by ParseJson and the Validate functions) or good.              *)

Status == {"missing", "invalid", "good"}
StateFiles == [status : Status, active : Projects \cup {Null}, stamp : Nat]
ProjectFiles == [status : Status, content : Contents \cup {Null}, stamp : Nat]

Diagnostics == {"kLoaded", "kInactive", "kMissingState", "kMissingSnapshot",
                "kInvalidState", "kInvalidSnapshot", "kStateChangedDuringRead"}

\* ProtocolV1Snapshot: its meaning, and the stamps that only its digests tell.
Snapshots == [project : Projects, content : Contents,
              stateStamp : Nat, projectStamp : Nat]
LoadResults == [diagnostic : Diagnostics, snapshot : Snapshots \cup {Null}]

\* dictionary::ProjectDictionarySnapshot: source_id, and the two digests that
\* Fingerprint hashes.
Dictionaries == [generation : Nat, source : Projects, content : Contents,
                 fingerprint : Nat \X Nat]

Meanings == [project : Projects, content : Contents]
Meaning(s) == IF s = Null THEN Null
              ELSE [project |-> s.project, content |-> s.content]

\* ProtocolV1Snapshot::SemanticallyEquals
SemanticallyEquals(a, b) == a.project = b.project /\ a.content = b.content

\* LoadResult::IsRetryable
IsRetryable(diagnostic) ==
  diagnostic \in {"kMissingSnapshot", "kStateChangedDuringRead"}

\* What a reader that could see both files in one instant would load.
OnDisk(sf, pf) ==
  IF /\ sf.status = "good" /\ sf.active # Null
     /\ pf[sf.active].status = "good"
  THEN [project |-> sf.active, content |-> pf[sf.active].content]
  ELSE Null

-----------------------------------------------------------------------------
GoodState(active, stamp) ==
  [status |-> "good", active |-> active, stamp |-> stamp]
BadState(status, stamp) ==
  [status |-> status, active |-> Null, stamp |-> stamp]
GoodProject(content, stamp) ==
  [status |-> "good", content |-> content, stamp |-> stamp]
BadProject(status, stamp) ==
  [status |-> status, content |-> Null, stamp |-> stamp]

\* The server starts with whatever files an earlier run of Grimodex left.
Init ==
  /\ stateFile \in {GoodState(a, 0) : a \in Projects \cup {Null}}
                   \cup {BadState("missing", 0)}
  /\ projectFile \in [Projects -> {GoodProject(c, 0) : c \in Contents}
                                   \cup {BadProject("missing", 0)}]
  /\ clock = 0
  /\ pc = "idle" /\ attempt = 0
  /\ first = BadState("missing", 0)
  /\ body = BadProject("missing", 0)
  /\ result = [diagnostic |-> "kInactive", snapshot |-> Null]
  /\ published = [sequence |-> 0, snapshot |-> Null, diagnostic |-> "kInactive"]
  /\ failures = 0
  /\ cached = Null
  /\ returned = [snapshot |-> Null, clear |-> TRUE]
  /\ held = Null
  /\ seen = {}

(* The writer (external).  A replacement is a rename, so a reader sees the *)
(* old bytes or the new ones; every replacement carries a new time stamp.  *)
Replace ==
  /\ clock < MaxClock
  /\ clock' = clock + 1
  /\ seen' = IF pc = "idle" THEN seen
             ELSE seen \cup {OnDisk(stateFile', projectFile')}
  /\ UNCHANGED <<loader, publisher>>

WriteState(file) ==
  /\ stateFile' = file
  /\ UNCHANGED projectFile
  /\ Replace

WriteProject(p, file) ==
  /\ projectFile' = [projectFile EXCEPT ![p] = file]
  /\ UNCHANGED stateFile
  /\ Replace

-----------------------------------------------------------------------------
(* ProtocolV1Loader.  Load calls LoadOnce up to StaleRetries + 1 times.    *)

\* ProtocolV1ProjectDictionaryProvider::Reload takes its mutex, calls
\* ProtocolV1SnapshotPublisher::Reload and that one calls Load.
StartReload ==
  /\ pc = "idle"
  /\ pc' = "state1"
  /\ attempt' = 0
  /\ seen' = {OnDisk(stateFile, projectFile)}
  /\ UNCHANGED <<files, first, body, result, publisher>>

\* Mutant: one retry too many.
LoadOnceReturnsExtraRetry(diagnostic, snapshot) ==
  /\ result' = [diagnostic |-> diagnostic, snapshot |-> snapshot]
  /\ IF IsRetryable(diagnostic) /\ attempt <= StaleRetries
       THEN pc' = "state1" /\ attempt' = attempt + 1
       ELSE pc' = "publish" /\ UNCHANGED attempt

\* LoadOnce returned: try again if the failure is retryable and a retry is
\* left, else hand the result to the publisher.
LoadOnceReturns(diagnostic, snapshot) ==
  /\ result' = [diagnostic |-> diagnostic, snapshot |-> snapshot]
  /\ IF IsRetryable(diagnostic) /\ attempt < StaleRetries
       THEN pc' = "state1" /\ attempt' = attempt + 1
       ELSE pc' = "publish" /\ UNCHANGED attempt

ReadFirstState ==
  /\ pc = "state1"
  /\ first' = stateFile
  /\ \/ /\ stateFile.status = "missing"
        /\ LoadOnceReturns("kMissingState", Null)
     \/ /\ stateFile.status = "invalid"
        /\ LoadOnceReturns("kInvalidState", Null)
     \/ /\ stateFile.status = "good" /\ stateFile.active = Null
        /\ LoadOnceReturns("kInactive", Null)
     \/ /\ stateFile.status = "good" /\ stateFile.active # Null
        /\ pc' = "project"
        /\ UNCHANGED <<attempt, result>>
  /\ UNCHANGED <<files, body, publisher, seen>>

ReadProject ==
  /\ pc = "project"
  /\ LET file == projectFile[first.active]
     IN /\ body' = file
        /\ \/ /\ file.status = "missing"
              /\ LoadOnceReturns("kMissingSnapshot", Null)
           \/ /\ file.status = "invalid"
              /\ LoadOnceReturns("kInvalidSnapshot", Null)
           \/ /\ file.status = "good"
              /\ pc' = "state2"
              /\ UNCHANGED <<attempt, result>>
  /\ UNCHANGED <<files, first, publisher, seen>>

\* Mutant: the second read is not compared with the first.
ReadSecondStateUnchecked ==
  /\ pc = "state2"
  /\ LoadOnceReturns("kLoaded",
       [project |-> first.active, content |-> body.content,
        stateStamp |-> first.stamp, projectStamp |-> body.stamp])
  /\ UNCHANGED <<files, first, body, publisher, seen>>

\* The second read must find a valid state with the very bytes of the first.
ReadSecondState ==
  /\ pc = "state2"
  /\ IF stateFile.status = "good" /\ stateFile = first
       THEN LoadOnceReturns("kLoaded",
              [project |-> first.active, content |-> body.content,
               stateStamp |-> first.stamp, projectStamp |-> body.stamp])
       ELSE LoadOnceReturns("kStateChangedDuringRead", Null)
  /\ UNCHANGED <<files, first, body, publisher, seen>>

-----------------------------------------------------------------------------
(* ProtocolV1SnapshotPublisher::Reload after Load, and the rest of the     *)
(* provider's critical section.                                            *)

\* The first of a row of retryable failures keeps the snapshot.
InGrace == IsRetryable(result.diagnostic) /\ failures = 0

SemanticChange ==
  \/ (published.snapshot = Null) # (result.snapshot = Null)
  \/ /\ published.snapshot # Null /\ result.snapshot # Null
     /\ ~SemanticallyEquals(published.snapshot, result.snapshot)

\* Mutant: a timestamp-only rewrite takes a new sequence number.
NextSequenceAlways ==
  IF published.sequence # MaxSequence
    THEN published.sequence + 1 ELSE published.sequence

NextSequence ==
  IF SemanticChange /\ published.sequence # MaxSequence
    THEN published.sequence + 1 ELSE published.sequence

NextFailures ==
  IF ~IsRetryable(result.diagnostic) THEN 0
  ELSE IF failures = 2 THEN 2 ELSE failures + 1

\* Mutant: the grace is not limited to the first failure of a row.
NextPublishedNoGraceLimit ==
  IF IsRetryable(result.diagnostic)
    THEN [published EXCEPT !.diagnostic = result.diagnostic]
    ELSE [sequence |-> NextSequence, snapshot |-> result.snapshot,
          diagnostic |-> result.diagnostic]

NextPublished ==
  IF InGrace
    THEN [published EXCEPT !.diagnostic = result.diagnostic]
    ELSE [sequence |-> NextSequence, snapshot |-> result.snapshot,
          diagnostic |-> result.diagnostic]

\* BuildProjectDictionarySnapshot: a fresh load or the grace, with a snapshot
\* that the native index accepts; Null when the bridge is not ready.
Bridge(pub) ==
  IF \/ pub.snapshot = Null
     \/ pub.diagnostic # "kLoaded" /\ ~IsRetryable(pub.diagnostic)
     \/ pub.snapshot.content \in NativeInvalid
    THEN Null
    ELSE [generation |-> pub.sequence, source |-> pub.snapshot.project,
          content |-> pub.snapshot.content,
          fingerprint |-> <<pub.snapshot.stateStamp, pub.snapshot.projectStamp>>]

\* Mutant: no reuse, every reload builds a dictionary of its own.
NativeUncached(pub) == Bridge(pub)

\* Mutant: the cache is not keyed by the generation.
NativeAnyGeneration(pub) ==
  IF pub.snapshot # Null /\ cached # Null THEN cached ELSE Bridge(pub)

\* The provider reuses the dictionary it built for this generation.
Native(pub) ==
  IF /\ pub.snapshot # Null /\ cached # Null
     /\ pub.sequence = cached.generation
    THEN cached ELSE Bridge(pub)

\* ProjectDictionaryRegistry::Publish of a dictionary, and OnStartComposition's
\* purge after a refusal or a cleared publication.
RegistryPublish(latest, dictionary) ==
  IF dictionary = Null THEN Null
  ELSE IF latest = Null \/ dictionary.generation > latest.generation
    THEN dictionary
  ELSE IF /\ dictionary.generation = latest.generation
          /\ dictionary.source = latest.source
          /\ dictionary.fingerprint = latest.fingerprint
    THEN latest
  ELSE Null

\* The session that asked for the reload publishes the result in its registry;
\* the one whose registry is held may be another session.
Publish ==
  /\ pc = "publish"
  /\ published' = NextPublished
  /\ failures' = NextFailures
  /\ cached' = Native(NextPublished)
  /\ returned' = [snapshot |-> cached', clear |-> cached' = Null]
  /\ held' \in {held, RegistryPublish(held, cached')}
  /\ pc' = "idle"
  /\ UNCHANGED <<files, attempt, first, body, result, seen>>

-----------------------------------------------------------------------------
Write ==
  \/ \E a \in Projects \cup {Null} : WriteState(GoodState(a, clock + 1))
  \/ \E s \in {"missing", "invalid"} : WriteState(BadState(s, clock + 1))
  \/ \E p \in Projects, c \in Contents :
       WriteProject(p, GoodProject(c, clock + 1))
  \/ \E p \in Projects, s \in {"missing", "invalid"} :
       WriteProject(p, BadProject(s, clock + 1))

Reload == \/ StartReload \/ ReadFirstState \/ ReadProject \/ ReadSecondState
          \/ Publish

Next == Write \/ Reload

Spec == Init /\ [][Next]_vars

\* Every composition starts a reload, and a reload that has begun runs on; the
\* writer may stop at any moment.
Fairness == WF_vars(Reload)
FairSpec == Spec /\ Fairness

-----------------------------------------------------------------------------
(* Properties.                                                             *)

TypeOK ==
  /\ stateFile \in StateFiles /\ first \in StateFiles
  /\ projectFile \in [Projects -> ProjectFiles] /\ body \in ProjectFiles
  /\ clock \in 0..MaxClock
  /\ pc \in {"idle", "state1", "project", "state2", "publish"}
  /\ attempt \in 0..StaleRetries
  /\ result \in LoadResults
  /\ published \in [sequence : 0..MaxSequence, snapshot : Snapshots \cup {Null},
                    diagnostic : Diagnostics]
  /\ failures \in 0..2
  /\ cached \in Dictionaries \cup {Null}
  /\ held \in Dictionaries \cup {Null}
  /\ returned \in [snapshot : Dictionaries \cup {Null}, clear : BOOLEAN]
  /\ seen \subseteq Meanings \cup {Null}

\* The S1/project/S2 protocol is atomic: whatever LoadOnce reports as loaded is
\* a project that was active, with exactly that content on disk, at one single
\* moment since the reload began, however the writer's renames interleaved.
LoadedWasOnDisk ==
  pc = "publish" /\ result.diagnostic = "kLoaded" => Meaning(result.snapshot) \in seen

\* OnStartComposition calls a refused publication "an impossible local
\* conflict": a dictionary that a reload returns is never older than one a
\* session already holds, and is the same object when the generation is the same.
ConflictIsImpossible ==
  published.sequence < MaxSequence /\ returned.snapshot # Null /\ held # Null =>
    \/ held.generation < returned.snapshot.generation
    \/ held = returned.snapshot

\* What a composition that starts now should get.
Wanted ==
  LET d == OnDisk(stateFile, projectFile)
  IN IF d # Null /\ d.content \notin NativeInvalid THEN d ELSE Null

ReturnedMeaning(r) ==
  IF r.snapshot = Null THEN Null
  ELSE [project |-> r.snapshot.source, content |-> r.snapshot.content]

\* A reload that lost no race and during which the files' meaning did not
\* change returns what they hold; the only exception is the first of a row of
\* retryable failures, which may keep the dictionary already published, and a
\* second one in a row never does.  Without a sequence number left, a change is
\* not told from a rewrite.
QuietReloadIsExact ==
  [][pc = "publish" /\ pc' = "idle" /\ result.diagnostic # "kStateChangedDuringRead"
       /\ published.sequence < MaxSequence
       /\ seen = {OnDisk(stateFile, projectFile)} =>
       \/ ReturnedMeaning(returned') = Wanted
       \/ failures = 0 /\ failures' = 1 /\ published'.snapshot = published.snapshot]_vars

\* Once Grimodex stops writing, compositions end up with what is on disk and
\* stay there: neither the grace nor a lost race can hold an old project.
EventuallyCurrent == <>[](ReturnedMeaning(returned) = Wanted)

\* The publisher implements the semantic publication its readers cache by.
Abstract == INSTANCE SemanticPublication WITH
  generation <- published.sequence, meaning <- Meaning(published.snapshot)
RefinesSemanticPublication == Abstract!PubSpec

==============================================================================
