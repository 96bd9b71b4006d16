-------------------------- MODULE ProtocolV1Proofs --------------------------
(***************************************************************************)
(* Proofs about the snapshot pipeline, for any set of projects and         *)
(* contents, any number of retries and any number of writes.               *)
(***************************************************************************)
EXTENDS ProtocolV1, TLAPS

\* A good file carries a real content, and no file is stamped in the future.
FilesOK ==
  /\ \A p \in Projects : projectFile[p].status = "good" => projectFile[p].content \in Contents
  /\ stateFile.stamp <= clock
  /\ first.stamp <= clock

\* What the reads made so far say about the bytes they returned.
ReadsOK ==
  /\ pc \in {"project", "state2"} => first.status = "good" /\ first.active \in Projects
  /\ pc = "state2" => body.status = "good" /\ body.content \in Contents

\* While a reload runs, every state of the files since it began is recorded.
DiskIsSeen == pc # "idle" => OnDisk(stateFile, projectFile) \in seen

\* The heart of the S1/project/S2 protocol: as long as the state file is still
\* the one of the first read, the project read belongs to it.
FirstReadStands ==
  pc = "state2" /\ stateFile = first =>
    [project |-> first.active, content |-> body.content] \in seen

Inv == TypeOK /\ FilesOK /\ ReadsOK /\ DiskIsSeen /\ FirstReadStands /\ LoadedWasOnDisk

-----------------------------------------------------------------------------
LEMMA OnDiskType ==
  ASSUME NEW sf \in StateFiles, NEW pf \in [Projects -> ProjectFiles],
         \A p \in Projects : pf[p].status = "good" => pf[p].content \in Contents
  PROVE  OnDisk(sf, pf) \in Meanings \cup {Null}
BY DEF OnDisk, StateFiles, ProjectFiles, Meanings

\* The pipeline starts with no dictionary and no reload under way.
LEMMA InitInv == Init => Inv
<1> SUFFICES ASSUME Init PROVE Inv
  OBVIOUS
<1> USE ConstantsAssumption
<1>1. TypeOK
  BY DEF Init, TypeOK, GoodState, BadState, GoodProject, BadProject, StateFiles,
         ProjectFiles, Status, LoadResults, Diagnostics
<1>2. FilesOK
  BY DEF Init, FilesOK, GoodState, BadState, GoodProject, BadProject
<1>3. ReadsOK /\ DiskIsSeen /\ FirstReadStands /\ LoadedWasOnDisk
  BY DEF Init, ReadsOK, DiskIsSeen, FirstReadStands, LoadedWasOnDisk
<1>4. QED
  BY <1>1, <1>2, <1>3 DEF Inv

\* Each conjunct of the next-state relation's writer, in one form.
LEMMA WriterStep ==
  ASSUME TypeOK, Write
  PROVE  /\ Replace
         /\ \/ /\ stateFile' \in StateFiles /\ stateFile'.stamp = clock + 1
               /\ projectFile' = projectFile
            \/ /\ stateFile' = stateFile
               /\ \E p \in Projects, f \in ProjectFiles :
                    /\ projectFile' = [projectFile EXCEPT ![p] = f]
                    /\ f.status = "good" => f.content \in Contents
BY DEF Write, WriteState, WriteProject, GoodState, BadState, GoodProject,
       BadProject, StateFiles, ProjectFiles, Status, TypeOK

\* A rename by the writer, at any point of a reload.
LEMMA WriteInv == Inv /\ Write => Inv'
<1> SUFFICES ASSUME Inv, Write PROVE Inv'
  OBVIOUS
<1> USE ConstantsAssumption
<1>0. TypeOK /\ FilesOK /\ ReadsOK /\ DiskIsSeen /\ FirstReadStands /\ LoadedWasOnDisk
  BY DEF Inv
<1>1. /\ Replace
      /\ \/ /\ stateFile' \in StateFiles /\ stateFile'.stamp = clock + 1
            /\ projectFile' = projectFile
         \/ /\ stateFile' = stateFile
            /\ \E p \in Projects, f \in ProjectFiles :
                 /\ projectFile' = [projectFile EXCEPT ![p] = f]
                 /\ f.status = "good" => f.content \in Contents
  BY <1>0, WriterStep
<1>2. /\ clock < MaxClock /\ clock' = clock + 1
      /\ UNCHANGED <<pc, attempt, first, body, result, published, failures, cached,
                     returned, held>>
      /\ seen' = IF pc = "idle" THEN seen
                 ELSE seen \cup {OnDisk(stateFile', projectFile')}
  BY <1>1 DEF Replace, loader, publisher
<1>3. stateFile' \in StateFiles /\ projectFile' \in [Projects -> ProjectFiles]
  BY <1>0, <1>1 DEF TypeOK
<1>4. FilesOK'
  BY <1>0, <1>1, <1>2 DEF FilesOK, TypeOK, StateFiles
<1>5. OnDisk(stateFile', projectFile') \in Meanings \cup {Null}
  BY <1>3, <1>4, OnDiskType DEF FilesOK
<1>6. TypeOK'
  BY <1>0, <1>2, <1>3, <1>5 DEF TypeOK
<1>7. ReadsOK'
  BY <1>0, <1>2 DEF ReadsOK
<1>8. DiskIsSeen'
  BY <1>2 DEF DiskIsSeen
<1>9. FirstReadStands'
  <2>1. CASE stateFile' = stateFile
    BY <1>0, <1>2, <2>1 DEF FirstReadStands
  <2>2. CASE stateFile'.stamp = clock + 1
    <3>1. first.stamp \in Nat /\ clock \in Nat /\ first.stamp <= clock
      BY <1>0 DEF FilesOK, TypeOK, StateFiles
    <3>2. stateFile' # first'
      BY <1>2, <2>2, <3>1
    <3>3. QED
      BY <3>2 DEF FirstReadStands
  <2>3. QED
    BY <1>1, <2>1, <2>2
<1>10. LoadedWasOnDisk'
  BY <1>0, <1>2 DEF LoadedWasOnDisk
<1>11. QED
  BY <1>4, <1>6, <1>7, <1>8, <1>9, <1>10 DEF Inv

\* What the publisher and the provider compute keeps its type.
LEMMA PublishTypes ==
  ASSUME TypeOK
  PROVE  /\ NextPublished \in [sequence : 0..MaxSequence,
                               snapshot : Snapshots \cup {Null},
                               diagnostic : Diagnostics]
         /\ NextFailures \in 0..2
         /\ Native(NextPublished) \in Dictionaries \cup {Null}
         /\ RegistryPublish(held, Native(NextPublished)) \in Dictionaries \cup {Null}
<1> USE ConstantsAssumption
<1>1. NextSequence \in 0..MaxSequence
  BY DEF TypeOK, NextSequence
<1>2. NextPublished \in [sequence : 0..MaxSequence, snapshot : Snapshots \cup {Null},
                         diagnostic : Diagnostics]
  BY <1>1 DEF TypeOK, NextPublished, LoadResults
<1>3. NextFailures \in 0..2
  BY DEF TypeOK, NextFailures
<1>4. \A pub \in [sequence : 0..MaxSequence, snapshot : Snapshots \cup {Null},
                  diagnostic : Diagnostics] :
        Bridge(pub) \in Dictionaries \cup {Null}
  BY DEF Bridge, Snapshots, Dictionaries
<1>5. Native(NextPublished) \in Dictionaries \cup {Null}
  BY <1>2, <1>4 DEF Native, TypeOK
<1>6. RegistryPublish(held, Native(NextPublished)) \in Dictionaries \cup {Null}
  BY <1>5 DEF RegistryPublish, TypeOK
<1>7. QED
  BY <1>2, <1>3, <1>5, <1>6

\* A step of the reload itself: a read of a file, or the publication.
LEMMA ReloadInv == Inv /\ Reload => Inv'
<1> SUFFICES ASSUME Inv, Reload PROVE Inv'
  OBVIOUS
<1> USE ConstantsAssumption
<1>0. TypeOK /\ FilesOK /\ ReadsOK /\ DiskIsSeen /\ FirstReadStands /\ LoadedWasOnDisk
  BY DEF Inv
<1>1. CASE StartReload
  <2>1. OnDisk(stateFile, projectFile) \in Meanings \cup {Null}
    BY <1>0, OnDiskType DEF TypeOK, FilesOK
  <2>2. TypeOK'
    BY <1>0, <1>1, <2>1 DEF StartReload, TypeOK, files, publisher
  <2>3. FilesOK' /\ ReadsOK' /\ DiskIsSeen' /\ FirstReadStands' /\ LoadedWasOnDisk'
    BY <1>0, <1>1 DEF StartReload, files, publisher, FilesOK, ReadsOK, DiskIsSeen,
                      FirstReadStands, LoadedWasOnDisk
  <2>4. QED
    BY <2>2, <2>3 DEF Inv
<1>2. CASE ReadFirstState
  <2>1. TypeOK'
    BY <1>0, <1>2 DEF ReadFirstState, LoadOnceReturns, TypeOK, files, publisher,
                      LoadResults, Diagnostics, StateFiles, IsRetryable
  <2>2. FilesOK' /\ ReadsOK'
    BY <1>0, <1>2 DEF ReadFirstState, LoadOnceReturns, TypeOK, files, publisher,
                      StateFiles, IsRetryable, FilesOK, ReadsOK
  <2>3. DiskIsSeen' /\ FirstReadStands' /\ LoadedWasOnDisk'
    BY <1>0, <1>2 DEF ReadFirstState, LoadOnceReturns, files, publisher, IsRetryable,
                      DiskIsSeen, FirstReadStands, LoadedWasOnDisk
  <2>4. QED
    BY <2>1, <2>2, <2>3 DEF Inv
<1>3. CASE ReadProject
  <2>1. first.status = "good" /\ first.active \in Projects
    BY <1>0, <1>3 DEF ReadProject, ReadsOK
  <2>2. TypeOK'
    BY <1>0, <1>3, <2>1 DEF ReadProject, LoadOnceReturns, TypeOK, files, publisher,
                      LoadResults, Diagnostics, IsRetryable
  <2>3. FilesOK' /\ ReadsOK'
    BY <1>0, <1>3, <2>1 DEF ReadProject, LoadOnceReturns, files, publisher,
                      IsRetryable, FilesOK, ReadsOK
  <2>4. DiskIsSeen' /\ LoadedWasOnDisk'
    BY <1>0, <1>3 DEF ReadProject, LoadOnceReturns, files, publisher, IsRetryable,
                      DiskIsSeen, LoadedWasOnDisk
  <2>5. FirstReadStands'
    <3> SUFFICES ASSUME pc' = "state2", stateFile' = first'
                 PROVE  [project |-> first'.active, content |-> body'.content] \in seen'
      BY DEF FirstReadStands
    <3>1. /\ body' = projectFile[first.active]
          /\ projectFile[first.active].status = "good"
          /\ stateFile = first /\ first' = first /\ seen' = seen
      BY <1>3 DEF ReadProject, LoadOnceReturns, files
    <3>2. OnDisk(stateFile, projectFile) =
            [project |-> first.active, content |-> projectFile[first.active].content]
      BY <2>1, <3>1 DEF OnDisk
    <3>3. OnDisk(stateFile, projectFile) \in seen
      BY <1>0, <1>3 DEF DiskIsSeen, ReadProject
    <3>4. QED
      BY <3>1, <3>2, <3>3
  <2>6. QED
    BY <2>2, <2>3, <2>4, <2>5 DEF Inv
<1>4. CASE ReadSecondState
  <2>1. /\ first.active \in Projects /\ body.content \in Contents
        /\ first.stamp \in Nat /\ body.stamp \in Nat
    BY <1>0, <1>4 DEF ReadSecondState, ReadsOK, TypeOK, StateFiles, ProjectFiles
  <2>2. TypeOK'
    BY <1>0, <1>4, <2>1 DEF ReadSecondState, LoadOnceReturns, TypeOK, files, publisher,
                      LoadResults, Diagnostics, Snapshots, IsRetryable
  <2>3. FilesOK' /\ ReadsOK' /\ DiskIsSeen' /\ FirstReadStands'
    BY <1>0, <1>4 DEF ReadSecondState, LoadOnceReturns, files, publisher, IsRetryable,
                      FilesOK, ReadsOK, DiskIsSeen, FirstReadStands
  <2>4. LoadedWasOnDisk'
    <3> SUFFICES ASSUME pc' = "publish", result'.diagnostic = "kLoaded"
                 PROVE  Meaning(result'.snapshot) \in seen'
      BY DEF LoadedWasOnDisk
    <3>1. /\ stateFile = first /\ seen' = seen
          /\ result'.snapshot = [project |-> first.active, content |-> body.content,
                                 stateStamp |-> first.stamp, projectStamp |-> body.stamp]
      BY <1>4 DEF ReadSecondState, LoadOnceReturns
    <3>2. result'.snapshot # Null
      BY <2>1, <3>1
    <3>3. [project |-> first.active, content |-> body.content] \in seen
      BY <1>0, <1>4, <3>1 DEF FirstReadStands, ReadSecondState
    <3>4. QED
      BY <3>1, <3>2, <3>3 DEF Meaning
  <2>5. QED
    BY <2>2, <2>3, <2>4 DEF Inv
<1>5. CASE Publish
  <2>1. TypeOK'
    BY <1>0, <1>5, PublishTypes DEF Publish, TypeOK, files
  <2>2. FilesOK' /\ ReadsOK' /\ DiskIsSeen' /\ FirstReadStands' /\ LoadedWasOnDisk'
    BY <1>0, <1>5 DEF Publish, files, FilesOK, ReadsOK, DiskIsSeen, FirstReadStands,
                      LoadedWasOnDisk
  <2>3. QED
    BY <2>1, <2>2 DEF Inv
<1>6. QED
  BY <1>1, <1>2, <1>3, <1>4, <1>5 DEF Reload

\* The invariant holds in every reachable state.
THEOREM Invariance == Spec => []Inv
<1>1. Inv /\ [Next]_vars => Inv'
  <2> SUFFICES ASSUME Inv, [Next]_vars PROVE Inv'
    OBVIOUS
  <2>1. CASE Next
    BY <2>1, WriteInv, ReloadInv DEF Next
  <2>2. CASE UNCHANGED vars
    BY <2>2 DEF vars, Inv, TypeOK, FilesOK, ReadsOK, DiskIsSeen, FirstReadStands,
                LoadedWasOnDisk
  <2>3. QED
    BY <2>1, <2>2
<1>2. QED
  BY <1>1, InitInv, PTL DEF Spec

\* The pipeline's state keeps its shape, the retry counter of
\* ProtocolV1Loader::Load its bound and the sequence number its range.
THEOREM TypeCorrect == Spec => []TypeOK
<1>1. Inv => TypeOK
  BY DEF Inv
<1>2. QED
  BY <1>1, Invariance, PTL

\* Whatever is published as loaded was the active project's content on disk at
\* one moment of the reload (ProtocolV1Loader::LoadOnce), for every instance.
THEOREM LoadIsAtomic == Spec => []LoadedWasOnDisk
<1>1. Inv => LoadedWasOnDisk
  BY DEF Inv
<1>2. QED
  BY <1>1, Invariance, PTL

-----------------------------------------------------------------------------
(* Generations.                                                            *)

\* The cached dictionary is the one of the published generation, and so is
\* every dictionary a session holds of that generation.
GenerationInv ==
  /\ returned.snapshot = cached
  /\ cached # Null => cached.generation = published.sequence
  /\ held # Null => held.generation <= published.sequence
  /\ published.sequence < MaxSequence /\ held # Null
       /\ held.generation = published.sequence
     => cached = held /\ published.snapshot # Null

\* What the publisher makes of a load result.
LEMMA NextPublishedFacts ==
  ASSUME TypeOK
  PROVE  /\ NextPublished.sequence \in Nat
         /\ NextPublished.sequence >= published.sequence
         /\ NextPublished.sequence <= MaxSequence
         /\ /\ NextPublished.sequence = published.sequence
            /\ published.sequence < MaxSequence
            => (NextPublished.snapshot = Null) = (published.snapshot = Null)
BY ConstantsAssumption
   DEF TypeOK, NextPublished, NextSequence, SemanticChange, LoadResults

LEMMA NativeFacts ==
  ASSUME NEW pub \in [sequence : 0..MaxSequence, snapshot : Snapshots \cup {Null},
                       diagnostic : Diagnostics],
         Native(pub) # Null
  PROVE  Native(pub).generation = pub.sequence /\ pub.snapshot # Null
BY DEF Native, Bridge

LEMMA PublishGeneration == TypeOK /\ GenerationInv /\ Publish => GenerationInv'
<1> SUFFICES ASSUME TypeOK, GenerationInv, Publish PROVE GenerationInv'
  OBVIOUS
<1> USE ConstantsAssumption
<1> DEFINE p == NextPublished
           n == Native(p)
<1>1. /\ published' = p /\ cached' = n /\ returned'.snapshot = n
      /\ held' \in {held, RegistryPublish(held, n)}
  BY DEF Publish
<1>2. /\ p \in [sequence : 0..MaxSequence, snapshot : Snapshots \cup {Null},
                 diagnostic : Diagnostics]
      /\ n \in Dictionaries \cup {Null}
  BY PublishTypes
<1>3. /\ p.sequence \in Nat /\ p.sequence >= published.sequence /\ p.sequence <= MaxSequence
      /\ p.sequence = published.sequence /\ published.sequence < MaxSequence
           => (p.snapshot = Null) = (published.snapshot = Null)
  BY NextPublishedFacts
<1>4. n # Null => n.generation = p.sequence /\ p.snapshot # Null
  BY <1>2, NativeFacts
<1>5. published.sequence \in Nat /\ (held # Null => held.generation \in Nat)
  BY DEF TypeOK, Dictionaries
<1>6. held' # Null => held' = held \/ held' = n
  BY <1>1 DEF RegistryPublish
<1>7. held' # Null => held'.generation <= p.sequence
  <2>1. CASE held' = held
    BY <1>3, <1>5, <2>1 DEF GenerationInv
  <2>2. CASE held' = n
    BY <1>3, <1>4, <2>2
  <2>3. QED
    BY <1>6, <2>1, <2>2
<1>8. ASSUME p.sequence < MaxSequence, held' # Null, held'.generation = p.sequence
      PROVE  n = held' /\ p.snapshot # Null
  <2>1. CASE held' = n
    BY <1>4, <1>8, <2>1
  <2>2. CASE held' = held
    <3>1. p.sequence = published.sequence
      BY <1>3, <1>5, <1>8, <2>2 DEF GenerationInv
    <3>2. cached = held /\ published.snapshot # Null /\ p.snapshot # Null
      BY <1>3, <1>8, <2>2, <3>1 DEF GenerationInv
    <3>3. n = cached
      BY <1>8, <2>2, <3>1, <3>2 DEF Native
    <3>4. QED
      BY <2>2, <3>2, <3>3
  <2>3. QED
    BY <1>6, <1>8, <2>1, <2>2
<1>9. QED
  BY <1>1, <1>4, <1>7, <1>8 DEF GenerationInv

LEMMA GenerationStep == TypeOK /\ GenerationInv /\ [Next]_vars => GenerationInv'
<1> SUFFICES ASSUME TypeOK, GenerationInv, [Next]_vars, ~Publish PROVE GenerationInv'
  BY PublishGeneration
<1>1. UNCHANGED <<published, cached, returned, held>>
  BY DEF Next, Write, WriteState, WriteProject, Replace, Reload, StartReload,
         ReadFirstState, ReadProject, ReadSecondState, publisher, vars
<1>2. QED
  BY <1>1 DEF GenerationInv

\* A session is never offered a dictionary older than the one it holds, nor
\* another one of the same generation: the conflict that
\* EngineConverter::OnStartComposition calls impossible.
THEOREM NoConflict == Spec => []ConflictIsImpossible
<1>1. Init => GenerationInv
  BY ConstantsAssumption DEF Init, GenerationInv
<1>2. TypeOK /\ GenerationInv => ConflictIsImpossible
  <2> SUFFICES ASSUME TypeOK, GenerationInv, published.sequence < MaxSequence,
                      returned.snapshot # Null, held # Null
               PROVE  \/ held.generation < returned.snapshot.generation
                      \/ held = returned.snapshot
    BY DEF ConflictIsImpossible
  <2>1. held.generation \in Nat /\ published.sequence \in Nat
    BY DEF TypeOK, Dictionaries
  <2>2. QED
    BY <2>1 DEF GenerationInv
<1>3. QED
  BY <1>1, <1>2, GenerationStep, TypeCorrect, PTL DEF Spec

-----------------------------------------------------------------------------
(* The publisher implements SemanticPublication.                           *)

\* A reload that ends moves the meaning and the generation together, or
\* neither (ProtocolV1SnapshotPublisher::Reload).
LEMMA PublishRefines ==
  ASSUME TypeOK, Publish
  PROVE  Abstract!PubNext \/ UNCHANGED Abstract!pubVars
<1> USE ConstantsAssumption
<1> DEFINE m == Meaning(result.snapshot)
<1>1. /\ published.snapshot \in Snapshots \cup {Null}
      /\ result.snapshot \in Snapshots \cup {Null}
  BY DEF TypeOK, LoadResults
<1>2. m \in Meanings \cup {Null}
  BY <1>1 DEF Meaning, Meanings, Snapshots
<1>3. published' = NextPublished
  BY DEF Publish
<1>4. CASE InGrace
  BY <1>3, <1>4 DEF NextPublished, TypeOK, Abstract!pubVars
<1>5. CASE ~InGrace
  <2>1. published'.sequence = NextSequence /\ Meaning(published'.snapshot) = m
    BY <1>3, <1>5 DEF NextPublished
  <2>2. SemanticChange <=> m # Meaning(published.snapshot)
    BY <1>1 DEF SemanticChange, SemanticallyEquals, Meaning, Snapshots
  <2>3. CASE SemanticChange
    <3>1. Abstract!Republish(m)
      BY <2>1, <2>2, <2>3 DEF Abstract!Republish, NextSequence
    <3>2. QED
      BY <1>2, <3>1 DEF Abstract!PubNext
  <2>4. CASE ~SemanticChange
    BY <2>1, <2>2, <2>4 DEF NextSequence, Abstract!pubVars
  <2>5. QED
    BY <2>3, <2>4
<1>6. QED
  BY <1>4, <1>5

\* The pipeline implements the abstract publication: a generation moves exactly
\* when the meaning of the published dictionary moves.
THEOREM Refinement == Spec => RefinesSemanticPublication
<1>1. Init => Abstract!PubInit
  BY DEF Init, Abstract!PubInit, Meaning
<1>2. TypeOK /\ [Next]_vars => [Abstract!PubNext]_(Abstract!pubVars)
  <2> SUFFICES ASSUME TypeOK, [Next]_vars, ~Publish
               PROVE  UNCHANGED Abstract!pubVars
    BY PublishRefines
  <2>1. published' = published
    BY DEF Next, Write, WriteState, WriteProject, Replace, Reload, StartReload,
           ReadFirstState, ReadProject, ReadSecondState, publisher, vars
  <2>2. QED
    BY <2>1 DEF Abstract!pubVars
<1>3. QED
  BY <1>1, <1>2, TypeCorrect, PTL
     DEF Spec, RefinesSemanticPublication, Abstract!PubSpec

-----------------------------------------------------------------------------
(* A reload that lost no race returns what is on disk.                     *)

\* The reload's failures and its first read are accounted for by what the files
\* held: a project that was active, no usable project, or two meanings.
Accounted ==
  /\ pc \in {"project", "state2"} =>
       Null \in seen \/ \E m \in seen : m # Null /\ m.project = first.active
  /\ pc = "publish" /\ result.diagnostic \notin {"kLoaded", "kStateChangedDuringRead"} =>
       Null \in seen \/ \E m, n \in seen : m # n
  /\ pc = "publish" => (result.diagnostic = "kLoaded") = (result.snapshot # Null)

\* The cached dictionary has the meaning of the published snapshot.
CachedInv ==
  published.sequence < MaxSequence /\ cached # Null =>
    /\ published.snapshot # Null
    /\ cached.source = published.snapshot.project
    /\ cached.content = published.snapshot.content
    /\ cached.content \notin NativeInvalid

LEMMA AccountedStep == Inv /\ Accounted /\ [Next]_vars => Accounted'
<1> SUFFICES ASSUME Inv, Accounted, [Next]_vars PROVE Accounted'
  OBVIOUS
<1> USE ConstantsAssumption
<1>0. TypeOK /\ FilesOK /\ ReadsOK /\ DiskIsSeen
  BY DEF Inv
<1>1. CASE Write
  <2>1. /\ UNCHANGED <<pc, first, result>>
        /\ pc # "idle" => seen \subseteq seen'
    BY <1>1 DEF Write, WriteState, WriteProject, Replace, loader
  <2>2. QED
    BY <2>1 DEF Accounted
<1>2. CASE StartReload \/ Publish
  BY <1>2 DEF StartReload, Publish, Accounted
<1>3. CASE ReadFirstState
  <2> DEFINE m == OnDisk(stateFile, projectFile)
  <2>1. m \in seen /\ seen' = seen /\ first' = stateFile
    BY <1>0, <1>3 DEF ReadFirstState, DiskIsSeen
  <2>2. CASE stateFile.status = "good" /\ stateFile.active # Null
    <3>1. pc' = "project"
      BY <1>3, <2>2 DEF ReadFirstState
    <3>2. m = Null \/ (m # Null /\ m.project = stateFile.active)
      BY <2>2 DEF OnDisk
    <3> HIDE DEF m
    <3>3. QED
      BY <2>1, <3>1, <3>2 DEF Accounted
  <2>3. CASE ~(stateFile.status = "good" /\ stateFile.active # Null)
    <3>1. m = Null
      BY <2>3 DEF OnDisk
    <3>2. /\ pc' \in {"state1", "publish"} /\ result'.snapshot = Null
          /\ result'.diagnostic # "kLoaded"
      BY <1>3, <2>3 DEF ReadFirstState, LoadOnceReturns
    <3>3. QED
      BY <2>1, <3>1, <3>2 DEF Accounted
  <2>4. QED
    BY <2>2, <2>3
<1>4. CASE ReadProject
  <2> DEFINE m == OnDisk(stateFile, projectFile)
  <2>1. m \in seen /\ seen' = seen /\ first' = first
    BY <1>0, <1>4 DEF ReadProject, DiskIsSeen
  <2>2. Null \in seen \/ \E n \in seen : n # Null /\ n.project = first.active
    BY <1>4 DEF ReadProject, Accounted
  <2>3. CASE projectFile[first.active].status = "good"
    <3>1. pc' = "state2"
      BY <1>4, <2>3 DEF ReadProject
    <3>2. QED
      BY <2>1, <2>2, <3>1 DEF Accounted
  <2>4. CASE projectFile[first.active].status # "good"
    <3>1. m = Null \/ m.project # first.active
      BY <2>4 DEF OnDisk
    <3>2. Null \in seen \/ \E a, n \in seen : a # n
      <4> HIDE DEF m
      <4>1. QED
        BY <2>1, <2>2, <3>1
    <3>3. /\ pc' \in {"state1", "publish"} /\ result'.snapshot = Null
          /\ result'.diagnostic # "kLoaded"
      BY <1>4, <2>4 DEF ReadProject, LoadOnceReturns
    <3>4. QED
      BY <2>1, <3>2, <3>3 DEF Accounted
  <2>5. QED
    BY <2>3, <2>4
<1>5. CASE ReadSecondState
  <2>1. [project |-> first.active, content |-> body.content,
         stateStamp |-> first.stamp, projectStamp |-> body.stamp] # Null
    BY <1>0, <1>5 DEF ReadSecondState, ReadsOK, TypeOK, StateFiles, ProjectFiles
  <2>2. /\ pc' \in {"state1", "publish"}
        /\ result'.diagnostic \in {"kLoaded", "kStateChangedDuringRead"}
        /\ (result'.diagnostic = "kLoaded") = (result'.snapshot # Null)
    BY <1>5, <2>1 DEF ReadSecondState, LoadOnceReturns
  <2>3. QED
    BY <2>2 DEF Accounted
<1>6. CASE UNCHANGED vars
  BY <1>6 DEF vars, Accounted
<1>7. QED
  BY <1>1, <1>2, <1>3, <1>4, <1>5, <1>6 DEF Next, Reload

\* What the provider caches for a publication that is not saturated: the meaning
\* of the snapshot, if the native index accepts it.
LEMMA NativeMeaning ==
  ASSUME TypeOK, GenerationInv, CachedInv, published.sequence < MaxSequence
  PROVE  LET p == NextPublished
             n == Native(p)
         IN /\ n # Null => /\ p.snapshot # Null
                           /\ n.source = p.snapshot.project
                           /\ n.content = p.snapshot.content
                           /\ n.content \notin NativeInvalid
            /\ /\ p.snapshot # Null /\ p.diagnostic = "kLoaded"
               /\ p.snapshot.content \notin NativeInvalid
               => n # Null
<1> USE ConstantsAssumption
<1> DEFINE p == NextPublished
<1>1. p \in [sequence : 0..MaxSequence, snapshot : Snapshots \cup {Null},
             diagnostic : Diagnostics]
  BY PublishTypes
<1>2. ASSUME cached # Null, p.snapshot # Null, p.sequence = cached.generation
      PROVE  /\ cached.source = p.snapshot.project /\ cached.content = p.snapshot.content
             /\ cached.content \notin NativeInvalid
  <2>1. p.sequence = published.sequence /\ published.sequence \in Nat
    BY <1>2 DEF GenerationInv, TypeOK
  <2>2. /\ published.snapshot # Null /\ cached.source = published.snapshot.project
        /\ cached.content = published.snapshot.content /\ cached.content \notin NativeInvalid
    BY <1>2 DEF CachedInv
  <2>3. CASE InGrace
    BY <2>2, <2>3 DEF NextPublished, TypeOK
  <2>4. CASE ~InGrace
    <3>1. p.snapshot = result.snapshot /\ NextSequence = published.sequence
      BY <2>1, <2>4 DEF NextPublished
    <3>2. ~SemanticChange
      BY <2>1, <3>1 DEF NextSequence
    <3>3. QED
      BY <1>2, <2>2, <3>1, <3>2 DEF SemanticChange, SemanticallyEquals
  <2>5. QED
    BY <2>3, <2>4
<1> HIDE DEF p
<1>3. Native(p) = Bridge(p) \/ (Native(p) = cached /\ cached # Null /\ p.snapshot # Null
                                /\ p.sequence = cached.generation)
  BY DEF Native
<1>4. CASE Native(p) = Bridge(p)
  <2>1. CASE Bridge(p) = Null
    <3>1. ASSUME p.snapshot # Null, p.diagnostic = "kLoaded",
                 p.snapshot.content \notin NativeInvalid
          PROVE  FALSE
      <4>1. p.snapshot \in Snapshots /\ p.sequence \in Nat
        BY <1>1, <3>1
      <4>2. Bridge(p) \in Dictionaries
        BY <3>1, <4>1 DEF Bridge, Dictionaries, Snapshots
      <4>3. QED
        BY <2>1, <4>2 DEF Dictionaries
    <3>2. QED
      BY <1>4, <2>1, <3>1 DEF p
  <2>2. CASE Bridge(p) # Null
    <3>1. /\ p.snapshot # Null /\ p.snapshot.content \notin NativeInvalid
          /\ Bridge(p) = [generation |-> p.sequence, source |-> p.snapshot.project,
                content |-> p.snapshot.content,
                fingerprint |-> <<p.snapshot.stateStamp, p.snapshot.projectStamp>>]
      BY <2>2 DEF Bridge
    <3>2. /\ Bridge(p).generation = p.sequence /\ Bridge(p).source = p.snapshot.project
          /\ Bridge(p).content = p.snapshot.content
      BY <3>1
    <3>3. /\ Native(p) # Null /\ Native(p).source = p.snapshot.project
          /\ Native(p).content = p.snapshot.content
          /\ Native(p).content \notin NativeInvalid
      BY <1>4, <2>2, <3>1, <3>2, Zenon
    <3>4. QED
      BY <3>1, <3>3 DEF p
  <2>3. QED
    BY <2>1, <2>2
<1>5. CASE Native(p) = cached /\ cached # Null /\ p.snapshot # Null
           /\ p.sequence = cached.generation
  BY <1>2, <1>5 DEF p
<1>6. QED
  BY <1>3, <1>4, <1>5 DEF p

LEMMA CachedStep == TypeOK /\ GenerationInv /\ CachedInv /\ [Next]_vars => CachedInv'
<1> SUFFICES ASSUME TypeOK, GenerationInv, CachedInv, [Next]_vars PROVE CachedInv'
  OBVIOUS
<1>1. CASE Publish
  <2>1. published' = NextPublished /\ cached' = Native(NextPublished)
    BY <1>1 DEF Publish
  <2>2. NextPublished.sequence < MaxSequence => published.sequence < MaxSequence
    BY NextPublishedFacts, ConstantsAssumption DEF TypeOK
  <2>3. QED
    BY <2>1, <2>2, NativeMeaning DEF CachedInv
<1>2. CASE ~Publish
  <2>1. UNCHANGED <<published, cached>>
    BY <1>2 DEF Next, Write, WriteState, WriteProject, Replace, Reload, StartReload,
           ReadFirstState, ReadProject, ReadSecondState, publisher, vars
  <2>2. QED
    BY <2>1 DEF CachedInv
<1>3. QED
  BY <1>1, <1>2

\* A reload that lost no race returns the dictionary on disk, or keeps the
\* published one at the first of a row of failures
\* (ProtocolV1SnapshotPublisher::Reload and
\* ProtocolV1ProjectDictionaryProvider::Reload).
THEOREM QuietReloadsAreExact == Spec => QuietReloadIsExact
<1> DEFINE D == OnDisk(stateFile, projectFile)
           Quiet == /\ pc = "publish" /\ result.diagnostic # "kStateChangedDuringRead"
                    /\ published.sequence < MaxSequence
                    /\ seen = {D}
           Exact == \/ ReturnedMeaning(returned') = Wanted
                    \/ /\ failures = 0 /\ failures' = 1
                       /\ published'.snapshot = published.snapshot
<1>1. Inv /\ GenerationInv /\ CachedInv /\ Accounted /\ Publish /\ Quiet => Exact
  <2> SUFFICES ASSUME Inv, GenerationInv, CachedInv, Accounted, Publish, Quiet
               PROVE  Exact
    OBVIOUS
  <2> DEFINE n == Native(NextPublished)
  <2>0. TypeOK /\ LoadedWasOnDisk
    BY DEF Inv
  <2>1. /\ published' = NextPublished /\ failures' = NextFailures
        /\ returned'.snapshot = n
    BY DEF Publish
  <2>2. CASE InGrace
    BY <2>0, <2>1, <2>2 DEF InGrace, NextPublished, NextFailures, TypeOK
  <2>3. CASE ~InGrace /\ result.diagnostic = "kLoaded"
    <3>1. /\ NextPublished.snapshot = result.snapshot
          /\ NextPublished.diagnostic = "kLoaded"
      BY <2>3 DEF NextPublished
    <3>2. result.snapshot # Null /\ Meaning(result.snapshot) = D
      BY <2>0, <2>3 DEF Accounted, LoadedWasOnDisk
    <3>3. D = [project |-> result.snapshot.project, content |-> result.snapshot.content]
          /\ D # Null
      BY <2>0, <3>2, ConstantsAssumption DEF Meaning, TypeOK, LoadResults, Snapshots
    <3>4. /\ n # Null => /\ n.source = result.snapshot.project
                         /\ n.content = result.snapshot.content
                         /\ n.content \notin NativeInvalid
          /\ result.snapshot.content \notin NativeInvalid => n # Null
      BY <2>0, <3>1, <3>2, NativeMeaning
    <3> HIDE DEF n, D
    <3>5. D.content = result.snapshot.content
      BY <3>3
    <3>6. ReturnedMeaning(returned') = Wanted
      BY <2>1, <3>3, <3>4, <3>5 DEF ReturnedMeaning, Wanted, D
    <3>7. QED
      BY <3>6
  <2>4. CASE ~InGrace /\ result.diagnostic # "kLoaded"
    <3>1. NextPublished.snapshot = Null
      BY <2>4 DEF NextPublished, Accounted
    <3>2. n = Null
      BY <3>1 DEF Native, Bridge
    <3>3. D = Null
      BY <2>4 DEF Accounted
    <3>4. QED
      BY <2>1, <3>2, <3>3 DEF ReturnedMeaning, Wanted
  <2>5. QED
    BY <2>2, <2>3, <2>4
<1>2. Inv /\ GenerationInv /\ CachedInv /\ Accounted /\ [Next]_vars =>
        [pc = "publish" /\ pc' = "idle" /\ result.diagnostic # "kStateChangedDuringRead"
           /\ published.sequence < MaxSequence /\ seen = {OnDisk(stateFile, projectFile)} =>
           \/ ReturnedMeaning(returned') = Wanted
           \/ failures = 0 /\ failures' = 1 /\ published'.snapshot = published.snapshot]_vars
  <2> SUFFICES ASSUME Inv, GenerationInv, CachedInv, Accounted, Next, Quiet, pc' = "idle"
               PROVE  Exact
    OBVIOUS
  <2>1. Publish
    BY DEF Next, Write, WriteState, WriteProject, Replace, Reload, StartReload,
           ReadFirstState, ReadProject, ReadSecondState, loader
  <2>2. QED
    BY <1>1, <2>1
<1>3. Init => Accounted /\ CachedInv /\ GenerationInv
  BY ConstantsAssumption DEF Init, Accounted, CachedInv, GenerationInv
<1>4. Inv => TypeOK
  BY DEF Inv
<1>5. QED
  BY <1>2, <1>3, <1>4, AccountedStep, CachedStep, GenerationStep, Invariance, PTL
     DEF Spec, QuietReloadIsExact

==============================================================================
