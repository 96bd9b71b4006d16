------------------------ MODULE UserDictionaryProofs ------------------------
(***************************************************************************)
(* Proofs about UserDictionary, for any names, words and limits.           *)
(*                                                                         *)
(* Two threads write tokens_ and two processes write the file, so neither  *)
(* property is inductive.  What is needed is where the file's content is   *)
(* while no one is idle: with the reloader between its load and its        *)
(* publication, with the importer between its load and its save.           *)
(***************************************************************************)
EXTENDS UserDictionary, FiniteSetTheorems, TLAPS

\* The time stamp cannot give away that lookups lag behind the file.
LooksFresh == modified = file.stamp /\ modified \notin failed /\ ~unsaved

\* The reloader has the file in hand, or has published it and only an importer
\* that has not tried to save yet has replaced it.
FreshInv ==
  LooksFresh =>
    /\ reloader.at \in {"clear", "publish"} => reloader.copy = file.content
    /\ reloader.at \in {"idle", "ending"} /\ importer.at \notin {"publish", "lock", "save"}
         => tokens = file.content

\* A tool that never met an import is closed while one is under way.
ApartInv == ~crossed /\ Importing => tool.at = "closed"

\* The orders are on the file or with the importer.
OrdersInv ==
  ~crossed =>
    /\ importer.at \in {"idle", "check", "load", "ending"} => file.content = want
    /\ importer.at \in {"pop", "publish", "lock", "save"} => importer.copy = want

USE DictionaryAssumption

-----------------------------------------------------------------------------
(* Contents.                                                                *)

\* A content that has no dictionary but those of another one is no larger.
LEMMA FewerDictionaries ==
  ASSUME NEW c \in Contents, NEW d \in [Names -> Words \cup {None}],
         Dictionaries(d) \subseteq Dictionaries(c)
  PROVE  d \in Contents
<1>1. IsFiniteSet(Dictionaries(c))
  BY FS_Subset DEF Dictionaries
<1>2. Cardinality(Dictionaries(d)) <= Cardinality(Dictionaries(c))
  BY <1>1, FS_Subset
<1>3. Cardinality(Dictionaries(c)) \in Nat /\ Cardinality(Dictionaries(d)) \in Nat
  BY <1>1, FS_Subset, FS_CardinalityType
<1> QED
  BY <1>2, <1>3 DEF Contents

\* The empty storage is a content.
LEMMA EmptyContent == Empty \in Contents
<1>1. Dictionaries(Empty) = {}
  BY DEF Dictionaries, Empty
<1> QED
  BY <1>1, FS_EmptySet DEF Contents, Empty

\* So is a storage of which only a part could be parsed.
LEMMA PartContent ==
  ASSUME NEW c \in Contents, NEW part \in SUBSET Names
  PROVE  [n \in Names |-> IF n \in part THEN c[n] ELSE None] \in Contents
<1> DEFINE d == [n \in Names |-> IF n \in part THEN c[n] ELSE None]
<1>1. d \in [Names -> Words \cup {None}]
  BY DEF Contents
<1>2. Dictionaries(d) \subseteq Dictionaries(c)
  BY DEF Dictionaries
<1> QED
  BY <1>1, <1>2, FewerDictionaries

\* And what an import makes of a content: a new name comes only where it fits.
LEMMA ImportedContent ==
  ASSUME NEW c \in Contents, NEW i \in Imports
  PROVE  Imported(c, i) \in Contents
<1> DEFINE d == [c EXCEPT ![i.name] = i.word]
<1>1. i.name \in Names /\ i.word \in Words \cup {None}
  BY DEF Imports
<1>2. c \in [Names -> Words \cup {None}] /\ d \in [Names -> Words \cup {None}]
  BY <1>1 DEF Contents
<1>3. CASE c[i.name] # None
  <2>1. Dictionaries(d) \subseteq Dictionaries(c)
    BY <1>1, <1>2, <1>3 DEF Dictionaries
  <2> QED
    BY <1>2, <1>3, <2>1, FewerDictionaries DEF Imported
<1>4. CASE c[i.name] = None /\ Cardinality(Dictionaries(c)) < MaxDictionaries
  <2>1. Dictionaries(d) \subseteq Dictionaries(c) \cup {i.name}
    BY <1>1, <1>2 DEF Dictionaries
  <2>2. IsFiniteSet(Dictionaries(c)) /\ Cardinality(Dictionaries(c)) \in Nat
    BY FS_Subset, FS_CardinalityType DEF Dictionaries
  <2>3. /\ IsFiniteSet(Dictionaries(c) \cup {i.name})
        /\ Cardinality(Dictionaries(c) \cup {i.name}) <= Cardinality(Dictionaries(c)) + 1
    <3>1. IsFiniteSet(Dictionaries(c) \cup {i.name})
          /\ Cardinality(Dictionaries(c) \cup {i.name}) =
               IF i.name \in Dictionaries(c) THEN Cardinality(Dictionaries(c))
               ELSE Cardinality(Dictionaries(c)) + 1
      BY <2>2, FS_AddElement, Zenon
    <3> QED
      BY <2>2, <3>1
  <2>4. /\ Cardinality(Dictionaries(d)) <= Cardinality(Dictionaries(c) \cup {i.name})
        /\ Cardinality(Dictionaries(d)) \in Nat
        /\ Cardinality(Dictionaries(c) \cup {i.name}) \in Nat
    BY <2>1, <2>3, FS_Subset, FS_CardinalityType
  <2>5. Cardinality(Dictionaries(d)) <= MaxDictionaries
    BY <1>4, <2>2, <2>3, <2>4
  <2>6. d \in Contents
    BY <1>2, <2>5 DEF Contents
  <2> QED
    BY <1>4, <2>2, <2>6 DEF Imported
<1>5. CASE c[i.name] = None /\ ~(Cardinality(Dictionaries(c)) < MaxDictionaries)
  <2>1. Cardinality(Dictionaries(c)) \in Nat
    BY FS_Subset, FS_CardinalityType DEF Dictionaries
  <2> QED
    BY <1>5, <2>1 DEF Imported
<1> QED
  BY <1>3, <1>4, <1>5

\* What a load of the storage can return: all of the file and success, or a
\* content and a failure.
LEMMA LoadsResult ==
  ASSUME TypeOK, NEW l \in Loads
  PROVE  /\ l.content \in Contents
         /\ l.ok => l.content = file.content
<1>1. file.content \in Contents
  BY DEF TypeOK
<1>2. CASE l = [ok |-> file.stamp # 0, content |-> file.content, left |-> left]
  BY <1>1, <1>2
<1>3. ASSUME NEW part \in SUBSET Names,
             l = [ok |-> FALSE, content |-> [n \in Names |-> IF n \in part THEN file.content[n]
                                                             ELSE None],
                  left |-> [left EXCEPT !.faults = @ - 1]]
      PROVE  l.content \in Contents /\ ~l.ok
  BY <1>1, <1>3, PartContent
<1> QED
  BY <1>2, <1>3 DEF Loads

-----------------------------------------------------------------------------
(* The types.                                                               *)

\* The types hold when the server starts.
LEMMA InitType == Init => TypeOK
<1> SUFFICES ASSUME Init PROVE TypeOK
  OBVIOUS
<1>1. file \in [content : Contents, stamp : Nat] /\ file.stamp \in Nat
  BY EmptyContent DEF Init
<1>2. unsaved \in BOOLEAN /\ crossed \in BOOLEAN
  BY Zenon DEF Init
<1> QED
  BY <1>1, <1>2, EmptyContent DEF Init, TypeOK

\* A save leaves a file and a history of the right type, and a time stamp that
\* is no smaller.
LEMMA SavedType ==
  ASSUME TypeOK, NEW c \in Contents, Saved(c)
  PROVE  /\ file' \in [content : Contents, stamp : Nat]
         /\ since' \subseteq Contents
         /\ file'.content = c
         /\ file'.stamp \in {file.stamp, file.stamp + 1}
         /\ ~SameSecond => file'.stamp = file.stamp + 1
<1>1. PICK n \in {1} \cup IF SameSecond /\ file.stamp # 0 THEN {0} ELSE {} :
        file' = [content |-> c, stamp |-> file.stamp + n]
  BY DEF Saved
<1>2. n \in {0, 1} /\ (~SameSecond => n = 1)
  BY <1>1
<1>3. file.stamp \in Nat /\ since \subseteq Contents
  BY DEF TypeOK
<1>4. since' \subseteq Contents
  BY <1>3 DEF Saved
<1> QED
  BY <1>1, <1>2, <1>3, <1>4

\* No step breaks the types or the tie between the lock and its holders.
LEMMA StepType == TypeOK /\ [Next]_vars => TypeOK'
<1> SUFFICES ASSUME TypeOK, [Next]_vars PROVE TypeOK'
  OBVIOUS
<1> USE DEF TypeOK, onDisk
<1>1. CASE ToolLoad
  <2>1. PICK l \in Loads : tool' = [at |-> "loaded", copy |-> l.content]
    BY <1>1 DEF ToolLoad
  <2>2. tool' \in [at : {"closed", "loaded", "open"}, copy : Contents] /\ tool'.at = "loaded"
    BY <2>1, LoadsResult
  <2>3. crossed' \in BOOLEAN
    BY <1>1, Zenon DEF ToolLoad
  <2> QED
    BY <1>1, <2>2, <2>3 DEF ToolLoad
<1>2. CASE ToolLock
  BY <1>2, EmptyContent, SMTT(30) DEF ToolLock
<1>3. CASE ToolSave
  <2>1. PICK n \in Names, word \in Words \cup {None} :
          LET copy == [tool.copy EXCEPT ![n] = word]
          IN  /\ copy \in Contents /\ tool' = [tool EXCEPT !.copy = copy]
              /\ \/ Saved(copy) /\ want' = copy /\ unsaved' = FALSE
                 \/ UNCHANGED <<onDisk, want, unsaved>>
    BY <1>3 DEF ToolSave
  <2> DEFINE copy == [tool.copy EXCEPT ![n] = word]
  <2>2. copy \in Contents /\ tool' = [tool EXCEPT !.copy = copy]
    BY <2>1
  <2>3. tool' \in [at : {"closed", "loaded", "open"}, copy : Contents] /\ tool'.at = tool.at
    BY <2>2
  <2> HIDE DEF copy
  <2>4. /\ file' \in [content : Contents, stamp : Nat] /\ since' \subseteq Contents
        /\ file'.stamp \in {file.stamp, file.stamp + 1} /\ want' \in Contents
    BY <2>1, <2>2, SavedType DEF copy
  <2>5. unsaved' \in BOOLEAN
    BY <2>1, Zenon
  <2> QED
    BY <1>3, <2>3, <2>4, <2>5 DEF ToolSave
<1>4. CASE ToolExit
  BY <1>4, EmptyContent DEF ToolExit
<1>5. CASE Reload
  BY <1>5 DEF Reload, MaybeStartReload
<1>6. CASE ReloadAndWait
  BY <1>6 DEF ReloadAndWait, MaybeStartReload
<1>7. CASE WaitForReloader
  BY <1>7 DEF WaitForReloader
<1>8. CASE Import
  <2>1. queue' \in Seq(Imports)
    BY <1>8 DEF Import
  <2>2. crossed' \in BOOLEAN
    BY <1>8, Zenon DEF Import
  <2> QED
    BY <1>8, <2>1, <2>2 DEF Import
<1>9. CASE Schedule
  BY <1>9 DEF Schedule
<1>10. CASE ReloaderLoad
  <2>1. PICK l \in Loads :
          /\ reloader' = IF l.ok THEN [at |-> "clear", copy |-> l.content]
                         ELSE [reloader EXCEPT !.at = "ending"]
          /\ failed' = IF l.ok THEN failed ELSE failed \cup {modified}
    BY <1>10 DEF ReloaderLoad
  <2>2. l.content \in Contents
    BY LoadsResult
  <2> QED
    BY <1>10, <2>1, <2>2 DEF ReloaderLoad
<1>11. CASE ReloaderClear
  BY <1>11, EmptyContent DEF ReloaderClear, Placeholder
<1>12. CASE ReloaderPublish
  BY <1>12, EmptyContent DEF ReloaderPublish
<1>13. CASE ReloaderEnd
  BY <1>13 DEF ReloaderEnd
<1>14. CASE ImporterCheck
  BY <1>14 DEF ImporterCheck
<1>15. CASE ImporterLoad
  <2>1. PICK l \in Loads : /\ importer' = [at |-> "pop", copy |-> l.content]
                           /\ want' = IF l.ok THEN want ELSE l.content
    BY <1>15 DEF ImporterLoad
  <2>2. l.content \in Contents
    BY LoadsResult
  <2> QED
    BY <1>15, <2>1, <2>2 DEF ImporterLoad
<1>16. CASE ImporterPop
  <2>1. Head(queue) \in Imports /\ Tail(queue) \in Seq(Imports)
    BY <1>16 DEF ImporterPop
  <2>2. Imported(importer.copy, Head(queue)) \in Contents
        /\ Imported(want, Head(queue)) \in Contents
    BY <2>1, ImportedContent
  <2> QED
    BY <1>16, <2>1, <2>2 DEF ImporterPop
<1>17. CASE ImporterClear
  BY <1>17, EmptyContent DEF ImporterClear, Placeholder
<1>18. CASE ImporterPublish
  BY <1>18 DEF ImporterPublish
<1>19. CASE ImporterLock
  <2>1. unsaved' \in BOOLEAN
    BY <1>19, Zenon DEF ImporterLock
  <2> QED
    BY <1>19, <2>1, EmptyContent DEF ImporterLock
<1>20. CASE ImporterSave
  <2>1. unsaved' \in BOOLEAN
    BY <1>20, Zenon DEF ImporterSave
  <2>2. /\ file' \in [content : Contents, stamp : Nat] /\ since' \subseteq Contents
        /\ file'.stamp \in {file.stamp, file.stamp + 1} /\ want' \in Contents
    BY <1>20, SavedType DEF ImporterSave
  <2>3. /\ importer.at = "save" /\ lock' = None
        /\ importer' = [at |-> "check", copy |-> Empty]
        /\ UNCHANGED <<tool, server, tokens, modified, reloader, queue, failed, crossed>>
    BY <1>20 DEF ImporterSave
  <2>4. {modified'} \cup failed' \subseteq 0..file'.stamp
    BY <2>2, <2>3
  <2> QED
    BY <2>1, <2>2, <2>3, <2>4, EmptyContent
<1>21. CASE ImporterEnd
  BY <1>21 DEF ImporterEnd
<1>22. CASE UNCHANGED vars
  BY <1>22 DEF vars
<1> QED
  BY <1>1, <1>2, <1>3, <1>4, <1>5, <1>6, <1>7, <1>8, <1>9, <1>10, <1>11, <1>12, <1>13,
     <1>14, <1>15, <1>16, <1>17, <1>18, <1>19, <1>20, <1>21, <1>22
     DEF Next, Tool, Commands, Reloader, Importer

\* Every reachable state is of the declared types, a content never has more
\* than kMaxDictionarySize dictionaries, whatever is parsed of a broken file
\* and whatever is imported, and the lock is with exactly one of the tool that
\* is open and the importer that saves.
THEOREM TypeCorrect == Spec => []TypeOK
<1> QED
  BY InitType, StepType, PTL DEF Spec

-----------------------------------------------------------------------------
(* What lookups see.                                                        *)

\* The properties hold of the start: no file, or a file being loaded.
LEMMA InitFresh == Init => FreshInv
  BY DEF Init, FreshInv, LooksFresh, Empty

\* No step lets the time stamp hide that lookups lag behind the file, as long
\* as no two saves share a time stamp.
LEMMA StepFresh ==
  ASSUME SameSecond = FALSE, TypeOK, FreshInv, [Next]_vars
  PROVE  FreshInv'
<1> USE DEF FreshInv, LooksFresh, onDisk
<1>0. /\ file \in [content : Contents, stamp : Nat] /\ modified \in 0..file.stamp
      /\ failed \subseteq 0..file.stamp
      /\ reloader \in [at : {"idle", "load", "clear", "publish", "ending"}, copy : Contents]
      /\ importer \in [at : {"idle", "check", "load", "pop", "publish", "lock", "save",
                             "ending"}, copy : Contents]
  BY DEF TypeOK
\* Whoever saves, the time stamp goes on.
<1>a. ASSUME NEW c \in Contents, Saved(c), UNCHANGED modified PROVE FreshInv'
  BY <1>0, <1>a, SavedType
<1>1. CASE ToolLoad
  BY <1>0, <1>1 DEF ToolLoad
<1>2. CASE ToolLock
  BY <1>0, <1>2 DEF ToolLock
<1>3. CASE ToolSave
  <2>1. UNCHANGED <<modified, reloader, importer, tokens, failed>>
    BY <1>3 DEF ToolSave
  <2>2. CASE \E c \in Contents : Saved(c)
    BY <1>a, <2>1, <2>2
  <2>3. CASE UNCHANGED <<onDisk, want, unsaved>>
    BY <1>0, <2>1, <2>3
  <2> QED
    BY <1>3, <2>2, <2>3 DEF ToolSave
<1>4. CASE ToolExit
  BY <1>0, <1>4 DEF ToolExit
<1>5. CASE Reload
  BY <1>0, <1>5 DEF Reload, MaybeStartReload
<1>6. CASE ReloadAndWait
  BY <1>0, <1>6 DEF ReloadAndWait, MaybeStartReload
<1>7. CASE WaitForReloader
  BY <1>0, <1>7 DEF WaitForReloader
<1>8. CASE Import
  BY <1>0, <1>8 DEF Import
<1>9. CASE Schedule
  BY <1>0, <1>9 DEF Schedule
<1>10. CASE ReloaderLoad
  <2>1. PICK l \in Loads :
          /\ reloader' = IF l.ok THEN [at |-> "clear", copy |-> l.content]
                         ELSE [reloader EXCEPT !.at = "ending"]
          /\ failed' = IF l.ok THEN failed ELSE failed \cup {modified}
    BY <1>10 DEF ReloaderLoad
  <2>2. l.ok => l.content = file.content
    BY LoadsResult
  <2> QED
    BY <1>0, <1>10, <2>1, <2>2 DEF ReloaderLoad
<1>11. CASE ReloaderClear
  BY <1>0, <1>11 DEF ReloaderClear
<1>12. CASE ReloaderPublish
  BY <1>0, <1>12 DEF ReloaderPublish
<1>13. CASE ReloaderEnd
  BY <1>0, <1>13 DEF ReloaderEnd
<1>14. CASE ImporterCheck
  BY <1>0, <1>14 DEF ImporterCheck
<1>15. CASE ImporterLoad
  BY <1>0, <1>15 DEF ImporterLoad
<1>16. CASE ImporterPop
  BY <1>0, <1>16 DEF ImporterPop
<1>17. CASE ImporterClear
  BY <1>0, <1>17 DEF ImporterClear
<1>18. CASE ImporterPublish
  BY <1>0, <1>18 DEF ImporterPublish
<1>19. CASE ImporterLock
  BY <1>0, <1>19 DEF ImporterLock
<1>20. CASE ImporterSave
  <2>1. CASE Saved(importer.copy)
    BY <1>0, <1>a, <1>20, <2>1 DEF ImporterSave
  <2>2. CASE unsaved'
    BY <2>2
  <2> QED
    BY <1>20, <2>1, <2>2 DEF ImporterSave
<1>21. CASE ImporterEnd
  BY <1>0, <1>21 DEF ImporterEnd
<1>22. CASE UNCHANGED vars
  BY <1>22 DEF vars
<1> QED
  BY <1>1, <1>2, <1>3, <1>4, <1>5, <1>6, <1>7, <1>8, <1>9, <1>10, <1>11, <1>12, <1>13,
     <1>14, <1>15, <1>16, <1>17, <1>18, <1>19, <1>20, <1>21, <1>22
     DEF Next, Tool, Commands, Reloader, Importer

\* With a time stamp that moves at every save, lookups that differ from the file
\* while both threads are idle are noticed by the next RELOAD, unless the file
\* could not be loaded or an import could not be saved.  (Two saves within one
\* second refute it: st_mtime does not tell them apart.)
THEOREM StalenessIsNoticed ==
  ASSUME SameSecond = FALSE
  PROVE  Spec => []StaleIsNoticed
<1> DEFINE Inv == TypeOK /\ FreshInv
<1>1. Init => Inv
  BY InitType, InitFresh
<1>2. Inv /\ [Next]_vars => Inv'
  BY StepType, StepFresh
<1>3. Inv => StaleIsNoticed
  BY DEF FreshInv, LooksFresh, StaleIsNoticed
<1> HIDE DEF Inv
<1> QED
  BY <1>1, <1>2, <1>3, PTL DEF Spec

-----------------------------------------------------------------------------
(* What becomes of imports.                                                 *)

\* No step lets a tool and an import overlap unrecorded.
LEMMA StepApart ==
  ASSUME TypeOK, ApartInv, [Next]_vars
  PROVE  ApartInv'
<1> USE DEF ApartInv, Importing, TypeOK
<1>1. CASE Tool
  BY <1>1 DEF Tool, ToolLoad, ToolLock, ToolSave, ToolExit
<1>2. CASE Commands
  BY <1>2 DEF Commands, Reload, ReloadAndWait, WaitForReloader, Import, Schedule
<1>3. CASE Reloader
  BY <1>3 DEF Reloader, ReloaderLoad, ReloaderClear, ReloaderPublish, ReloaderEnd
<1>4. CASE Importer
  BY <1>4 DEF Importer, ImporterCheck, ImporterLoad, ImporterPop, ImporterClear,
              ImporterPublish, ImporterLock, ImporterSave, ImporterEnd
<1>5. CASE UNCHANGED vars
  BY <1>5 DEF vars
<1> QED
  BY <1>1, <1>2, <1>3, <1>4, <1>5 DEF Next

\* No step loses an order: the file has them all, or the importer.
LEMMA StepOrders ==
  ASSUME TypeOK, ApartInv, OrdersInv, [Next]_vars
  PROVE  OrdersInv'
<1> USE DEF OrdersInv, onDisk
<1>0. importer \in [at : {"idle", "check", "load", "pop", "publish", "lock", "save",
                          "ending"}, copy : Contents]
  BY DEF TypeOK
<1>1. CASE ToolSave
  <2> SUFFICES ASSUME ~crossed' PROVE OrdersInv'
    OBVIOUS
  <2>1. ~crossed /\ UNCHANGED importer
    BY <1>1 DEF ToolSave
  <2>2. importer.at = "idle"
    BY <1>1, <2>1 DEF ToolSave, ApartInv, Importing
  <2>3. file'.content = want'
    <3>1. PICK n \in Names, word \in Words \cup {None} :
            LET copy == [tool.copy EXCEPT ![n] = word]
            IN  /\ copy \in Contents
                /\ \/ Saved(copy) /\ want' = copy
                   \/ UNCHANGED <<onDisk, want>>
      BY <1>1 DEF ToolSave
    <3> QED
      BY <2>1, <2>2, <3>1, SavedType
  <2> QED
    BY <2>1, <2>2, <2>3
<1>2. CASE ToolLoad \/ ToolLock \/ ToolExit
  BY <1>2 DEF ToolLoad, ToolLock, ToolExit
<1>3. CASE Commands
  BY <1>0, <1>3 DEF Commands, Reload, ReloadAndWait, WaitForReloader, Import, Schedule
<1>4. CASE Reloader
  BY <1>4 DEF Reloader, ReloaderLoad, ReloaderClear, ReloaderPublish, ReloaderEnd
<1>5. CASE ImporterLoad
  <2>1. PICK l \in Loads : /\ importer' = [at |-> "pop", copy |-> l.content]
                           /\ want' = IF l.ok THEN want ELSE l.content
    BY <1>5 DEF ImporterLoad
  <2>2. l.ok => l.content = file.content
    BY LoadsResult
  <2> QED
    BY <1>5, <2>1, <2>2 DEF ImporterLoad
<1>6. CASE ImporterSave
  <2>1. CASE Saved(importer.copy) /\ UNCHANGED want
    BY <1>0, <1>6, <2>1, SavedType DEF ImporterSave
  <2>2. CASE want' = file.content /\ UNCHANGED onDisk
    BY <1>6, <2>2 DEF ImporterSave
  <2> QED
    BY <1>6, <2>1, <2>2 DEF ImporterSave
<1>7. CASE ImporterCheck \/ ImporterPop \/ ImporterClear \/ ImporterPublish
           \/ ImporterLock \/ ImporterEnd
  BY <1>0, <1>7 DEF ImporterCheck, ImporterPop, ImporterClear, ImporterPublish,
                    ImporterLock, ImporterEnd
<1>8. CASE UNCHANGED vars
  BY <1>8 DEF vars
<1> QED
  BY <1>1, <1>2, <1>3, <1>4, <1>5, <1>6, <1>7, <1>8 DEF Next, Tool, Importer

\* As long as the tool is never open during an import, the file between two
\* batches is what was saved last with every import since, in the order of the
\* commands, however the arrival of imports, the batches, their failures and the
\* reloads interleave.
THEOREM ImportsAreKept == Spec => []ImportsKept
<1> DEFINE Inv == TypeOK /\ ApartInv /\ OrdersInv
<1>1. Init => Inv
  BY InitType DEF Init, ApartInv, OrdersInv
<1>2. Inv /\ [Next]_vars => Inv'
  BY StepType, StepApart, StepOrders
<1>3. Inv => ImportsKept
  BY DEF OrdersInv, ImportsKept
<1> HIDE DEF Inv
<1> QED
  BY <1>1, <1>2, <1>3, PTL DEF Spec
=============================================================================
