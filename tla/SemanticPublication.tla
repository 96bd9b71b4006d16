------------------------- MODULE SemanticPublication -------------------------
(***************************************************************************)
(* What grimodex::ProtocolV1SnapshotPublisher promises its readers: one    *)
(* published project dictionary at a time, named by a generation number    *)
(* that moves exactly when the meaning of the dictionary moves.  Readers    *)
(* cache by generation, so a generation must never name two dictionaries.  *)
(***************************************************************************)
EXTENDS Naturals

CONSTANTS Meanings,       \* project dictionaries, up to timestamps and digests
          Null,           \* no project dictionary is published
          MaxSequence     \* the largest uint64_t

VARIABLES generation,     \* PublishedProtocolV1Snapshot::sequence
          meaning         \* PublishedProtocolV1Snapshot::snapshot, semantically

pubVars == <<generation, meaning>>

PubInit == generation = 0 /\ meaning = Null

\* A reload that changes the meaning takes the next generation.  At the end of
\* the 64-bit range the counter stays where it is.
Republish(m) ==
  /\ m # meaning
  /\ meaning' = m
  /\ generation' = IF generation = MaxSequence THEN generation
                                               ELSE generation + 1

PubNext == \E m \in Meanings \cup {Null} : Republish(m)

PubSpec == PubInit /\ [][PubNext]_pubVars

==============================================================================
