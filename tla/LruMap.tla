------------------------------- MODULE LruMap -------------------------------
(***************************************************************************)
(* What a least-recently-used cache promises: a list of entries, the one   *)
(* used last in front, with one entry per key and at most MaxElements.     *)
(* LruCache implements it; SessionHandler keeps its sessions in one.       *)
(***************************************************************************)
EXTENDS Naturals, Sequences, SequencesExt

CONSTANTS Keys, Values, MaxElements

VARIABLE entries

Entries == [key : Keys, value : Values]

\* The entries but the one of key k, if there is one.
Without(k) ==
  IF \E i \in DOMAIN entries : entries[i].key = k
  THEN RemoveAt(entries, CHOOSE i \in DOMAIN entries : entries[i].key = k)
  ELSE entries

MapInit == entries = <<>>

\* The entry goes to the front; the last one leaves if there is no room.
InsertEntry(k, v) ==
  LET others == Without(k)
      kept == IF Len(others) < MaxElements THEN others ELSE SubSeq(others, 1, MaxElements - 1)
  IN entries' = <<[key |-> k, value |-> v]>> \o kept

\* A lookup that finds the key, and what the caller writes through it.
UseEntry(k, v) ==
  /\ \E i \in 1..Len(entries) : entries[i].key = k
  /\ entries' = <<[key |-> k, value |-> v]>> \o Without(k)

EraseEntry(k) == entries' = Without(k)

ClearAll == entries' = <<>>

MapNext ==
  \/ \E k \in Keys, v \in Values : InsertEntry(k, v) \/ UseEntry(k, v)
  \/ \E k \in Keys : EraseEntry(k)
  \/ ClearAll

MapSpec == MapInit /\ [][MapNext]_entries
=============================================================================
