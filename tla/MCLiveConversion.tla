-------------------------- MODULE MCLiveConversion --------------------------
(* LiveConversion with one letter, where the reading of two letters is the  *)
(* transient one, and with two letters, one of which is the small tsu that  *)
(* live conversion skips at the end of a reading.                           *)
EXTENDS LiveConversion

CONSTANTS ka, tsu

MCLetter == {ka}
MCHeld == {<<ka, ka>>}

MCLetters == {ka, tsu}
MCSkipped == {r \in Readings : r = <<>> \/ Last(r) = tsu}
MCTransient == {r \in MCSkipped : Len(r) > 1 /\ r[Len(r) - 1] = ka}
=============================================================================
