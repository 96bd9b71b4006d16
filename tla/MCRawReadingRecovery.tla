------------------------ MODULE MCRawReadingRecovery ------------------------
(* RawReadingRecovery with two letters, so that a reading put together from *)
(* the wrong keys can be told from the right one.                           *)
EXTENDS RawReadingRecovery

CONSTANTS a, b

MCLetters == {a, b}
=============================================================================
