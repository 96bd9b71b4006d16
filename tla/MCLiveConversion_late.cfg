SPECIFICATION Spec
CONSTANTS
  ka = ka
  tsu = tsu
  Letters <- MCLetter
  Skipped <- MCHeld
  Transient <- MCHeld
  Punct = Punct
  None = None
  MaxLength = 2
  MaxPolls = 2
  KeepsTimer = TRUE
  Situations = {"cursor", "candidate", "unmapped", "transliterate", "suggestion", "failure"}
INVARIANTS
  OnlyCurrentWork
  NeverBlank
PROPERTIES
  WholeTextCommitted
  FeedbackIsTrue
