SPECIFICATION FairSpec
CONSTANTS
  ka = ka
  tsu = tsu
  Letters <- MCLetters
  Skipped <- MCSkipped
  Transient <- MCTransient
  Punct = Punct
  None = None
  MaxLength = 3
  MaxPolls = 2
  KeepsTimer = FALSE
  Situations = {"undo", "failure"}
PROPERTIES
  EnterCommitsWhatIsShown
  CorrectionEnds
