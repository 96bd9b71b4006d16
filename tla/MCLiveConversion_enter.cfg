SPECIFICATION Spec
CONSTANTS
  ka = ka
  tsu = tsu
  Letters <- MCLetters
  Skipped <- MCSkipped
  Transient <- MCTransient
  Punct = Punct
  None = None
  MaxLength = 2
  MaxPolls = 2
  KeepsTimer = FALSE
  Situations = {"unmapped"}
PROPERTIES
  EnterCommitsWhatIsShown
