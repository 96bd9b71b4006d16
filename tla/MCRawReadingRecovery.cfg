SPECIFICATION Spec
CONSTANTS
  a = a  b = b
  Letters <- MCLetters
  None = None
  MaxFaults = 3
  MaxLength = 2
  MaxEventCount = 3
  TypeOverConversion = FALSE
INVARIANTS
  NeverInTheWrongMode
  NoHiddenReading
  SecureLeavesNothing
PROPERTIES
  CommandsStayHome
  ReadingSurvives
