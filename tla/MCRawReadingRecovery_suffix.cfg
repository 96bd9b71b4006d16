SPECIFICATION Spec
CONSTANTS
  a = a  b = b
  Letters <- MCLetters
  None = None
  MaxFaults = 2
  MaxLength = 2
  MaxEventCount = 2
  TypeOverConversion = TRUE
PROPERTIES
  ReadingSurvives
