SPECIFICATION FairSpec
CONSTANTS
  home = home
  work = work
  few = few
  many = many
  Names <- MCNames
  Words <- MCWords
  None = None
  Big = {many}
  MaxDictionaries = 1
  MaxSaves = 2
  MaxImports = 2
  MaxFaults = 0
  SameSecond = FALSE
PROPERTIES
  ImportsLand
