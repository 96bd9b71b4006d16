SPECIFICATION Spec
CONSTANTS
  home = home
  work = work
  few = few
  many = many
  Names <- MCNames
  Words <- MCWords
  None = None
  Big = {many}
  MaxDictionaries = 1
  MaxSaves = 1
  MaxImports = 2
  MaxFaults = 1
  SameSecond = FALSE
SYMMETRY Symmetry
INVARIANTS
  StaleIsNoticed
  ImportsKept
