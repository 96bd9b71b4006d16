SPECIFICATION Spec
CONSTANTS
  grimodex = grimodex
  editor = editor
  m1 = m1
  m2 = m2
  Null = Null
  NoProgram = NoProgram
  Programs <- MCPrograms
  InScope <- MCInScope
  Meanings <- MCMeanings
  WireContexts <- MCWireContexts
  MaxSequence = 2
  MaxUndo = 1
  MaxCommands = 2
  ZeroQuery = TRUE
  Situations = {}
SYMMETRY Symmetry
INVARIANTS TypeOK SecureHoldsNothing ScopeIsolation NothingOutlivesItsEpoch PinLifetime StatesAgree
PROPERTIES DomainMonotone FailClosed OneDictionaryPerComposition
