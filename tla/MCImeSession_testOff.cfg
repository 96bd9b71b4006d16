SPECIFICATION Spec
CONSTANTS
  grimodex = grimodex
  editor = editor
  m1 = m1
  m2 = m2
  Null = Null
  NoProgram = NoProgram
  Programs <- MCPrograms
  InScope <- MCInScope
  Meanings <- MCMeanings
  WireContexts <- PlainWireContexts
  MaxSequence = 1
  MaxUndo = 1
  MaxCommands = 1
  ZeroQuery = TRUE
  Situations = {"testOff"}
INVARIANTS AssertionsHold
