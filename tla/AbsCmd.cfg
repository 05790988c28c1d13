CONSTANTS
  None = None
  Mapped <- ThreeCells
  Unmapped <- AfterThree
  Words <- MCWords
  Sessions <- Separate
  MaxLen = 3
  LedAddr = 1
  LedWord = 2
SPECIFICATION Spec
INVARIANTS TypeOK WorkDone OnlyAsked AutoexecOff StartedInOrder
PROPERTY NoneAstray
