CONSTANTS
  None = None
  Mapped <- MCMapped
  Unmapped <- MCUnmapped
  Words <- MCWords
  Sessions <- Bench
  MaxLen = 2
  LedAddr = 1
  LedWord = 2
SPECIFICATION Spec
INVARIANT ErrorsAreReal
