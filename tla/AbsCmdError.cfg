CONSTANTS
  None = None
  Mapped <- MCMapped
  Unmapped <- MCUnmapped
  Words <- MCWords
  Sessions <- InOrder
  MaxLen = 2
  LedAddr = 1
  LedWord = 2
SPECIFICATION Spec
INVARIANT ErrorsReported
