CONSTANTS
  a1 = a1
  a2 = a2
  x1 = x1
  w1 = w1
  w2 = w2
  NoWord = NoWord
  NoCall = NoCall
  Mapped <- MCMapped
  Unmapped <- MCUnmapped
  Words <- MCWords
  ResetSize <- Size32
  Supported <- MCSupported
  Sizes <- AllSizes
  PollLimit = 5
  SlowBus = FALSE
  DmiFaults = FALSE
  StickyLink = TRUE
  Programs = {"jtag_function"}
SPECIFICATION Spec
PROPERTY SizeSelected
