CONSTANTS
  a1 = a1
  a2 = a2
  x1 = x1
  w1 = w1
  w2 = w2
  NoWord = NoWord
  NoCall = NoCall
  Mapped <- MCMapped
  Unmapped <- MCUnmapped
  Words <- MCWords
  ResetSize <- Size32
  Supported <- MCSupported
  Sizes <- Only32
  PollLimit = 5
  SlowBus = FALSE
  DmiFaults = TRUE
  StickyLink = TRUE
  Programs = {"jtag_function", "dbg_test_init"}
SPECIFICATION Spec
INVARIANTS TypeOK SuccessMeansTaken
PROPERTY PortSpec
