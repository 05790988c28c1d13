CONSTANTS
  dmcontrol = dmcontrol
  sbcs = sbcs
  w1 = w1
  w2 = w2
  NoWord = NoWord
  NoCall = NoCall
  Mapped <- MCMapped
  Words <- MCWords
  OpsFail = TRUE
  MaxTimeout = 10
  Setups <- Ported
SPECIFICATION Spec
INVARIANT BusyIsNoError
