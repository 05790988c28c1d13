CONSTANTS
  TxDepth = 2
  RxDepth = 2
  TxMark = 1
  Drivers = {"nuspi", "fespi"}
  Lengths = {1, 3}
  TimesOut = 3
  UintRange = 8
SPECIFICATION FairSpec
INVARIANTS TypeOK OkMeansDone FramesAsWritten EarlyIsNoError
PROPERTY CallsReturn
