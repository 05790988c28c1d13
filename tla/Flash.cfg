CONSTANTS
  WordBytes = 2
  PageSize = 6
  SectorSize = 12
  MemSize = 24
  TxDepth = 2
  RxDepth = 1
  Programs = {"jtag_function", "custom_flash", "openflashloader"}
  Requests <- MCRequests
  Buffer <- MCBuffer
  FillWords = 2
  MaxSectors = 2
  UintRange = 72
  NoCall = NoCall
  LinkFaults = TRUE
SPECIFICATION FairSpec
INVARIANTS TypeOK OkMeansDone OutsideUntouched CacheOffAtWork BufferKept
PROPERTIES CallsReturn StoreSpec
