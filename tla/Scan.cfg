CONSTANTS
  DmiWidth = 41
  ReadWidth = 32
  DmiCode <- DmiCodeBits
  DtmcsCode <- DtmcsCodeBits
  Rdback <- RdbackBits
  Dtmcs <- DtmcsBits
  Remains <- TheRemains
  Setups <- AllSetups
  RegNums <- TheRegs
  Words <- TheWords
  Answers <- TheAnswers
SPECIFICATION Spec
INVARIANTS TypeOK InStep ReadyBetweenCalls OpsAsAsked AnswerArrives NothingReachesMute MuteIsBusy MonitorFollows
PROPERTIES OneStrayWord
