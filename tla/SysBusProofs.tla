----------------------------- MODULE SysBusProofs -----------------------------
(***************************************************************************)
(* Proofs about SysBus for every set of addresses and words, every         *)
(* PollLimit and both programs.                                            *)
(***************************************************************************)
EXTENDS SysBus, TLAPS

USE DEF bus, driver, ghost

(***************************************************************************)
(* What the register accesses of the bus block do to its type.             *)
(***************************************************************************)
LEMMA StartType ==
  ASSUME BusTypeOK,
         NEW op \in {"read", "write"}, NEW a \in Addrs,
         NEW w, op = "read" => w = NoWord, op = "write" => w \in Words,
         Start(op, a, w)
  PROVE  /\ transfer' \in Transfers \cup {NoCall}
         /\ sbcs' \in SUBSET (ConfigBits \cup ErrorBits)
<1>1. CASE sbcs \cap SizeBits \in Supported
  <2>1. sbcs \cap SizeBits \in SUBSET SizeBits
    OBVIOUS
  <2>2. transfer' \in Transfers
    BY <1>1, <2>1 DEF Start, Transfers
  <2> QED
    BY <1>1, <2>2 DEF Start, BusTypeOK
<1>2. CASE sbcs \cap SizeBits \notin Supported
  BY <1>2 DEF Start, BusTypeOK, ErrorBits
<1> QED
  BY <1>1, <1>2

LEMMA WriteSbcsType ==
  ASSUME BusTypeOK, NEW v \in SUBSET SbcsBits, WriteSbcs(v)
  PROVE  BusTypeOK'
BY DEF WriteSbcs, BusTypeOK, SbcsBits

LEMMA WriteSbaddressType ==
  ASSUME BusTypeOK, NEW a \in Addrs, WriteSbaddress(a)
  PROVE  BusTypeOK'
<1>1. CASE Busy
  BY <1>1 DEF WriteSbaddress, BusyError, BusTypeOK, ErrorBits
<1>2. CASE ~Busy /\ sbcs \cap ErrorBits = {} /\ "sbreadonaddr" \in sbcs
  <2>1. Start("read", a, NoWord)
    BY <1>2 DEF WriteSbaddress
  <2>2. transfer' \in Transfers \cup {NoCall} /\ sbcs' \in SUBSET (ConfigBits \cup ErrorBits)
    BY <2>1, StartType
  <2> QED
    BY <1>2, <2>2 DEF WriteSbaddress, BusTypeOK
<1>3. CASE ~Busy /\ ~(sbcs \cap ErrorBits = {} /\ "sbreadonaddr" \in sbcs)
  BY <1>3 DEF WriteSbaddress, BusTypeOK
<1> QED
  BY <1>1, <1>2, <1>3

LEMMA WriteSbdataType ==
  ASSUME BusTypeOK, NEW w \in Words, WriteSbdata(w)
  PROVE  BusTypeOK'
<1>1. CASE Busy
  BY <1>1 DEF WriteSbdata, BusyError, BusTypeOK, ErrorBits
<1>2. CASE ~Busy /\ sbcs \cap ErrorBits # {}
  BY <1>2 DEF WriteSbdata, BusTypeOK
<1>3. CASE ~Busy /\ sbcs \cap ErrorBits = {}
  <2>1. Start("write", sbaddress, w) /\ sbaddress \in Addrs
    BY <1>3 DEF WriteSbdata, BusTypeOK
  <2>2. transfer' \in Transfers \cup {NoCall} /\ sbcs' \in SUBSET (ConfigBits \cup ErrorBits)
    BY <2>1, StartType
  <2> QED
    BY <1>3, <2>2 DEF WriteSbdata, BusTypeOK
<1> QED
  BY <1>1, <1>2, <1>3

LEMMA ReadSbdataType ==
  ASSUME BusTypeOK, ReadSbdata
  PROVE  BusTypeOK'
BY DEF ReadSbdata, BusyError, BusTypeOK, ErrorBits

LEMMA UnchangedType ==
  ASSUME BusTypeOK, UNCHANGED bus
  PROVE  BusTypeOK'
BY DEF BusTypeOK

LEMMA FinishTransferType ==
  ASSUME BusTypeOK, FinishTransfer
  PROVE  BusTypeOK'
<1>1. transfer \in Transfers
  BY DEF FinishTransfer, Busy, BusTypeOK
<1>2. /\ transfer.addr \in Addrs
      /\ transfer.op = "read" \/ transfer.data \in Words
  BY <1>1 DEF Transfers
<1>3. CASE transfer.addr \in Mapped
  BY <1>2, <1>3 DEF FinishTransfer, BusTypeOK
<1>4. CASE transfer.addr \notin Mapped
  BY <1>4 DEF FinishTransfer, BusTypeOK, ErrorBits
<1> QED
  BY <1>3, <1>4

LEMMA StoreType ==
  ASSUME BusTypeOK, NEW a \in Mapped, NEW w \in Words, Store(a, w)
  PROVE  BusTypeOK'
BY DEF Store, BusTypeOK

-------------------------------------------------------------------------------
(***************************************************************************)
(* Type correctness: TypeOK is inductive.                                  *)
(***************************************************************************)
LEMMA SbcsValueType == BusTypeOK => SbcsValue \in SUBSET SbcsBits
BY DEF BusTypeOK, SbcsValue, SbcsBits

LEMMA RequestType ==
  ASSUME NEW r \in Requests
  PROVE  /\ r.op \in {"read", "write"} /\ r.addr \in Addrs
         /\ r.op = "read" => r.data = NoWord
         /\ r.op = "write" => r.data \in Words
         /\ r.size \in Sizes /\ r.size \subseteq SizeBits
BY SizeAssumption DEF Requests

LEMMA InitType == Init => TypeOK
<1> SUFFICES ASSUME Init PROVE TypeOK
  OBVIOUS
<1>1. BusTypeOK
  BY SizeAssumption DEF Init, BusInit, BusTypeOK, ConfigBits
<1> QED
  BY <1>1, PollAssumption DEF Init, TypeOK, ReadPcs, WritePcs, SbcsBits

\* A step of the polls, for the two loops.
LEMMA PollType ==
  ASSUME TypeOK,
         NEW at, NEW next,
         \/ at = "rd_poll" /\ next = "rd_data"
         \/ at = "wr_poll" /\ next = "wr_clear",
         Poll(at, next)
  PROVE  TypeOK'
<1>1. UNCHANGED bus
  BY DEF Poll, Answered, Failed, ReadRegister
<1>2. BusTypeOK'
  BY <1>1, UnchangedType DEF TypeOK
<1>3. SbcsValue \in SUBSET SbcsBits
  BY SbcsValueType DEF TypeOK
<1>4. polls' \in 0 .. PollLimit - 1
  BY PollAssumption DEF Poll, TypeOK
<1>5. UNCHANGED <<program, req, ghost>> /\ link' \in {"up", "down"}
  BY DEF Poll, Answered, Failed, TypeOK
<1>6. rdata' \in SUBSET SbcsBits
  BY <1>3 DEF Poll, TypeOK
<1>7. /\ pc' \in {at, next, "idle"}
      /\ ret' \in {"none", "ok", "error", "timeout"}
      /\ UNCHANGED out
  BY DEF Poll, Goto, Return, TypeOK
<1>8. pc = at
  BY DEF Poll
<1> QED
  BY <1>2, <1>4, <1>5, <1>6, <1>7, <1>8 DEF TypeOK, ReadPcs, WritePcs

LEMMA ClearType ==
  ASSUME TypeOK, NEW at \in {"rd_clear", "wr_clear"}, Clear(at)
  PROVE  TypeOK'
<1>1. BusTypeOK'
  BY WriteSbcsType, UnchangedType DEF Clear, Answered, Failed, TypeOK, SbcsBits
<1> QED
  BY <1>1 DEF Clear, Answered, Failed, Return, TypeOK, ReadPcs, WritePcs

LEMMA StepType == TypeOK /\ [Next]_vars => TypeOK'
<1> SUFFICES ASSUME TypeOK, [Next]_vars PROVE TypeOK'
  OBVIOUS
<1> USE DEF TypeOK
<1>1. ASSUME NEW r \in Requests, Call(r) PROVE TypeOK'
  <2>1. BusTypeOK'
    BY <1>1, UnchangedType DEF Call
  <2> QED
    BY <1>1, <2>1, RequestType, PollAssumption DEF Call, ReadPcs, WritePcs, SbcsBits
<1>2. CASE ReadGetSbcs
  <2>1. BusTypeOK'
    BY <1>2, UnchangedType DEF ReadGetSbcs, Answered, Failed, ReadRegister
  <2> QED
    BY <1>2, <2>1, SbcsValueType
    DEF ReadGetSbcs, Answered, Failed, Goto, Return, ReadPcs, WritePcs
<1>3. CASE ReadSetSbcs
  <2>1. ReadSbcsWord \in SUBSET SbcsBits
    BY RequestType DEF ReadSbcsWord, SbcsBits, ConfigBits
  <2>2. BusTypeOK'
    BY <1>3, <2>1, WriteSbcsType, UnchangedType
    DEF ReadSetSbcs, ReadStep, CheckedStep, Unchecked, Answered, Failed
  <2> QED
    BY <1>3, <2>2
    DEF ReadSetSbcs, ReadStep, CheckedStep, Unchecked, Answered, Failed, Goto, Return,
        ReadPcs, WritePcs
<1>4. CASE ReadSetAddress
  <2>1. BusTypeOK'
    BY <1>4, RequestType, WriteSbaddressType, UnchangedType
    DEF ReadSetAddress, ReadStep, CheckedStep, Unchecked, Answered, Failed
  <2> QED
    BY <1>4, <2>1
    DEF ReadSetAddress, ReadStep, CheckedStep, Unchecked, Answered, Failed, Goto, Return,
        NoteStart, ReadPcs, WritePcs
<1>5. CASE ReadPoll
  BY <1>5, PollType DEF ReadPoll
<1>6. CASE ReadData
  <2>1. BusTypeOK'
    BY <1>6, ReadSbdataType, UnchangedType DEF ReadData, Answered, Failed
  <2>2. sbdata \in Words
    BY DEF BusTypeOK
  <2> QED
    BY <1>6, <2>1, <2>2
    DEF ReadData, Answered, Failed, Goto, Return, ReadPcs, WritePcs
<1>7. CASE ReadClear
  BY <1>7, ClearType DEF ReadClear
<1>8. CASE WriteGetSbcs
  <2>1. BusTypeOK'
    BY <1>8, UnchangedType DEF WriteGetSbcs, Answered, Failed, ReadRegister
  <2> QED
    BY <1>8, <2>1, SbcsValueType
    DEF WriteGetSbcs, Answered, Failed, Goto, Return, ReadPcs, WritePcs
<1>9. CASE WriteSetSbcs
  <2>1. WriteSbcsWord \in SUBSET SbcsBits
    BY RequestType DEF WriteSbcsWord, SbcsBits, ConfigBits
  <2>2. BusTypeOK'
    BY <1>9, <2>1, WriteSbcsType, UnchangedType
    DEF WriteSetSbcs, CheckedStep, Answered, Failed
  <2> QED
    BY <1>9, <2>2
    DEF WriteSetSbcs, CheckedStep, Answered, Failed, Goto, Return, ReadPcs, WritePcs
<1>10. CASE WriteSetAddress
  <2>1. BusTypeOK'
    BY <1>10, RequestType, WriteSbaddressType, UnchangedType
    DEF WriteSetAddress, CheckedStep, Answered, Failed
  <2> QED
    BY <1>10, <2>1
    DEF WriteSetAddress, CheckedStep, Answered, Failed, Goto, Return, NoteStart,
        ReadPcs, WritePcs
<1>11. CASE WriteData
  <2>1. req.data \in Words
    BY <1>11, RequestType DEF WriteData, WritePcs
  <2>2. BusTypeOK'
    BY <1>11, <2>1, WriteSbdataType, UnchangedType
    DEF WriteData, CheckedStep, Answered, Failed
  <2> QED
    BY <1>11, <2>2
    DEF WriteData, CheckedStep, Answered, Failed, Goto, Return, NoteStart,
        ReadPcs, WritePcs
<1>12. CASE WritePoll
  BY <1>12, PollType DEF WritePoll
<1>13. CASE WriteClear
  BY <1>13, ClearType DEF WriteClear
<1>14. CASE BusDone
  <2>1. BusTypeOK'
    BY <1>14, FinishTransferType DEF BusDone
  <2>2. progress' \in {"none", "started", "taken", "failed"} /\ seen' \in Words \cup {NoWord}
    BY <1>14 DEF BusDone, BusTypeOK
  <2> QED
    BY <1>14, <2>1, <2>2 DEF BusDone
<1>15. CASE HartStore
  <2>1. BusTypeOK'
    BY <1>15, StoreType DEF HartStore
  <2> QED
    BY <1>15, <2>1 DEF HartStore
<1>16. CASE UNCHANGED vars
  <2>1. BusTypeOK'
    BY <1>16, UnchangedType DEF vars
  <2> QED
    BY <1>16, <2>1 DEF vars
<1> QED
  BY <1>1, <1>2, <1>3, <1>4, <1>5, <1>6, <1>7, <1>8, <1>9, <1>10, <1>11, <1>12,
     <1>13, <1>14, <1>15, <1>16 DEF Next, Steps

\* Every variable of the driver and of the bus block stays in its type, on
\* every hardware and for both programs.
THEOREM TypeCorrect == Spec => []TypeOK
<1>1. Init => TypeOK
  BY InitType
<1>2. TypeOK /\ [Next]_vars => TypeOK'
  BY StepType
<1> QED
  BY <1>1, <1>2, PTL DEF Spec
-------------------------------------------------------------------------------
(***************************************************************************)
(* On every hardware: what is on the bus, and why.                         *)
(***************************************************************************)

\* Between the poll that found the bus free and the end of the call nothing
\* starts a transfer.
QuietInv == pc \in {"rd_data", "rd_clear", "wr_clear"} \/ Returned("ok") => ~Busy

\* When a write names its address no read starts by itself; when it hands
\* over its word the address is its own, or an error bit keeps the bus idle.
AskedInv ==
  /\ pc \in {"wr_addr", "wr_data"} => "sbreadonaddr" \notin sbcs
  /\ pc = "wr_data" => sbaddress = req.addr \/ sbcs \cap ErrorBits # {}

BusInv == QuietInv /\ AskedInv

\* A transfer on the bus is no sentinel.
LEMMA StartBusy ==
  ASSUME BusTypeOK, NEW op \in {"read", "write"}, NEW a \in Addrs, NEW w,
         op = "read" => w = NoWord, op = "write" => w \in Words,
         Start(op, a, w), transfer' # NoCall, ~Busy
  PROVE  transfer' = [op |-> op, addr |-> a, data |-> w, size |-> sbcs \cap SizeBits]
BY DEF Start, Busy

LEMMA SbcsBusy == BusTypeOK => ("sbbusy" \in SbcsValue <=> Busy)
BY DEF BusTypeOK, SbcsValue, ConfigBits, SizeBits, ErrorBits

LEMMA BusInvInit == Init => BusInv
BY DEF Init, BusInit, BusInv, QuietInv, AskedInv, Returned, InCall, Busy

LEMMA BusInvStep == TypeOK /\ BusInv /\ [Next]_vars => BusInv'
<1> SUFFICES ASSUME TypeOK, BusInv, [Next]_vars PROVE BusInv'
  OBVIOUS
<1>t. BusTypeOK
  BY DEF TypeOK
<1> USE DEF BusInv, QuietInv, AskedInv, Returned, InCall, Busy
<1>1. ASSUME NEW r \in Requests, Call(r) PROVE BusInv'
  BY <1>1 DEF Call
<1>2. CASE ReadGetSbcs
  BY <1>2 DEF ReadGetSbcs, Answered, Failed, Goto, Return, ReadRegister
<1>3. CASE ReadSetSbcs
  BY <1>3 DEF ReadSetSbcs, ReadStep, CheckedStep, Unchecked, Answered, Failed, Goto, Return
<1>4. CASE ReadSetAddress
  BY <1>4 DEF ReadSetAddress, ReadStep, CheckedStep, Unchecked, Answered, Failed, Goto, Return
<1>5. CASE ReadPoll
  BY <1>5, <1>t, SbcsBusy DEF ReadPoll, Poll, Answered, Failed, Goto, Return, ReadRegister
<1>6. CASE ReadData
  BY <1>6 DEF ReadData, Answered, Failed, Goto, Return, ReadSbdata
<1>7. CASE ReadClear
  BY <1>7 DEF ReadClear, Clear, Answered, Failed, Return, WriteSbcs
<1>8. CASE WriteGetSbcs
  BY <1>8 DEF WriteGetSbcs, Answered, Failed, Goto, Return, ReadRegister
<1>9. CASE WriteSetSbcs
  <2>1. "sbreadonaddr" \notin WriteSbcsWord
    BY RequestType DEF WriteSbcsWord, ConfigBits, SizeBits, TypeOK
  <2> QED
    BY <1>9, <2>1
    DEF WriteSetSbcs, CheckedStep, Answered, Failed, Goto, Return, WriteSbcs, ErrorBits
<1>10. CASE WriteSetAddress
  <2>1. CASE Busy
    BY <1>10, <2>1
    DEF WriteSetAddress, CheckedStep, Answered, Failed, Goto, Return, WriteSbaddress,
        BusyError, ErrorBits
  <2>2. CASE ~Busy
    BY <1>10, <2>2
    DEF WriteSetAddress, CheckedStep, Answered, Failed, Goto, Return, WriteSbaddress
  <2> QED
    BY <2>1, <2>2
<1>11. CASE WriteData
  BY <1>11 DEF WriteData, CheckedStep, Answered, Failed, Goto, Return
<1>12. CASE WritePoll
  BY <1>12, <1>t, SbcsBusy DEF WritePoll, Poll, Answered, Failed, Goto, Return, ReadRegister
<1>13. CASE WriteClear
  BY <1>13 DEF WriteClear, Clear, Answered, Failed, Return, WriteSbcs
<1>14. CASE BusDone
  BY <1>14 DEF BusDone, FinishTransfer
<1>15. CASE HartStore
  BY <1>15 DEF HartStore, Store
<1>16. CASE UNCHANGED vars
  BY <1>16 DEF vars
<1> QED
  BY <1>1, <1>2, <1>3, <1>4, <1>5, <1>6, <1>7, <1>8, <1>9, <1>10, <1>11, <1>12,
     <1>13, <1>14, <1>15, <1>16 DEF Next, Steps

LEMMA BusInvariant == Spec => [](TypeOK /\ BusInv)
<1>1. Init => TypeOK /\ BusInv
  BY InitType, BusInvInit
<1>2. TypeOK /\ BusInv /\ [Next]_vars => (TypeOK /\ BusInv)'
  BY StepType, BusInvStep
<1> QED
  BY <1>1, <1>2, PTL DEF Spec

\* A call that returned 0 has left nothing on the bus, however slow the bus
\* and whatever fails on the link.
THEOREM QuietAfterSuccessHolds == Spec => []QuietAfterSuccess
<1>1. BusInv => QuietAfterSuccess
  BY DEF BusInv, QuietInv, QuietAfterSuccess
<1> QED
  BY <1>1, BusInvariant, PTL

\* The step in which a transfer starts, for AskedOnly.
LEMMA AskedStep ==
  ASSUME TypeOK, BusInv, [Next]_vars, ~Busy, transfer' # NoCall
  PROVE  /\ InCall
         /\ transfer'.op = req.op
         /\ transfer'.addr = req.addr
         /\ transfer'.data = req.data
<1>t. BusTypeOK /\ req \in Requests
  BY DEF TypeOK
<1>r. /\ req.addr \in Addrs
      /\ pc = "rd_addr" => req.op = "read" /\ req.data = NoWord
      /\ pc = "wr_data" => req.op = "write" /\ req.data \in Words
  BY <1>t, RequestType DEF TypeOK, ReadPcs, WritePcs
<1> USE DEF Busy
<1>1. ASSUME NEW r \in Requests, Call(r) PROVE FALSE
  BY <1>1 DEF Call
<1>2. CASE ReadGetSbcs
  BY <1>2 DEF ReadGetSbcs, Answered, Failed, ReadRegister
<1>3. CASE ReadSetSbcs
  BY <1>3 DEF ReadSetSbcs, ReadStep, CheckedStep, Unchecked, Answered, Failed, WriteSbcs
<1>4. CASE ReadSetAddress
  <2>1. pc = "rd_addr" /\ (WriteSbaddress(req.addr) \/ UNCHANGED bus)
    BY <1>4 DEF ReadSetAddress, ReadStep, CheckedStep, Unchecked, Answered, Failed
  <2>2. Start("read", req.addr, NoWord)
    BY <2>1 DEF WriteSbaddress
  <2>3. transfer' = [op |-> "read", addr |-> req.addr, data |-> NoWord,
                     size |-> sbcs \cap SizeBits]
    BY <1>t, <1>r, <2>2, StartBusy
  <2> QED
    BY <1>r, <2>1, <2>3 DEF InCall
<1>5. CASE ReadPoll
  BY <1>5 DEF ReadPoll, Poll, Answered, Failed, ReadRegister
<1>6. CASE ReadData
  BY <1>6 DEF ReadData, Answered, Failed, ReadSbdata
<1>7. CASE ReadClear
  BY <1>7 DEF ReadClear, Clear, Answered, Failed, WriteSbcs
<1>8. CASE WriteGetSbcs
  BY <1>8 DEF WriteGetSbcs, Answered, Failed, ReadRegister
<1>9. CASE WriteSetSbcs
  BY <1>9 DEF WriteSetSbcs, CheckedStep, Answered, Failed, WriteSbcs
<1>10. CASE WriteSetAddress
  BY <1>10 DEF WriteSetAddress, CheckedStep, Answered, Failed, WriteSbaddress, BusInv, AskedInv
<1>11. CASE WriteData
  <2>1. pc = "wr_data" /\ (WriteSbdata(req.data) \/ UNCHANGED bus)
    BY <1>11 DEF WriteData, CheckedStep, Answered, Failed
  <2>2. Start("write", sbaddress, req.data) /\ sbcs \cap ErrorBits = {}
    BY <2>1 DEF WriteSbdata
  <2>3. sbaddress = req.addr
    BY <2>1, <2>2 DEF BusInv, AskedInv
  <2>4. transfer' = [op |-> "write", addr |-> req.addr, data |-> req.data,
                     size |-> sbcs \cap SizeBits]
    BY <1>t, <1>r, <2>1, <2>2, <2>3, StartBusy
  <2> QED
    BY <1>r, <2>1, <2>4 DEF InCall
<1>12. CASE WritePoll
  BY <1>12 DEF WritePoll, Poll, Answered, Failed, ReadRegister
<1>13. CASE WriteClear
  BY <1>13 DEF WriteClear, Clear, Answered, Failed, WriteSbcs
<1>14. CASE BusDone
  BY <1>14 DEF BusDone, FinishTransfer
<1>15. CASE HartStore
  BY <1>15 DEF HartStore, Store
<1>16. CASE UNCHANGED vars
  BY <1>16 DEF vars
<1> QED
  BY <1>1, <1>2, <1>3, <1>4, <1>5, <1>6, <1>7, <1>8, <1>9, <1>10, <1>11, <1>12,
     <1>13, <1>14, <1>15, <1>16 DEF Next, Steps

\* Every transfer that starts is the one the call in progress asks for, on
\* every hardware: no leftover of an earlier call that failed or gave up.
THEOREM AskedOnlyHolds == Spec => AskedOnly
<1>1. TypeOK /\ BusInv /\ [Next]_vars =>
        [~Busy /\ transfer' # NoCall =>
           /\ InCall
           /\ transfer'.op = req.op
           /\ transfer'.addr = req.addr
           /\ transfer'.data = req.data]_vars
  BY AskedStep
<1> QED
  BY <1>1, BusInvariant, PTL DEF Spec, AskedOnly

-------------------------------------------------------------------------------
(***************************************************************************)
(* On a bus that ends every transfer before the last poll, a link that     *)
(* stays down once it failed, and sizes the bus has, SysBus does what it   *)
(* reports and implements AccessPort, for every set of addresses and       *)
(* words, every PollLimit and both programs.                               *)
(*                                                                         *)
(* None of the assumptions can go: on a slow bus run SysBusStale is the    *)
(* counterexample; on a link that recovers, a read whose accesses failed   *)
(* unnoticed ends with an answered one; a size the bus refuses leaves no   *)
(* transfer to wait for.                                                   *)
(***************************************************************************)

SizesSupported ==
  \A s \in Sizes : s \in Supported /\ s \cup ResetSize \in Supported

Regime == ~SlowBus /\ StickyLink /\ SizesSupported

\* The size bits a call can find: those of reset, or none after a clear.
RestSize == sbcs \cap SizeBits \in {ResetSize, {}}

\* SBCS is ready for the transfer of the call.
Armed == sbcs \cap ErrorBits = {} /\ sbcs \cap SizeBits \in Supported

\* The bus took the transfer of the call, or there is nothing to take.
Settled ==
  /\ ~Busy
  /\ IF req.addr \in Mapped THEN progress = "taken" ELSE progress = "failed"

\* Where a call stands while the link is up, access by access.
CallInv ==
  link = "up" =>
    /\ pc \in {"idle", "rd_getcs", "wr_getcs", "rd_setcs", "wr_setcs"} => ~Busy /\ RestSize
    /\ pc \in {"rd_setcs", "wr_setcs"} => rdata = sbcs
    /\ pc \in {"rd_addr", "wr_addr", "wr_data"} => ~Busy /\ Armed
    /\ pc = "rd_addr" => "sbreadonaddr" \in sbcs
    /\ pc \in {"rd_poll", "wr_poll"} => (Busy /\ progress = "started") \/ Settled
    /\ pc \in {"rd_data", "rd_clear", "wr_clear"} => Settled
    /\ pc \in {"rd_poll", "rd_data"} /\ progress = "taken" => seen = sbdata
    /\ pc = "rd_clear" /\ progress = "taken" => out = seen

BeforeStart ==
  {"rd_getcs", "wr_getcs", "rd_setcs", "wr_setcs", "rd_addr", "wr_addr", "wr_data"}

\* What the history variables say of the bus, on a link that is down too.
HistoryInv ==
  /\ pc \in BeforeStart => progress = "none"
  /\ progress = "started" => Busy /\ transfer.op = req.op /\ transfer.addr = req.addr
                             /\ transfer.data = req.data
  /\ progress # "taken" => seen = NoWord
  /\ InCall => ret = "none"
  /\ progress \in {"taken", "failed"} => (progress = "taken" <=> req.addr \in Mapped)
  /\ progress = "taken" /\ req.op = "write" => seen = NoWord
  /\ pc \in WritePcs => out = NoWord

PortInv == CallInv /\ HistoryInv /\ SuccessMeansTaken
-------------------------------------------------------------------------------
(***************************************************************************)
(* The history variables.                                                  *)
(***************************************************************************)

\* The accesses that are not meant to start a transfer.
Bystanders ==
  \/ ReadGetSbcs \/ ReadSetSbcs \/ ReadPoll \/ ReadData \/ ReadClear
  \/ WriteGetSbcs \/ WriteSetSbcs \/ WriteSetAddress \/ WritePoll \/ WriteClear

\* They leave the transfer, and with it the history, alone.
LEMMA BystanderStep ==
  ASSUME TypeOK, BusInv, Bystanders
  PROVE  UNCHANGED <<transfer, mem, req, progress, seen>>
<1>1. CASE ReadGetSbcs
  BY <1>1 DEF ReadGetSbcs, Answered, Failed, ReadRegister
<1>2. CASE ReadSetSbcs
  BY <1>2 DEF ReadSetSbcs, ReadStep, CheckedStep, Unchecked, Answered, Failed, WriteSbcs
<1>3. CASE ReadPoll
  BY <1>3 DEF ReadPoll, Poll, Answered, Failed, ReadRegister
<1>4. CASE ReadData
  BY <1>4 DEF ReadData, Answered, Failed, ReadSbdata
<1>5. CASE ReadClear \/ WriteClear
  BY <1>5 DEF ReadClear, WriteClear, Clear, Answered, Failed, WriteSbcs
<1>6. CASE WriteGetSbcs
  BY <1>6 DEF WriteGetSbcs, Answered, Failed, ReadRegister
<1>7. CASE WriteSetSbcs
  BY <1>7 DEF WriteSetSbcs, CheckedStep, Answered, Failed, WriteSbcs
<1>8. CASE WriteSetAddress
  <2>1. UNCHANGED <<transfer, mem, req>>
    BY <1>8 DEF WriteSetAddress, CheckedStep, Answered, Failed, WriteSbaddress, BusInv, AskedInv
  <2> QED
    BY <1>8, <2>1 DEF WriteSetAddress, NoteStart, Busy
<1>9. CASE WritePoll
  BY <1>9 DEF WritePoll, Poll, Answered, Failed, ReadRegister
<1> QED
  BY <1>1, <1>2, <1>3, <1>4, <1>5, <1>6, <1>7, <1>8, <1>9 DEF Bystanders

LEMMA HistoryInit == Init => HistoryInv
BY DEF Init, HistoryInv, BeforeStart, InCall

\* The two steps that can start the transfer of the call.
LEMMA HistoryStart ==
  ASSUME TypeOK, BusInv, HistoryInv, ReadSetAddress \/ WriteData
  PROVE  HistoryInv'
<1>1. progress = "none" /\ seen = NoWord /\ ret = "none"
  BY DEF ReadSetAddress, WriteData, HistoryInv, BeforeStart, InCall
<1>2. /\ UNCHANGED <<req, seen>>
      /\ progress' = IF ~Busy /\ transfer' # NoCall THEN "started" ELSE progress
      /\ pc' \notin BeforeStart
      /\ pc' # "idle" => UNCHANGED ret
      /\ pc' \in WritePcs => pc \in WritePcs /\ UNCHANGED out
  BY DEF ReadSetAddress, WriteData, ReadStep, CheckedStep, Unchecked, Answered, Failed,
         Goto, Return, NoteStart, BeforeStart, WritePcs
<1>3. CASE ~Busy /\ transfer' # NoCall
  <2>1. transfer'.op = req.op /\ transfer'.addr = req.addr /\ transfer'.data = req.data
    BY <1>3, AskedStep DEF Next, Steps
  <2> QED
    BY <1>1, <1>2, <1>3, <2>1 DEF HistoryInv, InCall, Busy
<1>4. CASE ~(~Busy /\ transfer' # NoCall)
  BY <1>1, <1>2, <1>4 DEF HistoryInv, InCall
<1> QED
  BY <1>3, <1>4

LEMMA HistoryStep == TypeOK /\ BusInv /\ HistoryInv /\ [Next]_vars => HistoryInv'
<1> SUFFICES ASSUME TypeOK, BusInv, HistoryInv, [Next]_vars PROVE HistoryInv'
  OBVIOUS
<1>1. ASSUME NEW r \in Requests, Call(r) PROVE HistoryInv'
  BY <1>1 DEF Call, HistoryInv, InCall, BeforeStart
<1>2. CASE ReadSetAddress \/ WriteData
  BY <1>2, HistoryStart
<1>3. CASE BusDone
  <2>1. req.op \in {"read", "write"}
    BY RequestType DEF TypeOK
  <2>2. UNCHANGED driver
    BY <1>3 DEF BusDone
  <2> QED
    BY <1>3, <2>1, <2>2 DEF BusDone, FinishTransfer, HistoryInv, InCall, BeforeStart
<1>4. CASE Bystanders
  <2>1. UNCHANGED <<transfer, req, progress, seen>>
    BY <1>4, BystanderStep
  <2>2. /\ pc # "idle"
        /\ pc' # "idle" => UNCHANGED ret
        /\ pc' \in BeforeStart => pc \in BeforeStart
        /\ pc' \in WritePcs => pc \in WritePcs /\ UNCHANGED out
    BY <1>4 DEF Bystanders, ReadGetSbcs, ReadSetSbcs, ReadPoll, ReadData, ReadClear,
       WriteGetSbcs, WriteSetSbcs, WriteSetAddress, WritePoll, WriteClear, Poll, Clear,
       ReadStep, CheckedStep, Unchecked, Goto, Return, BeforeStart, WritePcs
  <2> QED
    BY <2>1, <2>2 DEF HistoryInv, InCall, Busy
<1>5. CASE HartStore
  BY <1>5 DEF HartStore, Store, HistoryInv, InCall, Busy
<1>6. CASE UNCHANGED vars
  BY <1>6 DEF vars, HistoryInv, InCall, Busy
<1> QED
  BY <1>1, <1>2, <1>3, <1>4, <1>5, <1>6 DEF Next, Steps, Bystanders
-------------------------------------------------------------------------------
(***************************************************************************)
(* The course of a call while the link is up.                              *)
(***************************************************************************)
LEMMA CallInit == Init => CallInv /\ SuccessMeansTaken
BY SizeAssumption
DEF Init, BusInit, CallInv, RestSize, SuccessMeansTaken, Returned, InCall, Busy

\* SBCS as the two functions set it: the error bits are written back as they
\* were read, which clears them, and the size is one the bus has.
LEMMA SbcsArmed ==
  ASSUME BusTypeOK, SizesSupported, RestSize, NEW size \in Sizes,
         NEW v, v = sbcs \cup size \cup {"sbreadonaddr"} \/ v = (sbcs \ ConfigBits) \cup size,
         WriteSbcs(v)
  PROVE  Armed' /\ ("sbreadonaddr" \in v => "sbreadonaddr" \in sbcs')
<1>1. size \subseteq SizeBits /\ ResetSize \subseteq SizeBits
  BY SizeAssumption
<1>2. sbcs' = (v \cap ConfigBits) \cup (sbcs \cap (ErrorBits \ v))
  BY DEF WriteSbcs
<1>3. sbcs' \cap ErrorBits = {}
  BY <1>1, <1>2 DEF ErrorBits, ConfigBits, SizeBits
<1>4. CASE v = sbcs \cup size \cup {"sbreadonaddr"}
  <2>1. sbcs' \cap SizeBits = (sbcs \cap SizeBits) \cup size
    BY <1>1, <1>2, <1>4 DEF ErrorBits, ConfigBits, SizeBits
  <2>2. sbcs' \cap SizeBits = size \/ sbcs' \cap SizeBits = size \cup ResetSize
    BY <2>1 DEF RestSize
  <2> QED
    BY <1>2, <1>3, <1>4, <2>2 DEF Armed, SizesSupported, ConfigBits
<1>5. CASE v = (sbcs \ ConfigBits) \cup size
  <2>1. sbcs' \cap SizeBits = size
    BY <1>1, <1>2, <1>5 DEF ErrorBits, ConfigBits, SizeBits
  <2> QED
    BY <1>2, <1>3, <2>1 DEF Armed, SizesSupported, ConfigBits
<1> QED
  BY <1>4, <1>5

\* A transfer of a size the bus has does start.
LEMMA StartSupported ==
  ASSUME BusTypeOK, NEW op \in {"read", "write"}, NEW a \in Addrs,
         NEW w, op = "read" => w = NoWord, op = "write" => w \in Words,
         sbcs \cap SizeBits \in Supported, Start(op, a, w)
  PROVE  Busy'
<1>1. sbcs \cap SizeBits \in SUBSET SizeBits
  OBVIOUS
<1>2. transfer' \in Transfers
  BY <1>1 DEF Start, Transfers
<1> QED
  BY <1>2, SentinelAssumption DEF Busy

LEMMA CallStep ==
  Regime /\ TypeOK /\ BusInv /\ HistoryInv /\ CallInv /\ [Next]_vars => CallInv'
<1> SUFFICES ASSUME Regime, TypeOK, BusInv, HistoryInv, CallInv, [Next]_vars, link' = "up"
             PROVE  CallInv'
  BY DEF CallInv
<1>t. /\ BusTypeOK /\ req.size \in Sizes /\ req.addr \in Addrs
      /\ ~SlowBus /\ StickyLink /\ SizesSupported
      /\ pc \in ReadPcs => req.op = "read" /\ req.data = NoWord
      /\ pc \in WritePcs => req.op = "write" /\ req.data \in Words
  BY RequestType DEF TypeOK, Regime
<1> USE DEF CallInv
<1>1. ASSUME NEW r \in Requests, Call(r) PROVE CallInv'
  BY <1>1 DEF Call, RestSize, Busy
<1>2. CASE ReadGetSbcs \/ WriteGetSbcs
  <2>1. /\ link = "up" /\ UNCHANGED <<bus, progress, seen>> /\ rdata' = SbcsValue
        /\ pc \in {"rd_getcs", "wr_getcs"} /\ pc' \in {"rd_setcs", "wr_setcs"}
    BY <1>t, <1>2 DEF ReadGetSbcs, WriteGetSbcs, Answered, Failed, ReadRegister, Goto
  <2>2. rdata' = sbcs
    BY <2>1 DEF SbcsValue
  <2> QED
    BY <2>1, <2>2 DEF RestSize, Busy
<1>3. CASE ReadSetSbcs
  <2>1. /\ link = "up" /\ WriteSbcs(ReadSbcsWord)
        /\ pc = "rd_setcs" /\ pc' = "rd_addr"
    BY <1>t, <1>3 DEF ReadSetSbcs, ReadStep, CheckedStep, Unchecked, Answered, Failed, Goto
  <2>2. ReadSbcsWord = sbcs \cup req.size \cup {"sbreadonaddr"} /\ RestSize /\ ~Busy
    BY <2>1 DEF ReadSbcsWord
  <2>3. Armed' /\ "sbreadonaddr" \in sbcs'
    BY <1>t, <2>1, <2>2, SbcsArmed
  <2>4. ~Busy'
    BY <2>1, <2>2 DEF WriteSbcs, Busy
  <2> QED
    BY <2>1, <2>3, <2>4
<1>4. CASE ReadSetAddress
  <2>1. /\ link = "up" /\ WriteSbaddress(req.addr) /\ NoteStart
        /\ pc = "rd_addr" /\ pc' = "rd_poll"
    BY <1>t, <1>4 DEF ReadSetAddress, ReadStep, CheckedStep, Unchecked, Answered, Failed, Goto
  <2>2. Start("read", req.addr, NoWord) /\ ~Busy /\ sbcs \cap SizeBits \in Supported
    BY <2>1 DEF WriteSbaddress, Armed
  <2>3. Busy'
    BY <1>t, <2>2, StartSupported
  <2>4. progress' = "started"
    BY <2>1, <2>2, <2>3 DEF NoteStart, Busy
  <2> QED
    BY <2>1, <2>3, <2>4
<1>5. CASE ReadPoll \/ WritePoll
  <2>1. /\ link = "up" /\ UNCHANGED <<bus, req, ghost>>
        /\ \/ pc = "rd_poll" /\ pc' \in {"rd_poll", "rd_data", "idle"}
           \/ pc = "wr_poll" /\ pc' \in {"wr_poll", "wr_clear", "idle"}
        /\ pc' # pc => pc' # "idle" /\ "sbbusy" \notin SbcsValue
    <3>1. polls \in 0 .. PollLimit - 1 /\ "sbbusy" \in SbcsValue => Busy
      BY <1>t, SbcsBusy DEF TypeOK
    <3> QED
      BY <1>t, <1>5, <3>1, PollAssumption
      DEF ReadPoll, WritePoll, Poll, InTime, Answered, Failed, ReadRegister, Goto, Return
  <2>2. pc' # pc => ~Busy
    BY <1>t, <2>1, SbcsBusy
  <2>3. pc' # pc => Settled
    BY <2>1, <2>2
  <2>4. (Busy <=> Busy') /\ (Settled <=> Settled')
    BY <2>1 DEF Settled, Busy
  <2> QED
    BY <2>1, <2>3, <2>4
<1>6. CASE ReadData
  <2>1. /\ link = "up" /\ ReadSbdata /\ out' = sbdata /\ UNCHANGED <<req, ghost>>
        /\ pc = "rd_data" /\ pc' = "rd_clear"
    BY <1>t, <1>6 DEF ReadData, Answered, Failed
  <2>2. Settled /\ UNCHANGED bus
    BY <2>1 DEF Settled, ReadSbdata
  <2> QED
    BY <2>1, <2>2 DEF Settled, Busy
<1>7. CASE ReadClear \/ WriteClear
  <2>1. /\ link = "up" /\ WriteSbcs({}) /\ pc' = "idle"
        /\ pc \in {"rd_clear", "wr_clear"}
    BY <1>t, <1>7 DEF ReadClear, WriteClear, Clear, Answered, Failed, Return
  <2>2. sbcs' \cap SizeBits = {} /\ ~Busy'
    BY <2>1 DEF WriteSbcs, ErrorBits, SizeBits, Settled, Busy
  <2> QED
    BY <2>1, <2>2 DEF RestSize
<1>8. CASE WriteSetSbcs
  <2>1. /\ link = "up" /\ WriteSbcs(WriteSbcsWord)
        /\ pc = "wr_setcs" /\ pc' = "wr_addr"
    BY <1>t, <1>8 DEF WriteSetSbcs, CheckedStep, Answered, Failed, Goto
  <2>2. WriteSbcsWord = (sbcs \ ConfigBits) \cup req.size /\ RestSize /\ ~Busy
    BY <2>1 DEF WriteSbcsWord
  <2>3. Armed'
    BY <1>t, <2>1, <2>2, SbcsArmed
  <2>4. ~Busy'
    BY <2>1, <2>2 DEF WriteSbcs, Busy
  <2> QED
    BY <2>1, <2>3, <2>4
<1>9. CASE WriteSetAddress
  <2>1. /\ link = "up" /\ WriteSbaddress(req.addr)
        /\ pc = "wr_addr" /\ pc' = "wr_data"
    BY <1>t, <1>9 DEF WriteSetAddress, CheckedStep, Answered, Failed, Goto
  <2>2. UNCHANGED <<sbcs, transfer>>
    BY <2>1 DEF WriteSbaddress, BusInv, AskedInv
  <2> QED
    BY <2>1, <2>2 DEF Armed, Busy
<1>10. CASE WriteData
  <2>1. /\ link = "up" /\ WriteSbdata(req.data) /\ NoteStart
        /\ pc = "wr_data" /\ pc' = "wr_poll"
    BY <1>t, <1>10 DEF WriteData, CheckedStep, Answered, Failed, Goto
  <2>2. Start("write", sbaddress, req.data) /\ ~Busy /\ sbcs \cap SizeBits \in Supported
    BY <2>1 DEF WriteSbdata, Armed
  <2>3. sbaddress \in Addrs /\ req.data \in Words
    BY <1>t, <2>1 DEF BusTypeOK, WritePcs
  <2>4. Busy'
    BY <1>t, <2>2, <2>3, StartSupported
  <2>5. progress' = "started"
    BY <2>1, <2>2, <2>4 DEF NoteStart, Busy
  <2> QED
    BY <2>1, <2>4, <2>5
<1>11. CASE BusDone
  <2>1. Busy /\ ~Busy' /\ UNCHANGED driver
    BY <1>11 DEF BusDone, FinishTransfer, Busy
  <2>2. pc \in {"rd_poll", "wr_poll"} /\ progress = "started"
    BY <2>1 DEF Settled, TypeOK, ReadPcs, WritePcs
  <2>3. transfer.addr = req.addr /\ transfer.op = req.op
    BY <2>2 DEF HistoryInv
  <2>4. Settled'
    BY <1>11, <2>1, <2>2, <2>3 DEF BusDone, Settled
  <2>5. pc = "rd_poll" /\ progress' = "taken" => seen' = sbdata'
    BY <1>t, <1>11, <2>2, <2>3 DEF BusDone, FinishTransfer, ReadPcs
  <2> QED
    BY <2>1, <2>2, <2>4, <2>5
<1>12. CASE HartStore
  BY <1>12 DEF HartStore, Store, RestSize, Armed, Settled, Busy
<1>13. CASE UNCHANGED vars
  BY <1>13 DEF vars, RestSize, Armed, Settled, Busy
<1> QED
  BY <1>1, <1>2, <1>3, <1>4, <1>5, <1>6, <1>7, <1>8, <1>9, <1>10, <1>11, <1>12, <1>13
  DEF Next, Steps

LEMMA SuccessStep ==
  ASSUME TypeOK, BusInv, CallInv, SuccessMeansTaken, [Next]_vars
  PROVE  SuccessMeansTaken'
<1> USE DEF SuccessMeansTaken, Returned, InCall
<1>1. ASSUME NEW r \in Requests, Call(r) PROVE SuccessMeansTaken'
  BY <1>1 DEF Call
<1>2. CASE ReadClear \/ WriteClear
  <2>1. CASE link = "up" /\ ret' = "ok"
    <3>1. UNCHANGED <<req, out, ghost>> /\ Settled
      BY <1>2, <2>1 DEF ReadClear, WriteClear, Clear, Return, CallInv
    <3>2. \/ pc = "rd_clear"
          \/ pc = "wr_clear" /\ req.op = "write"
      BY <1>2 DEF ReadClear, WriteClear, Clear, TypeOK, WritePcs
    <3> QED
      BY <2>1, <3>1, <3>2 DEF CallInv, Settled
  <2>2. CASE ~(link = "up" /\ ret' = "ok")
    BY <1>2, <2>2 DEF ReadClear, WriteClear, Clear, Answered, Failed, Return
  <2> QED
    BY <2>1, <2>2
<1>3. CASE Steps /\ ~(ReadClear \/ WriteClear)
  <2>1. pc' = "idle" => ret' \in {"error", "timeout"}
    BY <1>3 DEF Steps, ReadGetSbcs, ReadSetSbcs, ReadSetAddress, ReadPoll, ReadData,
       WriteGetSbcs, WriteSetSbcs, WriteSetAddress, WriteData, WritePoll, Poll, ReadStep,
       CheckedStep, Unchecked, Goto, Return
  <2> QED
    BY <2>1
<1>4. CASE BusDone
  <2>1. Returned("ok") => FALSE
    BY <1>4 DEF BusDone, FinishTransfer, BusInv, QuietInv
  <2> QED
    BY <1>4, <2>1 DEF BusDone
<1>5. CASE HartStore
  BY <1>5 DEF HartStore
<1>6. CASE UNCHANGED vars
  BY <1>6 DEF vars
<1> QED
  BY <1>1, <1>2, <1>3, <1>4, <1>5, <1>6 DEF Next

LEMMA PortInvariant == ASSUME Regime PROVE Spec => [](TypeOK /\ BusInv /\ PortInv)
<1>1. Init => TypeOK /\ BusInv /\ PortInv
  BY InitType, BusInvInit, HistoryInit, CallInit DEF PortInv
<1>2. TypeOK /\ BusInv /\ PortInv /\ [Next]_vars => (TypeOK /\ BusInv /\ PortInv)'
  BY StepType, BusInvStep, HistoryStep, CallStep, SuccessStep DEF PortInv
<1> QED
  BY <1>1, <1>2, PTL DEF Spec

\* A call that returns 0 for an address that exists did its work, provided
\* the bus is fast enough, the link does not recover from a failure, and the
\* bus has the sizes that can reach it.
THEOREM SuccessMeansTakenHolds == ASSUME Regime PROVE Spec => []SuccessMeansTaken
<1>1. PortInv => SuccessMeansTaken
  BY DEF PortInv
<1> QED
  BY <1>1, PortInvariant, PTL
-------------------------------------------------------------------------------
(***************************************************************************)
(* SysBus implements AccessPort.                                           *)
(***************************************************************************)

LEMMA NamedType ==
  /\ \A r \in Requests : Named(r) \in Port!Calls /\ Named(r) # NoCall
  /\ \A t \in Transfers : Named(t) \in Port!Calls /\ Named(t) # NoCall
BY PortAssumption DEF Requests, Transfers, Named, Port!Calls, Addrs

LEMMA PortInit == Init => Port!Init
BY DEF Init, BusInit, Port!Init, InCall, Own, Busy

\* A step of a call that does not return and leaves the bus to itself.
LEMMA PortStutter ==
  ASSUME TypeOK, InCall, InCall', UNCHANGED <<mem, transfer, req, progress, seen, ret>>
  PROVE  UNCHANGED Port!vars
BY DEF Port!vars, Own, Busy, InCall

\* The start of a call's transfer is no step of the port.
LEMMA PortStart ==
  ASSUME TypeOK, BusInv, PortInv, ReadSetAddress \/ WriteData
  PROVE  /\ UNCHANGED <<mem, req, seen>> /\ InCall /\ progress = "none"
         /\ InCall' => UNCHANGED ret
         /\ ~InCall' => ret' = "error" /\ UNCHANGED out
         /\ \/ UNCHANGED <<transfer, progress>>
            \/ /\ ~Busy /\ Busy' /\ progress' = "started"
               /\ Named(transfer') = Named(req)
<1>1. /\ UNCHANGED <<req, seen>> /\ InCall /\ progress = "none"
      /\ InCall' => UNCHANGED ret
      /\ ~InCall' => ret' = "error" /\ UNCHANGED out
      /\ progress' = IF ~Busy /\ transfer' # NoCall THEN "started" ELSE progress
  BY DEF ReadSetAddress, WriteData, ReadStep, CheckedStep, Unchecked, Answered, Failed,
         Goto, Return, NoteStart, PortInv, HistoryInv, BeforeStart, InCall
<1>2. UNCHANGED mem /\ (Busy => UNCHANGED transfer)
  BY DEF ReadSetAddress, WriteData, ReadStep, CheckedStep, Unchecked, Answered, Failed,
         WriteSbaddress, WriteSbdata
<1>3. CASE ~Busy /\ transfer' # NoCall
  <2>1. transfer'.op = req.op /\ transfer'.addr = req.addr /\ transfer'.data = req.data
    BY <1>3, AskedStep DEF Next, Steps
  <2> QED
    BY <1>1, <1>2, <1>3, <2>1 DEF Named, Busy
<1>4. CASE ~(~Busy /\ transfer' # NoCall)
  BY <1>1, <1>2, <1>4 DEF Busy
<1> QED
  BY <1>3, <1>4

LEMMA PortStep ==
  ASSUME TypeOK, BusInv, PortInv, Next
  PROVE  Port!Next \/ UNCHANGED Port!vars
<1>t. /\ req \in Requests /\ out \in Words \cup {NoWord}
      /\ transfer \in Transfers \cup {NoCall}
      /\ Named(req) # NoCall
  BY NamedType DEF TypeOK, BusTypeOK
<1>h. HistoryInv /\ CallInv
  BY DEF PortInv
<1>1. ASSUME NEW r \in Requests, Call(r) PROVE Port!Next
  <2>1. Named(r) \in Port!Calls
    BY NamedType
  <2>2. Port!Begin(Named(r))
    BY <1>1, <1>h DEF Call, Port!Begin, InCall, Own, Busy, HistoryInv
  <2> QED
    BY <2>1, <2>2 DEF Port!Next
<1>2. CASE ReadSetAddress \/ WriteData
  <2> USE PortStart, <1>2
  <2>1. CASE InCall'
    BY <1>h, <2>1 DEF Port!vars, HistoryInv, Own, Busy
  <2>2. CASE ~InCall'
    <3>1. Port!ReturnError
      BY <1>t, <1>h, <2>2 DEF Port!ReturnError, HistoryInv, Own, Busy
    <3> QED
      BY <3>1 DEF Port!Next
  <2> QED
    BY <2>1, <2>2
<1>3. CASE Bystanders
  <2>1. UNCHANGED <<transfer, mem, req, progress, seen>>
    BY <1>3, BystanderStep
  <2>2. /\ InCall
        /\ InCall' => UNCHANGED ret
        /\ ~InCall' => UNCHANGED out
        /\ ~InCall' /\ ret' = "ok" => link = "up" /\ pc \in {"rd_clear", "wr_clear"}
    BY <1>3 DEF Bystanders, ReadGetSbcs, ReadSetSbcs, ReadPoll, ReadData, ReadClear,
       WriteGetSbcs, WriteSetSbcs, WriteSetAddress, WritePoll, WriteClear, Poll, Clear,
       ReadStep, CheckedStep, Unchecked, Answered, Failed, Goto, Return, InCall
  <2>3. CASE InCall'
    BY <2>1, <2>2, <2>3, PortStutter
  <2>4. CASE ~InCall' /\ ret' # "ok"
    <3>1. progress = "started" => Named(transfer) = Named(req)
      BY <1>h DEF HistoryInv, Named
    <3>2. Port!ReturnError
      BY <1>t, <2>1, <2>2, <2>4, <3>1 DEF Port!ReturnError, Own, Busy
    <3> QED
      BY <3>2 DEF Port!Next
  <2>5. CASE ~InCall' /\ ret' = "ok"
    <3>1. Settled
      BY <1>h, <2>2, <2>5 DEF CallInv
    <3>2. progress = "taken" => out = seen
      <4>1. CASE pc = "rd_clear"
        BY <1>h, <2>2, <2>5, <4>1 DEF CallInv
      <4>2. CASE pc = "wr_clear"
        BY <1>h, <4>2 DEF HistoryInv, TypeOK, WritePcs
      <4> QED
        BY <2>2, <2>5, <4>1, <4>2
    <3>3. Port!ReturnOk
      BY <1>t, <2>1, <2>2, <2>5, <3>1, <3>2 DEF Port!ReturnOk, Settled, Own, Busy, Named
    <3> QED
      BY <3>3 DEF Port!Next
  <2> QED
    BY <2>3, <2>4, <2>5
<1>4. CASE BusDone
  <2>1. /\ Busy /\ ~Busy' /\ UNCHANGED driver
        /\ transfer \in Transfers /\ Named(transfer) # NoCall
        /\ transfer.op \in {"read", "write"} /\ transfer.addr \in Addrs
    <3>1. Busy /\ ~Busy' /\ UNCHANGED driver
      BY <1>4 DEF BusDone, FinishTransfer, Busy
    <3>2. transfer \in Transfers
      BY <1>t, <3>1 DEF Busy
    <3> QED
      BY <3>1, <3>2, NamedType DEF Transfers
  <2>2. /\ UNCHANGED <<req, ret, out>> /\ (InCall <=> InCall')
        /\ mem' = IF transfer.addr \in Mapped /\ transfer.op = "write"
                  THEN [mem EXCEPT ![transfer.addr] = transfer.data] ELSE mem
    BY <1>4, <2>1 DEF BusDone, FinishTransfer, InCall
  <2>3. CASE Own /\ transfer.addr \in Mapped
    <3>1. /\ Named(transfer) = Named(req) /\ InCall /\ progress = "started"
          /\ progress' = "taken"
          /\ seen' = IF transfer.op = "read" THEN mem[transfer.addr] ELSE NoWord
      BY <1>h, <1>4, <2>3 DEF BusDone, HistoryInv, Own, Named
    <3>2. req.op = transfer.op /\ req.addr = transfer.addr /\ req.data = transfer.data
      BY <1>h, <3>1 DEF HistoryInv
    <3>3. Port!Take
      BY <1>t, <2>1, <2>2, <2>3, <3>1, <3>2 DEF Port!Take, Port!After, Own, Named
    <3> QED
      BY <3>3 DEF Port!Next
  <2>4. CASE Own /\ transfer.addr \notin Mapped
    BY <1>h, <1>4, <2>1, <2>2, <2>4 DEF BusDone, HistoryInv, Port!vars, Own
  <2>5. CASE ~Own
    <3>1. InCall => UNCHANGED ghost
      BY <1>4, <2>5 DEF BusDone, Own
    <3>2. CASE transfer.addr \in Mapped
      <4>1. Port!LateTake
        BY <2>1, <2>2, <2>5, <3>1, <3>2 DEF Port!LateTake, Port!After, Named
      <4> QED
        BY <4>1 DEF Port!Next
    <3>3. CASE transfer.addr \notin Mapped
      <4>1. Port!LateDrop
        BY <2>1, <2>2, <2>5, <3>1, <3>3 DEF Port!LateDrop
      <4> QED
        BY <4>1 DEF Port!Next
    <3> QED
      BY <3>2, <3>3
  <2> QED
    BY <2>3, <2>4, <2>5
<1>5. CASE HartStore
  <2>1. Port!HartStore
    BY <1>5 DEF HartStore, Store, Port!HartStore, InCall, Own, Busy
  <2> QED
    BY <2>1 DEF Port!Next
<1> QED
  BY <1>1, <1>2, <1>3, <1>4, <1>5 DEF Next, Steps, Bystanders

\* Under the same conditions every call is one access of the port: done at
\* most once, between the call and its return or later if the call failed,
\* and what it left behind is the only thing that can still happen.
THEOREM Implements == ASSUME Regime PROVE Spec => PortSpec
<1>1. TypeOK /\ BusInv /\ PortInv /\ [Next]_vars => [Port!Next]_(Port!vars)
  <2> SUFFICES ASSUME TypeOK, BusInv, PortInv, [Next]_vars PROVE [Port!Next]_(Port!vars)
    OBVIOUS
  <2>1. CASE Next
    BY <2>1, PortStep
  <2>2. CASE UNCHANGED vars
    BY <2>2 DEF vars, Port!vars, InCall, Own, Busy, Named
  <2> QED
    BY <2>1, <2>2
<1> QED
  BY <1>1, PortInit, PortInvariant, PTL DEF Spec, PortSpec, Port!Spec
===============================================================================
