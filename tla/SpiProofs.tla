------------------------------- MODULE SpiProofs -------------------------------
(***************************************************************************)
(* For every TIMES_OUT, every width of the counter, all FIFOs, all lengths *)
(* and both drivers: the types; a call returns an error only when a wait   *)
(* came to its last poll; and until one does, what 0 means and under which *)
(* terms the bytes leave.                                                  *)
(*                                                                         *)
(* EarlyIsNoError is not inductive.  WaitInv ties the counter to the polls *)
(* that were made: as long as a wait goes on they add up to TIMES_OUT, so  *)
(* that the counter is 0 after the last poll and never before it.          *)
(*                                                                         *)
(* Neither are OkMeansDone and FramesAsWritten.  Clean accounts for every  *)
(* byte of a call between two steps: the bytes that went out, the one on   *)
(* the wire and those that wait in the FIFO are, in this order, the bytes  *)
(* written so far; the waiting ones carry the terms that hold; and where   *)
(* spi_rx is says in which of the three places its one byte may be.        *)
(* LoopInv and QuietInv say how far a call is and what spi_init does to a  *)
(* controller that stands still.  They hold together, in SpiInv.           *)
(***************************************************************************)
EXTENDS Spi, TLAPS

Waits == {"tx_room", "tx_end", "rx_wait"}

WaitInv ==
  pc \in Waits => times_out \in 0 .. TimesOut /\ polls = TimesOut - times_out

ErrorInv ==
  /\ WaitInv
  /\ EarlyIsNoError

-------------------------------------------------------------------------------
(* The counter                                                             *)

\* An unsigned that is not 0 is counted down by one; 0 becomes the largest
\* value, which is not 0.
LEMMA LessStep ==
  ASSUME NEW t \in 0 .. TimesOut
  PROVE  /\ Less(t) \in Nat
         /\ t > 0 => Less(t) = t - 1
         /\ t = 0 => Less(t) > 0
<1>. USE SpiAssumption
<1>1. CASE t = 0
  <2>1. Less(t) = UintRange - 1
    <3>1. (0 + UintRange - 1) \in 0 .. UintRange - 1
      OBVIOUS
    <3>. QED BY <1>1, <3>1, SMTT(30) DEF Less
  <2>. QED BY <1>1, <2>1
<1>2. CASE t > 0
  <2>1. Less(t) = t - 1
    <3>1. t - 1 \in 0 .. UintRange - 1
      BY <1>2
    <3>2. Less(t) = ((t - 1) + UintRange) % UintRange
      BY DEF Less
    <3>. QED BY <1>2, <3>1, <3>2, SMTT(60)
  <2>. QED BY <1>2, <2>1
<1>. QED BY <1>1, <1>2

-------------------------------------------------------------------------------
(* The steps                                                               *)

\* A wait begins with the whole count and no poll.
LEMMA CountFull ==
  ASSUME StartWait
  PROVE  times_out' \in 0 .. TimesOut /\ polls' = TimesOut - times_out'
BY SpiAssumption DEF StartWait

\* One turn of a wait keeps the sum, and leaves 0 only after the last poll.
LEMMA Turn ==
  ASSUME WaitInv, pc \in Waits,
         times_out' = Less(times_out),
         polls' = IF times_out = 0 \/ polls = TimesOut THEN polls ELSE polls + 1,
         limit' = (limit \/ polls' = TimesOut)
  PROVE  /\ times_out # 0 => times_out' \in 0 .. TimesOut /\ polls' = TimesOut - times_out'
         /\ RunOut(times_out') => limit'
<1>. USE SpiAssumption
<1>1. times_out \in 0 .. TimesOut /\ polls = TimesOut - times_out
  BY DEF WaitInv
<1>2. CASE times_out = 0
  <2>1. times_out' \in Nat /\ times_out' > 0
    BY <1>1, <1>2, LessStep
  <2>. QED BY <1>2, <2>1 DEF RunOut
<1>3. CASE times_out # 0
  <2>1. times_out' = times_out - 1
    BY <1>1, <1>3, LessStep
  <2>2. polls' = TimesOut - times_out'
    BY <1>1, <1>3, <2>1
  <2>3. RunOut(times_out') => polls' = TimesOut
    BY <1>1, <1>3, <2>1, <2>2 DEF RunOut
  <2>4. polls' = TimesOut => limit'
    OBVIOUS
  <2>5. times_out' \in 0 .. TimesOut
    BY <1>1, <1>3, <2>1
  <2>. QED BY <2>2, <2>3, <2>4, <2>5
<1>. QED BY <1>2, <1>3

LEMMA Begins == Init => ErrorInv
BY DEF Init, ErrorInv, WaitInv, EarlyIsNoError, Waits

LEMMA Keeps == ErrorInv /\ [Next]_vars => ErrorInv'
<1>. SUFFICES ASSUME ErrorInv, [Next]_vars PROVE ErrorInv'
  OBVIOUS
<1>. USE DEF ErrorInv
<1>1. CASE Call
  BY <1>1 DEF Call, Enter, WaitInv, EarlyIsNoError, Waits
<1>2. CASE spi_hw \/ spi_cs \/ Shift
  BY <1>2 DEF spi_hw, spi_cs, Shift, spi, local, WaitInv, EarlyIsNoError
<1>3. CASE InitData \/ InitStatus \/ InitFctrl
  BY <1>3 DEF InitData, InitStatus, InitFctrl, Goto, NoWait, local, WaitInv, EarlyIsNoError, Waits
<1>4. CASE InitFmt
  BY <1>4 DEF InitFmt, Return, WaitInv, EarlyIsNoError, Waits
<1>5. CASE TxDir \/ TxData
  <2>1. StartWait /\ UNCHANGED <<ret, limit>>
    BY <1>5 DEF TxDir, TxData, TxNext, Goto
  <2>. QED BY <2>1, CountFull DEF WaitInv, EarlyIsNoError
<1>6. CASE TxRoom
  BY <1>6, Turn DEF TxRoom, Poll, Goto, Return, WaitInv, EarlyIsNoError, Waits
<1>7. CASE TxEnd
  BY <1>7, Turn DEF TxEnd, Poll, Return, WaitInv, EarlyIsNoError, Waits
<1>8. CASE RxDir \/ RxData
  BY <1>8 DEF RxDir, RxData, Store, RxNext, Goto, Return, NoWait, WaitInv, EarlyIsNoError, Waits
<1>9. CASE RxZero
  <2>1. StartWait /\ UNCHANGED <<ret, limit>>
    BY <1>9 DEF RxZero, Goto
  <2>. QED BY <2>1, CountFull DEF WaitInv, EarlyIsNoError
<1>10. CASE RxWait
  BY <1>10, Turn DEF RxWait, Poll, Store, RxNext, Goto, Return, WaitInv, EarlyIsNoError, Waits
<1>11. CASE UNCHANGED vars
  BY <1>11 DEF vars, spi, WaitInv, EarlyIsNoError
<1>. QED BY <1>1, <1>2, <1>3, <1>4, <1>5, <1>6, <1>7, <1>8, <1>9, <1>10, <1>11 DEF Next, Steps

\* An error of spi_tx and spi_rx is a wait that came to its last poll: a
\* controller that is ready before is never reported as timed out, however
\* often the loops are entered and whatever the controller does.
THEOREM EarlyIsNoErrorHolds == FairSpec => []EarlyIsNoError
<1>1. ErrorInv => EarlyIsNoError
  BY DEF ErrorInv
<1>. QED BY <1>1, Begins, Keeps, PTL DEF FairSpec

-------------------------------------------------------------------------------
(* Types                                                                   *)

Frames == [tag : Tags, dir : {"TX", "RX"}, cs : {"auto", "hold"}]

LEMMA FramesTyped ==
  ASSUME ControllerTypeOK(Tags)
  PROVE  /\ txfifo \in Seq(Frames) /\ Len(txfifo) <= TxDepth
         /\ shifter \in Frames \cup {NoFrame}
         /\ rxfifo \in Seq(Tags \cup {NoTag}) /\ Len(rxfifo) <= RxDepth
         /\ dir \in {"TX", "RX"} /\ csmode \in {"auto", "hold"} /\ flashmode \in BOOLEAN
BY DEF ControllerTypeOK, Frames

LEMMA TypedFrames ==
  ASSUME txfifo' \in Seq(Frames), Len(txfifo') <= TxDepth,
         shifter' \in Frames \cup {NoFrame},
         rxfifo' \in Seq(Tags \cup {NoTag}), Len(rxfifo') <= RxDepth,
         dir' \in {"TX", "RX"}, csmode' \in {"auto", "hold"}, flashmode' \in BOOLEAN
  PROVE  ControllerTypeOK(Tags)'
BY DEF ControllerTypeOK, Frames, Tags, Stray, NoFrame, NoTag

\* A frame that carries a tag of a call is a frame.
LEMMA FrameTyped ==
  ASSUME ControllerTypeOK(Tags), NEW tag \in Tags
  PROVE  Frame(tag) \in Frames
BY FramesTyped DEF Frame, Frames

LEMMA TagTyped ==
  ASSUME TypeOK, NEW k \in Nat
  PROVE  Tag(k) \in Tags
<1>1. turn \in {0, 1}
  BY DEF TypeOK
<1>2. <<turn, k>> \in {0, 1} \X Nat
  BY <1>1
<1>. QED BY <1>2 DEF Tag, Tags

LEMMA WriteTyped ==
  ASSUME ControllerTypeOK(Tags), NEW tag \in Tags, TxWrite(tag)
  PROVE  ControllerTypeOK(Tags)'
<1>1. Frame(tag) \in Frames
  BY FrameTyped
<1>2. txfifo' \in Seq(Frames) /\ Len(txfifo') <= TxDepth
  BY <1>1, FramesTyped, SpiControllerAssumption DEF TxWrite, TxFull
<1>. QED BY <1>2, FramesTyped, TypedFrames DEF TxWrite

LEMMA ReadTyped ==
  ASSUME ControllerTypeOK(Tags), RxRead
  PROVE  ControllerTypeOK(Tags)'
<1>1. rxfifo' \in Seq(Tags \cup {NoTag}) /\ Len(rxfifo') <= RxDepth
  <2>1. CASE rxfifo = <<>>
    BY <2>1, SpiControllerAssumption DEF RxRead, RxTail, RxEmpty
  <2>2. CASE rxfifo # <<>>
    <3>1. rxfifo' = Tail(rxfifo)
      BY <2>2 DEF RxRead, RxTail, RxEmpty
    <3>. QED BY <2>2, <3>1, FramesTyped, SpiControllerAssumption
  <2>. QED BY <2>1, <2>2
<1>. QED BY <1>1, FramesTyped, TypedFrames DEF RxRead

\* What a read of RXDATA returns is a tag, or the word of an empty FIFO.
LEMMA WordTyped ==
  ASSUME ControllerTypeOK(Tags)
  PROVE  RxWord \in Tags \cup {NoTag}
BY FramesTyped DEF RxWord, RxEmpty

LEMMA RegistersTyped ==
  ASSUME ControllerTypeOK(Tags),
         \/ \E d \in {"TX", "RX"} : FmtWrite(d)
         \/ \E m \in {"auto", "hold"} : CsmodeWrite(m)
         \/ \E en \in BOOLEAN : FctrlWrite(en)
         \/ UNCHANGED controller
  PROVE  ControllerTypeOK(Tags)'
BY FramesTyped, TypedFrames DEF FmtWrite, CsmodeWrite, FctrlWrite, controller

LEMMA StartTyped ==
  ASSUME ControllerTypeOK(Tags), StartFrame
  PROVE  ControllerTypeOK(Tags)' /\ Head(txfifo).tag \in Tags
<1>1. Head(txfifo) \in Frames
  BY FramesTyped DEF StartFrame
<1>2. Head(txfifo).tag \in Tags
  BY <1>1 DEF Frames
<1>3. shifter' \in Frames
  BY <1>2, FrameTyped DEF StartFrame
<1>4. txfifo' \in Seq(Frames) /\ Len(txfifo') <= TxDepth
  <2>1. txfifo # <<>> /\ txfifo' = Tail(txfifo)
    BY DEF StartFrame
  <2>. QED BY <2>1, FramesTyped, SpiControllerAssumption
<1>. QED BY <1>2, <1>3, <1>4, FramesTyped, TypedFrames DEF StartFrame

LEMMA EndTyped ==
  ASSUME ControllerTypeOK(Tags), EndFrame
  PROVE  ControllerTypeOK(Tags)' /\ shifter.tag \in Tags
<1>1. shifter \in Frames
  BY FramesTyped DEF EndFrame
<1>2. shifter.tag \in Tags
  BY <1>1 DEF Frames
<1>3. rxfifo' \in Seq(Tags \cup {NoTag}) /\ Len(rxfifo') <= RxDepth
  BY <1>2, FramesTyped, SpiControllerAssumption DEF EndFrame
<1>. QED BY <1>2, <1>3, FramesTyped, TypedFrames DEF EndFrame

-------------------------------------------------------------------------------
(* The course of a call                                                    *)

InitPcs == {"init_data", "init_status", "init_fctrl", "init_fmt"}
TxPcs == {"tx_dir", "tx_room", "tx_data", "tx_end"}
RxPcs == {"rx_dir", "rx_zero", "rx_wait", "rx_data"}

\* Where a call is says which function it is and how far it came.
LoopInv ==
  /\ pc \in InitPcs => call = "init"
  /\ pc \in TxPcs => call = "tx"
  /\ pc \in RxPcs => call = "rx"
  /\ call # "init" => len \in Lengths
  /\ pc \in {"tx_dir", "rx_dir"} => i = 0
  /\ pc \in {"tx_room", "tx_data", "rx_zero", "rx_wait", "rx_data"} => i < len
  /\ pc = "tx_end" => i = len
  /\ pc = "idle" /\ ret = "ok" /\ call # "init" => i = len
  /\ Len(out) = IF call = "rx" THEN i ELSE 0

\* The part of TypeOK that is not the controller.
SpiTypeOK ==
  /\ driver \in Drivers
  /\ pc \in Pcs /\ call \in {"init", "tx", "rx"}
  /\ len \in Lengths \cup {0} /\ i \in 0 .. len
  /\ times_out \in 0 .. UintRange - 1
  /\ polls \in 0 .. TimesOut
  /\ out \in Seq(Tags \cup {NoTag}) /\ Len(out) <= len
  /\ wire \in Seq(Tags)
  /\ ret \in {"none", "ok", "error"}
  /\ turn \in {0, 1}
  /\ {quiet, limit, misfit} \subseteq BOOLEAN

ProgramInv == TypeOK /\ LoopInv

LEMMA TypeParts == TypeOK <=> ControllerTypeOK(Tags) /\ SpiTypeOK
BY DEF TypeOK, SpiTypeOK

LEMMA TypePartsNext == (TypeOK <=> ControllerTypeOK(Tags) /\ SpiTypeOK)'
BY TypeParts, PTL

LEMMA LessTyped ==
  ASSUME NEW t \in 0 .. UintRange - 1
  PROVE  Less(t) \in 0 .. UintRange - 1
<1>1. t + UintRange - 1 \in Nat /\ UintRange \in Nat \ {0}
  BY SpiAssumption
<1>. QED BY <1>1, SMTT(30) DEF Less

\* The counter and the polls of a wait stay in their ranges.
LEMMA PollTyped ==
  ASSUME SpiTypeOK, times_out' = Less(times_out),
         polls' = IF times_out = 0 \/ polls = TimesOut THEN polls ELSE polls + 1,
         limit' = (limit \/ polls' = TimesOut)
  PROVE  times_out' \in 0 .. UintRange - 1 /\ polls' \in 0 .. TimesOut /\ limit' \in BOOLEAN
<1>1. times_out \in 0 .. UintRange - 1 /\ polls \in 0 .. TimesOut /\ limit \in BOOLEAN
  BY DEF SpiTypeOK
<1>2. times_out' \in 0 .. UintRange - 1
  BY <1>1, LessTyped
<1>3. polls' \in 0 .. TimesOut
  BY <1>1, SpiAssumption
<1>. QED BY <1>2, <1>3

\* A wait that begins, or no wait.
LEMMA WaitTyped ==
  ASSUME SpiTypeOK, StartWait \/ UNCHANGED <<times_out, polls>>
  PROVE  times_out' \in 0 .. UintRange - 1 /\ polls' \in 0 .. TimesOut
<1>1. CASE StartWait
  BY <1>1, SpiAssumption DEF StartWait
<1>2. CASE UNCHANGED <<times_out, polls>>
  BY <1>2 DEF SpiTypeOK
<1>. QED BY <1>1, <1>2

LEMMA ProgramBegins == Init => ProgramInv
<1>. SUFFICES ASSUME Init PROVE ProgramInv
  OBVIOUS
<1>1. ControllerTypeOK(Tags)
  <2>1. PICK n \in 0 .. RxDepth : rxfifo = [k \in 1 .. n |-> NoTag]
    BY DEF Init, ControllerInit
  <2>2. rxfifo \in Seq(Tags \cup {NoTag}) /\ Len(rxfifo) <= RxDepth
    BY <2>1, SpiControllerAssumption
  <2>3. txfifo \in Seq(Frames) /\ Len(txfifo) <= TxDepth
    BY SpiControllerAssumption DEF Init, ControllerInit
  <2>. QED BY <2>2, <2>3 DEF Init, ControllerInit, ControllerTypeOK, Frames
<1>2. SpiTypeOK
  <2>1. times_out \in 0 .. UintRange - 1 /\ polls \in 0 .. TimesOut /\ i \in 0 .. len
    BY SpiAssumption DEF Init
  <2>2. out \in Seq(Tags \cup {NoTag}) /\ Len(out) <= len /\ wire \in Seq(Tags)
    BY DEF Init
  <2>3. {quiet, limit, misfit} \subseteq BOOLEAN
    BY DEF Init
  <2>. QED BY <2>1, <2>2, <2>3 DEF Init, SpiTypeOK, Pcs
<1>3. LoopInv
  BY DEF Init, LoopInv, InitPcs, TxPcs, RxPcs
<1>. QED BY <1>1, <1>2, <1>3, TypeParts DEF ProgramInv

\* A step of the controller, and a call that is no function of the model's
\* course, leave the program where it is.
LEMMA CallProgram ==
  ASSUME ProgramInv, Call
  PROVE  ProgramInv'
<1>1. ControllerTypeOK(Tags) /\ SpiTypeOK
  BY TypeParts DEF ProgramInv
<1>2. ControllerTypeOK(Tags)'
  BY <1>1, RegistersTyped DEF Call
<1>3. SpiTypeOK'
  <2>1. /\ UNCHANGED <<driver, limit, misfit>>
        /\ pc' \in Pcs /\ call' \in {"init", "tx", "rx"} /\ len' \in Lengths \cup {0}
        /\ i' = 0 /\ times_out' = 0 /\ polls' = 0 /\ out' = <<>> /\ wire' = <<>> /\ ret' = "none"
        /\ quiet' \in BOOLEAN
    BY DEF Call, Enter, Pcs
  <2>2. turn' \in {0, 1}
    BY <1>1 DEF Call, Enter, SpiTypeOK
  <2>3. times_out' \in 0 .. UintRange - 1 /\ polls' \in 0 .. TimesOut /\ i' \in 0 .. len'
    BY <2>1, SpiAssumption
  <2>. QED BY <1>1, <2>1, <2>2, <2>3, SpiAssumption DEF SpiTypeOK
<1>4. LoopInv'
  BY <1>1, SpiAssumption DEF Call, Enter, SpiTypeOK, LoopInv, InitPcs, TxPcs, RxPcs
<1>. QED BY <1>2, <1>3, <1>4, TypeParts, TypePartsNext DEF ProgramInv

LEMMA IdleProgram ==
  ASSUME ProgramInv, spi_hw \/ spi_cs \/ UNCHANGED vars
  PROVE  ProgramInv'
<1>1. ControllerTypeOK(Tags) /\ SpiTypeOK /\ LoopInv
  BY TypeParts DEF ProgramInv
<1>2. ControllerTypeOK(Tags)'
  BY <1>1, RegistersTyped DEF spi_hw, spi_cs, vars
<1>3. UNCHANGED spi
  BY DEF spi_hw, spi_cs, vars
<1>4. SpiTypeOK'
  BY <1>1, <1>3 DEF spi, SpiTypeOK
<1>5. LoopInv'
  BY <1>1, <1>3 DEF spi, LoopInv
<1>. QED BY <1>2, <1>4, <1>5, TypePartsNext DEF ProgramInv

LEMMA ShiftProgram ==
  ASSUME ProgramInv, Shift
  PROVE  ProgramInv'
<1>1. ControllerTypeOK(Tags) /\ SpiTypeOK /\ LoopInv
  BY TypeParts DEF ProgramInv
<1>2. UNCHANGED <<local, pc, i, times_out, out, ret, polls, limit>>
  BY DEF Shift
<1>3. LoopInv'
  BY <1>1, <1>2 DEF local, LoopInv
<1>4. ControllerTypeOK(Tags)' /\ wire' \in Seq(Tags) /\ misfit' \in BOOLEAN
  <2>1. wire \in Seq(Tags) /\ misfit \in BOOLEAN /\ limit \in BOOLEAN
    BY <1>1 DEF SpiTypeOK
  <2>2. CASE StartFrame /\ misfit' = (misfit \/ limit \/ Head(txfifo) # shifter') /\ UNCHANGED wire
    BY <1>1, <2>1, <2>2, StartTyped
  <2>3. CASE EndFrame /\ (wire' = IF ~limit /\ shifter.tag[1] = turn THEN Append(wire, shifter.tag) ELSE wire)
             /\ UNCHANGED misfit
    BY <1>1, <2>1, <2>3, EndTyped
  <2>. QED BY <2>2, <2>3 DEF Shift
<1>5. SpiTypeOK'
  BY <1>1, <1>2, <1>4 DEF local, SpiTypeOK
<1>. QED BY <1>3, <1>4, <1>5, TypePartsNext DEF ProgramInv

LEMMA InitProgram ==
  ASSUME ProgramInv, InitData \/ InitStatus \/ InitFctrl \/ InitFmt
  PROVE  ProgramInv'
<1>1. ControllerTypeOK(Tags) /\ SpiTypeOK /\ LoopInv
  BY TypeParts DEF ProgramInv
<1>2. ControllerTypeOK(Tags)'
  BY <1>1, ReadTyped, RegistersTyped DEF InitData, InitStatus, InitFctrl, InitFmt
<1>3. UNCHANGED <<local, i, out, wire, times_out, polls>>
  BY DEF InitData, InitStatus, InitFctrl, InitFmt, NoWait, history
<1>4. /\ pc \in InitPcs
      /\ pc' \in InitPcs \cup {"idle"} /\ ret' \in {"none", "ok", "error"}
      /\ limit' \in BOOLEAN /\ misfit' \in BOOLEAN
  BY <1>1 DEF InitData, InitStatus, InitFctrl, InitFmt, Goto, Return, NoWait, history, InitPcs, SpiTypeOK
<1>5. SpiTypeOK'
  BY <1>1, <1>3, <1>4 DEF local, SpiTypeOK, InitPcs, Pcs
<1>6. LoopInv'
  BY <1>1, <1>3, <1>4 DEF local, LoopInv, InitPcs, TxPcs, RxPcs
<1>. QED BY <1>2, <1>5, <1>6, TypePartsNext DEF ProgramInv

LEMMA TxProgram ==
  ASSUME ProgramInv, TxDir \/ TxData
  PROVE  ProgramInv'
<1>1. ControllerTypeOK(Tags) /\ SpiTypeOK /\ LoopInv
  BY TypeParts DEF ProgramInv
<1>2. len \in Nat /\ i \in 0 .. len /\ len # 0
  BY <1>1, SpiAssumption DEF SpiTypeOK, LoopInv, TxPcs, TxDir, TxData
<1>3. ControllerTypeOK(Tags)'
  <2>1. CASE TxDir
    BY <1>1, <2>1, RegistersTyped DEF TxDir
  <2>2. CASE TxData
    BY <1>1, <1>2, <2>2, WriteTyped, TagTyped DEF TxData, ProgramInv
  <2>. QED BY <2>1, <2>2
<1>4. UNCHANGED <<local, out, limit, history, ret>> /\ StartWait
  BY DEF TxDir, TxData, TxNext, Goto
<1>5. /\ pc \in TxPcs /\ i' \in 0 .. len
      /\ pc' = IF i' < len THEN "tx_room" ELSE "tx_end"
  BY <1>1, <1>2 DEF TxDir, TxData, TxNext, Goto, TxPcs, LoopInv
<1>6. SpiTypeOK'
  BY <1>1, <1>4, <1>5, WaitTyped DEF local, history, SpiTypeOK, Pcs
<1>7. LoopInv'
  BY <1>1, <1>2, <1>4, <1>5 DEF local, LoopInv, InitPcs, TxPcs, RxPcs
<1>. QED BY <1>3, <1>6, <1>7, TypePartsNext DEF ProgramInv

LEMMA TxWaitProgram ==
  ASSUME ProgramInv, TxRoom \/ TxEnd
  PROVE  ProgramInv'
<1>1. ControllerTypeOK(Tags) /\ SpiTypeOK /\ LoopInv
  BY TypeParts DEF ProgramInv
<1>2. ControllerTypeOK(Tags)'
  BY <1>1, RegistersTyped DEF TxRoom, TxEnd
<1>3. UNCHANGED <<local, i, out, history>>
  BY DEF TxRoom, TxEnd, Poll
<1>4. times_out' \in 0 .. UintRange - 1 /\ polls' \in 0 .. TimesOut /\ limit' \in BOOLEAN
  BY <1>1, PollTyped DEF TxRoom, TxEnd, Poll
<1>5. /\ pc \in TxPcs
      /\ \/ UNCHANGED <<pc, ret>>
         \/ pc' = "idle" /\ ret' = "error"
         \/ pc = "tx_room" /\ pc' = "tx_data" /\ UNCHANGED ret
         \/ pc = "tx_end" /\ pc' = "idle" /\ ret' = "ok"
  BY DEF TxRoom, TxEnd, Poll, Goto, Return, TxPcs
<1>6. SpiTypeOK'
  BY <1>1, <1>3, <1>4, <1>5 DEF local, history, SpiTypeOK, Pcs, TxPcs
<1>7. LoopInv'
  BY <1>1, <1>3, <1>5 DEF local, LoopInv, InitPcs, TxPcs, RxPcs
<1>. QED BY <1>2, <1>6, <1>7, TypePartsNext DEF ProgramInv

LEMMA RxProgram ==
  ASSUME ProgramInv, RxDir \/ RxZero
  PROVE  ProgramInv'
<1>1. ControllerTypeOK(Tags) /\ SpiTypeOK /\ LoopInv
  BY TypeParts DEF ProgramInv
<1>2. len \in Nat /\ i \in 0 .. len /\ len # 0
  BY <1>1, SpiAssumption DEF SpiTypeOK, LoopInv, RxPcs, RxDir, RxZero
<1>3. ControllerTypeOK(Tags)'
  <2>1. CASE RxDir
    BY <1>1, <2>1, RegistersTyped DEF RxDir
  <2>2. CASE RxZero
    BY <1>1, <1>2, <2>2, WriteTyped, TagTyped DEF RxZero, ProgramInv
  <2>. QED BY <2>1, <2>2
<1>4. UNCHANGED <<local, i, out, limit, history, ret>> /\ (StartWait \/ UNCHANGED <<times_out, polls>>)
  BY <1>1, <1>2 DEF RxDir, RxZero, RxNext, Goto, NoWait, LoopInv
<1>5. /\ pc \in RxPcs /\ i < len
      /\ pc' \in {"rx_zero", "rx_wait"}
  BY <1>1, <1>2 DEF RxDir, RxZero, RxNext, Goto, RxPcs, LoopInv
<1>6. SpiTypeOK'
  BY <1>1, <1>4, <1>5, WaitTyped DEF local, history, SpiTypeOK, Pcs
<1>7. LoopInv'
  BY <1>1, <1>4, <1>5 DEF local, LoopInv, InitPcs, TxPcs, RxPcs
<1>. QED BY <1>3, <1>6, <1>7, TypePartsNext DEF ProgramInv

\* A word that is stored fills the next place of the buffer.
LEMMA StoreProgram ==
  ASSUME SpiTypeOK, LoopInv, pc \in {"rx_wait", "rx_data"},
         NEW word \in Tags \cup {NoTag}, Store(word)
  PROVE  /\ i' \in 0 .. len
         /\ out' \in Seq(Tags \cup {NoTag}) /\ Len(out') = i'
         /\ \/ i' < len /\ pc' = "rx_zero" /\ ret' = ret
            \/ i' = len /\ pc' = "idle" /\ ret' = "ok"
<1>1. len \in Nat /\ i \in 0 .. len /\ i < len /\ call = "rx" /\ Len(out) = i
  BY SpiAssumption DEF SpiTypeOK, LoopInv, RxPcs
<1>2. out \in Seq(Tags \cup {NoTag})
  BY DEF SpiTypeOK
<1>3. out' = Append(out, word) /\ i' = i + 1
  BY DEF Store
<1>4. out' \in Seq(Tags \cup {NoTag}) /\ Len(out') = i'
  BY <1>1, <1>2, <1>3
<1>5. \/ i' < len /\ pc' = "rx_zero" /\ ret' = ret
      \/ i' = len /\ pc' = "idle" /\ ret' = "ok"
  BY <1>1, <1>3 DEF Store, RxNext, Goto, Return
<1>. QED BY <1>1, <1>3, <1>4, <1>5

LEMMA RxWaitProgram ==
  ASSUME ProgramInv, RxWait \/ RxData
  PROVE  ProgramInv'
<1>1. ControllerTypeOK(Tags) /\ SpiTypeOK /\ LoopInv
  BY TypeParts DEF ProgramInv
<1>2. ControllerTypeOK(Tags)'
  BY <1>1, ReadTyped, RegistersTyped DEF RxWait, RxData
<1>3. UNCHANGED <<local, history>>
  BY DEF RxWait, RxData
<1>4. times_out' \in 0 .. UintRange - 1 /\ polls' \in 0 .. TimesOut /\ limit' \in BOOLEAN
  <2>1. CASE RxWait
    BY <1>1, <2>1, PollTyped DEF RxWait, Poll
  <2>2. CASE RxData
    BY <1>1, <2>2 DEF RxData, NoWait, SpiTypeOK
  <2>. QED BY <2>1, <2>2
<1>5. Polled \in Tags \cup {NoTag} /\ RxWord \in Tags \cup {NoTag}
  BY <1>1, WordTyped DEF Polled
<1>6. /\ pc \in {"rx_wait", "rx_data"}
      /\ \/ UNCHANGED <<pc, ret, i, out>>
         \/ pc' = "idle" /\ ret' = "error" /\ UNCHANGED <<i, out>>
         \/ pc' = "rx_data" /\ UNCHANGED <<ret, i, out>>
         \/ Store(Polled) \/ Store(RxWord)
  BY DEF RxWait, RxData, Poll, Goto, Return
<1>7. /\ len \in Nat /\ i' \in 0 .. len /\ call = "rx"
      /\ out' \in Seq(Tags \cup {NoTag}) /\ Len(out') = i'
      /\ \/ i' < len /\ pc' \in {"rx_wait", "rx_data", "rx_zero"} /\ ret' = ret
         \/ i' < len /\ pc' = "idle" /\ ret' = "error"
         \/ i' = len /\ pc' = "idle" /\ ret' = "ok"
  <2>1. len \in Nat /\ i \in 0 .. len /\ i < len /\ call = "rx" /\ Len(out) = i
        /\ out \in Seq(Tags \cup {NoTag})
    BY <1>1, <1>6, SpiAssumption DEF SpiTypeOK, LoopInv, RxPcs
  <2>2. CASE Store(Polled) \/ Store(RxWord)
    BY <1>1, <1>5, <1>6, <2>1, <2>2, StoreProgram
  <2>3. CASE UNCHANGED <<i, out>> /\ ~(Store(Polled) \/ Store(RxWord))
    BY <1>6, <2>1, <2>3
  <2>. QED BY <1>6, <2>2, <2>3
<1>8. SpiTypeOK'
  BY <1>1, <1>3, <1>4, <1>7 DEF local, history, SpiTypeOK, Pcs
<1>9. LoopInv'
  BY <1>1, <1>3, <1>6, <1>7 DEF local, LoopInv, InitPcs, TxPcs, RxPcs
<1>. QED BY <1>2, <1>8, <1>9, TypePartsNext DEF ProgramInv

LEMMA ProgramKeeps == ProgramInv /\ [Next]_vars => ProgramInv'
BY CallProgram, IdleProgram, ShiftProgram, InitProgram, TxProgram, TxWaitProgram,
   RxProgram, RxWaitProgram DEF Next, Steps

\* The FIFOs hold frames and tags and never more than they have room for, the
\* buffer of spi_rx is never filled past the length that was asked for, and
\* the unsigned counter stays within its width, for all FIFOs, lengths and
\* counts.
THEOREM TypeCorrect == FairSpec => []TypeOK
<1>1. ProgramInv => TypeOK
  BY DEF ProgramInv
<1>. QED BY <1>1, ProgramBegins, ProgramKeeps, PTL DEF FairSpec

-------------------------------------------------------------------------------
(* An init that found the controller at rest                               *)

\* Nothing moves while it runs, and when it leaves the loop over the receive
\* FIFO that FIFO is empty.
QuietInv ==
  /\ quiet => call = "init"
  /\ quiet /\ pc \in InitPcs => txfifo = <<>> /\ shifter = NoFrame
  /\ quiet /\ pc \in {"init_fctrl", "init_fmt"} => rxfifo = <<>>

LEMMA QuietKeeps ==
  ASSUME ProgramInv, QuietInv, [Next]_vars
  PROVE  QuietInv'
<1>1. LoopInv
  BY DEF ProgramInv
<1>2. CASE Call
  BY <1>2 DEF Call, Enter, QuietInv, InitPcs, Busy, controller
<1>3. CASE spi_hw \/ spi_cs \/ UNCHANGED vars
  BY <1>3 DEF spi_hw, spi_cs, vars, spi, controller, FctrlWrite, CsmodeWrite, QuietInv, InitPcs
<1>4. CASE Shift
  BY <1>4 DEF Shift, StartFrame, EndFrame, local, QuietInv, InitPcs
<1>5. CASE InitData
  BY <1>5 DEF InitData, RxRead, RxTail, RxEmpty, Drained, Goto, local, QuietInv, InitPcs
<1>6. CASE InitStatus
  BY <1>6 DEF InitStatus, RxEmpty, Drained, Goto, local, controller, QuietInv, InitPcs
<1>7. CASE InitFctrl \/ InitFmt
  BY <1>7 DEF InitFctrl, InitFmt, FctrlWrite, FmtWrite, Goto, Return, local, QuietInv, InitPcs
<1>8. CASE TxDir \/ TxRoom \/ TxData \/ TxEnd
  BY <1>1, <1>8 DEF TxDir, TxRoom, TxData, TxEnd, local, QuietInv, LoopInv, TxPcs
<1>9. CASE RxDir \/ RxZero \/ RxWait \/ RxData
  BY <1>1, <1>9 DEF RxDir, RxZero, RxWait, RxData, local, QuietInv, LoopInv, RxPcs
<1>. QED BY <1>2, <1>3, <1>4, <1>5, <1>6, <1>7, <1>8, <1>9 DEF Next, Steps

-------------------------------------------------------------------------------
(* The bytes of a call                                                     *)

\* The number of bytes the call has written to the FIFO.
Given == i + (IF pc \in {"rx_wait", "rx_data"} THEN 1 ELSE 0)

\* The steps between which a byte may wait in the FIFO.
OnWire == {"tx_room", "tx_data", "tx_end", "rx_wait"}

\* The frame on the wire is one of this call.
Sending == shifter.tag[1] = turn

\* A byte that waits was written by this call, under the terms that still
\* hold, and the tags number the bytes to the last one written.
Waiting ==
  /\ pc \notin OnWire => txfifo = <<>>
  /\ \A k \in 1 .. Len(txfifo) : txfifo[k] = Frame(<<turn, Given - Len(txfifo) + k - 1>>)
  /\ pc = "tx_data" => Len(txfifo) < TxDepth
  /\ pc \in {"tx_room", "tx_data", "tx_end"} => dir = "TX"
  /\ pc \in {"rx_zero", "rx_wait", "rx_data"} => dir = "RX"

\* The bytes before it went out in order, the last of them perhaps still on
\* the wire.  A frame of an earlier call ends before any of this call starts.
Gone ==
  /\ call # "init" =>
       /\ Len(wire) + (IF Sending THEN 1 ELSE 0) = Given - Len(txfifo)
       /\ \A k \in 1 .. Len(wire) : wire[k] = <<turn, k - 1>>
       /\ Sending => shifter.tag = <<turn, Len(wire)>>
  /\ shifter # NoFrame /\ ~Sending => wire = <<>>
  /\ shifter # NoFrame /\ pc \in {"idle"} \cup InitPcs => Sending
  /\ pc \notin OnWire /\ driver = "nuspi" => shifter = NoFrame

\* The byte spi_rx waits for is in the one FIFO, on the wire or in the other.
Awaited ==
  \/ Len(txfifo) = 1 /\ rxfifo = <<>> /\ (shifter = NoFrame \/ shifter.dir = "TX")
  \/ /\ txfifo = <<>> /\ rxfifo = <<>>
     /\ shifter # NoFrame /\ shifter.tag = <<turn, i>> /\ shifter.dir = "RX"
  \/ txfifo = <<>> /\ rxfifo = << <<turn, i>> >> /\ shifter = NoFrame

\* No answer waits but the one to the byte of this moment, and those stored
\* are in order.
Answers ==
  /\ pc \notin {"rx_wait", "rx_data"} =>
       rxfifo = <<>> /\ (shifter = NoFrame \/ shifter.dir = "TX")
  /\ pc = "rx_wait" => Awaited
  /\ pc = "rx_data" => rxfifo = << <<turn, i>> >> /\ shifter = NoFrame
  /\ call = "rx" => \A k \in 1 .. Len(out) : out[k] = <<turn, k - 1>>

Clean == ~misfit /\ Waiting /\ Gone /\ Answers

\* From an init of a controller at rest to the first wait that comes to its
\* last poll.
Course == ~limit => Clean

SpiInv == ProgramInv /\ QuietInv /\ WaitInv /\ Course

-------------------------------------------------------------------------------
(* The course, step by step                                                *)

\* A turn of a wait that does not come to the last poll reads the register,
\* and goes on or goes to what follows the loop.
LEMMA TurnInTime ==
  ASSUME WaitInv, pc \in Waits,
         times_out' = Less(times_out),
         polls' = IF times_out = 0 \/ polls = TimesOut THEN polls ELSE polls + 1,
         limit' = (limit \/ polls' = TimesOut),
         ~limit'
  PROVE  times_out # 0 /\ ~RunOut(times_out') /\ ~limit
<1>1. times_out \in 0 .. TimesOut /\ polls = TimesOut - times_out
  BY DEF WaitInv
<1>2. times_out # 0
  <2>1. CASE times_out = 0
    <3>1. polls = TimesOut /\ polls' = polls
      BY <1>1, <2>1, SpiAssumption
    <3>. QED BY <3>1
  <2>. QED BY <2>1
<1>. QED BY <1>2, Turn

\* What every state of a course offers to the steps.
LEMMA InCourse ==
  ASSUME SpiInv, ~limit
  PROVE  /\ Clean
         /\ turn \in {0, 1} /\ driver \in Drivers
         /\ len \in Nat /\ i \in 0 .. len /\ TxDepth \in Nat \ {0} /\ RxDepth \in Nat \ {0}
         /\ txfifo \in Seq(Frames) /\ Len(txfifo) <= TxDepth
         /\ rxfifo \in Seq(Tags \cup {NoTag})
         /\ wire \in Seq(Tags) /\ out \in Seq(Tags \cup {NoTag})
         /\ shifter \in Frames \cup {NoFrame}
<1>1. ControllerTypeOK(Tags) /\ SpiTypeOK
  BY TypeParts DEF SpiInv, ProgramInv
<1>. QED
  BY <1>1, FramesTyped, SpiAssumption, SpiControllerAssumption DEF SpiTypeOK, SpiInv, Course

\* NoFrame is a frame of no call.
LEMMA NotSending == turn \in {0, 1} /\ shifter = NoFrame => ~Sending
BY DEF NoFrame, NoTag, Sending

LEMMA NotSendingNext == (turn \in {0, 1} /\ shifter = NoFrame => ~Sending)'
BY NotSending, PTL

\* Except while spi_rx waits for an answer, every byte written is a byte done.
LEMMA GivenOutside == i \in Nat /\ pc \notin {"rx_wait", "rx_data"} => Given = i
BY DEF Given

LEMMA GivenOutsideNext == (i \in Nat /\ pc \notin {"rx_wait", "rx_data"} => Given = i)'
BY GivenOutside, PTL

LEMMA CallCourse ==
  ASSUME SpiInv, Call
  PROVE  Course'
<1>. SUFFICES ASSUME ~limit' PROVE Clean'
  BY DEF Course
<1>1. ~limit /\ UNCHANGED <<driver, misfit, controller>> /\ pc = "idle"
  BY DEF Call, Enter
<1>2. /\ i' = 0 /\ out' = <<>> /\ wire' = <<>>
      /\ pc' \in {"init_data", "tx_dir", "rx_dir"} /\ call' \in {"init", "tx", "rx"}
      /\ pc' = "init_data" <=> call' = "init"
      /\ turn' = IF call' = "init" THEN turn ELSE 1 - turn
  BY DEF Call, Enter
<1>3. Clean /\ turn \in {0, 1} /\ turn' \in {0, 1}
  BY <1>1, <1>2, InCourse
<1>4. txfifo = <<>> /\ txfifo' = <<>> /\ shifter' = shifter /\ rxfifo' = rxfifo
  BY <1>1, <1>3 DEF Clean, Waiting, OnWire, controller
<1>5. Waiting'
  BY <1>2, <1>4 DEF Waiting, OnWire
<1>6. shifter # NoFrame => Sending
  BY <1>1, <1>3 DEF Clean, Gone
<1>7. Sending' => call' = "init"
  <2>1. CASE shifter = NoFrame
    BY <1>3, <1>4, <2>1, NotSendingNext
  <2>2. CASE shifter # NoFrame
    BY <1>2, <1>3, <1>4, <1>6, <2>2 DEF Sending
  <2>. QED BY <2>1, <2>2
<1>8. Gone'
  <2>1. pc' \in InitPcs => call' = "init"
    BY <1>2 DEF InitPcs
  <2>2. shifter' # NoFrame /\ call' = "init" => Sending'
    BY <1>2, <1>4, <1>6 DEF Sending
  <2>3. call' # "init" => Given' = 0
    BY <1>2 DEF Given
  <2>4. driver' = "nuspi" => shifter' = NoFrame
    BY <1>1, <1>3, <1>4 DEF Clean, Gone, OnWire
  <2>. QED BY <1>2, <1>4, <1>7, <2>1, <2>2, <2>3, <2>4 DEF Gone
<1>9. Answers'
  BY <1>1, <1>2, <1>3, <1>4 DEF Clean, Answers
<1>. QED BY <1>1, <1>3, <1>5, <1>8, <1>9 DEF Clean

LEMMA IdleCourse ==
  ASSUME SpiInv, spi_hw \/ spi_cs \/ UNCHANGED vars
  PROVE  Course'
<1>. SUFFICES ASSUME ~limit' PROVE Clean'
  BY DEF Course
<1>1. UNCHANGED <<spi, txfifo, rxfifo, shifter, dir>> /\ (pc = "idle" \/ UNCHANGED csmode)
  BY DEF spi_hw, spi_cs, FctrlWrite, CsmodeWrite, vars, controller
<1>2. Clean
  BY <1>1, InCourse DEF spi
<1>3. Waiting'
  <2>1. CASE pc = "idle"
    BY <1>1, <1>2, <2>1 DEF spi, Clean, Waiting, OnWire
  <2>2. CASE UNCHANGED csmode
    BY <1>1, <1>2, <2>2 DEF spi, Clean, Waiting, OnWire, Frame, Given
  <2>. QED BY <1>1, <2>1, <2>2
<1>4. Gone'
  BY <1>1, <1>2 DEF spi, Clean, Gone, Given, Sending
<1>5. Answers'
  BY <1>1, <1>2 DEF spi, Clean, Answers, Awaited
<1>. QED BY <1>1, <1>2, <1>3, <1>4, <1>5 DEF Clean, spi

LEMMA InitCourse ==
  ASSUME SpiInv, InitData \/ InitStatus \/ InitFctrl
  PROVE  Course'
<1>. SUFFICES ASSUME ~limit' PROVE Clean'
  BY DEF Course
<1>1. UNCHANGED <<local, i, out, history, limit, txfifo, shifter>>
  BY DEF InitData, InitStatus, InitFctrl, NoWait, RxRead, FctrlWrite, controller
<1>2. pc \in InitPcs /\ pc' \in InitPcs
  BY DEF InitData, InitStatus, InitFctrl, Goto, InitPcs
<1>3. Clean /\ call = "init"
  BY <1>1, <1>2, InCourse DEF SpiInv, ProgramInv, LoopInv
<1>4. txfifo = <<>> /\ rxfifo = <<>>
  BY <1>2, <1>3 DEF Clean, Waiting, Answers, OnWire, InitPcs
<1>5. rxfifo' = <<>>
  BY <1>4 DEF InitData, InitStatus, InitFctrl, RxRead, RxTail, RxEmpty, FctrlWrite, controller
<1>6. Waiting'
  BY <1>1, <1>2, <1>4 DEF Waiting, OnWire, InitPcs
<1>7. Gone'
  BY <1>1, <1>2, <1>3 DEF local, history, Clean, Gone, Sending, OnWire, InitPcs
<1>8. Answers'
  BY <1>1, <1>2, <1>3, <1>5 DEF local, Clean, Answers, InitPcs
<1>. QED BY <1>1, <1>3, <1>6, <1>7, <1>8 DEF Clean, history

\* The course begins, or goes on, where spi_init returns.
LEMMA InitFmtCourse ==
  ASSUME SpiInv, InitFmt
  PROVE  Course'
<1>. SUFFICES ASSUME ~limit' PROVE Clean'
  BY DEF Course
<1>1. /\ pc = "init_fmt" /\ pc' = "idle" /\ call = "init"
      /\ UNCHANGED <<local, i, out, wire, txfifo, rxfifo, shifter>>
      /\ misfit' = (misfit /\ ~quiet) /\ (~limit \/ quiet)
  BY DEF InitFmt, FmtWrite, Return, SpiInv, ProgramInv, LoopInv, InitPcs
<1>2. call' = "init" /\ turn' = turn /\ driver' = driver
  BY <1>1 DEF local
<1>3. txfifo' = <<>> /\ rxfifo' = <<>> /\ (shifter' = NoFrame \/ shifter'.dir = "TX")
      /\ (shifter' # NoFrame /\ ~Sending' => wire' = <<>>)
      /\ (shifter' # NoFrame => Sending')
      /\ (driver' = "nuspi" => shifter' = NoFrame)
      /\ ~misfit'
  <2>1. CASE ~limit
    <3>1. Clean
      BY <2>1, InCourse
    <3>. QED BY <1>1, <1>2, <3>1 DEF Clean, Waiting, Gone, Answers, Sending, OnWire, InitPcs
  <2>2. CASE quiet
    BY <1>1, <1>2, <2>2 DEF SpiInv, QuietInv, InitPcs
  <2>. QED BY <1>1, <2>1, <2>2
<1>4. Waiting'
  BY <1>1, <1>3 DEF Waiting, OnWire
<1>5. Gone'
  BY <1>1, <1>2, <1>3 DEF Gone
<1>6. Answers'
  BY <1>1, <1>2, <1>3 DEF Answers
<1>. QED BY <1>3, <1>4, <1>5, <1>6 DEF Clean

LEMMA TxCourse ==
  ASSUME SpiInv, TxDir \/ TxData
  PROVE  Course'
<1>. SUFFICES ASSUME ~limit' PROVE Clean'
  BY DEF Course
<1>1. /\ UNCHANGED <<local, out, limit, history, rxfifo, shifter, csmode>>
      /\ dir' = "TX" /\ pc \in TxPcs /\ pc' \in {"tx_room", "tx_end"}
  <2>1. CASE TxDir
    BY <2>1 DEF TxDir, TxNext, Goto, FmtWrite, TxPcs
  <2>2. CASE TxData
    BY <2>2, InCourse DEF TxData, TxNext, Goto, TxWrite, TxPcs, Clean, Waiting
  <2>. QED BY <2>1, <2>2
<1>2. Clean /\ call = "tx" /\ len \in Nat /\ i \in Nat /\ turn' = turn /\ txfifo \in Seq(Frames)
  BY <1>1, InCourse DEF SpiInv, ProgramInv, LoopInv, local
<1>3. Waiting' /\ Given' - Len(txfifo') = Given - Len(txfifo) /\ Len(txfifo') \in Nat
  <2>1. Given = i /\ Given' = i'
    <3>1. i \in Nat /\ i' \in Nat
      BY <1>2 DEF TxDir, TxData
    <3>2. pc \notin {"rx_wait", "rx_data"} /\ pc' \notin {"rx_wait", "rx_data"}
      BY <1>1 DEF TxPcs
    <3>. QED BY <3>1, <3>2, GivenOutside, GivenOutsideNext
  <2>2. CASE TxDir
    <3>1. i' = i /\ txfifo = <<>> /\ txfifo' = <<>>
      BY <1>2, <2>2 DEF TxDir, FmtWrite, Clean, Waiting, OnWire
    <3>. QED BY <1>1, <2>1, <3>1 DEF Waiting, OnWire
  <2>3. CASE TxData
    <3>1. i' = i + 1 /\ dir = "TX" /\ Len(txfifo) < TxDepth /\ ~limit
      BY <1>1, <1>2, <2>3 DEF TxData, Clean, Waiting
    <3>2. txfifo' = Append(txfifo, Frame(<<turn, i>>))
      BY <1>2, <2>3, <3>1, SpiControllerAssumption DEF TxData, TxWrite, TxFull, Tag
    <3>3. Len(txfifo') = Len(txfifo) + 1
          /\ txfifo'[Len(txfifo) + 1] = Frame(<<turn, i>>)
          /\ \A k \in 1 .. Len(txfifo) : txfifo'[k] = txfifo[k]
      BY <1>2, <3>2
    <3>4. \A k \in 1 .. Len(txfifo) : txfifo[k] = Frame(<<turn, i - Len(txfifo) + k - 1>>)
      BY <1>2, <2>1 DEF Clean, Waiting
    <3>5. ASSUME NEW k \in 1 .. Len(txfifo')
          PROVE  txfifo'[k] = Frame(<<turn, i' - Len(txfifo') + k - 1>>)
      <4>1. Len(txfifo) \in Nat
        BY <1>2
      <4>2. CASE k \in 1 .. Len(txfifo)
        <5>1. i' - Len(txfifo') + k - 1 = i - Len(txfifo) + k - 1
          BY <1>2, <3>1, <3>3, <4>1
        <5>. QED BY <3>3, <3>4, <4>2, <5>1
      <4>3. CASE k = Len(txfifo) + 1
        <5>1. i' - Len(txfifo') + k - 1 = i
          BY <1>2, <3>1, <3>3, <4>1, <4>3
        <5>. QED BY <3>3, <4>3, <5>1
      <4>. QED BY <3>3, <4>1, <4>2, <4>3
    <3>. QED BY <1>1, <1>2, <2>1, <3>1, <3>3, <3>5 DEF Waiting, OnWire, Frame
  <2>. QED BY <2>2, <2>3
<1>4. Gone'
  BY <1>1, <1>2, <1>3 DEF local, history, Clean, Gone, Sending, OnWire, InitPcs, TxPcs
<1>5. Answers'
  BY <1>1, <1>2 DEF local, Clean, Answers, TxPcs
<1>. QED BY <1>1, <1>2, <1>3, <1>4, <1>5 DEF Clean, history

LEMMA TxRoomCourse ==
  ASSUME SpiInv, TxRoom
  PROVE  Course'
<1>. SUFFICES ASSUME ~limit' PROVE Clean'
  BY DEF Course
<1>1. ~limit /\ pc = "tx_room" /\ UNCHANGED <<controller, local, history, i, out>>
      /\ (pc' = "tx_room" \/ (pc' = "tx_data" /\ ~TxFull))
  <2>1. times_out # 0 /\ ~RunOut(times_out') /\ ~limit
    BY TurnInTime DEF TxRoom, Poll, SpiInv, Waits
  <2>. QED BY <2>1 DEF TxRoom, Poll, Goto
<1>2. Clean /\ txfifo \in Seq(Frames) /\ Len(txfifo) <= TxDepth /\ TxDepth \in Nat
  BY <1>1, InCourse
<1>3. UNCHANGED <<txfifo, rxfifo, shifter, dir, csmode, turn, call, driver, wire, misfit>>
  BY <1>1 DEF controller, local, history
<1>4. Given' = Given
  BY <1>1 DEF Given
<1>5. Waiting'
  BY <1>1, <1>2, <1>3, <1>4 DEF Clean, Waiting, OnWire, Frame, TxFull
<1>6. Gone'
  BY <1>1, <1>2, <1>3, <1>4 DEF Clean, Gone, Sending, OnWire, InitPcs
<1>7. Answers'
  BY <1>1, <1>2, <1>3 DEF Clean, Answers
<1>. QED BY <1>2, <1>3, <1>5, <1>6, <1>7 DEF Clean

\* spi_tx of fespi waits for the watermark, which shows an empty FIFO when it
\* is at one.
MarkIsOne == "fespi" \in Drivers => TxMark = 1

LEMMA TxEndCourse ==
  ASSUME SpiInv, TxEnd, MarkIsOne
  PROVE  Course'
<1>. SUFFICES ASSUME ~limit' PROVE Clean'
  BY DEF Course
<1>1. ~limit /\ pc = "tx_end" /\ UNCHANGED <<controller, local, history, i, out>>
      /\ (pc' = "tx_end" \/ (pc' = "idle" /\ Sent))
  <2>1. times_out # 0 /\ ~RunOut(times_out') /\ ~limit
    BY TurnInTime DEF TxEnd, Poll, SpiInv, Waits
  <2>. QED BY <2>1 DEF TxEnd, Poll, Return
<1>2. Clean /\ txfifo \in Seq(Frames) /\ call = "tx" /\ turn \in {0, 1} /\ driver \in Drivers
  BY <1>1, InCourse DEF SpiInv, ProgramInv, LoopInv, TxPcs
<1>3. UNCHANGED <<txfifo, rxfifo, shifter, dir, csmode, turn, call, driver, wire, misfit>>
  BY <1>1 DEF controller, local, history
<1>4. Given' = Given
  BY <1>1 DEF Given
<1>5. CASE pc' = "tx_end"
  BY <1>1, <1>2, <1>3, <1>4, <1>5 DEF Clean, Waiting, Gone, Answers, Sending, Frame
<1>6. CASE pc' = "idle" /\ Sent
  <2>1. txfifo = <<>>
    <3>1. CASE driver = "nuspi"
      BY <1>6, <3>1 DEF Sent, Busy
    <3>2. CASE driver # "nuspi"
      <4>1. Len(txfifo) < 1 /\ Len(txfifo) \in Nat
        BY <1>2, <1>6, <3>2, SpiAssumption DEF Sent, Watermark, MarkIsOne
      <4>. QED BY <1>2, <4>1
    <3>. QED BY <3>1, <3>2
  <2>2. driver = "nuspi" => shifter = NoFrame
    BY <1>6 DEF Sent, Busy
  <2>3. i = len /\ len \in Nat \ {0} /\ Given = i
    <3>1. i = len /\ len \in Nat \ {0}
      BY <1>1, <1>2, SpiAssumption DEF SpiInv, ProgramInv, LoopInv
    <3>. QED BY <1>1, <3>1 DEF Given
  <2>4. shifter # NoFrame => Sending
    <3>1. CASE shifter # NoFrame /\ ~Sending
      BY <1>2, <2>1, <2>3, <3>1 DEF Clean, Gone
    <3>. QED BY <3>1
  <2>5. Waiting'
    BY <1>3, <1>6, <2>1 DEF Waiting, OnWire
  <2>6. Gone'
    BY <1>2, <1>3, <1>4, <1>6, <2>2, <2>4 DEF Clean, Gone, Sending
  <2>7. Answers'
    BY <1>1, <1>2, <1>3, <1>6 DEF Clean, Answers
  <2>. QED BY <1>2, <1>3, <2>5, <2>6, <2>7 DEF Clean
<1>. QED BY <1>1, <1>5, <1>6

LEMMA RxDirCourse ==
  ASSUME SpiInv, RxDir
  PROVE  Course'
<1>. SUFFICES ASSUME ~limit' PROVE Clean'
  BY DEF Course
<1>1. /\ ~limit /\ UNCHANGED <<local, i, out, history, txfifo, rxfifo, shifter>>
      /\ dir' = "RX" /\ pc = "rx_dir" /\ pc' \in {"rx_zero", "idle"}
  BY DEF RxDir, RxNext, Goto, Return, NoWait, FmtWrite
<1>2. Clean /\ call = "rx" /\ i < len /\ i = 0 /\ len \in Nat
  BY <1>1, InCourse, SpiAssumption DEF SpiInv, ProgramInv, LoopInv, RxPcs
<1>3. pc' = "rx_zero"
  BY <1>2 DEF RxDir, RxNext, Goto
<1>4. txfifo = <<>> /\ Given' = Given
  BY <1>1, <1>2, <1>3 DEF Clean, Waiting, OnWire, Given
<1>5. Waiting'
  BY <1>1, <1>3, <1>4 DEF Waiting, OnWire
<1>6. Gone'
  BY <1>1, <1>2, <1>3, <1>4 DEF local, history, Clean, Gone, Sending, OnWire, InitPcs
<1>7. Answers'
  BY <1>1, <1>2, <1>3 DEF local, Clean, Answers
<1>. QED BY <1>1, <1>2, <1>5, <1>6, <1>7 DEF Clean, history

LEMMA RxZeroCourse ==
  ASSUME SpiInv, RxZero
  PROVE  Course'
<1>. SUFFICES ASSUME ~limit' PROVE Clean'
  BY DEF Course
<1>1. /\ ~limit /\ UNCHANGED <<local, i, out, history, rxfifo, shifter, dir, csmode>>
      /\ pc = "rx_zero" /\ pc' = "rx_wait"
  BY DEF RxZero, Goto, TxWrite
<1>2. Clean /\ call = "rx" /\ i \in Nat /\ turn \in {0, 1}
  BY <1>1, InCourse DEF SpiInv, ProgramInv, LoopInv, RxPcs
<1>3. txfifo = <<>> /\ dir = "RX" /\ rxfifo = <<>> /\ (shifter = NoFrame \/ shifter.dir = "TX")
  BY <1>1, <1>2 DEF Clean, Waiting, Answers, OnWire
<1>4. txfifo' = <<Frame(<<turn, i>>)>>
  BY <1>1, <1>3, SpiControllerAssumption DEF RxZero, TxWrite, TxFull, Tag
<1>5. Given = i /\ Given' = i + 1 /\ Len(txfifo') = 1 /\ Len(txfifo) = 0
      /\ Given' - Len(txfifo') = Given - Len(txfifo)
  BY <1>1, <1>2, <1>3, <1>4 DEF Given
<1>6. Waiting'
  <2>1. ASSUME NEW k \in 1 .. 1
        PROVE  txfifo'[k] = Frame(<<turn, Given' - 1 + k - 1>>)
    <3>1. k = 1 /\ Given' - 1 + k - 1 = i
      BY <1>2, <1>5
    <3>. QED BY <1>4, <3>1
  <2>. QED BY <1>1, <1>3, <1>5, <2>1 DEF local, Waiting, OnWire, Frame
<1>7. Gone'
  BY <1>1, <1>2, <1>5 DEF local, history, Clean, Gone, Sending, OnWire, InitPcs
<1>8. Answers'
  BY <1>1, <1>2, <1>3, <1>5 DEF local, Clean, Answers, Awaited
<1>. QED BY <1>1, <1>2, <1>6, <1>7, <1>8 DEF Clean, history

\* The word that is stored is the answer to byte i.
LEMMA StoreCourse ==
  ASSUME SpiInv, ~limit, call = "rx", pc \in {"rx_wait", "rx_data"},
         txfifo = <<>>, rxfifo = << <<turn, i>> >>, shifter = NoFrame,
         Store(<<turn, i>>), rxfifo' = <<>>,
         UNCHANGED <<txfifo, shifter, dir, csmode, local, history>>
  PROVE  Clean'
<1>1. Clean /\ len \in Nat /\ i \in 0 .. len /\ i < len /\ Len(out) = i /\ turn \in {0, 1}
      /\ out \in Seq(Tags \cup {NoTag})
  BY InCourse DEF SpiInv, ProgramInv, LoopInv
<1>2. i' = i + 1 /\ out' = Append(out, <<turn, i>>) /\ pc' \in {"rx_zero", "idle"}
  BY DEF Store, RxNext, Goto, Return
<1>3. Given' = Given
  <2>1. Given = i + 1
    BY DEF Given
  <2>2. Given' = i'
    BY <1>1, <1>2 DEF Given
  <2>. QED BY <1>2, <2>1, <2>2
<1>4. Waiting'
  BY <1>1, <1>2 DEF Clean, Waiting, OnWire
<1>5. Gone'
  BY <1>1, <1>2, <1>3 DEF local, history, Clean, Gone, Sending
<1>6. Answers'
  <2>1. ASSUME NEW k \in 1 .. Len(out')
        PROVE  out'[k] = <<turn, k - 1>>
    <3>1. CASE k = i + 1
      BY <1>1, <1>2, <3>1
    <3>2. CASE k \in 1 .. i
      BY <1>1, <1>2, <3>2 DEF Clean, Answers
    <3>. QED BY <1>1, <1>2, <3>1, <3>2
  <2>. QED BY <1>2, <2>1 DEF local, Answers
<1>. QED BY <1>1, <1>4, <1>5, <1>6 DEF Clean, history

LEMMA RxDataCourse ==
  ASSUME SpiInv, RxData
  PROVE  Course'
<1>. SUFFICES ASSUME ~limit' PROVE Clean'
  BY DEF Course
<1>1. /\ ~limit /\ pc = "rx_data" /\ RxRead /\ Store(RxWord)
      /\ UNCHANGED <<local, history>>
  BY DEF RxData, NoWait
<1>2. Clean /\ call = "rx"
  BY <1>1, InCourse DEF SpiInv, ProgramInv, LoopInv, RxPcs
<1>3. txfifo = <<>> /\ rxfifo = << <<turn, i>> >> /\ shifter = NoFrame
  BY <1>1, <1>2 DEF Clean, Waiting, Answers, OnWire
<1>4. RxWord = <<turn, i>> /\ rxfifo' = <<>> /\ UNCHANGED <<txfifo, shifter, dir, csmode>>
  BY <1>1, <1>3 DEF RxRead, RxWord, RxTail, RxEmpty
<1>. QED BY <1>1, <1>2, <1>3, <1>4, StoreCourse

LEMMA RxWaitCourse ==
  ASSUME SpiInv, RxWait
  PROVE  Course'
<1>. SUFFICES ASSUME ~limit' PROVE Clean'
  BY DEF Course
<1>1. times_out # 0 /\ ~RunOut(times_out') /\ ~limit
  BY TurnInTime DEF RxWait, Poll, SpiInv, Waits
<1>2. /\ pc = "rx_wait" /\ UNCHANGED <<local, history>>
      /\ IF driver = "fespi" THEN RxRead ELSE UNCHANGED controller
      /\ \/ RxEmpty /\ UNCHANGED <<pc, ret, i, out>>
         \/ ~RxEmpty /\ driver = "fespi" /\ Store(Polled)
         \/ ~RxEmpty /\ driver # "fespi" /\ pc' = "rx_data" /\ UNCHANGED <<i, out>>
  BY <1>1 DEF RxWait, Poll, Goto
<1>3. Clean /\ call = "rx" /\ Awaited
  BY <1>1, <1>2, InCourse DEF SpiInv, ProgramInv, LoopInv, RxPcs, Clean, Answers
<1>4. UNCHANGED <<txfifo, shifter, dir, csmode, turn, call, driver, wire, misfit>>
  BY <1>2 DEF controller, RxRead, local, history
<1>5. CASE RxEmpty /\ UNCHANGED <<pc, ret, i, out>>
  <2>1. rxfifo' = rxfifo
    BY <1>2, <1>5 DEF RxRead, RxTail, RxEmpty, controller
  <2>2. Waiting'
    BY <1>3, <1>4, <1>5 DEF Clean, Waiting, Given, Frame
  <2>3. Gone'
    BY <1>3, <1>4, <1>5 DEF Clean, Gone, Given, Sending
  <2>4. Answers'
    BY <1>3, <1>4, <1>5, <2>1 DEF Clean, Answers, Awaited
  <2>. QED BY <1>3, <1>4, <2>2, <2>3, <2>4 DEF Clean
<1>6. ASSUME ~RxEmpty
      PROVE  txfifo = <<>> /\ rxfifo = << <<turn, i>> >> /\ shifter = NoFrame
  BY <1>3, <1>6 DEF Awaited, RxEmpty
<1>7. CASE ~RxEmpty /\ driver = "fespi" /\ Store(Polled)
  <2>1. Polled = <<turn, i>> /\ rxfifo' = <<>>
    <3>1. rxfifo = << <<turn, i>> >> /\ RxRead /\ Polled = RxWord
      BY <1>1, <1>2, <1>6, <1>7 DEF Polled
    <3>2. RxWord = <<turn, i>>
      BY <3>1 DEF RxWord, RxEmpty
    <3>3. rxfifo' = <<>>
      BY <3>1 DEF RxRead, RxTail, RxEmpty
    <3>. QED BY <3>1, <3>2, <3>3
  <2>. QED BY <1>1, <1>2, <1>3, <1>4, <1>6, <1>7, <2>1, StoreCourse
<1>8. CASE ~RxEmpty /\ driver # "fespi" /\ pc' = "rx_data" /\ UNCHANGED <<i, out>>
  <2>1. rxfifo' = rxfifo /\ Given' = Given
    BY <1>2, <1>8 DEF controller, Given
  <2>2. Waiting'
    BY <1>2, <1>3, <1>4, <1>6, <1>8 DEF Clean, Waiting, OnWire
  <2>3. Gone'
    BY <1>2, <1>3, <1>4, <1>6, <1>8, <2>1 DEF Clean, Gone, Sending, InitPcs
  <2>4. Answers'
    BY <1>3, <1>4, <1>6, <1>8, <2>1 DEF Clean, Answers
  <2>. QED BY <1>3, <1>4, <2>2, <2>3, <2>4 DEF Clean
<1>. QED BY <1>2, <1>5, <1>7, <1>8

\* A frame that starts is the next byte of the call, under the terms it was
\* written under.
LEMMA StartCourse ==
  ASSUME SpiInv, StartFrame,
         misfit' = (misfit \/ limit \/ Head(txfifo) # shifter'),
         UNCHANGED <<local, pc, i, times_out, out, ret, wire, polls, limit>>
  PROVE  Course'
<1>. SUFFICES ASSUME ~limit' PROVE Clean'
  BY DEF Course
<1>1. Clean /\ turn \in {0, 1} /\ i \in Nat /\ txfifo \in Seq(Frames)
      /\ shifter = NoFrame /\ txfifo # <<>> /\ ~limit
  BY InCourse DEF StartFrame
<1>2. UNCHANGED <<rxfifo, dir, csmode, turn, call, driver, Given>>
  BY DEF StartFrame, local, Given
<1>3. /\ Len(txfifo) \in Nat \ {0} /\ Given \in Nat
      /\ txfifo' = Tail(txfifo) /\ Len(txfifo') = Len(txfifo) - 1
  BY <1>1 DEF StartFrame, Given
<1>4. pc \in OnWire
  BY <1>1 DEF Clean, Waiting
<1>5. call # "init" /\ Len(wire) = Given - Len(txfifo) /\ Len(wire) \in Nat
  <2>1. call # "init"
    BY <1>4 DEF SpiInv, ProgramInv, LoopInv, OnWire, TxPcs, RxPcs
  <2>2. Len(wire) \in Nat
    BY <1>1, InCourse
  <2>. QED BY <1>1, <2>1, <2>2, NotSending DEF Clean, Gone
<1>6. Head(txfifo) = Frame(<<turn, Len(wire)>>)
  <2>1. txfifo[1] = Frame(<<turn, Given - Len(txfifo) + 1 - 1>>)
    BY <1>1, <1>3 DEF Clean, Waiting
  <2>2. Given - Len(txfifo) + 1 - 1 = Len(wire)
    BY <1>3, <1>5
  <2>. QED BY <1>1, <2>1, <2>2
<1>7. shifter' = Frame(<<turn, Len(wire)>>)
  BY <1>6 DEF StartFrame, Frame
<1>8. shifter'.tag = <<turn, Len(wire)>> /\ shifter'.dir = dir /\ Sending' /\ shifter' # NoFrame
  BY <1>1, <1>2, <1>7 DEF Frame, Sending, NoFrame, NoTag
<1>9. ~misfit'
  BY <1>1, <1>6, <1>7 DEF Clean
<1>10. Waiting'
  <2>1. ASSUME NEW k \in 1 .. Len(txfifo')
        PROVE  txfifo'[k] = Frame(<<turn, Given - Len(txfifo') + k - 1>>)
    <3>1. k + 1 \in 1 .. Len(txfifo) /\ txfifo'[k] = txfifo[k + 1]
      BY <1>1, <1>3
    <3>2. Given - Len(txfifo') + k - 1 = Given - Len(txfifo) + (k + 1) - 1
      BY <1>3
    <3>. QED BY <1>1, <3>1, <3>2 DEF Clean, Waiting
  <2>2. pc = "tx_data" => Len(txfifo') < TxDepth
    BY <1>1, <1>3, SpiControllerAssumption DEF Clean, Waiting
  <2>. QED BY <1>1, <1>2, <1>4, <2>1, <2>2 DEF Clean, Waiting, Frame
<1>11. Gone'
  <2>1. Len(wire) + 1 = Given - Len(txfifo')
    BY <1>3, <1>5
  <2>. QED BY <1>1, <1>2, <1>4, <1>5, <1>8, <2>1 DEF Clean, Gone, OnWire, InitPcs
<1>12. Answers'
  <2>1. CASE pc = "rx_wait"
    <3>1. Len(txfifo) = 1 /\ rxfifo = <<>>
      BY <1>1, <2>1 DEF Clean, Answers, Awaited
    <3>2. Given = i + 1 /\ Len(wire) = i /\ dir = "RX"
      BY <1>1, <1>5, <2>1, <3>1 DEF Clean, Waiting, Given
    <3>3. txfifo' = <<>>
      BY <1>1, <1>3, <3>1
    <3>4. Awaited'
      BY <1>2, <1>8, <3>1, <3>2, <3>3 DEF Awaited
    <3>. QED BY <1>1, <1>2, <2>1, <3>4 DEF Clean, Answers
  <2>2. CASE pc # "rx_wait"
    <3>1. dir = "TX" /\ pc \notin {"rx_wait", "rx_data"}
      BY <1>1, <1>4, <2>2 DEF Clean, Waiting, OnWire
    <3>. QED BY <1>1, <1>2, <1>8, <3>1 DEF Clean, Answers
  <2>. QED BY <2>1, <2>2
<1>. QED BY <1>9, <1>10, <1>11, <1>12 DEF Clean

\* A frame that ends joins the bytes that went out, and leaves its answer if
\* it was sent to be answered.
LEMMA EndCourse ==
  ASSUME SpiInv, EndFrame,
         wire' = IF ~limit /\ shifter.tag[1] = turn THEN Append(wire, shifter.tag) ELSE wire,
         UNCHANGED <<local, pc, i, times_out, out, ret, polls, limit, misfit>>
  PROVE  Course'
<1>. SUFFICES ASSUME ~limit' PROVE Clean'
  BY DEF Course
<1>1. Clean /\ turn \in {0, 1} /\ i \in Nat /\ wire \in Seq(Tags) /\ Len(wire) \in Nat
      /\ shifter # NoFrame /\ ~limit /\ RxDepth \in Nat \ {0}
  BY InCourse DEF EndFrame
<1>2. UNCHANGED <<txfifo, dir, csmode, turn, call, driver, Given>> /\ shifter' = NoFrame
  BY DEF EndFrame, local, Given
<1>3. ~Sending'
  BY <1>1, <1>2, NotSendingNext
<1>4. Waiting'
  BY <1>1, <1>2 DEF Clean, Waiting, Frame
<1>5. Gone'
  <2>1. CASE Sending
    <3>1. wire' = Append(wire, shifter.tag)
      BY <1>1, <2>1 DEF Sending
    <3>2. Len(wire') = Len(wire) + 1
          /\ wire'[Len(wire) + 1] = shifter.tag
          /\ \A k \in 1 .. Len(wire) : wire'[k] = wire[k]
      BY <1>1, <3>1, InCourse
    <3>3. ASSUME call # "init"
          PROVE  /\ Len(wire') = Given - Len(txfifo)
                 /\ \A k \in 1 .. Len(wire') : wire'[k] = <<turn, k - 1>>
      <4>1. Len(wire) + 1 = Given - Len(txfifo) /\ shifter.tag = <<turn, Len(wire)>>
            /\ \A k \in 1 .. Len(wire) : wire[k] = <<turn, k - 1>>
        BY <1>1, <2>1, <3>3 DEF Clean, Gone
      <4>2. ASSUME NEW k \in 1 .. Len(wire')
            PROVE  wire'[k] = <<turn, k - 1>>
        <5>1. CASE k = Len(wire) + 1
          BY <1>1, <3>2, <4>1, <5>1
        <5>2. CASE k \in 1 .. Len(wire)
          BY <3>2, <4>1, <5>2
        <5>. QED BY <1>1, <3>2, <5>1, <5>2
      <4>. QED BY <3>2, <4>1, <4>2
    <3>4. call # "init" => Len(wire') + 0 = Given - Len(txfifo)
      BY <1>1, <3>2, <3>3
    <3>. QED BY <1>2, <1>3, <3>3, <3>4 DEF Gone
  <2>2. CASE ~Sending
    <3>1. wire' = wire
      BY <2>2 DEF Sending
    <3>. QED BY <1>1, <1>2, <1>3, <2>2, <3>1 DEF Clean, Gone
  <2>. QED BY <2>1, <2>2
<1>6. Answers'
  <2>1. CASE pc = "rx_wait"
    <3>1. \/ Len(txfifo) = 1 /\ rxfifo = <<>> /\ shifter.dir = "TX"
          \/ txfifo = <<>> /\ rxfifo = <<>> /\ shifter.tag = <<turn, i>> /\ shifter.dir = "RX"
      BY <1>1, <2>1 DEF Clean, Answers, Awaited
    <3>2. CASE Len(txfifo) = 1 /\ rxfifo = <<>> /\ shifter.dir = "TX"
      <4>1. rxfifo' = rxfifo
        BY <3>2 DEF EndFrame
      <4>. QED BY <1>1, <1>2, <2>1, <3>2, <4>1 DEF Clean, Answers, Awaited
    <3>3. CASE txfifo = <<>> /\ rxfifo = <<>> /\ shifter.tag = <<turn, i>> /\ shifter.dir = "RX"
      <4>1. rxfifo' = << <<turn, i>> >>
        BY <1>1, <3>3 DEF EndFrame
      <4>. QED BY <1>1, <1>2, <2>1, <3>3, <4>1 DEF Clean, Answers, Awaited
    <3>. QED BY <3>1, <3>2, <3>3
  <2>2. CASE pc # "rx_wait"
    <3>1. pc # "rx_data" /\ shifter.dir = "TX" /\ rxfifo = <<>>
      BY <1>1, <2>2 DEF Clean, Answers
    <3>2. rxfifo' = rxfifo
      BY <3>1 DEF EndFrame
    <3>. QED BY <1>1, <1>2, <2>2, <3>1, <3>2 DEF Clean, Answers
  <2>. QED BY <2>1, <2>2
<1>. QED BY <1>1, <1>4, <1>5, <1>6 DEF Clean

-------------------------------------------------------------------------------
(* What a call means and leaves                                            *)

LEMMA SpiBegins == Init => SpiInv
<1>. SUFFICES ASSUME Init PROVE SpiInv
  OBVIOUS
<1>. QED BY ProgramBegins, Begins DEF Init, SpiInv, QuietInv, ErrorInv, Course

LEMMA WaitKeeps ==
  ASSUME SpiInv, EarlyIsNoError, [Next]_vars
  PROVE  WaitInv' /\ EarlyIsNoError'
BY Keeps DEF ErrorInv, SpiInv

LEMMA SpiKeeps ==
  ASSUME MarkIsOne, SpiInv, EarlyIsNoError, [Next]_vars
  PROVE  SpiInv' /\ EarlyIsNoError'
<1>1. ProgramInv' /\ QuietInv' /\ WaitInv' /\ EarlyIsNoError'
  BY ProgramKeeps, QuietKeeps, WaitKeeps DEF SpiInv
<1>2. CASE Shift
  BY <1>1, <1>2, StartCourse, EndCourse DEF Shift, SpiInv
<1>3. CASE Call \/ spi_hw \/ spi_cs \/ UNCHANGED vars
  BY <1>1, <1>3, CallCourse, IdleCourse DEF SpiInv
<1>4. CASE InitData \/ InitStatus \/ InitFctrl \/ InitFmt
  BY <1>1, <1>4, InitCourse, InitFmtCourse DEF SpiInv
<1>5. CASE TxDir \/ TxRoom \/ TxData \/ TxEnd
  BY <1>1, <1>5, TxCourse, TxRoomCourse, TxEndCourse DEF SpiInv
<1>6. CASE RxDir \/ RxZero \/ RxWait \/ RxData
  BY <1>1, <1>6, RxDirCourse, RxZeroCourse, RxWaitCourse, RxDataCourse DEF SpiInv
<1>. QED BY <1>2, <1>3, <1>4, <1>5, <1>6 DEF Next, Steps

\* Sequences that agree are equal.
LEMMA CountsUp ==
  ASSUME NEW S, NEW s \in Seq(S), NEW n \in Nat, NEW t, Len(s) = n,
         \A k \in 1 .. n : s[k] = <<t, k - 1>>
  PROVE  s = [k \in 1 .. n |-> <<t, k - 1>>]
<1>1. s \in [1 .. n -> S]
  OBVIOUS
<1>2. s = [k \in 1 .. n |-> s[k]]
  BY <1>1
<1>. QED BY <1>2

LEMMA CourseOfOk ==
  ASSUME SpiInv
  PROVE  OkMeansDone
<1>. SUFFICES ASSUME pc = "idle", ret = "ok", ~limit
              PROVE  /\ call # "init" => Outgoing = Meant
                     /\ out = IF call = "rx" THEN Meant ELSE <<>>
                     /\ txfifo = <<>> /\ rxfifo = <<>>
                     /\ driver = "nuspi" => shifter = NoFrame
  BY DEF OkMeansDone, InCall
<1>1. Clean /\ LoopInv /\ wire \in Seq(Tags) /\ out \in Seq(Tags \cup {NoTag})
      /\ len \in Nat /\ i \in Nat /\ turn \in {0, 1} /\ shifter \in Frames \cup {NoFrame}
  BY InCourse DEF SpiInv, ProgramInv
<1>2. txfifo = <<>> /\ rxfifo = <<>> /\ (driver = "nuspi" => shifter = NoFrame)
  BY <1>1 DEF Clean, Waiting, Gone, Answers, OnWire
<1>3. ASSUME call # "init" PROVE Outgoing = Meant
  <2>1. i = len /\ Given = len
    BY <1>1, <1>3 DEF LoopInv, Given
  <2>2. /\ Len(wire) + (IF Sending THEN 1 ELSE 0) = len
        /\ \A k \in 1 .. Len(wire) : wire[k] = <<turn, k - 1>>
        /\ Sending => shifter.tag = <<turn, Len(wire)>>
        /\ Len(wire) \in Nat
    BY <1>1, <1>2, <1>3, <2>1 DEF Clean, Gone
  <2>3. CASE Sending
    <3>1. shifter # NoFrame
      BY <1>1, <2>3, NotSending
    <3>2. Outgoing = wire \o <<shifter.tag>>
      BY <2>3, <3>1 DEF Outgoing, Sending
    <3>3. shifter.tag \in Tags
      BY <1>1, <3>1 DEF Frames
    <3>4. Outgoing \in Seq(Tags) /\ Len(Outgoing) = len
          /\ Outgoing[Len(wire) + 1] = shifter.tag
          /\ \A k \in 1 .. Len(wire) : Outgoing[k] = wire[k]
      BY <1>1, <2>2, <2>3, <3>2, <3>3
    <3>5. \A k \in 1 .. len : Outgoing[k] = <<turn, k - 1>>
      BY <1>1, <2>2, <2>3, <3>4
    <3>. QED BY <1>1, <3>4, <3>5, CountsUp DEF Meant
  <2>4. CASE ~Sending
    <3>1. Outgoing = wire
      BY <1>1, <2>4 DEF Outgoing, Sending
    <3>2. Len(wire) = len
      BY <2>2, <2>4
    <3>. QED BY <1>1, <2>2, <3>1, <3>2, CountsUp DEF Meant
  <2>. QED BY <2>3, <2>4
<1>4. ASSUME call = "rx" PROVE out = Meant
  <2>1. Len(out) = len /\ \A k \in 1 .. len : out[k] = <<turn, k - 1>>
    BY <1>1, <1>4 DEF Clean, Answers, LoopInv
  <2>. QED BY <1>1, <2>1, CountsUp DEF Meant
<1>5. ASSUME call # "rx" PROVE out = <<>>
  BY <1>1, <1>5 DEF LoopInv
<1>. QED BY <1>2, <1>3, <1>4, <1>5

\* A call that returns 0 sent its bytes, each once and in order, took the
\* answers to them and to nothing before, and left both FIFOs empty, for all
\* FIFOs, lengths and counts: since an init of a controller at rest no wait
\* came to its last poll, and the watermark fespi waits for is at one.
THEOREM OkMeansDoneHolds == MarkIsOne /\ FairSpec => []OkMeansDone
<1>. SUFFICES ASSUME MarkIsOne PROVE FairSpec => []OkMeansDone
  OBVIOUS
<1>1. Init => SpiInv /\ EarlyIsNoError
  BY SpiBegins DEF Init, EarlyIsNoError
<1>2. SpiInv /\ EarlyIsNoError /\ [Next]_vars => SpiInv' /\ EarlyIsNoError'
  BY SpiKeeps
<1>3. SpiInv => OkMeansDone
  BY CourseOfOk
<1>. QED BY <1>1, <1>2, <1>3, PTL DEF FairSpec

\* No byte leaves in a direction or with a chip select mode that a later call
\* set, under the same conditions: what spi_rx turns and spi_cs ends is the
\* business of no byte that still waits.
THEOREM FramesAsWrittenHolds == MarkIsOne /\ FairSpec => []FramesAsWritten
<1>. SUFFICES ASSUME MarkIsOne PROVE FairSpec => []FramesAsWritten
  OBVIOUS
<1>1. Init => SpiInv /\ EarlyIsNoError
  BY SpiBegins DEF Init, EarlyIsNoError
<1>2. SpiInv /\ EarlyIsNoError /\ [Next]_vars => SpiInv' /\ EarlyIsNoError'
  BY SpiKeeps
<1>3. SpiInv => FramesAsWritten
  BY DEF SpiInv, Course, Clean, FramesAsWritten
<1>. QED BY <1>1, <1>2, <1>3, PTL DEF FairSpec
===============================================================================
