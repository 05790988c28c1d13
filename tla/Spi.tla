---------------------------------- MODULE Spi ----------------------------------
(***************************************************************************)
(* nuspi.c and fespi.c: spi_init, spi_hw, spi_cs, spi_tx and spi_rx, one   *)
(* action per register access that the controller can tell apart.  A read  *)
(* and a write of FMT or FCTRL in a row are one action: nobody else writes *)
(* these registers.                                                        *)
(*                                                                         *)
(* Every wait is                                                           *)
(*     while (times_out--) { read; if (ready) break; }                     *)
(*     if (0 >= times_out) return error;                                   *)
(* with an unsigned times_out: a wait that ends without an answer leaves   *)
(* 2^32 - 1 and goes on, and one that ends at the last poll leaves 0.      *)
(***************************************************************************)
EXTENDS SpiController

CONSTANTS Drivers,     \* which of the two files is linked
          Lengths,     \* the lengths callers ask for
          TimesOut,    \* SPI_TX_TIMES_OUT and SPI_RX_TIMES_OUT, 500
          UintRange    \* 2^32, what times_out wraps at

ASSUME SpiAssumption ==
  /\ Drivers \subseteq {"nuspi", "fespi"}
  /\ Lengths \subseteq Nat \ {0} /\ Lengths # {}
  /\ {TimesOut, UintRange} \subseteq Nat \ {0} /\ TimesOut < UintRange

VARIABLES driver,
          pc,       \* the access the call makes next
          call,     \* the function
          len,      \* its argument
          i,
          times_out,
          out,      \* the caller's buffer, of spi_rx, as far as it is filled
          ret,
          turn,     \* history: a bit that changes with every call that sends
          wire,     \* history: the frames that ended since the call began
          quiet,    \* history: the call is an init that found the controller at rest
          polls,    \* history: the polls of the wait so far
          limit,    \* history: a wait came to the last poll, ready or not
          misfit    \* history: a frame left under other terms than it was
                    \* written under

local == <<driver, call, len, turn, quiet>>
history == <<wire, misfit>>
spi == <<driver, pc, call, len, i, times_out, out, ret, turn, wire, quiet,
         polls, limit, misfit>>
vars == <<controller, spi>>

Pcs == {"idle", "init_data", "init_status", "init_fctrl", "init_fmt",
        "tx_dir", "tx_room", "tx_data", "tx_end",
        "rx_dir", "rx_zero", "rx_wait", "rx_data"}

Stray == <<2, 1>>
Tags == ({0, 1} \X Nat) \cup {Stray}

\* The tag of byte k of the call.  Once a wait came to its last poll the
\* bytes are not told apart any more; nor are frames, nor is wire kept.
Tag(k) == IF limit THEN Stray ELSE <<turn, k>>

TypeOK ==
  /\ ControllerTypeOK(Tags)
  /\ driver \in Drivers
  /\ pc \in Pcs /\ call \in {"init", "tx", "rx"}
  /\ len \in Lengths \cup {0} /\ i \in 0 .. len
  /\ times_out \in 0 .. UintRange - 1
  /\ polls \in 0 .. TimesOut
  /\ out \in Seq(Tags \cup {NoTag}) /\ Len(out) <= len
  /\ wire \in Seq(Tags)
  /\ ret \in {"none", "ok", "error"}
  /\ turn \in {0, 1}
  /\ {quiet, limit, misfit} \subseteq BOOLEAN

Init ==
  /\ ControllerInit
  /\ driver \in Drivers
  /\ pc = "idle" /\ call = "init" /\ len = 0 /\ i = 0 /\ times_out = 0
  /\ out = <<>> /\ ret = "none"
  /\ turn = 0 /\ wire = <<>> /\ quiet = FALSE /\ polls = 0
  /\ limit = TRUE /\ misfit = TRUE

-------------------------------------------------------------------------------
(* Calls                                                                   *)

Enter(f, next, n) ==
  /\ pc = "idle"
  /\ call' = f /\ pc' = next /\ len' = n
  /\ i' = 0 /\ out' = <<>> /\ ret' = "none" /\ times_out' = 0 /\ polls' = 0
  /\ turn' = (IF f = "init" THEN turn ELSE 1 - turn)
  /\ wire' = <<>> /\ quiet' = (f = "init" /\ ~Busy)
  /\ UNCHANGED <<driver, limit, misfit>>

Call ==
  /\ \/ Enter("init", "init_data", 0)
     \/ \E n \in Lengths : Enter("tx", "tx_dir", n) \/ Enter("rx", "rx_dir", n)
  /\ UNCHANGED controller

\* spi_hw and spi_cs return nothing and wait for nothing.
spi_hw ==
  /\ pc = "idle"
  /\ \E sel \in BOOLEAN : FctrlWrite(sel)
  /\ UNCHANGED spi

spi_cs ==
  /\ pc = "idle"
  /\ \E m \in {"auto", "hold"} : CsmodeWrite(m)
  /\ UNCHANGED spi

Return(r) == pc' = "idle" /\ ret' = r
Goto(next) == pc' = next /\ UNCHANGED ret

-------------------------------------------------------------------------------
(* Waits                                                                   *)

\* The counter is set where the wait begins.
StartWait == times_out' = TimesOut /\ polls' = 0
NoWait == UNCHANGED <<times_out, polls, limit>>

\* Mutant: the counter is tested without being counted down.
LessNot(t) == t

\* times_out--, of an unsigned.
Less(t) == (t + UintRange - 1) % UintRange

\* Mutant: one poll less is granted.
RunOutEarly(t) == 1 >= t

\* The test after the loop.
RunOut(t) == 0 >= t

\* One turn of the loop: ready is what the read shows, gone what follows the
\* loop.  The turn that finds times_out at 0 reads nothing.
Poll(ready, gone) ==
  LET over == times_out = 0
  IN  /\ times_out' = Less(times_out)
      /\ polls' = IF over \/ polls = TimesOut THEN polls ELSE polls + 1
      /\ limit' = (limit \/ polls' = TimesOut)
      /\ IF ~over /\ ~ready THEN UNCHANGED <<pc, ret, i, out>>
         ELSE IF RunOut(times_out') THEN Return("error") /\ UNCHANGED <<i, out>> ELSE gone

-------------------------------------------------------------------------------
(* spi_init                                                                *)

\* Mutant: one byte is taken out of the FIFO, and no more.
DrainedOnce == TRUE

\* The FIFO is found empty: by the word itself (fespi), by STATUS (nuspi).
Drained == RxEmpty

InitData ==
  /\ pc = "init_data"
  /\ RxRead
  /\ \/ driver = "nuspi" /\ Goto("init_status")
     \/ driver = "fespi" /\ Goto(IF Drained THEN "init_fctrl" ELSE "init_data")
  /\ UNCHANGED <<local, i, out, history>> /\ NoWait

InitStatus ==
  /\ pc = "init_status"
  /\ Goto(IF Drained THEN "init_fctrl" ELSE "init_data")
  /\ UNCHANGED <<controller, local, i, out, history>> /\ NoWait

InitFctrl ==
  /\ pc = "init_fctrl"
  /\ FctrlWrite(FALSE)
  /\ Goto("init_fmt")
  /\ UNCHANGED <<local, i, out, history>> /\ NoWait

\* After an init of a controller at rest nothing that went before counts.
InitFmt ==
  /\ pc = "init_fmt"
  /\ FmtWrite("TX")
  /\ Return("ok")
  /\ limit' = (limit /\ ~quiet) /\ misfit' = (misfit /\ ~quiet)
  /\ UNCHANGED <<local, i, out, wire, times_out, polls>>

-------------------------------------------------------------------------------
(* spi_tx                                                                  *)

\* Mutant: the call returns with its bytes in the FIFO.
TxNextNoEnd(k) ==
  IF k < len THEN StartWait /\ Goto("tx_room")
  ELSE Return("ok") /\ UNCHANGED <<times_out, polls>>

\* The head of the loop over the bytes, and the wait after it.
TxNext(k) == StartWait /\ Goto(IF k < len THEN "tx_room" ELSE "tx_end")

TxDir ==
  /\ pc = "tx_dir"
  /\ FmtWrite("TX")
  /\ TxNext(0)
  /\ UNCHANGED <<local, i, out, limit, history>>

TxRoom ==
  /\ pc = "tx_room"
  /\ Poll(~TxFull, Goto("tx_data") /\ UNCHANGED <<i, out>>)
  /\ UNCHANGED <<controller, local, history>>

TxData ==
  /\ pc = "tx_data"
  /\ TxWrite(Tag(i))
  /\ i' = i + 1
  /\ TxNext(i + 1)
  /\ UNCHANGED <<local, out, limit, history>>

\* nuspi waits until the controller is not busy, fespi for the watermark.
Sent == IF driver = "nuspi" THEN ~Busy ELSE Watermark

TxEnd ==
  /\ pc = "tx_end"
  /\ Poll(Sent, Return("ok") /\ UNCHANGED <<i, out>>)
  /\ UNCHANGED <<controller, local, history>>

-------------------------------------------------------------------------------
(* spi_rx                                                                  *)

\* Mutant: one byte too many.
RxNextOneMore(k) == IF k <= len THEN Goto("rx_zero") ELSE Return("ok")

RxNext(k) == IF k < len THEN Goto("rx_zero") ELSE Return("ok")

RxDir ==
  /\ pc = "rx_dir"
  /\ FmtWrite("RX")
  /\ RxNext(0)
  /\ UNCHANGED <<local, i, out, history>> /\ NoWait

RxZero ==
  /\ pc = "rx_zero"
  /\ TxWrite(Tag(i))
  /\ StartWait
  /\ Goto("rx_wait")
  /\ UNCHANGED <<local, i, out, limit, history>>

Store(word) ==
  /\ out' = Append(out, word)
  /\ i' = i + 1
  /\ RxNext(i + 1)

\* fespi polls RXDATA itself and stores the word of its last read; a wait
\* that ran out last read an empty FIFO.
Polled == IF times_out = 0 THEN NoTag ELSE RxWord

RxWait ==
  /\ pc = "rx_wait"
  /\ IF driver = "fespi" /\ times_out # 0 THEN RxRead ELSE UNCHANGED controller
  /\ Poll(~RxEmpty,
          IF driver = "fespi" THEN Store(Polled)
                              ELSE Goto("rx_data") /\ UNCHANGED <<i, out>>)
  /\ UNCHANGED <<local, history>>

RxData ==
  /\ pc = "rx_data"
  /\ RxRead
  /\ Store(RxWord)
  /\ UNCHANGED <<local, history>> /\ NoWait

-------------------------------------------------------------------------------
Steps ==
  \/ InitData \/ InitStatus \/ InitFctrl \/ InitFmt
  \/ TxDir \/ TxRoom \/ TxData \/ TxEnd
  \/ RxDir \/ RxZero \/ RxWait \/ RxData

Shift ==
  \/ /\ StartFrame
     /\ misfit' = (misfit \/ limit \/ Head(txfifo) # shifter')
     /\ UNCHANGED <<local, pc, i, times_out, out, ret, wire, polls, limit>>
  \/ /\ EndFrame
     /\ wire' = IF ~limit /\ shifter.tag[1] = turn THEN Append(wire, shifter.tag) ELSE wire
     /\ UNCHANGED <<local, pc, i, times_out, out, ret, polls, limit, misfit>>

Next == Call \/ spi_hw \/ spi_cs \/ Steps \/ Shift

\* A function that is called runs; the controller need not move at all.
FairSpec == Init /\ [][Next]_vars /\ WF_vars(Steps)

-------------------------------------------------------------------------------
(* Properties                                                              *)

InCall == pc # "idle"

\* The tags of this call that went out or are going out, and those it means.
Outgoing ==
  wire \o (IF shifter # NoFrame /\ shifter.tag[1] = turn THEN <<shifter.tag>> ELSE <<>>)
Meant == [k \in 1 .. len |-> <<turn, k - 1>>]

\* As long as every wait since the last clean start ended before its last
\* poll, a call that returns 0 sent its bytes, each once and in order (nuspi
\* to the end, fespi up to the byte on the wire), received the answers to
\* its own bytes and to no earlier ones, and leaves nothing in the FIFOs.
OkMeansDone ==
  ~InCall /\ ret = "ok" /\ ~limit =>
    /\ call # "init" => Outgoing = Meant
    /\ out = IF call = "rx" THEN Meant ELSE <<>>
    /\ txfifo = <<>> /\ rxfifo = <<>>
    /\ driver = "nuspi" => shifter = NoFrame

\* Every byte goes out in the direction and with the chip select mode its
\* call set, whatever is called next: spi_rx turns the direction, and spi_cs
\* ends the selection, only when no byte is left to start.
FramesAsWritten == ~limit => ~misfit

\* A controller that becomes ready before the last poll is not reported as
\* timed out.  (The converse fails: see README.)
EarlyIsNoError == ret = "error" => limit

\* Every call returns, even from a controller that stands still.
CallsReturn == InCall ~> ~InCall
===============================================================================
