----------------------------- MODULE SpiController -----------------------------
(***************************************************************************)
(* The SPI controller nuspi.c and fespi.c drive (external): two FIFOs, a   *)
(* shifter between them, and the registers FMT, CSMODE and FCTRL.          *)
(*                                                                         *)
(* A frame takes the direction and the chip select mode of the moment it   *)
(* leaves the FIFO; a frame of direction RX puts the device's answer into  *)
(* the receive FIFO.  While FCTRL gives the pins to the memory mapped      *)
(* flash, no frame leaves.  A byte written to a full FIFO is lost.         *)
(* The device answers each frame with the tag of that frame, so that the   *)
(* answers can be told apart.                                              *)
(***************************************************************************)
EXTENDS Naturals, Sequences

CONSTANTS TxDepth, RxDepth,   \* bytes the FIFOs hold
          TxMark              \* TXMARK: the watermark is pending below it

ASSUME SpiControllerAssumption ==
  {TxDepth, RxDepth, TxMark} \subseteq Nat \ {0}

VARIABLES txfifo,    \* the frames written: tag, and the terms of that moment
          shifter,   \* the frame on the wire, or NoFrame
          rxfifo,
          dir,       \* FMT.dir
          csmode,    \* CSMODE
          flashmode  \* FCTRL.en

controller == <<txfifo, shifter, rxfifo, dir, csmode, flashmode>>

\* A tag of no call.
NoTag == <<2, 0>>

NoFrame == [tag |-> NoTag, dir |-> "TX", cs |-> "auto"]

Frame(tag) == [tag |-> tag, dir |-> dir, cs |-> csmode]

ControllerTypeOK(tags) ==
  LET Frames == [tag : tags, dir : {"TX", "RX"}, cs : {"auto", "hold"}]
  IN  /\ txfifo \in Seq(Frames) /\ Len(txfifo) <= TxDepth
      /\ shifter \in Frames \cup {NoFrame}
      /\ rxfifo \in Seq(tags \cup {NoTag}) /\ Len(rxfifo) <= RxDepth
      /\ dir \in {"TX", "RX"} /\ csmode \in {"auto", "hold"} /\ flashmode \in BOOLEAN

\* A program that ran before may have left anything in the receive FIFO.
ControllerInit ==
  /\ txfifo = <<>> /\ shifter = NoFrame
  /\ \E n \in 0 .. RxDepth : rxfifo = [k \in 1 .. n |-> NoTag]
  /\ dir \in {"TX", "RX"}
  /\ csmode \in {"auto", "hold"}
  /\ flashmode \in BOOLEAN

TxFull    == Len(txfifo) = TxDepth
RxEmpty   == rxfifo = <<>>
Busy      == txfifo # <<>> \/ shifter # NoFrame
Watermark == Len(txfifo) < TxMark

\* What RXDATA returns, and takes out of the FIFO.
RxWord == IF RxEmpty THEN NoTag ELSE Head(rxfifo)
RxTail == IF RxEmpty THEN <<>> ELSE Tail(rxfifo)

TxWrite(tag) ==
  /\ txfifo' = IF TxFull THEN txfifo ELSE Append(txfifo, Frame(tag))
  /\ UNCHANGED <<shifter, rxfifo, dir, csmode, flashmode>>

RxRead ==
  /\ rxfifo' = RxTail
  /\ UNCHANGED <<txfifo, shifter, dir, csmode, flashmode>>

FmtWrite(d) ==
  /\ dir' = d
  /\ UNCHANGED <<txfifo, shifter, rxfifo, csmode, flashmode>>

CsmodeWrite(m) ==
  /\ csmode' = m
  /\ UNCHANGED <<txfifo, shifter, rxfifo, dir, flashmode>>

FctrlWrite(en) ==
  /\ flashmode' = en
  /\ UNCHANGED <<txfifo, shifter, rxfifo, dir, csmode>>

StartFrame ==
  /\ ~flashmode /\ shifter = NoFrame /\ txfifo # <<>>
  /\ shifter' = Frame(Head(txfifo).tag)
  /\ txfifo' = Tail(txfifo)
  /\ UNCHANGED <<rxfifo, dir, csmode, flashmode>>

EndFrame ==
  /\ shifter # NoFrame
  /\ shifter' = NoFrame
  /\ rxfifo' = IF shifter.dir = "RX" /\ Len(rxfifo) < RxDepth
               THEN Append(rxfifo, shifter.tag) ELSE rxfifo
  /\ UNCHANGED <<txfifo, dir, csmode, flashmode>>
===============================================================================
