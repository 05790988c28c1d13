--------------------------- MODULE FlashController ---------------------------
(***************************************************************************)
(* The SPI flash controller at FLASH_BASE and the flash behind it, as      *)
(* flash_erase, flash_write and flash_read use them.  The hardware is not  *)
(* in the repository; this module is what those functions rely on:         *)
(*  - COMD stays busy while a command is on the wire; WREN is over before  *)
(*    the next access arrives;                                             *)
(*  - INTS shows levels: a word in the receive FIFO, room in the transmit  *)
(*    FIFO; a program command whose words have not come stalls;            *)
(*  - the flash programs within one page, the address wrapping at its end, *)
(*    and can only clear bits; erasing and programming need the write      *)
(*    enable latch, go on after the command (WIP) and clear the latch.     *)
(***************************************************************************)
EXTENDS Naturals, Sequences

CONSTANTS WordBytes,     \* bytes in a word of WDATA and RDATA
          PageSize, SectorSize, MemSize,
          TxDepth, RxDepth

ASSUME FlashSizeAssumption ==
  /\ {WordBytes, PageSize, SectorSize, MemSize, TxDepth, RxDepth} \subseteq Nat \ {0}
  /\ PageSize % WordBytes = 0
  /\ SectorSize % PageSize = 0
  /\ MemSize % SectorSize = 0
  /\ TxDepth > 1

VARIABLES cache,      \* CTRL: the core may fetch from the flash
          comd,       \* the command on the wire
          addr, datn,
          txfifo, rxfifo,
          latched,    \* the bytes of the program command so far
          sent,       \* the bytes of the read command so far
          wel,        \* the write enable latch
          wip,        \* the operation the flash is busy with, and its data
          cells       \* what the flash holds

flash == <<cache, comd, addr, datn, txfifo, rxfifo, latched, sent, wel, wip, cells>>

Idle == "none"
NoWork == [op |-> Idle, at |-> 0, bytes |-> <<>>]
Cells == 0 .. MemSize - 1

\* Bytes are numbers; one that was programmed twice has lost bits.
Erased == 255
Worn == 0
Bytes == 0 .. 255
FlashWords == [1 .. WordBytes -> Bytes]

FlashTypeOK ==
  /\ cache \in BOOLEAN
  /\ comd \in {Idle, "SE", "PP", "RD", "RDSR"}
  /\ addr \in Nat /\ datn \in Nat
  /\ txfifo \in Seq(FlashWords) /\ Len(txfifo) <= TxDepth
  /\ rxfifo \in Seq(FlashWords) /\ Len(rxfifo) <= RxDepth
  /\ latched \in Seq(Bytes) /\ Len(latched) <= PageSize
  /\ sent \in 0 .. PageSize
  /\ wel \in BOOLEAN
  /\ wip \in [op : {Idle, "SE", "PP"}, at : Nat, bytes : Seq(Bytes)]
  /\ cells \in [Cells -> Bytes]

FlashInit ==
  /\ cache = TRUE
  /\ comd = Idle /\ addr = 0 /\ datn = 0
  /\ txfifo = <<>> /\ rxfifo = <<>>
  /\ latched = <<>> /\ sent = 0
  /\ wel = FALSE /\ wip = NoWork
  /\ cells = [a \in Cells |-> Erased]

-------------------------------------------------------------------------------
(* The registers                                                           *)

CtrlWrite(on) ==
  /\ cache' = on
  /\ UNCHANGED <<comd, addr, datn, txfifo, rxfifo, latched, sent, wel, wip, cells>>

AddrWrite(a) ==
  /\ addr' = a
  /\ UNCHANGED <<cache, comd, datn, txfifo, rxfifo, latched, sent, wel, wip, cells>>

DatnWrite(n) ==
  /\ datn' = n
  /\ UNCHANGED <<cache, comd, addr, txfifo, rxfifo, latched, sent, wel, wip, cells>>

\* A command for a controller that is busy is lost, and WREN for a flash
\* that is.
ComdWrite(c) ==
  /\ IF comd # Idle THEN UNCHANGED <<comd, wel, latched, sent>>
     ELSE IF c = "WREN"
     THEN /\ wel' = (wel \/ wip = NoWork)
          /\ UNCHANGED <<comd, latched, sent>>
     ELSE /\ comd' = c /\ latched' = <<>> /\ sent' = 0
          /\ UNCHANGED wel
  /\ UNCHANGED <<cache, addr, datn, txfifo, rxfifo, wip, cells>>

\* A word for a full FIFO is lost.
WdataWrite(w) ==
  /\ txfifo' = IF Len(txfifo) < TxDepth THEN Append(txfifo, w) ELSE txfifo
  /\ UNCHANGED <<cache, comd, addr, datn, rxfifo, latched, sent, wel, wip, cells>>

RdataRead ==
  /\ rxfifo' = IF rxfifo = <<>> THEN rxfifo ELSE Tail(rxfifo)
  /\ UNCHANGED <<cache, comd, addr, datn, txfifo, latched, sent, wel, wip, cells>>

Rdata == IF rxfifo = <<>> THEN [i \in 1 .. WordBytes |-> Worn] ELSE Head(rxfifo)
Received == rxfifo # <<>>
Room == Len(txfifo) < TxDepth - 1

-------------------------------------------------------------------------------
(* The controller and the flash at work                                    *)

Count == datn + 1

Prefix(s, n) == SubSeq(s, 1, IF n < Len(s) THEN n ELSE Len(s))

\* One word of a program command; with the last one the flash sets to work,
\* if it may.
TakeWord ==
  /\ comd = "PP" /\ txfifo # <<>>
  /\ LET bytes == Prefix(latched \o Head(txfifo), Count)
     IN  /\ latched' = bytes
         /\ comd' = IF Len(bytes) = Count THEN Idle ELSE "PP"
         /\ wip' = IF Len(bytes) = Count /\ wel /\ wip = NoWork
                   THEN [op |-> "PP", at |-> addr % MemSize, bytes |-> bytes] ELSE wip
  /\ txfifo' = Tail(txfifo)
  /\ UNCHANGED <<cache, addr, datn, rxfifo, sent, wel, cells>>

\* One word of a read command; a flash at work sends nothing useful.
SendWord ==
  /\ comd = "RD" /\ Len(rxfifo) < RxDepth
  /\ rxfifo' = Append(rxfifo, [i \in 1 .. WordBytes |->
                  IF wip = NoWork THEN cells[(addr + sent + i - 1) % MemSize] ELSE Worn])
  /\ sent' = sent + WordBytes
  /\ comd' = IF sent' >= Count THEN Idle ELSE "RD"
  /\ UNCHANGED <<cache, addr, datn, txfifo, latched, wel, wip, cells>>

\* The status; bit 0 is WIP.
SendStatus ==
  /\ comd = "RDSR" /\ Len(rxfifo) < RxDepth
  /\ rxfifo' = Append(rxfifo, [i \in 1 .. WordBytes |-> IF wip = NoWork THEN 0 ELSE 1])
  /\ comd' = Idle
  /\ UNCHANGED <<cache, addr, datn, txfifo, latched, sent, wel, wip, cells>>

StartErase ==
  /\ comd = "SE"
  /\ comd' = Idle
  /\ wip' = IF wel /\ wip = NoWork
            THEN [op |-> "SE", at |-> addr % MemSize, bytes |-> <<>>] ELSE wip
  /\ UNCHANGED <<cache, addr, datn, txfifo, rxfifo, latched, sent, wel, cells>>

Programmed(old, new) ==
  IF old = Erased THEN new
  ELSE IF new \in {old, Erased} THEN old ELSE Worn

PageOf(a) == a - (a % PageSize)

\* Byte k of what is programmed goes here.
Target(k) == PageOf(wip.at) + ((wip.at + k - 1) % PageSize)

Erasing(a) == wip.op = "SE" /\ a \div SectorSize = wip.at \div SectorSize

Byte(a) == {k \in DOMAIN wip.bytes : wip.op = "PP" /\ Target(k) = a}

FinishArray ==
  /\ wip # NoWork
  /\ wip' = NoWork /\ wel' = FALSE
  /\ cells' = [a \in Cells |->
       IF Erasing(a) THEN Erased
       ELSE IF Byte(a) = {} THEN cells[a]
       ELSE Programmed(cells[a], wip.bytes[CHOOSE k \in Byte(a) : TRUE])]
  /\ UNCHANGED <<cache, comd, addr, datn, txfifo, rxfifo, latched, sent>>

===============================================================================
