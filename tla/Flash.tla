--------------------------------- MODULE Flash ---------------------------------
(***************************************************************************)
(* flash_init, flash_erase, flash_write and flash_read: one caller, one    *)
(* call at a time, one action per register access.                         *)
(*                                                                         *)
(* Three programs drive the same controller.  jtag_function.c reaches its  *)
(* registers with write_memory and read_memory on the system bus and looks *)
(* at no error they return; JTAG-Flash/custom-flash.c and the copy in      *)
(* openflashloader-main run on the core, behind loader_main, where an      *)
(* access cannot fail.  A link that fails stays failed (SysBus), and       *)
(* read_memory then leaves 0 in its result.                                *)
(***************************************************************************)
EXTENDS FlashController

CONSTANTS Programs,      \* which of the three programs runs
          Requests,      \* the calls their callers make
          Buffer(_),     \* the bytes of the buffer a write is given
          FillWords,     \* the words put into the FIFO before the command
          MaxSectors,    \* the most sectors an erase may ask for
          UintRange,     \* 2^32, what an address difference wraps at
          LinkFaults,    \* an access over JTAG may fail
          NoCall

Loaders == {"custom_flash", "openflashloader"}

ASSUME FlashAssumption ==
  /\ Programs \subseteq {"jtag_function"} \cup Loaders
  /\ {FillWords, MaxSectors, UintRange} \subseteq Nat \ {0}
  /\ FillWords <= TxDepth
  /\ LinkFaults \in BOOLEAN
  /\ \A j \in Cells : Buffer(j) \in Bytes

\* Addresses and counts are 32 bits wide.
Uint == 0 .. UintRange - 1

ASSUME RequestsAssumption ==
  \A r \in Requests :
    /\ r.f \in {"init", "unknown", "erase", "write", "read"}
    /\ r.f = "erase" => {r.from, r.to} \subseteq Uint
    /\ r.f \in {"write", "read"} => {r.offset, r.count} \subseteq Uint /\ r.aligned \in BOOLEAN

VARIABLES program,
          pc,       \* the access the call makes next
          req,      \* the arguments of the call
          done,     \* the bytes of it the pages and sectors before came to
          i,        \* the words of the page so far
          wipbit,   \* bit 0 of wip
          out,      \* the caller's buffer, of a read
          ret,
          link,
          asked,    \* history: the cells the call may change, and, on a dead
                    \* link, those the calls before it might
          before,   \* history: the flash when the call began, or the first of them
          units,    \* history: the sectors or pages of it the flash has finished
          late      \* history: the one an earlier call left the flash at work on

driver == <<program, pc, req, done, i, wipbit, out, ret, link, asked, before, units, late>>
vars == <<flash, driver>>

Pcs == {"idle", "init", "clear_first", "off", "on",
        "e_wren", "e_addr", "e_comd",
        "w_fill", "w_addr", "w_datn", "w_wren", "w_comd", "w_room", "w_data",
        "r_addr", "r_datn", "r_comd", "r_wait", "r_data",
        "busy", "clear", "rdsr", "status", "rdata", "clear_again"}

TypeOK ==
  /\ FlashTypeOK
  /\ program \in Programs
  /\ pc \in Pcs
  /\ req \in Requests
  /\ done \in 0 .. UintRange
  /\ i \in 0 .. PageSize \div WordBytes
  /\ wipbit \in BOOLEAN
  /\ out \in [Cells -> Bytes]
  /\ ret \in {"none", "ok", "error"}
  /\ link \in {"up", "down"}
  /\ asked \subseteq Cells
  /\ before \in [Cells -> Bytes]
  /\ units \in Nat

\* What the caller's buffer holds before a read.
Untouched == 254
NoData == [a \in Cells |-> Untouched]

Init ==
  /\ FlashInit
  /\ program \in Programs
  /\ pc = "idle" /\ req \in Requests
  /\ done = 0 /\ i = 0 /\ wipbit = TRUE /\ out = NoData
  /\ ret = "none" /\ link = "up" /\ asked = {} /\ before = cells
  /\ units = 0 /\ late = NoCall

-------------------------------------------------------------------------------
(* One write_memory, one read_memory, or one load or store of the core     *)

Breaks == LinkFaults /\ program = "jtag_function" /\ link = "up" /\ link' = "down"
Dead   == link = "down" /\ UNCHANGED <<flash, link>>

\* The result is not looked at, so whatever happens the call goes on.
Store(effect) ==
  \/ link = "up" /\ effect /\ UNCHANGED link
  \/ Breaks /\ (effect \/ UNCHANGED flash)
  \/ Dead

\* The word arrives, perhaps by the last access the link carries ...
Loaded(effect) ==
  /\ link = "up" /\ effect
  /\ UNCHANGED link \/ Breaks

\* ... or does not, and is 0.
LoadedZero(effect) ==
  \/ Breaks /\ (effect \/ UNCHANGED flash)
  \/ Dead

Rest == UNCHANGED <<program, req, out, asked, before, units, late>>
Goto(next) == pc' = next /\ UNCHANGED ret

-------------------------------------------------------------------------------
(* What a call comes to                                                    *)

\* (end_addr - start_addr + FLASH_SECTOR_SIZE - 1) / FLASH_SECTOR_SIZE
Sectors(r) == ((UintRange + r.to + SectorSize - 1 - r.from) % UintRange) \div SectorSize

Refused(r) ==
  CASE r.f = "erase" -> \/ r.from % SectorSize # 0
                        \/ program # "openflashloader" /\ Sectors(r) > MaxSectors
    [] r.f = "write" -> program = "openflashloader" /\ ~r.aligned
    [] r.f = "read"  -> ~r.aligned \/ r.offset % WordBytes # 0
    [] OTHER         -> r.f = "unknown"

\* A caller means a part of the flash; but the erase of openflashloader has
\* no limit, and an end before the start takes it round the whole flash.
Asks(r) ==
  \/ Refused(r) /\ (r.f = "unknown" => program \in Loaders)
  \/ r.f = "init"
  \/ /\ r.f = "erase"
     /\ program = "openflashloader" \/ r.from + Sectors(r) * SectorSize <= MemSize
  \/ r.f \in {"write", "read"} /\ r.offset + r.count <= MemSize

\* Mutant: every page but the first begins where the first one did.
PageBytesSkewed(d) ==
  LET cur == req.offset % PageSize
      left == req.count - d
  IN  IF cur + left >= PageSize THEN PageSize - cur ELSE left

\* Mutant: the end of the page is not looked at.
PageBytesUncut(d) ==
  IF req.count - d > PageSize THEN PageSize ELSE req.count - d

\* cur_count of a write after d bytes: up to the end of the page.
PageBytes(d) ==
  LET cur == IF d = 0 THEN req.offset % PageSize ELSE 0
      left == req.count - d
  IN  IF cur + left >= PageSize THEN PageSize - cur ELSE left

\* cur_count of a read.
ReadBytes(d) == IF req.count - d > PageSize THEN PageSize ELSE req.count - d

\* The call as FlashStore knows it.
Asking(r) ==
  CASE r.f = "erase" -> [op |-> "erase", at |-> r.from, count |-> Sectors(r)]
    [] r.f \in {"write", "read"} -> [op |-> r.f, at |-> r.offset, count |-> r.count]
    [] OTHER -> [op |-> "init", at |-> 0, count |-> 0]

ASSUME NoCallAssumption ==
  /\ NoCall \notin {Asking(r) : r \in Requests}
  /\ NoCall \notin [call : {Asking(r) : r \in Requests}, unit : Nat]

Unit == CASE req.f = "erase" -> SectorSize
          [] req.f = "write" -> PageBytes(done)
          [] OTHER           -> ReadBytes(done)

Total == IF req.f = "erase" THEN Sectors(req) * SectorSize ELSE req.count

PageWords == Unit \div WordBytes

\* Mutant: a word more than the bytes need.
ReadWordsOneMore == Unit \div WordBytes + 1

ReadWords == (Unit + WordBytes - 1) \div WordBytes

BufferWord(k) == [b \in 1 .. WordBytes |-> Buffer(done + WordBytes * k + b - 1)]

\* Where the turn of the loop that begins after d bytes starts.
FirstAccess(d) ==
  CASE req.f = "erase" -> "e_wren"
    [] req.f = "read"  -> "r_addr"
    [] OTHER           -> IF PageBytes(d) < WordBytes THEN "w_addr" ELSE "w_fill"

\* The head of the loop over sectors or pages.
NextUnit(d) ==
  /\ done' = d /\ i' = 0
  /\ Goto(IF d >= Total THEN "on" ELSE FirstAccess(d))

\* The cells a call may change.
Region(r) ==
  IF Refused(r) THEN {}
  ELSE CASE r.f = "erase" -> {a % MemSize : a \in r.from .. r.from + Sectors(r) * SectorSize - 1}
         [] r.f = "write" -> r.offset .. r.offset + r.count - 1
         [] OTHER         -> {}

-------------------------------------------------------------------------------
(* The call, and what the functions share                                  *)

Call(r) ==
  /\ pc = "idle" /\ Asks(r)
  /\ req' = r /\ done' = 0 /\ i' = 0 /\ wipbit' = TRUE /\ out' = NoData
  /\ asked' = IF link = "up" THEN Region(r) ELSE asked \cup Region(r)
  /\ before' = IF link = "up" THEN cells ELSE before
  /\ IF Refused(r) THEN pc' = "idle" /\ ret' = "error"
     ELSE /\ ret' = "none"
          /\ pc' = CASE r.f = "init" -> "init"
                     [] r.f = "erase" /\ program # "openflashloader" -> "clear_first"
                     [] OTHER -> "off"
  /\ units' = 0
  /\ UNCHANGED <<flash, program, link, late>>

Initialise ==
  /\ pc = "init"
  /\ Store(UNCHANGED flash)
  /\ pc' = "idle" /\ ret' = "ok"
  /\ Rest /\ UNCHANGED <<done, i, wipbit>>

\* Writing all ones to INTS: the levels stay as they are.
ClearInts ==
  /\ \/ pc = "clear_first" /\ Goto("off") /\ UNCHANGED <<done, i>>
     \/ pc = "clear" /\ Goto("rdsr") /\ UNCHANGED <<done, i>>
     \/ pc = "clear_again" /\ wipbit /\ Goto("rdsr") /\ UNCHANGED <<done, i>>
     \/ pc = "clear_again" /\ ~wipbit /\ NextUnit(done + Unit)
  /\ Store(UNCHANGED flash)
  /\ Rest /\ UNCHANGED wipbit

CacheOff ==
  /\ pc = "off"
  /\ Store(CtrlWrite(FALSE))
  /\ NextUnit(0)
  /\ Rest /\ UNCHANGED wipbit

CacheOn ==
  /\ pc = "on"
  /\ Store(CtrlWrite(TRUE))
  /\ pc' = "idle" /\ ret' = "ok"
  /\ late' = IF wip # NoWork /\ late = NoCall
             THEN [call |-> Asking(req), unit |-> units] ELSE late
  /\ UNCHANGED <<program, req, out, asked, before, units, done, i, wipbit>>

\* Mutant: the end of the command is taken for the end of the operation.
WaitCommandOnly ==
  /\ pc = "busy"
  /\ \/ Loaded(UNCHANGED flash)
        /\ IF comd # Idle THEN Goto(pc) /\ UNCHANGED <<done, i>> ELSE NextUnit(done + Unit)
     \/ LoadedZero(UNCHANGED flash) /\ NextUnit(done + Unit)
  /\ Rest /\ UNCHANGED wipbit

\* while(rdata & 0x80000000), then wip = 1
WaitCommand ==
  /\ pc = "busy"
  /\ \/ Loaded(UNCHANGED flash) /\ Goto(IF comd # Idle THEN "busy" ELSE "clear")
     \/ LoadedZero(UNCHANGED flash) /\ Goto("clear")
  /\ wipbit' = IF pc' = "clear" THEN TRUE ELSE wipbit
  /\ Rest /\ UNCHANGED <<done, i>>

AskStatus ==
  /\ pc = "rdsr"
  /\ Store(ComdWrite("RDSR"))
  /\ Goto("status")
  /\ Rest /\ UNCHANGED <<done, i, wipbit>>

\* while((temp & 0x4) == 0): for ever, if the link is dead.
WaitReceived ==
  /\ \/ pc = "status" /\ Goto(IF Received THEN "rdata" ELSE "status")
     \/ pc = "r_wait" /\ Goto(IF Received THEN "r_data" ELSE "r_wait")
  /\ Loaded(UNCHANGED flash)
  /\ Rest /\ UNCHANGED <<done, i, wipbit>>

WaitReceivedZero ==
  /\ pc \in {"status", "r_wait", "w_room"}
  /\ LoadedZero(UNCHANGED flash)
  /\ Goto(pc)
  /\ Rest /\ UNCHANGED <<done, i, wipbit>>

ReadStatus ==
  /\ pc = "rdata"
  /\ \/ Loaded(RdataRead) /\ wipbit' = (Rdata[1] % 2 = 1)
     \/ LoadedZero(RdataRead) /\ wipbit' = FALSE
  /\ Goto("clear_again")
  /\ Rest /\ UNCHANGED <<done, i>>

-------------------------------------------------------------------------------
(* flash_erase                                                             *)

EraseEnable ==
  /\ pc = "e_wren"
  /\ Store(ComdWrite("WREN"))
  /\ Goto("e_addr")
  /\ Rest /\ UNCHANGED <<done, i, wipbit>>

\* Mutant: the sectors before are not added.
EraseAddressFirst ==
  /\ pc = "e_addr"
  /\ Store(AddrWrite(req.from))
  /\ Goto("e_comd")
  /\ Rest /\ UNCHANGED <<done, i, wipbit>>

EraseAddress ==
  /\ pc = "e_addr"
  /\ Store(AddrWrite(req.from + done))
  /\ Goto("e_comd")
  /\ Rest /\ UNCHANGED <<done, i, wipbit>>

EraseCommand ==
  /\ pc = "e_comd"
  /\ Store(ComdWrite("SE"))
  /\ Goto("busy")
  /\ Rest /\ UNCHANGED <<done, i, wipbit>>

-------------------------------------------------------------------------------
(* flash_write                                                             *)

\* for(i=0;i<4 && i<cur_count/4;i++)
WriteFill ==
  /\ pc = "w_fill"
  /\ Store(WdataWrite(BufferWord(i)))
  /\ i' = i + 1
  /\ Goto(IF i' < FillWords /\ i' < PageWords THEN "w_fill" ELSE "w_addr")
  /\ Rest /\ UNCHANGED <<done, wipbit>>

WriteAddress ==
  /\ pc = "w_addr"
  /\ Store(AddrWrite(req.offset + done))
  /\ Goto("w_datn")
  /\ Rest /\ UNCHANGED <<done, i, wipbit>>

WriteLength ==
  /\ pc = "w_datn"
  /\ Store(DatnWrite(Unit - 1))
  /\ Goto("w_wren")
  /\ Rest /\ UNCHANGED <<done, i, wipbit>>

WriteEnable ==
  /\ pc = "w_wren"
  /\ Store(ComdWrite("WREN"))
  /\ Goto("w_comd")
  /\ Rest /\ UNCHANGED <<done, i, wipbit>>

\* Mutant: the rest of the words goes out without waiting for room.
MoreWordsAtOnce(k) == IF k < PageWords THEN "w_data" ELSE "busy"

\* Mutant: one word too many.
MoreWordsOneMore(k) == IF k <= PageWords THEN "w_room" ELSE "busy"

\* for(;i<cur_count/4;i++)
MoreWords(k) == IF k < PageWords THEN "w_room" ELSE "busy"

WriteCommand ==
  /\ pc = "w_comd"
  /\ Store(ComdWrite("PP"))
  /\ Goto(MoreWords(i))
  /\ Rest /\ UNCHANGED <<done, i, wipbit>>

WaitRoom ==
  /\ pc = "w_room"
  /\ Loaded(UNCHANGED flash)
  /\ Goto(IF Room THEN "w_data" ELSE "w_room")
  /\ Rest /\ UNCHANGED <<done, i, wipbit>>

WriteWord ==
  /\ pc = "w_data"
  /\ Store(WdataWrite(BufferWord(i)))
  /\ i' = i + 1
  /\ Goto(MoreWords(i'))
  /\ Rest /\ UNCHANGED <<done, wipbit>>

-------------------------------------------------------------------------------
(* flash_read                                                              *)

ReadAddress ==
  /\ pc = "r_addr"
  /\ Store(AddrWrite(req.offset + done))
  /\ Goto("r_datn")
  /\ Rest /\ UNCHANGED <<done, i, wipbit>>

ReadLength ==
  /\ pc = "r_datn"
  /\ Store(DatnWrite(ReadWords * WordBytes - 1))
  /\ Goto("r_comd")
  /\ Rest /\ UNCHANGED <<done, i, wipbit>>

ReadCommand ==
  /\ pc = "r_comd"
  /\ Store(ComdWrite("RD"))
  /\ Goto("r_wait")
  /\ Rest /\ UNCHANGED <<done, i, wipbit>>

\* buf_int[i] = ...: whole words, whatever is left of count.
Filled(w) ==
  [a \in Cells |-> IF a >= done /\ (a - done) \div WordBytes = i
                   THEN w[((a - done) % WordBytes) + 1] ELSE out[a]]

ReadWord ==
  /\ pc = "r_data"
  /\ \/ Loaded(RdataRead) /\ out' = Filled(Rdata)
     \/ LoadedZero(RdataRead) /\ out' = Filled([b \in 1 .. WordBytes |-> 0])
  /\ IF i + 1 < ReadWords THEN i' = i + 1 /\ Goto("r_wait") /\ UNCHANGED done
                          ELSE NextUnit(done + Unit)
  /\ UNCHANGED <<program, req, asked, before, units, late, wipbit>>

-------------------------------------------------------------------------------
Shared ==
  \/ Initialise \/ ClearInts \/ CacheOff \/ CacheOn
  \/ WaitCommand \/ AskStatus \/ WaitReceived \/ WaitReceivedZero \/ ReadStatus

flash_erase == EraseEnable \/ EraseAddress \/ EraseCommand

flash_write ==
  \/ WriteFill \/ WriteAddress \/ WriteLength \/ WriteEnable \/ WriteCommand
  \/ WaitRoom \/ WriteWord

flash_read == ReadAddress \/ ReadLength \/ ReadCommand \/ ReadWord

Steps == Shared \/ flash_erase \/ flash_write \/ flash_read

Wire == (TakeWord \/ SendWord \/ SendStatus \/ StartErase) /\ UNCHANGED driver
Array ==
  /\ FinishArray
  /\ IF late = NoCall THEN units' = units + 1 /\ UNCHANGED late
                      ELSE late' = NoCall /\ UNCHANGED units
  /\ UNCHANGED <<program, pc, req, done, i, wipbit, out, ret, link, asked, before>>

Next == (\E r \in Requests : Call(r)) \/ Steps \/ Wire \/ Array

Spec == Init /\ [][Next]_vars

\* A function that is called runs; commands and operations of the flash come
\* to an end.
FairSpec == Spec /\ WF_vars(Steps) /\ WF_vars(Wire) /\ WF_vars(Array)

-------------------------------------------------------------------------------
(* Properties                                                              *)

InCall == pc # "idle"

\* A call that returns 0 over a link that works did its work: the sectors
\* are erased, erased cells hold the bytes of the buffer, the buffer holds
\* the bytes of the flash; and the controller and the flash are at rest, so
\* that the next call finds them as this one did.
OkMeansDone ==
  ~InCall /\ ret = "ok" /\ link = "up" =>
    /\ comd = Idle /\ wip = NoWork /\ cache
    /\ txfifo = <<>> /\ rxfifo = <<>>
    /\ req.f = "erase" => \A a \in Region(req) : cells[a] = Erased
    /\ req.f = "write" => \A a \in Region(req) :
         before[a] = Erased => cells[a] = Buffer(a - req.offset)
    /\ req.f = "read" => \A k \in 0 .. req.count - 1 : out[k] = cells[req.offset + k]

\* Nothing but what the call names is changed, at any moment, wherever the
\* link fails and whatever is called after that; nothing at all by a call
\* that is refused.
OutsideUntouched == \A a \in Cells \ asked : cells[a] = before[a]

\* The core fetches nothing from a flash that is at work.
CacheOffAtWork == comd # Idle \/ wip # NoWork => ~cache

\* A read stores whole words, so it may run past the end of the buffer; but
\* never by a word, wherever the link fails.
BufferKept ==
  req.f = "read" =>
    \A k \in Cells : k >= req.count + WordBytes - 1 => out[k] = Untouched

\* A write whose pages are whole words.  Of others the last part of a word is
\* never sent, and the program command waits for it for ever.
Whole(r) == r.f = "write" => r.offset % WordBytes = 0 /\ r.count % WordBytes = 0

\* Every call returns, unless the link fails or a part of a word is to be
\* written.
CallsReturn == InCall /\ Whole(req) ~> (~InCall \/ link = "down")

\* The calls are those of FlashStore: sectors and pages change in order, each
\* whole and once, and a link that breaks leaves at most one under way.
Flashed == INSTANCE FlashStore WITH
  call   <- IF InCall THEN Asking(req) ELSE NoCall,
  units  <- IF InCall THEN units ELSE 0,
  reply  <- ret,
  result <- IF ~InCall /\ ret = "ok" /\ req.f = "read"
            THEN [k \in 0 .. req.count - 1 |-> out[k]] ELSE <<>>

StoreSpec == Flashed!Spec
===============================================================================
