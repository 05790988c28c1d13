------------------------------- MODULE CJtagTap -------------------------------
(***************************************************************************)
(* The debug port of the chip: an IEEE 1149.1 TAP behind an IEEE 1149.7    *)
(* adapter, as send_tms_tdi, send_dr and switch_jtag2cjtag use it.  The    *)
(* hardware is not in the repository; this module is what those functions  *)
(* rely on:                                                                *)
(*  - the TAP moves on a rising edge of TCK, in the two-wire format        *)
(*    OScan1 on the last of three: ~TDI, TMS, TDO;                         *)
(*  - eight or more edges of TMS under a high TCK are the reset escape;    *)
(*  - after two scans without a shift the next scan that shifts locks the  *)
(*    control level, where pairs of scans are a command, told by how long  *)
(*    they shift; an instruction scan or Test-Logic-Reset ends the level;  *)
(*  - 3, 9 selects OScan1, 9, 0 makes the next scan a control register     *)
(*    read; both end with a check packet of four clocks in Run-Test/Idle.  *)
(* Bits of a register stand in the order they are shifted.  A chip may     *)
(* also lack the adapter, or have it switched off: it then takes every     *)
(* rising edge for a clock of the TAP and never drives TMS.                *)
(***************************************************************************)
EXTENDS Naturals, Sequences

CONSTANTS DmiWidth,        \* the DMI register: 41
          ReadWidth,       \* DTMCS, and what a control register read shifts: 32
          DmiCode, DtmcsCode,   \* instructions
          Rdback, Dtmcs,   \* what the two registers of ReadWidth bits hold
          Remains          \* what a scan that was cut off leaves in the register

Bit == {0, 1}

ASSUME TapAssumption ==
  /\ DmiWidth \in Nat /\ ReadWidth \in Nat
  /\ {Rdback, Dtmcs} \subseteq [1 .. ReadWidth -> Bit]
  /\ Remains \subseteq [1 .. DmiWidth -> Bit]
  /\ {DmiCode, DtmcsCode} \subseteq [1 .. 5 -> Bit]

\* Where a clock with TMS low or high leads.
OnLow ==
  [TEST_LOGIC_RESET |-> "RUN_TEST_IDLE", RUN_TEST_IDLE  |-> "RUN_TEST_IDLE",
   SELECT_DR_SCAN   |-> "CAPTURE_DR",    SELECT_IR_SCAN |-> "CAPTURE_IR",
   CAPTURE_DR       |-> "SHIFT_DR",      CAPTURE_IR     |-> "SHIFT_IR",
   SHIFT_DR         |-> "SHIFT_DR",      SHIFT_IR       |-> "SHIFT_IR",
   EXIT1_DR         |-> "PAUSE_DR",      EXIT1_IR       |-> "PAUSE_IR",
   PAUSE_DR         |-> "PAUSE_DR",      PAUSE_IR       |-> "PAUSE_IR",
   EXIT2_DR         |-> "SHIFT_DR",      EXIT2_IR       |-> "SHIFT_IR",
   UPDATE_DR        |-> "RUN_TEST_IDLE", UPDATE_IR      |-> "RUN_TEST_IDLE"]

OnHigh ==
  [TEST_LOGIC_RESET |-> "TEST_LOGIC_RESET", RUN_TEST_IDLE |-> "SELECT_DR_SCAN",
   SELECT_DR_SCAN   |-> "SELECT_IR_SCAN",   SELECT_IR_SCAN |-> "TEST_LOGIC_RESET",
   CAPTURE_DR       |-> "EXIT1_DR",         CAPTURE_IR     |-> "EXIT1_IR",
   SHIFT_DR         |-> "EXIT1_DR",         SHIFT_IR       |-> "EXIT1_IR",
   EXIT1_DR         |-> "UPDATE_DR",        EXIT1_IR       |-> "UPDATE_IR",
   PAUSE_DR         |-> "EXIT2_DR",         PAUSE_IR       |-> "EXIT2_IR",
   EXIT2_DR         |-> "UPDATE_DR",        EXIT2_IR       |-> "UPDATE_IR",
   UPDATE_DR        |-> "SELECT_DR_SCAN",   UPDATE_IR      |-> "SELECT_DR_SCAN"]

TapStates == DOMAIN OnLow
TapNext(s, tms) == IF tms = 1 THEN OnHigh[s] ELSE OnLow[s]

IdcodeCode == <<1, 0, 0, 0, 0>>
Formats == {"four_wire", "oscan1"}

(* The chip is a record:                                                   *)
(*   adapter           whether there is one                                *)
(*   tap, ir, isr, sr  the state, the instruction, the two shift registers *)
(*   cap               what the last Capture-DR put into sr                *)
(*   answer            what the DMI register captures next                 *)
(*   fmt, slot         the format, and the clock within its packet         *)
(*   ntdi, ptms        the bits of the packet so far                       *)
(*   zbs, level        empty scans so far; whether the level is locked     *)
(*   shifts, part      clocks in Shift-DR of this scan; the command's      *)
(*                     first scan, NoPart before it                        *)
(*   reading           the next scan reads the control register            *)
(*   ends, check       the format after the check packet; its clocks left  *)
NoPart == 99
MaxShifts == DmiWidth + 1   \* a bound of the model; no command is this long

-------------------------------------------------------------------------------
(* The TAP                                                                 *)

Captured(c) ==
  IF c.reading THEN Rdback
  ELSE CASE c.level = "data" /\ c.ir = DmiCode   -> c.answer
         [] c.level = "data" /\ c.ir = DtmcsCode -> Dtmcs
         [] OTHER                                -> <<0>>

\* One clock of the TAP.
TapClock(c, tms, tdi) ==
  LET s == c.tap
      dr == IF s = "CAPTURE_DR" THEN Captured(c) ELSE c.sr
  IN  [c EXCEPT
        !.tap = TapNext(s, tms),
        !.isr = CASE s = "CAPTURE_IR" -> IdcodeCode
                  [] s = "SHIFT_IR"   -> Append(Tail(@), tdi)
                  [] OTHER            -> @,
        !.sr  = IF s = "SHIFT_DR" THEN Append(Tail(@), tdi) ELSE dr,
        !.cap = IF s = "CAPTURE_DR" THEN dr ELSE @,
        !.ir  = CASE s = "UPDATE_IR" -> c.isr
                  [] s = "TEST_LOGIC_RESET" -> IdcodeCode
                  [] OTHER           -> @,
        !.shifts = CASE s = "CAPTURE_DR" -> 0
                     [] s = "SHIFT_DR" /\ @ < MaxShifts -> @ + 1
                     [] OTHER            -> @]

\* A scan ends at the data level ...
DataScan(c) ==
  IF c.shifts = 0 THEN [c EXCEPT !.zbs = IF @ < 2 THEN @ + 1 ELSE @]
  ELSE [c EXCEPT !.zbs = 0, !.part = NoPart,
                 !.level = IF c.zbs = 2 THEN "control" ELSE "data"]

\* ... or at the control level: a register read, the first scan of a command,
\* or its second.
ControlScan(c) ==
  IF c.reading THEN [c EXCEPT !.reading = FALSE, !.ends = c.fmt]
  ELSE IF c.part = NoPart THEN [c EXCEPT !.part = c.shifts]
  ELSE [c EXCEPT !.part = NoPart,
                 !.reading = (c.part = 9 /\ c.shifts = 0),
                 !.ends = IF c.part = 3 /\ c.shifts = 9 THEN "oscan1" ELSE @]

\* The adapter follows the TAP: what a scan that ends, an instruction scan,
\* a reset, or Run-Test/Idle means to it.
Followed(c) ==
  CASE c.tap = "UPDATE_DR" -> IF c.level = "data" THEN DataScan(c) ELSE ControlScan(c)
    [] c.tap \in {"SELECT_IR_SCAN", "TEST_LOGIC_RESET"} ->
         [c EXCEPT !.zbs = 0, !.level = "data", !.part = NoPart,
                   !.reading = FALSE, !.ends = "none"]
    [] c.tap = "RUN_TEST_IDLE" /\ c.ends # "none" ->
         [c EXCEPT !.check = 4]
    [] OTHER -> c

-------------------------------------------------------------------------------
(* The pins                                                                *)

\* What the chip drives while TCK is low before a clock.
Tdo(c) == IF c.tap = "SHIFT_DR" THEN c.sr[1] ELSE 1

\* A rising edge of TCK.
Rise(c, tms, tdi) ==
  CASE ~c.adapter -> TapClock(c, tms, tdi)
    [] c.adapter /\ c.check > 1 -> [c EXCEPT !.check = @ - 1]
    [] c.adapter /\ c.check = 1 -> [c EXCEPT !.check = 0, !.fmt = c.ends, !.ends = "none", !.slot = 0]
    [] c.adapter /\ c.check = 0 /\ c.fmt = "four_wire" -> Followed(TapClock(c, tms, tdi))
    [] c.adapter /\ c.check = 0 /\ c.fmt = "oscan1" /\ c.slot = 0 -> [c EXCEPT !.ntdi = tms, !.slot = 1]
    [] c.adapter /\ c.check = 0 /\ c.fmt = "oscan1" /\ c.slot = 1 -> [c EXCEPT !.ptms = tms, !.slot = 2]
    [] OTHER -> Followed(TapClock([c EXCEPT !.slot = 0], c.ptms, 1 - c.ntdi))

\* Edges of TMS under a high TCK, then TCK falls.
Escape(c, edges) ==
  IF edges < 8 \/ ~c.adapter THEN c
  ELSE [c EXCEPT !.fmt = "four_wire", !.slot = 0, !.check = 0, !.ends = "none",
                 !.zbs = 0, !.level = "data", !.part = NoPart, !.reading = FALSE]

\* The chip after a reset, and wherever a stream of TMS bits may have left it.
Reset ==
  [adapter |-> TRUE, tap |-> "TEST_LOGIC_RESET", ir |-> IdcodeCode, isr |-> IdcodeCode,
   sr |-> <<0>>, cap |-> <<0>>, answer |-> [k \in 1 .. DmiWidth |-> 0],
   fmt |-> "four_wire", slot |-> 0, ntdi |-> 0, ptms |-> 0,
   zbs |-> 0, level |-> "data", shifts |-> 0, part |-> NoPart,
   reading |-> FALSE, ends |-> "none", check |-> 0]

\* A chip whose TAP is in state s with instruction code and r in the shift
\* register, and whose adapter is where a tells: in which format, within a
\* packet, within a command.
Found(s, code, r, a) ==
  [Reset EXCEPT !.tap = s, !.ir = code, !.sr = r,
                !.fmt = a.fmt, !.slot = a.slot, !.zbs = a.zbs, !.level = a.level,
                !.part = a.part, !.ends = a.ends,
                !.check = IF a.ends = "none" THEN 0 ELSE 2]

FoundWithout(s, code, r) ==
  [Reset EXCEPT !.adapter = FALSE, !.tap = s, !.ir = code, !.sr = r]

Midway(formats) ==
  [fmt : formats, slot : IF formats = {"four_wire"} THEN {0} ELSE 0 .. 2,
   zbs : {0, 2}, level : {"data", "control"}, part : {NoPart, 3},
   ends : IF formats = {"four_wire"} THEN {"none"} ELSE {"none", "oscan1"}]

Anywhere(formats) ==
  {Found(s, code, r, a) : s \in TapStates, code \in {IdcodeCode, DmiCode}, r \in Remains,
                          a \in Midway(formats)}

AnywhereWithout ==
  {FoundWithout(s, code, r) : s \in TapStates, code \in {IdcodeCode, DmiCode}, r \in Remains}
===============================================================================
