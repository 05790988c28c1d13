--------------------------------- MODULE Scan ---------------------------------
(***************************************************************************)
(* send_tms_tdi, the steps of the TAP, send_ir, send_dr, jtag_reset,       *)
(* switch_jtag2cjtag, and the register accesses above them down to the     *)
(* pins: one action per call of send_tms_tdi or send_tms, or bit of        *)
(* send_dr.  A function is the list of its pin operations; a call goes     *)
(* through its lists.  Each operation carries the state its function says  *)
(* the TAP enters.                                                         *)
(***************************************************************************)
EXTENDS CJtagTap

CONSTANTS Setups,          \* <<program, jtag_mode>>: "C" with 2 or 4, "SV" with 2
          RegNums, Words,  \* register numbers and words, as bits
          Answers          \* what the DMI register may capture

ASSUME ScanAssumption ==
  /\ Setups \subseteq {<<"C", 2>>, <<"C", 4>>, <<"SV", 2>>}
  /\ DmiWidth = 41 /\ ReadWidth = 32
  /\ RegNums \subseteq [1 .. 7 -> Bit] /\ Words \subseteq [1 .. 32 -> Bit]
  /\ Answers \subseteq [1 .. DmiWidth -> Bit]
  /\ DmiCode = <<1, 0, 0, 0, 1>> /\ DtmcsCode = <<0, 0, 0, 0, 1>>   \* 0x11, 0x10

VARIABLES setup,
          cjtag_mode,
          tck,        \* the pin, between operations
          chip,
          monitor,    \* tap_state of the bench
          call,       \* the call in progress
          phase,      \* the list it is in
          k,          \* the operations done of it
          at,         \* the state the last of them is named for
          temp,       \* temp_tdo_reg
          tdo,        \* tdo_reg
          timeout,
          ops         \* history: what Update-DR put into the DMI register

vars == <<setup, cjtag_mode, tck, chip, monitor, call, phase, k, at, temp, tdo,
          timeout, ops>>

program == setup[1]
jtag_mode == setup[2]

-------------------------------------------------------------------------------
(* Pin operations                                                          *)

Op(kind, t, d, state) == [kind |-> kind, tms |-> t, tdi |-> d, at |-> state]

Unnamed == "unnamed"
Tms(t, state) == Op("packet", t, 0, state)      \* send_tms_tdi(t, 0)
Raw(t)        == Op("raw", t, 0, Unnamed)           \* send_tms(t)
Times(n, op)  == [j \in 1 .. n |-> op]

-------------------------------------------------------------------------------
(* The steps                                                               *)

jtag_tlr_to_idle == <<Tms(0, "RUN_TEST_IDLE")>>
jtag_idle_to_sld == <<Tms(1, "SELECT_DR_SCAN")>>
jtag_sld_to_cdr  == <<Tms(0, "CAPTURE_DR")>>
jtag_cdr_to_sdr  == <<Tms(0, "SHIFT_DR")>>
jtag_sdr_to_sdr  == <<Tms(0, "SHIFT_DR")>>
jtag_sdr_to_e1d  == <<Tms(1, "EXIT1_DR")>>
jtag_cdr_to_e1d  == <<Tms(1, "EXIT1_DR")>>
jtag_e1d_to_udr  == <<Tms(1, "UPDATE_DR")>>
jtag_udr_to_sld  == <<Tms(1, "SELECT_DR_SCAN")>>
jtag_udr_to_idle == <<Tms(0, "RUN_TEST_IDLE")>>
jtag_sld_to_sli  == <<Tms(1, "SELECT_IR_SCAN")>>
jtag_sli_to_cir  == <<Tms(0, "CAPTURE_IR")>>
jtag_cir_to_sir  == <<Tms(0, "SHIFT_IR")>>
jtag_sir_to_e1i  == <<Tms(1, "EXIT1_IR")>>
jtag_e1i_to_uir  == <<Tms(1, "UPDATE_IR")>>
jtag_uir_to_idle == <<Tms(0, "RUN_TEST_IDLE")>>

\* From Exit1 of either branch.
jtag_exit_to_idle(update) == <<Tms(1, update), Tms(0, "RUN_TEST_IDLE")>>

jtag_idle_to_shift_ir ==
  <<Tms(1, "SELECT_DR_SCAN"), Tms(1, "SELECT_IR_SCAN"),
    Tms(0, "CAPTURE_IR"), Tms(0, "SHIFT_IR")>>

jtag_idle_to_shift_dr ==
  <<Tms(1, "SELECT_DR_SCAN"), Tms(0, "CAPTURE_DR"), Tms(0, "SHIFT_DR")>>

jtag_keep_in_idle(n) == Times(n, Tms(0, "RUN_TEST_IDLE"))

send_ir(code) ==
  [j \in 1 .. 5 |-> IF j < 5 THEN Op("packet", 0, code[j], "SHIFT_IR")
                             ELSE Op("packet", 1, code[j], "EXIT1_IR")]

Zeros == [low |-> Times(2, 0), mid |-> Times(32, 0), high |-> Times(7, 0)]

\* Mutant: the second part begins one bit late.
TdiBitLate(p, j) == CASE j <= 2 -> p.low[j]
                      [] j \in 3 .. 34 -> p.mid[IF j = 3 THEN 1 ELSE j - 3]
                      [] OTHER -> p.high[j - 34]

\* Bit j of the scan, from the three parts of JtagTestData.
TdiBit(p, j) == CASE j <= 2 -> p.low[j]
                  [] j \in 3 .. 34 -> p.mid[j - 2]
                  [] OTHER -> p.high[j - 34]

\* Mutant: the last bit does not leave Shift-DR.
send_drAllLow(p, size) ==
  [j \in 1 .. size |-> Op("bit", 0, TdiBit(p, j), IF j < size THEN "SHIFT_DR" ELSE "EXIT1_DR")]

send_dr(p, size) ==
  [j \in 1 .. size |-> IF j < size THEN Op("bit", 0, TdiBit(p, j), "SHIFT_DR")
                                   ELSE Op("bit", 1, TdiBit(p, j), "EXIT1_DR")]

\* temp_tdo_reg = {b, temp_tdo_reg[40:1]}, over the three parts.
ShiftIn(r, b) == [low  |-> Append(Tail(r.low), r.mid[1]),
                  mid  |-> Append(Tail(r.mid), r.high[1]),
                  high |-> Append(Tail(r.high), b)]

\* tdo_reg: the whole, or the upper 32 bits of it moved down.
Result(r, size) ==
  IF size = DmiWidth THEN r
  ELSE [low  |-> SubSeq(r.mid, 8, 9),
        mid  |-> SubSeq(r.mid, 10, 32) \o r.high \o Times(2, 0),
        high |-> Zeros.high]

\* Mutant: three clocks, which lead to Test-Logic-Reset from Idle only.
jtag_resetThree(s) ==
  Times(2, Tms(1, Unnamed)) \o
  (IF s = <<"C", 2>>
   THEN <<Tms(1, Unnamed), Op("high", 0, 0, Unnamed)>>
   ELSE <<Tms(1, "TEST_LOGIC_RESET"), Tms(0, "RUN_TEST_IDLE")>>)

\* Five clocks that lead to Test-Logic-Reset from anywhere in the format the
\* driver is in; the port with two wires then raises TCK itself.
jtag_reset(s) ==
  Times(4, Tms(1, Unnamed)) \o
  (IF s = <<"C", 2>>
   THEN <<Tms(1, Unnamed), Op("high", 0, 0, Unnamed)>>
   ELSE <<Tms(1, "TEST_LOGIC_RESET"), Tms(0, "RUN_TEST_IDLE")>>)

\* Mutant: the control level is not left.
quit_commandNone == <<>>

quit_command ==
  jtag_idle_to_sld \o jtag_sld_to_sli \o jtag_sli_to_cir \o jtag_cir_to_sir
  \o jtag_sir_to_e1i \o jtag_e1i_to_uir \o jtag_uir_to_idle

\* From Select-DR to Update-DR, with n clocks in Shift-DR.
dr_scan(n) ==
  jtag_sld_to_cdr
  \o (IF n = 0 THEN jtag_cdr_to_e1d
      ELSE jtag_cdr_to_sdr \o Times(n - 1, jtag_sdr_to_sdr[1]) \o jtag_sdr_to_e1d)
  \o jtag_e1d_to_udr

\* Mutant: the switch is skipped, and accesses go on with four wires.
switch_jtag2cjtagFour(s) ==
  <<Op("mode", 0, 0, Unnamed)>> \o jtag_reset(s) \o jtag_keep_in_idle(5)

switch_jtag2cjtag(s) ==
  <<Op("mode", 0, 0, Unnamed)>> \o jtag_reset(s)
  \o <<Op("escape", 0, IF s[1] = "C" THEN 15 ELSE 16, Unnamed)>>
  \o Times(50, Raw(1)) \o jtag_tlr_to_idle
  \* two scans without a shift, and one that shifts
  \o jtag_idle_to_sld \o dr_scan(0) \o jtag_udr_to_sld \o dr_scan(0)
  \o jtag_udr_to_sld \o dr_scan(1)
  \* cmd2, and its two parts
  \o jtag_udr_to_sld \o dr_scan(3) \o jtag_udr_to_sld \o dr_scan(9) \o jtag_udr_to_idle
  \o Times(4, Raw(0)) \o <<Op("mode", 1, 0, "RUN_TEST_IDLE")>>
  \* rdback0
  \o jtag_idle_to_sld \o dr_scan(9) \o jtag_udr_to_idle
  \o jtag_idle_to_sld \o dr_scan(0) \o jtag_udr_to_idle
  \o jtag_idle_to_sld \o jtag_sld_to_cdr \o jtag_cdr_to_sdr
  \o send_dr(Zeros, ReadWidth) \o jtag_e1d_to_udr \o jtag_udr_to_idle
  \o Times(4, Raw(0))
  \o quit_command
  \o jtag_keep_in_idle(5)

-------------------------------------------------------------------------------
(* The calls                                                               *)

NoCall == [f |-> "none"]
StartCall == [f |-> "start"]
Calls ==
  {StartCall}
    \cup [f : {"write"}, reg : RegNums, word : Words]
    \cup [f : {"read"}, reg : RegNums]
    \cup [f : {"dtm"}, word : Words]

\* {addr, data, op}: the operation goes first. Writes are 2, reads 1.
Asked(c) == IF c.f = "write" THEN [low |-> <<0, 1>>, mid |-> c.word, high |-> c.reg]
                             ELSE [low |-> <<1, 0>>, mid |-> Zeros.mid, high |-> c.reg]

Access(code, p, size) ==
  jtag_idle_to_shift_ir \o send_ir(code) \o jtag_exit_to_idle("UPDATE_IR")
  \o jtag_idle_to_shift_dr \o send_dr(p, size)

Leave == jtag_exit_to_idle("UPDATE_DR") \o jtag_keep_in_idle(10)
Fetch == Leave \o jtag_idle_to_shift_dr \o send_dr(Zeros, DmiWidth)

\* access_dtm_register: tdi_data from bit 2 on, in the low bits of the scan.
DtmData(w) == [low |-> SubSeq(w, 1, 2), mid |-> SubSeq(w, 3, 32) \o <<0, 0>>, high |-> Zeros.high]

Launch(s, c) ==
  CASE c.f = "start" ->
         (IF s[1] = "SV" THEN jtag_reset(s) ELSE <<>>)
         \o (IF s[2] = 4 THEN jtag_reset(s) ELSE switch_jtag2cjtag(s))
    [] c.f \in {"read", "write"} -> Access(DmiCode, Asked(c), DmiWidth)
    [] c.f = "dtm" -> Access(DtmcsCode, DtmData(c.word), ReadWidth)

\* The lists of every call, put together once.
Lists == [s \in Setups |-> [c \in Calls |->
            [launch |-> Launch(s, c),
             fetch  |-> IF c.f \in {"read", "write"} THEN Fetch ELSE <<>>,
             leave  |-> IF c.f = "start" THEN <<>> ELSE Leave]]]

list == Lists[setup][call][phase]
Size == IF call.f \in {"read", "write"} THEN DmiWidth ELSE ReadWidth

-------------------------------------------------------------------------------
(* The pins                                                                *)

\* The TDI line. The port with two wires never makes it an output, and a line
\* nobody drives is high; the others leave it low unless they send a bit.
TdiPin(level) == IF setup = <<"C", 2>> THEN 1 ELSE level

\* A pulse of TCK; with TCK high already nothing rises.
First(c, tms, tdi) == IF tck = 1 THEN c ELSE Rise(c, tms, tdi)

\* ~TDI and TMS of a packet.
OneClock(op) == First(chip, 1 - op.tdi, TdiPin(0))
TwoClocks(op) == Rise(OneClock(op), op.tms, TdiPin(0))

\* The level of TMS at the third clock: send_dr of the port lets it rise.
Third(op) == IF program = "C" /\ op.kind = "bit" THEN 1 ELSE 0

Pulsed(op) ==
  CASE op.kind = "mode"   -> chip
    [] op.kind = "escape" -> Escape(First(chip, 0, TdiPin(0)), op.tdi)
    [] op.kind \in {"raw", "high"} -> First(chip, op.tms, TdiPin(0))
    [] op.kind \in {"packet", "bit"} /\ ~cjtag_mode -> First(chip, op.tms, TdiPin(op.tdi))
    [] OTHER -> Rise(TwoClocks(op), Third(op), TdiPin(0))

\* The chip before the operation and after each of its clocks.
Along(op) ==
  IF op.kind \in {"packet", "bit"} /\ cjtag_mode
  THEN <<chip, OneClock(op), TwoClocks(op), Pulsed(op)>>
  ELSE <<chip, Pulsed(op)>>

\* Mutant: TDO is read after the clock.
SampledLate(op) == Tdo(Pulsed(op))

\* Mutant: TMS is still pulled low when it is read.
SampledHeldLow(op) ==
  IF ~cjtag_mode THEN Tdo(chip)
  ELSE LET c == TwoClocks(op)
       IN  IF c.fmt = "oscan1" /\ c.slot = 2 THEN Tdo(c) ELSE 0

\* tdo_in before the clock, tms_in before the third; a line nobody drives is
\* high.
Sampled(op) ==
  IF ~cjtag_mode THEN Tdo(chip)
  ELSE LET c == TwoClocks(op)
       IN  IF c.fmt = "oscan1" /\ c.slot = 2 THEN Tdo(c) ELSE 1

\* always @(posedge tck) of the bench
MonitorLow ==
  [TEST_LOGIC_RESET |-> "RUN_TEST_IDLE", RUN_TEST_IDLE |-> "RUN_TEST_IDLE",
   SELECT_DR_SCAN |-> "CAPTURE_DR", CAPTURE_DR |-> "SHIFT_DR", SHIFT_DR |-> "SHIFT_DR",
   EXIT1_DR |-> "PAUSE_DR", PAUSE_DR |-> "PAUSE_DR", EXIT2_DR |-> "CAPTURE_DR",
   UPDATE_DR |-> "RUN_TEST_IDLE",
   SELECT_IR_SCAN |-> "CAPTURE_IR", CAPTURE_IR |-> "SHIFT_IR", SHIFT_IR |-> "SHIFT_IR",
   EXIT1_IR |-> "PAUSE_IR", PAUSE_IR |-> "PAUSE_IR", EXIT2_IR |-> "SHIFT_IR",
   UPDATE_IR |-> "RUN_TEST_IDLE"]

MonitorHigh ==
  [TEST_LOGIC_RESET |-> "TEST_LOGIC_RESET", RUN_TEST_IDLE |-> "SELECT_DR_SCAN",
   SELECT_DR_SCAN |-> "SELECT_IR_SCAN", CAPTURE_DR |-> "EXIT1_DR", SHIFT_DR |-> "EXIT1_DR",
   EXIT1_DR |-> "UPDATE_DR", PAUSE_DR |-> "EXIT2_DR", EXIT2_DR |-> "UPDATE_DR",
   UPDATE_DR |-> "SELECT_DR_SCAN",
   SELECT_IR_SCAN |-> "TEST_LOGIC_RESET", CAPTURE_IR |-> "EXIT1_IR", SHIFT_IR |-> "EXIT1_IR",
   EXIT1_IR |-> "UPDATE_IR", PAUSE_IR |-> "EXIT2_IR", EXIT2_IR |-> "UPDATE_IR",
   UPDATE_IR |-> "SELECT_DR_SCAN"]

\* Mutant: Update-DR is always left for Run-Test/Idle.
MonitorNextToIdle(m, tms) ==
  IF m = "UPDATE_DR" \/ tms = 0 THEN MonitorLow[m] ELSE MonitorHigh[m]

MonitorNext(m, tms) == IF tms = 1 THEN MonitorHigh[m] ELSE MonitorLow[m]

Watched(op) ==
  IF program = "C" \/ op.kind = "mode" THEN monitor
  ELSE IF op.kind \in {"packet", "bit"} /\ cjtag_mode
  THEN MonitorNext(MonitorNext(MonitorNext(monitor, 1 - op.tdi), op.tms), 0)
  ELSE MonitorNext(monitor, op.tms)

-------------------------------------------------------------------------------
(* The driver                                                              *)

Init ==
  /\ setup \in Setups
  /\ cjtag_mode = FALSE /\ tck = 0
  /\ \E adapter \in BOOLEAN : chip = [Reset EXCEPT !.adapter = adapter]
  /\ monitor = "TEST_LOGIC_RESET"
  /\ call = NoCall /\ phase = "leave" /\ k = 0 /\ at = Unnamed
  /\ temp = Zeros /\ tdo = Zeros /\ timeout = 0 /\ ops = <<>>

\* dbg_test_init sends the test key with send_tms and only then starts up,
\* after a reset of the MCU alone too: the chip may be anywhere.
Start ==
  /\ call = NoCall
  /\ program = "SV" => at = Unnamed
  /\ call' = StartCall /\ phase' = "launch" /\ k' = 0 /\ at' = Unnamed
  /\ chip' \in IF ~chip.adapter THEN AnywhereWithout
               ELSE Anywhere(IF setup = <<"C", 2>> THEN Formats ELSE {"four_wire"})
  /\ cjtag_mode' \in IF program = "C" THEN {FALSE, cjtag_mode} ELSE {FALSE}
  /\ tck' = 0 /\ tdo' = Zeros /\ ops' = <<>> /\ timeout' = 0
  /\ UNCHANGED <<setup, monitor, temp>>

Call(c) ==
  /\ call = NoCall /\ at # Unnamed
  /\ call' = c /\ phase' = "launch" /\ k' = 0
  /\ tdo' = Zeros /\ ops' = <<>> /\ timeout' = 0
  /\ UNCHANGED <<setup, cjtag_mode, tck, chip, monitor, at, temp>>

Updating(c) == c.tap = "UPDATE_DR" /\ c.ir = DmiCode /\ c.level = "data"

\* A clock of the operation takes the TAP to Update-DR with the DMI register
\* selected.  Three clocks hold one such clock at most, and none after it
\* moves the shift register.
Updates(op) ==
  \E j \in 2 .. Len(Along(op)) :
    Along(op)[j - 1].tap # "UPDATE_DR" /\ Updating(Along(op)[j])

Step ==
  /\ call # NoCall /\ k < Len(list)
  /\ LET op == list[k + 1]
         after == Pulsed(op)
         new == Updates(op)
     IN  /\ \E w \in IF new THEN Answers ELSE {chip.answer} :
              chip' = [after EXCEPT !.answer = w]
         /\ monitor' = Watched(op)
         /\ tck' = IF op.kind = "high" THEN 1 ELSE 0
         /\ cjtag_mode' = IF op.kind = "mode" THEN op.tms = 1 ELSE cjtag_mode
         /\ temp' = IF op.kind = "bit" THEN ShiftIn(temp, Sampled(op)) ELSE Zeros
         /\ tdo' = IF op.kind = "bit" /\ op.tms = 1 THEN Result(temp', Size) ELSE tdo
         /\ ops' = IF new THEN Append(ops, after.sr) ELSE ops
         /\ at' = op.at
  /\ k' = k + 1
  /\ UNCHANGED <<setup, call, phase, timeout>>

Launched ==
  /\ call # NoCall /\ phase = "launch" /\ k = Len(list)
  /\ phase' = "fetch" /\ k' = 0
  /\ UNCHANGED <<setup, cjtag_mode, tck, chip, monitor, call, at, temp, tdo, timeout, ops>>

Busy == tdo.low = <<1, 1>>

\* Mutant: one more fetch than the ten.
AgainOnceMore(n) == program = "SV" /\ n <= 11

\* if (timeout > 10): only the bench goes round its loop.
Again(n) == program = "SV" /\ n <= 10

Fetched ==
  /\ call # NoCall /\ phase = "fetch" /\ k = Len(list)
  /\ LET busy == call.f \in {"read", "write"} /\ Busy
     IN  /\ timeout' = IF busy THEN timeout + 1 ELSE timeout
         /\ phase' = IF busy /\ Again(timeout') THEN "fetch" ELSE "leave"
  /\ k' = 0
  /\ UNCHANGED <<setup, cjtag_mode, tck, chip, monitor, call, at, temp, tdo, ops>>

Return ==
  /\ call # NoCall /\ phase = "leave" /\ k = Len(list)
  /\ call' = NoCall
  /\ UNCHANGED <<setup, cjtag_mode, tck, chip, monitor, phase, k, at, temp, tdo, timeout, ops>>

Next == Start \/ (\E c \in Calls \ {StartCall} : Call(c)) \/ Step \/ Launched \/ Fetched \/ Return

Spec == Init /\ [][Next]_vars

-------------------------------------------------------------------------------
(* Properties                                                              *)

PartsOK(p) == p.low \in [1 .. 2 -> Bit] /\ p.mid \in [1 .. 32 -> Bit] /\ p.high \in [1 .. 7 -> Bit]

TypeOK ==
  /\ setup \in Setups /\ cjtag_mode \in BOOLEAN /\ tck \in Bit
  /\ chip.tap \in TapStates /\ chip.fmt \in Formats /\ chip.slot \in 0 .. 2
  /\ chip.check \in 0 .. 4 /\ chip.answer \in Answers \cup {Reset.answer}
  /\ monitor \in TapStates
  /\ call \in Calls \cup {NoCall} /\ phase \in {"launch", "fetch", "leave"}
  /\ k \in Nat /\ (call # NoCall => k <= Len(list))
  /\ at \in TapStates \cup {Unnamed}
  /\ PartsOK(temp) /\ PartsOK(tdo)
  /\ timeout \in 0 .. 11
  /\ \A j \in DOMAIN ops : ops[j] \in Seq(Bit)

\* Whether the chip understands what the driver speaks.
Understood == chip.adapter \/ ~cjtag_mode

\* Driver and chip are in step: after each operation the TAP is in the state
\* its function is named for, the chip speaks the format of cjtag_mode, and
\* the next packet begins where the chip expects one; from a chip that was
\* anywhere when the start-up began.
InStep ==
  at # Unnamed /\ Understood =>
    /\ chip.tap = at
    /\ chip.fmt = IF cjtag_mode THEN "oscan1" ELSE "four_wire"
    /\ chip.slot = 0 /\ tck = 0

\* Between calls the chip waits in Run-Test/Idle, in the format the port is
\* meant for, with no command half given: two wires are two after the switch.
ReadyBetweenCalls ==
  call = NoCall /\ at # Unnamed /\ Understood =>
    /\ chip.tap = "RUN_TEST_IDLE" /\ chip.level = "data" /\ chip.zbs = 0 /\ chip.check = 0
    /\ chip.fmt = IF jtag_mode = 2 THEN "oscan1" ELSE "four_wire"

Word(p) == p.low \o p.mid \o p.high

\* An access puts its own operation into the DMI register, once and first,
\* and after it nothing but no-operations; an access of DTMCS nothing at all.
OpsAsAsked ==
  /\ call.f \in {"read", "write"} => \A j \in DOMAIN ops :
       ops[j] = IF j = 1 THEN Word(Asked(call)) ELSE Word(Zeros)
  /\ call.f \in {"read", "write"} /\ phase = "leave" /\ k = Len(list) /\ Understood =>
       Len(ops) > 1
  /\ call.f = "dtm" => ops = <<>>

\* What a scan returns is what the chip captured for it, bit for bit: the
\* answer of the Debug Module, rdback0, DTMCS.
AnswerArrives ==
  call # NoCall /\ phase = "leave" /\ Understood =>
    Word(tdo) = chip.cap \o Times(DmiWidth - Len(chip.cap), 0)

\* A scan the earlier life of the program left half done is cut off by the
\* reset: its clocks take the TAP through Update-DR, and what is in the shift
\* register goes to the Debug Module as an operation.  That is one word and
\* no second, and it goes there before the driver is sure of the TAP again:
\* the scans of the switch put nothing there.
OneStrayWord ==
  [][call = StartCall /\ ops' # ops => at' = Unnamed /\ ops = <<>>]_vars

\* The answer of the start-up to a chip that does not follow the switch is not
\* looked at, and two wires are used all the same.  Whatever such a chip makes
\* of them, no access reaches its DMI register,
NothingReachesMute ==
  jtag_mode = 2 /\ ~chip.adapter /\ call \notin {NoCall, StartCall} => ops = <<>>

\* and every access ends as one that was never answered, not as a success.
MuteIsBusy ==
  jtag_mode = 2 /\ ~chip.adapter /\ call.f \in {"read", "write"} /\ phase = "leave" => Busy

\* While the bench drives four wires its monitor is in the state of the TAP.
MonitorFollows ==
  program = "SV" /\ ~cjtag_mode /\ at # Unnamed => monitor = chip.tap
===============================================================================
