------------------------------- MODULE ScanData -------------------------------
(***************************************************************************)
(* Proofs about the bits that the scans of Scan carry: the operations that *)
(* reach the DMI register, what a chip without an adapter makes of two-    *)
(* wire packets, what is read from a line that nobody drives, the types,   *)
(* and that the answer arrives.                                            *)
(*                                                                         *)
(* MuteInv: such a chip takes every edge for a clock of its TAP. The edges *)
(* with TMS high after the escape leave it in Test-Logic-Reset with IDCODE *)
(* selected. TDI stays at one level from then on (high where the port does *)
(* not drive it, low on the bench), so that every instruction shifted in   *)
(* is IDCODE with that bit behind it (Drawn), and never DmiCode.           *)
(*                                                                         *)
(* DataInv follows an access operation by operation: ScanAt says what the  *)
(* register of the chip and the word of the driver hold after j bits of a  *)
(* scan, and what Update-DR then puts into the DMI register is the word    *)
(* that was sent.                                                          *)
(*                                                                         *)
(* BusyInv: every bit of a word read from a line that nobody drives is 1.  *)
(*                                                                         *)
(* AnswerInv follows the start-up: on the way to the read of rdback0 the   *)
(* view is on a course (OnWay), and AtHome says what holds after each of   *)
(* the operations from there.                                              *)
(***************************************************************************)
EXTENDS ScanProofs

-------------------------------------------------------------------------------
(* A chip that takes every edge for a clock of its TAP                     *)

LEMMA Pushed ==
  ASSUME NEW n \in Nat \ {0}, NEW S, NEW q \in [1 .. n -> S], NEW b \in S
  PROVE  LET r == Append(Tail(q), b) IN
         /\ r \in [1 .. n -> S] /\ r[n] = b
         /\ \A i \in 1 .. n - 1 : r[i] = q[i + 1]
<1>. DEFINE t == Tail(q)  r == Append(t, b)
<1>1. q \in Seq(S) /\ Len(q) = n /\ q # <<>>
  BY OfLength
<1>2. t \in Seq(S) /\ Len(t) = n - 1 /\ \A i \in 1 .. Len(t) : t[i] = q[i + 1]
  BY <1>1, HeadTailProperties
<1>. HIDE DEF t
<1>3. r \in Seq(S) /\ Len(r) = n
  BY <1>2, AppendProperties
<1>4. r[n] = b /\ \A i \in 1 .. n - 1 : r[i] = t[i]
  <2>1. \A i \in 1 .. Len(t) : r[i] = t[i]
    BY <1>2, AppendProperties
  <2>2. r[Len(t) + 1] = b
    BY <1>2, AppendProperties
  <2>. QED BY <1>2, <2>1, <2>2
<1>. HIDE DEF r
<1>5. r \in [1 .. n -> S]
  BY <1>3, AsFunction
<1>. QED BY <1>2, <1>4, <1>5 DEF r, t

\* What Updates comes to, for a packet and for a single clock.
LEMMA UpdatesPacket ==
  ASSUME NEW op, op.kind \in {"packet", "bit"}, cjtag_mode
  PROVE  Updates(op) <=> \/ chip.tap # "UPDATE_DR" /\ Updating(OneClock(op))
                         \/ OneClock(op).tap # "UPDATE_DR" /\ Updating(TwoClocks(op))
                         \/ TwoClocks(op).tap # "UPDATE_DR" /\ Updating(Pulsed(op))
<1>1. PICK a, b, c, d : a = chip /\ b = OneClock(op) /\ c = TwoClocks(op) /\ d = Pulsed(op)
  OBVIOUS
<1>2. Along(op) = <<a, b, c, d>>
  BY <1>1 DEF Along
<1>3. Len(<<a, b, c, d>>) = 4 /\ <<a, b, c, d>>[1] = a /\ <<a, b, c, d>>[2] = b
      /\ <<a, b, c, d>>[3] = c /\ <<a, b, c, d>>[4] = d
  OBVIOUS
<1>4. \A j : j \in 2 .. 4 <=> j = 2 \/ j = 3 \/ j = 4
  OBVIOUS
<1>5. 2 - 1 = 1 /\ 3 - 1 = 2 /\ 4 - 1 = 3
  OBVIOUS
<1>6. Updates(op) <=> \E j \in 2 .. 4 : <<a, b, c, d>>[j - 1].tap # "UPDATE_DR" /\ Updating(<<a, b, c, d>>[j])
  BY <1>2, <1>3 DEF Updates
<1>7. Updates(op) <=> \/ <<a, b, c, d>>[1].tap # "UPDATE_DR" /\ Updating(<<a, b, c, d>>[2])
                      \/ <<a, b, c, d>>[2].tap # "UPDATE_DR" /\ Updating(<<a, b, c, d>>[3])
                      \/ <<a, b, c, d>>[3].tap # "UPDATE_DR" /\ Updating(<<a, b, c, d>>[4])
  BY <1>4, <1>5, <1>6, Zenon
<1>. QED BY <1>1, <1>3, <1>7

LEMMA UpdatesClock ==
  ASSUME NEW op, ~(op.kind \in {"packet", "bit"} /\ cjtag_mode)
  PROVE  Updates(op) <=> chip.tap # "UPDATE_DR" /\ Updating(Pulsed(op))
<1>1. PICK a, d : a = chip /\ d = Pulsed(op)
  OBVIOUS
<1>2. Along(op) = <<a, d>>
  BY <1>1 DEF Along
<1>3. Len(<<a, d>>) = 2 /\ <<a, d>>[1] = a /\ <<a, d>>[2] = d
  OBVIOUS
<1>4. \A j : j \in 2 .. 2 <=> j = 2
  OBVIOUS
<1>5. Updates(op) <=> \E j \in 2 .. 2 : <<a, d>>[j - 1].tap # "UPDATE_DR" /\ Updating(<<a, d>>[j])
  BY <1>2, <1>3 DEF Updates
<1>6. 2 - 1 = 1
  OBVIOUS
<1>7. Updates(op) <=> <<a, d>>[1].tap # "UPDATE_DR" /\ Updating(<<a, d>>[2])
  BY <1>4, <1>5, <1>6, Zenon
<1>. QED BY <1>1, <1>3, <1>7

\* What a chip that takes every edge may find in its instruction registers when
\* TDI stays at one level: IDCODE with that bit shifted in, never DmiCode.
Level(s) == IF s = <<"C", 2>> THEN 1 ELSE 0
Drawn(s, q) ==
  \/ q = IdcodeCode
  \/ q[5] = Level(s) /\ \A i \in 1 .. 4 : q[i] <= q[i + 1]

LEMMA DrawnCodes ==
  ASSUME NEW s
  PROVE  /\ Drawn(s, IdcodeCode) /\ ~Drawn(s, DmiCode) /\ Level(s) \in Bit
         /\ \A q \in [1 .. 5 -> Bit] : Drawn(s, q) => Drawn(s, Append(Tail(q), Level(s)))
<1>1. Drawn(s, IdcodeCode) /\ Level(s) \in Bit
  BY DEF Drawn, Level, Bit
<1>2. ~Drawn(s, DmiCode)
  <2>1. DmiCode = <<1, 0, 0, 0, 1>>
    BY ScanAssumption
  <2>2. DmiCode # IdcodeCode
    BY <2>1 DEF IdcodeCode
  <2>3. ~(DmiCode[1] <= DmiCode[1 + 1])
    BY <2>1
  <2>. QED BY <2>2, <2>3 DEF Drawn
<1>3. ASSUME NEW q \in [1 .. 5 -> Bit], Drawn(s, q)
      PROVE  Drawn(s, Append(Tail(q), Level(s)))
  <2>0. PICK n \in Nat \ {0} : n = 5
    OBVIOUS
  <2>. DEFINE r == Append(Tail(q), Level(s))
  <2>1. PICK b \in Bit : b = Level(s)
    BY <1>1
  <2>2. r \in [1 .. n -> Bit] /\ r[n] = Level(s) /\ \A i \in 1 .. n - 1 : r[i] = q[i + 1]
    <3>1. q \in [1 .. n -> Bit]
      BY <2>0
    <3>2. Append(Tail(q), b) \in [1 .. n -> Bit]
      BY <3>1, Pushed
    <3>3. Append(Tail(q), b)[n] = b
      BY <3>1, Pushed
    <3>4. \A i \in 1 .. n - 1 : Append(Tail(q), b)[i] = q[i + 1]
      BY <3>1, Pushed
    <3>. QED BY <2>1, <3>2, <3>3, <3>4
  <2>. HIDE DEF r
  <2>3. q[2] <= q[3] /\ q[3] <= q[4] /\ q[4] <= q[5] /\ q[5] <= Level(s)
    <3>1. CASE q = IdcodeCode
      BY <3>1 DEF IdcodeCode, Level
    <3>2. CASE q[5] = Level(s) /\ \A i \in 1 .. 4 : q[i] <= q[i + 1]
      <4>1. q[2] <= q[2 + 1] /\ q[3] <= q[3 + 1] /\ q[4] <= q[4 + 1]
        BY <3>2
      <4>. QED BY <3>2, <4>1 DEF Level
    <3>. QED BY <1>3, <3>1, <3>2 DEF Drawn
  <2>4. r[1] = q[2] /\ r[2] = q[3] /\ r[3] = q[4] /\ r[4] = q[5] /\ r[5] = Level(s)
    BY <2>0, <2>2
  <2>5. \A i \in 1 .. 4 : i = 1 \/ i = 2 \/ i = 3 \/ i = 4
    OBVIOUS
  <2>6. \A i \in 1 .. 4 : r[i] <= r[i + 1]
    BY <2>3, <2>4, <2>5
  <2>7. Drawn(s, r)
    BY <2>4, <2>6 DEF Drawn
  <2>. QED BY <2>7 DEF r
<1>. QED BY <1>1, <1>2, <1>3

\* No walk draws DmiCode.
LEMMA MuteRise ==
  ASSUME NEW s, NEW c \in Chips, ~c.adapter, NEW tms \in Bit, Drawn(s, c.isr)
  PROVE  LET d == Rise(c, tms, Level(s)) IN
         /\ d \in Chips /\ ~d.adapter /\ Drawn(s, d.isr) /\ d.fmt = c.fmt
         /\ d.tap = TapNext(c.tap, tms)
         /\ Drawn(s, c.ir) \/ c.tap = "TEST_LOGIC_RESET" => Drawn(s, d.ir)
<1>. DEFINE d == Rise(c, tms, Level(s))
<1>1. Ticked(c, d, tms, Level(s))
  BY DrawnCodes, RiseTicks
<1>. HIDE DEF d
<1>2. Drawn(s, IdcodeCode) /\ Drawn(s, Append(Tail(c.isr), Level(s)))
  BY DrawnCodes DEF Chips
<1>3. Drawn(s, d.isr)
  BY <1>1, <1>2 DEF Ticked
<1>4. Drawn(s, c.ir) \/ c.tap = "TEST_LOGIC_RESET" => Drawn(s, d.ir)
  BY <1>1, <1>2 DEF Ticked
<1>. QED BY <1>1, <1>3, <1>4 DEF Ticked, d

LEMMA MutePulse ==
  ASSUME chip \in Chips, ~chip.adapter, cjtag_mode \in BOOLEAN, tck \in Bit, Drawn(setup, chip.isr),
         NEW op \in PinOps, op.kind \in {"packet", "bit"} /\ ~cjtag_mode => op.tdi = 0
  PROVE  LET d == Pulsed(op) IN
         /\ Drawn(setup, d.isr) /\ ~d.adapter /\ d.fmt = chip.fmt
         /\ Drawn(setup, chip.ir) => Drawn(setup, d.ir) /\ ~Updates(op)
         /\ op.kind = "raw" /\ tck = 0 =>
              /\ d.tap = TapNext(chip.tap, op.tms)
              /\ chip.tap = "TEST_LOGIC_RESET" => Drawn(setup, d.ir)
<1>. DEFINE d == Pulsed(op)
            Kept(e) == /\ e \in Chips /\ ~e.adapter /\ Drawn(setup, e.isr) /\ e.fmt = chip.fmt
                       /\ Drawn(setup, chip.ir) => Drawn(setup, e.ir)
<1>0. TdiPin(0) = Level(setup)
  BY DEF TdiPin, Level
<1>1. ASSUME NEW c \in Chips, Kept(c), NEW tms \in Bit PROVE Kept(Rise(c, tms, TdiPin(0)))
  BY <1>0, <1>1, MuteRise
<1>2. Kept(chip)
  OBVIOUS
<1>3. ASSUME NEW tms \in Bit PROVE Kept(First(chip, tms, TdiPin(0)))
  BY <1>1, <1>2 DEF First
<1>4. 0 \in Bit /\ op.tms \in Bit /\ (op.kind \in {"packet", "bit"} => 1 - op.tdi \in Bit) /\ Third(op) \in Bit
  BY OpTypes DEF Bit, Third
<1>5. op.kind \in {"packet", "bit", "raw", "high", "mode", "escape"}
  BY OpTypes
<1>6. /\ Kept(d)
      /\ op.kind \in {"packet", "bit"} /\ cjtag_mode => Kept(OneClock(op)) /\ Kept(TwoClocks(op))
  <2>1. CASE op.kind = "mode"
    BY <1>2, <2>1 DEF Pulsed
  <2>2. CASE op.kind = "escape"
    <3>1. Kept(First(chip, 0, TdiPin(0)))
      BY <1>3, <1>4
    <3>2. Escape(First(chip, 0, TdiPin(0)), op.tdi) = First(chip, 0, TdiPin(0))
      BY <3>1 DEF Escape
    <3>. QED BY <2>2, <3>1, <3>2 DEF Pulsed
  <2>3. CASE op.kind \in {"raw", "high"}
    BY <1>3, <1>4, <2>3 DEF Pulsed
  <2>4. CASE op.kind \in {"packet", "bit"} /\ ~cjtag_mode
    <3>1. d = First(chip, op.tms, TdiPin(0))
      BY <2>4 DEF Pulsed
    <3>. QED BY <1>3, <1>4, <2>4, <3>1
  <2>5. CASE op.kind \in {"packet", "bit"} /\ cjtag_mode
    <3>1. Kept(OneClock(op))
      BY <1>3, <1>4, <2>5 DEF OneClock
    <3>2. Kept(TwoClocks(op))
      <4>1. PICK c : c = OneClock(op)
        OBVIOUS
      <4>2. Kept(Rise(c, op.tms, TdiPin(0)))
        BY <1>1, <1>4, <3>1, <4>1
      <4>. QED BY <4>1, <4>2 DEF TwoClocks
    <3>3. PICK c : c = TwoClocks(op)
      OBVIOUS
    <3>4. Kept(Rise(c, Third(op), TdiPin(0)))
      BY <1>1, <1>4, <3>2, <3>3
    <3>5. d = Rise(c, Third(op), TdiPin(0))
      BY <2>5, <3>3 DEF Pulsed
    <3>. QED BY <3>1, <3>2, <3>4, <3>5
  <2>. QED BY <1>5, <2>1, <2>2, <2>3, <2>4, <2>5
<1>7. ASSUME op.kind = "raw", tck = 0
      PROVE  /\ d.tap = TapNext(chip.tap, op.tms)
             /\ chip.tap = "TEST_LOGIC_RESET" => Drawn(setup, d.ir)
  <2>1. d = Rise(chip, op.tms, Level(setup))
    BY <1>0, <1>7 DEF Pulsed, First
  <2>2. /\ Rise(chip, op.tms, Level(setup)).tap = TapNext(chip.tap, op.tms)
        /\ chip.tap = "TEST_LOGIC_RESET" => Drawn(setup, Rise(chip, op.tms, Level(setup)).ir)
    BY <1>4, MuteRise
  <2>. HIDE DEF d
  <2>. QED BY <2>1, <2>2
<1>8. ASSUME Drawn(setup, chip.ir) PROVE ~Updates(op)
  <2>1. \A e : Kept(e) => ~Updating(e)
    BY <1>8, DrawnCodes DEF Updating
  <2>2. CASE op.kind \in {"packet", "bit"} /\ cjtag_mode
    <3>1. ~Updating(OneClock(op)) /\ ~Updating(TwoClocks(op)) /\ ~Updating(Pulsed(op))
      BY <1>6, <2>1, <2>2
    <3>. QED BY <2>2, <3>1, UpdatesPacket
  <2>3. CASE ~(op.kind \in {"packet", "bit"} /\ cjtag_mode)
    BY <1>6, <2>1, <2>3, UpdatesClock
  <2>. QED BY <2>2, <2>3
<1>. QED BY <1>6, <1>7, <1>8

-------------------------------------------------------------------------------
(* What lists are made of                                                  *)

Packets == {op \in PinOps : op.kind \in {"packet", "bit"} /\ op.at # Unnamed}
Quiet == {op \in PinOps : op.kind \in {"packet", "bit"} => op.tdi = 0}

LEMMA Joined ==
  ASSUME NEW S, NEW l \in Seq(S), NEW m \in Seq(S)
  PROVE  l \o m \in Seq(S)
BY ConcatProperties

LEMMA OfBoth == Seq(Packets \cap Quiet) \subseteq Seq(Packets) /\ Seq(Packets \cap Quiet) \subseteq Seq(Quiet)
<1>1. ASSUME NEW S, NEW T, S \subseteq T, NEW l \in Seq(S) PROVE l \in Seq(T)
  <2>1. l \in [1 .. Len(l) -> S] /\ Len(l) \in Nat
    BY AsFunction
  <2>2. l \in [1 .. Len(l) -> T]
    BY <1>1, <2>1
  <2>. QED BY <2>1, <2>2, OfLength
<1>. QED BY <1>1

LEMMA TmsPackets ==
  ASSUME NEW t \in Bit, NEW s \in TapStates
  PROVE  Tms(t, s) \in Packets \cap Quiet
<1>1. Tms(t, s) \in PinOps /\ Tms(t, s).kind = "packet" /\ Tms(t, s).at = s /\ Tms(t, s).tdi = 0
  BY TmsOps DEF Tms, Op
<1>2. s # Unnamed
  BY States DEF Unnamed
<1>. QED BY <1>1, <1>2 DEF Packets, Quiet

LEMMA TimesOf ==
  ASSUME NEW S, NEW n \in Nat, NEW op \in S
  PROVE  Times(n, op) \in Seq(S) /\ Len(Times(n, op)) = n /\ \A j \in 1 .. n : Times(n, op)[j] = op
<1>1. Times(n, op) \in [1 .. n -> S] /\ \A j \in 1 .. n : Times(n, op)[j] = op
  BY DEF Times
<1>. QED BY <1>1, OfLength

\* The steps.
LEMMA StepLists ==
  LET W == Seq(Packets \cap Quiet) IN
  /\ jtag_tlr_to_idle \in W /\ jtag_idle_to_sld \in W /\ jtag_sld_to_cdr \in W /\ jtag_cdr_to_sdr \in W
  /\ jtag_sdr_to_sdr[1] \in Packets \cap Quiet /\ jtag_sdr_to_e1d \in W /\ jtag_cdr_to_e1d \in W
  /\ jtag_e1d_to_udr \in W /\ jtag_udr_to_sld \in W /\ jtag_udr_to_idle \in W
  /\ jtag_sld_to_sli \in W /\ jtag_sli_to_cir \in W /\ jtag_cir_to_sir \in W
  /\ jtag_sir_to_e1i \in W /\ jtag_e1i_to_uir \in W /\ jtag_uir_to_idle \in W
  /\ jtag_exit_to_idle("UPDATE_IR") \in W /\ jtag_exit_to_idle("UPDATE_DR") \in W
  /\ jtag_idle_to_shift_ir \in W /\ jtag_idle_to_shift_dr \in W
  /\ \A n \in Nat : jtag_keep_in_idle(n) \in W
<1>. DEFINE Q == Packets \cap Quiet
<1>1. \A t \in Bit, s \in TapStates : Tms(t, s) \in Q
  BY TmsPackets
<1>. HIDE DEF Q
<1>2. /\ Tms(0, "RUN_TEST_IDLE") \in Q /\ Tms(1, "SELECT_DR_SCAN") \in Q /\ Tms(0, "CAPTURE_DR") \in Q
      /\ Tms(0, "SHIFT_DR") \in Q /\ Tms(1, "EXIT1_DR") \in Q /\ Tms(1, "UPDATE_DR") \in Q
      /\ Tms(1, "SELECT_IR_SCAN") \in Q /\ Tms(0, "CAPTURE_IR") \in Q /\ Tms(0, "SHIFT_IR") \in Q
      /\ Tms(1, "EXIT1_IR") \in Q /\ Tms(1, "UPDATE_IR") \in Q
  BY <1>1, States DEF Bit
<1>3. /\ jtag_tlr_to_idle \in Seq(Q) /\ jtag_idle_to_sld \in Seq(Q) /\ jtag_sld_to_cdr \in Seq(Q)
      /\ jtag_cdr_to_sdr \in Seq(Q)
      /\ jtag_sdr_to_sdr[1] \in Q /\ jtag_sdr_to_e1d \in Seq(Q) /\ jtag_cdr_to_e1d \in Seq(Q)
      /\ jtag_e1d_to_udr \in Seq(Q) /\ jtag_udr_to_sld \in Seq(Q) /\ jtag_udr_to_idle \in Seq(Q)
  BY <1>2 DEF jtag_tlr_to_idle, jtag_idle_to_sld, jtag_sld_to_cdr, jtag_cdr_to_sdr, jtag_sdr_to_sdr,
              jtag_sdr_to_e1d, jtag_cdr_to_e1d, jtag_e1d_to_udr, jtag_udr_to_sld, jtag_udr_to_idle
<1>4. /\ jtag_sld_to_sli \in Seq(Q) /\ jtag_sli_to_cir \in Seq(Q) /\ jtag_cir_to_sir \in Seq(Q)
      /\ jtag_sir_to_e1i \in Seq(Q) /\ jtag_e1i_to_uir \in Seq(Q) /\ jtag_uir_to_idle \in Seq(Q)
  BY <1>2 DEF jtag_sld_to_sli, jtag_sli_to_cir, jtag_cir_to_sir, jtag_sir_to_e1i, jtag_e1i_to_uir, jtag_uir_to_idle
<1>5. /\ jtag_exit_to_idle("UPDATE_IR") \in Seq(Q) /\ jtag_exit_to_idle("UPDATE_DR") \in Seq(Q)
  BY <1>2 DEF jtag_exit_to_idle
<1>6. jtag_idle_to_shift_ir \in Seq(Q) /\ jtag_idle_to_shift_dr \in Seq(Q)
  BY <1>2 DEF jtag_idle_to_shift_ir, jtag_idle_to_shift_dr
<1>7. \A n \in Nat : jtag_keep_in_idle(n) \in Seq(Q)
  BY <1>2, TimesOf DEF jtag_keep_in_idle
<1>. QED BY <1>3, <1>4, <1>5, <1>6, <1>7 DEF Q

LEMMA IrPackets ==
  ASSUME NEW code \in [1 .. 5 -> Bit]
  PROVE  send_ir(code) \in Seq(Packets) /\ Len(send_ir(code)) = 5
<1>1. ASSUME NEW j \in 1 .. 5
      PROVE  (IF j < 5 THEN Op("packet", 0, code[j], "SHIFT_IR") ELSE Op("packet", 1, code[j], "EXIT1_IR")) \in Packets
  <2>1. code[j] \in Bit /\ 0 \in Bit /\ 1 \in Bit /\ "SHIFT_IR" \in TapStates /\ "EXIT1_IR" \in TapStates
        /\ "SHIFT_IR" # Unnamed /\ "EXIT1_IR" # Unnamed
    BY States DEF Bit, Unnamed
  <2>. QED BY <2>1, BitOps DEF Packets
<1>2. PICK n \in Nat : n = 5
  OBVIOUS
<1>3. send_ir(code) \in [1 .. n -> Packets]
  BY <1>1, <1>2 DEF send_ir
<1>. QED BY <1>2, <1>3, OfLength

LEMMA DrPackets ==
  ASSUME NEW p, PartsOK(p), NEW n \in Nat, n \in 1 .. 41
  PROVE  /\ send_dr(p, n) \in Seq(Packets) /\ Len(send_dr(p, n)) = n
         /\ \A j \in 1 .. n : LET op == send_dr(p, n)[j] IN
              /\ op.kind = "bit" /\ op.tdi = TdiBit(p, j)
              /\ op.tms = IF j < n THEN 0 ELSE 1
              /\ op.at = IF j < n THEN "SHIFT_DR" ELSE "EXIT1_DR"
<1>. DEFINE l == send_dr(p, n)
<1>1. ASSUME NEW j \in 1 .. n
      PROVE  /\ l[j] \in Packets /\ l[j].kind = "bit" /\ l[j].tdi = TdiBit(p, j)
             /\ l[j].tms = IF j < n THEN 0 ELSE 1
             /\ l[j].at = IF j < n THEN "SHIFT_DR" ELSE "EXIT1_DR"
  <2>1. TdiBit(p, j) \in Bit /\ 0 \in Bit /\ 1 \in Bit /\ "SHIFT_DR" \in TapStates /\ "EXIT1_DR" \in TapStates
        /\ "SHIFT_DR" # Unnamed /\ "EXIT1_DR" # Unnamed
    BY TdiBits, States DEF Bit, Unnamed
  <2>2. l[j] = IF j < n THEN Op("bit", 0, TdiBit(p, j), "SHIFT_DR") ELSE Op("bit", 1, TdiBit(p, j), "EXIT1_DR")
    BY DEF send_dr
  <2>. HIDE DEF l
  <2>. QED BY <2>1, <2>2, BitOps DEF Packets
<1>2. l = [j \in 1 .. n |-> l[j]]
  BY DEF send_dr
<1>. HIDE DEF l
<1>3. l \in [1 .. n -> Packets]
  BY <1>1, <1>2
<1>4. l \in Seq(Packets) /\ Len(l) = n
  BY <1>3, OfLength
<1>. QED BY <1>1, <1>4 DEF l

\* Every list but the start-up's is made of packets, each named for a state.
LEMMA PacketLists ==
  ASSUME NEW s \in Setups, NEW c \in Calls \ {StartCall}, NEW ph \in Phases
  PROVE  Lists[s][c][ph] \in Seq(Packets)
<1>1. c.f \in {"write", "read", "dtm"} /\ c \in Calls
  BY DEF Calls, StartCall
<1>2. ASSUME NEW S, NEW l \in Seq(S), NEW m \in Seq(S) PROVE l \o m \in Seq(S)
  BY Joined
<1>3. /\ jtag_idle_to_shift_ir \in Seq(Packets) /\ jtag_idle_to_shift_dr \in Seq(Packets)
      /\ jtag_exit_to_idle("UPDATE_IR") \in Seq(Packets) /\ jtag_exit_to_idle("UPDATE_DR") \in Seq(Packets)
      /\ jtag_keep_in_idle(10) \in Seq(Packets)
  <2>1. /\ jtag_idle_to_shift_ir \in Seq(Packets \cap Quiet) /\ jtag_idle_to_shift_dr \in Seq(Packets \cap Quiet)
        /\ jtag_exit_to_idle("UPDATE_IR") \in Seq(Packets \cap Quiet)
        /\ jtag_exit_to_idle("UPDATE_DR") \in Seq(Packets \cap Quiet)
        /\ jtag_keep_in_idle(10) \in Seq(Packets \cap Quiet)
    BY StepLists
  <2>. QED BY <2>1, OfBoth
<1>4. ASSUME NEW code \in [1 .. 5 -> Bit], NEW p, PartsOK(p), NEW n \in Nat, n \in 1 .. 41
      PROVE  Access(code, p, n) \in Seq(Packets)
  <2>1. send_ir(code) \in Seq(Packets) /\ send_dr(p, n) \in Seq(Packets)
    BY <1>4, IrPackets, DrPackets
  <2>2. jtag_idle_to_shift_ir \o send_ir(code) \in Seq(Packets)
    BY <1>2, <1>3, <2>1
  <2>3. jtag_idle_to_shift_ir \o send_ir(code) \o jtag_exit_to_idle("UPDATE_IR") \in Seq(Packets)
    BY <1>2, <1>3, <2>2
  <2>4. jtag_idle_to_shift_ir \o send_ir(code) \o jtag_exit_to_idle("UPDATE_IR") \o jtag_idle_to_shift_dr \in Seq(Packets)
    BY <1>2, <1>3, <2>3
  <2>. QED BY <1>2, <2>1, <2>4 DEF Access
<1>5. Leave \in Seq(Packets)
  BY <1>2, <1>3 DEF Leave
<1>6. PICK n \in Nat, m \in Nat : n = 41 /\ m = 32 /\ n \in 1 .. 41 /\ m \in 1 .. 41
  OBVIOUS
<1>7. Fetch \in Seq(Packets)
  <2>1. send_dr(Zeros, n) \in Seq(Packets)
    BY <1>6, ZerosOK, DrPackets
  <2>2. Leave \o jtag_idle_to_shift_dr \in Seq(Packets)
    BY <1>2, <1>3, <1>5
  <2>3. Leave \o jtag_idle_to_shift_dr \o send_dr(Zeros, n) \in Seq(Packets)
    BY <1>2, <2>1, <2>2
  <2>. QED BY <1>6, <2>3, ScanAssumption DEF Fetch
<1>8. <<>> \in Seq(Packets)
  OBVIOUS
<1>9. Launch(s, c) \in Seq(Packets)
  <2>1. CASE c.f \in {"read", "write"}
    <3>1. Launch(s, c) = Access(DmiCode, Asked(c), n)
      BY <1>6, <2>1, ScanAssumption DEF Launch
    <3>2. DmiCode \in [1 .. 5 -> Bit] /\ PartsOK(Asked(c))
      BY <1>1, <2>1, TapAssumption, AskedOK
    <3>. QED BY <1>4, <1>6, <3>1, <3>2
  <2>2. CASE c.f = "dtm"
    <3>1. Launch(s, c) = Access(DtmcsCode, DtmData(c.word), m)
      BY <1>6, <2>2, ScanAssumption DEF Launch
    <3>2. DtmcsCode \in [1 .. 5 -> Bit] /\ PartsOK(DtmData(c.word))
      BY <1>1, <2>2, TapAssumption, CallForms, DtmDataOK
    <3>. QED BY <1>4, <1>6, <3>1, <3>2
  <2>. QED BY <1>1, <2>1, <2>2
<1>10. /\ Lists[s][c]["launch"] = Launch(s, c)
       /\ Lists[s][c]["fetch"] = IF c.f \in {"read", "write"} THEN Fetch ELSE <<>>
       /\ Lists[s][c]["leave"] = Leave
  BY <1>1 DEF Lists
<1>. QED BY <1>5, <1>7, <1>8, <1>9, <1>10 DEF Phases

LEMMA QuietOps ==
  /\ ToFour \in Quiet /\ ToTwo \in Quiet /\ Op("high", 0, 0, Unnamed) \in Quiet
  /\ \A s : Escaping(s) \in Quiet
  /\ \A t \in Bit : Raw(t) \in Quiet /\ Tms(t, Unnamed) \in Quiet
<1>1. \A t \in Bit : Tms(t, Unnamed).tdi = 0
  BY DEF Tms, Op
<1>. QED BY <1>1, OtherOps, TmsOps DEF Quiet

LEMMA QuietReset ==
  ASSUME NEW s \in {<<"C", 2>>, <<"SV", 2>>}
  PROVE  jtag_reset(s) \in Seq(Quiet)
<1>. DEFINE a == Tms(1, Unnamed)  b == Op("high", 0, 0, Unnamed)
            t == Tms(1, "TEST_LOGIC_RESET")  r == Tms(0, "RUN_TEST_IDLE")
<1>1. a \in Quiet /\ b \in Quiet /\ t \in Quiet /\ r \in Quiet
  BY QuietOps, TmsPackets, States DEF Bit
<1>2. jtag_reset(s) = Times(4, a) \o (IF s = <<"C", 2>> THEN <<a, b>> ELSE <<t, r>>)
  BY DEF jtag_reset
<1>. HIDE DEF a, b, t, r
<1>3. Times(4, a) \in Seq(Quiet)
  BY <1>1, TimesOf
<1>4. <<a, b>> \in Seq(Quiet) /\ <<t, r>> \in Seq(Quiet)
  BY <1>1
<1>. QED BY <1>2, <1>3, <1>4, Joined

\* Before the 50 edges with TMS high.
LEMMA QuietHead ==
  ASSUME NEW s \in {<<"C", 2>>, <<"SV", 2>>}
  PROVE  LET h == SwitchHead(s) IN
         h \in Seq(Quiet) /\ Len(h) \in Nat \ {0} /\ h[Len(h)].kind = "escape"
<1>. DEFINE esc == Escaping(s)
            a == <<ToFour>> \o jtag_reset(s)
<1>1. jtag_reset(s) \in Seq(Quiet)
  BY QuietReset
<1>2. <<ToFour>> \in Seq(Quiet) /\ <<esc>> \in Seq(Quiet) /\ esc.kind = "escape"
  BY QuietOps, OtherOps
<1>3. SwitchHead(s) = a \o <<esc>>
  BY DEF SwitchHead, ToFour, Escaping
<1>4. a \in Seq(Quiet)
  BY <1>1, <1>2, Joined
<1>. HIDE DEF esc, a
<1>5. Len(<<esc>>) = 1 /\ <<esc>>[1] = esc
  OBVIOUS
<1>6. Len(a \o <<esc>>) = Len(a) + 1 /\ Len(a) \in Nat
  BY <1>2, <1>4, <1>5, ConcatProperties
<1>7. \A i \in 1 .. Len(a) + Len(<<esc>>) :
        (a \o <<esc>>)[i] = IF i <= Len(a) THEN a[i] ELSE <<esc>>[i - Len(a)]
  BY <1>2, <1>4, ConcatProperties
<1>8. Len(a) + 1 \in 1 .. Len(a) + Len(<<esc>>) /\ ~(Len(a) + 1 <= Len(a)) /\ (Len(a) + 1) - Len(a) = 1
  BY <1>5, <1>6
<1>9. (a \o <<esc>>)[Len(a) + 1] = <<esc>>[1]
  BY <1>7, <1>8
<1>10. a \o <<esc>> \in Seq(Quiet)
  BY <1>2, <1>4, Joined
<1>. QED BY <1>2, <1>3, <1>5, <1>6, <1>9, <1>10

LEMMA ScanQuiet ==
  ASSUME NEW n \in Nat
  PROVE  dr_scan(n) \in Seq(Quiet)
<1>. DEFINE way == IF n = 0 THEN jtag_cdr_to_e1d
                   ELSE jtag_cdr_to_sdr \o Times(n - 1, jtag_sdr_to_sdr[1]) \o jtag_sdr_to_e1d
<1>1. /\ jtag_sld_to_cdr \in Seq(Quiet) /\ jtag_cdr_to_sdr \in Seq(Quiet) /\ jtag_sdr_to_e1d \in Seq(Quiet)
      /\ jtag_cdr_to_e1d \in Seq(Quiet) /\ jtag_e1d_to_udr \in Seq(Quiet) /\ jtag_sdr_to_sdr[1] \in Quiet
  <2>1. \A l \in Seq(Packets \cap Quiet) : l \in Seq(Quiet)
    BY OfBoth
  <2>. QED BY <2>1, StepLists
<1>2. way \in Seq(Quiet)
  <2>1. CASE n = 0
    BY <1>1, <2>1
  <2>2. CASE n # 0
    <3>1. n - 1 \in Nat
      BY <2>2
    <3>2. Times(n - 1, jtag_sdr_to_sdr[1]) \in Seq(Quiet)
      BY <1>1, <3>1, TimesOf
    <3>3. jtag_cdr_to_sdr \o Times(n - 1, jtag_sdr_to_sdr[1]) \in Seq(Quiet)
      BY <1>1, <3>2, Joined
    <3>4. jtag_cdr_to_sdr \o Times(n - 1, jtag_sdr_to_sdr[1]) \o jtag_sdr_to_e1d \in Seq(Quiet)
      BY <1>1, <3>3, Joined
    <3>. QED BY <2>2, <3>4
  <2>. QED BY <2>1, <2>2
<1>3. dr_scan(n) = jtag_sld_to_cdr \o way \o jtag_e1d_to_udr
  BY DEF dr_scan
<1>. HIDE DEF way
<1>4. jtag_sld_to_cdr \o way \in Seq(Quiet)
  BY <1>1, <1>2, Joined
<1>. QED BY <1>1, <1>3, <1>4, Joined

LEMMA QuietSend ==
  ASSUME NEW n \in Nat, n \in 1 .. 41
  PROVE  send_dr(Zeros, n) \in Seq(Quiet)
<1>1. send_dr(Zeros, n) \in Seq(Packets) /\ Len(send_dr(Zeros, n)) = n
      /\ \A j \in 1 .. n : send_dr(Zeros, n)[j].tdi = TdiBit(Zeros, j)
  BY ZerosOK, DrPackets
<1>2. \A j \in 1 .. n : TdiBit(Zeros, j) = 0
  <2>1. ASSUME NEW j \in 1 .. 41 PROVE TdiBit(Zeros, j) = 0
    <3>1. CASE j <= 2
      BY <3>1 DEF TdiBit, Zeros, Times
    <3>2. CASE j \in 3 .. 34
      <4>1. j - 2 \in 1 .. 32 /\ ~(j <= 2)
        BY <3>2
      <4>. QED BY <3>2, <4>1 DEF TdiBit, Zeros, Times
    <3>3. CASE j > 34
      <4>1. j - 34 \in 1 .. 7 /\ ~(j <= 2) /\ j \notin 3 .. 34
        BY <3>3
      <4>. QED BY <4>1 DEF TdiBit, Zeros, Times
    <3>. QED BY <3>1, <3>2, <3>3
  <2>. QED BY <2>1
<1>. DEFINE l == send_dr(Zeros, n)
<1>3. l \in [1 .. n -> Packets]
  BY <1>1, AsFunction
<1>4. \A j \in 1 .. n : l[j] \in Quiet
  BY <1>1, <1>2, <1>3 DEF Packets, Quiet
<1>. HIDE DEF l
<1>5. l \in [1 .. n -> Quiet]
  BY <1>3, <1>4
<1>6. l \in Seq(Quiet)
  BY <1>5, OfLength
<1>. QED BY <1>6 DEF l

\* l goes on to become m.
Grows(l, m) ==
  m \in Seq(Quiet) /\ Len(l) \in 0 .. Len(m) /\ \A i \in 1 .. Len(l) : m[i] = l[i]

LEMMA Grown ==
  ASSUME NEW l \in Seq(Quiet), NEW m, Grows(l, m), NEW x \in Seq(Quiet), NEW y \in Seq(Quiet),
         NEW z \in Seq(Quiet), NEW w \in Seq(Quiet)
  PROVE  /\ Grows(l, m \o x) /\ Grows(l, m \o x \o y) /\ Grows(l, m \o x \o y \o z)
         /\ Grows(l, m \o x \o y \o z \o w)
<1>1. ASSUME NEW n, Grows(l, n), NEW v \in Seq(Quiet)
      PROVE  Grows(l, n \o v)
  <2>1. n \in Seq(Quiet) /\ Len(n) \in Nat /\ Len(v) \in Nat /\ Len(l) \in 0 .. Len(n) /\ Len(l) \in Nat
    BY <1>1 DEF Grows
  <2>2. n \o v \in Seq(Quiet) /\ Len(n \o v) = Len(n) + Len(v)
    BY <2>1, ConcatProperties
  <2>3. \A i \in 1 .. Len(n) + Len(v) : (n \o v)[i] = IF i <= Len(n) THEN n[i] ELSE v[i - Len(n)]
    BY <2>1, ConcatProperties
  <2>4. ASSUME NEW i \in 1 .. Len(l) PROVE (n \o v)[i] = l[i]
    <3>1. i \in 1 .. Len(n) + Len(v) /\ i <= Len(n)
      BY <2>1
    <3>. QED BY <1>1, <2>3, <3>1 DEF Grows
  <2>. QED BY <2>1, <2>2, <2>4 DEF Grows
<1>2. Grows(l, m \o x)
  BY <1>1
<1>3. Grows(l, m \o x \o y)
  BY <1>1, <1>2
<1>4. Grows(l, m \o x \o y \o z)
  BY <1>1, <1>3
<1>. QED BY <1>1, <1>2, <1>3, <1>4

LEMMA SwitchGrows ==
  ASSUME NEW s \in {<<"C", 2>>, <<"SV", 2>>}
  PROVE  /\ SwitchHead(s) \o Times(50, Raw(1)) \in Seq(Quiet)
         /\ Grows(SwitchHead(s) \o Times(50, Raw(1)), switch_jtag2cjtag(s))
<1>. DEFINE l == SwitchHead(s) \o Times(50, Raw(1))
            check == Times(4, Raw(0))  mode == <<ToTwo>>
            l1 == l \o jtag_tlr_to_idle
            l2 == l1 \o jtag_idle_to_sld \o dr_scan(0) \o jtag_udr_to_sld \o dr_scan(0)
            l3 == l2 \o jtag_udr_to_sld \o dr_scan(1)
            l4 == l3 \o jtag_udr_to_sld \o dr_scan(3) \o jtag_udr_to_sld \o dr_scan(9)
            l5 == l4 \o jtag_udr_to_idle \o check \o mode
            l6 == l5 \o jtag_idle_to_sld \o dr_scan(9) \o jtag_udr_to_idle
            l7 == l6 \o jtag_idle_to_sld \o dr_scan(0) \o jtag_udr_to_idle
            l8 == l7 \o jtag_idle_to_sld \o jtag_sld_to_cdr \o jtag_cdr_to_sdr \o send_dr(Zeros, ReadWidth)
            l9 == l8 \o jtag_e1d_to_udr \o jtag_udr_to_idle \o check
            lA == l9 \o quit_command \o jtag_keep_in_idle(5)
<1>1. switch_jtag2cjtag(s) = lA
  BY DEF switch_jtag2cjtag, SwitchHead, ToTwo
<1>2. /\ jtag_tlr_to_idle \in Seq(Quiet) /\ jtag_idle_to_sld \in Seq(Quiet) /\ jtag_sld_to_cdr \in Seq(Quiet)
      /\ jtag_cdr_to_sdr \in Seq(Quiet) /\ jtag_udr_to_sld \in Seq(Quiet) /\ jtag_udr_to_idle \in Seq(Quiet)
      /\ jtag_e1d_to_udr \in Seq(Quiet) /\ jtag_keep_in_idle(5) \in Seq(Quiet)
      /\ jtag_sld_to_sli \in Seq(Quiet) /\ jtag_sli_to_cir \in Seq(Quiet) /\ jtag_cir_to_sir \in Seq(Quiet)
      /\ jtag_sir_to_e1i \in Seq(Quiet) /\ jtag_e1i_to_uir \in Seq(Quiet) /\ jtag_uir_to_idle \in Seq(Quiet)
  <2>1. \A q \in Seq(Packets \cap Quiet) : q \in Seq(Quiet)
    BY OfBoth
  <2>. QED BY <2>1, StepLists
<1>3. dr_scan(0) \in Seq(Quiet) /\ dr_scan(1) \in Seq(Quiet) /\ dr_scan(3) \in Seq(Quiet) /\ dr_scan(9) \in Seq(Quiet)
  BY ScanQuiet
<1>4. check \in Seq(Quiet) /\ mode \in Seq(Quiet) /\ Times(50, Raw(1)) \in Seq(Quiet)
  BY QuietOps, TimesOf DEF Bit
<1>5. send_dr(Zeros, ReadWidth) \in Seq(Quiet)
  <2>1. PICK n \in Nat : n = 32 /\ n \in 1 .. 41
    OBVIOUS
  <2>2. send_dr(Zeros, n) \in Seq(Quiet)
    BY <2>1, QuietSend
  <2>. QED BY <2>1, <2>2, ScanAssumption
<1>6. quit_command \in Seq(Quiet)
  <2>1. jtag_idle_to_sld \o jtag_sld_to_sli \in Seq(Quiet)
    BY <1>2, Joined
  <2>2. jtag_idle_to_sld \o jtag_sld_to_sli \o jtag_sli_to_cir \in Seq(Quiet)
    BY <1>2, <2>1, Joined
  <2>3. jtag_idle_to_sld \o jtag_sld_to_sli \o jtag_sli_to_cir \o jtag_cir_to_sir \in Seq(Quiet)
    BY <1>2, <2>2, Joined
  <2>4. jtag_idle_to_sld \o jtag_sld_to_sli \o jtag_sli_to_cir \o jtag_cir_to_sir \o jtag_sir_to_e1i \in Seq(Quiet)
    BY <1>2, <2>3, Joined
  <2>5. jtag_idle_to_sld \o jtag_sld_to_sli \o jtag_sli_to_cir \o jtag_cir_to_sir \o jtag_sir_to_e1i \o jtag_e1i_to_uir
          \in Seq(Quiet)
    BY <1>2, <2>4, Joined
  <2>. QED BY <1>2, <2>5, Joined DEF quit_command
<1>7. l \in Seq(Quiet)
  BY <1>4, QuietHead, Joined
<1>. HIDE DEF l, check, mode
<1>8. Grows(l, l)
  <2>1. Len(l) \in Nat
    BY <1>7
  <2>. QED BY <1>7, <2>1 DEF Grows
<1>9. Grows(l, l1)
  BY <1>2, <1>7, <1>8, Grown
<1>. HIDE DEF l1
<1>10. Grows(l, l2)
  BY <1>2, <1>3, <1>7, <1>9, Grown
<1>. HIDE DEF l2
<1>11. Grows(l, l3)
  BY <1>2, <1>3, <1>7, <1>10, Grown
<1>. HIDE DEF l3
<1>12. Grows(l, l4)
  BY <1>2, <1>3, <1>7, <1>11, Grown
<1>. HIDE DEF l4
<1>13. Grows(l, l5)
  BY <1>2, <1>4, <1>7, <1>12, Grown
<1>. HIDE DEF l5
<1>14. Grows(l, l6)
  BY <1>2, <1>3, <1>7, <1>13, Grown
<1>. HIDE DEF l6
<1>15. Grows(l, l7)
  BY <1>2, <1>3, <1>7, <1>14, Grown
<1>. HIDE DEF l7
<1>16. Grows(l, l8)
  BY <1>2, <1>5, <1>7, <1>15, Grown
<1>. HIDE DEF l8
<1>17. Grows(l, l9)
  BY <1>2, <1>4, <1>7, <1>16, Grown
<1>. HIDE DEF l9
<1>18. Grows(l, lA)
  BY <1>2, <1>6, <1>7, <1>17, Grown
<1>. QED BY <1>1, <1>7, <1>18 DEF l

\* The start-up's list with two wires: a reset escape after a operations, and
\* then edges with TMS high.
WalkAt(s, a) ==
  LET l == Lists[s][StartCall]["launch"] IN
  /\ l \in Seq(Quiet) /\ a + 6 <= Len(l)
  /\ l[a].kind = "escape" /\ \A j \in 1 .. 6 : l[a + j] = Raw(1)

Walk(s) == CHOOSE a \in Nat \ {0} : WalkAt(s, a)

LEMMA StartWalk ==
  ASSUME NEW s \in Setups, s[2] = 2
  PROVE  Walk(s) \in Nat \ {0} /\ WalkAt(s, Walk(s))
<1>1. s \in {<<"C", 2>>, <<"SV", 2>>}
  BY SetupForms
<1>. DEFINE h == SwitchHead(s)  e == Times(50, Raw(1))  he == h \o e
            sw == switch_jtag2cjtag(s)
            pre == IF s[1] = "SV" THEN jtag_reset(s) ELSE <<>>
            l == pre \o sw
            a == Len(pre) + Len(h)
<1>2. Lists[s][StartCall]["launch"] = l
  <2>1. StartCall \in Calls /\ StartCall.f = "start"
    BY DEF StartCall, Calls
  <2>2. Launch(s, StartCall) = l
    BY <2>1 DEF Launch
  <2>. QED BY <2>1, <2>2 DEF Lists
<1>3. h \in Seq(Quiet) /\ Len(h) \in Nat \ {0} /\ h[Len(h)].kind = "escape"
  BY <1>1, QuietHead
<1>4. e \in Seq(Quiet) /\ Len(e) = 50 /\ \A j \in 1 .. 50 : e[j] = Raw(1)
  BY QuietOps, TimesOf DEF Bit
<1>5. Grows(he, sw)
  BY <1>1, SwitchGrows
<1>6. pre \in Seq(Quiet) /\ Len(pre) \in Nat
  <2>1. jtag_reset(s) \in Seq(Quiet) /\ <<>> \in Seq(Quiet)
    BY <1>1, QuietReset
  <2>. QED BY <2>1
<1>. HIDE DEF h, e, sw, pre
<1>7. /\ Len(he) = Len(h) + 50 /\ Len(h) + Len(e) = Len(h) + 50
      /\ \A i \in 1 .. Len(h) + 50 : he[i] = IF i <= Len(h) THEN h[i] ELSE e[i - Len(h)]
  <2>1. Len(he) = Len(h) + Len(e) /\ Len(e) = 50
    BY <1>3, <1>4, ConcatProperties
  <2>2. \A i \in 1 .. Len(h) + Len(e) : he[i] = IF i <= Len(h) THEN h[i] ELSE e[i - Len(h)]
    BY <1>3, <1>4, ConcatProperties
  <2>. QED BY <2>1, <2>2
<1>8. he[Len(h)].kind = "escape" /\ \A j \in 1 .. 50 : he[Len(h) + j] = Raw(1)
  <2>1. Len(h) \in 1 .. Len(h) + 50 /\ Len(h) <= Len(h)
    BY <1>3
  <2>2. ASSUME NEW j \in 1 .. 50 PROVE he[Len(h) + j] = Raw(1)
    <3>1. Len(h) + j \in 1 .. Len(h) + 50 /\ ~(Len(h) + j <= Len(h)) /\ (Len(h) + j) - Len(h) = j
      BY <1>3
    <3>. QED BY <1>4, <1>7, <3>1
  <2>3. he[Len(h)] = h[Len(h)]
    BY <1>7, <2>1
  <2>. QED BY <1>3, <2>2, <2>3
<1>. HIDE DEF he
<1>9. /\ sw \in Seq(Quiet) /\ Len(sw) \in Nat /\ Len(h) + 50 <= Len(sw)
      /\ \A i \in 1 .. Len(h) + 50 : sw[i] = he[i]
  BY <1>5, <1>7 DEF Grows
<1>10. sw[Len(h)].kind = "escape" /\ \A j \in 1 .. 6 : sw[Len(h) + j] = Raw(1)
  <2>1. Len(h) \in 1 .. Len(h) + 50 /\ \A j \in 1 .. 6 : Len(h) + j \in 1 .. Len(h) + 50 /\ j \in 1 .. 50
    BY <1>3
  <2>2. \A j \in 1 .. 6 : sw[Len(h) + j] = he[Len(h) + j]
    BY <1>9, <2>1
  <2>. QED BY <1>8, <1>9, <2>1, <2>2
<1>11. /\ l \in Seq(Quiet) /\ Len(l) = Len(pre) + Len(sw)
       /\ \A i \in 1 .. Len(pre) + Len(sw) : l[i] = IF i <= Len(pre) THEN pre[i] ELSE sw[i - Len(pre)]
  BY <1>6, <1>9, ConcatProperties
<1>. HIDE DEF l
<1>12. \A i \in 1 .. Len(h) + 6 : l[Len(pre) + i] = sw[i]
  <2>1. ASSUME NEW i \in 1 .. Len(h) + 6 PROVE l[Len(pre) + i] = sw[i]
    <3>1. Len(pre) + i \in 1 .. Len(pre) + Len(sw) /\ ~(Len(pre) + i <= Len(pre)) /\ (Len(pre) + i) - Len(pre) = i
      BY <1>3, <1>6, <1>9
    <3>. QED BY <1>11, <3>1
  <2>. QED BY <2>1
<1>13. a \in Nat \ {0} /\ a + 6 <= Len(l)
  BY <1>3, <1>6, <1>9, <1>11
<1>14. l[a].kind = "escape"
  <2>1. Len(h) \in 1 .. Len(h) + 6
    BY <1>3
  <2>. QED BY <1>10, <1>12, <2>1
<1>15. ASSUME NEW j \in 1 .. 6 PROVE l[a + j] = Raw(1)
  <2>1. Len(h) + j \in 1 .. Len(h) + 6 /\ Len(pre) + (Len(h) + j) = a + j
    BY <1>3, <1>6
  <2>. QED BY <1>10, <1>12, <2>1
<1>16. WalkAt(s, a)
  BY <1>2, <1>11, <1>13, <1>14, <1>15 DEF WalkAt
<1>. HIDE DEF a
<1>. QED BY <1>13, <1>16 DEF Walk

-------------------------------------------------------------------------------
(* A chip that does not follow the switch                                  *)

Mute == jtag_mode = 2 /\ ~chip.adapter

\* TDI stays where it is, so that no operation selects DMI again; the
\* start-up's edges have put Test-Logic-Reset before the first access.
MuteInv ==
  Mute =>
    /\ Drawn(setup, chip.isr)
    /\ call = StartCall /\ phase = "launch" =>
         /\ k \in Walk(setup) .. Walk(setup) + 5 => tck = 0 /\ Highs(chip.tap) <= 5 - (k - Walk(setup))
         /\ k > Walk(setup) + 5 => Drawn(setup, chip.ir)
    /\ call = StartCall /\ phase # "launch" => Drawn(setup, chip.ir)
    /\ call \notin {NoCall, StartCall} => cjtag_mode /\ Drawn(setup, chip.ir) /\ ops = <<>>
    /\ call = NoCall /\ at # Unnamed => Drawn(setup, chip.ir)

LEMMA InitMute == Init => MuteInv
<1>. SUFFICES ASSUME Init PROVE MuteInv
  OBVIOUS
<1>1. PICK a \in BOOLEAN : chip = [Reset EXCEPT !.adapter = a]
  BY DEF Init
<1>2. Drawn(setup, chip.isr)
  BY <1>1, DrawnCodes DEF Reset
<1>3. call = NoCall /\ at = Unnamed /\ NoCall # StartCall
  BY DEF Init, NoCall, StartCall
<1>. QED BY <1>2, <1>3 DEF MuteInv

LEMMA StartMute ==
  ASSUME StepInv, Start
  PROVE  MuteInv'
<1>1. /\ setup' = setup /\ setup \in Setups /\ call' = StartCall /\ phase' = "launch" /\ k' = 0
      /\ StartCall # NoCall
  BY DEF StepInv, BaseType, Start, StartCall, NoCall
<1>. SUFFICES ASSUME Mute' PROVE MuteInv'
  BY DEF MuteInv
<1>2. Drawn(setup', chip'.isr)
  <2>1. ~chip'.adapter
    BY DEF Mute
  <2>2. chip' \in AnywhereWithout
    <3>1. CASE chip.adapter
      <4>1. PICK formats : formats = IF setup = <<"C", 2>> THEN Formats ELSE {"four_wire"}
        OBVIOUS
      <4>2. formats \in SUBSET Formats /\ chip' \in Anywhere(formats)
        BY <3>1, <4>1 DEF Start, Formats
      <4>. QED BY <2>1, <4>2, MetWith
    <3>2. CASE ~chip.adapter
      BY <3>2 DEF Start
    <3>. QED BY <3>1, <3>2
  <2>3. PICK s \in TapStates, code \in {IdcodeCode, DmiCode}, r \in Remains : chip' = FoundWithout(s, code, r)
    BY <2>2 DEF AnywhereWithout
  <2>4. PICK b : b = FALSE
    OBVIOUS
  <2>5. chip' = [Reset EXCEPT !.adapter = b, !.tap = s, !.ir = code, !.sr = r]
    BY <2>3, <2>4 DEF FoundWithout
  <2>6. chip'.isr = IdcodeCode
    BY <2>5 DEF Reset
  <2>. QED BY <2>6, DrawnCodes
<1>3. setup[2] = 2
  BY <1>1 DEF Mute, jtag_mode
<1>4. Walk(setup) \in Nat \ {0}
  BY <1>1, <1>3, StartWalk
<1>5. k' \notin Walk(setup') .. Walk(setup') + 5 /\ ~(k' > Walk(setup') + 5)
  BY <1>1, <1>4
<1>. QED BY <1>1, <1>2, <1>5 DEF MuteInv

\* The operation that Step carries out, and what it leaves of the chip.
LEMMA StepOp ==
  ASSUME StepInv, Step
  PROVE  /\ call \in Calls /\ phase \in Phases /\ k \in Nat /\ k' = k + 1 /\ k + 1 \in 1 .. Len(list)
         /\ list = Lists[setup][call][phase]
         /\ list[k + 1] \in PinOps /\ at' = list[k + 1].at
         /\ UNCHANGED <<setup, call, phase, timeout>>
         /\ Pulsed(list[k + 1]) \in Chips
         /\ tck' = IF list[k + 1].kind = "high" THEN 1 ELSE 0
         /\ \E w \in [1 .. DmiWidth -> Bit] : chip' = [Pulsed(list[k + 1]) EXCEPT !.answer = w]
<1>1. /\ BaseType /\ setup \in Setups /\ call \in Calls /\ phase \in Phases
      /\ On(setup, call, phase, k, View)
  BY DEF StepInv, Step, BaseType
<1>2. k < Len(list) /\ k' = k + 1 /\ UNCHANGED <<setup, call, phase, timeout>>
  BY DEF Step
<1>3. k \in 0 .. Len(list)
  BY <1>1 DEF On, list
<1>4. Len(list) \in Nat
  <2>1. list \in Seq(PinOps)
    BY <1>1, ListsLead DEF Leads, list, Phases
  <2>. QED BY <2>1
<1>5. k \in Nat /\ k + 1 \in 1 .. Len(list)
  BY <1>2, <1>3, <1>4
<1>6. list[k + 1] \in PinOps
  <2>1. k + 1 \in 1 .. Len(Lists[setup][call][phase])
    BY <1>5 DEF list
  <2>2. Lists[setup][call][phase][k + 1] \in PinOps
    BY <1>1, <2>1, ListOps
  <2>. QED BY <2>2 DEF list
<1>. DEFINE op == list[k + 1]
<1>7. Pulsed(op) \in Chips
  <2>1. ChipGoes(chip, Pulsed(op), op)
    BY <1>1, <1>6, ChipPulsed DEF BaseType
  <2>. QED BY <2>1 DEF ChipGoes
<1>8. /\ \E w \in Answers \cup {chip.answer} : chip' = [Pulsed(op) EXCEPT !.answer = w]
      /\ tck' = IF op.kind = "high" THEN 1 ELSE 0
  <2>1. Does(op)
    BY StepDoes
  <2>. QED BY <2>1 DEF Does
<1>9. \E w \in [1 .. DmiWidth -> Bit] : chip' = [Pulsed(op) EXCEPT !.answer = w]
  <2>1. chip.answer \in [1 .. DmiWidth -> Bit]
    BY <1>1 DEF BaseType, Chips
  <2>. QED BY <1>8, <2>1, ScanAssumption
<1>10. at' = op.at
  BY StepDoes
<1>. QED BY <1>1, <1>2, <1>5, <1>6, <1>7, <1>8, <1>9, <1>10 DEF list

LEMMA StepMute ==
  ASSUME StepInv, MuteInv, Step
  PROVE  MuteInv'
<1>. DEFINE op == list[k + 1]  d == Pulsed(op)  a == Walk(setup)
<1>1. /\ call \in Calls /\ phase \in Phases /\ k \in Nat /\ k' = k + 1 /\ k + 1 \in 1 .. Len(list)
      /\ list = Lists[setup][call][phase]
      /\ op \in PinOps /\ at' = op.at
      /\ UNCHANGED <<setup, call, phase, timeout>> /\ d \in Chips
      /\ tck' = IF op.kind = "high" THEN 1 ELSE 0
  BY StepOp
<1>2. PICK w \in [1 .. DmiWidth -> Bit] : chip' = [d EXCEPT !.answer = w]
  BY StepOp
<1>3. /\ chip'.adapter = d.adapter /\ chip'.isr = d.isr /\ chip'.ir = d.ir /\ chip'.tap = d.tap
  BY <1>1, <1>2 DEF Chips
<1>4. d.adapter = chip.adapter /\ setup \in Setups /\ chip \in Chips /\ cjtag_mode \in BOOLEAN /\ tck \in Bit
  <2>1. BaseType
    BY DEF StepInv
  <2>2. ChipGoes(chip, Pulsed(op), op)
    BY <1>1, <2>1, ChipPulsed DEF BaseType
  <2>. QED BY <2>1, <2>2 DEF BaseType, ChipGoes
<1>. SUFFICES ASSUME Mute' PROVE MuteInv'
  BY DEF MuteInv
<1>5. Mute /\ ~chip.adapter /\ setup[2] = 2
  BY <1>1, <1>3, <1>4 DEF Mute, jtag_mode
<1>6. Drawn(setup, chip.isr) /\ call # NoCall
  BY <1>1, <1>5, NoCallIsNone DEF MuteInv
<1>7. a \in Nat \ {0} /\ WalkAt(setup, a)
  BY <1>4, <1>5, StartWalk
<1>. HIDE DEF a, d
<1>8. CASE call = StartCall
  <2>1. call.f = "start" /\ call' = StartCall /\ phase' = phase /\ StartCall # NoCall
    BY <1>1, <1>8 DEF StartCall, NoCall
  <2>3. phase = "launch"
    <3>1. CASE phase \in {"fetch", "leave"}
      <4>1. list = <<>>
        BY <1>1, <1>4, <2>1, <3>1 DEF Lists
      <4>. QED BY <1>1, <4>1
    <3>. QED BY <1>1, <3>1 DEF Phases
  <2>4. op \in Quiet
    <3>1. list \in Seq(Quiet)
      BY <1>1, <1>7, <1>8, <2>3 DEF WalkAt
    <3>2. k + 1 \in 1 .. Len(list)
      BY <1>1
    <3>. QED BY <3>1, <3>2
  <2>5. /\ Drawn(setup, d.isr) /\ (Drawn(setup, chip.ir) => Drawn(setup, d.ir))
        /\ op.kind = "raw" /\ tck = 0 =>
              /\ d.tap = TapNext(chip.tap, op.tms)
              /\ chip.tap = "TEST_LOGIC_RESET" => Drawn(setup, d.ir)
    BY <1>1, <1>4, <1>5, <1>6, <2>4, MutePulse DEF Quiet, d
  <2>6. /\ k \in a .. a + 5 => tck = 0 /\ Highs(chip.tap) <= 5 - (k - a)
        /\ k > a + 5 => Drawn(setup, chip.ir)
    BY <1>5, <1>8, <2>3 DEF MuteInv, a
  <2>7. chip.tap \in TapStates /\ d.tap \in TapStates
    BY <1>1, <1>4 DEF Chips
  <2>8. k + 1 \in a .. a + 5 => tck' = 0 /\ Highs(d.tap) <= 5 - ((k + 1) - a)
    <3>1. CASE k + 1 = a
      <4>1. op.kind = "escape"
        BY <1>1, <1>7, <1>8, <2>3, <3>1 DEF WalkAt
      <4>2. tck' = 0
        BY <1>1, <4>1
      <4>3. Highs(d.tap) <= 5
        BY <2>7, AllHighs
      <4>4. 5 - ((k + 1) - a) = 5
        BY <1>1, <1>7, <3>1
      <4>. QED BY <4>2, <4>3, <4>4
    <3>2. CASE k \in a .. a + 4
      <4>1. op = Raw(1)
        <5>1. (k + 1) - a \in 1 .. 6 /\ a + ((k + 1) - a) = k + 1
          BY <1>1, <1>7, <3>2
        <5>2. list[a + ((k + 1) - a)] = Raw(1)
          BY <1>1, <1>7, <1>8, <2>3, <5>1 DEF WalkAt
        <5>. QED BY <5>1, <5>2
      <4>2. op.kind = "raw" /\ op.tms = 1
        BY <4>1, TmsOps DEF Bit
      <4>3. tck = 0 /\ Highs(chip.tap) <= 5 - (k - a)
        BY <1>1, <1>7, <2>6, <3>2
      <4>4. tck' = 0 /\ d.tap = TapNext(chip.tap, 1)
        BY <1>1, <2>5, <4>2, <4>3
      <4>5. Highs(chip.tap) \in 0 .. 5 /\ Highs(d.tap) = IF Highs(chip.tap) = 0 THEN 0 ELSE Highs(chip.tap) - 1
        BY <2>7, <4>4, HighsCounted
      <4>. QED BY <1>1, <1>7, <3>2, <4>3, <4>4, <4>5
    <3>3. k + 1 \in a .. a + 5 => k + 1 = a \/ k \in a .. a + 4
      BY <1>1, <1>7
    <3>. QED BY <3>1, <3>2, <3>3
  <2>9. k + 1 > a + 5 => Drawn(setup, d.ir)
    <3>1. CASE k = a + 5
      <4>1. op = Raw(1)
        <5>1. (k + 1) - a \in 1 .. 6 /\ a + ((k + 1) - a) = k + 1
          BY <1>1, <1>7, <3>1
        <5>2. list[a + ((k + 1) - a)] = Raw(1)
          BY <1>1, <1>7, <1>8, <2>3, <5>1 DEF WalkAt
        <5>. QED BY <5>1, <5>2
      <4>2. op.kind = "raw" /\ op.tms = 1
        BY <4>1, TmsOps DEF Bit
      <4>3. tck = 0 /\ Highs(chip.tap) <= 0
        BY <1>1, <1>7, <2>6, <3>1
      <4>4. Highs(chip.tap) = 0
        BY <2>7, <4>3, HighsCounted
      <4>5. chip.tap = "TEST_LOGIC_RESET"
        BY <2>7, <4>4, HighsCounted
      <4>. QED BY <2>5, <4>2, <4>3, <4>5
    <3>2. CASE k > a + 5
      BY <2>5, <2>6, <3>2
    <3>3. k + 1 > a + 5 => k = a + 5 \/ k > a + 5
      BY <1>1, <1>7
    <3>. QED BY <3>1, <3>2, <3>3
  <2>10. Walk(setup') = a /\ k' = k + 1 /\ Drawn(setup, chip'.isr) /\ chip'.tap = d.tap /\ chip'.ir = d.ir /\ phase' = "launch"
    BY <1>1, <1>3, <2>3, <2>5 DEF a
  <2>. QED BY <1>1, <2>1, <2>8, <2>9, <2>10 DEF MuteInv
<1>9. CASE call # StartCall
  <2>1. cjtag_mode = TRUE /\ Drawn(setup, chip.ir) /\ ops = <<>>
    BY <1>4, <1>5, <1>6, <1>9 DEF MuteInv
  <2>2. op \in Packets
    <3>1. list \in Seq(Packets)
      BY <1>1, <1>4, <1>9, PacketLists
    <3>2. k + 1 \in 1 .. Len(list)
      BY <1>1
    <3>. QED BY <3>1, <3>2
  <2>3. Drawn(setup, d.isr) /\ Drawn(setup, d.ir) /\ ~Updates(op)
    BY <1>1, <1>4, <1>5, <1>6, <2>1, MutePulse DEF d
  <2>5. ops' = ops
    BY <2>3 DEF Step
  <2>6. cjtag_mode' = cjtag_mode
    BY <2>2 DEF Step, Packets
  <2>. QED BY <1>1, <1>3, <1>6, <1>9, <2>1, <2>3, <2>5, <2>6 DEF MuteInv
<1>. QED BY <1>8, <1>9

LEMMA CallMute ==
  ASSUME StepInv, MuteInv, NEW c \in Calls \ {StartCall}, Call(c)
  PROVE  MuteInv'
<1>1. /\ call = NoCall /\ at # Unnamed /\ call' = c /\ ops' = <<>>
      /\ UNCHANGED <<setup, cjtag_mode, tck, chip, monitor>>
  BY DEF Call
<1>. SUFFICES ASSUME Mute' PROVE MuteInv'
  BY DEF MuteInv
<1>2. Mute /\ setup[2] = 2
  BY <1>1 DEF Mute, jtag_mode
<1>3. Drawn(setup, chip.isr) /\ Drawn(setup, chip.ir)
  BY <1>1, <1>2 DEF MuteInv
<1>4. View \in Idle(setup) /\ setup \in Setups /\ cjtag_mode \in BOOLEAN
  BY <1>1 DEF StepInv, BaseType
<1>5. View.two = TwoWire(setup) /\ TwoWire(setup) = TRUE
  BY <1>2, <1>4 DEF Idle, At, Here, TwoWire
<1>6. cjtag_mode = TRUE
  BY <1>5, ViewIs
<1>7. c # StartCall /\ c # NoCall
  BY NoCallIsNone
<1>. QED BY <1>1, <1>3, <1>6, <1>7 DEF MuteInv

\* A list is done: the start-up's has been walked.
LEMMA TakenMute ==
  ASSUME StepInv, MuteInv, call # NoCall, k = Len(list), call' = call, phase' \in {"fetch", "leave"},
         UNCHANGED <<setup, cjtag_mode, tck, chip, monitor, ops>>
  PROVE  MuteInv'
<1>. SUFFICES ASSUME Mute' PROVE MuteInv'
  BY DEF MuteInv
<1>1. Mute /\ setup[2] = 2 /\ setup \in Setups /\ phase \in Phases
  BY DEF Mute, jtag_mode, StepInv, BaseType
<1>2. Drawn(setup, chip.isr)
  BY <1>1 DEF MuteInv
<1>3. call = StartCall => Drawn(setup, chip.ir)
  <2>1. ASSUME call = StartCall, phase = "launch" PROVE Drawn(setup, chip.ir)
    <3>1. Walk(setup) \in Nat /\ Walk(setup) + 6 <= k /\ k \in Nat
      <4>1. list = Lists[setup][StartCall]["launch"]
        BY <2>1 DEF list
      <4>2. WalkAt(setup, Walk(setup)) /\ Walk(setup) \in Nat
        BY <1>1, StartWalk
      <4>3. list \in Seq(Quiet) /\ Walk(setup) + 6 <= Len(list)
        BY <4>1, <4>2 DEF WalkAt
      <4>. QED BY <4>2, <4>3
    <3>2. k > Walk(setup) + 5
      BY <3>1
    <3>. QED BY <1>1, <2>1, <3>2 DEF MuteInv
  <2>2. ASSUME call = StartCall, phase # "launch" PROVE Drawn(setup, chip.ir)
    BY <1>1, <2>2 DEF MuteInv
  <2>. QED BY <2>1, <2>2
<1>4. call \notin {NoCall, StartCall} => cjtag_mode /\ Drawn(setup, chip.ir) /\ ops = <<>>
  BY <1>1 DEF MuteInv
<1>. QED BY <1>2, <1>3, <1>4 DEF MuteInv

LEMMA ReturnMute ==
  ASSUME StepInv, MuteInv, Return
  PROVE  MuteInv'
<1>1. call # NoCall /\ call' = NoCall /\ phase = "leave" /\ UNCHANGED <<setup, chip, ops>>
  BY DEF Return
<1>2. Mute' => Mute
  BY <1>1 DEF Mute, jtag_mode
<1>3. NoCall # StartCall
  BY DEF NoCall, StartCall
<1>4. Mute => Drawn(setup, chip.isr) /\ Drawn(setup, chip.ir)
  BY <1>1 DEF MuteInv
<1>. QED BY <1>1, <1>2, <1>3, <1>4 DEF MuteInv

LEMMA NextMute ==
  ASSUME StepInv, MuteInv, [Next]_vars
  PROVE  MuteInv'
<1>1. CASE Start
  BY <1>1, StartMute
<1>2. ASSUME NEW c \in Calls \ {StartCall}, Call(c)
      PROVE  MuteInv'
  BY <1>2, CallMute
<1>3. CASE Step
  BY <1>3, StepMute
<1>4. CASE Launched
  <2>1. /\ call # NoCall /\ k = Len(list) /\ call' = call /\ phase' \in {"fetch", "leave"}
        /\ UNCHANGED <<setup, cjtag_mode, tck, chip, monitor, ops>>
    BY <1>4 DEF Launched
  <2>. QED BY <2>1, TakenMute
<1>5. CASE Fetched
  <2>1. /\ call # NoCall /\ k = Len(list) /\ call' = call /\ phase' \in {"fetch", "leave"}
        /\ UNCHANGED <<setup, cjtag_mode, tck, chip, monitor, ops>>
    BY <1>5 DEF Fetched
  <2>. QED BY <2>1, TakenMute
<1>6. CASE Return
  BY <1>6, ReturnMute
<1>7. CASE UNCHANGED vars
  <2>1. UNCHANGED <<setup, cjtag_mode, tck, chip, call, phase, k, at, ops>>
    BY <1>7 DEF vars
  <2>. QED BY <2>1 DEF MuteInv, Mute, jtag_mode
<1>. QED BY <1>1, <1>2, <1>3, <1>4, <1>5, <1>6, <1>7 DEF Next

LEMMA InvMute == Spec => [](StepInv /\ MuteInv)
<1>1. Init => MuteInv
  BY InitMute
<1>2. StepInv /\ MuteInv /\ [Next]_vars => MuteInv'
  BY NextMute
<1>. QED BY <1>1, <1>2, InvSteps, PTL DEF Spec

\* Whatever a chip that does not follow the switch makes of the two wires, and
\* of each of the three clocks of a packet, no access reaches its DMI register.
THEOREM NothingReachesMuteHolds == Spec => []NothingReachesMute
<1>1. MuteInv => NothingReachesMute
  BY DEF MuteInv, Mute, NothingReachesMute
<1>. QED BY <1>1, InvMute, PTL

-------------------------------------------------------------------------------
(* The registers of the driver                                             *)

\* temp_tdo_reg moves down by one bit.
LEMMA ShiftIns ==
  ASSUME NEW r, PartsOK(r), NEW b \in Bit
  PROVE  /\ PartsOK(ShiftIn(r, b)) /\ TdiBit(ShiftIn(r, b), 41) = b
         /\ \A j \in 1 .. 40 : TdiBit(ShiftIn(r, b), j) = TdiBit(r, j + 1)
<1>. DEFINE s == ShiftIn(r, b)
<1>1. r.low \in [1 .. 2 -> Bit] /\ r.mid \in [1 .. 32 -> Bit] /\ r.high \in [1 .. 7 -> Bit]
  BY DEF PartsOK
<1>2. r.mid[1] \in Bit /\ r.high[1] \in Bit
  BY <1>1
<1>3. /\ s.low = Append(Tail(r.low), r.mid[1]) /\ s.mid = Append(Tail(r.mid), r.high[1])
      /\ s.high = Append(Tail(r.high), b)
  BY DEF ShiftIn
<1>4. /\ s.low \in [1 .. 2 -> Bit] /\ s.low[2] = r.mid[1]
      /\ \A i \in 1 .. 1 : s.low[i] = r.low[i + 1]
  <2>1. PICK n \in Nat \ {0} : n = 2 /\ n - 1 = 1
    OBVIOUS
  <2>2. r.low \in [1 .. n -> Bit]
    BY <1>1, <2>1
  <2>. HIDE DEF s
  <2>3. PICK q, x : q = r.low /\ x = r.mid[1]
    OBVIOUS
  <2>4. q \in [1 .. n -> Bit] /\ x \in Bit /\ s.low = Append(Tail(q), x)
    BY <1>2, <1>3, <2>2, <2>3
  <2>5. /\ s.low \in [1 .. n -> Bit] /\ s.low[n] = x
        /\ \A i \in 1 .. n - 1 : s.low[i] = q[i + 1]
    BY <2>4, Pushed
  <2>. QED BY <2>1, <2>3, <2>5
<1>5. /\ s.mid \in [1 .. 32 -> Bit] /\ s.mid[32] = r.high[1]
      /\ \A i \in 1 .. 31 : s.mid[i] = r.mid[i + 1]
  <2>1. PICK n \in Nat \ {0} : n = 32 /\ n - 1 = 31
    OBVIOUS
  <2>2. r.mid \in [1 .. n -> Bit]
    BY <1>1, <2>1
  <2>. HIDE DEF s
  <2>3. PICK q, x : q = r.mid /\ x = r.high[1]
    OBVIOUS
  <2>4. q \in [1 .. n -> Bit] /\ x \in Bit /\ s.mid = Append(Tail(q), x)
    BY <1>2, <1>3, <2>2, <2>3
  <2>5. /\ s.mid \in [1 .. n -> Bit] /\ s.mid[n] = x
        /\ \A i \in 1 .. n - 1 : s.mid[i] = q[i + 1]
    BY <2>4, Pushed
  <2>. QED BY <2>1, <2>3, <2>5
<1>6. /\ s.high \in [1 .. 7 -> Bit] /\ s.high[7] = b
      /\ \A i \in 1 .. 6 : s.high[i] = r.high[i + 1]
  <2>1. PICK n \in Nat \ {0} : n = 7 /\ n - 1 = 6
    OBVIOUS
  <2>2. r.high \in [1 .. n -> Bit]
    BY <1>1, <2>1
  <2>. HIDE DEF s
  <2>3. PICK q, x : q = r.high /\ x = b
    OBVIOUS
  <2>4. q \in [1 .. n -> Bit] /\ x \in Bit /\ s.high = Append(Tail(q), x)
    BY <1>2, <1>3, <2>2, <2>3
  <2>5. /\ s.high \in [1 .. n -> Bit] /\ s.high[n] = x
        /\ \A i \in 1 .. n - 1 : s.high[i] = q[i + 1]
    BY <2>4, Pushed
  <2>. QED BY <2>1, <2>3, <2>5
<1>. HIDE DEF s
<1>7. TdiBit(s, 41) = b
  BY <1>6 DEF TdiBit
<1>8. ASSUME NEW j \in 1 .. 40 PROVE TdiBit(s, j) = TdiBit(r, j + 1)
  <2>1. CASE j = 1
    BY <1>4, <2>1 DEF TdiBit
  <2>2. CASE j = 2
    BY <1>4, <2>2 DEF TdiBit
  <2>3. CASE j \in 3 .. 33
    <3>1. j - 2 \in 1 .. 31 /\ ~(j <= 2) /\ ~(j + 1 <= 2) /\ j \in 3 .. 34 /\ j + 1 \in 3 .. 34 /\ (j + 1) - 2 = (j - 2) + 1
      BY <2>3
    <3>2. TdiBit(s, j) = s.mid[j - 2] /\ TdiBit(r, j + 1) = r.mid[(j + 1) - 2]
      BY <3>1 DEF TdiBit
    <3>. QED BY <1>5, <3>1, <3>2
  <2>4. CASE j = 34
    <3>1. TdiBit(s, j) = s.mid[32] /\ TdiBit(r, j + 1) = r.high[1]
      BY <2>4 DEF TdiBit
    <3>. QED BY <1>5, <3>1
  <2>5. CASE j \in 35 .. 40
    <3>1. j - 34 \in 1 .. 6 /\ ~(j <= 2) /\ ~(j + 1 <= 2) /\ j \notin 3 .. 34 /\ j + 1 \notin 3 .. 34 /\ (j + 1) - 34 = (j - 34) + 1
      BY <2>5
    <3>2. TdiBit(s, j) = s.high[j - 34] /\ TdiBit(r, j + 1) = r.high[(j + 1) - 34]
      BY <3>1 DEF TdiBit
    <3>. QED BY <1>6, <3>1, <3>2
  <2>. QED BY <2>1, <2>2, <2>3, <2>4, <2>5
<1>9. PartsOK(s)
  BY <1>4, <1>5, <1>6 DEF PartsOK
<1>. QED BY <1>7, <1>8, <1>9 DEF s

\* The three parts are one word of 41 bits.
LEMMA WordBits ==
  ASSUME NEW p, PartsOK(p)
  PROVE  /\ Word(p) \in [1 .. 41 -> Bit] /\ Word(p) \in Seq(Bit) /\ Len(Word(p)) = 41
         /\ \A j \in 1 .. 41 : Word(p)[j] = TdiBit(p, j)
<1>1. p.low \in [1 .. 2 -> Bit] /\ p.mid \in [1 .. 32 -> Bit] /\ p.high \in [1 .. 7 -> Bit]
  BY DEF PartsOK
<1>2. PICK n2 \in Nat, n32 \in Nat, n7 \in Nat : n2 = 2 /\ n32 = 32 /\ n7 = 7
  OBVIOUS
<1>3. /\ p.low \in Seq(Bit) /\ Len(p.low) = 2 /\ p.mid \in Seq(Bit) /\ Len(p.mid) = 32
      /\ p.high \in Seq(Bit) /\ Len(p.high) = 7
  <2>1. p.low \in [1 .. n2 -> Bit] /\ p.mid \in [1 .. n32 -> Bit] /\ p.high \in [1 .. n7 -> Bit]
    BY <1>1, <1>2
  <2>2. p.low \in Seq(Bit) /\ Len(p.low) = n2
    BY <2>1, OfLength
  <2>3. p.mid \in Seq(Bit) /\ Len(p.mid) = n32
    BY <2>1, OfLength
  <2>4. p.high \in Seq(Bit) /\ Len(p.high) = n7
    BY <2>1, OfLength
  <2>. QED BY <1>2, <2>2, <2>3, <2>4
<1>. DEFINE a == p.low \o p.mid  w == a \o p.high
<1>4. /\ a \in Seq(Bit) /\ Len(a) = 34
      /\ \A j \in 1 .. 34 : a[j] = IF j <= 2 THEN p.low[j] ELSE p.mid[j - 2]
  <2>1. a \in Seq(Bit) /\ Len(a) = Len(p.low) + Len(p.mid)
    BY <1>3, ConcatProperties
  <2>2. \A j \in 1 .. Len(p.low) + Len(p.mid) : a[j] = IF j <= Len(p.low) THEN p.low[j] ELSE p.mid[j - Len(p.low)]
    BY <1>3, ConcatProperties
  <2>. HIDE DEF a
  <2>3. ASSUME NEW j \in 1 .. 34 PROVE a[j] = IF j <= 2 THEN p.low[j] ELSE p.mid[j - 2]
    <3>1. j \in 1 .. Len(p.low) + Len(p.mid)
      BY <1>3
    <3>. QED BY <1>3, <2>2, <3>1
  <2>. QED BY <1>3, <2>1, <2>3
<1>. HIDE DEF a
<1>5. /\ w \in Seq(Bit) /\ Len(w) = 41
      /\ \A j \in 1 .. 41 : w[j] = IF j <= 34 THEN a[j] ELSE p.high[j - 34]
  <2>1. w \in Seq(Bit) /\ Len(w) = Len(a) + Len(p.high)
    BY <1>3, <1>4, ConcatProperties
  <2>2. \A j \in 1 .. Len(a) + Len(p.high) : w[j] = IF j <= Len(a) THEN a[j] ELSE p.high[j - Len(a)]
    BY <1>3, <1>4, ConcatProperties
  <2>. HIDE DEF w
  <2>3. ASSUME NEW j \in 1 .. 41 PROVE w[j] = IF j <= 34 THEN a[j] ELSE p.high[j - 34]
    <3>1. j \in 1 .. Len(a) + Len(p.high)
      BY <1>3, <1>4
    <3>. QED BY <1>3, <1>4, <2>2, <3>1
  <2>4. Len(w) = 41
    BY <1>3, <1>4, <2>1
  <2>. QED BY <2>1, <2>3, <2>4
<1>. HIDE DEF w
<1>6. ASSUME NEW j \in 1 .. 41 PROVE w[j] = TdiBit(p, j)
  <2>1. CASE j <= 2
    <3>1. j \in 1 .. 34 /\ j <= 34
      BY <2>1
    <3>2. w[j] = a[j] /\ a[j] = p.low[j]
      BY <1>4, <1>5, <2>1, <3>1
    <3>3. TdiBit(p, j) = p.low[j]
      BY <2>1 DEF TdiBit
    <3>. QED BY <3>2, <3>3
  <2>2. CASE j \in 3 .. 34
    <3>1. j \in 1 .. 34 /\ ~(j <= 2) /\ j <= 34
      BY <2>2
    <3>. QED BY <1>4, <1>5, <2>2, <3>1 DEF TdiBit
  <2>3. CASE j \in 35 .. 41
    <3>1. j \notin 3 .. 34 /\ ~(j <= 2) /\ ~(j <= 34)
      BY <2>3
    <3>. QED BY <1>5, <3>1 DEF TdiBit
  <2>. QED BY <2>1, <2>2, <2>3
<1>7. w \in [1 .. 41 -> Bit]
  BY <1>5, AsFunction
<1>. QED BY <1>5, <1>6, <1>7 DEF w, a, Word

\* tdo_reg: the last n bits that came in, moved down.
LEMMA Results ==
  ASSUME NEW r, PartsOK(r), NEW n \in {32, 41}
  PROVE  /\ PartsOK(Result(r, n))
         /\ \A j \in 1 .. 41 : TdiBit(Result(r, n), j) = IF j <= n THEN TdiBit(r, j + (41 - n)) ELSE 0
<1>. DEFINE s == Result(r, n)
<1>1. CASE n = 41
  <2>1. s = r
    BY <1>1, ScanAssumption DEF Result
  <2>. QED BY <1>1, <2>1
<1>2. CASE n = 32
  <2>0. n # DmiWidth
    BY <1>2, ScanAssumption
  <2>. DEFINE a == SubSeq(r.mid, 10, 32)  b == a \o r.high  z == Times(2, 0)  m == b \o z  l == SubSeq(r.mid, 8, 9)
  <2>1. s = [low |-> l, mid |-> m, high |-> Zeros.high]
    BY <2>0 DEF Result
  <2>2. r.low \in [1 .. 2 -> Bit] /\ r.mid \in [1 .. 32 -> Bit] /\ r.high \in [1 .. 7 -> Bit]
    BY DEF PartsOK
  <2>3. /\ r.mid \in Seq(Bit) /\ Len(r.mid) = 32 /\ r.high \in Seq(Bit) /\ Len(r.high) = 7
    <3>1. PICK n32 \in Nat, n7 \in Nat : n32 = 32 /\ n7 = 7
      OBVIOUS
    <3>2. r.mid \in [1 .. n32 -> Bit] /\ r.high \in [1 .. n7 -> Bit]
      BY <2>2, <3>1
    <3>3. r.mid \in Seq(Bit) /\ Len(r.mid) = n32
      BY <3>2, OfLength
    <3>4. r.high \in Seq(Bit) /\ Len(r.high) = n7
      BY <3>2, OfLength
    <3>. QED BY <3>1, <3>3, <3>4
  <2>4. l \in Seq(Bit) /\ Len(l) = 2 /\ \A i \in 1 .. 2 : l[i] = r.mid[i + 7]
    <3>1. PICK x \in Int, y \in Int : x = 8 /\ y = 9
      OBVIOUS
    <3>2. \A i \in x .. y : r.mid[i] \in Bit
      BY <2>2, <3>1
    <3>3. SubSeq(r.mid, x, y) \in Seq(Bit) /\ Len(SubSeq(r.mid, x, y)) = IF x <= y THEN y - x + 1 ELSE 0
      BY <2>3, <3>1, <3>2, SubSeqProperties
    <3>4. \A i \in 1 .. y - x + 1 : SubSeq(r.mid, x, y)[i] = r.mid[x + i - 1]
      BY <2>3, <3>1, <3>2, SubSeqProperties
    <3>5. \A i \in 1 .. 2 : SubSeq(r.mid, x, y)[i] = r.mid[i + 7]
      BY <3>1, <3>4
    <3>. QED BY <3>1, <3>3, <3>5
  <2>5. a \in Seq(Bit) /\ Len(a) = 23 /\ \A i \in 1 .. 23 : a[i] = r.mid[i + 9]
    <3>1. PICK x \in Int, y \in Int : x = 10 /\ y = 32
      OBVIOUS
    <3>2. \A i \in x .. y : r.mid[i] \in Bit
      BY <2>2, <3>1
    <3>3. SubSeq(r.mid, x, y) \in Seq(Bit) /\ Len(SubSeq(r.mid, x, y)) = IF x <= y THEN y - x + 1 ELSE 0
      BY <2>3, <3>1, <3>2, SubSeqProperties
    <3>4. \A i \in 1 .. y - x + 1 : SubSeq(r.mid, x, y)[i] = r.mid[x + i - 1]
      BY <2>3, <3>1, <3>2, SubSeqProperties
    <3>5. \A i \in 1 .. 23 : SubSeq(r.mid, x, y)[i] = r.mid[i + 9]
      BY <3>1, <3>4
    <3>. QED BY <3>1, <3>3, <3>5
  <2>6. z \in Seq(Bit) /\ Len(z) = 2 /\ \A i \in 1 .. 2 : z[i] = 0
    <3>1. PICK x \in Nat : x = 2
      OBVIOUS
    <3>2. 0 \in Bit
      BY DEF Bit
    <3>3. Times(x, 0) \in Seq(Bit) /\ Len(Times(x, 0)) = x /\ \A i \in 1 .. x : Times(x, 0)[i] = 0
      BY <3>2, TimesOf
    <3>. QED BY <3>1, <3>3
  <2>. HIDE DEF a, l, z
  <2>7. b \in Seq(Bit) /\ Len(b) = 30 /\ \A i \in 1 .. 30 : b[i] = IF i <= 23 THEN a[i] ELSE r.high[i - 23]
    <3>1. b \in Seq(Bit) /\ Len(b) = Len(a) + Len(r.high)
      BY <2>3, <2>5, ConcatProperties
    <3>2. \A i \in 1 .. Len(a) + Len(r.high) : b[i] = IF i <= Len(a) THEN a[i] ELSE r.high[i - Len(a)]
      BY <2>3, <2>5, ConcatProperties
    <3>. HIDE DEF b
    <3>3. ASSUME NEW i \in 1 .. 30 PROVE b[i] = IF i <= 23 THEN a[i] ELSE r.high[i - 23]
      <4>1. i \in 1 .. Len(a) + Len(r.high)
        BY <2>3, <2>5
      <4>. QED BY <2>5, <3>2, <4>1
    <3>4. Len(b) = 30
      BY <2>3, <2>5, <3>1
    <3>. QED BY <3>1, <3>3, <3>4
  <2>. HIDE DEF b
  <2>8. m \in Seq(Bit) /\ Len(m) = 32 /\ \A i \in 1 .. 32 : m[i] = IF i <= 30 THEN b[i] ELSE z[i - 30]
    <3>1. m \in Seq(Bit) /\ Len(m) = Len(b) + Len(z)
      BY <2>6, <2>7, ConcatProperties
    <3>2. \A i \in 1 .. Len(b) + Len(z) : m[i] = IF i <= Len(b) THEN b[i] ELSE z[i - Len(b)]
      BY <2>6, <2>7, ConcatProperties
    <3>. HIDE DEF m
    <3>3. ASSUME NEW i \in 1 .. 32 PROVE m[i] = IF i <= 30 THEN b[i] ELSE z[i - 30]
      <4>1. i \in 1 .. Len(b) + Len(z)
        BY <2>6, <2>7
      <4>. QED BY <2>7, <3>2, <4>1
    <3>4. Len(m) = 32
      BY <2>6, <2>7, <3>1
    <3>. QED BY <3>1, <3>3, <3>4
  <2>9. Zeros.high \in [1 .. 7 -> Bit] /\ \A i \in 1 .. 7 : Zeros.high[i] = 0
    BY ZerosOK DEF Zeros, Times
  <2>. HIDE DEF m, s
  <2>10. PartsOK(s)
    <3>1. l \in [1 .. 2 -> Bit] /\ m \in [1 .. 32 -> Bit]
      BY <2>4, <2>8, AsFunction
    <3>. QED BY <2>1, <2>9, <3>1 DEF PartsOK
  <2>11. ASSUME NEW j \in 1 .. 41 PROVE TdiBit(s, j) = IF j <= 32 THEN TdiBit(r, j + 9) ELSE 0
    <3>1. CASE j <= 2
      <4>1. j + 9 \in 3 .. 34 /\ ~(j + 9 <= 2) /\ (j + 9) - 2 = j + 7 /\ j \in 1 .. 2 /\ j <= 32
        BY <3>1
      <4>2. TdiBit(s, j) = l[j] /\ TdiBit(r, j + 9) = r.mid[(j + 9) - 2]
        BY <2>1, <3>1, <4>1 DEF TdiBit
      <4>. QED BY <2>4, <4>1, <4>2
    <3>2. CASE j \in 3 .. 25
      <4>1. /\ j + 9 \in 3 .. 34 /\ ~(j + 9 <= 2) /\ (j + 9) - 2 = (j - 2) + 9 /\ ~(j <= 2) /\ j \in 3 .. 34 /\ j <= 32
            /\ j - 2 \in 1 .. 32 /\ j - 2 <= 30 /\ j - 2 \in 1 .. 30 /\ j - 2 <= 23 /\ j - 2 \in 1 .. 23
        BY <3>2
      <4>2. TdiBit(s, j) = m[j - 2] /\ TdiBit(r, j + 9) = r.mid[(j + 9) - 2]
        BY <2>1, <4>1 DEF TdiBit
      <4>3. m[j - 2] = b[j - 2] /\ b[j - 2] = a[j - 2] /\ a[j - 2] = r.mid[(j - 2) + 9]
        BY <2>5, <2>7, <2>8, <4>1
      <4>. QED BY <4>1, <4>2, <4>3
    <3>3. CASE j \in 26 .. 32
      <4>1. /\ j + 9 \notin 3 .. 34 /\ ~(j + 9 <= 2) /\ (j + 9) - 34 = (j - 2) - 23 /\ ~(j <= 2) /\ j \in 3 .. 34 /\ j <= 32
            /\ j - 2 \in 1 .. 32 /\ j - 2 <= 30 /\ j - 2 \in 1 .. 30 /\ ~(j - 2 <= 23)
        BY <3>3
      <4>2. TdiBit(s, j) = m[j - 2] /\ TdiBit(r, j + 9) = r.high[(j + 9) - 34]
        BY <2>1, <4>1 DEF TdiBit
      <4>3. m[j - 2] = b[j - 2] /\ b[j - 2] = r.high[(j - 2) - 23]
        BY <2>7, <2>8, <4>1
      <4>. QED BY <4>1, <4>2, <4>3
    <3>4. CASE j \in 33 .. 34
      <4>1. /\ ~(j <= 2) /\ j \in 3 .. 34 /\ ~(j <= 32) /\ j - 2 \in 1 .. 32 /\ ~(j - 2 <= 30) /\ (j - 2) - 30 \in 1 .. 2
        BY <3>4
      <4>2. TdiBit(s, j) = m[j - 2]
        BY <2>1, <4>1 DEF TdiBit
      <4>3. m[j - 2] = z[(j - 2) - 30] /\ z[(j - 2) - 30] = 0
        BY <2>6, <2>8, <4>1
      <4>. QED BY <4>1, <4>2, <4>3
    <3>5. CASE j \in 35 .. 41
      <4>1. ~(j <= 2) /\ j \notin 3 .. 34 /\ ~(j <= 32) /\ j - 34 \in 1 .. 7
        BY <3>5
      <4>2. TdiBit(s, j) = Zeros.high[j - 34]
        BY <2>1, <4>1 DEF TdiBit
      <4>. QED BY <2>9, <4>1, <4>2
    <3>. QED BY <3>1, <3>2, <3>3, <3>4, <3>5
  <2>12. 41 - n = 9
    BY <1>2
  <2>. QED BY <1>2, <2>10, <2>11, <2>12 DEF s
<1>. QED BY <1>1, <1>2

-------------------------------------------------------------------------------
(* The lists of an access, operation by operation                          *)

Joins(r, l, m, a, b) ==
  /\ r \in Seq(Packets) /\ Len(r) = a + b
  /\ \A i \in 1 .. a : r[i] = l[i]
  /\ \A i \in 1 .. b : r[a + i] = m[i]

LEMMA JoinAt ==
  ASSUME NEW l \in Seq(Packets), NEW m \in Seq(Packets),
         NEW a \in Nat, NEW b \in Nat, Len(l) = a, Len(m) = b
  PROVE  Joins(l \o m, l, m, a, b)
<1>. DEFINE r == l \o m
<1>1. r \in Seq(Packets) /\ Len(r) = a + b
  BY ConcatProperties
<1>2. \A i \in 1 .. a + b : r[i] = IF i <= a THEN l[i] ELSE m[i - a]
  BY ConcatProperties
<1>. HIDE DEF r
<1>3. ASSUME NEW i \in 1 .. a PROVE r[i] = l[i]
  <2>1. i \in 1 .. a + b /\ i <= a
    OBVIOUS
  <2>. QED BY <1>2, <2>1
<1>4. ASSUME NEW i \in 1 .. b PROVE r[a + i] = m[i]
  <2>1. a + i \in 1 .. a + b /\ ~(a + i <= a) /\ (a + i) - a = i
    OBVIOUS
  <2>. QED BY <1>2, <2>1
<1>. QED BY <1>1, <1>3, <1>4 DEF r, Joins

Named(op, s) == op.kind = "packet" /\ op.at = s

LEMMA TmsNamed ==
  ASSUME NEW t \in Bit, NEW s \in TapStates
  PROVE  Tms(t, s) \in Packets /\ Named(Tms(t, s), s)
<1>1. Tms(t, s).kind = "packet" /\ Tms(t, s).at = s
  BY TmsOps
<1>. QED BY <1>1, TmsPackets DEF Named

LEMMA ToShiftIr ==
  LET l == jtag_idle_to_shift_ir IN
  /\ l \in Seq(Packets) /\ Len(l) = 4
  /\ Named(l[1], "SELECT_DR_SCAN") /\ Named(l[2], "SELECT_IR_SCAN")
  /\ Named(l[3], "CAPTURE_IR") /\ Named(l[4], "SHIFT_IR")
<1>. DEFINE a == Tms(1, "SELECT_DR_SCAN")  b == Tms(1, "SELECT_IR_SCAN")
            c == Tms(0, "CAPTURE_IR")  d == Tms(0, "SHIFT_IR")
<1>1. 0 \in Bit /\ 1 \in Bit /\ {"SELECT_DR_SCAN", "SELECT_IR_SCAN", "CAPTURE_IR", "SHIFT_IR"} \subseteq TapStates
  BY States DEF Bit
<1>2. /\ a \in Packets /\ Named(a, "SELECT_DR_SCAN") /\ b \in Packets /\ Named(b, "SELECT_IR_SCAN")
      /\ c \in Packets /\ Named(c, "CAPTURE_IR") /\ d \in Packets /\ Named(d, "SHIFT_IR")
  BY <1>1, TmsNamed
<1>3. jtag_idle_to_shift_ir = <<a, b, c, d>>
  BY DEF jtag_idle_to_shift_ir
<1>. HIDE DEF a, b, c, d
<1>. QED BY <1>2, <1>3

LEMMA ToShiftDr ==
  LET l == jtag_idle_to_shift_dr IN
  /\ l \in Seq(Packets) /\ Len(l) = 3
  /\ Named(l[1], "SELECT_DR_SCAN") /\ Named(l[2], "CAPTURE_DR") /\ Named(l[3], "SHIFT_DR")
<1>. DEFINE a == Tms(1, "SELECT_DR_SCAN")  b == Tms(0, "CAPTURE_DR")  c == Tms(0, "SHIFT_DR")
<1>1. 0 \in Bit /\ 1 \in Bit /\ {"SELECT_DR_SCAN", "CAPTURE_DR", "SHIFT_DR"} \subseteq TapStates
  BY States DEF Bit
<1>2. /\ a \in Packets /\ Named(a, "SELECT_DR_SCAN") /\ b \in Packets /\ Named(b, "CAPTURE_DR")
      /\ c \in Packets /\ Named(c, "SHIFT_DR")
  BY <1>1, TmsNamed
<1>3. jtag_idle_to_shift_dr = <<a, b, c>>
  BY DEF jtag_idle_to_shift_dr
<1>. HIDE DEF a, b, c
<1>. QED BY <1>2, <1>3

LEMMA ToIdle ==
  ASSUME NEW s \in TapStates
  PROVE  LET l == jtag_exit_to_idle(s) IN
         l \in Seq(Packets) /\ Len(l) = 2 /\ Named(l[1], s) /\ Named(l[2], "RUN_TEST_IDLE")
<1>. DEFINE a == Tms(1, s)  b == Tms(0, "RUN_TEST_IDLE")
<1>1. 0 \in Bit /\ 1 \in Bit /\ "RUN_TEST_IDLE" \in TapStates
  BY States DEF Bit
<1>2. a \in Packets /\ Named(a, s) /\ b \in Packets /\ Named(b, "RUN_TEST_IDLE")
  BY <1>1, TmsNamed
<1>3. jtag_exit_to_idle(s) = <<a, b>>
  BY DEF jtag_exit_to_idle
<1>. HIDE DEF a, b
<1>. QED BY <1>2, <1>3

LEMMA LeaveForm ==
  /\ Leave \in Seq(Packets) /\ Len(Leave) = 12
  /\ Named(Leave[1], "UPDATE_DR") /\ \A i \in 2 .. 12 : Named(Leave[i], "RUN_TEST_IDLE")
<1>. DEFINE l == jtag_exit_to_idle("UPDATE_DR")  m == jtag_keep_in_idle(10)
<1>1. "UPDATE_DR" \in TapStates /\ "RUN_TEST_IDLE" \in TapStates /\ 0 \in Bit
  BY States DEF Bit
<1>2. l \in Seq(Packets) /\ Len(l) = 2 /\ Named(l[1], "UPDATE_DR") /\ Named(l[2], "RUN_TEST_IDLE")
  BY <1>1, ToIdle
<1>3. m \in Seq(Packets) /\ Len(m) = 10 /\ \A i \in 1 .. 10 : Named(m[i], "RUN_TEST_IDLE")
  <2>1. PICK n \in Nat : n = 10
    OBVIOUS
  <2>2. Tms(0, "RUN_TEST_IDLE") \in Packets /\ Named(Tms(0, "RUN_TEST_IDLE"), "RUN_TEST_IDLE")
    BY <1>1, TmsNamed
  <2>3. PICK op : op = Tms(0, "RUN_TEST_IDLE")
    OBVIOUS
  <2>4. Times(n, op) \in Seq(Packets) /\ Len(Times(n, op)) = n /\ \A j \in 1 .. n : Times(n, op)[j] = op
    BY <2>2, <2>3, TimesOf
  <2>5. m = Times(n, op)
    BY <2>1, <2>3 DEF jtag_keep_in_idle
  <2>. QED BY <2>1, <2>2, <2>3, <2>4, <2>5
<1>4. Leave = l \o m
  BY DEF Leave
<1>. HIDE DEF l, m
<1>5. PICK a \in Nat, b \in Nat : a = 2 /\ b = 10
  OBVIOUS
<1>6. /\ Leave \in Seq(Packets) /\ Len(Leave) = a + b
      /\ \A i \in 1 .. a : Leave[i] = l[i]
      /\ \A i \in 1 .. b : Leave[a + i] = m[i]
  <2>1. Joins(l \o m, l, m, a, b)
    BY <1>2, <1>3, <1>5, JoinAt
  <2>. QED BY <1>4, <2>1 DEF Joins
<1>7. Leave[1] = l[1] /\ Leave[2] = l[2]
  BY <1>5, <1>6
<1>8. ASSUME NEW i \in 3 .. 12 PROVE Named(Leave[i], "RUN_TEST_IDLE")
  <2>1. i - 2 \in 1 .. b /\ a + (i - 2) = i
    BY <1>5
  <2>2. Leave[i] = m[i - 2]
    BY <1>6, <2>1
  <2>. QED BY <1>3, <1>5, <2>1, <2>2
<1>9. \A i \in 2 .. 12 : i = 2 \/ i \in 3 .. 12
  OBVIOUS
<1>. QED BY <1>2, <1>5, <1>6, <1>7, <1>8, <1>9

\* Operation j of a scan of n bits.
Bits(op, p, j, n) ==
  /\ op.kind = "bit" /\ op.tdi = TdiBit(p, j)
  /\ op.tms = IF j < n THEN 0 ELSE 1
  /\ op.at = IF j < n THEN "SHIFT_DR" ELSE "EXIT1_DR"

LEMMA DrBits ==
  ASSUME NEW p, PartsOK(p), NEW n \in Nat, n \in 1 .. 41
  PROVE  \A j \in 1 .. n : Bits(send_dr(p, n)[j], p, j, n)
BY DrPackets DEF Bits

LEMMA FetchForm ==
  /\ Fetch \in Seq(Packets) /\ Len(Fetch) = 56
  /\ Named(Fetch[1], "UPDATE_DR") /\ \A i \in 2 .. 12 : Named(Fetch[i], "RUN_TEST_IDLE")
  /\ Named(Fetch[13], "SELECT_DR_SCAN") /\ Named(Fetch[14], "CAPTURE_DR") /\ Named(Fetch[15], "SHIFT_DR")
  /\ \A j \in 1 .. 41 : Bits(Fetch[15 + j], Zeros, j, 41)
<1>. DEFINE m == jtag_idle_to_shift_dr  r == send_dr(Zeros, 41)  lm == Leave \o m
<1>1. PICK a \in Nat, b \in Nat, c \in Nat, n \in Nat : a = 12 /\ b = 3 /\ c = a + b /\ n = 41 /\ n \in 1 .. 41
  OBVIOUS
<1>2. r \in Seq(Packets) /\ Len(r) = n /\ \A j \in 1 .. n : Bits(r[j], Zeros, j, n)
  <2>1. PartsOK(Zeros)
    BY ZerosOK
  <2>2. r = send_dr(Zeros, n)
    BY <1>1
  <2>3. r \in Seq(Packets) /\ Len(r) = n
    BY <1>1, <2>1, <2>2, DrPackets
  <2>. QED BY <1>1, <2>1, <2>2, <2>3, DrBits
<1>3. m \in Seq(Packets) /\ Len(m) = b
  BY <1>1, ToShiftDr
<1>4. Leave \in Seq(Packets) /\ Len(Leave) = a
  BY <1>1, LeaveForm
<1>5. Fetch = lm \o r
  BY ScanAssumption DEF Fetch
<1>. HIDE DEF m, r
<1>6. lm \in Seq(Packets) /\ Len(lm) = c /\ (\A i \in 1 .. a : lm[i] = Leave[i]) /\ \A i \in 1 .. b : lm[a + i] = m[i]
  <2>1. Joins(lm, Leave, m, a, b)
    BY <1>3, <1>4, JoinAt
  <2>. HIDE DEF lm
  <2>. QED BY <1>1, <2>1 DEF Joins
<1>. HIDE DEF lm
<1>7. Fetch \in Seq(Packets) /\ Len(Fetch) = c + n /\ (\A i \in 1 .. c : Fetch[i] = lm[i]) /\ \A i \in 1 .. n : Fetch[c + i] = r[i]
  <2>1. Joins(lm \o r, lm, r, c, n)
    BY <1>1, <1>2, <1>6, JoinAt
  <2>. QED BY <1>5, <2>1 DEF Joins
<1>8. ASSUME NEW i \in 1 .. 12 PROVE Fetch[i] = Leave[i]
  <2>1. i \in 1 .. a /\ i \in 1 .. c
    BY <1>1
  <2>. QED BY <1>6, <1>7, <2>1
<1>9. Fetch[13] = m[1] /\ Fetch[14] = m[2] /\ Fetch[15] = m[3]
  <2>1. ASSUME NEW i \in 1 .. 3 PROVE Fetch[12 + i] = m[i]
    <3>1. i \in 1 .. b /\ a + i \in 1 .. c /\ a + i = 12 + i
      BY <1>1
    <3>. QED BY <1>6, <1>7, <3>1
  <2>. QED BY <2>1
<1>10. \A j \in 1 .. 41 : Bits(Fetch[15 + j], Zeros, j, 41)
  <2>1. ASSUME NEW j \in 1 .. 41 PROVE Bits(Fetch[15 + j], Zeros, j, 41)
    <3>1. j \in 1 .. n /\ c + j = 15 + j
      BY <1>1
    <3>2. Fetch[15 + j] = r[j]
      BY <1>7, <3>1
    <3>. QED BY <1>1, <1>2, <3>1, <3>2
  <2>. QED BY <2>1
<1>. QED BY <1>1, <1>7, <1>8, <1>9, <1>10, LeaveForm, ToShiftDr DEF m

LEMMA IrOps ==
  ASSUME NEW code \in [1 .. 5 -> Bit]
  PROVE  LET l == send_ir(code) IN
         \A j \in 1 .. 5 : Named(l[j], IF j < 5 THEN "SHIFT_IR" ELSE "EXIT1_IR") /\ l[j].tdi = code[j]
BY DEF send_ir, Op, Named

LEMMA AccessForm ==
  ASSUME NEW code \in [1 .. 5 -> Bit], NEW p, PartsOK(p), NEW n \in Nat, n \in 1 .. 41
  PROVE  LET l == Access(code, p, n) IN
         /\ l \in Seq(Packets) /\ Len(l) = 14 + n
         /\ Named(l[1], "SELECT_DR_SCAN") /\ Named(l[2], "SELECT_IR_SCAN")
         /\ Named(l[3], "CAPTURE_IR") /\ Named(l[4], "SHIFT_IR")
         /\ \A j \in 1 .. 5 : Named(l[4 + j], IF j < 5 THEN "SHIFT_IR" ELSE "EXIT1_IR") /\ l[4 + j].tdi = code[j]
         /\ Named(l[10], "UPDATE_IR") /\ Named(l[11], "RUN_TEST_IDLE")
         /\ Named(l[12], "SELECT_DR_SCAN") /\ Named(l[13], "CAPTURE_DR") /\ Named(l[14], "SHIFT_DR")
         /\ \A j \in 1 .. n : Bits(l[14 + j], p, j, n)
<1>. DEFINE l1 == jtag_idle_to_shift_ir  l2 == send_ir(code)  l3 == jtag_exit_to_idle("UPDATE_IR")
            l4 == jtag_idle_to_shift_dr  l5 == send_dr(p, n)
            a == l1 \o l2  b == a \o l3  c == b \o l4  l == c \o l5
<1>1. PICK n2 \in Nat, n3 \in Nat, n4 \in Nat, n5 \in Nat, n9 \in Nat, n11 \in Nat, n14 \in Nat :
        /\ n2 = 2 /\ n3 = 3 /\ n4 = 4 /\ n5 = 5 /\ n9 = 9 /\ n11 = 11 /\ n14 = 14
        /\ n4 + n5 = n9 /\ n9 + n2 = n11 /\ n11 + n3 = n14
  OBVIOUS
<1>2. /\ l1 \in Seq(Packets) /\ Len(l1) = n4
      /\ Named(l1[1], "SELECT_DR_SCAN") /\ Named(l1[2], "SELECT_IR_SCAN")
      /\ Named(l1[3], "CAPTURE_IR") /\ Named(l1[4], "SHIFT_IR")
  BY <1>1, ToShiftIr
<1>3. /\ l2 \in Seq(Packets) /\ Len(l2) = n5
      /\ \A j \in 1 .. 5 : Named(l2[j], IF j < 5 THEN "SHIFT_IR" ELSE "EXIT1_IR") /\ l2[j].tdi = code[j]
  BY <1>1, IrPackets, IrOps
<1>4. l3 \in Seq(Packets) /\ Len(l3) = n2 /\ Named(l3[1], "UPDATE_IR") /\ Named(l3[2], "RUN_TEST_IDLE")
  <2>1. "UPDATE_IR" \in TapStates
    BY States
  <2>. QED BY <1>1, <2>1, ToIdle
<1>5. /\ l4 \in Seq(Packets) /\ Len(l4) = n3
      /\ Named(l4[1], "SELECT_DR_SCAN") /\ Named(l4[2], "CAPTURE_DR") /\ Named(l4[3], "SHIFT_DR")
  BY <1>1, ToShiftDr
<1>6. l5 \in Seq(Packets) /\ Len(l5) = n /\ \A j \in 1 .. n : Bits(l5[j], p, j, n)
  BY DrPackets, DrBits
<1>7. Access(code, p, n) = l
  BY DEF Access
<1>. HIDE DEF l1, l2, l3, l4, l5
<1>8. a \in Seq(Packets) /\ Len(a) = n9 /\ (\A i \in 1 .. n4 : a[i] = l1[i]) /\ \A i \in 1 .. n5 : a[n4 + i] = l2[i]
  <2>1. Joins(a, l1, l2, n4, n5)
    BY <1>2, <1>3, JoinAt
  <2>. HIDE DEF a
  <2>. QED BY <1>1, <2>1 DEF Joins
<1>. HIDE DEF a
<1>9. b \in Seq(Packets) /\ Len(b) = n11 /\ (\A i \in 1 .. n9 : b[i] = a[i]) /\ \A i \in 1 .. n2 : b[n9 + i] = l3[i]
  <2>1. Joins(b, a, l3, n9, n2)
    BY <1>4, <1>8, JoinAt
  <2>. HIDE DEF b
  <2>. QED BY <1>1, <2>1 DEF Joins
<1>. HIDE DEF b
<1>10. c \in Seq(Packets) /\ Len(c) = n14 /\ (\A i \in 1 .. n11 : c[i] = b[i]) /\ \A i \in 1 .. n3 : c[n11 + i] = l4[i]
  <2>1. Joins(c, b, l4, n11, n3)
    BY <1>5, <1>9, JoinAt
  <2>. HIDE DEF c
  <2>. QED BY <1>1, <2>1 DEF Joins
<1>. HIDE DEF c
<1>11. l \in Seq(Packets) /\ Len(l) = n14 + n /\ (\A i \in 1 .. n14 : l[i] = c[i]) /\ \A i \in 1 .. n : l[n14 + i] = l5[i]
  <2>1. Joins(l, c, l5, n14, n)
    BY <1>6, <1>10, JoinAt
  <2>. HIDE DEF l
  <2>. QED BY <1>1, <2>1 DEF Joins
<1>. HIDE DEF l
<1>12. ASSUME NEW i \in 1 .. 4 PROVE l[i] = l1[i]
  <2>1. i \in 1 .. n4 /\ i \in 1 .. n9 /\ i \in 1 .. n11 /\ i \in 1 .. n14
    BY <1>1
  <2>2. l[i] = c[i] /\ c[i] = b[i] /\ b[i] = a[i] /\ a[i] = l1[i]
    BY <1>8, <1>9, <1>10, <1>11, <2>1
  <2>. QED BY <2>2
<1>13. ASSUME NEW i \in 1 .. 5 PROVE l[4 + i] = l2[i]
  <2>1. i \in 1 .. n5 /\ 4 + i \in 1 .. n9 /\ 4 + i \in 1 .. n11 /\ 4 + i \in 1 .. n14 /\ n4 + i = 4 + i
    BY <1>1
  <2>2. l[4 + i] = c[4 + i] /\ c[4 + i] = b[4 + i] /\ b[4 + i] = a[4 + i] /\ a[4 + i] = l2[i]
    BY <1>8, <1>9, <1>10, <1>11, <2>1
  <2>. QED BY <2>2
<1>14. ASSUME NEW i \in 1 .. 2 PROVE l[9 + i] = l3[i]
  <2>1. i \in 1 .. n2 /\ 9 + i \in 1 .. n11 /\ 9 + i \in 1 .. n14 /\ n9 + i = 9 + i
    BY <1>1
  <2>2. l[9 + i] = c[9 + i] /\ c[9 + i] = b[9 + i] /\ b[9 + i] = l3[i]
    BY <1>9, <1>10, <1>11, <2>1
  <2>. QED BY <2>2
<1>15. ASSUME NEW i \in 1 .. 3 PROVE l[11 + i] = l4[i]
  <2>1. i \in 1 .. n3 /\ 11 + i \in 1 .. n14 /\ n11 + i = 11 + i
    BY <1>1
  <2>2. l[11 + i] = c[11 + i] /\ c[11 + i] = l4[i]
    BY <1>10, <1>11, <2>1
  <2>. QED BY <2>2
<1>16. \A i \in 1 .. n : l[14 + i] = l5[i]
  BY <1>1, <1>11
<1>17. Len(l) = 14 + n
  BY <1>1, <1>11
<1>18. /\ Named(l[1], "SELECT_DR_SCAN") /\ Named(l[2], "SELECT_IR_SCAN")
       /\ Named(l[3], "CAPTURE_IR") /\ Named(l[4], "SHIFT_IR")
  <2>1. l[1] = l1[1] /\ l[2] = l1[2] /\ l[3] = l1[3] /\ l[4] = l1[4]
    BY <1>12
  <2>. QED BY <1>2, <2>1
<1>19. Named(l[10], "UPDATE_IR") /\ Named(l[11], "RUN_TEST_IDLE")
  <2>1. l[9 + 1] = l3[1] /\ l[9 + 2] = l3[2]
    BY <1>14
  <2>. QED BY <1>4, <2>1
<1>20. Named(l[12], "SELECT_DR_SCAN") /\ Named(l[13], "CAPTURE_DR") /\ Named(l[14], "SHIFT_DR")
  <2>1. l[11 + 1] = l4[1] /\ l[11 + 2] = l4[2] /\ l[11 + 3] = l4[3]
    BY <1>15
  <2>. QED BY <1>5, <2>1
<1>21. \A j \in 1 .. 5 : Named(l[4 + j], IF j < 5 THEN "SHIFT_IR" ELSE "EXIT1_IR") /\ l[4 + j].tdi = code[j]
  BY <1>3, <1>13
<1>22. \A j \in 1 .. n : Bits(l[14 + j], p, j, n)
  BY <1>6, <1>16
<1>. QED BY <1>7, <1>11, <1>17, <1>18, <1>19, <1>20, <1>21, <1>22

-------------------------------------------------------------------------------
(* A scan, bit by bit                                                      *)

\* j of n bits are through: the register holds what is left of the capture and
\* then what came in, temp_tdo_reg what went out.
ScanAt(sr, cap, t, j, n, p) ==
  /\ cap \in [1 .. n -> Bit] /\ sr \in [1 .. n -> Bit]
  /\ \A i \in 1 .. n - j : sr[i] = cap[j + i]
  /\ \A i \in 1 .. j : sr[(n - j) + i] = TdiBit(p, i)
  /\ \A i \in 1 .. j : TdiBit(t, (41 - j) + i) = cap[i]

LEMMA ScanBegins ==
  ASSUME NEW n \in Nat, NEW cap \in [1 .. n -> Bit], NEW t, NEW p
  PROVE  ScanAt(cap, cap, t, 0, n, p)
BY DEF ScanAt

LEMMA ScanStep ==
  ASSUME NEW n \in Nat, n \in 1 .. 41, NEW j \in Nat, j < n, NEW p, PartsOK(p), NEW t, PartsOK(t),
         NEW sr, NEW cap, ScanAt(sr, cap, t, j, n, p)
  PROVE  ScanAt(Append(Tail(sr), TdiBit(p, j + 1)), cap, ShiftIn(t, sr[1]), j + 1, n, p)
<1>. DEFINE m == j + 1  b == TdiBit(p, m)  r == Append(Tail(sr), b)  u == ShiftIn(t, sr[1])
<1>1. /\ cap \in [1 .. n -> Bit] /\ sr \in [1 .. n -> Bit]
      /\ \A i \in 1 .. n - j : sr[i] = cap[j + i]
      /\ \A i \in 1 .. j : sr[(n - j) + i] = TdiBit(p, i)
      /\ \A i \in 1 .. j : TdiBit(t, (41 - j) + i) = cap[i]
  BY DEF ScanAt
<1>2. n \in Nat \ {0} /\ 1 \in 1 .. n /\ 1 \in 1 .. n - j /\ m \in 1 .. n /\ m \in 1 .. 41
  OBVIOUS
<1>3. sr[1] \in Bit /\ sr[1] = cap[m]
  BY <1>1, <1>2
<1>4. b \in Bit
  BY <1>2, TdiBits
<1>. HIDE DEF b
<1>5. r \in [1 .. n -> Bit] /\ r[n] = b /\ \A i \in 1 .. n - 1 : r[i] = sr[i + 1]
  BY <1>1, <1>2, <1>4, Pushed
<1>6. TdiBit(u, 41) = sr[1] /\ \A i \in 1 .. 40 : TdiBit(u, i) = TdiBit(t, i + 1)
  BY <1>3, ShiftIns
<1>. HIDE DEF r, u
<1>7. ASSUME NEW i \in 1 .. n - m PROVE r[i] = cap[m + i]
  <2>1. i \in 1 .. n - 1 /\ i + 1 \in 1 .. n - j /\ j + (i + 1) = m + i
    OBVIOUS
  <2>2. r[i] = sr[i + 1] /\ sr[i + 1] = cap[j + (i + 1)]
    BY <1>1, <1>5, <2>1
  <2>. QED BY <2>1, <2>2
<1>8. ASSUME NEW i \in 1 .. m PROVE r[(n - m) + i] = TdiBit(p, i)
  <2>1. CASE i = m
    <3>1. (n - m) + i = n
      BY <1>2, <2>1
    <3>. QED BY <1>5, <2>1, <3>1 DEF b
  <2>2. CASE i \in 1 .. j
    <3>1. (n - m) + i \in 1 .. n - 1 /\ ((n - m) + i) + 1 = (n - j) + i
      BY <2>2
    <3>2. r[(n - m) + i] = sr[((n - m) + i) + 1]
      BY <1>5, <3>1
    <3>. QED BY <1>1, <2>2, <3>1, <3>2
  <2>. QED BY <2>1, <2>2
<1>9. ASSUME NEW i \in 1 .. m PROVE TdiBit(u, (41 - m) + i) = cap[i]
  <2>1. CASE i = m
    <3>1. (41 - m) + i = 41
      BY <2>1
    <3>. QED BY <1>3, <1>6, <2>1, <3>1
  <2>2. CASE i \in 1 .. j
    <3>1. (41 - m) + i \in 1 .. 40 /\ ((41 - m) + i) + 1 = (41 - j) + i
      BY <1>2, <2>2
    <3>2. TdiBit(u, (41 - m) + i) = TdiBit(t, ((41 - m) + i) + 1)
      BY <1>6, <3>1
    <3>. QED BY <1>1, <2>2, <3>1, <3>2
  <2>. QED BY <2>1, <2>2
<1>10. ScanAt(r, cap, u, m, n, p)
  <2>. HIDE DEF m
  <2>. QED BY <1>1, <1>5, <1>7, <1>8, <1>9 DEF ScanAt
<1>. QED BY <1>10 DEF r, u, b

\* All of it is through.
LEMMA ScanEnds ==
  ASSUME NEW n \in {32, 41}, NEW p, PartsOK(p), NEW t, PartsOK(t), NEW sr, NEW cap, ScanAt(sr, cap, t, n, n, p)
  PROVE  /\ n = 41 => sr = Word(p)
         /\ \A i \in 1 .. 41 : TdiBit(Result(t, n), i) = IF i <= n THEN cap[i] ELSE 0
<1>1. /\ cap \in [1 .. n -> Bit] /\ sr \in [1 .. n -> Bit]
      /\ \A i \in 1 .. n : sr[(n - n) + i] = TdiBit(p, i)
      /\ \A i \in 1 .. n : TdiBit(t, (41 - n) + i) = cap[i]
  BY DEF ScanAt
<1>2. ASSUME n = 41 PROVE sr = Word(p)
  <2>1. sr \in [1 .. 41 -> Bit]
    BY <1>1, <1>2
  <2>2. Word(p) \in [1 .. 41 -> Bit] /\ \A i \in 1 .. 41 : Word(p)[i] = TdiBit(p, i)
    BY WordBits
  <2>3. ASSUME NEW i \in 1 .. 41 PROVE sr[i] = Word(p)[i]
    <3>1. i \in 1 .. n /\ (n - n) + i = i
      BY <1>2
    <3>. QED BY <1>1, <2>2, <3>1
  <2>. HIDE DEF Word
  <2>. QED BY <2>1, <2>2, <2>3
<1>3. ASSUME NEW i \in 1 .. 41 PROVE TdiBit(Result(t, n), i) = IF i <= n THEN cap[i] ELSE 0
  <2>1. TdiBit(Result(t, n), i) = IF i <= n THEN TdiBit(t, i + (41 - n)) ELSE 0
    BY Results
  <2>2. CASE i <= n
    <3>1. i \in 1 .. n /\ i + (41 - n) = (41 - n) + i
      BY <2>2
    <3>. QED BY <1>1, <2>1, <2>2, <3>1
  <2>3. CASE ~(i <= n)
    BY <2>1, <2>3
  <2>. QED BY <2>2, <2>3
<1>. QED BY <1>2, <1>3

-------------------------------------------------------------------------------
(* An access                                                               *)

\* The TAP is about to enter Update-DR after a scan that shifted, or nowhere
\* near it: the adapter takes no notice.
LEMMA PlainKept ==
  ASSUME NEW s \in TapStates, NEW n \in Nat, NEW fmt, s = "UPDATE_DR" => n # 0
  PROVE  Noted(Plain, s, n, fmt) = Plain
<1>1. Plain.level = "data" /\ Plain.ends = "none" /\ Plain.zbs = 0
  BY DEF Plain
<1>2. CASE s = "UPDATE_DR"
  <2>1. Noted(Plain, s, n, fmt) = [Plain EXCEPT !.zbs = 0, !.part = NoPart, !.level = "data"]
    BY <1>1, <1>2 DEF Noted
  <2>. QED BY <2>1 DEF Plain
<1>3. CASE s \in {"SELECT_IR_SCAN", "TEST_LOGIC_RESET"}
  <2>1. s # "UPDATE_DR"
    BY <1>3
  <2>2. PICK b : b = FALSE
    OBVIOUS
  <2>3. Noted(Plain, s, n, fmt) = [Plain EXCEPT !.zbs = 0, !.level = "data", !.part = NoPart,
                                              !.reading = b, !.ends = "none"]
    BY <1>3, <2>1, <2>2 DEF Noted
  <2>. QED BY <2>2, <2>3 DEF Plain
<1>4. CASE s \notin {"UPDATE_DR", "SELECT_IR_SCAN", "TEST_LOGIC_RESET"}
  BY <1>1, <1>4 DEF Noted
<1>. QED BY <1>2, <1>3, <1>4

\* What a clock of the TAP does to the scan: the chip's registers and those
\* of the driver.
Moves(op) ==
  /\ chip \in Chips /\ chip' \in Chips
  /\ chip'.sr = IF chip.tap = "SHIFT_DR" THEN Append(Tail(chip.sr), Line(op))
                ELSE IF chip.tap = "CAPTURE_DR" THEN Captured(chip) ELSE chip.sr
  /\ chip'.cap = IF chip.tap = "CAPTURE_DR" THEN Captured(chip) ELSE chip.cap
  /\ temp' = IF op.kind = "bit" THEN ShiftIn(temp, Tdo(chip)) ELSE Zeros
  /\ tdo' = IF op.kind = "bit" /\ op.tms = 1 THEN Result(temp', Size) ELSE tdo

\* send_tms_tdi or a bit of send_dr, when the chip takes it for one clock.
LEMMA Ticking ==
  ASSUME StepInv, Step, list[k + 1].kind \in {"packet", "bit"}, Clocks(View, list[k + 1])
  PROVE  LET op == list[k + 1] IN
         /\ Moves(op) /\ cjtag_mode' = cjtag_mode
         /\ chip'.adapter = chip.adapter /\ chip'.tap = TapNext(chip.tap, op.tms)
         /\ chip'.shifts = ShiftsAfter(chip.tap, chip.shifts)
         /\ AdapterOf(chip') = IF chip.adapter THEN Noted(AdapterOf(chip), chip'.tap, chip'.shifts, chip.fmt)
                               ELSE AdapterOf(chip)
         /\ chip'.isr = CASE chip.tap = "CAPTURE_IR" -> IdcodeCode
                          [] chip.tap = "SHIFT_IR"   -> Append(Tail(chip.isr), Line(op))
                          [] OTHER                -> chip.isr
         /\ chip'.ir = CASE chip.tap = "UPDATE_IR" -> chip.isr
                         [] chip.tap = "TEST_LOGIC_RESET" -> IdcodeCode
                         [] OTHER -> chip.ir
         /\ ops' = IF Updating(chip') THEN Append(ops, chip'.sr) ELSE ops
<1>. DEFINE op == list[k + 1]  d == Pulsed(op)
<1>1. op \in PinOps /\ d \in Chips
  BY StepOp
<1>2. PICK w \in [1 .. DmiWidth -> Bit] : chip' = [d EXCEPT !.answer = w]
  BY StepOp
<1>3. chip \in Chips /\ Muted(chip) /\ cjtag_mode \in BOOLEAN /\ tck \in Bit
  BY DEF StepInv, BaseType
<1>4. op.kind \in {"packet", "bit"} /\ op.tms \in Bit /\ op.tdi \in Bit /\ Clocks(View, op)
  BY <1>1, OpTypes
<1>5. ChipGoes(chip, d, op)
  BY <1>1, <1>3, ChipPulsed
<1>6. cjtag_mode' = cjtag_mode
  BY <1>4 DEF Step
<1>7. /\ temp' = IF op.kind = "bit" THEN ShiftIn(temp, Sampled(op)) ELSE Zeros
      /\ tdo' = IF op.kind = "bit" /\ op.tms = 1 THEN Result(temp', Size) ELSE tdo
      /\ ops' = IF Updates(op) THEN Append(ops, d.sr) ELSE ops
  BY DEF Step
<1>. HIDE DEF op
<1>8. /\ Sampled(op) = Tdo(chip)
      /\ cjtag_mode => OneClock(op).tap = chip.tap /\ TwoClocks(op).tap = chip.tap
  <2>1. CASE ~cjtag_mode
    BY <2>1 DEF Sampled
  <2>2. CASE cjtag_mode
    <3>1. tck = 0 /\ chip.adapter /\ chip.check = 0 /\ chip.fmt = "oscan1" /\ chip.slot = 0
      BY <1>1, <1>3, <1>4, <2>2, ViewTicks
    <3>. DEFINE f == Rise(chip, 1 - op.tdi, TdiPin(0))
                e == Rise(f, op.tms, TdiPin(0))
    <3>2. e.fmt = "oscan1" /\ e.slot = 2 /\ e.tap = chip.tap /\ e.sr = chip.sr /\ f.tap = chip.tap
      <4>1. PICK c, t, b, l : c = chip /\ t = op.tms /\ b = op.tdi /\ l = TdiPin(0)
        OBVIOUS
      <4>2. c \in Chips /\ t \in Bit /\ b \in Bit /\ c.adapter /\ c.check = 0 /\ c.fmt = "oscan1" /\ c.slot = 0
        BY <1>3, <1>4, <3>1, <4>1
      <4>3. /\ Ticked(c, Rise(Rise(Rise(c, 1 - b, l), t, l), 0, l), t, b)
            /\ LET x == Rise(Rise(c, 1 - b, l), t, l) IN
                 x.fmt = "oscan1" /\ x.slot = 2 /\ x.tap = c.tap /\ x.sr = c.sr
            /\ Rise(c, 1 - b, l).tap = c.tap
        BY <4>2, PacketTicks
      <4>. QED BY <4>1, <4>3
    <3>3. OneClock(op) = f /\ TwoClocks(op) = e
      BY <3>1 DEF TwoClocks, OneClock, First
    <3>. HIDE DEF e, f
    <3>4. Sampled(op) = Tdo(e)
      BY <2>2, <3>2, <3>3 DEF Sampled
    <3>. QED BY <3>2, <3>3, <3>4 DEF Tdo
  <2>. QED BY <1>3, <2>1, <2>2
<1>. HIDE DEF d
<1>9. Ticked(chip, d, op.tms, Line(op)) /\ Muted(d)
  BY <1>4, <1>5 DEF ChipGoes
<1>10. /\ chip' \in Chips /\ AdapterOf(chip') = AdapterOf(d)
       /\ chip'.adapter = d.adapter /\ chip'.tap = d.tap /\ chip'.shifts = d.shifts
       /\ chip'.ir = d.ir /\ chip'.isr = d.isr /\ chip'.sr = d.sr /\ chip'.cap = d.cap /\ chip'.level = d.level
  BY <1>1, <1>2, <1>9, AnsweredType DEF d
<1>11. Updates(op) <=> Updating(chip')
  <2>1. Updates(op) <=> chip.tap # "UPDATE_DR" /\ Updating(d)
    <3>1. CASE cjtag_mode
      BY <1>4, <1>8, <3>1, UpdatesPacket DEF Updating, d
    <3>2. CASE ~cjtag_mode
      BY <3>2, UpdatesClock DEF d
    <3>. QED BY <3>1, <3>2
  <2>2. chip.tap = "UPDATE_DR" => d.tap # "UPDATE_DR"
    <3>1. d.tap = TapNext(chip.tap, op.tms)
      BY <1>9 DEF Ticked
    <3>. QED BY <3>1 DEF TapNext, OnLow, OnHigh
  <2>. QED BY <1>10, <2>1, <2>2 DEF Updating
<1>12. Moves(op)
  <2>1. /\ chip'.sr = IF chip.tap = "SHIFT_DR" THEN Append(Tail(chip.sr), Line(op))
                      ELSE IF chip.tap = "CAPTURE_DR" THEN Captured(chip) ELSE chip.sr
        /\ chip'.cap = IF chip.tap = "CAPTURE_DR" THEN Captured(chip) ELSE chip.cap
    BY <1>9, <1>10 DEF Ticked
  <2>. QED BY <1>3, <1>7, <1>8, <1>10, <2>1 DEF Moves
<1>13. /\ chip'.adapter = chip.adapter /\ chip'.tap = TapNext(chip.tap, op.tms)
       /\ chip'.shifts = ShiftsAfter(chip.tap, chip.shifts)
  BY <1>9, <1>10 DEF Ticked
<1>14. AdapterOf(chip') = IF chip.adapter THEN Noted(AdapterOf(chip), chip'.tap, chip'.shifts, chip.fmt)
                          ELSE AdapterOf(chip)
  BY <1>9, <1>10 DEF Ticked
<1>15. /\ chip'.isr = CASE chip.tap = "CAPTURE_IR" -> IdcodeCode
                        [] chip.tap = "SHIFT_IR"   -> Append(Tail(chip.isr), Line(op))
                        [] OTHER                -> chip.isr
       /\ chip'.ir = CASE chip.tap = "UPDATE_IR" -> chip.isr
                       [] chip.tap = "TEST_LOGIC_RESET" -> IdcodeCode
                       [] OTHER -> chip.ir
  BY <1>9, <1>10 DEF Ticked
<1>16. ops' = IF Updating(chip') THEN Append(ops, chip'.sr) ELSE ops
  BY <1>7, <1>10, <1>11
<1>. QED BY <1>6, <1>12, <1>13, <1>14, <1>15, <1>16 DEF op

\* After the start-up the chip gets the bit that is sent.
LEMMA LineOf ==
  ASSUME cjtag_mode = TwoWire(setup), NEW op
  PROVE  Line(op) = op.tdi
BY DEF Line, TdiPin, TwoWire

\* One operation of an access, to a chip that follows it.
LEMMA Clocked ==
  ASSUME StepInv, Step, call # StartCall, Understood, at # Unnamed, AdapterOf(chip) = Plain,
         cjtag_mode = TwoWire(setup)
  PROVE  LET op == list[k + 1] IN
         /\ op \in Packets /\ chip \in Chips /\ chip' \in Chips /\ cjtag_mode' = cjtag_mode /\ at' = op.at
         /\ chip'.adapter = chip.adapter /\ chip'.tap = op.at /\ chip'.shifts = ShiftsAfter(chip.tap, chip.shifts)
         /\ AdapterOf(chip') = IF chip.adapter THEN Noted(Plain, op.at, chip'.shifts, chip.fmt) ELSE Plain
         /\ chip'.isr = CASE chip.tap = "CAPTURE_IR" -> IdcodeCode
                          [] chip.tap = "SHIFT_IR"   -> Append(Tail(chip.isr), op.tdi)
                          [] OTHER                -> chip.isr
         /\ chip'.ir = CASE chip.tap = "UPDATE_IR" -> chip.isr
                         [] chip.tap = "TEST_LOGIC_RESET" -> IdcodeCode
                         [] OTHER -> chip.ir
         /\ chip'.sr = IF chip.tap = "SHIFT_DR" THEN Append(Tail(chip.sr), op.tdi)
                       ELSE IF chip.tap = "CAPTURE_DR" THEN Captured(chip) ELSE chip.sr
         /\ chip'.cap = IF chip.tap = "CAPTURE_DR" THEN Captured(chip) ELSE chip.cap
         /\ temp' = IF op.kind = "bit" THEN ShiftIn(temp, Tdo(chip)) ELSE Zeros
         /\ tdo' = IF op.kind = "bit" /\ op.tms = 1 THEN Result(temp', Size) ELSE tdo
         /\ ops' = IF Updating(chip') THEN Append(ops, chip'.sr) ELSE ops
<1>. DEFINE op == list[k + 1]
<1>1. /\ call \in Calls /\ phase \in Phases /\ k \in Nat /\ k + 1 \in 1 .. Len(list)
      /\ list = Lists[setup][call][phase] /\ op \in PinOps /\ at' = op.at
  BY StepOp
<1>2. /\ setup \in Setups /\ chip \in Chips /\ cjtag_mode \in BOOLEAN /\ Fits(View, at)
  BY DEF StepInv, BaseType
<1>3. op \in Packets
  <2>1. list \in Seq(Packets)
    BY <1>1, <1>2, PacketLists
  <2>. HIDE DEF list
  <2>. QED BY <1>1, <2>1
<1>4. op.kind \in {"packet", "bit"} /\ op.at # Unnamed
  BY <1>3 DEF Packets
<1>5. chip.adapter \/ ~cjtag_mode
  BY DEF Understood
<1>6. Clocks(View, op)
  <2>1. chip.slot = 0 /\ chip.fmt = FormatOf(cjtag_mode) /\ tck = 0
    BY <1>2, <1>5, ViewIs DEF Fits
  <2>2. View.ad.check = 0
    BY ViewIs DEF Plain
  <2>. QED BY <1>4, <1>5, <2>1, <2>2, ViewIs DEF Clocks
<1>7. /\ Moves(op) /\ cjtag_mode' = cjtag_mode
      /\ chip'.adapter = chip.adapter /\ chip'.shifts = ShiftsAfter(chip.tap, chip.shifts)
      /\ AdapterOf(chip') = IF chip.adapter THEN Noted(AdapterOf(chip), chip'.tap, chip'.shifts, chip.fmt)
                            ELSE AdapterOf(chip)
      /\ chip'.isr = CASE chip.tap = "CAPTURE_IR" -> IdcodeCode
                       [] chip.tap = "SHIFT_IR"   -> Append(Tail(chip.isr), Line(op))
                       [] OTHER                -> chip.isr
      /\ chip'.ir = CASE chip.tap = "UPDATE_IR" -> chip.isr
                      [] chip.tap = "TEST_LOGIC_RESET" -> IdcodeCode
                      [] OTHER -> chip.ir
      /\ ops' = IF Updating(chip') THEN Append(ops, chip'.sr) ELSE ops
  BY <1>4, <1>6, Ticking
<1>8. chip'.tap = op.at
  <2>1. Fits(View, at)'
    BY StepSteps DEF StepInv
  <2>2. /\ View'.adapter = chip'.adapter /\ View'.two = cjtag_mode' /\ View'.tap = chip'.tap
    BY DEF View
  <2>. QED BY <1>1, <1>4, <1>5, <1>7, <2>1, <2>2 DEF Fits
<1>9. Line(op) = op.tdi
  BY LineOf
<1>. HIDE DEF op
<1>10. AdapterOf(chip') = IF chip.adapter THEN Noted(Plain, op.at, chip'.shifts, chip.fmt) ELSE Plain
  BY <1>7, <1>8
<1>. QED BY <1>1, <1>3, <1>7, <1>8, <1>9, <1>10 DEF op, Moves

Code(c) == IF c.f = "dtm" THEN DtmcsCode ELSE DmiCode
Data(c) == IF c.f = "dtm" THEN DtmData(c.word) ELSE Asked(c)

\* What Update-DR puts into the DMI register for the j-th time.
Put(j) == IF j = 1 THEN Word(Asked(call)) ELSE Word(Zeros)

\* tdo_reg holds the n bits captured.
Got(n) ==
  /\ chip.cap \in [1 .. n -> Bit]
  /\ \A i \in 1 .. 41 : TdiBit(tdo, i) = IF i <= n THEN chip.cap[i] ELSE 0

Placed == IF k > 0 THEN list[k].at ELSE IF phase = "launch" THEN "RUN_TEST_IDLE" ELSE "EXIT1_DR"

InLaunch ==
  /\ ops = <<>>
  /\ \A j \in 0 .. 5 : k = 4 + j => \A i \in 1 .. j : chip.isr[(5 - j) + i] = Code(call)[i]
  /\ k = 10 => chip.isr = Code(call)
  /\ k > 10 => chip.ir = Code(call)
  /\ \A j \in 0 .. Size : k = 14 + j => ScanAt(chip.sr, chip.cap, temp, j, Size, Data(call))
  /\ k = 14 + Size => Got(Size)

InFetch ==
  /\ chip.ir = Code(call)
  /\ k = 0 /\ chip.adapter => chip.shifts # 0
  /\ call.f = "dtm" => ops = <<>> /\ Got(32)
  /\ call.f # "dtm" =>
       /\ \A j \in 1 .. Len(ops) : ops[j] = Put(j)
       /\ k = 0 => chip.sr = Put(Len(ops) + 1)
       /\ k > 0 => Len(ops) > 0
       /\ \A j \in 0 .. 41 : k = 15 + j => ScanAt(chip.sr, chip.cap, temp, j, 41, Zeros)
       /\ k = 56 => Got(41)

InLeave ==
  /\ chip.ir = Code(call)
  /\ k = 0 /\ chip.adapter => chip.shifts # 0
  /\ Got(Size)
  /\ call.f = "dtm" => ops = <<>>
  /\ call.f # "dtm" =>
       /\ \A j \in 1 .. Len(ops) : ops[j] = Put(j)
       /\ k = 0 => chip.sr = Put(Len(ops) + 1)
       /\ Len(ops) > IF k = 0 THEN 0 ELSE 1

\* A call other than the start-up, with a chip that follows it.
Accessing == call \in Calls \ {StartCall} /\ Understood

AccessInv ==
  Accessing =>
    /\ AdapterOf(chip) = Plain /\ chip.tap = Placed
    /\ phase = "launch" => InLaunch
    /\ phase = "fetch" => InFetch
    /\ phase = "leave" => InLeave

DataInv ==
  /\ PartsOK(temp) /\ PartsOK(tdo) /\ ops \in Seq(Seq(Bit))
  /\ call \in Calls \ {StartCall} => at # Unnamed /\ cjtag_mode = TwoWire(setup)
  /\ AccessInv

LEMMA SizeOf ==
  ASSUME NEW c \in Calls \ {StartCall}
  PROVE  /\ c.f \in {"read", "write", "dtm"} /\ c \in Calls
         /\ Code(c) \in [1 .. 5 -> Bit] /\ PartsOK(Data(c))
<1>1. c.f \in {"read", "write", "dtm"} /\ c \in Calls
  BY DEF Calls, StartCall
<1>2. CASE c.f = "dtm"
  BY <1>1, <1>2, TapAssumption, CallForms, DtmDataOK DEF Code, Data
<1>3. CASE c.f \in {"read", "write"}
  BY <1>1, <1>3, TapAssumption, AskedOK DEF Code, Data
<1>. QED BY <1>1, <1>2, <1>3

LEMMA AccessLists ==
  ASSUME setup \in Setups, call \in Calls \ {StartCall}
  PROVE  /\ Size \in {32, 41} /\ Size = IF call.f = "dtm" THEN 32 ELSE 41
         /\ Lists[setup][call]["launch"] = Access(Code(call), Data(call), Size)
         /\ Lists[setup][call]["fetch"] = IF call.f = "dtm" THEN <<>> ELSE Fetch
         /\ Lists[setup][call]["leave"] = Leave
<1>1. call.f \in {"read", "write", "dtm"} /\ call \in Calls
  BY SizeOf
<1>2. Size = IF call.f = "dtm" THEN 32 ELSE 41
  BY <1>1, ScanAssumption DEF Size
<1>3. /\ Lists[setup][call]["launch"] = Launch(setup, call)
      /\ Lists[setup][call]["fetch"] = IF call.f \in {"read", "write"} THEN Fetch ELSE <<>>
      /\ Lists[setup][call]["leave"] = Leave
  BY <1>1 DEF Lists
<1>4. Launch(setup, call) = Access(Code(call), Data(call), Size)
  BY <1>1 DEF Launch, Code, Data, Size
<1>. QED BY <1>1, <1>2, <1>3, <1>4

LEMMA LaunchForm ==
  ASSUME setup \in Setups, call \in Calls \ {StartCall}, phase = "launch"
  PROVE  /\ Len(list) = 14 + Size
         /\ Named(list[1], "SELECT_DR_SCAN") /\ Named(list[2], "SELECT_IR_SCAN")
         /\ Named(list[3], "CAPTURE_IR") /\ Named(list[4], "SHIFT_IR")
         /\ \A j \in 1 .. 5 : Named(list[4 + j], IF j < 5 THEN "SHIFT_IR" ELSE "EXIT1_IR") /\ list[4 + j].tdi = Code(call)[j]
         /\ Named(list[10], "UPDATE_IR") /\ Named(list[11], "RUN_TEST_IDLE")
         /\ Named(list[12], "SELECT_DR_SCAN") /\ Named(list[13], "CAPTURE_DR") /\ Named(list[14], "SHIFT_DR")
         /\ \A j \in 1 .. Size : Bits(list[14 + j], Data(call), j, Size)
<1>1. list = Access(Code(call), Data(call), Size)
  BY AccessLists DEF list
<1>2. PICK code, p, n : code = Code(call) /\ p = Data(call) /\ n = Size
  OBVIOUS
<1>3. code \in [1 .. 5 -> Bit] /\ PartsOK(p) /\ n \in Nat /\ n \in 1 .. 41
  BY <1>2, SizeOf, AccessLists
<1>4. LET l == Access(code, p, n) IN
         /\ l \in Seq(Packets) /\ Len(l) = 14 + n
         /\ Named(l[1], "SELECT_DR_SCAN") /\ Named(l[2], "SELECT_IR_SCAN")
         /\ Named(l[3], "CAPTURE_IR") /\ Named(l[4], "SHIFT_IR")
         /\ \A j \in 1 .. 5 : Named(l[4 + j], IF j < 5 THEN "SHIFT_IR" ELSE "EXIT1_IR") /\ l[4 + j].tdi = code[j]
         /\ Named(l[10], "UPDATE_IR") /\ Named(l[11], "RUN_TEST_IDLE")
         /\ Named(l[12], "SELECT_DR_SCAN") /\ Named(l[13], "CAPTURE_DR") /\ Named(l[14], "SHIFT_DR")
         /\ \A j \in 1 .. n : Bits(l[14 + j], p, j, n)
  BY <1>3, AccessForm
<1>5. PICK l : l = list
  OBVIOUS
<1>6. l = Access(code, p, n)
  BY <1>1, <1>2, <1>5
<1>. QED BY <1>2, <1>4, <1>5, <1>6

\* The state each operation of the launch is named for.
LEMMA LaunchStates ==
  ASSUME setup \in Setups, call \in Calls \ {StartCall}, phase = "launch"
  PROVE  /\ \A i \in 1 .. 14 + Size : list[i].at # "UPDATE_DR"
         /\ \A i \in 11 .. 13 + Size : list[i].at \notin {"UPDATE_IR", "TEST_LOGIC_RESET"}
         /\ \A j \in 0 .. Size - 1 : list[14 + j].at = "SHIFT_DR"
         /\ \A j \in 0 .. 4 : list[4 + j].at = "SHIFT_IR"
         /\ list[9].at = "EXIT1_IR" /\ list[10].at = "UPDATE_IR" /\ list[13].at = "CAPTURE_DR"
<1>1. Size \in 32 .. 41
  BY AccessLists
<1>2. \A j \in 1 .. Size : list[14 + j].at = IF j < Size THEN "SHIFT_DR" ELSE "EXIT1_DR"
  BY LaunchForm DEF Bits
<1>3. \A j \in 1 .. 5 : list[4 + j].at = IF j < 5 THEN "SHIFT_IR" ELSE "EXIT1_IR"
  BY LaunchForm DEF Named
<1>4. /\ list[1].at = "SELECT_DR_SCAN" /\ list[2].at = "SELECT_IR_SCAN" /\ list[3].at = "CAPTURE_IR"
      /\ list[4].at = "SHIFT_IR" /\ list[10].at = "UPDATE_IR" /\ list[11].at = "RUN_TEST_IDLE"
      /\ list[12].at = "SELECT_DR_SCAN" /\ list[13].at = "CAPTURE_DR" /\ list[14].at = "SHIFT_DR"
  BY LaunchForm DEF Named
<1>5. PICK l, n : l = list /\ n = Size
  OBVIOUS
<1>6. /\ n \in 32 .. 41 /\ \A j \in 1 .. n : l[14 + j].at = IF j < n THEN "SHIFT_DR" ELSE "EXIT1_DR"
      /\ \A j \in 1 .. 5 : l[4 + j].at = IF j < 5 THEN "SHIFT_IR" ELSE "EXIT1_IR"
      /\ l[1].at = "SELECT_DR_SCAN" /\ l[2].at = "SELECT_IR_SCAN" /\ l[3].at = "CAPTURE_IR"
      /\ l[4].at = "SHIFT_IR" /\ l[10].at = "UPDATE_IR" /\ l[11].at = "RUN_TEST_IDLE"
      /\ l[12].at = "SELECT_DR_SCAN" /\ l[13].at = "CAPTURE_DR" /\ l[14].at = "SHIFT_DR"
  BY <1>1, <1>2, <1>3, <1>4, <1>5
<1>7. l[5].at = "SHIFT_IR" /\ l[6].at = "SHIFT_IR" /\ l[7].at = "SHIFT_IR" /\ l[8].at = "SHIFT_IR" /\ l[9].at = "EXIT1_IR"
  <2>1. l[4 + 1].at = "SHIFT_IR" /\ l[4 + 2].at = "SHIFT_IR" /\ l[4 + 3].at = "SHIFT_IR" /\ l[4 + 4].at = "SHIFT_IR"
        /\ l[4 + 5].at = "EXIT1_IR"
    BY <1>6
  <2>. QED BY <2>1
<1>8. ASSUME NEW i \in 15 .. 14 + n PROVE l[i].at \in {"SHIFT_DR", "EXIT1_DR"} /\ (i < 14 + n => l[i].at = "SHIFT_DR")
  <2>1. i - 14 \in 1 .. n /\ 14 + (i - 14) = i /\ (i < 14 + n => i - 14 < n)
    BY <1>6
  <2>. QED BY <1>6, <2>1
<1>9. ASSUME NEW i \in 1 .. 14 + n PROVE l[i].at # "UPDATE_DR"
  <2>1. CASE i \in 15 .. 14 + n
    BY <1>8, <2>1
  <2>2. i \in 15 .. 14 + n \/ i \in {1, 2, 3, 4, 5, 6, 7, 8, 9, 10, 11, 12, 13, 14}
    BY <1>6
  <2>. QED BY <1>6, <1>7, <2>1, <2>2
<1>10. ASSUME NEW i \in 11 .. 13 + n PROVE l[i].at \notin {"UPDATE_IR", "TEST_LOGIC_RESET"}
  <2>1. CASE i \in 15 .. 14 + n
    BY <1>8, <2>1
  <2>2. i \in 15 .. 14 + n \/ i \in {11, 12, 13, 14}
    BY <1>6
  <2>. QED BY <1>6, <1>7, <2>1, <2>2
<1>11. ASSUME NEW j \in 0 .. n - 1 PROVE l[14 + j].at = "SHIFT_DR"
  <2>1. CASE j = 0
    BY <1>6, <2>1
  <2>2. CASE j > 0
    <3>1. 14 + j \in 15 .. 14 + n /\ 14 + j < 14 + n
      BY <1>6, <2>2
    <3>. QED BY <1>8, <3>1
  <2>. QED BY <2>1, <2>2
<1>12. ASSUME NEW j \in 0 .. 4 PROVE l[4 + j].at = "SHIFT_IR"
  <2>1. j \in {0, 1, 2, 3, 4}
    OBVIOUS
  <2>. QED BY <1>6, <1>7, <2>1
<1>. QED BY <1>5, <1>6, <1>7, <1>9, <1>10, <1>11, <1>12

\* A bit of send_dr, while the chip shifts the same scan.
LEMMA ScanMoves ==
  ASSUME PartsOK(temp), NEW j \in Nat, NEW n \in {32, 41}, j < n, NEW p, PartsOK(p),
         Moves(list[k + 1]), Line(list[k + 1]) = list[k + 1].tdi, chip.tap = "SHIFT_DR", Bits(list[k + 1], p, j + 1, n),
         ScanAt(chip.sr, chip.cap, temp, j, n, p)
  PROVE  /\ ScanAt(chip'.sr, chip'.cap, temp', j + 1, n, p) /\ PartsOK(temp')
         /\ j + 1 = n /\ n = Size => Got(n)'
<1>. DEFINE op == list[k + 1]
<1>1. /\ chip \in Chips
      /\ chip'.sr = Append(Tail(chip.sr), op.tdi) /\ chip'.cap = chip.cap
      /\ temp' = IF op.kind = "bit" THEN ShiftIn(temp, Tdo(chip)) ELSE Zeros
      /\ tdo' = IF op.kind = "bit" /\ op.tms = 1 THEN Result(temp', Size) ELSE tdo
  BY DEF Moves
<1>2. op.kind = "bit" /\ op.tdi = TdiBit(p, j + 1) /\ op.tms = IF j + 1 < n THEN 0 ELSE 1
  BY DEF Bits
<1>. HIDE DEF op
<1>3. Tdo(chip) = chip.sr[1]
  BY DEF Tdo
<1>4. temp' = ShiftIn(temp, chip.sr[1]) /\ chip'.sr = Append(Tail(chip.sr), TdiBit(p, j + 1))
  BY <1>1, <1>2, <1>3
<1>5. n \in Nat /\ n \in 1 .. 41
  OBVIOUS
<1>6. ScanAt(chip'.sr, chip'.cap, temp', j + 1, n, p)
  <2>1. PICK sr, cap, t : sr = chip.sr /\ cap = chip.cap /\ t = temp
    OBVIOUS
  <2>2. ScanAt(Append(Tail(sr), TdiBit(p, j + 1)), cap, ShiftIn(t, sr[1]), j + 1, n, p)
    BY <1>5, <2>1, ScanStep
  <2>. QED BY <1>1, <1>4, <2>1, <2>2
<1>7. PartsOK(temp')
  <2>1. chip.sr[1] \in Bit
    BY <1>5 DEF ScanAt
  <2>. QED BY <1>4, <1>5, <2>1, ShiftIns
<1>8. ASSUME j + 1 = n, n = Size PROVE Got(n)'
  <2>1. tdo' = Result(temp', n)
    BY <1>1, <1>2, <1>8
  <2>2. PICK sr, cap, t : sr = chip'.sr /\ cap = chip'.cap /\ t = temp'
    OBVIOUS
  <2>3. ScanAt(sr, cap, t, n, n, p) /\ PartsOK(t)
    BY <1>6, <1>7, <1>8, <2>2
  <2>4. /\ cap \in [1 .. n -> Bit]
        /\ \A i \in 1 .. 41 : TdiBit(Result(t, n), i) = IF i <= n THEN cap[i] ELSE 0
    <3>1. cap \in [1 .. n -> Bit]
      BY <2>3 DEF ScanAt
    <3>2. \A i \in 1 .. 41 : TdiBit(Result(t, n), i) = IF i <= n THEN cap[i] ELSE 0
      BY <2>3, ScanEnds
    <3>. QED BY <3>1, <3>2
  <2>5. /\ chip'.cap \in [1 .. n -> Bit]
        /\ \A i \in 1 .. 41 : TdiBit(tdo', i) = IF i <= n THEN chip'.cap[i] ELSE 0
    BY <2>1, <2>2, <2>4
  <2>. QED BY <2>5 DEF Got
<1>. QED BY <1>6, <1>7, <1>8

\* One bit of a scan in an access.
LEMMA ScanOn ==
  ASSUME StepInv, DataInv, Step, Accessing, NEW j \in Nat, NEW n \in {32, 41}, j < n, NEW p, PartsOK(p),
         chip.tap = "SHIFT_DR", Bits(list[k + 1], p, j + 1, n), ScanAt(chip.sr, chip.cap, temp, j, n, p)
  PROVE  /\ ScanAt(chip'.sr, chip'.cap, temp', j + 1, n, p) /\ PartsOK(temp')
         /\ j + 1 = n /\ n = Size => Got(n)'
<1>1. Line(list[k + 1]) = list[k + 1].tdi
  BY LineOf DEF Accessing, DataInv
<1>2. Moves(list[k + 1])
  BY <1>1, Clocked DEF Accessing, DataInv, AccessInv, Moves
<1>. QED BY <1>1, <1>2, ScanMoves DEF DataInv

LEMMA CapturedData ==
  ASSUME chip \in Chips, AdapterOf(chip) = Plain, call \in Calls \ {StartCall}, chip.ir = Code(call)
  PROVE  Captured(chip) \in [1 .. Size -> Bit]
<1>1. ~chip.reading /\ chip.level = "data"
  BY DEF AdapterOf, Plain
<1>2. CASE call.f = "dtm"
  <2>1. chip.ir = DtmcsCode /\ DtmcsCode # DmiCode
    BY <1>2, ScanAssumption DEF Code
  <2>2. Captured(chip) = Dtmcs
    BY <1>1, <2>1 DEF Captured
  <2>. QED BY <1>2, <2>2, TapAssumption DEF Size
<1>3. CASE call.f # "dtm"
  <2>0. chip.ir = DmiCode /\ DtmcsCode # DmiCode
    BY <1>3, ScanAssumption DEF Code
  <2>1. Captured(chip) = chip.answer
    BY <1>1, <2>0 DEF Captured
  <2>2. Size = DmiWidth
    BY <1>3, SizeOf DEF Size
  <2>. QED BY <2>1, <2>2 DEF Chips
<1>. QED BY <1>2, <1>3

LEMMA StepLaunch ==
  ASSUME StepInv, DataInv, Step, Accessing, phase = "launch"
  PROVE  /\ list[k + 1].at # "UPDATE_DR" /\ InLaunch' /\ PartsOK(temp')
<1>. DEFINE op == list[k + 1]
<1>0. PICK n, code, p : n = Size /\ code = Code(call) /\ p = Data(call)
  OBVIOUS
<1>1. /\ setup \in Setups /\ call \in Calls \ {StartCall} /\ k \in Nat /\ k + 1 \in 1 .. Len(list)
      /\ k' = k + 1 /\ call' = call /\ chip \in Chips
  BY StepOp DEF Accessing, StepInv, BaseType
<1>2. InLaunch /\ chip.tap = Placed /\ AdapterOf(chip) = Plain /\ PartsOK(temp)
  BY DEF DataInv, AccessInv
<1>3. n \in {32, 41} /\ code \in [1 .. 5 -> Bit] /\ PartsOK(p) /\ Len(list) = 14 + n
  BY <1>0, <1>1, SizeOf, AccessLists, LaunchForm
<1>4. k \in 0 .. 13 + n
  BY <1>1, <1>3
<1>5. k > 0 => chip.tap = list[k].at
  BY <1>2 DEF Placed
<1>6. /\ list[k + 1].at # "UPDATE_DR"
      /\ k \in 11 .. 13 + n => chip.tap \notin {"UPDATE_IR", "TEST_LOGIC_RESET"}
      /\ \A j \in 0 .. n - 1 : k = 14 + j => chip.tap = "SHIFT_DR"
      /\ \A j \in 0 .. 4 : k = 4 + j => chip.tap = "SHIFT_IR"
      /\ k = 9 => chip.tap = "EXIT1_IR"
      /\ k = 10 => chip.tap = "UPDATE_IR"
      /\ k = 13 => chip.tap = "CAPTURE_DR"
  <2>1. list[k + 1].at # "UPDATE_DR"
    BY <1>0, <1>1, <1>3, LaunchStates
  <2>2. k \in 11 .. 13 + n => list[k].at \notin {"UPDATE_IR", "TEST_LOGIC_RESET"}
    BY <1>0, <1>1, <1>3, LaunchStates
  <2>3. \A j \in 0 .. n - 1 : list[14 + j].at = "SHIFT_DR"
    BY <1>0, <1>1, LaunchStates
  <2>4. \A j \in 0 .. 4 : list[4 + j].at = "SHIFT_IR"
    BY <1>0, <1>1, LaunchStates
  <2>5. list[9].at = "EXIT1_IR" /\ list[10].at = "UPDATE_IR" /\ list[13].at = "CAPTURE_DR"
    BY <1>0, <1>1, LaunchStates
  <2>. QED BY <1>5, <2>1, <2>2, <2>3, <2>4, <2>5
<1>7. /\ chip'.tap = op.at
      /\ chip'.isr = CASE chip.tap = "CAPTURE_IR" -> IdcodeCode
                       [] chip.tap = "SHIFT_IR"   -> Append(Tail(chip.isr), op.tdi)
                       [] OTHER                -> chip.isr
      /\ chip'.ir = CASE chip.tap = "UPDATE_IR" -> chip.isr
                      [] chip.tap = "TEST_LOGIC_RESET" -> IdcodeCode
                      [] OTHER -> chip.ir
      /\ chip'.sr = IF chip.tap = "SHIFT_DR" THEN Append(Tail(chip.sr), op.tdi)
                    ELSE IF chip.tap = "CAPTURE_DR" THEN Captured(chip) ELSE chip.sr
      /\ chip'.cap = IF chip.tap = "CAPTURE_DR" THEN Captured(chip) ELSE chip.cap
      /\ temp' = IF op.kind = "bit" THEN ShiftIn(temp, Tdo(chip)) ELSE Zeros
      /\ ops' = IF Updating(chip') THEN Append(ops, chip'.sr) ELSE ops
  BY <1>2, Clocked DEF Accessing, DataInv
<1>8. ops' = <<>>
  <2>1. ~Updating(chip')
    BY <1>6, <1>7 DEF Updating
  <2>. QED BY <1>2, <1>7, <2>1 DEF InLaunch
<1>9. /\ \A j \in 0 .. 5 : k = 4 + j => \A i \in 1 .. j : chip.isr[(5 - j) + i] = code[i]
      /\ k = 10 => chip.isr = code
      /\ k > 10 => chip.ir = code
      /\ \A j \in 0 .. n : k = 14 + j => ScanAt(chip.sr, chip.cap, temp, j, n, p)
  BY <1>0, <1>2 DEF InLaunch
<1>10. chip.isr \in [1 .. 5 -> Bit]
  BY <1>1 DEF Chips
<1>11. /\ \A j \in 1 .. 5 : list[4 + j].tdi = code[j]
       /\ \A j \in 1 .. n : Bits(list[14 + j], p, j, n)
       /\ \A i \in 1 .. 14 : list[i].kind = "packet"
  <2>1. \A j \in 1 .. 5 : list[4 + j].kind = "packet"
    BY <1>1, LaunchForm DEF Named
  <2>2. list[4 + 1].kind = "packet" /\ list[4 + 2].kind = "packet" /\ list[4 + 3].kind = "packet"
        /\ list[4 + 4].kind = "packet" /\ list[4 + 5].kind = "packet"
    BY <2>1
  <2>3. /\ list[1].kind = "packet" /\ list[2].kind = "packet" /\ list[3].kind = "packet" /\ list[4].kind = "packet"
        /\ list[10].kind = "packet" /\ list[11].kind = "packet" /\ list[12].kind = "packet"
        /\ list[13].kind = "packet" /\ list[14].kind = "packet"
    BY <1>1, LaunchForm DEF Named
  <2>4. \A i \in 1 .. 14 : i \in {1, 2, 3, 4, 5, 6, 7, 8, 9, 10, 11, 12, 13, 14}
    OBVIOUS
  <2>5. \A j \in 1 .. 5 : list[4 + j].tdi = code[j]
    BY <1>0, <1>1, LaunchForm
  <2>6. \A j \in 1 .. n : Bits(list[14 + j], p, j, n)
    BY <1>0, <1>1, LaunchForm
  <2>. HIDE DEF list
  <2>. QED BY <2>2, <2>3, <2>4, <2>5, <2>6
<1>. HIDE DEF list
<1>12. ASSUME NEW j \in 0 .. 5, k' = 4 + j, NEW i \in 1 .. j PROVE chip'.isr[(5 - j) + i] = code[i]
  <2>1. j - 1 \in 0 .. 4 /\ j - 1 \in 0 .. 5 /\ k = 4 + (j - 1) /\ k + 1 = 4 + j /\ j \in 1 .. 5
    BY <1>1, <1>12
  <2>2. chip.tap = "SHIFT_IR" /\ op.tdi = code[j] /\ code[j] \in Bit
    BY <1>3, <1>6, <1>11, <2>1
  <2>3. chip'.isr = Append(Tail(chip.isr), code[j])
    BY <1>7, <2>2
  <2>4. (\A m \in 1 .. 4 : chip'.isr[m] = chip.isr[m + 1]) /\ chip'.isr[5] = code[j]
    BY <1>10, <2>2, <2>3, ShiftedIr
  <2>5. CASE i = j
    <3>1. (5 - j) + i = 5
      BY <2>1, <2>5
    <3>. QED BY <2>4, <2>5, <3>1
  <2>6. CASE i # j
    <3>1. i \in 1 .. j - 1 /\ (5 - j) + i \in 1 .. 4 /\ ((5 - j) + i) + 1 = (5 - (j - 1)) + i
      BY <1>12, <2>1, <2>6
    <3>2. chip.isr[(5 - (j - 1)) + i] = code[i]
      BY <1>9, <2>1, <3>1
    <3>3. chip'.isr[(5 - j) + i] = chip.isr[((5 - j) + i) + 1]
      BY <2>4, <3>1
    <3>. QED BY <3>1, <3>2, <3>3
  <2>. QED BY <2>5, <2>6
<1>13. ASSUME k' = 10 PROVE chip'.isr = code
  <2>1. k = 9 /\ k = 4 + 5 /\ 5 \in 0 .. 5
    BY <1>1, <1>13
  <2>2. \A i \in 1 .. 5 : chip.isr[(5 - 5) + i] = code[i]
    BY <1>9, <2>1
  <2>3. \A i \in 1 .. 5 : chip.isr[i] = code[i]
    BY <2>2
  <2>4. chip.isr = code
    BY <1>3, <1>10, <2>3
  <2>. QED BY <1>6, <1>7, <2>1, <2>4
<1>14. ASSUME k' > 10 PROVE chip'.ir = code
  <2>1. CASE k = 10
    BY <1>6, <1>7, <1>9, <2>1
  <2>2. CASE k \in 11 .. 13 + n
    BY <1>1, <1>6, <1>7, <1>9, <2>2
  <2>. QED BY <1>1, <1>4, <1>14, <2>1, <2>2
<1>15. /\ \A j \in 0 .. n : k' = 14 + j => ScanAt(chip'.sr, chip'.cap, temp', j, n, p)
       /\ k' = 14 + n => Got(n)'
       /\ k \in 14 .. 13 + n => PartsOK(temp')
  <2>1. CASE k < 13
    BY <1>1, <1>3, <2>1
  <2>2. CASE k = 13
    <3>1. chip'.sr = Captured(chip) /\ chip'.cap = Captured(chip) /\ Captured(chip) \in [1 .. n -> Bit]
      <4>1. chip.tap = "CAPTURE_DR" /\ chip.ir = code
        BY <1>6, <1>9, <2>2
      <4>. QED BY <1>0, <1>1, <1>2, <1>7, <4>1, CapturedData
    <3>2. n \in Nat
      BY <1>3
    <3>3. ScanAt(chip'.sr, chip'.cap, temp', 0, n, p)
      BY <3>1, <3>2, ScanBegins
    <3>4. k' = 14 /\ \A j \in 0 .. n : 14 = 14 + j => j = 0
      BY <1>1, <1>3, <2>2
    <3>. QED BY <1>3, <2>2, <3>3, <3>4
  <2>3. CASE k \in 14 .. 13 + n
    <3>1. PICK j \in Nat : j = k - 14
      BY <1>1, <2>3
    <3>2. k = 14 + j /\ j \in 0 .. n /\ j \in 0 .. n - 1 /\ j < n /\ j + 1 \in 1 .. n /\ k + 1 = 14 + (j + 1) /\ k' = 14 + (j + 1)
      BY <1>1, <1>3, <2>3, <3>1
    <3>3. /\ chip.tap = "SHIFT_DR" /\ ScanAt(chip.sr, chip.cap, temp, j, n, p)
          /\ Bits(list[k + 1], p, j + 1, n)
      BY <1>6, <1>9, <1>11, <3>2
    <3>4. /\ ScanAt(chip'.sr, chip'.cap, temp', j + 1, n, p) /\ PartsOK(temp')
          /\ j + 1 = n => Got(n)'
      BY <1>0, <1>3, <3>2, <3>3, ScanOn
    <3>5. \A i \in 0 .. n : k' = 14 + i => i = j + 1
      BY <1>3, <3>2
    <3>6. k' = 14 + n => j + 1 = n
      BY <1>3, <3>2
    <3>. QED BY <3>4, <3>5, <3>6
  <2>. QED BY <1>4, <1>3, <2>1, <2>2, <2>3
<1>16. PartsOK(temp')
  <2>1. CASE k \in 14 .. 13 + n
    BY <1>15, <2>1
  <2>2. CASE k < 14
    <3>1. k + 1 \in 1 .. 14
      BY <1>1, <2>2
    <3>2. temp' = Zeros
      BY <1>7, <1>11, <3>1
    <3>. QED BY <3>2, ZerosOK
  <2>. QED BY <1>1, <1>3, <1>4, <2>1, <2>2
<1>17. Size' = n /\ Code(call') = code /\ Data(call') = p
  BY <1>0, <1>1 DEF Size, Code, Data
<1>18. InLaunch'
  <2>1. Got(Size)' = Got(n)'
    BY <1>17 DEF Got
  <2>. QED BY <1>8, <1>12, <1>13, <1>14, <1>15, <1>17, <2>1 DEF InLaunch
<1>. QED BY <1>6, <1>16, <1>18

\* Update-DR puts the scan into the DMI register.
LEMMA StepUpdate ==
  ASSUME StepInv, DataInv, Step, Accessing, call.f # "dtm", chip.ir = Code(call),
         list[k + 1].at = "UPDATE_DR", chip.tap = "EXIT1_DR", chip.adapter => chip.shifts # 0,
         \A j \in 1 .. Len(ops) : ops[j] = Put(j), chip.sr = Put(Len(ops) + 1)
  PROVE  /\ chip'.adapter => chip'.shifts # 0
         /\ ops' \in Seq(Seq(Bit)) /\ Len(ops') = Len(ops) + 1
         /\ \A j \in 1 .. Len(ops') : ops'[j] = Put(j)'
<1>1. /\ AdapterOf(chip) = Plain /\ at # Unnamed /\ call # StartCall /\ call \in Calls
      /\ cjtag_mode = TwoWire(setup)
  BY DEF DataInv, AccessInv, Accessing
<1>2. /\ chip \in Chips /\ chip' \in Chips
      /\ chip'.tap = "UPDATE_DR" /\ chip'.shifts = ShiftsAfter(chip.tap, chip.shifts)
      /\ chip'.adapter = chip.adapter
      /\ AdapterOf(chip') = IF chip.adapter THEN Noted(Plain, "UPDATE_DR", chip'.shifts, chip.fmt) ELSE Plain
      /\ chip'.ir = CASE chip.tap = "UPDATE_IR" -> chip.isr
                      [] chip.tap = "TEST_LOGIC_RESET" -> IdcodeCode
                      [] OTHER -> chip.ir
      /\ chip'.sr = IF chip.tap = "SHIFT_DR" THEN Append(Tail(chip.sr), list[k + 1].tdi)
                    ELSE IF chip.tap = "CAPTURE_DR" THEN Captured(chip) ELSE chip.sr
      /\ ops' = IF Updating(chip') THEN Append(ops, chip'.sr) ELSE ops
  BY <1>1, Clocked DEF Accessing
<1>3. (chip.adapter => chip'.shifts # 0) /\ chip'.ir = DmiCode /\ chip'.sr = chip.sr
  BY <1>2 DEF ShiftsAfter, Code
<1>4. chip'.level = "data"
  <2>1. chip'.shifts \in Nat /\ "UPDATE_DR" \in TapStates
    BY <1>2, States DEF Chips
  <2>2. chip.adapter => Noted(Plain, "UPDATE_DR", chip'.shifts, chip.fmt) = Plain
    BY <1>3, <2>1, PlainKept
  <2>3. AdapterOf(chip') = Plain
    BY <1>2, <2>2
  <2>. QED BY <2>3 DEF AdapterOf, Plain
<1>5. ops' = Append(ops, chip.sr)
  BY <1>2, <1>3, <1>4 DEF Updating
<1>6. ops \in Seq(Seq(Bit)) /\ chip.sr \in Seq(Bit)
  BY <1>2 DEF DataInv, Chips
<1>7. /\ ops' \in Seq(Seq(Bit)) /\ Len(ops') = Len(ops) + 1
      /\ \A j \in 1 .. Len(ops) : ops'[j] = ops[j]
      /\ ops'[Len(ops) + 1] = chip.sr
  <2>1. PICK q, x : q = ops /\ x = chip.sr
    OBVIOUS
  <2>2. PICK S : S = Seq(Bit)
    OBVIOUS
  <2>3. q \in Seq(S) /\ x \in S
    BY <1>6, <2>1, <2>2
  <2>4. /\ Append(q, x) \in Seq(S) /\ Len(Append(q, x)) = Len(q) + 1
        /\ \A j \in 1 .. Len(q) : Append(q, x)[j] = q[j]
        /\ Append(q, x)[Len(q) + 1] = x
    BY <2>3
  <2>. QED BY <1>5, <2>1, <2>2, <2>4
<1>8. call' = call
  BY StepOp
<1>9. ASSUME NEW j \in 1 .. Len(ops') PROVE ops'[j] = Put(j)'
  <2>1. Put(j)' = Put(j)
    BY <1>8 DEF Put
  <2>2. Len(ops) \in Nat
    BY <1>6
  <2>3. CASE j = Len(ops) + 1
    BY <1>7, <2>1, <2>3
  <2>4. CASE j # Len(ops) + 1
    <3>1. j \in 1 .. Len(ops)
      BY <1>7, <2>2, <2>4
    <3>. QED BY <1>7, <2>1, <3>1
  <2>. QED BY <2>3, <2>4
<1>. QED BY <1>2, <1>3, <1>7, <1>9

LEMMA FetchStates ==
  /\ Fetch[1].at = "UPDATE_DR" /\ Fetch[14].at = "CAPTURE_DR"
  /\ \A i \in 2 .. 56 : Fetch[i].at # "UPDATE_DR"
  /\ \A i \in 1 .. 56 : Fetch[i].at \notin {"UPDATE_IR", "TEST_LOGIC_RESET"}
  /\ \A i \in 1 .. 13 : Fetch[i].at # "CAPTURE_DR"
  /\ \A j \in 0 .. 40 : Fetch[15 + j].at = "SHIFT_DR"
  /\ \A i \in 1 .. 15 : Fetch[i].kind = "packet"
<1>1. PICK l : l = Fetch
  OBVIOUS
<1>2. /\ l[1].at = "UPDATE_DR" /\ l[13].at = "SELECT_DR_SCAN" /\ l[14].at = "CAPTURE_DR" /\ l[15].at = "SHIFT_DR"
      /\ l[1].kind = "packet" /\ l[13].kind = "packet" /\ l[14].kind = "packet" /\ l[15].kind = "packet"
  BY <1>1, FetchForm DEF Named
<1>3. \A i \in 2 .. 12 : l[i].at = "RUN_TEST_IDLE" /\ l[i].kind = "packet"
  BY <1>1, FetchForm DEF Named
<1>4. \A j \in 1 .. 41 : l[15 + j].at = IF j < 41 THEN "SHIFT_DR" ELSE "EXIT1_DR"
  BY <1>1, FetchForm DEF Bits
<1>5. ASSUME NEW i \in 16 .. 56 PROVE l[i].at \in {"SHIFT_DR", "EXIT1_DR"} /\ (i < 56 => l[i].at = "SHIFT_DR")
  <2>1. i - 15 \in 1 .. 41 /\ 15 + (i - 15) = i /\ (i < 56 => i - 15 < 41)
    OBVIOUS
  <2>. QED BY <1>4, <2>1
<1>6. ASSUME NEW i \in 1 .. 56 PROVE i = 1 \/ i \in 2 .. 12 \/ i \in {13, 14, 15} \/ i \in 16 .. 56
  OBVIOUS
<1>7. ASSUME NEW i \in 2 .. 56 PROVE l[i].at # "UPDATE_DR"
  BY <1>2, <1>3, <1>5, <1>6
<1>8. ASSUME NEW i \in 1 .. 56 PROVE l[i].at \notin {"UPDATE_IR", "TEST_LOGIC_RESET"}
  BY <1>2, <1>3, <1>5, <1>6
<1>9. ASSUME NEW i \in 1 .. 13 PROVE l[i].at # "CAPTURE_DR"
  BY <1>2, <1>3, <1>6
<1>10. ASSUME NEW j \in 0 .. 40 PROVE l[15 + j].at = "SHIFT_DR"
  <2>1. CASE j = 0
    BY <1>2, <2>1
  <2>2. CASE j > 0
    <3>1. 15 + j \in 16 .. 56 /\ 15 + j < 56
      BY <2>2
    <3>. QED BY <1>5, <3>1
  <2>. QED BY <2>1, <2>2
<1>11. ASSUME NEW i \in 1 .. 15 PROVE l[i].kind = "packet"
  BY <1>2, <1>3, <1>6
<1>. QED BY <1>1, <1>2, <1>7, <1>8, <1>9, <1>10, <1>11

LEMMA StepFetch ==
  ASSUME StepInv, DataInv, Step, Accessing, phase = "fetch"
  PROVE  /\ list[k + 1].at = "UPDATE_DR" /\ chip'.adapter => chip'.shifts # 0
         /\ InFetch' /\ PartsOK(temp') /\ ops' \in Seq(Seq(Bit))
<1>1. /\ setup \in Setups /\ call \in Calls \ {StartCall} /\ k \in Nat /\ k + 1 \in 1 .. Len(list)
      /\ k' = k + 1 /\ call' = call /\ chip \in Chips
  BY StepOp DEF Accessing, StepInv, BaseType
<1>2. InFetch /\ chip.tap = Placed /\ AdapterOf(chip) = Plain /\ PartsOK(temp) /\ ops \in Seq(Seq(Bit))
  BY DEF DataInv, AccessInv
<1>3. call.f # "dtm" /\ list = Fetch /\ Size = 41 /\ Len(list) = 56
  <2>1. Lists[setup][call]["fetch"] = IF call.f = "dtm" THEN <<>> ELSE Fetch
    BY <1>1, AccessLists
  <2>2. list = IF call.f = "dtm" THEN <<>> ELSE Fetch
    BY <2>1 DEF list
  <2>3. call.f # "dtm"
    BY <1>1, <2>2
  <2>4. list = Fetch /\ Size = 41
    BY <1>1, <2>2, <2>3, AccessLists
  <2>. QED BY <2>3, <2>4, FetchForm
<1>4. PICK n \in {32, 41} : n = 41 /\ n \in 32 .. 41
  OBVIOUS
<1>5. PICK code : code = Code(call)
  OBVIOUS
<1>. DEFINE op == Fetch[k + 1]
<1>6. k \in 0 .. 55
  BY <1>1, <1>3
<1>7. chip.tap = IF k > 0 THEN Fetch[k].at ELSE "EXIT1_DR"
  BY <1>1, <1>2, <1>3 DEF Placed
<1>8. /\ k > 0 => op.at # "UPDATE_DR"
      /\ k = 0 => op.at = "UPDATE_DR"
      /\ chip.tap \notin {"UPDATE_IR", "TEST_LOGIC_RESET"}
      /\ k = 14 => chip.tap = "CAPTURE_DR"
      /\ \A j \in 0 .. 40 : k = 15 + j => chip.tap = "SHIFT_DR"
      /\ k < 15 => op.kind = "packet"
  BY <1>6, <1>7, FetchStates
<1>9. /\ chip'.tap = op.at
      /\ chip'.ir = CASE chip.tap = "UPDATE_IR" -> chip.isr
                      [] chip.tap = "TEST_LOGIC_RESET" -> IdcodeCode
                      [] OTHER -> chip.ir
      /\ chip'.sr = IF chip.tap = "SHIFT_DR" THEN Append(Tail(chip.sr), op.tdi)
                    ELSE IF chip.tap = "CAPTURE_DR" THEN Captured(chip) ELSE chip.sr
      /\ chip'.cap = IF chip.tap = "CAPTURE_DR" THEN Captured(chip) ELSE chip.cap
      /\ temp' = IF op.kind = "bit" THEN ShiftIn(temp, Tdo(chip)) ELSE Zeros
      /\ ops' = IF Updating(chip') THEN Append(ops, chip'.sr) ELSE ops
  BY <1>2, <1>3, Clocked DEF Accessing, DataInv
<1>10. chip'.ir = code
  <2>1. chip.ir = code
    BY <1>2, <1>5 DEF InFetch
  <2>. QED BY <1>8, <1>9, <2>1
<1>11. /\ op.at = "UPDATE_DR" /\ chip'.adapter => chip'.shifts # 0
       /\ ops' \in Seq(Seq(Bit)) /\ Len(ops') > 0
       /\ \A j \in 1 .. Len(ops') : ops'[j] = Put(j)'
  <2>1. CASE k = 0
    <3>1. chip.ir = Code(call) /\ chip.tap = "EXIT1_DR" /\ list[k + 1].at = "UPDATE_DR"
      BY <1>2, <1>3, <1>7, <1>8, <2>1 DEF InFetch
    <3>2. /\ chip.adapter => chip.shifts # 0
          /\ \A j \in 1 .. Len(ops) : ops[j] = Put(j)
          /\ chip.sr = Put(Len(ops) + 1)
      BY <1>2, <1>3, <2>1 DEF InFetch
    <3>3. /\ chip'.adapter => chip'.shifts # 0
          /\ ops' \in Seq(Seq(Bit)) /\ Len(ops') = Len(ops) + 1
          /\ \A j \in 1 .. Len(ops') : ops'[j] = Put(j)'
      BY <1>3, <3>1, <3>2, StepUpdate
    <3>4. Len(ops) \in Nat
      BY <1>2
    <3>5. Len(ops') > 0
      BY <3>3, <3>4
    <3>. HIDE DEF op
    <3>. QED BY <3>3, <3>5
  <2>2. CASE k > 0
    <3>1. ops' = ops
      BY <1>8, <1>9, <2>2 DEF Updating
    <3>2. Len(ops) > 0 /\ \A j \in 1 .. Len(ops) : ops[j] = Put(j)
      BY <1>2, <1>3, <2>2 DEF InFetch
    <3>3. \A j : Put(j)' = Put(j)
      BY <1>1 DEF Put
    <3>. QED BY <1>2, <1>8, <2>2, <3>1, <3>2, <3>3
  <2>. QED BY <1>1, <2>1, <2>2
<1>12. /\ \A j \in 0 .. n : k' = 15 + j => ScanAt(chip'.sr, chip'.cap, temp', j, n, Zeros)
       /\ k' = 15 + n => Got(n)'
       /\ PartsOK(temp')
  <2>1. CASE k < 14
    <3>0. op.kind = "packet"
      BY <1>6, <1>8, <2>1
    <3>1. temp' = Zeros
      BY <1>9, <3>0
    <3>. QED BY <1>1, <1>4, <2>1, <3>1, ZerosOK
  <2>2. CASE k = 14
    <3>1. chip'.sr = Captured(chip) /\ chip'.cap = Captured(chip) /\ Captured(chip) \in [1 .. n -> Bit]
      <4>1. chip.tap = "CAPTURE_DR" /\ chip.ir = Code(call)
        BY <1>2, <1>8, <2>2 DEF InFetch
      <4>. QED BY <1>1, <1>2, <1>3, <1>4, <1>9, <4>1, CapturedData
    <3>2. n \in Nat
      BY <1>4
    <3>3. ScanAt(chip'.sr, chip'.cap, temp', 0, n, Zeros)
      BY <3>1, <3>2, ScanBegins
    <3>4. k' = 15 /\ \A j \in 0 .. n : 15 = 15 + j => j = 0
      BY <1>1, <1>4, <2>2
    <3>5. temp' = Zeros
      BY <1>8, <1>9, <2>2
    <3>. QED BY <1>4, <2>2, <3>3, <3>4, <3>5, ZerosOK
  <2>3. CASE k \in 15 .. 55
    <3>1. PICK j \in Nat : j = k - 15
      BY <1>1, <2>3
    <3>2. /\ k = 15 + j /\ j \in 0 .. 41 /\ j \in 0 .. 40 /\ j < n /\ j + 1 \in 1 .. 41 /\ k + 1 = 15 + (j + 1)
          /\ k' = 15 + (j + 1)
      BY <1>1, <1>4, <2>3, <3>1
    <3>3. chip.tap = "SHIFT_DR" /\ ScanAt(chip.sr, chip.cap, temp, j, n, Zeros)
      BY <1>2, <1>3, <1>4, <1>8, <3>2 DEF InFetch
    <3>4. Bits(list[k + 1], Zeros, j + 1, n)
      <4>1. Bits(Fetch[15 + (j + 1)], Zeros, j + 1, 41)
        BY <3>2, FetchForm
      <4>. QED BY <1>3, <1>4, <3>2, <4>1
    <3>5. /\ ScanAt(chip'.sr, chip'.cap, temp', j + 1, n, Zeros) /\ PartsOK(temp')
          /\ j + 1 = n => Got(n)'
      BY <1>3, <1>4, <3>2, <3>3, <3>4, ScanOn, ZerosOK
    <3>6. \A i \in 0 .. n : k' = 15 + i => i = j + 1
      BY <1>4, <3>2
    <3>7. k' = 15 + n => j + 1 = n
      BY <1>4, <3>2
    <3>. QED BY <3>5, <3>6, <3>7
  <2>. QED BY <1>6, <2>1, <2>2, <2>3
<1>13. InFetch'
  <2>1. Code(call') = code /\ call'.f # "dtm" /\ k' > 0 /\ k' # 0
    BY <1>1, <1>3, <1>5
  <2>2. /\ \A j \in 0 .. 41 : k' = 15 + j => ScanAt(chip'.sr, chip'.cap, temp', j, 41, Zeros)
        /\ k' = 56 => Got(41)'
    BY <1>4, <1>12
  <2>. QED BY <1>10, <1>11, <2>1, <2>2 DEF InFetch
<1>. QED BY <1>3, <1>11, <1>12, <1>13

LEMMA StepLeave ==
  ASSUME StepInv, DataInv, Step, Accessing, phase = "leave"
  PROVE  /\ list[k + 1].at = "UPDATE_DR" /\ chip'.adapter => chip'.shifts # 0
         /\ InLeave' /\ PartsOK(temp') /\ ops' \in Seq(Seq(Bit))
<1>1. /\ setup \in Setups /\ call \in Calls \ {StartCall} /\ k \in Nat /\ k + 1 \in 1 .. Len(list)
      /\ k' = k + 1 /\ call' = call /\ chip \in Chips
  BY StepOp DEF Accessing, StepInv, BaseType
<1>2. InLeave /\ chip.tap = Placed /\ AdapterOf(chip) = Plain /\ ops \in Seq(Seq(Bit))
  BY DEF DataInv, AccessInv
<1>3. list = Leave /\ Len(list) = 12
  <2>1. Lists[setup][call]["leave"] = Leave
    BY <1>1, AccessLists
  <2>. QED BY <2>1, LeaveForm DEF list
<1>4. PICK n, code : n = Size /\ code = Code(call)
  OBVIOUS
<1>. DEFINE op == Leave[k + 1]
<1>5. k \in 0 .. 11
  BY <1>1, <1>3
<1>6. chip.tap = IF k > 0 THEN Leave[k].at ELSE "EXIT1_DR"
  BY <1>1, <1>2, <1>3 DEF Placed
<1>7. /\ k > 0 => op.at # "UPDATE_DR"
      /\ k = 0 => op.at = "UPDATE_DR"
      /\ chip.tap \notin {"UPDATE_IR", "TEST_LOGIC_RESET", "CAPTURE_DR"}
      /\ op.kind = "packet"
  <2>1. Named(Leave[1], "UPDATE_DR") /\ \A i \in 2 .. 12 : Named(Leave[i], "RUN_TEST_IDLE")
    BY LeaveForm
  <2>2. Leave[1].at = "UPDATE_DR" /\ Leave[1].kind = "packet"
    BY <2>1 DEF Named
  <2>3. \A i \in 2 .. 12 : Leave[i].at = "RUN_TEST_IDLE" /\ Leave[i].kind = "packet"
    BY <2>1 DEF Named
  <2>4. PICK l : l = Leave
    OBVIOUS
  <2>5. /\ l[1].at = "UPDATE_DR" /\ l[1].kind = "packet"
        /\ \A i \in 2 .. 12 : l[i].at = "RUN_TEST_IDLE" /\ l[i].kind = "packet"
    BY <2>2, <2>3, <2>4
  <2>6. /\ k > 0 => l[k + 1].at = "RUN_TEST_IDLE"
        /\ k = 0 => l[k + 1].at = "UPDATE_DR"
        /\ l[k + 1].kind = "packet"
        /\ k > 0 => l[k].at \in {"UPDATE_DR", "RUN_TEST_IDLE"}
    BY <1>5, <2>5
  <2>. QED BY <1>6, <2>4, <2>6
<1>8. /\ chip'.tap = op.at /\ chip'.adapter = chip.adapter
      /\ chip'.shifts = ShiftsAfter(chip.tap, chip.shifts)
      /\ chip'.ir = CASE chip.tap = "UPDATE_IR" -> chip.isr
                      [] chip.tap = "TEST_LOGIC_RESET" -> IdcodeCode
                      [] OTHER -> chip.ir
      /\ chip'.cap = IF chip.tap = "CAPTURE_DR" THEN Captured(chip) ELSE chip.cap
      /\ temp' = IF op.kind = "bit" THEN ShiftIn(temp, Tdo(chip)) ELSE Zeros
      /\ tdo' = IF op.kind = "bit" /\ op.tms = 1 THEN Result(temp', Size) ELSE tdo
      /\ ops' = IF Updating(chip') THEN Append(ops, chip'.sr) ELSE ops
  BY <1>2, <1>3, Clocked DEF Accessing, DataInv
<1>. HIDE DEF op
<1>9. chip'.ir = code /\ chip'.cap = chip.cap /\ tdo' = tdo /\ temp' = Zeros /\ k' # 0 /\ k' > 0
  <2>1. chip.ir = code
    BY <1>2, <1>4 DEF InLeave
  <2>2. k' # 0 /\ k' > 0
    BY <1>1, <1>5
  <2>. QED BY <1>7, <1>8, <2>1, <2>2
<1>10. Got(n)'
  <2>1. Got(n)
    BY <1>2, <1>4 DEF InLeave
  <2>. QED BY <1>9, <2>1 DEF Got
<1>11. CASE call.f = "dtm"
  <2>1. ops' = ops /\ ops = <<>>
    <3>1. code # DmiCode
      BY <1>4, <1>11, ScanAssumption DEF Code
    <3>. QED BY <1>2, <1>8, <1>9, <1>11, <3>1 DEF Updating, InLeave
  <2>2. op.at = "UPDATE_DR" /\ chip'.adapter => chip'.shifts # 0
    BY <1>2, <1>5, <1>6, <1>7, <1>8 DEF InLeave, ShiftsAfter
  <2>3. Size' = n /\ Code(call') = code /\ call'.f = "dtm"
    BY <1>1, <1>4, <1>11 DEF Size, Code
  <2>4. InLeave'
    <3>1. Got(Size)' = Got(n)'
      BY <2>3 DEF Got
    <3>. QED BY <1>9, <1>10, <2>1, <2>3, <3>1 DEF InLeave
  <2>. QED BY <1>2, <1>3, <1>9, <2>1, <2>2, <2>4, ZerosOK DEF op
<1>12. CASE call.f # "dtm"
  <2>1. /\ op.at = "UPDATE_DR" /\ chip'.adapter => chip'.shifts # 0
        /\ ops' \in Seq(Seq(Bit)) /\ Len(ops') > 1
        /\ \A j \in 1 .. Len(ops') : ops'[j] = Put(j)'
    <3>1. CASE k = 0
      <4>1. chip.ir = Code(call) /\ chip.tap = "EXIT1_DR" /\ list[k + 1].at = "UPDATE_DR"
        BY <1>2, <1>3, <1>6, <1>7, <3>1 DEF InLeave, op
      <4>2. /\ chip.adapter => chip.shifts # 0
            /\ \A j \in 1 .. Len(ops) : ops[j] = Put(j)
            /\ chip.sr = Put(Len(ops) + 1) /\ Len(ops) > 0
        BY <1>2, <1>12, <3>1 DEF InLeave
      <4>3. /\ chip'.adapter => chip'.shifts # 0
            /\ ops' \in Seq(Seq(Bit)) /\ Len(ops') = Len(ops) + 1
            /\ \A j \in 1 .. Len(ops') : ops'[j] = Put(j)'
        BY <1>12, <4>1, <4>2, StepUpdate
      <4>4. Len(ops) \in Nat
        BY <1>2
      <4>5. Len(ops') > 1
        BY <4>2, <4>3, <4>4
      <4>. QED BY <4>3, <4>5
    <3>2. CASE k > 0
      <4>1. ops' = ops
        BY <1>7, <1>8, <3>2 DEF Updating
      <4>2. Len(ops) > 1 /\ \A j \in 1 .. Len(ops) : ops[j] = Put(j)
        BY <1>2, <1>12, <3>2 DEF InLeave
      <4>3. \A j : Put(j)' = Put(j)
        BY <1>1 DEF Put
      <4>. QED BY <1>2, <1>7, <3>2, <4>1, <4>2, <4>3
    <3>. QED BY <1>1, <3>1, <3>2
  <2>2. Size' = n /\ Code(call') = code /\ call'.f # "dtm"
    BY <1>1, <1>4, <1>12 DEF Size, Code
  <2>3. InLeave'
    <3>1. Got(Size)' = Got(n)'
      BY <2>2 DEF Got
    <3>. QED BY <1>9, <1>10, <2>1, <2>2, <3>1 DEF InLeave
  <2>. QED BY <1>3, <1>9, <2>1, <2>3, ZerosOK DEF op
<1>. QED BY <1>11, <1>12

\* The registers of the driver hold bits, whatever the lines carry.
LEMMA StepRegs ==
  ASSUME StepInv, Step, PartsOK(temp), PartsOK(tdo)
  PROVE  PartsOK(temp') /\ PartsOK(tdo')
<1>. DEFINE op == list[k + 1]
<1>1. op \in PinOps /\ call \in Calls
  BY StepOp
<1>2. chip \in Chips /\ Muted(chip) /\ cjtag_mode \in BOOLEAN /\ tck \in Bit
  BY DEF StepInv, BaseType
<1>3. /\ temp' = IF op.kind = "bit" THEN ShiftIn(temp, Sampled(op)) ELSE Zeros
      /\ tdo' = IF op.kind = "bit" /\ op.tms = 1 THEN Result(temp', Size) ELSE tdo
  BY DEF Step
<1>. HIDE DEF op
<1>4. \A c \in Chips : Tdo(c) \in Bit
  <2>1. ASSUME NEW c \in Chips PROVE Tdo(c) \in Bit
    <3>1. c.sr \in Seq(Bit) /\ c.sr # <<>>
      BY DEF Chips
    <3>2. c.sr[1] \in Bit
      BY <3>1
    <3>3. 1 \in Bit
      BY DEF Bit
    <3>. QED BY <3>2, <3>3 DEF Tdo
  <2>. QED BY <2>1
<1>5. ASSUME op.kind = "bit" PROVE Sampled(op) \in Bit
  <2>1. CASE ~cjtag_mode
    BY <1>2, <1>4, <2>1 DEF Sampled
  <2>2. CASE cjtag_mode
    <3>0. op.tms \in Bit /\ op.tdi \in Bit /\ 1 - op.tdi \in Bit /\ 0 \in Bit /\ 1 \in Bit
      BY <1>1, <1>5, OpTypes DEF Bit
    <3>1. OneClock(op) \in Chips /\ Muted(OneClock(op))
      BY <1>2, <3>0, RiseType DEF OneClock, First, TdiPin
    <3>2. TwoClocks(op) \in Chips
      <4>1. PICK c, t, l : c = OneClock(op) /\ t = op.tms /\ l = TdiPin(0)
        OBVIOUS
      <4>2. l \in Bit
        BY <3>0, <4>1 DEF TdiPin
      <4>3. Rise(c, t, l) \in Chips
        BY <3>0, <3>1, <4>1, <4>2, RiseType
      <4>. QED BY <4>1, <4>3 DEF TwoClocks
    <3>. QED BY <1>4, <2>2, <3>0, <3>2 DEF Sampled
  <2>. QED BY <2>1, <2>2
<1>6. PartsOK(temp')
  BY <1>3, <1>5, ShiftIns, ZerosOK
<1>7. PartsOK(tdo')
  <2>1. Size \in {32, 41}
    BY ScanAssumption DEF Size
  <2>2. PICK t, n : t = temp' /\ n = Size
    OBVIOUS
  <2>3. PartsOK(Result(t, n))
    BY <1>6, <2>1, <2>2, Results
  <2>. QED BY <1>3, <2>2, <2>3
<1>. QED BY <1>6, <1>7

LEMMA StepData ==
  ASSUME StepInv, MuteInv, DataInv, Step
  PROVE  DataInv'
<1>. DEFINE op == list[k + 1]
<1>1. /\ call \in Calls /\ phase \in Phases /\ k \in Nat /\ k' = k + 1 /\ k + 1 \in 1 .. Len(list)
      /\ list = Lists[setup][call][phase] /\ op \in PinOps /\ at' = op.at
      /\ setup' = setup /\ call' = call /\ phase' = phase /\ call # NoCall
  BY StepOp, NoCallIsNone
<1>2. PartsOK(temp') /\ PartsOK(tdo')
  BY StepRegs DEF DataInv
<1>3. setup \in Setups /\ chip \in Chips /\ cjtag_mode \in BOOLEAN
  BY DEF StepInv, BaseType
<1>4. CASE call = StartCall
  <2>1. Pulsed(op).sr \in Seq(Bit) /\ ops \in Seq(Seq(Bit))
    BY StepOp DEF DataInv, Chips
  <2>2. ops' \in Seq(Seq(Bit))
    <3>1. PICK q, x, S : q = ops /\ x = Pulsed(op).sr /\ S = Seq(Bit)
      OBVIOUS
    <3>2. Append(q, x) \in Seq(S)
      BY <2>1, <3>1
    <3>3. ops' = IF Updates(op) THEN Append(q, x) ELSE q
      BY <3>1 DEF Step
    <3>. QED BY <2>1, <3>1, <3>2, <3>3
  <2>3. call' = StartCall
    BY <1>1, <1>4
  <2>4. AccessInv'
    BY <2>3 DEF AccessInv, Accessing
  <2>. QED BY <1>2, <2>1, <2>2, <2>3, <2>4 DEF DataInv
<1>5. CASE call # StartCall
  <2>1. call \in Calls \ {StartCall} /\ at # Unnamed /\ cjtag_mode = TwoWire(setup)
    BY <1>1, <1>5 DEF DataInv
  <2>2. op \in Packets
    <3>1. list \in Seq(Packets)
      BY <1>1, <1>3, <1>5, PacketLists
    <3>. HIDE DEF list
    <3>. QED BY <1>1, <3>1
  <2>3. op.kind \in {"packet", "bit"} /\ at' # Unnamed
    BY <1>1, <2>2 DEF Packets
  <2>4. cjtag_mode' = TwoWire(setup')
    BY <1>1, <2>1, <2>3 DEF Step
  <2>5. chip'.adapter = chip.adapter
    <3>1. View'.adapter = View.adapter
      <4>1. Goes(View, op, View')
        <5>1. BaseType /\ Does(op)
          BY StepDoes DEF StepInv
        <5>. QED BY <1>1, <5>1, DoesGo
      <4>. QED BY <4>1 DEF Goes
    <3>. QED BY <3>1 DEF View
  <2>. HIDE DEF op
  <2>6. CASE ~Understood
    <3>1. ~chip.adapter /\ cjtag_mode
      BY <2>6 DEF Understood
    <3>2. jtag_mode' = 2 /\ ~chip'.adapter
      BY <1>1, <2>1, <2>5, <3>1 DEF TwoWire, jtag_mode
    <3>3. MuteInv'
      BY StepMute
    <3>4. ops' = <<>>
      BY <1>1, <1>5, <3>2, <3>3 DEF MuteInv, Mute
    <3>5. ops' \in Seq(Seq(Bit))
      BY <3>4, EmptySeq
    <3>6. ~Accessing'
      BY <2>1, <2>4, <2>5, <3>1, <1>1 DEF Accessing, Understood
    <3>. QED BY <1>1, <1>2, <1>5, <2>3, <2>4, <3>5, <3>6 DEF DataInv, AccessInv
  <2>7. CASE Understood
    <3>1. Accessing
      BY <2>1, <2>7 DEF Accessing
    <3>2. /\ list[k + 1].at = "UPDATE_DR" /\ chip'.adapter => chip'.shifts # 0
          /\ ops' \in Seq(Seq(Bit))
          /\ phase = "launch" => InLaunch'
          /\ phase = "fetch" => InFetch'
          /\ phase = "leave" => InLeave'
      <4>1. CASE phase = "launch"
        <5>1. list[k + 1].at # "UPDATE_DR" /\ InLaunch'
          BY <3>1, <4>1, StepLaunch
        <5>2. ops' \in Seq(Seq(Bit))
          BY <5>1, EmptySeq DEF InLaunch
        <5>. QED BY <4>1, <5>1, <5>2
      <4>2. CASE phase = "fetch"
        BY <3>1, <4>2, StepFetch
      <4>3. CASE phase = "leave"
        BY <3>1, <4>3, StepLeave
      <4>. QED BY <1>1, <4>1, <4>2, <4>3 DEF Phases
    <3>3. /\ chip' \in Chips /\ chip'.tap = op.at
          /\ AdapterOf(chip') = IF chip.adapter THEN Noted(Plain, op.at, chip'.shifts, chip.fmt) ELSE Plain
      <4>1. AdapterOf(chip) = Plain
        BY <3>1 DEF DataInv, AccessInv
      <4>2. cjtag_mode = TwoWire(setup)
        BY <2>1
      <4>. QED BY <1>5, <2>1, <2>7, <4>1, <4>2, Clocked DEF op
    <3>4. AdapterOf(chip') = Plain
      <4>1. op.at \in TapStates /\ chip'.shifts \in Nat
        <5>1. op.at \in TapStates
          BY <2>2 DEF Packets, PinOps
        <5>. QED BY <3>3, <5>1 DEF Chips
      <4>2. chip.adapter /\ op.at = "UPDATE_DR" => chip'.shifts # 0
        BY <2>5, <3>2 DEF op
      <4>3. chip.adapter => Noted(Plain, op.at, chip'.shifts, chip.fmt) = Plain
        BY <4>1, <4>2, PlainKept
      <4>. QED BY <3>3, <4>3
    <3>5. chip'.tap = Placed'
      <4>1. Placed' = list'[k'].at
        BY <1>1 DEF Placed
      <4>2. list' = list
        BY <1>1 DEF list
      <4>. QED BY <1>1, <3>3, <4>1, <4>2 DEF op
    <3>6. AccessInv'
      BY <1>1, <3>2, <3>4, <3>5 DEF AccessInv
    <3>. QED BY <1>1, <1>2, <1>5, <2>3, <2>4, <3>2, <3>6 DEF DataInv
  <2>. QED BY <2>6, <2>7
<1>. QED BY <1>4, <1>5

\* A call with a chip that follows it begins a list with nothing half done.
LEMMA ListsMeet ==
  ASSUME StepInv, Accessing, k = Len(list), phase \in {"launch", "fetch"}
  PROVE  chip.tap = "EXIT1_DR" /\ AdapterOf(chip) = Plain /\ (chip.adapter => chip.shifts # 0)
<1>1. setup \in Setups /\ call \in Calls \ {StartCall} /\ Muted(chip) /\ cjtag_mode \in BOOLEAN
  BY DEF StepInv, BaseType, Accessing
<1>2. On(setup, call, phase, k, View)
  BY <1>1, NoCallIsNone DEF StepInv
<1>3. View \in End(setup, call, phase)
  BY <1>2, OnEnd DEF list
<1>4. call.f # "start"
  BY <1>1, SizeOf
<1>5. PICK n \in {32, 41} : n = IF call.f = "dtm" THEN 32 ELSE 41
  OBVIOUS
<1>6. View \in Mark(setup, n)
  BY <1>3, <1>4, <1>5 DEF End, Middle
<1>7. View \in Here(TwoWire(setup), FormatOf(TwoWire(setup)), "EXIT1_DR", {n}, Plain)
  BY <1>6 DEF Mark, At
<1>8. /\ View.two = TwoWire(setup)
      /\ View.adapter \/ ~TwoWire(setup) => View.tap = "EXIT1_DR"
      /\ View.adapter => View.shifts = n /\ View.ad = Plain
  BY <1>7 DEF Here
<1>9. n # 0
  OBVIOUS
<1>10. chip.adapter => chip.shifts # 0 /\ AdapterOf(chip) = Plain
  BY <1>8, <1>9, ViewIs
<1>. QED BY <1>1, <1>8, <1>10, ViewIs DEF Accessing, Understood, Muted

LEMMA InitData ==
  ASSUME Init
  PROVE  DataInv
<1>1. call = NoCall /\ temp = Zeros /\ tdo = Zeros /\ ops = <<>>
  BY DEF Init
<1>2. NoCall \notin Calls /\ NoCall # StartCall
  BY NoCallIsNone DEF NoCall, StartCall
<1>3. ops \in Seq(Seq(Bit))
  BY <1>1, EmptySeq
<1>. QED BY <1>1, <1>2, <1>3, ZerosOK DEF DataInv, AccessInv, Accessing

LEMMA StartData ==
  ASSUME DataInv, Start
  PROVE  DataInv'
<1>1. call' = StartCall /\ temp' = temp /\ tdo' = Zeros /\ ops' = <<>>
  BY DEF Start
<1>2. ops' \in Seq(Seq(Bit))
  BY <1>1, EmptySeq
<1>3. PartsOK(temp)
  BY DEF DataInv
<1>. QED BY <1>1, <1>2, <1>3, ZerosOK DEF DataInv, AccessInv, Accessing

LEMMA CallData ==
  ASSUME StepInv, DataInv, NEW c \in Calls \ {StartCall}, Call(c)
  PROVE  DataInv'
<1>1. /\ call = NoCall /\ at # Unnamed /\ call' = c /\ phase' = "launch" /\ k' = 0 /\ at' = at
      /\ tdo' = Zeros /\ ops' = <<>> /\ temp' = temp
      /\ UNCHANGED <<setup, cjtag_mode, tck, chip, monitor>>
  BY DEF Call
<1>2. /\ View \in Idle(setup) /\ setup \in Setups /\ Muted(chip)
  BY <1>1 DEF StepInv, BaseType
<1>3. View \in Here(TwoWire(setup), FormatOf(TwoWire(setup)), "RUN_TEST_IDLE", Nat, Plain)
  BY <1>2 DEF Idle, At
<1>4. /\ View.two = TwoWire(setup)
      /\ View.adapter \/ ~TwoWire(setup) => View.tap = "RUN_TEST_IDLE"
      /\ View.adapter => View.ad = Plain
  BY <1>3 DEF Here
<1>5. /\ cjtag_mode = TwoWire(setup) /\ AdapterOf(chip) = Plain
      /\ Understood => chip.tap = "RUN_TEST_IDLE"
  BY <1>2, <1>4, ViewIs DEF Understood, Muted
<1>6. AccessInv'
  <2>1. AdapterOf(chip') = Plain /\ (Understood' => chip'.tap = Placed')
    BY <1>1, <1>5 DEF AdapterOf, Understood, Placed
  <2>2. Size' \in {32, 41}
    BY ScanAssumption DEF Size
  <2>3. InLaunch'
    <3>0. PICK n : n = Size'
      OBVIOUS
    <3>1. ops' = <<>> /\ k' # 10 /\ ~(k' > 10) /\ k' # 14 + n
      <4>1. n \in {32, 41} /\ k' = 0
        BY <1>1, <2>2, <3>0
      <4>2. k' # 10 /\ ~(k' > 10) /\ k' # 14 + n
        BY <4>1
      <4>. QED BY <1>1, <4>2
    <3>2. (\A j \in 0 .. 5 : k' # 4 + j) /\ \A j \in 0 .. n : k' # 14 + j
      BY <1>1, <2>2, <3>0
    <3>. QED BY <3>0, <3>1, <3>2 DEF InLaunch
  <2>. QED BY <1>1, <2>1, <2>3 DEF AccessInv, Accessing
<1>7. ops' \in Seq(Seq(Bit))
  BY <1>1, EmptySeq
<1>8. PartsOK(temp)
  BY DEF DataInv
<1>. QED BY <1>1, <1>5, <1>6, <1>7, <1>8, ZerosOK DEF DataInv

\* The launch is done: the operation asked for waits to be put.
LEMMA LaunchedData ==
  ASSUME StepInv, DataInv, Launched
  PROVE  DataInv'
<1>1. /\ call # NoCall /\ phase = "launch" /\ k = Len(list) /\ phase' = "fetch" /\ k' = 0
      /\ UNCHANGED <<setup, cjtag_mode, chip, call, at, temp, tdo, ops>>
  BY DEF Launched
<1>2. ASSUME Accessing PROVE AccessInv'
  <2>1. chip.tap = "EXIT1_DR" /\ AdapterOf(chip) = Plain /\ (chip.adapter => chip.shifts # 0)
    BY <1>1, <1>2, ListsMeet
  <2>2. setup \in Setups /\ call \in Calls \ {StartCall}
    BY <1>2 DEF StepInv, BaseType, Accessing
  <2>3. InLaunch
    BY <1>1, <1>2 DEF DataInv, AccessInv
  <2>4. PICK n, code, p : n = Size /\ code = Code(call) /\ p = Data(call)
    OBVIOUS
  <2>5. /\ n \in {32, 41} /\ n = (IF call.f = "dtm" THEN 32 ELSE 41)
        /\ code \in [1 .. 5 -> Bit] /\ PartsOK(p) /\ k = 14 + n
    BY <1>1, <2>2, <2>4, SizeOf, AccessLists, LaunchForm
  <2>6. /\ ops = <<>> /\ chip.ir = code /\ ScanAt(chip.sr, chip.cap, temp, n, n, p) /\ Got(n)
    <3>1. n \in 0 .. n /\ k > 10
      BY <2>5
    <3>. QED BY <2>3, <2>4, <2>5, <3>1 DEF InLaunch
  <2>7. call.f # "dtm" => chip.sr = Put(1)
    <3>1. PICK sr, cap, t : sr = chip.sr /\ cap = chip.cap /\ t = temp
      OBVIOUS
    <3>2. PartsOK(t)
      BY <3>1 DEF DataInv
    <3>3. n = 41 => sr = Word(p)
      BY <2>5, <2>6, <3>1, <3>2, ScanEnds
    <3>. QED BY <2>4, <2>5, <3>1, <3>3 DEF Put, Data
  <2>8. InFetch'
    <3>1. Code(call') = code /\ Len(ops') = 0 /\ k' = 0
      BY <1>1, <2>4, <2>6
    <3>2. call'.f = "dtm" => Got(32)'
      BY <1>1, <2>5, <2>6 DEF Got
    <3>4. call'.f # "dtm" => (chip.sr = Put(Len(ops) + 1))'
      BY <1>1, <2>7, <3>1 DEF Put
    <3>5. (\A j \in 0 .. 41 : k' # 15 + j) /\ ~(k' > 0) /\ k' # 56 /\ \A j \in 1 .. Len(ops') : FALSE
      BY <3>1
    <3>. QED BY <1>1, <2>1, <2>6, <3>1, <3>2, <3>4, <3>5 DEF InFetch
  <2>9. AdapterOf(chip') = Plain /\ chip'.tap = Placed'
    BY <1>1, <2>1 DEF Placed
  <2>. QED BY <1>1, <2>8, <2>9 DEF AccessInv
<1>3. Accessing' = Accessing
  BY <1>1 DEF Accessing, Understood
<1>4. AccessInv'
  BY <1>2, <1>3 DEF AccessInv
<1>. QED BY <1>1, <1>4 DEF DataInv

\* A fetch is done, and another or the last no-operation follows.
LEMMA FetchedData ==
  ASSUME StepInv, DataInv, Fetched
  PROVE  DataInv'
<1>1. /\ call # NoCall /\ phase = "fetch" /\ k = Len(list) /\ k' = 0
      /\ phase' = IF call.f \in {"read", "write"} /\ Busy /\ Again(timeout') THEN "fetch" ELSE "leave"
      /\ UNCHANGED <<setup, cjtag_mode, chip, call, at, temp, tdo, ops>>
  BY DEF Fetched
<1>2. ASSUME Accessing PROVE AccessInv'
  <2>1. chip.tap = "EXIT1_DR" /\ AdapterOf(chip) = Plain /\ (chip.adapter => chip.shifts # 0)
    BY <1>1, <1>2, ListsMeet
  <2>2. setup \in Setups /\ call \in Calls \ {StartCall}
    BY <1>2 DEF StepInv, BaseType, Accessing
  <2>3. InFetch /\ PartsOK(temp) /\ ops \in Seq(Seq(Bit))
    BY <1>1, <1>2 DEF DataInv, AccessInv
  <2>4. PICK code : code = Code(call)
    OBVIOUS
  <2>5. Code(call') = code /\ chip.ir = code /\ k' = 0 /\ Len(ops) \in Nat
    BY <1>1, <2>3, <2>4 DEF InFetch
  <2>6. CASE call.f = "dtm"
    <3>1. phase' = "leave"
      BY <1>1, <2>6
    <3>2. PICK n : n = 32
      OBVIOUS
    <3>3. Size' = n /\ ops' = <<>> /\ Got(n)'
      <4>1. Size = n
        BY <2>2, <2>6, <3>2, AccessLists
      <4>2. ops = <<>> /\ Got(n)
        BY <2>3, <2>6, <3>2 DEF InFetch
      <4>. QED BY <1>1, <4>1, <4>2 DEF Size, Got
    <3>4. Got(Size)'
      BY <3>3 DEF Got
    <3>5. InLeave'
      BY <1>1, <2>1, <2>5, <2>6, <3>3, <3>4 DEF InLeave
    <3>. QED BY <1>1, <2>1, <3>1, <3>5 DEF AccessInv, Placed
  <2>7. CASE call.f # "dtm"
    <3>1. k = 56 /\ Size = 41
      <4>1. list = Fetch
        <5>1. Lists[setup][call]["fetch"] = IF call.f = "dtm" THEN <<>> ELSE Fetch
          BY <2>2, AccessLists
        <5>. QED BY <1>1, <2>7, <5>1 DEF list
      <4>. QED BY <1>1, <2>2, <2>7, <4>1, AccessLists, FetchForm
    <3>2. PICK n \in {32, 41} : n = 41
      OBVIOUS
    <3>3. /\ \A j \in 1 .. Len(ops) : ops[j] = Put(j)
          /\ Len(ops) > 0 /\ Got(n)
          /\ ScanAt(chip.sr, chip.cap, temp, n, n, Zeros)
      <4>1. /\ \A j \in 1 .. Len(ops) : ops[j] = Put(j)
            /\ k > 0 => Len(ops) > 0
            /\ \A j \in 0 .. 41 : k = 15 + j => ScanAt(chip.sr, chip.cap, temp, j, 41, Zeros)
            /\ k = 56 => Got(41)
        BY <2>3, <2>7 DEF InFetch
      <4>2. 41 \in 0 .. 41 /\ k = 15 + 41
        BY <3>1
      <4>3. ScanAt(chip.sr, chip.cap, temp, 41, 41, Zeros)
        BY <4>1, <4>2
      <4>. QED BY <3>1, <3>2, <4>1, <4>3
    <3>4. chip.sr = Word(Zeros)
      <4>1. PICK sr, cap, t : sr = chip.sr /\ cap = chip.cap /\ t = temp
        OBVIOUS
      <4>2. n = 41 => sr = Word(Zeros)
        BY <2>3, <3>3, <4>1, ScanEnds, ZerosOK
      <4>. QED BY <3>2, <4>1, <4>2
    <3>5. Put(Len(ops) + 1) = Word(Zeros)
      BY <2>5, <3>3 DEF Put
    <3>6. (\A j : Put(j)' = Put(j)) /\ (chip.sr = Put(Len(ops) + 1))'
      <4>1. \A j : Put(j)' = Put(j)
        BY <1>1 DEF Put
      <4>2. (Put(Len(ops) + 1))' = Put(Len(ops) + 1)
        BY <1>1 DEF Put
      <4>. QED BY <1>1, <3>4, <3>5, <4>1, <4>2
    <3>7. \A j \in 1 .. Len(ops') : ops'[j] = Put(j)'
      BY <1>1, <3>3, <3>6
    <3>8. CASE phase' = "fetch"
      <4>1. (\A j \in 0 .. 41 : k' # 15 + j) /\ ~(k' > 0) /\ k' # 56
        BY <1>1
      <4>2. InFetch'
        BY <1>1, <2>1, <2>5, <2>7, <3>6, <3>7, <4>1 DEF InFetch
      <4>. QED BY <1>1, <2>1, <3>8, <4>2 DEF AccessInv, Placed
    <3>9. CASE phase' = "leave"
      <4>1. Size' = n /\ Got(n)'
        BY <1>1, <3>1, <3>2, <3>3 DEF Size, Got
      <4>2. Got(Size)'
        BY <4>1 DEF Got
      <4>3. Len(ops') > (IF k' = 0 THEN 0 ELSE 1)
        BY <1>1, <3>3
      <4>4. InLeave'
        BY <1>1, <2>1, <2>5, <2>7, <3>6, <3>7, <4>2, <4>3 DEF InLeave
      <4>. QED BY <1>1, <2>1, <3>9, <4>4 DEF AccessInv, Placed
    <3>. QED BY <1>1, <3>8, <3>9
  <2>. QED BY <2>6, <2>7
<1>3. Accessing' = Accessing
  BY <1>1 DEF Accessing, Understood
<1>4. AccessInv'
  BY <1>2, <1>3 DEF AccessInv
<1>. QED BY <1>1, <1>4 DEF DataInv

LEMMA NextData ==
  ASSUME StepInv, MuteInv, DataInv, [Next]_vars
  PROVE  DataInv'
<1>1. CASE Start
  BY <1>1, StartData
<1>2. ASSUME NEW c \in Calls \ {StartCall}, Call(c)
      PROVE  DataInv'
  BY <1>2, CallData
<1>3. CASE Step
  BY <1>3, StepData
<1>4. CASE Launched
  BY <1>4, LaunchedData
<1>5. CASE Fetched
  BY <1>5, FetchedData
<1>6. CASE Return
  <2>1. call' = NoCall /\ UNCHANGED <<temp, tdo, ops>>
    BY <1>6 DEF Return
  <2>2. NoCall \notin Calls /\ NoCall # StartCall
    BY NoCallIsNone DEF NoCall, StartCall
  <2>. QED BY <2>1, <2>2 DEF DataInv, AccessInv, Accessing
<1>7. CASE UNCHANGED vars
  <2>1. UNCHANGED <<setup, cjtag_mode, chip, call, phase, k, at, temp, tdo, ops>>
    BY <1>7 DEF vars
  <2>2. \A n : Got(n)' = Got(n)
    BY <2>1 DEF Got
  <2>3. list' = list /\ Size' = Size /\ Accessing' = Accessing
    BY <2>1 DEF list, Size, Accessing, Understood
  <2>4. Placed' = Placed
    BY <2>1, <2>3 DEF Placed
  <2>5. InLaunch' = InLaunch
    BY <2>1, <2>2, <2>3 DEF InLaunch, Got
  <2>6. InFetch' = InFetch
    BY <2>1, <2>2 DEF InFetch, Put, Got
  <2>7. InLeave' = InLeave
    BY <2>1, <2>2, <2>3 DEF InLeave, Put, Got
  <2>8. AccessInv' = AccessInv
    BY <2>1, <2>3, <2>4, <2>5, <2>6, <2>7 DEF AccessInv, AdapterOf
  <2>. QED BY <2>1, <2>8 DEF DataInv
<1>. QED BY <1>1, <1>2, <1>3, <1>4, <1>5, <1>6, <1>7 DEF Next

LEMMA InvData == Spec => [](StepInv /\ MuteInv /\ DataInv)
<1>1. Init => DataInv
  BY InitData
<1>2. StepInv /\ MuteInv /\ DataInv /\ [Next]_vars => DataInv'
  BY NextData
<1>. QED BY <1>1, <1>2, InvMute, PTL DEF Spec

\* Each access puts the operation it was asked for into the DMI register, once
\* and first, and after it nothing but no-operations; an access to DTMCS puts
\* nothing there.
THEOREM OpsAsAskedHolds == Spec => []OpsAsAsked
<1>1. ASSUME StepInv, MuteInv, DataInv PROVE OpsAsAsked
  <2>1. /\ setup \in Setups /\ call \in Calls \cup {NoCall} /\ phase \in Phases
        /\ ops \in Seq(Seq(Bit))
    BY <1>1 DEF StepInv, BaseType, DataInv
  <2>2. DOMAIN ops = 1 .. Len(ops) /\ Len(ops) \in Nat
    BY <2>1
  <2>3. CASE call \in {NoCall, StartCall}
    <3>1. NoCall.f = "none" /\ StartCall.f = "start"
      BY DEF NoCall, StartCall
    <3>. QED BY <2>3, <3>1 DEF OpsAsAsked
  <2>4. CASE call \in Calls \ {StartCall} /\ ~Understood
    <3>1. cjtag_mode = TwoWire(setup) /\ ~chip.adapter /\ cjtag_mode
      BY <1>1, <2>4 DEF DataInv, Understood
    <3>2. ops = <<>>
      <4>1. jtag_mode = 2 /\ call \notin {NoCall, StartCall}
        BY <2>4, <3>1, NoCallIsNone DEF jtag_mode, TwoWire
      <4>. QED BY <1>1, <3>1, <4>1 DEF MuteInv, Mute
    <3>3. DOMAIN ops = {}
      BY <3>2
    <3>. QED BY <2>4, <3>2, <3>3 DEF OpsAsAsked
  <2>5. CASE call \in Calls \ {StartCall} /\ Understood
    <3>1. /\ phase = "launch" => InLaunch
          /\ phase = "fetch" => InFetch
          /\ phase = "leave" => InLeave
      BY <1>1, <2>5 DEF DataInv, AccessInv, Accessing
    <3>2. call.f \in {"read", "write", "dtm"}
      BY <2>5, SizeOf
    <3>3. phase = "leave" /\ k = Len(list) => k = 12
      <4>1. Lists[setup][call]["leave"] = Leave
        BY <2>1, <2>5, AccessLists
      <4>. QED BY <4>1, LeaveForm DEF list
    <3>4. phase = "launch" => ops = <<>>
      BY <3>1 DEF InLaunch
    <3>5. call.f = "dtm" => ops = <<>>
      BY <2>1, <3>1, <3>4 DEF Phases, InFetch, InLeave
    <3>6. call.f # "dtm" => \A j \in 1 .. Len(ops) : ops[j] = Put(j)
      <4>1. CASE phase = "launch"
        <5>1. Len(ops) = 0
          BY <3>4, <4>1
        <5>. QED BY <5>1
      <4>2. CASE phase = "fetch"
        BY <3>1, <4>2 DEF InFetch
      <4>3. CASE phase = "leave"
        BY <3>1, <4>3 DEF InLeave
      <4>. QED BY <2>1, <4>1, <4>2, <4>3 DEF Phases
    <3>7. call.f # "dtm" /\ phase = "leave" /\ k = Len(list) => Len(ops) > 1
      BY <3>1, <3>3 DEF InLeave
    <3>. QED BY <2>2, <3>2, <3>5, <3>6, <3>7 DEF OpsAsAsked, Put
  <2>. QED BY <2>1, <2>3, <2>4, <2>5
<1>. QED BY <1>1, InvData, PTL

-------------------------------------------------------------------------------
(* A line that nobody drives                                               *)

Ones(r) == \A i \in 1 .. 41 : TdiBit(r, i) = 1

BusyInv ==
  Mute /\ call \in Calls \ {StartCall} /\ call.f # "dtm" =>
    /\ phase = "fetch" =>
         /\ \A j \in 0 .. 41 : k = 15 + j => \A i \in 1 .. j : TdiBit(temp, (41 - j) + i) = 1
         /\ k = 56 => Ones(tdo)
    /\ phase = "leave" => Ones(tdo)

LEMMA SampledMute ==
  ASSUME StepInv, Mute, cjtag_mode, NEW op \in PinOps, op.kind = "bit"
  PROVE  Sampled(op) = 1
<1>1. chip \in Chips /\ Muted(chip) /\ ~chip.adapter
  BY DEF StepInv, BaseType, Mute
<1>2. op.tms \in Bit /\ 1 - op.tdi \in Bit /\ 0 \in Bit /\ 1 \in Bit
  BY OpTypes DEF Bit
<1>3. PICK c, t, l : c = OneClock(op) /\ t = op.tms /\ l = TdiPin(0)
  OBVIOUS
<1>4. l \in Bit
  BY <1>2, <1>3 DEF TdiPin
<1>5. c \in Chips /\ Muted(c) /\ ~c.adapter
  <2>1. PICK d : d = 1 - op.tdi
    OBVIOUS
  <2>2. c = IF tck = 1 THEN chip ELSE Rise(chip, d, l)
    BY <1>3, <2>1 DEF OneClock, First
  <2>3. Rise(chip, d, l) \in Chips /\ Muted(Rise(chip, d, l)) /\ Rise(chip, d, l).adapter = chip.adapter
    BY <1>1, <1>2, <1>4, <2>1, RiseType
  <2>. QED BY <1>1, <2>2, <2>3
<1>6. Muted(Rise(c, t, l)) /\ Rise(c, t, l).adapter = c.adapter
  BY <1>2, <1>3, <1>4, <1>5, RiseType
<1>7. Rise(c, t, l).fmt = "four_wire"
  BY <1>5, <1>6 DEF Muted
<1>8. TwoClocks(op) = Rise(c, t, l)
  BY <1>3 DEF TwoClocks
<1>. QED BY <1>7, <1>8 DEF Sampled

LEMMA StepBusy ==
  ASSUME StepInv, DataInv, BusyInv, Step
  PROVE  BusyInv'
<1>. DEFINE op == list[k + 1]
<1>1. /\ call \in Calls /\ phase \in Phases /\ k \in Nat /\ k' = k + 1 /\ k + 1 \in 1 .. Len(list)
      /\ list = Lists[setup][call][phase] /\ op \in PinOps
      /\ setup' = setup /\ call' = call /\ phase' = phase
  BY StepOp
<1>2. setup \in Setups /\ chip \in Chips
  BY DEF StepInv, BaseType
<1>3. chip'.adapter = chip.adapter
  <2>1. View'.adapter = View.adapter
    <3>1. Goes(View, op, View')
      <4>1. BaseType /\ Does(op)
        BY StepDoes DEF StepInv
      <4>. QED BY <1>1, <4>1, DoesGo
    <3>. QED BY <3>1 DEF Goes
  <2>. QED BY <2>1 DEF View
<1>4. SUFFICES ASSUME Mute', call \in Calls \ {StartCall}, call.f # "dtm" PROVE BusyInv'
  BY <1>1 DEF BusyInv
<1>5. Mute /\ cjtag_mode /\ Size = 41
  <2>1. Mute
    BY <1>1, <1>3, <1>4 DEF Mute, jtag_mode
  <2>2. cjtag_mode = TwoWire(setup)
    BY <1>4 DEF DataInv
  <2>. QED BY <1>2, <1>4, <2>1, <2>2, AccessLists DEF Mute, jtag_mode, TwoWire
<1>6. /\ temp' = IF op.kind = "bit" THEN ShiftIn(temp, Sampled(op)) ELSE Zeros
      /\ tdo' = IF op.kind = "bit" /\ op.tms = 1 THEN Result(temp', 41) ELSE tdo
      /\ PartsOK(temp)
  BY <1>5 DEF Step, DataInv
<1>. HIDE DEF op
<1>7. CASE phase = "launch"
  <2>1. phase' # "fetch" /\ phase' # "leave"
    BY <1>1, <1>7
  <2>. QED BY <2>1 DEF BusyInv
<1>8. CASE phase = "leave"
  <2>1. list = Leave
    BY <1>1, <1>2, <1>4, <1>8, AccessLists
  <2>2. op.kind = "packet"
    <3>1. k + 1 \in 1 .. 12
      BY <1>1, <2>1, LeaveForm
    <3>2. PICK i : i = k + 1
      OBVIOUS
    <3>3. Leave[i].kind = "packet"
      <4>1. i = 1 \/ i \in 2 .. 12
        BY <3>1, <3>2
      <4>. QED BY <4>1, LeaveForm DEF Named
    <3>. QED BY <2>1, <3>2, <3>3 DEF op
  <2>3. tdo' = tdo
    BY <1>6, <2>2
  <2>4. Ones(tdo)
    BY <1>4, <1>5, <1>8 DEF BusyInv
  <2>5. phase' # "fetch"
    BY <1>1, <1>8
  <2>. QED BY <2>3, <2>4, <2>5 DEF BusyInv
<1>9. CASE phase = "fetch"
  <2>1. list = Fetch /\ k \in 0 .. 55
    <3>1. list = Fetch
      BY <1>1, <1>2, <1>4, <1>9, AccessLists
    <3>. QED BY <1>1, <3>1, FetchForm
  <2>2. phase' # "leave"
    BY <1>1, <1>9
  <2>3. CASE k < 15
    <3>1. \A j \in 1 .. 41 : k' # 15 + j
      BY <1>1, <2>1, <2>3
    <3>2. k' # 56
      BY <1>1, <2>1, <2>3
    <3>3. \A j \in 0 .. 41 : k' = 15 + j => \A i \in 1 .. j : TdiBit(temp', (41 - j) + i) = 1
      <4>1. \A j \in 0 .. 41 : k' = 15 + j => j = 0
        BY <3>1
      <4>. QED BY <4>1
    <3>. QED BY <2>2, <3>2, <3>3 DEF BusyInv
  <2>4. CASE k \in 15 .. 55
    <3>1. PICK j \in Nat : j = k - 15
      BY <1>1, <2>4
    <3>2. k = 15 + j /\ j \in 0 .. 40 /\ j \in 0 .. 41 /\ j + 1 \in 1 .. 41 /\ k + 1 = 15 + (j + 1) /\ k' = 15 + (j + 1)
      BY <1>1, <2>4, <3>1
    <3>3. op.kind = "bit" /\ op.tms = IF j + 1 < 41 THEN 0 ELSE 1
      <4>1. Bits(Fetch[15 + (j + 1)], Zeros, j + 1, 41)
        BY <3>2, FetchForm
      <4>. QED BY <2>1, <3>2, <4>1 DEF Bits, op
    <3>4. temp' = ShiftIn(temp, 1)
      BY <1>1, <1>5, <1>6, <3>3, SampledMute
    <3>5. TdiBit(temp', 41) = 1 /\ \A i \in 1 .. 40 : TdiBit(temp', i) = TdiBit(temp, i + 1)
      <4>1. 1 \in Bit
        BY DEF Bit
      <4>. QED BY <1>6, <3>4, <4>1, ShiftIns
    <3>6. \A i \in 1 .. j : TdiBit(temp, (41 - j) + i) = 1
      BY <1>4, <1>5, <1>9, <3>2 DEF BusyInv
    <3>7. ASSUME NEW i \in 1 .. j + 1 PROVE TdiBit(temp', (41 - (j + 1)) + i) = 1
      <4>1. CASE i = j + 1
        <5>1. (41 - (j + 1)) + i = 41
          BY <3>2, <4>1
        <5>. QED BY <3>5, <5>1
      <4>2. CASE i \in 1 .. j
        <5>1. (41 - (j + 1)) + i \in 1 .. 40 /\ ((41 - (j + 1)) + i) + 1 = (41 - j) + i
          BY <3>2, <4>2
        <5>2. TdiBit(temp', (41 - (j + 1)) + i) = TdiBit(temp, ((41 - (j + 1)) + i) + 1)
          BY <3>5, <5>1
        <5>. QED BY <3>6, <4>2, <5>1, <5>2
      <4>. QED BY <3>2, <4>1, <4>2
    <3>8. \A m \in 0 .. 41 : k' = 15 + m => \A i \in 1 .. m : TdiBit(temp', (41 - m) + i) = 1
      <4>1. \A m \in 0 .. 41 : k' = 15 + m => m = j + 1
        BY <3>2
      <4>. QED BY <3>7, <4>1
    <3>9. k' = 56 => Ones(tdo')
      <4>1. ASSUME k' = 56 PROVE Ones(tdo')
        <5>1. j = 40 /\ j + 1 = 41
          BY <3>2, <4>1
        <5>2. tdo' = temp'
          BY <1>6, <3>3, <5>1, ScanAssumption DEF Result
        <5>3. ASSUME NEW i \in 1 .. 41 PROVE TdiBit(temp', i) = 1
          <6>1. i \in 1 .. j + 1 /\ (41 - (j + 1)) + i = i
            BY <5>1
          <6>. QED BY <3>7, <6>1
        <5>. QED BY <5>2, <5>3 DEF Ones
      <4>. QED BY <4>1
    <3>. QED BY <2>2, <3>8, <3>9 DEF BusyInv
  <2>. QED BY <2>1, <2>3, <2>4
<1>. QED BY <1>1, <1>7, <1>8, <1>9 DEF Phases

LEMMA NextBusy ==
  ASSUME StepInv, DataInv, BusyInv, [Next]_vars
  PROVE  BusyInv'
<1>1. CASE Start
  BY <1>1 DEF Start, BusyInv
<1>2. ASSUME NEW c \in Calls \ {StartCall}, Call(c)
      PROVE  BusyInv'
  BY <1>2 DEF Call, BusyInv
<1>3. CASE Step
  BY <1>3, StepBusy
<1>4. CASE Launched
  <2>1. phase' = "fetch" /\ k' = 0
    BY <1>4 DEF Launched
  <2>2. (\A j \in 0 .. 41 : k' # 15 + j) /\ k' # 56
    BY <2>1
  <2>. QED BY <2>1, <2>2 DEF BusyInv
<1>5. CASE Fetched
  <2>1. /\ call # NoCall /\ phase = "fetch" /\ k = Len(list) /\ k' = 0 /\ phase' \in {"fetch", "leave"}
        /\ UNCHANGED <<setup, chip, call, temp, tdo>>
    BY <1>5 DEF Fetched
  <2>2. (\A j \in 0 .. 41 : k' # 15 + j) /\ k' # 56
    BY <2>1
  <2>3. SUFFICES ASSUME Mute, call \in Calls \ {StartCall}, call.f # "dtm" PROVE Ones(tdo)
    BY <2>1, <2>2 DEF BusyInv, Mute, jtag_mode
  <2>4. k = 56
    <3>1. setup \in Setups
      BY DEF StepInv, BaseType
    <3>2. list = Fetch
      BY <2>1, <2>3, <3>1, AccessLists DEF list
    <3>. QED BY <2>1, <3>2, FetchForm
  <2>. QED BY <2>1, <2>3, <2>4 DEF BusyInv
<1>6. CASE Return
  <2>1. call' = NoCall
    BY <1>6 DEF Return
  <2>2. NoCall \notin Calls
    BY NoCallIsNone
  <2>. QED BY <2>1, <2>2 DEF BusyInv
<1>7. CASE UNCHANGED vars
  BY <1>7 DEF vars, BusyInv, Mute, jtag_mode
<1>. QED BY <1>1, <1>2, <1>3, <1>4, <1>5, <1>6, <1>7 DEF Next

LEMMA InvBusy == Spec => []BusyInv
<1>1. Init => BusyInv
  <2>1. Init => call = NoCall
    BY DEF Init
  <2>2. NoCall \notin Calls
    BY NoCallIsNone
  <2>. QED BY <2>1, <2>2 DEF BusyInv
<1>2. StepInv /\ DataInv /\ BusyInv /\ [Next]_vars => BusyInv'
  BY NextBusy
<1>. QED BY <1>1, <1>2, InvData, PTL DEF Spec

\* An access to a chip that does not follow the switch reads a line nobody
\* drives: it ends as one that was never answered, not as a success.
THEOREM MuteIsBusyHolds == Spec => []MuteIsBusy
<1>1. ASSUME StepInv, DataInv, BusyInv PROVE MuteIsBusy
  <2>1. SUFFICES ASSUME Mute, call.f \in {"read", "write"}, phase = "leave" PROVE Busy
    BY DEF MuteIsBusy, Mute
  <2>2. call \in Calls \ {StartCall} /\ call.f # "dtm"
    <3>1. call \in Calls \cup {NoCall}
      BY <1>1 DEF StepInv
    <3>2. NoCall.f = "none" /\ StartCall.f = "start"
      BY DEF NoCall, StartCall
    <3>. QED BY <2>1, <3>1, <3>2
  <2>3. Ones(tdo) /\ PartsOK(tdo)
    BY <1>1, <2>1, <2>2 DEF BusyInv, DataInv
  <2>4. tdo.low[1] = 1 /\ tdo.low[2] = 1 /\ tdo.low \in [1 .. 2 -> Bit]
    <3>1. TdiBit(tdo, 1) = 1 /\ TdiBit(tdo, 2) = 1
      BY <2>3 DEF Ones
    <3>2. TdiBit(tdo, 1) = tdo.low[1] /\ TdiBit(tdo, 2) = tdo.low[2]
      BY DEF TdiBit
    <3>. QED BY <2>3, <3>1, <3>2 DEF PartsOK
  <2>5. tdo.low = <<1, 1>>
    BY <2>4
  <2>. QED BY <2>5 DEF Busy
<1>. QED BY <1>1, InvData, InvBusy, PTL

-------------------------------------------------------------------------------
(* Types                                                                   *)

RestInv ==
  /\ chip.answer \in Answers \cup {Reset.answer} /\ k \in Nat /\ timeout \in 0 .. 11
  /\ call # NoCall /\ phase = "launch" => timeout = 0
  /\ call # NoCall /\ phase = "fetch" => timeout <= 10

LEMMA FoundAnswer ==
  /\ \A s, code, r, a : Found(s, code, r, a).answer = Reset.answer
  /\ \A s, code, r : FoundWithout(s, code, r).answer = Reset.answer
<1>1. ASSUME NEW s, NEW code, NEW r, NEW a PROVE Found(s, code, r, a).answer = Reset.answer
  BY DEF Found, Reset
<1>2. ASSUME NEW s, NEW code, NEW r PROVE FoundWithout(s, code, r).answer = Reset.answer
  <2>1. PICK b : b = FALSE
    OBVIOUS
  <2>2. FoundWithout(s, code, r) = [Reset EXCEPT !.adapter = b, !.tap = s, !.ir = code, !.sr = r]
    BY <2>1 DEF FoundWithout
  <2>. QED BY <2>2 DEF Reset
<1>. QED BY <1>1, <1>2

LEMMA NextRest ==
  ASSUME StepInv, RestInv, [Next]_vars
  PROVE  RestInv'
<1>1. CASE Start
  <2>1. call' = StartCall /\ phase' = "launch" /\ k' = 0 /\ timeout' = 0
    BY <1>1 DEF Start
  <2>2. chip'.answer = Reset.answer
    <3>1. CASE ~chip.adapter
      <4>1. chip' \in AnywhereWithout
        BY <1>1, <3>1 DEF Start
      <4>2. PICK s, code, r : chip' = FoundWithout(s, code, r)
        BY <4>1 DEF AnywhereWithout
      <4>. QED BY <4>2, FoundAnswer
    <3>2. CASE chip.adapter
      <4>1. PICK formats : chip' \in Anywhere(formats)
        BY <1>1, <3>2 DEF Start
      <4>2. PICK s, code, r, a : chip' = Found(s, code, r, a)
        BY <4>1 DEF Anywhere
      <4>. QED BY <4>2, FoundAnswer
    <3>. QED BY <3>1, <3>2
  <2>. QED BY <2>1, <2>2 DEF RestInv
<1>2. ASSUME NEW c \in Calls \ {StartCall}, Call(c)
      PROVE  RestInv'
  BY <1>2 DEF Call, RestInv
<1>3. CASE Step
  <2>. DEFINE op == list[k + 1]
  <2>1. /\ k \in Nat /\ k' = k + 1 /\ Pulsed(op) \in Chips /\ UNCHANGED <<call, phase, timeout>>
    BY <1>3, StepOp
  <2>2. PICK w \in Answers \cup {chip.answer} : chip' = [Pulsed(op) EXCEPT !.answer = w]
    BY <1>3, StepDoes DEF Does
  <2>3. chip'.answer = w
    BY <2>1, <2>2 DEF Chips
  <2>4. chip'.answer \in Answers \cup {Reset.answer}
    BY <2>2, <2>3 DEF RestInv
  <2>. QED BY <2>1, <2>4 DEF RestInv
<1>4. CASE Launched
  <2>1. /\ call # NoCall /\ phase = "launch" /\ phase' = "fetch" /\ k' = 0
        /\ UNCHANGED <<chip, call, timeout>>
    BY <1>4 DEF Launched
  <2>. QED BY <2>1 DEF RestInv
<1>5. CASE Fetched
  <2>1. /\ call # NoCall /\ phase = "fetch" /\ phase' \in {"fetch", "leave"} /\ k' = 0
        /\ timeout' \in {timeout, timeout + 1} /\ UNCHANGED <<chip, call>>
    BY <1>5 DEF Fetched
  <2>2. phase' = "fetch" => timeout' <= 10
    BY <1>5 DEF Fetched, Again
  <2>3. timeout' \in 0 .. 11
    BY <2>1 DEF RestInv
  <2>. QED BY <2>1, <2>2, <2>3 DEF RestInv
<1>6. CASE Return
  BY <1>6 DEF Return, RestInv
<1>7. CASE UNCHANGED vars
  BY <1>7 DEF vars, RestInv
<1>. QED BY <1>1, <1>2, <1>3, <1>4, <1>5, <1>6, <1>7 DEF Next

LEMMA InvRest == Spec => []RestInv
<1>1. Init => RestInv
  <2>. SUFFICES ASSUME Init PROVE RestInv
    OBVIOUS
  <2>2. PICK a \in BOOLEAN : chip = [Reset EXCEPT !.adapter = a]
    BY DEF Init
  <2>3. chip.answer = Reset.answer
    BY <2>2 DEF Reset
  <2>4. call = NoCall /\ k = 0 /\ timeout = 0
    BY DEF Init
  <2>. QED BY <2>3, <2>4 DEF RestInv
<1>2. StepInv /\ RestInv /\ [Next]_vars => RestInv'
  BY NextRest
<1>. QED BY <1>1, <1>2, InvSteps, PTL DEF Spec

\* Every variable of driver and chip has its type, a list is never overrun, and
\* no more than eleven fetches are counted.
THEOREM TypeOKHolds == Spec => []TypeOK
<1>1. ASSUME StepInv, DataInv, RestInv PROVE TypeOK
  <2>1. /\ setup \in Setups /\ cjtag_mode \in BOOLEAN /\ tck \in Bit /\ chip \in Chips /\ monitor \in TapStates
        /\ call \in Calls \cup {NoCall} /\ phase \in {"launch", "fetch", "leave"}
        /\ at \in TapStates \cup {Unnamed}
    BY <1>1 DEF StepInv, BaseType, Phases
  <2>2. chip.tap \in TapStates /\ chip.fmt \in Formats /\ chip.slot \in 0 .. 2 /\ chip.check \in 0 .. 4
    BY <2>1 DEF Chips
  <2>3. call # NoCall => k <= Len(list)
    <3>1. ASSUME call # NoCall PROVE k <= Len(list)
      <4>1. On(setup, call, phase, k, View)
        BY <1>1, <3>1 DEF StepInv
      <4>2. k \in 0 .. Len(list)
        BY <4>1 DEF On, list
      <4>. QED BY <4>2
    <3>. QED BY <3>1
  <2>4. PartsOK(temp) /\ PartsOK(tdo)
    BY <1>1 DEF DataInv
  <2>5. \A j \in DOMAIN ops : ops[j] \in Seq(Bit)
    <3>1. PICK q, S : q = ops /\ S = Seq(Bit) /\ q \in Seq(S)
      BY <1>1 DEF DataInv
    <3>2. \A j \in DOMAIN q : q[j] \in S
      BY <3>1
    <3>. QED BY <3>1, <3>2
  <2>. QED BY <1>1, <2>1, <2>2, <2>3, <2>4, <2>5 DEF TypeOK, RestInv
<1>. QED BY <1>1, InvData, InvRest, PTL

-------------------------------------------------------------------------------
(* The answers                                                              *)

\* The start-up of a port with two wires: the operations up to the
\* Capture-DR of rdback0, and the 51 from there.
Way(s) == (IF s[1] = "SV" THEN jtag_reset(s) ELSE <<>>) \o ToRdback(s)
Home == jtag_cdr_to_sdr \o send_dr(Zeros, ReadWidth) \o jtag_e1d_to_udr \o jtag_udr_to_idle
        \o Times(4, Raw(0)) \o quit_command \o jtag_keep_in_idle(5)

\* On the way the view is on a course to the read of rdback0.
OnWay(s, j, v) ==
  /\ j \in 0 .. Len(Way(s))
  /\ \E f \in [0 .. Len(Way(s)) -> SUBSET Views] :
       Course(Way(s), f) /\ v \in f[j] /\ f[Len(Way(s))] \subseteq At(TRUE, "CAPTURE_DR", Nat, Reading)

\* After i of the operations from there.
AtHome(i) ==
  /\ cjtag_mode = TRUE
  /\ i > 0 => at = Home[i].at
  /\ i = 0 => View \in At(TRUE, "CAPTURE_DR", Nat, Reading)
  /\ i \in 1 .. 33 => AdapterOf(chip) = Reading
  /\ i = 34 => AdapterOf(chip) = Checking(0)
  /\ \A m \in 0 .. 4 : i = 39 - m => View \in Checks(TRUE, m)
  /\ i > 39 => chip.check = 0 /\ chip.ends = "none"
  /\ \A j \in 0 .. 32 : i = 1 + j => ScanAt(chip.sr, chip.cap, temp, j, 32, Zeros)
  /\ i >= 33 => Got(32)

\* A port with four wires reads nothing: the shift register it captured on
\* the way to Test-Logic-Reset is as empty as its tdo_reg.
Nothing == tdo = Zeros /\ chip.cap \in {<<0>>, Reset.answer}

FourInv ==
  setup = <<"C", 4>> =>
    /\ cjtag_mode = FALSE
    /\ call = StartCall => Nothing
    /\ call = StartCall /\ phase = "launch" =>
         /\ k <= 5 => View \in Rising(5 - k)
         /\ k = 0 => chip.cap = <<0>> /\ Captured(chip) \in {<<0>>, Reset.answer}
         /\ k > 0 => chip.tap # "CAPTURE_DR"

TwoInv ==
  call = StartCall /\ jtag_mode = 2 /\ chip.adapter =>
    /\ phase = "launch" =>
         /\ k <= Len(Way(setup)) => OnWay(setup, k, View)
         /\ \A i \in 0 .. 51 : k = Len(Way(setup)) + i => AtHome(i)
    /\ phase # "launch" => Got(32)

AnswerInv == FourInv /\ TwoInv

Concats(r, l, m, a, b) ==
  /\ r \in Seq(PinOps) /\ Len(r) = a + b
  /\ \A i \in 1 .. a : r[i] = l[i]
  /\ \A i \in 1 .. b : r[a + i] = m[i]

LEMMA ConcatAt ==
  ASSUME NEW l \in Seq(PinOps), NEW m \in Seq(PinOps), NEW a \in Nat, NEW b \in Nat, Len(l) = a, Len(m) = b
  PROVE  Concats(l \o m, l, m, a, b)
<1>. DEFINE r == l \o m
<1>1. r \in Seq(PinOps) /\ Len(r) = a + b
  BY ConcatProperties
<1>2. \A i \in 1 .. a + b : r[i] = IF i <= a THEN l[i] ELSE m[i - a]
  BY ConcatProperties
<1>. HIDE DEF r
<1>3. ASSUME NEW i \in 1 .. a PROVE r[i] = l[i]
  <2>1. i \in 1 .. a + b /\ i <= a
    OBVIOUS
  <2>. QED BY <1>2, <2>1
<1>4. ASSUME NEW i \in 1 .. b PROVE r[a + i] = m[i]
  <2>1. a + i \in 1 .. a + b /\ ~(a + i <= a) /\ (a + i) - a = i
    OBVIOUS
  <2>. QED BY <1>2, <2>1
<1>. QED BY <1>1, <1>3, <1>4 DEF r, Concats

\* The packets at the end: none of them enters Capture-DR or Update-DR.
Last == {op \in Packets : op.kind = "packet" /\ op.at \notin {"CAPTURE_DR", "UPDATE_DR"}}

LEMMA LastPackets ==
  /\ quit_command \in Seq(Last) /\ Len(quit_command) = 7
  /\ jtag_keep_in_idle(5) \in Seq(Last) /\ Len(jtag_keep_in_idle(5)) = 5
<1>1. ASSUME NEW t \in Bit, NEW s \in TapStates \ {"CAPTURE_DR", "UPDATE_DR"} PROVE Tms(t, s) \in Last
  BY TmsNamed DEF Last, Named
<1>2. /\ Tms(1, "SELECT_DR_SCAN") \in Last /\ Tms(1, "SELECT_IR_SCAN") \in Last /\ Tms(0, "CAPTURE_IR") \in Last
      /\ Tms(0, "SHIFT_IR") \in Last /\ Tms(1, "EXIT1_IR") \in Last /\ Tms(1, "UPDATE_IR") \in Last
      /\ Tms(0, "RUN_TEST_IDLE") \in Last
  BY <1>1, States DEF Bit
<1>3. ASSUME NEW op \in Last, NEW x, x = <<op>> PROVE x \in Seq(Last) /\ Len(x) = 1
  BY <1>3
<1>. HIDE DEF Last
<1>4. /\ jtag_idle_to_sld \in Seq(Last) /\ Len(jtag_idle_to_sld) = 1
      /\ jtag_sld_to_sli \in Seq(Last) /\ Len(jtag_sld_to_sli) = 1
      /\ jtag_sli_to_cir \in Seq(Last) /\ Len(jtag_sli_to_cir) = 1
      /\ jtag_cir_to_sir \in Seq(Last) /\ Len(jtag_cir_to_sir) = 1
      /\ jtag_sir_to_e1i \in Seq(Last) /\ Len(jtag_sir_to_e1i) = 1
      /\ jtag_e1i_to_uir \in Seq(Last) /\ Len(jtag_e1i_to_uir) = 1
      /\ jtag_uir_to_idle \in Seq(Last) /\ Len(jtag_uir_to_idle) = 1
  BY <1>2, <1>3 DEF jtag_idle_to_sld, jtag_sld_to_sli, jtag_sli_to_cir, jtag_cir_to_sir, jtag_sir_to_e1i,
                    jtag_e1i_to_uir, jtag_uir_to_idle
<1>5. quit_command \in Seq(Last) /\ Len(quit_command) = 7
  <2>. DEFINE q1 == jtag_idle_to_sld
              q2 == q1 \o jtag_sld_to_sli
              q3 == q2 \o jtag_sli_to_cir
              q4 == q3 \o jtag_cir_to_sir
              q5 == q4 \o jtag_sir_to_e1i
              q6 == q5 \o jtag_e1i_to_uir
              q7 == q6 \o jtag_uir_to_idle
  <2>0. quit_command = q7
    BY DEF quit_command
  <2>1. ASSUME NEW l \in Seq(Last), NEW x \in Seq(Last)
        PROVE  l \o x \in Seq(Last) /\ Len(l \o x) = Len(l) + Len(x)
    BY ConcatProperties
  <2>2. q2 \in Seq(Last) /\ Len(q2) = 2
    <3>1. q2 \in Seq(Last) /\ Len(q2) = Len(q1) + Len(jtag_sld_to_sli)
      BY <1>4, <2>1
    <3>. QED BY <1>4, <3>1
  <2>. HIDE DEF q2
  <2>3. q3 \in Seq(Last) /\ Len(q3) = 3
    <3>1. q3 \in Seq(Last) /\ Len(q3) = Len(q2) + Len(jtag_sli_to_cir)
      BY <1>4, <2>2, <2>1
    <3>. QED BY <1>4, <3>1, <2>2
  <2>. HIDE DEF q3
  <2>4. q4 \in Seq(Last) /\ Len(q4) = 4
    <3>1. q4 \in Seq(Last) /\ Len(q4) = Len(q3) + Len(jtag_cir_to_sir)
      BY <1>4, <2>3, <2>1
    <3>. QED BY <1>4, <3>1, <2>3
  <2>. HIDE DEF q4
  <2>5. q5 \in Seq(Last) /\ Len(q5) = 5
    <3>1. q5 \in Seq(Last) /\ Len(q5) = Len(q4) + Len(jtag_sir_to_e1i)
      BY <1>4, <2>4, <2>1
    <3>. QED BY <1>4, <3>1, <2>4
  <2>. HIDE DEF q5
  <2>6. q6 \in Seq(Last) /\ Len(q6) = 6
    <3>1. q6 \in Seq(Last) /\ Len(q6) = Len(q5) + Len(jtag_e1i_to_uir)
      BY <1>4, <2>5, <2>1
    <3>. QED BY <1>4, <3>1, <2>5
  <2>. HIDE DEF q6
  <2>7. q7 \in Seq(Last) /\ Len(q7) = 7
    <3>1. q7 \in Seq(Last) /\ Len(q7) = Len(q6) + Len(jtag_uir_to_idle)
      BY <1>4, <2>6, <2>1
    <3>. QED BY <1>4, <3>1, <2>6
  <2>. QED BY <2>0, <2>7
<1>6. jtag_keep_in_idle(5) \in Seq(Last) /\ Len(jtag_keep_in_idle(5)) = 5
  <2>1. PICK n \in Nat : n = 5
    OBVIOUS
  <2>2. Times(n, Tms(0, "RUN_TEST_IDLE")) \in Seq(Last) /\ Len(Times(n, Tms(0, "RUN_TEST_IDLE"))) = n
    BY <1>2, TimesOf
  <2>. QED BY <2>1, <2>2 DEF jtag_keep_in_idle
<1>. QED BY <1>5, <1>6

\* What the operations from Capture-DR on are.
LEMMA HomeForm ==
  /\ Home \in Seq(PinOps) /\ Len(Home) = 51
  /\ Home[1] = Tms(0, "SHIFT_DR")
  /\ \A j \in 1 .. 32 : Bits(Home[1 + j], Zeros, j, 32)
  /\ Home[34] = Tms(1, "UPDATE_DR") /\ Home[35] = Tms(0, "RUN_TEST_IDLE")
  /\ \A i \in 36 .. 39 : Home[i] = Raw(0)
  /\ \A i \in 40 .. 51 : Home[i] \in Last
<1>. DEFINE h1 == jtag_cdr_to_sdr \o send_dr(Zeros, ReadWidth)
            h2 == h1 \o jtag_e1d_to_udr
            h3 == h2 \o jtag_udr_to_idle
            h4 == h3 \o Times(4, Raw(0))
            h5 == h4 \o quit_command
            h6 == h5 \o jtag_keep_in_idle(5)
<1>0. Home = h6 /\ ReadWidth = 32
  BY ScanAssumption DEF Home
<1>1. PICK n1 \in Nat, n4 \in Nat, n5 \in Nat, n7 \in Nat, n32 \in Nat :
        n1 = 1 /\ n4 = 4 /\ n5 = 5 /\ n7 = 7 /\ n32 = 32
  OBVIOUS
<1>2. Seq(Packets) \subseteq Seq(PinOps) /\ Seq(Last) \subseteq Seq(PinOps)
  <2>1. Packets \subseteq PinOps /\ Last \subseteq PinOps
    BY DEF Packets, Last
  <2>. QED BY <2>1
<1>3. jtag_cdr_to_sdr \in Seq(PinOps) /\ Len(jtag_cdr_to_sdr) = n1 /\ jtag_cdr_to_sdr[1] = Tms(0, "SHIFT_DR")
  BY <1>1, TmsOps, States DEF jtag_cdr_to_sdr, Bit
<1>4. jtag_e1d_to_udr \in Seq(PinOps) /\ Len(jtag_e1d_to_udr) = n1 /\ jtag_e1d_to_udr[1] = Tms(1, "UPDATE_DR")
  BY <1>1, TmsOps, States DEF jtag_e1d_to_udr, Bit
<1>5. jtag_udr_to_idle \in Seq(PinOps) /\ Len(jtag_udr_to_idle) = n1 /\ jtag_udr_to_idle[1] = Tms(0, "RUN_TEST_IDLE")
  BY <1>1, TmsOps, States DEF jtag_udr_to_idle, Bit
<1>6. /\ Times(4, Raw(0)) \in Seq(PinOps) /\ Len(Times(4, Raw(0))) = n4
      /\ \A i \in 1 .. 4 : Times(4, Raw(0))[i] = Raw(0)
  <2>1. Raw(0) \in PinOps
    BY TmsOps DEF Bit
  <2>2. Times(n4, Raw(0)) \in Seq(PinOps) /\ Len(Times(n4, Raw(0))) = n4 /\ \A i \in 1 .. n4 : Times(n4, Raw(0))[i] = Raw(0)
    BY <2>1, TimesOf
  <2>. QED BY <1>1, <2>2
<1>7. /\ send_dr(Zeros, ReadWidth) \in Seq(PinOps) /\ Len(send_dr(Zeros, ReadWidth)) = n32
      /\ \A j \in 1 .. 32 : Bits(send_dr(Zeros, ReadWidth)[j], Zeros, j, 32)
  <2>1. n32 \in 1 .. 41 /\ PartsOK(Zeros)
    BY <1>1, ZerosOK
  <2>2. send_dr(Zeros, n32) \in Seq(Packets) /\ Len(send_dr(Zeros, n32)) = n32
    BY <2>1, DrPackets
  <2>3. \A j \in 1 .. n32 : Bits(send_dr(Zeros, n32)[j], Zeros, j, n32)
    BY <2>1, DrBits
  <2>. QED BY <1>0, <1>1, <1>2, <2>2, <2>3
<1>8. /\ quit_command \in Seq(PinOps) /\ Len(quit_command) = n7 /\ \A i \in 1 .. 7 : quit_command[i] \in Last
      /\ jtag_keep_in_idle(5) \in Seq(PinOps) /\ Len(jtag_keep_in_idle(5)) = n5
      /\ \A i \in 1 .. 5 : jtag_keep_in_idle(5)[i] \in Last
  <2>1. ASSUME NEW l \in Seq(Last) PROVE \A i \in 1 .. Len(l) : l[i] \in Last
    OBVIOUS
  <2>. HIDE DEF Last
  <2>. QED BY <1>1, <1>2, <2>1, LastPackets
<1>9. /\ h1 \in Seq(PinOps) /\ Len(h1) = n1 + n32 /\ h1[1] = Tms(0, "SHIFT_DR")
      /\ \A j \in 1 .. 32 : Bits(h1[1 + j], Zeros, j, 32)
  <2>1. Concats(h1, jtag_cdr_to_sdr, send_dr(Zeros, ReadWidth), n1, n32)
    BY <1>3, <1>7, ConcatAt
  <2>2. 1 \in 1 .. n1 /\ n1 = 1 /\ n32 = 32
    BY <1>1
  <2>. HIDE DEF h1
  <2>. QED BY <1>3, <1>7, <2>1, <2>2 DEF Concats
<1>. HIDE DEF h1
<1>10. /\ h2 \in Seq(PinOps) /\ Len(h2) = 34 /\ \A i \in 1 .. 33 : h2[i] = h1[i]
       /\ h2[34] = Tms(1, "UPDATE_DR")
  <2>1. n1 + n32 \in Nat /\ n1 + n32 = 33 /\ (n1 + n32) + n1 = 34 /\ 1 \in 1 .. n1 /\ (n1 + n32) + 1 = 34
    BY <1>1
  <2>2. PICK n \in Nat : n = n1 + n32 /\ Len(h1) = n /\ n = 33 /\ n + n1 = 34 /\ n + 1 = 34
    BY <1>9, <2>1
  <2>3. Concats(h2, h1, jtag_e1d_to_udr, n, n1)
    BY <1>4, <1>9, <2>2, ConcatAt
  <2>. HIDE DEF h2
  <2>. QED BY <1>4, <2>1, <2>2, <2>3 DEF Concats
<1>. HIDE DEF h2
<1>11. /\ h3 \in Seq(PinOps) /\ Len(h3) = 35 /\ \A i \in 1 .. 34 : h3[i] = h2[i]
       /\ h3[35] = Tms(0, "RUN_TEST_IDLE")
  <2>1. PICK n \in Nat : n = 34 /\ n + n1 = 35 /\ n + 1 = 35 /\ 1 \in 1 .. n1
    BY <1>1
  <2>2. Concats(h3, h2, jtag_udr_to_idle, n, n1)
    BY <1>5, <1>10, <2>1, ConcatAt
  <2>. HIDE DEF h3
  <2>. QED BY <1>5, <2>1, <2>2 DEF Concats
<1>. HIDE DEF h3
<1>12. /\ h4 \in Seq(PinOps) /\ Len(h4) = 39 /\ \A i \in 1 .. 35 : h4[i] = h3[i]
       /\ \A i \in 36 .. 39 : h4[i] = Raw(0)
  <2>1. PICK n \in Nat : n = 35 /\ n + n4 = 39
    BY <1>1
  <2>2. Concats(h4, h3, Times(4, Raw(0)), n, n4)
    BY <1>6, <1>11, <2>1, ConcatAt
  <2>. HIDE DEF h4
  <2>3. ASSUME NEW i \in 36 .. 39 PROVE h4[i] = Raw(0)
    <3>1. PICK j \in 1 .. n4 : n + j = i /\ j \in 1 .. 4
      <4>1. i - 35 \in 1 .. n4 /\ n + (i - 35) = i /\ i - 35 \in 1 .. 4
        BY <1>1, <2>1
      <4>. QED BY <4>1
    <3>. QED BY <1>6, <2>2, <3>1 DEF Concats
  <2>. QED BY <2>1, <2>2, <2>3 DEF Concats
<1>. HIDE DEF h4
<1>13. /\ h5 \in Seq(PinOps) /\ Len(h5) = 46 /\ \A i \in 1 .. 39 : h5[i] = h4[i]
       /\ \A i \in 40 .. 46 : h5[i] \in Last
  <2>1. PICK n \in Nat : n = 39 /\ n + n7 = 46
    BY <1>1
  <2>2. Concats(h5, h4, quit_command, n, n7)
    BY <1>8, <1>12, <2>1, ConcatAt
  <2>. HIDE DEF h5, Last
  <2>3. ASSUME NEW i \in 40 .. 46 PROVE h5[i] \in Last
    <3>1. PICK j \in 1 .. n7 : n + j = i /\ j \in 1 .. 7
      <4>1. i - 39 \in 1 .. n7 /\ n + (i - 39) = i /\ i - 39 \in 1 .. 7
        BY <1>1, <2>1
      <4>. QED BY <4>1
    <3>. QED BY <1>8, <2>2, <3>1 DEF Concats
  <2>. QED BY <2>1, <2>2, <2>3 DEF Concats
<1>. HIDE DEF h5
<1>14. /\ h6 \in Seq(PinOps) /\ Len(h6) = 51 /\ \A i \in 1 .. 46 : h6[i] = h5[i]
       /\ \A i \in 47 .. 51 : h6[i] \in Last
  <2>1. PICK n \in Nat : n = 46 /\ n + n5 = 51
    BY <1>1
  <2>2. Concats(h6, h5, jtag_keep_in_idle(5), n, n5)
    BY <1>8, <1>13, <2>1, ConcatAt
  <2>. HIDE DEF h6, Last
  <2>3. ASSUME NEW i \in 47 .. 51 PROVE h6[i] \in Last
    <3>1. PICK j \in 1 .. n5 : n + j = i /\ j \in 1 .. 5
      <4>1. i - 46 \in 1 .. n5 /\ n + (i - 46) = i /\ i - 46 \in 1 .. 5
        BY <1>1, <2>1
      <4>. QED BY <4>1
    <3>. QED BY <1>8, <2>2, <3>1 DEF Concats
  <2>. QED BY <2>1, <2>2, <2>3 DEF Concats
<1>. HIDE DEF h6, Last
<1>15. /\ \A i \in 1 .. 33 : h6[i] = h1[i]
       /\ h6[34] = h2[34] /\ h6[35] = h3[35] /\ \A i \in 36 .. 39 : h6[i] = h4[i]
       /\ \A i \in 40 .. 46 : h6[i] = h5[i]
  <2>1. \A i \in 1 .. 33 : i \in 1 .. 34 /\ i \in 1 .. 35 /\ i \in 1 .. 39 /\ i \in 1 .. 46
    OBVIOUS
  <2>2. \A i \in 36 .. 39 : i \in 1 .. 39 /\ i \in 1 .. 46
    OBVIOUS
  <2>3. /\ 34 \in 1 .. 34 /\ 34 \in 1 .. 35 /\ 34 \in 1 .. 39 /\ 34 \in 1 .. 46
        /\ 35 \in 1 .. 35 /\ 35 \in 1 .. 39 /\ 35 \in 1 .. 46 /\ \A i \in 40 .. 46 : i \in 1 .. 46
    OBVIOUS
  <2>4. ASSUME NEW i \in 1 .. 33 PROVE h6[i] = h1[i]
    <3>1. h2[i] = h1[i] /\ h3[i] = h2[i] /\ h4[i] = h3[i]
      BY <1>10, <1>11, <1>12, <2>1
    <3>2. h5[i] = h4[i] /\ h6[i] = h5[i]
      BY <1>13, <1>14, <2>1
    <3>. QED BY <3>1, <3>2
  <2>5. \A i \in 36 .. 39 : h6[i] = h4[i]
    BY <1>13, <1>14, <2>2
  <2>6. h6[34] = h2[34] /\ h6[35] = h3[35]
    <3>1. h3[34] = h2[34] /\ h4[34] = h3[34] /\ h4[35] = h3[35]
      BY <1>11, <1>12, <2>3
    <3>2. h5[34] = h4[34] /\ h5[35] = h4[35]
      BY <1>13, <2>3
    <3>3. h6[34] = h5[34] /\ h6[35] = h5[35]
      BY <1>14, <2>3
    <3>. QED BY <3>1, <3>2, <3>3
  <2>7. \A i \in 40 .. 46 : h6[i] = h5[i]
    BY <1>14, <2>3
  <2>. QED BY <2>4, <2>5, <2>6, <2>7
<1>16. \A j \in 1 .. 32 : Bits(h6[1 + j], Zeros, j, 32)
  <2>1. \A j \in 1 .. 32 : 1 + j \in 1 .. 33
    OBVIOUS
  <2>. QED BY <1>9, <1>15, <2>1
<1>17. \A i \in 40 .. 51 : h6[i] \in Last
  <2>1. \A i \in 40 .. 51 : i \in 40 .. 46 \/ i \in 47 .. 51
    OBVIOUS
  <2>. QED BY <1>13, <1>14, <1>15, <2>1
<1>18. h6[1] = Tms(0, "SHIFT_DR")
  <2>1. 1 \in 1 .. 33
    OBVIOUS
  <2>. QED BY <1>9, <1>15, <2>1
<1>. QED BY <1>0, <1>10, <1>11, <1>12, <1>14, <1>15, <1>16, <1>17, <1>18

LEMMA WayLeads ==
  ASSUME NEW s \in Setups, s[2] = 2
  PROVE  Leads(Way(s), Starting(s), At(TRUE, "CAPTURE_DR", Nat, Reading))
<1>. DEFINE head == IF s[1] = "SV" THEN jtag_reset(s) ELSE <<>>
            T == At(TRUE, "CAPTURE_DR", Nat, Reading)
<1>0. s \in {<<"C", 2>>, <<"SV", 2>>}
  BY SetupForms
<1>1. Leads(ToRdback(s), Before(s), T)
  <2>1. Leads(ToRdback(s), Before(s), At(TRUE, "CAPTURE_DR", {0}, Reading))
    BY <1>0, RdbackLeads
  <2>2. At(TRUE, "CAPTURE_DR", {0}, Reading) \subseteq T
    <3>0. PICK b : b = TRUE
      OBVIOUS
    <3>1. PICK z \in SUBSET Nat : z = {0}
      <4>1. {0} \in SUBSET Nat
        OBVIOUS
      <4>. QED BY <4>1
    <3>2. At(b, "CAPTURE_DR", z, Reading) \subseteq At(b, "CAPTURE_DR", Nat, Reading)
      BY <3>1 DEF At, Here
    <3>. QED BY <3>0, <3>1, <3>2
  <2>4. T \in SUBSET Views
    BY HereViews
  <2>3. Before(s) \in SUBSET Before(s)
    OBVIOUS
  <2>. HIDE DEF T
  <2>. QED BY <2>1, <2>2, <2>3, <2>4, LeadsWider
<1>2. Leads(head, Starting(s), Before(s))
  <2>1. CASE s = <<"C", 2>>
    <3>1. head = <<>> /\ Starting(s) = {v \in Views : ~v.bench} /\ Before(s) = {v \in Views : ~v.bench}
      BY <2>1, SetupForms DEF Starting, Before
    <3>2. Starting(s) \in SUBSET Views
      BY <3>1
    <3>. QED BY <3>1, <3>2, LeadsNone
  <2>2. CASE s = <<"SV", 2>>
    <3>1. s[1] = "SV" /\ s # <<"C", 2>>
      <4>1. s[1] = "SV"
        BY <2>2, SetupForms, Zenon
      <4>2. <<"C", 2>>[1] = "C" /\ "C" # "SV"
        OBVIOUS
      <4>. QED BY <4>1, <4>2
    <3>2. head = jtag_reset(s) /\ Starting(s) = Rising(5) /\ Before(s) = At(FALSE, "RUN_TEST_IDLE", Nat, Plain)
      BY <3>1 DEF Starting, Before
    <3>3. Leads(jtag_reset(s), Rising(5), At(FALSE, "RUN_TEST_IDLE", Nat, Plain))
      BY <2>2, ResetLeads
    <3>. QED BY <3>2, <3>3
  <2>. QED BY <1>0, <2>1, <2>2
<1>3. Way(s) = head \o ToRdback(s)
  BY DEF Way
<1>. HIDE DEF head, T
<1>4. Leads(head \o ToRdback(s), Starting(s), T)
  BY <1>1, <1>2, LeadsJoin
<1>. QED BY <1>3, <1>4 DEF T

Regroups(x, y, z) == y \o z \in Seq(PinOps) /\ (x \o y) \o z = x \o (y \o z)

LEMMA Regrouped ==
  ASSUME NEW x \in Seq(PinOps), NEW y \in Seq(PinOps), NEW z \in Seq(PinOps)
  PROVE  Regroups(x, y, z)
BY ConcatAssociative, ConcatProperties DEF Regroups

\* The start-up is the way to rdback0 and the operations from there.
LEMMA LaunchSplit ==
  ASSUME NEW s \in Setups, s[2] = 2
  PROVE  Lists[s][StartCall]["launch"] = Way(s) \o Home
<1>. DEFINE head == IF s[1] = "SV" THEN jtag_reset(s) ELSE <<>>
            r == ToRdback(s)
            x1 == jtag_cdr_to_sdr
            x2 == send_dr(Zeros, ReadWidth)
            x3 == jtag_e1d_to_udr
            x4 == jtag_udr_to_idle
            x5 == Times(4, Raw(0))
            x6 == quit_command
            x7 == jtag_keep_in_idle(5)
<1>1. s \in {<<"C", 2>>, <<"SV", 2>>} /\ StartCall \in Calls /\ StartCall.f = "start"
  BY SetupForms DEF StartCall, Calls
<1>2. Lists[s][StartCall]["launch"] = head \o switch_jtag2cjtag(s)
  <2>1. Launch(s, StartCall) = head \o switch_jtag2cjtag(s)
    BY <1>1 DEF Launch
  <2>. HIDE DEF head
  <2>. QED BY <1>1, <2>1 DEF Lists
<1>3. switch_jtag2cjtag(s) = r \o x1 \o x2 \o x3 \o x4 \o x5 \o x6 \o x7
  BY DEF switch_jtag2cjtag, ToRdback, SwitchHead, ToTwo
<1>4. Way(s) = head \o r /\ Home = x1 \o x2 \o x3 \o x4 \o x5 \o x6 \o x7
  BY DEF Way, Home
<1>5. /\ head \in Seq(PinOps) /\ r \in Seq(PinOps) /\ x1 \in Seq(PinOps) /\ x2 \in Seq(PinOps) /\ x3 \in Seq(PinOps)
      /\ x4 \in Seq(PinOps) /\ x5 \in Seq(PinOps) /\ x6 \in Seq(PinOps) /\ x7 \in Seq(PinOps)
  <2>1. r \in Seq(PinOps)
    BY <1>1, RdbackLeads DEF Leads
  <2>2. head \in Seq(PinOps)
    <3>1. CASE s[1] = "SV"
      <4>1. jtag_reset(s) \in Seq(Quiet) /\ Quiet \subseteq PinOps
        BY <1>1, QuietReset DEF Quiet
      <4>2. Seq(Quiet) \subseteq Seq(PinOps)
        BY <4>1
      <4>. QED BY <3>1, <4>1, <4>2
    <3>2. CASE s[1] # "SV"
      BY <3>2
    <3>. QED BY <3>1, <3>2
  <2>3. Seq(Packets) \subseteq Seq(PinOps) /\ Seq(Packets \cap Quiet) \subseteq Seq(PinOps) /\ Seq(Last) \subseteq Seq(PinOps)
    <3>1. Packets \subseteq PinOps /\ Packets \cap Quiet \subseteq PinOps /\ Last \subseteq PinOps
      BY DEF Packets, Last
    <3>. QED BY <3>1
  <2>4. x1 \in Seq(PinOps) /\ x3 \in Seq(PinOps) /\ x4 \in Seq(PinOps)
    BY <2>3, StepLists
  <2>5. x2 \in Seq(PinOps)
    <3>1. PICK n \in Nat : n = ReadWidth /\ n \in 1 .. 41
      BY ScanAssumption
    <3>2. send_dr(Zeros, n) \in Seq(Packets)
      BY <3>1, DrPackets, ZerosOK
    <3>. QED BY <2>3, <3>1, <3>2
  <2>6. x5 \in Seq(PinOps)
    BY TmsOps, TimesOf DEF Bit
  <2>7. x6 \in Seq(PinOps) /\ x7 \in Seq(PinOps)
    BY <2>3, LastPackets
  <2>. QED BY <2>1, <2>2, <2>4, <2>5, <2>6, <2>7
<1>. HIDE DEF head, r, x1, x2, x3, x4, x5, x6, x7
<1>. DEFINE y2 == x1 \o x2  y3 == y2 \o x3  y4 == y3 \o x4  y5 == y4 \o x5  y6 == y5 \o x6  y7 == y6 \o x7
<1>6. y2 \in Seq(PinOps) /\ (r \o x1) \o x2 = r \o y2
  <2>1. Regroups(r, x1, x2)
    BY <1>5, Regrouped
  <2>. QED BY <2>1 DEF Regroups
<1>. HIDE DEF y2
<1>7. y3 \in Seq(PinOps) /\ (r \o y2) \o x3 = r \o y3
  <2>1. Regroups(r, y2, x3)
    BY <1>5, <1>6, Regrouped
  <2>. QED BY <2>1 DEF Regroups
<1>. HIDE DEF y3
<1>8. y4 \in Seq(PinOps) /\ (r \o y3) \o x4 = r \o y4
  <2>1. Regroups(r, y3, x4)
    BY <1>5, <1>7, Regrouped
  <2>. QED BY <2>1 DEF Regroups
<1>. HIDE DEF y4
<1>9. y5 \in Seq(PinOps) /\ (r \o y4) \o x5 = r \o y5
  <2>1. Regroups(r, y4, x5)
    BY <1>5, <1>8, Regrouped
  <2>. QED BY <2>1 DEF Regroups
<1>. HIDE DEF y5
<1>10. y6 \in Seq(PinOps) /\ (r \o y5) \o x6 = r \o y6
  <2>1. Regroups(r, y5, x6)
    BY <1>5, <1>9, Regrouped
  <2>. QED BY <2>1 DEF Regroups
<1>. HIDE DEF y6
<1>11. y7 \in Seq(PinOps) /\ (r \o y6) \o x7 = r \o y7
  <2>1. Regroups(r, y6, x7)
    BY <1>5, <1>10, Regrouped
  <2>. QED BY <2>1 DEF Regroups
<1>. HIDE DEF y7
<1>12. head \o (r \o y7) = (head \o r) \o y7
  <2>1. Regroups(head, r, y7)
    BY <1>5, <1>11, Regrouped
  <2>. QED BY <2>1 DEF Regroups
<1>13. Home = y7
  BY <1>4 DEF y7, y6, y5, y4, y3, y2
<1>14. switch_jtag2cjtag(s) = r \o y7
  BY <1>3, <1>6, <1>7, <1>8, <1>9, <1>10, <1>11
<1>. QED BY <1>2, <1>4, <1>12, <1>13, <1>14

\* Where an operation of the start-up stands in it.
LEMMA LaunchOps ==
  ASSUME NEW s \in Setups, s[2] = 2
  PROVE  LET l == Lists[s][StartCall]["launch"] IN
         /\ Len(Way(s)) \in Nat /\ l \in Seq(PinOps) /\ Len(l) = Len(Way(s)) + 51
         /\ \A j \in 1 .. Len(Way(s)) : l[j] = Way(s)[j]
         /\ \A i \in 1 .. 51 : l[Len(Way(s)) + i] = Home[i]
<1>1. Way(s) \in Seq(PinOps)
  BY WayLeads DEF Leads
<1>2. PICK a \in Nat, b \in Nat : a = Len(Way(s)) /\ b = Len(Home) /\ b = 51
  <2>1. Len(Way(s)) \in Nat
    BY <1>1
  <2>2. Len(Home) = 51
    BY HomeForm
  <2>. QED BY <2>1, <2>2
<1>3. Concats(Way(s) \o Home, Way(s), Home, a, b)
  BY <1>1, <1>2, HomeForm, ConcatAt
<1>4. Lists[s][StartCall]["launch"] = Way(s) \o Home
  BY LaunchSplit
<1>5. PICK l : l = Lists[s][StartCall]["launch"]
  OBVIOUS
<1>6. Concats(l, Way(s), Home, a, b)
  BY <1>3, <1>4, <1>5
<1>. QED BY <1>2, <1>5, <1>6 DEF Concats

LEMMA OnWayEntry ==
  ASSUME NEW s \in Setups, s[2] = 2, NEW v \in Starting(s)
  PROVE  OnWay(s, 0, v)
<1>1. Leads(Way(s), Starting(s), At(TRUE, "CAPTURE_DR", Nat, Reading))
  BY WayLeads
<1>2. Len(Way(s)) \in Nat
  BY <1>1 DEF Leads
<1>3. \E f \in [0 .. Len(Way(s)) -> SUBSET Views] :
        Course(Way(s), f) /\ v \in f[0] /\ f[Len(Way(s))] \subseteq At(TRUE, "CAPTURE_DR", Nat, Reading)
  BY <1>1 DEF Leads
<1>. QED BY <1>2, <1>3 DEF OnWay

LEMMA OnWayNext ==
  ASSUME NEW s \in Setups, s[2] = 2, NEW j \in Nat, NEW v, NEW w \in Views,
         OnWay(s, j, v), j < Len(Way(s)), Goes(v, Way(s)[j + 1], w)
  PROVE  OnWay(s, j + 1, w)
<1>. DEFINE T == At(TRUE, "CAPTURE_DR", Nat, Reading)
<1>1. PICK f \in [0 .. Len(Way(s)) -> SUBSET Views] : Course(Way(s), f) /\ v \in f[j] /\ f[Len(Way(s))] \subseteq T
  BY DEF OnWay
<1>. HIDE DEF T
<1>2. Len(Way(s)) \in Nat
  BY LaunchOps
<1>3. j + 1 \in 1 .. Len(Way(s)) /\ (j + 1) - 1 = j /\ j + 1 \in 0 .. Len(Way(s))
  BY <1>2
<1>4. w \in f[j + 1]
  BY <1>1, <1>3 DEF Course
<1>5. \E g \in [0 .. Len(Way(s)) -> SUBSET Views] : Course(Way(s), g) /\ w \in g[j + 1] /\ g[Len(Way(s))] \subseteq T
  BY <1>1, <1>4
<1>. QED BY <1>3, <1>5 DEF OnWay, T

LEMMA OnWayEnd ==
  ASSUME NEW s, NEW v, OnWay(s, Len(Way(s)), v)
  PROVE  v \in At(TRUE, "CAPTURE_DR", Nat, Reading)
BY DEF OnWay

\* What the adapter makes of the states from the read of rdback0 on.
LEMMA ReadingNoted ==
  ASSUME NEW s, NEW n \in Nat, NEW f \in Formats
  PROVE  /\ s \notin {"UPDATE_DR", "SELECT_IR_SCAN", "TEST_LOGIC_RESET"} => Noted(Reading, s, n, f) = Reading
         /\ f = "oscan1" => Noted(Reading, "UPDATE_DR", n, f) = Checking(0)
         /\ Noted(Checking(0), "RUN_TEST_IDLE", n, f) = Checking(4)
<1>1. /\ Reading.ends = "none" /\ Reading.level = "control" /\ Reading.zbs = 0 /\ Reading.part = NoPart
      /\ Reading.reading /\ Reading.check = 0
  BY DEF Reading, Adapter
<1>2. ASSUME s \notin {"UPDATE_DR", "SELECT_IR_SCAN", "TEST_LOGIC_RESET"} PROVE Noted(Reading, s, n, f) = Reading
  BY <1>1, <1>2 DEF Noted
<1>3. ASSUME f = "oscan1" PROVE Noted(Reading, "UPDATE_DR", n, f) = Checking(0)
  <2>1. PICK ad : ad = Reading
    OBVIOUS
  <2>2. ad \in Adapters /\ ad.level # "data" /\ ad.reading
    BY <1>1, <2>1, AdapterTypes
  <2>3. Noted(ad, "UPDATE_DR", n, f) = Adapter(ad.zbs, ad.level, ad.part, FALSE, f, ad.check)
    BY <2>2, ScanNoted
  <2>. QED BY <1>1, <1>3, <2>1, <2>3 DEF Checking
<1>4. Noted(Checking(0), "RUN_TEST_IDLE", n, f) = Checking(4)
  <2>1. PICK ad : ad = Checking(0)
    OBVIOUS
  <2>2. /\ ad.ends = "oscan1" /\ ad.zbs = 0 /\ ad.level = "control" /\ ad.part = NoPart /\ ad.reading = FALSE
        /\ ad \in Adapters
    <3>1. PICK m \in 0 .. 4 : m = 0
      OBVIOUS
    <3>2. Checking(m) \in Adapters
      BY AdapterTypes
    <3>. QED BY <2>1, <3>1, <3>2 DEF Checking, Adapter
  <2>3. Noted(ad, "RUN_TEST_IDLE", n, f) = [ad EXCEPT !.check = 4]
    BY <2>2 DEF Noted
  <2>4. Noted(ad, "RUN_TEST_IDLE", n, f) = Adapter(ad.zbs, ad.level, ad.part, ad.reading, ad.ends, 4)
    BY <2>2, <2>3 DEF Adapters, Adapter
  <2>5. Checking(4) = Adapter(ad.zbs, ad.level, ad.part, ad.reading, ad.ends, 4)
    BY <2>1, AdapterTypes
  <2>. QED BY <2>1, <2>4, <2>5
<1>. QED BY <1>2, <1>3, <1>4

LEMMA StillEnded ==
  ASSUME NEW ad \in Adapters, ad.check = 0, ad.ends = "none", NEW s, s # "UPDATE_DR", NEW n, NEW f
  PROVE  Noted(ad, s, n, f).check = 0 /\ Noted(ad, s, n, f).ends = "none"
<1>1. CASE s \in {"SELECT_IR_SCAN", "TEST_LOGIC_RESET"}
  <2>1. PICK b : b = FALSE
    OBVIOUS
  <2>2. Noted(ad, s, n, f) = [ad EXCEPT !.zbs = 0, !.level = "data", !.part = NoPart, !.reading = b, !.ends = "none"]
    BY <1>1, <2>1 DEF Noted
  <2>. QED BY <2>2 DEF Adapters
<1>2. CASE s \notin {"SELECT_IR_SCAN", "TEST_LOGIC_RESET"}
  <2>1. Noted(ad, s, n, f) = ad
    BY <1>2 DEF Noted
  <2>. QED BY <2>1
<1>. QED BY <1>1, <1>2

\* A clock of a check packet does not reach the TAP.
LEMMA ChecksKeep ==
  ASSUME StepInv, Step, list[k + 1].kind = "raw", chip.adapter, tck = 0, chip.check > 0
  PROVE  chip'.cap = chip.cap /\ tdo' = tdo /\ cjtag_mode' = cjtag_mode
<1>. DEFINE op == list[k + 1]
<1>1. PICK w \in [1 .. DmiWidth -> Bit] : chip' = [Pulsed(op) EXCEPT !.answer = w]
  BY StepOp
<1>2. tdo' = tdo /\ cjtag_mode' = cjtag_mode
  BY DEF Step
<1>3. chip \in Chips /\ op.kind = "raw"
  BY DEF StepInv, BaseType
<1>. HIDE DEF op
<1>4. Pulsed(op) = Rise(chip, op.tms, TdiPin(0)) \/ Pulsed(op) = Rise(chip, op.tms, TdiPin(op.tdi))
  BY <1>3 DEF Pulsed, First
<1>5. ASSUME NEW t, NEW d PROVE Rise(chip, t, d) \in Chips /\ Rise(chip, t, d).cap = chip.cap
  <2>1. CASE chip.check = 1
    <3>1. Rise(chip, t, d) = [chip EXCEPT !.check = 0, !.fmt = chip.ends, !.ends = "none", !.slot = 0]
      BY <2>1 DEF Rise
    <3>2. chip.ends \in Formats
      BY <1>3, <2>1 DEF Chips, Ends
    <3>3. [chip EXCEPT !.check = 0, !.fmt = chip.ends, !.ends = "none", !.slot = 0] \in Chips
      BY <1>3, <3>2, CheckedType
    <3>. QED BY <1>3, <3>1, <3>3 DEF Chips
  <2>2. CASE chip.check # 1
    <3>1. chip.check \in 2 .. 4
      BY <1>3, <2>2 DEF Chips
    <3>2. Rise(chip, t, d) = [chip EXCEPT !.check = chip.check - 1]
      BY <3>1 DEF Rise
    <3>3. PICK m \in 0 .. 4 : m = chip.check - 1
      BY <3>1
    <3>4. chip.ends # "none"
      BY <1>3 DEF Chips
    <3>5. [chip EXCEPT !.check = m] \in Chips /\ [chip EXCEPT !.check = m].cap = chip.cap
      BY <1>3, <3>4 DEF Chips
    <3>. QED BY <3>2, <3>3, <3>5
  <2>. QED BY <2>1, <2>2
<1>6. Pulsed(op) \in Chips /\ Pulsed(op).cap = chip.cap
  BY <1>4, <1>5
<1>7. chip'.cap = Pulsed(op).cap
  BY <1>1, <1>6 DEF Chips
<1>. QED BY <1>2, <1>6, <1>7

\* A packet of the start-up to a chip that takes it for one clock.
LEMMA PacketMoves ==
  ASSUME StepInv, Step, chip.adapter, list[k + 1] \in Packets, chip.check = 0,
         chip.slot = 0, chip.fmt = FormatOf(cjtag_mode), tck = 0
  PROVE  LET op == list[k + 1] IN
         /\ Moves(op) /\ cjtag_mode' = cjtag_mode /\ chip'.adapter /\ chip'.tap = op.at /\ chip'.shifts \in Nat
         /\ AdapterOf(chip') = Noted(AdapterOf(chip), op.at, chip'.shifts, chip.fmt)
         /\ chip'.slot = 0 /\ tck' = 0 /\ chip'.fmt = FormatOf(cjtag_mode')
<1>. DEFINE op == list[k + 1]
<1>1. op.kind \in {"packet", "bit"} /\ op.at # Unnamed /\ at' = op.at /\ tck' = IF op.kind = "high" THEN 1 ELSE 0
  BY StepOp DEF Packets
<1>2. View.ad.check = 0
  BY ViewIs DEF AdapterOf
<1>3. Clocks(View, op)
  BY <1>1, <1>2, ViewIs DEF Clocks
<1>4. /\ Moves(op) /\ cjtag_mode' = cjtag_mode
      /\ chip'.adapter = chip.adapter /\ chip'.tap = TapNext(chip.tap, op.tms)
      /\ AdapterOf(chip') = IF chip.adapter THEN Noted(AdapterOf(chip), chip'.tap, chip'.shifts, chip.fmt)
                            ELSE AdapterOf(chip)
  BY <1>1, <1>3, Ticking
<1>5. Fits(View, at)'
  BY StepSteps DEF StepInv
<1>6. /\ View'.adapter = chip'.adapter /\ View'.two = cjtag_mode' /\ View'.tap = chip'.tap
      /\ View'.slot = chip'.slot /\ View'.fmt = chip'.fmt
  BY DEF View
<1>7. chip'.tap = op.at /\ chip'.slot = 0 /\ chip'.fmt = FormatOf(cjtag_mode')
  BY <1>1, <1>4, <1>5, <1>6 DEF Fits
<1>8. chip'.shifts \in Nat
  BY <1>4 DEF Moves, Chips
<1>. HIDE DEF op
<1>. QED BY <1>1, <1>4, <1>7, <1>8 DEF op

LEMMA GotKept ==
  ASSUME NEW n, Got(n), Moves(list[k + 1]), list[k + 1].kind = "packet", chip.tap # "CAPTURE_DR"
  PROVE  Got(n)'
BY DEF Got, Moves

\* At home each operation is taken as the chip expects it.
LEMMA HomeStands ==
  ASSUME StepInv, chip.adapter, NEW i \in 1 .. 51, i \notin 35 .. 39, AtHome(i)
  PROVE  /\ chip.check = 0 /\ chip.slot = 0 /\ chip.fmt = FormatOf(cjtag_mode) /\ tck = 0
         /\ chip.tap = Home[i].at
<1>1. at = Home[i].at
  BY DEF AtHome
<1>2. Home[i].at # Unnamed
  <2>1. CASE i = 1
    BY <2>1, HomeForm DEF Tms, Op, Unnamed
  <2>2. CASE i \in 2 .. 33
    <3>1. PICK j \in 1 .. 32 : 1 + j = i
      <4>1. i - 1 \in 1 .. 32 /\ 1 + (i - 1) = i
        BY <2>2
      <4>. QED BY <4>1
    <3>2. Bits(Home[i], Zeros, j, 32)
      BY <3>1, HomeForm
    <3>. QED BY <3>2 DEF Bits, Unnamed
  <2>3. CASE i = 34
    BY <2>3, HomeForm DEF Tms, Op, Unnamed
  <2>5. CASE i \in 40 .. 51
    BY <2>5, HomeForm DEF Last, Packets
  <2>. QED BY <2>1, <2>2, <2>3, <2>5
<1>3. Fits(View, at)
  BY DEF StepInv
<1>4. chip.tap = Home[i].at /\ chip.slot = 0 /\ chip.fmt = FormatOf(cjtag_mode) /\ tck = 0
  BY <1>1, <1>2, <1>3, ViewIs DEF Fits
<1>5. chip.check = AdapterOf(chip).check
  BY DEF AdapterOf
<1>6. chip.check = 0
  <2>1. CASE i \in 1 .. 33
    <3>1. AdapterOf(chip) = Reading
      BY <2>1 DEF AtHome
    <3>. QED BY <1>5, <3>1, AdapterTypes
  <2>2. CASE i = 34
    <3>1. AdapterOf(chip) = Checking(0)
      BY <2>2 DEF AtHome
    <3>. QED BY <1>5, <3>1 DEF Checking, Adapter
  <2>4. CASE i \in 40 .. 51
    BY <2>4 DEF AtHome
  <2>. QED BY <2>1, <2>2, <2>4
<1>. QED BY <1>4, <1>6

\* Into Shift-DR: rdback0 is captured.
LEMMA HomeFirst ==
  ASSUME StepInv, Step, chip.adapter, list[k + 1] = Home[1], AtHome(0)
  PROVE  AtHome(1)'
<1>. DEFINE op == list[k + 1]
<1>1. op = Tms(0, "SHIFT_DR") /\ at' = Home[1].at
  BY HomeForm, StepOp
<1>2. op \in Packets /\ op.at = "SHIFT_DR" /\ op.kind = "packet"
  BY <1>1, TmsNamed, States DEF Bit, Named
<1>3. View \in At(TRUE, "CAPTURE_DR", Nat, Reading) /\ cjtag_mode = TRUE
  BY DEF AtHome
<1>4. /\ chip.tap = "CAPTURE_DR" /\ chip.slot = 0 /\ chip.fmt = FormatOf(cjtag_mode) /\ tck = 0
      /\ AdapterOf(chip) = Reading
  BY <1>3, ViewIs DEF At, Here
<1>5. chip.check = 0 /\ chip.reading
  <2>1. AdapterOf(chip).check = 0 /\ AdapterOf(chip).reading
    BY <1>4 DEF Reading, Adapter
  <2>. QED BY <2>1 DEF AdapterOf
<1>6. /\ Moves(op) /\ cjtag_mode' = cjtag_mode
      /\ AdapterOf(chip') = Noted(AdapterOf(chip), op.at, chip'.shifts, chip.fmt) /\ chip'.shifts \in Nat
  BY <1>2, <1>4, <1>5, PacketMoves
<1>7. AdapterOf(chip') = Reading
  <2>1. chip.fmt \in Formats
    BY DEF StepInv, BaseType, Chips
  <2>2. PICK n, f, s : n = chip'.shifts /\ f = chip.fmt /\ s = op.at
    OBVIOUS
  <2>3. Noted(Reading, s, n, f) = Reading
    BY <1>2, <1>6, <2>1, <2>2, ReadingNoted
  <2>. QED BY <1>4, <1>6, <2>2, <2>3
<1>8. chip'.sr = Rdback /\ chip'.cap = Rdback
  BY <1>4, <1>5, <1>6 DEF Moves, Captured
<1>9. PICK c, t : c = Rdback /\ t = temp'
  OBVIOUS
<1>10. ScanAt(chip'.sr, chip'.cap, temp', 0, 32, Zeros)
  <2>1. PICK n \in Nat : n = 32 /\ c \in [1 .. n -> Bit]
    BY <1>9, TapAssumption, ScanAssumption
  <2>2. ScanAt(c, c, t, 0, n, Zeros)
    BY <2>1, ScanBegins
  <2>. QED BY <1>8, <1>9, <2>1, <2>2
<1>11. \A j \in 0 .. 32 : 1 = 1 + j => ScanAt(chip'.sr, chip'.cap, temp', j, 32, Zeros)
  BY <1>10
<1>. HIDE DEF op
<1>. QED BY <1>1, <1>3, <1>6, <1>7, <1>11 DEF AtHome

\* Its bits come out.
LEMMA HomeShifts ==
  ASSUME StepInv, PartsOK(temp), Step, chip.adapter, Size = 32, NEW i \in 1 .. 32, list[k + 1] = Home[i + 1],
         AtHome(i)
  PROVE  AtHome(i + 1)'
<1>. DEFINE op == list[k + 1]
<1>1. at' = Home[i + 1].at
  BY StepOp
<1>2. PICK j \in Nat : i = 1 + j /\ j < 32 /\ j \in 0 .. 32 /\ j + 1 = i /\ j + 1 \in 1 .. 32 /\ i + 1 = 1 + (j + 1)
  <2>1. i - 1 \in Nat /\ i = 1 + (i - 1) /\ i - 1 < 32
    OBVIOUS
  <2>. QED BY <2>1
<1>3. Bits(op, Zeros, j + 1, 32)
  BY <1>2, HomeForm
<1>4. op \in Packets /\ op.kind = "bit" /\ op.at \in {"SHIFT_DR", "EXIT1_DR"}
  <2>1. op \in PinOps
    BY StepOp
  <2>. QED BY <1>3, <2>1 DEF Bits, Packets, Unnamed
<1>5. /\ chip.check = 0 /\ chip.slot = 0 /\ chip.fmt = FormatOf(cjtag_mode) /\ tck = 0 /\ chip.tap = Home[i].at
  BY HomeStands
<1>6. chip.tap = "SHIFT_DR"
  <2>1. CASE i = 1
    BY <1>5, <2>1, HomeForm DEF Tms, Op
  <2>2. CASE i # 1
    <3>1. PICK m \in 1 .. 32 : i = 1 + m /\ m < 32
      <4>1. i - 1 \in 1 .. 32 /\ i = 1 + (i - 1) /\ i - 1 < 32
        BY <2>2
      <4>. QED BY <4>1
    <3>2. Bits(Home[1 + m], Zeros, m, 32)
      BY HomeForm
    <3>. QED BY <1>5, <3>1, <3>2 DEF Bits
  <2>. QED BY <2>1, <2>2
<1>7. /\ Moves(op) /\ cjtag_mode' = cjtag_mode
      /\ AdapterOf(chip') = Noted(AdapterOf(chip), op.at, chip'.shifts, chip.fmt) /\ chip'.shifts \in Nat
  BY <1>4, <1>5, PacketMoves
<1>8. AdapterOf(chip') = Reading
  <2>1. chip.fmt \in Formats
    BY DEF StepInv, BaseType, Chips
  <2>2. PICK n, f, s : n = chip'.shifts /\ f = chip.fmt /\ s = op.at
    OBVIOUS
  <2>3. Noted(Reading, s, n, f) = Reading
    BY <1>4, <1>7, <2>1, <2>2, ReadingNoted
  <2>4. AdapterOf(chip) = Reading
    BY DEF AtHome
  <2>. QED BY <1>7, <2>2, <2>3, <2>4
<1>9. /\ ScanAt(chip'.sr, chip'.cap, temp', j + 1, 32, Zeros)
      /\ j + 1 = 32 => Got(32)'
  <2>1. ScanAt(chip.sr, chip.cap, temp, j, 32, Zeros)
    BY <1>2 DEF AtHome
  <2>2. PICK n, p : n \in {32, 41} /\ n = 32 /\ p = Zeros
    OBVIOUS
  <2>3. /\ Bits(list[k + 1], p, j + 1, n) /\ ScanAt(chip.sr, chip.cap, temp, j, n, p) /\ PartsOK(p) /\ j < n
        /\ n = Size
    BY <1>2, <1>3, <2>1, <2>2, ZerosOK
  <2>4. /\ ScanAt(chip'.sr, chip'.cap, temp', j + 1, n, p)
        /\ j + 1 = n /\ n = Size => Got(n)'
    <3>1. Line(list[k + 1]) = list[k + 1].tdi
      BY DEF AtHome, Line
    <3>. QED BY <1>6, <1>7, <2>3, <3>1, ScanMoves
  <2>. QED BY <2>2, <2>3, <2>4
<1>. HIDE DEF op
<1>10. cjtag_mode' = TRUE
  BY <1>7 DEF AtHome
<1>11. \A m \in 0 .. 32 : i + 1 = 1 + m => ScanAt(chip'.sr, chip'.cap, temp', m, 32, Zeros)
  BY <1>2, <1>9
<1>12. /\ i + 1 > 0 /\ i + 1 # 0 /\ i + 1 # 34 /\ ~(i + 1 > 39) /\ \A m \in 0 .. 4 : i + 1 # 39 - m
       /\ i + 1 >= 33 => j + 1 = 32
  BY <1>2
<1>. QED BY <1>1, <1>8, <1>9, <1>10, <1>11, <1>12 DEF AtHome

\* Update-DR ends the read.
LEMMA HomeUpdates ==
  ASSUME StepInv, Step, chip.adapter, list[k + 1] = Home[34], AtHome(33)
  PROVE  AtHome(34)'
<1>. DEFINE op == list[k + 1]
<1>1. op = Tms(1, "UPDATE_DR") /\ at' = Home[34].at
  BY HomeForm, StepOp
<1>2. op \in Packets /\ op.at = "UPDATE_DR" /\ op.kind = "packet"
  BY <1>1, TmsNamed, States DEF Bit, Named
<1>3. /\ chip.check = 0 /\ chip.slot = 0 /\ chip.fmt = FormatOf(cjtag_mode) /\ tck = 0 /\ chip.tap = Home[33].at
  BY HomeStands
<1>4. chip.tap = "EXIT1_DR"
  <2>1. PICK j \in 1 .. 32 : 1 + j = 33 /\ j = 32
    OBVIOUS
  <2>2. Bits(Home[1 + j], Zeros, j, 32)
    BY HomeForm
  <2>. QED BY <1>3, <2>1, <2>2 DEF Bits
<1>5. AdapterOf(chip) = Reading /\ Got(32) /\ cjtag_mode = TRUE
  BY DEF AtHome
<1>6. /\ Moves(op) /\ cjtag_mode' = cjtag_mode
      /\ AdapterOf(chip') = Noted(AdapterOf(chip), op.at, chip'.shifts, chip.fmt) /\ chip'.shifts \in Nat
  BY <1>2, <1>3, PacketMoves
<1>7. AdapterOf(chip') = Checking(0)
  <2>1. chip.fmt = "oscan1" /\ "oscan1" \in Formats
    BY <1>3, <1>5 DEF FormatOf, Formats
  <2>2. PICK n, f : n = chip'.shifts /\ f = chip.fmt
    OBVIOUS
  <2>3. Noted(Reading, "UPDATE_DR", n, f) = Checking(0)
    BY <1>6, <2>1, <2>2, ReadingNoted
  <2>. QED BY <1>2, <1>5, <1>6, <2>2, <2>3
<1>8. Got(32)'
  <2>1. chip.tap # "CAPTURE_DR"
    BY <1>4
  <2>. QED BY <1>2, <1>5, <1>6, <2>1, GotKept
<1>. HIDE DEF op
<1>9. /\ \A m \in 0 .. 4 : 34 # 39 - m
      /\ \A j \in 0 .. 32 : 34 # 1 + j
  OBVIOUS
<1>. QED BY <1>1, <1>5, <1>6, <1>7, <1>8, <1>9 DEF AtHome

\* Run-Test/Idle begins the check packet,
LEMMA HomeIdles ==
  ASSUME StepInv, Step, chip.adapter, list[k + 1] = Home[35], AtHome(34)
  PROVE  AtHome(35)'
<1>. DEFINE op == list[k + 1]
<1>1. op = Tms(0, "RUN_TEST_IDLE") /\ at' = Home[35].at
  BY HomeForm, StepOp
<1>2. op \in Packets /\ op.at = "RUN_TEST_IDLE" /\ op.kind = "packet"
  BY <1>1, TmsNamed, States DEF Bit, Named
<1>3. /\ chip.check = 0 /\ chip.slot = 0 /\ chip.fmt = FormatOf(cjtag_mode) /\ tck = 0 /\ chip.tap = Home[34].at
  BY HomeStands
<1>4. chip.tap # "CAPTURE_DR"
  BY <1>3, HomeForm DEF Tms, Op
<1>5. AdapterOf(chip) = Checking(0) /\ Got(32) /\ cjtag_mode = TRUE
  BY DEF AtHome
<1>6. /\ Moves(op) /\ cjtag_mode' = cjtag_mode /\ chip'.adapter /\ chip'.tap = op.at
      /\ AdapterOf(chip') = Noted(AdapterOf(chip), op.at, chip'.shifts, chip.fmt) /\ chip'.shifts \in Nat
      /\ chip'.slot = 0 /\ tck' = 0 /\ chip'.fmt = FormatOf(cjtag_mode')
  BY <1>2, <1>3, PacketMoves
<1>7. AdapterOf(chip') = Checking(4)
  <2>1. chip.fmt \in Formats
    BY DEF StepInv, BaseType, Chips
  <2>2. PICK n, f : n = chip'.shifts /\ f = chip.fmt
    OBVIOUS
  <2>3. Noted(Checking(0), "RUN_TEST_IDLE", n, f) = Checking(4)
    BY <1>6, <2>1, <2>2, ReadingNoted
  <2>. QED BY <1>2, <1>5, <1>6, <2>2, <2>3
<1>8. Got(32)'
  BY <1>2, <1>4, <1>5, <1>6, GotKept
<1>9. View' \in Checks(TRUE, 4)
  <2>1. StepInv'
    BY StepSteps
  <2>2. BaseType' /\ Fits(View, at)'
    BY <2>1 DEF StepInv
  <2>3. View' \in Views
    BY <2>2, ViewType
  <2>4. /\ View'.adapter = chip'.adapter /\ View'.bench = (program' = "SV") /\ View'.two = cjtag_mode' /\ View'.tck = tck'
        /\ View'.tap = chip'.tap /\ View'.fmt = chip'.fmt /\ View'.slot = chip'.slot
        /\ View'.shifts = chip'.shifts /\ View'.ad = AdapterOf(chip')
    BY DEF View, AdapterOf
  <2>5. PICK v : v = View'
    OBVIOUS
  <2>6. PICK two \in BOOLEAN : two = TRUE /\ two
    OBVIOUS
  <2>7. /\ v \in Views /\ v.two = two /\ v.tck = 0 /\ v.tap = "RUN_TEST_IDLE" /\ v.slot = 0
        /\ v.fmt = FormatOf(two) /\ v.ad = Checking(4) /\ v.shifts \in Nat
    BY <1>2, <1>5, <1>6, <1>7, <2>3, <2>4, <2>5, <2>6
  <2>8. v \in Here(two, FormatOf(two), "RUN_TEST_IDLE", Nat, Checking(4))
    BY <2>6, <2>7 DEF Here
  <2>9. PICK n : n = 4 /\ n # 0
    OBVIOUS
  <2>10. v \in Checks(two, n)
    BY <2>8, <2>9 DEF Checks
  <2>. QED BY <2>5, <2>6, <2>9, <2>10
<1>. HIDE DEF op
<1>10. \A m \in 0 .. 4 : 35 = 39 - m => m = 4
  OBVIOUS
<1>11. \A j \in 0 .. 32 : 35 # 1 + j
  OBVIOUS
<1>12. 35 > 0 /\ 35 # 0 /\ 35 \notin 1 .. 33 /\ 35 # 34 /\ ~(35 > 39)
  OBVIOUS
<1>13. cjtag_mode' = TRUE
  BY <1>5, <1>6
<1>14. \A m \in 0 .. 4 : 35 = 39 - m => View' \in Checks(TRUE, m)
  BY <1>9, <1>10
<1>. QED BY <1>1, <1>8, <1>11, <1>12, <1>13, <1>14 DEF AtHome

\* and four clocks end it.
LEMMA HomeChecks ==
  ASSUME StepInv, Step, chip.adapter, NEW i \in 35 .. 38, list[k + 1] = Home[i + 1], AtHome(i)
  PROVE  AtHome(i + 1)'
<1>. DEFINE op == list[k + 1]
<1>1. op = Raw(0) /\ at' = Home[i + 1].at /\ op \in PinOps
  <2>1. i + 1 \in 36 .. 39
    OBVIOUS
  <2>. QED BY <2>1, HomeForm, StepOp
<1>2. op.kind = "raw"
  BY <1>1 DEF Raw, Op
<1>3. PICK m \in 1 .. 4 : i = 39 - m /\ m \in 0 .. 4 /\ i + 1 = 39 - (m - 1) /\ m - 1 \in 0 .. 4
  <2>1. 39 - i \in 1 .. 4 /\ i = 39 - (39 - i) /\ 39 - i \in 0 .. 4 /\ i + 1 = 39 - ((39 - i) - 1) /\ (39 - i) - 1 \in 0 .. 4
    OBVIOUS
  <2>. QED BY <2>1
<1>4. View \in Checks(TRUE, m) /\ Got(32) /\ cjtag_mode = TRUE
  <2>1. i >= 33
    OBVIOUS
  <2>2. View \in Checks(TRUE, m)
    BY <1>3 DEF AtHome
  <2>. QED BY <2>1, <2>2 DEF AtHome
<1>5. tck = 0 /\ chip.check > 0
  <2>1. m # 0
    OBVIOUS
  <2>2. View \in Here(TRUE, FormatOf(TRUE), "RUN_TEST_IDLE", Nat, Checking(m))
    BY <1>4, <2>1 DEF Checks
  <2>3. tck = 0 /\ AdapterOf(chip) = Checking(m)
    BY <2>2, ViewIs DEF Here
  <2>4. chip.check = m
    <3>1. AdapterOf(chip).check = chip.check
      BY DEF AdapterOf
    <3>2. Checking(m).check = m
      BY DEF Checking, Adapter
    <3>. QED BY <2>3, <3>1, <3>2
  <2>. QED BY <2>3, <2>4
<1>6. chip'.cap = chip.cap /\ tdo' = tdo /\ cjtag_mode' = cjtag_mode
  BY <1>2, <1>5, ChecksKeep
<1>7. View' \in Checks(TRUE, m - 1)
  <2>1. BaseType' /\ Goes(View, op, View')
    <3>1. Does(op) /\ BaseType
      BY StepDoes DEF StepInv
    <3>. QED BY <1>1, <3>1, DoesGo
  <2>2. PICK v, w, two : v = View /\ w = View' /\ two \in BOOLEAN /\ two = TRUE
    OBVIOUS
  <2>3. v \in Checks(two, m) /\ w \in Views /\ Goes(v, Raw(0), w)
    BY <1>1, <1>4, <2>1, <2>2, ViewType
  <2>4. w \in Checks(two, m - 1)
    BY <2>2, <2>3, CheckOnce
  <2>. QED BY <2>2, <2>4
<1>8. Got(32)'
  BY <1>4, <1>6 DEF Got
<1>. HIDE DEF op
<1>9. /\ i + 1 > 0 /\ i + 1 \notin 0 .. 34 /\ ~(i + 1 > 39)
      /\ \A n \in 0 .. 4 : i + 1 = 39 - n => n = m - 1
      /\ \A j \in 0 .. 32 : i + 1 # 1 + j
  BY <1>3
<1>10. i + 1 # 0 /\ i + 1 \notin 1 .. 33 /\ i + 1 # 34
  OBVIOUS
<1>. QED BY <1>1, <1>4, <1>6, <1>7, <1>8, <1>9, <1>10 DEF AtHome

\* The level is left with an instruction scan, and what was read stays.
LEMMA HomeLast ==
  ASSUME StepInv, Step, chip.adapter, NEW i \in 39 .. 50, list[k + 1] = Home[i + 1], AtHome(i)
  PROVE  AtHome(i + 1)'
<1>. DEFINE op == list[k + 1]
<1>1. op \in Last /\ at' = Home[i + 1].at
  <2>1. i + 1 \in 40 .. 51
    OBVIOUS
  <2>. QED BY <2>1, HomeForm, StepOp
<1>2. op \in Packets /\ op.at # "UPDATE_DR" /\ op.kind = "packet"
  BY <1>1 DEF Last
<1>3. /\ chip.check = 0 /\ chip.ends = "none" /\ chip.slot = 0 /\ chip.fmt = FormatOf(cjtag_mode) /\ tck = 0
      /\ chip.tap # "CAPTURE_DR"
  <2>1. CASE i = 39
    <3>1. View \in Checks(TRUE, 0) /\ cjtag_mode = TRUE
      <4>1. 39 = 39 - 0 /\ 0 \in 0 .. 4
        OBVIOUS
      <4>. QED BY <2>1, <4>1 DEF AtHome
    <3>2. View \in Here(TRUE, "oscan1", "RUN_TEST_IDLE", Nat, Control)
      BY <3>1 DEF Checks
    <3>3. chip.slot = 0 /\ chip.fmt = "oscan1" /\ tck = 0 /\ chip.tap = "RUN_TEST_IDLE" /\ AdapterOf(chip) = Control
      BY <3>2, ViewIs DEF Here
    <3>4. chip.check = 0 /\ chip.ends = "none"
      <4>1. AdapterOf(chip).check = 0 /\ AdapterOf(chip).ends = "none"
        BY <3>3, AdapterTypes
      <4>. QED BY <4>1 DEF AdapterOf
    <3>. QED BY <3>1, <3>3, <3>4 DEF FormatOf
  <2>2. CASE i \in 40 .. 50
    <3>1. i \in 1 .. 51 /\ i \notin 35 .. 39 /\ i \in 40 .. 51 /\ i > 39
      BY <2>2
    <3>2. /\ chip.check = 0 /\ chip.slot = 0 /\ chip.fmt = FormatOf(cjtag_mode) /\ tck = 0 /\ chip.tap = Home[i].at
      BY <3>1, HomeStands
    <3>3. chip.ends = "none"
      BY <3>1 DEF AtHome
    <3>4. Home[i] \in Last
      BY <3>1, HomeForm
    <3>. QED BY <3>2, <3>3, <3>4 DEF Last
  <2>. QED BY <2>1, <2>2
<1>4. /\ Moves(op) /\ cjtag_mode' = cjtag_mode /\ chip'.shifts \in Nat
      /\ AdapterOf(chip') = Noted(AdapterOf(chip), op.at, chip'.shifts, chip.fmt)
  BY <1>2, <1>3, PacketMoves
<1>5. chip'.check = 0 /\ chip'.ends = "none"
  <2>1. PICK ad, s, n, f : ad = AdapterOf(chip) /\ s = op.at /\ n = chip'.shifts /\ f = chip.fmt
    OBVIOUS
  <2>2. ad \in Adapters /\ ad.check = 0 /\ ad.ends = "none" /\ s # "UPDATE_DR"
    <3>1. chip \in Chips
      BY DEF StepInv, BaseType
    <3>2. AdapterOf(chip) \in Adapters
      BY <3>1 DEF AdapterOf, Adapters, Chips
    <3>. QED BY <1>2, <1>3, <2>1, <3>2 DEF AdapterOf
  <2>3. Noted(ad, s, n, f).check = 0 /\ Noted(ad, s, n, f).ends = "none"
    BY <2>2, StillEnded
  <2>4. AdapterOf(chip').check = 0 /\ AdapterOf(chip').ends = "none"
    BY <1>4, <2>1, <2>3
  <2>. QED BY <2>4 DEF AdapterOf
<1>6. Got(32) /\ cjtag_mode = TRUE
  <2>1. i >= 33
    OBVIOUS
  <2>. QED BY <2>1 DEF AtHome
<1>7. Got(32)'
  BY <1>2, <1>3, <1>4, <1>6, GotKept
<1>. HIDE DEF op
<1>8. /\ \A n \in 0 .. 4 : i + 1 # 39 - n
      /\ \A j \in 0 .. 32 : i + 1 # 1 + j
      /\ i + 1 # 0 /\ i + 1 \notin 1 .. 33 /\ i + 1 # 34
  OBVIOUS
<1>. QED BY <1>1, <1>4, <1>5, <1>6, <1>7, <1>8 DEF AtHome

\* Where the way ends the read begins.
LEMMA HomeBegins ==
  ASSUME NEW s, OnWay(s, Len(Way(s)), View')
  PROVE  AtHome(0)'
<1>1. PICK w : w = View'
  OBVIOUS
<1>2. w \in At(TRUE, "CAPTURE_DR", Nat, Reading)
  BY <1>1, OnWayEnd
<1>3. cjtag_mode' = TRUE
  <2>1. w.two = TRUE
    BY <1>2 DEF At, Here
  <2>2. View'.two = cjtag_mode'
    BY DEF View
  <2>. QED BY <1>1, <2>1, <2>2
<1>4. /\ ~(0 > 0) /\ 0 \notin 1 .. 33 /\ 0 # 34 /\ (\A m \in 0 .. 4 : 0 # 39 - m) /\ ~(0 > 39)
      /\ (\A j \in 0 .. 32 : 0 # 1 + j) /\ ~(0 >= 33)
  OBVIOUS
<1>. QED BY <1>1, <1>2, <1>3, <1>4 DEF AtHome

\* One operation of the 51.
LEMMA StepHome ==
  ASSUME StepInv, PartsOK(temp), Step, chip.adapter, setup[2] = 2, call = StartCall, phase = "launch",
         NEW i \in 0 .. 50, k = Len(Way(setup)) + i, AtHome(i)
  PROVE  AtHome(i + 1)'
<1>1. PICK s \in Setups : s = setup /\ s[2] = 2
  BY DEF StepInv, BaseType
<1>2. PICK a \in Nat : a = Len(Way(s)) /\ k = a + i /\ k + 1 = a + (i + 1)
  <2>1. Len(Way(s)) \in Nat
    BY <1>1, LaunchOps
  <2>. QED BY <1>1, <2>1
<1>3. list[k + 1] = Home[i + 1]
  <2>1. list = Lists[s][StartCall]["launch"]
    BY <1>1 DEF list
  <2>2. \A j \in 1 .. 51 : list[a + j] = Home[j]
    BY <1>1, <1>2, <2>1, LaunchOps
  <2>3. PICK j \in 1 .. 51 : j = i + 1
    <3>1. i + 1 \in 1 .. 51
      OBVIOUS
    <3>. QED BY <3>1
  <2>4. PICK m : m = k + 1
    OBVIOUS
  <2>5. m = a + j
    BY <1>2, <2>3, <2>4
  <2>. QED BY <2>2, <2>3, <2>4, <2>5
<1>4. Size = 32
  BY ScanAssumption DEF Size, StartCall
<1>5. CASE i = 0
  <2>1. i + 1 = 1
    BY <1>5
  <2>. QED BY <1>3, <1>5, <2>1, HomeFirst
<1>6. CASE i \in 1 .. 32
  BY <1>3, <1>4, <1>6, HomeShifts
<1>7. CASE i = 33
  <2>1. i + 1 = 34
    BY <1>7
  <2>. QED BY <1>3, <1>7, <2>1, HomeUpdates
<1>8. CASE i = 34
  <2>1. i + 1 = 35
    BY <1>8
  <2>. QED BY <1>3, <1>8, <2>1, HomeIdles
<1>9. CASE i \in 35 .. 38
  BY <1>3, <1>9, HomeChecks
<1>10. CASE i \in 39 .. 50
  BY <1>3, <1>10, HomeLast
<1>11. i = 0 \/ i \in 1 .. 32 \/ i = 33 \/ i = 34 \/ i \in 35 .. 38 \/ i \in 39 .. 50
  OBVIOUS
<1>. QED BY <1>5, <1>6, <1>7, <1>8, <1>9, <1>10, <1>11

LEMMA StartLists ==
  ASSUME NEW s \in Setups
  PROVE  Lists[s][StartCall]["fetch"] = <<>> /\ Lists[s][StartCall]["leave"] = <<>>
<1>1. StartCall \in Calls /\ StartCall.f = "start"
  BY DEF StartCall, Calls
<1>. QED BY <1>1 DEF Lists

\* With four wires the start-up is the reset: five clocks with TMS high.
LEMMA FourOps ==
  ASSUME NEW s \in Setups, s = <<"C", 4>>
  PROVE  LET l == Lists[s][StartCall]["launch"] IN
         /\ Len(l) = 6
         /\ \A j \in 1 .. 6 : l[j].kind = "packet" /\ l[j].tms = IF j <= 5 THEN 1 ELSE 0
<1>. DEFINE x == Tms(1, Unnamed)
            a == Times(4, x)
            b == <<Tms(1, "TEST_LOGIC_RESET"), Tms(0, "RUN_TEST_IDLE")>>
<1>1. s[1] = "C" /\ s[2] = 4 /\ s # <<"C", 2>> /\ StartCall \in Calls /\ StartCall.f = "start"
  BY SetupForms DEF StartCall, Calls
<1>2. Launch(s, StartCall) = <<>> \o jtag_reset(s)
  BY <1>1 DEF Launch
<1>3. jtag_reset(s) = a \o b
  BY <1>1 DEF jtag_reset
<1>4. x \in PinOps /\ x.kind = "packet" /\ x.tms = 1
  BY TmsOps DEF Bit, Tms, Op
<1>5. /\ b \in Seq(PinOps) /\ Len(b) = 2
      /\ b[1].kind = "packet" /\ b[1].tms = 1 /\ b[2].kind = "packet" /\ b[2].tms = 0
  <2>1. PICK y, z : y = Tms(1, "TEST_LOGIC_RESET") /\ z = Tms(0, "RUN_TEST_IDLE")
    OBVIOUS
  <2>2. y \in PinOps /\ z \in PinOps
    BY <2>1, TmsOps, States DEF Bit
  <2>3. y.kind = "packet" /\ y.tms = 1 /\ z.kind = "packet" /\ z.tms = 0
    BY <2>1 DEF Tms, Op
  <2>. QED BY <2>1, <2>2, <2>3
<1>. HIDE DEF x, b
<1>6. PICK n4 \in Nat, n2 \in Nat : n4 = 4 /\ n2 = 2
  OBVIOUS
<1>7. a \in Seq(PinOps) /\ Len(a) = n4 /\ \A j \in 1 .. n4 : a[j] = x
  <2>1. Times(n4, x) \in Seq(PinOps) /\ Len(Times(n4, x)) = n4 /\ \A j \in 1 .. n4 : Times(n4, x)[j] = x
    BY <1>4, TimesOf
  <2>. QED BY <1>6, <2>1
<1>. HIDE DEF a
<1>8. Concats(a \o b, a, b, n4, n2)
  BY <1>5, <1>6, <1>7, ConcatAt
<1>9. PICK l : l = a \o b
  OBVIOUS
<1>10. Concats(l, a, b, n4, n2)
  BY <1>8, <1>9
<1>11. l \in Seq(PinOps) /\ Len(l) = 6
  BY <1>6, <1>10 DEF Concats
<1>12. \A j \in 1 .. 4 : l[j] = x
  BY <1>6, <1>7, <1>10 DEF Concats
<1>13. l[5] = b[1] /\ l[6] = b[2]
  <2>1. \A j \in 1 .. n2 : l[n4 + j] = b[j]
    BY <1>10 DEF Concats
  <2>2. 1 \in 1 .. n2 /\ n4 + 1 = 5 /\ 2 \in 1 .. n2 /\ n4 + 2 = 6
    BY <1>6
  <2>. QED BY <2>1, <2>2
<1>14. Lists[s][StartCall]["launch"] = l
  <2>1. <<>> \o l = l
    BY <1>11, ConcatEmptySeq
  <2>2. Launch(s, StartCall) = l
    BY <1>2, <1>3, <1>9, <2>1
  <2>. QED BY <1>1, <2>2 DEF Lists
<1>15. ASSUME NEW j \in 1 .. 6 PROVE l[j].kind = "packet" /\ l[j].tms = IF j <= 5 THEN 1 ELSE 0
  <2>1. j \in 1 .. 4 \/ j = 5 \/ j = 6
    OBVIOUS
  <2>. QED BY <1>4, <1>5, <1>12, <1>13, <2>1
<1>. QED BY <1>11, <1>14, <1>15

LEMMA StepFour ==
  ASSUME StepInv, FourInv, Step
  PROVE  FourInv'
<1>. DEFINE op == list[k + 1]
<1>1. /\ call \in Calls /\ phase \in Phases /\ k \in Nat /\ k' = k + 1 /\ k + 1 \in 1 .. Len(list)
      /\ list = Lists[setup][call][phase] /\ op \in PinOps
      /\ setup' = setup /\ call' = call /\ phase' = phase
  BY StepOp
<1>2. setup \in Setups
  BY DEF StepInv, BaseType
<1>. SUFFICES ASSUME setup = <<"C", 4>> PROVE FourInv'
  BY <1>1 DEF FourInv
<1>3. cjtag_mode = FALSE
  BY DEF FourInv
<1>4. CASE call # StartCall
  <2>1. list \in Seq(Packets)
    BY <1>1, <1>2, <1>4, PacketLists
  <2>2. op \in Packets
    BY <1>1, <2>1
  <2>3. cjtag_mode' = cjtag_mode
    BY <2>2 DEF Step, Packets
  <2>. QED BY <1>1, <1>3, <1>4, <2>3 DEF FourInv
<1>5. CASE call = StartCall
  <2>1. phase = "launch"
    <3>1. ASSUME phase # "launch" PROVE FALSE
      <4>1. list = <<>>
        BY <1>1, <1>2, <1>5, <3>1, StartLists DEF Phases
      <4>. QED BY <1>1, <4>1
    <3>. QED BY <3>1
  <2>2. /\ Len(list) = 6
        /\ \A j \in 1 .. 6 : list[j].kind = "packet" /\ list[j].tms = IF j <= 5 THEN 1 ELSE 0
    <3>1. list = Lists[setup][StartCall]["launch"]
      BY <1>1, <1>5, <2>1
    <3>. QED BY <1>2, <3>1, FourOps
  <2>3. op.kind = "packet" /\ k + 1 \in 1 .. 6 /\ op.tms = IF k + 1 <= 5 THEN 1 ELSE 0
    BY <1>1, <2>2
  <2>4. k \in 0 .. 5 /\ op.tms = IF k < 5 THEN 1 ELSE 0
    BY <1>1, <2>3
  <2>5. PICK n \in Nat : n = 5 - k
    <3>1. 5 - k \in Nat
      BY <2>4
    <3>. QED BY <3>1
  <2>6. View \in Rising(n)
    <3>1. k <= 5
      BY <2>4
    <3>. QED BY <1>5, <2>1, <2>5, <3>1 DEF FourInv
  <2>7. Clocks(View, op)
    BY <1>3, <2>3, <2>6, ViewIs DEF Rising, Clocks, FormatOf
  <2>8. Moves(op) /\ cjtag_mode' = cjtag_mode /\ chip'.tap = TapNext(chip.tap, op.tms)
    BY <2>3, <2>7, Ticking
  <2>9. chip.tap \in TapStates /\ Highs(chip.tap) <= n
    <3>1. chip \in Chips
      BY <2>8 DEF Moves
    <3>. QED BY <2>6, <3>1, ViewIs DEF Rising, Chips
  <2>10. Nothing'
    <3>1. tdo' = tdo /\ tdo = Zeros /\ chip.cap \in {<<0>>, Reset.answer}
      BY <1>5, <2>3, <2>8 DEF Moves, FourInv, Nothing
    <3>2. chip'.cap = IF chip.tap = "CAPTURE_DR" THEN Captured(chip) ELSE chip.cap
      BY <2>8 DEF Moves
    <3>3. chip.tap = "CAPTURE_DR" => Captured(chip) \in {<<0>>, Reset.answer}
      <4>1. CASE k = 0
        BY <1>5, <2>1, <4>1 DEF FourInv
      <4>2. CASE k > 0
        BY <1>5, <2>1, <4>2 DEF FourInv
      <4>. QED BY <2>4, <4>1, <4>2
    <3>. QED BY <3>1, <3>2, <3>3 DEF Nothing
  <2>11. chip'.tap # "CAPTURE_DR"
    <3>1. CASE op.tms = 1
      BY <2>8, <2>9, <3>1, States DEF TapNext, OnHigh
    <3>2. CASE op.tms = 0
      <4>1. n = 0
        BY <2>4, <2>5, <3>2
      <4>2. chip.tap = "TEST_LOGIC_RESET"
        <5>1. Highs(chip.tap) \in 0 .. 5 /\ (Highs(chip.tap) = 0 => chip.tap = "TEST_LOGIC_RESET")
          BY <2>9, HighsCounted
        <5>. QED BY <2>9, <4>1, <5>1
      <4>. QED BY <2>8, <3>2, <4>2 DEF TapNext, OnLow
    <3>. QED BY <2>4, <3>1, <3>2
  <2>12. k' <= 5 => View' \in Rising(5 - k')
    <3>. SUFFICES ASSUME k' <= 5 PROVE View' \in Rising(5 - k')
      OBVIOUS
    <3>1. k < 5 /\ op.tms = 1
      BY <1>1, <2>4
    <3>2. PICK m \in Nat : m = 5 - k' /\ m = IF n = 0 THEN 0 ELSE n - 1
      <4>1. 5 - k' \in Nat /\ 5 - k' = IF n = 0 THEN 0 ELSE n - 1
        BY <1>1, <2>5, <3>1
      <4>. QED BY <4>1
    <3>3. BaseType' /\ Goes(View, op, View')
      <4>1. Does(op) /\ BaseType
        BY StepDoes DEF StepInv
      <4>. QED BY <1>1, <4>1, DoesGo
    <3>4. PICK v, w, o : v = View /\ w = View' /\ o = op
      OBVIOUS
    <3>5. v \in Rising(n) /\ o \in PinOps /\ o.kind \in {"packet", "raw"} /\ o.tms = 1 /\ w \in Views /\ Goes(v, o, w)
      BY <1>1, <2>3, <2>6, <3>1, <3>3, <3>4, ViewType
    <3>6. w \in Rising(m)
      BY <3>2, <3>5, RiseOnce
    <3>. QED BY <3>2, <3>4, <3>6
  <2>13. k' # 0
    BY <1>1
  <2>. QED BY <1>1, <1>3, <1>5, <2>8, <2>10, <2>11, <2>12, <2>13 DEF FourInv
<1>. QED BY <1>4, <1>5

LEMMA StepTwo ==
  ASSUME StepInv, DataInv, TwoInv, Step
  PROVE  TwoInv'
<1>. DEFINE op == list[k + 1]
<1>1. /\ call \in Calls /\ phase \in Phases /\ k \in Nat /\ k' = k + 1 /\ k + 1 \in 1 .. Len(list)
      /\ list = Lists[setup][call][phase] /\ op \in PinOps
      /\ setup' = setup /\ call' = call /\ phase' = phase
  BY StepOp
<1>2. BaseType' /\ Goes(View, op, View')
  <2>1. Does(op) /\ BaseType
    BY StepDoes DEF StepInv
  <2>. QED BY <1>1, <2>1, DoesGo
<1>3. View' \in Views /\ chip'.adapter = chip.adapter
  <2>1. View'.adapter = View.adapter
    BY <1>2 DEF Goes
  <2>. QED BY <1>2, <2>1, ViewType DEF View
<1>. SUFFICES ASSUME call = StartCall, jtag_mode = 2, chip.adapter PROVE TwoInv'
  BY <1>1, <1>3 DEF TwoInv, jtag_mode
<1>4. setup \in Setups /\ setup[2] = 2 /\ PartsOK(temp)
  BY DEF StepInv, BaseType, jtag_mode, DataInv
<1>5. phase = "launch"
  <2>1. ASSUME phase # "launch" PROVE FALSE
    <3>1. list = <<>>
      BY <1>1, <1>4, <2>1, StartLists DEF Phases
    <3>. QED BY <1>1, <3>1
  <2>. QED BY <2>1
<1>6. /\ k <= Len(Way(setup)) => OnWay(setup, k, View)
      /\ \A i \in 0 .. 51 : k = Len(Way(setup)) + i => AtHome(i)
  BY <1>5 DEF TwoInv
<1>7. PICK s \in Setups : s = setup /\ s[2] = 2
  BY <1>4
<1>8. PICK a \in Nat : /\ a = Len(Way(s)) /\ k + 1 <= a + 51
                       /\ \A j \in 1 .. a : list[j] = Way(s)[j]
  <2>1. list = Lists[s][StartCall]["launch"]
    BY <1>1, <1>5, <1>7
  <2>2. /\ Len(Way(s)) \in Nat /\ Len(list) = Len(Way(s)) + 51
        /\ \A j \in 1 .. Len(Way(s)) : list[j] = Way(s)[j]
    BY <1>7, <2>1, LaunchOps
  <2>3. k + 1 <= Len(list)
    BY <1>1, <2>2
  <2>. QED BY <2>2, <2>3
<1>9. CASE k < a
  <2>1. PICK v, w : v = View /\ w = View'
    OBVIOUS
  <2>2. OnWay(s, k, v) /\ w \in Views /\ Goes(v, Way(s)[k + 1], w)
    <3>1. list[k + 1] = Way(s)[k + 1]
      BY <1>1, <1>8, <1>9
    <3>2. k <= Len(Way(setup))
      BY <1>1, <1>7, <1>8, <1>9
    <3>. QED BY <1>2, <1>3, <1>6, <1>7, <2>1, <3>1, <3>2
  <2>3. OnWay(s, k + 1, w)
    BY <1>1, <1>7, <1>8, <1>9, <2>2, OnWayNext
  <2>4. ASSUME k + 1 = a PROVE AtHome(0)'
    <3>1. OnWay(s, Len(Way(s)), w)
      BY <1>8, <2>3, <2>4
    <3>. QED BY <2>1, <3>1, HomeBegins
  <2>5. ASSUME NEW i \in 0 .. 51, k + 1 = a + i PROVE AtHome(i)'
    <3>1. PICK n \in Nat : n = k /\ n < a /\ n + 1 = a + i
      BY <1>1, <1>9, <2>5
    <3>2. i = 0 /\ n + 1 = a
      BY <3>1
    <3>. QED BY <2>4, <3>1, <3>2
  <2>. QED BY <1>1, <1>3, <1>5, <1>7, <1>8, <2>1, <2>3, <2>5 DEF TwoInv
<1>10. CASE ~(k < a)
  <2>1. PICK i \in 0 .. 50 : k = a + i
    <3>1. PICK n \in Nat : n = k /\ n + 1 <= a + 51 /\ ~(n < a)
      BY <1>1, <1>8, <1>10
    <3>2. n - a \in 0 .. 50 /\ n = a + (n - a)
      BY <3>1
    <3>. QED BY <3>1, <3>2
  <2>2. AtHome(i)
    <3>1. i \in 0 .. 51 /\ k = Len(Way(setup)) + i
      BY <1>7, <1>8, <2>1
    <3>. QED BY <1>6, <3>1
  <2>3. AtHome(i + 1)'
    <3>1. k = Len(Way(setup)) + i
      BY <1>7, <1>8, <2>1
    <3>. QED BY <1>4, <1>5, <2>2, <3>1, StepHome
  <2>4. ASSUME NEW j \in 0 .. 51, k + 1 = a + j PROVE AtHome(j)'
    <3>1. j = i + 1
      BY <1>8, <2>1, <2>4
    <3>. QED BY <2>3, <3>1
  <2>5. ~(k + 1 <= a)
    BY <1>1, <1>8, <1>10
  <2>. QED BY <1>1, <1>5, <1>7, <1>8, <2>4, <2>5 DEF TwoInv
<1>. QED BY <1>9, <1>10

\* A chip found at the start-up has captured nothing, and its DMI register
\* holds zeros.
LEMMA FoundEmpty ==
  ASSUME NEW c, NEW s, NEW code \in {IdcodeCode, DmiCode}, NEW r, NEW a,
         c = FoundWithout(s, code, r) \/ c = Found(s, code, r, a)
  PROVE  c.cap = <<0>> /\ Captured(c) \in {<<0>>, Reset.answer}
<1>1. /\ c.cap = Reset.cap /\ c.reading = Reset.reading /\ c.answer = Reset.answer /\ c.ir = code
  <2>1. CASE c = FoundWithout(s, code, r)
    <3>1. PICK b : b = FALSE
      OBVIOUS
    <3>2. c = [Reset EXCEPT !.adapter = b, !.tap = s, !.ir = code, !.sr = r]
      BY <2>1, <3>1 DEF FoundWithout
    <3>. QED BY <3>2 DEF Reset
  <2>2. CASE c = Found(s, code, r, a)
    BY <2>2 DEF Found, Reset
  <2>. QED BY <2>1, <2>2
<1>2. c.cap = <<0>> /\ ~c.reading
  BY <1>1 DEF Reset
<1>3. code # DtmcsCode
  <2>1. IdcodeCode # DtmcsCode
    <3>1. IdcodeCode[5] = 0 /\ DtmcsCode[5] = 1
      BY ScanAssumption DEF IdcodeCode
    <3>. QED BY <3>1
  <2>. QED BY <2>1, ScanAssumption
<1>. QED BY <1>1, <1>2, <1>3 DEF Captured

LEMMA StartAnswer ==
  ASSUME StepInv, FourInv, Start
  PROVE  AnswerInv'
<1>1. /\ setup \in Setups /\ setup' = setup /\ call' = StartCall /\ phase' = "launch" /\ k' = 0 /\ tdo' = Zeros
      /\ cjtag_mode' \in {FALSE, cjtag_mode}
  BY DEF StepInv, BaseType, Start
<1>2. View' \in Starting(setup)
  BY StartView
<1>3. chip'.cap = <<0>> /\ Captured(chip') \in {<<0>>, Reset.answer}
  <2>1. CASE ~chip.adapter
    <3>1. chip' \in AnywhereWithout
      BY <2>1 DEF Start
    <3>2. PICK s \in TapStates, code \in {IdcodeCode, DmiCode}, r \in Remains : chip' = FoundWithout(s, code, r)
      BY <3>1 DEF AnywhereWithout
    <3>. QED BY <3>2, FoundEmpty
  <2>2. CASE chip.adapter
    <3>1. PICK formats : chip' \in Anywhere(formats)
      BY <2>2 DEF Start
    <3>2. PICK s \in TapStates, code \in {IdcodeCode, DmiCode}, r \in Remains, a \in Midway(formats) :
            chip' = Found(s, code, r, a)
      BY <3>1 DEF Anywhere
    <3>. QED BY <3>2, FoundEmpty
  <2>. QED BY <2>1, <2>2
<1>4. FourInv'
  <2>. SUFFICES ASSUME setup = <<"C", 4>> PROVE FourInv'
    BY <1>1 DEF FourInv
  <2>1. cjtag_mode' = FALSE
    BY <1>1 DEF FourInv
  <2>2. Nothing'
    BY <1>1, <1>3 DEF Nothing
  <2>3. View' \in Rising(5 - k')
    <3>1. setup # <<"C", 2>> /\ 5 - k' = 5
      BY <1>1
    <3>. QED BY <1>2, <3>1 DEF Starting
  <2>4. k' = 0 /\ ~(k' > 0)
    BY <1>1
  <2>5. chip'.cap = <<0>> /\ Captured(chip)' \in {<<0>>, Reset.answer}
    BY <1>3 DEF Captured
  <2>. QED BY <1>1, <2>1, <2>2, <2>3, <2>4, <2>5 DEF FourInv
<1>5. TwoInv'
  <2>. SUFFICES ASSUME setup[2] = 2 PROVE TwoInv'
    BY <1>1 DEF TwoInv, jtag_mode
  <2>1. PICK s \in Setups : s = setup /\ s[2] = 2
    BY <1>1
  <2>2. PICK w : w = View'
    OBVIOUS
  <2>3. OnWay(s, 0, w)
    BY <1>2, <2>1, <2>2, OnWayEntry
  <2>4. ASSUME NEW i \in 0 .. 51, 0 = Len(Way(s)) + i PROVE AtHome(i)'
    <3>1. PICK n \in Nat : n = Len(Way(s))
      BY <2>1, LaunchOps
    <3>2. i = 0 /\ n = 0
      BY <2>4, <3>1
    <3>3. OnWay(s, Len(Way(s)), View')
      BY <2>2, <2>3, <3>1, <3>2
    <3>. QED BY <3>2, <3>3, HomeBegins
  <2>. QED BY <1>1, <2>1, <2>2, <2>3, <2>4 DEF TwoInv
<1>. QED BY <1>4, <1>5 DEF AnswerInv

\* The start-up's list is done: rdback0 has been read.
LEMMA TakenAnswer ==
  ASSUME StepInv, AnswerInv, call # NoCall, k = Len(list), phase' \in {"fetch", "leave"},
         UNCHANGED <<setup, cjtag_mode, chip, call, tdo>>
  PROVE  AnswerInv'
<1>1. setup \in Setups /\ phase' # "launch"
  BY DEF StepInv, BaseType
<1>2. FourInv'
  BY <1>1 DEF AnswerInv, FourInv, Nothing
<1>3. TwoInv'
  <2>. SUFFICES ASSUME call = StartCall, setup[2] = 2, chip.adapter PROVE Got(32)
    BY <1>1 DEF TwoInv, jtag_mode, Got
  <2>1. TwoInv /\ jtag_mode = 2
    BY DEF AnswerInv, jtag_mode
  <2>2. CASE phase # "launch"
    BY <2>1, <2>2 DEF TwoInv
  <2>3. CASE phase = "launch"
    <3>1. PICK s \in Setups : s = setup /\ s[2] = 2
      BY <1>1
    <3>2. list = Lists[s][StartCall]["launch"]
      BY <2>3, <3>1 DEF list
    <3>3. Len(list) = Len(Way(s)) + 51
      BY <3>1, <3>2, LaunchOps
    <3>4. PICK i \in 0 .. 51 : i = 51 /\ i >= 33
      OBVIOUS
    <3>5. k = Len(Way(setup)) + i
      BY <3>1, <3>3, <3>4
    <3>6. AtHome(i)
      BY <2>1, <2>3, <3>5 DEF TwoInv
    <3>. QED BY <3>4, <3>6 DEF AtHome
  <2>. QED BY <2>2, <2>3
<1>. QED BY <1>2, <1>3 DEF AnswerInv

LEMMA NextAnswer ==
  ASSUME StepInv, DataInv, AnswerInv, [Next]_vars
  PROVE  AnswerInv'
<1>1. CASE Start
  BY <1>1, StartAnswer DEF AnswerInv
<1>2. ASSUME NEW c \in Calls \ {StartCall}, Call(c)
      PROVE  AnswerInv'
  <2>1. call' = c /\ c # StartCall /\ UNCHANGED <<setup, cjtag_mode>>
    BY <1>2 DEF Call
  <2>. QED BY <2>1 DEF AnswerInv, FourInv, TwoInv
<1>3. CASE Step
  BY <1>3, StepFour, StepTwo DEF AnswerInv
<1>4. CASE Launched
  <2>1. /\ call # NoCall /\ k = Len(list) /\ phase' \in {"fetch", "leave"}
        /\ UNCHANGED <<setup, cjtag_mode, chip, call, tdo>>
    BY <1>4 DEF Launched
  <2>. QED BY <2>1, TakenAnswer
<1>5. CASE Fetched
  <2>1. /\ call # NoCall /\ k = Len(list) /\ phase' \in {"fetch", "leave"}
        /\ UNCHANGED <<setup, cjtag_mode, chip, call, tdo>>
    BY <1>5 DEF Fetched
  <2>. QED BY <2>1, TakenAnswer
<1>6. CASE Return
  <2>1. call' = NoCall /\ NoCall # StartCall /\ UNCHANGED <<setup, cjtag_mode>>
    BY <1>6 DEF Return, NoCall, StartCall
  <2>. QED BY <2>1 DEF AnswerInv, FourInv, TwoInv
<1>7. CASE UNCHANGED vars
  <2>1. UNCHANGED <<setup, cjtag_mode, tck, chip, monitor, call, phase, k, at, temp, tdo>>
    BY <1>7 DEF vars
  <2>2. View' = View /\ \A n : Got(n)' = Got(n)
    BY <2>1 DEF View, AdapterOf, program, Got
  <2>3. \A i : AtHome(i)' = AtHome(i)
    BY <2>1, <2>2 DEF AtHome, AdapterOf
  <2>4. FourInv' = FourInv
    BY <2>1, <2>2 DEF FourInv, Nothing, Captured
  <2>5. TwoInv' = TwoInv
    BY <2>1, <2>2, <2>3 DEF TwoInv, jtag_mode
  <2>. QED BY <2>4, <2>5 DEF AnswerInv
<1>. QED BY <1>1, <1>2, <1>3, <1>4, <1>5, <1>6, <1>7 DEF Next

LEMMA InvAnswer == Spec => [](StepInv /\ MuteInv /\ DataInv /\ AnswerInv)
<1>1. Init => AnswerInv
  <2>. SUFFICES ASSUME Init PROVE AnswerInv
    OBVIOUS
  <2>1. call # StartCall /\ cjtag_mode = FALSE
    BY DEF Init, NoCall, StartCall
  <2>. QED BY <2>1 DEF AnswerInv, FourInv, TwoInv
<1>2. StepInv /\ DataInv /\ AnswerInv /\ [Next]_vars => AnswerInv'
  BY NextAnswer
<1>. QED BY <1>1, <1>2, InvData, PTL DEF Spec

\* Read as a word, tdo_reg is the capture and zeros behind it.
LEMMA GotWord ==
  ASSUME PartsOK(tdo), NEW n \in Nat, n \in {1, 32, 41}, Got(n)
  PROVE  Word(tdo) = chip.cap \o Times(DmiWidth - Len(chip.cap), 0)
<1>1. PICK p, c : p = tdo /\ c = chip.cap
  OBVIOUS
<1>2. PartsOK(p) /\ c \in [1 .. n -> Bit] /\ \A i \in 1 .. 41 : TdiBit(p, i) = IF i <= n THEN c[i] ELSE 0
  BY <1>1 DEF Got
<1>3. c \in Seq(Bit) /\ Len(c) = n
  BY <1>2, OfLength
<1>4. PICK m \in Nat : m = 41 - n
  <2>1. 41 - n \in Nat
    OBVIOUS
  <2>. QED BY <2>1
<1>. DEFINE z == Times(m, 0)  x == c \o z
<1>5. z \in Seq(Bit) /\ Len(z) = m /\ \A j \in 1 .. m : z[j] = 0
  <2>1. PICK b \in Bit : b = 0
    BY DEF Bit
  <2>2. Times(m, b) \in Seq(Bit) /\ Len(Times(m, b)) = m /\ \A j \in 1 .. m : Times(m, b)[j] = b
    BY TimesOf
  <2>. QED BY <2>1, <2>2
<1>. HIDE DEF z
<1>6. x \in Seq(Bit) /\ Len(x) = Len(c) + Len(z)
  BY <1>3, <1>5, ConcatProperties
<1>7. \A i \in 1 .. Len(c) + Len(z) : x[i] = IF i <= Len(c) THEN c[i] ELSE z[i - Len(c)]
  BY <1>3, <1>5, ConcatProperties
<1>. HIDE DEF x
<1>8. Len(c) + Len(z) = 41
  BY <1>3, <1>4, <1>5
<1>9. x \in [1 .. 41 -> Bit]
  BY <1>6, <1>8, AsFunction
<1>10. Word(p) \in [1 .. 41 -> Bit] /\ \A j \in 1 .. 41 : Word(p)[j] = TdiBit(p, j)
  BY <1>2, WordBits
<1>11. ASSUME NEW i \in 1 .. 41 PROVE Word(p)[i] = x[i]
  <2>1. x[i] = IF i <= n THEN c[i] ELSE z[i - n]
    BY <1>3, <1>7, <1>8
  <2>2. Word(p)[i] = IF i <= n THEN c[i] ELSE 0
    BY <1>2, <1>10
  <2>3. ~(i <= n) => z[i - n] = 0
    <3>1. ~(i <= n) => i - n \in 1 .. m
      BY <1>4
    <3>. QED BY <1>5, <3>1
  <2>. QED BY <2>1, <2>2, <2>3
<1>12. Word(p) = x
  <2>. HIDE DEF Word
  <2>. QED BY <1>9, <1>10, <1>11
<1>13. DmiWidth - Len(chip.cap) = m
  BY <1>1, <1>3, <1>4, ScanAssumption
<1>. QED BY <1>1, <1>12, <1>13 DEF x, z

LEMMA NothingGot ==
  ASSUME Nothing
  PROVE  \E n \in {1, 41} : Got(n)
<1>1. \A i \in 1 .. 41 : TdiBit(Zeros, i) = 0
  BY DEF TdiBit, Zeros, Times
<1>2. CASE chip.cap = <<0>>
  <2>1. chip.cap \in [1 .. 1 -> Bit] /\ \A i \in 1 .. 41 : i <= 1 => chip.cap[i] = 0
    BY <1>2 DEF Bit
  <2>2. Got(1)
    BY <1>1, <2>1 DEF Got, Nothing
  <2>. QED BY <2>2
<1>3. CASE chip.cap = Reset.answer
  <2>1. Reset.answer = [j \in 1 .. 41 |-> 0]
    BY ScanAssumption DEF Reset
  <2>2. chip.cap \in [1 .. 41 -> Bit] /\ \A i \in 1 .. 41 : chip.cap[i] = 0
    BY <1>3, <2>1 DEF Bit
  <2>3. Got(41)
    BY <1>1, <2>2 DEF Got, Nothing
  <2>. QED BY <2>3
<1>. QED BY <1>2, <1>3 DEF Nothing

\* What a call finds in tdo_reg is what the chip captured for its last scan,
\* bit for bit, with zeros behind it: the answer of the Debug Module, DTMCS,
\* rdback0, or the nothing a start-up with four wires reads.
THEOREM AnswerArrivesHolds == Spec => []AnswerArrives
<1>1. ASSUME StepInv, DataInv, AnswerInv PROVE AnswerArrives
  <2>. SUFFICES ASSUME call # NoCall, phase = "leave", Understood
                PROVE  Word(tdo) = chip.cap \o Times(DmiWidth - Len(chip.cap), 0)
    BY DEF AnswerArrives
  <2>1. setup \in Setups /\ call \in Calls /\ cjtag_mode \in BOOLEAN /\ PartsOK(tdo)
    BY <1>1 DEF StepInv, BaseType, DataInv
  <2>. SUFFICES \E n \in Nat : n \in {1, 32, 41} /\ Got(n)
    BY <2>1, GotWord
  <2>2. CASE call # StartCall
    <3>1. Accessing /\ Size \in {32, 41}
      BY <2>1, <2>2, ScanAssumption DEF Accessing, Size
    <3>2. InLeave
      BY <1>1, <3>1 DEF DataInv, AccessInv
    <3>. QED BY <3>1, <3>2 DEF InLeave
  <2>3. CASE call = StartCall /\ setup = <<"C", 4>>
    <3>1. Nothing
      BY <1>1, <2>3 DEF AnswerInv, FourInv
    <3>. QED BY <3>1, NothingGot
  <2>4. CASE call = StartCall /\ setup # <<"C", 4>>
    <3>1. jtag_mode = 2 /\ TwoWire(setup) = TRUE
      BY <2>1, <2>4, SetupForms DEF jtag_mode
    <3>2. chip.adapter
      <4>1. On(setup, call, phase, k, View) /\ Len(Lists[setup][call][phase]) = 0
        <5>1. Lists[setup][call][phase] = <<>>
          BY <2>1, <2>4, StartLists
        <5>. QED BY <1>1, <5>1 DEF StepInv
      <4>2. k = Len(Lists[setup][call][phase])
        BY <4>1 DEF On
      <4>3. View \in Idle(setup)
        BY <4>1, <4>2, OnEnd DEF End
      <4>4. cjtag_mode = TRUE
        BY <3>1, <4>3, ViewIs DEF Idle, At, Here
      <4>. QED BY <4>4 DEF Understood
    <3>3. Got(32)
      BY <1>1, <2>4, <3>1, <3>2 DEF AnswerInv, TwoInv
    <3>. QED BY <3>3
  <2>. QED BY <2>2, <2>3, <2>4
<1>. QED BY <1>1, InvAnswer, PTL

===============================================================================
