------------------------------ MODULE ScanProofs ------------------------------
(***************************************************************************)
(* Proofs that the driver and the chip of Scan are in step, for every set  *)
(* of registers, words and answers, both programs, four wires and two, and *)
(* any chip that a start-up may find.                                      *)
(*                                                                         *)
(* A call is a list of up to a hundred pin operations, and what the chip   *)
(* does at each of them depends on the TAP, the slot of the packet, the    *)
(* level of the adapter and the command half given to it. All of that is   *)
(* in a View; Goes says what an operation does to a view. A list leads     *)
(* from a set of views to another, Leads(l, A, B), when there is a Course: *)
(* a set of views for each place of the list, A the first and B the last,  *)
(* such that every operation takes each view of one set into the next and  *)
(* into the TAP state the operation is named for. Lists that meet are      *)
(* joined (LeadsJoin), so that each function of the driver needs one       *)
(* lemma, and each call is put together from them as the code does         *)
(* (ListsLead).                                                            *)
(*                                                                         *)
(* StepInv is the inductive invariant: the view after k operations is one  *)
(* that some course of the list in progress has at k.                      *)
(***************************************************************************)
EXTENDS Scan, SequenceTheorems, TLAPS

Levels == {"data", "control"}
Ends == Formats \cup {"none"}

Chips ==
  {c \in [adapter : BOOLEAN, tap : TapStates,
          ir : [1 .. 5 -> Bit], isr : [1 .. 5 -> Bit],
          sr : Seq(Bit) \ {<<>>}, cap : Seq(Bit) \ {<<>>}, answer : [1 .. DmiWidth -> Bit],
          fmt : Formats, slot : 0 .. 2, ntdi : Bit, ptms : Bit,
          zbs : 0 .. 2, level : Levels, shifts : Nat, part : Nat,
          reading : BOOLEAN, ends : Ends, check : 0 .. 4] :
     c.check > 0 => c.ends # "none"}

\* What the adapter makes of the scans.
Adapters == [zbs : 0 .. 2, level : Levels, part : Nat, reading : BOOLEAN, ends : Ends, check : 0 .. 4]
AdapterOf(c) == [zbs |-> c.zbs, level |-> c.level, part |-> c.part,
                 reading |-> c.reading, ends |-> c.ends, check |-> c.check]
Plain == [zbs |-> 0, level |-> "data", part |-> NoPart, reading |-> FALSE,
          ends |-> "none", check |-> 0]

\* A clock brought the TAP to this state, n clocks in Shift-DR so far.
Noted(ad, tap, n, fmt) ==
  CASE tap = "UPDATE_DR" /\ ad.level = "data" /\ n = 0 ->
         [ad EXCEPT !.zbs = IF @ < 2 THEN @ + 1 ELSE @]
    [] tap = "UPDATE_DR" /\ ad.level = "data" /\ n # 0 ->
         [ad EXCEPT !.zbs = 0, !.part = NoPart,
                    !.level = IF ad.zbs = 2 THEN "control" ELSE "data"]
    [] tap = "UPDATE_DR" /\ ad.level # "data" /\ ad.reading ->
         [ad EXCEPT !.reading = FALSE, !.ends = fmt]
    [] tap = "UPDATE_DR" /\ ad.level # "data" /\ ~ad.reading /\ ad.part = NoPart ->
         [ad EXCEPT !.part = n]
    [] tap = "UPDATE_DR" /\ ad.level # "data" /\ ~ad.reading /\ ad.part # NoPart ->
         [ad EXCEPT !.part = NoPart, !.reading = (ad.part = 9 /\ n = 0),
                    !.ends = IF ad.part = 3 /\ n = 9 THEN "oscan1" ELSE @]
    [] tap \in {"SELECT_IR_SCAN", "TEST_LOGIC_RESET"} ->
         [ad EXCEPT !.zbs = 0, !.level = "data", !.part = NoPart,
                    !.reading = FALSE, !.ends = "none"]
    [] tap = "RUN_TEST_IDLE" /\ ad.ends # "none" -> [ad EXCEPT !.check = 4]
    [] OTHER -> ad

ShiftsAfter(tap, n) ==
  CASE tap = "CAPTURE_DR" -> 0
    [] tap = "SHIFT_DR" /\ n < MaxShifts -> n + 1
    [] OTHER -> n

-------------------------------------------------------------------------------
(* The chip                                                                *)

LEMMA States ==
  /\ TapStates = {"TEST_LOGIC_RESET", "RUN_TEST_IDLE", "SELECT_DR_SCAN", "CAPTURE_DR", "SHIFT_DR",
                  "EXIT1_DR", "PAUSE_DR", "EXIT2_DR", "UPDATE_DR", "SELECT_IR_SCAN", "CAPTURE_IR",
                  "SHIFT_IR", "EXIT1_IR", "PAUSE_IR", "EXIT2_IR", "UPDATE_IR"}
  /\ \A s \in TapStates, b \in Bit : TapNext(s, b) \in TapStates
<1>1. TapStates = {"TEST_LOGIC_RESET", "RUN_TEST_IDLE", "SELECT_DR_SCAN", "CAPTURE_DR", "SHIFT_DR",
                  "EXIT1_DR", "PAUSE_DR", "EXIT2_DR", "UPDATE_DR", "SELECT_IR_SCAN", "CAPTURE_IR",
                  "SHIFT_IR", "EXIT1_IR", "PAUSE_IR", "EXIT2_IR", "UPDATE_IR"}
  BY DEF TapStates, OnLow
<1>2. ASSUME NEW s \in TapStates PROVE OnLow[s] \in TapStates
  BY <1>1 DEF OnLow
<1>3. ASSUME NEW s \in TapStates PROVE OnHigh[s] \in TapStates
  BY <1>1 DEF OnHigh
<1>. QED BY <1>1, <1>2, <1>3 DEF TapNext

\* A function on 1 .. n is a sequence.
LEMMA OfLength ==
  ASSUME NEW S, NEW n \in Nat, NEW r \in [1 .. n -> S]
  PROVE  r \in Seq(S) /\ Len(r) = n /\ (n > 0 => r # <<>>)
<1>1. r \in Seq(S)
  BY SeqDef
<1>2. Len(r) = n
  BY <1>1
<1>3. ASSUME n > 0, r = <<>> PROVE FALSE
  <2>1. Len(<<>>) = 0
    BY EmptySeq
  <2>. QED BY <2>1, <1>2, <1>3
<1>. QED BY <1>1, <1>2, <1>3

LEMMA Codes == Bit = {0, 1} /\ IdcodeCode \in [1 .. 5 -> Bit]
BY DEF Bit, IdcodeCode

\* A register is shifted.
LEMMA Shifted ==
  ASSUME NEW S, NEW r \in Seq(S), r # <<>>, NEW b \in S
  PROVE  /\ Append(Tail(r), b) \in Seq(S) /\ Append(Tail(r), b) # <<>>
         /\ Len(Append(Tail(r), b)) = Len(r)
         /\ \A j \in 1 .. Len(r) - 1 : Append(Tail(r), b)[j] = r[j + 1]
         /\ Append(Tail(r), b)[Len(r)] = b
<1>. DEFINE t == Tail(r)
<1>1. /\ t \in Seq(S) /\ Len(t) = Len(r) - 1
      /\ \A j \in 1 .. Len(t) : t[j] = r[j + 1]
  BY HeadTailProperties
<1>2. Len(r) \in Nat \ {0}
  BY EmptySeq
<1>. HIDE DEF t
<1>3. /\ Append(t, b) \in Seq(S) /\ Append(t, b) # <<>> /\ Len(Append(t, b)) = Len(t) + 1
      /\ \A j \in 1 .. Len(t) : Append(t, b)[j] = t[j]
      /\ Append(t, b)[Len(t) + 1] = b
  BY <1>1, AppendProperties
<1>. DEFINE u == Append(t, b)
<1>. HIDE DEF u
<1>4. u \in Seq(S) /\ u # <<>> /\ Len(u) = Len(r) /\ u[Len(r)] = b
  BY <1>1, <1>2, <1>3 DEF u
<1>5. \A j \in 1 .. Len(r) - 1 : u[j] = r[j + 1]
  BY <1>1, <1>2, <1>3 DEF u
<1>. QED BY <1>4, <1>5 DEF u, t

LEMMA ShiftedIr ==
  ASSUME NEW r \in [1 .. 5 -> Bit], NEW b \in Bit
  PROVE  /\ Append(Tail(r), b) \in [1 .. 5 -> Bit]
         /\ \A j \in 1 .. 4 : Append(Tail(r), b)[j] = r[j + 1]
         /\ Append(Tail(r), b)[5] = b
<1>1. r \in Seq(Bit) /\ Len(r) = 5 /\ r # <<>>
  <2>1. PICK n \in Nat : n = 5
    OBVIOUS
  <2>2. r \in [1 .. n -> Bit]
    BY <2>1
  <2>3. r \in Seq(Bit) /\ Len(r) = n /\ (n > 0 => r # <<>>)
    BY <2>2, OfLength
  <2>. QED BY <2>1, <2>3
<1>. DEFINE u == Append(Tail(r), b)
<1>2. u \in Seq(Bit) /\ Len(u) = Len(r) /\ (\A j \in 1 .. Len(r) - 1 : u[j] = r[j + 1]) /\ u[Len(r)] = b
  <2>1. r \in Seq(Bit) /\ r # <<>> /\ b \in Bit
    BY <1>1
  <2>. QED BY <2>1, Shifted
<1>. HIDE DEF u
<1>3. u \in [1 .. 5 -> Bit]
  BY <1>1, <1>2, LenProperties
<1>. QED BY <1>1, <1>2, <1>3 DEF u

LEMMA ShiftedDr ==
  ASSUME NEW r \in Seq(Bit) \ {<<>>}, NEW b \in Bit
  PROVE  Append(Tail(r), b) \in Seq(Bit) \ {<<>>} /\ Len(Append(Tail(r), b)) = Len(r)
BY Shifted

LEMMA CapturedType ==
  ASSUME NEW c \in Chips
  PROVE  Captured(c) \in Seq(Bit) \ {<<>>}
<1>1. DmiWidth = 41 /\ ReadWidth = 32
  BY ScanAssumption
<1>2. Rdback \in [1 .. ReadWidth -> Bit] /\ Dtmcs \in [1 .. ReadWidth -> Bit]
  BY TapAssumption
<1>3. c.answer \in [1 .. DmiWidth -> Bit]
  BY DEF Chips
<1>4. ASSUME NEW r \in [1 .. 41 -> Bit] PROVE r \in Seq(Bit) \ {<<>>}
  <2>1. PICK n \in Nat : n = 41
    OBVIOUS
  <2>2. r \in [1 .. n -> Bit]
    BY <2>1
  <2>3. r \in Seq(Bit) /\ Len(r) = n /\ (n > 0 => r # <<>>)
    BY <2>2, OfLength
  <2>. QED BY <2>1, <2>3
<1>5. ASSUME NEW r \in [1 .. 32 -> Bit] PROVE r \in Seq(Bit) \ {<<>>}
  <2>1. PICK n \in Nat : n = 32
    OBVIOUS
  <2>2. r \in [1 .. n -> Bit]
    BY <2>1
  <2>3. r \in Seq(Bit) /\ Len(r) = n /\ (n > 0 => r # <<>>)
    BY <2>2, OfLength
  <2>. QED BY <2>1, <2>3
<1>6. <<0>> \in Seq(Bit) \ {<<>>}
  BY DEF Bit
<1>. QED BY <1>1, <1>2, <1>3, <1>4, <1>5, <1>6 DEF Captured

\* A clock of the TAP.
LEMMA TapClocked ==
  ASSUME NEW c \in Chips, NEW tms \in Bit, NEW tdi \in Bit
  PROVE  LET d == TapClock(c, tms, tdi) IN
         /\ d \in Chips
         /\ d.adapter = c.adapter /\ d.fmt = c.fmt /\ d.slot = c.slot /\ d.answer = c.answer
         /\ d.tap = TapNext(c.tap, tms) /\ d.shifts = ShiftsAfter(c.tap, c.shifts)
         /\ AdapterOf(d) = AdapterOf(c)
         /\ d.isr = CASE c.tap = "CAPTURE_IR" -> IdcodeCode
                      [] c.tap = "SHIFT_IR"   -> Append(Tail(c.isr), tdi)
                      [] OTHER                -> c.isr
         /\ d.ir = CASE c.tap = "UPDATE_IR" -> c.isr
                     [] c.tap = "TEST_LOGIC_RESET" -> IdcodeCode
                     [] OTHER -> c.ir
         /\ d.sr = IF c.tap = "SHIFT_DR" THEN Append(Tail(c.sr), tdi)
                   ELSE IF c.tap = "CAPTURE_DR" THEN Captured(c) ELSE c.sr
         /\ d.cap = IF c.tap = "CAPTURE_DR" THEN Captured(c) ELSE c.cap
<1>. DEFINE d == TapClock(c, tms, tdi)
<1>1. /\ c.tap \in TapStates /\ c.sr \in Seq(Bit) \ {<<>>} /\ c.cap \in Seq(Bit) \ {<<>>}
      /\ c.isr \in [1 .. 5 -> Bit] /\ c.ir \in [1 .. 5 -> Bit] /\ c.shifts \in Nat
      /\ c \in [adapter : BOOLEAN, tap : TapStates,
          ir : [1 .. 5 -> Bit], isr : [1 .. 5 -> Bit],
          sr : Seq(Bit) \ {<<>>}, cap : Seq(Bit) \ {<<>>}, answer : [1 .. DmiWidth -> Bit],
          fmt : Formats, slot : 0 .. 2, ntdi : Bit, ptms : Bit,
          zbs : 0 .. 2, level : Levels, shifts : Nat, part : Nat,
          reading : BOOLEAN, ends : Ends, check : 0 .. 4]
      /\ c.check > 0 => c.ends # "none"
  BY DEF Chips
<1>. DEFINE isr == CASE c.tap = "CAPTURE_IR" -> IdcodeCode
                      [] c.tap = "SHIFT_IR"   -> Append(Tail(c.isr), tdi)
                      [] OTHER                -> c.isr
            ir == CASE c.tap = "UPDATE_IR" -> c.isr
                     [] c.tap = "TEST_LOGIC_RESET" -> IdcodeCode
                     [] OTHER -> c.ir
            sr == IF c.tap = "SHIFT_DR" THEN Append(Tail(c.sr), tdi)
                   ELSE IF c.tap = "CAPTURE_DR" THEN Captured(c) ELSE c.sr
            cap == IF c.tap = "CAPTURE_DR" THEN Captured(c) ELSE c.cap
            tap == TapNext(c.tap, tms)
            shifts == ShiftsAfter(c.tap, c.shifts)
<1>2. /\ isr \in [1 .. 5 -> Bit] /\ ir \in [1 .. 5 -> Bit]
      /\ sr \in Seq(Bit) \ {<<>>} /\ cap \in Seq(Bit) \ {<<>>}
      /\ tap \in TapStates /\ shifts \in Nat
  <2>1. isr \in [1 .. 5 -> Bit] /\ ir \in [1 .. 5 -> Bit]
    BY <1>1, Codes, ShiftedIr
  <2>2. sr \in Seq(Bit) \ {<<>>} /\ cap \in Seq(Bit) \ {<<>>}
    BY <1>1, ShiftedDr, CapturedType
  <2>3. tap \in TapStates
    BY <1>1, States
  <2>4. shifts \in Nat
    BY <1>1 DEF ShiftsAfter
  <2>. QED BY <2>1, <2>2, <2>3, <2>4
<1>3. d = [c EXCEPT !.tap = tap, !.isr = isr, !.sr = sr, !.cap = cap, !.ir = ir, !.shifts = shifts]
  BY DEF TapClock, ShiftsAfter
<1>. HIDE DEF d, isr, ir, sr, cap, tap, shifts
<1>4. /\ d \in Chips /\ d.adapter = c.adapter /\ d.fmt = c.fmt /\ d.slot = c.slot
      /\ d.answer = c.answer /\ d.tap = tap /\ d.shifts = shifts /\ d.isr = isr
      /\ d.ir = ir /\ d.sr = sr /\ d.cap = cap
  BY <1>1, <1>2, <1>3 DEF Chips
<1>5. AdapterOf(d) = AdapterOf(c)
  BY <1>1, <1>3 DEF AdapterOf
<1>. QED BY <1>4, <1>5 DEF d, isr, ir, sr, cap, tap, shifts

\* d is c with an adapter in another state.
Refits(c, d, ad) ==
  /\ d \in Chips /\ AdapterOf(d) = ad
  /\ d.adapter = c.adapter /\ d.fmt = c.fmt /\ d.slot = c.slot /\ d.answer = c.answer
  /\ d.tap = c.tap /\ d.shifts = c.shifts
  /\ d.isr = c.isr /\ d.ir = c.ir /\ d.sr = c.sr /\ d.cap = c.cap

Refit(c, z, l, p, g, e, n) ==
  [c EXCEPT !.zbs = z, !.level = l, !.part = p, !.reading = g, !.ends = e, !.check = n]
Adapter(z, l, p, g, e, n) ==
  [zbs |-> z, level |-> l, part |-> p, reading |-> g, ends |-> e, check |-> n]

LEMMA Refitted ==
  ASSUME NEW c \in Chips, NEW z \in 0 .. 2, NEW l \in Levels, NEW p \in Nat, NEW g \in BOOLEAN,
         NEW e \in Ends, NEW n \in 0 .. 4, n > 0 => e # "none"
  PROVE  Refits(c, Refit(c, z, l, p, g, e, n), Adapter(z, l, p, g, e, n))
BY DEF Chips, AdapterOf, Refits, Refit, Adapter

\* What the adapter does after a clock.
LEMMA AdapterFollows ==
  ASSUME NEW c \in Chips, c.check = 0
  PROVE  Refits(c, Followed(c), Noted(AdapterOf(c), c.tap, c.shifts, c.fmt))
<1>. DEFINE note == Noted(AdapterOf(c), c.tap, c.shifts, c.fmt)
<1>1. /\ c.zbs \in 0 .. 2 /\ c.level \in Levels /\ c.part \in Nat /\ c.reading \in BOOLEAN
      /\ c.ends \in Ends /\ c.check = 0 /\ c.shifts \in Nat /\ c.fmt \in Formats
      /\ c.tap \in TapStates
  BY DEF Chips
<1>3. CASE c.tap = "UPDATE_DR" /\ c.level = "data" /\ c.shifts = 0
  <2>1. PICK z \in 0 .. 2 : z = IF c.zbs < 2 THEN c.zbs + 1 ELSE c.zbs
    BY <1>1
  <2>2. Followed(c) = Refit(c, z, c.level, c.part, c.reading, c.ends, c.check)
    BY <1>1, <1>3, <2>1 DEF Refit, Followed, DataScan, Chips
  <2>3. note = Adapter(z, c.level, c.part, c.reading, c.ends, c.check)
    BY <1>1, <1>3, <2>1 DEF Adapter, Noted, AdapterOf
  <2>4. c.check \in 0 .. 4 /\ ~(c.check > 0)
    BY <1>1
  <2>5. Refits(c, Refit(c, z, c.level, c.part, c.reading, c.ends, c.check), Adapter(z, c.level, c.part, c.reading, c.ends, c.check))
    BY <1>1, <2>4, Refitted
  <2>. QED BY <2>2, <2>3, <2>5
<1>4. CASE c.tap = "UPDATE_DR" /\ c.level = "data" /\ c.shifts # 0
  <2>1. PICK l \in Levels : l = IF c.zbs = 2 THEN "control" ELSE "data"
    BY DEF Levels
  <2>2. Followed(c) = Refit(c, 0, l, NoPart, c.reading, c.ends, c.check)
    BY <1>1, <1>4, <2>1 DEF Refit, Followed, DataScan, Chips
  <2>3. note = Adapter(0, l, NoPart, c.reading, c.ends, c.check)
    BY <1>1, <1>4, <2>1 DEF Adapter, Noted, AdapterOf
  <2>4. c.check \in 0 .. 4 /\ ~(c.check > 0) /\ 0 \in 0 .. 2 /\ NoPart \in Nat
    BY <1>1 DEF NoPart
  <2>5. Refits(c, Refit(c, 0, l, NoPart, c.reading, c.ends, c.check), Adapter(0, l, NoPart, c.reading, c.ends, c.check))
    BY <1>1, <2>4, Refitted
  <2>. QED BY <2>2, <2>3, <2>5
<1>5. CASE c.tap = "UPDATE_DR" /\ c.level # "data" /\ c.reading
  <2>1. Followed(c) = Refit(c, c.zbs, c.level, c.part, FALSE, c.fmt, c.check)
    BY <1>1, <1>5 DEF Refit, Followed, ControlScan, Chips
  <2>2. note = Adapter(c.zbs, c.level, c.part, FALSE, c.fmt, c.check)
    BY <1>1, <1>5 DEF Adapter, Noted, AdapterOf
  <2>3. c.check \in 0 .. 4 /\ ~(c.check > 0) /\ c.fmt \in Ends /\ FALSE \in BOOLEAN
    BY <1>1 DEF Ends
  <2>4. Refits(c, Refit(c, c.zbs, c.level, c.part, FALSE, c.fmt, c.check), Adapter(c.zbs, c.level, c.part, FALSE, c.fmt, c.check))
    BY <1>1, <2>3, Refitted
  <2>. QED BY <2>1, <2>2, <2>4
<1>6. CASE c.tap = "UPDATE_DR" /\ c.level # "data" /\ ~c.reading /\ c.part = NoPart
  <2>1. Followed(c) = Refit(c, c.zbs, c.level, c.shifts, c.reading, c.ends, c.check)
    BY <1>1, <1>6 DEF Refit, Followed, ControlScan, Chips
  <2>2. note = Adapter(c.zbs, c.level, c.shifts, c.reading, c.ends, c.check)
    BY <1>1, <1>6 DEF Adapter, Noted, AdapterOf
  <2>3. c.check \in 0 .. 4 /\ ~(c.check > 0)
    BY <1>1
  <2>4. Refits(c, Refit(c, c.zbs, c.level, c.shifts, c.reading, c.ends, c.check), Adapter(c.zbs, c.level, c.shifts, c.reading, c.ends, c.check))
    BY <1>1, <2>3, Refitted
  <2>. QED BY <2>1, <2>2, <2>4
<1>7. CASE c.tap = "UPDATE_DR" /\ c.level # "data" /\ ~c.reading /\ c.part # NoPart
  <2>1. PICK g \in BOOLEAN : g = (c.part = 9 /\ c.shifts = 0)
    OBVIOUS
  <2>2. PICK e \in Ends : e = IF c.part = 3 /\ c.shifts = 9 THEN "oscan1" ELSE c.ends
    BY <1>1 DEF Ends, Formats
  <2>3. Followed(c) = Refit(c, c.zbs, c.level, NoPart, g, e, c.check)
    BY <1>1, <1>7, <2>1, <2>2 DEF Refit, Followed, ControlScan, Chips
  <2>4. note = Adapter(c.zbs, c.level, NoPart, g, e, c.check)
    BY <1>1, <1>7, <2>1, <2>2 DEF Adapter, Noted, AdapterOf
  <2>5. c.check \in 0 .. 4 /\ ~(c.check > 0) /\ NoPart \in Nat
    BY <1>1 DEF NoPart
  <2>6. Refits(c, Refit(c, c.zbs, c.level, NoPart, g, e, c.check), Adapter(c.zbs, c.level, NoPart, g, e, c.check))
    BY <1>1, <2>5, Refitted
  <2>. QED BY <2>3, <2>4, <2>6
<1>8. CASE c.tap \in {"SELECT_IR_SCAN", "TEST_LOGIC_RESET"}
  <2>1. Followed(c) = Refit(c, 0, "data", NoPart, FALSE, "none", c.check)
    BY <1>1, <1>8 DEF Refit, Followed, Chips
  <2>2. note = Adapter(0, "data", NoPart, FALSE, "none", c.check)
    BY <1>1, <1>8 DEF Adapter, Noted, AdapterOf
  <2>3. /\ c.check \in 0 .. 4 /\ ~(c.check > 0) /\ NoPart \in Nat
        /\ 0 \in 0 .. 2 /\ "data" \in Levels /\ "none" \in Ends /\ FALSE \in BOOLEAN
    BY <1>1 DEF NoPart, Levels, Ends
  <2>4. Refits(c, Refit(c, 0, "data", NoPart, FALSE, "none", c.check), Adapter(0, "data", NoPart, FALSE, "none", c.check))
    BY <1>1, <2>3, Refitted
  <2>. QED BY <2>1, <2>2, <2>4
<1>9. CASE c.tap = "RUN_TEST_IDLE" /\ c.ends # "none"
  <2>1. Followed(c) = Refit(c, c.zbs, c.level, c.part, c.reading, c.ends, 4)
    BY <1>1, <1>9 DEF Refit, Followed, Chips
  <2>2. note = Adapter(c.zbs, c.level, c.part, c.reading, c.ends, 4)
    BY <1>1, <1>9 DEF Adapter, Noted, AdapterOf
  <2>3. 4 \in 0 .. 4
    OBVIOUS
  <2>4. Refits(c, Refit(c, c.zbs, c.level, c.part, c.reading, c.ends, 4), Adapter(c.zbs, c.level, c.part, c.reading, c.ends, 4))
    BY <1>1, <1>9, <2>3, Refitted
  <2>. QED BY <2>1, <2>2, <2>4
<1>10. CASE /\ c.tap \notin {"UPDATE_DR", "SELECT_IR_SCAN", "TEST_LOGIC_RESET"}
            /\ ~(c.tap = "RUN_TEST_IDLE" /\ c.ends # "none")
  <2>1. Followed(c) = c /\ note = AdapterOf(c)
    BY <1>1, <1>10 DEF Followed, Noted, AdapterOf
  <2>. QED BY <2>1 DEF Refits
<1>. QED BY <1>3, <1>4, <1>5, <1>6, <1>7, <1>8, <1>9, <1>10

\* d is c after one clock of its TAP.
Ticked(c, d, tms, tdi) ==
  /\ d \in Chips
  /\ d.adapter = c.adapter /\ d.fmt = c.fmt /\ d.slot = c.slot /\ d.answer = c.answer
  /\ d.tap = TapNext(c.tap, tms) /\ d.shifts = ShiftsAfter(c.tap, c.shifts)
  /\ AdapterOf(d) = IF c.adapter THEN Noted(AdapterOf(c), d.tap, d.shifts, c.fmt) ELSE AdapterOf(c)
  /\ d.isr = CASE c.tap = "CAPTURE_IR" -> IdcodeCode
               [] c.tap = "SHIFT_IR"   -> Append(Tail(c.isr), tdi)
               [] OTHER                -> c.isr
  /\ d.ir = CASE c.tap = "UPDATE_IR" -> c.isr
              [] c.tap = "TEST_LOGIC_RESET" -> IdcodeCode
              [] OTHER -> c.ir
  /\ d.sr = IF c.tap = "SHIFT_DR" THEN Append(Tail(c.sr), tdi)
            ELSE IF c.tap = "CAPTURE_DR" THEN Captured(c) ELSE c.sr
  /\ d.cap = IF c.tap = "CAPTURE_DR" THEN Captured(c) ELSE c.cap

LEMMA FollowedTicks ==
  ASSUME NEW c \in Chips, NEW tms \in Bit, NEW tdi \in Bit, c.adapter, c.check = 0
  PROVE  Ticked(c, Followed(TapClock(c, tms, tdi)), tms, tdi)
<1>. DEFINE e == TapClock(c, tms, tdi)
            d == Followed(e)
<1>1. /\ e \in Chips
      /\ e.adapter = c.adapter /\ e.fmt = c.fmt /\ e.slot = c.slot /\ e.answer = c.answer
      /\ e.tap = TapNext(c.tap, tms) /\ e.shifts = ShiftsAfter(c.tap, c.shifts)
      /\ AdapterOf(e) = AdapterOf(c)
      /\ e.isr = CASE c.tap = "CAPTURE_IR" -> IdcodeCode
                   [] c.tap = "SHIFT_IR"   -> Append(Tail(c.isr), tdi)
                   [] OTHER                -> c.isr
      /\ e.ir = CASE c.tap = "UPDATE_IR" -> c.isr
                  [] c.tap = "TEST_LOGIC_RESET" -> IdcodeCode
                  [] OTHER -> c.ir
      /\ e.sr = IF c.tap = "SHIFT_DR" THEN Append(Tail(c.sr), tdi)
                ELSE IF c.tap = "CAPTURE_DR" THEN Captured(c) ELSE c.sr
      /\ e.cap = IF c.tap = "CAPTURE_DR" THEN Captured(c) ELSE c.cap
  BY TapClocked
<1>. HIDE DEF e
<1>2. e.check = 0
  BY <1>1 DEF AdapterOf
<1>3. Refits(e, d, Noted(AdapterOf(e), e.tap, e.shifts, e.fmt))
  BY <1>1, <1>2, AdapterFollows
<1>. HIDE DEF d
<1>4. Ticked(c, d, tms, tdi)
  BY <1>1, <1>3 DEF Refits, Ticked
<1>. QED BY <1>4 DEF d, e

LEMMA TapTicks ==
  ASSUME NEW c \in Chips, NEW tms \in Bit, NEW tdi \in Bit, ~c.adapter
  PROVE  Ticked(c, TapClock(c, tms, tdi), tms, tdi)
BY TapClocked DEF Ticked

\* A chip without adapter knows one format.
Muted(c) == ~c.adapter => AdapterOf(c) = Plain /\ c.fmt = "four_wire" /\ c.slot = 0

\* A clock with four wires.
LEMMA RiseTicks ==
  ASSUME NEW c \in Chips, NEW tms \in Bit, NEW tdi \in Bit,
         c.adapter => c.check = 0 /\ c.fmt = "four_wire"
  PROVE  Ticked(c, Rise(c, tms, tdi), tms, tdi)
<1>1. CASE ~c.adapter
  <2>1. Rise(c, tms, tdi) = TapClock(c, tms, tdi)
    BY <1>1 DEF Rise
  <2>. QED BY <1>1, <2>1, TapTicks
<1>2. CASE c.adapter
  <2>1. Rise(c, tms, tdi) = Followed(TapClock(c, tms, tdi))
    BY <1>2 DEF Rise
  <2>. QED BY <1>2, <2>1, FollowedTicks
<1>3. c.adapter \in BOOLEAN
  BY DEF Chips
<1>. QED BY <1>1, <1>2, <1>3

\* A packet of three clocks, whatever the level of TDI and, at the last, of TMS.
LEMMA PacketTicks ==
  ASSUME NEW c \in Chips, NEW tms \in Bit, NEW tdi \in Bit, NEW third, NEW line,
         c.adapter, c.check = 0, c.fmt = "oscan1", c.slot = 0
  PROVE  /\ Ticked(c, Rise(Rise(Rise(c, 1 - tdi, line), tms, line), third, line), tms, tdi)
         /\ LET e == Rise(Rise(c, 1 - tdi, line), tms, line) IN
              e.fmt = "oscan1" /\ e.slot = 2 /\ e.tap = c.tap /\ e.sr = c.sr
         /\ Rise(c, 1 - tdi, line).tap = c.tap
<1>. DEFINE c1 == [c EXCEPT !.ntdi = 1 - tdi, !.slot = 1]
            c2 == [c EXCEPT !.ntdi = 1 - tdi, !.slot = 2, !.ptms = tms]
            c3 == [c EXCEPT !.ntdi = 1 - tdi, !.slot = 0, !.ptms = tms]
<1>1. 1 - tdi \in Bit /\ 1 - (1 - tdi) = tdi
  BY DEF Bit
<1>2. Rise(c, 1 - tdi, line) = c1
  BY DEF Rise
<1>3. Rise(c1, tms, line) = c2
  <2>1. c1.adapter /\ c1.check = 0 /\ c1.fmt = "oscan1" /\ c1.slot = 1
    BY DEF Chips
  <2>2. [c1 EXCEPT !.ptms = tms, !.slot = 2] = c2
    BY DEF Chips
  <2>. HIDE DEF c1, c2
  <2>3. Rise(c1, tms, line) = [c1 EXCEPT !.ptms = tms, !.slot = 2]
    BY <2>1 DEF Rise
  <2>. QED BY <2>2, <2>3
<1>4. /\ c3 \in Chips /\ c3.adapter /\ c3.check = 0 /\ AdapterOf(c3) = AdapterOf(c) /\ Captured(c3) = Captured(c)
      /\ c3.fmt = c.fmt /\ c3.slot = c.slot /\ c3.answer = c.answer /\ c3.tap = c.tap /\ c3.shifts = c.shifts
      /\ c3.isr = c.isr /\ c3.ir = c.ir /\ c3.sr = c.sr /\ c3.cap = c.cap
  <2>1. c3 \in Chips /\ AdapterOf(c3) = AdapterOf(c)
    BY <1>1 DEF Chips, AdapterOf
  <2>2. /\ c3.adapter /\ c3.check = 0 /\ c3.reading = c.reading /\ c3.level = c.level
        /\ c3.fmt = c.fmt /\ c3.slot = c.slot /\ c3.answer = c.answer /\ c3.tap = c.tap /\ c3.shifts = c.shifts
        /\ c3.isr = c.isr /\ c3.ir = c.ir /\ c3.sr = c.sr /\ c3.cap = c.cap
    BY DEF Chips
  <2>. HIDE DEF c3
  <2>3. Captured(c3) = Captured(c)
    BY <2>2 DEF Captured
  <2>. QED BY <2>1, <2>2, <2>3
<1>5. Rise(c2, third, line) = Followed(TapClock(c3, tms, tdi))
  <2>1. c2.adapter /\ c2.check = 0 /\ c2.fmt = "oscan1" /\ c2.slot = 2 /\ c2.ptms = tms /\ c2.ntdi = 1 - tdi
    BY DEF Chips
  <2>2. [c2 EXCEPT !.slot = 0] = c3
    BY DEF Chips
  <2>. HIDE DEF c2, c3
  <2>3. Rise(c2, third, line) = Followed(TapClock([c2 EXCEPT !.slot = 0], c2.ptms, 1 - c2.ntdi))
    BY <2>1 DEF Rise
  <2>. QED BY <2>1, <2>2, <2>3, <1>1
<1>6. Ticked(c3, Followed(TapClock(c3, tms, tdi)), tms, tdi)
  BY <1>4, FollowedTicks
<1>7. Ticked(c, Followed(TapClock(c3, tms, tdi)), tms, tdi)
  <2>. DEFINE d == Followed(TapClock(c3, tms, tdi))
  <2>. HIDE DEF d, c3
  <2>. QED BY <1>4, <1>6 DEF Ticked, d
<1>8. c2.fmt = "oscan1" /\ c2.slot = 2 /\ c2.tap = c.tap /\ c2.sr = c.sr /\ c1.tap = c.tap
  BY DEF Chips
<1>. QED BY <1>2, <1>3, <1>5, <1>7, <1>8

LEMMA PacketType ==
  ASSUME NEW c \in Chips, NEW a \in Bit
  PROVE  [c EXCEPT !.ntdi = a, !.slot = 1] \in Chips /\ [c EXCEPT !.ptms = a, !.slot = 2] \in Chips
<1>1. ASSUME NEW q \in 0 .. 2
      PROVE  [c EXCEPT !.ntdi = a, !.slot = q] \in Chips /\ [c EXCEPT !.ptms = a, !.slot = q] \in Chips
  BY DEF Chips
<1>. QED BY <1>1

LEMMA CheckedType ==
  ASSUME NEW c \in Chips, NEW f \in Formats
  PROVE  [c EXCEPT !.check = 0, !.fmt = f, !.ends = "none", !.slot = 0] \in Chips
<1>1. ASSUME NEW q \in 0 .. 2, NEW n \in 0 .. 4, NEW e \in Ends, ~(n > 0)
      PROVE  [c EXCEPT !.check = n, !.fmt = f, !.ends = e, !.slot = q] \in Chips
  BY <1>1 DEF Chips
<1>2. 0 \in 0 .. 2 /\ 0 \in 0 .. 4 /\ "none" \in Ends /\ ~(0 > 0)
  BY DEF Ends
<1>. QED BY <1>1, <1>2

LEMMA RiseType ==
  ASSUME NEW c \in Chips, NEW tms \in Bit, NEW tdi \in Bit, Muted(c)
  PROVE  /\ Rise(c, tms, tdi) \in Chips /\ Muted(Rise(c, tms, tdi))
         /\ Rise(c, tms, tdi).adapter = c.adapter /\ Rise(c, tms, tdi).answer = c.answer
<1>. DEFINE d == Rise(c, tms, tdi)
<1>. c.adapter \in BOOLEAN /\ c.check \in 0 .. 4 /\ c.fmt \in Formats /\ c.slot \in 0 .. 2
  BY DEF Chips
<1>1. CASE ~c.adapter
  <2>1. Ticked(c, d, tms, tdi)
    BY <1>1, RiseTicks
  <2>. HIDE DEF d
  <2>2. d \in Chips /\ Muted(d) /\ d.adapter = c.adapter /\ d.answer = c.answer
    BY <1>1, <2>1 DEF Ticked, Muted
  <2>. QED BY <2>2 DEF d
<1>2. CASE c.adapter /\ c.check > 1
  <2>1. d = [c EXCEPT !.check = c.check - 1]
    BY <1>2 DEF Rise
  <2>2. c.check - 1 \in 0 .. 4 /\ c.check > 0
    BY <1>2
  <2>. HIDE DEF d
  <2>3. d \in Chips /\ Muted(d) /\ d.adapter = c.adapter /\ d.answer = c.answer
    BY <1>2, <2>1, <2>2 DEF Chips, Muted
  <2>. QED BY <2>3 DEF d
<1>3. CASE c.adapter /\ c.check = 1
  <2>1. d = [c EXCEPT !.check = 0, !.fmt = c.ends, !.ends = "none", !.slot = 0]
    BY <1>3 DEF Rise
  <2>2. c.ends \in Formats /\ c.ends # "none"
    BY <1>3 DEF Chips, Ends, Formats
  <2>. HIDE DEF d
  <2>3. d.adapter = c.adapter /\ d.answer = c.answer /\ d.check = 0
    BY <1>3, <2>1 DEF Chips
  <2>4. d \in Chips
    BY <2>1, <2>2, CheckedType
  <2>5. Muted(d)
    BY <1>3, <2>3 DEF Muted
  <2>. QED BY <2>3, <2>4, <2>5 DEF d
<1>4. CASE c.adapter /\ c.check = 0 /\ c.fmt = "four_wire"
  <2>1. Ticked(c, d, tms, tdi)
    BY <1>4, RiseTicks
  <2>. HIDE DEF d
  <2>2. d \in Chips /\ Muted(d) /\ d.adapter = c.adapter /\ d.answer = c.answer
    BY <1>4, <2>1 DEF Ticked, Muted
  <2>. QED BY <2>2 DEF d
<1>5. CASE c.adapter /\ c.check = 0 /\ c.fmt = "oscan1" /\ c.slot = 0
  <2>1. d = [c EXCEPT !.ntdi = tms, !.slot = 1]
    BY <1>5 DEF Rise
  <2>. HIDE DEF d
  <2>3. d.adapter = c.adapter /\ d.answer = c.answer /\ d.check = 0
    BY <1>5, <2>1 DEF Chips
  <2>4. d \in Chips
    BY <2>1, PacketType
  <2>5. Muted(d)
    BY <1>5, <2>3 DEF Muted
  <2>. QED BY <2>3, <2>4, <2>5 DEF d
<1>6. CASE c.adapter /\ c.check = 0 /\ c.fmt = "oscan1" /\ c.slot = 1
  <2>1. d = [c EXCEPT !.ptms = tms, !.slot = 2]
    BY <1>6 DEF Rise
  <2>. HIDE DEF d
  <2>3. d.adapter = c.adapter /\ d.answer = c.answer /\ d.check = 0
    BY <1>6, <2>1 DEF Chips
  <2>4. d \in Chips
    BY <2>1, PacketType
  <2>5. Muted(d)
    BY <1>6, <2>3 DEF Muted
  <2>. QED BY <2>3, <2>4, <2>5 DEF d
<1>7. CASE c.adapter /\ c.check = 0 /\ c.fmt = "oscan1" /\ c.slot = 2
  <2>. DEFINE e == [c EXCEPT !.slot = 0]
  <2>1. d = Followed(TapClock(e, c.ptms, 1 - c.ntdi))
    BY <1>7 DEF Rise
  <2>2. e \in Chips /\ e.adapter /\ e.check = 0 /\ c.ptms \in Bit /\ 1 - c.ntdi \in Bit
        /\ e.answer = c.answer
    BY <1>7 DEF Chips, Bit
  <2>. HIDE DEF d, e
  <2>3. Ticked(e, d, c.ptms, 1 - c.ntdi)
    BY <2>1, <2>2, FollowedTicks
  <2>4. d \in Chips /\ Muted(d) /\ d.adapter = c.adapter /\ d.answer = c.answer
    BY <1>7, <2>2, <2>3 DEF Ticked, Muted
  <2>. QED BY <2>4 DEF d
<1>. QED BY <1>1, <1>2, <1>3, <1>4, <1>5, <1>6, <1>7 DEF Formats

\* The reset escape.
LEMMA Escaped ==
  ASSUME NEW c \in Chips, NEW n \in Nat, n >= 8, Muted(c)
  PROVE  /\ Escape(c, n) \in Chips /\ Muted(Escape(c, n)) /\ AdapterOf(Escape(c, n)) = Plain
         /\ Escape(c, n).adapter = c.adapter /\ Escape(c, n).answer = c.answer
         /\ Escape(c, n).fmt = "four_wire" /\ Escape(c, n).slot = 0 /\ Escape(c, n).tap = c.tap
         /\ Escape(c, n).isr = c.isr /\ Escape(c, n).ir = c.ir
<1>1. CASE ~c.adapter
  BY <1>1 DEF Escape, Muted
<1>2. CASE c.adapter
  <2>. DEFINE d == [c EXCEPT !.fmt = "four_wire", !.slot = 0, !.check = 0, !.ends = "none",
                 !.zbs = 0, !.level = "data", !.part = NoPart, !.reading = FALSE]
  <2>1. Escape(c, n) = d
    BY <1>2 DEF Escape
  <2>2. "four_wire" \in Formats /\ "none" \in Ends /\ "data" \in Levels /\ NoPart \in Nat /\ FALSE \in BOOLEAN
        /\ 0 \in 0 .. 2 /\ 0 \in 0 .. 4 /\ ~(0 > 0)
    BY DEF Formats, Ends, Levels, NoPart
  <2>3. /\ d \in Chips /\ d.adapter = c.adapter /\ d.answer = c.answer /\ d.fmt = "four_wire" /\ d.slot = 0
        /\ d.tap = c.tap /\ d.isr = c.isr /\ d.ir = c.ir
    BY <2>2 DEF Chips
  <2>4. AdapterOf(d) = Plain
    BY DEF AdapterOf, Plain, Chips
  <2>. HIDE DEF d
  <2>. QED BY <1>2, <2>1, <2>3, <2>4 DEF Muted
<1>. QED BY <1>1, <1>2 DEF Chips

-------------------------------------------------------------------------------
(* What the proof sees of driver and chip                                  *)

View == [adapter |-> chip.adapter, bench |-> program = "SV", two |-> cjtag_mode, tck |-> tck,
         tap |-> chip.tap, mon |-> monitor, fmt |-> chip.fmt, slot |-> chip.slot,
         shifts |-> chip.shifts, ad |-> AdapterOf(chip)]

Views ==
  {v \in [adapter : BOOLEAN, bench : BOOLEAN, two : BOOLEAN, tck : Bit,
          tap : TapStates, mon : TapStates, fmt : Formats, slot : 0 .. 2,
          shifts : Nat, ad : Adapters] :
     ~v.adapter => v.ad = Plain /\ v.fmt = "four_wire" /\ v.slot = 0}

PinOps == [kind : {"packet", "bit"}, tms : Bit, tdi : Bit, at : TapStates \cup {Unnamed}]
            \cup [kind : {"raw", "high", "mode"}, tms : Bit, tdi : {0}, at : TapStates \cup {Unnamed}]
            \cup [kind : {"escape"}, tms : {0}, tdi : {15, 16}, at : {Unnamed}]

FormatOf(two) == IF two THEN "oscan1" ELSE "four_wire"

\* The operation is one clock of the TAP.
Clocks(v, op) ==
  /\ v.tck = 0 /\ (v.adapter \/ ~v.two)
  /\ v.adapter => v.ad.check = 0 /\ v.slot = 0 /\ v.fmt = FormatOf(v.two)
  /\ op.kind \in {"packet", "bit"} \/ (op.kind \in {"raw", "high", "escape"} /\ ~v.two)

\* The view an operation leads to, as far as it can be told from the view.
Goes(v, op, w) ==
  /\ w.adapter = v.adapter /\ w.bench = v.bench
  /\ w.two = IF op.kind = "mode" THEN op.tms = 1 ELSE v.two
  /\ w.tck = IF op.kind = "high" THEN 1 ELSE 0
  /\ op.kind = "mode" => /\ w.tap = v.tap /\ w.mon = v.mon /\ w.fmt = v.fmt /\ w.slot = v.slot
                         /\ w.shifts = v.shifts /\ w.ad = v.ad
  /\ Clocks(v, op) => w.tap = TapNext(v.tap, op.tms)
  /\ Clocks(v, op) /\ op.kind # "escape" =>
       /\ w.fmt = v.fmt /\ w.slot = v.slot /\ w.shifts = ShiftsAfter(v.tap, v.shifts)
       /\ w.ad = IF v.adapter THEN Noted(v.ad, w.tap, w.shifts, v.fmt) ELSE v.ad
  /\ op.kind = "escape" => w.fmt = "four_wire" /\ w.slot = 0 /\ w.ad = Plain
  /\ op.kind = "escape" /\ v.tck = 1 => w.tap = v.tap
  /\ op.kind = "raw" /\ v.tck = 0 /\ v.adapter /\ v.ad.check > 1 =>
       /\ w.tap = v.tap /\ w.fmt = v.fmt /\ w.slot = v.slot
       /\ w.ad = Adapter(v.ad.zbs, v.ad.level, v.ad.part, v.ad.reading, v.ad.ends, v.ad.check - 1)
  /\ op.kind = "raw" /\ v.tck = 0 /\ v.adapter /\ v.ad.check = 1 =>
       /\ w.tap = v.tap /\ w.fmt = v.ad.ends /\ w.slot = 0
       /\ w.ad = Adapter(v.ad.zbs, v.ad.level, v.ad.part, v.ad.reading, "none", 0)
  /\ ~v.bench => w.mon = v.mon
  /\ v.bench /\ ~v.two /\ op.kind # "mode" => w.mon = MonitorNext(v.mon, op.tms)

\* The bit of TDI the TAP takes, where the operation is one clock of it.
Line(op) == IF cjtag_mode THEN op.tdi ELSE TdiPin(op.tdi)

\* The chip after an operation, but for what its DMI register captures next.
ChipGoes(c, d, op) ==
  /\ d \in Chips /\ Muted(d) /\ d.adapter = c.adapter
  /\ op.kind = "mode" => d = c
  /\ Clocks(View, op) /\ op.kind # "escape" => Ticked(c, d, op.tms, Line(op))
  /\ op.kind = "escape" =>
       /\ d.fmt = "four_wire" /\ d.slot = 0 /\ AdapterOf(d) = Plain
       /\ tck = 1 => d.tap = c.tap
       /\ Clocks(View, op) => d.tap = TapNext(c.tap, op.tms)
  /\ op.kind = "raw" /\ tck = 0 /\ c.adapter /\ c.check > 1 =>
       /\ d.tap = c.tap /\ d.fmt = c.fmt /\ d.slot = c.slot
       /\ AdapterOf(d) = Adapter(c.zbs, c.level, c.part, c.reading, c.ends, c.check - 1)
  /\ op.kind = "raw" /\ tck = 0 /\ c.adapter /\ c.check = 1 =>
       /\ d.tap = c.tap /\ d.fmt = c.ends /\ d.slot = 0
       /\ AdapterOf(d) = Adapter(c.zbs, c.level, c.part, c.reading, "none", 0)

\* One clock from a view that allows it.
LEMMA ViewTicks ==
  ASSUME chip \in Chips, Muted(chip), cjtag_mode \in BOOLEAN, NEW op \in PinOps, Clocks(View, op)
  PROVE  /\ tck = 0
         /\ ~cjtag_mode => (chip.adapter => chip.check = 0 /\ chip.fmt = "four_wire")
         /\ cjtag_mode => chip.adapter /\ chip.check = 0 /\ chip.fmt = "oscan1" /\ chip.slot = 0
BY DEF Clocks, View, AdapterOf, FormatOf

LEMMA OpTypes ==
  ASSUME NEW op \in PinOps
  PROVE  /\ op.kind \in {"packet", "bit", "raw", "high", "mode", "escape"}
         /\ op.tms \in Bit /\ op.at \in TapStates \cup {Unnamed}
         /\ op.kind \in {"packet", "bit"} => op.tdi \in Bit
         /\ op.kind \in {"raw", "high", "mode"} => op.tdi = 0
         /\ op.kind = "escape" => op.tdi \in Nat /\ op.tdi >= 8 /\ op.tms = 0 /\ op.at = Unnamed
BY DEF PinOps, Bit

LEMMA PinBit ==
  ASSUME NEW b \in Bit
  PROVE  TdiPin(b) \in Bit
BY DEF TdiPin, Bit

LEMMA ChipPulsed ==
  ASSUME chip \in Chips, Muted(chip), cjtag_mode \in BOOLEAN, tck \in Bit, NEW op \in PinOps
  PROVE  ChipGoes(chip, Pulsed(op), op)
<1>. DEFINE d == Pulsed(op)
<1>0. 0 \in Bit /\ 1 \in Bit /\ (tck = 0 \/ tck = 1) /\ TdiPin(0) \in Bit
  BY PinBit DEF Bit
<1>1. CASE op.kind = "mode"
  <2>1. d = chip
    BY <1>1 DEF Pulsed
  <2>2. ~Clocks(View, op)
    BY <1>1 DEF Clocks
  <2>. HIDE DEF d
  <2>3. ChipGoes(chip, d, op)
    BY <1>1, <2>1, <2>2 DEF ChipGoes
  <2>. QED BY <2>3 DEF d
<1>2. CASE op.kind = "escape"
  <2>. DEFINE e == First(chip, 0, TdiPin(0))
  <2>1. d = Escape(e, op.tdi) /\ op.tdi \in Nat /\ op.tdi >= 8 /\ op.tms = 0
    BY <1>2, OpTypes DEF Pulsed
  <2>2. e \in Chips /\ Muted(e) /\ e.adapter = chip.adapter /\ (tck = 1 => e = chip)
    BY <1>0, RiseType DEF First
  <2>3. Clocks(View, op) => e.tap = TapNext(chip.tap, 0)
    <3>1. CASE Clocks(View, op)
      <4>1. tck = 0 /\ ~cjtag_mode
        BY <3>1, <1>2, ViewTicks DEF Clocks, View
      <4>2. e = Rise(chip, 0, TdiPin(0))
        BY <4>1 DEF First
      <4>3. Ticked(chip, Rise(chip, 0, TdiPin(0)), 0, TdiPin(0))
        BY <3>1, <4>1, <1>0, ViewTicks, RiseTicks
      <4>. QED BY <4>2, <4>3 DEF Ticked
    <3>. QED BY <3>1
  <2>. HIDE DEF d, e
  <2>4. /\ d \in Chips /\ Muted(d) /\ AdapterOf(d) = Plain /\ d.adapter = e.adapter
        /\ d.fmt = "four_wire" /\ d.slot = 0 /\ d.tap = e.tap
    BY <2>1, <2>2, Escaped
  <2>5. ChipGoes(chip, d, op)
    BY <1>2, <2>1, <2>2, <2>3, <2>4 DEF ChipGoes
  <2>. QED BY <2>5 DEF d
<1>3. CASE op.kind \in {"raw", "high"}
  <2>1. d = First(chip, op.tms, TdiPin(0)) /\ op.tms \in Bit /\ op.tdi = 0
    BY <1>3, OpTypes DEF Pulsed
  <2>. HIDE DEF d
  <2>2. d \in Chips /\ Muted(d) /\ d.adapter = chip.adapter
    BY <2>1, <1>0, RiseType DEF First
  <2>3. Clocks(View, op) => Ticked(chip, d, op.tms, Line(op))
    <3>1. CASE Clocks(View, op)
      <4>1. tck = 0 /\ ~cjtag_mode
        BY <3>1, <1>3, ViewTicks DEF Clocks, View
      <4>2. d = Rise(chip, op.tms, TdiPin(0))
        BY <2>1, <4>1 DEF First
      <4>3. Ticked(chip, Rise(chip, op.tms, TdiPin(0)), op.tms, TdiPin(0))
        BY <2>1, <3>1, <4>1, <1>0, ViewTicks, RiseTicks
      <4>4. Line(op) = TdiPin(0)
        BY <2>1, <4>1 DEF Line
      <4>. QED BY <4>2, <4>3, <4>4
    <3>. QED BY <3>1
  <2>4. tck = 0 => d = Rise(chip, op.tms, TdiPin(0))
    BY <2>1 DEF First
  <2>5. tck = 0 /\ chip.adapter /\ chip.check > 1 =>
          /\ d.tap = chip.tap /\ d.fmt = chip.fmt /\ d.slot = chip.slot
          /\ AdapterOf(d) = Adapter(chip.zbs, chip.level, chip.part, chip.reading, chip.ends, chip.check - 1)
    <3>1. CASE tck = 0 /\ chip.adapter /\ chip.check > 1
      <4>1. d = [chip EXCEPT !.check = chip.check - 1]
        BY <2>4, <3>1 DEF Rise
      <4>2. /\ d.tap = chip.tap /\ d.fmt = chip.fmt /\ d.slot = chip.slot /\ d.check = chip.check - 1
            /\ d.ends = chip.ends /\ d.zbs = chip.zbs /\ d.level = chip.level /\ d.part = chip.part
            /\ d.reading = chip.reading
        BY <4>1 DEF Chips
      <4>3. AdapterOf(d) = Adapter(chip.zbs, chip.level, chip.part, chip.reading, chip.ends, chip.check - 1)
        BY <4>2 DEF AdapterOf, Adapter
      <4>. QED BY <4>2, <4>3
    <3>. QED BY <3>1
  <2>6. tck = 0 /\ chip.adapter /\ chip.check = 1 =>
          /\ d.tap = chip.tap /\ d.fmt = chip.ends /\ d.slot = 0
          /\ AdapterOf(d) = Adapter(chip.zbs, chip.level, chip.part, chip.reading, "none", 0)
    <3>1. CASE tck = 0 /\ chip.adapter /\ chip.check = 1
      <4>1. d = [chip EXCEPT !.check = 0, !.fmt = chip.ends, !.ends = "none", !.slot = 0]
        BY <2>4, <3>1 DEF Rise
      <4>2. /\ d.tap = chip.tap /\ d.fmt = chip.ends /\ d.slot = 0 /\ d.check = 0 /\ d.ends = "none"
            /\ d.zbs = chip.zbs /\ d.level = chip.level /\ d.part = chip.part /\ d.reading = chip.reading
        BY <4>1 DEF Chips
      <4>3. AdapterOf(d) = Adapter(chip.zbs, chip.level, chip.part, chip.reading, "none", 0)
        BY <4>2 DEF AdapterOf, Adapter
      <4>. QED BY <4>2, <4>3
    <3>. QED BY <3>1
  <2>7. ChipGoes(chip, d, op)
    BY <1>3, <2>2, <2>3, <2>5, <2>6 DEF ChipGoes
  <2>. QED BY <2>7 DEF d
<1>4. CASE op.kind \in {"packet", "bit"} /\ ~cjtag_mode
  <2>1. d = First(chip, op.tms, Line(op)) /\ op.tms \in Bit /\ Line(op) \in Bit
    BY <1>4, OpTypes, PinBit DEF Pulsed, Line
  <2>. HIDE DEF d
  <2>2. d \in Chips /\ Muted(d) /\ d.adapter = chip.adapter
    BY <2>1, RiseType DEF First
  <2>3. Clocks(View, op) => Ticked(chip, d, op.tms, Line(op))
    <3>1. CASE Clocks(View, op)
      <4>1. d = Rise(chip, op.tms, Line(op))
        BY <2>1, <3>1, ViewTicks DEF First
      <4>2. Ticked(chip, Rise(chip, op.tms, Line(op)), op.tms, Line(op))
        BY <2>1, <3>1, <1>4, ViewTicks, RiseTicks
      <4>. QED BY <4>1, <4>2
    <3>. QED BY <3>1
  <2>4. ChipGoes(chip, d, op)
    BY <1>4, <2>2, <2>3 DEF ChipGoes
  <2>. QED BY <2>4 DEF d
<1>5. CASE op.kind \in {"packet", "bit"} /\ cjtag_mode
  <2>. DEFINE c1 == First(chip, 1 - op.tdi, TdiPin(0))
              c2 == Rise(c1, op.tms, TdiPin(0))
  <2>1. d = Rise(c2, Third(op), TdiPin(0)) /\ op.tms \in Bit /\ op.tdi \in Bit /\ 1 - op.tdi \in Bit
        /\ Third(op) \in Bit
    BY <1>0, <1>5, OpTypes DEF Pulsed, TwoClocks, OneClock, Third, Bit
  <2>. HIDE DEF d
  <2>2. c1 \in Chips /\ Muted(c1) /\ c1.adapter = chip.adapter
    BY <2>1, <1>0, RiseType DEF First
  <2>3. Clocks(View, op) => Ticked(chip, d, op.tms, Line(op))
    <3>1. CASE Clocks(View, op)
      <4>1. d = Rise(Rise(Rise(chip, 1 - op.tdi, TdiPin(0)), op.tms, TdiPin(0)), Third(op), TdiPin(0))
        BY <2>1, <3>1, ViewTicks DEF First
      <4>2. Ticked(chip, Rise(Rise(Rise(chip, 1 - op.tdi, TdiPin(0)), op.tms, TdiPin(0)), Third(op), TdiPin(0)), op.tms, op.tdi)
        BY <2>1, <3>1, <1>5, ViewTicks, PacketTicks
      <4>3. Line(op) = op.tdi
        BY <1>5 DEF Line
      <4>. QED BY <4>1, <4>2, <4>3
    <3>. QED BY <3>1
  <2>. HIDE DEF c1
  <2>4. c2 \in Chips /\ Muted(c2) /\ c2.adapter = chip.adapter
    BY <2>1, <2>2, <1>0, RiseType
  <2>. HIDE DEF c2
  <2>5. d \in Chips /\ Muted(d) /\ d.adapter = chip.adapter
    BY <2>1, <2>4, <1>0, RiseType
  <2>6. ChipGoes(chip, d, op)
    BY <1>5, <2>5, <2>3 DEF ChipGoes
  <2>. QED BY <2>6 DEF d
<1>. QED BY <1>1, <1>2, <1>3, <1>4, <1>5, OpTypes

BaseType ==
  /\ setup \in Setups /\ cjtag_mode \in BOOLEAN /\ tck \in Bit
  /\ chip \in Chips /\ Muted(chip) /\ monitor \in TapStates

LEMMA MonitorStates ==
  /\ \A m \in TapStates, b \in Bit : MonitorNext(m, b) \in TapStates
  /\ \A m \in TapStates \ {"EXIT2_DR"}, b \in Bit : MonitorNext(m, b) = TapNext(m, b)
<1>1. ASSUME NEW m \in TapStates PROVE MonitorLow[m] \in TapStates
  BY States DEF MonitorLow
<1>2. ASSUME NEW m \in TapStates PROVE MonitorHigh[m] \in TapStates
  BY States DEF MonitorHigh
<1>3. ASSUME NEW m \in TapStates PROVE MonitorHigh[m] = OnHigh[m]
  BY States DEF MonitorHigh, OnHigh
<1>4. ASSUME NEW m \in TapStates, m # "EXIT2_DR" PROVE MonitorLow[m] = OnLow[m]
  BY <1>4, States DEF MonitorLow, OnLow
<1>. QED BY <1>1, <1>2, <1>3, <1>4 DEF MonitorNext, TapNext

LEMMA WatchedType ==
  ASSUME BaseType, NEW op \in PinOps
  PROVE  Watched(op) \in TapStates
<1>1. op.tms \in Bit /\ 0 \in Bit /\ (op.kind \in {"packet", "bit"} => 1 - op.tdi \in Bit)
  BY OpTypes DEF Bit
<1>2. monitor \in TapStates
  BY DEF BaseType
<1>3. MonitorNext(monitor, op.tms) \in TapStates
  BY <1>1, <1>2, MonitorStates
<1>4. CASE op.kind \in {"packet", "bit"}
  <2>1. MonitorNext(MonitorNext(MonitorNext(monitor, 1 - op.tdi), op.tms), 0) \in TapStates
    BY <1>1, <1>2, <1>4, MonitorStates
  <2>. QED BY <2>1, <1>2, <1>3 DEF Watched
<1>5. CASE op.kind \notin {"packet", "bit"}
  BY <1>5, <1>2, <1>3 DEF Watched
<1>. QED BY <1>4, <1>5

\* What the DMI register captures next makes no difference to a view.
LEMMA AnsweredType ==
  ASSUME NEW c \in Chips, Muted(c), NEW w \in [1 .. DmiWidth -> Bit]
  PROVE  LET d == [c EXCEPT !.answer = w] IN
         /\ d \in Chips /\ Muted(d) /\ AdapterOf(d) = AdapterOf(c)
         /\ d.adapter = c.adapter /\ d.tap = c.tap /\ d.fmt = c.fmt /\ d.slot = c.slot /\ d.shifts = c.shifts
         /\ d.ir = c.ir /\ d.isr = c.isr /\ d.sr = c.sr /\ d.cap = c.cap /\ d.answer = w
         /\ d.level = c.level
<1>. DEFINE d == [c EXCEPT !.answer = w]
<1>1. /\ d \in Chips /\ AdapterOf(d) = AdapterOf(c)
      /\ d.adapter = c.adapter /\ d.tap = c.tap /\ d.fmt = c.fmt /\ d.slot = c.slot /\ d.shifts = c.shifts
      /\ d.ir = c.ir /\ d.isr = c.isr /\ d.sr = c.sr /\ d.cap = c.cap /\ d.answer = w
      /\ d.level = c.level
  BY DEF Chips, AdapterOf
<1>. HIDE DEF d
<1>2. Muted(d)
  BY <1>1 DEF Muted
<1>. QED BY <1>1, <1>2 DEF d

\* One operation, as Step carries it out.
Does(op) ==
  /\ \E w \in Answers \cup {chip.answer} : chip' = [Pulsed(op) EXCEPT !.answer = w]
  /\ monitor' = Watched(op)
  /\ tck' = IF op.kind = "high" THEN 1 ELSE 0
  /\ cjtag_mode' = IF op.kind = "mode" THEN op.tms = 1 ELSE cjtag_mode
  /\ UNCHANGED setup

LEMMA StepDoes ==
  ASSUME Step
  PROVE  Does(list[k + 1]) /\ at' = list[k + 1].at
BY DEF Step, Does

LEMMA DoesGo ==
  ASSUME BaseType, NEW op \in PinOps, Does(op)
  PROVE  BaseType' /\ Goes(View, op, View')
<1>1. chip \in Chips /\ Muted(chip) /\ cjtag_mode \in BOOLEAN /\ tck \in Bit /\ setup' = setup
  BY DEF BaseType, Does
<1>2. PICK w \in Answers \cup {chip.answer} : chip' = [Pulsed(op) EXCEPT !.answer = w]
  BY DEF Does
<1>3. w \in [1 .. DmiWidth -> Bit]
  BY <1>1, ScanAssumption DEF Chips
<1>. DEFINE e == Pulsed(op)
<1>4. ChipGoes(chip, e, op)
  BY <1>1, ChipPulsed
<1>5. e \in Chips /\ Muted(e)
  BY <1>4 DEF ChipGoes
<1>6. chip' = [e EXCEPT !.answer = w]
  BY <1>2
<1>. HIDE DEF e
<1>7. /\ chip' \in Chips /\ Muted(chip') /\ AdapterOf(chip') = AdapterOf(e)
      /\ chip'.adapter = e.adapter /\ chip'.tap = e.tap /\ chip'.fmt = e.fmt /\ chip'.slot = e.slot
      /\ chip'.shifts = e.shifts
  BY <1>3, <1>5, <1>6, AnsweredType
<1>8. BaseType'
  <2>1. Muted(chip)'
    BY <1>7 DEF Muted, AdapterOf
  <2>2. tck' \in Bit /\ cjtag_mode' \in BOOLEAN
    BY <1>1 DEF Does, Bit
  <2>3. monitor' \in TapStates
    BY WatchedType DEF Does
  <2>. QED BY <1>1, <1>7, <2>1, <2>2, <2>3 DEF BaseType
<1>9. Goes(View, op, View')
  <2>. DEFINE v == View  u == View'
  <2>1. /\ v.adapter = chip.adapter /\ v.bench = (program = "SV") /\ v.two = cjtag_mode /\ v.tck = tck
        /\ v.tap = chip.tap /\ v.mon = monitor /\ v.fmt = chip.fmt /\ v.slot = chip.slot
        /\ v.shifts = chip.shifts /\ v.ad = AdapterOf(chip)
    BY DEF View
  <2>2. /\ u.adapter = e.adapter /\ u.bench = (program = "SV") /\ u.two = cjtag_mode' /\ u.tck = tck'
        /\ u.tap = e.tap /\ u.mon = monitor' /\ u.fmt = e.fmt /\ u.slot = e.slot
        /\ u.shifts = e.shifts /\ u.ad = AdapterOf(e)
    BY <1>1, <1>7 DEF View, program, AdapterOf
  <2>3. e.adapter = chip.adapter
    BY <1>4 DEF ChipGoes
  <2>. HIDE DEF u
  <2>4. op.kind = "mode" => /\ u.tap = v.tap /\ u.mon = v.mon /\ u.fmt = v.fmt /\ u.slot = v.slot
                            /\ u.shifts = v.shifts /\ u.ad = v.ad
    BY <1>4, <2>1, <2>2 DEF ChipGoes, Does, Watched
  <2>5. Clocks(v, op) => u.tap = TapNext(v.tap, op.tms)
    BY <1>4, <2>1, <2>2 DEF ChipGoes, Ticked
  <2>6. Clocks(v, op) /\ op.kind # "escape" =>
          /\ u.fmt = v.fmt /\ u.slot = v.slot /\ u.shifts = ShiftsAfter(v.tap, v.shifts)
          /\ u.ad = IF v.adapter THEN Noted(v.ad, u.tap, u.shifts, v.fmt) ELSE v.ad
    BY <1>4, <2>1, <2>2 DEF ChipGoes, Ticked
  <2>7. op.kind = "escape" => /\ u.fmt = "four_wire" /\ u.slot = 0 /\ u.ad = Plain
                              /\ v.tck = 1 => u.tap = v.tap
    BY <1>4, <2>1, <2>2 DEF ChipGoes
  <2>8. op.kind = "raw" /\ v.tck = 0 /\ v.adapter /\ v.ad.check > 1 =>
          /\ u.tap = v.tap /\ u.fmt = v.fmt /\ u.slot = v.slot
          /\ u.ad = Adapter(v.ad.zbs, v.ad.level, v.ad.part, v.ad.reading, v.ad.ends, v.ad.check - 1)
    BY <1>4, <2>1, <2>2 DEF ChipGoes, AdapterOf
  <2>9. op.kind = "raw" /\ v.tck = 0 /\ v.adapter /\ v.ad.check = 1 =>
          /\ u.tap = v.tap /\ u.fmt = v.ad.ends /\ u.slot = 0
          /\ u.ad = Adapter(v.ad.zbs, v.ad.level, v.ad.part, v.ad.reading, "none", 0)
    BY <1>4, <2>1, <2>2 DEF ChipGoes, AdapterOf
  <2>10. /\ ~v.bench => u.mon = v.mon
         /\ v.bench /\ ~v.two /\ op.kind # "mode" => u.mon = MonitorNext(v.mon, op.tms)
    <3>1. program \in {"C", "SV"}
      BY ScanAssumption DEF BaseType, program
    <3>2. monitor' = Watched(op)
      BY DEF Does
    <3>. QED BY <2>1, <2>2, <3>1, <3>2 DEF Watched
  <2>11. /\ u.two = IF op.kind = "mode" THEN op.tms = 1 ELSE v.two
         /\ u.tck = IF op.kind = "high" THEN 1 ELSE 0
    BY <2>1, <2>2 DEF Does
  <2>12. u.adapter = v.adapter /\ u.bench = v.bench
    BY <2>1, <2>2, <2>3
  <2>. HIDE DEF v
  <2>13. Goes(v, op, u)
    BY <2>4, <2>5, <2>6, <2>7, <2>8, <2>9, <2>10, <2>11, <2>12 DEF Goes
  <2>. QED BY <2>13 DEF v, u
<1>. QED BY <1>8, <1>9

-------------------------------------------------------------------------------
(* Lists of operations                                                     *)

\* Where an operation is named for a state, driver and chip are in step.
Fits(v, s) ==
  s # Unnamed =>
    /\ v.adapter \/ ~v.two =>
         v.tap = s /\ v.fmt = FormatOf(v.two) /\ v.slot = 0 /\ v.tck = 0
    /\ v.bench /\ ~v.two => v.mon = v.tap

\* f[j] holds every view there may be after j operations of l.
Course(l, f) ==
  \A j \in 1 .. Len(l) : \A v \in f[j - 1], w \in Views :
    Goes(v, l[j], w) => w \in f[j] /\ Fits(w, l[j].at)

Leads(l, A, B) ==
  /\ l \in Seq(PinOps) /\ A \in SUBSET Views /\ B \in SUBSET Views
  /\ \E f \in [0 .. Len(l) -> SUBSET Views] : Course(l, f) /\ A \subseteq f[0] /\ f[Len(l)] \subseteq B

LEMMA LeadsNone ==
  ASSUME NEW A \in SUBSET Views
  PROVE  Leads(<<>>, A, A)
<1>1. <<>> \in Seq(PinOps) /\ Len(<<>>) = 0
  BY EmptySeq
<1>. DEFINE f == [j \in 0 .. 0 |-> A]
<1>2. f \in [0 .. 0 -> SUBSET Views] /\ f[0] = A
  OBVIOUS
<1>3. Course(<<>>, f)
  BY <1>1 DEF Course
<1>. HIDE DEF f
<1>. QED BY <1>1, <1>2, <1>3 DEF Leads

LEMMA LeadsOne ==
  ASSUME NEW A \in SUBSET Views, NEW B \in SUBSET Views, NEW op \in PinOps,
         \A v \in A, w \in Views : Goes(v, op, w) => w \in B /\ Fits(w, op.at)
  PROVE  Leads(<<op>>, A, B)
<1>. DEFINE l == <<op>>  f == [j \in 0 .. 1 |-> IF j = 0 THEN A ELSE B]
<1>1. l \in Seq(PinOps) /\ Len(l) = 1 /\ l[1] = op
  OBVIOUS
<1>2. f \in [0 .. 1 -> SUBSET Views] /\ f[0] = A /\ f[1] = B
  OBVIOUS
<1>. HIDE DEF l, f
<1>3. Course(l, f)
  BY <1>1, <1>2 DEF Course
<1>4. Leads(l, A, B)
  BY <1>1, <1>2, <1>3 DEF Leads
<1>. QED BY <1>4 DEF l

LEMMA LeadsWider ==
  ASSUME NEW l, NEW A, NEW B, Leads(l, A, B),
         NEW A1 \in SUBSET A, NEW B1 \in SUBSET Views, B \subseteq B1
  PROVE  Leads(l, A1, B1)
BY DEF Leads

LEMMA LeadsJoin ==
  ASSUME NEW l, NEW m, NEW A, NEW B, NEW C, Leads(l, A, B), Leads(m, B, C)
  PROVE  Leads(l \o m, A, C)
<1>1. /\ l \in Seq(PinOps) /\ m \in Seq(PinOps)
      /\ A \in SUBSET Views /\ B \in SUBSET Views /\ C \in SUBSET Views
  BY DEF Leads
<1>2. PICK f \in [0 .. Len(l) -> SUBSET Views] : Course(l, f) /\ A \subseteq f[0] /\ f[Len(l)] \subseteq B
  BY DEF Leads
<1>3. PICK g \in [0 .. Len(m) -> SUBSET Views] : Course(m, g) /\ B \subseteq g[0] /\ g[Len(m)] \subseteq C
  BY DEF Leads
<1>. DEFINE n == Len(l)  q == Len(m)  lm == l \o m
            h == [j \in 0 .. n + q |-> IF j <= n THEN f[j] ELSE g[j - n]]
<1>4. n \in Nat /\ q \in Nat
  BY <1>1
<1>5. /\ lm \in Seq(PinOps) /\ Len(lm) = n + q
      /\ \A j \in 1 .. n : lm[j] = l[j]
      /\ \A j \in n + 1 .. n + q : lm[j] = m[j - n]
  BY <1>1, <1>4, ConcatProperties
<1>6. \A j \in 0 .. n : f[j] \in SUBSET Views
  BY <1>2
<1>7. \A j \in 0 .. q : g[j] \in SUBSET Views
  BY <1>3
<1>. HIDE DEF n, q, lm
<1>8. h \in [0 .. n + q -> SUBSET Views]
  BY <1>4, <1>6, <1>7
<1>9. /\ \A j \in 0 .. n : h[j] = f[j]
      /\ \A j \in n + 1 .. n + q : h[j] = g[j - n]
      /\ h[n + q] \subseteq C /\ A \subseteq h[0]
  <2>1. \A j \in 0 .. n : h[j] = f[j]
    BY <1>4
  <2>2. \A j \in n + 1 .. n + q : h[j] = g[j - n]
    BY <1>4
  <2>. HIDE DEF h
  <2>3. A \subseteq h[0]
    BY <1>2, <1>4, <2>1
  <2>4. h[n + q] \subseteq C
    <3>1. CASE q = 0
      <4>1. h[n + q] = f[n] /\ g[0] \subseteq C /\ f[n] \subseteq B /\ B \subseteq g[0]
        BY <3>1, <1>2, <1>3, <1>4, <2>1 DEF n, q
      <4>. QED BY <4>1
    <3>2. CASE q > 0
      <4>1. h[n + q] = g[q]
        BY <3>2, <1>4, <2>2
      <4>. QED BY <4>1, <1>3 DEF q
    <3>. QED BY <3>1, <3>2, <1>4
  <2>. QED BY <2>1, <2>2, <2>3, <2>4
<1>. HIDE DEF h
<1>10. ASSUME NEW j \in 1 .. n + q, NEW v \in h[j - 1], NEW w \in Views, Goes(v, lm[j], w)
       PROVE  w \in h[j] /\ Fits(w, lm[j].at)
  <2>1. CASE j <= n
    <3>1. j \in 1 .. n /\ j - 1 \in 0 .. n /\ j \in 0 .. n
      BY <2>1, <1>4
    <3>2. lm[j] = l[j] /\ h[j - 1] = f[j - 1] /\ h[j] = f[j]
      BY <3>1, <1>5, <1>9
    <3>. QED BY <3>1, <3>2, <1>2, <1>10 DEF Course, n
  <2>2. CASE j > n
    <3>. DEFINE i == j - n
    <3>1. i \in 1 .. q /\ j \in n + 1 .. n + q
      BY <2>2, <1>4
    <3>2. lm[j] = m[i] /\ h[j] = g[i]
      BY <3>1, <1>5, <1>9
    <3>3. v \in g[i - 1]
      <4>1. CASE i = 1
        <5>1. h[j - 1] = f[n] /\ g[i - 1] = g[0]
          BY <4>1, <1>4, <1>9
        <5>2. f[n] \subseteq B /\ B \subseteq g[0]
          BY <1>2, <1>3 DEF n
        <5>. QED BY <5>1, <5>2
      <4>2. CASE i > 1
        <5>1. j - 1 \in n + 1 .. n + q /\ (j - 1) - n = i - 1
          BY <4>2, <3>1, <1>4
        <5>. QED BY <5>1, <1>9
      <4>. QED BY <3>1, <4>1, <4>2, <1>4
    <3>. HIDE DEF i
    <3>. QED BY <3>1, <3>2, <3>3, <1>3, <1>10 DEF Course, q
  <2>. QED BY <2>1, <2>2, <1>4
<1>11. Course(lm, h)
  BY <1>5, <1>10 DEF Course
<1>12. Leads(lm, A, C)
  BY <1>1, <1>5, <1>8, <1>9, <1>11 DEF Leads
<1>. QED BY <1>12 DEF lm

LEMMA LeadsTimes ==
  ASSUME NEW A \in SUBSET Views, NEW op \in PinOps, NEW n \in Nat,
         \A v \in A, w \in Views : Goes(v, op, w) => w \in A /\ Fits(w, op.at)
  PROVE  Leads(Times(n, op), A, A)
<1>. DEFINE l == Times(n, op)  f == [j \in 0 .. n |-> A]
<1>1. l \in [1 .. n -> PinOps] /\ \A j \in 1 .. n : l[j] = op
  BY DEF Times
<1>. HIDE DEF l
<1>2. l \in Seq(PinOps) /\ Len(l) = n
  BY <1>1, OfLength
<1>3. f \in [0 .. n -> SUBSET Views] /\ \A j \in 0 .. n : f[j] = A
  OBVIOUS
<1>. HIDE DEF f
<1>4. Course(l, f)
  BY <1>1, <1>2, <1>3 DEF Course
<1>5. f[0] = A /\ f[n] = A
  BY <1>3
<1>6. Leads(l, A, A)
  BY <1>2, <1>3, <1>4, <1>5 DEF Leads
<1>. QED BY <1>6 DEF l

-------------------------------------------------------------------------------
(* The steps of the TAP                                                    *)

\* In step, in this state of the TAP and of the adapter, after a number of
\* clocks in Shift-DR that is in sh.
Here(two, fmt, tap, sh, ad) ==
  {v \in Views :
     /\ v.two = two /\ v.tck = 0
     /\ v.adapter \/ ~two => v.tap = tap /\ v.slot = 0
     /\ v.adapter => v.fmt = fmt /\ v.shifts \in sh /\ v.ad = ad
     /\ v.bench /\ ~two => v.mon = tap}

At(two, tap, sh, ad) == Here(two, FormatOf(two), tap, sh, ad)

LEMMA HereViews ==
  ASSUME NEW two, NEW fmt, NEW tap, NEW sh, NEW ad
  PROVE  Here(two, fmt, tap, sh, ad) \in SUBSET Views /\ At(two, tap, sh, ad) \in SUBSET Views
BY DEF Here, At

\* The operation is one clock from tap to next, with this effect on the adapter.
MayHop(two, tap, sh, ad, op, next, sh2, ad2) ==
  /\ two \in BOOLEAN /\ tap \in TapStates /\ tap # "EXIT2_DR"
  /\ op \in PinOps /\ ad.check = 0
  /\ op.kind \in {"packet", "bit"} \/ (op.kind = "raw" /\ ~two)
  /\ next = TapNext(tap, op.tms) /\ op.at \in {next, Unnamed}
  /\ \A n \in sh : /\ ShiftsAfter(tap, n) \in sh2
                    /\ Noted(ad, next, ShiftsAfter(tap, n), FormatOf(two)) = ad2

LEMMA HopStep ==
  ASSUME NEW two, NEW tap, NEW sh, NEW ad, NEW op, NEW next, NEW sh2, NEW ad2,
         MayHop(two, tap, sh, ad, op, next, sh2, ad2),
         NEW v \in At(two, tap, sh, ad), NEW w \in Views, Goes(v, op, w)
  PROVE  w \in At(two, next, sh2, ad2) /\ Fits(w, op.at)
<1>. USE DEF MayHop
<1>1. /\ v \in Views /\ v.two = two /\ v.tck = 0
      /\ v.adapter \/ ~two => v.tap = tap /\ v.slot = 0
      /\ v.adapter => v.fmt = FormatOf(two) /\ v.shifts \in sh /\ v.ad = ad
      /\ v.bench /\ ~two => v.mon = tap
  BY DEF At, Here
<1>2. /\ w.adapter = v.adapter /\ w.bench = v.bench /\ w.two = two /\ w.tck = 0
  BY <1>1 DEF Goes
<1>3. op.tms \in Bit /\ v.adapter \in BOOLEAN /\ v.bench \in BOOLEAN
  BY <1>1, OpTypes DEF Views
<1>4. CASE v.adapter \/ ~two
  <2>1. Clocks(v, op)
    BY <1>1, <1>4 DEF Clocks
  <2>2. /\ w.tap = next /\ w.fmt = v.fmt /\ w.slot = 0 /\ w.shifts = ShiftsAfter(v.tap, v.shifts)
        /\ w.ad = IF v.adapter THEN Noted(v.ad, w.tap, w.shifts, v.fmt) ELSE v.ad
    BY <1>1, <1>4, <2>1 DEF Goes
  <2>3. v.adapter => w.fmt = FormatOf(two) /\ w.shifts \in sh2 /\ w.ad = ad2
    BY <1>1, <1>4, <2>2
  <2>4. v.bench /\ ~two => w.mon = next
    <3>1. CASE v.bench /\ ~two
      <4>1. w.mon = MonitorNext(tap, op.tms)
        BY <3>1, <1>1 DEF Goes
      <4>. QED BY <4>1, <1>3, MonitorStates
    <3>. QED BY <3>1
  <2>5. ~v.adapter => w.fmt = "four_wire"
    BY <1>1, <2>2 DEF Views
  <2>6. w \in At(two, next, sh2, ad2)
    BY <1>2, <2>2, <2>3, <2>4 DEF At, Here
  <2>7. Fits(w, op.at)
    BY <1>2, <1>3, <2>2, <2>3, <2>4, <2>5, <1>4 DEF Fits, FormatOf
  <2>. QED BY <2>6, <2>7
<1>5. CASE ~v.adapter /\ two
  BY <1>2, <1>5 DEF At, Here, Fits
<1>. QED BY <1>3, <1>4, <1>5

\* One clock from a state of the TAP to the next.
LEMMA Hop ==
  ASSUME NEW two, NEW tap, NEW sh, NEW ad, NEW op, NEW next, NEW sh2, NEW ad2,
         MayHop(two, tap, sh, ad, op, next, sh2, ad2)
  PROVE  Leads(<<op>>, At(two, tap, sh, ad), At(two, next, sh2, ad2))
<1>. DEFINE A == At(two, tap, sh, ad)  B == At(two, next, sh2, ad2)
<1>1. A \in SUBSET Views /\ B \in SUBSET Views
  BY HereViews
<1>2. \A v \in A, w \in Views : Goes(v, op, w) => w \in B /\ Fits(w, op.at)
  BY HopStep
<1>. HIDE DEF A, B
<1>3. Leads(<<op>>, A, B)
  BY <1>1, <1>2, LeadsOne DEF MayHop
<1>. QED BY <1>3 DEF A, B

LEMMA TmsOps ==
  ASSUME NEW t \in Bit, NEW s \in TapStates \cup {Unnamed}
  PROVE  /\ Tms(t, s) \in PinOps /\ Tms(t, s).kind = "packet" /\ Tms(t, s).tms = t /\ Tms(t, s).at = s
         /\ Raw(t) \in PinOps /\ Raw(t).kind = "raw" /\ Raw(t).tms = t /\ Raw(t).at = Unnamed
<1>1. 0 \in Bit
  BY DEF Bit
<1>. QED BY <1>1 DEF Tms, Raw, Op, PinOps

\* The steps the adapter takes no notice of.
LEMMA QuietSteps ==
  ASSUME NEW two \in BOOLEAN, NEW sh, NEW ad, ad.check = 0
  PROVE  /\ Leads(jtag_idle_to_sld, At(two, "RUN_TEST_IDLE", sh, ad), At(two, "SELECT_DR_SCAN", sh, ad))
         /\ Leads(jtag_sld_to_cdr, At(two, "SELECT_DR_SCAN", sh, ad), At(two, "CAPTURE_DR", sh, ad))
         /\ Leads(jtag_udr_to_sld, At(two, "UPDATE_DR", sh, ad), At(two, "SELECT_DR_SCAN", sh, ad))
         /\ Leads(jtag_sli_to_cir, At(two, "SELECT_IR_SCAN", sh, ad), At(two, "CAPTURE_IR", sh, ad))
         /\ Leads(jtag_cir_to_sir, At(two, "CAPTURE_IR", sh, ad), At(two, "SHIFT_IR", sh, ad))
         /\ Leads(jtag_sir_to_e1i, At(two, "SHIFT_IR", sh, ad), At(two, "EXIT1_IR", sh, ad))
         /\ Leads(jtag_e1i_to_uir, At(two, "EXIT1_IR", sh, ad), At(two, "UPDATE_IR", sh, ad))
         /\ ad.ends = "none" =>
              /\ Leads(jtag_udr_to_idle, At(two, "UPDATE_DR", sh, ad), At(two, "RUN_TEST_IDLE", sh, ad))
              /\ Leads(jtag_uir_to_idle, At(two, "UPDATE_IR", sh, ad), At(two, "RUN_TEST_IDLE", sh, ad))
              /\ Leads(jtag_tlr_to_idle, At(two, "TEST_LOGIC_RESET", sh, ad), At(two, "RUN_TEST_IDLE", sh, ad))
<1>. USE States
<1>0. 0 \in Bit /\ 1 \in Bit
  BY DEF Bit
<1>1. Leads(jtag_idle_to_sld, At(two, "RUN_TEST_IDLE", sh, ad), At(two, "SELECT_DR_SCAN", sh, ad))
  <2>1. TapNext("RUN_TEST_IDLE", 1) = "SELECT_DR_SCAN"
    BY DEF TapNext, OnLow, OnHigh
  <2>2. MayHop(two, "RUN_TEST_IDLE", sh, ad, Tms(1, "SELECT_DR_SCAN"), "SELECT_DR_SCAN", sh, ad)
    BY <1>0, <2>1, TmsOps DEF MayHop, ShiftsAfter, Noted
  <2>. QED BY <2>2, Hop DEF jtag_idle_to_sld
<1>2. Leads(jtag_sld_to_cdr, At(two, "SELECT_DR_SCAN", sh, ad), At(two, "CAPTURE_DR", sh, ad))
  <2>1. TapNext("SELECT_DR_SCAN", 0) = "CAPTURE_DR"
    BY DEF TapNext, OnLow, OnHigh
  <2>2. MayHop(two, "SELECT_DR_SCAN", sh, ad, Tms(0, "CAPTURE_DR"), "CAPTURE_DR", sh, ad)
    BY <1>0, <2>1, TmsOps DEF MayHop, ShiftsAfter, Noted
  <2>. QED BY <2>2, Hop DEF jtag_sld_to_cdr
<1>3. Leads(jtag_udr_to_sld, At(two, "UPDATE_DR", sh, ad), At(two, "SELECT_DR_SCAN", sh, ad))
  <2>1. TapNext("UPDATE_DR", 1) = "SELECT_DR_SCAN"
    BY DEF TapNext, OnLow, OnHigh
  <2>2. MayHop(two, "UPDATE_DR", sh, ad, Tms(1, "SELECT_DR_SCAN"), "SELECT_DR_SCAN", sh, ad)
    BY <1>0, <2>1, TmsOps DEF MayHop, ShiftsAfter, Noted
  <2>. QED BY <2>2, Hop DEF jtag_udr_to_sld
<1>4. Leads(jtag_sli_to_cir, At(two, "SELECT_IR_SCAN", sh, ad), At(two, "CAPTURE_IR", sh, ad))
  <2>1. TapNext("SELECT_IR_SCAN", 0) = "CAPTURE_IR"
    BY DEF TapNext, OnLow, OnHigh
  <2>2. MayHop(two, "SELECT_IR_SCAN", sh, ad, Tms(0, "CAPTURE_IR"), "CAPTURE_IR", sh, ad)
    BY <1>0, <2>1, TmsOps DEF MayHop, ShiftsAfter, Noted
  <2>. QED BY <2>2, Hop DEF jtag_sli_to_cir
<1>5. Leads(jtag_cir_to_sir, At(two, "CAPTURE_IR", sh, ad), At(two, "SHIFT_IR", sh, ad))
  <2>1. TapNext("CAPTURE_IR", 0) = "SHIFT_IR"
    BY DEF TapNext, OnLow, OnHigh
  <2>2. MayHop(two, "CAPTURE_IR", sh, ad, Tms(0, "SHIFT_IR"), "SHIFT_IR", sh, ad)
    BY <1>0, <2>1, TmsOps DEF MayHop, ShiftsAfter, Noted
  <2>. QED BY <2>2, Hop DEF jtag_cir_to_sir
<1>6. Leads(jtag_sir_to_e1i, At(two, "SHIFT_IR", sh, ad), At(two, "EXIT1_IR", sh, ad))
  <2>1. TapNext("SHIFT_IR", 1) = "EXIT1_IR"
    BY DEF TapNext, OnLow, OnHigh
  <2>2. MayHop(two, "SHIFT_IR", sh, ad, Tms(1, "EXIT1_IR"), "EXIT1_IR", sh, ad)
    BY <1>0, <2>1, TmsOps DEF MayHop, ShiftsAfter, Noted
  <2>. QED BY <2>2, Hop DEF jtag_sir_to_e1i
<1>7. Leads(jtag_e1i_to_uir, At(two, "EXIT1_IR", sh, ad), At(two, "UPDATE_IR", sh, ad))
  <2>1. TapNext("EXIT1_IR", 1) = "UPDATE_IR"
    BY DEF TapNext, OnLow, OnHigh
  <2>2. MayHop(two, "EXIT1_IR", sh, ad, Tms(1, "UPDATE_IR"), "UPDATE_IR", sh, ad)
    BY <1>0, <2>1, TmsOps DEF MayHop, ShiftsAfter, Noted
  <2>. QED BY <2>2, Hop DEF jtag_e1i_to_uir
<1>8. ad.ends = "none" => Leads(jtag_udr_to_idle, At(two, "UPDATE_DR", sh, ad), At(two, "RUN_TEST_IDLE", sh, ad))
  <2>1. TapNext("UPDATE_DR", 0) = "RUN_TEST_IDLE"
    BY DEF TapNext, OnLow, OnHigh
  <2>2. ad.ends = "none" => MayHop(two, "UPDATE_DR", sh, ad, Tms(0, "RUN_TEST_IDLE"), "RUN_TEST_IDLE", sh, ad)
    BY <1>0, <2>1, TmsOps DEF MayHop, ShiftsAfter, Noted
  <2>. QED BY <2>2, Hop DEF jtag_udr_to_idle
<1>9. ad.ends = "none" => Leads(jtag_uir_to_idle, At(two, "UPDATE_IR", sh, ad), At(two, "RUN_TEST_IDLE", sh, ad))
  <2>1. TapNext("UPDATE_IR", 0) = "RUN_TEST_IDLE"
    BY DEF TapNext, OnLow, OnHigh
  <2>2. ad.ends = "none" => MayHop(two, "UPDATE_IR", sh, ad, Tms(0, "RUN_TEST_IDLE"), "RUN_TEST_IDLE", sh, ad)
    BY <1>0, <2>1, TmsOps DEF MayHop, ShiftsAfter, Noted
  <2>. QED BY <2>2, Hop DEF jtag_uir_to_idle
<1>10. ad.ends = "none" => Leads(jtag_tlr_to_idle, At(two, "TEST_LOGIC_RESET", sh, ad), At(two, "RUN_TEST_IDLE", sh, ad))
  <2>1. TapNext("TEST_LOGIC_RESET", 0) = "RUN_TEST_IDLE"
    BY DEF TapNext, OnLow, OnHigh
  <2>2. ad.ends = "none" => MayHop(two, "TEST_LOGIC_RESET", sh, ad, Tms(0, "RUN_TEST_IDLE"), "RUN_TEST_IDLE", sh, ad)
    BY <1>0, <2>1, TmsOps DEF MayHop, ShiftsAfter, Noted
  <2>. QED BY <2>2, Hop DEF jtag_tlr_to_idle
<1>. QED BY <1>1, <1>2, <1>3, <1>4, <1>5, <1>6, <1>7, <1>8, <1>9, <1>10

\* Capture-DR sets the clocks in Shift-DR back; Shift-DR counts them.
LEMMA CountedSteps ==
  ASSUME NEW two \in BOOLEAN, NEW sh, NEW ad, ad.check = 0, NEW n \in 0 .. 41
  PROVE  /\ Leads(jtag_cdr_to_sdr, At(two, "CAPTURE_DR", sh, ad), At(two, "SHIFT_DR", {0}, ad))
         /\ Leads(jtag_cdr_to_e1d, At(two, "CAPTURE_DR", sh, ad), At(two, "EXIT1_DR", {0}, ad))
         /\ Leads(jtag_sdr_to_e1d, At(two, "SHIFT_DR", {n}, ad), At(two, "EXIT1_DR", {n + 1}, ad))
<1>. USE States
<1>0. 0 \in Bit /\ 1 \in Bit
  BY DEF Bit
<1>1. /\ TapNext("CAPTURE_DR", 0) = "SHIFT_DR" /\ TapNext("CAPTURE_DR", 1) = "EXIT1_DR"
      /\ TapNext("SHIFT_DR", 1) = "EXIT1_DR"
  BY DEF TapNext, OnLow, OnHigh
<1>2. Leads(jtag_cdr_to_sdr, At(two, "CAPTURE_DR", sh, ad), At(two, "SHIFT_DR", {0}, ad))
  <2>1. MayHop(two, "CAPTURE_DR", sh, ad, Tms(0, "SHIFT_DR"), "SHIFT_DR", {0}, ad)
    BY <1>0, <1>1, TmsOps DEF MayHop, ShiftsAfter, Noted
  <2>. QED BY <2>1, Hop DEF jtag_cdr_to_sdr
<1>3. Leads(jtag_cdr_to_e1d, At(two, "CAPTURE_DR", sh, ad), At(two, "EXIT1_DR", {0}, ad))
  <2>1. MayHop(two, "CAPTURE_DR", sh, ad, Tms(1, "EXIT1_DR"), "EXIT1_DR", {0}, ad)
    BY <1>0, <1>1, TmsOps DEF MayHop, ShiftsAfter, Noted
  <2>. QED BY <2>1, Hop DEF jtag_cdr_to_e1d
<1>4. Leads(jtag_sdr_to_e1d, At(two, "SHIFT_DR", {n}, ad), At(two, "EXIT1_DR", {n + 1}, ad))
  <2>1. ShiftsAfter("SHIFT_DR", n) = n + 1
    BY ScanAssumption DEF ShiftsAfter, MaxShifts
  <2>2. MayHop(two, "SHIFT_DR", {n}, ad, Tms(1, "EXIT1_DR"), "EXIT1_DR", {n + 1}, ad)
    BY <1>0, <1>1, <2>1, TmsOps DEF MayHop, Noted
  <2>. QED BY <2>2, Hop DEF jtag_sdr_to_e1d
<1>. QED BY <1>2, <1>3, <1>4

\* What the adapter makes of a scan, and of the way to the instruction scan.
LEMMA NotedSteps ==
  ASSUME NEW two \in BOOLEAN, NEW sh, NEW ad \in Adapters, ad.check = 0
  PROVE  /\ \A n \in Nat : \A ad2 : ad2 = Noted(ad, "UPDATE_DR", n, FormatOf(two)) =>
              Leads(jtag_e1d_to_udr, At(two, "EXIT1_DR", {n}, ad), At(two, "UPDATE_DR", {n}, ad2))
         /\ Leads(jtag_sld_to_sli, At(two, "SELECT_DR_SCAN", sh, ad), At(two, "SELECT_IR_SCAN", sh, Plain))
         /\ \A ad2 : ad.ends # "none" /\ ad2 = Adapter(ad.zbs, ad.level, ad.part, ad.reading, ad.ends, 4) =>
              Leads(jtag_udr_to_idle, At(two, "UPDATE_DR", sh, ad), At(two, "RUN_TEST_IDLE", sh, ad2))
<1>. USE States
<1>0. 0 \in Bit /\ 1 \in Bit
  BY DEF Bit
<1>1. /\ TapNext("EXIT1_DR", 1) = "UPDATE_DR" /\ TapNext("SELECT_DR_SCAN", 1) = "SELECT_IR_SCAN"
      /\ TapNext("UPDATE_DR", 0) = "RUN_TEST_IDLE"
  BY DEF TapNext, OnLow, OnHigh
<1>2. ASSUME NEW n \in Nat, NEW ad2, ad2 = Noted(ad, "UPDATE_DR", n, FormatOf(two))
      PROVE  Leads(jtag_e1d_to_udr, At(two, "EXIT1_DR", {n}, ad), At(two, "UPDATE_DR", {n}, ad2))
  <2>1. ShiftsAfter("EXIT1_DR", n) = n
    BY DEF ShiftsAfter
  <2>2. MayHop(two, "EXIT1_DR", {n}, ad, Tms(1, "UPDATE_DR"), "UPDATE_DR", {n}, ad2)
    BY <1>0, <1>1, <1>2, <2>1, TmsOps DEF MayHop
  <2>. QED BY <2>2, Hop DEF jtag_e1d_to_udr
<1>3. Leads(jtag_sld_to_sli, At(two, "SELECT_DR_SCAN", sh, ad), At(two, "SELECT_IR_SCAN", sh, Plain))
  <2>1. \A n : Noted(ad, "SELECT_IR_SCAN", n, FormatOf(two)) = Plain
    BY DEF Noted, Plain, Adapters
  <2>2. MayHop(two, "SELECT_DR_SCAN", sh, ad, Tms(1, "SELECT_IR_SCAN"), "SELECT_IR_SCAN", sh, Plain)
    BY <1>0, <1>1, <2>1, TmsOps DEF MayHop, ShiftsAfter
  <2>. QED BY <2>2, Hop DEF jtag_sld_to_sli
<1>4. ASSUME NEW ad2, ad.ends # "none",
             ad2 = Adapter(ad.zbs, ad.level, ad.part, ad.reading, ad.ends, 4)
      PROVE  Leads(jtag_udr_to_idle, At(two, "UPDATE_DR", sh, ad), At(two, "RUN_TEST_IDLE", sh, ad2))
  <2>1. \A n : Noted(ad, "RUN_TEST_IDLE", n, FormatOf(two)) = ad2
    BY <1>4 DEF Noted, Adapter, Adapters
  <2>2. MayHop(two, "UPDATE_DR", sh, ad, Tms(0, "RUN_TEST_IDLE"), "RUN_TEST_IDLE", sh, ad2)
    BY <1>0, <1>1, <2>1, TmsOps DEF MayHop, ShiftsAfter
  <2>. QED BY <2>2, Hop DEF jtag_udr_to_idle
<1>. QED BY <1>2, <1>3, <1>4

-------------------------------------------------------------------------------
(* The functions                                                           *)

LEMMA ShiftCounts == \A n \in 0 .. 40 : ShiftsAfter("SHIFT_DR", n) = n + 1
BY ScanAssumption DEF ShiftsAfter, MaxShifts

LEMMA Pair ==
  ASSUME NEW a \in PinOps, NEW b \in PinOps
  PROVE  <<a, b>> = <<a>> \o <<b>>
<1>. DEFINE l == <<a>>  m == <<b>>
<1>1. l \in Seq(PinOps) /\ m \in Seq(PinOps) /\ Len(l) = 1 /\ Len(m) = 1 /\ l[1] = a /\ m[1] = b
  OBVIOUS
<1>. HIDE DEF l, m
<1>2. /\ l \o m \in Seq(PinOps) /\ Len(l \o m) = 2
      /\ (l \o m)[1] = a /\ (l \o m)[2] = b
  BY <1>1, ConcatProperties
<1>3. <<a, b>> \in Seq(PinOps) /\ Len(<<a, b>>) = 2 /\ <<a, b>>[1] = a /\ <<a, b>>[2] = b
  OBVIOUS
<1>4. \A j \in 1 .. 2 : <<a, b>>[j] = (l \o m)[j]
  BY <1>2, <1>3
<1>5. <<a, b>> = l \o m
  BY <1>2, <1>3, <1>4, SeqEqual
<1>. QED BY <1>5 DEF l, m

\* A scan is shifted through.
LEMMA Shifting ==
  ASSUME NEW two \in BOOLEAN, NEW ad, ad.check = 0, NEW n \in Nat, n \in 1 .. 41,
         NEW l \in [1 .. n -> PinOps],
         \A j \in 1 .. n : /\ l[j].kind \in {"packet", "bit"}
                           /\ l[j].tms = IF j < n THEN 0 ELSE 1
                           /\ l[j].at = IF j < n THEN "SHIFT_DR" ELSE "EXIT1_DR"
  PROVE  Leads(l, At(two, "SHIFT_DR", {0}, ad), At(two, "EXIT1_DR", {n}, ad))
<1>. DEFINE In(j) == At(two, "SHIFT_DR", {j}, ad)
            Out == At(two, "EXIT1_DR", {n}, ad)
            f == [j \in 0 .. n |-> IF j < n THEN In(j) ELSE Out]
<1>1. (\A j : In(j) \in SUBSET Views) /\ Out \in SUBSET Views
  BY HereViews
<1>2. /\ TapNext("SHIFT_DR", 0) = "SHIFT_DR" /\ TapNext("SHIFT_DR", 1) = "EXIT1_DR"
      /\ "SHIFT_DR" \in TapStates /\ 0 \in Bit /\ 1 \in Bit
  BY States DEF TapNext, OnLow, OnHigh, Bit
<1>3. ASSUME NEW j \in 1 .. n, NEW v \in In(j - 1), NEW w \in Views, Goes(v, l[j], w)
      PROVE  w \in (IF j < n THEN In(j) ELSE Out) /\ Fits(w, l[j].at)
  <2>1. ShiftsAfter("SHIFT_DR", j - 1) = j
    <3>1. j - 1 \in 0 .. 40 /\ (j - 1) + 1 = j
      OBVIOUS
    <3>. QED BY <3>1, ShiftCounts
  <2>2. l[j] \in PinOps
    OBVIOUS
  <2>3. CASE j < n
    <3>1. MayHop(two, "SHIFT_DR", {j - 1}, ad, l[j], "SHIFT_DR", {j}, ad)
      BY <1>2, <2>1, <2>2, <2>3 DEF MayHop, Noted
    <3>. QED BY <1>3, <2>3, <3>1, HopStep
  <2>4. CASE j = n
    <3>1. MayHop(two, "SHIFT_DR", {j - 1}, ad, l[j], "EXIT1_DR", {n}, ad)
      BY <1>2, <2>1, <2>2, <2>4 DEF MayHop, Noted
    <3>. QED BY <1>3, <2>4, <3>1, HopStep
  <2>. QED BY <2>3, <2>4
<1>. HIDE DEF In, Out
<1>4. l \in Seq(PinOps) /\ Len(l) = n
  BY OfLength
<1>5. f \in [0 .. n -> SUBSET Views]
  BY <1>1
<1>6. f[0] = In(0) /\ f[n] = Out
  OBVIOUS
<1>7. \A j \in 1 .. n : f[j - 1] = In(j - 1) /\ f[j] = IF j < n THEN In(j) ELSE Out
  OBVIOUS
<1>. HIDE DEF f
<1>8. Course(l, f)
  BY <1>3, <1>4, <1>7 DEF Course
<1>9. Leads(l, In(0), Out)
  BY <1>1, <1>4, <1>5, <1>6, <1>8 DEF Leads
<1>. QED BY <1>9 DEF In, Out

LEMMA ShiftTimes ==
  ASSUME NEW two \in BOOLEAN, NEW ad, ad.check = 0, NEW n \in Nat, n \in 0 .. 41
  PROVE  Leads(Times(n, jtag_sdr_to_sdr[1]), At(two, "SHIFT_DR", {0}, ad), At(two, "SHIFT_DR", {n}, ad))
<1>. DEFINE In(j) == At(two, "SHIFT_DR", {j}, ad)
            op == Tms(0, "SHIFT_DR")
            l == Times(n, op)
            f == [j \in 0 .. n |-> In(j)]
<1>1. \A j : In(j) \in SUBSET Views
  BY HereViews
<1>2. TapNext("SHIFT_DR", 0) = "SHIFT_DR" /\ "SHIFT_DR" \in TapStates /\ 0 \in Bit
  BY States DEF TapNext, OnLow, OnHigh, Bit
<1>3. ASSUME NEW j \in 1 .. n, NEW v \in In(j - 1), NEW w \in Views, Goes(v, op, w)
      PROVE  w \in In(j) /\ Fits(w, op.at)
  <2>1. ShiftsAfter("SHIFT_DR", j - 1) = j
    BY ScanAssumption DEF ShiftsAfter, MaxShifts
  <2>2. MayHop(two, "SHIFT_DR", {j - 1}, ad, op, "SHIFT_DR", {j}, ad)
    BY <1>2, <2>1, TmsOps DEF MayHop, Noted
  <2>. QED BY <1>3, <2>2, HopStep
<1>4. op \in PinOps
  BY <1>2, TmsOps
<1>5. jtag_sdr_to_sdr[1] = op
  BY DEF jtag_sdr_to_sdr
<1>. HIDE DEF In, op
<1>6. l \in [1 .. n -> PinOps] /\ \A j \in 1 .. n : l[j] = op
  BY <1>4 DEF Times
<1>. HIDE DEF l
<1>7. l \in Seq(PinOps) /\ Len(l) = n
  BY <1>6, OfLength
<1>8. f \in [0 .. n -> SUBSET Views] /\ f[0] = In(0) /\ f[n] = In(n)
  BY <1>1
<1>9. \A j \in 1 .. n : f[j - 1] = In(j - 1) /\ f[j] = In(j)
  OBVIOUS
<1>. HIDE DEF f
<1>10. Course(l, f)
  BY <1>3, <1>6, <1>7, <1>9 DEF Course
<1>11. Leads(l, In(0), In(n))
  BY <1>1, <1>7, <1>8, <1>10 DEF Leads
<1>. QED BY <1>5, <1>11 DEF l, In

LEMMA TdiBits ==
  ASSUME NEW p, PartsOK(p), NEW j \in 1 .. 41
  PROVE  TdiBit(p, j) \in Bit
<1>1. p.low \in [1 .. 2 -> Bit] /\ p.mid \in [1 .. 32 -> Bit] /\ p.high \in [1 .. 7 -> Bit]
  BY DEF PartsOK
<1>2. CASE j <= 2
  BY <1>1, <1>2 DEF TdiBit
<1>3. CASE j \in 3 .. 34
  <2>1. j - 2 \in 1 .. 32 /\ ~(j <= 2)
    BY <1>3
  <2>. QED BY <1>1, <1>3, <2>1 DEF TdiBit
<1>4. CASE j > 34
  <2>1. j - 34 \in 1 .. 7 /\ ~(j <= 2) /\ j \notin 3 .. 34
    BY <1>4
  <2>. QED BY <1>1, <2>1 DEF TdiBit
<1>. QED BY <1>2, <1>3, <1>4

LEMMA BitOps ==
  ASSUME NEW kind \in {"packet", "bit"}, NEW t \in Bit, NEW d \in Bit, NEW s \in TapStates
  PROVE  LET op == Op(kind, t, d, s) IN
         op \in PinOps /\ op.kind = kind /\ op.tms = t /\ op.tdi = d /\ op.at = s
BY DEF Op, PinOps

LEMMA SendDr ==
  ASSUME NEW two \in BOOLEAN, NEW ad, ad.check = 0, NEW p, PartsOK(p), NEW n \in Nat, n \in 1 .. 41
  PROVE  /\ Leads(send_dr(p, n), At(two, "SHIFT_DR", {0}, ad), At(two, "EXIT1_DR", {n}, ad))
         /\ send_dr(p, n) \in [1 .. n -> PinOps]
<1>. DEFINE l == send_dr(p, n)
<1>1. "SHIFT_DR" \in TapStates /\ "EXIT1_DR" \in TapStates /\ 0 \in Bit /\ 1 \in Bit
  BY States DEF Bit
<1>2. ASSUME NEW j \in 1 .. n
      PROVE  /\ l[j] \in PinOps /\ l[j].kind \in {"packet", "bit"}
             /\ l[j].tms = IF j < n THEN 0 ELSE 1
             /\ l[j].at = IF j < n THEN "SHIFT_DR" ELSE "EXIT1_DR"
  <2>1. TdiBit(p, j) \in Bit
    BY TdiBits
  <2>2. l[j] = IF j < n THEN Op("bit", 0, TdiBit(p, j), "SHIFT_DR") ELSE Op("bit", 1, TdiBit(p, j), "EXIT1_DR")
    BY DEF send_dr
  <2>. HIDE DEF l
  <2>. QED BY <1>1, <2>1, <2>2, BitOps
<1>3. l = [j \in 1 .. n |-> l[j]]
  BY DEF send_dr
<1>. HIDE DEF l
<1>4. l \in [1 .. n -> PinOps]
  BY <1>2, <1>3
<1>5. Leads(l, At(two, "SHIFT_DR", {0}, ad), At(two, "EXIT1_DR", {n}, ad))
  BY <1>2, <1>4, Shifting
<1>. QED BY <1>4, <1>5 DEF l

LEMMA SendIr ==
  ASSUME NEW two \in BOOLEAN, NEW sh, NEW ad, ad.check = 0, NEW code \in [1 .. 5 -> Bit]
  PROVE  Leads(send_ir(code), At(two, "SHIFT_IR", sh, ad), At(two, "EXIT1_IR", sh, ad))
<1>. DEFINE l == send_ir(code)
            In == At(two, "SHIFT_IR", sh, ad)
            Out == At(two, "EXIT1_IR", sh, ad)
<1>1. /\ TapNext("SHIFT_IR", 0) = "SHIFT_IR" /\ TapNext("SHIFT_IR", 1) = "EXIT1_IR"
      /\ "SHIFT_IR" \in TapStates /\ "EXIT1_IR" \in TapStates /\ 0 \in Bit /\ 1 \in Bit
  BY States DEF TapNext, OnLow, OnHigh, Bit
<1>2. PICK n \in Nat : n = 5
  OBVIOUS
<1>3. ASSUME NEW j \in 1 .. n
      PROVE  /\ l[j] \in PinOps /\ l[j].kind = "packet"
             /\ l[j].tms = IF j < n THEN 0 ELSE 1
             /\ l[j].at = IF j < n THEN "SHIFT_IR" ELSE "EXIT1_IR"
  <2>1. code[j] \in Bit /\ j \in 1 .. 5
    BY <1>2
  <2>2. l[j] = IF j < n THEN Op("packet", 0, code[j], "SHIFT_IR") ELSE Op("packet", 1, code[j], "EXIT1_IR")
    BY <1>2, <2>1 DEF send_ir
  <2>. HIDE DEF l
  <2>. QED BY <1>1, <2>1, <2>2, BitOps
<1>4. l = [j \in 1 .. n |-> l[j]]
  BY <1>2 DEF send_ir
<1>5. In \in SUBSET Views /\ Out \in SUBSET Views
  BY HereViews
<1>6. ASSUME NEW j \in 1 .. n, NEW v \in In, NEW w \in Views, Goes(v, l[j], w)
      PROVE  w \in (IF j < n THEN In ELSE Out) /\ Fits(w, l[j].at)
  <2>. HIDE DEF l
  <2>1. CASE j < n
    <3>1. MayHop(two, "SHIFT_IR", sh, ad, l[j], "SHIFT_IR", sh, ad)
      BY <1>1, <1>3, <2>1 DEF MayHop, Noted, ShiftsAfter
    <3>. QED BY <1>6, <2>1, <3>1, HopStep
  <2>2. CASE j = n
    <3>1. MayHop(two, "SHIFT_IR", sh, ad, l[j], "EXIT1_IR", sh, ad)
      BY <1>1, <1>3, <2>2 DEF MayHop, Noted, ShiftsAfter
    <3>. QED BY <1>6, <2>2, <3>1, HopStep
  <2>. QED BY <2>1, <2>2
<1>. HIDE DEF l, In, Out
<1>7. l \in [1 .. n -> PinOps]
  BY <1>3, <1>4
<1>8. l \in Seq(PinOps) /\ Len(l) = n
  BY <1>7, OfLength
<1>. DEFINE f == [j \in 0 .. n |-> IF j < n THEN In ELSE Out]
<1>9. f \in [0 .. n -> SUBSET Views] /\ f[0] = In /\ f[n] = Out
  BY <1>2, <1>5
<1>10. \A j \in 1 .. n : f[j - 1] = In /\ f[j] = IF j < n THEN In ELSE Out
  OBVIOUS
<1>. HIDE DEF f
<1>11. Course(l, f)
  BY <1>6, <1>8, <1>10 DEF Course
<1>12. Leads(l, In, Out)
  BY <1>5, <1>8, <1>9, <1>11 DEF Leads
<1>. QED BY <1>12 DEF l, In, Out

\* A scan of n clocks, from Select-DR to Update-DR.
LEMMA DrScan ==
  ASSUME NEW two \in BOOLEAN, NEW sh, NEW ad \in Adapters, ad.check = 0, NEW n \in Nat, n \in 0 .. 41,
         NEW ad2, ad2 = Noted(ad, "UPDATE_DR", n, FormatOf(two))
  PROVE  Leads(dr_scan(n), At(two, "SELECT_DR_SCAN", sh, ad), At(two, "UPDATE_DR", {n}, ad2))
<1>. DEFINE way == IF n = 0 THEN jtag_cdr_to_e1d
                   ELSE jtag_cdr_to_sdr \o Times(n - 1, jtag_sdr_to_sdr[1]) \o jtag_sdr_to_e1d
<1>1. Leads(way, At(two, "CAPTURE_DR", sh, ad), At(two, "EXIT1_DR", {n}, ad))
  <2>1. CASE n = 0
    <3>1. Leads(jtag_cdr_to_e1d, At(two, "CAPTURE_DR", sh, ad), At(two, "EXIT1_DR", {0}, ad))
      BY CountedSteps
    <3>. QED BY <2>1, <3>1
  <2>2. CASE n # 0
    <3>1. PICK m \in Nat : m = n - 1 /\ m \in 0 .. 41 /\ m + 1 = n /\ m \in 0 .. 40
      BY <2>2
    <3>2. Leads(jtag_cdr_to_sdr, At(two, "CAPTURE_DR", sh, ad), At(two, "SHIFT_DR", {0}, ad))
      BY CountedSteps
    <3>3. Leads(Times(m, jtag_sdr_to_sdr[1]), At(two, "SHIFT_DR", {0}, ad), At(two, "SHIFT_DR", {m}, ad))
      BY <3>1, ShiftTimes
    <3>4. Leads(jtag_sdr_to_e1d, At(two, "SHIFT_DR", {m}, ad), At(two, "EXIT1_DR", {m + 1}, ad))
      BY <3>1, CountedSteps
    <3>5. Leads(jtag_cdr_to_sdr \o Times(m, jtag_sdr_to_sdr[1]), At(two, "CAPTURE_DR", sh, ad), At(two, "SHIFT_DR", {m}, ad))
      BY <3>2, <3>3, LeadsJoin
    <3>6. Leads(jtag_cdr_to_sdr \o Times(m, jtag_sdr_to_sdr[1]) \o jtag_sdr_to_e1d,
                At(two, "CAPTURE_DR", sh, ad), At(two, "EXIT1_DR", {m + 1}, ad))
      BY <3>4, <3>5, LeadsJoin
    <3>. QED BY <2>2, <3>1, <3>6
  <2>. QED BY <2>1, <2>2
<1>. HIDE DEF way
<1>2. Leads(jtag_sld_to_cdr, At(two, "SELECT_DR_SCAN", sh, ad), At(two, "CAPTURE_DR", sh, ad))
  BY QuietSteps
<1>3. Leads(jtag_sld_to_cdr \o way, At(two, "SELECT_DR_SCAN", sh, ad), At(two, "EXIT1_DR", {n}, ad))
  BY <1>1, <1>2, LeadsJoin
<1>4. Leads(jtag_e1d_to_udr, At(two, "EXIT1_DR", {n}, ad), At(two, "UPDATE_DR", {n}, ad2))
  BY NotedSteps
<1>5. Leads(jtag_sld_to_cdr \o way \o jtag_e1d_to_udr,
            At(two, "SELECT_DR_SCAN", sh, ad), At(two, "UPDATE_DR", {n}, ad2))
  BY <1>3, <1>4, LeadsJoin
<1>. QED BY <1>5 DEF dr_scan, way

-------------------------------------------------------------------------------
(* The reset                                                               *)

\* Clocks with TMS high that are left to Test-Logic-Reset.
Highs(s) ==
  CASE s = "TEST_LOGIC_RESET" -> 0
    [] s = "SELECT_IR_SCAN" -> 1
    [] s = "SELECT_DR_SCAN" -> 2
    [] s \in {"RUN_TEST_IDLE", "UPDATE_DR", "UPDATE_IR"} -> 3
    [] s \in {"EXIT1_DR", "EXIT2_DR", "EXIT1_IR", "EXIT2_IR"} -> 4
    [] OTHER -> 5

\* At most n clocks are left, with four wires.
Rising(n) ==
  {v \in Views :
     /\ v.two = FALSE /\ v.tck = 0
     /\ v.adapter => v.fmt = "four_wire" /\ v.slot = 0 /\ v.ad.check = 0
     /\ v.adapter /\ n = 0 => v.ad = Plain
     /\ Highs(v.tap) <= n
     /\ v.bench => Highs(v.mon) <= n}

LEMMA HighsCounted ==
  ASSUME NEW s \in TapStates
  PROVE  /\ Highs(s) \in 0 .. 5
         /\ Highs(TapNext(s, 1)) = IF Highs(s) = 0 THEN 0 ELSE Highs(s) - 1
         /\ Highs(MonitorNext(s, 1)) = IF Highs(s) = 0 THEN 0 ELSE Highs(s) - 1
         /\ (Highs(s) = 0 => s = "TEST_LOGIC_RESET")
         /\ TapNext(s, 1) # "RUN_TEST_IDLE"
<1>1. TapNext(s, 1) = OnHigh[s] /\ MonitorNext(s, 1) = OnHigh[s]
  BY States DEF TapNext, MonitorNext, MonitorHigh, OnHigh
<1>2. /\ Highs(s) \in 0 .. 5
      /\ (Highs(s) = 0 => s = "TEST_LOGIC_RESET")
  BY States DEF Highs
<1>3. /\ Highs(OnHigh[s]) = IF Highs(s) = 0 THEN 0 ELSE Highs(s) - 1
      /\ OnHigh[s] # "RUN_TEST_IDLE"
  BY States DEF Highs, OnHigh
<1>. QED BY <1>1, <1>2, <1>3

LEMMA RisingIdle ==
  /\ Rising(0) = At(FALSE, "TEST_LOGIC_RESET", Nat, Plain)
  /\ At(FALSE, "RUN_TEST_IDLE", Nat, Plain) \subseteq Rising(5)
<1>1. ASSUME NEW v \in Views
      PROVE  v \in Rising(0) <=> v \in At(FALSE, "TEST_LOGIC_RESET", Nat, Plain)
  <2>1. /\ v.tap \in TapStates /\ v.mon \in TapStates /\ v.shifts \in Nat
        /\ ~v.adapter => v.slot = 0
        /\ v.adapter \in BOOLEAN /\ v.bench \in BOOLEAN
    BY DEF Views
  <2>2. /\ Highs(v.tap) <= 0 <=> v.tap = "TEST_LOGIC_RESET"
        /\ Highs(v.mon) <= 0 <=> v.mon = "TEST_LOGIC_RESET"
    <3>1. \A s \in TapStates : Highs(s) <= 0 <=> s = "TEST_LOGIC_RESET"
      BY States DEF Highs
    <3>. QED BY <2>1, <3>1
  <2>3. Plain.check = 0
    BY DEF Plain
  <2>. QED BY <2>1, <2>2, <2>3 DEF Rising, At, Here, FormatOf
<1>2. ASSUME NEW v \in At(FALSE, "RUN_TEST_IDLE", Nat, Plain)
      PROVE  v \in Rising(5)
  <2>1. Highs("RUN_TEST_IDLE") <= 5 /\ Plain.check = 0
    BY DEF Highs, Plain
  <2>. QED BY <1>2, <2>1 DEF Rising, At, Here, FormatOf
<1>3. Rising(0) \subseteq Views /\ At(FALSE, "TEST_LOGIC_RESET", Nat, Plain) \subseteq Views
  BY DEF Rising, At, Here
<1>. QED BY <1>1, <1>2, <1>3

LEMMA RiseOnce ==
  ASSUME NEW n \in Nat, NEW v \in Rising(n), NEW op \in PinOps, op.kind \in {"packet", "raw"}, op.tms = 1,
         NEW w \in Views, Goes(v, op, w), NEW m \in Nat, m = IF n = 0 THEN 0 ELSE n - 1
  PROVE  w \in Rising(m)
<1>1. /\ v \in Views /\ v.two = FALSE /\ v.tck = 0
      /\ v.adapter => v.fmt = "four_wire" /\ v.slot = 0 /\ v.ad.check = 0
      /\ v.adapter /\ n = 0 => v.ad = Plain
      /\ Highs(v.tap) <= n
      /\ v.bench => Highs(v.mon) <= n
  BY DEF Rising
<1>2. v.tap \in TapStates /\ v.mon \in TapStates /\ v.adapter \in BOOLEAN /\ v.ad \in Adapters
  BY <1>1 DEF Views
<1>3. Clocks(v, op)
  BY <1>1 DEF Clocks, FormatOf
<1>4. /\ w.adapter = v.adapter /\ w.bench = v.bench /\ w.two = FALSE /\ w.tck = 0
      /\ w.tap = TapNext(v.tap, 1) /\ w.fmt = v.fmt /\ w.slot = v.slot
      /\ w.ad = IF v.adapter THEN Noted(v.ad, w.tap, w.shifts, v.fmt) ELSE v.ad
      /\ v.bench => w.mon = MonitorNext(v.mon, 1)
  BY <1>1, <1>3 DEF Goes
<1>5. Highs(w.tap) <= m
  <2>1. Highs(v.tap) \in 0 .. 5 /\ Highs(w.tap) = IF Highs(v.tap) = 0 THEN 0 ELSE Highs(v.tap) - 1
    BY <1>2, <1>4, HighsCounted
  <2>. QED BY <1>1, <2>1
<1>6. v.bench => Highs(w.mon) <= m
  <2>1. CASE v.bench
    <3>1. Highs(v.mon) \in 0 .. 5 /\ Highs(w.mon) = IF Highs(v.mon) = 0 THEN 0 ELSE Highs(v.mon) - 1
      BY <2>1, <1>2, <1>4, HighsCounted
    <3>. QED BY <1>1, <2>1, <3>1
  <2>. QED BY <2>1
<1>7. v.adapter => w.ad.check = 0
  <2>1. w.tap # "RUN_TEST_IDLE"
    BY <1>2, <1>4, HighsCounted
  <2>2. \A t, j, f : t # "RUN_TEST_IDLE" => Noted(v.ad, t, j, f).check = v.ad.check
    BY <1>2 DEF Noted, Adapters
  <2>. QED BY <1>1, <1>4, <2>1, <2>2
<1>8. v.adapter /\ m = 0 => w.ad = Plain
  <2>1. w.tap \in TapStates
    BY DEF Views
  <2>2. m = 0 => w.tap = "TEST_LOGIC_RESET"
    BY <1>5, <2>1, HighsCounted
  <2>3. \A j, f : v.ad.check = 0 => Noted(v.ad, "TEST_LOGIC_RESET", j, f) = Plain
    BY <1>2 DEF Noted, Adapters, Plain
  <2>. QED BY <1>1, <1>4, <2>2, <2>3
<1>. QED BY <1>1, <1>4, <1>5, <1>6, <1>7, <1>8 DEF Rising

LEMMA RiseTimes ==
  ASSUME NEW n \in Nat, NEW m \in Nat, NEW op \in PinOps, op.kind \in {"packet", "raw"}, op.tms = 1,
         op.at = Unnamed, NEW d \in Nat, d = IF m < n THEN n - m ELSE 0
  PROVE  Leads(Times(m, op), Rising(n), Rising(d))
<1>. DEFINE l == Times(m, op)
            In(j) == Rising(IF j < n THEN n - j ELSE 0)
            f == [j \in 0 .. m |-> In(j)]
<1>1. \A j : In(j) \in SUBSET Views
  BY DEF Rising
<1>2. ASSUME NEW j \in 1 .. m, NEW v \in In(j - 1), NEW w \in Views, Goes(v, op, w)
      PROVE  w \in In(j) /\ Fits(w, op.at)
  <2>1. PICK a \in Nat : a = IF j - 1 < n THEN n - (j - 1) ELSE 0
    OBVIOUS
  <2>2. PICK b \in Nat : b = IF j < n THEN n - j ELSE 0
    OBVIOUS
  <2>3. b = IF a = 0 THEN 0 ELSE a - 1
    BY <2>1, <2>2
  <2>4. v \in Rising(a)
    BY <1>2, <2>1
  <2>5. w \in Rising(b)
    BY <1>2, <2>3, <2>4, RiseOnce
  <2>. QED BY <2>2, <2>5 DEF Fits
<1>. HIDE DEF In
<1>3. l \in [1 .. m -> PinOps] /\ \A j \in 1 .. m : l[j] = op
  BY DEF Times
<1>. HIDE DEF l
<1>4. l \in Seq(PinOps) /\ Len(l) = m
  BY <1>3, OfLength
<1>5. f \in [0 .. m -> SUBSET Views] /\ f[0] = In(0) /\ f[m] = In(m)
  BY <1>1
<1>6. \A j \in 1 .. m : f[j - 1] = In(j - 1) /\ f[j] = In(j)
  OBVIOUS
<1>. HIDE DEF f
<1>7. Course(l, f)
  BY <1>2, <1>3, <1>4, <1>6 DEF Course
<1>8. Leads(l, In(0), In(m))
  BY <1>1, <1>4, <1>5, <1>7 DEF Leads
<1>9. In(0) = Rising(n) /\ In(m) = Rising(d)
  <2>1. n = IF 0 < n THEN n - 0 ELSE 0
    OBVIOUS
  <2>. QED BY <2>1 DEF In
<1>. QED BY <1>8, <1>9 DEF l

\* The reset of the driver with four wires, and of the bench.
LEMMA ResetLeads ==
  ASSUME NEW s \in {<<"C", 4>>, <<"SV", 2>>}
  PROVE  Leads(jtag_reset(s), Rising(5), At(FALSE, "RUN_TEST_IDLE", Nat, Plain))
<1>. DEFINE up == Tms(1, Unnamed)
            last == Tms(1, "TEST_LOGIC_RESET")
            idle == Tms(0, "RUN_TEST_IDLE")
<1>1. /\ "TEST_LOGIC_RESET" \in TapStates /\ "RUN_TEST_IDLE" \in TapStates /\ 0 \in Bit /\ 1 \in Bit
  BY States DEF Bit
<1>2. /\ up \in PinOps /\ up.kind = "packet" /\ up.tms = 1 /\ up.at = Unnamed
      /\ last \in PinOps /\ last.kind = "packet" /\ last.tms = 1 /\ last.at = "TEST_LOGIC_RESET"
      /\ idle \in PinOps
  BY <1>1, TmsOps
<1>3. Leads(<<idle>>, At(FALSE, "TEST_LOGIC_RESET", Nat, Plain), At(FALSE, "RUN_TEST_IDLE", Nat, Plain))
  <2>1. Plain.check = 0 /\ Plain.ends = "none"
    BY DEF Plain
  <2>. QED BY <2>1, QuietSteps DEF jtag_tlr_to_idle
<1>. HIDE DEF up, last, idle
<1>4. Leads(Times(4, up), Rising(5), Rising(1))
  <2>1. PICK n \in Nat : n = 5
    OBVIOUS
  <2>2. PICK m \in Nat : m = 4
    OBVIOUS
  <2>3. PICK d \in Nat : d = 1
    OBVIOUS
  <2>4. Leads(Times(m, up), Rising(n), Rising(d))
    BY <1>2, <2>1, <2>2, <2>3, RiseTimes
  <2>. QED BY <2>1, <2>2, <2>3, <2>4
<1>5. Leads(<<last>>, Rising(1), At(FALSE, "TEST_LOGIC_RESET", Nat, Plain))
  <2>. DEFINE A == Rising(1)  B == At(FALSE, "TEST_LOGIC_RESET", Nat, Plain)
  <2>1. A \in SUBSET Views /\ B \in SUBSET Views
    BY HereViews DEF Rising
  <2>2. ASSUME NEW v \in A, NEW w \in Views, Goes(v, last, w)
        PROVE  w \in B /\ Fits(w, last.at)
    <3>1. PICK n \in Nat : n = 1
      OBVIOUS
    <3>2. PICK m \in Nat : m = 0
      OBVIOUS
    <3>3. w \in Rising(m)
      BY <1>2, <2>2, <3>1, <3>2, RiseOnce
    <3>4. w \in B
      BY <3>2, <3>3, RisingIdle
    <3>5. w.adapter \/ ~w.two => w.fmt = "four_wire"
      BY <3>4 DEF At, Here, FormatOf, Views
    <3>. QED BY <1>2, <3>4, <3>5 DEF Fits, At, Here, FormatOf
  <2>. HIDE DEF A, B
  <2>3. Leads(<<last>>, A, B)
    BY <1>2, <2>1, <2>2, LeadsOne
  <2>. QED BY <2>3 DEF A, B
<1>6. <<last, idle>> = <<last>> \o <<idle>>
  BY <1>2, Pair
<1>7. Leads(<<last, idle>>, Rising(1), At(FALSE, "RUN_TEST_IDLE", Nat, Plain))
  BY <1>3, <1>5, <1>6, LeadsJoin
<1>8. Leads(Times(4, up) \o <<last, idle>>, Rising(5), At(FALSE, "RUN_TEST_IDLE", Nat, Plain))
  BY <1>4, <1>7, LeadsJoin
<1>9. jtag_reset(s) = Times(4, up) \o <<last, idle>>
  BY DEF jtag_reset, up, last, idle
<1>. QED BY <1>8, <1>9

\* The port with two wires does not know what its reset meets: anything, before
\* the escape.
Blind == {v \in Views : ~v.bench /\ v.two = FALSE}

Escaping(s) == Op("escape", 0, IF s[1] = "C" THEN 15 ELSE 16, Unnamed)
ToFour == Op("mode", 0, 0, Unnamed)
ToTwo == Op("mode", 1, 0, "RUN_TEST_IDLE")

LEMMA OtherOps ==
  /\ ToFour \in PinOps /\ ToFour.kind = "mode" /\ ToFour.tms = 0 /\ ToFour.at = Unnamed
  /\ ToTwo \in PinOps /\ ToTwo.kind = "mode" /\ ToTwo.tms = 1 /\ ToTwo.at = "RUN_TEST_IDLE"
  /\ \A s : LET op == Escaping(s) IN
       op \in PinOps /\ op.kind = "escape" /\ op.tms = 0 /\ op.at = Unnamed
  /\ LET op == Op("high", 0, 0, Unnamed) IN op \in PinOps /\ op.kind = "high" /\ op.at = Unnamed
<1>1. 0 \in Bit /\ 1 \in Bit /\ "RUN_TEST_IDLE" \in TapStates
  BY States DEF Bit
<1>2. \A s : Escaping(s) \in PinOps
  <2>1. ASSUME NEW s PROVE Escaping(s) \in PinOps
    <3>1. (IF s[1] = "C" THEN 15 ELSE 16) \in {15, 16} /\ 0 \in {0}
      OBVIOUS
    <3>. QED BY <3>1 DEF Escaping, Op, PinOps
  <2>. QED BY <2>1
<1>3. \A s : Escaping(s).kind = "escape" /\ Escaping(s).tms = 0 /\ Escaping(s).at = Unnamed
  BY DEF Escaping, Op
<1>4. ToFour \in PinOps /\ ToFour.kind = "mode" /\ ToFour.tms = 0 /\ ToFour.at = Unnamed
  BY <1>1 DEF ToFour, Op, PinOps
<1>5. ToTwo \in PinOps /\ ToTwo.kind = "mode" /\ ToTwo.tms = 1 /\ ToTwo.at = "RUN_TEST_IDLE"
  BY <1>1 DEF ToTwo, Op, PinOps
<1>6. LET op == Op("high", 0, 0, Unnamed) IN op \in PinOps /\ op.kind = "high" /\ op.at = Unnamed
  BY <1>1 DEF Op, PinOps
<1>. QED BY <1>2, <1>3, <1>4, <1>5, <1>6

LEMMA ModeGoes ==
  ASSUME NEW v, NEW w, NEW op, op.kind = "mode", Goes(v, op, w)
  PROVE  /\ op.tms = 0 => w.two = FALSE
         /\ op.tms = 1 => w.two = TRUE
         /\ w.adapter = v.adapter /\ w.bench = v.bench /\ w.tck = 0
         /\ w.tap = v.tap /\ w.mon = v.mon /\ w.fmt = v.fmt /\ w.slot = v.slot /\ w.ad = v.ad
         /\ w.shifts = v.shifts
<1>1. w.two = (op.tms = 1)
  BY DEF Goes
<1>2. op.tms = 0 => (op.tms = 1) = FALSE
  OBVIOUS
<1>3. op.tms = 1 => (op.tms = 1) = TRUE
  OBVIOUS
<1>4. /\ op.tms = 0 => w.two = FALSE
      /\ op.tms = 1 => w.two = TRUE
  BY <1>1, <1>2, <1>3, Zenon
<1>5. /\ w.adapter = v.adapter /\ w.bench = v.bench /\ w.tck = 0
      /\ w.tap = v.tap /\ w.mon = v.mon /\ w.fmt = v.fmt /\ w.slot = v.slot /\ w.ad = v.ad
      /\ w.shifts = v.shifts
  BY DEF Goes
<1>. QED BY <1>4, <1>5

LEMMA AllHighs == \A s \in TapStates : Highs(s) <= 5
BY States DEF Highs

\* From here the switch may begin.
Before(s) == IF s = <<"C", 2>> THEN {v \in Views : ~v.bench} ELSE At(FALSE, "RUN_TEST_IDLE", Nat, Plain)

SwitchHead(s) == <<Op("mode", 0, 0, Unnamed)>> \o jtag_reset(s)
                 \o <<Op("escape", 0, IF s[1] = "C" THEN 15 ELSE 16, Unnamed)>>

LEMMA BlindHead ==
  ASSUME NEW s, s = <<"C", 2>>
  PROVE  Leads(SwitchHead(s), Before(s), Rising(5))
<1>. DEFINE up == Tms(1, Unnamed)
            high == Op("high", 0, 0, Unnamed)
            A == Before(s)
            H == {v \in Blind : v.tck = 1}
            C == Rising(5)
            esc == Escaping(s)
<1>1. A = {v \in Views : ~v.bench} /\ A \in SUBSET Views /\ Blind \in SUBSET Views /\ H \in SUBSET Views
      /\ C \in SUBSET Views
  BY DEF Before, Blind, Rising
<1>2. /\ up \in PinOps /\ up.kind = "packet" /\ up.at = Unnamed
      /\ high \in PinOps /\ high.kind = "high" /\ high.at = Unnamed
      /\ esc \in PinOps /\ esc.kind = "escape" /\ esc.tms = 0 /\ esc.at = Unnamed
      /\ ToFour \in PinOps /\ ToFour.kind = "mode" /\ ToFour.tms = 0 /\ ToFour.at = Unnamed
  BY TmsOps, OtherOps DEF Bit
<1>. HIDE DEF up, high, esc, C
<1>3. Leads(<<ToFour>>, A, Blind)
  <2>. HIDE DEF A
  <2>1. ASSUME NEW v \in A, NEW w \in Views, Goes(v, ToFour, w)
        PROVE  w \in Blind /\ Fits(w, ToFour.at)
    <3>1. ~v.bench
      BY <1>1, <2>1
    <3>2. w.bench = v.bench /\ w.two = FALSE
      BY <1>2, <2>1, ModeGoes
    <3>. QED BY <1>2, <3>1, <3>2 DEF Blind, Fits
  <2>. QED BY <1>1, <1>2, <2>1, LeadsOne
<1>4. \A v \in Blind, w \in Views : Goes(v, up, w) => w \in Blind /\ Fits(w, up.at)
  BY <1>2 DEF Goes, Blind, Fits
<1>5. Leads(Times(4, up), Blind, Blind)
  <2>1. PICK n \in Nat : n = 4
    OBVIOUS
  <2>2. Leads(Times(n, up), Blind, Blind)
    BY <1>1, <1>2, <1>4, LeadsTimes
  <2>. QED BY <2>1, <2>2
<1>6. Leads(<<up>>, Blind, Blind)
  BY <1>1, <1>2, <1>4, LeadsOne
<1>7. Leads(<<high>>, Blind, H)
  <2>1. \A v \in Blind, w \in Views : Goes(v, high, w) => w \in H /\ Fits(w, high.at)
    BY <1>2 DEF Goes, Blind, Fits
  <2>. HIDE DEF H
  <2>. QED BY <1>1, <1>2, <2>1, LeadsOne
<1>8. Leads(<<esc>>, H, C)
  <2>1. ASSUME NEW v \in H, NEW w \in Views, Goes(v, esc, w)
        PROVE  w \in C /\ Fits(w, esc.at)
    <3>1. /\ w.bench = v.bench /\ ~v.bench /\ w.two = FALSE /\ w.tck = 0
          /\ w.fmt = "four_wire" /\ w.slot = 0 /\ w.ad = Plain
      BY <1>2, <2>1 DEF Goes, Blind
    <3>2. Highs(w.tap) <= 5
      BY AllHighs DEF Views
    <3>3. Plain.check = 0
      BY DEF Plain
    <3>. QED BY <1>2, <3>1, <3>2, <3>3 DEF C, Rising, Fits
  <2>. HIDE DEF H
  <2>. QED BY <1>1, <1>2, <2>1, LeadsOne
<1>. HIDE DEF A, H
<1>9. <<up, high>> = <<up>> \o <<high>>
  BY <1>2, Pair
<1>10. Leads(<<up, high>>, Blind, H)
  BY <1>6, <1>7, <1>9, LeadsJoin
<1>11. Leads(Times(4, up) \o <<up, high>>, Blind, H)
  BY <1>5, <1>10, LeadsJoin
<1>12. jtag_reset(s) = Times(4, up) \o <<up, high>>
  BY DEF jtag_reset, up, high
<1>13. Leads(<<ToFour>> \o jtag_reset(s), A, H)
  BY <1>3, <1>11, <1>12, LeadsJoin
<1>14. Leads(<<ToFour>> \o jtag_reset(s) \o <<esc>>, A, C)
  BY <1>8, <1>13, LeadsJoin
<1>. QED BY <1>14 DEF A, C, esc, SwitchHead, ToFour, Escaping

LEMMA BenchHead ==
  ASSUME NEW s, s = <<"SV", 2>>
  PROVE  Leads(SwitchHead(s), Before(s), Rising(5))
<1>. DEFINE A == At(FALSE, "RUN_TEST_IDLE", Nat, Plain)
            C == Rising(5)
            esc == Escaping(s)
<1>1. A \in SUBSET Views /\ C \in SUBSET Views /\ A \subseteq C
  BY HereViews, RisingIdle DEF Rising
<1>2. /\ esc \in PinOps /\ esc.kind = "escape" /\ esc.tms = 0 /\ esc.at = Unnamed
      /\ ToFour \in PinOps /\ ToFour.kind = "mode" /\ ToFour.tms = 0 /\ ToFour.at = Unnamed
  BY OtherOps
<1>3. Before(s) = A
  BY DEF Before
<1>. HIDE DEF esc, C
<1>4. Leads(<<ToFour>>, A, A)
  <2>1. ASSUME NEW v \in A, NEW w \in Views, Goes(v, ToFour, w)
        PROVE  w \in A /\ Fits(w, ToFour.at)
    <3>1. /\ v.two = FALSE /\ v.tck = 0 /\ v.tap = "RUN_TEST_IDLE" /\ v.slot = 0
          /\ v.adapter => v.fmt = "four_wire" /\ v.ad = Plain
          /\ v.bench => v.mon = "RUN_TEST_IDLE"
      BY DEF At, Here, FormatOf
    <3>2. /\ w.adapter = v.adapter /\ w.bench = v.bench /\ w.two = FALSE /\ w.tck = 0
          /\ w.tap = v.tap /\ w.mon = v.mon /\ w.fmt = v.fmt /\ w.slot = v.slot /\ w.ad = v.ad
      BY <1>2, <2>1, ModeGoes
    <3>3. w.shifts \in Nat
      BY DEF Views
    <3>. QED BY <1>2, <3>1, <3>2, <3>3 DEF At, Here, FormatOf, Fits
  <2>. HIDE DEF A
  <2>. QED BY <1>1, <1>2, <2>1, LeadsOne
<1>5. Leads(<<esc>>, A, C)
  <2>1. ASSUME NEW v \in A, NEW w \in Views, Goes(v, esc, w)
        PROVE  w \in A /\ Fits(w, esc.at)
    <3>1. /\ v.two = FALSE /\ v.tck = 0 /\ v.tap = "RUN_TEST_IDLE" /\ v.slot = 0
          /\ v.adapter => v.fmt = "four_wire" /\ v.ad = Plain
          /\ v.bench => v.mon = "RUN_TEST_IDLE"
      BY DEF At, Here, FormatOf
    <3>2. Clocks(v, esc)
      BY <1>2, <3>1 DEF Clocks, FormatOf, Plain
    <3>3. /\ TapNext("RUN_TEST_IDLE", 0) = "RUN_TEST_IDLE" /\ MonitorNext("RUN_TEST_IDLE", 0) = "RUN_TEST_IDLE"
      BY DEF TapNext, OnLow, MonitorNext, MonitorLow
    <3>4. /\ w.adapter = v.adapter /\ w.bench = v.bench /\ w.two = FALSE /\ w.tck = 0
          /\ w.tap = "RUN_TEST_IDLE" /\ w.fmt = "four_wire" /\ w.slot = 0 /\ w.ad = Plain
      BY <1>2, <2>1, <3>1, <3>2, <3>3 DEF Goes
    <3>5. v.bench => w.mon = "RUN_TEST_IDLE"
      BY <1>2, <2>1, <3>1, <3>3 DEF Goes
    <3>6. w.shifts \in Nat
      BY DEF Views
    <3>. QED BY <1>2, <3>4, <3>5, <3>6 DEF At, Here, FormatOf, Fits
  <2>. HIDE DEF A
  <2>. QED BY <1>1, <1>2, <2>1, LeadsOne
<1>. HIDE DEF A
<1>6. Leads(jtag_reset(s), C, A)
  BY ResetLeads DEF A, C
<1>7. Leads(jtag_reset(s), A, A)
  BY <1>1, <1>6, LeadsWider
<1>8. Leads(<<ToFour>> \o jtag_reset(s), A, A)
  BY <1>4, <1>7, LeadsJoin
<1>9. Leads(<<ToFour>> \o jtag_reset(s) \o <<esc>>, A, C)
  BY <1>5, <1>8, LeadsJoin
<1>. QED BY <1>3, <1>9 DEF C, esc, SwitchHead, ToFour, Escaping

-------------------------------------------------------------------------------
(* The switch                                                              *)

\* The control level, with nothing begun, and with a check packet to come.
Control == Adapter(0, "control", NoPart, FALSE, "none", 0)
Checking(n) == Adapter(0, "control", NoPart, FALSE, "oscan1", n)

\* In the check packet, m clocks before its end.
Checks(two, m) ==
  Here(two, IF m = 0 THEN "oscan1" ELSE FormatOf(two), "RUN_TEST_IDLE", Nat,
       IF m = 0 THEN Control ELSE Checking(m))

LEMMA CheckOnce ==
  ASSUME NEW two \in BOOLEAN, NEW m \in 1 .. 4, NEW v \in Checks(two, m), NEW w \in Views, Goes(v, Raw(0), w)
  PROVE  w \in Checks(two, m - 1)
<1>. DEFINE op == Raw(0)
<1>1. op.kind = "raw" /\ op.tms = 0
  BY TmsOps DEF Bit
<1>2. /\ v \in Views /\ v.two = two /\ v.tck = 0
      /\ v.adapter \/ ~two => v.tap = "RUN_TEST_IDLE" /\ v.slot = 0
      /\ v.adapter => v.fmt = FormatOf(two) /\ v.ad = Checking(m)
      /\ v.bench /\ ~two => v.mon = "RUN_TEST_IDLE"
  BY DEF Checks, Here
<1>. HIDE DEF op
<1>3. /\ w.adapter = v.adapter /\ w.bench = v.bench /\ w.two = two /\ w.tck = 0
      /\ v.adapter \in BOOLEAN /\ w.shifts \in Nat
  BY <1>1, <1>2 DEF Goes, Views, op
<1>4. w.bench /\ ~two => w.mon = "RUN_TEST_IDLE"
  <2>1. MonitorNext("RUN_TEST_IDLE", 0) = "RUN_TEST_IDLE"
    BY DEF MonitorNext, MonitorLow
  <2>. QED BY <1>1, <1>2, <1>3, <2>1 DEF Goes, op
<1>5. CASE v.adapter
  <2>1. v.ad.check = m /\ v.ad.ends = "oscan1" /\ v.tap = "RUN_TEST_IDLE" /\ v.slot = 0
    BY <1>2, <1>5 DEF Checking, Adapter
  <2>2. CASE m > 1
    <3>1. w.tap = v.tap /\ w.fmt = v.fmt /\ w.slot = v.slot /\ w.ad = Adapter(v.ad.zbs, v.ad.level, v.ad.part, v.ad.reading, v.ad.ends, m - 1)
      BY <1>1, <1>2, <1>5, <2>1, <2>2 DEF Goes, op
    <3>2. w.ad = Checking(m - 1)
      <4>1. v.ad = Checking(m)
        BY <1>2, <1>5
      <4>2. LET a == Checking(m) IN
              /\ a.zbs = 0 /\ a.level = "control" /\ a.part = NoPart /\ a.reading = FALSE
              /\ a.ends = "oscan1"
        BY DEF Checking, Adapter
      <4>3. /\ v.ad.zbs = 0 /\ v.ad.level = "control" /\ v.ad.part = NoPart
            /\ v.ad.reading = FALSE /\ v.ad.ends = "oscan1"
        BY <4>1, <4>2
      <4>. QED BY <3>1, <4>3 DEF Checking
    <3>. QED BY <1>2, <1>3, <1>4, <1>5, <2>1, <2>2, <3>1, <3>2 DEF Checks, Here
  <2>3. CASE m = 1
    <3>1. /\ w.tap = v.tap /\ w.fmt = v.ad.ends /\ w.slot = 0
          /\ w.ad = Adapter(v.ad.zbs, v.ad.level, v.ad.part, v.ad.reading, "none", 0)
      BY <1>1, <1>2, <1>5, <2>1, <2>3 DEF Goes, op
    <3>2. w.ad = Control
      <4>1. v.ad = Checking(m)
        BY <1>2, <1>5
      <4>2. LET a == Checking(m) IN
              a.zbs = 0 /\ a.level = "control" /\ a.part = NoPart /\ a.reading = FALSE
        BY DEF Checking, Adapter
      <4>3. /\ v.ad.zbs = 0 /\ v.ad.level = "control" /\ v.ad.part = NoPart
            /\ v.ad.reading = FALSE
        BY <4>1, <4>2
      <4>. QED BY <3>1, <4>3 DEF Control
    <3>. QED BY <1>2, <1>3, <1>4, <1>5, <2>1, <2>3, <3>1, <3>2 DEF Checks, Here
  <2>. QED BY <2>2, <2>3
<1>6. CASE ~v.adapter
  <2>1. CASE ~two
    <3>1. Clocks(v, op)
      BY <1>1, <1>2, <1>6, <2>1 DEF Clocks
    <3>2. TapNext("RUN_TEST_IDLE", 0) = "RUN_TEST_IDLE"
      BY DEF TapNext, OnLow
    <3>3. w.tap = "RUN_TEST_IDLE" /\ w.slot = 0
      BY <1>1, <1>2, <2>1, <3>1, <3>2 DEF Goes, op
    <3>. QED BY <1>3, <1>4, <1>6, <3>3 DEF Checks, Here
  <2>2. CASE two
    BY <1>3, <1>4, <1>6, <2>2 DEF Checks, Here
  <2>. QED BY <2>1, <2>2
<1>. QED BY <1>3, <1>5, <1>6

LEMMA CheckPacket ==
  ASSUME NEW two \in BOOLEAN, NEW sh \in SUBSET Nat
  PROVE  Leads(Times(4, Raw(0)), At(two, "RUN_TEST_IDLE", sh, Checking(4)),
               Here(two, "oscan1", "RUN_TEST_IDLE", Nat, Control))
<1>. DEFINE op == Raw(0)
            l == Times(4, op)
            In(j) == Checks(two, 4 - j)
            f == [j \in 0 .. 4 |-> In(j)]
<1>1. \A j : In(j) \in SUBSET Views
  BY DEF Checks, Here
<1>2. op \in PinOps /\ op.at = Unnamed
  BY TmsOps DEF Bit
<1>3. ASSUME NEW j \in 1 .. 4, NEW v \in In(j - 1), NEW w \in Views, Goes(v, op, w)
      PROVE  w \in In(j) /\ Fits(w, op.at)
  <2>1. PICK m \in 1 .. 4 : m = 4 - (j - 1) /\ m - 1 = 4 - j
    OBVIOUS
  <2>2. w \in Checks(two, m - 1)
    BY <1>3, <2>1, CheckOnce
  <2>. QED BY <1>2, <2>1, <2>2 DEF Fits
<1>4. /\ At(two, "RUN_TEST_IDLE", sh, Checking(4)) \subseteq In(0)
      /\ In(4) = Here(two, "oscan1", "RUN_TEST_IDLE", Nat, Control)
      /\ At(two, "RUN_TEST_IDLE", sh, Checking(4)) \in SUBSET Views
  <2>1. 4 - 4 = 0 /\ 4 - 0 = 4 /\ 4 # 0
    OBVIOUS
  <2>2. In(4) = Here(two, "oscan1", "RUN_TEST_IDLE", Nat, Control)
    BY <2>1 DEF Checks
  <2>3. In(0) = Here(two, FormatOf(two), "RUN_TEST_IDLE", Nat, Checking(4))
    BY <2>1 DEF Checks
  <2>. HIDE DEF In
  <2>4. At(two, "RUN_TEST_IDLE", sh, Checking(4)) \subseteq In(0)
    BY <2>3 DEF At, Here
  <2>. QED BY <2>2, <2>4, HereViews
<1>. HIDE DEF In, op
<1>5. PICK n \in Nat : n = 4
  OBVIOUS
<1>6. l \in [1 .. n -> PinOps] /\ \A j \in 1 .. 4 : l[j] = op
  BY <1>2, <1>5 DEF Times
<1>. HIDE DEF l
<1>7. l \in Seq(PinOps) /\ Len(l) = 4
  BY <1>5, <1>6, OfLength
<1>8. f \in [0 .. 4 -> SUBSET Views] /\ f[0] = In(0) /\ f[4] = In(4)
  BY <1>1
<1>9. \A j \in 1 .. 4 : f[j - 1] = In(j - 1) /\ f[j] = In(j)
  OBVIOUS
<1>. HIDE DEF f
<1>10. Course(l, f)
  BY <1>3, <1>6, <1>7, <1>9 DEF Course
<1>11. Leads(l, In(0), In(4))
  BY <1>1, <1>7, <1>8, <1>10 DEF Leads
<1>12. Leads(l, At(two, "RUN_TEST_IDLE", sh, Checking(4)), In(4))
  BY <1>1, <1>4, <1>11, LeadsWider
<1>. QED BY <1>4, <1>12 DEF l, op

\* The driver goes over to two wires after the check packet.
LEMMA GoesOver ==
  Leads(<<ToTwo>>, Here(FALSE, "oscan1", "RUN_TEST_IDLE", Nat, Control),
        At(TRUE, "RUN_TEST_IDLE", Nat, Control))
<1>. DEFINE A == Here(FALSE, "oscan1", "RUN_TEST_IDLE", Nat, Control)
            B == At(TRUE, "RUN_TEST_IDLE", Nat, Control)
<1>1. A \in SUBSET Views /\ B \in SUBSET Views
  BY HereViews
<1>0. ToTwo \in PinOps /\ ToTwo.kind = "mode" /\ ToTwo.tms = 1 /\ ToTwo.at = "RUN_TEST_IDLE"
  BY OtherOps
<1>2. ASSUME NEW v \in A, NEW w \in Views, Goes(v, ToTwo, w)
      PROVE  w \in B /\ Fits(w, ToTwo.at)
  <2>1. /\ v.tap = "RUN_TEST_IDLE" /\ v.slot = 0
        /\ v.adapter => v.fmt = "oscan1" /\ v.ad = Control
    BY DEF Here
  <2>2. /\ w.adapter = v.adapter /\ w.two = TRUE /\ w.tck = 0
        /\ w.tap = v.tap /\ w.fmt = v.fmt /\ w.slot = v.slot /\ w.ad = v.ad
    BY <1>0, <1>2, ModeGoes
  <2>3. w.shifts \in Nat
    BY DEF Views
  <2>4. w \in B
    BY <2>1, <2>2, <2>3 DEF At, Here, FormatOf
  <2>5. Fits(w, "RUN_TEST_IDLE")
    BY <2>1, <2>2 DEF Fits, FormatOf
  <2>. QED BY <1>0, <2>4, <2>5
<1>. HIDE DEF A, B
<1>3. Leads(<<ToTwo>>, A, B)
  BY <1>0, <1>1, <1>2, LeadsOne
<1>. QED BY <1>3 DEF A, B

\* Scans without a shift; the first scan of a command; a register read.
Empty(z) == Adapter(z, "data", NoPart, FALSE, "none", 0)
Part(p) == Adapter(0, "control", p, FALSE, "none", 0)
Reading == Adapter(0, "control", NoPart, TRUE, "none", 0)

LEMMA AdapterTypes ==
  ASSUME NEW z \in 0 .. 2, NEW p \in Nat, NEW n \in 0 .. 4
  PROVE  /\ Plain \in Adapters /\ Plain.check = 0 /\ Plain.ends = "none" /\ Plain = Empty(0)
         /\ Empty(z) \in Adapters /\ Empty(z).check = 0 /\ Empty(z).ends = "none"
         /\ Control \in Adapters /\ Control.check = 0 /\ Control.ends = "none" /\ Control = Part(NoPart)
         /\ Part(p) \in Adapters /\ Part(p).check = 0 /\ Part(p).ends = "none"
         /\ Reading \in Adapters /\ Reading.check = 0 /\ Reading.ends = "none"
         /\ Checking(n) \in Adapters /\ Checking(n).check = n /\ Checking(n).ends = "oscan1"
         /\ Checking(4) = Adapter(Checking(0).zbs, Checking(0).level, Checking(0).part,
                                  Checking(0).reading, Checking(0).ends, 4)
<1>1. /\ "data" \in Levels /\ "control" \in Levels /\ "none" \in Ends /\ "oscan1" \in Ends /\ NoPart \in Nat
      /\ 0 \in 0 .. 2 /\ 0 \in 0 .. 4
  BY DEF Levels, Ends, Formats, NoPart
<1>2. Plain \in Adapters /\ Plain.check = 0 /\ Plain.ends = "none" /\ Plain = Empty(0)
  BY <1>1 DEF Plain, Empty, Adapters, Adapter
<1>3. Empty(z) \in Adapters /\ Empty(z).check = 0 /\ Empty(z).ends = "none"
  BY <1>1 DEF Empty, Adapters, Adapter
<1>4. Control \in Adapters /\ Control.check = 0 /\ Control.ends = "none" /\ Control = Part(NoPart)
  BY <1>1 DEF Control, Part, Adapters, Adapter
<1>5. Part(p) \in Adapters /\ Part(p).check = 0 /\ Part(p).ends = "none"
  BY <1>1 DEF Part, Adapters, Adapter
<1>6. Reading \in Adapters /\ Reading.check = 0 /\ Reading.ends = "none"
  BY <1>1 DEF Reading, Adapters, Adapter
<1>7. Checking(n) \in Adapters /\ Checking(n).check = n /\ Checking(n).ends = "oscan1"
  BY <1>1 DEF Checking, Adapters, Adapter
<1>8. Checking(4) = Adapter(Checking(0).zbs, Checking(0).level, Checking(0).part,
                            Checking(0).reading, Checking(0).ends, 4)
  <2>1. /\ Checking(0).zbs = 0 /\ Checking(0).level = "control" /\ Checking(0).part = NoPart
        /\ Checking(0).reading = FALSE /\ Checking(0).ends = "oscan1"
    BY DEF Checking, Adapter
  <2>. QED BY <2>1 DEF Checking
<1>. QED BY <1>2, <1>3, <1>4, <1>5, <1>6, <1>7, <1>8

\* What a scan of n clocks does to the adapter.
LEMMA ScanNoted ==
  ASSUME NEW ad \in Adapters, NEW n \in Nat, NEW f \in Formats
  PROVE  LET new == Noted(ad, "UPDATE_DR", n, f) IN
         /\ ad.level = "data" /\ n = 0 /\ ad.zbs < 2 =>
              new = Adapter(ad.zbs + 1, ad.level, ad.part, ad.reading, ad.ends, ad.check)
         /\ ad.level = "data" /\ n # 0 =>
              /\ ad.zbs = 2 => new = Adapter(0, "control", NoPart, ad.reading, ad.ends, ad.check)
              /\ ad.zbs # 2 => new = Adapter(0, "data", NoPart, ad.reading, ad.ends, ad.check)
         /\ ad.level # "data" /\ ad.reading =>
              new = Adapter(ad.zbs, ad.level, ad.part, FALSE, f, ad.check)
         /\ ad.level # "data" /\ ~ad.reading /\ ad.part = NoPart =>
              new = Adapter(ad.zbs, ad.level, n, ad.reading, ad.ends, ad.check)
         /\ ad.level # "data" /\ ~ad.reading /\ ad.part # NoPart /\ ad.part = 3 /\ n = 9 =>
              new = Adapter(ad.zbs, ad.level, NoPart, FALSE, "oscan1", ad.check)
         /\ ad.level # "data" /\ ~ad.reading /\ ad.part # NoPart /\ ad.part = 9 /\ n = 0 =>
              new = Adapter(ad.zbs, ad.level, NoPart, TRUE, ad.ends, ad.check)
<1>. DEFINE new == Noted(ad, "UPDATE_DR", n, f)
<1>1. ad.level = "data" /\ n = 0 /\ ad.zbs < 2 =>
        new = Adapter(ad.zbs + 1, ad.level, ad.part, ad.reading, ad.ends, ad.check)
  BY DEF Noted, Adapter, Adapters
<1>2. ad.level = "data" /\ n # 0 /\ ad.zbs = 2 =>
        new = Adapter(0, "control", NoPart, ad.reading, ad.ends, ad.check)
  BY DEF Noted, Adapter, Adapters
<1>3. ad.level = "data" /\ n # 0 /\ ad.zbs # 2 =>
        new = Adapter(0, "data", NoPart, ad.reading, ad.ends, ad.check)
  BY DEF Noted, Adapter, Adapters
<1>4. ad.level # "data" /\ ad.reading =>
        new = Adapter(ad.zbs, ad.level, ad.part, FALSE, f, ad.check)
  BY DEF Noted, Adapter, Adapters
<1>5. ad.level # "data" /\ ~ad.reading /\ ad.part = NoPart =>
        new = Adapter(ad.zbs, ad.level, n, ad.reading, ad.ends, ad.check)
  BY DEF Noted, Adapter, Adapters
<1>6. ASSUME ad.level # "data", ~ad.reading, ad.part # NoPart
      PROVE  /\ ad.part = 3 /\ n = 9 => new = Adapter(ad.zbs, ad.level, NoPart, FALSE, "oscan1", ad.check)
             /\ ad.part = 9 /\ n = 0 => new = Adapter(ad.zbs, ad.level, NoPart, TRUE, ad.ends, ad.check)
  <2>1. PICK g \in BOOLEAN : g = (ad.part = 9 /\ n = 0)
    OBVIOUS
  <2>2. PICK e : e = IF ad.part = 3 /\ n = 9 THEN "oscan1" ELSE ad.ends
    OBVIOUS
  <2>3. new = [ad EXCEPT !.part = NoPart, !.reading = g, !.ends = e]
    BY <1>6, <2>1, <2>2 DEF Noted, Adapters
  <2>. HIDE DEF new
  <2>4. new = Adapter(ad.zbs, ad.level, NoPart, g, e, ad.check)
    BY <2>3 DEF Adapter, Adapters
  <2>5. ASSUME ad.part = 3, n = 9 PROVE new = Adapter(ad.zbs, ad.level, NoPart, FALSE, "oscan1", ad.check)
    <3>1. (ad.part = 9 /\ n = 0) = FALSE
      BY <2>5
    <3>2. g = FALSE
      BY <2>1, <3>1, Zenon
    <3>3. e = "oscan1"
      BY <2>2, <2>5
    <3>. QED BY <2>4, <3>2, <3>3
  <2>6. ASSUME ad.part = 9, n = 0 PROVE new = Adapter(ad.zbs, ad.level, NoPart, TRUE, ad.ends, ad.check)
    <3>1. (ad.part = 9 /\ n = 0) = TRUE
      BY <2>6
    <3>2. g = TRUE
      BY <2>1, <3>1, Zenon
    <3>3. e = ad.ends
      BY <2>2, <2>6
    <3>. QED BY <2>4, <3>2, <3>3
  <2>. QED BY <2>5, <2>6
<1>. HIDE DEF new
<1>. QED BY <1>1, <1>2, <1>3, <1>4, <1>5, <1>6 DEF new

LEMMA SwitchNotes ==
  ASSUME NEW f \in Formats
  PROVE  /\ Noted(Plain, "UPDATE_DR", 0, f) = Empty(1)
         /\ Noted(Empty(1), "UPDATE_DR", 0, f) = Empty(2)
         /\ Noted(Empty(2), "UPDATE_DR", 1, f) = Control
         /\ \A n \in Nat : Noted(Control, "UPDATE_DR", n, f) = Part(n)
         /\ Noted(Part(3), "UPDATE_DR", 9, f) = Checking(0)
         /\ Noted(Part(9), "UPDATE_DR", 0, f) = Reading
         /\ f = "oscan1" => Noted(Reading, "UPDATE_DR", 32, f) = Checking(0)
         /\ \A n \in Nat \ {0} : Noted(Plain, "UPDATE_DR", n, f) = Plain
<1>1. ASSUME NEW z \in {0, 1} PROVE Noted(Empty(z), "UPDATE_DR", 0, f) = Empty(z + 1)
  <2>1. /\ Empty(z).zbs = z /\ Empty(z).level = "data" /\ Empty(z).part = NoPart
        /\ Empty(z).reading = FALSE /\ Empty(z).ends = "none" /\ Empty(z).check = 0
    BY DEF Empty, Adapter
  <2>2. Empty(z) \in Adapters
    BY AdapterTypes
  <2>. DEFINE ad == Empty(z)  new == Noted(ad, "UPDATE_DR", 0, f)
  <2>. HIDE DEF ad, new
  <2>3. new = Adapter(ad.zbs + 1, ad.level, ad.part, ad.reading, ad.ends, ad.check)
    <3>1. PICK n \in Nat : n = 0
      OBVIOUS
    <3>2. ad \in Adapters /\ ad.level = "data" /\ n = 0 /\ ad.zbs < 2
      BY <2>1, <2>2, <3>1 DEF ad
    <3>3. Noted(ad, "UPDATE_DR", n, f) = Adapter(ad.zbs + 1, ad.level, ad.part, ad.reading, ad.ends, ad.check)
      BY <3>2, ScanNoted
    <3>. QED BY <3>1, <3>3 DEF new
  <2>. QED BY <2>1, <2>3 DEF ad, new, Empty
<1>2. ASSUME NEW z \in {0, 2}, NEW n \in Nat \ {0}
      PROVE  Noted(Empty(z), "UPDATE_DR", n, f) = IF z = 2 THEN Control ELSE Empty(0)
  <2>. DEFINE ad == Empty(z)  new == Noted(ad, "UPDATE_DR", n, f)
  <2>1. /\ ad.zbs = z /\ ad.level = "data" /\ ad.part = NoPart
        /\ ad.reading = FALSE /\ ad.ends = "none" /\ ad.check = 0
    BY DEF Empty, Adapter
  <2>2. ad \in Adapters
    BY AdapterTypes
  <2>. HIDE DEF ad
  <2>3. /\ ad.zbs = 2 => new = Adapter(0, "control", NoPart, ad.reading, ad.ends, ad.check)
        /\ ad.zbs # 2 => new = Adapter(0, "data", NoPart, ad.reading, ad.ends, ad.check)
    <3>1. ad.level = "data" /\ n # 0
      BY <2>1
    <3>. QED BY <2>2, <3>1, ScanNoted
  <2>. HIDE DEF new
  <2>4. CASE z = 2
    <3>1. new = Adapter(0, "control", NoPart, FALSE, "none", 0)
      BY <2>1, <2>3, <2>4
    <3>. QED BY <2>4, <3>1 DEF ad, new, Control
  <2>5. CASE z = 0
    <3>1. ad.zbs # 2 /\ z # 2
      BY <2>1, <2>5
    <3>2. new = Adapter(0, "data", NoPart, ad.reading, ad.ends, ad.check)
      BY <2>3, <3>1
    <3>3. new = Empty(0)
      BY <2>1, <3>2 DEF Empty
    <3>. QED BY <3>1, <3>3 DEF ad, new
  <2>. QED BY <2>4, <2>5
<1>3. ASSUME NEW p \in Nat, NEW n \in Nat
      PROVE  /\ p = NoPart => Noted(Part(p), "UPDATE_DR", n, f) = Part(n)
             /\ p = 3 /\ n = 9 => Noted(Part(p), "UPDATE_DR", n, f) = Checking(0)
             /\ p = 9 /\ n = 0 => Noted(Part(p), "UPDATE_DR", n, f) = Reading
  <2>. DEFINE ad == Part(p)  new == Noted(ad, "UPDATE_DR", n, f)
  <2>1. /\ ad.zbs = 0 /\ ad.level = "control" /\ ad.part = p
        /\ ad.reading = FALSE /\ ad.ends = "none" /\ ad.check = 0
    BY DEF Part, Adapter
  <2>2. ad \in Adapters
    BY AdapterTypes
  <2>. HIDE DEF ad
  <2>3. ad.level # "data" /\ ~ad.reading
    BY <2>1
  <2>4. /\ ad.part = NoPart => new = Adapter(ad.zbs, ad.level, n, ad.reading, ad.ends, ad.check)
        /\ ad.part # NoPart /\ ad.part = 3 /\ n = 9 => new = Adapter(ad.zbs, ad.level, NoPart, FALSE, "oscan1", ad.check)
        /\ ad.part # NoPart /\ ad.part = 9 /\ n = 0 => new = Adapter(ad.zbs, ad.level, NoPart, TRUE, ad.ends, ad.check)
    BY <2>2, <2>3, ScanNoted
  <2>. HIDE DEF new
  <2>5. ASSUME p = NoPart PROVE new = Part(n)
    BY <2>1, <2>4, <2>5 DEF Part
  <2>6. ASSUME p = 3, n = 9 PROVE new = Checking(0)
    BY <2>1, <2>4, <2>6 DEF Checking, NoPart
  <2>7. ASSUME p = 9, n = 0 PROVE new = Reading
    BY <2>1, <2>4, <2>7 DEF Reading, NoPart
  <2>. QED BY <2>5, <2>6, <2>7 DEF ad, new
<1>4. f = "oscan1" => Noted(Reading, "UPDATE_DR", 32, f) = Checking(0)
  <2>. DEFINE ad == Reading  new == Noted(ad, "UPDATE_DR", 32, f)
  <2>1. /\ ad.zbs = 0 /\ ad.level = "control" /\ ad.part = NoPart
        /\ ad.reading = TRUE /\ ad.ends = "none" /\ ad.check = 0
    BY DEF Reading, Adapter
  <2>2. ad \in Adapters
    BY AdapterTypes
  <2>. HIDE DEF ad
  <2>3. ad.level # "data" /\ ad.reading
    BY <2>1
  <2>4. new = Adapter(ad.zbs, ad.level, ad.part, FALSE, f, ad.check)
    BY <2>2, <2>3, ScanNoted
  <2>. HIDE DEF new
  <2>5. new = Adapter(0, "control", NoPart, FALSE, f, 0)
    BY <2>1, <2>4
  <2>. QED BY <2>5 DEF ad, new, Checking
<1>5. Plain = Empty(0) /\ Control = Part(NoPart) /\ NoPart \in Nat
  BY AdapterTypes DEF NoPart
<1>6. Noted(Plain, "UPDATE_DR", 0, f) = Empty(1) /\ Noted(Empty(1), "UPDATE_DR", 0, f) = Empty(2)
  <2>1. Noted(Empty(0), "UPDATE_DR", 0, f) = Empty(0 + 1) /\ Noted(Empty(1), "UPDATE_DR", 0, f) = Empty(1 + 1)
    BY <1>1
  <2>2. 0 + 1 = 1 /\ 1 + 1 = 2
    OBVIOUS
  <2>. QED BY <1>5, <2>1, <2>2
<1>7. Noted(Empty(2), "UPDATE_DR", 1, f) = Control
  BY <1>2
<1>8. \A n \in Nat \ {0} : Noted(Plain, "UPDATE_DR", n, f) = Plain
  BY <1>2, <1>5
<1>9. \A n \in Nat : Noted(Control, "UPDATE_DR", n, f) = Part(n)
  BY <1>3, <1>5
<1>10. Noted(Part(3), "UPDATE_DR", 9, f) = Checking(0) /\ Noted(Part(9), "UPDATE_DR", 0, f) = Reading
  BY <1>3
<1>. QED BY <1>4, <1>6, <1>7, <1>8, <1>9, <1>10

\* The scans of the switch, one after another.
LEMMA ThenScan ==
  ASSUME NEW two \in BOOLEAN, NEW sh, NEW ad \in Adapters, ad.check = 0, NEW n \in Nat, n \in 0 .. 41,
         NEW ad2, Noted(ad, "UPDATE_DR", n, FormatOf(two)) = ad2, NEW l, NEW A
  PROVE  /\ Leads(l, A, At(two, "RUN_TEST_IDLE", sh, ad)) =>
              Leads(l \o jtag_idle_to_sld \o dr_scan(n), A, At(two, "UPDATE_DR", {n}, ad2))
         /\ Leads(l, A, At(two, "UPDATE_DR", sh, ad)) =>
              Leads(l \o jtag_udr_to_sld \o dr_scan(n), A, At(two, "UPDATE_DR", {n}, ad2))
<1>1. Leads(dr_scan(n), At(two, "SELECT_DR_SCAN", sh, ad), At(two, "UPDATE_DR", {n}, ad2))
  BY DrScan
<1>2. /\ Leads(jtag_idle_to_sld, At(two, "RUN_TEST_IDLE", sh, ad), At(two, "SELECT_DR_SCAN", sh, ad))
      /\ Leads(jtag_udr_to_sld, At(two, "UPDATE_DR", sh, ad), At(two, "SELECT_DR_SCAN", sh, ad))
  BY QuietSteps
<1>3. ASSUME Leads(l, A, At(two, "RUN_TEST_IDLE", sh, ad))
      PROVE  Leads(l \o jtag_idle_to_sld \o dr_scan(n), A, At(two, "UPDATE_DR", {n}, ad2))
  <2>1. Leads(l \o jtag_idle_to_sld, A, At(two, "SELECT_DR_SCAN", sh, ad))
    BY <1>2, <1>3, LeadsJoin
  <2>. QED BY <1>1, <2>1, LeadsJoin
<1>4. ASSUME Leads(l, A, At(two, "UPDATE_DR", sh, ad))
      PROVE  Leads(l \o jtag_udr_to_sld \o dr_scan(n), A, At(two, "UPDATE_DR", {n}, ad2))
  <2>1. Leads(l \o jtag_udr_to_sld, A, At(two, "SELECT_DR_SCAN", sh, ad))
    BY <1>2, <1>4, LeadsJoin
  <2>. QED BY <1>1, <2>1, LeadsJoin
<1>. QED BY <1>3, <1>4

LEMMA ThenIdle ==
  ASSUME NEW two \in BOOLEAN, NEW sh, NEW ad, ad.check = 0, ad.ends = "none", NEW l, NEW A,
         Leads(l, A, At(two, "UPDATE_DR", sh, ad))
  PROVE  Leads(l \o jtag_udr_to_idle, A, At(two, "RUN_TEST_IDLE", sh, ad))
<1>1. Leads(jtag_udr_to_idle, At(two, "UPDATE_DR", sh, ad), At(two, "RUN_TEST_IDLE", sh, ad))
  BY QuietSteps
<1>. QED BY <1>1, LeadsJoin

LEMMA ThenCheck ==
  ASSUME NEW two \in BOOLEAN, NEW sh \in SUBSET Nat, NEW l, NEW A,
         Leads(l, A, At(two, "UPDATE_DR", sh, Checking(0)))
  PROVE  Leads(l \o jtag_udr_to_idle \o Times(4, Raw(0)), A,
               Here(two, "oscan1", "RUN_TEST_IDLE", Nat, Control))
<1>1. Leads(jtag_udr_to_idle, At(two, "UPDATE_DR", sh, Checking(0)), At(two, "RUN_TEST_IDLE", sh, Checking(4)))
  <2>. DEFINE ad == Checking(0)  ad2 == Checking(4)
  <2>1. ad \in Adapters /\ ad.check = 0 /\ ad.ends = "oscan1"
    <3>1. PICK n \in 0 .. 4 : n = 0
      OBVIOUS
    <3>2. Checking(n) \in Adapters /\ Checking(n).check = n /\ Checking(n).ends = "oscan1"
      BY AdapterTypes
    <3>. QED BY <3>1, <3>2
  <2>2. ad2 = Adapter(ad.zbs, ad.level, ad.part, ad.reading, ad.ends, 4)
    BY AdapterTypes
  <2>. HIDE DEF ad, ad2
  <2>3. Leads(jtag_udr_to_idle, At(two, "UPDATE_DR", sh, ad), At(two, "RUN_TEST_IDLE", sh, ad2))
    <3>1. ad.ends # "none"
      BY <2>1
    <3>. QED BY <2>1, <2>2, <3>1, NotedSteps
  <2>. QED BY <2>3 DEF ad, ad2
<1>2. Leads(Times(4, Raw(0)), At(two, "RUN_TEST_IDLE", sh, Checking(4)),
            Here(two, "oscan1", "RUN_TEST_IDLE", Nat, Control))
  BY CheckPacket
<1>3. Leads(l \o jtag_udr_to_idle, A, At(two, "RUN_TEST_IDLE", sh, Checking(4)))
  BY <1>1, LeadsJoin
<1>. QED BY <1>2, <1>3, LeadsJoin

LEMMA QuitLeads ==
  ASSUME NEW two \in BOOLEAN, NEW sh, NEW ad \in Adapters, ad.check = 0
  PROVE  Leads(quit_command, At(two, "RUN_TEST_IDLE", sh, ad), At(two, "RUN_TEST_IDLE", sh, Plain))
<1>. DEFINE A == At(two, "RUN_TEST_IDLE", sh, ad)
<1>0. Plain.check = 0 /\ Plain.ends = "none"
  BY AdapterTypes
<1>1. Leads(jtag_idle_to_sld, A, At(two, "SELECT_DR_SCAN", sh, ad))
  BY QuietSteps
<1>2. Leads(jtag_sld_to_sli, At(two, "SELECT_DR_SCAN", sh, ad), At(two, "SELECT_IR_SCAN", sh, Plain))
  BY NotedSteps
<1>3. /\ Leads(jtag_sli_to_cir, At(two, "SELECT_IR_SCAN", sh, Plain), At(two, "CAPTURE_IR", sh, Plain))
      /\ Leads(jtag_cir_to_sir, At(two, "CAPTURE_IR", sh, Plain), At(two, "SHIFT_IR", sh, Plain))
      /\ Leads(jtag_sir_to_e1i, At(two, "SHIFT_IR", sh, Plain), At(two, "EXIT1_IR", sh, Plain))
      /\ Leads(jtag_e1i_to_uir, At(two, "EXIT1_IR", sh, Plain), At(two, "UPDATE_IR", sh, Plain))
      /\ Leads(jtag_uir_to_idle, At(two, "UPDATE_IR", sh, Plain), At(two, "RUN_TEST_IDLE", sh, Plain))
  BY <1>0, QuietSteps
<1>. HIDE DEF A
<1>4. Leads(jtag_idle_to_sld \o jtag_sld_to_sli, A, At(two, "SELECT_IR_SCAN", sh, Plain))
  BY <1>1, <1>2, LeadsJoin
<1>5. Leads(jtag_idle_to_sld \o jtag_sld_to_sli \o jtag_sli_to_cir, A, At(two, "CAPTURE_IR", sh, Plain))
  BY <1>3, <1>4, LeadsJoin
<1>6. Leads(jtag_idle_to_sld \o jtag_sld_to_sli \o jtag_sli_to_cir \o jtag_cir_to_sir,
            A, At(two, "SHIFT_IR", sh, Plain))
  BY <1>3, <1>5, LeadsJoin
<1>7. Leads(jtag_idle_to_sld \o jtag_sld_to_sli \o jtag_sli_to_cir \o jtag_cir_to_sir \o jtag_sir_to_e1i,
            A, At(two, "EXIT1_IR", sh, Plain))
  BY <1>3, <1>6, LeadsJoin
<1>8. Leads(jtag_idle_to_sld \o jtag_sld_to_sli \o jtag_sli_to_cir \o jtag_cir_to_sir \o jtag_sir_to_e1i
            \o jtag_e1i_to_uir, A, At(two, "UPDATE_IR", sh, Plain))
  BY <1>3, <1>7, LeadsJoin
<1>9. Leads(jtag_idle_to_sld \o jtag_sld_to_sli \o jtag_sli_to_cir \o jtag_cir_to_sir \o jtag_sir_to_e1i
            \o jtag_e1i_to_uir \o jtag_uir_to_idle, A, At(two, "RUN_TEST_IDLE", sh, Plain))
  BY <1>3, <1>8, LeadsJoin
<1>. QED BY <1>9 DEF quit_command, A

LEMMA KeepLeads ==
  ASSUME NEW two \in BOOLEAN, NEW sh, NEW n \in Nat
  PROVE  Leads(jtag_keep_in_idle(n), At(two, "RUN_TEST_IDLE", sh, Plain), At(two, "RUN_TEST_IDLE", sh, Plain))
<1>. DEFINE A == At(two, "RUN_TEST_IDLE", sh, Plain)
            op == Tms(0, "RUN_TEST_IDLE")
<1>1. MayHop(two, "RUN_TEST_IDLE", sh, Plain, op, "RUN_TEST_IDLE", sh, Plain)
  <2>1. TapNext("RUN_TEST_IDLE", 0) = "RUN_TEST_IDLE" /\ "RUN_TEST_IDLE" \in TapStates /\ 0 \in Bit
    BY States DEF TapNext, OnLow, Bit
  <2>2. Plain.check = 0 /\ Plain.ends = "none"
    BY DEF Plain
  <2>. QED BY <2>1, <2>2, TmsOps DEF MayHop, Noted, ShiftsAfter
<1>2. op \in PinOps
  BY <1>1 DEF MayHop
<1>3. A \in SUBSET Views
  BY HereViews
<1>. HIDE DEF op
<1>4. \A v \in A, w \in Views : Goes(v, op, w) => w \in A /\ Fits(w, op.at)
  BY <1>1, HopStep
<1>. HIDE DEF A
<1>5. Leads(Times(n, op), A, A)
  BY <1>2, <1>3, <1>4, LeadsTimes
<1>. QED BY <1>5 DEF A, op, jtag_keep_in_idle

LEMMA ZerosOK == PartsOK(Zeros) /\ Zeros.high \in [1 .. 7 -> Bit]
BY DEF PartsOK, Zeros, Times, Bit

\* The switch, up to the scan that reads rdback0.
ToRdback(s) ==
  SwitchHead(s) \o Times(50, Raw(1)) \o jtag_tlr_to_idle
  \o jtag_idle_to_sld \o dr_scan(0) \o jtag_udr_to_sld \o dr_scan(0)
  \o jtag_udr_to_sld \o dr_scan(1)
  \o jtag_udr_to_sld \o dr_scan(3) \o jtag_udr_to_sld \o dr_scan(9)
  \o jtag_udr_to_idle \o Times(4, Raw(0)) \o <<ToTwo>>
  \o jtag_idle_to_sld \o dr_scan(9) \o jtag_udr_to_idle
  \o jtag_idle_to_sld \o dr_scan(0) \o jtag_udr_to_idle
  \o jtag_idle_to_sld \o jtag_sld_to_cdr

LEMMA RdbackLeads ==
  ASSUME NEW s \in {<<"C", 2>>, <<"SV", 2>>}
  PROVE  Leads(ToRdback(s), Before(s), At(TRUE, "CAPTURE_DR", {0}, Reading))
<1>. DEFINE A == Before(s)
            l1 == SwitchHead(s) \o Times(50, Raw(1)) \o jtag_tlr_to_idle
            l2 == l1 \o jtag_idle_to_sld \o dr_scan(0) \o jtag_udr_to_sld \o dr_scan(0)
            l3 == l2 \o jtag_udr_to_sld \o dr_scan(1)
            l4 == l3 \o jtag_udr_to_sld \o dr_scan(3) \o jtag_udr_to_sld \o dr_scan(9)
            l5 == l4 \o jtag_udr_to_idle \o Times(4, Raw(0)) \o <<ToTwo>>
            l6 == l5 \o jtag_idle_to_sld \o dr_scan(9) \o jtag_udr_to_idle
            l7 == l6 \o jtag_idle_to_sld \o dr_scan(0) \o jtag_udr_to_idle
            l8 == l7 \o jtag_idle_to_sld \o jtag_sld_to_cdr
<1>1. ToRdback(s) = l8
  BY DEF ToRdback
<1>2. /\ FormatOf(FALSE) = "four_wire" /\ FormatOf(TRUE) = "oscan1"
      /\ FormatOf(FALSE) \in Formats /\ FormatOf(TRUE) \in Formats
  BY DEF FormatOf, Formats
<1>3. PICK n0 \in Nat, n1 \in Nat, n3 \in Nat, n9 \in Nat :
        n0 = 0 /\ n1 = 1 /\ n3 = 3 /\ n9 = 9
  OBVIOUS
<1>4. n0 \in 0 .. 41 /\ n1 \in 0 .. 41 /\ n3 \in 0 .. 41 /\ n9 \in 0 .. 41
  BY <1>3
<1>5. /\ Noted(Plain, "UPDATE_DR", n0, FormatOf(FALSE)) = Empty(n1)
      /\ Noted(Empty(n1), "UPDATE_DR", n0, FormatOf(FALSE)) = Empty(2)
      /\ Noted(Empty(2), "UPDATE_DR", n1, FormatOf(FALSE)) = Control
      /\ Noted(Control, "UPDATE_DR", n3, FormatOf(FALSE)) = Part(n3)
      /\ Noted(Part(n3), "UPDATE_DR", n9, FormatOf(FALSE)) = Checking(0)
      /\ Noted(Control, "UPDATE_DR", n9, FormatOf(TRUE)) = Part(n9)
      /\ Noted(Part(n9), "UPDATE_DR", n0, FormatOf(TRUE)) = Reading
  BY <1>2, <1>3, SwitchNotes
<1>6. /\ Plain \in Adapters /\ Plain.check = 0 /\ Plain.ends = "none"
      /\ Empty(n1) \in Adapters /\ Empty(n1).check = 0 /\ Empty(2) \in Adapters /\ Empty(2).check = 0
      /\ Control \in Adapters /\ Control.check = 0 /\ Reading \in Adapters /\ Reading.check = 0
      /\ Reading.ends = "none" /\ Part(n9).ends = "none"
      /\ Part(n3) \in Adapters /\ Part(n3).check = 0 /\ Part(n9) \in Adapters /\ Part(n9).check = 0
  <2>1. n1 \in 0 .. 2 /\ 2 \in 0 .. 2
    BY <1>3
  <2>. QED BY <2>1, AdapterTypes
<1>7. Leads(SwitchHead(s), A, Rising(5))
  BY BlindHead, BenchHead
<1>8. Leads(l1, A, At(FALSE, "RUN_TEST_IDLE", Nat, Plain))
  <2>1. Leads(Times(50, Raw(1)), Rising(5), Rising(0))
    <3>. DEFINE op == Raw(1)
    <3>1. op \in PinOps /\ op.kind = "raw" /\ op.tms = 1 /\ op.at = Unnamed
      BY TmsOps DEF Bit
    <3>2. PICK n \in Nat, m \in Nat : n = 5 /\ m = 50
      OBVIOUS
    <3>3. n0 = IF m < n THEN n - m ELSE 0
      BY <1>3, <3>2
    <3>. HIDE DEF op
    <3>4. Leads(Times(m, op), Rising(n), Rising(n0))
      BY <3>1, <3>3, RiseTimes
    <3>. QED BY <1>3, <3>2, <3>4 DEF op
  <2>2. Leads(jtag_tlr_to_idle, Rising(0), At(FALSE, "RUN_TEST_IDLE", Nat, Plain))
    BY <1>6, RisingIdle, QuietSteps
  <2>3. Leads(SwitchHead(s) \o Times(50, Raw(1)), A, Rising(0))
    BY <1>7, <2>1, LeadsJoin
  <2>. QED BY <2>2, <2>3, LeadsJoin
<1>. HIDE DEF A, l1
<1>9. Leads(l2, A, At(FALSE, "UPDATE_DR", {n0}, Empty(2)))
  <2>1. Leads(l1 \o jtag_idle_to_sld \o dr_scan(n0), A, At(FALSE, "UPDATE_DR", {n0}, Empty(n1)))
    BY <1>4, <1>5, <1>6, <1>8, ThenScan
  <2>. DEFINE m == l1 \o jtag_idle_to_sld \o dr_scan(n0)
  <2>. HIDE DEF m
  <2>2. Leads(m, A, At(FALSE, "UPDATE_DR", {n0}, Empty(n1)))
    BY <2>1 DEF m
  <2>3. Leads(m \o jtag_udr_to_sld \o dr_scan(n0), A, At(FALSE, "UPDATE_DR", {n0}, Empty(2)))
    BY <1>4, <1>5, <1>6, <2>2, ThenScan
  <2>. QED BY <1>3, <2>3 DEF m
<1>. HIDE DEF l2
<1>10. Leads(l3, A, At(FALSE, "UPDATE_DR", {n1}, Control))
  <2>1. Leads(l2 \o jtag_udr_to_sld \o dr_scan(n1), A, At(FALSE, "UPDATE_DR", {n1}, Control))
    BY <1>4, <1>5, <1>6, <1>9, ThenScan
  <2>. QED BY <1>3, <2>1
<1>. HIDE DEF l3
<1>11. Leads(l4, A, At(FALSE, "UPDATE_DR", {n9}, Checking(0)))
  <2>1. Leads(l3 \o jtag_udr_to_sld \o dr_scan(n3), A, At(FALSE, "UPDATE_DR", {n3}, Part(n3)))
    BY <1>4, <1>5, <1>6, <1>10, ThenScan
  <2>. DEFINE m == l3 \o jtag_udr_to_sld \o dr_scan(n3)
  <2>. HIDE DEF m
  <2>2. Leads(m, A, At(FALSE, "UPDATE_DR", {n3}, Part(n3)))
    BY <2>1 DEF m
  <2>3. Leads(m \o jtag_udr_to_sld \o dr_scan(n9), A, At(FALSE, "UPDATE_DR", {n9}, Checking(0)))
    BY <1>4, <1>5, <1>6, <2>2, ThenScan
  <2>. QED BY <1>3, <2>3 DEF m
<1>. HIDE DEF l4
<1>12. Leads(l5, A, At(TRUE, "RUN_TEST_IDLE", Nat, Control))
  <2>1. Leads(l4 \o jtag_udr_to_idle \o Times(4, Raw(0)), A,
              Here(FALSE, "oscan1", "RUN_TEST_IDLE", Nat, Control))
    BY <1>11, ThenCheck
  <2>. QED BY <2>1, GoesOver, LeadsJoin
<1>. HIDE DEF l5
<1>13. Leads(l6, A, At(TRUE, "RUN_TEST_IDLE", {n9}, Part(n9)))
  <2>1. Leads(l5 \o jtag_idle_to_sld \o dr_scan(n9), A, At(TRUE, "UPDATE_DR", {n9}, Part(n9)))
    BY <1>4, <1>5, <1>6, <1>12, ThenScan
  <2>2. Leads(l5 \o jtag_idle_to_sld \o dr_scan(n9) \o jtag_udr_to_idle, A, At(TRUE, "RUN_TEST_IDLE", {n9}, Part(n9)))
    BY <1>6, <2>1, ThenIdle
  <2>. QED BY <1>3, <2>2
<1>. HIDE DEF l6
<1>14. Leads(l7, A, At(TRUE, "RUN_TEST_IDLE", {n0}, Reading))
  <2>1. Leads(l6 \o jtag_idle_to_sld \o dr_scan(n0), A, At(TRUE, "UPDATE_DR", {n0}, Reading))
    BY <1>4, <1>5, <1>6, <1>13, ThenScan
  <2>2. Leads(l6 \o jtag_idle_to_sld \o dr_scan(n0) \o jtag_udr_to_idle, A, At(TRUE, "RUN_TEST_IDLE", {n0}, Reading))
    BY <1>6, <2>1, ThenIdle
  <2>. QED BY <1>3, <2>2
<1>. HIDE DEF l7
<1>15. Leads(l8, A, At(TRUE, "CAPTURE_DR", {n0}, Reading))
  <2>1. /\ Leads(jtag_idle_to_sld, At(TRUE, "RUN_TEST_IDLE", {n0}, Reading), At(TRUE, "SELECT_DR_SCAN", {n0}, Reading))
        /\ Leads(jtag_sld_to_cdr, At(TRUE, "SELECT_DR_SCAN", {n0}, Reading), At(TRUE, "CAPTURE_DR", {n0}, Reading))
    BY <1>6, QuietSteps
  <2>2. Leads(l7 \o jtag_idle_to_sld, A, At(TRUE, "SELECT_DR_SCAN", {n0}, Reading))
    BY <1>14, <2>1, LeadsJoin
  <2>. QED BY <2>1, <2>2, LeadsJoin
<1>. HIDE DEF l8
<1>. QED BY <1>1, <1>3, <1>15 DEF A

LEMMA SwitchLeads ==
  ASSUME NEW s \in {<<"C", 2>>, <<"SV", 2>>}
  PROVE  Leads(switch_jtag2cjtag(s), Before(s), At(TRUE, "RUN_TEST_IDLE", Nat, Plain))
<1>. DEFINE A == Before(s)
            l8 == ToRdback(s) \o jtag_cdr_to_sdr \o send_dr(Zeros, ReadWidth)
            l9 == l8 \o jtag_e1d_to_udr \o jtag_udr_to_idle \o Times(4, Raw(0))
            lA == l9 \o quit_command \o jtag_keep_in_idle(5)
<1>1. switch_jtag2cjtag(s) = lA
  BY DEF switch_jtag2cjtag, ToRdback, SwitchHead, ToTwo
<1>2. FormatOf(TRUE) = "oscan1" /\ FormatOf(TRUE) \in Formats /\ ReadWidth = 32
  BY ScanAssumption DEF FormatOf, Formats
<1>3. PICK n32 \in Nat : n32 = 32 /\ n32 \in 1 .. 41 /\ n32 \in 0 .. 41
  OBVIOUS
<1>4. Noted(Reading, "UPDATE_DR", n32, FormatOf(TRUE)) = Checking(0)
  BY <1>2, <1>3, SwitchNotes
<1>5. Control \in Adapters /\ Control.check = 0 /\ Reading \in Adapters /\ Reading.check = 0
  BY AdapterTypes
<1>6. Leads(l8, A, At(TRUE, "EXIT1_DR", {n32}, Reading))
  <2>1. Leads(ToRdback(s), A, At(TRUE, "CAPTURE_DR", {0}, Reading))
    BY RdbackLeads
  <2>2. Leads(jtag_cdr_to_sdr, At(TRUE, "CAPTURE_DR", {0}, Reading), At(TRUE, "SHIFT_DR", {0}, Reading))
    <3>1. PICK z : z = {0}
      OBVIOUS
    <3>2. Leads(jtag_cdr_to_sdr, At(TRUE, "CAPTURE_DR", z, Reading), At(TRUE, "SHIFT_DR", {0}, Reading))
      BY <1>3, <1>5, CountedSteps
    <3>. QED BY <3>1, <3>2
  <2>3. Leads(send_dr(Zeros, n32), At(TRUE, "SHIFT_DR", {0}, Reading), At(TRUE, "EXIT1_DR", {n32}, Reading))
    BY <1>3, <1>5, ZerosOK, SendDr
  <2>4. Leads(ToRdback(s) \o jtag_cdr_to_sdr, A, At(TRUE, "SHIFT_DR", {0}, Reading))
    BY <2>1, <2>2, LeadsJoin
  <2>5. Leads(ToRdback(s) \o jtag_cdr_to_sdr \o send_dr(Zeros, n32), A, At(TRUE, "EXIT1_DR", {n32}, Reading))
    BY <2>3, <2>4, LeadsJoin
  <2>. QED BY <1>2, <1>3, <2>5
<1>. HIDE DEF l8
<1>7. Leads(l9, A, At(TRUE, "RUN_TEST_IDLE", Nat, Control))
  <2>1. Leads(jtag_e1d_to_udr, At(TRUE, "EXIT1_DR", {n32}, Reading), At(TRUE, "UPDATE_DR", {n32}, Checking(0)))
    BY <1>4, <1>5, NotedSteps
  <2>2. Leads(l8 \o jtag_e1d_to_udr, A, At(TRUE, "UPDATE_DR", {n32}, Checking(0)))
    BY <1>6, <2>1, LeadsJoin
  <2>3. {n32} \in SUBSET Nat
    OBVIOUS
  <2>4. Leads(l8 \o jtag_e1d_to_udr \o jtag_udr_to_idle \o Times(4, Raw(0)), A,
              Here(TRUE, "oscan1", "RUN_TEST_IDLE", Nat, Control))
    BY <2>2, <2>3, ThenCheck
  <2>. QED BY <1>2, <2>4 DEF At
<1>. HIDE DEF l9
<1>8. Leads(l9 \o quit_command, A, At(TRUE, "RUN_TEST_IDLE", Nat, Plain))
  <2>1. Leads(quit_command, At(TRUE, "RUN_TEST_IDLE", Nat, Control), At(TRUE, "RUN_TEST_IDLE", Nat, Plain))
    BY <1>5, QuitLeads
  <2>. QED BY <1>7, <2>1, LeadsJoin
<1>9. Leads(jtag_keep_in_idle(5), At(TRUE, "RUN_TEST_IDLE", Nat, Plain), At(TRUE, "RUN_TEST_IDLE", Nat, Plain))
  <2>1. PICK n \in Nat : n = 5
    OBVIOUS
  <2>2. Leads(jtag_keep_in_idle(n), At(TRUE, "RUN_TEST_IDLE", Nat, Plain), At(TRUE, "RUN_TEST_IDLE", Nat, Plain))
    BY KeepLeads
  <2>. QED BY <2>1, <2>2
<1>10. Leads(lA, A, At(TRUE, "RUN_TEST_IDLE", Nat, Plain))
  BY <1>8, <1>9, LeadsJoin
<1>. HIDE DEF lA
<1>. QED BY <1>1, <1>10 DEF A

-------------------------------------------------------------------------------
(* The lists of the calls                                                  *)

LEMMA Ways ==
  ASSUME NEW two \in BOOLEAN, NEW sh
  PROVE  /\ Leads(jtag_idle_to_shift_ir, At(two, "RUN_TEST_IDLE", sh, Plain), At(two, "SHIFT_IR", sh, Plain))
         /\ Leads(jtag_idle_to_shift_dr, At(two, "RUN_TEST_IDLE", sh, Plain), At(two, "SHIFT_DR", {0}, Plain))
         /\ Leads(jtag_exit_to_idle("UPDATE_IR"), At(two, "EXIT1_IR", sh, Plain), At(two, "RUN_TEST_IDLE", sh, Plain))
         /\ \A n \in Nat \ {0} : Leads(jtag_exit_to_idle("UPDATE_DR"),
                                       At(two, "EXIT1_DR", {n}, Plain), At(two, "RUN_TEST_IDLE", {n}, Plain))
<1>0. Plain \in Adapters /\ Plain.check = 0 /\ Plain.ends = "none"
  BY AdapterTypes
<1>. DEFINE sld == Tms(1, "SELECT_DR_SCAN")  sli == Tms(1, "SELECT_IR_SCAN")
            cir == Tms(0, "CAPTURE_IR")  sir == Tms(0, "SHIFT_IR")
            cdr == Tms(0, "CAPTURE_DR")  sdr == Tms(0, "SHIFT_DR")
            uir == Tms(1, "UPDATE_IR")  udr == Tms(1, "UPDATE_DR")  rti == Tms(0, "RUN_TEST_IDLE")
<1>1. /\ sld \in PinOps /\ sli \in PinOps /\ cir \in PinOps /\ sir \in PinOps /\ cdr \in PinOps
      /\ sdr \in PinOps /\ uir \in PinOps /\ udr \in PinOps /\ rti \in PinOps
  BY States, TmsOps DEF Bit
<1>2. /\ jtag_idle_to_sld = <<sld>> /\ jtag_sld_to_sli = <<sli>> /\ jtag_sli_to_cir = <<cir>>
      /\ jtag_cir_to_sir = <<sir>> /\ jtag_sld_to_cdr = <<cdr>> /\ jtag_cdr_to_sdr = <<sdr>>
      /\ jtag_e1i_to_uir = <<uir>> /\ jtag_e1d_to_udr = <<udr>>
      /\ jtag_uir_to_idle = <<rti>> /\ jtag_udr_to_idle = <<rti>>
  BY DEF jtag_idle_to_sld, jtag_sld_to_sli, jtag_sli_to_cir, jtag_cir_to_sir, jtag_sld_to_cdr, jtag_cdr_to_sdr,
         jtag_e1i_to_uir, jtag_e1d_to_udr, jtag_uir_to_idle, jtag_udr_to_idle
<1>3. /\ jtag_idle_to_shift_ir = <<sld, sli, cir, sir>> /\ jtag_idle_to_shift_dr = <<sld, cdr, sdr>>
      /\ jtag_exit_to_idle("UPDATE_IR") = <<uir, rti>> /\ jtag_exit_to_idle("UPDATE_DR") = <<udr, rti>>
  BY DEF jtag_idle_to_shift_ir, jtag_idle_to_shift_dr, jtag_exit_to_idle
<1>. HIDE DEF sld, sli, cir, sir, cdr, sdr, uir, udr, rti
<1>4. /\ jtag_idle_to_shift_ir = <<sld>> \o <<sli>> \o <<cir>> \o <<sir>>
      /\ jtag_idle_to_shift_dr = <<sld>> \o <<cdr>> \o <<sdr>>
      /\ jtag_exit_to_idle("UPDATE_IR") = <<uir>> \o <<rti>>
      /\ jtag_exit_to_idle("UPDATE_DR") = <<udr>> \o <<rti>>
  <2>0. <<sld, sli>> = <<sld>> \o <<sli>> /\ <<sld, cdr>> = <<sld>> \o <<cdr>>
    BY <1>1, Pair
  <2>1. <<sld, sli, cir, sir>> = <<sld>> \o <<sli>> \o <<cir>> \o <<sir>>
    <3>1. <<sld, sli, cir>> = <<sld, sli>> \o <<cir>>
      OBVIOUS
    <3>2. <<sld, sli, cir, sir>> = <<sld, sli, cir>> \o <<sir>>
      OBVIOUS
    <3>. QED BY <2>0, <3>1, <3>2
  <2>2. <<sld, cdr, sdr>> = <<sld>> \o <<cdr>> \o <<sdr>>
    <3>1. <<sld, cdr, sdr>> = <<sld, cdr>> \o <<sdr>>
      OBVIOUS
    <3>. QED BY <2>0, <3>1
  <2>3. <<uir, rti>> = <<uir>> \o <<rti>> /\ <<udr, rti>> = <<udr>> \o <<rti>>
    BY <1>1, Pair
  <2>. QED BY <1>3, <2>1, <2>2, <2>3
<1>5. /\ Leads(<<sld>>, At(two, "RUN_TEST_IDLE", sh, Plain), At(two, "SELECT_DR_SCAN", sh, Plain))
      /\ Leads(<<cdr>>, At(two, "SELECT_DR_SCAN", sh, Plain), At(two, "CAPTURE_DR", sh, Plain))
      /\ Leads(<<cir>>, At(two, "SELECT_IR_SCAN", sh, Plain), At(two, "CAPTURE_IR", sh, Plain))
      /\ Leads(<<sir>>, At(two, "CAPTURE_IR", sh, Plain), At(two, "SHIFT_IR", sh, Plain))
      /\ Leads(<<uir>>, At(two, "EXIT1_IR", sh, Plain), At(two, "UPDATE_IR", sh, Plain))
      /\ Leads(<<rti>>, At(two, "UPDATE_IR", sh, Plain), At(two, "RUN_TEST_IDLE", sh, Plain))
  BY <1>0, <1>2, QuietSteps
<1>6. /\ Leads(<<sli>>, At(two, "SELECT_DR_SCAN", sh, Plain), At(two, "SELECT_IR_SCAN", sh, Plain))
      /\ Leads(<<sdr>>, At(two, "CAPTURE_DR", sh, Plain), At(two, "SHIFT_DR", {0}, Plain))
  BY <1>0, <1>2, NotedSteps, CountedSteps
<1>7. Leads(jtag_idle_to_shift_ir, At(two, "RUN_TEST_IDLE", sh, Plain), At(two, "SHIFT_IR", sh, Plain))
  <2>1. Leads(<<sld>> \o <<sli>>, At(two, "RUN_TEST_IDLE", sh, Plain), At(two, "SELECT_IR_SCAN", sh, Plain))
    BY <1>5, <1>6, LeadsJoin
  <2>2. Leads(<<sld>> \o <<sli>> \o <<cir>>, At(two, "RUN_TEST_IDLE", sh, Plain), At(two, "CAPTURE_IR", sh, Plain))
    BY <1>5, <2>1, LeadsJoin
  <2>3. Leads(<<sld>> \o <<sli>> \o <<cir>> \o <<sir>>,
              At(two, "RUN_TEST_IDLE", sh, Plain), At(two, "SHIFT_IR", sh, Plain))
    BY <1>5, <2>2, LeadsJoin
  <2>. QED BY <1>4, <2>3
<1>8. Leads(jtag_idle_to_shift_dr, At(two, "RUN_TEST_IDLE", sh, Plain), At(two, "SHIFT_DR", {0}, Plain))
  <2>1. Leads(<<sld>> \o <<cdr>>, At(two, "RUN_TEST_IDLE", sh, Plain), At(two, "CAPTURE_DR", sh, Plain))
    BY <1>5, LeadsJoin
  <2>2. Leads(<<sld>> \o <<cdr>> \o <<sdr>>, At(two, "RUN_TEST_IDLE", sh, Plain), At(two, "SHIFT_DR", {0}, Plain))
    BY <1>6, <2>1, LeadsJoin
  <2>. QED BY <1>4, <2>2
<1>9. Leads(jtag_exit_to_idle("UPDATE_IR"), At(two, "EXIT1_IR", sh, Plain), At(two, "RUN_TEST_IDLE", sh, Plain))
  <2>1. Leads(<<uir>> \o <<rti>>, At(two, "EXIT1_IR", sh, Plain), At(two, "RUN_TEST_IDLE", sh, Plain))
    BY <1>5, LeadsJoin
  <2>. QED BY <1>4, <2>1
<1>10. ASSUME NEW n \in Nat \ {0}
       PROVE  Leads(jtag_exit_to_idle("UPDATE_DR"), At(two, "EXIT1_DR", {n}, Plain), At(two, "RUN_TEST_IDLE", {n}, Plain))
  <2>1. Noted(Plain, "UPDATE_DR", n, FormatOf(two)) = Plain
    BY SwitchNotes DEF FormatOf, Formats
  <2>2. Leads(<<udr>>, At(two, "EXIT1_DR", {n}, Plain), At(two, "UPDATE_DR", {n}, Plain))
    BY <1>0, <1>2, <2>1, NotedSteps
  <2>3. Leads(<<rti>>, At(two, "UPDATE_DR", {n}, Plain), At(two, "RUN_TEST_IDLE", {n}, Plain))
    BY <1>0, <1>2, QuietSteps
  <2>4. Leads(<<udr>> \o <<rti>>, At(two, "EXIT1_DR", {n}, Plain), At(two, "RUN_TEST_IDLE", {n}, Plain))
    BY <2>2, <2>3, LeadsJoin
  <2>. QED BY <1>4, <2>4
<1>. QED BY <1>7, <1>8, <1>9, <1>10

LEMMA AccessLeads ==
  ASSUME NEW two \in BOOLEAN, NEW sh, NEW code \in [1 .. 5 -> Bit], NEW p, PartsOK(p),
         NEW n \in Nat, n \in 1 .. 41
  PROVE  Leads(Access(code, p, n), At(two, "RUN_TEST_IDLE", sh, Plain), At(two, "EXIT1_DR", {n}, Plain))
<1>. DEFINE A == At(two, "RUN_TEST_IDLE", sh, Plain)
<1>0. Plain.check = 0
  BY AdapterTypes
<1>1. Leads(jtag_idle_to_shift_ir, A, At(two, "SHIFT_IR", sh, Plain))
  BY Ways
<1>2. Leads(send_ir(code), At(two, "SHIFT_IR", sh, Plain), At(two, "EXIT1_IR", sh, Plain))
  BY <1>0, SendIr
<1>3. Leads(jtag_exit_to_idle("UPDATE_IR"), At(two, "EXIT1_IR", sh, Plain), A)
  BY Ways
<1>4. Leads(jtag_idle_to_shift_dr, A, At(two, "SHIFT_DR", {0}, Plain))
  BY Ways
<1>5. Leads(send_dr(p, n), At(two, "SHIFT_DR", {0}, Plain), At(two, "EXIT1_DR", {n}, Plain))
  BY <1>0, SendDr
<1>. HIDE DEF A
<1>6. Leads(jtag_idle_to_shift_ir \o send_ir(code), A, At(two, "EXIT1_IR", sh, Plain))
  BY <1>1, <1>2, LeadsJoin
<1>7. Leads(jtag_idle_to_shift_ir \o send_ir(code) \o jtag_exit_to_idle("UPDATE_IR"), A, A)
  BY <1>3, <1>6, LeadsJoin
<1>8. Leads(jtag_idle_to_shift_ir \o send_ir(code) \o jtag_exit_to_idle("UPDATE_IR") \o jtag_idle_to_shift_dr,
            A, At(two, "SHIFT_DR", {0}, Plain))
  BY <1>4, <1>7, LeadsJoin
<1>9. Leads(jtag_idle_to_shift_ir \o send_ir(code) \o jtag_exit_to_idle("UPDATE_IR") \o jtag_idle_to_shift_dr
            \o send_dr(p, n), A, At(two, "EXIT1_DR", {n}, Plain))
  BY <1>5, <1>8, LeadsJoin
<1>. QED BY <1>9 DEF Access, A

LEMMA LeaveLeads ==
  ASSUME NEW two \in BOOLEAN, NEW n \in Nat \ {0}
  PROVE  /\ Leads(Leave, At(two, "EXIT1_DR", {n}, Plain), At(two, "RUN_TEST_IDLE", {n}, Plain))
         /\ Leads(Fetch, At(two, "EXIT1_DR", {n}, Plain), At(two, "EXIT1_DR", {41}, Plain))
<1>. DEFINE A == At(two, "EXIT1_DR", {n}, Plain)  B == At(two, "RUN_TEST_IDLE", {n}, Plain)
<1>0. Plain.check = 0
  BY AdapterTypes
<1>1. PICK m \in Nat, q \in Nat : m = 10 /\ q = 41 /\ q \in 1 .. 41
  OBVIOUS
<1>2. Leads(jtag_exit_to_idle("UPDATE_DR"), A, B)
  BY Ways
<1>3. Leads(jtag_keep_in_idle(m), B, B)
  BY KeepLeads
<1>4. Leads(jtag_idle_to_shift_dr, B, At(two, "SHIFT_DR", {0}, Plain))
  BY Ways
<1>5. Leads(send_dr(Zeros, q), At(two, "SHIFT_DR", {0}, Plain), At(two, "EXIT1_DR", {q}, Plain))
  BY <1>0, <1>1, ZerosOK, SendDr
<1>. HIDE DEF A, B
<1>6. Leads(Leave, A, B)
  BY <1>1, <1>2, <1>3, LeadsJoin DEF Leave
<1>7. Leads(Leave \o jtag_idle_to_shift_dr, A, At(two, "SHIFT_DR", {0}, Plain))
  BY <1>4, <1>6, LeadsJoin
<1>8. Leads(Leave \o jtag_idle_to_shift_dr \o send_dr(Zeros, q), A, At(two, "EXIT1_DR", {q}, Plain))
  BY <1>5, <1>7, LeadsJoin
<1>9. q = DmiWidth
  BY <1>1, ScanAssumption
<1>10. Leads(Fetch, A, At(two, "EXIT1_DR", {41}, Plain))
  BY <1>1, <1>8, <1>9 DEF Fetch
<1>. QED BY <1>6, <1>10 DEF A, B

LEMMA CallForms ==
  ASSUME NEW c \in Calls
  PROVE  /\ c.f \in {"start", "write", "read", "dtm"}
         /\ c.f = "write" => c.reg \in [1 .. 7 -> Bit] /\ c.word \in [1 .. 32 -> Bit]
         /\ c.f = "read" => c.reg \in [1 .. 7 -> Bit]
         /\ c.f = "dtm" => c.word \in [1 .. 32 -> Bit]
<1>1. RegNums \subseteq [1 .. 7 -> Bit] /\ Words \subseteq [1 .. 32 -> Bit]
  BY ScanAssumption
<1>2. CASE c = StartCall
  <2>1. c.f = "start"
    BY <1>2 DEF StartCall
  <2>. QED BY <2>1
<1>3. CASE c \in [f : {"write"}, reg : RegNums, word : Words]
  BY <1>1, <1>3
<1>4. CASE c \in [f : {"read"}, reg : RegNums]
  BY <1>1, <1>4
<1>5. CASE c \in [f : {"dtm"}, word : Words]
  BY <1>1, <1>5
<1>. QED BY <1>2, <1>3, <1>4, <1>5 DEF Calls

LEMMA AskedOK ==
  ASSUME NEW c \in Calls, c.f \in {"read", "write"}
  PROVE  PartsOK(Asked(c))
<1>1. <<0, 1>> \in [1 .. 2 -> Bit] /\ <<1, 0>> \in [1 .. 2 -> Bit]
  BY DEF Bit
<1>2. Zeros.mid \in [1 .. 32 -> Bit]
  BY ZerosOK DEF PartsOK
<1>3. CASE c.f = "write"
  <2>1. Asked(c) = [low |-> <<0, 1>>, mid |-> c.word, high |-> c.reg]
    BY <1>3 DEF Asked
  <2>2. c.reg \in [1 .. 7 -> Bit] /\ c.word \in [1 .. 32 -> Bit]
    BY <1>3, CallForms
  <2>. QED BY <1>1, <2>1, <2>2 DEF PartsOK
<1>4. CASE c.f = "read"
  <2>1. Asked(c) = [low |-> <<1, 0>>, mid |-> Zeros.mid, high |-> c.reg]
    BY <1>4 DEF Asked
  <2>2. c.reg \in [1 .. 7 -> Bit]
    BY <1>4, CallForms
  <2>. QED BY <1>1, <1>2, <2>1, <2>2 DEF PartsOK
<1>. QED BY <1>3, <1>4

\* A sequence of n elements is a function on 1 .. n.
LEMMA AsFunction ==
  ASSUME NEW S, NEW r \in Seq(S)
  PROVE  r \in [1 .. Len(r) -> S]
BY LenProperties

LEMMA DtmDataOK ==
  ASSUME NEW w \in [1 .. 32 -> Bit]
  PROVE  PartsOK(DtmData(w))
<1>1. w \in Seq(Bit) /\ Len(w) = 32
  <2>1. PICK n \in Nat : n = 32
    OBVIOUS
  <2>2. w \in [1 .. n -> Bit]
    BY <2>1
  <2>3. w \in Seq(Bit) /\ Len(w) = n
    BY <2>2, OfLength
  <2>. QED BY <2>1, <2>3
<1>. DEFINE low == SubSeq(w, 1, 2)  rest == SubSeq(w, 3, 32)  z == <<0, 0>>
<1>2. low \in Seq(Bit) /\ Len(low) = 2 /\ rest \in Seq(Bit) /\ Len(rest) = 30
  <2>1. \A i \in 1 .. 32 : w[i] \in Bit
    OBVIOUS
  <2>2. low \in Seq(Bit) /\ Len(low) = 2
    <3>1. \A i \in 1 .. 2 : w[i] \in Bit
      BY <2>1
    <3>2. PICK a \in Int, b \in Int : a = 1 /\ b = 2
      OBVIOUS
    <3>3. SubSeq(w, a, b) \in Seq(Bit) /\ Len(SubSeq(w, a, b)) = IF a <= b THEN b - a + 1 ELSE 0
      BY <1>1, <3>2, SubSeqProperties
    <3>. QED BY <3>2, <3>3
  <2>3. rest \in Seq(Bit) /\ Len(rest) = 30
    <3>1. PICK a \in Int, b \in Int : a = 3 /\ b = 32
      OBVIOUS
    <3>2. SubSeq(w, a, b) \in Seq(Bit) /\ Len(SubSeq(w, a, b)) = IF a <= b THEN b - a + 1 ELSE 0
      BY <1>1, <3>1, SubSeqProperties
    <3>. QED BY <3>1, <3>2
  <2>. QED BY <2>2, <2>3
<1>3. z \in Seq(Bit) /\ Len(z) = 2
  BY DEF Bit
<1>. HIDE DEF low, rest, z
<1>4. rest \o z \in Seq(Bit) /\ Len(rest \o z) = 32
  <2>1. rest \o z \in Seq(Bit) /\ Len(rest \o z) = Len(rest) + Len(z)
    BY <1>2, <1>3, ConcatProperties
  <2>. QED BY <1>2, <1>3, <2>1
<1>5. low \in [1 .. 2 -> Bit] /\ rest \o z \in [1 .. 32 -> Bit]
  BY <1>2, <1>4, AsFunction
<1>. DEFINE mid == rest \o z
<1>6. DtmData(w) = [low |-> low, mid |-> mid, high |-> Zeros.high]
  BY DEF DtmData, low, rest, z
<1>7. mid \in [1 .. 32 -> Bit] /\ Zeros.high \in [1 .. 7 -> Bit]
  BY <1>5, ZerosOK
<1>. HIDE DEF mid
<1>. QED BY <1>5, <1>6, <1>7 DEF PartsOK

TwoWire(s) == IF s[2] = 2 THEN TRUE ELSE FALSE
Idle(s) == At(TwoWire(s), "RUN_TEST_IDLE", Nat, Plain)
Mark(s, n) == At(TwoWire(s), "EXIT1_DR", {n}, Plain)
Starting(s) == IF s = <<"C", 2>> THEN {v \in Views : ~v.bench} ELSE Rising(5)
Middle(s, c) == IF c.f = "start" THEN Idle(s) ELSE Mark(s, IF c.f = "dtm" THEN 32 ELSE 41)

\* Where a list of a call begins and ends.
Begin(s, c, ph) == IF ph = "launch" THEN IF c.f = "start" THEN Starting(s) ELSE Idle(s)
                   ELSE Middle(s, c)
End(s, c, ph) == IF ph = "leave" THEN Idle(s) ELSE Middle(s, c)

LEMMA SetupForms ==
  ASSUME NEW s \in Setups
  PROVE  /\ s \in {<<"C", 2>>, <<"C", 4>>, <<"SV", 2>>} /\ TwoWire(s) \in BOOLEAN
         /\ s = <<"C", 2>> => TwoWire(s) = TRUE /\ s[1] = "C" /\ s[2] = 2
         /\ s = <<"C", 4>> => TwoWire(s) = FALSE /\ s[1] = "C" /\ s[2] = 4
         /\ s = <<"SV", 2>> => TwoWire(s) = TRUE /\ s[1] = "SV" /\ s[2] = 2
BY ScanAssumption DEF TwoWire

LEMMA StartLeads ==
  ASSUME NEW s \in Setups
  PROVE  Leads(Launch(s, StartCall), Starting(s), Idle(s))
<1>0. /\ s \in {<<"C", 2>>, <<"C", 4>>, <<"SV", 2>>} /\ StartCall.f = "start"
  BY SetupForms DEF StartCall
<1>. DEFINE head == IF s[1] = "SV" THEN jtag_reset(s) ELSE <<>>
            rest == IF s[2] = 4 THEN jtag_reset(s) ELSE switch_jtag2cjtag(s)
<1>1. Launch(s, StartCall) = head \o rest
  BY <1>0 DEF Launch
<1>2. Rising(5) \in SUBSET Views /\ {v \in Views : ~v.bench} \in SUBSET Views
  BY DEF Rising
<1>3. CASE s = <<"C", 2>>
  <2>1. head = <<>> /\ rest = switch_jtag2cjtag(s) /\ Starting(s) = {v \in Views : ~v.bench}
        /\ Before(s) = {v \in Views : ~v.bench}
        /\ Idle(s) = At(TRUE, "RUN_TEST_IDLE", Nat, Plain)
    BY <1>3, SetupForms DEF Starting, Before, Idle
  <2>2. Leads(<<>>, Starting(s), Starting(s))
    BY <1>2, <2>1, LeadsNone
  <2>3. Leads(switch_jtag2cjtag(s), Starting(s), Idle(s))
    BY <1>3, <2>1, SwitchLeads
  <2>. HIDE DEF head, rest
  <2>4. Leads(head \o rest, Starting(s), Idle(s))
    BY <2>1, <2>2, <2>3, LeadsJoin
  <2>. QED BY <1>1, <2>4
<1>4. CASE s = <<"C", 4>>
  <2>1. head = <<>> /\ rest = jtag_reset(s) /\ Starting(s) = Rising(5)
        /\ Idle(s) = At(FALSE, "RUN_TEST_IDLE", Nat, Plain)
    BY <1>4, SetupForms DEF Starting, Idle
  <2>2. Leads(<<>>, Starting(s), Starting(s))
    BY <1>2, <2>1, LeadsNone
  <2>3. Leads(jtag_reset(s), Starting(s), Idle(s))
    BY <1>4, <2>1, ResetLeads
  <2>. HIDE DEF head, rest
  <2>4. Leads(head \o rest, Starting(s), Idle(s))
    BY <2>1, <2>2, <2>3, LeadsJoin
  <2>. QED BY <1>1, <2>4
<1>5. CASE s = <<"SV", 2>>
  <2>. DEFINE B == At(FALSE, "RUN_TEST_IDLE", Nat, Plain)
  <2>1. head = jtag_reset(s) /\ rest = switch_jtag2cjtag(s) /\ Starting(s) = Rising(5) /\ Before(s) = B
        /\ Idle(s) = At(TRUE, "RUN_TEST_IDLE", Nat, Plain)
    <3>0. s[1] = "SV" /\ s[2] = 2 /\ TwoWire(s) = TRUE
      BY <1>5, SetupForms, Zenon
    <3>1. s[1] = "SV" /\ s[2] = 2 /\ TwoWire(s) = TRUE /\ s[2] # 4
      BY <3>0
    <3>2. <<"C", 2>>[1] = "C" /\ "C" # "SV"
      OBVIOUS
    <3>3. s # <<"C", 2>>
      BY <3>1, <3>2
    <3>. QED BY <3>1, <3>3 DEF Starting, Before, Idle
  <2>2. Leads(jtag_reset(s), Starting(s), B)
    BY <1>5, <2>1, ResetLeads
  <2>3. Leads(switch_jtag2cjtag(s), B, Idle(s))
    BY <1>5, <2>1, SwitchLeads
  <2>. HIDE DEF head, rest, B
  <2>4. Leads(head \o rest, Starting(s), Idle(s))
    BY <2>1, <2>2, <2>3, LeadsJoin
  <2>. QED BY <1>1, <2>4
<1>. QED BY <1>0, <1>3, <1>4, <1>5

LEMMA ListsLead ==
  ASSUME NEW s \in Setups, NEW c \in Calls
  PROVE  \A ph \in {"launch", "fetch", "leave"} : Leads(Lists[s][c][ph], Begin(s, c, ph), End(s, c, ph))
<1>. DEFINE two == TwoWire(s)
            l == Lists[s][c]
<1>1. /\ l["launch"] = Launch(s, c)
      /\ l["fetch"] = IF c.f \in {"read", "write"} THEN Fetch ELSE <<>>
      /\ l["leave"] = IF c.f = "start" THEN <<>> ELSE Leave
  BY DEF Lists
<1>2. two \in BOOLEAN /\ c.f \in {"start", "write", "read", "dtm"}
  BY SetupForms, CallForms
<1>3. \A n : Mark(s, n) = At(two, "EXIT1_DR", {n}, Plain)
  BY DEF Mark
<1>4. Idle(s) = At(two, "RUN_TEST_IDLE", Nat, Plain) /\ Idle(s) \in SUBSET Views /\ \A n : Mark(s, n) \in SUBSET Views
  BY HereViews DEF Idle, Mark
<1>. HIDE DEF l, two
<1>5. ASSUME NEW n \in Nat \ {0} PROVE Leads(Leave, Mark(s, n), Idle(s))
  <2>1. Leads(Leave, Mark(s, n), At(two, "RUN_TEST_IDLE", {n}, Plain))
    BY <1>2, <1>3, LeaveLeads
  <2>2. At(two, "RUN_TEST_IDLE", {n}, Plain) \subseteq Idle(s)
    BY <1>4 DEF At, Here
  <2>3. At(two, "RUN_TEST_IDLE", {n}, Plain) \in SUBSET Views
    BY HereViews
  <2>. QED BY <1>4, <2>1, <2>2, <2>3, LeadsWider
<1>6. CASE c.f = "start"
  <2>1. c = StartCall
    BY <1>6 DEF Calls, StartCall
  <2>2. Leads(l["launch"], Starting(s), Idle(s))
    BY <1>1, <2>1, StartLeads
  <2>3. Leads(<<>>, Idle(s), Idle(s))
    BY <1>4, LeadsNone
  <2>4. l["fetch"] = <<>> /\ l["leave"] = <<>>
    BY <1>1, <1>6
  <2>5. /\ Begin(s, c, "launch") = Starting(s) /\ Begin(s, c, "fetch") = Idle(s) /\ Begin(s, c, "leave") = Idle(s)
        /\ End(s, c, "launch") = Idle(s) /\ End(s, c, "fetch") = Idle(s) /\ End(s, c, "leave") = Idle(s)
    BY <1>6 DEF Begin, End, Middle
  <2>. QED BY <2>2, <2>3, <2>4, <2>5 DEF l
<1>7. CASE c.f \in {"read", "write"}
  <2>1. PICK n \in Nat \ {0} : n = 41 /\ n \in 1 .. 41
    OBVIOUS
  <2>2. Launch(s, c) = Access(DmiCode, Asked(c), n)
    BY <1>7, <2>1, ScanAssumption DEF Launch
  <2>3. DmiCode \in [1 .. 5 -> Bit] /\ PartsOK(Asked(c))
    BY <1>7, TapAssumption, AskedOK
  <2>4. Leads(Access(DmiCode, Asked(c), n), Idle(s), Mark(s, n))
    <3>1. Leads(Access(DmiCode, Asked(c), n), At(two, "RUN_TEST_IDLE", Nat, Plain),
                At(two, "EXIT1_DR", {n}, Plain))
      BY <1>2, <2>1, <2>3, AccessLeads
    <3>. QED BY <1>3, <1>4, <3>1
  <2>5. Leads(Fetch, Mark(s, n), Mark(s, n))
    BY <1>2, <1>3, <2>1, LeaveLeads
  <2>6. l["fetch"] = Fetch /\ l["leave"] = Leave
    BY <1>1, <1>7
  <2>7. /\ Begin(s, c, "launch") = Idle(s) /\ Begin(s, c, "fetch") = Mark(s, n) /\ Begin(s, c, "leave") = Mark(s, n)
        /\ End(s, c, "launch") = Mark(s, n) /\ End(s, c, "fetch") = Mark(s, n) /\ End(s, c, "leave") = Idle(s)
    BY <1>7, <2>1 DEF Begin, End, Middle
  <2>. QED BY <1>1, <1>5, <2>2, <2>4, <2>5, <2>6, <2>7 DEF l
<1>8. CASE c.f = "dtm"
  <2>1. PICK n \in Nat \ {0} : n = 32 /\ n \in 1 .. 41
    OBVIOUS
  <2>2. Launch(s, c) = Access(DtmcsCode, DtmData(c.word), n)
    BY <1>8, <2>1, ScanAssumption DEF Launch
  <2>3. DtmcsCode \in [1 .. 5 -> Bit] /\ PartsOK(DtmData(c.word))
    BY <1>8, TapAssumption, CallForms, DtmDataOK
  <2>4. Leads(Access(DtmcsCode, DtmData(c.word), n), Idle(s), Mark(s, n))
    <3>1. Leads(Access(DtmcsCode, DtmData(c.word), n), At(two, "RUN_TEST_IDLE", Nat, Plain),
                At(two, "EXIT1_DR", {n}, Plain))
      BY <1>2, <2>1, <2>3, AccessLeads
    <3>. QED BY <1>3, <1>4, <3>1
  <2>5. Leads(<<>>, Mark(s, n), Mark(s, n))
    BY <1>4, LeadsNone
  <2>6. l["fetch"] = <<>> /\ l["leave"] = Leave
    BY <1>1, <1>8
  <2>7. /\ Begin(s, c, "launch") = Idle(s) /\ Begin(s, c, "fetch") = Mark(s, n) /\ Begin(s, c, "leave") = Mark(s, n)
        /\ End(s, c, "launch") = Mark(s, n) /\ End(s, c, "fetch") = Mark(s, n) /\ End(s, c, "leave") = Idle(s)
    BY <1>8, <2>1 DEF Begin, End, Middle
  <2>. QED BY <1>1, <1>5, <2>2, <2>4, <2>5, <2>6, <2>7 DEF l
<1>. QED BY <1>2, <1>6, <1>7, <1>8

-------------------------------------------------------------------------------
(* The invariant                                                           *)

\* The view after j operations of a list is one the list leads to.
On(s, c, ph, j, v) ==
  LET l == Lists[s][c][ph] IN
  /\ j \in 0 .. Len(l)
  /\ \E f \in [0 .. Len(l) -> SUBSET Views] :
       Course(l, f) /\ v \in f[j] /\ f[Len(l)] \subseteq End(s, c, ph)

Phases == {"launch", "fetch", "leave"}

StepInv ==
  /\ BaseType
  /\ call \in Calls \cup {NoCall} /\ phase \in Phases
  /\ Fits(View, at) /\ at \in TapStates \cup {Unnamed}
  /\ call = NoCall => View \in Idle(setup) \/ (at = Unnamed /\ cjtag_mode = FALSE)
  /\ call # NoCall => On(setup, call, phase, k, View)

LEMMA OnEntry ==
  ASSUME NEW s \in Setups, NEW c \in Calls, NEW ph \in Phases, NEW v \in Begin(s, c, ph)
  PROVE  On(s, c, ph, 0, v)
<1>. DEFINE l == Lists[s][c][ph]
<1>1. Leads(l, Begin(s, c, ph), End(s, c, ph))
  BY ListsLead DEF Phases
<1>. HIDE DEF l
<1>2. Len(l) \in Nat
  BY <1>1 DEF Leads
<1>3. \E f \in [0 .. Len(l) -> SUBSET Views] :
        Course(l, f) /\ v \in f[0] /\ f[Len(l)] \subseteq End(s, c, ph)
  BY <1>1 DEF Leads
<1>. QED BY <1>2, <1>3 DEF On, l

LEMMA OnNext ==
  ASSUME NEW s \in Setups, NEW c \in Calls, NEW ph \in Phases, NEW j \in Nat, NEW v, NEW w \in Views,
         On(s, c, ph, j, v), j < Len(Lists[s][c][ph]), Goes(v, Lists[s][c][ph][j + 1], w)
  PROVE  On(s, c, ph, j + 1, w) /\ Fits(w, Lists[s][c][ph][j + 1].at)
<1>. DEFINE l == Lists[s][c][ph]
<1>1. PICK f \in [0 .. Len(l) -> SUBSET Views] : Course(l, f) /\ v \in f[j] /\ f[Len(l)] \subseteq End(s, c, ph)
  BY DEF On
<1>2. Leads(l, Begin(s, c, ph), End(s, c, ph))
  BY ListsLead DEF Phases
<1>3. j < Len(l) /\ Goes(v, l[j + 1], w)
  OBVIOUS
<1>4. l \in Seq(PinOps)
  BY <1>2 DEF Leads
<1>. HIDE DEF l
<1>5. j + 1 \in 1 .. Len(l) /\ (j + 1) - 1 = j
  BY <1>3, <1>4
<1>6. w \in f[j + 1] /\ Fits(w, l[j + 1].at)
  BY <1>1, <1>3, <1>5 DEF Course
<1>7. j + 1 \in 0 .. Len(l)
  BY <1>5
<1>8. \E g \in [0 .. Len(l) -> SUBSET Views] :
        Course(l, g) /\ w \in g[j + 1] /\ g[Len(l)] \subseteq End(s, c, ph)
  BY <1>1, <1>6
<1>. QED BY <1>6, <1>7, <1>8 DEF On, l

LEMMA OnEnd ==
  ASSUME NEW s, NEW c, NEW ph, NEW v, On(s, c, ph, Len(Lists[s][c][ph]), v)
  PROVE  v \in End(s, c, ph)
BY DEF On

LEMMA ListOps ==
  ASSUME NEW s \in Setups, NEW c \in Calls, NEW ph \in Phases, NEW j \in 1 .. Len(Lists[s][c][ph])
  PROVE  Lists[s][c][ph][j] \in PinOps
<1>. DEFINE l == Lists[s][c][ph]
<1>1. Leads(l, Begin(s, c, ph), End(s, c, ph))
  BY ListsLead DEF Phases
<1>2. j \in 1 .. Len(l)
  OBVIOUS
<1>. HIDE DEF l
<1>3. l \in Seq(PinOps)
  BY <1>1 DEF Leads
<1>4. l[j] \in PinOps
  BY <1>2, <1>3
<1>. QED BY <1>4 DEF l

LEMMA ResetType ==
  Reset \in [adapter : BOOLEAN, tap : TapStates, ir : [1 .. 5 -> Bit], isr : [1 .. 5 -> Bit],
             sr : Seq(Bit) \ {<<>>}, cap : Seq(Bit) \ {<<>>}, answer : [1 .. DmiWidth -> Bit],
             fmt : Formats, slot : 0 .. 2, ntdi : Bit, ptms : Bit,
             zbs : 0 .. 2, level : Levels, shifts : Nat, part : Nat,
             reading : BOOLEAN, ends : Ends, check : 0 .. 4]
<1>1. <<0>> \in Seq(Bit) \ {<<>>}
  BY DEF Bit
<1>2. [k_ \in 1 .. DmiWidth |-> 0] \in [1 .. DmiWidth -> Bit]
  BY DEF Bit
<1>3. "TEST_LOGIC_RESET" \in TapStates /\ IdcodeCode \in [1 .. 5 -> Bit]
  BY States, Codes
<1>4. /\ "four_wire" \in Formats /\ 0 \in 0 .. 2 /\ 0 \in Bit /\ "data" \in Levels /\ 0 \in Nat /\ NoPart \in Nat
      /\ "none" \in Ends /\ 0 \in 0 .. 4 /\ FALSE \in BOOLEAN /\ TRUE \in BOOLEAN
  BY DEF Formats, Bit, Levels, Ends, NoPart
<1>. QED BY <1>1, <1>2, <1>3, <1>4 DEF Reset

LEMMA InitChip ==
  ASSUME NEW a \in BOOLEAN
  PROVE  [Reset EXCEPT !.adapter = a] \in Chips /\ Muted([Reset EXCEPT !.adapter = a])
<1>. DEFINE c == [Reset EXCEPT !.adapter = a]
<1>1. c \in [adapter : BOOLEAN, tap : TapStates, ir : [1 .. 5 -> Bit], isr : [1 .. 5 -> Bit],
             sr : Seq(Bit) \ {<<>>}, cap : Seq(Bit) \ {<<>>}, answer : [1 .. DmiWidth -> Bit],
             fmt : Formats, slot : 0 .. 2, ntdi : Bit, ptms : Bit,
             zbs : 0 .. 2, level : Levels, shifts : Nat, part : Nat,
             reading : BOOLEAN, ends : Ends, check : 0 .. 4]
  BY ResetType
<1>2. c.check = 0 /\ c.fmt = "four_wire" /\ c.slot = 0
  BY DEF Reset
<1>3. AdapterOf(c) = Plain
  BY DEF Reset, AdapterOf, Plain
<1>. HIDE DEF c
<1>4. c \in Chips
  BY <1>1, <1>2 DEF Chips
<1>5. Muted(c)
  BY <1>2, <1>3 DEF Muted
<1>. QED BY <1>4, <1>5 DEF c

LEMMA RemainsOK == \A r \in Remains : r \in Seq(Bit) \ {<<>>}
<1>. SUFFICES ASSUME NEW r \in Remains PROVE r \in Seq(Bit) \ {<<>>}
  OBVIOUS
<1>1. r \in [1 .. DmiWidth -> Bit] /\ DmiWidth \in Nat /\ DmiWidth > 0
  BY TapAssumption, ScanAssumption
<1>. QED BY <1>1, OfLength

\* The chip a start-up may meet.
LEMMA MetWithout ==
  ASSUME NEW c \in AnywhereWithout
  PROVE  c \in Chips /\ Muted(c) /\ c.adapter = FALSE
<1>1. PICK s \in TapStates, code \in {IdcodeCode, DmiCode}, r \in Remains : c = FoundWithout(s, code, r)
  BY DEF AnywhereWithout
<1>2. code \in [1 .. 5 -> Bit] /\ r \in Seq(Bit) \ {<<>>}
  BY Codes, TapAssumption, RemainsOK
<1>3. PICK b \in BOOLEAN : b = FALSE
  OBVIOUS
<1>4. c = [Reset EXCEPT !.adapter = b, !.tap = s, !.ir = code, !.sr = r]
  BY <1>1, <1>3 DEF FoundWithout
<1>5. c \in [adapter : BOOLEAN, tap : TapStates, ir : [1 .. 5 -> Bit], isr : [1 .. 5 -> Bit],
             sr : Seq(Bit) \ {<<>>}, cap : Seq(Bit) \ {<<>>}, answer : [1 .. DmiWidth -> Bit],
             fmt : Formats, slot : 0 .. 2, ntdi : Bit, ptms : Bit,
             zbs : 0 .. 2, level : Levels, shifts : Nat, part : Nat,
             reading : BOOLEAN, ends : Ends, check : 0 .. 4]
  BY <1>2, <1>4, ResetType
<1>6. c.check = 0 /\ c.fmt = "four_wire" /\ c.slot = 0 /\ c.adapter = b
  BY <1>4 DEF Reset
<1>7. AdapterOf(c) = Plain
  BY <1>4 DEF Reset, AdapterOf, Plain
<1>8. c \in Chips
  BY <1>5, <1>6 DEF Chips
<1>9. Muted(c)
  BY <1>6, <1>7 DEF Muted
<1>. QED BY <1>3, <1>6, <1>8, <1>9

LEMMA MetWith ==
  ASSUME NEW formats \in SUBSET Formats, NEW c \in Anywhere(formats)
  PROVE  /\ c \in Chips /\ Muted(c) /\ c.adapter
         /\ formats = {"four_wire"} => c.check = 0 /\ c.slot = 0 /\ c.fmt = "four_wire"
<1>1. PICK s \in TapStates, code \in {IdcodeCode, DmiCode}, r \in Remains,
          a \in Midway(formats) : c = Found(s, code, r, a)
  BY DEF Anywhere
<1>. DEFINE Slots == IF formats = {"four_wire"} THEN {0} ELSE 0 .. 2
            EndsMet == IF formats = {"four_wire"} THEN {"none"} ELSE {"none", "oscan1"}
<1>2. a \in [fmt : formats, slot : Slots, zbs : {0, 2}, level : {"data", "control"}, part : {NoPart, 3},
             ends : EndsMet]
  BY DEF Midway
<1>3. Slots \subseteq 0 .. 2 /\ EndsMet \subseteq Ends
  <2>1. {0} \subseteq 0 .. 2 /\ 0 .. 2 \subseteq 0 .. 2
    OBVIOUS
  <2>2. {"none"} \subseteq Ends /\ {"none", "oscan1"} \subseteq Ends
    BY DEF Ends, Formats
  <2>. QED BY <2>1, <2>2, Zenon
<1>4. formats = {"four_wire"} => Slots = {0} /\ EndsMet = {"none"}
  OBVIOUS
<1>. HIDE DEF Slots, EndsMet
<1>5. PICK f, q, z, l, p, e : f = a.fmt /\ q = a.slot /\ z = a.zbs /\ l = a.level /\ p = a.part /\ e = a.ends
  OBVIOUS
<1>6. /\ f \in formats /\ q \in Slots /\ z \in {0, 2} /\ l \in {"data", "control"}
      /\ p \in {NoPart, 3} /\ e \in EndsMet
  BY <1>2, <1>5
<1>7. PICK n : n = IF e = "none" THEN 0 ELSE 2
  OBVIOUS
<1>8. c = [Reset EXCEPT !.tap = s, !.ir = code, !.sr = r, !.fmt = f, !.slot = q, !.zbs = z,
                 !.level = l, !.part = p, !.ends = e, !.check = n]
  BY <1>1, <1>5, <1>7 DEF Found
<1>9. /\ code \in [1 .. 5 -> Bit] /\ r \in Seq(Bit) \ {<<>>} /\ q \in 0 .. 2 /\ z \in 0 .. 2 /\ l \in Levels /\ p \in Nat /\ e \in Ends
      /\ n \in 0 .. 4 /\ f \in Formats /\ (n > 0 => e # "none")
  BY <1>3, <1>6, <1>7, Codes, TapAssumption, RemainsOK DEF Levels, NoPart
<1>10. c \in [adapter : BOOLEAN, tap : TapStates, ir : [1 .. 5 -> Bit], isr : [1 .. 5 -> Bit],
             sr : Seq(Bit) \ {<<>>}, cap : Seq(Bit) \ {<<>>}, answer : [1 .. DmiWidth -> Bit],
             fmt : Formats, slot : 0 .. 2, ntdi : Bit, ptms : Bit,
             zbs : 0 .. 2, level : Levels, shifts : Nat, part : Nat,
             reading : BOOLEAN, ends : Ends, check : 0 .. 4]
  BY <1>8, <1>9, ResetType
<1>11. c.check = n /\ c.ends = e /\ c.slot = q /\ c.fmt = f /\ c.adapter
  BY <1>8 DEF Reset
<1>12. formats = {"four_wire"} => n = 0 /\ q = 0 /\ f = "four_wire"
  BY <1>4, <1>6, <1>7
<1>13. c \in Chips
  BY <1>9, <1>10, <1>11 DEF Chips
<1>. QED BY <1>11, <1>12, <1>13 DEF Muted

LEMMA NoCallIsNone == \A c \in Calls : c # NoCall
<1>1. \A c \in Calls : c.f \in {"start", "write", "read", "dtm"}
  BY CallForms
<1>2. NoCall.f = "none"
  BY DEF NoCall
<1>. QED BY <1>1, <1>2

LEMMA ViewType ==
  ASSUME BaseType'
  PROVE  View' \in Views
<1>1. chip' \in Chips /\ Muted(chip)'
  BY DEF BaseType
<1>2. AdapterOf(chip)' \in Adapters
  BY <1>1 DEF Chips, AdapterOf, Adapters
<1>. QED BY <1>1, <1>2 DEF BaseType, View, Views, Muted, Chips

\* The call that ends, or has not begun, waits in the view the next one takes up.
LEMMA ViewIs ==
  /\ View.adapter = chip.adapter /\ View.bench = (program = "SV") /\ View.two = cjtag_mode /\ View.tck = tck
  /\ View.tap = chip.tap /\ View.mon = monitor /\ View.fmt = chip.fmt /\ View.slot = chip.slot
  /\ View.shifts = chip.shifts /\ View.ad = AdapterOf(chip)
BY DEF View

LEMMA FitsUnnamed == \A v : Fits(v, Unnamed)
BY DEF Fits

LEMMA InitSteps ==
  ASSUME Init
  PROVE  StepInv
<1>1. PICK a \in BOOLEAN : chip = [Reset EXCEPT !.adapter = a]
  BY DEF Init
<1>2. chip \in Chips /\ Muted(chip)
  BY <1>1, InitChip
<1>3. BaseType
  BY <1>2, States DEF Init, BaseType, Bit
<1>4. call = NoCall /\ at = Unnamed /\ cjtag_mode = FALSE /\ phase = "leave"
  BY DEF Init
<1>5. phase \in Phases
  BY <1>4 DEF Phases
<1>6. Fits(View, at)
  BY <1>4, FitsUnnamed
<1>. QED BY <1>3, <1>4, <1>5, <1>6, NoCallIsNone DEF StepInv

LEMMA StartView ==
  ASSUME StepInv, Start
  PROVE  BaseType' /\ View' \in Starting(setup)
<1>1. /\ setup \in Setups /\ setup' = setup /\ monitor \in TapStates /\ monitor' = monitor /\ call = NoCall
      /\ call' = StartCall /\ phase' = "launch" /\ k' = 0 /\ at' = Unnamed /\ tck' = 0
      /\ cjtag_mode \in BOOLEAN /\ cjtag_mode' \in BOOLEAN
  BY DEF StepInv, BaseType, Start
<1>2. /\ chip' \in Chips /\ Muted(chip')
      /\ setup # <<"C", 2>> /\ chip'.adapter => chip'.check = 0 /\ chip'.slot = 0 /\ chip'.fmt = "four_wire"
  <2>1. CASE ~chip.adapter
    <3>1. chip' \in AnywhereWithout
      BY <2>1 DEF Start
    <3>2. chip' \in Chips /\ Muted(chip') /\ chip'.adapter = FALSE
      BY <3>1, MetWithout
    <3>. QED BY <3>2
  <2>2. CASE chip.adapter
    <3>1. PICK formats : formats = IF setup = <<"C", 2>> THEN Formats ELSE {"four_wire"}
      OBVIOUS
    <3>2. formats \in SUBSET Formats /\ chip' \in Anywhere(formats)
      BY <2>2, <3>1 DEF Start, Formats
    <3>3. chip' \in Chips /\ Muted(chip')
      BY <3>2, MetWith
    <3>4. formats = {"four_wire"} => chip'.check = 0 /\ chip'.slot = 0 /\ chip'.fmt = "four_wire"
      BY <3>2, MetWith
    <3>. QED BY <3>1, <3>3, <3>4
  <2>. QED BY <2>1, <2>2
<1>3. BaseType'
  BY <1>1, <1>2 DEF BaseType, Bit, Muted, AdapterOf
<1>4. /\ setup \in {<<"C", 2>>, <<"C", 4>>, <<"SV", 2>>}
      /\ setup = <<"C", 2>> => program' = "C"
      /\ setup = <<"C", 4>> => program = "C" /\ TwoWire(setup) = FALSE
      /\ setup = <<"SV", 2>> => program = "SV"
  BY <1>1, SetupForms DEF program
<1>5. View' \in Views
  BY <1>3, ViewType
<1>6. /\ View'.adapter = chip'.adapter /\ View'.bench = (program' = "SV") /\ View'.two = cjtag_mode' /\ View'.tck = tck'
      /\ View'.tap = chip'.tap /\ View'.mon = monitor' /\ View'.fmt = chip'.fmt /\ View'.slot = chip'.slot
      /\ View'.shifts = chip'.shifts /\ View'.ad = AdapterOf(chip')
  BY DEF View, AdapterOf
<1>7. View' \in Starting(setup)
  <2>1. CASE setup = <<"C", 2>>
    BY <1>4, <1>5, <1>6, <2>1 DEF Starting
  <2>2. CASE setup # <<"C", 2>>
    <3>1. cjtag_mode' = FALSE
      <4>1. CASE setup = <<"SV", 2>>
        BY <1>4, <4>1 DEF Start
      <4>2. CASE setup = <<"C", 4>>
        <5>1. cjtag_mode = FALSE
          <6>1. CASE at = Unnamed /\ cjtag_mode = FALSE
            BY <6>1
          <6>2. CASE View \in Idle(setup)
            <7>1. View.two = FALSE
              BY <1>4, <4>2, <6>2 DEF Idle, At, Here
            <7>. QED BY <7>1, ViewIs
          <6>. QED BY <1>1, <6>1, <6>2 DEF StepInv
        <5>. QED BY <1>4, <4>2, <5>1 DEF Start
      <4>. QED BY <1>4, <2>2, <4>1, <4>2
    <3>2. chip'.tap \in TapStates /\ chip'.check = AdapterOf(chip').check
      BY <1>2 DEF Chips, AdapterOf
    <3>3. Highs(chip'.tap) <= 5 /\ Highs(monitor) <= 5
      BY <1>1, <3>2, AllHighs
    <3>4. View' \in Rising(5)
      BY <1>1, <1>2, <1>5, <1>6, <2>2, <3>1, <3>2, <3>3 DEF Rising
    <3>. QED BY <2>2, <3>4 DEF Starting
  <2>. QED BY <2>1, <2>2
<1>. QED BY <1>3, <1>7

LEMMA StartSteps ==
  ASSUME StepInv, Start
  PROVE  StepInv'
<1>1. /\ setup \in Setups /\ setup' = setup
      /\ call' = StartCall /\ phase' = "launch" /\ k' = 0 /\ at' = Unnamed
  BY DEF StepInv, BaseType, Start
<1>2. BaseType' /\ View' \in Starting(setup)
  BY StartView
<1>3. StartCall \in Calls /\ StartCall.f = "start" /\ "launch" \in Phases
  BY DEF Calls, StartCall, Phases
<1>4. View' \in Begin(setup, StartCall, "launch")
  BY <1>2, <1>3 DEF Begin
<1>5. On(setup, StartCall, "launch", 0, View')
  BY <1>1, <1>3, <1>4, OnEntry
<1>6. On(setup', call', phase', k', View')
  BY <1>1, <1>5
<1>7. Fits(View', at')
  BY <1>1, FitsUnnamed
<1>8. call' # NoCall /\ call' \in Calls \cup {NoCall} /\ phase' \in Phases
  BY <1>1, <1>3, NoCallIsNone
<1>. QED BY <1>1, <1>2, <1>6, <1>7, <1>8, Zenon DEF StepInv

\* No pin moves between the lists.
LEMMA Unmoved ==
  ASSUME StepInv, UNCHANGED <<setup, cjtag_mode, tck, chip, monitor>>
  PROVE  BaseType' /\ View' = View
<1>1. AdapterOf(chip)' = AdapterOf(chip)
  BY DEF AdapterOf
<1>2. View' = View
  BY <1>1 DEF View, program
<1>3. Muted(chip)' = Muted(chip)
  BY <1>1 DEF Muted
<1>4. BaseType
  BY DEF StepInv
<1>5. BaseType'
  BY <1>3, <1>4 DEF BaseType
<1>. QED BY <1>2, <1>5

LEMMA CallSteps ==
  ASSUME StepInv, NEW c \in Calls \ {StartCall}, Call(c)
  PROVE  StepInv'
<1>1. /\ call = NoCall /\ at # Unnamed /\ call' = c /\ phase' = "launch" /\ k' = 0 /\ at' = at /\ setup' = setup
      /\ UNCHANGED <<setup, cjtag_mode, tck, chip, monitor>>
  BY DEF Call
<1>2. BaseType' /\ View' = View
  BY <1>1, Unmoved
<1>3. View \in Idle(setup) /\ setup \in Setups /\ Fits(View, at) /\ at \in TapStates \cup {Unnamed}
  BY <1>1 DEF StepInv, BaseType
<1>4. c \in Calls /\ c.f # "start" /\ c # NoCall /\ "launch" \in Phases
  <2>1. c.f # "start"
    BY DEF Calls, StartCall
  <2>. QED BY <2>1, NoCallIsNone DEF Phases
<1>5. View \in Begin(setup, c, "launch")
  BY <1>3, <1>4 DEF Begin
<1>6. On(setup, c, "launch", 0, View)
  BY <1>3, <1>4, <1>5, OnEntry
<1>7. On(setup', call', phase', k', View')
  BY <1>1, <1>2, <1>6
<1>8. Fits(View', at')
  BY <1>1, <1>2, <1>3
<1>. QED BY <1>1, <1>2, <1>3, <1>4, <1>7, <1>8, Zenon DEF StepInv

LEMMA StepSteps ==
  ASSUME StepInv, Step
  PROVE  StepInv'
<1>1. /\ BaseType /\ setup \in Setups /\ call \in Calls /\ phase \in Phases
      /\ On(setup, call, phase, k, View)
  BY DEF StepInv, Step, BaseType
<1>2. k < Len(list) /\ k' = k + 1 /\ setup' = setup /\ call' = call /\ phase' = phase
  BY DEF Step
<1>3. k \in 0 .. Len(list)
  BY <1>1 DEF On, list
<1>. DEFINE op == list[k + 1]
<1>4. Does(op) /\ at' = op.at
  BY StepDoes
<1>5. Len(list) \in Nat
  <2>1. list \in Seq(PinOps)
    BY <1>1, ListsLead DEF Leads, list, Phases
  <2>. QED BY <2>1
<1>6. k \in Nat /\ k + 1 \in 1 .. Len(list)
  BY <1>2, <1>3, <1>5
<1>7. op \in PinOps
  <2>1. k + 1 \in 1 .. Len(Lists[setup][call][phase])
    BY <1>6 DEF list
  <2>2. Lists[setup][call][phase][k + 1] \in PinOps
    BY <1>1, <2>1, ListOps
  <2>. QED BY <2>2 DEF list
<1>8. BaseType' /\ Goes(View, op, View')
  BY <1>1, <1>4, <1>7, DoesGo
<1>9. View' \in Views
  BY <1>8, ViewType
<1>10. On(setup, call, phase, k + 1, View') /\ Fits(View', op.at)
  <2>1. k < Len(Lists[setup][call][phase]) /\ Goes(View, Lists[setup][call][phase][k + 1], View')
    BY <1>2, <1>8 DEF list
  <2>2. On(setup, call, phase, k + 1, View') /\ Fits(View', Lists[setup][call][phase][k + 1].at)
    BY <1>1, <1>6, <1>9, <2>1, OnNext
  <2>. QED BY <2>2 DEF list
<1>11. op.at \in TapStates \cup {Unnamed}
  BY <1>7 DEF PinOps
<1>12. On(setup', call', phase', k', View') /\ Fits(View', at') /\ at' \in TapStates \cup {Unnamed}
  BY <1>2, <1>4, <1>10, <1>11
<1>13. call' # NoCall /\ call' \in Calls \cup {NoCall} /\ phase' \in Phases
  BY <1>1, <1>2, NoCallIsNone
<1>. QED BY <1>8, <1>12, <1>13, Zenon DEF StepInv

\* A list is done and another is taken up.
LEMMA TakenUp ==
  ASSUME StepInv, call # NoCall, k = Len(list), phase \in {"launch", "fetch"}, call' = call,
         phase' \in {"fetch", "leave"}, k' = 0, at' = at, UNCHANGED <<setup, cjtag_mode, tck, chip, monitor>>
  PROVE  StepInv'
<1>1. /\ setup \in Setups /\ call \in Calls /\ On(setup, call, phase, k, View)
      /\ Fits(View, at) /\ at \in TapStates \cup {Unnamed}
  BY DEF StepInv, BaseType
<1>2. BaseType' /\ View' = View
  BY Unmoved
<1>3. View \in End(setup, call, phase)
  BY <1>1, OnEnd DEF list
<1>4. View \in Begin(setup, call, phase') /\ phase' \in Phases
  BY <1>3 DEF End, Begin, Phases
<1>5. On(setup, call, phase', 0, View)
  BY <1>1, <1>4, OnEntry
<1>6. On(setup', call', phase', k', View') /\ Fits(View', at')
  BY <1>1, <1>2, <1>5
<1>7. call' # NoCall /\ call' \in Calls \cup {NoCall} /\ at' \in TapStates \cup {Unnamed}
  BY <1>1
<1>. QED BY <1>2, <1>4, <1>6, <1>7, Zenon DEF StepInv

LEMMA ReturnSteps ==
  ASSUME StepInv, Return
  PROVE  StepInv'
<1>1. /\ call # NoCall /\ phase = "leave" /\ k = Len(list) /\ call' = NoCall /\ phase' = phase /\ at' = at
      /\ UNCHANGED <<setup, cjtag_mode, tck, chip, monitor>>
  BY DEF Return
<1>2. /\ On(setup, call, phase, k, View) /\ Fits(View, at) /\ at \in TapStates \cup {Unnamed} /\ phase \in Phases
  BY <1>1 DEF StepInv
<1>3. BaseType' /\ View' = View
  BY <1>1, Unmoved
<1>4. View \in End(setup, call, phase)
  BY <1>1, <1>2, OnEnd DEF list
<1>5. View' \in Idle(setup')
  BY <1>1, <1>3, <1>4 DEF End
<1>6. Fits(View', at') /\ at' \in TapStates \cup {Unnamed} /\ phase' \in Phases
  BY <1>1, <1>2, <1>3
<1>. QED BY <1>1, <1>3, <1>5, <1>6, Zenon DEF StepInv

LEMMA NextSteps ==
  ASSUME StepInv, [Next]_vars
  PROVE  StepInv'
<1>1. CASE Start
  BY <1>1, StartSteps
<1>2. ASSUME NEW c \in Calls \ {StartCall}, Call(c)
      PROVE  StepInv'
  BY <1>2, CallSteps
<1>3. CASE Step
  BY <1>3, StepSteps
<1>4. CASE Launched
  <2>1. /\ call # NoCall /\ k = Len(list) /\ phase \in {"launch", "fetch"} /\ call' = call
        /\ phase' \in {"fetch", "leave"} /\ k' = 0 /\ at' = at /\ UNCHANGED <<setup, cjtag_mode, tck, chip, monitor>>
    BY <1>4 DEF Launched
  <2>. QED BY <2>1, TakenUp
<1>5. CASE Fetched
  <2>1. /\ call # NoCall /\ k = Len(list) /\ phase \in {"launch", "fetch"} /\ call' = call
        /\ phase' \in {"fetch", "leave"} /\ k' = 0 /\ at' = at /\ UNCHANGED <<setup, cjtag_mode, tck, chip, monitor>>
    BY <1>5 DEF Fetched
  <2>. QED BY <2>1, TakenUp
<1>6. CASE Return
  BY <1>6, ReturnSteps
<1>7. CASE UNCHANGED vars
  <2>1. /\ UNCHANGED <<setup, cjtag_mode, tck, chip, monitor>>
        /\ call' = call /\ phase' = phase /\ k' = k /\ at' = at /\ setup' = setup /\ cjtag_mode' = cjtag_mode
    BY <1>7 DEF vars
  <2>2. BaseType' /\ View' = View
    BY <2>1, Unmoved
  <2>. QED BY <2>1, <2>2 DEF StepInv
<1>. QED BY <1>1, <1>2, <1>3, <1>4, <1>5, <1>6, <1>7 DEF Next

LEMMA InvSteps == Spec => []StepInv
<1>1. Init => StepInv
  BY InitSteps
<1>2. StepInv /\ [Next]_vars => StepInv'
  BY NextSteps
<1>. QED BY <1>1, <1>2, PTL DEF Spec

\* Whatever the chip had been told before a start-up, and in either format,
\* each step leaves the TAP in the state its function is named for and the
\* next packet where the chip expects one.
THEOREM InStepHolds == Spec => []InStep
<1>1. ASSUME StepInv PROVE InStep
  <2>1. Fits(View, at) /\ cjtag_mode \in BOOLEAN
    BY <1>1 DEF StepInv, BaseType
  <2>2. FormatOf(cjtag_mode) = IF cjtag_mode THEN "oscan1" ELSE "four_wire"
    BY DEF FormatOf
  <2>. QED BY <2>1, <2>2, ViewIs DEF Fits, InStep, Understood
<1>. QED BY <1>1, InvSteps, PTL

\* A call returns with the chip in Run-Test/Idle, at the data level, and in
\* the format the port was built for.
THEOREM ReadyBetweenCallsHolds == Spec => []ReadyBetweenCalls
<1>1. ASSUME StepInv PROVE ReadyBetweenCalls
  <2>1. SUFFICES ASSUME call = NoCall, at # Unnamed, Understood
                 PROVE  /\ chip.tap = "RUN_TEST_IDLE" /\ chip.level = "data" /\ chip.zbs = 0 /\ chip.check = 0
                        /\ chip.fmt = IF jtag_mode = 2 THEN "oscan1" ELSE "four_wire"
    BY DEF ReadyBetweenCalls
  <2>2. View \in Idle(setup) /\ setup \in Setups /\ Muted(chip) /\ Fits(View, at) /\ cjtag_mode \in BOOLEAN
    BY <1>1, <2>1 DEF StepInv, BaseType
  <2>3. View \in Here(TwoWire(setup), FormatOf(TwoWire(setup)), "RUN_TEST_IDLE", Nat, Plain)
    BY <2>2 DEF Idle, At
  <2>4. cjtag_mode = TwoWire(setup) /\ (chip.adapter => AdapterOf(chip) = Plain)
    BY <2>3, ViewIs DEF Here
  <2>5. AdapterOf(chip) = Plain
    BY <2>2, <2>4 DEF Muted
  <2>6. chip.level = "data" /\ chip.zbs = 0 /\ chip.check = 0
    BY <2>5 DEF AdapterOf, Plain
  <2>7. chip.tap = "RUN_TEST_IDLE"
    BY <2>1, <2>3, <2>4, ViewIs DEF Here, Understood
  <2>8. chip.fmt = FormatOf(cjtag_mode)
    BY <2>1, <2>2, ViewIs DEF Fits, Understood
  <2>9. FormatOf(cjtag_mode) = IF jtag_mode = 2 THEN "oscan1" ELSE "four_wire"
    BY <2>4 DEF FormatOf, TwoWire, jtag_mode
  <2>. QED BY <2>6, <2>7, <2>8, <2>9
<1>. QED BY <1>1, InvSteps, PTL

\* While the bench drives four wires its monitor shows the state of the TAP.
THEOREM MonitorFollowsHolds == Spec => []MonitorFollows
<1>1. ASSUME StepInv PROVE MonitorFollows
  <2>1. Fits(View, at) /\ cjtag_mode \in BOOLEAN
    BY <1>1 DEF StepInv, BaseType
  <2>. QED BY <2>1, ViewIs DEF Fits, MonitorFollows
<1>. QED BY <1>1, InvSteps, PTL

===============================================================================
