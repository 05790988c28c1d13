----------------------------- MODULE FlashProofs -----------------------------
(***************************************************************************)
(* Proofs about Flash, for every size of word, page, sector, memory and    *)
(* FIFO that FlashSizeAssumption allows, every set of calls, all three     *)
(* programs, and a link that may break at any access.                      *)
(*                                                                         *)
(* FlashInv is inductive.  Beside the types it says where in the call an   *)
(* access is (LoopInv), what the controller and the flash are doing while  *)
(* the link works (Course), what a command on the wire has left to do,     *)
(* link or no link (WireInv), and that every address the flash is at work  *)
(* on, or will be, lies in the region of a call (RegionInv).               *)
(***************************************************************************)
EXTENDS Flash, SequenceTheorems, TLAPS

ErasePcs == {"e_wren", "e_addr", "e_comd"}
WritePcs == {"w_fill", "w_addr", "w_datn", "w_wren", "w_comd", "w_room", "w_data"}
ReadPcs  == {"r_addr", "r_datn", "r_comd", "r_wait", "r_data"}
WaitPcs  == {"busy", "clear", "rdsr", "status", "rdata", "clear_again"}
UnitPcs  == ErasePcs \cup WritePcs \cup ReadPcs \cup WaitPcs

\* Where a call that found the flash at rest has not set it to work again.
RestPcs == {"idle", "init", "clear_first", "off", "on", "e_wren", "e_addr", "e_comd",
            "w_fill", "w_addr", "w_datn", "w_wren", "w_comd", "r_addr", "r_datn", "r_comd"}

\* Units begin where the sector, the page or the words of the read begin.
AtUnit ==
  /\ req.f = "erase" => done % SectorSize = 0
  /\ req.f = "write" => done = 0 \/ (req.offset + done) % PageSize = 0
  /\ req.f = "read" => done % PageSize = 0

\* Where in the call an access is: a function is under way that was not
\* refused, a unit begins before the end of the call, and its words are
\* counted up to the number its bytes come to.
LoopInv ==
  /\ pc # "idle" => ~Refused(req) /\ Asks(req)
  /\ pc \in {"clear_first", "off"} => req.f \in {"erase", "write", "read"}
  /\ pc \in ErasePcs => req.f = "erase"
  /\ pc \in WritePcs => req.f = "write"
  /\ pc \in ReadPcs => req.f = "read"
  /\ pc \in WaitPcs => req.f \in {"erase", "write"}
  /\ pc \in UnitPcs => done < Total /\ AtUnit
  /\ pc \in {"w_fill", "w_room", "w_data"} => i < PageWords
  /\ pc \in {"r_addr", "r_datn", "r_comd"} => i = 0
  /\ pc \in {"r_wait", "r_data"} => i < ReadWords

\* The answer to RDSR waits to be read: a status without WIP is true.
StatusHere ==
  comd = Idle /\ Len(rxfifo) = 1 /\ (rxfifo[1][1] % 2 = 0 => wip = NoWork)

\* Of the words of a read those taken and those waiting are all that came.
ReadOnWire ==
  \/ comd = "RD" /\ sent = (i + Len(rxfifo)) * WordBytes /\ i + Len(rxfifo) < ReadWords
  \/ comd = Idle /\ i + Len(rxfifo) = ReadWords

\* What the controller and the flash are doing, at each access.
OnCourse ==
  /\ pc \in RestPcs => comd = Idle /\ wip = NoWork /\ rxfifo = <<>>
  /\ pc \notin {"idle", "init", "clear_first", "off"} => ~cache
  /\ pc \in {"w_room", "w_data", "busy"} => comd \in {Idle, "SE", "PP"} /\ rxfifo = <<>>
  /\ pc \in {"clear", "rdsr"} => comd = Idle /\ rxfifo = <<>>
  /\ pc = "status" => (comd = "RDSR" /\ rxfifo = <<>>) \/ StatusHere
  /\ pc = "rdata" => StatusHere
  /\ pc = "clear_again" => comd = Idle /\ rxfifo = <<>> /\ (~wipbit => wip = NoWork)
  /\ pc \in {"r_wait", "r_data"} => wip = NoWork /\ ReadOnWire
  /\ pc = "r_data" => rxfifo # <<>>
  /\ pc = "e_comd" => addr = req.from + done
  /\ pc \in {"w_datn", "w_wren", "w_comd"} => addr = req.offset + done
  /\ pc \in {"w_wren", "w_comd"} => datn = Unit - 1
  /\ pc \in {"r_comd", "r_wait", "r_data"} => datn = ReadWords * WordBytes - 1

Course == link = "up" => OnCourse

\* A command on the wire asks for a page at most; a read, for whole words.
WireInv ==
  /\ comd = "RD" => /\ Count % WordBytes = 0 /\ Count <= PageSize
                    /\ sent % WordBytes = 0 /\ sent < Count
  /\ comd = "PP" => Count <= PageSize

\* The cells an erase and a program command change.
SectorAt(at) == {a \in Cells : a \div SectorSize = at \div SectorSize}
PageAt(at, n) == {PageOf(at) + ((at + k - 1) % PageSize) : k \in 1 .. n}

\* The flash is at work, and will be, on cells that a call named.
RegionInv ==
  /\ link = "up" /\ pc # "idle" => asked = Region(req)
  /\ comd = "SE" => SectorAt(addr % MemSize) \subseteq asked
  /\ comd = "PP" => PageAt(addr % MemSize, Count) \subseteq asked
  /\ wip.op = "SE" => SectorAt(wip.at) \subseteq asked
  /\ wip.op = "PP" => PageAt(wip.at, Len(wip.bytes)) \subseteq asked

-------------------------------------------------------------------------------
(* Division                                                                *)

LEMMA Divided ==
  ASSUME NEW w \in Nat \ {0}, NEW x \in Nat
  PROVE  /\ x \div w \in Nat /\ x % w \in 0 .. w - 1
         /\ x = w * (x \div w) + (x % w)
OBVIOUS

LEMMA DividedOnce ==
  ASSUME NEW w \in Nat \ {0}, NEW q \in Nat, NEW r \in 0 .. w - 1
  PROVE  /\ w * q + r \in Nat
         /\ (w * q + r) \div w = q /\ (w * q + r) % w = r
OBVIOUS

LEMMA MultipleOf ==
  ASSUME NEW w \in Nat \ {0}, NEW q \in Nat
  PROVE  w * q \in Nat /\ (w * q) \div w = q /\ (w * q) % w = 0
OBVIOUS

LEMMA Multiple ==
  ASSUME NEW w \in Nat \ {0}, NEW x \in Nat, x % w = 0
  PROVE  x \div w \in Nat /\ x = w * (x \div w)
OBVIOUS

LEMMA MultiplesAhead ==
  ASSUME NEW w \in Nat \ {0}, NEW a \in Nat, NEW b \in Nat, w * a < w * b
  PROVE  a < b /\ w * a + w <= w * b
OBVIOUS

LEMMA MultiplesBack ==
  ASSUME NEW w \in Nat \ {0}, NEW a \in Nat, NEW b \in Nat, w * a < w * b + w
  PROVE  a <= b
OBVIOUS

LEMMA MultiplesKept ==
  ASSUME NEW w \in Nat \ {0}, NEW a \in Nat, NEW b \in Nat, a <= b
  PROVE  w * a <= w * b
OBVIOUS

LEMMA Added ==
  ASSUME NEW w \in Nat \ {0}, NEW x \in Nat, x % w = 0
  PROVE  (x + w) % w = 0
<1>1. x = w * (x \div w) /\ x \div w \in Nat
  BY Divided
<1>2. x + w = w * ((x \div w) + 1)
  BY <1>1
<1>3. (x \div w) + 1 \in Nat
  BY <1>1
<1>. QED BY <1>2, <1>3, MultipleOf

LEMMA MultiplesAdded ==
  ASSUME NEW w \in Nat \ {0}, NEW a \in Nat, NEW b \in Nat, a % w = 0, b % w = 0
  PROVE  (a + b) % w = 0
<1>1. PICK p \in Nat : a = w * p
  <2>1. a \div w \in Nat /\ a = w * (a \div w)
    BY Multiple
  <2>. QED BY <2>1, Zenon
<1>2. PICK q \in Nat : b = w * q
  <2>1. b \div w \in Nat /\ b = w * (b \div w)
    BY Multiple
  <2>. QED BY <2>1, Zenon
<1>3. a + b = w * (p + q) /\ p + q \in Nat
  BY <1>1, <1>2
<1>4. (w * (p + q)) % w = 0
  BY <1>3, MultipleOf
<1>. QED BY <1>3, <1>4

LEMMA Spread ==
  ASSUME NEW w \in Nat, NEW p \in Nat, NEW q \in Nat, NEW u \in Nat
  PROVE  /\ p - q * u \in Int
         /\ w * (p - q * u) = w * p - (w * q) * u
<1>1. q * u \in Int
  OBVIOUS
<1>2. \A v \in Int : w * (p - v) = w * p - w * v
  OBVIOUS
<1>3. w * (q * u) = (w * q) * u
  OBVIOUS
<1>4. w * (p - q * u) = w * p - w * (q * u)
  BY <1>1, <1>2
<1>. QED BY <1>1, <1>3, <1>4

LEMMA Nested ==
  ASSUME NEW w \in Nat \ {0}, NEW m \in Nat \ {0}, m % w = 0, NEW x \in Nat, x % w = 0
  PROVE  (x % m) % w = 0 /\ (x % m) + w <= m
<1>1. PICK n \in Nat : m = w * n
  <2>1. m \div w \in Nat /\ m = w * (m \div w)
    BY Multiple
  <2>. QED BY <2>1, Zenon
<1>2. PICK p \in Nat : x = w * p
  <2>1. x \div w \in Nat /\ x = w * (x \div w)
    BY Multiple
  <2>. QED BY <2>1, Zenon
<1>3. PICK u \in Nat : x = m * u + (x % m) /\ x % m \in 0 .. m - 1
  BY Divided
<1>. DEFINE j == p - n * u
<1>4. j \in Int /\ w * j = w * p - (w * n) * u
  BY Spread
<1>. HIDE DEF j
<1>5. m * u \in Int
  OBVIOUS
<1>6. x % m = w * j
  BY <1>1, <1>2, <1>3, <1>4, <1>5
<1>7. j \in Nat
  BY <1>3, <1>4, <1>6
<1>8. (x % m) % w = 0
  BY <1>6, <1>7, MultipleOf
<1>9. w * j + w <= w * n
  BY <1>7, <1>6, <1>3, <1>1, MultiplesAhead
<1>. QED BY <1>8, <1>9, <1>6, <1>1

-------------------------------------------------------------------------------
(* What a call comes to                                                    *)

LEMMA Sizes ==
  /\ WordBytes \in Nat \ {0} /\ PageSize \in Nat \ {0} /\ SectorSize \in Nat \ {0}
  /\ MemSize \in Nat \ {0} /\ UintRange \in Nat \ {0}
  /\ TxDepth \in Nat \ {0} /\ RxDepth \in Nat \ {0} /\ FillWords \in Nat \ {0}
  /\ PageSize % WordBytes = 0 /\ SectorSize % PageSize = 0 /\ MemSize % SectorSize = 0
BY FlashSizeAssumption, FlashAssumption

LEMMA Asked ==
  ASSUME NEW r \in Requests
  PROVE  /\ r.f \in {"init", "unknown", "erase", "write", "read"}
         /\ r.f = "erase" => r.from \in Nat /\ r.to \in Nat /\ r.from < UintRange
         /\ r.f \in {"write", "read"} => r.offset \in Nat /\ r.count \in Nat /\ r.count < UintRange
BY RequestsAssumption, Sizes DEF Uint

LEMMA SectorCount ==
  ASSUME NEW r \in Requests, r.f = "erase"
  PROVE  /\ Sectors(r) \in Nat
         /\ Sectors(r) * SectorSize \in 0 .. UintRange
<1>. DEFINE d == (UintRange + r.to + SectorSize - 1 - r.from) % UintRange
<1>1. UintRange + r.to + SectorSize - 1 - r.from \in Nat
  BY Asked, Sizes
<1>2. d \in 0 .. UintRange - 1
  BY <1>1, Sizes, Divided
<1>3. Sectors(r) = d \div SectorSize
  BY DEF Sectors
<1>. HIDE DEF d
<1>4. d \in Nat
  BY <1>2, Sizes
<1>5. d \div SectorSize \in Nat /\ d % SectorSize \in 0 .. SectorSize - 1
      /\ d = SectorSize * (d \div SectorSize) + (d % SectorSize)
  BY <1>4, Sizes, Divided
<1>6. Sectors(r) \in Nat
  BY <1>3, <1>5
<1>7. d = SectorSize * Sectors(r) + (d % SectorSize)
  BY <1>5, <1>3
<1>8. SectorSize * Sectors(r) \in Nat /\ SectorSize * Sectors(r) = Sectors(r) * SectorSize
  BY <1>6, Sizes
<1>9. d % SectorSize \in Nat /\ d <= UintRange
  BY <1>2, <1>5, Sizes
<1>. DEFINE t == SectorSize * Sectors(r)  u == d % SectorSize
<1>10. t \in Nat /\ d = t + u /\ u \in Nat /\ t = Sectors(r) * SectorSize
  BY <1>7, <1>8, <1>9
<1>. HIDE DEF t, u
<1>11. t \in 0 .. UintRange
  BY <1>10, <1>9, Sizes
<1>. QED BY <1>6, <1>10, <1>11

LEMMA TotalTyped ==
  ASSUME req \in Requests, req.f \in {"erase", "write", "read"}
  PROVE  Total \in 0 .. UintRange
<1>1. CASE req.f = "erase"
  BY <1>1, SectorCount DEF Total
<1>2. CASE req.f # "erase"
  BY <1>2, Asked, Sizes DEF Total
<1>. QED BY <1>1, <1>2

LEMMA SectorUnit ==
  ASSUME req \in Requests, req.f = "erase", done \in Nat, done < Total, AtUnit
  PROVE  /\ Unit = SectorSize
         /\ done + Unit <= Total
         /\ (done + Unit) % SectorSize = 0
<1>1. Unit = SectorSize
  BY DEF Unit
<1>2. done % SectorSize = 0 /\ Total = Sectors(req) * SectorSize
  BY DEF AtUnit, Total
<1>3. Sectors(req) \in Nat
  BY SectorCount
<1>4. PICK n \in Nat : done = SectorSize * n
  <2>1. done \div SectorSize \in Nat /\ done = SectorSize * (done \div SectorSize)
    BY <1>2, Sizes, Multiple
  <2>. QED BY <2>1, Zenon
<1>5. Total = SectorSize * Sectors(req)
  BY <1>2, <1>3, Sizes
<1>6. SectorSize * n + SectorSize <= SectorSize * Sectors(req)
  BY <1>3, <1>4, <1>5, Sizes, MultiplesAhead
<1>7. (done + SectorSize) % SectorSize = 0
  BY <1>2, Sizes, Added
<1>. QED BY <1>1, <1>6, <1>4, <1>5, <1>7

LEMMA PageStart ==
  ASSUME NEW a \in Nat
  PROVE  /\ a % PageSize \in 0 .. PageSize - 1
         /\ (a + PageSize - (a % PageSize)) % PageSize = 0
<1>1. PICK q \in Nat : a = PageSize * q + (a % PageSize) /\ a % PageSize \in 0 .. PageSize - 1
  <2>1. a \div PageSize \in Nat /\ a % PageSize \in 0 .. PageSize - 1
        /\ a = PageSize * (a \div PageSize) + (a % PageSize)
    BY Sizes, Divided
  <2>. QED BY <2>1, Zenon
<1>2. a + PageSize - (a % PageSize) = PageSize * (q + 1)
  <2>1. PageSize * (q + 1) = PageSize * q + PageSize /\ PageSize * q \in Nat
    BY Sizes
  <2>. DEFINE m == PageSize * q  c == a % PageSize
  <2>2. a = m + c /\ m \in Nat /\ c \in Nat /\ PageSize \in Nat
    BY <2>1, <1>1, Sizes
  <2>. HIDE DEF m, c
  <2>3. a + PageSize - c = m + PageSize
    BY <2>2
  <2>. QED BY <2>1, <2>3 DEF m, c
<1>3. (PageSize * (q + 1)) % PageSize = 0
  BY Sizes, MultipleOf
<1>. QED BY <1>1, <1>2, <1>3

LEMMA PageUnit ==
  ASSUME req \in Requests, req.f = "write", done \in Nat, done < Total, AtUnit
  PROVE  /\ Unit \in 1 .. PageSize
         /\ done + Unit <= Total
         /\ ((req.offset + done) % PageSize) + Unit <= PageSize
         /\ done + Unit = Total \/ (req.offset + (done + Unit)) % PageSize = 0
<1>. DEFINE a == req.offset + done  c == a % PageSize  left == req.count - done
<1>1. req.offset \in Nat /\ req.count \in Nat /\ Total = req.count
  BY Asked DEF Total
<1>2. left \in Nat \ {0} /\ a \in Nat
  BY <1>1
<1>3. c \in 0 .. PageSize - 1 /\ (a + PageSize - c) % PageSize = 0
  BY <1>2, PageStart
<1>4. c = IF done = 0 THEN req.offset % PageSize ELSE 0
  BY <1>1 DEF AtUnit
<1>5. Unit = PageBytes(done)
  BY DEF Unit
<1>6. PageBytes(done) = IF c + left >= PageSize THEN PageSize - c ELSE left
  BY <1>4 DEF PageBytes
<1>. HIDE DEF c
<1>7. CASE c + left >= PageSize
  <2>1. Unit = PageSize - c
    BY <1>5, <1>6, <1>7
  <2>2. req.offset + (done + Unit) = a + PageSize - c
    BY <2>1, <1>1, <1>3, Sizes
  <2>3. (req.offset + done) % PageSize = c
    BY DEF c
  <2>. QED BY <2>1, <2>2, <2>3, <1>7, <1>1, <1>3, Sizes
<1>8. CASE ~(c + left >= PageSize)
  <2>1. Unit = left
    BY <1>5, <1>6, <1>8
  <2>2. (req.offset + done) % PageSize = c
    BY DEF c
  <2>. QED BY <2>1, <2>2, <1>8, <1>1, <1>2, <1>3, Sizes
<1>. QED BY <1>7, <1>8

LEMMA ReadUnit ==
  ASSUME req \in Requests, req.f = "read", done \in Nat, done < Total, AtUnit
  PROVE  /\ Unit \in 1 .. PageSize
         /\ done + Unit <= Total
         /\ done + Unit = Total \/ (done + Unit) % PageSize = 0
<1>1. req.count \in Nat /\ Total = req.count
  BY Asked DEF Total
<1>2. Unit = ReadBytes(done)
  BY DEF Unit
<1>3. done % PageSize = 0
  BY DEF AtUnit
<1>4. (done + PageSize) % PageSize = 0
  BY <1>3, Sizes, Added
<1>. QED BY <1>1, <1>2, <1>4, Sizes DEF ReadBytes

LEMMA WordsOfUnit ==
  ASSUME Unit \in 1 .. PageSize
  PROVE  /\ PageSize \div WordBytes \in Nat
         /\ PageSize = WordBytes * (PageSize \div WordBytes)
         /\ PageWords \in 0 .. PageSize \div WordBytes
         /\ ReadWords \in 1 .. PageSize \div WordBytes
         /\ ReadWords * WordBytes <= Unit + WordBytes - 1
<1>. DEFINE n == PageSize \div WordBytes
<1>1. n \in Nat /\ PageSize = WordBytes * n
  BY Sizes, Multiple
<1>2. Unit \in Nat /\ Unit + WordBytes - 1 \in Nat /\ Unit >= 1
  BY Sizes
<1>3. /\ PageWords \in Nat /\ Unit % WordBytes \in 0 .. WordBytes - 1
      /\ Unit = WordBytes * PageWords + (Unit % WordBytes)
  BY <1>2, Sizes, Divided DEF PageWords
<1>. DEFINE u == (Unit + WordBytes - 1) % WordBytes
<1>4. /\ ReadWords \in Nat /\ u \in 0 .. WordBytes - 1
      /\ Unit + WordBytes - 1 = WordBytes * ReadWords + u
  BY <1>2, Sizes, Divided DEF ReadWords
<1>. HIDE DEF n, u
<1>5. WordBytes * n \in Nat /\ WordBytes * PageWords \in Nat /\ WordBytes * ReadWords \in Nat
  BY <1>1, <1>3, <1>4, Sizes
<1>6. WordBytes * PageWords < WordBytes * n + WordBytes
  BY <1>1, <1>3, <1>5, Sizes
<1>7. WordBytes * ReadWords < WordBytes * n + WordBytes
  BY <1>1, <1>2, <1>4, <1>5, Sizes
<1>8. PageWords <= n /\ ReadWords <= n
  BY <1>1, <1>3, <1>4, <1>6, <1>7, Sizes, MultiplesBack
<1>9. ReadWords # 0
  <2>. SUFFICES ASSUME ReadWords = 0 PROVE FALSE
    OBVIOUS
  <2>1. WordBytes * ReadWords = 0
    BY Sizes
  <2>. QED BY <2>1, <1>4, <1>2, Sizes
<1>10. ReadWords * WordBytes = WordBytes * ReadWords
  BY <1>4, Sizes
<1>. QED BY <1>1, <1>2, <1>3, <1>4, <1>5, <1>8, <1>9, <1>10, Sizes DEF n

\* What is unchanged with the call and the place in it.
LEMMA Framed ==
  ASSUME UNCHANGED <<req, program, done>>
  PROVE  /\ AtUnit' = AtUnit /\ Total' = Total /\ Unit' = Unit
         /\ PageWords' = PageWords /\ ReadWords' = ReadWords
         /\ Refused(req)' = Refused(req) /\ Asks(req)' = Asks(req)
BY DEF AtUnit, Total, Unit, PageBytes, ReadBytes, PageWords, ReadWords, Refused, Asks, Sectors

-------------------------------------------------------------------------------
(* The place in the call                                                   *)

LEMMA NextUnitLoop ==
  ASSUME TypeOK, NEW d \in 0 .. UintRange, NextUnit(d), UNCHANGED <<req, program>>,
         ~Refused(req), Asks(req), req.f \in {"erase", "write", "read"},
         d < Total => AtUnit'
  PROVE  LoopInv' /\ done' = d /\ i' = 0 /\ pc' \in RestPcs \ {"idle", "init", "clear_first", "off"}
<1>1. req \in Requests
  BY DEF TypeOK
<1>2. done' = d /\ i' = 0 /\ req' = req
  BY DEF NextUnit
<1>3. Total' = Total /\ Refused(req)' = Refused(req) /\ Asks(req)' = Asks(req)
  BY DEF Total, Refused, Asks, Sectors
<1>4. CASE d >= Total
  <2>1. pc' = "on"
    BY <1>4 DEF NextUnit, Goto
  <2>. QED BY <2>1, <1>2, <1>3 DEF LoopInv, RestPcs, UnitPcs, ErasePcs, WritePcs, ReadPcs, WaitPcs
<1>5. CASE d < Total /\ req.f = "erase"
  <2>1. pc' = "e_wren"
    BY <1>5, <1>1, TotalTyped DEF NextUnit, FirstAccess, Goto
  <2>. QED BY <2>1, <1>2, <1>3, <1>5 DEF LoopInv, RestPcs, UnitPcs, ErasePcs, WritePcs, ReadPcs, WaitPcs
<1>6. CASE d < Total /\ req.f = "read"
  <2>1. pc' = "r_addr"
    BY <1>6, <1>1, TotalTyped DEF NextUnit, FirstAccess, Goto
  <2>. QED BY <2>1, <1>2, <1>3, <1>6 DEF LoopInv, RestPcs, UnitPcs, ErasePcs, WritePcs, ReadPcs, WaitPcs
<1>7. CASE d < Total /\ req.f = "write" /\ PageBytes(d) < WordBytes
  <2>1. pc' = "w_addr"
    BY <1>7, <1>1, TotalTyped DEF NextUnit, FirstAccess, Goto
  <2>. QED BY <2>1, <1>2, <1>3, <1>7 DEF LoopInv, RestPcs, UnitPcs, ErasePcs, WritePcs, ReadPcs, WaitPcs
<1>8. CASE d < Total /\ req.f = "write" /\ ~(PageBytes(d) < WordBytes)
  <2>1. pc' = "w_fill"
    BY <1>8, <1>1, TotalTyped DEF NextUnit, FirstAccess, Goto
  <2>2. 0 < PageWords'
    <3>1. Unit' = PageBytes(d)
      BY <1>2, <1>8 DEF Unit, PageBytes
    <3>2. Unit' \in Nat
      <4>1. req.offset \in Nat /\ req.count \in Nat /\ Total = req.count
        BY <1>1, <1>8, Asked DEF Total
      <4>2. req.offset % PageSize \in 0 .. PageSize - 1
        BY <4>1, PageStart
      <4>. QED BY <3>1, <4>1, <4>2, <1>8, Sizes DEF PageBytes
    <3>. DEFINE u == Unit'
    <3>3. PageWords' = u \div WordBytes
      BY DEF PageWords
    <3>4. u >= WordBytes /\ u \in Nat
      BY <3>1, <3>2, <1>8, Sizes
    <3>. HIDE DEF u
    <3>5. u \div WordBytes > 0
      BY <3>4, Sizes
    <3>. QED BY <3>3, <3>5
  <2>. QED BY <2>1, <2>2, <1>2, <1>3, <1>8 DEF LoopInv, RestPcs, UnitPcs, ErasePcs, WritePcs, ReadPcs, WaitPcs
<1>9. Total \in 0 .. UintRange
  BY <1>1, TotalTyped
<1>. QED BY <1>2, <1>4, <1>5, <1>6, <1>7, <1>8, <1>9

LEMMA NextUnitAfter ==
  ASSUME TypeOK, LoopInv, pc \in UnitPcs, NextUnit(done + Unit), UNCHANGED <<req, program>>
  PROVE  /\ LoopInv' /\ done' \in 0 .. UintRange /\ i' = 0
         /\ pc' \in RestPcs \ {"idle", "init", "clear_first", "off"}
<1>1. /\ req \in Requests /\ done \in Nat /\ done < Total /\ AtUnit
      /\ ~Refused(req) /\ Asks(req) /\ req.f \in {"erase", "write", "read"}
  BY DEF TypeOK, LoopInv, UnitPcs, ErasePcs, WritePcs, ReadPcs, WaitPcs
<1>2. done' = done + Unit
  BY DEF NextUnit
<1>3. Total \in 0 .. UintRange
  BY <1>1, TotalTyped
<1>4. CASE req.f = "erase"
  <2>1. Unit = SectorSize /\ done + Unit <= Total /\ (done + Unit) % SectorSize = 0
    BY <1>1, <1>4, SectorUnit
  <2>2. done + Unit \in 0 .. UintRange
    BY <2>1, <1>1, <1>3, Sizes
  <2>3. AtUnit'
    BY <2>1, <1>2, <1>4 DEF AtUnit
  <2>. QED BY <2>2, <2>3, <1>1, NextUnitLoop
<1>5. CASE req.f = "write"
  <2>1. /\ Unit \in 1 .. PageSize /\ done + Unit <= Total
        /\ done + Unit = Total \/ (req.offset + (done + Unit)) % PageSize = 0
    BY <1>1, <1>5, PageUnit
  <2>2. done + Unit \in 0 .. UintRange
    BY <2>1, <1>1, <1>3, Sizes
  <2>3. done + Unit < Total => AtUnit'
    BY <2>1, <2>2, <1>2, <1>3, <1>5 DEF AtUnit
  <2>. QED BY <2>2, <2>3, <1>1, NextUnitLoop
<1>6. CASE req.f = "read"
  <2>1. /\ Unit \in 1 .. PageSize /\ done + Unit <= Total
        /\ done + Unit = Total \/ (done + Unit) % PageSize = 0
    BY <1>1, <1>6, ReadUnit
  <2>2. done + Unit \in 0 .. UintRange
    BY <2>1, <1>1, <1>3, Sizes
  <2>3. done + Unit < Total => AtUnit'
    BY <2>1, <2>2, <1>2, <1>3, <1>6 DEF AtUnit
  <2>. QED BY <2>2, <2>3, <1>1, NextUnitLoop
<1>. QED BY <1>1, <1>4, <1>5, <1>6

LEMMA NextUnitFirst ==
  ASSUME TypeOK, LoopInv, pc = "off", NextUnit(0), UNCHANGED <<req, program>>
  PROVE  /\ LoopInv' /\ done' \in 0 .. UintRange /\ i' = 0
         /\ pc' \in RestPcs \ {"idle", "init", "clear_first", "off"}
<1>1. ~Refused(req) /\ Asks(req) /\ req.f \in {"erase", "write", "read"}
  BY DEF LoopInv
<1>2. 0 % SectorSize = 0 /\ 0 % PageSize = 0 /\ 0 \in 0 .. UintRange
  BY Sizes
<1>3. AtUnit'
  <2>1. done' = 0
    BY DEF NextUnit
  <2>. QED BY <2>1, <1>2 DEF AtUnit
<1>. QED BY <1>1, <1>2, <1>3, NextUnitLoop

LEMMA UnitWords ==
  ASSUME TypeOK, LoopInv, pc \in WritePcs \cup ReadPcs
  PROVE  /\ Unit \in 1 .. PageSize /\ done + Unit <= Total
         /\ PageSize \div WordBytes \in Nat
         /\ PageWords \in 0 .. PageSize \div WordBytes
         /\ ReadWords \in 1 .. PageSize \div WordBytes
<1>1. req \in Requests /\ done \in Nat /\ done < Total /\ AtUnit
  BY DEF TypeOK, LoopInv, UnitPcs, WritePcs, ReadPcs
<1>2. Unit \in 1 .. PageSize /\ done + Unit <= Total
  <2>1. CASE pc \in WritePcs
    BY <1>1, <2>1, PageUnit DEF LoopInv
  <2>2. CASE pc \in ReadPcs
    BY <1>1, <2>2, ReadUnit DEF LoopInv
  <2>. QED BY <2>1, <2>2
<1>. QED BY <1>2, WordsOfUnit

\* The functions that share an access, and those of one function only, leave
\* the call where LoopInv says.
LEMMA LoopShared ==
  ASSUME TypeOK, LoopInv, Shared
  PROVE  LoopInv' /\ done' \in 0 .. UintRange /\ i' \in 0 .. PageSize \div WordBytes /\ pc' \in Pcs
<1>. DEFINE Goal == LoopInv' /\ done' \in 0 .. UintRange /\ i' \in 0 .. PageSize \div WordBytes
                    /\ pc' \in Pcs
<1>1. /\ done \in 0 .. UintRange /\ i \in 0 .. PageSize \div WordBytes
      /\ 0 \in 0 .. PageSize \div WordBytes
  <2>1. PageSize \div WordBytes \in Nat
    BY Sizes, Multiple
  <2>. QED BY <2>1 DEF TypeOK
<1>2. CASE Initialise
  BY <1>1, <1>2, Framed DEF Initialise, Rest, LoopInv, UnitPcs, ErasePcs, WritePcs, ReadPcs, WaitPcs, Pcs
<1>3. CASE ClearInts
  <2>1. CASE pc = "clear_first"
    BY <1>1, <1>3, <2>1, Framed
    DEF ClearInts, Goto, Rest, LoopInv, UnitPcs, ErasePcs, WritePcs, ReadPcs, WaitPcs, Pcs
  <2>2. CASE pc = "clear" \/ (pc = "clear_again" /\ wipbit)
    BY <1>1, <1>3, <2>2, Framed
    DEF ClearInts, Goto, Rest, LoopInv, UnitPcs, ErasePcs, WritePcs, ReadPcs, WaitPcs, Pcs
  <2>3. CASE pc = "clear_again" /\ ~wipbit
    <3>1. NextUnit(done + Unit) /\ UNCHANGED <<req, program>> /\ pc \in UnitPcs
      BY <1>3, <2>3 DEF ClearInts, Rest, UnitPcs, WaitPcs
    <3>2. RestPcs \subseteq Pcs
      BY DEF RestPcs, Pcs
    <3>. QED BY <3>1, <3>2, <1>1, NextUnitAfter
  <2>. QED BY <1>3, <2>1, <2>2, <2>3 DEF ClearInts
<1>4. CASE CacheOff
  <2>1. NextUnit(0) /\ UNCHANGED <<req, program>> /\ pc = "off"
    BY <1>4 DEF CacheOff, Rest
  <2>2. RestPcs \subseteq Pcs
    BY DEF RestPcs, Pcs
  <2>. QED BY <2>1, <2>2, <1>1, NextUnitFirst
<1>5. CASE CacheOn
  BY <1>1, <1>5, Framed DEF CacheOn, LoopInv, UnitPcs, ErasePcs, WritePcs, ReadPcs, WaitPcs, Pcs
<1>6. CASE WaitCommand
  <2>1. pc = "busy" /\ pc' \in {"busy", "clear"} /\ UNCHANGED <<req, program, done, i>>
    BY <1>6 DEF WaitCommand, Goto, Rest
  <2>. QED BY <2>1, <1>1, Framed DEF LoopInv, UnitPcs, ErasePcs, WritePcs, ReadPcs, WaitPcs, Pcs
<1>7. CASE AskStatus
  <2>1. pc = "rdsr" /\ pc' = "status" /\ UNCHANGED <<req, program, done, i>>
    BY <1>7 DEF AskStatus, Goto, Rest
  <2>. QED BY <2>1, <1>1, Framed DEF LoopInv, UnitPcs, ErasePcs, WritePcs, ReadPcs, WaitPcs, Pcs
<1>8. CASE WaitReceived
  <2>1. /\ \/ pc = "status" /\ pc' \in {"status", "rdata"}
           \/ pc = "r_wait" /\ pc' \in {"r_wait", "r_data"}
        /\ UNCHANGED <<req, program, done, i>>
    BY <1>8 DEF WaitReceived, Goto, Rest
  <2>. QED BY <2>1, <1>1, Framed DEF LoopInv, UnitPcs, ErasePcs, WritePcs, ReadPcs, WaitPcs, Pcs
<1>9. CASE WaitReceivedZero
  <2>1. UNCHANGED <<req, program, done, i, pc>>
    BY <1>9 DEF WaitReceivedZero, Goto, Rest
  <2>. QED BY <2>1, <1>1, Framed DEF TypeOK, LoopInv, UnitPcs, ErasePcs, WritePcs, ReadPcs, WaitPcs
<1>10. CASE ReadStatus
  <2>1. pc = "rdata" /\ pc' = "clear_again" /\ UNCHANGED <<req, program, done, i>>
    BY <1>10 DEF ReadStatus, Goto, Rest
  <2>. QED BY <2>1, <1>1, Framed DEF LoopInv, UnitPcs, ErasePcs, WritePcs, ReadPcs, WaitPcs, Pcs
<1>. QED BY <1>2, <1>3, <1>4, <1>5, <1>6, <1>7, <1>8, <1>9, <1>10 DEF Shared

LEMMA LoopErase ==
  ASSUME TypeOK, LoopInv, flash_erase
  PROVE  LoopInv' /\ done' \in 0 .. UintRange /\ i' \in 0 .. PageSize \div WordBytes /\ pc' \in Pcs
<1>1. done \in 0 .. UintRange /\ i \in 0 .. PageSize \div WordBytes
  BY DEF TypeOK
<1>2. /\ \/ pc = "e_wren" /\ pc' = "e_addr"
         \/ pc = "e_addr" /\ pc' = "e_comd"
         \/ pc = "e_comd" /\ pc' = "busy"
      /\ UNCHANGED <<req, program, done, i>>
  BY DEF flash_erase, EraseEnable, EraseAddress, EraseCommand, Goto, Rest
<1>. QED BY <1>1, <1>2, Framed DEF LoopInv, UnitPcs, ErasePcs, WritePcs, ReadPcs, WaitPcs, Pcs

LEMMA LoopWrite ==
  ASSUME TypeOK, LoopInv, flash_write
  PROVE  LoopInv' /\ done' \in 0 .. UintRange /\ i' \in 0 .. PageSize \div WordBytes /\ pc' \in Pcs
<1>1. done \in 0 .. UintRange /\ i \in 0 .. PageSize \div WordBytes
  BY DEF TypeOK
<1>2. pc \in WritePcs /\ UNCHANGED <<req, program, done>>
  BY DEF flash_write, WriteFill, WriteAddress, WriteLength, WriteEnable, WriteCommand,
         WaitRoom, WriteWord, Rest, WritePcs
<1>3. PageSize \div WordBytes \in Nat /\ PageWords \in 0 .. PageSize \div WordBytes
  BY <1>2, UnitWords
<1>4. PageWords' = PageWords
  BY <1>2, Framed
<1>5. CASE WriteFill
  <2>1. /\ pc = "w_fill" /\ i' = i + 1
        /\ (pc' = "w_fill" /\ i + 1 < PageWords) \/ pc' = "w_addr"
    BY <1>5 DEF WriteFill, Goto
  <2>2. i < PageWords
    BY <2>1 DEF LoopInv
  <2>3. i' \in 0 .. PageSize \div WordBytes /\ (pc' = "w_fill" => i' < PageWords')
    BY <2>1, <2>2, <1>1, <1>3, <1>4
  <2>. QED BY <2>1, <2>3, <1>1, <1>2, Framed
           DEF LoopInv, UnitPcs, ErasePcs, WritePcs, ReadPcs, WaitPcs, Pcs
<1>6. CASE WriteAddress \/ WriteLength \/ WriteEnable
  <2>1. /\ pc \in {"w_addr", "w_datn", "w_wren"} /\ pc' \in {"w_datn", "w_wren", "w_comd"} /\ i' = i
    BY <1>6 DEF WriteAddress, WriteLength, WriteEnable, Goto
  <2>. QED BY <2>1, <1>1, <1>2, Framed
           DEF LoopInv, UnitPcs, ErasePcs, WritePcs, ReadPcs, WaitPcs, Pcs
<1>7. CASE WriteCommand
  <2>1. /\ pc = "w_comd" /\ i' = i
        /\ (pc' = "w_room" /\ i < PageWords) \/ pc' = "busy"
    BY <1>7 DEF WriteCommand, Goto, MoreWords
  <2>. QED BY <2>1, <1>1, <1>2, Framed
           DEF LoopInv, UnitPcs, ErasePcs, WritePcs, ReadPcs, WaitPcs, Pcs
<1>8. CASE WaitRoom
  <2>1. /\ pc = "w_room" /\ i' = i /\ pc' \in {"w_room", "w_data"}
    BY <1>8 DEF WaitRoom, Goto
  <2>. QED BY <2>1, <1>1, <1>2, Framed
           DEF LoopInv, UnitPcs, ErasePcs, WritePcs, ReadPcs, WaitPcs, Pcs
<1>9. CASE WriteWord
  <2>1. /\ pc = "w_data" /\ i' = i + 1
        /\ (pc' = "w_room" /\ i + 1 < PageWords) \/ pc' = "busy"
    BY <1>9 DEF WriteWord, Goto, MoreWords
  <2>2. i < PageWords
    BY <2>1 DEF LoopInv
  <2>3. i' \in 0 .. PageSize \div WordBytes /\ (pc' = "w_room" => i' < PageWords')
    BY <2>1, <2>2, <1>1, <1>3, <1>4
  <2>. QED BY <2>1, <2>3, <1>1, <1>2, Framed
           DEF LoopInv, UnitPcs, ErasePcs, WritePcs, ReadPcs, WaitPcs, Pcs
<1>. QED BY <1>5, <1>6, <1>7, <1>8, <1>9 DEF flash_write

LEMMA LoopRead ==
  ASSUME TypeOK, LoopInv, flash_read
  PROVE  LoopInv' /\ done' \in 0 .. UintRange /\ i' \in 0 .. PageSize \div WordBytes /\ pc' \in Pcs
<1>1. /\ done \in 0 .. UintRange /\ i \in 0 .. PageSize \div WordBytes
      /\ 0 \in 0 .. PageSize \div WordBytes
  <2>1. PageSize \div WordBytes \in Nat
    BY Sizes, Multiple
  <2>. QED BY <2>1 DEF TypeOK
<1>2. pc \in ReadPcs /\ UNCHANGED <<req, program>>
  BY DEF flash_read, ReadAddress, ReadLength, ReadCommand, ReadWord, Rest, ReadPcs
<1>3. ReadWords \in 1 .. PageSize \div WordBytes /\ PageSize \div WordBytes \in Nat
  BY <1>2, UnitWords
<1>4. CASE ReadAddress \/ ReadLength
  <2>1. /\ pc \in {"r_addr", "r_datn"} /\ pc' \in {"r_datn", "r_comd"}
        /\ i' = i /\ done' = done
    BY <1>4 DEF ReadAddress, ReadLength, Goto, Rest
  <2>. QED BY <2>1, <1>1, <1>2, Framed
           DEF LoopInv, UnitPcs, ErasePcs, WritePcs, ReadPcs, WaitPcs, Pcs
<1>5. CASE ReadCommand
  <2>1. pc = "r_comd" /\ pc' = "r_wait" /\ i' = i /\ done' = done
    BY <1>5 DEF ReadCommand, Goto, Rest
  <2>2. i' < ReadWords'
    <3>1. i = 0 /\ ReadWords' = ReadWords
      BY <2>1, <1>2, Framed DEF LoopInv
    <3>. QED BY <3>1, <2>1, <1>3
  <2>. QED BY <2>1, <2>2, <1>1, <1>2, Framed
           DEF LoopInv, UnitPcs, ErasePcs, WritePcs, ReadPcs, WaitPcs, Pcs
<1>6. CASE ReadWord
  <2>1. pc = "r_data"
    BY <1>6 DEF ReadWord
  <2>2. CASE i + 1 < ReadWords
    <3>1. i' = i + 1 /\ pc' = "r_wait" /\ done' = done
      BY <1>6, <2>2 DEF ReadWord, Goto
    <3>2. i' < ReadWords' /\ i' \in 0 .. PageSize \div WordBytes
      <4>1. ReadWords' = ReadWords
        BY <3>1, <1>2, Framed
      <4>. QED BY <4>1, <3>1, <2>2, <1>1, <1>3
    <3>. QED BY <3>1, <3>2, <2>1, <1>1, <1>2, Framed
             DEF LoopInv, UnitPcs, ErasePcs, WritePcs, ReadPcs, WaitPcs, Pcs
  <2>3. CASE ~(i + 1 < ReadWords)
    <3>1. NextUnit(done + Unit) /\ pc \in UnitPcs
      BY <1>6, <2>1, <2>3 DEF ReadWord, UnitPcs, ReadPcs
    <3>2. RestPcs \subseteq Pcs
      BY DEF RestPcs, Pcs
    <3>. QED BY <3>1, <3>2, <1>1, <1>2, NextUnitAfter
  <2>. QED BY <2>2, <2>3
<1>. QED BY <1>4, <1>5, <1>6 DEF flash_read

LEMMA LoopCall ==
  ASSUME TypeOK, NEW r \in Requests, Call(r)
  PROVE  LoopInv' /\ done' \in 0 .. UintRange /\ i' \in 0 .. PageSize \div WordBytes /\ pc' \in Pcs
<1>1. req' = r /\ program' = program /\ done' = 0 /\ i' = 0 /\ Asks(r)
  BY DEF Call
<1>2. Refused(req)' = Refused(r) /\ Asks(req)' = Asks(r)
  BY <1>1 DEF Refused, Asks, Sectors
<1>3. 0 \in 0 .. UintRange /\ 0 \in 0 .. PageSize \div WordBytes
  <2>1. PageSize \div WordBytes \in Nat
    BY Sizes, Multiple
  <2>. QED BY <2>1, Sizes
<1>4. CASE Refused(r)
  <2>1. pc' = "idle"
    BY <1>4 DEF Call
  <2>. QED BY <2>1, <1>1, <1>3 DEF LoopInv, UnitPcs, ErasePcs, WritePcs, ReadPcs, WaitPcs, Pcs
<1>5. CASE ~Refused(r)
  <2>1. r.f # "unknown"
    BY <1>5 DEF Refused
  <2>2. r.f \in {"init", "erase", "write", "read"}
    BY <2>1, Asked
  <2>3. (pc' = "init" /\ r.f = "init") \/ (pc' \in {"clear_first", "off"} /\ r.f # "init")
    BY <1>5, <2>2 DEF Call
  <2>. QED BY <2>2, <2>3, <1>1, <1>2, <1>3, <1>5
           DEF LoopInv, UnitPcs, ErasePcs, WritePcs, ReadPcs, WaitPcs, Pcs
<1>. QED BY <1>4, <1>5

LEMMA LoopStep ==
  ASSUME TypeOK, LoopInv, [Next]_vars
  PROVE  LoopInv' /\ done' \in 0 .. UintRange /\ i' \in 0 .. PageSize \div WordBytes /\ pc' \in Pcs
<1>1. CASE \E r \in Requests : Call(r)
  BY <1>1, LoopCall
<1>2. CASE Steps
  BY <1>2, LoopShared, LoopErase, LoopWrite, LoopRead DEF Steps
<1>3. CASE UNCHANGED <<program, pc, req, done, i>>
  <2>1. done \in 0 .. UintRange /\ i \in 0 .. PageSize \div WordBytes /\ pc \in Pcs
    BY DEF TypeOK
  <2>. QED BY <2>1, <1>3, Framed DEF LoopInv
<1>4. CASE Wire \/ Array \/ UNCHANGED vars
  <2>1. UNCHANGED <<program, pc, req, done, i>>
    BY <1>4 DEF Wire, Array, vars, driver
  <2>. QED BY <2>1, <1>3
<1>. QED BY <1>1, <1>2, <1>4 DEF Next

-------------------------------------------------------------------------------
(* What an access does to the controller                                   *)

\* The registers the functions write and read, and where.
RegisterOp ==
  \/ UNCHANGED flash
  \/ /\ link = "up"
     /\ \/ pc = "off" /\ CtrlWrite(FALSE)
        \/ pc = "on" /\ CtrlWrite(TRUE)
        \/ pc = "e_addr" /\ AddrWrite(req.from + done)
        \/ pc \in {"w_addr", "r_addr"} /\ AddrWrite(req.offset + done)
        \/ pc = "w_datn" /\ DatnWrite(Unit - 1)
        \/ pc = "r_datn" /\ DatnWrite(ReadWords * WordBytes - 1)
        \/ pc \in {"e_wren", "w_wren"} /\ ComdWrite("WREN")
        \/ pc = "e_comd" /\ ComdWrite("SE")
        \/ pc = "w_comd" /\ ComdWrite("PP")
        \/ pc = "r_comd" /\ ComdWrite("RD")
        \/ pc = "rdsr" /\ ComdWrite("RDSR")
        \/ pc \in {"w_fill", "w_data"} /\ WdataWrite(BufferWord(i))
        \/ pc \in {"rdata", "r_data"} /\ RdataRead

LEMMA StepsRegisters ==
  ASSUME Steps, link \in {"up", "down"}
  PROVE  /\ RegisterOp
         /\ link' \in {"up", "down"} /\ (link' = "up" => link = "up")
         /\ pc # "idle" /\ UNCHANGED <<program, req, asked, before, units>>
<1>1. CASE Initialise \/ ClearInts
  BY <1>1 DEF Initialise, ClearInts, Store, Breaks, Dead, Rest, RegisterOp
<1>2. CASE CacheOff \/ CacheOn
  BY <1>2 DEF CacheOff, CacheOn, Store, Breaks, Dead, Rest, RegisterOp
<1>3. CASE WaitCommand
  BY <1>3 DEF WaitCommand, Loaded, LoadedZero, Breaks, Dead, Rest, RegisterOp
<1>4. CASE AskStatus
  BY <1>4 DEF AskStatus, Store, Breaks, Dead, Rest, RegisterOp
<1>5. CASE WaitReceived
  BY <1>5 DEF WaitReceived, Loaded, LoadedZero, Breaks, Dead, Rest, RegisterOp
<1>6. CASE WaitReceivedZero
  BY <1>6 DEF WaitReceivedZero, LoadedZero, Breaks, Dead, Rest, RegisterOp
<1>7. CASE ReadStatus
  BY <1>7 DEF ReadStatus, Loaded, LoadedZero, Breaks, Dead, Rest, RegisterOp
<1>8. CASE flash_erase
  BY <1>8 DEF flash_erase, EraseEnable, EraseAddress, EraseCommand, Store, Breaks, Dead, Rest, RegisterOp
<1>9. CASE WriteFill \/ WriteAddress \/ WriteLength
  BY <1>9 DEF WriteFill, WriteAddress, WriteLength, Store, Breaks, Dead, Rest, RegisterOp
<1>10. CASE WriteEnable \/ WriteCommand \/ WriteWord
  BY <1>10 DEF WriteEnable, WriteCommand, WriteWord, Store, Breaks, Dead, Rest, RegisterOp
<1>11. CASE WaitRoom
  BY <1>11 DEF WaitRoom, Loaded, Breaks, Rest, RegisterOp
<1>12. CASE ReadAddress \/ ReadLength \/ ReadCommand
  BY <1>12 DEF ReadAddress, ReadLength, ReadCommand, Store, Breaks, Dead, Rest, RegisterOp
<1>13. CASE ReadWord
  BY <1>13 DEF ReadWord, Loaded, LoadedZero, Breaks, Dead, RegisterOp
<1>. QED BY <1>1, <1>2, <1>3, <1>4, <1>5, <1>6, <1>7, <1>8, <1>9, <1>10, <1>11, <1>12, <1>13
         DEF Steps, Shared, flash_write, flash_read

LEMMA PartOfPage ==
  ASSUME NEW k \in Nat, NEW n \in Nat, k < n
  PROVE  WordBytes * k + WordBytes <= WordBytes * n
BY Sizes

LEMMA BufferTyped ==
  ASSUME TypeOK, LoopInv, pc \in {"w_fill", "w_data"}
  PROVE  BufferWord(i) \in FlashWords
<1>1. pc \in WritePcs /\ req.f = "write" /\ i < PageWords /\ Asks(req) /\ ~Refused(req)
  BY DEF LoopInv, WritePcs
<1>2. /\ Unit \in 1 .. PageSize /\ done + Unit <= Total
      /\ PageSize \div WordBytes \in Nat /\ PageWords \in 0 .. PageSize \div WordBytes
  BY <1>1, UnitWords
<1>3. req \in Requests /\ done \in Nat /\ i \in Nat
  BY <1>2 DEF TypeOK
<1>4. req.offset \in Nat /\ req.count \in Nat /\ Total = req.count
  BY <1>1, <1>3, Asked DEF Total
<1>5. req.offset + req.count <= MemSize
  BY <1>1 DEF Asks
<1>6. WordBytes * PageWords <= Unit
  <2>1. /\ Unit \div WordBytes \in Nat /\ Unit % WordBytes \in 0 .. WordBytes - 1
        /\ Unit = WordBytes * (Unit \div WordBytes) + (Unit % WordBytes)
    <3>1. Unit \in Nat
      BY <1>2
    <3>. QED BY <3>1, Sizes, Divided
  <2>. DEFINE m == WordBytes * (Unit \div WordBytes)  u == Unit % WordBytes
  <2>2. m \in Nat /\ u \in Nat /\ Unit = m + u /\ m = WordBytes * PageWords
    BY <2>1, Sizes DEF PageWords
  <2>. HIDE DEF m, u
  <2>. QED BY <2>2
<1>7. WordBytes * i + WordBytes <= WordBytes * PageWords
  BY <1>1, <1>2, <1>3, PartOfPage
<1>8. WordBytes * i \in Nat /\ WordBytes * PageWords \in Nat
  BY <1>2, <1>3, Sizes
<1>9. \A b \in 1 .. WordBytes : done + WordBytes * i + b - 1 \in Cells
  BY <1>2, <1>3, <1>4, <1>5, <1>6, <1>7, <1>8, Sizes DEF Cells
<1>10. \A b \in 1 .. WordBytes : Buffer(done + WordBytes * i + b - 1) \in Bytes
  BY <1>9, FlashAssumption
<1>. QED BY <1>10 DEF BufferWord, FlashWords

LEMMA RegistersTyped ==
  ASSUME TypeOK, LoopInv, RegisterOp
  PROVE  FlashTypeOK'
<1>1. FlashTypeOK
  BY DEF TypeOK
<1>2. CASE UNCHANGED flash
  BY <1>1, <1>2 DEF flash, FlashTypeOK
<1>3. ASSUME NEW a \in Nat, AddrWrite(a) PROVE FlashTypeOK'
  BY <1>1, <1>3 DEF AddrWrite, FlashTypeOK
<1>4. ASSUME NEW n \in Nat, DatnWrite(n) PROVE FlashTypeOK'
  BY <1>1, <1>4 DEF DatnWrite, FlashTypeOK
<1>5. ASSUME NEW c \in {"WREN", "SE", "PP", "RD", "RDSR"}, ComdWrite(c) PROVE FlashTypeOK'
  <2>1. /\ comd' = comd \/ comd' \in {"SE", "PP", "RD", "RDSR"}
        /\ wel' = wel \/ wel' = (wel \/ wip = NoWork)
        /\ sent' = sent \/ sent' = 0
        /\ latched' = latched \/ latched' = <<>>
    BY <1>5 DEF ComdWrite
  <2>2. /\ comd' \in {Idle, "SE", "PP", "RD", "RDSR"} /\ wel' \in BOOLEAN /\ sent' \in 0 .. PageSize
        /\ latched' \in Seq(Bytes) /\ Len(latched') <= PageSize
    <3>1. wel' \in BOOLEAN
      BY <1>1, <2>1 DEF FlashTypeOK
    <3>2. 0 \in 0 .. PageSize /\ <<>> \in Seq(Bytes) /\ Len(<<>>) <= PageSize
      BY Sizes
    <3>. QED BY <1>1, <2>1, <3>1, <3>2 DEF FlashTypeOK
  <2>3. UNCHANGED <<cache, addr, datn, txfifo, rxfifo, wip, cells>>
    BY <1>5 DEF ComdWrite
  <2>. QED BY <1>1, <2>2, <2>3 DEF FlashTypeOK
<1>6. ASSUME NEW on \in BOOLEAN, CtrlWrite(on) PROVE FlashTypeOK'
  BY <1>1, <1>6 DEF CtrlWrite, FlashTypeOK
<1>7. ASSUME NEW w \in FlashWords, WdataWrite(w) PROVE FlashTypeOK'
  <2>1. txfifo' \in Seq(FlashWords) /\ Len(txfifo') <= TxDepth
    BY <1>1, <1>7, Sizes DEF WdataWrite, FlashTypeOK
  <2>. QED BY <1>1, <1>7, <2>1 DEF WdataWrite, FlashTypeOK
<1>8. ASSUME RdataRead PROVE FlashTypeOK'
  <2>1. rxfifo' \in Seq(FlashWords) /\ Len(rxfifo') <= RxDepth
    BY <1>1, <1>8, Sizes DEF RdataRead, FlashTypeOK
  <2>. QED BY <1>1, <1>8, <2>1 DEF RdataRead, FlashTypeOK
<1>9. req \in Requests /\ done \in Nat
  BY DEF TypeOK
<1>10. pc = "e_addr" => req.from + done \in Nat
  BY <1>9, Asked DEF LoopInv, ErasePcs
<1>11. pc \in {"w_addr", "r_addr"} => req.offset + done \in Nat
  BY <1>9, Asked DEF LoopInv, WritePcs, ReadPcs
<1>12. pc = "w_datn" => Unit - 1 \in Nat
  BY UnitWords DEF WritePcs
<1>13. pc = "r_datn" => ReadWords * WordBytes - 1 \in Nat
  <2>. SUFFICES ASSUME pc = "r_datn" PROVE ReadWords * WordBytes - 1 \in Nat
    OBVIOUS
  <2>1. ReadWords \in Nat \ {0}
    BY UnitWords DEF ReadPcs
  <2>. QED BY <2>1, Sizes
<1>14. pc \in {"w_fill", "w_data"} => BufferWord(i) \in FlashWords
  BY BufferTyped
<1>. QED BY <1>2, <1>3, <1>4, <1>5, <1>6, <1>7, <1>8, <1>10, <1>11, <1>12, <1>13, <1>14 DEF RegisterOp

-------------------------------------------------------------------------------
(* What the controller and the flash do by themselves                      *)

LEMMA WordIsASequence ==
  ASSUME NEW w \in FlashWords
  PROVE  w \in Seq(Bytes) /\ Len(w) = WordBytes
<1>1. w \in [1 .. WordBytes -> Bytes] /\ WordBytes \in Nat
  BY Sizes DEF FlashWords
<1>2. w \in Seq(Bytes)
  BY <1>1, SeqDef
<1>3. DOMAIN w = 1 .. WordBytes /\ DOMAIN w = 1 .. Len(w) /\ Len(w) \in Nat
  BY <1>1, <1>2, LenProperties
<1>. QED BY <1>1, <1>2, <1>3

LEMMA PrefixTyped ==
  ASSUME NEW S, NEW s \in Seq(S), NEW n \in Nat
  PROVE  Prefix(s, n) \in Seq(S) /\ Len(Prefix(s, n)) <= n /\ Len(Prefix(s, n)) \in Nat
<1>. DEFINE m == IF n < Len(s) THEN n ELSE Len(s)
<1>1. Len(s) \in Nat /\ m \in Nat /\ m <= n /\ m <= Len(s)
  OBVIOUS
<1>2. Prefix(s, n) = SubSeq(s, 1, m)
  BY DEF Prefix
<1>. HIDE DEF m
<1>3. \A k \in 1 .. m : s[k] \in S
  BY <1>1
<1>4. SubSeq(s, 1, m) \in Seq(S) /\ Len(SubSeq(s, 1, m)) = m
  BY <1>1, <1>3
<1>. QED BY <1>1, <1>2, <1>4

LEMMA TakeWordKeeps ==
  ASSUME FlashTypeOK, WireInv, TakeWord
  PROVE  FlashTypeOK' /\ WireInv'
<1>. DEFINE bytes == Prefix(latched \o Head(txfifo), Count)
<1>1. /\ comd = "PP" /\ txfifo # <<>>
      /\ latched' = bytes
      /\ comd' = IF Len(bytes) = Count THEN Idle ELSE "PP"
      /\ wip' = IF Len(bytes) = Count /\ wel /\ wip = NoWork
                THEN [op |-> "PP", at |-> addr % MemSize, bytes |-> bytes] ELSE wip
      /\ txfifo' = Tail(txfifo)
      /\ UNCHANGED <<cache, addr, datn, rxfifo, sent, wel, cells>>
  BY DEF TakeWord
<1>2. Count \in Nat /\ Count <= PageSize
  BY <1>1 DEF FlashTypeOK, WireInv, Count
<1>3. latched \o Head(txfifo) \in Seq(Bytes)
  <2>1. Head(txfifo) \in FlashWords /\ latched \in Seq(Bytes)
    BY <1>1 DEF FlashTypeOK
  <2>. QED BY <2>1, WordIsASequence, ConcatProperties
<1>4. bytes \in Seq(Bytes) /\ Len(bytes) <= Count /\ Len(bytes) \in Nat
  BY <1>2, <1>3, PrefixTyped
<1>. HIDE DEF bytes
<1>5. latched' \in Seq(Bytes) /\ Len(latched') <= PageSize
  BY <1>1, <1>2, <1>4, Sizes
<1>6. txfifo' \in Seq(FlashWords) /\ Len(txfifo') <= TxDepth
  BY <1>1, Sizes DEF FlashTypeOK
<1>7. wip' \in [op : {Idle, "SE", "PP"}, at : Nat, bytes : Seq(Bytes)]
  <2>1. addr % MemSize \in Nat
    BY Sizes, Divided DEF FlashTypeOK
  <2>2. [op |-> "PP", at |-> addr % MemSize, bytes |-> bytes]
        \in [op : {Idle, "SE", "PP"}, at : Nat, bytes : Seq(Bytes)]
    BY <2>1, <1>4
  <2>3. wip \in [op : {Idle, "SE", "PP"}, at : Nat, bytes : Seq(Bytes)]
    BY DEF FlashTypeOK
  <2>. QED BY <1>1, <2>2, <2>3
<1>8. comd' \in {Idle, "PP"}
  BY <1>1
<1>9. FlashTypeOK'
  BY <1>1, <1>5, <1>6, <1>7, <1>8 DEF FlashTypeOK
<1>10. WireInv'
  <2>1. Count' = Count
    BY <1>1 DEF Count
  <2>. QED BY <2>1, <1>8, <1>2 DEF WireInv, Idle
<1>. QED BY <1>9, <1>10

LEMMA SendWordKeeps ==
  ASSUME FlashTypeOK, WireInv, SendWord
  PROVE  FlashTypeOK' /\ WireInv'
<1>. DEFINE word == [k \in 1 .. WordBytes |->
                       IF wip = NoWork THEN cells[(addr + sent + k - 1) % MemSize] ELSE Worn]
<1>1. /\ comd = "RD" /\ Len(rxfifo) < RxDepth
      /\ rxfifo' = Append(rxfifo, word)
      /\ sent' = sent + WordBytes
      /\ comd' = IF sent' >= Count THEN Idle ELSE "RD"
      /\ UNCHANGED <<cache, addr, datn, txfifo, latched, wel, wip, cells>>
  BY DEF SendWord
<1>2. word \in FlashWords
  <2>1. \A k \in 1 .. WordBytes : addr + sent + k - 1 \in Nat
    BY Sizes DEF FlashTypeOK
  <2>2. \A k \in 1 .. WordBytes : (addr + sent + k - 1) % MemSize \in Cells
    BY <2>1, Sizes, Divided DEF Cells
  <2>3. Worn \in Bytes /\ \A a \in Cells : cells[a] \in Bytes
    BY DEF FlashTypeOK, Worn, Bytes
  <2>. QED BY <2>2, <2>3 DEF FlashWords
<1>. HIDE DEF word
<1>3. rxfifo' \in Seq(FlashWords) /\ Len(rxfifo') <= RxDepth
  BY <1>1, <1>2, Sizes DEF FlashTypeOK
<1>4. Count \in Nat /\ Count % WordBytes = 0 /\ Count <= PageSize
      /\ sent \in Nat /\ sent % WordBytes = 0 /\ sent < Count
  BY <1>1 DEF FlashTypeOK, WireInv, Count
<1>5. sent + WordBytes <= Count
  <2>1. /\ sent \div WordBytes \in Nat /\ sent = WordBytes * (sent \div WordBytes)
        /\ Count \div WordBytes \in Nat /\ Count = WordBytes * (Count \div WordBytes)
    BY <1>4, Sizes, Multiple
  <2>. QED BY <2>1, <1>4, Sizes, MultiplesAhead
<1>6. sent' \in 0 .. PageSize /\ sent' % WordBytes = 0
  BY <1>1, <1>4, <1>5, Sizes, Added
<1>7. comd' \in {Idle, "RD"} /\ (comd' = "RD" => sent' < Count)
  BY <1>1, <1>4, Sizes DEF Idle
<1>8. FlashTypeOK'
  BY <1>1, <1>3, <1>6, <1>7 DEF FlashTypeOK
<1>9. WireInv'
  <2>1. Count' = Count
    BY <1>1 DEF Count
  <2>. QED BY <2>1, <1>4, <1>6, <1>7 DEF WireInv, Idle
<1>. QED BY <1>8, <1>9

LEMMA SendStatusKeeps ==
  ASSUME FlashTypeOK, WireInv, SendStatus
  PROVE  FlashTypeOK' /\ WireInv'
<1>. DEFINE word == [k \in 1 .. WordBytes |-> IF wip = NoWork THEN 0 ELSE 1]
<1>1. /\ Len(rxfifo) < RxDepth
      /\ rxfifo' = Append(rxfifo, word)
      /\ comd' = Idle
      /\ UNCHANGED <<cache, addr, datn, txfifo, latched, sent, wel, wip, cells>>
  BY DEF SendStatus
<1>2. word \in FlashWords
  BY DEF FlashWords, Bytes
<1>. HIDE DEF word
<1>3. rxfifo' \in Seq(FlashWords) /\ Len(rxfifo') <= RxDepth
  BY <1>1, <1>2, Sizes DEF FlashTypeOK
<1>. QED BY <1>1, <1>3 DEF FlashTypeOK, WireInv, Idle

LEMMA StartEraseKeeps ==
  ASSUME FlashTypeOK, WireInv, StartErase
  PROVE  FlashTypeOK' /\ WireInv'
<1>1. /\ comd' = Idle
      /\ wip' = wip \/ wip' = [op |-> "SE", at |-> addr % MemSize, bytes |-> <<>>]
      /\ UNCHANGED <<cache, addr, datn, txfifo, rxfifo, latched, sent, wel, cells>>
  BY DEF StartErase
<1>2. addr % MemSize \in Nat /\ <<>> \in Seq(Bytes)
  BY Sizes, Divided DEF FlashTypeOK
<1>3. wip' \in [op : {Idle, "SE", "PP"}, at : Nat, bytes : Seq(Bytes)]
  <2>1. [op |-> "SE", at |-> addr % MemSize, bytes |-> <<>>]
        \in [op : {Idle, "SE", "PP"}, at : Nat, bytes : Seq(Bytes)]
    BY <1>2
  <2>2. wip \in [op : {Idle, "SE", "PP"}, at : Nat, bytes : Seq(Bytes)]
    BY DEF FlashTypeOK
  <2>. QED BY <1>1, <2>1, <2>2
<1>. QED BY <1>1, <1>3 DEF FlashTypeOK, WireInv, Idle

LEMMA FinishArrayKeeps ==
  ASSUME FlashTypeOK, WireInv, FinishArray
  PROVE  FlashTypeOK' /\ WireInv'
<1>1. /\ wip' = NoWork /\ wel' = FALSE
      /\ cells' = [a \in Cells |->
           IF Erasing(a) THEN Erased
           ELSE IF Byte(a) = {} THEN cells[a]
           ELSE Programmed(cells[a], wip.bytes[CHOOSE k \in Byte(a) : TRUE])]
      /\ UNCHANGED <<cache, comd, addr, datn, txfifo, rxfifo, latched, sent>>
  BY DEF FinishArray
<1>2. ASSUME NEW a \in Cells
      PROVE  (IF Erasing(a) THEN Erased
              ELSE IF Byte(a) = {} THEN cells[a]
              ELSE Programmed(cells[a], wip.bytes[CHOOSE k \in Byte(a) : TRUE])) \in Bytes
  <2>1. Erased \in Bytes /\ Worn \in Bytes /\ cells[a] \in Bytes
    BY DEF FlashTypeOK, Erased, Worn, Bytes
  <2>2. ASSUME Byte(a) # {}
        PROVE  Programmed(cells[a], wip.bytes[CHOOSE k \in Byte(a) : TRUE]) \in Bytes
    <3>1. (CHOOSE k \in Byte(a) : TRUE) \in DOMAIN wip.bytes
      BY <2>2 DEF Byte
    <3>2. wip.bytes \in Seq(Bytes)
      BY DEF FlashTypeOK
    <3>3. wip.bytes[CHOOSE k \in Byte(a) : TRUE] \in Bytes
      BY <3>1, <3>2, LenProperties
    <3>. QED BY <3>3, <2>1 DEF Programmed
  <2>. QED BY <2>1, <2>2
<1>3. cells' \in [Cells -> Bytes]
  BY <1>1, <1>2
<1>4. NoWork \in [op : {Idle, "SE", "PP"}, at : Nat, bytes : Seq(Bytes)]
  BY DEF NoWork
<1>5. FlashTypeOK'
  BY <1>1, <1>3, <1>4 DEF FlashTypeOK
<1>6. WireInv'
  BY <1>1 DEF WireInv, Count
<1>. QED BY <1>5, <1>6

LEMMA WireRegisters ==
  ASSUME TypeOK, LoopInv, Course, WireInv, RegisterOp
  PROVE  WireInv'
<1>1. CASE \/ UNCHANGED flash \/ RdataRead
           \/ \E on \in BOOLEAN : CtrlWrite(on)
           \/ \E a : AddrWrite(a)
           \/ \E w : WdataWrite(w)
           \/ ComdWrite("WREN")
  <2>1. UNCHANGED <<comd, datn, sent>>
    BY <1>1 DEF flash, RdataRead, CtrlWrite, AddrWrite, WdataWrite, ComdWrite
  <2>. QED BY <2>1 DEF WireInv, Count
<1>2. ASSUME link = "up", pc \in RestPcs, NEW n, DatnWrite(n) PROVE WireInv'
  <2>1. comd' = Idle
    BY <1>2 DEF DatnWrite, Course, OnCourse
  <2>. QED BY <2>1 DEF WireInv, Idle
<1>3. ASSUME link = "up", pc = "w_comd", ComdWrite("PP") PROVE WireInv'
  <2>1. comd = Idle /\ datn = Unit - 1
    BY <1>3 DEF Course, OnCourse, RestPcs
  <2>2. comd' = "PP" /\ datn' = datn
    BY <1>3, <2>1 DEF ComdWrite
  <2>3. Unit \in 1 .. PageSize
    BY <1>3, UnitWords DEF WritePcs
  <2>4. Count' <= PageSize
    BY <2>1, <2>2, <2>3, Sizes DEF Count
  <2>. QED BY <2>2, <2>4 DEF WireInv
<1>4. ASSUME link = "up", pc = "r_comd", ComdWrite("RD") PROVE WireInv'
  <2>1. comd = Idle /\ datn = ReadWords * WordBytes - 1
    BY <1>4 DEF Course, OnCourse, RestPcs
  <2>2. comd' = "RD" /\ datn' = datn /\ sent' = 0
    BY <1>4, <2>1 DEF ComdWrite
  <2>3. Unit \in 1 .. PageSize
    BY <1>4, UnitWords DEF ReadPcs
  <2>4. /\ PageSize \div WordBytes \in Nat /\ PageSize = WordBytes * (PageSize \div WordBytes)
        /\ ReadWords \in 1 .. PageSize \div WordBytes
    BY <2>3, WordsOfUnit
  <2>5. WordBytes * ReadWords <= PageSize /\ WordBytes * ReadWords \in Nat
    BY <2>4, Sizes, MultiplesKept
  <2>6. WordBytes * ReadWords # 0 /\ (WordBytes * ReadWords) % WordBytes = 0
    BY <2>4, Sizes, MultipleOf
  <2>7. ReadWords * WordBytes = WordBytes * ReadWords
    BY <2>4, Sizes
  <2>8. Count' = WordBytes * ReadWords
    BY <2>1, <2>2, <2>5, <2>7 DEF Count
  <2>9. 0 % WordBytes = 0
    BY Sizes
  <2>. QED BY <2>2, <2>5, <2>6, <2>8, <2>9 DEF WireInv
<1>5. ASSUME link = "up", pc \in {"e_comd", "rdsr"}, NEW c \in {"SE", "RDSR"}, ComdWrite(c)
      PROVE  WireInv'
  <2>1. comd = Idle
    BY <1>5 DEF Course, OnCourse, RestPcs
  <2>2. comd' = c
    BY <1>5, <2>1 DEF ComdWrite
  <2>. QED BY <2>2 DEF WireInv
<1>6. link = "up" /\ pc = "w_datn" /\ DatnWrite(Unit - 1) => WireInv'
  BY <1>2 DEF RestPcs
<1>7. link = "up" /\ pc = "r_datn" /\ DatnWrite(ReadWords * WordBytes - 1) => WireInv'
  BY <1>2 DEF RestPcs
<1>. QED BY <1>1, <1>3, <1>4, <1>5, <1>6, <1>7 DEF RegisterOp

LEMMA WireStep ==
  ASSUME TypeOK, LoopInv, Course, WireInv, [Next]_vars
  PROVE  WireInv'
<1>1. FlashTypeOK /\ link \in {"up", "down"}
  BY DEF TypeOK
<1>2. CASE \E r \in Requests : Call(r)
  BY <1>2 DEF Call, flash, WireInv, Count
<1>3. CASE Steps
  BY <1>1, <1>3, StepsRegisters, WireRegisters
<1>4. CASE Wire
  BY <1>1, <1>4, TakeWordKeeps, SendWordKeeps, SendStatusKeeps, StartEraseKeeps DEF Wire
<1>5. CASE Array
  BY <1>1, <1>5, FinishArrayKeeps DEF Array
<1>6. CASE UNCHANGED vars
  BY <1>6 DEF vars, flash, WireInv, Count
<1>. QED BY <1>2, <1>3, <1>4, <1>5, <1>6 DEF Next

-------------------------------------------------------------------------------
(* Types                                                                   *)

LEMMA RdataTyped ==
  ASSUME FlashTypeOK
  PROVE  Rdata \in FlashWords
<1>1. CASE rxfifo = <<>>
  BY <1>1 DEF Rdata, FlashWords, Worn, Bytes
<1>2. CASE rxfifo # <<>>
  BY <1>2 DEF Rdata, FlashTypeOK
<1>. QED BY <1>1, <1>2

LEMMA FilledTyped ==
  ASSUME TypeOK, NEW w \in FlashWords
  PROVE  Filled(w) \in [Cells -> Bytes]
<1>1. done \in Nat /\ out \in [Cells -> Bytes]
  BY DEF TypeOK
<1>2. ASSUME NEW a \in Cells, a >= done PROVE w[((a - done) % WordBytes) + 1] \in Bytes
  <2>1. a - done \in Nat
    BY <1>1, <1>2 DEF Cells
  <2>2. (a - done) % WordBytes \in 0 .. WordBytes - 1
    BY <2>1, Sizes, Divided
  <2>3. ((a - done) % WordBytes) + 1 \in 1 .. WordBytes
    BY <2>2, Sizes
  <2>. QED BY <2>3 DEF FlashWords
<1>. QED BY <1>1, <1>2 DEF Filled

LEMMA RegionTyped ==
  ASSUME NEW r \in Requests, Asks(r)
  PROVE  Region(r) \subseteq Cells
<1>1. CASE Refused(r) \/ r.f \notin {"erase", "write"}
  BY <1>1 DEF Region
<1>2. CASE ~Refused(r) /\ r.f = "erase"
  <2>1. Region(r) = {a % MemSize : a \in r.from .. r.from + Sectors(r) * SectorSize - 1}
    BY <1>2 DEF Region
  <2>2. r.from \in Nat
    BY <1>2, Asked
  <2>3. \A a \in r.from .. r.from + Sectors(r) * SectorSize - 1 : a \in Nat
    BY <2>2, <1>2, SectorCount
  <2>4. \A a \in r.from .. r.from + Sectors(r) * SectorSize - 1 : a % MemSize \in Cells
    BY <2>3, Sizes, Divided DEF Cells
  <2>. QED BY <2>1, <2>4
<1>3. CASE ~Refused(r) /\ r.f = "write"
  <2>1. Region(r) = r.offset .. r.offset + r.count - 1
    BY <1>3 DEF Region
  <2>2. r.offset \in Nat /\ r.count \in Nat /\ r.offset + r.count <= MemSize
    BY <1>3, Asked DEF Asks
  <2>. QED BY <2>1, <2>2, Sizes DEF Cells
<1>. QED BY <1>1, <1>2, <1>3

LEMMA StepsTyped ==
  ASSUME TypeOK, Steps
  PROVE  wipbit' \in BOOLEAN /\ ret' \in {"none", "ok", "error"} /\ out' \in [Cells -> Bytes]
<1>1. wipbit \in BOOLEAN /\ ret \in {"none", "ok", "error"} /\ out \in [Cells -> Bytes]
  BY DEF TypeOK
<1>2. CASE Initialise \/ ClearInts \/ CacheOff \/ CacheOn
  BY <1>1, <1>2 DEF Initialise, ClearInts, CacheOff, CacheOn, NextUnit, Goto, Rest
<1>3. CASE WaitCommand
  BY <1>1, <1>3 DEF WaitCommand, Goto, Rest
<1>4. CASE AskStatus \/ WaitReceived \/ WaitReceivedZero \/ ReadStatus
  BY <1>1, <1>4 DEF AskStatus, WaitReceived, WaitReceivedZero, ReadStatus, Goto, Rest
<1>5. CASE flash_erase
  BY <1>1, <1>5 DEF flash_erase, EraseEnable, EraseAddress, EraseCommand, Goto, Rest
<1>6. CASE flash_write
  BY <1>1, <1>6 DEF flash_write, WriteFill, WriteAddress, WriteLength, WriteEnable,
                    WriteCommand, WaitRoom, WriteWord, Goto, Rest
<1>7. CASE ReadAddress \/ ReadLength \/ ReadCommand
  BY <1>1, <1>7 DEF ReadAddress, ReadLength, ReadCommand, Goto, Rest
<1>8. CASE ReadWord
  <2>1. UNCHANGED wipbit /\ UNCHANGED ret
    BY <1>8 DEF ReadWord, NextUnit, Goto
  <2>2. Rdata \in FlashWords /\ [b \in 1 .. WordBytes |-> 0] \in FlashWords
    BY RdataTyped DEF TypeOK, FlashWords, Bytes
  <2>3. out' = Filled(Rdata) \/ out' = Filled([b \in 1 .. WordBytes |-> 0])
    BY <1>8 DEF ReadWord
  <2>. QED BY <1>1, <2>1, <2>2, <2>3, FilledTyped
<1>. QED BY <1>2, <1>3, <1>4, <1>5, <1>6, <1>7, <1>8 DEF Steps, Shared, flash_read

LEMMA TypeStep ==
  ASSUME TypeOK, LoopInv, WireInv, [Next]_vars
  PROVE  TypeOK'
<1>1. done' \in 0 .. UintRange /\ i' \in 0 .. PageSize \div WordBytes /\ pc' \in Pcs
  BY LoopStep
<1>2. CASE \E r \in Requests : Call(r)
  <2>1. PICK r \in Requests : Call(r)
    BY <1>2
  <2>2. FlashTypeOK'
    BY <2>1 DEF Call, flash, TypeOK, FlashTypeOK
  <2>3. asked' \subseteq Cells
    BY <2>1, RegionTyped DEF Call, TypeOK
  <2>4. out' \in [Cells -> Bytes] /\ before' \in [Cells -> Bytes]
    BY <2>1 DEF Call, NoData, Untouched, Bytes, TypeOK, FlashTypeOK
  <2>5. /\ req' \in Requests /\ wipbit' \in BOOLEAN /\ ret' \in {"none", "ok", "error"}
        /\ UNCHANGED <<program, link>> /\ units' = 0
    BY <2>1 DEF Call
  <2>. QED BY <1>1, <2>2, <2>3, <2>4, <2>5 DEF TypeOK
<1>3. CASE Steps
  <2>1. RegisterOp /\ link' \in {"up", "down"} /\ UNCHANGED <<program, req, asked, before, units>>
    BY <1>3, StepsRegisters DEF TypeOK
  <2>2. FlashTypeOK'
    BY <2>1, RegistersTyped
  <2>3. wipbit' \in BOOLEAN /\ ret' \in {"none", "ok", "error"} /\ out' \in [Cells -> Bytes]
    BY <1>3, StepsTyped
  <2>. QED BY <1>1, <2>1, <2>2, <2>3 DEF TypeOK
<1>4. CASE Wire
  <2>1. FlashTypeOK' /\ UNCHANGED driver
    BY <1>4, TakeWordKeeps, SendWordKeeps, SendStatusKeeps, StartEraseKeeps DEF Wire, TypeOK
  <2>. QED BY <2>1 DEF driver, TypeOK
<1>5. CASE Array
  <2>1. FlashTypeOK'
    BY <1>5, FinishArrayKeeps DEF Array, TypeOK
  <2>2. units' \in Nat
    BY <1>5 DEF Array, TypeOK
  <2>3. UNCHANGED <<program, pc, req, done, i, wipbit, out, ret, link, asked, before>>
    BY <1>5 DEF Array
  <2>. QED BY <2>1, <2>2, <2>3 DEF TypeOK
<1>6. CASE UNCHANGED vars
  BY <1>6 DEF vars, flash, driver, TypeOK, FlashTypeOK
<1>. QED BY <1>2, <1>3, <1>4, <1>5, <1>6 DEF Next

-------------------------------------------------------------------------------
(* The course of a call over a link that works                             *)

LEMMA NextUnitGoes ==
  ASSUME NEW d, NextUnit(d)
  PROVE  pc' \in {"on", "e_wren", "r_addr", "w_addr", "w_fill"}
BY DEF NextUnit, Goto, FirstAccess

LEMMA AtRest ==
  ASSUME pc' \in RestPcs \ {"e_comd", "w_datn", "w_wren", "w_comd", "r_comd"},
         comd' = Idle, wip' = NoWork, rxfifo' = <<>>,
         pc' \in {"idle", "init", "clear_first", "off"} \/ ~cache'
  PROVE  OnCourse'
BY DEF OnCourse, RestPcs

LEMMA CourseCall ==
  ASSUME OnCourse, NEW r \in Requests, Call(r)
  PROVE  OnCourse'
<1>1. pc = "idle" /\ pc' \in {"idle", "init", "clear_first", "off"} /\ UNCHANGED flash
  BY DEF Call
<1>2. comd' = Idle /\ wip' = NoWork /\ rxfifo' = <<>>
  BY <1>1 DEF flash, OnCourse, RestPcs
<1>. QED BY <1>1, <1>2, AtRest DEF RestPcs

LEMMA CourseShared ==
  ASSUME TypeOK, LoopInv, OnCourse, Shared, link' = "up"
  PROVE  OnCourse'
<1>1. CASE Initialise
  <2>1. pc = "init" /\ pc' = "idle" /\ UNCHANGED flash
    BY <1>1 DEF Initialise, Store, Breaks, Dead
  <2>2. comd' = Idle /\ wip' = NoWork /\ rxfifo' = <<>>
    BY <2>1 DEF flash, OnCourse, RestPcs
  <2>. QED BY <2>1, <2>2, AtRest DEF RestPcs
<1>2. CASE ClearInts
  <2>1. UNCHANGED flash
    BY <1>2 DEF ClearInts, Store, Breaks, Dead
  <2>2. UNCHANGED <<cache, comd, addr, datn, rxfifo, sent, wip>>
    BY <2>1 DEF flash
  <2>3. CASE pc = "clear_first" /\ pc' = "off"
    <3>1. comd' = Idle /\ wip' = NoWork /\ rxfifo' = <<>>
      BY <2>2, <2>3 DEF OnCourse, RestPcs
    <3>. QED BY <3>1, <2>3, AtRest DEF RestPcs
  <2>4. CASE pc \in {"clear", "clear_again"} /\ pc' = "rdsr"
    <3>1. comd' = Idle /\ rxfifo' = <<>> /\ ~cache'
      BY <2>2, <2>4 DEF OnCourse
    <3>. QED BY <3>1, <2>4 DEF OnCourse, RestPcs
  <2>5. CASE pc = "clear_again" /\ ~wipbit /\ NextUnit(done + Unit)
    <3>1. comd' = Idle /\ wip' = NoWork /\ rxfifo' = <<>> /\ ~cache'
      BY <2>2, <2>5 DEF OnCourse
    <3>. QED BY <3>1, <2>5, NextUnitGoes, AtRest DEF RestPcs
  <2>. QED BY <1>2, <2>3, <2>4, <2>5 DEF ClearInts, Goto
<1>3. CASE CacheOff
  <2>1. pc = "off" /\ NextUnit(0) /\ CtrlWrite(FALSE)
    BY <1>3 DEF CacheOff, Store, Breaks, Dead
  <2>2. comd' = Idle /\ wip' = NoWork /\ rxfifo' = <<>> /\ ~cache'
    BY <2>1 DEF CtrlWrite, OnCourse, RestPcs
  <2>. QED BY <2>1, <2>2, NextUnitGoes, AtRest DEF RestPcs
<1>4. CASE CacheOn
  <2>1. pc = "on" /\ pc' = "idle" /\ CtrlWrite(TRUE)
    BY <1>4 DEF CacheOn, Store, Breaks, Dead
  <2>2. comd' = Idle /\ wip' = NoWork /\ rxfifo' = <<>>
    BY <2>1 DEF CtrlWrite, OnCourse, RestPcs
  <2>. QED BY <2>1, <2>2, AtRest DEF RestPcs
<1>5. CASE WaitCommand
  <2>1. /\ pc = "busy" /\ UNCHANGED flash
        /\ (pc' = "busy" /\ comd # Idle) \/ (pc' = "clear" /\ comd = Idle)
    BY <1>5 DEF WaitCommand, Loaded, LoadedZero, Breaks, Dead, Goto
  <2>2. UNCHANGED <<cache, comd, addr, datn, rxfifo, sent, wip>>
    BY <2>1 DEF flash
  <2>. QED BY <2>1, <2>2 DEF OnCourse, RestPcs
<1>6. CASE AskStatus
  <2>1. pc = "rdsr" /\ pc' = "status" /\ ComdWrite("RDSR")
    BY <1>6 DEF AskStatus, Store, Breaks, Dead, Goto
  <2>2. comd = Idle /\ rxfifo = <<>> /\ ~cache
    BY <2>1 DEF OnCourse
  <2>3. comd' = "RDSR" /\ rxfifo' = <<>> /\ ~cache'
    BY <2>1, <2>2 DEF ComdWrite
  <2>. QED BY <2>1, <2>3 DEF OnCourse, RestPcs
<1>7. CASE WaitReceived
  <2>1. /\ UNCHANGED flash /\ UNCHANGED <<program, req, done, i, wipbit>>
        /\ \/ pc = "status" /\ pc' = "status"
           \/ pc = "status" /\ pc' = "rdata" /\ rxfifo # <<>>
           \/ pc = "r_wait" /\ pc' = "r_wait"
           \/ pc = "r_wait" /\ pc' = "r_data" /\ rxfifo # <<>>
    BY <1>7 DEF WaitReceived, Loaded, Breaks, Goto, Rest, Received
  <2>2. UNCHANGED <<cache, comd, addr, datn, rxfifo, sent, wip>>
    BY <2>1 DEF flash
  <2>3. ReadWords' = ReadWords /\ Unit' = Unit
    BY <2>1, Framed
  <2>4. StatusHere' = StatusHere /\ ReadOnWire' = ReadOnWire
    BY <2>1, <2>2, <2>3 DEF StatusHere, ReadOnWire
  <2>. QED BY <2>1, <2>2, <2>3, <2>4 DEF OnCourse, RestPcs
<1>8. CASE WaitReceivedZero
  BY <1>8 DEF WaitReceivedZero, LoadedZero, Breaks, Dead
<1>9. CASE ReadStatus
  <2>1. /\ pc = "rdata" /\ pc' = "clear_again" /\ RdataRead /\ wipbit' = (Rdata[1] % 2 = 1)
    BY <1>9 DEF ReadStatus, Loaded, LoadedZero, Breaks, Dead, Goto
  <2>2. StatusHere /\ ~cache
    BY <2>1 DEF OnCourse
  <2>3. rxfifo \in Seq(FlashWords)
    BY DEF TypeOK, FlashTypeOK
  <2>4. comd' = Idle /\ ~cache' /\ wip' = wip /\ rxfifo' = Tail(rxfifo) /\ Len(rxfifo) = 1 /\ rxfifo # <<>>
    BY <2>1, <2>2 DEF RdataRead, StatusHere
  <2>5. rxfifo' = <<>>
    BY <2>3, <2>4
  <2>6. Rdata = rxfifo[1] /\ Rdata \in FlashWords
    BY <2>3, <2>4, RdataTyped DEF Rdata, TypeOK
  <2>7. Rdata[1] \in Nat
    <3>1. 1 \in 1 .. WordBytes
      BY Sizes
    <3>2. Rdata[1] \in Bytes
      BY <2>6, <3>1, Zenon DEF FlashWords
    <3>. QED BY <3>2 DEF Bytes
  <2>8. ASSUME ~wipbit' PROVE wip' = NoWork
    <3>1. Rdata[1] % 2 # 1
      BY <2>1, <2>8
    <3>2. Rdata[1] % 2 = 0
      BY <3>1, <2>7
    <3>3. rxfifo[1][1] % 2 = 0
      BY <3>2, <2>6
    <3>. QED BY <3>3, <2>2, <2>4 DEF StatusHere
  <2>. QED BY <2>1, <2>4, <2>5, <2>8 DEF OnCourse, RestPcs
<1>. QED BY <1>1, <1>2, <1>3, <1>4, <1>5, <1>6, <1>7, <1>8, <1>9 DEF Shared

LEMMA CourseErase ==
  ASSUME OnCourse, flash_erase, link' = "up"
  PROVE  OnCourse'
<1>1. CASE EraseEnable
  <2>1. pc = "e_wren" /\ pc' = "e_addr" /\ ComdWrite("WREN")
    BY <1>1 DEF EraseEnable, Store, Breaks, Dead, Goto
  <2>2. comd' = Idle /\ wip' = NoWork /\ rxfifo' = <<>> /\ ~cache'
    BY <2>1 DEF ComdWrite, OnCourse, RestPcs
  <2>. QED BY <2>1, <2>2, AtRest DEF RestPcs
<1>2. CASE EraseAddress
  <2>1. pc = "e_addr" /\ pc' = "e_comd" /\ AddrWrite(req.from + done) /\ UNCHANGED <<req, done>>
    BY <1>2 DEF EraseAddress, Store, Breaks, Dead, Goto, Rest
  <2>2. comd' = Idle /\ wip' = NoWork /\ rxfifo' = <<>> /\ ~cache' /\ addr' = req'.from + done'
    BY <2>1 DEF AddrWrite, OnCourse, RestPcs
  <2>. QED BY <2>1, <2>2 DEF OnCourse
<1>3. CASE EraseCommand
  <2>1. pc = "e_comd" /\ pc' = "busy" /\ ComdWrite("SE")
    BY <1>3 DEF EraseCommand, Store, Breaks, Dead, Goto
  <2>2. comd = Idle /\ rxfifo = <<>> /\ ~cache
    BY <2>1 DEF OnCourse, RestPcs
  <2>3. comd' = "SE" /\ rxfifo' = <<>> /\ ~cache'
    BY <2>1, <2>2 DEF ComdWrite
  <2>. QED BY <2>1, <2>3 DEF OnCourse, RestPcs
<1>. QED BY <1>1, <1>2, <1>3 DEF flash_erase

LEMMA CourseWrite ==
  ASSUME OnCourse, flash_write, link' = "up"
  PROVE  OnCourse'
<1>1. CASE WriteFill
  <2>1. pc = "w_fill" /\ pc' \in {"w_fill", "w_addr"} /\ WdataWrite(BufferWord(i))
    BY <1>1 DEF WriteFill, Store, Breaks, Dead, Goto
  <2>2. comd' = Idle /\ wip' = NoWork /\ rxfifo' = <<>> /\ ~cache'
    BY <2>1 DEF WdataWrite, OnCourse, RestPcs
  <2>. QED BY <2>1, <2>2, AtRest DEF RestPcs
<1>2. CASE WriteAddress
  <2>1. /\ pc = "w_addr" /\ pc' = "w_datn" /\ AddrWrite(req.offset + done)
        /\ UNCHANGED <<req, done>>
    BY <1>2 DEF WriteAddress, Store, Breaks, Dead, Goto, Rest
  <2>2. comd' = Idle /\ wip' = NoWork /\ rxfifo' = <<>> /\ ~cache' /\ addr' = req'.offset + done'
    BY <2>1 DEF AddrWrite, OnCourse, RestPcs
  <2>. QED BY <2>1, <2>2 DEF OnCourse
<1>3. CASE WriteLength
  <2>1. /\ pc = "w_datn" /\ pc' = "w_wren" /\ DatnWrite(Unit - 1)
        /\ UNCHANGED <<program, req, done>>
    BY <1>3 DEF WriteLength, Store, Breaks, Dead, Goto, Rest
  <2>2. comd' = Idle /\ wip' = NoWork /\ rxfifo' = <<>> /\ ~cache' /\ addr' = req'.offset + done'
    BY <2>1 DEF DatnWrite, OnCourse, RestPcs
  <2>3. datn' = Unit' - 1
    BY <2>1, Framed DEF DatnWrite
  <2>. QED BY <2>1, <2>2, <2>3 DEF OnCourse
<1>4. CASE WriteEnable
  <2>1. /\ pc = "w_wren" /\ pc' = "w_comd" /\ ComdWrite("WREN")
        /\ UNCHANGED <<program, req, done>>
    BY <1>4 DEF WriteEnable, Store, Breaks, Dead, Goto, Rest
  <2>2. comd' = Idle /\ wip' = NoWork /\ rxfifo' = <<>> /\ ~cache' /\ addr' = req'.offset + done'
    BY <2>1 DEF ComdWrite, OnCourse, RestPcs
  <2>3. datn' = Unit' - 1
    BY <2>1, Framed DEF ComdWrite, OnCourse
  <2>. QED BY <2>1, <2>2, <2>3 DEF OnCourse
<1>5. CASE WriteCommand
  <2>1. pc = "w_comd" /\ pc' \in {"w_room", "busy"} /\ ComdWrite("PP")
    BY <1>5 DEF WriteCommand, Store, Breaks, Dead, Goto, MoreWords
  <2>2. comd = Idle /\ rxfifo = <<>> /\ ~cache
    BY <2>1 DEF OnCourse, RestPcs
  <2>3. comd' = "PP" /\ rxfifo' = <<>> /\ ~cache'
    BY <2>1, <2>2 DEF ComdWrite
  <2>. QED BY <2>1, <2>3 DEF OnCourse, RestPcs
<1>6. CASE WaitRoom
  <2>1. pc = "w_room" /\ pc' \in {"w_room", "w_data"} /\ UNCHANGED flash
    BY <1>6 DEF WaitRoom, Loaded, Breaks, Goto
  <2>2. comd' \in {Idle, "SE", "PP"} /\ rxfifo' = <<>> /\ ~cache'
    BY <2>1 DEF flash, OnCourse
  <2>. QED BY <2>1, <2>2 DEF OnCourse, RestPcs
<1>7. CASE WriteWord
  <2>1. pc = "w_data" /\ pc' \in {"w_room", "busy"} /\ WdataWrite(BufferWord(i))
    BY <1>7 DEF WriteWord, Store, Breaks, Dead, Goto, MoreWords
  <2>2. comd' \in {Idle, "SE", "PP"} /\ rxfifo' = <<>> /\ ~cache'
    BY <2>1 DEF WdataWrite, OnCourse
  <2>. QED BY <2>1, <2>2 DEF OnCourse, RestPcs
<1>. QED BY <1>1, <1>2, <1>3, <1>4, <1>5, <1>6, <1>7 DEF flash_write

LEMMA CourseRead ==
  ASSUME TypeOK, LoopInv, OnCourse, flash_read, link' = "up"
  PROVE  OnCourse'
<1>1. CASE ReadAddress
  <2>1. pc = "r_addr" /\ pc' = "r_datn" /\ AddrWrite(req.offset + done)
    BY <1>1 DEF ReadAddress, Store, Breaks, Dead, Goto
  <2>2. comd' = Idle /\ wip' = NoWork /\ rxfifo' = <<>> /\ ~cache'
    BY <2>1 DEF AddrWrite, OnCourse, RestPcs
  <2>. QED BY <2>1, <2>2, AtRest DEF RestPcs
<1>2. CASE ReadLength
  <2>1. /\ pc = "r_datn" /\ pc' = "r_comd" /\ DatnWrite(ReadWords * WordBytes - 1)
        /\ UNCHANGED <<program, req, done>>
    BY <1>2 DEF ReadLength, Store, Breaks, Dead, Goto, Rest
  <2>2. comd' = Idle /\ wip' = NoWork /\ rxfifo' = <<>> /\ ~cache'
    BY <2>1 DEF DatnWrite, OnCourse, RestPcs
  <2>3. datn' = ReadWords' * WordBytes - 1
    BY <2>1, Framed DEF DatnWrite
  <2>. QED BY <2>1, <2>2, <2>3 DEF OnCourse
<1>3. CASE ReadCommand
  <2>1. /\ pc = "r_comd" /\ pc' = "r_wait" /\ ComdWrite("RD")
        /\ UNCHANGED <<program, req, done, i>>
    BY <1>3 DEF ReadCommand, Store, Breaks, Dead, Goto, Rest
  <2>2. /\ comd = Idle /\ wip = NoWork /\ rxfifo = <<>> /\ ~cache
        /\ datn = ReadWords * WordBytes - 1
    BY <2>1 DEF OnCourse, RestPcs
  <2>3. comd' = "RD" /\ sent' = 0 /\ wip' = NoWork /\ rxfifo' = <<>> /\ ~cache' /\ datn' = datn
    BY <2>1, <2>2 DEF ComdWrite
  <2>4. i = 0
    BY <2>1 DEF LoopInv
  <2>5. ReadWords' = ReadWords
    BY <2>1, Framed
  <2>6. ReadWords \in Nat \ {0}
    BY <2>1, UnitWords DEF ReadPcs
  <2>7. i' = 0 /\ Len(rxfifo') = 0 /\ 0 * WordBytes = 0
    BY <2>1, <2>3, <2>4, Sizes
  <2>8. ReadOnWire'
    BY <2>3, <2>5, <2>6, <2>7 DEF ReadOnWire
  <2>. QED BY <2>1, <2>2, <2>3, <2>5, <2>8 DEF OnCourse, RestPcs
<1>4. CASE ReadWord
  <2>1. pc = "r_data" /\ RdataRead /\ UNCHANGED <<program, req>>
    BY <1>4 DEF ReadWord, Loaded, LoadedZero, Breaks, Dead
  <2>2. /\ wip = NoWork /\ ReadOnWire /\ rxfifo # <<>> /\ ~cache
        /\ datn = ReadWords * WordBytes - 1
    BY <2>1 DEF OnCourse
  <2>3. /\ rxfifo' = Tail(rxfifo) /\ UNCHANGED <<cache, comd, datn, sent, wip>>
    BY <2>1, <2>2 DEF RdataRead
  <2>4. rxfifo \in Seq(FlashWords) /\ i \in Nat /\ WordBytes \in Nat
    <3>1. PageSize \div WordBytes \in Nat
      BY Sizes, Multiple
    <3>. QED BY <3>1, Sizes DEF TypeOK, FlashTypeOK
  <2>5. Len(rxfifo) \in Nat \ {0} /\ Len(rxfifo') = Len(rxfifo) - 1
    BY <2>2, <2>3, <2>4
  <2>6. i < ReadWords /\ ReadWords \in Nat
    BY <2>1, UnitWords DEF LoopInv, ReadPcs
  <2>7. CASE i + 1 < ReadWords
    <3>1. i' = i + 1 /\ pc' = "r_wait" /\ done' = done
      BY <1>4, <2>7 DEF ReadWord, Goto
    <3>2. ReadWords' = ReadWords
      BY <2>1, <3>1, Framed
    <3>3. i' + Len(rxfifo') = i + Len(rxfifo)
      BY <3>1, <2>4, <2>5
    <3>4. ReadOnWire'
      BY <2>2, <2>3, <3>2, <3>3 DEF ReadOnWire
    <3>. QED BY <2>2, <2>3, <3>1, <3>2, <3>4 DEF OnCourse, RestPcs
  <2>8. CASE ~(i + 1 < ReadWords)
    <3>1. NextUnit(done + Unit)
      BY <1>4, <2>8 DEF ReadWord
    <3>2. i + 1 = ReadWords
      BY <2>4, <2>6, <2>8
    <3>3. comd = Idle /\ Len(rxfifo) = 1
      BY <2>2, <2>4, <2>5, <3>2 DEF ReadOnWire
    <3>4. comd' = Idle /\ wip' = NoWork /\ ~cache' /\ rxfifo' = <<>>
      BY <2>2, <2>3, <2>4, <3>3
    <3>. QED BY <3>1, <3>4, NextUnitGoes, AtRest DEF RestPcs
  <2>. QED BY <2>7, <2>8
<1>. QED BY <1>1, <1>2, <1>3, <1>4 DEF flash_read

LEMMA CourseWire ==
  ASSUME TypeOK, LoopInv, OnCourse, Wire
  PROVE  OnCourse'
<1>1. UNCHANGED driver /\ UNCHANGED <<program, pc, req, done, i, wipbit>>
  BY DEF Wire, driver
<1>2. Unit' = Unit /\ ReadWords' = ReadWords
  BY <1>1, Framed
<1>3. pc \in Pcs /\ rxfifo \in Seq(FlashWords)
  BY DEF TypeOK, FlashTypeOK
<1>4. CASE TakeWord
  <2>1. comd = "PP" /\ comd' \in {Idle, "PP"} /\ UNCHANGED <<cache, addr, datn, rxfifo>>
    BY <1>4 DEF TakeWord
  <2>2. pc \in {"w_room", "w_data", "busy"}
    BY <2>1, <1>3 DEF OnCourse, RestPcs, Pcs, StatusHere, ReadOnWire, Idle
  <2>. QED BY <1>1, <2>1, <2>2 DEF OnCourse, RestPcs
<1>5. CASE StartErase
  <2>1. comd = "SE" /\ comd' = Idle /\ UNCHANGED <<cache, addr, datn, rxfifo>>
    BY <1>5 DEF StartErase
  <2>2. pc \in {"w_room", "w_data", "busy"}
    BY <2>1, <1>3 DEF OnCourse, RestPcs, Pcs, StatusHere, ReadOnWire, Idle
  <2>. QED BY <1>1, <2>1, <2>2 DEF OnCourse, RestPcs
<1>6. CASE SendStatus
  <2>. DEFINE word == [k \in 1 .. WordBytes |-> IF wip = NoWork THEN 0 ELSE 1]
  <2>1. /\ comd = "RDSR" /\ comd' = Idle /\ rxfifo' = Append(rxfifo, word)
        /\ UNCHANGED <<cache, wip>>
    BY <1>6 DEF SendStatus
  <2>2. pc = "status" /\ rxfifo = <<>> /\ ~cache
    BY <2>1, <1>3 DEF OnCourse, RestPcs, Pcs, StatusHere, ReadOnWire, Idle
  <2>3. word[1] = IF wip = NoWork THEN 0 ELSE 1
    <3>1. 1 \in 1 .. WordBytes
      BY Sizes
    <3>. QED BY <3>1
  <2>. HIDE DEF word
  <2>4. Len(rxfifo') = 1 /\ rxfifo'[1] = word
    BY <2>1, <2>2
  <2>5. rxfifo'[1][1] % 2 = 0 => wip' = NoWork
    BY <2>1, <2>3, <2>4
  <2>6. StatusHere'
    BY <2>1, <2>4, <2>5 DEF StatusHere
  <2>. QED BY <1>1, <2>1, <2>2, <2>6 DEF OnCourse, RestPcs
<1>7. CASE SendWord
  <2>1. /\ comd = "RD" /\ Len(rxfifo') = Len(rxfifo) + 1
        /\ sent' = sent + WordBytes
        /\ comd' = IF sent' >= Count THEN Idle ELSE "RD"
        /\ UNCHANGED <<cache, datn, wip>>
    BY <1>3, <1>7 DEF SendWord
  <2>2. rxfifo' # <<>>
    <3>1. Len(rxfifo') # 0
      BY <2>1, <1>3
    <3>. QED BY <3>1
  <2>3. pc \in {"r_wait", "r_data"}
    BY <2>1, <1>3 DEF OnCourse, RestPcs, Pcs, StatusHere, Idle
  <2>4. /\ ~cache /\ wip = NoWork /\ datn = ReadWords * WordBytes - 1
        /\ sent = (i + Len(rxfifo)) * WordBytes /\ i + Len(rxfifo) < ReadWords
    BY <2>1, <2>3 DEF OnCourse, ReadOnWire, Idle
  <2>. DEFINE n == i + Len(rxfifo)
  <2>5. n \in Nat /\ i \in Nat /\ Len(rxfifo) \in Nat
    <3>1. PageSize \div WordBytes \in Nat
      BY Sizes, Multiple
    <3>. QED BY <3>1, <1>3 DEF TypeOK
  <2>6. ReadWords \in Nat
    BY <2>3, UnitWords DEF ReadPcs
  <2>. DEFINE m == n + 1
  <2>7. i' + Len(rxfifo') = m
    BY <1>1, <2>1, <2>5
  <2>8. sent' = m * WordBytes
    <3>1. m * WordBytes = n * WordBytes + WordBytes
      BY <2>5, Sizes
    <3>. QED BY <3>1, <2>1, <2>4
  <2>9. Count = ReadWords * WordBytes
    <3>1. ReadWords * WordBytes \in Nat
      BY <2>6, Sizes
    <3>. QED BY <3>1, <2>4 DEF Count
  <2>10. m <= ReadWords /\ m \in Nat
    BY <2>4, <2>5, <2>6
  <2>11. ASSUME m = ReadWords PROVE ReadOnWire'
    <3>1. comd' = Idle
      <4>1. sent' = Count
        BY <2>8, <2>9, <2>11
      <4>2. Count \in Nat
        BY <2>9, <2>6, Sizes
      <4>3. sent' >= Count
        BY <4>1, <4>2
      <4>. QED BY <4>3, <2>1
    <3>. QED BY <3>1, <2>7, <2>11, <1>2 DEF ReadOnWire
  <2>12. ASSUME m < ReadWords PROVE ReadOnWire'
    <3>1. m * WordBytes < ReadWords * WordBytes
      BY <2>12, <2>10, <2>6, Sizes
    <3>2. sent' < Count /\ sent' \in Nat /\ Count \in Nat
      BY <3>1, <2>8, <2>9, <2>10, <2>6, Sizes
    <3>3. comd' = "RD"
      BY <3>2, <2>1
    <3>. QED BY <3>3, <2>7, <2>8, <2>12, <1>2 DEF ReadOnWire
  <2>13. ReadOnWire'
    BY <2>10, <2>11, <2>12, <2>6
  <2>. QED BY <1>1, <1>2, <2>1, <2>2, <2>3, <2>4, <2>13 DEF OnCourse, RestPcs
<1>. QED BY <1>4, <1>5, <1>6, <1>7 DEF Wire

LEMMA CourseArray ==
  ASSUME OnCourse, Array
  PROVE  OnCourse'
<1>1. /\ UNCHANGED <<program, pc, req, done, i, wipbit>> /\ wip' = NoWork
      /\ UNCHANGED <<cache, comd, addr, datn, rxfifo, sent>>
  BY DEF Array, FinishArray
<1>2. Unit' = Unit /\ ReadWords' = ReadWords
  BY <1>1, Framed
<1>3. (ReadOnWire' = ReadOnWire) /\ (StatusHere => StatusHere')
  BY <1>1, <1>2 DEF ReadOnWire, StatusHere
<1>. QED BY <1>1, <1>2, <1>3 DEF OnCourse

LEMMA CourseStutter ==
  ASSUME OnCourse, UNCHANGED vars
  PROVE  OnCourse'
<1>1. /\ UNCHANGED <<program, pc, req, done, i, wipbit>>
      /\ UNCHANGED <<cache, comd, addr, datn, rxfifo, sent, wip>>
  BY DEF vars, flash, driver
<1>2. Unit' = Unit /\ ReadWords' = ReadWords
  BY <1>1, Framed
<1>3. ReadOnWire' = ReadOnWire /\ StatusHere' = StatusHere
  BY <1>1, <1>2 DEF ReadOnWire, StatusHere
<1>. QED BY <1>1, <1>2, <1>3 DEF OnCourse

LEMMA CourseStep ==
  ASSUME TypeOK, LoopInv, Course, [Next]_vars
  PROVE  Course'
<1>. SUFFICES ASSUME link' = "up" PROVE OnCourse'
  BY DEF Course
<1>1. CASE \E r \in Requests : Call(r)
  <2>1. PICK r \in Requests : Call(r)
    BY <1>1
  <2>2. OnCourse
    BY <2>1 DEF Call, Course
  <2>. QED BY <2>1, <2>2, CourseCall
<1>2. CASE Steps
  <2>1. OnCourse
    BY <1>2, StepsRegisters DEF Course, TypeOK
  <2>. QED BY <1>2, <2>1, CourseShared, CourseErase, CourseWrite, CourseRead DEF Steps
<1>3. CASE Wire
  <2>1. OnCourse
    BY <1>3 DEF Wire, driver, Course
  <2>. QED BY <1>3, <2>1, CourseWire
<1>4. CASE Array
  <2>1. OnCourse
    BY <1>4 DEF Array, Course
  <2>. QED BY <1>4, <2>1, CourseArray
<1>5. CASE UNCHANGED vars
  <2>1. OnCourse
    BY <1>5 DEF vars, driver, Course
  <2>. QED BY <1>5, <2>1, CourseStutter
<1>. QED BY <1>1, <1>2, <1>3, <1>4, <1>5 DEF Next

-------------------------------------------------------------------------------
(* The cache                                                               *)

LEMMA CacheStep ==
  ASSUME TypeOK, Course, CacheOffAtWork, [Next]_vars
  PROVE  CacheOffAtWork'
<1>1. CASE \/ UNCHANGED <<cache, comd, wip>>
           \/ cache' = FALSE
           \/ UNCHANGED cache /\ wip' = wip /\ comd' = Idle
  BY <1>1 DEF CacheOffAtWork
<1>2. CASE \E r \in Requests : Call(r)
  BY <1>1, <1>2 DEF Call, flash
<1>3. CASE Steps
  <2>1. RegisterOp
    BY <1>3, StepsRegisters DEF TypeOK
  <2>2. CASE UNCHANGED flash \/ RdataRead \/ (\E a : AddrWrite(a)) \/ (\E n : DatnWrite(n))
             \/ (\E w : WdataWrite(w))
    BY <1>1, <2>2 DEF flash, RdataRead, AddrWrite, DatnWrite, WdataWrite
  <2>3. CASE CtrlWrite(FALSE)
    BY <1>1, <2>3 DEF CtrlWrite
  <2>4. CASE link = "up" /\ pc = "on" /\ CtrlWrite(TRUE)
    BY <2>4 DEF CtrlWrite, Course, OnCourse, RestPcs, CacheOffAtWork
  <2>5. ASSUME link = "up", pc \notin {"idle", "init", "clear_first", "off"}, NEW c, ComdWrite(c)
        PROVE  CacheOffAtWork'
    BY <2>5 DEF ComdWrite, Course, OnCourse, CacheOffAtWork
  <2>. QED BY <2>1, <2>2, <2>3, <2>4, <2>5 DEF RegisterOp
<1>4. CASE Wire
  <2>1. comd # Idle /\ UNCHANGED cache
    BY <1>4 DEF Wire, TakeWord, SendWord, SendStatus, StartErase, Idle
  <2>. QED BY <2>1 DEF CacheOffAtWork
<1>5. CASE Array
  <2>1. wip # NoWork /\ UNCHANGED cache
    BY <1>5 DEF Array, FinishArray
  <2>. QED BY <2>1 DEF CacheOffAtWork
<1>6. CASE UNCHANGED vars
  BY <1>1, <1>6 DEF vars, flash
<1>. QED BY <1>2, <1>3, <1>4, <1>5, <1>6 DEF Next

-------------------------------------------------------------------------------
(* What the flash changes                                                  *)

LEMMA SectorInRegion ==
  ASSUME TypeOK, LoopInv, pc = "e_comd"
  PROVE  SectorAt((req.from + done) % MemSize) \subseteq Region(req)
<1>. DEFINE x == req.from + done  s == x % MemSize
<1>1. /\ req \in Requests /\ req.f = "erase" /\ ~Refused(req) /\ done \in Nat
      /\ done < Total /\ AtUnit
  BY DEF TypeOK, LoopInv, ErasePcs, UnitPcs
<1>2. req.from \in Nat /\ req.from % SectorSize = 0 /\ done % SectorSize = 0
  BY <1>1, Asked DEF Refused, AtUnit
<1>3. x \in Nat /\ x % SectorSize = 0
  BY <1>1, <1>2, Sizes, MultiplesAdded
<1>4. s % SectorSize = 0 /\ s + SectorSize <= MemSize
  BY <1>3, Sizes, Nested
<1>5. PICK u \in Nat : x = MemSize * u + s /\ s \in 0 .. MemSize - 1
  <2>1. x \div MemSize \in Nat /\ s \in 0 .. MemSize - 1 /\ x = MemSize * (x \div MemSize) + s
    BY <1>3, Sizes, Divided
  <2>. QED BY <2>1, Zenon
<1>6. Region(req) = {b % MemSize : b \in req.from .. req.from + Total - 1}
  BY <1>1 DEF Region, Total
<1>7. done + SectorSize <= Total /\ Total \in Nat
  <2>1. Total \in 0 .. UintRange
    BY <1>1, TotalTyped
  <2>. QED BY <2>1, <1>1, SectorUnit, Sizes
<1>. HIDE DEF s
<1>8. ASSUME NEW a \in SectorAt(s) PROVE a \in Region(req)
  <2>1. a \in Nat /\ a \div SectorSize = s \div SectorSize /\ s \in Nat
    BY <1>5, Sizes DEF SectorAt, Cells
  <2>. DEFINE r == a % SectorSize  q == s \div SectorSize
  <2>2. r \in 0 .. SectorSize - 1 /\ a = SectorSize * q + r
    BY <2>1, Sizes, Divided
  <2>3. s = SectorSize * q
    BY <1>4, <2>1, Sizes, Multiple
  <2>. HIDE DEF r, q
  <2>4. a = s + r /\ a \in 0 .. MemSize - 1
    BY <2>1, <2>2, <2>3, <1>4, Sizes
  <2>5. x + r = MemSize * u + a
    <3>1. MemSize * u \in Nat
      BY <1>5, Sizes
    <3>. QED BY <3>1, <1>3, <1>5, <2>1, <2>2, <2>4, Sizes
  <2>6. (MemSize * u + a) % MemSize = a
    <3>1. u \in Nat /\ a \in 0 .. MemSize - 1 /\ MemSize \in Nat \ {0}
      BY <2>4, Sizes
    <3>. QED BY <3>1, DividedOnce
  <2>7. x + r \in req.from .. req.from + Total - 1
    BY <1>1, <1>2, <1>3, <1>7, <2>2, Sizes
  <2>8. a = (x + r) % MemSize
    BY <2>5, <2>6
  <2>. HIDE DEF x
  <2>. QED BY <2>7, <2>8, <1>6
<1>. QED BY <1>8 DEF s

\* No page of a write wraps: its bytes go to the cells from its address on.
LEMMA NoWrap ==
  ASSUME TypeOK, LoopInv, req.f = "write", pc \in UnitPcs, NEW k \in 1 .. Unit
  PROVE  /\ PageOf(req.offset + done) + ((req.offset + done + k - 1) % PageSize)
              = req.offset + done + k - 1
         /\ req.offset + done + k - 1 \in req.offset .. req.offset + req.count - 1
<1>. DEFINE x == req.offset + done  c == x % PageSize
<1>1. /\ req \in Requests /\ done \in Nat /\ done < Total /\ AtUnit
  BY DEF TypeOK, LoopInv, UnitPcs
<1>2. req.offset \in Nat /\ req.count \in Nat /\ Total = req.count
  BY <1>1, Asked DEF Total
<1>3. Unit \in 1 .. PageSize /\ done + Unit <= Total /\ c + Unit <= PageSize
  BY <1>1, PageUnit
<1>4. x \in Nat
  BY <1>1, <1>2
<1>5. PICK q \in Nat : x = PageSize * q + c /\ c \in 0 .. PageSize - 1
  <2>1. x \div PageSize \in Nat /\ c \in 0 .. PageSize - 1 /\ x = PageSize * (x \div PageSize) + c
    BY <1>4, Sizes, Divided
  <2>. QED BY <2>1, Zenon
<1>6. PageOf(x) = x - c
  BY DEF PageOf
<1>7. x + k - 1 \in req.offset .. req.offset + req.count - 1
  BY <1>1, <1>2, <1>3, Sizes
<1>. HIDE DEF c
<1>. DEFINE r == c + k - 1
<1>8. r \in 0 .. PageSize - 1
  BY <1>3, <1>5, Sizes
<1>9. PageSize * q \in Nat
  BY <1>5, Sizes
<1>10. x + k - 1 = PageSize * q + r
  BY <1>3, <1>4, <1>5, <1>9, Sizes
<1>11. (PageSize * q + r) % PageSize = r
  BY <1>8, <1>5, Sizes, DividedOnce
<1>12. (x + k - 1) % PageSize = r
  BY <1>10, <1>11
<1>. HIDE DEF x
<1>13. PageOf(x) + ((x + k - 1) % PageSize) = x + k - 1
  BY <1>12, <1>6, <1>3, <1>4, <1>5, Sizes
<1>. QED BY <1>7, <1>13 DEF x

\* An address of a write is an address of the flash.
LEMMA WriteHere ==
  ASSUME TypeOK, LoopInv, req.f = "write", pc \in UnitPcs
  PROVE  (req.offset + done) % MemSize = req.offset + done
<1>. DEFINE x == req.offset + done
<1>1. req \in Requests /\ done \in Nat /\ done < Total /\ Asks(req) /\ ~Refused(req)
  BY DEF TypeOK, LoopInv, UnitPcs, ErasePcs, WritePcs, ReadPcs, WaitPcs
<1>2. /\ req.offset \in Nat /\ req.count \in Nat /\ Total = req.count
      /\ req.offset + req.count <= MemSize
  BY <1>1, Asked DEF Total, Asks
<1>3. x \in 0 .. MemSize - 1
  BY <1>1, <1>2, Sizes
<1>. HIDE DEF x
<1>4. (MemSize * 0 + x) % MemSize = x
  BY <1>3, Sizes, DividedOnce
<1>5. MemSize * 0 + x = x
  BY <1>3, Sizes
<1>. QED BY <1>4, <1>5 DEF x

LEMMA PageInRegion ==
  ASSUME TypeOK, LoopInv, pc = "w_comd"
  PROVE  PageAt((req.offset + done) % MemSize, Unit) \subseteq Region(req)
<1>1. req.f = "write" /\ pc \in UnitPcs /\ ~Refused(req)
  BY DEF LoopInv, WritePcs, UnitPcs
<1>2. Region(req) = req.offset .. req.offset + req.count - 1
  BY <1>1 DEF Region
<1>3. (req.offset + done) % MemSize = req.offset + done
  BY <1>1, WriteHere
<1>4. \A k \in 1 .. Unit :
        PageOf(req.offset + done) + ((req.offset + done + k - 1) % PageSize) \in Region(req)
  BY <1>1, <1>2, NoWrap
<1>. QED BY <1>3, <1>4 DEF PageAt

LEMMA RegionFramed ==
  ASSUME UNCHANGED <<req, program>>
  PROVE  Region(req)' = Region(req)
BY DEF Region, Refused, Sectors

LEMMA RegionCall ==
  ASSUME TypeOK, Course, RegionInv, NEW r \in Requests, Call(r)
  PROVE  RegionInv'
<1>1. pc = "idle" /\ req' = r /\ UNCHANGED flash /\ UNCHANGED <<program, link>>
  BY DEF Call
<1>2. UNCHANGED <<comd, addr, datn, wip>>
  BY <1>1 DEF flash
<1>3. CASE link = "up"
  <2>1. comd = Idle /\ wip = NoWork
    BY <1>1, <1>3 DEF Course, OnCourse, RestPcs
  <2>2. asked' = Region(r)
    BY <1>3 DEF Call
  <2>3. Region(req)' = Region(r)
    BY <1>1 DEF Region, Refused, Sectors
  <2>4. comd' = Idle /\ wip'.op = Idle
    BY <1>2, <2>1 DEF NoWork
  <2>. QED BY <2>2, <2>3, <2>4 DEF RegionInv, Idle
<1>4. CASE link = "down"
  <2>1. asked \subseteq asked' /\ link' = "down"
    BY <1>1, <1>4 DEF Call
  <2>2. SectorAt(addr % MemSize)' = SectorAt(addr % MemSize) /\ SectorAt(wip.at)' = SectorAt(wip.at)
    BY <1>2 DEF SectorAt
  <2>3. PageAt(addr % MemSize, Count)' = PageAt(addr % MemSize, Count)
    BY <1>2 DEF PageAt, Count, PageOf
  <2>4. PageAt(wip.at, Len(wip.bytes))' = PageAt(wip.at, Len(wip.bytes))
    BY <1>2 DEF PageAt, PageOf
  <2>. QED BY <1>2, <2>1, <2>2, <2>3, <2>4 DEF RegionInv
<1>. QED BY <1>3, <1>4 DEF TypeOK

\* The command on the wire is the one it was, or the one just written.
LEMMA RegionRegisters ==
  ASSUME TypeOK, LoopInv, Course, RegionInv, RegisterOp, pc # "idle",
         link' = "up" => link = "up", UNCHANGED <<program, req, asked>>
  PROVE  RegionInv'
<1>1. Region(req)' = Region(req)
  BY RegionFramed
<1>2. UNCHANGED wip
  BY DEF RegisterOp, flash, CtrlWrite, AddrWrite, DatnWrite, ComdWrite, WdataWrite, RdataRead
<1>3. CASE UNCHANGED <<comd, addr, datn>>
  <2>1. SectorAt(addr % MemSize)' = SectorAt(addr % MemSize) /\ SectorAt(wip.at)' = SectorAt(wip.at)
    BY <1>2, <1>3 DEF SectorAt
  <2>2. PageAt(addr % MemSize, Count)' = PageAt(addr % MemSize, Count)
    BY <1>3 DEF PageAt, Count, PageOf
  <2>3. PageAt(wip.at, Len(wip.bytes))' = PageAt(wip.at, Len(wip.bytes))
    BY <1>2 DEF PageAt, PageOf
  <2>. QED BY <1>1, <1>2, <1>3, <2>1, <2>2, <2>3 DEF RegionInv
<1>4. CASE link = "up" /\ pc \in RestPcs /\ comd' \notin {"SE", "PP"}
  <2>1. wip'.op = Idle
    BY <1>2, <1>4 DEF Course, OnCourse, NoWork
  <2>. QED BY <1>1, <1>4, <2>1 DEF RegionInv, Idle
<1>5. CASE link = "up" /\ pc = "e_comd" /\ ComdWrite("SE")
  <2>1. comd = Idle /\ wip = NoWork /\ addr = req.from + done
    BY <1>5 DEF Course, OnCourse, RestPcs
  <2>2. comd' = "SE" /\ addr' = addr /\ wip'.op = Idle
    BY <1>2, <1>5, <2>1 DEF ComdWrite, NoWork
  <2>3. asked = Region(req)
    BY <1>5 DEF RegionInv
  <2>4. SectorAt(addr % MemSize)' = SectorAt((req.from + done) % MemSize)
    BY <2>1, <2>2 DEF SectorAt
  <2>5. SectorAt(addr % MemSize)' \subseteq asked'
    BY <1>5, <2>3, <2>4, SectorInRegion
  <2>. QED BY <1>1, <2>2, <2>3, <2>5 DEF RegionInv, Idle
<1>6. CASE link = "up" /\ pc = "w_comd" /\ ComdWrite("PP")
  <2>1. comd = Idle /\ wip = NoWork /\ addr = req.offset + done /\ datn = Unit - 1
    BY <1>6 DEF Course, OnCourse, RestPcs
  <2>2. comd' = "PP" /\ addr' = addr /\ datn' = datn /\ wip'.op = Idle
    BY <1>2, <1>6, <2>1 DEF ComdWrite, NoWork
  <2>3. asked = Region(req)
    BY <1>6 DEF RegionInv
  <2>4. Count' = Unit
    <3>1. Unit \in 1 .. PageSize
      BY <1>6, UnitWords DEF WritePcs
    <3>. QED BY <3>1, <2>1, <2>2, Sizes DEF Count
  <2>5. PageAt(addr % MemSize, Count)' = PageAt((req.offset + done) % MemSize, Unit)
    BY <2>1, <2>2, <2>4 DEF PageAt, PageOf
  <2>6. PageAt(addr % MemSize, Count)' \subseteq asked'
    BY <1>6, <2>3, <2>5, PageInRegion
  <2>. QED BY <1>1, <2>2, <2>3, <2>6 DEF RegionInv, Idle
<1>7. CASE link = "up" /\ pc = "rdsr" /\ ComdWrite("RDSR")
  <2>1. comd' = "RDSR" /\ UNCHANGED <<addr, datn>>
    BY <1>7 DEF Course, OnCourse, ComdWrite
  <2>2. SectorAt(wip.at)' = SectorAt(wip.at)
    BY <1>2 DEF SectorAt
  <2>3. PageAt(wip.at, Len(wip.bytes))' = PageAt(wip.at, Len(wip.bytes))
    BY <1>2 DEF PageAt, PageOf
  <2>. QED BY <1>1, <1>2, <2>1, <2>2, <2>3 DEF RegionInv
<1>8. CASE UNCHANGED flash \/ (\E on : CtrlWrite(on)) \/ ComdWrite("WREN")
           \/ (\E w : WdataWrite(w)) \/ RdataRead
  BY <1>3, <1>8 DEF flash, CtrlWrite, ComdWrite, WdataWrite, RdataRead
<1>9. ASSUME link = "up", pc \in {"e_addr", "w_addr", "r_addr", "w_datn", "r_datn"},
             (\E a : AddrWrite(a)) \/ (\E n : DatnWrite(n))
      PROVE  RegionInv'
  BY <1>4, <1>9 DEF AddrWrite, DatnWrite, Course, OnCourse, RestPcs, Idle
<1>10. CASE link = "up" /\ pc = "r_comd" /\ ComdWrite("RD")
  BY <1>4, <1>10 DEF ComdWrite, Course, OnCourse, RestPcs, Idle
<1>. QED BY <1>5, <1>6, <1>7, <1>8, <1>9, <1>10 DEF RegisterOp

LEMMA RegionWire ==
  ASSUME TypeOK, WireInv, RegionInv, Wire
  PROVE  RegionInv'
<1>1. UNCHANGED <<program, pc, req, link, asked>> /\ UNCHANGED <<addr, datn>>
  BY DEF Wire, driver, TakeWord, SendWord, SendStatus, StartErase
<1>2. Region(req)' = Region(req)
  BY <1>1, RegionFramed
<1>3. /\ SectorAt(addr % MemSize)' = SectorAt(addr % MemSize)
      /\ PageAt(addr % MemSize, Count)' = PageAt(addr % MemSize, Count)
  BY <1>1 DEF SectorAt, PageAt, Count, PageOf
<1>4. CASE UNCHANGED wip /\ comd' \in {comd, Idle}
  <2>1. SectorAt(wip.at)' = SectorAt(wip.at)
    BY <1>4 DEF SectorAt
  <2>2. PageAt(wip.at, Len(wip.bytes))' = PageAt(wip.at, Len(wip.bytes))
    BY <1>4 DEF PageAt, PageOf
  <2>. QED BY <1>1, <1>2, <1>3, <1>4, <2>1, <2>2 DEF RegionInv, Idle
<1>5. CASE TakeWord /\ ~UNCHANGED wip
  <2>. DEFINE bytes == Prefix(latched \o Head(txfifo), Count)
  <2>1. /\ comd = "PP" /\ Len(bytes) = Count /\ comd' = Idle
        /\ wip' = [op |-> "PP", at |-> addr % MemSize, bytes |-> bytes]
    BY <1>5 DEF TakeWord
  <2>. HIDE DEF bytes
  <2>2. wip'.op = "PP" /\ wip'.at = addr % MemSize /\ Len(wip'.bytes) = Count
    BY <2>1
  <2>3. PageAt(wip.at, Len(wip.bytes))' = PageAt(addr % MemSize, Count)
    BY <2>2 DEF PageAt, PageOf
  <2>. QED BY <1>1, <1>2, <2>1, <2>2, <2>3 DEF RegionInv, Idle
<1>6. CASE StartErase /\ ~UNCHANGED wip
  <2>1. /\ comd = "SE" /\ comd' = Idle
        /\ wip' = [op |-> "SE", at |-> addr % MemSize, bytes |-> <<>>]
    BY <1>6 DEF StartErase
  <2>2. wip'.op = "SE" /\ wip'.at = addr % MemSize
    BY <2>1
  <2>3. SectorAt(wip.at)' = SectorAt(addr % MemSize)
    BY <2>2 DEF SectorAt
  <2>. QED BY <1>1, <1>2, <2>1, <2>2, <2>3 DEF RegionInv, Idle
<1>7. CASE SendWord \/ SendStatus
  BY <1>4, <1>7 DEF SendWord, SendStatus
<1>8. TakeWord \/ StartErase => comd' \in {comd, Idle}
  BY DEF TakeWord, StartErase
<1>. QED BY <1>4, <1>5, <1>6, <1>7, <1>8 DEF Wire

LEMMA RegionStep ==
  ASSUME TypeOK, LoopInv, Course, WireInv, RegionInv, [Next]_vars
  PROVE  RegionInv'
<1>1. CASE \E r \in Requests : Call(r)
  BY <1>1, RegionCall
<1>2. CASE Steps
  BY <1>2, StepsRegisters, RegionRegisters DEF TypeOK
<1>3. CASE Wire
  BY <1>3, RegionWire
<1>4. CASE Array
  <2>1. UNCHANGED <<program, pc, req, link, asked>> /\ UNCHANGED <<comd, addr, datn>> /\ wip' = NoWork
    BY <1>4 DEF Array, FinishArray
  <2>2. Region(req)' = Region(req)
    BY <2>1, RegionFramed
  <2>3. /\ SectorAt(addr % MemSize)' = SectorAt(addr % MemSize)
        /\ PageAt(addr % MemSize, Count)' = PageAt(addr % MemSize, Count)
    BY <2>1 DEF SectorAt, PageAt, Count, PageOf
  <2>4. wip'.op = Idle
    BY <2>1 DEF NoWork
  <2>. QED BY <2>1, <2>2, <2>3, <2>4 DEF RegionInv, Idle
<1>5. CASE UNCHANGED vars
  <2>1. UNCHANGED <<program, pc, req, link, asked>> /\ UNCHANGED <<comd, addr, datn, wip>>
    BY <1>5 DEF vars, flash, driver
  <2>2. Region(req)' = Region(req)
    BY <2>1, RegionFramed
  <2>3. /\ SectorAt(addr % MemSize)' = SectorAt(addr % MemSize)
        /\ PageAt(addr % MemSize, Count)' = PageAt(addr % MemSize, Count)
    BY <2>1 DEF SectorAt, PageAt, Count, PageOf
  <2>4. /\ SectorAt(wip.at)' = SectorAt(wip.at)
        /\ PageAt(wip.at, Len(wip.bytes))' = PageAt(wip.at, Len(wip.bytes))
    BY <2>1 DEF SectorAt, PageAt, PageOf
  <2>. QED BY <2>1, <2>2, <2>3, <2>4 DEF RegionInv
<1>. QED BY <1>1, <1>2, <1>3, <1>4, <1>5 DEF Next

LEMMA ArrayChangesAsked ==
  ASSUME TypeOK, RegionInv, FinishArray, NEW a \in Cells \ asked
  PROVE  cells'[a] = cells[a]
<1>1. wip \in [op : {Idle, "SE", "PP"}, at : Nat, bytes : Seq(Bytes)]
  BY DEF TypeOK, FlashTypeOK
<1>2. ~Erasing(a)
  <2>. SUFFICES ASSUME Erasing(a) PROVE FALSE
    OBVIOUS
  <2>1. wip.op = "SE" /\ a \in SectorAt(wip.at)
    BY DEF Erasing, SectorAt
  <2>. QED BY <2>1 DEF RegionInv
<1>3. Byte(a) = {}
  <2>. SUFFICES ASSUME NEW k \in Byte(a) PROVE FALSE
    OBVIOUS
  <2>1. k \in DOMAIN wip.bytes /\ wip.op = "PP" /\ Target(k) = a
    BY DEF Byte
  <2>2. k \in 1 .. Len(wip.bytes)
    BY <1>1, <2>1
  <2>3. a \in PageAt(wip.at, Len(wip.bytes))
    BY <2>1, <2>2 DEF Target, PageAt
  <2>. QED BY <2>1, <2>3 DEF RegionInv
<1>4. cells' = [c \in Cells |->
        IF Erasing(c) THEN Erased
        ELSE IF Byte(c) = {} THEN cells[c]
        ELSE Programmed(cells[c], wip.bytes[CHOOSE k \in Byte(c) : TRUE])]
  BY DEF FinishArray
<1>. QED BY <1>2, <1>3, <1>4

LEMMA OutsideStep ==
  ASSUME TypeOK, RegionInv, OutsideUntouched, [Next]_vars
  PROVE  OutsideUntouched'
<1>0. link \in {"up", "down"}
  BY DEF TypeOK
<1>1. CASE UNCHANGED cells /\ UNCHANGED <<asked, before>>
  BY <1>1 DEF OutsideUntouched
<1>2. CASE \E r \in Requests : Call(r)
  <2>1. PICK r \in Requests : Call(r)
    BY <1>2
  <2>2. UNCHANGED cells
    BY <2>1 DEF Call, flash
  <2>3. CASE link = "up"
    BY <2>1, <2>2, <2>3 DEF Call, OutsideUntouched
  <2>4. CASE link = "down"
    <3>1. asked \subseteq asked' /\ before' = before
      BY <2>1, <2>4 DEF Call
    <3>. QED BY <2>2, <3>1 DEF OutsideUntouched
  <2>. QED BY <1>0, <2>3, <2>4
<1>3. CASE Steps
  <2>1. UNCHANGED cells
    BY <1>3, StepsRegisters
    DEF TypeOK, RegisterOp, flash, CtrlWrite, AddrWrite, DatnWrite, ComdWrite, WdataWrite, RdataRead
  <2>. QED BY <1>1, <1>3, <2>1, <1>0, StepsRegisters
<1>4. CASE Wire
  BY <1>1, <1>4 DEF Wire, driver, TakeWord, SendWord, SendStatus, StartErase
<1>5. CASE Array
  BY <1>5, ArrayChangesAsked DEF Array, OutsideUntouched
<1>6. CASE UNCHANGED vars
  BY <1>1, <1>6 DEF vars, flash, driver
<1>. QED BY <1>2, <1>3, <1>4, <1>5, <1>6 DEF Next

-------------------------------------------------------------------------------
(* The buffer of a read                                                    *)

LEMMA FilledInside ==
  ASSUME TypeOK, LoopInv, BufferKept, pc = "r_data", NEW w
  PROVE  \A k \in Cells : k >= req.count + WordBytes - 1 => Filled(w)[k] = Untouched
<1>1. /\ req \in Requests /\ req.f = "read" /\ done \in Nat /\ i < ReadWords /\ pc \in ReadPcs
  BY DEF TypeOK, LoopInv, ReadPcs
<1>2. Unit \in 1 .. PageSize /\ done + Unit <= Total
  BY <1>1, UnitWords
<1>3. ReadWords * WordBytes <= Unit + WordBytes - 1 /\ ReadWords \in Nat
  BY <1>2, WordsOfUnit
<1>4. Total = req.count /\ req.count \in Nat
  BY <1>1, Asked DEF Total
<1>5. i \in Nat
  <2>1. PageSize \div WordBytes \in Nat
    BY Sizes, Multiple
  <2>. QED BY <2>1 DEF TypeOK
<1>6. WordBytes * i + WordBytes <= WordBytes * ReadWords
  BY <1>1, <1>3, <1>5, PartOfPage
<1>7. ReadWords * WordBytes = WordBytes * ReadWords /\ WordBytes * i \in Nat
  BY <1>3, <1>5, Sizes
<1>8. done + WordBytes * i + WordBytes <= req.count + WordBytes - 1
  BY <1>1, <1>2, <1>3, <1>4, <1>6, <1>7, Sizes
<1>9. ASSUME NEW k \in Cells, k >= req.count + WordBytes - 1
      PROVE  ~(k >= done /\ (k - done) \div WordBytes = i)
  <2>. SUFFICES ASSUME k >= done, (k - done) \div WordBytes = i PROVE FALSE
    OBVIOUS
  <2>. DEFINE d == k - done
  <2>1. d \in Nat
    BY <1>1 DEF Cells
  <2>2. d = WordBytes * (d \div WordBytes) + (d % WordBytes) /\ d % WordBytes \in 0 .. WordBytes - 1
    BY <2>1, Sizes, Divided
  <2>. DEFINE u == d % WordBytes
  <2>3. d = WordBytes * i + u /\ u \in 0 .. WordBytes - 1
    BY <2>2
  <2>. HIDE DEF u
  <2>4. k = done + d /\ k \in Nat
    BY <1>1 DEF Cells
  <2>. HIDE DEF d
  <2>. QED BY <2>1, <2>3, <2>4, <1>1, <1>4, <1>7, <1>8, <1>9, Sizes
<1>10. \A k \in Cells : k >= req.count + WordBytes - 1 => out[k] = Untouched
  BY <1>1 DEF BufferKept
<1>. QED BY <1>9, <1>10 DEF Filled

LEMMA BufferStep ==
  ASSUME TypeOK, LoopInv, BufferKept, [Next]_vars
  PROVE  BufferKept'
<1>1. CASE UNCHANGED <<req, out>>
  BY <1>1 DEF BufferKept
<1>2. CASE \E r \in Requests : Call(r)
  <2>1. out' = NoData
    BY <1>2 DEF Call
  <2>. QED BY <2>1 DEF BufferKept, NoData
<1>3. CASE ReadWord
  <2>1. pc = "r_data" /\ req' = req
    BY <1>3 DEF ReadWord
  <2>2. out' = Filled(Rdata) \/ out' = Filled([b \in 1 .. WordBytes |-> 0])
    BY <1>3 DEF ReadWord
  <2>3. \A k \in Cells : k >= req.count + WordBytes - 1 => out'[k] = Untouched
    BY <2>1, <2>2, FilledInside
  <2>. QED BY <2>1, <2>3 DEF BufferKept
<1>4. CASE Shared
  BY <1>1, <1>4 DEF Shared, Initialise, ClearInts, CacheOff, CacheOn, WaitCommand, AskStatus,
                    WaitReceived, WaitReceivedZero, ReadStatus, Rest
<1>5. CASE flash_erase \/ flash_write
  BY <1>1, <1>5 DEF flash_erase, EraseEnable, EraseAddress, EraseCommand, flash_write, WriteFill,
                    WriteAddress, WriteLength, WriteEnable, WriteCommand, WaitRoom, WriteWord, Rest
<1>6. CASE ReadAddress \/ ReadLength \/ ReadCommand
  BY <1>1, <1>6 DEF ReadAddress, ReadLength, ReadCommand, Rest
<1>7. CASE Wire \/ Array \/ UNCHANGED vars
  BY <1>1, <1>7 DEF Wire, Array, vars, driver
<1>. QED BY <1>2, <1>3, <1>4, <1>5, <1>6, <1>7 DEF Next, Steps, flash_read

-------------------------------------------------------------------------------
(* The theorems                                                            *)

FlashInv ==
  TypeOK /\ LoopInv /\ Course /\ WireInv /\ RegionInv
    /\ CacheOffAtWork /\ OutsideUntouched /\ BufferKept

LEMMA InitInv ==
  ASSUME Init
  PROVE  FlashInv
<1>1. TypeOK
  <2>1. FlashTypeOK
    <3>1. wip \in [op : {Idle, "SE", "PP"}, at : Nat, bytes : Seq(Bytes)]
      BY DEF Init, FlashInit, NoWork
    <3>2. cells \in [Cells -> Bytes]
      BY DEF Init, FlashInit, Erased, Bytes
    <3>3. 0 \in 0 .. PageSize /\ 0 \in Nat
      BY Sizes
    <3>4. /\ Len(txfifo) <= TxDepth /\ Len(rxfifo) <= RxDepth /\ Len(latched) <= PageSize
          /\ latched \in Seq(Bytes) /\ txfifo \in Seq(FlashWords) /\ rxfifo \in Seq(FlashWords)
      BY Sizes DEF Init, FlashInit
    <3>. QED BY <3>1, <3>2, <3>3, <3>4 DEF Init, FlashInit, FlashTypeOK
  <2>2. done \in 0 .. UintRange /\ i \in 0 .. PageSize \div WordBytes
    <3>1. PageSize \div WordBytes \in Nat
      BY Sizes, Multiple
    <3>. QED BY <3>1, Sizes DEF Init
  <2>3. before \in [Cells -> Bytes] /\ out \in [Cells -> Bytes]
    BY <2>1 DEF Init, FlashTypeOK, NoData, Untouched, Bytes
  <2>. QED BY <2>1, <2>2, <2>3 DEF Init, TypeOK, Pcs
<1>2. LoopInv
  BY DEF Init, LoopInv, UnitPcs, ErasePcs, WritePcs, ReadPcs, WaitPcs
<1>3. Course
  BY DEF Init, FlashInit, Course, OnCourse, RestPcs
<1>4. WireInv /\ RegionInv /\ CacheOffAtWork
  BY DEF Init, FlashInit, WireInv, RegionInv, CacheOffAtWork, NoWork, Idle
<1>5. OutsideUntouched /\ BufferKept
  BY DEF Init, OutsideUntouched, BufferKept, NoData
<1>. QED BY <1>1, <1>2, <1>3, <1>4, <1>5 DEF FlashInv

LEMMA NextInv ==
  ASSUME FlashInv, [Next]_vars
  PROVE  FlashInv'
BY LoopStep, TypeStep, WireStep, CourseStep, RegionStep, CacheStep, OutsideStep, BufferStep DEF FlashInv

\* The inductive invariant.
THEOREM FlashInvHolds == Spec => []FlashInv
BY InitInv, NextInv, PTL DEF Spec

\* The variables stay in their sets: no FIFO overflows, nothing longer than a
\* page is latched or sent, every byte written comes from the buffer, and the
\* counts of bytes and words never pass those of the call.
THEOREM TypeCorrect == Spec => []TypeOK
<1>1. FlashInv => TypeOK
  BY DEF FlashInv
<1>. QED BY <1>1, FlashInvHolds, PTL

\* The core fetches nothing from a flash that is at work: flash_erase,
\* flash_write and flash_read turn the cache on only when the last command and
\* the operation behind it are over, and a link that breaks leaves it off.
THEOREM CacheOffAtWorkHolds == Spec => []CacheOffAtWork
<1>1. FlashInv => CacheOffAtWork
  BY DEF FlashInv
<1>. QED BY <1>1, FlashInvHolds, PTL

\* No cell outside the region of the call changes, at any moment, wherever the
\* link breaks and whatever is called after that: the sectors of flash_erase
\* are those from start to end, and no page of flash_write wraps.
THEOREM OutsideUntouchedHolds == Spec => []OutsideUntouched
<1>1. FlashInv => OutsideUntouched
  BY DEF FlashInv
<1>. QED BY <1>1, FlashInvHolds, PTL

\* flash_read runs past the end of the buffer by less than a word.
THEOREM BufferKeptHolds == Spec => []BufferKept
<1>1. FlashInv => BufferKept
  BY DEF FlashInv
<1>. QED BY <1>1, FlashInvHolds, PTL
===============================================================================
