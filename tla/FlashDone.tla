------------------------------- MODULE FlashDone -------------------------------
(***************************************************************************)
(* What Flash promises while the link works, and what a broken link leaves *)
(* of it, for every size of word, page, sector, memory and FIFO, every set *)
(* of calls and all three programs: 0 means that the work is done          *)
(* (OkMeansDone), and Flash implements FlashStore.                         *)
(*                                                                         *)
(* FlashInv says where a call is and what the controller is doing; WorkInv *)
(* adds what has come of it: which bytes of the buffer are in the FIFO, in *)
(* the command and in the flash, which words of the flash are on their way *)
(* to the caller, and that every turn of a loop leaves one more sector,    *)
(* page or part of the buffer done, and only that.                         *)
(*                                                                         *)
(* FlashStore counts the sectors or pages of a call that have changed.     *)
(* CountInv is why the count is right while the link works: it says which  *)
(* sector or page the turn of the loop is about.  OwnInv holds on a dead   *)
(* link too, where the variables of the loop mean nothing: a command on    *)
(* the wire and an operation of the flash are on the next unit of the call *)
(* in progress, whole, or on the one that an earlier call left under way;  *)
(* and a call whose command is still on the wire can not return.           *)
(***************************************************************************)
EXTENDS FlashProofs

\* Bytes of the buffer from byte n on, in a sequence, and in a queue of words.
BytesFrom(s, n) == \A k \in 1 .. Len(s) : s[k] = Buffer(n + k - 1)
WordsFrom(q, n) == \A j \in 1 .. Len(q) : BytesFrom(q[j], n + WordBytes * (j - 1))

FillPcs == {"w_fill", "w_addr", "w_datn", "w_wren", "w_comd"}
SendPcs == {"w_room", "w_data", "busy"}

\* The flash takes an erase and a program command when they end.
Enabled ==
  pc \in {"e_addr", "e_comd", "w_comd"} \/ comd \in {"SE", "PP"} => wel

\* A program command has taken the first bytes of the page and waits for the
\* rest; the words that went into the FIFO since are those that follow.
Programming ==
  /\ req.f = "write" /\ i <= PageWords
  /\ addr = req.offset + done /\ datn = Unit - 1
  /\ BytesFrom(latched, done) /\ WordsFrom(txfifo, done + Len(latched))
  /\ Len(latched) + WordBytes * Len(txfifo) = WordBytes * i
  /\ Len(latched) < Unit

\* The transmit FIFO holds words of this page only, and never one too many.
Feed ==
  /\ pc \notin WritePcs \cup {"busy"} => txfifo = <<>>
  /\ pc \in FillPcs => /\ Len(txfifo) = i /\ WordsFrom(txfifo, done)
                       /\ i <= PageWords /\ i <= FillWords
  /\ pc = "w_fill" => i < FillWords
  /\ pc = "w_data" => Len(txfifo) < TxDepth
  /\ pc \in SendPcs /\ comd # "PP" =>
       txfifo = <<>> /\ (req.f = "write" => WordBytes * i = Unit)
  /\ comd = "PP" => Programming

\* The flash is at work on the sector or the page of this turn of the loop.
SectorAtWork ==
  wip.op = "SE" /\ req.f = "erase" /\ wip.at = (req.from + done) % MemSize
PageAtWork ==
  /\ wip.op = "PP" /\ req.f = "write" /\ wip.at = req.offset + done
  /\ Len(wip.bytes) = Unit /\ BytesFrom(wip.bytes, done)

Working ==
  /\ comd = "SE" => req.f = "erase" /\ addr = req.from + done
  /\ wip # NoWork => /\ pc \in WaitPcs /\ comd \notin {"SE", "PP"}
                     /\ SectorAtWork \/ PageAtWork

\* The words of a read that have come and wait are those that come next.
Queue ==
  /\ pc \in {"r_datn", "r_comd", "r_wait", "r_data"} => addr = req.offset + done
  /\ pc \in {"r_wait", "r_data"} =>
       \A j \in 1 .. Len(rxfifo) : \A b \in 1 .. WordBytes :
         rxfifo[j][b] = cells[(addr + WordBytes * (i + j - 1) + b - 1) % MemSize]

\* The first n bytes of an erase, of a write, of a read are done, and of a
\* write none after them.
Wiped(n) == \A b \in req.from .. req.from + n - 1 : cells[b % MemSize] = Erased

Written(n) ==
  \A a \in req.offset .. req.offset + req.count - 1 :
    IF a < req.offset + n THEN before[a] = Erased => cells[a] = Buffer(a - req.offset)
                          ELSE cells[a] = before[a]

Delivered(n) == \A k \in 0 .. req.count - 1 : k < n => out[k] = cells[req.offset + k]

\* Of the sector or page of this turn nothing has changed, or all of it.
Changed == pc \in WaitPcs /\ comd \notin {"SE", "PP"} /\ wip = NoWork
Mark == IF Changed THEN done + Unit ELSE done

Underway == pc # "idle" \/ ret = "ok"

Achieved ==
  Underway => /\ req.f = "erase" => Wiped(Mark)
              /\ req.f = "write" => Written(Mark)
              /\ req.f = "read" => Delivered(done + WordBytes * i)

\* A loop begins at the first byte and ends where the call does.
Ended ==
  /\ pc \in {"idle", "init", "clear_first", "off"} => cache
  /\ pc \in {"init", "clear_first", "off"} => done = 0 /\ i = 0
  /\ pc = "init" => req.f = "init"
  /\ pc = "on" \/ (pc = "idle" /\ ret = "ok" /\ req.f # "init") => done = Total /\ i = 0

Work == Enabled /\ Feed /\ Working /\ Queue /\ Achieved /\ Ended
WorkInv == link = "up" => Work

-------------------------------------------------------------------------------
(* What a step does over a link that works                                 *)

\* The call looks at the controller, and perhaps goes on.
Looks ==
  /\ UNCHANGED <<flash, done, i, out, ret>>
  /\ \/ pc = "clear_first" /\ pc' = "off"
     \/ pc \in {"clear", "clear_again"} /\ pc' = "rdsr"
     \/ pc = "busy" /\ pc' = "busy"
     \/ pc = "busy" /\ pc' = "clear" /\ comd = Idle
     \/ pc = "status" /\ pc' \in {"status", "rdata"}
     \/ pc = "r_wait" /\ pc' \in {"r_wait", "r_data"}
     \/ pc = "w_room" /\ pc' = "w_room"
     \/ pc = "w_room" /\ pc' = "w_data" /\ Room

\* The loop begins, or has done one of its units.
Turns ==
  /\ UNCHANGED out
  /\ \/ pc = "off" /\ CtrlWrite(FALSE) /\ NextUnit(0)
     \/ pc = "clear_again" /\ ~wipbit /\ UNCHANGED flash /\ NextUnit(done + Unit)

Returns ==
  /\ pc' = "idle" /\ ret' = "ok" /\ UNCHANGED <<done, i, out>>
  /\ \/ pc = "init" /\ UNCHANGED flash
     \/ pc = "on" /\ CtrlWrite(TRUE)

\* A register is written, or the status read.
Sets ==
  /\ UNCHANGED <<done, i, out, ret>>
  /\ \/ pc = "e_wren" /\ pc' = "e_addr" /\ ComdWrite("WREN")
     \/ pc = "w_wren" /\ pc' = "w_comd" /\ ComdWrite("WREN")
     \/ pc = "e_addr" /\ pc' = "e_comd" /\ AddrWrite(req.from + done)
     \/ pc = "w_addr" /\ pc' = "w_datn" /\ AddrWrite(req.offset + done)
     \/ pc = "r_addr" /\ pc' = "r_datn" /\ AddrWrite(req.offset + done)
     \/ pc = "w_datn" /\ pc' = "w_wren" /\ DatnWrite(Unit - 1)
     \/ pc = "r_datn" /\ pc' = "r_comd" /\ DatnWrite(ReadWords * WordBytes - 1)
     \/ pc = "e_comd" /\ pc' = "busy" /\ ComdWrite("SE")
     \/ pc = "w_comd" /\ pc' = MoreWords(i) /\ ComdWrite("PP")
     \/ pc = "r_comd" /\ pc' = "r_wait" /\ ComdWrite("RD")
     \/ pc = "rdsr" /\ pc' = "status" /\ ComdWrite("RDSR")
     \/ pc = "rdata" /\ pc' = "clear_again" /\ RdataRead

\* A word of the page goes into the FIFO.
Feeds ==
  /\ UNCHANGED <<done, out, ret>> /\ i' = i + 1 /\ WdataWrite(BufferWord(i))
  /\ \/ pc = "w_fill" /\ pc' = "w_fill" /\ i + 1 < FillWords
     \/ pc = "w_fill" /\ pc' = "w_addr"
     \/ pc = "w_data" /\ pc' = MoreWords(i + 1)

\* A word goes to the caller.
Gets ==
  /\ pc = "r_data" /\ RdataRead /\ out' = Filled(Rdata)
  /\ \/ i + 1 < ReadWords /\ i' = i + 1 /\ pc' = "r_wait" /\ UNCHANGED <<done, ret>>
     \/ ~(i + 1 < ReadWords) /\ NextUnit(done + Unit)

LEMMA UpSteps ==
  ASSUME Steps, link' = "up", link \in {"up", "down"}
  PROVE  /\ link = "up" /\ UNCHANGED <<program, req, before>>
         /\ Looks \/ Turns \/ Returns \/ Sets \/ Feeds \/ Gets
<1>1. link = "up" /\ UNCHANGED <<program, req, before>>
  BY StepsRegisters
<1>2. CASE Initialise \/ CacheOff \/ CacheOn
  BY <1>2 DEF Initialise, CacheOff, CacheOn, Store, Breaks, Dead, Rest, Returns, Turns
<1>3. CASE ClearInts
  BY <1>3 DEF ClearInts, Goto, Store, Breaks, Dead, Rest, Looks, Turns, NextUnit
<1>4. CASE WaitCommand
  BY <1>4 DEF WaitCommand, Goto, Loaded, LoadedZero, Breaks, Dead, Rest, Looks
<1>5. CASE AskStatus
  BY <1>5 DEF AskStatus, Goto, Store, Breaks, Dead, Rest, Sets
<1>6. CASE WaitReceived
  BY <1>6 DEF WaitReceived, Goto, Loaded, Breaks, Rest, Looks
<1>7. CASE WaitReceivedZero
  BY <1>7 DEF WaitReceivedZero, LoadedZero, Breaks, Dead
<1>8. CASE ReadStatus
  BY <1>8 DEF ReadStatus, Goto, Loaded, LoadedZero, Breaks, Dead, Rest, Sets
<1>9. CASE flash_erase
  BY <1>9 DEF flash_erase, EraseEnable, EraseAddress, EraseCommand, Goto, Store, Breaks, Dead,
              Rest, Sets
<1>10. CASE WriteFill \/ WriteWord
  BY <1>10 DEF WriteFill, WriteWord, Goto, Store, Breaks, Dead, Rest, Feeds
<1>11. CASE WriteAddress \/ WriteLength \/ WriteEnable \/ WriteCommand
  BY <1>11 DEF WriteAddress, WriteLength, WriteEnable, WriteCommand, Goto, Store, Breaks, Dead,
               Rest, Sets
<1>12. CASE WaitRoom
  BY <1>12 DEF WaitRoom, Goto, Loaded, Breaks, Rest, Looks
<1>13. CASE ReadAddress \/ ReadLength \/ ReadCommand
  BY <1>13 DEF ReadAddress, ReadLength, ReadCommand, Goto, Store, Breaks, Dead, Rest, Sets
<1>14. CASE ReadWord
  BY <1>14 DEF ReadWord, Goto, Loaded, LoadedZero, Breaks, Dead, Gets
<1>. QED BY <1>1, <1>2, <1>3, <1>4, <1>5, <1>6, <1>7, <1>8, <1>9, <1>10, <1>11, <1>12, <1>13, <1>14
         DEF Steps, Shared, flash_write, flash_read

-------------------------------------------------------------------------------
(* What a call asks for, and the unit it has come to                       *)

LEMMA EraseFacts ==
  ASSUME TypeOK, LoopInv, req.f = "erase", pc \in UnitPcs
  PROVE  /\ req.from \in Nat /\ req.from % SectorSize = 0
         /\ done \in Nat /\ done % SectorSize = 0 /\ Unit = SectorSize
         /\ Total \in Nat /\ done + Unit <= Total
<1>1. /\ req \in Requests /\ done \in Nat /\ done < Total /\ AtUnit /\ ~Refused(req)
  BY DEF TypeOK, LoopInv, UnitPcs, ErasePcs, WritePcs, ReadPcs, WaitPcs
<1>2. req.from \in Nat /\ req.from % SectorSize = 0 /\ done % SectorSize = 0
  BY <1>1, Asked DEF Refused, AtUnit
<1>3. Unit = SectorSize /\ done + Unit <= Total
  BY <1>1, SectorUnit
<1>4. Total \in Nat
  BY <1>1, TotalTyped
<1>. QED BY <1>1, <1>2, <1>3, <1>4

LEMMA WriteFacts ==
  ASSUME TypeOK, LoopInv, req.f = "write", pc \in UnitPcs
  PROVE  /\ req.offset \in Nat /\ req.count \in Nat /\ Total = req.count
         /\ req.offset + req.count <= MemSize
         /\ done \in Nat /\ i \in Nat
         /\ Unit \in 1 .. PageSize /\ done + Unit <= req.count
         /\ ((req.offset + done) % PageSize) + Unit <= PageSize
         /\ PageWords \in Nat /\ WordBytes * PageWords <= Unit
<1>1. /\ req \in Requests /\ done \in Nat /\ done < Total /\ AtUnit /\ ~Refused(req) /\ Asks(req)
  BY DEF TypeOK, LoopInv, UnitPcs, ErasePcs, WritePcs, ReadPcs, WaitPcs
<1>2. /\ req.offset \in Nat /\ req.count \in Nat /\ Total = req.count
      /\ req.offset + req.count <= MemSize
  BY <1>1, Asked DEF Total, Asks
<1>3. /\ Unit \in 1 .. PageSize /\ done + Unit <= Total
      /\ ((req.offset + done) % PageSize) + Unit <= PageSize
  BY <1>1, PageUnit
<1>4. /\ Unit \in Nat /\ Unit % WordBytes \in 0 .. WordBytes - 1 /\ PageWords \in Nat
      /\ Unit = WordBytes * PageWords + (Unit % WordBytes)
  <2>1. Unit \in Nat
    BY <1>3
  <2>. QED BY <2>1, Sizes, Divided DEF PageWords
<1>. DEFINE m == WordBytes * PageWords  u == Unit % WordBytes
<1>5. m \in Nat /\ u \in Nat /\ Unit = m + u
  BY <1>4, Sizes
<1>. HIDE DEF m, u
<1>6. m <= Unit
  BY <1>5
<1>7. i \in Nat
  <2>1. PageSize \div WordBytes \in Nat
    BY Sizes, Multiple
  <2>. QED BY <2>1 DEF TypeOK
<1>. QED BY <1>1, <1>2, <1>3, <1>4, <1>6, <1>7 DEF m

LEMMA ReadFacts ==
  ASSUME TypeOK, LoopInv, pc \in ReadPcs
  PROVE  /\ req.f = "read"
         /\ req.offset \in Nat /\ req.count \in Nat /\ Total = req.count
         /\ req.offset + req.count <= MemSize
         /\ done \in Nat /\ i \in Nat /\ done + Unit <= req.count
         /\ Unit \in 1 .. PageSize /\ ReadWords \in Nat \ {0}
         /\ Unit <= WordBytes * ReadWords
<1>1. /\ req \in Requests /\ req.f = "read" /\ done \in Nat /\ done < Total /\ AtUnit
      /\ ~Refused(req) /\ Asks(req)
  BY DEF TypeOK, LoopInv, UnitPcs, ReadPcs
<1>2. /\ req.offset \in Nat /\ req.count \in Nat /\ Total = req.count
      /\ req.offset + req.count <= MemSize
  BY <1>1, Asked DEF Total, Asks
<1>3. Unit \in 1 .. PageSize /\ done + Unit <= Total
  BY <1>1, ReadUnit
<1>4. ReadWords \in Nat \ {0}
  BY UnitWords
<1>5. /\ (Unit + WordBytes - 1) % WordBytes \in 0 .. WordBytes - 1
      /\ Unit + WordBytes - 1 = WordBytes * ReadWords + ((Unit + WordBytes - 1) % WordBytes)
  <2>1. Unit + WordBytes - 1 \in Nat
    BY <1>3, Sizes
  <2>. QED BY <2>1, Sizes, Divided DEF ReadWords
<1>. DEFINE m == WordBytes * ReadWords  u == (Unit + WordBytes - 1) % WordBytes
<1>6. m \in Nat /\ u \in 0 .. WordBytes - 1 /\ Unit + WordBytes - 1 = m + u
  BY <1>4, <1>5, Sizes
<1>. HIDE DEF m, u
<1>7. Unit <= m
  BY <1>3, <1>6, Sizes
<1>8. i \in Nat
  <2>1. PageSize \div WordBytes \in Nat
    BY Sizes, Multiple
  <2>. QED BY <2>1 DEF TypeOK
<1>. QED BY <1>1, <1>2, <1>3, <1>4, <1>7, <1>8 DEF m

-------------------------------------------------------------------------------
(* Sequences of bytes and queues of words                                  *)

LEMMA PrefixWhole ==
  ASSUME NEW s \in Seq(Bytes), NEW n \in Nat, Len(s) <= n
  PROVE  Prefix(s, n) = s
<1>1. Len(s) \in Nat /\ (IF n < Len(s) THEN n ELSE Len(s)) = Len(s)
  OBVIOUS
<1>2. Prefix(s, n) = SubSeq(s, 1, Len(s))
  BY <1>1 DEF Prefix
<1>. QED BY <1>2, SubSeqFull

LEMMA BytesJoined ==
  ASSUME NEW s \in Seq(Bytes), NEW w \in FlashWords, NEW n \in Nat,
         BytesFrom(s, n), BytesFrom(w, n + Len(s))
  PROVE  /\ s \o w \in Seq(Bytes) /\ Len(s \o w) = Len(s) + WordBytes
         /\ BytesFrom(s \o w, n)
<1>1. w \in Seq(Bytes) /\ Len(w) = WordBytes
  BY WordIsASequence
<1>2. /\ s \o w \in Seq(Bytes) /\ Len(s \o w) = Len(s) + Len(w)
      /\ \A k \in 1 .. Len(s) + Len(w) : (s \o w)[k] = IF k <= Len(s) THEN s[k] ELSE w[k - Len(s)]
  BY <1>1, ConcatProperties
<1>3. Len(s) \in Nat /\ Len(w) \in Nat
  BY <1>1
<1>4. ASSUME NEW k \in 1 .. Len(s) + Len(w) PROVE (s \o w)[k] = Buffer(n + k - 1)
  <2>1. CASE k <= Len(s)
    <3>1. k \in 1 .. Len(s)
      BY <2>1, <1>3
    <3>. QED BY <3>1, <2>1, <1>2 DEF BytesFrom
  <2>2. CASE ~(k <= Len(s))
    <3>1. k - Len(s) \in 1 .. Len(w)
      BY <2>2, <1>3
    <3>2. w[k - Len(s)] = Buffer(n + Len(s) + (k - Len(s)) - 1)
      BY <3>1 DEF BytesFrom
    <3>3. n + Len(s) + (k - Len(s)) - 1 = n + k - 1
      BY <1>3
    <3>4. (s \o w)[k] = w[k - Len(s)]
      BY <2>2, <1>2
    <3>. QED BY <3>2, <3>3, <3>4
  <2>. QED BY <2>1, <2>2
<1>. QED BY <1>1, <1>2, <1>4 DEF BytesFrom

LEMMA WordsAppended ==
  ASSUME NEW q \in Seq(FlashWords), NEW w \in FlashWords, NEW n \in Nat,
         WordsFrom(q, n), BytesFrom(w, n + WordBytes * Len(q))
  PROVE  WordsFrom(Append(q, w), n) /\ Len(Append(q, w)) = Len(q) + 1
<1>1. /\ Len(q) \in Nat /\ Len(Append(q, w)) = Len(q) + 1
      /\ \A j \in 1 .. Len(q) : Append(q, w)[j] = q[j]
      /\ Append(q, w)[Len(q) + 1] = w
  BY AppendProperties, LenProperties
<1>2. ASSUME NEW j \in 1 .. Len(q) + 1
      PROVE  BytesFrom(Append(q, w)[j], n + WordBytes * (j - 1))
  <2>1. CASE j \in 1 .. Len(q)
    BY <2>1, <1>1 DEF WordsFrom
  <2>2. CASE j = Len(q) + 1
    <3>1. j - 1 = Len(q)
      BY <2>2, <1>1
    <3>. QED BY <3>1, <2>2, <1>1
  <2>. QED BY <2>1, <2>2, <1>1
<1>. QED BY <1>1, <1>2 DEF WordsFrom

LEMMA WordsTaken ==
  ASSUME NEW q \in Seq(FlashWords), q # <<>>, NEW n \in Nat, WordsFrom(q, n)
  PROVE  /\ Head(q) \in FlashWords /\ BytesFrom(Head(q), n)
         /\ Tail(q) \in Seq(FlashWords) /\ Len(Tail(q)) = Len(q) - 1 /\ Len(q) \in Nat \ {0}
         /\ WordsFrom(Tail(q), n + WordBytes)
<1>1. /\ Len(q) \in Nat \ {0} /\ Head(q) \in FlashWords /\ Tail(q) \in Seq(FlashWords)
      /\ Len(Tail(q)) = Len(q) - 1 /\ Head(q) = q[1]
      /\ \A j \in 1 .. Len(Tail(q)) : Tail(q)[j] = q[j + 1]
  BY EmptySeq, HeadTailProperties
<1>2. BytesFrom(Head(q), n)
  <2>1. 1 \in 1 .. Len(q) /\ n + WordBytes * (1 - 1) = n
    BY <1>1, Sizes
  <2>2. BytesFrom(q[1], n + WordBytes * (1 - 1))
    BY <2>1 DEF WordsFrom
  <2>. QED BY <2>1, <2>2, <1>1
<1>3. ASSUME NEW j \in 1 .. Len(Tail(q))
      PROVE  BytesFrom(Tail(q)[j], n + WordBytes + WordBytes * (j - 1))
  <2>1. j + 1 \in 1 .. Len(q) /\ j \in Nat
    BY <1>1
  <2>2. BytesFrom(q[j + 1], n + WordBytes * (j + 1 - 1))
    BY <2>1 DEF WordsFrom
  <2>3. n + WordBytes * (j + 1 - 1) = n + WordBytes + WordBytes * (j - 1)
    <3>1. WordBytes * (j - 1) = WordBytes * j - WordBytes
      BY <2>1, Sizes
    <3>2. WordBytes * j \in Nat /\ j + 1 - 1 = j
      BY <2>1, Sizes
    <3>. QED BY <3>1, <3>2, Sizes
  <2>. QED BY <2>2, <2>3, <1>1
<1>. QED BY <1>1, <1>2, <1>3 DEF WordsFrom

\* A queue and a sequence are as they were if only the other variables change.
LEMMA NothingQueued ==
  ASSUME NEW n
  PROVE  WordsFrom(<<>>, n) /\ BytesFrom(<<>>, n)
BY DEF WordsFrom, BytesFrom

-------------------------------------------------------------------------------
(* The write enable latch                                                  *)

LEMMA EnabledStep ==
  ASSUME TypeOK, OnCourse, Work,
         \/ \E r \in Requests : Call(r)
         \/ Looks \/ Turns \/ Returns \/ Sets \/ Feeds \/ Gets
         \/ Wire \/ Array \/ UNCHANGED vars
  PROVE  Enabled'
<1>0. Enabled
  BY DEF Work
<1>1. CASE \E r \in Requests : Call(r)
  <2>1. pc = "idle" /\ UNCHANGED flash /\ pc' \in {"idle", "init", "clear_first", "off"}
    BY <1>1 DEF Call
  <2>2. comd' = Idle
    BY <2>1 DEF flash, OnCourse, RestPcs
  <2>. QED BY <2>1, <2>2 DEF Enabled, Idle
<1>2. CASE Looks \/ Feeds
  <2>1. UNCHANGED <<comd, wel>> /\ pc' \notin {"e_addr", "e_comd", "w_comd"}
    BY <1>2 DEF Looks, Feeds, flash, WdataWrite, MoreWords
  <2>. QED BY <1>0, <2>1 DEF Enabled
<1>3. CASE Turns \/ Returns \/ Gets
  <2>1. UNCHANGED <<comd, wel>>
    BY <1>3 DEF Turns, Returns, Gets, flash, CtrlWrite, RdataRead
  <2>2. pc' \notin {"e_addr", "e_comd", "w_comd"}
    BY <1>3, NextUnitGoes DEF Turns, Returns, Gets
  <2>. QED BY <1>0, <2>1, <2>2 DEF Enabled
<1>4. CASE Sets
  <2>1. CASE pc \in {"e_wren", "w_wren"} /\ ComdWrite("WREN")
    <3>1. comd = Idle /\ wip = NoWork
      BY <2>1 DEF OnCourse, RestPcs
    <3>2. wel'
      BY <2>1, <3>1 DEF ComdWrite
    <3>. QED BY <3>2 DEF Enabled
  <2>2. CASE UNCHANGED <<comd, wel>> /\ (pc = "e_addr" \/ pc' \notin {"e_addr", "e_comd", "w_comd"})
    BY <1>0, <2>2 DEF Enabled
  <2>3. CASE pc \in {"e_comd", "w_comd"} /\ UNCHANGED wel
    BY <1>0, <2>3 DEF Enabled
  <2>4. ASSUME pc \in {"r_comd", "rdsr"}, pc' \in {"r_wait", "status"},
               NEW c \in {"RD", "RDSR"}, ComdWrite(c)
        PROVE  Enabled'
    <3>1. comd = Idle
      BY <2>4 DEF OnCourse, RestPcs
    <3>2. comd' = c
      BY <2>4, <3>1 DEF ComdWrite
    <3>. QED BY <2>4, <3>2 DEF Enabled
  <2>5. pc = "e_comd" /\ ComdWrite("SE") => UNCHANGED wel
    BY DEF ComdWrite
  <2>6. pc = "w_comd" /\ ComdWrite("PP") => UNCHANGED wel
    BY DEF ComdWrite
  <2>7. /\ \A a : AddrWrite(a) => UNCHANGED <<comd, wel>>
        /\ \A n : DatnWrite(n) => UNCHANGED <<comd, wel>>
        /\ RdataRead => UNCHANGED <<comd, wel>>
    BY DEF AddrWrite, DatnWrite, RdataRead
  <2>. QED BY <1>4, <2>1, <2>2, <2>3, <2>4, <2>5, <2>6, <2>7 DEF Sets
<1>5. CASE Wire
  <2>1. pc' = pc
    BY <1>5 DEF Wire, driver
  <2>2. UNCHANGED wel /\ (comd' \in {"SE", "PP"} => comd \in {"SE", "PP"})
    BY <1>5 DEF Wire, TakeWord, SendWord, SendStatus, StartErase, Idle
  <2>. QED BY <1>0, <2>1, <2>2 DEF Enabled
<1>6. CASE Array
  <2>1. wip # NoWork /\ UNCHANGED <<pc, comd>>
    BY <1>6 DEF Array, FinishArray
  <2>2. pc \in WaitPcs /\ comd \notin {"SE", "PP"}
    BY <2>1 DEF Work, Working
  <2>. QED BY <2>1, <2>2 DEF Enabled, WaitPcs
<1>7. CASE UNCHANGED vars
  BY <1>0, <1>7 DEF vars, flash, driver, Enabled
<1>. QED BY <1>1, <1>2, <1>3, <1>4, <1>5, <1>6, <1>7

-------------------------------------------------------------------------------
(* The words on their way to the flash                                     *)

WriteUnit ==
  TypeOK /\ LoopInv /\ req.f = "write" /\ pc \in UnitPcs => Unit \in 1 .. PageSize /\ PageWords \in Nat

\* What WriteFacts says of a state it says of the next one.
LEMMA WriteUnitAfter == WriteUnit'
<1>1. WriteUnit
  BY WriteFacts DEF WriteUnit
<1>. QED BY <1>1, PTL

LEMMA CommandAt ==
  ASSUME TypeOK, OnCourse, comd \in {"SE", "PP"}
  PROVE  pc \in SendPcs
BY DEF TypeOK, OnCourse, RestPcs, Pcs, SendPcs, StatusHere, ReadOnWire, Idle

LEMMA FeedFramed ==
  ASSUME UNCHANGED <<program, req, done, i, addr, datn, txfifo, latched>>
  PROVE  /\ Programming' = Programming
         /\ WordsFrom(txfifo, done)' = WordsFrom(txfifo, done)
         /\ Unit' = Unit /\ PageWords' = PageWords
<1>1. Unit' = Unit /\ PageWords' = PageWords
  BY Framed
<1>. QED BY <1>1 DEF Programming, WordsFrom, BytesFrom

LEMMA FeedCall ==
  ASSUME OnCourse, Feed, NEW r \in Requests, Call(r)
  PROVE  Feed'
<1>1. pc = "idle" /\ UNCHANGED flash /\ pc' \in {"idle", "init", "clear_first", "off"}
  BY DEF Call
<1>2. comd' = Idle /\ txfifo' = <<>>
  BY <1>1 DEF flash, OnCourse, RestPcs, Feed, WritePcs
<1>. QED BY <1>1, <1>2 DEF Feed, WritePcs, FillPcs, SendPcs, Idle

LEMMA FeedLooks ==
  ASSUME TypeOK, Feed, Looks, UNCHANGED <<program, req>>
  PROVE  Feed'
<1>1. UNCHANGED <<comd, txfifo, addr, datn, latched, program, req, done, i>>
  BY DEF Looks, flash
<1>2. Programming' = Programming /\ Unit' = Unit
  BY <1>1, FeedFramed
<1>3. CASE pc \in {"clear_first", "clear", "clear_again", "status", "r_wait"}
  <2>1. pc' \in {"off", "rdsr", "status", "rdata", "r_wait", "r_data"} /\ txfifo' = <<>>
    BY <1>1, <1>3 DEF Looks, Feed, WritePcs
  <2>. QED BY <1>1, <1>2, <2>1 DEF Feed, WritePcs, FillPcs, SendPcs
<1>4. CASE pc = "busy"
  <2>1. pc' = "busy" \/ (pc' = "clear" /\ comd = Idle)
    BY <1>4 DEF Looks
  <2>. QED BY <1>1, <1>2, <1>4, <2>1 DEF Feed, WritePcs, FillPcs, SendPcs, Idle
<1>5. CASE pc = "w_room"
  <2>1. pc' = "w_room" \/ (pc' = "w_data" /\ Len(txfifo) < TxDepth)
    <3>1. Len(txfifo) < TxDepth - 1 => Len(txfifo) < TxDepth
      BY Sizes DEF TypeOK, FlashTypeOK
    <3>. QED BY <3>1, <1>5 DEF Looks, Room
  <2>. QED BY <1>1, <1>2, <1>5, <2>1 DEF Feed, WritePcs, FillPcs, SendPcs
<1>. QED BY <1>3, <1>4, <1>5 DEF Looks

LEMMA FeedNextUnit ==
  ASSUME TypeOK', LoopInv', NEW d, NextUnit(d), comd' = Idle, txfifo' = <<>>
  PROVE  Feed'
<1>1. i' = 0 /\ pc' \in {"on", "e_wren", "r_addr", "w_addr", "w_fill"}
  BY NextUnitGoes DEF NextUnit
<1>2. pc' \in FillPcs => 0 <= PageWords'
  <2>1. pc' \in FillPcs => req'.f = "write" /\ pc' \in UnitPcs
    BY DEF LoopInv, FillPcs, WritePcs, UnitPcs
  <2>. QED BY <2>1, WriteUnitAfter DEF WriteUnit
<1>3. 0 < FillWords /\ 0 <= FillWords /\ Len(txfifo') = 0
  BY Sizes
<1>4. WordsFrom(txfifo, done)'
  BY NothingQueued DEF WordsFrom
<1>. QED BY <1>1, <1>2, <1>3, <1>4 DEF Feed, WritePcs, FillPcs, SendPcs, Idle

LEMMA FeedTurns ==
  ASSUME TypeOK', LoopInv', OnCourse, Feed, Turns
  PROVE  Feed'
<1>1. pc \in {"off", "clear_again"} /\ UNCHANGED <<comd, txfifo>>
  BY DEF Turns, CtrlWrite, flash
<1>2. comd' = Idle /\ txfifo' = <<>>
  BY <1>1 DEF OnCourse, RestPcs, Feed, WritePcs
<1>. QED BY <1>2, FeedNextUnit DEF Turns

LEMMA FeedReturns ==
  ASSUME OnCourse, Feed, Returns
  PROVE  Feed'
<1>1. pc \in {"init", "on"} /\ pc' = "idle" /\ UNCHANGED <<comd, txfifo>>
  BY DEF Returns, CtrlWrite, flash
<1>2. comd' = Idle /\ txfifo' = <<>>
  BY <1>1 DEF OnCourse, RestPcs, Feed, WritePcs
<1>. QED BY <1>1, <1>2 DEF Feed, WritePcs, FillPcs, SendPcs, Idle

\* The next word is the one that follows those before.
LEMMA WordFollows ==
  BytesFrom(BufferWord(i), done + WordBytes * i)
<1>1. Len(BufferWord(i)) = WordBytes
  BY Sizes DEF BufferWord
<1>2. \A k \in 1 .. WordBytes : BufferWord(i)[k] = Buffer(done + WordBytes * i + k - 1)
  BY DEF BufferWord
<1>. QED BY <1>1, <1>2 DEF BytesFrom

LEMMA FeedFill ==
  ASSUME TypeOK, LoopInv, OnCourse, Feed, Feeds, UNCHANGED <<program, req>>, pc = "w_fill"
  PROVE  Feed'
<1>1. pc \in UnitPcs /\ pc \in FillPcs /\ req.f = "write" /\ i < PageWords
  BY DEF LoopInv, UnitPcs, WritePcs, FillPcs
<1>2. done \in Nat /\ i \in Nat /\ PageWords \in Nat
  BY <1>1, WriteFacts
<1>3. Len(txfifo) = i /\ WordsFrom(txfifo, done) /\ i < FillWords
  BY <1>1 DEF Feed
<1>4. txfifo \in Seq(FlashWords) /\ BufferWord(i) \in FlashWords
  BY BufferTyped DEF TypeOK, FlashTypeOK
<1>5. i < TxDepth
  BY <1>2, <1>3, Sizes, FlashAssumption
<1>6. txfifo' = Append(txfifo, BufferWord(i)) /\ comd' = comd /\ comd = Idle
  BY <1>3, <1>5 DEF Feeds, WdataWrite, OnCourse, RestPcs
<1>7. WordsFrom(txfifo', done) /\ Len(txfifo') = i + 1
  BY <1>2, <1>3, <1>4, <1>6, WordFollows, WordsAppended
<1>8. done' = done /\ i' = i + 1 /\ PageWords' = PageWords
  BY Framed DEF Feeds
<1>9. WordsFrom(txfifo, done)'
  BY <1>7, <1>8 DEF WordsFrom, BytesFrom
<1>10. pc' = "w_addr" \/ (pc' = "w_fill" /\ i + 1 < FillWords)
  BY DEF Feeds
<1>11. i + 1 <= PageWords /\ i + 1 <= FillWords
  BY <1>1, <1>2, <1>3, Sizes
<1>. QED BY <1>6, <1>7, <1>8, <1>9, <1>10, <1>11 DEF Feed, WritePcs, FillPcs, SendPcs, Idle

\* A word is short of the page as long as one is left to send.
LEMMA PageUnfilled ==
  ASSUME TypeOK, LoopInv, pc \in {"w_room", "w_data"}
  PROVE  /\ i \in Nat /\ PageWords \in Nat /\ i < PageWords
         /\ WordBytes * i \in Nat /\ WordBytes * i + WordBytes <= Unit /\ Unit \in Nat
<1>1. pc \in UnitPcs /\ req.f = "write" /\ i < PageWords
  BY DEF LoopInv, UnitPcs, WritePcs
<1>2. i \in Nat /\ PageWords \in Nat /\ WordBytes * PageWords <= Unit /\ Unit \in Nat
  BY <1>1, WriteFacts
<1>3. WordBytes * i + WordBytes <= WordBytes * PageWords
  BY <1>1, <1>2, PartOfPage
<1>. DEFINE a == WordBytes * i  b == WordBytes * PageWords
<1>4. a \in Nat /\ b \in Nat
  BY <1>2, Sizes
<1>5. a + WordBytes <= b /\ b <= Unit
  BY <1>2, <1>3
<1>. HIDE DEF a, b
<1>6. a + WordBytes <= Unit
  BY <1>2, <1>4, <1>5, Sizes
<1>. QED BY <1>1, <1>2, <1>4, <1>6 DEF a

LEMMA DataWanted ==
  ASSUME TypeOK, LoopInv, Feed, pc = "w_data"
  PROVE  comd = "PP"
<1>. SUFFICES ASSUME comd # "PP" PROVE FALSE
  OBVIOUS
<1>. DEFINE a == WordBytes * i
<1>1. a = Unit
  BY DEF Feed, SendPcs, LoopInv, WritePcs
<1>2. a \in Nat /\ a + WordBytes <= Unit
  BY PageUnfilled
<1>. HIDE DEF a
<1>. QED BY <1>1, <1>2, Sizes

LEMMA FeedData ==
  ASSUME TypeOK, LoopInv, OnCourse, Feed, Feeds, UNCHANGED <<program, req>>, pc = "w_data"
  PROVE  Feed'
<1>1. /\ i \in Nat /\ PageWords \in Nat /\ i < PageWords
      /\ WordBytes * i \in Nat /\ WordBytes * i + WordBytes <= Unit /\ Unit \in Nat
  BY PageUnfilled
<1>2. comd = "PP"
  BY DataWanted
<1>3. Programming /\ Len(txfifo) < TxDepth
  BY <1>2 DEF Feed
<1>4. /\ txfifo \in Seq(FlashWords) /\ latched \in Seq(Bytes) /\ BufferWord(i) \in FlashWords
      /\ done \in Nat
  BY BufferTyped DEF TypeOK, FlashTypeOK
<1>5. txfifo' = Append(txfifo, BufferWord(i)) /\ UNCHANGED <<comd, addr, datn, latched>>
  BY <1>3 DEF Feeds, WdataWrite
<1>6. /\ WordsFrom(txfifo, done + Len(latched))
      /\ Len(latched) + WordBytes * Len(txfifo) = WordBytes * i
      /\ Len(latched) \in Nat /\ Len(txfifo) \in Nat
  BY <1>3, <1>4 DEF Programming
<1>7. BytesFrom(BufferWord(i), done + Len(latched) + WordBytes * Len(txfifo))
  <2>1. done + Len(latched) + WordBytes * Len(txfifo) = done + WordBytes * i
    <3>. DEFINE a == WordBytes * Len(txfifo)  b == WordBytes * i
    <3>1. a \in Nat /\ b \in Nat /\ Len(latched) + a = b
      BY <1>6, <1>1, Sizes
    <3>. HIDE DEF a, b
    <3>2. done + Len(latched) + a = done + b
      BY <3>1, <1>4, <1>6
    <3>. QED BY <3>2 DEF a, b
  <2>. QED BY <2>1, WordFollows
<1>8. WordsFrom(txfifo', done + Len(latched)) /\ Len(txfifo') = Len(txfifo) + 1
  BY <1>4, <1>5, <1>6, <1>7, WordsAppended
<1>9. Len(latched) + WordBytes * (Len(txfifo) + 1) = WordBytes * (i + 1)
  <2>1. /\ WordBytes * (Len(txfifo) + 1) = WordBytes * Len(txfifo) + WordBytes
        /\ WordBytes * (i + 1) = WordBytes * i + WordBytes
    BY <1>1, <1>6, Sizes
  <2>. DEFINE a == WordBytes * Len(txfifo)  b == WordBytes * i
  <2>2. a \in Nat /\ b \in Nat /\ Len(latched) + a = b
    BY <1>6, <1>1, Sizes
  <2>. HIDE DEF a, b
  <2>3. Len(latched) + (a + WordBytes) = b + WordBytes
    BY <2>2, <1>6, Sizes
  <2>. QED BY <2>1, <2>3 DEF a, b
<1>10. done' = done /\ i' = i + 1 /\ PageWords' = PageWords /\ Unit' = Unit
  BY Framed DEF Feeds
<1>11. Programming'
  <2>1. WordsFrom(txfifo, done + Len(latched))' /\ BytesFrom(latched, done)'
    BY <1>3, <1>5, <1>8, <1>10 DEF Programming, WordsFrom, BytesFrom
  <2>2. i + 1 <= PageWords
    BY <1>1
  <2>. QED BY <1>3, <1>5, <1>8, <1>9, <1>10, <2>1, <2>2 DEF Programming
<1>12. pc' \in {"w_room", "busy"}
  BY DEF Feeds, MoreWords
<1>. QED BY <1>2, <1>5, <1>11, <1>12 DEF Feed, WritePcs, FillPcs, SendPcs

LEMMA FeedSets ==
  ASSUME TypeOK, LoopInv, OnCourse, Feed, Sets, UNCHANGED <<program, req>>
  PROVE  Feed'
<1>1. UNCHANGED <<txfifo, i, done, program, req>>
  BY DEF Sets, ComdWrite, AddrWrite, DatnWrite, RdataRead
<1>2. /\ WordsFrom(txfifo, done)' = WordsFrom(txfifo, done)
      /\ Unit' = Unit /\ PageWords' = PageWords
  BY <1>1, Framed DEF WordsFrom, BytesFrom
<1>3. CASE pc \in {"e_wren", "e_addr", "r_addr", "r_datn", "w_addr", "w_datn", "w_wren"}
  <2>1. comd' = Idle
    BY <1>3 DEF Sets, ComdWrite, AddrWrite, DatnWrite, OnCourse, RestPcs
  <2>2. CASE pc \in {"w_addr", "w_datn", "w_wren"}
    <3>1. pc' \in {"w_datn", "w_wren", "w_comd"}
      BY <2>2 DEF Sets
    <3>. QED BY <1>1, <1>2, <2>1, <2>2, <3>1 DEF Feed, WritePcs, FillPcs, SendPcs, Idle
  <2>3. CASE pc \in {"e_wren", "e_addr", "r_addr", "r_datn"}
    <3>1. pc' \in {"e_addr", "e_comd", "r_datn", "r_comd"}
      BY <2>3 DEF Sets
    <3>2. txfifo' = <<>>
      BY <1>1, <2>3 DEF Feed, WritePcs
    <3>. QED BY <2>1, <3>1, <3>2 DEF Feed, WritePcs, FillPcs, SendPcs, Idle
  <2>. QED BY <1>3, <2>2, <2>3
<1>4. CASE pc = "e_comd"
  <2>1. pc' = "busy" /\ comd' = "SE" /\ txfifo' = <<>> /\ req'.f = "erase"
    BY <1>1, <1>4 DEF Sets, ComdWrite, OnCourse, RestPcs, Feed, WritePcs, LoopInv, ErasePcs
  <2>. QED BY <2>1 DEF Feed, WritePcs, FillPcs, SendPcs
<1>5. CASE pc = "w_comd"
  <2>1. comd = Idle /\ pc' \in {"w_room", "busy"} /\ ComdWrite("PP")
    BY <1>5 DEF Sets, MoreWords, OnCourse, RestPcs
  <2>2. comd' = "PP" /\ latched' = <<>> /\ UNCHANGED <<addr, datn>>
    BY <2>1 DEF ComdWrite, Idle
  <2>3. /\ req.f = "write" /\ addr = req.offset + done /\ datn = Unit - 1
        /\ Len(txfifo) = i /\ WordsFrom(txfifo, done) /\ i <= PageWords
    BY <1>5 DEF LoopInv, WritePcs, OnCourse, Feed, FillPcs
  <2>4. done \in Nat /\ i \in Nat /\ Unit \in Nat \ {0}
    BY <1>5, <2>3, WriteFacts DEF UnitPcs, WritePcs
  <2>5. Len(latched') = 0 /\ done + 0 = done /\ 0 + WordBytes * i = WordBytes * i
    <3>1. WordBytes * i \in Nat
      BY <2>4, Sizes
    <3>. QED BY <3>1, <2>2, <2>4
  <2>6. WordsFrom(txfifo, done + Len(latched))' /\ BytesFrom(latched, done)'
    <3>1. WordsFrom(txfifo', done')
      BY <1>1, <2>3 DEF WordsFrom, BytesFrom
    <3>2. BytesFrom(latched', done')
      BY <2>2, NothingQueued
    <3>3. done' + Len(latched') = done'
      BY <2>5, <1>1
    <3>4. (done + Len(latched))' = done'
      BY <3>3
    <3>. QED BY <3>1, <3>2, <3>4 DEF WordsFrom, BytesFrom
  <2>7. Programming'
    BY <1>1, <1>2, <2>2, <2>3, <2>4, <2>5, <2>6 DEF Programming
  <2>. QED BY <2>1, <2>2, <2>7 DEF Feed, WritePcs, FillPcs, SendPcs
<1>6. CASE pc \in {"r_comd", "rdsr", "rdata"}
  <2>1. pc' \in {"r_wait", "status", "clear_again"} /\ txfifo' = <<>>
    BY <1>1, <1>6 DEF Sets, Feed, WritePcs
  <2>2. comd' # "PP"
    BY <1>6 DEF Sets, ComdWrite, RdataRead, OnCourse, StatusHere, RestPcs, Idle
  <2>. QED BY <2>1, <2>2 DEF Feed, WritePcs, FillPcs, SendPcs
<1>. QED BY <1>3, <1>4, <1>5, <1>6 DEF Sets

LEMMA FeedGets ==
  ASSUME TypeOK', LoopInv', OnCourse', OnCourse, Feed, Gets
  PROVE  Feed'
<1>1. UNCHANGED <<comd, txfifo>> /\ txfifo = <<>>
  BY DEF Gets, RdataRead, Feed, WritePcs
<1>2. CASE pc' = "r_wait"
  <2>1. comd # "PP"
    BY DEF Gets, OnCourse, ReadOnWire, Idle
  <2>. QED BY <1>1, <1>2, <2>1 DEF Feed, WritePcs, FillPcs, SendPcs
<1>3. ASSUME NextUnit(done + Unit) PROVE Feed'
  <2>1. comd' = Idle
    BY <1>3, NextUnitGoes DEF OnCourse, RestPcs
  <2>. QED BY <1>1, <1>3, <2>1, FeedNextUnit
<1>. QED BY <1>2, <1>3 DEF Gets

\* The word the flash takes is the next one; when it is the last of the page
\* the flash sets to work on all of it, and nothing stays in the FIFO.
LEMMA WordTaken ==
  ASSUME TypeOK, LoopInv, OnCourse, Work, TakeWord, UNCHANGED driver
  PROVE  \/ comd' = "PP" /\ UNCHANGED wip /\ Programming'
         \/ /\ comd' = Idle /\ txfifo' = <<>>
            /\ pc = "busy" /\ req.f = "write" /\ WordBytes * i = Unit
            /\ wip'.op = "PP" /\ wip'.at = (req.offset + done) % MemSize
            /\ Len(wip'.bytes) = Unit /\ BytesFrom(wip'.bytes, done)
<1>1. comd = "PP" /\ txfifo # <<>>
  BY DEF TakeWord
<1>2. pc \in SendPcs /\ Programming /\ wel /\ wip = NoWork
  BY <1>1, CommandAt DEF Work, Enabled, Feed, Working
<1>3. /\ req.f = "write" /\ i <= PageWords /\ addr = req.offset + done /\ datn = Unit - 1
      /\ BytesFrom(latched, done) /\ WordsFrom(txfifo, done + Len(latched))
      /\ Len(latched) + WordBytes * Len(txfifo) = WordBytes * i
  BY <1>2 DEF Programming
<1>4. /\ done \in Nat /\ i \in Nat /\ Unit \in Nat \ {0} /\ PageWords \in Nat
      /\ WordBytes * PageWords <= Unit
  BY <1>2, <1>3, WriteFacts DEF SendPcs, UnitPcs, WritePcs, WaitPcs
<1>5. latched \in Seq(Bytes) /\ txfifo \in Seq(FlashWords) /\ Len(latched) \in Nat
  BY DEF TypeOK, FlashTypeOK
<1>6. /\ Head(txfifo) \in FlashWords /\ BytesFrom(Head(txfifo), done + Len(latched))
      /\ Tail(txfifo) \in Seq(FlashWords) /\ Len(txfifo) \in Nat \ {0}
      /\ Len(Tail(txfifo)) = Len(txfifo) - 1
      /\ WordsFrom(Tail(txfifo), done + Len(latched) + WordBytes)
  BY <1>1, <1>3, <1>4, <1>5, WordsTaken
<1>. DEFINE joined == latched \o Head(txfifo)
<1>7. /\ joined \in Seq(Bytes) /\ Len(joined) = Len(latched) + WordBytes
      /\ BytesFrom(joined, done)
  BY <1>3, <1>4, <1>5, <1>6, BytesJoined
<1>. DEFINE a == WordBytes * Len(txfifo)  b == WordBytes * Len(Tail(txfifo))  c == WordBytes * i
<1>8. a \in Nat /\ b \in Nat /\ c \in Nat /\ a = b + WordBytes
  <2>1. Len(Tail(txfifo)) \in Nat /\ Len(txfifo) = Len(Tail(txfifo)) + 1
    BY <1>6
  <2>2. WordBytes * (Len(Tail(txfifo)) + 1) = WordBytes * Len(Tail(txfifo)) + WordBytes
    BY <2>1, Sizes
  <2>. QED BY <2>1, <2>2, <1>4, Sizes
<1>9. c <= Unit
  <2>1. WordBytes * i <= WordBytes * PageWords /\ WordBytes * PageWords \in Nat
    BY <1>3, <1>4, Sizes, MultiplesKept
  <2>. DEFINE d == WordBytes * PageWords
  <2>2. c <= d /\ d <= Unit /\ d \in Nat
    BY <2>1, <1>4
  <2>. HIDE DEF c, d
  <2>. QED BY <2>2, <1>8, <1>4
<1>. HIDE DEF joined, a, b, c
<1>10. Len(latched) + a = c
  BY <1>3 DEF a, c
<1>11. Len(joined) + b = c /\ Len(joined) <= Unit /\ Len(joined) \in Nat
  BY <1>5, <1>7, <1>8, <1>9, <1>10, <1>4, Sizes
<1>12. Count = Unit
  BY <1>3, <1>4 DEF Count
<1>13. Prefix(joined, Count) = joined
  BY <1>7, <1>11, <1>12, <1>4, PrefixWhole
<1>14. /\ latched' = joined /\ txfifo' = Tail(txfifo) /\ UNCHANGED <<addr, datn>>
       /\ comd' = IF Len(joined) = Unit THEN Idle ELSE "PP"
       /\ wip' = IF Len(joined) = Unit
                 THEN [op |-> "PP", at |-> addr % MemSize, bytes |-> joined] ELSE wip
  BY <1>2, <1>12, <1>13 DEF TakeWord, joined
<1>15. CASE Len(joined) = Unit
  <2>1. b = 0 /\ c = Unit
    BY <1>15, <1>8, <1>9, <1>11, <1>4
  <2>2. Len(Tail(txfifo)) = 0
    <3>. SUFFICES ASSUME Len(Tail(txfifo)) # 0 PROVE FALSE
      OBVIOUS
    <3>1. Len(Tail(txfifo)) \in Nat \ {0}
      BY <1>6
    <3>2. WordBytes * 0 + WordBytes <= b
      BY <3>1, PartOfPage DEF b
    <3>. QED BY <3>2, <2>1, Sizes
  <2>3. Tail(txfifo) = <<>>
    BY <2>2, <1>6, EmptySeq
  <2>4. pc = "busy"
    <3>. SUFFICES ASSUME pc # "busy" PROVE FALSE
      OBVIOUS
    <3>1. pc \in {"w_room", "w_data"}
      BY <1>2 DEF SendPcs
    <3>2. c + WordBytes <= Unit
      BY <3>1, PageUnfilled DEF c
    <3>. QED BY <3>2, <2>1, <1>4, Sizes
  <2>. QED BY <1>3, <1>7, <1>14, <1>15, <2>1, <2>3, <2>4 DEF c
<1>16. CASE Len(joined) # Unit
  <2>1. UNCHANGED <<program, req, done, i>>
    BY DEF driver
  <2>2. Unit' = Unit /\ PageWords' = PageWords
    BY <2>1, Framed
  <2>3. Len(joined) < Unit
    BY <1>16, <1>11, <1>4
  <2>4. BytesFrom(latched, done)' /\ WordsFrom(txfifo, done + Len(latched))'
    <3>1. BytesFrom(joined, done') /\ latched' = joined
      BY <1>7, <1>14, <2>1
    <3>2. done + Len(joined) = done + Len(latched) + WordBytes
      BY <1>4, <1>5, <1>7, Sizes
    <3>3. WordsFrom(Tail(txfifo), done + Len(joined))
      BY <1>6, <3>2
    <3>4. (done + Len(latched))' = done + Len(joined)
      BY <3>1, <2>1
    <3>5. WordsFrom(txfifo', (done + Len(latched))')
      BY <3>3, <3>4, <1>14
    <3>. QED BY <3>1, <3>5 DEF BytesFrom, WordsFrom
  <2>5. Len(latched') + WordBytes * Len(txfifo') = WordBytes * i
    BY <1>11, <1>14 DEF b, c
  <2>. QED BY <1>3, <1>14, <1>16, <2>1, <2>2, <2>3, <2>4, <2>5 DEF Programming
<1>. QED BY <1>15, <1>16

LEMMA FeedWire ==
  ASSUME TypeOK, LoopInv, OnCourse, Work, Wire
  PROVE  Feed'
<1>1. UNCHANGED driver /\ UNCHANGED <<program, pc, req, done, i>> /\ Feed
  BY DEF Wire, driver, Work
<1>2. Unit' = Unit /\ PageWords' = PageWords
  BY <1>1, Framed
<1>3. CASE TakeWord
  <2>1. comd = "PP" /\ pc \in SendPcs
    BY <1>3, CommandAt DEF TakeWord
  <2>2. CASE comd' = "PP" /\ Programming'
    <3>1. pc = "w_data" => Len(txfifo') < TxDepth
      <4>1. txfifo \in Seq(FlashWords) /\ txfifo # <<>> /\ txfifo' = Tail(txfifo)
        BY <1>3 DEF TakeWord, TypeOK, FlashTypeOK
      <4>2. Len(txfifo') = Len(txfifo) - 1 /\ Len(txfifo) \in Nat
        BY <4>1
      <4>. QED BY <4>2, <1>1, Sizes DEF Feed
    <3>. QED BY <1>1, <2>1, <2>2, <3>1 DEF Feed, SendPcs, FillPcs, WritePcs
  <2>3. CASE comd' = Idle /\ txfifo' = <<>> /\ pc = "busy" /\ WordBytes * i = Unit
    BY <1>1, <1>2, <2>3 DEF Feed, SendPcs, FillPcs, WritePcs, Idle
  <2>. QED BY <1>1, <1>3, <2>2, <2>3, WordTaken
<1>4. CASE SendWord \/ SendStatus \/ StartErase
  <2>1. comd # "PP" /\ comd' # "PP" /\ UNCHANGED txfifo
    BY <1>4 DEF SendWord, SendStatus, StartErase, Idle
  <2>2. WordsFrom(txfifo, done)' = WordsFrom(txfifo, done)
    BY <1>1, <2>1 DEF WordsFrom, BytesFrom
  <2>. QED BY <1>1, <1>2, <2>1, <2>2 DEF Feed
<1>. QED BY <1>3, <1>4 DEF Wire

LEMMA FeedStill ==
  ASSUME Feed, Array \/ UNCHANGED vars
  PROVE  Feed'
<1>1. UNCHANGED <<program, pc, req, done, i, comd, addr, datn, txfifo, latched>>
  BY DEF Array, FinishArray, vars, flash, driver
<1>. QED BY <1>1, FeedFramed DEF Feed

-------------------------------------------------------------------------------
(* What the flash is at work on                                            *)

LEMMA WorkingFramed ==
  ASSUME UNCHANGED <<program, req, done, wip>>
  PROVE  /\ SectorAtWork' = SectorAtWork /\ PageAtWork' = PageAtWork
         /\ (req.from + done)' = req.from + done
<1>1. Unit' = Unit
  BY Framed
<1>. QED BY <1>1 DEF SectorAtWork, PageAtWork, BytesFrom

LEMMA WorkingRest ==
  ASSUME wip' = NoWork, comd' # "SE"
  PROVE  Working'
BY DEF Working

LEMMA WorkingKept ==
  ASSUME Working, UNCHANGED <<program, req, done, wip, addr>>,
         comd' = comd \/ comd' \notin {"SE", "PP"},
         pc \in WaitPcs => pc' \in WaitPcs
  PROVE  Working'
BY WorkingFramed DEF Working

LEMMA WorkingSteps ==
  ASSUME TypeOK, LoopInv, OnCourse, Working, UNCHANGED <<program, req>>,
         Looks \/ Turns \/ Returns \/ Sets \/ Feeds \/ Gets
  PROVE  Working'
<1>1. CASE Looks
  <2>1. UNCHANGED <<comd, wip, addr, done>> /\ (pc \in WaitPcs => pc' \in WaitPcs)
    BY <1>1 DEF Looks, flash, WaitPcs
  <2>. QED BY <2>1, WorkingKept
<1>2. CASE Turns \/ Returns
  <2>1. UNCHANGED <<comd, wip>> /\ (pc \in RestPcs \/ (pc = "clear_again" /\ ~wipbit))
    BY <1>2 DEF Turns, Returns, flash, CtrlWrite, RestPcs
  <2>. QED BY <2>1, WorkingRest DEF OnCourse, Idle
<1>3. CASE Feeds
  <2>1. UNCHANGED <<comd, wip, addr, done>> /\ pc \notin WaitPcs
    BY <1>3 DEF Feeds, WdataWrite, WaitPcs
  <2>. QED BY <2>1, WorkingKept
<1>4. CASE Gets
  <2>1. UNCHANGED <<comd, wip>> /\ pc = "r_data"
    BY <1>4 DEF Gets, RdataRead
  <2>. QED BY <2>1, WorkingRest DEF OnCourse, ReadOnWire, Idle
<1>5. CASE Sets
  <2>1. CASE pc \in RestPcs \ {"e_comd"}
    <3>1. wip' = NoWork
      BY <1>5, <2>1 DEF Sets, ComdWrite, AddrWrite, DatnWrite, RdataRead, OnCourse
    <3>2. comd' # "SE"
      BY <1>5, <2>1 DEF Sets, ComdWrite, AddrWrite, DatnWrite, RdataRead, OnCourse, Idle
    <3>. QED BY <3>1, <3>2, WorkingRest
  <2>2. CASE pc = "e_comd"
    <3>1. wip' = NoWork /\ addr' = addr /\ addr = req.from + done /\ done' = done /\ req.f = "erase"
      BY <1>5, <2>2 DEF Sets, ComdWrite, OnCourse, RestPcs, LoopInv, ErasePcs
    <3>. QED BY <3>1 DEF Working
  <2>3. CASE pc \in {"rdsr", "rdata"}
    <3>1. UNCHANGED <<wip, addr, done>> /\ pc' \in {"status", "clear_again"}
      BY <1>5, <2>3 DEF Sets, ComdWrite, RdataRead
    <3>2. comd' = comd \/ comd' = "RDSR"
      BY <1>5, <2>3 DEF Sets, ComdWrite, RdataRead
    <3>. QED BY <3>1, <3>2, WorkingKept DEF WaitPcs
  <2>4. pc \in RestPcs \/ pc \in {"rdsr", "rdata"}
    BY <1>5 DEF Sets, RestPcs
  <2>. QED BY <2>1, <2>2, <2>3, <2>4
<1>. QED BY <1>1, <1>2, <1>3, <1>4, <1>5

LEMMA WorkingWire ==
  ASSUME TypeOK, LoopInv, OnCourse, Work, Wire
  PROVE  Working'
<1>1. /\ UNCHANGED driver /\ UNCHANGED <<program, pc, req, done, i>>
      /\ Working /\ Enabled
  BY DEF Wire, driver, Work
<1>2. Unit' = Unit
  BY <1>1, Framed
<1>3. CASE TakeWord
  <2>1. wip = NoWork
    BY <1>1, <1>3 DEF TakeWord, Working
  <2>2. CASE comd' = "PP" /\ UNCHANGED wip
    BY <2>1, <2>2, WorkingRest
  <2>3. CASE /\ comd' = Idle /\ pc = "busy" /\ req.f = "write"
             /\ wip'.op = "PP" /\ wip'.at = (req.offset + done) % MemSize
             /\ Len(wip'.bytes) = Unit /\ BytesFrom(wip'.bytes, done)
    <3>1. (req.offset + done) % MemSize = req.offset + done
      BY <2>3, WriteHere DEF UnitPcs, WaitPcs
    <3>2. PageAtWork'
      BY <1>1, <1>2, <2>3, <3>1 DEF PageAtWork, BytesFrom
    <3>. QED BY <1>1, <2>3, <3>2 DEF Working, WaitPcs, Idle
  <2>. QED BY <1>1, <1>3, <2>2, <2>3, WordTaken
<1>4. CASE SendWord \/ SendStatus
  <2>1. UNCHANGED <<wip, addr>> /\ comd' \notin {"SE", "PP"}
    BY <1>4 DEF SendWord, SendStatus, Idle
  <2>. QED BY <1>1, <2>1, WorkingKept
<1>5. CASE StartErase
  <2>1. comd = "SE" /\ comd' = Idle
    BY <1>5 DEF StartErase
  <2>2. /\ wel /\ wip = NoWork /\ req.f = "erase" /\ addr = req.from + done
        /\ pc \in SendPcs
    BY <1>1, <2>1, CommandAt DEF Enabled, Working
  <2>3. pc = "busy"
    BY <2>2 DEF SendPcs, LoopInv, WritePcs
  <2>4. wip' = [op |-> "SE", at |-> addr % MemSize, bytes |-> <<>>]
    BY <1>5, <2>2 DEF StartErase
  <2>5. SectorAtWork'
    BY <1>1, <2>2, <2>4 DEF SectorAtWork
  <2>. QED BY <1>1, <2>1, <2>3, <2>5 DEF Working, WaitPcs, Idle
<1>. QED BY <1>3, <1>4, <1>5 DEF Wire

LEMMA WorkingStep ==
  ASSUME TypeOK, LoopInv, OnCourse, Work,
         \/ \E r \in Requests : Call(r)
         \/ (Looks \/ Turns \/ Returns \/ Sets \/ Feeds \/ Gets) /\ UNCHANGED <<program, req>>
         \/ Wire \/ Array \/ UNCHANGED vars
  PROVE  Working'
<1>0. Working
  BY DEF Work
<1>1. CASE \E r \in Requests : Call(r)
  <2>1. pc = "idle" /\ UNCHANGED flash
    BY <1>1 DEF Call
  <2>2. wip' = NoWork /\ comd' = Idle
    BY <2>1 DEF flash, OnCourse, RestPcs
  <2>. QED BY <2>2, WorkingRest DEF Idle
<1>2. CASE (Looks \/ Turns \/ Returns \/ Sets \/ Feeds \/ Gets) /\ UNCHANGED <<program, req>>
  BY <1>0, <1>2, WorkingSteps
<1>3. CASE Wire
  BY <1>3, WorkingWire
<1>4. CASE Array
  <2>1. wip' = NoWork /\ UNCHANGED <<comd, addr, req, done>>
    BY <1>4 DEF Array, FinishArray
  <2>. QED BY <1>0, <2>1 DEF Working
<1>5. CASE UNCHANGED vars
  <2>1. UNCHANGED <<comd, wip, addr, program, req, done, pc>>
    BY <1>5 DEF vars, flash, driver
  <2>. QED BY <1>0, <2>1, WorkingKept
<1>. QED BY <1>1, <1>2, <1>3, <1>4, <1>5

-------------------------------------------------------------------------------
(* The words on their way to the caller                                    *)

LEMMA QueueKept ==
  ASSUME Queue, UNCHANGED <<req, done, i, addr, rxfifo, cells>>,
         pc' \in {"r_datn", "r_comd", "r_wait", "r_data"} => pc \in {"r_datn", "r_comd", "r_wait", "r_data"},
         pc' \in {"r_wait", "r_data"} => pc \in {"r_wait", "r_data"}
  PROVE  Queue'
BY DEF Queue

LEMMA QueueSent ==
  ASSUME TypeOK, LoopInv, OnCourse, Queue, SendWord, UNCHANGED driver
  PROVE  Queue'
<1>. DEFINE word == [k \in 1 .. WordBytes |->
                       IF wip = NoWork THEN cells[(addr + sent + k - 1) % MemSize] ELSE Worn]
<1>1. /\ comd = "RD" /\ rxfifo' = Append(rxfifo, word)
      /\ UNCHANGED <<addr, cells>> /\ UNCHANGED <<pc, req, done, i>>
  BY DEF SendWord, driver
<1>2. pc \in {"r_wait", "r_data"}
  BY <1>1 DEF TypeOK, OnCourse, RestPcs, Pcs, StatusHere, Idle
<1>3. /\ wip = NoWork /\ sent = (i + Len(rxfifo)) * WordBytes /\ addr = req.offset + done
  BY <1>1, <1>2 DEF OnCourse, ReadOnWire, Idle, Queue
<1>4. i \in Nat /\ rxfifo \in Seq(FlashWords) /\ Len(rxfifo) \in Nat /\ addr \in Nat
  BY <1>2, ReadFacts DEF ReadPcs, TypeOK, FlashTypeOK
<1>5. ASSUME NEW b \in 1 .. WordBytes
      PROVE  word[b] = cells[(addr + WordBytes * (i + (Len(rxfifo) + 1) - 1) + b - 1) % MemSize]
  <2>1. word[b] = cells[(addr + sent + b - 1) % MemSize]
    BY <1>3
  <2>2. sent = WordBytes * (i + (Len(rxfifo) + 1) - 1)
    <3>1. i + (Len(rxfifo) + 1) - 1 = i + Len(rxfifo) /\ i + Len(rxfifo) \in Nat
      BY <1>4
    <3>2. (i + Len(rxfifo)) * WordBytes = WordBytes * (i + Len(rxfifo))
      BY <3>1, Sizes
    <3>. QED BY <3>1, <3>2, <1>3
  <2>. QED BY <2>1, <2>2
<1>6. word \in FlashWords
  <2>1. \A k \in 1 .. WordBytes : (addr + sent + k - 1) % MemSize \in Cells
    <3>1. \A k \in 1 .. WordBytes : addr + sent + k - 1 \in Nat
      BY <1>4, Sizes DEF TypeOK, FlashTypeOK
    <3>. QED BY <3>1, Sizes, Divided DEF Cells
  <2>. QED BY <2>1, <1>3 DEF FlashWords, TypeOK, FlashTypeOK
<1>. HIDE DEF word
<1>7. /\ Len(rxfifo') = Len(rxfifo) + 1 /\ rxfifo'[Len(rxfifo) + 1] = word
      /\ \A j \in 1 .. Len(rxfifo) : rxfifo'[j] = rxfifo[j]
  BY <1>1, <1>4, <1>6, AppendProperties
<1>8. ASSUME NEW j \in 1 .. Len(rxfifo'), NEW b \in 1 .. WordBytes
      PROVE  rxfifo'[j][b] = cells[(addr + WordBytes * (i + j - 1) + b - 1) % MemSize]
  <2>1. CASE j \in 1 .. Len(rxfifo)
    BY <2>1, <1>2, <1>7 DEF Queue
  <2>2. CASE j = Len(rxfifo) + 1
    BY <2>2, <1>5, <1>7
  <2>. QED BY <2>1, <2>2, <1>4, <1>7
<1>. QED BY <1>1, <1>2, <1>3, <1>8 DEF Queue

LEMMA QueueGets ==
  ASSUME TypeOK, LoopInv, OnCourse, Queue, Gets, UNCHANGED <<program, req>>
  PROVE  Queue'
<1>1. pc = "r_data" /\ rxfifo # <<>> /\ rxfifo' = Tail(rxfifo) /\ UNCHANGED <<addr, cells>>
  BY DEF Gets, RdataRead, OnCourse
<1>2. CASE pc' = "r_wait" /\ i' = i + 1 /\ done' = done
  <2>1. /\ rxfifo \in Seq(FlashWords) /\ Len(rxfifo) \in Nat \ {0}
        /\ Len(rxfifo') = Len(rxfifo) - 1
        /\ \A j \in 1 .. Len(rxfifo') : rxfifo'[j] = rxfifo[j + 1]
    <3>1. rxfifo \in Seq(FlashWords)
      BY DEF TypeOK, FlashTypeOK
    <3>. QED BY <3>1, <1>1, EmptySeq, HeadTailProperties
  <2>2. i \in Nat
    BY <1>1, ReadFacts DEF ReadPcs
  <2>3. ASSUME NEW j \in 1 .. Len(rxfifo'), NEW b \in 1 .. WordBytes
        PROVE  rxfifo'[j][b] = cells[(addr + WordBytes * (i' + j - 1) + b - 1) % MemSize]
    <3>1. j + 1 \in 1 .. Len(rxfifo) /\ i + (j + 1) - 1 = i' + j - 1
      BY <2>1, <2>2, <1>2
    <3>2. rxfifo[j + 1][b] = cells[(addr + WordBytes * (i + (j + 1) - 1) + b - 1) % MemSize]
      BY <3>1, <1>1 DEF Queue
    <3>. QED BY <3>1, <3>2, <2>1
  <2>4. addr = req.offset + done
    BY <1>1 DEF Queue
  <2>. QED BY <1>1, <1>2, <2>3, <2>4 DEF Queue
<1>3. ASSUME NextUnit(done + Unit) PROVE Queue'
  BY <1>3, NextUnitGoes DEF Queue
<1>. QED BY <1>2, <1>3 DEF Gets

LEMMA QueueStep ==
  ASSUME TypeOK, LoopInv, OnCourse, Work,
         \/ \E r \in Requests : Call(r)
         \/ (Looks \/ Turns \/ Returns \/ Sets \/ Feeds \/ Gets) /\ UNCHANGED <<program, req>>
         \/ Wire \/ Array \/ UNCHANGED vars
  PROVE  Queue'
<1>0. Queue
  BY DEF Work
<1>1. CASE \E r \in Requests : Call(r)
  BY <1>1 DEF Call, Queue
<1>2. CASE Turns \/ Returns
  <2>1. pc' \notin {"r_datn", "r_comd", "r_wait", "r_data"}
    BY <1>2, NextUnitGoes DEF Turns, Returns
  <2>. QED BY <2>1 DEF Queue
<1>3. CASE Looks /\ UNCHANGED <<program, req>>
  <2>1. UNCHANGED <<done, i, addr, rxfifo, cells>>
    BY <1>3 DEF Looks, flash
  <2>2. pc' \in {"r_datn", "r_comd", "r_wait", "r_data"} => pc = "r_wait"
    BY <1>3 DEF Looks
  <2>. QED BY <1>0, <1>3, <2>1, <2>2, QueueKept
<1>4. CASE Feeds
  BY <1>4 DEF Feeds, MoreWords, Queue
<1>5. CASE Sets /\ UNCHANGED <<program, req>>
  <2>1. CASE pc = "r_addr"
    BY <1>5, <2>1 DEF Sets, AddrWrite, Queue
  <2>2. CASE pc \in {"r_datn", "r_comd"}
    <3>1. /\ pc' \in {"r_comd", "r_wait"} /\ UNCHANGED <<addr, done, req, rxfifo>>
          /\ rxfifo = <<>> /\ addr = req.offset + done
      BY <1>0, <1>5, <2>2 DEF Sets, DatnWrite, ComdWrite, OnCourse, RestPcs, Queue
    <3>. QED BY <3>1 DEF Queue
  <2>3. CASE pc \notin {"r_addr", "r_datn", "r_comd"}
    BY <1>5, <2>3 DEF Sets, MoreWords, Queue
  <2>. QED BY <2>1, <2>2, <2>3
<1>6. CASE Gets /\ UNCHANGED <<program, req>>
  BY <1>0, <1>6, QueueGets
<1>7. CASE Wire
  <2>1. UNCHANGED driver /\ UNCHANGED <<pc, req, done, i>>
    BY <1>7 DEF Wire, driver
  <2>2. CASE TakeWord \/ StartErase
    BY <1>0, <2>1, <2>2, QueueKept DEF TakeWord, StartErase
  <2>3. CASE SendStatus
    <3>1. comd = "RDSR"
      BY <2>3 DEF SendStatus
    <3>2. pc = "status"
      BY <3>1 DEF TypeOK, OnCourse, RestPcs, Pcs, StatusHere, ReadOnWire, Idle
    <3>. QED BY <2>1, <3>2 DEF Queue
  <2>4. CASE SendWord
    BY <1>0, <2>1, <2>4, QueueSent
  <2>. QED BY <1>7, <2>2, <2>3, <2>4 DEF Wire
<1>8. CASE Array
  <2>1. wip # NoWork /\ pc' = pc
    BY <1>8 DEF Array, FinishArray
  <2>2. pc \in WaitPcs
    BY <2>1 DEF Work, Working
  <2>. QED BY <2>1, <2>2 DEF Queue, WaitPcs
<1>9. CASE UNCHANGED vars
  BY <1>0, <1>9, QueueKept DEF vars, flash, driver
<1>. QED BY <1>1, <1>2, <1>3, <1>4, <1>5, <1>6, <1>7, <1>8, <1>9

-------------------------------------------------------------------------------
(* The end of a loop                                                       *)

LEMMA UnitFits ==
  ASSUME TypeOK, LoopInv, pc \in UnitPcs
  PROVE  /\ done \in Nat /\ Unit \in Nat /\ Total \in Nat
         /\ done + Unit \in Nat /\ done + Unit <= Total
<1>1. CASE req.f = "erase"
  <2>1. done \in Nat /\ Unit \in Nat /\ Total \in Nat /\ done + Unit <= Total
    BY <1>1, EraseFacts, Sizes
  <2>. QED BY <2>1
<1>2. CASE req.f = "write"
  <2>1. /\ done \in Nat /\ Unit \in Nat /\ Total = req.count /\ req.count \in Nat
        /\ done + Unit <= req.count
    BY <1>2, WriteFacts
  <2>. QED BY <2>1
<1>3. CASE pc \in ReadPcs
  <2>1. /\ done \in Nat /\ Unit \in Nat /\ Total = req.count /\ req.count \in Nat
        /\ done + Unit <= req.count
    BY <1>3, ReadFacts
  <2>. QED BY <2>1
<1>. QED BY <1>1, <1>2, <1>3 DEF LoopInv, UnitPcs, ErasePcs, WritePcs, WaitPcs

LEMMA EndedNextUnit ==
  ASSUME NEW d \in Nat, NextUnit(d), UNCHANGED <<program, req>>, Total \in Nat, d <= Total
  PROVE  Ended'
<1>1. done' = d /\ i' = 0 /\ pc' \in {"on", "e_wren", "r_addr", "w_addr", "w_fill"}
  BY NextUnitGoes DEF NextUnit
<1>2. Total' = Total
  BY DEF Total, Sectors
<1>3. d < Total => pc' # "on"
  BY DEF NextUnit, Goto, FirstAccess
<1>. QED BY <1>1, <1>2, <1>3 DEF Ended

LEMMA EndedStep ==
  ASSUME TypeOK, LoopInv, Ended,
         \/ \E r \in Requests : Call(r)
         \/ (Looks \/ Turns \/ Returns \/ Sets \/ Feeds \/ Gets) /\ UNCHANGED <<program, req>>
         \/ Wire \/ Array \/ UNCHANGED vars
  PROVE  Ended'
<1>1. CASE \E r \in Requests : Call(r)
  <2>1. PICK r \in Requests : Call(r)
    BY <1>1
  <2>2. /\ pc = "idle" /\ cache' = cache /\ req' = r /\ done' = 0 /\ i' = 0
        /\ \/ pc' = "idle" /\ ret' = "error"
           \/ pc' = "init" /\ r.f = "init"
           \/ pc' \in {"clear_first", "off"}
    BY <2>1 DEF Call, flash
  <2>. QED BY <2>2 DEF Ended
<1>2. CASE Turns /\ UNCHANGED <<program, req>>
  <2>1. CASE NextUnit(0) /\ pc = "off"
    <3>1. Total \in Nat
      BY <2>1, TotalTyped, Sizes DEF LoopInv, TypeOK
    <3>. QED BY <1>2, <2>1, <3>1, EndedNextUnit
  <2>2. CASE NextUnit(done + Unit) /\ pc = "clear_again"
    BY <1>2, <2>2, UnitFits, EndedNextUnit DEF UnitPcs, WaitPcs
  <2>. QED BY <1>2, <2>1, <2>2 DEF Turns
<1>3. CASE Gets /\ UNCHANGED <<program, req>>
  <2>1. CASE pc' = "r_wait"
    BY <2>1 DEF Ended
  <2>2. CASE NextUnit(done + Unit) /\ pc = "r_data"
    BY <1>3, <2>2, UnitFits, EndedNextUnit DEF UnitPcs, ReadPcs
  <2>. QED BY <1>3, <2>1, <2>2 DEF Gets
<1>4. CASE Returns /\ UNCHANGED <<program, req>>
  <2>1. Total' = Total /\ pc' = "idle" /\ UNCHANGED <<done, i>>
    BY <1>4 DEF Returns, Total, Sectors
  <2>2. CASE pc = "init" /\ UNCHANGED flash
    BY <1>4, <2>1, <2>2 DEF flash, Ended
  <2>3. CASE pc = "on" /\ CtrlWrite(TRUE)
    BY <1>4, <2>1, <2>3 DEF CtrlWrite, Ended
  <2>. QED BY <1>4, <2>2, <2>3 DEF Returns
<1>5. CASE Looks
  BY <1>5 DEF Looks, flash, Ended
<1>6. CASE Sets \/ Feeds
  <2>1. pc' \notin {"idle", "init", "clear_first", "off", "on"}
    BY <1>6 DEF Sets, Feeds, MoreWords
  <2>. QED BY <2>1 DEF Ended
<1>7. CASE Wire \/ Array \/ UNCHANGED vars
  <2>1. UNCHANGED <<cache, pc, ret, req, program, done, i>>
    BY <1>7 DEF Wire, driver, TakeWord, SendWord, SendStatus, StartErase, Array, FinishArray, vars, flash
  <2>2. Total' = Total
    BY <2>1 DEF Total, Sectors
  <2>. QED BY <2>1, <2>2 DEF Ended
<1>. QED BY <1>1, <1>2, <1>3, <1>4, <1>5, <1>6, <1>7

-------------------------------------------------------------------------------
(* What is done                                                            *)

LEMMA AchievedKept ==
  ASSUME Achieved, Underway' => Underway,
         UNCHANGED <<req, done, i, out, cells, before>>, Mark' = Mark
  PROVE  Achieved'
BY DEF Achieved, Wiped, Written, Delivered

LEMMA MarkKept ==
  ASSUME UNCHANGED <<program, req, done>>, Changed' = Changed
  PROVE  Mark' = Mark
BY Framed DEF Mark

LEMMA AchievedCall ==
  ASSUME link = "up", NEW r \in Requests, Call(r)
  PROVE  Achieved'
<1>1. /\ req' = r /\ done' = 0 /\ i' = 0 /\ before' = cells /\ cells' = cells
      /\ pc' \in {"idle", "init", "clear_first", "off"}
  BY DEF Call, flash
<1>2. Mark' = 0
  BY <1>1 DEF Mark, Changed, WaitPcs
<1>3. 0 + WordBytes * 0 = 0
  BY Sizes
<1>4. r.f = "erase" => Wiped(Mark)'
  <2>. SUFFICES ASSUME r.f = "erase" PROVE Wiped(Mark)'
    OBVIOUS
  <2>1. r.from \in Nat /\ r.from + 0 = r.from /\ r.from .. r.from - 1 = {}
    BY Asked
  <2>. QED BY <1>1, <1>2, <2>1 DEF Wiped
<1>5. r.f = "write" => Written(Mark)'
  <2>. SUFFICES ASSUME r.f = "write" PROVE Written(Mark)'
    OBVIOUS
  <2>1. r.offset \in Nat /\ r.count \in Nat /\ r.offset + 0 = r.offset
    BY Asked
  <2>2. \A a \in r.offset .. r.offset + r.count - 1 : ~(a < r.offset + 0)
    BY <2>1
  <2>. QED BY <1>1, <1>2, <2>2 DEF Written
<1>6. r.f = "read" => Delivered(done + WordBytes * i)'
  <2>. SUFFICES ASSUME r.f = "read" PROVE Delivered(done + WordBytes * i)'
    OBVIOUS
  <2>1. r.count \in Nat
    BY Asked
  <2>2. \A k \in 0 .. r.count - 1 : ~(k < 0)
    BY <2>1
  <2>3. (done + WordBytes * i)' = 0
    BY <1>1, <1>3
  <2>. QED BY <1>1, <2>2, <2>3 DEF Delivered
<1>. QED BY <1>1, <1>4, <1>5, <1>6 DEF Achieved

LEMMA AchievedTurns ==
  ASSUME TypeOK, LoopInv, OnCourse, Achieved, Ended, Turns, UNCHANGED <<program, req, before>>
  PROVE  Achieved'
<1>1. /\ UNCHANGED <<cells, out>> /\ i' = 0
      /\ pc' \in {"on", "e_wren", "r_addr", "w_addr", "w_fill"}
  BY NextUnitGoes DEF Turns, NextUnit, CtrlWrite, flash
<1>2. Mark' = done'
  BY <1>1 DEF Mark, Changed, WaitPcs
<1>3. CASE pc = "off" /\ NextUnit(0)
  <2>1. Mark = done' /\ done' = done /\ i = 0
    BY <1>3 DEF Mark, Changed, WaitPcs, NextUnit, Ended
  <2>. QED BY <1>1, <1>2, <1>3, <2>1, AchievedKept DEF Underway
<1>4. CASE pc = "clear_again" /\ ~wipbit /\ NextUnit(done + Unit)
  <2>1. Mark = done' /\ req.f \in {"erase", "write"}
    BY <1>4 DEF Mark, Changed, WaitPcs, OnCourse, Idle, NextUnit, LoopInv
  <2>. QED BY <1>1, <1>2, <1>4, <2>1 DEF Achieved, Underway, Wiped, Written
<1>. QED BY <1>3, <1>4 DEF Turns

\* Whether the sector or page of this turn has changed is not for the call to say.
LEMMA ChangedSteps ==
  ASSUME OnCourse, Looks \/ Returns \/ Sets
  PROVE  Changed' = Changed
<1>1. CASE Looks
  BY <1>1 DEF Looks, flash, Changed, WaitPcs
<1>2. CASE Returns
  BY <1>2 DEF Returns, Changed, WaitPcs
<1>3. CASE Sets /\ pc \in RestPcs \ {"e_comd", "w_comd"}
  <2>1. pc \notin WaitPcs /\ pc' \notin WaitPcs
    BY <1>3 DEF Sets, WaitPcs, RestPcs
  <2>. QED BY <2>1 DEF Changed
<1>4. CASE Sets /\ pc \in {"e_comd", "w_comd"}
  <2>1. comd' \in {"SE", "PP"} /\ pc \notin WaitPcs
    BY <1>4 DEF Sets, ComdWrite, OnCourse, RestPcs, WaitPcs
  <2>. QED BY <2>1 DEF Changed
<1>5. CASE Sets /\ pc \in {"rdsr", "rdata"}
  <2>1. pc \in WaitPcs /\ pc' \in WaitPcs /\ wip' = wip
    BY <1>5 DEF Sets, WaitPcs, ComdWrite, RdataRead
  <2>2. comd \notin {"SE", "PP"} /\ comd' \notin {"SE", "PP"}
    BY <1>5 DEF Sets, ComdWrite, RdataRead, OnCourse, StatusHere, Idle
  <2>. QED BY <2>1, <2>2 DEF Changed
<1>6. Sets => pc \in RestPcs \/ pc \in {"rdsr", "rdata"}
  BY DEF Sets, RestPcs
<1>. QED BY <1>1, <1>2, <1>3, <1>4, <1>5, <1>6

LEMMA ChangedFeeds ==
  ASSUME TypeOK, LoopInv, Feed, Feeds
  PROVE  ~Changed /\ ~Changed'
<1>0. UNCHANGED comd /\ pc \in {"w_fill", "w_data"}
  BY DEF Feeds, WdataWrite
<1>1. CASE pc = "w_fill"
  BY <1>1 DEF Feeds, Changed, WaitPcs
<1>2. CASE pc = "w_data"
  BY <1>0, <1>2, DataWanted DEF Changed, WaitPcs
<1>. QED BY <1>0, <1>1, <1>2

LEMMA ChangedWire ==
  ASSUME TypeOK, LoopInv, OnCourse, Work, Wire
  PROVE  Changed' = Changed
<1>0. UNCHANGED driver /\ UNCHANGED pc /\ Enabled /\ Working
  BY DEF Wire, driver, Work
<1>1. CASE TakeWord
  <2>1. ~Changed
    BY <1>1 DEF TakeWord, Changed
  <2>2. CASE comd' = "PP"
    BY <2>1, <2>2 DEF Changed
  <2>3. CASE wip'.op = "PP"
    <3>1. wip' # NoWork
      BY <2>3 DEF NoWork, Idle
    <3>. QED BY <2>1, <3>1 DEF Changed
  <2>. QED BY <1>0, <1>1, <2>2, <2>3, WordTaken
<1>2. CASE SendWord \/ SendStatus
  <2>1. wip' = wip /\ comd \notin {"SE", "PP"} /\ comd' \notin {"SE", "PP"}
    BY <1>2 DEF SendWord, SendStatus, Idle
  <2>. QED BY <1>0, <2>1 DEF Changed
<1>3. CASE StartErase
  <2>1. comd = "SE" /\ wel /\ wip = NoWork
    BY <1>0, <1>3 DEF StartErase, Enabled, Working
  <2>2. wip' = [op |-> "SE", at |-> addr % MemSize, bytes |-> <<>>]
    BY <1>3, <2>1 DEF StartErase
  <2>3. wip' # NoWork
    BY <2>2 DEF NoWork, Idle
  <2>. QED BY <2>1, <2>3 DEF Changed
<1>. QED BY <1>1, <1>2, <1>3 DEF Wire

LEMMA AchievedSteps ==
  ASSUME TypeOK, LoopInv, OnCourse, Work, UNCHANGED <<program, req, before>>,
         Looks \/ Returns \/ Sets
  PROVE  Achieved'
<1>1. UNCHANGED <<cells, done, i, out>>
  BY DEF Looks, Returns, Sets, flash, CtrlWrite, ComdWrite, AddrWrite, DatnWrite, RdataRead
<1>2. pc # "idle" /\ Achieved
  BY DEF Looks, Returns, Sets, Work
<1>3. Changed' = Changed
  BY ChangedSteps
<1>4. Mark' = Mark
  BY <1>1, <1>3, MarkKept
<1>. QED BY <1>1, <1>2, <1>4, AchievedKept DEF Underway

LEMMA AchievedFeeds ==
  ASSUME TypeOK, LoopInv, Work, Feeds, UNCHANGED <<program, req, before>>
  PROVE  Achieved'
<1>1. /\ UNCHANGED <<cells, done, out, comd>> /\ pc \in {"w_fill", "w_data"}
      /\ req.f = "write" /\ pc # "idle" /\ Achieved
  BY DEF Feeds, WdataWrite, Work, LoopInv, WritePcs
<1>2. ~Changed /\ ~Changed'
  BY ChangedFeeds DEF Work
<1>3. Mark' = Mark
  BY <1>1, <1>2 DEF Mark
<1>. QED BY <1>1, <1>3 DEF Achieved, Underway, Written

\* The word that has come is put where it belongs.
LEMMA WordDelivered ==
  ASSUME TypeOK, LoopInv, OnCourse, Work, pc = "r_data"
  PROVE  \A k \in 0 .. req.count - 1 :
           k < done + WordBytes * i + WordBytes => Filled(Rdata)[k] = cells[req.offset + k]
<1>1. /\ req.f = "read" /\ req.offset \in Nat /\ req.count \in Nat
      /\ req.offset + req.count <= MemSize /\ done \in Nat /\ i \in Nat
  BY ReadFacts DEF ReadPcs
<1>2. rxfifo \in Seq(FlashWords) /\ rxfifo # <<>> /\ addr = req.offset + done
  BY DEF TypeOK, FlashTypeOK, OnCourse, Work, Queue
<1>3. Rdata = rxfifo[1] /\ 1 \in 1 .. Len(rxfifo)
  BY <1>2, EmptySeq, HeadTailProperties DEF Rdata
<1>4. \A b \in 1 .. WordBytes : Rdata[b] = cells[(addr + WordBytes * i + b - 1) % MemSize]
  <2>1. i + 1 - 1 = i
    BY <1>1
  <2>2. \A b \in 1 .. WordBytes :
          rxfifo[1][b] = cells[(addr + WordBytes * (i + 1 - 1) + b - 1) % MemSize]
    BY <1>3 DEF Work, Queue
  <2>. QED BY <1>3, <2>1, <2>2
<1>. DEFINE m == WordBytes * i
<1>5. m \in Nat
  BY <1>1, Sizes
<1>6. ASSUME NEW k \in 0 .. req.count - 1, k < done + m + WordBytes
      PROVE  Filled(Rdata)[k] = cells[req.offset + k]
  <2>0. k \in Cells /\ k \in Nat
    BY <1>1, Sizes DEF Cells
  <2>1. Filled(Rdata)[k] = IF k >= done /\ (k - done) \div WordBytes = i
                           THEN Rdata[((k - done) % WordBytes) + 1] ELSE out[k]
    BY <2>0 DEF Filled
  <2>2. CASE k < done + m
    <3>1. ~(k >= done /\ (k - done) \div WordBytes = i)
      <4>. SUFFICES ASSUME k >= done, (k - done) \div WordBytes = i PROVE FALSE
        OBVIOUS
      <4>. DEFINE d == k - done  u == d % WordBytes
      <4>1. d \in Nat
        BY <1>1, <2>0
      <4>2. d = WordBytes * (d \div WordBytes) + u /\ u \in 0 .. WordBytes - 1
        BY <4>1, Sizes, Divided
      <4>3. d = m + u
        BY <4>2
      <4>. HIDE DEF u, m
      <4>4. d >= m
        BY <4>2, <4>3, <1>5, Sizes
      <4>. QED BY <4>4, <2>2, <2>0, <1>1, <1>5
    <3>2. out[k] = cells[req.offset + k]
      BY <1>1, <2>2 DEF Work, Achieved, Underway, Delivered
    <3>. QED BY <2>1, <3>1, <3>2
  <2>3. CASE ~(k < done + m)
    <3>. DEFINE u == k - done - m
    <3>. HIDE DEF m
    <3>1. u \in 0 .. WordBytes - 1 /\ k - done = m + u /\ k >= done
      BY <2>3, <2>0, <1>6, <1>1, <1>5, Sizes
    <3>0. k = done + m + u
      BY <2>0, <1>1, <1>5
    <3>. HIDE DEF u
    <3>2. (WordBytes * i + u) \div WordBytes = i /\ (WordBytes * i + u) % WordBytes = u
      <4>1. i \in Nat /\ u \in 0 .. WordBytes - 1 /\ WordBytes \in Nat \ {0}
        BY <3>1, <1>1, Sizes
      <4>. QED BY <4>1, DividedOnce
    <3>3. (k - done) \div WordBytes = i /\ (k - done) % WordBytes = u
      BY <3>1, <3>2 DEF m
    <3>4. Filled(Rdata)[k] = Rdata[u + 1]
      BY <2>1, <3>1, <3>3
    <3>5. u + 1 \in 1 .. WordBytes
      BY <3>1, Sizes
    <3>6. addr + m + (u + 1) - 1 = req.offset + k
      BY <1>1, <1>2, <1>5, <3>0, <3>1
    <3>7. Rdata[u + 1] = cells[(req.offset + k) % MemSize]
      BY <1>4, <3>5, <3>6 DEF m
    <3>8. (req.offset + k) % MemSize = req.offset + k
      <4>. DEFINE x == req.offset + k
      <4>1. x \in 0 .. MemSize - 1
        BY <1>1, <2>0, Sizes
      <4>. HIDE DEF x
      <4>2. (MemSize * 0 + x) % MemSize = x /\ MemSize * 0 + x = x
        BY <4>1, Sizes, DividedOnce
      <4>. QED BY <4>2 DEF x
    <3>. QED BY <3>4, <3>7, <3>8
  <2>. QED BY <2>2, <2>3
<1>. QED BY <1>6

LEMMA AchievedGets ==
  ASSUME TypeOK, LoopInv, OnCourse, Work, Gets, UNCHANGED <<program, req, before>>
  PROVE  Achieved'
<1>1. /\ pc = "r_data" /\ UNCHANGED cells /\ out' = Filled(Rdata)
  BY DEF Gets, RdataRead
<1>2. /\ req.f = "read" /\ req.count \in Nat /\ done \in Nat /\ i \in Nat
      /\ Unit \in Nat /\ ReadWords \in Nat /\ Unit <= WordBytes * ReadWords
  BY <1>1, ReadFacts DEF ReadPcs
<1>. DEFINE m == WordBytes * i
<1>3. m \in Nat /\ WordBytes * (i + 1) = m + WordBytes
  BY <1>2, Sizes
<1>4. ASSUME NEW n \in Nat, n <= done + m + WordBytes
      PROVE  \A k \in 0 .. req.count - 1 : k < n => out'[k] = cells'[req.offset + k]
  <2>. TAKE k \in 0 .. req.count - 1
  <2>. HAVE k < n
  <2>1. k < done + m + WordBytes
    <3>. HIDE DEF m
    <3>. QED BY <1>2, <1>3, <1>4, Sizes
  <2>2. Filled(Rdata)[k] = cells[req.offset + k]
    BY <1>1, <2>1, WordDelivered
  <2>. QED BY <1>1, <2>2
<1>5. CASE i' = i + 1 /\ done' = done
  <2>1. (done + WordBytes * i)' = done + (m + WordBytes)
    BY <1>3, <1>5
  <2>2. done + (m + WordBytes) \in Nat /\ done + (m + WordBytes) <= done + m + WordBytes
    <3>. HIDE DEF m
    <3>. QED BY <1>2, <1>3, Sizes
  <2>3. Delivered(done + WordBytes * i)'
    BY <1>4, <2>1, <2>2 DEF Delivered
  <2>. QED BY <1>2, <2>3 DEF Achieved
<1>6. CASE ~(i + 1 < ReadWords) /\ NextUnit(done + Unit)
  <2>1. (done + WordBytes * i)' = done + Unit
    <3>1. done' = done + Unit /\ i' = 0
      BY <1>6 DEF NextUnit
    <3>2. (done + Unit) + WordBytes * 0 = done + Unit
      BY <1>2, Sizes
    <3>. QED BY <3>1, <3>2
  <2>2. Unit <= m + WordBytes
    <3>1. WordBytes * ReadWords <= WordBytes * (i + 1)
      BY <1>2, <1>6, Sizes, MultiplesKept
    <3>. DEFINE t == WordBytes * ReadWords
    <3>2. t \in Nat /\ Unit <= t /\ t <= m + WordBytes
      BY <3>1, <1>2, <1>3, Sizes
    <3>. HIDE DEF t, m
    <3>. QED BY <3>2, <1>2, <1>3, Sizes
  <2>3. done + Unit \in Nat /\ done + Unit <= done + m + WordBytes
    <3>. HIDE DEF m
    <3>. QED BY <2>2, <1>2, <1>3, Sizes
  <2>4. Delivered(done + WordBytes * i)'
    BY <1>4, <2>1, <2>3 DEF Delivered
  <2>. QED BY <1>2, <2>4 DEF Achieved
<1>. QED BY <1>5, <1>6 DEF Gets

LEMMA AchievedWire ==
  ASSUME TypeOK, LoopInv, OnCourse, Work, Wire
  PROVE  Achieved'
<1>1. /\ UNCHANGED driver /\ UNCHANGED <<program, pc, req, done, i, out, before, ret>>
      /\ Achieved /\ Enabled /\ Working /\ Feed
  BY DEF Wire, driver, Work
<1>2. UNCHANGED cells
  BY DEF Wire, TakeWord, SendWord, SendStatus, StartErase
<1>3. Changed' = Changed
  BY ChangedWire
<1>4. Mark' = Mark
  BY <1>1, <1>3, MarkKept
<1>. QED BY <1>1, <1>2, <1>4, AchievedKept DEF Underway

\* Of a sector every cell has the same number.
LEMMA SectorSpan ==
  ASSUME NEW w \in Nat \ {0}, NEW m \in Nat \ {0}, m % w = 0,
         NEW x \in Nat, x % w = 0, NEW c \in 0 .. w - 1
  PROVE  ((x + c) % m) \div w = (x % m) \div w
<1>. DEFINE s == x % m
<1>1. s % w = 0 /\ s + w <= m
  BY Nested
<1>2. PICK u \in Nat : x = m * u + s /\ s \in 0 .. m - 1
  <2>1. x \div m \in Nat /\ s \in 0 .. m - 1 /\ x = m * (x \div m) + s
    BY Divided
  <2>. QED BY <2>1, Zenon
<1>. HIDE DEF s
<1>3. PICK j \in Nat : s = w * j
  <2>1. s \div w \in Nat /\ s = w * (s \div w)
    BY <1>1, <1>2, Multiple
  <2>. QED BY <2>1, Zenon
<1>4. (x + c) % m = s + c
  <2>. DEFINE t == s + c
  <2>1. t \in 0 .. m - 1
    BY <1>1, <1>2
  <2>2. x + c = m * u + t
    <3>. DEFINE n == m * u
    <3>1. n \in Nat /\ x = n + s
      BY <1>2
    <3>. HIDE DEF n
    <3>2. x + c = n + (s + c)
      BY <3>1, <1>2
    <3>. QED BY <3>2 DEF n
  <2>. HIDE DEF t
  <2>3. (m * u + t) % m = t
    BY <2>1, <1>2, DividedOnce
  <2>. QED BY <2>2, <2>3 DEF t
<1>5. (w * j + c) \div w = j /\ (w * j) \div w = j
  BY DividedOnce, MultipleOf
<1>6. (s + c) \div w = s \div w
  BY <1>3, <1>5
<1>. QED BY <1>4, <1>6 DEF s

LEMMA SectorDone ==
  ASSUME TypeOK, LoopInv, pc \in WaitPcs, Wiped(done), SectorAtWork, FinishArray,
         UNCHANGED <<program, req, done>>
  PROVE  Wiped(done + Unit)'
<1>1. /\ req.from \in Nat /\ req.from % SectorSize = 0 /\ done \in Nat
      /\ done % SectorSize = 0 /\ Unit = SectorSize
  BY EraseFacts DEF SectorAtWork, UnitPcs
<1>. DEFINE x == req.from + done
<1>2. x \in Nat /\ x % SectorSize = 0
  BY <1>1, Sizes, MultiplesAdded
<1>3. wip.op = "SE" /\ wip.at = x % MemSize
  BY DEF SectorAtWork
<1>4. \A a \in Cells : Byte(a) = {}
  BY <1>3 DEF Byte
<1>5. \A a \in Cells : cells'[a] = IF Erasing(a) THEN Erased ELSE cells[a]
  BY <1>4 DEF FinishArray
<1>6. ASSUME NEW b \in req.from .. req.from + (done + SectorSize) - 1
      PROVE  cells'[b % MemSize] = Erased
  <2>1. b \in Nat /\ b % MemSize \in Cells
    <3>1. b \in Nat
      BY <1>1
    <3>. QED BY <3>1, Sizes, Divided DEF Cells
  <2>2. CASE b < x
    <3>1. b \in req.from .. req.from + done - 1
      BY <1>1, <2>1, <2>2
    <3>. QED BY <3>1, <2>1, <1>5 DEF Wiped
  <2>3. CASE ~(b < x)
    <3>. DEFINE c == b - x
    <3>1. c \in 0 .. SectorSize - 1 /\ b = x + c
      BY <1>1, <1>2, <2>1, <2>3, Sizes
    <3>. HIDE DEF c, x
    <3>2. ((x + c) % MemSize) \div SectorSize = (x % MemSize) \div SectorSize
      BY <3>1, <1>2, Sizes, SectorSpan
    <3>3. Erasing(b % MemSize)
      BY <3>1, <3>2, <1>3 DEF Erasing
    <3>. QED BY <3>3, <2>1, <1>5
  <2>. QED BY <2>2, <2>3
<1>7. /\ req'.from = req.from
      /\ (done + Unit)' = done + SectorSize
  BY <1>1, Framed
<1>. QED BY <1>6, <1>7 DEF Wiped

LEMMA PageDone ==
  ASSUME TypeOK, LoopInv, pc \in WaitPcs, Written(done), PageAtWork, FinishArray,
         UNCHANGED <<program, req, done, before>>
  PROVE  Written(done + Unit)'
<1>1. /\ req.f = "write" /\ req.offset \in Nat /\ req.count \in Nat /\ done \in Nat
      /\ req.offset + req.count <= MemSize /\ Unit \in Nat /\ pc \in UnitPcs
  BY WriteFacts DEF PageAtWork, UnitPcs
<1>. DEFINE x == req.offset + done
<1>2. /\ wip.op = "PP" /\ wip.at = x /\ DOMAIN wip.bytes = 1 .. Unit
      /\ \A k \in 1 .. Unit : wip.bytes[k] = Buffer(done + k - 1)
  <2>1. wip.bytes \in Seq(Bytes)
    BY DEF TypeOK, FlashTypeOK
  <2>. QED BY <2>1 DEF PageAtWork, BytesFrom
<1>3. \A k \in 1 .. Unit : Target(k) = x + k - 1
  BY <1>1, <1>2, NoWrap DEF Target
<1>4. \A a : Byte(a) = {k \in 1 .. Unit : x + k - 1 = a} /\ ~Erasing(a)
  BY <1>2, <1>3 DEF Byte, Erasing
<1>5. \A a \in Cells : cells'[a] =
        IF Byte(a) = {} THEN cells[a]
        ELSE Programmed(cells[a], wip.bytes[CHOOSE k \in Byte(a) : TRUE])
  BY <1>4 DEF FinishArray
<1>6. ASSUME NEW a \in req.offset .. req.offset + req.count - 1
      PROVE  IF a < req.offset + (done + Unit)
             THEN before[a] = Erased => cells'[a] = Buffer(a - req.offset)
             ELSE cells'[a] = before[a]
  <2>1. a \in Nat /\ a \in Cells
    BY <1>1, Sizes DEF Cells
  <2>2. CASE a < x \/ ~(a < x + Unit)
    <3>1. Byte(a) = {}
      BY <1>1, <1>4, <2>1, <2>2
    <3>2. cells'[a] = cells[a]
      BY <1>5, <2>1, <3>1
    <3>3. a < req.offset + (done + Unit) => a < req.offset + done
      BY <1>1, <2>1, <2>2
    <3>4. ~(a < req.offset + (done + Unit)) => ~(a < req.offset + done)
      BY <1>1, <2>1
    <3>. QED BY <3>2, <3>3, <3>4 DEF Written
  <2>3. CASE ~(a < x) /\ a < x + Unit
    <3>. DEFINE k == a - x + 1
    <3>1. k \in 1 .. Unit /\ x + k - 1 = a /\ done + k - 1 = a - req.offset
      BY <1>1, <2>1, <2>3
    <3>2. Byte(a) = {k}
      <4>1. \A n \in 1 .. Unit : x + n - 1 = a => n = k
        BY <1>1, <2>1
      <4>. HIDE DEF k
      <4>. QED BY <1>4, <3>1, <4>1
    <3>. HIDE DEF k
    <3>3. (CHOOSE n \in Byte(a) : TRUE) = k
      BY <3>2
    <3>4. cells[a] = before[a]
      BY <2>3 DEF Written
    <3>5. cells'[a] = Programmed(cells[a], wip.bytes[k])
      BY <1>5, <2>1, <3>2, <3>3
    <3>6. a < req.offset + (done + Unit)
      BY <1>1, <2>1, <2>3
    <3>. QED BY <1>2, <3>1, <3>4, <3>5, <3>6 DEF Programmed
  <2>. QED BY <2>2, <2>3
<1>7. /\ req'.offset = req.offset /\ req'.count = req.count /\ before' = before
      /\ (done + Unit)' = done + Unit
  BY Framed
<1>. QED BY <1>6, <1>7 DEF Written

\* What the flash has finished is the sector or the page of this turn.
LEMMA AchievedArray ==
  ASSUME TypeOK, LoopInv, Work, Array
  PROVE  Achieved'
<1>1. /\ wip # NoWork /\ wip' = NoWork /\ FinishArray
      /\ UNCHANGED <<program, pc, req, done, i, out, before, ret, comd>>
  BY DEF Array, FinishArray
<1>2. pc \in WaitPcs /\ comd \notin {"SE", "PP"} /\ (SectorAtWork \/ PageAtWork) /\ Achieved
  BY <1>1 DEF Work, Working
<1>3. Mark = done /\ Mark' = (done + Unit)' /\ Underway
  BY <1>1, <1>2 DEF Mark, Changed, Underway, WaitPcs
<1>4. CASE SectorAtWork
  <2>1. Wiped(done) /\ req.f = "erase"
    BY <1>2, <1>3, <1>4 DEF Achieved, SectorAtWork
  <2>2. Wiped(Mark)'
    BY <1>1, <1>2, <1>3, <1>4, <2>1, SectorDone DEF Wiped
  <2>. QED BY <1>1, <2>1, <2>2 DEF Achieved
<1>5. CASE PageAtWork
  <2>1. Written(done) /\ req.f = "write"
    BY <1>2, <1>3, <1>5 DEF Achieved, PageAtWork
  <2>2. Written(Mark)'
    BY <1>1, <1>2, <1>3, <1>5, <2>1, PageDone DEF Written
  <2>. QED BY <1>1, <2>1, <2>2 DEF Achieved
<1>. QED BY <1>2, <1>4, <1>5

LEMMA AchievedStep ==
  ASSUME TypeOK, LoopInv, OnCourse, Work, link = "up",
         \/ \E r \in Requests : Call(r)
         \/ /\ Looks \/ Turns \/ Returns \/ Sets \/ Feeds \/ Gets
            /\ UNCHANGED <<program, req, before>>
         \/ Wire \/ Array \/ UNCHANGED vars
  PROVE  Achieved'
<1>0. Achieved /\ Ended
  BY DEF Work
<1>1. CASE \E r \in Requests : Call(r)
  BY <1>1, AchievedCall
<1>2. CASE /\ Looks \/ Turns \/ Returns \/ Sets \/ Feeds \/ Gets
           /\ UNCHANGED <<program, req, before>>
  BY <1>0, <1>2, AchievedSteps, AchievedTurns, AchievedFeeds, AchievedGets
<1>3. CASE Wire
  BY <1>3, AchievedWire
<1>4. CASE Array
  BY <1>4, AchievedArray
<1>5. CASE UNCHANGED vars
  <2>1. UNCHANGED <<program, pc, req, done, i, out, before, ret, comd, wip, cells>>
    BY <1>5 DEF vars, flash, driver
  <2>2. Changed' = Changed
    BY <2>1 DEF Changed
  <2>. QED BY <1>0, <2>1, <2>2, MarkKept, AchievedKept DEF Underway
<1>. QED BY <1>1, <1>2, <1>3, <1>4, <1>5

-------------------------------------------------------------------------------
(* The theorem                                                             *)

LEMMA InitWork ==
  ASSUME Init
  PROVE  WorkInv
<1>1. /\ pc = "idle" /\ comd = Idle /\ txfifo = <<>> /\ wip = NoWork /\ cache = TRUE
      /\ ret = "none"
  BY DEF Init, FlashInit
<1>2. Enabled /\ Feed /\ Working
  BY <1>1 DEF Enabled, Feed, Working, WritePcs, FillPcs, SendPcs, Idle
<1>3. Queue /\ Achieved /\ Ended
  BY <1>1 DEF Queue, Achieved, Underway, Ended
<1>. QED BY <1>2, <1>3 DEF WorkInv, Work

LEMMA FeedStep ==
  ASSUME TypeOK, TypeOK', LoopInv, LoopInv', OnCourse, OnCourse', Work,
         \/ \E r \in Requests : Call(r)
         \/ (Looks \/ Turns \/ Returns \/ Sets \/ Feeds \/ Gets) /\ UNCHANGED <<program, req>>
         \/ Wire \/ Array \/ UNCHANGED vars
  PROVE  Feed'
<1>0. Feed
  BY DEF Work
<1>1. CASE \E r \in Requests : Call(r)
  BY <1>0, <1>1, FeedCall
<1>2. CASE Looks /\ UNCHANGED <<program, req>>
  BY <1>0, <1>2, FeedLooks
<1>3. CASE Turns \/ Returns \/ Gets
  BY <1>0, <1>3, FeedTurns, FeedReturns, FeedGets
<1>4. CASE Sets /\ UNCHANGED <<program, req>>
  BY <1>0, <1>4, FeedSets
<1>5. CASE Feeds /\ UNCHANGED <<program, req>>
  BY <1>0, <1>5, FeedFill, FeedData DEF Feeds
<1>6. CASE Wire
  BY <1>6, FeedWire
<1>7. CASE Array \/ UNCHANGED vars
  BY <1>0, <1>7, FeedStill
<1>. QED BY <1>1, <1>2, <1>3, <1>4, <1>5, <1>6, <1>7

LEMMA WorkStep ==
  ASSUME FlashInv, FlashInv', WorkInv, [Next]_vars
  PROVE  WorkInv'
<1>. SUFFICES ASSUME link' = "up" PROVE Work'
  BY DEF WorkInv
<1>1. /\ TypeOK /\ TypeOK' /\ LoopInv /\ LoopInv' /\ Course /\ OnCourse'
  BY DEF FlashInv, Course
<1>2. /\ link = "up"
      /\ \/ \E r \in Requests : Call(r)
         \/ /\ Looks \/ Turns \/ Returns \/ Sets \/ Feeds \/ Gets
            /\ UNCHANGED <<program, req, before>>
         \/ Wire \/ Array \/ UNCHANGED vars
  <2>1. CASE \E r \in Requests : Call(r)
    BY <2>1 DEF Call
  <2>2. CASE Steps
    BY <1>1, <2>2, UpSteps DEF TypeOK
  <2>3. CASE Wire \/ Array \/ UNCHANGED vars
    BY <2>3 DEF Wire, Array, vars, driver
  <2>. QED BY <2>1, <2>2, <2>3 DEF Next
<1>3. OnCourse /\ Work
  BY <1>1, <1>2 DEF Course, WorkInv
<1>4. \/ \E r \in Requests : Call(r)
      \/ (Looks \/ Turns \/ Returns \/ Sets \/ Feeds \/ Gets) /\ UNCHANGED <<program, req>>
      \/ Wire \/ Array \/ UNCHANGED vars
  BY <1>2
<1>5. Enabled'
  BY <1>1, <1>3, <1>4, EnabledStep
<1>6. Feed'
  BY <1>1, <1>3, <1>4, FeedStep
<1>7. Working' /\ Queue'
  BY <1>1, <1>3, <1>4, WorkingStep, QueueStep
<1>8. Achieved'
  BY <1>1, <1>2, <1>3, AchievedStep
<1>9. Ended'
  BY <1>1, <1>3, <1>4, EndedStep DEF Work
<1>. QED BY <1>5, <1>6, <1>7, <1>8, <1>9 DEF Work

LEMMA WorkDoes ==
  ASSUME FlashInv, WorkInv
  PROVE  OkMeansDone
<1>. SUFFICES ASSUME pc = "idle", ret = "ok", link = "up"
              PROVE  /\ comd = Idle /\ wip = NoWork /\ cache
                     /\ txfifo = <<>> /\ rxfifo = <<>>
                     /\ req.f = "erase" => \A a \in Region(req) : cells[a] = Erased
                     /\ req.f = "write" => \A a \in Region(req) :
                          before[a] = Erased => cells[a] = Buffer(a - req.offset)
                     /\ req.f = "read" => \A k \in 0 .. req.count - 1 : out[k] = cells[req.offset + k]
  BY DEF OkMeansDone, InCall
<1>1. Work /\ OnCourse /\ req \in Requests
  BY DEF FlashInv, WorkInv, Course, TypeOK
<1>2. comd = Idle /\ wip = NoWork /\ rxfifo = <<>>
  BY <1>1 DEF OnCourse, RestPcs
<1>3. txfifo = <<>> /\ cache
  BY <1>1 DEF Work, Feed, WritePcs, Ended
<1>4. req.f # "init" => done = Total /\ i = 0
  BY <1>1 DEF Work, Ended
<1>5. Mark = done /\ Underway /\ Achieved
  BY <1>1 DEF Work, Mark, Changed, WaitPcs, Underway
<1>6. ASSUME req.f = "erase", NEW a \in Region(req) PROVE cells[a] = Erased
  <2>1. Wiped(Total) /\ Total = Sectors(req) * SectorSize
    BY <1>4, <1>5, <1>6 DEF Achieved, Total
  <2>2. \E b \in req.from .. req.from + Total - 1 : a = b % MemSize
    BY <1>6, <2>1 DEF Region
  <2>. QED BY <2>1, <2>2 DEF Wiped
<1>7. ASSUME req.f = "write", NEW a \in Region(req), before[a] = Erased
      PROVE  cells[a] = Buffer(a - req.offset)
  <2>1. Written(req.count) /\ req.offset \in Nat /\ req.count \in Nat
    BY <1>1, <1>4, <1>5, <1>7, Asked DEF Achieved, Total
  <2>2. a \in req.offset .. req.offset + req.count - 1
    BY <1>7 DEF Region
  <2>3. a < req.offset + req.count
    BY <2>1, <2>2
  <2>. QED BY <1>7, <2>1, <2>2, <2>3 DEF Written
<1>8. ASSUME req.f = "read", NEW k \in 0 .. req.count - 1 PROVE out[k] = cells[req.offset + k]
  <2>1. req.count \in Nat /\ req.count + WordBytes * 0 = req.count
    BY <1>1, <1>8, Asked, Sizes
  <2>2. Delivered(req.count)
    BY <1>4, <1>5, <1>8, <2>1 DEF Achieved, Total
  <2>3. k < req.count
    BY <2>1
  <2>. QED BY <2>2, <2>3 DEF Delivered
<1>. QED BY <1>2, <1>3, <1>6, <1>7, <1>8

\* A call of flash_erase, flash_write or flash_read that returns 0 over a link
\* that works did its work, and left the controller and the flash at rest:
\* the loops over sectors, pages and words come to every byte of the call, no
\* word is lost between the buffer, the FIFOs and the flash, and the wait for
\* the command and for the status is long enough.
THEOREM OkMeansDoneHolds == Spec => []OkMeansDone
<1>1. Init => FlashInv /\ WorkInv
  BY InitInv, InitWork
<1>2. FlashInv /\ WorkInv /\ [Next]_vars => FlashInv' /\ WorkInv'
  BY NextInv, WorkStep
<1>3. FlashInv /\ WorkInv => OkMeansDone
  BY WorkDoes
<1>. QED BY <1>1, <1>2, <1>3, PTL DEF Spec

-------------------------------------------------------------------------------
\* The len cells from at on are what page n of call c, counted from 0, changes.
Page(c, n, at, len) ==
  /\ c.op = "write" /\ {n, c.at, c.count, at} \subseteq Nat /\ len \in Nat \ {0}
  /\ c.at + c.count <= MemSize
  /\ c.at <= at /\ at + len <= c.at + c.count
  /\ at \div PageSize = c.at \div PageSize + n /\ (at % PageSize) + len <= PageSize
  /\ at = c.at \/ at % PageSize = 0
  /\ at + len = c.at + c.count \/ (at + len) % PageSize = 0

Sector(c, n) == c.op = "erase" /\ {n, c.at, c.count} \subseteq Nat /\ n < c.count

\* The command on the wire is for unit n of call c ...
Carries(c, n) ==
  \/ comd = "SE" /\ Sector(c, n) /\ addr = c.at + n * SectorSize
  \/ /\ comd = "PP" /\ Page(c, n, addr, Count)
     /\ BytesFrom(latched, addr - c.at) /\ WordsFrom(txfifo, addr - c.at + Len(latched))

\* ... and the flash at work on it.
WorksOn(c, n) ==
  \/ wip.op = "SE" /\ Sector(c, n) /\ wip.at = (c.at + n * SectorSize) % MemSize
  \/ wip.op = "PP" /\ Page(c, n, wip.at, Len(wip.bytes)) /\ BytesFrom(wip.bytes, wip.at - c.at)

\* On a dead link there is no way from here to the end of the call.
HeldPcs == {"w_room", "w_data", "busy", "clear", "rdsr", "status"}

OwnInv ==
  /\ pc = "init" => req.f = "init"
  /\ late # NoCall => link = "down"
  /\ comd \in {"SE", "PP"} => /\ pc \in HeldPcs /\ wip = NoWork /\ late = NoCall
                              /\ Carries(Asking(req), units)
  /\ wip # NoWork => IF late = NoCall THEN pc # "idle" /\ WorksOn(Asking(req), units)
                                      ELSE WorksOn(late.call, late.unit)

\* The turn of the loop, counted from 0.
Turn == IF Changed THEN units - 1 ELSE units

Counted(n) ==
  /\ n \in Nat
  /\ req.f = "erase" => done = SectorSize * n
  /\ req.f = "write" =>
       IF done < Total THEN (req.offset + done) \div PageSize = req.offset \div PageSize + n
                       ELSE n = Flashed!Units(Asking(req))
  /\ req.f \notin {"erase", "write"} => n = 0

CountInv == link = "up" /\ pc # "idle" => Counted(Turn)

-------------------------------------------------------------------------------
(* Sectors and pages                                                       *)

LEMMA PageUnits ==
  ASSUME NEW c, NEW n, NEW at, NEW len, Page(c, n, at, len)
  PROVE  /\ Flashed!Units(c) \in Nat /\ n < Flashed!Units(c)
         /\ at + len = c.at + c.count => n + 1 = Flashed!Units(c)
<1>1. /\ c.op = "write" /\ n \in Nat /\ c.at \in Nat /\ c.count \in Nat /\ at \in Nat
      /\ len \in Nat \ {0} /\ c.at <= at /\ at + len <= c.at + c.count
      /\ at \div PageSize = c.at \div PageSize + n /\ (at % PageSize) + len <= PageSize
  BY DEF Page
<1>. DEFINE p == c.at % PageSize  r == at % PageSize
            q == PageSize * (c.at \div PageSize)  m == PageSize * n
            s == p + c.count + PageSize - 1
<1>2. /\ q \in Nat /\ p \in Nat /\ r \in Nat /\ m \in Nat
      /\ c.at = q + p /\ at = q + m + r
  <2>1. /\ c.at \div PageSize \in Nat /\ p \in 0 .. PageSize - 1
        /\ c.at = PageSize * (c.at \div PageSize) + p
    BY <1>1, Sizes, Divided
  <2>2. r \in 0 .. PageSize - 1 /\ at = PageSize * (at \div PageSize) + r
    BY <1>1, Sizes, Divided
  <2>3. PageSize * (c.at \div PageSize + n) = q + m /\ q \in Nat /\ m \in Nat
    BY <2>1, <1>1, Sizes
  <2>4. PageSize * (at \div PageSize) = q + m
    BY <2>3, <1>1
  <2>5. at = (q + m) + r
    BY <2>2, <2>4
  <2>6. p \in Nat /\ r \in Nat
    BY <2>1, <2>2, Sizes
  <2>. HIDE DEF p, r, q, m
  <2>. QED BY <2>3, <2>5, <2>6, <2>1 DEF q, p
<1>3. Flashed!Units(c) = s \div PageSize
  BY <1>1 DEF Flashed!Units
<1>4. s \in Nat
  BY <1>1, <1>2, Sizes
<1>5. PageSize * (n + 1) = m + PageSize
  BY <1>1, Sizes
<1>6. PageSize \in Nat \ {0} /\ r + len <= PageSize
  BY <1>1, Sizes
<1>. HIDE DEF p, r, q, m
<1>7. c.at \in Nat /\ c.count \in Nat /\ at \in Nat /\ len \in Nat \ {0} /\ at + len <= c.at + c.count
  BY <1>1
<1>8. m + PageSize <= s
  BY <1>2, <1>6, <1>7
<1>9. n + 1 <= s \div PageSize /\ s \div PageSize \in Nat
  <2>. DEFINE d == s \div PageSize  e == s % PageSize  f == PageSize * d
  <2>1. d \in Nat /\ e \in 0 .. PageSize - 1 /\ s = f + e
    BY <1>4, Sizes, Divided
  <2>2. f \in Nat
    BY <2>1, Sizes
  <2>. HIDE DEF d, e, s
  <2>3. PageSize * (n + 1) < PageSize * d + PageSize
    <3>. HIDE DEF f
    <3>1. PageSize * (n + 1) < f + PageSize
      BY <2>1, <2>2, <1>2, <1>5, <1>6, <1>8
    <3>. QED BY <3>1 DEF f
  <2>4. n + 1 <= d
    BY <2>1, <2>3, <1>1, Sizes, MultiplesBack
  <2>. QED BY <2>1, <2>4 DEF d
<1>10. ASSUME at + len = c.at + c.count PROVE n + 1 = s \div PageSize
  <2>. DEFINE u == r + len - 1
  <2>1. u \in 0 .. PageSize - 1
    BY <1>2, <1>6, <1>7
  <2>2. s = (m + PageSize) + u
    BY <1>2, <1>6, <1>7, <1>10
  <2>. HIDE DEF u, s
  <2>3. s = PageSize * (n + 1) + u
    BY <2>2, <1>5
  <2>4. (PageSize * (n + 1) + u) \div PageSize = n + 1
    <3>1. n + 1 \in Nat
      BY <1>1
    <3>. QED BY <3>1, <2>1, <1>6, DividedOnce
  <2>. QED BY <2>3, <2>4
<1>. QED BY <1>1, <1>3, <1>9, <1>10

\* The next page begins where one that is full ends.
LEMMA PageAfter ==
  ASSUME NEW c, NEW n, NEW at, NEW len, Page(c, n, at, len), (at + len) % PageSize = 0
  PROVE  (at + len) \div PageSize = c.at \div PageSize + (n + 1)
<1>1. /\ n \in Nat /\ c.at \in Nat /\ at \in Nat /\ len \in Nat \ {0}
      /\ at \div PageSize = c.at \div PageSize + n /\ (at % PageSize) + len <= PageSize
  BY DEF Page
<1>. DEFINE k == at \div PageSize  r == at % PageSize  q == PageSize * k
<1>2. k \in Nat /\ r \in 0 .. PageSize - 1 /\ at = q + r /\ q \in Nat
  <2>1. k \in Nat /\ r \in 0 .. PageSize - 1 /\ at = q + r
    BY <1>1, Sizes, Divided
  <2>. QED BY <2>1, Sizes
<1>3. c.at \div PageSize \in Nat
  BY <1>1, Sizes, Divided
<1>4. r + len = PageSize
  <2>. SUFFICES ASSUME r + len # PageSize PROVE FALSE
    OBVIOUS
  <2>. DEFINE y == r + len
  <2>. HIDE DEF r, q
  <2>1. y \in 1 .. PageSize - 1 /\ at + len = q + y
    BY <1>1, <1>2, Sizes DEF r
  <2>. HIDE DEF y
  <2>2. (PageSize * k + y) % PageSize = y
    <3>. HIDE DEF k
    <3>1. k \in Nat /\ PageSize \in Nat \ {0} /\ y \in 0 .. PageSize - 1
      BY <1>2, <2>1, Sizes
    <3>. QED BY <3>1, DividedOnce
  <2>3. (at + len) % PageSize = y
    BY <2>1, <2>2 DEF q
  <2>. QED BY <2>1, <2>3
<1>. HIDE DEF r, q
<1>5. PageSize * (k + 1) = q + PageSize /\ at + len = q + PageSize
  <2>1. PageSize * (k + 1) = q + PageSize
    <3>. HIDE DEF k
    <3>. QED BY <1>2, Sizes DEF q
  <2>. QED BY <2>1, <1>1, <1>2, <1>4
<1>6. (PageSize * (k + 1)) \div PageSize = k + 1
  <2>. HIDE DEF k
  <2>. QED BY <1>2, Sizes, MultipleOf
<1>7. k + 1 = c.at \div PageSize + (n + 1)
  BY <1>1, <1>3
<1>. QED BY <1>5, <1>6, <1>7

LEMMA PageCells ==
  ASSUME NEW c, NEW n, NEW at, NEW len, Page(c, n, at, len), NEW a \in Nat
  PROVE  (a \div PageSize = c.at \div PageSize + n /\ a >= c.at /\ a < c.at + c.count)
           <=> (at <= a /\ a < at + len)
<1>1. /\ n \in Nat /\ c.at \in Nat /\ c.count \in Nat /\ at \in Nat
      /\ len \in Nat \ {0} /\ c.at <= at /\ at + len <= c.at + c.count
      /\ at \div PageSize = c.at \div PageSize + n /\ (at % PageSize) + len <= PageSize
      /\ at = c.at \/ at % PageSize = 0
      /\ at + len = c.at + c.count \/ (at + len) % PageSize = 0
  BY DEF Page
<1>. DEFINE k == at \div PageSize  r == at % PageSize  q == PageSize * k
<1>2. k \in Nat /\ r \in 0 .. PageSize - 1 /\ at = q + r /\ q \in Nat
  <2>1. k \in Nat /\ r \in 0 .. PageSize - 1 /\ at = q + r
    BY <1>1, Sizes, Divided
  <2>. QED BY <2>1, Sizes
<1>3. \A x \in 0 .. PageSize - 1 : (q + x) \div PageSize = k /\ (q + x) % PageSize = x
  <2>. HIDE DEF k
  <2>1. k \in Nat /\ PageSize \in Nat \ {0}
    BY <1>2, Sizes
  <2>2. ASSUME NEW x \in 0 .. PageSize - 1
        PROVE  (PageSize * k + x) \div PageSize = k /\ (PageSize * k + x) % PageSize = x
    BY <2>1, DividedOnce
  <2>. QED BY <2>2
<1>. HIDE DEF r, q
<1>4. ASSUME at <= a, a < at + len
      PROVE  a \div PageSize = k /\ a >= c.at /\ a < c.at + c.count
  <2>. DEFINE x == r + (a - at)
  <2>1. x \in 0 .. PageSize - 1 /\ a = q + x
    BY <1>1, <1>2, <1>4, Sizes DEF r
  <2>. HIDE DEF x
  <2>. QED BY <2>1, <1>1, <1>3, <1>4
<1>5. ASSUME a \div PageSize = k, a >= c.at, a < c.at + c.count
      PROVE  at <= a /\ a < at + len
  <2>. DEFINE s == a % PageSize
  <2>1. s \in 0 .. PageSize - 1 /\ a = q + s
    <3>1. s \in 0 .. PageSize - 1 /\ a = PageSize * (a \div PageSize) + s
      BY Sizes, Divided
    <3>. QED BY <3>1, <1>5 DEF q
  <2>. HIDE DEF s
  <2>2. at <= a
    <3>1. CASE at = c.at
      BY <3>1, <1>5
    <3>2. CASE at % PageSize = 0
      BY <3>2, <2>1, <1>2 DEF r
    <3>. QED BY <1>1, <3>1, <3>2
  <2>3. a < at + len
    <3>1. CASE at + len = c.at + c.count
      BY <3>1, <1>5
    <3>2. CASE (at + len) % PageSize = 0
      <4>. SUFFICES ASSUME ~(a < at + len) PROVE FALSE
        OBVIOUS
      <4>. DEFINE y == r + len
      <4>1. y \in 1 .. PageSize - 1 /\ at + len = q + y
        BY <2>1, <1>1, <1>2, Sizes
      <4>. HIDE DEF y
      <4>2. (q + y) % PageSize = y
        BY <4>1, <1>3, Sizes
      <4>. QED BY <4>1, <4>2, <3>2
    <3>. QED BY <1>1, <3>1, <3>2
  <2>. QED BY <2>2, <2>3
<1>. QED BY <1>1, <1>4, <1>5

\* Byte k of what is programmed goes to the cell k - 1 places on.
LEMMA PageUnwrapped ==
  ASSUME NEW c, NEW n, NEW at, NEW len, Page(c, n, at, len), NEW k \in 1 .. len
  PROVE  PageOf(at) + ((at + k - 1) % PageSize) = at + k - 1
<1>1. at \in Nat /\ len \in Nat /\ (at % PageSize) + len <= PageSize
  BY DEF Page
<1>. DEFINE r == at % PageSize  q == PageSize * (at \div PageSize)  x == r + k - 1
<1>2. at \div PageSize \in Nat /\ r \in 0 .. PageSize - 1 /\ at = q + r /\ q \in Nat
  <2>1. at \div PageSize \in Nat /\ r \in 0 .. PageSize - 1 /\ at = q + r
    BY <1>1, Sizes, Divided
  <2>. QED BY <2>1, Sizes
<1>3. x \in 0 .. PageSize - 1
  BY <1>1, <1>2, Sizes
<1>4. (q + x) % PageSize = x
  BY <1>2, <1>3, Sizes, DividedOnce
<1>5. PageOf(at) = at - r
  BY DEF PageOf
<1>. HIDE DEF r, q
<1>6. at + k - 1 = q + x /\ at - r + x = at + k - 1
  BY <1>1, <1>2
<1>. QED BY <1>4, <1>5, <1>6

\* What the flash finishes is a sector or a page of the call, and all of it.
LEMMA UnitChanges ==
  ASSUME TypeOK, NEW c, NEW n, WorksOn(c, n), FinishArray
  PROVE  cells' = Flashed!After(c, n)
<1>1. cells' = [a \in Cells |->
         IF Erasing(a) THEN Erased
         ELSE IF Byte(a) = {} THEN cells[a]
         ELSE Programmed(cells[a], wip.bytes[CHOOSE k \in Byte(a) : TRUE])]
  BY DEF FinishArray
<1>2. CASE wip.op = "SE" /\ Sector(c, n) /\ wip.at = (c.at + n * SectorSize) % MemSize
  <2>1. \A a \in Cells : Byte(a) = {}
    BY <1>2 DEF Byte
  <2>2. \A a \in Cells :
          Erasing(a) <=> a \div SectorSize = ((c.at + n * SectorSize) % MemSize) \div SectorSize
    BY <1>2 DEF Erasing
  <2>3. cells' = [a \in Cells |->
           IF a \div SectorSize = ((c.at + n * SectorSize) % MemSize) \div SectorSize
           THEN Erased ELSE cells[a]]
    BY <1>1, <2>1, <2>2
  <2>. QED BY <1>2, <2>3 DEF Flashed!After, Flashed!Cells, Cells, Sector
<1>3. CASE /\ wip.op = "PP" /\ Page(c, n, wip.at, Len(wip.bytes))
           /\ BytesFrom(wip.bytes, wip.at - c.at)
  <2>. DEFINE at == wip.at  len == Len(wip.bytes)
              In(a) == a \div PageSize = c.at \div PageSize + n /\ a >= c.at /\ a < c.at + c.count
  <2>1. c.op = "write" /\ c.at \in Nat /\ at \in Nat /\ len \in Nat
    BY <1>3 DEF Page
  <2>2. DOMAIN wip.bytes = 1 .. len
    BY DEF TypeOK, FlashTypeOK
  <2>3. \A a : Byte(a) = {k \in 1 .. len : at + k - 1 = a} /\ ~Erasing(a)
    <3>1. \A k \in 1 .. len : Target(k) = at + k - 1
      BY <1>3, PageUnwrapped DEF Target
    <3>. QED BY <1>3, <2>2, <3>1 DEF Byte, Erasing
  <2>4. ASSUME NEW a \in Cells
        PROVE  cells'[a] = IF In(a) THEN Programmed(cells[a], Buffer(a - c.at)) ELSE cells[a]
    <3>1. a \in Nat /\ (In(a) <=> (at <= a /\ a < at + len))
      BY <1>3, Sizes, PageCells DEF Cells
    <3>. HIDE DEF In
    <3>2. CASE ~In(a)
      <4>1. Byte(a) = {}
        BY <2>1, <2>3, <3>1, <3>2
      <4>. QED BY <1>1, <2>3, <3>2, <4>1
    <3>3. CASE In(a)
      <4>. DEFINE k == a - at + 1
      <4>1. k \in 1 .. len /\ at + k - 1 = a /\ at - c.at + k - 1 = a - c.at
        BY <2>1, <3>1, <3>3
      <4>2. Byte(a) = {k}
        <5>1. \A j \in 1 .. len : at + j - 1 = a => j = k
          BY <2>1, <3>1
        <5>. HIDE DEF k
        <5>. QED BY <2>3, <4>1, <5>1
      <4>. HIDE DEF k
      <4>3. (CHOOSE j \in Byte(a) : TRUE) = k
        BY <4>2
      <4>4. wip.bytes[k] = Buffer(a - c.at)
        BY <1>3, <4>1 DEF BytesFrom
      <4>5. cells'[a] = Programmed(cells[a], wip.bytes[k])
        BY <1>1, <2>3, <4>2, <4>3
      <4>. QED BY <3>3, <4>4, <4>5
    <3>. QED BY <3>2, <3>3
  <2>5. cells' = [a \in Cells |-> IF In(a) THEN Programmed(cells[a], Buffer(a - c.at)) ELSE cells[a]]
    <3>. HIDE DEF In
    <3>1. cells' \in [Cells -> {cells'[a] : a \in Cells}]
      BY <1>1
    <3>. QED BY <2>4, <3>1
  <2>. QED BY <2>1, <2>5 DEF Flashed!After, Flashed!Cells, Cells
<1>. QED BY <1>2, <1>3 DEF WorksOn

-------------------------------------------------------------------------------
(* The count over a link that works                                        *)

\* The turn of the loop is about the page or the sector of its number.
LEMMA PageHere ==
  ASSUME TypeOK, LoopInv, req.f = "write", pc \in UnitPcs, NEW n, Counted(n)
  PROVE  Page(Asking(req), n, req.offset + done, Unit)
<1>1. /\ req \in Requests /\ done \in Nat /\ done < Total /\ AtUnit
  BY DEF TypeOK, LoopInv, UnitPcs
<1>2. /\ req.offset \in Nat /\ req.count \in Nat /\ Total = req.count
      /\ req.offset + req.count <= MemSize
  BY WriteFacts
<1>3. /\ Unit \in Nat \ {0} /\ done + Unit <= Total
      /\ ((req.offset + done) % PageSize) + Unit <= PageSize
      /\ done + Unit = Total \/ (req.offset + (done + Unit)) % PageSize = 0
  BY <1>1, PageUnit
<1>4. done = 0 \/ (req.offset + done) % PageSize = 0
  BY <1>1 DEF AtUnit
<1>5. n \in Nat /\ (req.offset + done) \div PageSize = req.offset \div PageSize + n
  BY <1>1 DEF Counted
<1>6. Asking(req) = [op |-> "write", at |-> req.offset, count |-> req.count]
  BY DEF Asking
<1>. DEFINE c == Asking(req)  at == req.offset + done  len == Unit
<1>7. c.op = "write" /\ c.at = req.offset /\ c.count = req.count
  BY <1>6
<1>8. /\ {n, c.at, c.count, at} \subseteq Nat /\ c.at + c.count <= MemSize
      /\ c.at <= at /\ at + len <= c.at + c.count
  BY <1>1, <1>2, <1>3, <1>5, <1>7
<1>9. /\ at = c.at \/ at % PageSize = 0
      /\ at + len = c.at + c.count \/ (at + len) % PageSize = 0
  <2>1. req.offset + (done + Unit) = at + len /\ (done + Unit = Total => at + len = c.at + c.count)
    BY <1>1, <1>2, <1>3, <1>7
  <2>2. done = 0 => at = c.at
    BY <1>2, <1>7
  <2>. QED BY <1>3, <1>4, <2>1, <2>2
<1>. QED BY <1>3, <1>5, <1>7, <1>8, <1>9 DEF Page

LEMMA SectorHere ==
  ASSUME TypeOK, LoopInv, req.f = "erase", pc \in UnitPcs, NEW n, Counted(n)
  PROVE  /\ Sector(Asking(req), n) /\ Asking(req).at = req.from
         /\ req.from + done = req.from + n * SectorSize
<1>1. /\ req \in Requests /\ done \in Nat /\ done < Total /\ n \in Nat /\ done = SectorSize * n
  BY DEF TypeOK, LoopInv, UnitPcs, Counted
<1>2. req.from \in Nat /\ Sectors(req) \in Nat /\ Total = Sectors(req) * SectorSize
  BY <1>1, Asked, SectorCount DEF Total
<1>3. n * SectorSize = SectorSize * n /\ Sectors(req) * SectorSize = SectorSize * Sectors(req)
  BY <1>1, <1>2, Sizes
<1>4. n < Sectors(req)
  BY <1>1, <1>2, <1>3, Sizes, MultiplesAhead
<1>5. Asking(req) = [op |-> "erase", at |-> req.from, count |-> Sectors(req)]
  BY DEF Asking
<1>. QED BY <1>1, <1>2, <1>3, <1>4, <1>5 DEF Sector

LEMMA CountFramed ==
  ASSUME CountInv, link' = "up" => link = "up", pc' # "idle" => pc # "idle",
         UNCHANGED <<req, done>>, Turn' = Turn
  PROVE  CountInv'
BY DEF CountInv, Counted, Total, Sectors, Asking

LEMMA CountCall ==
  ASSUME NEW r \in Requests, Call(r)
  PROVE  CountInv'
<1>1. req' = r /\ done' = 0 /\ units' = 0 /\ pc' \notin WaitPcs
  BY DEF Call, WaitPcs
<1>2. Turn' = 0
  BY <1>1 DEF Turn, Changed
<1>3. r.f = "erase" => 0 = SectorSize * 0
  BY Sizes
<1>4. ASSUME r.f = "write"
      PROVE  /\ (r.offset + 0) \div PageSize = r.offset \div PageSize + 0
             /\ Total' = r.count
             /\ ~(0 < r.count) => Flashed!Units(Asking(r)) = 0
  <2>1. r.offset \in Nat /\ r.count \in Nat
    BY <1>4, Asked
  <2>2. r.offset \div PageSize \in Nat
    BY <2>1, Sizes, Divided
  <2>3. r.offset + 0 = r.offset /\ r.offset \div PageSize + 0 = r.offset \div PageSize
    BY <2>1, <2>2
  <2>4. Asking(r) = [op |-> "write", at |-> r.offset, count |-> r.count]
    BY <1>4 DEF Asking
  <2>5. ~(0 < r.count) => Flashed!Units(Asking(r)) = 0
    BY <2>1, <2>4 DEF Flashed!Units
  <2>. QED BY <1>1, <1>4, <2>3, <2>5 DEF Total
<1>5. Asking(req)' = Asking(r)
  BY <1>1 DEF Asking, Sectors
<1>. QED BY <1>1, <1>2, <1>3, <1>4, <1>5 DEF CountInv, Counted

LEMMA CountTurns ==
  ASSUME TypeOK, LoopInv, OnCourse, Ended, link = "up", CountInv, Turns,
         UNCHANGED <<program, req, units>>
  PROVE  CountInv'
<1>1. pc' \notin WaitPcs /\ Turn' = units
  <2>1. pc' \notin WaitPcs
    BY NextUnitGoes DEF Turns, WaitPcs
  <2>. QED BY <2>1 DEF Turn, Changed
<1>2. CASE pc = "off" /\ NextUnit(0)
  <2>1. done = 0 /\ done' = 0 /\ Turn = units
    BY <1>2 DEF Ended, NextUnit, Turn, Changed, WaitPcs
  <2>. QED BY <1>1, <1>2, <2>1, CountFramed
<1>3. CASE pc = "clear_again" /\ ~wipbit /\ NextUnit(done + Unit)
  <2>. DEFINE n == units - 1
  <2>1. comd = Idle /\ wip = NoWork /\ pc \in UnitPcs /\ req.f \in {"erase", "write"}
    BY <1>3 DEF OnCourse, LoopInv, WaitPcs, UnitPcs
  <2>2. Turn = n
    BY <1>3, <2>1 DEF Turn, Changed, WaitPcs, Idle
  <2>3. Counted(n)
    BY <1>3, <2>2 DEF CountInv
  <2>4. n \in Nat /\ n + 1 = units
    <3>1. n \in Nat /\ units \in Nat
      BY <2>3 DEF Counted, TypeOK
    <3>. QED BY <3>1
  <2>5. done' = done + Unit
    BY <1>3 DEF NextUnit
  <2>6. UNCHANGED <<Total, Asking(req)>>
    BY DEF Total, Asking, Sectors
  <2>. HIDE DEF n
  <2>7. CASE req.f = "erase"
    <3>1. done = SectorSize * n /\ Unit = SectorSize
      BY <2>1, <2>3, <2>7, EraseFacts DEF Counted
    <3>2. SectorSize * (n + 1) = SectorSize * n + SectorSize
      BY <2>4, Sizes
    <3>3. done' = SectorSize * units
      BY <2>4, <2>5, <3>1, <3>2
    <3>. QED BY <1>1, <2>4, <2>7, <3>3 DEF CountInv, Counted
  <2>8. CASE req.f = "write"
    <3>1. Page(Asking(req), n, req.offset + done, Unit)
      BY <2>1, <2>3, <2>8, PageHere
    <3>2. /\ req.offset \in Nat /\ req.count \in Nat /\ Total = req.count /\ done \in Nat
          /\ Unit \in Nat /\ done + Unit <= req.count
      BY <2>1, <2>8, WriteFacts
    <3>3. Asking(req).at = req.offset /\ Asking(req).count = req.count
      BY <2>8 DEF Asking
    <3>4. req.offset + done + Unit = req.offset + done' /\ done' \in Nat /\ done' <= req.count
      BY <2>5, <3>2
    <3>5. CASE done' < Total
      <4>1. (req.offset + done + Unit) % PageSize = 0
        <5>1. req.offset + done + Unit # req.offset + req.count
          BY <3>2, <3>4, <3>5
        <5>. QED BY <3>1, <3>3, <5>1 DEF Page
      <4>2. (req.offset + done + Unit) \div PageSize = req.offset \div PageSize + (n + 1)
        BY <3>1, <3>3, <4>1, PageAfter
      <4>. QED BY <1>1, <2>4, <2>6, <2>8, <3>4, <3>5, <4>2 DEF CountInv, Counted
    <3>6. CASE ~(done' < Total)
      <4>1. req.offset + done + Unit = req.offset + req.count
        BY <3>2, <3>4, <3>6
      <4>2. n + 1 = Flashed!Units(Asking(req))
        BY <3>1, <3>3, <4>1, PageUnits
      <4>. QED BY <1>1, <2>4, <2>6, <2>8, <3>6, <4>2 DEF CountInv, Counted
    <3>. QED BY <3>5, <3>6
  <2>. QED BY <2>1, <2>7, <2>8
<1>. QED BY <1>2, <1>3 DEF Turns

LEMMA CountArray ==
  ASSUME TypeOK, Working, CountInv, link = "up", late = NoCall, Array
  PROVE  CountInv'
<1>1. /\ UNCHANGED <<pc, req, done, link, comd>> /\ units' = units + 1
      /\ wip # NoWork /\ wip' = NoWork
  BY DEF Array, FinishArray
<1>2. pc \in WaitPcs /\ comd \notin {"SE", "PP"} /\ units \in Nat
  BY <1>1 DEF Working, TypeOK
<1>3. ~Changed /\ Changed'
  BY <1>1, <1>2 DEF Changed
<1>4. Turn = units /\ Turn' = units' - 1
  BY <1>3 DEF Turn
<1>5. Turn' = Turn
  BY <1>1, <1>2, <1>4
<1>. QED BY <1>1, <1>5, CountFramed

LEMMA CountStep ==
  ASSUME FlashInv, WorkInv, OwnInv, CountInv, [Next]_vars
  PROVE  CountInv'
<1>1. TypeOK /\ LoopInv /\ Course /\ link \in {"up", "down"}
  BY DEF FlashInv, TypeOK
<1>2. CASE \E r \in Requests : Call(r)
  BY <1>2, CountCall
<1>3. CASE Steps
  <2>. SUFFICES ASSUME link' = "up" PROVE CountInv'
    BY DEF CountInv
  <2>1. /\ link = "up" /\ UNCHANGED <<program, req, before, units>> /\ pc # "idle"
        /\ Looks \/ Turns \/ Returns \/ Sets \/ Feeds \/ Gets
    BY <1>1, <1>3, UpSteps, StepsRegisters
  <2>2. OnCourse /\ Work /\ Feed /\ Ended
    BY <1>1, <2>1 DEF Course, WorkInv, Work
  <2>3. CASE Turns
    BY <1>1, <2>1, <2>2, <2>3, CountTurns
  <2>4. CASE Looks \/ Returns \/ Sets \/ Feeds
    <3>1. Changed' = Changed
      <4>1. CASE Looks \/ Returns \/ Sets
        BY <2>2, <4>1, ChangedSteps
      <4>2. CASE Feeds
        <5>1. ~Changed /\ ~Changed'
          BY <1>1, <2>2, <4>2, ChangedFeeds
        <5>. QED BY <5>1 DEF Changed
      <4>. QED BY <2>4, <4>1, <4>2
    <3>2. done' = done
      BY <2>4 DEF Looks, Returns, Sets, Feeds
    <3>3. Turn' = Turn
      BY <2>1, <3>1 DEF Turn
    <3>. QED BY <2>1, <3>2, <3>3, CountFramed
  <2>5. CASE Gets
    <3>1. pc = "r_data" /\ pc' \notin WaitPcs
      BY <2>5, NextUnitGoes DEF Gets, WaitPcs
    <3>2. req.f = "read" /\ Turn = units /\ Turn' = units
      BY <1>1, <2>1, <3>1 DEF LoopInv, ReadPcs, Turn, Changed, WaitPcs
    <3>. QED BY <2>1, <3>2 DEF CountInv, Counted
  <2>. QED BY <2>1, <2>3, <2>4, <2>5
<1>4. CASE Wire
  <2>1. UNCHANGED <<pc, req, done, link, units>>
    BY <1>4 DEF Wire, driver
  <2>2. ASSUME link = "up" PROVE CountInv'
    <3>1. Changed' = Changed
      BY <1>1, <1>4, <2>2, ChangedWire DEF Course, WorkInv
    <3>2. Turn' = Turn
      BY <2>1, <3>1 DEF Turn
    <3>. QED BY <2>1, <3>2, CountFramed
  <2>. QED BY <2>1, <2>2 DEF CountInv
<1>5. CASE Array
  <2>1. link' = link
    BY <1>5 DEF Array
  <2>2. ASSUME link = "up" PROVE CountInv'
    BY <1>1, <1>5, <2>2, CountArray DEF WorkInv, Work, OwnInv
  <2>. QED BY <2>1, <2>2 DEF CountInv
<1>6. CASE UNCHANGED vars
  <2>1. UNCHANGED <<pc, req, done, link, units, comd, wip>>
    BY <1>6 DEF vars, flash, driver
  <2>2. Turn' = Turn
    BY <2>1 DEF Turn, Changed
  <2>. QED BY <2>1, <2>2, CountFramed
<1>. QED BY <1>2, <1>3, <1>4, <1>5, <1>6 DEF Next

-------------------------------------------------------------------------------
(* What is on the wire and under way belongs to the call                   *)

LEMMA CarriesFramed ==
  ASSUME UNCHANGED <<req, units, comd, addr, datn, latched, txfifo>>
  PROVE  Carries(Asking(req), units)' = Carries(Asking(req), units)
BY DEF Carries, Page, Sector, Count, BytesFrom, WordsFrom, Asking, Sectors

LEMMA WorksOnFramed ==
  ASSUME UNCHANGED <<req, units, wip, late>>
  PROVE  /\ WorksOn(Asking(req), units)' = WorksOn(Asking(req), units)
         /\ WorksOn(late.call, late.unit)' = WorksOn(late.call, late.unit)
BY DEF WorksOn, Page, Sector, BytesFrom, Asking, Sectors

LEMMA WorksOnChanges ==
  ASSUME NEW n, WorksOn(Asking(req), n)
  PROVE  req.f \in {"erase", "write"} /\ Asking(req).op = req.f
BY DEF WorksOn, Page, Sector, Asking

\* A call goes on from every access but two, and no access is left for init.
LEMMA StepsGo ==
  ASSUME Steps, link \in {"up", "down"}
  PROVE  \/ Initialise /\ UNCHANGED late
         \/ CacheOn
         \/ pc' \notin {"idle", "init"} /\ UNCHANGED <<late, ret>> /\ pc \notin {"init", "on"}
<1>1. CASE Initialise
  BY <1>1 DEF Initialise, Rest
<1>2. CASE ClearInts \/ CacheOff
  <2>1. pc' \notin {"idle", "init"} /\ UNCHANGED ret
    BY <1>2, NextUnitGoes DEF ClearInts, CacheOff, NextUnit, Goto
  <2>. QED BY <1>2, <2>1 DEF ClearInts, CacheOff, Rest
<1>3. CASE CacheOn
  BY <1>3
<1>4. CASE WaitCommand \/ AskStatus
  BY <1>4 DEF WaitCommand, AskStatus, Rest, Goto
<1>5. CASE WaitReceived \/ WaitReceivedZero \/ ReadStatus
  BY <1>5 DEF WaitReceived, WaitReceivedZero, ReadStatus, Rest, Goto
<1>6. CASE flash_erase
  BY <1>6 DEF flash_erase, EraseEnable, EraseAddress, EraseCommand, Rest, Goto
<1>7. CASE WriteFill \/ WriteAddress \/ WriteLength \/ WriteEnable
  BY <1>7 DEF WriteFill, WriteAddress, WriteLength, WriteEnable, Rest, Goto
<1>8. CASE WriteCommand \/ WaitRoom \/ WriteWord
  BY <1>8 DEF WriteCommand, WaitRoom, WriteWord, MoreWords, Rest, Goto
<1>9. CASE ReadAddress \/ ReadLength \/ ReadCommand
  BY <1>9 DEF ReadAddress, ReadLength, ReadCommand, Rest, Goto
<1>10. CASE ReadWord
  <2>1. pc' \notin {"idle", "init"} /\ UNCHANGED ret
    BY <1>10, NextUnitGoes DEF ReadWord, NextUnit, Goto
  <2>. QED BY <1>10, <2>1 DEF ReadWord
<1>. QED BY <1>1, <1>2, <1>3, <1>4, <1>5, <1>6, <1>7, <1>8, <1>9, <1>10
         DEF Steps, Shared, flash_write, flash_read

LEMMA StepsAtCommand ==
  ASSUME Steps
  PROVE  (pc = "e_comd" => EraseCommand) /\ (pc = "w_comd" => WriteCommand)
<1>1. Shared => pc \notin {"e_comd", "w_comd"}
  BY DEF Shared, Initialise, ClearInts, CacheOff, CacheOn, WaitCommand, AskStatus, WaitReceived,
         WaitReceivedZero, ReadStatus
<1>2. EraseEnable \/ EraseAddress \/ flash_read => pc \notin {"e_comd", "w_comd"}
  BY DEF EraseEnable, EraseAddress, flash_read, ReadAddress, ReadLength, ReadCommand, ReadWord
<1>3. WriteFill \/ WriteAddress \/ WriteLength \/ WriteEnable \/ WaitRoom \/ WriteWord
        => pc \notin {"e_comd", "w_comd"}
  BY DEF WriteFill, WriteAddress, WriteLength, WriteEnable, WaitRoom, WriteWord
<1>. QED BY <1>1, <1>2, <1>3 DEF Steps, flash_erase, flash_write, EraseCommand, WriteCommand

\* A unit that is left under way can be told from no call.
LEMMA Recorded ==
  ASSUME req \in Requests, units \in Nat
  PROVE  /\ [call |-> Asking(req), unit |-> units] # NoCall
         /\ Asking(req) # NoCall
BY NoCallAssumption

LEMMA HeldStays ==
  ASSUME TypeOK, Course, comd \in {"SE", "PP"}, pc \in HeldPcs, Steps
  PROVE  pc' \in HeldPcs
<1>1. pc = "status" => link = "down"
  BY DEF TypeOK, Course, OnCourse, StatusHere, Idle
<1>2. CASE ClearInts \/ AskStatus
  BY <1>2 DEF ClearInts, AskStatus, HeldPcs, Goto
<1>3. CASE WaitCommand
  BY <1>3 DEF WaitCommand, HeldPcs, Goto
<1>4. CASE WaitReceived
  BY <1>1, <1>4 DEF WaitReceived, Loaded, HeldPcs, Goto
<1>5. CASE WaitReceivedZero
  BY <1>5 DEF WaitReceivedZero, HeldPcs, Goto
<1>6. CASE WaitRoom \/ WriteWord
  BY <1>6 DEF WaitRoom, WriteWord, MoreWords, HeldPcs, Goto
<1>7. CASE Initialise \/ CacheOff \/ CacheOn \/ ReadStatus
  BY <1>7 DEF Initialise, CacheOff, CacheOn, ReadStatus, HeldPcs
<1>8. CASE flash_erase \/ flash_read
  BY <1>8 DEF flash_erase, EraseEnable, EraseAddress, EraseCommand, flash_read, ReadAddress,
              ReadLength, ReadCommand, ReadWord, HeldPcs
<1>9. CASE WriteFill \/ WriteAddress \/ WriteLength \/ WriteEnable \/ WriteCommand
  BY <1>9 DEF WriteFill, WriteAddress, WriteLength, WriteEnable, WriteCommand, HeldPcs
<1>. QED BY <1>2, <1>3, <1>4, <1>5, <1>6, <1>7, <1>8, <1>9
         DEF Steps, Shared, flash_write

\* The words that follow those sent are put behind them.
LEMMA CarriesFed ==
  ASSUME TypeOK, LoopInv, Work, comd = "PP", pc = "w_data", Carries(Asking(req), units),
         WdataWrite(BufferWord(i)), UNCHANGED <<req, units>>
  PROVE  Carries(Asking(req), units)'
<1>1. Programming /\ Len(txfifo) < TxDepth
  BY DEF Work, Feed
<1>2. /\ req.f = "write" /\ Asking(req).at = req.offset /\ addr = req.offset + done
      /\ Len(latched) + WordBytes * Len(txfifo) = WordBytes * i
  BY <1>1 DEF Programming, Asking
<1>3. /\ i \in Nat /\ req.offset \in Nat /\ done \in Nat
  BY <1>2, WriteFacts DEF UnitPcs, WritePcs
<1>4. /\ txfifo \in Seq(FlashWords) /\ latched \in Seq(Bytes) /\ BufferWord(i) \in FlashWords
      /\ Len(txfifo) \in Nat /\ Len(latched) \in Nat
  BY BufferTyped DEF TypeOK, FlashTypeOK
<1>5. txfifo' = Append(txfifo, BufferWord(i)) /\ UNCHANGED <<comd, addr, datn, latched>>
  BY <1>1 DEF WdataWrite
<1>. DEFINE n == addr - Asking(req).at + Len(latched)
<1>6. n = done + Len(latched) /\ n \in Nat
  BY <1>2, <1>3, <1>4
<1>7. n + WordBytes * Len(txfifo) = done + WordBytes * i
  <2>. DEFINE a == WordBytes * Len(txfifo)  b == WordBytes * i
  <2>1. a \in Nat /\ b \in Nat /\ Len(latched) + a = b
    BY <1>2, <1>3, <1>4, Sizes
  <2>. HIDE DEF a, b, n
  <2>2. n + a = done + b
    BY <2>1, <1>3, <1>4, <1>6
  <2>. QED BY <2>2 DEF a, b
<1>8. WordsFrom(txfifo, n)
  BY DEF Carries
<1>9. BytesFrom(BufferWord(i), n + WordBytes * Len(txfifo))
  BY <1>7, WordFollows
<1>. HIDE DEF n
<1>10. WordsFrom(Append(txfifo, BufferWord(i)), n)
  BY <1>4, <1>6, <1>8, <1>9, WordsAppended
<1>11. /\ Page(Asking(req), units, addr, Count) /\ BytesFrom(latched, addr - Asking(req).at)
  BY DEF Carries
<1>12. UNCHANGED <<Asking(req), Count>>
  BY <1>5 DEF Asking, Sectors, Count
<1>13. n' = n
  BY <1>5, <1>12 DEF n
<1>14. WordsFrom(txfifo, n)'
  BY <1>5, <1>10, <1>13 DEF WordsFrom, BytesFrom
<1>15. Page(Asking(req), units, addr, Count)'
  BY <1>5, <1>11, <1>12 DEF Page
<1>16. BytesFrom(latched, addr - Asking(req).at)'
  BY <1>5, <1>11, <1>12 DEF BytesFrom
<1>. QED BY <1>5, <1>14, <1>15, <1>16 DEF Carries, n

\* The command is written for the sector or the page of this turn.
LEMMA CarriesBegun ==
  ASSUME TypeOK, LoopInv, OnCourse, Work, link = "up", CountInv, UNCHANGED <<req, units>>,
         (pc = "e_comd" /\ ComdWrite("SE")) \/ (pc = "w_comd" /\ ComdWrite("PP"))
  PROVE  Carries(Asking(req), units)'
<1>1. /\ comd = Idle /\ pc \in UnitPcs /\ Counted(units)
  BY DEF OnCourse, RestPcs, UnitPcs, ErasePcs, WritePcs, CountInv, Turn, Changed, WaitPcs
<1>2. UNCHANGED <<addr, datn, txfifo, Count, Asking(req)>> /\ latched' = <<>>
  BY <1>1 DEF ComdWrite, Count, Asking, Sectors
<1>3. CASE pc = "e_comd" /\ ComdWrite("SE")
  <2>1. comd' = "SE" /\ addr = req.from + done /\ req.f = "erase"
    BY <1>1, <1>3 DEF ComdWrite, OnCourse, LoopInv, ErasePcs
  <2>2. Sector(Asking(req), units) /\ addr = Asking(req).at + units * SectorSize
    BY <1>1, <2>1, SectorHere
  <2>. QED BY <1>2, <2>1, <2>2 DEF Carries, Sector
<1>4. CASE pc = "w_comd" /\ ComdWrite("PP")
  <2>1. /\ comd' = "PP" /\ addr = req.offset + done /\ datn = Unit - 1 /\ req.f = "write"
        /\ WordsFrom(txfifo, done)
    BY <1>1, <1>4 DEF ComdWrite, OnCourse, LoopInv, WritePcs, Work, Feed, FillPcs
  <2>2. Page(Asking(req), units, req.offset + done, Unit)
    BY <1>1, <2>1, PageHere
  <2>3. req.offset \in Nat /\ done \in Nat /\ Unit \in 1 .. PageSize
    BY <1>1, <2>1, WriteFacts
  <2>4. Count = Unit /\ Asking(req).at = req.offset
    BY <2>1, <2>3, Sizes DEF Count, Asking
  <2>5. addr - Asking(req).at = done /\ done + Len(<<>>) = done
    BY <2>1, <2>3, <2>4
  <2>6. /\ Page(Asking(req), units, addr, Count)
        /\ WordsFrom(txfifo, addr - Asking(req).at + Len(<<>>))
    BY <2>1, <2>2, <2>4, <2>5
  <2>7. WordsFrom(txfifo, addr - Asking(req).at + Len(latched))'
    BY <1>2, <2>6 DEF WordsFrom, BytesFrom
  <2>8. BytesFrom(latched, addr - Asking(req).at)'
    BY <1>2 DEF BytesFrom
  <2>9. Page(Asking(req), units, addr, Count)'
    BY <1>2, <2>6 DEF Page
  <2>. QED BY <2>1, <2>7, <2>8, <2>9 DEF Carries
<1>. QED BY <1>3, <1>4

LEMMA OwnSteps ==
  ASSUME FlashInv, WorkInv, OwnInv, CountInv, Steps
  PROVE  OwnInv'
<1>1. /\ TypeOK /\ LoopInv /\ Course /\ link \in {"up", "down"} /\ req \in Requests /\ units \in Nat
  BY DEF FlashInv, TypeOK
<1>2. /\ RegisterOp /\ link' \in {"up", "down"} /\ (link' = "up" => link = "up")
      /\ pc # "idle" /\ UNCHANGED <<req, units>>
  BY <1>1, StepsRegisters
<1>3. \/ Initialise /\ UNCHANGED late
      \/ CacheOn
      \/ pc' \notin {"idle", "init"} /\ UNCHANGED late /\ pc \notin {"init", "on"}
  BY <1>1, StepsGo
<1>4. UNCHANGED wip
  BY <1>2 DEF RegisterOp, flash, CtrlWrite, AddrWrite, DatnWrite, ComdWrite, WdataWrite, RdataRead
<1>5. link = "up" => OnCourse /\ Work /\ late = NoCall
  BY DEF OwnInv, WorkInv, FlashInv, Course
<1>6. pc' # "init"
  BY <1>3 DEF Initialise, CacheOn
<1>7. late' # NoCall => link' = "down"
  <2>1. CASE CacheOn
    <3>1. link = "up" => wip = NoWork
      BY <1>5, <2>1 DEF CacheOn, OnCourse, RestPcs
    <3>. QED BY <1>1, <1>2, <1>5, <2>1, <3>1 DEF CacheOn
  <2>2. CASE UNCHANGED late
    BY <1>1, <1>2, <1>5, <2>2
  <2>. QED BY <1>3, <2>1, <2>2
<1>8. ASSUME comd' \in {"SE", "PP"}
      PROVE  pc' \in HeldPcs /\ wip' = NoWork /\ late' = NoCall /\ Carries(Asking(req), units)'
  <2>1. CASE comd \in {"SE", "PP"}
    <3>1. pc \in HeldPcs /\ wip = NoWork /\ late = NoCall /\ Carries(Asking(req), units)
      BY <2>1 DEF OwnInv
    <3>2. pc' \in HeldPcs
      BY <1>1, <2>1, <3>1, HeldStays
    <3>3. late' = late
      BY <1>3, <3>1 DEF CacheOn, HeldPcs
    <3>4. ASSUME UNCHANGED flash PROVE Carries(Asking(req), units)'
      BY <1>2, <3>1, <3>4, CarriesFramed DEF flash
    <3>5. ASSUME ~UNCHANGED flash PROVE Carries(Asking(req), units)'
      <4>1. link = "up"
        BY <1>2, <3>5 DEF RegisterOp
      <4>2. pc \in SendPcs
        BY <1>1, <1>5, <2>1, <4>1, CommandAt
      <4>3. pc = "w_data" /\ WdataWrite(BufferWord(i))
        BY <1>2, <3>5, <4>2 DEF RegisterOp, SendPcs
      <4>4. comd = "PP"
        BY <1>1, <1>5, <4>1, <4>3, DataWanted DEF Work
      <4>. QED BY <1>1, <1>2, <1>5, <3>1, <4>1, <4>3, <4>4, CarriesFed
    <3>. QED BY <1>4, <3>1, <3>2, <3>3, <3>4, <3>5
  <2>2. CASE comd \notin {"SE", "PP"}
    <3>1. link = "up" /\ ((pc = "e_comd" /\ ComdWrite("SE")) \/ (pc = "w_comd" /\ ComdWrite("PP")))
      BY <1>2, <1>8, <2>2
      DEF RegisterOp, flash, CtrlWrite, AddrWrite, DatnWrite, ComdWrite, WdataWrite, RdataRead
    <3>2. wip = NoWork /\ late = NoCall
      BY <1>5, <3>1 DEF OnCourse, RestPcs
    <3>3. pc' \in HeldPcs /\ late' = late
      <4>1. EraseCommand \/ WriteCommand
        BY <3>1, StepsAtCommand
      <4>. QED BY <4>1 DEF EraseCommand, WriteCommand, MoreWords, Goto, Rest, HeldPcs
    <3>4. Carries(Asking(req), units)'
      BY <1>1, <1>2, <1>5, <3>1, CarriesBegun
    <3>. QED BY <1>4, <3>2, <3>3, <3>4
  <2>. QED BY <2>1, <2>2
<1>9. ASSUME wip' # NoWork
      PROVE  IF late' = NoCall THEN pc' # "idle" /\ WorksOn(Asking(req), units)'
                               ELSE WorksOn(late.call, late.unit)'
  <2>1. IF late = NoCall THEN WorksOn(Asking(req), units) ELSE WorksOn(late.call, late.unit)
    BY <1>4, <1>9 DEF OwnInv
  <2>2. CASE UNCHANGED late
    <3>1. IF late' = NoCall THEN WorksOn(Asking(req), units)' ELSE WorksOn(late.call, late.unit)'
      BY <1>2, <1>4, <2>1, <2>2, WorksOnFramed
    <3>2. ASSUME late' = NoCall PROVE pc' # "idle"
      <4>1. req.f # "init"
        BY <2>1, <2>2, <3>2, WorksOnChanges
      <4>2. pc # "init"
        BY <4>1 DEF OwnInv
      <4>3. ~CacheOn
        BY <1>1, <1>4, <1>9, <2>2, <3>2, Recorded DEF CacheOn
      <4>. QED BY <1>3, <4>2, <4>3 DEF Initialise
    <3>. QED BY <3>1, <3>2
  <2>3. CASE CacheOn /\ ~UNCHANGED late
    <3>1. late = NoCall /\ late' = [call |-> Asking(req), unit |-> units]
      BY <2>3 DEF CacheOn
    <3>2. late' # NoCall
      BY <1>1, <3>1, Recorded
    <3>3. late'.call = Asking(req) /\ late'.unit = units
      BY <3>1
    <3>4. WorksOn(Asking(req), units)
      BY <2>1, <3>1
    <3>5. WorksOn(late.call, late.unit)'
      BY <1>4, <3>3, <3>4 DEF WorksOn, Page, Sector, BytesFrom
    <3>. QED BY <3>2, <3>5
  <2>. QED BY <1>3, <2>2, <2>3
<1>. QED BY <1>6, <1>7, <1>8, <1>9 DEF OwnInv

LEMMA SmallMod ==
  ASSUME NEW x \in 0 .. MemSize - 1
  PROVE  x % MemSize = x
<1>1. (MemSize * 0 + x) % MemSize = x
  BY Sizes, DividedOnce
<1>2. MemSize * 0 + x = x
  BY Sizes
<1>. QED BY <1>1, <1>2

\* The flash takes the next word of the page, and with the last one all of it.
LEMMA CarriedWord ==
  ASSUME TypeOK, TakeWord, NEW c, NEW n, Carries(c, n)
  PROVE  \/ comd' = "PP" /\ UNCHANGED wip
            /\ BytesFrom(latched', addr - c.at)
            /\ WordsFrom(txfifo', addr - c.at + Len(latched'))
         \/ /\ comd' = Idle
            /\ \/ UNCHANGED wip
               \/ wip'.op = "PP" /\ wip'.at = addr /\ Len(wip'.bytes) = Count
                  /\ BytesFrom(wip'.bytes, addr - c.at)
<1>1. comd = "PP" /\ txfifo # <<>>
  BY DEF TakeWord
<1>2. /\ Page(c, n, addr, Count)
      /\ BytesFrom(latched, addr - c.at) /\ WordsFrom(txfifo, addr - c.at + Len(latched))
  BY <1>1 DEF Carries
<1>3. /\ c.at \in Nat /\ c.count \in Nat /\ addr \in Nat /\ Count \in Nat \ {0}
      /\ c.at <= addr /\ addr + Count <= c.at + c.count /\ c.at + c.count <= MemSize
  BY <1>2 DEF Page
<1>. DEFINE m == addr - c.at
<1>4. m \in Nat
  BY <1>3
<1>5. latched \in Seq(Bytes) /\ txfifo \in Seq(FlashWords) /\ Len(latched) \in Nat
  BY DEF TypeOK, FlashTypeOK
<1>. HIDE DEF m
<1>6. BytesFrom(latched, m) /\ WordsFrom(txfifo, m + Len(latched)) /\ m + Len(latched) \in Nat
  BY <1>2, <1>4, <1>5 DEF m
<1>7. /\ Head(txfifo) \in FlashWords /\ BytesFrom(Head(txfifo), m + Len(latched))
      /\ WordsFrom(Tail(txfifo), m + Len(latched) + WordBytes)
  BY <1>1, <1>5, <1>6, WordsTaken
<1>. DEFINE joined == latched \o Head(txfifo)
<1>8. /\ joined \in Seq(Bytes) /\ Len(joined) = Len(latched) + WordBytes
      /\ BytesFrom(joined, m)
  BY <1>4, <1>5, <1>6, <1>7, BytesJoined
<1>. HIDE DEF joined
<1>. DEFINE bytes == Prefix(joined, Count)
<1>9. /\ latched' = bytes /\ txfifo' = Tail(txfifo)
      /\ comd' = IF Len(bytes) = Count THEN Idle ELSE "PP"
      /\ wip' = IF Len(bytes) = Count /\ wel /\ wip = NoWork
                THEN [op |-> "PP", at |-> addr % MemSize, bytes |-> bytes] ELSE wip
  BY DEF TakeWord, joined
<1>10. BytesFrom(bytes, m) /\ Len(bytes) \in Nat
  <2>. DEFINE k == IF Count < Len(joined) THEN Count ELSE Len(joined)
  <2>1. k \in Nat /\ k <= Len(joined) /\ Len(joined) \in Nat
    BY <1>3, <1>8
  <2>2. bytes = SubSeq(joined, 1, k)
    BY DEF Prefix
  <2>. HIDE DEF k, bytes
  <2>3. Len(bytes) = k /\ \A j \in 1 .. k : bytes[j] = joined[j]
    BY <1>8, <2>1, <2>2
  <2>. QED BY <1>8, <2>1, <2>3 DEF BytesFrom
<1>11. Len(bytes) # Count => bytes = joined
  <2>1. Len(joined) \in Nat
    BY <1>8
  <2>2. CASE Count < Len(joined)
    <3>1. bytes = SubSeq(joined, 1, Count)
      BY <2>2 DEF Prefix
    <3>. HIDE DEF bytes
    <3>2. Len(bytes) = Count
      BY <1>3, <1>8, <2>1, <2>2, <3>1
    <3>. QED BY <3>2
  <2>3. CASE ~(Count < Len(joined))
    <3>1. Len(joined) <= Count
      BY <1>3, <2>1, <2>3
    <3>. QED BY <1>3, <1>8, <3>1, PrefixWhole
  <2>. QED BY <2>2, <2>3
<1>. HIDE DEF bytes
<1>12. CASE Len(bytes) = Count
  <2>1. addr \in 0 .. MemSize - 1
    BY <1>3, Sizes
  <2>2. addr % MemSize = addr
    BY <2>1, SmallMod
  <2>. QED BY <1>9, <1>10, <1>12, <2>2 DEF m
<1>13. CASE Len(bytes) # Count
  <2>1. m + Len(joined) = m + Len(latched) + WordBytes
    BY <1>4, <1>5, <1>8, Sizes
  <2>2. WordsFrom(txfifo', m + Len(latched'))
    BY <1>7, <1>9, <1>11, <1>13, <2>1
  <2>. QED BY <1>9, <1>10, <1>13, <2>2 DEF m
<1>. QED BY <1>12, <1>13

LEMMA OwnWire ==
  ASSUME TypeOK, OwnInv, Wire
  PROVE  OwnInv'
<1>1. UNCHANGED <<pc, req, late, link, units>> /\ UNCHANGED <<addr, datn>>
  BY DEF Wire, driver, TakeWord, SendWord, SendStatus, StartErase
<1>2. UNCHANGED <<Asking(req), Count>>
  BY <1>1 DEF Asking, Sectors, Count
<1>. DEFINE c == Asking(req)
<1>3. /\ pc' = "init" => req'.f = "init"
      /\ late' # NoCall => link' = "down"
  BY <1>1 DEF OwnInv
<1>4. CASE TakeWord
  <2>1. comd = "PP"
    BY <1>4 DEF TakeWord
  <2>2. pc \in HeldPcs /\ wip = NoWork /\ late = NoCall /\ Carries(c, units)
    BY <2>1 DEF OwnInv
  <2>3. Page(c, units, addr, Count)
    BY <2>1, <2>2 DEF Carries
  <2>. HIDE DEF c
  <2>4. CASE comd' = "PP"
    <3>1. /\ UNCHANGED wip /\ BytesFrom(latched', addr - c.at)
          /\ WordsFrom(txfifo', addr - c.at + Len(latched'))
      BY <1>4, <2>2, <2>4, CarriedWord DEF Idle
    <3>2. Carries(c, units)'
      <4>1. c' = c
        BY <1>2 DEF c
      <4>2. (addr - c.at)' = addr - c.at
        BY <1>1, <4>1
      <4>3. Page(c, units, addr, Count)'
        BY <1>1, <1>2, <2>3, <4>1 DEF Page
      <4>4. BytesFrom(latched, addr - c.at)'
        BY <3>1, <4>2 DEF BytesFrom
      <4>5. WordsFrom(txfifo, addr - c.at + Len(latched))'
        BY <3>1, <4>2 DEF WordsFrom, BytesFrom
      <4>. QED BY <2>4, <4>3, <4>4, <4>5 DEF Carries
    <3>. QED BY <1>1, <1>3, <2>2, <3>1, <3>2 DEF OwnInv, c
  <2>5. CASE comd' = Idle /\ UNCHANGED wip
    BY <1>1, <1>3, <2>2, <2>5 DEF OwnInv, Idle
  <2>6. CASE /\ comd' = Idle /\ wip'.op = "PP" /\ wip'.at = addr /\ Len(wip'.bytes) = Count
             /\ BytesFrom(wip'.bytes, addr - c.at)
    <3>1. c' = c
      BY <1>2 DEF c
    <3>2. Page(c, units, wip.at, Len(wip.bytes))'
      BY <1>1, <2>3, <2>6, <3>1 DEF Page
    <3>3. BytesFrom(wip.bytes, wip.at - c.at)'
      BY <2>6, <3>1 DEF BytesFrom
    <3>4. WorksOn(c, units)'
      BY <2>6, <3>2, <3>3 DEF WorksOn
    <3>5. pc' # "idle"
      BY <1>1, <2>2 DEF HeldPcs
    <3>. QED BY <1>1, <1>3, <2>2, <2>6, <3>4, <3>5 DEF OwnInv, Idle, c
  <2>. QED BY <1>4, <2>2, <2>4, <2>5, <2>6, CarriedWord
<1>5. CASE StartErase
  <2>1. comd = "SE" /\ comd' = Idle
    BY <1>5 DEF StartErase
  <2>2. pc \in HeldPcs /\ wip = NoWork /\ late = NoCall /\ Carries(c, units)
    BY <2>1 DEF OwnInv
  <2>3. CASE UNCHANGED wip
    BY <1>1, <1>3, <2>1, <2>2, <2>3 DEF OwnInv, Idle
  <2>4. CASE ~UNCHANGED wip
    <3>1. wip' = [op |-> "SE", at |-> addr % MemSize, bytes |-> <<>>]
      BY <1>5, <2>4 DEF StartErase
    <3>2. wip'.op = "SE" /\ wip'.at = addr % MemSize
      BY <3>1
    <3>3. Sector(c, units) /\ addr = c.at + units * SectorSize
      BY <2>1, <2>2 DEF Carries
    <3>. HIDE DEF c
    <3>4. c' = c
      BY <1>2 DEF c
    <3>5. WorksOn(c, units)'
      BY <1>1, <3>2, <3>3, <3>4 DEF WorksOn, Sector
    <3>6. pc' # "idle"
      BY <1>1, <2>2 DEF HeldPcs
    <3>. QED BY <1>1, <1>3, <2>1, <2>2, <3>5, <3>6 DEF OwnInv, Idle, c
  <2>. QED BY <2>3, <2>4
<1>6. CASE SendWord \/ SendStatus
  <2>1. UNCHANGED wip /\ comd' \notin {"SE", "PP"}
    BY <1>6 DEF SendWord, SendStatus, Idle
  <2>2. /\ WorksOn(Asking(req), units)' = WorksOn(Asking(req), units)
        /\ WorksOn(late.call, late.unit)' = WorksOn(late.call, late.unit)
    BY <1>1, <2>1, WorksOnFramed
  <2>. QED BY <1>1, <1>3, <2>1, <2>2 DEF OwnInv
<1>. QED BY <1>4, <1>5, <1>6 DEF Wire

LEMMA OwnCall ==
  ASSUME OwnInv, NEW r \in Requests, Call(r)
  PROVE  OwnInv'
<1>1. /\ pc = "idle" /\ UNCHANGED <<comd, wip, link, late>>
      /\ pc' = "init" => req'.f = "init"
  BY DEF Call, flash
<1>2. comd' \notin {"SE", "PP"} /\ (wip # NoWork => late # NoCall)
  BY <1>1 DEF OwnInv, HeldPcs
<1>3. WorksOn(late.call, late.unit)' = WorksOn(late.call, late.unit)
  BY <1>1 DEF WorksOn, Page, Sector, BytesFrom
<1>. QED BY <1>1, <1>2, <1>3 DEF OwnInv

LEMMA OwnStep ==
  ASSUME FlashInv, WorkInv, OwnInv, CountInv, [Next]_vars
  PROVE  OwnInv'
<1>1. CASE \E r \in Requests : Call(r)
  BY <1>1, OwnCall
<1>2. CASE Steps
  BY <1>2, OwnSteps
<1>3. CASE Wire
  BY <1>3, OwnWire DEF FlashInv
<1>4. CASE Array
  <2>1. /\ UNCHANGED <<pc, req, link, comd>> /\ wip # NoWork /\ wip' = NoWork
        /\ late' \in {late, NoCall}
    BY <1>4 DEF Array, FinishArray
  <2>. QED BY <2>1 DEF OwnInv
<1>5. CASE UNCHANGED vars
  <2>1. UNCHANGED <<pc, req, late, link, units>> /\ UNCHANGED <<comd, addr, datn, latched, txfifo, wip>>
    BY <1>5 DEF vars, flash, driver
  <2>2. /\ WorksOn(Asking(req), units)' = WorksOn(Asking(req), units)
        /\ WorksOn(late.call, late.unit)' = WorksOn(late.call, late.unit)
        /\ Carries(Asking(req), units)' = Carries(Asking(req), units)
    BY <2>1, WorksOnFramed, CarriesFramed
  <2>. QED BY <2>1, <2>2 DEF OwnInv
<1>. QED BY <1>1, <1>2, <1>3, <1>4, <1>5 DEF Next

LEMMA InitOwn ==
  ASSUME Init
  PROVE  OwnInv /\ CountInv
BY DEF Init, FlashInit, OwnInv, CountInv, Idle

-------------------------------------------------------------------------------
(* The steps of FlashStore                                                 *)

\* What FlashStore sees of the state.
StoreCall == IF InCall THEN Asking(req) ELSE NoCall
StoreUnits == IF InCall THEN units ELSE 0
StoreResult == IF ~InCall /\ ret = "ok" /\ req.f = "read"
               THEN [k \in 0 .. req.count - 1 |-> out[k]] ELSE <<>>
StoreState == <<cells, StoreCall, StoreUnits, late, link, ret, StoreResult>>

LEMMA StoreSame ==
  ASSUME UNCHANGED StoreState
  PROVE  UNCHANGED Flashed!store
BY DEF Flashed!store, StoreState, StoreCall, StoreUnits, StoreResult

LEMMA StoreInit ==
  ASSUME Init
  PROVE  Flashed!Init
BY DEF Init, FlashInit, Flashed!Init, Flashed!Cells, Flashed!NoResult, Cells, InCall

LEMMA StoreBegins ==
  ASSUME NEW r \in Requests, Call(r)
  PROVE  Flashed!Next
<1>1. pc = "idle" /\ req' = r /\ units' = 0 /\ UNCHANGED <<cells, late, link>>
  BY DEF Call, flash
<1>2. StoreCall = NoCall /\ StoreUnits = 0
  BY <1>1 DEF StoreCall, StoreUnits, InCall
<1>3. CASE Refused(r)
  <2>1. pc' = "idle" /\ ret' = "error"
    BY <1>3 DEF Call
  <2>2. StoreCall' = NoCall /\ StoreUnits' = 0 /\ StoreResult' = <<>>
    BY <2>1 DEF StoreCall, StoreUnits, StoreResult, InCall
  <2>3. Flashed!Reject
    BY <1>1, <1>2, <2>1, <2>2
    DEF Flashed!Reject, Flashed!NoResult, StoreCall, StoreUnits, StoreResult
  <2>. QED BY <2>3 DEF Flashed!Next
<1>4. CASE ~Refused(r)
  <2>1. pc' # "idle" /\ ret' = "none"
    BY <1>4 DEF Call
  <2>2. StoreCall' = Asking(r)
    BY <1>1, <2>1 DEF StoreCall, InCall, Asking, Sectors
  <2>3. StoreCall' # NoCall
    BY <2>2, NoCallAssumption
  <2>4. StoreUnits' = 0 /\ StoreResult' = <<>>
    BY <1>1, <2>1 DEF StoreUnits, StoreResult, InCall
  <2>5. Flashed!Begin
    BY <1>1, <1>2, <2>1, <2>3, <2>4
    DEF Flashed!Begin, Flashed!NoResult, StoreCall, StoreUnits, StoreResult
  <2>. QED BY <2>5 DEF Flashed!Next
<1>. QED BY <1>3, <1>4

\* A call that returns over a link that works has come to its last unit.
LEMMA AllCounted ==
  ASSUME FlashInv, WorkInv, OwnInv, CountInv, link = "up", pc \in {"init", "on"}
  PROVE  units = Flashed!Units(Asking(req))
<1>1. req \in Requests /\ Work /\ units \in Nat
  BY DEF FlashInv, WorkInv, TypeOK
<1>2. Counted(units)
  BY DEF CountInv, Turn, Changed, WaitPcs
<1>3. CASE req.f = "erase"
  <2>1. done = Total /\ done = SectorSize * units
    BY <1>1, <1>2, <1>3 DEF Work, Ended, OwnInv, Counted
  <2>2. Total = Sectors(req) * SectorSize /\ Sectors(req) \in Nat
    BY <1>1, <1>3, SectorCount DEF Total
  <2>3. SectorSize * units = SectorSize * Sectors(req)
    <3>1. Sectors(req) * SectorSize = SectorSize * Sectors(req)
      BY <2>2, Sizes
    <3>. QED BY <2>1, <2>2, <3>1
  <2>4. units = Sectors(req)
    <3>1. /\ (SectorSize * units) \div SectorSize = units
          /\ (SectorSize * Sectors(req)) \div SectorSize = Sectors(req)
      BY <1>1, <2>2, Sizes, MultipleOf
    <3>. QED BY <2>3, <3>1
  <2>. QED BY <1>3, <2>4 DEF Flashed!Units, Asking
<1>4. CASE req.f = "write"
  <2>1. done = Total
    BY <1>1, <1>4 DEF Work, Ended, OwnInv
  <2>2. ~(done < Total)
    <3>1. Total \in Nat
      BY <1>1, <1>4, Asked DEF Total
    <3>. QED BY <2>1, <3>1
  <2>. QED BY <1>2, <1>4, <2>2 DEF Counted
<1>5. CASE req.f \notin {"erase", "write"}
  <2>1. Asking(req).op \notin {"erase", "write"}
    BY <1>5 DEF Asking
  <2>2. units = 0
    BY <1>2, <1>5 DEF Counted
  <2>. QED BY <2>1, <2>2 DEF Flashed!Units
<1>. QED BY <1>3, <1>4, <1>5

LEMMA StoreReturns ==
  ASSUME FlashInv, WorkInv, OwnInv, CountInv, (Initialise /\ UNCHANGED late) \/ CacheOn
  PROVE  Flashed!Next
<1>1. /\ TypeOK /\ LoopInv /\ Course /\ link \in {"up", "down"} /\ req \in Requests /\ units \in Nat
      /\ WorkInv
  BY DEF FlashInv, TypeOK
<1>2. /\ pc \in {"init", "on"} /\ pc' = "idle" /\ ret' = "ok" /\ Steps
  BY DEF Initialise, CacheOn, Steps, Shared
<1>3. /\ link' \in {"up", "down"} /\ (link' = "up" => link = "up")
      /\ RegisterOp /\ UNCHANGED <<program, req, units>>
  BY <1>1, <1>2, StepsRegisters
<1>4. UNCHANGED <<cells, out>>
  <2>1. UNCHANGED cells
    BY <1>3 DEF RegisterOp, flash, CtrlWrite, AddrWrite, DatnWrite, ComdWrite, WdataWrite, RdataRead
  <2>. QED BY <2>1 DEF Initialise, CacheOn, Rest
<1>5. /\ StoreCall = Asking(req) /\ StoreUnits = units
      /\ StoreCall' = NoCall /\ StoreUnits' = 0
      /\ StoreResult' = IF req.f = "read" THEN [k \in 0 .. req.count - 1 |-> out[k]] ELSE <<>>
  BY <1>2, <1>3, <1>4 DEF StoreCall, StoreUnits, StoreResult, InCall
<1>6. StoreCall # NoCall
  BY <1>1, <1>5, Recorded
<1>7. link' \in {link, "down"}
  BY <1>1, <1>3
<1>8. \/ StoreUnits = Flashed!Units(StoreCall) /\ late' = late
      \/ link' = "down" /\ late' = late
      \/ /\ link' = "down" /\ late = NoCall
         /\ late' = [call |-> StoreCall, unit |-> StoreUnits]
  <2>1. CASE UNCHANGED late
    <3>1. link' = "up" => units = Flashed!Units(Asking(req))
      BY <1>2, <1>3, AllCounted
    <3>. QED BY <1>3, <1>5, <2>1, <3>1
  <2>2. CASE CacheOn /\ ~UNCHANGED late
    <3>1. wip # NoWork /\ late = NoCall /\ late' = [call |-> Asking(req), unit |-> units]
      BY <2>2 DEF CacheOn
    <3>2. link = "down"
      BY <1>1, <2>2, <3>1 DEF Course, OnCourse, RestPcs, CacheOn
    <3>. QED BY <1>3, <1>5, <3>1, <3>2
  <2>. QED BY <2>1, <2>2
<1>9. StoreResult' \in
       IF StoreCall.op # "read" THEN {<<>>}
       ELSE IF link' = "up" THEN {[k \in 0 .. StoreCall.count - 1 |-> cells[StoreCall.at + k]]}
       ELSE [0 .. StoreCall.count - 1 -> Bytes]
  <2>1. CASE req.f # "read"
    <3>1. Asking(req).op # "read"
      BY <2>1 DEF Asking
    <3>. QED BY <1>5, <2>1, <3>1
  <2>2. CASE req.f = "read"
    <3>1. /\ StoreCall.op = "read" /\ StoreCall.at = req.offset /\ StoreCall.count = req.count
          /\ req.offset \in Nat /\ req.count \in Nat /\ req.offset + req.count <= MemSize
      <4>1. Asking(req) = [op |-> "read", at |-> req.offset, count |-> req.count]
        BY <2>2 DEF Asking
      <4>2. Asks(req) /\ ~Refused(req)
        BY <1>1, <1>2 DEF LoopInv
      <4>. QED BY <1>1, <1>5, <2>2, <4>1, <4>2, Asked DEF Asks
    <3>2. StoreResult' = [k \in 0 .. req.count - 1 |-> out[k]]
      BY <1>5, <2>2
    <3>3. ASSUME NEW k \in 0 .. req.count - 1 PROVE out[k] \in Bytes
      <4>1. k \in Cells
        BY <3>1, Sizes DEF Cells
      <4>. QED BY <1>1, <4>1 DEF TypeOK
    <3>4. ASSUME link' = "up", NEW k \in 0 .. req.count - 1
          PROVE  out[k] = cells[req.offset + k]
      <4>1. Work /\ link = "up" /\ pc = "on"
        BY <1>1, <1>2, <1>3, <2>2, <3>4 DEF WorkInv, OwnInv
      <4>2. done = req.count /\ i = 0
        BY <2>2, <4>1 DEF Work, Ended, Total
      <4>3. done + WordBytes * i = req.count
        BY <3>1, <4>2, Sizes
      <4>4. Delivered(req.count)
        BY <2>2, <4>1, <4>3 DEF Work, Achieved, Underway
      <4>5. k < req.count
        BY <3>1
      <4>. QED BY <4>4, <4>5 DEF Delivered
    <3>5. link' = "up" => StoreResult' = [k \in 0 .. req.count - 1 |-> cells[req.offset + k]]
      BY <3>2, <3>4
    <3>6. StoreResult' \in [0 .. req.count - 1 -> Bytes]
      BY <3>2, <3>3
    <3>. QED BY <3>1, <3>5, <3>6
  <2>. QED BY <2>1, <2>2
<1>10. Flashed!Return
  BY <1>2, <1>4, <1>5, <1>6, <1>7, <1>8, <1>9
  DEF Flashed!Return, Flashed!NoResult, StoreCall, StoreUnits, StoreResult
<1>. QED BY <1>10 DEF Flashed!Next

LEMMA StoreGoesOn ==
  ASSUME TypeOK, Steps, pc' # "idle", UNCHANGED <<late, ret>>
  PROVE  [Flashed!Next]_(Flashed!store)
<1>1. /\ RegisterOp /\ UNCHANGED <<req, units>> /\ pc # "idle"
      /\ link' = link \/ link' = "down"
  <2>1. link \in {"up", "down"}
    BY DEF TypeOK
  <2>. QED BY <2>1, StepsRegisters
<1>2. UNCHANGED cells
  BY <1>1 DEF RegisterOp, flash, CtrlWrite, AddrWrite, DatnWrite, ComdWrite, WdataWrite, RdataRead
<1>3. UNCHANGED <<StoreCall, StoreUnits, StoreResult>>
  BY <1>1 DEF StoreCall, StoreUnits, StoreResult, InCall, Asking, Sectors
<1>4. CASE link' = link
  BY <1>2, <1>3, <1>4, StoreSame DEF StoreState
<1>5. CASE link' = "down"
  <2>1. Flashed!Break
    BY <1>2, <1>3, <1>5 DEF Flashed!Break, StoreCall, StoreUnits, StoreResult
  <2>. QED BY <2>1 DEF Flashed!Next
<1>. QED BY <1>1, <1>4, <1>5

LEMMA StoreChanges ==
  ASSUME TypeOK, OwnInv, Array
  PROVE  Flashed!Next
<1>1. /\ UNCHANGED <<pc, req, out, ret, link>> /\ FinishArray /\ wip # NoWork
      /\ req \in Requests /\ units \in Nat
  BY DEF Array, FinishArray, TypeOK
<1>2. UNCHANGED <<StoreCall, StoreResult>>
  BY <1>1 DEF StoreCall, StoreResult, InCall, Asking, Sectors
<1>3. CASE late = NoCall
  <2>1. pc # "idle" /\ WorksOn(Asking(req), units)
    BY <1>1, <1>3 DEF OwnInv
  <2>2. units' = units + 1 /\ late' = late
    BY <1>3 DEF Array
  <2>3. StoreCall = Asking(req) /\ StoreUnits = units /\ StoreUnits' = units + 1
    BY <1>1, <2>1, <2>2 DEF StoreCall, StoreUnits, InCall
  <2>4. cells' = Flashed!After(Asking(req), units)
    BY <1>1, <2>1, UnitChanges
  <2>5. units < Flashed!Units(Asking(req))
    <3>1. CASE Sector(Asking(req), units)
      BY <3>1 DEF Sector, Flashed!Units
    <3>2. CASE Page(Asking(req), units, wip.at, Len(wip.bytes))
      BY <3>2, PageUnits
    <3>. QED BY <2>1, <3>1, <3>2 DEF WorksOn
  <2>6. StoreCall # NoCall
    BY <1>1, <2>3, Recorded
  <2>7. Flashed!Change
    <3>1. StoreUnits < Flashed!Units(StoreCall) /\ cells' = Flashed!After(StoreCall, StoreUnits)
      BY <2>3, <2>4, <2>5
    <3>2. StoreUnits' = StoreUnits + 1
      BY <2>3
    <3>. QED BY <1>1, <1>2, <1>3, <2>2, <2>6, <3>1, <3>2
         DEF Flashed!Change, StoreCall, StoreUnits, StoreResult
  <2>. QED BY <2>7 DEF Flashed!Next
<1>4. CASE late # NoCall
  <2>1. late' = NoCall /\ UNCHANGED units
    BY <1>4 DEF Array
  <2>2. WorksOn(late.call, late.unit)
    BY <1>1, <1>4 DEF OwnInv
  <2>3. cells' = Flashed!After(late.call, late.unit)
    BY <1>1, <2>2, UnitChanges
  <2>4. UNCHANGED StoreUnits
    BY <1>1, <2>1 DEF StoreUnits, InCall
  <2>5. Flashed!ChangeLate
    BY <1>1, <1>2, <1>4, <2>1, <2>3, <2>4
    DEF Flashed!ChangeLate, StoreCall, StoreUnits, StoreResult
  <2>. QED BY <2>5 DEF Flashed!Next
<1>. QED BY <1>3, <1>4

\* Every step is a step of FlashStore or leaves what it sees as it was.
LEMMA StoreStep ==
  ASSUME FlashInv, WorkInv, OwnInv, CountInv, [Next]_vars
  PROVE  [Flashed!Next]_(Flashed!store)
<1>1. TypeOK /\ link \in {"up", "down"}
  BY DEF FlashInv, TypeOK
<1>2. CASE \E r \in Requests : Call(r)
  BY <1>2, StoreBegins
<1>3. CASE Steps
  BY <1>1, <1>3, StepsGo, StoreReturns, StoreGoesOn
<1>4. CASE Wire \/ UNCHANGED vars
  <2>1. UNCHANGED cells /\ UNCHANGED <<pc, req, out, ret, link, units, late>>
    BY <1>4 DEF Wire, TakeWord, SendWord, SendStatus, StartErase, driver, vars, flash
  <2>2. UNCHANGED <<StoreCall, StoreUnits, StoreResult>>
    BY <2>1 DEF StoreCall, StoreUnits, StoreResult, InCall, Asking, Sectors
  <2>. QED BY <2>1, <2>2, StoreSame DEF StoreState
<1>5. CASE Array
  BY <1>1, <1>5, StoreChanges
<1>. QED BY <1>2, <1>3, <1>4, <1>5 DEF Next

-------------------------------------------------------------------------------
(* The theorem                                                             *)

\* flash_erase, flash_write and flash_read are the calls of FlashStore: the
\* sectors and pages of a call change in order, each of them whole and once; 0
\* over a link that works comes after the last of them, and with the bytes that
\* are there; and of a call that a broken link ends early or for ever no more
\* than the unit that was under way changes later.
THEOREM Implements == Spec => StoreSpec
<1>1. Init => FlashInv /\ WorkInv /\ OwnInv /\ CountInv /\ Flashed!Init
  BY InitInv, InitWork, InitOwn, StoreInit
<1>2. FlashInv /\ WorkInv /\ OwnInv /\ CountInv /\ [Next]_vars
        => FlashInv' /\ WorkInv' /\ OwnInv' /\ CountInv'
  BY NextInv, WorkStep, OwnStep, CountStep
<1>3. FlashInv /\ WorkInv /\ OwnInv /\ CountInv /\ [Next]_vars => [Flashed!Next]_(Flashed!store)
  BY StoreStep
<1>. QED BY <1>1, <1>2, <1>3, PTL DEF Spec, StoreSpec, Flashed!Spec
=============================================================================
